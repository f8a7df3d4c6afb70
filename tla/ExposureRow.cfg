SPECIFICATION Spec
CONSTANTS
  w1 = w1
  w2 = w2
  exec = exec
  sweep = sweep
  nojob = nojob
  Window = {w1, w2}
  MaxPos = 1
  MaxCrashes = 0
  Executor = exec
  Sweep = sweep
  NoJob = nojob
INVARIANTS
  RowIsEnforced
CHECK_DEADLOCK FALSE
