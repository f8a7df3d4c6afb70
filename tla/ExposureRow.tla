----------------------------- MODULE ExposureRow -----------------------------
(***************************************************************************)
(* The exposure row of one asset: what the engine tells the dashboard it is *)
(* enforcing.  Three kinds of goroutine change an inventory and then         *)
(* refresh the row, each by reading the exposure under the engine's lock     *)
(* and writing the row without it: the executor after a fill's receipt, the  *)
(* sweep after an execution it found, and each window's loop when it is      *)
(* reaped.  core/internal/maker/engine.go.                                  *)
(***************************************************************************)
EXTENDS Integers, Functions

CONSTANTS
  Window,      \* the asset's windows
  MaxPos,      \* bound on a window's position, either way
  MaxCrashes,  \* bound on the restarts
  Executor, Sweep,  \* the two writers that are not a window's loop
  NoJob        \* a writer that is not booking an execution

Writer == Window \cup {Executor, Sweep}

VARIABLES
  inv,     \* Engine.inv: the position each window has in memory
  booked,  \* the position each window has in the ledger
  filled,  \* windows the ledger has a fill of
  open,    \* windows whose loop has not been reaped
  settled, \* windows the ledger has a settlement of
  at,      \* where each writer is
  seen,    \* the exposure each writer has read and not yet written
  job,     \* the execution the executor and the sweep are booking
  row,     \* the exposure row's net_up; 0 while there is no row
  crashes,
  \* History, read by properties only.
  fresh,   \* writers that have read the exposure as it still is
  current, \* the row was written by a writer of fresh and nothing changed since
  excuses  \* what else has happened that can leave the row wrong

engine == <<inv, booked, filled, open, settled, job>>
history == <<fresh, current, excuses>>
vars == <<engine, at, seen, row, crashes, history>>

Exposure == SumFunctionOnSet(inv, Window)
Init ==
  /\ inv = [m \in Window |-> 0] /\ booked = [m \in Window |-> 0]
  /\ filled = {} /\ open = Window /\ settled = {}
  /\ at = [w \in Writer |-> "idle"] /\ seen = [w \in Writer |-> 0]
  /\ job = [w \in {Executor, Sweep} |-> NoJob]
  /\ row = Exposure  \* 0: no row, nothing held
  /\ crashes = 0
  /\ fresh = {} /\ current = TRUE /\ excuses = {}
-----------------------------------------------------------------------------
Job(m, q) == [m |-> m, q |-> q]
Goes(w, to) == at' = [at EXCEPT ![w] = to]
\* A writer changes an inventory, under the lock.
Changes(w, m, pos) ==
  /\ inv' = [inv EXCEPT ![m] = pos] /\ Goes(w, "changed")
  /\ fresh' = {} /\ current' = FALSE
  /\ UNCHANGED <<seen, row, crashes, excuses>>

\* A receipt of a fill: in memory first, then the row, then the ledger.
Book(m, q) ==
  /\ at[Executor] = "idle" /\ m \in open
  /\ inv[m] + q \in -MaxPos..MaxPos
  /\ Changes(Executor, m, inv[m] + q)
  /\ job' = [job EXCEPT ![Executor] = Job(m, q)]
  /\ UNCHANGED <<booked, filled, open, settled>>
RecordFill ==
  /\ at[Executor] = "written" /\ Goes(Executor, "idle")
  /\ booked' = [booked EXCEPT ![job[Executor].m] = @ + job[Executor].q]
  /\ filled' = filled \cup {job[Executor].m}
  /\ job' = [job EXCEPT ![Executor] = NoJob]
  /\ UNCHANGED <<inv, open, settled, seen, row, crashes, history>>

\* An execution the sweep finds, of any window it knows: the ledger first.
Ingest(m, q) ==
  /\ at[Sweep] = "idle" /\ booked[m] + q \in -MaxPos..MaxPos
  /\ Goes(Sweep, "ingested")
  /\ booked' = [booked EXCEPT ![m] = @ + q] /\ filled' = filled \cup {m}
  /\ job' = [job EXCEPT ![Sweep] = Job(m, q)]
  /\ UNCHANGED <<inv, open, settled, seen, row, crashes, history>>
AddInventory ==
  /\ at[Sweep] = "ingested"
  /\ Changes(Sweep, job[Sweep].m, inv[job[Sweep].m] + job[Sweep].q)
  /\ job' = [job EXCEPT ![Sweep] = NoJob]
  /\ UNCHANGED <<booked, filled, open, settled>>

\* A window is over: its inventory goes, and its share of the exposure with it.
Reap(m) ==
  /\ m \in open /\ at[m] = "idle"
  /\ open' = open \ {m} /\ Changes(m, m, 0)
  /\ UNCHANGED <<booked, filled, settled, job>>
Settle(m) ==
  /\ m \notin open \cup settled /\ settled' = settled \cup {m}
  /\ UNCHANGED <<inv, booked, filled, open, job, at, seen, row, crashes, history>>
-----------------------------------------------------------------------------
\* persistExposure: the exposure is read under the lock,
ReadExposure(w) ==
  /\ at[w] = "changed" /\ Goes(w, "read")
  /\ seen' = [seen EXCEPT ![w] = Exposure]
  /\ fresh' = fresh \cup {w}
  /\ UNCHANGED <<engine, row, crashes, current, excuses>>
\* and the row written after it was released, by whoever comes first.
Done(w) == Goes(w, IF w = Executor THEN "written" ELSE "idle")
WriteRow(w) ==
  /\ at[w] = "read" /\ Done(w)
  /\ row' = seen[w]
  /\ current' = (w \in fresh) /\ fresh' = fresh \ {w}
  /\ excuses' = IF current /\ w \notin fresh THEN excuses \cup {"overtaken"} ELSE excuses
  /\ UNCHANGED <<engine, seen, crashes>>
\* A write that fails is logged and not repeated.
WriteFails(w) ==
  /\ at[w] = "read" /\ Done(w)
  /\ fresh' = fresh \ {w} /\ excuses' = excuses \cup {"failed"}
  /\ UNCHANGED <<engine, seen, row, crashes, current>>

\* The process dies and starts again: the positions of the windows that have not
\* settled come back from the ledger, and the row is rewritten only if it has a
\* fill of one of them.
Restored(m) == IF m \in settled THEN 0 ELSE booked[m]
Restart ==
  /\ crashes < MaxCrashes /\ crashes' = crashes + 1
  /\ inv' = [m \in Window |-> Restored(m)]
  /\ at' = [w \in Writer |-> "idle"] /\ job' = [w \in {Executor, Sweep} |-> NoJob]
  /\ row' = IF filled \ settled # {} THEN Exposure' ELSE row
  /\ fresh' = {} /\ current' = FALSE /\ excuses' = excuses \cup {"restarted"}
  /\ UNCHANGED <<booked, filled, open, settled, seen>>
-----------------------------------------------------------------------------
Next ==
  \/ \E m \in Window : Reap(m) \/ Settle(m) \/ \E q \in {-1, 1} : Book(m, q) \/ Ingest(m, q)
  \/ RecordFill \/ AddInventory \/ Restart
  \/ \E w \in Writer : ReadExposure(w) \/ WriteRow(w) \/ WriteFails(w)
Spec == Init /\ [][Next]_vars

Quiet == \A w \in Writer : at[w] \in {"idle", "written", "ingested"}
\* "so the dashboard -- a separate process -- can show the same number this engine
\* is actually enforcing" (engine.go:1030-1033): once every writer is through, the
\* row is the exposure the cap is compared with.
RowIsEnforced == Quiet /\ excuses \subseteq {"overtaken"} => row = Exposure

\* The row is the exposure once every writer is through, unless a writer put an
\* older value over a newer one, a write failed or the process was restarted
\* (engine.go:1034-1042, 1044-1070).
RowWrongOnlyIfOvertaken == Quiet /\ excuses = {} => row = Exposure
=============================================================================
