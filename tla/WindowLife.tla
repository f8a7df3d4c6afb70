------------------------------ MODULE WindowLife ------------------------------
(***************************************************************************)
(* The life of the windows an engine trades, across restarts: discovery,    *)
(* set-up, the executions of its orders, the end, the settlement the engine  *)
(* watches for and the position it remembers meanwhile.                     *)
(* core/internal/maker/engine.go, core/internal/ledger/ledger.go.           *)
(* Engine has the orders and the prices; here a step of the venue, of memory *)
(* or of the ledger that can fail on its own is a step of its own.          *)
(***************************************************************************)
EXTENDS Integers

CONSTANTS
  Window,
  MaxFills,    \* bound on the executions a ledger holds of a window when it trades
  MaxCrashes,  \* bound on the restarts
  Faults,      \* what may fail: "setup", "upsert", "record", "settle", "timeout"
  None         \* no window, no outcome

Outcome == {"zero", "one", "voided"}

ASSUME NoneAssumption == None \notin Window

VARIABLES
  phase,    \* the market at the venue
  unseen,   \* windows with an execution the sweep has not ingested yet
  loop,     \* the window's loop: "off", "setup" or "quoting"
  watch,    \* its settle goroutine: "off", "waiting", "resolved" or "known"
  found,    \* the outcome that goroutine has read
  inv,      \* Engine.inv
  tracked,  \* Engine.marketAsset: windows whose inventory counts as exposure
  order,    \* windows that have an order in the executor's hands
  job,      \* the window whose receipt the executor has half booked
  sweep,    \* the window whose execution the sweep has half booked
  row,      \* the window's row: "none", "open" or how it is settled
  booked,   \* the position its fills in the ledger add up to
  crashes,
  excuses   \* history: what happened to a window that can leave it wrong; "not watched"
            \* from a restart or a failed set-up to the next loop

venue == <<phase, unseen>>
loops == <<loop, watch, found>>
memory == <<inv, tracked, order, job, sweep>>
ledger == <<row, booked>>
vars == <<venue, loops, memory, ledger, crashes, excuses>>

Init ==
  /\ phase = [m \in Window |-> "live"] /\ unseen = {}
  /\ loop = [m \in Window |-> "off"] /\ watch = [m \in Window |-> "off"]
  /\ found = [m \in Window |-> None]
  /\ inv = [m \in Window |-> 0] /\ tracked = {} /\ order = {}
  /\ job = None /\ sweep = None
  /\ row = [m \in Window |-> "none"] /\ booked = [m \in Window |-> 0]
  /\ crashes = 0 /\ excuses = [m \in Window |-> {}]

Excuse(m, what) == excuses' = [excuses EXCEPT ![m] = @ \cup what]
-----------------------------------------------------------------------------
\* The venue: a window expires, and later the oracle's answer resolves or voids it.
Expire(m) ==
  /\ phase[m] = "live" /\ phase' = [phase EXCEPT ![m] = "over"]
  /\ UNCHANGED <<unseen, loops, memory, ledger, crashes, excuses>>
Resolve(m) ==
  /\ phase[m] = "over" /\ \E o \in Outcome : phase' = [phase EXCEPT ![m] = o]
  /\ UNCHANGED <<unseen, loops, memory, ledger, crashes, excuses>>
\* A counterparty takes what rests of a window's order.
Counterparty(m) ==
  /\ phase[m] = "live" /\ loop[m] = "quoting" /\ m \notin unseen /\ booked[m] < MaxFills
  /\ unseen' = unseen \cup {m}
  /\ UNCHANGED <<phase, loops, memory, ledger, crashes, excuses>>

\* discover: the list it works through may be older than the window's end.
Spawn(m) ==
  /\ phase[m] \in {"live", "over"} /\ loop[m] = "off"
  /\ loop' = [loop EXCEPT ![m] = "setup"] /\ tracked' = tracked \cup {m}
  /\ UNCHANGED <<venue, watch, found, inv, order, job, sweep, ledger, crashes, excuses>>

\* A failed upsert is logged, and the window quoted all the same.
SetupDone(m) ==
  /\ loop[m] = "setup" /\ phase[m] = "live"
  /\ loop' = [loop EXCEPT ![m] = "quoting"]
  /\ \/ row' = [row EXCEPT ![m] = IF @ = "none" THEN "open" ELSE @]
     \/ "upsert" \in Faults /\ UNCHANGED row
  /\ excuses' = [excuses EXCEPT ![m] = (@ \ {"not watched"})
                                        \cup (IF row'[m] = "none" THEN {"no row"} ELSE {})]
  /\ UNCHANGED <<venue, watch, found, memory, booked, crashes>>

BugReap(m) ==
  /\ loop' = [loop EXCEPT ![m] = "off"]
  /\ inv' = [inv EXCEPT ![m] = 0] /\ tracked' = tracked
\* reap: what memory holds of the window goes.
Reap(m) ==
  /\ loop' = [loop EXCEPT ![m] = "off"]
  /\ inv' = [inv EXCEPT ![m] = 0] /\ tracked' = tracked \ {m}
\* The venue fails a read or an approval; it always does past the deadline.
SetupFails(m) ==
  /\ loop[m] = "setup" /\ ("setup" \in Faults \/ phase[m] # "live")
  /\ Reap(m)
  /\ Excuse(m, {"not watched"} \cup IF inv[m] = 0 THEN {} ELSE {"position forgotten"})
  /\ UNCHANGED <<venue, watch, found, order, job, sweep, ledger, crashes>>

\* A quote or a take: one intent of a loop is out at a time.
Place(m) ==
  /\ loop[m] = "quoting" /\ phase[m] = "live" /\ m \notin order /\ job # m
  /\ booked[m] < MaxFills /\ inv[m] < MaxFills
  /\ order' = order \cup {m}
  /\ UNCHANGED <<venue, loops, inv, tracked, job, sweep, ledger, crashes, excuses>>

BugEnd(m) ==
  /\ loop[m] = "quoting" /\ phase[m] # "live"
  /\ watch' = watch
  /\ Reap(m)
  /\ UNCHANGED <<venue, found, order, job, sweep, ledger, crashes, excuses>>
\* Whichever branch of the loop sees the end, a watcher takes over; the loop does not
\* wait for a reply that is still out.
End(m) ==
  /\ loop[m] = "quoting" /\ phase[m] # "live"
  /\ watch' = [watch EXCEPT ![m] = "waiting"]
  /\ Reap(m)
  /\ UNCHANGED <<venue, found, order, job, sweep, ledger, crashes, excuses>>
-----------------------------------------------------------------------------
\* The executor: an order fills or not, or its receipt is given up and only the sweep
\* will find the fill.  A fill in a receipt goes to memory, then to the ledger, and the
\* sweep finds it once more.
NoFill(m) ==
  /\ m \in order /\ job = None /\ order' = order \ {m}
  /\ unseen' \in {unseen, unseen \cup {m}}
  /\ UNCHANGED <<phase, loops, inv, tracked, job, sweep, ledger, crashes, excuses>>
Receipt(m) ==
  /\ m \in order /\ job = None
  /\ order' = order \ {m} /\ job' = m /\ unseen' = unseen \cup {m}
  /\ inv' = [inv EXCEPT ![m] = @ + 1]
  /\ UNCHANGED <<phase, loops, tracked, sweep, ledger, crashes, excuses>>
RecordFill ==
  /\ job # None /\ job' = None
  /\ \/ booked' = [booked EXCEPT ![job] = @ + 1] /\ UNCHANGED excuses
     \/ "record" \in Faults /\ Excuse(job, {"fill not recorded"}) /\ UNCHANGED booked
  /\ UNCHANGED <<venue, loops, inv, tracked, order, sweep, row, crashes>>

\* reconcile: an execution of a window the ledger knows, into the ledger first and,
\* when that succeeds, into memory, whether or not the window still has a loop.
Ingest(m) ==
  /\ m \in unseen /\ sweep = None /\ row[m] # "none"
  /\ unseen' = unseen \ {m} /\ sweep' = m
  /\ booked' = [booked EXCEPT ![m] = @ + 1]
  /\ UNCHANGED <<phase, loops, inv, tracked, order, job, row, crashes, excuses>>
AddInventory ==
  /\ sweep # None /\ sweep' = None
  /\ tracked' = tracked \cup {sweep} /\ inv' = [inv EXCEPT ![sweep] = @ + 1]
  /\ Excuse(sweep, IF phase[sweep] = "live" \/ loop[sweep] # "off" THEN {} ELSE {"late fill"})
  /\ UNCHANGED <<venue, loops, order, job, ledger, crashes>>

BugLook(m) ==
  /\ watch[m] = "waiting"
  /\ IF phase[m] = "voided"
     THEN watch' = [watch EXCEPT ![m] = "known"] /\ found' = [found EXCEPT ![m] = "voided"]
     ELSE watch' = [watch EXCEPT ![m] = "resolved"] /\ UNCHANGED found
  /\ UNCHANGED <<venue, loop, memory, ledger, crashes, excuses>>
\* settle: it asks until the market is resolved or voided,
Look(m) ==
  /\ watch[m] = "waiting" /\ phase[m] \in Outcome
  /\ IF phase[m] = "voided"
     THEN watch' = [watch EXCEPT ![m] = "known"] /\ found' = [found EXCEPT ![m] = "voided"]
     ELSE watch' = [watch EXCEPT ![m] = "resolved"] /\ UNCHANGED found
  /\ UNCHANGED <<venue, loop, memory, ledger, crashes, excuses>>
BugReadWinner(m) ==
  /\ watch[m] = "resolved"
  /\ watch' = [watch EXCEPT ![m] = "known"]
  /\ found' \in {[found EXCEPT ![m] = phase[m]], [found EXCEPT ![m] = "zero"]}
  /\ UNCHANGED <<venue, loop, memory, ledger, crashes, excuses>>
\* never guesses the winner: a read that fails starts over,
ReadWinner(m) ==
  /\ watch[m] = "resolved"
  /\ \/ watch' = [watch EXCEPT ![m] = "known"] /\ found' = [found EXCEPT ![m] = phase[m]]
     \/ "timeout" \in Faults /\ watch' = [watch EXCEPT ![m] = "waiting"] /\ UNCHANGED found
  /\ UNCHANGED <<venue, loop, memory, ledger, crashes, excuses>>
\* and writes once, whether or not there is a row to update or the write succeeds.
Settle(m) ==
  /\ watch[m] = "known" /\ watch' = [watch EXCEPT ![m] = "off"]
  /\ \/ /\ row' = [row EXCEPT ![m] = IF @ = "none" THEN @ ELSE found[m]]
        /\ UNCHANGED excuses
     \/ "settle" \in Faults /\ Excuse(m, {"not recorded"}) /\ UNCHANGED row
  /\ UNCHANGED <<venue, loop, found, memory, booked, crashes>>
Timeout(m) ==
  /\ watch[m] = "waiting" /\ "timeout" \in Faults
  /\ watch' = [watch EXCEPT ![m] = "off"] /\ Excuse(m, {"timeout"})
  /\ UNCHANGED <<venue, loop, found, memory, ledger, crashes>>

\* The process stops and starts again: loops, watchers and intents are gone, and
\* memory holds the position of every window that has fills and an unsettled row.
BugRestored(m) == booked[m] # 0 /\ row[m] \in Outcome
Restored(m) == booked[m] # 0 /\ row[m] = "open"
Restart ==
  /\ crashes < MaxCrashes /\ crashes' = crashes + 1
  /\ loop' = [m \in Window |-> "off"] /\ watch' = [m \in Window |-> "off"]
  /\ found' = [m \in Window |-> None]
  /\ inv' = [m \in Window |-> IF Restored(m) THEN booked[m] ELSE 0]
  /\ tracked' = {m \in Window : Restored(m)}
  /\ order' = {} /\ job' = None /\ sweep' = None
  /\ \E landed \in SUBSET order : unseen' = unseen \cup landed
  /\ excuses' = [m \in Window |-> excuses[m] \cup {"not watched"}]
  /\ UNCHANGED <<phase, ledger>>
-----------------------------------------------------------------------------
Loop(m) == Spawn(m) \/ SetupDone(m) \/ SetupFails(m) \/ Place(m) \/ End(m)
Watcher(m) == Look(m) \/ ReadWinner(m) \/ Settle(m) \/ Timeout(m)
Next == \/ \E m \in Window : \/ Expire(m) \/ Resolve(m) \/ Loop(m) \/ Watcher(m)
                             \/ NoFill(m) \/ Receipt(m)
                             \/ Counterparty(m) \/ Ingest(m)
        \/ RecordFill \/ AddInventory \/ Restart
Spec == Init /\ [][Next]_vars

\* Goroutines run and their calls return; the venue resolves what has expired.  After
\* ten minutes every read fails, and only the timeout is left.
Fairness ==
  /\ \A m \in Window :
       /\ WF_vars(Expire(m)) /\ WF_vars(Resolve(m)) /\ WF_vars(End(m))
       /\ WF_vars(SetupDone(m) \/ SetupFails(m))
       /\ WF_vars(NoFill(m) \/ Receipt(m))
       /\ WF_vars(Look(m)) /\ WF_vars(ReadWinner(m)) /\ WF_vars(Settle(m))
       /\ SF_vars(Timeout(m))
  /\ WF_vars(RecordFill) /\ WF_vars(AddInventory)
FairSpec == Spec /\ Fairness
=============================================================================
