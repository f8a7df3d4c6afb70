---------------------------- MODULE LedgerProofs ----------------------------
(***************************************************************************)
(* What reaches the ledger is what happened, and memory is the ledger: for *)
(* any number of windows and any mix of the environment's moves, with      *)
(* receipts and sweeps writing at the same time, transactions mined late   *)
(* and crashes at any point.  Then the caps on exposure, without crashes.  *)
(***************************************************************************)
EXTENDS EngineProofs, DataTheorems, FiniteSetTheorems

\* Executions are numbered in the order they happen.
FillsNumbered ==
  /\ IsFiniteSet(fills)
  /\ \A f \in fills : f.id \in 1..Cardinality(fills)

\* The indexer's record of an execution gives our side back.
FillsSided == \A f \in fills : OurSide(f) = f.side

\* What a receipt told the executor is an execution of its intent.
Saw(id, in, got) ==
  \E f \in fills : f.id = id /\ f.m = in.m /\ f.side = in.side /\ f.qty = got
ExecutorSaw ==
  /\ ex.at = "row" => ex.got # 0
  /\ ex.at \in {"receipt", "row"} /\ ex.got # 0 => Saw(ex.id, ex.in, ex.got)

TruthInv == FillsNumbered /\ FillsSided /\ ExecutorSaw /\ LedgerTellsTheTruth

\* One more execution keeps the numbering and is the last of it.
LEMMA OneMoreExecution ==
  ASSUME FillsNumbered, FillsSided, NEW f,
         f.id = Cardinality(fills) + 1, OurSide(f) = f.side, fills' = fills \cup {f}
  PROVE  FillsNumbered' /\ FillsSided' /\ f \in fills' /\ f.id = Cardinality(fills')
<1> DEFINE n == Cardinality(fills)
<1>1. n \in Nat /\ IsFiniteSet(fills)
  BY FS_CardinalityType DEF FillsNumbered
<1>2. f \notin fills
  BY <1>1 DEF FillsNumbered
<1>3. IsFiniteSet(fills') /\ Cardinality(fills') = n + 1
  BY <1>1, <1>2, FS_AddElement
<1>4. FillsNumbered'
  <2>1. ASSUME NEW g \in fills'
        PROVE  g.id \in 1..(n + 1)
    <3>1. CASE g = f
      BY <1>1, <3>1
    <3>2. CASE g \in fills
      BY <1>1, <3>2 DEF FillsNumbered
    <3> QED BY <3>1, <3>2
  <2> QED BY <1>3, <2>1 DEF FillsNumbered
<1>5. FillsSided'
  BY DEF FillsSided, OurSide
<1> QED BY <1>3, <1>4, <1>5

\* A placement that is mined executes once or not at all.
LEMMA MinedExecution ==
  ASSUME FillsNumbered, FillsSided, NEW in \in Intent, NEW got, NEW late,
         PlacementMined(in, got, late)
  PROVE  /\ FillsNumbered' /\ FillsSided' /\ fills \subseteq fills'
         /\ got # 0 => \E f \in fills' : /\ f.id = Cardinality(fills') /\ f.m = in.m
                                        /\ f.side = in.side /\ f.qty = got
<1>1. CASE fills' = fills /\ got = 0
  BY <1>1 DEF FillsNumbered, FillsSided
<1>2. CASE fills' = fills \cup {ExecutionOf(in.m, in.side, got, TRUE)}
  <2> DEFINE f == ExecutionOf(in.m, in.side, got, TRUE)
  <2>1. in.side \in Side
    BY DEF Intent
  <2>2. /\ f.id = Cardinality(fills) + 1 /\ f.m = in.m /\ f.side = in.side /\ f.qty = got
        /\ OurSide(f) = f.side
    BY <2>1 DEF ExecutionOf, OurSide, Side
  <2>3. fills' = fills \cup {f}
    BY <1>2
  <2> HIDE DEF f
  <2>4. FillsNumbered' /\ FillsSided' /\ f \in fills' /\ f.id = Cardinality(fills')
    BY <2>2, <2>3, OneMoreExecution
  <2> QED BY <2>2, <2>3, <2>4
<1> QED BY <1>1, <1>2 DEF PlacementMined

\* More executions do not make a true row false.
LEMMA TruthIsKept ==
  ASSUME fills \subseteq fills'
  PROVE  /\ rows' = rows /\ LedgerTellsTheTruth => LedgerTellsTheTruth'
         /\ \A id, in, got : Saw(id, in, got) => Saw(id, in, got)'
BY DEF LedgerTellsTheTruth, Saw
-----------------------------------------------------------------------------
LEMMA TruthInductive ==
  IInv /\ TruthInv /\ [Next]_vars => TruthInv'
<1> SUFFICES ASSUME IInv, TruthInv, [Next]_vars
             PROVE  TruthInv'
  OBVIOUS
<1> USE DEF TruthInv
\* Neither an execution nor a row is added; the executor learns nothing new.
<1>q. ASSUME UNCHANGED <<fills, rows>>, ex'.at \notin {"receipt", "row"} \/ UNCHANGED ex
      PROVE  TruthInv'
  BY <1>q DEF FillsNumbered, FillsSided, ExecutorSaw, Saw, LedgerTellsTheTruth
<1>r. ASSUME Reply, UNCHANGED <<fills, rows>>
      PROVE  TruthInv'
  BY <1>q, <1>r DEF Reply, IdleEx
<1>1. ASSUME NEW o \in book, NEW q \in 1..o.rem, CounterpartyFills(o, q)
      PROVE  TruthInv'
  <2> DEFINE f == ExecutionOf(o.m, o.side, q, FALSE)
  <2>1. o.side \in Side /\ fills' = fills \cup {f}
    BY <1>1 DEF IInv, VenueTypeOK, Order, CounterpartyFills
  <2>2. FillsNumbered' /\ FillsSided' /\ fills \subseteq fills'
    <3>1. f.id = Cardinality(fills) + 1 /\ OurSide(f) = f.side
      BY <2>1 DEF ExecutionOf, OurSide, Side
    <3> HIDE DEF f
    <3> QED BY <2>1, <3>1, OneMoreExecution
  <2>3. ex' = ex /\ rows' = rows
    BY <1>1 DEF CounterpartyFills, ledger
  <2> QED BY <2>2, <2>3, TruthIsKept DEF ExecutorSaw
<1>2. ASSUME NEW got \in 0..Size, SendLands(got)
      PROVE  TruthInv'
  <2>1. ex.in \in Intent /\ rows' = rows
    BY <1>2 DEF SendLands, IInv, ControlTypeOK, ledger
  <2>2. /\ FillsNumbered' /\ FillsSided' /\ fills \subseteq fills'
        /\ got # 0 => \E f \in fills' : /\ f.id = Cardinality(fills') /\ f.m = ex.in.m
                                       /\ f.side = ex.in.side /\ f.qty = got
    BY <1>2, <2>1, MinedExecution DEF SendLands
  <2>3. /\ ex'.in = ex.in /\ ex'.id = Cardinality(fills') /\ ex'.got = got
        /\ ex'.at = "receipt"
    BY <1>2 DEF SendLands, IInv, ControlTypeOK
  <2>4. ExecutorSaw'
    BY <2>2, <2>3 DEF ExecutorSaw, Saw
  <2> QED BY <2>1, <2>2, <2>4, TruthIsKept
<1>3. CASE LateMined
  <2>1. /\ mempool \in Seq(Intent) /\ mempool # <<>> /\ ex' = ex /\ rows' = rows
    BY <1>3 DEF LateMined, IInv, VenueTypeOK, ledger
  <2>2. Head(mempool) \in Intent
    BY <2>1, QueuedAfterReceive
  <2>3. CASE fills' = fills
    BY <1>q, <2>1, <2>3
  <2>4. CASE \E got \in 0..Size : PlacementMined(Head(mempool), got, TRUE)
    <3>1. FillsNumbered' /\ FillsSided' /\ fills \subseteq fills'
      BY <2>2, <2>4, MinedExecution
    <3> QED BY <2>1, <3>1, TruthIsKept DEF ExecutorSaw
  <2> QED BY <1>3, <2>3, <2>4 DEF LateMined, CancelMined
<1>4. CASE TakeReceipt
  <2>1. UNCHANGED <<fills, rows>>
    BY <1>4 DEF TakeReceipt, venue, ledger
  <2>2. CASE Reply
    BY <1>r, <2>1, <2>2
  <2>3. CASE ex.got # 0 /\ ex' = [ex EXCEPT !.at = "row"]
    <3>1. ex'.in = ex.in /\ ex'.id = ex.id /\ ex'.got = ex.got /\ ex.at = "receipt"
      BY <1>4, <2>3 DEF TakeReceipt, IInv, ControlTypeOK
    <3>2. ExecutorSaw'
      BY <2>1, <2>3, <3>1 DEF ExecutorSaw, Saw
    <3> QED BY <2>1, <3>2 DEF FillsNumbered, FillsSided, LedgerTellsTheTruth
  <2> QED BY <1>4, <2>2, <2>3 DEF TakeReceipt
<1>5. CASE RecordFill
  <2>1. fills' = fills /\ ex'.at = "idle" /\ ex.at = "row"
    BY <1>5 DEF RecordFill, venue, Reply, IdleEx
  <2>2. Saw(ex.id, ex.in, ex.got)
    BY <2>1 DEF ExecutorSaw
  <2>3. LedgerTellsTheTruth'
    BY <1>5, <2>1, <2>2 DEF RecordFill, LedgerTellsTheTruth, Saw
  <2> QED BY <2>1, <2>3 DEF FillsNumbered, FillsSided, ExecutorSaw
<1>6. ASSUME NEW f \in Unseen, IngestRow(f)
      PROVE  TruthInv'
  <2>1. f \in fills /\ OurSide(f) = f.side
    BY DEF Unseen, FillsSided
  <2>2. fills' = fills /\ ex' = ex
    BY <1>6 DEF IngestRow, venue
  <2>3. LedgerTellsTheTruth'
    BY <1>6, <2>1, <2>2 DEF IngestRow, LedgerTellsTheTruth
  <2> QED BY <2>2, <2>3 DEF FillsNumbered, FillsSided, ExecutorSaw, Saw
<1>7. CASE GuardExposure
  <2>1. UNCHANGED <<fills, rows>>
    BY <1>7 DEF GuardExposure, venue, ledger
  <2>2. CASE ex' = [ex EXCEPT !.at = "send"]
    BY <1>q, <2>1, <2>2 DEF IInv, ControlTypeOK
  <2> QED BY <1>7, <1>r, <2>1, <2>2 DEF GuardExposure
<1>8. CASE Dequeue
  <2>1. UNCHANGED <<fills, rows>> /\ ex'.at = "check"
    BY <1>8 DEF Dequeue, venue, ledger, IdleEx
  <2> QED BY <1>q, <2>1
<1>9. ASSUME NEW m \in Market, ContextDone(m)
      PROVE  TruthInv'
  <2>1. UNCHANGED <<fills, rows>>
    BY <1>9 DEF ContextDone, venue, ledger
  <2>2. /\ ex'.at = ex.at /\ ex'.id = ex.id /\ ex'.got = ex.got
        /\ ex.at # "idle" => ex'.in.m = ex.in.m /\ ex'.in.side = ex.in.side
    BY <1>9 DEF ContextDone, IInv, ControlTypeOK, Intent
  <2>3. ExecutorSaw'
    BY <2>1, <2>2 DEF ExecutorSaw, Saw
  <2> QED BY <2>1, <2>3 DEF FillsNumbered, FillsSided, LedgerTellsTheTruth
<1>10. CASE SendFails \/ SendAbandoned \/ ReceiptTimesOut \/ ReserveResting
  BY <1>10, <1>r DEF SendFails, SendAbandoned, ReceiptTimesOut, ReserveResting, venue, ledger
<1>11. CASE Cancel
  BY <1>11, <1>q DEF Cancel, CancelMined, ledger
<1>12. CASE CrashRestart
  BY <1>12, <1>q DEF CrashRestart, venue, IdleEx
<1>13. CASE UNCHANGED <<fills, rows, ex>>
  BY <1>13, <1>q
<1>14. CASE \/ IngestTrack \/ IngestInventory \/ IngestRelease \/ UNCHANGED vars
            \/ \E o \in book : OrderAges(o)
            \/ \E m \in Market : WindowExpires(m) \/ Spawn(m) \/ Settle(m)
  BY <1>13, <1>14
  DEF IngestTrack, IngestInventory, IngestRelease, OrderAges, WindowExpires, Spawn, Settle, vars,
      venue, ledger
<1>15. ASSUME NEW m \in Market, Loop(m), ~ContextDone(m)
       PROVE  TruthInv'
  BY <1>13, <1>15
  DEF Loop, SetupDone, SetupFails, Reap, Tick, TickEnds, DecideTake, DecideQuote, PullOne,
      PullDone, QuoteSide, Exit, venue, ledger
<1> QED
  BY <1>1, <1>2, <1>3, <1>4, <1>5, <1>6, <1>7, <1>8, <1>9, <1>10, <1>11, <1>12, <1>14, <1>15
  DEF Next, Executor, Reconcile, Venue

LEMMA TruthHolds == Spec => []TruthInv
<1>1. Init => TruthInv
  BY FS_EmptySet
  DEF Init, TruthInv, FillsNumbered, FillsSided, ExecutorSaw, LedgerTellsTheTruth, IdleEx
<1> QED BY <1>1, TruthInductive, IInvHolds, PTL DEF Spec

\* Every row of the ledger is an execution of ours, with its window, its
\* quantity and the side we were on, whoever wrote it and whatever was lost or
\* late on the way (engine.go:886-899, 1178-1211).
THEOREM LedgerIsTrue == Spec => []LedgerTellsTheTruth
<1>1. TruthInv => LedgerTellsTheTruth
  BY DEF TruthInv
<1> QED BY <1>1, TruthHolds, PTL
-----------------------------------------------------------------------------
\* An execution is recorded with a window, a side and a quantity.
LEMMA ExecutionTyped ==
  ASSUME FillsNumbered, NEW m \in Market, NEW s \in Side, NEW q \in 1..Size,
         NEW w \in BOOLEAN
  PROVE  Execution(ExecutionOf(m, s, q, w))
<1>1. Cardinality(fills) \in Nat
  BY FS_CardinalityType DEF FillsNumbered
<1> QED BY <1>1 DEF Execution, ExecutionOf

LEMMA MinedExecutionTyped ==
  ASSUME FillsNumbered, RecordTypeOK, NEW in \in Intent, NEW got \in 0..Size, NEW late,
         PlacementMined(in, got, late)
  PROVE  fills \subseteq fills' /\ \A f \in fills' : Execution(f)
<1>1. CASE fills' = fills
  BY <1>1 DEF RecordTypeOK
<1>2. CASE got # 0 /\ fills' = fills \cup {ExecutionOf(in.m, in.side, got, TRUE)}
  <2>1. in.m \in Market /\ in.side \in Side /\ got \in 1..Size
    BY <1>2, EngineAssumption DEF Intent, EngineAssumption
  <2>2. Execution(ExecutionOf(in.m, in.side, got, TRUE))
    BY <2>1, ExecutionTyped
  <2> QED BY <1>2, <2>2 DEF RecordTypeOK
<1> QED BY <1>1, <1>2 DEF PlacementMined

LEMMA RecordsInductive ==
  IInv /\ TruthInv /\ RecordTypeOK /\ [Next]_vars => RecordTypeOK'
<1> SUFFICES ASSUME IInv, TruthInv, RecordTypeOK, [Next]_vars
             PROVE  RecordTypeOK'
  OBVIOUS
<1>t. /\ FillsNumbered /\ FillsSided /\ 0 \in 0..Size /\ OurSide(NoFill) \in Side
      /\ \A f \in fills : OurSide(f) \in Side
  BY EngineAssumption DEF TruthInv, OurSide, Side, EngineAssumption
\* Nothing is recorded: at most the executor goes idle or a record grows.
<1>q. ASSUME UNCHANGED <<known, settled, rows, running, tracked, resting, rc, crashes>>,
             fills \subseteq fills', \A f \in fills' : Execution(f),
             ex'.got \in 0..Size
      PROVE  RecordTypeOK'
  BY <1>q DEF RecordTypeOK
<1>r. ASSUME UNCHANGED <<fills, known, settled, rows, running, tracked, resting, rc, crashes>>,
             Reply \/ ex'.got = ex.got
      PROVE  RecordTypeOK'
  BY <1>q, <1>r, <1>t DEF Reply, IdleEx, RecordTypeOK
<1>1. ASSUME NEW o \in book, NEW q \in 1..o.rem, CounterpartyFills(o, q)
      PROVE  RecordTypeOK'
  <2>1. o.m \in Market /\ o.side \in Side /\ q \in 1..Size
    BY EngineAssumption DEF IInv, VenueTypeOK, Order, EngineAssumption
  <2>2. Execution(ExecutionOf(o.m, o.side, q, FALSE))
    BY <1>t, <2>1, ExecutionTyped
  <2>3. /\ fills' = fills \cup {ExecutionOf(o.m, o.side, q, FALSE)} /\ ex' = ex
        /\ UNCHANGED <<known, settled, rows, running, tracked, resting, rc, crashes>>
    BY <1>1 DEF CounterpartyFills, ledger, maps
  <2> QED BY <1>q, <2>2, <2>3 DEF RecordTypeOK
<1>2. ASSUME NEW got \in 0..Size, SendLands(got)
      PROVE  RecordTypeOK'
  <2>1. ex.in \in Intent /\ ex'.got = got
    BY <1>2 DEF SendLands, IInv, ControlTypeOK
  <2>2. fills \subseteq fills' /\ \A f \in fills' : Execution(f)
    BY <1>2, <1>t, <2>1, MinedExecutionTyped DEF SendLands
  <2> QED BY <1>2, <1>q, <2>1, <2>2 DEF SendLands, ledger, maps
<1>3. CASE LateMined
  <2>1. /\ mempool \in Seq(Intent) /\ mempool # <<>>
        /\ UNCHANGED <<known, settled, rows, running, tracked, resting, rc, crashes, ex>>
    BY <1>3 DEF LateMined, IInv, VenueTypeOK, ledger, maps
  <2>2. Head(mempool) \in Intent
    BY <2>1, QueuedAfterReceive
  <2>3. fills \subseteq fills' /\ \A f \in fills' : Execution(f)
    <3>1. CASE fills' = fills
      BY <3>1 DEF RecordTypeOK
    <3>2. ASSUME NEW got \in 0..Size, PlacementMined(Head(mempool), got, TRUE)
          PROVE  fills \subseteq fills' /\ \A f \in fills' : Execution(f)
      BY <1>t, <2>2, <3>2, MinedExecutionTyped
    <3> QED BY <1>3, <3>1, <3>2 DEF LateMined, CancelMined
  <2> QED BY <1>q, <2>1, <2>3 DEF RecordTypeOK
<1>4. CASE RecordFill
  <2>1. ex.in \in Intent /\ ex'.got = 0
    BY <1>4 DEF RecordFill, Reply, IdleEx, IInv, ControlTypeOK
  <2>2. \A r \in rows' : r.key \in {"rcpt", "idx"} /\ r.m \in Market /\ r.side \in Side
    BY <1>4, <2>1 DEF RecordFill, RecordTypeOK, Intent
  <2> QED BY <1>4, <1>t, <2>1, <2>2 DEF RecordFill, RecordTypeOK, venue, maps
<1>5. ASSUME NEW f \in Unseen, IngestRow(f)
      PROVE  RecordTypeOK'
  <2>1. f \in fills /\ f.m \in Market /\ OurSide(f) \in Side
    BY <1>t DEF Unseen, RecordTypeOK, Execution
  <2>2. \A r \in rows' : r.key \in {"rcpt", "idx"} /\ r.m \in Market /\ r.side \in Side
    BY <1>5, <2>1 DEF IngestRow, RecordTypeOK
  <2> QED BY <1>5, <2>1, <2>2 DEF IngestRow, RecordTypeOK, venue, maps
<1>6. CASE IngestTrack \/ IngestInventory
  BY <1>6 DEF IngestTrack, IngestInventory, RecordTypeOK, Execution, venue, ledger
<1>7. CASE IngestRelease
  <2>1. rc.fill \in fills /\ OurSide(rc.fill) \in Side
    BY <1>7, <1>t DEF IngestRelease, RecordTypeOK
  <2>2. resting' \in [Market -> [Side -> {0, Size}]]
    BY <1>7, <2>1 DEF IngestRelease, RecordTypeOK
  <2> QED BY <1>7, <2>2 DEF IngestRelease, RecordTypeOK, IdleRc, venue, ledger
<1>8. CASE ReserveResting
  <2>1. ex.in.m \in Market /\ ex.in.side \in Side
    BY <1>8 DEF ReserveResting, IInv, ControlTypeOK, Intent
  <2>2. resting' \in [Market -> [Side -> {0, Size}]]
    BY <1>8, <2>1 DEF ReserveResting, RecordTypeOK
  <2> QED BY <1>8, <1>t, <2>2 DEF ReserveResting, RecordTypeOK, Reply, IdleEx, venue, ledger
<1>9. ASSUME NEW m \in Market, Reap(m)
      PROVE  RecordTypeOK'
  <2>1. resting' \in [Market -> [Side -> {0, Size}]]
    BY <1>9 DEF Reap, RecordTypeOK, NoResting
  <2> QED BY <1>9, <2>1 DEF Reap, RecordTypeOK, venue, ledger
<1>10. ASSUME NEW m \in Market, PullDone(m)
       PROVE  RecordTypeOK'
  <2>1. resting' \in [Market -> [Side -> {0, Size}]]
    BY <1>10 DEF PullDone, RecordTypeOK, NoResting
  <2> QED BY <1>10, <2>1 DEF PullDone, RecordTypeOK, venue, ledger
<1>11. CASE CrashRestart
  <2>1. resting' \in [Market -> [Side -> {0, Size}]]
    BY <1>11 DEF CrashRestart, NoResting
  <2>2. tracked' \subseteq Market /\ crashes' \in 0..MaxCrashes
    BY <1>11, EngineAssumption
    DEF CrashRestart, Restorable, RecordTypeOK, EngineAssumption
  <2> QED BY <1>11, <1>t, <2>1, <2>2
          DEF CrashRestart, RecordTypeOK, IdleEx, IdleRc, venue
<1>12. ASSUME NEW m \in Market, Spawn(m) \/ SetupDone(m) \/ Settle(m)
       PROVE  RecordTypeOK'
  BY <1>12 DEF Spawn, SetupDone, Settle, RecordTypeOK, venue, ledger, maps
<1>13. CASE Dequeue \/ GuardExposure \/ SendFails \/ SendAbandoned \/ ReceiptTimesOut
            \/ TakeReceipt \/ Cancel
  <2>1. UNCHANGED <<fills, known, settled, rows, running, tracked, resting, rc, crashes>>
    BY <1>13 DEF Dequeue, GuardExposure, SendFails, SendAbandoned, ReceiptTimesOut,
      TakeReceipt, Cancel, CancelMined, venue, ledger, maps
  <2>2. Reply \/ ex'.got \in {0, ex.got}
    BY <1>13 DEF Dequeue, GuardExposure, SendFails, SendAbandoned, ReceiptTimesOut,
      TakeReceipt, Cancel, IdleEx, IInv, ControlTypeOK
  <2> QED BY <1>q, <1>r, <1>t, <2>1, <2>2 DEF RecordTypeOK
<1>14. ASSUME NEW m \in Market, ContextDone(m)
       PROVE  RecordTypeOK'
  <2>1. ex'.got = ex.got
    BY <1>14 DEF ContextDone, IInv, ControlTypeOK
  <2> QED BY <1>14, <1>r, <2>1 DEF ContextDone, venue, ledger, maps
<1>15. CASE UNCHANGED <<fills, ledger, maps, ex, rc, crashes>>
  BY <1>15, <1>r DEF ledger, maps
<1>16. CASE \/ UNCHANGED vars
            \/ \E o \in book : OrderAges(o)
            \/ \E m \in Market : WindowExpires(m)
  BY <1>15, <1>16 DEF OrderAges, WindowExpires, vars, venue
<1>17. ASSUME NEW m \in Market, Loop(m), ~ContextDone(m), ~PullDone(m), ~SetupDone(m)
       PROVE  RecordTypeOK'
  BY <1>9, <1>15, <1>17
  DEF Loop, SetupFails, Tick, TickEnds, DecideTake, DecideQuote, PullOne, QuoteSide, Exit,
      venue
<1> QED
  BY <1>1, <1>2, <1>3, <1>4, <1>5, <1>6, <1>7, <1>8, <1>10, <1>11, <1>12, <1>13, <1>14,
     <1>16, <1>17
  DEF Next, Executor, Reconcile, Venue

\* Executions, ledger rows, reservations and the sweep's fill in hand are well
\* formed: no reservation is anything but none or one order, and the sweep only
\* ever holds an execution that happened (engine.go:49-66, 1137-1222).
THEOREM RecordsTyped == Spec => []RecordTypeOK
<1>1. Init => RecordTypeOK
  BY EngineAssumption
  DEF Init, RecordTypeOK, NoResting, IdleEx, IdleRc, EngineAssumption
<1> QED BY <1>1, RecordsInductive, IInvHolds, TruthHolds, PTL DEF Spec
-----------------------------------------------------------------------------
\* A step adds one execution with a new number, or one row, or neither.
Executes(f) == fills' = fills \cup {f} /\ f.id = Cardinality(fills) + 1
Grows == \/ UNCHANGED <<fills, rows>>
         \/ rows' = rows /\ \E f \in fills' : Executes(f)
         \/ fills' = fills /\ \E r \in rows' : rows' = rows \cup {r}

LEMMA MinedGrows ==
  ASSUME NEW in, NEW got, NEW late, PlacementMined(in, got, late)
  PROVE  fills' = fills \/ \E f \in fills' : Executes(f)
<1> DEFINE f == ExecutionOf(in.m, in.side, got, TRUE)
<1>1. f.id = Cardinality(fills) + 1
  BY DEF ExecutionOf
<1> HIDE DEF f
<1>2. CASE fills' = fills \cup {f}
  BY <1>1, <1>2 DEF Executes
<1> QED BY <1>2 DEF PlacementMined, f

LEMMA StepGrows == IInv /\ [Next]_vars => Grows
<1> SUFFICES ASSUME IInv, [Next]_vars PROVE Grows
  OBVIOUS
<1>1. ASSUME NEW o \in book, NEW q \in 1..o.rem, CounterpartyFills(o, q)
      PROVE  Grows
  <2> DEFINE f == ExecutionOf(o.m, o.side, q, FALSE)
  <2>1. f.id = Cardinality(fills) + 1
    BY DEF ExecutionOf
  <2>2. fills' = fills \cup {f} /\ rows' = rows
    BY <1>1 DEF CounterpartyFills, ledger
  <2> HIDE DEF f
  <2> QED BY <2>1, <2>2 DEF Grows, Executes
<1>2. ASSUME NEW got \in 0..Size, SendLands(got)
      PROVE  Grows
  BY <1>2, MinedGrows DEF SendLands, ledger, Grows
<1>3. CASE LateMined
  <2>1. rows' = rows
    BY <1>3 DEF LateMined, ledger
  <2>2. fills' = fills \/ \E f \in fills' : Executes(f)
    BY <1>3, MinedGrows DEF LateMined, CancelMined
  <2> QED BY <2>1, <2>2 DEF Grows
<1>4. CASE RecordFill
  BY <1>4 DEF RecordFill, venue, Grows
<1>5. ASSUME NEW f \in Unseen, IngestRow(f)
      PROVE  Grows
  BY <1>5 DEF IngestRow, venue, Grows
<1>6. CASE UNCHANGED <<fills, rows>>
  BY <1>6 DEF Grows
<1>7. CASE \/ Dequeue \/ GuardExposure \/ SendFails \/ SendAbandoned \/ ReceiptTimesOut
           \/ TakeReceipt \/ ReserveResting \/ Cancel \/ CrashRestart
  BY <1>6, <1>7
  DEF Dequeue, GuardExposure, SendFails, SendAbandoned, ReceiptTimesOut, TakeReceipt,
      ReserveResting, Cancel, CancelMined, CrashRestart, venue, ledger
<1>8. CASE \/ IngestTrack \/ IngestInventory \/ IngestRelease \/ UNCHANGED vars
           \/ \E o \in book : OrderAges(o)
           \/ \E m \in Market : WindowExpires(m) \/ Spawn(m) \/ Settle(m)
  BY <1>6, <1>8
  DEF IngestTrack, IngestInventory, IngestRelease, OrderAges, WindowExpires, Spawn, Settle, vars,
      venue, ledger
<1>9. ASSUME NEW m \in Market, Loop(m)
      PROVE  Grows
  BY <1>6, <1>9
  DEF Loop, SetupDone, SetupFails, Reap, Tick, TickEnds, DecideTake, DecideQuote, PullOne,
      PullDone, QuoteSide, ContextDone, Exit, venue, ledger
<1> QED
  BY <1>1, <1>2, <1>3, <1>4, <1>5, <1>7, <1>8, <1>9 DEF Next, Executor, Reconcile, Venue
-----------------------------------------------------------------------------
(***************************************************************************)
(* Positions are sums of executions or of ledger rows.                     *)
(***************************************************************************)
LEMMA SignedIsInt ==
  ASSUME NEW s \in Side, NEW q \in Int
  PROVE  Signed(s, q) \in Int
BY DEF Side, Signed

LEMMA SignedNothing == ASSUME NEW s, NEW q, q = 0 PROVE Signed(s, q) = 0
<1>1. 0 \in Int /\ \A x \in Int : -x = 0 - x
  OBVIOUS
<1>2. 0 - 0 = 0
  OBVIOUS
<1>3. -0 = 0
  BY <1>1, <1>2, Zenon
<1> QED BY <1>3, Zenon DEF Signed

LEMMA PositionIsInt ==
  ASSUME NEW R, IsFiniteSet(R), \A r \in R : Signed(r.side, r.qty) \in Int, NEW m
  PROVE  Position(R, m) \in Int
<1> DEFINE f == [r \in R |-> Signed(r.side, r.qty)]
           S == {r \in R : r.m = m}
<1>1. IsFiniteSet(S) /\ \A r \in S : f[r] \in Int
  BY FS_Subset
<1> HIDE DEF f, S
<1>2. SumFunctionOnSet(f, S) \in Int
  BY <1>1, SumIsInt
<1> QED BY <1>2 DEF Position, f, S

LEMMA PositionOfNone == \A R, m : (\A r \in R : r.m # m) => Position(R, m) = 0
<1> SUFFICES ASSUME NEW R, NEW m, \A r \in R : r.m # m PROVE Position(R, m) = 0
  OBVIOUS
<1>1. {r \in R : r.m = m} = {}
  OBVIOUS
<1> QED BY <1>1, SumOfNone DEF Position

\* One more record moves the position of its window by what it is worth.
LEMMA PositionAfterRecord ==
  ASSUME NEW R, IsFiniteSet(R), NEW n, n \notin R, NEW m,
         \A r \in R \cup {n} : Signed(r.side, r.qty) \in Int
  PROVE  Position(R \cup {n}, m) =
           Position(R, m) + (IF n.m = m THEN Signed(n.side, n.qty) ELSE 0)
<1> DEFINE f == [r \in R |-> Signed(r.side, r.qty)]
           g == [r \in R \cup {n} |-> Signed(r.side, r.qty)]
           S == {r \in R : r.m = m}
           T == {r \in R \cup {n} : r.m = m}
<1>1. /\ IsFiniteSet(S) /\ n \notin S /\ g[n] = Signed(n.side, n.qty) /\ g[n] \in Int
      /\ \A r \in S : f[r] = g[r] /\ g[r] \in Int
      /\ T = IF n.m = m THEN S \cup {n} ELSE S
      /\ Position(R, m) = SumFunctionOnSet(f, S)
      /\ Position(R \cup {n}, m) = SumFunctionOnSet(g, T)
  BY FS_Subset DEF Position
<1> HIDE DEF f, g, S, T
<1>2. SumFunctionOnSet(f, S) = SumFunctionOnSet(g, S)
  BY <1>1, SumOfEquals
<1>3. SumFunctionOnSet(g, S) \in Int
  BY <1>1, SumIsInt
<1>4. SumFunctionOnSet(g, S \cup {n}) = SumFunctionOnSet(g, S) + g[n]
  BY <1>1, SumTakesIn
<1> DEFINE now == SumFunctionOnSet(g, S)
<1> HIDE DEF now
<1>5. CASE n.m = m
  BY <1>1, <1>2, <1>4, <1>5
<1>6. CASE n.m # m
  BY <1>1, <1>2, <1>3, <1>6
<1> QED BY <1>5, <1>6
-----------------------------------------------------------------------------
\* The numbers: inventories and baselines, and what they are sums of.
NumbersInv == inv \in [Market -> Int] /\ ex.base \in Int /\ IsFiniteSet(rows)

LEMMA FillsAreNumbers ==
  ASSUME RecordTypeOK
  PROVE  \A f \in fills : f.qty \in Int /\ Signed(f.side, f.qty) \in Int
BY SignedIsInt, EngineAssumption DEF RecordTypeOK, Execution, EngineAssumption

LEMMA RowsAreNumbers ==
  ASSUME RecordTypeOK, LedgerTellsTheTruth
  PROVE  \A r \in rows : r.qty \in Int /\ Signed(r.side, r.qty) \in Int
<1> SUFFICES ASSUME NEW r \in rows PROVE r.qty \in Int /\ Signed(r.side, r.qty) \in Int
  OBVIOUS
<1>1. PICK f \in fills : f.side = r.side /\ f.qty = r.qty
  BY DEF LedgerTellsTheTruth
<1> QED BY <1>1, FillsAreNumbers

LEMMA LedgerPositionIsInt ==
  ASSUME RecordTypeOK, LedgerTellsTheTruth, IsFiniteSet(rows), NEW m
  PROVE  LedgerPosition(m) \in Int
BY RowsAreNumbers, PositionIsInt DEF LedgerPosition

LEMMA ExposureIsInt ==
  ASSUME RecordTypeOK, inv \in [Market -> Int], NEW a
  PROVE  AssetExposure(a) \in Int
<1>1. OnAsset(a) \subseteq Market /\ IsFiniteSet(OnAsset(a))
  BY EngineAssumption, FS_Subset DEF OnAsset, RecordTypeOK, EngineAssumption
<1>2. \A m \in OnAsset(a) : inv[m] \in Int
  BY <1>1
<1> HIDE DEF OnAsset
<1> QED BY <1>1, <1>2, SumIsInt DEF AssetExposure

\* The direction and the quantity of what the executor and the sweep hold.
LEMMA InHandAreNumbers ==
  ASSUME IInv, RecordTypeOK, TruthInv
  PROVE  /\ ex.at # "idle" => Signed(ex.in.side, ex.got) \in Int /\ ex.in.m \in Market
         /\ rc.at # "idle" => /\ Signed(OurSide(rc.fill), rc.fill.qty) \in Int
                              /\ rc.fill \in fills /\ rc.fill.m \in Market
<1>1. ASSUME ex.at # "idle"
      PROVE  Signed(ex.in.side, ex.got) \in Int /\ ex.in.m \in Market
  BY <1>1, SignedIsInt, EngineAssumption
  DEF IInv, ControlTypeOK, Intent, RecordTypeOK, EngineAssumption
<1>2. ASSUME rc.at # "idle"
      PROVE  /\ Signed(OurSide(rc.fill), rc.fill.qty) \in Int
             /\ rc.fill \in fills /\ rc.fill.m \in Market
  <2>1. rc.fill \in fills /\ OurSide(rc.fill) = rc.fill.side
    BY <1>2 DEF RecordTypeOK, TruthInv, FillsSided
  <2> QED BY <2>1, FillsAreNumbers DEF RecordTypeOK, Execution
<1> QED BY <1>1, <1>2

LEMMA NumbersInductive ==
  IInv /\ TruthInv /\ RecordTypeOK /\ NumbersInv /\ [Next]_vars => NumbersInv'
<1> SUFFICES ASSUME IInv, TruthInv, RecordTypeOK, NumbersInv, [Next]_vars
             PROVE  NumbersInv'
  OBVIOUS
<1>t. /\ inv \in [Market -> Int] /\ ex.base \in Int /\ LedgerTellsTheTruth
  BY DEF NumbersInv, TruthInv
<1>1. IsFiniteSet(rows')
  BY StepGrows, FS_AddElement DEF Grows, NumbersInv
<1>2. ex'.base \in Int
  <2>1. CASE Dequeue
    <3>1. ex'.base = AssetExposure(AssetOf[Head(queue).m])
      BY <2>1 DEF Dequeue, IdleEx
    <3> QED BY <1>t, <3>1, ExposureIsInt
  <2>2. CASE Reply \/ CrashRestart
    BY <2>2 DEF Reply, CrashRestart, IdleEx
  <2>3. CASE ex'.base = ex.base
    BY <1>t, <2>3
  <2>4. CASE Executor
    <3>1. \A got \in 0..Size : SendLands(got) => ex'.base = ex.base
      BY Landed DEF IInv
    <3>2. \A at : ex' = [ex EXCEPT !.at = at] => ex'.base = ex.base
      BY Advanced DEF IInv
    <3> QED
      BY <2>1, <2>2, <2>3, <2>4, <3>1, <3>2
      DEF Executor, Cancel, GuardExposure, SendFails, SendAbandoned, ReceiptTimesOut,
          ReserveResting, TakeReceipt, RecordFill
  <2>5. ASSUME NEW m \in Market, ContextDone(m)
        PROVE  ex'.base = ex.base
    BY <2>5, Orphaned DEF IInv
  <2> QED
    BY <2>2, <2>3, <2>4, <2>5
    DEF Next, Reconcile, IngestRow, IngestTrack, IngestInventory, IngestRelease, Loop, Spawn, SetupDone,
        SetupFails, Reap, Exit, Settle, Tick, TickEnds, DecideTake, DecideQuote, PullOne,
        PullDone, QuoteSide, Venue, OrderAges, CounterpartyFills, WindowExpires, LateMined, vars
<1>3. inv' \in [Market -> Int]
  <2>1. CASE TakeReceipt
    <3>1. Signed(ex.in.side, ex.got) \in Int /\ ex.in.m \in Market
      BY <2>1, InHandAreNumbers DEF TakeReceipt
    <3>2. inv[ex.in.m] + Signed(ex.in.side, ex.got) \in Int
      BY <1>t, <3>1
    <3> QED BY <1>t, <2>1, <3>1, <3>2 DEF TakeReceipt
  <2>2. CASE IngestInventory
    <3>1. Signed(OurSide(rc.fill), rc.fill.qty) \in Int /\ rc.fill.m \in Market
      BY <2>2, InHandAreNumbers DEF IngestInventory
    <3>2. inv[rc.fill.m] + Signed(OurSide(rc.fill), rc.fill.qty) \in Int
      BY <1>t, <3>1
    <3> QED BY <1>t, <2>2, <3>1, <3>2 DEF IngestInventory
  <2>3. CASE CrashRestart
    <3>1. \A m \in Market : LedgerPosition(m) \in Int
      BY <1>t, LedgerPositionIsInt DEF NumbersInv
    <3> QED BY <2>3, <3>1 DEF CrashRestart
  <2>4. ASSUME NEW m \in Market, Reap(m)
        PROVE  inv' \in [Market -> Int]
    BY <1>t, <2>4 DEF Reap
  <2>5. CASE inv' = inv
    BY <1>t, <2>5
  <2> QED
    BY <2>1, <2>2, <2>3, <2>4, <2>5
    DEF Next, Executor, Dequeue, Cancel, GuardExposure, SendFails, SendLands, SendAbandoned,
        ReceiptTimesOut, ReserveResting, RecordFill, Reconcile, IngestRow, IngestTrack, IngestRelease, Loop,
        Spawn, SetupDone, SetupFails, Exit, Settle, Tick, TickEnds, DecideTake, DecideQuote,
        PullOne, PullDone, QuoteSide, ContextDone, Venue, OrderAges, CounterpartyFills,
        WindowExpires, LateMined, vars, maps
<1> QED BY <1>1, <1>2, <1>3 DEF NumbersInv

LEMMA NumbersHold == Spec => []NumbersInv
<1>1. Init => NumbersInv
  BY FS_EmptySet DEF Init, NumbersInv, IdleEx
<1> QED BY <1>1, NumbersInductive, IInvHolds, TruthHolds, RecordsTyped, PTL DEF Spec

\* Every map, record and queue of the engine and of the venue has its type, the
\* inventories that are rebuilt as sums over the ledger included.
THEOREM EngineTyped == Spec => []TypeOK
<1>1. IInv /\ RecordTypeOK /\ NumbersInv => TypeOK
  BY DEF IInv, NumbersInv, TypeOK
<1> QED BY <1>1, IInvHolds, RecordsTyped, NumbersHold, PTL
-----------------------------------------------------------------------------
(***************************************************************************)
(* Memory and ledger describe the same position.  In between, the sweep    *)
(* has written a row and not yet added it to the inventory, or the receipt *)
(* has been added to the inventory and its row is not yet written.         *)
(***************************************************************************)
Owed(m) == IF rc.at \in {"track", "add"} /\ rc.fill.m = m THEN Signed(OurSide(rc.fill), rc.fill.qty) ELSE 0
Unwritten(m) == IF ex.at = "row" /\ ex.in.m = m THEN Signed(ex.in.side, ex.got) ELSE 0
Agrees(m) == inv[m] + Owed(m) = LedgerPosition(m) + Unwritten(m)
MemoryInv ==
  HasLedger => \A m \in Market : m \in running \/ phase[m] = "trading" => Agrees(m)

\* What memory and the ledger hold is of windows the ledger knows.
KnownInv ==
  HasLedger =>
    /\ \A r \in rows : r.m \in known
    /\ \A m \in Market : pc[m] \notin {"off", "setup"} => m \in known
    /\ \A in \in Range(queue) : in.m \in known
    /\ ex.at # "idle" => ex.in.m \in known
    /\ rc.at # "idle" => rc.fill.m \in known

\* Only expired windows are settled.
SettledInv ==
  /\ \A m \in settled : phase[m] = "expired"
  /\ \A m \in Market : pc[m] = "settling" => phase[m] = "expired"

\* The receipt in hand has not been written down.
FreshInv ==
  ex.at \in {"receipt", "row"} /\ ex.got # 0 =>
    \A r \in rows : r.key = "rcpt" => r.fill # ex.id

\* Without a crash, a loop that is being set up is of a window nobody traded.
FirstLifeInv ==
  MaxCrashes = 0 =>
    \A m \in Market : phase[m] = "trading" /\ m \in known => pc[m] \notin {"off", "setup"}

\* A loop is born, set up, reaped and settled by steps of its own; every other step
\* leaves it where it is or moves it within a tick.
Resting == {"off", "setup", "settling"}
LEMMA LoopMoves ==
  ASSUME IInv, [Next]_vars, ~CrashRestart, NEW m \in Market
  PROVE  \/ Spawn(m) \/ SetupDone(m) \/ SetupFails(m) \/ Exit(m) \/ Settle(m)
         \/ pc'[m] = pc[m] /\ (m \in known' => m \in known)
         \/ pc[m] \notin Resting /\ pc'[m] \notin Resting /\ known' = known
<1> DEFINE Moves == \/ Spawn(m) \/ SetupDone(m) \/ SetupFails(m) \/ Exit(m) \/ Settle(m)
                    \/ pc'[m] = pc[m] /\ (m \in known' => m \in known)
                    \/ pc[m] \notin Resting /\ pc'[m] \notin Resting /\ known' = known
<1>t. pc \in [Market -> LoopStates] /\ queue \in Seq(Intent) /\ (ex.at # "idle" => ex.in \in Intent)
  BY DEF IInv, ControlTypeOK
<1>r. ASSUME NEW in \in Intent, Resume(in), known' = known,
             in.live => pc[in.m] \in Waiting
      PROVE  Moves
  BY <1>t, <1>r DEF Resume, Quoting, Waiting, Resting, Intent
<1>1. CASE Cancel
  <2>1. /\ queue # <<>> /\ Resume(Head(queue)) /\ known' = known
        /\ Head(queue) \in Intent /\ Head(queue) \in Range(queue)
    BY <1>1, <1>t, QueuedAfterReceive, RangeAfterReceive DEF Cancel, ledger
  <2>2. Head(queue).m \in Market
    BY <2>1 DEF Intent
  <2>3. Head(queue).live => pc[Head(queue).m] \in Waiting
    BY <2>1, <2>2, LiveIsAwaited DEF IInv
  <2> QED BY <1>r, <2>1, <2>3
<1>2. ASSUME Reply, ex.at # "idle", known' = known
      PROVE  Moves
  <2>1. ex.in.m \in Market /\ ex.in \in Intent
    BY <1>t, <1>2 DEF Intent
  <2>2. ex.in.live => pc[ex.in.m] \in Waiting
    BY <1>2, <2>1, LiveIsAwaited DEF IInv
  <2> QED BY <1>2, <1>r, <2>1, <2>2 DEF Reply
<1>3. CASE Executor
  BY <1>1, <1>2, <1>3
  DEF Executor, Dequeue, GuardExposure, SendFails, SendLands, SendAbandoned, ReceiptTimesOut,
      ReserveResting, TakeReceipt, RecordFill, loops, ledger
<1>4. ASSUME NEW n \in Market, n # m, Spawn(n) \/ Loop(n) \/ Settle(n)
      PROVE  Moves
  BY <1>t, <1>4
  DEF Loop, Spawn, Settle, SetupDone, SetupFails, Reap, Exit, Tick, TickEnds, DecideTake,
      DecideQuote, PullOne, PullDone, QuoteSide, ContextDone, ledger
<1>5. CASE Loop(m)
  BY <1>t, <1>5
  DEF Loop, Tick, TickEnds, DecideTake, DecideQuote, PullOne, PullDone, QuoteSide, ContextDone,
      Waiting, Resting, Quoting, ledger
<1>6. CASE Reconcile \/ Venue \/ UNCHANGED vars
  BY <1>6
  DEF Reconcile, IngestRow, IngestTrack, IngestInventory, IngestRelease, Venue, OrderAges,
      CounterpartyFills, WindowExpires, LateMined, vars, ledger, loops
<1> HIDE DEF Moves
<1>7. Moves
  BY <1>3, <1>4, <1>5, <1>6 DEF Next, Moves
<1> QED BY <1>7 DEF Moves

LEMMA PhaseOnlyEnds ==
  ASSUME IInv, [Next]_vars, NEW m \in Market, phase[m] = "expired"
  PROVE  phase'[m] = "expired"
<1>1. ASSUME NEW n \in Market, WindowExpires(n)
      PROVE  phase'[m] = "expired"
  BY <1>1 DEF WindowExpires, IInv, VenueTypeOK
<1> QED
  BY <1>1
  DEF Next, Executor, Dequeue, Cancel, GuardExposure, SendFails, SendLands, SendAbandoned,
      ReceiptTimesOut, ReserveResting, TakeReceipt, RecordFill, Reconcile, IngestRow,
      IngestTrack, IngestInventory, IngestRelease, Loop, Spawn, SetupDone, SetupFails, Reap, Exit, Settle,
      Tick, TickEnds, DecideTake, DecideQuote, PullOne, PullDone, QuoteSide, ContextDone,
      Venue, OrderAges, CounterpartyFills, LateMined, CrashRestart, vars, venue

LEMMA KnownInductive == IInv /\ RecordTypeOK /\ KnownInv /\ [Next]_vars => KnownInv'
<1> SUFFICES ASSUME IInv, RecordTypeOK, KnownInv, HasLedger, [Next]_vars
             PROVE  KnownInv'
  BY DEF KnownInv
<1>t. /\ queue \in Seq(Intent) /\ pc \in [Market -> LoopStates]
      /\ ex.at # "idle" => ex.in \in Intent /\ ex.in.m \in Market
      /\ ex = [at |-> ex.at, in |-> ex.in, base |-> ex.base, id |-> ex.id, got |-> ex.got]
  BY DEF IInv, ControlTypeOK, Intent
<1>k. /\ \A r \in rows : r.m \in known
      /\ \A m \in Market : pc[m] \notin {"off", "setup"} => m \in known
      /\ \A in \in Range(queue) : in.m \in known
      /\ ex.at # "idle" => ex.in.m \in known
      /\ rc.at # "idle" => rc.fill.m \in known
  BY DEF KnownInv
<1>q. ASSUME known \subseteq known',
             \A r \in rows' : r \in rows \/ r.m \in known,
             \A m \in Market : \/ pc'[m] \in {"off", "setup"} \/ pc[m] \notin {"off", "setup"}
                               \/ m \in known',
             \A in \in Range(queue)' : in.m \in known,
             ex'.at # "idle" => ex'.in.m \in known,
             rc'.at # "idle" => rc'.fill.m \in known
      PROVE  KnownInv'
  <2>1. \A m \in Market : pc'[m] \notin {"off", "setup"} => m \in known'
    BY <1>k, <1>q
  <2> QED BY <1>k, <1>q, <2>1 DEF KnownInv
\* The executor answers: the loop that goes on was waiting.
<1>r. ASSUME NEW in, in.live => in.m \in Market /\ pc[in.m] \in Waiting, Resume(in)
      PROVE  \A m \in Market : \/ pc'[m] \in {"off", "setup"} \/ pc[m] \notin {"off", "setup"}
                               \/ m \in known'
  BY <1>t, <1>r DEF Resume, Waiting
<1>1. CASE Dequeue
  <2>1. /\ queue # <<>> /\ queue' = Tail(queue) /\ ex'.in = Head(queue)
        /\ UNCHANGED <<known, rows, pc, rc>>
    BY <1>1 DEF Dequeue, IdleEx, ledger, loops
  <2>2. Range(queue)' \subseteq Range(queue) /\ ex'.in \in Range(queue)
    BY <1>t, <2>1, RangeAfterReceive
  <2> QED BY <1>k, <1>q, <2>1, <2>2
<1>2. CASE Cancel
  <2>1. /\ queue # <<>> /\ queue' = Tail(queue) /\ Resume(Head(queue))
        /\ UNCHANGED <<known, rows, ex, rc>>
    BY <1>2 DEF Cancel, ledger
  <2>2. Range(queue)' \subseteq Range(queue) /\ Head(queue) \in Range(queue)
    BY <1>t, <2>1, RangeAfterReceive
  <2>3. Head(queue).live => Head(queue).m \in Market /\ pc[Head(queue).m] \in Waiting
    <3>1. Head(queue) \in Intent
      BY <1>t, <2>1, QueuedAfterReceive
    <3>2. Head(queue).m \in Market
      BY <3>1 DEF Intent
    <3> QED BY <2>2, <3>2, LiveIsAwaited DEF IInv
  <2> HIDE DEF Waiting
  <2>4. \A m \in Market : \/ pc'[m] \in {"off", "setup"} \/ pc[m] \notin {"off", "setup"}
                          \/ m \in known'
    BY <1>r, <2>1, <2>3
  <2> QED BY <1>k, <1>q, <2>1, <2>2, <2>4
<1>3. ASSUME Reply, UNCHANGED <<known, queue, rc>>, ex.at # "idle",
             \A r \in rows' : r \in rows \/ r.m \in known
      PROVE  KnownInv'
  <2>1. ex'.at = "idle" /\ Resume(ex.in)
    BY <1>3 DEF Reply, IdleEx
  <2>2. ex.in.live => ex.in.m \in Market /\ pc[ex.in.m] \in Waiting
    BY <1>t, <1>3, LiveIsAwaited DEF IInv
  <2>3. \A m \in Market : \/ pc'[m] \in {"off", "setup"} \/ pc[m] \notin {"off", "setup"}
                          \/ m \in known'
    BY <1>r, <2>1, <2>2
  <2> QED BY <1>k, <1>q, <1>3, <2>1, <2>3
<1>4. CASE SendFails \/ SendAbandoned \/ ReceiptTimesOut \/ ReserveResting \/ RecordFill
  <2>1. /\ Reply /\ UNCHANGED <<known, queue, rc>> /\ ex.at # "idle"
        /\ rows' = rows \/ \E r : r.m = ex.in.m /\ rows' = rows \cup {r}
    <3>1. CASE RecordFill
      <4> DEFINE r == [key |-> "rcpt", fill |-> ex.id, m |-> ex.in.m,
                       side |-> ex.in.side, qty |-> ex.got]
      <4>1. r.m = ex.in.m /\ rows' = rows \cup {r}
        BY <3>1 DEF RecordFill
      <4> HIDE DEF r
      <4> QED BY <3>1, <4>1 DEF RecordFill
    <3>2. CASE SendFails \/ SendAbandoned \/ ReceiptTimesOut \/ ReserveResting
      BY <3>2 DEF SendFails, SendAbandoned, ReceiptTimesOut, ReserveResting, ledger
    <3> QED BY <1>4, <3>1, <3>2
  <2> QED BY <1>3, <1>k, <2>1
<1>5. ASSUME NEW got \in 0..Size, SendLands(got) \/ GuardExposure \/ TakeReceipt
      PROVE  KnownInv'
  <2>1. UNCHANGED <<known, rows, queue, rc>> /\ ex.at # "idle"
    BY <1>5 DEF SendLands, GuardExposure, TakeReceipt, ledger
  <2>2. Reply \/ (ex'.in = ex.in /\ pc' = pc)
    BY <1>5, <1>t DEF SendLands, GuardExposure, TakeReceipt, loops
  <2> QED BY <1>k, <1>q, <1>3, <2>1, <2>2
<1>6. ASSUME NEW f \in Unseen, IngestRow(f)
      PROVE  KnownInv'
  <2>1. /\ \A r \in rows' : r \in rows \/ r.m = f.m
        /\ f.m \in known /\ rc'.fill = f /\ UNCHANGED <<known, pc, queue, ex>>
    BY <1>6 DEF IngestRow, Unseen, loops
  <2> QED BY <1>k, <1>q, <2>1
<1>7. CASE IngestTrack \/ IngestInventory \/ IngestRelease
  <2>1. UNCHANGED <<known, rows, pc, queue, ex>> /\ (rc'.at = "idle" \/ (rc.at # "idle" /\ rc'.fill = rc.fill))
    BY <1>7 DEF IngestTrack, IngestInventory, IngestRelease, IdleRc, RecordTypeOK, ledger, loops
  <2> QED BY <1>k, <1>q, <2>1
<1>8. CASE CrashRestart
  <2>1. /\ UNCHANGED <<known, rows>> /\ Range(queue)' = {} /\ ex'.at = "idle" /\ rc'.at = "idle"
        /\ \A m \in Market : pc'[m] = "off"
    BY <1>8 DEF CrashRestart, IdleEx, IdleRc, Range
  <2> QED BY <1>k, <1>q, <2>1
\* A loop sends.
<1>9. ASSUME NEW m \in Market, NEW act \in {"make", "take", "cancel"},
             NEW side \in Side, NEW oid \in OrderIds, Emit(act, m, side, oid),
             pc[m] \notin {"off", "setup"}, NEW to, pc' = [pc EXCEPT ![m] = to],
             UNCHANGED <<known, rows, ex, rc>>
      PROVE  KnownInv'
  <2>1. \A in \in Range(queue)' : in.m \in known
    BY <1>t, <1>k, <1>9, Sent
  <2> QED BY <1>k, <1>q, <1>t, <1>9, <2>1
<1>10. ASSUME NEW m \in Market, NEW s \in plan[m], DecideTake(m, s)
       PROVE  KnownInv'
  <2>1. s \in Side /\ 0 \in OrderIds
    BY EngineAssumption DEF IInv, ControlTypeOK, OrderIds, EngineAssumption
  <2> QED BY <1>9, <1>10, <2>1 DEF DecideTake, ledger
<1>11. ASSUME NEW m \in Market, NEW id \in pull[m], PullOne(m, id)
       PROVE  KnownInv'
  <2>1. id \in OrderIds /\ "Up" \in Side
    BY DEF IInv, ControlTypeOK, Side
  <2> QED BY <1>9, <1>11, <2>1 DEF PullOne, ledger
<1>12. ASSUME NEW m \in Market, NEW s \in Side, QuoteSide(m, s)
       PROVE  KnownInv'
  <2>1. 0 \in OrderIds /\ pc[m] = "quote" /\ UNCHANGED <<known, rows, ex, rc>>
    BY <1>12, EngineAssumption DEF QuoteSide, ledger, OrderIds, EngineAssumption
  <2>2. CASE queue' = queue /\ pc' = [pc EXCEPT ![m] = Quoting(m)]
    BY <1>k, <1>q, <1>t, <2>1, <2>2
  <2> QED BY <1>9, <1>12, <2>1, <2>2 DEF QuoteSide
<1>13. ASSUME NEW m \in Market, ContextDone(m)
       PROVE  KnownInv'
  <2>1. UNCHANGED <<known, rows, rc>>
    BY <1>13 DEF ContextDone, ledger
  <2>2. /\ \A in \in Range(queue)' : in.m \in known
        /\ ex'.at # "idle" => ex'.in.m \in known
        /\ \A n \in Market : pc'[n] = pc[n] \/ pc[n] \in Waiting \cup {"pull"}
    BY <1>k, <1>13, Orphaned DEF SameBut, IInv
  <2> QED BY <1>k, <1>q, <2>1, <2>2 DEF Waiting
<1>14. ASSUME UNCHANGED <<rows, queue, ex, rc>>, known \subseteq known',
              \A m \in Market : \/ pc'[m] \in {"off", "setup"} \/ pc[m] \notin {"off", "setup"}
                                \/ m \in known'
       PROVE  KnownInv'
  BY <1>k, <1>q, <1>14
<1>15. ASSUME NEW m \in Market,
              \/ Spawn(m) \/ SetupDone(m) \/ SetupFails(m) \/ Exit(m) \/ Settle(m)
              \/ Tick(m) \/ TickEnds(m) \/ PullDone(m)
              \/ \E sides \in {plan[m], {}} : DecideQuote(m, sides)
       PROVE  KnownInv'
  BY <1>14, <1>15, <1>t
  DEF Spawn, SetupDone, SetupFails, Reap, Exit, Settle, Tick, TickEnds, PullDone, DecideQuote,
      ledger
<1>16. CASE Venue \/ UNCHANGED vars
  BY <1>14, <1>16
  DEF Venue, OrderAges, CounterpartyFills, WindowExpires, LateMined, vars, ledger, loops
<1>17. ASSUME NEW m \in Market, Loop(m)
       PROVE  KnownInv'
  BY <1>10, <1>11, <1>12, <1>13, <1>15, <1>17 DEF Loop
<1>18. CASE Executor
  <2>1. 0 \in 0..Size
    BY EngineAssumption DEF EngineAssumption
  <2> QED BY <1>1, <1>2, <1>4, <1>5, <1>18, <2>1 DEF Executor
<1> QED
  BY <1>6, <1>7, <1>8, <1>15, <1>16, <1>17, <1>18 DEF Next, Reconcile

LEMMA SettledInductive == IInv /\ RecordTypeOK /\ SettledInv /\ [Next]_vars => SettledInv'
<1> SUFFICES ASSUME IInv, RecordTypeOK, SettledInv, [Next]_vars
             PROVE  SettledInv'
  OBVIOUS
<1>1. CASE CrashRestart
  BY <1>1 DEF CrashRestart, SettledInv, venue
<1>2. CASE ~CrashRestart
  <2>1. ASSUME NEW m \in Market, pc'[m] = "settling"
        PROVE  phase'[m] = "expired"
    <3>1. pc[m] = "settling" \/ phase[m] = "expired"
      BY <1>2, <2>1, LoopMoves
      DEF Spawn, SetupDone, SetupFails, Exit, Settle, Resting, IInv, ControlTypeOK
    <3> QED BY <3>1, PhaseOnlyEnds DEF SettledInv
  <2>2. ASSUME NEW m \in settled'
        PROVE  phase'[m] = "expired"
    <3>1. m \in settled \/ (m \in Market /\ pc[m] = "settling")
      BY <1>2, <2>2
      DEF Next, Executor, Dequeue, Cancel, GuardExposure, SendFails, SendLands, SendAbandoned,
          ReceiptTimesOut, ReserveResting, TakeReceipt, RecordFill, Reconcile, IngestRow,
          IngestTrack, IngestInventory, IngestRelease, Loop, Spawn, SetupDone, SetupFails, Reap, Exit, Settle,
          Tick, TickEnds, DecideTake, DecideQuote, PullOne, PullDone, QuoteSide, ContextDone,
          Venue, OrderAges, CounterpartyFills, WindowExpires, LateMined, vars, ledger
    <3>2. phase[m] = "expired" /\ m \in Market
      BY <3>1 DEF SettledInv, RecordTypeOK
    <3> QED BY <3>2, PhaseOnlyEnds
  <2> QED BY <2>1, <2>2 DEF SettledInv
<1> QED BY <1>1, <1>2

LEMMA FirstLifeInductive ==
  IInv /\ RecordTypeOK /\ SettledInv /\ FirstLifeInv /\ [Next]_vars => FirstLifeInv'
<1> SUFFICES ASSUME IInv, RecordTypeOK, SettledInv, FirstLifeInv, [Next]_vars, MaxCrashes = 0,
                    NEW m \in Market, phase'[m] = "trading", m \in known'
             PROVE  pc'[m] \notin {"off", "setup"}
  BY DEF FirstLifeInv
<1>1. ~CrashRestart
  BY DEF CrashRestart, RecordTypeOK
<1>2. phase[m] = "trading"
  BY PhaseOnlyEnds DEF IInv, VenueTypeOK
<1>3. pc \in [Market -> LoopStates]
  BY DEF IInv, ControlTypeOK
<1>4. CASE SetupDone(m)
  BY <1>3, <1>4 DEF SetupDone
<1>5. ASSUME Spawn(m) \/ SetupFails(m) \/ Exit(m) \/ Settle(m)
      PROVE  FALSE
  BY <1>2, <1>5 DEF Spawn, SetupFails, Reap, Exit, Settle, SettledInv, FirstLifeInv, ledger
<1>6. CASE pc'[m] = pc[m] /\ m \in known
  BY <1>2, <1>6 DEF FirstLifeInv
<1> QED BY <1>1, <1>4, <1>5, <1>6, LoopMoves DEF Resting

LEMMA FreshInductive == IInv /\ TruthInv /\ FreshInv /\ [Next]_vars => FreshInv'
<1> SUFFICES ASSUME IInv, TruthInv, FreshInv, [Next]_vars
             PROVE  FreshInv'
  OBVIOUS
<1>1. ASSUME NEW got \in 0..Size, SendLands(got), got # 0
      PROVE  \A r \in rows : r.fill # Cardinality(fills')
  <2> DEFINE f == ExecutionOf(ex.in.m, ex.in.side, got, TRUE)
  <2>1. fills' = fills \cup {f} /\ f.id = Cardinality(fills) + 1
    BY <1>1 DEF SendLands, PlacementMined, ExecutionOf
  <2>2. IsFiniteSet(fills) /\ Cardinality(fills) \in Nat
    BY FS_CardinalityType DEF TruthInv, FillsNumbered
  <2>3. \A x \in fills : x.id \in 1..Cardinality(fills)
    BY DEF TruthInv, FillsNumbered
  <2> HIDE DEF f
  <2>4. f \notin fills
    BY <2>1, <2>2, <2>3
  <2>5. Cardinality(fills') = Cardinality(fills) + 1
    BY <2>1, <2>2, <2>4, FS_AddElement
  <2> QED BY <2>2, <2>3, <2>5 DEF TruthInv, LedgerTellsTheTruth
<1>2. ASSUME NEW got \in 0..Size, SendLands(got)
      PROVE  FreshInv'
  <2>1. rows' = rows /\ ex'.id = Cardinality(fills') /\ ex'.got = got
    BY <1>2, Landed DEF SendLands, ledger, IInv
  <2> QED BY <1>1, <1>2, <2>1 DEF FreshInv
<1>3. CASE ex'.at \notin {"receipt", "row"}
  BY <1>3 DEF FreshInv
<1>4. ASSUME ex.at \in {"receipt", "row"}, ex'.got = ex.got, ex'.id = ex.id,
             \A r \in rows' : r \in rows \/ r.key # "rcpt"
      PROVE  FreshInv'
  BY <1>4 DEF FreshInv
<1>9. CASE UNCHANGED <<rows, ex>>
  BY <1>9 DEF FreshInv
<1>5. CASE Executor
  <2>1. ASSUME Dequeue PROVE ex'.at = "check"
    BY <2>1 DEF Dequeue, IdleEx
  <2>4. ASSUME Reply PROVE ex'.at = "idle"
    BY <2>4 DEF Reply, IdleEx
  <2>3. Cancel => UNCHANGED <<rows, ex>>
    BY DEF Cancel, ledger
  <2>2. \A at : ex' = [ex EXCEPT !.at = at] => ex'.at = at /\ ex'.got = ex.got /\ ex'.id = ex.id
    BY Advanced DEF IInv
  <2> QED
    BY <1>2, <1>3, <1>4, <1>5, <1>9, <2>1, <2>2, <2>3, <2>4
    DEF Executor, GuardExposure, SendFails, SendAbandoned, ReceiptTimesOut, ReserveResting,
        TakeReceipt, RecordFill, ledger
<1>6. ASSUME NEW f \in Unseen, IngestRow(f)
      PROVE  FreshInv'
  BY <1>3, <1>4, <1>6 DEF IngestRow
<1>7. ASSUME NEW m \in Market, ContextDone(m)
      PROVE  FreshInv'
  <2>1. ex'.at = ex.at /\ ex'.id = ex.id /\ ex'.got = ex.got /\ rows' = rows
    BY <1>7, Orphaned DEF IInv, ContextDone, ledger
  <2> QED BY <1>3, <1>4, <2>1
<1>8. CASE CrashRestart
  BY <1>3, <1>8 DEF CrashRestart, IdleEx
<1> QED
  BY <1>5, <1>6, <1>7, <1>8, <1>9
  DEF Next, Reconcile, IngestTrack, IngestInventory, IngestRelease, Loop, Spawn, SetupDone, SetupFails, Reap,
      Exit, Settle, Tick, TickEnds, DecideTake, DecideQuote, PullOne, PullDone, QuoteSide, Venue,
      OrderAges, CounterpartyFills, WindowExpires, LateMined, vars, ledger

\* A set-up that fails although its window is open forgets a position only if a crash
\* came before it.
MemoryAssumption == "setupFail" \notin Env \/ MaxCrashes = 0

MemoryFacts ==
  /\ IInv /\ LiveInv /\ TruthInv /\ RecordTypeOK /\ NumbersInv
  /\ KnownInv /\ SettledInv /\ FreshInv /\ FirstLifeInv

LEMMA MemoryInductive ==
  ASSUME MemoryAssumption
  PROVE  MemoryFacts /\ MemoryInv /\ [Next]_vars => MemoryInv'
<1> SUFFICES ASSUME MemoryFacts, MemoryInv, [Next]_vars, HasLedger,
                    NEW m \in Market, m \in running' \/ phase'[m] = "trading"
             PROVE  Agrees(m)'
  BY DEF MemoryInv
<1> USE DEF MemoryFacts
<1>t. /\ inv \in [Market -> Int] /\ IsFiniteSet(rows) /\ LedgerPosition(m) \in Int
      /\ Owed(m) \in Int /\ Unwritten(m) \in Int
      /\ \A r \in rows : Signed(r.side, r.qty) \in Int
  <2>1. LedgerPosition(m) \in Int /\ \A r \in rows : Signed(r.side, r.qty) \in Int
    BY LedgerPositionIsInt, RowsAreNumbers DEF NumbersInv, TruthInv
  <2>2. Owed(m) \in Int /\ Unwritten(m) \in Int
    BY InHandAreNumbers DEF Owed, Unwritten
  <2> QED BY <2>1, <2>2 DEF NumbersInv
<1>o. m \in running \/ phase[m] = "trading"
  <2>1. phase'[m] = "trading" => phase[m] = "trading"
    BY PhaseOnlyEnds DEF IInv, VenueTypeOK
  <2>2. m \in running' => m \in running \/ phase[m] = "trading"
    BY DEF Next, Executor, Dequeue, Cancel, GuardExposure, SendFails, SendLands, SendAbandoned,
        ReceiptTimesOut, ReserveResting, TakeReceipt, RecordFill, Reconcile, IngestRow,
        IngestTrack, IngestInventory, IngestRelease, Loop, Spawn, SetupDone, SetupFails, Reap, Exit, Settle,
        Tick, TickEnds, DecideTake, DecideQuote, PullOne, PullDone, QuoteSide, ContextDone,
        Venue, OrderAges, CounterpartyFills, WindowExpires, LateMined, CrashRestart, vars, maps
  <2> QED BY <2>1, <2>2
<1>a. Agrees(m)
  BY <1>o DEF MemoryInv
\* Neither side moves.
<1>q. ASSUME inv'[m] = inv[m], rows' = rows, Owed(m)' = Owed(m), Unwritten(m)' = Unwritten(m)
      PROVE  Agrees(m)'
  BY <1>a, <1>q DEF Agrees, LedgerPosition
<1>1. CASE TakeReceipt
  <2>1. /\ ex.at = "receipt" /\ ex.in.m \in Market /\ Signed(ex.in.side, ex.got) \in Int
        /\ inv' = [inv EXCEPT ![ex.in.m] = @ + Signed(ex.in.side, ex.got)]
        /\ rows' = rows /\ rc' = rc
    BY <1>1, InHandAreNumbers DEF TakeReceipt, ledger
  <2>2. Unwritten(m) = 0 /\ Owed(m)' = Owed(m) /\ LedgerPosition(m)' = LedgerPosition(m)
    BY <2>1 DEF Unwritten, Owed, LedgerPosition
  <2>3. inv'[m] = inv[m] + (IF ex.in.m = m THEN Signed(ex.in.side, ex.got) ELSE 0)
    BY <1>t, <2>1
  <2>4. Unwritten(m)' = IF ex.in.m = m THEN Signed(ex.in.side, ex.got) ELSE 0
    <3>1. CASE ex.got = 0 /\ Reply
      <4>1. Signed(ex.in.side, ex.got) = 0
        BY <3>1, SignedNothing
      <4> QED BY <3>1, <4>1 DEF Unwritten, Reply, IdleEx
    <3>2. CASE ex' = [ex EXCEPT !.at = "row"]
      BY <3>2, Advanced DEF IInv, Unwritten
    <3> QED BY <1>1, <3>1, <3>2 DEF TakeReceipt
  <2> DEFINE d == IF ex.in.m = m THEN Signed(ex.in.side, ex.got) ELSE 0
  <2>5. d \in Int
    BY <2>1
  <2> HIDE DEF d
  <2>6. inv'[m] = inv[m] + d /\ Unwritten(m)' = d
    BY <2>3, <2>4 DEF d
  <2> QED BY <1>a, <1>t, <2>2, <2>5, <2>6 DEF Agrees
<1>2. CASE RecordFill
  <2> DEFINE r == [key |-> "rcpt", fill |-> ex.id, m |-> ex.in.m, side |-> ex.in.side,
                   qty |-> ex.got]
             d == IF ex.in.m = m THEN Signed(ex.in.side, ex.got) ELSE 0
  <2>1. /\ ex.at = "row" /\ ex.got # 0 /\ rows' = rows \cup {r} /\ ex'.at = "idle"
        /\ inv' = inv /\ rc' = rc /\ Signed(ex.in.side, ex.got) \in Int
    BY <1>2, InHandAreNumbers DEF RecordFill, Reply, IdleEx, maps, TruthInv, ExecutorSaw
  <2>2. r \notin rows
    BY <2>1 DEF FreshInv
  <2>3. /\ Unwritten(m) = d /\ Unwritten(m)' = 0 /\ Owed(m)' = Owed(m)
        /\ d \in Int
        /\ r.m = ex.in.m /\ Signed(r.side, r.qty) = Signed(ex.in.side, ex.got)
    BY <2>1 DEF Unwritten, Owed
  <2> HIDE DEF r
  <2>4. LedgerPosition(m)' = LedgerPosition(m) + d
    <3>1. \A q \in rows \cup {r} : Signed(q.side, q.qty) \in Int
      BY <1>t, <2>1, <2>3
    <3>2. Position(rows \cup {r}, m) =
            Position(rows, m) + (IF r.m = m THEN Signed(r.side, r.qty) ELSE 0)
      BY <1>t, <2>2, <3>1, PositionAfterRecord
    <3> QED BY <2>1, <2>3, <3>2 DEF LedgerPosition
  <2> HIDE DEF d
  <2> QED BY <1>a, <1>t, <2>1, <2>3, <2>4 DEF Agrees
<1>3. ASSUME NEW f \in Unseen, IngestRow(f)
      PROVE  Agrees(m)'
  <2> DEFINE r == [key |-> "idx", fill |-> f.id, m |-> f.m, side |-> OurSide(f), qty |-> f.qty]
             d == IF f.m = m THEN Signed(OurSide(f), f.qty) ELSE 0
  <2>1. /\ rc.at = "idle" /\ rows' = rows \cup {r} /\ rc' = [at |-> "track", fill |-> f]
        /\ inv' = inv /\ ex' = ex /\ r \notin rows
    BY <1>3 DEF IngestRow, Unseen, maps
  <2>2. Signed(OurSide(f), f.qty) \in Int
    BY FillsAreNumbers DEF Unseen, TruthInv, FillsSided
  <2>3. /\ Owed(m) = 0 /\ Owed(m)' = d /\ Unwritten(m)' = Unwritten(m) /\ d \in Int
        /\ r.m = f.m /\ Signed(r.side, r.qty) = Signed(OurSide(f), f.qty)
    BY <2>1, <2>2 DEF Unwritten, Owed
  <2> HIDE DEF r
  <2>4. LedgerPosition(m)' = LedgerPosition(m) + d
    <3>1. \A q \in rows \cup {r} : Signed(q.side, q.qty) \in Int
      BY <1>t, <2>2, <2>3
    <3>2. Position(rows \cup {r}, m) =
            Position(rows, m) + (IF r.m = m THEN Signed(r.side, r.qty) ELSE 0)
      BY <1>t, <2>1, <3>1, PositionAfterRecord
    <3> QED BY <2>1, <2>3, <3>2 DEF LedgerPosition
  <2> HIDE DEF d
  <2> QED BY <1>a, <1>t, <2>1, <2>3, <2>4 DEF Agrees
<1>4. CASE IngestInventory
  <2> DEFINE d == IF rc.fill.m = m THEN Signed(OurSide(rc.fill), rc.fill.qty) ELSE 0
  <2>1. /\ rc.at = "add" /\ rc'.at = "release" /\ rows' = rows /\ ex' = ex
        /\ inv' = [inv EXCEPT ![rc.fill.m] = @ + Signed(OurSide(rc.fill), rc.fill.qty)]
    BY <1>4 DEF IngestInventory, RecordTypeOK, ledger
  <2>2. Signed(OurSide(rc.fill), rc.fill.qty) \in Int /\ rc.fill.m \in Market
    BY <2>1, InHandAreNumbers
  <2>3. /\ Owed(m) = d /\ Owed(m)' = 0 /\ inv'[m] = inv[m] + d /\ d \in Int
        /\ Unwritten(m)' = Unwritten(m) /\ LedgerPosition(m)' = LedgerPosition(m)
    BY <1>t, <2>1, <2>2 DEF Owed, Unwritten, LedgerPosition
  <2> HIDE DEF d
  <2> QED BY <1>a, <1>t, <2>3 DEF Agrees
<1>5. CASE CrashRestart
  <2>1. /\ phase[m] = "trading" /\ rows' = rows /\ ex'.at = "idle" /\ rc'.at = "idle"
        /\ inv'[m] = IF m \in Restorable THEN LedgerPosition(m) ELSE 0
    BY <1>5 DEF CrashRestart, venue, IdleEx, IdleRc
  <2>2. m \notin Restorable => LedgerPosition(m) = 0
    <3>1. m \notin settled
      BY <2>1 DEF SettledInv
    <3>2. m \notin Restorable => \A r \in rows : r.m # m
      BY <3>1 DEF Restorable, KnownInv
    <3> QED BY <3>2, PositionOfNone DEF LedgerPosition
  <2>3. Owed(m)' = 0 /\ Unwritten(m)' = 0 /\ LedgerPosition(m)' = LedgerPosition(m)
    BY <2>1 DEF Owed, Unwritten, LedgerPosition
  <2> QED BY <1>t, <2>1, <2>2, <2>3 DEF Agrees
\* A set-up that fails while the window is open has nothing to forget.
<1>6. CASE Exit(m) \/ SetupFails(m)
  <2>1. /\ phase[m] = "trading" /\ inv'[m] = 0 /\ rows' = rows /\ UNCHANGED <<ex, rc>>
        /\ pc[m] = "setup" /\ "setupFail" \in Env
    BY <1>6, <1>t DEF Exit, SetupFails, Reap, venue, ledger
  <2>2. m \notin known
    BY <2>1 DEF MemoryAssumption, FirstLifeInv
  <2>3. /\ \A r \in rows : r.m # m
        /\ ex.at # "idle" => ex.in.m # m
        /\ rc.at # "idle" => rc.fill.m # m
    BY <2>2 DEF KnownInv
  <2>4. Owed(m)' = 0 /\ Unwritten(m)' = 0 /\ LedgerPosition(m)' = 0
    BY <2>1, <2>3, PositionOfNone DEF Owed, Unwritten, LedgerPosition
  <2> QED BY <2>1, <2>4 DEF Agrees
<1>7. ASSUME NEW n \in Market, n # m, Exit(n) \/ SetupFails(n)
      PROVE  Agrees(m)'
  <2>1. inv'[m] = inv[m] /\ rows' = rows /\ UNCHANGED <<ex, rc>>
    BY <1>7, <1>t DEF Exit, SetupFails, Reap, ledger
  <2> QED BY <1>q, <2>1 DEF Owed, Unwritten
<1>8. ASSUME NEW n \in Market, ContextDone(n)
      PROVE  Agrees(m)'
  <2>1. UNCHANGED <<inv, rows, rc>>
    BY <1>8 DEF ContextDone, maps, ledger
  <2>2. /\ ex'.at = ex.at /\ ex'.got = ex.got
        /\ ex.at # "idle" => ex'.in.m = ex.in.m /\ ex'.in.side = ex.in.side
    BY <1>8, Orphaned DEF IInv, SameBut
  <2> QED BY <1>q, <2>1, <2>2 DEF Owed, Unwritten
<1>9. ASSUME UNCHANGED <<inv, rows, rc>>, ex.at # "row", ex'.at # "row"
      PROVE  Agrees(m)'
  BY <1>q, <1>9 DEF Owed, Unwritten
<1>10. CASE \/ Dequeue \/ Cancel \/ GuardExposure \/ SendFails \/ SendAbandoned
            \/ ReceiptTimesOut \/ ReserveResting \/ \E got \in 0..Size : SendLands(got)
  <2>1. UNCHANGED <<inv, rows, rc>> /\ ex.at # "row"
    BY <1>10
    DEF Dequeue, Cancel, GuardExposure, SendFails, SendAbandoned, ReceiptTimesOut,
        ReserveResting, SendLands, maps, ledger
  <2>2. ex'.at # "row"
    <3>1. CASE GuardExposure
      BY <3>1, Advanced DEF GuardExposure, Reply, IdleEx, IInv
    <3>2. CASE \E got \in 0..Size : SendLands(got)
      BY <3>2, Landed DEF IInv
    <3>3. CASE Dequeue
      BY <3>3 DEF Dequeue, IdleEx
    <3>4. CASE Cancel
      BY <2>1, <3>4 DEF Cancel
    <3>5. CASE Reply
      BY <3>5 DEF Reply, IdleEx
    <3> QED
      BY <1>10, <3>1, <3>2, <3>3, <3>4, <3>5
      DEF SendFails, SendAbandoned, ReceiptTimesOut, ReserveResting
  <2> QED BY <1>9, <2>1, <2>2
<1>11. CASE UNCHANGED <<inv, rows, ex>> /\ (rc' = rc \/ (rc.at = "release" /\ rc'.at = "idle"))
  BY <1>q, <1>11 DEF Owed, Unwritten
<1>12. CASE IngestRelease \/ Venue \/ UNCHANGED vars
  <2>1. CASE IngestRelease
    BY <1>11, <2>1 DEF IngestRelease, IdleRc, ledger
  <2>2. CASE UNCHANGED <<inv, rows, ex, rc>>
    BY <1>11, <2>2
  <2>3. CASE Venue
    BY <2>2, <2>3
    DEF Venue, OrderAges, CounterpartyFills, WindowExpires, LateMined, ledger, maps
  <2> QED BY <1>12, <2>1, <2>2, <2>3 DEF vars, ledger, maps
<1>13. ASSUME NEW n \in Market, Spawn(n) \/ Settle(n) \/ Loop(n),
              ~Exit(n), ~SetupFails(n), ~ContextDone(n)
       PROVE  Agrees(m)'
  BY <1>11, <1>13
  DEF Loop, Spawn, SetupDone, Settle, Tick, TickEnds, DecideTake, DecideQuote, PullOne, PullDone,
      QuoteSide, ledger, maps
<1>14. CASE IngestTrack
  <2>1. /\ UNCHANGED <<inv, rows, ex>> /\ rc.at = "track" /\ rc'.at = "add"
        /\ rc'.fill = rc.fill
    BY <1>14 DEF IngestTrack, RecordTypeOK, ledger
  <2> QED BY <1>q, <2>1 DEF Owed, Unwritten
<1> QED
  BY <1>1, <1>2, <1>3, <1>4, <1>5, <1>6, <1>7, <1>8, <1>10, <1>12, <1>13, <1>14
  DEF Next, Executor, Reconcile, Loop

LEMMA MemoryFactsHold == Spec => []MemoryFacts
<1>1. Init => KnownInv /\ SettledInv /\ FreshInv /\ FirstLifeInv
  BY DEF Init, KnownInv, SettledInv, FreshInv, FirstLifeInv, IdleEx, IdleRc, Range
<1>2. Spec => []KnownInv
  BY <1>1, KnownInductive, IInvHolds, RecordsTyped, PTL DEF Spec
<1>3. Spec => []SettledInv
  BY <1>1, SettledInductive, IInvHolds, RecordsTyped, PTL DEF Spec
<1>4. Spec => []FreshInv
  BY <1>1, FreshInductive, IInvHolds, TruthHolds, PTL DEF Spec
<1>5. Spec => []FirstLifeInv
  BY <1>1, <1>3, FirstLifeInductive, IInvHolds, RecordsTyped, PTL DEF Spec
<1> QED
  BY <1>2, <1>3, <1>4, <1>5, IInvHolds, LiveHolds, TruthHolds, RecordsTyped, NumbersHold, PTL
  DEF MemoryFacts

\* Between bookings the inventory that gates a running window is what the ledger would
\* restore for it, through receipts, sweeps, crashes and restarts, unless a restarted
\* window's set-up fails before its deadline (engine.go:886-899, 1048-1070, 1192-1211).
THEOREM MemoryIsTheLedger ==
  ASSUME MemoryAssumption
  PROVE  Spec => []MemoryMatchesLedger
<1>1. Init => MemoryInv
  BY PositionOfNone, RowsAreNumbers
  DEF Init, MemoryInv, Agrees, Owed, Unwritten, LedgerPosition, IdleEx, IdleRc
<1>2. MemoryFacts /\ MemoryInv => MemoryMatchesLedger
  <2> SUFFICES ASSUME MemoryFacts, MemoryInv, HasLedger, NEW m \in running, ~Booking(m)
               PROVE  inv[m] = LedgerPosition(m)
    BY DEF MemoryMatchesLedger
  <2>1. m \in Market /\ inv[m] \in Int /\ LedgerPosition(m) \in Int
    BY LedgerPositionIsInt DEF MemoryFacts, RecordTypeOK, NumbersInv, TruthInv
  <2>2. Owed(m) = 0 /\ Unwritten(m) = 0
    BY DEF Booking, Owed, Unwritten
  <2> QED BY <2>1, <2>2 DEF MemoryInv, Agrees
<1> QED BY <1>1, <1>2, MemoryInductive, MemoryFactsHold, PTL DEF Spec
-----------------------------------------------------------------------------
(***************************************************************************)
(* The caps.  They hold while every answer of the chain is seen: no crash, *)
(* no receipt that is missed, no transaction mined after its wait; and as  *)
(* long as no sweep books again what a receipt already booked.             *)
(***************************************************************************)
Untraded == Env \cap {"take", "fill"} = {}
QuietAssumption ==
  /\ MaxCrashes = 0 /\ Env \cap {"timeout", "late"} = {}
  /\ HasLedger => Untraded

QuietInv ==
  /\ mempool = <<>> /\ rc.at = "idle" /\ ex.at # "row"
  /\ ex.at # "idle" => ex.in.act # "cancel"
  /\ Untraded => /\ fills = {}
                 /\ \A in \in Range(queue) : in.act # "take"
                 /\ ex.at # "idle" => ex.in.act # "take"

LEMMA NeverCrashes ==
  ASSUME MaxCrashes = 0, RecordTypeOK
  PROVE  ~CrashRestart
BY DEF CrashRestart, RecordTypeOK

LEMMA QuietInductive ==
  ASSUME QuietAssumption
  PROVE  IInv /\ RecordTypeOK /\ QuietInv /\ [Next]_vars => QuietInv'
<1> SUFFICES ASSUME IInv, RecordTypeOK, QuietInv, [Next]_vars
             PROVE  QuietInv'
  OBVIOUS
<1>t. /\ queue \in Seq(Intent) /\ ~CrashRestart /\ ~ReceiptTimesOut /\ \A in : ~Abandon(in)
      /\ mempool = <<>> /\ rc.at = "idle" /\ ex.at # "row"
  BY NeverCrashes DEF IInv, ControlTypeOK, QuietAssumption, QuietInv, ReceiptTimesOut, Abandon
<1>1. ~LateMined /\ ~IngestTrack /\ ~IngestInventory /\ ~IngestRelease /\ ~SendAbandoned /\ ~RecordFill
  BY <1>t DEF LateMined, IngestTrack, IngestInventory, IngestRelease, SendAbandoned, RecordFill
<1>2. ASSUME NEW f \in Unseen, IngestRow(f)
      PROVE  FALSE
  BY <1>2 DEF IngestRow, Unseen, QuietAssumption, QuietInv
<1>3. mempool' = mempool /\ rc' = rc
  BY <1>t, <1>1, <1>2
  DEF Next, Executor, Dequeue, Cancel, GuardExposure, SendFails, SendLands, ReserveResting,
      TakeReceipt, Reconcile, Loop, Spawn, SetupDone, SetupFails, Reap, Exit, Settle, Tick,
      TickEnds, DecideTake, DecideQuote, PullOne, PullDone, QuoteSide, ContextDone, Venue,
      OrderAges, CounterpartyFills, WindowExpires, vars, venue
\* What is sent and held after the step was sent or held before, or is no take.
<1>q. ASSUME ex'.at # "row",
             Untraded => fills' = fills /\ \A in \in Range(queue)' : in.act # "take",
             \/ ex'.at = "idle"
             \/ ex'.in \in Range(queue) /\ ex'.in.act # "cancel"
             \/ ex'.in.act = ex.in.act /\ ex.at # "idle"
      PROVE  QuietInv'
  BY <1>q, <1>t, <1>3 DEF QuietInv
<1>4. CASE Dequeue
  <2>1. queue # <<>> /\ queue' = Tail(queue) /\ ex'.in = Head(queue) /\ ex'.at = "check"
        /\ fills' = fills /\ Head(queue).act # "cancel"
    BY <1>4 DEF Dequeue, IdleEx, venue
  <2>2. Range(queue)' \subseteq Range(queue) /\ ex'.in \in Range(queue)
    BY <1>t, <2>1, RangeAfterReceive
  <2> QED BY <1>q, <2>1, <2>2 DEF QuietInv
<1>5. CASE Cancel
  <2>1. queue # <<>> /\ queue' = Tail(queue) /\ ex' = ex /\ fills' = fills
    BY <1>5, <1>t DEF Cancel, CancelMined
  <2>2. Range(queue)' \subseteq Range(queue)
    BY <1>t, <2>1, RangeAfterReceive
  <2> QED BY <1>q, <1>t, <2>1, <2>2 DEF QuietInv
<1>6. ASSUME NEW m \in Market, ContextDone(m)
      PROVE  QuietInv'
  <2>1. /\ ex'.at = ex.at
        /\ ex.at # "idle" => SameBut(ex'.in, ex.in, m)
        /\ \A in \in Range(queue') : \E old \in Range(queue) : SameBut(in, old, m)
    BY <1>6, Orphaned DEF IInv
  <2>2. fills' = fills
    BY <1>6 DEF ContextDone, venue
  <2> QED BY <1>q, <1>t, <2>1, <2>2 DEF QuietInv, SameBut
<1>7. ASSUME NEW m \in Market, NEW act \in {"make", "take", "cancel"},
             NEW side \in Side, NEW oid \in OrderIds, Emit(act, m, side, oid),
             Untraded => act # "take", ex' = ex, fills' = fills
      PROVE  QuietInv'
  <2>1. Untraded => \A in \in Range(queue)' : in.act # "take"
    BY <1>t, <1>7, Sent DEF QuietInv
  <2> QED BY <1>q, <1>t, <1>7, <2>1
<1>8. CASE UNCHANGED <<queue, ex, fills>>
  BY <1>q, <1>t, <1>8 DEF QuietInv
<1>9. ASSUME NEW m \in Market, NEW s \in plan[m], DecideTake(m, s)
      PROVE  QuietInv'
  <2>1. s \in Side /\ 0 \in OrderIds /\ ~Untraded
    BY <1>9, EngineAssumption
    DEF IInv, ControlTypeOK, OrderIds, EngineAssumption, DecideTake, Untraded
  <2> QED BY <1>7, <1>9, <2>1 DEF DecideTake, venue
<1>10. ASSUME NEW m \in Market, NEW id \in pull[m], PullOne(m, id)
       PROVE  QuietInv'
  <2>1. id \in OrderIds /\ "Up" \in Side
    BY DEF IInv, ControlTypeOK, Side
  <2> QED BY <1>7, <1>10, <2>1 DEF PullOne, venue
<1>11. ASSUME NEW m \in Market, NEW s \in Side, QuoteSide(m, s)
       PROVE  QuietInv'
  <2>1. 0 \in OrderIds /\ UNCHANGED <<ex, fills>>
    BY <1>11, EngineAssumption DEF QuoteSide, venue, OrderIds, EngineAssumption
  <2>2. CASE queue' = queue
    BY <1>8, <2>1, <2>2
  <2> QED BY <1>7, <1>11, <2>1, <2>2 DEF QuoteSide
<1>12. ASSUME UNCHANGED <<queue, fills>>, ex'.at \notin {"row"},
              ex'.at = "idle" \/ (ex'.in = ex.in /\ ex.at # "idle")
       PROVE  QuietInv'
  BY <1>q, <1>12 DEF QuietInv
<1>13. ASSUME NEW got \in 0..Size, SendLands(got)
       PROVE  QuietInv'
  <2>1. ex'.at = "receipt" /\ ex'.in = ex.in /\ ex.at = "send" /\ queue' = queue
    BY <1>13, Landed DEF IInv, SendLands
  <2>2. Untraded => ex.in.act = "make"
    BY <2>1 DEF QuietInv, IInv, ControlTypeOK, Intent
  <2>3. Untraded => fills' = fills
    BY <1>13, <2>2 DEF SendLands, PlacementMined
  <2> QED BY <1>q, <2>1, <2>3 DEF QuietInv
<1>14. CASE TakeReceipt
  <2>1. ~HasLedger
    BY <1>14 DEF TakeReceipt, QuietAssumption, QuietInv
  <2> QED BY <1>12, <1>14, <2>1 DEF TakeReceipt, Reply, IdleEx, venue
<1>15. CASE GuardExposure \/ SendFails \/ ReserveResting
  <2>1. ex'.at = "idle" \/ (ex'.at = "send" /\ ex'.in = ex.in /\ ex.at # "idle")
    BY <1>15, Advanced DEF GuardExposure, SendFails, ReserveResting, Reply, IdleEx, IInv
  <2> QED BY <1>12, <1>15, <2>1 DEF GuardExposure, SendFails, ReserveResting, venue
<1>16. ASSUME NEW o \in book, NEW q \in 1..o.rem, CounterpartyFills(o, q)
       PROVE  QuietInv'
  BY <1>q, <1>t, <1>16 DEF CounterpartyFills, Untraded, QuietInv
<1>17. CASE Executor
  BY <1>1, <1>t, <1>4, <1>5, <1>13, <1>14, <1>15, <1>17 DEF Executor
<1>18. ASSUME NEW m \in Market, Spawn(m) \/ Settle(m) \/ Loop(m),
              ~ContextDone(m), ~\E s \in plan[m] : DecideTake(m, s),
              ~\E id \in pull[m] : PullOne(m, id), ~\E s \in Side : QuoteSide(m, s)
       PROVE  QuietInv'
  BY <1>8, <1>18
  DEF Loop, Spawn, SetupDone, SetupFails, Reap, Exit, Settle, Tick, TickEnds, DecideQuote,
      PullDone, venue
<1>19. ASSUME NEW m \in Market, Spawn(m) \/ Settle(m) \/ Loop(m)
       PROVE  QuietInv'
  BY <1>6, <1>9, <1>10, <1>11, <1>18, <1>19
<1>20. CASE Venue
  BY <1>1, <1>8, <1>16, <1>20 DEF Venue, OrderAges, WindowExpires
<1>21. CASE UNCHANGED vars
  BY <1>8, <1>21 DEF vars, venue
<1> QED BY <1>t, <1>1, <1>2, <1>17, <1>19, <1>20, <1>21 DEF Next, Reconcile

LEMMA QuietHolds ==
  ASSUME QuietAssumption
  PROVE  Spec => []QuietInv
<1>1. Init => QuietInv
  BY DEF Init, QuietInv, IdleEx, IdleRc, Range
<1> QED BY <1>1, QuietInductive, IInvHolds, RecordsTyped, PTL DEF Spec
-----------------------------------------------------------------------------
\* Every order on the pool has its reservation, or its receipt is about to make it,
\* and a loop that will pull it.
Reserved(m, s) == \/ resting[m][s] = Size
                  \/ ex.at = "receipt" /\ ex.in.act = "make" /\ ex.in.m = m /\ ex.in.side = s
CoverInv ==
  \A o \in book : Reserved(o.m, o.side) /\ pc[o.m] \notin {"off", "setup"} /\ ~o.late

\* What the cover rests on.
CoverFacts ==
  /\ IInv /\ LiveInv /\ PlanInv /\ BookInv /\ TruthInv /\ RecordTypeOK /\ SettledInv /\ QuietInv

\* A loop that has pulled everything it read has nothing left on the pool.
LEMMA PulledIsEmpty ==
  ASSUME CoverFacts, CoverInv, NEW m \in Market, PullDone(m)
  PROVE  \A o \in book : o.m # m
<1> SUFFICES ASSUME NEW o \in book, o.m = m PROVE FALSE
  OBVIOUS
<1> USE DEF CoverFacts
<1>1. pc[m] = "pull" /\ pull[m] = {}
  BY DEF PullDone
<1>2. phase[m] = "trading" /\ Sought(m, o.id)
  BY <1>1 DEF CoverInv, BookInv, OrderInv, Pulling
<1>3. ~CancelPending(o.id)
  BY DEF QuietInv, CancelPending, Range
<1>4. ~CancelQueued(m, o.id)
  BY <1>1, <1>2, Silent DEF Waiting
<1> QED BY <1>1, <1>2, <1>3, <1>4 DEF Sought

LEMMA CoverInductive ==
  ASSUME QuietAssumption
  PROVE  CoverFacts /\ CoverInv /\ [Next]_vars => CoverInv'
<1> SUFFICES ASSUME CoverFacts, CoverInv, [Next]_vars
             PROVE  CoverInv'
  OBVIOUS
<1> USE DEF CoverFacts
<1>t. /\ book \subseteq Order /\ pc \in [Market -> LoopStates]
      /\ resting \in [Market -> [Side -> {0, Size}]]
      /\ ~CrashRestart /\ mempool = <<>> /\ rc.at = "idle"
      /\ \A o \in book : o.m \in Market /\ o.side \in Side
  BY NeverCrashes
  DEF IInv, VenueTypeOK, ControlTypeOK, RecordTypeOK, QuietAssumption, QuietInv, Order
\* A loop with orders on the pool does not leave its window.
<1>p. ASSUME NEW o \in book
      PROVE  pc'[o.m] \notin {"off", "setup"}
  <2>1. pc[o.m] \notin {"off", "setup"} /\ phase[o.m] = "trading" /\ o.m \in Market
    BY <1>t DEF CoverInv, BookInv, OrderInv
  <2>2. ~Spawn(o.m) /\ ~SetupFails(o.m) /\ ~Exit(o.m) /\ ~Settle(o.m)
    BY <2>1 DEF Spawn, SetupFails, Exit, Settle, SettledInv
  <2>3. SetupDone(o.m) => pc'[o.m] = "idle"
    BY <1>t DEF SetupDone
  <2> QED BY <1>t, <2>1, <2>2, <2>3, LoopMoves DEF Resting
<1>q. ASSUME \A p \in book' : \E o \in book : o.m = p.m /\ o.side = p.side /\ o.late = p.late,
             \A o \in book : Reserved(o.m, o.side)'
      PROVE  CoverInv'
  BY <1>p, <1>q DEF CoverInv
\* No reservation moves.
<1>r. ASSUME \A p \in book' : \E o \in book : o.m = p.m /\ o.side = p.side /\ o.late = p.late,
             resting' = resting,
             \/ ex.at # "receipt" \/ ex.in.act # "make"
             \/ ex'.at = "receipt" /\ SameBut(ex'.in, ex.in, NoMarket)
      PROVE  CoverInv'
  BY <1>q, <1>r DEF CoverInv, Reserved, SameBut
<1>s. ASSUME book' = book, resting' = resting, ex' = ex
      PROVE  CoverInv'
  BY <1>q, <1>s DEF CoverInv, Reserved
<1>1. ASSUME NEW got \in 0..Size, SendLands(got)
      PROVE  CoverInv'
  <2>1. /\ ex.at = "send" /\ ex'.at = "receipt" /\ ex'.in = ex.in /\ resting' = resting
        /\ pc' = pc /\ phase[ex.in.m] = "trading" /\ ex.in.m \in Market
    BY <1>1, Landed DEF SendLands, PlacementMined, maps, loops, IInv, ControlTypeOK, Intent
  <2>2. CASE book' = book
    BY <1>r, <2>1, <2>2
  <2>3. CASE ex.in.act = "make"
    <3> DEFINE new == [id |-> placed', m |-> ex.in.m, side |-> ex.in.side, rem |-> Size,
                       late |-> FALSE]
    <3>1. /\ book' = book \cup {new}
          /\ new.m = ex.in.m /\ new.side = ex.in.side /\ ~new.late
          /\ \E n : n = new
      BY <1>1, <2>3 DEF SendLands, PlacementMined
    <3> HIDE DEF new
    <3>2. PICK n : book' = book \cup {n} /\ n.m = ex.in.m /\ n.side = ex.in.side /\ ~n.late
      BY <3>1
    <3>3. ex.in.live
      BY <2>1 DEF LiveInv
    <3>4. pc[ex.in.m] \in Waiting
      BY <2>1, <3>3, LiveIsAwaited DEF IInv
    <3>5. \A o \in book : Reserved(o.m, o.side)'
      BY <2>1 DEF CoverInv, Reserved
    <3>6. Reserved(ex.in.m, ex.in.side)'
      BY <2>1, <2>3 DEF Reserved
    <3>7. pc'[ex.in.m] \notin {"off", "setup"}
      BY <2>1, <3>4 DEF Waiting
    <3>8. Reserved(n.m, n.side)' /\ pc'[n.m] \notin {"off", "setup"}
      BY <2>1, <3>2, <3>6, <3>7 DEF Reserved
    <3> QED BY <1>p, <3>2, <3>5, <3>8 DEF CoverInv
  <2> QED BY <1>1, <2>2, <2>3 DEF SendLands, PlacementMined
<1>2. CASE ReserveResting
  <2>1. /\ ex.at = "receipt" /\ ex.in.m \in Market /\ ex.in.side \in Side /\ book' = book
        /\ resting' = [resting EXCEPT ![ex.in.m][ex.in.side] = Size]
    BY <1>2 DEF ReserveResting, venue, IInv, ControlTypeOK, Intent
  <2>2. resting'[ex.in.m][ex.in.side] = Size
    BY <1>t, <2>1
  <2>3. ASSUME NEW m \in Market, NEW s \in Side, resting[m][s] = Size
        PROVE  resting'[m][s] = Size
    BY <1>t, <2>1, <2>3
  <2>4. \A o \in book : Reserved(o.m, o.side)'
    BY <1>t, <2>2, <2>3 DEF CoverInv, Reserved
  <2> QED BY <1>q, <2>1, <2>4
\* A window's reservations are released when nothing of it rests.
<1>3. ASSUME NEW m \in Market, resting' = [resting EXCEPT ![m] = NoResting],
             book' = book, ex' = ex, \A o \in book : o.m # m
      PROVE  CoverInv'
  BY <1>q, <1>t, <1>3 DEF CoverInv, Reserved
<1>4. ASSUME NEW m \in Market, PullDone(m)
      PROVE  CoverInv'
  BY <1>3, <1>4, PulledIsEmpty DEF PullDone, venue
<1>5. ASSUME NEW m \in Market, SetupFails(m) \/ Exit(m)
      PROVE  CoverInv'
  <2>1. \A o \in book : o.m # m
    BY <1>5 DEF SetupFails, Exit, CoverInv, BookInv, OrderInv
  <2> QED BY <1>3, <1>5, <2>1 DEF SetupFails, Exit, Reap, venue
<1>6. ASSUME NEW m \in Market, ContextDone(m)
      PROVE  CoverInv'
  <2>1. /\ book' = book /\ ex'.at = ex.at
        /\ ex.at # "idle" => SameBut(ex'.in, ex.in, m)
    BY <1>6, Orphaned DEF IInv
  <2>2. resting' = resting
    BY <1>6 DEF ContextDone, maps
  <2> QED BY <1>q, <2>1, <2>2 DEF CoverInv, Reserved, SameBut
<1>7. ASSUME NEW o \in book, NEW q \in 1..o.rem, CounterpartyFills(o, q)
      PROVE  CoverInv'
  <2> DEFINE rest == [o EXCEPT !.rem = @ - q]
  <2>1. rest.m = o.m /\ rest.side = o.side /\ rest.late = o.late
    BY <1>t DEF Order
  <2>2. book' \subseteq book \cup {rest} /\ resting' = resting /\ ex' = ex
    BY <1>7 DEF CounterpartyFills, maps
  <2> HIDE DEF rest
  <2>3. \A p \in book' : \E b \in book : b.m = p.m /\ b.side = p.side /\ b.late = p.late
    BY <2>1, <2>2
  <2> QED BY <1>q, <2>2, <2>3 DEF CoverInv, Reserved
<1>8. ASSUME book' \subseteq book, resting' = resting, ex' = ex
      PROVE  CoverInv'
  BY <1>q, <1>8 DEF CoverInv, Reserved
<1>9. CASE Venue
  <2>1. ~LateMined
    BY <1>t DEF LateMined
  <2> QED BY <1>7, <1>8, <1>9, <2>1 DEF Venue, OrderAges, WindowExpires, maps
<1>10. CASE Cancel
  BY <1>8, <1>10, <1>t
  DEF Cancel, CancelMined, maps, Abandon, QuietAssumption
<1>11. ASSUME ex.at # "receipt", UNCHANGED <<book, resting>>
       PROVE  CoverInv'
  BY <1>q, <1>11 DEF CoverInv, Reserved
<1>12. CASE Dequeue \/ GuardExposure \/ SendFails \/ SendAbandoned \/ RecordFill
  BY <1>11, <1>12 DEF Dequeue, GuardExposure, SendFails, SendAbandoned, RecordFill, venue, maps
<1>13. CASE TakeReceipt
  BY <1>q, <1>13 DEF TakeReceipt, venue, CoverInv, Reserved
<1>14. CASE Executor
  BY <1>1, <1>2, <1>10, <1>12, <1>13, <1>14 DEF Executor, ReceiptTimesOut, QuietAssumption
<1>15. CASE Reconcile \/ UNCHANGED vars
  BY <1>8, <1>15, <1>t
  DEF Reconcile, IngestRow, IngestTrack, IngestInventory, IngestRelease, vars, venue, maps
<1>16. ASSUME NEW m \in Market, Spawn(m) \/ Loop(m) \/ Settle(m)
       PROVE  CoverInv'
  <2>1. CASE PullDone(m) \/ SetupFails(m) \/ Exit(m) \/ ContextDone(m)
    BY <1>4, <1>5, <1>6, <2>1
  <2> QED
    BY <1>8, <1>16, <2>1
    DEF Loop, Spawn, Settle, SetupDone, Tick, TickEnds, DecideTake, DecideQuote, PullOne,
        QuoteSide, venue, maps
<1> QED BY <1>t, <1>9, <1>14, <1>15, <1>16 DEF Next

\* The hypotheses of the two theorems on resting orders.
BookAssumption == QuietAssumption /\ "cancelFail" \notin Env

LEMMA CoverHolds ==
  ASSUME BookAssumption
  PROVE  Spec => [](CoverFacts /\ CoverInv)
<1>1. QuietAssumption /\ "cancelFail" \notin Env
  BY DEF BookAssumption
<1>2. Spec => []SettledInv
  BY MemoryFactsHold, PTL DEF MemoryFacts
<1>3. Spec => []CoverFacts
  BY <1>1, <1>2, IInvHolds, LiveHolds, BookHolds, TruthHolds, RecordsTyped, QuietHolds, PTL
  DEF CoverFacts
<1>4. Init => CoverInv
  BY DEF Init, CoverInv
<1> QED BY <1>1, <1>3, <1>4, CoverInductive, PTL DEF Spec

\* As long as no cancel fails and every receipt is seen, an order on the pool is one
\* memory has reserved for, or the one whose receipt is awaited; and the sweep, which
\* releases by side and not by order, has nothing to ingest (engine.go:49-63, 761-776).
THEOREM ReservationsCoverTheBook ==
  ASSUME BookAssumption
  PROVE  Spec => []ReservationCoversBook
<1>1. CoverFacts /\ CoverInv => ReservationCoversBook
  <2> SUFFICES ASSUME CoverFacts, CoverInv, NEW o \in book
               PROVE  \/ resting[o.m][o.side] >= o.rem
                      \/ ex.at = "receipt" /\ ex.in.m = o.m /\ ex.in.side = o.side
    BY DEF ReservationCoversBook
  <2>1. o.rem \in 1..Size /\ Reserved(o.m, o.side)
    BY DEF CoverFacts, CoverInv, IInv, VenueTypeOK, Order
  <2>2. resting[o.m][o.side] = Size => resting[o.m][o.side] >= o.rem
    BY <2>1, EngineAssumption DEF EngineAssumption
  <2> QED BY <2>1, <2>2 DEF Reserved
<1> QED BY <1>1, CoverHolds, PTL
-----------------------------------------------------------------------------
(***************************************************************************)
(* Takes.  The executor checks and sends in one turn, so the exposure it   *)
(* read is the one its fill adds to; and what it read is what we hold,     *)
(* as long as no window is reaped with a position and nothing but the      *)
(* receipts books.                                                         *)
(***************************************************************************)
TakeAssumption ==
  /\ ~HasLedger /\ MaxCrashes = 0
  /\ Env \cap {"fill", "expire", "timeout", "late"} = {}

\* The execution whose receipt is awaited.
Coming(m) ==
  IF ex.at = "receipt" /\ ex.in.act = "take" /\ ex.in.m = m
  THEN Signed(ex.in.side, ex.got) ELSE 0
PositionsInv == \A m \in Market : inv[m] + Coming(m) = ChainPosition(m)
\* A window with a position has a loop, and the loop has it counted.
TradedInv ==
  /\ \A m \in Market : phase[m] = "trading"
  /\ \A m \in Market : pc[m] \in {"off", "setup"} => \A f \in fills : f.m # m
  /\ \A m \in Market : pc[m] = "off" \/ m \in tracked
CheckedInv ==
  /\ ex.at \in {"check", "send"} => ex.base = ChainExposure(AssetOf[ex.in.m])
  /\ ex.at = "send" /\ ex.in.act = "take" => ExposureAllows(ex.base, Signed(ex.in.side, Size))
TakeInv == PositionsInv /\ TradedInv /\ CheckedInv /\ ExposureWithinCap

TakeFacts ==
  IInv /\ LiveInv /\ TruthInv /\ RecordTypeOK /\ NumbersInv /\ SettledInv /\ QuietInv

OfAsset(a) == {m \in Market : AssetOf[m] = a}

LEMMA ChainIsInt ==
  ASSUME RecordTypeOK, TruthInv
  PROVE  /\ \A m : ChainPosition(m) \in Int
         /\ \A a : ChainExposure(a) \in Int /\ IsFiniteSet(OfAsset(a))
<1>1. \A m : ChainPosition(m) \in Int
  BY FillsAreNumbers, PositionIsInt DEF ChainPosition, TruthInv, FillsNumbered
<1>2. ASSUME NEW a
      PROVE  ChainExposure(a) \in Int /\ IsFiniteSet(OfAsset(a))
  <2> DEFINE f == [m \in Market |-> ChainPosition(m)]
  <2>1. IsFiniteSet(OfAsset(a)) /\ \A m \in OfAsset(a) : f[m] \in Int
    BY <1>1, EngineAssumption, FS_Subset DEF OfAsset, EngineAssumption
  <2>2. ChainExposure(a) = SumFunctionOnSet(f, OfAsset(a))
    BY DEF ChainExposure, OfAsset
  <2> HIDE DEF f
  <2> QED BY <2>1, <2>2, SumIsInt
<1> QED BY <1>1, <1>2

\* What the executor measures between two turns is what we hold.
LEMMA MeasuredIsHeld ==
  ASSUME TakeFacts, TakeInv, ex.at = "idle", NEW a
  PROVE  AssetExposure(a) = ChainExposure(a)
<1> DEFINE f == [m \in Market |-> ChainPosition(m)]
<1> USE DEF TakeFacts
<1>1. OnAsset(a) \subseteq OfAsset(a) /\ OfAsset(a) \subseteq Market
  BY DEF OnAsset, OfAsset, RecordTypeOK
<1>2. ASSUME NEW m \in OfAsset(a), m \notin OnAsset(a)
      PROVE  f[m] = 0
  <2>1. m \in Market /\ \A r \in fills : r.m # m
    BY <1>2 DEF OnAsset, OfAsset, TakeInv, TradedInv
  <2> QED BY <2>1, PositionOfNone DEF ChainPosition
<1>3. \A m \in Market : f[m] \in Int /\ f[m] = inv[m]
  <2> SUFFICES ASSUME NEW m \in Market PROVE f[m] \in Int /\ f[m] = inv[m]
    OBVIOUS
  <2>1. inv[m] \in Int /\ inv[m] + Coming(m) = ChainPosition(m) /\ Coming(m) = 0
    BY DEF TakeInv, PositionsInv, NumbersInv, Coming
  <2>2. ChainPosition(m) \in Int
    BY ChainIsInt
  <2> QED BY <2>1, <2>2
<1>4. ChainExposure(a) = SumFunctionOnSet(f, OfAsset(a)) /\ IsFiniteSet(OfAsset(a))
  BY ChainIsInt DEF ChainExposure, OfAsset
<1> HIDE DEF f, OfAsset, OnAsset
<1>5. SumFunctionOnSet(f, OfAsset(a)) = SumFunctionOnSet(f, OnAsset(a))
  BY <1>1, <1>2, <1>3, <1>4, SumOfPart
<1>6. IsFiniteSet(OnAsset(a)) /\ \A m \in OnAsset(a) : f[m] = inv[m]
  BY <1>1, <1>3, <1>4, FS_Subset
<1>7. SumFunctionOnSet(f, OnAsset(a)) = SumFunctionOnSet(inv, OnAsset(a))
  BY <1>6, SumOfEquals
<1> QED BY <1>4, <1>5, <1>7 DEF AssetExposure

\* What one more execution does to the position of each window and to each asset.
LEMMA HeldAfterExecution ==
  ASSUME RecordTypeOK, TruthInv, NEW x, x \notin fills, x.m \in Market,
         Signed(x.side, x.qty) \in Int, fills' = fills \cup {x}
  PROVE  /\ \A m : ChainPosition(m)' =
                     ChainPosition(m) + (IF x.m = m THEN Signed(x.side, x.qty) ELSE 0)
         /\ \A a : ChainExposure(a)' =
              ChainExposure(a) + (IF AssetOf[x.m] = a THEN Signed(x.side, x.qty) ELSE 0)
<1> DEFINE d == Signed(x.side, x.qty)
           f == [m \in Market |-> Position(fills, m)]
           g == [m \in Market |-> Position(fills \cup {x}, m)]
<1>1. ASSUME NEW m
      PROVE  Position(fills \cup {x}, m) = Position(fills, m) + (IF x.m = m THEN d ELSE 0)
  <2>1. IsFiniteSet(fills) /\ \A r \in fills \cup {x} : Signed(r.side, r.qty) \in Int
    BY FillsAreNumbers DEF TruthInv, FillsNumbered
  <2> QED BY <2>1, PositionAfterRecord
<1>2. d \in Int /\ \A m : Position(fills, m) \in Int
  BY ChainIsInt DEF ChainPosition
<1>3. ASSUME NEW a
      PROVE  ChainExposure(a)' = ChainExposure(a) + (IF AssetOf[x.m] = a THEN d ELSE 0)
  <2>1. /\ ChainExposure(a) = SumFunctionOnSet(f, OfAsset(a))
        /\ ChainExposure(a)' = SumFunctionOnSet(g, OfAsset(a))
    BY DEF ChainExposure, ChainPosition, OfAsset
  <2>2. IsFiniteSet(OfAsset(a)) /\ SumFunctionOnSet(f, OfAsset(a)) \in Int
    BY <2>1, ChainIsInt
  <2>3. \A m \in Market : f[m] \in Int /\ g[m] = f[m] + (IF x.m = m THEN d ELSE 0)
    BY <1>1, <1>2
  <2> HIDE DEF d, f, g
  <2>4. CASE AssetOf[x.m] = a
    <3>1. x.m \in OfAsset(a) /\ OfAsset(a) \subseteq Market
      BY <2>4 DEF OfAsset
    <3>2. /\ g[x.m] \in Int /\ f[x.m] \in Int /\ g[x.m] - f[x.m] = d
          /\ \A m \in OfAsset(a) : f[m] \in Int
          /\ \A m \in OfAsset(a) : m # x.m => g[m] = f[m]
      BY <1>2, <2>3, <3>1
    <3>3. SumFunctionOnSet(g, OfAsset(a)) = SumFunctionOnSet(f, OfAsset(a)) + (g[x.m] - f[x.m])
      <4> DEFINE S == OfAsset(a)
                 n == x.m
      <4>1. /\ IsFiniteSet(S) /\ n \in S /\ g[n] \in Int
            /\ \A m \in S : f[m] \in Int
            /\ \A m \in S : m # n => g[m] = f[m]
        BY <2>2, <3>1, <3>2
      <4> HIDE DEF S, n
      <4>2. SumFunctionOnSet(g, S) = SumFunctionOnSet(f, S) + (g[n] - f[n])
        BY <4>1, SumAfterUpdate
      <4> QED BY <4>2 DEF S, n
    <3> QED BY <2>1, <2>4, <3>2, <3>3
  <2>5. CASE AssetOf[x.m] # a
    <3>1. \A m \in OfAsset(a) : g[m] = f[m]
      BY <2>3, <2>5 DEF OfAsset
    <3>2. SumFunctionOnSet(g, OfAsset(a)) = SumFunctionOnSet(f, OfAsset(a))
      BY <2>2, <3>1, SumOfEquals
    <3> QED BY <2>1, <2>2, <2>5, <3>2
  <2> QED BY <2>4, <2>5
<1>4. \A m : ChainPosition(m)' = ChainPosition(m) + (IF x.m = m THEN d ELSE 0)
  BY <1>1 DEF ChainPosition
<1> QED BY <1>3, <1>4

LEMMA TradedInductive ==
  ASSUME TakeAssumption
  PROVE  TakeFacts /\ TradedInv /\ [Next]_vars => TradedInv'
<1> SUFFICES ASSUME TakeFacts, TradedInv, [Next]_vars
             PROVE  TradedInv'
  OBVIOUS
<1> USE DEF TakeFacts
<1>t. /\ ~CrashRestart /\ rc.at = "idle" /\ mempool = <<>>
      /\ \A m \in Market : phase[m] = "trading" /\ pc[m] # "settling"
      /\ pc \in [Market -> LoopStates]
  BY NeverCrashes
  DEF TakeAssumption, QuietInv, TradedInv, SettledInv, IInv, ControlTypeOK
<1>1. \A m \in Market : ~Exit(m) /\ ~ContextDone(m) /\ ~WindowExpires(m) /\ ~Settle(m)
  BY <1>t DEF Exit, ContextDone, WindowExpires, Settle, TakeAssumption
<1>2. ~LateMined /\ ~IngestTrack /\ ~IngestInventory /\ \A o, q : ~CounterpartyFills(o, q)
  BY <1>t DEF LateMined, IngestTrack, IngestInventory, CounterpartyFills, TakeAssumption
<1>3. phase' = phase
  BY <1>t, <1>1, <1>2
  DEF Next, Executor, Dequeue, Cancel, GuardExposure, SendFails, SendLands, SendAbandoned,
      ReceiptTimesOut, ReserveResting, TakeReceipt, RecordFill, Reconcile, IngestRow,
      IngestRelease, Loop, Spawn, SetupDone, SetupFails, Reap, Tick, TickEnds, DecideTake,
      DecideQuote, PullOne, PullDone, QuoteSide, Venue, OrderAges, vars, venue
<1>4. \/ tracked' = tracked
      \/ \E n \in Market : Spawn(n) \/ (SetupFails(n) /\ tracked' = tracked \ {n})
  BY <1>t, <1>1, <1>2
  DEF Next, Executor, Dequeue, Cancel, GuardExposure, SendFails, SendLands, SendAbandoned,
      ReceiptTimesOut, ReserveResting, TakeReceipt, RecordFill, Reconcile, IngestRow,
      IngestRelease, Loop, SetupDone, SetupFails, Reap, Tick, TickEnds, DecideTake,
      DecideQuote, PullOne, PullDone, QuoteSide, Venue, OrderAges, vars, maps
<1>5. fills' = fills \/ \E got \in 0..Size : SendLands(got)
  BY <1>t, <1>1, <1>2
  DEF Next, Executor, Dequeue, Cancel, CancelMined, GuardExposure, SendFails, SendAbandoned,
      ReceiptTimesOut, ReserveResting, TakeReceipt, RecordFill, Reconcile, IngestRow,
      IngestRelease, Loop, Spawn, SetupDone, SetupFails, Reap, Tick, TickEnds, DecideTake,
      DecideQuote, PullOne, PullDone, QuoteSide, Venue, OrderAges, vars, venue
<1>6. ASSUME NEW m \in Market, pc'[m] # "off"
      PROVE  m \in tracked'
  <2>1. CASE Spawn(m)
    BY <2>1 DEF Spawn
  <2>2. pc[m] # "off" \/ Spawn(m)
    BY <1>t, <1>1, <1>6, LoopMoves DEF SetupDone, SetupFails, Resting
  <2>3. SetupFails(m) => pc'[m] = "off"
    BY <1>t DEF SetupFails
  <2> QED BY <1>4, <1>6, <2>1, <2>2, <2>3 DEF TradedInv, Spawn
<1>7. ASSUME NEW m \in Market, pc'[m] \in {"off", "setup"}, NEW f \in fills'
      PROVE  f.m # m
  <2>1. pc[m] \in {"off", "setup"}
    BY <1>t, <1>1, <1>7, LoopMoves DEF Spawn, SetupDone, SetupFails, Resting
  <2>2. CASE f \in fills
    BY <2>1, <2>2 DEF TradedInv
  <2>3. ASSUME NEW got \in 0..Size, SendLands(got), f \notin fills
        PROVE  f.m # m
    <3>1. ex.at = "send" /\ ex.in.m \in Market /\ f.m = ex.in.m
      BY <2>3, <1>7
      DEF SendLands, PlacementMined, ExecutionOf, IInv, ControlTypeOK, Intent
    <3>2. ex.in.live
      BY <1>t, <3>1 DEF LiveInv
    <3>3. pc[ex.in.m] \in Waiting
      BY <3>1, <3>2, LiveIsAwaited DEF IInv
    <3> QED BY <2>1, <3>1, <3>3 DEF Waiting
  <2> QED BY <1>5, <2>2, <2>3
<1> QED BY <1>3, <1>6, <1>7 DEF TradedInv

\* A take that lands adds its execution; an order that lands adds none.
LEMMA TakeLanded ==
  ASSUME TakeFacts, TakeInv, NEW got \in 0..Size, SendLands(got)
  PROVE  LET d == IF ex.in.act = "take" THEN Signed(ex.in.side, got) ELSE 0 IN
         /\ \A m : ChainPosition(m)' = ChainPosition(m) + (IF ex.in.m = m THEN d ELSE 0)
         /\ \A a : ChainExposure(a)' = ChainExposure(a) + (IF AssetOf[ex.in.m] = a THEN d ELSE 0)
<1> DEFINE d == IF ex.in.act = "take" THEN Signed(ex.in.side, got) ELSE 0
           x == ExecutionOf(ex.in.m, ex.in.side, got, TRUE)
<1> USE DEF TakeFacts
<1>1. /\ ex.at = "send" /\ ex.in.m \in Market /\ ex.in.side \in Side
      /\ ex.in.act \in {"make", "take"} /\ got \in Int
  BY EngineAssumption
  DEF SendLands, IInv, ControlTypeOK, Intent, QuietInv, EngineAssumption
<1>2. CASE fills' = fills /\ d = 0
  <2>1. /\ \A m : ChainPosition(m)' = ChainPosition(m) /\ ChainPosition(m) \in Int
        /\ \A a : ChainExposure(a)' = ChainExposure(a) /\ ChainExposure(a) \in Int
    BY <1>2, ChainIsInt DEF ChainPosition, ChainExposure
  <2> HIDE DEF d
  <2> QED BY <1>2, <2>1 DEF d
<1>3. CASE fills' = fills \cup {x} /\ ex.in.act = "take"
  <2>1. x \notin fills
    <3>1. x.id = Cardinality(fills) + 1 /\ Cardinality(fills) \in Nat
      BY FS_CardinalityType DEF ExecutionOf, TruthInv, FillsNumbered
    <3> HIDE DEF x
    <3> QED BY <3>1 DEF TruthInv, FillsNumbered
  <2>2. /\ x.m = ex.in.m /\ Signed(x.side, x.qty) = d
        /\ Signed(ex.in.side, got) \in Int
    BY <1>1, <1>3, SignedIsInt DEF ExecutionOf
  <2>3. \E y : y = x
    OBVIOUS
  <2> HIDE DEF x, d
  <2>4. PICK y : y = x
    BY <2>3
  <2>5. /\ y \notin fills /\ y.m \in Market /\ y.m = ex.in.m /\ Signed(y.side, y.qty) = d
        /\ Signed(y.side, y.qty) \in Int /\ fills' = fills \cup {y}
    BY <1>1, <1>3, <2>1, <2>2, <2>4 DEF d
  <2> QED BY <2>5, HeldAfterExecution DEF d
<1>4. \/ fills' = fills /\ d = 0
      \/ fills' = fills \cup {x} /\ ex.in.act = "take"
  BY <1>1, SignedNothing DEF SendLands, PlacementMined
<1> QED BY <1>2, <1>3, <1>4

LEMMA PositionsInductive ==
  ASSUME TakeAssumption
  PROVE  TakeFacts /\ TakeInv /\ [Next]_vars => PositionsInv'
<1> SUFFICES ASSUME TakeFacts, TakeInv, [Next]_vars, NEW m \in Market
             PROVE  inv'[m] + Coming(m)' = ChainPosition(m)'
  BY DEF PositionsInv
<1> USE DEF TakeFacts
<1>t. /\ ~CrashRestart /\ rc.at = "idle" /\ mempool = <<>> /\ ex.at # "row"
      /\ inv \in [Market -> Int] /\ ChainPosition(m) \in Int
      /\ \A n \in Market : phase[n] = "trading"
      /\ inv[m] + Coming(m) = ChainPosition(m)
      /\ ex.at # "idle" => Signed(ex.in.side, ex.got) \in Int
                           /\ ex.in.m \in Market /\ ex.in \in Intent
  BY NeverCrashes, ChainIsInt, InHandAreNumbers
  DEF TakeAssumption, QuietInv, TradedInv, NumbersInv, TakeInv, PositionsInv, IInv, ControlTypeOK
<1>q. ASSUME fills' = fills, inv'[m] = inv[m], Coming(m)' = Coming(m)
      PROVE  inv'[m] + Coming(m)' = ChainPosition(m)'
  BY <1>t, <1>q DEF ChainPosition
<1>r. ASSUME UNCHANGED <<fills, inv>>, ex.at # "receipt" \/ ex.in.act # "take", ex'.at # "receipt"
      PROVE  inv'[m] + Coming(m)' = ChainPosition(m)'
  BY <1>q, <1>r DEF Coming
<1>s. ASSUME UNCHANGED <<fills, inv, ex>>
      PROVE  inv'[m] + Coming(m)' = ChainPosition(m)'
  BY <1>q, <1>s DEF Coming
<1>1. \A n \in Market : ~Exit(n) /\ ~ContextDone(n) /\ ~WindowExpires(n)
  BY <1>t DEF Exit, ContextDone, WindowExpires, TakeAssumption
<1>2. /\ ~LateMined /\ ~IngestTrack /\ ~IngestInventory /\ ~ReceiptTimesOut /\ ~RecordFill
      /\ \A o, q : ~CounterpartyFills(o, q)
      /\ \A f \in Unseen : ~IngestRow(f)
  BY <1>t
  DEF LateMined, IngestTrack, IngestInventory, ReceiptTimesOut, RecordFill, CounterpartyFills, IngestRow,
      TakeAssumption
<1>3. ASSUME NEW got \in 0..Size, SendLands(got)
      PROVE  inv'[m] + Coming(m)' = ChainPosition(m)'
  <2> DEFINE d == IF ex.in.act = "take" THEN Signed(ex.in.side, got) ELSE 0
  <2>1. /\ ex.at = "send" /\ ex'.at = "receipt" /\ ex'.in = ex.in /\ ex'.got = got /\ inv' = inv
    BY <1>3, Landed DEF IInv, SendLands, maps
  <2>2. Coming(m) = 0 /\ Coming(m)' = (IF ex.in.m = m THEN d ELSE 0)
    BY <2>1 DEF Coming
  <2>3. ChainPosition(m)' = ChainPosition(m) + (IF ex.in.m = m THEN d ELSE 0)
    BY <1>3, TakeLanded
  <2>4. d \in Int
    BY <1>t, <2>1, SignedIsInt, EngineAssumption DEF Intent, EngineAssumption
  <2> HIDE DEF d
  <2> QED BY <1>t, <2>1, <2>2, <2>3, <2>4
<1>4. CASE TakeReceipt
  <2> DEFINE d == Signed(ex.in.side, ex.got)
  <2>1. /\ ex.at = "receipt" /\ ex.in.act = "take" /\ fills' = fills /\ ex'.at = "idle"
        /\ inv' = [inv EXCEPT ![ex.in.m] = @ + d]
    BY <1>4 DEF TakeReceipt, TakeAssumption, Reply, IdleEx, venue
  <2>2. d \in Int /\ ex.in.m \in Market
    BY <1>t, <2>1
  <2> HIDE DEF d
  <2>3. /\ inv'[m] = inv[m] + (IF ex.in.m = m THEN d ELSE 0)
        /\ Coming(m) = (IF ex.in.m = m THEN d ELSE 0) /\ Coming(m)' = 0
        /\ ChainPosition(m)' = ChainPosition(m)
    BY <1>t, <2>1, <2>2 DEF Coming, ChainPosition, d
  <2> QED BY <1>t, <2>2, <2>3
<1>5. CASE Dequeue \/ GuardExposure \/ SendFails \/ SendAbandoned \/ ReserveResting
  <2>1. UNCHANGED <<fills, inv>> /\ (ex.at # "receipt" \/ ex.in.act # "take")
    BY <1>5 DEF Dequeue, GuardExposure, SendFails, SendAbandoned, ReserveResting, maps, venue
  <2>2. Dequeue => ex'.at = "check"
    BY DEF Dequeue, IdleEx
  <2>3. Reply => ex'.at = "idle"
    BY DEF Reply, IdleEx
  <2>4. GuardExposure => ex'.at # "receipt"
    BY <2>3, Advanced DEF GuardExposure, IInv
  <2>5. ex'.at # "receipt"
    BY <1>5, <2>2, <2>3, <2>4 DEF SendFails, SendAbandoned, ReserveResting
  <2> QED BY <1>r, <2>1, <2>5
<1>6. CASE Cancel
  BY <1>s, <1>6 DEF Cancel, CancelMined, maps
<1>7. ASSUME NEW n \in Market, SetupFails(n)
      PROVE  inv'[m] + Coming(m)' = ChainPosition(m)'
  <2>1. pc[n] = "setup" /\ UNCHANGED <<fills, ex>> /\ inv' = [inv EXCEPT ![n] = 0]
    BY <1>7 DEF SetupFails, Reap, venue
  <2>2. CASE n = m
    <3>1. ChainPosition(m) = 0
      BY <2>1, <2>2, PositionOfNone DEF ChainPosition, TakeInv, TradedInv
    <3>2. ex.at # "idle" => ex.in.m # m
      BY <1>t, <2>1, <2>2, Silent DEF Waiting
    <3>3. Coming(m) = 0
      BY <3>2 DEF Coming
    <3> QED BY <1>q, <1>t, <2>1, <2>2, <3>1, <3>3 DEF Coming
  <2>3. CASE n # m
    BY <1>q, <1>t, <2>1, <2>3 DEF Coming
  <2> QED BY <2>2, <2>3
<1>8. CASE Executor
  BY <1>2, <1>3, <1>4, <1>5, <1>6, <1>8 DEF Executor
<1>9. ASSUME NEW n \in Market, Spawn(n) \/ Loop(n) \/ Settle(n), ~SetupFails(n)
      PROVE  inv'[m] + Coming(m)' = ChainPosition(m)'
  BY <1>s, <1>1, <1>9
  DEF Loop, Spawn, SetupDone, Settle, Tick, TickEnds, DecideTake, DecideQuote, PullOne,
      PullDone, QuoteSide, maps, venue
<1>10. CASE IngestRelease \/ Venue \/ UNCHANGED vars
  BY <1>s, <1>1, <1>2, <1>10 DEF IngestRelease, Venue, OrderAges, vars, maps, venue
<1> QED BY <1>t, <1>2, <1>7, <1>8, <1>9, <1>10 DEF Next, Reconcile

LEMMA CheckedInductive ==
  ASSUME TakeAssumption
  PROVE  TakeFacts /\ TakeInv /\ [Next]_vars => CheckedInv' /\ ExposureWithinCap'
<1> SUFFICES ASSUME TakeFacts, TakeInv, [Next]_vars
             PROVE  CheckedInv' /\ ExposureWithinCap'
  OBVIOUS
<1> USE DEF TakeFacts
<1>t. /\ ~CrashRestart /\ mempool = <<>>
      /\ \A n \in Market : phase[n] = "trading"
      /\ \A a : ChainExposure(a) \in Int
      /\ ex.base \in Int /\ Size \in Nat /\ Cap \in Nat
      /\ ex.at # "idle" => ex.in \in Intent
  BY NeverCrashes, ChainIsInt, EngineAssumption
  DEF TakeAssumption, QuietInv, TradedInv, NumbersInv, TakeInv, IInv, ControlTypeOK,
      EngineAssumption
\* Nothing is executed.
<1>q. ASSUME fills' = fills, CheckedInv'
      PROVE  CheckedInv' /\ ExposureWithinCap'
  BY <1>q DEF TakeInv, ExposureWithinCap, ChainExposure, ChainPosition
<1>r. ASSUME fills' = fills, ex' = ex \/ ex'.at \notin {"check", "send"}
      PROVE  CheckedInv' /\ ExposureWithinCap'
  BY <1>q, <1>r DEF CheckedInv, TakeInv, ChainExposure, ChainPosition
<1>1. CASE Dequeue
  <2> DEFINE in == Head(queue)
  <2>1. /\ fills' = fills /\ ex.at = "idle" /\ ex'.at = "check" /\ ex'.in = in
        /\ ex'.base = AssetExposure(AssetOf[in.m])
    BY <1>1 DEF Dequeue, IdleEx, venue
  <2>2. ex'.base = ChainExposure(AssetOf[in.m])
    BY <2>1, MeasuredIsHeld
  <2>3. (ex.base = ChainExposure(AssetOf[ex.in.m]))'
    BY <2>1, <2>2 DEF ChainExposure, ChainPosition
  <2> QED BY <1>q, <2>1, <2>3 DEF CheckedInv
<1>2. CASE GuardExposure
  <2>1. CASE Reply
    BY <1>r, <1>2, <2>1 DEF GuardExposure, Reply, IdleEx, venue
  <2>2. CASE ex' = [ex EXCEPT !.at = "send"] /\ ExposureAllows(Baseline, Signed(ex.in.side, Size))
    <3>1. /\ ex.at = "check" /\ ex'.at = "send" /\ ex'.in = ex.in /\ ex'.base = ex.base
          /\ fills' = fills
      BY <1>2, <2>2, Advanced DEF IInv, GuardExposure, venue
    <3>2. ex.in.act = "take" => Baseline = ex.base
      BY <1>t DEF Baseline
    <3>3. (ex.base = ChainExposure(AssetOf[ex.in.m]))'
      BY <3>1 DEF ChainExposure, ChainPosition, TakeInv, CheckedInv
    <3> QED BY <1>q, <2>2, <3>1, <3>2, <3>3 DEF CheckedInv
  <2> QED BY <1>2, <2>1, <2>2 DEF GuardExposure
<1>3. ASSUME NEW got \in 0..Size, SendLands(got)
      PROVE  CheckedInv' /\ ExposureWithinCap'
  <2> DEFINE d == IF ex.in.act = "take" THEN Signed(ex.in.side, got) ELSE 0
             b == AssetOf[ex.in.m]
  <2>1. /\ ex.at = "send" /\ ex'.at = "receipt" /\ ex.in \in Intent
    BY <1>3, <1>t, Landed DEF IInv, SendLands
  <2>2. CheckedInv'
    BY <2>1 DEF CheckedInv
  <2>3. \A a : ChainExposure(a)' = ChainExposure(a) + (IF b = a THEN d ELSE 0)
    BY <1>3, TakeLanded
  <2>4. b \in Asset /\ ex.base = ChainExposure(b)
    BY <2>1, EngineAssumption DEF TakeInv, CheckedInv, Intent, EngineAssumption
  <2>5. Cap > 0 => ChainExposure(b) + d \in -Cap..Cap
    <3>1. CASE ex.in.act # "take"
      <4>1. Cap > 0 => ChainExposure(b) \in -Cap..Cap
        BY <2>4 DEF TakeInv, ExposureWithinCap
      <4> QED BY <1>t, <3>1, <4>1
    <3>2. CASE ex.in.act = "take"
      <4> DEFINE e == ChainExposure(b)
      <4>1. /\ e \in Int /\ got \in 0..Size /\ ex.in.side \in Side
            /\ Cap > 0 => e \in -Cap..Cap /\ e + Signed(ex.in.side, Size) \in -Cap..Cap
        BY <1>t, <2>1, <2>4, <3>2
        DEF TakeInv, ExposureWithinCap, CheckedInv, ExposureAllows, Intent
      <4> HIDE DEF e
      <4>2. CASE ex.in.side = "Up"
        <5>1. Cap > 0 => e + got \in -Cap..Cap
          BY <1>t, <4>1, <4>2 DEF Signed
        <5> QED BY <3>2, <4>2, <5>1 DEF Signed, e
      <4>3. CASE ex.in.side # "Up"
        <5>1. Cap > 0 => e + (-got) \in -Cap..Cap
          BY <1>t, <4>1, <4>3 DEF Signed
        <5> QED BY <3>2, <4>3, <5>1 DEF Signed, e
      <4> QED BY <4>2, <4>3
    <3> QED BY <3>1, <3>2
  <2>6. d \in Int
    BY <1>t, <2>1, SignedIsInt DEF Intent
  <2> HIDE DEF d, b
  <2>7. ASSUME NEW a \in Asset, Cap > 0
        PROVE  ChainExposure(a)' \in -Cap..Cap
    <3>1. ChainExposure(a) \in -Cap..Cap /\ ChainExposure(a) \in Int
      BY <1>t, <2>7 DEF TakeInv, ExposureWithinCap
    <3>2. CASE b = a
      BY <2>3, <2>5, <2>7, <3>2
    <3>3. CASE b # a
      BY <2>3, <3>1, <3>3
    <3> QED BY <3>2, <3>3
  <2> QED BY <2>2, <2>7 DEF ExposureWithinCap
<1>4. CASE SendFails \/ SendAbandoned \/ ReceiptTimesOut \/ ReserveResting \/ RecordFill
  <2>1. Reply => ex'.at = "idle"
    BY DEF Reply, IdleEx
  <2> QED
    BY <1>r, <1>4, <2>1
    DEF SendFails, SendAbandoned, ReceiptTimesOut, ReserveResting, RecordFill, venue
<1>5. CASE TakeReceipt
  BY <1>r, <1>5 DEF TakeReceipt, TakeAssumption, Reply, IdleEx, venue
<1>6. CASE Cancel
  BY <1>r, <1>6 DEF Cancel, CancelMined
<1>7. CASE Executor
  BY <1>1, <1>2, <1>3, <1>4, <1>5, <1>6, <1>7 DEF Executor
<1>8. \A n \in Market : ~Exit(n) /\ ~ContextDone(n)
  BY <1>t DEF Exit, ContextDone
<1>9. ASSUME NEW n \in Market, Spawn(n) \/ Loop(n) \/ Settle(n)
      PROVE  CheckedInv' /\ ExposureWithinCap'
  BY <1>r, <1>8, <1>9
  DEF Loop, Spawn, SetupDone, SetupFails, Reap, Settle, Tick, TickEnds, DecideTake,
      DecideQuote, PullOne, PullDone, QuoteSide, venue
<1>10. CASE Reconcile \/ Venue \/ UNCHANGED vars
  <2>1. ~LateMined /\ \A o, q : ~CounterpartyFills(o, q)
    BY <1>t DEF LateMined, CounterpartyFills, TakeAssumption
  <2> QED
    BY <1>r, <1>10, <2>1
    DEF Reconcile, IngestRow, IngestTrack, IngestInventory, IngestRelease, Venue, OrderAges, WindowExpires,
        vars, venue
<1> QED BY <1>t, <1>7, <1>9, <1>10 DEF Next

\* With receipts as the only bookings and no position reaped or missed, what we really
\* hold on an asset never passes its cap, whatever number of windows decide at once and
\* whatever part of a take fills: the executor measures, checks and sends in one turn
\* (quote.go:49-56, engine.go:705-721).
THEOREM TakesStayWithinCap ==
  ASSUME TakeAssumption
  PROVE  Spec => []ExposureWithinCap
<1>1. QuietAssumption
  BY DEF TakeAssumption, QuietAssumption
<1>2. Spec => []SettledInv
  BY MemoryFactsHold, PTL DEF MemoryFacts
<1>3. Spec => []TakeFacts
  BY <1>1, <1>2, IInvHolds, LiveHolds, TruthHolds, RecordsTyped, NumbersHold, QuietHolds, PTL
  DEF TakeFacts
<1>4. Init => TakeInv
  <2> SUFFICES ASSUME Init PROVE TakeInv
    OBVIOUS
  <2>1. \A m : ChainPosition(m) = 0
    BY PositionOfNone DEF Init, ChainPosition
  <2>2. PositionsInv /\ TradedInv /\ CheckedInv
    BY <2>1 DEF Init, PositionsInv, Coming, TradedInv, CheckedInv, IdleEx
  <2>3. ASSUME NEW a \in Asset
        PROVE  ChainExposure(a) = 0
    <3> DEFINE f == [m \in Market |-> ChainPosition(m)]
    <3>1. \A m \in OfAsset(a) : f[m] = 0
      BY <2>1 DEF OfAsset
    <3>2. /\ ChainExposure(a) = SumFunctionOnSet(f, OfAsset(a)) /\ IsFiniteSet(OfAsset(a))
          /\ {} \subseteq OfAsset(a)
      BY EngineAssumption, FS_Subset DEF ChainExposure, OfAsset, EngineAssumption
    <3> HIDE DEF f
    <3>3. SumFunctionOnSet(f, OfAsset(a)) = SumFunctionOnSet(f, {})
      BY <3>1, <3>2, SumOfPart
    <3> QED BY <3>2, <3>3, SumOfNone
  <2>4. ExposureWithinCap
    BY <2>3, EngineAssumption DEF ExposureWithinCap, EngineAssumption
  <2> QED BY <2>2, <2>4 DEF TakeInv
<1>5. TakeFacts /\ TakeInv /\ [Next]_vars => TakeInv'
  BY TradedInductive, PositionsInductive, CheckedInductive DEF TakeInv
<1>6. TakeInv => ExposureWithinCap
  BY DEF TakeInv
<1> QED BY <1>3, <1>4, <1>5, <1>6, PTL DEF Spec
-----------------------------------------------------------------------------
(***************************************************************************)
(* Quotes.  The guard reads reservations, not the pool: what rests is at   *)
(* most what is reserved, order by order, because a window has one order   *)
(* on a side; and what is reserved, with the order under way, is within    *)
(* the cap.                                                                *)
(***************************************************************************)
QuoteAssumption ==
  MaxCrashes = 0 /\ Env \cap {"take", "fill", "cancelFail", "timeout", "late"} = {}

\* The order the guard let through, until its reservation is made.
Pending(a, s) ==
  IF ex.at \in {"send", "receipt"} /\ AssetOf[ex.in.m] = a /\ ex.in.side = s THEN Size ELSE 0
RoomInv == \A a \in Asset, s \in Side : Cap > 0 => AssetResting(a, s) + Pending(a, s) <= Cap
FlatInv == (\A m \in Market : inv[m] = 0) /\ ex.base = 0
\* A window that could still be spawned has no reservation nobody counts.
CountedInv ==
  \A m \in Market : phase[m] = "trading" =>
    /\ m \notin tracked => \A s \in Side : resting[m][s] = 0
    /\ pc[m] # "off" => m \in tracked
QuoteInv == IsFiniteSet(book) /\ FlatInv /\ CountedInv /\ RoomInv
QuoteFacts == CoverFacts /\ CoverInv /\ NumbersInv

LEMMA OnAssetFinite ==
  ASSUME RecordTypeOK, NEW a
  PROVE  OnAsset(a) \subseteq Market /\ IsFiniteSet(OnAsset(a))
BY EngineAssumption, FS_Subset DEF OnAsset, RecordTypeOK, EngineAssumption

LEMMA ReservationIsNat ==
  ASSUME RecordTypeOK, NEW m \in Market, NEW s \in Side
  PROVE  resting[m][s] \in Nat /\ 0 <= resting[m][s] /\ resting[m][s] <= Size
BY EngineAssumption DEF RecordTypeOK, EngineAssumption

LEMMA RestingIsNat ==
  ASSUME RecordTypeOK, NEW a, NEW s \in Side
  PROVE  AssetResting(a, s) \in Nat
<1> DEFINE f == [m \in Market |-> resting[m][s]]
<1>1. \A m \in Market : resting[m][s] \in Nat
  BY ReservationIsNat
<1>2. IsFiniteSet(OnAsset(a)) /\ \A m \in OnAsset(a) : f[m] \in Nat
  BY <1>1, OnAssetFinite
<1> HIDE DEF f
<1>3. SumFunctionOnSet(f, OnAsset(a)) \in Nat
  BY <1>2, SumNotNegative
<1> QED BY <1>3 DEF AssetResting, f

\* No reservation is made, and no window with one is counted anew.
LEMMA RestingShrinks ==
  ASSUME RecordTypeOK, RecordTypeOK', NEW a, NEW s \in Side,
         \A m \in Market : resting'[m][s] <= resting[m][s],
         \A m \in tracked' : m \in tracked \/ resting'[m][s] = 0
  PROVE  AssetResting(a, s)' \in Int /\ AssetResting(a, s)' <= AssetResting(a, s)
<1> DEFINE f == [m \in Market |-> resting[m][s]]
           g == [m \in Market |-> resting'[m][s]]
           T == {m \in tracked' : AssetOf[m] = a}
           S == OnAsset(a) \cap T
           h == [m \in Market |-> m]
<1>1. /\ AssetResting(a, s) = SumFunctionOnSet(f, OnAsset(a))
      /\ AssetResting(a, s)' = SumFunctionOnSet(g, T)
  BY DEF AssetResting, OnAsset
<1>2. /\ OnAsset(a) \subseteq Market /\ IsFiniteSet(OnAsset(a)) /\ tracked' \subseteq Market
      /\ \A m \in Market : f[m] \in Nat /\ g[m] \in Nat /\ g[m] <= f[m] /\ h[m] = m
  BY OnAssetFinite, EngineAssumption DEF RecordTypeOK, EngineAssumption
<1>3. T \subseteq Market /\ IsFiniteSet(T) /\ IsFiniteSet(S) /\ S \subseteq T /\ S \subseteq OnAsset(a)
  BY <1>2, EngineAssumption, FS_Subset DEF EngineAssumption
<1>4. \A m \in T \ S : g[m] = 0
  BY <1>2 DEF OnAsset
<1> HIDE DEF f, g, T, S, h, OnAsset
<1>5. SumFunctionOnSet(g, T) = SumFunctionOnSet(g, S)
  <2>1. \A m \in T : g[m] \in Int
    BY <1>2, <1>3
  <2> QED BY <1>3, <1>4, <2>1, SumOfPart
<1>7. SumFunctionOnSet(g, T) \in Int
  <2>1. \A m \in T : g[m] \in Int
    BY <1>2, <1>3
  <2> QED BY <1>3, <2>1, SumIsInt
<1>6. SumFunctionOnSet(g, S) <= SumFunctionOnSet(f, OnAsset(a))
  <2>1. \A m \in S : g[m] \in Int /\ h[m] \in OnAsset(a) /\ g[m] <= f[h[m]]
    BY <1>2, <1>3
  <2>2. \A m, n \in S : h[m] = h[n] => m = n
    BY <1>2, <1>3
  <2>3. \A m \in OnAsset(a) : f[m] \in Nat
    BY <1>2
  <2> QED BY <1>2, <1>3, <2>1, <2>2, <2>3, SumIsCovered
<1> QED BY <1>1, <1>5, <1>6, <1>7

\* One reservation is made.
LEMMA RestingGrows ==
  ASSUME RecordTypeOK, NEW a, NEW s \in Side, NEW m \in Market, NEW side \in Side,
         tracked' = tracked, resting' = [resting EXCEPT ![m][side] = Size]
  PROVE  /\ AssetResting(a, s)' \in Int
         /\ AssetResting(a, s)' <=
              AssetResting(a, s) + (IF AssetOf[m] = a /\ side = s THEN Size ELSE 0)
<1> DEFINE f == [n \in Market |-> resting[n][s]]
           g == [n \in Market |-> resting'[n][s]]
           S == OnAsset(a)
<1>1. /\ AssetResting(a, s) = SumFunctionOnSet(f, S)
      /\ AssetResting(a, s)' = SumFunctionOnSet(g, S)
      /\ AssetResting(a, s) \in Nat
  BY RestingIsNat DEF AssetResting, OnAsset
<1>2. /\ S \subseteq Market /\ IsFiniteSet(S)
      /\ \A n \in Market : f[n] \in 0..Size /\ (n # m \/ s # side => g[n] = f[n])
      /\ s = side => g[m] = Size
      /\ Size \in Nat
  <2>1. \A n \in Market : resting[n][s] \in 0..Size
    BY EngineAssumption DEF RecordTypeOK, EngineAssumption
  <2> QED BY <2>1, OnAssetFinite, EngineAssumption DEF RecordTypeOK, EngineAssumption
<1>3. m \in S => AssetOf[m] = a
  BY DEF OnAsset
<1> HIDE DEF f, g, S
<1>4. CASE m \in S /\ s = side
  <2>1. SumFunctionOnSet(g, S) = SumFunctionOnSet(f, S) + (g[m] - f[m])
    <3>1. /\ \A n \in S : f[n] \in Int
          /\ \A n \in S : n # m => g[n] = f[n]
          /\ g[m] \in Int
      BY <1>2, <1>4
    <3> QED BY <1>2, <1>4, <3>1, SumAfterUpdate
  <2>2. f[m] \in 0..Size /\ g[m] = Size
    BY <1>2, <1>4
  <2> QED BY <1>1, <1>2, <1>3, <1>4, <2>1, <2>2
<1>5. CASE m \notin S \/ s # side
  <2>1. \A n \in S : g[n] = f[n]
    BY <1>2, <1>5
  <2>2. SumFunctionOnSet(g, S) = SumFunctionOnSet(f, S)
    BY <1>2, <2>1, SumOfEquals
  <2> QED BY <1>1, <1>2, <2>2
<1> QED BY <1>4, <1>5

LEMMA FlatInductive ==
  ASSUME QuoteAssumption
  PROVE  QuoteFacts /\ FlatInv /\ [Next]_vars => FlatInv'
<1> SUFFICES ASSUME QuoteFacts, FlatInv, [Next]_vars
             PROVE  FlatInv'
  OBVIOUS
<1> USE DEF QuoteFacts, CoverFacts
<1>t. /\ ~CrashRestart /\ rc.at = "idle" /\ inv \in [Market -> Int]
      /\ ex.at # "idle" => ex.in.act # "take"
  BY NeverCrashes DEF QuoteAssumption, QuietInv, Untraded, NumbersInv
<1>1. ~TakeReceipt /\ ~IngestTrack /\ ~IngestInventory
  BY <1>t DEF TakeReceipt, IngestTrack, IngestInventory
<1>2. \/ inv' = inv
      \/ \E m \in Market : inv' = [inv EXCEPT ![m] = 0]
  BY <1>t, <1>1
  DEF Next, Executor, Dequeue, Cancel, GuardExposure, SendFails, SendLands, SendAbandoned,
      ReceiptTimesOut, ReserveResting, RecordFill, Reconcile, IngestRow, IngestTrack, IngestRelease, Loop,
      Spawn, SetupDone, SetupFails, Reap, Exit, Settle, Tick, TickEnds, DecideTake, DecideQuote,
      PullOne, PullDone, QuoteSide, ContextDone, Venue, OrderAges, CounterpartyFills,
      WindowExpires, LateMined, vars, maps
<1>3. \A m \in Market : inv'[m] = 0
  BY <1>t, <1>2 DEF FlatInv
<1>4. \A a : AssetExposure(a) = 0
  <2> SUFFICES ASSUME NEW a PROVE AssetExposure(a) = 0
    OBVIOUS
  <2>1. /\ OnAsset(a) \subseteq Market /\ IsFiniteSet(OnAsset(a)) /\ {} \subseteq OnAsset(a)
        /\ \A m \in OnAsset(a) : inv[m] = 0 /\ inv[m] \in Int
    BY <1>t, OnAssetFinite DEF FlatInv
  <2>2. SumFunctionOnSet(inv, OnAsset(a)) = SumFunctionOnSet(inv, {})
    BY <2>1, SumOfPart
  <2> QED BY <2>2, SumOfNone DEF AssetExposure
<1>5. ex'.base = 0
  <2>1. CASE Dequeue
    <3>1. ex'.base = AssetExposure(AssetOf[Head(queue).m])
      BY <2>1 DEF Dequeue, IdleEx
    <3> QED BY <1>4, <3>1
  <2>2. CASE Reply
    BY <2>2 DEF Reply, IdleEx
  <2>3. CASE ex'.base = ex.base
    BY <2>3 DEF FlatInv
  <2>4. CASE Executor
    <3>1. \A got \in 0..Size : SendLands(got) => ex'.base = ex.base
      BY Landed DEF IInv
    <3>2. \A at : ex' = [ex EXCEPT !.at = at] => ex'.base = ex.base
      BY Advanced DEF IInv
    <3> QED
      BY <1>1, <2>1, <2>2, <2>3, <2>4, <3>1, <3>2
      DEF Executor, Cancel, GuardExposure, SendFails, SendAbandoned, ReceiptTimesOut,
          ReserveResting, RecordFill
  <2>5. ASSUME NEW m \in Market, ContextDone(m)
        PROVE  ex'.base = ex.base
    BY <2>5, Orphaned DEF IInv
  <2> QED
    BY <1>t, <2>3, <2>4, <2>5
    DEF Next, Reconcile, IngestRow, IngestTrack, IngestInventory, IngestRelease, Loop, Spawn, SetupDone,
        SetupFails, Reap, Exit, Settle, Tick, TickEnds, DecideTake, DecideQuote, PullOne,
        PullDone, QuoteSide, Venue, OrderAges, CounterpartyFills, WindowExpires, LateMined, vars
<1> QED BY <1>3, <1>5 DEF FlatInv

\* What may become of the reservations and of the windows they are counted for.
LEMMA ReservationMoves ==
  ASSUME QuoteAssumption, QuoteFacts, [Next]_vars
  PROVE  \/ UNCHANGED <<tracked, resting>>
         \/ ReserveResting
         \/ \E m \in Market : PullDone(m)
         \/ \E m \in Market : Spawn(m)
         \/ \E m \in Market : Reap(m) /\ (SetupFails(m) \/ Exit(m))
<1>1. ~CrashRestart /\ rc.at = "idle"
  BY NeverCrashes DEF QuoteAssumption, QuoteFacts, CoverFacts, QuietInv
<1> QED
  BY <1>1
  DEF Next, Executor, Dequeue, Cancel, GuardExposure, SendFails, SendLands, SendAbandoned,
      ReceiptTimesOut, TakeReceipt, RecordFill, Reconcile, IngestRow, IngestTrack, IngestInventory,
      IngestRelease, Loop, SetupDone, SetupFails, Exit, Settle, Tick, TickEnds, DecideTake,
      DecideQuote, PullOne, QuoteSide, ContextDone, Venue, OrderAges, CounterpartyFills,
      WindowExpires, LateMined, vars, maps

LEMMA CountedInductive ==
  ASSUME QuoteAssumption
  PROVE  QuoteFacts /\ CountedInv /\ [Next]_vars => CountedInv'
<1> SUFFICES ASSUME QuoteFacts, CountedInv, [Next]_vars,
                    NEW m \in Market, phase'[m] = "trading"
             PROVE  /\ m \notin tracked' => \A s \in Side : resting'[m][s] = 0
                    /\ pc'[m] # "off" => m \in tracked'
  BY DEF CountedInv
<1> USE DEF QuoteFacts, CoverFacts
<1>t. /\ ~CrashRestart /\ phase[m] = "trading" /\ pc \in [Market -> LoopStates]
      /\ resting \in [Market -> [Side -> {0, Size}]]
      /\ m \notin tracked => \A s \in Side : resting[m][s] = 0
      /\ pc[m] # "off" => m \in tracked
  BY NeverCrashes, PhaseOnlyEnds
  DEF QuoteAssumption, RecordTypeOK, IInv, VenueTypeOK, ControlTypeOK, CountedInv
<1>1. ~Exit(m) /\ ~Settle(m)
  BY <1>t DEF Exit, Settle, SettledInv
<1>2. pc'[m] # "off" => pc[m] # "off" \/ Spawn(m)
  BY <1>t, <1>1, LoopMoves DEF SetupDone, SetupFails, Resting
<1>3. CASE UNCHANGED <<tracked, resting>>
  BY <1>t, <1>2, <1>3 DEF Spawn
<1>4. CASE ReserveResting
  <2>1. /\ ex.at = "receipt" /\ ex.in \in Intent /\ tracked' = tracked
        /\ resting' = [resting EXCEPT ![ex.in.m][ex.in.side] = Size]
    BY <1>4 DEF ReserveResting, IInv, ControlTypeOK
  <2>2. CASE ex.in.m = m
    <3>1. ex.in.live
      BY <1>t, <2>1, <2>2 DEF LiveInv
    <3>2. pc[m] \in Waiting
      BY <2>1, <2>2, <3>1, LiveIsAwaited DEF IInv
    <3> QED BY <1>t, <2>1, <3>2 DEF Waiting
  <2>3. CASE ex.in.m # m
    <3>1. resting'[m] = resting[m]
      BY <1>t, <2>1, <2>3
    <3>2. ~Spawn(m)
      BY <2>1, <3>1, <1>4 DEF Spawn, ReserveResting
    <3> QED BY <1>t, <1>2, <2>1, <3>1, <3>2
  <2> QED BY <2>2, <2>3
<1>5. ASSUME NEW n \in Market, PullDone(n)
      PROVE  /\ m \notin tracked' => \A s \in Side : resting'[m][s] = 0
             /\ pc'[m] # "off" => m \in tracked'
  BY <1>t, <1>2, <1>5 DEF PullDone, NoResting, Spawn
<1>6. ASSUME NEW n \in Market, Spawn(n)
      PROVE  /\ m \notin tracked' => \A s \in Side : resting'[m][s] = 0
             /\ pc'[m] # "off" => m \in tracked'
  BY <1>t, <1>6 DEF Spawn
<1>7. ASSUME NEW n \in Market, Reap(n), SetupFails(n) \/ Exit(n)
      PROVE  /\ m \notin tracked' => \A s \in Side : resting'[m][s] = 0
             /\ pc'[m] # "off" => m \in tracked'
  <2>1. CASE n = m
    BY <1>t, <1>1, <1>7, <2>1 DEF Reap, SetupFails, NoResting
  <2>2. CASE n # m
    BY <1>t, <1>7, <2>2 DEF Reap, SetupFails, Exit
  <2> QED BY <2>1, <2>2
<1> QED BY <1>3, <1>4, <1>5, <1>6, <1>7, ReservationMoves

LEMMA RoomInductive ==
  ASSUME QuoteAssumption
  PROVE  QuoteFacts /\ QuoteFacts' /\ QuoteInv /\ [Next]_vars => RoomInv'
<1> SUFFICES ASSUME QuoteFacts, QuoteFacts', QuoteInv, [Next]_vars,
                    NEW a \in Asset, NEW s \in Side, Cap > 0
             PROVE  AssetResting(a, s)' + Pending(a, s)' <= Cap
  BY DEF RoomInv
<1> USE DEF QuoteFacts, CoverFacts
<1>t. /\ ~CrashRestart /\ RecordTypeOK /\ RecordTypeOK'
      /\ Size \in Nat /\ Cap \in Nat
      /\ AssetResting(a, s) \in Nat
      /\ AssetResting(a, s) + Pending(a, s) <= Cap
      /\ resting \in [Market -> [Side -> {0, Size}]]
  BY NeverCrashes, RestingIsNat, EngineAssumption
  DEF QuoteAssumption, QuoteInv, RoomInv, EngineAssumption, RecordTypeOK
<1>p. Pending(a, s) \in {0, Size} /\ Pending(a, s)' \in {0, Size}
  BY DEF Pending
<1>q. ASSUME ~ReserveResting
      PROVE  AssetResting(a, s)' \in Int /\ AssetResting(a, s)' <= AssetResting(a, s)
  <2>1. \A m \in Market : resting[m][s] \in Nat /\ 0 <= resting[m][s]
    BY ReservationIsNat
  <2>2. CASE UNCHANGED <<tracked, resting>>
    BY <1>t, <2>2 DEF AssetResting, OnAsset
  <2>3. ASSUME NEW m \in Market, PullDone(m)
        PROVE  AssetResting(a, s)' \in Int /\ AssetResting(a, s)' <= AssetResting(a, s)
    BY <1>t, <2>1, <2>3, RestingShrinks DEF PullDone, NoResting
  <2>4. ASSUME NEW m \in Market, Spawn(m)
        PROVE  AssetResting(a, s)' \in Int /\ AssetResting(a, s)' <= AssetResting(a, s)
    <3>1. /\ resting' = resting /\ tracked' = tracked \cup {m}
          /\ m \in tracked \/ resting[m][s] = 0
      BY <2>4 DEF Spawn, QuoteInv, CountedInv
    <3> QED BY <1>t, <2>1, <3>1, RestingShrinks
  <2>5. ASSUME NEW m \in Market, Reap(m)
        PROVE  AssetResting(a, s)' \in Int /\ AssetResting(a, s)' <= AssetResting(a, s)
    BY <1>t, <2>1, <2>5, RestingShrinks DEF Reap, NoResting
  <2> QED BY <1>q, <2>2, <2>3, <2>4, <2>5, ReservationMoves
<1>1. ASSUME AssetResting(a, s)' \in Int, AssetResting(a, s)' <= AssetResting(a, s),
             Pending(a, s)' = Pending(a, s) \/ Pending(a, s)' = 0
      PROVE  AssetResting(a, s)' + Pending(a, s)' <= Cap
  BY <1>t, <1>p, <1>1
<1>2. ASSUME ~GuardExposure, ~ReserveResting
      PROVE  Pending(a, s)' = Pending(a, s) \/ Pending(a, s)' = 0
  <2>1. CASE ex'.at \notin {"send", "receipt"}
    BY <2>1 DEF Pending
  <2>2. CASE ex' = ex
    BY <2>2 DEF Pending
  <2>3. ASSUME NEW got \in 0..Size, SendLands(got)
        PROVE  Pending(a, s)' = Pending(a, s)
    <3>1. ex.at = "send" /\ ex'.at = "receipt" /\ ex'.in = ex.in
      BY <2>3, Landed DEF IInv, SendLands
    <3> QED BY <3>1 DEF Pending
  <2>4. ASSUME NEW m \in Market, ContextDone(m)
        PROVE  Pending(a, s)' = Pending(a, s)
    <3>1. ex'.at = ex.at /\ (ex.at # "idle" => SameBut(ex'.in, ex.in, m))
      BY <2>4, Orphaned DEF IInv
    <3> QED BY <3>1 DEF Pending, SameBut
  <2>5. (Dequeue => ex'.at = "check") /\ (Reply => ex'.at = "idle")
    <3>1. ASSUME Dequeue PROVE ex'.at = "check"
      BY <3>1 DEF Dequeue, IdleEx
    <3>2. ASSUME Reply PROVE ex'.at = "idle"
      BY <3>2 DEF Reply, IdleEx
    <3> QED BY <3>1, <3>2
  <2>6. TakeReceipt => ex'.at \in {"idle", "row"}
    BY <2>5, Advanced DEF TakeReceipt, IInv
  <2>7. CASE Executor
    BY <1>2, <2>1, <2>2, <2>3, <2>5, <2>6, <2>7
    DEF Executor, Cancel, SendFails, SendAbandoned, ReceiptTimesOut, RecordFill
  <2> QED
    BY <1>t, <2>2, <2>4, <2>7
    DEF Next, Reconcile, IngestRow, IngestTrack, IngestInventory, IngestRelease, Loop, Spawn, SetupDone,
        SetupFails, Reap, Exit, Settle, Tick, TickEnds, DecideTake, DecideQuote, PullOne,
        PullDone, QuoteSide, Venue, OrderAges, CounterpartyFills, WindowExpires, LateMined, vars
<1>3. CASE ReserveResting
  <2>1. /\ ex.at = "receipt" /\ ex.in.m \in Market /\ ex.in.side \in Side
        /\ tracked' = tracked /\ resting' = [resting EXCEPT ![ex.in.m][ex.in.side] = Size]
        /\ ex'.at = "idle"
    BY <1>3 DEF ReserveResting, Reply, IdleEx, IInv, ControlTypeOK, Intent
  <2> DEFINE m == ex.in.m
             side == ex.in.side
  <2>4. /\ m \in Market /\ side \in Side
        /\ tracked' = tracked /\ resting' = [resting EXCEPT ![m][side] = Size]
    BY <2>1
  <2> HIDE DEF m, side
  <2>2. /\ AssetResting(a, s)' \in Int
        /\ AssetResting(a, s)' <=
             AssetResting(a, s) + (IF AssetOf[m] = a /\ side = s THEN Size ELSE 0)
    BY <1>t, <2>4, RestingGrows
  <2>3. /\ Pending(a, s)' = 0
        /\ Pending(a, s) = IF AssetOf[m] = a /\ side = s THEN Size ELSE 0
    BY <2>1 DEF Pending, m, side
  <2> QED BY <1>t, <1>p, <2>2, <2>3
\* The guard: the worst case of this side, with the order it is about to let through.
<1>4. CASE GuardExposure
  <2>1. ex.at = "check" /\ UNCHANGED <<tracked, resting>> /\ ~ReserveResting
    BY <1>4 DEF GuardExposure, ReserveResting, maps
  <2>2. Pending(a, s) = 0 /\ AssetResting(a, s)' = AssetResting(a, s)
    BY <2>1 DEF Pending, AssetResting, OnAsset
  <2>3. CASE Reply
    BY <1>1, <1>q, <2>1, <2>3 DEF Reply, IdleEx, Pending
  <2>4. CASE ex' = [ex EXCEPT !.at = "send"] /\ ExposureAllows(Baseline, Signed(ex.in.side, Size))
    <3>1. ex'.at = "send" /\ ex'.in = ex.in /\ ex.in.act = "make"
      BY <2>1, <2>4, Advanced
      DEF IInv, ControlTypeOK, Intent, QuietInv, Untraded, QuoteAssumption
    <3>2. CASE AssetOf[ex.in.m] = a /\ ex.in.side = s
      <4> DEFINE r == AssetResting(a, s)
      <4>1. 0 + Signed(s, r) + Signed(s, Size) \in -Cap..Cap
        BY <2>4, <3>1, <3>2 DEF ExposureAllows, Baseline, QuoteInv, FlatInv
      <4>2. r \in Nat
        BY <1>t
      <4> HIDE DEF r
      <4>3. r + Size <= Cap
        BY <1>t, <4>1, <4>2 DEF Signed
      <4> QED BY <1>t, <1>p, <2>2, <4>2, <4>3 DEF r
    <3>3. CASE ~(AssetOf[ex.in.m] = a /\ ex.in.side = s)
      <4>1. Pending(a, s)' = 0
        BY <3>1, <3>3 DEF Pending
      <4> QED BY <1>t, <2>2, <4>1
    <3> QED BY <3>2, <3>3
  <2> QED BY <1>4, <2>3, <2>4 DEF GuardExposure
<1> QED BY <1>1, <1>2, <1>3, <1>4, <1>q

LEMMA BookFinite == IsFiniteSet(book) /\ [Next]_vars => IsFiniteSet(book')
<1> SUFFICES ASSUME IsFiniteSet(book), [Next]_vars
             PROVE  IsFiniteSet(book')
  OBVIOUS
<1>1. (\E o : book' \subseteq book \cup {o}) => IsFiniteSet(book')
  BY FS_AddElement, FS_Subset
<1>2. ASSUME NEW in, NEW got, NEW late, PlacementMined(in, got, late)
      PROVE  \E o : book' \subseteq book \cup {o}
  BY <1>2 DEF PlacementMined
<1>3. \E o : book' \subseteq book \cup {o}
  BY <1>2
  DEF Next, Executor, Dequeue, Cancel, CancelMined, GuardExposure, SendFails, SendLands,
      SendAbandoned, ReceiptTimesOut, ReserveResting, TakeReceipt, RecordFill, Reconcile,
      IngestRow, IngestTrack, IngestInventory, IngestRelease, Loop, Spawn, SetupDone, SetupFails, Reap, Exit,
      Settle, Tick, TickEnds, DecideTake, DecideQuote, PullOne, PullDone, QuoteSide,
      ContextDone, Venue, OrderAges, CounterpartyFills, WindowExpires, LateMined, CrashRestart,
      vars, venue
<1> QED BY <1>1, <1>3

\* What rests on one side of an asset is at most what is reserved for it.
LEMMA BookIsReserved ==
  ASSUME QuoteFacts, QuoteInv, NEW a \in Asset, NEW s \in Side
  PROVE  /\ BookSize(a, s) \in Nat
         /\ BookSize(a, s) <= AssetResting(a, s) + Pending(a, s)
<1> DEFINE S == {o \in book : AssetOf[o.m] = a /\ o.side = s}
           T == OnAsset(a)
           f == [o \in book |-> o.rem]
           r == [m \in Market |-> resting[m][s]]
           p == ex.in.m
           covers == ex.at = "receipt" /\ ex.in.side = s
           g == [m \in Market |-> resting[m][s] + (IF covers /\ p = m THEN Size ELSE 0)]
           h == [o \in book |-> o.m]
<1> USE DEF QuoteFacts, CoverFacts
<1>1. /\ IsFiniteSet(S) /\ S \subseteq book
      /\ T \subseteq Market /\ IsFiniteSet(T) /\ Size \in Nat
      /\ \A m \in Market : resting[m][s] \in Nat /\ resting[m][s] \in 0..Size
      /\ BookSize(a, s) = SumFunctionOnSet(f, S)
      /\ AssetResting(a, s) = SumFunctionOnSet(r, T) /\ AssetResting(a, s) \in Nat
  <2>1. \A m \in Market : resting[m][s] \in Nat /\ resting[m][s] \in 0..Size
    BY EngineAssumption DEF RecordTypeOK, EngineAssumption
  <2>2. AssetResting(a, s) \in Nat
    BY RestingIsNat
  <2> QED
    BY <2>1, <2>2, OnAssetFinite, FS_Subset, EngineAssumption
    DEF BookSize, AssetResting, QuoteInv, EngineAssumption
<1>2. ASSUME NEW o \in S
      PROVE  f[o] \in Nat /\ h[o] \in T /\ f[o] <= g[h[o]]
  <2>1. o \in Order /\ o.m \in Market /\ o.rem \in 1..Size /\ o.side = s
    BY DEF IInv, VenueTypeOK, Order
  <2>2. phase[o.m] = "trading" /\ pc[o.m] # "off" /\ Reserved(o.m, s)
    BY <2>1 DEF BookInv, OrderInv, CoverInv
  <2>3. o.m \in tracked
    BY <2>1, <2>2 DEF QuoteInv, CountedInv
  <2>4. resting[o.m][s] = Size \/ (covers /\ p = o.m)
    BY <2>2 DEF Reserved
  <2>5. o.rem <= resting[o.m][s] + (IF covers /\ p = o.m THEN Size ELSE 0)
    <3> HIDE DEF covers, p
    <3> QED BY <1>1, <2>1, <2>4
  <2> QED BY <2>1, <2>3, <2>5 DEF OnAsset
<1>3. ASSUME NEW o \in S, NEW q \in S, h[o] = h[q]
      PROVE  o = q
  BY <1>3 DEF BookInv, OneOrderPerSide, CoverInv
<1>4. \A m \in Market : /\ r[m] \in Nat /\ g[m] \in Nat
                        /\ g[m] = r[m] + (IF covers /\ p = m THEN Size ELSE 0)
  BY <1>1
<1>5. Pending(a, s) \in {0, Size} /\ (covers /\ p \in T => Pending(a, s) = Size)
  BY DEF Pending, OnAsset
<1> HIDE DEF S, T, f, g, h, r, p, covers
<1>6. SumFunctionOnSet(f, S) \in Nat /\ SumFunctionOnSet(f, S) <= SumFunctionOnSet(g, T)
  <2>1. \A o \in S : f[o] \in Int /\ h[o] \in T /\ f[o] <= g[h[o]]
    BY <1>2
  <2>2. \A m \in T : g[m] \in Nat
    BY <1>1, <1>4
  <2> QED BY <1>1, <1>2, <1>3, <2>1, <2>2, SumIsCovered, SumNotNegative
<1>7. SumFunctionOnSet(g, T) <= SumFunctionOnSet(r, T) + Pending(a, s)
  <2>1. CASE covers /\ p \in T
    <3>1. /\ \A m \in T : r[m] \in Int
          /\ \A m \in T : m # p => g[m] = r[m]
          /\ g[p] \in Int /\ g[p] = r[p] + Size /\ r[p] \in Int
      BY <1>1, <1>4, <2>1
    <3>2. SumFunctionOnSet(g, T) = SumFunctionOnSet(r, T) + (g[p] - r[p])
      BY <1>1, <2>1, <3>1, SumAfterUpdate
    <3> QED BY <1>1, <1>5, <2>1, <3>1, <3>2
  <2>2. CASE ~(covers /\ p \in T)
    <3>1. \A m \in T : g[m] = r[m]
      BY <1>1, <1>4, <2>2
    <3>2. SumFunctionOnSet(g, T) = SumFunctionOnSet(r, T)
      BY <1>1, <3>1, SumOfEquals
    <3> QED BY <1>1, <1>5, <3>2
  <2> QED BY <2>1, <2>2
<1>8. SumFunctionOnSet(g, T) \in Int
  <2>1. \A m \in T : g[m] \in Int
    BY <1>1, <1>4
  <2> QED BY <1>1, <2>1, SumIsInt
<1> QED BY <1>1, <1>5, <1>6, <1>7, <1>8

\* As long as no cancel fails, every receipt is seen and nothing fills, everything that
\* rests on one side of an asset, if it filled at once, would still leave the asset
\* within its cap, in all its windows together, although the guard only ever reads
\* reservations in memory (engine.go:978-987).
THEOREM QuotesStayWithinCap ==
  ASSUME QuoteAssumption
  PROVE  Spec => []QuotesWithinCap
<1>1. BookAssumption
  BY DEF QuoteAssumption, BookAssumption, QuietAssumption, Untraded
<1>2. Spec => []QuoteFacts
  BY <1>1, CoverHolds, NumbersHold, PTL DEF QuoteFacts
<1>3. Init => QuoteInv
  <2> SUFFICES ASSUME Init PROVE QuoteInv
    OBVIOUS
  <2>1. IsFiniteSet(book) /\ FlatInv /\ CountedInv
    BY FS_EmptySet DEF Init, FlatInv, CountedInv, NoResting, IdleEx
  <2>2. \A a, s : AssetResting(a, s) = 0
    <3>1. \A a : OnAsset(a) = {}
      BY DEF Init, OnAsset
    <3> QED BY <3>1, SumOfNone DEF AssetResting
  <2>3. \A a, s : Pending(a, s) = 0
    BY DEF Init, Pending, IdleEx
  <2> QED
    BY <2>1, <2>2, <2>3, EngineAssumption DEF QuoteInv, RoomInv, EngineAssumption
<1>4. QuoteFacts /\ QuoteFacts' /\ QuoteInv /\ [Next]_vars => QuoteInv'
  BY FlatInductive, CountedInductive, RoomInductive, BookFinite DEF QuoteInv
<1>5. QuoteFacts /\ QuoteInv => QuotesWithinCap
  <2> SUFFICES ASSUME QuoteFacts, QuoteInv, NEW a \in Asset, NEW s \in Side, Cap > 0
               PROVE  ChainExposure(a) + Signed(s, BookSize(a, s)) \in -Cap..Cap
    BY DEF QuotesWithinCap
  <2> DEFINE b == BookSize(a, s)
  <2>1. /\ Cap \in Nat /\ b \in Nat /\ b <= AssetResting(a, s) + Pending(a, s)
        /\ AssetResting(a, s) + Pending(a, s) <= Cap
        /\ AssetResting(a, s) \in Nat /\ Pending(a, s) \in Nat
    BY BookIsReserved, RestingIsNat, EngineAssumption
    DEF QuoteInv, RoomInv, QuoteFacts, CoverFacts, Pending, EngineAssumption
  <2>2. ChainExposure(a) = 0
    <3> DEFINE f == [m \in Market |-> ChainPosition(m)]
    <3>1. fills = {}
      BY DEF QuoteFacts, CoverFacts, QuietInv, Untraded, QuoteAssumption
    <3>2. \A m \in OfAsset(a) : f[m] = 0
      BY <3>1, PositionOfNone DEF ChainPosition, OfAsset
    <3>3. /\ ChainExposure(a) = SumFunctionOnSet(f, OfAsset(a)) /\ IsFiniteSet(OfAsset(a))
          /\ {} \subseteq OfAsset(a)
      BY EngineAssumption, FS_Subset DEF ChainExposure, OfAsset, EngineAssumption
    <3> HIDE DEF f
    <3>4. SumFunctionOnSet(f, OfAsset(a)) = SumFunctionOnSet(f, {})
      BY <3>2, <3>3, SumOfPart
    <3> QED BY <3>3, <3>4, SumOfNone
  <2> HIDE DEF b
  <2>3. b <= Cap
    BY <2>1
  <2>4. 0 + Signed(s, b) \in -Cap..Cap
    BY <2>1, <2>3 DEF Signed
  <2> QED BY <2>2, <2>4 DEF b
<1> QED BY <1>2, <1>3, <1>4, <1>5, PTL DEF Spec
=============================================================================
