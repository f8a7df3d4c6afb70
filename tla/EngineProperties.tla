-------------------------- MODULE EngineProperties --------------------------
(***************************************************************************)
(* What the engine promises, as properties of Engine.                      *)
(***************************************************************************)
EXTENDS Engine

LoopStates == {"off", "setup", "idle", "tick", "pull", "quote", "settling"} \cup Waiting
ExStates == {"idle", "check", "send", "receipt", "row"}
OrderIds == 0..MaxOrders

Order == [id : OrderIds, m : Market, side : Side, rem : 1..Size, late : BOOLEAN]
VenueTypeOK ==
  /\ phase \in [Market -> {"trading", "expired"}]
  /\ book \subseteq Order /\ placed \in OrderIds /\ mempool \in Seq(Intent)
ControlTypeOK ==
  /\ pc \in [Market -> LoopStates]
  /\ plan \in [Market -> SUBSET Side] /\ pull \in [Market -> SUBSET OrderIds]
  /\ queue \in Seq(Intent) /\ Len(queue) <= QueueCap
  /\ ex = [at |-> ex.at, in |-> ex.in, base |-> ex.base, id |-> ex.id, got |-> ex.got]
  /\ ex.at \in ExStates
  /\ IF ex.at = "idle" THEN ex.in = NoIntent ELSE ex.in \in Intent

\* What has happened and what has been written down of it.
Execution(f) == /\ f.id \in Nat /\ f.m \in Market /\ f.side \in Side
                /\ f.qty \in 1..Size /\ f.weTook \in BOOLEAN
RecordTypeOK ==
  /\ \A f \in fills : Execution(f)
  /\ known \subseteq Market /\ settled \subseteq Market
  /\ \A r \in rows : r.key \in {"rcpt", "idx"} /\ r.m \in Market /\ r.side \in Side
  /\ running \subseteq Market /\ tracked \subseteq Market
  /\ resting \in [Market -> [Side -> {0, Size}]]
  /\ ex.got \in 0..Size
  /\ rc = [at |-> rc.at, fill |-> rc.fill] /\ rc.at \in {"idle", "track", "add", "release"}
  /\ rc.fill \in IF rc.at = "idle" THEN {NoFill} ELSE fills
  /\ crashes \in 0..MaxCrashes

\* Every map, record and queue of the engine and of the venue has its type.
TypeOK ==
  /\ VenueTypeOK /\ ControlTypeOK /\ RecordTypeOK
  /\ inv \in [Market -> Int] /\ ex.base \in Int
-----------------------------------------------------------------------------
\* A loop that waits for its reply has exactly one intent, in the queue or in
\* the executor's hands, and it is an intent of the kind it waits for; a loop
\* that does not wait has none.  Otherwise a reply would be lost, and the loop
\* with it, or would answer the wrong question (engine.go:590-640, 681-787).
QueuedIn(q, m) == {i \in DOMAIN q : q[i].m = m /\ q[i].live}
QueuedFor(m) == QueuedIn(queue, m)
Handled(m) == ex.at # "idle" /\ ex.in.m = m /\ ex.in.live
Awaited(m) == CASE pc[m] = "cancelling" -> "cancel"
                [] pc[m] = "making" -> "make"
                [] OTHER -> "take"

ReplyProtocol ==
  \A m \in Market :
    /\ pc[m] \in Waiting => (Handled(m) <=> QueuedFor(m) = {})
    /\ pc[m] \notin Waiting => ~Handled(m) /\ QueuedFor(m) = {}
    /\ \A i, j \in QueuedFor(m) : i = j
    /\ \A i \in QueuedFor(m) : queue[i].act = Awaited(m)
    /\ Handled(m) => ex.in.act = Awaited(m)

\* The engine serves calls in turn, whatever else is going on: no loop moves on while
\* its order is being placed or before the orders asked for earlier are dealt with,
\* none is resumed by another's answer, and no call reaches the venue twice, although
\* waits for receipts are given up, loops stop waiting and the process dies
\* (engine.go:590-640, 645-788; trader.go:59-147).
Asked == [m \in Market |-> IF pc[m] \in Waiting THEN Awaited(m) ELSE "nothing"]
Line == IF ex.at = "idle" THEN queue ELSE <<ex.in>> \o queue
Acted == ex.at \in {"receipt", "row"}
Over == {m \in Market : phase[m] = "expired"}
Service == INSTANCE Calls WITH
             Caller <- Market, Call <- Intent, asked <- Asked, line <- Line,
             acted <- Acted, landed <- placed, owed <- Len(mempool), over <- Over
ServedInTurn == Service!Spec

\* A window never has two of our orders on the same side: the previous quote is
\* pulled before the next one is posted, across restarts and lost receipts,
\* because the pool and not memory says what is resting (engine.go:471-474,
\* 617-618).  This is for orders mined while they were waited for, and where cancels
\* and reads of our open orders succeed: an order mined after that wait, or one whose
\* cancel failed or was never tried (engine.go:623-627, 694), can be joined by another.
OneOrderPerSide ==
  \A o, p \in book : o.m = p.m /\ o.side = p.side => o = p \/ o.late \/ p.late

\* Between bookings, the inventory that gates a running window equals what the
\* ledger would restore for it: whatever mix of receipts, sweeps, crashes and
\* restarts came before, memory and ledger describe the same position
\* (engine.go:886-899, 1192-1211, 1048-1070).
Booking(m) == \/ ex.at = "row" /\ ex.in.m = m
              \/ rc.at \in {"track", "add"} /\ rc.fill.m = m
MemoryMatchesLedger ==
  HasLedger => \A m \in running : ~Booking(m) => inv[m] = LedgerPosition(m)

\* The ledger never says what the chain does not: each of its fills is an
\* execution of ours, with its market, its quantity and the side we were on,
\* even when we were the maker and the indexer reports the taker's direction
\* (engine.go:1179-1190).
LedgerTellsTheTruth ==
  \A r \in rows : \E f \in fills :
    f.id = r.fill /\ f.m = r.m /\ f.side = r.side /\ f.qty = r.qty

\* What we really hold, and could come to hold, on one asset.
ChainPosition(m) == Position(fills, m)
ChainExposure(a) ==
  SumFunctionOnSet([m \in Market |-> ChainPosition(m)], {m \in Market : AssetOf[m] = a})
BookSize(a, s) ==
  SumFunctionOnSet([o \in book |-> o.rem], {o \in book : AssetOf[o.m] = a /\ o.side = s})

\* What we hold on an asset stays within its cap (quote.go:49-56): windows that
\* decide concurrently cannot take past it together, since the check and the
\* fill it allows are one turn of the executor (engine.go:705-721).
ExposureWithinCap == \A a \in Asset : Cap > 0 => ChainExposure(a) \in -Cap..Cap

\* Nor can resting orders take it there: if all of one side filled and none of the
\* other, the asset would still be within its cap (engine.go:978-987).
QuotesWithinCap ==
  \A a \in Asset, s \in Side :
    Cap > 0 => ChainExposure(a) + Signed(s, BookSize(a, s)) \in -Cap..Cap

\* Whatever rests on the pool is reserved in memory, so that the next order's
\* worst case counts it; only the order whose receipt is awaited is not yet
\* (engine.go:49-63, 761-776).
ReservationCoversBook ==
  \A o \in book : \/ resting[o.m][o.side] >= o.rem
                  \/ ex.at = "receipt" /\ ex.in.m = o.m /\ ex.in.side = o.side
-----------------------------------------------------------------------------
\* "restarts and repeated scans cannot double-count" (engine.go:1134-1135): an
\* execution is in the ledger once.
FillRecordedOnce == \A q, r \in rows : q.fill = r.fill => q = r

-----------------------------------------------------------------------------
\* Every loop that waits is answered (engine.go:681-788): whatever happens to its
\* order, each path through handle replies, and other loops cannot starve it.
EveryIntentAnswered ==
  \A m \in Market : pc[m] \in Waiting ~> pc[m] \notin Waiting

\* A quote being replaced is cancelled order by order until none is left, however
\* many loops compete for the queue (engine.go:619-641).
PullCompletes ==
  \A m \in Market : pc[m] = "pull" ~> pc[m] \notin {"pull", "cancelling"}

\* Every execution on a window we registered reaches the ledger, although no
\* receipt tells of it, even after the window is over (engine.go:1128-1136).
FillIds == 1..(MaxOrders * Size)
EveryFillRecorded ==
  \A i \in FillIds : (\E f \in fills : f.id = i /\ f.m \in known)
                       ~> (\E r \in rows : r.fill = i)

\* Every expired window is reaped, whatever its loop was waiting for
\* when the deadline passed (engine.go:260-289, 344-367).
EveryWindowReaped ==
  \A m \in Market : phase[m] = "expired" ~> m \notin running
=============================================================================
