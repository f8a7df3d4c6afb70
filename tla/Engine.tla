------------------------------- MODULE Engine -------------------------------
(***************************************************************************)
(* The concurrent core of the market maker, core/internal/maker/engine.go: *)
(* one goroutine per live window decides (marketLoop), one executor writes *)
(* (execute / handle), one sweep ingests the fills that arrived in other   *)
(* people's transactions (reconcile), a supervisor spawns and every loop   *)
(* reaps itself.  They share the maps under Engine.mu, the intents channel *)
(* and the SQLite ledger; the pool's book and the oracle are outside.      *)
(*                                                                         *)
(* One step is one critical section, one channel operation, one ledger     *)
(* statement or one answer of the chain, because those are the points      *)
(* where another goroutine can come in between.                            *)
(*                                                                         *)
(* Left to other modules or abstracted: prices (a decision is the set of   *)
(* sides it quotes or the side it takes), the per-window take budget       *)
(* (TakeBudget), the exposure row written for the dashboard, which the     *)
(* engine never reads back (ExposureRow), the memory that holds an         *)
(* unchanged quote (a held tick changes nothing here), ledger statements   *)
(* that fail, statistics and logging.  The engine is live (Trader # nil).  *)
(*                                                                         *)
(* Definitions named Bug... are the mistakes the properties must catch:    *)
(* each is the definition that follows it with one plausible change.       *)
(***************************************************************************)
EXTENDS Integers, FiniteSets, Sequences, FiniteSetsExt, Functions

CONSTANTS
  Market,     \* windows the venue lists, each with its own pool
  NoMarket,   \* the market of no intent and of no fill
  Asset,      \* underlying assets
  AssetOf,    \* the asset of each window
  Size,       \* Params.Size, contracts per order
  Cap,        \* Params.MaxAssetExposure; 0 disables the check
  MaxInv,     \* Params.MaxInventory
  QueueCap,   \* capacity of the intents channel
  HasLedger,  \* e.Ledger # nil (flag -db)
  Env,        \* which of the environment's moves this instance allows
  MaxOrders,  \* bound: placements that land on chain
  MaxCrashes  \* bound: times the process dies

\* take: the book is mispriced now and then.  fill: counterparties trade
\* against resting orders; partial: in part.  age: orders expire on their own.
\* expire: windows end; settle: the oracle answers.  setupFail: book parameters or approval unavailable.
\* cancelFail: a cancel, or the read of our open orders, fails.  timeout: a
\* receipt is not seen although the transaction landed.  late: a transaction is
\* still unmined when the wait for its receipt ends.
EnvMoves == {"take", "fill", "partial", "age", "expire", "settle", "setupFail",
             "cancelFail", "timeout", "late"}

ASSUME EngineAssumption ==
  /\ IsFiniteSet(Market) /\ NoMarket \notin Market
  /\ AssetOf \in [Market -> Asset]
  /\ Size \in Nat \ {0} /\ Cap \in Nat /\ MaxInv \in Nat
  /\ QueueCap \in Nat \ {0} /\ MaxOrders \in Nat /\ MaxCrashes \in Nat
  /\ HasLedger \in BOOLEAN /\ Env \subseteq EnvMoves

Side == {"Up", "Dn"}

VARIABLES
  phase,     \* venue: "trading" or "expired", per window
  book,      \* venue: our resting orders
  fills,     \* venue: every execution against our address
  placed,    \* venue: placements landed so far, the source of order ids
  mempool,   \* venue: our transactions nobody waits for any more, by nonce
  known, rows, settled,               \* ledger: windows, fills, outcomes
  running, tracked, inv, resting,     \* maps under Engine.mu (tracked: marketAsset)
  pc, plan, pull,                     \* each window's loop
  queue,     \* the intents channel
  ex,        \* the executor: where it is in handle and what it has read
  rc,        \* the reconcile sweep: what is left to do for the fill in hand
  crashes

venue == <<phase, book, fills, placed, mempool>>
ledger == <<known, rows, settled>>
maps == <<running, tracked, inv, resting>>
loops == <<pc, plan, pull>>
vars == <<venue, ledger, maps, loops, queue, ex, rc, crashes>>
-----------------------------------------------------------------------------
Intent == [act : {"make", "take", "cancel"}, m : Market, side : Side,
           oid : 0..MaxOrders, live : BOOLEAN]
NoIntent == [act |-> "cancel", m |-> NoMarket, side |-> "Up", oid |-> 0, live |-> FALSE]

IdleEx == [at |-> "idle", in |-> NoIntent, base |-> 0, id |-> 0, got |-> 0]
NoFill == [id |-> 0, m |-> NoMarket, side |-> "Up", qty |-> 0,
           weTook |-> FALSE, takerIsBid |-> FALSE]
IdleRc == [at |-> "idle", fill |-> NoFill]

NoResting == [s \in Side |-> 0]
Signed(side, q) == IF side = "Up" THEN q ELSE -q

\* Sums over the windows marketAsset maps to asset a.
OnAsset(a) == {m \in tracked : AssetOf[m] = a}
AssetExposure(a) == SumFunctionOnSet(inv, OnAsset(a))
AssetResting(a, s) ==
  SumFunctionOnSet([m \in Market |-> resting[m][s]], OnAsset(a))

ExposureAllows(current, delta) == Cap > 0 => current + delta \in -Cap..Cap

\* The signed sum of the records of a window, executions or ledger rows.
Position(R, m) == SumFunctionOnSet([r \in R |-> Signed(r.side, r.qty)], {r \in R : r.m = m})

\* What the ledger believes we hold: OpenPositions' signed sum.
LedgerPosition(m) == Position(rows, m)

Init ==
  /\ phase = [m \in Market |-> "trading"]
  /\ book = {} /\ fills = {} /\ placed = 0 /\ mempool = <<>>
  /\ known = {} /\ rows = {} /\ settled = {}
  /\ running = {} /\ tracked = {}
  /\ inv = [m \in Market |-> 0] /\ resting = [m \in Market |-> NoResting]
  /\ pc = [m \in Market |-> "off"] /\ plan = [m \in Market |-> {}]
  /\ pull = [m \in Market |-> {}]
  /\ queue = <<>> /\ ex = IdleEx /\ rc = IdleRc
  /\ crashes = 0
-----------------------------------------------------------------------------
(***************************************************************************)
(* The venue and its clock.                                                *)
(***************************************************************************)
ExecutionOf(m, side, q, weTook) ==
  [id |-> Cardinality(fills) + 1, m |-> m, side |-> side, qty |-> q,
   weTook |-> weTook, takerIsBid |-> (side = "Up") = weTook]

\* A counterparty's transaction takes from one of our resting orders.
CounterpartyFills(o, q) ==
  /\ "fill" \in Env
  /\ "partial" \notin Env => q = o.rem
  /\ fills' = fills \cup {ExecutionOf(o.m, o.side, q, FALSE)}
  /\ book' = (book \ {o}) \cup (IF q = o.rem THEN {} ELSE {[o EXCEPT !.rem = @ - q]})
  /\ UNCHANGED <<phase, placed, mempool, ledger, maps, loops, queue, ex, rc, crashes>>

OrderAges(o) ==
  /\ "age" \in Env
  /\ book' = book \ {o}
  /\ UNCHANGED <<phase, fills, placed, mempool, ledger, maps, loops, queue, ex, rc, crashes>>

\* Orders carry an expiry of at most the window's minus 2s (expireNsFor), so
\* none of them is left when the loop's deadline passes.
WindowExpires(m) ==
  /\ "expire" \in Env /\ phase[m] = "trading"
  /\ phase' = [phase EXCEPT ![m] = "expired"]
  /\ book' = {o \in book : o.m # m}
  /\ UNCHANGED <<fills, placed, mempool, ledger, maps, loops, queue, ex, rc, crashes>>
-----------------------------------------------------------------------------
(***************************************************************************)
(* The supervisor and the life of one market loop.                         *)
(***************************************************************************)
Spawn(m) ==
  /\ phase[m] = "trading" /\ m \notin running /\ pc[m] = "off"
  /\ running' = running \cup {m} /\ tracked' = tracked \cup {m}
  /\ pc' = [pc EXCEPT ![m] = "setup"]
  /\ UNCHANGED <<venue, ledger, inv, resting, plan, pull, queue, ex, rc, crashes>>

SetupDone(m) ==
  /\ pc[m] = "setup"
  /\ known' = IF HasLedger THEN known \cup {m} ELSE known
  /\ pc' = [pc EXCEPT ![m] = "idle"]
  /\ UNCHANGED <<venue, rows, settled, maps, plan, pull, queue, ex, rc, crashes>>

\* The running entry is kept, so the supervisor would never look again.
BugReapKeepsRunning(m) ==
  /\ running' = running /\ tracked' = tracked \ {m}
  /\ inv' = [inv EXCEPT ![m] = 0]
  /\ resting' = [resting EXCEPT ![m] = NoResting]
  /\ UNCHANGED <<venue, ledger, plan, pull, queue, ex, rc, crashes>>

\* reap: everything memory holds about the window dies in one critical section.
Reap(m) ==
  /\ running' = running \ {m} /\ tracked' = tracked \ {m}
  /\ inv' = [inv EXCEPT ![m] = 0]
  /\ resting' = [resting EXCEPT ![m] = NoResting]
  /\ UNCHANGED <<venue, ledger, plan, pull, queue, ex, rc, crashes>>

SetupFails(m) ==
  /\ "setupFail" \in Env \/ phase[m] = "expired"
  /\ pc[m] = "setup"
  /\ pc' = [pc EXCEPT ![m] = "off"]
  /\ Reap(m)

\* The deadline has passed: hand over to a settle goroutine and reap.
Exit(m) ==
  /\ pc[m] = "idle" /\ phase[m] = "expired"
  /\ pc' = [pc EXCEPT ![m] = IF HasLedger THEN "settling" ELSE "off"]
  /\ Reap(m)

\* settle records the oracle's answer, or gives up after ten minutes.
Settle(m) ==
  /\ pc[m] = "settling" /\ "settle" \in Env
  /\ pc' = [pc EXCEPT ![m] = "off"]
  /\ settled' \in {settled, settled \cup {m}}
  /\ UNCHANGED <<venue, known, rows, maps, plan, pull, queue, ex, rc, crashes>>
-----------------------------------------------------------------------------
(***************************************************************************)
(* One tick of a market loop.  An intent carries the loop's Done channel   *)
(* while live: the loop waits for it, or has stopped waiting.              *)
(***************************************************************************)
Waiting == {"cancelling", "making", "taking"}
BugRoomForOneMore == Len(queue) <= QueueCap

Room == Len(queue) < QueueCap
Emit(act, m, side, oid) ==
  queue' = Append(queue, [act |-> act, m |-> m, side |-> side, oid |-> oid, live |-> TRUE])

\* Sides Compute would not skip for inventory.
OpenSides(m) == (IF inv[m] < MaxInv THEN {"Up"} ELSE {})
           \cup (IF inv[m] > -MaxInv THEN {"Dn"} ELSE {})

\* The inventory is read, then the book over RPC: what follows acts on what was
\* read here, and the deadline may pass in between.
Tick(m) ==
  /\ pc[m] = "idle" /\ phase[m] = "trading"
  /\ plan' = [plan EXCEPT ![m] = OpenSides(m)]
  /\ pc' = [pc EXCEPT ![m] = "tick"]
  /\ UNCHANGED <<venue, ledger, maps, pull, queue, ex, rc, crashes>>

\* Nothing to do: a quote is held, a take is blocked or the queue is full.
TickEnds(m) ==
  /\ pc[m] = "tick"
  /\ plan' = [plan EXCEPT ![m] = {}]
  /\ pc' = [pc EXCEPT ![m] = "idle"]
  /\ UNCHANGED <<venue, ledger, maps, pull, queue, ex, rc, crashes>>

\* A priced, unblocked take: a non-blocking send.
DecideTake(m, s) ==
  /\ "take" \in Env /\ pc[m] = "tick" /\ s \in plan[m] /\ Room
  /\ Emit("take", m, s, 0)
  /\ plan' = [plan EXCEPT ![m] = {}]
  /\ pc' = [pc EXCEPT ![m] = "taking"]
  /\ UNCHANGED <<venue, ledger, maps, pull, ex, rc, crashes>>

\* Memory instead of the pool says whether anything is resting.
BugPullFromMemory(m, sides) ==
  /\ pc[m] = "tick"
  /\ plan' = [plan EXCEPT ![m] = sides]
  /\ pull' = [pull EXCEPT ![m] = IF resting[m] = NoResting THEN {}
                                 ELSE {o.id : o \in {b \in book : b.m = m}}]
  /\ pc' = [pc EXCEPT ![m] = "pull"]
  /\ UNCHANGED <<venue, ledger, maps, queue, ex, rc, crashes>>

\* clearResting before the cancels instead of after them.
BugClearBeforePull(m, sides) ==
  /\ pc[m] = "tick"
  /\ plan' = [plan EXCEPT ![m] = sides]
  /\ pull' = [pull EXCEPT ![m] = {o.id : o \in {b \in book : b.m = m}}]
  /\ resting' = [resting EXCEPT ![m] = NoResting]
  /\ pc' = [pc EXCEPT ![m] = "pull"]
  /\ UNCHANGED <<venue, ledger, running, tracked, inv, queue, ex, rc, crashes>>

\* A quote to replace, perhaps by none: read our orders from the pool.
DecideQuote(m, sides) ==
  /\ pc[m] = "tick"
  /\ plan' = [plan EXCEPT ![m] = sides]
  /\ \E ids \in {{o.id : o \in {b \in book : b.m = m}}}
          \cup (IF "cancelFail" \in Env THEN {{}} ELSE {}) :
       pull' = [pull EXCEPT ![m] = ids]
  /\ pc' = [pc EXCEPT ![m] = "pull"]
  /\ UNCHANGED <<venue, ledger, maps, queue, ex, rc, crashes>>

\* The list is not advanced: the same order is cancelled again and again.
BugPullSameAgain(m, id) ==
  /\ pc[m] = "pull" /\ id \in pull[m] /\ Room
  /\ Emit("cancel", m, "Up", id)
  /\ pc' = [pc EXCEPT ![m] = "cancelling"]
  /\ UNCHANGED <<venue, ledger, maps, plan, pull, ex, rc, crashes>>

\* cancelResting: one blocking send per order, each awaited.
PullOne(m, id) ==
  /\ pc[m] = "pull" /\ id \in pull[m] /\ Room
  /\ Emit("cancel", m, "Up", id)
  /\ pull' = [pull EXCEPT ![m] = @ \ {id}]
  /\ pc' = [pc EXCEPT ![m] = "cancelling"]
  /\ UNCHANGED <<venue, ledger, maps, plan, ex, rc, crashes>>

Quoting(m) == IF plan'[m] = {} THEN "idle" ELSE "quote"

\* clearResting: the cancelled orders' reservations are released.
PullDone(m) ==
  /\ pc[m] = "pull" /\ pull[m] = {}
  /\ resting' = [resting EXCEPT ![m] = NoResting]
  /\ plan' = plan
  /\ pc' = [pc EXCEPT ![m] = Quoting(m)]
  /\ UNCHANGED <<venue, ledger, running, tracked, inv, pull, queue, ex, rc, crashes>>

\* The bid first, then the ask; each waits for its reply, or is dropped: by a price
\* that snaps to zero, a full queue or a finished context.
QuoteSide(m, s) ==
  /\ pc[m] = "quote" /\ s \in plan[m] /\ (s = "Dn" => "Up" \notin plan[m])
  /\ plan' = [plan EXCEPT ![m] = @ \ {s}]
  /\ \/ Room /\ Emit("make", m, s, 0) /\ pc' = [pc EXCEPT ![m] = "making"]
     \/ UNCHANGED queue /\ pc' = [pc EXCEPT ![m] = Quoting(m)]
  /\ UNCHANGED <<venue, ledger, maps, pull, ex, rc, crashes>>

\* One reply channel per loop instead of one per intent: the late reply of an
\* orphaned intent reaches the loop.
BugSharedReply(m) ==
  /\ phase[m] = "expired"
  /\ pc[m] \in Waiting \/ (pc[m] = "pull" /\ pull[m] # {})
  /\ pull' = [pull EXCEPT ![m] = {}]
  /\ plan' = plan
  /\ pc' = [pc EXCEPT ![m] = CASE @ \in {"pull", "cancelling"} -> "pull"
                               [] @ = "making" -> Quoting(m)
                               [] @ = "taking" -> "idle"]
  /\ UNCHANGED <<venue, ledger, maps, queue, ex, rc, crashes>>

\* ctx.Done wins the select: the loop moves on, its intent stays behind.
ContextDone(m) ==
  /\ phase[m] = "expired"
  /\ pc[m] \in Waiting \/ (pc[m] = "pull" /\ pull[m] # {})
  /\ queue' = [i \in DOMAIN queue |->
                 [queue[i] EXCEPT !.live = @ /\ queue[i].m # m]]
  /\ ex' = [ex EXCEPT !.in.live = @ /\ ex.in.m # m]
  /\ pull' = [pull EXCEPT ![m] = {}]
  /\ plan' = plan
  /\ pc' = [pc EXCEPT ![m] = CASE @ \in {"pull", "cancelling"} -> "pull"
                               [] @ = "making" -> Quoting(m)
                               [] @ = "taking" -> "idle"]
  /\ UNCHANGED <<venue, ledger, maps, rc, crashes>>
-----------------------------------------------------------------------------
(***************************************************************************)
(* The executor: handle, one intent at a time.                             *)
(***************************************************************************)
\* The reply on the buffered Done channel resumes the loop if it still waits.
Resume(in) ==
  /\ plan' = plan
  /\ pc' = IF ~in.live THEN pc
           ELSE [pc EXCEPT ![in.m] = CASE @ = "cancelling" -> "pull"
                                       [] @ = "making" -> Quoting(in.m)
                                       [] OTHER -> "idle"]
Reply == ex' = IdleEx /\ Resume(ex.in)

\* The cap is checked against the window's own position.
BugDequeueOwnWindow ==
  /\ ex.at = "idle" /\ queue # <<>> /\ Head(queue).act # "cancel"
  /\ queue' = Tail(queue)
  /\ ex' = [IdleEx EXCEPT !.at = "check", !.in = Head(queue),
                          !.base = inv[Head(queue).m]]
  /\ UNCHANGED <<venue, ledger, maps, loops, rc, crashes>>

\* A placement is dequeued: the first of exposureBaseline's two reads.
Dequeue ==
  /\ ex.at = "idle" /\ queue # <<>> /\ Head(queue).act # "cancel"
  /\ queue' = Tail(queue)
  /\ ex' = [IdleEx EXCEPT !.at = "check", !.in = Head(queue),
                          !.base = AssetExposure(AssetOf[Head(queue).m])]
  /\ UNCHANGED <<venue, ledger, maps, loops, rc, crashes>>

\* What one of our transactions does when it is mined.  A post-only order rests
\* whole; a take fills at once and leaves nothing behind.  A nonce is the count
\* of what we sent (PendingNonceAt), so none is mined before an earlier one.
CancelMined(id) ==
  /\ book' = {o \in book : o.id # id}
  /\ UNCHANGED <<fills, placed>>

PlacementMined(in, got, late) ==
  /\ placed < MaxOrders /\ phase[in.m] = "trading"
  /\ placed' = placed + 1
  /\ IF in.act = "make"
     THEN /\ got = 0 /\ UNCHANGED fills
          /\ book' = book \cup {[id |-> placed', m |-> in.m, side |-> in.side,
                                rem |-> Size, late |-> late]}
     ELSE /\ "partial" \notin Env => got \in {0, Size}
          /\ fills' = IF got = 0 THEN fills
                      ELSE fills \cup {ExecutionOf(in.m, in.side, got, TRUE)}
          /\ UNCHANGED book

\* The wait for a receipt ends and the transaction is still there.
Abandon(in) ==
  /\ "late" \in Env /\ placed + Len(mempool) < MaxOrders
  /\ mempool' = Append(mempool, [in EXCEPT !.live = FALSE])

\* It is mined, a placement perhaps reverting, when other intents are already
\* being handled.
LateMined ==
  /\ mempool # <<>> /\ mempool' = Tail(mempool)
  /\ LET in == Head(mempool) IN
     \/ in.act = "cancel" /\ CancelMined(in.oid)
     \/ in.act # "cancel" /\ \E got \in 0..Size : PlacementMined(in, got, TRUE)
     \/ in.act # "cancel" /\ UNCHANGED <<book, fills, placed>>
  /\ UNCHANGED <<phase, ledger, maps, loops, queue, ex, rc, crashes>>

\* A cancel is dequeued and sent; one whose order is gone, or that fails, is
\* only logged.
Cancel ==
  /\ ex.at = "idle" /\ queue # <<>> /\ Head(queue).act = "cancel"
  /\ queue' = Tail(queue)
  /\ \/ mempool = <<>> /\ CancelMined(Head(queue).oid) /\ UNCHANGED mempool
     \/ "cancelFail" \in Env /\ UNCHANGED <<book, fills, placed, mempool>>
     \/ Abandon(Head(queue)) /\ UNCHANGED <<book, fills, placed>>
  /\ Resume(Head(queue))
  /\ UNCHANGED <<phase, ledger, maps, pull, ex, rc, crashes>>

\* Orders resting in other windows are left out of the worst case.
BugBaselineRealised == ex.base

\* The second read, then the guard: a resting order is checked against every
\* other order resting on its side, a take against realised exposure only.
Baseline ==
  ex.base + (IF ex.in.act = "make"
             THEN Signed(ex.in.side, AssetResting(AssetOf[ex.in.m], ex.in.side))
             ELSE 0)

\* The reply is sent when the intent is accepted instead of when it is done.
BugReplyOnAccept ==
  /\ ex.at = "check"
  /\ IF ExposureAllows(Baseline, Signed(ex.in.side, Size))
     THEN ex' = [ex EXCEPT !.at = "send", !.in.live = FALSE] /\ Resume(ex.in)
     ELSE Reply
  /\ UNCHANGED <<venue, ledger, maps, pull, queue, rc, crashes>>

GuardExposure ==
  /\ ex.at = "check"
  /\ IF ExposureAllows(Baseline, Signed(ex.in.side, Size))
     THEN ex' = [ex EXCEPT !.at = "send"] /\ UNCHANGED <<pc, plan>>
     ELSE Reply
  /\ UNCHANGED <<venue, ledger, maps, pull, queue, rc, crashes>>

\* An error path that returns without replying.
BugSilentFailure ==
  /\ ex.at = "send"
  /\ ex' = IdleEx
  /\ UNCHANGED <<venue, ledger, maps, loops, queue, rc, crashes>>

\* Estimation reverts, the post-only order would cross, the send fails...
SendFails ==
  /\ ex.at = "send"
  /\ Reply
  /\ UNCHANGED <<venue, ledger, maps, pull, queue, rc, crashes>>

SendLands(got) ==
  /\ ex.at = "send" /\ mempool = <<>>
  /\ PlacementMined(ex.in, got, FALSE)
  /\ ex' = [ex EXCEPT !.at = "receipt", !.id = Cardinality(fills'), !.got = got]
  /\ UNCHANGED <<phase, mempool, ledger, maps, loops, queue, rc, crashes>>

SendAbandoned ==
  /\ ex.at = "send"
  /\ Abandon(ex.in)
  /\ Reply
  /\ UNCHANGED <<phase, book, fills, placed, ledger, maps, pull, queue, rc, crashes>>

\* A receipt that was not seen is taken for a failure, and the order sent again.
BugSendAgain ==
  /\ "timeout" \in Env /\ ex.at = "receipt"
  /\ ex' = [ex EXCEPT !.at = "send"]
  /\ UNCHANGED <<venue, ledger, maps, loops, queue, rc, crashes>>

ReceiptTimesOut ==
  /\ "timeout" \in Env /\ ex.at = "receipt"
  /\ Reply
  /\ UNCHANGED <<venue, ledger, maps, pull, queue, rc, crashes>>

\* The receipt of a resting order: setResting, then the reply.
ReserveResting ==
  /\ ex.at = "receipt" /\ ex.in.act = "make"
  /\ resting' = [resting EXCEPT ![ex.in.m][ex.in.side] = Size]
  /\ Reply
  /\ UNCHANGED <<venue, ledger, running, tracked, inv, pull, queue, rc, crashes>>

\* The requested size is booked instead of what executed.
BugBookRequested ==
  /\ ex.at = "receipt" /\ ex.in.act = "take"
  /\ inv' = [inv EXCEPT ![ex.in.m] = @ + Signed(ex.in.side, Size)]
  /\ IF ex.got = 0 \/ ~HasLedger
     THEN Reply
     ELSE ex' = [ex EXCEPT !.at = "row"] /\ UNCHANGED <<pc, plan>>
  /\ UNCHANGED <<venue, ledger, running, tracked, resting, pull, queue, rc, crashes>>

\* The receipt of a take: record adds each fill to the inventory first.
TakeReceipt ==
  /\ ex.at = "receipt" /\ ex.in.act = "take"
  /\ inv' = [inv EXCEPT ![ex.in.m] = @ + Signed(ex.in.side, ex.got)]
  /\ IF ex.got = 0 \/ ~HasLedger
     THEN Reply
     ELSE ex' = [ex EXCEPT !.at = "row"] /\ UNCHANGED <<pc, plan>>
  /\ UNCHANGED <<venue, ledger, running, tracked, resting, pull, queue, rc, crashes>>

RecordFill ==
  /\ ex.at = "row"
  /\ rows' = rows \cup {[key |-> "rcpt", fill |-> ex.id, m |-> ex.in.m,
                         side |-> ex.in.side, qty |-> ex.got]}
  /\ Reply
  /\ UNCHANGED <<venue, known, settled, maps, pull, queue, rc, crashes>>
-----------------------------------------------------------------------------
(***************************************************************************)
(* The reconcile sweep.                                                    *)
(***************************************************************************)
\* Only fills of windows still running are ingested.
BugUnseenRunning == {f \in fills : /\ f.m \in running
                                   /\ ~\E r \in rows : r.key = "idx" /\ r.fill = f.id}

\* Fills that HasFill and KnownMarket let through.
Unseen == {f \in fills : /\ f.m \in known
                         /\ ~\E r \in rows : r.key = "idx" /\ r.fill = f.id}

\* The taker's direction is taken for ours.
BugTakersSide(f) == IF f.takerIsBid THEN "Up" ELSE "Dn"

\* Our side: the taker's direction if we took, else the opposite.
OurSide(f) == IF f.takerIsBid = f.weTook THEN "Up" ELSE "Dn"

\* The indexer returns the fills we made AND the fills we took.  It may lag and
\* a sweep may be old, so the next fill is any unseen one.  The ledger row
\* comes before the inventory.
IngestRow(f) ==
  /\ HasLedger /\ rc.at = "idle"
  /\ rows' = rows \cup {[key |-> "idx", fill |-> f.id, m |-> f.m,
                         side |-> OurSide(f), qty |-> f.qty]}
  /\ rc' = [at |-> "track", fill |-> f]
  /\ UNCHANGED <<venue, known, settled, maps, loops, queue, ex, crashes>>

\* setMarketAsset and addInventory each take the lock.
IngestTrack ==
  /\ rc.at = "track"
  /\ tracked' = tracked \cup {rc.fill.m}
  /\ rc' = [rc EXCEPT !.at = "add"]
  /\ UNCHANGED <<venue, ledger, running, inv, resting, loops, queue, ex, crashes>>

IngestInventory ==
  /\ rc.at = "add"
  /\ inv' = [inv EXCEPT ![rc.fill.m] = @ + Signed(OurSide(rc.fill), rc.fill.qty)]
  /\ rc' = [rc EXCEPT !.at = "release"]
  /\ UNCHANGED <<venue, ledger, running, tracked, resting, loops, queue, ex, crashes>>

\* The reservation of the side that filled is released, whole.
IngestRelease ==
  /\ rc.at = "release"
  /\ resting' = [resting EXCEPT ![rc.fill.m][OurSide(rc.fill)] = 0]
  /\ rc' = IdleRc
  /\ UNCHANGED <<venue, ledger, running, tracked, inv, loops, queue, ex, crashes>>
-----------------------------------------------------------------------------
\* The process dies and starts again: memory is rebuilt by restoreInventory,
\* the venue and the ledger are as they were.
Restorable == {r.m : r \in rows} \cap (known \ settled)

CrashRestart ==
  /\ crashes < MaxCrashes /\ crashes' = crashes + 1
  /\ running' = {} /\ tracked' = Restorable
  /\ inv' = [m \in Market |-> IF m \in Restorable THEN LedgerPosition(m) ELSE 0]
  /\ resting' = [m \in Market |-> NoResting]
  /\ pc' = [m \in Market |-> "off"] /\ plan' = [m \in Market |-> {}]
  /\ pull' = [m \in Market |-> {}]
  /\ queue' = <<>> /\ ex' = IdleEx /\ rc' = IdleRc
  /\ UNCHANGED <<venue, known, rows, settled>>

Executor ==
  \/ Dequeue \/ Cancel \/ GuardExposure \/ SendFails
  \/ \E got \in 0..Size : SendLands(got)
  \/ SendAbandoned
  \/ ReceiptTimesOut \/ ReserveResting \/ TakeReceipt \/ RecordFill

Reconcile ==
  \/ \E f \in Unseen : IngestRow(f)
  \/ IngestTrack \/ IngestInventory \/ IngestRelease

Loop(m) ==
  \/ SetupDone(m) \/ SetupFails(m)
  \/ Tick(m) \/ TickEnds(m)
  \/ \E s \in plan[m] : DecideTake(m, s)
  \/ \E sides \in {plan[m], {}} : DecideQuote(m, sides)
  \/ \E id \in pull[m] : PullOne(m, id)
  \/ PullDone(m)
  \/ \E s \in Side : QuoteSide(m, s)
  \/ ContextDone(m)
  \/ Exit(m)

Venue ==
  \/ \E o \in book : OrderAges(o) \/ \E q \in 1..o.rem : CounterpartyFills(o, q)
  \/ \E m \in Market : WindowExpires(m)
  \/ LateMined

Next ==
  \/ Executor
  \/ Reconcile
  \/ \E m \in Market : Spawn(m) \/ Loop(m) \/ Settle(m)
  \/ Venue
  \/ CrashRestart

Spec == Init /\ [][Next]_vars

(***************************************************************************)
(* Fairness.  The executor and the sweep are goroutines that keep running; *)
(* a loop keeps running its own straight-line code; the supervisor's       *)
(* ticker keeps firing.  Sends on the intents channel that block are       *)
(* served in FIFO order by the runtime, so one that is possible again and  *)
(* again is not passed over for ever.  Nothing makes the venue act, an     *)
(* order fill or a loop decide.                                            *)
(***************************************************************************)
FairSpec ==
  /\ Spec
  /\ WF_vars(Executor)
  /\ WF_vars(IngestTrack) /\ WF_vars(IngestInventory) /\ WF_vars(IngestRelease)
  /\ WF_vars(\E f \in Unseen : IngestRow(f))
  /\ \A m \in Market :
       /\ WF_vars(Spawn(m)) /\ WF_vars(SetupDone(m)) /\ WF_vars(PullDone(m))
       /\ WF_vars(\/ TickEnds(m)
                  \/ \E s \in plan[m] : DecideTake(m, s)
                  \/ \E sides \in {plan[m], {}} : DecideQuote(m, sides))
       /\ WF_vars(\E s \in Side : QuoteSide(m, s))
       /\ SF_vars(\E id \in pull[m] : PullOne(m, id))
       /\ WF_vars(ContextDone(m)) /\ WF_vars(Exit(m))
=============================================================================
