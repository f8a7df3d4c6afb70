---------------------------- MODULE EngineProofs ----------------------------
(***************************************************************************)
(* The hand-off between the decision loops and the executor, and what it   *)
(* leaves resting in the pools, for any number of windows, any queue       *)
(* capacity and any mix of the environment's moves.  The sums of positions *)
(* play no part in it: LedgerProofs has those.                             *)
(***************************************************************************)
EXTENDS EngineProperties, SequenceTheorems, TLAPS

IInv == VenueTypeOK /\ ControlTypeOK /\ ReplyProtocol

\* ReplyProtocol, for one window.
ProtocolFor(m) ==
  /\ pc[m] \in Waiting => (Handled(m) <=> QueuedFor(m) = {})
  /\ pc[m] \notin Waiting => ~Handled(m) /\ QueuedFor(m) = {}
  /\ \A i, j \in QueuedFor(m) : i = j
  /\ \A i \in QueuedFor(m) : queue[i].act = Awaited(m)
  /\ Handled(m) => ex.in.act = Awaited(m)

\* What the channel's operations do to the intents a loop is waiting for.
LEMMA QueuedAfterSend ==
  ASSUME NEW q \in Seq(Intent), NEW in \in Intent, NEW m
  PROVE  /\ Append(q, in) \in Seq(Intent)
         /\ Len(Append(q, in)) = Len(q) + 1
         /\ QueuedIn(Append(q, in), m) =
              QueuedIn(q, m) \cup (IF in.m = m /\ in.live THEN {Len(q) + 1} ELSE {})
         /\ \A i \in DOMAIN q : Append(q, in)[i] = q[i]
         /\ Append(q, in)[Len(q) + 1] = in
BY DEF QueuedIn

LEMMA QueuedAfterReceive ==
  ASSUME NEW q \in Seq(Intent), q # <<>>, NEW m
  PROVE  /\ Tail(q) \in Seq(Intent) /\ Len(Tail(q)) = Len(q) - 1
         /\ Head(q) \in Intent /\ Head(q) = q[1] /\ 1 \in DOMAIN q
         /\ QueuedIn(Tail(q), m) = {i \in 1..(Len(q) - 1) : i + 1 \in QueuedIn(q, m)}
         /\ \A i \in QueuedIn(q, m) : i # 1 => i - 1 \in QueuedIn(Tail(q), m)
         /\ \A i \in QueuedIn(Tail(q), m) : Tail(q)[i] = q[i + 1]
<1>1. /\ Tail(q) \in Seq(Intent) /\ Len(Tail(q)) = Len(q) - 1
      /\ Head(q) \in Intent
      /\ \A i \in 1..(Len(q) - 1) : Tail(q)[i] = q[i + 1]
  BY HeadTailProperties
<1>2. Head(q) = q[1] /\ 1 \in DOMAIN q /\ DOMAIN q = 1..Len(q) /\ Len(q) \in Nat \ {0}
  BY EmptySeq
<1>3. DOMAIN Tail(q) = 1..(Len(q) - 1)
  BY <1>1, <1>2
<1>4. QueuedIn(Tail(q), m) = {i \in 1..(Len(q) - 1) : i + 1 \in QueuedIn(q, m)}
  BY <1>1, <1>2, <1>3 DEF QueuedIn
<1>5. ASSUME NEW i \in QueuedIn(q, m), i # 1
      PROVE  i - 1 \in QueuedIn(Tail(q), m)
  <2>1. i \in 1..Len(q)
    BY <1>2 DEF QueuedIn
  <2> QED BY <1>2, <1>4, <1>5, <2>1
<1>6. \A i \in QueuedIn(Tail(q), m) : Tail(q)[i] = q[i + 1]
  BY <1>1, <1>4
<1> QED BY <1>1, <1>2, <1>4, <1>5, <1>6
-----------------------------------------------------------------------------
\* A step that touches neither the channel nor the executor, and moves a loop
\* only between states in which it does not wait.
LEMMA QuietStep ==
  ASSUME ReplyProtocol, queue' = queue, ex' = ex,
         \A m \in Market : \/ pc'[m] = pc[m]
                           \/ pc[m] \notin Waiting /\ pc'[m] \notin Waiting
  PROVE  ReplyProtocol'
BY DEF ReplyProtocol, Handled, QueuedFor, QueuedIn, Awaited

\* The executor advances with the intent it holds.
LEMMA HandlingStep ==
  ASSUME ReplyProtocol, queue' = queue, pc' = pc,
         ex.at # "idle", ex'.at # "idle", ex'.in = ex.in
  PROVE  ReplyProtocol'
BY DEF ReplyProtocol, Handled, QueuedFor, QueuedIn, Awaited

\* The executor replies: the loop that still waits for this intent moves on.
LEMMA ReplyStep ==
  ASSUME ControlTypeOK, ReplyProtocol, queue' = queue, ex.at # "idle", Reply,
         plan' = plan
  PROVE  /\ pc' \in [Market -> LoopStates] /\ ReplyProtocol'
<1> DEFINE in == ex.in
<1>1. in \in Intent /\ in.m \in Market /\ in.live \in BOOLEAN /\ pc \in [Market -> LoopStates]
  BY DEF ControlTypeOK, Intent
<1>2. ex' = IdleEx /\ Resume(in)
  BY DEF Reply
<1>3. \A m \in Market : ~Handled(m)'
  BY <1>2 DEF Handled, IdleEx
<1>4. CASE ~in.live
  <2>1. pc' = pc
    BY <1>2, <1>4 DEF Resume
  <2>2. \A m \in Market : ~Handled(m)
    BY <1>4 DEF Handled
  <2> QED BY <1>1, <1>3, <2>1, <2>2 DEF ReplyProtocol, QueuedFor, QueuedIn, Awaited
<1>5. CASE in.live
  <2>1. Handled(in.m)
    BY <1>5 DEF Handled
  <2>2. pc[in.m] \in Waiting /\ QueuedFor(in.m) = {}
    BY <1>1, <2>1 DEF ReplyProtocol
  <2>3. /\ pc' \in [Market -> LoopStates]
        /\ pc'[in.m] \in {"pull", "idle", "quote"}
        /\ \A m \in Market : m # in.m => pc'[m] = pc[m]
    BY <1>1, <1>2, <1>5, <2>2 DEF Resume, Quoting, Waiting, LoopStates
  <2>4. \A m \in Market : m # in.m => ~Handled(m)
    BY DEF Handled
  <2> QED
    BY <1>1, <1>3, <2>2, <2>3, <2>4 DEF ReplyProtocol, QueuedFor, QueuedIn, Awaited, Waiting
<1> QED BY <1>1, <1>4, <1>5

\* A loop that does not wait sends an intent and waits for its answer.
LEMMA SendStep ==
  ASSUME ControlTypeOK, ReplyProtocol, ex' = ex, Room,
         NEW m \in Market, NEW act \in {"make", "take", "cancel"},
         NEW side \in Side, NEW oid \in OrderIds, NEW w \in Waiting,
         Emit(act, m, side, oid), pc[m] \notin Waiting,
         pc' = [pc EXCEPT ![m] = w],
         act = CASE w = "cancelling" -> "cancel" [] w = "making" -> "make" [] OTHER -> "take"
  PROVE  /\ pc' \in [Market -> LoopStates]
         /\ queue' \in Seq(Intent) /\ Len(queue') <= QueueCap
         /\ ReplyProtocol'
<1> DEFINE new == [act |-> act, m |-> m, side |-> side, oid |-> oid, live |-> TRUE]
<1>1. /\ new \in Intent /\ queue' = Append(queue, new)
      /\ queue \in Seq(Intent) /\ pc \in [Market -> LoopStates]
  BY DEF Intent, Emit, ControlTypeOK, OrderIds
<1>2. pc' \in [Market -> LoopStates] /\ pc'[m] = w
      /\ \A n \in Market : n # m => pc'[n] = pc[n]
  BY <1>1 DEF LoopStates
<1>3. queue' \in Seq(Intent) /\ Len(queue') <= QueueCap
  BY <1>1, QueuedAfterSend, EngineAssumption DEF Room, EngineAssumption
<1>4. ~Handled(m) /\ QueuedFor(m) = {}
  BY DEF ReplyProtocol
<1>5. \A n \in Market : Handled(n)' = Handled(n)
  BY DEF Handled
<1>6. QueuedFor(m)' = {Len(queue) + 1} /\ queue'[Len(queue) + 1].act = act
  BY <1>1, <1>4, QueuedAfterSend DEF QueuedFor
<1>7. ASSUME NEW n \in Market, n # m
      PROVE  /\ QueuedFor(n)' = QueuedFor(n)
             /\ \A i \in QueuedFor(n) : queue'[i] = queue[i]
  BY <1>1, <1>7, QueuedAfterSend DEF QueuedFor, QueuedIn
<1>8. Awaited(m)' = act
  BY <1>2 DEF Awaited
<1>9. ASSUME NEW n \in Market, n # m
      PROVE  Awaited(n)' = Awaited(n)
  BY <1>2, <1>9 DEF Awaited
<1>10. ASSUME NEW n \in Market
       PROVE  ProtocolFor(n)'
  <2>1. CASE n = m
    BY <1>2, <1>4, <1>5, <1>6, <1>8, <2>1 DEF ProtocolFor
  <2>2. CASE n # m
    BY <1>2, <1>5, <1>7, <1>9, <2>2 DEF ProtocolFor, ReplyProtocol
  <2> QED BY <2>1, <2>2
<1> QED BY <1>2, <1>3, <1>10 DEF ProtocolFor, ReplyProtocol

\* The executor takes a placement out of the channel.
LEMMA DequeueStep ==
  ASSUME ControlTypeOK, ReplyProtocol, Dequeue
  PROVE  /\ queue' \in Seq(Intent) /\ Len(queue') <= QueueCap
         /\ ex'.at = "check" /\ ex'.in \in Intent
         /\ ReplyProtocol'
<1> DEFINE in == Head(queue)
<1>1. /\ queue \in Seq(Intent) /\ queue # <<>> /\ queue' = Tail(queue) /\ pc' = pc
      /\ ex.at = "idle" /\ ex'.at = "check" /\ ex'.in = in
  BY DEF Dequeue, loops, ControlTypeOK, IdleEx
<1>2. queue' \in Seq(Intent) /\ Len(queue') = Len(queue) - 1 /\ in \in Intent
      /\ Len(queue) \in Nat /\ in = queue[1]
  BY <1>1, QueuedAfterReceive
<1>3. Len(queue') <= QueueCap
  BY <1>2, EngineAssumption DEF ControlTypeOK, EngineAssumption
<1>4. ASSUME NEW m \in Market
      PROVE  ProtocolFor(m)'
  <2>1. /\ 1 \in QueuedFor(m) <=> in.m = m /\ in.live
        /\ QueuedFor(m)' = {i \in 1..(Len(queue) - 1) : i + 1 \in QueuedFor(m)}
        /\ \A i \in QueuedFor(m) : i # 1 => i - 1 \in QueuedFor(m)'
        /\ \A i \in QueuedFor(m)' : queue'[i] = queue[i + 1]
    BY <1>1, QueuedAfterReceive DEF QueuedFor, QueuedIn
  <2>2. Handled(m)' <=> 1 \in QueuedFor(m)
    BY <1>1, <2>1 DEF Handled
  <2>3. ~Handled(m) /\ Awaited(m)' = Awaited(m)
    BY <1>1 DEF Handled, Awaited
  <2>4. /\ pc[m] \in Waiting => QueuedFor(m) # {}
        /\ pc[m] \notin Waiting => QueuedFor(m) = {}
        /\ \A i, j \in QueuedFor(m) : i = j
        /\ \A i \in QueuedFor(m) : queue[i].act = Awaited(m)
    BY <2>3 DEF ReplyProtocol
  <2>5. \A i \in QueuedFor(m)' : i \in Nat /\ i # 0 /\ i + 1 \in QueuedFor(m)
    BY <2>1
  <2>6. CASE 1 \in QueuedFor(m)
    <3>1. QueuedFor(m)' = {}
      BY <2>4, <2>5, <2>6
    <3> QED BY <1>1, <1>2, <2>2, <2>3, <2>4, <2>6, <3>1 DEF ProtocolFor
  <2>7. CASE 1 \notin QueuedFor(m)
    <3>1. QueuedFor(m) # {} => QueuedFor(m)' # {}
      BY <2>1, <2>7
    <3>2. \A i, j \in QueuedFor(m)' : i = j
      BY <2>4, <2>5
    <3>3. \A i \in QueuedFor(m)' : queue'[i].act = Awaited(m)
      BY <2>1, <2>4, <2>5
    <3> QED BY <1>1, <2>2, <2>3, <2>4, <2>5, <2>7, <3>1, <3>2, <3>3 DEF ProtocolFor
  <2> QED BY <2>6, <2>7
<1> QED BY <1>1, <1>2, <1>3, <1>4 DEF ProtocolFor, ReplyProtocol

\* The executor takes a cancel out of the channel and answers it at once.
LEMMA CancelStep ==
  ASSUME ControlTypeOK, ReplyProtocol, Cancel
  PROVE  /\ queue' \in Seq(Intent) /\ Len(queue') <= QueueCap
         /\ pc' \in [Market -> LoopStates]
         /\ ReplyProtocol'
<1> DEFINE in == Head(queue)
<1>1. /\ queue \in Seq(Intent) /\ queue # <<>> /\ queue' = Tail(queue)
      /\ ex.at = "idle" /\ ex' = ex /\ Resume(in) /\ pc \in [Market -> LoopStates]
  BY DEF Cancel, ControlTypeOK
<1>2. queue' \in Seq(Intent) /\ Len(queue') = Len(queue) - 1 /\ in \in Intent
      /\ Len(queue) \in Nat /\ in = queue[1]
  BY <1>1, QueuedAfterReceive
<1>9. in.m \in Market /\ in.live \in BOOLEAN
  BY <1>2 DEF Intent
<1>3. Len(queue') <= QueueCap
  BY <1>2, EngineAssumption DEF ControlTypeOK, EngineAssumption
<1>4. \A m \in Market : 1 \in QueuedFor(m) <=> in.m = m /\ in.live
  BY <1>1, QueuedAfterReceive DEF QueuedFor, QueuedIn
<1>5. \A m \in Market : ~Handled(m) /\ ~Handled(m)'
  BY <1>1 DEF Handled
<1>6. in.live => pc[in.m] \in Waiting
  BY <1>9, <1>4 DEF ReplyProtocol
<1>7. /\ pc' \in [Market -> LoopStates]
      /\ in.live => pc'[in.m] \in {"pull", "idle", "quote"}
      /\ \A m \in Market : m # in.m \/ ~in.live => pc'[m] = pc[m]
  BY <1>1, <1>9, <1>6 DEF Resume, Quoting, Waiting, LoopStates
<1>8. ASSUME NEW m \in Market
      PROVE  ProtocolFor(m)'
  <2>1. /\ QueuedFor(m)' = {i \in 1..(Len(queue) - 1) : i + 1 \in QueuedFor(m)}
        /\ \A i \in QueuedFor(m) : i # 1 => i - 1 \in QueuedFor(m)'
        /\ \A i \in QueuedFor(m)' : queue'[i] = queue[i + 1]
    BY <1>1, QueuedAfterReceive DEF QueuedFor, QueuedIn
  <2>2. /\ pc[m] \in Waiting => QueuedFor(m) # {}
        /\ pc[m] \notin Waiting => QueuedFor(m) = {}
        /\ \A i, j \in QueuedFor(m) : i = j
        /\ \A i \in QueuedFor(m) : queue[i].act = Awaited(m)
    BY <1>5 DEF ReplyProtocol
  <2>3. \A i \in QueuedFor(m)' : i \in Nat /\ i # 0 /\ i + 1 \in QueuedFor(m)
    BY <2>1
  <2>4. CASE 1 \in QueuedFor(m)
    <3>1. QueuedFor(m)' = {}
      BY <2>2, <2>3, <2>4
    <3>2. pc'[m] \notin Waiting
      BY <1>4, <1>7, <2>4 DEF Waiting
    <3> QED BY <1>5, <3>1, <3>2 DEF ProtocolFor
  <2>5. CASE 1 \notin QueuedFor(m)
    <3>1. QueuedFor(m) # {} => QueuedFor(m)' # {}
      BY <2>1, <2>5
    <3>2. pc'[m] = pc[m] /\ Awaited(m)' = Awaited(m)
      BY <1>4, <1>7, <2>5 DEF Awaited
    <3>3. \A i, j \in QueuedFor(m)' : i = j
      BY <2>2, <2>3
    <3>4. \A i \in QueuedFor(m)' : queue'[i].act = Awaited(m)
      BY <2>1, <2>2, <2>3
    <3> QED BY <1>5, <2>2, <2>3, <3>1, <3>2, <3>3, <3>4 DEF ProtocolFor
  <2> QED BY <2>4, <2>5
<1> QED BY <1>2, <1>3, <1>7, <1>8 DEF ProtocolFor, ReplyProtocol

\* The deadline passes while a loop waits: its intent is orphaned.
LEMMA ContextDoneStep ==
  ASSUME ControlTypeOK, ReplyProtocol, NEW m \in Market, ContextDone(m)
  PROVE  /\ ControlTypeOK' /\ ReplyProtocol'
<1>1. /\ queue \in Seq(Intent) /\ pc \in [Market -> LoopStates]
      /\ pc[m] \in Waiting \cup {"pull"}
      /\ queue' = [i \in DOMAIN queue |->
                     [queue[i] EXCEPT !.live = @ /\ queue[i].m # m]]
      /\ ex' = [ex EXCEPT !.in.live = @ /\ ex.in.m # m]
  BY DEF ContextDone, ControlTypeOK
<1>2. \A i \in DOMAIN queue : queue[i] \in Intent
  BY <1>1
<1>3. /\ DOMAIN queue' = DOMAIN queue
      /\ \A i \in DOMAIN queue :
           /\ queue'[i] \in Intent /\ queue'[i].m = queue[i].m
           /\ queue'[i].act = queue[i].act
           /\ queue'[i].live = (queue[i].live /\ queue[i].m # m)
  BY <1>1, <1>2 DEF Intent
<1>4. queue' \in Seq(Intent) /\ Len(queue') = Len(queue)
  <2>1. DOMAIN queue = 1..Len(queue) /\ Len(queue) \in Nat
    BY <1>1
  <2>2. queue' \in [1..Len(queue) -> Intent]
    BY <1>1, <1>3, <2>1
  <2> QED BY <2>1, <2>2
<1>5. /\ ex' = [at |-> ex'.at, in |-> ex'.in, base |-> ex'.base, id |-> ex'.id, got |-> ex'.got]
      /\ ex'.at = ex.at
      /\ IF ex.at = "idle" THEN ex'.in = NoIntent
         ELSE /\ ex'.in \in Intent /\ ex'.in.m = ex.in.m /\ ex'.in.act = ex.in.act
              /\ ex'.in.live = (ex.in.live /\ ex.in.m # m)
  <2>1. /\ ex = [at |-> ex.at, in |-> ex.in, base |-> ex.base, id |-> ex.id, got |-> ex.got]
        /\ IF ex.at = "idle" THEN ex.in = NoIntent ELSE ex.in \in Intent
    BY DEF ControlTypeOK
  <2>2. ex' = [ex EXCEPT !.in = [ex.in EXCEPT !.live = @ /\ ex.in.m # m]]
    BY <1>1, <2>1
  <2>3. ex.in = NoIntent => [ex.in EXCEPT !.live = @ /\ ex.in.m # m] = NoIntent
    <3>1. (NoIntent.live /\ ex.in.m # m) = FALSE
      BY DEF NoIntent
    <3>2. [NoIntent EXCEPT !.live = FALSE] = NoIntent
      <4> DEFINE r == [act |-> "cancel", m |-> NoMarket, side |-> "Up", oid |-> 0, live |-> FALSE]
      <4>1. r = [r EXCEPT !.live = r.live]
        BY Zenon
      <4>2. r.live = FALSE
        OBVIOUS
      <4> HIDE DEF r
      <4>3. [r EXCEPT !.live = FALSE] = r
        BY <4>1, <4>2
      <4> QED BY <4>3 DEF NoIntent, r
    <3>3. ASSUME ex.in = NoIntent
          PROVE  [ex.in EXCEPT !.live = @ /\ ex.in.m # m]
                   = [NoIntent EXCEPT !.live = (NoIntent.live /\ ex.in.m # m)]
      BY <3>3
    <3> QED BY <3>1, <3>2, <3>3
  <2>4. ASSUME ex.in \in Intent
        PROVE  LET in == [ex.in EXCEPT !.live = @ /\ ex.in.m # m]
               IN  /\ in \in Intent /\ in.m = ex.in.m /\ in.act = ex.in.act
                   /\ in.live = (ex.in.live /\ ex.in.m # m)
    BY <2>4 DEF Intent
  <2>5. /\ ex' = [at |-> ex'.at, in |-> ex'.in, base |-> ex'.base, id |-> ex'.id, got |-> ex'.got]
        /\ ex'.at = ex.at
        /\ ex'.in = [ex.in EXCEPT !.live = @ /\ ex.in.m # m]
    BY <2>1, <2>2
  <2> QED BY <2>1, <2>3, <2>4, <2>5
<1>6. /\ pc' \in [Market -> LoopStates]
      /\ pc'[m] \in {"pull", "idle", "quote"}
      /\ \A n \in Market : n # m => pc'[n] = pc[n]
      /\ plan' \in [Market -> SUBSET Side] /\ pull' \in [Market -> SUBSET OrderIds]
  BY <1>1 DEF ContextDone, ControlTypeOK, Quoting, Waiting, LoopStates
<1>7. ControlTypeOK'
  BY <1>4, <1>5, <1>6 DEF ControlTypeOK
<1>8. ASSUME NEW n \in Market
      PROVE  ProtocolFor(n)'
  <2>1. CASE n = m
    <3>1. QueuedFor(m)' = {} /\ ~Handled(m)'
      BY <1>3, <1>5 DEF QueuedFor, QueuedIn, Handled
    <3> QED BY <1>6, <2>1, <3>1 DEF ProtocolFor, Waiting
  <2>2. CASE n # m
    <3>1. QueuedFor(n)' = QueuedFor(n)
      BY <1>2, <1>3, <2>2 DEF QueuedFor, QueuedIn, Intent
    <3>2. Handled(n)' <=> Handled(n)
      BY <1>5, <2>2 DEF Handled, Intent, ControlTypeOK
    <3>3. Awaited(n)' = Awaited(n) /\ pc'[n] = pc[n]
      BY <1>6, <2>2 DEF Awaited
    <3>4. \A i \in QueuedFor(n) : queue'[i].act = queue[i].act
      BY <1>3 DEF QueuedFor, QueuedIn
    <3>5. Handled(n) => ex'.in.act = ex.in.act
      BY <1>5 DEF Handled
    <3> QED BY <3>1, <3>2, <3>3, <3>4, <3>5 DEF ProtocolFor, ReplyProtocol
  <2> QED BY <2>1, <2>2
<1> QED BY <1>7, <1>8 DEF ProtocolFor, ReplyProtocol

-----------------------------------------------------------------------------
\* A mined placement adds a well-formed order at most.
LEMMA MinedTyped ==
  ASSUME VenueTypeOK, NEW in \in Intent, NEW got, NEW late \in BOOLEAN,
         PlacementMined(in, got, late)
  PROVE  book' \subseteq Order /\ placed' \in OrderIds
<1>1. placed' = placed + 1 /\ placed' \in OrderIds
  BY EngineAssumption DEF PlacementMined, VenueTypeOK, OrderIds, EngineAssumption
<1>2. [id |-> placed', m |-> in.m, side |-> in.side, rem |-> Size, late |-> late] \in Order
  BY <1>1, EngineAssumption DEF Order, Intent, EngineAssumption
<1> QED BY <1>1, <1>2 DEF PlacementMined, VenueTypeOK

\* An abandoned transaction joins the others as an intent nobody waits for.
LEMMA AbandonTyped ==
  ASSUME VenueTypeOK, NEW in \in Intent, Abandon(in)
  PROVE  mempool' \in Seq(Intent)
<1>1. [in EXCEPT !.live = FALSE] \in Intent
  BY DEF Intent
<1> QED BY <1>1 DEF Abandon, VenueTypeOK

\* The environment's types: an order keeps its id, its window and its side.
LEMMA VenueTyped == IInv /\ [Next]_vars => VenueTypeOK'
<1> SUFFICES ASSUME VenueTypeOK, ControlTypeOK, [Next]_vars
             PROVE  VenueTypeOK'
  BY DEF IInv
<1> USE DEF VenueTypeOK
<1>1. ASSUME NEW o \in book, NEW q \in 1..o.rem, CounterpartyFills(o, q)
      PROVE  VenueTypeOK'
  <2>1. o \in Order
    OBVIOUS
  <2>2. q # o.rem => [o EXCEPT !.rem = @ - q] \in Order
    BY <2>1, EngineAssumption DEF Order, EngineAssumption
  <2> QED BY <1>1, <2>1, <2>2 DEF CounterpartyFills
<1>2. ASSUME NEW o \in book, OrderAges(o)
      PROVE  VenueTypeOK'
  BY <1>2 DEF OrderAges
<1>3. ASSUME NEW m \in Market, WindowExpires(m)
      PROVE  VenueTypeOK'
  BY <1>3 DEF WindowExpires
<1>4. ASSUME Cancel
      PROVE  VenueTypeOK'
  <2>1. Head(queue) \in Intent
    BY <1>4, QueuedAfterReceive DEF Cancel, ControlTypeOK
  <2>2. mempool' \in Seq(Intent)
    BY <1>4, <2>1, AbandonTyped DEF Cancel
  <2> QED BY <1>4, <2>2 DEF Cancel, CancelMined
<1>5. ASSUME NEW got \in 0..Size, SendLands(got)
      PROVE  VenueTypeOK'
  <2>1. ex.in \in Intent /\ phase' = phase /\ mempool' = mempool
    BY <1>5 DEF SendLands, ControlTypeOK
  <2> QED BY <1>5, <2>1, MinedTyped DEF SendLands
<1>6. ASSUME SendAbandoned
      PROVE  VenueTypeOK'
  <2>1. ex.in \in Intent
    BY <1>6 DEF SendAbandoned, ControlTypeOK
  <2> QED BY <1>6, <2>1, AbandonTyped DEF SendAbandoned
<1>7. ASSUME LateMined
      PROVE  VenueTypeOK'
  <2>1. /\ mempool \in Seq(Intent) /\ mempool # <<>> /\ mempool' = Tail(mempool)
        /\ phase' = phase
    BY <1>7 DEF LateMined
  <2>2. Head(mempool) \in Intent /\ mempool' \in Seq(Intent)
    BY <2>1, QueuedAfterReceive
  <2>3. CASE CancelMined(Head(mempool).oid) \/ UNCHANGED <<book, fills, placed>>
    BY <2>1, <2>2, <2>3 DEF CancelMined
  <2>4. CASE \E got \in 0..Size : PlacementMined(Head(mempool), got, TRUE)
    BY <2>1, <2>2, <2>4, MinedTyped
  <2> QED BY <1>7, <2>3, <2>4 DEF LateMined
<1>8. ASSUME UNCHANGED <<phase, book, placed, mempool>>
      PROVE  VenueTypeOK'
  BY <1>8
<1> QED
  BY <1>1, <1>2, <1>3, <1>4, <1>5, <1>6, <1>7, <1>8
  DEF Next, Executor, Reconcile, Loop, Venue, vars, venue, Dequeue, GuardExposure,
      SendFails, ReceiptTimesOut, ReserveResting, TakeReceipt, RecordFill, IngestRow,
      IngestTrack, IngestInventory, IngestRelease, Spawn, SetupDone, SetupFails, Exit, Reap, Settle,
      Tick, TickEnds, DecideTake, DecideQuote, PullOne, PullDone, QuoteSide, ContextDone, CrashRestart

\* Loops, channel and executor: one step per action of the engine.
LEMMA ControlInductive == IInv /\ [Next]_vars => ControlTypeOK' /\ ReplyProtocol'
<1> SUFFICES ASSUME VenueTypeOK, ControlTypeOK, ReplyProtocol, [Next]_vars
             PROVE  ControlTypeOK' /\ ReplyProtocol'
  BY DEF IInv
<1>t. /\ pc \in [Market -> LoopStates]
      /\ plan \in [Market -> SUBSET Side] /\ pull \in [Market -> SUBSET OrderIds]
      /\ queue \in Seq(Intent)
      /\ ex.at # "idle" => ex.in \in Intent
  BY DEF ControlTypeOK
<1>a. CASE Dequeue
  <2>1. /\ ex' = [IdleEx EXCEPT !.at = "check", !.in = Head(queue),
                                !.base = AssetExposure(AssetOf[Head(queue).m])]
        /\ pc' = pc /\ plan' = plan /\ pull' = pull
    BY <1>a DEF Dequeue, loops
  <2>2. ex' = [at |-> ex'.at, in |-> ex'.in, base |-> ex'.base, id |-> ex'.id, got |-> ex'.got]
    BY <2>1 DEF IdleEx
  <2> QED BY <1>a, <2>1, <2>2, DequeueStep DEF ControlTypeOK, ExStates
<1>b. CASE Cancel
  <2>1. ex' = ex /\ pull' = pull /\ plan' = plan
    BY <1>b DEF Cancel, Resume
  <2> QED BY <1>b, <2>1, CancelStep DEF ControlTypeOK
<1>c. ASSUME Reply, ex.at # "idle", UNCHANGED <<pull, queue>>
      PROVE  ControlTypeOK' /\ ReplyProtocol'
  <2>1. plan' = plan /\ ex' = IdleEx
    BY <1>c DEF Reply, Resume
  <2>2. /\ ex' = [at |-> ex'.at, in |-> ex'.in, base |-> ex'.base, id |-> ex'.id, got |-> ex'.got]
        /\ ex'.at = "idle" /\ ex'.in = NoIntent
    BY <2>1 DEF IdleEx
  <2> QED BY <1>c, <2>1, <2>2, ReplyStep DEF ControlTypeOK, ExStates
<1>d. ASSUME UNCHANGED <<pc, plan, pull, queue>>, ex.at # "idle",
             NEW base, NEW id, NEW got, NEW at \in ExStates \ {"idle"},
             ex' = [at |-> at, in |-> ex.in, base |-> base, id |-> id, got |-> got]
      PROVE  ControlTypeOK' /\ ReplyProtocol'
  <2>1. ex'.at = at /\ ex'.in = ex.in
    BY <1>d
  <2>2. ex' = [at |-> ex'.at, in |-> ex'.in, base |-> ex'.base, id |-> ex'.id, got |-> ex'.got]
    BY <1>d
  <2> QED BY <1>d, <2>1, <2>2, HandlingStep DEF ControlTypeOK
<1>e. CASE GuardExposure
  <2>1. ex.at # "idle" /\ UNCHANGED <<pull, queue>>
    BY <1>e DEF GuardExposure
  <2>2. CASE Reply
    BY <1>c, <2>1, <2>2
  <2>3. CASE ex' = [ex EXCEPT !.at = "send"] /\ UNCHANGED <<pc, plan>>
    <3>1. ex' = [at |-> "send", in |-> ex.in, base |-> ex.base, id |-> ex.id, got |-> ex.got]
      BY <2>3 DEF ControlTypeOK
    <3> QED BY <1>d, <2>1, <2>3, <3>1 DEF ExStates
  <2> QED BY <1>e, <2>2, <2>3 DEF GuardExposure
<1>f. CASE SendFails \/ SendAbandoned \/ ReceiptTimesOut \/ ReserveResting \/ RecordFill
  BY <1>f, <1>c DEF SendFails, SendAbandoned, ReceiptTimesOut, ReserveResting, RecordFill
<1>g. ASSUME NEW got \in 0..Size, SendLands(got)
      PROVE  ControlTypeOK' /\ ReplyProtocol'
  <2>1. ex' = [ex EXCEPT !.at = "receipt", !.id = Cardinality(fills'), !.got = got]
        /\ ex.at # "idle" /\ UNCHANGED <<pc, plan, pull, queue>>
    BY <1>g DEF SendLands, loops
  <2>2. ex' = [at |-> "receipt", in |-> ex.in, base |-> ex.base,
               id |-> Cardinality(fills'), got |-> got]
    BY <2>1 DEF ControlTypeOK
  <2> QED BY <1>d, <2>1, <2>2 DEF ExStates
<1>h. CASE TakeReceipt
  <2>1. ex.at # "idle" /\ UNCHANGED <<pull, queue>>
    BY <1>h DEF TakeReceipt
  <2>2. CASE Reply
    BY <1>c, <2>1, <2>2
  <2>3. CASE ex' = [ex EXCEPT !.at = "row"] /\ UNCHANGED <<pc, plan>>
    <3>1. ex' = [at |-> "row", in |-> ex.in, base |-> ex.base, id |-> ex.id, got |-> ex.got]
      BY <2>3 DEF ControlTypeOK
    <3> QED BY <1>d, <2>1, <2>3, <3>1 DEF ExStates
  <2> QED BY <1>h, <2>2, <2>3 DEF TakeReceipt
\* Steps of the loops.
<1>i. ASSUME NEW m \in Market, NEW to \in {"setup", "idle", "tick", "off", "settling", "pull", "quote"},
             pc[m] \notin Waiting, pc' = [pc EXCEPT ![m] = to], UNCHANGED <<queue, ex>>,
             plan' \in [Market -> SUBSET Side], pull' \in [Market -> SUBSET OrderIds]
      PROVE  ControlTypeOK' /\ ReplyProtocol'
  <2>1. pc' \in [Market -> LoopStates]
    BY <1>t, <1>i DEF LoopStates
  <2>2. \A n \in Market : \/ pc'[n] = pc[n]
                          \/ pc[n] \notin Waiting /\ pc'[n] \notin Waiting
    BY <1>t, <1>i DEF Waiting
  <2>3. ReplyProtocol'
    BY <1>i, <2>2, QuietStep
  <2> QED BY <1>i, <2>1, <2>3 DEF ControlTypeOK
<1>j. ASSUME NEW m \in Market, Spawn(m) \/ SetupDone(m) \/ SetupFails(m) \/ Settle(m)
      PROVE  ControlTypeOK' /\ ReplyProtocol'
  BY <1>t, <1>i, <1>j DEF Spawn, SetupDone, SetupFails, Reap, Settle, Waiting
<1>k. ASSUME NEW m \in Market, Exit(m)
      PROVE  ControlTypeOK' /\ ReplyProtocol'
  <2>1. \E to \in {"settling", "off"} : pc' = [pc EXCEPT ![m] = to]
    BY <1>k DEF Exit
  <2> QED BY <1>t, <1>i, <1>k, <2>1 DEF Exit, Reap, Waiting
<1>y. ASSUME NEW m \in Market, Tick(m) \/ TickEnds(m)
      PROVE  ControlTypeOK' /\ ReplyProtocol'
  <2>1. OpenSides(m) \in SUBSET Side
    BY DEF OpenSides, Side
  <2>2. plan' \in [Market -> SUBSET Side]
    BY <1>t, <1>y, <2>1 DEF Tick, TickEnds
  <2> QED BY <1>t, <1>i, <1>y, <2>2 DEF Tick, TickEnds, Waiting
<1>l. ASSUME NEW m \in Market, NEW sides \in {plan[m], {}}, DecideQuote(m, sides)
      PROVE  ControlTypeOK' /\ ReplyProtocol'
  <2>1. sides \in SUBSET Side
    BY <1>t, <1>l
  <2>2. \E ids \in SUBSET OrderIds : pull' = [pull EXCEPT ![m] = ids]
    <3>1. {o.id : o \in {b \in book : b.m = m}} \in SUBSET OrderIds
      BY DEF VenueTypeOK, Order
    <3> QED BY <1>l, <3>1 DEF DecideQuote
  <2>3. plan' \in [Market -> SUBSET Side] /\ pull' \in [Market -> SUBSET OrderIds]
    BY <1>t, <1>l, <2>1, <2>2 DEF DecideQuote
  <2> QED BY <1>i, <1>l, <2>3 DEF DecideQuote, Waiting
<1>m. ASSUME NEW m \in Market, PullDone(m)
      PROVE  ControlTypeOK' /\ ReplyProtocol'
  <2>1. \E to \in {"idle", "quote"} : pc' = [pc EXCEPT ![m] = to]
    BY <1>m DEF PullDone, Quoting
  <2> QED BY <1>t, <1>i, <1>m, <2>1 DEF PullDone, Waiting
<1>n. ASSUME NEW m \in Market, NEW act \in {"make", "take", "cancel"},
             NEW side \in Side, NEW oid \in OrderIds, NEW w \in Waiting,
             Emit(act, m, side, oid), Room, pc[m] \notin Waiting,
             pc' = [pc EXCEPT ![m] = w], ex' = ex,
             act = CASE w = "cancelling" -> "cancel" [] w = "making" -> "make" [] OTHER -> "take",
             plan' \in [Market -> SUBSET Side], pull' \in [Market -> SUBSET OrderIds]
      PROVE  ControlTypeOK' /\ ReplyProtocol'
  <2>1. /\ pc' \in [Market -> LoopStates]
        /\ queue' \in Seq(Intent) /\ Len(queue') <= QueueCap
        /\ ReplyProtocol'
    BY <1>n, SendStep
  <2> QED BY <1>n, <2>1 DEF ControlTypeOK
<1>o. ASSUME NEW m \in Market, NEW s \in plan[m], DecideTake(m, s)
      PROVE  ControlTypeOK' /\ ReplyProtocol'
  <2>1. /\ Emit("take", m, s, 0) /\ Room /\ pc' = [pc EXCEPT ![m] = "taking"]
        /\ pc[m] = "tick" /\ ex' = ex /\ pull' = pull /\ s \in Side
        /\ plan' \in [Market -> SUBSET Side]
    BY <1>t, <1>o DEF DecideTake
  <2>2. pc[m] \notin Waiting /\ "taking" \in Waiting /\ 0 \in OrderIds
    BY <2>1, EngineAssumption DEF Waiting, OrderIds, EngineAssumption
  <2> QED BY <1>t, <1>n, <2>1, <2>2
<1>p. ASSUME NEW m \in Market, NEW id \in pull[m], PullOne(m, id)
      PROVE  ControlTypeOK' /\ ReplyProtocol'
  <2>1. id \in OrderIds /\ pull' \in [Market -> SUBSET OrderIds] /\ plan' = plan
    BY <1>t, <1>p DEF PullOne
  <2> QED BY <1>t, <1>n, <1>p, <2>1 DEF PullOne, Waiting, Side
<1>q. ASSUME NEW m \in Market, NEW s \in Side, QuoteSide(m, s)
      PROVE  ControlTypeOK' /\ ReplyProtocol'
  <2>1. /\ plan' \in [Market -> SUBSET Side] /\ pull' = pull /\ ex' = ex
        /\ pc[m] \notin Waiting
    BY <1>t, <1>q DEF QuoteSide, Waiting
  <2>2. CASE Room /\ Emit("make", m, s, 0) /\ pc' = [pc EXCEPT ![m] = "making"]
    <3>1. "making" \in Waiting /\ 0 \in OrderIds
      BY EngineAssumption DEF Waiting, OrderIds, EngineAssumption
    <3> QED BY <1>t, <1>n, <2>1, <2>2, <3>1
  <2>3. CASE UNCHANGED queue /\ pc' = [pc EXCEPT ![m] = Quoting(m)]
    <3>1. Quoting(m) \in {"idle", "quote"}
      BY DEF Quoting
    <3> QED BY <1>t, <1>i, <2>1, <2>3, <3>1
  <2> QED BY <1>q, <2>2, <2>3 DEF QuoteSide
<1>r. ASSUME NEW m \in Market, ContextDone(m)
      PROVE  ControlTypeOK' /\ ReplyProtocol'
  BY <1>r, ContextDoneStep
<1>s. CASE CrashRestart
  <2>1. /\ queue' = <<>> /\ ex' = IdleEx /\ pc' = [m \in Market |-> "off"]
        /\ plan' = [m \in Market |-> {}] /\ pull' = [m \in Market |-> {}]
    BY <1>s DEF CrashRestart
  <2> QED
    BY <2>1, EngineAssumption
    DEF ControlTypeOK, ReplyProtocol, Handled, QueuedFor, QueuedIn, IdleEx, NoIntent,
        Waiting, LoopStates, ExStates, EngineAssumption
<1>u. CASE UNCHANGED <<pc, plan, pull, queue, ex>>
  BY <1>u, QuietStep DEF ControlTypeOK
<1>v. CASE Reconcile \/ Venue \/ UNCHANGED vars
  BY <1>u, <1>v
  DEF Reconcile, IngestRow, IngestTrack, IngestInventory, IngestRelease, Venue, OrderAges,
      CounterpartyFills, WindowExpires, LateMined, vars, loops
<1>w. CASE Executor
  BY <1>a, <1>b, <1>e, <1>f, <1>g, <1>h, <1>w DEF Executor
<1>x. ASSUME NEW m \in Market, Loop(m)
      PROVE  ControlTypeOK' /\ ReplyProtocol'
  BY <1>j, <1>k, <1>l, <1>m, <1>o, <1>p, <1>q, <1>r, <1>x, <1>y DEF Loop
<1> QED BY <1>j, <1>s, <1>v, <1>w, <1>x DEF Next
-----------------------------------------------------------------------------
LEMMA IInvHolds == Spec => []IInv
<1>1. Init => IInv
  BY EngineAssumption
  DEF Init, IInv, VenueTypeOK, ControlTypeOK, ReplyProtocol, Handled, QueuedFor, QueuedIn,
      IdleEx, NoIntent, Waiting, LoopStates, ExStates, OrderIds, EngineAssumption
<1>2. IInv /\ [Next]_vars => IInv'
  BY VenueTyped, ControlInductive DEF IInv
<1> QED BY <1>1, <1>2, PTL DEF Spec

\* Whatever the environment does, crashes included, every waiting loop has one
\* intent under way and it is the one whose reply it expects: no reply is lost
\* and none goes to a loop that has moved on (engine.go:590-640, 681-787).
THEOREM RepliesReachTheirLoop == Spec => []ReplyProtocol
<1>1. IInv => ReplyProtocol
  BY DEF IInv
<1> QED BY <1>1, IInvHolds, PTL

\* The channel never holds more than its capacity, the executor only handles
\* intents that loops sent, and loops, plans and cancel lists are well formed.
THEOREM ControlTyped == Spec => [](VenueTypeOK /\ ControlTypeOK)
<1>1. IInv => VenueTypeOK /\ ControlTypeOK
  BY DEF IInv
<1> QED BY <1>1, IInvHolds, PTL
-----------------------------------------------------------------------------
(***************************************************************************)
(* One order per side.  Memory is not asked what rests: the loop reads the *)
(* pool, cancels what it read and only then posts.  The invariant follows  *)
(* each order through that: it is still to be cancelled while its loop     *)
(* pulls, and nothing is on its way to its side while its loop quotes.     *)
(***************************************************************************)
CancelPending(id) == \E in \in Range(mempool) : in.act = "cancel" /\ in.oid = id
CancelQueued(m, id) == \E in \in Range(queue) : in.m = m /\ in.act = "cancel" /\ in.oid = id
OnItsWay(m, s) ==
  \/ \E in \in Range(queue) : in.m = m /\ in.act = "make" /\ in.side = s
  \/ ex.at \in {"check", "send"} /\ ex.in.m = m /\ ex.in.act = "make" /\ ex.in.side = s

\* A loop of a window still trading has not stopped waiting for its intent.
LiveInv ==
  \A m \in Market : phase[m] = "trading" =>
    /\ \A in \in Range(queue) : in.m = m => in.live
    /\ ex.at # "idle" /\ ex.in.m = m => ex.in.live
PlanInv ==
  \A m \in Market : phase[m] = "trading" => \A s \in Side : OnItsWay(m, s) => s \notin plan[m]

Pulling == {"pull", "cancelling"}
Posting == {"quote", "making"}
Sought(m, id) == CancelPending(id) \/ id \in pull[m] \/ CancelQueued(m, id)
OrderInv(id, m, s, late) ==
  /\ phase[m] = "trading"
  /\ pc[m] \in Pulling => late \/ Sought(m, id)
  /\ pc[m] \in Posting => late \/ CancelPending(id) \/ (s \notin plan[m] /\ ~OnItsWay(m, s))
BookInv ==
  /\ OneOrderPerSide
  /\ \A o \in book : OrderInv(o.id, o.m, o.side, o.late)

LEMMA RangeAfterSend ==
  ASSUME NEW T, NEW q \in Seq(T), NEW in \in T
  PROVE  Range(Append(q, in)) = Range(q) \cup {in}
<1>1. /\ DOMAIN Append(q, in) = 1..(Len(q) + 1) /\ Append(q, in)[Len(q) + 1] = in
      /\ \A i \in 1..Len(q) : Append(q, in)[i] = q[i]
      /\ DOMAIN q = 1..Len(q) /\ Len(q) \in Nat
  OBVIOUS
<1>2. Range(Append(q, in)) \subseteq Range(q) \cup {in}
  BY <1>1 DEF Range
<1>3. in \in Range(Append(q, in))
  BY <1>1 DEF Range
<1>4. Range(q) \subseteq Range(Append(q, in))
  BY <1>1 DEF Range
<1> QED BY <1>2, <1>3, <1>4

LEMMA RangeAfterReceive ==
  ASSUME NEW T, NEW q \in Seq(T), q # <<>>
  PROVE  Range(q) = Range(Tail(q)) \cup {Head(q)}
<1>1. /\ DOMAIN Tail(q) = 1..(Len(q) - 1) /\ Head(q) = q[1]
      /\ \A i \in 1..(Len(q) - 1) : Tail(q)[i] = q[i + 1]
      /\ DOMAIN q = 1..Len(q) /\ Len(q) \in Nat \ {0}
  BY HeadTailProperties, EmptySeq
<1>2. Range(Tail(q)) \subseteq Range(q)
  BY <1>1 DEF Range
<1>3. Head(q) \in Range(q)
  BY <1>1 DEF Range
<1>4. ASSUME NEW i \in DOMAIN q, i # 1
      PROVE  q[i] \in Range(Tail(q))
  <2>1. i - 1 \in DOMAIN Tail(q) /\ Tail(q)[i - 1] = q[i]
    BY <1>1, <1>4
  <2> QED BY <2>1 DEF Range
<1>5. Range(q) \subseteq Range(Tail(q)) \cup {Head(q)}
  BY <1>1, <1>4 DEF Range
<1> QED BY <1>2, <1>3, <1>5

LEMMA Sent ==
  ASSUME queue \in Seq(Intent), NEW m \in Market, NEW act \in {"make", "take", "cancel"},
         NEW side \in Side, NEW oid \in OrderIds, Emit(act, m, side, oid)
  PROVE  Range(queue)' = Range(queue) \cup {[act |-> act, m |-> m, side |-> side, oid |-> oid,
                                            live |-> TRUE]}
<1> DEFINE new == [act |-> act, m |-> m, side |-> side, oid |-> oid, live |-> TRUE]
<1>1. new \in Intent /\ queue' = Append(queue, new)
  BY DEF Intent, Emit, OrderIds
<1> HIDE DEF new
<1>2. Range(Append(queue, new)) = Range(queue) \cup {new}
  BY <1>1, RangeAfterSend
<1> QED BY <1>1, <1>2 DEF new

LEMMA RangeTyped ==
  ASSUME NEW T, NEW q \in Seq(T)
  PROVE  Range(q) \subseteq T
BY DEF Range

\* The fields of the executor's record after a step of its own.
LEMMA Advanced ==
  ASSUME ControlTypeOK, NEW at, ex' = [ex EXCEPT !.at = at]
  PROVE  /\ ex'.at = at /\ ex'.in = ex.in /\ ex'.base = ex.base
         /\ ex'.id = ex.id /\ ex'.got = ex.got
<1>1. ex' = [at |-> at, in |-> ex.in, base |-> ex.base, id |-> ex.id, got |-> ex.got]
  BY DEF ControlTypeOK
<1> QED BY <1>1

LEMMA Landed ==
  ASSUME ControlTypeOK, NEW got, SendLands(got)
  PROVE  /\ ex'.at = "receipt" /\ ex'.in = ex.in /\ ex'.base = ex.base
         /\ ex'.id = Cardinality(fills') /\ ex'.got = got
<1>1. ex' = [at |-> "receipt", in |-> ex.in, base |-> ex.base,
             id |-> Cardinality(fills'), got |-> got]
  BY DEF ControlTypeOK, SendLands
<1> QED BY <1>1

\* What a finished context leaves of the intents under way: all but that somebody
\* waits for them.
SameBut(in, old, m) ==
  /\ in.m = old.m /\ in.act = old.act /\ in.side = old.side /\ in.oid = old.oid
  /\ in.live <=> old.live /\ old.m # m
LEMMA Orphaned ==
  ASSUME ControlTypeOK, NEW m \in Market, ContextDone(m)
  PROVE  /\ phase[m] = "expired" /\ UNCHANGED <<phase, book, mempool>>
         /\ pc[m] \in Waiting \cup {"pull"}
         /\ \A n \in Market : n # m => pc'[n] = pc[n] /\ plan'[n] = plan[n] /\ pull'[n] = pull[n]
         /\ ex'.at = ex.at /\ ex'.base = ex.base /\ ex'.id = ex.id /\ ex'.got = ex.got
         /\ ex.at # "idle" => SameBut(ex'.in, ex.in, m)
         /\ \A in \in Range(queue') : \E old \in Range(queue) : SameBut(in, old, m)
         /\ \A old \in Range(queue) : \E in \in Range(queue') : SameBut(in, old, m)
<1>1. /\ queue \in Seq(Intent) /\ phase[m] = "expired"
      /\ queue' = [i \in DOMAIN queue |-> [queue[i] EXCEPT !.live = @ /\ queue[i].m # m]]
      /\ ex' = [ex EXCEPT !.in.live = @ /\ ex.in.m # m]
      /\ ex = [at |-> ex.at, in |-> ex.in, base |-> ex.base, id |-> ex.id, got |-> ex.got]
      /\ pc[m] \in Waiting \cup {"pull"} /\ UNCHANGED <<phase, book, mempool>>
      /\ \A n \in Market : n # m => pc'[n] = pc[n] /\ plan'[n] = plan[n] /\ pull'[n] = pull[n]
  BY DEF ContextDone, ControlTypeOK, venue
<1>2. ASSUME NEW old \in Intent
      PROVE  SameBut([old EXCEPT !.live = @ /\ old.m # m], old, m)
  BY DEF Intent, SameBut
<1>3. /\ DOMAIN queue' = DOMAIN queue
      /\ \A i \in DOMAIN queue : SameBut(queue'[i], queue[i], m)
  BY <1>1, <1>2
<1>4. /\ \A in \in Range(queue') : \E old \in Range(queue) : SameBut(in, old, m)
      /\ \A old \in Range(queue) : \E in \in Range(queue') : SameBut(in, old, m)
  BY <1>3 DEF Range
<1>5. /\ ex'.at = ex.at /\ ex'.base = ex.base /\ ex'.id = ex.id /\ ex'.got = ex.got
      /\ ex'.in = [ex.in EXCEPT !.live = @ /\ ex.in.m # m]
  <2>1. ex' = [ex EXCEPT !.in = [ex.in EXCEPT !.live = @ /\ ex.in.m # m]]
    BY <1>1
  <2>2. ex' = [at |-> ex.at, in |-> [ex.in EXCEPT !.live = @ /\ ex.in.m # m],
               base |-> ex.base, id |-> ex.id, got |-> ex.got]
    BY <1>1, <2>1
  <2> QED BY <2>2
<1>6. ex.at # "idle" => ex.in \in Intent
  BY DEF ControlTypeOK
<1> QED BY <1>1, <1>2, <1>4, <1>5, <1>6

\* A live intent of a loop is one it waits for, of the kind it waits for.
LEMMA LiveIsAwaited ==
  ASSUME ControlTypeOK, ReplyProtocol, NEW m \in Market
  PROVE  /\ \A in \in Range(queue) : in.m = m /\ in.live => pc[m] \in Waiting /\ in.act = Awaited(m)
         /\ ex.at # "idle" /\ ex.in.m = m /\ ex.in.live
              => pc[m] \in Waiting /\ ex.in.act = Awaited(m) /\ QueuedFor(m) = {}
<1>1. ASSUME NEW i \in DOMAIN queue, queue[i].m = m, queue[i].live
      PROVE  pc[m] \in Waiting /\ queue[i].act = Awaited(m)
  BY <1>1 DEF ReplyProtocol, QueuedFor, QueuedIn
<1>2. ASSUME ex.at # "idle", ex.in.m = m, ex.in.live
      PROVE  pc[m] \in Waiting /\ ex.in.act = Awaited(m) /\ QueuedFor(m) = {}
  BY <1>2 DEF ReplyProtocol, Handled
<1> QED BY <1>1, <1>2 DEF Range

LEMMA LiveInductive == IInv /\ LiveInv /\ [Next]_vars => LiveInv'
<1> SUFFICES ASSUME IInv, LiveInv, [Next]_vars
             PROVE  LiveInv'
  OBVIOUS
<1>t. queue \in Seq(Intent) /\ phase \in [Market -> {"trading", "expired"}]
  BY DEF IInv, ControlTypeOK, VenueTypeOK
\* What is sent and held after the step was sent or held before.
<1>q. ASSUME \A m \in Market : phase'[m] = "trading" => phase[m] = "trading",
             \A in \in Range(queue)' : in \in Range(queue) \/ in.live,
             \/ ex'.at = "idle"
             \/ ex'.in \in Range(queue)
             \/ ex'.in = ex.in /\ ex.at # "idle"
      PROVE  LiveInv'
  BY <1>q DEF LiveInv
<1>1. CASE Dequeue
  <2>1. queue # <<>> /\ queue' = Tail(queue) /\ phase' = phase /\ ex'.in = Head(queue)
    BY <1>1 DEF Dequeue, venue, IdleEx
  <2>2. Range(queue)' \subseteq Range(queue) /\ ex'.in \in Range(queue)
    BY <1>t, <2>1, RangeAfterReceive
  <2> QED BY <1>q, <2>1, <2>2
<1>2. CASE Cancel
  <2>1. queue # <<>> /\ queue' = Tail(queue) /\ phase' = phase /\ ex' = ex
    BY <1>2 DEF Cancel
  <2>2. Range(queue)' \subseteq Range(queue)
    BY <1>t, <2>1, RangeAfterReceive
  <2> QED BY <1>q, <2>1, <2>2
<1>3. ASSUME NEW m \in Market, ContextDone(m)
      PROVE  LiveInv'
  <2>1. /\ phase' = phase /\ phase[m] = "expired" /\ ex'.at = ex.at
        /\ ex.at # "idle" => SameBut(ex'.in, ex.in, m)
        /\ \A in \in Range(queue') : \E old \in Range(queue) : SameBut(in, old, m)
    BY <1>3, Orphaned DEF IInv
  <2>2. ASSUME NEW n \in Market, phase[n] = "trading", NEW in \in Range(queue'), in.m = n
        PROVE  in.live
    BY <2>1, <2>2 DEF LiveInv, SameBut
  <2> QED BY <2>1, <2>2 DEF LiveInv, SameBut
<1>4. ASSUME NEW m \in Market, NEW act \in {"make", "take", "cancel"},
             NEW side \in Side, NEW oid \in OrderIds,
             Emit(act, m, side, oid), ex' = ex, phase' = phase
      PROVE  LiveInv'
  BY <1>q, <1>t, <1>4, Sent
<1>5. ASSUME NEW m \in Market, NEW s \in plan[m], DecideTake(m, s)
      PROVE  LiveInv'
  <2>1. s \in Side /\ 0 \in OrderIds
    BY EngineAssumption DEF IInv, ControlTypeOK, OrderIds, EngineAssumption
  <2> QED BY <1>4, <1>5, <2>1 DEF DecideTake, venue
<1>6. ASSUME NEW m \in Market, NEW id \in pull[m], PullOne(m, id)
      PROVE  LiveInv'
  <2>1. id \in OrderIds /\ "Up" \in Side
    BY DEF IInv, ControlTypeOK, Side
  <2> QED BY <1>4, <1>6, <2>1 DEF PullOne, venue
<1>7. ASSUME NEW m \in Market, NEW s \in Side, QuoteSide(m, s)
      PROVE  LiveInv'
  <2>1. 0 \in OrderIds /\ phase' = phase /\ ex' = ex
    BY <1>7, EngineAssumption DEF QuoteSide, venue, OrderIds, EngineAssumption
  <2>2. CASE queue' = queue
    BY <1>q, <2>1, <2>2
  <2> QED BY <1>4, <1>7, <2>1, <2>2 DEF QuoteSide
<1>8. CASE CrashRestart
  <2>1. Range(queue)' = {} /\ ex'.at = "idle" /\ phase' = phase
    BY <1>8 DEF CrashRestart, Range, IdleEx, venue
  <2> QED BY <1>q, <2>1
<1>9. ASSUME UNCHANGED <<phase, queue>>, Reply
      PROVE  LiveInv'
  BY <1>q, <1>9 DEF Reply, IdleEx
<1>10. CASE SendFails \/ SendAbandoned \/ ReceiptTimesOut \/ ReserveResting \/ RecordFill
  BY <1>9, <1>10
  DEF SendFails, SendAbandoned, ReceiptTimesOut, ReserveResting, RecordFill, venue
<1>11. ASSUME NEW got \in 0..Size, SendLands(got) \/ GuardExposure \/ TakeReceipt
       PROVE  LiveInv'
  <2>1. UNCHANGED <<phase, queue>> /\ ex.at # "idle"
    BY <1>11 DEF SendLands, GuardExposure, TakeReceipt, venue
  <2>2. Reply \/ ex'.in = ex.in
    BY <1>11 DEF SendLands, GuardExposure, TakeReceipt, IInv, ControlTypeOK
  <2> QED BY <1>q, <1>9, <2>1, <2>2
<1>12. CASE UNCHANGED <<phase, queue, ex>>
  BY <1>q, <1>12
<1>13. ASSUME NEW m \in Market, WindowExpires(m)
       PROVE  LiveInv'
  BY <1>q, <1>t, <1>13 DEF WindowExpires
<1>14. CASE \/ Reconcile \/ LateMined \/ UNCHANGED vars
            \/ \E o \in book : OrderAges(o) \/ \E q \in 1..o.rem : CounterpartyFills(o, q)
            \/ \E m \in Market : Spawn(m) \/ Settle(m)
  BY <1>12, <1>14
  DEF Reconcile, IngestRow, IngestTrack, IngestInventory, IngestRelease, LateMined, OrderAges,
      CounterpartyFills, Spawn, Settle, vars, venue
<1>15. ASSUME NEW m \in Market, Loop(m), ~ContextDone(m),
              ~\E s \in plan[m] : DecideTake(m, s), ~\E id \in pull[m] : PullOne(m, id),
              ~\E s \in Side : QuoteSide(m, s)
       PROVE  LiveInv'
  BY <1>12, <1>15
  DEF Loop, SetupDone, SetupFails, Reap, Tick, TickEnds, DecideQuote, PullDone, Exit, venue
<1>16. 0 \in 0..Size
  BY EngineAssumption DEF EngineAssumption
<1> QED
  BY <1>1, <1>2, <1>3, <1>5, <1>6, <1>7, <1>8, <1>10, <1>11, <1>13, <1>14, <1>15, <1>16
  DEF Next, Executor, Venue
-----------------------------------------------------------------------------
\* A loop that does not wait has nothing in the queue and nothing in hand.
LEMMA Silent ==
  ASSUME IInv, LiveInv, NEW m \in Market, phase[m] = "trading", pc[m] \notin Waiting
  PROVE  /\ \A in \in Range(queue) : in.m # m
         /\ ex.at # "idle" => ex.in.m # m
         /\ \A s, id : ~OnItsWay(m, s) /\ ~CancelQueued(m, id)
<1>1. /\ \A in \in Range(queue) : in.m # m
      /\ ex.at # "idle" => ex.in.m # m
  BY LiveIsAwaited DEF IInv, LiveInv
<1> QED BY <1>1 DEF OnItsWay, CancelQueued

\* What a step may do to a window without an order of it noticing.
CalmPlan(m) ==
  phase'[m] = "trading" =>
    /\ phase[m] = "trading"
    /\ \A s \in Side : s \in plan'[m] /\ OnItsWay(m, s)' => s \in plan[m] /\ OnItsWay(m, s)
CalmOrder(m, id, s) ==
  phase[m] = "trading" =>
    /\ phase'[m] = "trading"
    /\ pc'[m] \in Pulling => pc[m] \in Pulling /\ (Sought(m, id) => Sought(m, id)')
    /\ pc'[m] \in Posting =>
         /\ pc[m] \in Posting /\ (CancelPending(id) => CancelPending(id)')
         /\ s \in plan'[m] => s \in plan[m]
         /\ OnItsWay(m, s)' => OnItsWay(m, s)

LEMMA BookKept ==
  ASSUME PlanInv, BookInv, OneOrderPerSide', \A m \in Market : CalmPlan(m),
         \A p \in book' : \/ OrderInv(p.id, p.m, p.side, p.late)'
                          \/ /\ CalmOrder(p.m, p.id, p.side)
                             /\ \E o \in book : /\ o.id = p.id /\ o.m = p.m
                                                /\ o.side = p.side /\ o.late = p.late
  PROVE  PlanInv' /\ BookInv'
<1>1. PlanInv'
  BY DEF PlanInv, CalmPlan
<1>2. ASSUME NEW p \in book'
      PROVE  OrderInv(p.id, p.m, p.side, p.late)'
  <2>1. CASE OrderInv(p.id, p.m, p.side, p.late)'
    BY <2>1
  <2>2. CASE CalmOrder(p.m, p.id, p.side) /\ OrderInv(p.id, p.m, p.side, p.late)
    BY <2>2 DEF CalmOrder, OrderInv
  <2> QED BY <1>2, <2>1, <2>2 DEF BookInv
<1> QED BY <1>1, <1>2 DEF BookInv

\* A reply moves its loop on in the order of the tick.
LEMMA Resumed ==
  ASSUME pc \in [Market -> LoopStates], NEW in, in.live => in.m \in Market, Resume(in)
  PROVE  /\ plan' = plan
         /\ \A m \in Market : \/ pc'[m] = pc[m]
                              \/ pc[m] = "making" /\ pc'[m] = "quote"
                              \/ pc[m] = "cancelling" /\ pc'[m] = "pull"
                              \/ pc'[m] \notin Pulling \cup Posting
<1>1. Quoting(in.m) \in {"idle", "quote"}
  BY DEF Quoting
<1>2. CASE ~in.live
  BY <1>2 DEF Resume
<1>3. CASE in.live
  <2>1. pc' = [pc EXCEPT ![in.m] = CASE @ = "cancelling" -> "pull"
                                     [] @ = "making" -> Quoting(in.m)
                                     [] OTHER -> "idle"]
    BY <1>3 DEF Resume
  <2> QED BY <1>1, <1>3, <2>1 DEF Resume, Pulling, Posting
<1> QED BY <1>2, <1>3 DEF Intent

\* What waits to be mined still waits when another transaction joins it.
LEMMA PendingAfterAbandon ==
  ASSUME mempool \in Seq(Intent), NEW in \in Intent, Abandon(in)
  PROVE  /\ \A id : CancelPending(id) => CancelPending(id)'
         /\ in.act = "cancel" => CancelPending(in.oid)'
<1> DEFINE left == [in EXCEPT !.live = FALSE]
<1>1. left \in Intent /\ left.act = in.act /\ left.oid = in.oid
  BY DEF Intent
<1>2. mempool' = Append(mempool, left)
  BY DEF Abandon
<1> HIDE DEF left
<1>3. Range(mempool)' = Range(mempool) \cup {left}
  BY <1>1, <1>2, RangeAfterSend
<1> QED BY <1>1, <1>3 DEF CancelPending

LEMMA BookInductive ==
  ASSUME "cancelFail" \notin Env
  PROVE  IInv /\ LiveInv /\ PlanInv /\ BookInv /\ [Next]_vars => PlanInv' /\ BookInv'
<1> SUFFICES ASSUME IInv, LiveInv, PlanInv, BookInv, [Next]_vars
             PROVE  PlanInv' /\ BookInv'
  OBVIOUS
<1>t. /\ queue \in Seq(Intent) /\ mempool \in Seq(Intent)
      /\ pc \in [Market -> LoopStates] /\ plan \in [Market -> SUBSET Side]
      /\ pull \in [Market -> SUBSET OrderIds]
      /\ phase \in [Market -> {"trading", "expired"}]
      /\ \A o \in book : o \in Order /\ o.id \in OrderIds /\ o.m \in Market /\ o.side \in Side
      /\ ex.at # "idle" => ex.in \in Intent /\ ex.in.m \in Market
  BY DEF IInv, ControlTypeOK, VenueTypeOK, Order, Intent
\* The orders stay, or some of them go.
<1>k. ASSUME book' \subseteq book, \A m \in Market : CalmPlan(m),
             \A o \in book' : CalmOrder(o.m, o.id, o.side)
      PROVE  PlanInv' /\ BookInv'
  <2>1. OneOrderPerSide'
    BY <1>k DEF BookInv, OneOrderPerSide
  <2> QED BY <1>k, <2>1, BookKept
\* Only loops move, and not towards pulling or posting.
<1>q. ASSUME UNCHANGED <<phase, book, plan, pull>>,
             \A id : CancelPending(id) => CancelPending(id)',
             \A m \in Market, s \in Side : OnItsWay(m, s)' => OnItsWay(m, s),
             \A m \in Market, id \in OrderIds : CancelQueued(m, id) => CancelQueued(m, id)',
             \A m \in Market : \/ pc'[m] = pc[m]
                               \/ pc[m] = "making" /\ pc'[m] = "quote"
                               \/ pc[m] = "cancelling" /\ pc'[m] = "pull"
                               \/ pc'[m] \notin Pulling \cup Posting
      PROVE  PlanInv' /\ BookInv'
  <2>1. \A m \in Market : CalmPlan(m)
    BY <1>q DEF CalmPlan
  <2>2. \A m \in Market, id \in OrderIds, s \in Side : CalmOrder(m, id, s)
    BY <1>q DEF CalmOrder, Sought, Pulling, Posting
  <2> QED BY <1>k, <1>q, <1>t, <2>1, <2>2
<1>a. CASE Dequeue
  <2> DEFINE in == Head(queue)
  <2>1. /\ queue # <<>> /\ queue' = Tail(queue) /\ in.act # "cancel"
        /\ ex'.in = in /\ ex'.at = "check"
        /\ UNCHANGED <<phase, book, mempool, plan, pull, pc>>
    BY <1>a DEF Dequeue, venue, loops, IdleEx
  <2>2. Range(queue) = Range(queue)' \cup {in}
    BY <1>t, <2>1, RangeAfterReceive
  <2> HIDE DEF in
  <2>3. \A m \in Market, s \in Side : OnItsWay(m, s)' => OnItsWay(m, s)
    BY <2>1, <2>2 DEF OnItsWay
  <2>4. \A m \in Market, id \in OrderIds : CancelQueued(m, id) => CancelQueued(m, id)'
    BY <2>1, <2>2 DEF CancelQueued
  <2> QED BY <1>q, <2>1, <2>3, <2>4 DEF CancelPending
<1>b. CASE Cancel
  <2> DEFINE in == Head(queue)
  <2>1. /\ queue # <<>> /\ queue' = Tail(queue) /\ in.act = "cancel" /\ ex' = ex
        /\ UNCHANGED <<phase, pull>> /\ Resume(in) /\ in \in Intent
        /\ \/ book' = {o \in book : o.id # in.oid} /\ mempool' = mempool
           \/ book' = book /\ Abandon(in)
    BY <1>b, <1>t, QueuedAfterReceive DEF Cancel, CancelMined
  <2>2. Range(queue) = Range(queue)' \cup {in}
    BY <1>t, <2>1, RangeAfterReceive
  <2> HIDE DEF in
  <2>3. in.m \in Market
    BY <2>1 DEF Intent
  <2>4. /\ plan' = plan
        /\ \A m \in Market : \/ pc'[m] = pc[m]
                             \/ pc[m] = "making" /\ pc'[m] = "quote"
                             \/ pc[m] = "cancelling" /\ pc'[m] = "pull"
                             \/ pc'[m] \notin Pulling \cup Posting
    BY <1>t, <2>1, <2>3, Resumed
  <2>5. \A id : CancelPending(id) => CancelPending(id)'
    BY <1>t, <2>1, PendingAfterAbandon DEF CancelPending
  <2>6. \A m \in Market, s \in Side : OnItsWay(m, s)' <=> OnItsWay(m, s)
    BY <2>1, <2>2 DEF OnItsWay
  <2>7. \A m \in Market, id \in OrderIds : id # in.oid /\ CancelQueued(m, id) => CancelQueued(m, id)'
    BY <2>1, <2>2 DEF CancelQueued
  <2>8. \A o \in book' : o.id # in.oid \/ CancelPending(o.id)'
    BY <1>t, <2>1, PendingAfterAbandon
  <2>9. \A m \in Market : CalmPlan(m)
    BY <2>1, <2>4, <2>6 DEF CalmPlan
  <2>10. ASSUME NEW o \in book'
         PROVE  CalmOrder(o.m, o.id, o.side)
    <3>1. o.id \in OrderIds /\ o.m \in Market /\ o.side \in Side
      BY <1>t, <2>1
    <3>2. Sought(o.m, o.id) => Sought(o.m, o.id)'
      BY <2>1, <2>5, <2>7, <2>8, <3>1 DEF Sought
    <3> QED BY <2>1, <2>4, <2>5, <2>6, <3>1, <3>2 DEF CalmOrder, Pulling, Posting
  <2> QED BY <1>k, <2>1, <2>9, <2>10
<1>c. ASSUME Reply, UNCHANGED <<phase, book, pull, queue>>, ex.at # "idle",
             mempool' = mempool \/ Abandon(ex.in)
      PROVE  PlanInv' /\ BookInv'
  <2>1. \A id : CancelPending(id) => CancelPending(id)'
    BY <1>c, <1>t, PendingAfterAbandon DEF CancelPending
  <2>2. ex'.at = "idle" /\ Resume(ex.in)
    BY <1>c DEF Reply, IdleEx
  <2>3. \A m \in Market, s \in Side : OnItsWay(m, s)' => OnItsWay(m, s)
    BY <1>c, <2>2 DEF OnItsWay
  <2>4. \A m \in Market, id \in OrderIds : CancelQueued(m, id) => CancelQueued(m, id)'
    BY <1>c DEF CancelQueued
  <2>5. /\ plan' = plan
        /\ \A m \in Market : \/ pc'[m] = pc[m]
                             \/ pc[m] = "making" /\ pc'[m] = "quote"
                             \/ pc[m] = "cancelling" /\ pc'[m] = "pull"
                             \/ pc'[m] \notin Pulling \cup Posting
    BY <1>c, <1>t, <2>2, Resumed
  <2> QED BY <1>c, <1>q, <2>1, <2>3, <2>4, <2>5
<1>d. CASE SendFails \/ SendAbandoned \/ ReceiptTimesOut \/ ReserveResting \/ RecordFill
  BY <1>c, <1>d
  DEF SendFails, SendAbandoned, ReceiptTimesOut, ReserveResting, RecordFill, venue
<1>e. CASE GuardExposure \/ TakeReceipt
  <2>1. UNCHANGED <<phase, book, mempool, pull, queue>> /\ ex.at \in {"check", "receipt"}
    BY <1>e DEF GuardExposure, TakeReceipt, venue
  <2>2. CASE Reply
    BY <1>c, <2>1, <2>2
  <2>3. CASE UNCHANGED <<pc, plan>> /\ (\/ ex.at = "check" /\ ex' = [ex EXCEPT !.at = "send"]
                                        \/ ex' = [ex EXCEPT !.at = "row"])
    <3>1. ex'.in = ex.in /\ (ex'.at = "row" \/ (ex'.at = "send" /\ ex.at = "check"))
      BY <2>3, Advanced DEF IInv
    <3>2. \A m \in Market, s \in Side : OnItsWay(m, s)' => OnItsWay(m, s)
      BY <2>1, <3>1 DEF OnItsWay
    <3>3. \A m \in Market, id \in OrderIds : CancelQueued(m, id) => CancelQueued(m, id)'
      BY <2>1 DEF CancelQueued
    <3> QED BY <1>q, <2>1, <2>3, <3>2, <3>3 DEF CancelPending
  <2> QED BY <1>e, <2>2, <2>3 DEF GuardExposure, TakeReceipt
<1>f. ASSUME NEW got \in 0..Size, SendLands(got)
      PROVE  PlanInv' /\ BookInv'
  <2>a. ex.in \in Intent /\ placed' \in OrderIds
    BY <1>f, <1>t, EngineAssumption
    DEF SendLands, PlacementMined, OrderIds, EngineAssumption, IInv, VenueTypeOK
  <2>b. PICK m \in Market, s \in Side, id \in OrderIds :
          m = ex.in.m /\ s = ex.in.side /\ id = placed'
    BY <2>a DEF Intent
  <2> DEFINE new == [id |-> id, m |-> m, side |-> s, rem |-> Size, late |-> FALSE]
  <2>1. /\ ex.at = "send" /\ mempool = <<>> /\ phase[m] = "trading"
        /\ UNCHANGED <<phase, mempool, pc, plan, pull, queue>>
        /\ IF ex.in.act = "make" THEN book' = book \cup {new} ELSE book' = book
    BY <1>f, <2>b DEF SendLands, PlacementMined, loops
  <2>2. ex'.at = "receipt"
    BY <1>f, Landed DEF IInv
  <2>3. \A n \in Market, z \in Side : OnItsWay(n, z)' => OnItsWay(n, z)
    BY <2>1, <2>2 DEF OnItsWay
  <2>4. \A n \in Market, i \in OrderIds : CancelQueued(n, i) => CancelQueued(n, i)'
    BY <2>1 DEF CancelQueued
  <2>5. \A i : CancelPending(i) <=> CancelPending(i)'
    BY <2>1 DEF CancelPending
  <2>6. CASE ex.in.act # "make"
    BY <1>q, <2>1, <2>3, <2>4, <2>5, <2>6
  <2>7. CASE ex.in.act = "make"
    <3>1. ex.in.live
      BY <2>1, <2>b DEF LiveInv
    <3>2. pc[m] \in Waiting /\ ex.in.act = Awaited(m) /\ QueuedFor(m) = {}
      BY <2>1, <2>b, <3>1, LiveIsAwaited DEF IInv
    <3>3. pc[m] = "making"
      BY <2>7, <3>2 DEF Awaited, Waiting
    <3>4. OnItsWay(m, s)
      BY <2>1, <2>7, <2>b DEF OnItsWay
    <3>5. \A i : ~CancelPending(i)
      BY <2>1, EmptySeq DEF CancelPending, Range
    <3>6. ASSUME NEW p \in book, p.m = m, p.side = s
          PROVE  p.late
      BY <3>3, <3>4, <3>5, <3>6 DEF BookInv, OrderInv, Posting
    <3>7. OneOrderPerSide'
      <4>1. book' = book \cup {new} /\ new.m = m /\ new.side = s
        BY <2>1, <2>7
      <4> HIDE DEF new
      <4> QED BY <3>6, <4>1 DEF BookInv, OneOrderPerSide
    <3>8. ~OnItsWay(m, s)'
      <4>1. \A q \in Range(queue) : q.m # m
        <5>1. ASSUME NEW q \in Range(queue), q.m = m
              PROVE  FALSE
          <6>1. q.live
            BY <2>1, <5>1 DEF LiveInv
          <6> QED BY <3>2, <5>1, <6>1 DEF QueuedFor, QueuedIn, Range
        <5> QED BY <5>1
      <4> QED BY <2>1, <2>2, <4>1 DEF OnItsWay
    <3>9. s \notin plan[m]
      BY <2>1, <3>4 DEF PlanInv
    <3>10. OrderInv(id, m, s, FALSE)'
      BY <2>1, <3>3, <3>8, <3>9 DEF OrderInv, Pulling
    <3>11. \A n \in Market : CalmPlan(n)
      BY <2>1, <2>3 DEF CalmPlan
    <3>12. ASSUME NEW o \in book
           PROVE  CalmOrder(o.m, o.id, o.side)
      BY <1>t, <2>1, <2>3, <2>4, <2>5 DEF CalmOrder, Sought
    <3>13. ASSUME NEW p \in book'
           PROVE  \/ OrderInv(p.id, p.m, p.side, p.late)'
                  \/ /\ CalmOrder(p.m, p.id, p.side)
                     /\ \E o \in book : /\ o.id = p.id /\ o.m = p.m
                                        /\ o.side = p.side /\ o.late = p.late
      <4>1. CASE p \in book
        BY <3>12, <4>1
      <4>2. CASE p = new
        BY <3>10, <4>2
      <4> QED BY <2>1, <2>7, <4>1, <4>2
    <3> HIDE DEF new
    <3> QED BY <3>7, <3>11, <3>13, BookKept
  <2> QED BY <2>6, <2>7
\* The loops.
<1>g. ASSUME NEW m \in Market,
             Spawn(m) \/ SetupDone(m) \/ SetupFails(m) \/ Exit(m) \/ Settle(m)
      PROVE  PlanInv' /\ BookInv'
  <2>1. /\ UNCHANGED <<phase, book, mempool, plan, pull, queue, ex>>
        /\ \E to \in {"setup", "idle", "off", "settling"} : pc' = [pc EXCEPT ![m] = to]
    BY <1>g DEF Spawn, SetupDone, SetupFails, Exit, Settle, Reap, venue
  <2> QED
    BY <1>q, <1>t, <2>1 DEF OnItsWay, CancelQueued, CancelPending, Pulling, Posting
\* A step of the loop of m alone leaves the other windows as they are.
<1>h. ASSUME NEW m \in Market, UNCHANGED <<phase, book, mempool>>,
             \A n \in Market : n # m => /\ pc'[n] = pc[n] /\ plan'[n] = plan[n]
                                        /\ pull'[n] = pull[n],
             \A n \in Market, s \in Side : n # m /\ OnItsWay(n, s)' => OnItsWay(n, s),
             \A n \in Market, id \in OrderIds : n # m /\ CancelQueued(n, id) => CancelQueued(n, id)',
             phase[m] = "trading" =>
               /\ \A s \in Side : OnItsWay(m, s)' => s \notin plan'[m]
               /\ \A o \in book : o.m = m => OrderInv(o.id, o.m, o.side, o.late)'
      PROVE  PlanInv' /\ BookInv'
  <2>1. \A id : CancelPending(id) <=> CancelPending(id)'
    BY <1>h DEF CancelPending
  <2>2. PlanInv'
    BY <1>h DEF PlanInv
  <2>3. ASSUME NEW o \in book, o.m # m
        PROVE  OrderInv(o.id, o.m, o.side, o.late)'
    <3>1. o.m \in Market /\ o.id \in OrderIds /\ o.side \in Side
      BY <1>t
    <3>2. OrderInv(o.id, o.m, o.side, o.late)
      BY DEF BookInv
    <3> QED BY <1>h, <2>1, <2>3, <3>1, <3>2 DEF OrderInv, Sought
  <2>4. \A o \in book : phase[o.m] = "trading"
    BY DEF BookInv, OrderInv
  <2>5. OneOrderPerSide'
    BY <1>h DEF BookInv, OneOrderPerSide
  <2> QED BY <1>h, <2>2, <2>3, <2>4, <2>5 DEF BookInv
<1>i. ASSUME NEW m \in Market, Tick(m) \/ TickEnds(m)
      PROVE  PlanInv' /\ BookInv'
  <2>1. /\ UNCHANGED <<phase, book, mempool, pull, queue, ex>> /\ pc[m] \notin Waiting
        /\ \E sides \in SUBSET Side, to \in {"tick", "idle"} :
             plan' = [plan EXCEPT ![m] = sides] /\ pc' = [pc EXCEPT ![m] = to]
    BY <1>i DEF Tick, TickEnds, venue, OpenSides, Side, Waiting
  <2>2. /\ \A n \in Market, s \in Side : OnItsWay(n, s)' <=> OnItsWay(n, s)
        /\ \A n \in Market, id \in OrderIds : CancelQueued(n, id)' <=> CancelQueued(n, id)
    BY <2>1 DEF OnItsWay, CancelQueued
  <2>3. phase[m] = "trading" => \A s \in Side : ~OnItsWay(m, s)
    BY <2>1, Silent
  <2>4. ASSUME NEW o \in book, o.m = m, phase[m] = "trading"
        PROVE  OrderInv(o.id, o.m, o.side, o.late)'
    BY <1>t, <2>1, <2>4 DEF OrderInv, Pulling, Posting
  <2> QED BY <1>h, <1>t, <2>1, <2>2, <2>3, <2>4
<1>j. ASSUME NEW m \in Market, NEW sides \in {plan[m], {}}, DecideQuote(m, sides)
      PROVE  PlanInv' /\ BookInv'
  <2>1. /\ UNCHANGED <<phase, book, mempool, queue, ex>> /\ pc[m] = "tick"
        /\ plan' = [plan EXCEPT ![m] = sides] /\ pc' = [pc EXCEPT ![m] = "pull"]
        /\ pull' = [pull EXCEPT ![m] = {o.id : o \in {b \in book : b.m = m}}]
    BY <1>j DEF DecideQuote, venue
  <2>2. /\ \A n \in Market, s \in Side : OnItsWay(n, s)' <=> OnItsWay(n, s)
        /\ \A n \in Market, id \in OrderIds : CancelQueued(n, id)' <=> CancelQueued(n, id)
    BY <2>1 DEF OnItsWay, CancelQueued
  <2>3. phase[m] = "trading" => \A s \in Side : ~OnItsWay(m, s)
    BY <2>1, Silent DEF Waiting
  <2>4. ASSUME NEW o \in book, o.m = m, phase[m] = "trading"
        PROVE  OrderInv(o.id, o.m, o.side, o.late)'
    BY <1>t, <2>1, <2>4 DEF OrderInv, Sought, Posting
  <2>5. \A n \in Market : n # m => /\ pc'[n] = pc[n] /\ plan'[n] = plan[n]
                                   /\ pull'[n] = pull[n]
    BY <1>t, <2>1
  <2> QED BY <1>h, <2>1, <2>2, <2>3, <2>4, <2>5
<1>l. ASSUME NEW m \in Market, PullDone(m)
      PROVE  PlanInv' /\ BookInv'
  <2>1. /\ UNCHANGED <<phase, book, mempool, plan, pull, queue, ex>>
        /\ pc[m] = "pull" /\ pull[m] = {}
        /\ \E to \in {"quote", "idle"} : pc' = [pc EXCEPT ![m] = to]
    BY <1>l DEF PullDone, Quoting, venue
  <2>2. /\ \A n \in Market, s \in Side : OnItsWay(n, s)' <=> OnItsWay(n, s)
        /\ \A n \in Market, id \in OrderIds : CancelQueued(n, id)' <=> CancelQueued(n, id)
        /\ \A id : CancelPending(id)' <=> CancelPending(id)
    BY <2>1 DEF OnItsWay, CancelQueued, CancelPending
  <2>3. phase[m] = "trading" => /\ \A s \in Side : ~OnItsWay(m, s)
                                /\ \A id : ~CancelQueued(m, id)
    BY <2>1, Silent DEF Waiting
  <2>4. ASSUME NEW o \in book, o.m = m, phase[m] = "trading"
        PROVE  OrderInv(o.id, o.m, o.side, o.late)'
    <3>1. o.late \/ CancelPending(o.id)
      BY <2>1, <2>3, <2>4 DEF BookInv, OrderInv, Sought, Pulling
    <3> QED BY <1>t, <2>1, <2>2, <2>4, <3>1 DEF OrderInv, Pulling
  <2>5. \A n \in Market : n # m => /\ pc'[n] = pc[n] /\ plan'[n] = plan[n]
                                   /\ pull'[n] = pull[n]
    BY <1>t, <2>1
  <2> QED BY <1>h, <2>1, <2>2, <2>3, <2>4, <2>5
\* A loop sends an intent: what changes for its own window.
<1>m. ASSUME NEW m \in Market, NEW act \in {"make", "take", "cancel"},
             NEW side \in Side, NEW oid \in OrderIds, Emit(act, m, side, oid),
             pc[m] \notin Waiting, ex' = ex
      PROVE  /\ \A n \in Market, s \in Side :
                  OnItsWay(n, s)' <=> OnItsWay(n, s) \/ (n = m /\ s = side /\ act = "make")
             /\ \A n \in Market, id \in OrderIds :
                  CancelQueued(n, id)' <=> CancelQueued(n, id) \/ (n = m /\ id = oid /\ act = "cancel")
             /\ phase[m] = "trading" => \A s \in Side : ~OnItsWay(m, s)
  <2> DEFINE new == [act |-> act, m |-> m, side |-> side, oid |-> oid, live |-> TRUE]
  <2>1. Range(queue)' = Range(queue) \cup {new}
    BY <1>t, <1>m, Sent
  <2>2. new.act = act /\ new.m = m /\ new.side = side /\ new.oid = oid
    OBVIOUS
  <2> HIDE DEF new
  <2>3. phase[m] = "trading" => \A s \in Side : ~OnItsWay(m, s)
    BY <1>m, Silent
  <2>4. \A n \in Market, s \in Side :
          OnItsWay(n, s)' <=> OnItsWay(n, s) \/ (n = m /\ s = side /\ act = "make")
    BY <1>m, <2>1, <2>2 DEF OnItsWay
  <2>5. \A n \in Market, id \in OrderIds :
          CancelQueued(n, id)' <=> CancelQueued(n, id) \/ (n = m /\ id = oid /\ act = "cancel")
    BY <1>m, <2>1, <2>2 DEF CancelQueued
  <2> QED BY <2>3, <2>4, <2>5
<1>n. ASSUME NEW m \in Market, NEW s \in plan[m], DecideTake(m, s)
      PROVE  PlanInv' /\ BookInv'
  <2>1. /\ UNCHANGED <<phase, book, mempool, pull, ex>> /\ pc[m] = "tick"
        /\ plan' = [plan EXCEPT ![m] = {}] /\ pc' = [pc EXCEPT ![m] = "taking"]
        /\ Emit("take", m, s, 0) /\ s \in Side /\ 0 \in OrderIds
    BY <1>n, <1>t, EngineAssumption DEF DecideTake, venue, OrderIds, EngineAssumption
  <2>2. /\ \A n \in Market, z \in Side : OnItsWay(n, z)' => OnItsWay(n, z)
        /\ \A n \in Market, id \in OrderIds : CancelQueued(n, id) => CancelQueued(n, id)'
    BY <1>m, <2>1 DEF Waiting
  <2>3. ASSUME NEW o \in book, o.m = m, phase[m] = "trading"
        PROVE  OrderInv(o.id, o.m, o.side, o.late)'
    BY <1>t, <2>1, <2>3 DEF OrderInv, Pulling, Posting
  <2>4. plan'[m] = {} /\ \A n \in Market : n # m => /\ pc'[n] = pc[n] /\ plan'[n] = plan[n]
                                   /\ pull'[n] = pull[n]
    BY <1>t, <2>1
  <2> QED BY <1>h, <2>1, <2>2, <2>3, <2>4
<1>o. ASSUME NEW m \in Market, NEW id \in pull[m], PullOne(m, id)
      PROVE  PlanInv' /\ BookInv'
  <2>1. /\ UNCHANGED <<phase, book, mempool, plan, ex>> /\ pc[m] = "pull"
        /\ pull' = [pull EXCEPT ![m] = @ \ {id}] /\ pc' = [pc EXCEPT ![m] = "cancelling"]
        /\ Emit("cancel", m, "Up", id) /\ id \in OrderIds /\ "Up" \in Side
    BY <1>o, <1>t DEF PullOne, venue, Side
  <2>2. /\ \A n \in Market, s \in Side : OnItsWay(n, s)' => OnItsWay(n, s)
        /\ \A n \in Market, i \in OrderIds : CancelQueued(n, i) => CancelQueued(n, i)'
        /\ CancelQueued(m, id)'
        /\ phase[m] = "trading" => \A s \in Side : ~OnItsWay(m, s)
    BY <1>m, <2>1 DEF Waiting
  <2>3. ASSUME NEW o \in book, o.m = m, phase[m] = "trading"
        PROVE  OrderInv(o.id, o.m, o.side, o.late)'
    <3>1. o.late \/ Sought(m, o.id)
      BY <2>1, <2>3 DEF BookInv, OrderInv, Pulling
    <3>2. Sought(m, o.id) => Sought(m, o.id)'
      BY <1>t, <2>1, <2>2 DEF Sought, CancelPending
    <3> QED BY <1>t, <2>1, <2>3, <3>1, <3>2 DEF OrderInv, Posting
  <2>4. \A n \in Market : n # m => /\ pc'[n] = pc[n] /\ plan'[n] = plan[n]
                                   /\ pull'[n] = pull[n]
    BY <1>t, <2>1
  <2> QED BY <1>h, <2>1, <2>2, <2>3, <2>4
<1>p. ASSUME NEW m \in Market, NEW s \in Side, QuoteSide(m, s)
      PROVE  PlanInv' /\ BookInv'
  <2>1. /\ UNCHANGED <<phase, book, mempool, pull, ex>> /\ pc[m] = "quote" /\ s \in plan[m]
        /\ plan' = [plan EXCEPT ![m] = @ \ {s}]
        /\ \E to \in {"making", "quote", "idle"} : pc' = [pc EXCEPT ![m] = to]
        /\ 0 \in OrderIds
    BY <1>p, EngineAssumption
    DEF QuoteSide, Quoting, venue, OrderIds, EngineAssumption
  <2>2. /\ \A n \in Market, z \in Side :
             OnItsWay(n, z)' => OnItsWay(n, z) \/ (n = m /\ z = s)
        /\ \A n \in Market, i \in OrderIds : CancelQueued(n, i) => CancelQueued(n, i)'
    <3>1. CASE UNCHANGED queue
      BY <2>1, <3>1 DEF OnItsWay, CancelQueued
    <3>2. CASE Emit("make", m, s, 0)
      BY <1>m, <2>1, <3>2 DEF Waiting
    <3> QED BY <1>p, <3>1, <3>2 DEF QuoteSide
  <2>3. phase[m] = "trading" => \A z \in Side : ~OnItsWay(m, z)
    BY <2>1, Silent DEF Waiting
  <2>4. ASSUME NEW o \in book, o.m = m, phase[m] = "trading"
        PROVE  OrderInv(o.id, o.m, o.side, o.late)'
    <3>1. o.late \/ CancelPending(o.id) \/ o.side \notin plan[m]
      BY <2>1, <2>4 DEF BookInv, OrderInv, Posting
    <3>2. CancelPending(o.id) => CancelPending(o.id)'
      BY <2>1 DEF CancelPending
    <3>3. o.side \notin plan[m] => o.side \notin plan'[m] /\ ~OnItsWay(m, o.side)'
      BY <1>t, <2>1, <2>2, <2>3, <2>4
    <3> QED BY <1>t, <2>1, <2>4, <3>1, <3>2, <3>3 DEF OrderInv, Pulling
  <2>5. \A n \in Market : n # m => /\ pc'[n] = pc[n] /\ plan'[n] = plan[n]
                                   /\ pull'[n] = pull[n]
    BY <1>t, <2>1
  <2>6. phase[m] = "trading" => \A z \in Side : OnItsWay(m, z)' => z \notin plan'[m]
    BY <1>t, <2>1, <2>2, <2>3
  <2> QED BY <1>h, <2>1, <2>2, <2>4, <2>5, <2>6
<1>r. ASSUME NEW m \in Market, ContextDone(m)
      PROVE  PlanInv' /\ BookInv'
  <2>1. /\ \A n \in Market, s \in Side : OnItsWay(n, s)' => OnItsWay(n, s)
        /\ \A n \in Market, id \in OrderIds : CancelQueued(n, id) => CancelQueued(n, id)'
    <3>1. /\ ex'.at = ex.at
          /\ ex.at # "idle" => SameBut(ex'.in, ex.in, m)
          /\ \A in \in Range(queue') : \E old \in Range(queue) : SameBut(in, old, m)
          /\ \A old \in Range(queue) : \E in \in Range(queue') : SameBut(in, old, m)
      BY <1>r, Orphaned DEF IInv
    <3>2. \A n \in Market, s \in Side : OnItsWay(n, s)' => OnItsWay(n, s)
      BY <3>1 DEF OnItsWay, SameBut
    <3>3. \A n \in Market, id \in OrderIds : CancelQueued(n, id) => CancelQueued(n, id)'
      BY <3>1 DEF CancelQueued, SameBut
    <3> QED BY <3>2, <3>3
  <2> QED BY <1>h, <1>r, <2>1, Orphaned DEF IInv
<1>s. CASE CrashRestart
  <2>1. /\ UNCHANGED <<phase, book, mempool>> /\ ex'.at = "idle"
        /\ \A m \in Market : pc'[m] = "off" /\ plan'[m] = {}
    BY <1>s DEF CrashRestart, venue, IdleEx
  <2>2. \A m \in Market : CalmPlan(m)
    BY <2>1 DEF CalmPlan
  <2>3. \A m \in Market, id \in OrderIds, s \in Side : CalmOrder(m, id, s)
    BY <2>1 DEF CalmOrder, Pulling, Posting
  <2> QED BY <1>k, <1>t, <2>1, <2>2, <2>3
\* The venue.
<1>u. ASSUME UNCHANGED <<pc, plan, pull, queue, ex>>
      PROVE  /\ \A n \in Market, s \in Side : OnItsWay(n, s)' <=> OnItsWay(n, s)
             /\ \A n \in Market, id \in OrderIds : CancelQueued(n, id)' <=> CancelQueued(n, id)
  BY <1>u DEF OnItsWay, CancelQueued
<1>v. ASSUME UNCHANGED <<phase, mempool, pc, plan, pull, queue, ex>>
      PROVE  /\ \A m \in Market : CalmPlan(m)
             /\ \A m \in Market, id \in OrderIds, s \in Side : CalmOrder(m, id, s)
  <2>1. \A id : CancelPending(id)' <=> CancelPending(id)
    BY <1>v DEF CancelPending
  <2> QED BY <1>u, <1>v, <2>1 DEF CalmPlan, CalmOrder, Sought
<1>w. ASSUME NEW o \in book, NEW q \in 1..o.rem, CounterpartyFills(o, q)
      PROVE  PlanInv' /\ BookInv'
  <2> DEFINE rest == [o EXCEPT !.rem = @ - q]
  <2>1. UNCHANGED <<phase, mempool, pc, plan, pull, queue, ex>>
    BY <1>w DEF CounterpartyFills, loops
  <2>2. /\ book' \subseteq (book \ {o}) \cup {rest}
        /\ rest.id = o.id /\ rest.m = o.m /\ rest.side = o.side /\ rest.late = o.late
    <3>1. o \in Order
      BY <1>t
    <3> QED BY <1>w, <3>1 DEF CounterpartyFills, Order
  <2> HIDE DEF rest
  <2>3. OneOrderPerSide'
    BY <2>2 DEF BookInv, OneOrderPerSide
  <2>4. ASSUME NEW p \in book'
        PROVE  \E b \in book : b.id = p.id /\ b.m = p.m /\ b.side = p.side /\ b.late = p.late
    BY <2>2
  <2>5. \A p \in book' : CalmOrder(p.m, p.id, p.side)
    BY <1>t, <1>v, <2>1, <2>4
  <2> QED BY <1>v, <2>1, <2>3, <2>4, <2>5, BookKept
<1>x. ASSUME NEW o \in book, OrderAges(o)
      PROVE  PlanInv' /\ BookInv'
  BY <1>k, <1>t, <1>v, <1>x DEF OrderAges, loops
<1>y. ASSUME NEW m \in Market, WindowExpires(m)
      PROVE  PlanInv' /\ BookInv'
  <2>1. /\ phase' = [phase EXCEPT ![m] = "expired"] /\ book' = {o \in book : o.m # m}
        /\ UNCHANGED <<mempool, pc, plan, pull, queue, ex>>
    BY <1>y DEF WindowExpires, loops
  <2>2. \A id : CancelPending(id)' <=> CancelPending(id)
    BY <2>1 DEF CancelPending
  <2>3. \A n \in Market : CalmPlan(n)
    BY <1>t, <1>u, <2>1 DEF CalmPlan
  <2>4. \A n \in Market, id \in OrderIds, s \in Side : n # m => CalmOrder(n, id, s)
    BY <1>t, <1>u, <2>1, <2>2 DEF CalmOrder, Sought
  <2> QED BY <1>k, <1>t, <2>1, <2>3, <2>4
<1>z. CASE LateMined
  <2> DEFINE in == Head(mempool)
  <2>1. /\ mempool # <<>> /\ mempool' = Tail(mempool) /\ in \in Intent
        /\ UNCHANGED <<phase, pc, plan, pull, queue, ex>>
    BY <1>z, <1>t, QueuedAfterReceive DEF LateMined, loops
  <2>2. Range(mempool) = Range(mempool)' \cup {in}
    BY <1>t, <2>1, RangeAfterReceive
  <2>b. PICK it \in Intent : it = in
    BY <2>1
  <2>3. \A id : CancelPending(id) => CancelPending(id)' \/ (it.act = "cancel" /\ it.oid = id)
    BY <2>2, <2>b DEF CancelPending
  <2>4. \A n \in Market : CalmPlan(n)
    BY <1>u, <2>1 DEF CalmPlan
  <2>5. ASSUME NEW o \in book, it.act = "cancel" => it.oid # o.id
        PROVE  CalmOrder(o.m, o.id, o.side)
    BY <1>t, <1>u, <2>1, <2>3, <2>5 DEF CalmOrder, Sought
  <2>6. CASE it.act = "cancel" /\ book' = {o \in book : o.id # it.oid}
    BY <1>k, <2>4, <2>5, <2>6
  <2>7. CASE it.act # "cancel" /\ book' = book
    BY <1>k, <2>4, <2>5, <2>7
  <2>8. ASSUME it.act # "cancel", NEW new, new.late, new.m = it.m, phase[it.m] = "trading",
               book' = book \cup {new}
        PROVE  PlanInv' /\ BookInv'
    <3>1. OneOrderPerSide'
      BY <2>8 DEF BookInv, OneOrderPerSide
    <3>2. OrderInv(new.id, new.m, new.side, new.late)'
      BY <2>1, <2>8 DEF OrderInv
    <3>3. ASSUME NEW p \in book'
          PROVE  \/ OrderInv(p.id, p.m, p.side, p.late)'
                 \/ /\ CalmOrder(p.m, p.id, p.side)
                    /\ \E o \in book : /\ o.id = p.id /\ o.m = p.m
                                       /\ o.side = p.side /\ o.late = p.late
      <4>1. CASE p \in book
        BY <2>5, <2>8, <4>1
      <4>2. CASE p = new
        BY <3>2, <4>2
      <4> QED BY <2>8, <4>1, <4>2
    <3> QED BY <2>4, <3>1, <3>3, BookKept
  <2>9. ASSUME NEW got \in 0..Size, PlacementMined(in, got, TRUE), it.act # "cancel"
        PROVE  PlanInv' /\ BookInv'
    <3>1. CASE it.act = "make"
      <4> DEFINE new == [id |-> placed', m |-> it.m, side |-> it.side, rem |-> Size, late |-> TRUE]
      <4>1. book' = book \cup {new} /\ phase[it.m] = "trading"
        BY <2>9, <2>b, <3>1 DEF PlacementMined
      <4>2. new.late /\ new.m = it.m
        OBVIOUS
      <4>3. \E n : n = new
        OBVIOUS
      <4> HIDE DEF new
      <4>4. PICK n : n = new
        BY <4>3
      <4> QED BY <2>8, <2>9, <4>1, <4>2, <4>4
    <3>2. CASE it.act # "make"
      BY <2>7, <2>9, <2>b, <3>2 DEF PlacementMined
    <3> QED BY <3>1, <3>2
  <2> QED BY <1>z, <2>6, <2>7, <2>9, <2>b DEF LateMined, CancelMined
<1>1. CASE Reconcile \/ UNCHANGED vars
  <2>1. UNCHANGED <<phase, book, mempool, pc, plan, pull, queue, ex>>
    BY <1>1 DEF Reconcile, IngestRow, IngestTrack, IngestInventory, IngestRelease, vars, venue, loops
  <2> QED BY <1>k, <1>t, <1>v, <2>1
<1>2. CASE Executor
  BY <1>2, <1>a, <1>b, <1>d, <1>e, <1>f DEF Executor
<1>3. ASSUME NEW m \in Market, Loop(m)
      PROVE  PlanInv' /\ BookInv'
  BY <1>3, <1>g, <1>i, <1>j, <1>l, <1>n, <1>o, <1>p, <1>r DEF Loop
<1>4. CASE Venue
  BY <1>4, <1>w, <1>x, <1>y, <1>z DEF Venue
<1> QED BY <1>1, <1>2, <1>3, <1>4, <1>g, <1>s DEF Next

LEMMA LiveHolds == Spec => []LiveInv
<1>1. Init => LiveInv
  BY DEF Init, LiveInv, Range, IdleEx
<1> QED BY <1>1, LiveInductive, IInvHolds, PTL DEF Spec

LEMMA BookHolds ==
  ASSUME "cancelFail" \notin Env
  PROVE  Spec => [](PlanInv /\ BookInv)
<1>1. Init => PlanInv /\ BookInv
  BY DEF Init, PlanInv, BookInv, OneOrderPerSide
<1> QED BY <1>1, BookInductive, IInvHolds, LiveHolds, PTL DEF Spec

\* As long as no cancel fails, a window never has two of our orders on a side unless
\* one of them was mined after its receipt wait gave up, whatever crashes, lost
\* receipts and expiring orders come in between (engine.go:471-474, 617-618).
THEOREM OrdersDoNotPileUp ==
  ASSUME "cancelFail" \notin Env
  PROVE  Spec => []OneOrderPerSide
<1>1. BookInv => OneOrderPerSide
  BY DEF BookInv
<1> QED BY <1>1, BookHolds, PTL
-----------------------------------------------------------------------------
(***************************************************************************)
(* The engine serves calls in turn: every step of it is one of Calls, or   *)
(* none that a caller or the venue could tell.  The line is the intent in  *)
(* hand with the channel behind it; whose turn it is to be answered, and   *)
(* that it waits for this answer, is ReplyProtocol.                        *)
(***************************************************************************)
PlacingInv == ex.at # "idle" => ex.in.act # "cancel"

\* Only placements are ever in hand: a cancel is answered as it is taken.
LEMMA PlacingInductive == IInv /\ PlacingInv /\ [Next]_vars => PlacingInv'
<1> SUFFICES ASSUME ControlTypeOK, PlacingInv, [Next]_vars
             PROVE  PlacingInv'
  BY DEF IInv
<1>1. CASE ex'.at = "idle" \/ (ex.at # "idle" /\ ex'.in = ex.in)
  BY <1>1 DEF PlacingInv
<1>2. CASE Reply
  BY <1>1, <1>2 DEF Reply, IdleEx
<1>3. CASE Dequeue
  BY <1>3 DEF Dequeue, IdleEx, PlacingInv
<1>4. CASE GuardExposure \/ TakeReceipt
  BY <1>1, <1>2, <1>4, Advanced DEF GuardExposure, TakeReceipt
<1>5. ASSUME NEW got, SendLands(got)
      PROVE  PlacingInv'
  BY <1>1, <1>5, Landed DEF SendLands
<1>6. ASSUME NEW m \in Market, ContextDone(m)
      PROVE  PlacingInv'
  BY <1>6, Orphaned DEF SameBut, PlacingInv
<1>7. CASE CrashRestart
  BY <1>1, <1>7 DEF CrashRestart, IdleEx
<1>8. CASE ex' = ex
  BY <1>8 DEF PlacingInv
<1>9. CASE Executor
  BY <1>2, <1>3, <1>4, <1>5, <1>8, <1>9
  DEF Executor, Cancel, SendFails, SendAbandoned, ReceiptTimesOut, ReserveResting, RecordFill
<1>10. CASE Reconcile \/ Venue \/ UNCHANGED vars
  BY <1>8, <1>10
  DEF Reconcile, IngestRow, IngestTrack, IngestInventory, IngestRelease, Venue, OrderAges,
      CounterpartyFills, WindowExpires, LateMined, vars
<1>11. ASSUME NEW m \in Market, Spawn(m) \/ Settle(m) \/ Loop(m)
       PROVE  PlacingInv'
  BY <1>6, <1>8, <1>11
  DEF Loop, Spawn, SetupDone, SetupFails, Reap, Exit, Settle, Tick, TickEnds, DecideTake,
      DecideQuote, PullOne, PullDone, QuoteSide
<1> QED BY <1>7, <1>9, <1>10, <1>11 DEF Next

\* The intent in hand, put before the channel and taken away again.
LEMMA LineProperties ==
  ASSUME NEW q \in Seq(Intent), NEW x \in Intent
  PROVE  /\ <<x>> \o q \in Seq(Intent) /\ <<x>> \o q # <<>>
         /\ Head(<<x>> \o q) = x /\ Tail(<<x>> \o q) = q
         /\ \A in \in Intent : Append(<<x>> \o q, in) = <<x>> \o Append(q, in)
         /\ q # <<>> => <<Head(q)>> \o Tail(q) = q
OBVIOUS

\* An answer reaches the caller that waits for it, and nobody else.
LEMMA AnswerReaches ==
  ASSUME ControlTypeOK, NEW in \in Intent, Resume(in),
         in.live => pc[in.m] \in Waiting /\ in.act = Awaited(in.m)
  PROVE  IF in.live THEN Asked[in.m] = in.act /\ Asked' = [Asked EXCEPT ![in.m] = "nothing"]
                    ELSE Asked' = Asked
<1>1. pc \in [Market -> LoopStates] /\ in.m \in Market /\ in.live \in BOOLEAN
  BY DEF ControlTypeOK, Intent
<1>2. CASE ~in.live
  BY <1>2 DEF Resume, Asked, Awaited
<1>3. CASE in.live
  <2>1. /\ pc'[in.m] \in {"pull", "idle", "quote"}
        /\ \A m \in Market : m # in.m => pc'[m] = pc[m]
    BY <1>1, <1>3 DEF Resume, Quoting
  <2> QED BY <1>1, <1>3, <2>1 DEF Asked, Awaited, Waiting
<1> QED BY <1>1, <1>2, <1>3

\* A reply ends the first call, whether its order is on the venue, failed, or
\* outlived the wait for it.
LEMMA ReplyReturns ==
  ASSUME IInv, ex.at # "idle", Reply, queue' = queue, UNCHANGED <<phase, placed>>,
         mempool' = mempool \/ (~Acted /\ Len(mempool') = Len(mempool) + 1)
  PROVE  Service!Return
<1>1. /\ ControlTypeOK /\ ReplyProtocol /\ ex.in \in Intent /\ ex.in.m \in Market
      /\ queue \in Seq(Intent)
  BY DEF IInv, ControlTypeOK, Intent
<1>2. Line = <<ex.in>> \o queue /\ Line' = queue /\ Acted' = FALSE
  BY DEF Reply, IdleEx, Line, Acted
<1>3. Line # <<>> /\ Head(Line) = ex.in /\ Line' = Tail(Line)
  BY <1>1, <1>2, LineProperties
<1>4. ex.in.live => pc[ex.in.m] \in Waiting /\ ex.in.act = Awaited(ex.in.m)
  BY <1>1, LiveIsAwaited
<1>5. IF ex.in.live THEN Asked[ex.in.m] = ex.in.act /\ Asked' = [Asked EXCEPT ![ex.in.m] = "nothing"]
                    ELSE Asked' = Asked
  BY <1>1, <1>4, AnswerReaches DEF Reply
<1>6. Len(mempool') \in {Len(mempool)} \cup (IF Acted THEN {} ELSE {Len(mempool) + 1})
  OBVIOUS
<1>7. placed' = placed /\ Over' = Over
  BY DEF Over
<1> QED BY <1>2, <1>3, <1>5, <1>6, <1>7 DEF Service!Return

\* A cancel is a call that ends as it is taken.
LEMMA CancelReturns ==
  ASSUME IInv, Cancel
  PROVE  Service!Return
<1>1. /\ ControlTypeOK /\ ReplyProtocol /\ queue \in Seq(Intent) /\ queue # <<>>
      /\ ex.at = "idle" /\ ex' = ex /\ queue' = Tail(queue) /\ Resume(Head(queue))
      /\ phase' = phase /\ placed' = placed /\ mempool \in Seq(Intent)
  BY DEF IInv, Cancel, CancelMined, Abandon, ControlTypeOK, VenueTypeOK
<1>2. Head(queue) \in Intent /\ Head(queue) \in Range(queue)
  BY <1>1, QueuedAfterReceive DEF Range
<1>3. Line = queue /\ Line' = Tail(queue) /\ ~Acted /\ Acted' = FALSE
  BY <1>1 DEF Line, Acted
<1>4. Head(queue).live => pc[Head(queue).m] \in Waiting /\ Head(queue).act = Awaited(Head(queue).m)
  BY <1>1, <1>2, LiveIsAwaited DEF Intent
<1>5. IF Head(queue).live
      THEN /\ Asked[Head(queue).m] = Head(queue).act
           /\ Asked' = [Asked EXCEPT ![Head(queue).m] = "nothing"]
      ELSE Asked' = Asked
  BY <1>1, <1>2, <1>4, AnswerReaches
<1>6. mempool' = mempool \/ Len(mempool') = Len(mempool) + 1
  BY <1>1, <1>2 DEF Cancel, Abandon, Intent
<1>7. Over' = Over
  BY <1>1 DEF Over
<1> QED BY <1>1, <1>3, <1>5, <1>6, <1>7 DEF Service!Return

\* A send on the channel puts a call at the end of the line.
LEMMA SendAsks ==
  ASSUME IInv, UNCHANGED <<ex, phase, placed, mempool>>,
         NEW m \in Market, NEW act \in {"make", "take", "cancel"}, NEW side \in Side,
         NEW oid \in OrderIds, NEW w \in Waiting, Emit(act, m, side, oid), pc[m] \notin Waiting,
         pc' = [pc EXCEPT ![m] = w],
         act = CASE w = "cancelling" -> "cancel" [] w = "making" -> "make" [] OTHER -> "take"
  PROVE  Service!Ask(m, act)
<1> DEFINE call == [act |-> act, m |-> m, side |-> side, oid |-> oid, live |-> TRUE]
<1>1. /\ call \in Intent /\ call.m = m /\ call.act = act /\ call.live
      /\ queue' = Append(queue, call) /\ queue \in Seq(Intent)
      /\ pc \in [Market -> LoopStates] /\ (ex.at # "idle" => ex.in \in Intent)
  BY DEF Intent, Emit, IInv, ControlTypeOK, OrderIds
<1> HIDE DEF call
<1>2. Line' = Append(Line, call)
  BY <1>1, LineProperties DEF Line
<1>3. Asked[m] = "nothing" /\ Asked' = [Asked EXCEPT ![m] = act]
  <2>1. pc'[m] = w /\ \A n \in Market : n # m => pc'[n] = pc[n]
    BY <1>1
  <2>2. Awaited(m)' = act /\ \A n \in Market : n # m => Awaited(n)' = Awaited(n)
    BY <2>1 DEF Awaited
  <2> QED BY <2>1, <2>2 DEF Asked
<1>4. Acted' = Acted /\ placed' = placed /\ Len(mempool') = Len(mempool) /\ Over' = Over
  BY DEF Acted, Over
<1> QED BY <1>1, <1>2, <1>3, <1>4 DEF Service!Ask

\* A finished context: the caller no longer waits, its call stays in the line.
LEMMA ContextGivesUp ==
  ASSUME IInv, NEW m \in Market, ContextDone(m)
  PROVE  Service!GiveUp(m)
<1>1. /\ ControlTypeOK /\ queue \in Seq(Intent) /\ pc \in [Market -> LoopStates]
      /\ queue' = [i \in DOMAIN queue |-> [queue[i] EXCEPT !.live = @ /\ queue[i].m # m]]
      /\ ex' = [ex EXCEPT !.in.live = @ /\ ex.in.m # m]
      /\ ex = [at |-> ex.at, in |-> ex.in, base |-> ex.base, id |-> ex.id, got |-> ex.got]
      /\ (ex.at # "idle" => ex.in \in Intent)
      /\ phase[m] = "expired" /\ UNCHANGED <<phase, placed, mempool>>
  BY DEF IInv, ContextDone, ControlTypeOK, venue
<1>2. ex'.at = ex.at /\ ex'.in = [ex.in EXCEPT !.live = @ /\ ex.in.m # m]
  <2>1. ex' = [ex EXCEPT !.in = [ex.in EXCEPT !.live = @ /\ ex.in.m # m]]
    BY <1>1
  <2>2. ex' = [at |-> ex.at, in |-> [ex.in EXCEPT !.live = @ /\ ex.in.m # m],
               base |-> ex.base, id |-> ex.id, got |-> ex.got]
    BY <1>1, <2>1
  <2> QED BY <2>2
<1>3. Asked' = [Asked EXCEPT ![m] = "nothing"]
  <2>1. pc'[m] \notin Waiting /\ \A n \in Market : n # m => pc'[n] = pc[n]
    BY <1>1 DEF ContextDone, Quoting, Waiting
  <2>2. \A n \in Market : n # m => Awaited(n)' = Awaited(n)
    BY <2>1 DEF Awaited
  <2> QED BY <2>1, <2>2 DEF Asked
<1>4. Line' = [i \in DOMAIN Line |-> [Line[i] EXCEPT !.live = @ /\ Line[i].m # m]]
  <2>1. CASE ex.at = "idle"
    BY <1>1, <1>2, <2>1 DEF Line
  <2>2. CASE ex.at # "idle"
    <3>1. Line = <<ex.in>> \o queue /\ Line' = <<ex'.in>> \o queue'
      BY <1>2, <2>2 DEF Line
    <3>2. /\ DOMAIN Line = 1..(Len(queue) + 1) /\ Line[1] = ex.in
          /\ \A i \in 2..(Len(queue) + 1) : Line[i] = queue[i - 1]
      BY <1>1, <2>2, <3>1
    <3>3. queue' \in Seq(Intent) /\ Len(queue') = Len(queue)
      <4>1. DOMAIN queue' = DOMAIN queue /\ queue' \in Seq(Intent)
        BY <1>1, ContextDoneStep DEF IInv, ControlTypeOK
      <4> QED BY <1>1, <4>1
    <3>4. /\ DOMAIN Line' = 1..(Len(queue) + 1) /\ Line'[1] = ex'.in
          /\ \A i \in 2..(Len(queue) + 1) : Line'[i] = queue'[i - 1]
      BY <3>1, <3>3
    <3> DEFINE given == [i \in DOMAIN Line |-> [Line[i] EXCEPT !.live = @ /\ Line[i].m # m]]
    <3>5. ASSUME NEW i \in 2..(Len(queue) + 1)
          PROVE  Line'[i] = given[i]
      <4>1. i - 1 \in DOMAIN queue /\ i \in DOMAIN Line
        BY <1>1, <3>2
      <4>2. queue'[i - 1] = [queue[i - 1] EXCEPT !.live = @ /\ queue[i - 1].m # m]
        BY <1>1, <4>1
      <4>3. Line[i] = queue[i - 1] /\ Line'[i] = queue'[i - 1]
        BY <3>2, <3>4
      <4> QED BY <4>1, <4>2, <4>3
    <3>6. 1 \in DOMAIN Line /\ Line'[1] = given[1]
      BY <1>1, <1>2, <3>2, <3>4
    <3>7. \A i \in 1..(Len(queue) + 1) : Line'[i] = given[i]
      <4>1. Len(queue) \in Nat /\ \A i \in 1..(Len(queue) + 1) : i = 1 \/ i \in 2..(Len(queue) + 1)
        BY <1>1
      <4> HIDE DEF given
      <4> QED BY <3>5, <3>6, <4>1
    <3>8. /\ Line' = [i \in 1..(Len(queue) + 1) |-> Line'[i]]
          /\ given = [i \in 1..(Len(queue) + 1) |-> given[i]]
      <4>1. ex'.in \in Intent
        BY <1>2, <2>2, ContextDoneStep DEF IInv, ControlTypeOK
      <4>2. Line' \in Seq(Intent)
        BY <3>1, <3>3, <4>1, LineProperties
      <4> QED BY <3>2, <3>4, <4>2
    <3> HIDE DEF given
    <3>9. Line' = given
      BY <3>7, <3>8
    <3> QED BY <3>9 DEF given
  <2> QED BY <2>1, <2>2
<1>5. m \in Over /\ Acted' = Acted /\ placed' = placed /\ Len(mempool') = Len(mempool)
      /\ Over' = Over
  BY <1>1, <1>2 DEF Over, Acted
<1> QED BY <1>3, <1>4, <1>5 DEF Service!GiveUp

\* What happens between calls, or inside one, that no caller could tell.
LEMMA StepsUnseen ==
  ASSUME IInv, UNCHANGED <<phase, placed, mempool>>,
         \A m \in Market : pc'[m] = pc[m] \/ (pc[m] \notin Waiting /\ pc'[m] \notin Waiting),
         Line' = Line, Acted' = Acted
  PROVE  UNCHANGED Service!vars
<1>1. Asked' = Asked
  BY DEF Asked, Awaited
<1> QED BY <1>1 DEF Service!vars, Over

LEMMA StepServes == IInv /\ PlacingInv /\ [Next]_vars => [Service!Next]_Service!vars
<1> SUFFICES ASSUME IInv, PlacingInv, [Next]_vars
             PROVE  Service!Next \/ UNCHANGED Service!vars
  OBVIOUS
<1>t. /\ ControlTypeOK /\ VenueTypeOK /\ queue \in Seq(Intent) /\ pc \in [Market -> LoopStates]
      /\ plan \in [Market -> SUBSET Side] /\ pull \in [Market -> SUBSET OrderIds]
      /\ (ex.at # "idle" => ex.in \in Intent) /\ mempool \in Seq(Intent)
  BY DEF IInv, ControlTypeOK, VenueTypeOK
<1>u. ASSUME UNCHANGED <<phase, placed, mempool, queue, ex>>,
             \A m \in Market : pc'[m] = pc[m] \/ (pc[m] \notin Waiting /\ pc'[m] \notin Waiting)
      PROVE  UNCHANGED Service!vars
  BY <1>u, StepsUnseen DEF Line, Acted
<1>r. ASSUME ex.at # "idle", Reply, queue' = queue, UNCHANGED <<phase, placed>>,
             mempool' = mempool \/ (~Acted /\ Len(mempool') = Len(mempool) + 1)
      PROVE  Service!Next
  BY <1>r, ReplyReturns DEF Service!Next
\* The executor.
<1>1. CASE Dequeue
  <2>1. /\ ex.at = "idle" /\ ex'.at = "check" /\ ex'.in = Head(queue) /\ queue' = Tail(queue)
        /\ queue # <<>> /\ UNCHANGED <<phase, placed, mempool, pc>>
    BY <1>1 DEF Dequeue, IdleEx, venue, loops
  <2>2. Line' = Line
    BY <1>t, <2>1, QueuedAfterReceive, LineProperties DEF Line
  <2> QED BY <2>1, <2>2, StepsUnseen DEF Acted
<1>2. CASE Cancel
  BY <1>2, CancelReturns DEF Service!Next
<1>3. CASE GuardExposure
  <2>1. CASE Reply
    BY <1>3, <1>r, <2>1 DEF GuardExposure, venue
  <2>2. CASE ex' = [ex EXCEPT !.at = "send"] /\ UNCHANGED <<pc, plan>>
    BY <1>3, <1>t, <2>2, Advanced, StepsUnseen DEF GuardExposure, venue, Line, Acted
  <2> QED BY <1>3, <2>1, <2>2 DEF GuardExposure
<1>4. CASE SendFails \/ ReceiptTimesOut \/ ReserveResting \/ RecordFill
  BY <1>4, <1>r DEF SendFails, ReceiptTimesOut, ReserveResting, RecordFill, venue
<1>5. CASE SendAbandoned
  <2>1. ex.at = "send" /\ Reply /\ queue' = queue /\ UNCHANGED <<phase, placed>>
        /\ ex.in \in Intent /\ mempool' = Append(mempool, [ex.in EXCEPT !.live = FALSE])
    BY <1>5, <1>t DEF SendAbandoned, Abandon
  <2>2. Len(mempool') = Len(mempool) + 1
    BY <1>t, <2>1 DEF Intent
  <2> QED BY <1>r, <2>1, <2>2 DEF Acted
<1>6. ASSUME NEW got, SendLands(got)
      PROVE  Service!Next
  <2>1. /\ ex.at = "send" /\ ex'.at = "receipt" /\ ex'.in = ex.in /\ mempool = <<>>
        /\ placed' = placed + 1 /\ UNCHANGED <<phase, mempool, pc, queue>>
    BY <1>6, <1>t, Landed DEF SendLands, PlacementMined, loops
  <2>2. Line' = Line /\ Line # <<>> /\ Head(Line) = ex.in /\ Head(Line).act # "cancel"
    BY <1>t, <2>1, LineProperties DEF Line, PlacingInv
  <2>3. ~Acted /\ Acted' = TRUE /\ Over' = Over /\ Asked' = Asked /\ Len(mempool) = 0
    BY <2>1 DEF Acted, Over, Asked, Awaited
  <2>4. Service!Act
    BY <2>1, <2>2, <2>3 DEF Service!Act
  <2> QED BY <2>4 DEF Service!Next
<1>7. CASE TakeReceipt
  <2>1. CASE Reply
    BY <1>7, <1>r, <2>1 DEF TakeReceipt, venue
  <2>2. CASE ex' = [ex EXCEPT !.at = "row"] /\ UNCHANGED <<pc, plan>>
    BY <1>7, <1>t, <2>2, Advanced, StepsUnseen DEF TakeReceipt, venue, Line, Acted
  <2> QED BY <1>7, <2>1, <2>2 DEF TakeReceipt
<1>8. CASE Executor
  BY <1>1, <1>2, <1>3, <1>4, <1>5, <1>6, <1>7, <1>8 DEF Executor
\* The venue and the process.
<1>9. CASE LateMined
  <2>1. /\ mempool # <<>> /\ mempool' = Tail(mempool)
        /\ UNCHANGED <<phase, pc, queue, ex>> /\ placed' \in {placed, placed + 1}
    BY <1>9 DEF LateMined, CancelMined, PlacementMined, loops
  <2>2. Len(mempool) > 0 /\ Len(mempool') = Len(mempool) - 1
    BY <1>t, <2>1, QueuedAfterReceive
  <2>3. Service!Late
    BY <2>1, <2>2 DEF Service!Late, Asked, Awaited, Line, Acted, Over
  <2> QED BY <2>3 DEF Service!Next
<1>10. ASSUME NEW m \in Market, WindowExpires(m)
       PROVE  Service!Next
  <2>1. /\ Over' = Over \cup {m} /\ UNCHANGED <<placed, mempool, pc, queue, ex>>
    BY <1>10, <1>t DEF WindowExpires, Over, VenueTypeOK, loops
  <2>2. Service!TimeUp(m)
    BY <2>1 DEF Service!TimeUp, Asked, Awaited, Line, Acted
  <2> QED BY <2>2 DEF Service!Next
<1>11. CASE CrashRestart
  <2>1. /\ UNCHANGED <<phase, placed, mempool>> /\ queue' = <<>> /\ ex'.at = "idle"
        /\ \A m \in Market : pc'[m] = "off"
    BY <1>11 DEF CrashRestart, venue, IdleEx
  <2>2. Service!Die
    BY <2>1 DEF Service!Die, Asked, Waiting, Line, Acted, Over
  <2> QED BY <2>2 DEF Service!Next
<1>12. CASE Venue
  <2>1. ASSUME NEW o, OrderAges(o) \/ \E q : CounterpartyFills(o, q)
        PROVE  UNCHANGED Service!vars
    BY <1>u, <2>1 DEF OrderAges, CounterpartyFills, loops
  <2> QED BY <1>9, <1>10, <1>12, <2>1 DEF Venue
\* The loops and the sweep.
<1>13. CASE Reconcile \/ UNCHANGED vars
  BY <1>13, <1>u
  DEF Reconcile, IngestRow, IngestTrack, IngestInventory, IngestRelease, vars, venue, loops
<1>14. ASSUME NEW m \in Market, NEW act \in {"make", "take", "cancel"}, NEW side \in Side,
              NEW oid \in OrderIds, NEW w \in Waiting, Emit(act, m, side, oid),
              pc[m] \notin Waiting, pc' = [pc EXCEPT ![m] = w],
              act = CASE w = "cancelling" -> "cancel" [] w = "making" -> "make" [] OTHER -> "take",
              UNCHANGED <<ex, phase, placed, mempool>>
       PROVE  Service!Next
  BY <1>14, SendAsks DEF Service!Next
<1>15. ASSUME NEW m \in Market, NEW s \in plan[m], DecideTake(m, s)
       PROVE  Service!Next
  <2>1. /\ Emit("take", m, s, 0) /\ pc' = [pc EXCEPT ![m] = "taking"] /\ pc[m] = "tick"
        /\ s \in Side /\ UNCHANGED <<ex, phase, placed, mempool>>
    BY <1>t, <1>15 DEF DecideTake, venue
  <2>2. pc[m] \notin Waiting /\ "taking" \in Waiting /\ 0 \in OrderIds
    BY <2>1, EngineAssumption DEF Waiting, OrderIds, EngineAssumption
  <2> QED BY <1>14, <2>1, <2>2
<1>16. ASSUME NEW m \in Market, NEW id \in pull[m], PullOne(m, id)
       PROVE  Service!Next
  BY <1>t, <1>14, <1>16 DEF PullOne, Waiting, Side, venue
<1>17. ASSUME NEW m \in Market, NEW s \in Side, QuoteSide(m, s)
       PROVE  Service!Next \/ UNCHANGED Service!vars
  <2>1. pc[m] = "quote" /\ UNCHANGED <<ex, phase, placed, mempool>>
    BY <1>17 DEF QuoteSide, venue
  <2>2. CASE Emit("make", m, s, 0) /\ pc' = [pc EXCEPT ![m] = "making"]
    <3>1. pc[m] \notin Waiting /\ "making" \in Waiting /\ 0 \in OrderIds
      BY <2>1, EngineAssumption DEF Waiting, OrderIds, EngineAssumption
    <3> QED BY <1>14, <2>1, <2>2, <3>1
  <2>3. CASE UNCHANGED queue /\ pc' = [pc EXCEPT ![m] = Quoting(m)]
    BY <1>t, <1>u, <2>1, <2>3 DEF Quoting, Waiting
  <2> QED BY <1>17, <2>2, <2>3 DEF QuoteSide
<1>18. ASSUME NEW m \in Market, ContextDone(m)
       PROVE  Service!Next
  BY <1>18, ContextGivesUp DEF Service!Next
<1>19. ASSUME NEW m \in Market,
              \/ Spawn(m) \/ Settle(m) \/ SetupDone(m) \/ SetupFails(m) \/ Tick(m) \/ TickEnds(m)
              \/ (\E sides \in {plan[m], {}} : DecideQuote(m, sides)) \/ PullDone(m) \/ Exit(m)
       PROVE  UNCHANGED Service!vars
  <2>1. /\ UNCHANGED <<phase, placed, mempool, queue, ex>> /\ pc[m] \notin Waiting
        /\ \E to \in {"setup", "idle", "off", "tick", "pull", "quote", "settling"} :
             pc' = [pc EXCEPT ![m] = to]
    BY <1>19
    DEF Spawn, Settle, SetupDone, SetupFails, Reap, Tick, TickEnds, DecideQuote, PullDone, Exit,
        Quoting, Waiting, venue
  <2> QED BY <1>t, <1>u, <2>1 DEF Waiting
<1>20. ASSUME NEW m \in Market, Loop(m)
       PROVE  Service!Next \/ UNCHANGED Service!vars
  BY <1>15, <1>16, <1>17, <1>18, <1>19, <1>20 DEF Loop
<1> QED BY <1>8, <1>11, <1>12, <1>13, <1>19, <1>20 DEF Next

\* The engine implements synchronous calls, for any number of windows and any capacity of
\* the channel: whatever mix of lost receipts, finished contexts and crashes, each loop is
\* resumed by its own answer only, calls are dealt with in the order they were sent, and
\* none puts two orders on the venue (engine.go:590-640, 645-788; trader.go:59-147).
THEOREM EngineServesCalls == Spec => ServedInTurn
<1>1. Init => PlacingInv /\ Service!Init
  BY DEF Init, PlacingInv, Service!Init, Asked, Waiting, Line, Acted, Over, IdleEx
<1>2. IInv /\ PlacingInv /\ [Next]_vars => PlacingInv' /\ [Service!Next]_Service!vars
  BY PlacingInductive, StepServes
<1> QED BY <1>1, <1>2, IInvHolds, PTL DEF Spec, ServedInTurn, Service!Spec
=============================================================================
