----------------------------- MODULE WindowProofs -----------------------------
(***************************************************************************)
(* For any set of windows, any faults and any number of restarts: what a    *)
(* window is settled as, why one is left unsettled, and what a loop knows of *)
(* its position.                                                            *)
(***************************************************************************)
EXTENDS WindowProperties, TLAPS

-----------------------------------------------------------------------------
(* Types.                                                                   *)

\* What a settle goroutine has read is what the oracle answered.
FoundIsAnswer ==
  \A m \in Window :
    /\ watch[m] = "resolved" => phase[m] \in Outcome
    /\ watch[m] = "known" => phase[m] \in Outcome /\ found[m] = phase[m]
ExcusesTyped ==
  excuses \in [Window -> SUBSET {"not watched", "timeout", "not recorded", "no row",
                                 "position forgotten", "fill not recorded", "late fill"}]
LifeInv == WindowTypeOK /\ ExcusesTyped /\ FoundIsAnswer /\ SettledAsResolved

\* WindowTypeOK in parts.
TypedParts ==
  /\ phase \in [Window -> {"live", "over"} \cup Outcome]
  /\ loop \in [Window -> {"off", "setup", "quoting"}]
  /\ watch \in [Window -> {"off", "waiting", "resolved", "known"}]
  /\ found \in [Window -> Outcome \cup {None}]
  /\ row \in [Window -> {"none", "open"} \cup Outcome]
TypedNumbers == inv \in [Window -> Int] /\ booked \in [Window -> Nat] /\ crashes \in Nat
TypedSets ==
  /\ tracked \in SUBSET Window /\ order \in SUBSET Window /\ unseen \in SUBSET Window
  /\ job \in Window \cup {None} /\ sweep \in Window \cup {None}

\* No step takes a number or an excuse out of its type.
LEMMA NumbersKept == TypedNumbers /\ TypedSets /\ [Next]_vars => TypedNumbers'
<1> SUFFICES ASSUME TypedNumbers, TypedSets, [Next]_vars PROVE TypedNumbers'
  OBVIOUS
<1>0. inv \in [Window -> Int] /\ booked \in [Window -> Nat] /\ crashes \in Nat
  BY DEF TypedNumbers
<1>1. ASSUME NEW m \in Window,
             SetupFails(m) \/ End(m) \/ Receipt(m) \/ Ingest(m)
      PROVE  TypedNumbers'
  <2>1. inv' = inv \/ inv' = [inv EXCEPT ![m] = 0] \/ inv' = [inv EXCEPT ![m] = @ + 1]
    BY <1>1 DEF SetupFails, End, Receipt, Ingest, Reap
  <2>2. booked' = booked \/ booked' = [booked EXCEPT ![m] = @ + 1]
    BY <1>1 DEF SetupFails, End, Receipt, Ingest, ledger
  <2>3. crashes' = crashes
    BY <1>1 DEF SetupFails, End, Receipt, Ingest
  <2>4. inv' \in [Window -> Int]
    BY <1>0, <2>1
  <2>5. booked' \in [Window -> Nat]
    BY <1>0, <2>2
  <2> QED BY <1>0, <2>3, <2>4, <2>5 DEF TypedNumbers
<1>2. CASE RecordFill
  <2>1. /\ booked' = booked \/ booked' = [booked EXCEPT ![job] = @ + 1]
        /\ UNCHANGED <<inv, crashes>>
    BY <1>2 DEF RecordFill
  <2>2. booked' \in [Window -> Nat]
    BY <1>0, <2>1
  <2> QED BY <1>0, <2>1, <2>2 DEF TypedNumbers
<1>3. CASE AddInventory
  <2>1. PICK m \in Window : inv' = [inv EXCEPT ![m] = @ + 1] /\ UNCHANGED <<booked, crashes>>
    BY <1>3 DEF AddInventory, TypedSets, ledger
  <2>2. inv' \in [Window -> Int]
    BY <1>0, <2>1
  <2> QED BY <1>0, <2>1, <2>2 DEF TypedNumbers
<1>4. CASE Restart
  <2>1. /\ inv' = [m \in Window |-> IF Restored(m) THEN booked[m] ELSE 0]
        /\ crashes' = crashes + 1 /\ booked' = booked
    BY <1>4 DEF Restart, ledger
  <2>2. \A m \in Window : booked[m] \in Int
    BY <1>0
  <2>3. inv' \in [Window -> Int]
    BY <2>1, <2>2
  <2>4. crashes' \in Nat
    BY <1>0, <2>1
  <2> QED BY <1>0, <2>1, <2>3, <2>4 DEF TypedNumbers
<1>5. ASSUME UNCHANGED <<inv, booked, crashes>> PROVE TypedNumbers'
  BY <1>5 DEF TypedNumbers
<1>6. ASSUME NEW m \in Window,
             \/ Expire(m) \/ Resolve(m) \/ Spawn(m) \/ SetupDone(m) \/ Place(m) \/ Look(m)
             \/ ReadWinner(m) \/ Settle(m) \/ Timeout(m) \/ NoFill(m) \/ Counterparty(m)
      PROVE  UNCHANGED <<inv, booked, crashes>>
  BY <1>6 DEF Expire, Resolve, Spawn, SetupDone, Place, Look, ReadWinner, Settle, Timeout, NoFill,
              Counterparty, memory, ledger
<1>7. UNCHANGED vars => UNCHANGED <<inv, booked, crashes>>
  BY DEF vars, memory, ledger
<1> QED
  BY <1>1, <1>2, <1>3, <1>4, <1>5, <1>6, <1>7 DEF Next, Loop, Watcher

LEMMA ExcusesKept == TypedSets /\ ExcusesTyped /\ [Next]_vars => ExcusesTyped'
<1> SUFFICES ASSUME TypedSets, ExcusesTyped, [Next]_vars PROVE ExcusesTyped'
  OBVIOUS
<1> DEFINE All == {"not watched", "timeout", "not recorded", "no row",
                   "position forgotten", "fill not recorded", "late fill"}
<1>1. ASSUME NEW m \in Window, NEW what \in SUBSET All, Excuse(m, what) PROVE ExcusesTyped'
  BY <1>1 DEF ExcusesTyped, Excuse
<1>2. ASSUME NEW m \in Window, SetupDone(m) PROVE ExcusesTyped'
  BY <1>2 DEF SetupDone, ExcusesTyped
<1>3. ASSUME NEW m \in Window, SetupFails(m) PROVE ExcusesTyped'
  <2>1. PICK what \in SUBSET All : Excuse(m, what)
    BY <1>3 DEF SetupFails
  <2> QED BY <1>1, <2>1
<1>4. ASSUME UNCHANGED excuses PROVE ExcusesTyped'
  BY <1>4 DEF ExcusesTyped
<1>5. ASSUME NEW m \in Window, Settle(m) PROVE ExcusesTyped'
  <2>1. Excuse(m, {"not recorded"}) \/ UNCHANGED excuses
    BY <1>5 DEF Settle
  <2>2. {"not recorded"} \in SUBSET All
    OBVIOUS
  <2> QED BY <1>1, <1>4, <2>1, <2>2
<1>6. ASSUME NEW m \in Window, Timeout(m) PROVE ExcusesTyped'
  <2>1. {"timeout"} \in SUBSET All
    OBVIOUS
  <2> QED BY <1>1, <1>6, <2>1 DEF Timeout
<1>7. CASE RecordFill
  <2>1. Excuse(job, {"fill not recorded"}) \/ UNCHANGED excuses
    BY <1>7 DEF RecordFill
  <2>2. {"fill not recorded"} \in SUBSET All /\ job \in Window
    BY <1>7 DEF RecordFill, TypedSets
  <2> QED BY <1>1, <1>4, <2>1, <2>2
<1>8. CASE AddInventory
  <2>1. PICK what \in SUBSET All : Excuse(sweep, what)
    BY <1>8 DEF AddInventory
  <2>2. sweep \in Window
    BY <1>8 DEF AddInventory, TypedSets
  <2> QED BY <1>1, <2>1, <2>2
<1>9. CASE Restart
  BY <1>9 DEF Restart, ExcusesTyped
<1>10. ASSUME NEW m \in Window,
              \/ Expire(m) \/ Resolve(m) \/ Spawn(m) \/ Place(m) \/ End(m) \/ Look(m)
              \/ ReadWinner(m) \/ NoFill(m) \/ Receipt(m) \/ Counterparty(m) \/ Ingest(m)
       PROVE  UNCHANGED excuses
  BY <1>10 DEF Expire, Resolve, Spawn, Place, End, Look, ReadWinner, NoFill, Receipt, Counterparty,
               Ingest
<1>11. UNCHANGED vars => UNCHANGED excuses
  BY DEF vars
<1> QED
  BY <1>2, <1>3, <1>4, <1>5, <1>6, <1>7, <1>8, <1>9, <1>10, <1>11 DEF Next, Loop, Watcher

LEMMA LifeInvInit == Init => LifeInv
BY NoneAssumption DEF Init, LifeInv, WindowTypeOK, ExcusesTyped, FoundIsAnswer, SettledAsResolved, Outcome

LEMMA LifeInvKept == LifeInv /\ [Next]_vars => LifeInv'
<1> DEFINE Rest == TypedParts' /\ TypedSets' /\ FoundIsAnswer' /\ SettledAsResolved'
<1> SUFFICES ASSUME LifeInv, [Next]_vars PROVE Rest
  BY NumbersKept, ExcusesKept DEF LifeInv, WindowTypeOK, TypedParts, TypedNumbers, TypedSets
<1>0. TypedParts /\ TypedSets /\ FoundIsAnswer /\ SettledAsResolved
  BY DEF LifeInv, WindowTypeOK, TypedParts, TypedSets
<1> USE DEF TypedParts, TypedSets, FoundIsAnswer, SettledAsResolved, venue, loops, memory, ledger,
            Reap, Outcome
<1>1. ASSUME NEW m \in Window, Expire(m) PROVE Rest
  BY <1>0, <1>1 DEF Expire
<1>2. ASSUME NEW m \in Window, Resolve(m) PROVE Rest
  BY <1>0, <1>2 DEF Resolve
<1>3. ASSUME NEW m \in Window, Spawn(m) PROVE Rest
  BY <1>0, <1>3 DEF Spawn
<1>4. ASSUME NEW m \in Window, SetupDone(m) PROVE Rest
  BY <1>0, <1>4 DEF SetupDone
<1>5. ASSUME NEW m \in Window, SetupFails(m) PROVE Rest
  BY <1>0, <1>5 DEF SetupFails
<1>6. ASSUME NEW m \in Window, Place(m) PROVE Rest
  BY <1>0, <1>6 DEF Place
<1>7. ASSUME NEW m \in Window, End(m) PROVE Rest
  BY <1>0, <1>7 DEF End
<1>8. ASSUME NEW m \in Window, Look(m) PROVE Rest
  BY <1>0, <1>8 DEF Look
<1>9. ASSUME NEW m \in Window, ReadWinner(m) PROVE Rest
  BY <1>0, <1>9 DEF ReadWinner
<1>10. ASSUME NEW m \in Window, Settle(m) PROVE Rest
  <2>1. \/ row' = [row EXCEPT ![m] = found[m]] \/ row' = row
        \/ row' = [row EXCEPT ![m] = "none"]
    BY <1>0, <1>10 DEF Settle
  <2>2. found[m] = phase[m] /\ phase[m] \in Outcome
    BY <1>0, <1>10 DEF Settle
  <2>3. UNCHANGED <<phase, unseen, loop, found, inv, tracked, order, job, sweep>>
        /\ watch' = [watch EXCEPT ![m] = "off"]
    BY <1>10 DEF Settle
  <2>4. TypedParts' /\ TypedSets'
    BY <1>0, <2>1, <2>2, <2>3
  <2>5. FoundIsAnswer'
    BY <1>0, <2>3
  <2>6. SettledAsResolved'
    BY <1>0, <2>1, <2>2, <2>3
  <2> QED BY <2>4, <2>5, <2>6
<1>11. ASSUME NEW m \in Window, Timeout(m) PROVE Rest
  BY <1>0, <1>11 DEF Timeout
<1>12. ASSUME NEW m \in Window, NoFill(m) PROVE Rest
  BY <1>0, <1>12 DEF NoFill
<1>13. ASSUME NEW m \in Window, Receipt(m) PROVE Rest
  BY <1>0, <1>13 DEF Receipt
<1>14. ASSUME NEW m \in Window, Counterparty(m) PROVE Rest
  BY <1>0, <1>14 DEF Counterparty
<1>15. ASSUME NEW m \in Window, Ingest(m) PROVE Rest
  BY <1>0, <1>15 DEF Ingest
<1>16. CASE RecordFill
  BY <1>0, <1>16 DEF RecordFill
<1>17. CASE AddInventory
  BY <1>0, <1>17 DEF AddInventory
<1>18. CASE Restart
  BY <1>0, <1>18 DEF Restart
<1>19. CASE UNCHANGED vars
  BY <1>0, <1>19 DEF vars
<1> HIDE DEF Rest
<1> QED
  BY <1>1, <1>2, <1>3, <1>4, <1>5, <1>6, <1>7, <1>8, <1>9, <1>10, <1>11, <1>12, <1>13,
     <1>14, <1>15, <1>16, <1>17, <1>18, <1>19 DEF Next, Loop, Watcher

LEMMA LifeInvHolds == Spec => []LifeInv
BY LifeInvInit, LifeInvKept, PTL DEF Spec

\* The variables of a window have the values the code gives them.
THEOREM WindowTyped == Spec => []WindowTypeOK
BY LifeInvHolds, PTL DEF LifeInv

\* "Never guess the winner" (engine.go:1107-1122): whatever is read late, read again or
\* lost, a window is settled only as the oracle answered.
THEOREM SettlementIsTheAnswer == Spec => []SettledAsResolved
BY LifeInvHolds, PTL DEF LifeInv
-----------------------------------------------------------------------------
(* Why a window is unsettled.                                               *)

Excused(m) == \/ "not watched" \in excuses[m] \/ "timeout" \in excuses[m]
              \/ "not recorded" \in excuses[m]
\* An unsettled row has a loop that will see the end, a watcher, or a reason.
ReasonInv ==
  \A w \in Window :
    row[w] = "open" => loop[w] = "quoting" \/ watch[w] # "off" \/ Excused(w)

LEMMA ReasonKept == LifeInv /\ ReasonInv /\ [Next]_vars => ReasonInv'
<1> SUFFICES ASSUME LifeInv, ReasonInv, [Next]_vars, NEW w \in Window, row'[w] = "open"
             PROVE  loop'[w] = "quoting" \/ watch'[w] # "off" \/ Excused(w)'
  BY DEF ReasonInv
<1> DEFINE Goal == loop'[w] = "quoting" \/ watch'[w] # "off" \/ Excused(w)'
<1>0. /\ loop \in [Window -> {"off", "setup", "quoting"}] /\ ExcusesTyped
      /\ watch \in [Window -> {"off", "waiting", "resolved", "known"}]
      /\ row \in [Window -> {"none", "open"} \cup Outcome]
      /\ row[w] = "open" => loop[w] = "quoting" \/ watch[w] # "off" \/ Excused(w)
      /\ watch[w] = "known" => found[w] \in Outcome
  BY DEF LifeInv, WindowTypeOK, ReasonInv, FoundIsAnswer
<1> USE DEF Excused, ExcusesTyped, Excuse, Outcome, Reap, venue, loops, memory, ledger
<1>1. ASSUME NEW m \in Window, Expire(m) PROVE Goal
  BY <1>0, <1>1 DEF Expire
<1>2. ASSUME NEW m \in Window, Resolve(m) PROVE Goal
  BY <1>0, <1>2 DEF Resolve
<1>3. ASSUME NEW m \in Window, Spawn(m) PROVE Goal
  BY <1>0, <1>3 DEF Spawn
<1>4. ASSUME NEW m \in Window, SetupDone(m) PROVE Goal
  BY <1>0, <1>4 DEF SetupDone
<1>5. ASSUME NEW m \in Window, SetupFails(m) PROVE Goal
  BY <1>0, <1>5 DEF SetupFails
<1>6. ASSUME NEW m \in Window, Place(m) PROVE Goal
  BY <1>0, <1>6 DEF Place
<1>7. ASSUME NEW m \in Window, End(m) PROVE Goal
  BY <1>0, <1>7 DEF End
<1>8. ASSUME NEW m \in Window, Look(m) PROVE Goal
  BY <1>0, <1>8 DEF Look
<1>9. ASSUME NEW m \in Window, ReadWinner(m) PROVE Goal
  BY <1>0, <1>9 DEF ReadWinner
<1>10. ASSUME NEW m \in Window, Settle(m) PROVE Goal
  <2>1. CASE w # m
    BY <1>0, <1>10, <2>1 DEF Settle
  <2>2. CASE w = m
    <3>1. found[m] \in Outcome /\ watch[m] = "known"
      BY <1>0, <1>10, <2>2 DEF Settle
    <3>2. row' # [row EXCEPT ![m] = IF @ = "none" THEN @ ELSE found[m]]
      BY <1>0, <2>2, <3>1
    <3>3. excuses' = [excuses EXCEPT ![m] = @ \cup {"not recorded"}]
      BY <1>10, <3>2 DEF Settle
    <3> QED BY <1>0, <2>2, <3>3
  <2> QED BY <2>1, <2>2
<1>11. ASSUME NEW m \in Window, Timeout(m) PROVE Goal
  BY <1>0, <1>11 DEF Timeout
<1>12. ASSUME NEW m \in Window, NoFill(m) PROVE Goal
  BY <1>0, <1>12 DEF NoFill
<1>13. ASSUME NEW m \in Window, Receipt(m) PROVE Goal
  BY <1>0, <1>13 DEF Receipt
<1>14. ASSUME NEW m \in Window, Counterparty(m) PROVE Goal
  BY <1>0, <1>14 DEF Counterparty
<1>15. ASSUME NEW m \in Window, Ingest(m) PROVE Goal
  BY <1>0, <1>15 DEF Ingest
<1>16. CASE RecordFill
  BY <1>0, <1>16 DEF RecordFill
<1>17. CASE AddInventory
  BY <1>0, <1>17 DEF AddInventory
<1>18. CASE Restart
  BY <1>0, <1>18 DEF Restart
<1>19. CASE UNCHANGED vars
  BY <1>0, <1>19 DEF vars
<1> QED
  BY <1>1, <1>2, <1>3, <1>4, <1>5, <1>6, <1>7, <1>8, <1>9, <1>10, <1>11, <1>12, <1>13,
     <1>14, <1>15, <1>16, <1>17, <1>18, <1>19 DEF Next, Loop, Watcher

\* Once nobody works for an ended window with a row, it is settled or there is a reason
\* why not (engine.go:345-367, 1087-1126): no branch of the loop forgets the watcher.
THEOREM UnsettledHasAReason == Spec => []UnsettledForAReason
<1>1. Init => ReasonInv
  BY DEF Init, ReasonInv
<1>2. ReasonInv => UnsettledForAReason
  <2>1. \A m \in Window : Excused(m) => excuses[m] \cap Unsettled # {}
    BY DEF Excused, Unsettled
  <2> QED BY <2>1 DEF ReasonInv, UnsettledForAReason
<1> QED BY <1>1, <1>2, LifeInvHolds, ReasonKept, PTL DEF Spec
-----------------------------------------------------------------------------
(* What a loop knows of its position.                                       *)

Lost(m) == \/ "position forgotten" \in excuses[m] \/ "no row" \in excuses[m]
           \/ "fill not recorded" \in excuses[m]
Half(x, m) == IF x = m THEN 1 ELSE 0
\* Memory and ledger agree but for what the sweep owes memory and the executor the
\* ledger, and the ledger has no fill of a window it does not know.
PositionInv ==
  \A w \in Window :
    /\ phase[w] = "live" \/ loop[w] = "quoting"
         => inv[w] + Half(sweep, w) = booked[w] + Half(job, w) \/ Lost(w)
    /\ loop[w] = "quoting" \/ w \in order \/ job = w \/ booked[w] # 0
         => row[w] # "none" \/ "no row" \in excuses[w]

LEMMA HalfFacts ==
  ASSUME NEW x, NEW w
  PROVE  Half(x, w) \in Int /\ (x # w => Half(x, w) = 0) /\ (x = w => Half(x, w) = 1)
BY DEF Half

LEMMA OneMore ==
  ASSUME NEW f \in [Window -> Int], NEW m \in Window, NEW w \in Window
  PROVE  [f EXCEPT ![m] = @ + 1][w] = f[w] + Half(m, w)
<1>1. CASE m = w
  BY <1>1, HalfFacts
<1>2. CASE m # w
  BY <1>2, HalfFacts
<1> QED BY <1>1, <1>2

LEMMA ExcusesStay ==
  ASSUME ExcusesTyped, NEW m \in Window, NEW what, Excuse(m, what) \/ UNCHANGED excuses,
         NEW w \in Window
  PROVE  /\ Lost(w) => Lost(w)'
         /\ "no row" \in excuses[w] => "no row" \in excuses'[w]
<1>1. \A x : x \in excuses[w] => x \in excuses'[w]
  <2>1. excuses'[w] = excuses[w] \/ excuses'[w] = excuses[w] \cup what
    BY DEF ExcusesTyped, Excuse
  <2> QED BY <2>1
<1> QED BY <1>1 DEF Lost

LEMMA PositionKept == LifeInv /\ PositionInv /\ [Next]_vars => PositionInv'
<1> SUFFICES ASSUME LifeInv, PositionInv, [Next]_vars, NEW w \in Window
             PROVE  /\ phase'[w] = "live" \/ loop'[w] = "quoting"
                         => inv'[w] + Half(sweep', w) = booked'[w] + Half(job', w) \/ Lost(w)'
                    /\ loop'[w] = "quoting" \/ w \in order' \/ job' = w \/ booked'[w] # 0
                         => row'[w] # "none" \/ "no row" \in excuses'[w]
  BY DEF PositionInv, Half
<1> DEFINE Goal == /\ phase'[w] = "live" \/ loop'[w] = "quoting"
                         => inv'[w] + Half(sweep', w) = booked'[w] + Half(job', w) \/ Lost(w)'
                   /\ loop'[w] = "quoting" \/ w \in order' \/ job' = w \/ booked'[w] # 0
                         => row'[w] # "none" \/ "no row" \in excuses'[w]
<1>0. /\ phase \in [Window -> {"live", "over"} \cup Outcome]
      /\ loop \in [Window -> {"off", "setup", "quoting"}] /\ ExcusesTyped
      /\ inv \in [Window -> Int] /\ booked \in [Window -> Nat]
      /\ row \in [Window -> {"none", "open"} \cup Outcome]
      /\ job \in Window \cup {None} /\ sweep \in Window \cup {None}
      /\ None \notin Window
      /\ row[w] \in Outcome => row[w] = phase[w]
      /\ watch[w] = "known" => found[w] \in Outcome
      /\ phase[w] = "live" \/ loop[w] = "quoting"
           => inv[w] + Half(sweep, w) = booked[w] + Half(job, w) \/ Lost(w)
      /\ loop[w] = "quoting" \/ w \in order \/ job = w \/ booked[w] # 0
           => row[w] # "none" \/ "no row" \in excuses[w]
  BY NoneAssumption DEF LifeInv, WindowTypeOK, PositionInv, SettledAsResolved, FoundIsAnswer
<1>a. /\ inv \in [Window -> Int] /\ booked \in [Window -> Int] /\ ExcusesTyped
      /\ row \in [Window -> {"none", "open"} \cup Outcome]
      /\ job \in Window \cup {None} /\ sweep \in Window \cup {None} /\ None \notin Window
      /\ watch[w] = "known" => found[w] \in Outcome
  <2>1. booked \in [Window -> Nat]
    BY <1>0
  <2>2. \A m \in Window : booked[m] \in Int
    BY <2>1
  <2> QED BY <1>0, <2>1, <2>2
<1>b. inv[w] \in Int /\ booked[w] \in Int /\ Half(sweep, w) \in Int /\ Half(job, w) \in Int
  BY <1>a, HalfFacts
<1>c. phase[w] = "live" \/ loop[w] = "quoting"
        => inv[w] + Half(sweep, w) = booked[w] + Half(job, w) \/ Lost(w)
  BY <1>0
<1>d. loop[w] = "quoting" \/ w \in order \/ job = w \/ booked[w] # 0
        => row[w] # "none" \/ "no row" \in excuses[w]
  BY <1>0
<1> USE DEF Lost, Half, ExcusesTyped, Excuse, Outcome, Reap, venue, loops, memory, ledger
<1>1. ASSUME NEW m \in Window, Expire(m) PROVE Goal
  BY <1>0, <1>1 DEF Expire
<1>2. ASSUME NEW m \in Window, Resolve(m) PROVE Goal
  BY <1>0, <1>2 DEF Resolve
<1>3. ASSUME NEW m \in Window, Spawn(m) PROVE Goal
  BY <1>0, <1>3 DEF Spawn
<1>4. ASSUME NEW m \in Window, SetupDone(m) PROVE Goal
  BY <1>0, <1>4 DEF SetupDone
<1>5. ASSUME NEW m \in Window, SetupFails(m) PROVE Goal
  BY <1>0, <1>5 DEF SetupFails
<1>6. ASSUME NEW m \in Window, Place(m) PROVE Goal
  BY <1>0, <1>6 DEF Place
<1>7. ASSUME NEW m \in Window, End(m) PROVE Goal
  BY <1>0, <1>7 DEF End
<1>8. ASSUME NEW m \in Window, Look(m) PROVE Goal
  BY <1>0, <1>8 DEF Look
<1>9. ASSUME NEW m \in Window, ReadWinner(m) PROVE Goal
  BY <1>0, <1>9 DEF ReadWinner
<1>10. ASSUME NEW m \in Window, Settle(m) PROVE Goal
  <2> HIDE DEF Lost, Half, ExcusesTyped, Excuse, Outcome
  <2>1. UNCHANGED <<phase, loop, inv, sweep, job, order, booked>>
    BY <1>10 DEF Settle
  <2>2. PICK what : Excuse(m, what) \/ UNCHANGED excuses
    BY <1>10 DEF Settle
  <2>3. (Lost(w) => Lost(w)') /\ ("no row" \in excuses[w] => "no row" \in excuses'[w])
    BY <1>a, <2>2, ExcusesStay
  <2>4. row[w] # "none" => row'[w] # "none"
    <3>1. row' = row \/ row' = [row EXCEPT ![m] = IF @ = "none" THEN @ ELSE found[m]]
      BY <1>10 DEF Settle
    <3>2. w = m => found[w] # "none"
      BY <1>a, <1>10 DEF Settle, Outcome
    <3> QED BY <1>a, <3>1, <3>2
  <2> QED BY <1>c, <1>d, <2>1, <2>3, <2>4
<1>11. ASSUME NEW m \in Window, Timeout(m) PROVE Goal
  BY <1>0, <1>11 DEF Timeout
<1>12. ASSUME NEW m \in Window, NoFill(m) PROVE Goal
  BY <1>0, <1>12 DEF NoFill
<1>13. ASSUME NEW m \in Window, Receipt(m) PROVE Goal
  <2> HIDE DEF Lost, Half, ExcusesTyped, Excuse, Outcome
  <2>1. UNCHANGED <<phase, loop, sweep, row, booked, excuses>> /\ job = None /\ job' = m
    BY <1>13 DEF Receipt
  <2>2. inv'[w] = inv[w] + Half(m, w)
    BY <1>a, <1>13, OneMore DEF Receipt
  <2>3. w \in order' \/ job' = w => w \in order
    BY <1>13 DEF Receipt
  <2>4. Half(job, w) = 0 /\ Half(m, w) \in Int
    BY <1>a, <2>1, HalfFacts
  <2>5. phase[w] = "live" \/ loop[w] = "quoting"
          => inv'[w] + Half(sweep, w) = booked[w] + Half(m, w) \/ Lost(w)
    BY <1>b, <1>c, <2>2, <2>4
  <2>6. Lost(w)' <=> Lost(w)
    BY <2>1 DEF Lost
  <2> QED BY <1>d, <2>1, <2>3, <2>5, <2>6
<1>14. ASSUME NEW m \in Window, Counterparty(m) PROVE Goal
  BY <1>0, <1>14 DEF Counterparty
<1>15. ASSUME NEW m \in Window, Ingest(m) PROVE Goal
  <2> HIDE DEF Lost, Half, ExcusesTyped, Excuse, Outcome
  <2>1. UNCHANGED <<phase, loop, inv, job, order, row, excuses>> /\ sweep = None /\ sweep' = m
    BY <1>15 DEF Ingest
  <2>2. booked' = [booked EXCEPT ![m] = @ + 1] /\ row[m] # "none"
    BY <1>15 DEF Ingest
  <2>3. booked'[w] = booked[w] + Half(m, w)
    BY <1>a, <2>2, OneMore
  <2>4. Half(sweep, w) = 0 /\ Half(m, w) \in Int /\ (m # w => Half(m, w) = 0)
    BY <1>a, <2>1, HalfFacts
  <2>5. phase[w] = "live" \/ loop[w] = "quoting"
          => inv[w] + Half(m, w) = booked'[w] + Half(job, w) \/ Lost(w)
    BY <1>b, <1>c, <2>3, <2>4
  <2>6. booked'[w] # 0 => booked[w] # 0 \/ row[w] # "none"
    BY <1>b, <2>2, <2>3, <2>4
  <2>7. Lost(w)' <=> Lost(w)
    BY <2>1 DEF Lost
  <2> QED BY <1>d, <2>1, <2>5, <2>6, <2>7
<1>16. CASE RecordFill
  <2> HIDE DEF Lost, Half, ExcusesTyped, Excuse, Outcome
  <2>1. PICK m \in Window : m = job
    BY <1>a, <1>16 DEF RecordFill
  <2>2. UNCHANGED <<phase, loop, inv, sweep, order, row>> /\ job' = None
    BY <1>16 DEF RecordFill
  <2>3. Half(None, w) = 0 /\ Half(m, w) \in Int /\ (m # w => Half(m, w) = 0)
    BY <1>a, HalfFacts
  <2>4. CASE booked' = [booked EXCEPT ![m] = @ + 1] /\ UNCHANGED excuses
    <3>1. booked'[w] = booked[w] + Half(m, w)
      BY <1>a, <2>4, OneMore
    <3>2. phase[w] = "live" \/ loop[w] = "quoting"
            => inv[w] + Half(sweep, w) = booked'[w] + Half(None, w) \/ Lost(w)
      BY <1>b, <1>c, <2>1, <2>3, <3>1
    <3>3. booked'[w] # 0 => booked[w] # 0 \/ job = w
      BY <1>b, <2>1, <2>3, <3>1
    <3>4. Lost(w)' <=> Lost(w)
      BY <2>4 DEF Lost
    <3> QED BY <1>d, <2>2, <2>4, <3>2, <3>3, <3>4, <1>a
  <2>5. CASE Excuse(m, {"fill not recorded"}) /\ UNCHANGED booked
    <3>1. (Lost(w) => Lost(w)') /\ ("no row" \in excuses[w] => "no row" \in excuses'[w])
      BY <1>a, <2>5, ExcusesStay
    <3>2. m = w => Lost(w)'
      BY <1>a, <2>5 DEF Excuse, ExcusesTyped, Lost
    <3>3. phase[w] = "live" \/ loop[w] = "quoting"
            => inv[w] + Half(sweep, w) = booked[w] + Half(None, w) \/ Lost(w)'
      BY <1>b, <1>c, <2>1, <2>3, <3>1, <3>2
    <3> QED BY <1>d, <2>2, <2>5, <3>1, <3>3, <1>a
  <2> QED BY <1>16, <2>1, <2>4, <2>5 DEF RecordFill
<1>17. CASE AddInventory
  <2> HIDE DEF Lost, Half, ExcusesTyped, Excuse, Outcome
  <2>1. PICK m \in Window : m = sweep
    BY <1>a, <1>17 DEF AddInventory
  <2>2. UNCHANGED <<phase, loop, job, order, row, booked>> /\ sweep' = None
    BY <1>17 DEF AddInventory
  <2>3. inv'[w] = inv[w] + Half(m, w)
    BY <1>a, <1>17, <2>1, OneMore DEF AddInventory
  <2>4. PICK what : Excuse(m, what)
    BY <1>17, <2>1 DEF AddInventory
  <2>5. (Lost(w) => Lost(w)') /\ ("no row" \in excuses[w] => "no row" \in excuses'[w])
    BY <1>a, <2>4, ExcusesStay
  <2>6. Half(None, w) = 0 /\ Half(m, w) \in Int
    BY <1>a, HalfFacts
  <2>7. inv'[w] = inv[w] + Half(sweep, w)
    BY <2>1, <2>3
  <2>8. inv'[w] \in Int /\ inv'[w] + 0 = inv'[w]
    BY <1>b, <2>3, <2>6
  <2>9. phase[w] = "live" \/ loop[w] = "quoting"
          => inv'[w] + Half(None, w) = booked[w] + Half(job, w) \/ Lost(w)'
    BY <1>c, <2>5, <2>6, <2>7, <2>8
  <2> QED BY <1>d, <2>2, <2>5, <2>9
<1>18. CASE Restart
  BY <1>0, <1>18 DEF Restart, Restored
<1>19. CASE UNCHANGED vars
  BY <1>0, <1>19 DEF vars
<1> QED
  BY <1>1, <1>2, <1>3, <1>4, <1>5, <1>6, <1>7, <1>8, <1>9, <1>10, <1>11, <1>12, <1>13,
     <1>14, <1>15, <1>16, <1>17, <1>18, <1>19 DEF Next, Loop, Watcher

\* What a loop decides from is what the ledger holds, restarts included, once executor
\* and sweep are through with it, unless a set-up failed after a restart or the ledger
\* refused a row (engine.go:1044-1070, 260-275).
THEOREM LoopsKnowTheirPosition == Spec => []KnowsItsPosition
<1>1. Init => PositionInv
  BY NoneAssumption DEF Init, PositionInv, Half
<1>2. LifeInv /\ PositionInv => KnowsItsPosition
  <2> SUFFICES ASSUME LifeInv, PositionInv, NEW m \in Window,
                      loop[m] = "quoting", m \notin {job, sweep}
               PROVE  inv[m] = booked[m] \/ excuses[m] \cap Unknown # {}
    BY DEF KnowsItsPosition
  <2>1. Half(job, m) = 0 /\ Half(sweep, m) = 0 /\ inv[m] \in Int /\ booked[m] \in Int
    BY DEF Half, LifeInv, WindowTypeOK
  <2>2. inv[m] + Half(sweep, m) = booked[m] + Half(job, m) \/ Lost(m)
    BY DEF PositionInv
  <2>3. Lost(m) => excuses[m] \cap Unknown # {}
    BY DEF Lost, Unknown
  <2> QED BY <2>1, <2>2, <2>3
<1> QED BY <1>1, <1>2, LifeInvHolds, PositionKept, PTL DEF Spec
=============================================================================
