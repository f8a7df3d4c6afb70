-------------------------- MODULE TakeBudgetProofs --------------------------
(***************************************************************************)
(* Proofs about TakeBudget for every value of the parameters.  The budget  *)
(* alone is not inductive: between the crossing and its reply the window   *)
(* has spent what the budget has not recorded yet, so the invariants carry *)
(* the order in flight.                                                    *)
(***************************************************************************)
EXTENDS TakeBudget, SequenceTheorems, TLAPS

\* The order in flight counts against the limits it was allowed under.
InFlight == IF stage = "idle" THEN 0 ELSE 1

WithinBudget ==
  /\ MaxTakes > 0 => takes + InFlight <= MaxTakes
  /\ MaxNotional > 0 => notional + cost <= MaxNotional

\* Crossings not yet recorded, and what they committed.
Unrecorded == IF stage = "crossed" THEN 1 ELSE 0
UnrecordedCost == IF stage = "crossed" THEN cost ELSE 0

\* What is spent was recorded by this loop, is in flight, was lost, or belongs
\* to the full budgets of the loops before.
Accounted ==
  /\ crossed <= MaxTakes * (lives - 1) + lost + takes + Unrecorded
       \/ MaxTakes = 0
  /\ paid <= MaxNotional * (lives - 1) + lostPaid + notional + UnrecordedCost
       \/ MaxNotional = 0

IInv == TypeOK /\ WithinBudget /\ Accounted

\* Every crossing is dated by a record once its reply has arrived, and an order
\* in flight was submitted a full cooldown after the last record.
Dated ==
  /\ last <= clock /\ lastCross <= clock
  /\ stage # "crossed" => lastCross <= last
  /\ stage = "sent" /\ last # 0 /\ Cooldown > 0 => clock - last >= Cooldown
-----------------------------------------------------------------------------
\* Every cost the loop pays is a natural number.
LEMMA CostsAreNaturals ==
  ASSUME NEW c \in Cost \cup {0}
  PROVE  c \in Nat
<1>1. Cost \subseteq Nat
  BY ParamsAssumption
<1> QED BY <1>1

\* The types of the budget's state are kept by every step, whatever the
\* parameters: costs are naturals, and the clock never passes its bound.
THEOREM TypeCorrect == Spec => []TypeOK
<1> USE ParamsAssumption DEF TypeOK
<1>1. Init => TypeOK
  BY DEF Init
<1>2. TypeOK /\ [Next]_vars => TypeOK'
  <2> SUFFICES ASSUME TypeOK, [Next]_vars PROVE TypeOK'
    OBVIOUS
  <2>1. CASE Tick
    BY <2>1 DEF Tick, budget, reality, faults
  <2>2. ASSUME NEW c \in Cost, Submit(c) PROVE TypeOK'
    BY <2>2 DEF Submit, budget, reality, faults
  <2>3. ASSUME NEW p \in 0..cost, Cross(p) PROVE TypeOK'
    <3>1. cost \in Nat /\ p \in Nat
      BY <2>3
    <3>2. QED BY <2>3, <3>1 DEF Cross, budget, reality, faults
  <2>4. CASE Acknowledge
    <3>1. cost \in Nat
      OBVIOUS
    <3>2. QED BY <2>4, <3>1 DEF Acknowledge, Record, reality, faults
  <2>5. CASE Reject
    BY <2>5 DEF Reject, budget, reality, faults
  <2>6. CASE LoseReply
    <3>1. cost \in Nat
      OBVIOUS
    <3>2. QED BY <2>6, <3>1 DEF LoseReply, budget, reality
  <2>7. CASE Restart
    <3>1. Append(late, cost) \in Seq(Cost \cup {0})
      OBVIOUS
    <3>2. late' \in Seq(Cost \cup {0})
      BY <2>7, <3>1 DEF Restart
    <3>3. QED BY <2>7, <3>2 DEF Restart, reality
  <2>a. CASE Abandon
    <3>1. late' \in Seq(Cost \cup {0})
      BY <2>a DEF Abandon
    <3>2. QED BY <2>a, <3>1 DEF Abandon, budget, reality
  <2>b. ASSUME late # <<>>, NEW p \in 0..Head(late), CrossLate(p) PROVE TypeOK'
    <3>1. Tail(late) \in Seq(Cost \cup {0}) /\ Head(late) \in Cost \cup {0}
      BY <2>b, HeadTailProperties
    <3>2. Head(late) \in Nat /\ p \in Nat
      <4> DEFINE h == Head(late)
      <4>1. h \in Nat
        BY <3>1, CostsAreNaturals
      <4>2. p \in 0..h
        BY <2>b
      <4> HIDE DEF h
      <4>3. p \in Nat
        BY <4>1, <4>2
      <4> QED BY <4>1, <4>3 DEF h
    <3>3. QED BY <2>b, <3>1, <3>2 DEF CrossLate, budget
  <2>c. CASE RevertLate
    <3>1. Tail(late) \in Seq(Cost \cup {0})
      BY <2>c, HeadTailProperties DEF RevertLate
    <3>2. QED BY <2>c, <3>1 DEF RevertLate, budget, reality
  <2>8. CASE UNCHANGED vars
    BY <2>8 DEF vars, budget, reality, faults
  <2>9. QED
    BY <2>1, <2>2, <2>3, <2>4, <2>5, <2>6, <2>7, <2>8, <2>a, <2>b, <2>c DEF Next
<1>3. QED
  BY <1>1, <1>2, PTL DEF Spec
-----------------------------------------------------------------------------
LEMMA OneMoreBudget ==
  ASSUME NEW M \in Nat, NEW k \in Nat \ {0}
  PROVE  /\ M * (k + 1 - 1) = M * (k - 1) + M
         /\ M * (k - 1) \in Nat
  OBVIOUS

LEMMA IInvInductive == IInv /\ TypeOK' /\ [Next]_vars => IInv'
<1> SUFFICES ASSUME IInv, TypeOK', [Next]_vars PROVE WithinBudget' /\ Accounted'
  BY DEF IInv
<1> USE ParamsAssumption DEF IInv, TypeOK
<1>a. /\ cost \in Nat /\ lives \in Nat \ {0}
      /\ MaxTakes * (lives - 1) \in Nat
      /\ MaxNotional * (lives - 1) \in Nat
  BY OneMoreBudget
<1>1. CASE Tick
  BY <1>1 DEF Tick, budget, reality, faults, WithinBudget, Accounted, InFlight,
    Unrecorded, UnrecordedCost
<1>2. ASSUME NEW c \in Cost, Submit(c) PROVE WithinBudget' /\ Accounted'
  <2>1. WithinBudget'
    BY <1>2 DEF Submit, Allow, TakesLeft, Affordable, budget, WithinBudget,
      InFlight
  <2>2. Accounted'
    BY <1>2, <1>a DEF Submit, budget, reality, faults, Accounted, Unrecorded,
      UnrecordedCost
  <2>3. QED BY <2>1, <2>2
<1>3. ASSUME NEW p \in 0..cost, Cross(p) PROVE WithinBudget' /\ Accounted'
  <2>1. WithinBudget'
    BY <1>3 DEF Cross, budget, WithinBudget, InFlight
  <2>2. Accounted'
    BY <1>3, <1>a DEF Cross, budget, faults, Accounted, Unrecorded,
      UnrecordedCost
  <2>3. QED BY <2>1, <2>2
<1>4. CASE Acknowledge
  <2>1. WithinBudget'
    BY <1>4, <1>a DEF Acknowledge, Record, WithinBudget, InFlight
  <2>2. Accounted'
    BY <1>4, <1>a DEF Acknowledge, Record, reality, faults, Accounted,
      Unrecorded, UnrecordedCost
  <2>3. QED BY <2>1, <2>2
<1>5. CASE Reject
  BY <1>5, <1>a DEF Reject, budget, reality, faults, WithinBudget, Accounted,
    InFlight, Unrecorded, UnrecordedCost
<1>6. CASE LoseReply
  BY <1>6, <1>a DEF LoseReply, budget, reality, WithinBudget, Accounted,
    InFlight, Unrecorded, UnrecordedCost
<1>7. CASE Restart
  <2>1. WithinBudget'
    BY <1>7 DEF Restart, WithinBudget, InFlight
  <2>2. /\ takes + Unrecorded <= MaxTakes \/ MaxTakes = 0
        /\ notional + UnrecordedCost <= MaxNotional \/ MaxNotional = 0
    BY <1>a DEF WithinBudget, InFlight, Unrecorded, UnrecordedCost
  <2>3. /\ MaxTakes * (lives + 1 - 1) = MaxTakes * (lives - 1) + MaxTakes
        /\ MaxNotional * (lives + 1 - 1) = MaxNotional * (lives - 1) + MaxNotional
    BY OneMoreBudget
  <2>4. Accounted'
    BY <1>7, <1>a, <2>2, <2>3 DEF Restart, reality, Accounted, Unrecorded,
      UnrecordedCost
  <2>5. QED BY <2>1, <2>4
<1>8. CASE UNCHANGED vars \/ RevertLate
  BY <1>8 DEF RevertLate, vars, budget, reality, faults, WithinBudget, Accounted, InFlight,
    Unrecorded, UnrecordedCost
<1>9. CASE Abandon
  BY <1>9, <1>a DEF Abandon, MayBeLate, budget, reality, WithinBudget, Accounted, InFlight,
    Unrecorded, UnrecordedCost
\* A take mined late is a crossing that was lost.
<1>10. ASSUME late # <<>>, NEW p \in 0..Head(late), CrossLate(p)
       PROVE  WithinBudget' /\ Accounted'
  <2> DEFINE h == Head(late)
  <2>1. h \in Nat
    <3>1. Head(late) \in Cost \cup {0}
      BY <1>10, HeadTailProperties
    <3> QED BY <3>1, CostsAreNaturals
  <2>2. p \in 0..h
    BY <1>10
  <2>3. WithinBudget'
    BY <1>10 DEF CrossLate, budget, WithinBudget, InFlight
  <2>4. /\ crossed' = crossed + 1 /\ lost' = lost + 1 /\ UNCHANGED <<takes, notional, stage, cost, lives>>
        /\ paid' = paid + p /\ lostPaid' = lostPaid + h
    BY <1>10 DEF CrossLate, budget
  <2> HIDE DEF h
  <2>5. p \in Nat /\ p <= h
    BY <2>1, <2>2
  <2>6. Unrecorded' = Unrecorded /\ UnrecordedCost' = UnrecordedCost
        /\ Unrecorded \in Nat /\ UnrecordedCost \in Nat
    BY <1>a, <2>4 DEF Unrecorded, UnrecordedCost
  <2>7. Accounted'
    BY <1>a, <2>1, <2>4, <2>5, <2>6 DEF Accounted
  <2>8. QED BY <2>3, <2>7
<1>11. QED
  BY <1>1, <1>2, <1>3, <1>4, <1>5, <1>6, <1>7, <1>8, <1>9, <1>10 DEF Next

LEMMA IInvHolds == Spec => []IInv
<1>1. Init => IInv
  BY ParamsAssumption DEF Init, IInv, TypeOK, WithinBudget, Accounted, InFlight,
    Unrecorded, UnrecordedCost
<1>2. QED
  BY <1>1, IInvInductive, TypeCorrect, PTL DEF Spec

\* With any faults, the crossings and the collateral of one window exceed the
\* budgets of its loops by no more than what lost replies account for
\* (budget.go:50-78 as marketLoop uses it).
THEOREM DamageIsBounded == Spec => []DamageBounded
<1>1. IInv => DamageBounded
  <2> SUFFICES ASSUME IInv PROVE DamageBounded
    OBVIOUS
  <2> USE ParamsAssumption DEF IInv, TypeOK
  <2>1. /\ MaxTakes * lives = MaxTakes * (lives - 1) + MaxTakes
        /\ MaxNotional * lives = MaxNotional * (lives - 1) + MaxNotional
        /\ MaxTakes * (lives - 1) \in Nat /\ MaxNotional * (lives - 1) \in Nat
    BY OneMoreBudget
  <2>2. QED
    BY <2>1 DEF DamageBounded, WithinBudget, Accounted, InFlight, Unrecorded,
      UnrecordedCost
<1>2. QED
  BY <1>1, IInvHolds, PTL
-----------------------------------------------------------------------------
LEMMA DatedInductive ==
  ASSUME TypeOK, Faultless => Dated, [Next]_vars
  PROVE  (Faultless => Dated)'
<1> SUFFICES ASSUME Faultless' PROVE Dated'
  OBVIOUS
<1> USE ParamsAssumption DEF TypeOK, Dated
<1>0. Faultless /\ Dated /\ ~LoseReply /\ ~Restart /\ \A p : ~CrossLate(p)
  BY DEF Faultless, Next, vars, faults, Tick, Submit, Cross, Acknowledge, Reject,
    LoseReply, Abandon, CrossLate, RevertLate, Restart
<1>1. CASE Tick
  BY <1>0, <1>1 DEF Tick, budget, reality
<1>2. ASSUME NEW c \in Cost, Submit(c) PROVE Dated'
  BY <1>0, <1>2 DEF Submit, Allow, CooledDown, budget, reality
<1>3. ASSUME NEW p \in 0..cost, Cross(p) PROVE Dated'
  BY <1>0, <1>3 DEF Cross, budget
<1>4. CASE Acknowledge
  BY <1>0, <1>4 DEF Acknowledge, Record, reality
<1>5. CASE Reject
  BY <1>0, <1>5 DEF Reject, budget, reality
<1>6. CASE UNCHANGED vars \/ Abandon \/ RevertLate
  BY <1>0, <1>6 DEF vars, budget, reality, Abandon, MayBeLate, RevertLate
<1>7. QED
  BY <1>0, <1>1, <1>2, <1>3, <1>4, <1>5, <1>6 DEF Next

\* Two crossings by one loop whose replies arrive are never closer than
\* TakeCooldown (quote.go:45-46): the record that follows a crossing dates it no
\* earlier than it happened, and the next submission waits a cooldown from the
\* record.
THEOREM CrossingsAreApart == Spec => CrossingsApart
<1> DEFINE Apart == Faultless' /\ crossed' > crossed /\ lastCross # 0
                      => lastCross' - lastCross >= Cooldown
<1>1. Init => (Faultless => Dated)
  BY ParamsAssumption DEF Init, Dated
<1>2. TypeOK /\ (Faultless => Dated) /\ [Next]_vars => (Faultless => Dated)'
  BY DatedInductive
<1>3. TypeOK /\ (Faultless => Dated) /\ [Next]_vars => [Apart]_vars
  <2> SUFFICES ASSUME TypeOK, Faultless => Dated, Faultless', Next PROVE Apart
    BY DEF vars
  <2> USE ParamsAssumption DEF TypeOK, Dated
  <2>1. ASSUME NEW p \in 0..cost, Cross(p) PROVE Apart
    BY <2>1 DEF Cross, Faultless, faults
  <2>2. ASSUME crossed' = crossed PROVE Apart
    BY <2>2
  <2>3. ASSUME NEW p, CrossLate(p) PROVE FALSE
    BY <2>3 DEF CrossLate, Faultless
  <2>4. QED
    BY <2>1, <2>2, <2>3 DEF Next, Tick, Submit, Acknowledge, Reject, LoseReply, Abandon,
      RevertLate, Restart, reality
<1>4. QED
  BY <1>1, <1>2, <1>3, TypeCorrect, PTL DEF Spec, CrossingsApart
=============================================================================
