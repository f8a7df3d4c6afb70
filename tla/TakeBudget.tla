----------------------------- MODULE TakeBudget -----------------------------
(***************************************************************************)
(* The per-window risk budget for crossing the book                        *)
(* (core/internal/maker/budget.go), together with the part of marketLoop   *)
(* that uses it: ask Allow, submit an immediate-or-cancel order, wait for  *)
(* the executor's reply, and Record the take only if the reply carries an  *)
(* order id (engine.go:436-452).                                           *)
(*                                                                         *)
(* The order crosses the book on chain somewhere between the submission    *)
(* and the reply, so what the budget has recorded and what the window has  *)
(* really spent are two different pieces of state; the properties relate   *)
(* them.  Time is in seconds, money in the smallest collateral unit.       *)
(***************************************************************************)
EXTENDS Integers, Sequences

CONSTANTS
  MaxTakes,     \* Params.MaxTakesPerMarket; 0 disables the check
  MaxNotional,  \* Params.MaxTakeNotional; 0 disables the check
  Cooldown,     \* Params.TakeCooldown; 0 disables the check
  Cost,         \* the collateral a take of Params.Size may commit at its limit
  MaxClock,     \* bound: the last second of the window that is explored
  MaxCrossed,   \* bound: crossings explored, for the instances that exceed it
  MaxLives,     \* bound: market loops the window is traded by, one after another
  LostReplies   \* the wait for a receipt may end before the receipt is seen

ASSUME ParamsAssumption ==
  /\ MaxTakes \in Nat /\ MaxNotional \in Nat /\ Cooldown \in Nat
  /\ Cost \subseteq Nat
  /\ MaxClock \in Nat \ {0} /\ MaxCrossed \in Nat /\ MaxLives \in Nat \ {0}
  /\ LostReplies \in BOOLEAN

VARIABLES
  clock,      \* time.Now(), from 1 so that 0 is Go's zero time
  takes, notional, last,   \* the fields of TakeBudget
  stage,      \* "idle", "sent" (order submitted), "crossed" (it has filled)
  cost,       \* the collateral committed by the order in flight
  crossed,    \* how many times the window has really been crossed
  paid,       \* the collateral those crossings really cost
  lastCross,  \* when the book was last crossed; 0 before the first time
  lives,      \* market loops started for this window so far
  late,       \* costs of the takes nobody waits for that are still to be mined
  lost,       \* crossings whose reply never came
  lostPaid    \* what those cost

budget == <<takes, notional, last>>
reality == <<crossed, paid, lastCross>>
faults == <<lives, late, lost, lostPaid>>
vars == <<clock, budget, stage, cost, reality, faults>>

TypeOK ==
  /\ clock \in 1..MaxClock
  /\ takes \in Nat /\ notional \in Nat /\ last \in 0..MaxClock
  /\ stage \in {"idle", "sent", "crossed"}
  /\ cost \in Cost \cup {0}
  /\ crossed \in Nat /\ paid \in Nat /\ lastCross \in 0..MaxClock
  /\ lives \in 1..MaxLives /\ late \in Seq(Cost \cup {0}) /\ lost \in Nat /\ lostPaid \in Nat
-----------------------------------------------------------------------------
Init ==
  /\ clock = 1
  /\ takes = 0 /\ notional = 0 /\ last = 0
  /\ stage = "idle" /\ cost = 0
  /\ crossed = 0 /\ paid = 0 /\ lastCross = 0
  /\ lives = 1 /\ late = <<>> /\ lost = 0 /\ lostPaid = 0

\* One take too many.
BugOneMoreTake == MaxTakes > 0 => takes <= MaxTakes

\* The last second of the gap is not waited for.
BugCooledDownEarly == last # 0 /\ Cooldown > 0 => clock - last >= Cooldown - 1

\* The three refusals of Allow, in its order.
TakesLeft == MaxTakes > 0 => takes < MaxTakes
CooledDown == last # 0 /\ Cooldown > 0 => clock - last >= Cooldown
Affordable(c) == MaxNotional > 0 => notional + c <= MaxNotional

Allow(c) == TakesLeft /\ CooledDown /\ Affordable(c)

\* The time of the next permitted take is stored as the time of the last.
BugStoreDeadline(c) ==
  /\ takes' = takes + 1
  /\ notional' = notional + c
  /\ last' = clock + Cooldown

\* Record books the take at the time the reply arrives.
Record(c) ==
  /\ takes' = takes + 1
  /\ notional' = notional + c
  /\ last' = clock

Tick ==
  /\ clock < MaxClock
  /\ clock' = clock + 1
  /\ UNCHANGED <<budget, stage, cost, reality, faults>>

\* A priced take: refused takes change nothing and fall through to quoting.
Submit(c) ==
  /\ stage = "idle"
  /\ Allow(c)
  /\ stage' = "sent" /\ cost' = c
  /\ UNCHANGED <<clock, budget, reality, faults>>

\* The pool matches the order, in full or in part, at the limit or better.  A
\* transaction is not mined before the ones sent earlier.
Cross(p) ==
  /\ stage = "sent" /\ late = <<>> /\ crossed < MaxCrossed
  /\ p <= cost
  /\ stage' = "crossed" /\ cost' = cost
  /\ crossed' = crossed + 1 /\ paid' = paid + p /\ lastCross' = clock
  /\ UNCHANGED <<clock, budget, faults>>

\* The reply names an order: it was sent, whether or not it found a match.
Acknowledge ==
  /\ stage \in {"sent", "crossed"} /\ late = <<>>
  /\ Record(cost)
  /\ stage' = "idle" /\ cost' = 0
  /\ UNCHANGED <<clock, reality, faults>>

\* The reply is nil because the order was refused or reverted.
Reject ==
  /\ stage = "sent"
  /\ stage' = "idle" /\ cost' = 0
  /\ UNCHANGED <<clock, budget, reality, faults>>

\* The reply is nil although the order filled: waitReceipt gave up after 60s
\* (trader.go:128), or the loop's context ended first (engine.go:612).
LoseReply ==
  /\ LostReplies
  /\ stage = "crossed"
  /\ lost' = lost + 1 /\ lostPaid' = lostPaid + cost
  /\ stage' = "idle" /\ cost' = 0
  /\ UNCHANGED <<clock, budget, reality, lives, late>>

\* The wait ends before the order is mined.
MayBeLate == stage = "sent" /\ crossed + Len(late) < MaxCrossed
Abandon ==
  /\ LostReplies /\ MayBeLate
  /\ late' = Append(late, cost)
  /\ stage' = "idle" /\ cost' = 0
  /\ UNCHANGED <<clock, budget, reality, lives, lost, lostPaid>>

\* It is mined after all, whatever its loop does by then, or reverts.
CrossLate(p) ==
  /\ late # <<>> /\ p <= Head(late)
  /\ late' = Tail(late)
  /\ crossed' = crossed + 1 /\ paid' = paid + p /\ lastCross' = clock
  /\ lost' = lost + 1 /\ lostPaid' = lostPaid + Head(late)
  /\ UNCHANGED <<clock, budget, stage, cost, lives>>
RevertLate ==
  /\ late # <<>> /\ late' = Tail(late)
  /\ UNCHANGED <<clock, budget, stage, cost, reality, lives, lost, lostPaid>>

\* A new marketLoop for the same window starts with NewTakeBudget, the last one's order
\* perhaps not sent yet, perhaps still to be mined.
Restart ==
  /\ lives < MaxLives
  /\ lives' = lives + 1
  /\ takes' = 0 /\ notional' = 0 /\ last' = 0
  /\ stage' = "idle" /\ cost' = 0
  /\ late' \in {late} \cup (IF MayBeLate THEN {Append(late, cost)} ELSE {})
  /\ UNCHANGED <<clock, reality, lost, lostPaid>>

Next ==
  \/ Tick
  \/ \E c \in Cost : Submit(c)
  \/ \E p \in 0..cost : Cross(p)
  \/ Acknowledge
  \/ Reject
  \/ LoseReply
  \/ Abandon
  \/ late # <<>> /\ \E p \in 0..Head(late) : CrossLate(p)
  \/ RevertLate
  \/ Restart

Spec == Init /\ [][Next]_vars
-----------------------------------------------------------------------------
\* The window's real damage is within its budget ("MaxTakesPerMarket caps how
\* many times one window may be crossed", quote.go:39-44) and grows only with
\* the faults: every market loop adds at most one full budget, every lost reply
\* at most its own crossing, whether the take was mined before its wait ended or
\* after it.  Record runs only after the reply, so this rests on Allow, the single
\* order in flight and the reply together.
DamageBounded ==
  /\ MaxTakes > 0 => crossed <= MaxTakes * lives + lost
  /\ MaxNotional > 0 => paid <= MaxNotional * lives + lostPaid

\* Two crossings of one window by one loop whose replies arrive are at least
\* Cooldown apart on the chain's clock, although Allow compares the time of the
\* decision with the time at which the previous reply was recorded ("the
\* minimum gap between takes in the same window", quote.go:45-46).
Faultless == lives = 1 /\ lost = 0
CrossingsApart ==
  [][Faultless' /\ crossed' > crossed /\ lastCross # 0
       => lastCross' - lastCross >= Cooldown]_vars
=============================================================================
