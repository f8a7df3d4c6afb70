------------------------------ MODULE FieldView ------------------------------
(***************************************************************************)
(* What the field page makes of a list of live windows: the ranking and the *)
(* headline of lib/api.ts, the bar of components/Disagreement.tsx, the       *)
(* number of components/Probability.tsx and the text of app/page.tsx.        *)
(*                                                                         *)
(* A row has the fields of LiveRow that matter: id, calibrated, and fair,   *)
(* uncertainty, bid and ask in thousandths (0: absent), and secondsLeft.     *)
(***************************************************************************)
EXTENDS SequencesExt, Lists

Whole == 1000       \* probability 1
NoiseFloor == 4
Abs(x) == IF x < 0 THEN -x ELSE x
Larger(a, b) == IF a >= b THEN a ELSE b
Smaller(a, b) == IF a <= b THEN a ELSE b
Clamp(lo, hi, x) == Larger(lo, Smaller(hi, x))

TwoSided(r) == r.bid > 0 /\ r.ask > 0
TwiceMid(r) == r.bid + r.ask
Noise(r) == Larger(r.uncertainty, NoiseFloor)
TwiceGap(r) == 2 * r.fair - TwiceMid(r)

HasModel(r) == r.calibrated /\ r.fair > 0

\* Disagreement in units of noise, as a fraction; -1 when there is none to speak of.
Tension(r) == IF HasModel(r) /\ TwoSided(r)
              THEN [num |-> Abs(TwiceGap(r)), den |-> 2 * Noise(r)]
              ELSE [num |-> -1, den |-> 1]
Tenser(a, b) == Tension(a).num * Tension(b).den > Tension(b).num * Tension(a).den
Ranked(rows) == Sorted(rows, Tenser)

Undecided(r) == /\ r.calibrated /\ TwoSided(r) /\ r.secondsLeft > 45
                /\ r.fair > 40 /\ r.fair < 960
SoonestFirst(a, b) == a.secondsLeft < b.secondsLeft
BugPickHero(rows, null) == IF rows = <<>> THEN null ELSE Ranked(rows)[1]
PickHero(rows, null) ==
  LET live == {i \in DOMAIN rows : Undecided(rows[i])}
      modelled == {i \in DOMAIN rows : HasModel(rows[i])}
  IN  IF live # {} THEN Foremost(rows, live, SoonestFirst)
      ELSE IF modelled # {} THEN Foremost(rows, modelled, Tenser)
      ELSE IF rows # <<>> THEN rows[1] ELSE null
\* The rows of the table: all but the headline's.
Rest(rows, hero) == Filtered(Ranked(rows), LAMBDA r : r # hero)
-----------------------------------------------------------------------------
\* The slice of the axis the bar shows, in twentieths of a thousandth, around
\* marks that reach from lo to hi thousandths.
Axis == 20 * Whole
MinSpan == 120 * 20
MinPad == 20 * 20
Padded(lo, hi) ==
  LET pad == Larger(7 * (hi - lo), MinPad)
      wide == [lo |-> 20 * lo - pad, hi |-> 20 * hi + pad]
      centre == 10 * (lo + hi)
  IN  IF wide.hi - wide.lo >= MinSpan THEN wide
      ELSE [lo |-> centre - MinSpan \div 2, hi |-> centre + MinSpan \div 2]
\* Moved inside the axis without shrinking, then cut.
BugInside(v) == [lo |-> Larger(0, v.lo), hi |-> Smaller(Axis, v.hi)]
Inside(v) ==
  LET right == IF v.lo < 0 THEN [lo |-> 0, hi |-> v.hi - v.lo] ELSE v
      left == IF right.hi > Axis THEN [lo |-> right.lo - (right.hi - Axis), hi |-> Axis]
              ELSE right
  IN  [lo |-> Larger(0, left.lo), hi |-> Smaller(Axis, left.hi)]

BugMarks(r) == {p \in {r.bid, r.ask} : p > 0}
Marks(r) == {p \in {r.bid, r.ask} : p > 0}
              \cup (IF HasModel(r) THEN {r.fair - Noise(r), r.fair + Noise(r)} ELSE {})
FocusWindow(r) == IF Marks(r) = {} THEN [lo |-> 0, hi |-> Axis]
                  ELSE Inside(Padded(Min(Marks(r)), Max(Marks(r))))

\* Whether the model's difference with the market means something.
Compared(r) == r.calibrated /\ TwoSided(r)
BugMeaningful(r) == Abs(TwiceGap(r)) > 2 * r.uncertainty
Meaningful(r) == Abs(TwiceGap(r)) > 2 * Noise(r)
\* The coloured rectangle, in half twentieths so that the mid is exact.
GapDrawn(r) == HasModel(r) /\ Compared(r) /\ Meaningful(r)
AxisPoint(r, twice) == Clamp(2 * FocusWindow(r).lo, 2 * FocusWindow(r).hi, 20 * twice)
Gap(r) == AxisPoint(r, 2 * r.fair) - AxisPoint(r, TwiceMid(r))
\* The sentence under the verdict.
OurRead(r, null) ==
  IF Compared(r) THEN [above |-> TwiceGap(r) > 0, clears |-> Meaningful(r)] ELSE null
-----------------------------------------------------------------------------
\* The band drawn around the number, and the number on its way from one value
\* to the next, t tenths of the animation in; in thousandths of the value's unit.
Band(r) == [lo |-> Larger(0, r.fair - r.uncertainty), hi |-> Smaller(Whole, r.fair + r.uncertainty)]
Remaining(t) == (10 - t) * (10 - t) * (10 - t)
BugEased(from, to, t) == 1000 * to + (to - from) * Remaining(t)
Eased(from, to, t) == 1000 * from + (to - from) * (1000 - Remaining(t))
=============================================================================
