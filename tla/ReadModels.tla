------------------------------ MODULE ReadModels ------------------------------
(***************************************************************************)
(* What the dashboard's handlers compute from the ledger: the profit       *)
(* attribution, its sums, the live health score and the decision traces of  *)
(* core/internal/ledger/ledger.go, served by core/cmd/dashboard/main.go.    *)
(*                                                                         *)
(* A ledger is a sequence of windows by expiry, each with its orders and    *)
(* fills.  Prices and probabilities are thousandths, amounts thousandths    *)
(* of a contract's value.                                                   *)
(***************************************************************************)
EXTENDS Integers, Sequences, SequencesExt

One == 1000
Map(op(_), s) == [i \in DOMAIN s |-> op(s[i])]
\* The sum of field f over some of the rows, or over all of them.
TotalOf(f, rows, some) == SumFunctionOnSet([i \in some |-> rows[i][f]], some)
Total(f, rows) == TotalOf(f, rows, DOMAIN rows)
\* A nil slice: encoding/json writes it as null.
JSONList(s, null) == IF s = <<>> THEN null ELSE s
-----------------------------------------------------------------------------
\* What a contract of fill f redeemed at, and our fair value of its side.
Value(w, f) ==
  IF w.voided THEN One \div 2
  ELSE IF w.winner = (IF f.kind = "BUY_UP" THEN 0 ELSE 1) THEN One ELSE 0
BugSideFair(f) == f.fair
SideFair(f) == IF f.kind = "BUY_DN" THEN One - f.fair ELSE f.fair

\* One fill's part in its window's attribution.
Part(w, f) ==
  [Contracts |-> f.qty, Cost |-> f.price * f.qty, Payout |-> Value(w, f) * f.qty,
   Edge |-> (SideFair(f) - f.price) * f.qty,
   Selection |-> (Value(w, f) - SideFair(f)) * f.qty]
Attribution(w) ==
  LET parts == Map(LAMBDA f : Part(w, f), w.fills)
  IN  [MarketID |-> w.id, Label |-> w.label, Fills |-> Len(w.fills),
       Contracts |-> Total("Contracts", parts), Cost |-> Total("Cost", parts),
       Payout |-> Total("Payout", parts), Edge |-> Total("Edge", parts),
       Selection |-> Total("Selection", parts),
       Net |-> Total("Payout", parts) - Total("Cost", parts),
       Winner |-> w.winner, Voided |-> w.voided]

\* Settled windows that carry a fill.
Traceable(ledger) == SelectSeq(ledger, LAMBDA w : w.settled /\ w.fills # <<>>)
Attribute(ledger) == Map(Attribution, Traceable(ledger))
Summed == {"Fills", "Contracts", "Edge", "Selection", "Net"}
Sum(rows, some) ==
  LET counted == {i \in some : rows[i].Fills # 0}
  IN  [f \in {"Windows"} \cup Summed |->
         IF f = "Windows" THEN Cardinality(counted) ELSE TotalOf(f, rows, counted)]
Pnl(ledger) ==
  LET rows == Attribute(ledger)
  IN  [windows |-> rows, totals |-> Sum(rows, DOMAIN rows)]
-----------------------------------------------------------------------------
\* Fills scored against what the model said when they were decided; a
\* reconciled fill carries a price instead and is left out.
HealthPoints(ledger) ==
  FlattenSeq(Map(LAMBDA w : Map(LAMBDA f : [fair |-> SideFair(f), value |-> Value(w, f)],
                                SelectSeq(w.fills, LAMBDA f : f.modelFair)),
                 Traceable(ledger)))
Square(x) == x * x
SquaredErrors(points, guess(_)) ==
  FoldSeq(LAMBDA p, sum : sum + Square(guess(p) - p.value), 0, points)
\* The Brier scores times their number, and the skill in percent.
Health(ledger) ==
  LET points == HealthPoints(ledger)
      model == SquaredErrors(points, LAMBDA p : p.fair)
      base == SquaredErrors(points, LAMBDA p : One \div 2)
  IN  [n |-> Len(points), model |-> model, baseline |-> base,
       skill |-> IF base > 0 THEN (100 * (base - model)) \div base ELSE 0]
-----------------------------------------------------------------------------
Ids(ledger) == Map(LAMBDA w : w.id, Reverse(Traceable(ledger)))
Trace(w, null) ==
  [id |-> w.id, label |-> w.label, expiry |-> w.expiry, winner |-> w.winner, voided |-> w.voided,
   orders |-> JSONList(w.orders, null), fills |-> w.fills,
   attribution |-> Attribution(w)]
TracesOf(ledger, null) ==
  [id \in {ledger[i].id : i \in DOMAIN ledger} |->
     Trace(ledger[CHOOSE i \in DOMAIN ledger : ledger[i].id = id], null)]
=============================================================================
