------------------------------- MODULE Pricing -------------------------------
(***************************************************************************)
(* The engine's pure decisions about prices: the quote and the take of       *)
(* core/internal/maker/quote.go, the isotonic fit of                        *)
(* core/internal/model/calibmap.go and the replay series of                 *)
(* core/internal/venue/pricefeed.go.                                        *)
(* Probabilities are in hundred-thousandths, times in seconds.              *)
(***************************************************************************)
EXTENDS Integers, Sequences, SequencesExt

Certain == 100000
\* DefaultParams.
MinHalfSpread == 400
MaxHalfSpread == 6000
InventorySkew == 150
MaxInventory == 50
MinSecondsLeft == 20
MaxSpotAge == 10
CertaintyBound == 500
TakeEdge == 2000
Scaled(uncertainty) == (uncertainty * 115) \div 100  \* UncertaintyMult

Within(lo, hi, x) == IF x < lo THEN lo ELSE IF x > hi THEN hi ELSE x
InUnit(x) == Within(100, Certain - 100, x)
-----------------------------------------------------------------------------
BugSkewed(fair, inventory) == InUnit(fair + inventory * InventorySkew)
\* The whole quote moves against the position, so that fills flatten it.
Skewed(fair, inventory) == InUnit(fair - inventory * InventorySkew)

Refused == [bid |-> 0, ask |-> 0, skipBid |-> TRUE, skipAsk |-> TRUE]
Compute(fair, uncertainty, inventory, secondsLeft, spotAge) ==
  LET half == Within(MinHalfSpread, MaxHalfSpread, Scaled(uncertainty))
      mid == Skewed(fair, inventory)
      bid == InUnit(mid - half)
      ask == InUnit(mid + half)
      degenerate == ask - bid < MinHalfSpread
  IN  IF \/ secondsLeft < MinSecondsLeft \/ spotAge > MaxSpotAge
         \/ fair \notin CertaintyBound..(Certain - CertaintyBound)
      THEN Refused
      ELSE [bid |-> bid, ask |-> ask,
            skipBid |-> degenerate \/ inventory >= MaxInventory,
            skipAsk |-> degenerate \/ inventory <= -MaxInventory]

\* Crossing the book, at its price, when the edge clears every floor.
NoTake == [buy |-> "none", price |-> 0]
ShouldTake(fair, uncertainty, residual, bestBid, bestAsk) ==
  LET floor == Within(Within(TakeEdge, Certain, uncertainty), Certain, residual)
  IN  IF bestAsk > 0 /\ fair - bestAsk > floor THEN [buy |-> "Up", price |-> bestAsk]
      ELSE IF bestBid > 0 /\ bestBid - fair > floor THEN [buy |-> "Dn", price |-> bestBid]
      ELSE NoTake
-----------------------------------------------------------------------------
\* FitIsotonic on outcomes (1 or 0) sorted by prediction: bins of minBin, a short
\* last one folded into its predecessor, then adjacent violators pooled.
Block(sumY, n) == [sumY |-> sumY, n |-> n]
Wins(ys) == FoldSeq(+, 0, ys)
Bins(ys, minBin) ==
  LET k == Len(ys) \div minBin
      bin(b) == SubSeq(ys, (b - 1) * minBin + 1, IF b = k THEN Len(ys) ELSE b * minBin)
  IN  [b \in 1..k |-> Block(Wins(bin(b)), Len(bin(b)))]

Below(a, b) == a.sumY * b.n < b.sumY * a.n   \* by frequency
Merged(b, all) == Block(b.sumY + all.sumY, b.n + all.n)
\* The top blocks of the stack from the k-th on, merged with cur.
Pooled(st, k, cur) == FoldSeq(Merged, cur, SubSeq(st, k, Len(st)))
BugPush(st, cur) ==
  IF st # <<>> /\ Below(cur, Last(st)) THEN Append(Front(st), Pooled(st, Len(st), cur))
  ELSE Append(st, cur)
\* Pops for as long as the block below is the higher one.
Push(st, cur) ==
  LET keeps == {k \in 1..Len(st) : ~Below(Pooled(st, k + 1, cur), st[k])}
      k == IF keeps = {} THEN 0 ELSE CHOOSE k \in keeps : \A j \in keeps : j <= k
  IN  Append(SubSeq(st, 1, k), Pooled(st, k + 1, cur))
FitIsotonic(ys, minBin) == FoldLeft(Push, <<>>, Bins(ys, minBin))
-----------------------------------------------------------------------------
\* SpotSeries: what was observable when.  A candle's close is not known when its
\* bucket opens.  Of two observations at one time either may be the one kept:
\* the sort is not stable.
BugObsLag == 0
ObsLag == 60
MaxStale == 5 * 60 + 60
Observations(candles, absent) ==
  {o \in UNION {{[at |-> c.start, price |-> c.open], [at |-> c.start + ObsLag, price |-> c.close]}
                  : c \in candles} : o.price # absent}
\* The prices At(t) may answer with; none when it refuses.
At(obs, t) ==
  {o.price : o \in {o \in obs : /\ o.at <= t /\ t - o.at <= MaxStale
                                /\ \A p \in obs : p.at <= t => p.at <= o.at}}
=============================================================================
