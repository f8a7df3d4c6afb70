--------------------------- MODULE AlgorithmProofs ---------------------------
(***************************************************************************)
(* What holds of the pure parts for every input: the quote, the take, the   *)
(* replay series, the bar's gap, the ranking of the windows and the         *)
(* headline, the attribution of profit, and the isotonic fit.               *)
(***************************************************************************)
EXTENDS Algorithms, DataTheorems, SequenceTheorems, TLAPS
-----------------------------------------------------------------------------
(* What a behaviour may have picked.                                        *)

PickInv == /\ kind = "belief" => input \in Beliefs
           /\ kind = "candles" => input \in Candles
           /\ kind = "rows" => \E a \in FieldRows : \E b \in FieldRows : \E c \in FieldRows :
                                input = <<a, b, c>> /\ Cardinality({a, b, c}) = 3
           /\ kind = "window" => \E f \in Fills : \E g \in Fills : input.fills = <<f, g>>
           /\ kind = "outcomes" => \E n \in Samples : input \in [1..n -> {0, 1}]

LEMMA PickHolds == Spec => []PickInv
<1>1. Init => PickInv
  BY DEF Init, PickInv
<1>2. PickInv /\ [Next]_algorithmVars => PickInv'
  <2> SUFFICES ASSUME PickInv, [Next]_algorithmVars PROVE PickInv'
    OBVIOUS
  <2>1. CASE PickRows
    BY <2>1 DEF PickInv, PickRows, Pick
  <2>2. CASE PickWindow
    BY <2>2 DEF PickInv, PickWindow, Pick
  <2>3. CASE PickBelief \/ PickOutcomes \/ PickCandles
    BY <2>3 DEF PickInv, PickBelief, PickOutcomes, PickCandles, Pick
  <2>4. CASE UNCHANGED algorithmVars
    BY <2>4 DEF PickInv, algorithmVars
  <2> QED BY <2>1, <2>2, <2>3, <2>4 DEF Next
<1> QED BY <1>1, <1>2, PTL DEF Spec
-----------------------------------------------------------------------------
(* The replay series.                                                       *)

Candle(c) == /\ c.start \in Int
             /\ c = [start |-> c.start, open |-> c.open, close |-> c.close]

LEMMA ObservationsOf ==
  ASSUME NEW candles, NEW o
  PROVE  o \in Observations(candles, Null)
           <=> /\ o.price # Null
               /\ \E c \in candles : \/ o = [at |-> c.start, price |-> c.open]
                                    \/ o = [at |-> c.start + 60, price |-> c.close]
<1> DEFINE both(c) == {[at |-> c.start, price |-> c.open],
                       [at |-> c.start + 60, price |-> c.close]}
           all == UNION {both(c) : c \in candles}
<1>1. Observations(candles, Null) = {p \in all : p.price # Null}
  BY DEF Observations, ObsLag
<1>2. o \in all <=> \E c \in candles : o \in both(c)
  <2> HIDE DEF both
  <2> QED OBVIOUS
<1> HIDE DEF all
<1>3. o \in Observations(candles, Null) <=> o \in all /\ o.price # Null
  BY <1>1
<1> QED BY <1>2, <1>3

\* What could be observed by t is the same, built from all candles or from what was
\* known of them at t.
LEMMA SameObservations ==
  ASSUME NEW candles, \A c \in candles : Candle(c), NEW t \in Int
  PROVE  /\ \A o \in Observations(candles, Null) : o.at \in Int
         /\ \A o \in Observations(KnownBy(candles, t), Null) : o.at \in Int
         /\ {o \in Observations(candles, Null) : o.at <= t}
              = {o \in Observations(KnownBy(candles, t), Null) : o.at <= t}
<1> DEFINE Known(c) == [c EXCEPT !.close = IF c.start + 60 > t THEN Null ELSE @]
           Opening(c) == [at |-> c.start, price |-> c.open]
           Closing(c) == [at |-> c.start + 60, price |-> c.close]
           O == Observations(candles, Null)
           K == Observations(KnownBy(candles, t), Null)
<1>1. \A c \in candles :
        /\ Known(c).start = c.start /\ Known(c).open = c.open
        /\ Known(c).close = IF c.start + 60 > t THEN Null ELSE c.close
  <2> TAKE c \in candles
  <2>1. Candle(c)
    OBVIOUS
  <2>2. DOMAIN c = {"start", "open", "close"}
    <3>1. DOMAIN [start |-> c.start, open |-> c.open, close |-> c.close] = {"start", "open", "close"}
      OBVIOUS
    <3> QED BY <2>1, <3>1 DEF Candle
  <2> QED BY <2>2
<1>2. \A o : o \in O <=> /\ o.price # Null
                         /\ \E c \in candles : o = Opening(c) \/ o = Closing(c)
  BY ObservationsOf
<1>3. \A o : o \in K <=> /\ o.price # Null
                         /\ \E c \in candles : /\ c.start <= t
                                               /\ o = Opening(Known(c)) \/ o = Closing(Known(c))
  <2>1. KnownBy(candles, t) = {Known(c) : c \in {c \in candles : c.start <= t}}
    BY DEF KnownBy
  <2>2. \A o : o \in K <=> /\ o.price # Null
                           /\ \E k \in KnownBy(candles, t) : o = Opening(k) \/ o = Closing(k)
    BY ObservationsOf
  <2> HIDE DEF Known, K
  <2> QED BY <2>1, <2>2
<1> HIDE DEF Known, O, K
<1>4. (\A o \in O : o.at \in Int) /\ (\A o \in K : o.at \in Int)
  BY <1>1, <1>2, <1>3 DEF Candle
<1>5. ASSUME NEW o \in O, o.at <= t PROVE o \in K
  <2>1. PICK c \in candles : o = Opening(c) \/ o = Closing(c)
    BY <1>2
  <2>2. c.start \in Int /\ c.start <= t
    BY <1>5, <2>1 DEF Candle
  <2>3. o = Opening(Known(c)) \/ o = Closing(Known(c))
    BY <1>1, <1>5, <2>1, <2>2
  <2> QED BY <1>2, <1>3, <2>2, <2>3
<1>6. ASSUME NEW o \in K, o.at <= t PROVE o \in O
  <2>1. PICK c \in candles : o = Opening(Known(c)) \/ o = Closing(Known(c))
    BY <1>3
  <2>2. o.price # Null
    BY <1>3
  <2>3. o = Opening(c) \/ o = Closing(c)
    BY <1>1, <2>1, <2>2
  <2> QED BY <1>2, <2>2, <2>3
<1> QED BY <1>4, <1>5, <1>6 DEF O, K

\* An answer depends on what could be observed by then, and on nothing else.
LEMMA AnswersAgree ==
  ASSUME NEW obs, NEW known, NEW t \in Int,
         \A o \in obs : o.at \in Int, \A o \in known : o.at \in Int,
         {o \in obs : o.at <= t} = {o \in known : o.at <= t}
  PROVE  At(obs, t) = At(known, t)
<1>1. \A o : o \in obs /\ o.at <= t <=> o \in known /\ o.at <= t
  <2>1. \A o : o \in {q \in obs : q.at <= t} <=> o \in {q \in known : q.at <= t}
    OBVIOUS
  <2> QED BY <2>1
<1>2. {o \in obs : /\ o.at <= t /\ t - o.at <= MaxStale
                   /\ \A p \in obs : p.at <= t => p.at <= o.at}
      = {o \in known : /\ o.at <= t /\ t - o.at <= MaxStale
                       /\ \A p \in known : p.at <= t => p.at <= o.at}
  BY <1>1
<1> QED BY <1>2 DEF At

\* "Lookups are strictly causal" (pricefeed.go:205-287), whatever the candles: no
\* answer of the replay series depends on a price that was not public yet.
THEOREM SeriesIsCausal == Spec => []NoLookAhead
<1>1. PickInv => NoLookAhead
  <2> SUFFICES ASSUME PickInv, kind = "candles",
                      NEW t \in {30 * k : k \in 0..18} \cup {59, 61, 119, 121, 419, 421}
               PROVE  At(Observations(input, Null), t) = At(Observations(KnownBy(input, t), Null), t)
    BY DEF NoLookAhead
  <2>1. t \in Int
    OBVIOUS
  <2>2. \A c \in input : Candle(c)
    BY CandlesAssumption DEF PickInv, Candle
  <2> QED BY <2>1, <2>2, SameObservations, AnswersAgree
<1> QED BY <1>1, PickHolds, PTL
-----------------------------------------------------------------------------
(* The quote and the take.                                                  *)

LEMMA HalfIsWhole ==
  ASSUME NEW u \in Nat
  PROVE  Within(MinHalfSpread, MaxHalfSpread, Scaled(u)) \in Int
<1>1. Scaled(u) \in Int
  BY DEF Scaled
<1> QED BY SMT, <1>1 DEF Within, MinHalfSpread, MaxHalfSpread

\* A price kept inside the unit interval keeps its order and its mirror image.
LEMMA InUnitFacts ==
  ASSUME NEW x \in Int
  PROVE  /\ InUnit(x) \in Int /\ InUnit(x) >= 100 /\ InUnit(x) <= 99900
         /\ InUnit(100000 - x) = 100000 - InUnit(x)
<1>1. InUnit(x) = IF x < 100 THEN 100 ELSE IF x > 99900 THEN 99900 ELSE x
  BY SMT DEF InUnit, Within, Certain
<1>2. InUnit(100000 - x)
        = IF 100000 - x < 100 THEN 100 ELSE IF 100000 - x > 99900 THEN 99900 ELSE 100000 - x
  BY SMT DEF InUnit, Within, Certain
<1> QED BY SMT, <1>1, <1>2

LEMMA InUnitOrder ==
  ASSUME NEW x \in Int, NEW y \in Int, x <= y
  PROVE  InUnit(x) <= InUnit(y)
<1>1. /\ InUnit(x) = IF x < 100 THEN 100 ELSE IF x > 99900 THEN 99900 ELSE x
      /\ InUnit(y) = IF y < 100 THEN 100 ELSE IF y > 99900 THEN 99900 ELSE y
  BY SMT DEF InUnit, Within, Certain
<1> QED BY SMT, <1>1

\* The quote's middle moves against the position.
LEMMA SkewedFacts ==
  ASSUME NEW fair \in Int, NEW inventory \in Int
  PROVE  /\ Skewed(fair, inventory) \in Int
         /\ inventory >= 0 => Skewed(fair, inventory) <= Skewed(fair, 0)
         /\ inventory <= 0 => Skewed(fair, 0) <= Skewed(fair, inventory)
         /\ Skewed(100000 - fair, -inventory) = 100000 - Skewed(fair, inventory)
<1> DEFINE moved == fair - inventory * 150
<1>1. /\ Skewed(fair, inventory) = InUnit(moved)
      /\ Skewed(fair, 0) = InUnit(fair)
  BY SMT DEF Skewed, InventorySkew
<1>2. Skewed(100000 - fair, -inventory) = InUnit(100000 - moved)
  <2>1. (100000 - fair) - (-inventory) * 150 = 100000 - moved
    BY SMT
  <2> QED BY SMT, <2>1 DEF Skewed, InventorySkew
<1>3. /\ moved \in Int
      /\ inventory >= 0 => moved <= fair
      /\ inventory <= 0 => fair <= moved
  BY SMT
<1> HIDE DEF moved
<1> QED BY SMT, <1>1, <1>2, <1>3, InUnitFacts, InUnitOrder

\* A quote's two sides, half a spread from its middle.
Low(fair, u, i) == InUnit(Skewed(fair, i) - Within(MinHalfSpread, MaxHalfSpread, Scaled(u)))
High(fair, u, i) == InUnit(Skewed(fair, i) + Within(MinHalfSpread, MaxHalfSpread, Scaled(u)))
TooSure(fair) == fair \notin CertaintyBound..(Certain - CertaintyBound)

LEMMA SidesMirror ==
  ASSUME NEW fair \in Int, NEW u \in Nat, NEW i \in Int
  PROVE  /\ Low(fair, u, i) \in Int /\ Low(fair, u, i) >= 100 /\ Low(fair, u, i) <= 99900
         /\ High(fair, u, i) \in Int /\ High(fair, u, i) >= 100 /\ High(fair, u, i) <= 99900
         /\ Low(100000 - fair, u, -i) = 100000 - High(fair, u, i)
         /\ High(100000 - fair, u, -i) = 100000 - Low(fair, u, i)
         /\ i >= 0 => /\ Low(fair, u, i) <= Low(fair, u, 0)
                      /\ High(fair, u, i) <= High(fair, u, 0)
         /\ i <= 0 => /\ Low(fair, u, 0) <= Low(fair, u, i)
                      /\ High(fair, u, 0) <= High(fair, u, i)
<1>1. PICK half \in Int : half = Within(MinHalfSpread, MaxHalfSpread, Scaled(u))
  BY HalfIsWhole
<1>2. PICK mid \in Int : mid = Skewed(fair, i)
  BY SMT, SkewedFacts
<1>3. PICK flat \in Int : flat = Skewed(fair, 0)
  BY SMT, SkewedFacts
<1>4. /\ i >= 0 => mid <= flat
      /\ i <= 0 => flat <= mid
      /\ Skewed(100000 - fair, -i) = 100000 - mid
  <2>1. i >= 0 => Skewed(fair, i) <= Skewed(fair, 0)
    BY SMT, SkewedFacts
  <2>2. i <= 0 => Skewed(fair, 0) <= Skewed(fair, i)
    BY SMT, SkewedFacts
  <2>3. Skewed(100000 - fair, -i) = 100000 - Skewed(fair, i)
    BY SkewedFacts
  <2> QED BY <1>2, <1>3, <2>1, <2>2, <2>3
<1>5. /\ Low(fair, u, i) = InUnit(mid - half) /\ High(fair, u, i) = InUnit(mid + half)
      /\ Low(fair, u, 0) = InUnit(flat - half) /\ High(fair, u, 0) = InUnit(flat + half)
  BY SMT, <1>1, <1>2, <1>3 DEF Low, High
<1>6. /\ Low(100000 - fair, u, -i) = InUnit(100000 - (mid + half))
      /\ High(100000 - fair, u, -i) = InUnit(100000 - (mid - half))
  <2>1. /\ (100000 - mid) - half = 100000 - (mid + half)
        /\ (100000 - mid) + half = 100000 - (mid - half)
    BY SMT
  <2> QED BY SMT, <1>1, <1>4, <2>1 DEF Low, High
<1>7. /\ InUnit(mid - half) \in Int /\ InUnit(mid - half) >= 100 /\ InUnit(mid - half) <= 99900
      /\ InUnit(100000 - (mid - half)) = 100000 - InUnit(mid - half)
  <2>1. mid - half \in Int
    BY SMT
  <2> QED BY SMT, <2>1, InUnitFacts
<1>8. /\ InUnit(mid + half) \in Int /\ InUnit(mid + half) >= 100 /\ InUnit(mid + half) <= 99900
      /\ InUnit(100000 - (mid + half)) = 100000 - InUnit(mid + half)
  <2>1. mid + half \in Int
    BY SMT
  <2> QED BY SMT, <2>1, InUnitFacts
<1>9. ASSUME mid <= flat
      PROVE  InUnit(mid - half) <= InUnit(flat - half) /\ InUnit(mid + half) <= InUnit(flat + half)
  BY SMT, <1>9, InUnitOrder
<1>10. ASSUME flat <= mid
       PROVE  InUnit(flat - half) <= InUnit(mid - half) /\ InUnit(flat + half) <= InUnit(mid + half)
  BY SMT, <1>10, InUnitOrder
<1> QED BY SMT, <1>4, <1>5, <1>6, <1>7, <1>8, <1>9, <1>10

LEMMA ComputeIs ==
  ASSUME NEW fair \in Int, NEW u \in Nat, NEW i \in Int
  PROVE  Compute(fair, u, i, 60, 0)
           = IF TooSure(fair) THEN Refused
             ELSE [bid |-> Low(fair, u, i), ask |-> High(fair, u, i),
                   skipBid |-> High(fair, u, i) - Low(fair, u, i) < MinHalfSpread
                                 \/ i >= MaxInventory,
                   skipAsk |-> High(fair, u, i) - Low(fair, u, i) < MinHalfSpread
                                 \/ i <= -MaxInventory]
<1>1. ~(60 < MinSecondsLeft) /\ ~(0 > MaxSpotAge)
  BY SMT DEF MinSecondsLeft, MaxSpotAge
<1> QED BY <1>1 DEF Compute, Low, High, TooSure

\* A quote, the flat quote of the same belief, and the mirrored belief's quote.
LEMMA QuoteMirrors ==
  ASSUME NEW fair \in Int, NEW u \in Nat, NEW inventory \in Int
  PROVE  LET q == Compute(fair, u, inventory, 60, 0)
             flat == Compute(fair, u, 0, 60, 0)
             other == Compute(Certain - fair, u, -inventory, 60, 0)
         IN  /\ ~q.skipBid /\ ~q.skipAsk => q.bid < q.ask
             /\ inventory >= 0 /\ ~flat.skipBid => q.bid <= flat.bid /\ q.ask <= flat.ask
             /\ inventory <= 0 /\ ~flat.skipAsk => q.bid >= flat.bid /\ q.ask >= flat.ask
             /\ other.bid = Mirrored(q.ask) /\ other.ask = Mirrored(q.bid)
             /\ other.skipBid = q.skipAsk /\ other.skipAsk = q.skipBid
<1> DEFINE q == Compute(fair, u, inventory, 60, 0)
           flat == Compute(fair, u, 0, 60, 0)
           other == Compute(Certain - fair, u, -inventory, 60, 0)
           low == Low(fair, u, inventory)
           high == High(fair, u, inventory)
           low0 == Low(fair, u, 0)
           high0 == High(fair, u, 0)
           olow == Low(100000 - fair, u, -inventory)
           ohigh == High(100000 - fair, u, -inventory)
           narrow == high - low < MinHalfSpread
           onarrow == ohigh - olow < MinHalfSpread
<1>1. /\ low \in Int /\ low >= 100 /\ low <= 99900
      /\ high \in Int /\ high >= 100 /\ high <= 99900
      /\ olow = 100000 - high /\ ohigh = 100000 - low
      /\ inventory >= 0 => low <= low0 /\ high <= high0
      /\ inventory <= 0 => low0 <= low /\ high0 <= high
  BY SMT, SidesMirror
<1>2. low0 \in Int /\ high0 \in Int
  BY SMT, SidesMirror
<1>3. TooSure(100000 - fair) <=> TooSure(fair)
  <2> DEFINE mirror == 100000 - fair
             upper == Certain - CertaintyBound
  <2>1. mirror \in Int
    BY SMT
  <2>2. CertaintyBound \in Int /\ upper \in Int /\ upper = 100000 - CertaintyBound
    BY SMT DEF Certain, CertaintyBound
  <2> HIDE DEF upper
  <2>3. ASSUME NEW f \in Int
        PROVE  f \in CertaintyBound..upper <=> CertaintyBound <= f /\ f <= upper
    BY SMT, <2>2
  <2>4. /\ CertaintyBound <= mirror <=> fair <= upper
        /\ mirror <= upper <=> CertaintyBound <= fair
    BY SMT, <2>2
  <2> HIDE DEF mirror
  <2>5. mirror \in CertaintyBound..upper <=> fair \in CertaintyBound..upper
    BY <2>1, <2>3, <2>4
  <2> QED BY <2>5 DEF TooSure, upper, mirror
<1>4. q = IF TooSure(fair) THEN Refused
          ELSE [bid |-> low, ask |-> high, skipBid |-> narrow \/ inventory >= MaxInventory,
                skipAsk |-> narrow \/ inventory <= -MaxInventory]
  BY ComputeIs
<1>5. flat = IF TooSure(fair) THEN Refused
             ELSE [bid |-> low0, ask |-> high0,
                   skipBid |-> high0 - low0 < MinHalfSpread \/ 0 >= MaxInventory,
                   skipAsk |-> high0 - low0 < MinHalfSpread \/ 0 <= -MaxInventory]
  <2>1. 0 \in Int
    BY SMT
  <2> QED BY <2>1, ComputeIs
<1>6. other = IF TooSure(fair) THEN Refused
              ELSE [bid |-> olow, ask |-> ohigh,
                    skipBid |-> onarrow \/ -inventory >= MaxInventory,
                    skipAsk |-> onarrow \/ -inventory <= -MaxInventory]
  <2> DEFINE o == 100000 - fair
             j == -inventory
  <2>1. o \in Int /\ j \in Int
    BY SMT
  <2> HIDE DEF o, j
  <2>2. Compute(o, u, j, 60, 0)
          = IF TooSure(o) THEN Refused
            ELSE [bid |-> Low(o, u, j), ask |-> High(o, u, j),
                  skipBid |-> High(o, u, j) - Low(o, u, j) < MinHalfSpread \/ j >= MaxInventory,
                  skipAsk |-> High(o, u, j) - Low(o, u, j) < MinHalfSpread \/ j <= -MaxInventory]
    BY <2>1, ComputeIs
  <2>3. TooSure(o) <=> TooSure(fair)
    BY <1>3 DEF o
  <2>4. /\ Certain - fair = o /\ -inventory = j
        /\ olow = Low(o, u, j) /\ ohigh = High(o, u, j)
    BY SMT DEF Certain, o, j
  <2> QED BY <2>2, <2>3, <2>4
<1> HIDE DEF low, high, low0, high0, olow, ohigh
<1>7. onarrow <=> narrow
  BY SMT, <1>1
<1>8. low > 0 /\ high > 0 /\ (~narrow => low < high)
  BY SMT, <1>1 DEF MinHalfSpread
<1>9. olow = Mirrored(high) /\ ohigh = Mirrored(low)
  BY SMT, <1>1 DEF Mirrored, Certain
<1>10. /\ inventory >= 0 => low <= low0 /\ high <= high0
       /\ inventory <= 0 => low >= low0 /\ high >= high0
  BY SMT, <1>1, <1>2
<1>11. /\ -inventory >= MaxInventory <=> inventory <= -MaxInventory
       /\ -inventory <= -MaxInventory <=> inventory >= MaxInventory
  BY SMT DEF MaxInventory
<1> HIDE DEF narrow, onarrow, q, flat, other
<1>12. CASE TooSure(fair)
  <2>1. q = Refused /\ flat = Refused /\ other = Refused
    BY <1>4, <1>5, <1>6, <1>12
  <2>2. /\ Refused.skipBid = TRUE /\ Refused.skipAsk = TRUE
        /\ Refused.bid = 0 /\ Refused.ask = 0 /\ Mirrored(0) = 0
    BY SMT DEF Refused, Mirrored
  <2>3. /\ q.skipBid /\ q.skipAsk /\ flat.skipBid /\ flat.skipAsk
        /\ other.skipBid = q.skipAsk /\ other.skipAsk = q.skipBid
    BY <2>1, <2>2
  <2>4. other.bid = Mirrored(q.ask) /\ other.ask = Mirrored(q.bid)
    BY <2>1, <2>2
  <2> QED BY <2>3, <2>4 DEF q, flat, other
<1>13. CASE ~TooSure(fair)
  <2>1. /\ q.bid = low /\ q.ask = high
        /\ q.skipBid = (narrow \/ inventory >= MaxInventory)
        /\ q.skipAsk = (narrow \/ inventory <= -MaxInventory)
    BY <1>4, <1>13
  <2>2. flat.bid = low0 /\ flat.ask = high0
    BY <1>5, <1>13
  <2>3. /\ other.bid = olow /\ other.ask = ohigh
        /\ other.skipBid = (onarrow \/ -inventory >= MaxInventory)
        /\ other.skipAsk = (onarrow \/ -inventory <= -MaxInventory)
    BY <1>6, <1>13
  <2>4. other.skipBid = q.skipAsk /\ other.skipAsk = q.skipBid
    BY <1>7, <1>11, <2>1, <2>3
  <2>5. ~q.skipBid /\ ~q.skipAsk => q.bid < q.ask
    BY <1>8, <2>1
  <2>6. other.bid = Mirrored(q.ask) /\ other.ask = Mirrored(q.bid)
    BY <1>9, <2>1, <2>3
  <2>7. /\ inventory >= 0 => q.bid <= flat.bid /\ q.ask <= flat.ask
        /\ inventory <= 0 => q.bid >= flat.bid /\ q.ask >= flat.ask
    BY <1>10, <2>1, <2>2
  <2> QED BY <2>4, <2>5, <2>6, <2>7 DEF q, flat, other
<1> QED BY <1>12, <1>13

LEMMA TakeMirrors ==
  ASSUME NEW fair \in Int, NEW u \in Nat
  PROVE  TakesMirror(fair, u)
<1> SUFFICES ASSUME NEW t \in Touch, t.bid < t.ask \/ t.ask = 0, NEW residual \in {0, 14000}
             PROVE  ShouldTake(Certain - fair, u, residual, Mirrored(t.ask), Mirrored(t.bid))
                      = MirroredTake(ShouldTake(fair, u, residual, t.bid, t.ask))
  BY DEF TakesMirror
<1> DEFINE floor == Within(Within(TakeEdge, Certain, u), Certain, residual)
<1>1. floor \in Int /\ floor >= TakeEdge
  BY DEF Within, TakeEdge, Certain
<1>2. t.bid \in {0, 20000, 48000, 96000} /\ t.ask \in {0, 30000, 51000, 98000}
  BY DEF Touch
<1>3. /\ Mirrored(t.ask) \in Int /\ Mirrored(t.bid) \in Int
      /\ Mirrored(t.ask) > 0 <=> t.ask > 0
      /\ Mirrored(t.bid) > 0 <=> t.bid > 0
      /\ t.ask > 0 => Mirrored(t.ask) = Certain - t.ask
      /\ t.bid > 0 => Mirrored(t.bid) = Certain - t.bid
  BY <1>2 DEF Mirrored, Certain
<1> HIDE DEF floor
<1>4. CASE t.ask > 0 /\ fair - t.ask > floor
  <2>1. ~(Mirrored(t.bid) > 0 /\ Certain - fair - Mirrored(t.bid) > floor)
    BY <1>1, <1>2, <1>3, <1>4 DEF Certain, TakeEdge
  <2>2. Mirrored(t.ask) > 0 /\ Mirrored(t.ask) - (Certain - fair) > floor
    BY <1>1, <1>2, <1>3, <1>4 DEF Certain
  <2>3. ShouldTake(fair, u, residual, t.bid, t.ask) = [buy |-> "Up", price |-> t.ask]
    BY <1>4 DEF ShouldTake, floor
  <2>4. ShouldTake(Certain - fair, u, residual, Mirrored(t.ask), Mirrored(t.bid))
          = [buy |-> "Dn", price |-> Mirrored(t.ask)]
    BY <2>1, <2>2 DEF ShouldTake, floor
  <2> QED BY <2>3, <2>4 DEF MirroredTake
<1>5. CASE /\ ~(t.ask > 0 /\ fair - t.ask > floor)
           /\ t.bid > 0 /\ t.bid - fair > floor
  <2>1. Mirrored(t.bid) > 0 /\ Certain - fair - Mirrored(t.bid) > floor
    BY <1>1, <1>2, <1>3, <1>5 DEF Certain
  <2>2. ShouldTake(fair, u, residual, t.bid, t.ask) = [buy |-> "Dn", price |-> t.bid]
    BY <1>5 DEF ShouldTake, floor
  <2>3. ShouldTake(Certain - fair, u, residual, Mirrored(t.ask), Mirrored(t.bid))
          = [buy |-> "Up", price |-> Mirrored(t.bid)]
    BY <2>1 DEF ShouldTake, floor
  <2> QED BY <2>2, <2>3 DEF MirroredTake
<1>6. CASE /\ ~(t.ask > 0 /\ fair - t.ask > floor)
           /\ ~(t.bid > 0 /\ t.bid - fair > floor)
  <2>1. /\ ~(Mirrored(t.bid) > 0 /\ Certain - fair - Mirrored(t.bid) > floor)
        /\ ~(Mirrored(t.ask) > 0 /\ Mirrored(t.ask) - (Certain - fair) > floor)
    BY <1>1, <1>2, <1>3, <1>6 DEF Certain
  <2>2. ShouldTake(fair, u, residual, t.bid, t.ask) = NoTake
    BY <1>6 DEF ShouldTake, floor
  <2>3. ShouldTake(Certain - fair, u, residual, Mirrored(t.ask), Mirrored(t.bid)) = NoTake
    BY <2>1 DEF ShouldTake, floor
  <2> QED BY <2>2, <2>3 DEF MirroredTake, NoTake, Mirrored
<1> QED BY <1>4, <1>5, <1>6

\* A quote leans against the position, never crosses itself, and the mirrored belief
\* gets the mirrored quote and take (quote.go:107-206), for all integer beliefs.
THEOREM QuoteIsSymmetric == Spec => []QuoteShedsInventory
<1>1. PickInv => QuoteShedsInventory
  <2> SUFFICES ASSUME PickInv, kind = "belief" PROVE QuoteShedsInventory
    BY DEF QuoteShedsInventory
  <2>1. input.fair \in Int /\ input.uncertainty \in Nat /\ input.inventory \in Int
    BY BeliefsAssumption DEF PickInv
  <2>2. TakesMirror(input.fair, input.uncertainty)
    BY <2>1, TakeMirrors
  <2>3. LET q == Compute(input.fair, input.uncertainty, input.inventory, 60, 0)
            flat == Compute(input.fair, input.uncertainty, 0, 60, 0)
            other == Compute(Certain - input.fair, input.uncertainty, -input.inventory, 60, 0)
        IN  /\ ~q.skipBid /\ ~q.skipAsk => q.bid < q.ask
            /\ input.inventory >= 0 /\ ~flat.skipBid => q.bid <= flat.bid /\ q.ask <= flat.ask
            /\ input.inventory <= 0 /\ ~flat.skipAsk => q.bid >= flat.bid /\ q.ask >= flat.ask
            /\ other.bid = Mirrored(q.ask) /\ other.ask = Mirrored(q.bid)
            /\ other.skipBid = q.skipAsk /\ other.skipAsk = q.skipBid
    BY <2>1, QuoteMirrors
  <2> QED BY <2>2, <2>3 DEF QuoteShedsInventory
<1> QED BY <1>1, PickHolds, PTL
-----------------------------------------------------------------------------
(* The bar.                                                                 *)

\* The marks are at most four points, so there is a first and a last one.
LEMMA EndsOfFour ==
  ASSUME NEW a \in Int, NEW b \in Int, NEW c \in Int, NEW d \in Int,
         NEW S, S \subseteq {a, b, c, d}, S # {}
  PROVE  /\ Min(S) \in S /\ \A y \in S : Min(S) <= y
         /\ Max(S) \in S /\ \A y \in S : y <= Max(S)
<1>0. PICK z \in S : z \in Int
  OBVIOUS
<1>1. \E x \in S : \A y \in S : x <= y
  <2>1. PICK p \in S : p \in Int /\ p <= z /\ (a \in S => p <= a)
    BY <1>0
  <2>2. PICK q \in S : q \in Int /\ q <= p /\ (b \in S => q <= b)
    BY <2>1
  <2>3. PICK r \in S : r \in Int /\ r <= q /\ (c \in S => r <= c)
    BY <2>2
  <2>4. PICK s \in S : s \in Int /\ s <= r /\ (d \in S => s <= d)
    BY <2>3
  <2>5. \A y \in S : s <= y
    BY <2>1, <2>2, <2>3, <2>4
  <2> QED BY <2>5
<1>2. \E x \in S : \A y \in S : x >= y
  <2>1. PICK p \in S : p \in Int /\ p >= z /\ (a \in S => p >= a)
    BY <1>0
  <2>2. PICK q \in S : q \in Int /\ q >= p /\ (b \in S => q >= b)
    BY <2>1
  <2>3. PICK r \in S : r \in Int /\ r >= q /\ (c \in S => r >= c)
    BY <2>2
  <2>4. PICK s \in S : s \in Int /\ s >= r /\ (d \in S => s >= d)
    BY <2>3
  <2>5. \A y \in S : s >= y
    BY <2>1, <2>2, <2>3, <2>4
  <2> QED BY <2>5
<1> DEFINE least == Min(S)
           most == Max(S)
<1>3. least \in S /\ \A y \in S : least <= y
  BY <1>1 DEF Min
<1>4. most \in S /\ \A y \in S : most >= y
  BY <1>2 DEF Max
<1> HIDE DEF least, most
<1>5. ASSUME NEW y \in S
      PROVE  y <= most
  BY <1>4
<1> QED BY <1>3, <1>4, <1>5 DEF least, most

\* The span before it is moved: around the marks, and wide enough.
LEMMA PaddedContains ==
  ASSUME NEW lo \in Int, NEW hi \in Int, lo <= hi
  PROVE  /\ Padded(lo, hi).lo \in Int /\ Padded(lo, hi).hi \in Int
         /\ Padded(lo, hi).lo <= 20 * lo /\ 20 * hi <= Padded(lo, hi).hi
         /\ Padded(lo, hi).hi - Padded(lo, hi).lo >= MinSpan
<1> DEFINE pad == Larger(7 * (hi - lo), MinPad)
           wide == [lo |-> 20 * lo - pad, hi |-> 20 * hi + pad]
           centre == 10 * (lo + hi)
<1>1. pad \in Int /\ pad >= 400 /\ pad >= 7 * (hi - lo)
  BY DEF Larger, MinPad
<1> HIDE DEF pad
<1>2. wide.lo \in Int /\ wide.hi \in Int /\ wide.lo <= 20 * lo /\ 20 * hi <= wide.hi
  BY <1>1
<1>3. CASE wide.hi - wide.lo >= MinSpan
  <2>1. Padded(lo, hi) = wide
    BY <1>3 DEF Padded, pad
  <2> QED BY <1>2, <1>3, <2>1
<1>4. CASE ~(wide.hi - wide.lo >= MinSpan)
  <2>1. Padded(lo, hi) = [lo |-> centre - 1200, hi |-> centre + 1200]
    BY <1>4 DEF Padded, pad, MinSpan
  <2>2. 20 * (hi - lo) + 2 * pad < 2400
    BY <1>1, <1>4 DEF MinSpan
  <2>3. centre \in Int /\ centre - 1200 <= 20 * lo /\ 20 * hi <= centre + 1200
    BY <1>1, <2>2
  <2> QED BY <2>1, <2>3 DEF MinSpan
<1> QED BY <1>3, <1>4

\* The slice lies on the axis, is never narrower than its minimum and reaches the
\* outermost marks or the ends of the axis, wherever the marks are
\* (Disagreement.tsx:158-204).
THEOREM SliceHoldsTheMarks ==
  ASSUME NEW lo \in Int, NEW hi \in Int, lo <= hi
  PROVE  LET w == Inside(Padded(lo, hi))
         IN  /\ w.lo \in Int /\ w.hi \in Int
             /\ 0 <= w.lo /\ w.hi <= Axis /\ w.hi - w.lo >= MinSpan
             /\ w.lo = 0 \/ w.lo <= 20 * lo
             /\ w.hi = Axis \/ 20 * hi <= w.hi
<1> DEFINE v == Padded(lo, hi)
           right == IF v.lo < 0 THEN [lo |-> 0, hi |-> v.hi - v.lo] ELSE v
           left == IF right.hi > Axis THEN [lo |-> right.lo - (right.hi - Axis), hi |-> Axis]
                   ELSE right
           w == Inside(v)
<1>1. v.lo \in Int /\ v.hi \in Int /\ v.lo <= 20 * lo /\ 20 * hi <= v.hi
      /\ v.hi - v.lo >= 2400
  BY PaddedContains DEF MinSpan
<1> HIDE DEF v
<1>2. /\ right.lo \in Int /\ right.hi \in Int /\ right.hi - right.lo >= 2400
      /\ right.lo >= 0 /\ right.hi >= v.hi /\ (right.lo = 0 \/ right.lo = v.lo)
  BY <1>1
<1>3. w = [lo |-> Larger(0, left.lo), hi |-> Smaller(Axis, left.hi)]
  BY DEF Inside
<1> HIDE DEF right, w
<1>4. /\ left.lo \in Int /\ left.hi \in Int /\ left.hi <= 20000 /\ left.hi - left.lo >= 2400
      /\ left.lo <= right.lo /\ (left.hi = 20000 \/ left.hi = right.hi)
      /\ (left.lo >= 0 \/ left.hi = 20000)
  BY <1>2 DEF Axis, Whole
<1> HIDE DEF left
<1>5. w.lo = Larger(0, left.lo) /\ w.hi = left.hi
  BY <1>3, <1>4 DEF Smaller, Axis, Whole
<1>6. /\ w.lo \in Int /\ w.hi \in Int /\ 0 <= w.lo /\ w.hi <= 20000 /\ w.hi - w.lo >= 2400
      /\ (w.lo = 0 \/ w.lo <= v.lo) /\ (w.hi = 20000 \/ w.hi >= v.hi)
  BY <1>1, <1>2, <1>4, <1>5 DEF Larger
<1>7. PICK wl, wh, vl, vh \in Int : wl = w.lo /\ wh = w.hi /\ vl = v.lo /\ vh = v.hi
  BY <1>1, <1>6
<1>8. Axis = 20000 /\ MinSpan = 2400
  BY DEF Axis, MinSpan, Whole
<1>9. wl = 0 \/ wl <= 20 * lo
  BY <1>1, <1>6, <1>7
<1>10. wh = Axis \/ 20 * hi <= wh
  BY <1>1, <1>6, <1>7, <1>8
<1>11. /\ w.lo \in Int /\ w.hi \in Int
       /\ 0 <= w.lo /\ w.hi <= Axis /\ w.hi - w.lo >= MinSpan
  BY <1>6, <1>8
<1>12. w = Inside(Padded(lo, hi))
  BY DEF w, v
<1> QED BY <1>7, <1>9, <1>10, <1>11, <1>12

\* Both ends of a gap that is drawn are marks, so neither is cut off, and the gap
\* exceeds the noise, which is at least the half width of the likely range.
LEMMA BarIsFaithful ==
  ASSUME NEW r, r.fair \in 0..Whole, r.uncertainty \in Nat, r.bid \in 0..Whole, r.ask \in 0..Whole
  PROVE  /\ FocusWindow(r).lo >= 0 /\ FocusWindow(r).hi <= Axis
         /\ FocusWindow(r).hi - FocusWindow(r).lo >= MinSpan
         /\ GapDrawn(r) => /\ Gap(r) = 20 * TwiceGap(r)
                           /\ TwiceMid(r) \notin 2 * Band(r).lo..2 * Band(r).hi
<1> DEFINE f == r.fair
           n == Noise(r)
           b == r.bid
           a == r.ask
           M == Marks(r)
           w == FocusWindow(r)
<1>1. /\ f \in 0..1000 /\ n \in Int /\ n >= 4 /\ n >= r.uncertainty
      /\ b \in 0..1000 /\ a \in 0..1000
  BY DEF Noise, Larger, NoiseFloor, Whole
<1>2. M \subseteq {b, a, f - n, f + n}
  BY DEF Marks
<1>3. CASE M = {}
  <2>1. w = [lo |-> 0, hi |-> Axis] /\ ~GapDrawn(r)
    BY <1>1, <1>3 DEF FocusWindow, Marks, GapDrawn
  <2> QED BY <2>1 DEF Axis, MinSpan, Whole
<1>4. CASE M # {}
  <2> DEFINE lo == Min(M)
             hi == Max(M)
  <2>1. lo \in M /\ hi \in M /\ (\A y \in M : lo <= y) /\ (\A y \in M : y <= hi)
    <3> DEFINE c == f - n
               d == f + n
    <3>1. c \in Int /\ d \in Int /\ b \in Int /\ a \in Int
      BY <1>1
    <3>2. M \subseteq {b, a, c, d}
      BY <1>2
    <3> HIDE DEF c, d, b, a, M
    <3> QED BY <1>4, <3>1, <3>2, EndsOfFour
  <2>2. lo \in Int /\ hi \in Int /\ lo <= hi
    BY <1>1, <1>2, <2>1
  <2>3. w = Inside(Padded(lo, hi))
    BY <1>4 DEF FocusWindow
  <2>4. (GapDrawn(r)) => /\ b \in M /\ a \in M /\ f - n \in M /\ f + n \in M
    BY DEF GapDrawn, HasModel, Compared, TwoSided, Marks
  <2> HIDE DEF lo, hi, M, w
  <2>5. /\ w.lo \in Int /\ w.hi \in Int
        /\ 0 <= w.lo /\ w.hi <= Axis /\ w.hi - w.lo >= MinSpan
        /\ w.lo = 0 \/ w.lo <= 20 * lo
        /\ w.hi = Axis \/ 20 * hi <= w.hi
    BY <2>2, <2>3, SliceHoldsTheMarks
  <2>6. ASSUME GapDrawn(r)
        PROVE  /\ Gap(r) = 20 * TwiceGap(r)
               /\ TwiceMid(r) \notin 2 * Band(r).lo..2 * Band(r).hi
    <3>0. PICK wl \in Int : wl = w.lo
      BY <2>5
    <3>1. PICK wh \in Int : wh = w.hi
      BY <2>5
    <3>2. /\ lo <= f /\ f <= hi /\ lo <= b /\ lo <= a /\ b <= hi /\ a <= hi
          /\ wl = 0 \/ wl <= 20 * lo
          /\ wh = 20000 \/ 20 * hi <= wh
      <4>1. /\ lo <= f - n /\ f + n <= hi /\ lo <= b /\ lo <= a /\ b <= hi /\ a <= hi
        BY <2>1, <2>4, <2>6
      <4>2. Axis = 20000
        BY DEF Axis, Whole
      <4> HIDE DEF f, n, b, a
      <4>3. lo <= f /\ f <= hi
        BY <1>1, <2>2, <4>1
      <4> QED BY <2>5, <3>0, <3>1, <4>1, <4>2, <4>3
    <3>3. /\ Larger(2 * wl, Smaller(2 * wh, 40 * f)) = 40 * f
          /\ Larger(2 * wl, Smaller(2 * wh, 20 * (b + a))) = 20 * (b + a)
      <4> HIDE DEF f, n, b, a
      <4>1. 2 * wl <= 40 * f /\ 40 * f <= 2 * wh
        BY <1>1, <2>2, <3>2
      <4>2. 2 * wl <= 20 * (b + a) /\ 20 * (b + a) <= 2 * wh
        BY <1>1, <2>2, <3>2
      <4> QED BY <1>1, <4>1, <4>2 DEF Larger, Smaller
    <3>4. AxisPoint(r, 2 * f) = 40 * f /\ AxisPoint(r, b + a) = 20 * (b + a)
      <4>1. AxisPoint(r, 2 * f) = Larger(2 * wl, Smaller(2 * wh, 20 * (2 * f)))
        BY <3>0, <3>1 DEF AxisPoint, Clamp, w
      <4>2. AxisPoint(r, b + a) = Larger(2 * wl, Smaller(2 * wh, 20 * (b + a)))
        BY <3>0, <3>1 DEF AxisPoint, Clamp, w
      <4>3. 20 * (2 * f) = 40 * f
        BY <1>1
      <4> QED BY <3>3, <4>1, <4>2, <4>3
    <3>5. Gap(r) = 40 * f - 20 * (b + a)
      BY <3>4 DEF Gap, TwiceMid
    <3>6. Gap(r) = 20 * TwiceGap(r)
      BY <1>1, <3>5 DEF TwiceGap, TwiceMid
    <3>7. Abs(2 * f - (b + a)) > 2 * n
      BY <2>6 DEF GapDrawn, Meaningful, TwiceGap, TwiceMid
    <3>8. Band(r).lo >= f - r.uncertainty /\ Band(r).hi <= f + r.uncertainty
          /\ Band(r).lo \in Int /\ Band(r).hi \in Int
      <4> DEFINE u == r.uncertainty
      <4>1. u \in Nat
        OBVIOUS
      <4>2. Band(r) = [lo |-> Larger(0, f - u), hi |-> Smaller(Whole, f + u)]
        BY DEF Band
      <4> HIDE DEF f, u
      <4>3. Larger(0, f - u) >= f - u /\ Larger(0, f - u) \in Int
        BY <1>1, <4>1 DEF Larger
      <4>4. Smaller(Whole, f + u) <= f + u /\ Smaller(Whole, f + u) \in Int
        BY <1>1, <4>1 DEF Smaller, Whole
      <4> QED BY <4>2, <4>3, <4>4 DEF u
    <3>9. ~(2 * Band(r).lo <= b + a /\ b + a <= 2 * Band(r).hi)
      <4> DEFINE bl == Band(r).lo
                 bh == Band(r).hi
                 u == r.uncertainty
      <4>1. u \in Nat /\ n >= u
        BY <1>1
      <4> HIDE DEF f, n, a, b, bl, bh, u
      <4>2. bl >= f - u /\ bh <= f + u /\ bl \in Int /\ bh \in Int
        BY <3>8 DEF bl, bh, u
      <4>3. ~(2 * bl <= b + a /\ b + a <= 2 * bh)
        BY <1>1, <3>7, <4>1, <4>2 DEF Abs
      <4> QED BY <4>3 DEF bl, bh
    <3> QED BY <1>1, <3>6, <3>8, <3>9 DEF TwiceMid
  <2>7. /\ FocusWindow(r).lo >= 0 /\ FocusWindow(r).hi <= Axis
        /\ FocusWindow(r).hi - FocusWindow(r).lo >= MinSpan
    BY <2>5 DEF w
  <2> QED BY <2>6, <2>7
<1> QED BY <1>3, <1>4

\* The coloured gap is drawn at its true length, on a slice of the axis that is wide
\* enough, and only if the market's mid is outside the likely range
\* (Disagreement.tsx:33-39, 91-122, 166-204), whatever the rows' prices and noise.
THEOREM GapIsDrawnInFull == Spec => []GapDrawnInFull
<1>1. PickInv => GapDrawnInFull
  <2> SUFFICES ASSUME PickInv, kind = "rows", NEW r \in ToSet(input)
               PROVE  /\ FocusWindow(r).lo >= 0 /\ FocusWindow(r).hi <= Axis
                      /\ FocusWindow(r).hi - FocusWindow(r).lo >= MinSpan
                      /\ GapDrawn(r) => /\ Gap(r) = 20 * TwiceGap(r)
                                        /\ TwiceMid(r) \notin 2 * Band(r).lo..2 * Band(r).hi
    BY DEF GapDrawnInFull
  <2>1. PICK a \in FieldRows : \E b \in FieldRows : \E c \in FieldRows : input = <<a, b, c>>
    BY DEF PickInv
  <2>2. PICK b \in FieldRows : \E c \in FieldRows : input = <<a, b, c>>
    BY <2>1
  <2>3. PICK c \in FieldRows : input = <<a, b, c>>
    BY <2>2
  <2>4. r \in FieldRows
    BY <2>3 DEF ToSet
  <2>5. r.fair \in 0..Whole /\ r.uncertainty \in Nat /\ r.bid \in 0..Whole /\ r.ask \in 0..Whole
    BY <2>4, RowsAssumption
  <2> QED BY <2>5, BarIsFaithful
<1> QED BY <1>1, PickHolds, PTL
-----------------------------------------------------------------------------
(* The ranking and the headline.                                           *)

\* A row as FieldRows has them.
ProperRow(r) ==
  /\ r.fair \in 0..Whole /\ r.uncertainty \in Nat /\ r.bid \in 0..Whole /\ r.ask \in 0..Whole
  /\ r.secondsLeft \in Int

\* The gap is drawn for a row whose tension is more than one.
LEMMA TensionIs ==
  ASSUME NEW r, ProperRow(r)
  PROVE  /\ Tension(r).num \in Int /\ Tension(r).den \in Int /\ Tension(r).den > 0
         /\ GapDrawn(r) <=> Tension(r).num > Tension(r).den
<1>0. r.fair \in Int /\ r.bid \in Int /\ r.ask \in Int /\ r.uncertainty \in Int
  <2>1. Whole \in Int
    BY DEF Whole
  <2> QED BY <2>1 DEF ProperRow
<1> DEFINE gap == TwiceGap(r)
           noise == Noise(r)
<1>1. gap \in Int /\ noise \in Int /\ noise >= 4
  <2>1. r.fair \in Int /\ r.bid \in Int /\ r.ask \in Int /\ r.uncertainty \in Int
    BY <1>0
  <2>2. gap \in Int
    BY <2>1 DEF TwiceGap, TwiceMid
  <2>3. noise \in Int /\ noise >= 4
    BY <2>1 DEF Noise, Larger, NoiseFloor
  <2> QED BY <2>2, <2>3
<1>2. Meaningful(r) <=> Abs(gap) > 2 * noise
  BY DEF Meaningful
<1>3. CASE HasModel(r) /\ TwoSided(r)
  <2>1. Tension(r).num = Abs(gap) /\ Tension(r).den = 2 * noise
    BY <1>3 DEF Tension
  <2>2. GapDrawn(r) <=> Meaningful(r)
    BY <1>3 DEF GapDrawn, Compared, HasModel
  <2> HIDE DEF gap, noise
  <2>3. Abs(gap) \in Int /\ 2 * noise \in Int /\ 2 * noise > 0
    BY <1>1 DEF Abs
  <2> QED BY <1>2, <2>1, <2>2, <2>3
<1>4. CASE ~ (HasModel(r) /\ TwoSided(r))
  <2>1. Tension(r).num = -1 /\ Tension(r).den = 1
    BY <1>4 DEF Tension
  <2>2. ~ GapDrawn(r)
    BY <1>4 DEF GapDrawn, Compared
  <2> QED BY <2>1, <2>2
<1> QED BY <1>3, <1>4

\* The places a comparator puts ahead of each, among some of the rows.
AheadBy(rows, some, Before(_, _)) ==
  [i \in some |-> {j \in some : Ahead(rows, j, i, Before)}]

\* The field's rows in order of tension, and of the time they have left.
LEMMA TensionOrders ==
  ASSUME NEW n \in Nat, NEW rows, NEW some, some \subseteq 1..n,
         \A i \in 1..n : ProperRow(rows[i])
  PROVE  Orders(AheadBy(rows, some, Tenser)) /\ DOMAIN AheadBy(rows, some, Tenser) = some
<1> DEFINE num == [i \in some |-> Tension(rows[i]).num]
           den == [i \in some |-> Tension(rows[i]).den]
           a == AheadBy(rows, some, Tenser)
<1>1. \A i \in some : num[i] \in Int /\ den[i] \in Int /\ den[i] > 0
  <2> TAKE i \in some
  <2>1. ProperRow(rows[i])
    OBVIOUS
  <2> QED BY <2>1, TensionIs
<1>2. DOMAIN a = some /\ \A i \in some : a[i] \subseteq some
  BY DEF AheadBy
<1>3. \A i, j \in some : i \in a[j] <=>
        (num[i] * den[j] > num[j] * den[i]) \/ (i < j /\ ~ (num[j] * den[i] > num[i] * den[j]))
  <2> SUFFICES ASSUME NEW i \in some, NEW j \in some
               PROVE  i \in a[j] <=> (num[i] * den[j] > num[j] * den[i])
                                       \/ (i < j /\ ~ (num[j] * den[i] > num[i] * den[j]))
    OBVIOUS
  <2>1. i \in a[j] <=> Ahead(rows, i, j, Tenser)
    BY DEF AheadBy
  <2>2. Tenser(rows[i], rows[j]) <=> num[i] * den[j] > num[j] * den[i]
    BY DEF Tenser
  <2>3. Tenser(rows[j], rows[i]) <=> num[j] * den[i] > num[i] * den[j]
    BY DEF Tenser
  <2> HIDE DEF a, num, den
  <2> QED BY <2>1, <2>2, <2>3 DEF Ahead
<1> HIDE DEF a, num, den
<1>4. Orders(a)
  <2>1. some \subseteq Int
    OBVIOUS
  <2> QED BY <1>1, <1>2, <1>3, <2>1, FractionsOrder
<1> QED BY <1>2, <1>4 DEF a

LEMMA SoonestOrders ==
  ASSUME NEW n \in Nat, NEW rows, NEW some, some \subseteq 1..n,
         \A i \in 1..n : ProperRow(rows[i])
  PROVE  Orders(AheadBy(rows, some, SoonestFirst)) /\ DOMAIN AheadBy(rows, some, SoonestFirst) = some
<1> DEFINE num == [i \in some |-> 0 - rows[i].secondsLeft]
           den == [i \in some |-> 1]
           a == AheadBy(rows, some, SoonestFirst)
<1>1. \A i \in some : num[i] \in Int /\ den[i] \in Int /\ den[i] > 0
  <2> TAKE i \in some
  <2>1. rows[i].secondsLeft \in Int
    BY DEF ProperRow
  <2> QED BY <2>1
<1>2. DOMAIN a = some /\ \A i \in some : a[i] \subseteq some
  BY DEF AheadBy
<1>3. \A i, j \in some : i \in a[j] <=>
        (num[i] * den[j] > num[j] * den[i]) \/ (i < j /\ ~ (num[j] * den[i] > num[i] * den[j]))
  <2> SUFFICES ASSUME NEW i \in some, NEW j \in some
               PROVE  i \in a[j] <=> (num[i] * den[j] > num[j] * den[i])
                                       \/ (i < j /\ ~ (num[j] * den[i] > num[i] * den[j]))
    OBVIOUS
  <2>1. i \in a[j] <=> Ahead(rows, i, j, SoonestFirst)
    BY DEF AheadBy
  <2>2. /\ rows[i].secondsLeft < rows[j].secondsLeft <=> num[i] * den[j] > num[j] * den[i]
        /\ rows[j].secondsLeft < rows[i].secondsLeft <=> num[j] * den[i] > num[i] * den[j]
    <3>1. rows[i].secondsLeft \in Int /\ rows[j].secondsLeft \in Int
      BY DEF ProperRow
    <3> DEFINE x == rows[i].secondsLeft
               y == rows[j].secondsLeft
    <3>2. /\ num[i] = 0 - x /\ num[j] = 0 - y /\ den[i] = 1 /\ den[j] = 1
      OBVIOUS
    <3> HIDE DEF x, y, num, den
    <3>3. /\ x < y <=> num[i] * den[j] > num[j] * den[i]
          /\ y < x <=> num[j] * den[i] > num[i] * den[j]
      BY <3>1, <3>2 DEF x, y
    <3> QED BY <3>3 DEF x, y
  <2> HIDE DEF a, num, den
  <2> QED BY <2>1, <2>2 DEF Ahead, SoonestFirst
<1> HIDE DEF a, num, den
<1>4. Orders(a)
  <2>1. some \subseteq Int
    OBVIOUS
  <2> QED BY <1>1, <1>2, <1>3, <2>1, FractionsOrder
<1> QED BY <1>2, <1>4 DEF a

\* The ranking lists every row once, and none below one less tense.
Ranks(rows) == InOrder(AheadBy(rows, DOMAIN rows, Tenser))

LEMMA RankingIs ==
  ASSUME NEW n \in Nat, NEW rows, DOMAIN rows = 1..n, \A i \in 1..n : ProperRow(rows[i])
  PROVE  /\ DOMAIN Ranked(rows) = 1..n
         /\ \A j \in 1..n : \A i \in 1..n : i < j => ~ Tenser(Ranked(rows)[j], Ranked(rows)[i])
         /\ Ranks(rows) \in [1..n -> 1..n]
         /\ Ranked(rows) = [k \in 1..n |-> rows[Ranks(rows)[k]]]
         /\ \A k, l \in 1..n : k # l => Ranks(rows)[k] # Ranks(rows)[l]
         /\ \A i \in 1..n : \E k \in 1..n : Ranks(rows)[k] = i
<1> DEFINE a == AheadBy(rows, 1..n, Tenser)
<1>1. Orders(a) /\ DOMAIN a = 1..n
  <2>1. 1..n \subseteq 1..n
    OBVIOUS
  <2> QED BY <2>1, TensionOrders
<1>2. Ranked(rows) = Listed(rows, a)
  BY DEF Ranked, Sorted, AheadBy
<1>0. Ranks(rows) = InOrder(a)
  BY DEF Ranks
<1>3. \A i, j \in 1..n : i \in a[j] => ~ Tenser(rows[j], rows[i])
  <2> SUFFICES ASSUME NEW i \in 1..n, NEW j \in 1..n, i \in a[j]
               PROVE  ~ Tenser(rows[j], rows[i])
    OBVIOUS
  <2>1. Ahead(rows, i, j, Tenser)
    BY DEF AheadBy
  <2>2. /\ Tension(rows[i]).num \in Int /\ Tension(rows[i]).den \in Int
        /\ Tension(rows[j]).num \in Int /\ Tension(rows[j]).den \in Int
    BY TensionIs
  <2> DEFINE x == Tension(rows[i]).num * Tension(rows[j]).den
             y == Tension(rows[j]).num * Tension(rows[i]).den
  <2>3. x \in Int /\ y \in Int
    BY <2>2
  <2>4. (Tenser(rows[i], rows[j]) <=> x > y) /\ (Tenser(rows[j], rows[i]) <=> y > x)
    BY DEF Tenser
  <2> HIDE DEF x, y
  <2> QED BY <2>1, <2>3, <2>4 DEF Ahead
<1> HIDE DEF a
<1> DEFINE p == InOrder(a)
<1>4. /\ p \in [1..n -> 1..n]
      /\ Listed(rows, a) = [k \in 1..n |-> rows[p[k]]]
      /\ \A k, l \in 1..n : k < l => p[k] \in a[p[l]]
      /\ \A k, l \in 1..n : k # l => p[k] # p[l]
      /\ \A i \in 1..n : \E k \in 1..n : p[k] = i
  BY <1>1, SortedIs
<1> HIDE DEF p
<1>5. Ranked(rows) = [k \in 1..n |-> rows[p[k]]]
  BY <1>2, <1>4
<1>6. \A j \in 1..n : \A i \in 1..n : i < j => ~ Tenser(Ranked(rows)[j], Ranked(rows)[i])
  <2> TAKE j \in 1..n
  <2> TAKE i \in 1..n
  <2> HAVE i < j
  <2>1. p[i] \in a[p[j]] /\ p[i] \in 1..n /\ p[j] \in 1..n
    BY <1>4
  <2>2. ~ Tenser(rows[p[j]], rows[p[i]])
    BY <1>3, <2>1
  <2> QED BY <1>5, <2>2
<1>7. Ranks(rows) = p
  BY <1>0 DEF p
<1> QED BY <1>4, <1>5, <1>6, <1>7

\* In a list of any length, no row whose gap is within the noise ranks above one whose
\* gap is drawn (api.ts:238-244, Disagreement.tsx:37-39).
THEOREM DrawnRankFirst ==
  ASSUME NEW n \in Nat, NEW rows, DOMAIN rows = 1..n, \A i \in 1..n : ProperRow(rows[i]),
         NEW i \in 1..n, NEW j \in 1..n, i < j, GapDrawn(Ranked(rows)[j])
  PROVE  GapDrawn(Ranked(rows)[i])
<1> DEFINE r == Ranked(rows)[i]
           s == Ranked(rows)[j]
<1>1. ~ Tenser(s, r)
  BY RankingIs
<1>2. Ranks(rows) \in [1..n -> 1..n] /\ Ranked(rows) = [k \in 1..n |-> rows[Ranks(rows)[k]]]
  BY RankingIs
<1>3. ProperRow(r) /\ ProperRow(s)
  BY <1>2
<1> HIDE DEF r, s
<1> DEFINE a == Tension(r).num
           k == Tension(r).den
           b == Tension(s).num
           l == Tension(s).den
<1>4. /\ a \in Int /\ k \in Int /\ k > 0 /\ b \in Int /\ l \in Int /\ l > 0
      /\ (GapDrawn(r) <=> a > k) /\ (GapDrawn(s) <=> b > l)
  BY <1>3, TensionIs
<1>5. ~ (b * k > a * l)
  BY <1>1 DEF Tenser
<1>6. b > l
  BY <1>4 DEF s
<1> HIDE DEF a, b, k, l
<1>7. a * l >= b * k
  <2> DEFINE x == a * l
             y == b * k
  <2>1. x \in Int /\ y \in Int /\ ~ (y > x)
    BY <1>4, <1>5
  <2> HIDE DEF x, y
  <2>2. x >= y
    BY <2>1
  <2> QED BY <2>2 DEF x, y
<1>8. b * 1 > 1 * l
  BY <1>4, <1>6
<1>9. a * 1 > 1 * k
  <2>1. b * 1 >= 1 * l
    BY <1>4, <1>6
  <2> DEFINE c == 1
             m == 1
  <2>2. c \in Int /\ m \in Int /\ m > 0
    OBVIOUS
  <2>3. b * m >= c * l /\ b * m > c * l
    BY <1>8, <2>1
  <2> HIDE DEF c, m
  <2>4. a * m > c * k
    BY <1>4, <1>7, <2>2, <2>3, FractionsTransitive
  <2> QED BY <2>4 DEF c, m
<1>10. a > k
  BY <1>4, <1>9
<1> QED BY <1>4, <1>10 DEF r

\* The rows picked are three different ones.
LEMMA PickedRows ==
  ASSUME PickInv, kind = "rows"
  PROVE  /\ DOMAIN input = 1..3 /\ Len(input) = 3
         /\ \A i \in 1..3 : input[i] \in FieldRows /\ ProperRow(input[i])
         /\ \A i, j \in 1..3 : i # j => input[i] # input[j]
<1>1. PICK a \in FieldRows : \E b \in FieldRows : \E c \in FieldRows :
        input = <<a, b, c>> /\ Cardinality({a, b, c}) = 3
  BY DEF PickInv
<1>2. PICK b \in FieldRows : \E c \in FieldRows :
        input = <<a, b, c>> /\ Cardinality({a, b, c}) = 3
  BY <1>1
<1>3. PICK c \in FieldRows : input = <<a, b, c>> /\ Cardinality({a, b, c}) = 3
  BY <1>2
<1>4. \A x, y : IsFiniteSet({x, y}) /\ Cardinality({x, y}) \in 0..2
  <2> SUFFICES ASSUME NEW x, NEW y
               PROVE  IsFiniteSet({x, y}) /\ Cardinality({x, y}) \in 0..2
    OBVIOUS
  <2>1. IsFiniteSet({x}) /\ Cardinality({x}) = 1
    BY FS_Singleton
  <2>2. {x, y} = {x} \cup {y}
    OBVIOUS
  <2>3. /\ IsFiniteSet({x} \cup {y})
        /\ Cardinality({x} \cup {y}) = IF y \in {x} THEN Cardinality({x}) ELSE Cardinality({x}) + 1
    BY <2>1, FS_AddElement
  <2> QED BY <2>1, <2>2, <2>3
<1>5. a # b /\ b # c /\ a # c
  <2>1. a = b => {a, b, c} = {b, c}
    OBVIOUS
  <2>2. b = c => {a, b, c} = {a, c}
    OBVIOUS
  <2>3. a = c => {a, b, c} = {b, c}
    OBVIOUS
  <2> QED BY <1>3, <1>4, <2>1, <2>2, <2>3
<1>6. \A r \in FieldRows : ProperRow(r)
  BY RowsAssumption, ClocksAssumption DEF ProperRow
<1>7. DOMAIN input = 1..3 /\ Len(input) = 3
  BY <1>3
<1>8. input[1] = a /\ input[2] = b /\ input[3] = c
  BY <1>3
<1>9. \A i \in 1..3 : i = 1 \/ i = 2 \/ i = 3
  OBVIOUS
<1>10. \A i \in 1..3 : input[i] \in FieldRows /\ ProperRow(input[i])
  BY <1>6, <1>8, <1>9
<1>11. \A i, j \in 1..3 : i # j => input[i] # input[j]
  BY <1>5, <1>8, <1>9
<1> QED BY <1>7, <1>10, <1>11

\* No window whose gap is within the noise stands above one whose gap is drawn
\* (api.ts:238-244, Disagreement.tsx:37-39, page.tsx:43-45): the ranking's order of
\* tensions and the bar's threshold are the same measure.
THEOREM RankingIsFaithful == Spec => []RankingAgreesWithBar
<1>1. PickInv => RankingAgreesWithBar
  <2> SUFFICES ASSUME PickInv, kind = "rows", NEW i \in DOMAIN Ranked(input),
                      NEW j \in DOMAIN Ranked(input), GapDrawn(Ranked(input)[j]), i < j
               PROVE  GapDrawn(Ranked(input)[i])
    BY DEF RankingAgreesWithBar
  <2> DEFINE n == 3
  <2>1. n \in Nat /\ DOMAIN input = 1..n /\ \A k \in 1..n : ProperRow(input[k])
    BY PickedRows
  <2> HIDE DEF n
  <2>2. i \in 1..n /\ j \in 1..n
    BY <2>1, RankingIs
  <2> QED BY <2>1, <2>2, DrawnRankFirst
<1> QED BY <1>1, PickHolds, PTL

\* The first row by a comparator is one that no other comes before.
LEMMA SoonestLeads ==
  ASSUME NEW n \in Nat, NEW rows, DOMAIN rows = 1..n, \A i \in 1..n : ProperRow(rows[i]),
         NEW some, some \subseteq 1..n, some # {}
  PROVE  \E i \in some : /\ Foremost(rows, some, SoonestFirst) = rows[i]
                         /\ \A j \in some : rows[i].secondsLeft <= rows[j].secondsLeft
<1> DEFINE a == AheadBy(rows, some, SoonestFirst)
           leads(i) == \A j \in some \ {i} : Ahead(rows, i, j, SoonestFirst)
           c == CHOOSE i \in some : leads(i)
<1>1. Orders(a) /\ DOMAIN a = some /\ \A j \in some : \A i \in some :
        i \in a[j] <=> Ahead(rows, i, j, SoonestFirst)
  <2>1. \A j \in some : \A i \in some : i \in a[j] <=> Ahead(rows, i, j, SoonestFirst)
    BY DEF AheadBy
  <2> HIDE DEF a
  <2>2. Orders(a) /\ DOMAIN a = some
    BY SoonestOrders DEF a
  <2> QED BY <2>1, <2>2
<1>2. IsFiniteSet(some)
  <2>1. IsFiniteSet(1..n)
    BY FS_Interval
  <2> QED BY <2>1, FS_Subset
<1>3. \E i \in some : leads(i)
  <2> HIDE DEF a
  <2>1. \E i \in some : \A j \in some \ {i} : i \in a[j]
    BY <1>1, <1>2, OneIsForemost
  <2>2. PICK i \in some : \A j \in some \ {i} : i \in a[j]
    BY <2>1
  <2>3. leads(i)
    BY <1>1, <2>2
  <2> QED BY <2>3
<1>4. Foremost(rows, some, SoonestFirst) = rows[c]
  BY DEF Foremost
<1> HIDE DEF leads, a
<1>5. c \in some /\ leads(c)
  BY <1>3
<1> HIDE DEF c
<1>6. ASSUME NEW j \in some
      PROVE  rows[c].secondsLeft <= rows[j].secondsLeft
  <2>1. rows[c].secondsLeft \in Int /\ rows[j].secondsLeft \in Int
    BY <1>5 DEF ProperRow
  <2>2. CASE j = c
    BY <2>1, <2>2
  <2>3. CASE j # c
    <3>1. Ahead(rows, c, j, SoonestFirst)
      BY <1>5, <2>3 DEF leads
    <3>2. rows[c].secondsLeft < rows[j].secondsLeft \/ ~ (rows[j].secondsLeft < rows[c].secondsLeft)
      BY <3>1 DEF Ahead, SoonestFirst
    <3> QED BY <2>1, <3>2
  <2> QED BY <2>2, <2>3
<1> QED BY <1>4, <1>5, <1>6

LEMMA TensestLeads ==
  ASSUME NEW n \in Nat, NEW rows, DOMAIN rows = 1..n, \A i \in 1..n : ProperRow(rows[i]),
         NEW some, some \subseteq 1..n, some # {}
  PROVE  \E i \in some : Foremost(rows, some, Tenser) = rows[i]
<1> DEFINE a == AheadBy(rows, some, Tenser)
           leads(i) == \A j \in some \ {i} : Ahead(rows, i, j, Tenser)
           c == CHOOSE i \in some : leads(i)
<1>1. Orders(a) /\ DOMAIN a = some /\ \A j \in some : \A i \in some :
        i \in a[j] <=> Ahead(rows, i, j, Tenser)
  <2>1. \A j \in some : \A i \in some : i \in a[j] <=> Ahead(rows, i, j, Tenser)
    BY DEF AheadBy
  <2> HIDE DEF a
  <2>2. Orders(a) /\ DOMAIN a = some
    BY TensionOrders DEF a
  <2> QED BY <2>1, <2>2
<1>2. IsFiniteSet(some)
  <2>1. IsFiniteSet(1..n)
    BY FS_Interval
  <2> QED BY <2>1, FS_Subset
<1>3. \E i \in some : leads(i)
  <2> HIDE DEF a
  <2>1. \E i \in some : \A j \in some \ {i} : i \in a[j]
    BY <1>1, <1>2, OneIsForemost
  <2>2. PICK i \in some : \A j \in some \ {i} : i \in a[j]
    BY <2>1
  <2>3. leads(i)
    BY <1>1, <2>2
  <2> QED BY <2>3
<1>4. Foremost(rows, some, Tenser) = rows[c]
  BY DEF Foremost
<1> HIDE DEF leads
<1>5. c \in some
  BY <1>3
<1> QED BY <1>4, <1>5

\* The headline is a row; if one is undecided it is undecided and decides soonest.
LEMMA HeroIs ==
  ASSUME NEW n \in Nat, n # 0, NEW rows, DOMAIN rows = 1..n, \A i \in 1..n : ProperRow(rows[i])
  PROVE  /\ \E i \in 1..n : PickHero(rows, Null) = rows[i]
         /\ \A i \in 1..n : Undecided(rows[i]) =>
              /\ Undecided(PickHero(rows, Null))
              /\ PickHero(rows, Null).secondsLeft <= rows[i].secondsLeft
<1> DEFINE live == {i \in 1..n : Undecided(rows[i])}
           modelled == {i \in 1..n : HasModel(rows[i])}
           hero == PickHero(rows, Null)
<1>1. hero = IF live # {} THEN Foremost(rows, live, SoonestFirst)
             ELSE IF modelled # {} THEN Foremost(rows, modelled, Tenser)
             ELSE IF rows # <<>> THEN rows[1] ELSE Null
  BY DEF PickHero
<1>2. live \subseteq 1..n /\ modelled \subseteq 1..n
  OBVIOUS
<1>3. \A i \in 1..n : i \in live <=> Undecided(rows[i])
  OBVIOUS
<1> HIDE DEF hero, live, modelled
<1>4. CASE live # {}
  <2>1. \E i \in live : /\ Foremost(rows, live, SoonestFirst) = rows[i]
                        /\ \A j \in live : rows[i].secondsLeft <= rows[j].secondsLeft
    BY <1>2, <1>4, SoonestLeads
  <2>2. PICK i \in live : /\ Foremost(rows, live, SoonestFirst) = rows[i]
                          /\ \A j \in live : rows[i].secondsLeft <= rows[j].secondsLeft
    BY <2>1
  <2>3. hero = rows[i] /\ i \in 1..n
    BY <1>1, <1>2, <1>4, <2>2
  <2>4. Undecided(hero) /\ \A j \in live : hero.secondsLeft <= rows[j].secondsLeft
    BY <1>3, <2>2, <2>3
  <2> QED BY <1>3, <2>3, <2>4 DEF hero
<1>5. CASE live = {}
  <2>1. \A i \in 1..n : ~ Undecided(rows[i])
    BY <1>3, <1>5
  <2>2. \E i \in 1..n : hero = rows[i]
    <3>1. CASE modelled # {}
      <4>1. \E i \in modelled : Foremost(rows, modelled, Tenser) = rows[i]
        BY <1>2, <3>1, TensestLeads
      <4> QED BY <1>1, <1>2, <1>5, <3>1, <4>1
    <3>2. CASE modelled = {}
      <4>1. 1 \in 1..n
        OBVIOUS
      <4>2. rows # <<>>
        <5>1. 1 \in DOMAIN rows
          BY <4>1
        <5> QED BY <5>1
      <4> QED BY <1>1, <1>5, <3>2, <4>1, <4>2
    <3> QED BY <3>1, <3>2
  <2> QED BY <2>1, <2>2 DEF hero
<1> QED BY <1>4, <1>5

\* The table is the ranking without the headline's row.
LEMMA RestIs ==
  ASSUME NEW n \in Nat, NEW rows, DOMAIN rows = 1..n, \A i \in 1..n : ProperRow(rows[i]),
         \A i, j \in 1..n : i # j => rows[i] # rows[j],
         NEW h \in 1..n
  PROVE  /\ ToSet(Rest(rows, rows[h])) = ToSet(rows) \ {rows[h]}
         /\ Len(Rest(rows, rows[h])) = n - 1
<1> DEFINE R == Ranked(rows)
           p == Ranks(rows)
           kept == {k \in 1..n : R[k] # rows[h]}
           place == InOrder(Ascending(kept))
           m == Cardinality(kept)
           rest == Rest(rows, rows[h])
<1>1. /\ DOMAIN R = 1..n /\ p \in [1..n -> 1..n]
      /\ \A k \in 1..n : R[k] = rows[p[k]]
      /\ \A k, l \in 1..n : k # l => p[k] # p[l]
      /\ \A i \in 1..n : \E k \in 1..n : p[k] = i
  <2> HIDE DEF R, p
  <2>1. R = [k \in 1..n |-> rows[p[k]]]
    BY RankingIs DEF R, p
  <2>2. p \in [1..n -> 1..n]
    BY RankingIs DEF p
  <2>3. /\ \A k, l \in 1..n : k # l => p[k] # p[l]
        /\ \A i \in 1..n : \E k \in 1..n : p[k] = i
    BY RankingIs DEF p
  <2> QED BY <2>1, <2>2, <2>3
<1>2. rest = Listed(R, Ascending(kept))
  <2>1. kept = {k \in DOMAIN R : R[k] # rows[h]}
    BY <1>1
  <2> HIDE DEF R
  <2> QED BY <2>1 DEF Rest, Filtered, Ascending, R
<1> HIDE DEF R, p, place
<1>3. /\ IsFiniteSet(kept) /\ m \in Nat
      /\ place \in [1..m -> kept]
      /\ \A i \in kept : \E k \in 1..m : place[k] = i
  <2>1. kept \subseteq 1..n
    OBVIOUS
  <2> HIDE DEF kept
  <2> QED BY <2>1, KeptInOrder DEF place
<1>4. PICK q \in 1..n : p[q] = h
  BY <1>1
<1>5. kept = (1..n) \ {q}
  <2>1. ASSUME NEW k \in 1..n
        PROVE  k \in kept <=> k # q
    <3>1. R[k] = rows[p[k]] /\ p[k] \in 1..n
      BY <1>1
    <3>2. k # q => p[k] # h
      BY <1>1, <1>4
    <3> QED BY <1>4, <3>1, <3>2
  <2>2. kept \subseteq 1..n
    OBVIOUS
  <2> HIDE DEF kept
  <2> QED BY <2>1, <2>2
<1>6. m = n - 1
  <2>1. IsFiniteSet(1..n) /\ Cardinality(1..n) = n
    BY FS_Interval
  <2>2. Cardinality((1..n) \ {q}) = n - 1
    BY <2>1, FS_RemoveElement
  <2> QED BY <1>5, <2>2
<1>7. rest = [k \in 1..m |-> R[place[k]]]
  <2>1. DOMAIN Ascending(kept) = kept
    BY DEF Ascending
  <2> HIDE DEF kept
  <2>2. DOMAIN place = 1..m
    BY <1>3
  <2> QED BY <1>2, <2>1, <2>2 DEF Listed, place
<1> HIDE DEF rest, kept, m
<1>8. Len(rest) = n - 1
  BY <1>3, <1>6, <1>7
<1>9. ToSet(rest) = {R[k] : k \in kept}
  <2>1. ToSet(rest) = {R[place[k]] : k \in 1..m}
    BY <1>7 DEF ToSet
  <2> QED BY <1>3, <2>1
<1>10. {R[k] : k \in kept} = ToSet(rows) \ {rows[h]}
  <2>1. ASSUME NEW k \in kept
        PROVE  R[k] \in ToSet(rows) \ {rows[h]}
    <3>1. k \in 1..n /\ R[k] # rows[h] /\ p[k] \in 1..n
      BY <1>1 DEF kept
    <3> QED BY <1>1, <3>1 DEF ToSet
  <2>2. ASSUME NEW r \in ToSet(rows) \ {rows[h]}
        PROVE  \E k \in kept : R[k] = r
    <3>1. PICK i \in 1..n : r = rows[i]
      BY DEF ToSet
    <3>2. PICK k \in 1..n : p[k] = i
      BY <1>1
    <3>3. R[k] = r
      BY <1>1, <3>1, <3>2
    <3> QED BY <3>3 DEF kept
  <2> QED BY <2>1, <2>2
<1> QED BY <1>8, <1>9, <1>10 DEF rest

\* The headline is an undecided window whenever there is one, the one that decides
\* soonest, and with the table below it shows every window once
\* (api.ts:252-280, page.tsx:33-37).
THEOREM HeadlineIsStillOpen == Spec => []HeadlineIsUndecided
<1>1. PickInv => HeadlineIsUndecided
  <2> SUFFICES ASSUME PickInv, kind = "rows" PROVE HeadlineIsUndecided
    BY DEF HeadlineIsUndecided
  <2> DEFINE n == 3
             hero == PickHero(input, Null)
             open == {r \in ToSet(input) : Undecided(r)}
  <2>1. /\ n \in Nat /\ n # 0 /\ DOMAIN input = 1..n /\ Len(input) = n
        /\ \A i \in 1..n : ProperRow(input[i])
        /\ \A i, j \in 1..n : i # j => input[i] # input[j]
    BY PickedRows
  <2> HIDE DEF n
  <2>2. PICK h \in 1..n : hero = input[h]
    BY <2>1, HeroIs
  <2>3. \A i \in 1..n : Undecided(input[i]) => /\ Undecided(hero)
                                                /\ hero.secondsLeft <= input[i].secondsLeft
    BY <2>1, HeroIs
  <2> HIDE DEF hero
  <2>4. open # {} => hero \in open /\ \A r \in open : hero.secondsLeft <= r.secondsLeft
    BY <2>1, <2>2, <2>3 DEF ToSet
  <2>5. ToSet(Rest(input, hero)) = ToSet(input) \ {hero} /\ Len(Rest(input, hero)) = Len(input) - 1
    BY <2>1, <2>2, RestIs
  <2> QED BY <2>4, <2>5 DEF HeadlineIsUndecided, hero
<1> QED BY <1>1, PickHolds, PTL
-----------------------------------------------------------------------------
(* The attribution.                                                         *)

Numbers(w) == /\ IsFiniteSet(DOMAIN w.fills)
              /\ \A i \in DOMAIN w.fills : LET f == w.fills[i]
                                           IN  f.price \in Int /\ f.fair \in Int /\ f.qty \in Int

\* Profit is edge plus selection, for any number of fills.
LEMMA AttributionAdds ==
  ASSUME NEW w, Numbers(w)
  PROVE  Attribution(w).Net = Attribution(w).Edge + Attribution(w).Selection
<1> DEFINE S == DOMAIN w.fills
           parts == Map(LAMBDA f : Part(w, f), w.fills)
           Field(name) == [i \in S |-> parts[i][name]]
           paid == Field("Payout")
           cost == Field("Cost")
           edge == Field("Edge")
           selection == Field("Selection")
           net == [i \in S |-> paid[i] - cost[i]]
<1>1. /\ Attribution(w).Net = SumFunctionOnSet(paid, S) - SumFunctionOnSet(cost, S)
      /\ Attribution(w).Edge = SumFunctionOnSet(edge, S)
      /\ Attribution(w).Selection = SumFunctionOnSet(selection, S)
  <2>1. DOMAIN parts = S
    BY DEF Map
  <2>2. /\ Total("Payout", parts) = SumFunctionOnSet(paid, S)
        /\ Total("Cost", parts) = SumFunctionOnSet(cost, S)
        /\ Total("Edge", parts) = SumFunctionOnSet(edge, S)
        /\ Total("Selection", parts) = SumFunctionOnSet(selection, S)
    BY <2>1 DEF Total, TotalOf
  <2>3. /\ Attribution(w).Net = Total("Payout", parts) - Total("Cost", parts)
        /\ Attribution(w).Edge = Total("Edge", parts)
        /\ Attribution(w).Selection = Total("Selection", parts)
    BY DEF Attribution
  <2> QED BY <2>2, <2>3
<1>2. ASSUME NEW i \in S
      PROVE  /\ paid[i] \in Int /\ cost[i] \in Int /\ edge[i] \in Int /\ selection[i] \in Int
             /\ net[i] = edge[i] + selection[i] /\ paid[i] = net[i] + cost[i] /\ net[i] \in Int
  <2> DEFINE f == w.fills[i]
             value == Value(w, f)
             worth == SideFair(f)
             price == f.price
             qty == f.qty
  <2>1. value \in Int /\ worth \in Int /\ price \in Int /\ qty \in Int
    BY <1>2 DEF Numbers, Value, SideFair, One
  <2>2. paid[i] = value * qty /\ cost[i] = price * qty /\ edge[i] = (worth - price) * qty
        /\ selection[i] = (value - worth) * qty
    BY DEF Map, Part
  <2>3. net[i] = paid[i] - cost[i]
    OBVIOUS
  <2> HIDE DEF value, worth, price, qty, net, paid, cost, edge, selection
  <2>4. value * qty - price * qty = (worth - price) * qty + (value - worth) * qty
    BY <2>1
  <2>5. /\ value * qty \in Int /\ price * qty \in Int /\ (worth - price) * qty \in Int
        /\ (value - worth) * qty \in Int
    BY <2>1
  <2>6. paid[i] \in Int /\ cost[i] \in Int /\ edge[i] \in Int /\ selection[i] \in Int
    BY <2>2, <2>5
  <2>7. net[i] = edge[i] + selection[i]
    BY <2>2, <2>3, <2>4
  <2> QED BY <2>3, <2>6, <2>7
<1> HIDE DEF paid, cost, edge, selection, net, S
<1>3. IsFiniteSet(S)
  BY DEF Numbers, S
<1>4. SumFunctionOnSet(net, S) = SumFunctionOnSet(edge, S) + SumFunctionOnSet(selection, S)
  BY <1>2, <1>3, SumsAdd
<1>5. SumFunctionOnSet(paid, S) = SumFunctionOnSet(net, S) + SumFunctionOnSet(cost, S)
  BY <1>2, <1>3, SumsAdd
<1>6. SumFunctionOnSet(net, S) \in Int /\ SumFunctionOnSet(cost, S) \in Int
  BY <1>2, <1>3, SumIsInt
<1> QED BY <1>1, <1>4, <1>5, <1>6

\* Profit splits exactly into edge and selection, and a fill found by reconciliation
\* has an edge of zero on either side (ledger.go:349-381, engine.go:1194-1204).
THEOREM ProfitSplitsExactly == Spec => []AttributionIsExact
<1>1. PickInv => AttributionIsExact
  <2> SUFFICES ASSUME PickInv, kind = "window" PROVE AttributionIsExact
    BY DEF AttributionIsExact
  <2>1. PICK f \in Fills : \E g \in Fills : input.fills = <<f, g>>
    BY DEF PickInv
  <2>2. PICK g \in Fills : input.fills = <<f, g>>
    BY <2>1
  <2>3. DOMAIN input.fills = 1..2 /\ \A i \in 1..2 : input.fills[i] \in Fills
    BY <2>2
  <2>4. Numbers(input)
    <3>1. IsFiniteSet(1..2)
      <4> DEFINE two == 2
      <4>1. two \in Int
        OBVIOUS
      <4> HIDE DEF two
      <4>2. IsFiniteSet(1..two)
        BY <4>1, FS_Interval
      <4> QED BY <4>2 DEF two
    <3>2. \A h \in Fills : h.price \in Int /\ h.fair \in Int /\ h.qty \in Int
      BY FillsAssumption
    <3> QED BY <2>3, <3>1, <3>2 DEF Numbers
  <2>5. Attribution(input).Net = Attribution(input).Edge + Attribution(input).Selection
    BY <2>4, AttributionAdds
  <2>6. ASSUME NEW h \in ToSet(input.fills), ~h.modelFair
        PROVE  Part(input, h).Edge = 0
    <3>1. h \in Fills
      BY <2>3 DEF ToSet
    <3>2. h.price \in Int /\ h.fair \in Int /\ h.qty \in Int /\ h.kind \in {"BUY_UP", "BUY_DN"}
      BY <3>1, FillsAssumption
    <3>3. h.price = SideFair(h)
      BY <2>6, <3>1, FillsAssumption DEF SideFair
    <3>4. (SideFair(h) - h.price) * h.qty = 0
      BY <3>2, <3>3
    <3> QED BY <3>4 DEF Part
  <2> QED BY <2>5, <2>6 DEF AttributionIsExact
<1> QED BY <1>1, PickHolds, PTL
-----------------------------------------------------------------------------
(* The isotonic fit: the sums of wins at the ends of the bins, over how many *)
(* outcomes there are, make a curve; the fit is its lower convex hull.      *)

\* Blocks with whole sums and counts.
Blocks(s, m) == DOMAIN s = 1..m /\ \A b \in 1..m : s[b].sumY \in Int /\ s[b].n \in Int
\* The recursion behind Pooled.
Pools(g, cur, s, S) ==
  g = [u \in SUBSET S |-> IF u = {} THEN cur ELSE Merged(s[Picked(u)], g[u \ {Picked(u)}])]

LEMMA FoldPools ==
  \A cur, s : FoldSeq(Merged, cur, s) = (CHOOSE g : Pools(g, cur, s, DOMAIN s))[DOMAIN s]
BY DEF FoldSeq, FoldFunction, FoldFunctionOnSet, MapThenFoldSet, Pools, Picked

\* Blocks pooled add up.
LEMMA PoolSums ==
  ASSUME NEW m \in Nat, NEW s, Blocks(s, m), NEW y \in Int, NEW n \in Int
  PROVE  FoldSeq(Merged, Block(y, n), s) =
           Block(y + SumFunctionOnSet([b \in 1..m |-> s[b].sumY], 1..m),
                 n + SumFunctionOnSet([b \in 1..m |-> s[b].n], 1..m))
<1> DEFINE S == 1..m
           fy == [b \in S |-> s[b].sumY]
           fn == [b \in S |-> s[b].n]
           cur == Block(y, n)
           G == [u \in SUBSET S |-> Block(y + SumFunctionOnSet(fy, u), n + SumFunctionOnSet(fn, u))]
<1>1. IsFiniteSet(S) /\ DOMAIN s = S /\ \A b \in S : fy[b] \in Int /\ fn[b] \in Int
      /\ fy[b] = s[b].sumY /\ fn[b] = s[b].n
  BY FS_Interval DEF Blocks
<1> HIDE DEF S, fy, fn
<1>2. \A u \in SUBSET S : IsFiniteSet(u) /\ SumFunctionOnSet(fy, u) \in Int /\ SumFunctionOnSet(fn, u) \in Int
  BY <1>1, FS_Subset, SumIsInt
<1>3. ASSUME NEW u \in SUBSET S, u # {}
      PROVE  G[u] = Merged(s[Picked(u)], G[u \ {Picked(u)}])
  <2> DEFINE p == Picked(u)
             v == u \ {p}
  <2>1. p \in u /\ p \in S /\ v \in SUBSET S
    BY <1>3, PickedIn
  <2>2. /\ SumFunctionOnSet(fy, u) = fy[p] + SumFunctionOnSet(fy, v)
        /\ SumFunctionOnSet(fn, u) = fn[p] + SumFunctionOnSet(fn, v)
    BY <1>2, <1>3, SumUnfolds
  <2> HIDE DEF p, v
  <2>3. /\ G[u] = Block(y + SumFunctionOnSet(fy, u), n + SumFunctionOnSet(fn, u))
        /\ G[v] = Block(y + SumFunctionOnSet(fy, v), n + SumFunctionOnSet(fn, v))
    BY <2>1
  <2>4. Merged(s[p], G[v]) = Block(fy[p] + (y + SumFunctionOnSet(fy, v)), fn[p] + (n + SumFunctionOnSet(fn, v)))
    BY <1>1, <2>1, <2>3 DEF Merged, Block
  <2>5. /\ fy[p] + (y + SumFunctionOnSet(fy, v)) = y + SumFunctionOnSet(fy, u)
        /\ fn[p] + (n + SumFunctionOnSet(fn, v)) = n + SumFunctionOnSet(fn, u)
    BY <1>1, <1>2, <2>1, <2>2
  <2>6. G[u] = Merged(s[p], G[v])
    BY <2>3, <2>4, <2>5
  <2> QED BY <2>6 DEF p, v
<1>4. G[{}] = cur
  BY SumOfNone DEF Block
<1>5. Pools(G, cur, s, S)
  <2> DEFINE h == G
  <2>1. DOMAIN h = SUBSET S /\ h = [u \in SUBSET S |-> h[u]]
    OBVIOUS
  <2>2. \A u \in SUBSET S : h[u] = IF u = {} THEN cur ELSE Merged(s[Picked(u)], h[u \ {Picked(u)}])
    BY <1>3, <1>4
  <2> HIDE DEF h, cur
  <2>3. Pools(h, cur, s, S)
    BY <2>1, <2>2 DEF Pools
  <2> QED BY <2>3 DEF h
<1> HIDE DEF G, cur
<1> DEFINE g == CHOOSE g : Pools(g, cur, s, S)
<1>6. Pools(g, cur, s, S)
  BY <1>5
<1> HIDE DEF g
<1> DEFINE bad == {u \in SUBSET S : g[u] # G[u]}
<1>7. bad = {}
  <2> SUFFICES ASSUME bad # {} PROVE FALSE
    OBVIOUS
  <2>1. PICK u \in bad : \A t \in bad : t \subseteq u => t = u
    <3> HIDE DEF bad
    <3>1. bad \subseteq SUBSET S
      BY DEF bad
    <3> QED BY <1>1, <3>1, LeastSubset
  <2>2. u \in SUBSET S /\ g[u] # G[u]
    BY <2>1
  <2>3. /\ g[u] = IF u = {} THEN cur ELSE Merged(s[Picked(u)], g[u \ {Picked(u)}])
        /\ G[u] = IF u = {} THEN cur ELSE Merged(s[Picked(u)], G[u \ {Picked(u)}])
    BY <1>5, <1>6, <2>2 DEF Pools
  <2>4. u # {} /\ g[u \ {Picked(u)}] # G[u \ {Picked(u)}]
    BY <2>2, <2>3
  <2>5. u \ {Picked(u)} \in bad /\ Picked(u) \in u
    BY <2>2, <2>4, PickedIn
  <2> QED BY <2>1, <2>5
<1>8. FoldSeq(Merged, cur, s) = G[S]
  <2>1. FoldSeq(Merged, cur, s) = g[S]
    BY <1>1, FoldPools DEF g
  <2>2. S \in SUBSET S
    OBVIOUS
  <2> QED BY <1>7, <2>1, <2>2
<1> QED BY <1>8 DEF G, cur, S, fy, fn

\* A list of blocks by what they add to: sums F and counts H up to each.
Run(F, H, l, r) == Block(F[r] - F[l], H[r] - H[l])
Steps(s, m, F, H) ==
  /\ DOMAIN s = 1..m /\ s = [b \in 1..m |-> s[b]]
  /\ \A b \in 0..m : F[b] \in Int /\ H[b] \in Int
  /\ \A b \in 1..m : s[b] = Run(F, H, b - 1, b)

\* A stretch of them pooled with one more block.
LEMMA PoolIsRun ==
  ASSUME NEW m \in Nat, NEW s, NEW F, NEW H, Steps(s, m, F, H),
         NEW k \in 0..m, NEW l \in k..m, NEW y \in Int, NEW n \in Int
  PROVE  FoldSeq(Merged, Block(y, n), SubSeq(s, k + 1, l)) =
           Block(y + (F[l] - F[k]), n + (H[l] - H[k]))
<1> DEFINE u == SubSeq(s, k + 1, l)
           h == l - k
           A == [x \in 0..h |-> F[x + k]]
           B == [x \in 0..h |-> H[x + k]]
           fy == [x \in 1..h |-> u[x].sumY]
           fn == [x \in 1..h |-> u[x].n]
<1>1. h \in Nat /\ u = [x \in 1..h |-> s[x + k]]
  <2>1. SubSeq(s, k + 1, l) = [x \in 1..l - k |-> s[x + k]]
    BY SliceIs
  <2> QED BY <2>1
<1>2. \A x \in 0..h : A[x] = F[x + k] /\ B[x] = H[x + k] /\ A[x] \in Int /\ B[x] \in Int
  <2>1. \A x \in 0..h : x + k \in 0..m
    OBVIOUS
  <2> QED BY <2>1 DEF Steps
<1>3. ASSUME NEW x \in 1..h
      PROVE  u[x].sumY = A[x] - A[x - 1] /\ u[x].n = B[x] - B[x - 1]
  <2>1. x + k \in 1..m /\ x \in 0..h /\ x - 1 \in 0..h /\ (x + k) - 1 = (x - 1) + k
    OBVIOUS
  <2>2. u[x] = Run(F, H, (x + k) - 1, x + k)
    BY <1>1, <2>1 DEF Steps
  <2> QED BY <1>2, <2>1, <2>2 DEF Run, Block
<1>4. A[h] = F[l] /\ A[0] = F[k] /\ B[h] = H[l] /\ B[0] = H[k]
  <2>1. h + k = l /\ 0 + k = k /\ h \in 0..h /\ 0 \in 0..h
    OBVIOUS
  <2> QED BY <1>2, <2>1
<1> HIDE DEF h, u, A, B
<1>5. Blocks(u, h)
  <2>1. DOMAIN u = 1..h
    BY <1>1
  <2>2. ASSUME NEW x \in 1..h PROVE u[x].sumY \in Int /\ u[x].n \in Int
    <3>1. x \in 0..h /\ x - 1 \in 0..h
      BY <1>1
    <3> QED BY <1>2, <1>3, <3>1
  <2> QED BY <2>1, <2>2 DEF Blocks
<1>6. \A x \in 1..h : fy[x] = A[x] - A[x - 1] /\ fn[x] = B[x] - B[x - 1]
  BY <1>3
<1>7. FoldSeq(Merged, Block(y, n), u) =
        Block(y + SumFunctionOnSet(fy, 1..h), n + SumFunctionOnSet(fn, 1..h))
  <2>1. h \in Nat /\ Blocks(u, h)
    BY <1>1, <1>5
  <2> QED BY <2>1, PoolSums
<1> HIDE DEF fy, fn
<1>8. SumFunctionOnSet(fy, 1..h) = A[h] - A[0] /\ SumFunctionOnSet(fn, 1..h) = B[h] - B[0]
  BY <1>1, <1>2, <1>6, SumTelescopes
<1> QED BY <1>4, <1>7, <1>8 DEF u

\* The mean of a stretch of bins.
LEMMA RunOfIs ==
  ASSUME NEW m \in Nat, NEW s, NEW F, NEW H, Steps(s, m, F, H), NEW k \in 1..m, NEW j \in 1..k
  PROVE  Pooled(SubSeq(s, j, k - 1), 1, s[k]) = Run(F, H, j - 1, k)
<1> DEFINE a == j - 1
           b == k - 1
           u == SubSeq(s, j, k - 1)
<1>1. a \in 0..m /\ b \in a..m /\ a + 1 = j /\ k \in 0..m /\ b \in 0..m /\ b - a \in Nat /\ 0 + 1 = 1
  OBVIOUS
<1>2. s[k] = Run(F, H, b, k)
  BY DEF Steps
<1>3. /\ F[a] \in Int /\ F[b] \in Int /\ F[k] \in Int
      /\ H[a] \in Int /\ H[b] \in Int /\ H[k] \in Int
  BY <1>1 DEF Steps
<1> HIDE DEF a, b
<1>4. SubSeq(s, a + 1, b) = [x \in 1..b - a |-> s[x + a]]
  BY <1>1, SliceIs
<1>5. u = [x \in 1..b - a |-> u[x]] /\ u = SubSeq(s, a + 1, b)
  BY <1>1, <1>4 DEF b
<1> HIDE DEF u
<1>6. SubSeq(u, 1, Len(u)) = u
  BY <1>1, <1>5, SliceOfAll
<1> DEFINE y == F[k] - F[b]
           n == H[k] - H[b]
<1>7. y \in Int /\ n \in Int /\ s[k] = Block(y, n)
  BY <1>2, <1>3 DEF Run
<1> HIDE DEF y, n
<1>8. FoldSeq(Merged, Block(y, n), SubSeq(s, a + 1, b)) = Block(y + (F[b] - F[a]), n + (H[b] - H[a]))
  BY <1>1, <1>7, PoolIsRun
<1>9. y + (F[b] - F[a]) = F[k] - F[a] /\ n + (H[b] - H[a]) = H[k] - H[a]
  BY <1>3 DEF y, n
<1>10. Pooled(u, 1, s[k]) = Run(F, H, a, k)
  BY <1>5, <1>6, <1>7, <1>8, <1>9 DEF Pooled, Run
<1> QED BY <1>10 DEF u, a

\* Below, in terms of the curve: a run is below another when its line is flatter.
LEMMA BelowIsFlatter ==
  ASSUME NEW F, NEW H, NEW l, NEW r, NEW a, NEW b,
         \A x \in {l, r, a, b} : F[x] \in Int /\ H[x] \in Int
  PROVE  NoFlatter(F, H, l, r, a, b) <=> ~Below(Run(F, H, l, r), Run(F, H, a, b))
<1> DEFINE x == (F[r] - F[l]) * (H[b] - H[a])
           y == (F[b] - F[a]) * (H[r] - H[l])
<1>1. x \in Int /\ y \in Int
  OBVIOUS
<1>2. Below(Run(F, H, l, r), Run(F, H, a, b)) <=> x < y
  BY DEF Below, Run, Block
<1>3. NoFlatter(F, H, l, r, a, b) <=> x >= y
  BY DEF NoFlatter
<1> HIDE DEF x, y
<1> QED BY <1>1, <1>2, <1>3

\* A stack of m blocks, cut from the first i bins at the places c: every bin is in a
\* block, the sums lie above the line of each block, and the blocks steepen.
Hull(F, H, i, st, m, c) ==
  /\ m \in Nat /\ c \in [0..m -> 0..i] /\ c[0] = 0 /\ c[m] = i
  /\ \A a \in 0..m : \A b \in 0..m : a < b => c[a] < c[b]
  /\ \A p \in 1..i : \E b \in 1..m : c[b - 1] < p /\ p <= c[b]
  /\ st = [b \in 1..m |-> Run(F, H, c[b - 1], c[b])]
  /\ \A b \in 1..m : \A p \in 0..i : Above(F, H, c[b - 1], c[b], p)
  /\ \A a \in 1..m : \A b \in 1..m : a < b => NoFlatter(F, H, c[b - 1], c[b], c[a - 1], c[a])
Hulled(F, H, i, st) == \E m \in Nat : \E c \in [0..m -> 0..i] : Hull(F, H, i, st, m, c)

\* The blocks of a stack add up along the curve, too.
LEMMA StackSteps ==
  ASSUME NEW N, NEW F, NEW H, Curve(F, H, N), NEW i \in 0..N,
         NEW st, NEW m, NEW c, Hull(F, H, i, st, m, c)
  PROVE  Steps(st, m, [b \in 0..m |-> F[c[b]]], [b \in 0..m |-> H[c[b]]])
<1> DEFINE f == [b \in 0..m |-> F[c[b]]]
           h == [b \in 0..m |-> H[c[b]]]
<1>1. /\ m \in Nat /\ c \in [0..m -> 0..N]
      /\ st = [b \in 1..m |-> Run(F, H, c[b - 1], c[b])]
  <2>1. /\ m \in Nat /\ c \in [0..m -> 0..i]
        /\ st = [b \in 1..m |-> Run(F, H, c[b - 1], c[b])]
    BY DEF Hull
  <2>2. 0..i \subseteq 0..N
    BY DEF Curve
  <2> QED BY <2>1, <2>2
<1>2. st = [b \in 1..m |-> st[b]] /\ DOMAIN st = 1..m
  BY <1>1
<1>3. \A b \in 0..m : f[b] \in Int /\ h[b] \in Int
  BY <1>1 DEF Curve
<1>4. ASSUME NEW b \in 1..m PROVE st[b] = Run(f, h, b - 1, b)
  <2>1. b \in 0..m /\ b - 1 \in 0..m
    BY <1>1
  <2>2. f[b] = F[c[b]] /\ f[b - 1] = F[c[b - 1]] /\ h[b] = H[c[b]] /\ h[b - 1] = H[c[b - 1]]
    BY <2>1
  <2> QED BY <1>1, <2>2 DEF Run
<1> HIDE DEF f, h
<1>5. Steps(st, m, f, h)
  BY <1>2, <1>3, <1>4 DEF Steps
<1> QED BY <1>5 DEF f, h

\* What pooling the top of the stack with the next bin gives.
LEMMA PooledIsRun ==
  ASSUME NEW N, NEW F, NEW H, Curve(F, H, N), NEW i \in 0..N - 1,
         NEW st, NEW m, NEW c, Hull(F, H, i, st, m, c), NEW k \in 0..m
  PROVE  Pooled(st, k + 1, Run(F, H, i, i + 1)) = Run(F, H, c[k], i + 1)
<1> DEFINE f == [b \in 0..m |-> F[c[b]]]
           h == [b \in 0..m |-> H[c[b]]]
           y == F[i + 1] - F[i]
           n == H[i + 1] - H[i]
<1>1. /\ m \in Nat /\ c \in [0..m -> 0..i] /\ c[m] = i
      /\ st = [b \in 1..m |-> Run(F, H, c[b - 1], c[b])]
  BY DEF Hull
<1>2. \A b \in 0..m : c[b] \in 0..N /\ F[c[b]] \in Int /\ H[c[b]] \in Int
  <2>1. 0..i \subseteq 0..N
    BY DEF Curve
  <2>2. \A b \in 0..m : c[b] \in 0..N
    BY <1>1, <2>1
  <2> QED BY <2>2 DEF Curve
<1>3. F[i] \in Int /\ H[i] \in Int /\ F[i + 1] \in Int /\ H[i + 1] \in Int
  <2>1. i \in 0..N /\ i + 1 \in 0..N
    BY DEF Curve
  <2> QED BY <2>1 DEF Curve
<1>4. Steps(st, m, f, h)
  <2>1. i \in 0..N
    BY DEF Curve
  <2> QED BY <2>1, StackSteps
<1>5. f[m] = F[i] /\ h[m] = H[i] /\ f[k] = F[c[k]] /\ h[k] = H[c[k]]
  BY <1>1
<1>6. y \in Int /\ n \in Int /\ Run(F, H, i, i + 1) = Block(y, n)
  BY <1>3 DEF Run
<1>7. Len(st) = m
  BY <1>1
<1> HIDE DEF f, h, y, n
<1>8. FoldSeq(Merged, Block(y, n), SubSeq(st, k + 1, m)) = Block(y + (f[m] - f[k]), n + (h[m] - h[k]))
  <2>1. m \in k..m
    BY <1>1
  <2> QED BY <1>1, <1>4, <1>6, <2>1, PoolIsRun
<1>9. /\ y + (f[m] - f[k]) = F[i + 1] - F[c[k]]
      /\ n + (h[m] - h[k]) = H[i + 1] - H[c[k]]
  BY <1>2, <1>3, <1>5 DEF y, n
<1> QED BY <1>6, <1>7, <1>8, <1>9 DEF Pooled, Run

\* How much of the stack the next bin leaves: the block below is not the higher one,
\* each above it was.
LEMMA KeptOfStack ==
  ASSUME NEW N, NEW F, NEW H, Curve(F, H, N), NEW i \in 0..N - 1,
         NEW st, NEW m, NEW c, Hull(F, H, i, st, m, c)
  PROVE  \E k \in 0..m :
           /\ Push(st, Run(F, H, i, i + 1)) = Append(SubSeq(st, 1, k), Run(F, H, c[k], i + 1))
           /\ k > 0 => NoFlatter(F, H, c[k], i + 1, c[k - 1], c[k])
           /\ \A j \in k + 1..m : ~ NoFlatter(F, H, c[j], i + 1, c[j - 1], c[j])
<1> DEFINE cur == Run(F, H, i, i + 1)
           keeps == {k \in 1..Len(st) : ~Below(Pooled(st, k + 1, cur), st[k])}
           k == IF keeps = {} THEN 0 ELSE CHOOSE k \in keeps : \A j \in keeps : j <= k
<1>1. /\ m \in Nat /\ c \in [0..m -> 0..i]
      /\ st = [b \in 1..m |-> Run(F, H, c[b - 1], c[b])] /\ Len(st) = m
  BY DEF Hull
<1>2. \A b \in 0..m : Pooled(st, b + 1, cur) = Run(F, H, c[b], i + 1)
  BY PooledIsRun
<1>3. Push(st, cur) = Append(SubSeq(st, 1, k), Pooled(st, k + 1, cur))
  BY DEF Push
<1>4. ASSUME NEW b \in 1..m
      PROVE  b \in keeps <=> NoFlatter(F, H, c[b], i + 1, c[b - 1], c[b])
  <2>1. b \in 0..m /\ b - 1 \in 0..m
    BY <1>1
  <2>2. c[b] \in 0..N /\ c[b - 1] \in 0..N /\ i + 1 \in 0..N
    BY <1>1, <2>1 DEF Curve
  <2>3. \A x \in {c[b], i + 1, c[b - 1], c[b]} : F[x] \in Int /\ H[x] \in Int
    BY <2>2 DEF Curve
  <2>4. NoFlatter(F, H, c[b], i + 1, c[b - 1], c[b])
          <=> ~Below(Run(F, H, c[b], i + 1), Run(F, H, c[b - 1], c[b]))
    BY <2>3, BelowIsFlatter
  <2>5. b \in keeps <=> ~Below(Run(F, H, c[b], i + 1), Run(F, H, c[b - 1], c[b]))
    BY <1>1, <1>2, <2>1
  <2> QED BY <2>4, <2>5
<1>5. keeps \subseteq 1..m
  BY <1>1
<1> HIDE DEF keeps, cur
<1>6. /\ k \in 0..m
      /\ k > 0 => k \in keeps
      /\ \A j \in keeps : j <= k
  <2>1. CASE keeps = {}
    BY <1>1, <2>1
  <2>2. CASE keeps # {}
    <3>1. \E b \in keeps : \A j \in keeps : j <= b
      BY <1>1, <1>5, <2>2, Highest
    <3>2. k \in keeps /\ \A j \in keeps : j <= k
      BY <2>2, <3>1
    <3> HIDE DEF k
    <3> QED BY <1>1, <1>5, <3>2
  <2> QED BY <2>1, <2>2
<1> HIDE DEF k
<1>7. k > 0 => NoFlatter(F, H, c[k], i + 1, c[k - 1], c[k])
  BY <1>4, <1>5, <1>6
<1>8. \A j \in k + 1..m : ~ NoFlatter(F, H, c[j], i + 1, c[j - 1], c[j])
  <2> SUFFICES ASSUME NEW j \in k + 1..m
               PROVE  ~ NoFlatter(F, H, c[j], i + 1, c[j - 1], c[j])
    OBVIOUS
  <2>1. j \in 1..m /\ ~ (j <= k)
    BY <1>1, <1>6
  <2> QED BY <1>4, <1>6, <2>1
<1>9. Push(st, cur) = Append(SubSeq(st, 1, k), Run(F, H, c[k], i + 1))
  BY <1>2, <1>3, <1>6
<1> QED BY <1>6, <1>7, <1>8, <1>9 DEF cur

\* The sums under a chord that pops block after block stay above it.
LEMMA ChordIsBelow ==
  ASSUME NEW N, NEW F, NEW H, Curve(F, H, N), NEW i \in 0..N - 1,
         NEW st, NEW m, NEW c, Hull(F, H, i, st, m, c), NEW k \in 0..m,
         \A j \in k + 1..m : ~ NoFlatter(F, H, c[j], i + 1, c[j - 1], c[j])
  PROVE  \A p \in 0..i + 1 : c[k] <= p => Above(F, H, c[k], i + 1, p)
<1> DEFINE r == i + 1
           D == {j \in 0..m : \A p \in 0..r : c[j] <= p => Above(F, H, c[j], r, p)}
<1>1. /\ m \in Nat /\ c \in [0..m -> 0..i] /\ c[m] = i /\ i \in Nat /\ r \in 0..N /\ N \in Nat
      /\ \A b \in 1..m : \A p \in 0..i : Above(F, H, c[b - 1], c[b], p)
      /\ \A a \in 0..m : \A b \in 0..m : a < b => c[a] < c[b]
  BY DEF Hull, Curve
<1>2. \A x \in 0..r : x \in 0..N /\ F[x] \in Int /\ H[x] \in Int
  <2>1. \A x \in 0..r : x \in 0..N
    BY <1>1
  <2> QED BY <2>1 DEF Curve
<1>3. m \in D
  <2>1. i \in 0..r /\ r \in 0..r
    BY <1>1
  <2>2. Above(F, H, i, r, i) /\ Above(F, H, i, r, r)
    BY <1>2, <2>1 DEF Above
  <2>3. \A p \in 0..r : i <= p => p = i \/ p = r
    BY <1>1
  <2> QED BY <1>1, <2>2, <2>3
<1>4. ASSUME NEW j \in k + 1..m, j \in D
      PROVE  j - 1 \in D
  <2> DEFINE l == c[j - 1]
             mid == c[j]
  <2>1. j \in 1..m /\ j \in 0..m /\ j - 1 \in 0..m /\ j - 1 < j
    BY <1>1
  <2>2. l \in 0..i /\ mid \in 0..i /\ l < mid /\ mid < r /\ l \in 0..r /\ mid \in 0..r /\ r \in 0..r
    BY <1>1, <2>1
  <2>3. /\ l \in 0..N /\ mid \in 0..N /\ r \in 0..N
        /\ H[l] \in Int /\ H[mid] \in Int /\ H[r] \in Int /\ F[l] \in Int /\ F[mid] \in Int /\ F[r] \in Int
    BY <1>2, <2>2
  <2>4. H[l] < H[mid] /\ H[mid] < H[r]
    BY <2>2, <2>3 DEF Curve
  <2>5. NoFlatter(F, H, l, mid, mid, r)
    <3> DEFINE x == (F[r] - F[mid]) * (H[mid] - H[l])
               y == (F[mid] - F[l]) * (H[r] - H[mid])
    <3>1. x \in Int /\ y \in Int
      BY <2>3
    <3>2. ~ (x >= y)
      BY DEF NoFlatter
    <3>3. NoFlatter(F, H, l, mid, mid, r) <=> y >= x
      BY DEF NoFlatter
    <3> HIDE DEF x, y
    <3> QED BY <3>1, <3>2, <3>3
  <2>6. /\ \A p \in 0..i : Above(F, H, l, mid, p)
        /\ \A p \in 0..r : mid <= p => Above(F, H, mid, r, p)
    BY <1>1, <1>4, <2>1
  <2> HIDE DEF l, mid
  <2>7. ASSUME NEW p \in 0..r, l <= p
        PROVE  Above(F, H, l, r, p)
    <3>1. \A x \in {l, mid, r, p} : F[x] \in Int /\ H[x] \in Int
      BY <1>2, <2>3
    <3>2. p \in 0..N
      BY <1>2
    <3>3. CASE p <= mid
      <4>1. p \in 0..i
        BY <1>1, <2>2, <3>3
      <4>2. H[l] <= H[p]
        <5>1. l = p \/ l < p
          BY <2>2, <2>7
        <5>2. l < p => H[l] < H[p]
          BY <2>3, <3>2 DEF Curve
        <5> QED BY <3>1, <5>1, <5>2
      <4> QED BY <2>4, <2>5, <2>6, <3>1, <4>1, <4>2, AboveLeftOfBend
    <3>4. CASE mid < p
      <4>1. H[p] <= H[r]
        <5>1. p = r \/ p < r
          BY <1>1
        <5>2. p < r => H[p] < H[r]
          BY <2>3, <3>2 DEF Curve
        <5> QED BY <3>1, <5>1, <5>2
      <4>2. Above(F, H, mid, r, p)
        BY <2>2, <2>6, <3>4
      <4> QED BY <2>4, <2>5, <3>1, <4>1, <4>2, AboveRightOfBend
    <3> QED BY <2>2, <3>3, <3>4
  <2> QED BY <2>1, <2>7 DEF l
<1> HIDE DEF D
<1>5. k \in D
  <2>1. \A j \in k..m : j \in D
    BY <1>1, <1>3, <1>4, CountingDown
  <2>2. k \in k..m
    BY <1>1
  <2> QED BY <2>1, <2>2
<1> QED BY <1>5 DEF D

\* One more bin pushed.
LEMMA PushKeepsHull ==
  ASSUME NEW N, NEW F, NEW H, Curve(F, H, N), NEW i \in 0..N - 1, NEW st, Hulled(F, H, i, st)
  PROVE  Hulled(F, H, i + 1, Push(st, Run(F, H, i, i + 1)))
<1>1. PICK m \in Nat : \E c \in [0..m -> 0..i] : Hull(F, H, i, st, m, c)
  BY DEF Hulled
<1>2. PICK c \in [0..m -> 0..i] : Hull(F, H, i, st, m, c)
  BY <1>1
<1> DEFINE r == i + 1
           new == Push(st, Run(F, H, i, i + 1))
<1>3. PICK k \in 0..m :
        /\ new = Append(SubSeq(st, 1, k), Run(F, H, c[k], i + 1))
        /\ k > 0 => NoFlatter(F, H, c[k], i + 1, c[k - 1], c[k])
        /\ \A j \in k + 1..m : ~ NoFlatter(F, H, c[j], i + 1, c[j - 1], c[j])
  BY <1>2, KeptOfStack
<1>4. \A p \in 0..i + 1 : c[k] <= p => Above(F, H, c[k], i + 1, p)
  BY <1>2, <1>3, ChordIsBelow
<1>5. /\ c[0] = 0 /\ c[m] = i
      /\ \A a \in 0..m : \A b \in 0..m : a < b => c[a] < c[b]
      /\ \A p \in 1..i : \E b \in 1..m : c[b - 1] < p /\ p <= c[b]
      /\ st = [b \in 1..m |-> Run(F, H, c[b - 1], c[b])]
      /\ \A b \in 1..m : \A p \in 0..i : Above(F, H, c[b - 1], c[b], p)
      /\ \A a \in 1..m : \A b \in 1..m : a < b => NoFlatter(F, H, c[b - 1], c[b], c[a - 1], c[a])
  BY <1>2 DEF Hull
<1> DEFINE h == k + 1
           d == [b \in 0..h |-> IF b <= k THEN c[b] ELSE r]
<1>6. /\ h \in Nat /\ k \in Nat /\ N \in Nat /\ i \in Nat /\ r \in 0..N /\ i \in 0..N
      /\ \A b \in 0..k : b \in 0..m /\ c[b] \in 0..i /\ c[b] \in 0..r /\ c[b] \in 0..N /\ c[b] < r
      /\ \A b \in 1..k : b \in 1..m /\ b \in 0..k /\ b - 1 \in 0..k
      /\ 0..i \subseteq 0..r /\ r \in 0..r
  BY DEF Curve
<1>7. /\ d \in [0..h -> 0..r]
      /\ \A b \in 0..k : d[b] = c[b]
      /\ d[h] = r
  BY <1>6
<1>8. \A x \in 0..N : F[x] \in Int /\ H[x] \in Int
  BY DEF Curve
<1> HIDE DEF r, new, h, d
<1>9. d[0] = 0 /\ d[h] = r
  BY <1>5, <1>6, <1>7
\* Either a block that was kept or the new one.
<1>10. \A b \in 0..h : b \in 0..k \/ b = h
  BY <1>6 DEF h
<1>11. ASSUME NEW b \in 1..h
       PROVE  \/ b \in 1..k /\ b \in 1..m /\ d[b] = c[b] /\ d[b - 1] = c[b - 1]
              \/ b = h /\ d[b] = r /\ d[b - 1] = c[k]
  <2>1. CASE b \in 1..k
    BY <1>6, <1>7, <2>1
  <2>2. CASE b = h
    <3>1. b - 1 = k /\ k \in 0..k
      BY <1>6, <2>2 DEF h
    <3> QED BY <1>7, <2>2, <3>1
  <2>3. b \in 1..k \/ b = h
    BY <1>6 DEF h
  <2> QED BY <2>1, <2>2, <2>3
<1>12. ASSUME NEW a \in 0..h, NEW b \in 0..h, a < b
       PROVE  d[a] < d[b]
  <2>1. a \in 0..k /\ d[a] = c[a]
    BY <1>6, <1>7, <1>12 DEF h
  <2>2. CASE b \in 0..k
    BY <1>5, <1>6, <1>7, <1>12, <2>1, <2>2
  <2>3. CASE b = h
    BY <1>6, <1>7, <2>1, <2>3
  <2> QED BY <1>10, <2>2, <2>3
<1>13. ASSUME NEW p \in 1..r
       PROVE  \E b \in 1..h : d[b - 1] < p /\ p <= d[b]
  <2>1. CASE p <= c[k]
    <3>1. k \in 0..k /\ p \in 1..i
      BY <1>6, <2>1
    <3>2. PICK b \in 1..m : c[b - 1] < p /\ p <= c[b]
      BY <1>5, <3>1
    <3>3. b <= k
      <4> SUFFICES ASSUME ~ (b <= k) PROVE FALSE
        OBVIOUS
      <4>1. b - 1 \in 0..m /\ k \in 0..m /\ (k = b - 1 \/ k < b - 1)
        BY <1>6
      <4>2. c[k] <= c[b - 1]
        <5>1. k < b - 1 => c[k] < c[b - 1]
          BY <1>5, <4>1
        <5>2. c[k] \in Int /\ c[b - 1] \in Int
          BY <1>6, <4>1
        <5> QED BY <4>1, <5>1, <5>2
      <4>3. c[k] \in Int /\ c[b - 1] \in Int
        BY <1>6, <4>1
      <4> QED BY <2>1, <3>2, <4>2, <4>3
    <3>4. b \in 1..k /\ b \in 1..h
      BY <1>6, <3>3 DEF h
    <3>5. b \in 0..k /\ b - 1 \in 0..k
      BY <1>6, <3>4
    <3>6. d[b] = c[b] /\ d[b - 1] = c[b - 1]
      BY <1>7, <3>5
    <3> QED BY <3>2, <3>4, <3>6
  <2>2. CASE ~ (p <= c[k])
    <3>1. k \in 0..k /\ h \in 1..h /\ h - 1 = k
      BY <1>6 DEF h
    <3>2. c[k] < p /\ p <= r
      BY <1>6, <2>2, <3>1
    <3> QED BY <1>7, <3>1, <3>2
  <2> QED BY <2>1, <2>2
<1>14. new = [b \in 1..h |-> Run(F, H, d[b - 1], d[b])]
  <2> DEFINE e == Run(F, H, c[k], r)
             s == SubSeq(st, 1, k)
  <2>1. s = [x \in 1..k |-> st[x]]
    <3>1. 0 \in 0..m /\ k \in 0..m /\ 0 + 1 = 1 /\ k - 0 = k /\ \A x \in 1..k : x + 0 = x
      OBVIOUS
    <3>2. SubSeq(st, 0 + 1, k) = [x \in 1..k - 0 |-> st[x + 0]]
      BY <3>1, SliceIs
    <3> QED BY <3>1, <3>2
  <2>2. new = Append(s, e)
    BY <1>3 DEF r
  <2> HIDE DEF s, e
  <2>3. s = [x \in 1..k |-> s[x]]
    BY <2>1
  <2>4. new = [x \in 1..k + 1 |-> IF x <= k THEN s[x] ELSE e]
    BY <1>6, <2>2, <2>3, AppendIs
  <2>5. ASSUME NEW x \in 1..h
        PROVE  (IF x <= k THEN s[x] ELSE e) = Run(F, H, d[x - 1], d[x])
    <3>1. CASE x \in 1..k /\ x \in 1..m /\ d[x] = c[x] /\ d[x - 1] = c[x - 1]
      <4>1. s[x] = st[x] /\ st[x] = Run(F, H, c[x - 1], c[x]) /\ x <= k
        BY <1>5, <2>1, <3>1
      <4> QED BY <3>1, <4>1
    <3>2. CASE x = h /\ d[x] = r /\ d[x - 1] = c[k]
      <4>1. ~ (x <= k)
        BY <1>6, <3>2 DEF h
      <4> QED BY <3>2, <4>1 DEF e
    <3> QED BY <1>11, <3>1, <3>2
  <2> QED BY <2>4, <2>5 DEF h
\* The new block is no flatter than any that was kept.
<1>15. ASSUME NEW b \in 1..k
       PROVE  NoFlatter(F, H, c[k], r, c[b - 1], c[b])
  <2>1. k \in 1..k /\ k > 0 /\ NoFlatter(F, H, c[k], r, c[k - 1], c[k])
    BY <1>3, <1>6 DEF r
  <2>2. CASE b = k
    BY <2>1, <2>2
  <2>3. CASE b < k
    <3>1. NoFlatter(F, H, c[k - 1], c[k], c[b - 1], c[b])
      BY <1>5, <1>6, <2>1, <2>3
    <3>2. /\ c[b - 1] \in 0..N /\ c[b] \in 0..N /\ c[k - 1] \in 0..N /\ c[k] \in 0..N
          /\ c[b - 1] < c[b] /\ c[k - 1] < c[k] /\ c[k] < r
      <4>1. b \in 0..m /\ b - 1 \in 0..m /\ k \in 0..m /\ k - 1 \in 0..m /\ b - 1 < b /\ k - 1 < k
        BY <1>6, <2>1
      <4> QED BY <1>5, <1>6, <2>1, <4>1
    <3>3. \A x \in {r, c[k], c[k - 1], c[b], c[b - 1]} : F[x] \in Int /\ H[x] \in Int
      BY <1>6, <1>8, <3>2
    <3>4. H[c[k]] < H[r] /\ H[c[k - 1]] < H[c[k]] /\ H[c[b - 1]] < H[c[b]]
      BY <1>6, <3>2 DEF Curve
    <3> QED BY <2>1, <3>1, <3>3, <3>4, Steepening
  <2> QED BY <2>2, <2>3
<1>16. ASSUME NEW a \in 1..h, NEW b \in 1..h, a < b
       PROVE  NoFlatter(F, H, d[b - 1], d[b], d[a - 1], d[a])
  <2>1. a \in 1..k /\ a \in 1..m /\ d[a] = c[a] /\ d[a - 1] = c[a - 1]
    <3>1. a # h
      BY <1>6, <1>16
    <3> QED BY <1>11, <3>1
  <2>2. CASE b \in 1..k /\ b \in 1..m /\ d[b] = c[b] /\ d[b - 1] = c[b - 1]
    BY <1>5, <1>16, <2>1, <2>2
  <2>3. CASE b = h /\ d[b] = r /\ d[b - 1] = c[k]
    BY <1>15, <2>1, <2>3
  <2> QED BY <1>11, <2>2, <2>3
<1>17. ASSUME NEW b \in 1..h, NEW p \in 0..r
       PROVE  Above(F, H, d[b - 1], d[b], p)
  <2>1. k \in 0..k /\ c[k] \in 0..N /\ c[k] < r /\ p \in 0..N
    BY <1>6
  <2>2. CASE b \in 1..k /\ b \in 1..m /\ d[b] = c[b] /\ d[b - 1] = c[b - 1]
    <3>1. CASE p \in 0..i
      BY <1>5, <2>2, <3>1
    <3>2. CASE p = r
      <4>1. c[k] \in 0..i /\ Above(F, H, c[b - 1], c[b], c[k])
        BY <1>5, <1>6, <2>2
      <4>2. NoFlatter(F, H, c[k], r, c[b - 1], c[b])
        BY <1>15, <2>2
      <4>3. \A x \in {c[b - 1], c[b], c[k], r} : F[x] \in Int /\ H[x] \in Int
        BY <1>6, <1>8, <2>2
      <4> QED BY <2>2, <3>2, <4>1, <4>2, <4>3, AboveSteeperRight
    <3> QED BY <1>6, <3>1, <3>2 DEF r
  <2>3. CASE b = h /\ d[b] = r /\ d[b - 1] = c[k]
    <3>1. CASE c[k] <= p
      BY <1>4, <2>3, <3>1 DEF r
    <3>2. CASE ~ (c[k] <= p)
      <4>1. p < c[k] /\ k # 0 /\ p \in 0..i
        <5>1. c[k] \in 0..i /\ p \in Nat
          BY <1>6, <2>1
        <5>2. p < c[k] /\ p \in 0..i
          BY <1>6, <3>2, <5>1
        <5>3. c[k] # 0
          BY <5>1, <5>2
        <5> QED BY <1>5, <5>2, <5>3
      <4>2. k \in 1..k /\ k > 0
        BY <1>6, <4>1
      <4>3. c[k - 1] \in 0..N /\ c[k - 1] < c[k] /\ Above(F, H, c[k - 1], c[k], p)
        <5>1. k \in 1..m /\ k - 1 \in 0..m /\ k \in 0..m /\ k - 1 < k /\ k - 1 \in 0..k
          BY <1>6, <4>2
        <5> QED BY <1>5, <1>6, <4>1, <5>1
      <4>4. NoFlatter(F, H, c[k], r, c[k - 1], c[k])
        BY <1>3, <4>2 DEF r
      <4>5. H[c[k - 1]] < H[c[k]] /\ H[c[k]] < H[r] /\ H[p] < H[c[k]]
        BY <1>6, <2>1, <4>1, <4>3 DEF Curve
      <4>6. \A x \in {c[k - 1], c[k], r, p} : F[x] \in Int /\ H[x] \in Int
        BY <1>6, <1>8, <2>1, <4>3
      <4>7. H[p] <= H[c[k]]
        BY <4>5, <4>6
      <4>8. Above(F, H, c[k], r, p)
        BY <4>3, <4>4, <4>5, <4>6, <4>7, AboveSteeperLeft
      <4> QED BY <2>3, <4>8
    <3> QED BY <3>1, <3>2
  <2> QED BY <1>11, <2>2, <2>3
<1>18. Hull(F, H, r, new, h, d)
  BY <1>6, <1>7, <1>9, <1>12, <1>13, <1>14, <1>16, <1>17 DEF Hull
<1>19. Hulled(F, H, r, new)
  BY <1>6, <1>7, <1>18 DEF Hulled
<1> QED BY <1>19 DEF r, new

\* The recursion behind the fold of Push, on the sets of bins.
Pushes(g, bins, S) ==
  g = [u \in SUBSET S |-> IF u = {} THEN <<>> ELSE Push(g[u \ {Max(u)}], bins[Max(u)])]
Pushed(bins, S) == CHOOSE g : Pushes(g, bins, S)

LEMMA FoldPushes == \A bins : FoldLeft(Push, <<>>, bins) = Pushed(bins, DOMAIN bins)[DOMAIN bins]
BY DEF FoldLeft, MapThenFoldSet, Pushes, Pushed

\* The fold takes the last bin out first.
LEMMA LastIsIn ==
  ASSUME NEW n \in Nat, NEW u, u \subseteq 1..n, u # {}
  PROVE  Max(u) \in u /\ \A x \in u : x <= Max(u)
<1>1. \E k \in u : \A j \in u : j <= k
  BY Highest
<1>2. \A j \in u : \A k \in u : j <= k <=> k >= j
  OBVIOUS
<1>3. \E k \in u : \A j \in u : k >= j
  BY <1>1, <1>2
<1>4. Max(u) \in u /\ \A j \in u : Max(u) >= j
  BY <1>3 DEF Max
<1> QED BY <1>2, <1>4

\* Any of the bins have a last one.
HasLasts(S) == IsFiniteSet(S) /\ \A u \in SUBSET S : u # {} => Max(u) \in u

LEMMA PushesAgree ==
  ASSUME NEW bins, NEW R, NEW T, NEW g, NEW h, Pushes(g, bins, R), Pushes(h, bins, T),
         NEW S, HasLasts(S), S \subseteq R, S \subseteq T
  PROVE  g[S] = h[S]
<1> DEFINE bad == {s \in SUBSET S : g[s] # h[s]}
<1>1. SUFFICES ASSUME bad # {} PROVE FALSE
  OBVIOUS
<1>2. PICK s \in bad : \A t \in bad : t \subseteq s => t = s
  <2> HIDE DEF bad
  <2>1. bad \subseteq SUBSET S
    BY DEF bad
  <2>2. IsFiniteSet(S)
    BY DEF HasLasts
  <2> QED BY <1>1, <2>1, <2>2, LeastSubset
<1>3. s \subseteq R /\ s \subseteq T /\ g[s] # h[s] /\ s \subseteq S
  BY <1>2
<1>4. /\ g[s] = IF s = {} THEN <<>> ELSE Push(g[s \ {Max(s)}], bins[Max(s)])
      /\ h[s] = IF s = {} THEN <<>> ELSE Push(h[s \ {Max(s)}], bins[Max(s)])
  BY <1>3 DEF Pushes
<1>5. s # {} /\ g[s \ {Max(s)}] # h[s \ {Max(s)}]
  BY <1>3, <1>4
<1>6. Max(s) \in s
  BY <1>3, <1>5 DEF HasLasts
<1>7. s \ {Max(s)} \in bad
  BY <1>3, <1>5
<1> QED BY <1>2, <1>6, <1>7

LEMMA PushesExist ==
  ASSUME NEW bins, NEW S, HasLasts(S)
  PROVE  Pushes(Pushed(bins, S), bins, S)
<1> DEFINE bad == {s \in SUBSET S : ~ \E g : Pushes(g, bins, s)}
<1>1. ASSUME bad # {} PROVE FALSE
  <2>1. PICK s \in bad : \A t \in bad : t \subseteq s => t = s
    <3> HIDE DEF bad
    <3>1. bad \subseteq SUBSET S
      BY DEF bad
    <3>2. IsFiniteSet(S)
      BY DEF HasLasts
    <3> QED BY <1>1, <3>1, <3>2, LeastSubset
  <2>2. s \subseteq S /\ ~ \E g : Pushes(g, bins, s)
    BY <2>1
  <2>3. \A t \in SUBSET s : t # s => Pushes(Pushed(bins, t), bins, t)
    BY <2>1 DEF Pushed
  <2> HIDE DEF bad
  <2> DEFINE Under(t) == Pushed(bins, t \ {Max(t)})[t \ {Max(t)}]
             g == [t \in SUBSET s |-> IF t = {} THEN <<>> ELSE Push(Under(t), bins[Max(t)])]
  <2>4. \A t \in SUBSET s : t # {} => Max(t) \in t
    BY <2>2 DEF HasLasts
  <2>5. ASSUME NEW t \in SUBSET s, t # s
        PROVE  g[t] = Pushed(bins, t)[t]
    <3>1. Pushed(bins, t)[t] =
            IF t = {} THEN <<>> ELSE Push(Pushed(bins, t)[t \ {Max(t)}], bins[Max(t)])
      BY <2>3, <2>5 DEF Pushes
    <3>2. CASE t # {}
      <4> DEFINE u == t \ {Max(t)}
      <4>1. u \in SUBSET s /\ u # s /\ u \subseteq t /\ HasLasts(u)
        <5>1. u \in SUBSET s /\ u # s /\ u \subseteq t
          BY <2>4, <2>5, <3>2
        <5>2. u \subseteq S
          BY <2>2, <5>1
        <5>3. HasLasts(u)
          BY <5>2, FS_Subset DEF HasLasts
        <5> QED BY <5>1, <5>3
      <4>2. Pushed(bins, t)[u] = Pushed(bins, u)[u]
        BY <2>3, <2>5, <4>1, PushesAgree
      <4> QED BY <3>1, <3>2, <4>2
    <3> QED BY <3>1, <3>2
  <2>6. \A t \in SUBSET s : t # {} => Under(t) = g[t \ {Max(t)}]
    <3> SUFFICES ASSUME NEW t \in SUBSET s, t # {} PROVE Under(t) = g[t \ {Max(t)}]
      OBVIOUS
    <3>1. t \ {Max(t)} \in SUBSET s /\ t \ {Max(t)} # s
      BY <2>4
    <3> QED BY <2>5, <3>1
  <2>7. Pushes(g, bins, s)
    BY <2>6 DEF Pushes
  <2> QED BY <2>2, <2>7
<1>2. \E g : Pushes(g, bins, S)
  <2>1. S \in SUBSET S
    OBVIOUS
  <2> QED BY <1>1, <2>1
<1> QED BY <1>2 DEF Pushed

\* The fit's blocks are the lower convex hull of the sums.
LEMMA FitIsHull ==
  ASSUME NEW N, NEW F, NEW H, Curve(F, H, N), NEW bins, bins = [b \in 1..N |-> Run(F, H, b - 1, b)]
  PROVE  Hulled(F, H, N, FoldLeft(Push, <<>>, bins))
<1> DEFINE g == Pushed(bins, 1..N)
           D == {i \in 0..N : Hulled(F, H, i, g[1..i])}
<1>1. N \in Nat /\ DOMAIN bins = 1..N
  BY DEF Curve
<1>2. Pushes(g, bins, 1..N)
  <2>1. IsFiniteSet(1..N)
    BY <1>1, FS_Interval
  <2>2. \A u \in SUBSET (1..N) : u # {} => Max(u) \in u
    BY <1>1, LastIsIn
  <2> QED BY <2>1, <2>2, PushesExist DEF HasLasts
<1> HIDE DEF g
<1>3. 0 \in D
  <2>1. 1..0 = {} /\ 0 \in 0..N
    BY <1>1
  <2>2. g[{}] = <<>>
    BY <1>2 DEF Pushes
  <2> DEFINE c == [b \in 0..0 |-> 0]
  <2>3. /\ c \in [0..0 -> 0..0] /\ c[0] = 0 /\ 0 \in Nat
        /\ \A a \in 0..0 : \A b \in 0..0 : ~ (a < b)
    OBVIOUS
  <2>4. <<>> = [b \in 1..0 |-> Run(F, H, c[b - 1], c[b])]
    BY <2>1
  <2> HIDE DEF c
  <2>5. Hull(F, H, 0, <<>>, 0, c)
    BY <2>1, <2>3, <2>4 DEF Hull
  <2>6. Hulled(F, H, 0, <<>>)
    BY <2>3, <2>5 DEF Hulled
  <2> QED BY <2>1, <2>2, <2>6
<1>4. ASSUME NEW i \in 0..N - 1, i \in D
      PROVE  i + 1 \in D
  <2> DEFINE r == i + 1
             u == 1..r
  <2>1. r \in 1..N /\ r \in 0..N /\ u \in SUBSET (1..N) /\ r \in u /\ u # {} /\ u \ {r} = 1..i
        /\ \A x \in u : x <= r
    <3>1. i \in Nat /\ r \in Nat /\ r <= N
      BY <1>1
    <3>2. u \subseteq 1..N /\ r \in u /\ r \in 1..N
      BY <1>1, <3>1
    <3>3. \A x \in u : x \in Int /\ x <= r /\ (x # r => x \in 1..i)
      BY <3>1
    <3>4. \A x \in 1..i : x \in u /\ x # r
      BY <3>1
    <3>5. u \ {r} = 1..i
      BY <3>3, <3>4
    <3> QED BY <3>1, <3>2, <3>3, <3>5
  <2>2. Max(u) = r
    <3>1. Max(u) \in u /\ \A x \in u : x <= Max(u)
      BY <1>1, <2>1, LastIsIn
    <3>2. r <= Max(u) /\ Max(u) <= r /\ Max(u) \in Int /\ r \in Int
      BY <2>1, <3>1
    <3> HIDE DEF u, r
    <3> QED BY <3>2
  <2>3. g[u] = Push(g[u \ {Max(u)}], bins[Max(u)])
    BY <1>2, <2>1 DEF Pushes
  <2>4. g[u] = Push(g[1..i], bins[r])
    BY <2>1, <2>2, <2>3
  <2>5. bins[r] = Run(F, H, i, i + 1)
    BY <2>1
  <2>6. Hulled(F, H, i + 1, Push(g[1..i], Run(F, H, i, i + 1)))
    BY <1>4, PushKeepsHull
  <2> QED BY <2>1, <2>4, <2>5, <2>6
<1> HIDE DEF D
<1>5. N \in D
  <2>1. \A i \in 0..N : i \in D
    BY <1>1, <1>3, <1>4, CountingUp
  <2> QED BY <1>1, <2>1
<1>6. FoldLeft(Push, <<>>, bins) = g[1..N]
  BY <1>1, FoldPushes DEF g
<1> QED BY <1>5, <1>6 DEF D

\* Wins are a sum, too.
LEMMA WinsAre == \A s : Wins(s) = SumFunctionOnSet(s, DOMAIN s)
BY DEF Wins, FoldSeq, FoldFunction, SumFunctionOnSet

\* The wins among the first x outcomes, and where the bins end.
WinsTo(ys, x) == SumFunctionOnSet(ys, 1..x)
Edge(n, mb, b) == IF b = n \div mb THEN n ELSE b * mb

\* They add up one outcome at a time.
LEMMA WinsAdd ==
  ASSUME NEW n \in Nat, NEW ys, \A i \in 1..n : ys[i] \in Int, NEW x \in 0..n
  PROVE  /\ WinsTo(ys, x) \in Int
         /\ x = 0 => WinsTo(ys, x) = 0
         /\ x > 0 => ys[x] = WinsTo(ys, x) - WinsTo(ys, x - 1)
<1>1. IsFiniteSet(1..x) /\ \A i \in 1..x : ys[i] \in Int
  BY FS_Interval
<1>2. WinsTo(ys, x) \in Int
  BY <1>1, SumIsInt DEF WinsTo
<1>3. ASSUME x = 0 PROVE WinsTo(ys, x) = 0
  <2>1. 1..x = {}
    BY <1>3
  <2> QED BY <2>1, SumOfNone DEF WinsTo
<1>4. ASSUME x > 0 PROVE ys[x] = WinsTo(ys, x) - WinsTo(ys, x - 1)
  <2> DEFINE S == 1..x
             T == 1..x - 1
  <2>1. x \in S /\ S \ {x} = T /\ ys[x] \in Int
    BY <1>4
  <2>2. IsFiniteSet(T) /\ \A i \in T : ys[i] \in Int
    BY <1>4, FS_Interval
  <2>3. IsFiniteSet(S) /\ \A i \in S : ys[i] \in Int
    BY <1>1
  <2> HIDE DEF S, T
  <2>4. SumFunctionOnSet(ys, S) = ys[x] + SumFunctionOnSet(ys, T)
    BY <2>1, <2>3, SumTakesOut
  <2>5. SumFunctionOnSet(ys, S) \in Int /\ SumFunctionOnSet(ys, T) \in Int
    BY <2>2, <2>3, SumIsInt
  <2>6. WinsTo(ys, x) = SumFunctionOnSet(ys, S) /\ WinsTo(ys, x - 1) = SumFunctionOnSet(ys, T)
    BY DEF WinsTo, S, T
  <2> QED BY <2>1, <2>4, <2>5, <2>6
<1> QED BY <1>2, <1>3, <1>4

\* The wins of a stretch of outcomes.
LEMMA WinsOfSlice ==
  ASSUME NEW n \in Nat, NEW ys, \A i \in 1..n : ys[i] \in Int, NEW l \in 0..n, NEW r \in l..n
  PROVE  /\ Wins(SubSeq(ys, l + 1, r)) = WinsTo(ys, r) - WinsTo(ys, l)
         /\ Len(SubSeq(ys, l + 1, r)) = r - l
<1> DEFINE u == SubSeq(ys, l + 1, r)
           h == r - l
           A == [x \in 0..h |-> WinsTo(ys, x + l)]
<1>1. u = [x \in 1..h |-> ys[x + l]] /\ Len(u) = h
  BY SliceIs
<1>2. h \in Nat /\ DOMAIN u = 1..h
  BY <1>1
<1>3. ASSUME NEW x \in 0..h
      PROVE  A[x] = WinsTo(ys, x + l) /\ A[x] \in Int
  <2>1. x + l \in 0..n
    BY <1>2
  <2> QED BY <2>1, WinsAdd
<1>4. ASSUME NEW x \in 1..h
      PROVE  u[x] = A[x] - A[x - 1]
  <2>1. x + l \in 0..n /\ x + l > 0 /\ x \in 0..h /\ x - 1 \in 0..h /\ (x + l) - 1 = (x - 1) + l
    BY <1>2
  <2>2. ys[x + l] = WinsTo(ys, x + l) - WinsTo(ys, (x + l) - 1)
    BY <2>1, WinsAdd
  <2>3. u[x] = ys[x + l]
    BY <1>1
  <2> QED BY <1>3, <2>1, <2>2, <2>3
<1>5. A[h] = WinsTo(ys, r) /\ A[0] = WinsTo(ys, l)
  <2>1. h \in 0..h /\ 0 \in 0..h /\ h + l = r /\ 0 + l = l
    BY <1>2
  <2> QED BY <1>3, <2>1
<1> HIDE DEF A, u, h
<1>6. SumFunctionOnSet(u, 1..h) = A[h] - A[0]
  BY <1>2, <1>3, <1>4, SumTelescopes
<1>7. Wins(u) = WinsTo(ys, r) - WinsTo(ys, l)
  BY <1>2, <1>5, <1>6, WinsAre
<1> QED BY <1>1, <1>7 DEF u, h

\* There is a bin, and all but the last are full.
LEMMA WholeBins ==
  ASSUME NEW n \in Nat, NEW mb \in Nat, mb >= 2, n >= 2 * mb
  PROVE  LET K == n \div mb
         IN  K \in Nat /\ K >= 1 /\ K * mb <= n
OBVIOUS

\* Every bin holds an outcome.
LEMMA EdgesRise ==
  ASSUME NEW n \in Nat, NEW mb \in Nat, mb >= 2, n >= 2 * mb, NEW b \in 0..n \div mb
  PROVE  /\ Edge(n, mb, b) \in 0..n
         /\ \A a \in 0..n \div mb : a < b => Edge(n, mb, a) < Edge(n, mb, b)
<1> DEFINE K == n \div mb
           KM == K * mb
           e(x) == Edge(n, mb, x)
<1>1. K \in Nat /\ K >= 1 /\ KM <= n
  BY WholeBins
<1>2. \A x \in 0..K : e(x) = IF x = K THEN n ELSE x * mb
  BY DEF Edge
<1>3. b \in 0..K
  OBVIOUS
<1> HIDE DEF K, e
<1>4. ASSUME NEW x \in 0..K, NEW y \in 0..K, x < y
      PROVE  x * mb < y * mb
  <2>1. x \in Int /\ y \in Int /\ y > x /\ mb > 0 /\ mb \in Int
    BY <1>1, <1>4
  <2>2. mb * y > mb * x
    BY <2>1, CancelFactor
  <2>3. x * mb = mb * x /\ y * mb = mb * y /\ mb * x \in Int /\ mb * y \in Int
    BY <2>1
  <2> DEFINE p == mb * x
             q == mb * y
  <2> HIDE DEF p, q
  <2>4. p < q
    BY <2>2, <2>3 DEF p, q
  <2> QED BY <2>3, <2>4 DEF p, q
<1>5. KM \in Int /\ K \in 0..K
  BY <1>1
<1>6. ASSUME NEW x \in 0..K
      PROVE  x * mb \in Nat
  BY <1>1
<1>7. ASSUME NEW x \in 0..K
      PROVE  /\ e(x) \in Int /\ x * mb <= e(x) /\ 0 <= e(x)
             /\ x # K => e(x) = x * mb /\ e(x) < KM
  <2> DEFINE p == x * mb
  <2>1. p \in Nat
    BY <1>6
  <2>2. CASE x = K
    <3>1. e(x) = n /\ p = KM
      BY <1>2, <2>2
    <3> HIDE DEF p, KM
    <3> QED BY <1>1, <1>5, <2>1, <2>2, <3>1 DEF p
  <2>3. CASE x # K
    <3>1. e(x) = p
      BY <1>2, <2>3
    <3>2. p < KM
      BY <1>1, <1>4, <1>5, <2>3
    <3> HIDE DEF p, KM
    <3> QED BY <2>1, <2>3, <3>1, <3>2 DEF p
  <2> QED BY <2>2, <2>3
<1>8. \A x \in 0..K : e(x) \in 0..n
  <2> SUFFICES ASSUME NEW x \in 0..K PROVE e(x) \in 0..n
    OBVIOUS
  <2>1. x = K => e(x) = n
    BY <1>2
  <2>2. e(x) \in Int /\ 0 <= e(x) /\ (x # K => e(x) < KM)
    BY <1>7
  <2> HIDE DEF KM
  <2> QED BY <1>1, <1>5, <2>1, <2>2
<1>9. ASSUME NEW a \in 0..K, a < b
      PROVE  e(a) < e(b)
  <2>1. a # K
    BY <1>1, <1>3, <1>9
  <2> DEFINE p == a * mb
             q == b * mb
  <2>2. e(a) = p /\ e(a) \in Int
    BY <1>7, <2>1
  <2>3. q <= e(b) /\ e(b) \in Int
    BY <1>3, <1>7
  <2>4. p < q
    BY <1>3, <1>4, <1>9
  <2>5. p \in Int /\ q \in Int
    BY <1>3, <1>6
  <2> HIDE DEF p, q
  <2> QED BY <2>2, <2>3, <2>4, <2>5
<1> QED BY <1>3, <1>8, <1>9 DEF K, e

\* The bins are the stretches between the edges of the curve of the outcomes.
LEMMA BinsAre ==
  ASSUME NEW n \in Nat, NEW mb \in Nat, mb >= 2, n >= 2 * mb, NEW ys \in [1..n -> {0, 1}]
  PROVE  LET K == n \div mb
             H == [b \in 0..K |-> Edge(n, mb, b)]
             F == [b \in 0..K |-> WinsTo(ys, Edge(n, mb, b))]
         IN  /\ Curve(F, H, K) /\ K >= 1
             /\ Bins(ys, mb) = [b \in 1..K |-> Run(F, H, b - 1, b)]
             /\ F[0] = 0 /\ H[0] = 0 /\ F[K] = Wins(ys) /\ H[K] = n /\ Len(ys) = n
<1> DEFINE K == n \div mb
           e(b) == Edge(n, mb, b)
           H == [b \in 0..K |-> e(b)]
           F == [b \in 0..K |-> WinsTo(ys, e(b))]
<1>1. K \in Nat /\ K >= 1
  BY WholeBins
<1>2. \A b \in 0..K : e(b) \in 0..n /\ \A a \in 0..K : a < b => e(a) < e(b)
  BY EdgesRise
<1>3. \A i \in 1..n : ys[i] \in Int
  OBVIOUS
<1>4. e(0) = 0 /\ e(K) = n
  BY <1>1 DEF Edge
<1>5. Len(ys) = n /\ DOMAIN ys = 1..n
  OBVIOUS
<1>6. ASSUME NEW b \in 1..K
      PROVE  /\ e(b - 1) = (b - 1) * mb
             /\ e(b) = IF b = K THEN Len(ys) ELSE b * mb
  <2>1. b - 1 # K
    BY <1>1
  <2> HIDE DEF K
  <2>2. e(b - 1) = (b - 1) * mb /\ e(b) = IF b = K THEN n ELSE b * mb
    BY <2>1 DEF Edge, K
  <2> QED BY <1>5, <2>2
<1> HIDE DEF e
<1>7. \A b \in 0..K : H[b] = e(b) /\ F[b] = WinsTo(ys, e(b)) /\ F[b] \in Int /\ H[b] \in Int
  <2>1. ASSUME NEW b \in 0..K PROVE WinsTo(ys, e(b)) \in Int /\ e(b) \in Int
    <3>1. e(b) \in 0..n
      BY <1>2
    <3> DEFINE x == e(b)
    <3> HIDE DEF x
    <3>2. x \in 0..n => WinsTo(ys, x) \in Int
      BY <1>3, WinsAdd
    <3>3. 0..n \subseteq Int
      OBVIOUS
    <3> QED BY <3>1, <3>2, <3>3 DEF x
  <2> HIDE DEF K
  <2> QED BY <2>1
<1> HIDE DEF H, F
<1>8. Curve(F, H, K)
  <2>1. \A a \in 0..K : \A b \in 0..K : a < b => H[a] < H[b]
    BY <1>2, <1>7
  <2> HIDE DEF K
  <2> QED BY <1>1, <1>7, <2>1 DEF Curve
<1>9. ASSUME NEW b \in 1..K
      PROVE  LET s == SubSeq(ys, (b - 1) * mb + 1, IF b = K THEN Len(ys) ELSE b * mb)
             IN  Block(Wins(s), Len(s)) = Run(F, H, b - 1, b)
  <2> DEFINE l == e(b - 1)
             r == e(b)
             s == SubSeq(ys, l + 1, r)
  <2>1. b \in 0..K /\ b - 1 \in 0..K /\ b - 1 < b
    BY <1>1
  <2>2. l \in 0..n /\ r \in 0..n /\ l < r
    BY <1>2, <2>1
  <2>3. r \in l..n
    BY <2>2
  <2>4. Wins(s) = WinsTo(ys, r) - WinsTo(ys, l) /\ Len(s) = r - l
    BY <1>3, <2>2, <2>3, WinsOfSlice
  <2>5. F[b] = WinsTo(ys, r) /\ F[b - 1] = WinsTo(ys, l) /\ H[b] = r /\ H[b - 1] = l
    BY <1>7, <2>1
  <2>6. Block(Wins(s), Len(s)) = Run(F, H, b - 1, b)
    BY <2>4, <2>5 DEF Run
  <2> HIDE DEF K
  <2> QED BY <1>6, <2>6
<1>10. Bins(ys, mb) = [b \in 1..K |-> Run(F, H, b - 1, b)]
  <2> DEFINE bin(b) == SubSeq(ys, (b - 1) * mb + 1, IF b = K THEN Len(ys) ELSE b * mb)
  <2>1. Bins(ys, mb) = [b \in 1..K |-> Block(Wins(bin(b)), Len(bin(b)))]
    BY <1>5 DEF Bins
  <2>2. \A b \in 1..K : Block(Wins(bin(b)), Len(bin(b))) = Run(F, H, b - 1, b)
    BY <1>9
  <2> HIDE DEF bin, K
  <2> QED BY <2>1, <2>2
<1>11. F[0] = 0 /\ H[0] = 0 /\ F[K] = Wins(ys) /\ H[K] = n
  <2>1. 0 \in 0..K /\ K \in 0..K /\ 0 \in 0..n
    BY <1>1
  <2>2. WinsTo(ys, 0) = 0
    BY <1>3, <2>1, WinsAdd
  <2>3. Wins(ys) = WinsTo(ys, n)
    BY <1>5, WinsAre DEF WinsTo
  <2> HIDE DEF K
  <2> QED BY <1>4, <1>7, <2>1, <2>2, <2>3
<1> QED BY <1>1, <1>5, <1>8, <1>10, <1>11 DEF H, F, e

\* The bins add up along the curve.
LEMMA BinSteps ==
  ASSUME NEW N, NEW F, NEW H, Curve(F, H, N), NEW bins, bins = [b \in 1..N |-> Run(F, H, b - 1, b)]
  PROVE  Steps(bins, N, F, H) /\ Len(bins) = N /\ DOMAIN bins = 1..N
<1>1. N \in Nat /\ \A x \in 0..N : F[x] \in Int /\ H[x] \in Int
  BY DEF Curve
<1>2. DOMAIN bins = 1..N /\ (\A b \in 1..N : bins[b] = Run(F, H, b - 1, b)) /\ bins = [b \in 1..N |-> bins[b]]
  OBVIOUS
<1>3. Len(bins) = N
  BY <1>1
<1> QED BY <1>1, <1>2, <1>3 DEF Steps

\* The block of the fit that holds a bin.
LEMMA BlockOfIs ==
  ASSUME NEW N, NEW F, NEW H, Curve(F, H, N), H[0] = 0,
         NEW st, NEW m, NEW c, Hull(F, H, N, st, m, c), NEW i \in 1..N
  PROVE  \E b \in 1..m : /\ c[b - 1] < i /\ i <= c[b]
                         /\ BlockOf(st, H[i]) = Run(F, H, c[b - 1], c[b])
<1> DEFINE f == [b \in 0..m |-> F[c[b]]]
           h == [b \in 0..m |-> H[c[b]]]
           Holds(b) == /\ H[i] <= Pooled(SubSeq(st, 1, b - 1), 1, st[b]).n
                       /\ H[i] > Pooled(SubSeq(st, 1, b - 1), 1, st[b]).n - st[b].n
<1>1. /\ m \in Nat /\ c \in [0..m -> 0..N] /\ c[0] = 0
      /\ st = [b \in 1..m |-> Run(F, H, c[b - 1], c[b])] /\ DOMAIN st = 1..m
      /\ \E b \in 1..m : c[b - 1] < i /\ i <= c[b]
  <2>1. /\ m \in Nat /\ c \in [0..m -> 0..N] /\ c[0] = 0
        /\ st = [b \in 1..m |-> Run(F, H, c[b - 1], c[b])]
    BY DEF Hull
  <2>2. \E b \in 1..m : c[b - 1] < i /\ i <= c[b]
    BY DEF Hull
  <2> QED BY <2>1, <2>2
<1>2. Steps(st, m, f, h)
  <2>1. N \in 0..N
    BY DEF Curve
  <2> QED BY <2>1, StackSteps
<1>3. \A b \in 0..m : f[b] = F[c[b]] /\ h[b] = H[c[b]]
  OBVIOUS
<1> HIDE DEF f, h
<1>4. ASSUME NEW b \in 1..m
      PROVE  Pooled(SubSeq(st, 1, b - 1), 1, st[b]) = Run(f, h, 0, b)
  <2> DEFINE j == 1
  <2>1. m \in Nat /\ b \in 1..m /\ j \in 1..b /\ j - 1 = 0
    BY <1>1
  <2> HIDE DEF j
  <2>2. Pooled(SubSeq(st, j, b - 1), 1, st[b]) = Run(f, h, j - 1, b)
    BY <1>2, <2>1, RunOfIs
  <2> QED BY <2>1, <2>2 DEF j
<1>5. ASSUME NEW b \in 1..m
      PROVE  Holds(b) <=> c[b - 1] < i /\ i <= c[b]
  <2> DEFINE l == c[b - 1]
             r == c[b]
             x == H[l]
             y == H[r]
             z == H[i]
  <2>1. b \in 0..m /\ b - 1 \in 0..m /\ 0 \in 0..m /\ 1 \in 1..b /\ 1 - 1 = 0 /\ N \in Nat
    BY <1>1 DEF Curve
  <2>2. l \in 0..N /\ r \in 0..N /\ i \in 0..N /\ 0 \in 0..N
    BY <1>1, <2>1
  <2>3. x \in Int /\ y \in Int /\ z \in Int
    BY <2>2 DEF Curve
  <2>4. Pooled(SubSeq(st, 1, b - 1), 1, st[b]) = Run(f, h, 0, b)
    BY <1>4
  <2>5. Pooled(SubSeq(st, 1, b - 1), 1, st[b]).n = h[b] - h[0]
    BY <2>1, <2>4 DEF Run, Block
  <2>6. h[b] = y /\ h[0] = 0
    BY <1>1, <1>3, <2>1
  <2>7. st[b].n = y - x
    BY <1>1 DEF Run, Block
  <2> DEFINE p == Pooled(SubSeq(st, 1, b - 1), 1, st[b]).n
             q == st[b].n
  <2>8. p = y /\ q = y - x
    <3>1. p = y - 0
      BY <2>5, <2>6
    <3> HIDE DEF p, y
    <3> QED BY <2>3, <2>7, <3>1 DEF y
  <2>9. /\ l < i => x < z
        /\ i < l => z < x
        /\ l = i => x = z
        /\ i < r => z < y
        /\ r < i => y < z
        /\ r = i => y = z
    BY <2>2 DEF Curve
  <2>10. Holds(b) <=> z <= p /\ z > p - q
    OBVIOUS
  <2>11. l \in Int /\ r \in Int /\ i \in Int
    BY <2>2
  <2> HIDE DEF l, r, x, y, z, p, q, Holds
  <2>12. Holds(b) <=> x < z /\ z <= y
    BY <2>3, <2>8, <2>10
  <2>13. x < z <=> l < i
    BY <2>3, <2>9, <2>11
  <2>14. z <= y <=> i <= r
    BY <2>3, <2>9, <2>11
  <2>15. Holds(b) <=> l < i /\ i <= r
    BY <2>12, <2>13, <2>14
  <2> QED BY <2>15 DEF l, r
<1> DEFINE d == CHOOSE b \in DOMAIN st : Holds(b)
<1>6. BlockOf(st, H[i]) = st[d]
  BY DEF BlockOf
<1> HIDE DEF Holds
<1>7. d \in 1..m /\ Holds(d)
  BY <1>1, <1>5
<1> HIDE DEF d
<1>8. c[d - 1] < i /\ i <= c[d] /\ BlockOf(st, H[i]) = Run(F, H, c[d - 1], c[d])
  BY <1>1, <1>5, <1>6, <1>7
<1> QED BY <1>7, <1>8

\* Where a bin starts, and the flattest of the runs from j on that reach bin i.
StartOf(bins, i) == Pooled(SubSeq(bins, 1, i - 1), 1, bins[i]).n
Least(bins, j, i) == CHOOSE b \in {RunOf(bins, j, k) : k \in i..Len(bins)} :
                       \A k \in i..Len(bins) : ~Below(RunOf(bins, j, k), b)

LEMMA LeastIs ==
  ASSUME NEW N, NEW F, NEW H, Curve(F, H, N), NEW bins, bins = [b \in 1..N |-> Run(F, H, b - 1, b)],
         NEW i \in 1..N, NEW j \in 1..i
  PROVE  \E t \in i..N : /\ Least(bins, j, i) = Run(F, H, j - 1, t)
                         /\ \A k \in i..N : NoFlatter(F, H, j - 1, k, j - 1, t)
<1> DEFINE l == j - 1
           R(k) == Run(F, H, l, k)
           B == {RunOf(bins, j, k) : k \in i..Len(bins)}
           Flattest(b) == \A k \in i..Len(bins) : ~Below(RunOf(bins, j, k), b)
<1>1. Steps(bins, N, F, H) /\ Len(bins) = N /\ N \in Nat
  <2>1. N \in Nat
    BY DEF Curve
  <2>2. Steps(bins, N, F, H) /\ Len(bins) = N
    BY BinSteps
  <2> QED BY <2>1, <2>2
<1>2. ASSUME NEW k \in i..N
      PROVE  RunOf(bins, j, k) = R(k) /\ k \in 0..N
  <2>1. k \in 1..N /\ j \in 1..k /\ k \in 0..N
    BY <1>1
  <2> QED BY <1>1, <2>1, RunOfIs DEF RunOf
<1>3. l \in 0..N /\ l \in 0..i - 1
  BY <1>1
<1>4. ASSUME NEW k \in i..N, NEW t \in i..N
      PROVE  NoFlatter(F, H, l, k, l, t) <=> ~Below(R(k), R(t))
  <2>1. k \in 0..N /\ t \in 0..N
    BY <1>2
  <2>2. \A x \in {l, k, l, t} : F[x] \in Int /\ H[x] \in Int
    BY <1>3, <2>1 DEF Curve
  <2> QED BY <2>2, BelowIsFlatter
<1> HIDE DEF R, l
<1>5. PICK u \in i..N : \A k \in i..N : NoFlatter(F, H, l, k, l, u)
  BY <1>3, OneIsFlattest
<1>6. R(u) \in B /\ Flattest(R(u))
  <2>1. R(u) = RunOf(bins, j, u) /\ u \in i..Len(bins)
    BY <1>1, <1>2
  <2>2. \A k \in i..N : ~Below(RunOf(bins, j, k), R(u))
    BY <1>2, <1>4, <1>5
  <2> QED BY <1>1, <2>1, <2>2
<1>7. Least(bins, j, i) = CHOOSE b \in B : Flattest(b)
  BY DEF Least
<1> DEFINE e == CHOOSE b \in B : Flattest(b)
<1>8. e \in B /\ Flattest(e)
  <2> HIDE DEF B, Flattest
  <2> QED BY <1>6
<1> HIDE DEF e
<1>9. PICK t \in i..N : e = R(t)
  BY <1>1, <1>2, <1>8
<1>10. \A k \in i..N : NoFlatter(F, H, l, k, l, t)
  BY <1>1, <1>2, <1>4, <1>8, <1>9
<1> QED BY <1>7, <1>9, <1>10 DEF e, R, l

\* Each bin gets the max-min mean of the runs around it, and no outcome is lost.
LEMMA HullIsRegression ==
  ASSUME NEW N, NEW F, NEW H, Curve(F, H, N), N >= 1, F[0] = 0, H[0] = 0,
         NEW bins, bins = [b \in 1..N |-> Run(F, H, b - 1, b)],
         NEW st, NEW m, NEW c, Hull(F, H, N, st, m, c)
  PROVE  /\ \A i \in DOMAIN bins :
              LET mine == BlockOf(st, StartOf(bins, i))
              IN  /\ \E j \in 1..i : ~Below(mine, Least(bins, j, i)) /\ ~Below(Least(bins, j, i), mine)
                  /\ \A j \in 1..i : ~Below(mine, Least(bins, j, i))
         /\ Pooled(st, 1, Block(0, 0)) = Block(F[N], H[N])
<1>1. Steps(bins, N, F, H) /\ DOMAIN bins = 1..N /\ N \in Nat
  BY BinSteps DEF Curve
<1>2. /\ m \in Nat /\ c \in [0..m -> 0..N] /\ c[0] = 0 /\ c[m] = N
      /\ st = [b \in 1..m |-> Run(F, H, c[b - 1], c[b])]
      /\ \A b \in 1..m : \A p \in 0..N : Above(F, H, c[b - 1], c[b], p)
  BY DEF Hull
<1>3. ASSUME NEW i \in 1..N
      PROVE  LET mine == BlockOf(st, StartOf(bins, i))
             IN  /\ \E j \in 1..i : ~Below(mine, Least(bins, j, i)) /\ ~Below(Least(bins, j, i), mine)
                 /\ \A j \in 1..i : ~Below(mine, Least(bins, j, i))
  <2> DEFINE mine == BlockOf(st, StartOf(bins, i))
  <2>1. StartOf(bins, i) = H[i]
    <3>1. 1 \in 1..i /\ 1 - 1 = 0 /\ i \in 0..N
      BY <1>1
    <3>2. Pooled(SubSeq(bins, 1, i - 1), 1, bins[i]) = Run(F, H, 1 - 1, i)
      BY <1>1, <3>1, RunOfIs
    <3>3. StartOf(bins, i) = H[i] - 0
      BY <3>1, <3>2 DEF StartOf, Run, Block
    <3>4. H[i] \in Int
      BY <3>1 DEF Curve
    <3> QED BY <3>3, <3>4
  <2>2. PICK b \in 1..m : c[b - 1] < i /\ i <= c[b] /\ BlockOf(st, H[i]) = Run(F, H, c[b - 1], c[b])
    BY BlockOfIs
  <2> DEFINE l == c[b - 1]
             r == c[b]
  <2>3. l \in 0..N /\ r \in i..N /\ r \in 0..N /\ l < i /\ l < r
    <3>1. b \in 0..m /\ b - 1 \in 0..m
      BY <1>2
    <3> QED BY <1>1, <1>2, <2>2, <3>1
  <2>4. mine = Run(F, H, l, r) /\ \A p \in 0..N : Above(F, H, l, r, p)
    BY <1>2, <2>1, <2>2
  <2> HIDE DEF mine, l, r
  <2>5. ASSUME NEW j \in 1..i
        PROVE  ~Below(mine, Least(bins, j, i))
    <3> DEFINE a == j - 1
    <3>1. a \in 0..N /\ a < i
      BY <1>1
    <3>2. PICK t \in i..N : /\ Least(bins, j, i) = Run(F, H, j - 1, t)
                            /\ \A k \in i..N : NoFlatter(F, H, j - 1, k, j - 1, t)
      BY LeastIs
    <3>3. t \in 0..N /\ a < t /\ a < r
      BY <1>1, <2>3, <3>1
    <3>4. NoFlatter(F, H, a, r, a, t)
      BY <2>3, <3>2
    <3> HIDE DEF a
    <3>5. /\ \A x \in {l, r, a, t} : F[x] \in Int /\ H[x] \in Int
          /\ H[l] < H[r] /\ H[a] < H[r] /\ H[a] < H[t]
      BY <2>3, <3>1, <3>3 DEF Curve
    <3>6. NoFlatter(F, H, l, r, a, r)
      <4>1. Above(F, H, l, r, a)
        BY <2>4, <3>1
      <4>2. \A x \in {l, r, a} : F[x] \in Int /\ H[x] \in Int
        BY <3>5
      <4> QED BY <4>1, <4>2, NoSteeperFromAbove
    <3>7. NoFlatter(F, H, l, r, a, t)
      BY <3>4, <3>5, <3>6, Steepening
    <3>8. ~Below(Run(F, H, l, r), Run(F, H, a, t))
      BY <3>5, <3>7, BelowIsFlatter
    <3> QED BY <2>4, <3>2, <3>8 DEF a
  <2>6. \E j \in 1..i : ~Below(mine, Least(bins, j, i)) /\ ~Below(Least(bins, j, i), mine)
    <3> DEFINE j == l + 1
    <3>1. j \in 1..i /\ j - 1 = l
      BY <2>3
    <3> HIDE DEF j
    <3>2. PICK t \in i..N : /\ Least(bins, j, i) = Run(F, H, j - 1, t)
                            /\ \A k \in i..N : NoFlatter(F, H, j - 1, k, j - 1, t)
      BY <3>1, LeastIs
    <3>3. t \in 0..N
      BY <1>1
    <3>4. NoFlatter(F, H, l, t, l, r)
      BY <2>4, <3>3 DEF Above, NoFlatter
    <3>5. \A x \in {l, t, l, r} : F[x] \in Int /\ H[x] \in Int
      BY <2>3, <3>3 DEF Curve
    <3>6. ~Below(Run(F, H, l, t), Run(F, H, l, r))
      BY <3>4, <3>5, BelowIsFlatter
    <3>7. ~Below(Least(bins, j, i), mine)
      BY <2>4, <3>1, <3>2, <3>6
    <3> QED BY <2>5, <3>1, <3>7
  <2> QED BY <2>5, <2>6 DEF mine
<1>4. Pooled(st, 1, Block(0, 0)) = Block(F[N], H[N])
  <2> DEFINE f == [b \in 0..m |-> F[c[b]]]
             h == [b \in 0..m |-> H[c[b]]]
  <2>1. Steps(st, m, f, h)
    <3>1. N \in 0..N
      BY <1>1
    <3> QED BY <3>1, StackSteps
  <2>2. f[m] = F[N] /\ h[m] = H[N] /\ f[0] = 0 /\ h[0] = 0
    <3>1. 0 \in 0..m /\ m \in 0..m
      BY <1>2
    <3> QED BY <1>2, <3>1
  <2> HIDE DEF f, h
  <2>3. Len(st) = m /\ 0 \in 0..m /\ m \in 0..m /\ 0 + 1 = 1 /\ 0 \in Int
    BY <1>2
  <2>4. FoldSeq(Merged, Block(0, 0), SubSeq(st, 0 + 1, m)) = Block(0 + (f[m] - f[0]), 0 + (h[m] - h[0]))
    <3>1. m \in 0..m
      BY <2>3
    <3> QED BY <1>2, <2>1, <2>3, <3>1, PoolIsRun
  <2>5. F[N] \in Int /\ H[N] \in Int
    <3>1. N \in 0..N
      BY <1>1
    <3> QED BY <3>1 DEF Curve
  <2>6. 0 + (F[N] - 0) = F[N] /\ 0 + (H[N] - 0) = H[N]
    BY <2>5
  <2> QED BY <2>2, <2>3, <2>4, <2>6 DEF Pooled
<1> QED BY <1>1, <1>3, <1>4

\* The fit of any outcomes in bins of any size of two or more.
LEMMA FitOf ==
  ASSUME NEW n \in Nat, NEW mb \in Nat, mb >= 2, n >= 2 * mb, NEW ys \in [1..n -> {0, 1}]
  PROVE  LET bins == Bins(ys, mb)
             fit == FitIsotonic(ys, mb)
         IN  /\ \A i \in DOMAIN bins :
                  LET mine == BlockOf(fit, StartOf(bins, i))
                  IN  /\ \E j \in 1..i : ~Below(mine, Least(bins, j, i)) /\ ~Below(Least(bins, j, i), mine)
                      /\ \A j \in 1..i : ~Below(mine, Least(bins, j, i))
             /\ Pooled(fit, 1, Block(0, 0)) = Block(Wins(ys), Len(ys))
<1> DEFINE N == n \div mb
           H == [b \in 0..N |-> Edge(n, mb, b)]
           F == [b \in 0..N |-> WinsTo(ys, Edge(n, mb, b))]
           bins == Bins(ys, mb)
           fit == FitIsotonic(ys, mb)
<1>1. /\ Curve(F, H, N) /\ N >= 1
      /\ bins = [b \in 1..N |-> Run(F, H, b - 1, b)]
      /\ F[0] = 0 /\ H[0] = 0 /\ F[N] = Wins(ys) /\ H[N] = n /\ Len(ys) = n
  BY BinsAre
<1>2. fit = FoldLeft(Push, <<>>, bins)
  BY DEF FitIsotonic
<1> HIDE DEF N, H, F, bins, fit
<1>3. Hulled(F, H, N, fit)
  BY <1>1, <1>2, FitIsHull
<1>4. PICK m \in Nat : \E c \in [0..m -> 0..N] : Hull(F, H, N, fit, m, c)
  BY <1>3 DEF Hulled
<1>5. PICK c \in [0..m -> 0..N] : Hull(F, H, N, fit, m, c)
  BY <1>4
<1>6. /\ \A i \in DOMAIN bins :
              LET mine == BlockOf(fit, StartOf(bins, i))
              IN  /\ \E j \in 1..i : ~Below(mine, Least(bins, j, i)) /\ ~Below(Least(bins, j, i), mine)
                  /\ \A j \in 1..i : ~Below(mine, Least(bins, j, i))
      /\ Pooled(fit, 1, Block(0, 0)) = Block(F[N], H[N])
  BY <1>1, <1>5, HullIsRegression
<1> QED BY <1>1, <1>6 DEF bins, fit

\* The fitted map never takes back what it gave a lower prediction: no later block's
\* frequency is below an earlier one's, for any outcomes in bins of any size of two or
\* more (calibmap.go:150-206).
THEOREM FitRises ==
  ASSUME NEW n \in Nat, NEW mb \in Nat, mb >= 2, n >= 2 * mb, NEW ys \in [1..n -> {0, 1}]
  PROVE  LET fit == FitIsotonic(ys, mb)
         IN  \A a \in DOMAIN fit : \A b \in DOMAIN fit : a < b => ~Below(fit[b], fit[a])
<1> DEFINE N == n \div mb
           H == [b \in 0..N |-> Edge(n, mb, b)]
           F == [b \in 0..N |-> WinsTo(ys, Edge(n, mb, b))]
           bins == Bins(ys, mb)
           fit == FitIsotonic(ys, mb)
<1>1. Curve(F, H, N) /\ bins = [b \in 1..N |-> Run(F, H, b - 1, b)]
  BY BinsAre
<1>2. fit = FoldLeft(Push, <<>>, bins)
  BY DEF FitIsotonic
<1> HIDE DEF N, H, F, bins, fit
<1>3. Hulled(F, H, N, fit)
  BY <1>1, <1>2, FitIsHull
<1>4. PICK m \in Nat : \E c \in [0..m -> 0..N] : Hull(F, H, N, fit, m, c)
  BY <1>3 DEF Hulled
<1>5. PICK c \in [0..m -> 0..N] : Hull(F, H, N, fit, m, c)
  BY <1>4
<1>6. /\ fit = [b \in 1..m |-> Run(F, H, c[b - 1], c[b])]
      /\ \A a \in 1..m : \A b \in 1..m : a < b => NoFlatter(F, H, c[b - 1], c[b], c[a - 1], c[a])
  BY <1>5 DEF Hull
<1>7. ASSUME NEW a \in 1..m, NEW b \in 1..m, a < b
      PROVE  ~Below(fit[b], fit[a])
  <2>1. a \in 0..m /\ a - 1 \in 0..m /\ b \in 0..m /\ b - 1 \in 0..m
    OBVIOUS
  <2>2. \A x \in {c[b - 1], c[b], c[a - 1], c[a]} : F[x] \in Int /\ H[x] \in Int
    BY <1>1, <2>1 DEF Curve
  <2>3. NoFlatter(F, H, c[b - 1], c[b], c[a - 1], c[a])
    BY <1>6, <1>7
  <2>4. ~Below(Run(F, H, c[b - 1], c[b]), Run(F, H, c[a - 1], c[a]))
    BY <2>2, <2>3, BelowIsFlatter
  <2> QED BY <1>6, <2>4
<1>8. DOMAIN fit = 1..m
  BY <1>6
<1> QED BY <1>7, <1>8 DEF fit

\* Pooling adjacent violators gives the isotonic regression of the bins, whatever the
\* outcomes, however many, and however large a bin: no bin's frequency is below the
\* max-min mean of the runs around it, one run attains it, and the blocks hold every
\* outcome once (calibmap.go:150-206).
THEOREM FitIsTheRegression == Spec => []FitIsIsotonic
<1>1. PickInv => FitIsIsotonic
  <2> SUFFICES ASSUME PickInv, kind = "outcomes" PROVE FitIsIsotonic
    BY DEF FitIsIsotonic
  <2>1. PICK n \in Samples : input \in [1..n -> {0, 1}]
    BY DEF PickInv
  <2>2. MinBin \in Nat /\ MinBin >= 2 /\ n \in Nat /\ n >= 2 * MinBin
    BY SamplesAssumption
  <2> DEFINE bins == Bins(input, MinBin)
             fit == FitIsotonic(input, MinBin)
  <2>3. /\ \A i \in DOMAIN bins :
              LET mine == BlockOf(fit, StartOf(bins, i))
              IN  /\ \E j \in 1..i : ~Below(mine, Least(bins, j, i)) /\ ~Below(Least(bins, j, i), mine)
                  /\ \A j \in 1..i : ~Below(mine, Least(bins, j, i))
        /\ Pooled(fit, 1, Block(0, 0)) = Block(Wins(input), Len(input))
    BY <2>1, <2>2, FitOf
  <2> QED BY <2>3 DEF FitIsIsotonic, StartOf, Least
<1> QED BY <1>1, PickHolds, PTL
=============================================================================
