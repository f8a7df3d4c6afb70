----------------------------- MODULE Algorithms -----------------------------
(***************************************************************************)
(* The pure parts of the system over small sets of inputs: a behaviour      *)
(* picks one input of one algorithm, and the properties say what the        *)
(* algorithm makes of it.                                                   *)
(***************************************************************************)
EXTENDS FieldView, ReadModels, Pricing

CONSTANTS
  Null,       \* no value: an absent price, no row
  FieldRows,  \* rows a list of live windows is made of
  Fills,      \* fills a window's attribution is made of
  Beliefs,    \* [fair, uncertainty, inventory] of a quote
  Candles,    \* sets of candles a series is built from
  MinBin,     \* the outcomes in a bin
  Samples     \* how many outcomes a calibration map is fitted to

\* A row's prices and probabilities are thousandths.  A fill has a price and a
\* quantity; that of one found by reconciliation stands for its fair value too
\* (engine.go:1194-1204).
ASSUME RowsAssumption == \A r \in FieldRows :
  r.fair \in 0..Whole /\ r.uncertainty \in Nat /\ r.bid \in 0..Whole /\ r.ask \in 0..Whole
ASSUME ClocksAssumption == \A r \in FieldRows : r.secondsLeft \in Int
ASSUME FillsAssumption == \A f \in Fills :
  /\ f.kind \in {"BUY_UP", "BUY_DN"} /\ {f.price, f.fair, f.qty} \subseteq Int
  /\ ~f.modelFair => f.price = IF f.kind = "BUY_UP" THEN f.fair ELSE One - f.fair
\* A belief is a probability's, if not always between 0 and 1, and a whole
\* position; a candle has a start and two prices.
ASSUME BeliefsAssumption == \A b \in Beliefs :
  b.fair \in Int /\ b.uncertainty \in Nat /\ b.inventory \in Int
ASSUME CandlesAssumption == \A cs \in Candles : \A c \in cs :
  c.start \in Int /\ c = [start |-> c.start, open |-> c.open, close |-> c.close]
\* A bin has at least two outcomes, and a fit two bins (calibmap.go:130-136).
ASSUME SamplesAssumption ==
  MinBin \in Nat /\ MinBin >= 2 /\ \A n \in Samples : n \in Nat /\ n >= 2 * MinBin

VARIABLES kind, input
algorithmVars == <<kind, input>>

Init == kind = "none" /\ input = Null
Pick(k, x) == kind = "none" /\ kind' = k /\ input' = x
PickRows == \E a, b, c \in FieldRows :
              Cardinality({a, b, c}) = 3 /\ Pick("rows", <<a, b, c>>)
PickWindow ==
  \E f, g \in Fills, outcome \in {0, 1, 2} :
    Pick("window", [id |-> "w", label |-> "w", winner |-> IF outcome = 2 THEN -1 ELSE outcome,
                    voided |-> outcome = 2, fills |-> <<f, g>>])
PickBelief == \E b \in Beliefs : Pick("belief", b)
PickOutcomes == \E n \in Samples : \E ys \in [1..n -> {0, 1}] : Pick("outcomes", ys)
PickCandles == \E cs \in Candles : Pick("candles", cs)
Next == PickRows \/ PickWindow \/ PickBelief \/ PickOutcomes \/ PickCandles
Spec == Init /\ [][Next]_algorithmVars
-----------------------------------------------------------------------------
\* The headline is a window that is still undecided whenever there is one, the one
\* that decides soonest, and with the table below it shows every window once
\* (api.ts:252-280, page.tsx:33-37).
HeadlineIsUndecided ==
  kind = "rows" =>
    LET hero == PickHero(input, Null)
        rest == Rest(input, hero)
        open == {r \in ToSet(input) : Undecided(r)}
    IN  /\ open # {} => hero \in open /\ \A r \in open : hero.secondsLeft <= r.secondsLeft
        /\ ToSet(rest) = ToSet(input) \ {hero} /\ Len(rest) = Len(input) - 1

\* The coloured gap is drawn at its true length: whatever the prices and the noise,
\* the slice of the axis holds both ends of it, lies inside the axis and is wide
\* enough to read; and it is drawn only if the market's mid is outside the "likely
\* range" printed under the number (Disagreement.tsx:33-39, 91-122, 166-204;
\* Probability.tsx:24-52).
GapDrawnInFull ==
  kind = "rows" =>
    \A r \in ToSet(input) :
      /\ FocusWindow(r).lo >= 0 /\ FocusWindow(r).hi <= Axis
      /\ FocusWindow(r).hi - FocusWindow(r).lo >= MinSpan
      /\ GapDrawn(r) => /\ Gap(r) = 20 * TwiceGap(r)
                        /\ TwiceMid(r) \notin 2 * Band(r).lo..2 * Band(r).hi

\* "ranked by disagreement / noise": the ranking and the bar measure the disagreement
\* separately, and agree: no window whose gap is within the noise stands above one
\* whose gap is drawn (api.ts:238-244, Disagreement.tsx:37-39, page.tsx:43-45).
RankingAgreesWithBar ==
  kind = "rows" =>
    LET ranked == Ranked(input)
    IN  \A i, j \in DOMAIN ranked :
          GapDrawn(ranked[j]) /\ i < j => GapDrawn(ranked[i])

\* Profit splits exactly into edge and selection, and a fill found by reconciliation
\* has an edge of "exactly zero rather than a guess", on either side
\* (ledger.go:349-381, engine.go:1194-1204).
AttributionIsExact ==
  kind = "window" =>
    LET a == Attribution(input)
    IN  /\ a.Net = a.Edge + a.Selection
        /\ \A f \in ToSet(input.fills) : ~f.modelFair => Part(input, f).Edge = 0

\* A quote leans against the position it would add to, and Down is Up seen from the
\* other side: the mirrored belief gets the mirrored quote and the mirrored take
\* (quote.go:110-162, 190-213).
Mirrored(price) == IF price = 0 THEN 0 ELSE Certain - price
MirroredTake(t) == [buy |-> CASE t.buy = "Up" -> "Dn" [] t.buy = "Dn" -> "Up" [] OTHER -> "none",
                    price |-> Mirrored(t.price)]
Touch == {[bid |-> b, ask |-> a] : b \in {0, 20000, 48000, 96000}, a \in {0, 30000, 51000, 98000}}
TakesMirror(fair, u) ==
  \A t \in {t \in Touch : t.bid < t.ask \/ t.ask = 0}, residual \in {0, 14000} :
    ShouldTake(Certain - fair, u, residual, Mirrored(t.ask), Mirrored(t.bid))
      = MirroredTake(ShouldTake(fair, u, residual, t.bid, t.ask))
QuoteShedsInventory ==
  kind = "belief" =>
    LET q == Compute(input.fair, input.uncertainty, input.inventory, 60, 0)
        flat == Compute(input.fair, input.uncertainty, 0, 60, 0)
        other == Compute(Certain - input.fair, input.uncertainty, -input.inventory, 60, 0)
    IN  /\ ~q.skipBid /\ ~q.skipAsk => q.bid < q.ask
        /\ input.inventory >= 0 /\ ~flat.skipBid => q.bid <= flat.bid /\ q.ask <= flat.ask
        /\ input.inventory <= 0 /\ ~flat.skipAsk => q.bid >= flat.bid /\ q.ask >= flat.ask
        /\ other.bid = Mirrored(q.ask) /\ other.ask = Mirrored(q.bid)
        /\ other.skipBid = q.skipAsk /\ other.skipAsk = q.skipBid
        /\ TakesMirror(input.fair, input.uncertainty)

\* Pooling adjacent violators gives the isotonic regression of the bins: every bin
\* gets the max-min mean of the runs of bins around it, however far back a low bin
\* must be pooled, and no outcome is lost (calibmap.go:150-206).
RunOf(bins, i, j) == Pooled(SubSeq(bins, i, j - 1), 1, bins[j])
BlockOf(blocks, position) ==
  blocks[CHOOSE b \in DOMAIN blocks :
           /\ position <= Pooled(SubSeq(blocks, 1, b - 1), 1, blocks[b]).n
           /\ position > Pooled(SubSeq(blocks, 1, b - 1), 1, blocks[b]).n - blocks[b].n]
FitIsIsotonic ==
  kind = "outcomes" =>
    LET bins == Bins(input, MinBin)
        fit == FitIsotonic(input, MinBin)
        starts(i) == Pooled(SubSeq(bins, 1, i - 1), 1, bins[i]).n
        least(j, i) == CHOOSE b \in {RunOf(bins, j, k) : k \in i..Len(bins)} :
                         \A k \in i..Len(bins) : ~Below(RunOf(bins, j, k), b)
    IN  /\ \A i \in DOMAIN bins :
             LET mine == BlockOf(fit, starts(i))
             IN  /\ \E j \in 1..i : ~Below(mine, least(j, i)) /\ ~Below(least(j, i), mine)
                 /\ \A j \in 1..i : ~Below(mine, least(j, i))
        /\ Pooled(fit, 1, Block(0, 0)) = Block(Wins(input), Len(input))

\* "Lookups are strictly causal": what the series answers at t it would also answer
\* had it been built at t, from the prices that were public then
\* (pricefeed.go:207-304).
KnownBy(candles, t) ==
  {[c EXCEPT !.close = IF c.start + 60 > t THEN Null ELSE @] :
     c \in {c \in candles : c.start <= t}}
NoLookAhead ==
  kind = "candles" =>
    \A t \in {30 * k : k \in 0..18} \cup {59, 61, 119, 121, 419, 421} :
      At(Observations(input, Null), t) = At(Observations(KnownBy(input, t), Null), t)
=============================================================================
