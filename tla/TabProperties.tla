---------------------------- MODULE TabProperties ----------------------------
(***************************************************************************)
(* What the web front end promises the person reading it, as properties of *)
(* Tab.                                                                     *)
(***************************************************************************)
EXTENDS Tab

Answered == {"sent", "ok", "failed"}

\* Requests, answers and the state each page keeps have their types; above all the
\* scrub position stays between the first decision and settlement, where the
\* trace page indexes its events (DecisionTrace.tsx:36-41, 52-53).
TabTypeOK ==
  /\ page \in Page /\ down \subseteq EndpointsOf(page) /\ bad \subseteq EndpointsOf(page)
  /\ DOMAIN world = EndpointsOf(page) /\ DOMAIN data = Endpoint
  /\ \A q \in inflight : q.ep \in EndpointsOf(page) /\ q.n \in 1..Overlap[q.ep] /\ q.at \in Answered
  /\ \A q, r \in inflight : q.ep = r.ep /\ q.n = r.n => q = r
  /\ now \in 0..Cycle - 1 /\ crashed \in BOOLEAN /\ idx \in Nat
  /\ Displayed => idx \in 0..Len(Events(trace))

\* A trace on the screen is that of the window the selector names, however quickly
\* the user moves through the list and in whatever order the reads come back
\* (trace/page.tsx:34-43).
TraceIsTheSelected == trace # Nothing => trace.id = sel

\* "Selecting a different window must start at its settlement, not at whatever
\* decision index the previous window happened to be scrubbed to"
\* (DecisionTrace.tsx:23-27).
TraceOpensAtSettlement ==
  [][\A id \in Windows :
       sel = id /\ trace = Nothing /\ trace' # Nothing /\ ~crashed'
         => AtEnd(trace', idx')]_tabVars

\* Scrubbing forward only ever adds executions, none of them later than the decision
\* on the screen; at settlement they are all there and what was committed to them
\* is the cost the server attributes to the window, although orders and fills come
\* from different tables in different orders (DecisionTrace.tsx:52-66, 374-406;
\* ledger.go:328-395, 691-760).
ReplayIsCausal ==
  Displayed /\ ~crashed =>
    LET last == Len(Events(trace))
    IN  /\ \A i \in 0..last - 1 : IsPrefix(Filled(trace, i), Filled(trace, i + 1))
        /\ \A i \in 0..last - 1 : \A f \in ToSet(Filled(trace, i)) :
             f.secsLeft >= Current(trace, i).secsLeft
        /\ Running(trace, last).fills = Running(trace, last).of
        /\ Running(trace, last).committed = trace.attribution.Cost

\* The headline above the ledger's table is the sum of the rows below it, with
\* or without a cadence selected, and whichever answer arrived last
\* (ledger/page.tsx:51-57, 271-283).
LedgerShown == page = "ledger" /\ LedgerScreen \notin {Failed, Busy, None}
HeadlineMatchesRows ==
  LedgerShown =>
    \A f \in Summed :
      LedgerScreen.totals[f] = TotalOf(f, data["pnl"].windows, LedgerScreen.rows)

\* The sentence never says more than the numbers beside it: it speaks of a surviving
\* edge only if there was one and money was not lost, and of a right price and a
\* wrong outcome only if an edge was lost to selection "by more"; the last case,
\* "mixed", is never reached since net is edge plus selection (ledger/page.tsx:190-237).
ReadingIsTrue ==
  LedgerShown =>
    LET t == LedgerScreen.totals
    IN  /\ LedgerScreen.reading = "the edge survived" => t["Edge"] > 0 /\ t["Net"] >= 0
        /\ LedgerScreen.reading = "right about price, wrong about outcome"
             => t["Edge"] > 0 /\ t["Edge"] + t["Selection"] < 0 /\ t["Net"] < 0
        /\ LedgerScreen.reading = "not below fair value" => t["Edge"] <= 0
        /\ LedgerScreen.reading # "mixed"

\* The headline's countdown is ahead of its window's own clock by no more than the
\* answer that set it was late, and behind it only where another window became the
\* headline with the very number the countdown was set to: the effect depends on the
\* number (page.tsx:365-368), whole seconds (dashboard/main.go:200), and leaves the old
\* base running until an answer brings another.  Overlapping polls, answers that
\* overtake others and every other change of headline set it right.
TimeLeft == Larger(0, Hero.secondsLeft - Unit * data["live"].age)
CountdownHonest ==
  HeroShown => /\ LeftShown - TimeLeft <= Unit * MaxDelay
               /\ base.own => LeftShown >= TimeLeft
-----------------------------------------------------------------------------
\* Where a page that stays open stands once its server has settled down.
Stays(p, ep) == page = p /\ ep \notin down
Broken(p, ep) == page = p /\ ep \in down

\* An outage leaves no trace on the pages that clear their error: the field page
\* and the risk section come back by themselves (page.tsx:336-343,
\* system/page.tsx:29-34).
Recovers(p, ep) == <>[]Stays(p, ep) => <>[](ep \notin bad /\ data[ep] # Nothing)
PagesRecover == Recovers("field", "live") /\ Recovers("system", "risk")

\* "A failed read must not look like 'no exposure recorded'" (system/page.tsx:27-28):
\* an outage that lasts is on the screen and stays there, for every polled read
\* that reports its failures.
ErrorShown(ep) == CASE ep = "live"     -> FieldScreen = Failed
                    [] ep = "coverage" -> CoverageScreen.banner
                    [] ep = "pnl"      -> LedgerScreen = Failed
                    [] ep = "health"   -> SystemScreen.banner
                    [] ep = "risk"     -> SystemScreen.risk = Failed
Shows(p, ep) == <>[]Broken(p, ep) => <>[]ErrorShown(ep)
OutageShows ==
  /\ Shows("field", "live") /\ Shows("coverage", "coverage") /\ Shows("ledger", "pnl")
  /\ Shows("system", "health") /\ Shows("system", "risk")

\* No page is left with its placeholder, and no selected trace either, however the
\* reads fail and the user moves: whatever is asked for is answered or reported
\* (page.tsx:30-31, ledger/page.tsx:35-48, trace/page.tsx:62-107,
\* evidence/page.tsx:28-42).  The chain section, whose failures are swallowed, is
\* the exception.
Waits(p) == /\ page = p
            /\ Busy = CASE p = "field"    -> FieldScreen
                        [] p = "evidence" -> EvidenceScreen
                        [] p = "coverage" -> CoverageScreen.table
                        [] p = "ledger"   -> LedgerScreen
                        [] p = "trace"    -> TraceScreen
EveryPageSettles ==
  /\ \A p \in {"field", "evidence", "coverage", "ledger"} : []<>~Waits(p)
  /\ \A id \in Windows :
       []<>~(Waits("trace") /\ sel = id)

\* What a page that stays open polls comes to show what the server last says,
\* although answers overlap and overtake each other (ledger/page.tsx:20-33,
\* coverage/page.tsx:19-34, system/page.tsx:22-43).
Follows(p, ep) ==
  \A v \in {Start[ep]} \cup Content[ep] :
    <>[](Stays(p, ep) /\ world[ep] = v) => <>[](data[ep] = v)
EventuallyCurrent == /\ Follows("ledger", "pnl") /\ Follows("coverage", "coverage")
                     /\ Follows("system", "risk") /\ Follows("system", "health")
-----------------------------------------------------------------------------
\* "Reconciled maker fills appear here even though no order of ours produced a
\* receipt for them" (DecisionTrace.tsx:141-142): a window of the list can be
\* replayed.
TraceNeverCrashes == ~crashed
=============================================================================
