--------------------------------- MODULE Tab ---------------------------------
(***************************************************************************)
(* A browser tab on the dashboard: the pages, the user who moves between    *)
(* them, and the server they read.                                          *)
(***************************************************************************)
EXTENDS Field

CONSTANTS
  Start,   \* what each endpoint answers when a page is opened
  Content, \* what each endpoint may come to answer while it is open
  Cadence  \* the values the ledger page's filter can take

\* The selector's ids all have a trace, and the trace read by an id is that
\* window's; both are read from one ledger.
Windows == DOMAIN Start["trace"]
ASSUME TabAssumption ==
  /\ \A list \in {Start["traces"]} \cup Content["traces"] : list \in Seq(Windows)
  /\ \A traces \in {Start["trace"]} \cup Content["trace"] :
       DOMAIN traces = Windows /\ \A id \in Windows : traces[id].id = id
\* A trace's orders and fills are lists with times, and its attribution is that of
\* its fills: the window is settled, and both are read from one ledger.
WellFormed(t) ==
  /\ t.expiry \in Int /\ t.attribution = Attribution(t)
  /\ Len(t.fills) \in Nat /\ DOMAIN t.fills = 1..Len(t.fills)
  /\ \A i \in DOMAIN t.fills : {t.fills[i].at, t.fills[i].price, t.fills[i].qty} \subseteq Int
  /\ Drawable(t) => /\ Len(t.orders) \in Nat /\ DOMAIN t.orders = 1..Len(t.orders)
                    /\ \A i \in DOMAIN t.orders : t.orders[i].secsLeft \in Int
ASSUME TracesAssumption ==
  \A traces \in {Start["trace"]} \cup Content["trace"], id \in Windows : WellFormed(traces[id])
\* A profit's rows and totals are what Attribution and Sum make of a ledger.
Profits == {Start["pnl"]} \cup Content["pnl"]
ASSUME ProfitAssumption ==
  \A d \in Profits :
    /\ IsFiniteSet(DOMAIN d.windows) /\ d.totals = Sum(d.windows, DOMAIN d.windows)
    /\ \A i \in DOMAIN d.windows :
         LET w == d.windows[i]
         IN  /\ w.Fills \in Nat
             /\ \A f \in {"Contracts", "Edge", "Selection"} : w[f] \in Int
             /\ w.Net = w.Edge + w.Selection

tabVars == <<reads, cadence, traceState, fieldState>>

Init ==
  /\ page = "field" /\ now = 0
  /\ world = [ep \in EndpointsOf("field") |-> LiveAnswer(0)]
  /\ down = {} /\ inflight = Mounting("field") /\ data = NoData /\ bad = {}
  /\ cadence = "all" /\ sel = Nothing /\ idx = 0 /\ crashed = FALSE
  /\ base = Nothing

\* A link is an anchor: the document is loaded again.  The list of live windows
\* has moved on by then; its clock stands still for the pages that do not show it.
\* A reload is leaving and coming back.
Navigate(p) ==
  /\ p # page /\ page' = p
  /\ now' \in IF p = "field" THEN 0..Cycle - 1 ELSE {0}
  /\ world' = [ep \in EndpointsOf(p) |-> IF ep = "live" THEN LiveAnswer(now') ELSE Start[ep]]
  /\ down' = {} /\ inflight' = Mounting(p) /\ data' = NoData /\ bad' = {}
  /\ cadence' = "all" /\ sel' = Nothing /\ idx' = 0 /\ crashed' = FALSE
  /\ base' = Nothing

TakeOther(q) ==
  /\ q.ep \notin {"live", "traces", "trace"} /\ TakeIn(q)
  /\ inflight' = inflight \ {q}
  /\ UNCHANGED <<cadence, traceState, fieldState>>
Take(q) == TakeLive(q) \/ ((TakeList(q) \/ TakeTrace(q)) /\ UNCHANGED fieldState) \/ TakeOther(q)

Server == /\ \/ \E q \in inflight : Serve(q)
             \/ \E ep \in EndpointsOf(page) : Break(ep) \/ Mend(ep)
             \/ \E ep \in EndpointsOf(page) \ {"live"} : \E v \in Content[ep] : Change(ep, v)
          /\ UNCHANGED <<cadence, traceState, fieldState>>
\* The field page polls with its clock.
PollOther == page # "field" /\ Poll /\ UNCHANGED <<cadence, traceState, fieldState>>
MaxEvents == 9  \* bound: more than any trace of Start has
User ==
  \/ \E p \in Page : Navigate(p)
  \/ \E c \in Cadence : ChooseCadence(c) /\ UNCHANGED <<traceState, fieldState>>
  \/ \E id \in Windows : Select(id) /\ UNCHANGED fieldState
  \/ \E i \in 0..MaxEvents : Scrub(i) /\ UNCHANGED fieldState
Next == User \/ Server \/ PollOther \/ Tick \/ \E q \in inflight : Take(q)

\* Timers fire, the server answers what it was asked (its handlers have
\* timeouts), and an answer that is in is taken in; each for every request.
Numbered(ep, n) == {q \in inflight : q.ep = ep /\ q.n = n}
Fairness ==
  /\ WF_tabVars(Tick) /\ WF_tabVars(PollOther)
  /\ \A ep \in Endpoint : \A n \in 1..Overlap[ep] :
       /\ WF_tabVars(\E q \in Numbered(ep, n) : Serve(q) /\ UNCHANGED <<cadence, traceState, fieldState>>)
       /\ WF_tabVars(\E q \in Numbered(ep, n) : Take(q))
Spec == Init /\ [][Next]_tabVars /\ Fairness
=============================================================================
