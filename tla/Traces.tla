-------------------------------- MODULE Traces --------------------------------
(***************************************************************************)
(* The trace page: app/trace/page.tsx and components/DecisionTrace.tsx.     *)
(* It lists the settled windows, reads the trace of the selected one and    *)
(* replays it; a new selection aborts the read of the last one.             *)
(***************************************************************************)
EXTENDS Pages, Lists

CONSTANT Crashed  \* a page whose rendering threw: React unmounts all of it

VARIABLES
  sel,      \* the selected window, Nothing before the list is in
  idx,      \* the scrub position: 0 is the first decision, the last settlement
  crashed   \* the tree is gone until the page is loaded again

traceState == <<sel, idx, crashed>>

ids == data["traces"]
trace == data["trace"]
-----------------------------------------------------------------------------
\* A trace whose orders are null cannot be rendered: buildEvents maps over them.
Drawable(t) == t.orders # Nothing

\* Decisions, from the window's start to its expiry; the sort is stable.
Earlier(a, b) == a.secsLeft > b.secsLeft
Events(t) == Sorted(t.orders, Earlier)
ExecutionAt(t, f) == [secsLeft |-> IF t.expiry > f.at THEN t.expiry - f.at ELSE 0,
                      kind |-> f.kind, price |-> f.price, quantity |-> f.qty]
BugExecutions(t) == Map(LAMBDA o : [secsLeft |-> o.secsLeft, kind |-> o.kind,
                                    price |-> o.price, quantity |-> o.fills],
                        SelectSeq(Events(t), LAMBDA o : o.fills > 0))
Executions(t) == Sorted(Map(LAMBDA f : ExecutionAt(t, f), t.fills), Earlier)

AtEnd(t, i) == i >= Len(Events(t))
Current(t, i) == Events(t)[i + 1]
\* Executions that have happened at scrub position i.
Filled(t, i) == IF AtEnd(t, i) THEN Executions(t)
                ELSE Filtered(Executions(t), LAMBDA f : f.secsLeft >= Current(t, i).secsLeft)
Revealed(t, i) == SubSeq(Events(t), 1, IF i + 1 < Len(Events(t)) THEN i + 1 ELSE Len(Events(t)))

\* The panel beside the plot: what was believed at a decision, or the outcome.
Moment(t, i) ==
  IF AtEnd(t, i)
  THEN [value |-> IF t.voided THEN One \div 2 ELSE IF t.winner = 0 THEN One ELSE 0,
        edge |-> t.attribution.Edge, selection |-> t.attribution.Selection,
        net |-> t.attribution.Net]
  ELSE LET o == Current(t, i)
       IN  [kind |-> o.kind, price |-> o.price, worth |-> SideFair(o),
            edge |-> SideFair(o) - o.price, filled |-> o.fills > 0]
Running(t, i) ==
  [fills |-> Len(Filled(t, i)), contracts |-> Total("quantity", Filled(t, i)),
   committed |-> Total("cost", Map(LAMBDA f : [cost |-> f.price * f.quantity], Filled(t, i))),
   of |-> Len(t.fills),
   net |-> IF AtEnd(t, i) THEN t.attribution.Net ELSE Nothing]
-----------------------------------------------------------------------------
SelectorShown == ~crashed /\ bad = {} /\ ids # Nothing /\ Len(ids) > 0
Displayed == SelectorShown /\ trace # Nothing
TraceScreen ==
  IF crashed THEN Crashed
  ELSE IF bad # {} THEN Failed
  ELSE IF ids = Nothing THEN Busy
  ELSE IF Len(ids) = 0 THEN None
  ELSE IF trace = Nothing THEN Busy
  ELSE [of |-> sel, moment |-> Moment(trace, idx), running |-> Running(trace, idx),
        revealed |-> Revealed(trace, idx)]

BugNoAbort(id) ==
  LET kept == {q \in inflight : q.n = 1}
  IN  kept \cup {Request(kept, "trace", id)}
BugAbortOnly(id) == {q \in inflight : q.ep # "trace"}
\* A new selection: the read of the last one is aborted, its trace cleared.
ReadTrace(id) ==
  LET others == {q \in inflight : q.ep # "trace"}
  IN  others \cup {Request(others, "trace", id)}
Select(id) ==
  /\ page = "trace" /\ SelectorShown
  /\ id \in ToSet(ids) \ {sel}
  /\ sel' = id
  /\ inflight' = ReadTrace(id) /\ data' = [data EXCEPT !["trace"] = Nothing]
  /\ UNCHANGED <<page, world, down, bad, cadence, idx, crashed>>

\* The list is in: its first window is selected at once.
TakeList(q) ==
  /\ ~crashed /\ q.ep = "traces" /\ TakeIn(q)
  /\ IF q.at = "ok" /\ q.body # <<>>
     THEN sel' = q.body[1] /\ inflight' = (inflight \ {q}) \cup {Request(inflight \ {q}, "trace", q.body[1])}
     ELSE sel' = sel /\ inflight' = inflight \ {q}
  /\ UNCHANGED <<cadence, idx, crashed>>

BugKeepPosition(t) == idx
\* DecisionTrace is mounted anew for the trace: it starts at the outcome.
StartAt(t) == Len(Events(t))
TakeTrace(q) ==
  /\ ~crashed /\ q.ep = "trace" /\ TakeIn(q)
  /\ inflight' = inflight \ {q}
  /\ IF q.at = "ok" /\ bad = {} THEN /\ crashed' = ~Drawable(q.body)
                                     /\ idx' = IF Drawable(q.body) THEN StartAt(q.body) ELSE 0
     ELSE UNCHANGED <<idx, crashed>>
  /\ UNCHANGED <<cadence, sel>>
-----------------------------------------------------------------------------
BugStep(i, n) == {i - 1, i + 1, 0, n} \ {-1}
\* Left and right step and stay in range, Home and End jump; the range input
\* goes anywhere.
KeySteps(i, n) == {IF i = 0 THEN 0 ELSE i - 1, IF i < n THEN i + 1 ELSE n, 0, n}
Scrub(i) ==
  /\ page = "trace" /\ Displayed /\ i # idx
  /\ i \in KeySteps(idx, Len(Events(trace))) \cup 0..Len(Events(trace))
  /\ idx' = i
  /\ UNCHANGED <<reads, cadence, sel, crashed>>
=============================================================================
