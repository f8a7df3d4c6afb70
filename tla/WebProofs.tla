------------------------------ MODULE WebProofs ------------------------------
(***************************************************************************)
(* What the browser's tab promises, for any windows, traces and ledgers, any *)
(* bound on the delays and on the requests that overlap, and any order of    *)
(* their answers:                                                          *)
(*   SelInv     the trace on the screen is the selected window's;           *)
(*   TypeInv    every request has a slot of its own, the scrub position     *)
(*              lies on the trace that is shown;                           *)
(*   ClockInv   what the countdown runs for is the headline of the answer   *)
(*              on the page, and how late that answer can be;               *)
(*   ProfitInv  what the ledger page shows is a profit the server computed. *)
(* And two facts about what the pages print, for every value.               *)
(***************************************************************************)
EXTENDS TabProperties, DataTheorems, FiniteSetTheorems, TLAPS

\* What the page has asked for, and what it may have been answered.
Listing(q) == q.ep = "traces"
Tracing(q) == q.ep = "trace"

\* Requests belong to the page on the screen.
OfThePage ==
  /\ page \in Page
  /\ DOMAIN data = Endpoint
  /\ \A q \in inflight : q.ep \in EndpointsOf(page)
\* The trace page's list and traces come from one ledger.
WorldInv ==
  /\ page = "trace" => DOMAIN world = {"traces", "trace"}
  /\ page = "trace" => world["traces"] \in Seq(Windows)
  /\ page = "trace" => DOMAIN world["trace"] = Windows
                       /\ \A id \in Windows : world["trace"][id].id = id
\* While the list is awaited nothing is selected.
ListInv ==
  /\ \A q, r \in inflight : Listing(q) /\ Listing(r) => q = r
  /\ \A q \in inflight : Listing(q) => bad = {} /\ data["traces"] = Nothing
                                       /\ data["trace"] = Nothing
  /\ \A q \in inflight : Listing(q) /\ q.at = "ok" => q.body \in Seq(Windows)
  /\ \A q, r \in inflight : Listing(q) => ~Tracing(r)
\* At most one trace is awaited, that of the selected window.
TraceInv ==
  /\ \A q, r \in inflight : Tracing(q) /\ Tracing(r) => q = r
  /\ \A q \in inflight : Tracing(q) => q.arg = sel /\ sel \in Windows /\ bad = {}
                                       /\ data["trace"] = Nothing
  /\ \A q \in inflight : Tracing(q) /\ q.at = "ok" => q.body.id = sel
SelInv == OfThePage /\ WorldInv /\ ListInv /\ TraceInv /\ TraceIsTheSelected
-----------------------------------------------------------------------------
\* No interval of the trace page polls anything, and no other page asks for it.
LEMMA TraceEndpoints ==
  ASSUME NEW p \in Page
  PROVE  /\ Polled(p) \cap {"traces", "trace"} = {}
         /\ p = "trace" => Polled(p) = {} /\ Once(p) = {"traces"}
                           /\ EndpointsOf(p) = {"traces", "trace"}
         /\ p # "trace" => EndpointsOf(p) \cap {"traces", "trace"} = {}
         /\ Polled(p) \cup Once(p) \subseteq EndpointsOf(p)
BY DEF Page, Polled, Once, EndpointsOf

\* A request is for what was asked and not answered yet.
LEMMA RequestIs ==
  ASSUME NEW reqs, NEW ep, NEW arg
  PROVE  Request(reqs, ep, arg).ep = ep /\ Request(reqs, ep, arg).arg = arg
         /\ Request(reqs, ep, arg).at = "sent"
BY DEF Request

\* What a poll adds is asked for by the page's interval.
LEMMA SentIs ==
  ASSUME NEW reqs, NEW eps, NEW q \in Sent(reqs, eps)
  PROVE  q \in reqs \/ (q.ep \in eps /\ q.at = "sent")
BY RequestIs DEF Sent

\* A page that is opened waits for its list, if it is the trace page.
LEMMA MountingIs ==
  ASSUME NEW p \in Page
  PROVE  /\ \A q \in Mounting(p) : q.ep \in EndpointsOf(p) /\ ~Tracing(q) /\ q.at = "sent"
         /\ \A q, r \in Mounting(p) : Listing(q) /\ Listing(r) => q = r
<1>1. \A q \in Mounting(p) : q.ep \in Polled(p) \cup Once(p) /\ q.at = "sent"
  BY SentIs DEF Mounting
<1>2. \A q, r \in Mounting(p) : q.ep = r.ep => q = r
  BY RequestIs DEF Mounting, Sent
<1>3. "trace" \notin Polled(p) \cup Once(p)
  BY DEF Page, Polled, Once
<1> QED BY <1>1, <1>2, <1>3, TraceEndpoints DEF Tracing, Listing

\* Taking in, polling and serving leave what the trace page selects alone when
\* the requests of the trace page are not theirs.
LEMMA OtherRequests ==
  ASSUME SelInv, UNCHANGED <<page, world, sel>>, DOMAIN data' = Endpoint,
         \A q \in inflight' : \/ q \in inflight
                              \/ q.ep \in EndpointsOf(page) \ {"traces", "trace"},
         data'["traces"] = data["traces"], data'["trace"] = data["trace"],
         page = "trace" => bad' = bad
  PROVE  SelInv'
<1>1. OfThePage' /\ WorldInv'
  BY DEF SelInv, OfThePage, WorldInv
<1>2. \A q \in inflight' : Listing(q) \/ Tracing(q) => q \in inflight /\ page = "trace"
  BY TraceEndpoints DEF Listing, Tracing, SelInv, OfThePage
<1>3. ListInv' /\ TraceInv' /\ TraceIsTheSelected'
  BY <1>2 DEF SelInv, ListInv, TraceInv, TraceIsTheSelected, trace, Listing, Tracing
<1> QED BY <1>1, <1>3 DEF SelInv
-----------------------------------------------------------------------------
LEMMA NavigateKeeps ==
  ASSUME NEW p \in Page, Navigate(p)
  PROVE  SelInv'
<1>1. OfThePage'
  BY MountingIs DEF Navigate, OfThePage, NoData
<1>2. WorldInv'
  BY TabAssumption, TraceEndpoints DEF Navigate, WorldInv
<1>3. ListInv'
  BY MountingIs DEF Navigate, ListInv, NoData, Endpoint, Listing, Tracing
<1>4. TraceInv' /\ TraceIsTheSelected'
  BY MountingIs DEF Navigate, TraceInv, NoData, Endpoint, TraceIsTheSelected, trace
<1> QED BY <1>1, <1>2, <1>3, <1>4 DEF SelInv

\* Selecting another window: the list is in, the last read is dropped.
LEMMA SelectKeeps ==
  ASSUME SelInv, NEW id \in Windows, Select(id)
  PROVE  SelInv'
<1> DEFINE others == {q \in inflight : q.ep # "trace"}
           new == Request(others, "trace", id)
<1>1. new.ep = "trace" /\ new.arg = id /\ new.at = "sent"
  BY RequestIs
<1> HIDE DEF new
<1>2. inflight' = others \cup {new} /\ sel' = id /\ bad' = {} /\ page = "trace"
  BY DEF Select, ReadTrace, new, SelectorShown
<1>3. data["traces"] # Nothing
  BY DEF Select, SelectorShown, ids
<1>4. \A q \in inflight : ~Listing(q)
  BY <1>3 DEF SelInv, ListInv
<1>5. DOMAIN data' = Endpoint /\ data'["trace"] = Nothing
  BY DEF Select, SelInv, OfThePage, Endpoint
<1>6. OfThePage' /\ WorldInv'
  BY <1>1, <1>2, <1>5, TraceEndpoints DEF Select, SelInv, OfThePage, WorldInv
<1>7. ListInv'
  BY <1>1, <1>2, <1>4 DEF ListInv, Listing
<1>8. TraceInv' /\ TraceIsTheSelected'
  BY <1>1, <1>2, <1>5 DEF TraceInv, Tracing, TraceIsTheSelected, trace
<1> QED BY <1>6, <1>7, <1>8 DEF SelInv

\* The list is in: no trace was asked for or shown before, the first one is.
LEMMA TakeListKeeps ==
  ASSUME SelInv, NEW q \in inflight, TakeList(q)
  PROVE  SelInv'
<1>1. q.ep = "traces" /\ page = "trace" /\ page' = page /\ world' = world
  BY TraceEndpoints DEF TakeList, TakeIn, SelInv, OfThePage
<1>2. \A r \in inflight : ~Tracing(r) /\ (Listing(r) => r = q)
  BY <1>1 DEF SelInv, ListInv, Listing
<1>3. DOMAIN data' = Endpoint /\ data'["trace"] = Nothing /\ data["trace"] = Nothing
  BY <1>1 DEF TakeList, TakeIn, DataAfter, SelInv, OfThePage, ListInv, Listing, Endpoint
<1>4. CASE q.at = "ok" /\ q.body # <<>>
  <2> DEFINE new == Request(inflight \ {q}, "trace", q.body[1])
  <2>1. new.ep = "trace" /\ new.arg = q.body[1] /\ new.at = "sent"
    BY RequestIs
  <2> HIDE DEF new
  <2>2. inflight' = (inflight \ {q}) \cup {new} /\ sel' = q.body[1]
    BY <1>4 DEF TakeList, new
  <2>3. q.body[1] \in Windows
    BY <1>1, <1>4 DEF SelInv, ListInv, Listing
  <2>4. bad = {}
    BY <1>1 DEF SelInv, ListInv, Listing
  <2>5. bad' = {}
    BY <1>4, <2>4 DEF TakeList, TakeIn, BadAfter
  <2>6. OfThePage' /\ WorldInv'
    BY <1>1, <1>3, <2>1, <2>2, TraceEndpoints DEF SelInv, OfThePage, WorldInv
  <2>7. ListInv' /\ TraceInv' /\ TraceIsTheSelected'
    BY <1>2, <1>3, <2>1, <2>2, <2>3, <2>5
    DEF ListInv, TraceInv, Listing, Tracing, TraceIsTheSelected, trace
  <2> QED BY <2>6, <2>7 DEF SelInv
<1>5. CASE ~(q.at = "ok" /\ q.body # <<>>)
  <2>1. inflight' = inflight \ {q}
    BY <1>5 DEF TakeList
  <2>2. OfThePage' /\ WorldInv'
    BY <1>1, <1>3, <2>1 DEF SelInv, OfThePage, WorldInv
  <2>3. ListInv' /\ TraceInv' /\ TraceIsTheSelected'
    BY <1>2, <1>3, <2>1 DEF ListInv, TraceInv, TraceIsTheSelected, trace
  <2> QED BY <2>2, <2>3 DEF SelInv
<1> QED BY <1>4, <1>5

\* A trace is in: it is the selected window's, and no other is awaited.
LEMMA TakeTraceKeeps ==
  ASSUME SelInv, NEW q \in inflight, TakeTrace(q)
  PROVE  SelInv'
<1>1. q.ep = "trace" /\ page = "trace" /\ page' = page /\ world' = world /\ sel' = sel
      /\ inflight' = inflight \ {q}
  BY TraceEndpoints DEF TakeTrace, TakeIn, SelInv, OfThePage
<1>2. q.at = "ok" => q.body.id = sel
  BY <1>1 DEF SelInv, TraceInv, Tracing
<1>3. \A r \in inflight' : ~Tracing(r) /\ ~Listing(r)
  BY <1>1 DEF SelInv, TraceInv, ListInv, Tracing
<1>4. data' = DataAfter(q)
  BY DEF TakeTrace, TakeIn
<1>5. DOMAIN data' = Endpoint
  BY <1>4 DEF DataAfter, SelInv, OfThePage
<1>6. TraceIsTheSelected'
  <2>1. CASE q.at = "ok"
    <3>1. data'["trace"] = q.body
      BY <1>1, <1>4, <2>1 DEF DataAfter, SelInv, OfThePage, Endpoint
    <3> QED BY <1>1, <1>2, <2>1, <3>1 DEF TraceIsTheSelected, trace
  <2>2. CASE q.at # "ok"
    BY <1>1, <1>4, <2>2 DEF DataAfter, SelInv, TraceIsTheSelected, trace
  <2> QED BY <2>1, <2>2
<1>7. OfThePage' /\ WorldInv'
  BY <1>1, <1>5 DEF SelInv, OfThePage, WorldInv
<1>8. ListInv' /\ TraceInv'
  BY <1>3 DEF ListInv, TraceInv
<1> QED BY <1>6, <1>7, <1>8 DEF SelInv

\* The server answers a read of a trace with the trace of that window.
LEMMA ServeKeeps ==
  ASSUME SelInv, NEW q \in inflight, Serve(q), UNCHANGED traceState
  PROVE  SelInv'
<1> DEFINE a == Served(q)
<1>1. a.ep = q.ep /\ a.arg = q.arg
  BY DEF Served
<1>2. a.at = "ok" => a.body = AnswerTo(q)
  BY DEF Served
<1>3. inflight' = (inflight \ {q}) \cup {a}
  BY DEF Serve
<1>4. UNCHANGED <<page, world, down, data, bad, sel, idx, crashed>>
  BY DEF Serve, traceState
<1>5. Listing(q) /\ a.at = "ok" => a.body \in Seq(Windows)
  BY <1>2, TraceEndpoints DEF AnswerTo, SelInv, OfThePage, WorldInv, Listing
<1>6. Tracing(q) /\ a.at = "ok" => a.body.id = sel
  <2> SUFFICES ASSUME Tracing(q), a.at = "ok" PROVE a.body.id = sel
    OBVIOUS
  <2>1. page = "trace" /\ q.arg = sel /\ sel \in Windows
    BY TraceEndpoints DEF SelInv, OfThePage, TraceInv, Tracing
  <2>2. a.body = world["trace"][sel]
    BY <1>2, <2>1 DEF AnswerTo, Tracing
  <2> QED BY <2>1, <2>2 DEF SelInv, WorldInv
<1> HIDE DEF a
<1>7. OfThePage' /\ WorldInv'
  BY <1>1, <1>3, <1>4 DEF SelInv, OfThePage, WorldInv
<1>8. ListInv'
  BY <1>1, <1>3, <1>4, <1>5 DEF SelInv, ListInv, Listing, Tracing
<1>9. TraceInv' /\ TraceIsTheSelected'
  BY <1>1, <1>3, <1>4, <1>6 DEF SelInv, TraceInv, Tracing, TraceIsTheSelected, trace
<1> QED BY <1>7, <1>8, <1>9 DEF SelInv

\* The server's world changes, or its reads fail.
LEMMA WorldKeeps ==
  ASSUME SelInv, UNCHANGED traceState, NEW ep \in EndpointsOf(page),
         \/ Break(ep) \/ Mend(ep)
         \/ ep # "live" /\ \E v \in Content[ep] : Change(ep, v)
  PROVE  SelInv'
<1>1. UNCHANGED <<page, inflight, data, bad, sel>>
  BY DEF Break, Mend, Change, traceState
<1>2. WorldInv'
  <2>1. CASE Break(ep) \/ Mend(ep)
    BY <2>1 DEF Break, Mend, SelInv, WorldInv
  <2>2. ASSUME NEW v \in Content[ep], Change(ep, v), page = "trace"
        PROVE  WorldInv'
    <3>1. ep \in {"traces", "trace"}
      BY <2>2, TraceEndpoints DEF SelInv, OfThePage
    <3>2. DOMAIN world = {"traces", "trace"} /\ world' = [world EXCEPT ![ep] = v]
      BY <2>2 DEF Change, SelInv, WorldInv
    <3> QED BY <1>1, <2>2, <3>1, <3>2, TabAssumption DEF SelInv, WorldInv
  <2>3. CASE page # "trace"
    BY <1>1, <2>3 DEF WorldInv
  <2> QED BY <2>1, <2>2, <2>3
<1>3. OfThePage' /\ ListInv' /\ TraceInv' /\ TraceIsTheSelected'
  BY <1>1 DEF SelInv, OfThePage, ListInv, TraceInv, TraceIsTheSelected, trace
<1> QED BY <1>2, <1>3 DEF SelInv

\* The other pages' answers and polls are none of the trace page's.
LEMMA OthersKeep ==
  ASSUME SelInv, UNCHANGED sel,
         \/ \E q \in inflight : TakeLive(q) \/ TakeOther(q)
         \/ page # "field" /\ Poll
         \/ Tick
  PROVE  SelInv'
<1>1. ASSUME NEW q \in inflight, TakeLive(q) \/ TakeOther(q)
      PROVE  SelInv'
  <2>1. TakeIn(q) /\ q.ep \notin {"traces", "trace"} /\ inflight' = inflight \ {q}
    BY <1>1 DEF TakeLive, TakeOther
  <2>2. page # "trace"
    BY <2>1, TraceEndpoints DEF SelInv, OfThePage
  <2>3. DOMAIN data' = Endpoint /\ data'["traces"] = data["traces"]
        /\ data'["trace"] = data["trace"]
    BY <2>1 DEF TakeIn, DataAfter, SelInv, OfThePage, Endpoint
  <2> QED BY <2>1, <2>2, <2>3, OtherRequests DEF TakeIn
<1>2. ASSUME page # "field", Poll
      PROVE  SelInv'
  <2>1. \A q \in inflight' : q \in inflight \/ q.ep \in EndpointsOf(page) \ {"traces", "trace"}
    BY <1>2, SentIs, TraceEndpoints DEF Poll, SelInv, OfThePage
  <2> QED BY <1>2, <2>1, OtherRequests DEF Poll, SelInv, OfThePage
<1>3. ASSUME Tick
      PROVE  SelInv'
  <2>1. \A q \in inflight : OlderRequest(q).ep = q.ep
    BY DEF OlderRequest
  <2>2. \A q \in inflight' : q.ep = "live" \/ \E r \in inflight : q.ep = r.ep
    BY <1>3, <2>1, SentIs DEF Tick
  <2>3. page = "field" /\ page' = page /\ bad' = bad
    BY <1>3 DEF Tick
  <2>4. DOMAIN data' = Endpoint /\ data'["traces"] = data["traces"]
        /\ data'["trace"] = data["trace"]
    BY <1>3 DEF Tick, SelInv, OfThePage, Endpoint
  <2>5. EndpointsOf("field") = {"live"}
    BY DEF EndpointsOf, Polled, Once
  <2>6. OfThePage' /\ \A q \in inflight' : q.ep = "live"
    BY <2>2, <2>3, <2>4, <2>5 DEF SelInv, OfThePage
  <2>7. WorldInv' /\ ListInv' /\ TraceInv'
    BY <2>3, <2>6 DEF WorldInv, ListInv, TraceInv, Listing, Tracing
  <2>8. TraceIsTheSelected'
    BY <2>4 DEF SelInv, TraceIsTheSelected, trace
  <2> QED BY <2>6, <2>7, <2>8 DEF SelInv
<1> QED BY <1>1, <1>2, <1>3

LEMMA SelInductive == SelInv /\ [Next]_tabVars => SelInv'
<1> SUFFICES ASSUME SelInv, [Next]_tabVars PROVE SelInv'
  OBVIOUS
<1>1. CASE User
  <2>1. CASE \E p \in Page : Navigate(p)
    BY <2>1, NavigateKeeps
  <2>2. CASE \E id \in Windows : Select(id) /\ UNCHANGED fieldState
    BY <2>2, SelectKeeps
  <2>3. CASE \/ \E c \in Cadence : ChooseCadence(c) /\ UNCHANGED <<traceState, fieldState>>
             \/ \E i \in 0..MaxEvents : Scrub(i) /\ UNCHANGED fieldState
    <3>1. UNCHANGED <<page, world, inflight, data, bad, sel>>
      BY <2>3 DEF ChooseCadence, Scrub, reads, traceState
    <3> QED BY <3>1 DEF SelInv, OfThePage, WorldInv, ListInv, TraceInv, TraceIsTheSelected, trace
  <2> QED BY <1>1, <2>1, <2>2, <2>3 DEF User
<1>2. CASE Server
  BY <1>2, ServeKeeps, WorldKeeps DEF Server
<1>3. ASSUME NEW q \in inflight, Take(q)
      PROVE  SelInv'
  BY <1>3, TakeListKeeps, TakeTraceKeeps, OthersKeep
  DEF Take, TakeLive, TakeOther, traceState
<1>4. CASE PollOther \/ Tick
  BY <1>4, OthersKeep DEF PollOther, Tick, traceState
<1>5. CASE UNCHANGED tabVars
  <2>1. UNCHANGED <<page, world, inflight, data, bad, sel>>
    BY <1>5 DEF tabVars, reads, traceState
  <2> QED BY <2>1 DEF SelInv, OfThePage, WorldInv, ListInv, TraceInv, TraceIsTheSelected, trace
<1> QED BY <1>1, <1>2, <1>3, <1>4, <1>5 DEF Next

LEMMA SelStarts == Init => SelInv
<1> SUFFICES ASSUME Init PROVE SelInv
  OBVIOUS
<1>1. page = "field" /\ "field" \in Page
  BY DEF Init, Page
<1>2. OfThePage /\ WorldInv
  BY <1>1, MountingIs DEF Init, OfThePage, WorldInv, NoData
<1>3. ListInv
  BY <1>1, MountingIs DEF Init, ListInv, NoData, Endpoint, Listing, Tracing
<1>4. TraceInv /\ TraceIsTheSelected
  BY <1>1, MountingIs DEF Init, TraceInv, NoData, Endpoint, TraceIsTheSelected, trace
<1> QED BY <1>2, <1>3, <1>4 DEF SelInv

LEMMA SelHolds == Spec => []SelInv
BY SelStarts, SelInductive, PTL DEF Spec

\* The trace on the screen is that of the window the selector names, for any list,
\* any answers and any order of arrival (trace/page.tsx:34-43).
THEOREM TraceIsSelected == Spec => []TraceIsTheSelected
BY SelHolds, PTL DEF SelInv
-----------------------------------------------------------------------------
\* The sentence under the attribution is the truth about any totals whose net is
\* their edge plus their selection, and the "mixed" one is never printed
\* (ledger/page.tsx:190-237).
THEOREM ReadingIsSound ==
  ASSUME NEW t, t["Edge"] \in Int, t["Selection"] \in Int,
         t["Net"] = t["Edge"] + t["Selection"]
  PROVE  /\ Reading(t) = "the edge survived" <=> t["Edge"] > 0 /\ t["Net"] >= 0
         /\ Reading(t) = "right about price, wrong about outcome"
              <=> t["Edge"] > 0 /\ t["Net"] < 0
         /\ Reading(t) = "not below fair value" <=> t["Edge"] <= 0
         /\ Reading(t) # "mixed"
BY DEF Reading

\* A number on its way never leaves the interval between the value it shows and
\* the one it goes to, and gets there (Probability.tsx:94-124).
THEOREM NumberStaysBetween ==
  ASSUME NEW from \in 0..Whole, NEW to \in 0..Whole, NEW t \in 0..10
  PROVE  /\ Eased(from, to, t) >= 1000 * Smaller(from, to)
         /\ Eased(from, to, t) <= 1000 * Larger(from, to)
         /\ t = 10 => Eased(from, to, t) = 1000 * to
<1>1. Remaining(t) \in 0..1000 /\ (t = 10 => Remaining(t) = 0)
  BY DEF Remaining
<1> DEFINE part == 1000 - Remaining(t)
<1>2. part \in 0..1000 /\ (t = 10 => part = 1000)
  BY <1>1
<1> HIDE DEF part
<1>3. Eased(from, to, t) = 1000 * from + (to - from) * part
  BY DEF Eased, part
<1>4. CASE from <= to
  <2> DEFINE d == to - from
  <2>1. d \in Nat /\ to = from + d
    BY <1>4 DEF Whole
  <2>2. 0 <= d * part /\ d * part <= 1000 * d
    BY <1>2, <2>1
  <2> QED BY <1>2, <1>3, <1>4, <2>1, <2>2 DEF Smaller, Larger
<1>5. CASE ~(from <= to)
  <2> DEFINE d == from - to
  <2>1. d \in Nat /\ from = to + d
    BY <1>5 DEF Whole
  <2>2. 0 <= d * part /\ d * part <= 1000 * d /\ (to - from) * part = -(d * part)
    BY <1>2, <2>1
  <2> QED BY <1>2, <1>3, <1>5, <2>1, <2>2 DEF Smaller, Larger, Whole
<1> QED BY <1>4, <1>5
-----------------------------------------------------------------------------
(* The clock of the field page turns. *)

LEMMA Turns ==
  ASSUME NEW C \in Nat \ {0}, NEW x \in Int
  PROVE  x % C \in 0..C - 1 /\ (x - C) % C = x % C
<1> DEFINE q == x \div C
           r == x % C
           p == (x - C) \div C
           s == (x - C) % C
<1>1. q \in Int /\ p \in Int /\ r \in 0..C - 1 /\ s \in 0..C - 1
  OBVIOUS
<1>2. x = C * q + r /\ x - C = C * p + s
  OBVIOUS
<1> HIDE DEF q, r, p, s
<1>3. PICK d \in Int : d = q - 1 - p
  BY <1>1
<1>4. C * d = s - r
  BY <1>1, <1>2, <1>3
<1>5. d = 0
  <2>1. d >= 1 => C * d >= C
    OBVIOUS
  <2>2. d <= -1 => C * d <= -C
    OBVIOUS
  <2> QED BY <1>1, <1>4, <2>1, <2>2
<1> QED BY <1>1, <1>4, <1>5 DEF r, s
-----------------------------------------------------------------------------
(* The replay of one trace.                                                 *)

\* A timeline runs from the window's start to its expiry: every entry once, in time.
Timed(s, n) == DOMAIN s = 1..n /\ \A i \in 1..n : s[i].secsLeft \in Int
Timeline(s) == [i \in DOMAIN s |-> {j \in DOMAIN s : Ahead(s, j, i, Earlier)}]

LEMMA EarlierOrders ==
  ASSUME NEW n \in Nat, NEW s, Timed(s, n)
  PROVE  Orders(Timeline(s)) /\ DOMAIN Timeline(s) = 1..n
<1> DEFINE D == 1..n
           num == [i \in D |-> s[i].secsLeft]
           den == [i \in D |-> 1]
           a == Timeline(s)
<1>1. \A i \in D : num[i] \in Int /\ den[i] \in Int /\ den[i] > 0
  BY DEF Timed
<1>2. DOMAIN a = D /\ \A i \in D : a[i] \subseteq D
  BY DEF Timed, Timeline
<1>3. \A i, j \in D : i \in a[j] <=>
        (num[i] * den[j] > num[j] * den[i]) \/ (i < j /\ ~ (num[j] * den[i] > num[i] * den[j]))
  <2> SUFFICES ASSUME NEW i \in D, NEW j \in D
               PROVE  i \in a[j] <=> (num[i] * den[j] > num[j] * den[i])
                                       \/ (i < j /\ ~ (num[j] * den[i] > num[i] * den[j]))
    OBVIOUS
  <2>1. i \in a[j] <=> Ahead(s, i, j, Earlier)
    BY DEF Timeline, Timed
  <2>2. /\ s[i].secsLeft > s[j].secsLeft <=> num[i] * den[j] > num[j] * den[i]
        /\ s[j].secsLeft > s[i].secsLeft <=> num[j] * den[i] > num[i] * den[j]
    <3> DEFINE x == s[i].secsLeft
               y == s[j].secsLeft
    <3>1. x \in Int /\ y \in Int
      BY DEF Timed
    <3>2. num[i] = x /\ num[j] = y /\ den[i] = 1 /\ den[j] = 1
      OBVIOUS
    <3> HIDE DEF x, y, num, den
    <3>3. /\ x > y <=> num[i] * den[j] > num[j] * den[i]
          /\ y > x <=> num[j] * den[i] > num[i] * den[j]
      BY <3>1, <3>2
    <3> QED BY <3>3 DEF x, y
  <2> HIDE DEF a, num, den
  <2> QED BY <2>1, <2>2 DEF Ahead, Earlier
<1> HIDE DEF a, num, den
<1>4. Orders(a)
  <2>1. D \subseteq Int
    OBVIOUS
  <2> HIDE DEF D
  <2> QED BY <1>1, <1>2, <1>3, <2>1, FractionsOrder
<1> QED BY <1>2, <1>4 DEF a

LEMMA TimelineIs ==
  ASSUME NEW n \in Nat, NEW s, Timed(s, n)
  PROVE  LET place == InOrder(Timeline(s))
         IN  /\ Sorted(s, Earlier) = [k \in 1..n |-> s[place[k]]]
             /\ DOMAIN Sorted(s, Earlier) = 1..n /\ Len(Sorted(s, Earlier)) = n
             /\ place \in [1..n -> 1..n]
             /\ \A k, l \in 1..n : k # l => place[k] # place[l]
             /\ \A i \in 1..n : \E k \in 1..n : place[k] = i
             /\ \A k \in 1..n : Sorted(s, Earlier)[k].secsLeft \in Int
             /\ \A k \in 1..n : \A l \in 1..n : k < l =>
                  Sorted(s, Earlier)[k].secsLeft >= Sorted(s, Earlier)[l].secsLeft
<1> DEFINE a == Timeline(s)
           place == InOrder(a)
           e == Sorted(s, Earlier)
<1>1. Orders(a) /\ DOMAIN a = 1..n
  BY EarlierOrders
<1>2. e = Listed(s, a)
  BY DEF Sorted, Timeline
<1>3. \A i, j \in 1..n : i \in a[j] => s[i].secsLeft >= s[j].secsLeft
  <2> SUFFICES ASSUME NEW i \in 1..n, NEW j \in 1..n, i \in a[j]
               PROVE  s[i].secsLeft >= s[j].secsLeft
    OBVIOUS
  <2>1. Ahead(s, i, j, Earlier)
    BY DEF Timeline, Timed
  <2>2. s[i].secsLeft \in Int /\ s[j].secsLeft \in Int
    BY DEF Timed
  <2>3. s[i].secsLeft > s[j].secsLeft \/ ~ (s[j].secsLeft > s[i].secsLeft)
    BY <2>1 DEF Ahead, Earlier
  <2> QED BY <2>2, <2>3
<1> HIDE DEF a, e
<1>4. /\ place \in [1..n -> 1..n]
      /\ Listed(s, a) = [k \in 1..n |-> s[place[k]]]
      /\ \A k, l \in 1..n : k < l => place[k] \in a[place[l]]
      /\ \A k, l \in 1..n : k # l => place[k] # place[l]
      /\ \A i \in 1..n : \E k \in 1..n : place[k] = i
  BY <1>1, SortedIs DEF Timed
<1> HIDE DEF place
<1>5. e = [k \in 1..n |-> s[place[k]]]
  BY <1>2, <1>4
<1>6. DOMAIN e = 1..n /\ Len(e) = n
  BY <1>5
<1>7. ASSUME NEW k \in 1..n
      PROVE  e[k].secsLeft \in Int
  <2>1. e[k] = s[place[k]] /\ place[k] \in 1..n
    BY <1>4, <1>5
  <2> QED BY <2>1 DEF Timed
<1>8. ASSUME NEW k \in 1..n, NEW l \in 1..n, k < l
      PROVE  e[k].secsLeft >= e[l].secsLeft
  <2>1. place[k] \in a[place[l]] /\ place[k] \in 1..n /\ place[l] \in 1..n
    BY <1>4, <1>8
  <2>2. s[place[k]].secsLeft >= s[place[l]].secsLeft
    BY <1>3, <2>1
  <2> QED BY <1>5, <2>2
<1>9. /\ \A k \in 1..n : e[k].secsLeft \in Int
      /\ \A k \in 1..n : \A l \in 1..n : k < l => e[k].secsLeft >= e[l].secsLeft
  BY <1>7, <1>8
<1> QED BY <1>4, <1>5, <1>6, <1>9 DEF a, e, place

\* What has happened by some time is the beginning of a timeline.
Since(s, least) == Filtered(s, LAMBDA f : f.secsLeft >= least)

LEMMA SinceIs ==
  ASSUME NEW n \in Nat, NEW s, Timed(s, n), NEW least \in Int,
         \A k \in 1..n : \A l \in 1..n : k < l => s[k].secsLeft >= s[l].secsLeft
  PROVE  \E m \in 0..n : /\ Since(s, least) = [k \in 1..m |-> s[k]]
                         /\ \A k \in 1..n : k \in 1..m <=> s[k].secsLeft >= least
<1> DEFINE kept == {k \in 1..n : s[k].secsLeft >= least}
<1>1. \E m \in 0..n : kept = 1..m
  <2>1. kept \subseteq 1..n
    OBVIOUS
  <2>2. ASSUME NEW i \in 1..n, NEW j \in 1..n, j \in kept, i < j
        PROVE  i \in kept
    <3>1. s[i].secsLeft >= s[j].secsLeft /\ s[j].secsLeft >= least
      BY <2>2
    <3>2. s[i].secsLeft \in Int /\ s[j].secsLeft \in Int
      BY DEF Timed
    <3>3. s[i].secsLeft >= least
      BY <3>1, <3>2
    <3> QED BY <3>3
  <2> HIDE DEF kept
  <2>3. \A i, j \in 1..n : j \in kept /\ i < j => i \in kept
    BY <2>2
  <2> QED BY <2>1, <2>3, DownwardClosed
<1>2. Since(s, least) = Listed(s, Ascending(kept))
  BY DEF Since, Filtered, Ascending, Timed
<1>3. \A k \in 1..n : k \in kept <=> s[k].secsLeft >= least
  OBVIOUS
<1> HIDE DEF kept
<1>4. PICK m \in 0..n : kept = 1..m
  BY <1>1
<1>5. InOrder(Ascending(1..m)) = [k \in 1..m |-> k]
  BY PrefixInOrder
<1>6. Since(s, least) = [k \in 1..m |-> s[k]]
  BY <1>2, <1>4, <1>5 DEF Listed
<1> QED BY <1>3, <1>4, <1>6
LEMMA OrdersTimed ==
  ASSUME NEW t, WellFormed(t), Drawable(t)
  PROVE  /\ Len(t.orders) \in Nat /\ Timed(t.orders, Len(t.orders))
         /\ Len(Events(t)) = Len(t.orders)
         /\ \A k \in 1..Len(t.orders) : Events(t)[k].secsLeft \in Int
         /\ \A k \in 1..Len(t.orders) : \A l \in 1..Len(t.orders) : k < l =>
              Events(t)[k].secsLeft >= Events(t)[l].secsLeft
<1> DEFINE n == Len(t.orders)
<1>1. n \in Nat /\ Timed(t.orders, n)
  BY DEF WellFormed, Timed
<1> HIDE DEF n
<1>2. /\ Len(Sorted(t.orders, Earlier)) = n
      /\ \A k \in 1..n : Sorted(t.orders, Earlier)[k].secsLeft \in Int
      /\ \A k \in 1..n : \A l \in 1..n : k < l =>
           Sorted(t.orders, Earlier)[k].secsLeft >= Sorted(t.orders, Earlier)[l].secsLeft
  BY <1>1, TimelineIs
<1>3. Events(t) = Sorted(t.orders, Earlier)
  BY DEF Events
<1> HIDE DEF Events
<1> QED BY <1>1, <1>2, <1>3 DEF n

\* The fills of a trace as executions, in the order of the table.
Executed(t) == Map(LAMBDA f : ExecutionAt(t, f), t.fills)

LEMMA ExecutedAre ==
  ASSUME NEW t, WellFormed(t)
  PROVE  /\ Len(t.fills) \in Nat /\ Timed(Executed(t), Len(t.fills))
         /\ \A i \in 1..Len(t.fills) : /\ Executed(t)[i].price = t.fills[i].price
                                       /\ Executed(t)[i].quantity = t.fills[i].qty
                                       /\ t.fills[i].price \in Int /\ t.fills[i].qty \in Int
         /\ Executions(t) = Sorted(Executed(t), Earlier)
<1> DEFINE n == Len(t.fills)
<1>1. n \in Nat /\ DOMAIN t.fills = 1..n /\ t.expiry \in Int
      /\ \A i \in 1..n : t.fills[i].at \in Int /\ t.fills[i].price \in Int /\ t.fills[i].qty \in Int
  BY DEF WellFormed
<1> HIDE DEF n
<1>2. DOMAIN Executed(t) = 1..n /\ \A i \in 1..n : Executed(t)[i] = ExecutionAt(t, t.fills[i])
  BY <1>1 DEF Executed, Map
<1>3. ASSUME NEW i \in 1..n
      PROVE  Executed(t)[i].secsLeft \in Int
  BY <1>1, <1>2 DEF ExecutionAt
<1>4. \A i \in 1..n : /\ Executed(t)[i].price = t.fills[i].price
                      /\ Executed(t)[i].quantity = t.fills[i].qty
  BY <1>2 DEF ExecutionAt
<1>5. Timed(Executed(t), n)
  BY <1>2, <1>3 DEF Timed
<1>6. Executions(t) = Sorted(Executed(t), Earlier)
  BY DEF Executions, Executed
<1> HIDE DEF Executions, Executed
<1> QED BY <1>1, <1>4, <1>5, <1>6 DEF n

\* What was committed to all the executions is what the fills cost, in whatever order.
LEMMA CommittedIsCost ==
  ASSUME NEW t, WellFormed(t)
  PROVE  Total("cost", Map(LAMBDA f : [cost |-> f.price * f.quantity], Executions(t)))
           = Attribution(t).Cost
<1> DEFINE n == Len(t.fills)
           s == Executed(t)
           e == Executions(t)
           place == InOrder(Timeline(s))
           g == [i \in 1..n |-> t.fills[i].price * t.fills[i].qty]
<1>1. /\ n \in Nat /\ Timed(s, n) /\ e = Sorted(s, Earlier)
      /\ \A i \in 1..n : /\ s[i].price = t.fills[i].price /\ s[i].quantity = t.fills[i].qty
                         /\ t.fills[i].price \in Int /\ t.fills[i].qty \in Int
  BY ExecutedAre
<1>2. DOMAIN t.fills = 1..n
  BY DEF WellFormed
<1> HIDE DEF n, s, e
<1>3. /\ Sorted(s, Earlier) = [k \in 1..n |-> s[place[k]]]
      /\ place \in [1..n -> 1..n]
      /\ \A k, l \in 1..n : k # l => place[k] # place[l]
      /\ \A i \in 1..n : \E k \in 1..n : place[k] = i
  <2>1. n \in Nat /\ Timed(s, n)
    BY <1>1
  <2> QED BY <2>1, TimelineIs
<1> HIDE DEF place
<1>4. e = [k \in 1..n |-> s[place[k]]]
  BY <1>1, <1>3
<1>5. \A i \in 1..n : g[i] \in Int
  BY <1>1
<1>6. Attribution(t).Cost = SumFunctionOnSet(g, 1..n)
  <2> DEFINE parts == Map(LAMBDA f : Part(t, f), t.fills)
  <2>1. DOMAIN parts = 1..n /\ \A i \in 1..n : parts[i].Cost = t.fills[i].price * t.fills[i].qty
    BY <1>2 DEF Map, Part
  <2>2. Attribution(t).Cost = Total("Cost", parts)
    BY DEF Attribution
  <2> HIDE DEF parts
  <2>3. Total("Cost", parts) = SumFunctionOnSet([i \in 1..n |-> parts[i].Cost], 1..n)
    BY <2>1 DEF Total, TotalOf
  <2>4. [i \in 1..n |-> parts[i].Cost] = g
    BY <2>1
  <2> HIDE DEF g
  <2> QED BY <2>2, <2>3, <2>4
<1>7. Total("cost", Map(LAMBDA f : [cost |-> f.price * f.quantity], e))
        = SumFunctionOnSet([k \in 1..n |-> g[place[k]]], 1..n)
  <2> DEFINE paid == Map(LAMBDA f : [cost |-> f.price * f.quantity], e)
  <2>1. DOMAIN paid = 1..n /\ \A k \in 1..n : paid[k].cost = e[k].price * e[k].quantity
    BY <1>4 DEF Map
  <2>2. \A k \in 1..n : paid[k].cost = g[place[k]]
    <3> SUFFICES ASSUME NEW k \in 1..n PROVE paid[k].cost = g[place[k]]
      OBVIOUS
    <3>1. place[k] \in 1..n /\ e[k] = s[place[k]]
      BY <1>4, <1>3
    <3>2. paid[k].cost = e[k].price * e[k].quantity
      BY <2>1
    <3>3. g[place[k]] = t.fills[place[k]].price * t.fills[place[k]].qty
      BY <3>1
    <3>4. e[k].price = t.fills[place[k]].price /\ e[k].quantity = t.fills[place[k]].qty
      BY <1>1, <3>1
    <3> QED BY <3>2, <3>3, <3>4
  <2> HIDE DEF paid, g
  <2>3. Total("cost", paid) = SumFunctionOnSet([k \in 1..n |-> paid[k].cost], 1..n)
    BY <2>1 DEF Total, TotalOf
  <2>4. [k \in 1..n |-> paid[k].cost] = [k \in 1..n |-> g[place[k]]]
    BY <2>2
  <2> QED BY <2>3, <2>4 DEF paid
<1> DEFINE f == [k \in 1..n |-> g[place[k]]]
<1>8. \A k \in 1..n : f[k] = g[place[k]] /\ f[k] \in Int
  <2>1. \A k \in 1..n : place[k] \in 1..n
    BY <1>3
  <2> HIDE DEF g
  <2> QED BY <1>5, <2>1
<1>9. {place[k] : k \in 1..n} = 1..n
  BY <1>3
<1>10. IsFiniteSet(1..n)
  BY <1>1, FS_Interval
<1>11. SumFunctionOnSet(f, 1..n) = SumFunctionOnSet(g, {place[k] : k \in 1..n})
  <2> DEFINE S == 1..n
  <2>1. IsFiniteSet(S) /\ (\A k \in S : f[k] = g[place[k]]) /\ (\A k \in S : f[k] \in Int)
        /\ \A k, l \in S : k # l => place[k] # place[l]
    BY <1>8, <1>10, <1>3
  <2> HIDE DEF S, f, g
  <2>2. SumFunctionOnSet(f, S) = SumFunctionOnSet(g, {place[k] : k \in S})
    BY <2>1, SumRenamed
  <2> QED BY <2>2 DEF S
<1> HIDE DEF g
<1> QED BY <1>6, <1>7, <1>9, <1>11 DEF e

\* The executions at each scrub position are the beginning of those at settlement.
LEMMA FilledIs ==
  ASSUME NEW t, WellFormed(t), Drawable(t), NEW i \in 0..Len(t.orders)
  PROVE  \E m \in 0..Len(t.fills) :
           /\ Filled(t, i) = [k \in 1..m |-> Executions(t)[k]]
           /\ i = Len(t.orders) => m = Len(t.fills)
           /\ i < Len(t.orders) => \A k \in 1..Len(t.fills) :
                k \in 1..m <=> Executions(t)[k].secsLeft >= Current(t, i).secsLeft
<1> DEFINE n == Len(t.fills)
           e == Executions(t)
           last == Len(t.orders)
           now1 == Current(t, i).secsLeft
<1>1. n \in Nat /\ Timed(Executed(t), n) /\ e = Sorted(Executed(t), Earlier)
  BY ExecutedAre
<1>2. last \in Nat /\ Len(Events(t)) = last /\ \A k \in 1..last : Events(t)[k].secsLeft \in Int
  BY OrdersTimed
<1>3. i \in 0..last
  OBVIOUS
<1>4. Filled(t, i) = IF i >= last THEN e ELSE Since(e, now1)
  BY <1>2 DEF Filled, AtEnd, Since
<1>5. i < last => now1 \in Int
  BY <1>2, <1>3 DEF Current
<1> HIDE DEF n, e, last, now1
<1>6. /\ DOMAIN e = 1..n
      /\ e = [k \in 1..n |-> e[k]]
      /\ \A k \in 1..n : e[k].secsLeft \in Int
      /\ \A k \in 1..n : \A l \in 1..n : k < l => e[k].secsLeft >= e[l].secsLeft
  <2> DEFINE d == Sorted(Executed(t), Earlier)
             place == InOrder(Timeline(Executed(t)))
  <2>1. /\ d = [k \in 1..n |-> Executed(t)[place[k]]]
        /\ \A k \in 1..n : d[k].secsLeft \in Int
        /\ \A k \in 1..n : \A l \in 1..n : k < l => d[k].secsLeft >= d[l].secsLeft
    BY <1>1, TimelineIs
  <2>2. e = d
    BY <1>1
  <2> HIDE DEF d, place
  <2> QED BY <2>1, <2>2
<1>7. Timed(e, n)
  BY <1>6 DEF Timed
<1>8. CASE i < last
  <2>1. PICK m \in 0..n : /\ Since(e, now1) = [k \in 1..m |-> e[k]]
                          /\ \A k \in 1..n : k \in 1..m <=> e[k].secsLeft >= now1
    <3>1. n \in Nat /\ Timed(e, n) /\ now1 \in Int
      BY <1>1, <1>5, <1>7, <1>8
    <3>2. \A k \in 1..n : \A l \in 1..n : k < l => e[k].secsLeft >= e[l].secsLeft
      BY <1>6
    <3> QED BY <3>1, <3>2, SinceIs
  <2>2. Filled(t, i) = [k \in 1..m |-> e[k]] /\ ~ (i = last)
    BY <1>2, <1>3, <1>4, <1>8, <2>1
  <2> QED BY <2>1, <2>2 DEF n, e, last, now1
<1>9. CASE ~ (i < last)
  <2>1. i = last /\ i >= last
    BY <1>2, <1>3, <1>9
  <2>2. Filled(t, i) = [k \in 1..n |-> e[k]]
    BY <1>4, <1>6, <2>1
  <2>3. n \in 0..n
    BY <1>1
  <2> QED BY <1>9, <2>1, <2>2, <2>3 DEF n, e, last
<1> QED BY <1>8, <1>9

\* Two beginnings of a list: the shorter is a prefix of the longer.
LEMMA PrefixOfLonger ==
  ASSUME NEW e, NEW n \in Nat, NEW m \in 0..n
  PROVE  IsPrefix([k \in 1..m |-> e[k]], [k \in 1..n |-> e[k]])
<1> DEFINE s == [k \in 1..m |-> e[k]]
           u == [k \in 1..n |-> e[k]]
<1>1. Len(s) = m /\ Len(u) = n
  OBVIOUS
<1>2. SubSeq(u, 1, Len(s)) = s
  BY <1>1
<1>3. Len(s) <= Len(u)
  BY <1>1
<1> HIDE DEF s, u
<1> QED BY <1>2, <1>3 DEF IsPrefix, s, u

LEMMA ReplayOf ==
  ASSUME NEW t, WellFormed(t), Drawable(t)
  PROVE  LET last == Len(Events(t))
         IN  /\ \A i \in 0..last - 1 : IsPrefix(Filled(t, i), Filled(t, i + 1))
             /\ \A i \in 0..last - 1 : \A f \in ToSet(Filled(t, i)) :
                  f.secsLeft >= Current(t, i).secsLeft
             /\ Running(t, last).fills = Running(t, last).of
             /\ Running(t, last).committed = t.attribution.Cost
<1> DEFINE n == Len(t.fills)
           last == Len(t.orders)
           e == Executions(t)
<1>1. n \in Nat /\ last \in Nat /\ Len(Events(t)) = last
  BY OrdersTimed, ExecutedAre
<1>2. \A k \in 1..n : e[k].secsLeft \in Int
  <2>1. n \in Nat /\ Timed(Executed(t), n) /\ e = Sorted(Executed(t), Earlier)
    BY ExecutedAre
  <2> DEFINE d == Sorted(Executed(t), Earlier)
  <2> HIDE DEF n, e
  <2>2. \A k \in 1..n : d[k].secsLeft \in Int
    BY <2>1, TimelineIs
  <2> QED BY <2>1, <2>2
<1>3. \A k \in 1..last : Events(t)[k].secsLeft \in Int
  BY OrdersTimed
<1>4. \A k \in 1..last : \A l \in 1..last : k < l => Events(t)[k].secsLeft >= Events(t)[l].secsLeft
  BY OrdersTimed
<1> HIDE DEF n, last, e
<1>5. ASSUME NEW i \in 0..last
      PROVE  \E m \in 0..n :
               /\ Filled(t, i) = [k \in 1..m |-> e[k]]
               /\ i = last => m = n
               /\ i < last => \A k \in 1..n :
                    k \in 1..m <=> e[k].secsLeft >= Current(t, i).secsLeft
  BY FilledIs DEF n, last, e
<1>6. ASSUME NEW i \in 0..last - 1
      PROVE  /\ IsPrefix(Filled(t, i), Filled(t, i + 1))
             /\ \A f \in ToSet(Filled(t, i)) : f.secsLeft >= Current(t, i).secsLeft
  <2>1. i \in 0..last /\ i + 1 \in 0..last /\ i < last /\ i + 1 \in 1..last
    BY <1>1
  <2>2. PICK m \in 0..n : /\ Filled(t, i) = [k \in 1..m |-> e[k]]
                          /\ \A k \in 1..n : k \in 1..m <=> e[k].secsLeft >= Current(t, i).secsLeft
    BY <1>5, <2>1
  <2>3. PICK l \in 0..n : /\ Filled(t, i + 1) = [k \in 1..l |-> e[k]]
                          /\ i + 1 = last => l = n
                          /\ i + 1 < last => \A k \in 1..n :
                               k \in 1..l <=> e[k].secsLeft >= Current(t, i + 1).secsLeft
    BY <1>5, <2>1
  <2>4. m \in 0..l
    <3>1. CASE i + 1 = last
      BY <1>1, <2>3, <3>1
    <3>2. CASE i + 1 < last
      <4> DEFINE x == Current(t, i).secsLeft
                 y == Current(t, i + 1).secsLeft
      <4>1. x \in Int /\ y \in Int /\ x >= y
        <5>1. i + 1 \in 1..last /\ i + 2 \in 1..last /\ i + 1 < i + 2 /\ (i + 1) + 1 = i + 2
          BY <1>1, <2>1, <3>2
        <5>2. Events(t)[i + 1].secsLeft >= Events(t)[i + 2].secsLeft
          BY <1>4, <5>1
        <5> QED BY <1>3, <5>1, <5>2 DEF Current
      <4>2. \A k \in 1..n : k \in 1..l <=> e[k].secsLeft >= y
        BY <2>3, <3>2
      <4> HIDE DEF x, y
      <4>3. ASSUME m > 0
            PROVE  m \in 1..l
        <5>1. m \in 1..n /\ m \in 1..m
          BY <1>1, <4>3
        <5>2. e[m].secsLeft >= x
          BY <2>2, <5>1 DEF x
        <5>3. e[m].secsLeft >= y
          BY <1>2, <4>1, <5>1, <5>2
        <5> QED BY <4>2, <5>1, <5>3
      <4> QED BY <1>1, <4>3
    <3> QED BY <1>1, <2>1, <3>1, <3>2
  <2>5. IsPrefix(Filled(t, i), Filled(t, i + 1))
    <3>1. l \in Nat
      BY <1>1
    <3>2. IsPrefix([k \in 1..m |-> e[k]], [k \in 1..l |-> e[k]])
      BY <2>4, <3>1, PrefixOfLonger
    <3> QED BY <2>2, <2>3, <3>2
  <2>6. ASSUME NEW f \in ToSet(Filled(t, i))
        PROVE  f.secsLeft >= Current(t, i).secsLeft
    <3>1. DOMAIN Filled(t, i) = 1..m
      BY <2>2
    <3>2. PICK k \in 1..m : f = Filled(t, i)[k]
      BY <3>1 DEF ToSet
    <3>3. f = e[k] /\ k \in 1..n
      BY <1>1, <2>2, <3>2
    <3> QED BY <2>2, <3>3
  <2> QED BY <2>5, <2>6
<1>7. Filled(t, last) = e /\ Len(e) = n
  <2>1. Len(Sorted(Executed(t), Earlier)) = n
    BY ExecutedAre, TimelineIs DEF n
  <2>2. e = Sorted(Executed(t), Earlier)
    BY ExecutedAre DEF e
  <2>3. Filled(t, last) = e
    BY <1>1 DEF Filled, AtEnd, e
  <2> QED BY <2>1, <2>2, <2>3
<1>8. Running(t, last).fills = Running(t, last).of
  BY <1>7 DEF Running, n
<1>9. Running(t, last).committed = t.attribution.Cost
  <2>1. Running(t, last).committed =
          Total("cost", Map(LAMBDA f : [cost |-> f.price * f.quantity], Executions(t)))
    BY <1>7 DEF Running, e
  <2>2. t.attribution = Attribution(t)
    BY DEF WellFormed
  <2> QED BY <2>1, <2>2, CommittedIsCost
<1> QED BY <1>1, <1>6, <1>8, <1>9

LEMMA EventsCounted ==
  ASSUME NEW t, WellFormed(t), Drawable(t)
  PROVE  Len(Events(t)) \in Nat
BY OrdersTimed
-----------------------------------------------------------------------------
(* Type correctness: requests in their slots, and the scrub position.       *)

\* Every request has a slot of its own.
SlotsInv ==
  /\ \A q \in inflight : q.ep \in EndpointsOf(page) /\ q.n \in 1..Overlap[q.ep] /\ q.at \in Answered
  /\ \A q, r \in inflight : q.ep = r.ep /\ q.n = r.n => q = r
\* Everything but the requests and the scrub position.
FrameInv ==
  /\ page \in Page /\ down \subseteq EndpointsOf(page) /\ bad \subseteq EndpointsOf(page)
  /\ DOMAIN world = EndpointsOf(page) /\ DOMAIN data = Endpoint
  /\ now \in 0..Cycle - 1 /\ crashed \in BOOLEAN
\* What can be replayed, and where the replay stands.
ReplayInv ==
  /\ page = "trace" => \A id \in Windows : WellFormed(world["trace"][id])
  /\ page # "trace" => data["trace"] = Nothing
  /\ \A q \in inflight : Tracing(q) /\ q.at = "ok" => WellFormed(q.body)
  /\ idx \in Nat
  /\ Displayed => idx \in 0..Len(Events(trace)) /\ Drawable(trace) /\ WellFormed(trace)
TypeInv == SlotsInv /\ FrameInv /\ ReplayInv

LEMMA EndpointsAreFew ==
  ASSUME NEW p \in Page
  PROVE  /\ EndpointsOf(p) \subseteq Endpoint
         /\ Polled(p) \cup Once(p) \subseteq EndpointsOf(p)
         /\ EndpointsOf("field") = {"live"} /\ "live" \notin EndpointsOf("trace")
         /\ p # "field" => "live" \notin EndpointsOf(p)
BY DEF Page, Polled, Once, EndpointsOf, Endpoint

\* A request goes out in a free slot.
LEMMA RequestInFreeSlot ==
  ASSUME NEW reqs, NEW ep, NEW arg, Free(reqs, ep) # {}
  PROVE  /\ Request(reqs, ep, arg).n \in 1..Overlap[ep]
         /\ \A q \in reqs : q.ep = ep => q.n # Request(reqs, ep, arg).n
<1>1. Request(reqs, ep, arg).n \in Free(reqs, ep)
  BY DEF Request
<1> QED BY <1>1 DEF Free

LEMMA SlotsAreFree ==
  ASSUME NEW reqs, NEW ep \in Endpoint, \A q \in reqs : q.ep # ep
  PROVE  Free(reqs, ep) # {}
<1>1. 1 \in 1..Overlap[ep]
  BY ReadsAssumption
<1> QED BY <1>1 DEF Free

\* What leaves together has slots of its own.
LEMMA SentInSlots ==
  ASSUME NEW reqs, NEW eps, NEW p, eps \subseteq EndpointsOf(p),
         \A ep \in eps : Free(reqs, ep) # {},
         \A q \in reqs : q.ep \in EndpointsOf(p) /\ q.n \in 1..Overlap[q.ep] /\ q.at \in Answered,
         \A q, r \in reqs : q.ep = r.ep /\ q.n = r.n => q = r
  PROVE  /\ \A q \in Sent(reqs, eps) :
              q.ep \in EndpointsOf(p) /\ q.n \in 1..Overlap[q.ep] /\ q.at \in Answered
         /\ \A q, r \in Sent(reqs, eps) : q.ep = r.ep /\ q.n = r.n => q = r
<1>1. \A q \in Sent(reqs, eps) :
        q \in reqs \/ (q.ep \in eps /\ q = Request(reqs, q.ep, Nothing))
  BY RequestIs DEF Sent
<1>2. \A ep \in eps : LET new == Request(reqs, ep, Nothing)
                      IN  /\ new.ep = ep /\ new.at = "sent" /\ new.n \in 1..Overlap[ep]
                          /\ \A q \in reqs : q.ep = ep => q.n # new.n
  BY RequestIs, RequestInFreeSlot
<1> QED BY <1>1, <1>2 DEF Answered
-----------------------------------------------------------------------------
LEMMA TypeStarts == Init => TypeInv
<1> SUFFICES ASSUME Init PROVE TypeInv
  OBVIOUS
<1>1. page = "field" /\ page \in Page
  BY DEF Init, Page
<1>2. FrameInv
  <2>1. 0 \in 0..Cycle - 1
    BY FieldAssumption
  <2>2. now = 0 /\ down = {} /\ bad = {} /\ crashed = FALSE /\ data = NoData
        /\ DOMAIN world = EndpointsOf(page)
    BY <1>1 DEF Init
  <2> QED BY <1>1, <2>1, <2>2 DEF FrameInv, NoData
<1>3. SlotsInv
  <2>1. \A ep \in Polled("field") \cup Once("field") : Free({}, ep) # {}
    BY <1>1, SlotsAreFree, EndpointsAreFew
  <2> QED BY <1>1, <2>1, SentInSlots, EndpointsAreFew DEF Init, SlotsInv, Mounting
<1>4. ReplayInv
  BY <1>1, MountingIs DEF Init, ReplayInv, NoData, Endpoint, Displayed, trace
<1> QED BY <1>2, <1>3, <1>4 DEF TypeInv

LEMMA SlotsInductive == TypeInv /\ SelInv /\ [Next]_tabVars => SlotsInv'
<1> SUFFICES ASSUME TypeInv, SelInv, [Next]_tabVars PROVE SlotsInv'
  OBVIOUS
<1> USE DEF TypeInv
\* Fewer requests of the same page are as well placed.
<1>1. ASSUME page' = page, \A q \in inflight' : q \in inflight
      PROVE  SlotsInv'
  BY <1>1 DEF SlotsInv
<1>2. ASSUME NEW p \in Page, Navigate(p) PROVE SlotsInv'
  <2>1. \A ep \in Polled(p) \cup Once(p) : Free({}, ep) # {}
    BY SlotsAreFree, EndpointsAreFew
  <2> QED BY <1>2, <2>1, SentInSlots, EndpointsAreFew DEF Navigate, SlotsInv, Mounting
\* One more, for a trace, when no other is out.
<1>3. ASSUME page' = page, "trace" \in EndpointsOf(page),
             NEW reqs \in SUBSET inflight, NEW id, \A q \in reqs : q.ep # "trace",
             inflight' = reqs \cup {Request(reqs, "trace", id)}
      PROVE  SlotsInv'
  <2> DEFINE new == Request(reqs, "trace", id)
  <2>1. new.ep = "trace" /\ new.at = "sent"
    BY RequestIs
  <2>2. Free(reqs, "trace") # {}
    BY <1>3, SlotsAreFree DEF Endpoint
  <2>3. new.n \in 1..Overlap["trace"]
    BY <2>2, RequestInFreeSlot
  <2> HIDE DEF new
  <2>4. inflight' = reqs \cup {new}
    BY <1>3 DEF new
  <2> QED BY <1>3, <2>1, <2>3, <2>4 DEF SlotsInv, Answered
<1>4. ASSUME NEW id \in Windows, Select(id) PROVE SlotsInv'
  <2>1. page = "trace" /\ page' = page /\ inflight' = ReadTrace(id)
    BY <1>4 DEF Select
  <2> DEFINE others == {q \in inflight : q.ep # "trace"}
  <2>2. inflight' = others \cup {Request(others, "trace", id)}
    BY <2>1 DEF ReadTrace
  <2>3. others \in SUBSET inflight /\ \A q \in others : q.ep # "trace"
    OBVIOUS
  <2>4. "trace" \in EndpointsOf(page)
    BY <2>1 DEF EndpointsOf
  <2> HIDE DEF others
  <2> QED BY <1>3, <2>1, <2>2, <2>3, <2>4
<1>5. ASSUME NEW q \in inflight, TakeList(q) PROVE SlotsInv'
  <2>1. page' = page /\ q.ep = "traces" /\ page = "trace"
    BY <1>5, TraceEndpoints DEF TakeList, TakeIn, SlotsInv, FrameInv
  <2>2. CASE q.at = "ok" /\ q.body # <<>>
    <3> DEFINE others == inflight \ {q}
    <3>1. \A r \in others : r.ep # "trace"
      BY <2>1 DEF SelInv, ListInv, Listing, Tracing
    <3>2. inflight' = others \cup {Request(others, "trace", q.body[1])}
      BY <1>5, <2>2 DEF TakeList
    <3>3. "trace" \in EndpointsOf(page) /\ others \in SUBSET inflight
      BY <2>1 DEF EndpointsOf
    <3> HIDE DEF others
    <3> QED BY <1>3, <2>1, <3>1, <3>2, <3>3
  <2>3. CASE ~(q.at = "ok" /\ q.body # <<>>)
    BY <1>1, <1>5, <2>1, <2>3 DEF TakeList
  <2> QED BY <2>2, <2>3
<1>6. ASSUME NEW q \in inflight, Serve(q) PROVE SlotsInv'
  <2> DEFINE a == Served(q)
  <2>1. a.ep = q.ep /\ a.n = q.n /\ a.at \in Answered
    BY DEF Served, Answered
  <2>2. inflight' = (inflight \ {q}) \cup {a} /\ page' = page
    BY <1>6 DEF Serve
  <2> HIDE DEF a
  <2> QED BY <2>1, <2>2 DEF SlotsInv
<1>7. ASSUME Poll PROVE SlotsInv'
  BY <1>7, SentInSlots, EndpointsAreFew DEF Poll, CanSend, SlotsInv, FrameInv
<1>8. ASSUME Tick PROVE SlotsInv'
  <2> DEFINE old == {OlderRequest(q) : q \in inflight}
  <2>1. \A q \in inflight : /\ OlderRequest(q).ep = q.ep /\ OlderRequest(q).n = q.n
                            /\ OlderRequest(q).at = q.at
    BY DEF OlderRequest
  <2>2. page = "field" /\ page' = page /\ inflight' = Sent(old, {"live"})
    BY <1>8 DEF Tick
  <2>3. Free(old, "live") = Free(inflight, "live")
    BY <2>1 DEF Free
  <2>4. Free(old, "live") # {}
    BY <1>8, <2>3 DEF Tick, CanSend
  <2>5. \A q \in old : q.ep \in EndpointsOf(page) /\ q.n \in 1..Overlap[q.ep] /\ q.at \in Answered
    BY <2>1 DEF SlotsInv
  <2>6. \A q, r \in old : q.ep = r.ep /\ q.n = r.n => q = r
    BY <2>1 DEF SlotsInv
  <2>7. {"live"} \subseteq EndpointsOf(page)
    BY <2>2 DEF EndpointsOf, Polled
  <2> HIDE DEF old
  <2> QED BY <2>2, <2>4, <2>5, <2>6, <2>7, SentInSlots DEF SlotsInv
<1>9. CASE User
  <2>1. CASE \/ \E c \in Cadence : ChooseCadence(c) /\ UNCHANGED <<traceState, fieldState>>
             \/ \E i \in 0..MaxEvents : Scrub(i) /\ UNCHANGED fieldState
    BY <1>1, <2>1 DEF ChooseCadence, Scrub, reads
  <2> QED BY <1>2, <1>4, <1>9, <2>1 DEF User
<1>10. CASE Server
  BY <1>1, <1>6, <1>10 DEF Server, Break, Mend, Change
<1>11. ASSUME NEW q \in inflight, Take(q) PROVE SlotsInv'
  <2>1. CASE TakeLive(q) \/ TakeTrace(q) \/ TakeOther(q)
    BY <1>1, <2>1 DEF TakeLive, TakeTrace, TakeOther, TakeIn
  <2> QED BY <1>5, <1>11, <2>1 DEF Take
<1>12. CASE UNCHANGED tabVars
  BY <1>1, <1>12 DEF tabVars, reads
<1> QED BY <1>7, <1>8, <1>9, <1>10, <1>11, <1>12 DEF Next, PollOther

LEMMA FrameInductive == TypeInv /\ [Next]_tabVars => FrameInv'
<1> SUFFICES ASSUME FrameInv, SlotsInv, [Next]_tabVars PROVE FrameInv'
  BY DEF TypeInv
<1>1. ASSUME UNCHANGED <<page, down, world, now, crashed>>, bad' = bad, DOMAIN data' = Endpoint
      PROVE  FrameInv'
  BY <1>1 DEF FrameInv
<1>2. ASSUME NEW p \in Page, Navigate(p) PROVE FrameInv'
  <2>1. now' \in 0..Cycle - 1
    BY <1>2, FieldAssumption DEF Navigate
  <2>2. page' = p /\ down' = {} /\ bad' = {} /\ crashed' = FALSE /\ data' = NoData
        /\ DOMAIN world' = EndpointsOf(p)
    BY <1>2 DEF Navigate
  <2> QED BY <2>1, <2>2 DEF FrameInv, NoData
<1>3. ASSUME NEW q \in inflight, Take(q) PROVE FrameInv'
  <2>1. TakeIn(q) /\ now' = now
    BY <1>3 DEF Take, TakeLive, TakeOther, TakeList, TakeTrace, fieldState
  <2>2. page' = page /\ world' = world /\ down' = down
    BY <2>1 DEF TakeIn
  <2>3. DOMAIN data' = Endpoint
    BY <2>1 DEF TakeIn, DataAfter, FrameInv
  <2>4. bad' \subseteq EndpointsOf(page)
    BY <2>1 DEF TakeIn, BadAfter, SlotsInv, FrameInv
  <2>5. crashed' \in BOOLEAN
    BY <1>3 DEF Take, TakeLive, TakeOther, TakeList, TakeTrace, traceState, FrameInv
  <2> QED BY <2>1, <2>2, <2>3, <2>4, <2>5 DEF FrameInv
<1>4. ASSUME Tick PROVE FrameInv'
  <2>1. now' \in 0..Cycle - 1
    BY <1>4, FieldAssumption, Turns DEF Tick, FrameInv
  <2>2. page' = page /\ down' = down /\ bad' = bad /\ crashed' = crashed
        /\ DOMAIN world' = DOMAIN world /\ DOMAIN data' = DOMAIN data
    BY <1>4 DEF Tick, traceState
  <2> QED BY <2>1, <2>2 DEF FrameInv
<1>5. ASSUME PollOther \/ UNCHANGED tabVars PROVE FrameInv'
  BY <1>1, <1>5 DEF PollOther, Poll, tabVars, reads, traceState, fieldState, FrameInv
<1>6. CASE User
  <2>1. ASSUME NEW id \in Windows, Select(id), UNCHANGED fieldState PROVE FrameInv'
    <3>1. DOMAIN data' = Endpoint
      BY <2>1 DEF Select, FrameInv
    <3> QED BY <1>1, <2>1, <3>1 DEF Select, fieldState
  <2>2. ASSUME NEW i \in 0..MaxEvents, Scrub(i), UNCHANGED fieldState PROVE FrameInv'
    BY <1>1, <2>2 DEF Scrub, reads, fieldState, FrameInv
  <2>3. ASSUME NEW c \in Cadence, ChooseCadence(c), UNCHANGED <<traceState, fieldState>>
        PROVE  FrameInv'
    BY <1>1, <2>3 DEF ChooseCadence, reads, traceState, fieldState, FrameInv
  <2> QED BY <1>2, <1>6, <2>1, <2>2, <2>3 DEF User
<1>7. CASE Server
  <2>1. now' = now /\ crashed' = crashed
    BY <1>7 DEF Server, traceState, fieldState
  <2>2. page' = page /\ bad' = bad /\ data' = data
    BY <1>7 DEF Server, Serve, Break, Mend, Change
  <2>3. down' \subseteq EndpointsOf(page) /\ DOMAIN world' = DOMAIN world
    BY <1>7 DEF Server, Serve, Break, Mend, Change, FrameInv
  <2> QED BY <2>1, <2>2, <2>3 DEF FrameInv
<1> QED BY <1>3, <1>4, <1>5, <1>6, <1>7 DEF Next

\* What is on the screen of the trace page and what was read for it stay as they are.
LEMMA ReplayUntouched ==
  ASSUME ReplayInv, page' = page, \A q \in inflight' : Tracing(q) => q \in inflight,
         page = "trace" => UNCHANGED <<world, bad>>,
         data'["trace"] = data["trace"], data'["traces"] = data["traces"],
         UNCHANGED <<idx, crashed>>
  PROVE  ReplayInv'
<1>1. CASE page = "trace"
  BY <1>1 DEF ReplayInv, Displayed, SelectorShown, trace, ids
<1>2. CASE page # "trace"
  BY <1>2 DEF ReplayInv, Displayed, trace
<1> QED BY <1>1, <1>2

LEMMA ReplayInductive == TypeInv /\ SelInv /\ [Next]_tabVars => ReplayInv'
<1> SUFFICES ASSUME TypeInv, SelInv, [Next]_tabVars PROVE ReplayInv'
  OBVIOUS
<1>1. ReplayInv /\ FrameInv /\ SlotsInv
  BY DEF TypeInv
<1>2. ASSUME NEW p \in Page, Navigate(p) PROVE ReplayInv'
  <2>1. p = "trace" => \A id \in Windows : WellFormed(world'["trace"][id])
    BY <1>2, TracesAssumption, TraceEndpoints DEF Navigate
  <2>2. \A q \in inflight' : ~Tracing(q)
    BY <1>2, MountingIs DEF Navigate
  <2>3. page' = p /\ idx' = 0 /\ data' = NoData
    BY <1>2 DEF Navigate
  <2>4. data'["trace"] = Nothing /\ ~Displayed'
    BY <2>3 DEF NoData, Endpoint, Displayed, trace
  <2> QED BY <2>1, <2>2, <2>3, <2>4 DEF ReplayInv
<1>3. ASSUME NEW id \in Windows, Select(id) PROVE ReplayInv'
  <2>1. UNCHANGED <<page, world, idx>> /\ data'["trace"] = Nothing
    BY <1>1, <1>3 DEF Select, FrameInv, Endpoint
  <2>2. \A q \in inflight' : Tracing(q) => q.at = "sent"
    BY <1>3, RequestIs DEF Select, ReadTrace, Tracing
  <2>3. ~Displayed'
    BY <2>1 DEF Displayed, trace
  <2> QED BY <1>1, <2>1, <2>2, <2>3 DEF ReplayInv
<1>4. ASSUME NEW i \in 0..MaxEvents, Scrub(i) PROVE ReplayInv'
  <2>1. UNCHANGED <<page, world, inflight, data, bad, crashed>> /\ idx' = i /\ Displayed
    BY <1>4 DEF Scrub, reads
  <2> DEFINE n == Len(Events(trace))
  <2>2. n \in Nat /\ idx \in 0..n
    BY <1>1, <2>1, EventsCounted DEF ReplayInv
  <2>3. i \in KeySteps(idx, n) \cup 0..n
    BY <1>4 DEF Scrub
  <2> HIDE DEF n
  <2>4. i \in 0..n /\ i \in Nat
    BY <2>2, <2>3 DEF KeySteps
  <2>5. trace' = trace
    BY <2>1 DEF trace
  <2>6. idx' \in 0..Len(Events(trace')) /\ idx' \in Nat
    BY <2>1, <2>2, <2>4, <2>5 DEF n
  <2>7. (Displayed => idx \in 0..Len(Events(trace)) /\ Drawable(trace) /\ WellFormed(trace))'
    <3>1. Drawable(trace) /\ WellFormed(trace)
      BY <1>1, <2>1 DEF ReplayInv
    <3> QED BY <2>5, <2>6, <3>1
  <2> QED BY <1>1, <2>1, <2>6, <2>7 DEF ReplayInv
<1>5. ASSUME NEW q \in inflight, TakeTrace(q) PROVE ReplayInv'
  <2>1. /\ q.ep = "trace" /\ page = "trace" /\ UNCHANGED <<page, world>>
        /\ inflight' = inflight \ {q} /\ ~crashed
    BY <1>1, <1>5, TraceEndpoints DEF TakeTrace, TakeIn, FrameInv, SlotsInv
  <2>2. bad = {} /\ data["trace"] = Nothing
    BY <2>1 DEF SelInv, TraceInv, Tracing
  <2>3. CASE q.at = "ok"
    <3>1. data'["trace"] = q.body
      BY <1>1, <1>5, <2>3, <2>1 DEF TakeTrace, TakeIn, DataAfter, FrameInv, Endpoint
    <3>2. crashed' = ~Drawable(q.body) /\ idx' = IF Drawable(q.body) THEN StartAt(q.body) ELSE 0
      BY <1>5, <2>2, <2>3 DEF TakeTrace
    <3>3. WellFormed(q.body)
      BY <1>1, <2>1, <2>3 DEF ReplayInv, Tracing
    <3>4. idx' \in Nat
      BY <3>2, <3>3, EventsCounted DEF StartAt
    <3>5. (Displayed => idx \in 0..Len(Events(trace)) /\ Drawable(trace) /\ WellFormed(trace))'
      <4>1. SUFFICES ASSUME Displayed'
                     PROVE  (idx \in 0..Len(Events(trace)) /\ Drawable(trace) /\ WellFormed(trace))'
        OBVIOUS
      <4>2. Drawable(q.body)
        BY <3>2, <4>1 DEF Displayed, SelectorShown
      <4>3. trace' = q.body
        BY <3>1 DEF trace
      <4>4. idx' = Len(Events(q.body)) /\ Len(Events(q.body)) \in Nat
        BY <3>2, <3>3, <4>2, EventsCounted DEF StartAt
      <4> QED BY <3>3, <4>2, <4>3, <4>4
    <3> QED BY <1>1, <2>1, <3>4, <3>5 DEF ReplayInv
  <2>4. CASE q.at # "ok"
    <3>1. bad' # {}
      BY <1>5, <2>1, <2>4 DEF TakeTrace, TakeIn, BadAfter, Silent
    <3>2. ~Displayed'
      BY <3>1 DEF Displayed, SelectorShown
    <3>3. idx' = idx
      BY <1>5, <2>4 DEF TakeTrace
    <3> QED BY <1>1, <2>1, <3>2, <3>3 DEF ReplayInv
  <2> QED BY <2>3, <2>4
<1>6. ASSUME NEW q \in inflight, TakeList(q) PROVE ReplayInv'
  <2>1. /\ q.ep = "traces" /\ page = "trace" /\ UNCHANGED <<page, world, idx>>
    BY <1>1, <1>6, TraceEndpoints DEF TakeList, TakeIn, FrameInv, SlotsInv
  <2>2. data["trace"] = Nothing
    BY <2>1 DEF SelInv, ListInv, Listing
  <2>3. data'["trace"] = Nothing
    BY <1>6, <2>1, <2>2 DEF TakeList, TakeIn, DataAfter
  <2>4. \A r \in inflight' : Tracing(r) /\ r.at = "ok" => r \in inflight
    BY <1>6, RequestIs DEF TakeList
  <2>5. ~Displayed'
    BY <2>3 DEF Displayed, trace
  <2> QED BY <1>1, <2>1, <2>4, <2>5 DEF ReplayInv
<1>7. ASSUME NEW q \in inflight, TakeLive(q) \/ TakeOther(q) PROVE ReplayInv'
  <2>1. TakeIn(q) /\ q.ep \notin {"traces", "trace"} /\ inflight' = inflight \ {q}
        /\ UNCHANGED <<idx, crashed>>
    BY <1>7 DEF TakeLive, TakeOther, traceState
  <2>2. page # "trace"
    BY <1>1, <2>1, TraceEndpoints DEF SlotsInv, FrameInv
  <2>3. data'["traces"] = data["traces"] /\ data'["trace"] = data["trace"]
    BY <2>1 DEF TakeIn, DataAfter
  <2> QED BY <1>1, <2>1, <2>2, <2>3, ReplayUntouched DEF TakeIn
<1>8. ASSUME NEW q \in inflight, Serve(q), UNCHANGED traceState PROVE ReplayInv'
  <2> DEFINE a == Served(q)
  <2>1. UNCHANGED <<page, world, bad, data, idx, crashed>> /\ inflight' = (inflight \ {q}) \cup {a}
    BY <1>8 DEF Serve, traceState
  <2>2. Tracing(a) /\ a.at = "ok" => WellFormed(a.body)
    <3> SUFFICES ASSUME Tracing(a), a.at = "ok" PROVE WellFormed(a.body)
      OBVIOUS
    <3>1. Tracing(q) /\ a.body = AnswerTo(q)
      BY DEF Served, Tracing
    <3>2. page = "trace" /\ q.arg \in Windows
      BY <1>1, <3>1, TraceEndpoints DEF SelInv, TraceInv, Tracing, SlotsInv, FrameInv
    <3> QED BY <1>1, <3>1, <3>2 DEF AnswerTo, Tracing, ReplayInv
  <2> HIDE DEF a
  <2>3. Displayed' <=> Displayed
    BY <2>1 DEF Displayed, SelectorShown, trace, ids
  <2>4. (Displayed => idx \in 0..Len(Events(trace)) /\ Drawable(trace) /\ WellFormed(trace))'
    BY <1>1, <2>1, <2>3 DEF ReplayInv, trace
  <2> QED BY <1>1, <2>1, <2>2, <2>4 DEF ReplayInv
<1>9. ASSUME NEW ep \in EndpointsOf(page), UNCHANGED traceState,
             \/ Break(ep) \/ Mend(ep)
             \/ ep # "live" /\ \E v \in Content[ep] : Change(ep, v)
      PROVE  ReplayInv'
  <2>1. UNCHANGED <<page, inflight, bad, data, idx, crashed>>
    BY <1>9 DEF Break, Mend, Change, traceState
  <2>2. page = "trace" => \A id \in Windows : WellFormed(world'["trace"][id])
    <3>1. CASE Break(ep) \/ Mend(ep)
      BY <1>1, <3>1 DEF Break, Mend, ReplayInv
    <3>2. ASSUME NEW v \in Content[ep], Change(ep, v), page = "trace",
                 NEW id \in Windows
          PROVE  WellFormed(world'["trace"][id])
      <4>1. ep \in {"traces", "trace"} /\ world' = [world EXCEPT ![ep] = v]
            /\ DOMAIN world = {"traces", "trace"}
        BY <1>1, <3>2, TraceEndpoints DEF Change, FrameInv
      <4>2. CASE ep = "trace"
        BY <3>2, <4>1, <4>2, TracesAssumption
      <4>3. CASE ep = "traces"
        BY <1>1, <3>2, <4>1, <4>3 DEF ReplayInv
      <4> QED BY <4>1, <4>2, <4>3
    <3> QED BY <1>9, <3>1, <3>2
  <2>3. Displayed' <=> Displayed
    BY <2>1 DEF Displayed, SelectorShown, trace, ids
  <2>4. (Displayed => idx \in 0..Len(Events(trace)) /\ Drawable(trace) /\ WellFormed(trace))'
    BY <1>1, <2>1, <2>3 DEF ReplayInv, trace
  <2> QED BY <1>1, <2>1, <2>2, <2>4 DEF ReplayInv
<1>10. ASSUME PollOther PROVE ReplayInv'
  <2>1. \A q \in inflight' : Tracing(q) => q \in inflight
    BY <1>1, <1>10, SentIs, TraceEndpoints DEF PollOther, Poll, Tracing, FrameInv
  <2> QED BY <1>1, <1>10, <2>1, ReplayUntouched DEF PollOther, Poll, traceState
<1>11. ASSUME Tick PROVE ReplayInv'
  <2>1. page = "field" /\ page' = page /\ UNCHANGED <<idx, crashed>>
    BY <1>11 DEF Tick, traceState
  <2>2. \A q \in inflight' : ~Tracing(q)
    <3>1. \A q \in inflight : OlderRequest(q).ep = q.ep
      BY DEF OlderRequest
    <3>2. \A q \in inflight' : q.ep = "live" \/ \E r \in inflight : q.ep = r.ep
      BY <1>11, <3>1, SentIs DEF Tick
    <3> QED BY <1>1, <2>1, <3>2, EndpointsAreFew DEF SlotsInv, FrameInv, Tracing
  <2>3. data'["trace"] = data["trace"] /\ data'["traces"] = data["traces"]
    BY <1>1, <1>11 DEF Tick, FrameInv, Endpoint
  <2> QED BY <1>1, <2>1, <2>2, <2>3, ReplayUntouched
<1>12. ASSUME \/ \E c \in Cadence : ChooseCadence(c) /\ UNCHANGED <<traceState, fieldState>>
              \/ UNCHANGED tabVars
       PROVE  ReplayInv'
  <2>1. UNCHANGED <<page, world, inflight, data, bad, idx, crashed>>
    BY <1>12 DEF ChooseCadence, tabVars, reads, traceState
  <2> QED BY <1>1, <2>1, ReplayUntouched
<1>13. CASE User
  BY <1>2, <1>3, <1>4, <1>12, <1>13 DEF User
<1>14. CASE Server
  BY <1>8, <1>9, <1>14 DEF Server
<1>15. ASSUME NEW q \in inflight, Take(q) PROVE ReplayInv'
  BY <1>5, <1>6, <1>7, <1>15 DEF Take
<1> QED BY <1>10, <1>11, <1>12, <1>13, <1>14, <1>15 DEF Next

LEMMA TypeHolds == Spec => []TypeInv
BY TypeStarts, SlotsInductive, FrameInductive, ReplayInductive, SelHolds, PTL DEF TypeInv, Spec

\* The page's state is well typed and the scrub position is always on the trace it
\* belongs to, for any lists and traces, any number of overlapping requests and any
\* order of their answers (DecisionTrace.tsx:36-41, 52-53).
THEOREM TabTyped == Spec => []TabTypeOK
<1>1. TypeInv => TabTypeOK
  BY DEF TypeInv, SlotsInv, FrameInv, ReplayInv, TabTypeOK
<1> QED BY <1>1, TypeHolds, PTL

\* A trace that comes onto the page is opened at its settlement, wherever the last
\* one was scrubbed to (DecisionTrace.tsx:23-27), for any traces.
THEOREM TraceOpensAtItsEnd == Spec => TraceOpensAtSettlement
<1> DEFINE Opens == \A id \in Windows :
                      sel = id /\ trace = Nothing /\ trace' # Nothing /\ ~crashed'
                        => AtEnd(trace', idx')
<1>1. TypeInv /\ SelInv /\ [Next]_tabVars => Opens
  <2> SUFFICES ASSUME TypeInv, SelInv, [Next]_tabVars,
                      trace = Nothing, trace' # Nothing, ~crashed'
               PROVE  AtEnd(trace', idx')
    OBVIOUS
  <2>1. ReplayInv /\ FrameInv /\ SlotsInv
    BY DEF TypeInv
  \* Only the answer to a read of a trace puts one there.
  <2>2. PICK q \in inflight : TakeTrace(q)
    <3> SUFFICES ASSUME \A q \in inflight : ~TakeTrace(q)
                 PROVE  data'["trace"] = data["trace"] \/ data'["trace"] = Nothing
      BY DEF trace
    <3>1. ASSUME NEW p \in Page, Navigate(p) PROVE data'["trace"] = Nothing
      BY <3>1 DEF Navigate, NoData, Endpoint
    <3>2. ASSUME NEW id \in Windows, Select(id) PROVE data'["trace"] = Nothing
      BY <2>1, <3>2 DEF Select, FrameInv, Endpoint
    <3>3. ASSUME NEW q \in inflight, Take(q) PROVE data'["trace"] = data["trace"]
      <4>1. TakeIn(q) /\ q.ep # "trace"
        BY <3>3 DEF Take, TakeLive, TakeList, TakeOther
      <4> QED BY <4>1 DEF TakeIn, DataAfter
    <3>4. ASSUME Tick PROVE data'["trace"] = data["trace"]
      BY <2>1, <3>4 DEF Tick, FrameInv, Endpoint
    <3>5. CASE \/ PollOther \/ UNCHANGED tabVars
               \/ \E c \in Cadence : ChooseCadence(c) /\ UNCHANGED <<traceState, fieldState>>
               \/ \E i \in 0..MaxEvents : Scrub(i) /\ UNCHANGED fieldState
      BY <3>5 DEF PollOther, Poll, ChooseCadence, Scrub, tabVars, reads
    <3>6. CASE Server
      BY <3>6 DEF Server, Serve, Break, Mend, Change
    <3> QED BY <3>1, <3>2, <3>3, <3>4, <3>5, <3>6 DEF Next, User
  <2>3. q.ep = "trace" /\ bad = {}
    BY <2>2 DEF TakeTrace, SelInv, TraceInv, Tracing
  <2>4. q.at = "ok"
    BY <2>2 DEF TakeTrace, TakeIn, DataAfter, trace
  <2>5. trace' = q.body
    BY <2>1, <2>2, <2>3, <2>4 DEF TakeTrace, TakeIn, DataAfter, FrameInv, Endpoint, trace
  <2>6. Drawable(q.body) /\ idx' = Len(Events(q.body))
    BY <2>2, <2>3, <2>4 DEF TakeTrace, StartAt
  <2>7. Len(Events(q.body)) \in Nat
    BY <2>1, <2>3, <2>4, <2>6, EventsCounted DEF ReplayInv, Tracing
  <2> QED BY <2>5, <2>6, <2>7 DEF AtEnd
<1>2. TypeInv /\ SelInv /\ [Next]_tabVars => [Opens]_tabVars
  BY <1>1
<1>3. Spec => [][Opens]_tabVars
  BY <1>2, TypeHolds, SelHolds, PTL DEF Spec
<1> QED BY <1>3 DEF TraceOpensAtSettlement

\* The replay shows at no decision an execution that came after it, going forward
\* only adds to it, and at settlement it has committed what the server attributes to
\* the window (DecisionTrace.tsx:52-66, 374-406; ledger.go:691-760), for any trace,
\* whatever the order of its orders and fills and however many share a time.
THEOREM ReplayIsInOrder == Spec => []ReplayIsCausal
<1>1. TypeInv => ReplayIsCausal
  <2> SUFFICES ASSUME TypeInv, Displayed PROVE ReplayIsCausal
    BY DEF ReplayIsCausal
  <2>1. WellFormed(trace) /\ Drawable(trace)
    BY DEF TypeInv, ReplayInv
  <2> QED BY <2>1, ReplayOf DEF ReplayIsCausal
<1> QED BY <1>1, TypeHolds, PTL
-----------------------------------------------------------------------------
(* The countdown of the headline.                                           *)

\* The answer the server gave an age ago.
MomentAgo(a) == (now - a) % Cycle
AnswerOf(a) == [rows |-> LiveRows[MomentAgo(a) + 1], age |-> a]
InSlots == {q.n : q \in inflight}
\* The countdown runs from the number of the headline of the answer on the page, which
\* is older than the countdown by no more than an answer is late, no younger while one
\* window has been the headline, and no older than the polls still out allow.
Synced(a) ==
  /\ a \in Nat /\ data["live"] = AnswerOf(a)
  /\ HeroAt(MomentAgo(a)) = Nothing => base = Nothing
  /\ HeroAt(MomentAgo(a)) # Nothing =>
       /\ base = [secs |-> HeroAt(MomentAgo(a)).secondsLeft, run |-> base.run, own |-> base.own]
       /\ base.run \in Nat /\ base.own \in BOOLEAN
       /\ base.own => base.run <= a
       /\ a <= base.run + MaxDelay
       /\ a <= MaxDelay + Cardinality(InSlots)
ClockInv ==
  /\ page = "field" => world["live"] = LiveAnswer(now)
  /\ \A q \in inflight : q.ep = "live" /\ q.at = "ok" =>
       \E a \in 0..MaxDelay : q.body = AnswerOf(a)
  /\ FieldShown => \E a \in Nat : Synced(a)
  /\ ~FieldShown => base = Nothing

LEMMA MomentIs ==
  ASSUME FrameInv, NEW a \in Nat
  PROVE  /\ MomentAgo(a) \in 0..Cycle - 1 /\ AnswerOf(a) # Nothing
         /\ AnswerOf(0) = LiveAnswer(now)
<1>1. now \in 0..Cycle - 1 /\ Cycle \in Nat \ {0}
  BY FieldAssumption DEF FrameInv
<1>2. MomentAgo(a) \in 0..Cycle - 1
  BY <1>1, Turns DEF MomentAgo
<1>3. MomentAgo(0) = now
  BY <1>1 DEF MomentAgo
<1>4. AnswerOf(a) \in [rows : ToSet(LiveRows), age : Nat]
  <2>1. MomentAgo(a) + 1 \in 1..Cycle
    BY <1>1, <1>2
  <2> QED BY <2>1, FieldAssumption DEF AnswerOf, ToSet
<1> QED BY <1>2, <1>3, <1>4, FieldAssumption DEF AnswerOf, LiveAnswer

\* An interval later the same answer is an interval older.
LEMMA MomentTurns ==
  ASSUME FrameInv, now' = (now + 1) % Cycle, NEW a \in Nat
  PROVE  (MomentAgo(a + 1))' = MomentAgo(a)
<1>1. now \in 0..Cycle - 1 /\ Cycle \in Nat \ {0}
  BY FieldAssumption DEF FrameInv
<1> DEFINE C == Cycle
<1> HIDE DEF C
<1>2. now' = IF now + 1 = C THEN 0 ELSE now + 1
  BY <1>1 DEF C
<1>3. (now' - (a + 1)) % C = (now - a) % C
  <2>1. CASE now + 1 = C
    <3>1. now' - (a + 1) = (now - a) - C
      BY <1>1, <1>2, <2>1
    <3>2. now - a \in Int /\ C \in Nat \ {0}
      BY <1>1 DEF C
    <3> QED BY <3>1, <3>2, Turns
  <2>2. CASE now + 1 # C
    <3>1. now' - (a + 1) = now - a
      BY <1>1, <1>2, <2>2
    <3> QED BY <3>1
  <2> QED BY <2>1, <2>2
<1> QED BY <1>3 DEF MomentAgo, C

LEMMA ClockStarts == Init => ClockInv
<1> SUFFICES ASSUME Init PROVE ClockInv
  OBVIOUS
<1>1. page = "field" /\ "field" \in Page /\ "live" \in EndpointsOf("field")
  BY DEF Init, Page, EndpointsOf, Polled
<1>2. world["live"] = LiveAnswer(now)
  BY <1>1 DEF Init
<1>3. \A q \in inflight : q.at = "sent"
  BY <1>1, MountingIs DEF Init
<1>4. ~FieldShown /\ base = Nothing
  BY DEF Init, FieldShown, NoData, Endpoint
<1> QED BY <1>2, <1>3, <1>4 DEF ClockInv

\* Nothing of the field page's countdown changes.
LEMMA ClockUntouched ==
  ASSUME ClockInv, UNCHANGED <<page, now, base>>, page = "field" => world'["live"] = world["live"],
         page = "field" => UNCHANGED <<bad, inflight>> /\ data'["live"] = data["live"],
         page # "field" => \A q \in inflight' : q.ep # "live"
  PROVE  ClockInv'
<1>1. CASE page = "field"
  <2>1. UNCHANGED <<page, now, base, bad, inflight>> /\ data'["live"] = data["live"]
        /\ world'["live"] = world["live"]
    BY <1>1
  <2>2. \A a : /\ (AnswerOf(a))' = AnswerOf(a) /\ (Synced(a))' <=> Synced(a)
    BY <2>1 DEF AnswerOf, MomentAgo, Synced, InSlots
  <2>3. FieldShown' <=> FieldShown
    BY <2>1 DEF FieldShown
  <2>4. (page = "field" => world["live"] = LiveAnswer(now))'
    BY <1>1, <2>1 DEF ClockInv, LiveAnswer
  <2>5. (\A q \in inflight : q.ep = "live" /\ q.at = "ok" => \E a \in 0..MaxDelay : q.body = AnswerOf(a))'
    <3>1. inflight' = inflight
      BY <2>1
    <3>2. \A a : (AnswerOf(a))' = AnswerOf(a)
      BY <2>1 DEF AnswerOf, MomentAgo
    <3> QED BY <3>1, <3>2 DEF ClockInv
  <2>6. (FieldShown => \E a \in Nat : Synced(a))'
    BY <2>2, <2>3 DEF ClockInv
  <2> QED BY <2>1, <2>3, <2>4, <2>5, <2>6 DEF ClockInv
<1>2. CASE page # "field"
  BY <1>2 DEF ClockInv, FieldShown
<1> QED BY <1>1, <1>2

\* The server answers with the list of this moment.
LEMMA ServeClock ==
  ASSUME TypeInv, ClockInv, NEW q \in inflight, Serve(q), UNCHANGED fieldState
  PROVE  ClockInv'
<1> DEFINE r == Served(q)
<1>1. r.ep = q.ep /\ r.n = q.n /\ (r.at = "ok" => r.body = AnswerTo(q))
  BY DEF Served
<1>2. /\ inflight' = (inflight \ {q}) \cup {r}
      /\ UNCHANGED <<page, world, down, data, bad, now, base>>
  BY DEF Serve, fieldState
<1>3. r.ep = "live" /\ r.at = "ok" => r.body = AnswerOf(0) /\ 0 \in 0..MaxDelay
  <2> SUFFICES ASSUME r.ep = "live", r.at = "ok" PROVE r.body = AnswerOf(0) /\ 0 \in 0..MaxDelay
    OBVIOUS
  <2>1. page = "field"
    BY <1>1, EndpointsAreFew DEF TypeInv, SlotsInv, FrameInv
  <2>2. r.body = LiveAnswer(now)
    BY <1>1, <2>1 DEF AnswerTo, ClockInv
  <2>3. AnswerOf(0) = LiveAnswer(now)
    BY MomentIs DEF TypeInv
  <2> QED BY <2>2, <2>3, FieldAssumption
<1> HIDE DEF r
<1>4. InSlots' = InSlots
  BY <1>1, <1>2 DEF InSlots
<1>5. \A a : (AnswerOf(a))' = AnswerOf(a) /\ ((Synced(a))' <=> Synced(a))
  BY <1>2, <1>4 DEF AnswerOf, MomentAgo, Synced
<1>6. FieldShown' <=> FieldShown
  BY <1>2 DEF FieldShown
<1>7. (page = "field" => world["live"] = LiveAnswer(now))'
  BY <1>2 DEF ClockInv, LiveAnswer
<1>8. (\A p \in inflight : p.ep = "live" /\ p.at = "ok" => \E a \in 0..MaxDelay : p.body = AnswerOf(a))'
  BY <1>2, <1>3, <1>5 DEF ClockInv
<1>9. (FieldShown => \E a \in Nat : Synced(a)) '
  BY <1>5, <1>6 DEF ClockInv
<1> QED BY <1>2, <1>6, <1>7, <1>8, <1>9 DEF ClockInv

\* A window that stays the headline keeps its countdown only if the answer is of the
\* same moment.
LEMMA CountdownKept ==
  ASSUME TypeInv, page = "field", NEW a \in Nat, Synced(a), NEW b \in 0..MaxDelay,
         HeroAt(MomentAgo(a)) # Nothing, HeroAt(MomentAgo(b)) # Nothing,
         HeroAt(MomentAgo(a)).id = HeroAt(MomentAgo(b)).id,
         HeroAt(MomentAgo(a)).secondsLeft = HeroAt(MomentAgo(b)).secondsLeft
  PROVE  a = b
<1>1. Cardinality(InSlots) \in Nat /\ Cardinality(InSlots) <= Overlap["live"]
      /\ Overlap["live"] \in Nat
  <2>1. Overlap["live"] \in Nat
    BY ReadsAssumption DEF Endpoint
  <2>2. InSlots \subseteq 1..Overlap["live"]
    BY EndpointsAreFew DEF TypeInv, SlotsInv, FrameInv, InSlots
  <2> DEFINE n == Overlap["live"]
  <2> HIDE DEF n
  <2>3. IsFiniteSet(1..n) /\ Cardinality(1..n) = n
    <3>1. n \in Nat
      BY <2>1 DEF n
    <3>2. IsFiniteSet(1..n) /\ Cardinality(1..n) = IF 1 > n THEN 0 ELSE n - 1 + 1
      BY <3>1, FS_Interval
    <3> QED BY <3>1, <3>2
  <2>4. InSlots \subseteq 1..n
    BY <2>2 DEF n
  <2>5. IsFiniteSet(InSlots) /\ Cardinality(InSlots) <= n
    BY <2>3, <2>4, FS_Subset
  <2>6. Cardinality(InSlots) \in Nat
    BY <2>5, FS_CardinalityType
  <2> QED BY <2>1, <2>5, <2>6 DEF n
<1>2. a <= MaxDelay + Cardinality(InSlots)
  BY DEF Synced
<1>3. a \in Held /\ b \in Held
  BY <1>1, <1>2, FieldAssumption DEF Held
<1>4. now \in 0..Cycle - 1
  BY DEF TypeInv, FrameInv
<1> QED BY <1>3, <1>4, ExpiryAssumption DEF MomentAgo

LEMMA TakeClock ==
  ASSUME TypeInv, ClockInv, NEW q \in inflight, TakeLive(q)
  PROVE  ClockInv'
<1>1. /\ q.ep = "live" /\ inflight' = inflight \ {q} /\ page = "field"
      /\ UNCHANGED <<page, world, now>> /\ data' = DataAfter(q) /\ bad' = BadAfter(q)
  BY EndpointsAreFew DEF TakeLive, TakeIn, TypeInv, SlotsInv, FrameInv
<1>2. \A a : (AnswerOf(a))' = AnswerOf(a) /\ (MomentAgo(a))' = MomentAgo(a)
  BY <1>1 DEF AnswerOf, MomentAgo
<1>3. (page = "field" => world["live"] = LiveAnswer(now))'
  BY <1>1 DEF ClockInv, LiveAnswer
<1>4. (\A p \in inflight : p.ep = "live" /\ p.at = "ok" => \E a \in 0..MaxDelay : p.body = AnswerOf(a))'
  BY <1>1, <1>2 DEF ClockInv
<1>5. CASE q.at # "ok"
  <2>1. base' = Nothing
    BY <1>5 DEF TakeLive
  <2>2. ~FieldShown'
    BY <1>1, <1>5 DEF BadAfter, Silent, FieldShown
  <2> QED BY <1>3, <1>4, <2>1, <2>2 DEF ClockInv
<1>6. CASE q.at = "ok"
  <2>1. PICK b \in 0..MaxDelay : q.body = AnswerOf(b)
    BY <1>1, <1>6 DEF ClockInv
  <2>2. data'["live"] = AnswerOf(b) /\ bad' = bad \ {"live"}
    BY <1>1, <1>6, <2>1 DEF DataAfter, BadAfter, ClearsError, TypeInv, FrameInv, Endpoint
  <2>3. b \in Nat /\ b <= MaxDelay /\ MaxDelay \in Nat
    BY FieldAssumption
  <2>4. FieldShown'
    BY <1>1, <2>2, <2>3, MomentIs DEF FieldShown, TypeInv
  <2> DEFINE h == HeroAt(MomentAgo(b))
  <2>5. base' = CountdownFor(h)
    BY <1>6, <2>1 DEF TakeLive, AnswerOf, HeroAt
  <2>6. Cardinality(InSlots') \in Nat
    <3>1. InSlots' \subseteq 1..Overlap["live"]
      BY <1>1, EndpointsAreFew DEF TypeInv, SlotsInv, FrameInv, InSlots
    <3>2. IsFiniteSet(1..Overlap["live"])
      BY ReadsAssumption, FS_Interval DEF Endpoint
    <3> QED BY <3>1, <3>2, FS_Subset, FS_CardinalityType
  <2>7. (Synced(b))'
    <3>1. CASE h = Nothing
      BY <1>2, <2>2, <2>3, <2>5, <3>1 DEF Synced, CountdownFor
    <3>2. CASE h # Nothing
      <4>1. base' = Restart(h)
        BY <2>5, <3>2 DEF CountdownFor
      <4>2. CASE base # Nothing /\ base.secs = h.secondsLeft
        <5>1. base' = [base EXCEPT !.own = @ /\ h.id = Hero.id]
          BY <4>1, <4>2 DEF Restart
        <5>2. PICK a \in Nat : Synced(a)
          BY <4>2 DEF ClockInv
        <5>3. HeroAt(MomentAgo(a)) # Nothing /\ Hero = HeroAt(MomentAgo(a))
          BY <4>2, <5>2 DEF Synced, Hero, HeroAt, AnswerOf
        <5>4. /\ base = [secs |-> HeroAt(MomentAgo(a)).secondsLeft, run |-> base.run, own |-> base.own]
              /\ base.run \in Nat /\ base.own \in BOOLEAN /\ (base.own => base.run <= a)
          BY <5>2, <5>3 DEF Synced
        <5>5. HeroAt(MomentAgo(a)).secondsLeft = h.secondsLeft
          BY <4>2, <5>4
        <5>6. base' = [secs |-> h.secondsLeft, run |-> base.run, own |-> base.own /\ h.id = Hero.id]
          BY <5>1, <5>4, <5>5
        <5>7. base'.run = base.run /\ base'.own = (base.own /\ h.id = Hero.id)
              /\ base' = [secs |-> h.secondsLeft, run |-> base'.run, own |-> base'.own]
          BY <5>6
        <5>8. base'.own => base'.run <= b
          <6>1. h.id = Hero.id => a = b
            BY <1>1, <3>2, <5>2, <5>3, <5>5, CountdownKept
          <6> QED BY <5>4, <5>7, <6>1
        <5> HIDE DEF h
        <5>9. base'.run \in Nat /\ base'.own \in BOOLEAN
              /\ b <= base'.run + MaxDelay /\ b <= MaxDelay + Cardinality(InSlots')
          BY <2>3, <2>6, <5>4, <5>7
        <5> QED BY <1>2, <2>2, <2>3, <3>2, <5>7, <5>8, <5>9 DEF Synced, h
      <4>3. CASE ~(base # Nothing /\ base.secs = h.secondsLeft)
        <5>1. base' = [secs |-> h.secondsLeft, run |-> 0, own |-> TRUE]
          BY <4>1, <4>3 DEF Restart
        <5>2. base'.run = 0 /\ base'.own = TRUE
              /\ base' = [secs |-> h.secondsLeft, run |-> base'.run, own |-> base'.own]
          BY <5>1
        <5>3. base'.run = 0 /\ b <= 0 + MaxDelay /\ 0 <= b
          BY <2>3, <5>2
        <5>4. base'.run \in Nat /\ base'.run <= b /\ b <= base'.run + MaxDelay
          BY <5>3
        <5>5. base'.own \in BOOLEAN
          BY <5>2
        <5>6. b <= MaxDelay + Cardinality(InSlots')
          BY <2>3, <2>6
        <5> HIDE DEF h
        <5> QED BY <1>2, <2>2, <2>3, <3>2, <5>2, <5>4, <5>5, <5>6 DEF Synced, h
      <4> QED BY <4>2, <4>3
    <3> QED BY <3>1, <3>2
  <2>8. (FieldShown => \E a \in Nat : Synced(a))'
    BY <2>3, <2>7
  <2> QED BY <1>3, <1>4, <2>4, <2>8 DEF ClockInv
<1> QED BY <1>5, <1>6

\* An interval makes everything an interval older.
LEMMA TickClock ==
  ASSUME TypeInv, ClockInv, Tick
  PROVE  ClockInv'
<1>1. /\ page = "field" /\ page' = page /\ bad' = bad /\ now' = (now + 1) % Cycle
      /\ inflight' = Sent({OlderRequest(q) : q \in inflight}, {"live"})
      /\ \A q \in inflight : q.at = "ok" => q.body.age < MaxDelay
  BY DEF Tick
<1>2. world'["live"] = LiveAnswer(now')
  BY <1>1, EndpointsAreFew DEF Tick, TypeInv, FrameInv
<1>3. \A a \in Nat : (MomentAgo(a + 1))' = MomentAgo(a) /\ (AnswerOf(a + 1))' = Older(AnswerOf(a))
  <2> TAKE a \in Nat
  <2>1. (MomentAgo(a + 1))' = MomentAgo(a)
    BY <1>1, MomentTurns DEF TypeInv
  <2> QED BY <2>1 DEF AnswerOf, Older
<1>4. ASSUME NEW q \in inflight', q.at = "ok" PROVE \E a \in 0..MaxDelay : q.body = (AnswerOf(a))'
  <2>1. PICK r \in inflight : q = OlderRequest(r)
    BY <1>1, <1>4, SentIs
  <2>2. r.at = "ok" /\ q.body = Older(r.body)
    BY <1>4, <2>1 DEF OlderRequest
  <2>3. r.ep = "live"
    BY <1>1, EndpointsAreFew DEF TypeInv, SlotsInv, FrameInv
  <2>4. PICK a \in 0..MaxDelay : r.body = AnswerOf(a)
    BY <2>2, <2>3 DEF ClockInv
  <2>5. a < MaxDelay
    BY <1>1, <2>2, <2>4 DEF AnswerOf
  <2>6. a \in Nat /\ a + 1 \in 0..MaxDelay
    BY <2>5, FieldAssumption
  <2> QED BY <1>3, <2>2, <2>4, <2>6
<1>5. /\ IsFiniteSet(InSlots) /\ Cardinality(InSlots) \in Nat
      /\ Cardinality(InSlots') = Cardinality(InSlots) + 1
  <2> DEFINE old == {OlderRequest(q) : q \in inflight}
             new == Request(old, "live", Nothing)
  <2>1. \A q \in inflight : OlderRequest(q).ep = q.ep /\ OlderRequest(q).n = q.n
    BY DEF OlderRequest
  <2>2. Free(old, "live") # {}
    BY <2>1 DEF Tick, CanSend, Free
  <2>3. new.ep = "live" /\ new.n \in 1..Overlap["live"] /\ \A q \in old : q.ep = "live" => q.n # new.n
    BY <2>2, RequestIs, RequestInFreeSlot
  <2>4. \A q \in inflight : q.ep = "live" /\ q.n \in 1..Overlap["live"]
    BY <1>1, EndpointsAreFew DEF TypeInv, SlotsInv, FrameInv
  <2>5. inflight' = old \cup {new}
    BY <1>1 DEF Sent
  <2> HIDE DEF new
  <2>6. InSlots' = InSlots \cup {new.n} /\ new.n \notin InSlots
    BY <2>1, <2>3, <2>4, <2>5 DEF InSlots
  <2>7. IsFiniteSet(InSlots)
    <3>1. InSlots \subseteq 1..Overlap["live"]
      BY <2>4 DEF InSlots
    <3>2. IsFiniteSet(1..Overlap["live"])
      BY ReadsAssumption, FS_Interval DEF Endpoint
    <3> QED BY <3>1, <3>2, FS_Subset
  <2> QED BY <2>6, <2>7, FS_AddElement, FS_CardinalityType
<1>6. CASE FieldShown
  <2>1. PICK a \in Nat : Synced(a)
    BY <1>6 DEF ClockInv
  <2>2. data'["live"] = Older(AnswerOf(a))
    BY <1>6, <2>1 DEF Tick, Synced, TypeInv, FrameInv, Endpoint
  <2>3. data'["live"] = (AnswerOf(a + 1))' /\ (MomentAgo(a + 1))' = MomentAgo(a) /\ a + 1 \in Nat
    BY <1>3, <2>2
  <2>4. (Synced(a + 1))'
    <3>1. CASE HeroAt(MomentAgo(a)) = Nothing
      BY <2>1, <2>3, <3>1 DEF Synced, Tick
    <3>2. CASE HeroAt(MomentAgo(a)) # Nothing
      <4>1. /\ base = [secs |-> HeroAt(MomentAgo(a)).secondsLeft, run |-> base.run, own |-> base.own]
            /\ base.run \in Nat /\ base.own \in BOOLEAN /\ a <= base.run + MaxDelay
            /\ (base.own => base.run <= a) /\ a <= MaxDelay + Cardinality(InSlots)
        BY <2>1, <3>2 DEF Synced
      <4>2. base # Nothing
        <5>1. base \in [secs : Int, run : Nat, own : BOOLEAN]
          BY <3>2, <4>1, FieldAssumption, MomentIs DEF TypeInv
        <5> QED BY <5>1, FieldAssumption
      <4>3. base' = [secs |-> HeroAt(MomentAgo(a)).secondsLeft, run |-> base.run + 1, own |-> base.own]
        <5>1. base' = [base EXCEPT !.run = @ + 1]
          BY <4>2 DEF Tick
        <5> QED BY <4>1, <5>1
      <4>4. /\ base'.run = base.run + 1 /\ base'.own = base.own
            /\ base' = [secs |-> HeroAt(MomentAgo(a)).secondsLeft, run |-> base'.run, own |-> base'.own]
        BY <4>3
      <4>5. /\ base'.run \in Nat /\ base'.own \in BOOLEAN
            /\ (base'.own => base'.run <= a + 1) /\ a + 1 <= base'.run + MaxDelay
            /\ a + 1 <= MaxDelay + Cardinality(InSlots')
        BY <1>5, <4>1, <4>4, FieldAssumption
      <4> QED BY <2>3, <3>2, <4>4, <4>5 DEF Synced
    <3> QED BY <3>1, <3>2
  <2>5. FieldShown'
    <3>1. data'["live"] # Nothing
      <4>1. (AnswerOf(a + 1))' = [rows |-> LiveRows[MomentAgo(a) + 1], age |-> a + 1]
        BY <2>3 DEF AnswerOf
      <4>2. MomentAgo(a) + 1 \in 1..Cycle
        <5>1. MomentAgo(a) \in 0..Cycle - 1 /\ Cycle \in Nat
          BY MomentIs, FieldAssumption DEF TypeInv
        <5> QED BY <5>1
      <4>3. (AnswerOf(a + 1))' \in [rows : ToSet(LiveRows), age : Nat]
        BY <2>3, <4>1, <4>2, FieldAssumption DEF ToSet
      <4> QED BY <2>3, <4>3, FieldAssumption
    <3> QED BY <1>1, <1>6, <3>1 DEF FieldShown
  <2>6. (FieldShown => \E b \in Nat : Synced(b))'
    BY <2>3, <2>4
  <2> QED BY <1>1, <1>2, <1>4, <2>5, <2>6 DEF ClockInv
<1>7. CASE ~FieldShown
  <2>1. base' = Nothing
    BY <1>7 DEF ClockInv, Tick
  <2>2. ~FieldShown'
    BY <1>1, <1>7 DEF Tick, FieldShown
  <2> QED BY <1>1, <1>2, <1>4, <2>1, <2>2 DEF ClockInv
<1> QED BY <1>6, <1>7

LEMMA ClockInductive == TypeInv /\ ClockInv /\ [Next]_tabVars => ClockInv'
<1> SUFFICES ASSUME TypeInv, ClockInv, [Next]_tabVars PROVE ClockInv'
  OBVIOUS
<1>1. ASSUME NEW p \in Page, Navigate(p) PROVE ClockInv'
  <2>1. page' = p /\ data' = NoData /\ base' = Nothing /\ \A q \in inflight' : q.at = "sent"
    BY <1>1, MountingIs DEF Navigate
  <2>2. p = "field" => world'["live"] = LiveAnswer(now')
    BY <1>1, EndpointsAreFew DEF Navigate
  <2>3. ~FieldShown'
    BY <2>1 DEF NoData, FieldShown, Endpoint
  <2> QED BY <2>1, <2>2, <2>3 DEF ClockInv
<1>2. \A q \in inflight : q.ep = "live" <=> page = "field"
  BY EndpointsAreFew DEF TypeInv, SlotsInv, FrameInv
<1>3. ASSUME UNCHANGED <<page, now, base, world>>, page # "field",
             \A q \in inflight' : q \in inflight \/ q.ep # "live"
      PROVE  ClockInv'
  BY <1>2, <1>3, ClockUntouched
<1>4. ASSUME NEW id \in Windows, Select(id), UNCHANGED fieldState PROVE ClockInv'
  BY <1>3, <1>4, RequestIs DEF Select, ReadTrace, fieldState
<1>5. ASSUME NEW q \in inflight, TakeList(q) \/ TakeTrace(q), UNCHANGED fieldState PROVE ClockInv'
  <2>1. page # "field"
    BY <1>2, <1>5 DEF TakeList, TakeTrace
  <2> QED BY <1>3, <1>5, <2>1, RequestIs DEF TakeList, TakeTrace, TakeIn, fieldState
<1>6. ASSUME NEW q \in inflight, TakeOther(q) PROVE ClockInv'
  <2>1. page # "field"
    BY <1>2, <1>6 DEF TakeOther
  <2> QED BY <1>3, <1>6, <2>1 DEF TakeOther, TakeIn, fieldState
<1>7. ASSUME PollOther PROVE ClockInv'
  <2>1. \A q \in inflight' : q \in inflight \/ q.ep \in Polled(page)
    BY <1>7, SentIs DEF PollOther, Poll
  <2>2. page # "field" /\ "live" \notin Polled(page)
    BY <1>7, EndpointsAreFew DEF PollOther, TypeInv, FrameInv
  <2> QED BY <1>3, <1>7, <2>1, <2>2 DEF PollOther, Poll, fieldState
<1>8. ASSUME UNCHANGED <<page, now, base, bad, inflight, data>>, page = "field" => world'["live"] = world["live"]
      PROVE  ClockInv'
  BY <1>2, <1>8, ClockUntouched
<1>9. CASE User
  <2>1. CASE \/ \E c \in Cadence : ChooseCadence(c) /\ UNCHANGED <<traceState, fieldState>>
             \/ \E i \in 0..MaxEvents : Scrub(i) /\ UNCHANGED fieldState
    BY <1>8, <2>1 DEF ChooseCadence, Scrub, reads, fieldState
  <2> QED BY <1>1, <1>4, <1>9, <2>1 DEF User
<1>10. CASE Server
  <2>1. CASE \E q \in inflight : Serve(q)
    BY <1>10, <2>1, ServeClock DEF Server
  <2>2. CASE \E ep \in EndpointsOf(page) : Break(ep) \/ Mend(ep)
    BY <1>8, <1>10, <2>2 DEF Server, Break, Mend, fieldState
  <2>3. ASSUME NEW ep \in EndpointsOf(page) \ {"live"}, NEW v \in Content[ep], Change(ep, v)
        PROVE  ClockInv'
    BY <1>8, <1>10, <2>3, EndpointsAreFew DEF Server, Change, fieldState
  <2> QED BY <1>10, <2>1, <2>2, <2>3 DEF Server
<1>11. ASSUME NEW q \in inflight, Take(q) PROVE ClockInv'
  BY <1>5, <1>6, <1>11, TakeClock DEF Take
<1>12. CASE Tick
  BY <1>12, TickClock
<1>13. CASE UNCHANGED tabVars
  BY <1>8, <1>13 DEF tabVars, reads, fieldState
<1> QED BY <1>7, <1>9, <1>10, <1>11, <1>12, <1>13 DEF Next

LEMMA ClockHolds == Spec => []ClockInv
BY ClockStarts, ClockInductive, TypeHolds, PTL DEF Spec

\* The headline's countdown is ahead of its window's clock by no more than its answer
\* was late, and behind it only where another window became the headline with the very
\* number it was set to: for any cycle of lists whose windows count down to a fixed expiry,
\* any number of overlapping polls and any order of their answers (page.tsx:361-379).
THEOREM CountdownIsHonest == Spec => []CountdownHonest
<1>1. TypeInv /\ ClockInv => CountdownHonest
  <2> SUFFICES ASSUME TypeInv, ClockInv, HeroShown
               PROVE  /\ LeftShown - TimeLeft <= Unit * MaxDelay
                      /\ base.own => LeftShown >= TimeLeft
    BY DEF CountdownHonest
  <2>1. PICK a \in Nat : Synced(a)
    BY DEF ClockInv, HeroShown
  <2>2. Hero = HeroAt(MomentAgo(a)) /\ data["live"].age = a
    BY <2>1 DEF Synced, AnswerOf, Hero, HeroAt
  <2>3. HeroAt(MomentAgo(a)) # Nothing
    BY <2>2 DEF HeroShown
  <2> DEFINE s == HeroAt(MomentAgo(a)).secondsLeft
             r == base.run
             left == LeftShown
             time == TimeLeft
  <2>4. s \in Int
    BY <2>3, FieldAssumption, MomentIs DEF TypeInv
  <2>5. base.secs = s /\ r \in Nat /\ (base.own => r <= a) /\ a <= r + MaxDelay
    BY <2>1, <2>3 DEF Synced
  <2>6. left = Larger(0, s - 10 * r) /\ time = Larger(0, s - 10 * a)
    BY <2>2, <2>5 DEF LeftShown, TimeLeft, Unit
  <2> HIDE DEF s, r, left, time
  <2>7. left - time <= 10 * MaxDelay /\ (base.own => left >= time)
    BY <2>4, <2>5, <2>6, FieldAssumption DEF Larger
  <2> QED BY <2>7 DEF left, time, Unit
<1> QED BY <1>1, TypeHolds, ClockHolds, PTL
-----------------------------------------------------------------------------
(* The ledger page's headline and its sentence.                             *)

\* What the ledger page shows is a profit the server computed.
ProfitInv ==
  /\ page = "ledger" => world["pnl"] \in Profits
  /\ page = "ledger" => data["pnl"] \in Profits \cup {Nothing}
  /\ \A q \in inflight : q.ep = "pnl" /\ q.at = "ok" => q.body \in Profits

LEMMA ProfitEndpoints ==
  ASSUME NEW p \in Page
  PROVE  /\ "pnl" \in EndpointsOf(p) <=> p = "ledger"
         /\ EndpointsOf("ledger") = {"pnl"} /\ Polled("ledger") = {"pnl"}
         /\ p # "ledger" => "pnl" \notin Polled(p) \cup Once(p)
BY DEF Page, EndpointsOf, Polled, Once

LEMMA ProfitStarts == Init => ProfitInv
<1> SUFFICES ASSUME Init PROVE ProfitInv
  OBVIOUS
<1>1. page = "field" /\ \A q \in inflight : q.at = "sent"
  BY MountingIs DEF Init, Page
<1> QED BY <1>1 DEF ProfitInv

LEMMA ProfitInductive == TypeInv /\ ProfitInv /\ [Next]_tabVars => ProfitInv'
<1> SUFFICES ASSUME TypeInv, ProfitInv, [Next]_tabVars PROVE ProfitInv'
  OBVIOUS
<1>1. SlotsInv /\ FrameInv
  BY DEF TypeInv
<1>2. \A q \in inflight : q.ep = "pnl" <=> page = "ledger"
  BY <1>1, ProfitEndpoints DEF SlotsInv, FrameInv
\* Only the ledger page's reads matter.
<1>3. ASSUME page' = page, page = "ledger" => world' = world /\ data' = data,
             \A q \in inflight' : q.ep = "pnl" => q \in inflight \/ q.at # "ok"
      PROVE  ProfitInv'
  BY <1>3 DEF ProfitInv
<1>4. ASSUME NEW p \in Page, Navigate(p) PROVE ProfitInv'
  <2>1. page' = p /\ data' = NoData /\ \A q \in inflight' : q.at = "sent"
    BY <1>4, MountingIs DEF Navigate
  <2>2. p = "ledger" => world'["pnl"] = Start["pnl"]
    BY <1>4, ProfitEndpoints DEF Navigate
  <2> QED BY <2>1, <2>2 DEF ProfitInv, NoData, Endpoint, Profits
<1>5. ASSUME NEW q \in inflight, Serve(q) PROVE ProfitInv'
  <2> DEFINE a == Served(q)
  <2>1. a.ep = q.ep /\ (a.at = "ok" => a.body = AnswerTo(q))
    BY DEF Served
  <2>2. inflight' = (inflight \ {q}) \cup {a} /\ UNCHANGED <<page, world, data>>
    BY <1>5 DEF Serve
  <2>3. a.ep = "pnl" /\ a.at = "ok" => a.body \in Profits
    BY <1>2, <2>1 DEF AnswerTo, ProfitInv
  <2> HIDE DEF a
  <2> QED BY <2>2, <2>3 DEF ProfitInv
<1>6. ASSUME NEW ep \in EndpointsOf(page), NEW v \in Content[ep], Change(ep, v) PROVE ProfitInv'
  <2>1. UNCHANGED <<page, data, inflight>>
    BY <1>6 DEF Change
  <2>2. page = "ledger" => world'["pnl"] \in Profits
    BY <1>1, <1>6, ProfitEndpoints DEF Change, FrameInv, Profits
  <2> QED BY <2>1, <2>2 DEF ProfitInv
<1>7. ASSUME NEW q \in inflight, TakeIn(q), inflight' = inflight \ {q} PROVE ProfitInv'
  <2>1. UNCHANGED <<page, world>> /\ data' = DataAfter(q)
    BY <1>7 DEF TakeIn
  <2>2. CASE page = "ledger" /\ q.at = "ok"
    <3>1. q.body \in Profits /\ q.ep = "pnl"
      BY <1>2, <2>2 DEF ProfitInv
    <3>2. data'["pnl"] = q.body
      BY <1>1, <2>1, <2>2, <3>1 DEF DataAfter, FrameInv, Endpoint
    <3> QED BY <1>7, <2>1, <3>1, <3>2 DEF ProfitInv
  <2>3. CASE ~(page = "ledger" /\ q.at = "ok")
    BY <1>3, <1>7, <2>1, <2>3 DEF DataAfter
  <2> QED BY <2>2, <2>3
<1>8. ASSUME NEW q \in inflight, Take(q) PROVE ProfitInv'
  <2>1. CASE TakeLive(q) \/ TakeTrace(q) \/ TakeOther(q)
    BY <1>7, <2>1 DEF TakeLive, TakeTrace, TakeOther
  <2>2. CASE TakeList(q)
    <3>1. page # "ledger" /\ page' = page
      BY <1>2, <2>2 DEF TakeList, TakeIn
    <3> QED BY <1>3, <2>2, <3>1, RequestIs DEF TakeList
  <2> QED BY <1>8, <2>1, <2>2 DEF Take
<1>9. ASSUME PollOther PROVE ProfitInv'
  BY <1>3, <1>9, SentIs DEF PollOther, Poll
<1>10. ASSUME Tick PROVE ProfitInv'
  <2>1. page = "field" /\ page' = page
    BY <1>10 DEF Tick
  <2>2. \A q \in inflight : OlderRequest(q).ep = q.ep
    BY DEF OlderRequest
  <2>3. \A q \in inflight' : q.ep # "pnl"
    BY <1>2, <1>10, <2>1, <2>2, SentIs DEF Tick
  <2> QED BY <1>3, <2>1, <2>3
<1>11. CASE User
  <2>1. ASSUME NEW id \in Windows, Select(id) PROVE ProfitInv'
    BY <1>3, <2>1, RequestIs DEF Select, ReadTrace
  <2>2. CASE \/ \E c \in Cadence : ChooseCadence(c) /\ UNCHANGED <<traceState, fieldState>>
             \/ \E i \in 0..MaxEvents : Scrub(i) /\ UNCHANGED fieldState
    BY <1>3, <2>2 DEF ChooseCadence, Scrub, reads
  <2> QED BY <1>4, <1>11, <2>1, <2>2 DEF User
<1>12. CASE Server
  <2>1. CASE \E ep \in EndpointsOf(page) : Break(ep) \/ Mend(ep)
    BY <1>3, <2>1 DEF Break, Mend
  <2> QED BY <1>5, <1>6, <1>12, <2>1 DEF Server
<1>13. CASE UNCHANGED tabVars
  BY <1>3, <1>13 DEF tabVars, reads
<1> QED BY <1>8, <1>9, <1>10, <1>11, <1>12, <1>13 DEF Next

LEMMA ProfitHolds == Spec => []ProfitInv
BY ProfitStarts, ProfitInductive, TypeHolds, PTL DEF Spec

\* A filtered profit's totals are the sums over the rows the table shows, and its
\* net is its edge plus its selection.
LEMMA TotalsAreSums ==
  ASSUME NEW d \in Profits, NEW c
  PROVE  /\ \A f \in Summed : Totals(d, c)[f] = TotalOf(f, d.windows, InCadence(d, c))
         /\ Totals(d, c)["Edge"] \in Int /\ Totals(d, c)["Selection"] \in Int
         /\ Totals(d, c)["Net"] = Totals(d, c)["Edge"] + Totals(d, c)["Selection"]
<1> DEFINE all == DOMAIN d.windows
           rows == InCadence(d, c)
<1>1. /\ IsFiniteSet(all) /\ d.totals = Sum(d.windows, all)
      /\ \A i \in all : /\ d.windows[i].Fills \in Nat
                        /\ d.windows[i]["Edge"] \in Int /\ d.windows[i]["Selection"] \in Int
                        /\ d.windows[i]["Net"] = d.windows[i]["Edge"] + d.windows[i]["Selection"]
  BY ProfitAssumption
<1>2. rows \subseteq all
  BY DEF InCadence, Traded
<1>3. IsFiniteSet(rows)
  BY <1>1, <1>2, FS_Subset
<1>4. \A f \in Summed : Totals(d, c)[f] = TotalOf(f, d.windows, rows)
  <2> SUFFICES ASSUME NEW f \in Summed PROVE Totals(d, c)[f] = TotalOf(f, d.windows, rows)
    OBVIOUS
  <2>1. \A some : Sum(d.windows, some)[f] = TotalOf(f, d.windows, {i \in some : d.windows[i].Fills # 0})
    BY DEF Sum, Summed
  <2>2. CASE c = "all"
    <3>1. rows = {i \in all : d.windows[i].Fills # 0}
      BY <1>1, <2>2 DEF InCadence, Traded
    <3> QED BY <1>1, <2>1, <2>2, <3>1 DEF Totals
  <2>3. CASE c # "all"
    <3>1. rows = {i \in rows : d.windows[i].Fills # 0}
      BY <1>1 DEF InCadence, Traded
    <3> QED BY <2>1, <2>3, <3>1 DEF Totals, SumOf
  <2> QED BY <2>2, <2>3
<1> DEFINE Field(f) == [i \in rows |-> d.windows[i][f]]
<1>5. \A f : TotalOf(f, d.windows, rows) = SumFunctionOnSet(Field(f), rows)
  BY DEF TotalOf
<1> HIDE DEF rows, all
<1>6. \A i \in rows : /\ Field("Edge")[i] \in Int /\ Field("Selection")[i] \in Int
                      /\ Field("Net")[i] = Field("Edge")[i] + Field("Selection")[i]
  BY <1>1, <1>2
<1> DEFINE edge == Field("Edge")
           selection == Field("Selection")
           net == Field("Net")
<1> HIDE DEF Field
<1>7. \A i \in rows : edge[i] \in Int /\ selection[i] \in Int /\ net[i] = edge[i] + selection[i]
  BY <1>6
<1> HIDE DEF edge, selection, net
<1>8. /\ SumFunctionOnSet(edge, rows) \in Int /\ SumFunctionOnSet(selection, rows) \in Int
      /\ SumFunctionOnSet(net, rows) = SumFunctionOnSet(edge, rows) + SumFunctionOnSet(selection, rows)
  BY <1>3, <1>7, SumIsInt, SumsAdd
<1>9. /\ Totals(d, c)["Edge"] = SumFunctionOnSet(edge, rows)
      /\ Totals(d, c)["Selection"] = SumFunctionOnSet(selection, rows)
      /\ Totals(d, c)["Net"] = SumFunctionOnSet(net, rows)
  BY <1>4, <1>5 DEF Summed, edge, selection, net
<1> QED BY <1>4, <1>8, <1>9 DEF rows

LEMMA LedgerScreenIs ==
  ASSUME ProfitInv, LedgerShown
  PROVE  /\ data["pnl"] \in Profits
         /\ LedgerScreen.rows = InCadence(data["pnl"], cadence)
         /\ LedgerScreen.totals = Totals(data["pnl"], cadence)
         /\ LedgerScreen.reading = Reading(Totals(data["pnl"], cadence))
BY DEF ProfitInv, LedgerShown, LedgerScreen

\* The headline of the ledger page is the sum of the rows below it, for any ledger,
\* any cadence and whichever answer arrived last (ledger/page.tsx:51-57, 271-283).
THEOREM HeadlineIsTheSum == Spec => []HeadlineMatchesRows
<1>1. ProfitInv => HeadlineMatchesRows
  BY LedgerScreenIs, TotalsAreSums DEF HeadlineMatchesRows
<1> QED BY <1>1, ProfitHolds, PTL

\* The sentence on the ledger page is the truth about the headline above it
\* (ledger/page.tsx:190-237), for any ledger the server computes.
THEOREM SentenceIsTrue == Spec => []ReadingIsTrue
<1>1. ProfitInv => ReadingIsTrue
  <2> SUFFICES ASSUME ProfitInv, LedgerShown PROVE ReadingIsTrue
    BY DEF ReadingIsTrue
  <2> DEFINE t == Totals(data["pnl"], cadence)
  <2>1. LedgerScreen.totals = t /\ LedgerScreen.reading = Reading(t)
    BY LedgerScreenIs
  <2>2. t["Edge"] \in Int /\ t["Selection"] \in Int /\ t["Net"] = t["Edge"] + t["Selection"]
    BY LedgerScreenIs, TotalsAreSums
  <2> HIDE DEF t
  <2>3. /\ Reading(t) = "the edge survived" <=> t["Edge"] > 0 /\ t["Net"] >= 0
        /\ Reading(t) = "right about price, wrong about outcome"
             <=> t["Edge"] > 0 /\ t["Net"] < 0
        /\ Reading(t) = "not below fair value" <=> t["Edge"] <= 0
        /\ Reading(t) # "mixed"
    BY <2>2, ReadingIsSound
  <2> QED BY <2>1, <2>2, <2>3 DEF ReadingIsTrue
<1> QED BY <1>1, ProfitHolds, PTL
=============================================================================
