-------------------------------- MODULE Reads --------------------------------
(***************************************************************************)
(* How a page of the web front end reads the dashboard server: lib/api.ts  *)
(* and the effect every page shares.  A page asks for what it shows when it *)
(* is mounted, some pages ask again on a timer whether or not the last      *)
(* answer is in, and each answer is put into the page's state when it       *)
(* arrives, in whatever order.  Links are plain anchors, so leaving a page   *)
(* drops its state and its requests.                                        *)
(*                                                                         *)
(* Definitions named Bug... are the mistakes the properties must catch:    *)
(* each is the definition that follows it with one plausible change.       *)
(***************************************************************************)
EXTENDS Integers, Sequences, FiniteSets

CONSTANTS
  Nothing,  \* null: a piece of state nothing has been put into yet
  Overlap   \* bound: how many requests of an endpoint can be out at once

Page == {"field", "evidence", "coverage", "trace", "ledger", "system"}
Endpoint == {"live", "calibration", "coverage", "traces", "trace", "pnl",
             "health", "risk", "chain"}

ASSUME ReadsAssumption == Overlap \in [Endpoint -> Nat \ {0}]

\* Asked for on mounting and then on every interval.
Polled(p) == CASE p = "field"    -> {"live"}
               [] p = "coverage" -> {"coverage"}
               [] p = "ledger"   -> {"pnl"}
               [] p = "system"   -> {"health", "risk", "chain"}
               [] OTHER          -> {}
\* Asked for on mounting only.
Once(p) == CASE p = "evidence" -> {"calibration"}
             [] p = "trace"    -> {"traces"}
             [] OTHER          -> {}
\* A selected window's trace is asked for when it is selected.
EndpointsOf(p) == Polled(p) \cup Once(p) \cup (IF p = "trace" THEN {"trace"} ELSE {})

VARIABLES
  page,      \* the page the tab shows
  world,     \* what the server would answer now, for the endpoints of the page
  down,      \* endpoints of the page whose reads fail now
  inflight,  \* requests whose answer the page has not taken in
  data,      \* the last answer taken in, per endpoint
  bad        \* endpoints whose error is in the page's state

reads == <<page, world, down, inflight, data, bad>>
-----------------------------------------------------------------------------
Free(reqs, ep) == {n \in 1..Overlap[ep] : \A q \in reqs : q.ep = ep => q.n # n}
Request(reqs, ep, arg) ==
  [ep |-> ep, n |-> CHOOSE n \in Free(reqs, ep) : TRUE, arg |-> arg,
   at |-> "sent", body |-> Nothing]
\* Requests for all of eps leave together.
CanSend(eps) == \A ep \in eps : Free(inflight, ep) # {}
Sent(reqs, eps) == reqs \cup {Request(reqs, ep, Nothing) : ep \in eps}

\* What a page starts with: nothing read, and its requests on their way.
NoData == [ep \in Endpoint |-> Nothing]
Mounting(p) == Sent({}, Polled(p) \cup Once(p))

BugPollOnce == /\ FALSE /\ UNCHANGED reads
\* The interval fires: load() again, without looking at what is still out.
Poll ==
  /\ Polled(page) # {} /\ CanSend(Polled(page))
  /\ inflight' = Sent(inflight, Polled(page))
  /\ UNCHANGED <<page, world, down, data, bad>>
-----------------------------------------------------------------------------
\* The server answers from what it reads at that moment.
AnswerTo(q) == IF q.ep = "trace" THEN world["trace"][q.arg] ELSE world[q.ep]
Served(q) == IF q.ep \in down THEN [q EXCEPT !.at = "failed"]
             ELSE [q EXCEPT !.at = "ok", !.body = AnswerTo(q)]
Serve(q) ==
  /\ q.at = "sent"
  /\ inflight' = (inflight \ {q}) \cup {Served(q)}
  /\ UNCHANGED <<page, world, down, data, bad>>

BugRiskKeepsError == {"live"}
\* Reads whose success clears the error; the others keep it until a reload.
ClearsError == {"live", "risk"}
BugSilentRisk == {"chain", "risk"}
\* Reads whose failure is swallowed.
Silent == {"chain"}
BadAfter(q) == IF q.at = "ok" THEN IF q.ep \in ClearsError THEN bad \ {q.ep} ELSE bad
               ELSE bad \cup ({q.ep} \ Silent)
DataAfter(q) == IF q.at = "ok" THEN [data EXCEPT ![q.ep] = q.body] ELSE data

\* The page takes in one of the answers that are in.
Arrived(q) == q \in inflight /\ q.at # "sent"
TakeIn(q) ==
  /\ Arrived(q)
  /\ data' = DataAfter(q) /\ bad' = BadAfter(q)
  /\ UNCHANGED <<page, world, down>>
-----------------------------------------------------------------------------
\* What the server would answer changes; its reads begin to fail, or recover.
Change(ep, v) ==
  /\ ep \in EndpointsOf(page) /\ world' = [world EXCEPT ![ep] = v]
  /\ UNCHANGED <<page, down, inflight, data, bad>>
Break(ep) ==
  /\ ep \in EndpointsOf(page) \ down /\ down' = down \cup {ep}
  /\ UNCHANGED <<page, world, inflight, data, bad>>
Mend(ep) ==
  /\ ep \in down /\ down' = down \ {ep}
  /\ UNCHANGED <<page, world, inflight, data, bad>>
=============================================================================
