-------------------------------- MODULE Calls --------------------------------
(***************************************************************************)
(* What the intents channel and the executor are for, without capacities,  *)
(* exposure checks, receipts or a ledger: synchronous calls.  A caller asks *)
(* for one thing and goes on when that has been dealt with, or when its own *)
(* time is up.  Calls are dealt with one at a time, in the order they were  *)
(* made, and a call puts at most one order on the venue: while it is dealt  *)
(* with, or later if its transaction outlives the wait for it.              *)
(***************************************************************************)
EXTENDS Naturals, Sequences

CONSTANTS
  Caller,  \* who calls
  Call     \* records [m: a caller, act: what it asks for, live: it still waits, ...]

VARIABLES
  asked,   \* what each caller waits for; "nothing" if it does not wait
  line,    \* the calls not yet dealt with; the first is being dealt with
  acted,   \* the first call has put its order on the venue
  landed,  \* orders put on the venue so far
  owed,    \* transactions that outlived the wait for them
  over     \* callers whose time is up

vars == <<asked, line, acted, landed, owed, over>>

Init == /\ asked = [c \in Caller |-> "nothing"] /\ line = <<>> /\ acted = FALSE
        /\ landed = 0 /\ owed = 0 /\ over = {}

Ask(c, a) ==
  /\ asked[c] = "nothing" /\ asked' = [asked EXCEPT ![c] = a]
  /\ \E call \in Call :
       call.m = c /\ call.act = a /\ call.live /\ line' = Append(line, call)
  /\ UNCHANGED <<acted, landed, owed, over>>

\* Transactions are mined in the order they were sent.
Act ==
  /\ line # <<>> /\ Head(line).act # "cancel" /\ ~acted /\ owed = 0
  /\ acted' = TRUE /\ landed' = landed + 1
  /\ UNCHANGED <<asked, line, owed, over>>

\* The caller goes on if it still waits, and it waits for this.
Return ==
  /\ line # <<>> /\ line' = Tail(line) /\ acted' = FALSE
  /\ LET call == Head(line)
     IN  IF call.live
         THEN asked[call.m] = call.act /\ asked' = [asked EXCEPT ![call.m] = "nothing"]
         ELSE UNCHANGED asked
  /\ owed' \in {owed} \cup (IF acted THEN {} ELSE {owed + 1})
  /\ UNCHANGED <<landed, over>>

Late ==
  /\ owed > 0 /\ owed' = owed - 1 /\ landed' \in {landed, landed + 1}
  /\ UNCHANGED <<asked, line, acted, over>>

TimeUp(c) == over' = over \cup {c} /\ UNCHANGED <<asked, line, acted, landed, owed>>

\* The call stays in the line; nobody is told of its end.
GiveUp(c) ==
  /\ c \in over
  /\ asked' = [asked EXCEPT ![c] = "nothing"]
  /\ line' = [i \in DOMAIN line |-> [line[i] EXCEPT !.live = @ /\ line[i].m # c]]
  /\ UNCHANGED <<acted, landed, owed, over>>

\* Callers and calls are forgotten; the venue is not.
Die ==
  /\ asked' = [c \in Caller |-> "nothing"] /\ line' = <<>> /\ acted' = FALSE
  /\ UNCHANGED <<landed, owed, over>>

Next == \/ \E c \in Caller, a \in {"make", "take", "cancel"} : Ask(c, a)
        \/ \E c \in Caller : TimeUp(c) \/ GiveUp(c)
        \/ Act \/ Return \/ Late \/ Die

Spec == Init /\ [][Next]_vars
=============================================================================
