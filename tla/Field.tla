-------------------------------- MODULE Field --------------------------------
(***************************************************************************)
(* The field page over time: app/page.tsx with its poll (useLive) and its    *)
(* local clock (useCountdown).  The unit of time is the poll interval, 10s;  *)
(* windows open and close at fixed moments, so the server's list is a        *)
(* function of its clock.                                                    *)
(***************************************************************************)
EXTENDS Traces, FieldView

CONSTANTS
  LiveRows,  \* the server's list at each moment of a cycle
  MaxDelay   \* bound: intervals between the server's answer and its arrival

VARIABLES
  now,   \* the server's clock, modulo the cycle
  base   \* what the headline's countdown runs from; Nothing if not mounted

fieldState == <<now, base>>

Unit == 10
Cycle == Len(LiveRows)
\* An answer carries the intervals since it was computed, to compare with.
LiveAnswer(t) == [rows |-> LiveRows[t + 1], age |-> 0]

\* null is no answer and no countdown.  The seconds left are whole, from a window's
\* expiry to the server's clock: one window shows another number at another moment,
\* two windows may show the same.  Held: the ages of the answers a page can hold.
HeroAt(t) == PickHero(LiveRows[t + 1], Nothing)
Held == 0..MaxDelay + Overlap["live"]
ASSUME FieldAssumption ==
  /\ Cycle \in Nat \ {0} /\ DOMAIN LiveRows = 1..Cycle /\ MaxDelay \in Nat
  /\ Nothing \notin [secs : Int, run : Nat, own : BOOLEAN] \cup [rows : ToSet(LiveRows), age : Nat]
  /\ \A t \in 0..Cycle - 1 : HeroAt(t) # Nothing => HeroAt(t).secondsLeft \in Int
ASSUME ExpiryAssumption ==
  \A t \in 0..Cycle - 1 : \A a, b \in Held :
    LET earlier == HeroAt((t - a) % Cycle)
        later == HeroAt((t - b) % Cycle)
    IN  a # b /\ earlier # Nothing /\ later # Nothing /\ earlier.id = later.id
          => earlier.secondsLeft # later.secondsLeft
-----------------------------------------------------------------------------
FieldShown == page = "field" /\ "live" \notin bad /\ data["live"] # Nothing
Hero == PickHero(data["live"].rows, Nothing)
HeroShown == FieldShown /\ Hero # Nothing
LeftShown == Larger(0, base.secs - Unit * base.run)
FieldScreen ==
  IF "live" \in bad THEN Failed
  ELSE IF data["live"] = Nothing THEN Busy
  ELSE IF Hero = Nothing THEN None
  ELSE [hero |-> Hero, left |-> LeftShown, read |-> OurRead(Hero, Nothing),
        rest |-> Rest(data["live"].rows, Hero)]

\* The countdown is only set when the headline is mounted.
BugRestart(hero) == IF base # Nothing THEN base
                    ELSE [secs |-> hero.secondsLeft, run |-> 0, own |-> TRUE]
\* The effect runs when the number it depends on is another one.  The page does not
\* know whose number it was: own says that no other window has been the headline since
\* the countdown was set, and nothing but a property reads it.
Restart(hero) == IF base # Nothing /\ base.secs = hero.secondsLeft
                 THEN [base EXCEPT !.own = @ /\ hero.id = Hero.id]
                 ELSE [secs |-> hero.secondsLeft, run |-> 0, own |-> TRUE]
CountdownFor(hero) == IF hero = Nothing THEN Nothing ELSE Restart(hero)

\* An answer replaces the list; a failure replaces the page.
TakeLive(q) ==
  /\ q.ep = "live" /\ TakeIn(q)
  /\ inflight' = inflight \ {q}
  /\ base' = IF q.at = "ok" THEN CountdownFor(PickHero(q.body.rows, Nothing)) ELSE Nothing
  /\ UNCHANGED <<now, cadence, traceState>>

Older(body) == [body EXCEPT !.age = @ + 1]
OlderRequest(q) == IF q.at = "ok" THEN [q EXCEPT !.body = Older(@)] ELSE q
\* An interval passes: the clocks run and the page polls again.
Tick ==
  /\ page = "field" /\ CanSend({"live"})
  /\ \A q \in inflight : q.at = "ok" => q.body.age < MaxDelay
  /\ now' = (now + 1) % Cycle
  /\ world' = [world EXCEPT !["live"] = LiveAnswer(now')]
  /\ inflight' = Sent({OlderRequest(q) : q \in inflight}, {"live"})
  /\ data' = IF FieldShown THEN [data EXCEPT !["live"] = Older(@)] ELSE data
  /\ base' = IF base = Nothing THEN Nothing ELSE [base EXCEPT !.run = @ + 1]
  /\ UNCHANGED <<page, down, bad, cadence, traceState>>
=============================================================================
