------------------------------- MODULE MCTab -------------------------------
(* Instances of Tab for TLC.                                               *)
EXTENDS TabProperties

Order(left, kind, price, fair, fills) ==
  [secsLeft |-> left, kind |-> kind, price |-> price, fair |-> fair, fills |-> fills]
Fill(at, kind, price, fair, modelFair) ==
  [at |-> at, kind |-> kind, price |-> price, qty |-> 2, fair |-> fair, modelFair |-> modelFair]

\* A window with a rest, a take and a fill of each; one that
\* was voided and one that lost; one whose only fill no receipt told of.
Won == [id |-> "w1", label |-> "BTC/1m", expiry |-> 100, winner |-> 0, voided |-> FALSE,
        settled |-> TRUE,
        orders |-> <<Order(55, "BUY_DN", 450, 520, 0), Order(50, "BUY_UP", 400, 500, 0),
                     Order(20, "BUY_UP", 420, 600, 2)>>,
        fills |-> <<Fill(60, "BUY_UP", 400, 400, FALSE), Fill(80, "BUY_UP", 420, 600, TRUE)>>]
Void == [id |-> "w2", label |-> "ETH/5m", expiry |-> 200, winner |-> -1, voided |-> TRUE,
         settled |-> TRUE,
         orders |-> <<Order(120, "BUY_DN", 300, 350, 2)>>,
         fills |-> <<Fill(81, "BUY_DN", 300, 350, TRUE)>>]
Lost == [id |-> "w3", label |-> "ETH/5m", expiry |-> 300, winner |-> 0, voided |-> FALSE,
         settled |-> TRUE,
         orders |-> <<Order(100, "BUY_DN", 450, 500, 2)>>,
         fills |-> <<Fill(201, "BUY_DN", 450, 500, TRUE)>>]
Unreceipted == [Won EXCEPT !.id = "w4", !.expiry = 400, !.orders = <<>>,
                           !.fills = <<Fill(360, "BUY_UP", 400, 400, FALSE)>>]
Open == [Lost EXCEPT !.id = "w5", !.expiry = 500, !.settled = FALSE]

Early == <<Won, Void, Open>>
Later == <<Won, Void, Lost, Open>>
Sweep == <<Won, Unreceipted>>

Risk(net) == <<[asset |-> "BTC", netUp |-> net, cap |-> 10]>>
Answers(ledger) ==
  [ep \in Endpoint \ {"live"} |->
     CASE ep = "pnl" -> Pnl(ledger) [] ep = "traces" -> Ids(ledger)
       [] ep = "trace" -> TracesOf(ledger, Nothing) [] ep = "health" -> Health(ledger)
       [] ep = "risk" -> Risk(Len(ledger)) [] ep = "coverage" -> ledger
       [] OTHER -> ep]
StartEarly == [Answers(Early) EXCEPT !["traces"] = Ids(Later), !["trace"] = TracesOf(Later, Nothing)]
StartSweep == Answers(Sweep)
ContentLater ==
  [ep \in Endpoint \ {"live"} |->
     IF ep \in {"pnl", "coverage", "risk"} THEN {Answers(Early)[ep], Answers(Later)[ep]}
     ELSE {}]
NoContent == [ep \in Endpoint \ {"live"} |-> {}]
Labels == {"all", "BTC/1m", "ETH/5m"}
-----------------------------------------------------------------------------
\* A 60 s and a 120 s cadence, the short one closing ten seconds before the long one:
\* at the moments 6 and 7 two windows are the headline in turn, each with 50 s left.
LiveRow(id, left, fair, bid, ask) ==
  [id |-> id, calibrated |-> TRUE, fair |-> fair, uncertainty |-> 20, bid |-> bid,
   ask |-> ask, secondsLeft |-> left]
Short(t) ==
  LET left == (IF t < 5 THEN 50 ELSE 110) - 10 * t
  IN  LiveRow(IF t < 5 THEN "s1" ELSE "s2", left, IF left > 20 THEN 500 ELSE 980, 450, 470)
Long(t) == LiveRow("l", 120 - 10 * t, 520, 500, 510)
\* Nothing is live for one moment of the cycle.
Cycle12 == [i \in 1..12 |-> IF i = 12 THEN <<>> ELSE <<Short(i - 1), Long(i - 1)>>]
OneEach == [ep \in Endpoint |-> IF ep \in {"live", "pnl", "coverage", "trace"} THEN 2 ELSE 1]
=============================================================================
