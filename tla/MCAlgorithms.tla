---------------------------- MODULE MCAlgorithms ----------------------------
(* Inputs of Algorithms for TLC.                                            *)
EXTENDS Algorithms

Row(c, fair, u, bid, ask, left) ==
  [calibrated |-> c, fair |-> fair, uncertainty |-> u, bid |-> bid, ask |-> ask,
   secondsLeft |-> left]
SomeRows ==
  {Row(TRUE, fair, 2, book[1], book[2], left) :
     fair \in {20, 500, 979},
     book \in {<<0, 510>>, <<490, 510>>, <<960, 995>>}, left \in {40, 60}}
  \cup {Row(FALSE, 0, 0, 490, 510, 60), Row(TRUE, 505, 2, 490, 510, 300),
        Row(TRUE, 504, 4, 490, 510, 45), Row(TRUE, 540, 40, 490, 510, 60),
          Row(TRUE, 503, 2, 490, 510, 60), Row(TRUE, 541, 40, 490, 510, 60), Row(TRUE, 960, 2, 1, 999, 90)}

SomeFills ==
  {[kind |-> k, price |-> IF m THEN 450 ELSE IF k = "BUY_UP" THEN fair ELSE One - fair,
    qty |-> q, fair |-> fair, modelFair |-> m] :
     k \in {"BUY_UP", "BUY_DN"}, q \in {1, 3}, fair \in {400, 700}, m \in BOOLEAN}

SomeBeliefs == [fair : {500, 600, 5000, 40000, 50000, 97000, 99500},
                uncertainty : {0, 400, 1000, 20000},
                inventory : {-60, -50, -49, -5, 0, 3, 49, 50}]

Candle == [start : {0, 60, 120}, open : {1, Null}, close : {2, 3, Null}]
SomeCandles == {{}} \cup {{a, b} : a, b \in Candle}

SomeSamples == 4..9
=============================================================================
