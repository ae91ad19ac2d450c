-------------------------- MODULE MCStockExecution --------------------------
(***************************************************************************)
(* Instances of StockExecution for TLC: buys and a sell of one ticker, one  *)
(* buy of two shares so that it may fill in parts.                         *)
(***************************************************************************)
EXTENDS StockExecution, TLC

CONSTANTS buy, sell, other, r1, r2, r3, T

OneTicker   == {T}
OneRun      == {r1}
ThreeRuns   == {r1, r2, r3}
Buy         == {buy}
BuyBuySell  == {buy, other, sell}

MCTickerOf  == [k \in Orders |-> T]
MCSide      == [k \in Orders |-> IF k = sell THEN -1 ELSE 1]
MCQty       == [k \in Orders |-> IF k = other THEN 1 ELSE 2]

RunsAlike   == Permutations(Runs)
=============================================================================
