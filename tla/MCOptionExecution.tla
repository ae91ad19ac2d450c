------------------------- MODULE MCOptionExecution -------------------------
(* The instance of OptionExecution that TLC checks: a decision that opens a *)
(* call with a spread and the stock as fallbacks, and two generated hedges  *)
(* that close what is open under one key.                                   *)
EXTENDS OptionExecution, TLC

CONSTANTS entry, hedge1, hedge2,          \* decisions
          call, spread, exit, Stock,      \* expressions
          c1, c2, c3                      \* contracts

ThePlan    == entry :> <<call, spread, Stock>>
              @@ hedge1 :> <<exit>> @@ hedge2 :> <<exit>>
TheAction  == call :> "open" @@ spread :> "open" @@ exit :> "close"
TheLegs    == call :> {c1} @@ spread :> {c2, c3} @@ exit :> {c1}
TheBook    == call :> "calls" @@ spread :> "spreads" @@ exit :> "calls"
TheUnits   == call :> 2 @@ spread :> 1 @@ exit :> 1
=============================================================================
