------------------------- MODULE MCPreopenDecision -------------------------
\* An instance of PreopenDecision for TLC.
EXTENDS PreopenDecision

Candidate(lifecycle, score, request, near, volatile, plan) ==
    [lifecycle |-> lifecycle, score |-> score, request |-> request,
     near |-> near, volatile |-> volatile, plan |-> plan]

\* A strategy of both expressions, either first; one with an event near; small
\* strategies; requests of both modes.
MCProfiles ==
    {Candidate("active", 8, "none", FALSE, FALSE, <<"option", "stock">>),
     Candidate("active", 5, "paper_trade_eligible", TRUE, FALSE, <<"option">>),
     Candidate("experimental", 8, "none", FALSE, TRUE, <<"stock", "option">>),
     Candidate("experimental", 8, "none", FALSE, FALSE, <<"stock">>),
     Candidate("active", 8, "review_only", TRUE, FALSE, <<"stock">>),
     Candidate("shadow", 6, "paper_trade_eligible", FALSE, FALSE, <<"stock">>)}

MCAnswers ==
    {[action |-> "enter_long", instrument |-> "stock"],
     [action |-> "open_option_strategy", instrument |-> "option"],
     [action |-> "exit", instrument |-> "stock"],
     [action |-> "no_trade", instrument |-> "option"]}
=============================================================================
