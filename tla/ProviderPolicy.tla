--------------------------- MODULE ProviderPolicy ---------------------------
(***************************************************************************)
(* The guardrails around one endpoint of a data provider: a budget of      *)
(* requests, retries, a circuit breaker and a cache by scope               *)
(* (trading/data_sources/provider_resilience.py).  A policy is a record;   *)
(* the operators say what one step of ProviderResiliencePolicy.execute     *)
(* makes of it.  Backoff delays and the wording of telemetry are left out. *)
(***************************************************************************)
EXTENDS Naturals

CONSTANTS
    MaxRequests,        \* max_requests
    MaxRetries,         \* max_retries
    FailureThreshold    \* circuit_failure_threshold

ASSUME PolicyAssumption ==
    /\ MaxRequests \in Nat
    /\ MaxRetries \in Nat
    /\ FailureThreshold \in Nat \ {0}

NewPolicy == [requests |-> 0, failures |-> 0, circuit |-> "closed", cache |-> {}]

BudgetRemaining(p) == MaxRequests - p.requests

\* The call is refused before it reaches the provider.
Refuses(p) == p.circuit = "open" \/ BudgetRemaining(p) = 0

\* One attempt reaches the provider, whatever comes of it.
Attempted(p) == [p EXCEPT !.requests = @ + 1]

Answered(p, scope) == [p EXCEPT !.cache = @ \cup {scope}, !.failures = 0]

\* Mutant: a retry does not ask for what is left of the budget.
MayRetryPastBudget(p, retries) == retries < MaxRetries

\* After a failed attempt: is there another one?
MayRetry(p, retries) == retries < MaxRetries /\ BudgetRemaining(p) > 0

\* The last attempt of a call failed.  An open circuit never closes again.
Failed(p) ==
    [p EXCEPT !.failures = @ + 1,
              !.circuit = IF p.failures + 1 >= FailureThreshold THEN "open" ELSE @]
=============================================================================
