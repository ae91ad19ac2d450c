------------------------- MODULE SourceIngestionProofs -------------------------
(***************************************************************************)
(* For every budget, threshold, set of families and sequence of tickers:   *)
(* what the policies of the endpoints promise their providers, and what a  *)
(* refresh promises its tickers.                                           *)
(*                                                                         *)
(* The check for the budget and for the circuit is made once, before the   *)
(* first attempt of a call; the argument is that both still hold at each   *)
(* attempt, since a retry asks again and only the last failure opens the   *)
(* circuit.  For the tickers, every job is accounted for from the agenda   *)
(* on, and each one that ends with an error has an endpoint of its own     *)
(* family to blame, now and for the rest of the refresh.                   *)
(*                                                                         *)
(* The last part is about the table the refresh reads (DailyBars): what a  *)
(* quiet morning has read stays readable, and what a batch closes or       *)
(* leaves out.                                                             *)
(***************************************************************************)
EXTENDS SourceIngestion, DailyBars, WellFoundedInduction, TLAPS

Policy(p) ==
    /\ p = [requests |-> p.requests, failures |-> p.failures,
            circuit |-> p.circuit, cache |-> p.cache]
    /\ p.requests \in 0 .. MaxRequests
    /\ p.failures \in Nat
    /\ p.circuit \in {"closed", "open"}

PoliciesFit == policy \in [Endpoints -> {policy[e] : e \in Endpoints}]
               /\ \A e \in Endpoints : Policy(policy[e])
CountsFit == made \in [Endpoints -> Nat] /\ reported \in [Endpoints -> Nat]

\* The budget is charged for what the provider sees.
Charged == \A e \in Endpoints : made[e] = policy[e].requests

RetriesFit == retries \in 0 .. NotCalled /\ (retries # NotCalled => job # NoJob /\ todo # <<>>)

\* The call under way may still reach its provider.
CallAllowed ==
    Calling /\ Current.endpoint \in Endpoints
        => CallPolicy.circuit = "closed" /\ CallPolicy.requests < MaxRequests

IInv == PoliciesFit /\ CountsFit /\ Charged /\ RetriesFit /\ CallAllowed /\ TelemetryAccounts

\* The fields that an answer and a failure change, one at a time.
SetFailures(p, n) == [p EXCEPT !.failures = n]
SetCircuit(p, c) == [p EXCEPT !.circuit = c]
SetCache(p, k) == [p EXCEPT !.cache = k]
Fields(r, f, c, k) == [requests |-> r, failures |-> f, circuit |-> c, cache |-> k]

\* Changing one field of a policy leaves the others.
LEMMA FieldUpdates ==
    ASSUME NEW r, NEW f, NEW c, NEW k, NEW v
    PROVE  /\ SetFailures(Fields(r, f, c, k), v) = Fields(r, v, c, k)
           /\ SetCircuit(Fields(r, f, c, k), v) = Fields(r, f, v, k)
           /\ SetCache(Fields(r, f, c, k), v) = Fields(r, f, c, v)
  BY DEF SetFailures, SetCircuit, SetCache, Fields

\* An answered call closes the count of failures and keeps the budget's.
LEMMA AnsweredFields ==
    ASSUME NEW r, NEW f, NEW c, NEW k, NEW scope
    PROVE  Answered(Fields(r, f, c, k), scope) = Fields(r, 0, c, k \cup {scope})
<1> DEFINE p == Fields(r, f, c, k)
<1>1. p.cache = k
    BY DEF Fields
<1> HIDE DEF p
<1>2. Answered(p, scope) = SetFailures(SetCache(p, p.cache \cup {scope}), 0)
    BY Zenon DEF Answered, SetFailures, SetCache
<1> QED BY <1>1, <1>2, FieldUpdates DEF p

\* A failed call counts, and opens the circuit at the threshold.
LEMMA FailedFields ==
    ASSUME NEW r, NEW f, NEW c, NEW k
    PROVE  \E d \in {c, "open"} : Failed(Fields(r, f, c, k)) = Fields(r, f + 1, d, k)
<1> DEFINE p == Fields(r, f, c, k)
           d == IF p.failures + 1 >= FailureThreshold THEN "open" ELSE p.circuit
<1>1. p.failures = f /\ p.circuit = c
    BY DEF Fields
<1>2. d \in {c, "open"}
    BY <1>1
<1> HIDE DEF p
<1>3. Failed(p) = SetCircuit(SetFailures(p, p.failures + 1), d)
    BY Zenon DEF Failed, SetFailures, SetCircuit
<1> HIDE DEF d
<1>4. Failed(p) = Fields(r, f + 1, d, k)
    BY <1>1, <1>3, FieldUpdates DEF p
<1> QED BY <1>2, <1>4 DEF p

\* Adding to one count.
LEMMA Counting ==
    ASSUME NEW f \in [Endpoints -> Nat], NEW x, NEW n \in Nat
    PROVE  LET g == [f EXCEPT ![x] = f[x] + n] IN
             /\ g \in [Endpoints -> Nat]
             /\ \A e \in Endpoints : g[e] = IF e = x THEN f[e] + n ELSE f[e]
<1>1. CASE x \in Endpoints
    BY <1>1
<1>2. CASE x \notin Endpoints
    BY <1>2
<1> QED BY <1>1, <1>2

\* What an attempt and its outcomes make of a policy.
LEMMA PolicySteps ==
    ASSUME NEW p, Policy(p), p.requests < MaxRequests, NEW scope
    PROVE  LET a == Attempted(p) IN
             /\ Policy(a) /\ a.requests = p.requests + 1 /\ a.circuit = p.circuit
             /\ Policy(Answered(a, scope)) /\ Answered(a, scope).requests = p.requests + 1
             /\ Answered(a, scope).circuit = p.circuit
             /\ Policy(Failed(a)) /\ Failed(a).requests = p.requests + 1
<1> USE PolicyAssumption DEF PolicyAssumption
<1> DEFINE a == Attempted(p)
<1>1. a = Fields(p.requests + 1, p.failures, p.circuit, p.cache)
      /\ p.requests + 1 \in 0 .. MaxRequests
    BY DEF Attempted, Policy, Fields
<1>2. ASSUME NEW f \in Nat, NEW c \in {"closed", "open"}, NEW k
      PROVE  LET q == Fields(p.requests + 1, f, c, k) IN
                Policy(q) /\ q.requests = p.requests + 1 /\ q.circuit = c
    BY <1>1 DEF Policy, Fields
<1>3. p.failures \in Nat /\ p.failures + 1 \in Nat /\ p.circuit \in {"closed", "open"}
    BY DEF Policy
<1> HIDE DEF a
<1>4. Policy(a) /\ a.requests = p.requests + 1 /\ a.circuit = p.circuit
    BY <1>1, <1>2, <1>3
<1>5. Policy(Answered(a, scope)) /\ Answered(a, scope).requests = p.requests + 1
      /\ Answered(a, scope).circuit = p.circuit
  <2>1. Answered(a, scope) = Fields(p.requests + 1, 0, p.circuit, p.cache \cup {scope})
      BY <1>1, AnsweredFields
  <2> QED BY <1>2, <1>3, <2>1
<1>6. Policy(Failed(a)) /\ Failed(a).requests = p.requests + 1
  <2>1. PICK c \in {p.circuit, "open"} :
            Failed(a) = Fields(p.requests + 1, p.failures + 1, c, p.cache)
      BY <1>1, FailedFields
  <2> QED BY <1>2, <1>3, <2>1
<1> QED BY <1>4, <1>5, <1>6 DEF a

\* New policies have seen nothing.
LEMMA InitInv == Init => IInv
<1> USE PolicyAssumption DEF PolicyAssumption
<1> SUFFICES ASSUME Init PROVE IInv
    OBVIOUS
<1>1. \A e \in Endpoints : policy[e] = NewPolicy /\ made[e] = 0 /\ reported[e] = 0
    BY DEF Init
<1>2. Policy(NewPolicy) /\ NewPolicy.requests = 0
    BY DEF Policy, NewPolicy
<1>3. policy \in [Endpoints -> {policy[e] : e \in Endpoints}]
    BY DEF Init
<1>4. retries = NotCalled /\ NotCalled \in 0 .. NotCalled
    BY DEF Init, NotCalled
<1>5. made \in [Endpoints -> Nat] /\ reported \in [Endpoints -> Nat]
    BY DEF Init
<1> QED BY <1>1, <1>2, <1>3, <1>4, <1>5 DEF IInv, PoliciesFit, CountsFit, Charged, RetriesFit,
           CallAllowed, TelemetryAccounts, Calling

-----------------------------------------------------------------------------
\* A step between calls.
LEMMA QuietStep ==
    ASSUME IInv, retries = NotCalled, UNCHANGED <<policy, made, reported, retries>>
    PROVE  IInv'
  BY DEF IInv, PoliciesFit, Policy, CountsFit, Charged, RetriesFit, CallAllowed,
         TelemetryAccounts, Calling, NotCalled

\* A step that touches nothing of a call under way.
LEMMA ElsewhereStep ==
    ASSUME IInv, UNCHANGED <<policy, made, reported, retries, todo, job>> PROVE IInv'
  BY DEF IInv, PoliciesFit, Policy, CountsFit, Charged, RetriesFit, CallAllowed,
         TelemetryAccounts, Calling, Current, CallPolicy, NotCalled, NoJob

\* No call is under way where a job may begin or the next call be made.
LEMMA Between ==
    ASSUME IInv PROVE job = NoJob \/ todo = <<>> => retries = NotCalled
  BY DEF IInv, RetriesFit

\* A call is let through by its policy.
LEMMA DialInv == ASSUME IInv, Dial PROVE IInv'
<1> USE PolicyAssumption DEF PolicyAssumption
<1>1. /\ job # NoJob /\ todo # <<>> /\ retries = NotCalled /\ retries' = 0 /\ ~Refuses(CallPolicy)
      /\ UNCHANGED <<policy, made, reported, todo, job>>
    BY DEF Dial, NextCall
<1>2. RetriesFit' /\ PoliciesFit' /\ CountsFit' /\ Charged'
    BY <1>1 DEF IInv, RetriesFit, PoliciesFit, Policy, CountsFit, Charged, NotCalled, NoJob
<1>3. CallAllowed'
  <2> SUFFICES ASSUME Calling', Current.endpoint \in Endpoints
               PROVE  CallPolicy.circuit = "closed" /\ CallPolicy.requests < MaxRequests
      BY <1>1 DEF CallAllowed, Current, CallPolicy
  <2>1. Policy(CallPolicy)
      BY DEF IInv, PoliciesFit, CallPolicy
  <2> QED BY <1>1, <2>1 DEF Refuses, BudgetRemaining, Policy
<1>4. TelemetryAccounts'
  <2>1. \A e \in Endpoints : made[e] = reported[e] + 0
      BY <1>1 DEF IInv, TelemetryAccounts, Calling
  <2> QED BY <1>1, <2>1 DEF TelemetryAccounts
<1> QED BY <1>2, <1>3, <1>4 DEF IInv

\* What an attempt of the call under way does to policies and counts, whatever
\* the policy becomes of it.
LEMMA AttemptKeepsCounts ==
    ASSUME IInv, NEW after, Policy(after), after.requests = CallPolicy.requests + 1,
           policy' = [policy EXCEPT ![Current.endpoint] = after],
           made' = [made EXCEPT ![Current.endpoint] = made[Current.endpoint] + 1],
           reported' \in [Endpoints -> Nat]
    PROVE  PoliciesFit' /\ CountsFit' /\ Charged'
<1>1. ASSUME NEW e \in Endpoints
      PROVE  /\ policy'[e] = IF e = Current.endpoint THEN after ELSE policy[e]
             /\ made'[e] = IF e = Current.endpoint THEN made[e] + 1 ELSE made[e]
    BY DEF IInv, PoliciesFit, CountsFit
<1>2. CountsFit'
    BY Counting DEF IInv, CountsFit
<1>3. \A e \in Endpoints : Policy(policy'[e])
    BY <1>1 DEF IInv, PoliciesFit
<1>4. policy' \in [Endpoints -> {policy'[e] : e \in Endpoints}]
    BY DEF IInv, PoliciesFit
<1>5. Charged'
    BY <1>1 DEF IInv, Charged, CallPolicy
<1> QED BY <1>2, <1>3, <1>4, <1>5 DEF PoliciesFit, Policy

\* The call may be made.
LEMMA CallPolicyOpen ==
    ASSUME IInv, Calling, Current.endpoint \in Endpoints, NEW scope
    PROVE  LET a == Attempted(CallPolicy) IN
             /\ Policy(a) /\ a.requests = CallPolicy.requests + 1 /\ a.circuit = "closed"
             /\ Policy(Answered(a, scope)) /\ Answered(a, scope).requests = CallPolicy.requests + 1
             /\ Answered(a, scope).circuit = "closed"
             /\ Policy(Failed(a)) /\ Failed(a).requests = CallPolicy.requests + 1
<1>1. Policy(CallPolicy) /\ CallPolicy.requests < MaxRequests /\ CallPolicy.circuit = "closed"
    BY DEF IInv, PoliciesFit, CallAllowed, CallPolicy
<1> QED BY <1>1, PolicySteps

\* What calls for no endpoint of ours changes nothing of theirs.
LEMMA Foreign ==
    ASSUME IInv, NEW value, Current.endpoint \notin Endpoints
    PROVE  /\ [policy EXCEPT ![Current.endpoint] = value] = policy
           /\ [made EXCEPT ![Current.endpoint] = value] = made
           /\ [reported EXCEPT ![Current.endpoint] = value] = reported
  BY DEF IInv, PoliciesFit, CountsFit

\* The call ends with this attempt.
LEMMA LastAttempt ==
    ASSUME IInv, Calling, retries' = NotCalled,
           NEW after, Current.endpoint \in Endpoints =>
                Policy(after) /\ after.requests = CallPolicy.requests + 1,
           policy' = [policy EXCEPT ![Current.endpoint] = after],
           made' = [made EXCEPT ![Current.endpoint] = made[Current.endpoint] + 1],
           reported' = [reported EXCEPT ![Current.endpoint] =
                            reported[Current.endpoint] + Accounted]
    PROVE  IInv'
<1> USE PolicyAssumption DEF PolicyAssumption
<1>1. RetriesFit' /\ CallAllowed'
    BY DEF RetriesFit, CallAllowed, Calling, NotCalled
<1>2. Accounted \in Nat
    BY DEF IInv, RetriesFit, Accounted, NotCalled
<1>3. CASE Current.endpoint \in Endpoints
  <2>1. reported' \in [Endpoints -> Nat]
      BY <1>2, Counting DEF IInv, CountsFit
  <2>2. PoliciesFit' /\ CountsFit' /\ Charged'
      BY <1>3, <2>1, AttemptKeepsCounts
  <2>3. ASSUME NEW e \in Endpoints PROVE made'[e] = reported'[e]
    <3>1. CASE e = Current.endpoint
      <4>1. made[e] = reported[e] + retries
          BY <3>1 DEF IInv, TelemetryAccounts
      <4>2. made'[e] = made[e] + 1 /\ reported'[e] = reported[e] + Accounted
          BY <3>1 DEF IInv, CountsFit
      <4> QED BY <4>1, <4>2 DEF Accounted, IInv, CountsFit, RetriesFit, NotCalled
    <3>2. CASE e # Current.endpoint
        BY <3>2 DEF IInv, CountsFit, TelemetryAccounts
    <3> QED BY <3>1, <3>2
  <2>4. TelemetryAccounts'
      BY <2>2, <2>3 DEF TelemetryAccounts, Calling, CountsFit
  <2> QED BY <1>1, <2>2, <2>4 DEF IInv
<1>4. CASE Current.endpoint \notin Endpoints
  <2>1. UNCHANGED <<policy, made, reported>>
      BY <1>4, Foreign
  <2>2. \A e \in Endpoints : made[e] = reported[e] + 0
      BY <1>4 DEF IInv, TelemetryAccounts
  <2>3. TelemetryAccounts'
      BY <2>1, <2>2 DEF TelemetryAccounts, Calling
  <2> QED BY <1>1, <2>1, <2>3 DEF IInv, PoliciesFit, Policy, CountsFit, Charged
<1> QED BY <1>3, <1>4

\* An answer.
LEMMA ReturnInv == ASSUME IInv, NEW answer, Return(answer) PROVE IInv'
<1> DEFINE after == Answered(Attempted(CallPolicy), Current.scope)
<1>1. /\ Calling /\ retries' = NotCalled
      /\ policy' = [policy EXCEPT ![Current.endpoint] = after]
      /\ made' = [made EXCEPT ![Current.endpoint] = made[Current.endpoint] + 1]
      /\ reported' = [reported EXCEPT ![Current.endpoint] =
                           reported[Current.endpoint] + Accounted]
    BY DEF Return, CallPolicy
<1>2. Current.endpoint \in Endpoints =>
         Policy(after) /\ after.requests = CallPolicy.requests + 1
    BY <1>1, CallPolicyOpen
<1> HIDE DEF after
<1> QED BY <1>1, <1>2, LastAttempt

\* The last failure.
LEMMA FailInv == ASSUME IInv, Fail PROVE IInv'
<1> DEFINE after == Failed(Attempted(CallPolicy))
<1>1. /\ Calling /\ retries' = NotCalled
      /\ policy' = [policy EXCEPT ![Current.endpoint] = after]
      /\ made' = [made EXCEPT ![Current.endpoint] = made[Current.endpoint] + 1]
      /\ reported' = [reported EXCEPT ![Current.endpoint] =
                           reported[Current.endpoint] + Accounted]
    BY DEF Fail, CallPolicy
<1>2. Current.endpoint \in Endpoints =>
         Policy(after) /\ after.requests = CallPolicy.requests + 1
    BY <1>1, CallPolicyOpen
<1> HIDE DEF after
<1> QED BY <1>1, <1>2, LastAttempt

\* A failure that is tried again.
LEMMA RetryInv == ASSUME IInv, Retry PROVE IInv'
<1> USE PolicyAssumption DEF PolicyAssumption
<1> DEFINE after == Attempted(CallPolicy)
<1>1. /\ Calling /\ MayRetry(after, retries) /\ retries' = retries + 1
      /\ policy' = [policy EXCEPT ![Current.endpoint] = after]
      /\ made' = [made EXCEPT ![Current.endpoint] = made[Current.endpoint] + 1]
      /\ UNCHANGED <<reported, todo, job>>
    BY DEF Retry, CallPolicy
<1>2. Current.endpoint \in Endpoints =>
         /\ Policy(after) /\ after.requests = CallPolicy.requests + 1
         /\ after.circuit = "closed"
    BY <1>1, CallPolicyOpen
<1> HIDE DEF after
<1>3. retries \in 0 .. NotCalled /\ retries < MaxRetries /\ retries' \in 0 .. MaxRetries
      /\ job # NoJob /\ todo # <<>>
    BY <1>1 DEF IInv, RetriesFit, MayRetry, Calling, NotCalled
<1>4. RetriesFit'
    BY <1>1, <1>3 DEF RetriesFit, NotCalled, NoJob
<1>5. Current' = Current /\ Calling'
    BY <1>1, <1>3 DEF Current, Calling, NotCalled
<1>6. CASE Current.endpoint \in Endpoints
  <2>1. PoliciesFit' /\ CountsFit' /\ Charged'
      BY <1>1, <1>2, <1>6, AttemptKeepsCounts DEF IInv, CountsFit
  <2>2. CallPolicy' = after
      BY <1>1, <1>5, <1>6 DEF CallPolicy, IInv, PoliciesFit
  <2>3. after.circuit = "closed" /\ after.requests < MaxRequests
      BY <1>1, <1>2, <1>6 DEF MayRetry, BudgetRemaining, Policy
  <2>4. CallAllowed'
      BY <2>2, <2>3 DEF CallAllowed
  <2>5. ASSUME NEW e \in Endpoints
        PROVE  made'[e] = reported'[e] + IF Current.endpoint = e THEN retries' ELSE 0
    <3>1. made[e] = reported[e] + IF Current.endpoint = e THEN retries ELSE 0
        BY <1>1 DEF IInv, TelemetryAccounts
    <3>2. CASE Current.endpoint = e
      <4>1. made[e] = reported[e] + retries /\ reported[e] \in Nat /\ reported'[e] = reported[e]
          BY <1>1, <3>1, <3>2 DEF IInv, CountsFit
      <4>2. made'[e] = made[e] + 1
          BY <1>1, <3>2 DEF IInv, CountsFit
      <4>3. retries \in Nat /\ retries' = retries + 1
          BY <1>1, <1>3
      <4> HIDE DEF NotCalled
      <4> QED BY <3>2, <4>1, <4>2, <4>3
    <3>3. CASE Current.endpoint # e
        BY <1>1, <3>1, <3>3 DEF IInv, CountsFit
    <3> QED BY <3>2, <3>3
  <2>6. TelemetryAccounts'
      BY <1>5, <2>5 DEF TelemetryAccounts
  <2> QED BY <1>4, <2>1, <2>4, <2>6 DEF IInv
<1>7. CASE Current.endpoint \notin Endpoints
  <2>1. UNCHANGED <<policy, made, reported>>
      BY <1>1, <1>7, Foreign
  <2>2. TelemetryAccounts' /\ CallAllowed'
      BY <1>5, <1>7, <2>1 DEF IInv, TelemetryAccounts, CallAllowed
  <2> QED BY <1>4, <2>1, <2>2 DEF IInv, PoliciesFit, Policy, CountsFit, Charged
<1> QED BY <1>6, <1>7

\* Every step keeps the invariant.
LEMMA NextInv == IInv /\ [Next]_vars => IInv'
<1> SUFFICES ASSUME IInv, [Next]_vars PROVE IInv'
    OBVIOUS
<1>1. CASE Start \/ Finish \/ UNCHANGED vars
    BY <1>1, ElsewhereStep DEF Start, Finish, vars
<1>2. CASE LoadBars
    BY <1>2, ElsewhereStep DEF LoadBars
<1>3. CASE BeginJob \/ Collect
    BY <1>3, Between, QuietStep DEF BeginJob, Collect
<1>4. CASE CacheHit \/ Refuse
    BY <1>4, QuietStep DEF CacheHit, Refuse, NextCall
<1>5. CASE Dial
    BY <1>5, DialInv
<1>6. CASE Retry
    BY <1>6, RetryInv
<1>7. CASE Fail
    BY <1>7, FailInv
<1>8. ASSUME NEW answer, Return(answer) PROVE IInv'
    BY <1>8, ReturnInv
<1> QED BY <1>1, <1>2, <1>3, <1>4, <1>5, <1>6, <1>7, <1>8 DEF Next

\* The invariant holds throughout.
LEMMA InvHolds == Spec => []IInv
  BY InitInv, NextInv, PTL DEF Spec

\* No provider ever sees more operations than its budget, retries included.
THEOREM BudgetHolds == Spec => []BudgetIsHard
<1>1. IInv => BudgetIsHard
    BY PolicyAssumption DEF IInv, Charged, PoliciesFit, Policy, BudgetIsHard, PolicyAssumption
<1> QED BY InvHolds, <1>1, PTL

\* The telemetry rows account for every operation a provider saw.
THEOREM TelemetryHolds == Spec => []TelemetryAccounts
<1>1. IInv => TelemetryAccounts
    BY DEF IInv
<1> QED BY InvHolds, <1>1, PTL

\* What an open circuit keeps from one step to the next.
LeftAlone(e) == policy[e].circuit = "open" => made'[e] = made[e] /\ policy'[e].circuit = "open"

\* Once the circuit of an endpoint is open, its provider is left alone.
THEOREM OpenCircuitHolds == Spec => OpenCircuitIsSilent
<1>1. ASSUME IInv, [Next]_vars PROVE [\A e \in Endpoints : LeftAlone(e)]_vars
  <2>1. CASE UNCHANGED <<policy, made>>
      BY <2>1 DEF LeftAlone
  <2>2. ASSUME NEW after, Calling,
               policy' = [policy EXCEPT ![Current.endpoint] = after],
               made' = [made EXCEPT ![Current.endpoint] = made[Current.endpoint] + 1]
        PROVE  \A e \in Endpoints : LeftAlone(e)
    <3> SUFFICES ASSUME NEW e \in Endpoints, policy[e].circuit = "open"
                 PROVE  made'[e] = made[e] /\ policy'[e].circuit = "open"
        BY DEF LeftAlone
    <3>1. e # Current.endpoint
        BY <1>1, <2>2 DEF IInv, CallAllowed, CallPolicy
    <3> QED BY <1>1, <2>2, <3>1 DEF IInv, PoliciesFit, CountsFit
  <2>3. CASE Retry \/ Fail \/ \E answer : Return(answer)
    <3>1. PICK after : /\ policy' = [policy EXCEPT ![Current.endpoint] = after]
                       /\ made' = [made EXCEPT ![Current.endpoint] = made[Current.endpoint] + 1]
                       /\ Calling
        BY <2>3 DEF Retry, Fail, Return
    <3> QED BY <3>1, <2>2
  <2> QED BY <1>1, <2>1, <2>3 DEF Next, Start, LoadBars, BeginJob, Collect, Finish, CacheHit,
             Refuse, Dial, vars
<1>2. [\A e \in Endpoints : LeftAlone(e)]_vars
        <=> [\A e \in Endpoints : policy[e].circuit = "open" =>
                made'[e] = made[e] /\ policy'[e].circuit = "open"]_vars
    BY DEF LeftAlone
<1> QED BY InvHolds, <1>1, <1>2, PTL DEF Spec, OpenCircuitIsSilent

-----------------------------------------------------------------------------
(* The order of work.  FlattenSeq is defined by recursion on the indices of *)
(* its sequences; what it contains is shown by a least counterexample.      *)

\* A nonempty set of naturals has a least element.
LEMMA Least ==
    ASSUME NEW T \in SUBSET Nat, T # {}
    PROVE  \E m \in T : \A n \in T : m <= n
<1>1. PICK m \in T : \A n \in T : ~(<<n, m>> \in OpToRel(<, Nat))
    BY NatLessThanWellFounded, WFMin, Zenon
<1>2. \A n \in T : ~(n < m)
    BY <1>1 DEF OpToRel
<1>3. \A n \in T : m <= n
    BY <1>2
<1> QED BY <1>3

\* f is the concatenation of seqs up to each index.
Flattens(f, seqs, n) ==
    f = [i \in 1 .. n |-> IF i = 1 THEN seqs[i] ELSE f[i - 1] \o seqs[i]]

\* There is such a function.
LEMMA FlattenExists ==
    ASSUME NEW seqs, NEW n \in Nat
    PROVE  \E f : Flattens(f, seqs, n)
<1> DEFINE T == {m \in Nat : ~\E f : Flattens(f, seqs, m)}
<1>1. SUFFICES ASSUME T # {} PROVE FALSE
    OBVIOUS
<1>2. PICK m \in T : \A k \in T : m <= k
  <2>1. T \subseteq Nat
      OBVIOUS
  <2> HIDE DEF T
  <2> QED BY <1>1, <2>1, Least
<1>3. m # 0
  <2>1. Flattens([i \in 1 .. 0 |-> 0], seqs, 0)
      BY DEF Flattens
  <2> QED BY <1>2, <2>1
<1>4. PICK f : Flattens(f, seqs, m - 1)
  <2>1. m - 1 \in Nat /\ ~(m <= m - 1)
      BY <1>2, <1>3
  <2> QED BY <1>2, <2>1
<1> DEFINE g == [i \in 1 .. m |-> IF i < m THEN f[i]
                                  ELSE IF i = 1 THEN seqs[i] ELSE f[i - 1] \o seqs[i]]
<1>5. ASSUME NEW i \in 1 .. m
      PROVE  g[i] = IF i = 1 THEN seqs[i] ELSE g[i - 1] \o seqs[i]
  <2>1. \A k \in 1 .. m - 1 : f[k] = IF k = 1 THEN seqs[k] ELSE f[k - 1] \o seqs[k]
      BY <1>4 DEF Flattens
  <2>2. m \in Nat /\ i \in Nat /\ i >= 1 /\ i <= m
      BY <1>2
  <2>3. CASE i < m
      BY <2>1, <2>2, <2>3
  <2>4. CASE i = m
      BY <2>2, <2>4
  <2> QED BY <2>2, <2>3, <2>4
<1>6. Flattens(g, seqs, m)
  <2>1. g = [i \in 1 .. m |-> g[i]]
      OBVIOUS
  <2> HIDE DEF g
  <2> QED BY <1>5, <2>1 DEF Flattens
<1> QED BY <1>2, <1>6

\* It is what FlattenSeq computes.
LEMMA FlattenUnfolds ==
    ASSUME NEW seqs, Len(seqs) \in Nat \ {0}
    PROVE  \E f : Flattens(f, seqs, Len(seqs)) /\ FlattenSeq(seqs) = f[Len(seqs)]
<1>1. \E f : Flattens(f, seqs, Len(seqs))
    BY FlattenExists
<1>2. Flattens(CHOOSE f : Flattens(f, seqs, Len(seqs)), seqs, Len(seqs))
    BY <1>1
<1>3. FlattenSeq(seqs) = (CHOOSE f : Flattens(f, seqs, Len(seqs)))[Len(seqs)]
    BY DEF FlattenSeq, Flattens
<1> QED BY <1>2, <1>3

\* A concatenation holds what its parts hold.
LEMMA RangeConcat ==
    ASSUME NEW S, NEW a \in Seq(S), NEW b \in Seq(S)
    PROVE  a \o b \in Seq(S) /\ Range(a \o b) = Range(a) \cup Range(b)
<1>1. a \o b \in Seq(S) /\ Len(a \o b) = Len(a) + Len(b)
    OBVIOUS
<1>2. ASSUME NEW i \in DOMAIN a PROVE i \in DOMAIN (a \o b) /\ (a \o b)[i] = a[i]
    OBVIOUS
<1>3. ASSUME NEW i \in DOMAIN b
      PROVE Len(a) + i \in DOMAIN (a \o b) /\ (a \o b)[Len(a) + i] = b[i]
    OBVIOUS
<1>4. ASSUME NEW i \in DOMAIN (a \o b)
      PROVE (a \o b)[i] \in Range(a) \cup Range(b)
  <2>1. CASE i <= Len(a)
      BY <2>1 DEF Range
  <2>2. CASE i > Len(a)
    <3>1. i - Len(a) \in DOMAIN b /\ (a \o b)[i] = b[i - Len(a)]
        BY <2>2
    <3> QED BY <3>1 DEF Range
  <2> QED BY <2>1, <2>2
<1>5. Range(a) \subseteq Range(a \o b)
    BY <1>2 DEF Range
<1>6. Range(b) \subseteq Range(a \o b)
    BY <1>3 DEF Range
<1>7. Range(a \o b) \subseteq Range(a) \cup Range(b)
    BY <1>4 DEF Range
<1> QED BY <1>1, <1>5, <1>6, <1>7

\* Flattening loses nothing.
LEMMA FlattenCovers ==
    ASSUME NEW S, NEW seqs \in Seq(Seq(S)), seqs # <<>>
    PROVE  /\ FlattenSeq(seqs) \in Seq(S)
           /\ \A i \in DOMAIN seqs : Range(seqs[i]) \subseteq Range(FlattenSeq(seqs))
<1> DEFINE n == Len(seqs)
<1>1. n \in Nat \ {0} /\ DOMAIN seqs = 1 .. n
    OBVIOUS
<1>2. PICK f : Flattens(f, seqs, n) /\ FlattenSeq(seqs) = f[n]
    BY <1>1, FlattenUnfolds
<1> DEFINE Good(m) == /\ f[m] \in Seq(S)
                      /\ \A i \in 1 .. m : Range(seqs[i]) \subseteq Range(f[m])
           T == {m \in 1 .. n : ~Good(m)}
<1>s. \A m \in 1 .. n : seqs[m] \in Seq(S)
    BY <1>1
<1> HIDE DEF n
<1>3. \A m \in 1 .. n : f[m] = IF m = 1 THEN seqs[m] ELSE f[m - 1] \o seqs[m]
    BY <1>2 DEF Flattens
<1>4. ASSUME T # {} PROVE FALSE
  <2>1. PICK m \in T : \A k \in T : m <= k
    <3>1. T \subseteq Nat
        OBVIOUS
    <3> HIDE DEF T
    <3> QED BY <1>4, <3>1, Least
  <2>2. m \in 1 .. n /\ ~Good(m) /\ seqs[m] \in Seq(S)
      BY <1>s
  <2>3. CASE m = 1
    <3>1. f[m] = seqs[m]
        BY <1>3, <2>2, <2>3
    <3> QED BY <2>2, <2>3, <3>1
  <2>4. CASE m # 1
    <3>0. m - 1 \in 1 .. n /\ ~(m <= m - 1)
        BY <1>1, <2>2, <2>4
    <3>1. Good(m - 1)
        BY <2>1, <3>0
    <3>2. f[m] = f[m - 1] \o seqs[m]
        BY <1>3, <2>2, <2>4
    <3>3. /\ f[m] \in Seq(S)
          /\ Range(f[m]) = Range(f[m - 1]) \cup Range(seqs[m])
        BY <2>2, <3>1, <3>2, RangeConcat
    <3>4. \A i \in 1 .. m : i \in 1 .. m - 1 \/ i = m
        BY <2>2
    <3> QED BY <2>2, <3>1, <3>3, <3>4
  <2> QED BY <2>3, <2>4
<1> HIDE DEF Good, T
<1>5. Good(n)
    BY <1>1, <1>4 DEF T
<1> QED BY <1>1, <1>2, <1>5 DEF Good

\* The families that have a job per ticker.
PerTicker == {"technical", "fundamental", "option_chain", "events_news"}

TickerJobs == {<<f, Tickers[i]>> : f \in Families \ {"social_macro"}, i \in DOMAIN Tickers}

AllJobs == ({"daily_bars", "premarket", "social_macro"} \X {All})
           \cup (PerTicker \X Range(Tickers))

\* A family that is asked for has its job among those of each ticker.
LEMMA JobsOfTicker ==
    ASSUME NEW i \in DOMAIN Tickers
    PROVE  /\ JobsOf(Tickers[i]) \in Seq(AllJobs)
           /\ \A f \in Families \ {"social_macro"} :
                 <<f, Tickers[i]>> \in Range(JobsOf(Tickers[i]))
<1> DEFINE t == Tickers[i]
<1>1. ASSUME NEW f \in PerTicker
      PROVE  /\ Wanted(f, t) \in Seq(AllJobs)
             /\ f \in Families => <<f, t>> \in Range(Wanted(f, t))
  <2>1. <<f, t>> \in AllJobs
      BY DEF AllJobs, Range
  <2>2. CASE f \in Families
    <3>1. Wanted(f, t) = <<<<f, t>>>>
        BY <2>2 DEF Wanted
    <3>2. <<<<f, t>>>> \in Seq(AllJobs) /\ <<<<f, t>>>>[1] = <<f, t>> /\ 1 \in DOMAIN <<<<f, t>>>>
        BY <2>1
    <3> QED BY <3>1, <3>2 DEF Range
  <2>3. CASE f \notin Families
    <3>1. Wanted(f, t) = <<>>
        BY <2>3 DEF Wanted
    <3> QED BY <2>3, <3>1
  <2> QED BY <2>2, <2>3
<1> DEFINE w1 == Wanted("technical", t)
           w2 == Wanted("fundamental", t)
           w3 == Wanted("option_chain", t)
           w4 == Wanted("events_news", t)
<1>2. {w1, w2, w3, w4} \subseteq Seq(AllJobs)
    BY <1>1 DEF PerTicker
<1>3. JobsOf(t) = ((w1 \o w2) \o w3) \o w4
    BY DEF JobsOf
<1> HIDE DEF w1, w2, w3, w4
<1>4. w1 \o w2 \in Seq(AllJobs) /\ Range(w1 \o w2) = Range(w1) \cup Range(w2)
    BY <1>2, RangeConcat
<1> DEFINE a == w1 \o w2
           b == a \o w3
<1>a. a \in Seq(AllJobs) /\ Range(a) = Range(w1) \cup Range(w2)
    BY <1>4
<1> HIDE DEF a
<1>5. b \in Seq(AllJobs) /\ Range(b) = Range(a) \cup Range(w3)
    BY <1>2, <1>a, RangeConcat
<1>b. JobsOf(t) = b \o w4
    BY <1>3 DEF a
<1> HIDE DEF b, t
<1>c. /\ JobsOf(t) \in Seq(AllJobs)
      /\ Range(JobsOf(t)) = Range(b) \cup Range(w4)
  <2>1. w4 \in Seq(AllJobs)
      BY <1>2
  <2>2. b \o w4 \in Seq(AllJobs) /\ Range(b \o w4) = Range(b) \cup Range(w4)
      BY <1>5, <2>1, RangeConcat
  <2> QED BY <1>b, <2>2
<1>6. /\ JobsOf(t) \in Seq(AllJobs)
      /\ Range(JobsOf(t)) = Range(w1) \cup Range(w2) \cup Range(w3) \cup Range(w4)
    BY <1>a, <1>5, <1>c
<1>7. \A f \in Families \ {"social_macro"} : f \in PerTicker
    BY IngestionAssumption DEF IngestionAssumption, PerTicker
<1>8. ASSUME NEW f \in Families \ {"social_macro"} PROVE <<f, t>> \in Range(JobsOf(t))
    BY <1>1, <1>6, <1>7 DEF PerTicker, w1, w2, w3, w4
<1> QED BY <1>6, <1>8 DEF t

\* The agenda has every job of every ticker.
LEMMA AgendaCovers ==
    Agenda \in Seq(AllJobs) /\ TickerJobs \subseteq Range(Agenda)
<1> DEFINE per == [i \in DOMAIN Tickers |-> JobsOf(Tickers[i])]
           a == BarsJob \o PremarketJob
           b == a \o SocialJob
<1>1. /\ BarsJob \in Seq(AllJobs) /\ PremarketJob \in Seq(AllJobs)
      /\ SocialJob \in Seq(AllJobs)
  <2>1. {<<"daily_bars", All>>, <<"premarket", All>>, <<"social_macro", All>>}
            \subseteq AllJobs
      BY DEF AllJobs
  <2> QED BY <2>1 DEF BarsJob, PremarketJob, SocialJob
<1> HIDE DEF a, b
<1>2. a \in Seq(AllJobs)
    BY <1>1, RangeConcat DEF a
<1>3. b \in Seq(AllJobs)
    BY <1>1, <1>2, RangeConcat DEF b
<1>4. per \in Seq(Seq(AllJobs)) /\ DOMAIN per = DOMAIN Tickers
  <2>1. DOMAIN Tickers = 1 .. Len(Tickers) /\ Len(Tickers) \in Nat
      BY IngestionAssumption DEF IngestionAssumption
  <2> QED BY <2>1, JobsOfTicker
<1>5. Agenda = b \o FlattenSeq(per)
    BY DEF Agenda, a, b
<1>6. CASE per = <<>>
  <2>1. FlattenSeq(per) = <<>>
      BY <1>6 DEF FlattenSeq
  <2>2. TickerJobs = {}
      BY <1>4, <1>6 DEF TickerJobs
  <2> QED BY <1>3, <1>5, <2>1, <2>2
<1>7. CASE per # <<>>
  <2>1. /\ FlattenSeq(per) \in Seq(AllJobs)
        /\ \A i \in DOMAIN per : Range(per[i]) \subseteq Range(FlattenSeq(per))
    <3> HIDE DEF per
    <3> QED BY <1>4, <1>7, FlattenCovers
  <2>2. Agenda \in Seq(AllJobs) /\ Range(FlattenSeq(per)) \subseteq Range(Agenda)
      BY <1>3, <1>5, <2>1, RangeConcat
  <2>3. ASSUME NEW f \in Families \ {"social_macro"}, NEW i \in DOMAIN Tickers
        PROVE  <<f, Tickers[i]>> \in Range(FlattenSeq(per))
    <3>1. <<f, Tickers[i]>> \in Range(JobsOf(Tickers[i]))
        BY JobsOfTicker
    <3>2. per[i] = JobsOf(Tickers[i]) /\ i \in DOMAIN per
        BY <1>4
    <3> QED BY <2>1, <3>1, <3>2
  <2>4. \A j \in TickerJobs : j \in Range(FlattenSeq(per))
      BY <2>3 DEF TickerJobs
  <2> HIDE DEF per
  <2> QED BY <2>2, <2>4
<1> QED BY <1>6, <1>7

\* After the news of a ticker nothing more of it comes.
NewsLast(s) ==
    \A i, k \in DOMAIN s : i < k /\ s[i][1] = "events_news" => s[k][2] # s[i][2]

\* The parts of a concatenation have their news last, and do not share tickers.
LEMMA NewsLastConcat ==
    ASSUME NEW S, NEW a \in Seq(S), NEW b \in Seq(S), NewsLast(a), NewsLast(b),
           \A x \in Range(a), y \in Range(b) : x[1] = "events_news" => y[2] # x[2]
    PROVE  NewsLast(a \o b)
<1> DEFINE c == a \o b
<1>1. ASSUME NEW i \in DOMAIN c
      PROVE  \/ i \in DOMAIN a /\ c[i] = a[i]
             \/ i - Len(a) \in DOMAIN b /\ c[i] = b[i - Len(a)] /\ i \notin DOMAIN a
    OBVIOUS
<1>2. DOMAIN c \subseteq Nat \ {0} /\ Len(a) \in Nat /\ DOMAIN a = 1 .. Len(a)
    OBVIOUS
<1> HIDE DEF c
<1> SUFFICES ASSUME NEW i \in DOMAIN c, NEW k \in DOMAIN c, i < k, c[i][1] = "events_news"
             PROVE  c[k][2] # c[i][2]
    BY DEF NewsLast, c
<1>3. CASE i \in DOMAIN a /\ k \in DOMAIN a
  <2>1. c[i] = a[i] /\ c[k] = a[k]
      BY <1>1, <1>3
  <2> QED BY <1>3, <2>1 DEF NewsLast
<1>4. CASE i \in DOMAIN a /\ k \notin DOMAIN a
  <2>1. c[i] = a[i] /\ k - Len(a) \in DOMAIN b /\ c[k] = b[k - Len(a)]
      BY <1>1, <1>4
  <2>2. c[i] \in Range(a) /\ c[k] \in Range(b)
      BY <1>4, <2>1 DEF Range
  <2> QED BY <2>2
<1>5. CASE i \notin DOMAIN a
  <2>1. k \notin DOMAIN a
      BY <1>2, <1>5
  <2>2. /\ i - Len(a) \in DOMAIN b /\ c[i] = b[i - Len(a)]
        /\ k - Len(a) \in DOMAIN b /\ c[k] = b[k - Len(a)]
      BY <1>1, <1>5, <2>1
  <2>3. i - Len(a) < k - Len(a)
      BY <1>2
  <2> QED BY <2>2, <2>3 DEF NewsLast
<1> QED BY <1>3, <1>4, <1>5

\* The jobs of one ticker.
LEMMA JobsOfNewsLast ==
    ASSUME NEW i \in DOMAIN Tickers
    PROVE  /\ NewsLast(JobsOf(Tickers[i]))
           /\ \A x \in Range(JobsOf(Tickers[i])) : x[2] = Tickers[i]
<1> DEFINE t == Tickers[i]
<1> HIDE DEF t
<1>1. ASSUME NEW f \in PerTicker
      PROVE  /\ Wanted(f, t) \in Seq(PerTicker \X {t}) /\ NewsLast(Wanted(f, t))
             /\ Range(Wanted(f, t)) \subseteq {<<f, t>>}
  <2>1. CASE f \in Families
    <3>1. Wanted(f, t) = <<<<f, t>>>>
        BY <2>1 DEF Wanted
    <3>2. DOMAIN <<<<f, t>>>> = 1 .. 1 /\ <<<<f, t>>>>[1] = <<f, t>>
        OBVIOUS
    <3> QED BY <3>1, <3>2 DEF NewsLast, Range
  <2>2. CASE f \notin Families
    <3>1. Wanted(f, t) = <<>>
        BY <2>2 DEF Wanted
    <3> QED BY <3>1 DEF NewsLast, Range
  <2> QED BY <2>1, <2>2
<1> DEFINE w1 == Wanted("technical", t)
           w2 == Wanted("fundamental", t)
           w3 == Wanted("option_chain", t)
           w4 == Wanted("events_news", t)
           S == PerTicker \X {t}
<1>2. /\ w1 \in Seq(S) /\ w2 \in Seq(S) /\ w3 \in Seq(S) /\ w4 \in Seq(S)
      /\ NewsLast(w1) /\ NewsLast(w2) /\ NewsLast(w3) /\ NewsLast(w4)
      /\ \A x \in Range(w1) \cup Range(w2) \cup Range(w3) : x[1] # "events_news"
    BY <1>1 DEF PerTicker
<1>3. JobsOf(t) = ((w1 \o w2) \o w3) \o w4
    BY DEF JobsOf
<1> HIDE DEF w1, w2, w3, w4, S
<1> DEFINE a == w1 \o w2
           b == a \o w3
<1>4. a \in Seq(S) /\ Range(a) = Range(w1) \cup Range(w2) /\ NewsLast(a)
    BY <1>2, RangeConcat, NewsLastConcat
<1>5. JobsOf(t) = b \o w4
    BY <1>3
<1> HIDE DEF a
<1>6. b \in Seq(S) /\ Range(b) = Range(a) \cup Range(w3) /\ NewsLast(b)
  <2>1. b \in Seq(S) /\ Range(b) = Range(a) \cup Range(w3)
      BY <1>2, <1>4, RangeConcat
  <2>2. \A x \in Range(a), y \in Range(w3) : x[1] = "events_news" => y[2] # x[2]
      BY <1>2, <1>4
  <2>3. NewsLast(a \o w3)
      BY <1>2, <1>4, <2>2, NewsLastConcat
  <2> QED BY <2>1, <2>3
<1> HIDE DEF b
<1>7. JobsOf(t) \in Seq(S) /\ NewsLast(JobsOf(t))
  <2>1. b \o w4 \in Seq(S)
      BY <1>2, <1>6, RangeConcat
  <2>2. \A x \in Range(b), y \in Range(w4) : x[1] = "events_news" => y[2] # x[2]
      BY <1>2, <1>4, <1>6
  <2>3. NewsLast(b \o w4)
      BY <1>2, <1>6, <2>2, NewsLastConcat
  <2> QED BY <1>5, <2>1, <2>3
<1>8. \A x \in Range(JobsOf(t)) : x[2] = t
  <2>1. \A x \in Range(JobsOf(t)) : x \in S
      BY <1>7 DEF Range
  <2> QED BY <2>1 DEF S
<1> QED BY <1>7, <1>8 DEF t

\* In the order of work the news of a ticker come last.
LEMMA AgendaNewsLast == NewsLast(Agenda)
<1> DEFINE per == [i \in DOMAIN Tickers |-> JobsOf(Tickers[i])]
           n == Len(Tickers)
           a == BarsJob \o PremarketJob
           b == a \o SocialJob
<1>0. n \in Nat /\ DOMAIN Tickers = 1 .. n
    BY IngestionAssumption DEF IngestionAssumption
<1>1. b \in Seq(AllJobs) /\ NewsLast(b) /\ \A x \in Range(b) : x[1] # "events_news"
  <2> DEFINE J == {"daily_bars", "premarket", "social_macro"} \X {All}
  <2>1. ASSUME NEW s \in Seq(J)
        PROVE  s \in Seq(AllJobs) /\ NewsLast(s) /\ \A x \in Range(s) : x[1] # "events_news"
    <3>1. \A i \in DOMAIN s : s[i] \in J
        OBVIOUS
    <3>2. s \in Seq(AllJobs)
        BY DEF AllJobs
    <3> QED BY <3>1, <3>2 DEF NewsLast, Range
  <2>2. /\ BarsJob \in Seq(J) /\ PremarketJob \in Seq(J) /\ SocialJob \in Seq(J)
      BY DEF BarsJob, PremarketJob, SocialJob
  <2> HIDE DEF J
  <2>3. a \in Seq(J)
      BY <2>2, RangeConcat
  <2> HIDE DEF a
  <2>4. b \in Seq(J)
      BY <2>2, <2>3, RangeConcat
  <2> QED BY <2>1, <2>4
<1>2. Agenda = b \o FlattenSeq(per)
    BY DEF Agenda
<1> HIDE DEF a, b
<1>3. per \in Seq(Seq(AllJobs)) /\ Len(per) = n
      /\ \A i \in 1 .. n : per[i] = JobsOf(Tickers[i])
    BY <1>0, JobsOfTicker
<1> HIDE DEF per
<1>4. CASE n = 0
  <2>1. per = <<>>
      BY <1>3, <1>4
  <2>2. FlattenSeq(per) = <<>>
      BY <2>1 DEF FlattenSeq
  <2> QED BY <1>1, <1>2, <2>2
<1>5. CASE n # 0
  <2>1. PICK f : Flattens(f, per, n) /\ FlattenSeq(per) = f[n]
      BY <1>0, <1>3, <1>5, FlattenUnfolds
  <2> HIDE DEF n
  <2> DEFINE Good(m) == /\ f[m] \in Seq(AllJobs) /\ NewsLast(f[m])
                        /\ \A x \in Range(f[m]) : \E i \in 1 .. m : x[2] = Tickers[i]
             T == {m \in 1 .. n : ~Good(m)}
  <2>2. \A m \in 1 .. n : f[m] = IF m = 1 THEN per[m] ELSE f[m - 1] \o per[m]
      BY <1>0, <2>1 DEF Flattens
  <2>3. \A m \in 1 .. n : /\ per[m] \in Seq(AllJobs) /\ NewsLast(per[m])
                          /\ \A x \in Range(per[m]) : x[2] = Tickers[m]
      BY <1>0, <1>3, JobsOfNewsLast, JobsOfTicker
  <2>4. ASSUME T # {} PROVE FALSE
    <3>1. PICK m \in T : \A k \in T : m <= k
      <4>1. T \subseteq Nat
          BY <1>0
      <4> HIDE DEF T
      <4> QED BY <2>4, <4>1, Least
    <3>2. m \in 1 .. n /\ ~Good(m)
        OBVIOUS
    <3>3. CASE m = 1
      <4>1. f[m] = per[m]
          BY <2>2, <3>2, <3>3
      <4> QED BY <2>3, <3>2, <4>1
    <3>4. CASE m # 1
      <4>1. m - 1 \in 1 .. n /\ ~(m <= m - 1)
          BY <1>0, <3>2, <3>4
      <4>2. Good(m - 1)
          BY <3>1, <4>1
      <4>3. f[m] = f[m - 1] \o per[m]
          BY <2>2, <3>2, <3>4
      <4>4. /\ f[m] \in Seq(AllJobs)
            /\ Range(f[m]) = Range(f[m - 1]) \cup Range(per[m])
          BY <2>3, <3>2, <4>2, <4>3, RangeConcat
      <4>5. \A i \in 1 .. m - 1 : i \in 1 .. m /\ Tickers[m] # Tickers[i]
        <5>1. \A i \in 1 .. m - 1 : i \in DOMAIN Tickers /\ m \in DOMAIN Tickers /\ i # m
            BY <1>0, <3>2
        <5> QED BY <3>2, <5>1, IngestionAssumption DEF IngestionAssumption
      <4>6. NewsLast(f[m])
        <5>1. \A x \in Range(f[m - 1]), y \in Range(per[m]) : y[2] # x[2]
            BY <2>3, <3>2, <4>2, <4>5
        <5> HIDE DEF T
        <5> QED BY <2>3, <3>2, <4>2, <4>3, <5>1, NewsLastConcat
      <4>7. m \in 1 .. m
          BY <1>0, <3>2
      <4>8. \A x \in Range(f[m]) : \E i \in 1 .. m : x[2] = Tickers[i]
          BY <2>3, <3>2, <4>2, <4>4, <4>5, <4>7
      <4> QED BY <3>2, <4>4, <4>6, <4>8
    <3> QED BY <3>3, <3>4
  <2>5. n \in 1 .. n
      BY <1>0, <1>5
  <2> HIDE DEF Good, T
  <2>6. Good(n)
      BY <2>4, <2>5 DEF T
  <2> QED BY <1>1, <1>2, <2>1, <2>6, NewsLastConcat DEF Good
<1> QED BY <1>4, <1>5

-----------------------------------------------------------------------------
(* What becomes of each job.                                               *)

\* Taking the first of a sequence.
LEMMA HeadAndTail ==
    ASSUME NEW S, NEW s \in Seq(S), s # <<>>
    PROVE  Head(s) \in S /\ Tail(s) \in Seq(S) /\ Range(s) = {Head(s)} \cup Range(Tail(s))
<1>1. Head(s) \in S /\ Tail(s) \in Seq(S) /\ Len(Tail(s)) = Len(s) - 1 /\ Head(s) = s[1]
    OBVIOUS
<1>2. ASSUME NEW i \in DOMAIN Tail(s) PROVE i + 1 \in DOMAIN s /\ s[i + 1] = Tail(s)[i]
    OBVIOUS
<1>3. ASSUME NEW i \in DOMAIN s PROVE s[i] \in {Head(s)} \cup Range(Tail(s))
  <2>1. CASE i = 1
      BY <1>1, <2>1
  <2>2. CASE i # 1
    <3>1. i - 1 \in DOMAIN Tail(s) /\ Tail(s)[i - 1] = s[i]
        BY <2>2
    <3> QED BY <3>1 DEF Range
  <2> QED BY <2>1, <2>2
<1>4. Range(s) \subseteq {Head(s)} \cup Range(Tail(s))
    BY <1>3 DEF Range
<1>5. Range(Tail(s)) \subseteq Range(s)
    BY <1>2 DEF Range
<1>6. Head(s) \in Range(s)
    BY <1>1 DEF Range
<1> QED BY <1>1, <1>4, <1>5, <1>6

Abouts == {"bars", "benchmark", "premarket", "intraday", "news", "batch", "social",
           "context", "chain"}
Symbols == Range(Tickers) \cup {All, "SPY", "QQQ"}

\* The calls that a job may have left.
CallsFit(j) ==
    {c \in {Call(e, a, s) : e \in Endpoints, a \in Abouts, s \in Symbols} :
        /\ j[1] \in PerTicker => c.endpoint \in EndpointsOf(j[1])
        /\ c.scope[1] = "batch" => j[1] = "premarket"
        /\ c.scope[1] = "news" <=> j[1] = "events_news"}

\* The endpoints of each family.
LEMMA FamilyEndpoints ==
    /\ EndpointsOf("technical") = {"market_bars", "market_premarket_prices"}
    /\ EndpointsOf("fundamental") = {"market_context"}
    /\ EndpointsOf("option_chain") = {"option_chain"}
    /\ EndpointsOf("events_news") = {"news"}
    /\ \A f \in PerTicker : EndpointsOf(f) \subseteq Endpoints
<1>1. /\ EndpointsOf("technical") = {"market_bars", "market_premarket_prices"}
      /\ EndpointsOf("fundamental") = {"market_context"}
      /\ EndpointsOf("option_chain") = {"option_chain"}
      /\ EndpointsOf("events_news") = {"news"}
    BY DEF EndpointsOf
<1> QED BY <1>1 DEF PerTicker, Endpoints

\* A call fits a job whose endpoint it uses.
LEMMA CallFits ==
    ASSUME NEW j, NEW e \in Endpoints, NEW a \in Abouts, NEW s \in Symbols,
           j[1] \in PerTicker => e \in EndpointsOf(j[1]),
           a = "batch" => j[1] = "premarket",
           a = "news" <=> j[1] = "events_news"
    PROVE  Call(e, a, s) \in CallsFit(j)
  BY DEF CallsFit, Call

\* A job starts with calls of its own.
LEMMA CallsOfFit ==
    ASSUME NEW j \in AllJobs, j[1] # "daily_bars"
    PROVE  CallsOf(j) \in Seq(CallsFit(j))
<1> DEFINE Fit == CallsFit(j)
<1>1. j[2] \in Symbols /\ All \in Symbols /\ "SPY" \in Symbols /\ "QQQ" \in Symbols
    BY DEF AllJobs, Symbols
<1>2. ASSUME NEW e \in Endpoints, NEW a \in Abouts, NEW s \in Symbols,
             j[1] \in PerTicker => e \in EndpointsOf(j[1]),
             a = "batch" => j[1] = "premarket",
             a = "news" <=> j[1] = "events_news"
      PROVE  Call(e, a, s) \in Fit
    BY <1>2, CallFits
<1> HIDE DEF Fit
<1>3. CASE j[1] = "technical"
  <2>1. \A a \in {"bars", "benchmark", "intraday"}, s \in Symbols :
            Call("market_bars", a, s) \in Fit
      BY <1>2, <1>3, FamilyEndpoints DEF Endpoints, Abouts
  <2>2. Call("market_premarket_prices", "premarket", j[2]) \in Fit
      BY <1>1, <1>2, <1>3, FamilyEndpoints DEF Endpoints, Abouts
  <2>3. BarsCalls(j[2]) \in Seq(Fit)
      BY <1>1, <2>1 DEF BarsCalls
  <2>4. BenchmarkCalls \in Seq(Fit)
    <3>1. Call("market_bars", "benchmark", "SPY") \in Fit
          /\ Call("market_bars", "benchmark", "QQQ") \in Fit
        BY <1>1, <2>1
    <3>2. \A i \in DOMAIN Benchmarks : Call("market_bars", "benchmark", Benchmarks[i]) \in Fit
        BY <3>1 DEF Benchmarks
    <3>3. DOMAIN Benchmarks = 1 .. 2
        BY DEF Benchmarks
    <3> QED BY <3>2, <3>3 DEF BenchmarkCalls
  <2>5. PremarketCalls(j[2]) \in Seq(Fit)
      BY <2>2 DEF PremarketCalls
  <2>6. IntradayCalls(j[2]) \in Seq(Fit)
      BY <1>1, <2>1 DEF IntradayCalls
  <2>7. TechnicalCalls(j[2]) \in Seq(Fit)
      BY <2>3, <2>4, <2>5, <2>6 DEF TechnicalCalls
  <2> QED BY <1>3, <2>7 DEF CallsOf, Fit
<1>4. CASE j[1] = "premarket"
  <2>1. Call("market_premarket_prices", "batch", All) \in Fit
      BY <1>1, <1>2, <1>4 DEF Endpoints, Abouts, PerTicker
  <2> QED BY <1>4, <2>1 DEF CallsOf, Fit
<1>5. CASE j[1] = "social_macro"
  <2>1. Call("global_context", "social", All) \in Fit
      BY <1>1, <1>2, <1>5 DEF Endpoints, Abouts, PerTicker
  <2> QED BY <1>5, <2>1 DEF CallsOf, Fit
<1>6. CASE j[1] = "fundamental"
  <2>1. Call("market_context", "context", j[2]) \in Fit
      BY <1>1, <1>2, <1>6, FamilyEndpoints DEF Endpoints, Abouts
  <2> QED BY <1>6, <2>1 DEF CallsOf, Fit
<1>7. CASE j[1] = "option_chain"
  <2>1. Call("option_chain", "chain", j[2]) \in Fit
      BY <1>1, <1>2, <1>7, FamilyEndpoints DEF Endpoints, Abouts
  <2> QED BY <1>7, <2>1 DEF CallsOf, Fit
<1>8. CASE j[1] = "events_news"
  <2>1. Call("news", "news", j[2]) \in Fit
      BY <1>1, <1>2, <1>8, FamilyEndpoints DEF Endpoints, Abouts
  <2>2. NewsCalls(j[2]) \in Seq(Fit)
      BY <2>1 DEF NewsCalls
  <2> QED BY <1>8, <2>2 DEF CallsOf, Fit
<1>9. j[1] \in {"technical", "premarket", "social_macro", "fundamental", "option_chain",
               "events_news"}
    BY DEF AllJobs, PerTicker
<1> QED BY <1>3, <1>4, <1>5, <1>6, <1>7, <1>8, <1>9

\* The jobs left, the job under way and its calls.
JobsFit ==
    /\ jobs \in Seq(AllJobs)
    /\ job \in AllJobs \cup {NoJob}
    /\ row # "started" => jobs = <<>> /\ job = NoJob
    /\ todo \in Seq(CallsFit(job))

\* No job of a ticker is lost: it is left, under way, or has ended.
Accounts ==
    row # "none" => TickerJobs \subseteq Range(jobs) \cup {job} \cup records \cup nothing \cup errors

Work == JobsFit /\ Accounts

\* A circuit opens after a failure.
OpenBroken == \A e \in Endpoints : policy[e].circuit = "open" => e \in broken

\* The excuse of a job that ended with an error.
Excused(family) ==
    \E e \in EndpointsOf(family) : e \in broken \/ policy[e].requests = MaxRequests

\* The news of a ticker ended with a story that the condenser raised on.
Choked(j) == j[1] = "events_news" /\ Chokes(told[j[2]])

ErrorsExcused ==
    \A j \in errors : j[1] \in PerTicker => Excused(j[1]) \/ Choked(j)

Ended == records \cup nothing \cup errors

\* Once the news of a ticker are under way, none of its jobs is to come, and
\* once they have ended none is under way.
NewsOver ==
    /\ row = "none" => Ended = {}
    /\ NewsLast(jobs)
    /\ \A j \in Ended \cup {job} : j[1] = "events_news" =>
           \A k \in Range(jobs) : k[2] # j[2]
    /\ job # NoJob => \A j \in Ended : j[1] = "events_news" => job[2] # j[2]
    /\ Ended \subseteq AllJobs
    /\ told \in [Range(Tickers) -> Stories]

\* Excuses do not expire.
Lasting ==
    /\ broken \subseteq broken'
    /\ \A e \in Endpoints : policy[e].requests = MaxRequests => policy'[e].requests = MaxRequests

JobsInv == IInv /\ Work /\ OpenBroken /\ ErrorsExcused /\ NewsOver

\* What was excused stays excused, and so does a new error that has an excuse.
LEMMA ExcusesLast ==
    ASSUME ErrorsExcused, Lasting,
           NEW j, errors' = errors \/ errors' = errors \cup {j},
           errors' # errors /\ j[1] \in PerTicker => Excused(j[1])' \/ Choked(j)',
           \/ UNCHANGED <<told, wiring>>
           \/ \A k \in errors : Choked(k) => Choked(k)'
    PROVE  ErrorsExcused'
<1>1. ASSUME NEW f \in PerTicker, Excused(f) PROVE Excused(f)'
  <2>1. PICK e \in EndpointsOf(f) : e \in broken \/ policy[e].requests = MaxRequests
      BY <1>1 DEF Excused
  <2>2. e \in Endpoints
      BY <2>1, FamilyEndpoints
  <2>3. e \in broken' \/ policy'[e].requests = MaxRequests
      BY <2>1, <2>2 DEF Lasting
  <2> QED BY <2>1, <2>3 DEF Excused
<1>2. \A k \in errors : Choked(k) => Choked(k)'
    BY DEF Choked, Chokes, Condenses
<1> QED BY <1>1, <1>2 DEF ErrorsExcused

\* Nothing happens to the policies.
LEMMA PoliciesStay ==
    ASSUME OpenBroken, UNCHANGED <<policy, broken>> PROVE OpenBroken' /\ Lasting
  BY DEF OpenBroken, Lasting

\* The job under way ends, and is put down as ended.
LEMMA JobEnds ==
    ASSUME Work, job # NoJob, job' = NoJob, todo' = <<>>, UNCHANGED <<row, jobs>>,
           records \subseteq records', nothing \subseteq nothing', errors \subseteq errors',
           job \in records' \cup nothing' \cup errors'
    PROVE  Work'
<1>1. JobsFit'
    BY DEF Work, JobsFit
<1>2. Accounts'
    BY DEF Work, Accounts
<1> QED BY <1>1, <1>2 DEF Work

\* The job under way goes on to its next call.
LEMMA JobGoesOn ==
    ASSUME Work, todo # <<>>, Proceed, UNCHANGED <<row, jobs, records, nothing>>
    PROVE  Work'
<1>1. todo' = Tail(todo) /\ UNCHANGED <<job, errors>>
    BY DEF Proceed
<1>2. todo' \in Seq(CallsFit(job))
    BY <1>1, HeadAndTail DEF Work, JobsFit
<1>3. CallsFit(job)' = CallsFit(job)
    BY <1>1 DEF CallsFit
<1> QED BY <1>1, <1>2, <1>3 DEF Work, JobsFit, Accounts

\* The call about to be made, or under way, is one of the job's.
LEMMA CurrentFits ==
    ASSUME Work, todo # <<>>, NEW f \in PerTicker, job[1] = f
    PROVE  Current.endpoint \in EndpointsOf(f) /\ Current.endpoint \in Endpoints
           /\ About # "batch"
<1>1. Current \in CallsFit(job)
    BY HeadAndTail DEF Work, JobsFit, Current
<1>2. Current.endpoint \in EndpointsOf(f) /\ (About = "batch" => f = "premarket")
    BY <1>1 DEF CallsFit, About
<1>3. f # "premarket"
    BY DEF PerTicker
<1> QED BY <1>2, <1>3, FamilyEndpoints

\* The call raises, and its endpoint is the excuse.
LEMMA Raised ==
    ASSUME Work, ErrorsExcused, Lasting, job # NoJob, todo # <<>>, Raise,
           UNCHANGED <<row, jobs, records, nothing, told, wiring>>,
           \/ Current.endpoint \notin Endpoints
           \/ Current.endpoint \in broken'
           \/ policy'[Current.endpoint].requests = MaxRequests
    PROVE  Work' /\ ErrorsExcused'
<1>1. CASE About = "intraday"
  <2>1. Proceed
      BY <1>1 DEF Raise
  <2>2. errors' = errors
      BY <2>1 DEF Proceed
  <2> QED BY <2>1, <2>2, JobGoesOn, ExcusesLast
<1>2. CASE About # "intraday"
  <2>1. job' = NoJob /\ todo' = <<>> /\ errors' = errors \cup {job}
      BY <1>2 DEF Raise, Abandon
  <2>2. Work'
      BY <2>1, JobEnds
  <2>3. PICK j : j = job
      OBVIOUS
  <2>4. ASSUME j[1] \in PerTicker PROVE Excused(j[1])'
    <3>1. PICK f \in PerTicker : f = j[1]
        BY <2>4
    <3>2. Current.endpoint \in EndpointsOf(f) /\ Current.endpoint \in Endpoints
        BY <2>3, <3>1, CurrentFits
    <3>3. PICK e : e = Current.endpoint
        OBVIOUS
    <3>4. e \in EndpointsOf(f) /\ (e \in broken' \/ policy'[e].requests = MaxRequests)
        BY <3>2, <3>3
    <3> QED BY <3>1, <3>4 DEF Excused
  <2>5. errors' = errors \cup {j}
      BY <2>1, <2>3
  <2> QED BY <2>2, <2>4, <2>5, ExcusesLast
<1> QED BY <1>1, <1>2

\* An attempt keeps the excuses.
LEMMA AttemptLasts ==
    ASSUME IInv, Calling, broken \subseteq broken', NEW after,
           policy' = [policy EXCEPT ![Current.endpoint] = after]
    PROVE  Lasting
<1>1. ASSUME NEW e \in Endpoints, policy[e].requests = MaxRequests
      PROVE  policy'[e].requests = MaxRequests
  <2>1. e # Current.endpoint
      BY <1>1, PolicyAssumption DEF IInv, CallAllowed, CallPolicy, PoliciesFit, Policy, PolicyAssumption
  <2> QED BY <1>1, <2>1 DEF IInv, PoliciesFit
<1> QED BY <1>1 DEF Lasting

\* A policy's circuit is open after a step only if it was, or its endpoint failed.
LEMMA AttemptBroken ==
    ASSUME IInv, OpenBroken, broken \subseteq broken', NEW after,
           policy' = [policy EXCEPT ![Current.endpoint] = after],
           Current.endpoint \in Endpoints =>
                after.circuit = "closed" \/ Current.endpoint \in broken'
    PROVE  OpenBroken'
<1>1. ASSUME NEW e \in Endpoints, policy'[e].circuit = "open" PROVE e \in broken'
  <2>1. CASE e = Current.endpoint
      BY <1>1, <2>1 DEF IInv, PoliciesFit
  <2>2. CASE e # Current.endpoint
      BY <1>1, <2>2 DEF IInv, PoliciesFit, OpenBroken
  <2> QED BY <2>1, <2>2
<1> QED BY <1>1 DEF OpenBroken

\* Nothing is put down before the work begins.
LEMMA JobsInit == Init => JobsInv
<1> SUFFICES ASSUME Init PROVE JobsInv
    OBVIOUS
<1>1. IInv
    BY InitInv
<1>2. /\ jobs = <<>> /\ job = NoJob /\ todo = <<>> /\ row = "none" /\ errors = {}
      /\ \A e \in Endpoints : policy[e].circuit = "closed"
    BY DEF Init, NewPolicy
<1>3. Work
    BY <1>2 DEF Work, JobsFit, Accounts
<1>4. OpenBroken /\ ErrorsExcused
    BY <1>2 DEF OpenBroken, ErrorsExcused
<1>5. NewsOver
  <2>1. /\ records = {} /\ nothing = {} /\ told \in [Range(Tickers) -> Stories]
      BY DEF Init, Stories
  <2> QED BY <1>2, <2>1 DEF NewsOver, NewsLast, Ended, NoJob
<1> QED BY <1>1, <1>3, <1>4, <1>5 DEF JobsInv

\* To be without a job is no job of a ticker.
LEMMA NoJobOfTicker == NoJob \notin TickerJobs /\ \A j \in TickerJobs : j[1] \in PerTicker
<1>1. Families \ {"social_macro"} \subseteq PerTicker
    BY IngestionAssumption DEF IngestionAssumption, PerTicker
<1>2. ASSUME NEW j \in TickerJobs PROVE j[1] \in PerTicker
  <2>1. PICK f \in Families \ {"social_macro"}, i \in DOMAIN Tickers : j = <<f, Tickers[i]>>
      BY DEF TickerJobs
  <2> QED BY <1>1, <2>1
<1>3. NoJob[1] \notin PerTicker
    BY DEF NoJob, PerTicker
<1> QED BY <1>2, <1>3

\* The first job left begins, or ends at once.
LEMMA BeginJobs ==
    ASSUME Work, BeginJob
    PROVE  Work' /\ \E j : /\ errors' = errors \/ errors' = errors \cup {j}
                           /\ errors' # errors => j[1] = "premarket"
<1> DEFINE j == Head(jobs)
<1>1. /\ jobs # <<>> /\ jobs' = Tail(jobs) /\ job = NoJob /\ row' = row /\ j[1] # "daily_bars"
      /\ records' = records
    BY DEF BeginJob
<1>2. /\ j \in AllJobs /\ Tail(jobs) \in Seq(AllJobs)
      /\ Range(jobs) = {j} \cup Range(Tail(jobs)) /\ row = "started"
    BY <1>1, HeadAndTail DEF Work, JobsFit
<1>3. \/ /\ nothing' = nothing \cup {j} /\ errors' = errors /\ UNCHANGED <<job, todo>>
      \/ /\ errors' = errors \cup {j} /\ nothing' = nothing /\ UNCHANGED <<job, todo>>
         /\ j[1] = "premarket"
      \/ /\ job' = j /\ todo' = CallsOf(j) /\ UNCHANGED <<errors, nothing>>
    BY DEF BeginJob, NoBatch
<1> HIDE DEF j
<1>4. todo' \in Seq(CallsFit(job)')
  <2>1. CASE UNCHANGED <<job, todo>>
      BY <2>1 DEF Work, JobsFit, CallsFit
  <2>2. CASE job' = j /\ todo' = CallsOf(j)
    <3>1. CallsFit(job)' = CallsFit(j)
        BY <2>2 DEF CallsFit
    <3>2. CallsOf(j) \in Seq(CallsFit(j))
        BY <1>1, <1>2, CallsOfFit
    <3> QED BY <2>2, <3>1, <3>2
  <2> QED BY <1>3, <2>1, <2>2
<1>5. JobsFit'
    BY <1>1, <1>2, <1>3, <1>4 DEF Work, JobsFit
<1>6. Accounts'
  <2>1. NoJob \notin TickerJobs
      BY NoJobOfTicker
  <2>2. TickerJobs \subseteq {j} \cup Range(jobs') \cup records \cup nothing \cup errors
      BY <1>1, <1>2, <2>1 DEF Work, Accounts
  <2>3. j \in {job'} \cup nothing' \cup errors'
      BY <1>3
  <2>4. nothing \subseteq nothing' /\ errors \subseteq errors'
      BY <1>3
  <2> QED BY <1>1, <2>2, <2>3, <2>4 DEF Accounts
<1> QED BY <1>3, <1>5, <1>6 DEF Work

\* Bars are loaded for all tickers, and are no job of a ticker.
LEMMA LoadBarsJobs ==
    ASSUME Work, LoadBars
    PROVE  Work' /\ \E j : /\ errors' = errors \/ errors' = errors \cup {j}
                           /\ j[1] = "daily_bars"
<1> DEFINE j == Head(jobs)
<1>1. /\ jobs # <<>> /\ jobs' = Tail(jobs) /\ row' = row /\ j[1] = "daily_bars"
      /\ UNCHANGED <<job, todo, records>>
      /\ nothing \subseteq nothing' /\ j \in nothing' \cup errors'
      /\ errors' = errors \/ errors' = errors \cup {j}
    BY DEF LoadBars
<1>2. /\ j \in AllJobs /\ Tail(jobs) \in Seq(AllJobs)
      /\ Range(jobs) = {j} \cup Range(Tail(jobs)) /\ row = "started"
    BY <1>1, HeadAndTail DEF Work, JobsFit
<1> HIDE DEF j
<1>3. JobsFit'
    BY <1>1, <1>2 DEF Work, JobsFit, CallsFit
<1>4. Accounts'
    BY <1>1, <1>2 DEF Work, Accounts
<1> QED BY <1>1, <1>3, <1>4 DEF Work

\* A refused call has its endpoint for an excuse.
LEMMA RefuseJobs ==
    ASSUME JobsInv, Refuse PROVE Work' /\ OpenBroken' /\ ErrorsExcused'
<1>1. /\ job # NoJob /\ todo # <<>> /\ Refuses(CallPolicy) /\ Raise
      /\ UNCHANGED <<policy, jobs, records, nothing, broken, row, told, wiring>>
    BY DEF Refuse, NextCall
<1>2. OpenBroken' /\ Lasting
    BY <1>1, PoliciesStay DEF JobsInv
<1>3. CASE Current.endpoint \notin Endpoints
    BY <1>1, <1>2, <1>3, Raised DEF JobsInv
<1>4. CASE Current.endpoint \in Endpoints
  <2>1. Policy(CallPolicy) /\ CallPolicy = policy[Current.endpoint]
      BY <1>4 DEF JobsInv, IInv, PoliciesFit, CallPolicy
  <2>2. CallPolicy.circuit = "open" \/ CallPolicy.requests = MaxRequests
      BY <1>1, <2>1, PolicyAssumption DEF Refuses, BudgetRemaining, Policy, PolicyAssumption
  <2>3. Current.endpoint \in broken \/ policy[Current.endpoint].requests = MaxRequests
      BY <1>4, <2>1, <2>2 DEF JobsInv, OpenBroken
  <2> QED BY <1>1, <1>2, <2>3, Raised DEF JobsInv
<1> QED BY <1>3, <1>4

\* A call that fails for the last time has broken its endpoint.
LEMMA FailJobs ==
    ASSUME JobsInv, Fail PROVE Work' /\ OpenBroken' /\ ErrorsExcused'
<1> DEFINE after == Failed(Attempted(CallPolicy))
<1>1. /\ Calling /\ Raise /\ broken' = broken \cup {Current.endpoint}
      /\ policy' = [policy EXCEPT ![Current.endpoint] = after]
      /\ UNCHANGED <<jobs, records, nothing, row, told, wiring>>
    BY DEF Fail, CallPolicy
<1> HIDE DEF after
<1>2. Lasting /\ OpenBroken'
    BY <1>1, AttemptLasts, AttemptBroken DEF JobsInv
<1>3. job # NoJob /\ todo # <<>>
    BY <1>1 DEF JobsInv, IInv, RetriesFit, Calling
<1> QED BY <1>1, <1>2, <1>3, Raised DEF JobsInv

\* A call that is tried again is still under way.
LEMMA RetryJobs ==
    ASSUME JobsInv, Retry PROVE Work' /\ OpenBroken' /\ ErrorsExcused'
<1> DEFINE after == Attempted(CallPolicy)
<1>1. /\ Calling /\ broken' = broken \cup {Current.endpoint}
      /\ policy' = [policy EXCEPT ![Current.endpoint] = after]
      /\ UNCHANGED <<jobs, job, todo, records, nothing, errors, row, told, wiring>>
    BY DEF Retry, CallPolicy
<1> HIDE DEF after
<1>2. Lasting /\ OpenBroken'
    BY <1>1, AttemptLasts, AttemptBroken DEF JobsInv
<1>3. Work'
    BY <1>1 DEF JobsInv, Work, JobsFit, Accounts, CallsFit
<1> QED BY <1>1, <1>2, <1>3, ExcusesLast DEF JobsInv

\* Only the news have calls for news.
LEMMA NewsCurrent ==
    ASSUME Work, todo # <<>>, job # NoJob
    PROVE  /\ About = "news" <=> job[1] = "events_news"
           /\ job \in AllJobs
           /\ job[1] = "events_news" => job[2] \in Range(Tickers)
<1>1. Current \in CallsFit(job)
    BY HeadAndTail DEF Work, JobsFit, Current
<1>2. job \in AllJobs
    BY DEF Work, JobsFit
<1> QED BY <1>1, <1>2 DEF CallsFit, About, AllJobs

\* An answer leaves the stories of every other ticker, and takes the answer of
\* a call for news down as the ticker's stories.
LEMMA AnswerTold ==
    ASSUME JobsInv, NEW answer, Return(answer)
    PROVE  /\ wiring' = wiring
           /\ told' \in [Range(Tickers) -> Stories]
           /\ \A t \in Range(Tickers) : t # job[2] => told'[t] = told[t]
           /\ job[1] = "events_news" => told'[job[2]] = answer
           /\ job[1] # "events_news" => told' = told
           /\ Chokes(answer) => job[1] = "events_news"
<1>1. job # NoJob /\ todo # <<>>
    BY DEF Return, JobsInv, IInv, RetriesFit, Calling
<1>2. /\ About = "news" <=> job[1] = "events_news"
      /\ job[1] = "events_news" => job[2] \in Range(Tickers)
    BY <1>1, NewsCurrent DEF JobsInv
<1>3. /\ wiring' = wiring /\ answer \in MayReturn(About)
      /\ told' = IF About = "news" THEN [told EXCEPT ![job[2]] = answer] ELSE told
    BY DEF Return
<1>4. About = "news" => answer \in Stories
    BY <1>3 DEF MayReturn
<1>5. answer = "malformed" => About = "news"
    BY <1>3 DEF MayReturn
<1>6. told \in [Range(Tickers) -> Stories]
    BY DEF JobsInv, NewsOver
<1> QED BY <1>2, <1>3, <1>4, <1>5, <1>6 DEF Chokes

\* What the condenser has raised on stays what the ticker was told.
LEMMA ChokedStays ==
    ASSUME JobsInv, NEW answer, Return(answer)
    PROVE  \A k \in errors : Choked(k) => Choked(k)'
<1> SUFFICES ASSUME NEW k \in errors, Choked(k) PROVE Choked(k)'
    OBVIOUS
<1>1. job # NoJob
    BY DEF Return, JobsInv, IInv, RetriesFit, Calling
<1>2. k \in Ended /\ k[1] = "events_news" /\ k \in AllJobs
    BY DEF Choked, Ended, JobsInv, NewsOver
<1>3. k[2] # job[2] /\ k[2] \in Range(Tickers)
    BY <1>1, <1>2 DEF JobsInv, NewsOver, AllJobs
<1>4. told'[k[2]] = told[k[2]] /\ wiring' = wiring
    BY <1>3, AnswerTold
<1> QED BY <1>4 DEF Choked, Chokes, Condenses

\* An answer ends the job or lets it go on; only a batch without all its
\* prices, which is no job of a ticker, is an error, and news with a story that
\* the condenser raises on.
LEMMA ReturnJobs ==
    ASSUME JobsInv, NEW answer, Return(answer) PROVE Work' /\ OpenBroken' /\ ErrorsExcused'
<1> DEFINE after == Answered(Attempted(CallPolicy), Current.scope)
<1>1. /\ Calling
      /\ policy' = [policy EXCEPT ![Current.endpoint] = after]
      /\ UNCHANGED <<jobs, records, broken, row>>
    BY DEF Return, CallPolicy
<1>2. Current.endpoint \in Endpoints => after.circuit = "closed"
    BY <1>1, CallPolicyOpen DEF JobsInv
<1>3. \/ Proceed /\ UNCHANGED nothing
      \/ Abandon /\ nothing' = nothing \cup {job} /\ UNCHANGED errors
      \/ /\ Abandon /\ errors' = errors \cup {job} /\ UNCHANGED nothing
         /\ About = "batch" \/ Chokes(answer)
    BY DEF Return
<1> HIDE DEF after
<1>4. Lasting /\ OpenBroken'
    BY <1>1, <1>2, AttemptLasts, AttemptBroken DEF JobsInv
<1>5. job # NoJob /\ todo # <<>>
    BY <1>1 DEF JobsInv, IInv, RetriesFit, Calling
<1>c. \A k \in errors : Choked(k) => Choked(k)'
    BY ChokedStays
<1>6. CASE Proceed /\ UNCHANGED nothing
  <2>1. errors' = errors
      BY <1>6 DEF Proceed
  <2> QED BY <1>1, <1>4, <1>5, <1>6, <1>c, <2>1, JobGoesOn, ExcusesLast DEF JobsInv
<1>7. CASE Abandon /\ nothing' = nothing \cup {job} /\ UNCHANGED errors
    BY <1>1, <1>4, <1>5, <1>7, <1>c, JobEnds, ExcusesLast DEF JobsInv, Abandon
<1>8. CASE /\ Abandon /\ errors' = errors \cup {job} /\ UNCHANGED nothing
           /\ About = "batch" \/ Chokes(answer)
  <2>1. Work'
      BY <1>1, <1>5, <1>8, JobEnds DEF JobsInv, Abandon
  <2>0. PICK j : j = job
      OBVIOUS
  <2>2. j[1] \notin PerTicker \/ Choked(j)'
    <3>1. CASE About = "batch"
        BY <1>5, <2>0, <3>1, CurrentFits DEF JobsInv
    <3>2. CASE Chokes(answer)
      <4>1. j[1] = "events_news" /\ told'[j[2]] = answer /\ wiring' = wiring
          BY <2>0, <3>2, AnswerTold
      <4>2. Chokes(told[j[2]])'
          BY <3>2, <4>1 DEF Chokes, Condenses
      <4> QED BY <4>1, <4>2 DEF Choked
    <3> QED BY <1>8, <3>1, <3>2
  <2>4. errors' = errors \cup {j} /\ (j[1] \in PerTicker => Choked(j)')
      BY <1>8, <2>0, <2>2
  <2> QED BY <1>4, <1>c, <2>1, <2>4, ExcusesLast DEF JobsInv
<1> QED BY <1>3, <1>6, <1>7, <1>8

\* The news of a ticker stay its last job.
LEMMA NewsOverNext == JobsInv /\ [Next]_vars => NewsOver'
<1> SUFFICES ASSUME JobsInv, [Next]_vars PROVE NewsOver'
    OBVIOUS
<1>0. /\ NewsOver /\ JobsFit
      /\ retries # NotCalled => job # NoJob /\ todo # <<>>
    BY DEF JobsInv, Work, IInv, RetriesFit
<1>n. NoJob[1] # "events_news"
    BY DEF NoJob
\* The job under way goes on, or ends.
<1>a. ASSUME job # NoJob, job \in AllJobs, UNCHANGED <<jobs, row>>,
             told' \in [Range(Tickers) -> Stories],
             \/ job' = job /\ Ended' = Ended
             \/ job' = NoJob /\ Ended' \subseteq Ended \cup {job}
      PROVE  NewsOver'
  <2>1. row = "started"
      BY <1>0, <1>a DEF JobsFit
  <2> QED BY <1>0, <1>a, <1>n, <2>1 DEF NewsOver
\* The first job of those left is taken.
<1>b. ASSUME job = NoJob, jobs # <<>>, jobs' = Tail(jobs), UNCHANGED <<row, told>>,
             \/ job' = Head(jobs) /\ Ended' = Ended
             \/ job' = NoJob /\ Ended' \subseteq Ended \cup {Head(jobs)}
      PROVE  NewsOver'
  <2> DEFINE j == Head(jobs)
  <2>1. /\ j \in AllJobs /\ Range(jobs) = {j} \cup Range(jobs') /\ row = "started"
      BY <1>0, <1>b, HeadAndTail DEF JobsFit
  <2>2. /\ \A i \in DOMAIN jobs' : i + 1 \in DOMAIN jobs /\ jobs'[i] = jobs[i + 1]
        /\ DOMAIN jobs' \subseteq Nat \ {0} /\ 1 \in DOMAIN jobs /\ j = jobs[1]
      BY <1>0, <1>b DEF JobsFit
  <2>3. NewsLast(jobs')
    <3>1. \A i, k \in DOMAIN jobs' : i < k => i + 1 < k + 1
        BY <2>2
    <3> QED BY <1>0, <2>2, <3>1 DEF NewsOver, NewsLast
  <2>4. j[1] = "events_news" => \A k \in Range(jobs') : k[2] # j[2]
    <3>1. ASSUME NEW i \in DOMAIN jobs', j[1] = "events_news" PROVE jobs'[i][2] # j[2]
      <4>1. 1 < i + 1
          BY <2>2
      <4> QED BY <1>0, <2>2, <3>1, <4>1 DEF NewsOver, NewsLast
    <3> QED BY <3>1 DEF Range
  <2> HIDE DEF j
  <2>5. /\ j \in Range(jobs)
        /\ \/ job' = j /\ Ended' = Ended
           \/ job' = NoJob /\ Ended' \subseteq Ended \cup {j}
      BY <1>b, <2>1 DEF j
  <2> QED BY <1>0, <1>b, <1>n, <2>1, <2>3, <2>4, <2>5 DEF NewsOver
<1>1. CASE UNCHANGED vars
    BY <1>0, <1>1 DEF vars, NewsOver, Ended
<1>2. CASE Start
  <2>1. /\ jobs' = Agenda /\ row' = "started" /\ row = "none"
        /\ UNCHANGED <<job, records, nothing, errors, told>>
      BY <1>2 DEF Start
  <2>2. Ended = {} /\ job = NoJob
      BY <1>0, <2>1 DEF NewsOver, JobsFit
  <2> QED BY <1>0, <1>n, <2>1, <2>2, AgendaNewsLast DEF NewsOver, Ended
<1>3. CASE Finish
  <2>1. /\ row' # "none" /\ UNCHANGED <<jobs, job, records, nothing, errors, told>>
      BY <1>3 DEF Finish, StatusOf
  <2> QED BY <1>0, <2>1 DEF NewsOver, Ended
<1>4. CASE LoadBars
  <2>1. Ended' \subseteq Ended \cup {Head(jobs)}
      BY <1>4 DEF LoadBars, Ended
  <2> QED BY <1>4, <1>b, <2>1 DEF LoadBars
<1>5. CASE BeginJob
  <2>1. \/ job' = job /\ Ended' \subseteq Ended \cup {Head(jobs)}
        \/ job' = Head(jobs) /\ Ended' = Ended
      BY <1>5 DEF BeginJob, Ended
  <2>2. job = NoJob /\ jobs # <<>> /\ jobs' = Tail(jobs) /\ UNCHANGED <<row, told>>
      BY <1>5 DEF BeginJob
  <2> QED BY <1>b, <2>1, <2>2
<1>6. CASE Collect
  <2>1. Ended' \subseteq Ended \cup {job}
      BY <1>6 DEF Collect, Ended
  <2>2. job # NoJob /\ job' = NoJob /\ UNCHANGED <<jobs, row, told>>
      BY <1>6 DEF Collect
  <2> QED BY <1>0, <1>a, <2>1, <2>2 DEF JobsFit, NewsOver
<1>7. CASE CacheHit \/ Dial \/ Retry \/ Refuse \/ Fail
  <2>1. /\ job # NoJob /\ UNCHANGED <<jobs, row, told>>
        /\ \/ job' = job /\ Ended' = Ended
           \/ job' = NoJob /\ Ended' \subseteq Ended \cup {job}
      BY <1>0, <1>7 DEF CacheHit, Dial, Retry, Refuse, Fail, NextCall, Calling, Raise,
             Proceed, Abandon, Ended
  <2> QED BY <1>0, <1>a, <2>1 DEF JobsFit, NewsOver
<1>8. ASSUME NEW answer, Return(answer) PROVE NewsOver'
  <2>1. /\ job # NoJob /\ UNCHANGED <<jobs, row>>
        /\ \/ job' = job /\ Ended' = Ended
           \/ job' = NoJob /\ Ended' \subseteq Ended \cup {job}
      BY <1>0, <1>8 DEF Return, Calling, Proceed, Abandon, Ended
  <2>2. told' \in [Range(Tickers) -> Stories]
      BY <1>8, AnswerTold
  <2> QED BY <1>0, <1>a, <2>1, <2>2 DEF JobsFit
<1> QED BY <1>1, <1>2, <1>3, <1>4, <1>5, <1>6, <1>7, <1>8 DEF Next

\* Every step accounts for the jobs and excuses its errors.
LEMMA JobsNext == JobsInv /\ [Next]_vars => JobsInv'
<1> SUFFICES ASSUME JobsInv, [Next]_vars PROVE JobsInv'
    OBVIOUS
<1> SUFFICES Work' /\ OpenBroken' /\ ErrorsExcused'
    BY NextInv, NewsOverNext DEF JobsInv
<1>1. CASE UNCHANGED vars
    BY <1>1 DEF JobsInv, Work, JobsFit, Accounts, CallsFit, OpenBroken, ErrorsExcused, Excused,
           Choked, Chokes, Condenses, vars
<1>2. CASE Start
  <2>1. /\ row = "none" /\ row' = "started" /\ jobs' = Agenda
        /\ UNCHANGED <<policy, job, todo, records, nothing, errors, broken, told, wiring>>
      BY <1>2 DEF Start
  <2>2. Work'
      BY <2>1, AgendaCovers DEF JobsInv, Work, JobsFit, Accounts, CallsFit
  <2> QED BY <2>1, <2>2 DEF JobsInv, OpenBroken, ErrorsExcused, Excused, Choked, Chokes,
             Condenses
<1>3. CASE Finish
  <2>1. /\ row = "started" /\ jobs = <<>> /\ job = NoJob /\ row' # "none"
        /\ UNCHANGED <<policy, jobs, job, todo, records, nothing, errors, broken, told, wiring>>
      BY <1>3 DEF Finish, StatusOf
  <2>2. Work'
      BY <2>1 DEF JobsInv, Work, JobsFit, Accounts, CallsFit
  <2> QED BY <2>1, <2>2 DEF JobsInv, OpenBroken, ErrorsExcused, Excused, Choked, Chokes,
             Condenses
<1>4. CASE LoadBars
  <2>1. UNCHANGED <<policy, broken, told, wiring>>
      BY <1>4 DEF LoadBars
  <2>2. OpenBroken' /\ Lasting
      BY <2>1, PoliciesStay DEF JobsInv
  <2>3. PICK j : (errors' = errors \/ errors' = errors \cup {j}) /\ j[1] = "daily_bars"
      BY <1>4, LoadBarsJobs DEF JobsInv
  <2>4. j[1] \notin PerTicker
      BY <2>3 DEF PerTicker
  <2> QED BY <1>4, <2>1, <2>2, <2>3, <2>4, LoadBarsJobs, ExcusesLast DEF JobsInv
<1>5. CASE BeginJob
  <2>1. UNCHANGED <<policy, broken, told, wiring>>
      BY <1>5 DEF BeginJob
  <2>2. OpenBroken' /\ Lasting
      BY <2>1, PoliciesStay DEF JobsInv
  <2>3. PICK j : /\ errors' = errors \/ errors' = errors \cup {j}
                 /\ errors' # errors => j[1] = "premarket"
      BY <1>5, BeginJobs DEF JobsInv
  <2>4. ~(errors' # errors /\ j[1] \in PerTicker)
      BY <2>3 DEF PerTicker
  <2> QED BY <1>5, <2>1, <2>2, <2>3, <2>4, BeginJobs, ExcusesLast DEF JobsInv
<1>6. CASE Collect
  <2>1. /\ job # NoJob /\ job' = NoJob /\ todo' = <<>> /\ job \in records' \cup nothing'
        /\ records \subseteq records' /\ nothing \subseteq nothing'
        /\ UNCHANGED <<policy, broken, errors, row, jobs, told, wiring>>
      BY <1>6 DEF Collect
  <2> QED BY <2>1, JobEnds, PoliciesStay, ExcusesLast DEF JobsInv
<1>7. CASE CacheHit
  <2>1. /\ todo # <<>> /\ Proceed
        /\ UNCHANGED <<policy, broken, row, jobs, records, nothing, told, wiring>>
      BY <1>7 DEF CacheHit, NextCall
  <2>2. errors' = errors
      BY <2>1 DEF Proceed
  <2> QED BY <2>1, <2>2, JobGoesOn, PoliciesStay, ExcusesLast DEF JobsInv
<1>8. CASE Dial
    BY <1>8 DEF Dial, JobsInv, Work, JobsFit, Accounts, CallsFit, OpenBroken, ErrorsExcused,
           Excused, Choked, Chokes, Condenses
<1>9. CASE Refuse \/ Fail \/ Retry
    BY <1>9, RefuseJobs, FailJobs, RetryJobs
<1>10. ASSUME NEW answer, Return(answer) PROVE Work' /\ OpenBroken' /\ ErrorsExcused'
    BY <1>10, ReturnJobs
<1> QED BY <1>1, <1>2, <1>3, <1>4, <1>5, <1>6, <1>7, <1>8, <1>9, <1>10 DEF Next

\* Every job is accounted for, and every error excused, throughout.
LEMMA JobsHold == Spec => []JobsInv
  BY JobsInit, JobsNext, PTL DEF Spec

\* The news that came to nothing had nothing to keep, and no news have passed a
\* story that the condenser raises on.
NewsTold ==
    \A t \in Range(Tickers) :
        /\ <<"events_news", t>> \in nothing => NoNews(t)
        /\ Chokes(told[t]) => <<"events_news", t>> \in errors

\* Stories that are not kept are none the refresh could know to be the ticker's.
LEMMA NotKept ==
    ASSUME JobsInv, NEW t \in Range(Tickers), ~Kept(t), ~Chokes(told[t])
    PROVE  NoNews(t)
<1>1. told[t] \in Stories
    BY DEF JobsInv, NewsOver
<1> QED BY <1>1 DEF Stories, Kept, Chokes, NoNews

\* The fundamentals of a ticker answer before its news or not at all: what was
\* not kept for want of a name is not named later.
LEMMA NewsToldNext == JobsInv /\ NewsTold /\ [Next]_vars => NewsTold'
<1> SUFFICES ASSUME JobsInv, NewsTold, [Next]_vars, NEW t \in Range(Tickers)
             PROVE  /\ <<"events_news", t>> \in nothing' => NoNews(t)'
                    /\ Chokes(told[t])' => <<"events_news", t>> \in errors'
    BY DEF NewsTold
<1> DEFINE me == <<"events_news", t>>
           Goal == /\ me \in nothing' => NoNews(t)'
                   /\ Chokes(told[t])' => me \in errors'
<1>0. /\ NewsOver /\ JobsFit
      /\ retries # NotCalled => job # NoJob /\ todo # <<>>
      /\ me[1] = "events_news" /\ me[2] = t
      /\ me \in nothing => NoNews(t)
      /\ Chokes(told[t]) => me \in errors
    BY DEF JobsInv, Work, IInv, RetriesFit, NewsTold
<1> SUFFICES Goal
    OBVIOUS
<1> HIDE DEF me
\* What it was told and the name stay as they are.
<1>a. ASSUME UNCHANGED <<told, named, wiring>>, errors \subseteq errors',
             me \notin nothing => me \notin nothing'
      PROVE  Goal
  <2>1. NoNews(t)' <=> NoNews(t)
      BY <1>a DEF NoNews, Condenses
  <2>2. Chokes(told[t])' <=> Chokes(told[t])
      BY <1>a DEF Chokes, Condenses
  <2> QED BY <1>0, <1>a, <2>1, <2>2
<1>1. CASE UNCHANGED vars \/ Start \/ Finish \/ Dial \/ Retry
    BY <1>1, <1>a DEF vars, Start, Finish, Dial, Retry
<1>2. CASE LoadBars
  <2>1. Head(jobs) # me
      BY <1>0, <1>2 DEF LoadBars
  <2> QED BY <1>2, <1>a, <2>1 DEF LoadBars
<1>3. CASE BeginJob
  <2>1. NoSource(Head(jobs)) => Head(jobs) # me
      BY <1>0 DEF NoSource
  <2>2. /\ UNCHANGED <<told, named, wiring>> /\ errors \subseteq errors'
        /\ nothing' = nothing \/ (NoSource(Head(jobs)) /\ nothing' = nothing \cup {Head(jobs)})
      BY <1>3 DEF BeginJob
  <2> QED BY <1>a, <2>1, <2>2
<1>4. CASE CacheHit \/ Refuse \/ Fail
    BY <1>4, <1>a DEF CacheHit, Refuse, Fail, Raise, Proceed
<1>5. CASE Collect
  <2>1. UNCHANGED <<told, named, wiring, errors>> /\ job # NoJob
      BY <1>5 DEF Collect
  <2>2. CASE job # me
      BY <1>5, <1>a, <2>1, <2>2 DEF Collect
  <2>3. CASE job = me
    <3>1. job \notin errors
        BY <1>0, <2>1, <2>3 DEF NewsOver, Ended
    <3>2. ~Chokes(told[t])
        BY <1>0, <2>3, <3>1
    <3>3. me \in nothing' => ~Kept(t) \/ me \in nothing
      <4>1. Recorded(me) = IF Kept(t) THEN {TRUE} ELSE BOOLEAN
          BY <1>0 DEF Recorded
      <4> SUFFICES ASSUME Kept(t) PROVE nothing' = nothing
          OBVIOUS
      <4>2. Recorded(me) = {TRUE}
          BY <4>1
      <4>3. PICK recorded \in Recorded(me) :
                nothing' = IF recorded THEN nothing ELSE nothing \cup {me}
          BY <1>5, <2>3 DEF Collect
      <4>4. recorded = TRUE
          BY <4>2, <4>3
      <4> QED BY <4>3, <4>4, Zenon
    <3>4. me \in nothing' => NoNews(t)
        BY <1>0, <3>2, <3>3, NotKept
    <3>5. NoNews(t)' <=> NoNews(t)
        BY <2>1 DEF NoNews, Condenses
    <3>6. Chokes(told[t])' <=> Chokes(told[t])
        BY <2>1 DEF Chokes, Condenses
    <3> QED BY <3>2, <3>4, <3>5, <3>6
  <2> QED BY <2>2, <2>3
<1>6. ASSUME NEW answer, Return(answer) PROVE Goal
  <2>1. /\ job # NoJob /\ todo # <<>> /\ answer \in MayReturn(About)
        /\ named' = IF answer = "named" THEN named \cup {job[2]} ELSE named
        /\ nothing' = nothing \/ (nothing' = nothing \cup {job} /\ About \in Decisive)
        /\ errors \subseteq errors'
        /\ Chokes(answer) => errors' = errors \cup {job}
      BY <1>0, <1>6 DEF Return, Calling, Proceed, Chokes
  <2>2. wiring' = wiring
      BY <1>6, AnswerTold
  <2>3. job[1] = "events_news" => About = "news" /\ nothing' = nothing
      BY <2>1, NewsCurrent DEF JobsInv, Decisive
  <2>4. me \notin nothing => me \notin nothing'
      BY <1>0, <2>1, <2>3
  <2>5. CASE job[2] = t
    <3>1. me \notin nothing
        BY <1>0, <2>1, <2>5 DEF NewsOver, Ended
    <3>2. CASE job[1] = "events_news"
      <4>1. job = me
          BY <2>1, <2>5, <3>2, NewsCurrent DEF JobsInv, AllJobs, me
      <4>2. told'[t] = answer
          BY <1>6, <2>5, <3>2, AnswerTold
      <4>3. Chokes(told[t])' => Chokes(answer)
          BY <2>2, <4>2 DEF Chokes, Condenses
      <4> QED BY <2>1, <2>4, <3>1, <4>1, <4>3
    <3>3. CASE job[1] # "events_news"
      <4>1. told' = told
          BY <1>6, <3>3, AnswerTold
      <4>2. Chokes(told[t])' <=> Chokes(told[t])
          BY <2>2, <4>1 DEF Chokes, Condenses
      <4> QED BY <1>0, <2>1, <2>4, <3>1, <4>2
    <3> QED BY <3>2, <3>3
  <2>6. CASE job[2] # t
    <3>1. told'[t] = told[t]
        BY <1>6, <2>6, AnswerTold
    <3>2. t \in named' <=> t \in named
        BY <2>1, <2>6
    <3>3. NoNews(t)' <=> NoNews(t)
        BY <2>2, <3>1, <3>2 DEF NoNews, Condenses
    <3>4. Chokes(told[t])' <=> Chokes(told[t])
        BY <2>2, <3>1 DEF Chokes, Condenses
    <3> QED BY <1>0, <2>1, <2>4, <3>3, <3>4
  <2> QED BY <2>5, <2>6
<1> QED BY <1>1, <1>2, <1>3, <1>4, <1>5, <1>6 DEF Next

\* Every family is tried for every ticker, and fails only because of its own
\* endpoints or of a story the condenser raises on; news come to nothing only
\* for want of a story that the refresh could know to be the ticker's.
THEOREM FamilyIsolationHolds == Spec => []FamilyIsolation
<1>1. JobsInv /\ NewsTold => FamilyIsolation
  <2> SUFFICES ASSUME JobsInv, NewsTold, Done, NEW i \in DOMAIN Tickers,
                      NEW f \in Families \ {"social_macro"}
               PROVE  \/ <<f, Tickers[i]>> \in records
                      \/ <<f, Tickers[i]>> \in nothing
                             /\ (f = "events_news" => NoNews(Tickers[i]))
                      \/ Excused(f)
                      \/ f = "events_news" /\ Chokes(told[Tickers[i]])
      BY DEF FamilyIsolation, Excused
  <2> DEFINE t == Tickers[i]
             j == <<f, t>>
  <2>1. j \in TickerJobs /\ t \in Range(Tickers)
      BY DEF TickerJobs, Range
  <2>2. jobs = <<>> /\ job = NoJob /\ row # "none"
      BY DEF Done, JobsInv, Work, JobsFit
  <2>3. Range(jobs) = {}
      BY <2>2 DEF Range
  <2>4. j \in records \cup nothing \cup errors /\ f \in PerTicker
      BY <2>1, <2>2, <2>3, NoJobOfTicker DEF JobsInv, Work, Accounts
  <2>5. j \in nothing /\ f = "events_news" => NoNews(t)
      BY <2>1 DEF NewsTold
  <2>6. j \in errors => Excused(f) \/ (f = "events_news" /\ Chokes(told[t]))
      BY <2>4 DEF JobsInv, ErrorsExcused, Choked
  <2> HIDE DEF t
  <2> QED BY <2>4, <2>5, <2>6 DEF t
<1>2. Init => NewsTold
  <2>1. ASSUME Init, NEW t \in Range(Tickers) PROVE ~Chokes(told[t]) /\ nothing = {}
      BY <2>1 DEF Init, Chokes
  <2> QED BY <2>1 DEF NewsTold
<1>3. Spec => []NewsTold
    BY JobsHold, <1>2, NewsToldNext, PTL DEF Spec
<1> QED BY JobsHold, <1>1, <1>3, PTL

-----------------------------------------------------------------------------
(* What stored bars are enough for.                                        *)

Priced == wiring.batch \/ wiring.preOpen \/ "premarket_price" \in wiring.lacks

\* With its bars and prices at hand, a ticker's technical job has nothing left
\* that could end it.
Safe(j) ==
    /\ j \notin nothing \cup errors
    /\ job = j => \A i \in DOMAIN todo : todo[i].scope[1] = "intraday"

Sufficient ==
    Priced => \A t \in Range(Tickers) : HasBars(t) => Safe(<<"technical", t>>)

\* The calls of such a job.
LEMMA OnlyIntraday ==
    ASSUME Priced, NEW t, HasBars(t)
    PROVE  \A i \in DOMAIN TechnicalCalls(t) : TechnicalCalls(t)[i].scope[1] = "intraday"
<1>1. BarsCalls(t) = <<>> /\ BenchmarkCalls = <<>>
    BY DEF BarsCalls, BenchmarkCalls, TableOnly, HasBars
<1>2. PremarketCalls(t) = <<>>
    BY DEF PremarketCalls, Priced
<1> DEFINE c == IntradayCalls(t)
<1>3. c = <<>> \/ c = <<Call("market_bars", "intraday", t)>>
    BY DEF IntradayCalls
<1>4. Call("market_bars", "intraday", t).scope[1] = "intraday"
    BY DEF Call
<1>5. c \in Seq({Call("market_bars", "intraday", t)})
  <2> DEFINE call == Call("market_bars", "intraday", t)
  <2>1. c = <<>> \/ c = <<call>>
      BY <1>3
  <2> HIDE DEF call
  <2> DEFINE S == {call}
  <2>2. call \in S
      OBVIOUS
  <2> HIDE DEF c, S
  <2>3. <<>> \in Seq(S) /\ <<call>> \in Seq(S)
      BY <2>2
  <2>4. c \in Seq(S)
      BY <2>1, <2>3, Zenon
  <2> QED BY <2>4 DEF call, S
<1>6. TechnicalCalls(t) = ((<<>> \o <<>>) \o <<>>) \o c
    BY <1>1, <1>2 DEF TechnicalCalls
<1> HIDE DEF c
<1>7. TechnicalCalls(t) = c
    BY <1>5, <1>6
<1>8. \A i \in DOMAIN c : c[i] = Call("market_bars", "intraday", t)
    BY <1>5
<1> QED BY <1>4, <1>7, <1>8

\* Tables and prices only get worse before the jobs begin.
LEMMA SafeStays ==
    ASSUME Sufficient, wiring' = wiring, stored' \subseteq stored,
           \A t \in Range(Tickers) : Priced /\ HasBars(t) /\ Safe(<<"technical", t>>)
                => Safe(<<"technical", t>>)'
    PROVE  Sufficient'
<1> SUFFICES ASSUME Priced', NEW t \in Range(Tickers), HasBars(t)'
             PROVE  Safe(<<"technical", t>>)'
    BY DEF Sufficient
<1>1. Priced /\ HasBars(t)
    BY DEF Priced, HasBars
<1> QED BY <1>1 DEF Sufficient

\* The job under way goes on, or ends for a reason that such a job has not.
LEMMA SafeCalls ==
    ASSUME Sufficient, job # NoJob, todo # <<>>, todo \in Seq(CallsFit(job)),
           UNCHANGED <<wiring, stored>>,
           \/ UNCHANGED <<job, todo, nothing, errors>>
           \/ Proceed /\ UNCHANGED nothing
           \/ /\ Abandon /\ About # "intraday"
              /\ nothing' \subseteq nothing \cup {job} /\ errors' \subseteq errors \cup {job}
    PROVE  Sufficient'
<1>1. ASSUME NEW t, Safe(<<"technical", t>>) PROVE Safe(<<"technical", t>>)'
  <2>1. CASE UNCHANGED <<job, todo, nothing, errors>>
      BY <1>1, <2>1 DEF Safe
  <2>2. CASE Proceed /\ UNCHANGED nothing
    <3>1. todo' = Tail(todo) /\ UNCHANGED <<job, errors, nothing>>
        BY <2>2 DEF Proceed
    <3>2. \A i \in DOMAIN Tail(todo) : i + 1 \in DOMAIN todo /\ Tail(todo)[i] = todo[i + 1]
        OBVIOUS
    <3> QED BY <1>1, <3>1, <3>2 DEF Safe
  <2>3. CASE /\ Abandon /\ About # "intraday"
             /\ nothing' \subseteq nothing \cup {job} /\ errors' \subseteq errors \cup {job}
    <3>1. job # <<"technical", t>>
      <4>1. 1 \in DOMAIN todo /\ Head(todo) = todo[1]
          OBVIOUS
      <4> QED BY <1>1, <2>3, <4>1 DEF Safe, About, Current
    <3>2. job' = NoJob /\ NoJob # <<"technical", t>>
        BY <2>3 DEF Abandon, NoJob
    <3> QED BY <1>1, <2>3, <3>1, <3>2 DEF Safe
  <2> QED BY <2>1, <2>2, <2>3
<1> QED BY <1>1, SafeStays

\* A call that raises is no reason to end such a job.
LEMMA SafeRaise ==
    ASSUME Sufficient, job # NoJob, todo # <<>>, todo \in Seq(CallsFit(job)),
           UNCHANGED <<wiring, stored, nothing>>, Raise
    PROVE  Sufficient'
  BY SafeCalls DEF Raise, Abandon

\* A job begins, or ends at once.
LEMMA SafeBegins ==
    ASSUME JobsInv, Sufficient, BeginJob PROVE Sufficient'
<1> DEFINE j == Head(jobs)
<1>1. /\ job = NoJob /\ UNCHANGED <<wiring, stored>>
      /\ \/ NoSource(j) /\ nothing' = nothing \cup {j} /\ UNCHANGED <<job, todo, errors>>
         \/ NoBatch(j) /\ errors' = errors \cup {j} /\ UNCHANGED <<job, todo, nothing>>
         \/ job' = j /\ todo' = CallsOf(j) /\ UNCHANGED <<errors, nothing>>
    BY DEF BeginJob
<1> HIDE DEF j
<1>2. ASSUME NEW t \in Range(Tickers), Priced, HasBars(t), Safe(<<"technical", t>>)
      PROVE  Safe(<<"technical", t>>)'
  <2> DEFINE me == <<"technical", t>>
  <2>0. me[1] = "technical" /\ me[2] = t /\ NoJob # me
      BY DEF NoJob
  <2> HIDE DEF me
  <2>1. CASE NoSource(j) /\ nothing' = nothing \cup {j} /\ UNCHANGED <<job, todo, errors>>
    <3>1. j # me
        BY <1>2, <2>0, <2>1 DEF NoSource
    <3> QED BY <1>2, <2>1, <3>1 DEF Safe, me
  <2>2. CASE NoBatch(j) /\ errors' = errors \cup {j} /\ UNCHANGED <<job, todo, nothing>>
    <3>1. j # me
        BY <2>0, <2>2 DEF NoBatch
    <3> QED BY <1>2, <2>2, <3>1 DEF Safe, me
  <2>3. CASE job' = j /\ todo' = CallsOf(j) /\ UNCHANGED <<errors, nothing>>
    <3>1. j = me => CallsOf(j) = TechnicalCalls(t)
        BY <2>0 DEF CallsOf
    <3>2. j = me => \A i \in DOMAIN todo' : todo'[i].scope[1] = "intraday"
        BY <1>2, <2>3, <3>1, OnlyIntraday
    <3> QED BY <1>2, <2>3, <3>2 DEF Safe, me
  <2> QED BY <1>1, <2>1, <2>2, <2>3
<1> QED BY <1>1, <1>2, SafeStays

\* Every step keeps such jobs safe.
LEMMA SufficientNext == JobsInv /\ Sufficient /\ [Next]_vars => Sufficient'
<1> SUFFICES ASSUME JobsInv, Sufficient, [Next]_vars PROVE Sufficient'
    OBVIOUS
<1>0. todo \in Seq(CallsFit(job)) /\ (retries # NotCalled => job # NoJob /\ todo # <<>>)
    BY DEF JobsInv, Work, JobsFit, IInv, RetriesFit
<1>1. ASSUME UNCHANGED <<wiring, stored, job, todo, nothing, errors>> PROVE Sufficient'
    BY <1>1 DEF Sufficient, Priced, HasBars, Safe
<1>2. CASE UNCHANGED vars \/ Start \/ Finish \/ Dial \/ Retry
    BY <1>1, <1>2 DEF vars, Start, Finish, Dial, Retry
<1>3. CASE LoadBars
  <2> DEFINE j == Head(jobs)
  <2>1. /\ j[1] = "daily_bars" /\ UNCHANGED <<wiring, job, todo>> /\ stored' \subseteq stored
        /\ nothing' \subseteq nothing \cup {j} /\ errors' \subseteq errors \cup {j}
      BY <1>3 DEF LoadBars
  <2> HIDE DEF j
  <2>2. ASSUME NEW t, Safe(<<"technical", t>>) PROVE Safe(<<"technical", t>>)'
    <3>1. j # <<"technical", t>>
        BY <2>1
    <3> QED BY <2>1, <2>2, <3>1 DEF Safe
  <2> QED BY <2>1, <2>2, SafeStays
<1>4. CASE BeginJob
    BY <1>4, SafeBegins
<1>5. CASE Collect
  <2>1. /\ job' = NoJob /\ UNCHANGED <<wiring, stored, errors>>
        /\ nothing' = nothing \/ (job[1] # "technical" /\ nothing' = nothing \cup {job})
      BY <1>5 DEF Collect, Recorded
  <2>2. ASSUME NEW t, Safe(<<"technical", t>>) PROVE Safe(<<"technical", t>>)'
    <3>1. NoJob # <<"technical", t>> /\ (job[1] # "technical" => job # <<"technical", t>>)
        BY DEF NoJob
    <3> QED BY <2>1, <2>2, <3>1 DEF Safe
  <2> QED BY <2>1, <2>2, SafeStays
<1>6. CASE CacheHit
    BY <1>0, <1>6, SafeCalls DEF CacheHit, NextCall
<1>7. CASE Refuse
    BY <1>0, <1>7, SafeRaise DEF Refuse, NextCall
<1>8. CASE Fail
    BY <1>0, <1>8, SafeRaise DEF Fail, Calling
<1>9. ASSUME NEW answer, Return(answer) PROVE Sufficient'
  <2>1. /\ UNCHANGED <<wiring, stored>> /\ job # NoJob /\ todo # <<>>
        /\ \/ Proceed /\ UNCHANGED nothing
           \/ /\ Abandon /\ About # "intraday"
              /\ nothing' \subseteq nothing \cup {job} /\ errors' \subseteq errors \cup {job}
      BY <1>0, <1>9 DEF Return, Calling, Decisive, Chokes, MayReturn
  <2> QED BY <1>0, <2>1, SafeCalls
<1> QED BY <1>2, <1>3, <1>4, <1>5, <1>6, <1>7, <1>8, <1>9 DEF Next

\* With bars in the table and prices in a batch, a ticker has its technical
\* record whatever the provider does.
THEOREM StoredBarsSufficeHolds == Spec => []StoredBarsSuffice
<1>1. Init => Sufficient
    BY DEF Init, Sufficient, Safe, NoJob
<1>2. Spec => []Sufficient
    BY JobsHold, <1>1, SufficientNext, PTL DEF Spec
<1>3. JobsInv /\ Sufficient => StoredBarsSuffice
  <2> SUFFICES ASSUME JobsInv, Sufficient, Done, Priced, NEW i \in DOMAIN Tickers,
                      HasBars(Tickers[i]), "technical" \in Families
               PROVE  <<"technical", Tickers[i]>> \in records
      BY DEF StoredBarsSuffice, Priced
  <2>1. <<"technical", Tickers[i]>> \in TickerJobs
      BY DEF TickerJobs
  <2>2. jobs = <<>> /\ job = NoJob /\ row # "none"
      BY DEF Done, JobsInv, Work, JobsFit
  <2>3. Range(jobs) = {}
      BY <2>2 DEF Range
  <2>4. <<"technical", Tickers[i]>> \in records \cup nothing \cup errors
      BY <2>1, <2>2, <2>3, NoJobOfTicker DEF JobsInv, Work, Accounts
  <2>5. Tickers[i] \in Range(Tickers)
      BY DEF Range
  <2> QED BY <2>4, <2>5 DEF Sufficient, Safe
<1> QED BY JobsHold, <1>2, <1>3, PTL

-----------------------------------------------------------------------------
(* The table a refresh reads its daily bars from: who fills it, and what    *)
(* may be read of it later (DailyBars).                                     *)

\* A phase that decided while no batch was under way read what will be seen as
\* of its time for ever: its time is a morning, and any batch under way began
\* in a later evening.
QuietOnes ==
    /\ now \in Nat
    /\ \A d \in decided :
         /\ d.at \in Nat /\ d.at <= now /\ d.at % 2 = 1
         /\ d.quiet => /\ ReadBy(d.symbols, d.at) = d.seen
                       /\ batch.running => batch.at \in Nat /\ batch.at > d.at

\* Rows that come later are not read.
LEMMA LaterRowsUnseen ==
    ASSUME NEW time \in Nat, NEW symbols, NEW at \in Nat, at > time,
           NEW new, bars' = bars \cup new, \A b \in new : b.at = at
    PROVE  ReadBy(symbols, time)' = ReadBy(symbols, time)
<1>1. \A b \in new : ~(b.at <= time)
    OBVIOUS
<1>2. \A t : Visible(t, time)' = Visible(t, time)
    BY <1>1 DEF Visible
<1>3. \A t : Seen(t, time)' = Seen(t, time)
    BY <1>2 DEF Seen, OnePerDate
<1> QED BY <1>3 DEF ReadBy

\* As long as no row is stored, nothing that was read changes.
LEMMA SameRowsSeen ==
    ASSUME UNCHANGED bars, NEW symbols, NEW time
    PROVE  ReadBy(symbols, time)' = ReadBy(symbols, time)
  BY DEF ReadBy, Seen, Visible, OnePerDate

\* Rows and batch stand still while time goes on.
LEMMA QuietStays ==
    ASSUME QuietOnes, now' \in Nat, now' >= now, UNCHANGED <<bars, decided>>,
           batch'.running => batch' = batch
    PROVE  QuietOnes'
<1> SUFFICES ASSUME NEW d \in decided
             PROVE  /\ d.at \in Nat /\ d.at <= now' /\ d.at % 2 = 1
                    /\ d.quiet => /\ ReadBy(d.symbols, d.at)' = d.seen
                                  /\ batch'.running => batch'.at \in Nat /\ batch'.at > d.at
    BY DEF QuietOnes
<1>1. d.at \in Nat /\ d.at <= now' /\ d.at % 2 = 1
    BY DEF QuietOnes
<1>2. ReadBy(d.symbols, d.at)' = ReadBy(d.symbols, d.at)
    BY SameRowsSeen
<1> QED BY <1>1, <1>2 DEF QuietOnes

\* A morning phase reads the bars of the moment.
LEMMA QuietDecides ==
    ASSUME QuietOnes, Morning, NEW symbols, Decide(symbols), UNCHANGED <<now, batch, bars>>
    PROVE  QuietOnes'
<1> DEFINE new == [at |-> now, symbols |-> symbols \cup Support, quiet |-> ~batch.running,
                   seen |-> ReadBy(symbols \cup Support, now)]
<1>1. decided' = decided \cup {new}
    BY DEF Decide
<1>2. /\ new.at = now /\ new.quiet = ~batch.running
      /\ new.seen = ReadBy(new.symbols, new.at)
    OBVIOUS
<1>3. now % 2 = 1 /\ now \in Nat
    BY DEF Morning, QuietOnes
<1> HIDE DEF new
<1> SUFFICES ASSUME NEW d \in decided'
             PROVE  /\ d.at \in Nat /\ d.at <= now /\ d.at % 2 = 1
                    /\ d.quiet => /\ ReadBy(d.symbols, d.at)' = d.seen
                                  /\ batch.running => batch.at \in Nat /\ batch.at > d.at
    BY <1>3 DEF QuietOnes
<1>4. ReadBy(d.symbols, d.at)' = ReadBy(d.symbols, d.at)
    BY SameRowsSeen
<1>5. CASE d \in decided
    BY <1>4, <1>5 DEF QuietOnes
<1>6. CASE d = new
  <2>1. d.at \in Nat /\ d.at <= now /\ d.at % 2 = 1
      BY <1>2, <1>3, <1>6
  <2>2. ReadBy(d.symbols, d.at)' = d.seen
      BY <1>2, <1>4, <1>6, Zenon
  <2>3. ~(d.quiet /\ batch.running)
      BY <1>2, <1>6, Zenon
  <2> QED BY <2>1, <2>2, <2>3, Zenon
<1> QED BY <1>1, <1>5, <1>6

\* Every step of scans, reviews and batches keeps what was read.
LEMMA QuietNext == QuietOnes /\ [BarsNext]_barVars => QuietOnes'
<1> SUFFICES ASSUME QuietOnes, [BarsNext]_barVars PROVE QuietOnes'
    OBVIOUS
<1>0. now \in Nat
    BY DEF QuietOnes
<1>1. CASE UNCHANGED barVars
    BY <1>0, <1>1, QuietStays DEF barVars
<1>2. CASE Pin \/ Unpin
    BY <1>0, <1>2, QuietStays DEF Pin, Unpin
<1>3. CASE Tick
  <2>1. now' = now + 1 /\ UNCHANGED <<batch, bars, decided>>
      BY <1>3 DEF Tick
  <2> QED BY <1>0, <2>1, QuietStays
<1>4. CASE Preopen
  <2>1. PICK priced \in PriceAnswers : Decide(Passing(priced) \cup Forced)
      BY <1>4 DEF Preopen
  <2>2. Morning /\ UNCHANGED <<now, batch, bars>>
      BY <1>4 DEF Preopen
  <2> QED BY <2>1, <2>2, QuietDecides
<1>5. CASE ManualReview
  <2>1. PICK priced \in TargetedAnswers : Decide(Passing(priced))
      BY <1>5 DEF ManualReview
  <2>2. Morning /\ UNCHANGED <<now, batch, bars>>
      BY <1>5 DEF ManualReview
  <2> QED BY <2>1, <2>2, QuietDecides
<1>6. CASE StartBatch
  <2>1. now % 2 # 1 /\ batch'.at = now /\ UNCHANGED <<now, bars, decided>>
      BY <1>6 DEF StartBatch, Morning
  <2> SUFFICES ASSUME NEW d \in decided
               PROVE  d.quiet => ReadBy(d.symbols, d.at)' = d.seen /\ now > d.at
      BY <1>0, <2>1 DEF QuietOnes
  <2>2. ReadBy(d.symbols, d.at)' = ReadBy(d.symbols, d.at)
      BY <2>1, SameRowsSeen
  <2>3. d.at \in Nat /\ d.at <= now /\ d.at % 2 = 1
      BY DEF QuietOnes
  <2>4. now > d.at
      BY <1>0, <2>1, <2>3
  <2> QED BY <2>2, <2>4 DEF QuietOnes
<1>7. CASE FailBatch
    BY <1>0, <1>7, QuietStays DEF FailBatch, EndBatch
<1>8. CASE FinishBatch
  <2>1. PICK answer \in Answers : bars' = bars \cup New(answer)
      BY <1>8 DEF FinishBatch
  <2>2. /\ batch.running /\ batch' = [batch EXCEPT !.running = FALSE]
        /\ UNCHANGED <<now, decided>>
      BY <1>8 DEF FinishBatch, EndBatch
  <2> SUFFICES ASSUME NEW d \in decided
               PROVE  d.quiet => /\ ReadBy(d.symbols, d.at)' = d.seen
                                 /\ batch'.running => batch'.at \in Nat /\ batch'.at > d.at
      BY <2>2 DEF QuietOnes
  <2>3. d.quiet => batch.at \in Nat /\ batch.at > d.at /\ d.at \in Nat
      BY <2>2 DEF QuietOnes
  <2>4. \A b \in New(answer) : b.at = batch.at
      BY DEF New, Bar
  <2>5. d.quiet => ReadBy(d.symbols, d.at)' = ReadBy(d.symbols, d.at)
      BY <2>1, <2>3, <2>4, LaterRowsUnseen
  <2>6. ~batch'.running \/ batch' = batch
      BY <2>2
  <2> QED BY <2>3, <2>5, <2>6 DEF QuietOnes
<1> QED BY <1>1, <1>2, <1>3, <1>4, <1>5, <1>6, <1>7, <1>8 DEF BarsNext

\* What a phase read while no batch was under way is read again, bar for bar,
\* at any later time as of its decision time.
THEOREM QuietReplayHolds == BarsSpec => []QuietReplayIsStable
<1>1. BarsInit => QuietOnes
    BY DEF BarsInit, QuietOnes
<1>2. QuietOnes => QuietReplayIsStable
    BY DEF QuietOnes, QuietReplayIsStable
<1> QED BY <1>1, <1>2, QuietNext, PTL DEF BarsSpec

\* A complete answer closes every hole that earlier batches left in its window.
THEOREM FullAnswerHolds == BarsSpec => []FullAnswerHeals
<1>1. BarsInit => FullAnswerHeals
    BY DEF BarsInit, NoReport, FullAnswerHeals
<1>2. FullAnswerHeals /\ [BarsNext]_barVars => FullAnswerHeals'
  <2> SUFFICES ASSUME FullAnswerHeals, [BarsNext]_barVars
               PROVE  FullAnswerHeals'
      OBVIOUS
  <2>1. CASE UNCHANGED <<bars, report>>
      BY <2>1 DEF FullAnswerHeals, LatestCompleted
  <2>2. CASE FinishBatch
    <3>1. PICK answer \in Answers :
              /\ bars' = bars \cup New(answer)
              /\ report'.at = batch.at /\ report'.symbols = batch.symbols
              /\ report'.full = (answer = batch.symbols \X Requested(batch.at))
        BY <2>2 DEF FinishBatch
    <3> SUFFICES ASSUME report'.full, NEW t \in batch.symbols, NEW d \in Sessions,
                        LatestCompleted(batch.at) - Window < d,
                        d <= LatestCompleted(batch.at)
                 PROVE  \E b \in bars' : b.ticker = t /\ b.day = d
        BY <3>1 DEF FullAnswerHeals
    <3>2. d \in Requested(batch.at)
        BY DEF Requested, ExpectedDate
    <3>3. <<t, d>> \in answer
        BY <3>1, <3>2
    <3>4. CASE \E b \in bars : b.provider = "yahoo" /\ <<b.ticker, b.day>> = <<t, d>>
        BY <3>1, <3>4
    <3>5. CASE ~\E b \in bars : b.provider = "yahoo" /\ <<b.ticker, b.day>> = <<t, d>>
      <4>1. Bar(t, d, "yahoo", batch.at) \in New(answer)
          BY <3>3, <3>5 DEF New
      <4> QED BY <3>1, <4>1 DEF Bar
    <3> QED BY <3>4, <3>5
  <2> QED BY <2>1, <2>2 DEF BarsNext, Preopen, ManualReview, Pin, Unpin,
             StartBatch, FailBatch, Tick, barVars
<1> QED BY <1>1, <1>2, PTL DEF BarsSpec

\* A batch that leaves out a ticker of the latest full scan does so because of
\* a manual review of that day or a later one.
THEOREM OnlyAReviewHolds == BarsSpec => OnlyAReviewNarrows
<1> DEFINE Narrows == batch'.running /\ ~batch.running /\ ~(scan.included \subseteq batch'.symbols)
<1>1. StartBatch => (Narrows => review.day >= scan.day)
    BY DEF StartBatch, LatestSnapshot
<1>2. [BarsNext]_barVars /\ ~StartBatch => ~Narrows
    BY DEF BarsNext, Preopen, ManualReview, Pin, Unpin,
           FinishBatch, FailBatch, EndBatch, Tick, barVars
<1>3. [BarsNext]_barVars => [Narrows => review.day >= scan.day]_barVars
    BY <1>1, <1>2
<1> QED BY <1>3, PTL DEF BarsSpec, OnlyAReviewNarrows

\* What a batch stores: bars of its sessions, one for each ticker and date, and
\* none that is stored already.
LEMMA NewBars ==
    ASSUME NEW answer \in Answers
    PROVE  /\ \A b \in New(answer) :
                /\ b \in [ticker : batch.symbols, day : Sessions,
                          provider : {"yahoo"}, at : {batch.at}]
                /\ \A o \in bars : ~(o.provider = "yahoo" /\ o.ticker = b.ticker /\ o.day = b.day)
           /\ \A a, b \in New(answer) : a.ticker = b.ticker /\ a.day = b.day => a = b
<1>1. ASSUME NEW b \in New(answer)
      PROVE  \E t \in batch.symbols, d \in Sessions :
                /\ b = Bar(t, d, "yahoo", batch.at)
                /\ \A o \in bars : o.provider = "yahoo" => <<o.ticker, o.day>> # <<t, d>>
    BY DEF New, Answers, Requested
<1>2. ASSUME NEW b \in New(answer)
      PROVE  /\ b \in [ticker : batch.symbols, day : Sessions,
                       provider : {"yahoo"}, at : {batch.at}]
             /\ b = Bar(b.ticker, b.day, "yahoo", batch.at)
             /\ \A o \in bars : ~(o.provider = "yahoo" /\ o.ticker = b.ticker /\ o.day = b.day)
    BY <1>1 DEF Bar
<1>3. ASSUME NEW a \in New(answer), NEW b \in New(answer),
             a.ticker = b.ticker, a.day = b.day
      PROVE  a = b
    BY <1>2, <1>3
<1> QED BY <1>2, <1>3

\* Every variable of the bars keeps its type, and no bar is stored twice for a
\* ticker, date and provider.
THEOREM BarsTypeCorrect == BarsSpec => []BarsTypeOK
<1> /\ Sessions \subseteq Nat /\ 0 \in Sessions /\ LastTime \in Nat \ {0}
    /\ Legacy \subseteq BarSymbols \X {0}
  BY BarConstants DEF BarConstants
<1> DEFINE BarSet == [ticker : BarSymbols, day : Sessions,
                      provider : {"yahoo", "legacy"}, at : 0 .. LastTime]
           BatchSet == [running : BOOLEAN, at : 0 .. LastTime, symbols : SUBSET BarSymbols]
           OneRow(s) == \A a, b \in s : /\ a.ticker = b.ticker /\ a.day = b.day
                                        /\ a.provider = b.provider
                                      => a = b
<1>0. \A d \in -1 .. LastTime, s \in SUBSET BarSymbols :
          [day |-> d, included |-> s] \in Snapshots
    BY DEF Snapshots
<1>1. BarsInit => BarsTypeOK
  <2> SUFFICES ASSUME BarsInit PROVE BarsTypeOK
      OBVIOUS
  <2>1. now \in 0 .. LastTime /\ pinned \subseteq Pinnable
      BY DEF BarsInit
  <2>2. scan \in Snapshots /\ review \in Snapshots
      BY <1>0 DEF BarsInit, BarSymbols
  <2>3. batch \in BatchSet
      BY DEF BarsInit
  <2>4. bars \subseteq BarSet
      BY DEF BarsInit, Bar
  <2>5. OneRow(bars)
      BY DEF BarsInit, Bar
  <2> QED BY <2>1, <2>2, <2>3, <2>4, <2>5 DEF BarsTypeOK
<1>2. BarsTypeOK /\ [BarsNext]_barVars => BarsTypeOK'
  <2> SUFFICES ASSUME BarsTypeOK, [BarsNext]_barVars PROVE BarsTypeOK'
      OBVIOUS
  <2>0. /\ now \in 0 .. LastTime /\ pinned \subseteq Pinnable
        /\ scan \in Snapshots /\ review \in Snapshots
        /\ batch \in BatchSet /\ bars \subseteq BarSet /\ OneRow(bars)
      BY DEF BarsTypeOK
  <2> DEFINE Goal == /\ now' \in 0 .. LastTime /\ pinned' \subseteq Pinnable
                     /\ scan' \in Snapshots /\ review' \in Snapshots
                     /\ batch' \in BatchSet /\ bars' \subseteq BarSet /\ OneRow(bars')
  <2>g. SUFFICES Goal
      BY DEF BarsTypeOK, Snapshots, BarSymbols
  <2>d. Day \in -1 .. LastTime
      BY <2>0 DEF Day
  <2> HIDE DEF BarSet, BatchSet, OneRow
  <2>1. CASE UNCHANGED barVars
      BY <2>0, <2>1 DEF barVars
  <2>2. CASE Preopen
    <3>1. PICK priced \in PriceAnswers :
              scan' = Snapshot(Passing(priced) \cup Forced)
        BY <2>2 DEF Preopen
    <3>2. Passing(priced) \cup Forced \subseteq BarSymbols
        BY <2>0 DEF PriceAnswers, Passing, Forced, BarSymbols
    <3>3. scan' \in Snapshots
        BY <1>0, <2>d, <3>1, <3>2 DEF Snapshot
    <3>4. UNCHANGED <<now, pinned, review, batch, bars>>
        BY <2>2 DEF Preopen
    <3> QED BY <2>0, <3>3, <3>4
  <2>3. CASE ManualReview
    <3>1. PICK priced \in TargetedAnswers : review' = Snapshot(Passing(priced))
        BY <2>3 DEF ManualReview
    <3>2. Passing(priced) \subseteq BarSymbols
        BY <2>0 DEF TargetedAnswers, Passing, BarSymbols
    <3>3. review' \in Snapshots
        BY <1>0, <2>d, <3>1, <3>2 DEF Snapshot
    <3>4. UNCHANGED <<now, pinned, scan, batch, bars>>
        BY <2>3 DEF ManualReview
    <3> QED BY <2>0, <3>3, <3>4
  <2>4. CASE Pin \/ Unpin
    <3>1. pinned' \subseteq Pinnable /\ UNCHANGED <<now, scan, review, batch, bars>>
        BY <2>0, <2>4 DEF Pin, Unpin
    <3> QED BY <2>0, <3>1
  <2>5. CASE StartBatch
    <3>1. /\ batch' = [running |-> TRUE, at |-> now,
                       symbols |-> LatestSnapshot.included \cup Watchlist \cup Support]
          /\ UNCHANGED <<now, pinned, scan, review, bars>>
        BY <2>5 DEF StartBatch
    <3>2. LatestSnapshot.included \subseteq BarSymbols
        BY <2>0 DEF LatestSnapshot, Snapshots
    <3>3. LatestSnapshot.included \cup Watchlist \cup Support \subseteq BarSymbols
        BY <3>2 DEF BarSymbols
    <3>4. batch' \in BatchSet
        BY <2>0, <3>1, <3>3 DEF BatchSet
    <3> QED BY <2>0, <3>1, <3>4
  <2>6. CASE FailBatch
    <3>1. batch' = [batch EXCEPT !.running = FALSE] /\ UNCHANGED <<now, pinned, scan, review, bars>>
        BY <2>6 DEF FailBatch, EndBatch
    <3>2. batch' \in BatchSet
        BY <2>0, <3>1 DEF BatchSet
    <3> QED BY <2>0, <3>1, <3>2
  <2>7. CASE Tick
    <3>1. now' = now + 1 /\ now < LastTime /\ UNCHANGED <<pinned, scan, review, batch, bars>>
        BY <2>7 DEF Tick
    <3>2. now' \in 0 .. LastTime
        BY <2>0, <3>1
    <3> QED BY <2>0, <3>1, <3>2
  <2>8. CASE FinishBatch
    <3>1. PICK answer \in Answers : bars' = bars \cup New(answer)
        BY <2>8 DEF FinishBatch
    <3>2. /\ batch' = [batch EXCEPT !.running = FALSE]
          /\ UNCHANGED <<now, pinned, scan, review>>
        BY <2>8 DEF FinishBatch, EndBatch
    <3>3. batch' \in BatchSet
        BY <2>0, <3>2 DEF BatchSet
    <3>4. batch.symbols \subseteq BarSymbols /\ batch.at \in 0 .. LastTime
        BY <2>0 DEF BatchSet
    <3>5. New(answer) \subseteq BarSet
        BY <3>4, NewBars DEF BarSet
    <3>6. ASSUME NEW a \in bars', NEW b \in bars', a.ticker = b.ticker, a.day = b.day,
                 a.provider = b.provider
          PROVE  a = b
      <4>1. CASE a \in bars /\ b \in bars
          BY <2>0, <3>6, <4>1 DEF OneRow
      <4>2. CASE a \in New(answer) /\ b \in New(answer)
          BY <3>6, <4>2, NewBars
      <4>3. ASSUME NEW o \in bars, NEW n \in New(answer), o.ticker = n.ticker,
                   o.day = n.day, o.provider = n.provider
            PROVE  FALSE
          BY <4>3, NewBars
      <4> QED BY <3>1, <3>6, <4>1, <4>2, <4>3
    <3>7. OneRow(bars')
        BY <3>6 DEF OneRow
    <3> QED BY <2>0, <3>1, <3>2, <3>3, <3>5, <3>7
  <2> QED BY <2>1, <2>2, <2>3, <2>4, <2>5, <2>6, <2>7, <2>8 DEF BarsNext
<1> QED BY <1>1, <1>2, PTL DEF BarsSpec
=============================================================================
