----------------------- MODULE OutcomeEvaluationProofs -----------------------
(***************************************************************************)
(* For every calendar, every set of candidates and every prices: a         *)
(* candidate has at most one row per checkpoint, rows stay, a job forgets  *)
(* nothing that was due, and its report is honest.                         *)
(*                                                                         *)
(* A row's identity holds its end, and the end is computed anew by each    *)
(* run from the fills known by then.  The argument is that it is always    *)
(* the same: the fills that carry the candidate's decision are at most     *)
(* one, so no close is ever seen, and the end is the checkpoint.  Hence    *)
(* what is due of a date only shrinks while a job lasts; that today's      *)
(* decisions add nothing to it rests on the calendar, in which checkpoints *)
(* lie after their decisions.                                              *)
(***************************************************************************)
EXTENDS OutcomeEvaluation, FiniteSetTheorems, WellFoundedInduction, TLAPS

Horizon(c, status) == [day |-> Checkpoint(c, status), reason |-> "horizon_expired"]

Existing == DOMAIN candidates
DueRecords == [candidate : Existing, status : Statuses]
Jobs == [on : BOOLEAN, dates : SUBSET Days, loaded : BOOLEAN, due : SUBSET DueRecords]

CandidatesFit == Existing \subseteq Candidates
FillsFit == \A f \in fills : f.candidate \in Existing \cup {Nobody}
OneFill == \A f, g \in fills : f.candidate = g.candidate /\ f.candidate # Nobody => f = g
JobFits == job \in Jobs
RowsFit ==
    \A r \in rows : /\ r.candidate \in Existing /\ r.status \in Statuses
                    /\ r.end = Horizon(r.candidate, r.status)

IInv == CandidatesFit /\ FillsFit /\ OneFill /\ JobFits /\ RowsFit /\ OneOutcomePerCheckpoint

\* Every end is that of the checkpoint.
LEMMA EndIsHorizon ==
    ASSUME CandidatesFit, OneFill, NEW c \in Existing, NEW status
    PROVE  End(c, status) = Horizon(c, status)
<1>1. c # Nobody
    BY OutcomeAssumption DEF OutcomeAssumption, CandidatesFit
<1>2. \A x, e \in FillsOf(c) : x = e
    BY <1>1 DEF FillsOf, OneFill
<1>3. CompleteCloses(c) = {}
    BY <1>2 DEF CompleteCloses
<1> QED BY <1>3 DEF End, Horizon

\* What is due is a checkpoint of a candidate.
LEMMA DueTyped == ASSUME NEW d, NEW asOf PROVE Due(d, asOf) \subseteq DueRecords
  BY DEF Due, DueOf, Supported, LoadedOn, DueRecords, Existing

\* What a commit adds, it adds once, and it removes nothing.
LEMMA RecordedKeepsInv ==
    ASSUME IInv, NEW due, due \subseteq DueRecords,
           NEW prices, Recorded(due, prices), UNCHANGED <<candidates, fills>>
    PROVE  RowsFit' /\ OneOutcomePerCheckpoint' /\ rows \subseteq rows'
<1> DEFINE new == {RowOf(x, prices[x.candidate]) : x \in Done(due, prices)}
<1>1. rows' = Insert(rows, new)
    BY DEF Recorded
<1>2. ASSUME NEW n \in new
      PROVE \E x \in DueRecords : n = RowOf(x, prices[x.candidate])
    BY DEF Done
<1>3. ASSUME NEW x \in DueRecords, NEW n, n = RowOf(x, prices[x.candidate])
      PROVE  /\ n.candidate = x.candidate /\ n.status = x.status
             /\ n.candidate \in Existing /\ n.status \in Statuses
             /\ n.end = Horizon(n.candidate, n.status)
    BY <1>3, EndIsHorizon DEF RowOf, DueRecords, IInv
<1>4. \A n \in new : /\ n.candidate \in Existing /\ n.status \in Statuses
                     /\ n.end = Horizon(n.candidate, n.status)
    BY <1>2, <1>3
<1>5. ASSUME NEW m \in new, NEW n \in new, m.candidate = n.candidate, m.status = n.status
      PROVE m = n
  <2>1. PICK x \in DueRecords : m = RowOf(x, prices[x.candidate])
      BY <1>2
  <2>2. PICK y \in DueRecords : n = RowOf(y, prices[y.candidate])
      BY <1>2
  <2>3. x.candidate = y.candidate /\ x.status = y.status
      BY <2>1, <2>2, <1>3, <1>5
  <2>4. x = y
      BY <2>3 DEF DueRecords
  <2> QED BY <2>1, <2>2, <2>4
<1> HIDE DEF new
<1>6. \A r \in rows' : r \in rows \/ (r \in new /\ \A o \in rows :
                <<r.candidate, r.status, r.end>> # <<o.candidate, o.status, o.end>>)
    BY <1>1 DEF Insert
<1>7. rows \subseteq rows'
    BY <1>1 DEF Insert
<1>8. \A r \in rows' : /\ r.candidate \in Existing /\ r.status \in Statuses
                       /\ r.end = Horizon(r.candidate, r.status)
    BY <1>4, <1>6 DEF IInv, RowsFit
<1>9. RowsFit'
    BY <1>8 DEF RowsFit, Existing, Horizon, Checkpoint
<1>10. OneOutcomePerCheckpoint'
  <2> SUFFICES ASSUME NEW r \in rows', NEW s \in rows',
                      r.candidate = s.candidate, r.status = s.status
               PROVE r = s
      BY DEF OneOutcomePerCheckpoint
  <2>1. r.end = s.end
      BY <1>8
  <2>2. CASE r \in rows /\ s \in rows
      BY <2>2 DEF IInv, OneOutcomePerCheckpoint
  <2>3. CASE r \notin rows /\ s \in rows
      BY <1>6, <2>1, <2>3
  <2>4. CASE r \in rows /\ s \notin rows
      BY <1>6, <2>1, <2>4
  <2>5. CASE r \notin rows /\ s \notin rows
      BY <1>5, <1>6, <2>5
  <2> QED BY <2>2, <2>3, <2>4, <2>5
<1> QED BY <1>7, <1>9, <1>10

-----------------------------------------------------------------------------
\* Nothing exists at the start.
LEMMA InitInv == Init => IInv
  BY DEF Init, IInv, CandidatesFit, FillsFit, OneFill, JobFits, RowsFit,
         OneOutcomePerCheckpoint, Existing, Jobs, DueRecords, Off

\* A step that neither decides, fills, records nor works on the job.
LEMMA QuietStep ==
    ASSUME IInv, UNCHANGED <<candidates, fills, rows, job>> PROVE IInv'
  BY DEF IInv, CandidatesFit, FillsFit, OneFill, JobFits, RowsFit, OneOutcomePerCheckpoint,
         Existing, Jobs, DueRecords, Horizon, Checkpoint

\* A step of the job that records nothing.
LEMMA JobStep ==
    ASSUME IInv, job' \in Jobs, UNCHANGED <<candidates, fills, rows>> PROVE IInv'
  BY DEF IInv, CandidatesFit, FillsFit, OneFill, JobFits, RowsFit, OneOutcomePerCheckpoint,
         Existing, Jobs, DueRecords, Horizon, Checkpoint

\* What the job goes on with.
LEMMA JobTyped ==
    ASSUME JobFits
    PROVE  /\ Off \in Jobs /\ NextDate \in Jobs
           /\ [Off EXCEPT !.on = TRUE, !.dates = SourceDates(day)] \in Jobs
           /\ [job EXCEPT !.loaded = TRUE, !.due = Due(Min(job.dates), day)] \in Jobs
<1>1. Off \in Jobs /\ SourceDates(day) \subseteq Days
    BY DEF Off, Jobs, SourceDates
<1>2. NextDate \in Jobs
    BY DEF NextDate, JobFits, Jobs
<1>3. Due(Min(job.dates), day) \subseteq DueRecords
    BY DueTyped
<1>4. [job EXCEPT !.loaded = TRUE, !.due = Due(Min(job.dates), day)] \in Jobs
    BY <1>3 DEF JobFits, Jobs
<1> QED BY <1>1, <1>2, <1>4 DEF Jobs, Off

\* A new candidate changes nothing for those that exist.
LEMMA DecideInv == ASSUME IInv, NEW c \in Candidates, Decide(c) PROVE IInv'
<1>1. PICK v : candidates' = [x \in Existing \cup {c} |-> IF x # c THEN candidates[x] ELSE v]
    BY DEF Decide, Existing
<1>2. c \notin Existing /\ UNCHANGED <<fills, rows, job>>
    BY DEF Decide, Existing
<1>3. Existing' = Existing \cup {c} /\ \A x \in Existing : candidates'[x] = candidates[x]
    BY <1>1, <1>2 DEF Existing
<1>4. \A x \in Existing, s \in Statuses : Horizon(x, s)' = Horizon(x, s)
    BY <1>3 DEF Horizon, Checkpoint
<1>5. CandidatesFit' /\ FillsFit' /\ OneFill'
    BY <1>2, <1>3 DEF IInv, CandidatesFit, FillsFit, OneFill
<1>6. JobFits'
    BY <1>2, <1>3 DEF IInv, JobFits, Jobs, DueRecords
<1>7. RowsFit' /\ OneOutcomePerCheckpoint'
    BY <1>2, <1>3, <1>4 DEF IInv, RowsFit, OneOutcomePerCheckpoint
<1> QED BY <1>5, <1>6, <1>7 DEF IInv

\* The fill of an order carries a candidate that has none yet, or nobody.
LEMMA FillInv ==
    ASSUME IInv, UNCHANGED <<candidates, rows, job>>,
           NEW f, fills' = fills \cup {f}, f.candidate \in Existing \cup {Nobody},
           f.candidate # Nobody => \A g \in fills : g.candidate # f.candidate
    PROVE  IInv'
<1>1. Existing' = Existing /\ \A c, s : Horizon(c, s)' = Horizon(c, s)
    BY DEF Existing, Horizon, Checkpoint
<1>2. CandidatesFit' /\ FillsFit' /\ OneFill'
    BY <1>1 DEF IInv, CandidatesFit, FillsFit, OneFill
<1>3. JobFits' /\ RowsFit' /\ OneOutcomePerCheckpoint'
    BY <1>1 DEF IInv, JobFits, Jobs, DueRecords, RowsFit, OneOutcomePerCheckpoint
<1> QED BY <1>2, <1>3 DEF IInv

\* A commit keeps the invariant, whatever the job does in the same step.
LEMMA CommitInv ==
    ASSUME IInv, NEW due, due \subseteq DueRecords, NEW prices, Recorded(due, prices),
           job' \in Jobs, UNCHANGED <<candidates, fills>>
    PROVE  IInv' /\ rows \subseteq rows'
<1>1. RowsFit' /\ OneOutcomePerCheckpoint' /\ rows \subseteq rows'
    BY RecordedKeepsInv
<1>2. CandidatesFit' /\ FillsFit' /\ OneFill' /\ JobFits'
    BY DEF IInv, CandidatesFit, FillsFit, OneFill, JobFits, Jobs, DueRecords, Existing
<1> QED BY <1>1, <1>2 DEF IInv

\* Every step keeps the invariant, and every row.
LEMMA NextInv == IInv /\ [Next]_vars => IInv' /\ rows \subseteq rows'
<1> SUFFICES ASSUME IInv, [Next]_vars PROVE IInv' /\ rows \subseteq rows'
    OBVIOUS
<1>0. JobFits
    BY DEF IInv
<1>1. ASSUME NEW c \in Candidates, Decide(c) PROVE IInv' /\ rows \subseteq rows'
    BY <1>1, DecideInv DEF Decide
<1>2. ASSUME NEW c \in Candidates, NEW action, NEW when, Fill(c, action, when)
      PROVE IInv' /\ rows \subseteq rows'
    BY <1>2, FillInv DEF Fill, Existing
<1>3. ASSUME NEW t, Rebalance(t) PROVE IInv' /\ rows \subseteq rows'
    BY <1>3, FillInv DEF Rebalance
<1>4. CASE Close \/ NextDay \/ UNCHANGED vars
    BY <1>4, QuietStep DEF Close, NextDay, vars
<1>5. CASE StartJob
    BY <1>5, <1>0, JobTyped, JobStep DEF StartJob
<1>6. CASE Load \/ SaveFails
    BY <1>6, <1>0, JobTyped, JobStep DEF Load, SaveFails, FailDate
<1>7. CASE Save
  <2>1. job.due \subseteq DueRecords
      BY <1>0 DEF JobFits, Jobs
  <2>2. PICK prices : Recorded(job.due, prices)
      BY <1>7 DEF Save
  <2> QED BY <1>0, <1>7, <2>1, <2>2, JobTyped, CommitInv DEF Save
<1>8. CASE Finish \/ Crash
    BY <1>8, <1>0, JobTyped, JobStep DEF Finish, Crash, Stop
<1>9. ASSUME NEW d, NEW end, Backfill(d, end) PROVE IInv' /\ rows \subseteq rows'
  <2>1. PICK prices : Recorded(Due(d, end), prices)
      BY <1>9 DEF Backfill
  <2>2. job' \in Jobs /\ UNCHANGED <<candidates, fills>>
      BY <1>0, <1>9 DEF Backfill, JobFits
  <2> QED BY <2>1, <2>2, DueTyped, CommitInv
<1> QED BY <1>1, <1>2, <1>3, <1>4, <1>5, <1>6, <1>7, <1>8, <1>9 DEF Next, Environment

\* The invariant holds throughout.
LEMMA InvHolds == Spec => []IInv
  BY InitInv, NextInv, PTL DEF Spec

\* A candidate has at most one row per checkpoint, whatever runs overlap.
THEOREM OneOutcomeHolds == Spec => []OneOutcomePerCheckpoint
<1>1. IInv => OneOutcomePerCheckpoint
    BY DEF IInv
<1> QED BY InvHolds, <1>1, PTL

\* A row that was saved is never changed or removed.
THEOREM RowsStayHolds == Spec => RowsStay
<1>1. IInv /\ [Next]_vars => [rows \subseteq rows']_vars
    BY NextInv
<1> QED BY InvHolds, <1>1, PTL DEF Spec, RowsStay

-----------------------------------------------------------------------------
(* Checkpoints.  The calendar has a session for every checkpoint of a       *)
(* candidate, and it lies after the session of its decision.                *)

\* A nonempty set of naturals has a least element.
LEMMA Least ==
    ASSUME NEW T \in SUBSET Nat, T # {}
    PROVE  \E m \in T : \A n \in T : m <= n
<1>1. PICK m \in T : \A n \in T : ~(<<n, m>> \in OpToRel(<, Nat))
    BY NatLessThanWellFounded, WFMin, Zenon
<1>2. \A n \in T : ~(n < m)
    BY <1>1 DEF OpToRel
<1>3. \A n \in T : m <= n
    BY <1>2
<1> QED BY <1>3

\* The sessions after s and up to t.
Between(s, t) == {u \in Sessions : s < u /\ u <= t}

\* They are finitely many.
LEMMA BetweenFinite ==
    ASSUME NEW s \in Nat, NEW t \in Nat
    PROVE  IsFiniteSet(Between(s, t)) /\ Cardinality(Between(s, t)) \in Nat
<1>1. IsFiniteSet(s .. t)
    BY FS_Interval
<1>2. Between(s, t) \subseteq s .. t
    BY OutcomeAssumption DEF Between, Sessions, Calendar
<1>3. IsFiniteSet(Between(s, t))
    BY <1>1, <1>2, FS_Subset
<1> QED BY <1>3, FS_CardinalityType

\* There are sessions enough after every date of a decision.
LEMMA EnoughSessions ==
    ASSUME NEW s \in 1 .. LastDay + 1
    PROVE  \E t \in Calendar : Cardinality(Between(s, t)) >= FinalOffset
<1> DEFINE h == Cardinality(Holidays)
           t == LastDay + FinalOffset + 2 + h
           all == s + 1 .. t
<1>1. /\ LastDay \in Nat /\ FinalOffset \in Nat /\ IsFiniteSet(Holidays)
      /\ h \in Nat
    BY OutcomeAssumption, FS_CardinalityType DEF OutcomeAssumption
<1>2. t \in Nat /\ t \in Calendar /\ s \in Nat /\ s <= LastDay + 1
    BY <1>1 DEF Calendar
<1>3. IsFiniteSet(all) /\ Cardinality(all) = t - s
  <2>1. s + 1 \in Int /\ t \in Int /\ ~(s + 1 > t)
      BY <1>1, <1>2
  <2>2. IsFiniteSet(all) /\ Cardinality(all) = t - (s + 1) + 1
      BY <2>1, FS_Interval
  <2> QED BY <2>1, <2>2, <1>2
<1> HIDE DEF h, t, all
<1>4. Cardinality(all \ Holidays) = Cardinality(all) - Cardinality(all \cap Holidays)
    BY <1>3, FS_Difference
<1>5. IsFiniteSet(all \cap Holidays) /\ Cardinality(all \cap Holidays) <= h
    BY <1>1, FS_Subset DEF h
<1>6. Cardinality(all \cap Holidays) \in Nat
    BY <1>5, FS_CardinalityType
<1>7. Cardinality(all \ Holidays) >= FinalOffset
    BY <1>1, <1>2, <1>3, <1>4, <1>5, <1>6 DEF t
<1>8. all \ Holidays = Between(s, t)
    BY <1>1, <1>2 DEF all, t, h, Between, Sessions, Calendar
<1> QED BY <1>2, <1>7, <1>8

\* A day brings at most one session more, and then it is the session.
LEMMA NextSession ==
    ASSUME NEW s \in Nat, NEW t \in Nat
    PROVE  /\ t + 1 \notin Sessions => Between(s, t + 1) = Between(s, t)
           /\ Cardinality(Between(s, t + 1)) <= Cardinality(Between(s, t)) + 1
<1>1. \A u \in Sessions : u \in Nat
    BY DEF Sessions, Calendar
<1>2. Between(s, t + 1) \subseteq Between(s, t) \cup {t + 1}
    BY <1>1 DEF Between
<1>3. Between(s, t) \subseteq Between(s, t + 1)
    BY <1>1 DEF Between
<1>4. t + 1 \notin Sessions => t + 1 \notin Between(s, t + 1)
    BY DEF Between
<1>n. IsFiniteSet(Between(s, t)) /\ Cardinality(Between(s, t)) \in Nat
    BY BetweenFinite
<1>5. /\ IsFiniteSet(Between(s, t) \cup {t + 1})
      /\ Cardinality(Between(s, t) \cup {t + 1}) \in Nat
      /\ Cardinality(Between(s, t) \cup {t + 1}) <= Cardinality(Between(s, t)) + 1
  <2>1. /\ IsFiniteSet(Between(s, t) \cup {t + 1})
        /\ Cardinality(Between(s, t) \cup {t + 1}) =
              IF t + 1 \in Between(s, t) THEN Cardinality(Between(s, t))
              ELSE Cardinality(Between(s, t)) + 1
      BY <1>n, FS_AddElement, Zenon
  <2> QED BY <1>n, <2>1
<1>6. Cardinality(Between(s, t + 1)) <= Cardinality(Between(s, t) \cup {t + 1})
    BY <1>2, <1>5, FS_Subset
<1>7. t + 1 \in Nat
    OBVIOUS
<1>8. Cardinality(Between(s, t + 1)) \in Nat
    BY <1>7, BetweenFinite, Zenon
<1> QED BY <1>2, <1>3, <1>4, <1>n, <1>5, <1>6, <1>8

\* checkpoints_for finds the session of each checkpoint, and it comes after
\* that of the decision: the first day by which enough sessions have passed.
LEMMA CheckpointIsLater ==
    ASSUME NEW s \in 1 .. LastDay + 1, NEW n \in 1 .. FinalOffset
    PROVE  SessionAfter(s, n) \in Sessions /\ SessionAfter(s, n) > s
<1>1. /\ LastDay \in Nat /\ FinalOffset \in Nat /\ s \in Nat
      /\ Cardinality(Holidays) \in Nat
    BY OutcomeAssumption, FS_CardinalityType DEF OutcomeAssumption
<1>b. \A t \in Nat : Cardinality(Between(s, t)) \in Nat
    BY <1>1, BetweenFinite
<1> DEFINE enough == {t \in Calendar : Cardinality(Between(s, t)) >= n}
<1>2. enough # {} /\ enough \subseteq Nat
  <2>1. PICK t \in Calendar : Cardinality(Between(s, t)) >= FinalOffset
      BY EnoughSessions
  <2>2. Calendar \subseteq Nat
      BY DEF Calendar
  <2>3. Cardinality(Between(s, t)) \in Nat
      BY <2>2, <1>b
  <2>4. t \in enough
      BY <1>1, <2>1, <2>3
  <2> QED BY <2>2, <2>4
<1>3. PICK t \in enough : \A u \in enough : t <= u
  <2> HIDE DEF enough
  <2> QED BY <1>2, Least
<1>4. t \in Calendar /\ t \in Nat /\ t >= 1 /\ Cardinality(Between(s, t)) >= n
    BY DEF Calendar
<1>5. t > s
  <2>1. SUFFICES ASSUME t <= s PROVE FALSE
      BY <1>1, <1>4
  <2>2. Between(s, t) = {}
      BY <1>1, <1>4, <2>1 DEF Between, Sessions, Calendar
  <2> QED BY <1>4, <2>2, FS_EmptySet
<1>6. Cardinality(Between(s, t - 1)) < n
  <2>1. t - 1 \in Nat /\ t - 1 >= s /\ s >= 1
      BY <1>1, <1>4, <1>5
  <2>2. t - 1 \in Calendar
      BY <1>1, <1>4, <1>5 DEF Calendar
  <2>3. t - 1 \notin enough
      BY <1>3, <1>4, <2>1
  <2>4. Cardinality(Between(s, t - 1)) \in Nat
      BY <1>b, <2>1
  <2> QED BY <2>2, <2>3, <2>4
<1>7. /\ t \notin Sessions => Between(s, t) = Between(s, t - 1)
      /\ Cardinality(Between(s, t)) <= Cardinality(Between(s, t - 1)) + 1
  <2>1. s \in Nat /\ t - 1 \in Nat /\ (t - 1) + 1 = t
      BY <1>1, <1>4
  <2>2. /\ (t - 1) + 1 \notin Sessions => Between(s, (t - 1) + 1) = Between(s, t - 1)
        /\ Cardinality(Between(s, (t - 1) + 1)) <= Cardinality(Between(s, t - 1)) + 1
      BY <2>1, NextSession
  <2> QED BY <2>1, <2>2
<1>8. t \in Sessions /\ Cardinality(Between(s, t)) = n
  <2>0. t - 1 \in Nat
      BY <1>4
  <2>1. Cardinality(Between(s, t)) \in Nat /\ Cardinality(Between(s, t - 1)) \in Nat
      BY <1>4, <1>b, <2>0
  <2> QED BY <1>4, <1>6, <1>7, <2>1
<1>9. \E u \in Sessions : u > s /\ Cardinality({v \in Sessions : s < v /\ v <= u}) = n
    BY <1>5, <1>8 DEF Between
<1> QED BY <1>9 DEF SessionAfter

-----------------------------------------------------------------------------
(* Types.                                                                   *)

\* The dates of a job are left while one of them is loaded.
LoadedDate == job.loaded => job.dates # {}

\* What a run counts.
CountsFit ==
    counts = [failed |-> counts.failed, pending |-> counts.pending, anyDue |-> counts.anyDue]

TypeInv == TypeOK /\ LoadedDate /\ CountsFit

\* The first date of a job is one of its dates.
LEMMA FirstDate ==
    ASSUME NEW T \in SUBSET Days, T # {} PROVE Min(T) \in T
<1>1. T \subseteq Nat
    BY DEF Days
<1>2. \E m \in T : \A n \in T : m <= n
    BY <1>1, Least
<1> QED BY <1>2 DEF Min

\* Every date of a decision has its checkpoints among the sessions.
LEMMA CheckpointTyped ==
    ASSUME TypeOK, NEW c \in Existing, NEW status
    PROVE  /\ Checkpoint(c, status) \in Sessions
           /\ Checkpoint(c, status) > candidates[c].session
<1>1. InterimOffset \in 1 .. FinalOffset /\ FinalOffset \in 1 .. FinalOffset
    BY OutcomeAssumption DEF OutcomeAssumption
<1>2. candidates[c].session \in 1 .. LastDay + 1
  <2>1. LastDay \in Nat /\ candidates[c].day \in 1 .. LastDay
      BY OutcomeAssumption DEF OutcomeAssumption, TypeOK, Days, Existing
  <2>2. candidates[c].session \in {candidates[c].day, candidates[c].day + 1}
      BY DEF TypeOK, Existing
  <2> QED BY <2>1, <2>2
<1> QED BY <1>1, <1>2, CheckpointIsLater DEF Checkpoint

\* The rows of a commit have their types.
LEMMA RecordedTyped ==
    ASSUME IInv, TypeOK, NEW due, due \subseteq DueRecords, NEW prices,
           Recorded(due, prices), UNCHANGED candidates
    PROVE  \A r \in rows' : /\ r.candidate \in Existing /\ r.status \in Statuses
                            /\ r.end.day \in Sessions /\ r.primary # "none"
<1>1. \A r \in rows' \ rows : \E x \in Done(due, prices) : r = RowOf(x, prices[x.candidate])
    BY DEF Recorded, Insert
<1>2. ASSUME NEW x \in Done(due, prices), NEW r, r = RowOf(x, prices[x.candidate])
      PROVE  /\ r.candidate \in Existing /\ r.status \in Statuses
             /\ r.end.day \in Sessions /\ r.primary # "none"
  <2>1. x \in DueRecords /\ PrimaryOf(x.candidate, prices[x.candidate]) # "none"
      BY DEF Done, Evaluable
  <2>2. /\ r.candidate = x.candidate /\ r.status = x.status
        /\ r.end = End(x.candidate, x.status)
        /\ r.primary = PrimaryOf(x.candidate, prices[x.candidate])
      BY <1>2 DEF RowOf
  <2>3. x.candidate \in Existing /\ x.status \in Statuses
      BY <2>1 DEF DueRecords
  <2>4. r.end.day = Checkpoint(x.candidate, x.status)
      BY <2>2, <2>3, EndIsHorizon DEF IInv, Horizon
  <2> QED BY <2>1, <2>2, <2>3, <2>4, CheckpointTyped
<1> QED BY <1>1, <1>2 DEF TypeOK, Existing

\* The initial state has the types.
LEMMA InitType == Init => TypeInv
<1> SUFFICES ASSUME Init PROVE TypeInv
    OBVIOUS
<1>0. 1 \in 1 .. LastDay /\ day = 1 /\ closed = FALSE
    BY OutcomeAssumption DEF OutcomeAssumption, Init
<1>1. day \in Days /\ closed \in BOOLEAN
    BY <1>0 DEF Days
<1>2. DOMAIN candidates = {} /\ fills = {} /\ rows = {}
    BY DEF Init
<1>3. /\ job.dates = {} /\ job.loaded = FALSE
      /\ counts.failed = {} /\ counts.anyDue = FALSE /\ CountsFit
    BY DEF Init, Off, Zero, CountsFit
<1> QED BY <1>1, <1>2, <1>3 DEF TypeInv, TypeOK, LoadedDate

\* Every step keeps them.
LEMMA NextType == IInv /\ TypeInv /\ [Next]_vars => TypeInv'
<1> SUFFICES ASSUME IInv, TypeInv, [Next]_vars PROVE TypeInv'
    OBVIOUS
<1>0. /\ LastDay \in Nat /\ day \in 1 .. LastDay /\ JobFits
      /\ job.dates \subseteq Days /\ counts.failed \subseteq Days
    BY OutcomeAssumption DEF OutcomeAssumption, TypeInv, TypeOK, Days, IInv
<1> DEFINE Rest == UNCHANGED <<candidates, fills, rows>>
<1>1. ASSUME NEW c \in Candidates, Decide(c) PROVE TypeInv'
  <2>1. PICK v : /\ candidates' = [x \in Existing \cup {c} |-> IF x # c THEN candidates[x] ELSE v]
                 /\ v.day = day /\ v.session = IF closed THEN day + 1 ELSE day
      BY <1>1 DEF Decide, Existing
  <2>2. c \notin Existing /\ UNCHANGED <<day, closed, fills, rows, job, counts>>
      BY <1>1 DEF Decide, Existing
  <2>3. /\ DOMAIN candidates' = Existing \cup {c} /\ candidates'[c] = v
        /\ \A x \in Existing : candidates'[x] = candidates[x]
      BY <2>1, <2>2
  <2> QED BY <1>0, <2>1, <2>2, <2>3 DEF TypeInv, TypeOK, LoadedDate, CountsFit, Existing
<1>2. ASSUME NEW f, fills' = fills \cup {f}, UNCHANGED <<day, closed, candidates, rows, job, counts>>,
             f.candidate \in Existing \cup {Nobody}, f.day \in 1 .. day
      PROVE  TypeInv'
    BY <1>2 DEF TypeInv, TypeOK, LoadedDate, CountsFit, Existing
<1>3. ASSUME NEW c \in Candidates, NEW action, NEW when \in Days, Fill(c, action, when) PROVE TypeInv'
  <2> DEFINE f == [candidate |-> c, ticker |-> candidates[c].ticker,
                   action |-> action, day |-> when]
  <2>1. /\ fills' = fills \cup {f} /\ c \in Existing /\ when <= day
        /\ UNCHANGED <<day, closed, candidates, rows, job, counts>>
      BY <1>3 DEF Fill, Existing
  <2>2. when \in 1 .. day
      BY <1>0, <2>1 DEF Days
  <2>3. f.candidate = c /\ f.day = when
      OBVIOUS
  <2> HIDE DEF f
  <2> QED BY <1>2, <2>1, <2>2, <2>3
<1>4. ASSUME NEW t, Rebalance(t) PROVE TypeInv'
  <2> DEFINE f == [candidate |-> Nobody, ticker |-> t, action |-> "exit", day |-> day]
  <2>1. /\ fills' = fills \cup {f}
        /\ UNCHANGED <<day, closed, candidates, rows, job, counts>>
      BY <1>4 DEF Rebalance
  <2>2. day \in 1 .. day
      BY <1>0
  <2>3. f.candidate = Nobody /\ f.day = day
      OBVIOUS
  <2> HIDE DEF f
  <2> QED BY <1>2, <2>1, <2>2, <2>3
<1>5. CASE Close \/ UNCHANGED vars
    BY <1>5 DEF Close, vars, TypeInv, TypeOK, LoadedDate, CountsFit
<1>6. CASE NextDay
  <2>0. day' = day + 1 /\ day < LastDay /\ closed' = FALSE
      BY <1>6 DEF NextDay
  <2>1. day' \in Days /\ \A d \in 1 .. day : d \in 1 .. day'
      BY <1>0, <2>0 DEF Days
  <2>2. UNCHANGED <<candidates, fills, rows, job, counts>> /\ closed' \in BOOLEAN
      BY <1>6, <2>0 DEF NextDay
  <2> QED BY <2>1, <2>2 DEF TypeInv, TypeOK, LoadedDate, CountsFit
<1>7. ASSUME UNCHANGED <<day, closed, candidates, fills, rows>>, job'.dates \subseteq Days,
             job'.loaded => job'.dates # {},
             counts'.failed \subseteq Days, counts'.anyDue \in BOOLEAN, CountsFit'
      PROVE  TypeInv'
    BY <1>7 DEF TypeInv, TypeOK, LoadedDate, CountsFit
<1>8. CASE StartJob
  <2>1. /\ job'.dates = SourceDates(day) /\ job'.loaded = FALSE /\ counts' = counts
      BY <1>8 DEF StartJob, Off
  <2> QED BY <1>7, <1>8, <2>1 DEF StartJob, SourceDates, TypeInv, TypeOK, CountsFit
<1>9. job.dates # {} => Min(job.dates) \in Days
    BY <1>0, FirstDate
<1>10. NextDate.dates \subseteq Days /\ NextDate.loaded = FALSE
    BY <1>0 DEF NextDate, JobFits, Jobs
<1>11. /\ CountsFit /\ counts.anyDue \in BOOLEAN
    BY DEF TypeInv, TypeOK
<1>12. ASSUME FailDate, job.dates # {}, UNCHANGED <<day, closed, candidates, fills, rows>>
       PROVE  TypeInv'
  <2>1. /\ counts'.failed = counts.failed \cup {Min(job.dates)}
        /\ counts'.anyDue = counts.anyDue /\ CountsFit'
    <3>1. counts' = [counts EXCEPT !.failed = counts.failed \cup {Min(job.dates)}]
        BY <1>12 DEF FailDate
    <3> QED BY <1>11, <3>1 DEF CountsFit
  <2> QED BY <1>0, <1>7, <1>9, <1>10, <1>11, <1>12, <2>1 DEF FailDate
<1>13. CASE Load
  <2>1. CASE Raises(Min(job.dates), day)
      BY <1>12, <1>13, <2>1 DEF Load
  <2>2. CASE ~Raises(Min(job.dates), day)
    <3>1. job' = [job EXCEPT !.loaded = TRUE, !.due = Due(Min(job.dates), day)]
        BY <1>13, <2>2 DEF Load
    <3>2. job'.dates = job.dates
        BY <1>0, <3>1 DEF JobFits, Jobs
    <3> QED BY <1>0, <1>7, <1>11, <1>13, <2>2, <3>2 DEF Load, CountsFit
  <2> QED BY <2>1, <2>2
<1>14. CASE SaveFails
  <2>1. job.dates # {}
      BY <1>14 DEF SaveFails, TypeInv, LoadedDate
  <2> QED BY <1>12, <1>14, <2>1 DEF SaveFails
<1>15. ASSUME NEW due, due \subseteq DueRecords, NEW prices, Recorded(due, prices),
              UNCHANGED <<day, closed, candidates, fills>>, job'.dates \subseteq Days,
              job'.loaded => job'.dates # {},
              counts'.failed \subseteq Days, counts'.anyDue \in BOOLEAN, CountsFit'
       PROVE  TypeInv'
  <2>1. \A r \in rows' : /\ r.candidate \in Existing /\ r.status \in Statuses
                          /\ r.end.day \in Sessions /\ r.primary # "none"
      BY <1>15, RecordedTyped DEF TypeInv
  <2> QED BY <1>15, <2>1 DEF TypeInv, TypeOK, LoadedDate, Existing
<1>16. CASE Save
  <2>1. PICK prices :
           /\ Recorded(job.due, prices)
           /\ counts' = [counts EXCEPT !.pending = @ \cup (job.due \ Done(job.due, prices)),
                                       !.anyDue = @ \/ job.due # {}]
      BY <1>16 DEF Save
  <2>2. /\ counts'.failed = counts.failed /\ CountsFit'
        /\ counts'.anyDue = (counts.anyDue \/ job.due # {})
      BY <1>11, <2>1 DEF CountsFit
  <2>3. job.due \subseteq DueRecords
      BY <1>0 DEF JobFits, Jobs
  <2> QED BY <1>0, <1>10, <1>11, <1>15, <1>16, <2>1, <2>2, <2>3 DEF Save
<1>17. CASE Finish \/ Crash
  <2>1. job'.dates = {} /\ ~job'.loaded
      BY <1>17 DEF Finish, Crash, Stop, Off
  <2>2. counts'.failed = {} /\ counts'.anyDue = FALSE /\ CountsFit'
      BY <1>17 DEF Finish, Crash, Stop, Zero, CountsFit
  <2> QED BY <1>7, <1>17, <2>1, <2>2 DEF Finish, Crash, Stop
<1>18. ASSUME NEW d, NEW end, Backfill(d, end) PROVE TypeInv'
  <2>1. PICK prices : Recorded(Due(d, end), prices)
      BY <1>18 DEF Backfill
  <2> QED BY <1>0, <1>11, <1>15, <1>18, <2>1, DueTyped
          DEF Backfill, TypeInv, LoadedDate, CountsFit
<1> QED BY <1>1, <1>3, <1>4, <1>5, <1>6, <1>8, <1>13, <1>14, <1>16, <1>17, <1>18
        DEF Next, Environment

\* They hold throughout.
LEMMA TypeHolds == Spec => [](IInv /\ TypeInv)
  BY InitInv, InitType, NextInv, NextType, PTL DEF Spec

\* Every variable keeps its type, whatever the calendar, the lags and the
\* prices; in particular every row ends at a session.
THEOREM TypeCorrect == Spec => []TypeOK
<1>1. TypeInv => TypeOK
    BY DEF TypeInv
<1> QED BY <1>1, TypeHolds, PTL

-----------------------------------------------------------------------------
(* What a job leaves.  A source date of its window is still to come, has    *)
(* failed, or has nothing due but what was counted as pending.  For what is *)
(* due only shrinks while the day lasts: an end is always that of the       *)
(* checkpoint, rows stay, and a candidate of today has no checkpoint today. *)

\* The checkpoints on a date that wait for a row.
Waiting(d) ==
    {x \in DueRecords :
        /\ candidates[x.candidate].day = d /\ candidates[x.candidate].supported
        /\ candidates[x.candidate].session \in Sessions
        /\ Checkpoint(x.candidate, x.status) <= day
        /\ ~\E r \in rows : r.candidate = x.candidate /\ r.status = x.status}

DueIsWaiting == \A d \in Days : SoundDue(d) = Waiting(d)

\* What is due of a date is what waits there.
LEMMA DueWaits == IInv => DueIsWaiting
<1> SUFFICES ASSUME IInv, NEW d \in Days PROVE SoundDue(d) = Waiting(d)
    BY DEF DueIsWaiting
<1>1. \A c \in Existing, s \in Statuses : End(c, s) = Horizon(c, s)
    BY EndIsHorizon DEF IInv
<1>2. \A c, s : Horizon(c, s).day = Checkpoint(c, s)
    BY DEF Horizon
<1>3. ASSUME NEW c \in Existing, NEW s \in Statuses
      PROVE (\E r \in rows : r.candidate = c /\ r.status = s /\ r.end = End(c, s))
              <=> (\E r \in rows : r.candidate = c /\ r.status = s)
    BY <1>1 DEF IInv, RowsFit
<1>4. ASSUME NEW x \in SoundDue(d) PROVE x \in Waiting(d)
  <2>1. x \in DueRecords /\ candidates[x.candidate].session \in Sessions
      BY DueTyped DEF SoundDue
  <2>2. PICK c \in Supported(d) : x \in DueOf(c, day)
      BY DEF SoundDue, Due
  <2>3. PICK s \in Statuses : x = [candidate |-> c, status |-> s]
      BY <2>2 DEF DueOf
  <2>4. /\ c \in Existing /\ candidates[c].day = d /\ candidates[c].supported
      BY DEF Supported, LoadedOn, Existing
  <2>5. /\ End(c, s).day <= day
        /\ ~\E r \in rows : r.candidate = c /\ r.status = s /\ r.end = End(c, s)
      BY <2>2, <2>3 DEF DueOf
  <2> QED BY <1>1, <1>2, <1>3, <2>1, <2>3, <2>4, <2>5 DEF Waiting
<1>5. ASSUME NEW x \in Waiting(d) PROVE x \in SoundDue(d)
  <2>1. PICK c \in Existing, s \in Statuses : x = [candidate |-> c, status |-> s]
      BY DEF Waiting, DueRecords
  <2>2. /\ candidates[c].day = d /\ candidates[c].supported
        /\ candidates[c].session \in Sessions /\ Checkpoint(c, s) <= day
        /\ ~\E r \in rows : r.candidate = c /\ r.status = s
      BY <2>1 DEF Waiting
  <2>3. c \in Supported(d)
      BY <2>2 DEF Supported, LoadedOn, Missing, Existing
  <2>4. x \in DueOf(c, day)
      BY <1>1, <1>2, <1>3, <2>1, <2>2 DEF DueOf
  <2> QED BY <2>1, <2>2, <2>3, <2>4 DEF SoundDue, Due
<1> QED BY <1>4, <1>5

\* So it is after the step.
LEMMA DueWaitsNext == IInv' => DueIsWaiting'
  BY DueWaits, PTL

\* While the day lasts and no candidate is added, what waits only shrinks.
LEMMA WaitingShrinks ==
    ASSUME UNCHANGED <<candidates, day>>, rows \subseteq rows', NEW d
    PROVE  Waiting(d)' \subseteq Waiting(d)
  BY DEF Waiting, DueRecords, Existing, Checkpoint

\* Checkpoints lie after their decisions.
Later ==
    \A c \in Existing, s \in Statuses :
        Checkpoint(c, s) \in Sessions /\ Checkpoint(c, s) > candidates[c].session

LEMMA CheckpointsLater == TypeOK => Later
  BY CheckpointTyped DEF Later

\* So they do after the step.
LEMMA CheckpointsLaterNext == TypeOK' => Later'
  BY CheckpointsLater, PTL

\* Nor does a candidate that is decided after the close add to it.
LEMMA DecideWaits ==
    ASSUME TypeOK, TypeOK', NEW c \in Candidates, Decide(c), closed, NEW d
    PROVE  Waiting(d)' \subseteq Waiting(d)
<1>1. /\ Existing' = Existing \cup {c} /\ c \notin Existing
      /\ \A x \in Existing : candidates'[x] = candidates[x]
      /\ UNCHANGED <<day, rows>>
    BY DEF Decide, Existing
<1>2. candidates'[c].session = day + 1
    BY DEF Decide
<1>3. \A s \in Statuses : Checkpoint(c, s)' \in Sessions /\ Checkpoint(c, s)' > day + 1
    BY <1>1, <1>2, CheckpointsLaterNext DEF Later
<1>4. \A s \in Statuses : ~(Checkpoint(c, s)' <= day)
  <2>1. Sessions \subseteq Nat /\ day \in Nat
      BY DEF Sessions, Calendar, TypeOK, Days
  <2> SUFFICES ASSUME NEW s \in Statuses, NEW n \in Nat, n > day + 1
               PROVE  ~(n <= day)
      BY <1>3, <2>1
  <2> QED BY <2>1
<1>5. \A x \in Existing, s \in Statuses : Checkpoint(x, s)' = Checkpoint(x, s)
    BY <1>1 DEF Checkpoint
<1> SUFFICES ASSUME NEW x \in Waiting(d)' PROVE x \in Waiting(d)
    OBVIOUS
<1>6. PICK k \in Existing', s \in Statuses : x = [candidate |-> k, status |-> s]
    BY DEF Waiting, DueRecords
<1>7. /\ candidates'[k].day = d /\ candidates'[k].supported
      /\ candidates'[k].session \in Sessions
      /\ Checkpoint(k, s)' <= day
      /\ ~\E r \in rows : r.candidate = k /\ r.status = s
    BY <1>1, <1>6 DEF Waiting
<1>8. k \in Existing
    BY <1>1, <1>4, <1>7
<1> QED BY <1>1, <1>5, <1>6, <1>7, <1>8 DEF Waiting, DueRecords

\* The dates the job of a day answers for.
Window == {d \in Days : d <= day /\ d + Lookback >= day}

Accounted(d) == d \in job.dates \cup counts.failed \/ Waiting(d) \subseteq counts.pending

JobKeeps ==
    job.on =>
        /\ closed
        /\ \A d \in Window : Accounted(d)
        /\ job.loaded => Waiting(Min(job.dates)) \subseteq job.due
        /\ counts.pending # {} => counts.anyDue

\* Nothing is counted between two runs.
Rested == ~job.on => counts = Zero

JobInv == JobKeeps /\ Rested

\* There is no job at the start.
LEMMA InitJob == Init => JobInv
  BY DEF Init, JobInv, JobKeeps, Rested, Off

\* A step that leaves the job and its counts alone keeps what it answers for,
\* unless something more waits.
LEMMA JobStays ==
    ASSUME JobInv, UNCHANGED <<job, counts>>,
           job.on => day' = day /\ closed' /\ \A d : Waiting(d)' \subseteq Waiting(d)
    PROVE  JobInv'
  BY DEF JobInv, JobKeeps, Rested, Accounted, Window

\* Every step keeps what the job answers for.
LEMMA NextJob ==
    IInv /\ TypeInv /\ JobInv /\ IInv' /\ TypeInv' /\ [Next]_vars => JobInv'
<1> SUFFICES ASSUME IInv, TypeInv, JobInv, IInv', TypeInv', [Next]_vars
             PROVE  JobInv'
    OBVIOUS
<1>1. rows \subseteq rows'
    BY NextInv
<1>2. ASSUME UNCHANGED <<candidates, day>>, NEW d PROVE Waiting(d)' \subseteq Waiting(d)
    BY <1>1, <1>2, WaitingShrinks
<1>m. PICK m : m = Min(job.dates)
    OBVIOUS
<1>3. ASSUME NEW c \in Candidates, Decide(c) PROVE JobInv'
    BY <1>3, JobStays, DecideWaits DEF Decide, TypeInv, JobInv, JobKeeps
<1>4. CASE /\ UNCHANGED <<candidates, day, job, counts>>
           /\ job.on => closed'
    BY <1>2, <1>4, JobStays
<1>5. CASE \/ \E c, action, when : Fill(c, action, when)
           \/ \E t : Rebalance(t)
           \/ \E d, end : Backfill(d, end)
           \/ UNCHANGED vars
    BY <1>4, <1>5 DEF Fill, Rebalance, Backfill, vars, JobInv, JobKeeps
<1>6. CASE Close
    BY <1>4, <1>6 DEF Close
<1>7. CASE NextDay
    BY <1>7, JobStays DEF NextDay, Off
<1>8. CASE Finish \/ Crash
    BY <1>8 DEF Finish, Crash, Stop, JobInv, JobKeeps, Rested, Off
<1>9. CASE StartJob
  <2>1. /\ job' = [on |-> TRUE, dates |-> SourceDates(day), loaded |-> FALSE, due |-> {}]
        /\ closed /\ UNCHANGED <<day, closed, candidates, rows, counts>>
        /\ counts = Zero
      BY <1>9 DEF StartJob, Off, JobInv, Rested
  <2>2. ASSUME NEW d \in Window, d \notin SourceDates(day) PROVE Waiting(d)' = {}
    <3>1. LoadedOn(d) = {}
        BY <2>2 DEF Window, SourceDates
    <3>2. SoundDue(d) = {}
        BY <3>1 DEF SoundDue, Due, Supported
    <3>3. Waiting(d) = {}
        BY <3>2, DueWaits DEF DueIsWaiting, Window
    <3> QED BY <1>2, <2>1, <3>3
  <2>3. \A d \in Window : Accounted(d)'
      BY <2>1, <2>2 DEF Accounted
  <2> QED BY <2>1, <2>3 DEF JobInv, JobKeeps, Rested, Zero, Window
<1>10. ASSUME FailDate, job.on, UNCHANGED <<day, closed, candidates>>
       PROVE  JobInv'
  <2>1. /\ job'.dates = job.dates \ {Min(job.dates)} /\ job'.on = TRUE
        /\ job'.loaded = FALSE
        /\ counts'.failed = counts.failed \cup {Min(job.dates)}
        /\ counts'.pending = counts.pending /\ counts'.anyDue = counts.anyDue
      BY <1>10 DEF FailDate, NextDate, IInv, JobFits, Jobs, TypeInv, CountsFit
  <2>2. \A d \in Window : Accounted(d)'
      BY <1>2, <1>10, <2>1 DEF Accounted, JobInv, JobKeeps
  <2> QED BY <1>10, <2>1, <2>2 DEF JobInv, JobKeeps, Rested, Window
<1>11. CASE SaveFails
    BY <1>10, <1>11 DEF SaveFails
<1>12. CASE Load
  <2>1. CASE Raises(Min(job.dates), day)
      BY <1>10, <1>12, <2>1 DEF Load
  <2>2. CASE ~Raises(Min(job.dates), day)
    <3>1. /\ job'.dates = job.dates /\ job'.on /\ job'.due = Due(Min(job.dates), day)
          /\ UNCHANGED <<day, closed, candidates, fills, rows, counts>>
        BY <1>12, <2>2 DEF Load, IInv, JobFits, Jobs
    <3>2. m \in Days
        BY <1>m, <1>12, FirstDate DEF Load, TypeInv, TypeOK
    <3>3. Waiting(m) \subseteq Due(m, day)
        BY <3>2, DueWaits DEF DueIsWaiting, SoundDue
    <3>4. \A d \in Window : Accounted(d)'
        BY <1>2, <1>12, <3>1 DEF Accounted, JobInv, JobKeeps, Load
    <3>5. Waiting(m)' \subseteq job'.due /\ m = Min(job'.dates)
        BY <1>2, <1>m, <3>1, <3>3
    <3>6. Waiting(Min(job.dates))' \subseteq job'.due
        BY <3>5
    <3> QED BY <1>12, <3>1, <3>4, <3>6 DEF Load, JobInv, JobKeeps, Rested, Window
  <2> QED BY <2>1, <2>2
<1>13. CASE Save
  <2>1. PICK prices :
           /\ Recorded(job.due, prices)
           /\ counts' = [counts EXCEPT !.pending = @ \cup (job.due \ Done(job.due, prices)),
                                       !.anyDue = @ \/ job.due # {}]
      BY <1>13 DEF Save
  <2> DEFINE left == job.due \ Done(job.due, prices)
  <2>2. /\ counts'.failed = counts.failed /\ counts'.pending = counts.pending \cup left
        /\ counts'.anyDue = (counts.anyDue \/ job.due # {})
      BY <2>1 DEF TypeInv, CountsFit
  <2>3. /\ job'.dates = job.dates \ {Min(job.dates)} /\ job'.on /\ ~job'.loaded
        /\ UNCHANGED <<day, closed, candidates, fills>> /\ job.on /\ job.loaded
      BY <1>13 DEF Save, NextDate, IInv, JobFits, Jobs
  <2>4. ASSUME NEW x \in Done(job.due, prices)
        PROVE  \E r \in rows' : r.candidate = x.candidate /\ r.status = x.status
    <3> DEFINE n == RowOf(x, prices[x.candidate])
    <3>1. rows' = Insert(rows, {RowOf(y, prices[y.candidate]) : y \in Done(job.due, prices)})
        BY <2>1 DEF Recorded
    <3>2. n.candidate = x.candidate /\ n.status = x.status
        BY DEF RowOf
    <3>3. n \in {RowOf(y, prices[y.candidate]) : y \in Done(job.due, prices)}
        OBVIOUS
    <3> HIDE DEF n
    <3>4. \/ n \in rows'
          \/ \E r \in rows : <<n.candidate, n.status, n.end>> = <<r.candidate, r.status, r.end>>
        BY <3>1, <3>3 DEF Insert
    <3> QED BY <1>1, <3>2, <3>4
  <2>5. Waiting(m)' \subseteq left
    <3>1. Waiting(m)' \subseteq job.due
        BY <1>2, <1>m, <2>3 DEF JobInv, JobKeeps
    <3>2. \A x \in Waiting(m)' : x \notin Done(job.due, prices)
        BY <2>4 DEF Waiting
    <3> QED BY <3>1, <3>2
  <2> HIDE DEF left
  <2>6. \A d \in Window : Accounted(d)'
      BY <1>2, <1>m, <2>2, <2>3, <2>5 DEF Accounted, JobInv, JobKeeps
  <2>7. counts'.pending # {} => counts'.anyDue
      BY <2>2, <2>3 DEF left, JobInv, JobKeeps
  <2> QED BY <2>3, <2>6, <2>7 DEF JobInv, JobKeeps, Rested, Window
<1> QED BY <1>3, <1>5, <1>6, <1>7, <1>8, <1>9, <1>11, <1>12, <1>13
        DEF Next, Environment

\* It holds throughout.
LEMMA JobHolds == Spec => [](IInv /\ TypeInv /\ JobInv)
  BY TypeHolds, InitJob, NextJob, PTL DEF Spec

\* Trouble stays where it is: whatever calendar, fills, prices, failures and
\* backfills, what a job leaves due had no prices or is of a date that failed.
THEOREM NothingForgottenHolds == Spec => []NothingForgotten
<1>1. IInv /\ TypeInv /\ JobInv => NothingForgotten
  <2> SUFFICES ASSUME IInv, JobInv, JobEnds, NEW d \in SourceDates(day) \ counts.failed
               PROVE  SoundDue(d) \subseteq counts.pending
      BY DEF NothingForgotten
  <2>1. d \in Window
      BY DEF SourceDates, Window
  <2>2. Waiting(d) \subseteq counts.pending
      BY <2>1 DEF JobInv, JobKeeps, JobEnds, Accounted
  <2> QED BY <2>1, <2>2, DueWaits DEF DueIsWaiting, Window
<1> QED BY <1>1, JobHolds, PTL

\* A job does not end with passed or skipped over anything left due.
THEOREM ReportIsHonestHolds == Spec => []ReportIsHonest
<1>1. IInv /\ TypeInv /\ JobInv => ReportIsHonest
  <2> SUFFICES ASSUME IInv, JobInv, JobEnds, Report \in {"passed", "skipped"},
                      NEW d \in SourceDates(day)
               PROVE  SoundDue(d) = {}
      BY DEF ReportIsHonest
  <2>1. counts.failed = {} /\ counts.pending = {}
      BY DEF Report, JobInv, JobKeeps, JobEnds
  <2>2. d \in Window
      BY DEF SourceDates, Window
  <2>3. Waiting(d) = {}
      BY <2>1, <2>2 DEF JobInv, JobKeeps, JobEnds, Accounted
  <2> QED BY <2>2, <2>3, DueWaits DEF DueIsWaiting, Window
<1> QED BY <1>1, JobHolds, PTL
=============================================================================
