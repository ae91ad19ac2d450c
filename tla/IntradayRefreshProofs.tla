------------------------ MODULE IntradayRefreshProofs ------------------------
(***************************************************************************)
(* For every set of tickers, stories and answers and any number of runs:   *)
(* what a committed run told the agent, and what the planner's last word   *)
(* does to the orders.                                                     *)
(*                                                                         *)
(* A story that was told carries an alert with at least its stamp, and     *)
(* stamps only grow; so it is known for the rest of the day of its stamp.  *)
(* While a run is under way the committed rows stand still, and the        *)
(* identity it works with is that of the row.                              *)
(***************************************************************************)
EXTENDS IntradayRefresh, TLAPS

USE IntradayAssumption DEF IntradayAssumption

Stamps == [Stories -> Nat]
RowsOf == [Tickers -> Identities \cup {"none"}]
Contexts == [Tickers -> [identity : Identities, allow : BOOLEAN, mode : Modes]]

Runs == [at : {"idle", "begun", "synced", "sending"}, stored : Stamps, alerts : Stamps,
         rows : RowsOf, scope : SUBSET Tickers, ctx : Contexts,
         held : SUBSET Tickers, priced : SUBSET Tickers, todo : SUBSET Keys,
         told : SUBSET Stories, forced : SUBSET Tickers]

Typed ==
    /\ clock \in Nat /\ dayStart \in Nat /\ dayStart <= clock
    /\ stored \in Stamps /\ alerts \in Stamps
    /\ rows \in RowsOf /\ decided \in RowsOf /\ pin \in [Tickers -> Modes]
    /\ held \subseteq Tickers
    /\ orders \in [Keys -> {"none", "open", "filled"}]
    /\ tells \in [Stories -> SUBSET (Nat \X Nat)]
    /\ run \in Runs

\* Stamps grow: an alert's is at most its story's.
StampsFit == \A s \in Stories : alerts[s] <= stored[s] /\ stored[s] <= clock

\* What was told is known.
TellsFit == \A s \in Stories : \A p \in tells[s] : p[1] <= clock /\ p[2] <= alerts[s]

\* The stamps of a run are later, and what it is to tell was not known.
RunStamps ==
    run.at # "idle" =>
        \A s \in Stories :
            /\ stored[s] <= run.stored[s] /\ run.stored[s] <= clock
            /\ alerts[s] <= run.alerts[s] /\ run.alerts[s] <= run.stored[s]
            /\ run.at # "sending" => run.alerts[s] = alerts[s]
            /\ s \in run.told => /\ run.alerts[s] = run.stored[s]
                                 /\ alerts[s] <= dayStart

\* Only a run that sends orders has decided.
Undecided == run.at # "sending" => run.told = {} /\ run.forced = {}

\* A run works with the identity of the row.
RowIdentity ==
    run.at # "idle" =>
        \A t \in Tickers : rows[t] # "none" => run.ctx[t].identity = rows[t]

\* Its sync keeps the row, or calls the position tactical.
SyncKeeps ==
    run.at = "synced" =>
        \A t \in run.held : run.rows[t] = Tactical \/ run.rows[t] = rows[t]

NearAhead(t) == \E s \in Batch(t) : NearEvent(s)

\* The sales the planner forced are on their way.
ForcedOnTheirWay ==
    run.at = "sending" =>
        \A t \in run.priced \cap run.held :
            rows[t] = Tactical /\ run.ctx[t].mode # "review_only" /\ NearAhead(t)
                => <<t, "reduce">> \in run.todo \/ orders[<<t, "reduce">>] # "none"

\* No opening order of a tactical ticker waits before an event.
NoOpeningWaits ==
    run.at = "sending" =>
        \A t \in Tickers : <<t, "enter_long">> \in run.todo /\ run.ctx[t].identity = Tactical
                               => ~NearAhead(t)

IInv ==
    /\ Typed
    /\ StampsFit
    /\ TellsFit
    /\ RunStamps
    /\ Undecided
    /\ RowIdentity
    /\ SyncKeeps
    /\ ForcedOnTheirWay
    /\ NoOpeningWaits
    /\ StoriesReachAgent
    /\ FreshStoryOnce
    /\ CoreRowIsKept

-----------------------------------------------------------------------------
\* A run that has not begun holds nothing.
LEMMA IdleRun ==
    NoRun \in Runs /\ NoRun.at = "idle" /\ NoRun.told = {} /\ NoRun.forced = {}
  BY DEF NoRun, Runs, NoRows, NoContext, Stamps, RowsOf, Contexts, Identities, Modes, Tactical

\* At the start no story is known and no run begun.
LEMMA InitInv == Init => IInv
<1> SUFFICES ASSUME Init PROVE IInv
    OBVIOUS
<1>1. Typed
    BY IdleRun DEF Init, Typed, Stamps, RowsOf, NoRows, Modes
<1>2. run.at = "idle" /\ run.told = {} /\ run.forced = {}
    BY IdleRun DEF Init
<1>3. /\ clock = 0 /\ \A s \in Stories : stored[s] = 0 /\ alerts[s] = 0 /\ tells[s] = {}
    BY DEF Init
<1> QED BY <1>1, <1>2, <1>3 DEF IInv, StampsFit, TellsFit, RunStamps, Undecided, RowIdentity,
           SyncKeeps, ForcedOnTheirWay, NoOpeningWaits, StoriesReachAgent, FreshStoryOnce,
           CoreRowIsKept

\* The invariant where no run is under way.
LEMMA IdleInv ==
    ASSUME Typed', StampsFit', TellsFit', StoriesReachAgent', FreshStoryOnce',
           run'.at = "idle", run'.told = {}, run'.forced = {}
    PROVE  IInv'
  BY DEF IInv, RunStamps, Undecided, RowIdentity, SyncKeeps, ForcedOnTheirWay,
     NoOpeningWaits, CoreRowIsKept

\* What the stories and the agent are owed depends on these variables alone.
LEMMA StoriesKept ==
    ASSUME IInv, UNCHANGED <<clock, dayStart, stored, alerts, history>>
    PROVE  StampsFit' /\ TellsFit' /\ StoriesReachAgent' /\ FreshStoryOnce'
  BY DEF IInv, StampsFit, TellsFit, StoriesReachAgent, FreshStoryOnce, history

-----------------------------------------------------------------------------
(* Outside the run.                                                        *)

\* The preopen run buys.
LEMMA MorningInv ==
    ASSUME IInv, NEW t \in Tickers, NEW identity \in Identities, NEW filled \in BOOLEAN,
           Morning(t, identity, filled)
    PROVE  IInv'
<1>1. /\ run.at = "idle" /\ run' = run /\ run.told = {} /\ run.forced = {}
      /\ UNCHANGED <<clock, dayStart, stored, alerts, pin, history>>
    BY DEF Morning, IInv, Undecided
<1>2. /\ decided' = [decided EXCEPT ![t] = identity]
      /\ orders' = [orders EXCEPT ![<<t, "enter_long">>] = IF filled THEN "filled" ELSE "open"]
      /\ held' \subseteq held \cup {t}
      /\ rows' = rows \/ rows' = [rows EXCEPT ![t] = identity]
    BY DEF Morning
<1>3. Typed'
    BY <1>1, <1>2 DEF IInv, Typed, RowsOf, history
<1> QED BY <1>1, <1>3, StoriesKept, IdleInv

\* A pin changes.
LEMMA ChangePinInv ==
    ASSUME IInv, NEW t \in Tickers, NEW mode \in Modes, ChangePin(t, mode) PROVE IInv'
<1>1. /\ run.at = "idle" /\ run' = run /\ run.told = {} /\ run.forced = {}
      /\ UNCHANGED <<clock, dayStart, stored, alerts, rows, decided, held, orders, history>>
    BY DEF ChangePin, IInv, Undecided, db, broker
<1>2. Typed'
    BY <1>1 DEF ChangePin, IInv, Typed, history
<1> QED BY <1>1, <1>2, StoriesKept, IdleInv

\* An order fills while no run polls it, perhaps under a run.
LEMMA LateFillInv == ASSUME IInv, NEW k \in Keys, LateFill(k) PROVE IInv'
<1>1. /\ orders[k] = "open" /\ orders' = [orders EXCEPT ![k] = "filled"]
      /\ held' \subseteq held \cup {k[1]} /\ k[1] \in Tickers
      /\ UNCHANGED <<clock, dayStart, stored, alerts, rows, decided, pin, run, history>>
    BY DEF LateFill, db, desk, Keys
<1>2. Typed'
    BY <1>1 DEF IInv, Typed, history
<1>3. \A key \in Keys : orders[key] # "none" => orders'[key] # "none"
    BY <1>1 DEF IInv, Typed
<1>4. \A t \in Tickers : <<t, "reduce">> \in Keys
    BY DEF Keys, Actions
<1>5. ForcedOnTheirWay'
    BY <1>1, <1>3, <1>4 DEF IInv, Typed, Runs, ForcedOnTheirWay, NearAhead, Batch
<1> QED BY <1>1, <1>2, <1>5, StoriesKept DEF IInv, RunStamps, Undecided, RowIdentity, SyncKeeps,
           NoOpeningWaits, NearAhead, Batch, CoreRowIsKept

\* The day ends: what was told that day is past.
LEMMA NewDayInv == ASSUME IInv, NewDay PROVE IInv'
<1>1. /\ run.at = "idle" /\ run' = run /\ run.told = {} /\ run.forced = {}
      /\ dayStart' = clock /\ clock > dayStart
      /\ UNCHANGED <<clock, stored, alerts, rows, pin, held, tells, unpriced>>
    BY DEF NewDay, IInv, Undecided, db, history
<1>2. Typed'
    BY <1>1 DEF NewDay, IInv, Typed, NoRows, RowsOf
<1>3. FreshStoryOnce'
  <2>1. \A s \in Stories : \A p \in tells[s] : p[2] \in Nat
      BY DEF IInv, Typed
  <2> QED BY <1>1, <2>1 DEF IInv, Typed, FreshStoryOnce
<1>4. StampsFit' /\ TellsFit' /\ StoriesReachAgent'
    BY <1>1 DEF IInv, StampsFit, TellsFit, StoriesReachAgent
<1> QED BY <1>1, <1>2, <1>3, <1>4, IdleInv

-----------------------------------------------------------------------------
(* The run.                                                                *)

\* A run begins with later stamps and the identities of the rows.
LEMMA BeginInv == ASSUME IInv, NEW news, Begin(news) PROVE IInv'
<1> DEFINE ctx == [t \in Tickers |-> Context(t)]
           fresh == [s \in Stories |-> IF s \in news THEN clock + 1 ELSE stored[s]]
<1>1. /\ run' = [NoRun EXCEPT !.at = "begun", !.stored = fresh, !.alerts = alerts,
                              !.scope = Scope, !.ctx = ctx]
      /\ clock' = clock + 1
      /\ UNCHANGED <<dayStart, stored, alerts, rows, decided, pin, held, orders, history>>
    BY DEF Begin, db, desk, broker
<1>2. ctx \in Contexts
  <2>1. \A t \in Tickers : Context(t) \in [identity : Identities, allow : BOOLEAN, mode : Modes]
      BY DEF IInv, Typed, RowsOf, Context, Identities, Tactical
  <2> QED BY <2>1 DEF Contexts
<1>3. fresh \in Stamps
    BY DEF IInv, Typed, Stamps
<1>4. Scope \subseteq Tickers
    BY DEF Scope, OrderedToday
<1>5. \A t \in Tickers : rows[t] # "none" => ctx[t].identity = rows[t]
    BY DEF Context
<1>6. \A s \in Stories : stored[s] <= fresh[s] /\ fresh[s] <= clock + 1 /\ alerts[s] <= fresh[s]
    BY DEF IInv, Typed, Stamps, StampsFit
<1> HIDE DEF ctx, fresh
<1>7. /\ run' \in Runs /\ run'.at = "begun" /\ run'.stored = fresh /\ run'.alerts = alerts
      /\ run'.ctx = ctx /\ run'.told = {} /\ run'.forced = {}
    BY <1>1, <1>2, <1>3, <1>4, IdleRun DEF Runs, IInv, Typed
<1>8. Typed'
    BY <1>1, <1>7 DEF IInv, Typed, history
<1>9. StampsFit' /\ TellsFit' /\ StoriesReachAgent' /\ FreshStoryOnce'
    BY <1>1 DEF IInv, Typed, Stamps, StampsFit, TellsFit, StoriesReachAgent, FreshStoryOnce, history
<1>10. RunStamps'
    BY <1>1, <1>6, <1>7 DEF RunStamps, IInv, Typed, Stamps
<1>11. RowIdentity' /\ SyncKeeps' /\ Undecided' /\ CoreRowIsKept'
    BY <1>1, <1>5, <1>7 DEF RowIdentity, SyncKeeps, Undecided, CoreRowIsKept
<1> QED BY <1>7, <1>8, <1>9, <1>10, <1>11 DEF IInv, ForcedOnTheirWay, NoOpeningWaits

\* The sync.
LEMMA SyncInv == ASSUME IInv, Sync PROVE IInv'
<1> DEFINE synced == [t \in Tickers |-> IF t \in held THEN SyncedIdentity(t) ELSE "none"]
<1>1. /\ run.at = "begun"
      /\ run' = [run EXCEPT !.at = "synced", !.held = held, !.rows = synced]
      /\ UNCHANGED <<clock, dayStart, stored, alerts, rows, decided, pin, held, orders, history>>
    BY DEF Sync, db, desk
<1>2. synced \in RowsOf /\ \A t \in held : synced[t] = Tactical \/ synced[t] = rows[t]
    BY DEF IInv, Typed, RowsOf, SyncedIdentity, Identities, Tactical
<1> HIDE DEF synced
<1>3. /\ run' \in Runs /\ run'.at = "synced" /\ run'.held = held /\ run'.rows = synced
      /\ run'.stored = run.stored /\ run'.alerts = run.alerts /\ run'.ctx = run.ctx
      /\ run'.told = run.told /\ run'.forced = run.forced
    BY <1>1, <1>2 DEF Runs, IInv, Typed
<1>4. Typed'
    BY <1>1, <1>3 DEF IInv, Typed, history
<1>5. RunStamps' /\ Undecided'
    BY <1>1, <1>3 DEF IInv, RunStamps, Undecided
<1>6. RowIdentity' /\ SyncKeeps' /\ CoreRowIsKept'
    BY <1>1, <1>2, <1>3 DEF IInv, RowIdentity, SyncKeeps, CoreRowIsKept
<1> QED BY <1>1, <1>3, <1>4, <1>5, <1>6, StoriesKept DEF IInv, ForcedOnTheirWay, NoOpeningWaits

\* What an answer may come to.
LEMMA FinalActions ==
    ASSUME NEW t \in Tickers, NEW answer \in AgentAnswers
    PROVE  Final(t, answer[t]) \in {"hold", "open_new", "reduce", "exit"}
  BY DEF Final, Guarded, AgentAnswers

\* Alerts are stored, answers overruled and orders queued.
LEMMA DecideInv ==
    ASSUME IInv, NEW covered, NEW priced, NEW answer \in AgentAnswers,
           Decide(covered, priced, answer)
    PROVE  IInv'
<1> DEFINE marks == [s \in Stories |-> IF s.ticker \in covered /\ s \in Fresh(s.ticker)
                                       THEN run.stored[s] ELSE run.alerts[s]]
           tell == UNION {Fresh(t) : t \in priced}
           sales == {t \in priced : ForcesReduce(t)}
           final(t) == Final(t, answer[t])
           queue == {Order(t, final(t)) : t \in {u \in priced : Executable(final(u))}}
<1>1. /\ run.at = "synced" /\ covered \subseteq run.scope /\ priced \subseteq covered
      /\ run' = [run EXCEPT !.at = "sending", !.priced = priced, !.alerts = marks,
                            !.told = tell, !.forced = sales, !.todo = queue]
      /\ UNCHANGED <<clock, dayStart, stored, alerts, rows, decided, pin, held, orders, history>>
    BY DEF Decide, db, desk, broker
<1>2. priced \subseteq Tickers
    BY <1>1 DEF IInv, Typed, Runs
<1>3. ASSUME NEW s \in Stories
      PROVE  /\ marks[s] \in Nat
             /\ marks[s] = run.stored[s] \/ marks[s] = run.alerts[s]
             /\ s \in tell => /\ marks[s] = run.stored[s] /\ run.alerts[s] <= dayStart
    BY <1>1 DEF IInv, Typed, Runs, Stamps, Fresh, Batch, Known
<1>4. marks \in Stamps /\ tell \subseteq Stories /\ sales \subseteq Tickers
    BY <1>2, <1>3 DEF Stamps, Fresh, Batch
<1>5. queue \subseteq Keys
    BY <1>2, FinalActions DEF Order, Executable, Keys, Actions
<1>6. /\ \A t \in priced : ~Executable(final(t)) \/ Order(t, final(t)) \in queue
      /\ \A k \in queue : \E t \in priced : Executable(final(t)) /\ k = Order(t, final(t))
    OBVIOUS
<1> HIDE DEF marks, tell, queue
<1>7. /\ run' \in Runs /\ run'.at = "sending" /\ run'.held = run.held /\ run'.priced = priced
      /\ run'.stored = run.stored /\ run'.alerts = marks /\ run'.ctx = run.ctx
      /\ run'.told = tell /\ run'.forced = sales /\ run'.todo = queue
    BY <1>1, <1>2, <1>4, <1>5 DEF Runs, IInv, Typed
<1>8. Typed'
    BY <1>1, <1>7 DEF IInv, Typed, history
<1>9. RunStamps'
  <2> SUFFICES ASSUME NEW s \in Stories
               PROVE  /\ stored[s] <= run.stored[s] /\ run.stored[s] <= clock
                      /\ alerts[s] <= marks[s] /\ marks[s] <= run.stored[s]
                      /\ s \in tell => /\ marks[s] = run.stored[s] /\ alerts[s] <= dayStart
      BY <1>1, <1>7 DEF RunStamps
  <2>1. /\ stored[s] <= run.stored[s] /\ run.stored[s] <= clock
        /\ run.alerts[s] = alerts[s] /\ run.alerts[s] <= run.stored[s]
      BY <1>1 DEF IInv, RunStamps
  <2>2. alerts[s] \in Nat /\ run.stored[s] \in Nat
      BY DEF IInv, Typed, Stamps, Runs
  <2> QED BY <1>3, <2>1, <2>2
<1>10. RowIdentity' /\ SyncKeeps' /\ Undecided'
    BY <1>1, <1>7 DEF IInv, RowIdentity, SyncKeeps, Undecided
<1>11. CoreRowIsKept'
  <2> SUFFICES ASSUME NEW t \in sales, rows[t] = "core_holding" PROVE FALSE
      BY <1>1, <1>7 DEF CoreRowIsKept
  <2>1. run.ctx[t].identity = "core_holding"
      BY <1>1, <1>2 DEF IInv, RowIdentity
  <2> QED BY <2>1 DEF ForcesReduce
<1>12. \A t \in Tickers : Batch(t)' = Batch(t)
    BY <1>7 DEF Batch
<1>13. ForcedOnTheirWay'
  <2> SUFFICES ASSUME NEW t \in priced \cap run.held, rows[t] = Tactical, NearAhead(t)
               PROVE  <<t, "reduce">> \in queue
      BY <1>1, <1>2, <1>7, <1>12 DEF ForcedOnTheirWay, NearAhead
  <2>1. run.ctx[t].identity = Tactical /\ run.rows[t] = Tactical
      BY <1>1, <1>2 DEF IInv, RowIdentity, SyncKeeps, Tactical
  <2>2. EventAhead(t)
      BY DEF NearAhead, NearEvent, EventAhead, OwnEvent
  <2>3. final(t) = "reduce"
      BY <2>1, <2>2 DEF Final, BlocksOpen, Pending, ForcesReduce, Tactical
  <2> QED BY <1>6, <2>3 DEF Order, Executable
<1>14. NoOpeningWaits'
  <2> SUFFICES ASSUME NEW t \in Tickers, <<t, "enter_long">> \in queue,
                      run.ctx[t].identity = Tactical
               PROVE  ~NearAhead(t)
      BY <1>1, <1>7, <1>12 DEF NoOpeningWaits, NearAhead
  <2>1. PICK u \in priced : <<t, "enter_long">> = Order(u, final(u))
      BY <1>6
  <2>2. u = t /\ final(t) = "open_new"
      BY <1>2, <2>1, FinalActions DEF Order
  <2>3. ~EventAhead(t)
      BY <2>2 DEF Final, Guarded, BlocksOpen, Pending
  <2> QED BY <2>3 DEF NearAhead, NearEvent, EventAhead, OwnEvent
<1> QED BY <1>1, <1>8, <1>9, <1>10, <1>11, <1>13, <1>14, StoriesKept DEF IInv

\* An order leaves the queue: sent, or rejected because it is review-only.
LEMMA SendingInv ==
    ASSUME IInv, run.at = "sending", NEW k \in Keys, NEW after \in RowsOf,
           run' = [run EXCEPT !.todo = run.todo \ {k}, !.rows = after],
           k \in run.todo,
           orders' \in [Keys -> {"none", "open", "filled"}],
           \A key \in Keys : orders[key] # "none" => orders'[key] # "none",
           orders'[k] # "none", held' \subseteq held \cup {k[1]},
           UNCHANGED <<clock, dayStart, stored, alerts, rows, decided, pin, history>>
    PROVE  IInv'
<1>1. /\ run' \in Runs /\ run'.at = "sending" /\ run'.held = run.held /\ run'.priced = run.priced
      /\ run'.stored = run.stored /\ run'.alerts = run.alerts /\ run'.ctx = run.ctx
      /\ run'.told = run.told /\ run'.forced = run.forced /\ run'.todo = run.todo \ {k}
    BY DEF Runs, IInv, Typed
<1>2. Typed'
    BY <1>1 DEF IInv, Typed, history, Keys
<1>3. RunStamps' /\ RowIdentity' /\ SyncKeeps' /\ Undecided' /\ CoreRowIsKept'
    BY <1>1 DEF IInv, RunStamps, RowIdentity, SyncKeeps, Undecided, CoreRowIsKept
<1>4. \A t : Batch(t)' = Batch(t)
    BY <1>1 DEF Batch
<1>5. \A t \in Tickers : <<t, "reduce">> \in Keys
    BY DEF Keys, Actions
<1>6. ForcedOnTheirWay'
    BY <1>1, <1>4, <1>5 DEF IInv, Typed, Runs, ForcedOnTheirWay, NearAhead
<1>7. NoOpeningWaits'
    BY <1>1, <1>4 DEF IInv, NoOpeningWaits, NearAhead
<1> QED BY <1>2, <1>3, <1>6, <1>7, StoriesKept DEF IInv

\* The broker takes an order.
LEMMA SendInv == ASSUME IInv, NEW k \in Keys, NEW filled \in BOOLEAN, Send(k, filled) PROVE IInv'
<1> DEFINE row == IF ~filled THEN run.rows[k[1]]
                  ELSE IF k[2] = "enter_long" THEN run.ctx[k[1]].identity ELSE "none"
           after == [run.rows EXCEPT ![k[1]] = row]
<1>1. /\ run.at = "sending" /\ k \in run.todo /\ k[1] \in Tickers
      /\ orders' = [orders EXCEPT ![k] = IF filled THEN "filled" ELSE "open"]
      /\ held' \subseteq held \cup {k[1]}
      /\ UNCHANGED <<clock, dayStart, stored, alerts, rows, decided, pin, history>>
    BY DEF Send, Keys, db, desk
<1>2. run' = [run EXCEPT !.todo = run.todo \ {k}, !.rows = after]
    BY DEF Send, IInv, Typed, Runs
<1>3. after \in RowsOf
    BY <1>1 DEF IInv, Typed, Runs, RowsOf, Contexts
<1>4. /\ orders' \in [Keys -> {"none", "open", "filled"}] /\ orders'[k] # "none"
      /\ \A key \in Keys : orders[key] # "none" => orders'[key] # "none"
    BY <1>1 DEF IInv, Typed
<1> HIDE DEF after
<1> QED BY <1>1, <1>2, <1>3, <1>4, SendingInv

\* The broker never sees a review-only order.
LEMMA RejectInv == ASSUME IInv, NEW k \in Keys, Reject(k) PROVE IInv'
<1>1. /\ run.at = "sending" /\ k \in run.todo /\ orders[k] # "none"
      /\ run' = [run EXCEPT !.todo = run.todo \ {k}]
      /\ UNCHANGED <<clock, dayStart, stored, alerts, rows, decided, pin, held, orders, history>>
    BY DEF Reject, db, desk, broker
<1>2. run' = [run EXCEPT !.todo = run.todo \ {k}, !.rows = run.rows] /\ run.rows \in RowsOf
    BY <1>1 DEF IInv, Typed, Runs
<1> QED BY <1>1, <1>2, SendingInv DEF IInv, Typed

\* The commit: what the run was to tell, it has told.
LEMMA CommitInv == ASSUME IInv, Commit PROVE IInv'
<1>1. /\ run.at = "sending" /\ run' = NoRun
      /\ stored' = run.stored /\ alerts' = run.alerts /\ rows' = run.rows
      /\ UNCHANGED <<clock, dayStart, decided, pin, held, orders>>
    BY DEF Commit, desk, broker
<1>2. ASSUME NEW s \in Stories
      PROVE  tells'[s] = IF s \in run.told THEN tells[s] \cup {<<clock, run.stored[s]>>}
                         ELSE tells[s]
    BY DEF Commit
<1>3. unpriced' = unpriced \cup {s \in Stories : run.alerts[s] # alerts[s] /\ s \notin run.told}
    BY DEF Commit
<1>4. Typed'
  <2>1. tells' \in [Stories -> SUBSET (Nat \X Nat)]
    <3>1. \A s \in Stories : tells'[s] \subseteq Nat \X Nat
      <4> SUFFICES ASSUME NEW s \in Stories PROVE tells'[s] \subseteq Nat \X Nat
          OBVIOUS
      <4>1. clock \in Nat /\ run.stored[s] \in Nat
          BY DEF IInv, Typed, Runs, Stamps
      <4>2. tells[s] \in SUBSET (Nat \X Nat)
          BY DEF IInv, Typed
      <4>3. {<<clock, run.stored[s]>>} \in SUBSET (Nat \X Nat)
          BY <4>1
      <4>4. CASE s \in run.told
        <5>1. tells'[s] = tells[s] \cup {<<clock, run.stored[s]>>}
            BY <1>2, <4>4
        <5> QED BY <4>2, <4>3, <5>1, Zenon
      <4>5. CASE s \notin run.told
          BY <1>2, <4>2, <4>5
      <4> QED BY <4>4, <4>5
    <3> QED BY <3>1 DEF Commit
  <2> QED BY <1>1, <2>1, IdleRun DEF IInv, Typed, Runs
<1>5. ASSUME NEW s \in Stories
      PROVE  /\ stored[s] <= run.stored[s] /\ run.stored[s] <= clock
             /\ alerts[s] <= run.alerts[s] /\ run.alerts[s] <= run.stored[s]
             /\ s \in run.told => run.alerts[s] = run.stored[s] /\ alerts[s] <= dayStart
             /\ alerts[s] \in Nat /\ run.alerts[s] \in Nat /\ run.stored[s] \in Nat
             /\ clock \in Nat /\ dayStart \in Nat
             /\ \A p \in tells[s] : /\ p[1] \in Nat /\ p[2] \in Nat
                                     /\ p[1] <= clock /\ p[2] <= alerts[s]
    BY <1>1 DEF IInv, RunStamps, Typed, Stamps, Runs, TellsFit
<1>6. StampsFit'
    BY <1>1, <1>5 DEF StampsFit
<1>7. TellsFit'
  <2> SUFFICES ASSUME NEW s \in Stories, NEW p \in tells'[s]
               PROVE  p[1] <= clock /\ p[2] <= run.alerts[s]
      BY <1>1 DEF TellsFit
  <2>1. CASE p \in tells[s]
      BY <1>5, <2>1
  <2>2. CASE s \in run.told /\ p = <<clock, run.stored[s]>>
      BY <1>5, <2>2
  <2> QED BY <1>2, <2>1, <2>2
<1>8. StoriesReachAgent'
  <2> SUFFICES ASSUME NEW s \in Stories, run.alerts[s] # 0
               PROVE  tells'[s] # {} \/ s \in unpriced'
      BY <1>1 DEF StoriesReachAgent
  <2>1. CASE s \in run.told
      BY <1>2, <2>1
  <2>2. CASE s \notin run.told /\ run.alerts[s] # alerts[s]
      BY <1>3, <2>2
  <2>3. CASE s \notin run.told /\ run.alerts[s] = alerts[s]
      BY <1>2, <1>3, <2>3 DEF IInv, StoriesReachAgent
  <2> QED BY <2>1, <2>2, <2>3
<1>9. FreshStoryOnce'
  <2> SUFFICES ASSUME NEW s \in Stories, NEW p \in tells'[s], NEW q \in tells'[s],
                      p[2] > dayStart
               PROVE  ~(q[1] > p[1])
      BY <1>1 DEF FreshStoryOnce
  <2>1. CASE s \notin run.told
      BY <1>2, <2>1 DEF IInv, FreshStoryOnce
  <2>2. CASE s \in run.told
    <3>1. p \notin tells[s]
        BY <1>5, <2>2
    <3>2. p = <<clock, run.stored[s]>>
        BY <1>2, <2>2, <3>1
    <3>3. q[1] <= clock /\ q[1] \in Nat
      <4>1. CASE q \in tells[s]
          BY <1>5, <4>1
      <4>2. CASE q = <<clock, run.stored[s]>>
          BY <1>5, <4>2
      <4> QED BY <1>2, <2>2, <4>1, <4>2
    <3> QED BY <1>5, <3>2, <3>3
  <2> QED BY <2>1, <2>2
<1> QED BY <1>1, <1>4, <1>6, <1>7, <1>8, <1>9, IdleRun, IdleInv

\* A rollback: the alerts and the answers of the run go together.
LEMMA FailInv == ASSUME IInv, Fail PROVE IInv'
<1>1. run' = NoRun /\ UNCHANGED <<clock, dayStart, stored, alerts, rows, decided, pin, held,
                                  orders, history>>
    BY DEF Fail, AlertsAfterRollback, desk, broker
<1>2. Typed'
    BY <1>1, IdleRun DEF IInv, Typed, history
<1> QED BY <1>1, <1>2, IdleRun, StoriesKept, IdleInv

-----------------------------------------------------------------------------
\* Every step keeps the invariant.
LEMMA NextInv == IInv /\ [Next]_vars => IInv'
<1> SUFFICES ASSUME IInv, [Next]_vars PROVE IInv'
    OBVIOUS
<1>1. ASSUME NEW t \in Tickers, NEW identity \in Identities, NEW filled \in BOOLEAN,
             Morning(t, identity, filled)
      PROVE IInv'
    BY <1>1, MorningInv
<1>2. ASSUME NEW t \in Tickers, NEW mode \in Modes, ChangePin(t, mode) PROVE IInv'
    BY <1>2, ChangePinInv
<1>3. ASSUME NEW k \in Keys, LateFill(k) PROVE IInv'
    BY <1>3, LateFillInv
<1>4. CASE NewDay
    BY <1>4, NewDayInv
<1>5. ASSUME NEW news, Begin(news) PROVE IInv'
    BY <1>5, BeginInv
<1>6. CASE Sync
    BY <1>6, SyncInv
<1>7. ASSUME NEW covered, NEW priced, NEW answer \in AgentAnswers,
             Decide(covered, priced, answer)
      PROVE IInv'
    BY <1>7, DecideInv
<1>8. ASSUME NEW k \in Keys, NEW filled \in BOOLEAN, Send(k, filled) PROVE IInv'
    BY <1>8, SendInv
<1>9. ASSUME NEW k \in Keys, Reject(k) PROVE IInv'
    BY <1>9, RejectInv
<1>10. CASE Commit
    BY <1>10, CommitInv
<1>11. CASE Fail
    BY <1>11, FailInv
<1>12. CASE UNCHANGED vars
  <2>1. UNCHANGED <<clock, dayStart, stored, alerts, rows, decided, pin, held, orders, run, history>>
      BY <1>12 DEF vars, db, desk, broker
  <2>2. Typed'
      BY <2>1 DEF IInv, Typed, history
  <2> QED BY <2>1, <2>2, StoriesKept DEF IInv, RunStamps, Undecided, RowIdentity, SyncKeeps,
             ForcedOnTheirWay, NoOpeningWaits, NearAhead, Batch, CoreRowIsKept
<1> QED BY <1>1, <1>2, <1>3, <1>4, <1>5, <1>6, <1>7, <1>8, <1>9, <1>10, <1>11, <1>12 DEF Next

\* The invariant holds throughout.
LEMMA InvHolds == Spec => []IInv
  BY InitInv, NextInv, PTL DEF Spec

\* No story that is silenced by its alert was kept from the agent.
THEOREM StoriesReachAgentHolds == Spec => []StoriesReachAgent
<1>1. IInv => StoriesReachAgent
    BY DEF IInv
<1> QED BY InvHolds, <1>1, PTL

\* No story of a day is told by two committed runs of that day.
THEOREM FreshStoryOnceHolds == Spec => []FreshStoryOnce
<1>1. IInv => FreshStoryOnce
    BY DEF IInv
<1> QED BY InvHolds, <1>1, PTL

\* The planner forces no sale of a core holding.
THEOREM CoreRowHolds == Spec => []CoreRowIsKept
<1>1. IInv => CoreRowIsKept
    BY DEF IInv
<1> QED BY InvHolds, <1>1, PTL

\* A run does not commit before it has sent the sales the planner forces.
THEOREM ForcedReductionHolds == Spec => []ForcedReductionSells
<1>1. IInv => ForcedReductionSells
    BY DEF IInv, ForcedOnTheirWay, NearAhead, ForcedReductionSells
<1> QED BY InvHolds, <1>1, PTL

\* No new opening order for a tactical ticker with an event ahead, in one step.
NoOpening(t) ==
    /\ run.at = "sending" /\ run.ctx[t].identity = Tactical
    /\ orders[<<t, "enter_long">>] = "none" /\ orders'[<<t, "enter_long">>] # "none"
    => ~\E s \in Batch(t) : NearEvent(s)

\* A run opens no tactical position into an event of its latest batch.
THEOREM NoOpenIntoEventHolds == Spec => NoOpenIntoEvent
<1>1. ASSUME IInv, [Next]_vars PROVE [\A t \in Tickers : NoOpening(t)]_vars
  <2> SUFFICES ASSUME NEW t \in Tickers, run.at = "sending", run.ctx[t].identity = Tactical,
                      orders[<<t, "enter_long">>] = "none",
                      orders'[<<t, "enter_long">>] # "none"
               PROVE  ~NearAhead(t)
      BY DEF NoOpening, NearAhead
  <2> DEFINE key == <<t, "enter_long">>
  <2>1. key \in Keys
      BY DEF Keys, Actions
  <2>2. ASSUME NEW k \in Keys, NEW filled, Send(k, filled) PROVE key \in run.todo
      BY <1>1, <2>1, <2>2 DEF Send, IInv, Typed
  <2>3. ASSUME NEW k \in Keys, LateFill(k) PROVE FALSE
      BY <1>1, <2>1, <2>3 DEF LateFill, IInv, Typed
  <2>4. key \in run.todo
      BY <1>1, <2>2, <2>3 DEF Next, Morning, ChangePin, NewDay, Begin, Sync, Decide, Reject,
         Commit, Fail, vars, broker
  <2> QED BY <1>1, <2>4 DEF IInv, NoOpeningWaits
<1>2. [\A t \in Tickers : NoOpening(t)]_vars
        <=> [\A t \in Tickers :
              /\ run.at = "sending" /\ run.ctx[t].identity = Tactical
              /\ orders[<<t, "enter_long">>] = "none"
              /\ orders'[<<t, "enter_long">>] # "none"
              => ~\E s \in Batch(t) : NearEvent(s)]_vars
    BY DEF NoOpening
<1> QED BY InvHolds, <1>1, <1>2, PTL DEF Spec, NoOpenIntoEvent
=============================================================================
