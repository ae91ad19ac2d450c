--------------------------- MODULE StockExecution ---------------------------
(***************************************************************************)
(* The stock path of a trading phase: sync with the broker, submit the     *)
(* decided orders, checkpoint what the broker did, save it, sync again and *)
(* commit.  Runs of different phases overlap and share broker and          *)
(* database.                                                               *)
(*                                                                         *)
(* A step of a run ends where another session or the broker can be seen:   *)
(* at a broker call, at a commit of an isolated session, at a row lock.    *)
(* Time is the position in fillSeq, the sequence of the broker's fills.    *)
(***************************************************************************)
EXTENDS Integers, Sequences, FiniteSets, FiniteSetsExt

CONSTANTS
    Runs,          \* threads that execute a phase, each again and again
    Orders,        \* idempotency keys, which are the client order ids
    Tickers,
    TickerOf,      \* ticker of an order
    Side,          \* 1 for enter_long, -1 for reduce and exit
    Qty,           \* quantity of an order
    NoOrder,       \* no order in hand
    NoSnap,        \* no snapshot pending
    MaxActive,     \* bound: runs that overlap
    MaxDecisions,  \* bound: decisions of one run
    Environment    \* what the surroundings may do

Switches == {"market_open", "crashes", "http_errors", "repeats", "reapprovals",
             "partial_cancels", "early_sells", "local_rejections"}

ASSUME ConstantAssumption ==
    /\ TickerOf \in [Orders -> Tickers]
    /\ Side \in [Orders -> {-1, 1}]
    /\ Qty \in [Orders -> Nat \ {0}]
    /\ NoOrder \notin Orders
    /\ NoSnap \notin [Tickers -> Int]
    /\ MaxActive \in Nat \ {0}
    /\ MaxDecisions \in Nat
    /\ Environment \subseteq Switches
    /\ IsFiniteSet(Runs)

VARIABLES
    \* the broker
    market,    \* status and filled quantity of each order
    account,   \* shares held
    fillSeq,   \* orders in the sequence of their filled_at
    posted,    \* orders in the sequence of their submitted_at
    \* the committed database
    dbOrder,   \* paper_orders: status, and whether the decision links are set
    dbExec,    \* number of paper_executions of an order, 2 for more than one
    snap,      \* stock quantities of the latest portfolio snapshot
    \* the open transaction of each run
    pend,      \* order rows written and not committed: the run locks them
    pendSnap,  \* snapshot written and not committed
    \* each run
    pc,        \* where it stands
    cur,       \* the order in hand
    todo,      \* loaded orders that are still to be reconciled
    left,      \* decisions left
    mem,       \* _orders_by_key of its broker object
    saved,     \* orders whose execution, by its own id, is stored
    sync       \* the sync under way

brokerVars == <<market, account, fillSeq, posted>>
dbVars     == <<dbOrder, dbExec, snap>>
txVars     == <<pend, pendSnap>>
runVars    == <<pc, cur, todo, left, mem, saved, sync>>
vars       == <<brokerVars, dbVars, txVars, runVars>>

\* "canceled" stands for canceled, expired and rejected by the broker.
Terminal == {"filled", "canceled"}
Statuses == Terminal \cup {"none", "accepted", "partially_filled"}

Row   == [st : Statuses, linked : BOOLEAN]
NoRow == [st |-> "none", linked |-> FALSE]

Flat == [t \in Tickers |-> 0]
Idle == [start |-> 0, asOf |-> 0, persist |-> FALSE, seen |-> Flat]

\* Steps of a run whose exception ends it: the session is rolled back.
Raised == {"mismatch", "http_error", "ambiguous", "refused"}
Steps  == Raised \cup {"idle", "started", "reconcile", "recordLate", "saveLate",
                       "validate", "decide", "poll", "refresh", "filled",
                       "unfilled", "saveFill", "saveOrder"}

Goto(r, step) == pc' = [pc EXCEPT ![r] = step]

Init ==
    /\ market = [k \in Orders |-> [st |-> "none", qty |-> 0]]
    /\ account = Flat
    /\ fillSeq = <<>>
    /\ posted = <<>>
    /\ dbOrder = [k \in Orders |-> NoRow]
    /\ dbExec = [k \in Orders |-> 0]
    /\ snap = Flat
    /\ pend = [r \in Runs |-> [k \in Orders |-> NoRow]]
    /\ pendSnap = [r \in Runs |-> NoSnap]
    /\ pc = [r \in Runs |-> "idle"]
    /\ cur = [r \in Runs |-> NoOrder]
    /\ todo = [r \in Runs |-> {}]
    /\ left = [r \in Runs |-> 0]
    /\ mem = [r \in Runs |-> [k \in Orders |-> NoRow]]
    /\ saved = [r \in Runs |-> {}]
    /\ sync = [r \in Runs |-> Idle]

-----------------------------------------------------------------------------
(* The database.                                                           *)

\* The row of order k that run r reads: its own write, or the committed row.
Visible(r, k) == IF pend[r][k] # NoRow THEN pend[r][k] ELSE dbOrder[k]

\* The runs whose open transaction has written the row of order k.
Holders(k) == {r \in Runs : pend[r][k] # NoRow}

\* save_paper_order in the run's session.  A row that does not change is not
\* written; one that changes waits for the lock of another transaction.
SaveOrder(r, k) ==
    \/ Visible(r, k) = mem[r][k] /\ UNCHANGED pend
    \/ /\ Visible(r, k) # mem[r][k]
       /\ Holders(k) \subseteq {r}
       /\ pend' = [pend EXCEPT ![r][k] = mem[r][k]]

\* Mutant: the checkpoint clears the decision links of the row.
CheckpointUnlinked(r, k) == [st |-> mem[r][k].st, linked |-> FALSE]

\* The row a checkpoint writes keeps the decision links of the committed one.
CheckpointRow(r, k) == [st |-> mem[r][k].st, linked |-> dbOrder[k].linked]

\* The isolated session waits for whoever holds the row, its own run included.
CheckpointFree(r, k) == CheckpointRow(r, k) = dbOrder[k] \/ Holders(k) = {}

\* _persist_irreversible_stock_audit: write the order and commit at once.
Checkpoint(r, k) ==
    /\ CheckpointFree(r, k)
    /\ dbOrder' = [dbOrder EXCEPT ![k] = CheckpointRow(r, k)]

\* save_paper_execution of an execution the table does not have by its id.
RecordExecution(r, k) ==
    /\ dbExec' = [dbExec EXCEPT ![k] = IF dbExec[k] = 0 THEN 1 ELSE 2]
    /\ saved' = [saved EXCEPT ![r] = saved[r] \cup {k}]

\* load_refreshable_paper_orders: visible orders that are not terminal.
Refreshable(r) ==
    {[key |-> k, linked |-> Visible(r, k).linked] :
        k \in {j \in Orders : Visible(r, j).st \notin Terminal \cup {"none"}}}

\* created_at of an order, by which the loaded orders are sorted.
PostTime(k) == CHOOSE i \in 1..Len(posted) : posted[i] = k

\* executed_at of a filled order.
FillTime(k) == CHOOSE i \in 1..Len(fillSeq) : fillSeq[i] = k

\* load_filled_stock_events: executions of each order that reads "filled".
Events(r) ==
    [k \in Orders |-> IF Visible(r, k).st = "filled" THEN dbExec[k] ELSE 0]

Signed(k) == Side[k] * Qty[k]

\* replay_stock_fills: the open quantities after the fills up to time i.
Net(events, i) ==
    [t \in Tickers |->
        MapThenSumSet(LAMBDA k : events[k] * Signed(k),
                      {k \in Orders : /\ TickerOf[k] = t
                                      /\ \E j \in 1..i : fillSeq[j] = k})]

\* What was held after the broker's first i fills.
FilledBy(i) == Net([k \in Orders |-> 1], i)

\* enrich_snapshot_with_stock_pnl does not raise: no sell exceeds what was
\* open, and the replay ends at the positions the broker reported.
ReplayMatches(r) ==
    /\ \A i \in 1..sync[r].asOf, t \in Tickers : Net(Events(r), i)[t] >= 0
    /\ Net(Events(r), sync[r].asOf) = sync[r].seen

-----------------------------------------------------------------------------
(* The broker.                                                             *)

Idling == \A r \in Runs : pc[r] = "idle"

\* Orders settle while phases run, or only between them.
MarketMoves == "market_open" \in Environment \/ Idling

\* Shares of ticker t that no open sell has reserved.
Available(t) ==
    account[t] - MapThenSumSet(LAMBDA k : Qty[k] - market[k].qty,
                     {k \in Orders : /\ TickerOf[k] = t /\ Side[k] = -1
                                     /\ market[k].st \notin Terminal \cup {"none"}})

\* A sell needs its shares, and by default no buy that is filled in part.
Accepts(k) ==
    \/ Side[k] = 1
    \/ /\ Available(TickerOf[k]) >= Qty[k]
       /\ \/ "early_sells" \in Environment
          \/ \A j \in Orders : TickerOf[j] = TickerOf[k]
                                  => market[j].st # "partially_filled"

FillUpTo(k, q, st) ==
    /\ market' = [market EXCEPT ![k] = [st |-> st, qty |-> q]]
    /\ account' = [account EXCEPT ![TickerOf[k]] =
                      @ + Side[k] * (q - market[k].qty)]

PartialFill(k) ==
    /\ MarketMoves
    /\ market[k].st = "accepted"
    /\ \E q \in 1..(Qty[k] - 1) : FillUpTo(k, q, "partially_filled")
    /\ UNCHANGED <<fillSeq, posted, dbVars, txVars, runVars>>

Fill(k) ==
    /\ MarketMoves
    /\ market[k].st \in {"accepted", "partially_filled"}
    /\ FillUpTo(k, Qty[k], "filled")
    /\ fillSeq' = Append(fillSeq, k)
    /\ UNCHANGED <<posted, dbVars, txVars, runVars>>

\* A day order that has not filled ends at the latest with the session.
Cancel(k) ==
    /\ MarketMoves
    /\ \/ market[k].st = "accepted"
       \/ market[k].st = "partially_filled" /\ "partial_cancels" \in Environment
    /\ market' = [market EXCEPT ![k].st = "canceled"]
    /\ UNCHANGED <<account, fillSeq, posted, dbVars, txVars, runVars>>

BrokerStep(k) == PartialFill(k) \/ Fill(k) \/ Cancel(k)

-----------------------------------------------------------------------------
(* A sync with the broker.                                                 *)

\* A phase starts and takes its decision_time.
Start(r) ==
    /\ pc[r] = "idle"
    /\ Cardinality({q \in Runs : pc[q] # "idle"}) < MaxActive
    /\ sync' = [sync EXCEPT ![r] = [Idle EXCEPT !.start = Len(fillSeq)]]
    /\ left' = [left EXCEPT ![r] = MaxDecisions]
    /\ Goto(r, "started")
    /\ UNCHANGED <<brokerVars, dbVars, txVars, cur, todo, mem, saved>>

BeginSync(r, asOf, persist) ==
    /\ sync' = [sync EXCEPT ![r] = [@ EXCEPT !.asOf = asOf, !.persist = persist]]
    /\ Goto(r, "reconcile")

\* The scan and the signals are done; the first sync loads the open orders.
FirstSync(r) ==
    /\ pc[r] = "started"
    /\ BeginSync(r, sync[r].start, TRUE)
    /\ todo' = [todo EXCEPT ![r] = Refreshable(r)]
    /\ UNCHANGED <<brokerVars, dbVars, txVars, cur, left, mem, saved>>

\* The loop takes the loaded orders in the sequence of their created_at.
Refreshes(r, o) ==
    /\ pc[r] = "reconcile"
    /\ \A p \in todo[r] : PostTime(o.key) <= PostTime(p.key)

\* has_paper_execution_for_order_id raises on a second row of an order.
Ambiguous(k) == market[k].st = "filled" /\ dbExec[k] = 2

\* Mutant: the loop refreshes the status and forgets the fill.
ReconcileStatusOnly(r) ==
    /\ \E o \in todo[r] :
         LET st == market[o.key].st
             row == [st |-> st, linked |-> o.linked]
         IN  /\ Refreshes(r, o)
             /\ mem' = [mem EXCEPT ![r][o.key] = row]
             /\ cur' = [cur EXCEPT ![r] = o.key]
             /\ todo' = [todo EXCEPT ![r] = @ \ {o}]
    /\ Goto(r, "saveLate")
    /\ UNCHANGED <<brokerVars, dbVars, txVars, left, saved, sync>>

\* Mutant: the refreshed order is saved before its fill is checkpointed.
ReconcileSavingFirst(r) ==
    /\ \E o \in todo[r] :
         LET st == market[o.key].st
             row == [st |-> st, linked |-> o.linked]
         IN  /\ Refreshes(r, o)
             /\ mem' = [mem EXCEPT ![r][o.key] = row]
             /\ cur' = [cur EXCEPT ![r] = o.key]
             /\ todo' = [todo EXCEPT ![r] = @ \ {o}]
             /\ pend' = [pend EXCEPT ![r][o.key] = row]
             /\ Goto(r, IF st = "filled" /\ dbExec[o.key] = 0
                        THEN "recordLate" ELSE "saveLate")
    /\ UNCHANGED <<brokerVars, dbVars, pendSnap, left, saved, sync>>

\* Mutant: any terminal status is taken for a fill.
ReconcileTerminal(r) ==
    /\ \E o \in todo[r] :
         LET st == market[o.key].st
             row == [st |-> st, linked |-> o.linked]
         IN  /\ Refreshes(r, o)
             /\ mem' = [mem EXCEPT ![r][o.key] = row]
             /\ cur' = [cur EXCEPT ![r] = o.key]
             /\ todo' = [todo EXCEPT ![r] = @ \ {o}]
             /\ Goto(r, IF st \in Terminal /\ dbExec[o.key] = 0
                        THEN "recordLate" ELSE "saveLate")
    /\ UNCHANGED <<brokerVars, dbVars, txVars, left, saved, sync>>

\* Mutant: a day order of an earlier run is taken to have ended with its day.
ReconcileExpired(r) ==
    /\ \E o \in todo[r] :
         LET st == IF market[o.key].st = "filled" THEN "filled" ELSE "canceled"
             row == [st |-> st, linked |-> o.linked]
         IN  /\ Refreshes(r, o)
             /\ mem' = [mem EXCEPT ![r][o.key] = row]
             /\ cur' = [cur EXCEPT ![r] = o.key]
             /\ todo' = [todo EXCEPT ![r] = @ \ {o}]
             /\ Goto(r, IF st = "filled" /\ dbExec[o.key] = 0
                        THEN "recordLate" ELSE "saveLate")
    /\ UNCHANGED <<brokerVars, dbVars, txVars, left, saved, sync>>

\* One turn of the loop: refresh an order; a fill without an execution is to
\* be recorded first, everything else is only saved.
ReconcileOrder(r) ==
    /\ \E o \in todo[r] :
         LET st == market[o.key].st
         IN  /\ Refreshes(r, o)
             /\ ~Ambiguous(o.key)
             /\ mem' = [mem EXCEPT ![r][o.key] = [st |-> st, linked |-> o.linked]]
             /\ cur' = [cur EXCEPT ![r] = o.key]
             /\ todo' = [todo EXCEPT ![r] = @ \ {o}]
             /\ Goto(r, IF st = "filled" /\ dbExec[o.key] = 0
                        THEN "recordLate" ELSE "saveLate")
    /\ UNCHANGED <<brokerVars, dbVars, txVars, left, saved, sync>>

RejectAmbiguous(r) ==
    /\ \E o \in todo[r] : Refreshes(r, o) /\ Ambiguous(o.key)
    /\ Goto(r, "ambiguous")
    /\ UNCHANGED <<brokerVars, dbVars, txVars, cur, todo, left, mem, saved, sync>>

\* persist_irreversible_stock_fill of a late fill, in a session of its own.
RecordLateFill(r) ==
    /\ pc[r] = "recordLate"
    /\ Checkpoint(r, cur[r])
    /\ RecordExecution(r, cur[r])
    /\ Goto(r, "saveLate")
    /\ UNCHANGED <<brokerVars, snap, txVars, cur, todo, left, mem, sync>>

SaveReconciled(r) ==
    /\ pc[r] = "saveLate"
    /\ SaveOrder(r, cur[r])
    /\ Goto(r, "reconcile")
    /\ UNCHANGED <<brokerVars, dbVars, pendSnap, cur, todo, left, mem, saved, sync>>

\* The loop is done; the positions are those of now.
FetchPositions(r) ==
    /\ pc[r] = "reconcile" /\ todo[r] = {}
    /\ sync' = [sync EXCEPT ![r] = [@ EXCEPT !.seen = account]]
    /\ Goto(r, "validate")
    /\ UNCHANGED <<brokerVars, dbVars, txVars, cur, todo, left, mem, saved>>

\* The replay agrees; a persisting sync writes the snapshot.  The sync of a
\* reapproval is followed by the risk manager, which raises on the candidate
\* that the fallback is described with.
AcceptSync(r) ==
    /\ pc[r] = "validate"
    /\ ReplayMatches(r)
    /\ pendSnap' = IF sync[r].persist
                   THEN [pendSnap EXCEPT ![r] = sync[r].seen] ELSE pendSnap
    /\ Goto(r, IF sync[r].persist THEN "decide" ELSE "refused")
    /\ UNCHANGED <<brokerVars, dbVars, pend, cur, todo, left, mem, saved, sync>>

RejectSync(r) ==
    /\ pc[r] = "validate"
    /\ ~ReplayMatches(r)
    /\ Goto(r, "mismatch")
    /\ UNCHANGED <<brokerVars, dbVars, txVars, cur, todo, left, mem, saved, sync>>

-----------------------------------------------------------------------------
(* Executing a stock decision.                                             *)

\* The next decision is order k; only with "repeats" one the broker has.
NextDecision(r, k) ==
    /\ pc[r] = "decide" /\ left[r] > 0
    /\ market[k].st = "none" \/ "repeats" \in Environment
    /\ left' = [left EXCEPT ![r] = left[r] - 1]
    /\ cur' = [cur EXCEPT ![r] = k]

\* submit_order knows the key, from this run or from its reconcile loop.
SubmitCached(r, k) ==
    /\ NextDecision(r, k)
    /\ mem[r][k] # NoRow
    /\ Goto(r, IF mem[r][k].st = "filled" THEN "filled" ELSE "refresh")
    /\ UNCHANGED <<brokerVars, dbVars, txVars, todo, mem, saved, sync>>

SubmitNew(r, k) ==
    /\ NextDecision(r, k)
    /\ mem[r][k] = NoRow
    /\ market[k].st = "none" /\ Accepts(k)
    /\ market' = [market EXCEPT ![k].st = "accepted"]
    /\ posted' = Append(posted, k)
    /\ Goto(r, "poll")
    /\ UNCHANGED <<account, fillSeq, dbVars, txVars, todo, mem, saved, sync>>

\* An earlier run has posted the key: the broker refuses it a second time.
SubmitDuplicate(r, k) ==
    /\ NextDecision(r, k)
    /\ mem[r][k] = NoRow
    /\ market[k].st # "none"
    /\ Goto(r, "http_error")
    /\ UNCHANGED <<brokerVars, dbVars, txVars, todo, mem, saved, sync>>

\* The guardrails of the adapter reject the order; it is refreshed at a broker
\* that never saw it, which answers 404.
RejectLocally(r, k) ==
    /\ "local_rejections" \in Environment
    /\ NextDecision(r, k)
    /\ mem[r][k] = NoRow /\ market[k].st = "none"
    /\ Goto(r, "http_error")
    /\ UNCHANGED <<brokerVars, dbVars, txVars, todo, mem, saved, sync>>

Submit(r, k) ==
    SubmitCached(r, k) \/ SubmitNew(r, k) \/ SubmitDuplicate(r, k)
        \/ RejectLocally(r, k)

\* Mutant: an order that filled in part is taken for filled.
PollPartial(r) ==
    /\ pc[r] = "poll"
    /\ LET st == market[cur[r]].st
       IN  /\ mem' = [mem EXCEPT ![r][cur[r]] = [st |-> st, linked |-> TRUE]]
           /\ Goto(r, IF st \in {"filled", "partially_filled"}
                      THEN "filled" ELSE "refresh")
    /\ UNCHANGED <<brokerVars, dbVars, txVars, cur, todo, left, saved, sync>>

\* _poll_until_terminal gives the status at some moment after the POST; a
\* filled order gets its execution.
Poll(r) ==
    /\ pc[r] = "poll"
    /\ LET st == market[cur[r]].st
       IN  /\ mem' = [mem EXCEPT ![r][cur[r]] = [st |-> st, linked |-> TRUE]]
           /\ Goto(r, IF st = "filled" THEN "filled" ELSE "refresh")
    /\ UNCHANGED <<brokerVars, dbVars, txVars, cur, todo, left, saved, sync>>

\* Mutant: a status the workflow has no name for is stored as it comes.
RefreshRaw(r) ==
    /\ pc[r] = "refresh"
    /\ LET st == market[cur[r]].st
       IN  /\ mem' = [mem EXCEPT ![r][cur[r]].st =
                        IF st = "canceled" THEN "expired" ELSE st]
           /\ Goto(r, IF st = "filled" THEN "filled" ELSE "unfilled")
    /\ UNCHANGED <<brokerVars, dbVars, txVars, cur, todo, left, saved, sync>>

\* No execution yet: _refresh_stock_order reads the order once more.
RefreshSubmitted(r) ==
    /\ pc[r] = "refresh"
    /\ mem' = [mem EXCEPT ![r][cur[r]].st = market[cur[r]].st]
    /\ Goto(r, IF market[cur[r]].st = "filled" THEN "filled" ELSE "unfilled")
    /\ UNCHANGED <<brokerVars, dbVars, txVars, cur, todo, left, saved, sync>>

\* Mutant: an unfilled order is only saved with the run's transaction.
SkipOrderCheckpoint(r) ==
    /\ pc[r] = "unfilled"
    /\ Goto(r, "saveOrder")
    /\ UNCHANGED <<brokerVars, dbVars, txVars, cur, todo, left, mem, saved, sync>>

\* persist_irreversible_stock_order, before the order can become a late fill.
CheckpointOrder(r) ==
    /\ pc[r] = "unfilled"
    /\ Checkpoint(r, cur[r])
    /\ Goto(r, "saveOrder")
    /\ UNCHANGED <<brokerVars, dbExec, snap, txVars, cur, todo, left, mem, saved,
                   sync>>

\* Mutant: a fill is checkpointed whether or not it is stored already.
CheckpointAgain(r) ==
    /\ pc[r] = "filled"
    /\ Checkpoint(r, cur[r])
    /\ RecordExecution(r, cur[r])
    /\ Goto(r, "saveFill")
    /\ UNCHANGED <<brokerVars, snap, txVars, cur, todo, left, mem, sync>>

\* persist_irreversible_stock_fill: order and execution in one transaction.
CheckpointFill(r) ==
    /\ pc[r] = "filled" /\ cur[r] \notin saved[r]
    /\ Checkpoint(r, cur[r])
    /\ RecordExecution(r, cur[r])
    /\ Goto(r, "saveFill")
    /\ UNCHANGED <<brokerVars, snap, txVars, cur, todo, left, mem, sync>>

\* has_paper_execution: this run has stored the execution before.
AlreadyStored(r) ==
    /\ pc[r] = "filled" /\ cur[r] \in saved[r]
    /\ Goto(r, "saveOrder")
    /\ UNCHANGED <<brokerVars, dbVars, txVars, cur, todo, left, mem, saved, sync>>

SaveSubmitted(r) ==
    /\ pc[r] = "saveOrder"
    /\ SaveOrder(r, cur[r])
    /\ Goto(r, "decide")
    /\ UNCHANGED <<brokerVars, dbVars, pendSnap, cur, todo, left, mem, saved, sync>>

\* After a fill the run syncs again, as of executed_at.
SaveFillAndSync(r) ==
    /\ pc[r] = "saveFill"
    /\ SaveOrder(r, cur[r])
    /\ BeginSync(r, FillTime(cur[r]), TRUE)
    /\ UNCHANGED <<brokerVars, dbVars, pendSnap, cur, left, mem, saved>>
    /\ todo' = [todo EXCEPT ![r] = Refreshable(r)']

\* An option decision falls back; its reapproval syncs without persisting,
\* and does not come back (AcceptSync).
ReapproveFallback(r) ==
    /\ "reapprovals" \in Environment
    /\ pc[r] = "decide" /\ left[r] > 0
    /\ left' = [left EXCEPT ![r] = left[r] - 1]
    /\ BeginSync(r, sync[r].start, FALSE)
    /\ todo' = [todo EXCEPT ![r] = Refreshable(r)]
    /\ UNCHANGED <<brokerVars, dbVars, txVars, cur, mem, saved>>

-----------------------------------------------------------------------------
(* The end of a run.                                                       *)

\* The session is closed and the broker object dropped.
Leave(r) ==
    /\ Goto(r, "idle")
    /\ pend' = [pend EXCEPT ![r] = [k \in Orders |-> NoRow]]
    /\ pendSnap' = [pendSnap EXCEPT ![r] = NoSnap]
    /\ cur' = [cur EXCEPT ![r] = NoOrder]
    /\ todo' = [todo EXCEPT ![r] = {}]
    /\ left' = [left EXCEPT ![r] = 0]
    /\ mem' = [mem EXCEPT ![r] = [k \in Orders |-> NoRow]]
    /\ saved' = [saved EXCEPT ![r] = {}]
    /\ sync' = [sync EXCEPT ![r] = Idle]

Commit(r) ==
    /\ pc[r] = "decide"
    /\ dbOrder' = [k \in Orders |-> Visible(r, k)]
    /\ snap' = IF pendSnap[r] = NoSnap THEN snap ELSE pendSnap[r]
    /\ Leave(r)
    /\ UNCHANGED <<brokerVars, dbExec>>

Rollback(r) ==
    /\ pc[r] \in Raised
    /\ Leave(r)
    /\ UNCHANGED <<brokerVars, dbVars>>

\* A call to the broker fails and raises.
HttpError(r) ==
    /\ "http_errors" \in Environment
    /\ \/ pc[r] \in {"reconcile", "poll", "refresh"}
       \/ pc[r] = "decide" /\ left[r] > 0
    /\ Goto(r, "http_error")
    /\ UNCHANGED <<brokerVars, dbVars, txVars, cur, todo, left, mem, saved, sync>>

Crash(r) ==
    /\ "crashes" \in Environment
    /\ pc[r] # "idle"
    /\ Leave(r)
    /\ UNCHANGED <<brokerVars, dbVars>>

SyncStep(r) ==
    \/ FirstSync(r) \/ ReconcileOrder(r) \/ RejectAmbiguous(r)
    \/ RecordLateFill(r) \/ SaveReconciled(r)
    \/ FetchPositions(r) \/ AcceptSync(r) \/ RejectSync(r)

ExecuteStep(r) ==
    \/ \E k \in Orders : Submit(r, k)
    \/ Poll(r) \/ RefreshSubmitted(r)
    \/ CheckpointOrder(r) \/ CheckpointFill(r) \/ AlreadyStored(r)
    \/ SaveSubmitted(r) \/ SaveFillAndSync(r) \/ ReapproveFallback(r)

RunStep(r) == SyncStep(r) \/ ExecuteStep(r) \/ Commit(r) \/ Rollback(r)

Next ==
    \/ \E r \in Runs : Start(r) \/ RunStep(r) \/ HttpError(r) \/ Crash(r)
    \/ \E k \in Orders : BrokerStep(k)

Spec == Init /\ [][Next]_vars

\* Cron starts runs, threads are scheduled, and day orders end.
FairSpec ==
    /\ Spec
    /\ \A r \in Runs : WF_vars(Start(r)) /\ WF_vars(RunStep(r))
    /\ \A k \in Orders : SF_vars(Fill(k) \/ Cancel(k))

-----------------------------------------------------------------------------
(* Properties.                                                             *)

\* Every variable has its type.
TypeOK ==
    /\ market \in [Orders -> [st : Statuses, qty : Nat]]
    /\ account \in [Tickers -> Int]
    /\ fillSeq \in Seq(Orders)
    /\ posted \in Seq(Orders)
    /\ dbOrder \in [Orders -> Row]
    /\ dbExec \in [Orders -> 0..2]
    /\ snap \in [Tickers -> Int]
    /\ pend \in [Runs -> [Orders -> Row]]
    /\ pendSnap \in [Runs -> [Tickers -> Int] \cup {NoSnap}]
    /\ pc \in [Runs -> Steps]
    /\ cur \in [Runs -> Orders \cup {NoOrder}]
    /\ todo \in [Runs -> SUBSET [key : Orders, linked : BOOLEAN]]
    /\ left \in [Runs -> 0..MaxDecisions]
    /\ mem \in [Runs -> [Orders -> Row]]
    /\ saved \in [Runs -> SUBSET Orders]
    /\ sync \in [Runs -> [start : Nat, asOf : Nat, persist : BOOLEAN,
                          seen : [Tickers -> Int]]]

\* No execution row of an order the broker has not filled, whichever path
\* reads the status: polling, refreshing, reconciling.
NoPhantomFill ==
    \A k \in Orders : dbExec[k] > 0 => market[k].st = "filled"

\* An order has at most one execution row, although the execution path and
\* the reconcile loops of several runs may each come upon its fill.
AtMostOneExecution == \A k \in Orders : dbExec[k] <= 1

\* No stored order hides an unrecorded fill behind a terminal status, which
\* load_refreshable_paper_orders would never look at again.
NoStrandedFill ==
    \A k \in Orders :
        dbOrder[k].st \in Terminal /\ market[k].st = "filled" => dbExec[k] > 0

\* A validation that finds the market where the sync's as_of left it, no
\* order half filled, every fill's order stored and no sell completed ahead of
\* its shares, passes: the reconcile loop has brought the ledger up to date.
QuietSyncPasses ==
    \A r \in Runs :
        /\ pc[r] = "validate"
        /\ sync[r].asOf = Len(fillSeq)
        /\ \A k \in Orders : market[k].qty \in {0, Qty[k]}
        /\ \A k \in Orders : market[k].st = "filled" => dbOrder[k].st # "none"
        /\ \A i \in 1..Len(fillSeq), t \in Tickers : FilledBy(i)[t] >= 0
        => ReplayMatches(r)

\* The decision links of a committed order row are never lost, whatever is
\* written over it by checkpoints, reconcile loops and rolled back runs.
LinkNeverLost ==
    [][\A k \in Orders : dbOrder[k].linked => dbOrder'[k].linked]_vars

\* An order the broker has accepted has a row, or a run has it in hand.
SubmittedOrderTracked ==
    \A k \in Orders :
        market[k].st # "none" =>
            \/ dbOrder[k].st # "none"
            \/ \E r \in Runs : /\ cur[r] = k
                               /\ pc[r] \in {"poll", "refresh", "filled", "unfilled"}

\* The checkpoint of run r waits for the row lock of the run's own transaction,
\* and for ever, as both sessions are of one thread.
SelfWait(r) ==
    /\ \/ pc[r] \in {"recordLate", "unfilled"}
       \/ pc[r] = "filled" /\ cur[r] \notin saved[r]
    /\ ~CheckpointFree(r, cur[r]) /\ r \in Holders(cur[r])

\* With the market closed during runs there is no such wait.
NoSelfWait == \A r \in Runs : ~SelfWait(r)

\* With the market open there is one case only: a reconcile loop finds that an
\* order has filled which an earlier sync of the same run has saved as open.
\* The order a decision has just sent is always checkpointed before it is saved.
SelfWaitIsLateFill ==
    \A r \in Runs :
        SelfWait(r) => pc[r] = "recordLate" /\ pend[r][cur[r]].st \notin Terminal

\* A committed terminal status is final, although every run saves the status
\* it read itself.  Runs that overlap in an open market break it.
TerminalStatusFinal ==
    [][\A k \in Orders : dbOrder[k].st \in Terminal
                            => dbOrder'[k].st = dbOrder[k].st]_vars

\* What a stale save (save_paper_order) may do to a committed terminal status,
\* whichever runs overlap and whenever orders fill: it makes the order look
\* open, so that the next sync loads it again.  It never turns a fill into a
\* cancellation or the reverse, and never loses the row.
StaleSaveReopens ==
    [][\A k \in Orders :
          dbOrder[k].st \in Terminal /\ dbOrder'[k].st # dbOrder[k].st
             => dbOrder'[k].st \in {"accepted", "partially_filled"}]_vars

\* A run that raises quantity_mismatch has found positions that differ from
\* the fills recorded by then.
MismatchMeansDisagreement ==
    \A r \in Runs :
        pc[r] = "mismatch" => sync[r].seen # Net(Events(r), Len(fillSeq))

\* The shares of an order stored as canceled have not been bought or sold.
NoStrandedShares ==
    \A k \in Orders : dbOrder[k].st = "canceled" => market[k].qty = 0

\* Every run comes to its end.
RunEnds == \A r \in Runs : pc[r] # "idle" ~> pc[r] = "idle"

\* A fill after the run that sent the order is recorded by a later sync
\* (implied by ImplementsLedger).
LateFillRecorded ==
    \A k \in Orders : market[k].st = "filled" ~> dbExec[k] > 0

\* Once no fallback is refused any more, the committed snapshot catches up
\* with the account again and again, whatever refused runs have left.
SnapshotCatchesUp ==
    <>[](\A r \in Runs : pc[r] # "refused") => []<>(snap = account)

\* The ledger of fills that the execution rows stand for.
Ledger == INSTANCE FillLedger
    WITH sent   <- {k \in Orders : market[k].st # "none"},
         filled <- {k \in Orders : market[k].st = "filled"},
         rows   <- dbExec

\* Whatever fails, the execution rows are never anything but a fill ledger:
\* a fill is entered once, after it happened and after its order was sent.
KeepsLedger == Ledger!Spec

\* The execution rows are a fill ledger: each fill is entered once, never
\* before it happened, and every fill is entered in the end.
ImplementsLedger == Ledger!FairSpec
=============================================================================
