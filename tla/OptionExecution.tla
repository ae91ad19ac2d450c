-------------------------- MODULE OptionExecution --------------------------
(***************************************************************************)
(* The option path of a trading phase.  A run syncs its option positions   *)
(* with the broker's contracts and then takes its decisions.  A decision   *)
(* is a plan of expressions: option orders that are tried in sequence      *)
(* until one fills, at the end perhaps the stock.                          *)
(*                                                                         *)
(* A position is a row of Rows: one per option order, which materializes   *)
(* its fill, and one per contract, which adopts a contract of the broker   *)
(* that no row covers.  What a row holds are its broker_leg_refs; a closed *)
(* row holds none.                                                         *)
(***************************************************************************)
EXTENDS Integers, Sequences, FiniteSets, FiniteSetsExt

CONSTANTS
    Decisions,
    Orders,       \* idempotency keys of option orders
    StockOrders,  \* keys of the stock expressions plans fall back to
    Contracts,    \* option contracts
    None,         \* no matching position
    Plan,         \* the expressions of a decision, in sequence
    Action,       \* what an option order does
    Legs,         \* the contracts its decision names
    Book,         \* its ticker, identity, strategy and type
    Units,        \* its quantity
    Environment   \* what the surroundings may do

Switches == {"rejections", "call_errors", "failures", "expiries", "repeats"}

\* The positions: paper_option_order_id, or the uuid5 of a contract.
Rows == Orders \cup Contracts

ASSUME OptionConstants ==
    /\ Plan \in [Decisions -> Seq(Orders \cup StockOrders)]
    /\ Action \in [Orders -> {"open", "close", "roll", "adjust"}]
    /\ Legs \in [Orders -> SUBSET Contracts]
    /\ Units \in [Orders -> Nat \ {0}]
    /\ None \notin Orders
    /\ Orders \cap StockOrders = {}
    /\ Orders \cap Contracts = {}
    /\ Environment \subseteq Switches

VARIABLES
    market,    \* status of each order at the broker
    closing,   \* contracts each posted order closes
    held,      \* units of each contract in the account
    stock,     \* stock expressions that have filled
    db,        \* the committed tables
    tx,        \* the tables as the run's open transaction sees them
    pc,        \* where the run stands
    agenda,    \* decisions the run still takes
    rest,      \* expressions left of the decision in hand
    own,       \* _orders_by_key of the run's broker object
    existing   \* the position matched by the order in hand

broker == <<market, closing, held, stock>>
run == <<pc, agenda, rest, own, existing>>
vars == <<broker, db, tx, run>>

OrderStatus == {"none", "live", "filled", "canceled", "rejected"}

\* paper_option_orders, paper_option_executions, paper_option_positions.
Books == [order : [Orders -> OrderStatus],
          exec  : SUBSET Orders,
          row   : [Rows -> SUBSET Contracts]]

Empty == [order |-> [k \in Orders |-> "none"],
          exec  |-> {},
          row   |-> [i \in Rows |-> {}]]

Init ==
    /\ market = [k \in Orders |-> "none"]
    /\ closing = [k \in Orders |-> {}]
    /\ held = [c \in Contracts |-> 0]
    /\ stock = {}
    /\ db = Empty
    /\ tx = Empty
    /\ pc = "idle"
    /\ agenda = {}
    /\ rest = <<>>
    /\ own = {}
    /\ existing = None

-----------------------------------------------------------------------------
(* Legs and positions.                                                     *)

\* The contracts an order opens: all but a close opens its decision's legs.
Opened(k) == IF Action[k] = "close" THEN {} ELSE Legs[k]

\* The contracts an order closes: those its matched row refers to, else
\* those its own decision names.
ToClose(k, e) ==
    IF Action[k] = "open" THEN {}
    ELSE IF e # None /\ tx.row[e] # {} THEN tx.row[e]
    ELSE Legs[k]

\* An order is only built with the legs its action needs.
Builds(k, e) ==
    /\ Action[k] # "close" => Opened(k) # {}
    /\ Action[k] # "open" => ToClose(k, e) # {}

\* _matching_open_option_position: an open row of the same book, if any.
Matching(k) ==
    LET open == {e \in Orders : tx.row[e] # {} /\ Book[e] = Book[k]}
    IN  IF open = {} THEN {None} ELSE open

\* The rows after order k has filled: a close empties its match, a roll
\* replaces it, an adjustment rewrites it, an open adds a row.
Materialized(k, e) ==
    CASE Action[k] = "close" ->
           IF e = None THEN tx.row ELSE [tx.row EXCEPT ![e] = {}]
      [] Action[k] = "roll" /\ e # None ->
           [tx.row EXCEPT ![e] = {}, ![k] = Opened(k)]
      [] Action[k] = "adjust" /\ e # None ->
           [tx.row EXCEPT ![e] = Opened(k)]
      [] OTHER ->
           [tx.row EXCEPT ![k] = Opened(k)]

-----------------------------------------------------------------------------
(* The broker.                                                             *)

\* Units of c that open orders have reserved for closing.
Reserved(c) ==
    MapThenSumSet(LAMBDA k : Units[k],
                  {k \in Orders : market[k] = "live" /\ c \in closing[k]})

\* A closing leg needs its contract, and not reserved by another order.
Accepts(k, e) ==
    \A c \in ToClose(k, e) : held[c] - Reserved(c) >= Units[k]

Fill(k) ==
    /\ market[k] = "live"
    /\ \A c \in closing[k] : held[c] >= Units[k]
    /\ market' = [market EXCEPT ![k] = "filled"]
    /\ held' = [c \in Contracts |->
                  held[c] + (IF c \in Opened(k) THEN Units[k] ELSE 0)
                          - (IF c \in closing[k] THEN Units[k] ELSE 0)]
    /\ UNCHANGED <<closing, stock, db, tx, run>>

\* A day order that has not filled ends with the session.
Cancel(k) ==
    /\ market[k] = "live"
    /\ market' = [market EXCEPT ![k] = "canceled"]
    /\ UNCHANGED <<closing, held, stock, db, tx, run>>

\* Expiry or assignment takes a contract out of the account.
Expire(c) ==
    /\ "expiries" \in Environment
    /\ held[c] > 0
    /\ held' = [held EXCEPT ![c] = 0]
    /\ UNCHANGED <<market, closing, stock, db, tx, run>>

BrokerStep ==
    \/ \E k \in Orders : Fill(k) \/ Cancel(k)
    \/ \E c \in Contracts : Expire(c)

-----------------------------------------------------------------------------
(* The sync.                                                               *)

HeldContracts == {c \in Contracts : held[c] > 0}

\* A row refers to the contract: _local_option_position_metadata.
Covered(row, c) == \E i \in Rows : c \in row[i]

\* Mutant: a row is closed as soon as one of its legs is gone.
AnyLegGone(refs) == ~(refs \subseteq HeldContracts)

\* A row is closed when the broker has none of its contracts.
Gone(refs) == refs \cap HeldContracts = {}

\* Mutant: every contract of the broker is adopted.
AdoptsAll(c) == held[c] > 0

\* Mutant: no contract of the broker is adopted.
AdoptsNone(c) == FALSE

\* A contract is adopted when no row covers it.
Adopts(c) == held[c] > 0 /\ ~Covered(tx.row, c)

\* The rows after a sync; both passes work on the rows loaded before them.
Synced ==
    [i \in Rows |->
        IF i \in Contracts /\ Adopts(i) THEN {i}
        ELSE IF Gone(tx.row[i]) THEN {}
        ELSE tx.row[i]]

-----------------------------------------------------------------------------
(* A run.                                                                  *)

\* No expression of the decision is known to the broker or the database.
Fresh(d) ==
    \A i \in DOMAIN Plan[d] :
        \/ Plan[d][i] \in Orders /\ market[Plan[d][i]] = "none"
                                 /\ tx.order[Plan[d][i]] = "none"
        \/ Plan[d][i] \in StockOrders /\ Plan[d][i] \notin stock

\* A phase starts with the decisions it has reached; a decision comes again
\* when the phase is repeated on its trade date.
Start ==
    /\ pc = "idle"
    /\ \E ds \in SUBSET Decisions :
         /\ "repeats" \in Environment \/ \A d \in ds : Fresh(d)
         /\ agenda' = ds
    /\ pc' = "sync"
    /\ UNCHANGED <<broker, db, tx, rest, own, existing>>

Sync ==
    /\ pc = "sync"
    /\ tx' = [tx EXCEPT !.row = Synced]
    /\ pc' = "decide"
    /\ UNCHANGED <<broker, db, agenda, rest, own, existing>>

\* The next trading decision or generated hedge.
TakeDecision ==
    /\ pc = "decide"
    /\ rest = <<>>
    /\ \E d \in agenda : /\ rest' = Plan[d]
                         /\ agenda' = agenda \ {d}
    /\ UNCHANGED <<broker, db, tx, pc, own, existing>>

\* Expression k of the decision in hand is next.
Trying(k) ==
    /\ pc = "decide"
    /\ rest # <<>>
    /\ Head(rest) = k

\* No order is posted: risk does not approve, or nothing can be built.
Skip ==
    /\ pc = "decide"
    /\ rest # <<>>
    /\ Head(rest) \in Orders
    /\ \/ "rejections" \in Environment
       \/ \E e \in Matching(Head(rest)) : ~Builds(Head(rest), e)
    /\ rest' = Tail(rest)
    /\ UNCHANGED <<broker, db, tx, pc, agenda, own, existing>>

\* The order goes into the tables and its fill is materialized.  A key the
\* table has raises; a fill ends the plan, anything else tries the next.
Store(k, status) ==
    IF tx.order[k] # "none"
    THEN pc' = "raised" /\ UNCHANGED <<tx, rest, own, existing>>
    ELSE /\ pc' = "decide"
         /\ own' = own \cup {k}
         /\ existing' = None
         /\ IF status = "filled"
            THEN /\ tx' = [order |-> [tx.order EXCEPT ![k] = status],
                           exec  |-> tx.exec \cup {k},
                           row   |-> Materialized(k, existing)]
                 /\ rest' = <<>>
            ELSE /\ tx' = [tx EXCEPT !.order[k] = status]
                 /\ rest' = Tail(rest)

\* The broker object has the key: the order it returned before counts, and
\* its execution is known by its id.
SubmitCached(k) ==
    /\ Trying(k)
    /\ k \in own
    /\ rest' = IF tx.order[k] = "filled" THEN <<>> ELSE Tail(rest)
    /\ UNCHANGED <<broker, db, tx, pc, agenda, own, existing>>

SubmitNew(k) ==
    /\ Trying(k)
    /\ k \notin own
    /\ market[k] = "none"
    /\ \E e \in Orders \cup {None} :
         /\ e \in Matching(k)
         /\ Builds(k, e)
         /\ Accepts(k, e)
         /\ closing' = [closing EXCEPT ![k] = ToClose(k, e)]
         /\ existing' = e
    /\ market' = [market EXCEPT ![k] = "live"]
    /\ pc' = "poll"
    /\ UNCHANGED <<held, stock, db, tx, agenda, rest, own>>

\* A client_order_id the broker knows, contracts it does not have, or a
\* failing call: "rejected", with reason broker_error.
SubmitRefused(k) ==
    /\ Trying(k)
    /\ k \notin own
    /\ \E e \in Matching(k) :
         /\ Builds(k, e)
         /\ \/ market[k] # "none"
            \/ ~Accepts(k, e)
            \/ "call_errors" \in Environment
    /\ Store(k, "rejected")
    /\ UNCHANGED <<broker, db, agenda>>

\* The order is posted, and the answer or a poll of it fails.
SubmitUnknown ==
    /\ pc = "poll"
    /\ "call_errors" \in Environment
    /\ rest # <<>> /\ Head(rest) \in Orders
    /\ Store(Head(rest), "rejected")
    /\ UNCHANGED <<broker, db, agenda>>

\* Mutant: the plan goes on after a fill.
PollGoesOn ==
    /\ pc = "poll"
    /\ rest # <<>> /\ Head(rest) \in Orders
    /\ LET k == Head(rest)
       IN  IF tx.order[k] = "none" /\ market[k] = "filled"
           THEN /\ tx' = [order |-> [tx.order EXCEPT ![k] = "filled"],
                          exec  |-> tx.exec \cup {k},
                          row   |-> Materialized(k, existing)]
                /\ pc' = "decide"
                /\ own' = own \cup {k}
                /\ existing' = None
                /\ rest' = Tail(rest)
           ELSE Store(k, market[k])
    /\ UNCHANGED <<broker, db, agenda>>

\* The last poll: the order is stored with the status it then has.
Poll ==
    /\ pc = "poll"
    /\ rest # <<>> /\ Head(rest) \in Orders
    /\ Store(Head(rest), market[Head(rest)])
    /\ UNCHANGED <<broker, db, agenda>>

\* The plan ends with the stock, which may fill; a stock fill syncs again.
FallBackToStock(k) ==
    /\ Trying(k)
    /\ \/ stock' = stock \cup {k} /\ pc' = "sync"
       \/ stock' = stock /\ pc' = "decide"
    /\ rest' = <<>>
    /\ UNCHANGED <<market, closing, held, db, tx, agenda, own, existing>>

Submit == \E k \in Orders : SubmitCached(k) \/ SubmitNew(k) \/ SubmitRefused(k)

\* Something raises, or the process ends.
Fail ==
    /\ "failures" \in Environment
    /\ pc \notin {"idle", "raised"}
    /\ pc' = "raised"
    /\ UNCHANGED <<broker, db, tx, agenda, rest, own, existing>>

\* The session is closed and the runtime is built anew.
Leave ==
    /\ pc' = "idle"
    /\ agenda' = {}
    /\ rest' = <<>>
    /\ own' = {}
    /\ existing' = None

Commit ==
    /\ pc = "decide"
    /\ rest = <<>>
    /\ agenda = {}
    /\ db' = tx
    /\ Leave
    /\ UNCHANGED <<broker, tx>>

Rollback ==
    /\ pc = "raised"
    /\ tx' = db
    /\ Leave
    /\ UNCHANGED <<broker, db>>

RunStep ==
    \/ Sync \/ TakeDecision \/ Skip
    \/ Submit \/ SubmitUnknown \/ Poll
    \/ \E k \in StockOrders : FallBackToStock(k)
    \/ Commit \/ Rollback

Next == Start \/ RunStep \/ Fail \/ BrokerStep

Spec == Init /\ [][Next]_vars

\* The scheduler starts phases again and again, and a phase goes on; nothing
\* is asked of the broker.
FairSpec == Spec /\ WF_vars(Start) /\ WF_vars(RunStep)

-----------------------------------------------------------------------------
(* Properties.                                                             *)

\* Every variable keeps its type; in particular the tables know the five
\* order statuses only.
TypeOK ==
    /\ market \in [Orders -> OrderStatus]
    /\ closing \in [Orders -> SUBSET Contracts]
    /\ held \in [Contracts -> Int]
    /\ stock \subseteq StockOrders
    /\ db \in Books /\ tx \in Books
    /\ pc \in {"idle", "sync", "decide", "poll", "raised"}
    /\ agenda \subseteq Decisions
    /\ rest \in Seq(Orders \cup StockOrders)
    /\ own \subseteq Orders
    /\ existing \in Orders \cup {None}

\* The option orders of a decision.
OptionsOf(d) == {Plan[d][i] : i \in DOMAIN Plan[d]} \cap Orders

\* A run executes at most one option expression of a decision: a fill ends
\* the plan (_execute_option_expression_plan).
OneExecutionPerRun ==
    \A d \in Decisions :
        Cardinality(OptionsOf(d) \cap (tx.exec \ db.exec)) <= 1

\* No two orders open the same contract.
DisjointLegs ==
    \A j, k \in Orders : j # k => Opened(j) \cap Opened(k) = {}

\* A contract is never counted twice in the committed positions, by the row
\* of the strategy that opened it and by an adopted row
\* (_persist_broker_option_positions leaves out what a row covers).
NoDoubleCover ==
    DisjointLegs =>
        \A c \in Contracts, e \in Orders : c \in db.row[c] => c \notin db.row[e]

\* The rows mirror the account: every held contract is covered, and every
\* open row has a held contract.
Mirrors(row) ==
    /\ \A c \in HeldContracts : Covered(row, c)
    /\ \A i \in Rows : row[i] # {} => row[i] \cap HeldContracts # {}

\* Every sync leaves positions that mirror the contracts it read, although
\* it closes and adopts by one list of rows loaded beforehand.
SyncMirrors == [][pc = "sync" /\ pc' = "decide" => Mirrors(tx'.row)]_vars

\* Once runs no longer fail, the committed positions keep catching up with
\* the broker's contracts, whatever failed runs filled and rolled back.
MirrorCatchesUp == <>[](pc # "raised") => []<>Mirrors(db.row)

\* Every run comes to an end.
RunEnds == []<>(pc = "idle")

\* Expressions of a plan that the broker has filled.
AtBroker(d) ==
    {i \in DOMAIN Plan[d] : \/ Plan[d][i] \in stock
                            \/ Plan[d][i] \in Orders
                                 /\ market[Plan[d][i]] = "filled"}

\* Does not hold: a plan leaves an unfilled order at the broker when it goes
\* on, and both may fill (one expression per decision, as the plan says).
SingleExposure == \A d \in Decisions : Cardinality(AtBroker(d)) <= 1
=============================================================================
