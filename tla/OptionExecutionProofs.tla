------------------------ MODULE OptionExecutionProofs ------------------------
(***************************************************************************)
(* For every set of decisions, plans and contracts and every environment:  *)
(* the types, that a sync mirrors the broker's contracts, that no contract *)
(* is covered twice when no two orders open the same one, and that a run   *)
(* executes a decision once when decisions share no plan but one of a      *)
(* single option order.                                                    *)
(***************************************************************************)
EXTENDS OptionExecution, FiniteSetTheorems, TLAPS

USE OptionConstants DEF OptionConstants, Rows

\* While an order is polled it heads what is left of the plan.
PollsOrder == pc = "poll" => rest # <<>> /\ Head(rest) \in Orders

\* A position adopted for a contract refers to that contract only.
AdoptedRefs(row) == \A c \in Contracts : row[c] \subseteq {c}

Inv == TypeOK /\ PollsOrder /\ AdoptedRefs(tx.row) /\ AdoptedRefs(db.row)

\* The empty tables satisfy the invariant.
LEMMA InitInv == Init => Inv
  BY DEF Init, Empty, Inv, TypeOK, PollsOrder, AdoptedRefs, Books, OrderStatus

\* Materializing an order's fill writes rows of orders and leaves those of
\* contracts alone.
LEMMA MaterializedRows ==
    ASSUME TypeOK, NEW k \in Orders, NEW e \in Orders \cup {None}
    PROVE  /\ Materialized(k, e) \in [Rows -> SUBSET Contracts]
           /\ \A c \in Contracts : Materialized(k, e)[c] = tx.row[c]
           /\ \A o \in Orders : Materialized(k, e)[o]
                                  \subseteq tx.row[o] \cup Opened(k)
<1> DEFINE row == tx.row
<1>1. row \in [Rows -> SUBSET Contracts]
    BY DEF TypeOK, Books
<1>2. CASE Action[k] = "close" /\ e = None
    BY <1>1, <1>2 DEF Materialized
<1>3. CASE Action[k] = "close" /\ e # None
    BY <1>1, <1>3 DEF Materialized
<1>4. CASE Action[k] = "roll" /\ e # None
    BY <1>1, <1>4 DEF Materialized, Opened
<1>5. CASE Action[k] = "adjust" /\ e # None
    BY <1>1, <1>5 DEF Materialized, Opened
<1>6. CASE Action[k] = "open" \/ (Action[k] \in {"roll", "adjust"} /\ e = None)
    BY <1>1, <1>6 DEF Materialized, Opened
<1> QED BY <1>2, <1>3, <1>4, <1>5, <1>6

\* Storing an order keeps the types and the adopted rows.
LEMMA StoreInv ==
    ASSUME Inv, NEW k \in Orders, NEW status \in OrderStatus,
           rest # <<>>, Store(k, status)
    PROVE  /\ tx' \in Books /\ AdoptedRefs(tx'.row)
           /\ pc' \in {"decide", "raised"}
           /\ rest' \in Seq(Orders \cup StockOrders)
           /\ own' \subseteq Orders /\ existing' \in Orders \cup {None}
<1> USE DEF Inv, TypeOK
<1>1. CASE tx.order[k] # "none"
    BY <1>1 DEF Store
<1>2. CASE tx.order[k] = "none" /\ status = "filled"
  <2>1. tx' = [order |-> [tx.order EXCEPT ![k] = status],
               exec  |-> tx.exec \cup {k},
               row   |-> Materialized(k, existing)]
      BY <1>2 DEF Store
  <2>2. /\ Materialized(k, existing) \in [Rows -> SUBSET Contracts]
        /\ \A c \in Contracts : Materialized(k, existing)[c] = tx.row[c]
    <3>1. TypeOK /\ existing \in Orders \cup {None}
        OBVIOUS
    <3> HIDE DEF TypeOK
    <3> QED BY <3>1, MaterializedRows
  <2>3. tx' \in Books /\ tx'.row = Materialized(k, existing)
      BY <2>1, <2>2 DEF Books
  <2>4. AdoptedRefs(tx'.row)
      BY <2>2, <2>3 DEF AdoptedRefs
  <2> QED BY <1>2, <2>3, <2>4 DEF Store
<1>3. CASE tx.order[k] = "none" /\ status # "filled"
  <2>1. tx' = [tx EXCEPT !.order[k] = status]
      BY <1>3 DEF Store
  <2>2. tx' \in Books /\ tx'.row = tx.row
      BY <2>1 DEF Books
  <2>3. /\ pc' = "decide" /\ own' = own \cup {k} /\ existing' = None
        /\ rest' = Tail(rest)
      BY <1>3 DEF Store
  <2>4. rest' \in Seq(Orders \cup StockOrders)
      BY <2>3
  <2> QED BY <2>2, <2>3, <2>4
<1> QED BY <1>1, <1>2, <1>3

\* A sync keeps the types and the adopted rows.
LEMMA SyncInv ==
    ASSUME Inv, Sync
    PROVE  tx' \in Books /\ tx'.row = Synced /\ AdoptedRefs(tx'.row)
<1>1. Synced \in [Rows -> SUBSET Contracts] /\ AdoptedRefs(Synced)
    BY DEF Inv, TypeOK, Books, Synced, AdoptedRefs
<1>2. tx' = [tx EXCEPT !.row = Synced] /\ tx \in Books
    BY DEF Sync, Inv, TypeOK
<1>3. tx' \in Books /\ tx'.row = Synced
    BY <1>1, <1>2 DEF Books
<1> QED BY <1>1, <1>3

\* Every step preserves the invariant.
LEMMA NextInv == Inv /\ [Next]_vars => Inv'
<1> SUFFICES ASSUME Inv, [Next]_vars PROVE Inv'
    OBVIOUS
<1> USE DEF Inv, TypeOK, PollsOrder
<1>1. CASE Start
    BY <1>1 DEF Start, broker
<1>2. CASE Sync
    BY <1>2, SyncInv DEF Sync, broker
<1>3. CASE TakeDecision
    BY <1>3 DEF TakeDecision, broker
<1>4. CASE Skip
    BY <1>4 DEF Skip, broker
<1>5. ASSUME NEW k \in Orders, SubmitCached(k) PROVE Inv'
    BY <1>5 DEF SubmitCached, Trying, broker
<1>6. ASSUME NEW k \in Orders, SubmitNew(k) PROVE Inv'
  <2>1. PICK e \in Orders \cup {None} :
            /\ closing' = [closing EXCEPT ![k] = ToClose(k, e)]
            /\ existing' = e
      BY <1>6 DEF SubmitNew
  <2>2. ToClose(k, e) \in SUBSET Contracts
      BY DEF ToClose, Books
  <2>3. closing' \in [Orders -> SUBSET Contracts]
      BY <2>1, <2>2
  <2>4. market' \in [Orders -> OrderStatus]
      BY <1>6 DEF SubmitNew, OrderStatus
  <2> QED BY <1>6, <2>1, <2>3, <2>4 DEF SubmitNew, Trying
<1>7. ASSUME NEW k \in Orders, SubmitRefused(k) PROVE Inv'
  <2>1. Store(k, "rejected") /\ rest # <<>>
      BY <1>7 DEF SubmitRefused, Trying
  <2>2. "rejected" \in OrderStatus
      BY DEF OrderStatus
  <2> QED BY <1>7, <2>1, <2>2, StoreInv DEF SubmitRefused, broker
<1>8. CASE SubmitUnknown
  <2>1. Store(Head(rest), "rejected") /\ rest # <<>> /\ Head(rest) \in Orders
      BY <1>8 DEF SubmitUnknown
  <2>2. "rejected" \in OrderStatus
      BY DEF OrderStatus
  <2> QED BY <1>8, <2>1, <2>2, StoreInv DEF SubmitUnknown, broker
<1>9. CASE Poll
  <2>1. /\ Store(Head(rest), market[Head(rest)])
        /\ rest # <<>> /\ Head(rest) \in Orders
      BY <1>9 DEF Poll
  <2>2. market[Head(rest)] \in OrderStatus
      BY <2>1
  <2> QED BY <1>9, <2>1, <2>2, StoreInv DEF Poll, broker
<1>10. ASSUME NEW k \in StockOrders, FallBackToStock(k) PROVE Inv'
    BY <1>10 DEF FallBackToStock
<1>11. CASE Commit
    BY <1>11 DEF Commit, Leave, broker
<1>12. CASE Rollback
    BY <1>12 DEF Rollback, Leave, broker
<1>13. CASE Fail
    BY <1>13 DEF Fail, broker
<1>14. ASSUME NEW k \in Orders, Fill(k) PROVE Inv'
  <2>1. market' \in [Orders -> OrderStatus]
      BY <1>14 DEF Fill, OrderStatus
  <2>2. held' \in [Contracts -> Int]
      BY <1>14 DEF Fill
  <2> QED BY <1>14, <2>1, <2>2 DEF Fill, run
<1>15. ASSUME NEW k \in Orders, Cancel(k) PROVE Inv'
    BY <1>15 DEF Cancel, OrderStatus, run
<1>16. ASSUME NEW c \in Contracts, Expire(c) PROVE Inv'
    BY <1>16 DEF Expire, run
<1>17. CASE UNCHANGED vars
    BY <1>17 DEF vars, broker, run
<1> QED BY <1>1, <1>2, <1>3, <1>4, <1>5, <1>6, <1>7, <1>8, <1>9, <1>10,
           <1>11, <1>12, <1>13, <1>14, <1>15, <1>16, <1>17
        DEF Next, RunStep, Submit, BrokerStep

\* The invariant holds throughout.
THEOREM InvHolds == Spec => []Inv
<1> QED BY InitInv, NextInv, PTL DEF Spec

\* Every variable keeps its type, whatever the plans and the environment.
THEOREM TypeCorrect == Spec => []TypeOK
<1>1. Inv => TypeOK
    BY DEF Inv
<1> QED BY <1>1, InvHolds, PTL

-----------------------------------------------------------------------------
\* The rows a sync writes mirror the contracts it read: closing and adopting
\* by one list of rows neither closes a row that is needed nor leaves a
\* contract out.
LEMMA SyncedMirrors ==
    ASSUME Inv PROVE Mirrors(Synced)
<1> USE DEF Inv, TypeOK, Books
<1>1. ASSUME NEW c \in HeldContracts PROVE Covered(Synced, c)
  <2>1. c \in Contracts /\ held[c] > 0
      BY DEF HeldContracts
  <2>2. CASE Covered(tx.row, c)
    <3>1. PICK i \in Rows : c \in tx.row[i]
        BY <2>2 DEF Covered
    <3>2. ~(i \in Contracts /\ Adopts(i))
        BY <2>2, <3>1 DEF Adopts, AdoptedRefs
    <3>3. ~Gone(tx.row[i])
        BY <3>1 DEF Gone
    <3>4. Synced[i] = tx.row[i]
        BY <3>2, <3>3 DEF Synced
    <3> QED BY <3>1, <3>4 DEF Covered
  <2>3. CASE ~Covered(tx.row, c)
    <3>1. Synced[c] = {c}
        BY <2>1, <2>3 DEF Synced, Adopts
    <3> QED BY <2>1, <3>1 DEF Covered
  <2> QED BY <2>2, <2>3
<1>2. ASSUME NEW i \in Rows, Synced[i] # {}
      PROVE  Synced[i] \cap HeldContracts # {}
  <2>1. CASE i \in Contracts /\ Adopts(i)
    <3>1. Synced[i] = {i} /\ i \in HeldContracts
        BY <2>1 DEF Synced, Adopts, HeldContracts
    <3> QED BY <3>1
  <2>2. CASE ~(i \in Contracts /\ Adopts(i))
      BY <1>2, <2>2 DEF Synced, Gone
  <2> QED BY <2>1, <2>2
<1> QED BY <1>1, <1>2 DEF Mirrors

\* Every sync leaves the rows and the broker's contracts in agreement, for
\* any plans, contracts and faults.
THEOREM SyncMirrorsHolds == Spec => SyncMirrors
<1>1. Inv /\ [Next]_vars
        => [pc = "sync" /\ pc' = "decide" => Mirrors(tx'.row)]_vars
  <2> SUFFICES ASSUME Inv, Next, pc = "sync", pc' = "decide"
               PROVE  Mirrors(tx'.row)
      OBVIOUS
  <2>1. Sync
      BY DEF Next, Start, RunStep, TakeDecision, Skip, Submit, SubmitCached,
             SubmitNew, SubmitRefused, Trying, SubmitUnknown, Poll,
             FallBackToStock, Commit, Rollback, Leave, Fail, BrokerStep,
             Fill, Cancel, Expire, run
  <2>2. tx'.row = Synced
      BY <2>1, SyncInv
  <2> QED BY <2>2, SyncedMirrors
<1> QED BY <1>1, InvHolds, PTL DEF Spec, SyncMirrors

-----------------------------------------------------------------------------
(* No double cover.  A contract is held, or adopted, only after the order   *)
(* that opens it has filled; and an order is posted only while the broker   *)
(* does not know it, so the contracts of the order being polled are not     *)
(* adopted yet.                                                             *)

OpenerFilled(c) == \E k \in Orders : c \in Opened(k) /\ market[k] = "filled"

HeldWereFilled == \A c \in Contracts : held[c] > 0 => OpenerFilled(c)

AdoptedWereFilled ==
    \A c \in Contracts : c \in tx.row[c] \cup db.row[c] => OpenerFilled(c)

PolledNotAdopted ==
    pc = "poll" => \A c \in Opened(Head(rest)) : c \notin tx.row[c]

CoveredOnce(row) ==
    \A c \in Contracts, e \in Orders : c \in row[c] => c \notin row[e]

CoverInv ==
    /\ HeldWereFilled /\ AdoptedWereFilled /\ PolledNotAdopted
    /\ CoveredOnce(tx.row) /\ CoveredOnce(db.row)

\* A filled order stays filled.
LEMMA FilledStays ==
    ASSUME Inv, [Next]_vars, NEW k \in Orders, market[k] = "filled"
    PROVE  market'[k] = "filled"
  BY DEF Inv, TypeOK, vars, broker, run, Next, Start, RunStep, Sync,
         TakeDecision, Skip, Submit, SubmitCached, SubmitNew, SubmitRefused,
         SubmitUnknown, Poll, FallBackToStock, Commit, Rollback, Fail,
         BrokerStep, Fill, Cancel, Expire

\* So a contract whose opening order has filled stays such a contract.
LEMMA OpenerStays ==
    ASSUME Inv, [Next]_vars, NEW c \in Contracts, OpenerFilled(c)
    PROVE  OpenerFilled(c)'
  BY FilledStays DEF OpenerFilled, Opened

\* Storing an order adopts nothing, and covers nothing an adopted row covers.
LEMMA StoreCover ==
    ASSUME Inv, CoverInv, NEW k \in Orders, NEW status \in OrderStatus,
           Store(k, status),
           status = "filled" => \A c \in Opened(k) : c \notin tx.row[c]
    PROVE  /\ \A c \in Contracts : tx'.row[c] = tx.row[c]
           /\ CoveredOnce(tx'.row)
           /\ pc' # "poll"
<1> USE DEF Inv, TypeOK, CoverInv
<1>1. CASE tx.order[k] # "none"
    BY <1>1 DEF Store
<1>2. CASE tx.order[k] = "none" /\ status = "filled"
  <2>1. tx'.row = Materialized(k, existing)
      BY <1>2 DEF Store
  <2>2. /\ \A c \in Contracts : Materialized(k, existing)[c] = tx.row[c]
        /\ \A o \in Orders : Materialized(k, existing)[o]
                               \subseteq tx.row[o] \cup Opened(k)
      BY MaterializedRows
  <2> QED BY <1>2, <2>1, <2>2 DEF Store, CoveredOnce
<1>3. CASE tx.order[k] = "none" /\ status # "filled"
  <2>1. tx'.row = tx.row
      BY <1>3 DEF Store, Books
  <2> QED BY <1>3, <2>1 DEF Store
<1> QED BY <1>1, <1>2, <1>3

\* A fill adds only contracts its order opens.
LEMMA FillCover ==
    ASSUME Inv, HeldWereFilled, NEW k \in Orders, Fill(k)
    PROVE  HeldWereFilled'
<1> USE DEF Inv, TypeOK
<1>1. SUFFICES ASSUME NEW c \in Contracts, held'[c] > 0, c \notin Opened(k)
               PROVE  held[c] > 0
  <2>1. market' = [market EXCEPT ![k] = "filled"] /\ market[k] = "live"
      BY DEF Fill
  <2>2. \A c \in Contracts : c \in Opened(k) => OpenerFilled(c)'
      BY <2>1 DEF OpenerFilled, Opened
  <2>3. \A c \in Contracts : OpenerFilled(c) => OpenerFilled(c)'
      BY <2>1 DEF OpenerFilled, Opened
  <2> QED BY <2>2, <2>3 DEF HeldWereFilled
<1>2. Units[k] \in Nat /\ held[c] \in Int
    OBVIOUS
<1>3. held'[c] = held[c] + 0 - (IF c \in closing[k] THEN Units[k] ELSE 0)
    BY <1>1 DEF Fill
<1>4. CASE c \in closing[k]
    BY <1>1, <1>2, <1>3, <1>4
<1>5. CASE c \notin closing[k]
    BY <1>1, <1>2, <1>3, <1>5
<1> QED BY <1>4, <1>5

\* The empty tables and the empty account satisfy it.
LEMMA InitCover == Init => CoverInv
  BY DEF Init, Empty, CoverInv, HeldWereFilled, AdoptedWereFilled, PolledNotAdopted,
         CoveredOnce

\* Every step preserves it when no two orders open the same contract.
LEMMA NextCover ==
    ASSUME DisjointLegs, Inv, CoverInv, [Next]_vars PROVE CoverInv'
<1> USE DEF Inv, TypeOK, PollsOrder, CoverInv
<1>1. \A c \in Contracts : OpenerFilled(c) => OpenerFilled(c)'
    BY OpenerStays
<1>2. CASE /\ UNCHANGED <<held, db>>
           /\ \A c \in Contracts : tx'.row[c] = tx.row[c]
           /\ CoveredOnce(tx'.row) /\ pc' # "poll"
    BY <1>1, <1>2 DEF HeldWereFilled, AdoptedWereFilled, PolledNotAdopted
<1>3. CASE Start \/ TakeDecision \/ Skip \/ Fail
           \/ \E k \in StockOrders : FallBackToStock(k)
    BY <1>2, <1>3 DEF Start, TakeDecision, Skip, Fail, FallBackToStock, broker
<1>4. CASE \E k \in Orders : SubmitCached(k)
    BY <1>2, <1>4 DEF SubmitCached, Trying, broker
<1>5. CASE Sync
  <2>1. tx'.row = Synced
      BY <1>5, SyncInv
  <2>2. UNCHANGED <<held, db, market>> /\ pc' # "poll"
      BY <1>5 DEF Sync, broker
  <2>3. ASSUME NEW c \in Contracts, c \in Synced[c]
        PROVE  OpenerFilled(c) /\ \A e \in Orders : c \notin Synced[e]
    <3>1. \A e \in Orders : Synced[e] \subseteq tx.row[e]
        BY DEF Synced
    <3>2. CASE Adopts(c)
        BY <3>1, <3>2 DEF Adopts, Covered, HeldWereFilled
    <3>3. CASE ~Adopts(c)
      <4>1. c \in tx.row[c]
          BY <2>3, <3>3 DEF Synced
      <4> QED BY <3>1, <4>1 DEF AdoptedWereFilled, CoveredOnce
    <3> QED BY <3>2, <3>3
  <2>4. CoveredOnce(tx'.row)
      BY <2>1, <2>3 DEF CoveredOnce
  <2>5. AdoptedWereFilled'
      BY <1>1, <2>1, <2>2, <2>3 DEF AdoptedWereFilled
  <2> QED BY <1>1, <2>2, <2>4, <2>5 DEF HeldWereFilled, PolledNotAdopted
<1>6. ASSUME NEW k \in Orders, SubmitNew(k) PROVE CoverInv'
  <2>1. /\ UNCHANGED <<held, db, tx, rest>> /\ Head(rest) = k
        /\ market[k] = "none"
      BY <1>6 DEF SubmitNew, Trying
  <2>2. \A c \in Opened(k) : c \in Contracts /\ ~OpenerFilled(c)
      BY <2>1 DEF OpenerFilled, DisjointLegs, Opened
  <2>3. PolledNotAdopted'
      BY <2>1, <2>2 DEF PolledNotAdopted, AdoptedWereFilled, Opened
  <2> QED BY <1>1, <2>1, <2>3 DEF HeldWereFilled, AdoptedWereFilled
<1>7. ASSUME NEW k \in Orders, SubmitRefused(k) PROVE CoverInv'
  <2>1. Store(k, "rejected") /\ UNCHANGED <<held, db>>
      BY <1>7 DEF SubmitRefused, broker
  <2> QED BY <1>2, <2>1, StoreCover DEF OrderStatus
<1>8. CASE SubmitUnknown
  <2>1. /\ Store(Head(rest), "rejected") /\ UNCHANGED <<held, db>>
        /\ Head(rest) \in Orders
      BY <1>8 DEF SubmitUnknown, broker
  <2> QED BY <1>2, <2>1, StoreCover DEF OrderStatus
<1>9. CASE Poll
  <2>1. /\ Store(Head(rest), market[Head(rest)]) /\ UNCHANGED <<held, db>>
        /\ Head(rest) \in Orders /\ market[Head(rest)] \in OrderStatus
        /\ \A c \in Opened(Head(rest)) : c \notin tx.row[c]
      BY <1>9 DEF Poll, broker, PolledNotAdopted
  <2> QED BY <1>2, <2>1, StoreCover
<1>10. CASE Commit \/ Rollback
    BY <1>1, <1>10 DEF Commit, Rollback, Leave, broker, HeldWereFilled,
       AdoptedWereFilled, PolledNotAdopted
<1>11. ASSUME NEW k \in Orders, Fill(k) \/ Cancel(k) PROVE CoverInv'
  <2>1. UNCHANGED <<db, tx, run>>
      BY <1>11 DEF Fill, Cancel
  <2>2. HeldWereFilled'
      BY <1>1, <1>11, FillCover DEF Cancel, HeldWereFilled
  <2> QED BY <1>1, <2>1, <2>2 DEF run, AdoptedWereFilled, PolledNotAdopted,
             Opened
<1>12. ASSUME NEW c \in Contracts, Expire(c) PROVE CoverInv'
  <2>1. UNCHANGED <<db, tx, run>> /\ held' = [held EXCEPT ![c] = 0]
      BY <1>12 DEF Expire
  <2>2. HeldWereFilled'
      BY <1>1, <2>1 DEF HeldWereFilled
  <2> QED BY <1>1, <2>1, <2>2 DEF run, AdoptedWereFilled, PolledNotAdopted,
             Opened
<1>13. CASE UNCHANGED vars
    BY <1>1, <1>13 DEF vars, broker, run, HeldWereFilled, AdoptedWereFilled,
       PolledNotAdopted, Opened
<1> QED BY <1>3, <1>4, <1>5, <1>6, <1>7, <1>8, <1>9, <1>10, <1>11, <1>12,
           <1>13
        DEF Next, RunStep, Submit, BrokerStep

\* When no two orders open the same contract, no contract is covered by a
\* strategy's row and by an adopted row at once, for any plans and faults.
THEOREM NoDoubleCoverHolds == Spec => []NoDoubleCover
<1>1. CASE DisjointLegs
  <2>1. Inv /\ CoverInv /\ [Next]_vars => CoverInv'
      BY <1>1, NextCover
  <2>2. CoverInv => NoDoubleCover
      BY DEF CoverInv, CoveredOnce, NoDoubleCover
  <2> QED BY InitCover, InvHolds, <2>1, <2>2, PTL DEF Spec
<1>2. CASE ~DisjointLegs
  <2>1. NoDoubleCover
      BY <1>2 DEF NoDoubleCover
  <2> QED BY <2>1, PTL
<1> QED BY <1>1, <1>2

-----------------------------------------------------------------------------
(* One execution per decision and run.  What a run has executed is what     *)
(* its transaction has and the tables do not.  A decision is taken once, a  *)
(* fill ends its plan, and only hedges share an order, each of them having  *)
(* no other.                                                                *)

Executed == tx.exec \ db.exec

\* The decision has at most one option order.
Sole(d) == \A j, k \in OptionsOf(d) : j = k

\* Decisions that share an option order have no other: keys name the ticker,
\* the strategy, its type and the action, and a hedge is no plan.
PlansApart ==
    \A d, e \in Decisions :
        d # e /\ OptionsOf(d) \cap OptionsOf(e) # {} => Sole(d)

\* The run may still execute an order of this decision.
Unexecuted(d) == OptionsOf(d) \cap Executed = {} \/ Sole(d)

\* What is left in hand belongs to a decision that is no longer on the agenda.
InHand ==
    rest # <<>> =>
        \E d \in Decisions \ agenda :
            /\ Unexecuted(d)
            /\ \A i \in DOMAIN rest : rest[i] \in Orders => rest[i] \in OptionsOf(d)

OneEach ==
    /\ pc = "idle" => Executed = {} /\ rest = <<>>
    /\ \A d \in Decisions : \A j, k \in OptionsOf(d) \cap Executed : j = k
    /\ \A d \in agenda : Unexecuted(d)
    /\ InHand

\* Nothing is executed in the initial state.
LEMMA InitOneEach == Init => OneEach
  BY DEF Init, Empty, OneEach, Executed, Unexecuted, InHand

\* It holds on while the run executes nothing new and what it has in hand
\* shrinks.
LEMMA KeepsOneEach ==
    ASSUME Inv, OneEach, Executed' \subseteq Executed,
           pc' = "idle" => pc = "idle",
           agenda' = agenda,
           rest' \in {rest, <<>>} \/ (rest # <<>> /\ rest' = Tail(rest))
    PROVE  OneEach'
<1> DEFINE In(s, d) == \A i \in DOMAIN s : s[i] \in Orders => s[i] \in OptionsOf(d)
<1>1. \A d : Unexecuted(d) => Unexecuted(d)'
    BY DEF Unexecuted, Sole, OptionsOf
<1>2. \A d : In(rest, d) => In(rest', d)
  <2>1. rest \in Seq(Orders \cup StockOrders)
      BY DEF Inv, TypeOK
  <2>2. CASE rest' = rest
      BY <2>2
  <2>3. CASE rest' = <<>>
      BY <2>3
  <2>4. CASE rest # <<>> /\ rest' = Tail(rest)
    <3>1. \A i \in DOMAIN rest' : i + 1 \in DOMAIN rest /\ rest'[i] = rest[i + 1]
        BY <2>1, <2>4
    <3> QED BY <3>1
  <2> QED BY <2>2, <2>3, <2>4
<1>3. InHand'
  <2> SUFFICES ASSUME rest' # <<>>
               PROVE  \E d \in Decisions \ agenda : Unexecuted(d)' /\ In(rest', d)
      BY DEF InHand, OptionsOf
  <2>1. rest # <<>>
      BY DEF Inv, TypeOK
  <2>2. PICK d \in Decisions \ agenda : Unexecuted(d) /\ In(rest, d)
      BY <2>1 DEF OneEach, InHand
  <2> HIDE DEF In
  <2> QED BY <1>1, <1>2, <2>2
<1>4. \A d \in Decisions : OptionsOf(d)' = OptionsOf(d)
    BY DEF OptionsOf
<1>5. /\ pc' = "idle" => Executed' = {} /\ rest' = <<>>
      /\ \A d \in Decisions : \A j, k \in OptionsOf(d) \cap Executed' : j = k
    BY DEF OneEach
<1> QED BY <1>1, <1>3, <1>4, <1>5 DEF OneEach

\* Storing the order at the head of the plan executes it at most once more.
LEMMA StoreOneEach ==
    ASSUME PlansApart, Inv, OneEach, rest # <<>>, Head(rest) \in Orders,
           NEW status \in OrderStatus, Store(Head(rest), status),
           pc # "idle", UNCHANGED <<db, agenda>>
    PROVE  OneEach'
<1> DEFINE k == Head(rest)
<1>1. CASE tx.order[k] # "none"
  <2>1. Executed' = Executed /\ pc' = "raised" /\ rest' = rest
      BY <1>1 DEF Store, Executed
  <2> QED BY <2>1, KeepsOneEach
<1>2. CASE tx.order[k] = "none" /\ status # "filled"
  <2>1. Executed' = Executed /\ pc' = "decide" /\ rest' = Tail(rest)
      BY <1>2 DEF Store, Executed, Inv, TypeOK, Books
  <2> QED BY <2>1, KeepsOneEach
<1>3. CASE tx.order[k] = "none" /\ status = "filled"
  <2>1. /\ tx'.exec = tx.exec \cup {k} /\ pc' = "decide" /\ rest' = <<>>
      BY <1>3 DEF Store
  <2>2. Executed' \subseteq Executed \cup {k}
      BY <2>1 DEF Executed
  <2>3. PICK d \in Decisions \ agenda : Unexecuted(d) /\ k \in OptionsOf(d)
    <3>1. 1 \in DOMAIN rest /\ k = rest[1]
        BY DEF Inv, TypeOK
    <3> QED BY <3>1 DEF OneEach, InHand
  <2>4. \A e \in Decisions : k \in OptionsOf(e) => e = d \/ Sole(e)
      BY <2>3 DEF PlansApart
  <2>5. \A e \in Decisions : OptionsOf(e)' = OptionsOf(e)
      BY DEF OptionsOf
  <2>6. \A e \in Decisions : \A i, j \in OptionsOf(e) \cap Executed' : i = j
    <3> SUFFICES ASSUME NEW e \in Decisions,
                        NEW i \in OptionsOf(e) \cap Executed',
                        NEW j \in OptionsOf(e) \cap Executed'
                 PROVE  i = j
        OBVIOUS
    <3>1. CASE Sole(e)
        BY <3>1 DEF Sole
    <3>2. CASE k \notin OptionsOf(e)
        BY <2>2, <3>2 DEF OneEach
    <3>3. CASE e = d /\ ~Sole(e)
        BY <2>2, <2>3, <3>3 DEF Unexecuted
    <3> QED BY <2>4, <3>1, <3>2, <3>3
  <2>7. \A e \in agenda : Unexecuted(e)'
    <3> SUFFICES ASSUME NEW e \in agenda PROVE Unexecuted(e)'
        OBVIOUS
    <3>1. e \in Decisions /\ e # d /\ Unexecuted(e)
        BY <2>3 DEF OneEach, Inv, TypeOK
    <3>2. OptionsOf(e) \cap Executed' \subseteq OptionsOf(e) \cap Executed \/ Sole(e)
        BY <2>2, <2>4, <3>1
    <3> QED BY <2>5, <3>1, <3>2 DEF Unexecuted, Sole
  <2> QED BY <2>1, <2>5, <2>6, <2>7 DEF OneEach, InHand
<1> QED BY <1>1, <1>2, <1>3

\* Every step preserves it when the plans are apart.
LEMMA NextOneEach ==
    ASSUME PlansApart, Inv, OneEach, [Next]_vars PROVE OneEach'
<1>1. CASE Start
  <2>1. Executed' = {} /\ pc' # "idle" /\ rest' = <<>>
      BY <1>1 DEF Start, broker, OneEach, Executed
  <2> QED BY <2>1 DEF OneEach, InHand, Unexecuted, OptionsOf
<1>2. CASE TakeDecision
  <2>1. PICK d \in agenda : rest' = Plan[d] /\ agenda' = agenda \ {d}
      BY <1>2 DEF TakeDecision
  <2>2. Executed' = Executed /\ pc' = "decide"
      BY <1>2 DEF TakeDecision, broker, Executed
  <2>3. \A e : Unexecuted(e) => Unexecuted(e)'
      BY <2>2 DEF Unexecuted, Sole, OptionsOf
  <2>4. d \in Decisions \ agenda' /\ Unexecuted(d)'
      BY <2>1, <2>3 DEF OneEach, Inv, TypeOK
  <2>5. \A i \in DOMAIN rest' : rest'[i] \in Orders => rest'[i] \in OptionsOf(d)
      BY <2>1 DEF OptionsOf
  <2>6. InHand'
      BY <2>4, <2>5 DEF InHand, OptionsOf
  <2> QED BY <2>1, <2>2, <2>3, <2>6 DEF OneEach, OptionsOf
<1>3. CASE \/ Sync \/ Skip \/ Fail
           \/ \E k \in Orders : SubmitCached(k) \/ SubmitNew(k)
           \/ \E k \in StockOrders : FallBackToStock(k)
  <2>1. /\ Executed' = Executed /\ agenda' = agenda
        /\ pc' = "idle" => pc = "idle"
      BY <1>3 DEF Sync, Skip, Fail, SubmitCached, SubmitNew, FallBackToStock,
         Trying, broker, Executed, Inv, TypeOK, Books
  <2>2. rest' \in {rest, <<>>} \/ (rest # <<>> /\ rest' = Tail(rest))
      BY <1>3 DEF Sync, Skip, Fail, SubmitCached, SubmitNew, FallBackToStock,
         Trying, broker
  <2> QED BY <2>1, <2>2, KeepsOneEach
<1>4. CASE SubmitUnknown \/ Poll \/ \E k \in Orders : SubmitRefused(k)
  <2>1. /\ rest # <<>> /\ Head(rest) \in Orders
        /\ pc # "idle" /\ UNCHANGED <<db, agenda>>
        /\ \/ Store(Head(rest), "rejected")
           \/ Store(Head(rest), market[Head(rest)])
      BY <1>4 DEF SubmitUnknown, Poll, SubmitRefused, Trying, broker
  <2>2. {"rejected", market[Head(rest)]} \subseteq OrderStatus
      BY <2>1 DEF Inv, TypeOK, OrderStatus
  <2> QED BY <2>1, <2>2, StoreOneEach
<1>5. CASE Commit \/ Rollback
  <2>1. Executed' = {} /\ agenda' = {} /\ rest' = <<>>
      BY <1>5 DEF Commit, Rollback, Leave, Executed
  <2> QED BY <2>1 DEF OneEach, InHand
<1>6. CASE BrokerStep \/ UNCHANGED vars
  <2>1. UNCHANGED <<db, tx, run>>
      BY <1>6 DEF BrokerStep, Fill, Cancel, Expire, vars
  <2> QED BY <2>1, KeepsOneEach DEF run, Executed
<1> QED BY <1>1, <1>2, <1>3, <1>4, <1>5, <1>6 DEF Next, RunStep, Submit

\* When decisions share no option order but a hedge's, a run executes at most
\* one expression of a decision, whatever its plans, the broker's answers and
\* the failures.
THEOREM OneExecutionPerRunHolds ==
    ASSUME PlansApart PROVE Spec => []OneExecutionPerRun
<1>1. Inv /\ OneEach /\ [Next]_vars => OneEach'
    BY PlansApart, NextOneEach
<1>2. OneEach => OneExecutionPerRun
  <2> SUFFICES ASSUME OneEach, NEW d \in Decisions
               PROVE  Cardinality(OptionsOf(d) \cap Executed) <= 1
      BY DEF OneExecutionPerRun, Executed
  <2>1. \A j, k \in OptionsOf(d) \cap Executed : j = k
      BY DEF OneEach
  <2>2. CASE OptionsOf(d) \cap Executed = {}
    <3>1. Cardinality(OptionsOf(d) \cap Executed) = 0
        BY <2>2, FS_EmptySet
    <3> QED BY <3>1
  <2>3. CASE OptionsOf(d) \cap Executed # {}
    <3>1. PICK k : k \in OptionsOf(d) \cap Executed
        BY <2>3
    <3>2. OptionsOf(d) \cap Executed = {k}
        BY <2>1, <3>1
    <3>3. Cardinality(OptionsOf(d) \cap Executed) = 1
        BY <3>2, FS_Singleton, Zenon
    <3> QED BY <3>3
  <2> QED BY <2>2, <2>3
<1> QED BY <1>1, <1>2, InitOneEach, InvHolds, PTL DEF Spec
=============================================================================
