------------------------ MODULE StockExecutionProofs ------------------------
(***************************************************************************)
(* For every number of concurrent runs, every set of orders and every      *)
(* environment: the types, that an execution row is never written for an   *)
(* order the broker has not filled, and that no stored order hides an      *)
(* unrecorded fill behind a terminal status.                               *)
(*                                                                         *)
(* Some promises hold in some environments only, and their theorems name   *)
(* them.  Where processes live and calls return, every accepted order is   *)
(* on record.  Where orders settle between phases, a terminal status is    *)
(* final, and no run waits for itself unless it decides an order again.    *)
(* Where phases do not overlap, a status is final with the market open     *)
(* too, an order has one execution, its links survive, the rows implement  *)
(* the ledger of fills, and an undisturbed sync passes its validation.     *)
(***************************************************************************)
EXTENDS StockExecution, FiniteSetTheorems, WellFoundedInduction, TLAPS

USE ConstantAssumption DEF ConstantAssumption, Terminal, Statuses

\* Steps at which the run has an order in hand.
InHand == {"recordLate", "saveLate", "poll", "refresh", "filled", "unfilled",
           "saveFill", "saveOrder"}

HandIsOrder == \A r \in Runs : pc[r] \in InHand => cur[r] \in Orders

\* The broker's fill sequence has every filled order.
FillsListed ==
    \A k \in Orders : market[k].st = "filled" =>
        \E i \in 1..Len(fillSeq) : fillSeq[i] = k

\* What a row says of a terminal order is what the broker says.
True(row, k) == row.st \in Terminal => market[k].st = row.st

\* A stored row moreover reads "filled" only once the fill is recorded.
Settled(row, k) == True(row, k) /\ (row.st = "filled" => dbExec[k] > 0)

MemoryTrue   == \A r \in Runs, k \in Orders : True(mem[r][k], k)
RowsSettled  == \A k \in Orders : Settled(dbOrder[k], k)
PendSettled  == \A r \in Runs, k \in Orders : Settled(pend[r][k], k)
SavedIsStored == \A r \in Runs : \A k \in saved[r] : dbExec[k] > 0

\* Where a run stands tells whether its order's fill is known and recorded.
FillKnown ==
    \A r \in Runs :
        /\ pc[r] \in {"recordLate", "filled", "saveFill"} =>
               mem[r][cur[r]].st = "filled"
        /\ pc[r] = "unfilled" => mem[r][cur[r]].st # "filled"
        /\ pc[r] \in {"saveLate", "saveFill", "saveOrder"} =>
               (mem[r][cur[r]].st = "filled" => dbExec[cur[r]] > 0)

IInv ==
    /\ TypeOK /\ HandIsOrder /\ FillsListed /\ NoPhantomFill
    /\ MemoryTrue /\ RowsSettled /\ PendSettled /\ SavedIsStored /\ FillKnown

\* The empty database and the empty market satisfy the invariant.
LEMMA InitIInv == Init => IInv
<1> SUFFICES ASSUME Init PROVE IInv
    OBVIOUS
<1> USE DEF Init, Flat, Idle, NoRow, InHand
<1>1. TypeOK
    BY DEF TypeOK, Row, Steps, Raised
<1>2. HandIsOrder /\ FillsListed /\ NoPhantomFill
    BY DEF HandIsOrder, FillsListed, NoPhantomFill
<1>3. MemoryTrue /\ RowsSettled /\ PendSettled /\ SavedIsStored /\ FillKnown
    BY DEF MemoryTrue, RowsSettled, PendSettled, SavedIsStored, FillKnown,
           True, Settled
<1> QED BY <1>1, <1>2, <1>3 DEF IInv

-----------------------------------------------------------------------------
(* The broker's steps only ever make more orders terminal.                 *)

\* A broker fill keeps the types and touches no other order.
LEMMA FillUpToTyped ==
    ASSUME TypeOK, NEW k \in Orders, NEW q \in Nat, NEW st \in Statuses,
           FillUpTo(k, q, st)
    PROVE  /\ market' \in [Orders -> [st : Statuses, qty : Nat]]
           /\ account' \in [Tickers -> Int]
           /\ market'[k].st = st
           /\ \A j \in Orders \ {k} : market'[j] = market[j]
<1>1. /\ market' \in [Orders -> [st : Statuses, qty : Nat]]
      /\ market'[k].st = st
      /\ \A j \in Orders \ {k} : market'[j] = market[j]
    BY DEF TypeOK, FillUpTo
<1>2. account' \in [Tickers -> Int]
  <2> DEFINE change == Side[k] * (q - market[k].qty)
  <2>1. change \in Int
    <3>1. q - market[k].qty \in Int
        BY DEF TypeOK
    <3>2. Side[k] = 1 \/ Side[k] = -1
        OBVIOUS
    <3> QED BY <3>1, <3>2
  <2>2. account' = [account EXCEPT ![TickerOf[k]] = @ + change]
      BY DEF FillUpTo
  <2> HIDE DEF change
  <2> QED BY <2>1, <2>2 DEF TypeOK
<1> QED BY <1>1, <1>2

\* While the broker moves one open order, every row stays as true as it was.
LEMMA BrokerKeepsRows ==
    ASSUME IInv, NEW k \in Orders, UNCHANGED <<dbVars, txVars, runVars>>,
           market[k].st \notin Terminal,
           market'[k].st \in Terminal \cup {"partially_filled"},
           \A j \in Orders \ {k} : market'[j] = market[j]
    PROVE  (HandIsOrder /\ NoPhantomFill /\ MemoryTrue /\ RowsSettled
              /\ PendSettled /\ SavedIsStored /\ FillKnown)'
<1> USE DEF IInv, dbVars, txVars, runVars
<1>1. (HandIsOrder /\ SavedIsStored /\ FillKnown)'
    BY DEF HandIsOrder, SavedIsStored, FillKnown
<1>2. NoPhantomFill'
    BY DEF NoPhantomFill
<1>3. (MemoryTrue /\ RowsSettled /\ PendSettled)'
    BY DEF MemoryTrue, RowsSettled, PendSettled, True, Settled
<1> QED BY <1>1, <1>2, <1>3

\* Partial fills, fills and cancellations preserve the invariant.
LEMMA BrokerStepIInv ==
    ASSUME IInv, NEW k \in Orders, BrokerStep(k)
    PROVE  IInv'
<1> USE DEF IInv
<1>1. CASE PartialFill(k)
  <2>1. PICK q \in 1..(Qty[k] - 1) : FillUpTo(k, q, "partially_filled")
      BY <1>1 DEF PartialFill
  <2>2. /\ market' \in [Orders -> [st : Statuses, qty : Nat]]
        /\ account' \in [Tickers -> Int]
        /\ market'[k].st = "partially_filled"
        /\ \A j \in Orders \ {k} : market'[j] = market[j]
      BY <2>1, FillUpToTyped
  <2>3. TypeOK'
      BY <1>1, <2>2 DEF TypeOK, PartialFill, dbVars, txVars, runVars, Row
  <2>4. FillsListed'
      BY <1>1, <2>2 DEF FillsListed, PartialFill
  <2> QED BY <1>1, <2>2, <2>3, <2>4, BrokerKeepsRows DEF PartialFill
<1>2. CASE Fill(k)
  <2>1. /\ market' \in [Orders -> [st : Statuses, qty : Nat]]
        /\ account' \in [Tickers -> Int]
        /\ market'[k].st = "filled"
        /\ \A j \in Orders \ {k} : market'[j] = market[j]
      BY <1>2, FillUpToTyped DEF Fill
  <2>2. TypeOK'
    <3>1. fillSeq' \in Seq(Orders)
        BY <1>2 DEF Fill, TypeOK
    <3> QED BY <1>2, <2>1, <3>1 DEF TypeOK, Fill, dbVars, txVars, runVars, Row
  <2>3. FillsListed'
    <3>1. /\ Len(fillSeq') = Len(fillSeq) + 1
          /\ fillSeq'[Len(fillSeq) + 1] = k
          /\ \A i \in 1..Len(fillSeq) : fillSeq'[i] = fillSeq[i]
          /\ Len(fillSeq) \in Nat
        BY <1>2 DEF TypeOK, Fill
    <3>2. ASSUME NEW j \in Orders, market'[j].st = "filled"
          PROVE  \E i \in 1..Len(fillSeq') : fillSeq'[i] = j
      <4>1. CASE j = k
          BY <3>1, <4>1
      <4>2. CASE j # k
        <5>1. PICK i \in 1..Len(fillSeq) : fillSeq[i] = j
            BY <2>1, <3>2, <4>2 DEF FillsListed
        <5> QED BY <3>1, <5>1
      <4> QED BY <4>1, <4>2
    <3> QED BY <3>2 DEF FillsListed
  <2> QED BY <1>2, <2>1, <2>2, <2>3, BrokerKeepsRows DEF Fill
<1>3. CASE Cancel(k)
  <2>1. /\ market' \in [Orders -> [st : Statuses, qty : Nat]]
        /\ market'[k].st = "canceled"
        /\ \A j \in Orders \ {k} : market'[j] = market[j]
    <3>1. market \in [Orders -> [st : Statuses, qty : Nat]]
        BY DEF TypeOK
    <3>2. market' = [market EXCEPT ![k] = [market[k] EXCEPT !.st = "canceled"]]
        BY <1>3 DEF Cancel
    <3>3. /\ [market[k] EXCEPT !.st = "canceled"]
                \in [st : Statuses, qty : Nat]
          /\ [market[k] EXCEPT !.st = "canceled"].st = "canceled"
        BY <3>1
    <3> QED BY <3>1, <3>2, <3>3
  <2>2. TypeOK'
      BY <1>3, <2>1 DEF TypeOK, Cancel, dbVars, txVars, runVars, Row
  <2>3. FillsListed'
      BY <1>3, <2>1 DEF FillsListed, Cancel
  <2> QED BY <1>3, <2>1, <2>2, <2>3, BrokerKeepsRows DEF Cancel
<1> QED BY <1>1, <1>2, <1>3 DEF BrokerStep

-----------------------------------------------------------------------------
(* A run's steps leave the broker's fills alone.                           *)

\* save_paper_order writes what the run knows, which is settled.
LEMMA SaveOrderSettled ==
    ASSUME IInv, NEW r \in Runs, cur[r] \in Orders, SaveOrder(r, cur[r]),
           mem[r][cur[r]].st = "filled" => dbExec[cur[r]] > 0,
           UNCHANGED <<brokerVars, dbVars>>
    PROVE  /\ pend' \in [Runs -> [Orders -> Row]]
           /\ PendSettled'
<1>1. /\ pend \in [Runs -> [Orders -> Row]]
      /\ mem[r][cur[r]] \in Row
      /\ PendSettled
      /\ Settled(mem[r][cur[r]], cur[r])
    BY DEF IInv, TypeOK, MemoryTrue, Settled
<1>2. UNCHANGED <<market, dbExec>>
    BY DEF brokerVars, dbVars
<1>3. CASE UNCHANGED pend
    BY <1>1, <1>2, <1>3 DEF PendSettled, Settled, True
<1>4. CASE pend' = [pend EXCEPT ![r][cur[r]] = mem[r][cur[r]]]
  <2>1. pend' \in [Runs -> [Orders -> Row]]
      BY <1>1, <1>4
  <2>2. ASSUME NEW q \in Runs, NEW k \in Orders
        PROVE  pend'[q][k] = IF q = r /\ k = cur[r] THEN mem[r][cur[r]]
                             ELSE pend[q][k]
      BY <1>1, <1>4
  <2> QED BY <1>1, <1>2, <2>1, <2>2 DEF PendSettled, Settled, True
<1> QED BY <1>3, <1>4 DEF SaveOrder

\* A checkpoint that records a fill with its status leaves settled rows.
LEMMA CheckpointSettled ==
    ASSUME IInv, NEW r \in Runs, cur[r] \in Orders, Checkpoint(r, cur[r]),
           UNCHANGED <<brokerVars, pend>>,
           \/ mem[r][cur[r]].st # "filled" /\ UNCHANGED <<dbExec, saved>>
           \/ mem[r][cur[r]].st = "filled" /\ RecordExecution(r, cur[r])
    PROVE  /\ dbOrder' \in [Orders -> Row]
           /\ dbExec' \in [Orders -> 0..2]
           /\ saved' \in [Runs -> SUBSET Orders]
           /\ \A k \in Orders : dbExec[k] > 0 => dbExec'[k] > 0
           /\ mem[r][cur[r]].st = "filled" => dbExec'[cur[r]] > 0
           /\ (NoPhantomFill /\ RowsSettled /\ PendSettled
                 /\ SavedIsStored)'
<1> DEFINE k0 == cur[r]
<1>1. /\ k0 \in Orders
      /\ dbOrder \in [Orders -> Row] /\ dbExec \in [Orders -> 0..2]
      /\ saved \in [Runs -> SUBSET Orders]
      /\ mem[r][k0] \in Row /\ True(mem[r][k0], k0)
      /\ UNCHANGED <<market, pend>>
    BY DEF IInv, TypeOK, MemoryTrue, brokerVars
<1>2. dbOrder' = [dbOrder EXCEPT ![k0] = [st |-> mem[r][k0].st,
                                         linked |-> dbOrder[k0].linked]]
    BY DEF Checkpoint, CheckpointRow
<1>3. dbOrder' \in [Orders -> Row]
    BY <1>1, <1>2 DEF Row
<1>4. /\ dbExec' \in [Orders -> 0..2]
      /\ saved' \in [Runs -> SUBSET Orders]
      /\ \A k \in Orders : k # k0 => dbExec'[k] = dbExec[k]
      /\ \A k \in Orders : dbExec[k] > 0 => dbExec'[k] > 0
      /\ mem[r][k0].st = "filled" => dbExec'[k0] > 0
      /\ mem[r][k0].st # "filled" => dbExec'[k0] = dbExec[k0]
      /\ \A q \in Runs, k \in Orders :
            k \in saved'[q] => k \in saved[q] \/ dbExec'[k] > 0
  <2>1. CASE mem[r][k0].st # "filled" /\ UNCHANGED <<dbExec, saved>>
      BY <1>1, <2>1
  <2>2. CASE mem[r][k0].st = "filled" /\ RecordExecution(r, k0)
    <3>1. dbExec' = [dbExec EXCEPT ![k0] = IF dbExec[k0] = 0 THEN 1 ELSE 2]
        BY <2>2 DEF RecordExecution
    <3>2. saved' = [saved EXCEPT ![r] = saved[r] \cup {k0}]
        BY <2>2 DEF RecordExecution
    <3> QED BY <1>1, <2>2, <3>1, <3>2
  <2> QED BY <2>1, <2>2
<1> HIDE DEF k0
<1>5. NoPhantomFill'
    BY <1>1, <1>4 DEF IInv, NoPhantomFill, True
<1>6. SavedIsStored'
    BY <1>1, <1>4 DEF IInv, SavedIsStored
<1>7. PendSettled'
    BY <1>1, <1>4 DEF IInv, PendSettled, Settled, True
<1>8. RowsSettled'
    BY <1>1, <1>2, <1>4 DEF IInv, RowsSettled, Settled, True
<1> QED BY <1>3, <1>4, <1>5, <1>6, <1>7, <1>8 DEF k0

-----------------------------------------------------------------------------
(* Steps that only move the run along.                                     *)

\* A step that only moves control keeps everything but the facts on control.
LEMMA ControlStep ==
    ASSUME IInv, UNCHANGED <<market, fillSeq, dbOrder, dbExec, pend, mem,
                             saved>>,
           TypeOK', HandIsOrder', FillKnown'
    PROVE  IInv'
BY DEF IInv, FillsListed, NoPhantomFill, MemoryTrue, RowsSettled,
       PendSettled, SavedIsStored, True, Settled

\* Moving run r to a step at which it has no order in hand.
LEMMA PutDown ==
    ASSUME IInv, NEW r \in Runs, NEW step \in Steps \ InHand, Goto(r, step),
           \A q \in Runs \ {r} : cur'[q] = cur[q],
           UNCHANGED <<mem, dbExec>>
    PROVE  /\ pc' \in [Runs -> Steps]
           /\ HandIsOrder' /\ FillKnown'
<1>1. /\ pc \in [Runs -> Steps]
      /\ pc' = [pc EXCEPT ![r] = step]
      /\ HandIsOrder /\ FillKnown
    BY DEF IInv, TypeOK, Goto
<1>2. pc' \in [Runs -> Steps]
    BY <1>1
<1>3. HandIsOrder'
    BY <1>1 DEF HandIsOrder
<1>4. FillKnown'
    BY <1>1 DEF FillKnown, InHand
<1> QED BY <1>2, <1>3, <1>4

\* The sync record keeps its type when a sync begins.
LEMMA SyncRecordTyped ==
    ASSUME TypeOK, NEW r \in Runs, NEW asOf \in Nat, NEW persist \in BOOLEAN,
           BeginSync(r, asOf, persist)
    PROVE  sync' \in [Runs -> [start : Nat, asOf : Nat, persist : BOOLEAN,
                               seen : [Tickers -> Int]]]
<1>1. sync[r] \in [start : Nat, asOf : Nat, persist : BOOLEAN,
                   seen : [Tickers -> Int]]
    BY DEF TypeOK
<1>2. [sync[r] EXCEPT !.asOf = asOf, !.persist = persist]
        \in [start : Nat, asOf : Nat, persist : BOOLEAN,
             seen : [Tickers -> Int]]
    BY <1>1
<1> QED BY <1>2 DEF BeginSync, TypeOK

\* The loop only works through orders.
LEMMA RefreshableTyped ==
    ASSUME TypeOK, NEW r \in Runs
    PROVE  Refreshable(r) \subseteq [key : Orders, linked : BOOLEAN]
BY DEF TypeOK, Refreshable, Visible, Row

\* The actions of a run that read and write no row.
LEMMA ControlActions ==
    ASSUME IInv, NEW r \in Runs,
           \/ Start(r) \/ FirstSync(r) \/ FetchPositions(r) \/ AcceptSync(r)
           \/ RejectSync(r) \/ ReapproveFallback(r) \/ HttpError(r)
           \/ RejectAmbiguous(r)
    PROVE  IInv'
<1> USE DEF brokerVars, dbVars, txVars
<1>1. CASE Start(r)
  <2>1. sync' \in [Runs -> [start : Nat, asOf : Nat, persist : BOOLEAN,
                            seen : [Tickers -> Int]]]
    <3>1. [Idle EXCEPT !.start = Len(fillSeq)]
             \in [start : Nat, asOf : Nat, persist : BOOLEAN,
                  seen : [Tickers -> Int]]
      <4>1. Len(fillSeq) \in Nat
          BY DEF IInv, TypeOK
      <4>2. Idle \in [start : Nat, asOf : Nat, persist : BOOLEAN,
                      seen : [Tickers -> Int]]
          BY DEF Idle, Flat
      <4> QED BY <4>1, <4>2
    <3> QED BY <1>1, <3>1 DEF Start, IInv, TypeOK
  <2>2. pc' \in [Runs -> Steps] /\ HandIsOrder' /\ FillKnown'
      BY <1>1, PutDown DEF Start, Steps, InHand
  <2>3. left' \in [Runs -> 0..MaxDecisions]
      BY <1>1 DEF Start, IInv, TypeOK
  <2>4. TypeOK'
      BY <1>1, <2>1, <2>2, <2>3 DEF Start, IInv, TypeOK
  <2> QED BY <1>1, <2>2, <2>4, ControlStep DEF Start
<1>2. CASE FirstSync(r)
  <2>1. sync' \in [Runs -> [start : Nat, asOf : Nat, persist : BOOLEAN,
                            seen : [Tickers -> Int]]]
    <3>1. sync[r].start \in Nat
        BY DEF IInv, TypeOK
    <3> QED BY <1>2, <3>1, SyncRecordTyped DEF FirstSync, IInv
  <2>2. pc' \in [Runs -> Steps] /\ HandIsOrder' /\ FillKnown'
      BY <1>2, PutDown DEF FirstSync, BeginSync, Steps, InHand
  <2>3. todo' \in [Runs -> SUBSET [key : Orders, linked : BOOLEAN]]
      BY <1>2, RefreshableTyped DEF FirstSync, IInv, TypeOK
  <2>4. TypeOK'
      BY <1>2, <2>1, <2>2, <2>3 DEF FirstSync, IInv, TypeOK
  <2> QED BY <1>2, <2>2, <2>4, ControlStep DEF FirstSync
<1>3. CASE FetchPositions(r)
  <2>1. sync' \in [Runs -> [start : Nat, asOf : Nat, persist : BOOLEAN,
                            seen : [Tickers -> Int]]]
    <3>1. [sync[r] EXCEPT !.seen = account]
             \in [start : Nat, asOf : Nat, persist : BOOLEAN,
                  seen : [Tickers -> Int]]
      <4>1. account \in [Tickers -> Int]
          BY DEF IInv, TypeOK
      <4>2. sync[r] \in [start : Nat, asOf : Nat, persist : BOOLEAN,
                         seen : [Tickers -> Int]]
          BY DEF IInv, TypeOK
      <4> QED BY <4>1, <4>2
    <3> QED BY <1>3, <3>1 DEF FetchPositions, IInv, TypeOK
  <2>2. pc' \in [Runs -> Steps] /\ HandIsOrder' /\ FillKnown'
      BY <1>3, PutDown DEF FetchPositions, Steps, InHand
  <2>3. TypeOK'
      BY <1>3, <2>1, <2>2 DEF FetchPositions, IInv, TypeOK
  <2> QED BY <1>3, <2>2, <2>3, ControlStep DEF FetchPositions
<1>4. CASE AcceptSync(r)
  <2>1. pendSnap' \in [Runs -> [Tickers -> Int] \cup {NoSnap}]
      BY <1>4 DEF AcceptSync, IInv, TypeOK
  <2>2. pc' \in [Runs -> Steps] /\ HandIsOrder' /\ FillKnown'
      BY <1>4, PutDown DEF AcceptSync, Steps, Raised, InHand
  <2>3. TypeOK'
      BY <1>4, <2>1, <2>2 DEF AcceptSync, IInv, TypeOK
  <2> QED BY <1>4, <2>2, <2>3, ControlStep DEF AcceptSync
<1>5. CASE RejectSync(r)
  <2>1. pc' \in [Runs -> Steps] /\ HandIsOrder' /\ FillKnown'
      BY <1>5, PutDown DEF RejectSync, Steps, InHand, Raised
  <2>2. TypeOK'
      BY <1>5, <2>1 DEF RejectSync, IInv, TypeOK
  <2> QED BY <1>5, <2>1, <2>2, ControlStep DEF RejectSync
<1>6. CASE ReapproveFallback(r)
  <2>1. sync' \in [Runs -> [start : Nat, asOf : Nat, persist : BOOLEAN,
                            seen : [Tickers -> Int]]]
    <3>1. sync[r].start \in Nat
        BY DEF IInv, TypeOK
    <3> QED BY <1>6, <3>1, SyncRecordTyped DEF ReapproveFallback, IInv
  <2>2. pc' \in [Runs -> Steps] /\ HandIsOrder' /\ FillKnown'
      BY <1>6, PutDown DEF ReapproveFallback, BeginSync, Steps, InHand
  <2>3. /\ todo' \in [Runs -> SUBSET [key : Orders, linked : BOOLEAN]]
        /\ left' \in [Runs -> 0..MaxDecisions]
    <3>1. todo' \in [Runs -> SUBSET [key : Orders, linked : BOOLEAN]]
        BY <1>6, RefreshableTyped DEF ReapproveFallback, IInv, TypeOK
    <3>2. left[r] - 1 \in 0..MaxDecisions
        BY <1>6 DEF ReapproveFallback, IInv, TypeOK
    <3> QED BY <1>6, <3>1, <3>2 DEF ReapproveFallback, IInv, TypeOK
  <2>4. TypeOK'
      BY <1>6, <2>1, <2>2, <2>3 DEF ReapproveFallback, IInv, TypeOK
  <2> QED BY <1>6, <2>2, <2>4, ControlStep DEF ReapproveFallback
<1>7. CASE HttpError(r)
  <2>1. pc' \in [Runs -> Steps] /\ HandIsOrder' /\ FillKnown'
      BY <1>7, PutDown DEF HttpError, Steps, InHand, Raised
  <2>2. TypeOK'
      BY <1>7, <2>1 DEF HttpError, IInv, TypeOK
  <2> QED BY <1>7, <2>1, <2>2, ControlStep DEF HttpError
<1>8. CASE RejectAmbiguous(r)
  <2>1. pc' \in [Runs -> Steps] /\ HandIsOrder' /\ FillKnown'
      BY <1>8, PutDown DEF RejectAmbiguous, Steps, InHand, Raised
  <2>2. TypeOK'
      BY <1>8, <2>1 DEF RejectAmbiguous, IInv, TypeOK
  <2> QED BY <1>8, <2>1, <2>2, ControlStep DEF RejectAmbiguous
<1> QED BY <1>1, <1>2, <1>3, <1>4, <1>5, <1>6, <1>7, <1>8

-----------------------------------------------------------------------------
(* Reading an order from the broker into the run's memory.                 *)

\* The run learns the broker's status of order k and turns to it.
LEMMA ReadOrder ==
    ASSUME IInv, NEW r \in Runs, NEW k \in Orders, NEW linked \in BOOLEAN,
           NEW step \in InHand,
           mem' = [mem EXCEPT ![r][k] = [st |-> market[k].st,
                                         linked |-> linked]],
           cur' = [cur EXCEPT ![r] = k],
           Goto(r, step),
           UNCHANGED <<market, fillSeq, dbOrder, dbExec, pend, saved>>,
           step \in {"recordLate", "filled"} => market[k].st = "filled",
           step = "unfilled" => market[k].st # "filled",
           step = "saveLate" => (market[k].st = "filled" => dbExec[k] > 0),
           step \notin {"saveFill", "saveOrder"}
    PROVE  /\ mem' \in [Runs -> [Orders -> Row]]
           /\ cur' \in [Runs -> Orders \cup {NoOrder}]
           /\ pc' \in [Runs -> Steps]
           /\ (HandIsOrder /\ FillsListed /\ NoPhantomFill /\ MemoryTrue
                 /\ RowsSettled /\ PendSettled /\ SavedIsStored /\ FillKnown)'
<1>1. /\ pc \in [Runs -> Steps] /\ cur \in [Runs -> Orders \cup {NoOrder}]
      /\ mem \in [Runs -> [Orders -> Row]]
      /\ [st |-> market[k].st, linked |-> linked] \in Row
      /\ step \in Steps
    BY DEF IInv, TypeOK, Row, InHand, Steps
<1>2. /\ mem' \in [Runs -> [Orders -> Row]]
      /\ cur' \in [Runs -> Orders \cup {NoOrder}]
      /\ pc' = [pc EXCEPT ![r] = step]
      /\ pc' \in [Runs -> Steps]
    BY <1>1 DEF Goto
<1>3. \A q \in Runs, j \in Orders :
        mem'[q][j] = IF q = r /\ j = k
                     THEN [st |-> market[k].st, linked |-> linked]
                     ELSE mem[q][j]
    BY <1>1
<1>4. (FillsListed /\ NoPhantomFill /\ RowsSettled /\ PendSettled
        /\ SavedIsStored)'
    BY DEF IInv, FillsListed, NoPhantomFill, RowsSettled, PendSettled,
           SavedIsStored, Settled, True
<1>5. MemoryTrue'
    BY <1>3 DEF IInv, MemoryTrue, True
<1>6. HandIsOrder'
    BY <1>1, <1>2 DEF IInv, HandIsOrder
<1>7. FillKnown'
  <2> SUFFICES ASSUME NEW q \in Runs
               PROVE  /\ pc'[q] \in {"recordLate", "filled", "saveFill"} =>
                             mem'[q][cur'[q]].st = "filled"
                      /\ pc'[q] = "unfilled" => mem'[q][cur'[q]].st # "filled"
                      /\ pc'[q] \in {"saveLate", "saveFill", "saveOrder"} =>
                             (mem'[q][cur'[q]].st = "filled"
                                => dbExec'[cur'[q]] > 0)
      BY DEF FillKnown
  <2>1. CASE q = r
    <3>1. pc'[q] = step /\ cur'[q] = k /\ mem'[q][k].st = market[k].st
        BY <1>1, <1>2, <1>3, <2>1
    <3> QED BY <3>1
  <2>2. CASE q # r
    <3>1. pc'[q] = pc[q] /\ cur'[q] = cur[q] /\ mem'[q] = mem[q]
        BY <1>1, <1>2, <2>2
    <3> QED BY <3>1 DEF IInv, FillKnown
  <2> QED BY <2>1, <2>2
<1> QED BY <1>2, <1>4, <1>5, <1>6, <1>7

\* The actions that learn a status: the reconcile loop, poll and refresh.
LEMMA ReadActions ==
    ASSUME IInv, NEW r \in Runs,
           ReconcileOrder(r) \/ Poll(r) \/ RefreshSubmitted(r)
    PROVE  IInv'
<1> USE DEF brokerVars, dbVars, txVars
<1>1. CASE ReconcileOrder(r)
  <2>1. PICK o \in todo[r] :
          /\ mem' = [mem EXCEPT ![r][o.key] = [st |-> market[o.key].st,
                                               linked |-> o.linked]]
          /\ cur' = [cur EXCEPT ![r] = o.key]
          /\ todo' = [todo EXCEPT ![r] = @ \ {o}]
          /\ Goto(r, IF market[o.key].st = "filled" /\ dbExec[o.key] = 0
                     THEN "recordLate" ELSE "saveLate")
      BY <1>1 DEF ReconcileOrder
  <2>2. /\ o.key \in Orders /\ o.linked \in BOOLEAN
        /\ todo' \in [Runs -> SUBSET [key : Orders, linked : BOOLEAN]]
        /\ dbExec[o.key] \in 0..2
      BY <2>1 DEF IInv, TypeOK
  <2> DEFINE step == IF market[o.key].st = "filled" /\ dbExec[o.key] = 0
                     THEN "recordLate" ELSE "saveLate"
  <2>3. /\ step \in InHand
        /\ step \in {"recordLate", "filled"} => market[o.key].st = "filled"
        /\ step = "saveLate" => (market[o.key].st = "filled"
                                   => dbExec[o.key] > 0)
        /\ step \notin {"unfilled", "saveFill", "saveOrder"}
      BY <2>2 DEF InHand
  <2> HIDE DEF step
  <2>4. /\ mem' \in [Runs -> [Orders -> Row]]
        /\ cur' \in [Runs -> Orders \cup {NoOrder}]
        /\ pc' \in [Runs -> Steps]
        /\ (HandIsOrder /\ FillsListed /\ NoPhantomFill /\ MemoryTrue
              /\ RowsSettled /\ PendSettled /\ SavedIsStored /\ FillKnown)'
      BY <1>1, <2>1, <2>2, <2>3, ReadOrder DEF ReconcileOrder, step
  <2> QED BY <1>1, <2>2, <2>4 DEF ReconcileOrder, IInv, TypeOK
<1>2. CASE Poll(r)
  <2>1. cur[r] \in Orders
      BY <1>2 DEF Poll, IInv, HandIsOrder, InHand
  <2> DEFINE step == IF market[cur[r]].st = "filled" THEN "filled"
                     ELSE "refresh"
  <2>2. /\ mem' = [mem EXCEPT ![r][cur[r]] = [st |-> market[cur[r]].st,
                                              linked |-> TRUE]]
        /\ cur' = [cur EXCEPT ![r] = cur[r]]
        /\ Goto(r, step)
      BY <1>2 DEF Poll, IInv, TypeOK
  <2>3. /\ step \in InHand
        /\ step \in {"recordLate", "filled"} => market[cur[r]].st = "filled"
        /\ step \notin {"unfilled", "saveLate", "saveFill", "saveOrder"}
      BY DEF InHand
  <2> HIDE DEF step
  <2>4. /\ mem' \in [Runs -> [Orders -> Row]]
        /\ pc' \in [Runs -> Steps]
        /\ (HandIsOrder /\ FillsListed /\ NoPhantomFill /\ MemoryTrue
              /\ RowsSettled /\ PendSettled /\ SavedIsStored /\ FillKnown)'
      BY <1>2, <2>1, <2>2, <2>3, ReadOrder DEF Poll
  <2> QED BY <1>2, <2>4 DEF Poll, IInv, TypeOK
<1>3. CASE RefreshSubmitted(r)
  <2>1. cur[r] \in Orders
      BY <1>3 DEF RefreshSubmitted, IInv, HandIsOrder, InHand
  <2> DEFINE step == IF market[cur[r]].st = "filled" THEN "filled"
                     ELSE "unfilled"
  <2>2. /\ mem[r][cur[r]].linked \in BOOLEAN
        /\ mem' = [mem EXCEPT ![r][cur[r]] =
                      [st |-> market[cur[r]].st,
                       linked |-> mem[r][cur[r]].linked]]
        /\ cur' = [cur EXCEPT ![r] = cur[r]]
        /\ Goto(r, step)
    <3>1. mem[r][cur[r]] \in Row
        BY <2>1 DEF IInv, TypeOK
    <3>2. [mem[r][cur[r]] EXCEPT !.st = market[cur[r]].st]
             = [st |-> market[cur[r]].st, linked |-> mem[r][cur[r]].linked]
        BY <3>1 DEF Row
    <3>3. mem' = [mem EXCEPT ![r][cur[r]] =
                    [mem[r][cur[r]] EXCEPT !.st = market[cur[r]].st]]
        BY <1>3 DEF RefreshSubmitted
    <3>4. cur' = [cur EXCEPT ![r] = cur[r]] /\ Goto(r, step)
        BY <1>3 DEF RefreshSubmitted, IInv, TypeOK
    <3> QED BY <3>1, <3>2, <3>3, <3>4 DEF Row
  <2>3. /\ step \in InHand
        /\ step \in {"recordLate", "filled"} => market[cur[r]].st = "filled"
        /\ step = "unfilled" => market[cur[r]].st # "filled"
        /\ step \notin {"saveLate", "saveFill", "saveOrder"}
      BY DEF InHand
  <2> HIDE DEF step
  <2>4. /\ mem' \in [Runs -> [Orders -> Row]]
        /\ pc' \in [Runs -> Steps]
        /\ (HandIsOrder /\ FillsListed /\ NoPhantomFill /\ MemoryTrue
              /\ RowsSettled /\ PendSettled /\ SavedIsStored /\ FillKnown)'
      BY <1>3, <2>1, <2>2, <2>3, ReadOrder DEF RefreshSubmitted
  <2> QED BY <1>3, <2>4 DEF RefreshSubmitted, IInv, TypeOK
<1> QED BY <1>1, <1>2, <1>3

-----------------------------------------------------------------------------
(* Writing to the database.                                                *)

\* Moving run r on with the same order in hand.
LEMMA KeepInHand ==
    ASSUME IInv, NEW r \in Runs, cur[r] \in Orders,
           NEW step \in {"saveLate", "saveOrder", "saveFill"}, Goto(r, step),
           UNCHANGED <<cur, mem>>,
           \A k \in Orders : dbExec[k] > 0 => dbExec'[k] > 0,
           mem[r][cur[r]].st = "filled" => dbExec'[cur[r]] > 0,
           step = "saveFill" => mem[r][cur[r]].st = "filled"
    PROVE  pc' \in [Runs -> Steps] /\ HandIsOrder' /\ FillKnown'
<1>1. /\ pc \in [Runs -> Steps] /\ pc' = [pc EXCEPT ![r] = step]
      /\ step \in Steps
    BY DEF IInv, TypeOK, Goto, Steps
<1>2. HandIsOrder'
    BY <1>1 DEF IInv, HandIsOrder
<1>3. FillKnown'
  <2> SUFFICES ASSUME NEW q \in Runs
               PROVE  /\ pc'[q] \in {"recordLate", "filled", "saveFill"} =>
                             mem[q][cur[q]].st = "filled"
                      /\ pc'[q] = "unfilled" => mem[q][cur[q]].st # "filled"
                      /\ pc'[q] \in {"saveLate", "saveFill", "saveOrder"} =>
                             (mem[q][cur[q]].st = "filled"
                                => dbExec'[cur[q]] > 0)
      BY DEF FillKnown
  <2>1. CASE q = r
      BY <1>1, <2>1
  <2>2. CASE q # r
    <3>1. pc'[q] = pc[q]
        BY <1>1, <2>2
    <3>2. pc[q] \in InHand => cur[q] \in Orders
        BY DEF IInv, HandIsOrder
    <3> QED BY <3>1, <3>2 DEF IInv, FillKnown, InHand
  <2> QED BY <2>1, <2>2
<1> QED BY <1>1, <1>2, <1>3

\* The actions that write evidence in an isolated transaction.
LEMMA CheckpointActions ==
    ASSUME IInv, NEW r \in Runs,
           RecordLateFill(r) \/ CheckpointOrder(r) \/ CheckpointFill(r)
    PROVE  IInv'
<1>1. cur[r] \in Orders
    BY DEF RecordLateFill, CheckpointOrder, CheckpointFill, IInv, HandIsOrder,
           InHand
<1>2. UNCHANGED <<brokerVars, txVars, snap, cur, todo, left, mem, sync>>
    BY DEF RecordLateFill, CheckpointOrder, CheckpointFill
<1>3. /\ Checkpoint(r, cur[r])
      /\ \/ mem[r][cur[r]].st # "filled" /\ UNCHANGED <<dbExec, saved>>
         \/ mem[r][cur[r]].st = "filled" /\ RecordExecution(r, cur[r])
    BY DEF RecordLateFill, CheckpointOrder, CheckpointFill, IInv, FillKnown
<1>4. /\ dbOrder' \in [Orders -> Row]
      /\ dbExec' \in [Orders -> 0..2]
      /\ saved' \in [Runs -> SUBSET Orders]
      /\ \A k \in Orders : dbExec[k] > 0 => dbExec'[k] > 0
      /\ mem[r][cur[r]].st = "filled" => dbExec'[cur[r]] > 0
      /\ (NoPhantomFill /\ RowsSettled /\ PendSettled /\ SavedIsStored)'
    BY <1>1, <1>2, <1>3, CheckpointSettled DEF txVars
<1>5. pc' \in [Runs -> Steps] /\ HandIsOrder' /\ FillKnown'
  <2>1. CASE RecordLateFill(r)
      BY <1>1, <1>2, <1>4, <2>1, KeepInHand DEF RecordLateFill
  <2>2. CASE CheckpointOrder(r)
      BY <1>1, <1>2, <1>4, <2>2, KeepInHand DEF CheckpointOrder
  <2>3. CASE CheckpointFill(r)
    <3>1. mem[r][cur[r]].st = "filled"
        BY <2>3 DEF CheckpointFill, IInv, FillKnown
    <3> QED BY <1>1, <1>2, <1>4, <2>3, <3>1, KeepInHand DEF CheckpointFill
  <2> QED BY <2>1, <2>2, <2>3
<1>6. TypeOK'
    BY <1>2, <1>4, <1>5 DEF IInv, TypeOK, brokerVars, txVars
<1>7. FillsListed' /\ MemoryTrue'
    BY <1>2 DEF IInv, FillsListed, MemoryTrue, True, brokerVars
<1> QED BY <1>4, <1>5, <1>6, <1>7 DEF IInv

\* The actions that write the order in the run's own transaction.
LEMMA SaveActions ==
    ASSUME IInv, NEW r \in Runs,
           SaveReconciled(r) \/ SaveSubmitted(r) \/ SaveFillAndSync(r)
    PROVE  IInv'
<1>1. /\ cur[r] \in Orders
      /\ SaveOrder(r, cur[r])
      /\ mem[r][cur[r]].st = "filled" => dbExec[cur[r]] > 0
      /\ UNCHANGED <<brokerVars, dbVars, pendSnap, cur, left, mem, saved>>
    BY DEF SaveReconciled, SaveSubmitted, SaveFillAndSync, IInv, HandIsOrder,
           InHand, FillKnown
<1>2. pend' \in [Runs -> [Orders -> Row]] /\ PendSettled'
    BY <1>1, SaveOrderSettled
<1>3. (FillsListed /\ NoPhantomFill /\ MemoryTrue /\ RowsSettled
        /\ SavedIsStored)'
    BY <1>1 DEF IInv, FillsListed, NoPhantomFill, MemoryTrue, RowsSettled,
                SavedIsStored, True, Settled, brokerVars, dbVars
<1>4. /\ pc' \in [Runs -> Steps] /\ HandIsOrder' /\ FillKnown'
      /\ todo' \in [Runs -> SUBSET [key : Orders, linked : BOOLEAN]]
      /\ sync' \in [Runs -> [start : Nat, asOf : Nat, persist : BOOLEAN,
                             seen : [Tickers -> Int]]]
  <2>1. CASE SaveReconciled(r)
      BY <1>1, <2>1, PutDown DEF SaveReconciled, Steps, InHand, dbVars, IInv,
                                 TypeOK
  <2>2. CASE SaveSubmitted(r)
      BY <1>1, <2>2, PutDown DEF SaveSubmitted, Steps, InHand, dbVars, IInv,
                                 TypeOK
  <2>3. CASE SaveFillAndSync(r)
    <3>1. pc' \in [Runs -> Steps] /\ HandIsOrder' /\ FillKnown'
        BY <1>1, <2>3, PutDown DEF SaveFillAndSync, BeginSync, Steps, InHand,
                                   dbVars
    <3>2. FillTime(cur[r]) \in Nat
      <4>1. \E i \in 1..Len(fillSeq) : fillSeq[i] = cur[r]
          BY <1>1, <2>3 DEF SaveFillAndSync, IInv, FillKnown, MemoryTrue, True,
                            FillsListed
      <4>2. FillTime(cur[r]) \in 1..Len(fillSeq)
          BY <4>1 DEF FillTime
      <4> QED BY <4>2
    <3>3. sync' \in [Runs -> [start : Nat, asOf : Nat, persist : BOOLEAN,
                              seen : [Tickers -> Int]]]
        BY <2>3, <3>2, SyncRecordTyped DEF SaveFillAndSync, IInv
    <3>4. Refreshable(r)' \subseteq [key : Orders, linked : BOOLEAN]
      <4>1. pend' \in [Runs -> [Orders -> Row]] /\ dbOrder' \in [Orders -> Row]
          BY <1>1, <1>2 DEF dbVars, IInv, TypeOK
      <4>2. ASSUME NEW k \in Orders PROVE Visible(r, k)'.linked \in BOOLEAN
          BY <4>1 DEF Visible, Row
      <4> QED BY <4>2 DEF Refreshable
    <3>5. todo' \in [Runs -> SUBSET [key : Orders, linked : BOOLEAN]]
        BY <2>3, <3>4 DEF SaveFillAndSync, IInv, TypeOK
    <3> QED BY <3>1, <3>3, <3>5
  <2> QED BY <2>1, <2>2, <2>3
<1>5. TypeOK'
    BY <1>1, <1>2, <1>4 DEF IInv, TypeOK, brokerVars, dbVars
<1> QED BY <1>2, <1>3, <1>4, <1>5 DEF IInv

-----------------------------------------------------------------------------
(* Submitting.                                                             *)

\* A decision spends one of those left.
LEMMA DecisionTyped ==
    ASSUME TypeOK, NEW r \in Runs, NEW k \in Orders, NextDecision(r, k)
    PROVE  /\ left' \in [Runs -> 0..MaxDecisions]
           /\ cur' \in [Runs -> Orders \cup {NoOrder}]
           /\ cur'[r] = k
           /\ \A q \in Runs \ {r} : cur'[q] = cur[q]
<1>1. left[r] - 1 \in 0..MaxDecisions
    BY DEF NextDecision, TypeOK
<1> QED BY <1>1 DEF NextDecision, TypeOK

\* Turning to order k at a step that claims nothing, or to a filled order.
LEMMA TakeUp ==
    ASSUME IInv, NEW r \in Runs, NEW k \in Orders,
           NEW step \in {"poll", "refresh", "filled"}, Goto(r, step),
           cur'[r] = k, \A q \in Runs \ {r} : cur'[q] = cur[q],
           UNCHANGED <<mem, dbExec>>,
           step = "filled" => mem[r][k].st = "filled"
    PROVE  pc' \in [Runs -> Steps] /\ HandIsOrder' /\ FillKnown'
<1>1. /\ pc \in [Runs -> Steps] /\ pc' = [pc EXCEPT ![r] = step]
      /\ step \in Steps
    BY DEF IInv, TypeOK, Goto, Steps
<1>2. HandIsOrder'
    BY <1>1 DEF IInv, HandIsOrder
<1>3. FillKnown'
    BY <1>1 DEF IInv, FillKnown
<1> QED BY <1>1, <1>2, <1>3

\* The four outcomes of submit_order preserve the invariant.
LEMMA SubmitActions ==
    ASSUME IInv, NEW r \in Runs, NEW k \in Orders, Submit(r, k)
    PROVE  IInv'
<1>1. /\ NextDecision(r, k)
      /\ UNCHANGED <<account, fillSeq, dbVars, txVars, todo, mem, saved, sync>>
    BY DEF Submit, SubmitCached, SubmitNew, SubmitDuplicate, RejectLocally,
           brokerVars
<1>2. /\ left' \in [Runs -> 0..MaxDecisions]
      /\ cur' \in [Runs -> Orders \cup {NoOrder}]
      /\ cur'[r] = k
      /\ \A q \in Runs \ {r} : cur'[q] = cur[q]
    BY <1>1, DecisionTyped DEF IInv
<1>3. CASE SubmitCached(r, k)
  <2>1. pc' \in [Runs -> Steps] /\ HandIsOrder' /\ FillKnown'
      BY <1>1, <1>2, <1>3, TakeUp DEF SubmitCached, dbVars
  <2>2. TypeOK'
      BY <1>1, <1>2, <1>3, <2>1 DEF SubmitCached, IInv, TypeOK, brokerVars,
                                    dbVars, txVars
  <2> QED BY <1>1, <1>3, <2>1, <2>2, ControlStep DEF SubmitCached, brokerVars,
                                                     dbVars, txVars
<1>4. CASE SubmitDuplicate(r, k) \/ RejectLocally(r, k)
  <2>1. pc' \in [Runs -> Steps] /\ HandIsOrder' /\ FillKnown'
      BY <1>1, <1>2, <1>4, PutDown
         DEF SubmitDuplicate, RejectLocally, dbVars, Steps, Raised, InHand
  <2>2. UNCHANGED brokerVars
      BY <1>4 DEF SubmitDuplicate, RejectLocally
  <2>3. TypeOK'
      BY <1>1, <1>2, <2>1, <2>2 DEF IInv, TypeOK, brokerVars, dbVars, txVars
  <2> QED BY <1>1, <2>1, <2>2, <2>3, ControlStep DEF brokerVars, dbVars, txVars
<1>5. CASE SubmitNew(r, k)
  <2>1. /\ market' \in [Orders -> [st : Statuses, qty : Nat]]
        /\ \A j \in Orders :
              market[j].st \in Terminal \/ market'[j].st = "filled"
                => market'[j].st = market[j].st
    <3>1. market' = [market EXCEPT ![k] = [market[k] EXCEPT !.st = "accepted"]]
        BY <1>5 DEF SubmitNew
    <3>2. market[k] \in [st : Statuses, qty : Nat] /\ market[k].st = "none"
        BY <1>5 DEF SubmitNew, IInv, TypeOK
    <3>3. /\ [market[k] EXCEPT !.st = "accepted"] \in [st : Statuses, qty : Nat]
          /\ [market[k] EXCEPT !.st = "accepted"].st = "accepted"
        BY <3>2
    <3>4. market \in [Orders -> [st : Statuses, qty : Nat]]
        BY DEF IInv, TypeOK
    <3> QED BY <3>1, <3>2, <3>3, <3>4
  <2>2. pc' \in [Runs -> Steps] /\ HandIsOrder' /\ FillKnown'
      BY <1>1, <1>2, <1>5, TakeUp DEF SubmitNew, dbVars
  <2>3. posted' \in Seq(Orders)
      BY <1>5 DEF SubmitNew, IInv, TypeOK
  <2>4. TypeOK'
      BY <1>1, <1>2, <2>1, <2>2, <2>3 DEF IInv, TypeOK, dbVars, txVars
  <2>5. FillsListed'
      BY <1>1, <2>1 DEF IInv, FillsListed
  <2>6. (NoPhantomFill /\ SavedIsStored)'
      BY <1>1, <2>1 DEF IInv, NoPhantomFill, SavedIsStored, dbVars
  <2>7. MemoryTrue'
      BY <1>1, <2>1 DEF IInv, MemoryTrue, True
  <2>8. (RowsSettled /\ PendSettled)'
      BY <1>1, <2>1 DEF IInv, RowsSettled, PendSettled, True, Settled, dbVars,
                        txVars
  <2> QED BY <2>2, <2>4, <2>5, <2>6, <2>7, <2>8 DEF IInv
<1> QED BY <1>3, <1>4, <1>5 DEF Submit

\* Passing over a stored fill preserves the invariant.
LEMMA AlreadyStoredIInv ==
    ASSUME IInv, NEW r \in Runs, AlreadyStored(r)
    PROVE  IInv'
<1>1. cur[r] \in Orders /\ dbExec[cur[r]] > 0
    BY DEF AlreadyStored, IInv, HandIsOrder, InHand, SavedIsStored
<1>2. pc' \in [Runs -> Steps] /\ HandIsOrder' /\ FillKnown'
    BY <1>1, KeepInHand DEF AlreadyStored, dbVars
<1>3. TypeOK'
    BY <1>2 DEF AlreadyStored, IInv, TypeOK, brokerVars, dbVars, txVars
<1> QED BY <1>2, <1>3, ControlStep DEF AlreadyStored, brokerVars, dbVars, txVars

-----------------------------------------------------------------------------
(* Leaving a run.                                                          *)

\* A run that leaves holds nothing that could be wrong.
LEMMA LeaveTyped ==
    ASSUME IInv, NEW r \in Runs, Leave(r), UNCHANGED <<brokerVars, dbExec>>,
           dbOrder' \in [Orders -> Row], RowsSettled', snap' \in [Tickers -> Int]
    PROVE  IInv'
<1> USE DEF IInv, TypeOK, Leave
<1>1. [k \in Orders |-> NoRow] \in [Orders -> Row] /\ NoRow.st = "none"
    BY DEF NoRow, Row
<1>2. /\ pend' \in [Runs -> [Orders -> Row]]
      /\ mem' \in [Runs -> [Orders -> Row]]
      /\ \A q \in Runs, k \in Orders :
            /\ pend'[q][k] = IF q = r THEN NoRow ELSE pend[q][k]
            /\ mem'[q][k] = IF q = r THEN NoRow ELSE mem[q][k]
    BY <1>1
<1>3. sync' \in [Runs -> [start : Nat, asOf : Nat, persist : BOOLEAN,
                          seen : [Tickers -> Int]]]
    BY DEF Idle, Flat
<1>4. /\ left' \in [Runs -> 0..MaxDecisions]
      /\ cur' \in [Runs -> Orders \cup {NoOrder}]
      /\ pendSnap' \in [Runs -> [Tickers -> Int] \cup {NoSnap}]
      /\ todo' \in [Runs -> SUBSET [key : Orders, linked : BOOLEAN]]
      /\ saved' \in [Runs -> SUBSET Orders]
      /\ pc' = [pc EXCEPT ![r] = "idle"]
    BY DEF Goto
<1>5. pc' \in [Runs -> Steps]
    BY <1>4 DEF Steps
<1>6. TypeOK'
    BY <1>2, <1>3, <1>4, <1>5 DEF brokerVars
<1>7. (FillsListed /\ NoPhantomFill)'
    BY DEF FillsListed, NoPhantomFill, brokerVars
<1>8. (MemoryTrue /\ PendSettled)'
  <2>1. MemoryTrue /\ PendSettled /\ market' = market /\ dbExec' = dbExec
      BY DEF brokerVars
  <2> HIDE DEF IInv, TypeOK, Leave
  <2>2. MemoryTrue'
      BY <1>1, <1>2, <2>1 DEF MemoryTrue, True
  <2>3. PendSettled'
      BY <1>1, <1>2, <2>1 DEF PendSettled, True, Settled
  <2> QED BY <2>2, <2>3
<1>9. SavedIsStored'
    BY DEF SavedIsStored
<1>10. HandIsOrder'
    BY <1>4 DEF HandIsOrder, InHand
<1>11. FillKnown'
  <2> SUFFICES ASSUME NEW q \in Runs, q # r
               PROVE  pc'[q] = pc[q] /\ cur'[q] = cur[q] /\ mem'[q] = mem[q]
      BY <1>4 DEF FillKnown
  <2> QED BY <1>4
<1> QED BY <1>6, <1>7, <1>8, <1>9, <1>10, <1>11

\* Commit, rollback and crash preserve the invariant.
LEMMA LeaveActions ==
    ASSUME IInv, NEW r \in Runs, Commit(r) \/ Rollback(r) \/ Crash(r)
    PROVE  IInv'
<1>1. CASE Commit(r)
  <2>1. dbOrder' \in [Orders -> Row] /\ snap' \in [Tickers -> Int]
      BY <1>1 DEF Commit, Visible, IInv, TypeOK
  <2>2. RowsSettled'
      BY <1>1 DEF Commit, Visible, IInv, RowsSettled, PendSettled, Settled,
                  True, brokerVars
  <2> QED BY <1>1, <2>1, <2>2, LeaveTyped DEF Commit
<1>2. CASE Rollback(r) \/ Crash(r)
  <2>1. Leave(r) /\ UNCHANGED <<brokerVars, dbVars>>
      BY <1>2 DEF Rollback, Crash
  <2>2. RowsSettled' /\ dbOrder' \in [Orders -> Row] /\ snap' \in [Tickers -> Int]
      BY <2>1 DEF IInv, RowsSettled, Settled, True, brokerVars, dbVars, TypeOK
  <2> QED BY <2>1, <2>2, LeaveTyped DEF dbVars
<1> QED BY <1>1, <1>2

-----------------------------------------------------------------------------
\* Every step of runs and broker preserves the invariant.
LEMMA NextIInv == IInv /\ [Next]_vars => IInv'
<1> SUFFICES ASSUME IInv, [Next]_vars PROVE IInv'
    OBVIOUS
<1>1. ASSUME NEW r \in Runs,
             Start(r) \/ RunStep(r) \/ HttpError(r) \/ Crash(r)
      PROVE  IInv'
    BY <1>1, ControlActions, ReadActions, CheckpointActions, SaveActions,
       SubmitActions, AlreadyStoredIInv, LeaveActions
       DEF RunStep, SyncStep, ExecuteStep
<1>2. ASSUME NEW k \in Orders, BrokerStep(k) PROVE IInv'
    BY <1>2, BrokerStepIInv
<1>3. CASE UNCHANGED vars
    BY <1>3 DEF vars, brokerVars, dbVars, txVars, runVars, IInv, TypeOK,
                HandIsOrder, FillsListed, NoPhantomFill, MemoryTrue,
                RowsSettled, PendSettled, SavedIsStored, FillKnown, True,
                Settled
<1> QED BY <1>1, <1>2, <1>3 DEF Next

\* The invariant holds in every reachable state.
LEMMA Inductive == Spec => []IInv
BY InitIInv, NextIInv, PTL DEF Spec

\* Every variable keeps its type, whatever runs, broker and failures do.
THEOREM TypeCorrect == Spec => []TypeOK
<1>1. IInv => TypeOK
    BY DEF IInv
<1> QED BY Inductive, <1>1, PTL

\* Neither the reconcile loop nor the execution path ever writes an execution
\* row for an order the broker has not filled.
THEOREM NoPhantomFillHolds == Spec => []NoPhantomFill
<1>1. IInv => NoPhantomFill
    BY DEF IInv
<1> QED BY Inductive, <1>1, PTL

\* With any number of concurrent runs, failures and crashes, an order stored
\* with a terminal status whose fill happened has that fill recorded.
THEOREM NoStrandedFillHolds == Spec => []NoStrandedFill
<1>1. IInv => NoStrandedFill
    BY DEF IInv, NoStrandedFill, RowsSettled, Settled, True
<1> QED BY Inductive, <1>1, PTL

-----------------------------------------------------------------------------
(* What a step does, seen from one run and one order at a time.            *)

\* A run keeps its hands off what the other runs hold.
Others(r) ==
    \A q \in Runs \ {r} :
        /\ pc'[q] = pc[q] /\ cur'[q] = cur[q] /\ todo'[q] = todo[q]
        /\ mem'[q] = mem[q] /\ saved'[q] = saved[q] /\ pend'[q] = pend[q]

Evidence == <<market, dbOrder, dbExec>>

\* The row of order k that run r reads after the step.
NewVisible(r, k) == IF pend'[r][k] # NoRow THEN pend'[r][k] ELSE dbOrder'[k]

\* The run loads the orders to reconcile.
Loads(r) ==
    /\ \A o \in todo'[r] :
          /\ o.key \in Orders
          /\ NewVisible(r, o.key).st \notin Terminal \cup {"none"}
          /\ o.linked = NewVisible(r, o.key).linked
    /\ \A o, p \in todo'[r] : o.key = p.key => o = p

\* The run learns the status of order k.
Learns(r, k, linked) ==
    /\ k \in Orders
    /\ UNCHANGED <<Evidence, pend, saved>>
    /\ cur'[r] = k
    /\ \A j \in Orders : mem'[r][j] = IF j = k
                                      THEN [st |-> market[k].st, linked |-> linked]
                                      ELSE mem[r][j]

\* The run stores the execution of the order in hand.
Records(r) ==
    /\ \A j \in Orders : dbExec'[j] = IF j # cur[r] THEN dbExec[j]
                                      ELSE IF dbExec[j] = 0 THEN 1 ELSE 2
    /\ saved'[r] = saved[r] \cup {cur[r]}

\* Steps from which an order may only be lost by a failure.
Executing == {"poll", "refresh", "filled", "unfilled"}

ControlEffect(r) ==
    /\ UNCHANGED <<Evidence, pend, mem, saved>>
    /\ todo'[r] = todo[r]
    /\ \/ /\ pc[r] = "idle" /\ pc'[r] = "started"
          /\ Cardinality({q \in Runs : pc[q] # "idle"}) < MaxActive
       \/ /\ pc[r] # "idle" /\ pc'[r] \in Raised
          /\ pc[r] \in Executing => "http_errors" \in Environment
       \/ pc[r] = "reconcile" /\ pc'[r] = "validate" /\ todo[r] = {}
       \/ pc[r] = "validate" /\ pc'[r] = "decide"
       \/ /\ pc[r] = "filled" /\ pc'[r] = "saveOrder"
          /\ cur'[r] = cur[r] /\ cur[r] \in saved[r]

LoadEffect(r) ==
    /\ UNCHANGED <<Evidence, pend, mem, saved>>
    /\ pc[r] \in {"started", "decide"} /\ pc'[r] = "reconcile"
    /\ Loads(r)

ResubmitEffect(r) ==
    /\ UNCHANGED <<Evidence, pend, mem, saved>>
    /\ todo'[r] = todo[r]
    /\ cur'[r] \in Orders /\ mem[r][cur'[r]] # NoRow
    /\ market[cur'[r]].st = "none" \/ "repeats" \in Environment
    /\ pc[r] = "decide"
    /\ \/ pc'[r] = "filled" /\ mem[r][cur'[r]].st = "filled"
       \/ pc'[r] = "refresh" /\ mem[r][cur'[r]].st # "filled"

SubmitEffect(r, k) ==
    /\ UNCHANGED <<dbOrder, dbExec, pend, mem, saved>>
    /\ todo'[r] = todo[r]
    /\ pc[r] = "decide" /\ pc'[r] = "poll" /\ cur'[r] = k
    /\ mem[r][k] = NoRow /\ market[k].st = "none"
    /\ market'[k].st = "accepted"
    /\ \A j \in Orders \ {k} : market'[j] = market[j]

ReconcileEffect(r, o) ==
    /\ Learns(r, o.key, o.linked)
    /\ todo'[r] = todo[r] \ {o}
    /\ pc[r] = "reconcile"
    /\ IF market[o.key].st = "filled" /\ dbExec[o.key] = 0
       THEN pc'[r] = "recordLate" ELSE pc'[r] = "saveLate"

ReadEffect(r) ==
    /\ todo'[r] = todo[r]
    /\ \/ /\ pc[r] = "poll" /\ pc'[r] \in {"filled", "refresh"}
          /\ Learns(r, cur[r], TRUE)
       \/ /\ pc[r] = "refresh" /\ pc'[r] \in {"filled", "unfilled"}
          /\ Learns(r, cur[r], mem[r][cur[r]].linked)
    /\ pc'[r] = "filled" <=> market[cur[r]].st = "filled"

CheckpointEffect(r) ==
    /\ UNCHANGED <<market, pend, mem, cur, todo>>
    /\ cur[r] \in Orders
    /\ CheckpointFree(r, cur[r])
    /\ \A j \in Orders : dbOrder'[j] = IF j = cur[r] THEN CheckpointRow(r, j)
                                       ELSE dbOrder[j]
    /\ \/ pc[r] = "unfilled" /\ pc'[r] = "saveOrder" /\ UNCHANGED <<dbExec, saved>>
       \/ pc[r] = "recordLate" /\ pc'[r] = "saveLate" /\ Records(r)
       \/ /\ pc[r] = "filled" /\ cur[r] \notin saved[r]
          /\ pc'[r] = "saveFill" /\ Records(r)

SaveEffect(r) ==
    /\ UNCHANGED <<Evidence, mem, saved, cur>>
    /\ cur[r] \in Orders
    /\ \/ UNCHANGED pend /\ Visible(r, cur[r]) = mem[r][cur[r]]
       \/ /\ Holders(cur[r]) \subseteq {r}
          /\ \A j \in Orders : pend'[r][j] = IF j = cur[r] THEN mem[r][j]
                                             ELSE pend[r][j]
    /\ \/ pc[r] = "saveLate" /\ pc'[r] = "reconcile" /\ todo'[r] = todo[r]
       \/ pc[r] = "saveOrder" /\ pc'[r] = "decide" /\ todo'[r] = todo[r]
       \/ pc[r] = "saveFill" /\ pc'[r] = "reconcile" /\ Loads(r)

LeaveEffect(r) ==
    /\ UNCHANGED <<market, dbExec>>
    /\ pc[r] # "idle" /\ pc'[r] = "idle"
    /\ todo'[r] = {} /\ saved'[r] = {}
    /\ \A j \in Orders : mem'[r][j] = NoRow /\ pend'[r][j] = NoRow
    /\ \/ /\ UNCHANGED dbOrder
          /\ pc[r] \in Executing => "crashes" \in Environment
       \/ pc[r] = "decide" /\ \A j \in Orders : dbOrder'[j] = Visible(r, j)

RunEffect(r) ==
    /\ Others(r)
    /\ \/ ControlEffect(r) \/ LoadEffect(r) \/ ResubmitEffect(r)
       \/ \E k \in Orders : SubmitEffect(r, k)
       \/ \E o \in todo[r] : ReconcileEffect(r, o)
       \/ ReadEffect(r) \/ CheckpointEffect(r) \/ SaveEffect(r)
       \/ LeaveEffect(r)

BrokerEffect(k) ==
    /\ UNCHANGED <<dbOrder, dbExec, pend, pc, cur, todo, mem, saved>>
    /\ MarketMoves
    /\ market[k].st \in {"accepted", "partially_filled"}
    /\ market'[k].st \in {"partially_filled", "filled", "canceled"}
    /\ \A j \in Orders \ {k} : market'[j] = market[j]

StillEffect ==
    UNCHANGED <<Evidence, pend, pc, cur, todo, mem, saved>>

\* A checkpoint writes the status the run knows and keeps the links.
LEMMA CheckpointWrites ==
    ASSUME NEW r \in Runs, CheckpointEffect(r)
    PROVE  /\ \A k \in Orders \ {cur[r]} : dbOrder'[k] = dbOrder[k]
           /\ dbOrder'[cur[r]].st = mem[r][cur[r]].st
           /\ dbOrder'[cur[r]].linked = dbOrder[cur[r]].linked
<1>1. /\ CheckpointRow(r, cur[r]).st = mem[r][cur[r]].st
      /\ CheckpointRow(r, cur[r]).linked = dbOrder[cur[r]].linked
    BY DEF CheckpointRow
<1> QED BY <1>1 DEF CheckpointEffect

\* The orders that a run loads are each loaded once, with the row it reads.
LEMMA RefreshableLoads ==
    ASSUME NEW r \in Runs, todo \in [Runs -> SUBSET [key : Orders, linked : BOOLEAN]],
           \/ todo' = [todo EXCEPT ![r] = Refreshable(r)] /\ UNCHANGED <<pend, dbOrder>>
           \/ todo' = [todo EXCEPT ![r] = Refreshable(r)']
    PROVE  Loads(r)
<1> DEFINE row(k) == NewVisible(r, k)
           open == {j \in Orders : row(j).st \notin Terminal \cup {"none"}}
<1>1. todo'[r] = {[key |-> k, linked |-> row(k).linked] : k \in open}
  <2>1. CASE todo' = [todo EXCEPT ![r] = Refreshable(r)] /\ UNCHANGED <<pend, dbOrder>>
    <3>1. todo'[r] = Refreshable(r)
        BY <2>1
    <3>2. \A k : Visible(r, k) = row(k)
        BY <2>1 DEF Visible, NewVisible
    <3> HIDE DEF row
    <3> QED BY <3>1, <3>2 DEF Refreshable
  <2>2. CASE todo' = [todo EXCEPT ![r] = Refreshable(r)']
    <3>1. todo'[r] = Refreshable(r)'
        BY <2>2
    <3> QED BY <3>1 DEF Refreshable, Visible, NewVisible
  <2> QED BY <2>1, <2>2
<1> HIDE DEF row
<1>2. \A o \in todo'[r] : /\ o.key \in open
                          /\ o = [key |-> o.key, linked |-> row(o.key).linked]
    BY <1>1
<1>3. \A o \in todo'[r] : /\ o.key \in Orders
                          /\ row(o.key).st \notin Terminal \cup {"none"}
                          /\ o.linked = row(o.key).linked
    BY <1>2
<1>4. \A o, p \in todo'[r] : o.key = p.key => o = p
    BY <1>2
<1> QED BY <1>3, <1>4 DEF Loads, row


\* Every step of a run has one of these effects.
LEMMA RunStepEffect ==
    ASSUME IInv, NEW r \in Runs,
           Start(r) \/ RunStep(r) \/ HttpError(r) \/ Crash(r)
    PROVE  RunEffect(r)
<1> USE DEF brokerVars, dbVars, txVars, Goto, Evidence
<1>0. /\ pc \in [Runs -> Steps] /\ cur \in [Runs -> Orders \cup {NoOrder}]
      /\ todo \in [Runs -> SUBSET [key : Orders, linked : BOOLEAN]]
      /\ mem \in [Runs -> [Orders -> Row]] /\ pend \in [Runs -> [Orders -> Row]]
      /\ saved \in [Runs -> SUBSET Orders]
      /\ dbOrder \in [Orders -> Row] /\ dbExec \in [Orders -> 0..2]
      /\ market \in [Orders -> [st : Statuses, qty : Nat]]
    BY DEF IInv, TypeOK
<1>h. pc[r] \in InHand => cur[r] \in Orders
    BY DEF IInv, HandIsOrder
<1>1. CASE \/ Start(r) \/ FetchPositions(r) \/ AcceptSync(r) \/ RejectSync(r)
           \/ RejectAmbiguous(r) \/ HttpError(r) \/ AlreadyStored(r)
  <2>1. Others(r)
      BY <1>0, <1>1 DEF Others, Start, FetchPositions, AcceptSync, RejectSync,
             RejectAmbiguous, HttpError, AlreadyStored
  <2>2. ControlEffect(r)
      BY <1>0, <1>1 DEF ControlEffect, Start, FetchPositions, AcceptSync, RejectSync,
             RejectAmbiguous, HttpError, AlreadyStored, Refreshes, Raised, Executing
  <2> QED BY <2>1, <2>2 DEF RunEffect
<1>2. CASE FirstSync(r) \/ ReapproveFallback(r)
  <2>1. Others(r)
      BY <1>0, <1>2 DEF Others, FirstSync, ReapproveFallback, BeginSync
  <2>2. Loads(r)
      BY <1>0, <1>2, RefreshableLoads DEF FirstSync, ReapproveFallback
  <2>3. LoadEffect(r)
      BY <1>0, <1>2, <2>2 DEF LoadEffect, FirstSync, ReapproveFallback, BeginSync
  <2> QED BY <2>1, <2>3 DEF RunEffect
<1>3. ASSUME NEW k \in Orders, Submit(r, k) PROVE RunEffect(r)
  <2>1. /\ cur'[r] = k /\ \A q \in Runs \ {r} : cur'[q] = cur[q]
        /\ pc[r] = "decide"
        /\ market[k].st = "none" \/ "repeats" \in Environment
      BY <1>0, <1>3 DEF Submit, SubmitCached, SubmitNew, SubmitDuplicate,
             RejectLocally, NextDecision
  <2>2. Others(r)
      BY <1>0, <1>3, <2>1 DEF Others, Submit, SubmitCached, SubmitNew,
             SubmitDuplicate, RejectLocally
  <2>3. CASE SubmitCached(r, k)
      BY <1>0, <2>1, <2>2, <2>3 DEF SubmitCached, RunEffect, ResubmitEffect
  <2>4. CASE SubmitNew(r, k)
    <3>1. market' = [market EXCEPT ![k] = [market[k] EXCEPT !.st = "accepted"]]
        BY <2>4 DEF SubmitNew
    <3>2. [market[k] EXCEPT !.st = "accepted"].st = "accepted"
        BY <1>0
    <3>3. SubmitEffect(r, k)
        BY <1>0, <2>1, <2>4, <3>1, <3>2 DEF SubmitNew, SubmitEffect
    <3> QED BY <2>2, <3>3 DEF RunEffect
  <2>5. CASE SubmitDuplicate(r, k) \/ RejectLocally(r, k)
      BY <1>0, <2>1, <2>2, <2>5 DEF SubmitDuplicate, RejectLocally, RunEffect,
             ControlEffect, Raised, Executing
  <2> QED BY <1>3, <2>3, <2>4, <2>5 DEF Submit
<1>4. CASE ReconcileOrder(r)
  <2>1. PICK o \in todo[r] :
          /\ pc[r] = "reconcile"
          /\ mem' = [mem EXCEPT ![r][o.key] = [st |-> market[o.key].st,
                                               linked |-> o.linked]]
          /\ cur' = [cur EXCEPT ![r] = o.key]
          /\ todo' = [todo EXCEPT ![r] = @ \ {o}]
          /\ pc' = [pc EXCEPT ![r] = IF market[o.key].st = "filled" /\ dbExec[o.key] = 0
                                     THEN "recordLate" ELSE "saveLate"]
          /\ UNCHANGED <<Evidence, pend, saved>>
      BY <1>4 DEF ReconcileOrder, Refreshes
  <2>2. o.key \in Orders
      BY <1>0
  <2>3. Others(r)
      BY <1>0, <2>1, <2>2 DEF Others
  <2>4. Learns(r, o.key, o.linked)
      BY <1>0, <2>1, <2>2 DEF Learns
  <2>5. ReconcileEffect(r, o)
      BY <1>0, <2>1, <2>4 DEF ReconcileEffect
  <2> QED BY <2>3, <2>5 DEF RunEffect
<1>5. CASE Poll(r) \/ RefreshSubmitted(r)
  <2> DEFINE k == cur[r]
  <2>1. k \in Orders /\ UNCHANGED <<Evidence, pend, saved, cur, todo>>
      BY <1>h, <1>5 DEF Poll, RefreshSubmitted, InHand
  <2>2. CASE Poll(r)
    <3>1. mem' = [mem EXCEPT ![r][k] = [st |-> market[k].st, linked |-> TRUE]]
        BY <2>2 DEF Poll
    <3> HIDE DEF k
    <3>2. Learns(r, k, TRUE)
        BY <1>0, <2>1, <3>1 DEF Learns, k
    <3>3. Others(r)
        BY <1>0, <2>1, <2>2, <3>1 DEF Others, Poll
    <3>4. ReadEffect(r)
        BY <1>0, <2>1, <2>2, <3>2 DEF ReadEffect, Poll, k
    <3> QED BY <3>3, <3>4 DEF RunEffect
  <2>3. CASE RefreshSubmitted(r)
    <3>1. mem' = [mem EXCEPT ![r][k] = [mem[r][k] EXCEPT !.st = market[k].st]]
        BY <2>3 DEF RefreshSubmitted
    <3>2. [mem[r][k] EXCEPT !.st = market[k].st]
             = [st |-> market[k].st, linked |-> mem[r][k].linked]
      <4>1. mem[r][k] \in Row
          BY <1>0, <2>1
      <4> QED BY <4>1 DEF Row
    <3> HIDE DEF k
    <3>3. Learns(r, k, mem[r][k].linked)
        BY <1>0, <2>1, <3>1, <3>2 DEF Learns, k
    <3>4. Others(r)
        BY <1>0, <2>1, <2>3, <3>1 DEF Others, RefreshSubmitted
    <3>5. ReadEffect(r)
        BY <1>0, <2>1, <2>3, <3>3 DEF ReadEffect, RefreshSubmitted, k
    <3> QED BY <3>4, <3>5 DEF RunEffect
  <2> QED BY <1>5, <2>2, <2>3
<1>6. CASE RecordLateFill(r) \/ CheckpointOrder(r) \/ CheckpointFill(r)
  <2> DEFINE k == cur[r]
  <2>1. /\ k \in Orders /\ Checkpoint(r, k)
        /\ UNCHANGED <<market, pend, mem, cur, todo>>
      BY <1>h, <1>6 DEF RecordLateFill, CheckpointOrder, CheckpointFill, InHand
  <2>2. \/ UNCHANGED <<dbExec, saved>> /\ CheckpointOrder(r)
        \/ RecordExecution(r, k) /\ (RecordLateFill(r) \/ CheckpointFill(r))
      BY <1>6 DEF RecordLateFill, CheckpointOrder, CheckpointFill
  <2>3. Others(r)
      BY <1>0, <1>6, <2>1, <2>2 DEF Others, RecordLateFill, CheckpointOrder,
             CheckpointFill, RecordExecution
  <2>4. /\ CheckpointFree(r, k)
        /\ \A j \in Orders : dbOrder'[j] = IF j = k THEN CheckpointRow(r, j)
                                           ELSE dbOrder[j]
      BY <1>0, <2>1 DEF Checkpoint
  <2>5. RecordExecution(r, k) => Records(r)
      BY <1>0, <2>1 DEF RecordExecution, Records
  <2>6. CheckpointEffect(r)
      BY <1>0, <2>1, <2>2, <2>4, <2>5 DEF CheckpointEffect, RecordLateFill,
             CheckpointOrder, CheckpointFill
  <2> QED BY <2>3, <2>6 DEF RunEffect
<1>7. CASE SaveReconciled(r) \/ SaveSubmitted(r) \/ SaveFillAndSync(r)
  <2> DEFINE k == cur[r]
  <2>1. /\ k \in Orders /\ SaveOrder(r, k)
        /\ UNCHANGED <<Evidence, mem, saved, cur>>
      BY <1>h, <1>7 DEF SaveReconciled, SaveSubmitted, SaveFillAndSync, InHand
  <2>2. /\ \A q \in Runs \ {r} : pend'[q] = pend[q]
        /\ \/ UNCHANGED pend /\ Visible(r, k) = mem[r][k]
           \/ /\ Holders(k) \subseteq {r}
              /\ \A j \in Orders : pend'[r][j] = IF j = k THEN mem[r][j]
                                                 ELSE pend[r][j]
    <3> HIDE DEF k
    <3> QED BY <1>0, <2>1 DEF SaveOrder
  <2>3. Others(r)
      BY <1>0, <1>7, <2>1, <2>2 DEF Others, SaveReconciled, SaveSubmitted,
             SaveFillAndSync, BeginSync
  <2>4. SaveFillAndSync(r) => Loads(r)
      BY <1>0, RefreshableLoads DEF SaveFillAndSync
  <2>5. SaveEffect(r)
      BY <1>0, <1>7, <2>1, <2>2, <2>4 DEF SaveEffect, SaveReconciled,
             SaveSubmitted, SaveFillAndSync, BeginSync
  <2> QED BY <2>3, <2>5 DEF RunEffect
<1>8. CASE Commit(r) \/ Rollback(r) \/ Crash(r)
  <2>1. /\ Leave(r) /\ pc[r] # "idle" /\ UNCHANGED <<market, dbExec>>
        /\ \/ dbOrder' = dbOrder /\ (pc[r] \in Executing => "crashes" \in Environment)
           \/ pc[r] = "decide" /\ dbOrder' = [k \in Orders |-> Visible(r, k)]
      BY <1>8 DEF Commit, Rollback, Crash, Raised, Executing
  <2>2. Others(r)
      BY <1>0, <2>1 DEF Others, Leave
  <2>3. LeaveEffect(r)
      BY <1>0, <2>1 DEF LeaveEffect, Leave
  <2> QED BY <2>2, <2>3 DEF RunEffect
<1> QED BY <1>1, <1>2, <1>3, <1>4, <1>5, <1>6, <1>7, <1>8
        DEF RunStep, SyncStep, ExecuteStep

\* Every step of the broker moves one open order.
LEMMA BrokerStepEffect ==
    ASSUME IInv, NEW k \in Orders, BrokerStep(k)
    PROVE  BrokerEffect(k)
<1>0. market \in [Orders -> [st : Statuses, qty : Nat]]
    BY DEF IInv, TypeOK
<1>1. CASE PartialFill(k)
    BY <1>0, <1>1 DEF PartialFill, FillUpTo, BrokerEffect, dbVars, txVars, runVars
<1>2. CASE Fill(k)
    BY <1>0, <1>2 DEF Fill, FillUpTo, BrokerEffect, dbVars, txVars, runVars
<1>3. CASE Cancel(k)
  <2>1. market' = [market EXCEPT ![k] = [market[k] EXCEPT !.st = "canceled"]]
      BY <1>3 DEF Cancel
  <2>2. [market[k] EXCEPT !.st = "canceled"].st = "canceled"
      BY <1>0
  <2> QED BY <1>0, <1>3, <2>1, <2>2 DEF Cancel, BrokerEffect, dbVars, txVars, runVars
<1> QED BY <1>1, <1>2, <1>3 DEF BrokerStep

\* Every step has one of these effects.
LEMMA StepEffect ==
    IInv /\ [Next]_vars => \/ \E r \in Runs : RunEffect(r)
                           \/ \E k \in Orders : BrokerEffect(k)
                           \/ StillEffect
<1>1. UNCHANGED vars => StillEffect
    BY DEF vars, brokerVars, dbVars, txVars, runVars, StillEffect, Evidence
<1> QED BY <1>1, RunStepEffect, BrokerStepEffect DEF Next

-----------------------------------------------------------------------------
(* What every environment leaves in order: rows speak of orders the broker *)
(* has, a run takes each loaded order once, an idle run holds nothing.     *)

\* A row is no row, or one of an order that the broker has accepted.
Known(row, k) == row = NoRow \/ (row.st # "none" /\ market[k].st # "none")

RowsPosted ==
    /\ \A k \in Orders : Known(dbOrder[k], k)
    /\ \A k \in Orders : dbExec[k] > 0 => dbOrder[k].st # "none"
    /\ \A r \in Runs, k \in Orders : Known(pend[r][k], k) /\ Known(mem[r][k], k)
    /\ \A r \in Runs : \A o \in todo[r] : market[o.key].st # "none"

HandPosted ==
    \A r \in Runs :
        /\ pc[r] = "poll" => market[cur[r]].st # "none"
        /\ pc[r] \in InHand \ {"poll"} => mem[r][cur[r]] # NoRow

\* Steps at which orders may be left to reconcile.
Reconciling == Raised \cup {"reconcile", "recordLate", "saveLate"}

TodoShape ==
    \A r \in Runs :
        /\ pc[r] \notin Reconciling => todo[r] = {}
        /\ \A o, p \in todo[r] : o.key = p.key => o = p
        /\ pc[r] \in {"recordLate", "saveLate"} =>
               \A o \in todo[r] : o.key # cur[r]

IdleEmpty ==
    \A r \in Runs :
        pc[r] = "idle" =>
            /\ \A k \in Orders : mem[r][k] = NoRow /\ pend[r][k] = NoRow
            /\ todo[r] = {} /\ saved[r] = {}

Books == RowsPosted /\ HandPosted /\ TodoShape /\ IdleEmpty

\* What the broker has accepted it never forgets.
LEMMA StaysPosted ==
    ASSUME IInv, [Next]_vars
    PROVE  \A k \in Orders : market[k].st # "none" => market'[k].st # "none"
<1>1. \/ \E r \in Runs : RunEffect(r)
      \/ \E k \in Orders : BrokerEffect(k)
      \/ StillEffect
    BY StepEffect
<1>2. ASSUME NEW r \in Runs, RunEffect(r)
      PROVE  \A k \in Orders : market[k].st # "none" => market'[k].st # "none"
  <2>1. UNCHANGED market \/ \E k \in Orders : SubmitEffect(r, k)
      BY <1>2 DEF RunEffect, ControlEffect, LoadEffect, ResubmitEffect,
             ReconcileEffect, ReadEffect, Learns, CheckpointEffect, SaveEffect,
             LeaveEffect, Evidence
  <2> QED BY <2>1 DEF SubmitEffect
<1> QED BY <1>1, <1>2 DEF BrokerEffect, StillEffect, Evidence

\* It is enough that what the run itself writes and loads is posted.
LEMMA RowsPostedOthers ==
    ASSUME IInv, RowsPosted, NEW r \in Runs, Others(r),
           \A k \in Orders : market[k].st # "none" => market'[k].st # "none",
           \A k \in Orders : Known(dbOrder'[k], k),
           \A k \in Orders : dbExec'[k] > 0 => dbOrder'[k].st # "none",
           \A k \in Orders : Known(pend'[r][k], k) /\ Known(mem'[r][k], k),
           \A o \in todo'[r] : o.key \in Orders /\ market[o.key].st # "none"
    PROVE  RowsPosted'
<1>1. \A row : \A k \in Orders :
        row = NoRow \/ (row.st # "none" /\ market[k].st # "none")
          => row = NoRow \/ (row.st # "none" /\ market'[k].st # "none")
    OBVIOUS
<1>2. \A k \in Orders : Known(dbOrder[k], k)'
    BY <1>1 DEF Known
<1>3. \A q \in Runs, k \in Orders : Known(pend[q][k], k)' /\ Known(mem[q][k], k)'
  <2>1. ASSUME NEW q \in Runs, NEW k \in Orders
        PROVE  Known(pend'[q][k], k) /\ Known(mem'[q][k], k)
      BY DEF RowsPosted, Others
  <2> QED BY <1>1, <2>1 DEF Known
<1>4. \A q \in Runs : \A o \in todo'[q] : market'[o.key].st # "none"
  <2>1. ASSUME NEW q \in Runs, NEW o \in todo'[q]
        PROVE  o.key \in Orders /\ market[o.key].st # "none"
    <3>1. CASE q # r
      <4>1. o \in todo[q]
          BY <3>1 DEF Others
      <4>2. o.key \in Orders
          BY <4>1 DEF IInv, TypeOK
      <4> QED BY <4>1, <4>2 DEF RowsPosted
    <3> QED BY <3>1
  <2> QED BY <2>1
<1> QED BY <1>2, <1>3, <1>4 DEF RowsPosted

\* The rows a run's step writes are of orders the broker has accepted.
LEMMA RowsPostedStep ==
    ASSUME IInv, Books, NEW r \in Runs, RunEffect(r),
           \A k \in Orders : market[k].st # "none" => market'[k].st # "none"
    PROVE  RowsPosted'
<1> DEFINE Posted(row, k) == row.st # "none" /\ market[k].st # "none"
<1>0. /\ todo \in [Runs -> SUBSET [key : Orders, linked : BOOLEAN]]
      /\ dbExec \in [Orders -> 0..2]
      /\ Others(r)
    BY DEF IInv, TypeOK, RunEffect
<1>a. /\ \A k \in Orders : Known(dbOrder[k], k)
      /\ \A k \in Orders : dbExec[k] > 0 => dbOrder[k].st # "none"
      /\ \A k \in Orders : Known(pend[r][k], k) /\ Known(mem[r][k], k)
      /\ \A o \in todo[r] : o.key \in Orders /\ market[o.key].st # "none"
    BY <1>0 DEF Books, RowsPosted
<1>b. \A row : \A k \in Orders : Posted(row, k) => Known(row, k)
    BY DEF Known
<1>c. \A row : \A k \in Orders : Known(row, k) /\ row # NoRow => Posted(row, k)
    BY DEF Known
<1>1. CASE \/ ControlEffect(r) \/ ResubmitEffect(r)
           \/ \E k \in Orders : SubmitEffect(r, k)
  <2>1. UNCHANGED <<dbOrder, dbExec, pend, mem>> /\ todo'[r] = todo[r]
      BY <1>1 DEF ControlEffect, ResubmitEffect, SubmitEffect, Evidence
  <2> QED BY <1>0, <1>a, <2>1, RowsPostedOthers DEF Books
<1>l. ASSUME Loads(r), \A k \in Orders : Known(dbOrder'[k], k),
             \A k \in Orders : Known(pend'[r][k], k)
      PROVE  \A o \in todo'[r] : o.key \in Orders /\ market[o.key].st # "none"
    BY <1>l DEF Loads, NewVisible, Known, NoRow
<1>2. CASE LoadEffect(r)
  <2>1. UNCHANGED <<dbOrder, dbExec, pend, mem>> /\ Loads(r)
      BY <1>2 DEF LoadEffect, Evidence
  <2>2. \A o \in todo'[r] : o.key \in Orders /\ market[o.key].st # "none"
      BY <1>a, <1>l, <2>1
  <2> QED BY <1>0, <1>a, <2>1, <2>2, RowsPostedOthers DEF Books
<1>r. ASSUME NEW j \in Orders, NEW linked, Learns(r, j, linked), todo'[r] \subseteq todo[r],
             market[j].st # "none"
      PROVE  RowsPosted'
  <2>1. /\ UNCHANGED <<dbOrder, dbExec, pend>>
        /\ \A k \in Orders : mem'[r][k] = IF k = j
                               THEN [st |-> market[j].st, linked |-> linked]
                               ELSE mem[r][k]
      BY <1>r DEF Learns, Evidence
  <2>2. \A k \in Orders : Known(mem'[r][k], k)
    <3>1. Posted([st |-> market[j].st, linked |-> linked], j)
        BY <1>r
    <3> QED BY <1>a, <1>b, <2>1, <3>1
  <2> QED BY <1>0, <1>a, <1>r, <2>1, <2>2, RowsPostedOthers DEF Books
<1>3. ASSUME NEW o \in todo[r], ReconcileEffect(r, o) PROVE RowsPosted'
    BY <1>a, <1>r, <1>3 DEF ReconcileEffect
<1>4. CASE ReadEffect(r)
  <2>1. cur[r] \in Orders /\ market[cur[r]].st # "none"
      BY <1>4 DEF ReadEffect, Learns, Books, HandPosted, RowsPosted, Known, InHand
  <2> QED BY <1>r, <1>4, <2>1 DEF ReadEffect
<1>5. CASE CheckpointEffect(r)
  <2>1. Posted(mem[r][cur[r]], cur[r]) /\ cur[r] \in Orders
      BY <1>a, <1>c, <1>5 DEF CheckpointEffect, Books, HandPosted, InHand
  <2>2. /\ \A k \in Orders \ {cur[r]} : dbOrder'[k] = dbOrder[k]
        /\ dbOrder'[cur[r]].st = mem[r][cur[r]].st
      BY <1>5, CheckpointWrites
  <2>3. \A k \in Orders : Known(dbOrder'[k], k)
      BY <1>a, <1>b, <2>1, <2>2
  <2>4. \A k \in Orders \ {cur[r]} : dbExec'[k] = dbExec[k]
      BY <1>5 DEF CheckpointEffect, Records
  <2>5. \A k \in Orders : dbExec'[k] > 0 => dbOrder'[k].st # "none"
      BY <1>a, <2>1, <2>2, <2>4
  <2>6. UNCHANGED <<pend, mem, todo>>
      BY <1>5 DEF CheckpointEffect
  <2> QED BY <1>0, <1>a, <2>3, <2>5, <2>6, RowsPostedOthers DEF Books
<1>6. CASE SaveEffect(r)
  <2>1. UNCHANGED <<dbOrder, dbExec, mem>>
      BY <1>6 DEF SaveEffect, Evidence
  <2>2. \A k \in Orders : Known(pend'[r][k], k)
      BY <1>a, <1>6 DEF SaveEffect
  <2>3. todo'[r] = todo[r] \/ Loads(r)
      BY <1>6 DEF SaveEffect
  <2>4. \A o \in todo'[r] : o.key \in Orders /\ market[o.key].st # "none"
      BY <1>a, <1>l, <2>1, <2>2, <2>3
  <2> QED BY <1>0, <1>a, <2>1, <2>2, <2>4, RowsPostedOthers DEF Books
<1>7. CASE LeaveEffect(r)
  <2>1. \A k \in Orders : dbOrder'[k] = dbOrder[k] \/ dbOrder'[k] = Visible(r, k)
      BY <1>7 DEF LeaveEffect
  <2>2. \A k \in Orders :
           dbOrder'[k] = dbOrder[k] \/ (dbOrder'[k] = pend[r][k] /\ pend[r][k] # NoRow)
      BY <2>1 DEF Visible
  <2>3. \A k \in Orders : Known(dbOrder'[k], k)
      BY <1>a, <2>2
  <2>4. \A k \in Orders : dbExec'[k] > 0 => dbOrder'[k].st # "none"
      BY <1>a, <1>c, <1>7, <2>2 DEF LeaveEffect
  <2>5. \A k \in Orders : Known(pend'[r][k], k) /\ Known(mem'[r][k], k)
      BY <1>7 DEF LeaveEffect, Known
  <2>6. todo'[r] = {}
      BY <1>7 DEF LeaveEffect
  <2> QED BY <1>0, <2>3, <2>4, <2>5, <2>6, RowsPostedOthers DEF Books
<1> QED BY <1>0, <1>1, <1>2, <1>3, <1>4, <1>5, <1>6, <1>7 DEF RunEffect

\* A run turns to an order only when the broker has it.
LEMMA HandPostedStep ==
    ASSUME IInv, Books, NEW r \in Runs, RunEffect(r),
           \A k \in Orders : market[k].st # "none" => market'[k].st # "none"
    PROVE  HandPosted'
<1> USE DEF Books, InHand
<1>0. /\ pc \in [Runs -> Steps]
      /\ mem \in [Runs -> [Orders -> Row]]
      /\ \A q \in Runs : pc[q] \in InHand => cur[q] \in Orders
    BY DEF IInv, TypeOK, HandIsOrder
<1>1. ASSUME NEW q \in Runs \ {r}
      PROVE  /\ pc'[q] = "poll" => market'[cur'[q]].st # "none"
             /\ pc'[q] \in InHand \ {"poll"} => mem'[q][cur'[q]] # NoRow
    BY <1>0, <1>1 DEF HandPosted, RunEffect, Others
<1>2. pc'[r] = "poll" => market'[cur'[r]].st # "none"
    BY DEF RunEffect, ControlEffect, LoadEffect, ResubmitEffect, SubmitEffect,
           ReconcileEffect, ReadEffect, CheckpointEffect, SaveEffect, LeaveEffect,
           Raised
<1>3. pc'[r] \in InHand \ {"poll"} => mem'[r][cur'[r]] # NoRow
  <2>1. CASE ControlEffect(r) \/ LoadEffect(r) \/ SaveEffect(r) \/ LeaveEffect(r)
      BY <1>0, <2>1 DEF ControlEffect, LoadEffect, SaveEffect, LeaveEffect, Raised,
             HandPosted
  <2>2. CASE ResubmitEffect(r) \/ \E k \in Orders : SubmitEffect(r, k)
      BY <2>2 DEF ResubmitEffect, SubmitEffect
  <2>3. ASSUME NEW o \in todo[r], ReconcileEffect(r, o)
        PROVE  mem'[r][cur'[r]] # NoRow
      BY <2>3 DEF ReconcileEffect, Learns, RowsPosted, NoRow
  <2>4. CASE ReadEffect(r)
    <3>1. market[cur[r]].st # "none"
        BY <2>4 DEF ReadEffect, Learns, HandPosted, RowsPosted, Known
    <3> QED BY <2>4, <3>1 DEF ReadEffect, Learns, NoRow
  <2>5. CASE CheckpointEffect(r)
      BY <2>5 DEF CheckpointEffect, HandPosted
  <2> QED BY <2>1, <2>2, <2>3, <2>4, <2>5 DEF RunEffect
<1> QED BY <1>1, <1>2, <1>3 DEF HandPosted

\* A loaded order is taken once, and an idle run has nothing.
LEMMA TodoShapeStep ==
    ASSUME IInv, Books, NEW r \in Runs, RunEffect(r)
    PROVE  TodoShape' /\ IdleEmpty'
<1> USE DEF Books, Reconciling, Raised
<1>0. /\ pc \in [Runs -> Steps]
      /\ todo \in [Runs -> SUBSET [key : Orders, linked : BOOLEAN]]
    BY DEF IInv, TypeOK
<1>1. ASSUME NEW q \in Runs \ {r}
      PROVE  /\ pc'[q] = pc[q] /\ cur'[q] = cur[q] /\ todo'[q] = todo[q]
             /\ mem'[q] = mem[q] /\ saved'[q] = saved[q] /\ pend'[q] = pend[q]
    BY DEF RunEffect, Others
<1>2. pc'[r] \notin Reconciling => todo'[r] = {}
    BY DEF RunEffect, ControlEffect, LoadEffect, ResubmitEffect, SubmitEffect,
           ReconcileEffect, ReadEffect, CheckpointEffect, SaveEffect, LeaveEffect,
           TodoShape
<1>3. \A o, p \in todo'[r] : o.key = p.key => o = p
  <2>1. todo'[r] \subseteq todo[r] \/ Loads(r)
      BY DEF RunEffect, ControlEffect, LoadEffect, ResubmitEffect, SubmitEffect,
             ReconcileEffect, ReadEffect, CheckpointEffect, SaveEffect, LeaveEffect
  <2>2. CASE todo'[r] \subseteq todo[r]
      BY <2>2 DEF TodoShape
  <2>3. CASE Loads(r)
      BY <2>3 DEF Loads
  <2> QED BY <2>1, <2>2, <2>3
<1>4. pc'[r] \in {"recordLate", "saveLate"} => \A o \in todo'[r] : o.key # cur'[r]
  <2>1. ASSUME NEW o \in todo[r], ReconcileEffect(r, o)
        PROVE  \A p \in todo'[r] : p.key # cur'[r]
      BY <2>1 DEF ReconcileEffect, Learns, TodoShape
  <2>2. CASE CheckpointEffect(r)
      BY <2>2 DEF CheckpointEffect, TodoShape
  <2> QED BY <2>1, <2>2 DEF RunEffect, ControlEffect, LoadEffect, ResubmitEffect,
             SubmitEffect, ReadEffect, SaveEffect, LeaveEffect
<1>5. pc'[r] = "idle" => /\ \A k \in Orders : mem'[r][k] = NoRow /\ pend'[r][k] = NoRow
                         /\ todo'[r] = {} /\ saved'[r] = {}
    BY DEF RunEffect, ControlEffect, LoadEffect, ResubmitEffect, SubmitEffect,
           ReconcileEffect, ReadEffect, CheckpointEffect, SaveEffect, LeaveEffect
<1>6. TodoShape'
    BY <1>1, <1>2, <1>3, <1>4 DEF TodoShape
<1>7. IdleEmpty'
    BY <1>1, <1>5 DEF IdleEmpty
<1> QED BY <1>6, <1>7

\* The books stay in order through every step.
LEMMA NextBooks == IInv /\ Books /\ [Next]_vars => Books'
<1> SUFFICES ASSUME IInv, Books, [Next]_vars PROVE Books'
    OBVIOUS
<1>1. \A k \in Orders : market[k].st # "none" => market'[k].st # "none"
    BY StaysPosted
<1>2. ASSUME NEW r \in Runs, RunEffect(r) PROVE Books'
    BY <1>1, <1>2, RowsPostedStep, HandPostedStep, TodoShapeStep DEF Books
<1>3. ASSUME UNCHANGED <<dbOrder, dbExec, pend, pc, cur, todo, mem, saved>>
      PROVE  Books'
  <2>1. /\ todo \in [Runs -> SUBSET [key : Orders, linked : BOOLEAN]]
        /\ \A r \in Runs : pc[r] \in InHand => cur[r] \in Orders
      BY DEF IInv, TypeOK, HandIsOrder
  <2>2. RowsPosted' /\ HandPosted'
      BY <1>1, <1>3, <2>1 DEF Books, RowsPosted, HandPosted, Known, InHand
  <2>3. TodoShape' /\ IdleEmpty'
      BY <1>3 DEF Books, TodoShape, IdleEmpty
  <2> QED BY <2>2, <2>3 DEF Books
<1> QED BY <1>2, <1>3, StepEffect DEF BrokerEffect, StillEffect, Evidence

\* The books are in order at the start.
LEMMA InitBooks == Init => Books
BY DEF Init, Books, RowsPosted, HandPosted, TodoShape, IdleEmpty, Known, NoRow,
       InHand

\* Types, rows, memories and work lists are in order in every reachable state.
LEMMA InOrder == Spec => [](IInv /\ Books)
<1>1. Init => IInv /\ Books
    BY InitIInv, InitBooks
<1>2. (IInv /\ Books) /\ [Next]_vars => (IInv /\ Books)'
    BY NextIInv, NextBooks
<1> QED BY <1>1, <1>2, PTL DEF Spec

\* Unless runs crash or calls to the broker fail, every order the broker has
\* accepted is stored, or the run that sent it has it in hand.
THEOREM SubmittedOrderTrackedHolds ==
    ASSUME Environment \cap {"crashes", "http_errors"} = {}
    PROVE  Spec => []SubmittedOrderTracked
<1>1. Init => SubmittedOrderTracked
    BY DEF Init, SubmittedOrderTracked
<1>2. IInv /\ Books /\ SubmittedOrderTracked /\ [Next]_vars
        => SubmittedOrderTracked'
  <2> SUFFICES ASSUME IInv, Books, SubmittedOrderTracked, [Next]_vars,
                      NEW k \in Orders, market'[k].st # "none",
                      dbOrder'[k].st = "none"
               PROVE  \E r \in Runs : cur'[r] = k /\ pc'[r] \in Executing
      BY DEF SubmittedOrderTracked, Executing
  <2>0. /\ dbOrder \in [Orders -> Row] /\ pend \in [Runs -> [Orders -> Row]]
        /\ pc \in [Runs -> Steps]
      BY DEF IInv, TypeOK
  <2>1. ASSUME NEW r \in Runs, RunEffect(r)
        PROVE  \E q \in Runs : cur'[q] = k /\ pc'[q] \in Executing
    <3>1. CASE market[k].st = "none"
      <4>1. UNCHANGED market \/ \E j \in Orders : SubmitEffect(r, j)
          BY <2>1 DEF RunEffect, ControlEffect, LoadEffect, ResubmitEffect,
                 ReconcileEffect, ReadEffect, Learns, CheckpointEffect,
                 SaveEffect, LeaveEffect, Evidence
      <4> QED BY <3>1, <4>1 DEF SubmitEffect, Executing
    <3>2. CASE market[k].st # "none"
      <4>1. dbOrder[k].st = "none"
        <5>1. CASE CheckpointEffect(r)
          <6>1. mem[r][cur[r]].st # "none"
              BY <5>1 DEF CheckpointEffect, Books, HandPosted, RowsPosted, Known,
                     InHand
          <6>2. dbOrder'[k].st = IF k = cur[r] THEN mem[r][k].st ELSE dbOrder[k].st
              BY <5>1, CheckpointWrites
          <6> QED BY <6>1, <6>2
        <5>2. CASE LeaveEffect(r)
            BY <2>0, <5>2 DEF LeaveEffect, Visible, Books, RowsPosted, Known
        <5> QED BY <2>1, <5>1, <5>2 DEF RunEffect, ControlEffect, LoadEffect,
                   ResubmitEffect, SubmitEffect, ReconcileEffect, ReadEffect,
                   Learns, SaveEffect, Evidence
      <4>2. PICK q \in Runs : cur[q] = k /\ pc[q] \in Executing
          BY <3>2, <4>1 DEF SubmittedOrderTracked, Executing
      <4>3. CASE q # r
          BY <2>1, <4>2, <4>3 DEF RunEffect, Others
      <4>4. CASE q = r
        <5>1. ReadEffect(r) \/ CheckpointEffect(r) \/ (pc[r] = "filled" /\ cur[r] \in saved[r])
            BY <2>1, <4>2, <4>4 DEF Executing, RunEffect, ControlEffect, LoadEffect,
                   ResubmitEffect, SubmitEffect, ReconcileEffect, SaveEffect,
                   LeaveEffect
        <5>2. CASE ReadEffect(r)
            BY <4>2, <4>4, <5>2 DEF ReadEffect, Learns, Executing
        <5>3. CASE CheckpointEffect(r)
          <6>1. mem[r][k].st # "none"
              BY <4>2, <4>4, <5>3 DEF CheckpointEffect, Books, HandPosted,
                     RowsPosted, Known, InHand
          <6>2. dbOrder'[k].st = mem[r][k].st
              BY <4>2, <4>4, <5>3, CheckpointWrites
          <6> QED BY <6>1, <6>2
        <5>4. CASE pc[r] = "filled" /\ cur[r] \in saved[r]
            BY <4>1, <4>2, <4>4, <5>4 DEF IInv, SavedIsStored, Books, RowsPosted
        <5> QED BY <5>1, <5>2, <5>3, <5>4
      <4> QED BY <4>3, <4>4
    <3> QED BY <3>1, <3>2
  <2>2. CASE StillEffect
      BY <2>2 DEF StillEffect, Evidence, SubmittedOrderTracked, Executing
  <2>3. ASSUME NEW j \in Orders, BrokerEffect(j)
        PROVE  \E q \in Runs : cur'[q] = k /\ pc'[q] \in Executing
    <3>1. market[k].st # "none" /\ dbOrder[k].st = "none"
        BY <2>3 DEF BrokerEffect
    <3> QED BY <2>3, <3>1 DEF BrokerEffect, SubmittedOrderTracked, Executing
  <2> QED BY <2>1, <2>2, <2>3, StepEffect
<1> QED BY <1>1, <1>2, InOrder, PTL DEF Spec

-----------------------------------------------------------------------------
(* Runs overlap and orders fill meanwhile: what a stale save may do.       *)

\* A terminal status at the broker is the last one.
LEMMA BrokerFinal ==
    ASSUME IInv, [Next]_vars, NEW k \in Orders, market[k].st \in Terminal
    PROVE  market'[k].st = market[k].st
<1>1. ASSUME NEW r \in Runs, RunEffect(r) PROVE market'[k].st = market[k].st
  <2>1. UNCHANGED market \/ \E j \in Orders : SubmitEffect(r, j)
      BY <1>1 DEF RunEffect, ControlEffect, LoadEffect, ResubmitEffect,
             ReconcileEffect, ReadEffect, Learns, CheckpointEffect, SaveEffect,
             LeaveEffect, Evidence
  <2> QED BY <2>1 DEF SubmitEffect, Terminal
<1> QED BY <1>1, StepEffect DEF BrokerEffect, StillEffect, Evidence, Terminal

\* A row that is stored stays stored.
LEMMA RowStays ==
    ASSUME IInv, Books, [Next]_vars, NEW k \in Orders, dbOrder[k].st # "none"
    PROVE  dbOrder'[k].st # "none"
<1>1. ASSUME NEW r \in Runs, RunEffect(r) PROVE dbOrder'[k].st # "none"
  <2>1. CASE CheckpointEffect(r)
    <3>1. mem[r][cur[r]].st # "none"
        BY <2>1 DEF CheckpointEffect, Books, HandPosted, RowsPosted, Known, InHand
    <3>2. dbOrder'[k].st = IF k = cur[r] THEN mem[r][k].st ELSE dbOrder[k].st
        BY <2>1, CheckpointWrites
    <3> QED BY <3>1, <3>2
  <2>2. CASE LeaveEffect(r)
      BY <2>2 DEF LeaveEffect, Visible, Books, RowsPosted, Known
  <2> QED BY <1>1, <2>1, <2>2 DEF RunEffect, ControlEffect, LoadEffect,
             ResubmitEffect, SubmitEffect, ReconcileEffect, ReadEffect, Learns,
             SaveEffect, Evidence
<1> QED BY <1>1, StepEffect DEF BrokerEffect, StillEffect, Evidence

\* Whatever runs overlap and whenever orders fill, a save that changes a
\* committed terminal status leaves an order that the next sync loads again:
\* a row that says the order is over agrees with the broker, who is over it.
THEOREM StaleSaveReopensHolds == Spec => StaleSaveReopens
<1>1. IInv /\ Books /\ [Next]_vars
        => [\A k \in Orders :
              dbOrder[k].st \in Terminal /\ dbOrder'[k].st # dbOrder[k].st
                 => dbOrder'[k].st \in {"accepted", "partially_filled"}]_vars
  <2> SUFFICES ASSUME IInv, Books, [Next]_vars, NEW k \in Orders,
                      dbOrder[k].st \in Terminal, dbOrder'[k].st # dbOrder[k].st
               PROVE  dbOrder'[k].st \in {"accepted", "partially_filled"}
      OBVIOUS
  <2>1. IInv'
      BY NextIInv
  <2>2. dbOrder'[k].st \in Statuses
      BY <2>1 DEF IInv, TypeOK, Row
  <2>3. dbOrder'[k].st # "none"
      BY RowStays DEF Terminal
  <2>4. dbOrder'[k].st \notin Terminal
    <3>1. market[k].st = dbOrder[k].st
        BY DEF IInv, RowsSettled, Settled, True
    <3>2. dbOrder'[k].st \in Terminal => market'[k].st = dbOrder'[k].st
        BY <2>1 DEF IInv, RowsSettled, Settled, True
    <3> QED BY <3>1, <3>2, BrokerFinal
  <2> QED BY <2>2, <2>3, <2>4 DEF Statuses
<1> QED BY <1>1, InOrder, PTL DEF Spec, StaleSaveReopens

-----------------------------------------------------------------------------
(* Orders settle only between runs: what a run has read stays current.     *)

Current(row, k) == row = NoRow \/ row.st = market[k].st

RowsCurrent ==
    \A r \in Runs, k \in Orders : Current(mem[r][k], k) /\ Current(pend[r][k], k)

\* With the market closed, what any run knows and has written is current.
LEMMA ClosedCurrent ==
    ASSUME "market_open" \notin Environment
    PROVE  Spec => []RowsCurrent
<1>1. Init => RowsCurrent
    BY DEF Init, RowsCurrent, Current
<1>2. IInv /\ Books /\ RowsCurrent /\ [Next]_vars => RowsCurrent'
  <2> SUFFICES ASSUME IInv, Books, RowsCurrent, [Next]_vars PROVE RowsCurrent'
      OBVIOUS
  <2>1. ASSUME NEW r \in Runs, RunEffect(r) PROVE RowsCurrent'
    <3>0. Others(r)
        BY <2>1 DEF RunEffect
    <3>1. CASE UNCHANGED market
      <4>1. \A k \in Orders : Current(mem'[r][k], k)
        <5>1. ASSUME NEW k \in Orders
              PROVE  \/ mem'[r][k] = NoRow \/ mem'[r][k] = mem[r][k]
                     \/ mem'[r][k].st = market[k].st
          <6>1. ASSUME NEW j \in Orders, NEW linked, Learns(r, j, linked)
                PROVE  mem'[r][k] = mem[r][k] \/ mem'[r][k].st = market[k].st
              BY <6>1 DEF Learns
          <6>2. \/ mem'[r][k] = NoRow \/ UNCHANGED mem
                \/ \E o \in todo[r] : Learns(r, o.key, o.linked)
                \/ Learns(r, cur[r], TRUE)
                \/ Learns(r, cur[r], mem[r][cur[r]].linked)
              BY <2>1 DEF RunEffect, ControlEffect, LoadEffect, ResubmitEffect,
                     SubmitEffect, ReconcileEffect, ReadEffect,
                     CheckpointEffect, SaveEffect, LeaveEffect
          <6>3. \A j \in Orders : \A linked :
                   Learns(r, j, linked) => mem'[r][k] = mem[r][k]
                                             \/ mem'[r][k].st = market[k].st
              BY <6>1
          <6>4. \A j, linked : Learns(r, j, linked) => j \in Orders
              BY DEF Learns
          <6> QED BY <6>2, <6>3, <6>4
        <5> QED BY <5>1 DEF RowsCurrent, Current
      <4>2. \A k \in Orders : Current(pend'[r][k], k)
        <5>1. ASSUME NEW k \in Orders
              PROVE  \/ pend'[r][k] = NoRow \/ pend'[r][k] = pend[r][k]
                     \/ pend'[r][k] = mem[r][k]
            BY <2>1 DEF RunEffect, ControlEffect, LoadEffect, ResubmitEffect,
                   SubmitEffect, ReconcileEffect, ReadEffect, Learns,
                   CheckpointEffect, SaveEffect, LeaveEffect
        <5> QED BY <5>1 DEF RowsCurrent, Current
      <4> QED BY <3>0, <3>1, <4>1, <4>2 DEF RowsCurrent, Current, Others
    <3>2. ASSUME NEW j \in Orders, SubmitEffect(r, j) PROVE RowsCurrent'
      <4>1. UNCHANGED <<mem, pend>> /\ \A k \in Orders \ {j} : market'[k] = market[k]
          BY <3>2 DEF SubmitEffect
      <4>2. \A q \in Runs : mem[q][j] = NoRow /\ pend[q][j] = NoRow
          BY <3>2 DEF SubmitEffect, Books, RowsPosted, Known
      <4> QED BY <4>1, <4>2 DEF RowsCurrent, Current
    <3> QED BY <2>1, <3>1, <3>2 DEF RunEffect, ControlEffect, LoadEffect,
               ResubmitEffect, ReconcileEffect, ReadEffect, Learns,
               CheckpointEffect, SaveEffect, LeaveEffect, Evidence
  <2>2. ASSUME NEW k \in Orders, BrokerEffect(k) PROVE RowsCurrent'
    <3>1. \A r \in Runs : pc[r] = "idle"
        BY <2>2 DEF BrokerEffect, MarketMoves, Idling
    <3>2. \A r \in Runs, j \in Orders : mem'[r][j] = NoRow /\ pend'[r][j] = NoRow
        BY <2>2, <3>1 DEF BrokerEffect, Books, IdleEmpty
    <3> QED BY <3>2 DEF RowsCurrent, Current
  <2>3. CASE StillEffect
      BY <2>3 DEF StillEffect, Evidence, RowsCurrent, Current
  <2> QED BY <2>1, <2>2, <2>3, StepEffect
<1> QED BY <1>1, <1>2, InOrder, PTL DEF Spec

\* The order that run r has submitted and not checkpointed yet.
Submitted(r) ==
    \/ pc[r] \in {"poll", "refresh", "unfilled"}
    \/ pc[r] = "filled" /\ cur[r] \notin saved[r]

\* What run r has written of order k in its own session says that k is open.
WrittenOpen(r, k) == pend[r][k].st \notin Terminal

\* A run has not written the order it has just submitted, nor as terminal what
\* it still has to reconcile.
HandOpen(r) ==
    /\ Submitted(r) => pend[r][cur[r]] = NoRow
    /\ pc[r] = "recordLate" => WrittenOpen(r, cur[r])
    /\ \A o \in todo[r] : WrittenOpen(r, o.key)

HandsOpen == \A r \in Runs : HandOpen(r)

\* If no decision is repeated, a run writes the row of its order only after it
\* has checkpointed the order, and reconciles only what it reads as open.
LEMMA HandsStayOpen ==
    ASSUME "repeats" \notin Environment
    PROVE  Spec => []HandsOpen
<1>1. Init => HandsOpen
    BY DEF Init, HandsOpen, HandOpen, Submitted
<1>2. IInv /\ Books /\ HandsOpen /\ [Next]_vars => HandsOpen'
  <2> SUFFICES ASSUME IInv, Books, HandsOpen, [Next]_vars PROVE HandsOpen'
      OBVIOUS
  <2>1. ASSUME NEW r \in Runs, RunEffect(r) PROVE HandsOpen'
    <3>0. Others(r) /\ HandOpen(r)
        BY <2>1 DEF RunEffect, HandsOpen
    <3>1. ASSUME NEW q \in Runs \ {r} PROVE HandOpen(q)'
        BY <3>0 DEF HandsOpen, HandOpen, Submitted, WrittenOpen, Others
    <3>2. \A o \in todo'[r] : WrittenOpen(r, o.key)'
      <4>1. CASE Loads(r)
          BY <4>1 DEF Loads, NewVisible, WrittenOpen, NoRow, Terminal
      <4>2. CASE SaveEffect(r) /\ pc[r] = "saveLate" /\ todo'[r] = todo[r]
        <5>1. \A o \in todo[r] : o.key # cur[r] /\ o.key \in Orders
            BY <4>2 DEF Books, TodoShape, IInv, TypeOK
        <5> QED BY <3>0, <4>2, <5>1 DEF SaveEffect, HandOpen, WrittenOpen
      <4>3. CASE pc[r] = "saveOrder" /\ todo'[r] = todo[r]
          BY <4>3 DEF Books, TodoShape, Reconciling, Raised
      <4>4. CASE todo'[r] \subseteq todo[r] /\ UNCHANGED pend
          BY <3>0, <4>4 DEF HandOpen, WrittenOpen
      <4> QED BY <2>1, <4>1, <4>2, <4>3, <4>4 DEF RunEffect, ControlEffect,
                 LoadEffect, ResubmitEffect, SubmitEffect, ReconcileEffect,
                 ReadEffect, Learns, CheckpointEffect, SaveEffect, LeaveEffect
    <3>3. /\ Submitted(r)' => pend'[r][cur'[r]] = NoRow
          /\ pc'[r] = "recordLate" => WrittenOpen(r, cur[r])'
      <4>1. CASE ControlEffect(r) \/ LoadEffect(r) \/ CheckpointEffect(r)
                   \/ SaveEffect(r) \/ LeaveEffect(r)
          BY <4>1 DEF ControlEffect, LoadEffect, CheckpointEffect, SaveEffect,
                 LeaveEffect, Raised, Submitted
      <4>2. CASE ResubmitEffect(r)
          BY <4>2 DEF ResubmitEffect, Books, RowsPosted, Known
      <4>3. ASSUME NEW k \in Orders, SubmitEffect(r, k)
            PROVE  pend'[r][cur'[r]] = NoRow /\ pc'[r] # "recordLate"
          BY <4>3 DEF SubmitEffect, Books, RowsPosted, Known
      <4>4. ASSUME NEW o \in todo[r], ReconcileEffect(r, o)
            PROVE  ~Submitted(r)' /\ WrittenOpen(r, cur[r])'
          BY <3>0, <4>4 DEF ReconcileEffect, Learns, HandOpen, WrittenOpen, Submitted
      <4>5. CASE ReadEffect(r)
          BY <3>0, <4>5 DEF ReadEffect, Learns, HandOpen, Submitted
      <4> QED BY <2>1, <4>1, <4>2, <4>3, <4>4, <4>5 DEF RunEffect
    <3>4. HandOpen(r)'
        BY <3>2, <3>3 DEF HandOpen
    <3> QED BY <3>1, <3>4 DEF HandsOpen
  <2>2. ASSUME NEW k \in Orders, BrokerEffect(k) PROVE HandsOpen'
      BY <2>2 DEF BrokerEffect, HandsOpen, HandOpen, Submitted, WrittenOpen
  <2>3. CASE StillEffect
      BY <2>3 DEF StillEffect, HandsOpen, HandOpen, Submitted, WrittenOpen
  <2> QED BY <2>1, <2>2, <2>3, StepEffect
<1> QED BY <1>1, <1>2, InOrder, PTL DEF Spec

\* If no decision is repeated, the only checkpoint that may wait for the lock
\* of its own run is that of a late fill of an order the run has saved as open,
\* with any number of runs and the market open or closed.
THEOREM SelfWaitIsLateFillHolds ==
    ASSUME "repeats" \notin Environment
    PROVE  Spec => []SelfWaitIsLateFill
<1>1. HandsOpen => SelfWaitIsLateFill
    BY DEF HandsOpen, HandOpen, Submitted, WrittenOpen, SelfWaitIsLateFill, SelfWait,
           Holders
<1> QED BY <1>1, HandsStayOpen, PTL

\* As long as orders settle only between runs and no decision is repeated, no
\* run ever waits in a checkpoint for the row lock of its own transaction: what
\* it has saved as open is open still.
THEOREM NoSelfWaitHolds ==
    ASSUME {"market_open", "repeats"} \cap Environment = {}
    PROVE  Spec => []NoSelfWait
<1>1. IInv /\ RowsCurrent /\ SelfWaitIsLateFill => NoSelfWait
  <2> SUFFICES ASSUME IInv, RowsCurrent, SelfWaitIsLateFill, NEW r \in Runs, SelfWait(r)
               PROVE  FALSE
      BY DEF NoSelfWait
  <2>1. /\ pc[r] = "recordLate" /\ cur[r] \in Orders
        /\ pend[r][cur[r]] # NoRow /\ pend[r][cur[r]].st \notin Terminal
      BY DEF SelfWaitIsLateFill, SelfWait, Holders, IInv, HandIsOrder, InHand
  <2>2. mem[r][cur[r]].st = "filled"
      BY <2>1 DEF IInv, FillKnown
  <2>3. market[cur[r]].st = "filled"
      BY <2>1, <2>2 DEF RowsCurrent, Current, NoRow
  <2> QED BY <2>1, <2>3 DEF RowsCurrent, Current, Terminal
<1>2. "market_open" \notin Environment /\ "repeats" \notin Environment
    OBVIOUS
<1>3. Spec => []RowsCurrent
    BY <1>2, ClosedCurrent
<1>4. Spec => []SelfWaitIsLateFill
    BY <1>2, SelfWaitIsLateFillHolds
<1> QED BY <1>1, <1>3, <1>4, InOrder, PTL

-----------------------------------------------------------------------------
(* One run at a time: each fill is recorded once, and links stay.          *)

OneActive ==
    \A p, q \in Runs : pc[p] # "idle" /\ pc[q] # "idle" => p = q

\* If only one run may be active, no two are.
LEMMA OneActiveAlways ==
    ASSUME MaxActive = 1
    PROVE  Spec => []OneActive
<1>1. Init => OneActive
    BY DEF Init, OneActive
<1>2. IInv /\ Books /\ OneActive /\ [Next]_vars => OneActive'
  <2> SUFFICES ASSUME IInv, Books, OneActive, [Next]_vars PROVE OneActive'
      OBVIOUS
  <2>1. ASSUME NEW r \in Runs, RunEffect(r) PROVE OneActive'
    <3>0. \A q \in Runs \ {r} : pc'[q] = pc[q]
        BY <2>1 DEF RunEffect, Others
    <3>1. CASE pc[r] # "idle"
        BY <3>0, <3>1 DEF OneActive
    <3>2. CASE pc[r] = "idle"
      <4> DEFINE active == {q \in Runs : pc[q] # "idle"}
      <4>1. Cardinality(active) < 1
          BY <2>1, <3>2 DEF RunEffect, ControlEffect, LoadEffect, ResubmitEffect,
                 SubmitEffect, ReconcileEffect, ReadEffect, CheckpointEffect,
                 SaveEffect, LeaveEffect
      <4>2. IsFiniteSet(active)
          BY FS_Subset
      <4>3. active = {}
        <5> HIDE DEF active
        <5>1. Cardinality(active) \in Nat
            BY <4>2, FS_CardinalityType
        <5> QED BY <4>1, <4>2, <5>1, FS_EmptySet
      <4> QED BY <3>0, <4>3 DEF OneActive
    <3> QED BY <3>1, <3>2
  <2> QED BY <2>1, StepEffect DEF BrokerEffect, StillEffect, OneActive
<1> QED BY <1>1, <1>2, InOrder, PTL DEF Spec

\* An execution is stored once, with the order stored as filled.
StoredOnce(k) == dbExec[k] <= 1 /\ (dbExec[k] > 0 => dbOrder[k].st = "filled")

\* Run r writes nothing but "filled" over an order whose execution is stored,
\* knows the order only if it stored it itself, and is not about to again.
KnowsStored(r) ==
    /\ \A k \in Orders :
          /\ dbExec[k] > 0 => pend[r][k] = NoRow \/ pend[r][k].st = "filled"
          /\ dbExec[k] > 0 => mem[r][k] = NoRow \/ k \in saved[r]
          /\ k \in saved[r] => mem[r][k].st = "filled"
    /\ \A o \in todo[r] : dbExec[o.key] = 0
    /\ pc[r] \in {"poll", "recordLate", "refresh"} => dbExec[cur[r]] = 0

Once == /\ \A k \in Orders : StoredOnce(k)
        /\ \A r \in Runs : KnowsStored(r)

\* A step that stores no row changes nothing about the other runs.
LEMMA OnceOthers ==
    ASSUME IInv, Once, NEW r \in Runs, Others(r), UNCHANGED dbExec
    PROVE  \A q \in Runs \ {r} : KnowsStored(q)'
BY DEF Once, KnowsStored, Others

\* What a run that has the only go loads has no execution yet.
LEMMA OnceLoads ==
    ASSUME IInv, NEW r \in Runs, Loads(r), UNCHANGED <<dbOrder, dbExec>>,
           \A k \in Orders : StoredOnce(k),
           \A k \in Orders : dbExec[k] > 0 =>
                                pend'[r][k] = NoRow \/ pend'[r][k].st = "filled"
    PROVE  \A o \in todo'[r] : dbExec'[o.key] = 0
<1>1. dbExec \in [Orders -> 0..2]
    BY DEF IInv, TypeOK
<1>2. ASSUME NEW o \in todo'[r], dbExec[o.key] > 0 PROVE FALSE
    BY <1>2 DEF Loads, NewVisible, StoredOnce
<1> QED BY <1>1, <1>2 DEF Loads

\* The steps of the active run keep to one execution per order.
LEMMA OnceStep ==
    ASSUME IInv, Books, OneActive, Once, NEW r \in Runs, RunEffect(r)
    PROVE  Once'
<1>0. /\ dbExec \in [Orders -> 0..2]
      /\ todo \in [Runs -> SUBSET [key : Orders, linked : BOOLEAN]]
      /\ \A o \in todo[r] : o.key \in Orders
      /\ Others(r) /\ KnowsStored(r)
      /\ \A k \in Orders : StoredOnce(k)
    BY DEF IInv, TypeOK, RunEffect, Once
<1>1. ASSUME UNCHANGED <<dbOrder, dbExec>>, KnowsStored(r)' PROVE Once'
  <2>1. \A q \in Runs : KnowsStored(q)'
      BY <1>0, <1>1, OnceOthers
  <2> QED BY <1>0, <1>1, <2>1 DEF Once, StoredOnce
<1>2. CASE ControlEffect(r)
    BY <1>0, <1>1, <1>2 DEF ControlEffect, KnowsStored, Raised, Evidence
<1>3. CASE LoadEffect(r)
  <2>1. \A o \in todo'[r] : dbExec'[o.key] = 0
      BY <1>0, <1>3, OnceLoads DEF LoadEffect, KnowsStored, Evidence
  <2> QED BY <1>0, <1>1, <1>3, <2>1 DEF LoadEffect, KnowsStored, Evidence
<1>4. CASE ResubmitEffect(r)
    BY <1>0, <1>1, <1>4 DEF ResubmitEffect, KnowsStored, Evidence
<1>5. ASSUME NEW k \in Orders, SubmitEffect(r, k) PROVE Once'
  <2>1. dbExec[k] = 0
      BY <1>0, <1>5 DEF SubmitEffect, IInv, NoPhantomFill
  <2> QED BY <1>0, <1>1, <1>5, <2>1 DEF SubmitEffect, KnowsStored
<1>6. ASSUME NEW o \in todo[r], ReconcileEffect(r, o) PROVE Once'
  <2>1. dbExec[o.key] = 0 /\ o.key \notin saved[r]
      BY <1>0 DEF KnowsStored, IInv, SavedIsStored
  <2> QED BY <1>0, <1>1, <1>6, <2>1 DEF ReconcileEffect, Learns, KnowsStored,
             Evidence
<1>7. CASE ReadEffect(r)
  <2>1. cur[r] \in Orders /\ dbExec[cur[r]] = 0 /\ cur[r] \notin saved[r]
      BY <1>0, <1>7 DEF ReadEffect, Learns, KnowsStored, IInv, SavedIsStored
  <2> QED BY <1>0, <1>1, <1>7, <2>1 DEF ReadEffect, Learns, KnowsStored, Evidence
<1>8. CASE CheckpointEffect(r)
  <2>1. /\ mem[r][cur[r]] # NoRow /\ cur[r] \in Orders
        /\ UNCHANGED <<pend, mem, cur, todo>>
      BY <1>8 DEF CheckpointEffect, Books, HandPosted, InHand
  <2>2. \A q \in Runs \ {r} : pc[q] = "idle"
      BY <1>8 DEF CheckpointEffect, OneActive
  <2>3. \A q \in Runs \ {r} : KnowsStored(q)'
      BY <1>0, <2>2 DEF Books, IdleEmpty, Others, KnowsStored
  <2>4. CASE pc[r] = "unfilled"
    <3>1. UNCHANGED <<dbExec, saved>> /\ pc'[r] = "saveOrder"
        BY <1>8, <2>4 DEF CheckpointEffect
    <3>2. dbExec[cur[r]] = 0
        BY <1>0, <2>1, <2>4 DEF KnowsStored, IInv, FillKnown
    <3>3. KnowsStored(r)'
        BY <1>0, <2>1, <3>1 DEF KnowsStored
    <3>4. \A k \in Orders : StoredOnce(k)'
        BY <1>0, <1>8, <3>1, <3>2, CheckpointWrites DEF StoredOnce
    <3> QED BY <2>3, <3>3, <3>4 DEF Once
  <2>5. CASE pc[r] \in {"recordLate", "filled"}
    <3>1. /\ Records(r) /\ pc'[r] \in {"saveLate", "saveFill"}
          /\ pc[r] = "filled" => cur[r] \notin saved[r]
          /\ CheckpointFree(r, cur[r])
          /\ mem[r][cur[r]].st = "filled"
        BY <1>8, <2>5 DEF CheckpointEffect, IInv, FillKnown
    <3>2. dbExec[cur[r]] = 0
        BY <1>0, <2>1, <2>5, <3>1 DEF KnowsStored
    <3>3. /\ \A k \in Orders : dbExec'[k] = IF k = cur[r] THEN 1 ELSE dbExec[k]
          /\ saved'[r] = saved[r] \cup {cur[r]}
        BY <3>1, <3>2 DEF Records
    <3>4. pend[r][cur[r]] = NoRow
      <4>1. dbOrder[cur[r]].st # "filled"
          BY <2>1, <3>2 DEF IInv, RowsSettled, Settled
      <4>2. CheckpointRow(r, cur[r]) # dbOrder[cur[r]]
          BY <3>1, <4>1 DEF CheckpointRow
      <4> QED BY <3>1, <4>2 DEF CheckpointFree, Holders
    <3>5. \A k \in Orders : StoredOnce(k)'
        BY <1>0, <1>8, <3>1, <3>3, CheckpointWrites DEF StoredOnce
    <3>6. \A o \in todo'[r] : dbExec'[o.key] = 0
      <4>1. \A o \in todo[r] : o.key # cur[r]
          BY <2>5 DEF Books, TodoShape, Reconciling, Raised
      <4> QED BY <1>0, <2>1, <3>3, <4>1 DEF KnowsStored
    <3>7. KnowsStored(r)'
        BY <1>0, <2>1, <3>1, <3>3, <3>4, <3>6 DEF KnowsStored
    <3> QED BY <2>3, <3>5, <3>7 DEF Once
  <2> QED BY <1>8, <2>4, <2>5 DEF CheckpointEffect
<1>9. CASE SaveEffect(r)
  <2>1. /\ mem[r][cur[r]] # NoRow /\ cur[r] \in Orders
        /\ UNCHANGED <<dbOrder, dbExec, mem, saved, cur>>
      BY <1>9 DEF SaveEffect, Books, HandPosted, InHand, Evidence
  <2>2. \A k \in Orders : dbExec[k] > 0 => pend'[r][k] = NoRow \/ pend'[r][k].st = "filled"
    <3>1. \A k \in Orders : pend'[r][k] = pend[r][k]
                              \/ (k = cur[r] /\ pend'[r][k] = mem[r][k])
        BY <1>9 DEF SaveEffect
    <3> QED BY <1>0, <2>1, <3>1 DEF KnowsStored
  <2>3. \A o \in todo'[r] : dbExec'[o.key] = 0
    <3>1. todo'[r] = todo[r] \/ Loads(r)
        BY <1>9 DEF SaveEffect
    <3> QED BY <1>0, <2>1, <2>2, <3>1, OnceLoads DEF KnowsStored
  <2>4. pc'[r] \notin {"poll", "recordLate", "refresh"}
      BY <1>9 DEF SaveEffect
  <2> QED BY <1>0, <1>1, <2>1, <2>2, <2>3, <2>4 DEF KnowsStored
<1>10. CASE LeaveEffect(r)
  <2>1. \A q \in Runs : KnowsStored(q)'
      BY <1>0, <1>10, OnceOthers DEF LeaveEffect, KnowsStored
  <2>2. \A k \in Orders : StoredOnce(k)'
      BY <1>0, <1>10 DEF LeaveEffect, Visible, StoredOnce, KnowsStored
  <2> QED BY <2>1, <2>2 DEF Once
<1> QED BY <1>2, <1>3, <1>4, <1>5, <1>6, <1>7, <1>8, <1>9, <1>10 DEF RunEffect

\* One run at a time stores every execution once.
LEMMA OnceAlways ==
    ASSUME MaxActive = 1
    PROVE  Spec => []Once
<1>1. Init => Once
    BY DEF Init, Once, StoredOnce, KnowsStored
<1>2. IInv /\ Books /\ OneActive /\ Once /\ [Next]_vars => Once'
  <2> SUFFICES ASSUME IInv, Books, OneActive, Once, [Next]_vars PROVE Once'
      OBVIOUS
  <2>1. ASSUME UNCHANGED <<dbOrder, dbExec, pend, pc, cur, todo, mem, saved>>
        PROVE  Once'
      BY <2>1 DEF Once, StoredOnce, KnowsStored
  <2> QED BY <2>1, OnceStep, StepEffect DEF BrokerEffect, StillEffect, Evidence
<1>3. Spec => []OneActive
    BY OneActiveAlways
<1> QED BY <1>1, <1>2, <1>3, InOrder, PTL DEF Spec

\* If runs do not overlap, the execution path and the reconcile loops together
\* write at most one execution row per order, whatever fails in between.
THEOREM AtMostOneExecutionHolds ==
    ASSUME MaxActive = 1
    PROVE  Spec => []AtMostOneExecution
<1>1. Once => AtMostOneExecution
    BY DEF Once, StoredOnce, AtMostOneExecution
<1>2. Spec => []Once
    BY OnceAlways
<1> QED BY <1>1, <1>2, PTL

\* Whoever is about to write the row of a linked order writes it linked.
KnowsLinks(r) ==
    \A k \in Orders :
        dbOrder[k].linked =>
            /\ pend[r][k] # NoRow => pend[r][k].linked
            /\ mem[r][k] # NoRow => mem[r][k].linked
            /\ \A o \in todo[r] : o.key = k => o.linked

LinksKnown == \A r \in Runs : KnowsLinks(r)

\* A step of the active run keeps every link, and what it knows of them.
LEMMA LinksStep ==
    ASSUME IInv, Books, OneActive, LinksKnown, NEW r \in Runs, RunEffect(r)
    PROVE  /\ LinksKnown'
           /\ \A k \in Orders : dbOrder[k].linked => dbOrder'[k].linked
<1>0. Others(r) /\ KnowsLinks(r) /\ (\A o \in todo[r] : o.key \in Orders)
    BY DEF RunEffect, LinksKnown, IInv, TypeOK
<1>1. ASSUME \A k \in Orders : dbOrder'[k].linked => dbOrder[k].linked,
             KnowsLinks(r)'
      PROVE  LinksKnown'
    BY <1>0, <1>1 DEF LinksKnown, KnowsLinks, Others
<1>2. ASSUME UNCHANGED dbOrder, KnowsLinks(r)' PROVE
         /\ LinksKnown'
         /\ \A k \in Orders : dbOrder[k].linked => dbOrder'[k].linked
    BY <1>1, <1>2
<1>3. CASE \/ ControlEffect(r) \/ ResubmitEffect(r)
           \/ \E k \in Orders : SubmitEffect(r, k)
  <2>1. UNCHANGED <<dbOrder, pend, mem>> /\ todo'[r] = todo[r]
      BY <1>3 DEF ControlEffect, ResubmitEffect, SubmitEffect, Evidence
  <2> QED BY <1>0, <1>2, <2>1 DEF KnowsLinks
<1>l. ASSUME Loads(r), UNCHANGED dbOrder,
             \A k \in Orders : dbOrder[k].linked =>
                 (pend'[r][k] # NoRow => pend'[r][k].linked)
      PROVE  \A o \in todo'[r] : dbOrder'[o.key].linked => o.linked
    BY <1>l DEF Loads, NewVisible
<1>4. CASE LoadEffect(r)
  <2>1. UNCHANGED <<dbOrder, pend, mem>> /\ Loads(r)
      BY <1>4 DEF LoadEffect, Evidence
  <2>2. \A o \in todo'[r] : dbOrder'[o.key].linked => o.linked
      BY <1>0, <1>l, <2>1 DEF KnowsLinks
  <2> QED BY <1>0, <1>2, <2>1, <2>2 DEF KnowsLinks
<1>r. ASSUME NEW j \in Orders, NEW linked, Learns(r, j, linked),
             todo'[r] \subseteq todo[r], dbOrder[j].linked => linked
      PROVE  /\ LinksKnown'
             /\ \A k \in Orders : dbOrder[k].linked => dbOrder'[k].linked
  <2>1. /\ UNCHANGED <<dbOrder, pend>>
        /\ \A k \in Orders : mem'[r][k] = IF k = j
                               THEN [st |-> market[j].st, linked |-> linked]
                               ELSE mem[r][k]
      BY <1>r DEF Learns, Evidence
  <2>2. \A k \in Orders : dbOrder[k].linked /\ mem'[r][k] # NoRow => mem'[r][k].linked
      BY <1>0, <1>r, <2>1 DEF KnowsLinks
  <2> QED BY <1>0, <1>2, <1>r, <2>1, <2>2 DEF KnowsLinks
<1>5. ASSUME NEW o \in todo[r], ReconcileEffect(r, o)
      PROVE  /\ LinksKnown'
             /\ \A k \in Orders : dbOrder[k].linked => dbOrder'[k].linked
    BY <1>0, <1>r, <1>5 DEF ReconcileEffect, KnowsLinks
<1>6. CASE ReadEffect(r)
  <2>1. Learns(r, cur[r], TRUE)
          \/ (pc[r] = "refresh" /\ Learns(r, cur[r], mem[r][cur[r]].linked))
      BY <1>6 DEF ReadEffect
  <2>2. cur[r] \in Orders /\ todo'[r] = todo[r]
      BY <1>6 DEF ReadEffect, Learns
  <2>3. pc[r] = "refresh" => mem[r][cur[r]] # NoRow
      BY DEF Books, HandPosted, InHand
  <2> QED BY <1>0, <1>r, <2>1, <2>2, <2>3 DEF KnowsLinks
<1>7. CASE CheckpointEffect(r)
  <2>1. \A k \in Orders : dbOrder'[k].linked = dbOrder[k].linked
      BY <1>7, CheckpointWrites DEF CheckpointEffect
  <2>2. UNCHANGED <<pend, mem, todo>>
      BY <1>7 DEF CheckpointEffect
  <2> QED BY <1>0, <1>1, <2>1, <2>2 DEF KnowsLinks
<1>8. CASE SaveEffect(r)
  <2>1. /\ mem[r][cur[r]] # NoRow /\ cur[r] \in Orders
        /\ UNCHANGED <<dbOrder, mem>>
        /\ \A k \in Orders : pend'[r][k] = pend[r][k] \/ pend'[r][k] = mem[r][k]
        /\ todo'[r] = todo[r] \/ Loads(r)
      BY <1>8 DEF SaveEffect, Books, HandPosted, InHand, Evidence
  <2>2. \A k \in Orders : dbOrder[k].linked =>
                             (pend'[r][k] # NoRow => pend'[r][k].linked)
      BY <1>0, <2>1 DEF KnowsLinks
  <2>3. \A o \in todo'[r] : dbOrder'[o.key].linked => o.linked
      BY <1>0, <1>l, <2>1, <2>2 DEF KnowsLinks
  <2> QED BY <1>0, <1>2, <2>1, <2>2, <2>3 DEF KnowsLinks
<1>9. CASE LeaveEffect(r)
  <2>1. \A q \in Runs \ {r} : pc[q] = "idle"
      BY <1>9 DEF LeaveEffect, OneActive
  <2>2. \A q \in Runs, k \in Orders :
           mem'[q][k] = NoRow /\ pend'[q][k] = NoRow /\ todo'[q] = {}
      BY <1>0, <1>9, <2>1 DEF LeaveEffect, Others, Books, IdleEmpty
  <2>3. LinksKnown'
      BY <2>2 DEF LinksKnown, KnowsLinks
  <2>4. \A k \in Orders : dbOrder[k].linked => dbOrder'[k].linked
      BY <1>0, <1>9 DEF LeaveEffect, Visible, KnowsLinks
  <2> QED BY <2>3, <2>4
<1> QED BY <1>0, <1>3, <1>4, <1>5, <1>6, <1>7, <1>8, <1>9 DEF RunEffect

\* If runs do not overlap, neither a checkpoint nor a reconcile loop nor a
\* commit ever clears the decision links of a committed order row.
THEOREM LinkNeverLostHolds ==
    ASSUME MaxActive = 1
    PROVE  Spec => LinkNeverLost
<1>1. Init => LinksKnown
    BY DEF Init, LinksKnown, KnowsLinks, NoRow
<1>2. IInv /\ Books /\ OneActive /\ LinksKnown /\ [Next]_vars
        => /\ LinksKnown'
           /\ [\A k \in Orders : dbOrder[k].linked => dbOrder'[k].linked]_vars
  <2>1. ASSUME UNCHANGED <<dbOrder, dbExec, pend, pc, cur, todo, mem, saved>>,
               LinksKnown
        PROVE  /\ LinksKnown'
               /\ \A k \in Orders : dbOrder[k].linked => dbOrder'[k].linked
      BY <2>1 DEF LinksKnown, KnowsLinks
  <2> QED BY <2>1, LinksStep, StepEffect DEF BrokerEffect, StillEffect, Evidence
<1>3. Spec => []OneActive
    BY OneActiveAlways
<1> QED BY <1>1, <1>2, <1>3, InOrder, PTL DEF Spec, LinkNeverLost

\* What run r has read or written of an order stored as terminal says the same.
KnowsFinal(r) ==
    \A k \in Orders :
        dbOrder[k].st \in Terminal =>
            /\ pend[r][k] = NoRow \/ pend[r][k].st = dbOrder[k].st
            /\ mem[r][k] = NoRow \/ mem[r][k].st = dbOrder[k].st

FinalKnown == \A r \in Runs : KnowsFinal(r)

FinalStays ==
    \A k \in Orders : dbOrder[k].st \in Terminal => dbOrder'[k].st = dbOrder[k].st

\* A step of the active run changes no terminal status, and what it knows of
\* one is that status, also when it has just written it itself.
LEMMA FinalStep ==
    ASSUME IInv, Books, OneActive, FinalKnown, NEW r \in Runs, RunEffect(r)
    PROVE  FinalKnown' /\ FinalStays
<1>0. /\ Others(r) /\ KnowsFinal(r) /\ cur \in [Runs -> Orders \cup {NoOrder}]
      /\ \A k \in Orders : dbOrder[k].st \in Terminal => market[k].st = dbOrder[k].st
    BY DEF RunEffect, FinalKnown, IInv, TypeOK, RowsSettled, Settled, True
<1>1. ASSUME UNCHANGED dbOrder, KnowsFinal(r)' PROVE FinalKnown' /\ FinalStays
    BY <1>0, <1>1 DEF FinalKnown, KnowsFinal, Others, FinalStays
<1>2. CASE \/ ControlEffect(r) \/ LoadEffect(r) \/ ResubmitEffect(r)
           \/ \E k \in Orders : SubmitEffect(r, k)
  <2>1. UNCHANGED <<dbOrder, pend, mem>>
      BY <1>2 DEF ControlEffect, LoadEffect, ResubmitEffect, SubmitEffect, Evidence
  <2> QED BY <1>0, <1>1, <2>1 DEF KnowsFinal
<1>3. CASE (\E o \in todo[r] : ReconcileEffect(r, o)) \/ ReadEffect(r)
  <2>1. \E j, linked : Learns(r, j, linked)
      BY <1>3 DEF ReconcileEffect, ReadEffect
  <2>2. /\ UNCHANGED <<dbOrder, pend>>
        /\ \A k \in Orders : mem'[r][k] = mem[r][k] \/ mem'[r][k].st = market[k].st
      BY <2>1 DEF Learns, Evidence
  <2> QED BY <1>0, <1>1, <2>2 DEF KnowsFinal
<1>4. CASE CheckpointEffect(r)
  <2>1. /\ UNCHANGED <<pend, mem>> /\ cur[r] \in Orders
        /\ \/ \A q \in Runs : pend[q][cur[r]] = NoRow
           \/ dbOrder'[cur[r]] = dbOrder[cur[r]]
      BY <1>4 DEF CheckpointEffect, CheckpointFree, Holders
  <2>2. /\ \A k \in Orders \ {cur[r]} : dbOrder'[k] = dbOrder[k]
        /\ dbOrder'[cur[r]].st = mem[r][cur[r]].st
      BY <1>4, CheckpointWrites
  <2>3. mem[r][cur[r]] # NoRow
      BY <1>4 DEF CheckpointEffect, Books, HandPosted, InHand
  <2>4. FinalStays
      BY <1>0, <2>1, <2>2, <2>3 DEF FinalStays, KnowsFinal
  <2>5. pc[r] # "idle"
      BY <1>4 DEF CheckpointEffect
  <2>6. \A q \in Runs \ {r}, k \in Orders : mem[q][k] = NoRow
      BY <2>5 DEF OneActive, Books, IdleEmpty
  <2>7. ASSUME NEW q \in Runs, NEW k \in Orders, dbOrder'[k].st \in Terminal
        PROVE  /\ pend'[q][k] = NoRow \/ pend'[q][k].st = dbOrder'[k].st
               /\ mem'[q][k] = NoRow \/ mem'[q][k].st = dbOrder'[k].st
    <3>1. CASE dbOrder'[k] = dbOrder[k]
        BY <2>1, <2>7, <3>1 DEF FinalKnown, KnowsFinal
    <3>2. CASE k = cur[r] /\ pend[q][k] = NoRow
        BY <2>1, <2>2, <2>6, <3>2
    <3> QED BY <2>1, <2>2, <3>1, <3>2
  <2> QED BY <2>4, <2>7 DEF FinalKnown, KnowsFinal
<1>5. CASE SaveEffect(r)
  <2>1. /\ UNCHANGED <<dbOrder, mem>>
        /\ \A k \in Orders : pend'[r][k] = pend[r][k] \/ pend'[r][k] = mem[r][k]
      BY <1>5 DEF SaveEffect, Evidence
  <2> QED BY <1>0, <1>1, <2>1 DEF KnowsFinal
<1>6. CASE LeaveEffect(r)
  <2>1. \A q \in Runs \ {r} : pc[q] = "idle"
      BY <1>6 DEF LeaveEffect, OneActive
  <2>2. \A q \in Runs, k \in Orders : mem'[q][k] = NoRow /\ pend'[q][k] = NoRow
      BY <1>0, <1>6, <2>1 DEF LeaveEffect, Others, Books, IdleEmpty
  <2>3. FinalStays
      BY <1>0, <1>6 DEF LeaveEffect, Visible, KnowsFinal, FinalStays
  <2> QED BY <2>2, <2>3 DEF FinalKnown, KnowsFinal
<1> QED BY <1>2, <1>3, <1>4, <1>5, <1>6 DEF RunEffect

\* If runs do not overlap, a committed terminal status is never changed again,
\* with the market open and whatever fails.
THEOREM SerialStatusFinalHolds ==
    ASSUME MaxActive = 1
    PROVE  Spec => TerminalStatusFinal
<1>1. Init => FinalKnown
    BY DEF Init, FinalKnown, KnowsFinal, NoRow
<1>2. IInv /\ Books /\ OneActive /\ FinalKnown /\ [Next]_vars
        => /\ FinalKnown'
           /\ [\A k \in Orders : dbOrder[k].st \in Terminal
                                   => dbOrder'[k].st = dbOrder[k].st]_vars
  <2>1. ASSUME UNCHANGED <<dbOrder, dbExec, pend, pc, cur, todo, mem, saved>>,
               FinalKnown
        PROVE  FinalKnown' /\ FinalStays
      BY <2>1 DEF FinalKnown, KnowsFinal, FinalStays
  <2> QED BY <2>1, FinalStep, StepEffect
        DEF BrokerEffect, StillEffect, Evidence, FinalStays
<1>3. Spec => []OneActive
    BY OneActiveAlways
<1> QED BY <1>1, <1>2, <1>3, InOrder, PTL DEF Spec, TerminalStatusFinal

\* If runs do not overlap, the workflow implements the fill ledger: sending,
\* filling and recording an order are its steps, every other step stutters.
THEOREM KeepsLedgerHolds ==
    ASSUME MaxActive = 1
    PROVE  Spec => KeepsLedger
<1> DEFINE sent   == {k \in Orders : market[k].st # "none"}
           filled == {k \in Orders : market[k].st = "filled"}
<1>1. Init => Ledger!Init
    BY DEF Init, Ledger!Init
<1>2. IInv /\ Books /\ OneActive /\ Once /\ [Next]_vars
        => [Ledger!Next]_(Ledger!vars)
  <2> SUFFICES ASSUME IInv, Books, OneActive, Once, [Next]_vars
               PROVE  Ledger!Next \/ UNCHANGED <<sent, filled, dbExec>>
      BY DEF Ledger!vars
  <2>0. /\ dbExec \in [Orders -> 0..2] /\ dbExec' \in [Orders -> 0..2]
      BY NextIInv DEF IInv, TypeOK
  <2>s. ASSUME UNCHANGED market PROVE UNCHANGED <<sent, filled>>
      BY <2>s
  <2>1. ASSUME NEW r \in Runs, RunEffect(r)
        PROVE  Ledger!Next \/ UNCHANGED <<sent, filled, dbExec>>
    <3>1. ASSUME NEW k \in Orders, SubmitEffect(r, k) PROVE Ledger!Send(k)
      <4>1. /\ market[k].st = "none" /\ market'[k].st = "accepted"
            /\ \A j \in Orders \ {k} : market'[j] = market[j]
            /\ UNCHANGED dbExec
          BY <3>1 DEF SubmitEffect
      <4>2. sent' = sent \cup {k} /\ k \notin sent
          BY <4>1
      <4>3. UNCHANGED filled
          BY <4>1
      <4> QED BY <4>1, <4>2, <4>3 DEF Ledger!Send
    <3>2. CASE CheckpointEffect(r) /\ pc[r] \in {"recordLate", "filled"}
      <4>1. /\ Records(r) /\ cur[r] \in Orders /\ UNCHANGED market
            /\ mem[r][cur[r]].st = "filled" /\ mem[r][cur[r]] # NoRow
            /\ pc[r] = "filled" => cur[r] \notin saved[r]
          BY <3>2 DEF CheckpointEffect, Books, HandPosted, InHand, IInv, FillKnown
      <4>2. market[cur[r]].st = "filled"
          BY <4>1 DEF IInv, MemoryTrue, True
      <4>3. dbExec[cur[r]] = 0
          BY <2>0, <3>2, <4>1 DEF Once, KnowsStored
      <4>4. dbExec' = [dbExec EXCEPT ![cur[r]] = 1]
        <5>1. \A j \in Orders : dbExec'[j] = IF j = cur[r] THEN 1 ELSE dbExec[j]
            BY <4>1, <4>3 DEF Records
        <5> QED BY <2>0, <5>1
      <4>5. UNCHANGED <<sent, filled>>
          BY <2>s, <4>1
      <4>6. Ledger!Record(cur[r])
          BY <4>1, <4>2, <4>3, <4>4, <4>5 DEF Ledger!Record
      <4> QED BY <4>1, <4>6 DEF Ledger!Next
    <3>3. CASE CheckpointEffect(r) /\ pc[r] = "unfilled"
        BY <2>s, <3>3 DEF CheckpointEffect
    <3>4. CASE UNCHANGED <<market, dbExec>>
        BY <2>s, <3>4
    <3>5. ASSUME NEW k \in Orders, SubmitEffect(r, k) PROVE Ledger!Next
        BY <3>1, <3>5 DEF Ledger!Next
    <3> HIDE DEF sent, filled
    <3>6. CASE CheckpointEffect(r)
        BY <3>2, <3>3, <3>6 DEF CheckpointEffect
    <3> QED BY <2>1, <3>4, <3>5, <3>6 DEF RunEffect, ControlEffect, LoadEffect,
               ResubmitEffect, ReconcileEffect, ReadEffect, Learns, SaveEffect,
               LeaveEffect, Evidence
  <2>2. ASSUME NEW k \in Orders, BrokerEffect(k)
        PROVE  Ledger!Next \/ UNCHANGED <<sent, filled, dbExec>>
    <3>1. /\ market[k].st \in {"accepted", "partially_filled"}
          /\ market'[k].st \in {"partially_filled", "filled", "canceled"}
          /\ \A j \in Orders \ {k} : market'[j] = market[j]
          /\ UNCHANGED dbExec
        BY <2>2 DEF BrokerEffect
    <3>2. UNCHANGED sent
        BY <3>1
    <3>3. CASE market'[k].st = "filled"
      <4>1. filled' = filled \cup {k} /\ k \in sent \ filled
          BY <3>1, <3>3
      <4>2. Ledger!Fill(k)
          BY <3>1, <3>2, <4>1 DEF Ledger!Fill
      <4> QED BY <4>2 DEF Ledger!Next
    <3>4. CASE market'[k].st # "filled"
      <4>1. UNCHANGED filled
          BY <3>1, <3>4
      <4> QED BY <3>1, <3>2, <4>1
    <3> QED BY <3>3, <3>4
  <2>3. CASE StillEffect
      BY <2>s, <2>3 DEF StillEffect, Evidence
  <2> QED BY <2>1, <2>2, <2>3, StepEffect
<1>3. Spec => []OneActive
    BY OneActiveAlways
<1>4. Spec => []Once
    BY OnceAlways
<1> QED BY <1>1, <1>2, <1>3, <1>4, InOrder, PTL
       DEF Spec, KeepsLedger, Ledger!Spec

-----------------------------------------------------------------------------
(* Sums over finite sets of orders.  The library folds in a sequence of    *)
(* its choice; the sum does not depend on it.                              *)

\* A nonempty set of naturals has a least element.
LEMMA Least ==
    ASSUME NEW T \in SUBSET Nat, T # {}
    PROVE  \E m \in T : \A n \in T : m <= n
<1>1. PICK m \in T : \A n \in T : ~(<<n, m>> \in OpToRel(<, Nat))
    BY NatLessThanWellFounded, WFMin, Zenon
<1>2. \A n \in T : ~(n < m)
    BY <1>1 DEF OpToRel
<1>3. \A n \in T : m <= n
    BY <1>2
<1> QED BY <1>3

\* Of finite sets of which some are bad, one is smallest.
LEMMA Smallest ==
    ASSUME NEW S, IsFiniteSet(S), NEW B \in SUBSET SUBSET S, B # {}
    PROVE  \E s \in B : \A x \in s : s \ {x} \notin B
<1> DEFINE T == {Cardinality(s) : s \in B}
<1>1. ASSUME NEW s \in B
      PROVE  IsFiniteSet(s) /\ Cardinality(s) \in Nat
    BY FS_Subset, FS_CardinalityType
<1>2. PICK m \in T : \A n \in T : m <= n
  <2>1. T \subseteq Nat /\ T # {}
      BY <1>1
  <2> HIDE DEF T
  <2> QED BY <2>1, Least
<1>3. PICK s \in B : m = Cardinality(s)
    BY <1>2
<1>4. ASSUME NEW x \in s, s \ {x} \in B PROVE FALSE
  <2>1. Cardinality(s \ {x}) = Cardinality(s) - 1
      BY <1>1, FS_RemoveElement
  <2>2. Cardinality(s) <= Cardinality(s \ {x})
      BY <1>2, <1>3, <1>4
  <2> QED BY <1>1, <2>1, <2>2
<1> QED BY <1>4

First(s) == CHOOSE x \in s : TRUE

\* iter sums F over the subsets of S.
Summing(iter, F, S) ==
    iter = [s \in SUBSET S |-> IF s = {} THEN 0
                               ELSE F[First(s)] + iter[s \ {First(s)}]]

Total(F, S) == (CHOOSE iter : Summing(iter, F, S))[S]

\* There are such sums: sums up to a number of elements extend to one more.
LEMMA SummingExists ==
    ASSUME NEW S, IsFiniteSet(S), NEW F, \A x \in S : F[x] \in Int
    PROVE  \E iter : Summing(iter, F, S)
<1> DEFINE Right(g, s) == g[s] = IF s = {} THEN 0 ELSE F[First(s)] + g[s \ {First(s)}]
           Upto(g, n) == /\ g \in [SUBSET S -> Int]
                         /\ \A s \in SUBSET S : Cardinality(s) <= n => Right(g, s)
           T == {n \in Nat : ~\E g : Upto(g, n)}
<1>0. ASSUME NEW s \in SUBSET S
      PROVE  /\ Cardinality(s) \in Nat /\ (Cardinality(s) = 0 <=> s = {})
             /\ s # {} => /\ First(s) \in s /\ s \ {First(s)} \in SUBSET S
                          /\ Cardinality(s \ {First(s)}) = Cardinality(s) - 1
  <2>1. IsFiniteSet(s)
      BY FS_Subset
  <2>2. Cardinality(s) \in Nat /\ (Cardinality(s) = 0 <=> s = {})
      BY <2>1, FS_CardinalityType, FS_EmptySet
  <2>3. s # {} => First(s) \in s
      BY DEF First
  <2> QED BY <2>1, <2>2, <2>3, FS_RemoveElement
<1>1. T = {}
  <2>1. SUFFICES ASSUME T # {} PROVE FALSE
      OBVIOUS
  <2>2. PICK n \in T : \A m \in T : n <= m
    <3>1. T \subseteq Nat
        OBVIOUS
    <3> HIDE DEF T
    <3> QED BY <2>1, <3>1, Least
  <2>3. n # 0
    <3> DEFINE z == [s \in SUBSET S |-> 0]
    <3>1. ASSUME NEW s \in SUBSET S, Cardinality(s) <= 0 PROVE Right(z, s)
      <4>1. Cardinality(s) \in Nat /\ (Cardinality(s) = 0 <=> s = {})
          BY <1>0
      <4>2. s = {}
        <5> HIDE DEF T
        <5> QED BY <3>1, <4>1
      <4> QED BY <4>2
    <3>2. z \in [SUBSET S -> Int]
        OBVIOUS
    <3>3. Upto(z, 0)
        BY <3>1, <3>2
    <3>4. 0 \notin T
        BY <3>3
    <3> QED BY <2>2, <3>4
  <2>4. PICK g : Upto(g, n - 1)
    <3>1. n - 1 \in Nat /\ ~(n <= n - 1)
        BY <2>2, <2>3
    <3> QED BY <2>2, <3>1
  <2> DEFINE h == [s \in SUBSET S |-> IF Cardinality(s) <= n - 1 THEN g[s]
                       ELSE F[First(s)] + g[s \ {First(s)}]]
  <2>5. n \in Nat
      BY <2>2
  <2>6. ASSUME NEW s \in SUBSET S PROVE h[s] \in Int
    <3>1. CASE Cardinality(s) <= n - 1
        BY <2>4, <3>1
    <3>2. CASE ~(Cardinality(s) <= n - 1)
      <4>1. Cardinality(s) \in Nat /\ (Cardinality(s) = 0 <=> s = {})
          BY <1>0
      <4>2. s # {}
        <5> HIDE DEF T
        <5> QED BY <2>3, <2>5, <3>2, <4>1
      <4>3. First(s) \in S /\ s \ {First(s)} \in SUBSET S
          BY <1>0, <4>2
      <4> QED BY <2>4, <3>2, <4>3
    <3> QED BY <3>1, <3>2
  <2>7. ASSUME NEW s \in SUBSET S, Cardinality(s) <= n PROVE Right(h, s)
    <3>1. CASE s = {}
        BY <1>0, <2>3, <2>4, <2>5, <3>1
    <3>2. CASE s # {}
      <4> DEFINE r == s \ {First(s)}
      <4>1. r \in SUBSET S /\ Cardinality(r) <= n - 1
          BY <1>0, <2>5, <2>7, <3>2
      <4>2. h[r] = g[r]
          BY <4>1
      <4>3. h[s] = F[First(s)] + g[r]
          BY <2>4, <3>2
      <4> QED BY <3>2, <4>2, <4>3
    <3> QED BY <3>1, <3>2
  <2>8. h \in [SUBSET S -> Int]
      BY <2>6
  <2> HIDE DEF h
  <2>9. Upto(h, n)
      BY <2>7, <2>8
  <2> QED BY <2>2, <2>9
<1>2. PICK g : Upto(g, Cardinality(S))
  <2>1. Cardinality(S) \in Nat
      BY FS_CardinalityType
  <2> QED BY <1>1, <2>1
<1>3. \A s \in SUBSET S : Right(g, s)
    BY <1>2, FS_Subset
<1>4. Summing(g, F, S)
    BY <1>2, <1>3 DEF Summing
<1> QED BY <1>4

\* A sum has integer values and does not depend on which element goes first.
LEMMA SummingAny ==
    ASSUME NEW S, IsFiniteSet(S), NEW F, \A x \in S : F[x] \in Int,
           NEW iter, Summing(iter, F, S)
    PROVE  /\ iter[{}] = 0
           /\ \A s \in SUBSET S : iter[s] \in Int
           /\ \A s \in SUBSET S : \A x \in s : iter[s] = F[x] + iter[s \ {x}]
<1>1. ASSUME NEW s \in SUBSET S
      PROVE  iter[s] = IF s = {} THEN 0 ELSE F[First(s)] + iter[s \ {First(s)}]
    BY DEF Summing
<1>2. iter[{}] = 0
    BY <1>1
<1>3. ASSUME NEW s \in SUBSET S, s # {}
      PROVE  First(s) \in s /\ F[First(s)] \in Int
    BY <1>3 DEF First
<1>4. \A s \in SUBSET S : iter[s] \in Int
  <2> DEFINE B == {s \in SUBSET S : iter[s] \notin Int}
  <2>1. SUFFICES ASSUME B # {} PROVE FALSE
      OBVIOUS
  <2>2. PICK s \in B : \A x \in s : s \ {x} \notin B
    <3>1. B \in SUBSET SUBSET S
        OBVIOUS
    <3> HIDE DEF B
    <3> QED BY <2>1, <3>1, Smallest
  <2>3. CASE s = {}
      BY <1>2, <2>2, <2>3
  <2>4. CASE s # {}
    <3>1. First(s) \in s /\ F[First(s)] \in Int /\ s \ {First(s)} \notin B
        BY <1>3, <2>2, <2>4
    <3>2. iter[s \ {First(s)}] \in Int
        BY <2>2, <3>1
    <3> QED BY <1>1, <2>2, <2>4, <3>1, <3>2
  <2> QED BY <2>3, <2>4
<1>5. \A s \in SUBSET S : \A x \in s : iter[s] = F[x] + iter[s \ {x}]
  <2> DEFINE B == {s \in SUBSET S : \E x \in s : iter[s] # F[x] + iter[s \ {x}]}
  <2>1. SUFFICES ASSUME B # {} PROVE FALSE
      OBVIOUS
  <2>2. PICK s \in B : \A x \in s : s \ {x} \notin B
    <3>1. B \in SUBSET SUBSET S
        OBVIOUS
    <3> HIDE DEF B
    <3> QED BY <2>1, <3>1, Smallest
  <2>3. PICK x \in s : iter[s] # F[x] + iter[s \ {x}]
      BY <2>2
  <2> DEFINE c == First(s)
  <2>4. s \in SUBSET S /\ c \in s /\ iter[s] = F[c] + iter[s \ {c}]
      BY <1>1, <1>3, <2>2, <2>3
  <2> HIDE DEF c
  <2>5. c # x
      BY <2>3, <2>4
  <2>6. iter[s \ {c}] = F[x] + iter[(s \ {c}) \ {x}]
      BY <2>2, <2>4, <2>5
  <2>7. iter[s \ {x}] = F[c] + iter[(s \ {x}) \ {c}]
      BY <2>2, <2>4, <2>5
  <2>8. (s \ {c}) \ {x} = (s \ {x}) \ {c} /\ (s \ {x}) \ {c} \in SUBSET S
      BY <2>4
  <2>9. F[x] \in Int /\ F[c] \in Int /\ iter[(s \ {x}) \ {c}] \in Int
      BY <1>4, <2>3, <2>4, <2>8
  <2>10. \A a, b, e \in Int : a + (b + e) = b + (a + e)
      OBVIOUS
  <2>11. F[c] + (F[x] + iter[(s \ {x}) \ {c}]) = F[x] + (F[c] + iter[(s \ {x}) \ {c}])
      BY <2>9, <2>10
  <2>12. iter[s \ {c}] = F[x] + iter[(s \ {x}) \ {c}]
      BY <2>6, <2>8
  <2> QED BY <2>3, <2>4, <2>7, <2>11, <2>12
<1> QED BY <1>2, <1>4, <1>5

\* Sums of functions that agree on a set agree.
LEMMA SummingAgree ==
    ASSUME NEW S, IsFiniteSet(S), NEW F, NEW G, \A x \in S : F[x] = G[x],
           NEW D, S \subseteq D, NEW iter, NEW jter,
           Summing(iter, F, S), Summing(jter, G, D)
    PROVE  iter[S] = jter[S]
<1> DEFINE B == {s \in SUBSET S : iter[s] # jter[s]}
<1>1. SUFFICES ASSUME B # {} PROVE FALSE
    OBVIOUS
<1>2. PICK s \in B : \A x \in s : s \ {x} \notin B
  <2>1. B \in SUBSET SUBSET S
      OBVIOUS
  <2> HIDE DEF B
  <2> QED BY <1>1, <2>1, Smallest
<1>3. /\ s \in SUBSET S /\ s \in SUBSET D /\ iter[s] # jter[s]
      /\ s # {} => First(s) \in s
    BY <1>2 DEF First
<1>4. iter[s] = IF s = {} THEN 0 ELSE F[First(s)] + iter[s \ {First(s)}]
    BY <1>3 DEF Summing
<1>5. jter[s] = IF s = {} THEN 0 ELSE G[First(s)] + jter[s \ {First(s)}]
    BY <1>3 DEF Summing
<1>6. s # {} => /\ F[First(s)] = G[First(s)]
                /\ iter[s \ {First(s)}] = jter[s \ {First(s)}]
    BY <1>2, <1>3
<1> QED BY <1>3, <1>4, <1>5, <1>6

\* What a sum over a finite set of orders is: an element more or less, and
\* nothing but the values counts.
LEMMA TotalRules ==
    ASSUME NEW S, IsFiniteSet(S), NEW F, \A x \in S : F[x] \in Int
    PROVE  /\ Total(F, S) \in Int
           /\ \A x \in S : Total(F, S) = F[x] + Total(F, S \ {x})
           /\ \A G : (\A x \in S : F[x] = G[x]) => Total(F, S) = Total(G, S)
<1> DEFINE sum(H, D) == CHOOSE iter : Summing(iter, H, D)
<1>1. ASSUME NEW D \in SUBSET S, NEW H, \A x \in D : H[x] \in Int
      PROVE  Summing(sum(H, D), H, D) /\ IsFiniteSet(D)
  <2>1. IsFiniteSet(D)
      BY FS_Subset
  <2>2. \E iter : Summing(iter, H, D)
      BY <1>1, <2>1, SummingExists
  <2> QED BY <2>1, <2>2
<1>2. \A D, H : Total(H, D) = sum(H, D)[D]
    BY DEF Total
<1>3. Summing(sum(F, S), F, S)
    BY <1>1
<1> HIDE DEF sum
<1>4. Total(F, S) \in Int
    BY <1>2, <1>3, SummingAny
<1>5. ASSUME NEW x \in S PROVE Total(F, S) = F[x] + Total(F, S \ {x})
  <2>1. sum(F, S)[S] = F[x] + sum(F, S)[S \ {x}]
      BY <1>3, SummingAny
  <2>2. Summing(sum(F, S \ {x}), F, S \ {x}) /\ IsFiniteSet(S \ {x})
      BY <1>1
  <2>3. sum(F, S \ {x})[S \ {x}] = sum(F, S)[S \ {x}]
      BY <1>3, <2>2, SummingAgree
  <2> QED BY <1>2, <2>1, <2>3
<1>6. ASSUME NEW G, \A x \in S : F[x] = G[x] PROVE Total(F, S) = Total(G, S)
  <2>1. Summing(sum(G, S), G, S)
      BY <1>1, <1>6
  <2>2. sum(F, S)[S] = sum(G, S)[S]
      BY <1>3, <1>6, <2>1, SummingAgree
  <2> QED BY <1>2, <2>2
<1> QED BY <1>4, <1>5, <1>6

\* The orders of a ticker among the first i fills.
FilledOf(t, i) == {k \in Orders : TickerOf[k] = t /\ \E j \in 1..i : fillSeq[j] = k}

\* The replay is such a sum.
LEMMA NetIsTotal ==
    ASSUME NEW i \in Nat, NEW t \in Tickers, NEW events,
           \A k \in FilledOf(t, i) : events[k] \in Int
    PROVE  /\ IsFiniteSet(FilledOf(t, i))
           /\ \A k \in FilledOf(t, i) : events[k] * Signed(k) \in Int
           /\ Net(events, i)[t]
                = Total([k \in Orders |-> events[k] * Signed(k)], FilledOf(t, i))
<1> DEFINE D == FilledOf(t, i)
           F == [k \in Orders |-> events[k] * Signed(k)]
           Raw(iter) == iter = [s \in SUBSET D |-> IF s = {} THEN 0
                                  ELSE events[First(s)] * Signed(First(s))
                                         + iter[s \ {First(s)}]]
<1>1. IsFiniteSet(D)
  <2> DEFINE f == [j \in 1..i |-> fillSeq[j]]
             T == {f[j] : j \in 1..i}
  <2>1. f \in Surjection(1..i, T)
      BY DEF Surjection
  <2>2. IsFiniteSet(T)
      BY <2>1, FS_Interval, FS_Surjection DEF ExistsSurjection
  <2>3. D \subseteq T
      BY DEF FilledOf
  <2> QED BY <2>2, <2>3, FS_Subset
<1>2. \A k \in D : k \in Orders /\ events[k] * Signed(k) \in Int
  <2>1. ASSUME NEW k \in D PROVE k \in Orders /\ events[k] \in Int
      BY DEF FilledOf
  <2>2. ASSUME NEW k \in Orders PROVE Signed(k) \in Int
    <3>1. Qty[k] \in Int /\ (Side[k] = 1 \/ Side[k] = -1)
        OBVIOUS
    <3> QED BY <3>1 DEF Signed
  <2>3. \A a, b \in Int : a * b \in Int
      OBVIOUS
  <2> QED BY <2>1, <2>2, <2>3
<1>3. \A x \in D : F[x] \in Int
    BY <1>2
<1>4. Net(events, i)[t] = (CHOOSE iter : Raw(iter))[D]
    BY DEF Net, MapThenSumSet, MapThenFoldSet, FilledOf, First
<1>5. ASSUME NEW iter PROVE Raw(iter) <=> Summing(iter, F, D)
  <2>1. \A s \in SUBSET D : s # {} => First(s) \in D
      BY DEF First
  <2>2. \A s \in SUBSET D : s # {} => F[First(s)] = events[First(s)] * Signed(First(s))
      BY <1>2, <2>1
  <2> HIDE DEF F, D
  <2> QED BY <2>2 DEF Summing
<1> HIDE DEF D, F, Raw
<1>6. PICK g : Summing(g, F, D)
    BY <1>1, <1>3, SummingExists
<1> DEFINE a == CHOOSE iter : Raw(iter)
           b == CHOOSE iter : Summing(iter, F, D)
<1>7. Summing(a, F, D)
    BY <1>5, <1>6
<1>8. Summing(b, F, D)
    BY <1>6
<1>9. Net(events, i)[t] = a[D] /\ Total(F, D) = b[D]
    BY <1>4 DEF Total
<1> HIDE DEF a, b
<1>10. a[D] = b[D]
    BY <1>1, <1>7, <1>8, SummingAgree
<1> QED BY <1>1, <1>2, <1>9, <1>10 DEF D, F

-----------------------------------------------------------------------------
(* The account is the sum of what the orders filled, and a sync that finds *)
(* the market at rest finds all of it recorded.                            *)

\* How much of an order has filled, by its status.
QtyFits ==
    \A k \in Orders :
        /\ market[k].st \in {"none", "accepted"} => market[k].qty = 0
        /\ market[k].st = "partially_filled" => market[k].qty \in 1..(Qty[k] - 1)
        /\ market[k].st = "filled" => market[k].qty = Qty[k]
        /\ market[k].st = "canceled" => market[k].qty \in 0..(Qty[k] - 1)

FillsOnly == \A i \in 1..Len(fillSeq) : market[fillSeq[i]].st = "filled"

Held(t) == {k \in Orders : TickerOf[k] = t /\ market[k].qty # 0}
Shares  == [k \in Orders |-> Side[k] * market[k].qty]

AccountFits ==
    \A t \in Tickers : IsFiniteSet(Held(t)) /\ account[t] = Total(Shares, Held(t))

BrokerFits == QtyFits /\ FillsOnly /\ AccountFits

\* The shares of an order, signed.
LEMMA SharesTyped ==
    ASSUME TypeOK, NEW k \in Orders
    PROVE  Shares[k] \in Int
<1>1. market[k].qty \in Int /\ (Side[k] = 1 \/ Side[k] = -1)
    BY DEF TypeOK
<1>2. Side[k] * market[k].qty \in Int
    BY <1>1
<1> QED BY <1>2 DEF Shares

\* A fill enters the account once.
LEMMA AccountStep ==
    ASSUME TypeOK, TypeOK', AccountFits, NEW k \in Orders, NEW q \in 1..Qty[k],
           NEW st \in Statuses, FillUpTo(k, q, st)
    PROVE  AccountFits'
<1>0. /\ market'[k].qty = q /\ \A j \in Orders \ {k} : market'[j] = market[j]
    BY DEF TypeOK, FillUpTo
<1>1. /\ \A j \in Orders \ {k} : Shares'[j] = Shares[j]
      /\ \A j \in Orders : Shares[j] \in Int /\ Shares'[j] \in Int
      /\ Shares[k] = Side[k] * market[k].qty /\ Shares'[k] = Side[k] * q
  <2>1. \A j \in Orders : Shares[j] \in Int
      BY SharesTyped
  <2>2. \A j \in Orders : Shares'[j] \in Int
    <3> SUFFICES ASSUME NEW j \in Orders PROVE Side[j] * market'[j].qty \in Int
        BY DEF Shares
    <3>1. market' \in [Orders -> [st : Statuses, qty : Nat]]
        BY DEF TypeOK
    <3>2. market'[j].qty \in Nat
      <4> HIDE DEF Statuses
      <4> QED BY <3>1
    <3>3. Side[j] = 1 \/ Side[j] = -1
        OBVIOUS
    <3> QED BY <3>2, <3>3
  <2> QED BY <1>0, <2>1, <2>2 DEF Shares
<1>2. ASSUME NEW t \in Tickers, t # TickerOf[k]
      PROVE  IsFiniteSet(Held(t)') /\ account'[t] = Total(Shares', Held(t)')
  <2>1. Held(t)' = Held(t)
      BY <1>0, <1>2 DEF Held
  <2>2. account'[t] = account[t]
      BY <1>2 DEF FillUpTo, TypeOK
  <2>3. \A x \in Held(t) : Shares[x] \in Int /\ Shares[x] = Shares'[x]
      BY <1>1, <1>2 DEF Held
  <2>4. Total(Shares, Held(t)) = Total(Shares', Held(t))
      BY <2>3, TotalRules DEF AccountFits
  <2> QED BY <2>1, <2>2, <2>4 DEF AccountFits
<1>3. ASSUME NEW t \in Tickers, t = TickerOf[k]
      PROVE  IsFiniteSet(Held(t)') /\ account'[t] = Total(Shares', Held(t)')
  <2> DEFINE rest == Held(t) \ {k}
  <2>1. Held(t)' = rest \cup {k} /\ k \notin rest /\ (k \in Held(t) => Held(t) = rest \cup {k})
        /\ (k \notin Held(t) => Held(t) = rest)
      BY <1>0, <1>3 DEF Held
  <2>2. IsFiniteSet(rest) /\ IsFiniteSet(rest \cup {k})
    <3>1. IsFiniteSet(rest)
        BY FS_Subset DEF AccountFits
    <3> HIDE DEF rest
    <3> QED BY <3>1, FS_AddElement
  <2>3. \A x \in rest : x \in Orders /\ Shares[x] \in Int /\ Shares[x] = Shares'[x]
      BY <1>1 DEF Held
  <2>4. Total(Shares, rest) \in Int /\ Total(Shares', rest) = Total(Shares, rest)
    <3> HIDE DEF rest
    <3> QED BY <2>2, <2>3, TotalRules
  <2>5. (rest \cup {k}) \ {k} = rest
      BY <2>1
  <2>6. account[t] = Shares[k] + Total(Shares, rest)
    <3>1. CASE k \in Held(t)
      <4>1. \A x \in Held(t) : Shares[x] \in Int
          BY <1>1 DEF Held
      <4>2. Total(Shares, Held(t)) = Shares[k] + Total(Shares, rest)
          BY <3>1, <4>1, TotalRules DEF AccountFits
      <4> QED BY <4>2 DEF AccountFits
    <3>2. CASE k \notin Held(t)
      <4>1. market[k].qty = 0 /\ (Side[k] = 1 \/ Side[k] = -1)
          BY <1>3, <3>2 DEF Held
      <4>2. Shares[k] = 0
          BY <1>1, <4>1
      <4>3. account[t] = Total(Shares, rest)
          BY <2>1, <3>2 DEF AccountFits
      <4> HIDE DEF rest
      <4> QED BY <2>4, <4>2, <4>3
    <3> QED BY <3>1, <3>2
  <2>7. Total(Shares', rest \cup {k}) = Shares'[k] + Total(Shares', rest)
    <3> HIDE DEF rest
    <3>1. \A x \in rest \cup {k} : Shares'[x] \in Int
        BY <1>1, <2>3
    <3>2. Total(Shares', rest \cup {k}) = Shares'[k] + Total(Shares', (rest \cup {k}) \ {k})
        BY <2>2, <3>1, TotalRules
    <3> QED BY <2>5, <3>2
  <2>8. account'[t] = account[t] + Side[k] * (q - market[k].qty)
      BY <1>3 DEF FillUpTo, TypeOK
  <2>9. Side[k] * (q - market[k].qty) = Shares'[k] - Shares[k]
    <3>1. market[k].qty \in Nat
        BY DEF TypeOK
    <3>2. q \in Int /\ (Side[k] = 1 \/ Side[k] = -1)
        OBVIOUS
    <3> QED BY <1>1, <3>1, <3>2
  <2> HIDE DEF rest
  <2>10. account'[t] = Shares'[k] + Total(Shares, rest)
      BY <1>1, <2>4, <2>6, <2>8, <2>9
  <2> QED BY <2>1, <2>2, <2>4, <2>7, <2>10
<1>4. ASSUME NEW t \in Tickers
      PROVE  IsFiniteSet(Held(t)') /\ account'[t] = Total(Shares', Held(t)')
    BY <1>2, <1>3
<1> QED BY <1>4 DEF AccountFits

\* What a step of run r does to its sync and to the broker's shares.
SyncEffect(r) ==
    /\ UNCHANGED <<account, fillSeq>>
    /\ \A k \in Orders : market'[k].qty = market[k].qty
    /\ \A q \in Runs \ {r} : sync'[q] = sync[q]
    /\ sync'[r].start \in {0, Len(fillSeq), sync[r].start}
    /\ \/ sync'[r].asOf \in {0, sync[r].start, sync[r].asOf}
       \/ pc[r] = "saveFill" /\ sync'[r].asOf = FillTime(cur[r])
    /\ pc'[r] = "reconcile" /\ pc[r] # "saveLate" =>
           \A k \in Orders : NewVisible(r, k).st \notin Terminal \cup {"none"}
                                => \E o \in todo'[r] : o.key = k
    /\ \/ pc'[r] \in {"recordLate", "saveLate", "validate"}
       \/ pc'[r] = "reconcile" /\ pc[r] = "saveLate"
       => sync'[r].asOf = sync[r].asOf
    /\ pc'[r] = "validate" => sync'[r].seen = account

\* Every order that is open is loaded.
LEMMA RefreshableComplete ==
    ASSUME NEW r \in Runs, todo \in [Runs -> SUBSET [key : Orders, linked : BOOLEAN]],
           \/ todo' = [todo EXCEPT ![r] = Refreshable(r)] /\ UNCHANGED <<pend, dbOrder>>
           \/ todo' = [todo EXCEPT ![r] = Refreshable(r)'],
           NEW k \in Orders, NewVisible(r, k).st \notin Terminal \cup {"none"}
    PROVE  \E o \in todo'[r] : o.key = k
<1>1. CASE todo' = [todo EXCEPT ![r] = Refreshable(r)] /\ UNCHANGED <<pend, dbOrder>>
  <2>1. todo'[r] = Refreshable(r)
      BY <1>1
  <2>2. Visible(r, k) = NewVisible(r, k)
      BY <1>1 DEF Visible, NewVisible
  <2>3. [key |-> k, linked |-> Visible(r, k).linked] \in Refreshable(r)
      BY <2>2 DEF Refreshable
  <2> QED BY <2>1, <2>3
<1>2. CASE todo' = [todo EXCEPT ![r] = Refreshable(r)']
  <2>1. todo'[r] = Refreshable(r)'
      BY <1>2
  <2>2. [key |-> k, linked |-> NewVisible(r, k).linked] \in Refreshable(r)'
      BY DEF Refreshable, Visible, NewVisible
  <2> QED BY <2>1, <2>2
<1> QED BY <1>1, <1>2

\* Each step of a run has that effect.
LEMMA RunStepSync ==
    ASSUME IInv, NEW r \in Runs,
           Start(r) \/ RunStep(r) \/ HttpError(r) \/ Crash(r)
    PROVE  SyncEffect(r)
<1> USE DEF brokerVars, dbVars, txVars, Goto
<1>0. /\ pc \in [Runs -> Steps] /\ cur \in [Runs -> Orders \cup {NoOrder}]
      /\ todo \in [Runs -> SUBSET [key : Orders, linked : BOOLEAN]]
      /\ market \in [Orders -> [st : Statuses, qty : Nat]]
      /\ sync \in [Runs -> [start : Nat, asOf : Nat, persist : BOOLEAN,
                            seen : [Tickers -> Int]]]
    BY DEF IInv, TypeOK
<1>1. CASE Start(r)
    BY <1>0, <1>1 DEF SyncEffect, Start, Idle
<1>2. CASE \/ AcceptSync(r) \/ RejectSync(r)
           \/ RejectAmbiguous(r) \/ HttpError(r) \/ AlreadyStored(r)
           \/ ReconcileOrder(r) \/ RecordLateFill(r) \/ SaveReconciled(r)
           \/ Poll(r) \/ RefreshSubmitted(r) \/ CheckpointOrder(r)
           \/ CheckpointFill(r) \/ SaveSubmitted(r)
  <2>1. UNCHANGED <<market, account, fillSeq, sync>>
      BY <1>2 DEF AcceptSync, RejectSync, RejectAmbiguous, HttpError, AlreadyStored,
             ReconcileOrder, RecordLateFill, SaveReconciled, Poll, RefreshSubmitted,
             CheckpointOrder, CheckpointFill, SaveSubmitted
  <2>2. pc'[r] # "validate" /\ (pc'[r] = "reconcile" => pc[r] = "saveLate")
      BY <1>0, <1>2 DEF AcceptSync, RejectSync, RejectAmbiguous, HttpError, AlreadyStored,
             ReconcileOrder, RecordLateFill, SaveReconciled, Poll, RefreshSubmitted,
             CheckpointOrder, CheckpointFill, SaveSubmitted
  <2> QED BY <2>1, <2>2 DEF SyncEffect
<1>3. CASE FetchPositions(r)
    BY <1>0, <1>3 DEF SyncEffect, FetchPositions
<1>4. CASE FirstSync(r) \/ ReapproveFallback(r)
  <2>1. \A k \in Orders : NewVisible(r, k).st \notin Terminal \cup {"none"}
                             => \E o \in todo'[r] : o.key = k
      BY <1>0, <1>4, RefreshableComplete DEF FirstSync, ReapproveFallback
  <2>2. PICK persist \in BOOLEAN : BeginSync(r, sync[r].start, persist)
      BY <1>4 DEF FirstSync, ReapproveFallback
  <2>3. sync'[r].start = sync[r].start /\ sync'[r].asOf = sync[r].start
        /\ (\A q \in Runs \ {r} : sync'[q] = sync[q]) /\ pc'[r] = "reconcile"
      BY <1>0, <2>2 DEF BeginSync
  <2>4. UNCHANGED <<market, account, fillSeq>> /\ pc[r] # "saveLate"
      BY <1>4 DEF FirstSync, ReapproveFallback
  <2> QED BY <2>1, <2>3, <2>4 DEF SyncEffect
<1>5. CASE SaveFillAndSync(r)
  <2>1. \A k \in Orders : NewVisible(r, k).st \notin Terminal \cup {"none"}
                             => \E o \in todo'[r] : o.key = k
      BY <1>0, <1>5, RefreshableComplete DEF SaveFillAndSync
  <2> QED BY <1>0, <1>5, <2>1 DEF SyncEffect, SaveFillAndSync, BeginSync
<1>6. ASSUME NEW k \in Orders, Submit(r, k) PROVE SyncEffect(r)
  <2>1. UNCHANGED <<account, fillSeq, sync>>
        /\ \A j \in Orders : market'[j].qty = market[j].qty
    <3>1. CASE SubmitNew(r, k)
      <4>1. market' = [market EXCEPT ![k].st = "accepted"]
            /\ UNCHANGED <<account, fillSeq, sync>>
          BY <3>1 DEF SubmitNew
      <4> HIDE DEF Statuses
      <4> QED BY <1>0, <4>1
    <3> QED BY <1>6, <3>1 DEF Submit, SubmitCached, SubmitDuplicate, RejectLocally
  <2>2. pc'[r] \notin {"validate", "reconcile"}
      BY <1>0, <1>6 DEF Submit, SubmitCached, SubmitNew, SubmitDuplicate, RejectLocally,
             NextDecision
  <2> QED BY <2>1, <2>2 DEF SyncEffect
<1>7. CASE Commit(r) \/ Rollback(r) \/ Crash(r)
    BY <1>0, <1>7 DEF SyncEffect, Commit, Rollback, Crash, Leave, Idle
<1> QED BY <1>1, <1>2, <1>3, <1>4, <1>5, <1>6, <1>7 DEF RunStep, SyncStep, ExecuteStep

\* What a step of the broker does to the shares of order k.
ShareEffect(k) ==
    /\ UNCHANGED sync
    /\ \/ fillSeq' = Append(fillSeq, k) /\ market'[k].st = "filled"
       \/ /\ UNCHANGED fillSeq
          /\ market'[k].st = "partially_filled" /\ market'[k].qty \in 1..(Qty[k] - 1)
       \/ /\ UNCHANGED <<fillSeq, account>>
          /\ market'[k].st = "canceled" /\ market'[k].qty = market[k].qty

\* The broker keeps its own books.
LEMMA BrokerStepFits ==
    ASSUME IInv, IInv', BrokerFits, NEW k \in Orders, BrokerStep(k)
    PROVE  BrokerFits' /\ ShareEffect(k)
<1>0. /\ market \in [Orders -> [st : Statuses, qty : Nat]]
      /\ fillSeq \in Seq(Orders) /\ TypeOK /\ TypeOK' /\ Qty[k] \in Nat \ {0}
      /\ QtyFits /\ FillsOnly /\ AccountFits
    BY DEF IInv, TypeOK, BrokerFits
<1>1. CASE PartialFill(k)
  <2>1. PICK q \in 1..(Qty[k] - 1) : FillUpTo(k, q, "partially_filled")
      BY <1>1 DEF PartialFill
  <2>2. AccountFits'
      BY <1>0, <2>1, AccountStep
  <2>3. /\ market'[k].st = "partially_filled" /\ market'[k].qty = q
        /\ \A j \in Orders \ {k} : market'[j] = market[j]
        /\ market[k].st # "filled" /\ UNCHANGED <<fillSeq, sync>>
      BY <1>0, <1>1, <2>1 DEF FillUpTo, PartialFill, runVars
  <2>4. QtyFits'
      BY <1>0, <2>3 DEF QtyFits
  <2>5. FillsOnly'
    <3> SUFFICES ASSUME NEW i \in 1..Len(fillSeq) PROVE market'[fillSeq[i]].st = "filled"
        BY <2>3 DEF FillsOnly
    <3>1. fillSeq[i] \in Orders /\ market[fillSeq[i]].st = "filled"
        BY <1>0 DEF FillsOnly
    <3> QED BY <2>3, <3>1
  <2> QED BY <2>2, <2>3, <2>4, <2>5 DEF BrokerFits, ShareEffect
<1>2. CASE Fill(k)
  <2>1. FillUpTo(k, Qty[k], "filled")
      BY <1>2 DEF Fill
  <2>2. AccountFits'
      BY <1>0, <2>1, AccountStep
  <2>3. /\ market'[k].st = "filled" /\ market'[k].qty = Qty[k]
        /\ \A j \in Orders \ {k} : market'[j] = market[j]
        /\ fillSeq' = Append(fillSeq, k) /\ UNCHANGED sync
      BY <1>0, <1>2, <2>1 DEF FillUpTo, Fill, runVars
  <2>4. QtyFits'
      BY <1>0, <2>3 DEF QtyFits
  <2>5. FillsOnly'
    <3> SUFFICES ASSUME NEW i \in 1..Len(fillSeq') PROVE market'[fillSeq'[i]].st = "filled"
        BY DEF FillsOnly
    <3>1. CASE i = Len(fillSeq) + 1
        BY <1>0, <2>3, <3>1
    <3>2. CASE i \in 1..Len(fillSeq)
      <4>1. fillSeq'[i] = fillSeq[i] /\ fillSeq[i] \in Orders
            /\ market[fillSeq[i]].st = "filled"
          BY <1>0, <2>3, <3>2 DEF FillsOnly
      <4> QED BY <2>3, <4>1
    <3> QED BY <1>0, <2>3, <3>1, <3>2
  <2> QED BY <2>2, <2>3, <2>4, <2>5 DEF BrokerFits, ShareEffect
<1>3. CASE Cancel(k)
  <2>1. /\ market'[k].st = "canceled" /\ market'[k].qty = market[k].qty
        /\ \A j \in Orders \ {k} : market'[j] = market[j]
        /\ market[k].st \in {"accepted", "partially_filled"}
        /\ UNCHANGED <<fillSeq, account, sync>>
      BY <1>0, <1>3 DEF Cancel, runVars
  <2>2. QtyFits'
    <3>1. market[k].qty \in 0..(Qty[k] - 1)
        BY <1>0, <2>1 DEF QtyFits
    <3> QED BY <1>0, <2>1, <3>1 DEF QtyFits
  <2>3. FillsOnly'
    <3> SUFFICES ASSUME NEW i \in 1..Len(fillSeq) PROVE market'[fillSeq[i]].st = "filled"
        BY <2>1 DEF FillsOnly
    <3>1. fillSeq[i] \in Orders /\ market[fillSeq[i]].st = "filled"
        BY <1>0 DEF FillsOnly
    <3> QED BY <2>1, <3>1
  <2>4. \A j \in Orders : market'[j].qty = market[j].qty
      BY <2>1
  <2>5. Shares' = Shares /\ \A t \in Tickers : Held(t)' = Held(t)
      BY <2>4 DEF Shares, Held
  <2>6. AccountFits'
      BY <1>0, <2>1, <2>5 DEF AccountFits
  <2> QED BY <2>1, <2>2, <2>3, <2>6 DEF BrokerFits, ShareEffect
<1> QED BY <1>1, <1>2, <1>3 DEF BrokerStep

\* A run moves no shares.
LEMMA RunStepFits ==
    ASSUME IInv, IInv', BrokerFits, NEW r \in Runs, RunEffect(r), SyncEffect(r)
    PROVE  /\ BrokerFits'
           /\ \A k \in Orders : market'[k].st = "filled" <=> market[k].st = "filled"
<1>0. /\ fillSeq \in Seq(Orders) /\ UNCHANGED <<fillSeq, account>>
      /\ \A j \in Orders : market'[j].qty = market[j].qty
      /\ QtyFits /\ FillsOnly /\ AccountFits
    BY DEF IInv, TypeOK, BrokerFits, SyncEffect
<1>1. \/ UNCHANGED market
      \/ \E k \in Orders : /\ market[k].st = "none" /\ market'[k].st = "accepted"
                           /\ \A j \in Orders \ {k} : market'[j] = market[j]
    BY DEF RunEffect, ControlEffect, LoadEffect, ResubmitEffect, SubmitEffect,
           ReconcileEffect, ReadEffect, Learns, CheckpointEffect, SaveEffect,
           LeaveEffect, Evidence
<1>2. QtyFits'
    BY <1>0, <1>1 DEF QtyFits
<1>3. \A k \in Orders : market'[k].st = "filled" <=> market[k].st = "filled"
    BY <1>1
<1>4. FillsOnly'
    BY <1>0, <1>3 DEF FillsOnly
<1>5. Shares' = Shares /\ \A t \in Tickers : Held(t)' = Held(t)
    BY <1>0 DEF Shares, Held
<1>6. AccountFits'
    BY <1>0, <1>5 DEF AccountFits
<1> QED BY <1>2, <1>3, <1>4, <1>6 DEF BrokerFits

Catching == {"reconcile", "recordLate", "saveLate", "validate"}

\* Run r will record the fill of order k in this sync, or has done so.
Caught(r, k) ==
    \/ \E o \in todo[r] : o.key = k
    \/ cur[r] = k /\ pc[r] \in {"recordLate", "saveLate"}
    \/ Visible(r, k).st = "filled"

\* As long as nothing fills after its as_of, a sync catches every fill it can
\* see; and the positions it has read are those of a market at rest.
SyncFits(r) ==
    /\ sync[r].start <= Len(fillSeq) /\ sync[r].asOf <= Len(fillSeq)
    /\ pc[r] \in Catching /\ sync[r].asOf = Len(fillSeq) =>
          /\ \A k \in Orders : market[k].st = "filled" /\ Visible(r, k).st # "none"
                                  => Caught(r, k)
          /\ pc[r] \in {"recordLate", "saveLate"} /\ market[cur[r]].st = "filled"
                => mem[r][cur[r]].st = "filled"
    /\ pc[r] = "validate" =>
          \/ sync[r].asOf < Len(fillSeq)
          \/ \E k \in Orders : market[k].qty \notin {0, Qty[k]}
          \/ sync[r].seen = account

\* What a run loads, and what it need not load, are all fills it can see.
LEMMA LoadsAll ==
    ASSUME IInv', NEW r \in Runs, NEW k \in Orders, SyncEffect(r),
           pc'[r] = "reconcile", pc[r] # "saveLate",
           market'[k].st = "filled", NewVisible(r, k).st # "none"
    PROVE  Caught(r, k)'
<1>1. CASE NewVisible(r, k).st \notin Terminal \cup {"none"}
    BY <1>1 DEF SyncEffect, Caught
<1>2. CASE NewVisible(r, k).st \in Terminal
  <2>1. NewVisible(r, k).st \in Terminal => market'[k].st = NewVisible(r, k).st
    <3>1. dbOrder'[k].st \in Terminal => market'[k].st = dbOrder'[k].st
        BY DEF IInv, RowsSettled, Settled, True
    <3>2. pend'[r][k].st \in Terminal => market'[k].st = pend'[r][k].st
        BY DEF IInv, PendSettled, Settled, True
    <3> QED BY <3>1, <3>2 DEF NewVisible
  <2>2. NewVisible(r, k).st = "filled"
      BY <1>2, <2>1
  <2> QED BY <2>2 DEF Caught, Visible, NewVisible
<1> QED BY <1>1, <1>2

\* The steps of the active run keep its sync in order.
LEMMA RunStepCatches ==
    ASSUME IInv, IInv', Books, OneActive, OneActive', BrokerFits, NEW r \in Runs,
           RunEffect(r), SyncEffect(r), \A q \in Runs : SyncFits(q)
    PROVE  \A q \in Runs : SyncFits(q)'
<1>0. /\ fillSeq \in Seq(Orders) /\ UNCHANGED <<fillSeq, account>>
      /\ \A j \in Orders : market'[j].qty = market[j].qty
      /\ \A k \in Orders : market'[k].st = "filled" <=> market[k].st = "filled"
      /\ Len(fillSeq) \in Nat /\ SyncFits(r) /\ Others(r)
      /\ todo \in [Runs -> SUBSET [key : Orders, linked : BOOLEAN]]
  <2>1. /\ UNCHANGED <<fillSeq, account>>
        /\ \A j \in Orders : market'[j].qty = market[j].qty
      BY DEF SyncEffect
  <2>2. \A k \in Orders : market'[k].st = "filled" <=> market[k].st = "filled"
      BY RunStepFits
  <2>3. /\ fillSeq \in Seq(Orders)
        /\ todo \in [Runs -> SUBSET [key : Orders, linked : BOOLEAN]]
      BY DEF IInv, TypeOK
  <2> QED BY <2>1, <2>2, <2>3 DEF RunEffect
<1>1. ASSUME NEW q \in Runs \ {r} PROVE SyncFits(q)'
  <2>1. pc[r] # "idle" \/ pc'[r] # "idle"
      BY DEF RunEffect, ControlEffect, LoadEffect, ResubmitEffect, SubmitEffect,
             ReconcileEffect, ReadEffect, CheckpointEffect, SaveEffect, LeaveEffect,
             Raised
  <2>2. pc'[q] = pc[q] /\ pc'[q] = "idle"
      BY <1>0, <2>1 DEF Others, OneActive
  <2>3. sync'[q] = sync[q]
      BY DEF SyncEffect
  <2> QED BY <1>0, <2>2, <2>3 DEF SyncFits, Catching
<1>2. sync'[r].start <= Len(fillSeq)' /\ sync'[r].asOf <= Len(fillSeq)'
  <2>1. ASSUME pc[r] = "saveFill" PROVE FillTime(cur[r]) \in 1..Len(fillSeq)
    <3>1. cur[r] \in Orders /\ market[cur[r]].st = "filled"
        BY <2>1 DEF IInv, FillKnown, HandIsOrder, InHand, MemoryTrue, True
    <3> QED BY <3>1 DEF IInv, FillsListed, FillTime
  <2>2. sync[r].start \in Nat /\ sync[r].asOf \in Nat
      BY DEF IInv, TypeOK
  <2>3. sync[r].start <= Len(fillSeq) /\ sync[r].asOf <= Len(fillSeq)
      BY <1>0 DEF SyncFits
  <2>4. /\ sync'[r].start \in {0, Len(fillSeq), sync[r].start}
        /\ \/ sync'[r].asOf \in {0, sync[r].start, sync[r].asOf}
           \/ pc[r] = "saveFill" /\ sync'[r].asOf = FillTime(cur[r])
      BY Zenon DEF SyncEffect
  <2> QED BY <1>0, <2>1, <2>2, <2>3, <2>4
<1>3. pc'[r] = "validate" => sync'[r].seen = account'
    BY <1>0 DEF SyncEffect
<1> DEFINE Catches == /\ \A k \in Orders : market'[k].st = "filled" /\ NewVisible(r, k).st # "none"
                                             => Caught(r, k)'
                      /\ pc'[r] \in {"recordLate", "saveLate"} /\ market'[cur'[r]].st = "filled"
                            => mem'[r][cur'[r]].st = "filled"
<1>4. ASSUME pc'[r] \in Catching, sync'[r].asOf = Len(fillSeq)' PROVE Catches
  <2>1. CASE pc'[r] = "reconcile" /\ pc[r] # "saveLate"
      BY <2>1, LoadsAll
  <2>2. CASE ~(pc'[r] = "reconcile" /\ pc[r] # "saveLate")
    <3>1. /\ pc[r] \in Catching
          /\ \A k \in Orders : market[k].st = "filled" /\ Visible(r, k).st # "none"
                                  => Caught(r, k)
          /\ pc[r] \in {"recordLate", "saveLate"} /\ market[cur[r]].st = "filled"
                => mem[r][cur[r]].st = "filled"
      <4>1. pc[r] \in Catching
          BY <1>4, <2>2 DEF RunEffect, ControlEffect, LoadEffect, ResubmitEffect,
                 SubmitEffect, ReconcileEffect, ReadEffect, CheckpointEffect, SaveEffect,
                 LeaveEffect, Catching, Raised
      <4>2. sync[r].asOf = Len(fillSeq)
          BY <1>0, <1>4, <2>2 DEF SyncEffect, Catching
      <4> QED BY <1>0, <4>1, <4>2 DEF SyncFits
    <3>2. CASE ControlEffect(r)
      <4>1. /\ pc[r] = "reconcile" /\ pc'[r] = "validate" /\ todo[r] = {}
            /\ UNCHANGED <<market, dbOrder, pend>>
          BY <1>4, <2>2, <3>2 DEF ControlEffect, Catching, Raised, Evidence
      <4> QED BY <3>1, <4>1 DEF Caught, Visible, NewVisible
    <3>3. ASSUME NEW o \in todo[r], ReconcileEffect(r, o) PROVE Catches
      <4>1. /\ UNCHANGED <<market, dbOrder, pend>> /\ cur'[r] = o.key /\ o.key \in Orders
            /\ mem'[r][o.key].st = market[o.key].st
            /\ todo'[r] = todo[r] \ {o} /\ pc[r] = "reconcile"
            /\ pc'[r] \in {"recordLate", "saveLate"}
          BY <3>3 DEF ReconcileEffect, Learns, Evidence
      <4>2. ASSUME NEW k \in Orders, market'[k].st = "filled", NewVisible(r, k).st # "none"
            PROVE  Caught(r, k)'
        <5>1. Caught(r, k)
            BY <3>1, <4>1, <4>2 DEF Visible, NewVisible
        <5>2. CASE k = o.key
            BY <4>1, <5>2 DEF Caught
        <5>3. CASE Visible(r, k).st = "filled"
            BY <4>1, <5>3 DEF Caught, Visible
        <5>4. ASSUME NEW p \in todo[r], p.key = k, k # o.key PROVE Caught(r, k)'
            BY <4>1, <5>4 DEF Caught
        <5> QED BY <4>1, <5>1, <5>2, <5>3, <5>4 DEF Caught
      <4> QED BY <4>1, <4>2
    <3>4. CASE CheckpointEffect(r)
      <4>1. /\ UNCHANGED <<market, pend, mem, cur, todo>> /\ cur[r] \in Orders
            /\ pc[r] = "recordLate" /\ pc'[r] = "saveLate"
            /\ \A k \in Orders \ {cur[r]} : dbOrder'[k] = dbOrder[k]
          BY <3>1, <3>4, CheckpointWrites DEF CheckpointEffect, Catching
      <4>2. \A k \in Orders \ {cur[r]} : NewVisible(r, k) = Visible(r, k)
          BY <4>1 DEF NewVisible, Visible
      <4>3. ASSUME NEW k \in Orders, market'[k].st = "filled", NewVisible(r, k).st # "none"
            PROVE  Caught(r, k)'
        <5>1. CASE k = cur[r]
            BY <4>1, <5>1 DEF Caught
        <5>2. CASE k # cur[r]
            BY <3>1, <4>1, <4>2, <4>3, <5>2 DEF Caught, Visible, NewVisible
        <5> QED BY <5>1, <5>2
      <4> QED BY <3>1, <4>1, <4>3
    <3>5. CASE SaveEffect(r)
      <4>1. /\ UNCHANGED <<market, dbOrder, mem, cur, todo>> \/ todo'[r] = todo[r]
            /\ UNCHANGED <<market, dbOrder, mem, cur>> /\ cur[r] \in Orders
            /\ pc[r] = "saveLate" /\ pc'[r] = "reconcile" /\ todo'[r] = todo[r]
            /\ \/ UNCHANGED pend /\ Visible(r, cur[r]) = mem[r][cur[r]]
               \/ \A j \in Orders : pend'[r][j] = IF j = cur[r] THEN mem[r][j]
                                                  ELSE pend[r][j]
          BY <3>1, <3>5, <2>2 DEF SaveEffect, Catching, Evidence
      <4>2. \A k \in Orders \ {cur[r]} : NewVisible(r, k) = Visible(r, k)
          BY <4>1 DEF NewVisible, Visible
      <4>3. mem[r][cur[r]].st = "filled" => NewVisible(r, cur[r]).st = "filled"
          BY <4>1 DEF NewVisible, Visible, NoRow
      <4>4. ASSUME NEW k \in Orders, market'[k].st = "filled", NewVisible(r, k).st # "none"
            PROVE  Caught(r, k)'
        <5>1. CASE k = cur[r]
            BY <3>1, <4>1, <4>3, <4>4, <5>1 DEF Caught, Visible, NewVisible
        <5>2. CASE k # cur[r]
            BY <3>1, <4>1, <4>2, <4>4, <5>2 DEF Caught, Visible, NewVisible
        <5> QED BY <5>1, <5>2
      <4> QED BY <4>1, <4>4
    <3> QED BY <1>4, <2>2, <3>1, <3>2, <3>3, <3>4, <3>5
          DEF RunEffect, LoadEffect, ResubmitEffect, SubmitEffect, ReadEffect, LeaveEffect,
              Catching
  <2> QED BY <2>1, <2>2
<1>5. SyncFits(r)'
  <2>1. \A k \in Orders : Visible(r, k)' = NewVisible(r, k)
      BY DEF Visible, NewVisible
  <2> QED BY <1>2, <1>3, <1>4, <2>1 DEF SyncFits
<1> QED BY <1>1, <1>5

\* A fill is later than every sync; a partial fill leaves its mark.
LEMMA BrokerStepCatches ==
    ASSUME IInv, NEW k \in Orders, BrokerEffect(k), ShareEffect(k),
           NEW r \in Runs, SyncFits(r)
    PROVE  SyncFits(r)'
<1>0. /\ fillSeq \in Seq(Orders) /\ Len(fillSeq) \in Nat
      /\ sync[r].start \in Nat /\ sync[r].asOf \in Nat /\ Qty[k] \in Nat \ {0}
    BY DEF IInv, TypeOK
<1>1. /\ UNCHANGED <<dbOrder, pend, pc, cur, todo, mem, sync>>
      /\ market[k].st # "filled"
      /\ \A j \in Orders \ {k} : market'[j] = market[j]
    BY DEF BrokerEffect, ShareEffect
<1>2. CASE fillSeq' = Append(fillSeq, k)
  <2>1. Len(fillSeq') = Len(fillSeq) + 1
      BY <1>0, <1>2
  <2>2. sync[r].asOf < Len(fillSeq') /\ sync[r].start <= Len(fillSeq')
      BY <1>0, <2>1 DEF SyncFits
  <2>3. sync[r].asOf <= Len(fillSeq') /\ sync[r].asOf # Len(fillSeq')
      BY <1>0, <2>1, <2>2
  <2>4. sync[r]' = sync[r]
      BY <1>1
  <2> QED BY <2>2, <2>3, <2>4 DEF SyncFits
<1>3. CASE UNCHANGED fillSeq /\ market'[k].st # "filled"
  <2>1. \A j \in Orders : /\ market'[j].st = "filled" <=> market[j].st = "filled"
                          /\ Visible(r, j)' = Visible(r, j)
                          /\ Caught(r, j)' = Caught(r, j)
      BY <1>1, <1>3 DEF Visible, Caught
  <2>2. ASSUME pc[r] = "validate"
        PROVE  \/ sync[r].asOf < Len(fillSeq)
               \/ \E j \in Orders : market'[j].qty \notin {0, Qty[j]}
               \/ sync[r].seen = account'
    <3>1. CASE market'[k].qty \in 1..(Qty[k] - 1)
      <4>1. market'[k].qty # 0 /\ market'[k].qty # Qty[k]
          BY <1>0, <3>1
      <4> QED BY <4>1
    <3>2. CASE UNCHANGED account /\ market'[k].qty = market[k].qty
      <4>1. \A j \in Orders : market'[j].qty = market[j].qty
          BY <1>1, <3>2
      <4> QED BY <2>2, <3>2, <4>1 DEF SyncFits
    <3> QED BY <1>3, <3>1, <3>2 DEF ShareEffect
  <2>3. pc[r] \in {"recordLate", "saveLate"} => cur[r] \in Orders
      BY DEF IInv, HandIsOrder, InHand
  <2> QED BY <1>1, <1>3, <2>1, <2>2, <2>3 DEF SyncFits
<1> QED BY <1>2, <1>3 DEF ShareEffect

SyncsFit == \A r \in Runs : SyncFits(r)

\* What a validation finds, with the market at rest since its as_of: the
\* positions are the sum of the fills, and so is the replay of the executions.
LEMMA QuietReplay ==
    ASSUME IInv, Books, Once, BrokerFits, SyncsFit, NEW r \in Runs,
           pc[r] = "validate", sync[r].asOf = Len(fillSeq),
           \A k \in Orders : market[k].qty \in {0, Qty[k]},
           \A k \in Orders : market[k].st = "filled" => dbOrder[k].st # "none",
           \A i \in 1..Len(fillSeq), t \in Tickers : FilledBy(i)[t] >= 0
    PROVE  ReplayMatches(r)
<1>0. /\ fillSeq \in Seq(Orders) /\ Len(fillSeq) \in Nat
      /\ account \in [Tickers -> Int]
      /\ market \in [Orders -> [st : Statuses, qty : Nat]]
      /\ sync[r].seen = account
  <2>1. \/ sync[r].asOf < Len(fillSeq)
        \/ \E k \in Orders : market[k].qty \notin {0, Qty[k]}
        \/ sync[r].seen = account
      BY DEF SyncsFit, SyncFits
  <2>2. fillSeq \in Seq(Orders) /\ Len(fillSeq) \in Nat
      BY DEF IInv, TypeOK
  <2>3. sync[r].seen = account
      BY <2>1, <2>2
  <2> QED BY <2>2, <2>3 DEF IInv, TypeOK
<1>1. ASSUME NEW k \in Orders, market[k].st = "filled" PROVE Events(r)[k] = 1
  <2>1. Visible(r, k).st # "none"
      BY <1>1 DEF Visible, Books, RowsPosted, Known
  <2>2. Caught(r, k)
      BY <1>1, <2>1 DEF SyncsFit, SyncFits, Catching
  <2>3. Visible(r, k).st = "filled"
      BY <2>2 DEF Caught, Books, TodoShape, Reconciling, Raised
  <2>4. dbExec[k] > 0
      BY <2>3 DEF Visible, IInv, RowsSettled, PendSettled, Settled
  <2>5. dbExec[k] \in 0..2 /\ dbExec[k] <= 1
      BY DEF IInv, TypeOK, Once, StoredOnce
  <2>6. dbExec[k] = 1
      BY <2>4, <2>5
  <2> QED BY <2>3, <2>6 DEF Events
<1> DEFINE ones == [k \in Orders |-> 1]
<1>2. ASSUME NEW i \in 1..Len(fillSeq), NEW k \in Orders, NEW j \in 1..i, fillSeq[j] = k
      PROVE  market[k].st = "filled"
  <2>1. j \in 1..Len(fillSeq)
      BY <1>0, <1>2
  <2> QED BY <1>2, <2>1 DEF BrokerFits, FillsOnly
<1>3. ASSUME NEW i \in 0..Len(fillSeq), NEW t \in Tickers
      PROVE  Net(Events(r), i)[t] = Net(ones, i)[t]
  <2> DEFINE D == FilledOf(t, i)
             F == [k \in Orders |-> Events(r)[k] * Signed(k)]
             G == [k \in Orders |-> ones[k] * Signed(k)]
  <2>1. \A k \in D : k \in Orders /\ Events(r)[k] = 1 /\ ones[k] = 1
    <3> SUFFICES ASSUME NEW k \in D PROVE k \in Orders /\ Events(r)[k] = 1 /\ ones[k] = 1
        OBVIOUS
    <3>1. k \in Orders /\ \E j \in 1..i : fillSeq[j] = k
        BY DEF FilledOf
    <3>2. i \in 1..Len(fillSeq)
        BY <1>0, <3>1
    <3>3. market[k].st = "filled"
        BY <1>2, <3>1, <3>2
    <3> QED BY <1>1, <3>1, <3>3
  <2> HIDE DEF ones
  <2>2. IsFiniteSet(D) /\ Net(Events(r), i)[t] = Total(F, D)
        /\ \A k \in D : Events(r)[k] * Signed(k) \in Int
    <3>1. i \in Nat /\ \A k \in FilledOf(t, i) : Events(r)[k] \in Int
        BY <1>0, <2>1
    <3> DEFINE e == Events(r)
    <3>2. \A k \in FilledOf(t, i) : e[k] \in Int
        BY <3>1
    <3> HIDE DEF e
    <3>3. /\ IsFiniteSet(FilledOf(t, i))
          /\ \A k \in FilledOf(t, i) : e[k] * Signed(k) \in Int
          /\ Net(e, i)[t] = Total([k \in Orders |-> e[k] * Signed(k)], FilledOf(t, i))
        BY <3>1, <3>2, NetIsTotal
    <3> QED BY <3>3 DEF e
  <2>3. Net(ones, i)[t] = Total(G, D)
      BY <2>1, NetIsTotal
  <2>4. \A k \in D : F[k] \in Int /\ F[k] = G[k]
      BY <2>1, <2>2
  <2> HIDE DEF D, F, G
  <2>5. Total(F, D) = Total(G, D)
      BY <2>2, <2>4, TotalRules
  <2> QED BY <2>2, <2>3, <2>5
<1>4. ASSUME NEW t \in Tickers PROVE Net(ones, Len(fillSeq))[t] = account[t]
  <2> DEFINE D == FilledOf(t, Len(fillSeq))
             G == [k \in Orders |-> ones[k] * Signed(k)]
  <2>1. \A k \in Orders : market[k].qty # 0 <=> market[k].st = "filled"
    <3> SUFFICES ASSUME NEW k \in Orders
                 PROVE  market[k].qty # 0 <=> market[k].st = "filled"
        OBVIOUS
    <3>1. /\ market[k].qty \in {0, Qty[k]} /\ Qty[k] \in Nat \ {0}
          /\ market[k].st \in Statuses
        BY <1>0
    <3>2. QtyFits
        BY DEF BrokerFits
    <3> QED BY <3>1, <3>2 DEF QtyFits
  <2>2. \A k \in Orders : market[k].st = "filled" <=> \E j \in 1..Len(fillSeq) : fillSeq[j] = k
      BY DEF BrokerFits, FillsOnly, IInv, FillsListed
  <2>3. Held(t) = D
      BY <2>1, <2>2 DEF Held, FilledOf
  <2>4. /\ IsFiniteSet(D) /\ Net(ones, Len(fillSeq))[t] = Total(G, D)
        /\ \A k \in D : ones[k] * Signed(k) \in Int
    <3>1. \A k \in D : ones[k] \in Int
        BY DEF FilledOf
    <3> HIDE DEF ones
    <3> QED BY <1>0, <3>1, NetIsTotal
  <2>5. \A k \in D : G[k] \in Int /\ G[k] = Shares[k]
    <3> SUFFICES ASSUME NEW k \in D PROVE G[k] \in Int /\ G[k] = Shares[k]
        OBVIOUS
    <3>1. k \in Orders /\ market[k].qty = Qty[k]
        BY <2>1, <2>3 DEF Held
    <3>2. G[k] = 1 * (Side[k] * Qty[k]) /\ Shares[k] = Side[k] * Qty[k] /\ G[k] \in Int
        BY <2>4, <3>1 DEF Shares, Signed
    <3>3. Shares[k] \in Int
        BY <3>1, SharesTyped DEF IInv
    <3> QED BY <3>2, <3>3
  <2>6. account[t] = Total(Shares, D)
      BY <2>3 DEF BrokerFits, AccountFits
  <2> HIDE DEF D, G, ones
  <2>7. Total(G, D) = Total(Shares, D)
      BY <2>4, <2>5, TotalRules
  <2> QED BY <2>4, <2>6, <2>7
<1>5. \A i \in 1..Len(fillSeq), t \in Tickers : Net(Events(r), i)[t] >= 0
    BY <1>3 DEF FilledBy
<1>6. Net(Events(r), Len(fillSeq)) = account
  <2>1. \A t \in Tickers : Net(Events(r), Len(fillSeq))[t] = account[t]
    <3>1. Len(fillSeq) \in 0..Len(fillSeq)
        BY <1>0
    <3> HIDE DEF ones
    <3> QED BY <1>3, <1>4, <3>1
  <2>2. \A n : Net(Events(r), n) = [t \in Tickers |-> Net(Events(r), n)[t]]
      BY DEF Net
  <2> HIDE DEF ones
  <2>3. Net(Events(r), Len(fillSeq)) = [t \in Tickers |-> account[t]]
      BY <2>1, <2>2
  <2> QED BY <1>0, <2>3
<1> QED BY <1>0, <1>5, <1>6 DEF ReplayMatches

\* If runs do not overlap, a sync that finds the market where its as_of left
\* it, with the order of every fill stored and none filled in part, passes the
\* validation: its reconcile loop has brought the executions up to date.
THEOREM QuietSyncPassesHolds ==
    ASSUME MaxActive = 1
    PROVE  Spec => []QuietSyncPasses
<1>1. Init => BrokerFits /\ SyncsFit
  <2> SUFFICES ASSUME Init PROVE BrokerFits /\ SyncsFit
      OBVIOUS
  <2>1. QtyFits /\ FillsOnly
      BY DEF Init, QtyFits, FillsOnly
  <2>2. ASSUME NEW t \in Tickers
        PROVE  IsFiniteSet(Held(t)) /\ account[t] = Total(Shares, Held(t))
    <3>1. Held(t) = {} /\ account[t] = 0
        BY DEF Init, Held, Flat
    <3>2. IsFiniteSet({})
        BY FS_EmptySet
    <3> DEFINE iter == CHOOSE x : Summing(x, Shares, {})
    <3>3. Summing(iter, Shares, {})
        BY <3>2, SummingExists
    <3>4. Total(Shares, {}) = iter[{}]
        BY DEF Total
    <3> HIDE DEF iter
    <3>5. iter[{}] = 0
        BY <3>3 DEF Summing
    <3> QED BY <3>1, <3>2, <3>4, <3>5
  <2>3. SyncsFit
      BY DEF Init, SyncsFit, SyncFits, Catching, Idle
  <2> QED BY <2>1, <2>2, <2>3 DEF BrokerFits, AccountFits
<1>2. /\ IInv /\ IInv' /\ Books /\ OneActive /\ OneActive' /\ [Next]_vars
      /\ BrokerFits /\ SyncsFit
      => BrokerFits' /\ SyncsFit'
  <2> SUFFICES ASSUME IInv, IInv', Books, OneActive, OneActive', [Next]_vars,
                      BrokerFits, SyncsFit
               PROVE  BrokerFits' /\ SyncsFit'
      OBVIOUS
  <2>1. ASSUME NEW r \in Runs, Start(r) \/ RunStep(r) \/ HttpError(r) \/ Crash(r)
        PROVE  BrokerFits' /\ SyncsFit'
    <3>1. RunEffect(r) /\ SyncEffect(r)
        BY <2>1, RunStepEffect, RunStepSync
    <3> QED BY <3>1, RunStepFits, RunStepCatches DEF SyncsFit
  <2>2. ASSUME NEW k \in Orders, BrokerStep(k)
        PROVE  BrokerFits' /\ SyncsFit'
    <3>1. BrokerFits' /\ ShareEffect(k) /\ BrokerEffect(k)
        BY <2>2, BrokerStepFits, BrokerStepEffect
    <3> QED BY <3>1, BrokerStepCatches DEF SyncsFit
  <2>3. CASE UNCHANGED vars
    <3>1. UNCHANGED <<market, account, fillSeq, dbOrder, pend, pc, cur, todo, mem, sync>>
        BY <2>3 DEF vars, brokerVars, dbVars, txVars, runVars
    <3>2. Shares' = Shares /\ \A t \in Tickers : Held(t)' = Held(t)
        BY <3>1 DEF Shares, Held
    <3>3. BrokerFits'
        BY <3>1, <3>2 DEF BrokerFits, QtyFits, FillsOnly, AccountFits
    <3>4. SyncsFit'
        BY <3>1 DEF SyncsFit, SyncFits, Caught, Visible
    <3> QED BY <3>3, <3>4
  <2> QED BY <2>1, <2>2, <2>3 DEF Next
<1>3. IInv /\ Books /\ Once /\ BrokerFits /\ SyncsFit => QuietSyncPasses
    BY QuietReplay DEF QuietSyncPasses
<1>4. Spec => []OneActive
    BY OneActiveAlways
<1>5. Spec => []Once
    BY OnceAlways
<1> QED BY <1>1, <1>2, <1>3, <1>4, <1>5, InOrder, PTL DEF Spec
=============================================================================
