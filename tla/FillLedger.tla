----------------------------- MODULE FillLedger -----------------------------
(***************************************************************************)
(* What the execution rows promise: a ledger of the broker's fills.  The   *)
(* workflow, its checkpoints and the reconcile loop are one way to keep it *)
(* (StockExecution).                                                       *)
(***************************************************************************)
EXTENDS Naturals

CONSTANT Orders

VARIABLES sent,    \* orders the broker has accepted
          filled,  \* orders the broker has filled
          rows     \* execution rows per order

vars == <<sent, filled, rows>>

Init ==
    /\ sent = {}
    /\ filled = {}
    /\ rows = [k \in Orders |-> 0]

Send(k) ==
    /\ k \notin sent
    /\ sent' = sent \cup {k}
    /\ UNCHANGED <<filled, rows>>

Fill(k) ==
    /\ k \in sent \ filled
    /\ filled' = filled \cup {k}
    /\ UNCHANGED <<sent, rows>>

Record(k) ==
    /\ k \in filled
    /\ rows[k] = 0
    /\ rows' = [rows EXCEPT ![k] = 1]
    /\ UNCHANGED <<sent, filled>>

Next == \E k \in Orders : Send(k) \/ Fill(k) \/ Record(k)

Spec == Init /\ [][Next]_vars

FairSpec == Spec /\ \A k \in Orders : WF_vars(Record(k))
=============================================================================
