----------------------------- MODULE CabinetRow -----------------------------
(***************************************************************************)
(* What the transactions that share a cabinet's row promise each other     *)
(* about its balance: one at a time may take money, it takes no more than  *)
(* is there, its commit takes exactly that or its rollback nothing, and    *)
(* nobody adds money meanwhile.  Payout and SellerPayments, which each     *)
(* have the other as an environment, both implement this specification.    *)
(***************************************************************************)
EXTENDS Integers

VARIABLES
    balance,    \* cabinets.balance, committed
    reserved    \* what the open transaction has taken off it; 0: none is open

rowVars == <<balance, reserved>>

RowInit == balance \in Nat /\ reserved = 0

\* A payout's UPDATE.
Reserve ==
    /\ reserved = 0
    /\ reserved' \in 1 .. balance
    /\ UNCHANGED balance

\* Its transaction commits or rolls back.
Release ==
    /\ reserved # 0
    /\ reserved' = 0
    /\ balance' \in {balance, balance - reserved}

\* A confirmed refill.
Refill ==
    /\ reserved = 0
    /\ balance' > balance
    /\ UNCHANGED reserved

RowNext == Reserve \/ Release \/ Refill

RowSpec == RowInit /\ [][RowNext]_rowVars
=============================================================================
