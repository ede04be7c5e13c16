--------------------------- MODULE CashbackLedger ---------------------------
(***************************************************************************)
(* What a cabinet's prepaid balance promises to the seller, with none of   *)
(* the machinery: money is added, and each payout request takes its charge *)
(* out of the balance at most once, in one step, and only when the balance *)
(* covers it.  Payout implements this specification.                       *)
(***************************************************************************)
EXTENDS Integers

CONSTANTS Requests, InitialBalance

VARIABLES balance, debits

ledgerVars == <<balance, debits>>

LedgerInit ==
    /\ balance = InitialBalance
    /\ debits = [r \in Requests |-> 0]

\* The administrator confirmed a refill.
Credit ==
    /\ balance' > balance
    /\ UNCHANGED debits

\* Request r is charged, once, for no more than the balance holds.
Debit(r) ==
    /\ debits[r] = 0
    /\ balance' \in 0 .. balance - 1
    /\ debits' = [debits EXCEPT ![r] = balance - balance']

LedgerNext == Credit \/ \E r \in Requests : Debit(r)

LedgerSpec == LedgerInit /\ [][LedgerNext]_ledgerVars
=============================================================================
