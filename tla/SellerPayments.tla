--------------------------- MODULE SellerPayments ---------------------------
(***************************************************************************)
(* A seller tops up a cabinet's balance or buys leads, and says so; an     *)
(* administrator confirms or rejects the payment.  The interactors are     *)
(* RefillBalance, BuyLeads, MarkPaymentWaitingConfirmBase, the two         *)
(* ConfirmPayment and CancelPaymentBase, behind the dialogs and the two    *)
(* admin buttons.  Verdicts are calls of admin_confirm_payment and         *)
(* admin_reject_payment: nothing serialises them but the row locks of      *)
(* PostgreSQL, and a payout's transaction competes for the cabinet's row.  *)
(***************************************************************************)
EXTENDS Integers, FiniteSets

CONSTANTS
    Payments,
    Kind,           \* "refill", "leads", or "legacy": leads without a type
    Amount,         \* roubles of a refill, number of leads of the others
    Verdicts,       \* calls of the admin handlers
    Charges,        \* what a payout may take off the balance
    MaxPayouts,     \* bound: payouts in a behaviour
    Payout,         \* the payout that holds the cabinet's row
    Nobody

ASSUME SellerPaymentsAssumption ==
    /\ IsFiniteSet(Payments)
    /\ Kind \in [Payments -> {"refill", "leads", "legacy"}]
    /\ Amount \in [Payments -> Nat \ {0}]
    /\ Charges \subseteq Nat \ {0} /\ MaxPayouts \in Nat
    /\ Payout \notin Verdicts /\ Nobody \notin Verdicts \cup {Payout}

VARIABLES
    status,             \* payments.status, committed; "absent" before the insert
    dialog,             \* the seller's dialog about each payment
    asked,              \* payments whose two buttons an administrator has
    balance, initial_balance, leads_balance,    \* the cabinet, committed
    table,              \* cashback_tables.status
    pc, target,         \* where each verdict is, and the payment it is about
    paymentLock, cabinetLock,   \* holders of the row locks
    charge, spent, payouts      \* the open payout's charge; history

cabinet == <<balance, initial_balance, leads_balance>>
payoutVars == <<charge, spent, payouts>>
sellerVars == <<dialog, asked>>
vars == <<status, sellerVars, cabinet, table, pc, target, paymentLock,
          cabinetLock, payoutVars>>

Statuses == {"absent", "CREATED", "WAITING_CONFIRM", "SUCCEEDED", "CANCELED"}
Confirming == {"confirm", "transitioned", "credited"}
Canceling == {"cancel", "canceling"}
\* The verdict's UPDATE of the payment is not committed yet.
Deciding == {"transitioned", "credited", "canceling"}
Done == {"confirmed", "canceled", "refused", "aborted"}
Stages == {"idle"} \cup Confirming \cup Canceling \cup Done

Goto(v, stage) == pc' = [pc EXCEPT ![v] = stage]

-----------------------------------------------------------------------------
(* The seller.                                                             *)

\* RefillBalance.execute, BuyLeads.execute: leads need a working table.
CreatePayment(p) ==
    /\ status[p] = "absent"
    /\ Kind[p] = "leads" => table \in {"VERIFIED", "PAID"}
    /\ status' = [status EXCEPT ![p] = "CREATED"]
    /\ dialog' = [dialog EXCEPT ![p] = "open"]
    /\ UNCHANGED <<asked, cabinet, table, pc, target, paymentLock, cabinetLock,
                   payoutVars>>

\* Mutant: the status is not tested before it is overwritten.
MarkLoadUnchecked(p) ==
    /\ dialog[p] = "open"
    /\ dialog' = [dialog EXCEPT ![p] = "marking"]
    /\ UNCHANGED <<status, asked, cabinet, table, pc, target, paymentLock,
                   cabinetLock, payoutVars>>

\* MarkPaymentWaitingConfirmBase.execute up to its commit.  The dialog library
\* runs the presses of one dialog one at a time.
MarkLoad(p) ==
    /\ dialog[p] = "open"
    /\ status[p] = "CREATED"
    /\ dialog' = [dialog EXCEPT ![p] = "marking"]
    /\ UNCHANGED <<status, asked, cabinet, table, pc, target, paymentLock,
                   cabinetLock, payoutVars>>

\* The commit writes the status whatever it is by now.
MarkCommit(p) ==
    /\ dialog[p] = "marking"
    /\ paymentLock[p] = Nobody
    /\ status' = [status EXCEPT ![p] = "WAITING_CONFIRM"]
    /\ dialog' = [dialog EXCEPT ![p] = "notifying"]
    /\ UNCHANGED <<asked, cabinet, table, pc, target, paymentLock, cabinetLock,
                   payoutVars>>

\* The administrator's message, whose failure is logged and no more, and the
\* answer to the seller, whose failure leaves the dialog open.
Notify(p) ==
    /\ dialog[p] = "notifying"
    /\ asked' \in {asked, asked \cup {p}}
    /\ \E end \in {"done", "open"} : dialog' = [dialog EXCEPT ![p] = end]
    /\ UNCHANGED <<status, cabinet, table, pc, target, paymentLock, cabinetLock,
                   payoutVars>>

-----------------------------------------------------------------------------
(* An administrator's verdict.                                             *)

\* A button is pressed, and the handler finds the payment.
Press(v, p, stage) ==
    /\ pc[v] = "idle"
    /\ p \in asked
    /\ Goto(v, stage)
    /\ target' = [target EXCEPT ![v] = p]
    /\ UNCHANGED <<status, sellerVars, cabinet, table, paymentLock, cabinetLock,
                   payoutVars>>

\* Mutant: the status is tested without the row's lock.
TransitionUnlocked(v) ==
    /\ pc[v] \in {"confirm", "cancel"}
    /\ status[target[v]] = "WAITING_CONFIRM"
    /\ paymentLock' = [paymentLock EXCEPT ![target[v]] = v]
    /\ Goto(v, IF pc[v] = "confirm" THEN "transitioned" ELSE "canceling")
    /\ UNCHANGED <<status, sellerVars, cabinet, table, target, cabinetLock,
                   payoutVars>>

\* transition_status: the UPDATE waits for the row, and finds it still
\* WAITING_CONFIRM ...
Transition(v) ==
    /\ pc[v] \in {"confirm", "cancel"}
    /\ Kind[target[v]] # "legacy"
    /\ status[target[v]] = "WAITING_CONFIRM"
    /\ paymentLock[target[v]] = Nobody
    /\ paymentLock' = [paymentLock EXCEPT ![target[v]] = v]
    /\ Goto(v, IF pc[v] = "confirm" THEN "transitioned" ELSE "canceling")
    /\ UNCHANGED <<status, sellerVars, cabinet, table, target, cabinetLock,
                   payoutVars>>

\* Mutant: a payment that was decided meanwhile is no error.
RefuseLegacy(v) ==
    /\ pc[v] \in {"confirm", "cancel"}
    /\ Kind[target[v]] = "legacy"
    /\ Goto(v, "refused")
    /\ UNCHANGED <<status, sellerVars, cabinet, table, target, paymentLock,
                   cabinetLock, payoutVars>>

\* ... or not: PaymentAlreadyProcessedError.  A legacy purchase of leads fails
\* ensure_refill_balance_payment: PaymentTypeMismatchError.
Refuse(v) ==
    /\ pc[v] \in {"confirm", "cancel"}
    /\ \/ Kind[target[v]] = "legacy"
       \/ status[target[v]] # "WAITING_CONFIRM"
    /\ Goto(v, "refused")
    /\ UNCHANGED <<status, sellerVars, cabinet, table, target, paymentLock,
                   cabinetLock, payoutVars>>

\* add_refill_balance, add_leads_balance: the UPDATE waits for the cabinet.
AddBalance(v) ==
    /\ pc[v] = "transitioned"
    /\ cabinetLock = Nobody
    /\ cabinetLock' = v
    /\ Goto(v, "credited")
    /\ UNCHANGED <<status, sellerVars, cabinet, table, target, paymentLock,
                   payoutVars>>

\* Mutant: the new balance is computed from initial_balance.
ConfirmFromInitial(v) ==
    LET p == target[v]
    IN  /\ pc[v] = "credited"
        /\ status' = [status EXCEPT ![p] = "SUCCEEDED"]
        /\ IF Kind[p] = "refill"
             THEN /\ balance' = initial_balance + Amount[p]
                  /\ initial_balance' = initial_balance + Amount[p]
                  /\ UNCHANGED <<leads_balance, table>>
             ELSE /\ leads_balance' = leads_balance + Amount[p]
                  /\ table' = "PAID"
                  /\ UNCHANGED <<balance, initial_balance>>
        /\ paymentLock' = [paymentLock EXCEPT ![p] = Nobody]
        /\ cabinetLock' = Nobody
        /\ Goto(v, "confirmed")
        /\ UNCHANGED <<sellerVars, target, payoutVars>>

\* ConfirmRefillBalancePayment, ConfirmBuyLeadsPayment: the commit.
Confirm(v) ==
    LET p == target[v]
    IN  /\ pc[v] = "credited"
        /\ status' = [status EXCEPT ![p] = "SUCCEEDED"]
        /\ IF Kind[p] = "refill"
             THEN /\ balance' = balance + Amount[p]
                  /\ initial_balance' = balance + Amount[p]
                  /\ UNCHANGED <<leads_balance, table>>
             ELSE /\ leads_balance' = leads_balance + Amount[p]
                  /\ table' = "PAID"
                  /\ UNCHANGED <<balance, initial_balance>>
        /\ paymentLock' = [paymentLock EXCEPT ![p] = Nobody]
        /\ cabinetLock' = Nobody
        /\ Goto(v, "confirmed")
        /\ UNCHANGED <<sellerVars, target, payoutVars>>

\* CancelPaymentBase: the commit.
Cancel(v) ==
    /\ pc[v] = "canceling"
    /\ status' = [status EXCEPT ![target[v]] = "CANCELED"]
    /\ paymentLock' = [paymentLock EXCEPT ![target[v]] = Nobody]
    /\ Goto(v, "canceled")
    /\ UNCHANGED <<sellerVars, cabinet, table, target, cabinetLock, payoutVars>>

-----------------------------------------------------------------------------
(* The rest of the system.                                                 *)

\* tgbot is restarted: its transactions roll back, its dialogs are in Redis.
\* A payout may run in the api process; if not, its PayoutEnds(FALSE) follows.
Restart ==
    /\ \/ \E v \in Verdicts : pc[v] \notin Done \cup {"idle"}
       \/ \E p \in Payments : dialog[p] \in {"marking", "notifying"}
    /\ pc' = [v \in Verdicts |->
                IF pc[v] \in Done \cup {"idle"} THEN pc[v] ELSE "aborted"]
    /\ dialog' = [p \in Payments |->
                    IF dialog[p] \in {"marking", "notifying"} THEN "open" ELSE dialog[p]]
    /\ paymentLock' = [p \in Payments |-> Nobody]
    /\ cabinetLock' = IF cabinetLock \in Verdicts THEN Nobody ELSE cabinetLock
    /\ UNCHANGED <<status, asked, cabinet, table, target, payoutVars>>

\* Mutant: the observer takes every table for a new one.
VerifyAnyTable ==
    /\ table # "VERIFIED"
    /\ table' = "VERIFIED"
    /\ UNCHANGED <<status, sellerVars, cabinet, pc, target, paymentLock,
                   cabinetLock, payoutVars>>

\* ObserveCashbackTables finds that the table can be written.
VerifyTable ==
    /\ table = "NEW"
    /\ table' = "VERIFIED"
    /\ UNCHANGED <<status, sellerVars, cabinet, pc, target, paymentLock,
                   cabinetLock, payoutVars>>

\* try_debit_balance of a payout, which keeps the row until it is over.
PayoutDebits(n) ==
    /\ payouts < MaxPayouts
    /\ cabinetLock = Nobody
    /\ balance >= n
    /\ cabinetLock' = Payout
    /\ charge' = n
    /\ payouts' = payouts + 1
    /\ UNCHANGED <<status, sellerVars, cabinet, table, pc, target, paymentLock,
                   spent>>

\* ... with its commit or its rollback.
PayoutEnds(committed) ==
    /\ cabinetLock = Payout
    /\ cabinetLock' = Nobody
    /\ charge' = 0
    /\ IF committed
         THEN balance' = balance - charge /\ spent' = spent + charge
         ELSE UNCHANGED <<balance, spent>>
    /\ UNCHANGED <<status, sellerVars, initial_balance, leads_balance, table,
                   pc, target, paymentLock, payouts>>

-----------------------------------------------------------------------------
\* Payments from before service_data had a type are waiting already.
Init ==
    /\ status = [p \in Payments |-> IF Kind[p] = "legacy" THEN "WAITING_CONFIRM"
                                                         ELSE "absent"]
    /\ dialog = [p \in Payments |-> "none"]
    /\ asked = {p \in Payments : Kind[p] = "legacy"}
    /\ balance = 0 /\ initial_balance = 0 /\ leads_balance = 0
    /\ table = "NEW"
    /\ pc = [v \in Verdicts |-> "idle"]
    /\ target = [v \in Verdicts |-> Nobody]
    /\ paymentLock = [p \in Payments |-> Nobody]
    /\ cabinetLock = Nobody
    /\ charge = 0 /\ spent = 0 /\ payouts = 0

\* The steps of a handler that is under way.
Advance(v) == Transition(v) \/ Refuse(v) \/ AddBalance(v) \/ Confirm(v) \/ Cancel(v)

Next ==
    \/ \E p \in Payments : \/ CreatePayment(p) \/ MarkLoad(p) \/ MarkCommit(p)
                          \/ Notify(p)
    \/ \E v \in Verdicts : \/ Advance(v)
                          \/ \E p \in Payments, stage \in {"confirm", "cancel"} :
                                Press(v, p, stage)
    \/ Restart
    \/ VerifyTable
    \/ \E n \in Charges : PayoutDebits(n)
    \/ \E committed \in BOOLEAN : PayoutEnds(committed)

Spec == Init /\ [][Next]_vars

\* A handler that can go on does, the seller's or an administrator's, and a
\* payout's transaction ends: its two calls of the bank have a timeout of 30 s.
FairSpec ==
    /\ Spec
    /\ \A v \in Verdicts : WF_vars(Advance(v))
    /\ \A p \in Payments : WF_vars(Notify(p))
    /\ WF_vars(\E committed \in BOOLEAN : PayoutEnds(committed))

-----------------------------------------------------------------------------
(* Properties                                                              *)

TypeOK ==
    /\ status \in [Payments -> Statuses]
    /\ dialog \in [Payments -> {"none", "open", "marking", "notifying", "done"}]
    /\ asked \subseteq Payments
    /\ balance \in Nat /\ initial_balance \in Nat /\ leads_balance \in Nat
    /\ table \in {"NEW", "VERIFIED", "PAID"}
    /\ pc \in [Verdicts -> Stages]
    /\ target \in [Verdicts -> Payments \cup {Nobody}]
    /\ \A v \in Verdicts : pc[v] # "idle" => target[v] \in Payments
    /\ paymentLock \in [Payments -> Verdicts \cup {Nobody}]
    /\ cabinetLock \in Verdicts \cup {Payout, Nobody}
    /\ charge \in Nat /\ spent \in Nat /\ payouts \in Nat

\* What the payments of a set add up to: one element for each unit.
Units(S) == UNION {{p} \X (1 .. Amount[p]) : p \in S}
Succeeded(kind) == {p \in Payments : Kind[p] = kind /\ status[p] = "SUCCEEDED"}

\* Every payment that succeeded is credited once and no other is, whatever
\* verdicts race, roll back or die, and whatever payouts take meanwhile.
CreditMatchesStatus ==
    /\ balance + spent = Cardinality(Units(Succeeded("refill")))
    /\ leads_balance = Cardinality(Units(Succeeded("leads")))

\* Of two administrators who decide about one payment only one is told that
\* the verdict was carried out.
OneVerdict ==
    \A v, w \in Verdicts :
        /\ pc[v] \in {"confirmed", "canceled"} /\ pc[w] \in {"confirmed", "canceled"}
        /\ target[v] = target[w]
        => v = w

\* A table is PAID exactly when leads were paid for, so the observer that
\* verifies new tables never takes a paid one back to VERIFIED.
PaidTable == table = "PAID" <=> Succeeded("leads") # {}

\* initial_balance, the base of the low-balance thresholds, is never behind
\* the balance, and the balance covers the payout under way.
InitialAboveBalance ==
    /\ initial_balance >= balance
    /\ balance >= charge

\* A payment that was decided never changes again.
VerdictIsFinal ==
    [][\A p \in Payments : status[p] \in {"SUCCEEDED", "CANCELED"}
                              => status'[p] = status[p]]_vars

\* A pressed button is answered: verdicts, which lock the payment and then the
\* cabinet, and payouts, which lock the cabinet, never wait for each other
\* for ever.
EveryPressEnds ==
    \A v \in Verdicts : pc[v] \in {"confirm", "cancel"} ~> pc[v] \in Done

\* What the docstring of MarkPaymentWaitingConfirmBase promises, "with a
\* notification of the administrator": every payment that waits for a verdict
\* reaches somebody who can give one.  The code breaks it.
WaitingIsAsked ==
    \A p \in Payments : status[p] = "WAITING_CONFIRM" ~> p \in asked

\* A verdict holds its payment from its UPDATE to its commit, and the cabinet
\* from its credit on.
LockHolders ==
    /\ \A v \in Verdicts, p \in Payments :
          paymentLock[p] = v <=> pc[v] \in Deciding /\ target[v] = p
    /\ \A v \in Verdicts : cabinetLock = v <=> pc[v] = "credited"
    /\ cabinetLock # Payout => charge = 0

\* Whoever is about to write a status writes it over the one it has seen, and
\* a verdict that was answered is what the payment's row says.
StatusKnown ==
    /\ \A v \in Verdicts : pc[v] \in Deciding => status[target[v]] = "WAITING_CONFIRM"
    /\ \A v \in Verdicts : pc[v] \in Deciding => Kind[target[v]] # "legacy"
    /\ \A v \in Verdicts : pc[v] = "confirmed" => status[target[v]] = "SUCCEEDED"
    /\ \A v \in Verdicts : pc[v] = "canceled" => status[target[v]] = "CANCELED"
    /\ \A p \in Payments : dialog[p] = "marking" => status[p] = "CREATED"
    /\ \A p \in Payments : dialog[p] = "notifying" \/ p \in asked
                          => status[p] \notin {"absent", "CREATED"}

\* The inductive invariant.
Inv ==
    /\ TypeOK
    /\ LockHolders
    /\ StatusKnown
    /\ InitialAboveBalance
    /\ OneVerdict

\* PaymentLifecycle, with the roubles that payouts have spent added back.
Lifecycle == INSTANCE PaymentLifecycle WITH
    Refills <- {p \in Payments : Kind[p] = "refill"},
    verdict <- [p \in Payments |->
                  CASE status[p] \in {"absent", "CREATED"} -> "unclaimed"
                    [] status[p] = "WAITING_CONFIRM" -> "claimed"
                    [] status[p] = "SUCCEEDED" -> "accepted"
                    [] OTHER -> "rejected"],
    roubles <- balance + spent,
    leads <- leads_balance
LifecycleSpec == Lifecycle!LifecycleSpec
=============================================================================
