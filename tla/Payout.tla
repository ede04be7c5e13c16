------------------------------- MODULE Payout -------------------------------
(***************************************************************************)
(* One seller's cabinet pays cashback to its clients through Superbanking: *)
(* CreateSuperbankingPayment.execute, the background task                  *)
(* send_receipt_after_confirm it starts, the two database transactions     *)
(* execute runs in, the bank behind the three HTTP calls, the restarts of  *)
(* the processes that run them, and what the rest of the system does to    *)
(* the same rows meanwhile.                                                *)
(*                                                                         *)
(* A request is one call of execute: a press of the bot's confirm button   *)
(* or a POST /buyers/{id}/complete.  Several run at once, in two processes.*)
(* A step of a request ends at an await that lets the others in.           *)
(***************************************************************************)
EXTENDS Integers, FiniteSets

CONSTANTS
    Applications,   \* buyers rows (a client's application for one article)
    Clients,        \* telegram ids
    ClientOf,       \* the client of an application
    Percent,        \* its cashback_percent, fixed at creation
    Existing,       \* the applications that exist at the start
    Requests,       \* calls of execute
    Processes,      \* tgbot and api
    ProcessOf,      \* the process a request runs in
    Requisites,     \* phone number and bank, as the client typed them
    Normal,         \* what build_order_number makes of requisites
    Prices,         \* order prices read off a screenshot
    InputAmounts,   \* values of the amount argument; 0 stands for None
    Refills,        \* sizes of a seller's refill
    Commission,     \* SUPERBANKING_COMMISSION + AXIOMAI_COMMISSION
    InitialBalance,
    MaxRetries,     \* CONFIRM_PAYMENT_MAX_RETRIES
    CheckboxValues, \* what the seller may do to the paid checkbox
    MaxOutside,     \* bound: events of the rest of the system in a behaviour
    Nobody          \* not a request, not a client, not requisites

ASSUME PayoutAssumption ==
    /\ IsFiniteSet(Applications) /\ IsFiniteSet(Requests)
    /\ Existing \subseteq Applications
    /\ ClientOf \in [Applications -> Clients]
    /\ Percent \in [Applications -> Nat]
    /\ ProcessOf \in [Requests -> Processes]
    /\ Normal \in [Requisites -> Requisites]
    /\ Prices \subseteq Nat \ {0} /\ InputAmounts \subseteq Nat
    /\ Refills \subseteq Nat \ {0}
    /\ Commission \in Nat \ {0} /\ InitialBalance \in Nat
    /\ MaxRetries \in Nat \ {0} /\ MaxOutside \in Nat
    /\ CheckboxValues \subseteq BOOLEAN
    /\ Nobody \notin Requests \cup Requisites \cup Clients

VARIABLES
    buyer,      \* the committed rows of table buyers
    connected,  \* cabinets.is_superbanking_connect
    balance,    \* cabinets.balance, committed
    rowLock,    \* the request whose transaction has updated the cabinet row
    payouts,    \* the committed rows of table superbanking
    pc, job,    \* where each request is, and its local variables
    created, signed,    \* orders Superbanking knows, and has paid out
    credited,   \* history: the refills so far
    outside     \* events of the rest of the system so far

dbVars == <<buyer, connected, balance, payouts>>
bankVars == <<created, signed>>
vars == <<buyer, connected, balance, rowLock, payouts, pc, job, created,
          signed, credited, outside>>

Row == [exists : BOOLEAN, amount : Nat, requisites : Requisites \cup {Nobody},
        is_cut_labels : BOOLEAN, is_canceled : BOOLEAN,
        is_superbanking_paid : BOOLEAN, is_paid_manually : BOOLEAN]

BlankRow == [exists |-> FALSE, amount |-> 0, requisites |-> Nobody,
             is_cut_labels |-> FALSE, is_canceled |-> FALSE,
             is_superbanking_paid |-> FALSE, is_paid_manually |-> FALSE]

Job == [client : Clients \cup {Nobody}, batch : SUBSET Applications,
        amounts : [Applications -> Nat],
        requisites : Requisites \cup {Nobody}, part : Nat,
        connect : BOOLEAN, fresh : BOOLEAN, attempts : 0 .. MaxRetries,
        marks : SUBSET Applications]

NoJob == [client |-> Nobody, batch |-> {},
          amounts |-> [a \in Applications |-> 0],
          requisites |-> Nobody, part |-> 0, connect |-> FALSE,
          fresh |-> FALSE, attempts |-> 0, marks |-> {}]

Order == [client : Clients, batch : SUBSET Applications, charge : Nat,
          requisites : Requisites]

\* The transaction that debits the balance is open.
Holding == {"debited", "recorded", "created", "signed"}
\* That transaction has committed.
Committed == {"confirming", "marking", "settled", "unconfirmed"}
\* execute has returned or raised, and its background task is over.
\*   skipped: no auto-payout; refused: NotEnoughBalanceError;
\*   aborted: ended before the sign call; inDoubt: the sign call failed, or
\*   the process died before the commit; unconfirmed: debited, but the
\*   background task gave up or died.
Finished == {"skipped", "refused", "aborted", "inDoubt", "settled",
             "unconfirmed"}
States == {"idle", "loaded", "saved"} \cup Holding \cup Committed \cup Finished

-----------------------------------------------------------------------------
(* What the queries and the arithmetic of execute compute.                 *)

\* get_active_buyers_by_telegram_id_and_cabinet_id
Active(a) == /\ buyer[a].exists
             /\ ~buyer[a].is_canceled
             /\ ~buyer[a].is_superbanking_paid
             /\ ~buyer[a].is_paid_manually

ActiveOf(c) == {a \in Applications : ClientOf[a] = c /\ Active(a)}

\* One application's cashback, rounded down to whole roubles.
Cashback(a, amount) == (amount * Percent[a]) \div 100

\* The roubles of a batch's cashback, each named by its application and a
\* number, so that their sum is the size of the set.
Roubles(batch, amounts) ==
    UNION {{a} \X (1 .. Cashback(a, amounts[a])) : a \in batch}

Charge(r) == Cardinality(Roubles(job[r].batch, job[r].amounts))
Total(r) == Charge(r) + Commission

\* build_order_number: the digest stands for what is digested.
OrderNumber(r) == [client |-> job[r].client, batch |-> job[r].batch,
                   charge |-> Charge(r),
                   requisites |-> Normal[job[r].requisites]]

Goto(r, state) == pc' = [pc EXCEPT ![r] = state]

\* Mutant: an error leaves the transaction open.
RollbackForgotten(r) == rowLock' = IF r = Nobody THEN Nobody ELSE rowLock

\* The session's transaction rolls back: its debit and its payout row vanish.
Rollback(r) == rowLock' = IF rowLock = r THEN Nobody ELSE rowLock

-----------------------------------------------------------------------------
(* CreateSuperbankingPayment.execute                                       *)

\* The cabinet and the client's active applications are read; with none,
\* BuyerNotFoundError ends the call before it changes anything.
Load(r, c, q, amount) ==
    /\ pc[r] = "idle"
    /\ ActiveOf(c) # {}
    /\ job' = [job EXCEPT ![r] =
           [client |-> c, batch |-> ActiveOf(c),
            amounts |-> [a \in Applications |->
                           IF a \in ActiveOf(c) THEN buyer[a].amount ELSE 0],
            requisites |-> q,
            part |-> amount \div Cardinality(ActiveOf(c)),
            connect |-> connected, fresh |-> FALSE, attempts |-> 0,
            marks |-> {}]]
    /\ Goto(r, "loaded")
    /\ UNCHANGED <<dbVars, rowLock, bankVars, credited, outside>>

\* The first commit: requisites, and the request's own share wherever the
\* row as it was read had no amount.  Without auto-payouts the call ends here.
\* (An amount of 0 and NULL are one value here, and the write is made even
\* where the ORM would see that it changes nothing.)
Save(r) ==
    LET j == job[r]
        unpriced == {a \in j.batch : j.amounts[a] = 0}
    IN  /\ pc[r] = "loaded"
        /\ buyer' = [a \in Applications |->
               [buyer[a] EXCEPT
                  !.requisites = IF a \in j.batch THEN j.requisites ELSE @,
                  !.amount = IF a \in unpriced THEN j.part ELSE @]]
        /\ job' = [job EXCEPT ![r].amounts =
               [a \in Applications |-> IF a \in unpriced THEN j.part ELSE @[a]]]
        /\ Goto(r, IF j.connect THEN "saved" ELSE "skipped")
        /\ UNCHANGED <<connected, balance, payouts, rowLock, bankVars,
                       credited, outside>>

\* Mutant: the balance is tested without taking the row's lock.
DebitBalanceUnlocked(r) ==
    /\ pc[r] = "saved"
    /\ balance >= Total(r)
    /\ rowLock' = r
    /\ Goto(r, "debited")
    /\ UNCHANGED <<dbVars, job, bankVars, credited, outside>>

\* try_debit_balance: the UPDATE waits for the row lock, then tests and debits
\* the balance as committed.  The new balance is visible only at the commit.
DebitBalance(r) ==
    /\ pc[r] = "saved"
    /\ rowLock = Nobody
    /\ balance >= Total(r)
    /\ rowLock' = r
    /\ Goto(r, "debited")
    /\ UNCHANGED <<dbVars, job, bankVars, credited, outside>>

\* A committed balance that does not cover the charge refuses it at once: the
\* UPDATE finds no row to wait for.
RefuseDebit(r) ==
    /\ pc[r] = "saved"
    /\ balance < Total(r)
    /\ Goto(r, "refused")
    /\ UNCHANGED <<dbVars, rowLock, job, bankVars, credited, outside>>

\* Mutant: the payout is inserted without a look at the existing rows.
CreatePayoutBlindly(r) ==
    /\ pc[r] = "debited"
    /\ job' = [job EXCEPT ![r].fresh = TRUE]
    /\ Goto(r, "recorded")
    /\ UNCHANGED <<dbVars, rowLock, bankVars, credited, outside>>

\* Mutant: an order the bank knows is taken to have a row.
CreatePayoutByBank(r) ==
    /\ pc[r] = "debited"
    /\ job' = [job EXCEPT ![r].fresh = OrderNumber(r) \notin created]
    /\ Goto(r, "recorded")
    /\ UNCHANGED <<dbVars, rowLock, bankVars, credited, outside>>

\* create_payout: a row with this order number is reused, else one is added
\* to the open transaction.
CreatePayout(r) ==
    /\ pc[r] = "debited"
    /\ job' = [job EXCEPT ![r].fresh =
                 \A p \in payouts : p.order # OrderNumber(r)]
    /\ Goto(r, "recorded")
    /\ UNCHANGED <<dbVars, rowLock, bankVars, credited, outside>>

\* Mutant: the first call already moves the money.
CreatePaymentSigned(r) ==
    /\ pc[r] = "recorded"
    /\ signed' = signed \cup {OrderNumber(r)}
    /\ Goto(r, "aborted")
    /\ Rollback(r)
    /\ UNCHANGED <<dbVars, job, created, credited, outside>>

\* The first call to the bank.  It may fail before or after the bank has
\* registered the order (and an unknown bank name fails before).
CreatePayment(r) ==
    /\ pc[r] = "recorded"
    /\ \/ /\ created' = created \cup {OrderNumber(r)}
          /\ Goto(r, "created")
          /\ UNCHANGED rowLock
       \/ /\ created' \in {created, created \cup {OrderNumber(r)}}
          /\ Goto(r, "aborted")
          /\ Rollback(r)
    /\ UNCHANGED <<dbVars, job, signed, credited, outside>>

\* Mutant: a failed sign call passes for a transfer.
SignPaymentIgnored(r) ==
    /\ pc[r] = "created"
    /\ signed' \in {signed, signed \cup {OrderNumber(r)}}
    /\ Goto(r, "signed")
    /\ UNCHANGED <<dbVars, rowLock, job, created, credited, outside>>

\* The second call moves the money, once per order number.  Its failure says
\* nothing of whether it did: a refusal, a timeout and a reply that cannot be
\* read are one SignPaymentError.
SignPayment(r) ==
    /\ pc[r] = "created"
    /\ \/ /\ signed' = signed \cup {OrderNumber(r)}
          /\ Goto(r, "signed")
          /\ UNCHANGED rowLock
       \/ /\ signed' \in {signed, signed \cup {OrderNumber(r)}}
          /\ Goto(r, "inDoubt")
          /\ Rollback(r)
    /\ UNCHANGED <<dbVars, job, created, credited, outside>>

\* Mutant: a reused payout row is taken to be paid for already.
CommitReusedFree(r) ==
    /\ pc[r] = "signed"
    /\ balance' = IF job[r].fresh THEN balance - Total(r) ELSE balance
    /\ payouts' = IF job[r].fresh
                    THEN payouts \cup {[order |-> OrderNumber(r), by |-> r]}
                    ELSE payouts
    /\ rowLock' = Nobody
    /\ Goto(r, "confirming")
    /\ UNCHANGED <<buyer, connected, job, bankVars, credited, outside>>

\* The debit and the payout row become visible together, the row lock is
\* released, and the background task starts.
Commit(r) ==
    /\ pc[r] = "signed"
    /\ balance' = balance - Total(r)
    /\ payouts' = IF job[r].fresh
                    THEN payouts \cup {[order |-> OrderNumber(r), by |-> r]}
                    ELSE payouts
    /\ rowLock' = Nobody
    /\ Goto(r, "confirming")
    /\ UNCHANGED <<buyer, connected, job, bankVars, credited, outside>>

-----------------------------------------------------------------------------
(* send_receipt_after_confirm                                              *)

\* confirm_operation brought no receipt: the task sleeps and tries again,
\* at most MaxRetries times in all.
ConfirmFails(r) ==
    /\ pc[r] = "confirming"
    /\ job' = [job EXCEPT ![r].attempts = @ + 1]
    /\ Goto(r, IF job[r].attempts + 1 = MaxRetries THEN "unconfirmed"
                                                   ELSE "confirming")
    /\ UNCHANGED <<dbVars, rowLock, bankVars, credited, outside>>

\* A status that is not retryable, or an exception the loop does not catch.
ConfirmGivesUp(r) ==
    /\ pc[r] = "confirming"
    /\ Goto(r, "unconfirmed")
    /\ UNCHANGED <<dbVars, rowLock, job, bankVars, credited, outside>>

\* Mutant: the client is taken to have one active application.
ConfirmOperationOfOne(r) ==
    /\ pc[r] = "confirming"
    /\ OrderNumber(r) \in signed
    /\ \E a \in ActiveOf(job[r].client) : job' = [job EXCEPT ![r].marks = {a}]
    /\ Goto(r, "marking")
    /\ UNCHANGED <<dbVars, rowLock, bankVars, credited, outside>>

\* The bank has the receipt; a new session reads the client's applications
\* that are active now.
ConfirmOperation(r) ==
    /\ pc[r] = "confirming"
    /\ OrderNumber(r) \in signed
    /\ job' = [job EXCEPT ![r].marks = ActiveOf(job[r].client)]
    /\ Goto(r, "marking")
    /\ UNCHANGED <<dbVars, rowLock, bankVars, credited, outside>>

\* Mutant: only the completed applications are marked.
MarkCompletedPaid(r) ==
    /\ pc[r] = "marking"
    /\ buyer' = [a \in Applications |->
           IF a \in job[r].marks /\ buyer[a].is_cut_labels
           THEN [buyer[a] EXCEPT !.is_superbanking_paid = TRUE,
                                 !.is_paid_manually = TRUE]
           ELSE buyer[a]]
    /\ Goto(r, "settled")
    /\ UNCHANGED <<connected, balance, payouts, rowLock, job, bankVars,
                   credited, outside>>

MarkPaid(r) ==
    /\ pc[r] = "marking"
    /\ buyer' = [a \in Applications |->
           IF a \in job[r].marks
           THEN [buyer[a] EXCEPT !.is_superbanking_paid = TRUE,
                                 !.is_paid_manually = TRUE]
           ELSE buyer[a]]
    /\ Goto(r, "settled")
    /\ UNCHANGED <<connected, balance, payouts, rowLock, job, bankVars,
                   credited, outside>>

-----------------------------------------------------------------------------
(* A process dies and is started again: its open transactions roll back and *)
(* its background tasks, which exist in memory only, are gone.             *)

AfterRestart(state) ==
    CASE state \in {"loaded", "saved", "debited", "recorded", "created"} -> "aborted"
      [] state = "signed" -> "inDoubt"
      [] state \in {"confirming", "marking"} -> "unconfirmed"
      [] OTHER -> state

Restart(p) ==
    /\ \E r \in Requests : ProcessOf[r] = p /\ pc[r] \notin Finished \cup {"idle"}
    /\ pc' = [r \in Requests |-> IF ProcessOf[r] = p THEN AfterRestart(pc[r])
                                                    ELSE pc[r]]
    /\ rowLock' = IF rowLock # Nobody /\ ProcessOf[rowLock] = p
                    THEN Nobody ELSE rowLock
    /\ UNCHANGED <<dbVars, job, bankVars, credited, outside>>

-----------------------------------------------------------------------------
(* What other handlers do to the same rows.                                *)

Outside == /\ outside < MaxOutside
           /\ outside' = outside + 1
           /\ UNCHANGED <<payouts, pc, job, bankVars>>

\* A committed update of one buyers row.
UpdateRow(a, row) ==
    /\ buyer' = [buyer EXCEPT ![a] = row]
    /\ UNCHANGED <<connected, balance, rowLock, credited>>

\* CreateBuyer: the client starts with another article.
NewApplication(a) ==
    /\ Outside
    /\ ~buyer[a].exists
    /\ UpdateRow(a, [buyer[a] EXCEPT !.exists = TRUE])

\* An order screenshot is accepted: its price overwrites the row's amount.
\* (It also takes a lead off the cabinet while there is one, and then waits
\* for the row lock; with none left it does not.)
OrderAccepted(a, price) ==
    /\ Outside
    /\ buyer[a].exists
    /\ UpdateRow(a, [buyer[a] EXCEPT !.amount = price])

\* The photo of the cut labels is accepted: the last stage.
LabelsAccepted(a) ==
    /\ Outside
    /\ buyer[a].exists /\ ~buyer[a].is_cut_labels
    /\ UpdateRow(a, [buyer[a] EXCEPT !.is_cut_labels = TRUE])

CancelApplication(a) ==
    /\ Outside
    /\ buyer[a].exists /\ ~buyer[a].is_canceled
    /\ UpdateRow(a, [buyer[a] EXCEPT !.is_canceled = TRUE])

\* The sheet's checkbox is copied to a row that Superbanking has not paid.
\* (The synchronisation commits later than it reads, but then it has nothing
\* to change in a row that was marked meanwhile.)
CheckboxSynced(a, ticked) ==
    /\ Outside
    /\ buyer[a].exists /\ ~buyer[a].is_superbanking_paid
    /\ UpdateRow(a, [buyer[a] EXCEPT !.is_paid_manually = ticked])

\* The seller turns auto-payouts on or off; like every update of the cabinet
\* row it waits for a payout's transaction.
ToggleAutopayments ==
    /\ Outside
    /\ rowLock = Nobody
    /\ connected' = ~connected
    /\ UNCHANGED <<buyer, balance, rowLock, credited>>

\* Mutant: the refill replaces the balance.
AddRefillAssigned(n) ==
    /\ Outside
    /\ rowLock = Nobody
    /\ balance' = n
    /\ credited' = credited + n
    /\ UNCHANGED <<buyer, connected, rowLock>>

\* add_refill_balance, one UPDATE relative to the committed balance.
AddRefill(n) ==
    /\ Outside
    /\ rowLock = Nobody
    /\ balance' = balance + n
    /\ credited' = credited + n
    /\ UNCHANGED <<buyer, connected, rowLock>>

-----------------------------------------------------------------------------
Init ==
    /\ buyer \in [Applications -> {BlankRow} \cup
                     {[BlankRow EXCEPT !.exists = TRUE, !.amount = n] :
                         n \in Prices \cup {0}}]
    /\ \A a \in Applications : buyer[a].exists <=> a \in Existing
    /\ connected \in BOOLEAN
    /\ balance = InitialBalance
    /\ rowLock = Nobody
    /\ payouts = {}
    /\ pc = [r \in Requests |-> "idle"]
    /\ job = [r \in Requests |-> NoJob]
    /\ created = {} /\ signed = {}
    /\ credited = 0 /\ outside = 0

\* The steps of a request's own coroutines.
Advance(r) ==
    \/ Save(r) \/ DebitBalance(r) \/ RefuseDebit(r) \/ CreatePayout(r)
    \/ CreatePayment(r) \/ SignPayment(r) \/ Commit(r)
    \/ ConfirmFails(r) \/ ConfirmGivesUp(r) \/ ConfirmOperation(r) \/ MarkPaid(r)

Next ==
    \/ \E r \in Requests, c \in Clients, q \in Requisites, n \in InputAmounts :
          Load(r, c, q, n)
    \/ \E r \in Requests : Advance(r)
    \/ \E p \in Processes : Restart(p)
    \/ \E a \in Applications :
          \/ NewApplication(a)
          \/ \E price \in Prices : OrderAccepted(a, price)
          \/ LabelsAccepted(a)
          \/ CancelApplication(a)
          \/ \E ticked \in CheckboxValues : CheckboxSynced(a, ticked)
    \/ ToggleAutopayments
    \/ \E n \in Refills : AddRefill(n)

Spec == Init /\ [][Next]_vars

\* asyncio resumes every ready coroutine, each HTTP call ends within its 30 s
\* timeout and each transaction of another handler is short, so a coroutine
\* that can advance does.  Nothing else is fair.
FairSpec == Spec /\ \A r \in Requests : WF_vars(Advance(r))

-----------------------------------------------------------------------------
(* Properties                                                              *)

TypeOK ==
    /\ buyer \in [Applications -> Row]
    /\ connected \in BOOLEAN
    /\ balance \in Int
    /\ rowLock \in Requests \cup {Nobody}
    /\ payouts \subseteq [order : Order, by : Requests]
    /\ pc \in [Requests -> States]
    /\ job \in [Requests -> Job]
    /\ \A r \in Requests : pc[r] # "idle" =>
          job[r].client \in Clients /\ job[r].requisites \in Requisites
    /\ created \subseteq Order /\ signed \subseteq Order
    /\ credited \in Nat /\ outside \in 0 .. MaxOutside

\* However the transactions of requests, refills and switches interleave, the
\* seller's balance never goes below zero, and the balance always covers the
\* debit that is not yet committed.
NoOverdraft ==
    /\ balance >= 0
    /\ rowLock # Nobody => balance >= Total(rowLock)

\* No rouble of the balance is lost or made up, by a refusal, a rollback, a
\* restart or a refill that meets an open payout: what is there and what was
\* committed for payouts is what was put in.
Spent == Cardinality(UNION {{r} \X (1 .. Total(r)) :
                               r \in {r \in Requests : pc[r] \in Committed}})
BalanceConserved == balance + Spent = InitialBalance + credited

\* Two requests never insert the same order number, so the unique constraint
\* of table superbanking is never hit although create_payout looks first and
\* inserts later: the row lock taken by the debit keeps the others out.
PayoutRowUnique ==
    \A p, q \in payouts : p.order = q.order => p = q

\* The debit and the payout row stand or fall together: whoever was charged
\* finds a row with its order number, and a row's inserter was charged.
DebitHasPayoutRow ==
    /\ \A r \in Requests : pc[r] \in Committed =>
          \E p \in payouts : p.order = OrderNumber(r)
    /\ \A p \in payouts : /\ pc[p.by] \in Committed
                         /\ OrderNumber(p.by) = p.order

\* The seller is charged only for transfers the bank has made.
DebitImpliesTransfer ==
    \A r \in Requests : pc[r] \in Committed => OrderNumber(r) \in signed

\* Money leaves the bank uncharged only while its request is about to commit,
\* or after a sign call whose outcome that request never learned: no other
\* failure or restart leaks a transfer.
TransferAccounted ==
    \A o \in signed : \E r \in Requests :
        /\ pc[r] \in Committed \cup {"signed", "inDoubt"}
        /\ OrderNumber(r) = o

\* The inductive invariant behind these properties, in four parts.
\*   - the background task has an attempt left as long as it tries;
Trying == {"loaded", "saved", "confirming"} \cup Holding
RetriesLeft ==
    \A r \in Requests : pc[r] \in Trying => job[r].attempts < MaxRetries

\*   - mutual exclusion: the row lock belongs to the one open transaction that
\*     has debited the balance, and the balance covers that debit;
LockInv ==
    /\ \A r \in Requests : pc[r] \in Holding <=> rowLock = r
    /\ balance >= 0
    /\ \A r \in Requests : rowLock = r => balance >= Total(r)

\*   - what an open transaction found about its payout row stays true;
RowInv ==
    /\ \A r \in Requests : pc[r] \in {"recorded", "created", "signed"} =>
          (job[r].fresh <=> \A p \in payouts : p.order # OrderNumber(r))
    /\ PayoutRowUnique
    /\ DebitHasPayoutRow

\*   - the bank has paid what the database records or is about to record.
BankInv ==
    /\ \A r \in Requests : pc[r] \in Committed \cup {"signed"} =>
          OrderNumber(r) \in signed
    /\ TransferAccounted

\* Together: a step from any state that satisfies all four leads to another.
IInv == TypeOK /\ RetriesLeft /\ LockInv /\ RowInv /\ BankInv

\* Once a request's receipt has been processed no application it paid for is
\* active, so no later request pays it again, whatever was cancelled, priced,
\* added or ticked meanwhile (a tick the seller takes back is another matter:
\* this needs CheckboxValues without FALSE).
SettledClosesBatch ==
    \A r \in Requests : pc[r] = "settled" =>
        \A a \in job[r].batch : ~Active(a)

\* An application the bank has paid for is still active only while the request
\* for it is under way, or after a sign call in doubt or a receipt task that
\* gave up or died with its process: of all that a restart or a failure cuts
\* short, only these leave a paid application open to the next payout.  (A tick
\* taken back is left out, as above.)
OpenUntilReceipt ==
    \A o \in signed : \A a \in o.batch : Active(a) =>
        \E r \in Requests :
            /\ pc[r] \in {"signed", "confirming", "marking", "inDoubt", "unconfirmed"}
            /\ OrderNumber(r) = o

\* One transfer is charged once: two calls with one order number, which the
\* bank pays once, do not both debit the seller.  models/superbanking.py:18
\* calls the order number the transfer's unique number "for idempotence".
OneDebitPerOrder ==
    \A r, s \in Requests :
        /\ r # s
        /\ pc[r] \in Committed /\ pc[s] \in Committed
        => OrderNumber(r) # OrderNumber(s)

\* An application marked is_superbanking_paid is one a transfer was made for:
\* models/buyer.py:51 comments the column "payout made through Superbanking".
MarkedMeansTransferred ==
    \A a \in Applications : buyer[a].is_superbanking_paid =>
        \E o \in signed : a \in o.batch

\* The money is reserved before the bank is called, with the payout row
\* (create_superbanking_payment.py:95): no transfer without a debit, committed
\* or about to be.
TransferReserved ==
    \A o \in signed : \E r \in Requests :
        /\ pc[r] \in Committed \cup {"signed"}
        /\ OrderNumber(r) = o

\* Every call of execute, with its background task, comes to an end: none
\* waits for ever for the cabinet's row lock, and the retries stop.
EveryRequestEnds ==
    \A r \in Requests : pc[r] = "loaded" ~> pc[r] \in Finished

\* The balance as its seller sees it: CashbackLedger with a request's debit
\* appearing at its commit.
Ledger == INSTANCE CashbackLedger WITH
    debits <- [r \in Requests |-> IF pc[r] \in Committed THEN Total(r) ELSE 0]
LedgerSpec == Ledger!LedgerSpec
=============================================================================
