# axiomai: a formal model

axiomai is a Telegram bot with a small REST API behind which sellers give cashback to the
clients who buy their goods. Its hard part is not any single handler. It is what happens
when handlers meet: clients press a button twice, two administrators decide about one
payment, a process is restarted between a commit and a message, the bank does not answer.
This directory holds TLA+ models of those parts, the TLC configurations that check them on
small instances, and theorems that TLAPS proves for every instance.

`PROJECT.json` is the index: components, runs, mutants (the plausible bugs each property is
known to catch), the source lines behind every definition, findings, hazards and theorems.

    tlc -config Payout_money.cfg MCPayout.tla      # one run
    tlapm PayoutProofs.tla                         # one module of proofs

Paths below are relative to `src/axiomai/` unless they start with `src/`.

## 1. Inventory

Three processes run the code: `tgbot` (aiogram handlers and dialogs), `api` (FastAPI) and
`observer` (three endless loops). They share PostgreSQL, and tgbot uses Redis. Inside a
process everything is a coroutine: a step lasts from one `await` to the next. Transactions
are PostgreSQL's READ COMMITTED; a session is opened per handler or per background step.

### Cashback payout: modelled, proved
- *Code:* `application/interactors/create_superbanking_payment.py`, called by the bot's
  confirm button (`q4_input_requisites.py`) and `POST /buyers/{id}/complete`.
- *State:* rows of `buyers`, `cabinets.balance`, rows of `superbanking`; the bank's orders;
  the in-memory task `send_receipt_after_confirm`.
- *Operations:* save requisites (first commit); debit, payout row, two bank calls, second
  commit; poll the receipt and mark the client's applications as paid.
- *Hard:* two processes at once, a bank call that fails after it took effect, restarts that
  lose the background task, applications that change while a payout runs.
- *Correct means:* no overdraft, no rouble lost, a debit and a payout row together or not at
  all, no charge without a transfer, nobody paid twice, every call ends.

### Seller payments: modelled, proved
- *Code:* `application/interactors/refill_balance/`, `buy_leads/`, `payment_common.py`,
  `tgbot/handlers/admin_confirms.py`, the two dialogs, `gateways/payment.py`.
- *State:* `payments.status`, `cabinets.balance`, `initial_balance`, `leads_balance`,
  `cashback_tables.status`; the buttons an administrator has received.
- *Operations:* create, claim (CREATED to WAITING_CONFIRM, then a message to the
  administrator), confirm (conditional UPDATE, then the credit), reject.
- *Hard:* racing verdicts, two row locks and a payout that competes for one of them,
  rollbacks between status and credit, a notification lost after its commit.
- *Correct means:* one verdict per payment, never revoked, credited exactly if it is
  SUCCEEDED, and a verdict is asked for.

### Message debouncer: modelled, proved
- *Code:* `infrastructure/message_debouncer.py`, under all handlers of clients' messages.
- *State:* a buffer per chat in Redis with a TTL, a lock and a registered timer per chat in
  memory.
- *Operations:* add a short message (store, replace the timer), add a long one (take the
  buffer at once), a timer that fires (take the buffer, call back).
- *Hard:* interleaved calls and timers, cancellation at any await, restarts, expiry.
- *Correct means:* a message is neither lost nor taken twice, one timer, and what was taken
  is processed.

### Client intake and buyer applications: modelled, proved
- *Code:* `tgbot/handlers/process_clients.py`, `confirm_screenshots.py`, `create_buyer.py`,
  `cancel_buyer.py`, `update_buyer_screenshot.py`, `api/routes/buyers.py`, the dialog
  `cashback_article/` (q1 to q4), `infrastructure/kie.py`.
- *State:* a client's applications (ordered, feedback, labels, canceled, paid), the dialog's
  screen and data, the FSM state `client_processing`, `cabinets.leads_balance`.
- *Operations:* classify a message and create applications, resume a dialog, classify each
  photo and mark the matching application, `/confirm` and `/cancel` of the seller, the
  mini-app's creations and uploads.
- *Hard:* rows are read, a language model is awaited for seconds, and the rows are written; the
  bot, the seller and the API write the same rows; `leads_balance` is read and written back
  while others update it in place; look-up and insert without a constraint; background
  callbacks that move a screen somebody else has opened.
- *Correct means:* one application per client and article, steps taken in order, a lead per
  accepted order and none lost, a dialog that asks for what is missing.

### Sheet synchronisation: modelled, proved
- *Code:* `sync_cashback_tables.py`, `infrastructure/google_sheets.py`.
- *State:* articles, the sheet of buyers with its column of checkboxes, `is_paid_manually`.
- *Operations:* every 10 s, for each active table: read articles, read the checkboxes, rewrite
  the sheet, commit.
- *Hard:* the seller edits the sheet between the read and the rewrite; one call of several
  fails; payouts mark rows meanwhile; a cabinet with two tables.
- *Correct means:* a tick stays, a settled application stays settled, what is offered is what
  the table lists.

### Balance notifications: modelled, proved
- *Code:* `observe_balance_notifications.py` and its gateway and model.
- *State:* rows (cabinet, initial_balance, threshold). *Operations:* per cabinet and
  threshold: record, send to the seller, send to the owner, commit.
- *Hard:* a send that fails ends the iteration; rows age during it; cycles are told apart by
  their sum only.
- *Correct means:* every threshold reached is announced, truly, once per refill cycle, and
  what is recorded was heard.

### Onboarding: modelled, proved
- *Code:* `create_user.py`, `create_cabinet.py`, `create_cashback_table.py`,
  `observe_cashback_tables.py`, `link_business_account.py`.
- *State:* users, cabinets with a one-time `link_code`, a table's status.
- *Hard:* commit before message, check before insert, a code used twice at once.
- *Correct means:* one cabinet per seller, a code links one account, the seller of a verified
  table gets the link.

### Left out
The inactive reminders are deliberately not started (`observer/__main__.py:54`); `openai.py` is
not imported any more; routing, filters, keyboards, texts, menus, wiring, migrations and the
frontend decide nothing the properties speak of.

### How they interact

    client -> tgbot -> debouncer -> callbacks -> buyers rows, leads_balance
    client -> tgbot q4 / api  -> payout --+--> cabinets row <--+-- verdicts <- administrator
    seller -> sheet <-> observer sync ----+--> buyers rows     +-- seller's switch
    payout, refills -> balance, initial_balance -> observer notifications -> seller, owner

The cabinet's row is the meeting point: a payout keeps it locked during two bank calls, and
confirmed refills, purchases of leads, accepted orders and the auto-payout switch wait.
`Payout` and `SellerPayments` each model one side of it and the other as an environment;
`CabinetRow` is what both sides keep to.

## 2. Modules

| module | role |
|---|---|
| `CashbackLedger` | abstract: each request is charged at most once, in one step, within the balance |
| `CabinetRow` | abstract: the contract of the transactions that share a cabinet's row: one debit open at a time, within the balance, taken whole or not at all |
| `Payout` | the payout, its bank, restarts, and the other writers of its rows |
| `PayoutProofs` | theorems about `Payout` |
| `PaymentLifecycle` | abstract: a claimed payment gets one verdict and is credited with it |
| `SellerPayments` | refills and purchases of leads, verdicts, row locks, restarts, competing payouts |
| `SellerPaymentsProofs` | theorems about `SellerPayments` |
| `Mailbox` | abstract: what waits is taken all at once, a message at most once |
| `Debouncer` | one chat of `MessageDebouncer` |
| `DebouncerProofs` | theorems about `Debouncer` |
| `KieGateway` | what the gateway to the language model can answer, after parsing and filtering |
| `BuyerFlow` | clients, their dialog and callbacks, leads; EXTENDS `KieGateway` |
| `BuyerFlowProofs` | theorems about `BuyerFlow` |
| `BalanceNotifications` | the observer that warns of a low balance, against refills and payouts |
| `BalanceNotificationsProofs` | theorems about it |
| `Onboarding` | sellers, cabinets, tables, links |
| `OnboardingProofs` | theorems about `Onboarding` |
| `SheetSync` | the synchronisation of one cabinet, for any way in which tables become active |
| `SheetSyncProofs` | theorems about `SheetSync` |
| `SellerTables` | composition: `Onboarding` decides which tables `SheetSync` finds active |
| `SellerTablesProofs` | that the composition implements `SheetSync`, and inherits its theorems |
| `MCPayout`, `MCSellerPayments`, `MCDebouncer`, `MCBuyerFlow`, `MCBalanceNotifications`, `MCSellerTables` | instances for TLC |

### Payout
A *request* is one call of `execute`. Its `pc` says which await it has reached, its `job`
holds the locals: the batch of applications it read, their amounts, its retries.

| state reached | action | code |
|---|---|---|
| loaded | `Load` | the reads; no active application is BuyerNotFoundError, which changes nothing |
| saved, skipped | `Save` | first commit: requisites, amounts; no auto-payouts ends here |
| debited, refused | `DebitBalance`, `RefuseDebit` | `try_debit_balance`: waits for the row lock |
| recorded | `CreatePayout` | looks the order number up, inserts if there is none |
| created, signed | `CreatePayment`, `SignPayment` | the bank's calls; a failure may have taken effect |
| confirming | `Commit` | debit and row become visible, the lock is released, the task starts |
| marking, settled, unconfirmed | `ConfirmFails`, `ConfirmGivesUp`, `ConfirmOperation`, `MarkPaid` | the background task |

`balance` and `payouts` are what is committed. An open debit shows only as `rowLock`, so a
rollback is the release of the lock. `OrderNumber` stands for the digest by what is digested.
`Restart(p)` ends the coroutines of one process. The bank is external and is modelled from
how the code uses it: an order number is paid at most once, and any failure may hide a
success. Applications created, priced, completed, cancelled or ticked meanwhile, the
switch and the refills are environment actions, at most `MaxOutside` of them.

### SellerPayments
`status` is the committed status. `dialog` is the seller's side: the press of the paid
button loads, commits, and notifies (`MarkLoad`, `MarkCommit`, `Notify`). A *verdict* is one
call of an admin handler: `Transition` is the conditional UPDATE, which takes the payment's
row lock, `AddBalance` the credit, which takes the cabinet's, `Confirm` or `Cancel` the
commit, `Refuse` the message that somebody was faster. A payout's transaction is
`PayoutDebits` and `PayoutEnds`. A legacy payment, leads without a type, is refused.

### Debouncer
A message names the call that adds it and the timer that call starts. `Read`, `Store`,
`Arm` are the three parts of a short message under the lock; `Read`, `Seize` those of a long
one; `Fire`, `Pop` those of a timer. Cancelling is a change of the timer's state at any
await, and `Close` is its `finally`. `HasPhoto`, `Long`, `PhotoOnly` say what a message is.

### BuyerFlow
Applications are numbered in the order of `created_at`; `done[s]` is the set that has passed
step s. A *task* is one callback that the debouncer started, or one API request: `at` is the
await it has reached, the other fields are its locals. A handler that awaits only queries is
one step; a callback is cut where others can get in between with effect.

| task reaches | action | code |
|---|---|---|
| reading | `Approach`, `Send` | `add_message`; the callback starts |
| asking | `ReadOffered`, `ReadApplications` | the articles, or the applications, it asks about |
| idle | `GiveUp` | nothing to ask about: several photos, "ok", no table |
| marking, creating, idle | `AnswerChat`, `AnswerQuestion`, `AnswerOrder`, `AnswerFeedback`, `AnswerCutLabels` | the model's answer (`KieGateway`) and what is concluded from it |
| paying, marking | `ReadLeads`, `MarkOrdered`, `MarkStep` | the loop over the accepted articles; leads are read, then written back |
| idle | `Finish` | the next screen, if the dialog the callback came from is still open (`home`) |
| inserting, creating | `Look`, `Insert` | `CreateBuyer` for each article |
| idle | `StartDialog` | the dialog starts, or cannot |
| idle | `Cut` | cancelled by the next message, by a failure or a restart |

`ResumeDialog`, `Stop`, `InputRequisites`, `ConfirmRequisites`, `DeclineRequisites`, `Confirm`,
`Cancel` are handlers in one step. `Start` allows a client one timer's callback, as `Debouncer`
does, besides those of long messages, which it does not know of. `Pay` and `Purchase` are what
`Payout`, `SheetSync` and `SellerPayments` do to the same rows.

History variables name the exceptions of the properties, and each is a race or a command in the
code: `raced` (a lead written from a stale read), `again` (an order that two callbacks looked
at, or that the model named twice), `crossed` (two creations at once), `uploaded` (a step taken
through the API, which asks for no order), `disturbed` (somebody changed a client's rows or
screen while a callback was at work on them, or the callback was cut half way).

### BalanceNotifications
`cycles[c]` is the history of `initial_balance`; the observer's `row` is what it read when it
woke. `Choose`, `TellSeller`, `TellOwner`, `Commit` are the loop's steps for a threshold, the
flushed insert being invisible until the commit. `Fail` is a send, a commit or the process that
fails: the session is rolled back and the iteration is over.

### Onboarding, SheetSync, SellerTables
A *handler* is an update that tgbot works on between its look-up and its write (`AddCabinet` and
`CreateCabinet`, `FollowLink` and `Link`). The table observer is `Wake`, `Ask`, `Hint`,
`Verify`, `SendLink`; `Break` ends its iteration anywhere. Google's rights are the variable
`rights`. A table that leads were paid for (PAID) is verified for these modules.

`SheetSync` is one cabinet. `sync` holds the iteration's session: `got` (the articles fetched),
`loaded`, `paid`, `was`, `manual` (rows as loaded once per iteration, and the boxes as the
session has them). `Fetch`, `Merge`, `ReadBoxes`, `WriteSheet`, `Save` are the requests and
transactions of a table. `active` only grows; who makes it grow is left open there and decided
in `SellerTables`, where it is the set of the cabinet's verified tables.

## 3. What the runs check

| run | instance | shows |
|---|---|---|
| `Payout_money` | 1 client, 1 application, 2 requests in 2 processes, requisites in 2 equivalent spellings, 2 retries, 2 outside events | the balance is never overdrawn, every rouble is accounted for, payout rows are unique and belong to debits, no charge without a transfer, no transfer that nobody knows of; `IInv`; implements `CashbackLedger`; under fairness every call ends |
| `Payout_marks` | 2 clients, 3 applications (one created later), 2 requests, 2 outside events | a receipt closes everything that was paid for; what the bank was paid for stays active only until its receipt, or after it was lost |
| `Payout_double_debit` | as `Payout_money` | **violated**: finding 1 |
| `Payout_newcomer` | an application created during a payout | **violated**: finding 2 |
| `Payout_in_doubt` | a sign call that fails after it took effect | **violated**: finding 3 |
| `SellerPayments` | 2 refills, leads, a legacy payment, 2 verdicts, 2 payouts | one verdict, final, credited exactly when SUCCEEDED; tables are PAID exactly for paid leads; every press is answered; implements `PaymentLifecycle` |
| `SellerPayments_unasked` | the same | **violated**: finding 4 |
| `Debouncer` | 2 texts, a photo, a long text, one restart | one timer, every message accounted for, the buffer is watched and taken in the end; implements `Mailbox` |
| `Debouncer_cancelled` | the same | **violated**: finding 5 |
| `BuyerFlow` | 1 client, 2 articles, 2 applications, a timer's callback and one other, 2 articles per answer, 1 outside event | one application per article, steps in order, leads accounted for, one lead per order, a dialog that asks for what is missing |
| `BalanceNotifications` | 2 cabinets (a seller's and the owner's), 2 refills, failures | what is recorded was heard, once, and is true; every alert comes |
| `SellerTables` | 2 people, 2 tables, 2 handlers; applications, articles and listings for the sync, 3 edits | one cabinet, one linked account, a link for every verified table; ticks, settled applications and articles survive the sync; implements `SheetSync` |

**Bounds.** Requests and verdicts interact pairwise, through one row lock and one order
number, so two of them already show every race; a third adds a queue, not a kind of step.
Two outside events are enough to change a row and change it back, or to create an
application and price it. One restart per process and moment is implicit in `Payout` (a
restart is always possible while something runs). Two payouts let one be committed and one
open while a verdict waits. Four messages allow a buffer to be built, taken by a long message
or a timer, and built again.

`BuyerFlow` has two articles and two applications, so that an answer can name both, name one
twice, and create twins; the constraint `OneAtATime` tries two callbacks at once on one
article only, and with two articles, or with the requisites half typed, the timer's callback
alone. One outside event is enough to invalidate what one callback has read.
`BalanceNotifications` has charges and refills that cross each threshold one by one and
several at once, in two cycles that may start from the same sum. `SellerTables` builds
everything two people, two handlers and two tables can bring about, and the constraint
`OneAfterTheOther` then tries the sync on cabinets that came about without incident, with
a second table before, during or never: `SheetSync` sees of onboarding only `active`. People,
tables and handlers are symmetric, and so are the articles of `BuyerFlow`; neither run has a
liveness property. The theorems below have none of these bounds.

**Exceptions.** Some properties name the case in which the code does not keep them, and say
nothing of it, so that they show that there is no other: `PaidStaysPaid` and `TickKept` an
application whose box is found ticked while its payout is under way (`twice`: a later save can take the mark back);
both, and `ArticlesMirrored`, a cabinet with two active tables (`Sole`), and the last a table
that lists an article twice (`repeated`); `OneCabinet` and `AccountsLinked` two
updates handled at once (`crossed`, `raced`), and `VerifiedIsTold` a link whose send failed
(`lost`). Those of `BuyerFlow` are above. All are reached in the runs. Two properties have no
exception but say no more than the code can keep: `AlertComes` counts an alert of an earlier cycle
that started from the same sum, since a cycle is known by its sum only (`ToldOfSum`), and
`OpenUntilReceipt` lists the ends of a request that leave what it paid for active
(as `SettledClosesBatch`, for a seller who takes no tick back).

**Deadlock** is not checked: every behaviour ends when requests, verdicts, messages, refills,
edits and outside events are used up. That nothing hangs is what the liveness properties say.

**Fairness.** Weak fairness of a coroutine's own next step: asyncio resumes what is ready,
and the awaited things end (Superbanking's calls have a timeout of 30 s, the retries are
counted, a transaction is short). No request, press, message, restart or outside event has
to come. `SellerPayments` adds that an open payout ends, which `EveryRequestEnds` of
`Payout_money` shows. `BalanceNotifications` has weak fairness of the observer's iteration,
because the loop catches whatever an iteration ends with and goes on; sends fail finitely
often (`MaxFailures`), for one that fails for good blocks the owner's alert and
the cabinets that come after it. The lock
queues need no strong fairness in these instances, where a holder never takes the lock
again.

**Assumptions about what is not in the source.** aiogram-dialog handles the events of one
dialog one at a time (`setup_dialogs`, `tgbot/__main__.py:55`), while callback queries of
administrators and API requests run concurrently. A restart rolls open transactions back and
loses tasks; PostgreSQL and Redis survive it. The buffer's TTL (300 s by default) exceeds the
debounce delay (10 s). PostgreSQL re-evaluates the WHERE of an UPDATE that waited for a row.
Of aiogram-dialog, that a background manager whose dialog was closed or started anew moves
nothing. Of Google, that a request is done or fails as a whole.

## 4. Findings

1. `OneDebitPerOrder`: a second call before the first one's receipt has the same order number,
   reuses the payout row, is paid nothing by the bank, and debits the seller again
   (`create_superbanking_payment.py:97`), although the order number exists for idempotence.
2. `MarkedMeansTransferred`: the receipt marks all applications active by then, those created
   after the payout included (`create_superbanking_payment.py:212`).
3. `TransferReserved`: any failure of the sign call rolls the debit back, although the bank may
   have paid (`create_superbanking_payment.py:126`).
4. `WaitingIsAsked`: WAITING_CONFIRM is committed before the administrator is written to; if
   that message is lost nobody can decide, and the seller cannot ask again
   (`payment_common.py:126`).
5. `TakenIsProcessed`: a new message cancels the registered timer even while its callback works
   on messages that are no longer in Redis (`message_debouncer.py:72`).

## 5. What is proved

The theorems hold for all values of the constants that satisfy the modules' named
assumptions: any number of requests, clients, applications, prices, retries, payments,
verdicts, messages and restarts.

**`PayoutProofs`** (`PayoutAssumption`). The inductive invariant is `IInv`, in five parts:
`TypeOK`; `RetriesLeft` (a task that tries has an attempt left, so the counter stays in its
type); `LockInv` (the row lock is the open debit, and the balance covers it); `RowInv` (what
`CreatePayout` found stays true until the commit); `BankInv` (what is committed or signed is
paid, and what is paid is accounted for). None of `NoOverdraft`, `PayoutRowUnique` or
`DebitImpliesTransfer` is inductive alone: the uniqueness of rows needs `fresh` to be right,
and that needs the lock to exclude other inserters. From it: `TypeCorrect`, `NeverOverdrawn`,
`RowsUnique`, `DebitsRecorded`, `ChargedOnlyForTransfers`, `TransfersAccounted`.
`ImplementsLedger` maps `Commit` to a debit, `AddRefill` to a credit and every other step to
a stutter. `Conserved` adds the arithmetic of what was spent, as cardinalities.

**`SellerPaymentsProofs`** (`SellerPaymentsAssumption`). `Inv` is `TypeOK`, `LockHolders`,
`StatusKnown` (whoever is about to write a status knows the one it overwrites),
`InitialAboveBalance` and `OneVerdict`. From it: `OnlyOneVerdict`, `Final`, `TablePaid`,
`CreditedOnce` and `ImplementsLifecycle`. `NoDeadlock` follows from `LockHolders` and
`StatusKnown`: a verdict that waits for a payment waits for one that holds it, which waits at
most for the cabinet, whose holder waits for nobody; and the seller's own commit finds the
payment's row free.

**The cabinet's row.** `KeepsCabinetRow`, in both `PayoutProofs` and `SellerPaymentsProofs`, shows
that what is reserved (the open request's charge; the competing payout's) and the committed
balance move as `CabinetRow` allows. So the payouts that `SellerPayments` lets compete, and the
refills that `Payout` lets happen, are what the other module really does to the balance.

**Bounded work.** The prover cannot treat liveness, but its safety half is proved:
`WorkBounded` in `PayoutProofs`, `SellerPaymentsProofs` and `DebouncerProofs` gives each request,
verdict and message a number of steps (`StepsLeft`) that its own steps make smaller and that
nobody else's, a restart's included, make larger. What is left to fairness is that who can
go on does; what is left to TLC is that somebody always can.

**`DebouncerProofs`** (`DebouncerAssumption`). `Inv` is `TypeOK`, `OneTimer`, `Exclusive` (the
lock), `Locals` (what a coroutine read is still what Redis holds), `Fresh` (a message that was
not stored is nowhere), `Accounted` and `TimerHandsItsOwn`. The proof first shows that batches
change only by `Seize` and `Pop`, which makes all other steps cheap. From it:
`EveryMessageAccounted`, `OnlyOneTimer`, `OwnMessageHanded`, `TimerWatches`,
`ImplementsMailbox`. `CancelledSafely` is an action property: a timer is cancelled before it
has read the buffer or after its callback was called, never in between, where a batch would be
lost; what remains is finding 5.

Later theorems of `PayoutProofs` are about marks. `MarksInv` says that a batch is of one
client and that what is marked was paid for, or ticked, for its client: `MarkedForItsClient`.
`BatchInv` adds that a settled request's batch is closed, which stays true only if nobody
takes a tick back, so `BatchClosed` assumes that FALSE is not among `CheckboxValues`; so does
`PaidOnceSettled`: nothing of a settled batch is in a batch loaded later. With `TransferAccounted`
it gives `OpenOnlyUnsettled`: an application of a transfer is active only until the receipt, or
after the receipt task or the sign call was lost (`OpenUntilReceipt`).

`MarkedWereTransferred` says where finding 2 ends. With no application started meanwhile
(`Applications = Existing`) and no tick taken back, `MarkedMeansTransferred` holds:
active applications only become fewer (`NoNewcomer`), so that the receipt finds none that
the batch has not. Those two are the only ways in which the code can mark what it did not pay.

**`BuyerFlowProofs`** (`BuyerFlowAssumption`). None of its properties is inductive, because a
callback writes from what it read seconds ago. `IInv` adds that what a callback read still
supports what it is about to write (`TaskOK`, `Meant`: an application it means to mark exists,
has passed the step before, and was not charged yet, unless it has a twin or is in `again`),
and that an insert is of something new unless the client is in `crossed` (`InsertsNew`,
`InsertsApart`). Rows, steps and charges only grow, so locals that do not move are kept by
every step of the others, which the module shows once. From it: `OneEach`,
`InOrder`, `LeadsAddUp`, `ChargedOnce`.

`DialogServes` (theorem `DialogHelps`) has an invariant of its own, `ServedInv`. A client whom
nobody has disturbed has at most one callback at work, and nothing paid for; while its dialog is
on a step, an application is waiting there, or the callback under way is about to move the
dialog on. That needs what the callback knows to be right until it ends: what it has read is the
client's rows as they are (`Read`), what it has accepted is theirs, active and named once
(`Accepted`, `Sound`), an active row is ahead of a step only while
an older row of its article still waits at that step (`Supported`), and rows, screen and callbacks belong to one client (`Own`). A step of anybody else leaves an undisturbed
client's rows and screen as they were (`Kept`); the steps of its own callback and its
messages are taken one by one.

**`BalanceNotificationsProofs`** (`BalanceAssumption`). The strengthening relates
the rows an iteration read to the table as it is: a row knows its cycle, in which the balance
has only fallen since (`RowsOfCycle`); what is announced is due and not on record (`DueIsNew`);
an alert that was heard is on record, was rolled back, or is the one being recorded
(`HeardIsRecorded`). From it: `Heard`, `NotTwice`, `NoFalseAlert`.

**`OnboardingProofs`** (`OnboardingAssumption`). `Fresh` says that the locals of
handlers and of the observer refer to rows that exist, and that nobody was told of an account
whose code is still there; `PressesCrossed` that two look-ups before either insert have
crossed. From it: `SecondCabinetCrossed`, `ToldIsLinked`,
`VerifiedSellerHasLink`.

**`SheetSyncProofs`** proves `TicksSurvive` and `SettledStaysSettled` for any growth of
`active`: what the session holds agrees with the database but for the boxes read since
(`SessionOK`, `PaidIsHeld`), it has every tick that counts when it writes (`TicksAreHeld`),
and with one table nothing is read after the commit (`LastTable`). **`SellerTablesProofs`**
(`SellerTablesAssumption`) shows that every step of the composition is a step or a stutter of
`SheetSync` with `active <- ActiveTables` (`ImplementsSync`, which needs from onboarding that
tables are verified one at a time and stay so), so that the theorems of `SheetSyncProofs` hold
of it, and that the sync disturbs nothing of onboarding (`OnboardingHolds`).

`ArticlesMirrored` (theorem `StockFollowsTable`, in both modules) speaks of what merging a
listing, row by row, makes of the articles. `Created` is therefore a recursive function of the
row number, and what it yields is shown by a minimal counterexample: if some row went wrong there
would be a first one, because the naturals are well founded, and it cannot be. `MirrorInv` carries
the result from one merge to the next.

**Only model-checked:** liveness (`EveryRequestEnds`, `EveryPressEnds`, `EverythingTaken`,
`AlertComes`), which the prover cannot treat. Every other property of a passing run has a theorem.

## 6. Not modelled

Abstracted in what is modelled: texts, digests and timestamps; the exact reply codes of the
bank beyond success, failure before and failure after the effect; errors of PostgreSQL and
Redis themselves; several chats of one client.

Left out, and why:

- *Texts and prompts* (`kie.py`, the dialogs' windows, `google_sheets.py`'s cells): they decide
  nothing after `KieGateway`'s parsing, and what the model behind it answers is arbitrary.
- *Chat histories* (`chat_history.py`): read, extended and written back, so that two callbacks
  can lose each other's entries; they are context for the language model, nothing reads them
  for a decision. The same holds of the dialog's counter of rejected photos, which only
  chooses a text.
- *Amounts* in the sheets and in the applications' messages: `Payout` has those that are paid.
- *The seller's menu* beyond its switch and its dialogs, the API's reads, authentication,
  routing, wiring, migrations, the frontend: no state of their own that a property is about.
- *Inactive reminders* (deliberately not started) and *`openai.py`* (not imported): no process
  runs them.
- *Two hazards without a property*, listed in `PROJECT.json` with the reason: nothing in the
  repository says which outcome is right.
