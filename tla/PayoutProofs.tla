---------------------------- MODULE PayoutProofs ----------------------------
(***************************************************************************)
(* Theorems about Payout, for every set of applications, clients, requests *)
(* and processes, every price and every commission.                        *)
(***************************************************************************)
EXTENDS Payout, FunctionTheorems, FiniteSetTheorems, TLAPS

-----------------------------------------------------------------------------
(* The arithmetic of a charge.                                             *)

LEMMA CashbackNat ==
  ASSUME NEW a \in Applications, NEW n \in Nat
  PROVE  Cashback(a, n) \in Nat
<1>1. Percent[a] \in Nat
  BY PayoutAssumption
<1>2. n * Percent[a] \in Nat
  BY <1>1, SMT
<1>3. QED
  BY <1>2, SMT DEF Cashback

\* The roubles of a batch can be counted.
LEMMA RoublesFinite ==
  ASSUME NEW batch \in SUBSET Applications,
         NEW amounts \in [Applications -> Nat]
  PROVE  IsFiniteSet(Roubles(batch, amounts))
<1> DEFINE share(a) == {a} \X (1 .. Cashback(a, amounts[a]))
           f == [a \in batch |-> share(a)]
           shares == {share(a) : a \in batch}
<1>1. IsFiniteSet(batch)
  BY PayoutAssumption, FS_Subset
<1>2. f \in Surjection(batch, shares)
  BY DEF Surjection
<1>3. IsFiniteSet(shares)
  BY <1>1, <1>2, FS_Surjection
<1>4. ASSUME NEW a \in batch
      PROVE  IsFiniteSet(share(a))
  <2>1. Cashback(a, amounts[a]) \in Nat
    BY CashbackNat
  <2>2. IsFiniteSet(1 .. Cashback(a, amounts[a]))
    <3> DEFINE n == Cashback(a, amounts[a])
    <3>1. n \in Int
      BY <2>1
    <3> HIDE DEF n
    <3>2. IsFiniteSet(1 .. n)
      BY <3>1, FS_Interval
    <3>3. QED
      BY <3>2 DEF n
  <2>3. IsFiniteSet({a})
    BY FS_Singleton
  <2>4. QED
    BY <2>2, <2>3, FS_Product
<1>5. \A T \in shares : IsFiniteSet(T)
  BY <1>4
<1>6. IsFiniteSet(UNION shares)
  <2> HIDE DEF shares
  <2>1. QED
    BY <1>3, <1>5, FS_UNION
<1>7. QED
  BY <1>6 DEF Roubles

\* What a request transfers is a whole number of roubles, and what it takes
\* from the balance is at least one.
LEMMA ChargeNat ==
  ASSUME TypeOK, NEW r \in Requests
  PROVE  /\ Charge(r) \in Nat
         /\ Total(r) \in Nat \ {0}
<1>1. job[r].batch \in SUBSET Applications /\ job[r].amounts \in [Applications -> Nat]
  BY DEF TypeOK, Job
<1>2. IsFiniteSet(Roubles(job[r].batch, job[r].amounts))
  BY <1>1, RoublesFinite
<1>3. Charge(r) \in Nat
  BY <1>2, FS_CardinalityType DEF Charge
<1>4. QED
  BY <1>3, PayoutAssumption DEF Total

LEMMA OrderType ==
  ASSUME TypeOK, NEW r \in Requests, pc[r] # "idle"
  PROVE  OrderNumber(r) \in Order
<1>1. Charge(r) \in Nat
  BY ChargeNat
<1>2. job[r] \in Job /\ job[r].client \in Clients /\ job[r].requisites \in Requisites
  BY DEF TypeOK
<1>3. Normal[job[r].requisites] \in Requisites
  BY <1>2, PayoutAssumption
<1>4. QED
  BY <1>1, <1>2, <1>3 DEF OrderNumber, Order, Job

-----------------------------------------------------------------------------
(* Type correctness.                                                       *)

\* A row, and a request's local variables, keep their types when fields are
\* assigned.
LEMMA RowUpdate ==
  ASSUME NEW row \in Row
  PROVE  /\ \A n \in Nat : [row EXCEPT !.amount = n] \in Row
         /\ \A v \in BOOLEAN :
              /\ [row EXCEPT !.exists = v] \in Row
              /\ [row EXCEPT !.is_cut_labels = v] \in Row
              /\ [row EXCEPT !.is_canceled = v] \in Row
              /\ [row EXCEPT !.is_paid_manually = v] \in Row
BY DEF Row

LEMMA RowRequisites ==
  ASSUME NEW row \in Row, NEW q \in Requisites \cup {Nobody}, NEW n \in Nat
  PROVE  [row EXCEPT !.requisites = q, !.amount = n] \in Row
BY DEF Row

LEMMA JobUpdate ==
  ASSUME NEW j \in Job
  PROVE  /\ \A v \in BOOLEAN : [j EXCEPT !.fresh = v] \in Job
         /\ \A n \in 0 .. MaxRetries : [j EXCEPT !.attempts = n] \in Job
         /\ \A f \in [Applications -> Nat] : [j EXCEPT !.amounts = f] \in Job
         /\ \A S \in SUBSET Applications : [j EXCEPT !.marks = S] \in Job
BY DEF Job

LEMMA ActiveOfType == \A c : ActiveOf(c) \in SUBSET Applications
BY DEF ActiveOf

\* A request's share of the amount it was called with.
LEMMA ShareNat ==
  ASSUME NEW batch \in SUBSET Applications, batch # {}, NEW n \in Nat
  PROVE  n \div Cardinality(batch) \in Nat
<1>1. IsFiniteSet(batch)
  BY PayoutAssumption, FS_Subset
<1>2. Cardinality(batch) \in Nat /\ Cardinality(batch) # 0
  BY <1>1, FS_CardinalityType, FS_EmptySet
<1> DEFINE size == Cardinality(batch)
<1>3. size \in Nat \ {0}
  BY <1>2
<1> HIDE DEF size
<1>4. n \div size \in Nat
  BY <1>3, SMT
<1>5. QED
  BY <1>4 DEF size

LEMMA InitType == Init => TypeOK
<1> SUFFICES ASSUME Init PROVE TypeOK
  OBVIOUS
<1>1. BlankRow \in Row
  BY DEF BlankRow, Row
<1>2. \A n \in Prices \cup {0} : [BlankRow EXCEPT !.exists = TRUE, !.amount = n] \in Row
  <2> TAKE n \in Prices \cup {0}
  <2>1. n \in Nat
    BY PayoutAssumption
  <2>2. QED
    BY <1>1, <2>1 DEF Row
<1>3. buyer \in [Applications -> Row]
  <2> DEFINE priced(n) == [BlankRow EXCEPT !.exists = TRUE, !.amount = n]
             rows == {BlankRow} \cup {priced(n) : n \in Prices \cup {0}}
  <2>1. rows \subseteq Row
    BY <1>1, <1>2
  <2>2. buyer \in [Applications -> rows]
    BY DEF Init
  <2> HIDE DEF rows
  <2>3. QED
    BY <2>1, <2>2
<1>4. NoJob \in Job
  BY PayoutAssumption DEF NoJob, Job
<1>5. job \in [Requests -> Job] /\ pc \in [Requests -> States]
  BY <1>4 DEF Init, States
<1>6. balance \in Int /\ credited \in Nat /\ outside \in 0 .. MaxOutside
  <2>1. balance = InitialBalance /\ credited = 0 /\ outside = 0
    BY DEF Init
  <2>2. QED
    BY <2>1, PayoutAssumption
<1>7. \A r \in Requests : pc[r] = "idle"
  BY DEF Init
<1>8. QED
  BY <1>3, <1>5, <1>6, <1>7 DEF Init, TypeOK

\* The reads that start a call.
LEMMA LoadType ==
  ASSUME TypeOK, NEW r \in Requests, NEW c \in Clients, NEW q \in Requisites,
         NEW n \in InputAmounts, Load(r, c, q, n)
  PROVE  TypeOK'
<1> USE DEF TypeOK
<1> DEFINE batch == ActiveOf(c)
           seen == [a \in Applications |-> IF a \in batch THEN buyer[a].amount ELSE 0]
<1>1. batch \in SUBSET Applications /\ batch # {}
  BY ActiveOfType DEF Load
<1>2. seen \in [Applications -> Nat]
  BY DEF Row
<1>3. n \div Cardinality(batch) \in Nat
  BY <1>1, ShareNat, PayoutAssumption
<1>4. 0 \in 0 .. MaxRetries
  BY PayoutAssumption
<1> DEFINE j == [client |-> c, batch |-> batch, amounts |-> seen,
                 requisites |-> q, part |-> n \div Cardinality(batch),
                 connect |-> connected, fresh |-> FALSE, attempts |-> 0,
                 marks |-> {}]
<1>5. j \in Job
  <2> HIDE DEF batch, seen
  <2>1. QED
    BY <1>1, <1>2, <1>3, <1>4 DEF Job
<1>6. job' = [job EXCEPT ![r] = j]
  BY DEF Load
<1>7. j.client = c /\ j.requisites = q
  OBVIOUS
<1> HIDE DEF j
<1>8. job' \in [Requests -> Job]
  BY <1>5, <1>6
<1>9. \A s \in Requests : pc'[s] # "idle" =>
         job'[s].client \in Clients /\ job'[s].requisites \in Requisites
  BY <1>6, <1>7 DEF Load, Goto
<1>10. QED
  BY <1>8, <1>9 DEF Load, Goto, States, dbVars, bankVars

LEMMA SaveType ==
  ASSUME TypeOK, NEW r \in Requests, Save(r)
  PROVE  TypeOK'
<1> USE DEF TypeOK
<1> DEFINE j == job[r]
           unpriced == {a \in j.batch : j.amounts[a] = 0}
           filled == [a \in Applications |-> IF a \in unpriced THEN j.part ELSE j.amounts[a]]
<1>1. /\ j \in Job /\ j.requisites \in Requisites /\ j.part \in Nat
      /\ j.amounts \in [Applications -> Nat]
  BY DEF Save, Job
<1>2. filled \in [Applications -> Nat]
  BY <1>1
<1>3. job' = [job EXCEPT ![r].amounts = filled]
  BY DEF Save
<1>4. buyer' \in [Applications -> Row]
  <2> DEFINE q(a) == IF a \in j.batch THEN j.requisites ELSE buyer[a].requisites
             n(a) == IF a \in unpriced THEN j.part ELSE buyer[a].amount
  <2>1. \A a \in Applications : q(a) \in Requisites \cup {Nobody} /\ n(a) \in Nat
    BY <1>1 DEF Row
  <2>2. \A a \in Applications :
           [buyer[a] EXCEPT !.requisites = q(a), !.amount = n(a)] \in Row
    <3> HIDE DEF q, n
    <3>1. QED
      BY <2>1, RowRequisites
  <2>3. buyer' = [a \in Applications |->
                    [buyer[a] EXCEPT !.requisites = q(a), !.amount = n(a)]]
    BY DEF Save
  <2> HIDE DEF q, n
  <2>4. QED
    BY <2>2, <2>3
<1> HIDE DEF filled
<1>5. job' \in [Requests -> Job]
  BY <1>2, <1>3, JobUpdate
<1>6. \A s \in Requests : /\ job'[s].client = job[s].client
                         /\ job'[s].requisites = job[s].requisites
  BY <1>3 DEF Job
<1>7. QED
  BY <1>1, <1>4, <1>5, <1>6 DEF Save, Goto, States, Finished, bankVars

LEMMA TransactionType ==
  ASSUME TypeOK, NEW r \in Requests,
         \/ DebitBalance(r) \/ RefuseDebit(r) \/ CreatePayout(r)
         \/ CreatePayment(r) \/ SignPayment(r) \/ Commit(r)
  PROVE  TypeOK'
<1> USE DEF TypeOK, States, Holding, Committed, Finished, Goto, dbVars,
           bankVars
<1>1. CASE DebitBalance(r)
  BY <1>1 DEF DebitBalance
<1>2. CASE RefuseDebit(r)
  BY <1>2 DEF RefuseDebit
<1>3. CASE CreatePayout(r)
  <2>1. job' \in [Requests -> Job]
    BY <1>3, JobUpdate DEF CreatePayout
  <2>2. \A s \in Requests : /\ job'[s].client = job[s].client
                           /\ job'[s].requisites = job[s].requisites
    BY <1>3 DEF CreatePayout, Job
  <2>3. QED
    BY <1>3, <2>1, <2>2 DEF CreatePayout
<1>4. CASE CreatePayment(r)
  <2>1. OrderNumber(r) \in Order
    BY <1>4, OrderType DEF CreatePayment
  <2>2. QED
    BY <1>4, <2>1 DEF CreatePayment, Rollback
<1>5. CASE SignPayment(r)
  <2>1. OrderNumber(r) \in Order
    BY <1>5, OrderType DEF SignPayment
  <2>2. QED
    BY <1>5, <2>1 DEF SignPayment, Rollback
<1>6. CASE Commit(r)
  <2>1. OrderNumber(r) \in Order /\ Total(r) \in Nat
    BY <1>6, OrderType, ChargeNat DEF Commit
  <2>2. QED
    BY <1>6, <2>1 DEF Commit
<1>7. QED
  BY <1>1, <1>2, <1>3, <1>4, <1>5, <1>6

LEMMA ReceiptType ==
  ASSUME TypeOK, NEW r \in Requests,
         pc[r] = "confirming" => job[r].attempts < MaxRetries,
         \/ ConfirmFails(r) \/ ConfirmGivesUp(r) \/ ConfirmOperation(r)
         \/ MarkPaid(r)
  PROVE  TypeOK'
<1> USE DEF TypeOK, States, Holding, Committed, Finished, Goto, dbVars,
           bankVars
<1>1. CASE ConfirmFails(r)
  <2>1. job[r].attempts + 1 \in 0 .. MaxRetries
    BY <1>1, PayoutAssumption DEF ConfirmFails, Job
  <2>2. job' = [job EXCEPT ![r].attempts = job[r].attempts + 1]
    BY <1>1 DEF ConfirmFails
  <2>3. job' \in [Requests -> Job]
    BY <2>1, <2>2, JobUpdate
  <2>4. \A s \in Requests : /\ job'[s].client = job[s].client
                           /\ job'[s].requisites = job[s].requisites
    BY <2>2 DEF Job
  <2>5. QED
    BY <1>1, <2>3, <2>4 DEF ConfirmFails
<1>2. CASE ConfirmGivesUp(r)
  BY <1>2 DEF ConfirmGivesUp
<1>3. CASE ConfirmOperation(r)
  <2>1. job' \in [Requests -> Job]
    BY <1>3, ActiveOfType, JobUpdate DEF ConfirmOperation
  <2>2. \A s \in Requests : /\ job'[s].client = job[s].client
                           /\ job'[s].requisites = job[s].requisites
    BY <1>3 DEF ConfirmOperation, Job
  <2>3. QED
    BY <1>3, <2>1, <2>2 DEF ConfirmOperation
<1>4. CASE MarkPaid(r)
  <2>1. buyer' \in [Applications -> Row]
    <3>1. \A a \in Applications :
             [buyer[a] EXCEPT !.is_superbanking_paid = TRUE,
                              !.is_paid_manually = TRUE] \in Row
      BY DEF Row
    <3> HIDE DEF Row
    <3>2. QED
      BY <1>4, <3>1 DEF MarkPaid
  <2>2. /\ UNCHANGED <<connected, balance, payouts, rowLock, job, created, signed,
                       credited, outside>>
        /\ pc[r] = "marking" /\ pc' = [pc EXCEPT ![r] = "settled"]
    BY <1>4 DEF MarkPaid
  <2>3. QED
    BY <2>1, <2>2
<1>5. QED
  BY <1>1, <1>2, <1>3, <1>4

LEMMA RestartType ==
  ASSUME TypeOK, NEW p \in Processes, Restart(p)
  PROVE  TypeOK'
<1>1. pc' = [r \in Requests |-> IF ProcessOf[r] = p THEN AfterRestart(pc[r])
                                                 ELSE pc[r]]
  BY DEF Restart
<1>2. pc \in [Requests -> States]
  BY DEF TypeOK
<1>3. pc' \in [Requests -> States]
  BY <1>1, <1>2 DEF AfterRestart, States, Holding, Committed, Finished
<1>4. \A r \in Requests : pc'[r] # "idle" => pc[r] # "idle"
  BY <1>1 DEF AfterRestart
<1>5. QED
  BY <1>3, <1>4 DEF Restart, TypeOK, dbVars, bankVars

LEMMA OutsideType ==
  ASSUME TypeOK,
         \/ \E a \in Applications :
               \/ NewApplication(a)
               \/ \E price \in Prices : OrderAccepted(a, price)
               \/ LabelsAccepted(a)
               \/ CancelApplication(a)
               \/ \E ticked \in CheckboxValues : CheckboxSynced(a, ticked)
         \/ ToggleAutopayments
         \/ \E n \in Refills : AddRefill(n)
  PROVE  TypeOK'
<1>1. Outside /\ outside' \in 0 .. MaxOutside
  <2>1. Outside
    BY DEF NewApplication, OrderAccepted, LabelsAccepted, CancelApplication,
       CheckboxSynced, ToggleAutopayments, AddRefill
  <2>2. outside \in 0 .. MaxOutside /\ MaxOutside \in Nat
    BY PayoutAssumption DEF TypeOK
  <2>3. QED
    BY <2>1, <2>2 DEF Outside
<1>2. UNCHANGED <<payouts, pc, job, created, signed>>
  BY <1>1 DEF Outside, bankVars
<1>3. CASE ToggleAutopayments
  BY <1>1, <1>2, <1>3 DEF ToggleAutopayments, TypeOK
<1>4. ASSUME NEW n \in Refills, AddRefill(n)
      PROVE  TypeOK'
  <2>1. n \in Nat
    BY PayoutAssumption
  <2>2. QED
    BY <1>1, <1>2, <1>4, <2>1 DEF AddRefill, TypeOK
<1>5. ASSUME NEW a \in Applications, NEW row \in Row, UpdateRow(a, row)
      PROVE  TypeOK'
  BY <1>1, <1>2, <1>5 DEF UpdateRow, TypeOK
<1>6. ASSUME NEW a \in Applications,
             \/ NewApplication(a)
             \/ \E price \in Prices : OrderAccepted(a, price)
             \/ LabelsAccepted(a)
             \/ CancelApplication(a)
             \/ \E ticked \in CheckboxValues : CheckboxSynced(a, ticked)
      PROVE  \E row \in Row : UpdateRow(a, row)
  <2>1. buyer[a] \in Row
    BY DEF TypeOK
  <2>2. Prices \subseteq Nat /\ CheckboxValues \subseteq BOOLEAN
    BY PayoutAssumption
  <2>3. QED
    BY <1>6, <2>1, <2>2, RowUpdate DEF NewApplication, OrderAccepted,
       LabelsAccepted, CancelApplication, CheckboxSynced
<1>7. QED
  BY <1>3, <1>4, <1>5, <1>6

-----------------------------------------------------------------------------
(* The inductive invariant.                                                *)

\* From the moment its charge is computed a request keeps its order number and
\* its charge, whatever happens to the rows it was computed from.
LEMMA OrderFrame ==
  ASSUME TypeOK, [Next]_vars, NEW r \in Requests, pc[r] \notin {"idle", "loaded"}
  PROVE  /\ OrderNumber(r)' = OrderNumber(r)
         /\ Total(r)' = Total(r)
<1>1. /\ job'[r].client = job[r].client
      /\ job'[r].batch = job[r].batch
      /\ job'[r].amounts = job[r].amounts
      /\ job'[r].requisites = job[r].requisites
  <2>1. ASSUME NEW s \in Requests, NEW c \in Clients, NEW q \in Requisites,
               NEW n \in InputAmounts, Load(s, c, q, n)
        PROVE  job'[r] = job[r]
    BY <2>1 DEF Load, TypeOK
  <2>2. ASSUME NEW s \in Requests, Save(s)
        PROVE  job'[r] = job[r]
    BY <2>2 DEF Save, TypeOK
  <2>3. ASSUME NEW s \in Requests, CreatePayout(s)
        PROVE  <1>1!1 /\ <1>1!2 /\ <1>1!3 /\ <1>1!4
    BY <2>3 DEF CreatePayout, TypeOK, Job
  <2>4. ASSUME NEW s \in Requests, ConfirmFails(s) \/ ConfirmOperation(s)
        PROVE  <1>1!1 /\ <1>1!2 /\ <1>1!3 /\ <1>1!4
    <3>1. CASE ConfirmFails(s)
      BY <3>1 DEF ConfirmFails, TypeOK, Job
    <3>2. CASE ConfirmOperation(s)
      BY <3>2 DEF ConfirmOperation, TypeOK, Job
    <3>3. QED
      BY <2>4, <3>1, <3>2
  <2>5. ASSUME NEW s \in Requests,
               \/ DebitBalance(s) \/ RefuseDebit(s) \/ CreatePayment(s)
               \/ SignPayment(s) \/ Commit(s) \/ ConfirmGivesUp(s) \/ MarkPaid(s)
        PROVE  job' = job
    BY <2>5 DEF DebitBalance, RefuseDebit, CreatePayment, SignPayment, Commit,
       ConfirmGivesUp, MarkPaid
  <2>6. ASSUME NEW p \in Processes, Restart(p)
        PROVE  job' = job
    BY <2>6 DEF Restart
  <2>7. ASSUME Outside
        PROVE  job' = job
    BY <2>7 DEF Outside
  <2>8. CASE UNCHANGED vars
    BY <2>8 DEF vars
  <2>9. QED
    BY <2>1, <2>2, <2>3, <2>4, <2>5, <2>6, <2>7, <2>8
       DEF Next, Advance, NewApplication, OrderAccepted, LabelsAccepted,
           CancelApplication, CheckboxSynced, ToggleAutopayments, AddRefill
<1>2. QED
  BY <1>1 DEF OrderNumber, Total, Charge

\* A step that neither opens nor closes a transaction, adds no payout row and
\* tells the bank nothing keeps the last three parts of the invariant.
LEMMA QuietStep ==
  ASSUME IInv, [Next]_vars, UNCHANGED <<rowLock, payouts, signed>>,
         balance' \in Int, balance' >= balance,
         \A s \in Requests :
            \/ pc'[s] = pc[s] /\ job'[s].fresh = job[s].fresh
            \/ pc[s] \in Committed /\ pc'[s] \in Committed
            \/ /\ pc[s] \notin Holding \cup Committed \cup {"inDoubt"}
               /\ pc'[s] \notin Holding \cup Committed \cup {"inDoubt"}
  PROVE  LockInv' /\ RowInv' /\ BankInv'
<1> USE DEF IInv
<1>1. \A s \in Requests : pc[s] \in Holding \cup Committed \cup {"inDoubt"} =>
         OrderNumber(s)' = OrderNumber(s) /\ Total(s)' = Total(s)
  BY OrderFrame DEF Holding, Committed
<1>2. LockInv'
  BY <1>1, ChargeNat DEF LockInv, Holding, Committed, TypeOK
<1>3. RowInv'
  BY <1>1 DEF RowInv, PayoutRowUnique, DebitHasPayoutRow, Holding, Committed, TypeOK
<1>4. BankInv'
  BY <1>1 DEF BankInv, TransferAccounted, Holding, Committed, TypeOK
<1>5. QED
  BY <1>2, <1>3, <1>4

\* The background task goes on only while it has an attempt left.
LEMMA RetriesStep ==
  ASSUME IInv, [Next]_vars
  PROVE  RetriesLeft'
<1> USE DEF IInv, RetriesLeft, Trying, Holding, Goto
<1>1. ASSUME NEW r \in Requests, NEW c \in Clients, NEW q \in Requisites,
             NEW n \in InputAmounts, Load(r, c, q, n)
      PROVE  RetriesLeft'
  <2>1. job'[r].attempts = 0 /\ \A s \in Requests \ {r} : job'[s] = job[s]
    BY <1>1 DEF Load, TypeOK
  <2>2. QED
    BY <1>1, <2>1, PayoutAssumption DEF Load, TypeOK
<1>2. ASSUME NEW r \in Requests, Save(r)
      PROVE  RetriesLeft'
  <2>1. \A s \in Requests : job'[s].attempts = job[s].attempts
    BY <1>2 DEF Save, TypeOK, Job
  <2>2. QED
    BY <1>2, <2>1 DEF Save, TypeOK
<1>3. ASSUME NEW r \in Requests, CreatePayout(r)
      PROVE  RetriesLeft'
  <2>1. \A s \in Requests : job'[s].attempts = job[s].attempts
    BY <1>3 DEF CreatePayout, TypeOK, Job
  <2>2. QED
    BY <1>3, <2>1 DEF CreatePayout, TypeOK
<1>4. ASSUME NEW r \in Requests, ConfirmFails(r)
      PROVE  RetriesLeft'
  <2>1. /\ job'[r].attempts = job[r].attempts + 1
        /\ \A s \in Requests \ {r} : job'[s] = job[s]
    BY <1>4 DEF ConfirmFails, TypeOK, Job
  <2>2. job[r].attempts \in 0 .. MaxRetries /\ job[r].attempts < MaxRetries
    BY <1>4 DEF ConfirmFails, TypeOK, Job
  <2>3. QED
    BY <1>4, <2>1, <2>2, PayoutAssumption DEF ConfirmFails, TypeOK
<1>5. ASSUME NEW r \in Requests, ConfirmOperation(r)
      PROVE  RetriesLeft'
  <2>1. \A s \in Requests : job'[s].attempts = job[s].attempts
    BY <1>5 DEF ConfirmOperation, TypeOK, Job
  <2>2. QED
    BY <1>5, <2>1 DEF ConfirmOperation, TypeOK
<1>6. ASSUME NEW r \in Requests,
             \/ DebitBalance(r) \/ RefuseDebit(r) \/ CreatePayment(r)
             \/ SignPayment(r) \/ Commit(r) \/ ConfirmGivesUp(r) \/ MarkPaid(r)
      PROVE  RetriesLeft'
  BY <1>6 DEF DebitBalance, RefuseDebit, CreatePayment, SignPayment, Commit,
     ConfirmGivesUp, MarkPaid, TypeOK
<1>7. ASSUME NEW p \in Processes, Restart(p)
      PROVE  RetriesLeft'
  BY <1>7 DEF Restart, AfterRestart, TypeOK
<1>8. ASSUME Outside
      PROVE  RetriesLeft'
  BY <1>8 DEF Outside
<1>9. CASE UNCHANGED vars
  BY <1>9 DEF vars
<1>10. QED
  BY <1>1, <1>2, <1>3, <1>4, <1>5, <1>6, <1>7, <1>8, <1>9
     DEF Next, Advance, NewApplication, OrderAccepted, LabelsAccepted,
         CancelApplication, CheckboxSynced, ToggleAutopayments, AddRefill

LEMMA TypeStep ==
  ASSUME IInv, [Next]_vars
  PROVE  TypeOK'
<1> USE DEF IInv
<1>1. ASSUME NEW r \in Requests, Advance(r)
      PROVE  TypeOK'
  <2>1. pc[r] = "confirming" => job[r].attempts < MaxRetries
    BY DEF RetriesLeft, Trying
  <2>2. QED
    BY <1>1, <2>1, SaveType, TransactionType, ReceiptType DEF Advance
<1>2. CASE UNCHANGED vars
  BY <1>2 DEF vars, TypeOK
<1>3. QED
  BY <1>1, <1>2, LoadType, RestartType, OutsideType DEF Next

\* The steps of the transaction that holds the row lock, one by one.
LEMMA DebitBalanceStep ==
  ASSUME IInv, [Next]_vars, NEW r \in Requests, DebitBalance(r)
  PROVE  LockInv' /\ RowInv' /\ BankInv'
<1> USE DEF IInv, Goto
<1>1. \A s \in Requests : pc[s] \notin {"idle", "loaded"} =>
         OrderNumber(s)' = OrderNumber(s) /\ Total(s)' = Total(s)
  BY OrderFrame
<1>2. /\ pc[r] = "saved"
      /\ pc' = [pc EXCEPT ![r] = pc'[r]] /\ pc'[r] \in {"debited"}
      /\ \A s \in Requests \ {r} : job'[s] = job[s]
  BY DEF DebitBalance, TypeOK
<1>3. LockInv'
  <2>1. Nobody \notin Requests
    BY PayoutAssumption
  <2>2. \A s \in Requests : pc'[s] \in Holding <=> rowLock' = s
    BY <1>2, <2>1 DEF LockInv, DebitBalance, Holding, TypeOK
  <2>3. balance' = balance /\ pc[r] \notin {"idle", "loaded"}
    BY <1>2 DEF DebitBalance, dbVars
  <2>4. \A s \in Requests : rowLock' = s => balance >= Total(s)
    BY <1>2, <2>1 DEF LockInv, DebitBalance
  <2>5. \A s \in Requests : rowLock' = s => pc[s] \notin {"idle", "loaded"}
    BY <1>2, <2>1 DEF LockInv, DebitBalance, Holding
  <2>6. QED
    BY <1>1, <2>2, <2>3, <2>4, <2>5 DEF LockInv
<1>4. RowInv'
  BY <1>1, <1>2 DEF RowInv, PayoutRowUnique, DebitHasPayoutRow, LockInv, DebitBalance,
     Holding, Committed, TypeOK, dbVars
<1>5. BankInv'
  BY <1>1, <1>2 DEF BankInv, TransferAccounted, LockInv, DebitBalance, Holding, Committed,
     TypeOK, dbVars, bankVars
<1>6. QED
  BY <1>3, <1>4, <1>5

LEMMA CreatePayoutStep ==
  ASSUME IInv, [Next]_vars, NEW r \in Requests, CreatePayout(r)
  PROVE  LockInv' /\ RowInv' /\ BankInv'
<1> USE DEF IInv, Goto
<1>1. \A s \in Requests : pc[s] \notin {"idle", "loaded"} =>
         OrderNumber(s)' = OrderNumber(s) /\ Total(s)' = Total(s)
  BY OrderFrame
<1>2. /\ pc[r] = "debited"
      /\ pc' = [pc EXCEPT ![r] = pc'[r]] /\ pc'[r] \in {"recorded"}
      /\ \A s \in Requests \ {r} : job'[s] = job[s]
  BY DEF CreatePayout, TypeOK
<1>3. LockInv'
  BY <1>1, <1>2, ChargeNat DEF LockInv, CreatePayout, Holding, Committed, TypeOK, dbVars
<1>4. RowInv'
  BY <1>1, <1>2 DEF RowInv, PayoutRowUnique, DebitHasPayoutRow, LockInv, CreatePayout,
     Holding, Committed, TypeOK, dbVars
<1>5. BankInv'
  BY <1>1, <1>2 DEF BankInv, TransferAccounted, LockInv, CreatePayout, Holding, Committed,
     TypeOK, dbVars, bankVars
<1>6. QED
  BY <1>3, <1>4, <1>5

LEMMA CreatePaymentStep ==
  ASSUME IInv, [Next]_vars, NEW r \in Requests, CreatePayment(r)
  PROVE  LockInv' /\ RowInv' /\ BankInv'
<1> USE DEF IInv, Goto
<1>1. \A s \in Requests : pc[s] \notin {"idle", "loaded"} =>
         OrderNumber(s)' = OrderNumber(s) /\ Total(s)' = Total(s)
  BY OrderFrame
<1>2. /\ pc[r] = "recorded"
      /\ pc' = [pc EXCEPT ![r] = pc'[r]] /\ pc'[r] \in {"created", "aborted"}
      /\ \A s \in Requests \ {r} : job'[s] = job[s]
  BY DEF CreatePayment, TypeOK
<1>3. LockInv'
  <2>1. Nobody \notin Requests
    BY PayoutAssumption
  <2>2. \A s \in Requests : pc'[s] \in Holding <=> rowLock' = s
    BY <1>2, <2>1 DEF LockInv, CreatePayment, Rollback, Holding, TypeOK
  <2>3. balance' = balance /\ pc[r] \notin {"idle", "loaded"}
    BY <1>2 DEF CreatePayment, dbVars
  <2>4. \A s \in Requests : rowLock' = s => balance >= Total(s)
    BY <1>2, <2>1 DEF LockInv, CreatePayment, Rollback
  <2>5. \A s \in Requests : rowLock' = s => pc[s] \notin {"idle", "loaded"}
    BY <1>2, <2>1 DEF LockInv, CreatePayment, Rollback, Holding
  <2>6. QED
    BY <1>1, <2>2, <2>3, <2>4, <2>5 DEF LockInv
<1>4. RowInv'
  BY <1>1, <1>2 DEF RowInv, PayoutRowUnique, DebitHasPayoutRow, LockInv, CreatePayment,
     Holding, Committed, TypeOK, dbVars
<1>5. BankInv'
  BY <1>1, <1>2 DEF BankInv, TransferAccounted, LockInv, CreatePayment, Holding, Committed,
     TypeOK, dbVars, bankVars
<1>6. QED
  BY <1>3, <1>4, <1>5

LEMMA SignPaymentStep ==
  ASSUME IInv, [Next]_vars, NEW r \in Requests, SignPayment(r)
  PROVE  LockInv' /\ RowInv' /\ BankInv'
<1> USE DEF IInv, Goto
<1>1. \A s \in Requests : pc[s] \notin {"idle", "loaded"} =>
         OrderNumber(s)' = OrderNumber(s) /\ Total(s)' = Total(s)
  BY OrderFrame
<1>2. /\ pc[r] = "created"
      /\ pc' = [pc EXCEPT ![r] = pc'[r]] /\ pc'[r] \in {"signed", "inDoubt"}
      /\ \A s \in Requests \ {r} : job'[s] = job[s]
  BY DEF SignPayment, TypeOK
<1>3. LockInv'
  <2>1. Nobody \notin Requests
    BY PayoutAssumption
  <2>2. \A s \in Requests : pc'[s] \in Holding <=> rowLock' = s
    BY <1>2, <2>1 DEF LockInv, SignPayment, Rollback, Holding, TypeOK
  <2>3. balance' = balance /\ pc[r] \notin {"idle", "loaded"}
    BY <1>2 DEF SignPayment, dbVars
  <2>4. \A s \in Requests : rowLock' = s => balance >= Total(s)
    BY <1>2, <2>1 DEF LockInv, SignPayment, Rollback
  <2>5. \A s \in Requests : rowLock' = s => pc[s] \notin {"idle", "loaded"}
    BY <1>2, <2>1 DEF LockInv, SignPayment, Rollback, Holding
  <2>6. QED
    BY <1>1, <2>2, <2>3, <2>4, <2>5 DEF LockInv
<1>4. RowInv'
  BY <1>1, <1>2 DEF RowInv, PayoutRowUnique, DebitHasPayoutRow, LockInv, SignPayment,
     Holding, Committed, TypeOK, dbVars
<1>5. BankInv'
  BY <1>1, <1>2 DEF BankInv, TransferAccounted, LockInv, SignPayment, Holding, Committed,
     TypeOK, dbVars, bankVars
<1>6. QED
  BY <1>3, <1>4, <1>5

LEMMA CommitStep ==
  ASSUME IInv, [Next]_vars, NEW r \in Requests, Commit(r)
  PROVE  LockInv' /\ RowInv' /\ BankInv'
<1> USE DEF IInv, Goto
<1>1. \A s \in Requests : pc[s] \notin {"idle", "loaded"} =>
         OrderNumber(s)' = OrderNumber(s) /\ Total(s)' = Total(s)
  BY OrderFrame
<1>2. /\ pc[r] = "signed"
      /\ pc' = [pc EXCEPT ![r] = pc'[r]] /\ pc'[r] \in {"confirming"}
      /\ \A s \in Requests \ {r} : job'[s] = job[s]
  BY DEF Commit, TypeOK
<1>3. LockInv'
  <2>1. rowLock = r /\ rowLock' = Nobody /\ Nobody \notin Requests
    BY <1>2, PayoutAssumption DEF LockInv, Commit, Holding
  <2>2. \A s \in Requests : pc'[s] \in Holding <=> rowLock' = s
    BY <1>2, <2>1 DEF LockInv, Commit, Holding, TypeOK
  <2>3. Total(r) \in Nat /\ balance >= Total(r) /\ balance \in Int
    BY <1>2, <2>1, ChargeNat, PayoutAssumption DEF LockInv, Total, TypeOK
  <2>4. balance' = balance - Total(r)
    BY DEF Commit
  <2>5. balance' >= 0
    BY <2>3, <2>4
  <2>6. QED
    BY <2>1, <2>2, <2>5 DEF LockInv
<1>4. RowInv'
  <2> DEFINE new == [order |-> OrderNumber(r), by |-> r]
  <2>1. OrderNumber(r)' = OrderNumber(r) /\ new.order = OrderNumber(r) /\ new.by = r
    BY <1>1, <1>2
  <2>2. \A s \in Requests \ {r} : pc[s] \notin Holding /\ pc'[s] = pc[s]
    BY <1>2 DEF LockInv, Holding, TypeOK
  <2>3. payouts' = IF job[r].fresh THEN payouts \cup {new} ELSE payouts
    BY DEF Commit
  <2>4. job[r].fresh <=> \A p \in payouts : p.order # OrderNumber(r)
    BY <1>2 DEF RowInv
  <2> HIDE DEF new
  <2>5. PayoutRowUnique'
    BY <2>1, <2>3, <2>4 DEF RowInv, PayoutRowUnique
  <2>6. \A p \in payouts' : p.by \in Requests
    BY <2>1, <2>3 DEF TypeOK
  <2>7. pc'[r] = "confirming" /\ \E p \in payouts' : p.order = OrderNumber(r)
    BY <1>2, <2>1, <2>3, <2>4
  <2>8. DebitHasPayoutRow'
    BY <1>1, <2>1, <2>2, <2>3, <2>6, <2>7, <1>2
       DEF RowInv, DebitHasPayoutRow, Committed, TypeOK
  <2>9. QED
    BY <2>2, <2>5, <2>7, <2>8, <1>2 DEF RowInv, Holding, TypeOK
<1>5. BankInv'
  BY <1>1, <1>2 DEF BankInv, TransferAccounted, LockInv, Commit, Holding, Committed,
     TypeOK, dbVars, bankVars
<1>6. QED
  BY <1>3, <1>4, <1>5

\* A restart rolls back the transaction its process may have open.
LEMMA RestartStep ==
  ASSUME IInv, [Next]_vars, NEW p \in Processes, Restart(p)
  PROVE  LockInv' /\ RowInv' /\ BankInv'
<1> USE DEF IInv
<1>1. \A s \in Requests : pc[s] \notin {"idle", "loaded"} =>
         OrderNumber(s)' = OrderNumber(s) /\ Total(s)' = Total(s)
  BY OrderFrame
<1>2. \A s \in Requests :
         \/ pc'[s] = pc[s] /\ ProcessOf[s] # p
         \/ pc'[s] = pc[s] /\ pc[s] \in Finished \cup {"idle"}
         \/ pc[s] \in {"loaded", "saved", "debited", "recorded", "created"}
            /\ pc'[s] = "aborted" /\ ProcessOf[s] = p
         \/ pc[s] = "signed" /\ pc'[s] = "inDoubt" /\ ProcessOf[s] = p
         \/ pc[s] \in {"confirming", "marking"} /\ pc'[s] = "unconfirmed"
  BY DEF Restart, AfterRestart, TypeOK, States, Holding, Committed, Finished
<1>3. LockInv'
  <2>1. Nobody \notin Requests
    BY PayoutAssumption
  <2>2. rowLock' = IF rowLock # Nobody /\ ProcessOf[rowLock] = p
                     THEN Nobody ELSE rowLock
    BY DEF Restart
  <2>3. \A s \in Requests : pc'[s] \in Holding <=> rowLock' = s
    BY <1>2, <2>1, <2>2 DEF LockInv, Holding, Finished, TypeOK
  <2>4. balance' = balance
    BY DEF Restart, dbVars
  <2>5. \A s \in Requests : rowLock' = s =>
           balance >= Total(s) /\ pc[s] \notin {"idle", "loaded"}
    BY <2>1, <2>2 DEF LockInv, Holding
  <2>6. QED
    BY <1>1, <2>3, <2>4, <2>5 DEF LockInv
<1>4. RowInv'
  <2>1. UNCHANGED <<payouts, job>>
    BY DEF Restart, dbVars
  <2>2. QED
    BY <1>1, <1>2, <2>1
       DEF RowInv, PayoutRowUnique, DebitHasPayoutRow, Committed, Finished, TypeOK
<1>5. BankInv'
  <2>1. UNCHANGED signed
    BY DEF Restart, bankVars
  <2>2. QED
    BY <1>1, <1>2, <2>1
       DEF BankInv, TransferAccounted, Committed, Finished, TypeOK
<1>6. QED
  BY <1>3, <1>4, <1>5

\* Every other step is quiet.
LEMMA QuietSteps ==
  ASSUME IInv, [Next]_vars,
         \/ \E r \in Requests, c \in Clients, q \in Requisites, n \in InputAmounts :
               Load(r, c, q, n)
         \/ \E r \in Requests :
               \/ Save(r) \/ RefuseDebit(r) \/ ConfirmFails(r)
               \/ ConfirmGivesUp(r) \/ ConfirmOperation(r) \/ MarkPaid(r)
         \/ \E a \in Applications :
               \/ NewApplication(a)
               \/ \E price \in Prices : OrderAccepted(a, price)
               \/ LabelsAccepted(a)
               \/ CancelApplication(a)
               \/ \E ticked \in CheckboxValues : CheckboxSynced(a, ticked)
         \/ ToggleAutopayments
         \/ \E n \in Refills : AddRefill(n)
         \/ UNCHANGED vars
  PROVE  LockInv' /\ RowInv' /\ BankInv'
<1> DEFINE Quiet ==
       /\ UNCHANGED <<rowLock, payouts, signed>>
       /\ balance' \in Int /\ balance' >= balance
       /\ \A s \in Requests :
            \/ pc'[s] = pc[s] /\ job'[s].fresh = job[s].fresh
            \/ pc[s] \in Committed /\ pc'[s] \in Committed
            \/ /\ pc[s] \notin Holding \cup Committed \cup {"inDoubt"}
               /\ pc'[s] \notin Holding \cup Committed \cup {"inDoubt"}
<1> SUFFICES Quiet
  BY QuietStep
<1> USE DEF IInv, TypeOK
<1>1. ASSUME NEW r \in Requests, NEW c \in Clients, NEW q \in Requisites,
             NEW n \in InputAmounts, Load(r, c, q, n)
      PROVE  Quiet
  <2>1. UNCHANGED <<rowLock, payouts, signed, balance>>
    BY <1>1 DEF Load, dbVars, bankVars
  <2>2. /\ pc[r] = "idle" /\ pc' = [pc EXCEPT ![r] = "loaded"]
        /\ \A s \in Requests \ {r} : job'[s] = job[s]
    BY <1>1 DEF Load, Goto
  <2>3. QED
    BY <2>1, <2>2 DEF Holding, Committed
<1>2. ASSUME NEW r \in Requests, Save(r)
      PROVE  Quiet
  <2>1. UNCHANGED <<rowLock, payouts, signed, balance>>
    BY <1>2 DEF Save, bankVars
  <2>2. /\ pc[r] = "loaded"
        /\ \E state \in {"saved", "skipped"} : pc' = [pc EXCEPT ![r] = state]
    BY <1>2 DEF Save, Goto
  <2>3. \A s \in Requests \ {r} : job'[s] = job[s]
    BY <1>2 DEF Save
  <2>4. QED
    BY <2>1, <2>2, <2>3 DEF Holding, Committed
<1>3. ASSUME NEW r \in Requests, RefuseDebit(r)
      PROVE  Quiet
  BY <1>3 DEF RefuseDebit, Goto, Holding, Committed, dbVars, bankVars
<1>4. ASSUME NEW r \in Requests,
             ConfirmFails(r) \/ ConfirmGivesUp(r) \/ ConfirmOperation(r)
      PROVE  Quiet
  BY <1>4 DEF ConfirmFails, ConfirmGivesUp, ConfirmOperation, Goto, Holding,
     Committed, dbVars, bankVars
<1>5. ASSUME NEW r \in Requests, MarkPaid(r)
      PROVE  Quiet
  <2>1. UNCHANGED <<rowLock, payouts, signed, balance, job>>
    BY <1>5 DEF MarkPaid, bankVars
  <2>2. pc[r] = "marking" /\ pc' = [pc EXCEPT ![r] = "settled"]
    BY <1>5 DEF MarkPaid, Goto
  <2>3. QED
    BY <2>1, <2>2 DEF Committed
<1>6. ASSUME Outside, UNCHANGED <<balance, rowLock>>
      PROVE  Quiet
  BY <1>6 DEF Outside, bankVars
<1>7. ASSUME NEW n \in Refills, AddRefill(n)
      PROVE  Quiet
  BY <1>7, PayoutAssumption DEF AddRefill, Outside, bankVars
<1>8. CASE UNCHANGED vars
  BY <1>8 DEF vars
<1>9. QED
  BY <1>1, <1>2, <1>3, <1>4, <1>5, <1>6, <1>7, <1>8
     DEF NewApplication, OrderAccepted, LabelsAccepted, CancelApplication,
         CheckboxSynced, ToggleAutopayments, UpdateRow

\* The invariant holds at the start ...
LEMMA InitInv == Init => IInv
<1> SUFFICES ASSUME Init PROVE IInv
  OBVIOUS
<1>1. TypeOK
  BY InitType
<1>2. \A r \in Requests : pc[r] = "idle" /\ job[r] = NoJob
  BY DEF Init
<1>3. RetriesLeft
  BY <1>2 DEF RetriesLeft, Trying, Holding
<1>4. LockInv
  <2>1. Nobody \notin Requests /\ InitialBalance \in Nat
    BY PayoutAssumption
  <2>2. rowLock = Nobody /\ balance = InitialBalance
    BY DEF Init
  <2>3. QED
    BY <1>2, <2>1, <2>2 DEF LockInv, Holding
<1>5. RowInv
  BY <1>2 DEF RowInv, PayoutRowUnique, DebitHasPayoutRow, Init, Committed
<1>6. BankInv
  BY <1>2 DEF BankInv, TransferAccounted, Init, Committed
<1>7. QED
  BY <1>1, <1>3, <1>4, <1>5, <1>6 DEF IInv

\* ... and after every step.
LEMMA InvStep == IInv /\ [Next]_vars => IInv'
<1> SUFFICES ASSUME IInv, [Next]_vars PROVE IInv'
  OBVIOUS
<1>1. LockInv' /\ RowInv' /\ BankInv'
  BY QuietSteps, DebitBalanceStep, CreatePayoutStep, CreatePaymentStep,
     SignPaymentStep, CommitStep, RestartStep DEF Next, Advance
<1>2. QED
  BY <1>1, TypeStep, RetriesStep DEF IInv

\* The inductive invariant of a payout: types, the attempts left to the
\* background task, the row lock, the payout rows and the bank's transfers.
THEOREM Invariant == Spec => []IInv
<1>1. QED
  BY InitInv, InvStep, PTL DEF Spec

\* Every variable keeps its type; in particular the background task of
\* send_receipt_after_confirm makes at most MaxRetries attempts.
THEOREM TypeCorrect == Spec => []TypeOK
<1>1. IInv => TypeOK
  BY DEF IInv
<1>2. QED
  BY <1>1, Invariant, PTL

\* try_debit_balance never lets the seller's balance go below zero.
THEOREM NeverOverdrawn == Spec => []NoOverdraft
<1>1. IInv => NoOverdraft
  BY DEF IInv, LockInv, NoOverdraft, TypeOK
<1>2. QED
  BY <1>1, Invariant, PTL

\* create_payout's look before it inserts never lets two rows of table
\* superbanking have one order number.
THEOREM RowsUnique == Spec => []PayoutRowUnique
<1>1. IInv => PayoutRowUnique
  BY DEF IInv, RowInv
<1>2. QED
  BY <1>1, Invariant, PTL

\* A committed debit has its payout row, and a row its committed debit.
THEOREM DebitsRecorded == Spec => []DebitHasPayoutRow
<1>1. IInv => DebitHasPayoutRow
  BY DEF IInv, RowInv
<1>2. QED
  BY <1>1, Invariant, PTL

\* The seller is charged only for transfers that Superbanking has made.
THEOREM ChargedOnlyForTransfers == Spec => []DebitImpliesTransfer
<1>1. IInv => DebitImpliesTransfer
  BY DEF IInv, BankInv, DebitImpliesTransfer
<1>2. QED
  BY <1>1, Invariant, PTL

\* A transfer without a committed debit is about to get one, or belongs to a
\* request that never learned how its sign call ended.
THEOREM TransfersAccounted == Spec => []TransferAccounted
<1>1. IInv => TransferAccounted
  BY DEF IInv, BankInv
<1>2. QED
  BY <1>1, Invariant, PTL

-----------------------------------------------------------------------------
(* Payout implements CashbackLedger.                                       *)

\* No step but the commit and a refill shows in the ledger.
LEMMA LedgerFrame ==
  ASSUME TypeOK, [Next]_vars
  PROVE  \/ \E r \in Requests : Commit(r)
         \/ \E n \in Refills : AddRefill(n)
         \/ /\ balance' = balance /\ credited' = credited
            /\ \A s \in Requests : pc'[s] \in Committed <=> pc[s] \in Committed
<1> DEFINE Frame ==
       /\ balance' = balance /\ credited' = credited
       /\ \A s \in Requests : pc'[s] \in Committed <=> pc[s] \in Committed
<1> USE DEF TypeOK
<1>1. ASSUME NEW r \in Requests, NEW c \in Clients, NEW q \in Requisites,
             NEW n \in InputAmounts, Load(r, c, q, n)
      PROVE  Frame
  <2>1. balance' = balance /\ credited' = credited /\ pc[r] = "idle" /\ pc' = [pc EXCEPT ![r] = "loaded"]
    BY <1>1 DEF Load, Goto, dbVars
  <2>2. QED
    BY <2>1 DEF Committed
<1>2. ASSUME NEW r \in Requests, Save(r)
      PROVE  Frame
  <2>1. /\ balance' = balance /\ credited' = credited /\ pc[r] = "loaded"
        /\ \E state \in {"saved", "skipped"} : pc' = [pc EXCEPT ![r] = state]
    BY <1>2 DEF Save, Goto
  <2>2. QED
    BY <2>1 DEF Committed
<1>3. ASSUME NEW r \in Requests,
             DebitBalance(r) \/ RefuseDebit(r) \/ CreatePayout(r)
      PROVE  Frame
  BY <1>3 DEF DebitBalance, RefuseDebit, CreatePayout, Goto, Committed, dbVars
<1>4. ASSUME NEW r \in Requests, CreatePayment(r) \/ SignPayment(r)
      PROVE  Frame
  BY <1>4 DEF CreatePayment, SignPayment, Goto, Committed, dbVars
<1>5. ASSUME NEW r \in Requests,
             ConfirmFails(r) \/ ConfirmGivesUp(r) \/ ConfirmOperation(r)
      PROVE  Frame
  BY <1>5 DEF ConfirmFails, ConfirmGivesUp, ConfirmOperation, Goto, Committed, dbVars
<1>6. ASSUME NEW r \in Requests, MarkPaid(r)
      PROVE  Frame
  <2>1. balance' = balance /\ credited' = credited /\ pc[r] = "marking" /\ pc' = [pc EXCEPT ![r] = "settled"]
    BY <1>6 DEF MarkPaid, Goto
  <2>2. QED
    BY <2>1 DEF Committed
<1>7. ASSUME NEW p \in Processes, Restart(p)
      PROVE  Frame
  <2>1. balance' = balance /\ credited' = credited
    BY <1>7 DEF Restart, dbVars
  <2>2. QED
    BY <1>7, <2>1 DEF Restart, AfterRestart, Committed
<1>8. ASSUME Outside, balance' = balance, credited' = credited
      PROVE  Frame
  BY <1>8 DEF Outside
<1>9. CASE UNCHANGED vars
  BY <1>9 DEF vars
<1>10. QED
  BY <1>1, <1>2, <1>3, <1>4, <1>5, <1>6, <1>7, <1>8, <1>9
     DEF Next, Advance, NewApplication, OrderAccepted, LabelsAccepted,
         CancelApplication, CheckboxSynced, ToggleAutopayments, UpdateRow

\* What a request's debit shows as in the ledger.
LEMMA LedgerStep ==
  ASSUME IInv, [Next]_vars
  PROVE  [Ledger!LedgerNext]_(Ledger!ledgerVars)
<1> DEFINE debits == [r \in Requests |-> IF pc[r] \in Committed THEN Total(r) ELSE 0]
<1> USE DEF IInv
<1>1. \A s \in Requests : pc[s] \in Holding \cup Committed => Total(s)' = Total(s)
  BY OrderFrame DEF Holding, Committed
<1>2. ASSUME NEW r \in Requests, Commit(r)
      PROVE  Ledger!Debit(r)
  <2>1. pc[r] = "signed" /\ pc' = [pc EXCEPT ![r] = "confirming"]
    BY <1>2 DEF Commit, Goto
  <2>2. balance' = balance - Total(r)
    BY <1>2 DEF Commit
  <2>3. Total(r) \in Nat \ {0} /\ balance \in Int /\ balance >= Total(r)
    BY <2>1, ChargeNat DEF LockInv, Holding, TypeOK
  <2>4. balance' \in 0 .. balance - 1 /\ balance - balance' = Total(r)
    BY <2>2, <2>3
  <2>5. debits[r] = 0
    BY <2>1 DEF Committed
  <2>6. debits' = [debits EXCEPT ![r] = Total(r)]
    BY <1>1, <2>1 DEF Committed, Holding, TypeOK
  <2>7. QED
    BY <2>4, <2>5, <2>6 DEF Ledger!Debit
<1>3. ASSUME NEW n \in Refills, AddRefill(n)
      PROVE  Ledger!Credit
  <2>1. balance' > balance
    BY <1>3, PayoutAssumption DEF AddRefill, TypeOK
  <2>2. pc' = pc
    BY <1>3 DEF AddRefill, Outside
  <2>3. debits' = debits
    BY <1>1, <2>2
  <2>4. QED
    BY <2>1, <2>3 DEF Ledger!Credit
<1>4. ASSUME balance' = balance,
             \A s \in Requests : pc'[s] \in Committed <=> pc[s] \in Committed
      PROVE  UNCHANGED Ledger!ledgerVars
  <2>1. debits' = debits
    BY <1>1, <1>4
  <2>2. QED
    BY <1>4, <2>1 DEF Ledger!ledgerVars
<1>5. QED
  BY <1>2, <1>3, <1>4, LedgerFrame DEF Ledger!LedgerNext

\* Seen from the seller's balance a payout is one step of CashbackLedger: the
\* debit of try_debit_balance appears at the commit of execute, once for a
\* request, and the balance always covers it.
THEOREM ImplementsLedger == Spec => LedgerSpec
<1>1. Init => Ledger!LedgerInit
  BY DEF Init, Ledger!LedgerInit, Committed
<1>2. QED
  BY <1>1, LedgerStep, Invariant, PTL DEF Spec, LedgerSpec, Ledger!LedgerSpec

-----------------------------------------------------------------------------
(* Conservation of the balance.                                            *)

\* The committed charges can be counted.
LEMMA SpentFinite ==
  ASSUME TypeOK, NEW S \in SUBSET Requests
  PROVE  IsFiniteSet(UNION {{r} \X (1 .. Total(r)) : r \in S})
<1> DEFINE share(r) == {r} \X (1 .. Total(r))
           f == [r \in S |-> share(r)]
           shares == {share(r) : r \in S}
<1>1. IsFiniteSet(S)
  BY PayoutAssumption, FS_Subset
<1>2. f \in Surjection(S, shares)
  BY DEF Surjection
<1>3. IsFiniteSet(shares)
  BY <1>1, <1>2, FS_Surjection
<1>4. ASSUME NEW r \in S
      PROVE  IsFiniteSet(share(r))
  <2> DEFINE n == Total(r)
  <2>1. n \in Int
    BY ChargeNat
  <2> HIDE DEF n
  <2>2. IsFiniteSet(1 .. n)
    BY <2>1, FS_Interval
  <2>3. IsFiniteSet({r})
    BY FS_Singleton
  <2>4. QED
    BY <2>2, <2>3, FS_Product DEF n
<1>5. \A T \in shares : IsFiniteSet(T)
  BY <1>4
<1>6. IsFiniteSet(UNION shares)
  <2> HIDE DEF shares
  <2>1. QED
    BY <1>3, <1>5, FS_UNION
<1>7. QED
  BY <1>6

\* A charge added to others is added to their sum.
LEMMA SpentAdds ==
  ASSUME TypeOK, NEW S \in SUBSET Requests, NEW r \in Requests \ S
  PROVE  Cardinality(UNION {{s} \X (1 .. Total(s)) : s \in S \cup {r}}) =
         Cardinality(UNION {{s} \X (1 .. Total(s)) : s \in S}) + Total(r)
<1> DEFINE sum == UNION {{s} \X (1 .. Total(s)) : s \in S}
           mine == {r} \X (1 .. Total(r))
           n == Total(r)
<1>1. UNION {{s} \X (1 .. Total(s)) : s \in S \cup {r}} = sum \cup mine
  OBVIOUS
<1>2. sum \cap mine = {}
  OBVIOUS
<1>3. IsFiniteSet(sum)
  BY SpentFinite
<1>4. n \in Nat
  BY ChargeNat
<1> HIDE DEF n
<1>5. IsFiniteSet(1 .. n) /\ Cardinality(1 .. n) = n
  BY <1>4, FS_Interval
<1>6. IsFiniteSet({r}) /\ Cardinality({r}) = 1
  BY FS_Singleton
<1>7. IsFiniteSet(mine) /\ Cardinality(mine) = n
  <2>1. IsFiniteSet({r} \X (1 .. n))
    BY <1>5, <1>6, FS_Product
  <2>2. Cardinality({r} \X (1 .. n)) = Cardinality({r}) * Cardinality(1 .. n)
    BY <1>5, <1>6, FS_Product, Zenon
  <2>3. QED
    BY <2>1, <2>2, <1>4, <1>5, <1>6 DEF n
<1> HIDE DEF sum, mine
<1>8. Cardinality(sum \cap mine) = 0
  BY <1>2, FS_EmptySet
<1>9. Cardinality(sum) \in Nat
  BY <1>3, FS_CardinalityType
<1>10. Cardinality(sum \cup mine) = Cardinality(sum) + n
  BY <1>3, <1>4, <1>7, <1>8, <1>9, FS_Union
<1>11. QED
  BY <1>1, <1>10 DEF sum, n

LEMMA ConservedStep ==
  ASSUME IInv, [Next]_vars, BalanceConserved
  PROVE  BalanceConserved'
<1> DEFINE charged == {r \in Requests : pc[r] \in Committed}
           sum(S) == Cardinality(UNION {{r} \X (1 .. Total(r)) : r \in S})
<1> USE DEF IInv
<1>1. Spent = sum(charged) /\ Spent' = sum(charged)'
  BY DEF Spent
<1>2. \A s \in Requests : pc[s] \in Holding \cup Committed => Total(s)' = Total(s)
  BY OrderFrame DEF Holding, Committed
<1>3. sum(charged) \in Nat
  BY SpentFinite, FS_CardinalityType
<1>4. ASSUME NEW r \in Requests, Commit(r)
      PROVE  BalanceConserved'
  <2>1. pc[r] = "signed" /\ pc' = [pc EXCEPT ![r] = "confirming"]
    BY <1>4 DEF Commit, Goto
  <2>2. balance' = balance - Total(r) /\ credited' = credited
    BY <1>4 DEF Commit
  <2>3. charged' = charged \cup {r} /\ r \in Requests \ charged
    BY <2>1 DEF Committed, TypeOK
  <2>4. \A s \in charged \cup {r} : Total(s)' = Total(s)
    BY <1>2, <2>1 DEF Holding
  <2>5. sum(charged)' = sum(charged \cup {r})
    BY <2>3, <2>4
  <2>6. sum(charged \cup {r}) = sum(charged) + Total(r)
    BY <2>3, SpentAdds
  <2>7. Total(r) \in Nat
    BY ChargeNat
  <2>8. Spent' = Spent + Total(r)
    BY <1>1, <2>5, <2>6
  <2>9. Spent \in Nat /\ balance \in Int
    BY <1>1, <1>3 DEF TypeOK
  <2>10. balance' + Spent' = balance + Spent
    BY <2>2, <2>7, <2>8, <2>9
  <2>11. QED
    BY <2>2, <2>10 DEF BalanceConserved
<1>5. ASSUME UNCHANGED charged
      PROVE  Spent' = Spent
  <2>1. \A s \in charged : Total(s)' = Total(s)
    BY <1>2
  <2>2. QED
    BY <1>1, <1>5, <2>1
<1>6. ASSUME NEW n \in Refills, AddRefill(n)
      PROVE  BalanceConserved'
  <2>1. Spent' = Spent
    BY <1>5, <1>6 DEF AddRefill, Outside
  <2>2. n \in Nat /\ balance \in Int /\ credited \in Nat /\ Spent \in Nat
        /\ InitialBalance \in Nat
    BY <1>1, <1>3, PayoutAssumption DEF TypeOK
  <2>3. balance' = balance + n /\ credited' = credited + n
    BY <1>6 DEF AddRefill
  <2>4. QED
    BY <2>1, <2>2, <2>3 DEF BalanceConserved
<1>7. ASSUME balance' = balance, credited' = credited,
             \A s \in Requests : pc'[s] \in Committed <=> pc[s] \in Committed
      PROVE  BalanceConserved'
  BY <1>5, <1>7 DEF BalanceConserved
<1>8. QED
  BY <1>4, <1>6, <1>7, LedgerFrame

\* No rouble of the balance is lost or made up: refills, commits, rollbacks
\* and restarts account for every change of it.
THEOREM Conserved == Spec => []BalanceConserved
<1>1. Init => BalanceConserved
  <2>1. ASSUME Init
        PROVE  {r \in Requests : pc[r] \in Committed} = {}
    BY <2>1 DEF Init, Committed
  <2>2. ASSUME Init
        PROVE  Spent = 0
    <3>1. UNION {{r} \X (1 .. Total(r)) :
                    r \in {r \in Requests : pc[r] \in Committed}} = {}
      BY <2>1, <2>2
    <3>2. QED
      BY <3>1, FS_EmptySet DEF Spent
  <2>3. QED
    BY <2>2, PayoutAssumption DEF Init, BalanceConserved
<1>2. IInv /\ [Next]_vars /\ BalanceConserved => BalanceConserved'
  BY ConservedStep
<1>3. QED
  BY <1>1, <1>2, Invariant, PTL DEF Spec

-----------------------------------------------------------------------------
(* What a receipt closes.                                                  *)

\* An application that was started and is not active any more.
Closed(a) == buyer[a].exists /\ ~Active(a)

\* A row is never deleted nor its mark taken back, closed ones stay closed while
\* the seller takes no tick back, and only a receipt marks.
LEMMA RowStep ==
  ASSUME TypeOK, [Next]_vars, NEW a \in Applications
  PROVE  /\ buyer[a].exists => buyer'[a].exists
         /\ FALSE \notin CheckboxValues /\ Closed(a) => Closed(a)'
         /\ \/ buyer'[a].is_superbanking_paid = buyer[a].is_superbanking_paid
            \/ \E r \in Requests : MarkPaid(r) /\ a \in job[r].marks
<1> DEFINE Same(row) == /\ row.exists = buyer[a].exists
                        /\ row.is_canceled = buyer[a].is_canceled
                        /\ row.is_superbanking_paid = buyer[a].is_superbanking_paid
                        /\ row.is_paid_manually = buyer[a].is_paid_manually
           Goal == /\ buyer[a].exists => buyer'[a].exists
                   /\ FALSE \notin CheckboxValues /\ Closed(a) => Closed(a)'
                   /\ \/ buyer'[a].is_superbanking_paid = buyer[a].is_superbanking_paid
                      \/ \E r \in Requests : MarkPaid(r) /\ a \in job[r].marks
<1> SUFFICES Goal
  OBVIOUS
<1>0. buyer \in [Applications -> Row] /\ buyer[a] \in Row
  BY DEF TypeOK
<1>1. ASSUME Same(buyer'[a]) PROVE Goal
  BY <1>1 DEF Closed, Active
<1>2. ASSUME buyer' = buyer PROVE Goal
  BY <1>1, <1>2
<1>3. ASSUME NEW r \in Requests, Save(r) PROVE Goal
  <2> DEFINE q == IF a \in job[r].batch THEN job[r].requisites ELSE buyer[a].requisites
             n == IF a \in {b \in job[r].batch : job[r].amounts[b] = 0} THEN job[r].part ELSE buyer[a].amount
  <2>1. buyer'[a] = [buyer[a] EXCEPT !.requisites = q, !.amount = n]
    BY <1>3 DEF Save
  <2> HIDE DEF q, n
  <2>2. Same([buyer[a] EXCEPT !.requisites = q, !.amount = n])
    BY <1>0 DEF Row
  <2> QED BY <1>1, <2>1, <2>2
<1>4. ASSUME NEW r \in Requests, MarkPaid(r) PROVE Goal
  <2>1. CASE a \in job[r].marks
    <3>1. buyer'[a] = [buyer[a] EXCEPT !.is_superbanking_paid = TRUE, !.is_paid_manually = TRUE]
      BY <1>4, <2>1 DEF MarkPaid
    <3>2. buyer'[a].exists = buyer[a].exists /\ buyer'[a].is_superbanking_paid = TRUE
      BY <1>0, <3>1 DEF Row
    <3> QED BY <1>4, <2>1, <3>2 DEF Closed, Active
  <2>2. CASE a \notin job[r].marks
    <3>1. buyer'[a] = buyer[a]
      BY <1>4, <2>2 DEF MarkPaid
    <3> QED BY <1>1, <3>1
  <2> QED BY <2>1, <2>2
<1>5. ASSUME NEW b \in Applications, NEW row, UpdateRow(b, row), b # a \/ Same(row) PROVE Goal
  <2>1. buyer' = [buyer EXCEPT ![b] = row]
    BY <1>5 DEF UpdateRow
  <2>2. buyer'[a] = IF b = a THEN row ELSE buyer[a]
    BY <1>0, <2>1
  <2> QED BY <1>1, <1>5, <2>2
<1>6. ASSUME NEW b \in Applications, NewApplication(b) PROVE Goal
  <2>1. CASE b # a
    BY <1>5, <1>6, <2>1 DEF NewApplication
  <2>2. CASE b = a
    <3>1. buyer'[a] = [buyer[a] EXCEPT !.exists = TRUE] /\ ~buyer[a].exists
      BY <1>0, <1>6, <2>2 DEF NewApplication, UpdateRow
    <3>2. buyer'[a].is_superbanking_paid = buyer[a].is_superbanking_paid
      BY <1>0, <3>1 DEF Row
    <3> QED BY <3>1, <3>2 DEF Closed
  <2> QED BY <2>1, <2>2
<1>7. ASSUME NEW b \in Applications, NEW price \in Prices, OrderAccepted(b, price) PROVE Goal
  <2>1. b # a \/ Same([buyer[b] EXCEPT !.amount = price])
    BY <1>0 DEF Row
  <2> QED BY <1>5, <1>7, <2>1 DEF OrderAccepted
<1>8. ASSUME NEW b \in Applications, LabelsAccepted(b) PROVE Goal
  <2>1. b # a \/ Same([buyer[b] EXCEPT !.is_cut_labels = TRUE])
    BY <1>0 DEF Row
  <2> QED BY <1>5, <1>8, <2>1 DEF LabelsAccepted
<1>9. ASSUME NEW b \in Applications, CancelApplication(b) PROVE Goal
  <2>1. CASE b # a
    BY <1>5, <1>9, <2>1 DEF CancelApplication
  <2>2. CASE b = a
    <3>1. buyer'[a] = [buyer[a] EXCEPT !.is_canceled = TRUE]
      BY <1>0, <1>9, <2>2 DEF CancelApplication, UpdateRow
    <3>2. /\ buyer'[a].is_canceled = TRUE /\ buyer'[a].exists = buyer[a].exists
          /\ buyer'[a].is_superbanking_paid = buyer[a].is_superbanking_paid
      BY <1>0, <3>1 DEF Row
    <3> QED BY <3>2 DEF Closed, Active
  <2> QED BY <2>1, <2>2
<1>10. ASSUME NEW b \in Applications, NEW ticked \in CheckboxValues, CheckboxSynced(b, ticked) PROVE Goal
  <2>1. CASE b # a
    BY <1>5, <1>10, <2>1 DEF CheckboxSynced
  <2>2. CASE b = a
    <3>1. buyer'[a] = [buyer[a] EXCEPT !.is_paid_manually = ticked]
      BY <1>0, <1>10, <2>2 DEF CheckboxSynced, UpdateRow
    <3>2. /\ buyer'[a].is_paid_manually = ticked /\ buyer'[a].exists = buyer[a].exists
          /\ buyer'[a].is_superbanking_paid = buyer[a].is_superbanking_paid
      BY <1>0, <3>1 DEF Row
    <3>3. FALSE \notin CheckboxValues => ticked = TRUE
      BY PayoutAssumption
    <3> QED BY <3>2, <3>3 DEF Closed, Active
  <2> QED BY <2>1, <2>2
<1>11. ASSUME NEW r \in Requests, Advance(r) PROVE Goal
  BY <1>2, <1>3, <1>4, <1>11 DEF Advance, DebitBalance, RefuseDebit, CreatePayout, CreatePayment,
     SignPayment, Commit, ConfirmFails, ConfirmGivesUp, ConfirmOperation, dbVars
<1> HIDE DEF Goal
<1>12. ASSUME NEW r \in Requests, NEW c \in Clients, NEW q \in Requisites, NEW n \in InputAmounts,
              Load(r, c, q, n)
       PROVE  Goal
  BY <1>2, <1>12 DEF Load, dbVars
<1>13. ASSUME \/ \E p \in Processes : Restart(p)
              \/ ToggleAutopayments
              \/ \E n \in Refills : AddRefill(n)
              \/ UNCHANGED vars
       PROVE  Goal
  BY <1>2, <1>13 DEF Restart, ToggleAutopayments, AddRefill, vars, dbVars
<1>14. ASSUME NEW b \in Applications,
              \/ NewApplication(b)
              \/ \E price \in Prices : OrderAccepted(b, price)
              \/ LabelsAccepted(b)
              \/ CancelApplication(b)
              \/ \E ticked \in CheckboxValues : CheckboxSynced(b, ticked)
       PROVE  Goal
  BY <1>6, <1>7, <1>8, <1>9, <1>10, <1>14, Zenon
<1>15. CASE Next
  BY <1>11, <1>12, <1>13, <1>14, <1>15 DEF Next
<1>16. CASE UNCHANGED vars
  BY <1>13, <1>16
<1>17. QED
  BY <1>15, <1>16

\* A request keeps its client and its batch; how it comes to mark, and to settle.
LEMMA RequestStep ==
  ASSUME TypeOK, [Next]_vars, NEW r \in Requests
  PROVE  /\ \/ pc'[r] = "idle"
            \/ pc[r] # "idle" /\ job'[r].client = job[r].client /\ job'[r].batch = job[r].batch
            \/ pc'[r] = "loaded" /\ job'[r].batch = ActiveOf(job'[r].client)
         /\ \/ pc'[r] # "marking"
            \/ pc[r] = "marking" /\ job'[r].marks = job[r].marks
            \/ ConfirmOperation(r)
         /\ pc'[r] = "settled" => pc[r] = "settled" \/ MarkPaid(r)
         /\ pc[r] = "settled" => pc'[r] = "settled"
<1> DEFINE Kept == /\ \/ pc'[r] = "idle"
                      \/ pc[r] # "idle" /\ job'[r].client = job[r].client /\ job'[r].batch = job[r].batch
                      \/ pc'[r] = "loaded" /\ job'[r].batch = ActiveOf(job'[r].client)
                   /\ \/ pc'[r] # "marking"
                      \/ pc[r] = "marking" /\ job'[r].marks = job[r].marks
                      \/ ConfirmOperation(r)
                   /\ pc'[r] = "settled" => pc[r] = "settled" \/ MarkPaid(r)
                   /\ pc[r] = "settled" => pc'[r] = "settled"
<1> SUFFICES Kept
  OBVIOUS
<1>0. pc \in [Requests -> States] /\ job \in [Requests -> Job]
  BY DEF TypeOK
<1>1. ASSUME pc'[r] = pc[r], job'[r] = job[r] PROVE Kept
  BY <1>1
<1>2. ASSUME NEW s \in Requests, NEW c \in Clients, NEW q \in Requisites,
             NEW n \in InputAmounts, Load(s, c, q, n)
      PROVE  Kept
  <2>1. CASE s # r
    BY <1>0, <1>1, <1>2, <2>1 DEF Load, Goto
  <2>2. CASE s = r
    <3>1. pc[r] = "idle" /\ pc'[r] = "loaded"
      BY <1>0, <1>2, <2>2 DEF Load, Goto
    <3>2. job'[r].client = c /\ job'[r].batch = ActiveOf(c)
      BY <1>0, <1>2, <2>2 DEF Load
    <3> QED BY <3>1, <3>2
  <2> QED BY <2>1, <2>2
<1>3. ASSUME NEW s \in Requests, Save(s) PROVE Kept
  <2>1. CASE s # r
    BY <1>0, <1>1, <1>3, <2>1 DEF Save, Goto
  <2>2. CASE s = r
    <3>1. pc[r] = "loaded" /\ pc'[r] \in {"saved", "skipped"}
      BY <1>0, <1>3, <2>2 DEF Save, Goto
    <3>2. job'[r].client = job[r].client /\ job'[r].batch = job[r].batch
      BY <1>0, <1>3, <2>2 DEF Save, Job
    <3> QED BY <3>1, <3>2
  <2> QED BY <2>1, <2>2
<1>4. ASSUME NEW s \in Requests, NEW state \in States \ {"idle", "marking", "settled"},
             pc[s] \notin {"idle", "settled"}, pc' = [pc EXCEPT ![s] = state],
             /\ job'[r].client = job[r].client
             /\ job'[r].batch = job[r].batch
             /\ job'[r].marks = job[r].marks
      PROVE  Kept
  <2>1. pc'[r] = IF r = s THEN state ELSE pc[r]
    BY <1>0, <1>4
  <2>2. CASE pc[r] = "idle"
    BY <1>4, <2>1, <2>2
  <2>3. CASE pc[r] # "idle"
    BY <1>4, <2>1, <2>3
  <2> QED BY <2>2, <2>3
<1>5. ASSUME NEW s \in Requests, CreatePayout(s) \/ ConfirmFails(s) PROVE Kept
  <2>1. /\ job'[r].client = job[r].client
        /\ job'[r].batch = job[r].batch
        /\ job'[r].marks = job[r].marks
    <3>1. CASE CreatePayout(s)
      BY <1>0, <3>1 DEF CreatePayout, Job
    <3>2. CASE ConfirmFails(s)
      BY <1>0, <3>2 DEF ConfirmFails, Job
    <3> QED BY <1>5, <3>1, <3>2
  <2>2. pc[s] \notin {"idle", "settled"} /\ \E state \in States \ {"idle", "marking", "settled"} :
           pc' = [pc EXCEPT ![s] = state]
    BY <1>5 DEF CreatePayout, ConfirmFails, Goto, States, Holding, Committed, Finished
  <2> QED BY <1>4, <2>1, <2>2
<1>6. ASSUME NEW s \in Requests,
             \/ DebitBalance(s) \/ RefuseDebit(s) \/ CreatePayment(s)
             \/ SignPayment(s) \/ Commit(s) \/ ConfirmGivesUp(s)
      PROVE  Kept
  <2>1. job' = job
    BY <1>6 DEF DebitBalance, RefuseDebit, CreatePayment, SignPayment, Commit, ConfirmGivesUp
  <2>2. pc[s] \notin {"idle", "settled"} /\ \E state \in States \ {"idle", "marking", "settled"} :
           pc' = [pc EXCEPT ![s] = state]
    BY <1>6 DEF DebitBalance, RefuseDebit, CreatePayment, SignPayment, Commit, ConfirmGivesUp,
       Goto, States, Holding, Committed, Finished
  <2> QED BY <1>4, <2>1, <2>2
<1>7. ASSUME NEW s \in Requests, ConfirmOperation(s) PROVE Kept
  <2>1. CASE s # r
    BY <1>0, <1>1, <1>7, <2>1 DEF ConfirmOperation, Goto
  <2>2. CASE s = r
    <3>1. pc[r] = "confirming" /\ pc'[r] = "marking"
      BY <1>0, <1>7, <2>2 DEF ConfirmOperation, Goto
    <3>2. job'[r].client = job[r].client /\ job'[r].batch = job[r].batch
      BY <1>0, <1>7, <2>2 DEF ConfirmOperation, Job
    <3> QED BY <1>7, <2>2, <3>1, <3>2
  <2> QED BY <2>1, <2>2
<1>8. ASSUME NEW s \in Requests, MarkPaid(s) PROVE Kept
  <2>1. job' = job /\ pc[s] = "marking" /\ pc' = [pc EXCEPT ![s] = "settled"]
    BY <1>8 DEF MarkPaid, Goto
  <2>2. CASE s # r
    BY <1>0, <1>1, <2>1, <2>2
  <2>3. CASE s = r
    BY <1>0, <1>8, <2>1, <2>3
  <2> QED BY <2>2, <2>3
<1>9. ASSUME NEW p \in Processes, Restart(p) PROVE Kept
  <2>1. job' = job /\ pc'[r] \in {pc[r], AfterRestart(pc[r])}
    BY <1>9 DEF Restart
  <2>2. AfterRestart(pc[r]) = pc[r] \/ (pc[r] # "idle" /\ pc[r] # "settled"
           /\ AfterRestart(pc[r]) \in {"aborted", "inDoubt", "unconfirmed"})
    BY DEF AfterRestart
  <2> QED BY <1>1, <2>1, <2>2
<1>10. ASSUME Outside \/ UNCHANGED vars PROVE Kept
  BY <1>1, <1>10 DEF Outside, vars
<1> HIDE DEF Kept
<1>11. ASSUME NEW s \in Requests, Advance(s) PROVE Kept
  BY <1>3, <1>5, <1>6, <1>7, <1>8, <1>11 DEF Advance
<1>12. ASSUME NEW b \in Applications,
              \/ NewApplication(b)
              \/ \E price \in Prices : OrderAccepted(b, price)
              \/ LabelsAccepted(b)
              \/ CancelApplication(b)
              \/ \E ticked \in CheckboxValues : CheckboxSynced(b, ticked)
       PROVE  Kept
  BY <1>10, <1>12 DEF NewApplication, OrderAccepted, LabelsAccepted, CancelApplication, CheckboxSynced
<1>13. ASSUME ToggleAutopayments \/ \E n \in Refills : AddRefill(n) PROVE Kept
  BY <1>10, <1>13 DEF ToggleAutopayments, AddRefill
<1>14. CASE Next
  BY <1>2, <1>9, <1>11, <1>12, <1>13, <1>14 DEF Next
<1>15. CASE UNCHANGED vars
  BY <1>10, <1>15
<1>16. QED
  BY <1>14, <1>15

\* Whose applications a request works on, and what it is about to mark.
MarksInv ==
  \A r \in Requests :
    /\ pc[r] # "idle" => \A a \in job[r].batch : ClientOf[a] = job[r].client /\ buyer[a].exists
    /\ pc[r] = "marking" => \A a \in job[r].marks : ClientOf[a] = job[r].client

\* The applications of the batch that a receipt no longer finds active stay so.
BatchInv ==
  \A r \in Requests :
    /\ pc[r] = "marking" => \A a \in job[r].batch \ job[r].marks : Closed(a)
    /\ pc[r] = "settled" => \A a \in job[r].batch : Closed(a)

LEMMA MarksStep ==
  ASSUME IInv, [Next]_vars, MarksInv
  PROVE  MarksInv'
<1>0. TypeOK /\ TypeOK'
  BY TypeStep DEF IInv
<1> SUFFICES ASSUME NEW r \in Requests
             PROVE  /\ pc'[r] # "idle" => \A a \in job'[r].batch :
                          ClientOf[a] = job'[r].client /\ buyer'[a].exists
                    /\ pc'[r] = "marking" => \A a \in job'[r].marks : ClientOf[a] = job'[r].client
  BY DEF MarksInv
<1>1. \A a \in job'[r].batch : a \in Applications
  BY <1>0 DEF TypeOK, Job
<1>2. ASSUME pc'[r] # "idle", NEW a \in job'[r].batch
      PROVE  ClientOf[a] = job'[r].client /\ buyer'[a].exists
  <2>1. CASE pc[r] # "idle" /\ job'[r].client = job[r].client /\ job'[r].batch = job[r].batch
    BY <1>0, <1>1, <1>2, <2>1, RowStep DEF MarksInv
  <2>2. CASE job'[r].batch = ActiveOf(job'[r].client)
    BY <1>0, <1>1, <1>2, <2>2, RowStep DEF ActiveOf, Active
  <2> QED BY <1>0, <1>2, <2>1, <2>2, RequestStep
<1>3. ASSUME pc'[r] = "marking", NEW a \in job'[r].marks
      PROVE  ClientOf[a] = job'[r].client
  <2>1. job'[r].client = job[r].client
    BY <1>0, <1>3, RequestStep
  <2>2. CASE pc[r] = "marking" /\ job'[r].marks = job[r].marks
    BY <1>3, <2>1, <2>2 DEF MarksInv
  <2>3. CASE ConfirmOperation(r)
    <3>1. job'[r].marks = ActiveOf(job[r].client)
      BY <1>0, <2>3 DEF ConfirmOperation, TypeOK, Job
    <3> QED BY <1>3, <2>1, <3>1 DEF ActiveOf
  <2> QED BY <1>0, <1>3, <2>2, <2>3, RequestStep
<1> QED BY <1>2, <1>3

LEMMA BatchStep ==
  ASSUME FALSE \notin CheckboxValues, IInv, [Next]_vars, MarksInv, BatchInv
  PROVE  BatchInv'
<1>0. TypeOK
  BY DEF IInv
<1>1. \A a \in Applications : Closed(a) => Closed(a)'
  BY <1>0, RowStep
<1> SUFFICES ASSUME NEW r \in Requests
             PROVE  /\ pc'[r] = "marking" => \A a \in job'[r].batch \ job'[r].marks : Closed(a)'
                    /\ pc'[r] = "settled" => \A a \in job'[r].batch : Closed(a)'
  BY DEF BatchInv
<1>2. job[r].batch \subseteq Applications
  BY <1>0 DEF TypeOK, Job
<1>3. pc'[r] \in {"marking", "settled"} => pc[r] # "idle" /\ job'[r].batch = job[r].batch
  BY <1>0, RequestStep
<1>4. ASSUME pc'[r] = "marking", NEW a \in job'[r].batch \ job'[r].marks
      PROVE  Closed(a)'
  <2>1. CASE pc[r] = "marking" /\ job'[r].marks = job[r].marks
    BY <1>1, <1>2, <1>3, <1>4, <2>1 DEF BatchInv
  <2>2. CASE ConfirmOperation(r)
    <3>1. job'[r].marks = ActiveOf(job[r].client)
      BY <1>0, <2>2 DEF ConfirmOperation, TypeOK, Job
    <3>2. Closed(a) /\ a \in Applications
      BY <1>2, <1>3, <1>4, <3>1 DEF MarksInv, Closed, ActiveOf
    <3> QED BY <1>1, <3>2
  <2> QED BY <1>0, <1>4, <2>1, <2>2, RequestStep
<1>5. ASSUME pc'[r] = "settled", NEW a \in job'[r].batch
      PROVE  Closed(a)'
  <2>0. a \in job[r].batch /\ a \in Applications /\ pc[r] # "idle"
    BY <1>2, <1>3, <1>5
  <2>1. CASE pc[r] = "settled"
    BY <1>1, <2>0, <2>1 DEF BatchInv
  <2>2. CASE MarkPaid(r) /\ a \notin job[r].marks
    BY <1>1, <2>0, <2>2 DEF BatchInv, MarkPaid
  <2>3. CASE MarkPaid(r) /\ a \in job[r].marks
    <3>1. buyer'[a] = [buyer[a] EXCEPT !.is_superbanking_paid = TRUE, !.is_paid_manually = TRUE]
      BY <2>0, <2>3 DEF MarkPaid
    <3>2. buyer[a] \in Row /\ buyer[a].exists
      BY <1>0, <2>0 DEF TypeOK, MarksInv
    <3>3. buyer'[a].exists /\ buyer'[a].is_superbanking_paid = TRUE
      BY <3>1, <3>2 DEF Row
    <3> QED BY <3>3 DEF Closed, Active
  <2> QED BY <1>0, <1>5, <2>1, <2>2, <2>3, RequestStep
<1> QED BY <1>4, <1>5

\* An application is marked as paid by Superbanking only if its own client was
\* paid: a receipt never closes the applications of another client.
MarkedOnlyForPaidClient ==
  \A a \in Applications : buyer[a].is_superbanking_paid =>
      \E r \in Requests : /\ pc[r] = "settled"
                         /\ job[r].client = ClientOf[a]
                         /\ OrderNumber(r) \in signed

LEMMA PaidStep ==
  ASSUME IInv, [Next]_vars, MarksInv, MarkedOnlyForPaidClient
  PROVE  MarkedOnlyForPaidClient'
<1>0. TypeOK
  BY DEF IInv
<1> SUFFICES ASSUME NEW a \in Applications, buyer'[a].is_superbanking_paid
             PROVE  \E r \in Requests : /\ pc'[r] = "settled"
                                        /\ job'[r].client = ClientOf[a]
                                        /\ OrderNumber(r)' \in signed'
  BY DEF MarkedOnlyForPaidClient
<1>1. IInv'
  BY InvStep
<1>2. \A r \in Requests : pc'[r] = "settled" => OrderNumber(r)' \in signed'
  BY <1>1 DEF IInv, BankInv, Committed
<1>3. CASE buyer[a].is_superbanking_paid
  <2>1. PICK r \in Requests : pc[r] = "settled" /\ job[r].client = ClientOf[a]
    BY <1>3 DEF MarkedOnlyForPaidClient
  <2>2. pc'[r] = "settled" /\ job'[r].client = job[r].client
    BY <1>0, <2>1, RequestStep
  <2> QED BY <1>2, <2>1, <2>2
<1>4. CASE \E r \in Requests : MarkPaid(r) /\ a \in job[r].marks
  <2>1. PICK r \in Requests : MarkPaid(r) /\ a \in job[r].marks
    BY <1>4
  <2>2. pc[r] = "marking" /\ pc'[r] = "settled" /\ job' = job
    BY <1>0, <2>1 DEF MarkPaid, Goto, TypeOK
  <2>3. job[r].client = ClientOf[a]
    BY <2>1, <2>2 DEF MarksInv
  <2> QED BY <1>2, <2>2, <2>3
<1> QED BY <1>0, <1>3, <1>4, RowStep

LEMMA MarksInit == Init => MarksInv /\ BatchInv /\ MarkedOnlyForPaidClient
<1> SUFFICES ASSUME Init PROVE MarksInv /\ BatchInv /\ MarkedOnlyForPaidClient
  OBVIOUS
<1>1. \A r \in Requests : pc[r] = "idle"
  BY DEF Init
<1>2. \A a \in Applications : ~buyer[a].is_superbanking_paid
  <2> TAKE a \in Applications
  <2>1. buyer[a] = BlankRow \/ \E n \in Prices \cup {0} :
           buyer[a] = [BlankRow EXCEPT !.exists = TRUE, !.amount = n]
    BY DEF Init
  <2>2. \A n : [BlankRow EXCEPT !.exists = TRUE, !.amount = n].is_superbanking_paid = FALSE
    BY DEF BlankRow
  <2>3. BlankRow.is_superbanking_paid = FALSE
    BY DEF BlankRow
  <2> HIDE DEF BlankRow
  <2> QED BY <2>1, <2>2, <2>3
<1> QED BY <1>1, <1>2 DEF MarksInv, BatchInv, MarkedOnlyForPaidClient

\* A receipt marks only applications of the client who was paid.
THEOREM MarkedForItsClient == Spec => []MarkedOnlyForPaidClient
<1>1. IInv /\ [Next]_vars /\ MarksInv /\ MarkedOnlyForPaidClient =>
        MarksInv' /\ MarkedOnlyForPaidClient'
  BY MarksStep, PaidStep
<1>2. QED
  BY <1>1, MarksInit, Invariant, PTL DEF Spec

\* Unless the seller takes a tick back, nothing that a settled request paid for is
\* active again.
THEOREM BatchClosed ==
  ASSUME FALSE \notin CheckboxValues
  PROVE  Spec => []SettledClosesBatch
<1>1. IInv /\ [Next]_vars /\ MarksInv /\ BatchInv => MarksInv' /\ BatchInv'
  BY MarksStep, BatchStep
<1>2. BatchInv => SettledClosesBatch
  BY DEF BatchInv, SettledClosesBatch, Closed
<1>3. QED
  BY <1>1, <1>2, MarksInit, Invariant, PTL DEF Spec

\* Unless the seller takes a tick back, what the bank has paid for is active only as
\* long as the receipt is to come, or after it was lost: the transfer belongs to a
\* request, and had that one settled, it would have closed the application.
THEOREM OpenOnlyUnsettled ==
  ASSUME FALSE \notin CheckboxValues
  PROVE  Spec => []OpenUntilReceipt
<1>1. ASSUME IInv, SettledClosesBatch
      PROVE  OpenUntilReceipt
  <2> SUFFICES ASSUME NEW o \in signed, NEW a \in o.batch, Active(a)
               PROVE  \E r \in Requests :
                         /\ pc[r] \in {"signed", "confirming", "marking", "inDoubt", "unconfirmed"}
                         /\ OrderNumber(r) = o
    BY DEF OpenUntilReceipt
  <2>1. PICK r \in Requests : pc[r] \in Committed \cup {"signed", "inDoubt"} /\ OrderNumber(r) = o
    BY <1>1 DEF IInv, BankInv, TransferAccounted
  <2>2. a \in job[r].batch
    BY <2>1 DEF OrderNumber
  <2>3. pc[r] # "settled"
    BY <1>1, <2>2 DEF SettledClosesBatch
  <2> QED BY <2>1, <2>3 DEF Committed
<1>2. QED
  BY <1>1, BatchClosed, Invariant, PTL

\* A press after the receipt never pays again: what a settled request paid for is in
\* no batch that is loaded from then on.  (A press before it may: OneDebitPerOrder.)
LoadsUnpaid ==
  [][\A r, s \in Requests :
        pc[s] = "settled" /\ pc[r] = "idle" /\ pc'[r] # "idle"
        => job'[r].batch \cap job[s].batch = {}]_vars

THEOREM PaidOnceSettled ==
  ASSUME FALSE \notin CheckboxValues
  PROVE  Spec => LoadsUnpaid
<1>1. ASSUME IInv, [Next]_vars, MarksInv, BatchInv,
             NEW r \in Requests, NEW s \in Requests,
             pc[s] = "settled", pc[r] = "idle", pc'[r] # "idle"
      PROVE  job'[r].batch \cap job[s].batch = {}
  <2>1. TypeOK /\ TypeOK' /\ BatchInv'
    BY <1>1, BatchStep, TypeStep DEF IInv
  <2>2. job'[r].batch = ActiveOf(job'[r].client)
    BY <1>1, <2>1, RequestStep
  <2>3. \A a \in job[s].batch : ~Active(a)
    BY <1>1 DEF BatchInv, Closed
  <2>4. QED
    BY <2>2, <2>3 DEF ActiveOf
<1>2. IInv /\ [Next]_vars /\ MarksInv /\ BatchInv =>
        /\ MarksInv' /\ BatchInv'
        /\ [\A r, s \in Requests :
              pc[s] = "settled" /\ pc[r] = "idle" /\ pc'[r] # "idle"
              => job'[r].batch \cap job[s].batch = {}]_vars
  BY <1>1, MarksStep, BatchStep
<1>3. QED
  BY <1>2, MarksInit, Invariant, PTL DEF Spec, LoadsUnpaid

-----------------------------------------------------------------------------
(* MarkedMeansTransferred fails for these two reasons and no other: an     *)
(* application started while a payout is under way, and a tick that the    *)
(* seller takes back.                                                      *)

\* With all applications there from the start, a receipt finds no application
\* active that its request has not paid for, and marks none.
NoNewcomer ==
  /\ \A a \in Applications : buyer[a].exists
  /\ \A r \in Requests :
        /\ pc[r] # "idle" =>
             \A a \in Applications :
               ClientOf[a] = job[r].client /\ Active(a) => a \in job[r].batch
        /\ pc[r] = "marking" => job[r].marks \subseteq job[r].batch
  /\ \A a \in Applications : buyer[a].is_superbanking_paid =>
        \E r \in Requests : pc[r] = "settled" /\ a \in job[r].batch

LEMMA NoNewcomerInit ==
  ASSUME Applications = Existing, Init
  PROVE  NoNewcomer
<1>1. \A a \in Applications : buyer[a].exists
  BY DEF Init
<1>2. \A a \in Applications : ~buyer[a].is_superbanking_paid
  BY MarksInit DEF MarkedOnlyForPaidClient, Init
<1>3. \A r \in Requests : pc[r] = "idle"
  BY DEF Init
<1> QED BY <1>1, <1>2, <1>3 DEF NoNewcomer

LEMMA NoNewcomerStep ==
  ASSUME FALSE \notin CheckboxValues, IInv, [Next]_vars, NoNewcomer
  PROVE  NoNewcomer'
<1>0. TypeOK /\ TypeOK'
  BY TypeStep DEF IInv
<1>1. \A a \in Applications : buyer'[a].exists
  BY <1>0, RowStep DEF NoNewcomer
<1>2. \A a \in Applications : Active(a)' => Active(a)
  <2> SUFFICES ASSUME NEW a \in Applications, Active(a)', ~Active(a)
               PROVE  FALSE
    OBVIOUS
  <2>1. Closed(a)
    BY DEF Closed, NoNewcomer
  <2>2. Closed(a)'
    BY <1>0, <2>1, RowStep
  <2> QED BY <2>2 DEF Closed
<1>4. ASSUME NEW r \in Requests, pc'[r] # "idle", NEW a \in Applications,
             ClientOf[a] = job'[r].client, Active(a)'
      PROVE  a \in job'[r].batch
  <2>1. Active(a)
    BY <1>2, <1>4
  <2>2. CASE pc[r] # "idle" /\ job'[r].client = job[r].client /\ job'[r].batch = job[r].batch
    BY <1>4, <2>1, <2>2 DEF NoNewcomer
  <2>3. CASE job'[r].batch = ActiveOf(job'[r].client)
    BY <1>4, <2>1, <2>3 DEF ActiveOf
  <2> QED BY <1>0, <1>4, <2>2, <2>3, RequestStep
<1>5. ASSUME NEW r \in Requests, pc'[r] = "marking"
      PROVE  job'[r].marks \subseteq job'[r].batch
  <2>1. pc[r] # "idle" /\ job'[r].batch = job[r].batch
    BY <1>0, <1>5, RequestStep
  <2>2. CASE pc[r] = "marking" /\ job'[r].marks = job[r].marks
    BY <2>1, <2>2 DEF NoNewcomer
  <2>3. CASE ConfirmOperation(r)
    <3>1. job'[r].marks = ActiveOf(job[r].client)
      BY <1>0, <2>3 DEF ConfirmOperation, TypeOK, Job
    <3> QED BY <2>1, <3>1 DEF NoNewcomer, ActiveOf
  <2> QED BY <1>0, <1>5, <2>2, <2>3, RequestStep
<1>6. ASSUME NEW a \in Applications, buyer'[a].is_superbanking_paid
      PROVE  \E r \in Requests : pc'[r] = "settled" /\ a \in job'[r].batch
  <2>1. CASE buyer[a].is_superbanking_paid
    <3>1. PICK r \in Requests : pc[r] = "settled" /\ a \in job[r].batch
      BY <2>1 DEF NoNewcomer
    <3>2. pc'[r] = "settled" /\ job'[r].batch = job[r].batch
      BY <1>0, <3>1, RequestStep
    <3> QED BY <3>1, <3>2
  <2>2. CASE \E r \in Requests : MarkPaid(r) /\ a \in job[r].marks
    <3>1. PICK r \in Requests : MarkPaid(r) /\ a \in job[r].marks
      BY <2>2
    <3>2. pc[r] = "marking" /\ pc'[r] = "settled" /\ job' = job
      BY <1>0, <3>1 DEF MarkPaid, Goto, TypeOK
    <3> QED BY <3>1, <3>2 DEF NoNewcomer
  <2> QED BY <1>0, <1>6, <2>1, <2>2, RowStep
<1> QED BY <1>1, <1>4, <1>5, <1>6 DEF NoNewcomer

\* Where nobody starts an application meanwhile and no tick is taken back, what is
\* marked as paid by Superbanking is what a transfer was made for.
THEOREM MarkedWereTransferred ==
  ASSUME Applications = Existing, FALSE \notin CheckboxValues
  PROVE  Spec => []MarkedMeansTransferred
<1>1. IInv /\ [Next]_vars /\ NoNewcomer => NoNewcomer'
  BY NoNewcomerStep
<1>2. Init => NoNewcomer
  BY NoNewcomerInit
<1>3. ASSUME IInv, NoNewcomer
      PROVE  MarkedMeansTransferred
  <2> SUFFICES ASSUME NEW a \in Applications, buyer[a].is_superbanking_paid
               PROVE  \E o \in signed : a \in o.batch
    BY DEF MarkedMeansTransferred
  <2>1. PICK r \in Requests : pc[r] = "settled" /\ a \in job[r].batch
    BY <1>3 DEF NoNewcomer
  <2>2. OrderNumber(r) \in signed
    BY <1>3, <2>1 DEF IInv, BankInv, Committed
  <2>3. OrderNumber(r).batch = job[r].batch
    BY DEF OrderNumber
  <2> QED BY <2>1, <2>2, <2>3
<1> QED BY <1>1, <1>2, <1>3, Invariant, PTL DEF Spec

-----------------------------------------------------------------------------
(* What keeps a call of execute from going on for ever.                    *)

\* An upper bound of the steps that request r can still take.
StepsLeft(r) ==
  CASE pc[r] = "idle" -> MaxRetries + 9
    [] pc[r] = "loaded" -> MaxRetries + 8
    [] pc[r] = "saved" -> MaxRetries + 7
    [] pc[r] = "debited" -> MaxRetries + 6
    [] pc[r] = "recorded" -> MaxRetries + 5
    [] pc[r] = "created" -> MaxRetries + 4
    [] pc[r] = "signed" -> MaxRetries + 3
    [] pc[r] = "confirming" -> (MaxRetries - job[r].attempts) + 2
    [] pc[r] = "marking" -> 1
    [] OTHER -> 0

LEMMA StepsNat ==
  ASSUME TypeOK, NEW r \in Requests
  PROVE  StepsLeft(r) \in Nat /\ StepsLeft(r) <= MaxRetries + 9
<1>1. job[r].attempts \in 0 .. MaxRetries /\ MaxRetries \in Nat
  BY PayoutAssumption DEF TypeOK, Job
<1> QED BY <1>1 DEF StepsLeft

\* Each step of a request's coroutines leaves it fewer, and nothing that anybody
\* else does, a restart included, gives it more.
WorkShrinks ==
  [][\A r \in Requests :
        /\ StepsLeft(r)' <= StepsLeft(r)
        /\ pc[r] # "idle" /\ Advance(r) => StepsLeft(r)' < StepsLeft(r)
        /\ pc[r] = "idle" /\ pc'[r] # "idle" => StepsLeft(r)' < StepsLeft(r)]_vars

LEMMA StepsStep ==
  ASSUME TypeOK, TypeOK', [Next]_vars, NEW r \in Requests
  PROVE  /\ StepsLeft(r)' <= StepsLeft(r)
         /\ pc[r] # "idle" /\ Advance(r) => StepsLeft(r)' < StepsLeft(r)
         /\ pc[r] = "idle" /\ pc'[r] # "idle" => StepsLeft(r)' < StepsLeft(r)
<1> DEFINE Goal == /\ StepsLeft(r)' <= StepsLeft(r)
                   /\ pc[r] # "idle" /\ Advance(r) => StepsLeft(r)' < StepsLeft(r)
                   /\ pc[r] = "idle" /\ pc'[r] # "idle" => StepsLeft(r)' < StepsLeft(r)
<1> SUFFICES Goal
  OBVIOUS
<1>0. pc \in [Requests -> States] /\ job \in [Requests -> Job] /\ job' \in [Requests -> Job]
  BY DEF TypeOK
<1>1. StepsLeft(r) \in Nat /\ StepsLeft(r)' \in Nat
  <2>1. /\ job[r].attempts \in 0 .. MaxRetries /\ job'[r].attempts \in 0 .. MaxRetries
        /\ MaxRetries \in Nat
    BY <1>0, PayoutAssumption DEF Job
  <2> QED BY <2>1 DEF StepsLeft
<1>2. MaxRetries \in Nat /\ job[r].attempts \in Nat /\ job'[r].attempts \in Nat
  BY <1>0, PayoutAssumption DEF Job
<1>3. ASSUME StepsLeft(r)' < StepsLeft(r) PROVE Goal
  BY <1>1, <1>3
<1>4. ASSUME pc'[r] = pc[r], job'[r] = job[r], ~Advance(r) PROVE Goal
  <2>1. StepsLeft(r)' = StepsLeft(r)
    BY <1>4 DEF StepsLeft
  <2> QED BY <1>1, <1>4, <2>1
<1>5. ASSUME Advance(r) PROVE Goal
  <2>1. CASE \/ Save(r) \/ DebitBalance(r) \/ RefuseDebit(r) \/ CreatePayout(r)
             \/ CreatePayment(r) \/ SignPayment(r)
    <3>1. \/ pc[r] = "loaded" /\ pc'[r] \in {"saved", "skipped"}
          \/ pc[r] = "saved" /\ pc'[r] \in {"debited", "refused"}
          \/ pc[r] = "debited" /\ pc'[r] = "recorded"
          \/ pc[r] = "recorded" /\ pc'[r] \in {"created", "aborted"}
          \/ pc[r] = "created" /\ pc'[r] \in {"signed", "inDoubt"}
      BY <1>0, <2>1 DEF Save, DebitBalance, RefuseDebit, CreatePayout, CreatePayment, SignPayment, Goto
    <3> QED BY <1>2, <1>3, <3>1 DEF StepsLeft
  <2>2. CASE Commit(r) \/ ConfirmGivesUp(r) \/ ConfirmOperation(r) \/ MarkPaid(r)
    <3>1. \/ pc[r] = "signed" /\ pc'[r] = "confirming"
          \/ pc[r] = "confirming" /\ pc'[r] \in {"unconfirmed", "marking"}
          \/ pc[r] = "marking" /\ pc'[r] = "settled"
      BY <1>0, <2>2 DEF Commit, ConfirmGivesUp, ConfirmOperation, MarkPaid, Goto
    <3>2. job[r].attempts <= MaxRetries /\ job'[r].attempts <= MaxRetries
      BY <1>0, PayoutAssumption DEF Job
    <3> QED BY <1>2, <1>3, <3>1, <3>2 DEF StepsLeft
  <2>3. CASE ConfirmFails(r)
    <3>1. pc[r] = "confirming" /\ pc'[r] \in {"unconfirmed", "confirming"}
      BY <1>0, <2>3 DEF ConfirmFails, Goto
    <3>2. job'[r].attempts = job[r].attempts + 1
      BY <1>0, <2>3 DEF ConfirmFails, Job
    <3>3. job[r].attempts <= MaxRetries
      BY <1>0, PayoutAssumption DEF Job
    <3> QED BY <1>2, <1>3, <3>1, <3>2, <3>3 DEF StepsLeft
  <2> QED BY <1>5, <2>1, <2>2, <2>3 DEF Advance
<1> HIDE DEF Goal
<1>6. ASSUME pc'[r] = pc[r], job'[r] = job[r] PROVE Goal
  BY <1>4, <1>5, <1>6
<1>7. ASSUME NEW s \in Requests, Advance(s) PROVE Goal
  <2>1. CASE s = r
    BY <1>5, <1>7, <2>1
  <2>2. CASE s # r
    <3>1. pc'[r] = pc[r]
      BY <1>0, <1>7, <2>2 DEF Advance, Save, DebitBalance, RefuseDebit, CreatePayout, CreatePayment,
         SignPayment, Commit, ConfirmFails, ConfirmGivesUp, ConfirmOperation, MarkPaid, Goto
    <3>2. job'[r] = job[r]
      BY <1>0, <1>7, <2>2 DEF Advance, Save, DebitBalance, RefuseDebit, CreatePayout, CreatePayment,
         SignPayment, Commit, ConfirmFails, ConfirmGivesUp, ConfirmOperation, MarkPaid
    <3> QED BY <1>6, <3>1, <3>2
  <2> QED BY <2>1, <2>2
<1>8. ASSUME NEW s \in Requests, NEW c \in Clients, NEW q \in Requisites,
             NEW n \in InputAmounts, Load(s, c, q, n)
      PROVE  Goal
  <2>1. CASE s = r
    <3>1. pc[r] = "idle" /\ pc'[r] = "loaded"
      BY <1>0, <1>8, <2>1 DEF Load, Goto
    <3>2. StepsLeft(r)' < StepsLeft(r)
      BY <1>2, <3>1 DEF StepsLeft
    <3> QED BY <1>3, <3>2 DEF Goal
  <2>2. CASE s # r
    BY <1>0, <1>6, <1>8, <2>2 DEF Load, Goto
  <2> QED BY <2>1, <2>2
<1>9. ASSUME NEW p \in Processes, Restart(p) PROVE Goal
  <2>1. job' = job /\ pc'[r] \in {pc[r], AfterRestart(pc[r])}
    BY <1>9 DEF Restart
  <2>2. CASE pc'[r] = pc[r]
    BY <1>6, <2>1, <2>2
  <2>3. CASE pc'[r] # pc[r]
    <3>1. /\ pc[r] \in {"loaded", "saved", "debited", "recorded", "created", "signed",
                        "confirming", "marking"}
          /\ pc'[r] \in {"aborted", "inDoubt", "unconfirmed"}
      BY <2>1, <2>3 DEF AfterRestart
    <3>2. job[r].attempts <= MaxRetries
      BY <1>0, PayoutAssumption DEF Job
    <3>3. StepsLeft(r)' = 0 /\ StepsLeft(r) > 0
      BY <1>2, <3>1, <3>2 DEF StepsLeft
    <3> QED BY <1>3, <3>3 DEF Goal
  <2> QED BY <2>2, <2>3
<1>10. ASSUME Outside \/ UNCHANGED vars PROVE Goal
  BY <1>6, <1>10 DEF Outside, vars
<1>11. ASSUME NEW b \in Applications,
              \/ NewApplication(b)
              \/ \E price \in Prices : OrderAccepted(b, price)
              \/ LabelsAccepted(b)
              \/ CancelApplication(b)
              \/ \E ticked \in CheckboxValues : CheckboxSynced(b, ticked)
       PROVE  Goal
  BY <1>10, <1>11 DEF NewApplication, OrderAccepted, LabelsAccepted, CancelApplication, CheckboxSynced
<1>12. ASSUME ToggleAutopayments \/ \E n \in Refills : AddRefill(n) PROVE Goal
  BY <1>10, <1>12 DEF ToggleAutopayments, AddRefill
<1>13. Goal
  BY <1>7, <1>8, <1>9, <1>10, <1>11, <1>12 DEF Next
<1> QED BY <1>13 DEF Goal

\* No call of execute works for ever: with its background task it takes at most
\* MaxRetries + 9 steps, so that only a wait for the row lock could hold it up.
THEOREM WorkBounded ==
  Spec => WorkShrinks /\ [](\A r \in Requests : StepsLeft(r) \in 0 .. MaxRetries + 9)
<1>1. ASSUME TypeOK
      PROVE  \A r \in Requests : StepsLeft(r) \in 0 .. MaxRetries + 9
  BY <1>1, StepsNat, PayoutAssumption
<1>2. TypeOK /\ TypeOK' /\ [Next]_vars =>
        [\A r \in Requests :
           /\ StepsLeft(r)' <= StepsLeft(r)
           /\ pc[r] # "idle" /\ Advance(r) => StepsLeft(r)' < StepsLeft(r)
           /\ pc[r] = "idle" /\ pc'[r] # "idle" => StepsLeft(r)' < StepsLeft(r)]_vars
  BY StepsStep
<1>3. QED
  BY <1>1, <1>2, TypeCorrect, PTL DEF Spec, WorkShrinks

-----------------------------------------------------------------------------
(* The cabinet's row, as the seller's payments find it.                    *)

\* The debit that is not committed yet.
Reserved == IF rowLock = Nobody THEN 0 ELSE Total(rowLock)

Cabinet == INSTANCE CabinetRow WITH reserved <- Reserved
CabinetRowSpec == Cabinet!RowSpec

\* Who takes, changes and gives back the row.
LEMMA RowFrame ==
  ASSUME [Next]_vars
  PROVE  \/ \E r \in Requests : DebitBalance(r) \/ Commit(r)
         \/ \E n \in Refills : AddRefill(n)
         \/ balance' = balance /\ rowLock' \in {rowLock, Nobody}
<1> DEFINE Frame == balance' = balance /\ rowLock' \in {rowLock, Nobody}
<1>1. ASSUME NEW r \in Requests, Advance(r), ~DebitBalance(r), ~Commit(r)
      PROVE  Frame
  BY <1>1 DEF Advance, Save, RefuseDebit, CreatePayout, CreatePayment, SignPayment, ConfirmFails,
     ConfirmGivesUp, ConfirmOperation, MarkPaid, Rollback, dbVars
<1>2. ASSUME NEW r \in Requests, NEW c \in Clients, NEW q \in Requisites,
             NEW n \in InputAmounts, Load(r, c, q, n)
      PROVE  Frame
  BY <1>2 DEF Load, dbVars
<1>3. ASSUME NEW p \in Processes, Restart(p) PROVE Frame
  BY <1>3 DEF Restart, dbVars
<1>4. ASSUME NEW a \in Applications,
             \/ NewApplication(a)
             \/ \E price \in Prices : OrderAccepted(a, price)
             \/ LabelsAccepted(a)
             \/ CancelApplication(a)
             \/ \E ticked \in CheckboxValues : CheckboxSynced(a, ticked)
      PROVE  Frame
  BY <1>4 DEF NewApplication, OrderAccepted, LabelsAccepted, CancelApplication, CheckboxSynced,
     UpdateRow
<1>5. CASE ToggleAutopayments \/ UNCHANGED vars
  BY <1>5 DEF ToggleAutopayments, vars, dbVars
<1> QED BY <1>1, <1>2, <1>3, <1>4, <1>5 DEF Next

LEMMA CabinetStep ==
  ASSUME IInv, [Next]_vars
  PROVE  [Cabinet!RowNext]_(Cabinet!rowVars)
<1> DEFINE Goal == Cabinet!RowNext \/ UNCHANGED Cabinet!rowVars
<1> USE DEF Cabinet!RowNext, Cabinet!rowVars
<1>0. TypeOK /\ LockInv /\ Nobody \notin Requests
  BY PayoutAssumption DEF IInv
<1>1. \A r \in Requests : Total(r) \in Nat \ {0} /\ balance \in Int
  BY <1>0, ChargeNat DEF TypeOK
<1>2. \A r \in Requests : rowLock = r => pc[r] \in Holding /\ Total(r)' = Total(r) /\ balance >= Total(r)
  BY <1>0, OrderFrame DEF LockInv, Holding
<1>3. \A r \in Requests : rowLock = r => Reserved = Total(r)
  BY <1>0 DEF Reserved
<1>4. /\ rowLock = Nobody => Reserved = 0
      /\ rowLock' = Nobody => Reserved' = 0
  BY DEF Reserved
<1>5. ASSUME NEW r \in Requests, DebitBalance(r) PROVE Goal
  <2>1. rowLock = Nobody /\ rowLock' = r /\ balance' = balance /\ balance >= Total(r)
    BY <1>5 DEF DebitBalance, dbVars
  <2>2. Total(r)' = Total(r)
    BY <1>0, <1>5, OrderFrame DEF DebitBalance
  <2>3. Reserved = 0
    BY <1>4, <2>1
  <2>4. Reserved' = Total(r)'
    BY <1>0, <2>1 DEF Reserved, Total, Charge
  <2>5. Reserved' = Total(r)
    BY <2>2, <2>4
  <2>6. Reserved' \in 1 .. balance
    BY <1>1, <2>1, <2>5
  <2> QED BY <2>1, <2>3, <2>6 DEF Cabinet!Reserve
<1>6. ASSUME NEW r \in Requests, Commit(r) PROVE Goal
  <2>1. pc[r] = "signed" /\ rowLock' = Nobody /\ balance' = balance - Total(r)
    BY <1>6 DEF Commit
  <2>2. rowLock = r
    BY <1>0, <2>1 DEF LockInv, Holding
  <2>3. Reserved = Total(r) /\ Reserved # 0 /\ Reserved' = 0
    BY <1>1, <1>3, <1>4, <2>1, <2>2
  <2> QED BY <2>1, <2>3 DEF Cabinet!Release
<1>7. ASSUME NEW n \in Refills, AddRefill(n) PROVE Goal
  <2>1. rowLock = Nobody /\ rowLock' = Nobody /\ balance' = balance + n
    BY <1>7 DEF AddRefill
  <2>2. balance' > balance
    BY <1>0, <2>1, PayoutAssumption DEF TypeOK
  <2> QED BY <1>4, <2>1, <2>2 DEF Cabinet!Refill
<1>8. ASSUME balance' = balance, rowLock' \in {rowLock, Nobody} PROVE Goal
  <2>1. CASE rowLock = Nobody
    BY <1>4, <1>8, <2>1
  <2>2. CASE rowLock # Nobody
    <3>1. PICK r \in Requests : rowLock = r
      BY <1>0, <2>2 DEF TypeOK
    <3>2. CASE rowLock' = rowLock
      <4>1. Reserved' = Total(r)'
        BY <1>0, <3>1, <3>2 DEF Reserved, Total, Charge
      <4>2. Total(r)' = Total(r) /\ Reserved = Total(r)
        BY <1>2, <1>3, <3>1
      <4> QED BY <1>8, <4>1, <4>2
    <3>3. CASE rowLock' = Nobody
      <4>1. Reserved # 0 /\ Reserved' = 0
        BY <1>1, <1>3, <1>4, <3>1, <3>3
      <4> QED BY <1>8, <4>1 DEF Cabinet!Release
    <3> QED BY <1>8, <3>2, <3>3
  <2> QED BY <2>1, <2>2
<1> QED BY <1>5, <1>6, <1>7, <1>8, RowFrame

\* With any requests, restarts and refills, the transactions of payouts keep to the
\* contract of the cabinet's row.
THEOREM KeepsCabinetRow == Spec => CabinetRowSpec
<1>1. Init => Cabinet!RowInit
  BY PayoutAssumption DEF Init, Cabinet!RowInit, Reserved
<1> QED BY <1>1, CabinetStep, Invariant, PTL DEF Spec, CabinetRowSpec, Cabinet!RowSpec
=============================================================================
