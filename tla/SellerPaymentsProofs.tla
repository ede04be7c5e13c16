------------------------ MODULE SellerPaymentsProofs ------------------------
(***************************************************************************)
(* Theorems about SellerPayments, for every set of payments and verdicts,  *)
(* every amount and every number of payouts.                               *)
(***************************************************************************)
EXTENDS SellerPayments, FunctionTheorems, FiniteSetTheorems, TLAPS

-----------------------------------------------------------------------------
(* The inductive invariant.                                                *)

LEMMA InitInv == Init => Inv
<1> SUFFICES ASSUME Init PROVE Inv
  OBVIOUS
<1>1. Payout \notin Verdicts /\ Nobody \notin Verdicts /\ Nobody # Payout
  BY SellerPaymentsAssumption
<1>2. TypeOK
  BY DEF Init, TypeOK, Statuses, Stages
<1>3. LockHolders
  BY <1>1 DEF Init, LockHolders, Deciding
<1>4. StatusKnown
  BY DEF Init, StatusKnown, Deciding
<1>5. InitialAboveBalance /\ OneVerdict
  BY DEF Init, InitialAboveBalance, OneVerdict
<1>6. QED
  BY <1>2, <1>3, <1>4, <1>5 DEF Inv

LEMMA TypeStep ==
  ASSUME Inv, [Next]_vars
  PROVE  TypeOK'
<1> USE DEF Inv, TypeOK, sellerVars, cabinet, payoutVars, Goto, Stages,
            Confirming, Canceling, Deciding, Done, Statuses
<1>1. ASSUME NEW p \in Payments, CreatePayment(p) \/ MarkLoad(p) \/ MarkCommit(p)
      PROVE  TypeOK'
  BY <1>1 DEF CreatePayment, MarkLoad, MarkCommit
<1>2. ASSUME NEW p \in Payments, Notify(p)
      PROVE  TypeOK'
  BY <1>2 DEF Notify
<1>3. ASSUME NEW v \in Verdicts, NEW p \in Payments,
             NEW stage \in {"confirm", "cancel"}, Press(v, p, stage)
      PROVE  TypeOK'
  BY <1>3 DEF Press
<1>4. ASSUME NEW v \in Verdicts, Transition(v)
      PROVE  TypeOK'
  BY <1>4 DEF Transition
<1>5. ASSUME NEW v \in Verdicts, Refuse(v) \/ AddBalance(v)
      PROVE  TypeOK'
  BY <1>5 DEF Refuse, AddBalance
<1>6. ASSUME NEW v \in Verdicts, Confirm(v)
      PROVE  TypeOK'
  <2>1. target[v] \in Payments /\ Amount[target[v]] \in Nat
    BY <1>6, SellerPaymentsAssumption DEF Confirm
  <2>2. status' \in [Payments -> Statuses] /\ pc' \in [Verdicts -> Stages]
    BY <1>6 DEF Confirm
  <2>3. balance' \in Nat /\ initial_balance' \in Nat /\ leads_balance' \in Nat
    BY <1>6, <2>1 DEF Confirm
  <2>4. table' \in {"NEW", "VERIFIED", "PAID"}
    BY <1>6 DEF Confirm
  <2>5. paymentLock' \in [Payments -> Verdicts \cup {Nobody}] /\ cabinetLock' = Nobody
    BY <1>6 DEF Confirm
  <2>6. \A w \in Verdicts : pc'[w] # "idle" => target'[w] \in Payments
    BY <1>6 DEF Confirm
  <2>7. QED
    BY <1>6, <2>2, <2>3, <2>4, <2>5, <2>6 DEF Confirm
<1>7. ASSUME NEW v \in Verdicts, Cancel(v)
      PROVE  TypeOK'
  BY <1>7 DEF Cancel
<1>8. CASE Restart
  BY <1>8 DEF Restart
<1>9. CASE VerifyTable
  BY <1>9 DEF VerifyTable
<1>10. ASSUME NEW n \in Charges, PayoutDebits(n)
       PROVE  TypeOK'
  BY <1>10, SellerPaymentsAssumption DEF PayoutDebits
<1>11. ASSUME NEW committed \in BOOLEAN, PayoutEnds(committed)
       PROVE  TypeOK'
  BY <1>11 DEF PayoutEnds, InitialAboveBalance
<1>12. CASE UNCHANGED vars
  BY <1>12 DEF vars
<1>13. QED
  BY <1>1, <1>2, <1>3, <1>4, <1>5, <1>6, <1>7, <1>8, <1>9, <1>10, <1>11, <1>12
  DEF Next, Advance

LEMMA LockStep ==
  ASSUME Inv, [Next]_vars
  PROVE  LockHolders'
<1> USE DEF Inv, LockHolders, Goto, Deciding, payoutVars
<1>1. Payout \notin Verdicts /\ Nobody \notin Verdicts /\ Nobody # Payout
  BY SellerPaymentsAssumption
<1>2. pc \in [Verdicts -> Stages] /\ target \in [Verdicts -> Payments \cup {Nobody}]
      /\ paymentLock \in [Payments -> Verdicts \cup {Nobody}]
      /\ \A v \in Verdicts : pc[v] # "idle" => target[v] \in Payments
  BY DEF TypeOK
<1>3. ASSUME NEW p \in Payments,
             CreatePayment(p) \/ MarkLoad(p) \/ MarkCommit(p) \/ Notify(p)
      PROVE  LockHolders'
  BY <1>3 DEF CreatePayment, MarkLoad, MarkCommit, Notify
<1>4. ASSUME NEW v \in Verdicts, NEW p \in Payments,
             NEW stage \in {"confirm", "cancel"}, Press(v, p, stage)
      PROVE  LockHolders'
  BY <1>1, <1>2, <1>4 DEF Press
<1>5. ASSUME NEW v \in Verdicts, Transition(v)
      PROVE  LockHolders'
  BY <1>1, <1>2, <1>5 DEF Transition
<1>6. ASSUME NEW v \in Verdicts, Refuse(v)
      PROVE  LockHolders'
  BY <1>1, <1>2, <1>6 DEF Refuse
<1>7. ASSUME NEW v \in Verdicts, AddBalance(v)
      PROVE  LockHolders'
  BY <1>1, <1>2, <1>7 DEF AddBalance
<1>8. ASSUME NEW v \in Verdicts, Confirm(v)
      PROVE  LockHolders'
  BY <1>1, <1>2, <1>8 DEF Confirm
<1>9. ASSUME NEW v \in Verdicts, Cancel(v)
      PROVE  LockHolders'
  BY <1>1, <1>2, <1>9 DEF Cancel
<1>10. CASE Restart
  BY <1>1, <1>2, <1>10 DEF Restart, Done
<1>11. CASE VerifyTable
  BY <1>11 DEF VerifyTable
<1>12. ASSUME NEW n \in Charges, PayoutDebits(n)
       PROVE  LockHolders'
  BY <1>1, <1>2, <1>12 DEF PayoutDebits
<1>13. ASSUME NEW committed \in BOOLEAN, PayoutEnds(committed)
       PROVE  LockHolders'
  BY <1>1, <1>2, <1>13 DEF PayoutEnds
<1>14. CASE UNCHANGED vars
  BY <1>14 DEF vars
<1>15. QED
  BY <1>3, <1>4, <1>5, <1>6, <1>7, <1>8, <1>9, <1>10, <1>11, <1>12, <1>13, <1>14
  DEF Next, Advance

LEMMA StatusStep ==
  ASSUME Inv, [Next]_vars
  PROVE  StatusKnown'
<1> USE DEF Inv, StatusKnown, Goto, Deciding
<1>1. Nobody \notin Verdicts
  BY SellerPaymentsAssumption
<1>2. pc \in [Verdicts -> Stages] /\ target \in [Verdicts -> Payments \cup {Nobody}]
      /\ status \in [Payments -> Statuses] /\ asked \subseteq Payments
      /\ \A v \in Verdicts : pc[v] # "idle" => target[v] \in Payments
  BY DEF TypeOK
<1>3. dialog \in [Payments -> {"none", "open", "marking", "notifying", "done"}]
  BY DEF TypeOK
<1>4. \A v \in Verdicts, p \in Payments :
         paymentLock[p] = v <=> pc[v] \in Deciding /\ target[v] = p
  BY DEF LockHolders
<1>5. ASSUME NEW p \in Payments, CreatePayment(p) \/ MarkLoad(p) \/ Notify(p)
      PROVE  StatusKnown'
  <2>1. CASE CreatePayment(p)
    BY <1>2, <1>3, <2>1 DEF CreatePayment
  <2>2. CASE MarkLoad(p)
    BY <1>2, <1>3, <2>2 DEF MarkLoad
  <2>3. CASE Notify(p)
    BY <1>2, <1>3, <2>3 DEF Notify
  <2>4. QED
    BY <1>5, <2>1, <2>2, <2>3
<1>6. ASSUME NEW p \in Payments, MarkCommit(p)
      PROVE  StatusKnown'
  BY <1>2, <1>3, <1>6 DEF MarkCommit
<1>7. ASSUME NEW v \in Verdicts, NEW p \in Payments,
             NEW stage \in {"confirm", "cancel"}, Press(v, p, stage)
      PROVE  StatusKnown'
  BY <1>2, <1>7 DEF Press, sellerVars
<1>8. ASSUME NEW v \in Verdicts, Transition(v)
      PROVE  StatusKnown'
  BY <1>2, <1>8 DEF Transition, sellerVars
<1>9. ASSUME NEW v \in Verdicts, Refuse(v) \/ AddBalance(v)
      PROVE  StatusKnown'
  BY <1>2, <1>9 DEF Refuse, AddBalance, sellerVars
<1>10. ASSUME NEW v \in Verdicts, Confirm(v)
       PROVE  StatusKnown'
  BY <1>1, <1>2, <1>3, <1>4, <1>10 DEF Confirm, sellerVars
<1>11. ASSUME NEW v \in Verdicts, Cancel(v)
       PROVE  StatusKnown'
  BY <1>1, <1>2, <1>3, <1>4, <1>11 DEF Cancel, sellerVars
<1>12. CASE Restart
  BY <1>2, <1>3, <1>12 DEF Restart, Done
<1>13. CASE VerifyTable
  BY <1>13 DEF VerifyTable, sellerVars
<1>14. ASSUME NEW n \in Charges, PayoutDebits(n)
       PROVE  StatusKnown'
  BY <1>14 DEF PayoutDebits, sellerVars
<1>15. ASSUME NEW committed \in BOOLEAN, PayoutEnds(committed)
       PROVE  StatusKnown'
  BY <1>15 DEF PayoutEnds, sellerVars
<1>16. CASE UNCHANGED vars
  BY <1>16 DEF vars, sellerVars
<1>17. QED
  BY <1>5, <1>6, <1>7, <1>8, <1>9, <1>10, <1>11, <1>12, <1>13, <1>14, <1>15, <1>16
  DEF Next, Advance

\* Only a verdict that has locked the payment and the cabinet credits it.
LEMMA BalanceStep ==
  ASSUME Inv, [Next]_vars
  PROVE  InitialAboveBalance'
<1> USE DEF Inv, InitialAboveBalance
<1>1. balance \in Nat /\ initial_balance \in Nat /\ charge \in Nat
  BY DEF TypeOK
<1>2. ASSUME NEW v \in Verdicts, Confirm(v)
      PROVE  InitialAboveBalance'
  <2>1. target[v] \in Payments /\ Amount[target[v]] \in Nat
    BY <1>2, SellerPaymentsAssumption DEF Confirm, TypeOK
  <2>2. charge = 0
    BY <1>2, SellerPaymentsAssumption DEF Confirm, LockHolders
  <2>3. QED
    BY <1>1, <1>2, <2>1, <2>2 DEF Confirm, payoutVars
<1>3. ASSUME NEW n \in Charges, PayoutDebits(n)
      PROVE  InitialAboveBalance'
  BY <1>1, <1>3, SellerPaymentsAssumption DEF PayoutDebits, cabinet
<1>4. ASSUME NEW committed \in BOOLEAN, PayoutEnds(committed)
      PROVE  InitialAboveBalance'
  BY <1>1, <1>4 DEF PayoutEnds
<1>5. ASSUME UNCHANGED <<balance, initial_balance, charge>>
      PROVE  InitialAboveBalance'
  BY <1>5
<1>6. QED
  BY <1>2, <1>3, <1>4, <1>5
  DEF Next, Advance, CreatePayment, MarkLoad, MarkCommit, Notify, Press, Transition,
      Refuse, AddBalance, Cancel, Restart, VerifyTable, cabinet, payoutVars, vars

\* The verdicts that were answered, and the statuses, stay as they are but for
\* one verdict about a payment that was waiting.
LEMMA OneVerdictStep ==
  ASSUME Inv, [Next]_vars
  PROVE  OneVerdict'
<1> DEFINE Answered == {"confirmed", "canceled"}
<1> USE DEF Inv, OneVerdict
<1>1. pc \in [Verdicts -> Stages]
  BY DEF TypeOK
<1>2. ASSUME NEW v \in Verdicts, Confirm(v) \/ Cancel(v)
      PROVE  OneVerdict'
  <2>1. \A w \in Verdicts : w # v => pc'[w] = pc[w]
    BY <1>1, <1>2 DEF Confirm, Cancel, Goto
  <2>2. target' = target
    BY <1>2 DEF Confirm, Cancel
  <2>3. status[target[v]] = "WAITING_CONFIRM"
    BY <1>2 DEF Confirm, Cancel, StatusKnown, Deciding
  <2>4. \A w \in Verdicts : pc[w] \in Answered => target[w] # target[v]
    BY <2>3 DEF StatusKnown
  <2>5. QED
    BY <2>1, <2>2, <2>4
<1>3. ASSUME NEW v \in Verdicts, NEW p \in Payments,
             NEW stage \in {"confirm", "cancel"}, Press(v, p, stage)
      PROVE  OneVerdict'
  BY <1>1, <1>3 DEF Press, Goto, TypeOK
<1>4. ASSUME target' = target,
             \A w \in Verdicts : pc'[w] \in Answered => pc'[w] = pc[w]
      PROVE  OneVerdict'
  BY <1>4
<1>5. ASSUME NEW v \in Verdicts, Transition(v) \/ Refuse(v) \/ AddBalance(v)
      PROVE  OneVerdict'
  BY <1>1, <1>4, <1>5 DEF Transition, Refuse, AddBalance, Goto
<1>6. CASE Restart
  BY <1>1, <1>4, <1>6 DEF Restart
<1>7. CASE UNCHANGED <<pc, target>>
  BY <1>4, <1>7
<1>8. QED
  BY <1>2, <1>3, <1>5, <1>6, <1>7
  DEF Next, Advance, CreatePayment, MarkLoad, MarkCommit, Notify, VerifyTable,
      PayoutDebits, PayoutEnds, vars

LEMMA InvStep == Inv /\ [Next]_vars => Inv'
<1> SUFFICES ASSUME Inv, [Next]_vars PROVE Inv'
  OBVIOUS
<1>1. QED
  BY TypeStep, LockStep, StatusStep, BalanceStep, OneVerdictStep DEF Inv

\* Locks, statuses and answers agree in every reachable state of the payments.
THEOREM Invariant == Spec => []Inv
<1>1. QED
  BY InitInv, InvStep, PTL DEF Spec

\* Every variable keeps its type.
THEOREM TypeCorrect == Spec => []TypeOK
<1>1. Inv => TypeOK
  BY DEF Inv
<1>2. QED
  BY <1>1, Invariant, PTL

\* Of two administrators who decide about one payment, only one is told that
\* the verdict was carried out.
THEOREM OnlyOneVerdict == Spec => []OneVerdict
<1>1. Inv => OneVerdict
  BY DEF Inv
<1>2. QED
  BY <1>1, Invariant, PTL

-----------------------------------------------------------------------------
(* Statuses, the table, and the abstract specification.                    *)

\* The steps that are neither a seller's nor a verdict's last.
Quiet ==
    \/ \E p \in Payments : MarkLoad(p) \/ Notify(p)
    \/ \E v \in Verdicts : \/ Transition(v) \/ Refuse(v) \/ AddBalance(v)
                          \/ \E p \in Payments, stage \in {"confirm", "cancel"} :
                                Press(v, p, stage)
    \/ Restart
    \/ UNCHANGED vars

LEMMA QuietFrame ==
  ASSUME Quiet
  PROVE  UNCHANGED <<status, balance, initial_balance, leads_balance, spent, table>>
BY DEF Quiet, MarkLoad, Notify, Transition, Refuse, AddBalance, Press, Restart,
       cabinet, payoutVars, vars

LEMMA NextCases ==
  ASSUME [Next]_vars
  PROVE  \/ Quiet
         \/ \E p \in Payments : CreatePayment(p) \/ MarkCommit(p)
         \/ \E v \in Verdicts : Confirm(v) \/ Cancel(v)
         \/ VerifyTable
         \/ \E n \in Charges : PayoutDebits(n)
         \/ \E committed \in BOOLEAN : PayoutEnds(committed)
BY DEF Next, Advance, Quiet

LEMMA StatusFinal ==
  ASSUME Inv, [Next]_vars, NEW p \in Payments, status[p] \in {"SUCCEEDED", "CANCELED"}
  PROVE  status'[p] = status[p]
<1> USE DEF Inv
<1>1. status \in [Payments -> Statuses]
  BY DEF TypeOK
<1>2. ASSUME NEW q \in Payments, CreatePayment(q) \/ MarkCommit(q)
      PROVE  status'[p] = status[p]
  <2>1. status[q] \in {"absent", "CREATED"}
    BY <1>2 DEF CreatePayment, MarkCommit, StatusKnown
  <2>2. QED
    BY <1>1, <1>2, <2>1 DEF CreatePayment, MarkCommit
<1>3. ASSUME NEW v \in Verdicts, Confirm(v) \/ Cancel(v)
      PROVE  status'[p] = status[p]
  <2>1. status[target[v]] = "WAITING_CONFIRM"
    BY <1>3 DEF Confirm, Cancel, StatusKnown, Deciding
  <2>2. QED
    BY <1>1, <1>3, <2>1 DEF Confirm, Cancel
<1>4. CASE Quiet
  BY <1>4, QuietFrame
<1>5. CASE \/ VerifyTable
           \/ \E n \in Charges : PayoutDebits(n)
           \/ \E committed \in BOOLEAN : PayoutEnds(committed)
  BY <1>5 DEF VerifyTable, PayoutDebits, PayoutEnds
<1>6. QED
  BY <1>2, <1>3, <1>4, <1>5, NextCases

\* A payment that was decided never changes again.
THEOREM Final == Spec => VerdictIsFinal
<1>1. Inv /\ [Next]_vars =>
        [\A p \in Payments : status[p] \in {"SUCCEEDED", "CANCELED"}
                               => status'[p] = status[p]]_vars
  BY StatusFinal
<1>2. QED
  BY <1>1, Invariant, PTL DEF Spec, VerdictIsFinal

LEMMA PaidTableStep ==
  ASSUME Inv, [Next]_vars, PaidTable
  PROVE  PaidTable'
<1> USE DEF Inv, PaidTable, Succeeded
<1>1. status \in [Payments -> Statuses]
  BY DEF TypeOK
<1>2. ASSUME NEW p \in Payments, CreatePayment(p) \/ MarkCommit(p)
      PROVE  PaidTable'
  <2>1. status[p] # "SUCCEEDED"
    BY <1>2 DEF CreatePayment, MarkCommit, StatusKnown
  <2>2. \A q \in Payments : status'[q] = "SUCCEEDED" <=> status[q] = "SUCCEEDED"
    BY <1>1, <1>2, <2>1 DEF CreatePayment, MarkCommit
  <2>3. table' = table
    BY <1>2 DEF CreatePayment, MarkCommit
  <2>4. QED
    BY <2>2, <2>3
<1>3. ASSUME NEW v \in Verdicts, Cancel(v)
      PROVE  PaidTable'
  <2>1. status[target[v]] # "SUCCEEDED"
    BY <1>3 DEF Cancel, StatusKnown, Deciding
  <2>2. \A q \in Payments : status'[q] = "SUCCEEDED" <=> status[q] = "SUCCEEDED"
    BY <1>1, <1>3, <2>1 DEF Cancel
  <2>3. table' = table
    BY <1>3 DEF Cancel
  <2>4. QED
    BY <2>2, <2>3
<1>4. ASSUME NEW v \in Verdicts, Confirm(v)
      PROVE  PaidTable'
  <2>1. target[v] \in Payments /\ Kind[target[v]] \in {"refill", "leads"}
    <3>1. target[v] \in Payments
      BY <1>4 DEF Confirm, TypeOK
    <3>2. Kind[target[v]] # "legacy"
      BY <1>4 DEF Confirm, StatusKnown, Deciding
    <3>3. QED
      BY <3>1, <3>2, SellerPaymentsAssumption
  <2>2. status'[target[v]] = "SUCCEEDED"
    BY <1>1, <1>4, <2>1 DEF Confirm
  <2>3. \A q \in Payments : q # target[v] => status'[q] = status[q]
    BY <1>1, <1>4 DEF Confirm
  <2>4. status[target[v]] # "SUCCEEDED"
    BY <1>4 DEF Confirm, StatusKnown, Deciding
  <2>5. CASE Kind[target[v]] = "refill"
    BY <1>4, <2>3, <2>4, <2>5 DEF Confirm
  <2>6. CASE Kind[target[v]] = "leads"
    BY <1>4, <2>1, <2>2, <2>6 DEF Confirm
  <2>7. QED
    BY <2>1, <2>5, <2>6
<1>5. ASSUME UNCHANGED <<status, table>>
      PROVE  PaidTable'
  BY <1>5
<1>6. CASE Quiet
  BY <1>5, <1>6, QuietFrame
<1>7. CASE VerifyTable
  BY <1>7 DEF VerifyTable
<1>8. CASE \/ \E n \in Charges : PayoutDebits(n)
           \/ \E committed \in BOOLEAN : PayoutEnds(committed)
  BY <1>5, <1>8 DEF PayoutDebits, PayoutEnds
<1>9. QED
  BY <1>2, <1>3, <1>4, <1>6, <1>7, <1>8, NextCases

\* A table is PAID exactly when leads were paid for.
THEOREM TablePaid == Spec => []PaidTable
<1>1. Init => PaidTable
  BY SellerPaymentsAssumption DEF Init, PaidTable, Succeeded
<1>2. Inv /\ [Next]_vars /\ PaidTable => PaidTable'
  BY PaidTableStep
<1>3. QED
  BY <1>1, <1>2, Invariant, PTL DEF Spec

\* The refinement mapping, by name.
Seen == [p \in Payments |->
           CASE status[p] \in {"absent", "CREATED"} -> "unclaimed"
             [] status[p] = "WAITING_CONFIRM" -> "claimed"
             [] status[p] = "SUCCEEDED" -> "accepted"
             [] OTHER -> "rejected"]

LEMMA SeenStep ==
  ASSUME Inv, NEW p \in Payments, NEW new \in Statuses,
         status' = [status EXCEPT ![p] = new]
  PROVE  /\ new = "CREATED" /\ status[p] = "absent" => Seen' = Seen
         /\ new = "WAITING_CONFIRM" => Seen' = [Seen EXCEPT ![p] = "claimed"]
         /\ new = "SUCCEEDED" => Seen' = [Seen EXCEPT ![p] = "accepted"]
         /\ new = "CANCELED" => Seen' = [Seen EXCEPT ![p] = "rejected"]
<1>1. status \in [Payments -> Statuses]
  BY DEF Inv, TypeOK
<1>2. ASSUME NEW q \in Payments, q # p
      PROVE  status'[q] = status[q]
  BY <1>1, <1>2
<1>3. status'[p] = new
  BY <1>1
<1>4. ASSUME NEW seen, Seen'[p] = seen
      PROVE  Seen' = [Seen EXCEPT ![p] = seen]
  BY <1>2, <1>4 DEF Seen
<1>5. CASE new = "CREATED" /\ status[p] = "absent"
  BY <1>2, <1>3, <1>5 DEF Seen
<1>6. CASE new = "WAITING_CONFIRM"
  <2>1. Seen'[p] = "claimed"
    BY <1>3, <1>6 DEF Seen
  <2>2. QED
    BY <1>4, <1>6, <2>1
<1>7. CASE new = "SUCCEEDED"
  <2>1. Seen'[p] = "accepted"
    BY <1>3, <1>7 DEF Seen
  <2>2. QED
    BY <1>4, <1>7, <2>1
<1>8. CASE new = "CANCELED"
  <2>1. Seen'[p] = "rejected"
    BY <1>3, <1>8 DEF Seen
  <2>2. QED
    BY <1>4, <1>8, <2>1
<1>9. QED
  BY <1>5, <1>6, <1>7, <1>8

SeenNext == [Lifecycle!LifecycleNext]_<<Seen, balance + spent, leads_balance>>

LEMMA LifecycleStep ==
  ASSUME Inv, [Next]_vars
  PROVE  SeenNext
<1> USE DEF Inv
<1>1. status \in [Payments -> Statuses] /\ balance \in Nat /\ spent \in Nat /\ charge \in Nat
  BY DEF TypeOK
<1>2. ASSUME NEW p \in Payments, CreatePayment(p)
      PROVE  SeenNext
  <2>1. Seen' = Seen
    BY <1>2, SeenStep DEF CreatePayment, Statuses
  <2>2. QED
    BY <1>2, <2>1 DEF SeenNext, CreatePayment, cabinet, payoutVars
<1>3. ASSUME NEW p \in Payments, MarkCommit(p)
      PROVE  SeenNext
  <2>1. Seen' = [Seen EXCEPT ![p] = "claimed"]
    BY <1>3, SeenStep DEF MarkCommit, Statuses
  <2>2. Seen[p] = "unclaimed"
    BY <1>1, <1>3 DEF MarkCommit, StatusKnown, Seen
  <2>3. UNCHANGED <<balance + spent, leads_balance>>
    BY <1>3 DEF MarkCommit, cabinet, payoutVars
  <2>4. Lifecycle!Claim(p)
    BY <2>1, <2>2, <2>3 DEF Lifecycle!Claim, Seen
  <2>5. QED
    BY <2>4 DEF SeenNext, Lifecycle!LifecycleNext
<1>4. ASSUME NEW v \in Verdicts, Cancel(v)
      PROVE  SeenNext
  <2>1. PICK p \in Payments : p = target[v]
    BY <1>4 DEF Cancel, TypeOK
  <2>2. status[p] = "WAITING_CONFIRM"
    BY <1>4, <2>1 DEF Cancel, StatusKnown, Deciding
  <2>3. Seen' = [Seen EXCEPT ![p] = "rejected"]
    BY <1>4, <2>1, SeenStep DEF Cancel, Statuses
  <2>4. Seen[p] = "claimed"
    BY <2>2 DEF Seen
  <2>5. UNCHANGED <<balance + spent, leads_balance>>
    BY <1>4 DEF Cancel, cabinet, payoutVars
  <2>6. Lifecycle!Reject(p)
    BY <2>3, <2>4, <2>5 DEF Lifecycle!Reject, Seen
  <2>7. QED
    BY <2>6 DEF SeenNext, Lifecycle!LifecycleNext
<1>5. ASSUME NEW v \in Verdicts, Confirm(v)
      PROVE  SeenNext
  <2>1. PICK p \in Payments : p = target[v]
    BY <1>5 DEF Confirm, TypeOK
  <2>2. Seen' = [Seen EXCEPT ![p] = "accepted"]
    BY <1>5, <2>1, SeenStep DEF Confirm, Statuses
  <2>3. status[p] = "WAITING_CONFIRM" /\ Seen[p] = "claimed"
    BY <1>5, <2>1 DEF Confirm, StatusKnown, Deciding, Seen
  <2>4. Amount[p] \in Nat /\ spent' = spent
    BY <1>5, <2>1, SellerPaymentsAssumption DEF Confirm, payoutVars
  <2>5. IF p \in {q \in Payments : Kind[q] = "refill"}
          THEN balance' + spent' = balance + spent + Amount[p] /\ leads_balance' = leads_balance
          ELSE leads_balance' = leads_balance + Amount[p] /\ balance' + spent' = balance + spent
    BY <1>1, <1>5, <2>1, <2>4 DEF Confirm
  <2>6. Lifecycle!Accept(p)
    BY <2>2, <2>3, <2>5 DEF Lifecycle!Accept, Seen
  <2>7. QED
    BY <2>6 DEF SeenNext, Lifecycle!LifecycleNext
<1>6. ASSUME NEW committed \in BOOLEAN, PayoutEnds(committed)
      PROVE  SeenNext
  <2>1. balance' + spent' = balance + spent
    BY <1>1, <1>6 DEF PayoutEnds
  <2>2. UNCHANGED <<status, leads_balance>>
    BY <1>6 DEF PayoutEnds
  <2>3. QED
    BY <2>1, <2>2 DEF SeenNext, Seen
<1>7. ASSUME UNCHANGED <<status, balance, spent, leads_balance>>
      PROVE  SeenNext
  BY <1>7 DEF SeenNext, Seen
<1>8. CASE Quiet
  BY <1>7, <1>8, QuietFrame
<1>9. CASE VerifyTable \/ \E n \in Charges : PayoutDebits(n)
  BY <1>7, <1>9 DEF VerifyTable, PayoutDebits, cabinet, payoutVars
<1>10. QED
  BY <1>2, <1>3, <1>4, <1>5, <1>6, <1>8, <1>9, NextCases

\* Every step of the interactors, the administrators and the payouts is a step
\* of the payment's life cycle, or invisible to it.
THEOREM ImplementsLifecycle == Spec => LifecycleSpec
<1>1. Init => Lifecycle!LifecycleInit
  BY SellerPaymentsAssumption DEF Init, Lifecycle!LifecycleInit
<1>2. Inv /\ [Next]_vars => [Lifecycle!LifecycleNext]_(Lifecycle!lifecycleVars)
  BY LifecycleStep DEF SeenNext, Lifecycle!lifecycleVars, Seen
<1>3. QED
  BY <1>1, <1>2, Invariant, PTL DEF Spec, LifecycleSpec, Lifecycle!LifecycleSpec

-----------------------------------------------------------------------------
(* The balances are what the payments that succeeded add up to.            *)

\* What a set of payments adds up to can be counted.
LEMMA UnitsFinite ==
  ASSUME NEW S \in SUBSET Payments
  PROVE  IsFiniteSet(Units(S)) /\ Cardinality(Units(S)) \in Nat
<1> DEFINE part(p) == {p} \X (1 .. Amount[p])
           f == [p \in S |-> part(p)]
           parts == {part(p) : p \in S}
<1>1. IsFiniteSet(S)
  BY SellerPaymentsAssumption, FS_Subset
<1>2. f \in Surjection(S, parts)
  BY DEF Surjection
<1>3. IsFiniteSet(parts)
  BY <1>1, <1>2, FS_Surjection
<1>4. ASSUME NEW p \in S
      PROVE  IsFiniteSet(part(p))
  <2> DEFINE n == Amount[p]
  <2>1. n \in Int
    BY SellerPaymentsAssumption
  <2> HIDE DEF n
  <2>2. IsFiniteSet(1 .. n)
    BY <2>1, FS_Interval
  <2>3. IsFiniteSet({p})
    BY FS_Singleton
  <2>4. QED
    BY <2>2, <2>3, FS_Product DEF n
<1>5. \A T \in parts : IsFiniteSet(T)
  BY <1>4
<1>6. IsFiniteSet(UNION parts)
  <2> HIDE DEF parts
  <2>1. QED
    BY <1>3, <1>5, FS_UNION
<1>7. IsFiniteSet(Units(S))
  BY <1>6 DEF Units
<1>8. QED
  BY <1>7, FS_CardinalityType

\* One more payment adds its own amount.
LEMMA UnitsAdd ==
  ASSUME NEW S \in SUBSET Payments, NEW p \in Payments \ S
  PROVE  Cardinality(Units(S \cup {p})) = Cardinality(Units(S)) + Amount[p]
<1> DEFINE n == Amount[p]
           sum == Units(S)
           mine == {p} \X (1 .. n)
<1>1. Units(S \cup {p}) = sum \cup mine
  BY DEF Units
<1>2. sum \cap mine = {}
  BY DEF Units
<1>3. IsFiniteSet(sum) /\ Cardinality(sum) \in Nat
  BY UnitsFinite
<1>4. n \in Nat
  BY SellerPaymentsAssumption
<1> HIDE DEF n
<1>5. IsFiniteSet(1 .. n) /\ Cardinality(1 .. n) = n
  BY <1>4, FS_Interval
<1>6. IsFiniteSet({p}) /\ Cardinality({p}) = 1
  BY FS_Singleton
<1>7. IsFiniteSet(mine) /\ Cardinality(mine) = n
  <2>1. IsFiniteSet({p} \X (1 .. n))
    BY <1>5, <1>6, FS_Product
  <2>2. Cardinality({p} \X (1 .. n)) = Cardinality({p}) * Cardinality(1 .. n)
    BY <1>5, <1>6, FS_Product, Zenon
  <2>3. QED
    BY <2>1, <2>2, <1>4, <1>5, <1>6
<1> HIDE DEF sum, mine
<1>8. Cardinality(sum \cap mine) = 0
  BY <1>2, FS_EmptySet
<1>9. Cardinality(sum \cup mine) = Cardinality(sum) + n
  BY <1>3, <1>4, <1>7, <1>8, FS_Union
<1>10. QED
  BY <1>1, <1>9 DEF sum, n

LEMMA CreditStep ==
  ASSUME Inv, [Next]_vars, CreditMatchesStatus
  PROVE  CreditMatchesStatus'
<1> DEFINE refills == Succeeded("refill")
           bought == Succeeded("leads")
<1> USE DEF Inv
<1>1. status \in [Payments -> Statuses] /\ balance \in Nat /\ spent \in Nat
      /\ charge \in Nat /\ leads_balance \in Nat
  BY DEF TypeOK
<1>2. ASSUME NEW v \in Verdicts, Confirm(v)
      PROVE  CreditMatchesStatus'
  <2>1. PICK p \in Payments : p = target[v]
    BY <1>2 DEF Confirm, TypeOK
  <2>2. status[p] = "WAITING_CONFIRM" /\ Kind[p] \in {"refill", "leads"}
    BY <1>2, <2>1, SellerPaymentsAssumption DEF Confirm, StatusKnown, Deciding
  <2>3. status' = [status EXCEPT ![p] = "SUCCEEDED"]
    BY <1>2, <2>1 DEF Confirm
  <2>4. Amount[p] \in Nat /\ spent' = spent
    BY <1>2, SellerPaymentsAssumption DEF Confirm, payoutVars
  <2>5. CASE Kind[p] = "refill"
    <3>1. refills' = refills \cup {p} /\ bought' = bought /\ p \in Payments \ refills
      BY <1>1, <2>2, <2>3, <2>5 DEF Succeeded
    <3>2. Cardinality(Units(refills \cup {p})) = Cardinality(Units(refills)) + Amount[p]
      BY <3>1, UnitsAdd DEF Succeeded
    <3>3. balance' = balance + Amount[p] /\ leads_balance' = leads_balance
      BY <1>2, <2>1, <2>5 DEF Confirm
    <3>4. balance' + spent' = balance + spent + Amount[p]
      BY <1>1, <2>4, <3>3
    <3>5. Units(refills') = Units(refills \cup {p}) /\ Units(bought') = Units(bought)
      BY <3>1
    <3>6. QED
      BY <3>2, <3>3, <3>4, <3>5 DEF CreditMatchesStatus, Units
  <2>6. CASE Kind[p] = "leads"
    <3>1. bought' = bought \cup {p} /\ refills' = refills /\ p \in Payments \ bought
      BY <1>1, <2>2, <2>3, <2>6 DEF Succeeded
    <3>2. Cardinality(Units(bought \cup {p})) = Cardinality(Units(bought)) + Amount[p]
      BY <3>1, UnitsAdd DEF Succeeded
    <3>3. balance' = balance /\ leads_balance' = leads_balance + Amount[p]
      BY <1>2, <2>1, <2>6 DEF Confirm
    <3>4. Units(bought') = Units(bought \cup {p}) /\ Units(refills') = Units(refills)
      BY <3>1
    <3>5. QED
      BY <2>4, <3>2, <3>3, <3>4 DEF CreditMatchesStatus, Units
  <2>7. QED
    BY <2>2, <2>5, <2>6
<1>3. ASSUME \A p \in Payments : status'[p] = "SUCCEEDED" <=> status[p] = "SUCCEEDED",
             balance' + spent' = balance + spent, leads_balance' = leads_balance
      PROVE  CreditMatchesStatus'
  <2>1. refills' = refills /\ bought' = bought
    BY <1>3 DEF Succeeded
  <2>2. QED
    BY <1>3, <2>1 DEF CreditMatchesStatus, Units
<1>4. ASSUME NEW p \in Payments, CreatePayment(p) \/ MarkCommit(p)
      PROVE  CreditMatchesStatus'
  <2>1. status[p] # "SUCCEEDED"
    BY <1>4 DEF CreatePayment, MarkCommit, StatusKnown
  <2>2. \A q \in Payments : status'[q] = "SUCCEEDED" <=> status[q] = "SUCCEEDED"
    BY <1>1, <1>4, <2>1 DEF CreatePayment, MarkCommit
  <2>3. QED
    BY <1>3, <1>4, <2>2 DEF CreatePayment, MarkCommit, cabinet, payoutVars
<1>5. ASSUME NEW v \in Verdicts, Cancel(v)
      PROVE  CreditMatchesStatus'
  <2>1. status[target[v]] # "SUCCEEDED"
    BY <1>5 DEF Cancel, StatusKnown, Deciding
  <2>2. \A q \in Payments : status'[q] = "SUCCEEDED" <=> status[q] = "SUCCEEDED"
    BY <1>1, <1>5, <2>1 DEF Cancel
  <2>3. QED
    BY <1>3, <1>5, <2>2 DEF Cancel, cabinet, payoutVars
<1>6. ASSUME NEW committed \in BOOLEAN, PayoutEnds(committed)
      PROVE  CreditMatchesStatus'
  <2>1. balance' + spent' = balance + spent
    BY <1>1, <1>6 DEF PayoutEnds
  <2>2. QED
    BY <1>3, <1>6, <2>1 DEF PayoutEnds
<1>7. CASE Quiet
  BY <1>3, <1>7, QuietFrame
<1>8. CASE VerifyTable \/ \E n \in Charges : PayoutDebits(n)
  BY <1>3, <1>8 DEF VerifyTable, PayoutDebits, cabinet, payoutVars
<1>9. QED
  BY <1>2, <1>4, <1>5, <1>6, <1>7, <1>8, NextCases

\* Every payment that succeeded is credited once and no other is.
THEOREM CreditedOnce == Spec => []CreditMatchesStatus
<1>1. ASSUME Init
      PROVE  CreditMatchesStatus
  <2>1. Succeeded("refill") = {} /\ Succeeded("leads") = {}
    BY <1>1 DEF Init, Succeeded
  <2>2. Units({}) = {}
    BY DEF Units
  <2>3. Cardinality(Units(Succeeded("refill"))) = 0 /\ Cardinality(Units(Succeeded("leads"))) = 0
    BY <2>1, <2>2, FS_EmptySet
  <2>4. QED
    BY <1>1, <2>3 DEF Init, CreditMatchesStatus
<1>2. Inv /\ [Next]_vars /\ CreditMatchesStatus => CreditMatchesStatus'
  BY CreditStep
<1>3. QED
  BY <1>1, <1>2, Invariant, PTL DEF Spec

-----------------------------------------------------------------------------
(* The cabinet's row, as payouts find it.                                  *)

Row == INSTANCE CabinetRow WITH reserved <- charge
CabinetRowSpec == Row!RowSpec

LEMMA RowStep ==
  ASSUME Inv, [Next]_vars
  PROVE  [Row!RowNext]_(Row!rowVars)
<1> DEFINE Goal == Row!RowNext \/ UNCHANGED Row!rowVars
<1> USE DEF Inv, Row!RowNext, Row!rowVars
<1>1. balance \in Nat /\ charge \in Nat
  BY DEF TypeOK
<1>2. ASSUME NEW v \in Verdicts, Confirm(v) PROVE Goal
  <2>1. charge = 0 /\ charge' = charge
    BY <1>2, SellerPaymentsAssumption DEF Confirm, LockHolders, payoutVars
  <2>2. PICK n \in Nat \ {0} : n = Amount[target[v]]
    BY <1>2, SellerPaymentsAssumption DEF Confirm, TypeOK
  <2>3. balance' = balance + n \/ balance' = balance
    BY <1>2, <2>2 DEF Confirm
  <2> QED BY <1>1, <2>1, <2>3 DEF Row!Refill
<1>3. ASSUME NEW n \in Charges, PayoutDebits(n) PROVE Goal
  <2>1. charge = 0 /\ n \in Nat \ {0}
    BY <1>3, SellerPaymentsAssumption DEF PayoutDebits, LockHolders
  <2>2. charge' \in 1 .. balance /\ balance' = balance
    BY <1>1, <1>3, <2>1 DEF PayoutDebits, cabinet
  <2> QED BY <2>1, <2>2 DEF Row!Reserve
<1>4. ASSUME NEW committed \in BOOLEAN, PayoutEnds(committed) PROVE Goal
  <2>1. charge' = 0 /\ balance' \in {balance, balance - charge}
    BY <1>4 DEF PayoutEnds
  <2>2. CASE charge = 0
    BY <1>1, <2>1, <2>2
  <2>3. CASE charge # 0
    BY <2>1, <2>3 DEF Row!Release
  <2> QED BY <2>2, <2>3
<1>5. ASSUME UNCHANGED <<balance, charge>> PROVE Goal
  BY <1>5
<1> QED
  BY <1>2, <1>3, <1>4, <1>5
  DEF Next, Advance, CreatePayment, MarkLoad, MarkCommit, Notify, Press, Transition,
      Refuse, AddBalance, Cancel, Restart, VerifyTable, cabinet, payoutVars, vars

\* Whatever verdicts and payouts race, roll back or die, the seller's payments keep
\* to the contract of the cabinet's row.
THEOREM KeepsCabinetRow == Spec => CabinetRowSpec
<1>1. Init => Row!RowInit
  BY DEF Init, Row!RowInit
<1> QED BY <1>1, RowStep, Invariant, PTL DEF Spec, CabinetRowSpec, Row!RowSpec

-----------------------------------------------------------------------------
(* Who waits for whom, and for how long.                                   *)

\* Verdict v waits for a row that w, a verdict or a payout, has locked.
WaitsFor(v, w) ==
  \/ /\ pc[v] \in {"confirm", "cancel"}
     /\ Kind[target[v]] # "legacy" /\ status[target[v]] = "WAITING_CONFIRM"
     /\ paymentLock[target[v]] = w
  \/ pc[v] = "transitioned" /\ cabinetLock = w

\* Locks are taken in one order, the payment's and then the cabinet's: whoever waits
\* waits, directly or behind one other verdict, for a transaction that waits for
\* nobody; and the seller's own commit, which writes without a look, never waits.
NoCircularWait ==
  /\ \A v, w \in Verdicts : \A x \in Verdicts \cup {Payout} :
        WaitsFor(v, w) /\ WaitsFor(w, x) =>
          x = Payout \/ (pc[x] = "credited" /\ \A y \in Verdicts \cup {Payout} : ~WaitsFor(x, y))
  /\ \A v \in Verdicts : ~WaitsFor(v, v)
  /\ \A p \in Payments : dialog[p] = "marking" => paymentLock[p] = Nobody

THEOREM NoDeadlock == Spec => []NoCircularWait
<1>1. ASSUME Inv
      PROVE  NoCircularWait
  <2>0. Payout \notin Verdicts
    BY SellerPaymentsAssumption
  <2>1. \A v \in Verdicts, w \in Verdicts : WaitsFor(v, w) =>
           \/ pc[v] \in {"confirm", "cancel"} /\ pc[w] \in Deciding
           \/ pc[v] = "transitioned" /\ pc[w] = "credited"
    BY <1>1 DEF WaitsFor, Inv, TypeOK, LockHolders
  <2>2. ASSUME NEW v \in Verdicts, NEW w \in Verdicts, NEW x \in Verdicts \cup {Payout},
               WaitsFor(v, w), WaitsFor(w, x)
        PROVE  x = Payout \/ (pc[x] = "credited" /\ \A y \in Verdicts \cup {Payout} : ~WaitsFor(x, y))
    <3>1. pc[w] = "transitioned"
      <4>1. pc[w] \in Deciding \cup {"credited"}
        BY <2>1, <2>2
      <4> QED BY <2>2, <4>1 DEF WaitsFor, Deciding
    <3>2. x \in Verdicts => pc[x] = "credited"
      BY <2>1, <2>2, <3>1
    <3> QED BY <3>2 DEF WaitsFor
  <2>3. \A v \in Verdicts : ~WaitsFor(v, v)
    BY <2>1 DEF Deciding
  <2>4. ASSUME NEW p \in Payments, dialog[p] = "marking"
        PROVE  paymentLock[p] = Nobody
    <3>1. status[p] = "CREATED"
      BY <1>1, <2>4 DEF Inv, StatusKnown
    <3>2. \A v \in Verdicts : paymentLock[p] # v
      BY <1>1, <3>1 DEF Inv, LockHolders, StatusKnown
    <3> QED BY <1>1, <3>2 DEF Inv, TypeOK
  <2> QED BY <2>2, <2>3, <2>4 DEF NoCircularWait
<1> QED BY <1>1, Invariant, PTL

\* An upper bound of the steps that verdict v can still take.
StepsLeft(v) ==
  CASE pc[v] = "idle" -> 4
    [] pc[v] \in {"confirm", "cancel"} -> 3
    [] pc[v] = "transitioned" -> 2
    [] pc[v] \in {"credited", "canceling"} -> 1
    [] OTHER -> 0

\* Each step of a verdict leaves it fewer, and nobody else gives it more.
WorkShrinks ==
  [][\A v \in Verdicts :
        /\ StepsLeft(v)' <= StepsLeft(v)
        /\ Advance(v) \/ pc'[v] # pc[v] => StepsLeft(v)' < StepsLeft(v)]_vars

LEMMA StepsStep ==
  ASSUME TypeOK, [Next]_vars, NEW v \in Verdicts
  PROVE  /\ StepsLeft(v)' <= StepsLeft(v)
         /\ Advance(v) \/ pc'[v] # pc[v] => StepsLeft(v)' < StepsLeft(v)
<1> DEFINE Goal == /\ StepsLeft(v)' <= StepsLeft(v)
                   /\ Advance(v) \/ pc'[v] # pc[v] => StepsLeft(v)' < StepsLeft(v)
<1> SUFFICES Goal
  OBVIOUS
<1>0. pc \in [Verdicts -> Stages]
  BY DEF TypeOK
<1>1. StepsLeft(v) \in Nat /\ StepsLeft(v)' \in Nat
  BY DEF StepsLeft
<1>2. ASSUME StepsLeft(v)' < StepsLeft(v) PROVE Goal
  BY <1>1, <1>2
<1>3. ASSUME Advance(v) PROVE Goal
  <2>1. \/ pc[v] \in {"confirm", "cancel"} /\ pc'[v] \in {"transitioned", "canceling", "refused"}
        \/ pc[v] = "transitioned" /\ pc'[v] = "credited"
        \/ pc[v] = "credited" /\ pc'[v] = "confirmed"
        \/ pc[v] = "canceling" /\ pc'[v] = "canceled"
    BY <1>0, <1>3 DEF Advance, Transition, Refuse, AddBalance, Confirm, Cancel, Goto
  <2> QED BY <1>2, <2>1 DEF StepsLeft
<1>4. ASSUME pc'[v] = pc[v], ~Advance(v) PROVE Goal
  <2>1. StepsLeft(v)' = StepsLeft(v)
    BY <1>4 DEF StepsLeft
  <2> QED BY <1>1, <1>4, <2>1
<1> HIDE DEF Goal
<1>5. ASSUME pc'[v] = pc[v] PROVE Goal
  BY <1>3, <1>4, <1>5
<1>6. ASSUME NEW w \in Verdicts, Advance(w) PROVE Goal
  <2>1. CASE w = v
    BY <1>3, <1>6, <2>1
  <2>2. CASE w # v
    <3>1. pc'[v] = pc[v]
      BY <1>0, <1>6, <2>2 DEF Advance, Transition, Refuse, AddBalance, Confirm, Cancel, Goto
    <3> QED BY <1>5, <3>1
  <2> QED BY <2>1, <2>2
<1>7. ASSUME NEW w \in Verdicts, NEW p \in Payments, NEW stage \in {"confirm", "cancel"},
             Press(w, p, stage)
      PROVE  Goal
  <2>1. CASE w = v
    <3>1. pc[v] = "idle" /\ pc'[v] \in {"confirm", "cancel"}
      BY <1>0, <1>7, <2>1 DEF Press, Goto
    <3> QED BY <1>2, <3>1 DEF StepsLeft, Goal
  <2>2. CASE w # v
    BY <1>0, <1>5, <1>7, <2>2 DEF Press, Goto
  <2> QED BY <2>1, <2>2
<1>8. CASE Restart
  <2>1. CASE pc[v] \in Done \cup {"idle"}
    BY <1>5, <1>8, <2>1 DEF Restart
  <2>2. CASE pc[v] \notin Done \cup {"idle"}
    <3>1. pc'[v] = "aborted"
      BY <1>8, <2>2 DEF Restart
    <3>2. pc[v] \in Confirming \cup Canceling
      BY <1>0, <2>2 DEF Stages
    <3>3. StepsLeft(v)' < StepsLeft(v)
      BY <3>1, <3>2 DEF StepsLeft, Confirming, Canceling
    <3> QED BY <1>2, <3>3
  <2> QED BY <2>1, <2>2
<1>9. CASE \/ \E p \in Payments : CreatePayment(p) \/ MarkLoad(p) \/ MarkCommit(p) \/ Notify(p)
           \/ VerifyTable
           \/ \E n \in Charges : PayoutDebits(n)
           \/ \E committed \in BOOLEAN : PayoutEnds(committed)
           \/ UNCHANGED vars
  BY <1>5, <1>9 DEF CreatePayment, MarkLoad, MarkCommit, Notify, VerifyTable, PayoutDebits,
     PayoutEnds, vars
<1>10. Goal
  BY <1>6, <1>7, <1>8, <1>9 DEF Next
<1> QED BY <1>10 DEF Goal

\* A verdict takes at most four steps, the press included: it retries nothing, so
\* that only the two waits of NoCircularWait could hold it up.
THEOREM WorkBounded ==
  Spec => WorkShrinks /\ [](\A v \in Verdicts : StepsLeft(v) \in 0 .. 4)
<1>1. TypeOK /\ [Next]_vars =>
        [\A v \in Verdicts :
           /\ StepsLeft(v)' <= StepsLeft(v)
           /\ Advance(v) \/ pc'[v] # pc[v] => StepsLeft(v)' < StepsLeft(v)]_vars
  BY StepsStep
<1>2. \A v \in Verdicts : StepsLeft(v) \in 0 .. 4
  BY DEF StepsLeft
<1>3. QED
  BY <1>1, <1>2, TypeCorrect, PTL DEF Spec, WorkShrinks
=============================================================================
