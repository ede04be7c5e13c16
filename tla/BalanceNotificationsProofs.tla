--------------------- MODULE BalanceNotificationsProofs ---------------------
(***************************************************************************)
(* Proofs about BalanceNotifications, for all cabinets, sums and bounds.   *)
(*                                                                         *)
(* The strengthening relates the rows an iteration holds to the table as   *)
(* it is: a row knows its cycle, which later refills only append to, and   *)
(* within the cycle the balance has only fallen.  An alert that was heard  *)
(* is on record, was rolled back, or is the one being recorded.            *)
(***************************************************************************)
EXTENDS BalanceNotifications, TLAPS

Alerts == Cabinets \X Nat \X Thresholds
Rows == [balance : Nat, initial : Nat, cycle : Nat]
Busy == observer.at \in {"telling seller", "telling owner", "committing"}
Told == observer.at \in {"telling owner", "committing"}

Types ==
    /\ balance \in [Cabinets -> Nat]
    /\ cycles \in [Cabinets -> Seq(Nat)]
    /\ sent \subseteq Alerts
    /\ observer \in [at : {"asleep", "choosing", "telling seller", "telling owner", "committing"},
                     todo : SUBSET Cabinets, row : UNION {[S -> Rows] : S \in SUBSET Cabinets},
                     cabinet : Cabinets \cup {"none"}, due : SUBSET Thresholds]
    /\ told \in [{"seller", "owner"} -> SUBSET Alerts]

\* The rows of an iteration are those of a cycle the cabinet is in, or was.
RowsOfCycle ==
    /\ observer.todo \subseteq DOMAIN observer.row
    /\ \A c \in DOMAIN observer.row :
          /\ c \in Cabinets
          /\ observer.row[c].cycle \in DOMAIN cycles[c]
          /\ cycles[c][observer.row[c].cycle] = observer.row[c].initial
          /\ observer.row[c].cycle = Len(cycles[c]) => balance[c] <= observer.row[c].balance

\* What is announced is due, and not on record.
DueIsNew ==
    Busy => /\ observer.cabinet \in DOMAIN observer.row
            /\ observer.due # {}
            /\ \A th \in observer.due :
                  /\ <<observer.cabinet, observer.row[observer.cabinet].initial, th>> \notin sent
                  /\ Reached(observer.row[observer.cabinet].balance,
                             observer.row[observer.cabinet].initial, th)

\* Who was told before the commit.
ToldFirst ==
    /\ Told => Alert \in told["seller"]
    /\ observer.at = "committing" /\ Seller[observer.cabinet] = "seller" => Alert \in told["owner"]

\* A threshold that was heard of is on record, unless that failed or is about to
\* happen.
HeardIsRecorded ==
    \A a \in told["seller"] :
        /\ a[2] \in DOMAIN cycles[a[1]]
        /\ \/ a \in unrecorded
           \/ <<a[1], cycles[a[1]][a[2]], a[3]>> \in sent
           \/ Told /\ a = Alert

IInv ==
    /\ Types /\ RowsOfCycle /\ DueIsNew /\ ToldFirst /\ HeardIsRecorded
    /\ RecordedWasHeard /\ HeardOnce /\ AlertsTrue

-----------------------------------------------------------------------------

\* First picks a threshold that is due.
LEMMA FirstIsDue ==
    ASSUME NEW due \in SUBSET Thresholds, due # {}
    PROVE  First(due) \in due
<1>1. \E th \in due : \A other \in due : other <= th
  <2>1. CASE 50 \in due
    BY <2>1 DEF Thresholds
  <2>2. CASE 50 \notin due /\ 10 \in due
    BY <2>2 DEF Thresholds
  <2>3. CASE 50 \notin due /\ 10 \notin due
    <3>1. PICK th : th \in due
      OBVIOUS
    <3> QED BY <3>1, <2>3 DEF Thresholds
  <2> QED BY <2>1, <2>2, <2>3
<1> QED BY <1>1 DEF First

\* The alert being handled, in parts.
LEMMA AlertParts ==
    ASSUME Types, RowsOfCycle, DueIsNew, Busy
    PROVE  /\ Alert \in Alerts
           /\ Alert[1] = observer.cabinet
           /\ Alert[2] = observer.row[observer.cabinet].cycle
           /\ Alert[3] \in observer.due
           /\ Alert[2] \in DOMAIN cycles[Alert[1]]
           /\ cycles[Alert[1]][Alert[2]] = observer.row[Alert[1]].initial
           /\ observer.cabinet \in Cabinets
           /\ observer.row[observer.cabinet] \in Rows
<1>1. observer.due \in SUBSET Thresholds /\ observer.due # {}
  BY DEF Types, DueIsNew
<1>2. First(observer.due) \in observer.due
  BY <1>1, FirstIsDue
<1>3. observer.cabinet \in DOMAIN observer.row /\ observer.cabinet \in Cabinets
  BY DEF DueIsNew, RowsOfCycle
<1>4. observer.row[observer.cabinet] \in Rows
  <2>1. PICK S \in SUBSET Cabinets : observer.row \in [S -> Rows]
    BY DEF Types
  <2> QED BY <2>1, <1>3
<1> QED BY <1>1, <1>2, <1>3, <1>4 DEF Alert, Alerts, Rows, RowsOfCycle

LEMMA InitInv == Init => IInv
<1> SUFFICES ASSUME Init PROVE IInv
  OBVIOUS
<1> USE DEF Init, Asleep
<1>1. Types
  <2>1. observer.row \in [{} -> Rows]
    OBVIOUS
  <2>2. observer.row \in UNION {[S -> Rows] : S \in SUBSET Cabinets}
    BY <2>1
  <2> QED BY <2>2 DEF Types, Alerts
<1>2. RowsOfCycle /\ DueIsNew /\ ToldFirst /\ HeardIsRecorded
  BY DEF RowsOfCycle, DueIsNew, ToldFirst, HeardIsRecorded, Busy, Told
<1>3. RecordedWasHeard /\ HeardOnce /\ AlertsTrue
  BY DEF RecordedWasHeard, HeardOnce, AlertsTrue
<1> QED BY <1>1, <1>2, <1>3 DEF IInv

-----------------------------------------------------------------------------
(* The cabinets.                                                           *)

LEMMA RefillStep ==
    ASSUME IInv, NEW c \in Cabinets, Refill(c)
    PROVE  IInv'
<1>1. PICK n \in Amounts : /\ balance' = [balance EXCEPT ![c] = @ + n]
                           /\ cycles' = [cycles EXCEPT ![c] = Append(@, balance[c] + n)]
  BY DEF Refill
<1>2. balance \in [Cabinets -> Nat] /\ cycles \in [Cabinets -> Seq(Nat)] /\ n \in Nat
  BY BalanceAssumption DEF IInv, Types
<1> DEFINE new == Append(cycles[c], balance[c] + n)
<1>13. balance[c] + n \in Nat /\ cycles[c] \in Seq(Nat)
  BY <1>2
<1>14. /\ new \in Seq(Nat)
       /\ Len(new) = Len(cycles[c]) + 1
       /\ \A k \in DOMAIN cycles[c] : k \in DOMAIN new /\ new[k] = cycles[c][k] /\ k <= Len(cycles[c])
  BY <1>13
<1>15. Len(cycles[c]) \in Nat
  BY <1>13
<1>16. cycles' = [cycles EXCEPT ![c] = new]
  BY <1>1
<1> HIDE DEF new
<1>3. UNCHANGED <<sent, observer, told, doubled, unrecorded>>
  BY DEF Refill
<1>4. Types'
  <2>1. balance' \in [Cabinets -> Nat]
    BY <1>1, <1>2, <1>13
  <2>2. cycles' \in [Cabinets -> Seq(Nat)]
    BY <1>2, <1>14, <1>16
  <2> QED BY <1>3, <2>1, <2>2 DEF IInv, Types
\* The cycles there were keep their place and sum.
<1>5. \A d \in Cabinets : \A k \in DOMAIN cycles[d] :
         k \in DOMAIN cycles'[d] /\ cycles'[d][k] = cycles[d][k]
  BY <1>2, <1>14, <1>16
<1>6. \A d \in Cabinets : \A k \in DOMAIN cycles[d] : k = Len(cycles'[d]) =>
         d # c /\ k = Len(cycles[d])
  <2>1. c \in DOMAIN cycles /\ cycles'[c] = new /\ \A d \in Cabinets \ {c} : cycles'[d] = cycles[d]
    BY <1>2, <1>16
  <2>2. \A k \in DOMAIN cycles[c] : k # Len(new)
    BY <1>14, <1>15, <1>13
  <2> QED BY <2>1, <2>2
<1>7. RowsOfCycle'
  <2> SUFFICES ASSUME NEW d \in DOMAIN observer.row
               PROVE  /\ d \in Cabinets
                      /\ observer.row[d].cycle \in DOMAIN cycles'[d]
                      /\ cycles'[d][observer.row[d].cycle] = observer.row[d].initial
                      /\ observer.row[d].cycle = Len(cycles'[d]) => balance'[d] <= observer.row[d].balance
    BY <1>3 DEF IInv, RowsOfCycle
  <2>1. d \in Cabinets /\ observer.row[d].cycle \in DOMAIN cycles[d]
    BY DEF IInv, RowsOfCycle
  <2>2. d # c => balance'[d] = balance[d]
    BY <1>1, <2>1 DEF IInv, Types
  <2> QED BY <1>5, <1>6, <2>1, <2>2 DEF IInv, RowsOfCycle
<1>8. DueIsNew' /\ ToldFirst'
  BY <1>3 DEF IInv, DueIsNew, ToldFirst, Busy, Told, Alert
<1>9. HeardIsRecorded'
  <2> SUFFICES ASSUME NEW a \in told["seller"]
               PROVE  /\ a[2] \in DOMAIN cycles'[a[1]]
                      /\ \/ a \in unrecorded
                         \/ <<a[1], cycles'[a[1]][a[2]], a[3]>> \in sent
                         \/ Told /\ a = Alert
    BY <1>3 DEF HeardIsRecorded, Told, Alert
  <2>1. a[1] \in Cabinets
    BY DEF IInv, Types, Alerts
  <2> QED BY <1>5, <2>1 DEF IInv, HeardIsRecorded
<1>10. RecordedWasHeard'
  <2> SUFFICES ASSUME NEW row \in sent
               PROVE  \E k \in DOMAIN cycles'[row[1]] :
                         /\ cycles'[row[1]][k] = row[2]
                         /\ <<row[1], k, row[3]>> \in told["seller"]
                         /\ Seller[row[1]] = "seller" => <<row[1], k, row[3]>> \in told["owner"]
    BY <1>3 DEF RecordedWasHeard
  <2>1. row[1] \in Cabinets
    BY DEF IInv, Types, Alerts
  <2> QED BY <1>5, <2>1 DEF IInv, RecordedWasHeard
<1>11. HeardOnce'
  BY <1>3 DEF IInv, HeardOnce
<1>12. AlertsTrue'
  <2> SUFFICES ASSUME NEW a \in told["seller"], a[2] = Len(cycles'[a[1]])
               PROVE  Reached(balance'[a[1]], Initial(a[1])', a[3])
    BY <1>3 DEF AlertsTrue
  <2>1. a[1] \in Cabinets /\ a[2] \in DOMAIN cycles[a[1]]
    BY DEF IInv, Types, Alerts, HeardIsRecorded
  <2>2. a[1] # c /\ a[2] = Len(cycles[a[1]])
    BY <1>6, <2>1
  <2>3. balance'[a[1]] = balance[a[1]] /\ cycles'[a[1]] = cycles[a[1]]
    BY <1>1, <2>1, <2>2 DEF IInv, Types
  <2> QED BY <2>2, <2>3 DEF IInv, AlertsTrue, Initial
<1> QED BY <1>4, <1>7, <1>8, <1>9, <1>10, <1>11, <1>12 DEF IInv

LEMMA ChargeStep ==
    ASSUME IInv, NEW c \in Cabinets, Charge(c)
    PROVE  IInv'
<1>1. PICK n \in Charges : n <= balance[c] /\ balance' = [balance EXCEPT ![c] = @ - n]
  BY DEF Charge
<1>2. n \in Nat
  BY BalanceAssumption
<1>3. UNCHANGED <<cycles, sent, observer, told, doubled, unrecorded>>
  BY DEF Charge
<1>4. balance' \in [Cabinets -> Nat] /\ \A d \in Cabinets : balance'[d] <= balance[d]
  <2>1. balance \in [Cabinets -> Nat]
    BY DEF IInv, Types
  <2>2. balance[c] - n \in Nat /\ balance[c] - n <= balance[c]
    BY <1>1, <1>2, <2>1
  <2> QED BY <1>1, <2>1, <2>2
<1>9. \A d \in Cabinets : balance[d] \in Nat /\ balance'[d] \in Nat
  BY <1>4 DEF IInv, Types
<1>5. Types'
  BY <1>3, <1>4 DEF IInv, Types
<1>6. RowsOfCycle'
  <2>1. \A d \in DOMAIN observer.row : observer.row[d].balance \in Nat /\ d \in Cabinets
    <3>1. PICK S \in SUBSET Cabinets : observer.row \in [S -> Rows]
      BY DEF IInv, Types
    <3> QED BY <3>1 DEF Rows
  <2> SUFFICES ASSUME NEW d \in DOMAIN observer.row, observer.row[d].cycle = Len(cycles[d])
               PROVE  balance'[d] <= observer.row[d].balance
    BY <1>3 DEF IInv, RowsOfCycle
  <2>2. balance[d] <= observer.row[d].balance
    BY DEF IInv, RowsOfCycle
  <2> QED BY <1>4, <1>9, <2>1, <2>2
<1>7. DueIsNew' /\ ToldFirst' /\ HeardIsRecorded' /\ RecordedWasHeard' /\ HeardOnce'
  BY <1>3 DEF IInv, DueIsNew, ToldFirst, Busy, Told, Alert, HeardIsRecorded, RecordedWasHeard, HeardOnce
<1>8. AlertsTrue'
  <2> SUFFICES ASSUME NEW a \in told["seller"], a[2] = Len(cycles[a[1]])
               PROVE  Reached(balance'[a[1]], Initial(a[1]), a[3])
    BY <1>3 DEF AlertsTrue, Initial
  <2>1. a[1] \in Cabinets /\ a[3] \in {50, 10, 1}
    BY DEF IInv, Types, Alerts, Thresholds
  <2>2. Initial(a[1]) \in Nat
    <3>1. cycles[a[1]] \in Seq(Nat)
      BY <2>1 DEF IInv, Types
    <3>2. cycles[a[1]] # <<>> => cycles[a[1]][Len(cycles[a[1]])] \in Nat
      BY <3>1
    <3> QED BY <3>2 DEF Initial
  <2>3. Reached(balance[a[1]], Initial(a[1]), a[3])
    BY DEF IInv, AlertsTrue
  <2>4. (Initial(a[1]) * a[3]) \div 100 \in Int
    BY <2>1, <2>2
  <2> QED BY <1>4, <1>9, <2>1, <2>3, <2>4 DEF Reached
<1> QED BY <1>5, <1>6, <1>7, <1>8 DEF IInv

-----------------------------------------------------------------------------
(* The iteration.                                                          *)

\* Steps that leave the cabinets, the record and what was heard alone.
LEMMA QuietStep ==
    ASSUME IInv, UNCHANGED <<balance, cycles, sent, told, doubled>>,
           unrecorded \subseteq unrecorded'
    PROVE  RecordedWasHeard' /\ HeardOnce' /\ AlertsTrue'
BY DEF IInv, RecordedWasHeard, HeardOnce, AlertsTrue, Initial

LEMMA WakeStep == ASSUME IInv, Wake PROVE IInv'
<1> DEFINE low == {c \in Cabinets : Initial(c) > 0 /\ balance[c] * 2 <= Initial(c)}
           row(c) == [balance |-> balance[c], initial |-> Initial(c), cycle |-> Len(cycles[c])]
<1>1. observer' = [observer EXCEPT !.at = "choosing", !.todo = low, !.row = [c \in low |-> row(c)]]
  BY DEF Wake
<1>2. UNCHANGED <<balance, cycles, sent, told, doubled, unrecorded>>
  BY DEF Wake
<1>3. \A c \in low : /\ row(c) \in Rows /\ c \in Cabinets
                      /\ row(c).cycle \in DOMAIN cycles[c]
                      /\ cycles[c][row(c).cycle] = row(c).initial
                      /\ balance[c] <= row(c).balance
  <2> SUFFICES ASSUME NEW c \in low
               PROVE  /\ row(c) \in Rows
                      /\ row(c).cycle \in DOMAIN cycles[c]
                      /\ cycles[c][row(c).cycle] = row(c).initial
                      /\ balance[c] <= row(c).balance
    OBVIOUS
  <2>1. balance[c] \in Nat /\ cycles[c] \in Seq(Nat)
    BY DEF IInv, Types
  <2>2. cycles[c] # <<>>
    BY DEF Initial
  <2>3. Len(cycles[c]) \in DOMAIN cycles[c] /\ Len(cycles[c]) \in Nat
    BY <2>1, <2>2
  <2>4. Initial(c) = cycles[c][Len(cycles[c])] /\ Initial(c) \in Nat
    BY <2>1, <2>2, <2>3 DEF Initial
  <2> QED BY <2>1, <2>3, <2>4 DEF Rows
<1>4. observer' = [at |-> "choosing", todo |-> low, row |-> [c \in low |-> row(c)],
                  cabinet |-> observer.cabinet, due |-> observer.due]
  BY <1>1 DEF IInv, Types
<1> HIDE DEF row, low
<1>5. low \in SUBSET Cabinets
  BY DEF low
<1>6. [c \in low |-> row(c)] \in UNION {[S -> Rows] : S \in SUBSET Cabinets}
  BY <1>3, <1>5
<1>7. Types'
  BY <1>2, <1>4, <1>5, <1>6 DEF IInv, Types
<1>8. RowsOfCycle'
  BY <1>2, <1>3, <1>4, <1>5 DEF RowsOfCycle
<1>9. ~Busy' /\ ~Told' /\ ~Told /\ observer'.at # "committing"
  BY <1>4 DEF Busy, Told, Wake
<1>10. DueIsNew' /\ ToldFirst' /\ HeardIsRecorded'
  BY <1>2, <1>9 DEF IInv, DueIsNew, ToldFirst, HeardIsRecorded
<1> QED BY <1>2, <1>7, <1>8, <1>10, QuietStep DEF IInv

LEMMA ChooseStep == ASSUME IInv, NEW c \in Cabinets, Choose(c) PROVE IInv'
<1> DEFINE row == observer.row[c]
           new(th) == <<c, row.initial, th>> \notin sent /\ Reached(row.balance, row.initial, th)
           due == {th \in Thresholds : Seller[c] # "none" /\ new(th)}
<1>1. observer' = [observer EXCEPT !.todo = @ \ {c}, !.cabinet = c, !.due = due,
                                  !.at = IF due = {} THEN "choosing" ELSE "telling seller"]
  BY DEF Choose
<1>2. UNCHANGED <<balance, cycles, sent, told, doubled, unrecorded>>
  BY DEF Choose
<1>3. observer' = [at |-> IF due = {} THEN "choosing" ELSE "telling seller",
                  todo |-> observer.todo \ {c}, row |-> observer.row, cabinet |-> c, due |-> due]
  BY <1>1 DEF IInv, Types
<1>4. due \subseteq Thresholds /\ \A th \in due : new(th)
  OBVIOUS
<1>5. c \in DOMAIN observer.row
  BY DEF Choose, IInv, RowsOfCycle
<1> HIDE DEF due
<1>6. Types'
  BY <1>2, <1>3, <1>4 DEF IInv, Types
<1>7. RowsOfCycle'
  BY <1>2, <1>3 DEF IInv, RowsOfCycle
<1>8. DueIsNew'
  BY <1>2, <1>3, <1>4, <1>5 DEF DueIsNew, Busy
<1>9. ~Told /\ ~Told' /\ observer'.at # "committing"
  BY <1>3 DEF Told, Choose
<1>10. ToldFirst' /\ HeardIsRecorded'
  BY <1>2, <1>9 DEF IInv, ToldFirst, HeardIsRecorded
<1> QED BY <1>2, <1>6, <1>7, <1>8, <1>10, QuietStep DEF IInv

\* Only the place of the iteration changes.
LEMMA TellMoves ==
    ASSUME IInv, Busy, UNCHANGED <<balance, cycles, sent>>,
           NEW at \in {"telling owner", "committing"},
           observer' = [observer EXCEPT !.at = at],
           told' \in [{"seller", "owner"} -> SUBSET Alerts]
    PROVE  /\ Types' /\ RowsOfCycle' /\ DueIsNew'
           /\ Alert' = Alert
           /\ observer'.cabinet = observer.cabinet /\ observer'.at = at
<1>1. observer' = [at |-> at, todo |-> observer.todo, row |-> observer.row,
                  cabinet |-> observer.cabinet, due |-> observer.due]
  BY DEF IInv, Types
<1>2. Types'
  BY <1>1 DEF IInv, Types
<1>3. RowsOfCycle'
  BY <1>1 DEF IInv, RowsOfCycle
<1>4. DueIsNew'
  BY <1>1 DEF IInv, DueIsNew, Busy
<1> QED BY <1>1, <1>2, <1>3, <1>4 DEF Alert

LEMMA TellSellerStep == ASSUME IInv, TellSeller PROVE IInv'
<1> DEFINE at == IF Seller[observer.cabinet] = "owner" THEN "committing" ELSE "telling owner"
<1>1. /\ UNCHANGED <<balance, cycles, sent, unrecorded>>
      /\ observer' = [observer EXCEPT !.at = at]
      /\ told' = [told EXCEPT !["seller"] = @ \cup {Alert}]
      /\ doubled' = IF Alert \in told["seller"] THEN doubled \cup {Alert} ELSE doubled
      /\ observer.at = "telling seller"
  BY DEF TellSeller
<1>2. Busy /\ ~Told
  BY <1>1 DEF Busy, Told
<1>3. /\ Alert \in Alerts
      /\ Alert[2] \in DOMAIN cycles[Alert[1]]
      /\ cycles[Alert[1]][Alert[2]] = observer.row[Alert[1]].initial
      /\ Alert[1] = observer.cabinet
      /\ Alert[2] = observer.row[observer.cabinet].cycle
      /\ Alert[3] \in observer.due
  BY <1>2, AlertParts DEF IInv
<1>4. /\ told' \in [{"seller", "owner"} -> SUBSET Alerts]
      /\ told'["seller"] = told["seller"] \cup {Alert} /\ told'["owner"] = told["owner"]
  BY <1>1, <1>3 DEF IInv, Types
<1>5. /\ Types' /\ RowsOfCycle' /\ DueIsNew' /\ Alert' = Alert
      /\ observer'.cabinet = observer.cabinet /\ observer'.at = at
  BY <1>1, <1>2, <1>4, TellMoves
<1>6. Told'
  BY <1>5 DEF Told
<1>7. ToldFirst'
  BY <1>4, <1>5 DEF ToldFirst
<1>8. HeardIsRecorded'
  <2> SUFFICES ASSUME NEW a \in told'["seller"]
               PROVE  /\ a[2] \in DOMAIN cycles[a[1]]
                      /\ \/ a \in unrecorded
                         \/ <<a[1], cycles[a[1]][a[2]], a[3]>> \in sent
                         \/ a = Alert
    BY <1>1, <1>5, <1>6 DEF HeardIsRecorded
  <2> QED BY <1>2, <1>3, <1>4 DEF IInv, HeardIsRecorded
<1>9. RecordedWasHeard'
  BY <1>1, <1>4 DEF IInv, RecordedWasHeard
<1>10. HeardOnce'
  <2>1. ASSUME Alert \in told["seller"] PROVE Alert \in unrecorded
    <3>1. <<Alert[1], cycles[Alert[1]][Alert[2]], Alert[3]>> \notin sent
      BY <1>2, <1>3 DEF IInv, DueIsNew
    <3> QED BY <1>2, <2>1, <3>1 DEF IInv, HeardIsRecorded
  <2> QED BY <1>1, <2>1 DEF IInv, HeardOnce
<1>11. AlertsTrue'
  <2> SUFFICES ASSUME NEW a \in told'["seller"], a[2] = Len(cycles[a[1]])
               PROVE  Reached(balance[a[1]], Initial(a[1]), a[3])
    BY <1>1 DEF AlertsTrue, Initial
  <2>1. CASE a \in told["seller"]
    BY <2>1 DEF IInv, AlertsTrue
  <2>2. CASE a = Alert
    <3> DEFINE c == observer.cabinet
    <3>1. c \in Cabinets /\ observer.row[c] \in Rows
      BY <1>2, AlertParts DEF IInv
    <3>2. cycles[c] \in Seq(Nat) /\ balance[c] \in Nat
      BY <3>1 DEF IInv, Types
    <3>3. Initial(c) = observer.row[c].initial
      BY <1>3, <2>2, <3>2 DEF Initial
    <3>4. balance[c] <= observer.row[c].balance
      BY <1>2, <1>3, <2>2 DEF IInv, RowsOfCycle, DueIsNew
    <3>5. Reached(observer.row[c].balance, observer.row[c].initial, a[3])
      BY <1>2, <1>3, <2>2 DEF IInv, DueIsNew
    <3>6. a[3] \in Nat
      BY <1>3, <2>2 DEF Alerts, Thresholds
    <3>7. observer.row[c].balance \in Nat /\ observer.row[c].initial \in Nat
      BY <3>1 DEF Rows
    <3>8. (observer.row[c].initial * a[3]) \div 100 \in Int
      BY <3>6, <3>7
    <3>9. Reached(balance[c], observer.row[c].initial, a[3])
      BY <3>2, <3>4, <3>5, <3>7, <3>8 DEF Reached
    <3> QED BY <1>3, <2>2, <3>3, <3>9
  <2> QED BY <1>4, <2>1, <2>2
<1> QED BY <1>5, <1>7, <1>8, <1>9, <1>10, <1>11 DEF IInv

LEMMA TellOwnerStep == ASSUME IInv, TellOwner PROVE IInv'
<1>1. /\ UNCHANGED <<balance, cycles, sent, doubled, unrecorded>>
      /\ observer' = [observer EXCEPT !.at = "committing"]
      /\ told' = [told EXCEPT !["owner"] = @ \cup {Alert}]
      /\ observer.at = "telling owner"
  BY DEF TellOwner
<1>2. Busy /\ Told
  BY <1>1 DEF Busy, Told
<1>3. Alert \in Alerts
  BY <1>2, AlertParts DEF IInv
<1>4. /\ told' \in [{"seller", "owner"} -> SUBSET Alerts]
      /\ told'["owner"] = told["owner"] \cup {Alert} /\ told'["seller"] = told["seller"]
  BY <1>1, <1>3 DEF IInv, Types
<1>5. /\ Types' /\ RowsOfCycle' /\ DueIsNew' /\ Alert' = Alert
      /\ observer'.cabinet = observer.cabinet /\ observer'.at = "committing"
  BY <1>1, <1>2, <1>4, TellMoves
<1>6. Told'
  BY <1>5 DEF Told
<1>7. ToldFirst'
  BY <1>2, <1>4, <1>5 DEF IInv, ToldFirst
<1>8. HeardIsRecorded'
  BY <1>1, <1>2, <1>4, <1>5, <1>6 DEF IInv, HeardIsRecorded
<1>9. RecordedWasHeard' /\ HeardOnce' /\ AlertsTrue'
  BY <1>1, <1>4 DEF IInv, RecordedWasHeard, HeardOnce, AlertsTrue, Initial
<1> QED BY <1>5, <1>7, <1>8, <1>9 DEF IInv

LEMMA CommitStep == ASSUME IInv, Commit PROVE IInv'
<1> DEFINE record == <<Alert[1], observer.row[Alert[1]].initial, Alert[3]>>
           at == IF observer.due = {Alert[3]} THEN "choosing" ELSE "telling seller"
<1>1. /\ UNCHANGED <<balance, cycles, told, doubled, unrecorded>>
      /\ observer' = [observer EXCEPT !.due = @ \ {Alert[3]}, !.at = at]
      /\ sent' = sent \cup {record}
      /\ observer.at = "committing"
  BY DEF Commit
<1>2. Busy /\ Told
  BY <1>1 DEF Busy, Told
<1>3. /\ Alert \in Alerts
      /\ Alert[1] = observer.cabinet
      /\ Alert[2] = observer.row[observer.cabinet].cycle
      /\ Alert[3] \in observer.due
      /\ Alert[2] \in DOMAIN cycles[Alert[1]]
      /\ cycles[Alert[1]][Alert[2]] = observer.row[Alert[1]].initial
      /\ observer.cabinet \in Cabinets
      /\ observer.row[observer.cabinet] \in Rows
  BY <1>2, AlertParts DEF IInv
<1>4. observer' = [at |-> at, todo |-> observer.todo, row |-> observer.row,
                  cabinet |-> observer.cabinet, due |-> observer.due \ {Alert[3]}]
  BY <1>1 DEF IInv, Types
<1>5. record \in Alerts /\ record[1] = Alert[1] /\ record[2] = cycles[Alert[1]][Alert[2]] /\ record[3] = Alert[3]
  BY <1>3 DEF Alerts, Rows
<1>6. Types'
  BY <1>1, <1>4, <1>5 DEF IInv, Types
<1>7. RowsOfCycle'
  BY <1>1, <1>4 DEF IInv, RowsOfCycle
<1>8. DueIsNew'
  <2> SUFFICES ASSUME observer.due # {Alert[3]}
               PROVE  /\ observer.cabinet \in DOMAIN observer.row
                      /\ observer.due \ {Alert[3]} # {}
                      /\ \A th \in observer.due \ {Alert[3]} :
                            /\ <<observer.cabinet, observer.row[observer.cabinet].initial, th>> \notin sent'
                            /\ Reached(observer.row[observer.cabinet].balance,
                                       observer.row[observer.cabinet].initial, th)
    BY <1>4 DEF DueIsNew, Busy
  <2>1. observer.due \ {Alert[3]} # {}
    BY <1>3
  <2> QED BY <1>1, <1>2, <2>1 DEF IInv, DueIsNew
<1>9. ~Told' /\ observer'.at # "committing"
  BY <1>4 DEF Told
<1>10. ToldFirst'
  BY <1>9 DEF ToldFirst
<1>11. HeardIsRecorded'
  <2> SUFFICES ASSUME NEW a \in told["seller"]
               PROVE  /\ a[2] \in DOMAIN cycles[a[1]]
                      /\ \/ a \in unrecorded
                         \/ <<a[1], cycles[a[1]][a[2]], a[3]>> \in sent'
    BY <1>1 DEF HeardIsRecorded
  <2>1. CASE a = Alert
    BY <1>1, <1>3, <1>5, <2>1
  <2>2. CASE a # Alert
    BY <1>1, <2>2 DEF IInv, HeardIsRecorded
  <2> QED BY <2>1, <2>2
<1>12. RecordedWasHeard'
  <2> SUFFICES ASSUME NEW row \in sent'
               PROVE  \E k \in DOMAIN cycles[row[1]] :
                         /\ cycles[row[1]][k] = row[2]
                         /\ <<row[1], k, row[3]>> \in told["seller"]
                         /\ Seller[row[1]] = "seller" => <<row[1], k, row[3]>> \in told["owner"]
    BY <1>1 DEF RecordedWasHeard
  <2>1. CASE row \in sent
    BY <2>1 DEF IInv, RecordedWasHeard
  <2>2. CASE row = record
    <3>1. Alert = <<row[1], Alert[2], row[3]>>
      BY <1>3, <1>5, <2>2 DEF Alert
    <3>2. Alert \in told["seller"] /\ (Seller[row[1]] = "seller" => Alert \in told["owner"])
      BY <1>1, <1>2, <1>3, <1>5, <2>2 DEF IInv, ToldFirst
    <3> QED BY <1>3, <1>5, <2>2, <3>1, <3>2
  <2> QED BY <1>1, <2>1, <2>2
<1>13. HeardOnce' /\ AlertsTrue'
  BY <1>1 DEF IInv, HeardOnce, AlertsTrue, Initial
<1> QED BY <1>6, <1>7, <1>8, <1>10, <1>11, <1>12, <1>13 DEF IInv

\* The iteration is over, and what was being announced was not, or is unrecorded.
LEMMA AsleepStep ==
    ASSUME IInv, observer' = Asleep, UNCHANGED <<balance, cycles, sent, told, doubled>>,
           unrecorded \subseteq unrecorded', Told => Alert \in unrecorded'
    PROVE  IInv'
<1>1. Types'
  <2>1. [c \in {} |-> 0] \in [{} -> Rows]
    OBVIOUS
  <2>2. [c \in {} |-> 0] \in UNION {[S -> Rows] : S \in SUBSET Cabinets}
    BY <2>1
  <2> QED BY <2>2 DEF IInv, Types, Asleep
<1>2. RowsOfCycle' /\ DueIsNew' /\ ToldFirst'
  BY DEF RowsOfCycle, DueIsNew, ToldFirst, Busy, Told, Asleep
<1>3. HeardIsRecorded'
  BY DEF IInv, HeardIsRecorded
<1> QED BY <1>1, <1>2, <1>3, QuietStep DEF IInv

-----------------------------------------------------------------------------
LEMMA NextStep == IInv /\ [Next]_vars => IInv'
<1> SUFFICES ASSUME IInv, [Next]_vars PROVE IInv'
  OBVIOUS
<1>1. CASE Wake
  BY <1>1, WakeStep
<1>2. CASE TellSeller
  BY <1>2, TellSellerStep
<1>3. CASE TellOwner
  BY <1>3, TellOwnerStep
<1>4. CASE Commit
  BY <1>4, CommitStep
<1>5. CASE Sleep
  BY <1>5, AsleepStep DEF Sleep, Told
<1>6. CASE Fail
  BY <1>6, AsleepStep DEF Fail, Told
<1>7. ASSUME NEW c \in Cabinets, Choose(c) PROVE IInv'
  BY <1>7, ChooseStep
<1>8. ASSUME NEW c \in Cabinets, Refill(c) PROVE IInv'
  BY <1>8, RefillStep
<1>9. ASSUME NEW c \in Cabinets, Charge(c) PROVE IInv'
  BY <1>9, ChargeStep
<1>10. CASE UNCHANGED vars
  BY <1>10 DEF vars, IInv, Types, RowsOfCycle, DueIsNew, ToldFirst, HeardIsRecorded, Busy, Told,
               Alert, RecordedWasHeard, HeardOnce, AlertsTrue, Initial
<1> QED BY <1>1, <1>2, <1>3, <1>4, <1>5, <1>6, <1>7, <1>8, <1>9, <1>10 DEF Next, Iterate

\* The strengthening holds of every cabinet, sum and number of failures.
THEOREM Invariant == Spec => []IInv
BY InitInv, NextStep, PTL DEF Spec

\* observe_balance_notifications.py:60: what is on record was sent first.
THEOREM Heard == Spec => []RecordedWasHeard
BY Invariant, PTL DEF IInv

\* An alert comes again only when its record was rolled back.
THEOREM NotTwice == Spec => []HeardOnce
BY Invariant, PTL DEF IInv

\* Alerts of the cycle a cabinet is in are true of its balance.
THEOREM NoFalseAlert == Spec => []AlertsTrue
BY Invariant, PTL DEF IInv
=============================================================================
