------------------------ MODULE BalanceNotifications ------------------------
(***************************************************************************)
(* The observer that warns sellers of a balance running low: one loop in   *)
(* the observer process, an iteration of ObserveBalanceNotifications every *)
(* ten seconds in a session of its own.  Refills and payouts go on         *)
(* meanwhile, so the rows read at the start of an iteration age during it. *)
(***************************************************************************)
EXTENDS Integers, Sequences

CONSTANTS
    Cabinets,
    Seller,         \* whom a cabinet's seller is: "seller", "owner" or "none"
    Amounts,        \* sizes of refills
    Charges,        \* what payouts take
    MaxRefills,     \* bound: refills, of all cabinets
    MaxFailures     \* bound: sends and commits that fail

ASSUME BalanceAssumption ==
    /\ Seller \in [Cabinets -> {"seller", "owner", "none"}]
    /\ Amounts \subseteq Nat \ {0} /\ Charges \subseteq Nat \ {0}
    /\ MaxRefills \in Nat /\ MaxFailures \in Nat

VARIABLES
    balance,        \* cabinets.balance
    cycles,         \* the values initial_balance had; the last one is the row's
    sent,           \* table balance_notifications
    observer,       \* where the iteration is, and its locals
    told,           \* history: who heard of which threshold in which cycle
    doubled,        \* history: the sellers' alerts that came again
    unrecorded,     \* history: ... and those whose record was rolled back
    refills, failures

vars == <<balance, cycles, sent, observer, told, doubled, unrecorded, refills, failures>>

Thresholds == {50, 10, 1}       \* per cent

Initial(c) == IF cycles[c] = <<>> THEN 0 ELSE cycles[c][Len(cycles[c])]

Asleep == [at |-> "asleep", todo |-> {}, row |-> [c \in {} |-> 0], cabinet |-> "none", due |-> {}]

-----------------------------------------------------------------------------
(* The cabinets.                                                           *)

\* add_refill_balance
Refill(c) ==
    /\ refills < MaxRefills /\ refills' = refills + 1
    /\ \E n \in Amounts :
          /\ balance' = [balance EXCEPT ![c] = @ + n]
          /\ cycles' = [cycles EXCEPT ![c] = Append(@, balance[c] + n)]
    /\ UNCHANGED <<sent, observer, told, doubled, unrecorded, failures>>

\* try_debit_balance
Charge(c) ==
    /\ \E n \in Charges : n <= balance[c] /\ balance' = [balance EXCEPT ![c] = @ - n]
    /\ UNCHANGED <<cycles, sent, observer, told, doubled, unrecorded, refills, failures>>

-----------------------------------------------------------------------------
(* An iteration.                                                           *)

Reached(b, initial, threshold) == b <= (initial * threshold) \div 100

\* get_cabinets_with_low_balance: the rows, as they are now.
Wake ==
    /\ observer.at = "asleep"
    /\ LET low == {c \in Cabinets : Initial(c) > 0 /\ balance[c] * 2 <= Initial(c)} IN
         observer' = [observer EXCEPT !.at = "choosing", !.todo = low,
                        !.row = [c \in low |-> [balance |-> balance[c], initial |-> Initial(c),
                                                cycle |-> Len(cycles[c])]]]
    /\ UNCHANGED <<balance, cycles, sent, told, doubled, unrecorded, refills, failures>>

\* Mutant: the thresholds not reached yet are announced too.
ChooseUnreached(c) ==
    /\ observer.at = "choosing" /\ c \in observer.todo
    /\ LET new(th) == <<c, observer.row[c].initial, th>> \notin sent
           due == {th \in Thresholds : Seller[c] # "none" /\ new(th)} IN
         observer' = [observer EXCEPT !.todo = @ \ {c}, !.cabinet = c, !.due = due,
                                      !.at = IF due = {} THEN "choosing" ELSE "telling seller"]
    /\ UNCHANGED <<balance, cycles, sent, told, doubled, unrecorded, refills, failures>>

\* Mutant: a notification counts for every cycle.
ChooseByBalance(c) ==
    /\ observer.at = "choosing" /\ c \in observer.todo
    /\ LET row == observer.row[c]
           new(th) == /\ \A r \in sent : ~(r[1] = c /\ r[3] = th)
                      /\ Reached(row.balance, row.initial, th)
           due == {th \in Thresholds : Seller[c] # "none" /\ new(th)} IN
         observer' = [observer EXCEPT !.todo = @ \ {c}, !.cabinet = c, !.due = due,
                                      !.at = IF due = {} THEN "choosing" ELSE "telling seller"]
    /\ UNCHANGED <<balance, cycles, sent, told, doubled, unrecorded, refills, failures>>

\* The next cabinet: the thresholds it reached that have no notification yet.
Choose(c) ==
    /\ observer.at = "choosing" /\ c \in observer.todo
    /\ LET row == observer.row[c]
           new(th) == <<c, row.initial, th>> \notin sent /\ Reached(row.balance, row.initial, th)
           due == {th \in Thresholds : Seller[c] # "none" /\ new(th)} IN
         observer' = [observer EXCEPT !.todo = @ \ {c}, !.cabinet = c, !.due = due,
                                      !.at = IF due = {} THEN "choosing" ELSE "telling seller"]
    /\ UNCHANGED <<balance, cycles, sent, told, doubled, unrecorded, refills, failures>>

\* The thresholds are announced from the highest down.
First(due) == CHOOSE th \in due : \A other \in due : other <= th
Alert == <<observer.cabinet, observer.row[observer.cabinet].cycle, First(observer.due)>>

\* Mutant: the seller is told after the commit.
CommitThenTell ==
    /\ observer.at = "telling seller"
    /\ observer' = [observer EXCEPT !.at = "telling owner"]
    /\ sent' = sent \cup {<<Alert[1], observer.row[Alert[1]].initial, Alert[3]>>}
    /\ UNCHANGED <<balance, cycles, told, doubled, unrecorded, refills, failures>>

TellSeller ==
    /\ observer.at = "telling seller"
    /\ told' = [told EXCEPT !["seller"] = @ \cup {Alert}]
    /\ doubled' = IF Alert \in told["seller"] THEN doubled \cup {Alert} ELSE doubled
    /\ observer' = [observer EXCEPT !.at = IF Seller[observer.cabinet] = "owner" THEN "committing"
                                                                        ELSE "telling owner"]
    /\ UNCHANGED <<balance, cycles, sent, unrecorded, refills, failures>>

TellOwner ==
    /\ observer.at = "telling owner"
    /\ told' = [told EXCEPT !["owner"] = @ \cup {Alert}]
    /\ observer' = [observer EXCEPT !.at = "committing"]
    /\ UNCHANGED <<balance, cycles, sent, doubled, unrecorded, refills, failures>>

\* Mutant: the transaction of the last threshold is left open.
CommitLate ==
    /\ observer.at = "committing"
    /\ sent' = IF observer.due = {Alert[3]} THEN sent
               ELSE sent \cup {<<Alert[1], observer.row[Alert[1]].initial, Alert[3]>>}
    /\ observer' = [observer EXCEPT !.due = @ \ {Alert[3]},
                        !.at = IF observer.due = {Alert[3]} THEN "choosing" ELSE "telling seller"]
    /\ UNCHANGED <<balance, cycles, told, doubled, unrecorded, refills, failures>>

Commit ==
    /\ observer.at = "committing"
    /\ sent' = sent \cup {<<Alert[1], observer.row[Alert[1]].initial, Alert[3]>>}
    /\ observer' = [observer EXCEPT !.due = @ \ {Alert[3]},
                        !.at = IF observer.due = {Alert[3]} THEN "choosing" ELSE "telling seller"]
    /\ UNCHANGED <<balance, cycles, told, doubled, unrecorded, refills, failures>>

Sleep ==
    /\ observer.at = "choosing" /\ observer.todo = {}
    /\ observer' = Asleep
    /\ UNCHANGED <<balance, cycles, sent, told, doubled, unrecorded, refills, failures>>

\* A send or the commit fails, or the process ends: the session is rolled back and
\* the rest of the cabinets wait for the next iteration.
Fail ==
    /\ observer.at \in {"telling seller", "telling owner", "committing"}
    /\ failures < MaxFailures /\ failures' = failures + 1
    /\ unrecorded' = IF observer.at = "telling seller" THEN unrecorded ELSE unrecorded \cup {Alert}
    /\ observer' = Asleep
    /\ UNCHANGED <<balance, cycles, sent, told, doubled, refills>>

-----------------------------------------------------------------------------
Init ==
    /\ balance = [c \in Cabinets |-> 0]
    /\ cycles = [c \in Cabinets |-> <<>>]
    /\ sent = {}
    /\ observer = Asleep
    /\ told = [who \in {"seller", "owner"} |-> {}]
    /\ doubled = {} /\ unrecorded = {}
    /\ refills = 0 /\ failures = 0

Iterate ==
    \/ Wake \/ TellSeller \/ TellOwner \/ Commit \/ Sleep
    \/ \E c \in Cabinets : Choose(c)

Next ==
    \/ Iterate \/ Fail
    \/ \E c \in Cabinets : Refill(c) \/ Charge(c)

Spec == Init /\ [][Next]_vars

\* The loop goes on whatever an iteration ends with.
FairSpec == Spec /\ WF_vars(Iterate)

-----------------------------------------------------------------------------
(* Properties                                                              *)

\* A notification on record was delivered, to the seller and, unless the seller is
\* the owner, to the owner: the record must not silence an alert nobody heard.
RecordedWasHeard ==
    \A row \in sent : \E k \in DOMAIN cycles[row[1]] :
        /\ cycles[row[1]][k] = row[2]
        /\ <<row[1], k, row[3]>> \in told["seller"]
        /\ Seller[row[1]] = "seller" => <<row[1], k, row[3]>> \in told["owner"]

\* A seller hears of a threshold once in a cycle, unless recording it failed.
HeardOnce == doubled \subseteq unrecorded

\* What a seller heard in this cycle is so: refills and payouts during the
\* iteration do not make an alert of this cycle false.
AlertsTrue ==
    \A a \in told["seller"] :
        a[2] = Len(cycles[a[1]]) => Reached(balance[a[1]], Initial(a[1]), a[3])

\* The seller of a balance at a threshold is told, in this cycle or in an earlier
\* one that started from the same balance, whose notifications count for this
\* one; or the balance is refilled first.
ToldOfSum(c, k, th) ==
    \E j \in 1 .. k : cycles[c][j] = cycles[c][k] /\ <<c, j, th>> \in told["seller"]

AlertComes ==
    \A c \in Cabinets, k \in 1 .. MaxRefills, th \in Thresholds :
        (Seller[c] # "none" /\ Len(cycles[c]) = k /\ Reached(balance[c], Initial(c), th))
            ~> (Len(cycles[c]) # k \/ ToldOfSum(c, k, th))
=============================================================================
