--------------------------- MODULE SheetSyncProofs --------------------------
(***************************************************************************)
(* Proofs about SheetSync, for any tables, applications and listings.      *)
(*                                                                         *)
(* The strengthening is about the session: what it holds of an application *)
(* agrees with the database except for boxes read since, and with one      *)
(* active table nothing is read after the first commit.                    *)
(***************************************************************************)
EXTENDS SheetSync, SequenceTheorems, WellFoundedInduction, TLAPS

Stages == {"asleep", "choosing", "merging", "reading", "writing", "saving"}
AtTable == sync.at \in {"merging", "reading", "writing", "saving"}

Types ==
    /\ active \subseteq Tables
    /\ shown \in [Tables -> SUBSET Applications]
    /\ ticked \in [Tables -> SUBSET Applications]
    /\ ticks \in [Tables -> SUBSET Applications]
    /\ existing \subseteq Applications /\ paid \subseteq existing /\ manual \subseteq existing
    /\ sync = [at |-> sync.at, todo |-> sync.todo, table |-> sync.table, got |-> sync.got,
               stock |-> sync.stock, loaded |-> sync.loaded, paid |-> sync.paid,
               was |-> sync.was, manual |-> sync.manual]
    /\ sync.at \in Stages
    /\ sync.todo \subseteq active
    /\ AtTable => sync.table \in active /\ sync.table \notin sync.todo

\* What the session holds of the applications it has loaded.
SessionOK ==
    /\ sync.loaded \subseteq existing
    /\ sync.paid \subseteq paid \cap sync.loaded
    /\ sync.was \subseteq manual \cap sync.loaded
    /\ sync.manual \subseteq sync.loaded
    /\ sync.at \in {"reading", "writing"} => \A t \in Tables : shown[t] \subseteq sync.loaded
    /\ \A t \in Tables : shown[t] \subseteq existing /\ ticks[t] \subseteq shown[t]

\* With one table, an iteration that loaded anything is at this table or done.
LastTable ==
    Sole => /\ AtTable => sync.todo = {}
            /\ sync.at = "choosing" /\ sync.loaded # {} => sync.todo = {}

\* An application that was paid when it was loaded is held as ticked, and one paid
\* since was not ticked when it was loaded.
PaidIsHeld ==
    Sole => \A a \in paid \ twice :
        /\ a \in sync.paid => a \in sync.manual
        /\ a \in sync.loaded \ sync.paid =>
              a \notin sync.was \/ (sync.at = "choosing" /\ sync.todo = {} /\ sync.manual = sync.was)

\* Between reading and writing, the session has every tick that counts.
TicksAreHeld ==
    Sole /\ sync.at = "writing" => ticks[sync.table] \ twice \subseteq sync.manual

IInv == Types /\ SessionOK /\ LastTable /\ PaidIsHeld /\ TicksAreHeld /\ PaidStaysPaid /\ TickKept
-----------------------------------------------------------------------------
LEMMA InitInv == SheetInit => IInv
BY DEF SheetInit, Idle, IInv, Types, SessionOK, LastTable, PaidIsHeld, TicksAreHeld, PaidStaysPaid,
       TickKept, Stages, AtTable

\* The session is given up: nothing in the tables or the database changes.
LEMMA IdleStep ==
    ASSUME IInv, sync' = Idle, UNCHANGED <<active, google, database, marks>>
    PROVE  IInv'
<1> USE DEF IInv, google, database, marks, Idle, Sole
<1>1. Types'
  BY DEF Types, Stages, AtTable
<1>2. SessionOK'
  BY DEF Types, SessionOK
<1>3. LastTable' /\ PaidIsHeld' /\ TicksAreHeld'
  BY DEF LastTable, PaidIsHeld, TicksAreHeld, AtTable
<1>4. PaidStaysPaid' /\ TickKept'
  BY DEF PaidStaysPaid, TickKept
<1> QED BY <1>1, <1>2, <1>3, <1>4

LEMMA WakeStep == ASSUME IInv, Wake PROVE IInv'
<1> USE DEF IInv, google, database, marks, Idle, Sole, Wake
<1>1. Types'
  BY DEF Types, Stages, AtTable
<1>2. SessionOK'
  BY DEF Types, SessionOK
<1>3. LastTable' /\ PaidIsHeld' /\ TicksAreHeld'
  BY DEF LastTable, PaidIsHeld, TicksAreHeld, AtTable
<1>4. PaidStaysPaid' /\ TickKept'
  BY DEF PaidStaysPaid, TickKept
<1> QED BY <1>1, <1>2, <1>3, <1>4

LEMMA FetchStep == ASSUME IInv, NEW t \in Tables, Fetch(t) PROVE IInv'
<1>1. UNCHANGED <<active, google, database, marks>> /\ sync.at = "choosing" /\ t \in sync.todo
  BY DEF Fetch
<1>2. CASE sync' = [sync EXCEPT !.at = "merging", !.todo = @ \ {t}, !.table = t, !.got = listing[t]]
  <2>1. sync' = [at |-> "merging", todo |-> sync.todo \ {t}, table |-> t, got |-> listing[t],
                 stock |-> sync.stock, loaded |-> sync.loaded, paid |-> sync.paid,
                 was |-> sync.was, manual |-> sync.manual]
    BY <1>2 DEF IInv, Types
  <2> USE <1>1, <2>1 DEF IInv, google, database, marks, Sole
  <2>2. Types'
    BY DEF Types, Stages, AtTable
  <2>3. SessionOK'
    BY DEF SessionOK
  <2>4. Sole => sync.loaded = {} /\ sync.todo = {t}
    BY DEF Types, LastTable
  <2>5. LastTable' /\ PaidIsHeld' /\ TicksAreHeld'
    BY <2>4 DEF LastTable, PaidIsHeld, TicksAreHeld
  <2>6. PaidStaysPaid' /\ TickKept'
    BY DEF PaidStaysPaid, TickKept
  <2> QED BY <2>2, <2>3, <2>5, <2>6
<1>3. CASE sync' = [sync EXCEPT !.todo = @ \ {t}]
  <2>1. sync' = [at |-> "choosing", todo |-> sync.todo \ {t}, table |-> sync.table, got |-> sync.got,
                 stock |-> sync.stock, loaded |-> sync.loaded, paid |-> sync.paid,
                 was |-> sync.was, manual |-> sync.manual]
    BY <1>1, <1>3 DEF IInv, Types
  <2> USE <1>1, <2>1 DEF IInv, google, database, marks, Sole
  <2>2. Types'
    BY DEF Types, Stages, AtTable
  <2>3. SessionOK'
    BY DEF SessionOK
  <2>4. LastTable' /\ PaidIsHeld' /\ TicksAreHeld'
    BY DEF LastTable, PaidIsHeld, TicksAreHeld, AtTable
  <2>5. PaidStaysPaid' /\ TickKept'
    BY DEF PaidStaysPaid, TickKept
  <2> QED BY <2>2, <2>3, <2>4, <2>5
<1> QED BY <1>2, <1>3 DEF Fetch

LEMMA MergeStep == ASSUME IInv, Merge PROVE IInv'
<1> DEFINE fresh == existing \ sync.loaded
<1>1. sync' = [at |-> "reading", todo |-> sync.todo, table |-> sync.table, got |-> sync.got,
               stock |-> Merged(stock, sync.got), loaded |-> existing,
               paid |-> sync.paid \cup (paid \cap fresh), was |-> sync.was \cup (manual \cap fresh),
               manual |-> sync.manual \cup (manual \cap fresh)]
  BY DEF Merge, Load, IInv, Types
<1>2. /\ UNCHANGED <<active, google, database, ticks, twice>>
      /\ sync.at = "merging"
  BY DEF Merge
<1> USE <1>1, <1>2 DEF IInv, google, database, Sole
<1>3. Types'
  BY DEF Types, Stages, AtTable
<1>4. SessionOK'
  BY DEF Types, SessionOK
<1>5. LastTable' /\ TicksAreHeld'
  BY DEF LastTable, TicksAreHeld, AtTable
<1>6. PaidIsHeld'
  <2> SUFFICES ASSUME Sole, NEW a \in paid \ twice
               PROVE  /\ a \in sync'.paid => a \in sync'.manual
                      /\ a \in existing \ sync'.paid => a \notin sync'.was
    BY DEF PaidIsHeld
  <2>1. a \in manual
    BY DEF PaidStaysPaid
  <2>2. a \in sync.paid => a \in sync.manual
    BY DEF PaidIsHeld
  <2>3. a \in sync.loaded \ sync.paid => a \notin sync.was
    BY DEF PaidIsHeld
  <2> QED BY <2>1, <2>2, <2>3
<1>7. PaidStaysPaid' /\ TickKept'
  BY DEF PaidStaysPaid, TickKept
<1> QED BY <1>3, <1>4, <1>5, <1>6, <1>7

LEMMA ReadBoxesStep == ASSUME IInv, ReadBoxes PROVE IInv'
<1> DEFINE read == (shown[sync.table] \cap sync.loaded) \ sync.paid
           held == (sync.manual \ read) \cup (read \cap ticked[sync.table])
<1>1. sync' = [at |-> "writing", todo |-> sync.todo, table |-> sync.table, got |-> sync.got,
               stock |-> sync.stock, loaded |-> sync.loaded, paid |-> sync.paid,
               was |-> sync.was, manual |-> held]
  BY DEF ReadBoxes, IInv, Types
<1>2. /\ UNCHANGED <<active, google, database, marks>>
      /\ sync.at = "reading"
  BY DEF ReadBoxes
<1> USE <1>1, <1>2 DEF IInv, google, database, marks, Sole
<1>3. Types'
  BY DEF Types, Stages, AtTable
<1>4. SessionOK'
  BY DEF SessionOK
<1>5. LastTable'
  BY DEF LastTable, AtTable
<1>6. PaidIsHeld'
  BY DEF PaidIsHeld
<1>7. TicksAreHeld'
  <2> SUFFICES ASSUME Sole, NEW a \in ticks[sync.table] \ twice
               PROVE  a \in held
    BY DEF TicksAreHeld
  <2>1. sync.table \in Tables
    BY DEF Types, AtTable
  <2>2. a \in ticked[sync.table] /\ a \in shown[sync.table] /\ a \in sync.loaded
    BY <2>1 DEF TickKept, SessionOK
  <2>3. a \in sync.paid => a \in sync.manual
    BY DEF PaidIsHeld, SessionOK
  <2> QED BY <2>2, <2>3
<1>8. PaidStaysPaid' /\ TickKept'
  BY DEF PaidStaysPaid, TickKept
<1> QED BY <1>3, <1>4, <1>5, <1>6, <1>7, <1>8

LEMMA WriteSheetStep == ASSUME IInv, WriteSheet PROVE IInv'
<1>1. sync' = [at |-> "saving", todo |-> sync.todo, table |-> sync.table, got |-> sync.got,
               stock |-> sync.stock, loaded |-> sync.loaded, paid |-> sync.paid,
               was |-> sync.was, manual |-> sync.manual]
  BY DEF WriteSheet, IInv, Types
<1>2. /\ UNCHANGED <<active, database, marks>>
      /\ sync.at = "writing"
      /\ shown' = [shown EXCEPT ![sync.table] = sync.loaded]
      /\ ticked' = [ticked EXCEPT ![sync.table] = sync.manual]
  BY DEF WriteSheet
<1>3. sync.table \in Tables
  BY <1>2 DEF IInv, Types, AtTable
<1> USE <1>1, <1>2, <1>3 DEF IInv, database, marks, Sole
<1>4. Types'
  BY DEF Types, SessionOK, Stages, AtTable
<1>5. SessionOK'
  BY DEF Types, SessionOK
<1>6. LastTable' /\ PaidIsHeld' /\ TicksAreHeld'
  BY DEF LastTable, PaidIsHeld, TicksAreHeld, AtTable
<1>7. PaidStaysPaid'
  BY DEF PaidStaysPaid
<1>8. TickKept'
  BY DEF Types, TickKept, TicksAreHeld
<1> QED BY <1>4, <1>5, <1>6, <1>7, <1>8

LEMMA SkipSheetStep == ASSUME IInv, SkipSheet PROVE IInv'
<1>1. sync' = [at |-> "saving", todo |-> sync.todo, table |-> sync.table, got |-> sync.got,
               stock |-> sync.stock, loaded |-> sync.loaded, paid |-> sync.paid,
               was |-> sync.was, manual |-> sync.manual]
  BY DEF SkipSheet, IInv, Types
<1>2. UNCHANGED <<active, google, database, marks>> /\ sync.at \in {"reading", "writing"}
  BY DEF SkipSheet
<1> USE <1>1, <1>2 DEF IInv, google, database, marks, Sole
<1>3. Types'
  BY DEF Types, Stages, AtTable
<1>4. SessionOK'
  BY DEF SessionOK
<1>5. LastTable' /\ PaidIsHeld' /\ TicksAreHeld'
  BY DEF LastTable, PaidIsHeld, TicksAreHeld, AtTable
<1>6. PaidStaysPaid' /\ TickKept'
  BY DEF PaidStaysPaid, TickKept
<1> QED BY <1>3, <1>4, <1>5, <1>6

LEMMA SaveStep == ASSUME IInv, Save PROVE IInv'
<1>1. sync' = [at |-> "choosing", todo |-> sync.todo, table |-> Nobody, got |-> <<>>, stock |-> <<>>,
               loaded |-> sync.loaded, paid |-> sync.paid, was |-> sync.manual, manual |-> sync.manual]
  BY DEF Save, IInv, Types
<1>2. /\ UNCHANGED <<active, google, existing, paid, ticks, twice>>
      /\ sync.at = "saving"
      /\ manual' = (manual \ (sync.was \ sync.manual)) \cup (sync.manual \ sync.was)
  BY DEF Save
<1> USE <1>1, <1>2 DEF IInv, google, Sole
<1>3. Types'
  BY DEF Types, SessionOK, Stages, AtTable
<1>4. SessionOK'
  BY DEF SessionOK
<1>5. LastTable' /\ TicksAreHeld'
  BY DEF LastTable, TicksAreHeld, AtTable
<1>6. PaidIsHeld'
  BY DEF PaidIsHeld, LastTable, AtTable
<1>7. PaidStaysPaid'
  <2> SUFFICES ASSUME Sole, NEW a \in paid \ twice PROVE a \in manual'
    BY DEF PaidStaysPaid
  <2>1. a \in manual
    BY DEF PaidStaysPaid
  <2>2. a \in sync.was => a \in sync.manual
    BY DEF PaidIsHeld, SessionOK
  <2> QED BY <2>1, <2>2
<1>8. TickKept'
  BY DEF TickKept
<1> QED BY <1>3, <1>4, <1>5, <1>6, <1>7, <1>8

-----------------------------------------------------------------------------
(* The surroundings.                                                       *)

LEMMA ActivateStep == ASSUME IInv, NEW t \in Tables, Activate(t) PROVE IInv'
<1> USE DEF IInv, google, database, marks, Activate
<1>1. Sole' => Sole
  BY DEF Sole
<1>2. Types'
  BY DEF Types, Stages, AtTable
<1>3. SessionOK'
  BY DEF SessionOK
<1>4. LastTable' /\ PaidIsHeld' /\ TicksAreHeld'
  BY <1>1 DEF LastTable, PaidIsHeld, TicksAreHeld, AtTable
<1>5. PaidStaysPaid' /\ TickKept'
  BY <1>1 DEF PaidStaysPaid, TickKept
<1> QED BY <1>2, <1>3, <1>4, <1>5

LEMMA ListStep == ASSUME IInv, NEW t \in Tables, NEW got \in Listings, List(t, got) PROVE IInv'
BY DEF List, Edit, IInv, google, database, Sole, Types, SessionOK, LastTable, PaidIsHeld, TicksAreHeld,
       PaidStaysPaid, TickKept, AtTable

LEMMA TickStep == ASSUME IInv, NEW t \in Tables, NEW a \in Applications, Tick(t, a) PROVE IInv'
<1>1. /\ UNCHANGED <<active, shown, database, sync, twice>>
      /\ ticked' = [ticked EXCEPT ![t] = @ \cup {a}]
      /\ ticks' = IF Overwritten(t) THEN ticks ELSE [ticks EXCEPT ![t] = @ \cup {a}]
      /\ a \in shown[t]
  BY DEF Tick
<1> USE <1>1 DEF IInv, database, Sole
<1>2. Types'
  BY DEF Types, AtTable
<1>3. SessionOK'
  BY DEF Types, SessionOK
<1>4. LastTable' /\ PaidIsHeld' /\ PaidStaysPaid'
  BY DEF LastTable, PaidIsHeld, AtTable, PaidStaysPaid
<1>5. TicksAreHeld'
  BY DEF Types, TicksAreHeld, Overwritten, AtTable
<1>6. TickKept'
  BY DEF Types, TickKept
<1> QED BY <1>2, <1>3, <1>4, <1>5, <1>6

LEMMA UntickStep == ASSUME IInv, NEW t \in Tables, NEW a \in Applications, Untick(t, a) PROVE IInv'
<1>1. /\ UNCHANGED <<active, shown, database, sync, twice>>
      /\ ticked' = [ticked EXCEPT ![t] = @ \ {a}]
      /\ ticks' = [ticks EXCEPT ![t] = @ \ {a}]
  BY DEF Untick
<1> USE <1>1 DEF IInv, database, Sole
<1>2. Types'
  BY DEF Types, AtTable
<1>3. SessionOK'
  BY DEF Types, SessionOK
<1>4. LastTable' /\ PaidIsHeld' /\ PaidStaysPaid'
  BY DEF LastTable, PaidIsHeld, AtTable, PaidStaysPaid
<1>5. TicksAreHeld'
  BY DEF Types, TicksAreHeld, AtTable
<1>6. TickKept'
  BY DEF Types, TickKept
<1> QED BY <1>2, <1>3, <1>4, <1>5, <1>6

LEMMA ApplyStep == ASSUME IInv, NEW a \in Applications, Apply(a) PROVE IInv'
<1> USE DEF Apply, IInv, google, marks, Sole
<1>1. Types'
  BY DEF Types, AtTable
<1>2. SessionOK'
  BY DEF SessionOK
<1>3. LastTable' /\ PaidIsHeld' /\ TicksAreHeld' /\ PaidStaysPaid' /\ TickKept'
  BY DEF LastTable, PaidIsHeld, TicksAreHeld, AtTable, PaidStaysPaid, TickKept
<1> QED BY <1>1, <1>2, <1>3

LEMMA PayOutStep == ASSUME IInv, NEW a \in Applications, PayOut(a) PROVE IInv'
<1>1. /\ UNCHANGED <<active, google, existing, sync, ticks>>
      /\ a \in existing \ paid
      /\ paid' = paid \cup {a} /\ manual' = manual \cup {a}
      /\ twice' = IF a \in manual \cup sync.manual THEN twice \cup {a} ELSE twice
  BY DEF PayOut
<1> USE <1>1 DEF IInv, google, Sole
<1>2. Types'
  BY DEF Types, AtTable
<1>3. SessionOK'
  BY DEF SessionOK
<1>4. LastTable'
  BY DEF LastTable, AtTable
<1>5. PaidIsHeld'
  <2> SUFFICES ASSUME Sole, NEW b \in paid' \ twice'
               PROVE  /\ b \in sync.paid => b \in sync.manual
                      /\ b \in sync.loaded \ sync.paid =>
                            b \notin sync.was \/ (sync.at = "choosing" /\ sync.todo = {} /\ sync.manual = sync.was)
    BY DEF PaidIsHeld
  <2>1. CASE b = a
    BY <2>1 DEF SessionOK
  <2>2. CASE b # a
    BY <2>2 DEF PaidIsHeld
  <2> QED BY <2>1, <2>2
<1>6. TicksAreHeld' /\ PaidStaysPaid' /\ TickKept'
  BY DEF TicksAreHeld, PaidStaysPaid, TickKept
<1> QED BY <1>2, <1>3, <1>4, <1>5, <1>6

-----------------------------------------------------------------------------
LEMMA NextStep == IInv /\ [SheetNext]_sheetVars => IInv'
<1> SUFFICES ASSUME IInv, [SheetNext]_sheetVars PROVE IInv'
  OBVIOUS
<1>1. CASE Wake
  BY <1>1, WakeStep
<1>2. CASE Merge
  BY <1>2, MergeStep
<1>3. CASE ReadBoxes
  BY <1>3, ReadBoxesStep
<1>4. CASE WriteSheet
  BY <1>4, WriteSheetStep
<1>5. CASE SkipSheet
  BY <1>5, SkipSheetStep
<1>6. CASE Save
  BY <1>6, SaveStep
<1>7. CASE Sleep \/ Break
  BY <1>7, IdleStep DEF Sleep, Break
<1>8. ASSUME NEW t \in Tables, Fetch(t) PROVE IInv'
  BY <1>8, FetchStep
<1>9. ASSUME NEW t \in Tables, Activate(t) PROVE IInv'
  BY <1>9, ActivateStep
<1>10. ASSUME NEW t \in Tables, NEW got \in Listings, List(t, got) PROVE IInv'
  BY <1>10, ListStep
<1>11. ASSUME NEW t \in Tables, NEW a \in Applications, Tick(t, a) \/ Untick(t, a) PROVE IInv'
  BY <1>11, TickStep, UntickStep
<1>12. ASSUME NEW a \in Applications, Apply(a) \/ PayOut(a) PROVE IInv'
  BY <1>12, ApplyStep, PayOutStep
<1>13. CASE UNCHANGED sheetVars
  BY <1>13 DEF sheetVars, google, database, marks, IInv, Types, SessionOK, LastTable, PaidIsHeld,
               TicksAreHeld, PaidStaysPaid, TickKept, AtTable, Sole
<1> QED
  BY <1>1, <1>2, <1>3, <1>4, <1>5, <1>6, <1>7, <1>8, <1>9, <1>10, <1>11, <1>12, <1>13
  DEF SheetNext, Synchronize, Use

\* The strengthening holds of every set of tables and applications.
THEOREM Invariant == SheetSpec => []IInv
BY InitInv, NextStep, PTL DEF SheetSpec

\* google_sheets.py:193-213: a payout's mark survives the iteration it falls into.
THEOREM SettledStaysSettled == SheetSpec => []PaidStaysPaid
BY Invariant, PTL DEF IInv

\* google_sheets.py:216-349: the rewritten sheet has the ticks that were there.
THEOREM TicksSurvive == SheetSpec => []TickKept
BY Invariant, PTL DEF IInv

-----------------------------------------------------------------------------
(* The articles.                                                           *)

Lines == [nm_id : Articles, in_stock : BOOLEAN]
ArticleRows == [nm_id : Articles, in_stock : BOOLEAN, is_deleted : BOOLEAN]
New(line) == [nm_id |-> line.nm_id, in_stock |-> line.in_stock, is_deleted |-> FALSE]
Line(row) == [nm_id |-> row.nm_id, in_stock |-> row.in_stock]

\* A set of numbers has a least one: induction, as a fact about sets.
LEMMA LeastNumber ==
    ASSUME NEW S \in SUBSET Nat, S # {}
    PROVE  \E n \in S : \A m \in S : n <= m
<1>1. PICK n \in S : \A m \in S : ~ (<<m, n>> \in OpToRel(<, Nat))
  BY NatLessThanWellFounded, WFMin
<1>2. \A m \in S : ~ (m < n)
  BY <1>1 DEF OpToRel
<1> QED BY <1>2

\* The rows for the first k lines.
Step(rows, got, f, k) ==
    IF k = 0 THEN <<>>
    ELSE IF got[k].nm_id \in Listed(rows) THEN f[k - 1]
    ELSE Append(f[k - 1], New(got[k]))

\* The recursion of Created has a solution.
LEMMA CreatedExists ==
    ASSUME NEW rows, NEW got, Len(got) \in Nat
    PROVE  \E f : f = [k \in 0 .. Len(got) |-> Step(rows, got, f, k)]
<1> DEFINE Solved(n) == \E f : f = [k \in 0 .. n |-> Step(rows, got, f, k)]
<1> DEFINE Unsolved == {n \in Nat : ~ Solved(n)}
<1>1. SUFFICES Unsolved = {}
  BY <1>1
<1>2. SUFFICES ASSUME Unsolved # {} PROVE FALSE
  OBVIOUS
<1>3. PICK n \in Unsolved : \A m \in Unsolved : n <= m
  BY <1>2, LeastNumber
<1>4. n # 0
  <2> DEFINE f == [k \in 0 .. 0 |-> <<>>]
  <2>1. f = [k \in 0 .. 0 |-> Step(rows, got, f, k)]
    BY DEF Step
  <2>2. Solved(0)
    BY <2>1
  <2> QED BY <1>3, <2>2
<1>5. n - 1 \in Nat /\ Solved(n - 1)
  BY <1>3, <1>4
<1>6. PICK f : f = [k \in 0 .. n - 1 |-> Step(rows, got, f, k)]
  BY <1>5
<1> DEFINE g == [k \in 0 .. n |-> IF k = n THEN Step(rows, got, f, n) ELSE f[k]]
<1>7. \A k \in 0 .. n : g[k] = Step(rows, got, g, k)
  <2> TAKE k \in 0 .. n
  <2>1. k = 0 \/ (k - 1 \in 0 .. n - 1 /\ g[k - 1] = f[k - 1])
    BY <1>3
  <2>2. Step(rows, got, g, k) = Step(rows, got, f, k)
    BY <2>1 DEF Step
  <2>3. CASE k = n
    BY <2>2, <2>3
  <2>4. CASE k # n
    <3>1. k \in 0 .. n - 1
      BY <1>3, <2>4
    <3>2. g[k] = f[k] /\ f[k] = Step(rows, got, f, k)
      BY <1>6, <3>1, <2>4
    <3> QED BY <3>2, <2>2
  <2> QED BY <2>3, <2>4
<1>8. g = [k \in 0 .. n |-> Step(rows, got, g, k)]
  BY <1>7
<1>9. Solved(n)
  BY <1>8
<1> QED BY <1>3, <1>9

\* What has been created after k lines: a row for each line without one, and
\* nothing else.
SoFar(rows, got, s, k) ==
    /\ s \in Seq(ArticleRows)
    /\ \A i \in 1 .. Len(s) : \E j \in 1 .. k : got[j].nm_id \notin Listed(rows) /\ s[i] = New(got[j])
    /\ \A j \in 1 .. k : got[j].nm_id \notin Listed(rows) => \E i \in 1 .. Len(s) : s[i] = New(got[j])
    /\ ~Repeats(got) => \A i, j \in 1 .. Len(s) : s[i].nm_id = s[j].nm_id => i = j

LEMMA SoFarStep ==
    ASSUME NEW rows, NEW got \in Seq(Lines), NEW k \in 1 .. Len(got), NEW s, SoFar(rows, got, s, k - 1)
    PROVE  SoFar(rows, got, IF got[k].nm_id \in Listed(rows) THEN s ELSE Append(s, New(got[k])), k)
<1>1. got[k] \in Lines /\ New(got[k]) \in ArticleRows
  <2>1. got[k] \in Lines
    BY ElementOfSeq
  <2> QED BY <2>1 DEF Lines, ArticleRows, New
<1>2. Len(got) \in Nat /\ DOMAIN got = 1 .. Len(got)
  OBVIOUS
<1>3. k - 1 \in Nat /\ \A j \in 1 .. k : j = k \/ j \in 1 .. k - 1
  BY <1>2
<1>4. CASE got[k].nm_id \in Listed(rows)
  BY <1>3, <1>4 DEF SoFar
<1>5. CASE got[k].nm_id \notin Listed(rows)
  <2> DEFINE t == Append(s, New(got[k]))
  <2>1. s \in Seq(ArticleRows)
    BY DEF SoFar
  <2>2. /\ t \in Seq(ArticleRows) /\ Len(t) = Len(s) + 1 /\ t[Len(s) + 1] = New(got[k])
        /\ \A i \in 1 .. Len(s) : t[i] = s[i]
    BY <1>1, <2>1, AppendProperties
  <2>3. Len(s) \in Nat /\ \A i \in 1 .. Len(t) : i \in 1 .. Len(s) \/ i = Len(s) + 1
    BY <2>1, <2>2
  <2> HIDE DEF t
  <2>4. \A i \in 1 .. Len(t) : \E j \in 1 .. k : got[j].nm_id \notin Listed(rows) /\ t[i] = New(got[j])
    <3> TAKE i \in 1 .. Len(t)
    <3>1. CASE i \in 1 .. Len(s)
      BY <1>3, <2>2, <3>1 DEF SoFar
    <3>2. CASE i = Len(s) + 1
      BY <1>5, <2>2, <3>2
    <3> QED BY <2>3, <3>1, <3>2
  <2>5. \A j \in 1 .. k : got[j].nm_id \notin Listed(rows) => \E i \in 1 .. Len(t) : t[i] = New(got[j])
    <3> SUFFICES ASSUME NEW j \in 1 .. k, got[j].nm_id \notin Listed(rows)
                 PROVE  \E i \in 1 .. Len(t) : t[i] = New(got[j])
      OBVIOUS
    <3>1. CASE j = k
      BY <2>2, <2>3, <3>1
    <3>2. CASE j \in 1 .. k - 1
      BY <2>2, <2>3, <3>2 DEF SoFar
    <3> QED BY <1>3, <3>1, <3>2
  <2>6. ASSUME ~Repeats(got), NEW i \in 1 .. Len(s) PROVE s[i].nm_id # got[k].nm_id
    <3>1. PICK j \in 1 .. k - 1 : s[i] = New(got[j])
      BY DEF SoFar
    <3>2. j # k /\ j \in DOMAIN got /\ k \in DOMAIN got
      BY <1>2
    <3>3. got[j].nm_id # got[k].nm_id
      BY <2>6, <3>2 DEF Repeats
    <3> QED BY <3>1, <3>3 DEF New
  <2>7. ASSUME ~Repeats(got), NEW i \in 1 .. Len(t), NEW j \in 1 .. Len(t), t[i].nm_id = t[j].nm_id
        PROVE  i = j
    <3>1. t[Len(s) + 1].nm_id = got[k].nm_id
      BY <2>2 DEF New
    <3>2. CASE i \in 1 .. Len(s) /\ j \in 1 .. Len(s)
      BY <2>2, <2>7, <3>2 DEF SoFar
    <3>3. CASE i = Len(s) + 1 \/ j = Len(s) + 1
      BY <2>2, <2>3, <2>6, <2>7, <3>1, <3>3
    <3> QED BY <2>3, <3>2, <3>3
  <2> QED BY <1>5, <2>2, <2>4, <2>5, <2>7 DEF SoFar, t
<1> QED BY <1>4, <1>5

LEMMA CreatedRows ==
    ASSUME NEW rows, NEW got \in Seq(Lines)
    PROVE  SoFar(rows, got, Created(rows, got), Len(got))
<1> DEFINE F == CHOOSE f : f = [k \in 0 .. Len(got) |-> Step(rows, got, f, k)]
<1>1. Created(rows, got) = F[Len(got)]
  BY DEF Created, Step, New
<1>2. Len(got) \in Nat
  OBVIOUS
<1>3. F = [k \in 0 .. Len(got) |-> Step(rows, got, F, k)]
  BY <1>2, CreatedExists
<1> HIDE DEF F
<1> DEFINE Wrong == {k \in 0 .. Len(got) : ~ SoFar(rows, got, F[k], k)}
<1>4. ASSUME Wrong # {} PROVE FALSE
  <2>1. PICK k \in Wrong : \A m \in Wrong : k <= m
    <3>1. Wrong \subseteq Nat
      BY <1>2
    <3> QED BY ONLY <3>1, <1>4, LeastNumber
  <2>2. CASE k = 0
    <3>1. F[0] = <<>>
      BY <1>2, <1>3 DEF Step
    <3>2. <<>> \in Seq(ArticleRows) /\ Len(<<>>) = 0 /\ 1 .. 0 = {}
      OBVIOUS
    <3>3. SoFar(rows, got, <<>>, 0)
      BY <3>2 DEF SoFar
    <3> QED BY <2>1, <2>2, <3>1, <3>3
  <2>3. CASE k # 0
    <3>1. k \in 1 .. Len(got) /\ k - 1 \in 0 .. Len(got)
      BY <1>2, <2>1, <2>3
    <3>2. SoFar(rows, got, F[k - 1], k - 1)
      BY <2>1, <3>1
    <3>3. F[k] = IF got[k].nm_id \in Listed(rows) THEN F[k - 1] ELSE Append(F[k - 1], New(got[k]))
      <4>1. k \in 0 .. Len(got) /\ k # 0
        BY <1>2, <3>1
      <4> QED BY <1>3, <4>1 DEF Step
    <3> QED BY <2>1, <3>1, <3>2, <3>3, SoFarStep
  <2> QED BY <2>2, <2>3
<1> QED BY <1>1, <1>2, <1>4

LEMMA UpdateIsNew ==
    ASSUME NEW row \in ArticleRows, NEW line \in Lines, line.nm_id = row.nm_id
    PROVE  [row EXCEPT !.in_stock = line.in_stock, !.is_deleted = FALSE] = New(line)
<1> DEFINE new == [row EXCEPT !.in_stock = line.in_stock, !.is_deleted = FALSE]
<1>1. new \in ArticleRows /\ new.nm_id = row.nm_id /\ new.in_stock = line.in_stock /\ new.is_deleted = FALSE
  BY DEF ArticleRows, Lines
<1> HIDE DEF new
<1>2. new = [nm_id |-> new.nm_id, in_stock |-> new.in_stock, is_deleted |-> new.is_deleted]
  BY <1>1 DEF ArticleRows
<1> QED BY <1>1, <1>2 DEF New, new

\* An article that has one row: the row is found, and updated by its line.
Latest(got, nm_id) == CHOOSE k \in DOMAIN got : /\ got[k].nm_id = nm_id
                          /\ \A j \in DOMAIN got : got[j].nm_id = nm_id => j <= k

Updated(rows, got, i) ==
    IF i = Row(rows, rows[i].nm_id)
      THEN IF rows[i].nm_id \in Listed(got)
             THEN [rows[i] EXCEPT !.in_stock = got[Latest(got, rows[i].nm_id)].in_stock, !.is_deleted = FALSE]
             ELSE [rows[i] EXCEPT !.is_deleted = TRUE]
      ELSE rows[i]

LEMMA MergedIs ==
    ASSUME NEW rows, NEW got
    PROVE  Merged(rows, got) = [i \in DOMAIN rows |-> Updated(rows, got, i)] \o Created(rows, got)
BY DEF Merged, Updated, Latest

LEMMA UpdatedRow ==
    ASSUME NEW rows \in Seq(ArticleRows), NEW got \in Seq(Lines), ~Repeats(rows), ~Repeats(got),
           NEW i \in DOMAIN rows
    PROVE  LET row == Updated(rows, got, i)
           IN  /\ row \in ArticleRows /\ row.nm_id = rows[i].nm_id
               /\ \A k \in DOMAIN got : got[k].nm_id = rows[i].nm_id => row = New(got[k])
               /\ row.nm_id \notin Listed(got) => row.is_deleted
<1>1. rows[i] \in ArticleRows /\ DOMAIN rows = 1 .. Len(rows) /\ Len(rows) \in Nat
      /\ DOMAIN got = 1 .. Len(got) /\ Len(got) \in Nat
  BY ElementOfSeq, LenProperties
<1>2. Row(rows, rows[i].nm_id) = i
  <2>1. \A j \in DOMAIN rows : rows[j].nm_id = rows[i].nm_id => j = i
    BY DEF Repeats
  <2>2. \A j \in DOMAIN rows : rows[j].nm_id = rows[i].nm_id => j <= i
    BY <1>1, <2>1
  <2> QED BY <2>1, <2>2 DEF Row
<1>3. CASE rows[i].nm_id \notin Listed(got)
  <2>1. \A k \in DOMAIN got : got[k].nm_id # rows[i].nm_id
    BY <1>3 DEF Listed
  <2>2. Updated(rows, got, i) = [rows[i] EXCEPT !.is_deleted = TRUE]
    BY <1>2, <1>3 DEF Updated
  <2>3. [rows[i] EXCEPT !.is_deleted = TRUE] \in ArticleRows
        /\ [rows[i] EXCEPT !.is_deleted = TRUE].nm_id = rows[i].nm_id
        /\ [rows[i] EXCEPT !.is_deleted = TRUE].is_deleted
    BY <1>1 DEF ArticleRows
  <2> QED BY <2>1, <2>2, <2>3
<1>4. CASE rows[i].nm_id \in Listed(got)
  <2>1. PICK k \in DOMAIN got : got[k].nm_id = rows[i].nm_id
    BY <1>4 DEF Listed
  <2>2. \A j \in DOMAIN got : got[j].nm_id = rows[i].nm_id => j = k
    BY <2>1 DEF Repeats
  <2>3. \A j \in DOMAIN got : got[j].nm_id = rows[i].nm_id => j <= k
    BY <1>1, <2>1, <2>2
  <2>4. Latest(got, rows[i].nm_id) = k
    BY <2>1, <2>2, <2>3 DEF Latest
  <2>5. got[k] \in Lines
    BY ElementOfSeq, <1>1
  <2>6. [rows[i] EXCEPT !.in_stock = got[k].in_stock, !.is_deleted = FALSE] = New(got[k])
    BY <1>1, <2>1, <2>5, UpdateIsNew
  <2>7. New(got[k]) \in ArticleRows /\ New(got[k]).nm_id = rows[i].nm_id
    BY <2>1, <2>5 DEF ArticleRows, Lines, New
  <2>8. Updated(rows, got, i) = New(got[k])
    BY <1>2, <1>4, <2>4, <2>6 DEF Updated
  <2> QED BY <1>4, <2>2, <2>7, <2>8
<1> QED BY <1>3, <1>4

\* What is offered after a merge is what was listed, one row for each article.
OfferedIn(rows) == {Line(rows[i]) : i \in {j \in DOMAIN rows : ~rows[j].is_deleted}}
LinesOf(got) == {got[k] : k \in DOMAIN got}

LEMMA MergedMirrors ==
    ASSUME NEW rows \in Seq(ArticleRows), NEW got \in Seq(Lines), ~Repeats(rows), ~Repeats(got)
    PROVE  /\ Merged(rows, got) \in Seq(ArticleRows)
           /\ ~Repeats(Merged(rows, got))
           /\ OfferedIn(Merged(rows, got)) = LinesOf(got)
<1> DEFINE old == [i \in DOMAIN rows |-> Updated(rows, got, i)]
           new == Created(rows, got)
           n == Len(rows)
           all == old \o new
<1>1. Merged(rows, got) = all
  BY MergedIs
<1>2. n \in Nat /\ DOMAIN rows = 1 .. n /\ DOMAIN got = 1 .. Len(got) /\ Len(got) \in Nat
  BY LenProperties
<1>3. /\ \A i \in 1 .. n : old[i] \in ArticleRows /\ old[i].nm_id = rows[i].nm_id
      /\ \A i \in 1 .. n, k \in DOMAIN got : got[k].nm_id = rows[i].nm_id => old[i] = New(got[k])
      /\ \A i \in 1 .. n : rows[i].nm_id \notin Listed(got) => old[i].is_deleted
  BY <1>2, UpdatedRow
<1>4. old \in Seq(ArticleRows) /\ Len(old) = n
  <2>1. old \in [1 .. n -> ArticleRows]
    BY <1>2, <1>3
  <2> QED BY <1>2, <2>1
<1>5. SoFar(rows, got, new, Len(got))
  BY CreatedRows
<1> HIDE DEF old, new
<1>6. new \in Seq(ArticleRows) /\ Len(new) \in Nat
  BY <1>5 DEF SoFar
<1>7. /\ all \in Seq(ArticleRows) /\ Len(all) = n + Len(new)
      /\ DOMAIN all = 1 .. n + Len(new)
      /\ \A i \in 1 .. n : all[i] = old[i]
      /\ \A i \in 1 .. Len(new) : n + i \in DOMAIN all /\ all[n + i] = new[i]
  <2>1. /\ all \in Seq(ArticleRows) /\ Len(all) = n + Len(new)
        /\ \A i \in 1 .. n + Len(new) : all[i] = IF i <= n THEN old[i] ELSE new[i - n]
    <3>1. /\ all \in Seq(ArticleRows) /\ Len(all) = Len(old) + Len(new)
          /\ \A i \in 1 .. Len(old) + Len(new) : all[i] = IF i <= Len(old) THEN old[i] ELSE new[i - Len(old)]
      BY <1>4, <1>6, ConcatProperties
    <3> HIDE DEF all, n
    <3> QED BY <1>4, <3>1
  <2>2. DOMAIN all = 1 .. n + Len(new)
    BY <2>1, LenProperties
  <2> HIDE DEF all
  <2>3. \A i \in 1 .. n : i \in 1 .. n + Len(new) /\ i <= n
    BY <1>2, <1>6
  <2>4. \A i \in 1 .. Len(new) : n + i \in 1 .. n + Len(new) /\ ~(n + i <= n) /\ (n + i) - n = i
    BY <1>2, <1>6
  <2> QED BY <2>1, <2>2, <2>3, <2>4
<1> HIDE DEF all
<1>8. ASSUME NEW i \in DOMAIN all PROVE i \in 1 .. n \/ \E j \in 1 .. Len(new) : i = n + j
  <2>1. i \in 1 .. n + Len(new)
    BY <1>7
  <2>2. CASE i > n
    <3>1. i - n \in 1 .. Len(new) /\ i = n + (i - n)
      BY <1>2, <1>6, <2>1, <2>2
    <3> QED BY <3>1
  <2> QED BY <1>2, <2>1, <2>2
\* Every created row is for a line without an earlier row.
<1>9. \A i \in 1 .. Len(new) : \E k \in DOMAIN got : got[k].nm_id \notin Listed(rows) /\ new[i] = New(got[k])
  BY <1>2, <1>5 DEF SoFar
<1>10. ~Repeats(all)
  <2> SUFFICES ASSUME NEW i \in DOMAIN all, NEW j \in DOMAIN all, all[i].nm_id = all[j].nm_id
               PROVE  i = j
    BY DEF Repeats
  <2>1. CASE i \in 1 .. n /\ j \in 1 .. n
    BY <1>2, <1>3, <1>7, <2>1 DEF Repeats
  <2>2. ASSUME NEW a \in 1 .. n, NEW b \in 1 .. Len(new) PROVE all[a].nm_id # all[n + b].nm_id
    <3>1. all[a].nm_id \in Listed(rows)
      BY <1>2, <1>3, <1>7 DEF Listed
    <3>2. all[n + b].nm_id \notin Listed(rows)
      <4>1. PICK k \in DOMAIN got : got[k].nm_id \notin Listed(rows) /\ new[b] = New(got[k])
        BY <1>9
      <4>2. all[n + b] = New(got[k])
        BY <1>7, <4>1
      <4> QED BY <4>1, <4>2 DEF New
    <3> QED BY <3>1, <3>2
  <2>3. ASSUME NEW a \in 1 .. Len(new), NEW b \in 1 .. Len(new), i = n + a, j = n + b PROVE i = j
    <3>1. all[n + a] = new[a] /\ all[n + b] = new[b]
      BY <1>7
    <3>2. new[a].nm_id = new[b].nm_id => a = b
      BY <1>5 DEF SoFar
    <3> QED BY <2>3, <3>1, <3>2
  <2> QED BY <1>8, <2>1, <2>2, <2>3
<1>11. ASSUME NEW k \in DOMAIN got PROVE got[k] \in OfferedIn(all)
  <2>1. got[k] \in Lines
    BY <1>2, ElementOfSeq
  <2>2. Line(New(got[k])) = got[k] /\ ~New(got[k]).is_deleted
    BY <2>1 DEF Lines, Line, New
  <2>3. \E i \in DOMAIN all : all[i] = New(got[k])
    <3>1. CASE got[k].nm_id \in Listed(rows)
      <4>1. PICK i \in 1 .. n : rows[i].nm_id = got[k].nm_id
        BY <1>2, <3>1 DEF Listed
      <4>2. i \in DOMAIN all
        BY <1>2, <1>6, <1>7
      <4> QED BY <1>3, <1>7, <4>1, <4>2
    <3>2. CASE got[k].nm_id \notin Listed(rows)
      <4>1. PICK i \in 1 .. Len(new) : new[i] = New(got[k])
        BY <1>2, <1>5, <3>2 DEF SoFar
      <4> QED BY <1>7, <4>1
    <3> QED BY <3>1, <3>2
  <2> QED BY <2>2, <2>3 DEF OfferedIn
<1>12. ASSUME NEW i \in DOMAIN all, ~all[i].is_deleted PROVE Line(all[i]) \in {got[k] : k \in DOMAIN got}
  <2>1. \E k \in DOMAIN got : all[i] = New(got[k])
    <3>1. CASE i \in 1 .. n
      <4>1. rows[i].nm_id \in Listed(got)
        BY <1>3, <1>7, <1>12, <3>1
      <4> QED BY <1>3, <1>7, <3>1, <4>1 DEF Listed
    <3>2. ASSUME NEW j \in 1 .. Len(new), i = n + j PROVE \E k \in DOMAIN got : all[i] = New(got[k])
      BY <1>7, <1>9, <3>2
    <3> QED BY <1>8, <3>1, <3>2
  <2>2. PICK k \in DOMAIN got : all[i] = New(got[k])
    BY <2>1
  <2>3. got[k] \in Lines
    BY <1>2, ElementOfSeq
  <2>4. Line(New(got[k])) = got[k]
    BY <2>3 DEF Lines, Line, New
  <2> QED BY <2>2, <2>4
<1>13. OfferedIn(all) = {got[k] : k \in DOMAIN got}
  BY <1>11, <1>12 DEF OfferedIn
<1> QED BY <1>1, <1>7, <1>10, <1>13 DEF LinesOf

-----------------------------------------------------------------------------
(* The articles agree with the table.                                      *)

\* The session has merged what it fetched into the articles as they still are, and
\* the listing of a table that is mirrored was not edited since it was fetched.
Agrees == Sole /\ ~repeated => \A t \in mirrored : OfferedIn(stock) = LinesOf(listing[t])

MirrorInv ==
    /\ listing \in [Tables -> Seq(Lines)]
    /\ mirrored \subseteq active
    /\ AtTable => /\ sync.got \in Seq(Lines)
                  /\ sync.table \in mirrored => sync.got = listing[sync.table]
    /\ ~repeated =>
          /\ stock \in Seq(ArticleRows) /\ ~Repeats(stock)
          /\ sync.at \in {"reading", "writing", "saving"} =>
                ~Repeats(sync.got) /\ sync.stock = Merged(stock, sync.got)
    /\ Agrees

LEMMA MirrorInit == SheetInit => MirrorInv
<1> SUFFICES ASSUME SheetInit PROVE MirrorInv
  OBVIOUS
<1>1. <<>> \in Seq(Lines) /\ <<>> \in Seq(ArticleRows) /\ DOMAIN <<>> = {}
  OBVIOUS
<1> QED BY <1>1 DEF SheetInit, MirrorInv, Idle, AtTable, Agrees, Repeats

\* Steps of others, and those that leave the session and the articles alone.
LEMMA MirrorKept ==
    ASSUME MirrorInv, Types, active \subseteq active', UNCHANGED <<listing, stock, mirrored, repeated>>,
           \/ UNCHANGED sync
           \/ sync'.at \in {"asleep", "choosing"}
           \/ /\ AtTable /\ sync'.at \in {"reading", "writing", "saving"} /\ sync.at # "merging"
              /\ sync'.table = sync.table /\ sync'.got = sync.got /\ sync'.stock = sync.stock
    PROVE  MirrorInv'
<1>1. Agrees'
  BY DEF MirrorInv, Agrees, Sole
<1>2. (AtTable => /\ sync.got \in Seq(Lines)
                  /\ sync.table \in mirrored => sync.got = listing[sync.table])'
  BY DEF MirrorInv, AtTable
<1>3. (~repeated =>
          /\ stock \in Seq(ArticleRows) /\ ~Repeats(stock)
          /\ sync.at \in {"reading", "writing", "saving"} =>
                ~Repeats(sync.got) /\ sync.stock = Merged(stock, sync.got))'
  <2> HIDE DEF Repeats, Merged
  <2> QED BY DEF MirrorInv, AtTable
<1> QED BY <1>1, <1>2, <1>3 DEF MirrorInv

LEMMA MirrorStep ==
    ASSUME Listings \subseteq Seq(Lines), IInv, MirrorInv, SheetNext
    PROVE  MirrorInv'
<1> USE DEF IInv, google, database, marks
<1>1. CASE Wake
  BY <1>1, MirrorKept DEF Wake, Idle
<1>2. ASSUME NEW t \in Tables, Fetch(t) PROVE MirrorInv'
  <2>1. CASE sync' = [sync EXCEPT !.todo = @ \ {t}]
    <3>1. sync'.at = "choosing"
      BY <1>2, <2>1 DEF Fetch, Types
    <3> QED BY <1>2, <3>1, MirrorKept DEF Fetch
  <2>2. CASE sync' = [sync EXCEPT !.at = "merging", !.todo = @ \ {t}, !.table = t, !.got = listing[t]]
    <3>1. sync'.at = "merging" /\ sync'.table = t /\ sync'.got = listing[t]
      BY <2>2 DEF Types
    <3>2. UNCHANGED <<active, listing, stock, mirrored, repeated>>
      BY <1>2 DEF Fetch
    <3>3. Agrees'
      BY <3>2 DEF MirrorInv, Agrees, Sole
    <3> QED BY <3>1, <3>2, <3>3 DEF MirrorInv, AtTable
  <2> QED BY <1>2, <2>1, <2>2 DEF Fetch
<1>3. CASE Merge
  <2>1. /\ sync.at = "merging" /\ sync'.at = "reading" /\ sync'.got = sync.got /\ sync'.table = sync.table
        /\ sync'.stock = Merged(stock, sync.got)
    <3> HIDE DEF Merged
    <3> QED BY <1>3 DEF Merge, Load, Types
  <2>2. UNCHANGED <<active, listing, stock, mirrored>> /\ repeated' = (repeated \/ Repeats(sync.got))
    BY <1>3 DEF Merge
  <2>3. Agrees'
    BY <2>2 DEF MirrorInv, Agrees, Sole
  <2> QED BY <2>1, <2>2, <2>3 DEF MirrorInv, AtTable
<1>4. CASE ReadBoxes
  <2>1. sync'.at = "writing" /\ sync'.table = sync.table /\ sync'.got = sync.got /\ sync'.stock = sync.stock
    BY <1>4 DEF ReadBoxes, Types
  <2> QED BY <1>4, <2>1, MirrorKept DEF ReadBoxes, AtTable
<1>5. CASE WriteSheet
  <2>1. sync'.at = "saving" /\ sync'.table = sync.table /\ sync'.got = sync.got /\ sync'.stock = sync.stock
    BY <1>5 DEF WriteSheet, Types
  <2> QED BY <1>5, <2>1, MirrorKept DEF WriteSheet, AtTable
<1>6. CASE SkipSheet
  <2>1. sync'.at = "saving" /\ sync'.table = sync.table /\ sync'.got = sync.got /\ sync'.stock = sync.stock
    BY <1>6 DEF SkipSheet, Types
  <2> QED BY <1>6, <2>1, MirrorKept DEF SkipSheet, AtTable
<1>7. CASE Save
  <2>1. /\ sync.at = "saving" /\ AtTable /\ sync.table \in active /\ sync'.at = "choosing"
        /\ UNCHANGED <<active, listing, repeated>> /\ stock' = sync.stock
        /\ mirrored' = IF listing[sync.table] = sync.got THEN mirrored \cup {sync.table} ELSE mirrored
    BY <1>7 DEF Save, Types, AtTable
  <2>2. ASSUME ~repeated
        PROVE  /\ stock' \in Seq(ArticleRows) /\ ~Repeats(stock')
               /\ OfferedIn(stock') = LinesOf(sync.got)
    BY <2>1, <2>2, MergedMirrors DEF MirrorInv
  <2>3. ASSUME Sole, ~repeated, NEW t \in mirrored'
        PROVE  OfferedIn(stock') = LinesOf(listing[t])
    <3>1. t \in active
      BY <2>1, <2>3 DEF MirrorInv
    <3>2. t = sync.table
      BY <2>1, <2>3, <3>1 DEF Sole
    <3>3. sync.got = listing[t]
      BY <2>1, <2>3, <3>2 DEF MirrorInv
    <3> QED BY <2>2, <2>3, <3>3
  <2>4. Agrees'
    BY <2>1, <2>3 DEF Agrees, Sole
  <2> QED BY <2>1, <2>2, <2>4 DEF MirrorInv, AtTable
<1>8. CASE Sleep
  BY <1>8, MirrorKept DEF Sleep, Idle
<1>9. CASE Break
  BY <1>9, MirrorKept DEF Break, Idle
<1>10. ASSUME NEW t \in Tables, NEW got \in Listings, List(t, got) PROVE MirrorInv'
  <2>1. /\ listing' = [listing EXCEPT ![t] = got] /\ mirrored' = mirrored \ {t}
        /\ UNCHANGED <<active, stock, sync, repeated>>
    BY <1>10 DEF List
  <2>2. listing' \in [Tables -> Seq(Lines)] /\ \A u \in Tables \ {t} : listing'[u] = listing[u]
    BY <2>1 DEF MirrorInv
  <2>3. \A u \in mirrored' : u \in Tables \ {t}
    BY <2>1 DEF MirrorInv, Types
  <2>4. Agrees'
    BY <2>1, <2>2, <2>3 DEF MirrorInv, Agrees, Sole
  <2> QED BY <2>1, <2>2, <2>3, <2>4 DEF MirrorInv, AtTable
<1>11. ASSUME NEW t \in Tables, NEW a \in Applications, Tick(t, a) \/ Untick(t, a) PROVE MirrorInv'
  BY <1>11, MirrorKept DEF Tick, Untick
<1>12. ASSUME NEW a \in Applications, Apply(a) \/ PayOut(a) PROVE MirrorInv'
  BY <1>12, MirrorKept DEF Apply, PayOut
<1>13. ASSUME NEW t \in Tables, Activate(t) PROVE MirrorInv'
  BY <1>13, MirrorKept DEF Activate
<1> QED BY <1>1, <1>2, <1>3, <1>4, <1>5, <1>6, <1>7, <1>8, <1>9, <1>10, <1>11, <1>12, <1>13
       DEF SheetNext, Synchronize, Use

\* sync_cashback_tables.py:39-72: after a sync that no edit overtook, clients are
\* offered what the one table of the cabinet lists, each article once.
THEOREM StockFollowsTable ==
    ASSUME Listings \subseteq Seq(Lines)
    PROVE  SheetSpec => []ArticlesMirrored
<1>1. IInv /\ [SheetNext]_sheetVars /\ MirrorInv => MirrorInv'
  <2>1. CASE UNCHANGED sheetVars
    BY <2>1, MirrorKept DEF sheetVars, google, database, marks, IInv
  <2> QED BY <2>1, MirrorStep
<1>2. MirrorInv => ArticlesMirrored
  BY DEF MirrorInv, Agrees, ArticlesMirrored, OfferedIn, LinesOf, Offered, Line
<1> QED BY <1>1, <1>2, MirrorInit, Invariant, PTL DEF SheetSpec
=============================================================================
