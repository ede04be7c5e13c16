--------------------------- MODULE BuyerFlowProofs ---------------------------
(***************************************************************************)
(* Proofs about BuyerFlow, for any number of clients, articles, callbacks, *)
(* leads and events.                                                       *)
(*                                                                         *)
(* The strengthening says what a callback may still believe of what it has *)
(* read: an application it means to mark was ready for the step, and still *)
(* is; an order it means to mark was not charged, or again names it; and   *)
(* an insert it means to make is of something new, or the client has       *)
(* crossed.  Rows only grow and marks are never taken back, so others'     *)
(* steps leave that true.  A second strengthening, of DialogServes, stands *)
(* on the first, at the end.                                               *)
(***************************************************************************)
EXTENDS BuyerFlow, FiniteSetTheorems, WellFoundedInduction, TLAPS

Stages == {"idle", "reading", "asking", "creating", "inserting", "marking", "paying"}
Creators == {"intake", "talk", "request"}

TaskRecords ==
    [at : Stages, what : Steps \cup Creators \cup {"none"}, client : Clients \cup {Nobody},
     home : BOOLEAN, seen : SUBSET Applications, asked : SUBSET Articles,
     todo : Seq(Articles \cup Applications), lead : Nat]

\* What is true of an application that is about to be marked.
Meant(s, b) ==
    Twins(b) = {} =>
        /\ s = "order" /\ b \in charged => b \in again
        /\ s = "feedback" => b \in done["order"]
        /\ s = "labels" => b \in done["feedback"]

\* A callback's locals are right about the rows.
Asks(k) ==
    /\ k.asked \subseteq {article[b] : b \in k.seen}
    /\ \A b \in k.seen : b \in Rows /\ (article[b] \in k.asked => Meant(k.what, b))
Marks(k) ==
    /\ k.what \in Steps /\ k.seen = {}
    /\ k.todo \in Seq(Rows)
    /\ \A i \in DOMAIN k.todo : Meant(k.what, k.todo[i])

TaskOK(k) ==
    /\ k.at # "idle" => k.client \in Clients
    /\ k.at = "asking" /\ k.what \in Steps => Asks(k)
    /\ k.at \in {"creating", "inserting"} => k.what \in Creators /\ k.todo \in Seq(Articles)
    /\ k.at \in {"marking", "paying"} => Marks(k)
    /\ k.at = "inserting" => k.todo # <<>>
    /\ k.at = "paying" => k.what = "order" /\ k.todo # <<>> /\ k.lead <= InitialLeads + bought

RowsTyped == \A b \in Rows : client[b] \in Clients /\ article[b] \in Articles

\* Screens, marks and bounds, which no other part depends on.
Surface ==
    /\ canceled \subseteq Rows /\ paid \subseteq Rows
    /\ outside \in 0 .. MaxOutside
    /\ dialog \in [Clients -> Screens]
    /\ dialog_data \in [Clients -> SUBSET Fields]
    /\ engaged \in [Clients -> BOOLEAN]
    /\ disturbed \subseteq Clients

\* Who is about to insert what another has inserted, or is about to insert.
InsertsNew ==
    \A t \in Tasks : task[t].at = "inserting" =>
        (Existing(task[t].client, Wanted(t)) # {} => task[t].client \in crossed)
InsertsApart ==
    \A t, u \in Tasks :
        /\ t # u /\ task[t].at = "inserting" /\ task[u].at = "inserting"
        /\ task[t].client = task[u].client /\ Wanted(t) = Wanted(u)
        => task[t].client \in crossed

IInv ==
    /\ TypeOK
    /\ task \in [Tasks -> TaskRecords]
    /\ RowsTyped
    /\ charged \subseteq done["order"]
    /\ \A t \in Tasks : TaskOK(task[t])
    /\ InsertsNew /\ InsertsApart
    /\ OneApplication /\ StepsInOrder /\ LeadsAccounted /\ LeadOnce

-----------------------------------------------------------------------------
(* Operators.                                                              *)

\* Newest is one of the applications it is given, and none of them is newer.
LEMMA NewestIn ==
    ASSUME NEW B \in SUBSET Applications, B # {}
    PROVE  Newest(B) \in B /\ \A other \in B : other <= Newest(B)
<1> DEFINE T == {MaxApplications - b : b \in B}
<1>1. MaxApplications \in Nat /\ T \subseteq Nat /\ T # {}
  <2>1. MaxApplications \in Nat
    BY BuyerFlowAssumption
  <2>2. \A b \in B : MaxApplications - b \in Nat
    BY <2>1 DEF Applications
  <2> QED BY <2>1, <2>2
<1>2. PICK x \in T : \A y \in T : ~ (<<y, x>> \in OpToRel(<, Nat))
  <2> HIDE DEF T
  <2> QED BY ONLY <1>1, NatLessThanWellFounded, WFMin
<1>3. PICK b \in B : x = MaxApplications - b
  BY <1>2
<1>4. \A other \in B : other <= b
  <2> SUFFICES ASSUME NEW other \in B PROVE other <= b
    OBVIOUS
  <2>1. MaxApplications - other \in T /\ x \in T
    BY <1>2
  <2>2. ~ (MaxApplications - other < x)
    BY <1>1, <1>2, <2>1 DEF OpToRel
  <2> QED BY <1>1, <1>3, <2>2 DEF Applications
<1> QED BY <1>4 DEF Newest

\* The screen to resume is a screen, now and after a step.
LEMMA ResumeType ==
    ASSUME NEW B, NEW c
    PROVE  Resume(B) \in Screens /\ Resume(Active(c))' \in Screens /\ Resume(Incomplete(c))' \in Screens
BY DEF Resume, Screens, Steps

\* A list of articles is a sequence.
LEMMA ListsAreSequences ==
    ASSUME NEW S, NEW f \in Lists(S)
    PROVE  f \in Seq(S) /\ f # <<>>
<1>1. PICK n \in 1 .. MaxItems : f \in [1 .. n -> S]
  BY DEF Lists
<1>2. n \in Nat /\ n >= 1
  BY BuyerFlowAssumption
<1> QED BY <1>1, <1>2

LEMMA SingletonSequence == ASSUME NEW S, NEW x \in S PROVE <<x>> \in Seq(S)
OBVIOUS

\* A blank task is one.
LEMMA BlankOK == Blank \in TaskRecords /\ TaskOK(Blank)
BY DEF Blank, TaskRecords, TaskOK, Stages

LEMMA InitInv == Init => IInv
<1> SUFFICES ASSUME Init PROVE IInv
  OBVIOUS
<1> USE BuyerFlowAssumption DEF Init
<1>1. Rows = {}
  BY DEF Rows
<1>2. TypeOK
  <2>1. last \in 0 .. MaxApplications /\ leads \in Nat /\ bought \in Nat /\ outside \in 0 .. MaxOutside
    OBVIOUS
  <2>2. done \in [Steps -> SUBSET Rows]
    OBVIOUS
  <2>3. /\ dialog \in [Clients -> Screens] /\ dialog_data \in [Clients -> SUBSET Fields]
        /\ engaged \in [Clients -> BOOLEAN]
    BY DEF Screens
  <2>4. /\ client \in [Applications -> Clients \cup {Nobody}]
        /\ article \in [Applications -> Articles \cup {Nobody}]
    OBVIOUS
  <2> QED BY <2>1, <2>2, <2>3, <2>4 DEF TypeOK
<1>3. task \in [Tasks -> TaskRecords] /\ \A t \in Tasks : TaskOK(task[t]) /\ task[t].at = "idle"
  BY BlankOK DEF Blank
<1>4. InsertsNew /\ InsertsApart
  BY <1>3 DEF InsertsNew, InsertsApart
<1>5. LeadsAccounted
  BY FS_EmptySet DEF LeadsAccounted
<1> QED BY <1>1, <1>2, <1>3, <1>4, <1>5 DEF IInv, RowsTyped, OneApplication, StepsInOrder, LeadOnce

-----------------------------------------------------------------------------
(* Steps that touch nothing but tasks, screens and marks nobody reads.     *)

Facts == <<last, client, article, done, leads, bought, charged, twice, again, raced, crossed, uploaded>>

\* Inserts are as they were, or given up.
NoNewInsert ==
    \A t \in Tasks : task'[t].at = "inserting" =>
        /\ task[t].at = "inserting"
        /\ task'[t].client = task[t].client /\ task'[t].todo = task[t].todo

LEMMA QuietStep ==
    ASSUME IInv, UNCHANGED Facts, Surface',
           task' \in [Tasks -> TaskRecords], \A t \in Tasks : TaskOK(task'[t]),
           NoNewInsert
    PROVE  IInv'
<1> USE DEF Facts
<1>1. TypeOK'
  BY DEF IInv, TypeOK, Surface, Rows
<1>2. RowsTyped' /\ (charged \subseteq done["order"])'
  BY DEF IInv, RowsTyped, Rows
<1>3. \A t \in Tasks : TaskOK(task[t])'
  BY DEF TaskOK, Asks, Marks, Meant, Twins, Rows
<1>4. InsertsNew' /\ InsertsApart'
  BY DEF IInv, InsertsNew, InsertsApart, NoNewInsert, Existing, Wanted, Rows
<1>5. OneApplication' /\ StepsInOrder' /\ LeadOnce'
  BY DEF IInv, OneApplication, StepsInOrder, LeadOnce, Twins, Rows
<1>6. LeadsAccounted'
  BY DEF IInv, LeadsAccounted
<1> QED BY <1>1, <1>2, <1>3, <1>4, <1>5, <1>6 DEF IInv

\* One task moves on, and does not start to insert.
LEMMA OneTask ==
    ASSUME IInv, NEW t \in Tasks, NEW k \in TaskRecords, TaskOK(k), k.at # "inserting",
           task' = [task EXCEPT ![t] = k]
    PROVE  /\ task' \in [Tasks -> TaskRecords] /\ \A u \in Tasks : TaskOK(task'[u])
           /\ NoNewInsert
<1>1. task \in [Tasks -> TaskRecords] /\ \A u \in Tasks : TaskOK(task[u])
  BY DEF IInv
<1>2. task'[t] = k /\ \A u \in Tasks \ {t} : task'[u] = task[u]
  BY <1>1
<1> QED BY <1>1, <1>2 DEF NoNewInsert

\* No task moves.
LEMMA NoTask ==
    ASSUME IInv, UNCHANGED task
    PROVE  /\ task' \in [Tasks -> TaskRecords] /\ \A u \in Tasks : TaskOK(task'[u])
           /\ NoNewInsert
<1>1. task \in [Tasks -> TaskRecords] /\ \A u \in Tasks : TaskOK(task[u])
  BY DEF IInv
<1> QED BY <1>1 DEF NoNewInsert

\* A task that lost its screen is otherwise the same.
LEMMA OrphanOK ==
    ASSUME NEW k \in TaskRecords, TaskOK(k)
    PROVE  /\ [k EXCEPT !.home = FALSE] \in TaskRecords
           /\ TaskOK([k EXCEPT !.home = FALSE])
           /\ [k EXCEPT !.home = FALSE].at = k.at
           /\ [k EXCEPT !.home = FALSE].client = k.client
           /\ [k EXCEPT !.home = FALSE].todo = k.todo
<1> DEFINE new == [k EXCEPT !.home = FALSE]
<1>1. /\ new \in TaskRecords
      /\ new.at = k.at /\ new.what = k.what /\ new.client = k.client
      /\ new.seen = k.seen /\ new.asked = k.asked /\ new.todo = k.todo /\ new.lead = k.lead
  BY DEF TaskRecords
<1> HIDE DEF new
<1>2. TaskOK(new)
  BY <1>1 DEF TaskOK, Asks, Marks
<1> QED BY <1>1, <1>2 DEF new

\* All tasks of a client lose the screen, and one of them may end.
LEMMA OrphanedTasks ==
    ASSUME IInv, NEW c, \/ task' = Orphaned(c)
                        \/ \E t \in Tasks : task' = [Orphaned(c) EXCEPT ![t] = Blank]
    PROVE  /\ task' \in [Tasks -> TaskRecords] /\ \A u \in Tasks : TaskOK(task'[u])
           /\ NoNewInsert
<1>1. \A u \in Tasks : task[u] \in TaskRecords /\ TaskOK(task[u])
  BY DEF IInv
<1>2. \A u \in Tasks :
         /\ Orphaned(c)[u] \in TaskRecords /\ TaskOK(Orphaned(c)[u])
         /\ Orphaned(c)[u].at = task[u].at /\ Orphaned(c)[u].client = task[u].client
         /\ Orphaned(c)[u].todo = task[u].todo
  <2> TAKE u \in Tasks
  <2>1. CASE task[u].client = c
    <3>1. Orphaned(c)[u] = [task[u] EXCEPT !.home = FALSE]
      BY <2>1 DEF Orphaned
    <3> QED BY <1>1, <3>1, OrphanOK
  <2>2. CASE task[u].client # c
    <3>1. Orphaned(c)[u] = task[u]
      BY <2>2 DEF Orphaned
    <3> QED BY <1>1, <3>1
  <2> QED BY <2>1, <2>2
<1>3. Orphaned(c) = [u \in Tasks |-> Orphaned(c)[u]]
  BY DEF Orphaned
<1>4. \A u \in Tasks : task'[u] = Orphaned(c)[u] \/ task'[u] = Blank
  BY <1>3
<1>5. task' = [u \in Tasks |-> task'[u]]
  BY <1>3
<1>6. Blank.at = "idle"
  BY DEF Blank
<1> QED BY <1>2, <1>4, <1>5, <1>6, BlankOK DEF NoNewInsert

LEMMA SurfaceNow == IInv => Surface
BY DEF IInv, TypeOK, Surface

\* Who is noted as disturbed is a client.
LEMMA MeddleType == ASSUME IInv, NEW c \in Clients, Meddle(c) PROVE disturbed' \subseteq Clients
BY DEF Meddle, IInv, TypeOK

-----------------------------------------------------------------------------
(* The client's messages.                                                  *)

\* A handler that moves screens and orphans callbacks.
LEMMA ScreenStep ==
    ASSUME IInv, NEW c \in Clients, UNCHANGED Facts,
           UNCHANGED <<canceled, paid, outside>>, Meddle(c),
           dialog' \in [Clients -> Screens], dialog_data' \in [Clients -> SUBSET Fields],
           engaged' \in [Clients -> BOOLEAN],
           task' = Orphaned(c) \/ UNCHANGED task
    PROVE  IInv'
<1>1. Surface'
  BY MeddleType DEF Surface, Facts, IInv, TypeOK, Rows
<1> QED BY <1>1, QuietStep, OrphanedTasks, NoTask

LEMMA OpenType ==
    ASSUME IInv, NEW c \in Clients, NEW s \in Screens, Open(c, s)
    PROVE  dialog' \in [Clients -> Screens] /\ dialog_data' \in [Clients -> SUBSET Fields]
BY DEF Open, IInv, TypeOK

LEMMA CloseType ==
    ASSUME IInv, NEW c \in Clients, Close(c)
    PROVE  /\ dialog' \in [Clients -> Screens] /\ dialog_data' \in [Clients -> SUBSET Fields]
           /\ engaged' \in [Clients -> BOOLEAN]
BY DEF Close, IInv, TypeOK, Screens

LEMMA MessageStep == ASSUME IInv, NEW c \in Clients, Message(c) PROVE IInv'
<1> USE DEF rows, screens, Facts
<1>1. CASE ResumeDialog(c)
  <2>1. Resume(Incomplete(c)) \in Screens /\ Open(c, Resume(Incomplete(c)))
    BY <1>1, ResumeType DEF ResumeDialog
  <2>2. engaged' \in [Clients -> BOOLEAN]
    BY <1>1 DEF ResumeDialog, IInv, TypeOK
  <2> QED BY <1>1, <2>1, <2>2, OpenType, ScreenStep DEF ResumeDialog
<1>2. CASE Stop(c)
  BY <1>2, CloseType, ScreenStep DEF Stop
<1>3. CASE InputRequisites(c)
  <2>1. CASE Close(c) /\ task' = Orphaned(c)
    BY <1>3, <2>1, CloseType, ScreenStep DEF InputRequisites
  <2>2. CASE ~(Close(c) /\ task' = Orphaned(c))
    <3>1. PICK given \in SUBSET Fields :
             dialog_data' = [dialog_data EXCEPT ![c] = @ \cup given]
      BY <1>3, <2>2 DEF InputRequisites
    <3>2. UNCHANGED <<dialog, engaged, task>> /\ Meddle(c)
          /\ UNCHANGED <<rows, leads, outside, bought, charged, twice, again, raced, crossed, uploaded>>
      BY <1>3, <2>2 DEF InputRequisites
    <3>3. dialog_data' \in [Clients -> SUBSET Fields]
      BY <3>1 DEF IInv, TypeOK
    <3>4. dialog' \in [Clients -> Screens] /\ engaged' \in [Clients -> BOOLEAN]
      BY <3>2 DEF IInv, TypeOK
    <3> QED BY <3>2, <3>3, <3>4, ScreenStep
  <2> QED BY <2>1, <2>2
<1>4. CASE ConfirmRequisites(c)
  BY <1>4, CloseType, ScreenStep DEF ConfirmRequisites
<1>5. CASE DeclineRequisites(c)
  <2>1. Surface'
    BY <1>5 DEF DeclineRequisites, Surface, history, IInv, TypeOK, Rows
  <2> QED BY <1>5, <2>1, NoTask, QuietStep DEF DeclineRequisites, history
<1>6. ASSUME NEW t \in Tasks, NEW what \in Steps \cup {"talk", "intake"},
             Start(t, c, what, "reading"),
             UNCHANGED <<rows, leads, screens, outside, bought, charged, twice, again, raced, crossed, uploaded>>
      PROVE  IInv'
  <2> DEFINE home == what \in Steps \cup {"talk"}
             k == [Blank EXCEPT !.at = "reading", !.what = what, !.client = c, !.home = home]
  <2>1. k \in TaskRecords /\ k.at = "reading" /\ k.client = c
    <3>1. home \in BOOLEAN
      OBVIOUS
    <3> HIDE DEF home
    <3>2. what \in Steps \cup Creators /\ "reading" \in Stages
      BY DEF Creators, Stages
    <3> QED BY <3>1, <3>2, BlankOK DEF TaskRecords
  <2>2. task' = [task EXCEPT ![t] = k] /\ Meddle(c)
    BY <1>6 DEF Start
  <2> HIDE DEF k
  <2>3. TaskOK(k)
    BY <2>1 DEF TaskOK
  <2>4. Surface'
    BY <1>6, <2>2, MeddleType DEF Surface, IInv, TypeOK, Rows
  <2> QED BY <1>6, <2>1, <2>2, <2>3, <2>4, OneTask, QuietStep
<1>7. CASE \E t \in Tasks : Approach(t, c)
  BY <1>6, <1>7 DEF Approach
<1>8. CASE \E t \in Tasks : \E what \in Steps \cup {"talk"} : Send(t, c, what)
  BY <1>6, <1>8 DEF Send
<1> QED BY <1>1, <1>2, <1>3, <1>4, <1>5, <1>7, <1>8 DEF Message

-----------------------------------------------------------------------------
(* Callbacks that read and ask.                                            *)

\* A callback's step that touches its own locals and the screens only.
LEMMA LocalStep ==
    ASSUME IInv, NEW t \in Tasks, NEW k \in TaskRecords, TaskOK(k), k.at # "inserting",
           task' = [task EXCEPT ![t] = k], UNCHANGED Facts, Surface'
    PROVE  IInv'
BY OneTask, QuietStep

LEMMA SameSurface ==
    ASSUME IInv, UNCHANGED <<rows, screens, outside, disturbed>>
    PROVE  Surface'
BY DEF IInv, TypeOK, Surface, rows, screens, Rows

LEMMA EndStep ==
    ASSUME IInv, NEW t \in Tasks, End(t), UNCHANGED Facts, Surface'
    PROVE  IInv'
<1>1. Blank.at = "idle"
  BY DEF Blank
<1> QED BY <1>1, BlankOK, LocalStep DEF End

LEMMA ReadStep ==
    ASSUME IInv, NEW t \in Tasks, GiveUp(t) \/ ReadOffered(t) \/ ReadApplications(t)
    PROVE  IInv'
<1>0. task \in [Tasks -> TaskRecords] /\ TaskOK(task[t]) /\ TypeOK /\ RowsTyped
  BY DEF IInv
<1>1. CASE GiveUp(t)
  BY <1>1, SameSurface, EndStep DEF GiveUp, Facts, rows, screens, history
<1>2. CASE ReadOffered(t)
  <2>1. PICK offered \in SUBSET Articles :
           task' = [task EXCEPT ![t].at = "asking", ![t].asked = offered]
    BY <1>2 DEF ReadOffered
  <2> DEFINE k == [task[t] EXCEPT !.at = "asking", !.asked = offered]
  <2>2. k \in TaskRecords /\ k.at = "asking" /\ k.what = task[t].what /\ k.client = task[t].client
    BY <1>0 DEF TaskRecords, Stages
  <2>3. task' = [task EXCEPT ![t] = k]
    BY <1>0, <2>1
  <2> HIDE DEF k
  <2>4. TaskOK(k)
    BY <1>0, <1>2, <2>2 DEF TaskOK, ReadOffered, Steps
  <2> QED BY <1>2, <2>2, <2>3, <2>4, SameSurface, LocalStep DEF ReadOffered, Facts, rows, screens, history
<1>3. CASE ReadApplications(t)
  <2> DEFINE c == task[t].client
             mine == Active(c)
             asked == {article[b] : b \in Pending(task[t].what, mine)}
             k == [task[t] EXCEPT !.at = "asking", !.seen = mine, !.asked = asked]
  <2>1. task' = [task EXCEPT ![t] = k]
    BY <1>0, <1>3 DEF ReadApplications
  <2>2. task[t].at = "reading" /\ task[t].what \in Steps /\ c \in Clients
    BY <1>0, <1>3 DEF ReadApplications, TaskOK
  <2>3. mine \subseteq Rows /\ Rows \subseteq Applications /\ Pending(task[t].what, mine) \subseteq mine
    BY <1>0, <2>2, BuyerFlowAssumption DEF Active, Pending, Steps, Rows, Applications, TypeOK
  <2>4. asked \subseteq Articles /\ asked \subseteq {article[b] : b \in mine}
    BY <1>0, <2>3 DEF RowsTyped
  <2>5. \A b \in mine : article[b] \in asked => Meant(task[t].what, b)
    <3> SUFFICES ASSUME NEW b \in mine, article[b] \in asked, Twins(b) = {}
                 PROVE  b \in Pending(task[t].what, mine)
      <4>1. ASSUME NEW b \in mine, b \in Pending(task[t].what, mine)
            PROVE  Meant(task[t].what, b)
        BY <2>2, <4>1 DEF Meant, Pending, Steps, IInv
      <4> QED BY <4>1 DEF Meant
    <3>1. PICK other \in Pending(task[t].what, mine) : article[other] = article[b]
      OBVIOUS
    <3>2. client[other] = client[b] /\ other \in Rows
      BY <2>3 DEF Active
    <3> QED BY <3>1, <3>2 DEF Twins
  <2>6. /\ k \in TaskRecords /\ k.at = "asking" /\ k.what = task[t].what /\ k.client = c
        /\ k.seen = mine /\ k.asked = asked
    <3> HIDE DEF asked, mine
    <3> QED BY <1>0, <2>3, <2>4 DEF TaskRecords, Stages
  <2> HIDE DEF k, asked, mine
  <2>7. TaskOK(k)
    BY <2>2, <2>3, <2>4, <2>5, <2>6 DEF TaskOK, Asks
  <2> QED BY <1>3, <2>1, <2>6, <2>7, SameSurface, LocalStep DEF ReadApplications, Facts, rows, screens, history
<1> QED BY <1>1, <1>2, <1>3

\* The applications that accepted articles mean are ones that were read.
LEMMA AcceptOK ==
    ASSUME IInv, NEW t \in Tasks, task[t].at = "asking", task[t].what \in Steps,
           NEW nm_ids \in Seq(task[t].asked),
           task' = Accept(t, nm_ids), UNCHANGED Facts, Surface'
    PROVE  IInv'
<1>0. task \in [Tasks -> TaskRecords] /\ TaskOK(task[t]) /\ task[t] \in TaskRecords /\ TypeOK
  BY DEF IInv
<1> DEFINE meant(i) == Newest({b \in task[t].seen : article[b] = nm_ids[i]})
           todo == [i \in DOMAIN nm_ids |-> meant(i)]
           k == [task[t] EXCEPT !.at = "marking", !.seen = {}, !.asked = {}, !.todo = todo]
<1>1. Asks(task[t]) /\ task[t].client \in Clients
  BY <1>0 DEF TaskOK
<1>2. \A i \in DOMAIN nm_ids :
         meant(i) \in task[t].seen /\ article[meant(i)] \in task[t].asked
  <2> TAKE i \in DOMAIN nm_ids
  <2> DEFINE B == {b \in task[t].seen : article[b] = nm_ids[i]}
  <2>1. nm_ids[i] \in task[t].asked
    OBVIOUS
  <2>2. B # {}
    BY <1>1, <2>1 DEF Asks
  <2>3. B \in SUBSET Applications
    BY <1>0 DEF TaskRecords
  <2>4. Newest(B) \in B
    <3> HIDE DEF B
    <3> QED BY <2>2, <2>3, NewestIn
  <2> QED BY <2>1, <2>4
<1>3. \A i \in DOMAIN nm_ids : meant(i) \in Rows /\ Meant(task[t].what, meant(i))
  BY <1>1, <1>2 DEF Asks
<1>4. todo \in Seq(Rows) /\ DOMAIN todo = DOMAIN nm_ids
  <2>1. PICK n \in Nat : DOMAIN nm_ids = 1 .. n
    <3>1. Len(nm_ids) \in Nat /\ DOMAIN nm_ids = 1 .. Len(nm_ids)
      OBVIOUS
    <3> QED BY <3>1
  <2> HIDE DEF meant
  <2> QED BY <1>3, <2>1
<1>5. \A i \in DOMAIN todo : Meant(task[t].what, todo[i])
  <2> HIDE DEF meant
  <2> QED BY <1>3, <1>4
<1>6. task' = [task EXCEPT ![t] = k]
  BY <1>0 DEF Accept
<1>7. Rows \subseteq Applications
  BY <1>0, BuyerFlowAssumption DEF Rows, Applications, TypeOK
<1>8. /\ k \in TaskRecords /\ k.at = "marking" /\ k.what = task[t].what
      /\ k.client = task[t].client /\ k.todo = todo /\ k.seen = {}
  <2> HIDE DEF todo
  <2>1. todo \in Seq(Articles \cup Applications)
    BY <1>4, <1>7
  <2> QED BY <1>0, <2>1 DEF TaskRecords, Stages
<1> HIDE DEF k, todo
<1>9. TaskOK(k)
  BY <1>1, <1>4, <1>5, <1>8 DEF TaskOK, Marks
<1> QED BY <1>6, <1>8, <1>9, LocalStep

\* A callback turns to creating applications.
LEMMA CreateOK ==
    ASSUME IInv, NEW t \in Tasks, task[t].at # "idle", task[t].what \in Creators,
           NEW nm_ids \in Seq(Articles),
           task' = [task EXCEPT ![t].at = "creating", ![t].todo = nm_ids],
           UNCHANGED Facts, Surface'
    PROVE  IInv'
<1>0. task \in [Tasks -> TaskRecords] /\ TaskOK(task[t]) /\ task[t] \in TaskRecords
  BY DEF IInv
<1> DEFINE k == [task[t] EXCEPT !.at = "creating", !.todo = nm_ids]
<1>1. nm_ids \in Seq(Articles \cup Applications)
  OBVIOUS
<1>2. /\ k \in TaskRecords /\ k.at = "creating" /\ k.what = task[t].what
      /\ k.client = task[t].client /\ k.todo = nm_ids
  BY <1>0, <1>1 DEF TaskRecords, Stages
<1>3. task' = [task EXCEPT ![t] = k]
  BY <1>0
<1> HIDE DEF k
<1>4. TaskOK(k)
  BY <1>0, <1>2 DEF TaskOK
<1> QED BY <1>2, <1>3, <1>4, LocalStep

LEMMA AnswerStep ==
    ASSUME IInv, NEW t \in Tasks,
           \/ AnswerChat(t) \/ AnswerQuestion(t)
           \/ AnswerOrder(t) \/ AnswerFeedback(t) \/ AnswerCutLabels(t)
    PROVE  IInv'
<1>0. task \in [Tasks -> TaskRecords] /\ TaskOK(task[t]) /\ task[t] \in TaskRecords /\ TypeOK
  BY DEF IInv
<1> DEFINE c == task[t].client
<1> USE DEF rows, screens, history, Facts
<1>1. CASE AnswerChat(t)
  <2>0. task[t].at = "asking" /\ task[t].what = "intake" /\ c \in Clients
        /\ UNCHANGED <<rows, leads, dialog, dialog_data, outside, history>>
    BY <1>0, <1>1 DEF AnswerChat, TaskOK
  <2>1. CASE End(t) /\ UNCHANGED engaged
    BY <2>0, <2>1, SameSurface, EndStep
  <2>2. CASE \E r \in ChatAnswers(task[t].asked) :
               /\ r.article_ids # <<>>
               /\ task' = [task EXCEPT ![t].at = "creating", ![t].todo = r.article_ids]
               /\ engaged' = [engaged EXCEPT ![c] = TRUE]
    <3>1. PICK r \in ChatAnswers(task[t].asked) :
               /\ r.article_ids # <<>>
               /\ task' = [task EXCEPT ![t].at = "creating", ![t].todo = r.article_ids]
               /\ engaged' = [engaged EXCEPT ![c] = TRUE]
      BY <2>2
    <3>2. r.article_ids \in Lists(task[t].asked)
      BY <3>1 DEF ChatAnswers
    <3>3. r.article_ids \in Seq(task[t].asked) /\ task[t].asked \subseteq Articles
      BY <1>0, <3>2, ListsAreSequences DEF TaskRecords
    <3>4. r.article_ids \in Seq(Articles)
      BY <3>3
    <3>5. Surface'
      BY <1>0, <2>0, <3>1, SurfaceNow DEF Surface, Rows
    <3>6. task[t].what \in Creators
      BY <2>0 DEF Creators
    <3> QED BY <2>0, <3>1, <3>4, <3>5, <3>6, CreateOK
  <2> QED BY <1>1, <2>1, <2>2 DEF AnswerChat
<1>2. CASE AnswerQuestion(t)
  <2>0. /\ task[t].at = "asking" /\ task[t].what = "talk" /\ c \in Clients
        /\ UNCHANGED <<rows, leads, outside, history>>
    BY <1>0, <1>2 DEF AnswerQuestion, TaskOK
  <2>1. CASE End(t) /\ UNCHANGED screens
    BY <2>0, <2>1, SameSurface, EndStep
  <2>2. CASE Close(c) /\ task' = [Orphaned(c) EXCEPT ![t] = Blank]
    <3>1. Surface'
      BY <1>0, <2>0, <2>2, SurfaceNow, CloseType DEF Surface, Rows
    <3> QED BY <2>0, <2>2, <3>1, OrphanedTasks, QuietStep
  <2>3. CASE /\ UNCHANGED screens
             /\ \E nm_id \in task[t].asked :
                   task' = [task EXCEPT ![t].at = "creating", ![t].todo = <<nm_id>>]
    <3>1. PICK nm_id \in task[t].asked :
                   task' = [task EXCEPT ![t].at = "creating", ![t].todo = <<nm_id>>]
      BY <2>3
    <3>2. <<nm_id>> \in Seq(Articles)
      BY <1>0 DEF TaskRecords
    <3>3. task[t].what \in Creators
      BY <2>0 DEF Creators
    <3> QED BY <2>0, <2>3, <3>1, <3>2, <3>3, SameSurface, CreateOK
  <2> QED BY <1>2, <2>1, <2>2, <2>3 DEF AnswerQuestion
<1>3. CASE AnswerOrder(t)
  <2>0. task[t].at = "asking" /\ task[t].what \in Steps
        /\ UNCHANGED <<rows, leads, screens, outside, history>>
    BY <1>3 DEF AnswerOrder, Steps
  <2>1. CASE End(t)
    BY <2>0, <2>1, SameSurface, EndStep
  <2>2. CASE \E r \in OrderAnswers(task[t].asked) : r.nm_ids # <<>> /\ task' = Accept(t, r.nm_ids)
    <3>1. PICK r \in OrderAnswers(task[t].asked) : r.nm_ids # <<>> /\ task' = Accept(t, r.nm_ids)
      BY <2>2
    <3>2. r.nm_ids \in Seq(task[t].asked)
      BY <3>1, ListsAreSequences DEF OrderAnswers
    <3> QED BY <2>0, <3>1, <3>2, SameSurface, AcceptOK
  <2> QED BY <1>3, <2>1, <2>2 DEF AnswerOrder
<1>4. CASE AnswerFeedback(t)
  <2>0. task[t].at = "asking" /\ task[t].what \in Steps
        /\ UNCHANGED <<rows, leads, screens, outside, history>>
    BY <1>4 DEF AnswerFeedback, Steps
  <2>1. CASE End(t)
    BY <2>0, <2>1, SameSurface, EndStep
  <2>2. CASE \E r \in FeedbackAnswers(task[t].asked) : r.nm_ids # <<>> /\ task' = Accept(t, r.nm_ids)
    <3>1. PICK r \in FeedbackAnswers(task[t].asked) : r.nm_ids # <<>> /\ task' = Accept(t, r.nm_ids)
      BY <2>2
    <3>2. r.nm_ids \in Seq(task[t].asked)
      BY <3>1, ListsAreSequences DEF FeedbackAnswers
    <3> QED BY <2>0, <3>1, <3>2, SameSurface, AcceptOK
  <2> QED BY <1>4, <2>1, <2>2 DEF AnswerFeedback
<1>5. CASE AnswerCutLabels(t)
  <2> DEFINE candidates == {b \in task[t].seen : article[b] \in task[t].asked}
             nm_id == article[Newest(candidates)]
  <2>0. task[t].at = "asking" /\ task[t].what \in Steps
        /\ UNCHANGED <<rows, leads, screens, outside, history>>
    BY <1>5 DEF AnswerCutLabels, Steps
  <2>1. CASE End(t)
    BY <2>0, <2>1, SameSurface, EndStep
  <2>2. CASE candidates # {} /\ task' = Accept(t, <<nm_id>>)
    <3>1. candidates \in SUBSET Applications
      BY <1>0 DEF TaskRecords
    <3>2. Newest(candidates) \in candidates
      <4> HIDE DEF candidates
      <4> QED BY <2>2, <3>1, NewestIn
    <3>3. nm_id \in task[t].asked
      BY <3>2
    <3>4. <<nm_id>> \in Seq(task[t].asked)
      <4> HIDE DEF nm_id
      <4> QED BY <3>3, SingletonSequence
    <3> QED BY <2>0, <2>2, <3>4, SameSurface, AcceptOK
  <2> QED BY <1>5, <2>1, <2>2 DEF AnswerCutLabels
<1> QED BY <1>1, <1>2, <1>3, <1>4, <1>5

-----------------------------------------------------------------------------
(* Callbacks that go on to another await, or end.                          *)

LEMMA ReadLeadsStep == ASSUME IInv, NEW t \in Tasks, ReadLeads(t) PROVE IInv'
<1>0. task \in [Tasks -> TaskRecords] /\ TaskOK(task[t]) /\ task[t] \in TaskRecords /\ TypeOK
  BY DEF IInv
<1> DEFINE k == [task[t] EXCEPT !.at = "paying", !.lead = leads]
<1>1. task' = [task EXCEPT ![t] = k]
  BY <1>0 DEF ReadLeads
<1>2. leads \in Nat /\ leads <= InitialLeads + bought
  BY DEF IInv, TypeOK, LeadsAccounted
<1>3. /\ k \in TaskRecords /\ k.at = "paying" /\ k.what = task[t].what
      /\ k.client = task[t].client /\ k.todo = task[t].todo /\ k.lead = leads
      /\ k.seen = task[t].seen
  BY <1>0, <1>2 DEF TaskRecords, Stages
<1> HIDE DEF k
<1>4. TaskOK(k)
  BY <1>0, <1>2, <1>3 DEF TaskOK, Marks, ReadLeads
<1> QED BY <1>1, <1>3, <1>4, SameSurface, LocalStep DEF ReadLeads, Facts, rows, screens, history

LEMMA FinishStep == ASSUME IInv, NEW t \in Tasks, Finish(t) PROVE IInv'
<1>0. TaskOK(task[t]) /\ TypeOK
  BY DEF IInv
<1>1. task[t].at = "marking" /\ task[t].what \in Steps
  BY <1>0 DEF Finish, TaskOK, Marks
<1>2. After[task[t].what] \in Screens /\ task[t].what \in Screens
  BY <1>1 DEF After, Screens, Steps
<1>3. dialog' \in [Clients -> Screens]
  BY <1>0, <1>2 DEF Finish, TypeOK
<1>4. Surface'
  BY <1>0, <1>3, SurfaceNow DEF Surface, Finish, rows, history, Rows
<1> QED BY <1>4, EndStep DEF Finish, Facts, rows, history

LEMMA StartDialogStep == ASSUME IInv, NEW t \in Tasks, StartDialog(t) PROVE IInv'
<1>0. TaskOK(task[t]) /\ TypeOK
  BY DEF IInv
<1> DEFINE c == task[t].client
           s == CASE task[t].what = "intake" -> "order"
                  [] task[t].what = "talk" -> Resume(Active(c))
                  [] task[t].what = "request" -> "closed"
<1>1. task[t].what \in Creators /\ c \in Clients
  BY <1>0 DEF StartDialog, TaskOK
<1>2. s \in Screens
  BY <1>1, ResumeType DEF Creators, Screens, Steps
<1> HIDE DEF s
<1>3. CASE End(t) /\ UNCHANGED screens
  BY <1>3, SameSurface, EndStep DEF StartDialog, Facts, rows, history
<1>4. CASE /\ Open(c, s) /\ UNCHANGED engaged
           /\ task' = [Orphaned(c) EXCEPT ![t] = Blank]
  <2>1. Surface'
    BY <1>0, <1>1, <1>2, <1>4, SurfaceNow, OpenType DEF Surface, StartDialog, rows, history, Rows
  <2> QED BY <1>4, <2>1, OrphanedTasks, QuietStep DEF StartDialog, Facts, rows, history
<1> QED BY <1>3, <1>4 DEF StartDialog, s

LEMMA CutStep == ASSUME IInv, NEW t \in Tasks, Cut(t) PROVE IInv'
<1>0. TaskOK(task[t]) /\ TypeOK
  BY DEF IInv
<1>1. task[t].client \in Clients
  BY <1>0 DEF Cut, TaskOK
<1>2. disturbed' \subseteq Clients
  BY <1>0, <1>1 DEF Cut, TypeOK
<1>3. Surface'
  BY <1>0, <1>2, SurfaceNow DEF Surface, Cut, rows, screens, Rows
<1> QED BY <1>3, EndStep DEF Cut, Facts, rows

LEMMA OutsideType == ASSUME IInv, Outside PROVE outside' \in 0 .. MaxOutside
BY BuyerFlowAssumption DEF Outside, IInv, TypeOK

LEMMA PostBuyerStep ==
    ASSUME IInv, NEW t \in Others, NEW c \in Clients, NEW nm_id \in Articles, PostBuyer(t, c, nm_id)
    PROVE  IInv'
<1>0. task \in [Tasks -> TaskRecords] /\ TypeOK /\ t \in Tasks
  BY DEF IInv, Tasks
<1> DEFINE k == [Blank EXCEPT !.at = "creating", !.what = "request", !.client = c, !.todo = <<nm_id>>]
<1>1. <<nm_id>> \in Seq(Articles) /\ <<nm_id>> \in Seq(Articles \cup Applications)
  BY SingletonSequence
<1>2. /\ k \in TaskRecords /\ k.at = "creating" /\ k.what = "request"
      /\ k.client = c /\ k.todo = <<nm_id>>
  BY <1>1, BlankOK DEF TaskRecords, Stages, Creators
<1>3. task' = [task EXCEPT ![t] = k]
  BY DEF PostBuyer
<1> HIDE DEF k
<1>4. TaskOK(k)
  BY <1>1, <1>2 DEF TaskOK, Creators
<1>5. Surface'
  BY <1>0, SurfaceNow, OutsideType DEF Surface, PostBuyer, rows, screens, history, Rows
<1> QED BY <1>0, <1>2, <1>3, <1>4, <1>5, LocalStep DEF PostBuyer, Facts, rows, screens, history

LEMMA PayStep == ASSUME IInv, NEW c \in Clients, Pay(c) PROVE IInv'
<1>0. TypeOK
  BY DEF IInv
<1>1. Active(c) \subseteq Rows
  BY DEF Active
<1>2. paid' \subseteq Rows
  BY <1>0, <1>1 DEF Pay, TypeOK
<1>3. Surface'
  BY <1>0, <1>2, SurfaceNow, OutsideType DEF Surface, Pay, screens, Rows
<1> QED BY <1>3, NoTask, QuietStep DEF Pay, Facts

LEMMA CancelStep == ASSUME IInv, NEW c \in Clients, Cancel(c) PROVE IInv'
<1>0. TypeOK
  BY DEF IInv
<1>1. canceled' \subseteq Rows
  <2>1. PICK nm_id \in {article[b] : b \in Active(c)} :
           canceled' = canceled \cup {Newest({r \in Active(c) : article[r] = nm_id})}
    BY DEF Cancel
  <2> DEFINE B == {r \in Active(c) : article[r] = nm_id}
  <2>2. B # {} /\ B \subseteq Rows /\ Rows \subseteq Applications
    BY <1>0, <2>1, BuyerFlowAssumption DEF Active, Rows, Applications, TypeOK
  <2>3. Newest(B) \in B
    <3> HIDE DEF B
    <3> QED BY <2>2, NewestIn
  <2> QED BY <1>0, <2>1, <2>2, <2>3 DEF TypeOK
<1>2. /\ dialog' \in [Clients -> Screens] /\ dialog_data' \in [Clients -> SUBSET Fields]
      /\ engaged' \in [Clients -> BOOLEAN]
  <2>1. CASE Open(c, Resume(Incomplete(c))') /\ UNCHANGED engaged
    <3>1. Resume(Incomplete(c))' \in Screens
      BY ResumeType
    <3>2. dialog' \in [Clients -> Screens] /\ dialog_data' \in [Clients -> SUBSET Fields]
      BY <1>0, <2>1, <3>1 DEF Open, TypeOK
    <3> QED BY <1>0, <2>1, <3>2 DEF TypeOK
  <2>2. CASE Close(c)
    BY <2>2, CloseType
  <2>3. CASE UNCHANGED screens
    BY <1>0, <2>3 DEF screens, TypeOK
  <2> QED BY <2>1, <2>2, <2>3 DEF Cancel
<1>3. Surface'
  BY <1>0, <1>1, <1>2, SurfaceNow, OutsideType, MeddleType DEF Surface, Cancel, Rows
<1> QED BY <1>3, OrphanedTasks, QuietStep DEF Cancel, Facts

-----------------------------------------------------------------------------
(* Steps that add rows, marks or leads.                                    *)

\* Rows stay what they are, and marks and leads are added.
Grows ==
    /\ Rows \subseteq Rows'
    /\ \A b \in Rows : client'[b] = client[b] /\ article'[b] = article[b]
    /\ \A s \in Steps : done[s] \subseteq done'[s]
    /\ bought' \in Nat /\ bought <= bought'
    /\ again \subseteq again'

\* What a callback is concerned with is not charged behind its back.
Spared(k) ==
    k.what = "order" =>
        \A b \in charged' \ charged :
            b \in k.seen \/ (\E i \in DOMAIN k.todo : k.todo[i] = b) => b \in again'

LEMMA MeantKept ==
    ASSUME NEW s, NEW b \in Rows, Meant(s, b), Grows, s = "order" => b \notin charged' \ charged \/ b \in again'
    PROVE  Meant(s, b)'
<1>1. Twins(b)' = {} => Twins(b) = {}
  BY DEF Grows, Twins
<1> QED BY <1>1 DEF Grows, Meant, Steps

LEMMA TaskKept ==
    ASSUME TypeOK, NEW k \in TaskRecords, TaskOK(k), Grows, Spared(k)
    PROVE  TaskOK(k)'
<1>1. k.at = "asking" /\ k.what \in Steps => Asks(k)'
  <2> SUFFICES ASSUME k.at = "asking", k.what \in Steps PROVE Asks(k)'
    OBVIOUS
  <2>1. Asks(k) /\ k.seen \subseteq Rows
    BY DEF TaskOK, Asks
  <2>2. \A b \in k.seen : article'[b] = article[b] /\ b \in Rows'
    BY <2>1 DEF Grows
  <2>3. \A b \in k.seen : article[b] \in k.asked => Meant(k.what, b)'
    BY <2>1, MeantKept DEF Asks, Spared
  <2>4. k.asked \subseteq {article'[b] : b \in k.seen}
    BY <2>1, <2>2 DEF Asks
  <2> QED BY <2>2, <2>3, <2>4 DEF Asks
<1>2. k.at \in {"marking", "paying"} => Marks(k)'
  <2> SUFFICES ASSUME k.at \in {"marking", "paying"} PROVE Marks(k)'
    OBVIOUS
  <2>1. Marks(k)
    BY DEF TaskOK
  <2>2. k.todo \in Seq(Rows')
    BY <2>1 DEF Marks, Grows
  <2>3. \A i \in DOMAIN k.todo : k.todo[i] \in Rows
    BY <2>1 DEF Marks
  <2>4. \A i \in DOMAIN k.todo : Meant(k.what, k.todo[i])'
    BY <2>1, <2>3, MeantKept DEF Marks, Spared
  <2> QED BY <2>1, <2>2, <2>4 DEF Marks
<1>3. k.at = "paying" => k.lead <= InitialLeads + bought'
  BY BuyerFlowAssumption DEF TaskOK, TaskRecords, TypeOK, Grows
<1> QED BY <1>1, <1>2, <1>3 DEF TaskOK

\* Marks are added, and no lead is spent.
LEMMA MarksStep ==
    ASSUME IInv, UNCHANGED <<last, client, article, leads, bought, charged, twice, again, raced, crossed>>,
           done' \in [Steps -> SUBSET Rows], \A s \in Steps : done[s] \subseteq done'[s],
           uploaded \subseteq uploaded', uploaded' \subseteq Rows,
           Surface', StepsInOrder',
           task' \in [Tasks -> TaskRecords], \A t \in Tasks : TaskOK(task'[t]),
           NoNewInsert
    PROVE  IInv'
<1>1. TypeOK'
  BY DEF IInv, TypeOK, Surface, Rows
<1>2. RowsTyped' /\ (charged \subseteq done["order"])'
  BY DEF IInv, RowsTyped, Rows, Steps
<1>3. \A t \in Tasks : TaskOK(task[t])'
  <2> TAKE t \in Tasks
  <2> DEFINE k == task'[t]
  <2>1. Grows /\ Spared(k) /\ TypeOK
    BY DEF Grows, Spared, Rows, IInv, TypeOK
  <2> QED BY <2>1, TaskKept
<1>4. InsertsNew' /\ InsertsApart'
  BY DEF IInv, InsertsNew, InsertsApart, NoNewInsert, Existing, Wanted, Rows
<1>5. OneApplication' /\ LeadOnce' /\ LeadsAccounted'
  BY DEF IInv, OneApplication, LeadOnce, LeadsAccounted, Twins, Rows
<1> QED BY <1>1, <1>2, <1>3, <1>4, <1>5 DEF IInv

\* What a marking callback has next, and what remains.
LEMMA NextMark ==
    ASSUME IInv, NEW t \in Tasks, task[t].at \in {"marking", "paying"}, task[t].todo # <<>>
    PROVE  /\ task[t].what \in Steps
           /\ Head(task[t].todo) \in Rows
           /\ Meant(task[t].what, Head(task[t].todo))
           /\ Advanced(t) \in TaskRecords /\ TaskOK(Advanced(t))
           /\ Advanced(t).at = "marking" /\ Advanced(t).what = task[t].what
           /\ Advanced(t).seen = {}
           /\ \A i \in DOMAIN Advanced(t).todo :
                 i + 1 \in 2 .. Len(task[t].todo) /\ Advanced(t).todo[i] = task[t].todo[i + 1]
<1> DEFINE todo == task[t].todo
           rest == Tail(todo)
<1>0. task[t] \in TaskRecords /\ TaskOK(task[t])
  BY DEF IInv
<1>1. Marks(task[t]) /\ task[t].client \in Clients
  BY <1>0 DEF TaskOK
<1>2. todo \in Seq(Rows) /\ todo \in Seq(Articles \cup Applications)
  BY <1>0, <1>1 DEF Marks, TaskRecords
<1>3. /\ rest \in Seq(Rows) /\ rest \in Seq(Articles \cup Applications)
      /\ DOMAIN rest = 1 .. Len(todo) - 1
      /\ \A i \in DOMAIN rest : rest[i] = todo[i + 1]
      /\ Head(todo) = todo[1] /\ 1 \in DOMAIN todo
      /\ Len(todo) \in Nat /\ DOMAIN todo = 1 .. Len(todo)
  BY <1>2
<1>4. \A i \in DOMAIN rest : i + 1 \in DOMAIN todo /\ i + 1 \in 2 .. Len(todo)
  BY <1>3
<1>5. \A i \in DOMAIN rest : Meant(task[t].what, rest[i])
  BY <1>1, <1>3, <1>4 DEF Marks
<1> DEFINE k == [task[t] EXCEPT !.at = "marking", !.todo = Tail(@), !.lead = 0]
<1>6. /\ k \in TaskRecords /\ k.at = "marking" /\ k.what = task[t].what /\ k.seen = task[t].seen
      /\ k.client = task[t].client /\ k.todo = rest
  <2> HIDE DEF rest
  <2>1. k = [task[t] EXCEPT !.at = "marking", !.todo = rest, !.lead = 0]
    BY <1>0 DEF TaskRecords, rest
  <2> QED BY <1>0, <1>3, <2>1 DEF TaskRecords, Stages
<1> HIDE DEF k, rest
<1>7. TaskOK(k)
  BY <1>1, <1>3, <1>5, <1>6 DEF TaskOK, Marks
<1> QED BY <1>1, <1>3, <1>4, <1>6, <1>7 DEF Advanced, Marks, k

LEMMA MarkStepStep == ASSUME IInv, NEW t \in Tasks, MarkStep(t) PROVE IInv'
<1> DEFINE b == Head(task[t].todo)
           what == task[t].what
<1>1. b \in Rows /\ Meant(what, b) /\ Advanced(t) \in TaskRecords /\ TaskOK(Advanced(t))
      /\ Advanced(t).at = "marking"
  BY NextMark DEF MarkStep
<1>2. what \in {"feedback", "labels"} /\ done' = [done EXCEPT ![what] = @ \cup {b}]
      /\ UNCHANGED <<last, client, article, uploaded>>
  BY DEF MarkStep, history
<1>3. done \in [Steps -> SUBSET Rows] /\ StepsInOrder
  BY DEF IInv, TypeOK
<1>4. done' \in [Steps -> SUBSET Rows] /\ \A s \in Steps : done[s] \subseteq done'[s]
  BY <1>1, <1>2, <1>3 DEF Steps
<1>5. /\ done'["order"] = done["order"]
      /\ done'["feedback"] = IF what = "feedback" THEN done["feedback"] \cup {b} ELSE done["feedback"]
      /\ done'["labels"] = IF what = "labels" THEN done["labels"] \cup {b} ELSE done["labels"]
  BY <1>2, <1>3 DEF Steps
<1>6. StepsInOrder'
  <2> HIDE DEF b, what
  <2>1. \A r \in Rows : Twins(r)' = Twins(r)
    BY <1>2 DEF Twins, Rows
  <2>2. Rows' = Rows
    BY <1>2 DEF Rows
  <2> QED BY <1>1, <1>2, <1>3, <1>5, <2>1, <2>2 DEF StepsInOrder, Meant
<1>7. Surface'
  BY SurfaceNow DEF MarkStep, Surface, screens, history, Rows
<1>8. task' \in [Tasks -> TaskRecords] /\ (\A u \in Tasks : TaskOK(task'[u])) /\ NoNewInsert
  BY <1>1, OneTask DEF MarkStep
<1>9. uploaded' \subseteq Rows
  BY <1>2 DEF IInv, TypeOK
<1> QED BY <1>2, <1>4, <1>6, <1>7, <1>8, <1>9, MarksStep DEF MarkStep, history

LEMMA ConfirmStep == ASSUME IInv, NEW c \in Clients, Confirm(c) PROVE IInv'
<1>0. TypeOK /\ StepsInOrder
  BY DEF IInv
<1>1. PICK nm_id \in {article[r] : r \in Active(c)} :
        LET b == Newest({r \in Active(c) : article[r] = nm_id})
            step == CASE b \notin done["order"] -> {"order"}
                      [] b \in done["order"] \ done["feedback"] -> {"feedback"}
                      [] OTHER -> {"labels"} IN
        done' = [s \in Steps |-> IF s \in step THEN done[s] \cup {b} ELSE done[s]]
  BY DEF Confirm
<1> DEFINE B == {r \in Active(c) : article[r] = nm_id}
           b == Newest(B)
           step == CASE b \notin done["order"] -> {"order"}
                     [] b \in done["order"] \ done["feedback"] -> {"feedback"}
                     [] OTHER -> {"labels"}
<1>2. b \in Rows
  <2>1. B # {} /\ B \subseteq Rows /\ Rows \subseteq Applications
    BY <1>0, BuyerFlowAssumption DEF Active, Rows, Applications, TypeOK
  <2>2. b \in B
    <3> HIDE DEF B
    <3> QED BY <2>1, NewestIn
  <2> QED BY <2>1, <2>2
<1>3. done' = [s \in Steps |-> IF s \in step THEN done[s] \cup {b} ELSE done[s]]
  BY <1>1
<1>4. UNCHANGED <<last, client, article, uploaded>>
  BY DEF Confirm
<1>5. step = {"order"} \/ (b \in done["order"] /\ step = {"feedback"})
      \/ (b \in done["order"] /\ b \in done["feedback"] /\ step = {"labels"})
  <2> HIDE DEF b
  <2> QED OBVIOUS
<1> HIDE DEF b, step
<1>6. done' \in [Steps -> SUBSET Rows] /\ \A s \in Steps : done[s] \subseteq done'[s]
  BY <1>0, <1>2, <1>3 DEF TypeOK
<1>7. \A s \in Steps : done'[s] = IF s \in step THEN done[s] \cup {b} ELSE done[s]
  BY <1>3
<1>8. StepsInOrder'
  <2>1. \A r \in Rows : Twins(r)' = Twins(r)
    BY <1>4 DEF Twins, Rows
  <2>2. Rows' = Rows
    BY <1>4 DEF Rows
  <2>3. "order" \in Steps /\ "feedback" \in Steps /\ "labels" \in Steps
    BY DEF Steps
  <2> QED BY <1>0, <1>4, <1>5, <1>7, <2>1, <2>2, <2>3 DEF StepsInOrder
<1>9. Surface'
  <2>1. (IF Resume(Active(c))' = "closed" THEN "requisites" ELSE Resume(Active(c))') \in Screens
    BY ResumeType DEF Screens
  <2>2. dialog' \in [Clients -> Screens] /\ dialog_data' \in [Clients -> SUBSET Fields]
    BY <1>0, <2>1 DEF Confirm, Open, TypeOK
  <2> QED BY <1>0, <2>2, SurfaceNow, OutsideType, MeddleType DEF Confirm, Surface, Rows
<1>10. task' \in [Tasks -> TaskRecords] /\ (\A u \in Tasks : TaskOK(task'[u])) /\ NoNewInsert
  BY OrphanedTasks DEF Confirm
<1>11. uploaded' \subseteq Rows
  BY <1>0, <1>4 DEF TypeOK
<1> QED BY <1>4, <1>6, <1>8, <1>9, <1>10, <1>11, MarksStep DEF Confirm

LEMMA UploadStep ==
    ASSUME IInv, NEW b \in Applications, NEW s \in Steps, Upload(b, s)
    PROVE  IInv'
<1>0. TypeOK /\ StepsInOrder /\ RowsTyped
  BY DEF IInv
<1>1. b \in Rows /\ done' = [done EXCEPT ![s] = @ \cup {b}] /\ uploaded' = uploaded \cup {b}
      /\ UNCHANGED <<last, client, article>>
  BY DEF Upload
<1>2. done' \in [Steps -> SUBSET Rows] /\ \A x \in Steps : done[x] \subseteq done'[x]
  BY <1>0, <1>1 DEF TypeOK
<1>3. \A x \in Steps : \A r \in Rows \ {b} : r \in done'[x] <=> r \in done[x]
  BY <1>0, <1>1 DEF TypeOK
<1>4. StepsInOrder'
  <2>1. \A r \in Rows : Twins(r)' = Twins(r)
    BY <1>1 DEF Twins, Rows
  <2>2. Rows' = Rows
    BY <1>1 DEF Rows
  <2>3. "order" \in Steps /\ "feedback" \in Steps /\ "labels" \in Steps
    BY DEF Steps
  <2> QED BY <1>0, <1>1, <1>3, <2>1, <2>2, <2>3 DEF StepsInOrder
<1>5. uploaded' \subseteq Rows /\ disturbed' \subseteq Clients
  BY <1>0, <1>1 DEF Upload, TypeOK, RowsTyped
<1>6. Surface'
  BY <1>0, <1>5, SurfaceNow, OutsideType DEF Upload, Surface, screens, Rows
<1> QED BY <1>1, <1>2, <1>4, <1>5, <1>6, NoTask, MarksStep DEF Upload

LEMMA ChargedFinite == IInv => IsFiniteSet(charged) /\ Cardinality(charged) \in Nat
<1> SUFFICES ASSUME IInv PROVE IsFiniteSet(charged) /\ Cardinality(charged) \in Nat
  OBVIOUS
<1>1. charged \in SUBSET (1 .. last) /\ last \in Int
  BY DEF IInv, TypeOK, Rows
<1>2. IsFiniteSet(1 .. last)
  BY <1>1, FS_Interval
<1> QED BY <1>1, <1>2, FS_Subset, FS_CardinalityType

LEMMA MarkOrderedStep == ASSUME IInv, NEW t \in Tasks, MarkOrdered(t) PROVE IInv'
<1> DEFINE b == Head(task[t].todo)
           costs == task[t].lead >= 1
           named == \E i \in 2 .. Len(task[t].todo) : task[t].todo[i] = b
           rivals == {u \in Tasks \ {t} : /\ task[u].what = "order"
                                           /\ \/ b \in task[u].seen
                                              \/ \E i \in DOMAIN task[u].todo : task[u].todo[i] = b}
<1>0. TypeOK /\ StepsInOrder /\ task \in [Tasks -> TaskRecords] /\ charged \subseteq done["order"]
      /\ (\A u \in Tasks : TaskOK(task[u])) /\ LeadsAccounted /\ LeadOnce /\ OneApplication
  BY DEF IInv
<1>1. /\ task[t].what = "order" /\ task[t].todo # <<>> /\ task[t].at = "paying"
      /\ task[t].lead <= InitialLeads + bought /\ task[t].lead \in Nat
  BY <1>0 DEF MarkOrdered, TaskOK, TaskRecords
<1>2. /\ b \in Rows /\ Meant("order", b)
      /\ Advanced(t) \in TaskRecords /\ TaskOK(Advanced(t)) /\ Advanced(t).at = "marking"
      /\ Advanced(t).seen = {}
      /\ \A i \in DOMAIN Advanced(t).todo :
            i + 1 \in 2 .. Len(task[t].todo) /\ Advanced(t).todo[i] = task[t].todo[i + 1]
  BY <1>1, NextMark
<1>3. /\ done' = [done EXCEPT !["order"] = @ \cup {b}]
      /\ leads' = IF costs THEN task[t].lead - 1 ELSE leads
      /\ raced' = (raced \/ (costs /\ leads # task[t].lead))
      /\ charged' = IF costs THEN charged \cup {b} ELSE charged
      /\ twice' = IF costs THEN twice \cup ({b} \cap charged) ELSE twice
      /\ again' = IF costs /\ (named \/ rivals # {}) THEN again \cup {b} ELSE again
      /\ task' = [task EXCEPT ![t] = Advanced(t)]
  BY DEF MarkOrdered
<1>4. UNCHANGED <<last, client, article, canceled, paid, screens, outside, bought, crossed, disturbed, uploaded>>
  BY DEF MarkOrdered
<1>5. /\ Rows' = Rows /\ \A r \in Rows : Twins(r)' = Twins(r)
  BY <1>4 DEF Rows, Twins
<1>6. task' \in [Tasks -> TaskRecords] /\ (\A u \in Tasks : TaskOK(task'[u])) /\ NoNewInsert
  BY <1>2, <1>3, OneTask
<1>7. /\ \A u \in Tasks \ {t} : task'[u] = task[u]
      /\ task'[t] = Advanced(t)
  BY <1>0, <1>3
<1>8. \A u \in Tasks : Spared(task'[u])
  <2> TAKE u \in Tasks
  <2>1. CASE ~costs
    BY <1>3, <2>1 DEF Spared
  <2>2. CASE costs /\ u = t
    <3> SUFFICES ASSUME NEW i \in DOMAIN Advanced(t).todo, Advanced(t).todo[i] = b
                 PROVE  named
      BY <1>2, <1>3, <1>7, <2>2 DEF Spared
    <3> QED BY <1>2
  <2>3. CASE costs /\ u # t
    <3> SUFFICES ASSUME task[u].what = "order",
                        b \in task[u].seen \/ (\E i \in DOMAIN task[u].todo : task[u].todo[i] = b)
                 PROVE  rivals # {}
      <4> HIDE DEF rivals, named, costs
      <4> QED BY <1>3, <1>7, <2>3 DEF Spared
    <3>1. u \in rivals
      BY <2>3
    <3> QED BY <3>1
  <2> QED BY <2>1, <2>2, <2>3
<1> HIDE DEF named, rivals, b
<1>9. done' \in [Steps -> SUBSET Rows] /\ \A x \in Steps : done[x] \subseteq done'[x]
  BY <1>0, <1>2, <1>3 DEF TypeOK
<1>10. /\ done'["order"] = done["order"] \cup {b}
       /\ done'["feedback"] = done["feedback"] /\ done'["labels"] = done["labels"]
  BY <1>0, <1>3 DEF TypeOK, Steps
<1>11. leads' \in Nat /\ raced' \in BOOLEAN
  BY <1>0, <1>1, <1>3 DEF TypeOK
<1>12. charged' \subseteq Rows /\ twice' \subseteq charged' /\ again' \subseteq Rows
  BY <1>0, <1>2, <1>3 DEF TypeOK
<1>13. TypeOK'
  BY <1>0, <1>4, <1>5, <1>9, <1>11, <1>12 DEF TypeOK, screens
<1>14. RowsTyped' /\ (charged \subseteq done["order"])'
  BY <1>0, <1>3, <1>4, <1>5, <1>10 DEF IInv, RowsTyped
<1>15. \A u \in Tasks : TaskOK(task[u])'
  <2> TAKE u \in Tasks
  <2>1. Grows
    BY <1>0, <1>3, <1>4, <1>5, <1>9 DEF Grows, TypeOK
  <2>2. task'[u] \in TaskRecords /\ TaskOK(task'[u]) /\ Spared(task'[u])
    BY <1>6, <1>8
  <2> QED BY <1>0, <2>1, <2>2, TaskKept
<1>16. InsertsNew' /\ InsertsApart'
  BY <1>4, <1>6 DEF IInv, InsertsNew, InsertsApart, NoNewInsert, Existing, Wanted, Rows
<1>17. OneApplication' /\ StepsInOrder'
  BY <1>0, <1>4, <1>5, <1>10 DEF OneApplication, StepsInOrder
<1>18. LeadOnce'
  <2> SUFFICES ASSUME NEW r \in twice' PROVE r \in again' \/ Twins(r)' # {}
    BY DEF LeadOnce
  <2>1. r \in Rows /\ again \subseteq again'
    BY <1>3, <1>12, <1>5
  <2>2. CASE r \in twice
    BY <1>0, <1>5, <2>1, <2>2 DEF LeadOnce
  <2>3. CASE r = b /\ b \in charged
    BY <1>2, <1>5, <2>1, <2>3 DEF Meant
  <2> QED BY <1>3, <2>2, <2>3
<1>19. LeadsAccounted'
  <2>1. leads' <= InitialLeads + bought'
    <3>1. InitialLeads + bought \in Nat /\ leads <= InitialLeads + bought /\ leads \in Nat
      BY <1>0, BuyerFlowAssumption DEF TypeOK, LeadsAccounted
    <3> QED BY <1>1, <1>3, <1>4, <3>1
  <2>2. ASSUME ~raced', twice' = {}
        PROVE  leads' + Cardinality(charged') = InitialLeads + bought'
    <3>1. ~raced /\ twice = {}
      BY <1>3, <2>2
    <3>2. leads + Cardinality(charged) = InitialLeads + bought
      BY <1>0, <3>1 DEF LeadsAccounted
    <3>3. CASE ~costs
      BY <1>3, <1>4, <3>2, <3>3
    <3>4. CASE costs
      <4>1. leads = task[t].lead /\ b \notin charged
        BY <1>3, <2>2, <3>4
      <4>2. Cardinality(charged \cup {b}) = Cardinality(charged) + 1 /\ Cardinality(charged) \in Nat
        BY <4>1, ChargedFinite, FS_AddElement
      <4>3. leads' = leads - 1 /\ charged' = charged \cup {b} /\ bought' = bought
        BY <1>3, <1>4, <3>4, <4>1
      <4>4. leads \in Nat
        BY <1>0 DEF TypeOK
      <4> QED BY <3>2, <4>2, <4>3, <4>4
    <3> QED BY <3>3, <3>4
  <2> QED BY <2>1, <2>2 DEF LeadsAccounted
<1> QED BY <1>6, <1>13, <1>14, <1>15, <1>16, <1>17, <1>18, <1>19 DEF IInv

LEMMA PurchaseStep == ASSUME IInv, NEW n \in Purchases, Purchase(n) PROVE IInv'
<1>0. TypeOK /\ (\A t \in Tasks : task[t] \in TaskRecords /\ TaskOK(task[t])) /\ LeadsAccounted
  BY DEF IInv
<1>1. n \in Nat /\ leads' = leads + n /\ bought' = bought + n
  BY BuyerFlowAssumption DEF Purchase
<1>2. UNCHANGED <<rows, screens, task, charged, twice, again, raced, crossed, disturbed, uploaded>>
  BY DEF Purchase
<1> USE DEF rows, screens
<1>3. Surface'
  BY <1>0, <1>2, SurfaceNow, OutsideType DEF Purchase, Surface, Rows
<1>4. TypeOK'
  BY <1>0, <1>1, <1>2, <1>3 DEF TypeOK, Surface, Rows
<1>5. RowsTyped' /\ (charged \subseteq done["order"])' /\ InsertsNew' /\ InsertsApart'
  BY <1>2 DEF IInv, RowsTyped, InsertsNew, InsertsApart, Existing, Wanted, Rows
<1>6. \A t \in Tasks : TaskOK(task[t])'
  <2> TAKE t \in Tasks
  <2>1. Grows /\ Spared(task'[t])
    BY <1>0, <1>1, <1>2 DEF Grows, Spared, Rows, TypeOK
  <2> QED BY <1>0, <1>2, <2>1, TaskKept
<1>7. OneApplication' /\ StepsInOrder' /\ LeadOnce'
  BY <1>2 DEF IInv, OneApplication, StepsInOrder, LeadOnce, Twins, Rows
<1>8. LeadsAccounted'
  <2>1. leads \in Nat /\ bought \in Nat /\ InitialLeads \in Nat /\ Cardinality(charged) \in Nat
    BY <1>0, BuyerFlowAssumption, ChargedFinite DEF TypeOK
  <2> QED BY <1>0, <1>1, <1>2, <2>1 DEF LeadsAccounted
<1>9. task' \in [Tasks -> TaskRecords]
  BY <1>2 DEF IInv
<1> QED BY <1>4, <1>5, <1>6, <1>7, <1>8, <1>9 DEF IInv

\* Either the application exists, and the next article is looked for, or the
\* callback goes on to insert it: as the only one, or the client has crossed.
LEMMA LookStep == ASSUME IInv, NEW t \in Tasks, Look(t) PROVE IInv'
<1>0. TypeOK /\ task \in [Tasks -> TaskRecords] /\ task[t] \in TaskRecords
      /\ (\A u \in Tasks : TaskOK(task[u])) /\ InsertsNew /\ InsertsApart
  BY DEF IInv
<1> DEFINE c == task[t].client
           others == {u \in Busy(c) : task[u].at = "inserting" /\ Wanted(u) = Wanted(t)}
<1>1. /\ task[t].at = "creating" /\ task[t].todo # <<>> /\ c \in Clients
      /\ task[t].what \in Creators /\ task[t].todo \in Seq(Articles)
  BY <1>0 DEF Look, TaskOK
<1>2. CASE Existing(c, Wanted(t)) # {}
  <2> DEFINE rest == Tail(task[t].todo)
             k == [task[t] EXCEPT !.todo = Tail(@)]
  <2>1. rest \in Seq(Articles) /\ rest \in Seq(Articles \cup Applications)
    BY <1>1
  <2>2. /\ k \in TaskRecords /\ k.at = "creating" /\ k.what = task[t].what
        /\ k.client = c /\ k.todo = rest
    <3> HIDE DEF rest
    <3>1. k = [task[t] EXCEPT !.todo = rest]
      BY <1>0 DEF TaskRecords, rest
    <3> QED BY <1>0, <1>1, <2>1, <3>1 DEF TaskRecords
  <2>3. task' = [task EXCEPT ![t] = k] /\ UNCHANGED crossed
    BY <1>0, <1>2 DEF Look
  <2> HIDE DEF k, rest
  <2>4. TaskOK(k)
    BY <1>1, <2>1, <2>2 DEF TaskOK
  <2>5. UNCHANGED Facts /\ UNCHANGED <<rows, screens, outside, disturbed>>
    BY <2>3 DEF Look, Facts, rows, screens
  <2> QED BY <2>2, <2>3, <2>4, <2>5, SameSurface, LocalStep
<1>3. CASE Existing(c, Wanted(t)) = {}
  <2> DEFINE k == [task[t] EXCEPT !.at = "inserting"]
  <2>1. /\ k \in TaskRecords /\ k.at = "inserting" /\ k.what = task[t].what
        /\ k.client = c /\ k.todo = task[t].todo
    BY <1>0 DEF TaskRecords, Stages
  <2>2. /\ task' = [task EXCEPT ![t] = k]
        /\ crossed' = IF others # {} THEN crossed \cup {c} ELSE crossed
    BY <1>0, <1>3 DEF Look
  <2>3. UNCHANGED <<rows, leads, screens, outside, bought, charged, twice, again, raced, disturbed, uploaded>>
    BY DEF Look
  <2> HIDE DEF k
  <2>4. TaskOK(k)
    BY <1>1, <2>1 DEF TaskOK
  <2>5. task' \in [Tasks -> TaskRecords]
    BY <1>0, <2>1, <2>2
  <2>6. /\ task'[t] = k
        /\ \A u \in Tasks \ {t} : task'[u] = task[u]
    BY <1>0, <2>2
  <2>7. \A u \in Tasks : TaskOK(task'[u])
    BY <1>0, <2>4, <2>6
  <2>8. \A u \in Tasks : TaskOK(task[u])'
    BY <2>3, <2>7 DEF TaskOK, Asks, Marks, Meant, Twins, Rows, rows
  <2>9. crossed \subseteq crossed' /\ crossed' \subseteq Clients
    BY <1>0, <1>1, <2>2 DEF TypeOK
  <2>10. InsertsNew'
    <3> SUFFICES ASSUME NEW u \in Tasks, task'[u].at = "inserting",
                        Existing(task[u].client, Wanted(u))' # {}
                 PROVE  task'[u].client \in crossed'
      BY DEF InsertsNew
    <3>1. task'[u].client = task[u].client /\ task'[u].todo = task[u].todo
      BY <2>1, <2>6
    <3>2. Existing(task[u].client, Wanted(u)) # {}
      BY <2>3, <3>1 DEF Existing, Wanted, Rows, rows
    <3>3. u # t
      BY <1>3, <3>2
    <3> QED BY <1>0, <2>6, <2>9, <3>2, <3>3 DEF InsertsNew
  <2>11. InsertsApart'
    <3> SUFFICES ASSUME NEW u \in Tasks, NEW v \in Tasks, u # v,
                        task'[u].at = "inserting", task'[v].at = "inserting",
                        task'[u].client = task'[v].client, Head(task'[u].todo) = Head(task'[v].todo)
                 PROVE  task'[u].client \in crossed'
      BY DEF InsertsApart, Wanted
    <3>1. \A w \in Tasks : task'[w].client = task[w].client /\ task'[w].todo = task[w].todo
      BY <2>1, <2>6
    <3>2. CASE u # t /\ v # t
      BY <1>0, <2>6, <2>9, <3>1, <3>2 DEF InsertsApart, Wanted
    <3>3. ASSUME NEW w \in Tasks \ {t}, task[w].at = "inserting", task[w].client = c, Wanted(w) = Wanted(t)
          PROVE  c \in crossed'
      <4>1. w \in others
        BY <3>3 DEF Busy
      <4> QED BY <2>2, <4>1
    <3>4. CASE u = t
      BY <2>6, <3>1, <3>3, <3>4 DEF Wanted
    <3>5. CASE v = t
      BY <2>6, <3>1, <3>3, <3>5 DEF Wanted
    <3> QED BY <3>2, <3>4, <3>5
  <2>12. TypeOK' /\ RowsTyped' /\ (charged \subseteq done["order"])'
    BY <1>0, <2>3, <2>9 DEF IInv, TypeOK, RowsTyped, rows, screens, Rows
  <2>13. OneApplication' /\ StepsInOrder' /\ LeadOnce' /\ LeadsAccounted'
    BY <2>3, <2>9 DEF IInv, OneApplication, StepsInOrder, LeadOnce, LeadsAccounted, Twins, rows, Rows
  <2> QED BY <2>5, <2>8, <2>10, <2>11, <2>12, <2>13 DEF IInv
<1> QED BY <1>2, <1>3

\* A new row has no twin, unless the client has crossed.
LEMMA InsertStep == ASSUME IInv, NEW t \in Tasks, Insert(t) PROVE IInv'
<1>0. TypeOK /\ task \in [Tasks -> TaskRecords] /\ task[t] \in TaskRecords /\ RowsTyped
      /\ (\A u \in Tasks : TaskOK(task[u])) /\ InsertsNew /\ InsertsApart
      /\ OneApplication /\ StepsInOrder /\ LeadOnce /\ LeadsAccounted /\ charged \subseteq done["order"]
  BY DEF IInv
<1> DEFINE c == task[t].client
           nm_id == Wanted(t)
           new == last + 1
           rest == Tail(task[t].todo)
           k == [task[t] EXCEPT !.at = "creating", !.todo = Tail(@)]
<1>1. /\ task[t].at = "inserting" /\ task[t].todo # <<>> /\ c \in Clients
      /\ task[t].what \in Creators /\ task[t].todo \in Seq(Articles)
  BY <1>0 DEF Insert, TaskOK
<1>2. nm_id \in Articles /\ rest \in Seq(Articles) /\ rest \in Seq(Articles \cup Applications)
  BY <1>1 DEF Wanted
<1>3. /\ last' = new /\ client' = [client EXCEPT ![new] = c] /\ article' = [article EXCEPT ![new] = nm_id]
      /\ task' = [task EXCEPT ![t] = k]
      /\ UNCHANGED <<done, canceled, paid, leads, screens, outside, history>>
  BY <1>0 DEF Insert
<1>4. /\ last \in Nat /\ new \in 1 .. MaxApplications /\ new \in Applications
      /\ new \notin Rows /\ Rows' = Rows \cup {new} /\ Rows \subseteq Applications
  BY <1>0, <1>3, BuyerFlowAssumption DEF TypeOK, Insert, Rows, Applications
<1>5. /\ k \in TaskRecords /\ k.at = "creating" /\ k.what = task[t].what
      /\ k.client = c /\ k.todo = rest
  <2> HIDE DEF rest
  <2>1. k = [task[t] EXCEPT !.at = "creating", !.todo = rest]
    BY <1>0 DEF TaskRecords, rest
  <2> QED BY <1>0, <1>2, <2>1 DEF TaskRecords, Stages
<1> HIDE DEF k, rest, nm_id, new
<1>6. TaskOK(k)
  BY <1>1, <1>2, <1>5 DEF TaskOK
<1>7. task' \in [Tasks -> TaskRecords] /\ (\A u \in Tasks : TaskOK(task'[u])) /\ NoNewInsert
  BY <1>3, <1>5, <1>6, OneTask
<1>8. task'[t] = k /\ \A u \in Tasks \ {t} : task'[u] = task[u]
  BY <1>0, <1>3
<1>9. /\ client'[new] = c /\ article'[new] = nm_id
      /\ \A b \in Rows : client'[b] = client[b] /\ article'[b] = article[b]
  BY <1>0, <1>3, <1>4 DEF TypeOK
<1>10. TypeOK'
  <2>1. last' \in 0 .. MaxApplications
    BY <1>3, <1>4
  <2>2. /\ client' \in [Applications -> Clients \cup {Nobody}]
        /\ article' \in [Applications -> Articles \cup {Nobody}]
    BY <1>0, <1>1, <1>2, <1>3 DEF TypeOK
  <2>3. done' \in [Steps -> SUBSET Rows']
    BY <1>0, <1>3, <1>4 DEF TypeOK
  <2> QED BY <1>0, <1>3, <1>4, <2>1, <2>2, <2>3 DEF TypeOK, screens, history
<1>11. RowsTyped' /\ (charged \subseteq done["order"])'
  BY <1>0, <1>1, <1>2, <1>3, <1>4, <1>9 DEF RowsTyped, history
<1>12. \A u \in Tasks : TaskOK(task[u])'
  <2> TAKE u \in Tasks
  <2>1. Grows /\ Spared(task'[u])
    BY <1>0, <1>3, <1>4, <1>9 DEF Grows, Spared, TypeOK, history
  <2>2. task'[u] \in TaskRecords /\ TaskOK(task'[u])
    BY <1>7
  <2> QED BY <1>0, <2>1, <2>2, TaskKept
<1>13. InsertsNew'
  <2> SUFFICES ASSUME NEW u \in Tasks, task'[u].at = "inserting",
                      Existing(task[u].client, Wanted(u))' # {}
               PROVE  task'[u].client \in crossed'
    BY DEF InsertsNew
  <2>1. u # t /\ task'[u] = task[u]
    BY <1>5, <1>8
  <2>2. PICK b \in Rows' : client'[b] = task[u].client /\ article'[b] = Wanted(u)
    BY <2>1 DEF Existing, Wanted
  <2>3. CASE b \in Rows
    <3>1. Existing(task[u].client, Wanted(u)) # {}
      BY <1>9, <2>2, <2>3 DEF Existing
    <3> QED BY <1>0, <1>3, <2>1, <3>1 DEF InsertsNew, history
  <2>4. CASE b = new
    <3>1. task[u].client = c /\ Wanted(u) = Wanted(t)
      BY <1>9, <2>2, <2>4 DEF nm_id
    <3> QED BY <1>0, <1>1, <1>3, <2>1, <3>1 DEF InsertsApart, history
  <2> QED BY <1>4, <2>3, <2>4
<1>14. InsertsApart'
  BY <1>0, <1>3, <1>7 DEF InsertsApart, NoNewInsert, Wanted, history
<1>15. \A b \in Rows : Twins(b) \subseteq Twins(b)'
  BY <1>4, <1>9 DEF Twins
<1>16. OneApplication'
  <2> SUFFICES ASSUME NEW b \in Rows', NEW r \in Rows', r # b,
                      client'[r] = client'[b], article'[r] = article'[b]
               PROVE  client'[b] \in crossed'
    BY DEF OneApplication, Twins
  <2>1. CASE b \in Rows /\ r \in Rows
    BY <1>0, <1>3, <1>9, <2>1 DEF OneApplication, Twins, history
  <2>2. ASSUME NEW x \in Rows, client[x] = c, article[x] = nm_id
        PROVE  c \in crossed'
    <3>1. Existing(c, Wanted(t)) # {}
      BY <2>2 DEF Existing, nm_id
    <3> QED BY <1>0, <1>1, <1>3, <3>1 DEF InsertsNew, history
  <2>3. CASE b = new /\ r \in Rows
    BY <1>9, <2>2, <2>3
  <2>4. CASE r = new /\ b \in Rows
    BY <1>9, <2>2, <2>4
  <2> QED BY <1>4, <2>1, <2>3, <2>4
<1>17. StepsInOrder'
  <2> SUFFICES ASSUME NEW b \in Rows' \ uploaded, Twins(b)' = {}
               PROVE  /\ b \in done["feedback"] => b \in done["order"]
                      /\ b \in done["labels"] => b \in done["feedback"]
    BY <1>3 DEF StepsInOrder, history
  <2>1. CASE b \in Rows
    BY <1>0, <1>15, <2>1 DEF StepsInOrder
  <2>2. CASE b = new
    BY <1>0, <1>4, <2>2 DEF TypeOK, Steps
  <2> QED BY <1>4, <2>1, <2>2
<1>18. LeadOnce'
  <2>1. twice \subseteq Rows
    BY <1>0 DEF TypeOK
  <2> QED BY <1>0, <1>3, <1>15, <2>1 DEF LeadOnce, history
<1>19. LeadsAccounted'
  BY <1>0, <1>3 DEF LeadsAccounted, history
<1> QED BY <1>7, <1>10, <1>11, <1>12, <1>13, <1>14, <1>16, <1>17, <1>18, <1>19 DEF IInv

-----------------------------------------------------------------------------
(* The invariant, and what follows from it.                                *)

LEMMA StutterStep == ASSUME IInv, UNCHANGED vars PROVE IInv'
<1>1. Surface'
  BY SameSurface DEF vars, rows, screens, history
<1> QED BY <1>1, NoTask, QuietStep DEF vars, rows, screens, history, Facts

LEMMA NextStep == IInv /\ [Next]_vars => IInv'
<1> SUFFICES ASSUME IInv, [Next]_vars PROVE IInv'
  OBVIOUS
<1>1. CASE \E c \in Clients : Message(c)
  BY <1>1, MessageStep
<1>2. CASE \E t \in Tasks : Progress(t)
  <2> SUFFICES ASSUME NEW t \in Tasks, Progress(t) PROVE IInv'
    BY <1>2
  <2> QED BY ReadStep, AnswerStep, ReadLeadsStep, MarkOrderedStep, MarkStepStep, FinishStep,
             LookStep, InsertStep, StartDialogStep DEF Progress
<1>3. CASE \E t \in Tasks : Cut(t)
  BY <1>3, CutStep
<1>4. CASE Surroundings
  BY <1>4, ConfirmStep, CancelStep, PayStep, PostBuyerStep, UploadStep, PurchaseStep DEF Surroundings
<1>5. CASE UNCHANGED vars
  BY <1>5, StutterStep
<1> QED BY <1>1, <1>2, <1>3, <1>4, <1>5 DEF Next

\* The strengthened invariant: what a callback means to do is still right when it
\* does it, however long it waited for the model.
THEOREM Invariant == Spec => []IInv
BY InitInv, NextStep, PTL DEF Spec

\* A client has two applications for an article only if two creations crossed.
THEOREM OneEach == Spec => []OneApplication
<1>1. IInv => OneApplication
  BY DEF IInv
<1> QED BY <1>1, Invariant, PTL

\* The bot and the seller take an application's steps in order.
THEOREM InOrder == Spec => []StepsInOrder
<1>1. IInv => StepsInOrder
  BY DEF IInv
<1> QED BY <1>1, Invariant, PTL

\* Without a stale write or a second acceptance, leads are what was bought less the
\* orders that cost one.
THEOREM LeadsAddUp == Spec => []LeadsAccounted
<1>1. IInv => LeadsAccounted
  BY DEF IInv
<1> QED BY <1>1, Invariant, PTL

\* An order costs a second lead only if two callbacks looked at it, the model named
\* it twice, or it has a twin.
THEOREM ChargedOnce == Spec => []LeadOnce
<1>1. IInv => LeadOnce
  BY DEF IInv
<1> QED BY <1>1, Invariant, PTL

-----------------------------------------------------------------------------
(* DialogServes.  The strengthening follows a client that is not disturbed *)
(* through the callback that works for it.  There is only one; what it has *)
(* read of the client's applications is all there is of them but newer     *)
(* ones that nobody has touched; and whatever it accepts leaves something  *)
(* for the screen it opens when it is done.  Twins are why that needs an   *)
(* argument: the newest of them is marked for the article, so an           *)
(* application may be ahead of its steps, but then an older one is behind. *)

\* A client's applications, and those at which nothing has happened.
Mine(c) == {b \in Rows : client[b] = c}
Untouched(b) == b \notin canceled \cup paid \cup done["order"] \cup done["feedback"] \cup done["labels"]

\* An older active twin that the step s is asked of.
Behind(s, b) == {p \in Twins(b) \cap Pending(s, Active(client[b])) : p < b}

\* An application gets ahead of a step only as the newest of twins of which an
\* older one is at that step.
Supported(c) ==
    \A b \in Active(c) :
        /\ b \in done["feedback"] => b \in done["order"] \/ Behind("feedback", b) # {}
        /\ b \in done["labels"] => b \in done["feedback"] \/ Behind("labels", b) # {}

\* Newer twins came after the list was read.
NewestActive(b) == \A r \in Twins(b) \cap Active(client[b]) : b < r => Untouched(r)

\* What a callback that reads a photo has read, and what it has concluded.
Read(k) ==
    /\ k.seen \subseteq Active(k.client)
    /\ \A b \in Active(k.client) \ k.seen : Untouched(b) /\ \A p \in k.seen : p < b
    /\ k.asked = {article[b] : b \in Pending(k.what, k.seen)}

\* Something is left for the screen that follows.
Ahead(s, c) ==
    CASE s = "order" -> \E b \in Active(c) : b \notin done["feedback"]
      [] s = "feedback" -> \E b \in Active(c) \ done["labels"] : b \in done["order"] \cup done["feedback"]
      [] s = "labels" -> \E b \in Active(c) : b \in done["feedback"] \cup done["labels"]

\* What may be marked: what is ready for the step, or has a twin that waits for it.
Ready(s, b) == s = "order" \/ (s = "feedback" /\ b \in done["order"]) \/ (s = "labels" /\ b \in done["feedback"])
Accepted(k) ==
    /\ Ahead(k.what, k.client)
    /\ \A i \in DOMAIN k.todo :
         /\ k.todo[i] \in Active(k.client)
         /\ Ready(k.what, k.todo[i]) \/ Behind(k.what, k.todo[i]) # {}
         /\ NewestActive(k.todo[i])
    /\ \A i, j \in DOMAIN k.todo : article[k.todo[i]] = article[k.todo[j]] => k.todo[i] = k.todo[j]

\* No application for one of the articles was begun.
New(S, c) == \A b \in Mine(c) : article[b] \in S => Untouched(b)
Elements(q) == {q[i] : i \in DOMAIN q}

\* What a callback believes is right.
Sound(k) ==
    /\ k.what \in Steps => k.home
    /\ k.what \in Steps /\ k.at = "asking" => Read(k)
    /\ k.at \in {"marking", "paying"} => Accepted(k)
    /\ k.what = "intake" =>
        /\ k.at = "reading" => \A b \in Mine(k.client) : b \in canceled \cup Complete \/ Untouched(b)
        /\ k.at = "asking" => New(k.asked, k.client)
        /\ k.at \in {"creating", "inserting"} =>
             /\ New(Elements(k.todo), k.client)
             /\ k.todo = <<>> => \E b \in Mine(k.client) : Untouched(b)

\* The callback is about to open the next screen, or the first.
Marking(c) == \E t \in Callbacks(c) : task[t].at \in {"marking", "paying"}
Creating(c) == \E t \in Callbacks(c) : task[t].at \in {"creating", "inserting"} /\ task[t].what = "intake"

\* What DialogServes promises.
Asking(c) == dialog[c] # "closed" => Pending(dialog[c], Active(c)) # {}
Heard(c) == engaged[c] => dialog[c] # "closed"

Served(c) ==
    /\ \A t, u \in Callbacks(c) : t = u
    /\ Mine(c) \cap paid = {}
    /\ Supported(c)
    /\ Marking(c) \/ Asking(c)
    /\ Creating(c) \/ Heard(c)
    /\ \A t \in Callbacks(c) : Sound(task[t])

\* A callback has its own client's applications in hand.
Owns(k) ==
    /\ k.at = "asking" /\ k.what \in Steps => k.seen \subseteq Mine(k.client)
    /\ k.at \in {"marking", "paying"} => \A i \in DOMAIN k.todo : k.todo[i] \in Mine(k.client)
Own == \A t \in Tasks : Owns(task[t])

ServedInv == Own /\ \A c \in Clients \ disturbed : Served(c)

\* Nothing of the client's is marked, cancelled or paid, and what is new to it is
\* untouched and newer.
Kept(c) ==
    /\ \A b \in Mine(c) :
         /\ b \in Mine(c)' /\ article'[b] = article[b]
         /\ \A s \in Steps : b \in done'[s] <=> b \in done[s]
         /\ b \in canceled' <=> b \in canceled
         /\ b \in paid' <=> b \in paid
    /\ \A b \in Mine(c)' \ Mine(c) : Untouched(b)' /\ \A r \in Mine(c) : r < b

\* What of a client's is active.
LEMMA MineActive == ASSUME NEW c PROVE Active(c) = Mine(c) \ (canceled \cup paid)
BY DEF Active, Mine

\* While the marks of a client's applications are kept, they stay active, and a new
\* one is.
LEMMA KeptActive ==
    ASSUME NEW c, Kept(c)
    PROVE  /\ \A b \in Mine(c) : b \in Active(c)' <=> b \in Active(c)
           /\ \A b \in Mine(c)' \ Mine(c) : b \in Active(c)'
BY DEF Active, Mine, Kept, Untouched

\* ... what waits for a screen goes on waiting ...
LEMMA KeptPending ==
    ASSUME NEW c, Kept(c), NEW s \in Screens \ {"closed"}
    PROVE  /\ Pending(s, Active(c)) \subseteq Pending(s, Active(c))'
           /\ \A B \in SUBSET Mine(c) : Pending(s, B) = Pending(s, B)'
<1>1. "order" \in Steps /\ "feedback" \in Steps /\ "labels" \in Steps
  BY DEF Steps
<1>2. \A b \in Mine(c) : \A x \in Steps : b \in done'[x] <=> b \in done[x]
  BY DEF Kept
<1>3. \A B \in SUBSET Mine(c) : Pending(s, B) = Pending(s, B)'
  BY <1>1, <1>2 DEF Pending, Screens, Steps
<1>4. Active(c) \subseteq Mine(c) /\ Active(c) \subseteq Active(c)'
  BY KeptActive DEF Active, Mine
<1>5. Pending(s, Active(c)) \subseteq Pending(s, Active(c))'
  BY <1>1, <1>2, <1>4 DEF Pending, Screens, Steps
<1> QED BY <1>3, <1>5

\* ... older twins stay behind ...
LEMMA KeptBehind ==
    ASSUME NEW c, Kept(c), NEW s \in Steps, NEW b \in Mine(c)
    PROVE  Behind(s, b) \subseteq Behind(s, b)'
<1> SUFFICES ASSUME NEW p \in Behind(s, b) PROVE p \in Behind(s, b)'
  OBVIOUS
<1>1. client[b] = c /\ client'[b] = c /\ b \in Mine(c)' /\ article'[b] = article[b]
  BY DEF Mine, Kept
<1>2. p \in Twins(b) /\ p \in Pending(s, Active(c)) /\ p < b
  BY <1>1 DEF Behind
<1>3. p \in Mine(c) /\ p # b /\ article[p] = article[b]
  BY <1>1, <1>2 DEF Twins, Mine
<1>4. p \in Mine(c)' /\ article'[p] = article[p]
  BY <1>3 DEF Kept
<1>5. p \in Pending(s, Active(c))'
  BY <1>2, KeptPending DEF Screens, Steps
<1>6. p \in Twins(b)'
  BY <1>1, <1>3, <1>4 DEF Twins, Mine
<1> QED BY <1>1, <1>2, <1>5, <1>6 DEF Behind

\* ... so that whoever is ahead still has one behind.
LEMMA KeptSupported == ASSUME NEW c, Kept(c), Supported(c) PROVE Supported(c)'
<1> SUFFICES ASSUME NEW b \in Active(c)'
             PROVE  /\ b \in done'["feedback"] => b \in done'["order"] \/ Behind("feedback", b)' # {}
                    /\ b \in done'["labels"] => b \in done'["feedback"] \/ Behind("labels", b)' # {}
  BY DEF Supported
<1>0. "order" \in Steps /\ "feedback" \in Steps /\ "labels" \in Steps
  BY DEF Steps
<1>1. CASE b \in Mine(c)
  <2>1. b \in Active(c) /\ \A s \in Steps : b \in done'[s] <=> b \in done[s]
    BY <1>1, KeptActive DEF Kept
  <2>2. Behind("feedback", b) \subseteq Behind("feedback", b)' /\ Behind("labels", b) \subseteq Behind("labels", b)'
    BY <1>0, <1>1, KeptBehind
  <2> QED BY <1>0, <2>1, <2>2 DEF Supported
<1>2. CASE b \notin Mine(c)
  <2>1. b \in Mine(c)'
    BY DEF Active, Mine
  <2> QED BY <1>2, <2>1 DEF Kept, Untouched
<1> QED BY <1>1, <1>2

\* The steps.
LEMMA StepNames == "order" \in Steps /\ "feedback" \in Steps /\ "labels" \in Steps
BY DEF Steps

\* What nobody has touched stays so.
LEMMA KeptUntouched ==
    ASSUME NEW c, Kept(c), NEW b \in Mine(c)'
    PROVE  (b \in Mine(c) /\ ~Untouched(b)) \/ Untouched(b)'
BY StepNames DEF Kept, Untouched

\* ... and so does what is newer than an application.
LEMMA KeptNewest ==
    ASSUME NEW c, Kept(c), NEW b \in Mine(c), NewestActive(b)
    PROVE  NewestActive(b)'
<1> SUFFICES ASSUME NEW r \in Twins(b)', r \in Active(client[b])', b < r PROVE Untouched(r)'
  BY DEF NewestActive
<1>1. client[b] = c /\ client'[b] = c /\ article'[b] = article[b]
  BY DEF Mine, Kept
<1>2. r \in Mine(c)' /\ r \in Active(c)' /\ r # b /\ article'[r] = article'[b]
  BY <1>1 DEF Twins, Mine
<1>3. CASE r \in Mine(c)
  <2>1. r \in Active(c) /\ article[r] = article[b]
    BY <1>1, <1>2, <1>3, KeptActive DEF Kept
  <2>2. r \in Twins(b)
    BY <1>1, <1>2, <1>3, <2>1 DEF Twins, Mine
  <2>3. Untouched(r)
    BY <1>1, <2>1, <2>2 DEF NewestActive
  <2> QED BY <1>2, <1>3, <2>3, KeptUntouched
<1>4. CASE r \notin Mine(c)
  BY <1>2, <1>4 DEF Kept
<1> QED BY <1>3, <1>4

\* What a callback read is still right ...
LEMMA KeptRead ==
    ASSUME NEW k \in TaskRecords, k.what \in Steps, Kept(k.client), Read(k)
    PROVE  Read(k)'
<1> DEFINE c == k.client
<1>1. k.seen \subseteq Active(c) /\ Active(c) \subseteq Mine(c)
  BY DEF Read, Active, Mine
<1>2. k.seen \subseteq Active(c)'
  BY <1>1, KeptActive
<1>3. ASSUME NEW b \in Active(c)' \ k.seen
      PROVE  Untouched(b)' /\ \A p \in k.seen : p < b
  <2>1. b \in Mine(c)'
    BY DEF Active, Mine
  <2>2. CASE b \in Mine(c)
    <3>1. b \in Active(c)
      BY <2>2, KeptActive
    <3> QED BY <2>1, <2>2, <3>1, KeptUntouched DEF Read
  <2>3. CASE b \notin Mine(c)
    BY <1>1, <2>1, <2>3 DEF Kept
  <2> QED BY <2>2, <2>3
<1>4. Pending(k.what, k.seen) = Pending(k.what, k.seen)'
  BY <1>1, KeptPending DEF Screens, Steps
<1>5. \A b \in Pending(k.what, k.seen) : article'[b] = article[b]
  BY <1>1 DEF Kept, Pending, Steps
<1>6. k.asked = {article[b] : b \in Pending(k.what, k.seen)}
  BY DEF Read
<1>7. k.asked = {article'[b] : b \in Pending(k.what, k.seen)'}
  BY <1>4, <1>5, <1>6
<1> QED BY <1>2, <1>3, <1>7 DEF Read

\* ... the screen that follows still has something to ask for ...
LEMMA KeptAhead ==
    ASSUME NEW c, NEW s \in Steps, Kept(c), Ahead(s, c)
    PROVE  Ahead(s, c)'
<1>1. \A b \in Active(c) : b \in Active(c)' /\ \A x \in Steps : b \in done'[x] <=> b \in done[x]
  BY KeptActive DEF Kept, Active, Mine
<1> QED BY <1>1, StepNames DEF Ahead, Steps

\* ... what it accepted may still be marked ...
LEMMA KeptAccepted ==
    ASSUME NEW k \in TaskRecords, k.what \in Steps, Kept(k.client), Accepted(k)
    PROVE  Accepted(k)'
<1> DEFINE c == k.client
<1>1. Ahead(k.what, c)'
  BY KeptAhead DEF Accepted
<1>2. ASSUME NEW i \in DOMAIN k.todo
      PROVE  /\ k.todo[i] \in Mine(c) /\ k.todo[i] \in Active(c)'
             /\ Ready(k.what, k.todo[i])' \/ Behind(k.what, k.todo[i])' # {}
             /\ NewestActive(k.todo[i])'
  <2>1. k.todo[i] \in Active(c) /\ k.todo[i] \in Mine(c)
    BY DEF Accepted, Active, Mine
  <2>2. Ready(k.what, k.todo[i]) => Ready(k.what, k.todo[i])'
    BY <2>1, StepNames DEF Ready, Kept
  <2>3. Behind(k.what, k.todo[i]) \subseteq Behind(k.what, k.todo[i])'
    BY <2>1, KeptBehind
  <2> QED BY <2>1, <2>2, <2>3, KeptActive, KeptNewest DEF Accepted
<1>3. \A i \in DOMAIN k.todo : article'[k.todo[i]] = article[k.todo[i]]
  BY <1>2 DEF Kept
<1> QED BY <1>1, <1>2, <1>3 DEF Accepted

\* ... and so whatever it believes.
LEMMA KeptSound ==
    ASSUME NEW k \in TaskRecords, Kept(k.client), Sound(k), k.at \in {"marking", "paying"} => k.what \in Steps
    PROVE  Sound(k)'
<1> DEFINE c == k.client
<1>1. k.what \in Steps /\ k.at = "asking" => Read(k)'
  BY KeptRead DEF Sound
<1>2. k.at \in {"marking", "paying"} => Accepted(k)'
  BY KeptAccepted DEF Sound
<1>3. \A b \in Mine(c)' : b \in Mine(c) \/ Untouched(b)'
  BY DEF Kept
<1>4. \A b \in Mine(c) : article'[b] = article[b] /\ b \in Mine(c)' /\ (Untouched(b) => Untouched(b)')
  BY KeptUntouched DEF Kept
<1>5. \A S : New(S, c) => New(S, c)'
  BY <1>3, <1>4 DEF New
<1>6. ASSUME k.what = "intake", k.at = "reading"
      PROVE  \A b \in Mine(c)' : b \in canceled' \cup Complete' \/ Untouched(b)'
  <2> TAKE b \in Mine(c)'
  <2>1. CASE b \in Mine(c)
    <3>1. b \in canceled \cup Complete \/ Untouched(b)
      BY <1>6, <2>1 DEF Sound
    <3>2. b \in canceled \cup Complete => b \in canceled' \cup Complete'
      BY <2>1, StepNames DEF Kept, Complete
    <3> QED BY <1>4, <2>1, <3>1, <3>2
  <2> QED BY <1>3, <2>1
<1>7. (\E b \in Mine(c) : Untouched(b)) => \E b \in Mine(c)' : Untouched(b)'
  BY <1>4
<1>8. Elements(k.todo)' = Elements(k.todo)
  BY DEF Elements
<1>9. ASSUME k.what = "intake", k.at \in {"creating", "inserting"}
      PROVE  /\ New(Elements(k.todo), c)'
             /\ k.todo = <<>> => \E b \in Mine(c)' : Untouched(b)'
  BY <1>5, <1>7, <1>8, <1>9 DEF Sound
<1> QED BY <1>1, <1>2, <1>5, <1>6, <1>9 DEF Sound

\* What an undisturbed client's callback may still believe, after rows of others moved.
LEMMA KeptTasks ==
    ASSUME NEW c, Kept(c)
    PROVE  \A k \in TaskRecords :
              /\ k.client = c /\ Sound(k)
              /\ k.at \in {"marking", "paying"} => k.what \in Steps
              => Sound(k)'
<1> TAKE k \in TaskRecords
<1> HAVE /\ k.client = c /\ Sound(k)
         /\ k.at \in {"marking", "paying"} => k.what \in Steps
<1>1. Kept(k.client)
  OBVIOUS
<1> QED BY <1>1, KeptSound

\* An open screen still asks for something.
LEMMA KeptAsking ==
    ASSUME NEW c, Kept(c), dialog \in [Clients -> Screens], c \in Clients, dialog'[c] = dialog[c], Asking(c)
    PROVE  Asking(c)'
BY KeptPending DEF Asking

\* A client without a paid application still has none.
LEMMA KeptUnpaid == ASSUME NEW c, Kept(c), Mine(c) \cap paid = {} PROVE (Mine(c) \cap paid = {})'
BY DEF Kept, Untouched

\* Who is a client's callback.
LEMMA CallbacksAre ==
    \A c : \A t : t \in Callbacks(c) <=> /\ t \in Tasks /\ task[t].at # "idle"
                                         /\ task[t].client = c /\ task[t].what # "request"
BY DEF Callbacks, Busy

\* A callback that marks does so for a step.
LEMMA MarksSteps ==
    ASSUME IInv, NEW t \in Tasks
    PROVE  task[t] \in TaskRecords /\ (task[t].at \in {"marking", "paying"} => task[t].what \in Steps)
BY DEF IInv, TaskOK, Marks

\* The client is served as before when nothing of the client's has moved.
LEMMA ServedAside ==
    ASSUME IInv, NEW c \in Clients, Served(c), Kept(c),
           Callbacks(c)' = Callbacks(c), \A t \in Callbacks(c) : task'[t] = task[t],
           dialog'[c] = dialog[c], engaged'[c] = engaged[c]
    PROVE  Served(c)'
<1>0. dialog \in [Clients -> Screens]
  BY DEF IInv, TypeOK
<1>1. (\A t, u \in Callbacks(c) : t = u)'
  BY DEF Served
<1>2. (Mine(c) \cap paid = {})' /\ Supported(c)'
  BY KeptUnpaid, KeptSupported DEF Served
<1>3. Marking(c)' \/ Asking(c)'
  BY <1>0, KeptAsking DEF Served, Marking
<1>4. Creating(c)' \/ Heard(c)'
  BY DEF Served, Creating, Heard
<1>5. ASSUME NEW t \in Callbacks(c)' PROVE Sound(task[t])'
  <2>1. t \in Tasks /\ task[t].client = c /\ Sound(task[t]) /\ task'[t] = task[t]
    BY <1>5, CallbacksAre DEF Served
  <2>2. PICK k : k = task[t]
    OBVIOUS
  <2>3. Sound(k)'
    BY <2>1, <2>2, MarksSteps, KeptTasks
  <2> QED BY <2>1, <2>2, <2>3 DEF Sound, Read, Accepted
<1> QED BY <1>1, <1>2, <1>3, <1>4, <1>5 DEF Served

\* The client's callback moves on.
LEMMA ServedMoves ==
    ASSUME IInv, NEW c \in Clients, Served(c), NEW t \in Callbacks(c), NEW k \in TaskRecords,
           task' = [task EXCEPT ![t] = k],
           k.at # "idle", k.client = c, k.what = task[t].what,
           (Mine(c) \cap paid = {})', Supported(c)', Sound(k)',
           k.at \in {"marking", "paying"} \/ Asking(c)',
           (k.at \in {"creating", "inserting"} /\ k.what = "intake") \/ Heard(c)'
    PROVE  Served(c)'
<1>1. task \in [Tasks -> TaskRecords] /\ t \in Tasks /\ task[t].what # "request"
  BY CallbacksAre DEF IInv
<1>2. task'[t] = k /\ \A u \in Tasks \ {t} : task'[u] = task[u]
  BY <1>1
<1>3. \A u \in Callbacks(c) : u = t
  BY DEF Served
<1>4. Callbacks(c)' = {t}
  <2>1. t \in Callbacks(c)'
    BY <1>1, <1>2 DEF Callbacks, Busy
  <2>2. ASSUME NEW u \in Callbacks(c)', u # t PROVE FALSE
    BY <1>2, <1>3, <2>2 DEF Callbacks, Busy
  <2> QED BY <2>1, <2>2
<1>5. Marking(c)' \/ Asking(c)'
  BY <1>2, <1>4 DEF Marking
<1>6. Creating(c)' \/ Heard(c)'
  BY <1>2, <1>4 DEF Creating
<1>7. Sound(task[t])'
  BY <1>2 DEF Sound, Read, Accepted
<1> QED BY <1>4, <1>5, <1>6, <1>7 DEF Served

\* No callback of the client is left.
LEMMA ServedEnds ==
    ASSUME NEW c \in Clients, Callbacks(c)' = {},
           (Mine(c) \cap paid = {})', Supported(c)', Asking(c)', Heard(c)'
    PROVE  Served(c)'
BY DEF Served

-----------------------------------------------------------------------------
\* Another task moves, and is not the client's callback afterwards either.
LEMMA OneMoves ==
    ASSUME IInv, NEW c, NEW t \in Tasks, NEW k, task' = [task EXCEPT ![t] = k], t \notin Callbacks(c),
           k.at = "idle" \/ k.client # c \/ k.what = "request"
    PROVE  Callbacks(c)' = Callbacks(c) /\ \A u \in Callbacks(c) : task'[u] = task[u]
<1>1. task'[t] = k /\ \A u \in Tasks \ {t} : task'[u] = task[u]
  BY DEF IInv
<1>2. \A u \in Tasks \ {t} : u \in Callbacks(c)' <=> u \in Callbacks(c)
  BY <1>1 DEF Callbacks, Busy
<1>3. t \notin Callbacks(c)'
  BY <1>1 DEF Callbacks, Busy
<1>4. Callbacks(c)' \subseteq Tasks /\ Callbacks(c) \subseteq Tasks
  BY DEF Callbacks, Busy
<1> QED BY <1>1, <1>2, <1>3, <1>4

\* An undisturbed client's only callback ends.
LEMMA OneEnds ==
    ASSUME IInv, NEW c, Served(c), NEW t \in Callbacks(c), task' = [task EXCEPT ![t] = Blank]
    PROVE  Callbacks(c)' = {}
<1>1. task'[t] = Blank /\ \A u \in Tasks \ {t} : task'[u] = task[u]
  BY CallbacksAre DEF IInv
<1>2. \A u \in Callbacks(c) : u = t
  BY DEF Served
<1> QED BY <1>1, <1>2 DEF Callbacks, Busy, Blank

\* Orphaned callbacks are where they were.
LEMMA OrphanedAre ==
    ASSUME IInv, NEW d, NEW t \in Tasks
    PROVE  /\ Orphaned(d)[t].at = task[t].at /\ Orphaned(d)[t].what = task[t].what
           /\ Orphaned(d)[t].client = task[t].client
           /\ Orphaned(d)[t].seen = task[t].seen /\ Orphaned(d)[t].todo = task[t].todo
           /\ task[t].client # d => Orphaned(d)[t] = task[t]
<1>1. task[t] \in TaskRecords
  BY DEF IInv
<1>2. Orphaned(d)[t] = IF task[t].client = d THEN [task[t] EXCEPT !.home = FALSE] ELSE task[t]
  BY DEF Orphaned
<1> QED BY <1>1, <1>2 DEF TaskRecords

\* ... so that every client has the callbacks it had ...
LEMMA OrphanedStay ==
    ASSUME IInv, NEW d, NEW c, task' = Orphaned(d)
    PROVE  /\ Callbacks(c)' = Callbacks(c)
           /\ c # d => \A u \in Callbacks(c) : task'[u] = task[u]
<1>1. \A u \in Tasks : /\ task'[u].at = task[u].at /\ task'[u].what = task[u].what
                       /\ task'[u].client = task[u].client
                       /\ task[u].client # d => task'[u] = task[u]
  BY OrphanedAre
<1>2. Callbacks(c)' = Callbacks(c)
  BY <1>1 DEF Callbacks, Busy
<1> QED BY <1>1, <1>2, CallbacksAre

\* ... but for one that ends.
LEMMA OrphanedEnd ==
    ASSUME IInv, NEW d, NEW c, NEW t \in Tasks, task' = [Orphaned(d) EXCEPT ![t] = Blank]
    PROVE  /\ Callbacks(c)' = Callbacks(c) \ {t}
           /\ c # d => \A u \in Callbacks(c) \ {t} : task'[u] = task[u]
<1>0. task'[t] = Blank /\ \A u \in Tasks \ {t} : task'[u] = Orphaned(d)[u]
  BY DEF Orphaned
<1>1. \A u \in Tasks \ {t} : /\ task'[u].at = task[u].at /\ task'[u].what = task[u].what
                             /\ task'[u].client = task[u].client
                             /\ task[u].client # d => task'[u] = task[u]
  BY <1>0, OrphanedAre
<1>2. t \notin Callbacks(c)'
  BY <1>0 DEF Callbacks, Busy, Blank
<1>3. Callbacks(c)' \subseteq Tasks /\ Callbacks(c) \subseteq Tasks
  BY DEF Callbacks, Busy
<1>4. \A u \in Tasks \ {t} : u \in Callbacks(c)' <=> u \in Callbacks(c)
  BY <1>1 DEF Callbacks, Busy
<1>5. Callbacks(c)' = Callbacks(c) \ {t}
  BY <1>2, <1>3, <1>4
<1> QED BY <1>1, <1>3, <1>5, CallbacksAre

\* Rows.
LEMMA KeptSame == ASSUME NEW c, UNCHANGED rows PROVE Kept(c)
BY DEF Kept, Mine, Rows, rows

\* Marks of others' applications leave a client's as they are.
LEMMA KeptMarks ==
    ASSUME NEW c, UNCHANGED <<last, client, article, canceled, paid>>,
           \A s \in Steps : \A b \in Mine(c) : b \in done'[s] <=> b \in done[s]
    PROVE  Kept(c)
BY DEF Kept, Mine, Rows

\* An insert adds one untouched application, newer than all.
LEMMA KeptInsert ==
    ASSUME IInv, NEW t \in Tasks, NEW c \in Clients, Insert(t)
    PROVE  /\ Kept(c)
           /\ \E new \in Rows' : client'[new] = task[t].client /\ Untouched(new)'
<1>0. TypeOK /\ RowsTyped /\ last \in Nat /\ last < MaxApplications /\ MaxApplications \in Nat
  BY BuyerFlowAssumption DEF IInv, TypeOK, Insert
<1>1. PICK new : new = last + 1
  OBVIOUS
<1>2. /\ last' = new
      /\ client' = [client EXCEPT ![new] = task[t].client]
      /\ article' = [article EXCEPT ![new] = Wanted(t)]
      /\ UNCHANGED <<done, canceled, paid>>
  BY <1>1 DEF Insert
<1>3. Rows' = Rows \cup {new} /\ new \notin Rows /\ Rows \subseteq Applications /\ new \in Applications
  BY <1>0, <1>1, <1>2 DEF Rows, Applications
<1>4. \A b \in Rows : client'[b] = client[b] /\ article'[b] = article[b] /\ b < new
  BY <1>0, <1>1, <1>2, <1>3 DEF TypeOK, Rows
<1>5. Untouched(new)'
  <2>1. canceled \subseteq Rows /\ paid \subseteq Rows /\ \A s \in Steps : done[s] \subseteq Rows
    BY <1>0 DEF TypeOK
  <2> QED BY <1>2, <1>3, <2>1, StepNames DEF Untouched
<1>6. client'[new] = task[t].client
  BY <1>0, <1>2, <1>3 DEF TypeOK
<1>7. \A b \in Mine(c)' \ Mine(c) : b = new
  BY <1>3, <1>4 DEF Mine
<1>8. \A b \in Mine(c) : b \in Rows /\ b \in Mine(c)' /\ article'[b] = article[b] /\ b < new
  BY <1>3, <1>4 DEF Mine
<1>9. Kept(c)
  <2>1. \A b \in Mine(c)' \ Mine(c) : Untouched(b)' /\ \A r \in Mine(c) : r < b
    BY <1>5, <1>7, <1>8
  <2> QED BY <1>2, <1>8, <2>1 DEF Kept
<1> QED BY <1>3, <1>5, <1>6, <1>9

-----------------------------------------------------------------------------
\* The screen that determine_resume_state names asks for something.
LEMMA ResumeServes ==
    ASSUME NEW B, B # {}
    PROVE  /\ Resume(B) \in Screens \ {"closed"} /\ Pending(Resume(B), B) # {}
           /\ Resume(B)' \in Screens \ {"closed"} /\ Pending(Resume(B), B)' # {}
<1>1. Resume(B) \in Screens \ {"closed"} /\ Pending(Resume(B), B) # {}
  BY DEF Resume, Pending, Screens, Steps
<1>2. Resume(B)' \in Screens \ {"closed"} /\ Pending(Resume(B), B)' # {}
  BY DEF Resume, Pending, Screens, Steps
<1> QED BY <1>1, <1>2

\* Without applications there is none.
LEMMA ResumeNothing == Resume({}) = "closed"
BY DEF Resume, Pending

\* More applications wait for at least as much.
LEMMA PendingGrows ==
    ASSUME NEW B, NEW C, B \subseteq C, NEW s \in Screens \ {"closed"}
    PROVE  Pending(s, B) \subseteq Pending(s, C)
BY DEF Pending, Screens, Steps

\* Who touches an undisturbed client's screen finds no callback at work.
LEMMA MeddleAlone == ASSUME NEW c, Meddle(c), c \notin disturbed' PROVE Callbacks(c) = {}
BY DEF Meddle

\* The client's screen changes, and no callback of the client is there to see it.
LEMMA ScreenServes ==
    ASSUME IInv, NEW c \in Clients, Served(c), UNCHANGED rows, Callbacks(c)' = {},
           Asking(c)', Heard(c)'
    PROVE  Served(c)'
<1>1. Kept(c)
  BY KeptSame
<1> QED BY <1>1, KeptUnpaid, KeptSupported, ServedEnds DEF Served

\* A message sets off the client's callback; there is no other, or the client is
\* disturbed.
LEMMA StartServes ==
    ASSUME IInv, NEW c \in Clients, Served(c), c \notin disturbed', NEW d \in Clients,
           NEW t \in Tasks, NEW what \in Steps \cup {"talk", "intake"},
           Start(t, d, what, "reading"), UNCHANGED <<rows, screens>>,
           what = "intake" => Incomplete(d) = {}
    PROVE  Served(c)'
<1> DEFINE home == what \in Steps \cup {"talk"}
           k == [Blank EXCEPT !.at = "reading", !.what = what, !.client = d, !.home = home]
<1>1. /\ k \in TaskRecords /\ k.at = "reading" /\ k.client = d /\ k.what = what /\ k.home = home
  <2>1. home \in BOOLEAN
    OBVIOUS
  <2> HIDE DEF home
  <2>2. what \in Steps \cup Creators /\ "reading" \in Stages
    BY DEF Creators, Stages
  <2> QED BY <2>1, <2>2, BlankOK DEF TaskRecords
<1>2. task[t].at = "idle" /\ task' = [task EXCEPT ![t] = k] /\ Meddle(d)
  BY DEF Start
<1> HIDE DEF k
<1>3. Kept(c)
  BY KeptSame
<1>4. t \notin Callbacks(c)
  BY <1>2, CallbacksAre
<1>5. CASE c # d
  <2>1. Callbacks(c)' = Callbacks(c) /\ \A u \in Callbacks(c) : task'[u] = task[u]
    BY <1>1, <1>2, <1>4, <1>5, OneMoves
  <2> QED BY <1>3, <2>1, ServedAside DEF screens
<1>6. CASE c = d
  <2>1. Callbacks(c) = {}
    BY <1>2, <1>6, MeddleAlone
  <2>2. task'[t] = k /\ \A u \in Tasks \ {t} : task'[u] = task[u]
    BY <1>2 DEF IInv
  <2>3. Callbacks(c)' = {t}
    <3>1. t \in Callbacks(c)'
      BY <1>1, <1>6, <2>2, CallbacksAre DEF Callbacks, Busy, Steps
    <3>2. ASSUME NEW u \in Callbacks(c)', u # t PROVE FALSE
      BY <2>1, <2>2, <3>2 DEF Callbacks, Busy
    <3> QED BY <3>1, <3>2
  <2>4. (Mine(c) \cap paid = {})' /\ Supported(c)'
    BY <1>3, KeptUnpaid, KeptSupported DEF Served
  <2>5. Asking(c)' /\ Heard(c)'
    <3>1. Asking(c) /\ Heard(c)
      BY <2>1 DEF Served, Marking, Creating
    <3> QED BY <1>3, <3>1, KeptAsking DEF screens, Heard, IInv, TypeOK
  <2>6. Sound(k)'
    <3>1. k.what \in Steps => k.home
      BY <1>1
    <3>2. ASSUME what = "intake", NEW b \in Mine(c)' PROVE b \in canceled' \cup Complete'
      <4>1. b \in Mine(c) /\ b \notin paid /\ b \in Complete \cup canceled
        BY <1>6, <3>2 DEF Served, Incomplete, Active, Mine, rows, Rows
      <4> QED BY <4>1 DEF Complete, rows
    <3> QED BY <1>1, <1>6, <3>1, <3>2 DEF Sound
  <2>7. Sound(task[t])'
    BY <2>2, <2>6 DEF Sound, Read, Accepted
  <2> QED BY <2>3, <2>4, <2>5, <2>7 DEF Served
<1> QED BY <1>5, <1>6

\* Whatever a client sends, every client is served as before.
LEMMA MessageServes ==
    ASSUME IInv, NEW c \in Clients, Served(c), c \notin disturbed', NEW d \in Clients, Message(d)
    PROVE  Served(c)'
<1>0. /\ dialog \in [Clients -> Screens] /\ engaged \in [Clients -> BOOLEAN]
  BY DEF IInv, TypeOK
<1>1. ASSUME UNCHANGED rows, c # d, task' = Orphaned(d) \/ UNCHANGED task,
             dialog'[c] = dialog[c], engaged'[c] = engaged[c]
      PROVE  Served(c)'
  <2>1. Kept(c)
    BY <1>1, KeptSame
  <2>2. Callbacks(c)' = Callbacks(c) /\ \A u \in Callbacks(c) : task'[u] = task[u]
    BY <1>1, OrphanedStay DEF Callbacks, Busy
  <2> QED BY <1>1, <2>1, <2>2, ServedAside
<1>2. ASSUME UNCHANGED rows, c = d, task' = Orphaned(c) \/ UNCHANGED task, Meddle(c),
             Asking(c)', Heard(c)'
      PROVE  Served(c)'
  <2>1. Callbacks(c)' = {}
    BY <1>2, MeddleAlone, OrphanedStay DEF Callbacks, Busy
  <2> QED BY <1>2, <2>1, ScreenServes
<1>3. CASE ResumeDialog(d)
  <2>1. CASE c # d
    BY <1>0, <1>1, <1>3, <2>1 DEF ResumeDialog, Open
  <2>2. CASE c = d
    <3>1. dialog'[c] = Resume(Incomplete(c)) /\ Incomplete(c) # {}
      BY <1>0, <1>3, <2>2 DEF ResumeDialog, Open
    <3>2. dialog'[c] \in Screens \ {"closed"} /\ Pending(dialog'[c], Incomplete(c)) # {}
      BY <3>1, ResumeServes
    <3>3. Pending(dialog'[c], Active(c)) # {}
      BY <3>2, PendingGrows DEF Incomplete
    <3>4. Asking(c)' /\ Heard(c)'
      BY <1>3, <3>2, <3>3 DEF Asking, Heard, ResumeDialog, rows, Pending, Active, Rows
    <3> QED BY <1>2, <1>3, <2>2, <3>4 DEF ResumeDialog
  <2> QED BY <2>1, <2>2
<1>4. ASSUME Close(d), UNCHANGED rows, Meddle(d), task' = Orphaned(d)
      PROVE  Served(c)'
  <2>1. CASE c # d
    BY <1>0, <1>1, <1>4, <2>1 DEF Close
  <2>2. CASE c = d
    <3>1. dialog'[c] = "closed" /\ engaged'[c] = FALSE
      BY <1>0, <1>4, <2>2 DEF Close
    <3>2. Asking(c)' /\ Heard(c)'
      BY <3>1 DEF Asking, Heard
    <3> QED BY <1>2, <1>4, <2>2, <3>2
  <2> QED BY <2>1, <2>2
<1>5. CASE Stop(d)
  BY <1>4, <1>5 DEF Stop
<1>6. CASE ConfirmRequisites(d)
  BY <1>4, <1>6 DEF ConfirmRequisites
<1>7. ASSUME UNCHANGED <<rows, dialog, engaged, task>> PROVE Served(c)'
  <2>1. Kept(c) /\ Callbacks(c)' = Callbacks(c) /\ \A u \in Callbacks(c) : task'[u] = task[u]
    BY <1>7, KeptSame DEF Callbacks, Busy
  <2> QED BY <1>7, <2>1, ServedAside
<1>8. CASE InputRequisites(d)
  <2>1. CASE Pending("requisites", Active(d)) = {}
    BY <1>4, <1>8, <2>1 DEF InputRequisites
  <2>2. CASE Pending("requisites", Active(d)) # {}
    BY <1>7, <1>8, <2>2 DEF InputRequisites
  <2> QED BY <2>1, <2>2
<1>9. CASE DeclineRequisites(d)
  BY <1>7, <1>9 DEF DeclineRequisites
<1>10. CASE \E t \in Tasks : Approach(t, d)
  BY <1>10, StartServes DEF Approach
<1>11. CASE \E t \in Tasks : \E what \in Steps \cup {"talk"} : Send(t, d, what)
  <2>1. PICK t \in Tasks, what \in Steps \cup {"talk"} : Send(t, d, what)
    BY <1>11
  <2>2. what # "intake"
    BY DEF Steps
  <2> QED BY <2>1, <2>2, StartServes DEF Send
<1> QED BY <1>3, <1>5, <1>6, <1>8, <1>9, <1>10, <1>11 DEF Message

-----------------------------------------------------------------------------
\* What becomes of the task that takes a step.
LEMMA TaskShape ==
    ASSUME IInv, NEW t \in Tasks, Progress(t) \/ Cut(t)
    PROVE  \/ \E k : /\ task' = [task EXCEPT ![t] = k]
                     /\ k.at = "idle" \/ (k.client = task[t].client /\ k.what = task[t].what)
           \/ /\ task' = [Orphaned(task[t].client) EXCEPT ![t] = Blank]
              /\ task[t].what # "request"
<1>0. task \in [Tasks -> TaskRecords] /\ task[t] \in TaskRecords /\ TaskOK(task[t])
  BY DEF IInv
<1> DEFINE Same(k) == k.client = task[t].client /\ k.what = task[t].what
<1>1. ASSUME End(t) PROVE \E k : task' = [task EXCEPT ![t] = k] /\ k.at = "idle"
  <2>1. Blank.at = "idle"
    BY DEF Blank
  <2> QED BY <1>1, <2>1 DEF End
<1>2. ASSUME NEW k, task' = [task EXCEPT ![t] = k], Same(k)
      PROVE  \E x : task' = [task EXCEPT ![t] = x] /\ (x.at = "idle" \/ Same(x))
  BY <1>2
<1>3. CASE GiveUp(t) \/ Finish(t) \/ Cut(t)
  BY <1>1, <1>3 DEF GiveUp, Finish, Cut
<1>4. CASE ReadOffered(t)
  <2>1. PICK offered : task' = [task EXCEPT ![t].at = "asking", ![t].asked = offered]
    BY <1>4 DEF ReadOffered
  <2> DEFINE k == [task[t] EXCEPT !.at = "asking", !.asked = offered]
  <2>2. task' = [task EXCEPT ![t] = k] /\ Same(k)
    BY <1>0, <2>1 DEF TaskRecords
  <2> HIDE DEF k, Same
  <2> QED BY <1>2, <2>2 DEF Same
<1>5. CASE ReadApplications(t)
  <2>1. PICK seen, asked : task' = [task EXCEPT ![t].at = "asking", ![t].seen = seen, ![t].asked = asked]
    BY <1>5 DEF ReadApplications
  <2> DEFINE k == [task[t] EXCEPT !.at = "asking", !.seen = seen, !.asked = asked]
  <2>2. task' = [task EXCEPT ![t] = k] /\ Same(k)
    BY <1>0, <2>1 DEF TaskRecords
  <2> QED BY <1>2, <2>2
<1>6. ASSUME NEW todo, task' = [task EXCEPT ![t].at = "creating", ![t].todo = todo]
      PROVE  \E x : task' = [task EXCEPT ![t] = x] /\ (x.at = "idle" \/ Same(x))
  <2> DEFINE k == [task[t] EXCEPT !.at = "creating", !.todo = todo]
  <2>2. task' = [task EXCEPT ![t] = k] /\ Same(k)
    BY <1>0, <1>6 DEF TaskRecords
  <2> QED BY <1>2, <2>2
<1>7. ASSUME NEW nm_ids, task' = Accept(t, nm_ids)
      PROVE  \E x : task' = [task EXCEPT ![t] = x] /\ (x.at = "idle" \/ Same(x))
  <2>1. PICK todo : task' = [task EXCEPT ![t].at = "marking", ![t].seen = {}, ![t].asked = {}, ![t].todo = todo]
    BY <1>7 DEF Accept
  <2> DEFINE k == [task[t] EXCEPT !.at = "marking", !.seen = {}, !.asked = {}, !.todo = todo]
  <2>2. task' = [task EXCEPT ![t] = k] /\ Same(k)
    BY <1>0, <2>1 DEF TaskRecords
  <2> QED BY <1>2, <2>2
<1>8. CASE AnswerChat(t)
  BY <1>1, <1>6, <1>8 DEF AnswerChat
<1>9. CASE AnswerQuestion(t)
  <2>1. task[t].what = "talk"
    BY <1>9 DEF AnswerQuestion
  <2>2. \/ End(t) \/ task' = [Orphaned(task[t].client) EXCEPT ![t] = Blank]
        \/ \E todo : task' = [task EXCEPT ![t].at = "creating", ![t].todo = todo]
    BY <1>9 DEF AnswerQuestion
  <2> QED BY <1>1, <1>6, <2>1, <2>2
<1>10. CASE AnswerOrder(t) \/ AnswerFeedback(t) \/ AnswerCutLabels(t)
  <2>1. End(t) \/ \E nm_ids : task' = Accept(t, nm_ids)
    BY <1>10 DEF AnswerOrder, AnswerFeedback, AnswerCutLabels
  <2> QED BY <1>1, <1>7, <2>1
<1>11. CASE ReadLeads(t)
  <2> DEFINE k == [task[t] EXCEPT !.at = "paying", !.lead = leads]
  <2>1. task' = [task EXCEPT ![t] = k] /\ Same(k)
    BY <1>0, <1>11 DEF ReadLeads, TaskRecords
  <2> QED BY <1>2, <2>1
<1>12. CASE MarkOrdered(t) \/ MarkStep(t)
  <2>1. task' = [task EXCEPT ![t] = Advanced(t)] /\ Same(Advanced(t))
    BY <1>0, <1>12 DEF MarkOrdered, MarkStep, Advanced, TaskRecords
  <2> QED BY <1>2, <2>1
<1>13. CASE Look(t)
  <2>1. \/ task' = [task EXCEPT ![t].todo = Tail(@)]
        \/ task' = [task EXCEPT ![t].at = "inserting"]
    BY <1>13 DEF Look
  <2> DEFINE k == [task[t] EXCEPT !.todo = Tail(@)]
             j == [task[t] EXCEPT !.at = "inserting"]
  <2>2. (task' = [task EXCEPT ![t] = k] /\ Same(k)) \/ (task' = [task EXCEPT ![t] = j] /\ Same(j))
    BY <1>0, <2>1 DEF TaskRecords
  <2> QED BY <1>2, <2>2
<1>14. CASE Insert(t)
  <2> DEFINE k == [task[t] EXCEPT !.at = "creating", !.todo = Tail(@)]
  <2>1. task' = [task EXCEPT ![t] = k] /\ Same(k)
    BY <1>0, <1>14 DEF Insert, TaskRecords
  <2> QED BY <1>2, <2>1
<1>15. CASE StartDialog(t)
  <2>1. CASE End(t)
    BY <1>1, <2>1
  <2>2. CASE ~End(t)
    BY <1>15, <2>2 DEF StartDialog
  <2> QED BY <2>1, <2>2
<1> QED BY <1>3, <1>4, <1>5, <1>8, <1>9, <1>10, <1>11, <1>12, <1>13, <1>14, <1>15 DEF Progress

\* A callback moves the screen of its own client only, and a request none.
LEMMA ScreenShape ==
    ASSUME IInv, NEW t \in Tasks, Progress(t) \/ Cut(t), NEW c \in Clients,
           c # task[t].client \/ task[t].what = "request"
    PROVE  dialog'[c] = dialog[c] /\ engaged'[c] = engaged[c]
<1>0. /\ dialog \in [Clients -> Screens] /\ engaged \in [Clients -> BOOLEAN]
  BY DEF IInv, TypeOK
<1>1. CASE GiveUp(t) \/ ReadOffered(t) \/ ReadApplications(t) \/ AnswerOrder(t) \/ AnswerFeedback(t)
           \/ AnswerCutLabels(t) \/ ReadLeads(t) \/ MarkOrdered(t) \/ MarkStep(t) \/ Look(t) \/ Insert(t) \/ Cut(t)
  BY <1>1 DEF screens, GiveUp, ReadOffered, ReadApplications, AnswerOrder, AnswerFeedback,
              AnswerCutLabels, ReadLeads, MarkOrdered, MarkStep, Look, Insert, Cut
<1>2. CASE AnswerChat(t)
  BY <1>0, <1>2 DEF AnswerChat
<1>3. CASE AnswerQuestion(t)
  <2>1. task[t].what = "talk" /\ (UNCHANGED screens \/ Close(task[t].client))
    BY <1>3 DEF AnswerQuestion
  <2> QED BY <1>0, <2>1 DEF Close, screens
<1>4. CASE Finish(t)
  <2>1. task[t].what \in Steps
    BY <1>4 DEF Finish, IInv, TaskOK, Marks
  <2> QED BY <1>0, <1>4, <2>1 DEF Finish, Steps
<1>5. CASE StartDialog(t)
  <2>1. UNCHANGED screens \/ (task[t].what # "request" /\ UNCHANGED engaged /\ \E s : Open(task[t].client, s))
    BY <1>5 DEF StartDialog
  <2> QED BY <1>0, <2>1 DEF Open, screens
<1> QED BY <1>1, <1>2, <1>3, <1>4, <1>5 DEF Progress

\* It marks applications of its own client only.
LEMMA RowShape ==
    ASSUME IInv, Own, NEW t \in Tasks, Progress(t) \/ Cut(t), NEW c \in Clients, t \notin Callbacks(c)
    PROVE  Kept(c)
<1>1. CASE MarkOrdered(t) \/ MarkStep(t)
  <2>1. /\ task[t].at \in {"marking", "paying"} /\ task[t].todo # <<>>
        /\ UNCHANGED <<last, client, article, canceled, paid>>
        /\ \E s \in Steps : done' = [done EXCEPT ![s] = @ \cup {Head(task[t].todo)}]
    BY <1>1 DEF MarkOrdered, MarkStep, IInv, TaskOK, Steps
  <2>2. task[t].what \in Steps /\ task[t].todo \in Seq(Rows)
    BY <2>1 DEF IInv, TaskOK, Marks
  <2>3. Head(task[t].todo) \in Mine(task[t].client)
    BY <2>1, <2>2 DEF Own, Owns
  <2>4. task[t].client # c
    BY <2>1, <2>2, CallbacksAre DEF Steps
  <2>5. Head(task[t].todo) \notin Mine(c)
    BY <2>3, <2>4 DEF Mine
  <2>6. \A s \in Steps : \A b \in Mine(c) : b \in done'[s] <=> b \in done[s]
    BY <2>1, <2>5 DEF IInv, TypeOK
  <2> QED BY <2>1, <2>6, KeptMarks
<1>2. CASE Insert(t)
  BY <1>2, KeptInsert
<1>3. CASE ~(MarkOrdered(t) \/ MarkStep(t) \/ Insert(t))
  <2>1. UNCHANGED rows
    BY <1>3 DEF Progress, rows, GiveUp, ReadOffered, ReadApplications, AnswerChat, AnswerQuestion, AnswerOrder,
           AnswerFeedback, AnswerCutLabels, ReadLeads, Finish, Look, StartDialog, Cut
  <2> QED BY <2>1, KeptSame
<1> QED BY <1>1, <1>2, <1>3

\* A callback's steps leave other clients served.
LEMMA AsideServes ==
    ASSUME IInv, Own, NEW c \in Clients, Served(c), NEW t \in Tasks, t \notin Callbacks(c),
           Progress(t) \/ Cut(t)
    PROVE  Served(c)'
<1>1. task[t].at # "idle"
  BY DEF Progress, GiveUp, ReadOffered, ReadApplications, AnswerChat, AnswerQuestion, AnswerOrder,
         AnswerFeedback, AnswerCutLabels, ReadLeads, MarkOrdered, MarkStep, Finish, Look, Insert, StartDialog, Cut
<1>2. task[t].client # c \/ task[t].what = "request"
  BY <1>1, CallbacksAre
<1>3. Callbacks(c)' = Callbacks(c) /\ \A u \in Callbacks(c) : task'[u] = task[u]
  <2>1. CASE \E k : /\ task' = [task EXCEPT ![t] = k]
                    /\ k.at = "idle" \/ (k.client = task[t].client /\ k.what = task[t].what)
    BY <1>2, <2>1, OneMoves
  <2>2. CASE task' = [Orphaned(task[t].client) EXCEPT ![t] = Blank] /\ task[t].what # "request"
    BY <1>2, <2>2, OrphanedEnd
  <2> QED BY <2>1, <2>2, TaskShape
<1> QED BY <1>2, <1>3, ScreenShape, RowShape, ServedAside

-----------------------------------------------------------------------------
\* The client's own callback.
LEMMA OwnCallback ==
    ASSUME IInv, NEW c \in Clients, Served(c), NEW t \in Callbacks(c)
    PROVE  /\ t \in Tasks /\ task[t].client = c /\ task[t].what # "request" /\ task[t] \in TaskRecords
           /\ TaskOK(task[t]) /\ Sound(task[t])
           /\ Callbacks(c) = {t}
           /\ task[t].at \notin {"marking", "paying"} => Asking(c)
           /\ ~(task[t].at \in {"creating", "inserting"} /\ task[t].what = "intake") => Heard(c)
<1>1. \A u \in Callbacks(c) : u = t
  BY DEF Served
<1> QED BY <1>1, CallbacksAre DEF Served, Marking, Creating, IInv

\* An undisturbed client's callback moves on without changing the client's marks ...
LEMMA OwnMoves ==
    ASSUME IInv, IInv', NEW c \in Clients, Served(c), Kept(c), NEW t \in Callbacks(c), NEW k,
           task' = [task EXCEPT ![t] = k],
           k.at # "idle", k.client = task[t].client, k.what = task[t].what, Sound(k),
           dialog'[c] = dialog[c],
           k.at \in {"marking", "paying"} \/ Asking(c),
           (k.at \in {"creating", "inserting"} /\ k.what = "intake") \/ (Heard(c) /\ engaged'[c] = engaged[c])
    PROVE  Served(c)'
<1>1. t \in Tasks /\ task[t].client = c
  BY OwnCallback
<1>2. task'[t] = k
  BY <1>1 DEF IInv
<1>3. k \in TaskRecords /\ TaskOK(k)'
  BY <1>1, <1>2 DEF IInv, TaskOK, Asks, Marks
<1>4. k.at \in {"marking", "paying"} => k.what \in Steps
  BY <1>3 DEF TaskOK, Marks
<1>5. Sound(k)'
  BY <1>1, <1>3, <1>4, KeptTasks
<1>6. (Mine(c) \cap paid = {})' /\ Supported(c)'
  BY KeptUnpaid, KeptSupported DEF Served
<1>7. Asking(c) => Asking(c)'
  BY KeptAsking DEF IInv, TypeOK
<1>8. Heard(c) /\ engaged'[c] = engaged[c] => Heard(c)'
  BY DEF Heard
<1> QED BY <1>1, <1>3, <1>5, <1>6, <1>7, <1>8, ServedMoves

\* ... or ends.
LEMMA OwnEnds ==
    ASSUME IInv, NEW c \in Clients, Served(c), Kept(c), NEW t \in Callbacks(c), End(t),
           dialog'[c] = dialog[c], engaged'[c] = engaged[c], Asking(c), Heard(c)
    PROVE  Served(c)'
<1>1. Callbacks(c)' = {}
  BY OneEnds DEF End
<1>2. (Mine(c) \cap paid = {})' /\ Supported(c)'
  BY KeptUnpaid, KeptSupported DEF Served
<1>3. Asking(c)' /\ Heard(c)'
  BY KeptAsking DEF IInv, TypeOK, Heard
<1> QED BY <1>1, <1>2, <1>3, ServedEnds

\* What the callback holds next.
LEMMA TaskNow ==
    ASSUME IInv, NEW t \in Tasks
    PROVE  /\ \A k : task' = [task EXCEPT ![t] = k] => task'[t] = k
           /\ \A offered : task' = [task EXCEPT ![t].at = "asking", ![t].asked = offered]
                => task' = [task EXCEPT ![t] = [task[t] EXCEPT !.at = "asking", !.asked = offered]]
           /\ \A todo : task' = [task EXCEPT ![t].at = "creating", ![t].todo = todo]
                => task' = [task EXCEPT ![t] = [task[t] EXCEPT !.at = "creating", !.todo = todo]]
<1>1. task \in [Tasks -> TaskRecords]
  BY DEF IInv
<1> QED BY <1>1

\* It reads what is offered, or the applications of a step.
LEMMA ReadServes ==
    ASSUME IInv, IInv', NEW c \in Clients, Served(c), NEW t \in Callbacks(c),
           ReadOffered(t) \/ ReadApplications(t)
    PROVE  Served(c)'
<1>0. /\ t \in Tasks /\ task[t].client = c /\ task[t] \in TaskRecords /\ Sound(task[t])
      /\ task[t].at = "reading" /\ Asking(c) /\ Heard(c)
  BY OwnCallback DEF ReadOffered, ReadApplications
<1>1. UNCHANGED <<rows, screens>> /\ Kept(c) /\ dialog'[c] = dialog[c] /\ engaged'[c] = engaged[c]
  BY KeptSame DEF ReadOffered, ReadApplications, screens
<1>2. CASE ReadOffered(t)
  <2>1. PICK offered \in SUBSET (Articles \ Bought(c)) :
           task' = [task EXCEPT ![t].at = "asking", ![t].asked = offered]
    BY <1>0, <1>2 DEF ReadOffered
  <2> DEFINE k == [task[t] EXCEPT !.at = "asking", !.asked = offered]
  <2>2. /\ task' = [task EXCEPT ![t] = k]
        /\ k.at = "asking" /\ k.what = task[t].what /\ k.client = c /\ k.asked = offered
    BY <1>0, <2>1, TaskNow DEF TaskRecords
  <2>3. task[t].what \in {"intake", "talk"}
    BY <1>2 DEF ReadOffered
  <2> HIDE DEF k
  <2>4. ASSUME k.what = "intake" PROVE New(offered, c)
    <3> SUFFICES ASSUME NEW b \in Mine(c), article[b] \in offered PROVE Untouched(b)
      BY DEF New
    <3>1. b \notin Complete \cup canceled
      BY <2>1 DEF Bought, Mine
    <3> QED BY <1>0, <2>2, <2>4, <3>1 DEF Sound
  <2>5. Sound(k)
    BY <2>2, <2>3, <2>4 DEF Sound, Steps
  <2>6. PICK x : x = k
    OBVIOUS
  <2> QED BY <1>0, <1>1, <2>2, <2>5, <2>6, OwnMoves
<1>3. CASE ReadApplications(t)
  <2> DEFINE asked == {article[b] : b \in Pending(task[t].what, Active(c))}
             k == [task[t] EXCEPT !.at = "asking", !.seen = Active(c), !.asked = asked]
  <2>1. task' = [task EXCEPT ![t] = k]
    BY <1>0, <1>3 DEF ReadApplications, IInv
  <2>2. /\ k.at = "asking" /\ k.what = task[t].what /\ k.client = c /\ k.home = task[t].home
        /\ k.seen = Active(c) /\ k.asked = asked
    <3> HIDE DEF asked
    <3> QED BY <1>0 DEF TaskRecords
  <2>3. task[t].what \in Steps
    BY <1>3 DEF ReadApplications
  <2> HIDE DEF k
  <2>4. Read(k)
    BY <2>2 DEF Read
  <2>5. Sound(k)
    BY <1>0, <2>2, <2>3, <2>4 DEF Sound, Steps
  <2> QED BY <1>0, <1>1, <2>1, <2>2, <2>5, OwnMoves
<1> QED BY <1>2, <1>3

\* What is accepted of what was read can be marked: each article means its newest
\* application, and an older one waits for the step if that one does not.
LEMMA AcceptSound ==
    ASSUME IInv, NEW c \in Clients, Supported(c), NEW t \in Tasks, task[t].client = c,
           Read(task[t]), task[t].what \in Steps,
           NEW nm_ids \in Seq(task[t].asked), nm_ids # <<>>,
           NEW k, k.client = c, k.what = task[t].what, DOMAIN k.todo = DOMAIN nm_ids,
           \A i \in DOMAIN nm_ids : k.todo[i] = Newest({b \in task[t].seen : article[b] = nm_ids[i]})
    PROVE  Accepted(k)
<1> DEFINE S == task[t].seen
           s == task[t].what
           B(i) == {b \in S : article[b] = nm_ids[i]}
           m(i) == Newest(B(i))
<1>0. S \subseteq Active(c) /\ S \subseteq Applications
  BY DEF Read, IInv, TaskRecords
<1>1. \A i \in DOMAIN nm_ids : nm_ids[i] \in task[t].asked
  OBVIOUS
<1>2. ASSUME NEW i \in DOMAIN nm_ids
      PROVE  \E p \in Pending(s, S) : p \in B(i)
  <2>1. PICK p \in Pending(s, S) : article[p] = nm_ids[i]
    BY <1>1 DEF Read
  <2>2. p \in S
    BY DEF Pending, Steps
  <2> QED BY <2>1, <2>2
<1>3. ASSUME NEW i \in DOMAIN nm_ids
      PROVE  m(i) \in B(i) /\ \A other \in B(i) : other <= m(i)
  <2>1. B(i) \in SUBSET Applications /\ B(i) # {}
    BY <1>0, <1>2
  <2> HIDE DEF B
  <2> QED BY <2>1, NewestIn
<1>4. \A i \in DOMAIN nm_ids : k.todo[i] = m(i)
  OBVIOUS
<1> HIDE DEF m
<1>5. ASSUME NEW i \in DOMAIN nm_ids
      PROVE  /\ k.todo[i] \in Active(c) /\ article[k.todo[i]] = nm_ids[i]
             /\ Ready(s, k.todo[i]) \/ Behind(s, k.todo[i]) # {}
             /\ NewestActive(k.todo[i])
  <2> DEFINE b == m(i)
  <2>1. b \in S /\ b \in Active(c) /\ article[b] = nm_ids[i] /\ client[b] = c
    BY <1>0, <1>3 DEF Active
  <2>2. Ready(s, b) \/ Behind(s, b) # {}
    <3>1. PICK p \in Pending(s, S) : p \in B(i)
      BY <1>2
    <3>2. CASE p = b
      BY <3>1, <3>2 DEF Ready, Pending, Steps
    <3>3. CASE p # b
      <4>1. p < b
        BY <1>0, <1>3, <2>1, <3>1, <3>3 DEF Applications
      <4>2. p \in Pending(s, Active(c))
        BY <1>0, PendingGrows DEF Screens, Steps
      <4>3. p \in Twins(b)
        BY <1>0, <2>1, <3>1, <3>3 DEF Twins, Active
      <4> QED BY <2>1, <4>1, <4>2, <4>3 DEF Behind
    <3> QED BY <3>2, <3>3
  <2>3. NewestActive(b)
    <3> SUFFICES ASSUME NEW r \in Twins(b), r \in Active(c), b < r PROVE Untouched(r)
      BY <2>1 DEF NewestActive
    <3>1. r \notin S
      <4>1. r \in S => r \in B(i)
        BY <2>1 DEF Twins
      <4>2. r \in B(i) => r <= b
        BY <1>3
      <4>3. r \in Int /\ b \in Int
        BY <1>0, <2>1 DEF Twins, Rows, Applications, IInv, TypeOK
      <4> QED BY <4>1, <4>2, <4>3
    <3> QED BY <3>1 DEF Read
  <2> QED BY <1>4, <2>1, <2>2, <2>3
<1>6. Ahead(s, c)
  <2>1. 1 \in DOMAIN nm_ids
    OBVIOUS
  <2>2. PICK p \in Pending(s, S) : p \in B(1)
    BY <1>2, <2>1
  <2>3. p \in Active(c) /\ client[p] = c
    BY <1>0, <2>2 DEF Active
  <2>4. CASE s = "order"
    <3>1. p \in done["feedback"] => \E q : q \in Behind("feedback", p)
      BY <2>3, <2>4 DEF Supported, Pending
    <3>2. \A q \in Behind("feedback", p) : q \in Active(c) /\ q \notin done["feedback"]
      BY <2>3 DEF Behind, Pending
    <3> QED BY <2>3, <2>4, <3>1, <3>2 DEF Ahead
  <2>5. CASE s = "feedback"
    <3>1. p \in done["order"] /\ p \notin done["feedback"]
      BY <2>5 DEF Pending
    <3>2. p \in done["labels"] => \E q : q \in Behind("labels", p)
      BY <2>3, <3>1 DEF Supported
    <3>3. \A q \in Behind("labels", p) : q \in Active(c) \ done["labels"] /\ q \in done["feedback"]
      BY <2>3 DEF Behind, Pending
    <3> QED BY <2>3, <2>5, <3>1, <3>2, <3>3 DEF Ahead
  <2>6. CASE s = "labels"
    <3>1. p \in done["feedback"]
      BY <2>6 DEF Pending
    <3> QED BY <2>3, <2>6, <3>1 DEF Ahead
  <2> QED BY <2>4, <2>5, <2>6 DEF Steps
<1>7. \A i, j \in DOMAIN nm_ids : article[k.todo[i]] = article[k.todo[j]] => k.todo[i] = k.todo[j]
  <2> TAKE i, j \in DOMAIN nm_ids
  <2> HAVE article[k.todo[i]] = article[k.todo[j]]
  <2>1. nm_ids[i] = nm_ids[j]
    BY <1>5
  <2> QED BY <2>1
<1> QED BY <1>5, <1>6, <1>7 DEF Accepted

\* The model's answer names articles that were asked about.
LEMMA AcceptServes ==
    ASSUME IInv, IInv', NEW c \in Clients, Served(c), NEW t \in Callbacks(c),
           task[t].at = "asking", task[t].what \in Steps, UNCHANGED <<rows, screens>>,
           NEW nm_ids \in Seq(task[t].asked), nm_ids # <<>>, task' = Accept(t, nm_ids)
    PROVE  Served(c)'
<1>0. /\ t \in Tasks /\ task[t].client = c /\ task[t] \in TaskRecords /\ Sound(task[t])
      /\ Asking(c) /\ Heard(c)
  BY OwnCallback
<1>1. Kept(c) /\ dialog'[c] = dialog[c] /\ engaged'[c] = engaged[c]
  BY KeptSame DEF screens
<1> DEFINE todo == [i \in DOMAIN nm_ids |-> Newest({b \in task[t].seen : article[b] = nm_ids[i]})]
           k == [task[t] EXCEPT !.at = "marking", !.seen = {}, !.asked = {}, !.todo = todo]
<1>2. task' = [task EXCEPT ![t] = k]
  BY <1>0 DEF Accept, IInv
<1>3. /\ k.at = "marking" /\ k.what = task[t].what /\ k.client = c /\ k.home = task[t].home
      /\ k.todo = todo
  <2> HIDE DEF todo
  <2> QED BY <1>0 DEF TaskRecords
<1>4. /\ DOMAIN k.todo = DOMAIN nm_ids
      /\ \A i \in DOMAIN nm_ids : k.todo[i] = Newest({b \in task[t].seen : article[b] = nm_ids[i]})
  BY <1>3
<1> HIDE DEF k, todo
<1>5. Accepted(k)
  BY <1>0, <1>3, <1>4, AcceptSound DEF Served, Sound
<1>6. Sound(k)
  BY <1>0, <1>3, <1>5 DEF Sound, Steps
<1> QED BY <1>0, <1>1, <1>2, <1>3, <1>6, OwnMoves

\* Whatever the model answers.
LEMMA AnswerServes ==
    ASSUME IInv, IInv', NEW c \in Clients, Served(c), NEW t \in Callbacks(c),
           \/ AnswerChat(t) \/ AnswerQuestion(t)
           \/ AnswerOrder(t) \/ AnswerFeedback(t) \/ AnswerCutLabels(t)
    PROVE  Served(c)'
<1>0. /\ t \in Tasks /\ task[t].client = c /\ task[t] \in TaskRecords /\ Sound(task[t])
      /\ task[t].at = "asking" /\ Asking(c) /\ Heard(c)
      /\ Callbacks(c) = {t}
  BY OwnCallback DEF AnswerChat, AnswerQuestion, AnswerOrder, AnswerFeedback, AnswerCutLabels
<1>1. UNCHANGED rows /\ Kept(c)
  BY KeptSame DEF AnswerChat, AnswerQuestion, AnswerOrder, AnswerFeedback, AnswerCutLabels, rows
<1>2. CASE End(t) /\ dialog'[c] = dialog[c] /\ engaged'[c] = engaged[c]
  BY <1>0, <1>1, <1>2, OwnEnds
<1>3. CASE AnswerChat(t)
  <2>1. CASE End(t) /\ UNCHANGED engaged
    BY <1>2, <1>3, <2>1 DEF AnswerChat
  <2>2. CASE ~(End(t) /\ UNCHANGED engaged)
    <3>1. PICK r \in ChatAnswers(task[t].asked) :
               /\ r.article_ids # <<>>
               /\ task' = [task EXCEPT ![t].at = "creating", ![t].todo = r.article_ids]
      BY <1>3, <2>2 DEF AnswerChat
    <3> DEFINE k == [task[t] EXCEPT !.at = "creating", !.todo = r.article_ids]
    <3>2. /\ task' = [task EXCEPT ![t] = k]
          /\ k.at = "creating" /\ k.what = task[t].what /\ k.client = c /\ k.todo = r.article_ids
      BY <1>0, <3>1 DEF TaskRecords, IInv
    <3> HIDE DEF k
    <3>3. r.article_ids \in Lists(task[t].asked)
      BY <3>1 DEF ChatAnswers
    <3>4. r.article_ids \in Seq(task[t].asked)
      BY <3>3, ListsAreSequences
    <3>5. Elements(k.todo) \subseteq task[t].asked
      BY <3>2, <3>4 DEF Elements
    <3>6. task[t].what = "intake" /\ dialog'[c] = dialog[c]
      BY <1>3 DEF AnswerChat
    <3>7. New(Elements(k.todo), c)
      BY <1>0, <3>5, <3>6 DEF Sound, New
    <3>8. Sound(k)
      BY <3>1, <3>2, <3>6, <3>7 DEF Sound, Steps
    <3> QED BY <1>0, <1>1, <3>2, <3>6, <3>8, OwnMoves
  <2> QED BY <2>1, <2>2
<1>4. CASE AnswerQuestion(t)
  <2>1. task[t].what = "talk"
    BY <1>4 DEF AnswerQuestion
  <2>2. CASE End(t) /\ UNCHANGED screens
    BY <1>2, <2>2 DEF screens
  <2>3. CASE Close(c) /\ task' = [Orphaned(c) EXCEPT ![t] = Blank]
    <3>1. Callbacks(c)' = {}
      <4>1. t \in Tasks /\ task' = [Orphaned(c) EXCEPT ![t] = Blank]
        BY <1>0, <2>3
      <4>2. Callbacks(c)' = Callbacks(c) \ {t}
        BY ONLY IInv, <4>1, OrphanedEnd
      <4> QED BY <1>0, <4>2
    <3>2. dialog'[c] = "closed" /\ engaged'[c] = FALSE
      BY <2>3 DEF Close, IInv, TypeOK
    <3> QED BY <1>1, <3>1, <3>2, ScreenServes DEF Asking, Heard
  <2>4. CASE /\ UNCHANGED screens
             /\ \E todo : task' = [task EXCEPT ![t].at = "creating", ![t].todo = todo]
    <3>1. PICK todo : task' = [task EXCEPT ![t].at = "creating", ![t].todo = todo]
      BY <2>4
    <3> DEFINE k == [task[t] EXCEPT !.at = "creating", !.todo = todo]
    <3>2. /\ task' = [task EXCEPT ![t] = k]
          /\ k.at = "creating" /\ k.what = task[t].what /\ k.client = c
      BY <1>0, <3>1 DEF TaskRecords, IInv
    <3> HIDE DEF k
    <3>3. Sound(k)
      BY <2>1, <3>2 DEF Sound, Steps
    <3> QED BY <1>0, <1>1, <2>4, <3>2, <3>3, OwnMoves DEF screens
  <2> QED BY <1>0, <1>4, <2>2, <2>3, <2>4 DEF AnswerQuestion
<1>5. ASSUME UNCHANGED screens, task[t].what \in Steps,
             NEW nm_ids \in Seq(task[t].asked), nm_ids # <<>>, task' = Accept(t, nm_ids)
      PROVE  Served(c)'
  BY <1>0, <1>1, <1>5, AcceptServes
<1>6. CASE AnswerOrder(t)
  <2>1. task[t].what \in Steps /\ UNCHANGED screens
    BY <1>6 DEF AnswerOrder, Steps
  <2>2. CASE End(t)
    BY <1>2, <2>1, <2>2 DEF screens
  <2>3. CASE \E r \in OrderAnswers(task[t].asked) : r.nm_ids # <<>> /\ task' = Accept(t, r.nm_ids)
    <3>1. PICK r \in OrderAnswers(task[t].asked) : r.nm_ids # <<>> /\ task' = Accept(t, r.nm_ids)
      BY <2>3
    <3>2. r.nm_ids \in Seq(task[t].asked)
      BY <3>1, ListsAreSequences DEF OrderAnswers
    <3> QED BY <1>5, <2>1, <3>1, <3>2
  <2> QED BY <1>6, <2>2, <2>3 DEF AnswerOrder
<1>7. CASE AnswerFeedback(t)
  <2>1. task[t].what \in Steps /\ UNCHANGED screens
    BY <1>7 DEF AnswerFeedback, Steps
  <2>2. CASE End(t)
    BY <1>2, <2>1, <2>2 DEF screens
  <2>3. CASE \E r \in FeedbackAnswers(task[t].asked) : r.nm_ids # <<>> /\ task' = Accept(t, r.nm_ids)
    <3>1. PICK r \in FeedbackAnswers(task[t].asked) : r.nm_ids # <<>> /\ task' = Accept(t, r.nm_ids)
      BY <2>3
    <3>2. r.nm_ids \in Seq(task[t].asked)
      BY <3>1, ListsAreSequences DEF FeedbackAnswers
    <3> QED BY <1>5, <2>1, <3>1, <3>2
  <2> QED BY <1>7, <2>2, <2>3 DEF AnswerFeedback
<1>8. CASE AnswerCutLabels(t)
  <2> DEFINE candidates == {b \in task[t].seen : article[b] \in task[t].asked}
             nm_id == article[Newest(candidates)]
  <2>1. task[t].what \in Steps /\ UNCHANGED screens
    BY <1>8 DEF AnswerCutLabels, Steps
  <2>2. CASE End(t)
    BY <1>2, <2>1, <2>2 DEF screens
  <2>3. CASE candidates # {} /\ task' = Accept(t, <<nm_id>>)
    <3>1. candidates \in SUBSET Applications
      BY <1>0 DEF TaskRecords
    <3>2. Newest(candidates) \in candidates
      <4> HIDE DEF candidates
      <4> QED BY <2>3, <3>1, NewestIn
    <3>3. nm_id \in task[t].asked
      BY <3>2
    <3>4. <<nm_id>> \in Seq(task[t].asked) /\ <<nm_id>> # <<>>
      <4> HIDE DEF nm_id
      <4> QED BY <3>3, SingletonSequence
    <3> HIDE DEF nm_id
    <3> QED BY <1>5, <2>1, <2>3, <3>4
  <2> QED BY <1>8, <2>2, <2>3 DEF AnswerCutLabels
<1> QED BY <1>3, <1>4, <1>6, <1>7, <1>8

\* It gives up, or is cut while it has written nothing.
LEMMA EndServes ==
    ASSUME IInv, NEW c \in Clients, Served(c), c \notin disturbed', NEW t \in Callbacks(c),
           GiveUp(t) \/ Cut(t)
    PROVE  Served(c)'
<1>0. /\ t \in Tasks /\ task[t].client = c /\ task[t].what # "request"
      /\ task[t].at \notin {"marking", "paying"} => Asking(c)
      /\ ~(task[t].at \in {"creating", "inserting"} /\ task[t].what = "intake") => Heard(c)
  BY OwnCallback
<1>1. UNCHANGED <<rows, screens>> /\ End(t)
  BY DEF GiveUp, Cut
<1>2. task[t].at \notin {"creating", "inserting", "marking", "paying"}
  BY <1>0 DEF GiveUp, Cut
<1> QED BY <1>0, <1>1, <1>2, KeptSame, OwnEnds DEF screens

\* It reads the cabinet's leads.
LEMMA ReadLeadsServes ==
    ASSUME IInv, IInv', NEW c \in Clients, Served(c), NEW t \in Callbacks(c), ReadLeads(t)
    PROVE  Served(c)'
<1>0. /\ t \in Tasks /\ task[t].client = c /\ task[t] \in TaskRecords /\ Sound(task[t])
      /\ task[t].at = "marking" /\ task[t].what = "order" /\ Heard(c)
  BY OwnCallback DEF ReadLeads
<1> DEFINE k == [task[t] EXCEPT !.at = "paying", !.lead = leads]
<1>1. /\ task' = [task EXCEPT ![t] = k]
      /\ k.at = "paying" /\ k.what = "order" /\ k.client = c /\ k.home = task[t].home
      /\ k.todo = task[t].todo
  BY <1>0 DEF ReadLeads, IInv, TaskRecords
<1>2. UNCHANGED <<rows, screens>>
  BY DEF ReadLeads
<1> HIDE DEF k
<1>3. Sound(k)
  BY <1>0, <1>1 DEF Sound, Accepted, Steps
<1> QED BY <1>0, <1>1, <1>2, <1>3, KeptSame, OwnMoves DEF screens

\* The screen that follows asks for something.
LEMMA FinishServes ==
    ASSUME IInv, NEW c \in Clients, Served(c), NEW t \in Callbacks(c), Finish(t)
    PROVE  Served(c)'
<1>0. /\ t \in Tasks /\ task[t].client = c /\ Sound(task[t]) /\ TaskOK(task[t])
      /\ task[t].at = "marking"
  BY OwnCallback DEF Finish
<1>1. task[t].what \in Steps /\ task[t].home /\ Ahead(task[t].what, c)
  BY <1>0 DEF TaskOK, Marks, Sound, Accepted
<1> DEFINE what == task[t].what
           next == IF Pending(what, Active(c)) # {} THEN what ELSE After[what]
<1>2. dialog'[c] = next /\ UNCHANGED rows /\ End(t)
  BY <1>0, <1>1 DEF Finish, IInv, TypeOK
<1>3. next # "closed" /\ Pending(next, Active(c)) # {}
  <2>1. CASE what = "order"
    BY <1>1, <2>1 DEF Ahead, Pending, After, Steps
  <2>2. CASE what = "feedback"
    BY <1>1, <2>2 DEF Ahead, Pending, After, Steps
  <2>3. CASE what = "labels"
    BY <1>1, <2>3 DEF Ahead, Pending, After, Steps
  <2> QED BY <1>1, <2>1, <2>2, <2>3 DEF Steps
<1>4. Asking(c)' /\ Heard(c)'
  <2>1. UNCHANGED <<last, client, canceled, paid, done>>
    BY <1>2 DEF rows
  <2> QED BY <1>2, <1>3, <2>1 DEF Asking, Heard, Pending, Active, Rows
<1> QED BY <1>2, <1>4, OneEnds, ScreenServes DEF End

\* The next article is one of those to be created, and so are those that remain.
LEMMA CreatingTodo ==
    ASSUME IInv, NEW t \in Tasks, task[t].at \in {"creating", "inserting"}, task[t].todo # <<>>
    PROVE  /\ Wanted(t) \in Elements(task[t].todo)
           /\ Elements(Tail(task[t].todo)) \subseteq Elements(task[t].todo)
<1>1. task[t].todo \in Seq(Articles) /\ task[t].todo # <<>>
  BY DEF IInv, TaskOK
<1> QED BY <1>1 DEF Wanted, Elements

\* It looks for an application of the article: a client that was talked to has none
\* that was begun.
LEMMA LookServes ==
    ASSUME IInv, IInv', NEW c \in Clients, Served(c), NEW t \in Callbacks(c), Look(t)
    PROVE  Served(c)'
<1>0. /\ t \in Tasks /\ task[t].client = c /\ task[t] \in TaskRecords /\ Sound(task[t])
      /\ task[t].at = "creating" /\ task[t].todo # <<>> /\ Asking(c)
      /\ task[t].what # "intake" => Heard(c)
  BY OwnCallback DEF Look
<1>1. UNCHANGED <<rows, screens>> /\ task[t].what \in Creators
  BY <1>0 DEF Look, IInv, TaskOK
<1>2. /\ Wanted(t) \in Elements(task[t].todo)
      /\ Elements(Tail(task[t].todo)) \subseteq Elements(task[t].todo)
  BY <1>0, CreatingTodo
<1>3. CASE Existing(c, Wanted(t)) # {}
  <2> DEFINE k == [task[t] EXCEPT !.todo = Tail(@)]
  <2>1. /\ task' = [task EXCEPT ![t] = k]
        /\ k.at = "creating" /\ k.what = task[t].what /\ k.client = c /\ k.todo = Tail(task[t].todo)
    BY <1>0, <1>3 DEF Look, IInv, TaskRecords
  <2> HIDE DEF k
  <2>2. ASSUME task[t].what = "intake"
        PROVE  New(Elements(k.todo), c) /\ \E b \in Mine(c) : Untouched(b)
    <3>1. New(Elements(task[t].todo), c)
      BY <1>0, <2>2 DEF Sound
    <3>2. PICK b \in Mine(c) : article[b] = Wanted(t)
      BY <1>3 DEF Existing, Mine
    <3> QED BY <1>2, <2>1, <3>1, <3>2 DEF New
  <2>3. Sound(k)
    BY <1>1, <2>1, <2>2 DEF Sound, Steps, Creators
  <2> QED BY <1>0, <1>1, <2>1, <2>3, KeptSame, OwnMoves DEF screens
<1>4. CASE Existing(c, Wanted(t)) = {}
  <2> DEFINE k == [task[t] EXCEPT !.at = "inserting"]
  <2>1. /\ task' = [task EXCEPT ![t] = k]
        /\ k.at = "inserting" /\ k.what = task[t].what /\ k.client = c /\ k.todo = task[t].todo
    BY <1>0, <1>4 DEF Look, IInv, TaskRecords
  <2> HIDE DEF k
  <2>2. Sound(k)
    BY <1>0, <1>1, <2>1 DEF Sound, Steps, Creators
  <2> QED BY <1>0, <1>1, <2>1, <2>2, KeptSame, OwnMoves DEF screens
<1> QED BY <1>3, <1>4

\* It inserts the application.
LEMMA InsertServes ==
    ASSUME IInv, IInv', NEW c \in Clients, Served(c), NEW t \in Callbacks(c), Insert(t)
    PROVE  Served(c)'
<1>0. /\ t \in Tasks /\ task[t].client = c /\ task[t] \in TaskRecords /\ Sound(task[t])
      /\ task[t].at = "inserting" /\ task[t].todo # <<>> /\ Asking(c)
      /\ task[t].what # "intake" => Heard(c)
  BY OwnCallback DEF Insert, IInv, TaskOK
<1>1. UNCHANGED screens /\ task[t].what \in Creators
  BY <1>0 DEF Insert, IInv, TaskOK
<1>2. Elements(Tail(task[t].todo)) \subseteq Elements(task[t].todo)
  BY <1>0, CreatingTodo
<1>3. Kept(c) /\ \E new \in Mine(c)' : Untouched(new)'
  BY <1>0, KeptInsert DEF Mine
<1> DEFINE k == [task[t] EXCEPT !.at = "creating", !.todo = Tail(@)]
<1>4. /\ task' = [task EXCEPT ![t] = k]
      /\ k.at = "creating" /\ k.what = task[t].what /\ k.client = c /\ k.todo = Tail(task[t].todo)
  BY <1>0 DEF Insert, IInv, TaskRecords
<1>5. PICK x : x = k
  OBVIOUS
<1>6. Sound(x)'
  <2>1. ASSUME task[t].what = "intake", NEW b \in Mine(c)', article'[b] \in Elements(Tail(task[t].todo))
        PROVE  Untouched(b)'
    <3>1. New(Elements(task[t].todo), c)
      BY <1>0, <2>1 DEF Sound
    <3>2. CASE b \in Mine(c)
      <4>1. article[b] = article'[b] /\ Untouched(b)
        BY <1>2, <1>3, <2>1, <3>1, <3>2 DEF New, Kept
      <4> QED BY <1>3, <2>1, <4>1, KeptUntouched
    <3>3. CASE b \notin Mine(c)
      BY <1>3, <2>1, <3>3 DEF Kept
    <3> QED BY <3>2, <3>3
  <2> HIDE DEF k
  <2>2. Elements(x.todo) = Elements(Tail(task[t].todo))
    BY <1>4, <1>5
  <2>3. x.what = "intake" => New(Elements(x.todo), c)'
    <3> SUFFICES ASSUME x.what = "intake", NEW b \in Mine(c)', article'[b] \in Elements(x.todo)
                 PROVE  Untouched(b)'
      BY DEF New, Elements
    <3> QED BY <1>4, <1>5, <2>1, <2>2
  <2> QED BY <1>1, <1>3, <1>4, <1>5, <2>3 DEF Sound, Steps, Creators
<1> HIDE DEF k
<1>7. x \in TaskRecords
  BY <1>0, <1>4, <1>5 DEF IInv
<1>8. (Mine(c) \cap paid = {})' /\ Supported(c)'
  BY <1>3, KeptUnpaid, KeptSupported DEF Served
<1>9. Asking(c)'
  BY <1>0, <1>1, <1>3, KeptAsking DEF screens, IInv, TypeOK
<1>10. task[t].what # "intake" => Heard(c)'
  BY <1>0, <1>1 DEF screens, Heard
<1> QED BY <1>0, <1>4, <1>5, <1>6, <1>7, <1>8, <1>9, <1>10, ServedMoves

\* It opens the dialog, on a screen that asks for something.
LEMMA StartDialogServes ==
    ASSUME IInv, NEW c \in Clients, Served(c), NEW t \in Callbacks(c), StartDialog(t)
    PROVE  Served(c)'
<1>0. /\ t \in Tasks /\ task[t].client = c /\ Sound(task[t]) /\ task[t].what \in {"intake", "talk"}
      /\ task[t].at = "creating" /\ task[t].todo = <<>> /\ Asking(c) /\ UNCHANGED rows
      /\ task[t].what # "intake" => Heard(c)
      /\ Callbacks(c) = {t}
  BY OwnCallback DEF StartDialog, TaskOK, Creators
<1>1. ASSUME NEW s \in Screens \ {"closed"}, Pending(s, Active(c)) # {}, Open(c, s),
             task' = [Orphaned(c) EXCEPT ![t] = Blank]
      PROVE  Served(c)'
  <2>0. t \in Tasks /\ task' = [Orphaned(c) EXCEPT ![t] = Blank]
    BY <1>0, <1>1
  <2>1. Callbacks(c)' = Callbacks(c) \ {t}
    BY ONLY IInv, <2>0, OrphanedEnd
  <2>2. dialog'[c] = s
    BY <1>1 DEF Open, IInv, TypeOK
  <2>3. Asking(c)' /\ Heard(c)'
    BY <1>0, <1>1, <2>2 DEF Asking, Heard, rows, Pending, Active, Rows
  <2> QED BY <1>0, <2>1, <2>3, ScreenServes
<1>2. CASE task[t].what = "intake"
  <2>1. PICK b \in Mine(c) : Untouched(b)
    BY <1>0, <1>2 DEF Sound
  <2>2. b \in Pending("order", Active(c))
    BY <2>1 DEF Pending, Active, Mine, Untouched
  <2>3. Open(c, "order") /\ task' = [Orphaned(c) EXCEPT ![t] = Blank]
    BY <1>0, <1>2 DEF StartDialog
  <2> QED BY <1>1, <2>2, <2>3 DEF Screens, Steps
<1>3. CASE task[t].what = "talk"
  <2>1. CASE Resume(Active(c)) = "closed"
    <3>1. End(t) /\ UNCHANGED screens
      BY <1>0, <1>3, <2>1 DEF StartDialog
    <3> QED BY <1>0, <1>3, <3>1, KeptSame, OwnEnds DEF screens
  <2>2. CASE Resume(Active(c)) # "closed"
    <3>1. Open(c, Resume(Active(c))) /\ task' = [Orphaned(c) EXCEPT ![t] = Blank]
      BY <1>0, <1>3, <2>2 DEF StartDialog
    <3>2. Active(c) # {}
      BY <2>2, ResumeNothing
    <3> QED BY <1>1, <3>1, <3>2, ResumeServes
  <2> QED BY <2>1, <2>2
<1> QED BY <1>0, <1>2, <1>3

-----------------------------------------------------------------------------
\* An application of a client is marked.
LEMMA MarkServes ==
    ASSUME IInv, IInv', NEW c \in Clients, Served(c), NEW t \in Callbacks(c),
           task[t].at \in {"marking", "paying"}, task[t].todo # <<>>,
           done' = [done EXCEPT ![task[t].what] = @ \cup {Head(task[t].todo)}],
           UNCHANGED <<last, client, article, canceled, paid, screens>>,
           task' = [task EXCEPT ![t] = Advanced(t)],
           task[t].at = "marking" \/ task[t].what = "order"
    PROVE  Served(c)'
<1>a. PICK b, s, x : b = Head(task[t].todo) /\ s = task[t].what /\ x = Advanced(t)
  OBVIOUS
<1>0. /\ t \in Tasks /\ task[t].client = c /\ task[t] \in TaskRecords /\ Sound(task[t]) /\ Supported(c)
      /\ TaskOK(task[t])
      /\ Mine(c) \cap paid = {}
  BY OwnCallback DEF Served
<1>1. Accepted(task[t]) /\ s \in Steps /\ Heard(c) /\ task[t].home /\ task[t].todo \in Seq(Rows)
  BY <1>0, <1>a, OwnCallback, MarksSteps DEF Sound, TaskOK, Marks, Steps
<1>2. 1 \in DOMAIN task[t].todo /\ b = task[t].todo[1]
  BY <1>1, <1>a
<1>3. /\ b \in Active(c) /\ (Ready(s, b) \/ Behind(s, b) # {})
      /\ NewestActive(b) /\ client[b] = c
  BY <1>0, <1>1, <1>2, <1>a DEF Accepted, Active
<1>4. /\ x \in TaskRecords /\ x.at = "marking" /\ x.what = s /\ x.client = c /\ x.home = task[t].home
      /\ \A i \in DOMAIN x.todo : i + 1 \in 2 .. Len(task[t].todo) /\ x.todo[i] = task[t].todo[i + 1]
  BY <1>0, <1>a, NextMark DEF Advanced, TaskRecords
<1>5. /\ Active(c)' = Active(c) /\ Mine(c)' = Mine(c) /\ Rows' = Rows
      /\ \A r \in Rows : Twins(r)' = Twins(r)
  BY DEF Active, Mine, Rows, Twins
<1>6. \A y \in Steps : done'[y] = IF y = s THEN done[y] \cup {b} ELSE done[y]
  BY <1>1, <1>a DEF IInv, TypeOK
\* Whoever was behind still is, but for the application that is marked.
<1>7. ASSUME NEW y \in Steps, NEW r \in Active(c), NEW p \in Behind(y, r), p # b
      PROVE  p \in Behind(y, r)'
  <2>1. r \in Rows /\ client[r] = c /\ client'[r] = c
    BY DEF Active
  <2>2. p \in Twins(r) /\ p \in Pending(y, Active(c)) /\ p < r
    BY <2>1 DEF Behind
  <2>3. p \in Pending(y, Active(c))'
    BY <1>5, <1>6, <1>7, <2>2, StepNames DEF Pending, Steps
  <2> QED BY <1>5, <2>1, <2>2, <2>3 DEF Behind
\* A newer twin of it has not begun.
<1>8. ASSUME NEW y \in Steps, NEW r \in Active(c), b \in Behind(y, r)
      PROVE  Untouched(r)
  <2>1. r \in Rows /\ client[r] = c
    BY DEF Active
  <2>2. b \in Twins(r) /\ b < r
    BY <1>8, <2>1 DEF Behind
  <2>3. r \in Twins(b)
    BY <2>1, <2>2 DEF Twins
  <2> QED BY <1>3, <2>1, <2>2, <2>3 DEF NewestActive
<1>9. Supported(c)'
  <2> SUFFICES ASSUME NEW r \in Active(c)
               PROVE  /\ r \in done'["feedback"] => r \in done'["order"] \/ Behind("feedback", r)' # {}
                      /\ r \in done'["labels"] => r \in done'["feedback"] \/ Behind("labels", r)' # {}
    BY <1>5 DEF Supported
  <2>1. \A y \in Steps : done[y] \subseteq done'[y]
    BY <1>6
  <2>2. CASE r # b
    <3>1. \A y \in Steps : r \in done'[y] => r \in done[y]
      BY ONLY <1>6, <2>2
    <3>2. ASSUME NEW y \in Steps, r \in done["feedback"] \cup done["labels"], Behind(y, r) # {}
          PROVE  Behind(y, r)' # {}
      <4>1. PICK p : p \in Behind(y, r)
        BY <3>2
      <4>2. p # b
        BY <1>8, <3>2, <4>1 DEF Untouched
      <4> QED BY <1>7, <4>1, <4>2
    <3> QED BY ONLY <1>0, <2>1, <3>1, <3>2, StepNames, r \in Active(c) DEF Supported
  <2>3. CASE r = b
    <3>1. \A y \in Steps : Behind(y, r) # {} => Behind(y, r)' # {}
      <4> SUFFICES ASSUME NEW y \in Steps, NEW p \in Behind(y, r) PROVE p \in Behind(y, r)'
        OBVIOUS
      <4>1. p # b
        BY <2>3 DEF Behind, Twins
      <4> QED BY <1>7, <4>1
    <3>2. \A y \in Steps \ {s} : r \in done'[y] => r \in done[y]
      BY <1>6
    <3> QED BY ONLY <1>0, <1>1, <1>3, <2>1, <2>3, <3>1, <3>2, StepNames DEF Supported, Ready, Steps
  <2> QED BY <2>2, <2>3
<1>10. Ahead(s, c)'
  <2>1. Ahead(s, c)
    BY <1>0, <1>1, <1>a DEF Accepted
  <2>2. CASE s = "order"
    <3>1. done'["feedback"] = done["feedback"]
      BY <1>6, <2>2, StepNames
    <3>2. PICK r \in Active(c) : r \notin done["feedback"]
      BY <2>1, <2>2 DEF Ahead
    <3>3. \E r1 \in Active(c)' : r1 \notin done'["feedback"]
      BY <1>5, <3>1, <3>2
    <3> QED BY <2>2, <3>3 DEF Ahead
  <2>3. CASE s = "feedback"
    <3>1. done'["labels"] = done["labels"] /\ done'["order"] = done["order"]
          /\ done["feedback"] \subseteq done'["feedback"]
      BY ONLY <1>6, <2>3, StepNames
    <3>2. PICK r \in Active(c) \ done["labels"] : r \in done["order"] \cup done["feedback"]
      BY <2>1, <2>3 DEF Ahead
    <3>3. \E r1 \in Active(c)' \ done'["labels"] : r1 \in done'["order"] \cup done'["feedback"]
      BY ONLY <1>5, <3>1, <3>2
    <3> QED BY <2>3, <3>3 DEF Ahead
  <2>4. CASE s = "labels"
    BY <1>5, <1>6, <2>1, <2>4, StepNames DEF Ahead
  <2> QED BY <1>1, <2>2, <2>3, <2>4 DEF Steps
<1>12. ASSUME NEW i \in DOMAIN x.todo
       PROVE  /\ x.todo[i] \in Active(c)'
              /\ Ready(x.what, x.todo[i])' \/ Behind(x.what, x.todo[i])' # {}
              /\ NewestActive(x.todo[i])'
  <2>1. i + 1 \in DOMAIN task[t].todo /\ x.todo[i] = task[t].todo[i + 1] /\ x.what = s
    BY <1>1, <1>4
  <2>2. PICK r : r = x.todo[i]
    OBVIOUS
  <2>3. /\ r \in Active(c) /\ NewestActive(r) /\ (Ready(s, r) \/ Behind(s, r) # {})
        /\ article[r] = article[b] => r = b
    BY <1>0, <1>1, <1>2, <1>a, <2>1, <2>2 DEF Accepted
  <2>4. r \in Rows /\ client[r] = c /\ client'[r] = c
    BY <2>3 DEF Active
  <2>5. Ready(s, r) => Ready(x.what, r)'
    BY <1>6, <2>1, StepNames DEF Ready
  <2>6. Behind(s, r) # {} => Behind(x.what, r)' # {}
    <3> SUFFICES ASSUME NEW p \in Behind(s, r) PROVE p \in Behind(x.what, r)'
      OBVIOUS
    <3>1. p # b
      BY <2>3 DEF Behind, Twins
    <3> QED BY ONLY <1>1, <1>7, <2>1, <2>3, <3>1
  <2>7. NewestActive(r)'
    <3> SUFFICES ASSUME NEW q \in Twins(r), q \in Active(c), r < q PROVE Untouched(q)'
      BY <1>5, <2>4 DEF NewestActive
    <3>1. Untouched(q)
      BY ONLY <2>3, <2>4, q \in Twins(r), q \in Active(c), r < q DEF NewestActive
    <3>2. q # b
      BY <2>3 DEF Twins
    <3>3. canceled' = canceled /\ paid' = paid
      OBVIOUS
    <3>4. \A y \in Steps : q \in done'[y] => q \in done[y]
      BY ONLY <1>6, <3>2
    <3>5. q \notin canceled \cup paid \cup done["order"] \cup done["feedback"] \cup done["labels"]
      BY ONLY <3>1 DEF Untouched
    <3>6. q \notin canceled' \cup paid' \cup done'["order"] \cup done'["feedback"] \cup done'["labels"]
      BY ONLY <3>3, <3>4, <3>5, StepNames
    <3> QED BY ONLY <3>6 DEF Untouched
  <2> QED BY ONLY <1>5, <2>1, <2>2, <2>3, <2>5, <2>6, <2>7
<1>13. \A i, j \in DOMAIN x.todo : article'[x.todo[i]] = article'[x.todo[j]] => x.todo[i] = x.todo[j]
  <2> TAKE i, j \in DOMAIN x.todo
  <2>1. /\ i + 1 \in DOMAIN task[t].todo /\ x.todo[i] = task[t].todo[i + 1]
        /\ j + 1 \in DOMAIN task[t].todo /\ x.todo[j] = task[t].todo[j + 1]
    BY <1>1, <1>4
  <2> QED BY <1>1, <2>1 DEF Accepted
<1>14. Accepted(x)'
  BY <1>4, <1>10, <1>12, <1>13 DEF Accepted
<1>15. Sound(x)'
  BY <1>1, <1>4, <1>14 DEF Sound, Steps
<1>16. (Mine(c) \cap paid = {})' /\ Heard(c)'
  BY <1>0, <1>1, <1>5 DEF Heard, screens
<1>17. task' = [task EXCEPT ![t] = x]
  BY <1>a
<1> QED BY <1>0, <1>4, <1>9, <1>15, <1>16, <1>17, <1>a, ServedMoves

\* So an undisturbed client's own callback serves the client, whatever it does next.
LEMMA OwnServes ==
    ASSUME IInv, IInv', NEW c \in Clients, Served(c), c \notin disturbed', NEW t \in Callbacks(c),
           Progress(t) \/ Cut(t)
    PROVE  Served(c)'
<1>1. CASE MarkOrdered(t)
  <2>1. task[t].what = "order" /\ task[t].todo # <<>> /\ task[t].at = "paying"
    BY <1>1, OwnCallback DEF MarkOrdered, TaskOK
  <2>2. /\ done' = [done EXCEPT !["order"] = @ \cup {Head(task[t].todo)}]
        /\ UNCHANGED <<last, client, article, canceled, paid, screens>>
        /\ task' = [task EXCEPT ![t] = Advanced(t)]
    BY <1>1 DEF MarkOrdered
  <2> QED BY <2>1, <2>2, MarkServes
<1>2. CASE MarkStep(t)
  BY <1>2, MarkServes DEF MarkStep
<1>3. CASE GiveUp(t) \/ Cut(t)
  BY <1>3, EndServes
<1> QED BY <1>1, <1>2, <1>3, ReadServes, AnswerServes, ReadLeadsServes, FinishServes,
           LookServes, InsertServes, StartDialogServes DEF Progress

-----------------------------------------------------------------------------
\* The surroundings.
LEMMA NewestActiveRow ==
    ASSUME IInv, NEW c, NEW nm_id \in {article[b] : b \in Active(c)}
    PROVE  LET B == {r \in Active(c) : article[r] = nm_id} IN
           /\ Newest(B) \in Active(c) /\ article[Newest(B)] = nm_id
           /\ \A r \in Active(c) : article[r] = nm_id => r <= Newest(B)
<1> DEFINE B == {r \in Active(c) : article[r] = nm_id}
<1>1. B # {} /\ B \subseteq Applications
  BY BuyerFlowAssumption DEF Active, Rows, Applications, IInv, TypeOK
<1>2. Newest(B) \in B /\ \A other \in B : other <= Newest(B)
  <2> HIDE DEF B
  <2> QED BY <1>1, NewestIn
<1> QED BY <1>2

\* Of an active application that is the newest for its article, no active twin is
\* newer.
LEMMA NoNewer ==
    ASSUME IInv, NEW c, NEW b \in Active(c),
           \A r \in Active(c) : article[r] = article[b] => r <= b,
           NEW s, NEW r \in Active(c)
    PROVE  b \notin Behind(s, r)
<1> SUFFICES ASSUME b \in Behind(s, r) PROVE FALSE
  OBVIOUS
<1>1. r \in Rows /\ b \in Rows /\ last \in Int
  BY DEF Active, IInv, TypeOK
<1>2. b < r /\ b \in Twins(r)
  BY DEF Behind
<1>3. r <= b
  BY <1>2 DEF Twins
<1> QED BY <1>1, <1>2, <1>3 DEF Rows

\* /confirm marks the newest application, which nobody has behind them, and opens
\* the screen that asks for what is left.
LEMMA ConfirmServes ==
    ASSUME IInv, NEW c \in Clients, Served(c), c \notin disturbed', NEW d \in Clients, Confirm(d)
    PROVE  Served(c)'
<1>1. PICK nm_id \in {article[r] : r \in Active(d)} :
        LET b == Newest({r \in Active(d) : article[r] = nm_id})
            step == CASE b \notin done["order"] -> {"order"}
                      [] b \in done["order"] \ done["feedback"] -> {"feedback"}
                      [] OTHER -> {"labels"} IN
        done' = [s \in Steps |-> IF s \in step THEN done[s] \cup {b} ELSE done[s]]
  BY DEF Confirm
<1>2. PICK b : b = Newest({r \in Active(d) : article[r] = nm_id})
  OBVIOUS
<1>3. b \in Active(d) /\ article[b] = nm_id /\ \A r \in Active(d) : article[r] = nm_id => r <= b
  BY <1>2, NewestActiveRow
<1>4. PICK step : /\ done' = [s \in Steps |-> IF s \in step THEN done[s] \cup {b} ELSE done[s]]
                  /\ step = CASE b \notin done["order"] -> {"order"}
                              [] b \in done["order"] \ done["feedback"] -> {"feedback"}
                              [] OTHER -> {"labels"}
  BY <1>1, <1>2
<1>5. step = {"order"} \/ (b \in done["order"] /\ step = {"feedback"})
      \/ (b \in done["order"] /\ b \in done["feedback"] /\ step = {"labels"})
  BY ONLY <1>4
<1>6. \A s \in Steps : done'[s] = IF s \in step THEN done[s] \cup {b} ELSE done[s]
  BY ONLY <1>4
<1>7. /\ UNCHANGED <<last, client, article, canceled, paid, engaged>>
      /\ Open(d, IF Resume(Active(d))' = "closed" THEN "requisites" ELSE Resume(Active(d))')
      /\ task' = Orphaned(d) /\ Meddle(d)
  BY DEF Confirm
<1>8. CASE c # d
  <2>1. b \notin Mine(c)
    BY <1>3, <1>8 DEF Active, Mine
  <2>2. \A s \in Steps : \A r \in Mine(c) : r \in done'[s] <=> r \in done[s]
    BY ONLY <1>6, <2>1
  <2>3. Kept(c)
    BY <1>7, <2>2, KeptMarks
  <2>4. Callbacks(c)' = Callbacks(c) /\ \A u \in Callbacks(c) : task'[u] = task[u]
    BY <1>7, <1>8, OrphanedStay
  <2>5. dialog'[c] = dialog[c] /\ engaged'[c] = engaged[c]
    BY <1>7, <1>8 DEF Open, IInv, TypeOK
  <2> QED BY <2>3, <2>4, <2>5, ServedAside
<1>9. CASE c = d
  <2>1. Callbacks(c)' = {}
    BY <1>7, <1>9, MeddleAlone, OrphanedStay
  <2>2. /\ Active(c)' = Active(c) /\ Mine(c)' = Mine(c)
        /\ \A r \in Rows : Twins(r)' = Twins(r)
    BY <1>7 DEF Active, Mine, Rows, Twins
  <2>3. Supported(c)'
    <3>1. ASSUME NEW s \in Steps, NEW r \in Active(c), NEW p \in Behind(s, r)
          PROVE  p \in Behind(s, r)'
      <4>1. r \in Rows /\ client[r] = c /\ client'[r] = c
        BY <1>7 DEF Active
      <4>2. p \in Twins(r) /\ p \in Pending(s, Active(c)) /\ p < r
        BY <4>1 DEF Behind
      <4>3. p # b
        BY <1>3, <1>9, <3>1, NoNewer
      <4>4. p \in Pending(s, Active(c))'
        BY <1>6, <2>2, <4>2, <4>3, StepNames DEF Pending, Steps
      <4> QED BY <2>2, <4>1, <4>2, <4>4 DEF Behind
    <3> SUFFICES ASSUME NEW r \in Active(c)
                 PROVE  /\ r \in done'["feedback"] => r \in done'["order"] \/ Behind("feedback", r)' # {}
                        /\ r \in done'["labels"] => r \in done'["feedback"] \/ Behind("labels", r)' # {}
      BY <2>2 DEF Supported
    <3>2. /\ Behind("feedback", r) # {} => Behind("feedback", r)' # {}
          /\ Behind("labels", r) # {} => Behind("labels", r)' # {}
      BY <3>1, StepNames
    <3>3. /\ r \in done["feedback"] => r \in done["order"] \/ Behind("feedback", r) # {}
          /\ r \in done["labels"] => r \in done["feedback"] \/ Behind("labels", r) # {}
      BY DEF Served, Supported
    <3>4. \A s \in Steps : r \in done'[s] <=> r \in done[s] \/ (r = b /\ s \in step)
      BY ONLY <1>6
    <3> QED BY ONLY <1>5, <3>2, <3>3, <3>4, StepNames
  <2>4. PICK B : B = Active(c)'
    OBVIOUS
  <2>5. B # {}
    BY <1>3, <1>9, <2>2, <2>4
  <2>6. PICK s : s = Resume(B)'
    OBVIOUS
  <2>7. s \in Screens \ {"closed"} /\ Pending(s, B)' # {}
    BY <2>5, <2>6, ResumeServes DEF Pending
  <2>8. s = Resume(Active(c))'
    BY <2>4, <2>6 DEF Resume, Pending
  <2>9. dialog'[c] = s
    BY <1>7, <1>9, <2>7, <2>8 DEF Open, IInv, TypeOK
  <2>10. Asking(c)' /\ Heard(c)'
    BY <2>4, <2>7, <2>9 DEF Asking, Heard, Pending
  <2>11. (Mine(c) \cap paid = {})'
    BY <1>7, <2>2 DEF Served
  <2> QED BY <2>1, <2>3, <2>10, <2>11, ServedEnds
<1> QED BY <1>8, <1>9

\* /cancel takes the newest application away, which nobody has behind them.
LEMMA CancelServes ==
    ASSUME IInv, NEW c \in Clients, Served(c), c \notin disturbed', NEW d \in Clients, Cancel(d)
    PROVE  Served(c)'
<1>1. PICK nm_id \in {article[b] : b \in Active(d)} :
        canceled' = canceled \cup {Newest({r \in Active(d) : article[r] = nm_id})}
  BY DEF Cancel
<1>2. PICK b : b = Newest({r \in Active(d) : article[r] = nm_id})
  OBVIOUS
<1>3. b \in Active(d) /\ article[b] = nm_id /\ \A r \in Active(d) : article[r] = nm_id => r <= b
  BY <1>2, NewestActiveRow
<1>4. /\ UNCHANGED <<last, client, article, done, paid>>
      /\ canceled' = canceled \cup {b}
      /\ task' = Orphaned(d) /\ Meddle(d)
  BY <1>1, <1>2 DEF Cancel
<1>5. CASE c # d
  <2>1. b \notin Mine(c)
    BY <1>3, <1>5 DEF Active, Mine
  <2>2. Kept(c)
    BY <1>4, <2>1 DEF Kept, Mine, Rows
  <2>3. Callbacks(c)' = Callbacks(c) /\ \A u \in Callbacks(c) : task'[u] = task[u]
    BY <1>4, <1>5, OrphanedStay
  <2>4. dialog'[c] = dialog[c] /\ engaged'[c] = engaged[c]
    BY <1>5 DEF Cancel, Open, Close, screens, IInv, TypeOK
  <2> QED BY <2>2, <2>3, <2>4, ServedAside
<1>6. CASE c = d
  <2>1. Callbacks(c)' = {} /\ Callbacks(c) = {}
    BY <1>4, <1>6, MeddleAlone, OrphanedStay
  <2>2. /\ Active(c)' = Active(c) \ {b} /\ Mine(c)' = Mine(c)
        /\ \A r \in Rows : Twins(r)' = Twins(r)
    BY <1>4 DEF Active, Mine, Rows, Twins
  <2>3. Supported(c)'
    <3>1. ASSUME NEW s \in Steps, NEW r \in Active(c), NEW p \in Behind(s, r)
          PROVE  p \in Behind(s, r)'
      <4>1. r \in Rows /\ client[r] = c /\ client'[r] = c
        BY <1>4 DEF Active
      <4>2. p \in Twins(r) /\ p \in Pending(s, Active(c)) /\ p < r
        BY <4>1 DEF Behind
      <4>3. p # b
        BY <1>3, <1>6, <3>1, NoNewer
      <4>4. p \in Pending(s, Active(c))'
        BY <1>4, <2>2, <4>2, <4>3 DEF Pending, Steps
      <4> QED BY <2>2, <4>1, <4>2, <4>4 DEF Behind
    <3> SUFFICES ASSUME NEW r \in Active(c)
                 PROVE  /\ r \in done["feedback"] => r \in done["order"] \/ Behind("feedback", r)' # {}
                        /\ r \in done["labels"] => r \in done["feedback"] \/ Behind("labels", r)' # {}
      BY <1>4, <2>2 DEF Supported
    <3>2. /\ Behind("feedback", r) # {} => Behind("feedback", r)' # {}
          /\ Behind("labels", r) # {} => Behind("labels", r)' # {}
      BY <3>1, StepNames
    <3>3. /\ r \in done["feedback"] => r \in done["order"] \/ Behind("feedback", r) # {}
          /\ r \in done["labels"] => r \in done["feedback"] \/ Behind("labels", r) # {}
      BY DEF Served, Supported
    <3> QED BY ONLY <3>2, <3>3
  <2>4. (Mine(c) \cap paid = {})'
    BY <1>4, <2>2 DEF Served
  <2>5. CASE Incomplete(c)' # {}
    <3>1. Open(c, Resume(Incomplete(c))')
      BY <1>6, <2>5 DEF Cancel
    <3>2. PICK B : B = Incomplete(c)'
      OBVIOUS
    <3>3. PICK s : s = Resume(B)'
      OBVIOUS
    <3>4. s \in Screens \ {"closed"} /\ Pending(s, B)' # {}
      BY <2>5, <3>2, <3>3, ResumeServes DEF Pending
    <3>5. dialog'[c] = s
      BY <3>1, <3>2, <3>3 DEF Open, IInv, TypeOK, Resume, Pending
    <3>6. B \subseteq Active(c)'
      BY <3>2 DEF Incomplete
    <3>7. Pending(s, Active(c))' # {}
      BY <3>4, <3>6 DEF Pending, Screens, Steps
    <3>8. Asking(c)' /\ Heard(c)'
      BY <3>4, <3>5, <3>7 DEF Asking, Heard, Pending
    <3> QED BY <2>1, <2>3, <2>4, <3>8, ServedEnds
  <2>6. CASE Incomplete(c)' = {} /\ dialog[c] # "closed"
    <3>1. Close(c)
      BY <1>6, <2>6 DEF Cancel
    <3>2. dialog'[c] = "closed" /\ engaged'[c] = FALSE
      BY <3>1 DEF Close, IInv, TypeOK
    <3> QED BY <2>1, <2>3, <2>4, <3>2, ServedEnds DEF Asking, Heard
  <2>7. CASE Incomplete(c)' = {} /\ dialog[c] = "closed"
    <3>1. UNCHANGED screens
      BY <1>6, <2>7 DEF Cancel
    <3>2. Heard(c)
      BY <2>1 DEF Served, Creating
    <3>3. Asking(c)' /\ Heard(c)'
      BY <2>7, <3>1, <3>2 DEF Asking, Heard, screens
    <3> QED BY <2>1, <2>3, <2>4, <3>3, ServedEnds
  <2> QED BY <2>5, <2>6, <2>7
<1> QED BY <1>5, <1>6

\* Payments and uploads disturb their client; the seller's commands and purchases
\* serve everyone as before.
LEMMA SurroundingsServe ==
    ASSUME IInv, NEW c \in Clients, Served(c), c \notin disturbed', Surroundings
    PROVE  Served(c)'
<1>1. ASSUME Kept(c), UNCHANGED <<screens, task>> PROVE Served(c)'
  <2>1. Callbacks(c)' = Callbacks(c) /\ \A u \in Callbacks(c) : task'[u] = task[u]
    BY <1>1 DEF Callbacks, Busy
  <2> QED BY <1>1, <2>1, ServedAside DEF screens
<1>2. ASSUME NEW d \in Clients, Pay(d) PROVE Served(c)'
  <2>1. c # d
    BY <1>2 DEF Pay
  <2>2. \A b \in Mine(c) : b \notin Active(d)
    BY <2>1 DEF Mine, Active
  <2>3. PICK B \in SUBSET Active(d) : paid' = paid \cup B
    BY <1>2 DEF Pay
  <2>4. Kept(c)
    BY <1>2, <2>2, <2>3 DEF Pay, Kept, Mine, Rows
  <2> QED BY <1>1, <1>2, <2>4 DEF Pay
<1>3. ASSUME NEW t \in Others, NEW d \in Clients, NEW nm_id \in Articles, PostBuyer(t, d, nm_id)
      PROVE  Served(c)'
  <2> DEFINE k == [Blank EXCEPT !.at = "creating", !.what = "request", !.client = d, !.todo = <<nm_id>>]
  <2>1. task' = [task EXCEPT ![t] = k] /\ task[t].at = "idle" /\ UNCHANGED <<rows, screens>> /\ t \in Tasks
    BY <1>3 DEF PostBuyer, Tasks
  <2>2. k.what = "request"
    BY DEF Blank
  <2> HIDE DEF k
  <2>3. t \notin Callbacks(c)
    BY <2>1, CallbacksAre
  <2>4. Callbacks(c)' = Callbacks(c) /\ \A u \in Callbacks(c) : task'[u] = task[u]
    BY <2>1, <2>2, <2>3, OneMoves
  <2> QED BY <2>1, <2>4, KeptSame, ServedAside DEF screens
<1>4. ASSUME NEW b \in Applications, NEW s \in Steps, Upload(b, s) PROVE Served(c)'
  <2>1. b \notin Mine(c)
    BY <1>4 DEF Upload, Mine
  <2>2. \A x \in Steps : \A r \in Mine(c) : r \in done'[x] <=> r \in done[x]
    BY <1>4, <2>1 DEF Upload, IInv, TypeOK
  <2>3. Kept(c)
    BY <1>4, <2>2, KeptMarks DEF Upload
  <2> QED BY <1>1, <1>4, <2>3 DEF Upload
<1>5. ASSUME NEW n \in Purchases, Purchase(n) PROVE Served(c)'
  BY <1>1, <1>5, KeptSame DEF Purchase
<1> QED BY <1>2, <1>3, <1>4, <1>5, ConfirmServes, CancelServes DEF Surroundings

\* What disturbed a client is not forgotten.
LEMMA DisturbedStays == ASSUME [Next]_vars PROVE disturbed \subseteq disturbed'
<1>1. \A c : Meddle(c) => disturbed \subseteq disturbed'
  BY DEF Meddle
<1>2. ASSUME NEW c \in Clients, Message(c) PROVE disturbed \subseteq disturbed'
  BY <1>1, <1>2 DEF Message, ResumeDialog, Stop, InputRequisites, ConfirmRequisites, DeclineRequisites,
     Approach, Send, Start, history
<1>3. ASSUME NEW t \in Tasks, Progress(t) PROVE disturbed \subseteq disturbed'
  BY <1>3 DEF Progress, history, GiveUp, ReadOffered, ReadApplications, AnswerChat, AnswerQuestion, AnswerOrder,
     AnswerFeedback, AnswerCutLabels, ReadLeads, MarkOrdered, MarkStep, Finish, Look, Insert, StartDialog
<1>4. ASSUME NEW t \in Tasks, Cut(t) PROVE disturbed \subseteq disturbed'
  BY <1>4 DEF Cut
<1>5. CASE Surroundings
  BY <1>1, <1>5 DEF Surroundings, Confirm, Cancel, Pay, PostBuyer, Upload, Purchase, history
<1>6. CASE UNCHANGED vars
  BY <1>6 DEF vars, history
<1> QED BY <1>2, <1>3, <1>4, <1>5, <1>6 DEF Next

-----------------------------------------------------------------------------
\* A callback's applications are its client's.
LEMMA RowsStay ==
    ASSUME IInv, [Next]_vars
    PROVE  \A c \in Clients : \A b \in Mine(c) : b \in Mine(c)'
<1>1. ASSUME UNCHANGED <<last, client>> PROVE \A c \in Clients : \A b \in Mine(c) : b \in Mine(c)'
  BY <1>1 DEF Mine, Rows
<1>2. ASSUME NEW t \in Tasks, Insert(t) PROVE \A c \in Clients : \A b \in Mine(c) : b \in Mine(c)'
  BY <1>2, KeptInsert DEF Kept
<1>3. ASSUME NEW c \in Clients, Message(c) PROVE UNCHANGED <<last, client>>
  BY <1>3 DEF Message, ResumeDialog, Stop, InputRequisites, ConfirmRequisites, DeclineRequisites,
     Approach, Send, rows
<1>4. ASSUME NEW t \in Tasks, Progress(t) \/ Cut(t), ~Insert(t) PROVE UNCHANGED <<last, client>>
  BY <1>4 DEF Progress, rows, GiveUp, ReadOffered, ReadApplications, AnswerChat, AnswerQuestion, AnswerOrder,
     AnswerFeedback, AnswerCutLabels, ReadLeads, MarkOrdered, MarkStep, Finish, Look, StartDialog, Cut
<1>5. ASSUME Surroundings PROVE UNCHANGED <<last, client>>
  BY <1>5 DEF Surroundings, Confirm, Cancel, Pay, PostBuyer, Upload, Purchase, rows
<1>6. CASE UNCHANGED vars
  BY <1>1, <1>6 DEF vars, rows
<1> QED BY <1>1, <1>2, <1>3, <1>4, <1>5, <1>6 DEF Next

\* Applications do not change hands, so what was its client's stays so.
LEMMA OwnsKept ==
    ASSUME NEW k, \A b \in Mine(k.client) : b \in Mine(k.client)', Owns(k)
    PROVE  Owns(k)'
BY DEF Owns

\* Nobody holds anything at first.
LEMMA OwnInit == Init => Own
BY DEF Init, Own, Owns, Blank

\* Nor does who has ended.
LEMMA BlankOwns == Owns(Blank)
BY DEF Owns, Blank

\* Losing the screen changes nothing of it ...
LEMMA OrphanedOwn ==
    ASSUME IInv, Own, NEW c, \/ task' = Orphaned(c)
                             \/ \E t \in Tasks : task' = [Orphaned(c) EXCEPT ![t] = Blank]
    PROVE  \A u \in Tasks : Owns(task'[u])
<1>1. \A u \in Tasks : task'[u] = Orphaned(c)[u] \/ task'[u] = Blank
  BY DEF Orphaned
<1> SUFFICES ASSUME NEW u \in Tasks PROVE Owns(Orphaned(c)[u])
  BY <1>1, BlankOwns
<1>2. Owns(task[u])
  BY DEF Own
<1> QED BY <1>2, OrphanedAre DEF Owns

\* ... and one task's step only what that task holds.
LEMMA OneOwn ==
    ASSUME IInv, Own, NEW t \in Tasks, NEW k, task' = [task EXCEPT ![t] = k], Owns(k)
    PROVE  \A u \in Tasks : Owns(task'[u])
<1>1. task'[t] = k /\ \A u \in Tasks \ {t} : task'[u] = task[u]
  BY DEF IInv
<1> QED BY <1>1 DEF Own

\* What is accepted was read, of the callback's client.
LEMMA AcceptOwn ==
    ASSUME IInv, Own, NEW t \in Tasks, task[t].at = "asking", task[t].what \in Steps,
           NEW nm_ids \in Seq(task[t].asked), task' = Accept(t, nm_ids)
    PROVE  \A u \in Tasks : Owns(task'[u])
<1> DEFINE meant(i) == Newest({b \in task[t].seen : article[b] = nm_ids[i]})
           todo == [i \in DOMAIN nm_ids |-> meant(i)]
           k == [task[t] EXCEPT !.at = "marking", !.seen = {}, !.asked = {}, !.todo = todo]
<1>0. task[t] \in TaskRecords /\ Owns(task[t]) /\ TaskOK(task[t])
  BY DEF IInv, Own
<1>1. task[t].seen \subseteq Mine(task[t].client) /\ Asks(task[t])
  BY <1>0 DEF Owns, TaskOK
<1>2. \A i \in DOMAIN nm_ids : meant(i) \in task[t].seen
  <2> TAKE i \in DOMAIN nm_ids
  <2> DEFINE B == {b \in task[t].seen : article[b] = nm_ids[i]}
  <2>1. nm_ids[i] \in task[t].asked
    OBVIOUS
  <2>2. B # {} /\ B \in SUBSET Applications
    BY <1>0, <1>1, <2>1 DEF Asks, TaskRecords
  <2>3. Newest(B) \in B
    <3> HIDE DEF B
    <3> QED BY <2>2, NewestIn
  <2> QED BY <2>3
<1>3. task' = [task EXCEPT ![t] = k]
  BY DEF Accept, IInv
<1>4. k.at = "marking" /\ k.client = task[t].client /\ k.todo = todo
  <2> HIDE DEF todo
  <2> QED BY <1>0 DEF TaskRecords
<1> HIDE DEF k
<1>5. \A i \in DOMAIN k.todo : k.todo[i] \in Mine(k.client)
  BY <1>1, <1>2, <1>4
<1>6. Owns(k)
  BY <1>4, <1>5 DEF Owns
<1> QED BY <1>3, <1>6, OneOwn

\* So after each answer to a photo.
LEMMA AnswerOwn ==
    ASSUME IInv, Own, NEW t \in Tasks, AnswerOrder(t) \/ AnswerFeedback(t) \/ AnswerCutLabels(t)
    PROVE  \A u \in Tasks : Owns(task'[u])
<1>0. task[t].at = "asking" /\ task[t].what \in Steps
  BY DEF AnswerOrder, AnswerFeedback, AnswerCutLabels, Steps
<1>1. CASE End(t)
  BY <1>1, BlankOwns, OneOwn DEF End
<1>2. CASE \E r \in OrderAnswers(task[t].asked) : r.nm_ids # <<>> /\ task' = Accept(t, r.nm_ids)
  <2>1. PICK r \in OrderAnswers(task[t].asked) : r.nm_ids # <<>> /\ task' = Accept(t, r.nm_ids)
    BY <1>2
  <2>2. r.nm_ids \in Seq(task[t].asked)
    BY <2>1, ListsAreSequences DEF OrderAnswers
  <2> QED BY <1>0, <2>1, <2>2, AcceptOwn
<1>3. CASE \E r \in FeedbackAnswers(task[t].asked) : r.nm_ids # <<>> /\ task' = Accept(t, r.nm_ids)
  <2>1. PICK r \in FeedbackAnswers(task[t].asked) : r.nm_ids # <<>> /\ task' = Accept(t, r.nm_ids)
    BY <1>3
  <2>2. r.nm_ids \in Seq(task[t].asked)
    BY <2>1, ListsAreSequences DEF FeedbackAnswers
  <2> QED BY <1>0, <2>1, <2>2, AcceptOwn
<1> DEFINE candidates == {b \in task[t].seen : article[b] \in task[t].asked}
           nm_id == article[Newest(candidates)]
<1>4. CASE candidates # {} /\ task' = Accept(t, <<nm_id>>)
  <2>1. candidates \in SUBSET Applications
    BY DEF IInv, TaskRecords
  <2>2. Newest(candidates) \in candidates
    <3> HIDE DEF candidates
    <3> QED BY <1>4, <2>1, NewestIn
  <2>3. nm_id \in task[t].asked
    BY <2>2
  <2>4. <<nm_id>> \in Seq(task[t].asked)
    <3> HIDE DEF nm_id
    <3> QED BY <2>3, SingletonSequence
  <2> HIDE DEF nm_id
  <2> QED BY <1>0, <1>4, <2>4, AcceptOwn
<1> HIDE DEF candidates, nm_id
<1>5. CASE AnswerOrder(t)
  BY <1>1, <1>2, <1>5 DEF AnswerOrder
<1>6. CASE AnswerFeedback(t)
  BY <1>1, <1>3, <1>6 DEF AnswerFeedback
<1>7. CASE AnswerCutLabels(t)
  BY <1>1, <1>4, <1>7 DEF AnswerCutLabels, candidates, nm_id
<1> QED BY <1>5, <1>6, <1>7

\* A callback that is neither asking about applications nor marking them.
LEMMA PlainOwns ==
    ASSUME NEW k, k.at \notin {"marking", "paying"}, k.at = "asking" => k.what \notin Steps
    PROVE  Owns(k)
BY DEF Owns

\* What is read is the callback's client's.
LEMMA ReadOwn ==
    ASSUME IInv, Own, NEW t \in Tasks, ReadOffered(t) \/ ReadApplications(t)
    PROVE  \A u \in Tasks : Owns(task'[u])
<1>0. task[t] \in TaskRecords
  BY DEF IInv
<1>1. CASE ReadOffered(t)
  <2>1. task[t].what \notin Steps
    BY <1>1 DEF ReadOffered, Steps
  <2>2. PICK offered : task' = [task EXCEPT ![t].at = "asking", ![t].asked = offered]
    BY <1>1 DEF ReadOffered
  <2> DEFINE k == [task[t] EXCEPT !.at = "asking", !.asked = offered]
  <2>3. task' = [task EXCEPT ![t] = k]
    BY <2>2, TaskNow
  <2>4. k.at = "asking" /\ k.what = task[t].what
    BY <1>0 DEF TaskRecords
  <2> HIDE DEF k
  <2> QED BY <2>1, <2>3, <2>4, PlainOwns, OneOwn
<1>2. CASE ReadApplications(t)
  <2> DEFINE mine == Active(task[t].client)
             wanted == {article[b] : b \in Pending(task[t].what, mine)}
             k == [task[t] EXCEPT !.at = "asking", !.seen = mine, !.asked = wanted]
  <2>1. task' = [task EXCEPT ![t] = k]
    BY <1>2 DEF ReadApplications, IInv
  <2>2. k.at = "asking" /\ k.client = task[t].client /\ k.seen = mine
    <3> HIDE DEF mine, wanted
    <3> QED BY <1>0 DEF TaskRecords
  <2> HIDE DEF k
  <2>3. Owns(k)
    BY <2>2 DEF Owns, Active, Mine
  <2> QED BY <2>1, <2>3, OneOwn
<1> QED BY <1>1, <1>2

\* Answers to texts leave articles to be created, at most.
LEMMA TalkOwn ==
    ASSUME IInv, Own, NEW t \in Tasks, AnswerChat(t) \/ AnswerQuestion(t)
    PROVE  \A u \in Tasks : Owns(task'[u])
<1>0. task[t] \in TaskRecords
  BY DEF IInv
<1>1. CASE End(t)
  BY <1>1, BlankOwns, OneOwn DEF End
<1>2. ASSUME NEW todo, task' = [task EXCEPT ![t].at = "creating", ![t].todo = todo]
      PROVE  \A u \in Tasks : Owns(task'[u])
  <2> DEFINE k == [task[t] EXCEPT !.at = "creating", !.todo = todo]
  <2>1. task' = [task EXCEPT ![t] = k]
    BY <1>2, TaskNow
  <2>2. k.at = "creating"
    BY <1>0 DEF TaskRecords
  <2> HIDE DEF k
  <2> QED BY <2>1, <2>2, PlainOwns, OneOwn
<1>3. CASE task' = [Orphaned(task[t].client) EXCEPT ![t] = Blank]
  BY <1>3, OrphanedOwn
<1>4. CASE AnswerChat(t)
  BY <1>1, <1>2, <1>4 DEF AnswerChat
<1>5. CASE AnswerQuestion(t)
  BY <1>1, <1>2, <1>3, <1>5 DEF AnswerQuestion
<1> QED BY <1>4, <1>5

\* Creating an application, and going on from one mark to the next.
LEMMA WorkOwn ==
    ASSUME IInv, Own, NEW t \in Tasks,
           Look(t) \/ Insert(t) \/ StartDialog(t) \/ ReadLeads(t) \/ MarkOrdered(t) \/ MarkStep(t)
    PROVE  \A u \in Tasks : Owns(task'[u])
<1>0. task[t] \in TaskRecords /\ Owns(task[t]) /\ TaskOK(task[t])
  BY DEF IInv, Own
<1>1. CASE Look(t)
  <2>1. \/ task' = [task EXCEPT ![t] = [task[t] EXCEPT !.todo = Tail(@)]]
        \/ task' = [task EXCEPT ![t] = [task[t] EXCEPT !.at = "inserting"]]
    BY <1>1 DEF Look, IInv
  <2>2. /\ [task[t] EXCEPT !.todo = Tail(@)].at = "creating"
        /\ [task[t] EXCEPT !.at = "inserting"].at = "inserting"
    BY <1>0, <1>1 DEF Look, TaskRecords
  <2>3. Owns([task[t] EXCEPT !.todo = Tail(@)]) /\ Owns([task[t] EXCEPT !.at = "inserting"])
    BY <2>2, PlainOwns
  <2> QED BY <2>1, <2>3, OneOwn
<1>2. CASE Insert(t)
  <2> DEFINE k == [task[t] EXCEPT !.at = "creating", !.todo = Tail(@)]
  <2>1. task' = [task EXCEPT ![t] = k]
    BY <1>2 DEF Insert, IInv
  <2>2. k.at = "creating"
    BY <1>0 DEF TaskRecords
  <2> HIDE DEF k
  <2> QED BY <2>1, <2>2, PlainOwns, OneOwn
<1>3. CASE StartDialog(t)
  <2>1. End(t) \/ task' = [Orphaned(task[t].client) EXCEPT ![t] = Blank]
    BY <1>3 DEF StartDialog
  <2> QED BY <2>1, BlankOwns, OneOwn, OrphanedOwn DEF End
<1>4. CASE ReadLeads(t)
  <2> DEFINE k == [task[t] EXCEPT !.at = "paying", !.lead = leads]
  <2>1. task' = [task EXCEPT ![t] = k]
    BY <1>4 DEF ReadLeads, IInv
  <2>2. k.at = "paying" /\ k.client = task[t].client /\ k.todo = task[t].todo
    BY <1>0 DEF TaskRecords
  <2> HIDE DEF k
  <2>3. Owns(k)
    BY <1>0, <1>4, <2>2 DEF Owns, ReadLeads
  <2> QED BY <2>1, <2>3, OneOwn
<1>5. CASE MarkOrdered(t) \/ MarkStep(t)
  <2> DEFINE todo == task[t].todo
             k == Advanced(t)
  <2>1. task' = [task EXCEPT ![t] = k] /\ task[t].at \in {"marking", "paying"} /\ todo # <<>>
    BY <1>0, <1>5 DEF MarkOrdered, MarkStep, TaskOK
  <2>2. k.at = "marking" /\ k.client = task[t].client /\ k.todo = Tail(todo)
    BY <1>0 DEF TaskRecords, Advanced
  <2>3. todo \in Seq(Rows)
    BY <1>0, <2>1 DEF TaskOK, Marks
  <2>4. \A i \in DOMAIN todo : todo[i] \in Mine(task[t].client)
    BY <1>0, <2>1 DEF Owns
  <2> HIDE DEF k, todo
  <2>5. \A i \in DOMAIN Tail(todo) : Tail(todo)[i] \in Mine(task[t].client)
    <3>1. \A i \in DOMAIN Tail(todo) : i + 1 \in DOMAIN todo /\ Tail(todo)[i] = todo[i + 1]
      BY ONLY <2>1, <2>3 DEF todo
    <3> QED BY <2>4, <3>1
  <2>6. Owns(k)
    BY <2>2, <2>5 DEF Owns
  <2> QED BY <2>1, <2>6, OneOwn
<1> QED BY <1>1, <1>2, <1>3, <1>4, <1>5

\* After every step, a callback holds what was its client's before.
LEMMA OwnNow ==
    ASSUME IInv, Own, [Next]_vars
    PROVE  \A u \in Tasks : Owns(task'[u])
<1>1. CASE UNCHANGED task
  BY <1>1 DEF Own
<1>2. ASSUME NEW c, task' = Orphaned(c) PROVE \A u \in Tasks : Owns(task'[u])
  BY <1>2, OrphanedOwn
<1>3. ASSUME NEW t \in Tasks, End(t) PROVE \A u \in Tasks : Owns(task'[u])
  BY <1>3, BlankOwns, OneOwn DEF End
<1>4. ASSUME NEW c \in Clients, Message(c) PROVE \A u \in Tasks : Owns(task'[u])
  <2>1. ASSUME NEW t \in Tasks, NEW what, Start(t, c, what, "reading")
        PROVE  \A u \in Tasks : Owns(task'[u])
    <3> DEFINE home == what \in Steps \cup {"talk"}
               k == [Blank EXCEPT !.at = "reading", !.what = what, !.client = c, !.home = home]
    <3>1. task' = [task EXCEPT ![t] = k]
      BY <2>1 DEF Start
    <3>2. k.at = "reading"
      BY DEF Blank
    <3> HIDE DEF k
    <3> QED BY <3>1, <3>2, PlainOwns, OneOwn
  <2>2. \/ UNCHANGED task \/ task' = Orphaned(c)
        \/ \E t \in Tasks, what \in Steps \cup {"talk", "intake"} : Start(t, c, what, "reading")
    BY <1>4 DEF Message, ResumeDialog, Stop, InputRequisites, ConfirmRequisites, DeclineRequisites,
       Approach, Send
  <2> QED BY <1>1, <1>2, <2>1, <2>2
<1>5. ASSUME NEW t \in Tasks, Progress(t) \/ Cut(t) PROVE \A u \in Tasks : Owns(task'[u])
  <2>1. \/ End(t) \/ ReadOffered(t) \/ ReadApplications(t) \/ AnswerChat(t) \/ AnswerQuestion(t)
        \/ AnswerOrder(t) \/ AnswerFeedback(t) \/ AnswerCutLabels(t)
        \/ Look(t) \/ Insert(t) \/ StartDialog(t) \/ ReadLeads(t) \/ MarkOrdered(t) \/ MarkStep(t)
    BY <1>5 DEF Progress, GiveUp, Finish, Cut
  <2> QED BY <1>3, <2>1, ReadOwn, TalkOwn, AnswerOwn, WorkOwn
<1>6. ASSUME NEW t \in Others, NEW c \in Clients, NEW nm_id \in Articles, PostBuyer(t, c, nm_id)
      PROVE  \A u \in Tasks : Owns(task'[u])
  <2> DEFINE k == [Blank EXCEPT !.at = "creating", !.what = "request", !.client = c, !.todo = <<nm_id>>]
  <2>1. task' = [task EXCEPT ![t] = k] /\ t \in Tasks
    BY <1>6 DEF PostBuyer, Tasks
  <2>2. k.at = "creating"
    BY DEF Blank
  <2> HIDE DEF k
  <2> QED BY <2>1, <2>2, PlainOwns, OneOwn
<1>7. CASE Surroundings
  BY <1>1, <1>2, <1>6, <1>7 DEF Surroundings, Confirm, Cancel, Pay, Upload, Purchase
<1>8. CASE UNCHANGED vars
  BY <1>1, <1>8 DEF vars
<1> QED BY <1>4, <1>5, <1>7, <1>8 DEF Next

\* What a callback means to mark stays its client's.
LEMMA OwnStep == ASSUME IInv, IInv', Own, [Next]_vars PROVE Own'
<1> SUFFICES ASSUME NEW u \in Tasks PROVE Owns(task[u])'
  BY DEF Own
<1>1. PICK k : k = task'[u]
  OBVIOUS
<1>2. Owns(k)
  BY <1>1, OwnNow
<1>3. k.at # "idle" => k.client \in Clients
  BY <1>1 DEF IInv, TaskOK
<1>4. Owns(k)'
  BY <1>2, <1>3, RowsStay, OwnsKept DEF Owns
<1> QED BY <1>1, <1>4 DEF Owns

\* Every step of the system serves every client that is not disturbed by then.
LEMMA ServedStep ==
    ASSUME IInv, IInv', ServedInv, [Next]_vars
    PROVE  ServedInv'
<1>1. Own'
  BY OwnStep DEF ServedInv
<1>2. ASSUME NEW c \in Clients, c \notin disturbed' PROVE Served(c)'
  <2>1. Served(c) /\ Own
    BY <1>2, DisturbedStays DEF ServedInv
  <2>2. ASSUME NEW d \in Clients, Message(d) PROVE Served(c)'
    BY <1>2, <2>1, <2>2, MessageServes
  <2>3. ASSUME NEW t \in Tasks, Progress(t) \/ Cut(t) PROVE Served(c)'
    BY <1>2, <2>1, <2>3, OwnServes, AsideServes
  <2>4. CASE Surroundings
    BY <1>2, <2>1, <2>4, SurroundingsServe
  <2>5. CASE UNCHANGED vars
    <3>1. Callbacks(c)' = Callbacks(c) /\ \A u \in Callbacks(c) : task'[u] = task[u]
      BY <2>5 DEF vars, Callbacks, Busy
    <3> QED BY <2>1, <2>5, <3>1, KeptSame, ServedAside DEF vars, screens
  <2> QED BY <2>2, <2>3, <2>4, <2>5 DEF Next
<1> QED BY <1>1, <1>2 DEF ServedInv

\* At first there is nobody to serve.
LEMMA ServedStart == Init => ServedInv
<1> SUFFICES ASSUME Init, NEW c \in Clients PROVE Served(c)
  BY OwnInit DEF ServedInv
<1>1. Rows = {}
  BY DEF Init, Rows
<1>2. Mine(c) = {} /\ Active(c) = {}
  BY <1>1 DEF Mine, Active
<1>3. Callbacks(c) = {}
  BY DEF Init, Callbacks, Busy, Blank
<1>4. dialog[c] = "closed" /\ engaged[c] = FALSE
  BY DEF Init
<1> QED BY <1>2, <1>3, <1>4 DEF Served, Supported, Asking, Heard

\* The strengthened invariant of the dialog: an undisturbed client has one callback,
\* what that has read and accepted is still right, and it leaves a screen that asks
\* for something.
THEOREM ServedAlways == Spec => []ServedInv
<1>1. IInv /\ IInv' /\ ServedInv /\ [Next]_vars => ServedInv'
  BY ServedStep
<1> QED BY <1>1, ServedStart, Invariant, PTL DEF Spec

\* While no callback is at work, an open screen asks for something that is pending,
\* and a client in "client_processing" has a dialog, in spite of callbacks of other
\* clients, API requests, and the seller's commands between them.
THEOREM DialogHelps == Spec => []DialogServes
<1>1. ServedInv => DialogServes
  <2> SUFFICES ASSUME ServedInv, NEW c \in Clients \ disturbed, Callbacks(c) = {}
               PROVE  /\ dialog[c] # "closed" => Pending(dialog[c], Active(c)) # {}
                      /\ engaged[c] => dialog[c] # "closed"
    BY DEF DialogServes
  <2>1. Served(c) /\ ~Marking(c) /\ ~Creating(c)
    BY DEF ServedInv, Marking, Creating
  <2> QED BY <2>1 DEF Served, Asking, Heard
<1> QED BY <1>1, ServedAlways, PTL
=============================================================================
