------------------------------ MODULE BuyerFlow -----------------------------
(***************************************************************************)
(* A client's way from the first message to the requisites: the messages   *)
(* before the dialog, CreateBuyer, the dialog's four screens, the seller's *)
(* /confirm and /cancel, the uploads of the mini-app, and the leads that   *)
(* accepted orders cost the cabinet.                                       *)
(*                                                                         *)
(* What a message sets off is a callback of MessageDebouncer: it reads,    *)
(* asks the language model, which takes seconds, and writes what it        *)
(* concluded from what it had read.  A callback's steps end where others   *)
(* can get in between with effect; a handler that only awaits a few        *)
(* queries is one step.  Amounts, texts, chat histories and the counter    *)
(* that sends a third bad photo to the manager are left out: they decide   *)
(* only what is written to whom.                                           *)
(***************************************************************************)
EXTENDS KieGateway, Sequences, FiniteSets

CONSTANTS
    Clients, Articles,
    MaxApplications,    \* bound: rows of table buyers
    Timers, Others,     \* callbacks run by a timer; those of long messages, and API requests
    InitialLeads,
    Purchases,          \* sizes of a confirmed purchase of leads
    MaxOutside          \* bound: purchases, payments, commands, API calls

Tasks == Timers \cup Others

ASSUME BuyerFlowAssumption ==
    /\ MaxApplications \in Nat /\ MaxItems \in Nat \ {0}
    /\ InitialLeads \in Nat /\ Purchases \subseteq Nat \ {0} /\ MaxOutside \in Nat
    /\ Nobody \notin Articles \cup Clients
    /\ Timers \cap Others = {} /\ IsFiniteSet(Tasks)

VARIABLES
    last,                   \* applications 1 .. last exist, in the order of created_at
    client, article,        \* telegram_id and nm_id of an application
    done,                   \* is_ordered, is_left_feedback, is_cut_labels
    canceled, paid,
    leads,                  \* cabinets.leads_balance
    dialog, dialog_data,    \* the open screen, and what was typed into the last one
    engaged,                \* the FSM state "client_processing"
    task,                   \* where each callback is, and its locals
    outside,
    \* History: leads bought; applications that cost a lead, that cost it again, and
    \* why they might; a lead written from a stale read; creations, clients and
    \* applications where others came in between.
    bought, charged, twice, again, raced, crossed, disturbed, uploaded

rows == <<last, client, article, done, canceled, paid>>
screens == <<dialog, dialog_data, engaged>>
history == <<bought, charged, twice, again, raced, crossed, disturbed, uploaded>>
vars == <<rows, leads, screens, task, outside, history>>

Steps == {"order", "feedback", "labels"}
Screens == Steps \cup {"closed", "requisites"}
Fields == {"phone_number", "bank"}
After == [s \in Steps |-> CASE s = "order" -> "feedback" [] s = "feedback" -> "labels"
                            [] s = "labels" -> "requisites"]

Applications == 1 .. MaxApplications
Rows == 1 .. last

-----------------------------------------------------------------------------
(* Queries.                                                                *)

Newest(B) == CHOOSE b \in B : \A other \in B : other <= b

Active(c) == {b \in Rows : client[b] = c} \ (canceled \cup paid)

Complete == done["order"] \cap done["feedback"] \cap done["labels"]
Incomplete(c) == Active(c) \ Complete

\* What the client may not apply for again.  What else is not offered, because it
\* is out of stock or gone from the sheet, is any set of articles.
Bought(c) == {article[b] : b \in {r \in Rows : client[r] = c} \cap (Complete \cup canceled)}

\* Mutant: feedback is asked for before the order is in.
PendingUnordered(s, B) ==
    CASE s = "order" -> B \ done["order"]
      [] s = "feedback" -> B \ done["feedback"]
      [] s = "labels" -> (B \cap done["feedback"]) \ done["labels"]
      [] s = "requisites" -> B \cap done["labels"]

\* get_pending_nm_ids_for_step
Pending(s, B) ==
    CASE s = "order" -> B \ done["order"]
      [] s = "feedback" -> (B \cap done["order"]) \ done["feedback"]
      [] s = "labels" -> (B \cap done["feedback"]) \ done["labels"]
      [] s = "requisites" -> B \cap done["labels"]

\* determine_resume_state; "closed" stands for None.
Resume(B) ==
    CASE Pending("order", B) # {} -> "order"
      [] Pending("order", B) = {} /\ Pending("feedback", B) # {} -> "feedback"
      [] Pending("order", B) \cup Pending("feedback", B) = {}
           /\ Pending("labels", B) # {} -> "labels"
      [] Pending("order", B) \cup Pending("feedback", B) \cup Pending("labels", B) = {} ->
           IF Pending("requisites", B) # {} THEN "requisites" ELSE "closed"

-----------------------------------------------------------------------------
(* Callbacks and screens.                                                  *)

Blank == [at |-> "idle", what |-> "none", client |-> Nobody, home |-> FALSE,
          seen |-> {}, asked |-> {}, todo |-> <<>>, lead |-> 0]

Busy(c) == {t \in Tasks : task[t].at # "idle" /\ task[t].client = c}
Callbacks(c) == {t \in Busy(c) : task[t].what # "request"}

\* start(mode=RESET_STACK) and done(): the callbacks that held the old screen can
\* no longer move it.
Orphaned(c) == [t \in Tasks |-> IF task[t].client = c THEN [task[t] EXCEPT !.home = FALSE]
                                                       ELSE task[t]]

Open(c, s) ==
    /\ dialog' = [dialog EXCEPT ![c] = s]
    /\ dialog_data' = [dialog_data EXCEPT ![c] = {}]

\* on_close clears the FSM state too.
Close(c) ==
    /\ dialog' = [dialog EXCEPT ![c] = "closed"]
    /\ dialog_data' = [dialog_data EXCEPT ![c] = {}]
    /\ engaged' = [engaged EXCEPT ![c] = FALSE]

\* Somebody else touches the client's screen or applications while a callback is
\* at work on them.
Meddle(c) == disturbed' = IF Callbacks(c) # {} THEN disturbed \cup {c} ELSE disturbed

\* A timer's callback is ended by the next message (Debouncer), so the client has
\* one of them; a long message's callback does not know of the others.
Start(t, c, what, at) ==
    /\ task[t].at = "idle"
    /\ Callbacks(c) \cap Timers = {}
    /\ task' = [task EXCEPT ![t] =
                  [Blank EXCEPT !.at = at, !.what = what, !.client = c, !.home = what \in Steps \cup {"talk"}]]
    /\ Meddle(c)

End(t) == task' = [task EXCEPT ![t] = Blank]

-----------------------------------------------------------------------------
(* A client's messages.                                                    *)

\* process_clients_business_message: the dialog of open applications is resumed,
\* whatever the message was.
ResumeDialog(c) ==
    /\ ~engaged[c] /\ leads > 0
    /\ Incomplete(c) # {}
    /\ engaged' = [engaged EXCEPT ![c] = TRUE]
    /\ Open(c, Resume(Incomplete(c)))
    /\ task' = Orphaned(c)
    /\ Meddle(c)
    /\ UNCHANGED <<rows, leads, outside, bought, charged, twice, again, raced, crossed, uploaded>>

\* Without open applications it is talked to.
Approach(t, c) ==
    /\ ~engaged[c] /\ leads > 0
    /\ Incomplete(c) = {}
    /\ Start(t, c, "intake", "reading")
    /\ UNCHANGED <<rows, leads, screens, outside, bought, charged, twice, again, raced, crossed, uploaded>>

\* A photo for the open screen, or a text.
Send(t, c, what) ==
    /\ engaged[c] /\ dialog[c] \in Steps
    /\ what \in {dialog[c], "talk"}
    /\ Start(t, c, what, "reading")
    /\ UNCHANGED <<rows, leads, screens, outside, bought, charged, twice, again, raced, crossed, uploaded>>

\* "stop".
Stop(c) ==
    /\ engaged[c] /\ dialog[c] \in Steps
    /\ Close(c)
    /\ task' = Orphaned(c)
    /\ Meddle(c)
    /\ UNCHANGED <<rows, leads, outside, bought, charged, twice, again, raced, crossed, uploaded>>

\* on_input_requisites: a text may hold any of the fields.
InputRequisites(c) ==
    /\ engaged[c] /\ dialog[c] = "requisites"
    /\ IF Pending("requisites", Active(c)) = {}
         THEN Close(c) /\ task' = Orphaned(c)
         ELSE /\ \E given \in SUBSET Fields :
                    dialog_data' = [dialog_data EXCEPT ![c] = @ \cup given]
              /\ UNCHANGED <<dialog, engaged, task>>
    /\ Meddle(c)
    /\ UNCHANGED <<rows, leads, outside, bought, charged, twice, again, raced, crossed, uploaded>>

\* The buttons are shown once phone and bank are known; the amount may come from
\* the applications.
Shown(c) == engaged[c] /\ dialog[c] = "requisites" /\ dialog_data[c] = Fields

\* on_confirm_requisites: whatever becomes of the payout (module Payout), the
\* dialog is over.
ConfirmRequisites(c) ==
    /\ Shown(c)
    /\ Close(c)
    /\ task' = Orphaned(c)
    /\ Meddle(c)
    /\ UNCHANGED <<rows, leads, outside, bought, charged, twice, again, raced, crossed, uploaded>>

\* on_decline_requisites: the client types them again.
DeclineRequisites(c) ==
    /\ Shown(c)
    /\ dialog_data' = [dialog_data EXCEPT ![c] = {}]
    /\ UNCHANGED <<rows, leads, dialog, engaged, task, outside, history>>

-----------------------------------------------------------------------------
(* Callbacks: reading and asking.                                          *)

\* A callback may find nothing to ask about: no active table, nothing in stock, a
\* mere "ok", several photos.
GiveUp(t) ==
    /\ task[t].at = "reading"
    /\ End(t)
    /\ UNCHANGED <<rows, leads, screens, outside, history>>

ReadOffered(t) ==
    /\ task[t].at = "reading" /\ task[t].what \in {"intake", "talk"}
    /\ \E offered \in SUBSET (Articles \ Bought(task[t].client)) :
          /\ task[t].what = "intake" => offered # {}
          /\ task' = [task EXCEPT ![t].at = "asking", ![t].asked = offered]
    /\ UNCHANGED <<rows, leads, screens, outside, history>>

\* Mutant: all applications are asked about, not only the pending ones.
ReadAllApplications(t) ==
    /\ task[t].at = "reading" /\ task[t].what \in Steps
    /\ LET mine == Active(task[t].client) IN
         task' = [task EXCEPT ![t].at = "asking", ![t].seen = mine,
                              ![t].asked = {article[b] : b \in mine}]
    /\ UNCHANGED <<rows, leads, screens, outside, history>>

\* The photo of a step: the applications now, and what they still lack.
ReadApplications(t) ==
    /\ task[t].at = "reading" /\ task[t].what \in Steps
    /\ LET mine == Active(task[t].client) IN
         task' = [task EXCEPT ![t].at = "asking", ![t].seen = mine,
                              ![t].asked = {article[b] : b \in Pending(task[t].what, mine)}]
    /\ UNCHANGED <<rows, leads, screens, outside, history>>

\* The applications the accepted articles mean: the newest in the list that was
\* read.
Accept(t, nm_ids) ==
    [task EXCEPT ![t].at = "marking", ![t].seen = {}, ![t].asked = {},
        ![t].todo = [i \in DOMAIN nm_ids |->
                        Newest({b \in task[t].seen : article[b] = nm_ids[i]})]]

AnswerChat(t) ==
    /\ task[t].at = "asking" /\ task[t].what = "intake"
    /\ \E r \in ChatAnswers(task[t].asked) :
          IF r.wants_manager \/ r.article_ids = <<>>
            THEN End(t) /\ UNCHANGED engaged
            ELSE /\ task' = [task EXCEPT ![t].at = "creating", ![t].todo = r.article_ids]
                 /\ engaged' = [engaged EXCEPT ![task[t].client] = TRUE]
    /\ UNCHANGED <<rows, leads, dialog, dialog_data, outside, history>>

AnswerQuestion(t) ==
    /\ task[t].at = "asking" /\ task[t].what = "talk"
    /\ \E r \in QuestionAnswers(Articles) :
          LET switch == ~r.wants_manager /\ r.switch_to_article_id \in task[t].asked
              stop == ~r.wants_manager /\ ~switch /\ r.wants_to_stop /\ task[t].home
          IN
            /\ switch => /\ task' = [task EXCEPT ![t].at = "creating",
                                                 ![t].todo = <<r.switch_to_article_id>>]
                         /\ UNCHANGED screens
            /\ stop => /\ Close(task[t].client)
                       /\ task' = [Orphaned(task[t].client) EXCEPT ![t] = Blank]
            /\ ~switch /\ ~stop => End(t) /\ UNCHANGED screens
    /\ UNCHANGED <<rows, leads, outside, history>>

AnswerOrder(t) ==
    /\ task[t].at = "asking" /\ task[t].what = "order"
    /\ \E r \in OrderAnswers(task[t].asked) :
          IF ~r.is_order \/ r.nm_ids = <<>>
            THEN End(t)
            ELSE task' = Accept(t, r.nm_ids)
    /\ UNCHANGED <<rows, leads, screens, outside, history>>

AnswerFeedback(t) ==
    /\ task[t].at = "asking" /\ task[t].what = "feedback"
    /\ \E r \in FeedbackAnswers(task[t].asked) :
          IF ~r.is_feedback \/ r.nm_ids = <<>>
            THEN End(t)
            ELSE task' = Accept(t, r.nm_ids)
    /\ UNCHANGED <<rows, leads, screens, outside, history>>

\* The newest pending application is meant; if none is pending, None is used as a
\* row and the callback fails.
AnswerCutLabels(t) ==
    /\ task[t].at = "asking" /\ task[t].what = "labels"
    /\ LET candidates == {b \in task[t].seen : article[b] \in task[t].asked} IN
       \E r \in CutLabelsAnswers :
          IF ~r.is_cut_labels \/ candidates = {}
            THEN End(t)
            ELSE task' = Accept(t, <<article[Newest(candidates)]>>)
    /\ UNCHANGED <<rows, leads, screens, outside, history>>

-----------------------------------------------------------------------------
(* Callbacks: marking what was accepted.                                   *)

Advanced(t) == [task[t] EXCEPT !.at = "marking", !.todo = Tail(@), !.lead = 0]

\* The cabinet and the application are read ...
ReadLeads(t) ==
    /\ task[t].at = "marking" /\ task[t].what = "order" /\ task[t].todo # <<>>
    /\ task' = [task EXCEPT ![t].at = "paying", ![t].lead = leads]
    /\ UNCHANGED <<rows, leads, screens, outside, history>>

\* ... and both are written, the leads as they were read less one.
MarkOrdered(t) ==
    /\ task[t].at = "paying"
    /\ LET b == Head(task[t].todo)
           costs == task[t].lead >= 1
           named == \E i \in 2 .. Len(task[t].todo) : task[t].todo[i] = b
           rivals == {u \in Tasks \ {t} : /\ task[u].what = "order"
                                           /\ \/ b \in task[u].seen
                                              \/ \E i \in DOMAIN task[u].todo : task[u].todo[i] = b} IN
         /\ done' = [done EXCEPT !["order"] = @ \cup {b}]
         /\ leads' = IF costs THEN task[t].lead - 1 ELSE leads
         /\ raced' = (raced \/ (costs /\ leads # task[t].lead))
         /\ charged' = IF costs THEN charged \cup {b} ELSE charged
         /\ twice' = IF costs THEN twice \cup ({b} \cap charged) ELSE twice
         /\ again' = IF costs /\ (named \/ rivals # {}) THEN again \cup {b} ELSE again
    /\ task' = [task EXCEPT ![t] = Advanced(t)]
    /\ UNCHANGED <<last, client, article, canceled, paid, screens, outside, bought, crossed, disturbed, uploaded>>

\* Mutant: every step costs a lead.
MarkStepForLead(t) ==
    /\ task[t].at = "marking" /\ task[t].what \in {"feedback", "labels"} /\ task[t].todo # <<>>
    /\ done' = [done EXCEPT ![task[t].what] = @ \cup {Head(task[t].todo)}]
    /\ leads' = IF leads >= 1 THEN leads - 1 ELSE leads
    /\ task' = [task EXCEPT ![t] = Advanced(t)]
    /\ UNCHANGED <<last, client, article, canceled, paid, screens, outside, history>>

MarkStep(t) ==
    /\ task[t].at = "marking" /\ task[t].what \in {"feedback", "labels"} /\ task[t].todo # <<>>
    /\ done' = [done EXCEPT ![task[t].what] = @ \cup {Head(task[t].todo)}]
    /\ task' = [task EXCEPT ![t] = Advanced(t)]
    /\ UNCHANGED <<last, client, article, canceled, paid, leads, screens, outside, history>>

\* Mutant: the next screen follows, whatever is still pending.
FinishAlways(t) ==
    /\ task[t].at = "marking" /\ task[t].todo = <<>>
    /\ dialog' = IF task[t].home
                   THEN [dialog EXCEPT ![task[t].client] = After[task[t].what]]
                   ELSE dialog
    /\ End(t)
    /\ UNCHANGED <<rows, leads, dialog_data, engaged, outside, history>>

\* switch_to: the same screen while something is pending there, else the next.
Finish(t) ==
    /\ task[t].at = "marking" /\ task[t].todo = <<>>
    /\ LET what == task[t].what
           c == task[t].client IN
         dialog' = IF task[t].home
                     THEN [dialog EXCEPT ![c] = IF Pending(what, Active(c)) # {} THEN what
                                                                               ELSE After[what]]
                     ELSE dialog
    /\ End(t)
    /\ UNCHANGED <<rows, leads, dialog_data, engaged, outside, history>>

-----------------------------------------------------------------------------
(* CreateBuyer, for each article in turn, and what its caller does then.   *)

Wanted(t) == Head(task[t].todo)
Existing(c, nm_id) == {b \in Rows : client[b] = c /\ article[b] = nm_id}

\* Mutant: only active applications are looked for.
LookActive(t) ==
    /\ task[t].at = "creating" /\ task[t].todo # <<>>
    /\ task' = IF Existing(task[t].client, Wanted(t)) \cap Active(task[t].client) # {}
                 THEN [task EXCEPT ![t].todo = Tail(@)]
                 ELSE [task EXCEPT ![t].at = "inserting"]
    /\ UNCHANGED <<rows, leads, screens, outside, history>>

Look(t) ==
    /\ task[t].at = "creating" /\ task[t].todo # <<>>
    /\ LET c == task[t].client
           others == {u \in Busy(c) : task[u].at = "inserting" /\ Wanted(u) = Wanted(t)} IN
       IF Existing(c, Wanted(t)) # {}
         THEN /\ task' = [task EXCEPT ![t].todo = Tail(@)]
              /\ UNCHANGED crossed
         ELSE /\ task' = [task EXCEPT ![t].at = "inserting"]
              /\ crossed' = IF others # {} THEN crossed \cup {c} ELSE crossed
    /\ UNCHANGED <<rows, leads, screens, outside, bought, charged, twice, again, raced, disturbed, uploaded>>

Insert(t) ==
    /\ task[t].at = "inserting" /\ last < MaxApplications
    /\ last' = last + 1
    /\ client' = [client EXCEPT ![last + 1] = task[t].client]
    /\ article' = [article EXCEPT ![last + 1] = Wanted(t)]
    /\ task' = [task EXCEPT ![t].at = "creating", ![t].todo = Tail(@)]
    /\ UNCHANGED <<done, canceled, paid, leads, screens, outside, history>>

\* The first screen, or the one that fits; without an active application the
\* dialog cannot be started.
StartDialog(t) ==
    /\ task[t].at = "creating" /\ task[t].todo = <<>>
    /\ LET c == task[t].client
           s == CASE task[t].what = "intake" -> "order"
                  [] task[t].what = "talk" -> Resume(Active(c))
                  [] task[t].what = "request" -> "closed" IN
       IF s = "closed" THEN End(t) /\ UNCHANGED screens
                       ELSE /\ Open(c, s)
                            /\ task' = [Orphaned(c) EXCEPT ![t] = Blank]
                            /\ UNCHANGED engaged
    /\ UNCHANGED <<rows, leads, outside, history>>

-----------------------------------------------------------------------------
(* The surroundings.                                                       *)

\* A callback ends early: cancelled by the next message, by a restart, or because
\* the database refuses.
Cut(t) ==
    /\ task[t].at # "idle"
    /\ disturbed' = IF task[t].at \in {"creating", "inserting", "marking", "paying"}
                          /\ task[t].what # "request"
                      THEN disturbed \cup {task[t].client} ELSE disturbed
    /\ End(t)
    /\ UNCHANGED <<rows, leads, screens, outside, bought, charged, twice, again, raced, crossed, uploaded>>

Outside == outside < MaxOutside /\ outside' = outside + 1

\* The seller's /confirm, for an article or for the newest application: the next
\* step is taken as done, and the dialog starts again.
Confirm(c) ==
    /\ Active(c) # {}
    /\ UNCHANGED <<last, client, article, canceled, paid, leads, engaged, bought, charged, twice, again, raced, crossed, uploaded>>
    /\ \E nm_id \in {article[b] : b \in Active(c)} :
          LET b == Newest({r \in Active(c) : article[r] = nm_id})
              step == CASE b \notin done["order"] -> {"order"}
                        [] b \in done["order"] \ done["feedback"] -> {"feedback"}
                        [] OTHER -> {"labels"} IN
            /\ done' = [s \in Steps |-> IF s \in step THEN done[s] \cup {b} ELSE done[s]]
    /\ Open(c, IF Resume(Active(c))' = "closed" THEN "requisites" ELSE Resume(Active(c))')
    /\ task' = Orphaned(c)
    /\ Meddle(c)
    /\ Outside

\* The seller's /cancel; the dialog goes on with what is left.
Cancel(c) ==
    /\ UNCHANGED <<last, client, article, done, paid, leads, bought, charged, twice, again, raced, crossed, uploaded>>
    /\ \E nm_id \in {article[b] : b \in Active(c)} :
          canceled' = canceled \cup {Newest({r \in Active(c) : article[r] = nm_id})}
    /\ IF Incomplete(c)' # {}
         THEN Open(c, Resume(Incomplete(c))') /\ UNCHANGED engaged
         ELSE IF dialog[c] # "closed" THEN Close(c) ELSE UNCHANGED screens
    /\ task' = Orphaned(c)
    /\ Meddle(c)
    /\ Outside

\* POST /buyers: any article that exists, in stock or not.
PostBuyer(t, c, nm_id) ==
    /\ t \in Others /\ task[t].at = "idle"
    /\ task' = [task EXCEPT ![t] = [Blank EXCEPT !.at = "creating", !.what = "request",
                                                 !.client = c, !.todo = <<nm_id>>]]
    /\ Outside
    /\ UNCHANGED <<rows, leads, screens, history>>

\* POST /buyers/{id}/screenshots: any step of any application, no lead asked.
Upload(b, s) ==
    /\ b \in Rows
    /\ done' = [done EXCEPT ![s] = @ \cup {b}]
    /\ uploaded' = uploaded \cup {b}
    /\ disturbed' = disturbed \cup {client[b]}
    /\ Outside
    /\ UNCHANGED <<last, client, article, canceled, paid, leads, screens, task, bought, charged, twice, again, raced, crossed>>

\* add_leads_balance, an UPDATE in place (SellerPayments).
Purchase(n) ==
    /\ leads' = leads + n /\ bought' = bought + n
    /\ Outside
    /\ UNCHANGED <<rows, screens, task, charged, twice, again, raced, crossed, disturbed, uploaded>>

\* A payout's receipt marks all of a client's active applications (Payout), a
\* ticked box one of them (SheetSync).
Pay(c) ==
    /\ Active(c) # {}
    /\ \E B \in {Active(c)} \cup {{b} : b \in Active(c)} : paid' = paid \cup B
    /\ disturbed' = disturbed \cup {c}
    /\ Outside
    /\ UNCHANGED <<last, client, article, done, canceled, leads, screens, task, bought, charged, twice, again, raced, crossed, uploaded>>

-----------------------------------------------------------------------------
Init ==
    /\ last = 0
    /\ client = [b \in Applications |-> Nobody]
    /\ article = [b \in Applications |-> Nobody]
    /\ done = [s \in Steps |-> {}]
    /\ canceled = {} /\ paid = {}
    /\ leads = InitialLeads
    /\ dialog = [c \in Clients |-> "closed"]
    /\ dialog_data = [c \in Clients |-> {}]
    /\ engaged = [c \in Clients |-> FALSE]
    /\ task = [t \in Tasks |-> Blank]
    /\ outside = 0
    /\ bought = 0 /\ charged = {} /\ twice = {} /\ again = {} /\ raced = FALSE
    /\ crossed = {} /\ disturbed = {} /\ uploaded = {}

Message(c) ==
    \/ ResumeDialog(c) \/ Stop(c)
    \/ InputRequisites(c) \/ ConfirmRequisites(c) \/ DeclineRequisites(c)
    \/ \E t \in Tasks : Approach(t, c) \/ \E what \in Steps \cup {"talk"} : Send(t, c, what)

Progress(t) ==
    \/ GiveUp(t) \/ ReadOffered(t) \/ ReadApplications(t)
    \/ AnswerChat(t) \/ AnswerQuestion(t)
    \/ AnswerOrder(t) \/ AnswerFeedback(t) \/ AnswerCutLabels(t)
    \/ ReadLeads(t) \/ MarkOrdered(t) \/ MarkStep(t) \/ Finish(t)
    \/ Look(t) \/ Insert(t) \/ StartDialog(t)

Surroundings ==
    \/ \E c \in Clients : Confirm(c) \/ Cancel(c) \/ Pay(c)
    \/ \E t \in Others, c \in Clients, nm_id \in Articles : PostBuyer(t, c, nm_id)
    \/ \E b \in Applications, s \in Steps : Upload(b, s)
    \/ \E n \in Purchases : Purchase(n)

Next ==
    \/ \E c \in Clients : Message(c)
    \/ \E t \in Tasks : Progress(t) \/ Cut(t)
    \/ Surroundings

Spec == Init /\ [][Next]_vars

-----------------------------------------------------------------------------
(* Properties                                                              *)

TypeOK ==
    /\ last \in 0 .. MaxApplications
    /\ client \in [Applications -> Clients \cup {Nobody}]
    /\ article \in [Applications -> Articles \cup {Nobody}]
    /\ done \in [Steps -> SUBSET Rows]
    /\ canceled \subseteq Rows /\ paid \subseteq Rows
    /\ leads \in Nat /\ bought \in Nat /\ outside \in 0 .. MaxOutside
    /\ dialog \in [Clients -> Screens]
    /\ dialog_data \in [Clients -> SUBSET Fields]
    /\ engaged \in [Clients -> BOOLEAN]
    /\ charged \subseteq Rows /\ twice \subseteq charged /\ again \subseteq Rows
    /\ raced \in BOOLEAN
    /\ crossed \subseteq Clients /\ disturbed \subseteq Clients /\ uploaded \subseteq Rows

Twins(b) == {r \in Rows \ {b} : client[r] = client[b] /\ article[r] = article[b]}

\* A client has one application for an article, unless two creations crossed: the
\* look-up has to see cancelled and paid applications too.
OneApplication == \A b \in Rows : Twins(b) # {} => client[b] \in crossed

\* The bot and the seller take an application's steps in order, whatever other
\* callbacks do between reading and marking: only an upload, or a twin that is
\* taken for it, gets ahead.
StepsInOrder ==
    \A b \in Rows \ uploaded : Twins(b) = {} =>
        /\ b \in done["feedback"] => b \in done["order"]
        /\ b \in done["labels"] => b \in done["feedback"]

\* Leads are bought and spent on accepted orders and nothing else, as long as none
\* is written from a stale read and no order is accepted again; at no time are
\* there more than were bought.
LeadsAccounted ==
    /\ leads <= InitialLeads + bought
    /\ ~raced /\ twice = {} => leads + Cardinality(charged) = InitialLeads + bought

\* An order costs its lead once, unless two callbacks looked at one order, the
\* model named it twice, or there are twins.
LeadOnce == \A b \in twice : b \in again \/ Twins(b) # {}

\* The dialog serves its client while no callback is at work: an open screen asks
\* for something that is pending, and a client in "client_processing", whose
\* messages only the dialog hears, has a dialog.  The exceptions are named in
\* disturbed.
DialogServes ==
    \A c \in Clients \ disturbed : Callbacks(c) = {} =>
        /\ dialog[c] # "closed" => Pending(dialog[c], Active(c)) # {}
        /\ engaged[c] => dialog[c] # "closed"
=============================================================================
