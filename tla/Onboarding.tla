----------------------------- MODULE Onboarding -----------------------------
(***************************************************************************)
(* How a seller comes to a working cabinet: /start, the button that adds a *)
(* cabinet, the link to a Google table, the observer that waits for the    *)
(* rights on the table and sends a link, the business account that follows *)
(* the link, and its connection to the bot.                                *)
(***************************************************************************)
EXTENDS Integers, FiniteSets

CONSTANTS
    People,         \* Telegram accounts: sellers and business accounts
    Tables,         \* Google tables
    Handlers,       \* updates the bot handles at the same time
    MaxCabinets,    \* bound: rows of table cabinets
    MaxOutside,     \* bound: changes of rights, of connections, and days that pass
    Nobody

ASSUME OnboardingAssumption ==
    /\ MaxCabinets \in Nat /\ MaxOutside \in Nat
    /\ Nobody \notin People

VARIABLES
    users,                              \* users.telegram_id
    last, owner, account, connection,   \* cabinets 1 .. last
    coded,                              \* cabinets whose link_code is not used up
    status, home,                       \* cashback_tables: status and cabinet_id
    young,                              \* tables created less than 24 hours ago
    rights,                             \* the service account's, in Google
    handler, observer,
    \* History: links that sellers got and failed to get; whom the bot told that the
    \* cabinet is linked; sellers and cabinets where two updates crossed.
    links, lost, told, crossed, raced,
    outside

rows == <<users, last, owner, account, connection, coded, status, home, young>>
sent == <<links, lost, told, crossed, raced>>
onboardingVars == <<rows, rights, handler, observer, sent, outside>>

Cabinets == 1 .. last
CabinetRows == 1 .. MaxCabinets
Statuses == {"absent", "new", "waiting_write_permission", "verified"}
Free == [at |-> "free", who |-> Nobody, cabinet |-> 0]
Asleep == [at |-> "asleep", todo |-> {}, table |-> Nobody]
Outside == outside < MaxOutside /\ outside' = outside + 1

-----------------------------------------------------------------------------
(* The seller.                                                             *)

\* /start, CreateSeller: not for an account that serves a cabinet.
CreateSeller(p) ==
    /\ ~\E c \in Cabinets : account[c] = p \/ owner[c] = p
    /\ users' = users \cup {p}
    /\ UNCHANGED <<last, owner, account, connection, coded, status, home, young, rights,
                   handler, observer, sent, outside>>

\* Mutant: the look-up is forgotten.
AddAnother(h, p) ==
    /\ handler[h].at = "free"
    /\ p \in users
    /\ handler' = [handler EXCEPT ![h] = [at |-> "adding", who |-> p, cabinet |-> 0]]
    /\ crossed' = IF \E g \in Handlers : handler[g].at = "adding" /\ handler[g].who = p
                    THEN crossed \cup {p} ELSE crossed
    /\ UNCHANGED <<rows, rights, observer, links, lost, told, raced, outside>>

\* The button "add a cabinet", CreateCabinet: the look-up ...
AddCabinet(h, p) ==
    /\ handler[h].at = "free"
    /\ p \in users
    /\ ~\E c \in Cabinets : owner[c] = p
    /\ handler' = [handler EXCEPT ![h] = [at |-> "adding", who |-> p, cabinet |-> 0]]
    /\ crossed' = IF \E g \in Handlers : handler[g].at = "adding" /\ handler[g].who = p
                    THEN crossed \cup {p} ELSE crossed
    /\ UNCHANGED <<rows, rights, observer, links, lost, told, raced, outside>>

\* ... and the insert: cabinets.user_id is not unique.
CreateCabinet(h) ==
    /\ handler[h].at = "adding" /\ last < MaxCabinets
    /\ last' = last + 1
    /\ owner' = [owner EXCEPT ![last + 1] = handler[h].who]
    /\ coded' = coded \cup {last + 1}
    /\ handler' = [handler EXCEPT ![h] = Free]
    /\ UNCHANGED <<users, account, connection, status, home, young, rights, observer, sent, outside>>

\* input_gs_link, CreateCashbackTable: table_id is unique.  A cabinet may have
\* several tables.
CreateCashbackTable(p, t) ==
    /\ status[t] = "absent"
    /\ \E c \in Cabinets : owner[c] = p /\ home' = [home EXCEPT ![t] = c]
    /\ status' = [status EXCEPT ![t] = "new"]
    /\ young' = young \cup {t}
    /\ UNCHANGED <<users, last, owner, account, connection, coded, rights, handler, observer, sent, outside>>

\* The seller shares the table with the service account, or takes it back.
Share(t, r) ==
    /\ rights[t] # r
    /\ rights' = [rights EXCEPT ![t] = r]
    /\ Outside
    /\ UNCHANGED <<rows, handler, observer, sent>>

DayPasses ==
    /\ young # {} /\ young' = {}
    /\ Outside
    /\ UNCHANGED <<users, last, owner, account, connection, coded, status, home, rights, handler, observer, sent>>

-----------------------------------------------------------------------------
(* ObserveCashbackTables.                                                  *)

\* get_new_cashback_tables; the iteration keeps these rows.
Wake ==
    /\ observer.at = "asleep"
    /\ observer' = [observer EXCEPT !.at = "asking",
                      !.todo = {t \in young : status[t] \in {"new", "waiting_write_permission"}}]
    /\ UNCHANGED <<rows, rights, handler, sent, outside>>

\* ensure_service_account_added: without the right to write, a seller is told once
\* what is missing; without any, nothing happens.
Ask(t) ==
    /\ observer.at = "asking" /\ t \in observer.todo
    /\ observer' = [observer EXCEPT !.todo = @ \ {t}, !.table = t,
                      !.at = CASE rights[t] = "writer" -> "verifying"
                               [] rights[t] = "reader" /\ status[t] = "new" -> "hinting"
                               [] OTHER -> "asking"]
    /\ UNCHANGED <<rows, rights, handler, sent, outside>>

\* The hint is sent before it is recorded.
Hint ==
    /\ observer.at = "hinting"
    /\ status' = [status EXCEPT ![observer.table] = "waiting_write_permission"]
    /\ observer' = [observer EXCEPT !.at = "asking"]
    /\ UNCHANGED <<users, last, owner, account, connection, coded, home, young, rights, handler, sent, outside>>

\* Mutant: on to the next table.
VerifyOnly ==
    /\ observer.at = "verifying"
    /\ status' = [status EXCEPT ![observer.table] = "verified"]
    /\ observer' = [observer EXCEPT !.at = "asking"]
    /\ UNCHANGED <<users, last, owner, account, connection, coded, home, young, rights, handler, sent, outside>>

Verify ==
    /\ observer.at = "verifying"
    /\ status' = [status EXCEPT ![observer.table] = "verified"]
    /\ observer' = [observer EXCEPT !.at = "linking"]
    /\ UNCHANGED <<users, last, owner, account, connection, coded, home, young, rights, handler, sent, outside>>

\* The link is sent after the commit, if its code is still there.
SendLink ==
    /\ observer.at = "linking"
    /\ links' = IF home[observer.table] \in coded THEN links \cup {home[observer.table]} ELSE links
    /\ observer' = [observer EXCEPT !.at = "asking"]
    /\ UNCHANGED <<rows, rights, handler, lost, told, crossed, raced, outside>>

\* A send or Google fails, or the process stops: the iteration is over, and the
\* tables it got to are what the database holds.
Break ==
    /\ observer.at # "asleep"
    /\ lost' = IF observer.at = "linking" THEN lost \cup {home[observer.table]} ELSE lost
    /\ observer' = Asleep
    /\ UNCHANGED <<rows, rights, handler, links, told, crossed, raced, outside>>

Sleep ==
    /\ observer.at = "asking" /\ observer.todo = {}
    /\ observer' = Asleep
    /\ UNCHANGED <<rows, rights, handler, sent, outside>>

-----------------------------------------------------------------------------
(* The business account.                                                   *)

\* cmd_link_business_account: the code is looked up ...
FollowLink(h, p, c) ==
    /\ handler[h].at = "free"
    /\ c \in links \cap coded
    /\ handler' = [handler EXCEPT ![h] = [at |-> "linking", who |-> p, cabinet |-> c]]
    /\ UNCHANGED <<rows, rights, observer, sent, outside>>

\* Mutant: the code stays.
LinkAgain(h) ==
    /\ handler[h].at = "linking"
    /\ LET c == handler[h].cabinet IN
         /\ account' = [account EXCEPT ![c] = handler[h].who]
         /\ raced' = IF c \in coded THEN raced ELSE raced \cup {c}
         /\ told' = told \cup {<<handler[h].who, c>>}
    /\ handler' = [handler EXCEPT ![h] = Free]
    /\ UNCHANGED <<users, last, owner, connection, coded, status, home, young, rights, observer, links, lost, crossed, outside>>

\* ... and cleared with the account's entry.
Link(h) ==
    /\ handler[h].at = "linking"
    /\ LET c == handler[h].cabinet IN
         /\ account' = [account EXCEPT ![c] = handler[h].who]
         /\ coded' = coded \ {c}
         /\ raced' = IF c \in coded THEN raced ELSE raced \cup {c}
         /\ told' = told \cup {<<handler[h].who, c>>}
    /\ handler' = [handler EXCEPT ![h] = Free]
    /\ UNCHANGED <<users, last, owner, connection, status, home, young, rights, observer, links, lost, crossed, outside>>

\* An update is lost with the process, or its write fails.
Drop(h) ==
    /\ handler[h].at # "free"
    /\ handler' = [handler EXCEPT ![h] = Free]
    /\ UNCHANGED <<rows, rights, observer, sent, outside>>

\* enable_business_connection_handler: a cabinet of which the account is the seller
\* or the business account; the connection's id is unique.
Enable(p) ==
    /\ ~\E c \in Cabinets : connection[c] = p
    /\ \E c \in Cabinets :
          /\ p \in {owner[c], account[c]}
          /\ connection' = [connection EXCEPT ![c] = p]
    /\ Outside
    /\ UNCHANGED <<users, last, owner, account, coded, status, home, young, rights, handler, observer, sent>>

\* disable_business_connection_handler
Disable(p) ==
    /\ \E c \in Cabinets :
          /\ account[c] = p
          /\ connection' = [connection EXCEPT ![c] = Nobody]
    /\ Outside
    /\ UNCHANGED <<users, last, owner, account, coded, status, home, young, rights, handler, observer, sent>>

-----------------------------------------------------------------------------
OnboardingInit ==
    /\ users = {} /\ last = 0
    /\ owner = [c \in CabinetRows |-> Nobody]
    /\ account = [c \in CabinetRows |-> Nobody]
    /\ connection = [c \in CabinetRows |-> Nobody]
    /\ coded = {}
    /\ status = [t \in Tables |-> "absent"]
    /\ home = [t \in Tables |-> 0]
    /\ young = {}
    /\ rights = [t \in Tables |-> "none"]
    /\ handler = [h \in Handlers |-> Free]
    /\ observer = Asleep
    /\ links = {} /\ lost = {} /\ told = {} /\ crossed = {} /\ raced = {}
    /\ outside = 0

Person(p) ==
    \/ CreateSeller(p) \/ Enable(p) \/ Disable(p)
    \/ \E h \in Handlers : AddCabinet(h, p) \/ \E c \in Cabinets : FollowLink(h, p, c)
    \/ \E t \in Tables : CreateCashbackTable(p, t)

Bot(h) == CreateCabinet(h) \/ Link(h) \/ Drop(h)

Observe ==
    \/ Wake \/ Hint \/ Verify \/ SendLink \/ Break \/ Sleep
    \/ \E t \in Tables : Ask(t)

OnboardingNext ==
    \/ \E p \in People : Person(p)
    \/ \E h \in Handlers : Bot(h)
    \/ Observe
    \/ DayPasses
    \/ \E t \in Tables, r \in {"none", "reader", "writer"} : Share(t, r)

OnboardingSpec == OnboardingInit /\ [][OnboardingNext]_onboardingVars

-----------------------------------------------------------------------------
(* Properties                                                              *)

OnboardingTypeOK ==
    /\ users \subseteq People /\ last \in 0 .. MaxCabinets
    /\ owner \in [CabinetRows -> People \cup {Nobody}]
    /\ account \in [CabinetRows -> People \cup {Nobody}]
    /\ connection \in [CabinetRows -> People \cup {Nobody}]
    /\ coded \subseteq Cabinets
    /\ status \in [Tables -> Statuses]
    /\ home \in [Tables -> 0 .. last]
    /\ young \subseteq Tables
    /\ handler \in [Handlers -> [at : {"free", "adding", "linking"}, who : People \cup {Nobody},
                                 cabinet : 0 .. last]]
    /\ observer \in [at : {"asleep", "asking", "hinting", "verifying", "linking"},
                     todo : SUBSET Tables, table : Tables \cup {Nobody}]

\* A seller has one cabinet, unless two presses of the button crossed.
OneCabinet ==
    \A c, d \in Cabinets : c # d /\ owner[c] = owner[d] => owner[c] \in crossed

\* Whom the bot told that the cabinet is linked is its account, and who is
\* connected is its account or its seller, unless two accounts followed the link
\* at once.
AccountsLinked ==
    \A c \in Cabinets \ raced :
        /\ \A p \in People : <<p, c>> \in told => account[c] = p
        /\ connection[c] \in {Nobody, owner[c], account[c]}

\* The seller of a verified table has the link to connect an account with, once
\* the observer is past the table; unless sending it failed.
VerifiedIsTold ==
    \A t \in Tables : status[t] = "verified" =>
        \/ observer.at = "linking" /\ observer.table = t
        \/ home[t] \in links \cup lost
        \/ home[t] \notin coded
=============================================================================
