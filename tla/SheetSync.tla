------------------------------ MODULE SheetSync -----------------------------
(***************************************************************************)
(* SyncCashbackTables, an iteration of the observer's every ten seconds:   *)
(* the articles of a cabinet are taken over from its Google table, and its *)
(* applications are written there, with a box that the seller ticks when   *)
(* he paid by hand and that is read back.  One cabinet; its tables are in  *)
(* "active".  Google is asked and told in separate requests, and the rows  *)
(* of the database are loaded once in an iteration.  Texts, amounts and    *)
(* the sheet with the balances are left out: nothing is read back from     *)
(* them.                                                                   *)
(***************************************************************************)
EXTENDS Integers, Sequences

CONSTANTS
    Tables, Applications, Articles,
    Listings,       \* what a seller may list: sequences of articles in stock or not
    MaxArticleRows, \* bound: rows of table articles
    MaxEdits,       \* bound: what seller, clients and payouts do
    Nobody          \* no table

VARIABLES
    active,                     \* the cabinet's tables that are verified
    listing, shown, ticked,     \* in Google: articles, the rows of applications, boxes
    existing, paid, manual,     \* buyers: is_superbanking_paid, is_paid_manually
    stock,                      \* articles, in the order of their ids
    sync,                       \* where the iteration is, and its session
    \* History: ticks out of a write's way; tables that agree with the articles as
    \* last edited; whether a table listed an article twice; applications paid
    \* although their box was taken for ticked.
    ticks, mirrored, repeated, twice,
    edits

google == <<listing, shown, ticked>>
database == <<existing, paid, manual, stock>>
marks == <<ticks, mirrored, repeated, twice>>
sheetVars == <<active, google, database, sync, marks, edits>>

Idle == [at |-> "asleep", todo |-> {}, table |-> Nobody, got |-> <<>>, stock |-> <<>>,
         loaded |-> {}, paid |-> {}, was |-> {}, manual |-> {}]

Edit == edits < MaxEdits /\ edits' = edits + 1

-----------------------------------------------------------------------------
(* The session.                                                            *)

Listed(got) == {got[i].nm_id : i \in DOMAIN got}
Repeats(got) == \E i, j \in DOMAIN got : i # j /\ got[i].nm_id = got[j].nm_id

\* existing_by_nm_id: of several rows for an article, the last.
Row(rows, nm_id) == CHOOSE i \in DOMAIN rows :
                        /\ rows[i].nm_id = nm_id
                        /\ \A j \in DOMAIN rows : rows[j].nm_id = nm_id => j <= i

\* create_article for each line of an article without a row.
Created(rows, got) ==
    LET upTo[k \in 0 .. Len(got)] ==
          IF k = 0 THEN <<>>
          ELSE IF got[k].nm_id \in Listed(rows) THEN upTo[k - 1]
          ELSE Append(upTo[k - 1], [nm_id |-> got[k].nm_id, in_stock |-> got[k].in_stock,
                                    is_deleted |-> FALSE])
    IN  upTo[Len(got)]

\* Mutant: an article that comes back stays deleted.
MergedForever(rows, got) ==
    LET line(nm_id) == got[CHOOSE k \in DOMAIN got : got[k].nm_id = nm_id]
        updated(row) == IF row.nm_id \in Listed(got)
                          THEN [row EXCEPT !.in_stock = line(row.nm_id).in_stock]
                          ELSE [row EXCEPT !.is_deleted = TRUE]
    IN  [i \in DOMAIN rows |-> IF i = Row(rows, rows[i].nm_id) THEN updated(rows[i]) ELSE rows[i]]
            \o Created(rows, got)

\* Rows that exist are updated, by the last line for an article; a line for an
\* article without a row makes one, each time.
Merged(rows, got) ==
    LET line(nm_id) == got[CHOOSE k \in DOMAIN got : /\ got[k].nm_id = nm_id
                              /\ \A j \in DOMAIN got : got[j].nm_id = nm_id => j <= k]
        updated(row) == IF row.nm_id \in Listed(got)
                          THEN [row EXCEPT !.in_stock = line(row.nm_id).in_stock, !.is_deleted = FALSE]
                          ELSE [row EXCEPT !.is_deleted = TRUE]
    IN  [i \in DOMAIN rows |-> IF i = Row(rows, rows[i].nm_id) THEN updated(rows[i]) ELSE rows[i]]
            \o Created(rows, got)

\* Rows already loaded are not read again.
Load(s) ==
    LET fresh == existing \ s.loaded
    IN [s EXCEPT !.loaded = existing, !.paid = @ \cup (paid \cap fresh),
                 !.was = @ \cup (manual \cap fresh), !.manual = @ \cup (manual \cap fresh)]

-----------------------------------------------------------------------------
(* An iteration.                                                           *)

Wake ==
    /\ sync.at = "asleep"
    /\ sync' = [Idle EXCEPT !.at = "choosing", !.todo = active]
    /\ UNCHANGED <<active, google, database, marks, edits>>

\* get_cashback_articles of the next table; a table that cannot be read is passed
\* over.
Fetch(t) ==
    /\ sync.at = "choosing" /\ t \in sync.todo
    /\ \/ sync' = [sync EXCEPT !.at = "merging", !.todo = @ \ {t}, !.table = t, !.got = listing[t]]
       \/ sync' = [sync EXCEPT !.todo = @ \ {t}]
    /\ UNCHANGED <<active, google, database, marks, edits>>

\* The articles in the session; get_buyers_by_cabinet_id.
Merge ==
    /\ sync.at = "merging"
    /\ Len(Merged(stock, sync.got)) <= MaxArticleRows
    /\ sync' = [Load(sync) EXCEPT !.at = "reading", !.stock = Merged(stock, sync.got)]
    /\ repeated' = (repeated \/ Repeats(sync.got))
    /\ UNCHANGED <<active, google, database, ticks, mirrored, twice, edits>>

\* Mutant: the boxes of settled applications are read too.
ReadAllBoxes ==
    /\ sync.at = "reading"
    /\ LET read == shown[sync.table] \cap sync.loaded IN
         sync' = [sync EXCEPT !.at = "writing",
                              !.manual = (@ \ read) \cup (read \cap ticked[sync.table])]
    /\ UNCHANGED <<active, google, database, marks, edits>>

\* _read_is_paid_manually_from_sheet: the boxes of the rows that the sheet shows.
ReadBoxes ==
    /\ sync.at = "reading"
    /\ LET read == (shown[sync.table] \cap sync.loaded) \ sync.paid IN
         sync' = [sync EXCEPT !.at = "writing",
                              !.manual = (@ \ read) \cup (read \cap ticked[sync.table])]
    /\ UNCHANGED <<active, google, database, marks, edits>>

\* Mutant: the sheet is written with what the database held.
WriteLoaded ==
    /\ sync.at = "writing"
    /\ shown' = [shown EXCEPT ![sync.table] = sync.loaded]
    /\ ticked' = [ticked EXCEPT ![sync.table] = sync.was]
    /\ sync' = [sync EXCEPT !.at = "saving"]
    /\ UNCHANGED <<active, listing, database, marks, edits>>

\* _write_buyers_to_sheet: all rows and boxes, as the session has them.
WriteSheet ==
    /\ sync.at = "writing"
    /\ shown' = [shown EXCEPT ![sync.table] = sync.loaded]
    /\ ticked' = [ticked EXCEPT ![sync.table] = sync.manual]
    /\ sync' = [sync EXCEPT !.at = "saving"]
    /\ UNCHANGED <<active, listing, database, marks, edits>>

\* Either request fails, or the sheet is missing: logged, and on with it.
SkipSheet ==
    /\ sync.at \in {"reading", "writing"}
    /\ sync' = [sync EXCEPT !.at = "saving"]
    /\ UNCHANGED <<active, google, database, marks, edits>>

\* The commit writes the boxes that changed in the session.
Save ==
    /\ sync.at = "saving"
    /\ stock' = sync.stock
    /\ manual' = (manual \ (sync.was \ sync.manual)) \cup (sync.manual \ sync.was)
    /\ mirrored' = IF listing[sync.table] = sync.got THEN mirrored \cup {sync.table} ELSE mirrored
    /\ sync' = [sync EXCEPT !.at = "choosing", !.was = sync.manual, !.table = Nobody,
                            !.got = <<>>, !.stock = <<>>]
    /\ UNCHANGED <<active, google, existing, paid, ticks, repeated, twice, edits>>

Sleep ==
    /\ sync.at = "choosing" /\ sync.todo = {}
    /\ sync' = Idle
    /\ UNCHANGED <<active, google, database, marks, edits>>

\* The database fails or the process stops.
Break ==
    /\ sync.at # "asleep"
    /\ sync' = Idle
    /\ UNCHANGED <<active, google, database, marks, edits>>

-----------------------------------------------------------------------------
(* The surroundings.                                                       *)

\* A table is verified (Onboarding).
Activate(t) ==
    /\ t \notin active /\ active' = active \cup {t}
    /\ UNCHANGED <<google, database, sync, marks, edits>>

List(t, got) ==
    /\ listing[t] # got
    /\ listing' = [listing EXCEPT ![t] = got]
    /\ mirrored' = mirrored \ {t}
    /\ Edit
    /\ UNCHANGED <<active, shown, ticked, database, sync, ticks, repeated, twice>>

\* The seller's ticks: one between reading and writing is overwritten.
Overwritten(t) == sync.table = t /\ sync.at = "writing"

Tick(t, a) ==
    /\ a \in shown[t] \ ticked[t]
    /\ ticked' = [ticked EXCEPT ![t] = @ \cup {a}]
    /\ ticks' = IF Overwritten(t) THEN ticks ELSE [ticks EXCEPT ![t] = @ \cup {a}]
    /\ Edit
    /\ UNCHANGED <<active, listing, shown, database, sync, mirrored, repeated, twice>>

Untick(t, a) ==
    /\ a \in ticked[t]
    /\ ticked' = [ticked EXCEPT ![t] = @ \ {a}]
    /\ ticks' = [ticks EXCEPT ![t] = @ \ {a}]
    /\ Edit
    /\ UNCHANGED <<active, listing, shown, database, sync, mirrored, repeated, twice>>

\* CreateBuyer (BuyerFlow).
Apply(a) ==
    /\ a \notin existing /\ existing' = existing \cup {a}
    /\ Edit
    /\ UNCHANGED <<active, google, paid, manual, stock, sync, marks>>

\* A payout's receipt (Payout): the application was unpaid when it was chosen, and
\* its box may have been ticked since.
PayOut(a) ==
    /\ a \in existing \ paid
    /\ paid' = paid \cup {a} /\ manual' = manual \cup {a}
    /\ twice' = IF a \in manual \cup sync.manual THEN twice \cup {a} ELSE twice
    /\ Edit
    /\ UNCHANGED <<active, google, existing, stock, sync, ticks, mirrored, repeated>>

-----------------------------------------------------------------------------
SheetInit ==
    /\ active = {}
    /\ listing = [t \in Tables |-> <<>>]
    /\ shown = [t \in Tables |-> {}]
    /\ ticked = [t \in Tables |-> {}]
    /\ existing = {} /\ paid = {} /\ manual = {} /\ stock = <<>>
    /\ sync = Idle
    /\ ticks = [t \in Tables |-> {}]
    /\ mirrored = {} /\ repeated = FALSE /\ twice = {}
    /\ edits = 0

Synchronize ==
    \/ Wake \/ Merge \/ ReadBoxes \/ WriteSheet \/ SkipSheet \/ Save \/ Sleep \/ Break
    \/ \E t \in Tables : Fetch(t)

Use ==
    \/ \E t \in Tables, got \in Listings : List(t, got)
    \/ \E t \in Tables, a \in Applications : Tick(t, a) \/ Untick(t, a)
    \/ \E a \in Applications : Apply(a) \/ PayOut(a)

SheetNext == Synchronize \/ Use \/ \E t \in Tables : Activate(t)

SheetSpec == SheetInit /\ [][SheetNext]_sheetVars

-----------------------------------------------------------------------------
(* Properties                                                              *)

Sole == \A t, u \in active : t = u

\* A tick stays in the sheet until the seller takes it away: the sync, which
\* clears and rewrites the sheet, puts it back.  Ticks are lost between its read
\* and its write, of applications that were paid twice, and when a second table of
\* the cabinet has its own boxes.
TickKept == Sole => \A t \in Tables : ticks[t] \ twice \subseteq ticked[t]

\* An application that a payout settled is not taken for unpaid afterwards, whatever
\* iteration the payout fell into; unless its box was found ticked while the payout
\* was under way, and then unticked, or differs between two tables.
PaidStaysPaid == Sole => paid \ twice \subseteq manual

\* After a sync that no edit overtook, what clients are offered is what the table
\* lists; with two tables, or an article listed twice, it is not.
Offered == {i \in DOMAIN stock : ~stock[i].is_deleted}
ArticlesMirrored ==
    Sole /\ ~repeated => \A t \in mirrored :
        {[nm_id |-> stock[i].nm_id, in_stock |-> stock[i].in_stock] : i \in Offered}
            = {listing[t][k] : k \in DOMAIN listing[t]}
=============================================================================
