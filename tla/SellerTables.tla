---------------------------- MODULE SellerTables ----------------------------
(***************************************************************************)
(* Onboarding and SheetSync together: a cabinet's tables are synchronised  *)
(* from the moment the table observer verifies them, while the seller goes *)
(* on sharing, linking and connecting.  Both observers are loops of one    *)
(* process, and the bot is another; what joins them are the rows of table  *)
(* cashback_tables.                                                        *)
(***************************************************************************)
EXTENDS Onboarding, Sequences

CONSTANTS Applications, Articles, Listings, MaxArticleRows, MaxEdits

ASSUME SellerTablesAssumption ==
    /\ MaxArticleRows \in Nat /\ MaxEdits \in Nat
    /\ Nobody \notin Tables
    /\ Listings \subseteq Seq([nm_id : Articles, in_stock : BOOLEAN])

VARIABLES listing, shown, ticked, existing, paid, manual, stock, sync,
          ticks, mirrored, repeated, twice, edits

\* Mutant: with the condition of get_new_cashback_tables.
NewActiveTables == {t \in young : status[t] = "verified" /\ home[t] = 1}

\* get_active_cashback_tables, of the first cabinet.
ActiveTables == {t \in Tables : status[t] = "verified" /\ home[t] = 1}

Sheet == INSTANCE SheetSync WITH active <- ActiveTables

sheetOnly == <<listing, shown, ticked, existing, paid, manual, stock, sync,
               ticks, mirrored, repeated, twice, edits>>

Init == OnboardingInit /\ Sheet!SheetInit

Next ==
    \/ OnboardingNext /\ UNCHANGED sheetOnly
    \/ UNCHANGED onboardingVars /\ (Sheet!Synchronize \/ Sheet!Use)

Spec == Init /\ [][Next]_<<onboardingVars, sheetOnly>>

\* Onboarding only adds tables to what is synchronised, one at a time, and never
\* takes one away: the composition implements the sync's own specification.
SyncSpec == Sheet!SheetSpec

TickKept == Sheet!TickKept
PaidStaysPaid == Sheet!PaidStaysPaid
ArticlesMirrored == Sheet!ArticlesMirrored
=============================================================================
