------------------------- MODULE SellerTablesProofs -------------------------
(***************************************************************************)
(* Proofs about SellerTables: each of its two parts behaves as its own     *)
(* specification says, so that what was proved of the parts holds of the   *)
(* whole.                                                                  *)
(***************************************************************************)
EXTENDS SellerTables, OnboardingProofs

SyncProofs == INSTANCE SheetSyncProofs WITH active <- ActiveTables

\* The people and the table observer do not notice the sync.
LEMMA ImplementsOnboarding == Spec => OnboardingSpec
<1>1. Init => OnboardingInit
  BY DEF Init
<1>2. [Next]_<<onboardingVars, sheetOnly>> => [OnboardingNext]_onboardingVars
  BY DEF Next
<1> QED BY <1>1, <1>2, PTL DEF Spec, OnboardingSpec

LEMMA OnboardingInvariant == Spec => []IInv
BY ImplementsOnboarding, Invariant, PTL

\* A table is verified once and for all, and one at a time.
LEMMA ActivatesOne ==
    ASSUME OnboardingTypeOK, Fresh, OnboardingNext
    PROVE  \/ ActiveTables' = ActiveTables
           \/ \E t \in Tables \ ActiveTables : ActiveTables' = ActiveTables \cup {t}
<1>1. CASE Verify
  <2> DEFINE t == observer.table
  <2>1. t \in Tables /\ home' = home /\ status' = [status EXCEPT ![t] = "verified"]
    BY <1>1 DEF Verify, Fresh
  <2>2. \A u \in Tables : status'[u] = IF u = t THEN "verified" ELSE status[u]
    BY <2>1 DEF OnboardingTypeOK
  <2>3. ActiveTables' = IF home[t] = 1 THEN ActiveTables \cup {t} ELSE ActiveTables
    BY <2>1, <2>2 DEF ActiveTables
  <2> QED BY <2>1, <2>3
<1>2. ASSUME NEW p \in People, NEW t \in Tables, CreateCashbackTable(p, t)
      PROVE  ActiveTables' = ActiveTables
  <2>1. status[t] = "absent" /\ status' = [status EXCEPT ![t] = "new"]
    BY <1>2 DEF CreateCashbackTable
  <2>2. PICK c \in Cabinets : home' = [home EXCEPT ![t] = c]
    BY <1>2 DEF CreateCashbackTable
  <2>3. \A u \in Tables : u # t => status'[u] = status[u] /\ home'[u] = home[u]
    BY <2>1, <2>2 DEF OnboardingTypeOK
  <2>4. status'[t] = "new"
    BY <2>1 DEF OnboardingTypeOK
  <2> QED BY <2>1, <2>3, <2>4 DEF ActiveTables
<1>3. CASE Hint
  <2> DEFINE t == observer.table
  <2>1. t \in Tables /\ status[t] = "new" /\ home' = home
        /\ status' = [status EXCEPT ![t] = "waiting_write_permission"]
    BY <1>3 DEF Hint, Fresh
  <2>2. \A u \in Tables : status'[u] = IF u = t THEN "waiting_write_permission" ELSE status[u]
    BY <2>1 DEF OnboardingTypeOK
  <2> QED BY <2>1, <2>2 DEF ActiveTables
<1>4. ASSUME UNCHANGED <<status, home>> PROVE ActiveTables' = ActiveTables
  BY <1>4 DEF ActiveTables
<1>5. ASSUME NEW p \in People, Person(p) PROVE ActiveTables' = ActiveTables
  BY <1>2, <1>4, <1>5 DEF Person, CreateSeller, Enable, Disable, AddCabinet, FollowLink, rows
<1>6. ASSUME NEW h \in Handlers, Bot(h) PROVE ActiveTables' = ActiveTables
  BY <1>4, <1>6 DEF Bot, CreateCabinet, Link, Drop, rows
<1>7. CASE Wake \/ SendLink \/ Break \/ Sleep \/ DayPasses
  BY <1>4, <1>7 DEF Wake, SendLink, Break, Sleep, DayPasses, rows
<1>8. ASSUME NEW t \in Tables, Ask(t) PROVE ActiveTables' = ActiveTables
  BY <1>4, <1>8 DEF Ask, rows
<1>9. ASSUME NEW t \in Tables, NEW r \in {"none", "reader", "writer"}, Share(t, r)
      PROVE  ActiveTables' = ActiveTables
  BY <1>4, <1>9 DEF Share, rows
<1> QED BY <1>1, <1>3, <1>5, <1>6, <1>7, <1>8, <1>9 DEF OnboardingNext, Observe

LEMMA SyncInit == Init => SyncProofs!SheetInit
BY DEF Init, Sheet!SheetInit, Sheet!Idle, SyncProofs!SheetInit, SyncProofs!Idle, OnboardingInit, ActiveTables

LEMMA SyncStep ==
    ASSUME OnboardingTypeOK, Fresh, [Next]_<<onboardingVars, sheetOnly>>
    PROVE  [SyncProofs!SheetNext]_(SyncProofs!sheetVars)
<1> USE DEF sheetOnly, SyncProofs!sheetVars, SyncProofs!google, SyncProofs!database, SyncProofs!marks
<1>1. CASE OnboardingNext /\ UNCHANGED sheetOnly
  <2>1. CASE ActiveTables' = ActiveTables
    BY <1>1, <2>1
  <2>2. ASSUME NEW t \in Tables \ ActiveTables, ActiveTables' = ActiveTables \cup {t}
        PROVE  SyncProofs!SheetNext
    BY <1>1, <2>2 DEF SyncProofs!SheetNext, SyncProofs!Activate
  <2> QED BY <1>1, <2>1, <2>2, ActivatesOne
<1>2. CASE UNCHANGED onboardingVars /\ Sheet!Synchronize
  BY <1>2 DEF SyncProofs!SheetNext, SyncProofs!Synchronize, SyncProofs!Wake, SyncProofs!Merge,
    SyncProofs!ReadBoxes, SyncProofs!WriteSheet, SyncProofs!SkipSheet, SyncProofs!Save, SyncProofs!Sleep,
    SyncProofs!Break, SyncProofs!Fetch, SyncProofs!Idle, SyncProofs!Load, SyncProofs!Merged, SyncProofs!Created, SyncProofs!Repeats,
    SyncProofs!Listed, SyncProofs!Row,
    Sheet!Synchronize, Sheet!Wake, Sheet!Merge, Sheet!ReadBoxes, Sheet!WriteSheet, Sheet!SkipSheet, Sheet!Save,
    Sheet!Sleep, Sheet!Break, Sheet!Fetch, Sheet!Idle, Sheet!Load, Sheet!Merged, Sheet!Created, Sheet!Repeats, Sheet!Listed,
    Sheet!Row, Sheet!google, Sheet!database, Sheet!marks
<1>3. CASE UNCHANGED onboardingVars /\ Sheet!Use
  BY <1>3 DEF SyncProofs!SheetNext, SyncProofs!Use, SyncProofs!List, SyncProofs!Tick, SyncProofs!Untick,
    SyncProofs!Apply, SyncProofs!PayOut, SyncProofs!Edit, SyncProofs!Overwritten,
    Sheet!Use, Sheet!List, Sheet!Tick, Sheet!Untick, Sheet!Apply, Sheet!PayOut, Sheet!Edit, Sheet!Overwritten,
    Sheet!google, Sheet!database, Sheet!marks
<1>4. CASE UNCHANGED <<onboardingVars, sheetOnly>>
  BY <1>4 DEF onboardingVars, rows, ActiveTables
<1> QED BY <1>1, <1>2, <1>3, <1>4 DEF Next

\* The two instances of SheetSync are the same.
LEMMA SameStep ==
    [SyncProofs!SheetNext]_(SyncProofs!sheetVars) <=> [Sheet!SheetNext]_(Sheet!sheetVars)
BY DEF
      SyncProofs!Wake, SyncProofs!Merge, SyncProofs!ReadBoxes, SyncProofs!WriteSheet,
      SyncProofs!SkipSheet, SyncProofs!Save, SyncProofs!Sleep, SyncProofs!Break, SyncProofs!Fetch,
      SyncProofs!Activate, SyncProofs!List, SyncProofs!Tick, SyncProofs!Untick, SyncProofs!Apply,
      SyncProofs!PayOut, SyncProofs!Edit, SyncProofs!Overwritten, SyncProofs!Idle,
      SyncProofs!Load, SyncProofs!Merged, SyncProofs!Created, SyncProofs!Repeats, SyncProofs!Listed, SyncProofs!Row,
      SyncProofs!google, SyncProofs!database, SyncProofs!marks, SyncProofs!sheetVars,
      SyncProofs!Synchronize, SyncProofs!Use, SyncProofs!SheetNext, Sheet!Wake, Sheet!Merge,
      Sheet!ReadBoxes, Sheet!WriteSheet, Sheet!SkipSheet, Sheet!Save, Sheet!Sleep, Sheet!Break,
      Sheet!Fetch, Sheet!Activate, Sheet!List, Sheet!Tick, Sheet!Untick, Sheet!Apply,
      Sheet!PayOut, Sheet!Edit, Sheet!Overwritten, Sheet!Idle, Sheet!Load, Sheet!Merged, Sheet!Created,
      Sheet!Repeats, Sheet!Listed, Sheet!Row, Sheet!google, Sheet!database, Sheet!marks,
      Sheet!sheetVars, Sheet!Synchronize, Sheet!Use, Sheet!SheetNext

LEMMA SameInit == SyncProofs!SheetInit <=> Sheet!SheetInit
BY DEF SyncProofs!SheetInit, SyncProofs!Idle, Sheet!SheetInit, Sheet!Idle

LEMMA ImplementsSyncProofs == Spec => SyncProofs!SheetSpec
<1>1. IInv /\ [Next]_<<onboardingVars, sheetOnly>> => [SyncProofs!SheetNext]_(SyncProofs!sheetVars)
  BY SyncStep DEF IInv
<1> QED BY <1>1, SyncInit, OnboardingInvariant, PTL DEF Spec, SyncProofs!SheetSpec

\* observe_cashback_tables.py and sync_cashback_tables.py together: whatever sellers
\* and the table observer do, the sync sees tables come, one at a time, and never go.
THEOREM ImplementsSync == Spec => SyncSpec
<1>1. SyncProofs!SheetSpec => Sheet!SheetSpec
  BY SameInit, SameStep, PTL DEF SyncProofs!SheetSpec, Sheet!SheetSpec
<1> QED BY <1>1, ImplementsSyncProofs, PTL DEF SyncSpec

\* google_sheets.py:216-349: the rewritten sheet has the ticks that were there.
THEOREM TicksSurvive == Spec => []TickKept
<1>1. SyncProofs!TickKept => TickKept
  BY DEF SyncProofs!TickKept, SyncProofs!Sole, TickKept, Sheet!TickKept, Sheet!Sole
<1> QED BY <1>1, ImplementsSyncProofs, SyncProofs!TicksSurvive, PTL

\* google_sheets.py:193-213: a payout's mark survives the iteration it falls into.
THEOREM SettledStaysSettled == Spec => []PaidStaysPaid
<1>1. SyncProofs!PaidStaysPaid => PaidStaysPaid
  BY DEF SyncProofs!PaidStaysPaid, SyncProofs!Sole, PaidStaysPaid, Sheet!PaidStaysPaid, Sheet!Sole
<1> QED BY <1>1, ImplementsSyncProofs, SyncProofs!SettledStaysSettled, PTL

\* sync_cashback_tables.py:39-72: whatever sellers do meanwhile, after a sync that no
\* edit overtook clients are offered what the one table of the cabinet lists.
THEOREM StockFollowsTable == Spec => []ArticlesMirrored
<1>1. Listings \subseteq Seq(SyncProofs!Lines)
  BY SellerTablesAssumption DEF SyncProofs!Lines
<1>2. SyncProofs!ArticlesMirrored => ArticlesMirrored
  BY DEF SyncProofs!ArticlesMirrored, SyncProofs!Sole, SyncProofs!Offered,
         ArticlesMirrored, Sheet!ArticlesMirrored, Sheet!Sole, Sheet!Offered
<1> QED BY <1>1, <1>2, ImplementsSyncProofs, SyncProofs!StockFollowsTable, PTL

\* create_cabinet.py, link_business_account.py, observe_cashback_tables.py: what was
\* proved of onboarding alone holds with the sync at work.
THEOREM OnboardingHolds == Spec => [](OneCabinet /\ AccountsLinked /\ VerifiedIsTold)
BY OnboardingInvariant, PTL DEF IInv
=============================================================================
