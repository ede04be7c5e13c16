-------------------------- MODULE OnboardingProofs --------------------------
(***************************************************************************)
(* Proofs about Onboarding, for any people, tables and bounds.             *)
(***************************************************************************)
EXTENDS Onboarding, TLAPS

\* Rows not inserted yet are blank; a code that is still there was not followed;
\* the observer is at a table when it works on one.
Fresh ==
    /\ \A c \in CabinetRows \ Cabinets : account[c] = Nobody /\ connection[c] = Nobody
    /\ \A c \in coded : account[c] = Nobody /\ \A p \in People : <<p, c>> \notin told
    /\ \A c \in CabinetRows \ Cabinets, p \in People : <<p, c>> \notin told
    /\ links \subseteq Cabinets
    /\ \A h \in Handlers : handler[h].at = "linking" => handler[h].cabinet \in Cabinets /\ handler[h].who \in People
    /\ observer.at \in {"hinting", "verifying", "linking"} => observer.table \in Tables
    /\ observer.todo \subseteq {t \in Tables : status[t] # "absent"}
    /\ observer.at \in {"hinting", "verifying", "linking"} => status[observer.table] # "absent"
    /\ observer.at = "hinting" => status[observer.table] = "new"
    /\ \A t \in Tables : status[t] # "absent" => home[t] \in Cabinets

\* Two updates that look for a seller's cabinet before either inserts it, or one
\* that inserts it after another did, have crossed.
PressesCrossed ==
    /\ \A g, h \in Handlers :
          g # h /\ handler[g].at = "adding" /\ handler[h].at = "adding" /\ handler[g].who = handler[h].who
              => handler[g].who \in crossed
    /\ \A h \in Handlers, c \in Cabinets :
          handler[h].at = "adding" /\ owner[c] = handler[h].who => handler[h].who \in crossed

IInv ==
    /\ OnboardingTypeOK /\ Fresh /\ PressesCrossed
    /\ OneCabinet /\ AccountsLinked /\ VerifiedIsTold
-----------------------------------------------------------------------------
LEMMA InitInv == OnboardingInit => IInv
<1> SUFFICES ASSUME OnboardingInit PROVE IInv
  OBVIOUS
<1> USE OnboardingAssumption DEF OnboardingInit, Free, Asleep, Cabinets, CabinetRows
<1>1. OnboardingTypeOK
  BY DEF OnboardingTypeOK, Statuses
<1>2. Fresh /\ PressesCrossed
  BY DEF Fresh, PressesCrossed
<1>3. OneCabinet /\ AccountsLinked /\ VerifiedIsTold
  BY DEF OneCabinet, AccountsLinked, VerifiedIsTold
<1> QED BY <1>1, <1>2, <1>3 DEF IInv

-----------------------------------------------------------------------------
(* The seller.                                                             *)

LEMMA CreateSellerStep == ASSUME IInv, NEW p \in People, CreateSeller(p) PROVE IInv'
<1> USE DEF IInv, CreateSeller, Cabinets, CabinetRows, sent
<1>1. OnboardingTypeOK'
  BY OnboardingAssumption DEF OnboardingTypeOK
<1>2. Fresh'
  BY OnboardingAssumption DEF OnboardingTypeOK, Fresh
<1>3. PressesCrossed'
  BY OnboardingAssumption DEF OnboardingTypeOK, PressesCrossed
<1>4. OneCabinet'
  BY OnboardingAssumption DEF OnboardingTypeOK, OneCabinet
<1>5. AccountsLinked'
  BY OnboardingAssumption DEF OnboardingTypeOK, AccountsLinked
<1>6. VerifiedIsTold'
  BY OnboardingAssumption DEF OnboardingTypeOK, VerifiedIsTold
<1> QED BY <1>1, <1>2, <1>3, <1>4, <1>5, <1>6

LEMMA AddCabinetStep == ASSUME IInv, NEW h \in Handlers, NEW p \in People, AddCabinet(h, p) PROVE IInv'
<1> USE DEF IInv, AddCabinet, Cabinets, CabinetRows, rows, Free
<1>1. OnboardingTypeOK'
  <2>1. handler' = [handler EXCEPT ![h] = [at |-> "adding", who |-> p, cabinet |-> 0]]
    OBVIOUS
  <2>2. 0 \in 0 .. last
    BY OnboardingAssumption DEF OnboardingTypeOK
  <2> QED BY <2>1, <2>2 DEF OnboardingTypeOK
<1>2. Fresh'
  BY OnboardingAssumption DEF OnboardingTypeOK, Fresh
<1>3. PressesCrossed'
  BY OnboardingAssumption DEF OnboardingTypeOK, PressesCrossed
<1>4. OneCabinet'
  BY OnboardingAssumption DEF OnboardingTypeOK, OneCabinet
<1>5. AccountsLinked'
  BY OnboardingAssumption DEF OnboardingTypeOK, AccountsLinked
<1>6. VerifiedIsTold'
  BY OnboardingAssumption DEF OnboardingTypeOK, VerifiedIsTold
<1> QED BY <1>1, <1>2, <1>3, <1>4, <1>5, <1>6

LEMMA CreateCabinetStep == ASSUME IInv, NEW h \in Handlers, CreateCabinet(h) PROVE IInv'
<1> USE DEF IInv, CreateCabinet, Cabinets, CabinetRows, sent, Free
<1>1. OnboardingTypeOK'
  BY OnboardingAssumption DEF OnboardingTypeOK
<1>2. Fresh'
  BY OnboardingAssumption DEF OnboardingTypeOK, Fresh
<1>3. PressesCrossed'
  BY OnboardingAssumption DEF OnboardingTypeOK, PressesCrossed
<1>4. OneCabinet'
  <2> SUFFICES ASSUME NEW c \in 1 .. last + 1, NEW d \in 1 .. last + 1, c # d, owner'[c] = owner'[d]
               PROVE  owner'[c] \in crossed
    BY DEF OneCabinet
  <2>1. last \in Nat /\ last + 1 \in CabinetRows
    BY OnboardingAssumption DEF OnboardingTypeOK
  <2>2. owner' = [owner EXCEPT ![last + 1] = handler[h].who] /\ owner \in [CabinetRows -> People \cup {Nobody}]
    BY DEF OnboardingTypeOK
  <2>3. owner'[last + 1] = handler[h].who /\ \A e \in 1 .. last : owner'[e] = owner[e]
    BY <2>1, <2>2
  <2>4. CASE c = last + 1 /\ d \in 1 .. last
    BY <2>3, <2>4 DEF PressesCrossed
  <2>5. CASE d = last + 1 /\ c \in 1 .. last
    BY <2>3, <2>5 DEF PressesCrossed
  <2>6. CASE c \in 1 .. last /\ d \in 1 .. last
    BY <2>3, <2>6 DEF OneCabinet
  <2> QED BY <2>1, <2>4, <2>5, <2>6
<1>5. AccountsLinked'
  <2> SUFFICES ASSUME NEW c \in (1 .. last + 1) \ raced
               PROVE  /\ \A p \in People : <<p, c>> \in told => account[c] = p
                      /\ connection[c] \in {Nobody, owner'[c], account[c]}
    BY DEF AccountsLinked
  <2>1. last \in Nat /\ last + 1 \in CabinetRows
    BY OnboardingAssumption DEF OnboardingTypeOK
  <2>2. CASE c = last + 1
    <3>1. c \in CabinetRows \ (1 .. last)
      BY <2>1, <2>2
    <3> QED BY <3>1 DEF Fresh
  <2>3. CASE c \in 1 .. last
    <3>1. owner'[c] = owner[c]
      BY <2>1, <2>3 DEF OnboardingTypeOK
    <3> QED BY <2>3, <3>1 DEF AccountsLinked
  <2> QED BY <2>1, <2>2, <2>3
<1>6. VerifiedIsTold'
  BY OnboardingAssumption DEF OnboardingTypeOK, VerifiedIsTold
<1> QED BY <1>1, <1>2, <1>3, <1>4, <1>5, <1>6

LEMMA CreateTableStep == ASSUME IInv, NEW p \in People, NEW t \in Tables, CreateCashbackTable(p, t) PROVE IInv'
<1> USE DEF IInv, CreateCashbackTable, Cabinets, CabinetRows, sent, Statuses
<1>1. OnboardingTypeOK'
  BY OnboardingAssumption DEF OnboardingTypeOK
<1>2. Fresh'
  BY OnboardingAssumption DEF OnboardingTypeOK, Fresh
<1>3. PressesCrossed'
  BY OnboardingAssumption DEF OnboardingTypeOK, PressesCrossed
<1>4. OneCabinet'
  BY OnboardingAssumption DEF OnboardingTypeOK, OneCabinet
<1>5. AccountsLinked'
  BY OnboardingAssumption DEF OnboardingTypeOK, AccountsLinked
<1>6. VerifiedIsTold'
  BY OnboardingAssumption DEF OnboardingTypeOK, VerifiedIsTold
<1> QED BY <1>1, <1>2, <1>3, <1>4, <1>5, <1>6

LEMMA ShareStep == ASSUME IInv, NEW t \in Tables, NEW r \in {"none", "reader", "writer"}, Share(t, r) PROVE IInv'
<1> USE DEF IInv, Share, Cabinets, CabinetRows, rows, sent
<1>1. OnboardingTypeOK'
  BY OnboardingAssumption DEF OnboardingTypeOK
<1>2. Fresh'
  BY OnboardingAssumption DEF OnboardingTypeOK, Fresh
<1>3. PressesCrossed'
  BY OnboardingAssumption DEF OnboardingTypeOK, PressesCrossed
<1>4. OneCabinet'
  BY OnboardingAssumption DEF OnboardingTypeOK, OneCabinet
<1>5. AccountsLinked'
  BY OnboardingAssumption DEF OnboardingTypeOK, AccountsLinked
<1>6. VerifiedIsTold'
  BY OnboardingAssumption DEF OnboardingTypeOK, VerifiedIsTold
<1> QED BY <1>1, <1>2, <1>3, <1>4, <1>5, <1>6

LEMMA DayPassesStep == ASSUME IInv, DayPasses PROVE IInv'
<1> USE DEF IInv, DayPasses, Cabinets, CabinetRows, sent
<1>1. OnboardingTypeOK'
  BY OnboardingAssumption DEF OnboardingTypeOK
<1>2. Fresh'
  BY OnboardingAssumption DEF OnboardingTypeOK, Fresh
<1>3. PressesCrossed'
  BY OnboardingAssumption DEF OnboardingTypeOK, PressesCrossed
<1>4. OneCabinet'
  BY OnboardingAssumption DEF OnboardingTypeOK, OneCabinet
<1>5. AccountsLinked'
  BY OnboardingAssumption DEF OnboardingTypeOK, AccountsLinked
<1>6. VerifiedIsTold'
  BY OnboardingAssumption DEF OnboardingTypeOK, VerifiedIsTold
<1> QED BY <1>1, <1>2, <1>3, <1>4, <1>5, <1>6

-----------------------------------------------------------------------------
(* The observer.                                                           *)

LEMMA WakeStep == ASSUME IInv, Wake PROVE IInv'
<1> USE DEF IInv, Wake, Cabinets, CabinetRows, rows, sent
<1>1. OnboardingTypeOK'
  BY OnboardingAssumption DEF OnboardingTypeOK
<1>2. Fresh'
  BY OnboardingAssumption DEF OnboardingTypeOK, Fresh
<1>3. PressesCrossed'
  BY OnboardingAssumption DEF OnboardingTypeOK, PressesCrossed
<1>4. OneCabinet'
  BY OnboardingAssumption DEF OnboardingTypeOK, OneCabinet
<1>5. AccountsLinked'
  BY OnboardingAssumption DEF OnboardingTypeOK, AccountsLinked
<1>6. VerifiedIsTold'
  BY OnboardingAssumption DEF OnboardingTypeOK, VerifiedIsTold
<1> QED BY <1>1, <1>2, <1>3, <1>4, <1>5, <1>6

LEMMA AskStep == ASSUME IInv, NEW t \in Tables, Ask(t) PROVE IInv'
<1> USE DEF IInv, Ask, Cabinets, CabinetRows, rows, sent
<1>1. OnboardingTypeOK'
  BY OnboardingAssumption DEF OnboardingTypeOK
<1>2. Fresh'
  BY OnboardingAssumption DEF OnboardingTypeOK, Fresh
<1>3. PressesCrossed'
  BY OnboardingAssumption DEF OnboardingTypeOK, PressesCrossed
<1>4. OneCabinet'
  BY OnboardingAssumption DEF OnboardingTypeOK, OneCabinet
<1>5. AccountsLinked'
  BY OnboardingAssumption DEF OnboardingTypeOK, AccountsLinked
<1>6. VerifiedIsTold'
  BY OnboardingAssumption DEF OnboardingTypeOK, VerifiedIsTold
<1> QED BY <1>1, <1>2, <1>3, <1>4, <1>5, <1>6

LEMMA HintStep == ASSUME IInv, Hint PROVE IInv'
<1> USE DEF IInv, Hint, Cabinets, CabinetRows, sent, Statuses
<1>1. OnboardingTypeOK'
  BY OnboardingAssumption DEF OnboardingTypeOK
<1>2. Fresh'
  BY OnboardingAssumption DEF OnboardingTypeOK, Fresh
<1>3. PressesCrossed'
  BY OnboardingAssumption DEF OnboardingTypeOK, PressesCrossed
<1>4. OneCabinet'
  BY OnboardingAssumption DEF OnboardingTypeOK, OneCabinet
<1>5. AccountsLinked'
  BY OnboardingAssumption DEF OnboardingTypeOK, AccountsLinked
<1>6. VerifiedIsTold'
  BY OnboardingAssumption DEF OnboardingTypeOK, VerifiedIsTold
<1> QED BY <1>1, <1>2, <1>3, <1>4, <1>5, <1>6

LEMMA VerifyStep == ASSUME IInv, Verify PROVE IInv'
<1> USE DEF IInv, Verify, Cabinets, CabinetRows, sent, Statuses
<1>1. OnboardingTypeOK'
  BY OnboardingAssumption DEF OnboardingTypeOK
<1>2. Fresh'
  BY OnboardingAssumption DEF OnboardingTypeOK, Fresh
<1>3. PressesCrossed'
  BY OnboardingAssumption DEF OnboardingTypeOK, PressesCrossed
<1>4. OneCabinet'
  BY OnboardingAssumption DEF OnboardingTypeOK, OneCabinet
<1>5. AccountsLinked'
  BY OnboardingAssumption DEF OnboardingTypeOK, AccountsLinked
<1>6. VerifiedIsTold'
  BY OnboardingAssumption DEF OnboardingTypeOK, VerifiedIsTold
<1> QED BY <1>1, <1>2, <1>3, <1>4, <1>5, <1>6

LEMMA SendLinkStep == ASSUME IInv, SendLink PROVE IInv'
<1> USE DEF IInv, SendLink, Cabinets, CabinetRows, rows
<1>1. OnboardingTypeOK'
  BY OnboardingAssumption DEF OnboardingTypeOK
<1>2. Fresh'
  BY OnboardingAssumption DEF OnboardingTypeOK, Fresh
<1>3. PressesCrossed'
  BY OnboardingAssumption DEF OnboardingTypeOK, PressesCrossed
<1>4. OneCabinet'
  BY OnboardingAssumption DEF OnboardingTypeOK, OneCabinet
<1>5. AccountsLinked'
  BY OnboardingAssumption DEF OnboardingTypeOK, AccountsLinked
<1>6. VerifiedIsTold'
  BY OnboardingAssumption DEF OnboardingTypeOK, VerifiedIsTold
<1> QED BY <1>1, <1>2, <1>3, <1>4, <1>5, <1>6

LEMMA BreakStep == ASSUME IInv, Break PROVE IInv'
<1> USE DEF IInv, Break, Cabinets, CabinetRows, rows, Asleep
<1>1. OnboardingTypeOK'
  BY OnboardingAssumption DEF OnboardingTypeOK
<1>2. Fresh'
  BY OnboardingAssumption DEF OnboardingTypeOK, Fresh
<1>3. PressesCrossed'
  BY OnboardingAssumption DEF OnboardingTypeOK, PressesCrossed
<1>4. OneCabinet'
  BY OnboardingAssumption DEF OnboardingTypeOK, OneCabinet
<1>5. AccountsLinked'
  BY OnboardingAssumption DEF OnboardingTypeOK, AccountsLinked
<1>6. VerifiedIsTold'
  BY OnboardingAssumption DEF OnboardingTypeOK, VerifiedIsTold
<1> QED BY <1>1, <1>2, <1>3, <1>4, <1>5, <1>6

LEMMA SleepStep == ASSUME IInv, Sleep PROVE IInv'
<1> USE DEF IInv, Sleep, Cabinets, CabinetRows, rows, sent, Asleep
<1>1. OnboardingTypeOK'
  BY OnboardingAssumption DEF OnboardingTypeOK
<1>2. Fresh'
  BY OnboardingAssumption DEF OnboardingTypeOK, Fresh
<1>3. PressesCrossed'
  BY OnboardingAssumption DEF OnboardingTypeOK, PressesCrossed
<1>4. OneCabinet'
  BY OnboardingAssumption DEF OnboardingTypeOK, OneCabinet
<1>5. AccountsLinked'
  BY OnboardingAssumption DEF OnboardingTypeOK, AccountsLinked
<1>6. VerifiedIsTold'
  BY OnboardingAssumption DEF OnboardingTypeOK, VerifiedIsTold
<1> QED BY <1>1, <1>2, <1>3, <1>4, <1>5, <1>6

-----------------------------------------------------------------------------
(* The business account.                                                   *)

LEMMA FollowLinkStep == ASSUME IInv, NEW h \in Handlers, NEW p \in People, NEW c \in Cabinets, FollowLink(h, p, c) PROVE IInv'
<1> USE DEF IInv, FollowLink, Cabinets, CabinetRows, rows, sent
<1>1. OnboardingTypeOK'
  BY OnboardingAssumption DEF OnboardingTypeOK
<1>2. Fresh'
  BY OnboardingAssumption DEF OnboardingTypeOK, Fresh
<1>3. PressesCrossed'
  BY OnboardingAssumption DEF OnboardingTypeOK, PressesCrossed
<1>4. OneCabinet'
  BY OnboardingAssumption DEF OnboardingTypeOK, OneCabinet
<1>5. AccountsLinked'
  BY OnboardingAssumption DEF OnboardingTypeOK, AccountsLinked
<1>6. VerifiedIsTold'
  BY OnboardingAssumption DEF OnboardingTypeOK, VerifiedIsTold
<1> QED BY <1>1, <1>2, <1>3, <1>4, <1>5, <1>6

LEMMA LinkStep == ASSUME IInv, NEW h \in Handlers, Link(h) PROVE IInv'
<1> USE DEF IInv, Link, Cabinets, CabinetRows, Free
<1>1. OnboardingTypeOK'
  <2>1. handler' = [handler EXCEPT ![h] = [at |-> "free", who |-> Nobody, cabinet |-> 0]]
    OBVIOUS
  <2>2. 0 \in 0 .. last
    BY OnboardingAssumption DEF OnboardingTypeOK
  <2>3. handler[h].who \in People
    BY DEF Fresh
  <2>4. [at |-> "free", who |-> Nobody, cabinet |-> 0]
            \in [at : {"free", "adding", "linking"}, who : People \cup {Nobody}, cabinet : 0 .. last]
    BY <2>2
  <2>5. handler' \in [Handlers -> [at : {"free", "adding", "linking"}, who : People \cup {Nobody},
                                   cabinet : 0 .. last]]
    BY <2>1, <2>4 DEF OnboardingTypeOK
  <2>6. account' \in [CabinetRows -> People \cup {Nobody}] /\ coded' \subseteq Cabinets
    BY <2>3 DEF OnboardingTypeOK
  <2> QED BY <2>5, <2>6 DEF OnboardingTypeOK
<1>2. Fresh'
  BY OnboardingAssumption DEF OnboardingTypeOK, Fresh
<1>3. PressesCrossed'
  BY OnboardingAssumption DEF OnboardingTypeOK, PressesCrossed
<1>4. OneCabinet'
  BY OnboardingAssumption DEF OnboardingTypeOK, OneCabinet
<1>5. AccountsLinked'
  <2> DEFINE d == handler[h].cabinet
  <2> SUFFICES ASSUME NEW c \in (1 .. last) \ raced'
               PROVE  /\ \A p \in People : <<p, c>> \in told' => account'[c] = p
                      /\ connection[c] \in {Nobody, owner[c], account'[c]}
    BY DEF AccountsLinked
  <2>1. d \in CabinetRows /\ handler[h].who \in People
    BY OnboardingAssumption DEF Fresh, OnboardingTypeOK
  <2>2. account' = [account EXCEPT ![d] = handler[h].who] /\ told' = told \cup {<<handler[h].who, d>>}
    OBVIOUS
  <2>3. c \notin raced
    OBVIOUS
  <2>4. CASE c = d
    <3>1. d \in coded
      BY <2>4
    <3>2. account[c] = Nobody /\ \A p \in People : <<p, c>> \notin told
      BY <2>4, <3>1 DEF Fresh
    <3>3. account'[c] = handler[h].who
      BY <2>1, <2>2, <2>4 DEF OnboardingTypeOK
    <3>4. connection[c] \in {Nobody, owner[c]}
      BY <2>3, <3>2 DEF AccountsLinked
    <3> QED BY <2>2, <2>4, <3>2, <3>3, <3>4
  <2>5. CASE c # d
    <3>1. account'[c] = account[c]
      BY <2>2, <2>5 DEF OnboardingTypeOK
    <3> QED BY <2>2, <2>3, <2>5, <3>1 DEF AccountsLinked
  <2> QED BY <2>4, <2>5
<1>6. VerifiedIsTold'
  BY OnboardingAssumption DEF OnboardingTypeOK, VerifiedIsTold
<1> QED BY <1>1, <1>2, <1>3, <1>4, <1>5, <1>6

LEMMA DropStep == ASSUME IInv, NEW h \in Handlers, Drop(h) PROVE IInv'
<1> USE DEF IInv, Drop, Cabinets, CabinetRows, rows, sent, Free
<1>1. OnboardingTypeOK'
  BY OnboardingAssumption DEF OnboardingTypeOK
<1>2. Fresh'
  BY OnboardingAssumption DEF OnboardingTypeOK, Fresh
<1>3. PressesCrossed'
  BY OnboardingAssumption DEF OnboardingTypeOK, PressesCrossed
<1>4. OneCabinet'
  BY OnboardingAssumption DEF OnboardingTypeOK, OneCabinet
<1>5. AccountsLinked'
  BY OnboardingAssumption DEF OnboardingTypeOK, AccountsLinked
<1>6. VerifiedIsTold'
  BY OnboardingAssumption DEF OnboardingTypeOK, VerifiedIsTold
<1> QED BY <1>1, <1>2, <1>3, <1>4, <1>5, <1>6

LEMMA EnableStep == ASSUME IInv, NEW p \in People, Enable(p) PROVE IInv'
<1> USE DEF IInv, Enable, Cabinets, CabinetRows, sent
<1>1. OnboardingTypeOK'
  BY OnboardingAssumption DEF OnboardingTypeOK
<1>2. Fresh'
  BY OnboardingAssumption DEF OnboardingTypeOK, Fresh
<1>3. PressesCrossed'
  BY OnboardingAssumption DEF OnboardingTypeOK, PressesCrossed
<1>4. OneCabinet'
  BY OnboardingAssumption DEF OnboardingTypeOK, OneCabinet
<1>5. AccountsLinked'
  BY OnboardingAssumption DEF OnboardingTypeOK, AccountsLinked
<1>6. VerifiedIsTold'
  BY OnboardingAssumption DEF OnboardingTypeOK, VerifiedIsTold
<1> QED BY <1>1, <1>2, <1>3, <1>4, <1>5, <1>6

LEMMA DisableStep == ASSUME IInv, NEW p \in People, Disable(p) PROVE IInv'
<1> USE DEF IInv, Disable, Cabinets, CabinetRows, sent
<1>1. OnboardingTypeOK'
  BY OnboardingAssumption DEF OnboardingTypeOK
<1>2. Fresh'
  BY OnboardingAssumption DEF OnboardingTypeOK, Fresh
<1>3. PressesCrossed'
  BY OnboardingAssumption DEF OnboardingTypeOK, PressesCrossed
<1>4. OneCabinet'
  BY OnboardingAssumption DEF OnboardingTypeOK, OneCabinet
<1>5. AccountsLinked'
  BY OnboardingAssumption DEF OnboardingTypeOK, AccountsLinked
<1>6. VerifiedIsTold'
  BY OnboardingAssumption DEF OnboardingTypeOK, VerifiedIsTold
<1> QED BY <1>1, <1>2, <1>3, <1>4, <1>5, <1>6

-----------------------------------------------------------------------------
LEMMA NextStep == IInv /\ [OnboardingNext]_onboardingVars => IInv'
<1> SUFFICES ASSUME IInv, [OnboardingNext]_onboardingVars PROVE IInv'
  OBVIOUS
<1>1. ASSUME NEW p \in People, Person(p) PROVE IInv'
  BY <1>1, CreateSellerStep, EnableStep, DisableStep, AddCabinetStep, FollowLinkStep, CreateTableStep DEF Person
<1>2. ASSUME NEW h \in Handlers, Bot(h) PROVE IInv'
  BY <1>2, CreateCabinetStep, LinkStep, DropStep DEF Bot
<1>3. CASE Observe
  BY <1>3, WakeStep, HintStep, VerifyStep, SendLinkStep, BreakStep, SleepStep, AskStep DEF Observe
<1>4. CASE DayPasses
  BY <1>4, DayPassesStep
<1>5. ASSUME NEW t \in Tables, NEW r \in {"none", "reader", "writer"}, Share(t, r) PROVE IInv'
  BY <1>5, ShareStep
<1>6. CASE UNCHANGED onboardingVars
  BY <1>6 DEF onboardingVars, rows, sent, IInv, OnboardingTypeOK, Fresh, PressesCrossed, OneCabinet,
              AccountsLinked, VerifiedIsTold, Cabinets, CabinetRows, Statuses
<1> QED BY <1>1, <1>2, <1>3, <1>4, <1>5, <1>6 DEF OnboardingNext

\* The strengthening holds for any people, tables and number of updates at a time.
THEOREM Invariant == OnboardingSpec => []IInv
BY InitInv, NextStep, PTL DEF OnboardingSpec

\* create_cabinet.py:22: a seller gets a second cabinet only from presses that cross.
THEOREM SecondCabinetCrossed == OnboardingSpec => []OneCabinet
BY Invariant, PTL DEF IInv

\* link_business_account.py:17-52: who was told is linked.
THEOREM ToldIsLinked == OnboardingSpec => []AccountsLinked
BY Invariant, PTL DEF IInv

\* observe_cashback_tables.py:62-82: who has a verified table has the link, or
\* sending it failed.
THEOREM VerifiedSellerHasLink == OnboardingSpec => []VerifiedIsTold
BY Invariant, PTL DEF IInv
=============================================================================
