--------------------------- MODULE DebouncerProofs --------------------------
(***************************************************************************)
(* Theorems about Debouncer, for every set of messages, photos and long    *)
(* texts, and any number of restarts.                                      *)
(***************************************************************************)
EXTENDS Debouncer, TLAPS

-----------------------------------------------------------------------------
(* The inductive invariant.                                                *)

LEMMA InitInv == Init => Inv
<1> SUFFICES ASSUME Init PROVE Inv
  OBVIOUS
<1>1. TypeOK
  <2>1. restarts \in 0 .. MaxRestarts
    BY DebouncerAssumption DEF Init
  <2>2. QED
    BY <2>1 DEF Init, TypeOK, AddStages, TimerStages
<1>2. AllTaken = {}
  BY DEF Init, AllTaken, TakenByAdd, TakenByTimer, Ends
<1>3. OneTimer /\ Exclusive /\ Locals /\ TimerHandsItsOwn
  <2>1. Nobody \notin Messages
    BY DebouncerAssumption
  <2>2. QED
    BY <2>1 DEF Init, OneTimer, Exclusive, Locals, TimerHandsItsOwn, Locked, Armed
<1>4. Fresh
  BY <1>2 DEF Init, Fresh
<1>5. Accounted
  BY <1>2 DEF Init, Accounted, TakenByAdd, TakenByTimer, Ends
<1>6. QED
  BY <1>1, <1>3, <1>4, <1>5 DEF Inv

LEMMA TypeStep ==
  ASSUME Inv, [Next]_vars
  PROVE  TypeOK'
<1> USE DEF Inv, TypeOK, buffer, Ends, AddStages, TimerStages, Locked, Armed
<1>1. ASSUME NEW m \in Messages, Ignore(m) \/ Read(m)
      PROVE  TypeOK'
  BY <1>1 DEF Ignore, Read, Cancelled
<1>2. ASSUME NEW m \in Messages, Store(m) \/ Seize(m) \/ Pop(m)
      PROVE  TypeOK'
  <2>1. CASE Store(m)
    <3>1. photo_only' \in BOOLEAN
      <4>1. photo_only' = IF accumulated[m] = {m} THEN m \in PhotoOnly ELSE photo_only
        BY <2>1 DEF Store
      <4>2. (m \in PhotoOnly) \in BOOLEAN /\ photo_only \in BOOLEAN
        OBVIOUS
      <4>3. QED
        BY <4>1, <4>2
    <3>2. add' \in [Messages -> AddStages] /\ pending' \subseteq Messages
      BY <2>1 DEF Store
    <3>3. QED
      BY <2>1, <3>1, <3>2 DEF Store
  <2>2. CASE Seize(m)
    BY <2>2 DEF Seize
  <2>3. CASE Pop(m)
    BY <2>3 DEF Pop
  <2>4. QED
    BY <1>2, <2>1, <2>2, <2>3
<1>3. ASSUME NEW m \in Messages, Arm(m)
      PROVE  TypeOK'
  BY <1>3 DEF Arm, Cancelled
<1>4. ASSUME NEW m \in Messages, Fire(m)
      PROVE  TypeOK'
  BY <1>4 DEF Fire
<1>5. ASSUME NEW m \in Messages, Close(m)
      PROVE  TypeOK'
  BY <1>5 DEF Close, Unregister
<1>6. ASSUME NEW m \in Messages, NEW end \in Ends, AddCallback(m, end)
      PROVE  TypeOK'
  BY <1>6 DEF AddCallback
<1>7. ASSUME NEW m \in Messages, NEW end \in Ends, TimerCallback(m, end)
      PROVE  TypeOK'
  BY <1>7 DEF TimerCallback, Unregister
<1>8. CASE Restart
  BY <1>8, DebouncerAssumption DEF Restart
<1>9. CASE Expire
  BY <1>9 DEF Expire
<1>10. CASE UNCHANGED vars
  BY <1>10 DEF vars
<1>11. QED
  BY <1>1, <1>2, <1>3, <1>4, <1>5, <1>6, <1>7, <1>8, <1>9, <1>10 DEF Next, Progress

\* One timer is alive, the lock has one holder, and locals are up to date.
Control == OneTimer /\ Exclusive /\ Locals /\ TimerHandsItsOwn

LEMMA ControlStep ==
  ASSUME Inv, [Next]_vars
  PROVE  Control'
<1> USE DEF Inv, Control, OneTimer, Exclusive, Locals, TimerHandsItsOwn, Locked, Armed,
            LockFree, buffer
<1>1. /\ add \in [Messages -> AddStages] /\ timer \in [Messages -> TimerStages]
      /\ accumulated \in [Messages -> SUBSET Messages]
      /\ batch \in [Messages -> SUBSET Messages]
      /\ Nobody \notin Messages
  BY DebouncerAssumption DEF TypeOK
<1>2. ASSUME NEW m \in Messages, Ignore(m)
      PROVE  Control'
  BY <1>1, <1>2 DEF Ignore
<1>3. ASSUME NEW m \in Messages, Read(m)
      PROVE  Control'
  <2>1. CASE m \in Long
    <3>1. /\ \A n \in Messages : n # m => add'[n] = add[n] /\ accumulated'[n] = accumulated[n]
          /\ add'[m] = "seizing" /\ accumulated'[m] = pending \cup {m} /\ add[m] = "new"
          /\ \A n \in Messages : add[n] \notin {"read", "stored", "seizing"} /\ timer[n] # "popping"
          /\ active_timer' = Nobody /\ UNCHANGED <<pending, batch>>
      BY <1>1, <1>3, <2>1 DEF Read
    <3>2. \A t \in Messages :
             /\ t # active_timer => timer'[t] = timer[t]
             /\ t = active_timer => timer'[t] = "cancelled"
             /\ t = active_timer => timer[t] # "none"
      <4>1. \A t \in Messages : timer[t] = "none" => active_timer # t
        OBVIOUS
      <4>2. QED
        BY <1>1, <1>3, <2>1, <4>1 DEF Read, Cancelled
    <3>3. OneTimer'
      BY <1>1, <3>1, <3>2
    <3>4. Exclusive'
      BY <3>1, <3>2
    <3>5. Locals'
      BY <3>1, <3>2
    <3>6. TimerHandsItsOwn'
      BY <3>1
    <3>7. QED
      BY <3>3, <3>4, <3>5, <3>6
  <2>2. CASE m \notin Long
    BY <1>1, <1>3, <2>2 DEF Read
  <2>3. QED
    BY <2>1, <2>2
<1>4. ASSUME NEW m \in Messages, Store(m)
      PROVE  Control'
  BY <1>1, <1>4 DEF Store
<1>5. ASSUME NEW m \in Messages, Arm(m)
      PROVE  Control'
  <2>1. /\ \A n \in Messages : n # m => add'[n] = add[n]
        /\ add'[m] = "returned" /\ add[m] = "stored"
        /\ \A n \in Messages : n # m => add[n] \notin {"read", "stored", "seizing"}
        /\ \A n \in Messages : timer[n] # "popping"
        /\ active_timer' = m /\ UNCHANGED <<pending, batch, accumulated>>
    BY <1>1, <1>5 DEF Arm
  <2>2. \A t \in Messages : timer[t] = "none" => active_timer # t
    OBVIOUS
  <2>3. \A t \in Messages :
           timer'[t] = IF t = m THEN "sleeping"
                       ELSE IF t = active_timer THEN "cancelled" ELSE timer[t]
    BY <1>1, <1>5 DEF Arm, Cancelled
  <2>4. OneTimer'
    BY <1>1, <2>1, <2>2, <2>3
  <2>5. Exclusive'
    BY <1>1, <2>1, <2>2, <2>3
  <2>6. Locals'
    BY <1>1, <2>1, <2>2, <2>3
  <2>7. TimerHandsItsOwn'
    BY <2>1
  <2>8. QED
    BY <2>4, <2>5, <2>6, <2>7
<1>6. ASSUME NEW m \in Messages, Seize(m)
      PROVE  Control'
  BY <1>1, <1>6 DEF Seize
<1>7. ASSUME NEW m \in Messages, NEW end \in Ends, AddCallback(m, end)
      PROVE  Control'
  BY <1>1, <1>7 DEF AddCallback, Ends
<1>8. ASSUME NEW t \in Messages, Fire(t)
      PROVE  Control'
  BY <1>1, <1>8 DEF Fire
<1>9. ASSUME NEW t \in Messages, Pop(t)
      PROVE  Control'
  BY <1>1, <1>9 DEF Pop
<1>10. ASSUME NEW t \in Messages, NEW end \in Ends, TimerCallback(t, end)
       PROVE  Control'
  BY <1>1, <1>10 DEF TimerCallback, Unregister, Ends
<1>11. ASSUME NEW t \in Messages, Close(t)
       PROVE  Control'
  BY <1>1, <1>11 DEF Close, Unregister
<1>12. CASE Restart
  BY <1>1, <1>12 DEF Restart
<1>13. CASE Expire
  BY <1>1, <1>13 DEF Expire
<1>14. CASE UNCHANGED vars
  BY <1>14 DEF vars
<1>15. QED
  BY <1>2, <1>3, <1>4, <1>5, <1>6, <1>7, <1>8, <1>9, <1>10, <1>11, <1>12, <1>13, <1>14
  DEF Next, Progress

-----------------------------------------------------------------------------
(* What was taken changes only when a buffer is deleted.                   *)

SameAdded == \A n \in Messages : TakenByAdd(n)' = TakenByAdd(n)
SameTimed == \A n \in Messages : TakenByTimer(n)' = TakenByTimer(n)

LEMMA QuietSteps ==
  ASSUME Inv,
         \/ \E m \in Messages :
               \/ Ignore(m) \/ Read(m) \/ Store(m) \/ Arm(m) \/ Fire(m) \/ Close(m)
               \/ \E end \in Ends : AddCallback(m, end) \/ TimerCallback(m, end)
         \/ Restart \/ Expire \/ UNCHANGED vars
  PROVE  SameAdded /\ SameTimed
<1> USE DEF SameAdded, SameTimed, TakenByAdd, TakenByTimer, Ends, Locked, Armed, buffer
<1>1. /\ add \in [Messages -> AddStages] /\ timer \in [Messages -> TimerStages]
      /\ accumulated \in [Messages -> SUBSET Messages]
      /\ batch \in [Messages -> SUBSET Messages]
      /\ Exclusive /\ Locals /\ OneTimer
  BY DEF Inv, TypeOK
<1>2. ASSUME NEW m \in Messages, Ignore(m) \/ Read(m)
      PROVE  SameAdded /\ SameTimed
  BY <1>1, <1>2 DEF Ignore, Read, Cancelled, LockFree
<1>3. ASSUME NEW m \in Messages, Store(m)
      PROVE  SameAdded /\ SameTimed
  BY <1>1, <1>3 DEF Store
<1>4. ASSUME NEW m \in Messages, Arm(m)
      PROVE  SameAdded /\ SameTimed
  <2>1. \A t \in Messages : timer[t] # "popping"
    BY <1>1, <1>4 DEF Arm, Exclusive
  <2>2. timer[m] = "none" /\ batch[m] = {}
    BY <1>1, <1>4 DEF Arm, Locals
  <2>3. QED
    BY <1>1, <1>4, <2>1, <2>2 DEF Arm, Cancelled
<1>5. ASSUME NEW t \in Messages, Fire(t)
      PROVE  SameAdded /\ SameTimed
  BY <1>1, <1>5 DEF Fire, Locals
<1>6. ASSUME NEW t \in Messages, Close(t)
      PROVE  SameAdded /\ SameTimed
  BY <1>1, <1>6 DEF Close
<1>7. ASSUME NEW m \in Messages, NEW end \in Ends, AddCallback(m, end) \/ TimerCallback(m, end)
      PROVE  SameAdded /\ SameTimed
  BY <1>1, <1>7 DEF AddCallback, TimerCallback
<1>8. CASE Restart
  BY <1>1, <1>8 DEF Restart
<1>9. CASE Expire \/ UNCHANGED vars
  BY <1>9 DEF Expire, vars
<1>10. QED
  BY <1>2, <1>3, <1>4, <1>5, <1>6, <1>7, <1>8, <1>9

LEMMA SeizeTakes ==
  ASSUME Inv, NEW m \in Messages, Seize(m)
  PROVE  /\ \A n \in Messages : n # m => TakenByAdd(n)' = TakenByAdd(n)
         /\ TakenByAdd(m) = {} /\ TakenByAdd(m)' = pending \cup {m}
         /\ SameTimed
<1>1. /\ add \in [Messages -> AddStages] /\ accumulated[m] = pending \cup {m}
  BY DEF Inv, TypeOK, Locals, Seize
<1>2. QED
  BY <1>1 DEF Seize, SameTimed, TakenByAdd, TakenByTimer, Ends

LEMMA PopTakes ==
  ASSUME Inv, NEW t \in Messages, Pop(t)
  PROVE  /\ \A n \in Messages : n # t => TakenByTimer(n)' = TakenByTimer(n)
         /\ TakenByTimer(t) = {} /\ TakenByTimer(t)' = pending
         /\ SameAdded
<1>1. /\ timer \in [Messages -> TimerStages] /\ batch[t] = pending
  BY DEF Inv, TypeOK, Locals, Pop
<1>2. QED
  BY <1>1 DEF Pop, SameAdded, TakenByAdd, TakenByTimer

-----------------------------------------------------------------------------
(* Where the messages are.                                                 *)

LEMMA TakenSame ==
  ASSUME SameAdded, SameTimed
  PROVE  AllTaken' = AllTaken
<1>1. AllTaken' = UNION {TakenByAdd(m)' \cup TakenByTimer(m)' : m \in Messages}
  BY DEF AllTaken
<1>2. {TakenByAdd(m)' \cup TakenByTimer(m)' : m \in Messages}
        = {TakenByAdd(m) \cup TakenByTimer(m) : m \in Messages}
  BY DEF SameAdded, SameTimed
<1>3. QED
  BY <1>1, <1>2 DEF AllTaken

\* While nothing is taken, only the buffer and what has expired matter.
LEMMA QuietAccounted ==
  ASSUME Inv, SameAdded, SameTimed,
         pending' \cap expired' = {},
         \A n \in Messages : add'[n] \in {"stored", "returned"}
                                => \/ n \in pending' \cup expired'
                                   \/ add[n] \in {"stored", "returned"},
         pending \cup expired \subseteq pending' \cup expired',
         \A n \in pending' \cup expired' :
            n \in pending \cup expired \/ (n \in Messages /\ add[n] = "read")
  PROVE  Accounted'
<1>1. AllTaken' = AllTaken
  BY TakenSame
<1>2. Fresh /\ Accounted
  BY DEF Inv
<1>3. \A m \in Messages : add'[m] \in {"stored", "returned"}
                              => m \in pending' \cup expired' \cup AllTaken'
  BY <1>1, <1>2 DEF Accounted
<1>4. AllTaken' \cap (pending' \cup expired') = {}
  BY <1>1, <1>2 DEF Accounted, Fresh
<1>5. \A m, n \in Messages :
         /\ m # n => TakenByAdd(m)' \cap TakenByAdd(n)' = {}
         /\ m # n => TakenByTimer(m)' \cap TakenByTimer(n)' = {}
         /\ TakenByAdd(m)' \cap TakenByTimer(n)' = {}
  BY <1>2 DEF Accounted, SameAdded, SameTimed
<1>6. QED
  BY <1>3, <1>4, <1>5 DEF Accounted

LEMMA QuietFresh ==
  ASSUME Inv, SameAdded, SameTimed,
         \A n \in Messages : add'[n] \in {"new", "ignored", "read", "seizing"}
                                => /\ add[n] \in {"new", "ignored", "read", "seizing"}
                                   /\ n \in pending' \cup expired' => n \in pending \cup expired
  PROVE  Fresh'
<1>1. AllTaken' = AllTaken
  BY TakenSame
<1>2. QED
  BY <1>1 DEF Inv, Fresh

LEMMA PlacesStep ==
  ASSUME Inv, [Next]_vars
  PROVE  Fresh' /\ Accounted'
<1>1. /\ add \in [Messages -> AddStages] /\ Fresh /\ Accounted
      /\ Locals /\ Exclusive
      /\ pending \subseteq Messages /\ expired \subseteq Messages
      /\ pending \cap expired = {}
  BY DEF Inv, TypeOK, Accounted
<1>2. ASSUME NEW m \in Messages, Store(m)
      PROVE  Fresh' /\ Accounted'
  <2>1. SameAdded /\ SameTimed
    BY <1>2, QuietSteps
  <2>2. /\ add[m] = "read" /\ add' = [add EXCEPT ![m] = "stored"]
        /\ pending' = pending \cup {m} /\ expired' = expired
    BY <1>1, <1>2 DEF Store, Locals
  <2>3. m \notin expired
    BY <1>1, <2>2 DEF Fresh
  <2>4. Accounted'
    BY <1>1, <2>1, <2>2, <2>3, QuietAccounted
  <2>5. Fresh'
    BY <1>1, <2>1, <2>2, QuietFresh
  <2>6. QED
    BY <2>4, <2>5
<1>3. ASSUME NEW m \in Messages, Seize(m)
      PROVE  Fresh' /\ Accounted'
  <2>1. /\ add[m] = "seizing" /\ add' = [add EXCEPT ![m] = "calling"]
        /\ pending' = {} /\ expired' = expired
    BY <1>3 DEF Seize
  <2>2. /\ \A n \in Messages : n # m => TakenByAdd(n)' = TakenByAdd(n)
        /\ TakenByAdd(m) = {} /\ TakenByAdd(m)' = pending \cup {m}
        /\ \A n \in Messages : TakenByTimer(n)' = TakenByTimer(n)
    BY <1>3, SeizeTakes DEF SameTimed
  <2>3. m \notin pending \cup expired \cup AllTaken
    BY <1>1, <2>1 DEF Fresh
  <2>4. \A n \in Messages : TakenByAdd(n) \subseteq AllTaken /\ TakenByTimer(n) \subseteq AllTaken
    BY DEF AllTaken
  <2>5. AllTaken' = AllTaken \cup pending \cup {m}
    BY <2>2 DEF AllTaken
  <2>6. Fresh'
    BY <1>1, <2>1, <2>3, <2>5 DEF Fresh, Exclusive, Locked
  <2>7. \A n \in Messages : add'[n] \in {"stored", "returned"}
                               => n \in pending' \cup expired' \cup AllTaken'
    BY <1>1, <2>1, <2>5 DEF Accounted
  <2>8. AllTaken' \cap (pending' \cup expired') = {} /\ pending' \cap expired' = {}
    BY <1>1, <2>1, <2>3, <2>5 DEF Accounted
  <2>9. \A n \in Messages : /\ (pending \cup {m}) \cap TakenByAdd(n) = {}
                            /\ (pending \cup {m}) \cap TakenByTimer(n) = {}
    BY <1>1, <2>3, <2>4 DEF Accounted
  <2>10. \A k, n \in Messages :
            /\ k # n => TakenByAdd(k)' \cap TakenByAdd(n)' = {}
            /\ k # n => TakenByTimer(k)' \cap TakenByTimer(n)' = {}
            /\ TakenByAdd(k)' \cap TakenByTimer(n)' = {}
    BY <1>1, <2>2, <2>9 DEF Accounted
  <2>11. QED
    BY <2>6, <2>7, <2>8, <2>10 DEF Accounted
<1>4. ASSUME NEW t \in Messages, Pop(t)
      PROVE  Fresh' /\ Accounted'
  <2>1. pending' = {} /\ UNCHANGED <<expired, add>>
    BY <1>4 DEF Pop
  <2>2. /\ \A n \in Messages : n # t => TakenByTimer(n)' = TakenByTimer(n)
        /\ TakenByTimer(t) = {} /\ TakenByTimer(t)' = pending
        /\ \A n \in Messages : TakenByAdd(n)' = TakenByAdd(n)
    BY <1>4, PopTakes DEF SameAdded
  <2>3. \A n \in Messages : TakenByAdd(n) \subseteq AllTaken /\ TakenByTimer(n) \subseteq AllTaken
    BY DEF AllTaken
  <2>4. AllTaken' = AllTaken \cup pending
    BY <2>2 DEF AllTaken
  <2>5. Fresh'
    BY <1>1, <2>1, <2>4 DEF Fresh
  <2>6. \A n \in Messages : add'[n] \in {"stored", "returned"}
                               => n \in pending' \cup expired' \cup AllTaken'
    BY <1>1, <2>1, <2>4 DEF Accounted
  <2>7. AllTaken' \cap (pending' \cup expired') = {} /\ pending' \cap expired' = {}
    BY <1>1, <2>1, <2>4 DEF Accounted
  <2>8. \A n \in Messages : pending \cap TakenByAdd(n) = {} /\ pending \cap TakenByTimer(n) = {}
    BY <1>1, <2>3 DEF Accounted
  <2>9. \A k, n \in Messages :
           /\ k # n => TakenByAdd(k)' \cap TakenByAdd(n)' = {}
           /\ k # n => TakenByTimer(k)' \cap TakenByTimer(n)' = {}
           /\ TakenByAdd(k)' \cap TakenByTimer(n)' = {}
    BY <1>1, <2>2, <2>8 DEF Accounted
  <2>10. QED
    BY <2>5, <2>6, <2>7, <2>9 DEF Accounted
<1>5. ASSUME SameAdded, SameTimed, UNCHANGED <<pending, expired>>,
             \A n \in Messages :
                /\ add'[n] \in {"stored", "returned"} => add[n] \in {"stored", "returned"}
                /\ add'[n] \in {"new", "ignored", "read", "seizing"}
                      => add[n] \in {"new", "ignored", "read", "seizing"}
      PROVE  Fresh' /\ Accounted'
  <2>1. Accounted'
    BY <1>1, <1>5, QuietAccounted
  <2>2. Fresh'
    BY <1>1, <1>5, QuietFresh
  <2>3. QED
    BY <2>1, <2>2
<1>6. ASSUME NEW m \in Messages, NEW end \in Ends,
             \/ Ignore(m) \/ Read(m) \/ Arm(m) \/ Fire(m) \/ Close(m)
             \/ AddCallback(m, end) \/ TimerCallback(m, end)
      PROVE  Fresh' /\ Accounted'
  <2>1. SameAdded /\ SameTimed
    BY <1>6, QuietSteps
  <2>2. /\ UNCHANGED <<pending, expired>>
        /\ \A n \in Messages :
              /\ add'[n] \in {"stored", "returned"} => add[n] \in {"stored", "returned"}
              /\ add'[n] \in {"new", "ignored", "read", "seizing"}
                    => add[n] \in {"new", "ignored", "read", "seizing"}
    BY <1>1, <1>6 DEF Ignore, Read, Arm, Fire, Close, AddCallback, TimerCallback, Ends, buffer
  <2>3. QED
    BY <1>5, <2>1, <2>2
<1>7. CASE Restart \/ UNCHANGED vars
  <2>1. SameAdded /\ SameTimed
    BY <1>7, QuietSteps
  <2>2. /\ UNCHANGED <<pending, expired>>
        /\ \A n \in Messages :
              /\ add'[n] \in {"stored", "returned"} => add[n] \in {"stored", "returned"}
              /\ add'[n] \in {"new", "ignored", "read", "seizing"}
                    => add[n] \in {"new", "ignored", "read", "seizing"}
    BY <1>1, <1>7 DEF Restart, vars, Locked, buffer
  <2>3. QED
    BY <1>5, <2>1, <2>2
<1>8. CASE Expire
  <2>1. SameAdded /\ SameTimed
    BY <1>8, QuietSteps
  <2>2. pending' = {} /\ expired' = expired \cup pending /\ add' = add
    BY <1>8 DEF Expire
  <2>3. Accounted'
    BY <1>1, <2>1, <2>2, QuietAccounted
  <2>4. Fresh'
    BY <1>1, <2>1, <2>2, QuietFresh
  <2>5. QED
    BY <2>3, <2>4
<1>9. "failed" \in Ends
  BY DEF Ends
<1>10. QED
  BY <1>2, <1>3, <1>4, <1>6, <1>7, <1>8, <1>9 DEF Next, Progress

-----------------------------------------------------------------------------
(* The watch over the buffer.                                              *)

\* What waits has a timer, or a coroutine that holds the lock will see to it.
Attended ==
    \/ \E t \in pending : timer[t] \in Armed \/ add[t] = "stored"
    \/ \E m \in Messages : add[m] = "seizing"

Watched == restarts = 0 => expired = {} /\ (pending # {} => Attended)

LEMMA WatchedStep ==
  ASSUME Inv, Watched, [Next]_vars
  PROVE  Watched'
<1> USE DEF Watched, Attended, Armed, buffer
<1>1. /\ add \in [Messages -> AddStages] /\ timer \in [Messages -> TimerStages]
      /\ pending \subseteq Messages /\ restarts \in Nat
      /\ Locals /\ OneTimer /\ Exclusive
  BY DEF Inv, TypeOK
<1>2. ASSUME NEW m \in Messages, Ignore(m)
      PROVE  Watched'
  BY <1>1, <1>2 DEF Ignore
<1>3. ASSUME NEW m \in Messages, Read(m)
      PROVE  Watched'
  BY <1>1, <1>3 DEF Read, Cancelled, LockFree, Locked
<1>4. ASSUME NEW m \in Messages, Store(m)
      PROVE  Watched'
  BY <1>1, <1>4 DEF Store, Locals
<1>5. ASSUME NEW m \in Messages, Arm(m)
      PROVE  Watched'
  BY <1>1, <1>5 DEF Arm, Cancelled, Locals
<1>6. ASSUME NEW m \in Messages, Seize(m) \/ Pop(m)
      PROVE  Watched'
  BY <1>6 DEF Seize, Pop
<1>7. ASSUME NEW t \in Messages, Fire(t)
      PROVE  Watched'
  BY <1>1, <1>7 DEF Fire, Locals
<1>8. ASSUME NEW m \in Messages, NEW end \in Ends,
             Close(m) \/ AddCallback(m, end) \/ TimerCallback(m, end)
      PROVE  Watched'
  BY <1>1, <1>8 DEF Close, AddCallback, TimerCallback
<1>9. CASE Restart
  BY <1>1, <1>9 DEF Restart
<1>10. CASE Expire
  BY <1>1, <1>10 DEF Expire, LockFree, Locked
<1>11. CASE UNCHANGED vars
  BY <1>11 DEF vars
<1>12. "failed" \in Ends
  BY DEF Ends
<1>13. QED
  BY <1>2, <1>3, <1>4, <1>5, <1>6, <1>7, <1>8, <1>9, <1>10, <1>11, <1>12 DEF Next, Progress

-----------------------------------------------------------------------------
(* Theorems.                                                               *)

\* Inv is inductive: however the calls and timers of a chat interleave, with
\* any number of restarts, it holds after every step of MessageDebouncer.
THEOREM Invariant == Spec => []Inv
<1>1. ASSUME Inv, [Next]_vars
      PROVE  Inv'
  <2>1. TypeOK'
    BY <1>1, TypeStep
  <2>2. OneTimer' /\ Exclusive' /\ Locals' /\ TimerHandsItsOwn'
    BY <1>1, ControlStep DEF Control
  <2>3. Fresh' /\ Accounted'
    BY <1>1, PlacesStep
  <2>4. QED
    BY <2>1, <2>2, <2>3 DEF Inv
<1>2. QED
  BY InitInv, <1>1, PTL DEF Spec

\* A message that add_message has stored is in Redis, has expired there, or is
\* in exactly one batch that was taken.
THEOREM EveryMessageAccounted == Spec => []Accounted
<1>1. Inv => Accounted
  BY DEF Inv
<1>2. QED
  BY <1>1, Invariant, PTL

\* The timer that add_message would cancel is the only one that is alive.
THEOREM OnlyOneTimer == Spec => []OneTimer
<1>1. Inv => OneTimer
  BY DEF Inv
<1>2. QED
  BY <1>1, Invariant, PTL

\* A timer's callback is given the message it came with.
THEOREM OwnMessageHanded == Spec => []TimerHandsItsOwn
<1>1. Inv => TimerHandsItsOwn
  BY DEF Inv
<1>2. QED
  BY <1>1, Invariant, PTL

\* In a process that was never restarted, whatever waits while the chat's lock
\* is free has a timer that sleeps, and no buffer expires.
THEOREM TimerWatches == Spec => []WatchedOver
<1>1. Init => Watched
  BY DEF Init, Watched
<1>2. Inv /\ Watched => WatchedOver
  BY DEF Inv, TypeOK, Watched, Attended, WatchedOver, LockFree, Locked, Armed
<1>3. Inv /\ Watched /\ [Next]_vars => Watched'
  BY WatchedStep
<1>4. QED
  BY <1>1, <1>2, <1>3, Invariant, PTL DEF Spec

-----------------------------------------------------------------------------
(* The refinement.                                                         *)

Batches == ({TakenByAdd(m) : m \in Messages} \cup {TakenByTimer(t) : t \in Messages})
              \ {{}}

LEMMA BatchesUnion == UNION Batches = AllTaken
  BY DEF Batches, AllTaken

LEMMA BatchesSame ==
  ASSUME SameAdded, SameTimed
  PROVE  Batches' = Batches
<1>1. Batches' = ({TakenByAdd(m)' : m \in Messages} \cup {TakenByTimer(t)' : t \in Messages})
                   \ {{}}
  BY DEF Batches
<1>2. {TakenByAdd(m)' : m \in Messages} = {TakenByAdd(m) : m \in Messages}
  BY DEF SameAdded
<1>3. {TakenByTimer(m)' : m \in Messages} = {TakenByTimer(m) : m \in Messages}
  BY DEF SameTimed
<1>4. QED
  BY <1>1, <1>2, <1>3 DEF Batches

LEMMA StoreAccepts ==
  ASSUME Inv, NEW m \in Messages, Store(m)
  PROVE  Box!Accept(m)
<1>1. SameAdded /\ SameTimed
  BY QuietSteps
<1>2. pending' = pending \cup {m} /\ m \notin pending \cup AllTaken
  BY DEF Inv, Locals, Fresh, Store
<1>3. QED
  BY <1>1, <1>2, BatchesSame, BatchesUnion DEF Box!Accept, Box!Received, Batches

LEMMA SeizeIsTake ==
  ASSUME Inv, NEW m \in Messages, Seize(m)
  PROVE  Box!Take({m})
<1>1. /\ \A n \in Messages : n # m => TakenByAdd(n)' = TakenByAdd(n)
      /\ TakenByAdd(m) = {} /\ TakenByAdd(m)' = pending \cup {m}
      /\ \A n \in Messages : TakenByTimer(n)' = TakenByTimer(n)
  BY SeizeTakes DEF SameTimed
<1>2. Batches' = Batches \cup {pending \cup {m}}
  BY <1>1 DEF Batches
<1>3. pending' = {} /\ m \notin pending \cup AllTaken
  BY DEF Inv, Fresh, Seize
<1>4. {m} \cap (pending \cup UNION Batches) = {}
  BY <1>3, BatchesUnion
<1>5. pending \cup {m} # {}
  OBVIOUS
<1>6. QED
  BY <1>2, <1>3, <1>4, <1>5 DEF Box!Take, Box!Received, Batches

LEMMA PopIsTake ==
  ASSUME Inv, NEW t \in Messages, Pop(t)
  PROVE  Box!Take({})
<1>1. /\ \A n \in Messages : n # t => TakenByTimer(n)' = TakenByTimer(n)
      /\ TakenByTimer(t) = {} /\ TakenByTimer(t)' = pending
      /\ \A n \in Messages : TakenByAdd(n)' = TakenByAdd(n)
  BY PopTakes DEF SameAdded
<1>2. pending' = {} /\ pending # {}
  BY DEF Inv, Locals, Armed, Pop
<1>3. Batches' = Batches \cup {pending}
  BY <1>1, <1>2 DEF Batches
<1>4. QED
  BY <1>2, <1>3 DEF Box!Take, Box!Received, Batches

LEMMA MailboxStep ==
  ASSUME Inv, [Next]_vars
  PROVE  [Box!MailboxNext]_(Box!mailboxVars)
<1>1. ASSUME NEW m \in Messages, Store(m) \/ Seize(m) \/ Pop(m)
      PROVE  Box!MailboxNext
  BY <1>1, StoreAccepts, SeizeIsTake, PopIsTake DEF Box!MailboxNext
<1>2. CASE Expire
  <2>1. SameAdded /\ SameTimed /\ pending' = {}
    BY <1>2, QuietSteps DEF Expire
  <2>2. Box!Lose
    BY <2>1, BatchesSame DEF Box!Lose, Batches
  <2>3. QED
    BY <2>2 DEF Box!MailboxNext
<1>3. ASSUME NEW m \in Messages, NEW end \in Ends,
             \/ Ignore(m) \/ Read(m) \/ Arm(m) \/ Fire(m) \/ Close(m)
             \/ AddCallback(m, end) \/ TimerCallback(m, end)
      PROVE  UNCHANGED Box!mailboxVars
  <2>1. SameAdded /\ SameTimed
    BY <1>3, QuietSteps
  <2>2. pending' = pending
    BY <1>3 DEF Ignore, Read, Arm, Fire, Close, AddCallback, TimerCallback, buffer
  <2>3. QED
    BY <2>1, <2>2, BatchesSame DEF Box!mailboxVars, Batches
<1>4. CASE Restart \/ UNCHANGED vars
  <2>1. SameAdded /\ SameTimed
    BY <1>4, QuietSteps
  <2>2. pending' = pending
    BY <1>4 DEF Restart, vars, buffer
  <2>3. QED
    BY <2>1, <2>2, BatchesSame DEF Box!mailboxVars, Batches
<1>5. "failed" \in Ends
  BY DEF Ends
<1>6. QED
  BY <1>1, <1>2, <1>3, <1>4, <1>5 DEF Next, Progress

\* MessageDebouncer implements Mailbox: all that waits is taken at once, a
\* message at most once, and only an expiry loses what waits.
THEOREM ImplementsMailbox == Spec => MailboxSpec
<1>1. Init => Box!MailboxInit
  BY DEF Init, Box!MailboxInit, TakenByAdd, TakenByTimer, Ends
<1>2. QED
  BY <1>1, MailboxStep, Invariant, PTL DEF Spec, MailboxSpec, Box!MailboxSpec

-----------------------------------------------------------------------------
(* What a cancellation can interrupt, and how long a message keeps the     *)
(* coroutines busy.                                                        *)

\* Timers are cancelled under the chat's lock, so never between reading the buffer
\* and deleting it: a timer that is cancelled has taken nothing, and what it watched
\* over still waits, or its callback has been called.
CancelSpares ==
  [][\A t \in Messages : timer'[t] = "cancelled" /\ timer[t] # "cancelled" =>
        \/ timer[t] = "sleeping" /\ batch[t] = {} /\ t \in pending'
        \/ timer[t] = "calling"]_vars

THEOREM CancelledSafely == Spec => CancelSpares
<1>1. ASSUME Inv, [Next]_vars, NEW t \in Messages, timer'[t] = "cancelled", timer[t] # "cancelled"
      PROVE  \/ timer[t] = "sleeping" /\ batch[t] = {} /\ t \in pending'
             \/ timer[t] = "calling"
  <2> USE DEF Inv, TypeOK, OneTimer, Exclusive, Locals, Locked, Armed, buffer
  <2>1. PICK m \in Messages : Read(m) \/ Arm(m)
    BY <1>1 DEF Next, Progress, Ignore, Store, Seize, AddCallback, Fire, Pop, TimerCallback, Close,
       Restart, Expire, Ends, vars
  <2>2. active_timer = t /\ pending' = pending
    <3>1. timer'[t] = timer[t] \/ timer'[t] = Cancelled[t] \/ timer'[t] = "sleeping"
      <4>1. CASE Read(m)
        BY <4>1 DEF Read
      <4>2. CASE Arm(m)
        BY <4>2 DEF Arm, Cancelled
      <4> QED BY <2>1, <4>1, <4>2
    <3>2. active_timer = t
      BY <1>1, <3>1 DEF Cancelled
    <3>3. pending' = pending
      BY <2>1 DEF Read, Arm
    <3> QED BY <3>2, <3>3
  <2>3. timer[t] \in {"sleeping", "popping", "calling"}
    BY <1>1, <2>2
  <2>4. timer[t] # "popping"
    BY <1>1, <2>1 DEF Read, Arm, LockFree
  <2> QED BY <1>1, <2>2, <2>3, <2>4
<1>2. Inv /\ [Next]_vars =>
        [\A t \in Messages : timer'[t] = "cancelled" /\ timer[t] # "cancelled" =>
            \/ timer[t] = "sleeping" /\ batch[t] = {} /\ t \in pending'
            \/ timer[t] = "calling"]_vars
  BY <1>1
<1> QED BY <1>2, Invariant, PTL DEF Spec, CancelSpares

\* An upper bound of the steps that the call of add_message for m, and the timer it
\* arms, can still take.
AddLeft(stage) ==
  CASE stage = "new" -> 3
    [] stage \in {"read", "seizing"} -> 2
    [] stage \in {"stored", "calling"} -> 1
    [] OTHER -> 0
TimerLeft(stage) ==
  CASE stage = "none" -> 5
    [] stage = "sleeping" -> 4
    [] stage = "popping" -> 3
    [] stage = "calling" -> 2
    [] stage = "cancelled" -> 1
    [] OTHER -> 0
StepsLeft(m) == AddLeft(add[m]) + TimerLeft(timer[m])

\* Each step of a message's coroutines leaves it fewer, and no other message, timer,
\* restart or expiry gives it more.
WorkShrinks ==
  [][\A m \in Messages :
        /\ StepsLeft(m)' <= StepsLeft(m)
        /\ Ignore(m) \/ Read(m) \/ Progress(m) => StepsLeft(m)' < StepsLeft(m)]_vars

LEMMA StepsStep ==
  ASSUME Inv, [Next]_vars, NEW m \in Messages
  PROVE  /\ StepsLeft(m)' <= StepsLeft(m)
         /\ Ignore(m) \/ Read(m) \/ Progress(m) => StepsLeft(m)' < StepsLeft(m)
<1> DEFINE Goal == /\ StepsLeft(m)' <= StepsLeft(m)
                   /\ Ignore(m) \/ Read(m) \/ Progress(m) => StepsLeft(m)' < StepsLeft(m)
<1> SUFFICES Goal
  OBVIOUS
<1>0. /\ add \in [Messages -> AddStages] /\ timer \in [Messages -> TimerStages]
      /\ timer[m] # "none" => add[m] = "returned"
      /\ timer[m] \in {"sleeping", "popping", "calling"} <=> active_timer = m
      /\ Nobody \notin Messages
  BY DebouncerAssumption DEF Inv, TypeOK, Locals, OneTimer, Armed
<1>1. \A stage : AddLeft(stage) \in Nat /\ TimerLeft(stage) \in Nat
  BY DEF AddLeft, TimerLeft
<1> DEFINE a0 == AddLeft(add[m])
           a1 == AddLeft(add'[m])
           t0 == TimerLeft(timer[m])
           t1 == TimerLeft(timer'[m])
<1>2. a0 \in Nat /\ a1 \in Nat /\ t0 \in Nat /\ t1 \in Nat
  BY <1>1
<1>3. StepsLeft(m) = a0 + t0 /\ StepsLeft(m)' = a1 + t1
  BY DEF StepsLeft, AddLeft, TimerLeft
<1> HIDE DEF a0, a1, t0, t1
<1>4. ASSUME a1 < a0, t1 <= t0 PROVE Goal
  BY <1>2, <1>3, <1>4
<1>5. ASSUME a1 <= a0, t1 < t0 PROVE Goal
  BY <1>2, <1>3, <1>5
<1>6. ASSUME a1 <= a0, t1 <= t0, ~(Ignore(m) \/ Read(m) \/ Progress(m)) PROVE Goal
  BY <1>2, <1>3, <1>6
<1>7. Cancelled[m] = timer[m] \/ (timer[m] \in {"sleeping", "popping", "calling"} /\ Cancelled[m] = "cancelled")
  BY <1>0 DEF Cancelled
<1>8. ASSUME timer'[m] = timer[m] \/ timer'[m] = Cancelled[m] PROVE t1 <= t0
  BY <1>2, <1>7, <1>8 DEF t0, t1, TimerLeft
<1>9. ASSUME add'[m] = add[m] PROVE a1 <= a0
  BY <1>2, <1>9 DEF a0, a1
<1> HIDE DEF Goal
<1>10. ASSUME Ignore(m) \/ Read(m) \/ Store(m) \/ Seize(m) \/ \E end \in Ends : AddCallback(m, end)
       PROVE  Goal
  <2>1. timer'[m] = timer[m] \/ timer'[m] = Cancelled[m]
    BY <1>10 DEF Ignore, Read, Store, Seize, AddCallback
  <2>2. \/ add[m] = "new" /\ add'[m] \in {"ignored", "read", "seizing"}
        \/ add[m] = "read" /\ add'[m] = "stored"
        \/ add[m] = "seizing" /\ add'[m] = "calling"
        \/ add[m] = "calling" /\ add'[m] \in Ends
    BY <1>0, <1>10 DEF Ignore, Read, Store, Seize, AddCallback
  <2>3. a1 < a0
    BY <2>2 DEF a0, a1, AddLeft, Ends
  <2> QED BY <1>4, <1>8, <2>1, <2>3
<1>11. ASSUME Arm(m) PROVE Goal
  <2>1. add[m] = "stored" /\ add'[m] = "returned" /\ timer[m] = "none" /\ timer'[m] = "sleeping"
    BY <1>0, <1>11 DEF Arm, Cancelled
  <2>2. a1 < a0 /\ t1 < t0
    BY <2>1 DEF a0, a1, t0, t1, AddLeft, TimerLeft
  <2> QED BY <1>2, <1>4, <2>2
<1>12. ASSUME Fire(m) \/ Pop(m) \/ Close(m) \/ \E end \in Ends : TimerCallback(m, end) PROVE Goal
  <2>1. add'[m] = add[m]
    BY <1>12 DEF Fire, Pop, Close, TimerCallback
  <2>2. \/ timer[m] = "sleeping" /\ timer'[m] = "popping"
        \/ timer[m] = "popping" /\ timer'[m] = "calling"
        \/ timer[m] = "cancelled" /\ timer'[m] = "closed"
        \/ timer[m] = "calling" /\ timer'[m] \in Ends
    BY <1>0, <1>12 DEF Fire, Pop, Close, TimerCallback
  <2>3. t1 < t0
    BY <2>2 DEF t0, t1, TimerLeft, Ends
  <2> QED BY <1>5, <1>9, <2>1, <2>3
<1>13. ASSUME Ignore(m) \/ Read(m) \/ Progress(m) PROVE Goal
  BY <1>10, <1>11, <1>12, <1>13 DEF Progress
<1>14. ASSUME a1 <= a0, t1 <= t0 PROVE Goal
  BY <1>6, <1>13, <1>14
<1>15. ASSUME NEW n \in Messages, n # m, Ignore(n) \/ Read(n) \/ Progress(n) PROVE Goal
  <2>1. add'[m] = add[m]
    BY <1>0, <1>15 DEF Progress, Ignore, Read, Store, Arm, Seize, AddCallback, Fire, Pop,
       TimerCallback, Close
  <2>2. timer'[m] = timer[m] \/ timer'[m] = Cancelled[m]
    <3>1. Cancelled \in [Messages -> TimerStages]
      BY <1>0 DEF Cancelled, TimerStages
    <3> QED BY <1>0, <1>15, <3>1 DEF Progress, Ignore, Read, Store, Arm, Seize, AddCallback, Fire,
            Pop, TimerCallback, Close
  <2> QED BY <1>8, <1>9, <1>14, <2>1, <2>2
<1>16. CASE Restart
  <2>1. add'[m] = add[m] \/ (add'[m] = "dead")
    BY <1>16 DEF Restart
  <2>2. timer'[m] = timer[m] \/ timer'[m] = "dead"
    BY <1>16 DEF Restart
  <2>3. a1 <= a0
    BY <1>2, <2>1 DEF a0, a1, AddLeft
  <2>4. t1 <= t0
    BY <1>2, <2>2 DEF t0, t1, TimerLeft
  <2> QED BY <1>14, <2>3, <2>4
<1>17. CASE Expire \/ UNCHANGED vars
  <2>1. add'[m] = add[m] /\ timer'[m] = timer[m]
    BY <1>17 DEF Expire, vars
  <2> QED BY <1>8, <1>9, <1>14, <2>1
<1>18. Goal
  BY <1>13, <1>15, <1>16, <1>17 DEF Next
<1> QED BY <1>18 DEF Goal

\* A message causes at most eight steps, so that no chat keeps the event loop busy
\* for ever, however messages cancel each other's timers.
THEOREM WorkBounded ==
  Spec => WorkShrinks /\ [](\A m \in Messages : StepsLeft(m) \in 0 .. 8)
<1>1. Inv /\ [Next]_vars =>
        [\A m \in Messages :
           /\ StepsLeft(m)' <= StepsLeft(m)
           /\ Ignore(m) \/ Read(m) \/ Progress(m) => StepsLeft(m)' < StepsLeft(m)]_vars
  BY StepsStep
<1>2. \A m \in Messages : StepsLeft(m) \in 0 .. 8
  <2>1. \A stage : AddLeft(stage) \in 0 .. 3 /\ TimerLeft(stage) \in 0 .. 5
    BY DEF AddLeft, TimerLeft
  <2> QED BY <2>1 DEF StepsLeft
<1>3. QED
  BY <1>1, <1>2, Invariant, PTL DEF Spec, WorkShrinks
=============================================================================
