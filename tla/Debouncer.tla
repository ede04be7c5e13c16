------------------------------ MODULE Debouncer -----------------------------
(***************************************************************************)
(* MessageDebouncer, for one chat: the messages of a client are collected  *)
(* in Redis until the client pauses, and then handed to the callback of    *)
(* the last one.  Each call of add_message and each timer is a coroutine   *)
(* of its own; both are named by the message.  The chats do not share any  *)
(* state, so one is enough.                                                *)
(***************************************************************************)
EXTENDS Integers

CONSTANTS
    Messages,
    HasPhoto, Long,     \* messages with a photo; of 500 characters or more
    PhotoOnly,          \* messages added with TaskStrategy.PHOTO_ONLY
    MaxRestarts,        \* bound: restarts in a behaviour
    Nobody

\* q1, q2 and q3 add a message as PHOTO_ONLY only if it has a photo.
ASSUME DebouncerAssumption ==
    /\ HasPhoto \subseteq Messages /\ Long \subseteq Messages
    /\ PhotoOnly \subseteq HasPhoto
    /\ MaxRestarts \in Nat
    /\ Nobody \notin Messages

VARIABLES
    pending, photo_only,    \* the buffer in Redis; {} is no key
    active_timer,                  \* the timer in _active_timers, or Nobody
    add, accumulated,       \* each call of add_message and its local buffer
    timer, batch,           \* each timer and what it has read
    expired, restarts       \* history

buffer == <<pending, photo_only>>
vars == <<buffer, active_timer, add, accumulated, timer, batch, expired, restarts>>

Locked == {"read", "stored", "seizing"}
AddStages == {"new", "ignored", "returned", "calling", "answered", "failed", "dead"}
                \cup Locked
Armed == {"sleeping", "popping"}
TimerStages == {"none", "calling", "answered", "failed", "cancelled", "closed", "dead"}
                \cup Armed
Ends == {"answered", "failed"}

\* Mutant: the chat has no lock.
LockFreeAlways == TRUE

\* The asyncio.Lock of the chat.
LockFree ==
    /\ \A m \in Messages : add[m] \notin Locked
    /\ \A t \in Messages : timer[t] # "popping"

\* _cancel_timer: whatever the registered timer does, it stops.
Cancelled == [t \in Messages |-> IF t = active_timer THEN "cancelled" ELSE timer[t]]

-----------------------------------------------------------------------------
(* add_message.                                                            *)

Ignore(m) ==
    /\ add[m] = "new"
    /\ LockFree
    /\ pending # {} /\ photo_only /\ m \notin HasPhoto
    /\ add' = [add EXCEPT ![m] = "ignored"]
    /\ UNCHANGED <<buffer, active_timer, accumulated, timer, batch, expired, restarts>>

\* Mutant: a long message does not take the buffer along.
ReadLongAlone(m) ==
    /\ add[m] = "new"
    /\ LockFree
    /\ ~(pending # {} /\ photo_only /\ m \notin HasPhoto)
    /\ IF m \in Long
         THEN /\ add' = [add EXCEPT ![m] = "seizing"]
              /\ accumulated' = [accumulated EXCEPT ![m] = {m}]
              /\ timer' = Cancelled
              /\ active_timer' = Nobody
         ELSE /\ add' = [add EXCEPT ![m] = "read"]
              /\ accumulated' = [accumulated EXCEPT ![m] = pending \cup {m}]
              /\ UNCHANGED <<timer, active_timer>>
    /\ UNCHANGED <<buffer, batch, expired, restarts>>

\* The buffer is read; a long message cancels the timer at once.
Read(m) ==
    /\ add[m] = "new"
    /\ LockFree
    /\ ~(pending # {} /\ photo_only /\ m \notin HasPhoto)
    /\ accumulated' = [accumulated EXCEPT ![m] = pending \cup {m}]
    /\ IF m \in Long
         THEN /\ add' = [add EXCEPT ![m] = "seizing"]
              /\ timer' = Cancelled
              /\ active_timer' = Nobody
         ELSE /\ add' = [add EXCEPT ![m] = "read"]
              /\ UNCHANGED <<timer, active_timer>>
    /\ UNCHANGED <<buffer, batch, expired, restarts>>

\* Mutant: the buffer is overwritten.
StoreAlone(m) ==
    /\ add[m] = "read"
    /\ pending' = {m}
    /\ photo_only' = IF accumulated[m] = {m} THEN m \in PhotoOnly ELSE photo_only
    /\ add' = [add EXCEPT ![m] = "stored"]
    /\ UNCHANGED <<active_timer, accumulated, timer, batch, expired, restarts>>

\* setex: a new buffer takes the strategy of its first message.
Store(m) ==
    /\ add[m] = "read"
    /\ pending' = accumulated[m]
    /\ photo_only' = IF accumulated[m] = {m} THEN m \in PhotoOnly ELSE photo_only
    /\ add' = [add EXCEPT ![m] = "stored"]
    /\ UNCHANGED <<active_timer, accumulated, timer, batch, expired, restarts>>

Arm(m) ==
    /\ add[m] = "stored"
    /\ timer' = [Cancelled EXCEPT ![m] = "sleeping"]
    /\ active_timer' = m
    /\ add' = [add EXCEPT ![m] = "returned"]
    /\ UNCHANGED <<buffer, accumulated, batch, expired, restarts>>

\* Mutant: the buffer is not deleted.
SeizeKeeping(m) ==
    /\ add[m] = "seizing"
    /\ add' = [add EXCEPT ![m] = "calling"]
    /\ UNCHANGED <<buffer, active_timer, accumulated, timer, batch, expired, restarts>>

\* A long message takes the buffer along; the callback runs without the lock.
Seize(m) ==
    /\ add[m] = "seizing"
    /\ pending' = {}
    /\ add' = [add EXCEPT ![m] = "calling"]
    /\ UNCHANGED <<photo_only, active_timer, accumulated, timer, batch, expired, restarts>>

AddCallback(m, end) ==
    /\ add[m] = "calling"
    /\ add' = [add EXCEPT ![m] = end]
    /\ UNCHANGED <<buffer, active_timer, accumulated, timer, batch, expired, restarts>>

-----------------------------------------------------------------------------
(* _delayed_process.                                                       *)

\* Mutant: a timer takes another one's registration with it.
UnregisterAny(t) == active_timer' = Nobody

\* The finally: only its own registration.
Unregister(t) == active_timer' = IF active_timer = t THEN Nobody ELSE active_timer

\* The pause is over; the buffer is read under the lock.  It is never empty
\* (Locals), so the code's return in that case is left out ...
Fire(t) ==
    /\ timer[t] = "sleeping"
    /\ LockFree
    /\ pending # {}
    /\ timer' = [timer EXCEPT ![t] = "popping"]
    /\ batch' = [batch EXCEPT ![t] = pending]
    /\ UNCHANGED <<buffer, active_timer, add, accumulated, expired, restarts>>

\* ... and deleted; the callback runs without the lock.
Pop(t) ==
    /\ timer[t] = "popping"
    /\ pending' = {}
    /\ timer' = [timer EXCEPT ![t] = "calling"]
    /\ UNCHANGED <<photo_only, active_timer, add, accumulated, batch, expired, restarts>>

TimerCallback(t, end) ==
    /\ timer[t] = "calling"
    /\ timer' = [timer EXCEPT ![t] = end]
    /\ Unregister(t)
    /\ UNCHANGED <<buffer, add, accumulated, batch, expired, restarts>>

\* The finally of a timer that was cancelled.
Close(t) ==
    /\ timer[t] = "cancelled"
    /\ timer' = [timer EXCEPT ![t] = "closed"]
    /\ Unregister(t)
    /\ UNCHANGED <<buffer, add, accumulated, batch, expired, restarts>>

-----------------------------------------------------------------------------
(* The surroundings.                                                       *)

\* A restart ends the coroutines and loses what they had only read; the buffer
\* survives in Redis.
Restart ==
    /\ restarts < MaxRestarts
    /\ restarts' = restarts + 1
    /\ add' = [m \in Messages |->
                 IF add[m] \in Locked \cup {"calling"} THEN "dead" ELSE add[m]]
    /\ timer' = [t \in Messages |->
                 IF timer[t] \in Armed \cup {"calling", "cancelled"} THEN "dead" ELSE timer[t]]
    /\ active_timer' = Nobody
    /\ accumulated' = [m \in Messages |->
                         IF add[m] \in Locked THEN {} ELSE accumulated[m]]
    /\ batch' = [t \in Messages |-> IF timer[t] = "popping" THEN {} ELSE batch[t]]
    /\ UNCHANGED <<buffer, expired>>

\* The key's TTL, 300 s by default, is far longer than the delay, 10 s, and than
\* a step of Redis: only a buffer without a timer lives that long.
Expire ==
    /\ pending # {}
    /\ LockFree
    /\ \A t \in Messages : timer[t] # "sleeping"
    /\ pending' = {}
    /\ expired' = expired \cup pending
    /\ UNCHANGED <<photo_only, active_timer, add, accumulated, timer, batch, restarts>>

-----------------------------------------------------------------------------
Init ==
    /\ pending = {} /\ photo_only = FALSE
    /\ active_timer = Nobody
    /\ add = [m \in Messages |-> "new"]
    /\ accumulated = [m \in Messages |-> {}]
    /\ timer = [t \in Messages |-> "none"]
    /\ batch = [t \in Messages |-> {}]
    /\ expired = {} /\ restarts = 0

\* What a coroutine does once its message has come.
Progress(m) ==
    \/ Store(m) \/ Arm(m) \/ Seize(m) \/ Fire(m) \/ Pop(m) \/ Close(m)
    \/ \E end \in Ends : AddCallback(m, end) \/ TimerCallback(m, end)

Next ==
    \/ \E m \in Messages : Ignore(m) \/ Read(m) \/ Progress(m)
    \/ Restart
    \/ Expire

Spec == Init /\ [][Next]_vars

\* A coroutine that can go on does: the calls of Redis and of the callbacks have
\* timeouts.  No message has to come.
FairSpec == Spec /\ \A m \in Messages : WF_vars(Progress(m))

-----------------------------------------------------------------------------
(* Properties                                                              *)

TypeOK ==
    /\ pending \subseteq Messages /\ photo_only \in BOOLEAN
    /\ active_timer \in Messages \cup {Nobody}
    /\ add \in [Messages -> AddStages]
    /\ accumulated \in [Messages -> SUBSET Messages]
    /\ timer \in [Messages -> TimerStages]
    /\ batch \in [Messages -> SUBSET Messages]
    /\ expired \subseteq Messages
    /\ restarts \in 0 .. MaxRestarts

\* The registered timer is the one that is alive, so there is only one of it, and
\* add_message can always reach the timer it has to replace.
OneTimer ==
    \A t \in Messages : timer[t] \in Armed \cup {"calling"} <=> active_timer = t

\* The batches that were taken out of Redis, by coroutines dead or alive.
TakenByAdd(m) == IF add[m] \in {"calling", "dead"} \cup Ends THEN accumulated[m] ELSE {}
TakenByTimer(t) == IF timer[t] = "popping" THEN {} ELSE batch[t]
AllTaken == UNION {TakenByAdd(m) \cup TakenByTimer(m) : m \in Messages}

\* A message that was added waits in Redis, has expired there, or was handed to
\* one callback: concurrent calls neither lose it nor answer it twice.
Accounted ==
    /\ \A m \in Messages : add[m] \in {"stored", "returned"}
                              => m \in pending \cup expired \cup AllTaken
    /\ \A m, n \in Messages :
          /\ m # n => TakenByAdd(m) \cap TakenByAdd(n) = {}
          /\ m # n => TakenByTimer(m) \cap TakenByTimer(n) = {}
          /\ TakenByAdd(m) \cap TakenByTimer(n) = {}
    /\ AllTaken \cap (pending \cup expired) = {}
    /\ pending \cap expired = {}

\* The callback of a timer is the one that came with a message of its batch:
\* the callback of a photo is never left without a photo.
TimerHandsItsOwn == \A t \in Messages : batch[t] # {} => t \in batch[t]

\* While no restart loses it, a timer watches over whatever waits, and nothing
\* expires.
WatchedOver ==
    restarts = 0 => /\ expired = {}
                    /\ pending # {} /\ LockFree
                         => \E t \in pending : timer[t] = "sleeping"

\* What waits in Redis is handed to a callback in the end, unless the process
\* is restarted: no call, timer or callback keeps the chat's lock or leaves a
\* buffer without a timer.
EverythingTaken ==
    \A m \in Messages : m \in pending ~> m \in AllTaken \/ restarts > 0

\* What the docstring of the class says, that the messages collected are
\* "processed as one request after a pause": a callback that was given messages
\* comes to its end while the process lives.  The code breaks it.
TakenIsProcessed ==
    \A t \in Messages : timer[t] \in {"cancelled", "closed"} => batch[t] = {}

\* The chat's lock has one holder, and while it is held the buffer is what its
\* holder has read.
Exclusive ==
    /\ \A m, n \in Messages : add[m] \in Locked /\ add[n] \in Locked => m = n
    /\ \A m, t \in Messages : add[m] \in Locked => timer[t] # "popping"

Locals ==
    /\ \A m \in Messages :
          /\ add[m] \in {"read", "seizing"} => accumulated[m] = pending \cup {m}
          /\ add[m] = "stored" => accumulated[m] = pending /\ m \in pending
          /\ add[m] = "seizing" => active_timer = Nobody
          /\ timer[m] # "none" => add[m] = "returned"
    /\ \A t \in Messages :
          /\ timer[t] \in {"none", "sleeping"} => batch[t] = {}
          /\ timer[t] = "popping" => batch[t] = pending
          /\ timer[t] \in Armed => t \in pending

\* A message that was not stored is nowhere yet.
Fresh ==
    \A m \in Messages : add[m] \in {"new", "ignored", "read", "seizing"}
                          => m \notin pending \cup expired \cup AllTaken

\* The inductive invariant.
Inv ==
    /\ TypeOK
    /\ OneTimer
    /\ Exclusive
    /\ Locals
    /\ Fresh
    /\ Accounted
    /\ TimerHandsItsOwn

\* Debouncer as a mailbox.
Box == INSTANCE Mailbox WITH
    unread <- pending,
    batches <- ({TakenByAdd(m) : m \in Messages} \cup {TakenByTimer(t) : t \in Messages})
                 \ {{}}
MailboxSpec == Box!MailboxSpec
=============================================================================
