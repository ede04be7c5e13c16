------------------------------- MODULE Mailbox ------------------------------
(***************************************************************************)
(* What the message debouncer promises a chat: a message waits in the      *)
(* mailbox until everything that waits is taken at once, so no message is  *)
(* taken twice or taken out of its batch.  Only a restart may lose the     *)
(* mailbox.  Debouncer implements this specification.                      *)
(***************************************************************************)
CONSTANTS Messages

VARIABLES
    unread,     \* what waits
    batches     \* what was taken, batch by batch

mailboxVars == <<unread, batches>>

MailboxInit == unread = {} /\ batches = {}

Received == unread \cup UNION batches

Accept(m) ==
    /\ m \notin Received
    /\ unread' = unread \cup {m}
    /\ UNCHANGED batches

\* Everything is taken, with the message that caused it if there is one.
Take(more) ==
    /\ more \cap Received = {}
    /\ unread \cup more # {}
    /\ batches' = batches \cup {unread \cup more}
    /\ unread' = {}

Lose ==
    /\ unread' = {}
    /\ UNCHANGED batches

MailboxNext ==
    \/ \E m \in Messages : Accept(m) \/ Take({m})
    \/ Take({})
    \/ Lose

MailboxSpec == MailboxInit /\ [][MailboxNext]_mailboxVars
=============================================================================
