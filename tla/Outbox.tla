------------------------------- MODULE Outbox -------------------------------
(***************************************************************************)
(* What the message relay promises to a sending client, as an abstract     *)
(* specification: a message that is acknowledged is already in the queue   *)
(* (at-least-once), and neither fact is ever taken back.  It says nothing  *)
(* about how often a message is queued: see RelaySend for what the code    *)
(* does there.                                                             *)
(***************************************************************************)
CONSTANT Messages      \* what clients want delivered

VARIABLES stored,      \* the messages with at least one row in message_queue
          acked        \* the messages some request was answered 202 for

vars == <<stored, acked>>

TypeOK == stored \subseteq Messages /\ acked \subseteq Messages

Init == stored = {} /\ acked = {}

Store(m) == stored' = stored \cup {m} /\ UNCHANGED acked

Ack(m) == m \in stored /\ acked' = acked \cup {m} /\ UNCHANGED stored

StoreAndAck(m) == stored' = stored \cup {m} /\ acked' = acked \cup {m}

Next == \E m \in Messages : Store(m) \/ Ack(m) \/ StoreAndAck(m)

Spec == Init /\ [][Next]_vars
=============================================================================
