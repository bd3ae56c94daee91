----------------------------- MODULE RelaySend ------------------------------
(***************************************************************************)
(* relay.Service.Send (src/server/internal/relay/relay.go): the statements *)
(* one POST /messages/send runs against the database, interleaved with     *)
(* those of the other requests in flight.  Every statement is its own      *)
(* autocommit transaction, so every statement is an action here.           *)
(*                                                                         *)
(* A message stands for the request body and its X-Idempotency-Key; a      *)
(* client may issue any number of requests for one message, one after the  *)
(* other or at the same time (a retry after a timeout).  Send gives every  *)
(* request a fresh event id ("evt_" + uuid), so the request names it.      *)
(***************************************************************************)
CONSTANTS Messages,    \* the messages clients want delivered
          Requests,    \* the requests; also the event ids Send generates
          Keys,        \* idempotency keys
          KeyOf,       \* message -> its key, or NoKey
          RemoteMsgs,  \* messages whose recipient is on another domain
          NoKey,       \* header absent
          None

\* Keys are UUIDs the client draws per message.
ASSUME KeysAssumption ==
  /\ KeyOf \in [Messages -> Keys \cup {NoKey}]
  /\ NoKey \notin Keys
  /\ \A m, n \in Messages : KeyOf[m] = KeyOf[n] /\ KeyOf[m] # NoKey => m = n

ASSUME NoneAssumption == None \notin Messages \cup Requests

ASSUME RemoteAssumption == RemoteMsgs \subseteq Messages

\* What Send returns when it returns no stored event: its error values, and
\* "gone" for a request whose context was cancelled or whose server stopped.
Errors == {"ErrReplayTimestamp", "ErrRemoteRecipient", "ErrNotAllowed",
           "ErrDatabase", "gone"}

ASSUME ErrorsAssumption == Requests \cap Errors = {} /\ None \notin Errors

VARIABLES mq,         \* message_queue: event id -> message, or None
          idem,       \* idempotency_keys: key -> event id, or None
          pc,         \* request -> its next statement
          msg,        \* request -> the message it carries
          answer,     \* request -> what it was answered
          keyAtStart, \* request -> idem of its key when it began (history)
          window,     \* message -> its timestamp against the replay window
          allowed     \* messages the recipient check lets pass now

vars == <<mq, idem, pc, msg, answer, keyAtStart, window, allowed>>
env == <<window, allowed>>

Answered == {"done"}
InFlight == {"check", "lookup", "insert", "record"}

TypeOK ==
  /\ mq \in [Requests -> Messages \cup {None}]
  /\ idem \in [Keys -> Requests \cup {None}]
  /\ pc \in [Requests -> {"idle"} \cup InFlight \cup Answered]
  /\ msg \in [Requests -> Messages \cup {None}]
  /\ answer \in [Requests -> Requests \cup Errors \cup {None}]
  /\ keyAtStart \in [Requests -> Requests \cup {None}]
  /\ window \in [Messages -> {"early", "fresh", "stale"}]
  /\ allowed \subseteq Messages

Init ==
  /\ mq = [r \in Requests |-> None]
  /\ idem = [k \in Keys |-> None]
  /\ pc = [r \in Requests |-> "idle"]
  /\ msg = [r \in Requests |-> None]
  /\ answer = [r \in Requests |-> None]
  /\ keyAtStart = [r \in Requests |-> None]
  /\ window \in [Messages -> {"early", "fresh"}]
  /\ allowed \in SUBSET Messages

-----------------------------------------------------------------------------
Goto(r, label) == pc' = [pc EXCEPT ![r] = label]

Return(r, a) == Goto(r, "done") /\ answer' = [answer EXCEPT ![r] = a]

Keyed(r) == KeyOf[msg[r]] # NoKey

\* Send entered: replay window, then the recipient's domain.  A remote
\* recipient returns before the idempotency key is looked at.
Begin(r, m) ==
  /\ pc[r] = "idle"
  /\ msg' = [msg EXCEPT ![r] = m]
  /\ keyAtStart' = [keyAtStart EXCEPT ![r] = IF KeyOf[m] = NoKey THEN None
                                                            ELSE idem[KeyOf[m]]]
  /\ \/ /\ window[m] # "fresh"
        /\ Return(r, "ErrReplayTimestamp")
     \/ /\ window[m] = "fresh"
        /\ m \in RemoteMsgs
        /\ Return(r, "ErrRemoteRecipient")
     \/ /\ window[m] = "fresh"
        /\ m \notin RemoteMsgs
        /\ Goto(r, "check")
        /\ UNCHANGED answer
  /\ UNCHANGED <<mq, idem, env>>

\* IsMember for a room, SELECT EXISTS on users for a direct message.
CheckRecipient(r) ==
  /\ pc[r] = "check"
  /\ \/ /\ msg[r] \notin allowed
        /\ Return(r, "ErrNotAllowed")
     \/ /\ msg[r] \in allowed
        /\ Goto(r, IF Keyed(r) THEN "lookup" ELSE "insert")
        /\ UNCHANGED answer
  /\ UNCHANGED <<mq, idem, msg, keyAtStart, env>>

\* Variant: the key is claimed when it is looked up, before the row exists.
LookupKeyClaims(r) ==
  /\ pc[r] = "lookup"
  /\ LET existing == idem[KeyOf[msg[r]]] IN
       \/ existing # None /\ Return(r, existing) /\ UNCHANGED idem
       \/ /\ existing = None
          /\ Goto(r, "insert")
          /\ idem' = [idem EXCEPT ![KeyOf[msg[r]]] = r]
          /\ UNCHANGED answer
  /\ UNCHANGED <<mq, msg, keyAtStart, env>>

\* Variant: the event found is not returned.
LookupKeyFallsThrough(r) ==
  /\ pc[r] = "lookup"
  /\ Goto(r, "insert")
  /\ UNCHANGED <<mq, idem, msg, answer, keyAtStart, env>>

\* SELECT event_id FROM idempotency_keys
LookupKey(r) ==
  /\ pc[r] = "lookup"
  /\ LET existing == idem[KeyOf[msg[r]]] IN
       \/ existing # None /\ Return(r, existing)
       \/ existing = None /\ Goto(r, "insert") /\ UNCHANGED answer
  /\ UNCHANGED <<mq, idem, msg, keyAtStart, env>>

\* Variant: the error of the INSERT is discarded like that of RecordKey.
InsertMessageUnchecked(r) ==
  /\ pc[r] = "insert"
  /\ \/ mq' = [mq EXCEPT ![r] = msg[r]]
     \/ UNCHANGED mq
  /\ \/ Keyed(r) /\ Goto(r, "record") /\ UNCHANGED answer
     \/ ~Keyed(r) /\ Return(r, r)
  /\ UNCHANGED <<idem, msg, keyAtStart, env>>

\* INSERT INTO message_queue, under the request's own fresh event id.  The
\* row may be committed and the statement still return an error.
InsertMessage(r) ==
  /\ pc[r] = "insert"
  /\ mq' = [mq EXCEPT ![r] = msg[r]]
  /\ \/ Keyed(r) /\ Goto(r, "record") /\ UNCHANGED answer
     \/ ~Keyed(r) /\ Return(r, r)
     \/ Return(r, "ErrDatabase")
  /\ UNCHANGED <<idem, msg, keyAtStart, env>>

\* Variant: the columns of the INSERT are swapped.
RecordKeySwapped(r) ==
  /\ pc[r] = "record"
  /\ idem' = [idem EXCEPT ![KeyOf[msg[r]]] = KeyOf[msg[r]]]
  /\ Return(r, r)
  /\ UNCHANGED <<mq, msg, keyAtStart, env>>

\* INSERT INTO idempotency_keys; its error (the key exists, or the database
\* refuses) is discarded and the request is answered with its own event id.
RecordKey(r) ==
  /\ pc[r] = "record"
  /\ \/ /\ idem[KeyOf[msg[r]]] = None
        /\ idem' = [idem EXCEPT ![KeyOf[msg[r]]] = r]
     \/ UNCHANGED idem
  /\ Return(r, r)
  /\ UNCHANGED <<mq, msg, keyAtStart, env>>

\* The client disconnects (the request context is cancelled), the server
\* stops, or a statement before the insert's commit returns an error.
Abort(r) ==
  /\ pc[r] \in InFlight
  /\ \/ Return(r, "gone")
     \/ pc[r] # "record" /\ Return(r, "ErrDatabase")
  /\ UNCHANGED <<mq, idem, msg, keyAtStart, env>>

-----------------------------------------------------------------------------
\* The environment: the clock, and memberships and accounts that change.
Age(m) ==
  /\ \/ window[m] = "early" /\ window' = [window EXCEPT ![m] = "fresh"]
     \/ window[m] = "fresh" /\ window' = [window EXCEPT ![m] = "stale"]
  /\ UNCHANGED <<mq, idem, pc, msg, answer, keyAtStart, allowed>>

RecipientChanges(m) ==
  /\ \/ m \in allowed /\ allowed' = allowed \ {m}
     \/ m \notin allowed /\ allowed' = allowed \cup {m}
  /\ UNCHANGED <<mq, idem, pc, msg, answer, keyAtStart, window>>

Send(r) ==
  \/ \E m \in Messages : Begin(r, m)
  \/ CheckRecipient(r)
  \/ LookupKey(r)
  \/ InsertMessage(r)
  \/ RecordKey(r)
  \/ Abort(r)

Next ==
  \/ \E r \in Requests : Send(r)
  \/ \E m \in Messages : Age(m) \/ RecipientChanges(m)

Spec == Init /\ [][Next]_vars

-----------------------------------------------------------------------------
\* Every key of idempotency_keys names a row of message_queue that holds the
\* message of that key: the row is inserted before the key is.
KeyNamesItsMessage ==
  \A k \in Keys : idem[k] # None =>
    /\ mq[idem[k]] # None
    /\ KeyOf[mq[idem[k]]] = k

\* A request answered with an event id (202 Accepted) was answered with the
\* id of a row that holds exactly the message it carried, whichever request
\* of that message stored it.
AcceptedIsStored ==
  \A r \in Requests : answer[r] \in Requests => mq[answer[r]] = msg[r]

\* A retry that begins after the key was recorded stores nothing and, if it
\* is accepted at all, is answered with the recorded event id, whatever else
\* is in flight.
RetryIsIdempotent ==
  \A r \in Requests : keyAtStart[r] # None =>
    /\ mq[r] = None
    /\ answer[r] \in Requests => answer[r] = keyAtStart[r]

\* What Send does is an at-least-once outbox.
OutboxStored == {mq[r] : r \in {q \in Requests : mq[q] # None}}
OutboxAcked == {msg[r] : r \in {q \in Requests : answer[q] \in Requests}}
Promise == INSTANCE Outbox WITH stored <- OutboxStored, acked <- OutboxAcked

ImplementsOutbox == Promise!Spec
=============================================================================
