--------------------------- MODULE MessagingProofs --------------------------
(***************************************************************************)
(* Proofs about three parts of messaging: sending (RelaySend), the rooms   *)
(* (Rooms) and the hub that tells connections of news (Hub).  They share   *)
(* neither state nor constants.                                            *)
(***************************************************************************)
EXTENDS RelaySend, Rooms, Hub, FiniteSets, FiniteSetTheorems, TLAPS

-----------------------------------------------------------------------------
(***************************************************************************)
(* RelaySend, for every set of messages, requests and keys.                *)
(*                                                                         *)
(* Its three invariants are not inductive by themselves.  IInv adds what   *)
(* ties a request to its row: a row holds the message of the request it    *)
(* is named after (RowsAreOwn), a request that has not reached the insert  *)
(* has no row and one past it has (Progress), and a request that began     *)
(* after its key was recorded still finds that key and never gets as far   *)
(* as the insert (Retries).                                                *)
(***************************************************************************)


\* A request that has begun carries a message; one that has not did nothing.
Started ==
  \A r \in Requests :
    IF pc[r] = "idle"
    THEN mq[r] = None /\ answer[r] = None /\ keyAtStart[r] = None
    ELSE msg[r] \in Messages

\* The row of event id r, if there is one, holds the message of request r.
RowsAreOwn == \A r \in Requests : mq[r] # None => mq[r] = msg[r]

\* How far a request came and what it has done by then.
Progress ==
  \A r \in Requests :
    /\ pc[r] = "lookup" => Keyed(r)
    /\ pc[r] = "record" => Keyed(r) /\ mq[r] = msg[r]
    /\ pc[r] # "done" => answer[r] = None

\* A request that found its key recorded when it began finds it later too.
Retries ==
  \A r \in Requests : keyAtStart[r] # None =>
    /\ Keyed(r)
    /\ idem[KeyOf[msg[r]]] = keyAtStart[r]
    /\ pc[r] \notin {"insert", "record"}

IInv == /\ TypeOK /\ Started /\ RowsAreOwn /\ Progress /\ Retries
        /\ KeyNamesItsMessage /\ AcceptedIsStored /\ RetryIsIdempotent

\* The constants, as the proofs use them.
LEMMA Constants ==
  /\ None \notin Messages /\ None \notin Requests
  /\ \A e \in Errors : e \notin Requests /\ e # None
  /\ NoKey \notin Keys
  /\ \A m \in Messages : KeyOf[m] \in Keys \cup {NoKey}
  /\ \A m, n \in Messages : KeyOf[m] = KeyOf[n] /\ KeyOf[m] # NoKey => m = n
BY KeysAssumption, NoneAssumption, ErrorsAssumption

\* No error value is an event id or None.
LEMMA ErrorsNotIds ==
  \A e \in {"ErrReplayTimestamp", "ErrRemoteRecipient", "ErrNotAllowed", "ErrDatabase", "gone"} :
    e \in Errors /\ e \notin Requests
BY Constants DEF Errors

\* The inductive invariant holds before the first request.
LEMMA InitIInv == Init => IInv
BY Constants
DEF Init, IInv, TypeOK, Started, RowsAreOwn, Progress, Retries, Keyed,
    KeyNamesItsMessage, AcceptedIsStored, RetryIsIdempotent, Answered, InFlight

\* Type correctness is kept by every step of a request and of its environment.
LEMMA TypeStep == IInv /\ [Next]_vars => TypeOK'
<1> SUFFICES ASSUME IInv, [Next]_vars PROVE TypeOK'
  OBVIOUS
<1> USE Constants, ErrorsNotIds DEF IInv, TypeOK, Answered, InFlight
<1>1. ASSUME NEW r \in Requests, NEW m \in Messages, Begin(r, m) PROVE TypeOK'
  BY <1>1 DEF Begin, Return, Goto, env
<1>2. ASSUME NEW r \in Requests, CheckRecipient(r) PROVE TypeOK'
  BY <1>2 DEF CheckRecipient, Return, Goto, env
<1>3. ASSUME NEW r \in Requests, LookupKey(r) PROVE TypeOK'
  <2>1. msg[r] \in Messages /\ KeyOf[msg[r]] \in Keys
    BY <1>3 DEF LookupKey, Started, Progress, Keyed
  <2> QED BY <1>3, <2>1 DEF LookupKey, Return, Goto, env
<1>4. ASSUME NEW r \in Requests, InsertMessage(r) PROVE TypeOK'
  BY <1>4 DEF InsertMessage, Return, Goto, env
<1>5. ASSUME NEW r \in Requests, RecordKey(r) PROVE TypeOK'
  BY <1>5 DEF RecordKey, Return, Goto, env
<1>6. ASSUME NEW r \in Requests, Abort(r) PROVE TypeOK'
  BY <1>6 DEF Abort, Return, Goto, env
<1>7. ASSUME NEW m \in Messages, Age(m) PROVE TypeOK'
  BY <1>7 DEF Age
<1>8. ASSUME NEW m \in Messages, RecipientChanges(m) PROVE TypeOK'
  BY <1>8 DEF RecipientChanges
<1>9. CASE UNCHANGED vars
  BY <1>9 DEF vars
<1> QED BY <1>1, <1>2, <1>3, <1>4, <1>5, <1>6, <1>7, <1>8, <1>9 DEF Next, Send

\* The rest of the invariant, action by action.
Linked == /\ Started /\ RowsAreOwn /\ Progress /\ Retries
        /\ KeyNamesItsMessage /\ AcceptedIsStored /\ RetryIsIdempotent

\* A request that begins.
LEMMA BeginStep ==
  ASSUME IInv, NEW r \in Requests, NEW m \in Messages, Begin(r, m)
  PROVE  Linked'
<1> USE Constants, ErrorsNotIds DEF IInv, TypeOK, Begin, Return, Goto, Keyed
<1>1. mq[r] = None /\ answer[r] = None /\ keyAtStart[r] = None
  BY DEF Started
<1>2. msg' = [msg EXCEPT ![r] = m] /\ mq' = mq /\ idem' = idem
  OBVIOUS
<1>3. answer'[r] \notin Requests /\ \A q \in Requests \ {r} : answer'[q] = answer[q]
  BY <1>1
<1>4. pc'[r] \in {"check", "done"} /\ (pc'[r] = "check" => answer'[r] = None)
  BY <1>1
<1>5. \A q \in Requests \ {r} : pc'[q] = pc[q] /\ msg'[q] = msg[q] /\ keyAtStart'[q] = keyAtStart[q]
  OBVIOUS
<1>6. Started' /\ RowsAreOwn'
  BY <1>1, <1>2, <1>3, <1>4, <1>5 DEF Started, RowsAreOwn
<1>7. Progress'
  BY <1>1, <1>2, <1>3, <1>4, <1>5 DEF Progress
<1>8. keyAtStart'[r] # None => KeyOf[m] # NoKey /\ idem[KeyOf[m]] = keyAtStart'[r]
  OBVIOUS
<1>9. Retries'
  BY <1>2, <1>4, <1>5, <1>8 DEF Retries
<1>10. KeyNamesItsMessage'
  BY <1>2 DEF KeyNamesItsMessage
<1>11. AcceptedIsStored'
  BY <1>2, <1>3, <1>5 DEF AcceptedIsStored
<1>12. RetryIsIdempotent'
  BY <1>1, <1>2, <1>3, <1>5 DEF RetryIsIdempotent
<1> QED BY <1>6, <1>7, <1>9, <1>10, <1>11, <1>12 DEF Linked

\* A step of request r that writes nothing and answers, if it answers, with an
\* error.
LEMMA QuietStep ==
  ASSUME IInv, NEW r \in Requests, pc[r] # "idle",
         UNCHANGED <<mq, idem, msg, keyAtStart>>,
         NEW l \in {"lookup", "insert", "done"}, pc' = [pc EXCEPT ![r] = l],
         \/ l # "done" /\ pc[r] # "done" /\ answer' = answer
         \/ \E e \in Errors : l = "done" /\ answer' = [answer EXCEPT ![r] = e],
         l = "lookup" => Keyed(r),
         l = "insert" => keyAtStart[r] = None
  PROVE  Linked'
<1> USE Constants DEF IInv, TypeOK, Keyed
<1>1. pc'[r] = l /\ \A q \in Requests \ {r} : pc'[q] = pc[q] /\ answer'[q] = answer[q]
  OBVIOUS
<1>2. answer'[r] \in Requests => answer'[r] = answer[r]
  OBVIOUS
<1>3. l # "done" => answer'[r] = None
  BY DEF Progress
<1>4. Started' /\ RowsAreOwn'
  BY <1>1 DEF Started, RowsAreOwn
<1>5. Progress'
  BY <1>1, <1>3 DEF Progress
<1>6. Retries'
  BY <1>1 DEF Retries
<1>7. KeyNamesItsMessage'
  BY DEF KeyNamesItsMessage
<1>8. AcceptedIsStored' /\ RetryIsIdempotent'
  BY <1>1, <1>2 DEF AcceptedIsStored, RetryIsIdempotent
<1> QED BY <1>4, <1>5, <1>6, <1>7, <1>8 DEF Linked

\* The recipient check: refused, or on to the lookup or the insert.
LEMMA CheckStep ==
  ASSUME IInv, NEW r \in Requests, CheckRecipient(r)
  PROVE  Linked'
<1>1. pc[r] = "check" /\ UNCHANGED <<mq, idem, msg, keyAtStart>>
  BY DEF CheckRecipient
<1>2. CASE Return(r, "ErrNotAllowed")
  BY <1>1, <1>2, QuietStep, ErrorsNotIds DEF Return, Goto
<1>3. CASE Goto(r, IF Keyed(r) THEN "lookup" ELSE "insert") /\ UNCHANGED answer
  <2>1. ~Keyed(r) => keyAtStart[r] = None
    BY DEF IInv, Retries
  <2>2. CASE Keyed(r)
    BY <1>1, <1>3, <2>2, QuietStep DEF Goto
  <2>3. CASE ~Keyed(r)
    BY <1>1, <1>3, <2>1, <2>3, QuietStep DEF Goto
  <2> QED BY <2>2, <2>3
<1> QED BY <1>2, <1>3 DEF CheckRecipient

\* A request that is cancelled or fails before its insert.
LEMMA AbortStep ==
  ASSUME IInv, NEW r \in Requests, Abort(r)
  PROVE  Linked'
<1>1. pc[r] # "idle" /\ UNCHANGED <<mq, idem, msg, keyAtStart>>
  BY DEF Abort, InFlight
<1>2. \E e \in Errors : Return(r, e)
  BY ErrorsNotIds DEF Abort
<1> QED BY <1>1, <1>2, QuietStep DEF Return, Goto

\* A lookup answers with the row that holds the request's own message, because
\* no two messages share a key.
LEMMA LookupStep ==
  ASSUME IInv, NEW r \in Requests, LookupKey(r)
  PROVE  Linked'
<1> DEFINE k == KeyOf[msg[r]]
<1>1. pc[r] = "lookup" /\ UNCHANGED <<mq, idem, msg, keyAtStart>>
  BY DEF LookupKey
<1>2. msg[r] \in Messages /\ k \in Keys
  BY <1>1, Constants DEF IInv, Started, Progress, Keyed
<1>3. CASE idem[k] = None /\ Goto(r, "insert") /\ UNCHANGED answer
  <2>1. keyAtStart[r] = None
    BY <1>3 DEF IInv, Retries
  <2> QED BY <1>1, <1>3, <2>1, QuietStep DEF Goto
<1>4. CASE idem[k] # None /\ Return(r, idem[k])
  <2>1. idem[k] \in Requests
    BY <1>2, <1>4 DEF IInv, TypeOK
  <2>2. mq[idem[k]] = msg[r]
    <3>1. mq[idem[k]] \in Messages /\ KeyOf[mq[idem[k]]] = k
      BY <1>2, <1>4, <2>1 DEF IInv, TypeOK, KeyNamesItsMessage
    <3> QED BY <1>2, <3>1, Constants
  <2>3. pc' = [pc EXCEPT ![r] = "done"] /\ answer' = [answer EXCEPT ![r] = idem[k]]
    BY <1>4 DEF Return, Goto
  <2> HIDE DEF k
  <2> USE <1>1, <2>1, <2>2, <2>3 DEF IInv, TypeOK
  <2>4. Started' /\ RowsAreOwn' /\ KeyNamesItsMessage'
    BY DEF Started, RowsAreOwn, KeyNamesItsMessage
  <2>5. Progress'
    BY DEF Progress, Keyed
  <2>6. Retries'
    BY DEF Retries, Keyed
  <2>7. AcceptedIsStored'
    BY DEF AcceptedIsStored
  <2>8. RetryIsIdempotent'
    BY DEF RetryIsIdempotent, Retries, k
  <2> QED BY <2>4, <2>5, <2>6, <2>7, <2>8 DEF Linked
<1> QED BY <1>3, <1>4 DEF LookupKey

\* The insert fills the row that has the request's own event id; a request whose
\* key was recorded when it began does not come here.
LEMMA InsertStep ==
  ASSUME IInv, NEW r \in Requests, InsertMessage(r)
  PROVE  Linked'
<1> USE Constants, ErrorsNotIds DEF IInv, TypeOK
<1>1. pc[r] = "insert" /\ keyAtStart[r] = None /\ answer[r] = None /\ msg[r] \in Messages
  BY DEF InsertMessage, Started, Progress, Retries
<1>2. mq' = [mq EXCEPT ![r] = msg[r]] /\ UNCHANGED <<idem, msg, keyAtStart>>
  BY DEF InsertMessage
<1>3. pc'[r] \in {"record", "done"} /\ (pc'[r] = "record" => Keyed(r) /\ answer'[r] = None)
  BY <1>1 DEF InsertMessage, Return, Goto
<1>4. \A q \in Requests \ {r} : pc'[q] = pc[q] /\ answer'[q] = answer[q]
  BY DEF InsertMessage, Return, Goto
<1>5. answer'[r] \in Requests => answer'[r] = r
  BY <1>1 DEF InsertMessage, Return, Goto
<1>6. Started' /\ RowsAreOwn'
  BY <1>1, <1>2, <1>3, <1>4 DEF Started, RowsAreOwn
<1>7. Progress'
  BY <1>1, <1>2, <1>3, <1>4 DEF Progress, Keyed
<1>8. Retries'
  BY <1>1, <1>2, <1>4 DEF Retries, Keyed
<1>9. \A q \in Requests : mq[q] # None => mq'[q] = mq[q]
  BY <1>2 DEF RowsAreOwn
<1>10. KeyNamesItsMessage'
  BY <1>2, <1>9 DEF KeyNamesItsMessage
<1>11. \A q \in Requests : answer[q] \in Requests => mq[answer[q]] # None
  BY DEF AcceptedIsStored, Started, Progress
<1>12. AcceptedIsStored'
  BY <1>2, <1>4, <1>5, <1>9, <1>11 DEF AcceptedIsStored
<1>13. RetryIsIdempotent'
  BY <1>1, <1>2, <1>4 DEF RetryIsIdempotent
<1> QED BY <1>6, <1>7, <1>8, <1>10, <1>12, <1>13 DEF Linked

\* The key is recorded for a row that is there, and never changes afterwards.
LEMMA RecordStep ==
  ASSUME IInv, NEW r \in Requests, RecordKey(r)
  PROVE  Linked'
<1> DEFINE k == KeyOf[msg[r]]
<1> USE Constants DEF IInv, TypeOK
<1>1. pc[r] = "record" /\ keyAtStart[r] = None /\ msg[r] \in Messages
        /\ k \in Keys /\ mq[r] = msg[r]
  BY DEF RecordKey, Started, Progress, Retries, Keyed
<1>2. UNCHANGED <<mq, msg, keyAtStart>> /\ pc' = [pc EXCEPT ![r] = "done"]
        /\ answer' = [answer EXCEPT ![r] = r]
  BY DEF RecordKey, Return, Goto
<1>3. idem' = idem \/ (idem[k] = None /\ idem' = [idem EXCEPT ![k] = r])
  BY DEF RecordKey
<1>4. \A j \in Keys : idem[j] # None => idem'[j] = idem[j]
  BY <1>3
<1>5. Started' /\ RowsAreOwn'
  BY <1>1, <1>2 DEF Started, RowsAreOwn
<1>6. Progress'
  BY <1>2 DEF Progress, Keyed
<1>7. Retries'
  <2> SUFFICES ASSUME NEW q \in Requests, keyAtStart'[q] # None
               PROVE  Keyed(q)' /\ idem'[KeyOf[msg'[q]]] = keyAtStart'[q]
                        /\ pc'[q] \notin {"insert", "record"}
    BY DEF Retries
  <2>1. q # r /\ Keyed(q) /\ idem[KeyOf[msg[q]]] = keyAtStart[q]
          /\ pc[q] \notin {"insert", "record"} /\ pc[q] # "idle"
    BY <1>1, <1>2 DEF Retries, Started
  <2>2. KeyOf[msg[q]] \in Keys
    BY <2>1 DEF Started, Keyed
  <2> QED BY <1>2, <1>4, <2>1, <2>2 DEF Keyed
<1>8. KeyNamesItsMessage'
  BY <1>1, <1>2, <1>3 DEF KeyNamesItsMessage
<1>9. AcceptedIsStored'
  BY <1>1, <1>2 DEF AcceptedIsStored
<1>10. RetryIsIdempotent'
  BY <1>1, <1>2 DEF RetryIsIdempotent
<1> QED BY <1>5, <1>6, <1>7, <1>8, <1>9, <1>10 DEF Linked

\* IInv is inductive.
LEMMA NextIInv == IInv /\ [Next]_vars => IInv'
<1> SUFFICES ASSUME IInv, [Next]_vars PROVE Linked'
  BY TypeStep DEF IInv, Linked
<1>1. CASE \E m \in Messages : Age(m) \/ RecipientChanges(m)
  <2>1. UNCHANGED <<mq, idem, pc, msg, answer, keyAtStart>>
    BY <1>1 DEF Age, RecipientChanges
  <2> QED BY <2>1 DEF IInv, Linked, Started, RowsAreOwn, Progress, Retries, Keyed,
                      KeyNamesItsMessage, AcceptedIsStored, RetryIsIdempotent
<1>2. CASE UNCHANGED vars
  BY <1>2 DEF vars, IInv, Linked, Started, RowsAreOwn, Progress, Retries, Keyed,
              KeyNamesItsMessage, AcceptedIsStored, RetryIsIdempotent
<1> QED BY <1>1, <1>2, BeginStep, CheckStep, LookupStep, InsertStep, RecordStep,
           AbortStep DEF Next, Send

\* The inductive invariant holds in every reachable state of relay.Send.
THEOREM Invariance == Spec => []IInv
BY InitIInv, NextIInv, PTL DEF Spec

\* Type correctness.
THEOREM TypeCorrect == Spec => []TypeOK
<1>1. IInv => TypeOK
  BY DEF IInv
<1> QED BY Invariance, <1>1, PTL

\* A recorded key always names a queued row that holds the message of the key.
THEOREM KeysNameRows == Spec => []KeyNamesItsMessage
<1>1. IInv => KeyNamesItsMessage
  BY DEF IInv
<1> QED BY Invariance, <1>1, PTL

\* 202 Accepted means that the message is in the queue under the event id of
\* the answer, for any number of concurrent requests and retries.
THEOREM AcceptedMeansStored == Spec => []AcceptedIsStored
<1>1. IInv => AcceptedIsStored
  BY DEF IInv
<1> QED BY Invariance, <1>1, PTL

\* A retry that begins after the key was recorded stores nothing again.
THEOREM RetriesAreIdempotent == Spec => []RetryIsIdempotent
<1>1. IInv => RetryIsIdempotent
  BY DEF IInv
<1> QED BY Invariance, <1>1, PTL

-----------------------------------------------------------------------------
\* Every step of relay.Send is a step of the at-least-once outbox: it stores a
\* message, acknowledges a stored one, does both, or neither.
LEMMA StepSimulation == IInv /\ IInv' /\ [Next]_vars => [Promise!Next]_(Promise!vars)
<1> SUFFICES ASSUME IInv, IInv', [Next]_vars
             PROVE  [Promise!Next]_(Promise!vars)
  OBVIOUS
<1> USE Constants, ErrorsNotIds DEF IInv, TypeOK
<1> DEFINE Quiet == UNCHANGED <<OutboxStored, OutboxAcked>>
<1>1. ASSUME NEW r \in Requests, mq' = mq,
             \A q \in Requests \ {r} : answer'[q] = answer[q] /\ msg'[q] = msg[q],
             answer[r] \notin Requests, answer'[r] \notin Requests
      PROVE  Quiet
  <2>1. OutboxStored' = OutboxStored
    BY <1>1 DEF OutboxStored
  <2>2. OutboxAcked' = OutboxAcked
    BY <1>1 DEF OutboxAcked
  <2> QED BY <2>1, <2>2
<1>2. ASSUME NEW r \in Requests, msg[r] \in Messages, UNCHANGED msg,
             answer' = [answer EXCEPT ![r] = answer'[r]], answer'[r] \in Requests
      PROVE  OutboxAcked' = OutboxAcked \cup {msg[r]}
  BY <1>2 DEF OutboxAcked, Progress
<1>3. ASSUME NEW r \in Requests, NEW m \in Messages, Begin(r, m) PROVE Quiet
  <2>1. answer[r] = None
    BY <1>3 DEF Begin, Started
  <2> QED BY <1>1, <1>3, <2>1 DEF Begin, Return, Goto
<1>4. ASSUME NEW r \in Requests, CheckRecipient(r) PROVE Quiet
  <2>1. answer[r] = None
    BY <1>4 DEF CheckRecipient, Progress
  <2> QED BY <1>1, <1>4, <2>1 DEF CheckRecipient, Return, Goto
<1>5. ASSUME NEW r \in Requests, Abort(r) PROVE Quiet
  <2>1. answer[r] = None
    BY <1>5 DEF Abort, Progress, InFlight
  <2> QED BY <1>1, <1>5, <2>1 DEF Abort, Return, Goto
<1>6. ASSUME NEW r \in Requests, UNCHANGED <<mq, msg>>, msg[r] \in Messages,
             answer' = [answer EXCEPT ![r] = answer'[r]], answer'[r] \in Requests
      PROVE  Promise!Ack(msg[r])
  <2>1. mq'[answer'[r]] = msg'[r]
    BY <1>6 DEF AcceptedIsStored
  <2>2. msg[r] \in OutboxStored
    BY <1>6, <2>1 DEF OutboxStored
  <2>3. OutboxStored' = OutboxStored
    BY <1>6 DEF OutboxStored
  <2>4. OutboxAcked' = OutboxAcked \cup {msg[r]}
    BY <1>2, <1>6
  <2> QED BY <2>2, <2>3, <2>4 DEF Promise!Ack
<1>7. ASSUME NEW r \in Requests, LookupKey(r) PROVE Quiet \/ \E m \in Messages : Promise!Ack(m)
  <2>1. answer[r] = None /\ msg[r] \in Messages /\ UNCHANGED <<mq, msg>>
    BY <1>7 DEF LookupKey, Progress, Started
  <2>2. CASE UNCHANGED answer
    BY <1>1, <2>1, <2>2
  <2>3. CASE \E e \in Requests : answer' = [answer EXCEPT ![r] = e]
    <3>1. answer' = [answer EXCEPT ![r] = answer'[r]] /\ answer'[r] \in Requests
      BY <2>3
    <3> QED BY <1>6, <2>1, <3>1
  <2>4. KeyOf[msg[r]] \in Keys
    BY <1>7, <2>1 DEF LookupKey, Progress, Keyed
  <2> QED BY <1>7, <2>2, <2>3, <2>4 DEF LookupKey, Return
<1>8. ASSUME NEW r \in Requests, RecordKey(r) PROVE \E m \in Messages : Promise!Ack(m)
  <2>1. msg[r] \in Messages /\ UNCHANGED <<mq, msg>>
    BY <1>8 DEF RecordKey, Started
  <2>2. answer' = [answer EXCEPT ![r] = answer'[r]] /\ answer'[r] \in Requests
    BY <1>8 DEF RecordKey, Return
  <2> QED BY <1>6, <2>1, <2>2
<1>9. ASSUME NEW r \in Requests, InsertMessage(r)
      PROVE  \E m \in Messages : Promise!Store(m) \/ Promise!StoreAndAck(m)
  <2>1. answer[r] = None /\ msg[r] \in Messages /\ UNCHANGED msg
    BY <1>9 DEF InsertMessage, Progress, Started
  <2>2. mq' = [mq EXCEPT ![r] = msg[r]]
    BY <1>9 DEF InsertMessage
  <2>3. OutboxStored' = OutboxStored \cup {msg[r]}
    BY <2>1, <2>2 DEF OutboxStored, RowsAreOwn
  <2>4. CASE answer'[r] \notin Requests
    <3>1. \A q \in Requests \ {r} : answer'[q] = answer[q]
      BY <1>9 DEF InsertMessage, Return
    <3>2. OutboxAcked' = OutboxAcked
      BY <2>1, <2>4, <3>1 DEF OutboxAcked
    <3> QED BY <2>1, <2>3, <3>2 DEF Promise!Store
  <2>5. CASE answer'[r] \in Requests
    <3>1. answer' = [answer EXCEPT ![r] = answer'[r]]
      BY <1>9 DEF InsertMessage, Return
    <3>2. OutboxAcked' = OutboxAcked \cup {msg[r]}
      BY <1>2, <2>1, <2>5, <3>1
    <3> QED BY <2>1, <2>3, <3>2 DEF Promise!StoreAndAck
  <2> QED BY <2>4, <2>5
<1>10. CASE UNCHANGED <<mq, msg, answer>>
  BY <1>10 DEF OutboxStored, OutboxAcked, Promise!vars
<1>11. Quiet => UNCHANGED Promise!vars
  BY DEF Promise!vars
<1> QED BY <1>3, <1>4, <1>5, <1>7, <1>8, <1>9, <1>10, <1>11
        DEF Next, Send, vars, Age, RecipientChanges, Promise!Next

\* relay.Send implements the at-least-once outbox: a message it acknowledges is
\* in the queue, and neither fact is taken back.
THEOREM Refinement == Spec => ImplementsOutbox
<1>1. Init => Promise!Init
  BY Constants DEF Init, Promise!Init, OutboxStored, OutboxAcked
<1> QED BY <1>1, Invariance, StepSimulation, PTL DEF Spec, ImplementsOutbox, Promise!Spec

-----------------------------------------------------------------------------
(***************************************************************************)
(* Rooms, for any number of rooms, users and requests.                     *)
(*                                                                         *)
(* OneCreator is not inductive: what keeps it is what a request that was   *)
(* not overtaken still knows about the roles it has read.  RoomsInv says   *)
(* just that (Knows), and that a room is empty until its Create has ended  *)
(* (Creation).                                                             *)
(***************************************************************************)


\* A request in flight names its room and its users.
WellFormed ==
  \A q \in RoomRequests :
    /\ req[q] # Idle => req[q].op # "idle" /\ req[q].room \in RoomIds /\ req[q].actor \in Users
    /\ req[q] # Idle /\ req[q].op # "create" => req[q].target \in Users
    /\ req[q] = Idle => q \notin stale

\* Until its Create has ended a room has no members and one creating request.
Creation ==
  /\ \A r \in RoomIds : \A u \in Users : role[r][u] # "none" => r \in made
  /\ \A r \in made : creatorId[r] # NoUser
  /\ \A q \in RoomRequests : req[q].op \notin {"idle", "create"} => req[q].room \in made
  /\ \A q \in RoomRequests : req[q].op = "create" =>
       /\ req[q].room \notin made
       /\ creatorId[req[q].room] = req[q].actor
  /\ \A p, q \in RoomRequests :
       req[p].op = "create" /\ req[q].op = "create" /\ req[p].room = req[q].room => p = q

\* What a request that was not overtaken knows.
Knows(q) ==
  LET r == req[q].room  u == req[q].actor  v == req[q].target IN
    /\ req[q].op \in {"leave", "remove"} /\ req[q].pc = "write" =>
         role[r][v] \notin {"none", "creator"}
    /\ req[q].op = "transfer" => role[r][u] = "creator"
    /\ req[q].op = "transfer" /\ req[q].pc = "write" => u # v /\ role[r][v] # "none"

AllKnow == \A q \in RoomRequests \ stale : Knows(q)

RoomsInv == RoomsTypeOK /\ WellFormed /\ Creation /\ AllKnow /\ OneCreator

\* The idle slot is a request record.
LEMMA IdleType ==
  /\ Idle \in [op : Ops, pc : {"start", "target", "write"},
               room : RoomIds \cup {NoUser}, actor : Users \cup {NoUser},
               target : Users \cup {NoUser}, actorRole : Roles]
  /\ Idle.op = "idle" /\ Idle.room = NoUser
BY DEF Idle, Ops, Roles

\* The inductive invariant holds before the first request.
LEMMA InitRoomsInv == RoomsInit => RoomsInv
<1> SUFFICES ASSUME RoomsInit PROVE RoomsInv
  OBVIOUS
<1> USE IdleType DEF RoomsInit
<1>1. RoomsTypeOK
  BY DEF RoomsTypeOK, Roles
<1>2. WellFormed /\ Creation
  BY DEF WellFormed, Creation
<1>3. AllKnow /\ OneCreator
  BY DEF AllKnow, Knows, OneCreator
<1> QED BY <1>1, <1>2, <1>3 DEF RoomsInv

-----------------------------------------------------------------------------
RequestType == [op : Ops, pc : {"start", "target", "write"},
                room : RoomIds \cup {NoUser}, actor : Users \cup {NoUser},
                target : Users \cup {NoUser}, actorRole : Roles]

\* A request in flight, as the step proofs use it.
LEMMA RoomInFlight ==
  ASSUME RoomsTypeOK, WellFormed, NEW q \in RoomRequests, req[q].op # "idle"
  PROVE  /\ req[q] # Idle
         /\ req[q].room \in RoomIds /\ req[q].actor \in Users
         /\ req[q].op # "create" => req[q].target \in Users
BY IdleType DEF WellFormed

\* A request that ends leaves the others in flight as they were.
LEMMA Ended ==
  ASSUME RoomsTypeOK, NEW q \in RoomRequests, req' = [req EXCEPT ![q] = Idle]
  PROVE  /\ req' \in [RoomRequests -> RequestType]
         /\ req'[q] = Idle /\ req'[q].op = "idle"
         /\ \A p \in RoomRequests \ {q} : req'[p] = req[p]
BY IdleType DEF RoomsTypeOK, RequestType

\* Whoever a write of roles does not overtake knows what it knew.
LEMMA WriteKnow ==
  ASSUME RoomsInv, NEW q \in RoomRequests, req[q].op # "idle", Finish(q),
         role' \in [RoomIds -> [Users -> Roles]],
         \A r \in RoomIds \ {req[q].room} : role'[r] = role[r]
  PROVE  AllKnow'
<1> USE DEF RoomsInv
<1>1. /\ req'[q].op = "idle"
      /\ \A p \in RoomRequests \ {q} : req'[p] = req[p]
  BY Ended DEF Finish
<1> SUFFICES ASSUME NEW p \in RoomRequests, p \notin stale' PROVE Knows(p)'
  BY DEF AllKnow
<1>2. CASE p = q
  BY <1>1, <1>2 DEF Knows
<1>3. CASE p # q
  <2>1. req'[p] = req[p] /\ p \notin stale /\ p \notin Overtaken(q)
    BY <1>1, <1>3 DEF Finish
  <2>2. Knows(p)
    BY <2>1 DEF AllKnow
  <2>3. CASE req[p].op = "idle"
    BY <2>1, <2>3 DEF Knows
  <2>4. CASE req[p].op # "idle"
    <3>1. req[p].room \in RoomIds /\ req[p].actor \in Users
          /\ (req[p].op # "create" => req[p].target \in Users)
      BY <2>4, RoomInFlight
    <3>2. req[q].room \in RoomIds
      BY RoomInFlight
    <3>3. \A u \in {req[p].actor, req[p].target} \ {NoUser} :
            role'[req[p].room][u] = role[req[p].room][u]
      <4>1. CASE req[p].room = req[q].room
        BY <4>1, <1>3, <2>1 DEF Overtaken
      <4>2. CASE req[p].room # req[q].room
        BY <4>2, <3>1
      <4> QED BY <4>1, <4>2
    <3>4. role'[req[p].room][req[p].actor] = role[req[p].room][req[p].actor]
      BY <3>1, <3>3, NoUserAssumption
    <3>5. req[p].op # "create" =>
            role'[req[p].room][req[p].target] = role[req[p].room][req[p].target]
      BY <3>1, <3>3, NoUserAssumption
    <3> QED BY <2>1, <2>2, <3>4, <3>5 DEF Knows
  <2> QED BY <2>3, <2>4
<1> QED BY <1>2, <1>3

\* What every write keeps, once its effect on the tables is known.
LEMMA WriteShape ==
  ASSUME RoomsInv, NEW q \in RoomRequests, req[q].op # "idle", Finish(q),
         role' \in [RoomIds -> [Users -> Roles]],
         creatorId' \in [RoomIds -> Users \cup {NoUser}],
         made' \subseteq RoomIds
  PROVE  RoomsTypeOK' /\ WellFormed'
<1> USE DEF RoomsInv
<1>1. /\ req' \in [RoomRequests -> RequestType]
      /\ req'[q] = Idle
      /\ \A p \in RoomRequests \ {q} : req'[p] = req[p]
  BY Ended DEF Finish
<1>2. stale' \subseteq RoomRequests /\ raced' \subseteq RoomIds /\ q \notin stale'
  BY DEF Finish, Overtaken, RoomsTypeOK
<1>3. RoomsTypeOK'
  BY <1>1, <1>2 DEF RoomsTypeOK, RequestType
<1>4. \A p \in RoomRequests : req[p] = Idle => p \notin Overtaken(q)
  <2>1. req[q].room \in RoomIds
    BY RoomInFlight
  <2> QED BY <2>1, IdleType DEF Overtaken, Idle
<1>5. WellFormed'
  BY <1>1, <1>2, <1>4 DEF WellFormed, Finish
<1> QED BY <1>3, <1>5

-----------------------------------------------------------------------------
\* Steps that write no role.

\* CreateRoom starts a room nobody else is creating and leaves all others alone.
LEMMA StepCreateRoom ==
  ASSUME RoomsInv, NEW q \in RoomRequests, NEW r \in RoomIds, NEW u \in Users, CreateRoom(q, r, u)
  PROVE  RoomsInv'
<1> USE DEF RoomsInv
<1> DEFINE new == [Idle EXCEPT !.op = "create", !.pc = "write", !.room = r, !.actor = u]
<1>1. /\ new \in RequestType /\ new.op = "create" /\ new.pc = "write"
      /\ new.room = r /\ new.actor = u /\ new # Idle
  BY DEF Idle, Ops, Roles, RequestType
<1>2. /\ req' = [req EXCEPT ![q] = new] /\ req[q] = Idle
      /\ creatorId[r] = NoUser /\ creatorId' = [creatorId EXCEPT ![r] = u]
      /\ UNCHANGED <<role, made, stale, raced>>
  BY DEF CreateRoom
<1> HIDE DEF new
<1>3. /\ req' \in [RoomRequests -> RequestType] /\ req'[q] = new
      /\ \A p \in RoomRequests \ {q} : req'[p] = req[p]
  BY <1>1, <1>2 DEF RoomsTypeOK, RequestType
<1>4. RoomsTypeOK'
  BY <1>2, <1>3 DEF RoomsTypeOK, RequestType
<1>5. WellFormed'
  BY <1>1, <1>2, <1>3 DEF WellFormed
<1>6. r \notin made /\ \A p \in RoomRequests : req[p].op = "create" => req[p].room # r
  <2>1. r \notin made
    BY <1>2 DEF Creation
  <2>2. ASSUME NEW p \in RoomRequests, req[p].op = "create", req[p].room = r PROVE FALSE
    <3>1. creatorId[r] \in Users
      BY <2>2, RoomInFlight DEF Creation
    <3> QED BY <3>1, <1>2, NoUserAssumption
  <2> QED BY <2>1, <2>2
<1>7. \A s \in RoomIds \ {r} : creatorId'[s] = creatorId[s]
  BY <1>2 DEF RoomsTypeOK
<1>8. creatorId'[r] = u
  BY <1>2 DEF RoomsTypeOK
<1>9. Creation'
  <2>1. (\A s \in RoomIds : \A w \in Users : role[s][w] # "none" => s \in made)'
    BY <1>2 DEF Creation
  <2>2. (\A s \in made : creatorId[s] # NoUser)'
    BY <1>2, <1>6, <1>7 DEF Creation, RoomsTypeOK
  <2>3. (\A p \in RoomRequests : req[p].op \notin {"idle", "create"} => req[p].room \in made)'
    BY <1>1, <1>2, <1>3 DEF Creation
  <2>4. (\A p \in RoomRequests : req[p].op = "create" =>
           /\ req[p].room \notin made
           /\ creatorId[req[p].room] = req[p].actor)'
    <3> SUFFICES ASSUME NEW p \in RoomRequests, req'[p].op = "create"
                 PROVE  req'[p].room \notin made' /\ creatorId'[req'[p].room] = req'[p].actor
      OBVIOUS
    <3>1. CASE p = q
      BY <3>1, <1>1, <1>2, <1>3, <1>6, <1>8
    <3>2. CASE p # q
      <4>1. req'[p] = req[p] /\ req[p].op = "create" /\ req[p].room \in RoomIds \ {r}
        BY <3>2, <1>3, <1>6, RoomInFlight
      <4> QED BY <4>1, <1>2, <1>7 DEF Creation
    <3> QED BY <3>1, <3>2
  <2>5. (\A p, o \in RoomRequests : req[p].op = "create" /\ req[o].op = "create"
                                 /\ req[p].room = req[o].room => p = o)'
    BY <1>1, <1>3, <1>6 DEF Creation
  <2> QED BY <2>1, <2>2, <2>3, <2>4, <2>5 DEF Creation
<1>10. AllKnow'
  BY <1>1, <1>2, <1>3 DEF AllKnow, Knows
<1>11. OneCreator'
  <2> SUFFICES ASSUME NEW s \in made \ raced PROVE Creators(s)' = {creatorId'[s]}
    BY <1>2 DEF OneCreator
  <2>1. s \in RoomIds \ {r}
    BY <1>6 DEF RoomsTypeOK
  <2> QED BY <2>1, <1>2, <1>7 DEF OneCreator, Creators
<1> QED BY <1>4, <1>5, <1>9, <1>10, <1>11

\* A first check puts a request in flight; Knows must hold of it, and its room exists.
LEMMA StepEnter ==
  ASSUME RoomsInv, NEW q \in RoomRequests, NEW op \in {"invite", "leave", "remove", "transfer"},
         NEW step \in {"target", "write"}, NEW r \in RoomIds, NEW u \in Users, NEW v \in Users,
         role[r][u] # "none",
         Enter(q, op, step, r, u, v, role[r][u]),
         op = "leave" => role[r][v] \notin {"none", "creator"},
         op = "remove" => step = "target",
         op = "transfer" => step = "target" /\ role[r][u] = "creator"
  PROVE  RoomsInv'
<1> USE DEF RoomsInv
<1> DEFINE new == [op |-> op, pc |-> step, room |-> r, actor |-> u,
                   target |-> v, actorRole |-> role[r][u]]
<1>1. /\ new \in RequestType /\ new.op = op /\ new.pc = step
      /\ new.room = r /\ new.actor = u /\ new.target = v
  BY DEF Ops, RequestType, RoomsTypeOK
<1>2. /\ req' = [req EXCEPT ![q] = new] /\ req[q] = Idle
      /\ UNCHANGED <<creatorId, role, made, stale, raced>>
  BY DEF Enter
<1> HIDE DEF new
<1>3. /\ req' \in [RoomRequests -> RequestType] /\ req'[q] = new
      /\ \A p \in RoomRequests \ {q} : req'[p] = req[p]
  BY <1>1, <1>2 DEF RoomsTypeOK, RequestType
<1>4. RoomsTypeOK'
  BY <1>2, <1>3 DEF RoomsTypeOK, RequestType
<1>5. WellFormed'
  <2>1. new # Idle
    BY <1>1, IdleType
  <2> QED BY <1>1, <1>2, <1>3, <2>1 DEF WellFormed
<1>6. r \in made
  BY DEF Creation
<1>7. Creation'
  BY <1>1, <1>2, <1>3, <1>6 DEF Creation
<1>8. AllKnow'
  BY <1>1, <1>2, <1>3 DEF AllKnow, Knows
<1>9. OneCreator'
  BY <1>2 DEF OneCreator, Creators
<1> QED BY <1>4, <1>5, <1>7, <1>8, <1>9

\* A second check lets the request write.
LEMMA StepToWrite ==
  ASSUME RoomsInv, NEW q \in RoomRequests, RemoveCheckTarget(q) \/ TransferCheckTarget(q)
  PROVE  RoomsInv'
<1> USE DEF RoomsInv
<1>1. /\ req' = [req EXCEPT ![q].pc = "write"]
      /\ UNCHANGED <<creatorId, role, made, stale, raced>>
      /\ req[q].op \in {"remove", "transfer"} /\ req[q].pc = "target"
  BY DEF RemoveCheckTarget, TransferCheckTarget, ToWrite, Pending
<1>2. /\ req' \in [RoomRequests -> RequestType]
      /\ \A p \in RoomRequests \ {q} : req'[p] = req[p]
      /\ req'[q] = [req[q] EXCEPT !.pc = "write"]
  BY <1>1 DEF RoomsTypeOK, RequestType
<1>3. /\ req'[q].op = req[q].op /\ req'[q].room = req[q].room
      /\ req'[q].actor = req[q].actor /\ req'[q].target = req[q].target
      /\ req'[q].pc = "write"
  BY <1>2 DEF RoomsTypeOK
<1>4. RoomsTypeOK'
  BY <1>1, <1>2 DEF RoomsTypeOK, RequestType
<1>5. WellFormed'
  <2>1. req'[q] # Idle /\ req[q] # Idle
    BY <1>1, <1>3, IdleType
  <2> QED BY <1>1, <1>2, <1>3, <2>1 DEF WellFormed
<1>6. Creation'
  BY <1>1, <1>2, <1>3 DEF Creation
<1>7. AllKnow'
  <2> SUFFICES ASSUME NEW p \in RoomRequests, p \notin stale PROVE Knows(p)'
    BY <1>1 DEF AllKnow
  <2>1. Knows(p)
    BY DEF AllKnow
  <2>2. CASE p # q
    BY <2>1, <2>2, <1>1, <1>2 DEF Knows
  <2>3. CASE p = q /\ RemoveCheckTarget(q)
    BY <2>3, <1>1, <1>3 DEF Knows, RemoveCheckTarget, Pending
  <2>4. CASE p = q /\ TransferCheckTarget(q)
    BY <2>1, <2>4, <1>1, <1>3 DEF Knows, TransferCheckTarget, Pending
  <2> QED BY <2>2, <2>3, <2>4
<1>8. OneCreator'
  BY <1>1 DEF OneCreator, Creators
<1> QED BY <1>4, <1>5, <1>6, <1>7, <1>8

\* An interrupted request leaves the tables as they are.
LEMMA StepAbort ==
  ASSUME RoomsInv, NEW q \in RoomRequests, AbortRequest(q)
  PROVE  RoomsInv'
<1> USE DEF RoomsInv
<1>1. /\ req' = [req EXCEPT ![q] = Idle] /\ stale' = stale \ {q}
      /\ UNCHANGED <<creatorId, role, made, raced>>
  BY DEF AbortRequest
<1>2. /\ req' \in [RoomRequests -> RequestType]
      /\ req'[q] = Idle /\ req'[q].op = "idle"
      /\ \A p \in RoomRequests \ {q} : req'[p] = req[p]
  BY <1>1, Ended
<1>3. RoomsTypeOK'
  BY <1>1, <1>2 DEF RoomsTypeOK, RequestType
<1>4. WellFormed'
  BY <1>1, <1>2 DEF WellFormed
<1>5. Creation'
  BY <1>1, <1>2 DEF Creation
<1>6. AllKnow'
  BY <1>1, <1>2 DEF AllKnow, Knows
<1>7. OneCreator'
  BY <1>1 DEF OneCreator, Creators
<1> QED BY <1>3, <1>4, <1>5, <1>6, <1>7

-----------------------------------------------------------------------------
\* Steps that write roles.

\* AddCreator ends a Create: its room gets its one creator.
LEMMA StepAddCreator ==
  ASSUME RoomsInv, NEW q \in RoomRequests, AddCreator(q)
  PROVE  RoomsInv'
<1> USE DEF RoomsInv
<1> DEFINE r == req[q].room  u == req[q].actor
<1>1. /\ req[q].op = "create" /\ Finish(q) /\ creatorId' = creatorId
      /\ role' = [role EXCEPT ![r][u] = "creator"]
      /\ made' = made \cup {r}
  BY DEF AddCreator, Pending
<1>2. /\ r \in RoomIds /\ u \in Users /\ r \notin made /\ creatorId[r] = u
  BY <1>1, RoomInFlight DEF Creation
<1> HIDE DEF r, u
<1>3. /\ role' \in [RoomIds -> [Users -> Roles]]
      /\ \A s \in RoomIds \ {r} : role'[s] = role[s]
      /\ role'[r][u] = "creator"
      /\ \A w \in Users \ {u} : role'[r][w] = role[r][w]
  BY <1>1, <1>2 DEF RoomsTypeOK, Roles
<1>4. RoomsTypeOK' /\ WellFormed'
  BY <1>1, <1>2, <1>3, WriteShape DEF RoomsTypeOK
<1>5. AllKnow'
  BY <1>1, <1>3, WriteKnow DEF r
<1>6. /\ req'[q].op = "idle"
      /\ \A p \in RoomRequests \ {q} : req'[p] = req[p]
  BY <1>1, Ended DEF Finish
<1>7. \A p \in RoomRequests \ {q} : req[p].op = "create" => req[p].room # r
  BY <1>1 DEF Creation, r
<1>8. Creation'
  <2>1. (\A s \in RoomIds : \A w \in Users : role[s][w] # "none" => s \in made)'
    BY <1>1, <1>2, <1>3 DEF Creation
  <2>2. (\A s \in made : creatorId[s] # NoUser)'
    BY <1>1, <1>2, NoUserAssumption DEF Creation
  <2> QED BY <1>1, <1>6, <1>7, <2>1, <2>2 DEF Creation
<1>9. OneCreator'
  <2> SUFFICES ASSUME NEW s \in made' \ raced' PROVE Creators(s)' = {creatorId'[s]}
    BY DEF OneCreator
  <2>1. s \notin raced
    BY <1>1 DEF Finish
  <2>2. CASE s = r
    BY <2>2, <1>1, <1>2, <1>3 DEF Creators, Creation
  <2>3. CASE s # r
    <3>1. s \in made \ raced /\ s \in RoomIds
      BY <2>1, <2>3, <1>1 DEF RoomsTypeOK
    <3> QED BY <3>1, <2>3, <1>1, <1>3 DEF OneCreator, Creators
  <2> QED BY <2>2, <2>3
<1> QED BY <1>4, <1>5, <1>8, <1>9

\* A write of one member's row that makes and unmakes no creator, or that an
\* overtaken request makes.
LEMMA MemberWrite ==
  ASSUME RoomsInv, NEW q \in RoomRequests, Finish(q), req[q].op \in {"invite", "leave", "remove"},
         NEW new \in Roles,
         role' = [role EXCEPT ![req[q].room][req[q].target] = new],
         \/ req[q].op # "invite" /\ q \in stale
         \/ new = "creator" <=> role[req[q].room][req[q].target] = "creator",
         UNCHANGED <<creatorId, made>>
  PROVE  RoomsInv'
<1> USE DEF RoomsInv
<1> DEFINE r == req[q].room  v == req[q].target
<1>1. r \in RoomIds /\ v \in Users /\ r \in made
  BY RoomInFlight DEF Creation
<1>2. /\ role' \in [RoomIds -> [Users -> Roles]]
      /\ \A s \in RoomIds \ {r} : role'[s] = role[s]
      /\ \A w \in Users \ {v} : role'[r][w] = role[r][w]
      /\ role'[r][v] = new
  BY <1>1 DEF RoomsTypeOK, Roles
<1>3. RoomsTypeOK' /\ WellFormed'
  BY <1>2, WriteShape DEF RoomsTypeOK
<1>4. AllKnow'
  BY <1>2, WriteKnow
<1>5. /\ req'[q].op = "idle"
      /\ \A p \in RoomRequests \ {q} : req'[p] = req[p]
  BY Ended DEF Finish
<1>6. Creation'
  BY <1>1, <1>2, <1>5 DEF Creation
<1>7. OneCreator'
  <2> SUFFICES ASSUME NEW s \in made \ raced' PROVE Creators(s)' = {creatorId[s]}
    BY DEF OneCreator
  <2>1. s \in RoomIds /\ Creators(s) = {creatorId[s]}
    BY DEF OneCreator, Finish, RoomsTypeOK
  <2>2. CASE s = r
    <3>1. new = "creator" <=> role[r][v] = "creator"
      BY <2>2, <1>1 DEF Finish
    <3>2. Creators(s)' = Creators(s)
      BY <3>1, <2>2, <1>1, <1>2 DEF Creators
    <3> QED BY <3>2, <2>1
  <2>3. CASE s # r
    BY <2>1, <2>3, <1>2 DEF Creators
  <2> QED BY <2>2, <2>3
<1> QED BY <1>3, <1>4, <1>6, <1>7

\* InviteWrite adds a plain member or changes nothing.
LEMMA StepInviteWrite ==
  ASSUME RoomsInv, NEW q \in RoomRequests, InviteWrite(q)
  PROVE  RoomsInv'
<1> DEFINE r == req[q].room  v == req[q].target
           new == IF role[r][v] = "none" THEN "member" ELSE role[r][v]
<1>1. /\ req[q].op = "invite" /\ Finish(q) /\ UNCHANGED <<creatorId, made>>
      /\ role' = [role EXCEPT ![r][v] = IF @ = "none" THEN "member" ELSE @]
  BY DEF InviteWrite, Pending
<1>2. r \in RoomIds /\ v \in Users
  BY <1>1, RoomInFlight DEF RoomsInv
<1>3. /\ new \in Roles /\ (new = "creator" <=> role[r][v] = "creator")
      /\ role' = [role EXCEPT ![r][v] = new]
  BY <1>1, <1>2 DEF RoomsInv, RoomsTypeOK, Roles
<1> QED BY <1>1, <1>3, MemberWrite

\* LeaveWrite and RemoveWrite delete a row that is no creator's, unless overtaken.
LEMMA StepDeleteMember ==
  ASSUME RoomsInv, NEW q \in RoomRequests, NEW op \in {"leave", "remove"}, DeleteMember(q, op)
  PROVE  RoomsInv'
<1>1. /\ req[q].op \in {"leave", "remove"} /\ req[q].pc = "write" /\ Finish(q)
      /\ UNCHANGED <<creatorId, made>>
      /\ role' = [role EXCEPT ![req[q].room][req[q].target] = "none"]
  BY DEF DeleteMember, Pending
<1>2. q \in stale \/ role[req[q].room][req[q].target] # "creator"
  BY <1>1 DEF RoomsInv, AllKnow, Knows
<1>3. "none" \in Roles
  BY DEF Roles
<1> QED BY <1>1, <1>2, <1>3, MemberWrite

\* TransferWrite moves the role and rooms.creator_id together, unless overtaken.
LEMMA StepTransferWrite ==
  ASSUME RoomsInv, NEW q \in RoomRequests, TransferWrite(q)
  PROVE  RoomsInv'
<1> USE DEF RoomsInv
<1> DEFINE r == req[q].room  u == req[q].actor  v == req[q].target
           mid == [role EXCEPT ![r][v] = IF @ = "none" THEN @ ELSE "creator"]
<1>1. /\ req[q].op = "transfer" /\ req[q].pc = "write" /\ Finish(q) /\ made' = made
      /\ role' = [mid EXCEPT ![r][u] = IF @ = "none" THEN @ ELSE "member"]
      /\ creatorId' = [creatorId EXCEPT ![r] = v]
  BY DEF TransferWrite, Pending
<1>2. r \in RoomIds /\ u \in Users /\ v \in Users /\ r \in made
  BY <1>1, RoomInFlight DEF Creation
<1>3. /\ mid \in [RoomIds -> [Users -> Roles]]
      /\ \A s \in RoomIds \ {r} : mid[s] = role[s]
      /\ \A w \in Users \ {v} : mid[r][w] = role[r][w]
      /\ mid[r][v] = IF role[r][v] = "none" THEN "none" ELSE "creator"
  BY <1>2 DEF RoomsTypeOK, Roles
<1> HIDE DEF mid
<1>4. /\ role' \in [RoomIds -> [Users -> Roles]]
      /\ \A s \in RoomIds \ {r} : role'[s] = mid[s]
      /\ \A w \in Users \ {u} : role'[r][w] = mid[r][w]
      /\ role'[r][u] = IF mid[r][u] = "none" THEN "none" ELSE "member"
  BY <1>1, <1>2, <1>3 DEF Roles
<1>5. /\ creatorId' \in [RoomIds -> Users \cup {NoUser}] /\ creatorId'[r] = v
      /\ \A s \in RoomIds \ {r} : creatorId'[s] = creatorId[s]
  BY <1>1, <1>2 DEF RoomsTypeOK
<1>6. RoomsTypeOK' /\ WellFormed'
  BY <1>1, <1>4, <1>5, WriteShape DEF RoomsTypeOK
<1>7. AllKnow'
  BY <1>1, <1>3, <1>4, WriteKnow
<1>8. /\ req'[q].op = "idle"
      /\ \A p \in RoomRequests \ {q} : req'[p] = req[p]
  BY <1>1, Ended DEF Finish
<1>9. Creation'
  <2>1. (\A s \in RoomIds : \A w \in Users : role[s][w] # "none" => s \in made)'
    BY <1>1, <1>2, <1>3, <1>4 DEF Creation
  <2>2. (\A s \in made : creatorId[s] # NoUser)'
    BY <1>1, <1>2, <1>5, NoUserAssumption DEF Creation, RoomsTypeOK
  <2>3. (\A p \in RoomRequests : req[p].op = "create" =>
           /\ req[p].room \notin made
           /\ creatorId[req[p].room] = req[p].actor)'
    <3> SUFFICES ASSUME NEW p \in RoomRequests \ {q}, req[p].op = "create"
                 PROVE  req[p].room \notin made /\ creatorId'[req[p].room] = req[p].actor
      BY <1>1, <1>8
    <3>1. req[p].room \notin made /\ req[p].room \in RoomIds \ {r}
      BY <1>2, RoomInFlight DEF Creation
    <3> QED BY <3>1, <1>5 DEF Creation
  <2> QED BY <1>1, <1>8, <2>1, <2>2, <2>3 DEF Creation
<1>10. OneCreator'
  <2> SUFFICES ASSUME NEW s \in made \ raced' PROVE Creators(s)' = {creatorId'[s]}
    BY <1>1 DEF OneCreator
  <2>1. s \in RoomIds /\ Creators(s) = {creatorId[s]}
    BY <1>1 DEF OneCreator, Finish, RoomsTypeOK
  <2>2. CASE s = r
    <3>1. q \notin stale
      BY <2>2, <1>1, <1>2 DEF Finish
    <3>2. role[r][u] = "creator" /\ u # v /\ role[r][v] # "none"
      BY <3>1, <1>1 DEF AllKnow, Knows
    <3>3. \A w \in Users : role[r][w] = "creator" => w = u
      BY <3>2, <2>1, <2>2, <1>2 DEF Creators
    <3>4. role'[r][v] = "creator" /\ \A w \in Users : role'[r][w] = "creator" => w = v
      BY <3>2, <3>3, <1>2, <1>3, <1>4
    <3> QED BY <3>4, <2>2, <1>2, <1>5 DEF Creators
  <2>3. CASE s # r
    BY <2>1, <2>3, <1>3, <1>4, <1>5 DEF Creators
  <2> QED BY <2>2, <2>3
<1> QED BY <1>6, <1>7, <1>9, <1>10

-----------------------------------------------------------------------------
\* Every step keeps the invariant.
LEMMA NextRoomsInv == RoomsInv /\ [RoomsNext]_roomsVars => RoomsInv'
<1> SUFFICES ASSUME RoomsInv, [RoomsNext]_roomsVars PROVE RoomsInv'
  OBVIOUS
<1>1. CASE UNCHANGED roomsVars
  BY <1>1 DEF RoomsInv, RoomsTypeOK, WellFormed, Creation, AllKnow, Knows, OneCreator, Creators, roomsVars
<1>2. ASSUME NEW q \in RoomRequests, Create(q) PROVE RoomsInv'
  BY <1>2, StepCreateRoom, StepAddCreator DEF Create
<1>3. ASSUME NEW q \in RoomRequests, Invite(q) PROVE RoomsInv'
  <2>1. ASSUME NEW r \in RoomIds, NEW u \in Users, NEW v \in Users, InviteCheck(q, r, u, v)
        PROVE  RoomsInv'
    BY <2>1, StepEnter DEF InviteCheck
  <2> QED BY <1>3, <2>1, StepInviteWrite DEF Invite
<1>4. ASSUME NEW q \in RoomRequests, Leave(q) PROVE RoomsInv'
  <2>1. ASSUME NEW r \in RoomIds, NEW u \in Users, LeaveCheck(q, r, u)
        PROVE  RoomsInv'
    BY <2>1, StepEnter DEF LeaveCheck
  <2> QED BY <1>4, <2>1, StepDeleteMember DEF Leave, LeaveWrite
<1>5. ASSUME NEW q \in RoomRequests, Remove(q) PROVE RoomsInv'
  <2>1. ASSUME NEW r \in RoomIds, NEW u \in Users, NEW v \in Users, RemoveCheckActor(q, r, u, v)
        PROVE  RoomsInv'
    BY <2>1, StepEnter DEF RemoveCheckActor
  <2> QED BY <1>5, <2>1, StepToWrite, StepDeleteMember DEF Remove, RemoveWrite
<1>6. ASSUME NEW q \in RoomRequests, TransferCreator(q) PROVE RoomsInv'
  <2>1. ASSUME NEW r \in RoomIds, NEW u \in Users, NEW v \in Users, TransferCheckActor(q, r, u, v)
        PROVE  RoomsInv'
    BY <2>1, StepEnter DEF TransferCheckActor
  <2> QED BY <1>6, <2>1, StepToWrite, StepTransferWrite DEF TransferCreator
<1> QED BY <1>1, <1>2, <1>3, <1>4, <1>5, <1>6, StepAbort DEF RoomsNext

\* The strengthened invariant holds in every behaviour of the rooms service.
THEOREM RoomsInvariance == RoomsSpec => []RoomsInv
BY InitRoomsInv, NextRoomsInv, PTL DEF RoomsSpec

\* Every reachable state of the rooms service is well typed.
THEOREM RoomsTypeCorrect == RoomsSpec => []RoomsTypeOK
<1>1. RoomsInv => RoomsTypeOK
  BY DEF RoomsInv
<1> QED BY <1>1, RoomsInvariance, PTL

\* A created room keeps exactly one creator, the one rooms.creator_id names,
\* through errors, crashes and any number of requests, as long as no transfer,
\* removal or departure in it acts on a role that has changed since its check.
THEOREM RoomsKeepOneCreator == RoomsSpec => []OneCreator
<1>1. RoomsInv => OneCreator
  BY DEF RoomsInv
<1> QED BY <1>1, RoomsInvariance, PTL

-----------------------------------------------------------------------------
(***************************************************************************)
(* Hub, for any number of servers, connections and events and any          *)
(* capacities.                                                             *)
(*                                                                         *)
(* got[c][e] is bounded because every copy of an event comes from the      *)
(* call.  HubInv bounds Copies, the copies a connection has heard of and   *)
(* those on their way to it: in its Send, in the channels and the          *)
(* subscription of its server, with the walkers, and in a call that has    *)
(* yet to reach its own server.  Call puts one copy on the way, and each   *)
(* Publish, of which there are Attempts[e] at most, at most one; every     *)
(* other step moves or drops one.  A walk under way may find a connection  *)
(* that registers meanwhile, so that connection is counted before it is    *)
(* there (Carries).                                                        *)
(***************************************************************************)


\* Where copies of event e are on their way to connection c of server n: in channels,
\* with walkers, and in a call that has yet to reach its own server.
Flag(p) == IF p THEN 1 ELSE 0
Count(s, e) == Cardinality({i \in 1 .. Len(s) : s[i] = e})

Carries(w, c, e) ==
  /\ walk[w].ev = e /\ WalkerNode(w) = NodeOf[c]
  /\ c \in walk[w].todo \/ (conn[c] = "new" /\ walk[w].todo # {})

Told(c, e) == got[c][e] + Count(send[c], e)
Queued(n, e) == Count(queue[n]["message"], e) + Count(queue[n]["typing"], e)
Subscribed(n, e) == Count(redis[n], e)
Carried(c, e) ==
  Flag(Carries(<<"run", NodeOf[c]>>, c, e)) + Flag(Carries(<<"sub", NodeOf[c]>>, c, e))
    + Flag(Carries(<<"call", e>>, c, e))
Called(n, e) == Flag(phase[e] \in {"publish", "local"} /\ at[e] = n)

Copies(c, e) ==
  Told(c, e) + Queued(NodeOf[c], e) + Subscribed(NodeOf[c], e) + Carried(c, e) + Called(NodeOf[c], e)

\* The copies made so far: one for each time the event was sent to Redis, one by the call.
Made(c, e) == tries[e] + Flag(NodeOf[c] = at[e])

\* An event e is sent to Redis Attempts[e] times at most, and never where there is none.
Attempted ==
  \A e \in Events :
    /\ tries[e] <= IF shared THEN Attempts[e] ELSE 0
    /\ phase[e] = "publish" => shared
    /\ shared /\ phase[e] \in {"new", "publish"} => tries[e] < Attempts[e]

\* A walk is over connections of its own server; a caller walks once, at the end of its call.
Places ==
  /\ \A w \in Walkers : \A c \in walk[w].todo :
       NodeOf[c] = WalkerNode(w) /\ conn[c] # "new" /\ walk[w].ev \in Events
  /\ \A e \in Events : walk[<<"call", e>>].todo # {} => walk[<<"call", e>>].ev = e /\ phase[e] = "done"

HubInv ==
  /\ HubTypeOK /\ Places /\ Attempted
  /\ \A c \in Clients, e \in Events :
       /\ Copies(c, e) <= Made(c, e)
       /\ phase[e] = "new" => Copies(c, e) = 0

-----------------------------------------------------------------------------
\* The constants, as the proofs use them.
LEMMA HubConstants ==
  /\ NodeOf \in [Clients -> Nodes]
  /\ KindOf \in [Events -> Queues \cup {"receipt"}]
  /\ QueueSize \in Nat \ {0} /\ SendSize \in Nat \ {0}
  /\ Attempts \in [Events -> Nat \ {0}]
BY NodeAssumption, KindAssumption, SizeAssumption, AttemptsAssumption

\* What a channel is after an event is put into it, and after one is taken from it.
LEMMA Channel ==
  ASSUME NEW s \in Seq(Events)
  PROVE  /\ Len(s) \in Nat
         /\ \A e \in Events : Append(s, e) \in Seq(Events) /\ Len(Append(s, e)) = Len(s) + 1
         /\ s # <<>> => Head(s) \in Events /\ Tail(s) \in Seq(Events) /\ Len(Tail(s)) = Len(s) - 1
OBVIOUS

\* The places of an event in a channel are finitely many.
LEMMA CountNat ==
  ASSUME NEW s \in Seq(Events), NEW e
  PROVE  Count(s, e) \in Nat /\ IsFiniteSet({i \in 1 .. Len(s) : s[i] = e})
<1>1. Len(s) \in Nat
  OBVIOUS
<1>2. IsFiniteSet(1 .. Len(s))
  BY <1>1, FS_Interval
<1>3. IsFiniteSet({i \in 1 .. Len(s) : s[i] = e})
  BY <1>2, FS_Subset
<1> QED BY <1>3, FS_CardinalityType DEF Count

\* A channel that is empty holds no copy.
LEMMA CountEmpty ==
  ASSUME NEW e
  PROVE  Count(<<>>, e) = 0
<1>1. {i \in 1 .. Len(<<>>) : <<>>[i] = e} = {}
  OBVIOUS
<1> QED BY <1>1, FS_EmptySet DEF Count

\* An event that is put into a channel is one copy of itself.
LEMMA CountAppend ==
  ASSUME NEW s \in Seq(Events), NEW d \in Events, NEW e
  PROVE  Count(Append(s, d), e) = Count(s, e) + Flag(d = e)
<1> DEFINE n == Len(s)
           t == Append(s, d)
           A == {i \in 1 .. n : s[i] = e}
           B == {i \in 1 .. Len(t) : t[i] = e}
<1>1. n \in Nat /\ Len(t) = n + 1 /\ t[n + 1] = d /\ \A i \in 1 .. n : t[i] = s[i]
  OBVIOUS
<1>2. IsFiniteSet(A) /\ Cardinality(A) \in Nat
  BY CountNat DEF Count
<1> HIDE DEF n, t
<1>3. n + 1 \notin A
  BY <1>1
<1>4. CASE d = e
  <2>1. B = A \cup {n + 1}
    BY <1>1, <1>4
  <2> HIDE DEF A, B
  <2>2. Cardinality(B) = Cardinality(A) + 1
    BY <1>2, <1>3, <2>1, FS_AddElement
  <2> QED BY <1>4, <2>2 DEF Count, Flag, A, B, n, t
<1>5. CASE d # e
  <2>1. B = A
    BY <1>1, <1>5
  <2> HIDE DEF A, B
  <2>2. Cardinality(B) = Cardinality(A) + Flag(d = e)
    BY <1>2, <1>5, <2>1 DEF Flag
  <2> QED BY <2>2 DEF Count, A, B, n, t
<1> QED BY <1>4, <1>5

\* What is taken from a channel leaves it.
LEMMA CountTail ==
  ASSUME NEW s \in Seq(Events), s # <<>>, NEW e
  PROVE  Count(Tail(s), e) + Flag(Head(s) = e) <= Count(s, e)
<1> DEFINE n == Len(s)
           t == Tail(s)
           A == {i \in 1 .. n : s[i] = e}
           B == {i \in 1 .. Len(t) : t[i] = e}
           f == [i \in B |-> i + 1]
<1>1. n \in Nat /\ n >= 1 /\ Len(t) = n - 1 /\ \A i \in 1 .. n - 1 : t[i] = s[i + 1]
  OBVIOUS
<1>2. t \in Seq(Events) /\ Head(s) = s[1]
  OBVIOUS
<1>3. IsFiniteSet(A) /\ Cardinality(A) \in Nat /\ IsFiniteSet(B) /\ Cardinality(B) \in Nat
  BY <1>2, CountNat DEF Count
<1> HIDE DEF n, t
<1>4. \A i \in B : i + 1 \in A \ {1}
  BY <1>1
<1>5. f \in Injection(B, A \ {1})
  <2>1. B \subseteq Nat
    BY <1>1
  <2> HIDE DEF A, B
  <2> QED BY <1>4, <2>1 DEF Injection, IsInjective
<1> HIDE DEF f
<1>6. IsFiniteSet(A \ {1}) /\ Cardinality(A \ {1}) = IF 1 \in A THEN Cardinality(A) - 1 ELSE Cardinality(A)
  <2> HIDE DEF A
  <2> QED BY <1>3, FS_RemoveElement
<1>7. Cardinality(B) <= Cardinality(A \ {1})
  <2> HIDE DEF A, B
  <2> QED BY <1>5, <1>6, FS_Injection
<1>8. 1 \in A <=> Head(s) = e
  BY <1>1, <1>2
<1> HIDE DEF A, B
<1>9. Cardinality(B) + Flag(Head(s) = e) <= Cardinality(A)
  BY <1>3, <1>6, <1>7, <1>8 DEF Flag
<1> QED BY <1>9 DEF Count, A, B, n, t

-----------------------------------------------------------------------------
\* The counts of copies are numbers ...
LEMMA Numbers ==
  ASSUME HubTypeOK, NEW c \in Clients, NEW e \in Events
  PROVE  /\ Told(c, e) \in Nat /\ Queued(NodeOf[c], e) \in Nat /\ Subscribed(NodeOf[c], e) \in Nat
         /\ Carried(c, e) \in Nat /\ Called(NodeOf[c], e) \in Nat
<1>1. NodeOf[c] \in Nodes /\ "message" \in Queues /\ "typing" \in Queues
  BY HubConstants DEF Queues
<1>2. /\ got[c][e] \in Nat /\ send[c] \in Seq(Events) /\ redis[NodeOf[c]] \in Seq(Events)
      /\ queue[NodeOf[c]]["message"] \in Seq(Events) /\ queue[NodeOf[c]]["typing"] \in Seq(Events)
  BY <1>1 DEF HubTypeOK
<1>3. /\ Count(send[c], e) \in Nat /\ Count(redis[NodeOf[c]], e) \in Nat
      /\ Count(queue[NodeOf[c]]["message"], e) \in Nat /\ Count(queue[NodeOf[c]]["typing"], e) \in Nat
  BY <1>2, CountNat
<1>4. Carried(c, e) \in Nat /\ Called(NodeOf[c], e) \in Nat
  BY DEF Carried, Called, Flag
<1>5. Told(c, e) \in Nat
  BY <1>2, <1>3 DEF Told
<1>6. Queued(NodeOf[c], e) \in Nat
  BY <1>3 DEF Queued
<1>7. Subscribed(NodeOf[c], e) \in Nat
  BY <1>3 DEF Subscribed
<1> QED BY <1>4, <1>5, <1>6, <1>7

\* ... before a step and after it.
LEMMA NumbersNext ==
  ASSUME HubTypeOK', NEW c \in Clients, NEW e \in Events
  PROVE  /\ Told(c, e)' \in Nat /\ Queued(NodeOf[c], e)' \in Nat /\ Subscribed(NodeOf[c], e)' \in Nat
         /\ Carried(c, e)' \in Nat /\ Called(NodeOf[c], e)' \in Nat
<1>1. PICK n \in Nodes : n = NodeOf[c]
  BY HubConstants
<1>2. "message" \in Queues /\ "typing" \in Queues
  BY DEF Queues
<1>3. PICK s1 \in Seq(Events), s2 \in Seq(Events), s3 \in Seq(Events), s4 \in Seq(Events) :
        /\ s1 = send'[c] /\ s2 = redis'[n] /\ s3 = queue'[n]["message"] /\ s4 = queue'[n]["typing"]
  BY <1>1, <1>2 DEF HubTypeOK
<1>4. Count(s1, e) \in Nat /\ Count(s2, e) \in Nat /\ Count(s3, e) \in Nat /\ Count(s4, e) \in Nat
  BY CountNat
<1>5. got'[c][e] \in Nat
  BY DEF HubTypeOK
<1>6. Carried(c, e)' \in Nat /\ Called(NodeOf[c], e)' \in Nat
  BY DEF Carried, Called, Flag
<1>7. Told(c, e)' = got'[c][e] + Count(s1, e)
  BY <1>3 DEF Told, Count
<1>8. Queued(NodeOf[c], e)' = Count(s3, e) + Count(s4, e)
  BY <1>1, <1>3 DEF Queued, Count
<1>9. Subscribed(NodeOf[c], e)' = Count(s2, e)
  BY <1>1, <1>3 DEF Subscribed, Count
<1> QED BY <1>4, <1>5, <1>6, <1>7, <1>8, <1>9

\* A step that adds no copies keeps the invariant.
LEMMA NoNewCopies ==
  ASSUME HubInv, HubTypeOK', Places', UNCHANGED <<shared, at, tries>>,
         \A e \in Events : phase'[e] \in {"new", "publish"} => phase'[e] = phase[e],
         \A c \in Clients, e \in Events : Copies(c, e)' <= Copies(c, e)
  PROVE  HubInv'
<1>1. Attempted'
  BY DEF HubInv, Attempted
<1>2. SUFFICES ASSUME NEW c \in Clients, NEW e \in Events
               PROVE  /\ Copies(c, e)' <= Made(c, e)'
                      /\ phase'[e] = "new" => Copies(c, e)' = 0
  BY <1>1 DEF HubInv
<1>3. Made(c, e)' = Made(c, e) /\ Made(c, e) \in Nat
  BY DEF Made, Flag, HubInv, HubTypeOK
<1>4. Copies(c, e) \in Nat
  BY Numbers DEF HubInv, Copies
<1>5. Copies(c, e)' \in Nat
  BY NumbersNext DEF Copies
<1>6. Copies(c, e) <= Made(c, e) /\ (phase[e] = "new" => Copies(c, e) = 0)
  BY DEF HubInv
<1>7. Copies(c, e)' <= Copies(c, e) /\ (phase'[e] = "new" => phase[e] = "new")
  OBVIOUS
<1> QED BY <1>3, <1>4, <1>5, <1>6, <1>7

\* Both, for an event and a connection.
LEMMA AllNumbers ==
  ASSUME HubTypeOK, HubTypeOK', NEW c \in Clients, NEW e \in Events
  PROVE  /\ Told(c, e) \in Nat /\ Queued(NodeOf[c], e) \in Nat /\ Subscribed(NodeOf[c], e) \in Nat
         /\ Carried(c, e) \in Nat /\ Called(NodeOf[c], e) \in Nat
         /\ Told(c, e)' \in Nat /\ Queued(NodeOf[c], e)' \in Nat /\ Subscribed(NodeOf[c], e)' \in Nat
         /\ Carried(c, e)' \in Nat /\ Called(NodeOf[c], e)' \in Nat
BY Numbers, NumbersNext

\* Copies that move on, from Redis to a channel or a walker or from a channel to a
\* walker, are no more than before.
LEMMA Moved ==
  ASSUME HubTypeOK, HubTypeOK', NEW c \in Clients, NEW e \in Events, NEW f \in Nat,
         Told(c, e)' = Told(c, e), Called(NodeOf[c], e)' = Called(NodeOf[c], e),
         \/ /\ Subscribed(NodeOf[c], e)' + f <= Subscribed(NodeOf[c], e)
            /\ Queued(NodeOf[c], e)' <= Queued(NodeOf[c], e) + f
            /\ Carried(c, e)' = Carried(c, e)
         \/ /\ Subscribed(NodeOf[c], e)' + f <= Subscribed(NodeOf[c], e)
            /\ Queued(NodeOf[c], e)' = Queued(NodeOf[c], e)
            /\ Carried(c, e)' <= Carried(c, e) + f
         \/ /\ Subscribed(NodeOf[c], e)' = Subscribed(NodeOf[c], e)
            /\ Queued(NodeOf[c], e)' + f <= Queued(NodeOf[c], e)
            /\ Carried(c, e)' <= Carried(c, e) + f
  PROVE  Copies(c, e)' <= Copies(c, e)
<1>1. /\ Told(c, e) \in Nat /\ Queued(NodeOf[c], e) \in Nat /\ Subscribed(NodeOf[c], e) \in Nat
      /\ Carried(c, e) \in Nat /\ Called(NodeOf[c], e) \in Nat
      /\ Told(c, e)' \in Nat /\ Queued(NodeOf[c], e)' \in Nat /\ Subscribed(NodeOf[c], e)' \in Nat
      /\ Carried(c, e)' \in Nat /\ Called(NodeOf[c], e)' \in Nat
  BY AllNumbers
<1> QED BY <1>1 DEF Copies

\* Where there is no copy, no place holds one.
LEMMA NoCopies ==
  ASSUME HubTypeOK, NEW c \in Clients, NEW e \in Events, Copies(c, e) = 0
  PROVE  /\ Told(c, e) = 0 /\ Queued(NodeOf[c], e) = 0 /\ Subscribed(NodeOf[c], e) = 0
         /\ Carried(c, e) = 0
<1>1. PICK i1 \in Nat, i2 \in Nat, i3 \in Nat, i4 \in Nat, i5 \in Nat :
        /\ i1 = Told(c, e) /\ i2 = Queued(NodeOf[c], e) /\ i3 = Subscribed(NodeOf[c], e)
        /\ i4 = Carried(c, e) /\ i5 = Called(NodeOf[c], e)
  BY Numbers
<1>2. i1 + i2 + i3 + i4 + i5 = 0
  BY <1>1 DEF Copies
<1>3. i1 = 0 /\ i2 = 0 /\ i3 = 0 /\ i4 = 0
  BY <1>2
<1> QED BY <1>1, <1>3

\* Copies that a walker hands to the connection, or drops, are no more than before.
LEMMA Handed ==
  ASSUME HubTypeOK, HubTypeOK', NEW c \in Clients, NEW e \in Events, NEW f \in Nat,
         Told(c, e)' <= Told(c, e) + f, Carried(c, e)' + f <= Carried(c, e),
         Queued(NodeOf[c], e)' = Queued(NodeOf[c], e), Subscribed(NodeOf[c], e)' = Subscribed(NodeOf[c], e),
         Called(NodeOf[c], e)' = Called(NodeOf[c], e)
  PROVE  Copies(c, e)' <= Copies(c, e)
<1>1. /\ Told(c, e) \in Nat /\ Queued(NodeOf[c], e) \in Nat /\ Subscribed(NodeOf[c], e) \in Nat
      /\ Carried(c, e) \in Nat /\ Called(NodeOf[c], e) \in Nat
      /\ Told(c, e)' \in Nat /\ Queued(NodeOf[c], e)' \in Nat /\ Subscribed(NodeOf[c], e)' \in Nat
      /\ Carried(c, e)' \in Nat /\ Called(NodeOf[c], e)' \in Nat
  BY AllNumbers
<1> QED BY <1>1 DEF Copies

\* Copies of which no place holds more than before are no more than before.
LEMMA Fewer ==
  ASSUME HubTypeOK, HubTypeOK', NEW c \in Clients, NEW e \in Events,
         Told(c, e)' = Told(c, e) \/ Told(c, e)' <= Told(c, e),
         Carried(c, e)' = Carried(c, e) \/ Carried(c, e)' <= Carried(c, e),
         Queued(NodeOf[c], e)' = Queued(NodeOf[c], e) \/ Queued(NodeOf[c], e)' <= Queued(NodeOf[c], e),
         Subscribed(NodeOf[c], e)' = Subscribed(NodeOf[c], e)
           \/ Subscribed(NodeOf[c], e)' <= Subscribed(NodeOf[c], e),
         Called(NodeOf[c], e)' = Called(NodeOf[c], e)
  PROVE  Copies(c, e)' <= Copies(c, e)
<1>1. /\ Told(c, e) \in Nat /\ Queued(NodeOf[c], e) \in Nat /\ Subscribed(NodeOf[c], e) \in Nat
      /\ Carried(c, e) \in Nat /\ Called(NodeOf[c], e) \in Nat
      /\ Told(c, e)' \in Nat /\ Queued(NodeOf[c], e)' \in Nat /\ Subscribed(NodeOf[c], e)' \in Nat
      /\ Carried(c, e)' \in Nat /\ Called(NodeOf[c], e)' \in Nat
  BY AllNumbers
<1> QED BY <1>1 DEF Copies

\* Walkers that carry no more than before.
LEMMA CarriedLess ==
  ASSUME NEW c \in Clients, NEW e \in Events,
         \A w \in Walkers : Carries(w, c, e)' => Carries(w, c, e)
  PROVE  Carried(c, e)' <= Carried(c, e)
<1>1. /\ <<"run", NodeOf[c]>> \in Walkers /\ <<"sub", NodeOf[c]>> \in Walkers /\ <<"call", e>> \in Walkers
  BY HubConstants DEF Walkers
<1>2. /\ Carries(<<"run", NodeOf[c]>>, c, e)' => Carries(<<"run", NodeOf[c]>>, c, e)
      /\ Carries(<<"sub", NodeOf[c]>>, c, e)' => Carries(<<"sub", NodeOf[c]>>, c, e)
      /\ Carries(<<"call", e>>, c, e)' => Carries(<<"call", e>>, c, e)
  BY <1>1
<1> QED BY <1>2 DEF Carried, Flag

-----------------------------------------------------------------------------
\* One channel of one server changes.
LEMMA OneQueue ==
  ASSUME HubTypeOK, NEW n \in Nodes, NEW k \in Queues, NEW t \in Seq(Events), Len(t) <= QueueSize,
         queue' = [queue EXCEPT ![n][k] = t]
  PROVE  /\ queue' \in [Nodes -> [Queues -> Seq(Events)]]
         /\ \A m \in Nodes, j \in Queues : Len(queue'[m][j]) <= QueueSize
         /\ \A m \in Nodes, d \in Events :
              IF m = n THEN Queued(m, d)' + Count(queue[n][k], d) = Queued(m, d) + Count(t, d)
                       ELSE Queued(m, d)' = Queued(m, d)
<1>1. queue \in [Nodes -> [Queues -> Seq(Events)]] /\ \A m \in Nodes, j \in Queues : Len(queue[m][j]) <= QueueSize
  BY DEF HubTypeOK
<1>2. queue' \in [Nodes -> [Queues -> Seq(Events)]]
  BY <1>1
<1>3. \A m \in Nodes, j \in Queues : queue'[m][j] = IF m = n /\ j = k THEN t ELSE queue[m][j]
  BY <1>1
<1>4. \A m \in Nodes, j \in Queues : Len(queue'[m][j]) <= QueueSize
  BY <1>1, <1>3
<1>5. ASSUME NEW m \in Nodes, NEW d \in Events
      PROVE  IF m = n THEN Queued(m, d)' + Count(queue[n][k], d) = Queued(m, d) + Count(t, d)
                      ELSE Queued(m, d)' = Queued(m, d)
  <2>1. "message" \in Queues /\ "typing" \in Queues /\ (k = "message" \/ k = "typing")
    BY DEF Queues
  <2>2. PICK a \in Seq(Events), b \in Seq(Events) : a = queue[m]["message"] /\ b = queue[m]["typing"]
    BY <1>1, <2>1
  <2>3. PICK a1 \in Seq(Events), b1 \in Seq(Events) : a1 = queue'[m]["message"] /\ b1 = queue'[m]["typing"]
    BY <1>2, <2>1
  <2>4. Queued(m, d) = Count(a, d) + Count(b, d) /\ Queued(m, d)' = Count(a1, d) + Count(b1, d)
    BY <2>2, <2>3 DEF Queued, Count
  <2>5. /\ Count(a, d) \in Nat /\ Count(b, d) \in Nat /\ Count(t, d) \in Nat
        /\ Count(a1, d) \in Nat /\ Count(b1, d) \in Nat
    BY CountNat
  <2>6. CASE m # n
    BY <1>3, <2>1, <2>2, <2>3, <2>4, <2>6
  <2>7. CASE m = n /\ k = "message"
    <3>1. a1 = t /\ b1 = b /\ queue[n][k] = a
      BY <1>3, <2>1, <2>2, <2>3, <2>7
    <3> QED BY <2>4, <2>5, <2>7, <3>1
  <2>8. CASE m = n /\ k = "typing"
    <3>1. a1 = a /\ b1 = t /\ queue[n][k] = b
      BY <1>3, <2>1, <2>2, <2>3, <2>8
    <3> QED BY <2>4, <2>5, <2>8, <3>1
  <2> QED BY <2>1, <2>6, <2>7, <2>8
<1> QED BY <1>2, <1>4, <1>5

\* A push adds at most one copy to one server, within the capacity of the channel.
LEMMA PushEffect ==
  ASSUME HubTypeOK, NEW n \in Nodes, NEW e \in Events, KindOf[e] \in Queues, PushToLocal(n, e)
  PROVE  /\ queue' \in [Nodes -> [Queues -> Seq(Events)]]
         /\ \A m \in Nodes, j \in Queues : Len(queue'[m][j]) <= QueueSize
         /\ owed' \subseteq Events \X Clients
         /\ \A m \in Nodes, d \in Events : Queued(m, d)' <= Queued(m, d) + Flag(m = n /\ d = e)
<1>1. PICK k \in Queues : k = KindOf[e]
  OBVIOUS
<1>2. PICK s \in Seq(Events) : s = queue[n][k] /\ Len(s) <= QueueSize
  BY DEF HubTypeOK
<1>3. owed \subseteq Events \X Clients /\ QueueSize \in Nat
  BY HubConstants DEF HubTypeOK
<1>4. \A m \in Nodes, d \in Events : Queued(m, d) \in Nat
  <2>1. ASSUME NEW m \in Nodes, NEW d \in Events PROVE Queued(m, d) \in Nat
    <3>1. queue[m]["message"] \in Seq(Events) /\ queue[m]["typing"] \in Seq(Events)
      BY DEF HubTypeOK, Queues
    <3>2. Count(queue[m]["message"], d) \in Nat /\ Count(queue[m]["typing"], d) \in Nat
      BY <3>1, CountNat
    <3> QED BY <3>2 DEF Queued
  <2> QED BY <2>1
<1>5. CASE Len(s) < QueueSize
  <2>1. queue' = [queue EXCEPT ![n][k] = Append(s, e)] /\ owed' = owed
    BY <1>1, <1>2, <1>5 DEF PushToLocal, HubTypeOK
  <2>2. PICK t \in Seq(Events) : t = Append(s, e)
    BY Channel
  <2>3. Len(t) <= QueueSize
    BY <1>3, <1>5, <2>2, Channel
  <2>4. /\ queue' \in [Nodes -> [Queues -> Seq(Events)]]
        /\ \A m \in Nodes, j \in Queues : Len(queue'[m][j]) <= QueueSize
        /\ \A m \in Nodes, d \in Events :
              IF m = n THEN Queued(m, d)' + Count(queue[n][k], d) = Queued(m, d) + Count(t, d)
                       ELSE Queued(m, d)' = Queued(m, d)
    <3>1. queue' = [queue EXCEPT ![n][k] = t]
      BY <2>1, <2>2
    <3> QED BY <2>3, <3>1, OneQueue
  <2>5. ASSUME NEW m \in Nodes, NEW d \in Events PROVE Queued(m, d)' <= Queued(m, d) + Flag(m = n /\ d = e)
    <3>1. Count(t, d) = Count(s, d) + Flag(e = d) /\ Count(s, d) \in Nat
      <4>1. Count(Append(s, e), d) = Count(s, d) + Flag(e = d)
        BY CountAppend
      <4> QED BY <2>2, <4>1, CountNat
    <3>2. CASE m # n
      BY <1>4, <2>4, <3>2 DEF Flag
    <3>3. CASE m = n
      <4>1. Queued(m, d)' + Count(s, d) = Queued(m, d) + (Count(s, d) + Flag(e = d))
        BY <1>2, <2>4, <3>1, <3>3
      <4>2. PICK q \in Nat : q = Queued(m, d)
        BY <1>4
      <4>3. Queued(m, d)' \in Nat
        <5>1. PICK a1 \in Seq(Events), b1 \in Seq(Events) : a1 = queue'[m]["message"] /\ b1 = queue'[m]["typing"]
          BY <2>4 DEF Queues
        <5>2. Count(a1, d) \in Nat /\ Count(b1, d) \in Nat
          BY CountNat
        <5>3. Queued(m, d)' = Count(a1, d) + Count(b1, d)
          BY <5>1 DEF Queued, Count
        <5> QED BY <5>2, <5>3
      <4>4. Flag(e = d) \in Nat /\ Flag(e = d) = Flag(m = n /\ d = e)
        BY <3>3 DEF Flag
      <4> QED BY <3>1, <4>1, <4>2, <4>3, <4>4
    <3> QED BY <3>2, <3>3
  <2> QED BY <1>3, <2>1, <2>4, <2>5
<1>6. CASE ~ (Len(s) < QueueSize)
  <2>1. queue' = queue /\ owed' \subseteq Events \X Clients
    BY <1>1, <1>2, <1>3, <1>6 DEF PushToLocal
  <2>2. \A m \in Nodes, d \in Events : Queued(m, d)' = Queued(m, d)
    BY <2>1 DEF Queued, Count
  <2>3. \A m \in Nodes, d \in Events : Queued(m, d) <= Queued(m, d) + Flag(m = n /\ d = e)
    BY <1>4 DEF Flag
  <2> QED BY <2>1, <2>2, <2>3 DEF HubTypeOK
<1> QED BY <1>5, <1>6

-----------------------------------------------------------------------------
\* The walkers that can carry an event to a connection.
LEMMA Three ==
  ASSUME NEW c \in Clients, NEW e \in Events
  PROVE  /\ <<"run", NodeOf[c]>> \in Walkers /\ <<"sub", NodeOf[c]>> \in Walkers /\ <<"call", e>> \in Walkers
         /\ <<"run", NodeOf[c]>> # <<"sub", NodeOf[c]>> /\ <<"run", NodeOf[c]>> # <<"call", e>>
         /\ <<"sub", NodeOf[c]>> # <<"call", e>>
BY HubConstants DEF Walkers

\* One walker changes: the copies it carries are those it carries then.
LEMMA OneWalker ==
  ASSUME NEW w \in Walkers, NEW c \in Clients, NEW e \in Events,
         \A v \in Walkers \ {w} : Carries(v, c, e)' => Carries(v, c, e)
  PROVE  /\ (Carries(w, c, e)' => Carries(w, c, e)) => Carried(c, e)' <= Carried(c, e)
         /\ Carried(c, e)' <= Carried(c, e) + 1
         /\ Carries(w, c, e) /\ w \in {<<"run", NodeOf[c]>>, <<"sub", NodeOf[c]>>, <<"call", e>>}
              /\ ~ Carries(w, c, e)' => Carried(c, e)' + 1 <= Carried(c, e)
<1> DEFINE x == <<"run", NodeOf[c]>>
           y == <<"sub", NodeOf[c]>>
           z == <<"call", e>>
<1>1. x \in Walkers /\ y \in Walkers /\ z \in Walkers /\ x # y /\ x # z /\ y # z
  BY Three
<1>2. Carried(c, e) = Flag(Carries(x, c, e)) + Flag(Carries(y, c, e)) + Flag(Carries(z, c, e))
  BY DEF Carried
<1>3. Carried(c, e)' = Flag(Carries(x, c, e)') + Flag(Carries(y, c, e)') + Flag(Carries(z, c, e)')
  BY DEF Carried, Flag
<1> HIDE DEF x, y, z
<1>4. /\ x # w /\ Carries(x, c, e)' => Carries(x, c, e)
      /\ y # w /\ Carries(y, c, e)' => Carries(y, c, e)
      /\ z # w /\ Carries(z, c, e)' => Carries(z, c, e)
  BY <1>1
<1>5. (Carries(w, c, e)' => Carries(w, c, e)) => Carried(c, e)' <= Carried(c, e)
  BY <1>2, <1>3, <1>4 DEF Flag
<1>6. Carried(c, e)' <= Carried(c, e) + 1
  BY <1>1, <1>2, <1>3, <1>4 DEF Flag
<1>7. Carries(w, c, e) /\ w \in {x, y, z} /\ ~ Carries(w, c, e)' => Carried(c, e)' + 1 <= Carried(c, e)
  BY <1>1, <1>2, <1>3, <1>4 DEF Flag
<1> QED BY <1>5, <1>6, <1>7 DEF x, y, z

\* A walk begins: over connections of the server, with one copy for each.
LEMMA StartEffect ==
  ASSUME HubTypeOK, NEW w \in Walkers, NEW e \in Events, NEW n \in Nodes, Start(w, e, n),
         WalkerNode(w) = n, Resting(w), UNCHANGED <<conn, at>>
  PROVE  /\ walk' \in [Walkers -> [ev : Events \cup {NoEvent}, todo : SUBSET Clients]]
         /\ \A v \in Walkers \ {w} : walk'[v] = walk[v]
         /\ \A c \in walk'[w].todo : NodeOf[c] = n /\ conn[c] # "new"
         /\ walk'[w].todo # {} => walk'[w].ev = e
         /\ \A c \in Clients, d \in Events : Carried(c, d)' <= Carried(c, d) + Flag(NodeOf[c] = n /\ d = e)
<1>1. PICK x \in [ev : Events \cup {NoEvent}, todo : SUBSET Clients] :
        /\ walk' = [walk EXCEPT ![w] = x]
        /\ \A c \in x.todo : NodeOf[c] = n /\ conn[c] # "new"
        /\ x.todo # {} => x.ev = e
  <2>1. CASE On(n) = {}
    <3>1. Rest \in [ev : Events \cup {NoEvent}, todo : SUBSET Clients] /\ Rest.todo = {}
      BY DEF Rest
    <3> QED BY <2>1, <3>1 DEF Start
  <2>2. CASE On(n) # {}
    <3> DEFINE x == [ev |-> e, todo |-> On(n)]
    <3>1. x \in [ev : Events \cup {NoEvent}, todo : SUBSET Clients] /\ \A c \in x.todo : NodeOf[c] = n /\ conn[c] # "new"
      BY DEF On
    <3> QED BY <2>2, <3>1 DEF Start
  <2> QED BY <2>1, <2>2
<1>2. /\ walk' \in [Walkers -> [ev : Events \cup {NoEvent}, todo : SUBSET Clients]]
      /\ walk'[w] = x /\ \A v \in Walkers \ {w} : walk'[v] = walk[v]
  BY <1>1 DEF HubTypeOK
<1>3. ASSUME NEW c \in Clients, NEW d \in Events
      PROVE  Carried(c, d)' <= Carried(c, d) + Flag(NodeOf[c] = n /\ d = e)
  <2>1. \A v \in Walkers \ {w} : Carries(v, c, d)' => Carries(v, c, d)
    BY <1>2 DEF Carries, WalkerNode
  <2>2. Carries(w, c, d)' => d = e /\ NodeOf[c] = n
    BY <1>1, <1>2 DEF Carries, WalkerNode
  <2>3. Carried(c, d) \in Nat
    BY DEF Carried, Flag
  <2>4. CASE NodeOf[c] = n /\ d = e
    BY <2>1, <2>4, OneWalker DEF Flag
  <2>5. CASE ~ (NodeOf[c] = n /\ d = e)
    <3>1. Carried(c, d)' <= Carried(c, d)
      BY <2>1, <2>2, <2>5, OneWalker
    <3> QED BY <2>3, <2>5, <3>1 DEF Flag
  <2> QED BY <2>4, <2>5
<1> QED BY <1>1, <1>2, <1>3

-----------------------------------------------------------------------------
\* What is not touched holds as many copies as before.
LEMMA Untouched ==
  /\ UNCHANGED <<got, send>> => \A c, e : Told(c, e)' = Told(c, e)
  /\ UNCHANGED queue => \A n, e : Queued(n, e)' = Queued(n, e)
  /\ UNCHANGED redis => \A n, e : Subscribed(n, e)' = Subscribed(n, e)
  /\ UNCHANGED <<walk, conn, at>> => \A c, e : Carried(c, e)' = Carried(c, e)
  /\ UNCHANGED <<phase, at>> => \A n, e : Called(n, e)' = Called(n, e)
<1>1. UNCHANGED <<got, send>> => \A c, e : Told(c, e)' = Told(c, e)
  BY DEF Told, Count
<1>2. UNCHANGED queue => \A n, e : Queued(n, e)' = Queued(n, e)
  BY DEF Queued, Count
<1>3. UNCHANGED redis => \A n, e : Subscribed(n, e)' = Subscribed(n, e)
  BY DEF Subscribed, Count
<1>4. UNCHANGED <<walk, conn, at>> => \A c, e : Carried(c, e)' = Carried(c, e)
  BY DEF Carried, Flag, Carries, WalkerNode
<1>5. UNCHANGED <<phase, at>> => \A n, e : Called(n, e)' = Called(n, e)
  BY DEF Called, Flag
<1> QED BY <1>1, <1>2, <1>3, <1>4, <1>5

\* The call reaches the connections of its own server, once.
LEMMA LocalStep ==
  ASSUME HubInv, NEW e \in Events, Local(e)
  PROVE  HubInv'
<1>1. HubTypeOK /\ Places /\ phase[e] = "local" /\ UNCHANGED <<shared, up, at, tries, conn, redis, send, got>>
  BY DEF HubInv, Local
<1>2. PICK n \in Nodes : n = at[e]
  BY DEF Local, HubInv, HubTypeOK
<1>3. /\ phase' \in [Events -> {"new", "publish", "local", "done"}] /\ phase'[e] = "done"
      /\ \A d \in Events \ {e} : phase'[d] = phase[d]
  BY <1>1 DEF Local, HubTypeOK
<1>4. /\ \A m, d : Subscribed(m, d)' = Subscribed(m, d)
      /\ \A c, d : Told(c, d)' = Told(c, d)
  BY <1>1, Untouched
<1>5. \A m \in Nodes, d \in Events : Called(m, d)' + Flag(m = n /\ d = e) = Called(m, d)
  BY <1>1, <1>2, <1>3 DEF Called, Flag
<1>6. CASE KindOf[e] \in Queues /\ PushToLocal(n, e) /\ UNCHANGED walk
  <2>1. /\ queue' \in [Nodes -> [Queues -> Seq(Events)]]
        /\ \A m \in Nodes, j \in Queues : Len(queue'[m][j]) <= QueueSize
        /\ owed' \subseteq Events \X Clients
        /\ \A m \in Nodes, d \in Events : Queued(m, d)' <= Queued(m, d) + Flag(m = n /\ d = e)
    BY <1>1, <1>6, PushEffect
  <2>2. HubTypeOK'
    BY <1>1, <1>3, <1>6, <2>1 DEF HubTypeOK
  <2>3. Places'
    BY <1>1, <1>3, <1>6 DEF Places, WalkerNode
  <2>4. ASSUME NEW c \in Clients, NEW d \in Events PROVE Copies(c, d)' <= Copies(c, d)
    <3>1. NodeOf[c] \in Nodes /\ Flag(NodeOf[c] = n /\ d = e) \in Nat
      BY HubConstants DEF Flag
    <3>2. Carried(c, d)' = Carried(c, d)
      BY <1>1, <1>6, Untouched
    <3>3. Queued(NodeOf[c], d)' <= Queued(NodeOf[c], d) + Flag(NodeOf[c] = n /\ d = e)
      BY <2>1, <3>1
    <3>4. Called(NodeOf[c], d)' + Flag(NodeOf[c] = n /\ d = e) = Called(NodeOf[c], d)
      BY <1>5, <3>1
    <3>5. /\ Told(c, d) \in Nat /\ Queued(NodeOf[c], d) \in Nat /\ Subscribed(NodeOf[c], d) \in Nat
          /\ Carried(c, d) \in Nat /\ Called(NodeOf[c], d) \in Nat
          /\ Told(c, d)' \in Nat /\ Queued(NodeOf[c], d)' \in Nat /\ Subscribed(NodeOf[c], d)' \in Nat
          /\ Carried(c, d)' \in Nat /\ Called(NodeOf[c], d)' \in Nat
      BY <1>1, <2>2, AllNumbers
    <3>6. PICK f \in Nat : f = Flag(NodeOf[c] = n /\ d = e)
      BY <3>1
    <3> QED BY <1>1, <1>4, <2>2, <3>1, <3>2, <3>3, <3>4, <3>5, <3>6 DEF Copies
  <2> QED BY <1>1, <1>3, <2>2, <2>3, <2>4, NoNewCopies
<1>7. CASE Start(<<"call", e>>, e, n) /\ UNCHANGED <<queue, owed>>
  <2> DEFINE w == <<"call", e>>
  <2>1. w \in Walkers /\ WalkerNode(w) = n /\ Resting(w)
    BY <1>1, <1>2 DEF Walkers, WalkerNode, Places, Resting
  <2>2. /\ walk' \in [Walkers -> [ev : Events \cup {NoEvent}, todo : SUBSET Clients]]
        /\ \A v \in Walkers \ {w} : walk'[v] = walk[v]
        /\ \A c \in walk'[w].todo : NodeOf[c] = n /\ conn[c] # "new"
        /\ walk'[w].todo # {} => walk'[w].ev = e
        /\ \A c \in Clients, d \in Events : Carried(c, d)' <= Carried(c, d) + Flag(NodeOf[c] = n /\ d = e)
    BY <1>1, <1>7, <2>1, StartEffect
  <2>3. HubTypeOK'
    BY <1>1, <1>3, <1>7, <2>2 DEF HubTypeOK
  <2>4. Places'
    <3>1. ASSUME NEW v \in Walkers, NEW c \in walk'[v].todo
          PROVE  NodeOf[c] = WalkerNode(v)' /\ conn'[c] # "new" /\ walk'[v].ev \in Events
      <4>1. WalkerNode(v)' = WalkerNode(v)
        BY <1>1 DEF WalkerNode
      <4> QED BY <1>1, <2>1, <2>2, <3>1, <4>1 DEF Places
    <3>2. ASSUME NEW d \in Events, walk'[<<"call", d>>].todo # {}
          PROVE  walk'[<<"call", d>>].ev = d /\ phase'[d] = "done"
      <4>1. CASE d = e
        BY <1>3, <2>2, <3>2, <4>1
      <4>2. CASE d # e
        <5>1. <<"call", d>> \in Walkers \ {w}
          BY <4>2 DEF Walkers
        <5> QED BY <1>1, <1>3, <2>2, <3>2, <4>2, <5>1 DEF Places
      <4> QED BY <4>1, <4>2
    <3> QED BY <3>1, <3>2 DEF Places
  <2>5. ASSUME NEW c \in Clients, NEW d \in Events PROVE Copies(c, d)' <= Copies(c, d)
    <3>1. NodeOf[c] \in Nodes /\ Flag(NodeOf[c] = n /\ d = e) \in Nat
      BY HubConstants DEF Flag
    <3>2. Queued(NodeOf[c], d)' = Queued(NodeOf[c], d)
      BY <1>7, Untouched
    <3>3. Carried(c, d)' <= Carried(c, d) + Flag(NodeOf[c] = n /\ d = e)
      BY <2>2
    <3>4. Called(NodeOf[c], d)' + Flag(NodeOf[c] = n /\ d = e) = Called(NodeOf[c], d)
      BY <1>5, <3>1
    <3>5. /\ Told(c, d) \in Nat /\ Queued(NodeOf[c], d) \in Nat /\ Subscribed(NodeOf[c], d) \in Nat
          /\ Carried(c, d) \in Nat /\ Called(NodeOf[c], d) \in Nat
          /\ Told(c, d)' \in Nat /\ Queued(NodeOf[c], d)' \in Nat /\ Subscribed(NodeOf[c], d)' \in Nat
          /\ Carried(c, d)' \in Nat /\ Called(NodeOf[c], d)' \in Nat
      BY <1>1, <2>3, AllNumbers
    <3>6. PICK f \in Nat : f = Flag(NodeOf[c] = n /\ d = e)
      BY <3>1
    <3> QED BY <1>1, <1>4, <2>3, <3>1, <3>2, <3>3, <3>4, <3>5, <3>6 DEF Copies
  <2> QED BY <1>1, <1>3, <2>3, <2>4, <2>5, NoNewCopies
<1> QED BY <1>2, <1>6, <1>7 DEF Local

\* The subscriber takes an event from Redis.
LEMMA SubTakeStep ==
  ASSUME HubInv, NEW n \in Nodes, SubTake(n)
  PROVE  HubInv'
<1>1. /\ HubTypeOK /\ Places /\ UNCHANGED <<shared, up, phase, at, tries, conn, send, got>>
      /\ redis[n] # <<>> /\ Resting(<<"sub", n>>)
  BY DEF HubInv, SubTake
<1>2. PICK s \in Seq(Events) : s = redis[n] /\ s # <<>>
  BY <1>1 DEF HubTypeOK
<1>3. PICK e \in Events : e = Head(s)
  BY <1>2, Channel
<1>4. PICK t \in Seq(Events) : t = Tail(s)
  BY <1>2, Channel
<1>5. redis' = [redis EXCEPT ![n] = t]
  BY <1>2, <1>4 DEF SubTake
<1>6. redis' \in [Nodes -> Seq(Events)] /\ redis'[n] = t /\ \A m \in Nodes \ {n} : redis'[m] = redis[m]
  BY <1>1, <1>5 DEF HubTypeOK
<1>7. /\ \A m, d : Called(m, d)' = Called(m, d)
      /\ \A c, d : Told(c, d)' = Told(c, d)
  BY <1>1, Untouched
<1>8. ASSUME NEW m \in Nodes, NEW d \in Events
      PROVE  Subscribed(m, d)' + Flag(m = n /\ d = e) <= Subscribed(m, d)
  <2>1. CASE m = n
    <3>1. Count(Tail(s), d) + Flag(Head(s) = d) <= Count(s, d)
      BY <1>2, CountTail
    <3>2. Subscribed(m, d) = Count(s, d) /\ Subscribed(m, d)' = Count(t, d)
      BY <1>2, <1>6, <2>1 DEF Subscribed, Count
    <3>3. Flag(m = n /\ d = e) = Flag(Head(s) = d)
      BY <1>3, <2>1 DEF Flag
    <3> QED BY <1>4, <3>1, <3>2, <3>3
  <2>2. CASE m # n
    <3>1. Subscribed(m, d)' = Subscribed(m, d)
      BY <1>6, <2>2 DEF Subscribed, Count
    <3>2. Subscribed(m, d) \in Nat
      <4>1. redis[m] \in Seq(Events)
        BY <1>1 DEF HubTypeOK
      <4> QED BY <4>1, CountNat DEF Subscribed
    <3> QED BY <2>2, <3>1, <3>2 DEF Flag
  <2> QED BY <2>1, <2>2
<1>9. CASE KindOf[e] \in Queues /\ PushToLocal(n, e) /\ UNCHANGED walk
  <2>1. /\ queue' \in [Nodes -> [Queues -> Seq(Events)]]
        /\ \A m \in Nodes, j \in Queues : Len(queue'[m][j]) <= QueueSize
        /\ owed' \subseteq Events \X Clients
        /\ \A m \in Nodes, d \in Events : Queued(m, d)' <= Queued(m, d) + Flag(m = n /\ d = e)
    BY <1>1, <1>9, PushEffect
  <2>2. HubTypeOK'
    BY <1>1, <1>6, <1>9, <2>1 DEF HubTypeOK
  <2>3. Places'
    BY <1>1, <1>9 DEF Places, WalkerNode
  <2>4. ASSUME NEW c \in Clients, NEW d \in Events PROVE Copies(c, d)' <= Copies(c, d)
    <3>1. NodeOf[c] \in Nodes /\ Flag(NodeOf[c] = n /\ d = e) \in Nat
      BY HubConstants DEF Flag
    <3>2. Carried(c, d)' = Carried(c, d)
      BY <1>1, <1>9, Untouched
    <3>3. Queued(NodeOf[c], d)' <= Queued(NodeOf[c], d) + Flag(NodeOf[c] = n /\ d = e)
      BY <2>1, <3>1
    <3>4. Subscribed(NodeOf[c], d)' + Flag(NodeOf[c] = n /\ d = e) <= Subscribed(NodeOf[c], d)
      BY <1>8, <3>1
    <3>5. PICK f \in Nat : f = Flag(NodeOf[c] = n /\ d = e)
      BY <3>1
    <3> QED BY <1>1, <1>7, <2>2, <3>2, <3>3, <3>4, <3>5, Moved
  <2> QED BY <1>1, <2>2, <2>3, <2>4, NoNewCopies
<1>10. CASE Start(<<"sub", n>>, e, n) /\ UNCHANGED <<queue, owed>>
  <2> DEFINE w == <<"sub", n>>
  <2>1. w \in Walkers /\ WalkerNode(w) = n /\ Resting(w)
    BY <1>1 DEF Walkers, WalkerNode
  <2>2. /\ walk' \in [Walkers -> [ev : Events \cup {NoEvent}, todo : SUBSET Clients]]
        /\ \A v \in Walkers \ {w} : walk'[v] = walk[v]
        /\ \A c \in walk'[w].todo : NodeOf[c] = n /\ conn[c] # "new"
        /\ walk'[w].todo # {} => walk'[w].ev = e
        /\ \A c \in Clients, d \in Events : Carried(c, d)' <= Carried(c, d) + Flag(NodeOf[c] = n /\ d = e)
    BY <1>1, <1>10, <2>1, StartEffect
  <2>3. HubTypeOK'
    BY <1>1, <1>6, <1>10, <2>2 DEF HubTypeOK
  <2>4. Places'
    <3>1. ASSUME NEW v \in Walkers, NEW c \in walk'[v].todo
          PROVE  NodeOf[c] = WalkerNode(v)' /\ conn'[c] # "new" /\ walk'[v].ev \in Events
      <4>1. WalkerNode(v)' = WalkerNode(v)
        BY <1>1 DEF WalkerNode
      <4>2. CASE v = w
        BY <1>1, <1>3, <2>1, <2>2, <3>1, <4>1, <4>2
      <4>3. CASE v # w
        BY <1>1, <2>2, <3>1, <4>1, <4>3 DEF Places
      <4> QED BY <4>2, <4>3
    <3>2. ASSUME NEW d \in Events, walk'[<<"call", d>>].todo # {}
          PROVE  walk'[<<"call", d>>].ev = d /\ phase'[d] = "done"
      <4>1. <<"call", d>> \in Walkers \ {w}
        BY DEF Walkers
      <4>2. walk'[<<"call", d>>] = walk[<<"call", d>>] /\ phase'[d] = phase[d]
        BY <1>1, <2>2, <4>1
      <4> QED BY <1>1, <3>2, <4>2 DEF Places
    <3> QED BY <3>1, <3>2 DEF Places
  <2>5. ASSUME NEW c \in Clients, NEW d \in Events PROVE Copies(c, d)' <= Copies(c, d)
    <3>1. NodeOf[c] \in Nodes /\ Flag(NodeOf[c] = n /\ d = e) \in Nat
      BY HubConstants DEF Flag
    <3>2. Queued(NodeOf[c], d)' = Queued(NodeOf[c], d)
      BY <1>10, Untouched
    <3>3. Carried(c, d)' <= Carried(c, d) + Flag(NodeOf[c] = n /\ d = e)
      BY <2>2
    <3>4. Subscribed(NodeOf[c], d)' + Flag(NodeOf[c] = n /\ d = e) <= Subscribed(NodeOf[c], d)
      BY <1>8, <3>1
    <3>5. PICK f \in Nat : f = Flag(NodeOf[c] = n /\ d = e)
      BY <3>1
    <3> QED BY <1>1, <1>7, <2>3, <3>2, <3>3, <3>4, <3>5, Moved
  <2> QED BY <1>1, <2>3, <2>4, <2>5, NoNewCopies
<1> QED BY <1>2, <1>3, <1>9, <1>10 DEF SubTake

\* Run takes an event from a channel.
LEMMA RunTakeStep ==
  ASSUME HubInv, NEW n \in Nodes, RunTake(n)
  PROVE  HubInv'
<1>1. /\ HubTypeOK /\ Places /\ UNCHANGED <<shared, up, phase, at, tries, conn, redis, send, got, owed>>
      /\ Resting(<<"run", n>>)
  BY DEF HubInv, RunTake
<1>2. PICK k \in Queues :
        /\ queue[n][k] # <<>>
        /\ Start(<<"run", n>>, Head(queue[n][k]), n)
        /\ queue' = [queue EXCEPT ![n][k] = Tail(queue[n][k])]
  BY DEF RunTake
<1>3. PICK s \in Seq(Events) : s = queue[n][k] /\ s # <<>> /\ Len(s) <= QueueSize
  BY <1>1, <1>2 DEF HubTypeOK
<1>4. PICK e \in Events : e = Head(s)
  BY <1>3, Channel
<1>5. PICK t \in Seq(Events) : t = Tail(s) /\ Len(t) = Len(s) - 1 /\ Len(s) \in Nat
  BY <1>3, Channel
<1>6. queue' = [queue EXCEPT ![n][k] = t] /\ Start(<<"run", n>>, e, n)
  BY <1>2, <1>3, <1>4, <1>5
<1>7. Len(t) <= QueueSize
  BY <1>3, <1>5, HubConstants
<1>8. /\ queue' \in [Nodes -> [Queues -> Seq(Events)]]
      /\ \A m \in Nodes, j \in Queues : Len(queue'[m][j]) <= QueueSize
      /\ \A m \in Nodes, d \in Events :
           IF m = n THEN Queued(m, d)' + Count(queue[n][k], d) = Queued(m, d) + Count(t, d)
                    ELSE Queued(m, d)' = Queued(m, d)
  BY <1>1, <1>6, <1>7, OneQueue
<1> DEFINE w == <<"run", n>>
<1>9. w \in Walkers /\ WalkerNode(w) = n /\ Resting(w)
  BY <1>1 DEF Walkers, WalkerNode
<1>10. /\ walk' \in [Walkers -> [ev : Events \cup {NoEvent}, todo : SUBSET Clients]]
       /\ \A v \in Walkers \ {w} : walk'[v] = walk[v]
       /\ \A c \in walk'[w].todo : NodeOf[c] = n /\ conn[c] # "new"
       /\ walk'[w].todo # {} => walk'[w].ev = e
       /\ \A c \in Clients, d \in Events : Carried(c, d)' <= Carried(c, d) + Flag(NodeOf[c] = n /\ d = e)
  <2>1. Start(w, e, n) /\ UNCHANGED <<conn, at>>
    BY <1>1, <1>6
  <2> HIDE DEF w
  <2> QED BY <1>1, <1>4, <1>9, <2>1, StartEffect
<1>11. HubTypeOK'
  BY <1>1, <1>8, <1>10 DEF HubTypeOK
<1>12. Places'
  <2>1. ASSUME NEW v \in Walkers, NEW c \in walk'[v].todo
        PROVE  NodeOf[c] = WalkerNode(v)' /\ conn'[c] # "new" /\ walk'[v].ev \in Events
    <3>1. WalkerNode(v)' = WalkerNode(v)
      BY <1>1 DEF WalkerNode
    <3>2. CASE v = w
      BY <1>1, <1>4, <1>9, <1>10, <2>1, <3>1, <3>2
    <3>3. CASE v # w
      BY <1>1, <1>10, <2>1, <3>1, <3>3 DEF Places
    <3> QED BY <3>2, <3>3
  <2>2. ASSUME NEW d \in Events, walk'[<<"call", d>>].todo # {}
        PROVE  walk'[<<"call", d>>].ev = d /\ phase'[d] = "done"
    <3>1. <<"call", d>> \in Walkers \ {w}
      BY DEF Walkers
    <3>2. walk'[<<"call", d>>] = walk[<<"call", d>>] /\ phase'[d] = phase[d]
      BY <1>1, <1>10, <3>1
    <3> QED BY <1>1, <2>2, <3>2 DEF Places
  <2> QED BY <2>1, <2>2 DEF Places
<1>13. ASSUME NEW c \in Clients, NEW d \in Events PROVE Copies(c, d)' <= Copies(c, d)
  <2>1. NodeOf[c] \in Nodes /\ Flag(NodeOf[c] = n /\ d = e) \in Nat
    BY HubConstants DEF Flag
  <2>2. /\ Called(NodeOf[c], d)' = Called(NodeOf[c], d) /\ Told(c, d)' = Told(c, d)
        /\ Subscribed(NodeOf[c], d)' = Subscribed(NodeOf[c], d)
    BY <1>1, Untouched
  <2>3. Carried(c, d)' <= Carried(c, d) + Flag(NodeOf[c] = n /\ d = e)
    BY <1>10
  <2>4. Queued(NodeOf[c], d) \in Nat /\ Queued(NodeOf[c], d)' \in Nat
    BY <1>1, <1>11, Numbers, NumbersNext
  <2>5. Queued(NodeOf[c], d)' + Flag(NodeOf[c] = n /\ d = e) <= Queued(NodeOf[c], d)
    <3>1. CASE NodeOf[c] = n
      <4>1. Count(Tail(s), d) + Flag(Head(s) = d) <= Count(s, d)
        BY <1>3, CountTail
      <4>2. Flag(NodeOf[c] = n /\ d = e) = Flag(Head(s) = d)
        BY <1>4, <3>1 DEF Flag
      <4>3. Count(t, d) \in Nat /\ Count(s, d) \in Nat
        BY CountNat
      <4>4. Queued(NodeOf[c], d)' + Count(s, d) = Queued(NodeOf[c], d) + Count(t, d)
        BY <1>3, <1>8, <2>1, <3>1
      <4>5. Count(t, d) + Flag(NodeOf[c] = n /\ d = e) <= Count(s, d)
        BY <1>5, <4>1, <4>2
      <4> QED BY <2>1, <2>4, <4>3, <4>4, <4>5
    <3>2. CASE NodeOf[c] # n
      BY <1>8, <2>1, <2>4, <3>2 DEF Flag
    <3> QED BY <3>1, <3>2
  <2>6. PICK f \in Nat : f = Flag(NodeOf[c] = n /\ d = e)
    BY <2>1
  <2> QED BY <1>1, <1>11, <2>2, <2>3, <2>5, <2>6, Moved
<1> QED BY <1>1, <1>11, <1>12, <1>13, NoNewCopies

-----------------------------------------------------------------------------
\* A walk puts a notice into a connection's channel, or drops it.
LEMMA VisitStep ==
  ASSUME HubInv, NEW w \in Walkers, NEW b \in Clients, Visit(w, b)
  PROVE  HubInv'
<1>1. /\ HubTypeOK /\ Places /\ UNCHANGED <<shared, up, phase, at, tries, conn, queue, redis, got>>
      /\ b \in walk[w].todo
  BY DEF HubInv, Visit
<1>2. PICK e \in Events : e = walk[w].ev
  BY <1>1 DEF Places
<1>3. NodeOf[b] = WalkerNode(w) /\ walk[w] \in [ev : Events \cup {NoEvent}, todo : SUBSET Clients]
  BY <1>1 DEF Places, HubTypeOK
<1>4. PICK x \in [ev : Events \cup {NoEvent}, todo : SUBSET Clients] :
        /\ walk' = [walk EXCEPT ![w] = x] /\ x.todo = walk[w].todo \ {b}
        /\ x.todo # {} => x.ev = e
  <2>1. CASE walk[w].todo = {b}
    <3>1. Rest \in [ev : Events \cup {NoEvent}, todo : SUBSET Clients] /\ Rest.todo = {}
      BY DEF Rest
    <3>2. walk' = [walk EXCEPT ![w] = Rest]
      BY <2>1 DEF Visit
    <3> QED BY <2>1, <3>1, <3>2
  <2>2. CASE walk[w].todo # {b}
    <3> DEFINE x == [walk[w] EXCEPT !.todo = walk[w].todo \ {b}]
    <3>1. /\ x \in [ev : Events \cup {NoEvent}, todo : SUBSET Clients] /\ x.ev = walk[w].ev
          /\ x.todo = walk[w].todo \ {b}
      BY <1>3
    <3>2. walk' = [walk EXCEPT ![w] = [walk[w] EXCEPT !.todo = walk[w].todo \ {b}]]
      <4>1. walk' = [walk EXCEPT ![w] = IF walk[w].todo = {b} THEN Rest ELSE [walk[w] EXCEPT !.todo = walk[w].todo \ {b}]]
        BY DEF Visit
      <4> QED BY <2>2, <4>1
    <3> QED BY <1>2, <3>1, <3>2
  <2> QED BY <2>1, <2>2
<1>5. /\ walk' \in [Walkers -> [ev : Events \cup {NoEvent}, todo : SUBSET Clients]]
      /\ walk'[w] = x /\ \A v \in Walkers \ {w} : walk'[v] = walk[v]
  BY <1>1, <1>4 DEF HubTypeOK
<1>6. PICK s \in Seq(Events) : s = send[b] /\ Len(s) <= SendSize
  BY <1>1 DEF HubTypeOK
<1>7. PICK t \in Seq(Events) :
        /\ send' = [send EXCEPT ![b] = t] /\ Len(t) <= SendSize
        /\ t = s \/ t = Append(s, e)
  <2>1. CASE send' = send
    <3>1. send' = [send EXCEPT ![b] = s]
      BY <1>1, <1>6, <2>1 DEF HubTypeOK
    <3> QED BY <1>6, <3>1
  <2>2. CASE Len(send[b]) < SendSize /\ send' = [send EXCEPT ![b] = Append(send[b], walk[w].ev)]
    <3>1. PICK t \in Seq(Events) : t = Append(s, e) /\ Len(t) = Len(s) + 1 /\ Len(s) \in Nat
      BY Channel
    <3>2. send' = [send EXCEPT ![b] = t]
      BY <1>2, <1>6, <2>2, <3>1
    <3>3. Len(t) <= SendSize
      BY <1>6, <2>2, <3>1, HubConstants
    <3> QED BY <3>1, <3>2, <3>3
  <2> QED BY <2>1, <2>2 DEF Visit
<1>8. /\ send' \in [Clients -> Seq(Events)] /\ send'[b] = t
      /\ \A c \in Clients \ {b} : send'[c] = send[c]
      /\ \A c \in Clients : Len(send'[c]) <= SendSize
  BY <1>1, <1>6, <1>7 DEF HubTypeOK
<1>9. owed' \subseteq Events \X Clients
  BY <1>1 DEF Visit, HubTypeOK
<1>10. HubTypeOK'
  BY <1>1, <1>5, <1>8, <1>9 DEF HubTypeOK
<1>11. Places'
  <2>1. ASSUME NEW v \in Walkers, NEW c \in walk'[v].todo
        PROVE  NodeOf[c] = WalkerNode(v)' /\ conn'[c] # "new" /\ walk'[v].ev \in Events
    <3>1. WalkerNode(v)' = WalkerNode(v)
      BY <1>1 DEF WalkerNode
    <3>2. c \in walk[v].todo
      BY <1>4, <1>5, <2>1
    <3>3. walk'[v].ev \in Events
      BY <1>1, <1>4, <1>5, <2>1, <3>2 DEF Places
    <3> QED BY <1>1, <3>1, <3>2, <3>3 DEF Places
  <2>2. ASSUME NEW d \in Events, walk'[<<"call", d>>].todo # {}
        PROVE  walk'[<<"call", d>>].ev = d /\ phase'[d] = "done"
    <3>1. <<"call", d>> \in Walkers
      BY DEF Walkers
    <3>2. CASE <<"call", d>> = w
      BY <1>1, <1>2, <1>4, <1>5, <2>2, <3>2 DEF Places
    <3>3. CASE <<"call", d>> # w
      BY <1>1, <1>5, <2>2, <3>1, <3>3 DEF Places
    <3> QED BY <3>2, <3>3
  <2> QED BY <2>1, <2>2 DEF Places
<1>12. w \in {<<"run", NodeOf[b]>>, <<"sub", NodeOf[b]>>, <<"call", e>>}
  <2>1. CASE w \in {"run", "sub"} \X Nodes
    BY <1>3, <2>1 DEF WalkerNode
  <2>2. CASE w \in {"call"} \X Events
    <3>1. PICK d \in Events : w = <<"call", d>>
      BY <2>2
    <3> QED BY <1>1, <1>2, <3>1 DEF Places
  <2> QED BY <2>1, <2>2 DEF Walkers
<1>13. ASSUME NEW c \in Clients, NEW d \in Events
       PROVE  Told(c, d)' <= Told(c, d) + Flag(c = b /\ d = e)
  <2>1. CASE c = b
    <3>1. Count(Append(s, e), d) = Count(s, d) + Flag(e = d) /\ Count(s, d) \in Nat
      <4>1. Count(Append(s, e), d) = Count(s, d) + Flag(e = d)
        BY CountAppend
      <4> QED BY <4>1, CountNat
    <3>2. Count(t, d) <= Count(s, d) + Flag(c = b /\ d = e)
      <4>1. Flag(c = b /\ d = e) = Flag(e = d) /\ Flag(e = d) \in Nat
        BY <2>1 DEF Flag
      <4>2. CASE t = s
        BY <3>1, <4>1, <4>2
      <4>3. CASE t = Append(s, e)
        <5>1. Count(t, d) = Count(s, d) + Flag(c = b /\ d = e)
          BY <3>1, <4>1, <4>3
        <5>2. Count(t, d) \in Nat
          BY CountNat
        <5> QED BY <5>1, <5>2
      <4> QED BY <1>7, <4>2, <4>3
    <3>3. got[c][d] \in Nat /\ Count(t, d) \in Nat /\ Flag(c = b /\ d = e) \in Nat
      BY <1>1, CountNat DEF HubTypeOK, Flag
    <3>4. Told(c, d) = got[c][d] + Count(s, d) /\ Told(c, d)' = got[c][d] + Count(t, d)
      BY <1>1, <1>6, <1>8, <2>1 DEF Told, Count
    <3> QED BY <3>1, <3>2, <3>3, <3>4
  <2>2. CASE c # b
    <3>1. Told(c, d)' = Told(c, d)
      BY <1>1, <1>8, <2>2 DEF Told, Count
    <3>2. Told(c, d) \in Nat
      BY <1>1, Numbers
    <3> QED BY <2>2, <3>1, <3>2 DEF Flag
  <2> QED BY <2>1, <2>2
<1>14. ASSUME NEW c \in Clients, NEW d \in Events
       PROVE  Carried(c, d)' + Flag(c = b /\ d = e) <= Carried(c, d)
  <2>1. \A v \in Walkers \ {w} : Carries(v, c, d)' => Carries(v, c, d)
    BY <1>1, <1>5 DEF Carries, WalkerNode
  <2>2. Carries(w, c, d)' => Carries(w, c, d)
    BY <1>1, <1>2, <1>4, <1>5 DEF Carries, WalkerNode
  <2>3. CASE c = b /\ d = e
    <3>1. Carries(w, b, e)
      BY <1>1, <1>2, <1>3 DEF Carries
    <3>2. CASE ~ Carries(w, b, e)'
      BY <1>12, <2>1, <2>3, <3>1, <3>2, OneWalker DEF Flag
    <3>3. CASE Carries(w, b, e)'
      <4>1. conn[b] = "new"
        BY <1>1, <1>4, <1>5, <3>3 DEF Carries
      <4> QED BY <1>1, <4>1 DEF Places
    <3> QED BY <3>2, <3>3
  <2>4. CASE ~ (c = b /\ d = e)
    <3>1. Carried(c, d)' <= Carried(c, d) /\ Carried(c, d)' \in Nat
      BY <2>1, <2>2, OneWalker, <1>10, NumbersNext
    <3> QED BY <2>4, <3>1 DEF Flag
  <2> QED BY <2>3, <2>4
<1>15. ASSUME NEW c \in Clients, NEW d \in Events PROVE Copies(c, d)' <= Copies(c, d)
  <2>1. PICK f \in Nat : f = Flag(c = b /\ d = e)
    BY DEF Flag
  <2>2. Told(c, d)' <= Told(c, d) + f /\ Carried(c, d)' + f <= Carried(c, d)
    BY <1>13, <1>14, <2>1
  <2>3. /\ Queued(NodeOf[c], d)' = Queued(NodeOf[c], d) /\ Subscribed(NodeOf[c], d)' = Subscribed(NodeOf[c], d)
        /\ Called(NodeOf[c], d)' = Called(NodeOf[c], d)
    BY <1>1, Untouched
  <2> QED BY <1>1, <1>10, <2>2, <2>3, Handed
<1> QED BY <1>1, <1>10, <1>11, <1>15, NoNewCopies
-----------------------------------------------------------------------------
\* The writer moves a notice from its channel to the socket.
LEMMA WriteStep ==
  ASSUME HubInv, NEW b \in Clients, Write(b)
  PROVE  HubInv'
<1>1. /\ HubTypeOK /\ Places /\ UNCHANGED <<shared, up, phase, at, tries, conn, queue, redis, walk>>
      /\ send[b] # <<>>
  BY DEF HubInv, Write
<1>2. PICK s \in Seq(Events) : s = send[b] /\ s # <<>> /\ Len(s) <= SendSize
  BY <1>1 DEF HubTypeOK
<1>3. PICK e \in Events : e = Head(s)
  BY <1>2, Channel
<1>4. PICK t \in Seq(Events) : t = Tail(s) /\ Len(t) = Len(s) - 1 /\ Len(s) \in Nat
  BY <1>2, Channel
<1>5. Len(t) <= SendSize
  BY <1>2, <1>4, HubConstants
<1>6. /\ send' \in [Clients -> Seq(Events)] /\ send'[b] = t
      /\ \A c \in Clients \ {b} : send'[c] = send[c]
      /\ \A c \in Clients : Len(send'[c]) <= SendSize
  <2>1. send' = [send EXCEPT ![b] = t]
    BY <1>2, <1>4 DEF Write
  <2> QED BY <1>1, <1>5, <2>1 DEF HubTypeOK
<1>7. /\ got' \in [Clients -> [Events -> Nat]]
      /\ \A c \in Clients, d \in Events : got'[c][d] = got[c][d] + Flag(c = b /\ d = e)
  <2>1. got' = [got EXCEPT ![b][e] = got[b][e] + 1]
    BY <1>2, <1>3 DEF Write
  <2>2. got \in [Clients -> [Events -> Nat]]
    BY <1>1 DEF HubTypeOK
  <2> QED BY <2>1, <2>2 DEF Flag
<1>8. owed' \subseteq Events \X Clients
  BY <1>1 DEF Write, HubTypeOK
<1>9. HubTypeOK'
  BY <1>1, <1>6, <1>7, <1>8 DEF HubTypeOK
<1>10. Places'
  BY <1>1 DEF Places, WalkerNode
<1>11. ASSUME NEW c \in Clients, NEW d \in Events PROVE Told(c, d)' <= Told(c, d)
  <2>1. CASE c = b
    <3>1. PICK f \in Nat : f = Flag(c = b /\ d = e) /\ f = Flag(Head(s) = d)
      BY <1>3, <2>1 DEF Flag
    <3>2. Count(Tail(s), d) + Flag(Head(s) = d) <= Count(s, d)
      BY <1>2, CountTail
    <3>3. Count(t, d) + f <= Count(s, d)
      BY <1>4, <3>1, <3>2
    <3>4. PICK x \in Nat, y \in Nat : x = Count(s, d) /\ y = Count(t, d)
      BY CountNat
    <3>5. got[c][d] \in Nat /\ got'[c][d] = got[c][d] + f
      BY <1>1, <1>7, <3>1 DEF HubTypeOK
    <3>6. Told(c, d) = got[c][d] + x /\ Told(c, d)' = got'[c][d] + y
      BY <1>2, <1>6, <2>1, <3>4 DEF Told, Count
    <3> QED BY <3>3, <3>4, <3>5, <3>6
  <2>2. CASE c # b
    <3>1. Flag(c = b /\ d = e) = 0
      BY <2>2 DEF Flag
    <3>2. got[c][d] \in Nat /\ got'[c][d] = got[c][d]
      BY <1>1, <1>7, <3>1 DEF HubTypeOK
    <3>3. Told(c, d)' = Told(c, d)
      BY <1>6, <2>2, <3>2 DEF Told, Count
    <3>4. Told(c, d) \in Nat
      BY <1>1, Numbers
    <3> QED BY <3>3, <3>4
  <2> QED BY <2>1, <2>2
<1>12. ASSUME NEW c \in Clients, NEW d \in Events PROVE Copies(c, d)' <= Copies(c, d)
  <2>1. Told(c, d)' <= Told(c, d)
    BY <1>11
  <2>2. /\ Queued(NodeOf[c], d)' = Queued(NodeOf[c], d) /\ Subscribed(NodeOf[c], d)' = Subscribed(NodeOf[c], d)
        /\ Called(NodeOf[c], d)' = Called(NodeOf[c], d) /\ Carried(c, d)' = Carried(c, d)
    BY <1>1, Untouched
  <2> QED BY <1>1, <1>9, <2>1, <2>2, Fewer
<1> QED BY <1>1, <1>9, <1>10, <1>12, NoNewCopies

-----------------------------------------------------------------------------
\* A connection that comes takes a copy from the walks that find it, where one was
\* counted for it before.
LEMMA RegisterStep ==
  ASSUME HubInv, NEW b \in Clients, Register(b)
  PROVE  HubInv'
<1>1. HubTypeOK /\ Places /\ conn[b] = "new" /\ UNCHANGED <<shared, up, phase, at, tries, queue, redis, send, got, owed>>
  BY DEF HubInv, Register
<1>2. /\ conn' \in [Clients -> {"new", "on", "off"}] /\ conn'[b] = "on"
      /\ \A c \in Clients \ {b} : conn'[c] = conn[c]
  BY <1>1 DEF Register, HubTypeOK
<1>3. PICK S \in SUBSET Walking(NodeOf[b]) :
        walk' = [w \in Walkers |-> IF w \in S THEN [walk[w] EXCEPT !.todo = walk[w].todo \cup {b}] ELSE walk[w]]
  BY DEF Register
<1>4. ASSUME NEW w \in Walkers
      PROVE  /\ walk'[w] \in [ev : Events \cup {NoEvent}, todo : SUBSET Clients]
             /\ walk'[w].ev = walk[w].ev
             /\ walk'[w].todo = walk[w].todo \/ (w \in S /\ walk'[w].todo = walk[w].todo \cup {b})
  <2>1. walk[w] \in [ev : Events \cup {NoEvent}, todo : SUBSET Clients]
    BY <1>1 DEF HubTypeOK
  <2>2. walk'[w] = IF w \in S THEN [walk[w] EXCEPT !.todo = walk[w].todo \cup {b}] ELSE walk[w]
    BY <1>3
  <2> QED BY <2>1, <2>2
<1>5. walk' \in [Walkers -> [ev : Events \cup {NoEvent}, todo : SUBSET Clients]]
  BY <1>3, <1>4
<1>6. \A w \in S : w \in Walkers /\ walk[w].todo # {} /\ WalkerNode(w) = NodeOf[b]
  BY <1>3 DEF Walking, Resting
<1>7. HubTypeOK'
  BY <1>1, <1>2, <1>5 DEF HubTypeOK
<1>8. Places'
  <2>1. ASSUME NEW w \in Walkers, NEW c \in walk'[w].todo
        PROVE  NodeOf[c] = WalkerNode(w)' /\ conn'[c] # "new" /\ walk'[w].ev \in Events
    <3>1. WalkerNode(w)' = WalkerNode(w)
      BY <1>1 DEF WalkerNode
    <3>2. CASE c \in walk[w].todo
      <4>1. NodeOf[c] = WalkerNode(w) /\ conn[c] # "new" /\ walk[w].ev \in Events /\ c \in Clients
        BY <1>1, <3>2 DEF Places, HubTypeOK
      <4> QED BY <1>2, <1>4, <3>1, <4>1
    <3>3. CASE c = b /\ w \in S
      <4>1. walk[w].ev \in Events
        BY <1>1, <1>6, <3>3 DEF Places
      <4> QED BY <1>2, <1>4, <1>6, <3>1, <3>3, <4>1
    <3> QED BY <1>4, <2>1, <3>2, <3>3
  <2>2. ASSUME NEW d \in Events, walk'[<<"call", d>>].todo # {}
        PROVE  walk'[<<"call", d>>].ev = d /\ phase'[d] = "done"
    <3>1. <<"call", d>> \in Walkers
      BY DEF Walkers
    <3>2. walk[<<"call", d>>].todo # {} /\ walk'[<<"call", d>>].ev = walk[<<"call", d>>].ev
      BY <1>4, <1>6, <2>2, <3>1
    <3> QED BY <1>1, <3>2 DEF Places
  <2> QED BY <2>1, <2>2 DEF Places
<1>9. ASSUME NEW c \in Clients, NEW d \in Events PROVE Copies(c, d)' <= Copies(c, d)
  <2>1. ASSUME NEW w \in Walkers, Carries(w, c, d)' PROVE Carries(w, c, d)
    <3>1. WalkerNode(w)' = WalkerNode(w)
      BY <1>1 DEF WalkerNode
    <3>2. walk[w].ev = d /\ WalkerNode(w) = NodeOf[c]
      BY <1>4, <2>1, <3>1 DEF Carries
    <3>3. c \in walk'[w].todo \/ (conn'[c] = "new" /\ walk'[w].todo # {})
      BY <2>1 DEF Carries
    <3>4. c \in walk[w].todo \/ (conn[c] = "new" /\ walk[w].todo # {})
      BY <1>1, <1>2, <1>4, <1>6, <3>3
    <3> QED BY <3>2, <3>4 DEF Carries
  <2>2. Carried(c, d)' <= Carried(c, d)
    BY <2>1, CarriedLess
  <2>3. /\ Queued(NodeOf[c], d)' = Queued(NodeOf[c], d) /\ Subscribed(NodeOf[c], d)' = Subscribed(NodeOf[c], d)
        /\ Called(NodeOf[c], d)' = Called(NodeOf[c], d) /\ Told(c, d)' = Told(c, d)
    BY <1>1, Untouched
  <2> QED BY <1>1, <1>7, <2>2, <2>3, Fewer
<1> QED BY <1>1, <1>7, <1>8, <1>9, NoNewCopies

\* Connections that end hold no copies.
LEMMA EndEffect ==
  ASSUME HubTypeOK, NEW C \in SUBSET Clients, End(C)
  PROVE  /\ conn' \in [Clients -> {"new", "on", "off"}]
         /\ \A c \in Clients : conn'[c] = "new" => conn[c] = "new"
         /\ send' \in [Clients -> Seq(Events)] /\ \A c \in Clients : Len(send'[c]) <= SendSize
         /\ got' \in [Clients -> [Events -> Nat]]
         /\ owed' \subseteq Events \X Clients
         /\ \A c \in Clients, d \in Events : Told(c, d)' <= Told(c, d)
<1>1. conn' \in [Clients -> {"new", "on", "off"}] /\ \A c \in Clients : conn'[c] = "new" => conn[c] = "new"
  BY DEF End, HubTypeOK
<1>2. Len(<<>>) = 0 /\ <<>> \in Seq(Events)
  OBVIOUS
<1>3. send' \in [Clients -> Seq(Events)] /\ \A c \in Clients : send'[c] = IF c \in C THEN <<>> ELSE send[c]
  BY <1>2 DEF End, HubTypeOK
<1>4. \A c \in Clients : Len(send'[c]) <= SendSize
  BY <1>2, <1>3, HubConstants DEF HubTypeOK
<1>5. Unheard \in [Events -> Nat] /\ \A d \in Events : Unheard[d] = 0
  BY DEF Unheard
<1>6. /\ got' \in [Clients -> [Events -> Nat]]
      /\ \A c \in Clients : got'[c] = IF c \in C THEN Unheard ELSE got[c]
  BY <1>5 DEF End, HubTypeOK
<1>7. owed' \subseteq Events \X Clients
  BY DEF End, HubTypeOK
<1>8. ASSUME NEW c \in Clients, NEW d \in Events PROVE Told(c, d)' <= Told(c, d)
  <2>1. Told(c, d) \in Nat
    BY Numbers
  <2>2. CASE c \in C
    <3>1. Told(c, d)' = got'[c][d] + Count(<<>>, d)
      BY <1>3, <2>2 DEF Told, Count
    <3>2. got'[c][d] = 0 /\ Count(<<>>, d) = 0
      BY <1>5, <1>6, <2>2, CountEmpty
    <3> QED BY <2>1, <3>1, <3>2
  <2>3. CASE c \notin C
    <3>1. Told(c, d)' = Told(c, d)
      BY <1>3, <1>6, <2>3 DEF Told, Count
    <3> QED BY <2>1, <3>1
  <2> QED BY <2>2, <2>3
<1> QED BY <1>1, <1>3, <1>4, <1>6, <1>7, <1>8

\* Walkers that go on with a part of what they had to visit, or rest.
LEMMA FewerWalks ==
  ASSUME HubTypeOK, Places, UNCHANGED at,
         \A c \in Clients : conn'[c] = "new" => conn[c] = "new",
         \A d \in Events : phase[d] = "done" => phase'[d] = "done",
         \A w \in Walkers :
           /\ walk'[w].todo \subseteq walk[w].todo
           /\ walk'[w].todo # {} => walk'[w].ev = walk[w].ev
  PROVE  /\ Places'
         /\ \A c \in Clients, d \in Events : Carried(c, d)' <= Carried(c, d)
<1>1. ASSUME NEW w \in Walkers PROVE WalkerNode(w)' = WalkerNode(w)
  BY DEF WalkerNode
<1>2. ASSUME NEW w \in Walkers, NEW c \in walk'[w].todo
      PROVE  NodeOf[c] = WalkerNode(w)' /\ conn'[c] # "new" /\ walk'[w].ev \in Events
  <2>1. c \in walk[w].todo /\ walk'[w].ev = walk[w].ev
    BY <1>2
  <2>2. NodeOf[c] = WalkerNode(w) /\ conn[c] # "new" /\ walk[w].ev \in Events /\ c \in Clients
    BY <2>1 DEF Places, HubTypeOK
  <2> QED BY <1>1, <2>1, <2>2
<1>3. ASSUME NEW d \in Events, walk'[<<"call", d>>].todo # {}
      PROVE  walk'[<<"call", d>>].ev = d /\ phase'[d] = "done"
  <2>1. <<"call", d>> \in Walkers
    BY DEF Walkers
  <2>2. walk[<<"call", d>>].todo # {} /\ walk'[<<"call", d>>].ev = walk[<<"call", d>>].ev
    BY <1>3, <2>1
  <2> QED BY <2>2 DEF Places
<1>4. ASSUME NEW c \in Clients, NEW d \in Events PROVE Carried(c, d)' <= Carried(c, d)
  <2>1. ASSUME NEW w \in Walkers, Carries(w, c, d)' PROVE Carries(w, c, d)
    <3>1. walk'[w].ev = d /\ WalkerNode(w) = NodeOf[c]
      BY <1>1, <2>1 DEF Carries
    <3>2. c \in walk'[w].todo \/ (conn'[c] = "new" /\ walk'[w].todo # {})
      BY <2>1 DEF Carries
    <3>3. walk'[w].todo \subseteq walk[w].todo /\ (walk'[w].todo # {} => walk'[w].ev = walk[w].ev)
      OBVIOUS
    <3> QED BY <3>1, <3>2, <3>3 DEF Carries
  <2> QED BY <2>1, CarriedLess
<1> QED BY <1>2, <1>3, <1>4 DEF Places

\* A connection goes; a walk may leave it out.
LEMMA UnregisterStep ==
  ASSUME HubInv, NEW b \in Clients, Unregister(b)
  PROVE  HubInv'
<1>1. HubTypeOK /\ Places /\ End({b}) /\ UNCHANGED <<shared, up, phase, at, tries, queue, redis>>
  BY DEF HubInv, Unregister
<1>2. PICK S :
        walk' = [w \in Walkers |-> IF w \notin S THEN walk[w]
                                   ELSE IF walk[w].todo = {b} THEN Rest
                                   ELSE [walk[w] EXCEPT !.todo = walk[w].todo \ {b}]]
  BY DEF Unregister
<1>3. ASSUME NEW w \in Walkers
      PROVE  /\ walk'[w] \in [ev : Events \cup {NoEvent}, todo : SUBSET Clients]
             /\ walk'[w].todo \subseteq walk[w].todo
             /\ walk'[w].todo # {} => walk'[w].ev = walk[w].ev
  <2>1. walk[w] \in [ev : Events \cup {NoEvent}, todo : SUBSET Clients]
    BY <1>1 DEF HubTypeOK
  <2>2. \/ walk'[w] = walk[w]
        \/ walk'[w] = Rest
        \/ walk'[w] = [walk[w] EXCEPT !.todo = walk[w].todo \ {b}]
    BY <1>2
  <2>3. Rest \in [ev : Events \cup {NoEvent}, todo : SUBSET Clients] /\ Rest.todo = {}
    BY DEF Rest
  <2> QED BY <2>1, <2>2, <2>3
<1>4. walk' \in [Walkers -> [ev : Events \cup {NoEvent}, todo : SUBSET Clients]]
  BY <1>2, <1>3
<1>5. /\ conn' \in [Clients -> {"new", "on", "off"}]
      /\ \A c \in Clients : conn'[c] = "new" => conn[c] = "new"
      /\ send' \in [Clients -> Seq(Events)] /\ \A c \in Clients : Len(send'[c]) <= SendSize
      /\ got' \in [Clients -> [Events -> Nat]]
      /\ owed' \subseteq Events \X Clients
      /\ \A c \in Clients, d \in Events : Told(c, d)' <= Told(c, d)
  BY <1>1, EndEffect
<1>6. HubTypeOK'
  BY <1>1, <1>4, <1>5 DEF HubTypeOK
<1>7. Places' /\ \A c \in Clients, d \in Events : Carried(c, d)' <= Carried(c, d)
  BY <1>1, <1>3, <1>5, FewerWalks
<1>8. ASSUME NEW c \in Clients, NEW d \in Events PROVE Copies(c, d)' <= Copies(c, d)
  <2>1. Carried(c, d)' <= Carried(c, d) /\ Told(c, d)' <= Told(c, d)
    BY <1>5, <1>7
  <2>2. /\ Queued(NodeOf[c], d)' = Queued(NodeOf[c], d) /\ Subscribed(NodeOf[c], d)' = Subscribed(NodeOf[c], d)
        /\ Called(NodeOf[c], d)' = Called(NodeOf[c], d)
    BY <1>1, Untouched
  <2> QED BY <1>1, <1>6, <2>1, <2>2, Fewer
<1> QED BY <1>1, <1>6, <1>7, <1>8, NoNewCopies
\* A server stops, with its channels, its walks and its connections.
LEMMA StopStep ==
  ASSUME HubInv, NEW n \in Nodes, Stop(n)
  PROVE  HubInv'
<1> DEFINE C == {c \in Clients : NodeOf[c] = n}
<1>1. HubTypeOK /\ Places /\ C \in SUBSET Clients /\ End(C) /\ UNCHANGED <<shared, phase, at, tries>> /\ up' \subseteq up
  BY DEF HubInv, Stop
<1> HIDE DEF C
<1>2. ASSUME NEW w \in Walkers
      PROVE  /\ walk'[w] \in [ev : Events \cup {NoEvent}, todo : SUBSET Clients]
             /\ walk'[w].todo \subseteq walk[w].todo
             /\ walk'[w].todo # {} => walk'[w].ev = walk[w].ev
  <2>1. walk[w] \in [ev : Events \cup {NoEvent}, todo : SUBSET Clients]
    BY <1>1 DEF HubTypeOK
  <2>2. walk'[w] = walk[w] \/ walk'[w] = Rest
    BY DEF Stop
  <2>3. Rest \in [ev : Events \cup {NoEvent}, todo : SUBSET Clients] /\ Rest.todo = {}
    BY DEF Rest
  <2> QED BY <2>1, <2>2, <2>3
<1>3. walk' \in [Walkers -> [ev : Events \cup {NoEvent}, todo : SUBSET Clients]]
  BY <1>2 DEF Stop
<1>4. /\ conn' \in [Clients -> {"new", "on", "off"}]
      /\ \A c \in Clients : conn'[c] = "new" => conn[c] = "new"
      /\ send' \in [Clients -> Seq(Events)] /\ \A c \in Clients : Len(send'[c]) <= SendSize
      /\ got' \in [Clients -> [Events -> Nat]]
      /\ owed' \subseteq Events \X Clients
      /\ \A c \in Clients, d \in Events : Told(c, d)' <= Told(c, d)
  BY <1>1, EndEffect
<1>5. Len(<<>>) = 0 /\ <<>> \in Seq(Events)
  OBVIOUS
<1>6. /\ queue' \in [Nodes -> [Queues -> Seq(Events)]]
      /\ \A m \in Nodes, k \in Queues : queue'[m][k] = IF m = n THEN <<>> ELSE queue[m][k]
  BY <1>1, <1>5 DEF Stop, HubTypeOK
<1>7. \A m \in Nodes, k \in Queues : Len(queue'[m][k]) <= QueueSize
  BY <1>1, <1>5, <1>6, HubConstants DEF HubTypeOK
<1>8. redis' \in [Nodes -> Seq(Events)] /\ \A m \in Nodes : redis'[m] = IF m = n THEN <<>> ELSE redis[m]
  BY <1>1, <1>5 DEF Stop, HubTypeOK
<1>9. HubTypeOK'
  BY <1>1, <1>3, <1>4, <1>6, <1>7, <1>8 DEF HubTypeOK
<1>10. Places' /\ \A c \in Clients, d \in Events : Carried(c, d)' <= Carried(c, d)
  BY <1>1, <1>2, <1>4, FewerWalks
<1>11. ASSUME NEW c \in Clients, NEW d \in Events PROVE Copies(c, d)' <= Copies(c, d)
  <2>1. PICK m \in Nodes : m = NodeOf[c]
    BY HubConstants
  <2>2. Carried(c, d)' <= Carried(c, d) /\ Told(c, d)' <= Told(c, d)
    BY <1>4, <1>10
  <2>3. Called(m, d)' = Called(m, d)
    BY <1>1, Untouched
  <2>4. /\ Queued(m, d)' = Queued(m, d) \/ Queued(m, d)' <= Queued(m, d)
        /\ Subscribed(m, d)' = Subscribed(m, d) \/ Subscribed(m, d)' <= Subscribed(m, d)
    <3>1. CASE m = n
      <4>1. Queued(m, d)' = Count(<<>>, d) + Count(<<>>, d) /\ Subscribed(m, d)' = Count(<<>>, d)
        BY <1>6, <1>8, <3>1 DEF Queued, Subscribed, Count, Queues
      <4>2. Queued(m, d) \in Nat /\ Subscribed(m, d) \in Nat
        BY <1>1, <2>1, Numbers
      <4> QED BY <4>1, <4>2, CountEmpty
    <3>2. CASE m # n
      BY <1>6, <1>8, <3>2 DEF Queued, Subscribed, Count, Queues
    <3> QED BY <3>1, <3>2
  <2> QED BY <1>1, <1>9, <2>1, <2>2, <2>3, <2>4, Fewer
<1> QED BY <1>1, <1>9, <1>10, <1>11, NoNewCopies

-----------------------------------------------------------------------------
\* A call begins: one copy for its own server.
LEMMA CallStep ==
  ASSUME HubInv, NEW e \in Events, Call(e)
  PROVE  HubInv'
<1>1. /\ HubTypeOK /\ Places /\ Attempted /\ phase[e] = "new"
      /\ UNCHANGED <<shared, up, tries, conn, queue, redis, walk, send, got>>
  BY DEF HubInv, Call
<1>2. PICK n \in up : at' = [at EXCEPT ![e] = n] /\ owed' = owed \cup ({e} \X On(n))
  BY DEF Call
<1>3. n \in Nodes
  BY <1>1, <1>2 DEF HubTypeOK
<1>4. at' \in [Events -> Nodes \cup {NoEvent}] /\ at'[e] = n /\ \A d \in Events \ {e} : at'[d] = at[d]
  BY <1>1, <1>2, <1>3 DEF HubTypeOK
<1>5. /\ phase' \in [Events -> {"new", "publish", "local", "done"}]
      /\ phase'[e] = IF shared THEN "publish" ELSE "local"
      /\ \A d \in Events \ {e} : phase'[d] = phase[d]
  BY <1>1 DEF Call, HubTypeOK
<1>6. owed' \subseteq Events \X Clients
  BY <1>1, <1>2 DEF HubTypeOK, On
<1>7. HubTypeOK'
  BY <1>1, <1>4, <1>5, <1>6 DEF HubTypeOK
<1>8. Attempted'
  BY <1>1, <1>5 DEF Attempted
<1>9. ASSUME NEW w \in Walkers PROVE WalkerNode(w)' = WalkerNode(w) \/ walk[w].todo = {}
  <2>1. CASE w \in {"run", "sub"} \X Nodes
    BY <2>1 DEF WalkerNode
  <2>2. CASE w \in {"call"} \X Events
    <3>1. PICK d \in Events : w = <<"call", d>>
      BY <2>2
    <3>2. CASE d = e
      BY <1>1, <3>1, <3>2 DEF Places
    <3>3. CASE d # e
      BY <1>4, <3>1, <3>3 DEF WalkerNode
    <3> QED BY <3>2, <3>3
  <2> QED BY <2>1, <2>2 DEF Walkers
<1>10. Places'
  <2>1. ASSUME NEW w \in Walkers, NEW c \in walk'[w].todo
        PROVE  NodeOf[c] = WalkerNode(w)' /\ conn'[c] # "new" /\ walk'[w].ev \in Events
    BY <1>1, <1>9, <2>1 DEF Places
  <2>2. ASSUME NEW d \in Events, walk'[<<"call", d>>].todo # {}
        PROVE  walk'[<<"call", d>>].ev = d /\ phase'[d] = "done"
    BY <1>1, <1>5, <2>2 DEF Places
  <2> QED BY <2>1, <2>2 DEF Places
<1>11. ASSUME NEW c \in Clients, NEW d \in Events
       PROVE  Carried(c, d)' <= Carried(c, d) /\ Carried(c, d)' \in Nat /\ Carried(c, d) \in Nat
  <2>1. ASSUME NEW w \in Walkers, Carries(w, c, d)' PROVE Carries(w, c, d)
    <3>1. /\ walk'[w].ev = d /\ WalkerNode(w)' = NodeOf[c]
          /\ c \in walk'[w].todo \/ (conn'[c] = "new" /\ walk'[w].todo # {})
      BY <2>1 DEF Carries
    <3>2. walk[w].todo # {}
      BY <1>1, <3>1
    <3>3. WalkerNode(w) = NodeOf[c]
      BY <1>9, <3>1, <3>2
    <3> QED BY <1>1, <3>1, <3>3 DEF Carries
  <2> QED BY <1>1, <1>7, <2>1, CarriedLess, AllNumbers
<1>12. ASSUME NEW c \in Clients, NEW d \in Events
       PROVE  /\ Told(c, d)' = Told(c, d) /\ Queued(NodeOf[c], d)' = Queued(NodeOf[c], d)
              /\ Subscribed(NodeOf[c], d)' = Subscribed(NodeOf[c], d)
  BY <1>1, Untouched
<1>13. ASSUME NEW c \in Clients, NEW d \in Events
       PROVE  /\ Copies(c, d)' <= Made(c, d)'
              /\ phase'[d] = "new" => Copies(c, d)' = 0
  <2>1. /\ Told(c, d) \in Nat /\ Queued(NodeOf[c], d) \in Nat /\ Subscribed(NodeOf[c], d) \in Nat
        /\ Carried(c, d) \in Nat /\ Called(NodeOf[c], d) \in Nat
        /\ Told(c, d)' \in Nat /\ Queued(NodeOf[c], d)' \in Nat /\ Subscribed(NodeOf[c], d)' \in Nat
        /\ Carried(c, d)' \in Nat /\ Called(NodeOf[c], d)' \in Nat
    BY <1>1, <1>7, AllNumbers
  <2>2. Copies(c, d) <= Made(c, d) /\ (phase[d] = "new" => Copies(c, d) = 0) /\ tries[d] \in Nat
    BY <1>1 DEF HubInv, HubTypeOK
  <2>3. CASE d # e
    <3>1. Called(NodeOf[c], d)' = Called(NodeOf[c], d)
      BY <1>4, <1>5, <2>3 DEF Called, Flag
    <3>2. Copies(c, d)' <= Copies(c, d) /\ Copies(c, d) \in Nat /\ Copies(c, d)' \in Nat
      BY <1>11, <1>12, <2>1, <3>1 DEF Copies
    <3>3. Made(c, d)' = Made(c, d) /\ Made(c, d) \in Nat /\ phase'[d] = phase[d]
      BY <1>1, <1>4, <1>5, <2>2, <2>3 DEF Made, Flag
    <3> QED BY <2>2, <3>2, <3>3
  <2>4. CASE d = e
    <3>1. /\ Told(c, d) = 0 /\ Queued(NodeOf[c], d) = 0 /\ Subscribed(NodeOf[c], d) = 0
          /\ Carried(c, d) = 0
      BY <1>1, <2>2, <2>4, NoCopies
    <3>2. Called(NodeOf[c], d)' = Flag(NodeOf[c] = n)
      BY <1>4, <1>5, <2>4 DEF Called, Flag
    <3>3. Copies(c, d)' = Flag(NodeOf[c] = n)
      BY <1>11, <1>12, <2>1, <3>1, <3>2 DEF Copies
    <3>4. Made(c, d)' = tries[d] + Flag(NodeOf[c] = n)
      BY <1>1, <1>4, <2>4 DEF Made
    <3>5. phase'[d] # "new"
      BY <1>5, <2>4
    <3> QED BY <2>2, <3>3, <3>4, <3>5 DEF Flag
  <2> QED BY <2>3, <2>4
<1> QED BY <1>7, <1>8, <1>10, <1>13 DEF HubInv

\* An event is sent to Redis: one copy for each subscription that it reaches.
LEMMA PublishStep ==
  ASSUME HubInv, NEW e \in Events, Publish(e)
  PROVE  HubInv'
<1>1. /\ HubTypeOK /\ Places /\ Attempted /\ phase[e] = "publish"
      /\ UNCHANGED <<shared, up, at, conn, queue, walk, send, got>>
  BY DEF HubInv, Publish
<1>2. PICK S \in SUBSET up :
        /\ redis' = [m \in Nodes |-> IF m \in S THEN Append(redis[m], e) ELSE redis[m]]
        /\ owed' = owed \cup ({e} \X UNION {On(m) : m \in S})
  BY DEF Publish
<1>3. PICK p \in {"publish", "local"} :
        /\ p = "publish" => tries[e] + 1 < Attempts[e]
        /\ phase' = [phase EXCEPT ![e] = p]
  BY DEF Publish
<1>4. tries' \in [Events -> Nat] /\ tries'[e] = tries[e] + 1 /\ \A d \in Events \ {e} : tries'[d] = tries[d]
  BY <1>1 DEF Publish, HubTypeOK
<1>5. /\ phase' \in [Events -> {"new", "publish", "local", "done"}] /\ phase'[e] = p
      /\ \A d \in Events \ {e} : phase'[d] = phase[d]
  BY <1>1, <1>3 DEF HubTypeOK
<1>6. redis' \in [Nodes -> Seq(Events)]
  <2>1. \A m \in Nodes : redis[m] \in Seq(Events)
    BY <1>1 DEF HubTypeOK
  <2>2. \A m \in Nodes : Append(redis[m], e) \in Seq(Events)
    BY <2>1, Channel
  <2> QED BY <1>2, <2>1, <2>2
<1>7. owed' \subseteq Events \X Clients
  BY <1>1, <1>2 DEF HubTypeOK, On
<1>8. HubTypeOK'
  BY <1>1, <1>4, <1>5, <1>6, <1>7 DEF HubTypeOK
<1>9. Attempted'
  <2>1. ASSUME NEW d \in Events
        PROVE  /\ tries'[d] <= IF shared THEN Attempts[d] ELSE 0
               /\ phase'[d] = "publish" => shared
               /\ shared /\ phase'[d] \in {"new", "publish"} => tries'[d] < Attempts[d]
    <3>1. Attempts[d] \in Nat /\ tries[d] \in Nat
      BY <1>1, HubConstants DEF HubTypeOK
    <3>2. CASE d = e
      BY <1>1, <1>3, <1>4, <1>5, <3>1, <3>2 DEF Attempted
    <3>3. CASE d # e
      BY <1>1, <1>4, <1>5, <3>3 DEF Attempted
    <3> QED BY <3>2, <3>3
  <2> QED BY <1>1, <2>1 DEF Attempted
<1>10. Places'
  <2>1. \A w \in Walkers : WalkerNode(w)' = WalkerNode(w)
    BY <1>1 DEF WalkerNode
  <2>2. ASSUME NEW w \in Walkers, NEW c \in walk'[w].todo
        PROVE  NodeOf[c] = WalkerNode(w)' /\ conn'[c] # "new" /\ walk'[w].ev \in Events
    BY <1>1, <2>1, <2>2 DEF Places
  <2>3. ASSUME NEW d \in Events, walk'[<<"call", d>>].todo # {}
        PROVE  walk'[<<"call", d>>].ev = d /\ phase'[d] = "done"
    BY <1>1, <1>5, <2>3 DEF Places
  <2> QED BY <2>2, <2>3 DEF Places
<1>11. ASSUME NEW c \in Clients, NEW d \in Events
       PROVE  Called(NodeOf[c], d)' = Called(NodeOf[c], d)
  BY <1>1, <1>3, <1>5 DEF Called, Flag
<1>12. ASSUME NEW c \in Clients, NEW d \in Events
       PROVE  /\ Told(c, d)' = Told(c, d) /\ Queued(NodeOf[c], d)' = Queued(NodeOf[c], d)
              /\ Carried(c, d)' = Carried(c, d)
  BY <1>1, Untouched
<1>13. ASSUME NEW c \in Clients, NEW d \in Events
       PROVE  Subscribed(NodeOf[c], d)' = Subscribed(NodeOf[c], d) + Flag(d = e /\ NodeOf[c] \in S)
  <2>1. PICK m \in Nodes : m = NodeOf[c]
    BY HubConstants
  <2>2. PICK s \in Seq(Events) : s = redis[m]
    BY <1>1 DEF HubTypeOK
  <2>3. CASE m \in S
    <3>1. Subscribed(m, d) = Count(s, d) /\ Subscribed(m, d)' = Count(Append(s, e), d)
      BY <1>2, <2>2, <2>3 DEF Subscribed, Count
    <3>2. Count(Append(s, e), d) = Count(s, d) + Flag(e = d)
      BY CountAppend
    <3>3. Flag(d = e /\ NodeOf[c] \in S) = Flag(e = d)
      BY <2>1, <2>3 DEF Flag
    <3> QED BY <2>1, <3>1, <3>2, <3>3
  <2>4. CASE m \notin S
    <3>1. Subscribed(m, d)' = Subscribed(m, d)
      BY <1>2, <2>4 DEF Subscribed, Count
    <3>2. Subscribed(m, d) \in Nat
      BY <1>1, <2>1, Numbers
    <3>3. Flag(d = e /\ NodeOf[c] \in S) = 0
      BY <2>1, <2>4 DEF Flag
    <3> QED BY <2>1, <3>1, <3>2, <3>3
  <2> QED BY <2>3, <2>4
<1>14. ASSUME NEW c \in Clients, NEW d \in Events
       PROVE  /\ Copies(c, d)' <= Made(c, d)'
              /\ phase'[d] = "new" => Copies(c, d)' = 0
  <2>1. /\ Told(c, d) \in Nat /\ Queued(NodeOf[c], d) \in Nat /\ Subscribed(NodeOf[c], d) \in Nat
        /\ Carried(c, d) \in Nat /\ Called(NodeOf[c], d) \in Nat
        /\ Told(c, d)' \in Nat /\ Queued(NodeOf[c], d)' \in Nat /\ Subscribed(NodeOf[c], d)' \in Nat
        /\ Carried(c, d)' \in Nat /\ Called(NodeOf[c], d)' \in Nat
    BY <1>1, <1>8, AllNumbers
  <2>2. Copies(c, d) <= Made(c, d) /\ (phase[d] = "new" => Copies(c, d) = 0) /\ tries[d] \in Nat
    BY <1>1 DEF HubInv, HubTypeOK
  <2>3. PICK f \in Nat : f = Flag(d = e /\ NodeOf[c] \in S)
    BY DEF Flag
  <2>4. PICK i1 \in Nat, i2 \in Nat : i1 = Copies(c, d) /\ i2 = Copies(c, d)'
    BY <2>1 DEF Copies
  <2>5. i2 = i1 + f
    BY <1>11, <1>12, <1>13, <2>1, <2>3, <2>4 DEF Copies
  <2>6. CASE d = e
    <3>1. Made(c, d)' = Made(c, d) + 1 /\ Made(c, d) \in Nat
      BY <1>1, <1>4, <2>2, <2>6 DEF Made, Flag
    <3>2. f <= 1
      BY <2>3 DEF Flag
    <3>3. phase'[d] # "new"
      BY <1>5, <2>6
    <3> QED BY <2>2, <2>4, <2>5, <3>1, <3>2, <3>3
  <2>7. CASE d # e
    <3>1. Made(c, d)' = Made(c, d) /\ Made(c, d) \in Nat /\ phase'[d] = phase[d]
      BY <1>1, <1>4, <1>5, <2>2, <2>7 DEF Made, Flag
    <3>2. f = 0
      BY <2>3, <2>7 DEF Flag
    <3> QED BY <2>2, <2>4, <2>5, <3>1, <3>2
  <2> QED BY <2>6, <2>7
<1> QED BY <1>8, <1>9, <1>10, <1>14 DEF HubInv

-----------------------------------------------------------------------------
\* No copies at first.
LEMMA InitHubInv ==
  ASSUME HubInit
  PROVE  HubInv
<1>1. Len(<<>>) = 0 /\ <<>> \in Seq(Events)
  OBVIOUS
<1>2. Rest \in [ev : Events \cup {NoEvent}, todo : SUBSET Clients] /\ Rest.todo = {}
  BY DEF Rest
<1>3. Unheard \in [Events -> Nat] /\ \A d \in Events : Unheard[d] = 0
  BY DEF Unheard
<1>4. HubTypeOK
  <2>1. queue \in [Nodes -> [Queues -> Seq(Events)]] /\ \A n \in Nodes, k \in Queues : Len(queue[n][k]) <= QueueSize
    BY <1>1, HubConstants DEF HubInit
  <2>2. send \in [Clients -> Seq(Events)] /\ \A c \in Clients : Len(send[c]) <= SendSize
    BY <1>1, HubConstants DEF HubInit
  <2>3. walk \in [Walkers -> [ev : Events \cup {NoEvent}, todo : SUBSET Clients]]
    BY <1>2 DEF HubInit
  <2>4. got \in [Clients -> [Events -> Nat]] /\ redis \in [Nodes -> Seq(Events)]
    BY <1>1, <1>3 DEF HubInit
  <2> QED BY <2>1, <2>2, <2>3, <2>4 DEF HubInit, HubTypeOK
<1>5. \A w \in Walkers : walk[w].todo = {}
  BY <1>2 DEF HubInit
<1>6. Places
  BY <1>5 DEF Places, Walkers
<1>7. ASSUME NEW c \in Clients, NEW e \in Events PROVE Copies(c, e) = 0
  <2>1. NodeOf[c] \in Nodes
    BY HubConstants
  <2>2. Told(c, e) = 0 + Count(<<>>, e)
    BY <1>3 DEF Told, HubInit
  <2>3. Queued(NodeOf[c], e) = Count(<<>>, e) + Count(<<>>, e)
    BY <2>1 DEF Queued, HubInit, Queues
  <2>4. Subscribed(NodeOf[c], e) = Count(<<>>, e)
    BY <2>1 DEF Subscribed, HubInit
  <2>5. Called(NodeOf[c], e) = 0
    BY DEF Called, Flag, HubInit
  <2>6. Carried(c, e) = 0
    <3>1. \A w \in Walkers : ~ Carries(w, c, e)
      BY <1>5 DEF Carries
    <3> QED BY <3>1, Three DEF Carried, Flag
  <2> QED BY <2>2, <2>3, <2>4, <2>5, <2>6, CountEmpty DEF Copies
<1>8. \A c \in Clients, e \in Events : Made(c, e) \in Nat
  BY DEF Made, Flag, HubInit
<1>9. Attempted
  BY HubConstants DEF Attempted, HubInit
<1> QED BY <1>4, <1>6, <1>7, <1>8, <1>9 DEF HubInv

\* Every step keeps the invariant.
LEMMA NextHubInv ==
  ASSUME HubInv, [HubNext]_hubVars
  PROVE  HubInv'
<1>1. CASE \E e \in Events : Call(e) \/ Publish(e) \/ Local(e)
  BY <1>1, CallStep, PublishStep, LocalStep
<1>2. CASE \E n \in Nodes : SubTake(n) \/ RunTake(n) \/ Stop(n)
  BY <1>2, SubTakeStep, RunTakeStep, StopStep
<1>3. CASE \E w \in Walkers : Walk(w)
  BY <1>3, VisitStep DEF Walk
<1>4. CASE \E c \in Clients : Write(c) \/ Register(c) \/ Unregister(c)
  BY <1>4, WriteStep, RegisterStep, UnregisterStep
<1>5. CASE UNCHANGED hubVars
  <2>1. HubTypeOK /\ Places /\ UNCHANGED hubVars
    BY <1>5 DEF HubInv
  <2>2. HubTypeOK'
    BY <2>1 DEF HubTypeOK, hubVars
  <2>3. Places'
    BY <2>1 DEF Places, WalkerNode, hubVars
  <2>4. ASSUME NEW c \in Clients, NEW d \in Events PROVE Copies(c, d)' <= Copies(c, d)
    <3>1. /\ Told(c, d)' = Told(c, d) /\ Carried(c, d)' = Carried(c, d)
          /\ Queued(NodeOf[c], d)' = Queued(NodeOf[c], d) /\ Subscribed(NodeOf[c], d)' = Subscribed(NodeOf[c], d)
          /\ Called(NodeOf[c], d)' = Called(NodeOf[c], d)
      BY <2>1, Untouched DEF hubVars
    <3> QED BY <2>1, <2>2, <3>1, Fewer
  <2> QED BY <2>1, <2>2, <2>3, <2>4, NoNewCopies DEF hubVars
<1> QED BY <1>1, <1>2, <1>3, <1>4, <1>5 DEF HubNext

\* The invariant implies the property the run checks.
LEMMA HubBound ==
  ASSUME HubInv
  PROVE  CopiesBounded
<1>1. SUFFICES ASSUME NEW c \in Clients, NEW e \in Events
               PROVE  got[c][e] <= (IF shared THEN Attempts[e] ELSE 0) + Flag(NodeOf[c] = at[e])
  BY DEF CopiesBounded, Flag
<1>2. Copies(c, e) <= Made(c, e) /\ HubTypeOK /\ tries[e] <= IF shared THEN Attempts[e] ELSE 0
  BY DEF HubInv, Attempted
<1>3. /\ Told(c, e) \in Nat /\ Queued(NodeOf[c], e) \in Nat /\ Subscribed(NodeOf[c], e) \in Nat
      /\ Carried(c, e) \in Nat /\ Called(NodeOf[c], e) \in Nat
  BY <1>2, Numbers
<1>4. got[c][e] \in Nat /\ send[c] \in Seq(Events) /\ tries[e] \in Nat /\ Attempts[e] \in Nat
  BY <1>2, HubConstants DEF HubTypeOK
<1>5. Count(send[c], e) \in Nat
  BY <1>4, CountNat
<1>6. Made(c, e) \in Nat /\ Made(c, e) <= (IF shared THEN Attempts[e] ELSE 0) + Flag(NodeOf[c] = at[e])
  BY <1>2, <1>4 DEF Made, Flag
<1>7. got[c][e] <= Told(c, e)
  BY <1>4, <1>5 DEF Told
<1>8. Told(c, e) <= Copies(c, e) /\ Copies(c, e) \in Nat
  BY <1>3 DEF Copies
<1>9. PICK b \in Nat : b = (IF shared THEN Attempts[e] ELSE 0) + Flag(NodeOf[c] = at[e])
  BY <1>4 DEF Flag
<1> QED BY <1>2, <1>3, <1>4, <1>6, <1>7, <1>8, <1>9

\* The invariant holds in every state of every behaviour.
THEOREM HubInductive ==
  HubSpec => []HubInv
<1>1. HubInit => HubInv
  BY InitHubInv
<1>2. HubInv /\ [HubNext]_hubVars => HubInv'
  BY NextHubInv
<1> QED BY <1>1, <1>2, PTL DEF HubSpec

\* Whatever the servers, connections and events, however calls, walks and connections
\* overlap, no channel of the hub and no connection's Send holds more than its
\* capacity, and the rest of the state fits its types.
THEOREM HubTypeCorrect ==
  HubSpec => []HubTypeOK
<1>1. HubInv => HubTypeOK
  BY DEF HubInv
<1> QED BY <1>1, HubInductive, PTL

\* A connection hears of an event e at most Attempts[e] times over Redis, for any bound
\* the client puts on its attempts, and once more when it is made to the server that was
\* called; without Redis only that server tells it, once.
THEOREM HubCopiesBounded ==
  HubSpec => []CopiesBounded
<1>1. HubInv => CopiesBounded
  BY HubBound
<1> QED BY <1>1, HubInductive, PTL
=============================================================================
