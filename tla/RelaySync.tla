----------------------------- MODULE RelaySync ------------------------------
(***************************************************************************)
(* relay.Service.Sync with its HTTP handler and the web client's polling   *)
(* loop: how queued messages reach the devices of their readers.           *)
(*                                                                         *)
(* Sync is one SELECT and one UPDATE per delivered event, each a statement *)
(* of its own; several sync requests of a device may be in flight (the     *)
(* 5-second timer, a WebSocket wake-up and the effect that runs when the   *)
(* cursor changes all call it).  created_at is the time the INSERT began,  *)
(* and a row is visible when it commits: the two orders may differ.        *)
(***************************************************************************)
EXTENDS Integers, FiniteSets

CONSTANTS Users, Rooms, Devices,
          Owner,        \* device -> its user
          Members,      \* room -> its members
          MaxEvents,    \* bound: rows that get inserted into message_queue
          SenderOf,     \* event -> the user that sent it
          RecipientOf,  \* event -> a user or a room
          Slots,        \* sync requests that may be in flight together
          PageSize,     \* limit, 100 unless the client asks for less
          Faults,       \* TRUE: replies get lost, statements fail
          NoDevice

\* The rows, in the order in which their INSERTs begin.
Events == 1 .. MaxEvents

ASSUME SyncConstants ==
  /\ MaxEvents \in Nat
  /\ Owner \in [Devices -> Users]
  /\ Members \in [Rooms -> SUBSET Users]
  /\ SenderOf \in [Events -> Users]
  /\ RecipientOf \in [Events -> Users \cup Rooms]
  /\ NoDevice \notin Devices
  /\ Faults \in BOOLEAN

ASSUME PageSizeAssumption == PageSize \in Nat \ {0}

VARIABLES now,        \* the database clock
          created,    \* event -> created_at, 0 before its INSERT
          visible,    \* events whose INSERT has committed
          delivered,  \* events with status = 'delivered' (else 'queued')
          cursor,     \* device -> the client's cursor, 0 for ''
          got,        \* device -> events in the client's state
          sync,       \* the sync requests in flight
          told,       \* events whose sender was told "delivered"
          disorder,   \* events that shared or passed created_at (history)
          horizon,    \* device -> oldest row of its first page (history)
          overlooked  \* device and row that a request left out (history)

db == <<now, created, visible, disorder>>
client == <<cursor, got, horizon>>
vars == <<db, client, delivered, sync, told, overlooked>>

Times == Nat

FreeSlot == [pc |-> "free", dev |-> NoDevice, since |-> 0, page |-> {},
             next |-> 0, cut |-> FALSE, todo |-> {}, live |-> FALSE]

SlotType == [pc : {"free", "query", "mark"}, dev : Devices \cup {NoDevice},
             since : Times, page : SUBSET Events, next : Times,
             cut : BOOLEAN, todo : SUBSET Events, live : BOOLEAN]

TypeOK ==
  /\ now \in Times
  /\ created \in [Events -> Times]
  /\ visible \subseteq Events
  /\ delivered \subseteq Events
  /\ cursor \in [Devices -> Times]
  /\ got \in [Devices -> SUBSET Events]
  /\ sync \in [Slots -> SlotType]
  /\ told \subseteq Events
  /\ disorder \subseteq Events
  /\ horizon \in [Devices -> Times]
  /\ overlooked \subseteq Devices \X Events

Init ==
  /\ now = 0
  /\ created = [e \in Events |-> 0]
  /\ visible = {}
  /\ delivered = {}
  /\ cursor = [d \in Devices |-> 0]
  /\ got = [d \in Devices |-> {}]
  /\ sync = [s \in Slots |-> FreeSlot]
  /\ told = {}
  /\ disorder = {}
  /\ horizon = [d \in Devices |-> 0]
  /\ overlooked = {}

-----------------------------------------------------------------------------
\* The rows the WHERE clause selects for user u: addressed to u or to a room
\* of u, or sent by u.
Reads(u, e) == RecipientOf[e] = u \/ \E r \in Rooms : RecipientOf[e] = r /\ u \in Members[r]

Mine(u) == {e \in Events : Reads(u, e) \/ SenderOf[e] = u}

\* The rows of u's rooms are missing when GetRoomAddrsForUser failed, which
\* Sync ignores.
Selected(u, rooms) ==
  {e \in Mine(u) : rooms \/ RecipientOf[e] = u \/ SenderOf[e] = u}

\* With a cursor only queued rows after it; without one the whole history.
Candidates(u, since, rooms) ==
  {e \in visible \cap Selected(u, rooms) :
     since # 0 => e \notin delivered /\ created[e] > since}

\* Variant: newest first whether or not the client has a cursor.
PrecedesNewestFirst(e, f, since) == created[f] <= created[e]

\* ORDER BY created_at, descending for the first load; rows with the same
\* created_at come in any order.
Precedes(e, f, since) ==
  IF since = 0 THEN created[f] <= created[e] ELSE created[e] <= created[f]

\* P is what LIMIT PageSize + 1 can leave of C; rows.Err() is not looked at,
\* so a scan that breaks off looks like a short result.
IsPage(P, C, since) ==
  /\ P \subseteq C
  /\ \A e \in P, f \in C \ P : Precedes(e, f, since)
  /\ \/ Cardinality(P) = PageSize + 1
     \/ P = C /\ Cardinality(C) <= PageSize
     \/ Faults /\ Cardinality(P) <= PageSize

Earliest(S) == CHOOSE e \in S : \A f \in S : created[e] <= created[f]
Latest(S) == CHOOSE e \in S : \A f \in S : created[f] <= created[e]

\* created_at of the last row scanned (lastCreated) and of the PageSize-th
\* row scanned (cursorCreated).
LastCreated(P, since) ==
  IF since = 0 THEN created[Earliest(P)] ELSE created[Latest(P)]

\* Variant: the cursor comes from the row that tells whether there is more.
CursorCreatedOfExtraRow(P, since) == LastCreated(P, since)

CursorCreated(P, since) ==
  IF since = 0 THEN created[Earliest(P \ {Earliest(P)})]
               ELSE created[Latest(P \ {Latest(P)})]

IsCut(P) == Cardinality(P) > PageSize

\* The events a request answers with: a full page is cut at the end, after the
\* first load was turned around, so it loses its newest row.
PagesOf(P) ==
  IF IsCut(P) THEN {P \ {z} : z \in {y \in P : \A f \in P : created[f] <= created[y]}}
              ELSE {P}

\* The cursor it answers with.
NextCursor(P, since) ==
  IF IsCut(P) THEN CursorCreated(P, since)
  ELSE IF P = {} THEN 0 ELSE LastCreated(P, since)

\* What a request marks delivered: the incoming events of a page that was not
\* cut.
Marks(d, page, cut) == {e \in page : ~cut /\ SenderOf[e] # Owner[d]}

-----------------------------------------------------------------------------
\* INSERT INTO message_queue begins: NOW() is read.
BeginInsert(e) ==
  /\ created[e] = 0 /\ \A f \in 1 .. e - 1 : created[f] # 0
  /\ \E t \in {now, now + 1} \ {0} :
       created' = [created EXCEPT ![e] = t] /\ now' = t
  /\ UNCHANGED <<visible, disorder, client, delivered, sync, told, overlooked>>

\* ... and commits.
CommitInsert(e) ==
  /\ created[e] # 0
  /\ e \notin visible
  /\ visible' = visible \cup {e}
  /\ disorder' = disorder
       \cup {f \in visible : created[f] = created[e]}
       \cup {g \in {e} : \E f \in visible : created[e] <= created[f]}
  /\ UNCHANGED <<now, created, client, delivered, sync, told, overlooked>>

\* The client calls GET /messages/sync?since=<cursor>.
StartSync(s, d) ==
  /\ sync[s].pc = "free"
  /\ sync' = [sync EXCEPT ![s] = [FreeSlot EXCEPT !.pc = "query", !.dev = d,
                                    !.since = cursor[d], !.live = TRUE]]
  /\ UNCHANGED <<db, client, delivered, told, overlooked>>

\* What a query leaves out for good: rows of rooms that were not looked up, and a
\* delivered row that is cut off a first load, which no later sync returns.
Unreturned(P, page) == (P \ page) \cap delivered

\* Sync up to its SELECT and the cutting of the page.
Query(s) ==
  /\ sync[s].pc = "query"
  /\ LET d == sync[s].dev
         since == sync[s].since
     IN \E rooms \in {TRUE, ~Faults} :
        LET C == Candidates(Owner[d], since, rooms) IN
        \E P \in {Q \in SUBSET C : IsPage(Q, C, since)} : \E page \in PagesOf(P) :
          /\ sync' = [sync EXCEPT ![s] =
               [@ EXCEPT !.pc = "mark", !.page = page, !.next = NextCursor(P, since),
                         !.cut = IsCut(P), !.todo = Marks(d, page, IsCut(P))]]
          /\ overlooked' = overlooked
               \cup ({d} \X ((Candidates(Owner[d], since, TRUE) \ C) \cup Unreturned(P, page)))
  /\ UNCHANGED <<db, client, delivered, told>>

\* UPDATE ... SET status = 'delivered', one event at a time in page order.
\* Its error (the client is gone, the database refuses) is discarded.
MarkDelivered(s) ==
  /\ sync[s].pc = "mark"
  /\ \E e \in sync[s].todo :
       /\ \A f \in sync[s].todo : created[e] <= created[f]
       /\ sync' = [sync EXCEPT ![s].todo = @ \ {e}]
       /\ \/ delivered' = delivered \cup {e}
          \/ Faults /\ UNCHANGED delivered
  /\ UNCHANGED <<db, client, told, overlooked>>

\* Variant: a reply to a request older than the cursor is thrown away.
ReceiveDropsStale(d, since, page, next) ==
  IF page = {} \/ since # cursor[d] THEN UNCHANGED client
  ELSE /\ got' = [got EXCEPT ![d] = @ \cup page]
       /\ cursor' = [cursor EXCEPT ![d] = next]
       /\ horizon' = [horizon EXCEPT ![d] =
            IF since = 0 /\ created[Earliest(page)] > @
            THEN created[Earliest(page)] ELSE @]

\* Variant: the cursor is set back to read the last rows again.
ReceiveOverlaps(d, since, page, next) ==
  /\ got' = [got EXCEPT ![d] = @ \cup page]
  /\ cursor' = [cursor EXCEPT ![d] = next - PageSize]
  /\ UNCHANGED horizon

\* The client's part of a reply: merge by event_id, take the new cursor
\* unless the page is empty.
Receive(d, since, page, next) ==
  /\ got' = [got EXCEPT ![d] = @ \cup page]
  /\ IF page = {} THEN UNCHANGED <<cursor, horizon>>
     ELSE /\ cursor' = [cursor EXCEPT ![d] = next]
          /\ horizon' = [horizon EXCEPT ![d] =
               IF since = 0 /\ created[Earliest(page)] > @
               THEN created[Earliest(page)] ELSE @]

\* NotifyDelivery for every marked event, then the reply.  (The UPSERT of
\* sync_cursors before it is left out: no statement reads that table.)
FinishSync(s) ==
  LET r == sync[s] IN
  /\ r.pc = "mark"
  /\ r.todo = {}
  /\ told' = told \cup Marks(r.dev, r.page, r.cut)
  /\ sync' = [sync EXCEPT ![s] = FreeSlot]
  /\ IF r.live THEN Receive(r.dev, r.since, r.page, r.next)
               ELSE UNCHANGED client
  /\ UNCHANGED <<db, delivered, overlooked>>

\* The connection breaks (the handler keeps running) or the server stops.
LoseReply(s) ==
  /\ Faults
  /\ sync[s].live
  /\ \/ sync' = [sync EXCEPT ![s].live = FALSE]
     \/ sync' = [sync EXCEPT ![s] = FreeSlot]
  /\ UNCHANGED <<db, client, delivered, told, overlooked>>

\* The page is opened again: the client's state starts from nothing.  To do so
\* during a request is to lose its reply.
Reload(d) ==
  /\ Faults \/ \A s \in Slots : sync[s].dev # d
  /\ cursor[d] # 0
  /\ cursor' = [cursor EXCEPT ![d] = 0]
  /\ got' = [got EXCEPT ![d] = {}]
  /\ horizon' = [horizon EXCEPT ![d] = 0]
  /\ sync' = [s \in Slots |-> IF sync[s].dev = d
                              THEN [sync[s] EXCEPT !.live = FALSE] ELSE sync[s]]
  /\ overlooked' = overlooked \ ({d} \X Events)
  /\ UNCHANGED <<db, delivered, told>>

Next ==
  \/ \E e \in Events : BeginInsert(e) \/ CommitInsert(e)
  \/ \E s \in Slots :
       \/ \E d \in Devices : StartSync(s, d)
       \/ Query(s)
       \/ MarkDelivered(s)
       \/ FinishSync(s)
       \/ LoseReply(s)
  \/ \E d \in Devices : Reload(d)

Spec == Init /\ [][Next]_vars

\* The client polls every five seconds and the handlers run to their end; an
\* INSERT that began commits.
Fairness ==
  /\ \A e \in Events : WF_vars(CommitInsert(e))
  /\ \A s \in Slots : WF_vars(Query(s) \/ MarkDelivered(s) \/ FinishSync(s))
  /\ \A d \in Devices : WF_vars(\E s \in Slots : StartSync(s, d))

FairSpec == Spec /\ Fairness

-----------------------------------------------------------------------------
\* The rows a device's user should still see: visible, not from the user, and
\* not older than the device's first page.
Due(d) == {e \in visible : Reads(Owner[d], e) /\ SenderOf[e] # Owner[d]
                             /\ horizon[d] <= created[e]}

\* The cursor never passes a row that is still queued: what the device has
\* not received and nobody marked delivered lies after its cursor, however
\* many sync requests it has in flight, whichever replies are lost or come
\* out of order.  (Rows older than the first page, rows whose created_at
\* another row shared or passed and rows of rooms that a request could not look
\* up are the exceptions.)
CursorSkipsNothing ==
  \A d \in Devices : \A e \in visible \cap Mine(Owner[d]) :
    \/ e \in got[d] \cup delivered \cup disorder \/ <<d, e>> \in overlooked
    \/ created[e] < horizon[d] \/ cursor[d] < created[e]

\* The row is in the client's state, on its way in a reply, or in the result of
\* the device's next sync.
InReach(d, e) ==
  \/ e \in got[d]
  \/ cursor[d] = 0
  \/ e \notin delivered /\ cursor[d] < created[e]
  \/ \E s \in Slots : sync[s].dev = d /\ sync[s].live /\ e \in sync[s].page

Missed(d) == disorder \cup {e \in Events : <<d, e>> \in overlooked}

\* Every due message is in the client's state, on its way in a reply, or in
\* the result of the device's next sync, however often the page is opened again.
\* (Exceptions: rows whose created_at another row shared or passed, and a row that
\* was delivered already and is cut off a first load.)
NothingOutOfReach == \A d \in Devices : \A e \in Due(d) \ Missed(d) : InReach(d, e)

\* Polling alone brings every committed message into the state of its
\* reader's device, for good: unless pages are opened again and again, there is
\* a time from which on nothing that is due is missing, with the exceptions of
\* NothingOutOfReach (Events being all the rows there will ever be).
EventuallyReceived ==
  <>[][\A d \in Devices : ~Reload(d)]_vars
    => \A d \in Devices : <>[](Due(d) \subseteq got[d] \cup Missed(d))
=============================================================================
