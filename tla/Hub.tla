--------------------------------- MODULE Hub --------------------------------
(***************************************************************************)
(* The hub that tells the WebSocket connections of a recipient of news     *)
(* (stream.Hub, streamHandler.serveWs): new messages and typing go over a  *)
(* bounded channel to the one goroutine Run, receipts (delivery, read) are *)
(* pushed by the caller itself.  With Redis each call is published first,  *)
(* and every server, the publishing one too, takes it from there; the      *)
(* Redis client sends a PUBLISH again whose reply is late or cut off.      *)
(*                                                                         *)
(* The set of connections is looked up with the lock and walked without    *)
(* it.  A connection that comes or goes meanwhile is visited or not, or    *)
(* the runtime stops the server ("concurrent map iteration and map write", *)
(* see Stop).  One recipient: those of others only share the channels.     *)
(***************************************************************************)
EXTENDS Naturals, Sequences

CONSTANTS Nodes,      \* server instances
          Clients,    \* connections of the recipient
          NodeOf,     \* connection -> server it is made to
          Events,     \* calls of Notify, NotifyTyping, NotifyDelivery, NotifyRead
          KindOf,     \* event -> "message", "typing" or "receipt"
          QueueSize,  \* capacity of broadcast (256) and typingBroadcast (64)
          SendSize,   \* capacity of Client.Send (256)
          Attempts,   \* event -> times the Redis client sends its PUBLISH (at most 4)
          NoEvent

Queues == {"message", "typing"}

ASSUME NodeAssumption == NodeOf \in [Clients -> Nodes]
ASSUME KindAssumption == KindOf \in [Events -> Queues \cup {"receipt"}]
ASSUME SizeAssumption == QueueSize \in Nat \ {0} /\ SendSize \in Nat \ {0}
ASSUME AttemptsAssumption == Attempts \in [Events -> Nat \ {0}]

\* Who walks over a set of connections: Run and the Redis subscriber of a server,
\* and the caller of an event.
Walkers == ({"run", "sub"} \X Nodes) \cup ({"call"} \X Events)

VARIABLES shared,   \* the servers use Redis
          up,       \* servers that run
          phase,    \* event -> progress of the call
          at,       \* event -> server of the call
          tries,    \* event -> times it was sent to Redis
          conn,     \* connection -> "new", "on" (in the map) or "off"
          queue,    \* server -> channel -> events
          redis,    \* server -> events its subscription holds
          walk,     \* walker -> event and connections still to visit
          send,     \* connection -> notices waiting for its writer
          got,      \* connection -> event -> copies written to the socket
          owed      \* event, connection: to be told, no copy lost (history)

hubVars == <<shared, up, phase, at, tries, conn, queue, redis, walk, send, got, owed>>

Rest == [ev |-> NoEvent, todo |-> {}]
Unheard == [e \in Events |-> 0]

\* The state of the servers fits its types, and no channel holds more than its
\* capacity, however many callers and walkers send to it.
HubTypeOK ==
  /\ shared \in BOOLEAN
  /\ up \subseteq Nodes
  /\ phase \in [Events -> {"new", "publish", "local", "done"}]
  /\ at \in [Events -> Nodes \cup {NoEvent}]
  /\ tries \in [Events -> Nat]
  /\ conn \in [Clients -> {"new", "on", "off"}]
  /\ queue \in [Nodes -> [Queues -> Seq(Events)]]
  /\ \A n \in Nodes, k \in Queues : Len(queue[n][k]) <= QueueSize
  /\ redis \in [Nodes -> Seq(Events)]
  /\ walk \in [Walkers -> [ev : Events \cup {NoEvent}, todo : SUBSET Clients]]
  /\ send \in [Clients -> Seq(Events)]
  /\ \A c \in Clients : Len(send[c]) <= SendSize
  /\ got \in [Clients -> [Events -> Nat]]
  /\ owed \subseteq Events \X Clients

\* Servers with and without Redis.
HubInit ==
  /\ shared \in BOOLEAN
  /\ up = Nodes
  /\ phase = [e \in Events |-> "new"]
  /\ at = [e \in Events |-> NoEvent]
  /\ tries = [e \in Events |-> 0]
  /\ conn = [c \in Clients |-> "new"]
  /\ queue = [n \in Nodes |-> [k \in Queues |-> <<>>]]
  /\ redis = [n \in Nodes |-> <<>>]
  /\ walk = [w \in Walkers |-> Rest]
  /\ send = [c \in Clients |-> <<>>]
  /\ got = [c \in Clients |-> Unheard]
  /\ owed = {}

\* h.clients of a server.
On(n) == {c \in Clients : NodeOf[c] = n /\ conn[c] = "on"}
WalkerNode(w) == IF w[1] = "call" THEN at[w[2]] ELSE w[2]
Resting(w) == walk[w].todo = {}

\* Look the connections up and start to walk.
Start(w, e, n) == walk' = [walk EXCEPT ![w] = IF On(n) = {} THEN Rest ELSE [ev |-> e, todo |-> On(n)]]

\* An event that no channel s has room for is lost, unless its other copy is in s.
Lost(e, s, C) == IF \E i \in DOMAIN s : s[i] = e THEN {} ELSE {e} \X C

\* pushToLocal, pushTypingToLocal: a full channel drops the event.
PushToLocal(n, e) ==
  LET q == queue[n][KindOf[e]] IN
  IF Len(q) < QueueSize
  THEN /\ queue' = [queue EXCEPT ![n][KindOf[e]] = Append(@, e)]
       /\ UNCHANGED owed
  ELSE /\ UNCHANGED queue
       /\ owed' = owed \ Lost(e, q, {c \in Clients : NodeOf[c] = n})

-----------------------------------------------------------------------------
\* A handler calls the hub of its server.
Call(e) ==
  /\ phase[e] = "new"
  /\ \E n \in up :
       /\ at' = [at EXCEPT ![e] = n]
       /\ owed' = owed \cup ({e} \X On(n))
  /\ phase' = [phase EXCEPT ![e] = IF shared THEN "publish" ELSE "local"]
  /\ UNCHANGED <<shared, up, tries, conn, queue, redis, walk, send, got>>

\* Variant: the bound is taken for the retries, not for the attempts.
PublishRetries(e) ==
  /\ phase[e] = "publish" /\ at[e] \in up
  /\ \E S \in SUBSET up :
       /\ redis' = [m \in Nodes |-> IF m \in S THEN Append(redis[m], e) ELSE redis[m]]
       /\ owed' = owed \cup ({e} \X UNION {On(m) : m \in S})
  /\ tries' = [tries EXCEPT ![e] = @ + 1]
  /\ \E p \in {"publish", "local"} :
       /\ p = "publish" => tries[e] < Attempts[e]
       /\ phase' = [phase EXCEPT ![e] = p]
  /\ UNCHANGED <<shared, up, at, conn, queue, walk, send, got>>

\* PUBLISH is sent once more: it reaches some of the subscriptions, or none.  After
\* a reply, or an error that is not retried, or the last attempt, the call goes on;
\* a reply that is late or cut off, whatever PUBLISH has done, makes the client retry.
Publish(e) ==
  /\ phase[e] = "publish" /\ at[e] \in up
  /\ \E S \in SUBSET up :
       /\ redis' = [m \in Nodes |-> IF m \in S THEN Append(redis[m], e) ELSE redis[m]]
       /\ owed' = owed \cup ({e} \X UNION {On(m) : m \in S})
  /\ tries' = [tries EXCEPT ![e] = @ + 1]
  /\ \E p \in {"publish", "local"} :
       /\ p = "publish" => tries[e] + 1 < Attempts[e]
       /\ phase' = [phase EXCEPT ![e] = p]
  /\ UNCHANGED <<shared, up, at, conn, queue, walk, send, got>>

\* Then the connections of this server: Notify and notifyTyping over the channel,
\* NotifyDelivery and NotifyRead by a walk of their own.
Local(e) ==
  /\ phase[e] = "local" /\ at[e] \in up
  /\ \/ /\ KindOf[e] \in Queues
        /\ PushToLocal(at[e], e)
        /\ UNCHANGED walk
     \/ /\ KindOf[e] = "receipt"
        /\ Start(<<"call", e>>, e, at[e])
        /\ UNCHANGED <<queue, owed>>
  /\ phase' = [phase EXCEPT ![e] = "done"]
  /\ UNCHANGED <<shared, up, at, tries, conn, redis, send, got>>

\* Variant: the receipt is left to the caller's own push.
SubTakeSkipsReceipts(n) ==
  /\ n \in up /\ Resting(<<"sub", n>>) /\ redis[n] # <<>>
  /\ LET e == Head(redis[n]) IN
       IF KindOf[e] \in Queues THEN PushToLocal(n, e) ELSE UNCHANGED <<queue, owed>>
  /\ redis' = [redis EXCEPT ![n] = Tail(@)]
  /\ UNCHANGED <<shared, up, phase, at, tries, conn, walk, send, got>>

\* runRedisSubscriber takes the next event; it pushes receipts itself.
SubTake(n) ==
  /\ n \in up /\ Resting(<<"sub", n>>) /\ redis[n] # <<>>
  /\ LET e == Head(redis[n]) IN
       IF KindOf[e] \in Queues
       THEN PushToLocal(n, e) /\ UNCHANGED walk
       ELSE Start(<<"sub", n>>, e, n) /\ UNCHANGED <<queue, owed>>
  /\ redis' = [redis EXCEPT ![n] = Tail(@)]
  /\ UNCHANGED <<shared, up, phase, at, tries, conn, send, got>>

\* Run: select takes an event from one of the channels that have one.
RunTake(n) ==
  /\ n \in up /\ Resting(<<"run", n>>)
  /\ \E k \in Queues :
       /\ queue[n][k] # <<>>
       /\ Start(<<"run", n>>, Head(queue[n][k]), n)
       /\ queue' = [queue EXCEPT ![n][k] = Tail(@)]
  /\ UNCHANGED <<shared, up, phase, at, tries, conn, redis, send, got, owed>>

\* Variant: a walk puts its notice into Send whatever Send holds.
VisitUnbounded(w, c) ==
  /\ c \in walk[w].todo
  /\ send' = [send EXCEPT ![c] = Append(@, walk[w].ev)]
  /\ walk' = [walk EXCEPT ![w] = IF @.todo = {c} THEN Rest ELSE [walk[w] EXCEPT !.todo = @ \ {c}]]
  /\ UNCHANGED <<shared, up, phase, at, tries, conn, queue, redis, got, owed>>

\* Visit one connection: select with default, a full Send drops the notice.
Visit(w, c) ==
  /\ c \in walk[w].todo
  /\ \/ /\ conn[c] = "on" /\ Len(send[c]) < SendSize
        /\ send' = [send EXCEPT ![c] = Append(@, walk[w].ev)]
        /\ UNCHANGED owed
     \/ /\ conn[c] = "on" => Len(send[c]) = SendSize
        /\ owed' = owed \ Lost(walk[w].ev, send[c], {c})
        /\ UNCHANGED send
  /\ walk' = [walk EXCEPT ![w] = IF @.todo = {c} THEN Rest ELSE [walk[w] EXCEPT !.todo = @ \ {c}]]
  /\ UNCHANGED <<shared, up, phase, at, tries, conn, queue, redis, got>>

Walk(w) == \E c \in Clients : Visit(w, c)

\* The writer of a connection.
Write(c) ==
  /\ conn[c] = "on" /\ send[c] # <<>>
  /\ got' = [got EXCEPT ![c][Head(send[c])] = @ + 1]
  /\ send' = [send EXCEPT ![c] = Tail(@)]
  /\ owed' = owed \ {<<Head(send[c]), c>>}
  /\ UNCHANGED <<shared, up, phase, at, tries, conn, queue, redis, walk>>

-----------------------------------------------------------------------------
\* Those who walk over the map of a server now.
Walking(n) == {w \in Walkers : ~Resting(w) /\ WalkerNode(w) = n}

\* serveWs registers: a walk under way finds the connection or not.
Register(c) ==
  /\ conn[c] = "new" /\ NodeOf[c] \in up
  /\ conn' = [conn EXCEPT ![c] = "on"]
  /\ \E S \in SUBSET Walking(NodeOf[c]) :
       walk' = [w \in Walkers |-> IF w \in S THEN [walk[w] EXCEPT !.todo = @ \cup {c}] ELSE walk[w]]
  /\ UNCHANGED <<shared, up, phase, at, tries, queue, redis, send, got, owed>>

\* Connections end, with what their sockets hold.
End(C) ==
  /\ conn' = [c \in Clients |-> IF c \in C THEN "off" ELSE conn[c]]
  /\ send' = [c \in Clients |-> IF c \in C THEN <<>> ELSE send[c]]
  /\ got' = [c \in Clients |-> IF c \in C THEN Unheard ELSE got[c]]
  /\ owed' = owed \ (Events \X C)

\* serveWs ends: a walk under way finds the connection still or not any more.
Unregister(c) ==
  /\ conn[c] = "on"
  /\ End({c})
  /\ \E S \in SUBSET {w \in Walking(NodeOf[c]) : c \in walk[w].todo} :
       walk' = [w \in Walkers |-> IF w \notin S THEN walk[w]
                                  ELSE IF walk[w].todo = {c} THEN Rest
                                  ELSE [walk[w] EXCEPT !.todo = @ \ {c}]]
  /\ UNCHANGED <<shared, up, phase, at, tries, queue, redis>>

\* The server stops: Close, or the runtime ends it.
Stop(n) ==
  /\ n \in up
  /\ up' = up \ {n}
  /\ End({c \in Clients : NodeOf[c] = n})
  /\ queue' = [queue EXCEPT ![n] = [k \in Queues |-> <<>>]]
  /\ redis' = [redis EXCEPT ![n] = <<>>]
  /\ walk' = [w \in Walkers |-> IF WalkerNode(w) = n THEN Rest ELSE walk[w]]
  /\ UNCHANGED <<shared, phase, at, tries>>

HubNext ==
  \/ \E e \in Events : Call(e) \/ Publish(e) \/ Local(e)
  \/ \E n \in Nodes : SubTake(n) \/ RunTake(n) \/ Stop(n)
  \/ \E w \in Walkers : Walk(w)
  \/ \E c \in Clients : Write(c) \/ Register(c) \/ Unregister(c)

\* A goroutine that can go on does: a caller, the subscriber and Run of a server,
\* the writer of a connection (a socket takes what is written or is closed).
Fairness ==
  /\ \A e \in Events : WF_hubVars(Publish(e) \/ Local(e) \/ Walk(<<"call", e>>))
  /\ \A n \in Nodes : WF_hubVars(SubTake(n) \/ Walk(<<"sub", n>>)) /\ WF_hubVars(RunTake(n) \/ Walk(<<"run", n>>))
  /\ \A c \in Clients : WF_hubVars(Write(c))

HubSpec == HubInit /\ [][HubNext]_hubVars /\ Fairness

-----------------------------------------------------------------------------
\* A connection hears of an event at most once for every time it was sent to Redis,
\* and once more on the server that was called; without Redis other servers tell
\* nobody.  So it is however calls, retries, connections and walks overlap.
CopiesBounded ==
  \A c \in Clients, e \in Events :
    got[c][e] <= (IF shared THEN Attempts[e] ELSE 0) + (IF NodeOf[c] = at[e] THEN 1 ELSE 0)

\* Every connection that was there when an event was called, on the server called
\* or on one that Redis reached, is told of it, unless a channel full of other
\* notices drops it or the connection ends first.  (Calls are finitely many.)
EventuallyTold == (owed # {}) ~> (owed = {})
=============================================================================
