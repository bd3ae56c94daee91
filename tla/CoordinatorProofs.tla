------------------------- MODULE CoordinatorProofs --------------------------
(***************************************************************************)
(* Proofs about Coordinator, for every set of requests, keys and hosts and *)
(* any number of stops: type correctness, the three invariants and the     *)
(* refinement of AddressPool.                                              *)
(*                                                                         *)
(* IInv adds to them what memory and file have to do with each other: both *)
(* are lists with rising addresses (Sound), the file holds nothing that    *)
(* memory does not, unless a start could not read it, and then only what   *)
(* counts as lost (FileInMemory), what memory holds beyond a file that is  *)
(* not behind some request is about to save (Unsaved), and what a request  *)
(* answers is in memory (Registered), for /v1/config as the first node     *)
(* with its key (First).                                                   *)
(***************************************************************************)
EXTENDS Coordinator, TLAPS

\* A list of nodes as the coordinator keeps it: the addresses differ and lie
\* below the next one; before there is a token there are no nodes.
Sound(s) ==
  /\ \A n, o \in s.nodes : n.ip = o.ip => n = o
  /\ \A n \in s.nodes : n.ip < s.next
  /\ s.token = 0 => s.nodes = {}

FileInMemory ==
  IF blind THEN \A n \in file.nodes : n.ip \in lost ELSE file.nodes \subseteq mem.nodes

Registers(r) == req[r].op \in {"join", "config"}

NodeOf(r) == [key |-> req[r].key, ip |-> req[r].ip]

\* What a request carries, by the step it has reached.
Carries ==
  \A r \in Requests :
    /\ req[r].pc = "check" => Registers(r)
    /\ req[r].pc \in {"check", "lock"} => req[r].ip = None
    /\ req[r].pc \in {"check", "lock", "save", "reply"} =>
         IF Registers(r) THEN req[r].key \in Keys ELSE req[r].op = "token"
    /\ req[r].pc \in {"save", "reply"} /\ req[r].op = "token" => req[r].ip \in Nat \ {0}

\* The node a request registered or found is in memory until it is answered.
Registered ==
  \A r \in Requests : req[r].pc \in {"save", "reply"} /\ Registers(r) => NodeOf(r) \in mem.nodes

Answered == told \subseteq mem.nodes

\* Unless the file is behind, whoever registered what it lacks will save it.
Unsaved ==
  ~behind => \A n \in mem.nodes \ file.nodes :
    \E q \in Requests : req[q].pc = "save" /\ Registers(q) /\ NodeOf(q) = n

\* Whatever /v1/config answered is, unless lost, the first node with its key.
First ==
  \A r \in Requests : Configured(r) /\ req[r].ip \notin lost =>
    /\ NodeOf(r) \in mem.nodes
    /\ \A n \in mem.nodes : n.key = req[r].key => req[r].ip <= n.ip

IInv == /\ TypeOK /\ Carries /\ Sound(mem) /\ Sound(file) /\ FileInMemory
        /\ Registered /\ Answered /\ Unsaved /\ First
        /\ AnsweredIsDurable /\ RouteToOwnNode

\* Requests, as in TypeOK.
Request ==
  [pc : {"idle", "check", "lock", "save", "reply", "done"},
   op : {"none", "join", "config", "token"}, key : Keys \cup {None},
   ip : Nat \cup {None}]

\* The constants, as the proofs use them.
LEMMA Constants ==
  /\ HostOf \in [Keys -> Hosts]
  /\ MaxStops \in Nat
  /\ None \notin Keys /\ None \notin Nat
BY HostAssumption, StopsAssumption, NoneAssumption

\* While the nodes stay as they are, a step that disturbs no request that is to
\* save keeps Unsaved.
LEMMA StillUnsaved ==
  ASSUME Unsaved, mem'.nodes = mem.nodes, file' = file, ~behind' => ~behind,
         \A p \in Requests : req[p].pc = "save" => req'[p] = req[p]
  PROVE  Unsaved'
<1> SUFFICES ASSUME ~behind', NEW n \in mem.nodes \ file.nodes
             PROVE  \E p \in Requests : req'[p].pc = "save" /\ Registers(p)' /\ NodeOf(p)' = n
  BY DEF Unsaved
<1>1. PICK p \in Requests : req[p].pc = "save" /\ Registers(p) /\ NodeOf(p) = n
  BY DEF Unsaved
<1> QED BY <1>1 DEF Registers, NodeOf

\* The invariant holds in the empty coordinator.
LEMMA InitIInv == Init => IInv
<1> SUFFICES ASSUME Init PROVE IInv
  OBVIOUS
<1> USE Constants DEF Init, Blank, Idle
<1>1. TypeOK
  <2>1. Blank \in State
    BY DEF State
  <2>2. Idle \in Request
    BY DEF Request
  <2>3. req \in [Requests -> Request]
    BY <2>2
  <2>4. /\ routes \in [Hosts -> Nat \cup {None}] /\ issued \subseteq Nat \ {0}
        /\ stops \in 0 .. MaxStops
    OBVIOUS
  <2> HIDE DEF Blank, Idle
  <2> QED BY <2>1, <2>3, <2>4 DEF TypeOK, Request
<1>2. Carries /\ Registered /\ First
  BY DEF Carries, Registered, First, Registers, Configured
<1>3. Sound(mem) /\ Sound(file) /\ FileInMemory /\ Answered /\ Unsaved
  BY DEF Sound, FileInMemory, Answered, Unsaved
<1>4. AnsweredIsDurable /\ RouteToOwnNode
  BY DEF AnsweredIsDurable, RouteToOwnNode
<1> QED BY <1>1, <1>2, <1>3, <1>4 DEF IInv

-----------------------------------------------------------------------------
\* A step that leaves the state of the coordinator, the file, the routes and the
\* history alone, and one request, whose node it does not change, waiting or done.
LEMMA QuietStep ==
  ASSUME IInv, NEW r \in Requests, NEW q \in Request,
         req' = [req EXCEPT ![r] = q],
         UNCHANGED <<mem, file, routes, issued, stops, history>>,
         req[r].pc \in {"idle", "check"},
         \/ q.pc \in {"check", "lock"} /\ q.ip = None
         \/ q.pc = "done" /\ q.ip = None,
         q.pc = "check" => q.op \in {"join", "config"},
         q.pc \in {"check", "lock"} =>
           IF q.op \in {"join", "config"} THEN q.key \in Keys ELSE q.op = "token"
  PROVE  IInv'
<1> USE Constants DEF IInv, history, Registers, NodeOf
<1>1. TypeOK'
  BY DEF TypeOK, Request
<1>a. \A p \in Requests \ {r} : req'[p] = req[p]
  BY DEF TypeOK
<1>b. req'[r] = q
  BY DEF TypeOK
<1>2. Carries'
  BY <1>a, <1>b DEF Carries
<1>3. Registered' /\ First'
  BY <1>a, <1>b DEF Registered, First, Configured
<1>4. Unsaved'
  BY <1>a, <1>b DEF Unsaved
<1>5. Sound(mem)' /\ Sound(file)' /\ FileInMemory' /\ Answered' /\ AnsweredIsDurable'
      /\ RouteToOwnNode'
  BY DEF Sound, FileInMemory, Answered, AnsweredIsDurable, RouteToOwnNode
<1> QED BY <1>1, <1>2, <1>3, <1>4, <1>5

\* A request arrives.
LEMMA ArriveStep ==
  ASSUME IInv, NEW r \in Requests, Arrive(r)
  PROVE  IInv'
<1>1. ASSUME NEW op \in {"join", "config"}, NEW k \in Keys,
             req' = [req EXCEPT ![r] = [pc |-> "check", op |-> op, key |-> k, ip |-> None]]
      PROVE  IInv'
  <2> DEFINE q == [pc |-> "check", op |-> op, key |-> k, ip |-> None]
  <2>1. q \in Request
    BY DEF Request
  <2> QED BY <1>1, <2>1, QuietStep DEF Arrive
<1>2. CASE req' = [req EXCEPT ![r] = [pc |-> "lock", op |-> "token", key |-> None, ip |-> None]]
  <2> DEFINE q == [pc |-> "lock", op |-> "token", key |-> None, ip |-> None]
  <2>1. q \in Request
    BY DEF Request
  <2> QED BY <1>2, <2>1, QuietStep DEF Arrive
<1> QED BY <1>1, <1>2 DEF Arrive

\* The token is compared.
LEMMA CheckTokenStep ==
  ASSUME IInv, NEW r \in Requests, CheckToken(r)
  PROVE  IInv'
<1>1. PICK p \in {"lock", "done"} : req' = [req EXCEPT ![r].pc = p]
  BY DEF CheckToken
<1> DEFINE q == [req[r] EXCEPT !.pc = p]
<1>2. /\ q \in Request /\ q.pc = p /\ q.op = req[r].op
      /\ q.key = req[r].key /\ q.ip = req[r].ip
  BY DEF IInv, TypeOK, Request
<1>3. q.ip = None /\ q.op \in {"join", "config"} /\ q.key \in Keys
  BY <1>2 DEF IInv, Carries, Registers, CheckToken
<1> QED BY <1>1, <1>2, <1>3, QuietStep DEF CheckToken

-----------------------------------------------------------------------------
\* The state from which an address is drawn has the nodes of memory.
LEMMA Drawing ==
  ASSUME IInv
  PROVE  /\ WithToken \in State /\ Sound(WithToken)
         /\ WithToken.nodes = mem.nodes /\ WithToken.token # 0
<1>1. mem \in State /\ Sound(mem) /\ stops \in Nat
  BY Constants DEF IInv, TypeOK
<1>2. CASE mem.token = 0
  <2> DEFINE m == [mem EXCEPT !.token = stops + 1, !.next = 1]
  <2>1. m.nodes = mem.nodes /\ m.token = stops + 1 /\ m.next = 1 /\ m \in State
    <3> DEFINE t == stops + 1
               i == 1
    <3>1. t \in Nat /\ i \in Nat /\ mem \in State
      BY <1>1
    <3>2. m = [mem EXCEPT !.token = t, !.next = i]
      OBVIOUS
    <3> HIDE DEF t, i, m
    <3>3. m.nodes = mem.nodes /\ m.token = t /\ m.next = i /\ m \in State
      BY <3>1, <3>2 DEF State
    <3> QED BY <3>3 DEF t, i
  <2>2. mem.nodes = {}
    BY <1>1, <1>2 DEF Sound
  <2> HIDE DEF m
  <2>3. Sound(m) /\ m.token # 0
    BY <1>1, <2>1, <2>2 DEF Sound
  <2> QED BY <1>2, <2>1, <2>3 DEF WithToken, m
<1> QED BY <1>1, <1>2 DEF WithToken

\* A new node, for /v1/join and for /v1/config of a new key.
LEMMA AppendStep ==
  ASSUME IInv, NEW r \in Requests, req[r].pc = "lock", Registers(r),
         Append(r, WithToken), UNCHANGED <<file, issued, stops, history>>,
         req[r].op = "config" => Known(r) = {},
         \/ UNCHANGED routes
         \/ routes' = [routes EXCEPT ![HostOf[req[r].key]] = WithToken.next]
  PROVE  IInv'
<1> DEFINE m == WithToken
           n == [key |-> req[r].key, ip |-> m.next]
           q == [req[r] EXCEPT !.pc = "save", !.ip = m.next]
<1> USE Constants DEF history
<1>1. m \in State /\ Sound(m) /\ m.nodes = mem.nodes /\ m.token # 0 /\ m.next \in Nat
  BY Drawing DEF State
<1>2. req[r].key \in Keys /\ n \in Node
  BY <1>1 DEF IInv, Carries, Node
<1>3. /\ mem'.nodes = mem.nodes \cup {n} /\ mem'.next = m.next + 1 /\ mem'.token = m.token
      /\ mem' \in State
  <2>1. mem' = [m EXCEPT !.nodes = m.nodes \cup {n}, !.next = m.next + 1]
    BY DEF Append
  <2> HIDE DEF m, n
  <2>2. m.nodes \cup {n} \in SUBSET Node /\ m.next + 1 \in Nat
    <3>1. m.nodes \subseteq Node
      BY <1>1 DEF State
    <3> QED BY <3>1, <1>1, <1>2
  <2>3. mem' \in State /\ mem'.nodes = m.nodes \cup {n} /\ mem'.next = m.next + 1
        /\ mem'.token = m.token
    <3> DEFINE ns == m.nodes \cup {n}
               i == m.next + 1
    <3>1. ns \in SUBSET Node /\ i \in Nat /\ m \in State /\ mem' = [m EXCEPT !.nodes = ns, !.next = i]
      BY <2>1, <2>2, <1>1
    <3> HIDE DEF ns, i
    <3>2. mem' \in State /\ mem'.nodes = ns /\ mem'.next = i /\ mem'.token = m.token
      BY <3>1 DEF State
    <3> QED BY <3>2 DEF ns, i
  <2> QED BY <2>3, <1>1
<1>0. req[r] \in Request
  BY DEF IInv, TypeOK, Request
<1>4. /\ q \in Request /\ q.pc = "save" /\ q.ip = m.next
      /\ q.op = req[r].op /\ q.key = req[r].key
  <2> HIDE DEF m
  <2> QED BY <1>0, <1>1 DEF Request
<1>5. req' = [req EXCEPT ![r] = q]
  BY DEF Append
<1>a. \A p \in Requests \ {r} : req'[p] = req[p]
  BY <1>5 DEF IInv, TypeOK
<1>b. req'[r] = q
  BY <1>5 DEF IInv, TypeOK
<1>6. TypeOK'
  <2>1. req' \in [Requests -> Request]
    BY <1>4, <1>5 DEF IInv, TypeOK, Request
  <2>2. routes' \in [Hosts -> Nat \cup {None}]
    BY <1>1, <1>2 DEF IInv, TypeOK
  <2> QED BY <2>1, <2>2, <1>3 DEF IInv, TypeOK, Request
<1>7. Carries'
  BY <1>a, <1>b, <1>4, <1>2 DEF IInv, Carries, Registers
<1>8. Sound(mem)' /\ Sound(file)'
  <2>1. \A o \in mem.nodes : o.ip \in Nat /\ o.ip < m.next
    BY <1>1 DEF Sound, IInv, TypeOK, State, Node
  <2> QED BY <2>1, <1>1, <1>2, <1>3 DEF Sound, IInv, TypeOK, State, Node
<1>9. FileInMemory' /\ Answered' /\ AnsweredIsDurable'
  BY <1>3 DEF IInv, FileInMemory, Answered, AnsweredIsDurable
<1>10. Registered'
  BY <1>a, <1>b, <1>3, <1>4 DEF IInv, Registered, Registers, NodeOf
<1>11. Unsaved'
  <2> SUFFICES ASSUME ~behind, NEW o \in mem'.nodes \ file.nodes
               PROVE  \E p \in Requests : req'[p].pc = "save" /\ Registers(p)' /\ NodeOf(p)' = o
    BY DEF Unsaved
  <2>1. CASE o = n
    BY <2>1, <1>b, <1>4 DEF Registers, NodeOf
  <2>2. CASE o \in mem.nodes
    <3>1. PICK p \in Requests : req[p].pc = "save" /\ Registers(p) /\ NodeOf(p) = o
      BY <2>2 DEF IInv, Unsaved
    <3> QED BY <3>1, <1>a DEF Registers, NodeOf
  <2> QED BY <2>1, <2>2, <1>3
<1>12. First'
  <2> SUFFICES ASSUME NEW p \in Requests, Configured(p)', req'[p].ip \notin lost
               PROVE  /\ NodeOf(p)' \in mem'.nodes
                      /\ \A o \in mem'.nodes : o.key = req'[p].key => req'[p].ip <= o.ip
    BY DEF First
  <2>1. CASE p = r
    BY <2>1, <1>b, <1>1, <1>3, <1>4 DEF Configured, NodeOf, Known, OfKey
  <2>2. CASE p # r
    <3>1. /\ NodeOf(p) \in mem.nodes /\ req'[p] = req[p]
          /\ \A o \in mem.nodes : o.key = req[p].key => req[p].ip <= o.ip
      BY <2>2, <1>a DEF IInv, First, Configured
    <3>2. req[p].ip \in Nat /\ req[p].ip <= m.next
      BY <3>1, <1>1 DEF NodeOf, Sound, IInv, TypeOK, State, Node
    <3> QED BY <3>1, <3>2, <1>3 DEF NodeOf
  <2> QED BY <2>1, <2>2
<1>13. RouteToOwnNode'
  <2> SUFFICES ASSUME NEW h \in Hosts, routes'[h] # None, routes'[h] \notin lost
               PROVE  \E o \in mem'.nodes : o.ip = routes'[h] /\ HostOf[o.key] = h
    BY DEF RouteToOwnNode
  <2>1. CASE routes'[h] = routes[h]
    BY <2>1, <1>3 DEF IInv, RouteToOwnNode
  <2>2. CASE routes'[h] # routes[h]
    BY <2>2, <1>2, <1>3 DEF IInv, TypeOK
  <2> QED BY <2>1, <2>2
<1> QED BY <1>6, <1>7, <1>8, <1>9, <1>10, <1>11, <1>12, <1>13 DEF IInv

-----------------------------------------------------------------------------
\* /v1/config for a key that is registered.
LEMMA ConfigKnownStep ==
  ASSUME IInv, NEW r \in Requests, ConfigKnown(r)
  PROVE  IInv'
<1> USE Constants DEF history
<1>1. PICK n \in Known(r) :
        /\ \A o \in Known(r) : n.ip <= o.ip
        /\ WriteRoute(n.key, n.ip)
        /\ req' = [req EXCEPT ![r].pc = "reply", ![r].ip = n.ip]
  BY DEF ConfigKnown
<1> DEFINE q == [req[r] EXCEPT !.pc = "reply", !.ip = n.ip]
<1>2. /\ n \in mem.nodes /\ n \in Node /\ n.key = req[r].key /\ n.ip \in Nat
      /\ n = [key |-> req[r].key, ip |-> n.ip]
  <2>1. n \in mem.nodes /\ n.key = req[r].key
    BY DEF Known, OfKey
  <2>2. mem.nodes \subseteq Node
    BY DEF IInv, TypeOK, State
  <2> QED BY <2>1, <2>2 DEF Node
<1>0. req[r] \in Request
  BY DEF IInv, TypeOK, Request
<1>4. /\ q \in Request /\ q.pc = "reply" /\ q.ip = n.ip
      /\ q.op = req[r].op /\ q.key = req[r].key
  BY <1>0, <1>2 DEF Request
<1>5. req' = [req EXCEPT ![r] = q]
  BY <1>1
<1>a. \A p \in Requests \ {r} : req'[p] = req[p]
  BY <1>5 DEF IInv, TypeOK
<1>b. req'[r] = q /\ req[r].pc = "lock" /\ req[r].op = "config"
  BY <1>5 DEF IInv, TypeOK, ConfigKnown
<1>6. TypeOK'
  <2>1. req' \in [Requests -> Request]
    BY <1>4, <1>5 DEF IInv, TypeOK, Request
  <2>2. routes' \in [Hosts -> Nat \cup {None}]
    BY <1>1, <1>2 DEF IInv, TypeOK, WriteRoute
  <2> QED BY <2>1, <2>2 DEF IInv, TypeOK, Request, ConfigKnown
<1>3. mem' = mem /\ file' = file /\ UNCHANGED history
  BY DEF ConfigKnown
<1> HIDE DEF q
<1>7. Carries' /\ Registered'
  <2>1. Carries'
    BY <1>a, <1>b, <1>4, <1>2 DEF IInv, Carries, Registers
  <2>2. NodeOf(r)' = n
    BY <1>b, <1>4, <1>2 DEF NodeOf
  <2>3. \A p \in Requests \ {r} : NodeOf(p)' = NodeOf(p)
    BY <1>a DEF NodeOf
  <2> QED BY <2>1, <2>2, <2>3, <1>a, <1>2, <1>3 DEF IInv, Registered, Registers
<1>8. Sound(mem)' /\ Sound(file)' /\ FileInMemory' /\ Answered' /\ AnsweredIsDurable'
  BY DEF IInv, Sound, FileInMemory, Answered, AnsweredIsDurable, ConfigKnown
<1>9. Unsaved'
  BY <1>a, <1>b, <1>3, StillUnsaved DEF IInv
<1>10. First'
  <2> SUFFICES ASSUME NEW p \in Requests, Configured(p)', req'[p].ip \notin lost
               PROVE  /\ NodeOf(p)' \in mem.nodes
                      /\ \A o \in mem.nodes : o.key = req'[p].key => req'[p].ip <= o.ip
    BY DEF First, ConfigKnown
  <2>1. CASE p = r
    BY <2>1, <1>1, <1>2, <1>b, <1>4 DEF NodeOf, Known, OfKey
  <2>2. CASE p # r
    BY <2>2, <1>a DEF IInv, First, Configured, NodeOf
  <2> QED BY <2>1, <2>2
<1>11. RouteToOwnNode'
  <2> SUFFICES ASSUME NEW h \in Hosts, routes'[h] # None, routes'[h] \notin lost
               PROVE  \E o \in mem.nodes : o.ip = routes'[h] /\ HostOf[o.key] = h
    BY DEF RouteToOwnNode, ConfigKnown
  <2>1. CASE routes'[h] = routes[h]
    BY <2>1 DEF IInv, RouteToOwnNode
  <2>2. CASE routes'[h] # routes[h]
    BY <2>2, <1>1, <1>2 DEF IInv, TypeOK, WriteRoute
  <2> QED BY <2>1, <2>2
<1> QED BY <1>6, <1>7, <1>8, <1>9, <1>10, <1>11 DEF IInv
-----------------------------------------------------------------------------
\* /v1/join and /v1/config of a new key append a node.
LEMMA RegisterStep ==
  ASSUME IInv, NEW r \in Requests, Join(r) \/ ConfigNew(r)
  PROVE  IInv'
<1>1. CASE Join(r)
  <2>1. Registers(r) /\ req[r].pc = "lock" /\ req[r].op # "config" /\ Append(r, WithToken)
    BY <1>1 DEF Join, Registers
  <2> QED BY <1>1, <2>1, AppendStep DEF Join
<1>2. CASE ConfigNew(r)
  <2>1. Registers(r) /\ req[r].pc = "lock" /\ Known(r) = {} /\ Append(r, WithToken)
    BY <1>2 DEF ConfigNew, Registers
  <2> QED BY <1>2, <2>1, AppendStep DEF ConfigNew, WriteRoute
<1> QED BY <1>1, <1>2

\* Fields of a request that goes on to step p.
LEMMA GoesOn ==
  ASSUME TypeOK, NEW r \in Requests, NEW p \in {"reply", "done"}
  PROVE  LET q == [req[r] EXCEPT !.pc = p] IN
           q \in Request /\ q.pc = p /\ q.op = req[r].op /\ q.key = req[r].key /\ q.ip = req[r].ip
<1>1. req[r] \in Request
  BY DEF TypeOK, Request
<1> QED BY <1>1 DEF Request

\* /v1/token draws a token if there is none and registers nothing.
LEMMA TokenStep ==
  ASSUME IInv, NEW r \in Requests, Token(r)
  PROVE  IInv'
<1> USE Constants DEF history
<1> DEFINE t == WithToken.token
           q == [req[r] EXCEPT !.pc = "save", !.ip = t]
<1>1. t \in Nat \ {0}
  BY Drawing DEF State
<1>2. mem' \in State /\ mem'.nodes = mem.nodes /\ mem'.next = mem.next /\ mem'.token = t
  <2>1. mem \in State /\ mem' = [mem EXCEPT !.token = t]
    BY DEF IInv, TypeOK, Token
  <2> HIDE DEF t
  <2> QED BY <2>1, <1>1 DEF State
<1>0. req[r] \in Request /\ req[r].op = "token" /\ ~Registers(r)
  BY DEF IInv, TypeOK, Request, Token, Registers
<1>4. /\ q \in Request /\ q.pc = "save" /\ q.ip = t
      /\ q.op = "token" /\ q.key = req[r].key
  <2> HIDE DEF t
  <2> QED BY <1>0, <1>1 DEF Request
<1>5. req' = [req EXCEPT ![r] = q]
  BY DEF Token
<1>a. \A p \in Requests \ {r} : req'[p] = req[p]
  BY <1>5 DEF IInv, TypeOK
<1>b. req'[r] = q
  BY <1>5 DEF IInv, TypeOK
<1> HIDE DEF q, t
<1>6. TypeOK'
  <2>1. req' \in [Requests -> Request]
    BY <1>4, <1>5 DEF IInv, TypeOK, Request
  <2> QED BY <2>1, <1>2 DEF IInv, TypeOK, Request, Token
<1>7. Carries' /\ Registered'
  BY <1>a, <1>b, <1>1, <1>2, <1>4 DEF IInv, Carries, Registered, Registers, NodeOf
<1>8. Sound(mem)' /\ Sound(file)' /\ FileInMemory' /\ Answered' /\ AnsweredIsDurable'
  BY <1>1, <1>2 DEF IInv, Sound, FileInMemory, Answered, AnsweredIsDurable, Token
<1>9. Unsaved'
  <2>1. req[r].pc = "lock"
    BY DEF Token
  <2> QED BY <1>a, <2>1, <1>2, StillUnsaved DEF IInv, Token
<1>10. First'
  <2> SUFFICES ASSUME NEW p \in Requests, Configured(p)', req'[p].ip \notin lost
               PROVE  /\ NodeOf(p)' \in mem.nodes
                      /\ \A o \in mem.nodes : o.key = req'[p].key => req'[p].ip <= o.ip
    BY <1>2 DEF First, Token
  <2>1. p # r
    BY <1>b, <1>4 DEF Configured
  <2> QED BY <2>1, <1>a DEF IInv, First, Configured, NodeOf
<1>11. RouteToOwnNode'
  BY <1>2 DEF IInv, RouteToOwnNode, Token
<1> QED BY <1>6, <1>7, <1>8, <1>9, <1>10, <1>11 DEF IInv

\* save writes all of memory, or leaves the file behind.
LEMMA SaveStep ==
  ASSUME IInv, NEW r \in Requests, Save(r)
  PROVE  IInv'
<1> USE Constants DEF history
<1> DEFINE q == [req[r] EXCEPT !.pc = "reply"]
<1>4. /\ q \in Request /\ q.pc = "reply" /\ q.ip = req[r].ip
      /\ q.op = req[r].op /\ q.key = req[r].key
  BY GoesOn DEF IInv
<1>5. req' = [req EXCEPT ![r] = q] /\ req[r].pc = "save"
  BY DEF Save
<1>a. \A p \in Requests \ {r} : req'[p] = req[p]
  BY <1>5 DEF IInv, TypeOK
<1>b. req'[r] = q
  BY <1>5 DEF IInv, TypeOK
<1> HIDE DEF q
<1>1. Blank \in State /\ Blank.nodes = {} /\ Sound(Blank)
  BY DEF Blank, State, Sound
<1>2. /\ file' \in {file, Blank, mem} /\ (~behind' => file' = mem) /\ behind' \in BOOLEAN
      /\ \/ file' = mem /\ ~blind'
         \/ file' \in {file, Blank} /\ blind' = blind
      /\ blind' \in BOOLEAN
  BY DEF Save, IInv, TypeOK
<1>6. TypeOK'
  <2>1. req' \in [Requests -> Request]
    BY <1>4, <1>5 DEF IInv, TypeOK, Request
  <2>2. file' \in State
    BY <1>1, <1>2 DEF IInv, TypeOK
  <2> QED BY <2>1, <2>2, <1>2 DEF IInv, TypeOK, Request, Save
<1>7. Carries' /\ Registered'
  BY <1>a, <1>b, <1>4, <1>5 DEF IInv, Carries, Registered, Registers, NodeOf, Save
<1>8. Sound(mem)' /\ Sound(file)' 
  BY <1>1, <1>2 DEF IInv, Sound, Save
<1>9. FileInMemory' /\ Answered' /\ AnsweredIsDurable' /\ Unsaved'
  BY <1>1, <1>2 DEF IInv, FileInMemory, Answered, AnsweredIsDurable, Unsaved, Save
<1>10. First'
  BY <1>a, <1>b, <1>4 DEF IInv, First, Configured, NodeOf, Save
<1>11. RouteToOwnNode'
  BY DEF IInv, RouteToOwnNode, Save
<1> QED BY <1>6, <1>7, <1>8, <1>9, <1>10, <1>11 DEF IInv

\* The answer: a node it names that is not in the file is one another request
\* is about to save, and then the file counts as behind.
LEMMA ReplyStep ==
  ASSUME IInv, NEW r \in Requests, Reply(r)
  PROVE  IInv'
<1> USE Constants DEF history
<1> DEFINE q == [req[r] EXCEPT !.pc = "done"]
<1>4. /\ q \in Request /\ q.pc = "done" /\ q.ip = req[r].ip
      /\ q.op = req[r].op /\ q.key = req[r].key
  BY GoesOn DEF IInv
<1>5. req' = [req EXCEPT ![r] = q] /\ req[r].pc = "reply"
  BY DEF Reply
<1>a. \A p \in Requests \ {r} : req'[p] = req[p]
  BY <1>5 DEF IInv, TypeOK
<1>b. req'[r] = q
  BY <1>5 DEF IInv, TypeOK
<1> HIDE DEF q
<1>1. \/ req[r].op = "token" /\ told' = told /\ req[r].ip \in Nat \ {0}
         /\ issued' = issued \cup {req[r].ip}
      \/ Registers(r) /\ told' = told \cup {NodeOf(r)} /\ issued' = issued
         /\ NodeOf(r) \in mem.nodes
  <2>1. req[r].op = "token" \/ Registers(r)
    BY <1>5 DEF IInv, Carries
  <2> QED BY <2>1, <1>5 DEF IInv, Carries, Registered, Reply, Registers, NodeOf
<1>2. told \subseteq told' /\ told' \subseteq mem.nodes
  BY <1>1 DEF IInv, Answered
<1>6. TypeOK'
  <2>1. req' \in [Requests -> Request]
    BY <1>4, <1>5 DEF IInv, TypeOK, Request
  <2>2. told' \subseteq Node
    BY <1>2 DEF IInv, TypeOK, State
  <2>3. issued' \subseteq Nat \ {0}
    BY <1>1 DEF IInv, TypeOK
  <2>4. behind' \in BOOLEAN
    BY DEF Reply
  <2> QED BY <2>1, <2>2, <2>3, <2>4 DEF IInv, TypeOK, Request, Reply
<1>7. Carries' /\ Registered'
  BY <1>a, <1>b, <1>4, <1>5 DEF IInv, Carries, Registered, Registers, NodeOf, Reply
<1>8. Sound(mem)' /\ Sound(file)' /\ FileInMemory'
  BY DEF IInv, Sound, FileInMemory, Reply
<1>9. AnsweredIsDurable'
  <2> SUFFICES ASSUME ~behind' PROVE told' \subseteq file.nodes
    BY DEF AnsweredIsDurable, Reply
  <2>1. ~behind /\ ~Pending(r)
    BY DEF Reply
  <2>2. told \subseteq file.nodes
    BY <2>1 DEF IInv, AnsweredIsDurable
  <2>3. ASSUME Registers(r), NodeOf(r) \in mem.nodes PROVE NodeOf(r) \in file.nodes
    <3> SUFFICES ASSUME NodeOf(r) \notin file.nodes PROVE FALSE
      OBVIOUS
    <3>1. PICK p \in Requests : req[p].pc = "save" /\ Registers(p) /\ NodeOf(p) = NodeOf(r)
      BY <2>1, <2>3 DEF IInv, Unsaved
    <3>2. req[p].key = req[r].key
      BY <3>1 DEF NodeOf
    <3> QED BY <2>1, <3>1, <3>2 DEF Pending, Registers
  <2> QED BY <1>1, <2>2, <2>3
<1>10. Answered'
  BY <1>2 DEF Answered, Reply
<1>11. Unsaved'
  BY <1>a, <1>5, StillUnsaved DEF IInv, Reply
<1>12. First'
  BY <1>a, <1>b, <1>4 DEF IInv, First, Configured, NodeOf, Reply
<1>13. RouteToOwnNode'
  BY DEF IInv, RouteToOwnNode, Reply
<1> QED BY <1>6, <1>7, <1>8, <1>9, <1>10, <1>11, <1>12, <1>13 DEF IInv

\* A stop: memory is what was read, what it lacks is lost.
LEMMA RestartStep ==
  ASSUME IInv, Restart
  PROVE  IInv'
<1> USE Constants DEF history
<1>0. \A r \in Requests : req[r] \in Request
  BY DEF IInv, TypeOK, Request
<1>1. /\ Idle \in Request /\ Idle.op = "none" /\ Idle.pc = "idle"
  BY DEF Idle, Request
<1>2. \A r \in Requests :
        LET d == [req[r] EXCEPT !.pc = "done"] IN
          d \in Request /\ d.pc = "done" /\ d.op = req[r].op /\ d.key = req[r].key /\ d.ip = req[r].ip
  BY GoesOn DEF IInv
<1>3. \A r \in Requests :
        /\ req'[r] \in Request
        /\ \/ req'[r].pc = "idle" /\ req'[r].op = "none"
           \/ /\ req'[r].pc = "done" /\ req'[r].op = req[r].op
              /\ req'[r].key = req[r].key /\ req'[r].ip = req[r].ip
  BY <1>1, <1>2 DEF Restart
<1>4. req' \in [Requests -> Request]
  <2>1. req' = [r \in Requests |-> req'[r]]
    BY DEF Restart
  <2> QED BY <2>1, <1>3
<1>5. /\ file' = file /\ behind' = FALSE /\ routes' = routes /\ told' = told \cap mem'.nodes
      /\ \/ mem' = file /\ ~blind'
         \/ mem' = Blank /\ blind'
      /\ blind' \in BOOLEAN
  BY DEF Restart, Forgets
<1>s. mem' \in State /\ Sound(mem') /\ (mem' = Blank => mem'.nodes = {})
  <2>1. Blank \in State /\ Sound(Blank) /\ Blank.nodes = {}
    BY DEF Blank, State, Sound
  <2> QED BY <1>5, <2>1 DEF IInv, TypeOK
<1>6. /\ lost \subseteq lost' /\ lost' \subseteq Nat
      /\ \A n \in mem.nodes : n \in mem'.nodes \/ n.ip \in lost'
  <2>1. mem.nodes \subseteq Node /\ told \subseteq Node /\ lost \subseteq Nat
    BY DEF IInv, TypeOK, State
  <2>2. \A n \in Node : n.ip \in Nat
    BY DEF Node
  <2>3. lost' = lost \cup {n.ip : n \in (mem.nodes \cup told) \ mem'.nodes}
    BY DEF Restart, Forgets, Ips
  <2> QED BY <2>1, <2>2, <2>3
<1>7. TypeOK'
  <2>1. stops' \in 0 .. MaxStops
    BY DEF IInv, TypeOK, Restart
  <2>2. told' \subseteq Node
    BY <1>5 DEF IInv, TypeOK
  <2> QED BY <2>1, <2>2, <1>4, <1>5, <1>6, <1>s DEF IInv, TypeOK, Request, Restart
<1>8. Carries' /\ Registered'
  BY <1>3 DEF Carries, Registered
<1>9. Sound(mem)' /\ Sound(file)' /\ Answered' /\ AnsweredIsDurable' /\ Unsaved'
  BY <1>5, <1>s DEF IInv, Sound, Answered, AnsweredIsDurable, Unsaved
<1>f. FileInMemory'
  <2>1. CASE mem' = file /\ ~blind'
    BY <1>5, <2>1 DEF FileInMemory
  <2>2. CASE mem' = Blank /\ blind'
    <3>1. \A n \in file.nodes : n.ip \in lost'
      BY <1>6, <1>s, <2>2 DEF IInv, FileInMemory
    <3> QED BY <1>5, <2>2, <3>1 DEF FileInMemory
  <2> QED BY <1>5, <2>1, <2>2
<1>10. First'
  <2> SUFFICES ASSUME NEW p \in Requests, Configured(p)', req'[p].ip \notin lost'
               PROVE  /\ NodeOf(p)' \in mem'.nodes
                      /\ \A o \in mem'.nodes : o.key = req'[p].key => req'[p].ip <= o.ip
    BY DEF First
  <2>1. /\ req'[p].op = req[p].op /\ req'[p].key = req[p].key /\ req'[p].ip = req[p].ip
    BY <1>3 DEF Configured
  <2>2. /\ NodeOf(p) \in mem.nodes
        /\ \A o \in mem.nodes : o.key = req[p].key => req[p].ip <= o.ip
    BY <2>1, <1>6 DEF IInv, First, Configured
  <2>3. NodeOf(p)' = NodeOf(p) /\ NodeOf(p).ip = req[p].ip
    BY <2>1 DEF NodeOf
  <2>4. NodeOf(p) \in mem'.nodes
    BY <2>1, <2>2, <2>3, <1>6
  <2>5. mem'.nodes = file.nodes
    BY <2>4, <1>5, <1>s
  <2>6. file.nodes \subseteq mem.nodes
    BY <2>1, <2>3, <2>4, <2>5, <1>6 DEF IInv, FileInMemory
  <2> QED BY <2>1, <2>2, <2>3, <2>4, <2>5, <2>6
<1>11. RouteToOwnNode'
  BY <1>5, <1>6 DEF IInv, RouteToOwnNode
<1> QED BY <1>7, <1>8, <1>9, <1>f, <1>10, <1>11 DEF IInv

\* Every step of the coordinator keeps the invariant.
LEMMA NextIInv == IInv /\ [Next]_vars => IInv'
<1> SUFFICES ASSUME IInv, [Next]_vars PROVE IInv'
  OBVIOUS
<1>1. CASE UNCHANGED vars
  BY <1>1 DEF vars, IInv, TypeOK, Carries, Sound, FileInMemory, Registered, Answered, Unsaved,
     First, AnsweredIsDurable, RouteToOwnNode, Registers, NodeOf, Configured
<1>2. ASSUME NEW r \in Requests, Handle(r) PROVE IInv'
  BY <1>2, ArriveStep, CheckTokenStep, RegisterStep, ConfigKnownStep, TokenStep, SaveStep,
     ReplyStep DEF Handle
<1> QED BY <1>1, <1>2, RestartStep DEF Next

\* The inductive invariant, from which the theorems follow.
LEMMA Invariance == Spec => []IInv
BY InitIInv, NextIInv, PTL DEF Spec

-----------------------------------------------------------------------------
\* The coordinator's state stays well typed (main.go: Coordinator, Node).
THEOREM CoordinatorTypeCorrect == Spec => []TypeOK
BY Invariance, PTL DEF IInv

\* A registration that was answered is in the file, unless a write failed or a
\* repeated request was answered early (save after the mutex was released).
THEOREM CoordinatorDurable == Spec => []AnsweredIsDurable
BY Invariance, PTL DEF IInv

\* A subdomain is routed to a node of its host (writeTraefikRoute).
THEOREM CoordinatorRoutes == Spec => []RouteToOwnNode
BY Invariance, PTL DEF IInv

\* /v1/config answers one public key with one address (handleConfig).
THEOREM CoordinatorIdempotent == Spec => []ConfigIsIdempotent
<1>1. IInv => ConfigIsIdempotent
  <2> SUFFICES ASSUME IInv, NEW q \in Requests, NEW r \in Requests,
                      Configured(q), Configured(r), req[q].key = req[r].key,
                      req[q].ip \notin lost, req[r].ip \notin lost
               PROVE  req[q].ip = req[r].ip
    BY DEF ConfigIsIdempotent
  <2>1. NodeOf(q) \in mem.nodes /\ NodeOf(r) \in mem.nodes
    BY DEF IInv, First
  <2>2. /\ NodeOf(q).key = req[q].key /\ NodeOf(q).ip = req[q].ip
        /\ NodeOf(r).key = req[r].key /\ NodeOf(r).ip = req[r].ip
    BY DEF NodeOf
  <2>3. req[q].ip <= req[r].ip /\ req[r].ip <= req[q].ip
    BY <2>1, <2>2 DEF IInv, First
  <2>4. req[q].ip \in Nat /\ req[r].ip \in Nat
    BY Constants DEF IInv, TypeOK, Configured
  <2> QED BY <2>3, <2>4
<1> QED BY <1>1, Invariance, PTL

-----------------------------------------------------------------------------
\* The grants the coordinator has made, as the pool sees them.
Grant(n) == [owner |-> n.key, address |-> n.ip]
Granted == {Grant(n) : n \in told}

\* A step of the coordinator is a step of the pool or leaves the grants alone.
LEMMA PoolStep ==
  ASSUME IInv, IInv', [Next]_vars
  PROVE  [Pool!Next]_Granted
<1>n. told \subseteq mem.nodes /\ mem.nodes \subseteq Node /\ Sound(mem)
  BY DEF IInv, Answered, TypeOK, State
<1>g. \A n \in Node : Grant(n) \in Pool!Grants /\ Grant(n).address = n.ip
  BY DEF Grant, Node, Pool!Grants
<1>1. CASE told' = told
  BY <1>1 DEF Granted
<1>2. ASSUME NEW r \in Requests, Reply(r), told' # told PROVE Pool!Grant
  <2> DEFINE n == NodeOf(r)
  <2>1. told' = told \cup {n} /\ n \notin told
    BY <1>2 DEF Reply, NodeOf
  <2>2. n \in mem.nodes
    <3>1. mem' = mem
      BY <1>2 DEF Reply
    <3> QED BY <2>1, <3>1 DEF IInv, Answered
  <2>3. \A o \in told : o.ip # n.ip
    BY <2>1, <2>2, <1>n DEF Sound
  <2>4. Granted' = Granted \cup {Grant(n)}
    BY <2>1 DEF Granted
  <2> HIDE DEF n
  <2>5. \A o \in Granted : o.address # Grant(n).address
    BY <2>2, <2>3, <1>n, <1>g DEF Granted
  <2>6. Grant(n) \in Granted' \cap Pool!Grants
    BY <2>2, <2>4, <1>n, <1>g
  <2> QED BY <2>4, <2>5, <2>6 DEF Pool!Grant, Granted, Grant
<1>3. CASE Restart
  <2>1. told' \subseteq told
    BY <1>3 DEF Restart, Forgets
  <2>2. CASE behind \/ blind'
    BY <2>1, <2>2 DEF Pool!Next, Pool!Forget, Granted, Grant
  <2>3. CASE ~behind /\ ~blind'
    <3>1. mem' = file /\ told' = told \cap mem'.nodes
      BY <1>3, <2>3 DEF Restart, Forgets
    <3> QED BY <1>1, <2>3, <3>1 DEF IInv, AnsweredIsDurable
  <2> QED BY <2>2, <2>3
<1>4. CASE UNCHANGED vars
  BY <1>1, <1>4 DEF vars
<1>5. ASSUME NEW r \in Requests, Handle(r) PROVE told' = told \/ Reply(r)
  BY <1>5 DEF Handle, Arrive, CheckToken, Join, ConfigKnown, ConfigNew, Token, Save, history
<1> QED BY <1>1, <1>2, <1>3, <1>4, <1>5 DEF Next, Pool!Next

\* The coordinator hands out addresses as AddressPool says: one owner for an
\* address, and nothing answered is forgotten unless the file is behind or the
\* process starts without having read it (load).
THEOREM CoordinatorImplementsPool == Spec => ImplementsPool
<1>1. Init => Pool!Init
  BY DEF Init, Pool!Init
<1>2. Granted = {[owner |-> n.key, address |-> n.ip] : n \in told}
  BY DEF Granted, Grant
<1>3. IInv /\ IInv' /\ [Next]_vars => [Pool!Next]_{[owner |-> n.key, address |-> n.ip] : n \in told}
  BY PoolStep DEF Granted, Grant
<1> QED BY <1>1, <1>3, Invariance, PTL DEF Spec, ImplementsPool, Pool!Spec
=============================================================================
