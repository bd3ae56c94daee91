---------------------------- MODULE Coordinator -----------------------------
(***************************************************************************)
(* The coordinator of the mesh (src/mesh/coordinator/main.go): it gives    *)
(* every node that registers an address 10.100.0.n, keeps the list of them *)
(* in a file, and writes a Traefik route for a node that asks for a        *)
(* subdomain.  A handler checks the token without the mutex, registers     *)
(* with the mutex, saves with the mutex taken again, and then answers, so  *)
(* other requests and a stop of the process come between any two of these. *)
(*                                                                         *)
(* Nodes are appended with rising addresses, so the list is kept as a set: *)
(* its order is that of the addresses.  /v1/peers and /v1/cert only read.  *)
(***************************************************************************)
EXTENDS Naturals, FiniteSets

CONSTANTS Requests,
          Keys,       \* WireGuard public keys of nodes
          Hosts,      \* endpoint addresses without port: the subdomains
          HostOf,     \* key -> host its node registers from
          MaxStops,   \* bound: how often the process stops
          None

ASSUME HostAssumption == HostOf \in [Keys -> Hosts]
ASSUME StopsAssumption == MaxStops \in Nat
ASSUME NoneAssumption == None \notin Keys \cup Nat

VARIABLES mem,     \* Coordinator: nodes, nextIP and token
          file,    \* what COORDINATOR_STORAGE holds
          routes,  \* host -> address its route file names, or None
          req,     \* requests
          issued,  \* tokens /v1/token has answered
          stops,   \* how often the process stopped
          told,    \* registrations that were answered and are remembered (history)
          behind,  \* the last write of the file failed, or a registration was
                   \* answered to a repeated request before it was written (history)
          blind,   \* started without reading the file, not saved since (history)
          lost     \* addresses of registrations a stop has lost (history)

vars == <<mem, file, routes, req, issued, stops, told, behind, blind, lost>>
history == <<told, behind, blind, lost>>

Node == [key : Keys, ip : Nat]

\* Tokens are random, so they are numbered: 0 is "", and a coordinator that
\* starts from nothing draws a token no earlier one had.
State == [nodes : SUBSET Node, next : Nat, token : Nat]

\* A missing file, and one json.Unmarshal refuses because it was cut off, load
\* as the zero state.
Blank == [nodes |-> {}, next |-> 0, token |-> 0]

Idle == [pc |-> "idle", op |-> "none", key |-> None, ip |-> None]

TypeOK ==
  /\ mem \in State
  /\ file \in State
  /\ routes \in [Hosts -> Nat \cup {None}]
  /\ req \in [Requests ->
       [pc : {"idle", "check", "lock", "save", "reply", "done"},
        op : {"none", "join", "config", "token"}, key : Keys \cup {None},
        ip : Nat \cup {None}]]
  /\ issued \subseteq Nat \ {0}
  /\ stops \in 0 .. MaxStops
  /\ told \subseteq Node
  /\ behind \in BOOLEAN
  /\ blind \in BOOLEAN
  /\ lost \subseteq Nat

Init ==
  /\ mem = Blank
  /\ file = Blank
  /\ routes = [h \in Hosts |-> None]
  /\ req = [r \in Requests |-> Idle]
  /\ issued = {}
  /\ stops = 0
  /\ told = {}
  /\ behind = FALSE
  /\ blind = FALSE
  /\ lost = {}

Ips(nodes) == {n.ip : n \in nodes}
OfKey(nodes, k) == {n \in nodes : n.key = k}

-----------------------------------------------------------------------------
\* A request for /v1/join, /v1/config or /v1/token arrives.
Arrive(r) ==
  /\ req[r].pc = "idle"
  /\ \/ \E op \in {"join", "config"}, k \in Keys :
          req' = [req EXCEPT ![r] = [pc |-> "check", op |-> op, key |-> k, ip |-> None]]
     \/ req' = [req EXCEPT ![r] = [pc |-> "lock", op |-> "token", key |-> None, ip |-> None]]
  /\ UNCHANGED <<mem, file, routes, issued, stops, history>>

\* The token is compared before the mutex is taken; while there is none, every
\* request passes.  A token may be one that /v1/token answered before a stop.
CheckToken(r) ==
  /\ req[r].pc = "check"
  /\ \E t \in issued \cup {0} :
       req' = [req EXCEPT ![r].pc = IF mem.token = 0 \/ t = mem.token
                                    THEN "lock" ELSE "done"]
  /\ UNCHANGED <<mem, file, routes, issued, stops, history>>

\* With the mutex: the first request of all draws the token and starts at 1.
WithToken ==
  IF mem.token = 0 THEN [mem EXCEPT !.token = stops + 1, !.next = 1] ELSE mem

\* writeTraefikRoute, whose error is only logged; without main_domain there is
\* no route.
WriteRoute(key, ip) ==
  \/ routes' = [routes EXCEPT ![HostOf[key]] = ip]
  \/ UNCHANGED routes

\* Append a node with the next address; the answer is put together here.
Append(r, m) ==
  /\ mem' = [m EXCEPT !.nodes = @ \cup {[key |-> req[r].key, ip |-> m.next]},
                      !.next = @ + 1]
  /\ req' = [req EXCEPT ![r].pc = "save", ![r].ip = m.next]

\* handleJoin: a node that joins again gets another address.
Join(r) ==
  /\ req[r].pc = "lock" /\ req[r].op = "join"
  /\ Append(r, WithToken)
  /\ UNCHANGED <<file, routes, issued, stops, history>>

Known(r) == OfKey(mem.nodes, req[r].key)

\* handleConfig for a public key that is registered: the first node with it.
ConfigKnown(r) ==
  /\ req[r].pc = "lock" /\ req[r].op = "config" /\ Known(r) # {}
  /\ \E n \in Known(r) :
       /\ \A o \in Known(r) : n.ip <= o.ip
       /\ WriteRoute(n.key, n.ip)
       /\ req' = [req EXCEPT ![r].pc = "reply", ![r].ip = n.ip]
  /\ UNCHANGED <<mem, file, issued, stops, history>>

\* Variant: the route is written after nextIP++ and names the next address.
ConfigNewRoutesNext(r) ==
  /\ req[r].pc = "lock" /\ req[r].op = "config" /\ Known(r) = {}
  /\ Append(r, WithToken)
  /\ WriteRoute(req[r].key, mem'.next)
  /\ UNCHANGED <<file, issued, stops, history>>

\* Variant: the public key is not looked up first.
ConfigNewAlways(r) ==
  /\ req[r].pc = "lock" /\ req[r].op = "config"
  /\ Append(r, WithToken)
  /\ WriteRoute(req[r].key, WithToken.next)
  /\ UNCHANGED <<file, issued, stops, history>>

\* handleConfig for a new one.
ConfigNew(r) ==
  /\ req[r].pc = "lock" /\ req[r].op = "config" /\ Known(r) = {}
  /\ Append(r, WithToken)
  /\ WriteRoute(req[r].key, WithToken.next)
  /\ UNCHANGED <<file, issued, stops, history>>

\* Variant: the token to answer is read before it is drawn.
TokenReadFirst(r) ==
  /\ req[r].pc = "lock" /\ req[r].op = "token"
  /\ mem' = [mem EXCEPT !.token = WithToken.token]
  /\ req' = [req EXCEPT ![r].pc = "save", ![r].ip = mem.token]
  /\ UNCHANGED <<file, routes, issued, stops, history>>

\* handleToken draws the token too, but leaves nextIP as it is.
Token(r) ==
  /\ req[r].pc = "lock" /\ req[r].op = "token"
  /\ mem' = [mem EXCEPT !.token = WithToken.token]
  /\ req' = [req EXCEPT ![r].pc = "save", ![r].ip = WithToken.token]
  /\ UNCHANGED <<file, routes, issued, stops, history>>

\* Variant: the list is copied before the mutex is released and written later.
SaveOwn(r) ==
  /\ req[r].pc = "save"
  /\ file' = [mem EXCEPT !.nodes = {n \in @ : n.ip <= req[r].ip}]
  /\ behind' = FALSE /\ blind' = FALSE
  /\ req' = [req EXCEPT ![r].pc = "reply"]
  /\ UNCHANGED <<mem, routes, issued, stops, told, lost>>

\* save: the state as it is now.  The error of WriteFile is discarded; the file
\* is then as it was, or cut off.
Save(r) ==
  /\ req[r].pc = "save"
  /\ \/ file' = mem /\ behind' = FALSE /\ blind' = FALSE
     \/ file' \in {file, Blank} /\ behind' = TRUE /\ UNCHANGED blind
  /\ req' = [req EXCEPT ![r].pc = "reply"]
  /\ UNCHANGED <<mem, routes, issued, stops, told, lost>>

\* handleConfig answers for a known key without a save of its own: the request
\* that registered the key may not have saved yet.
Pending(r) ==
  \E q \in Requests : /\ req[q].pc = "save" /\ req[q].op # "token"
                       /\ req[q].key = req[r].key

Reply(r) ==
  /\ req[r].pc = "reply"
  /\ IF req[r].op = "token"
     THEN issued' = issued \cup {req[r].ip} /\ UNCHANGED told
     ELSE told' = told \cup {[key |-> req[r].key, ip |-> req[r].ip]} /\ UNCHANGED issued
  /\ behind' = (behind \/ Pending(r))
  /\ req' = [req EXCEPT ![r].pc = "done"]
  /\ UNCHANGED <<mem, file, routes, stops, blind, lost>>

\* What the process knows after it started again with nodes.
Forgets(nodes) ==
  /\ told' = told \cap nodes
  /\ lost' = lost \cup Ips((mem.nodes \cup told) \ nodes)
  /\ behind' = FALSE

\* Variant: load forgets nextIP.
RestartFromOne ==
  /\ stops < MaxStops
  /\ mem' = [file EXCEPT !.next = 1]
  /\ Forgets(file.nodes)
  /\ blind' = FALSE
  /\ stops' = stops + 1
  /\ req' = [r \in Requests |-> IF req[r].pc = "idle" THEN Idle ELSE [req[r] EXCEPT !.pc = "done"]]
  /\ UNCHANGED <<file, routes, issued>>

\* The process stops between two steps, or while it writes the file (a Save
\* that cuts it off comes first), and starts again: main, load.  A file that
\* cannot be read, for whatever reason, loads as the zero state too.
Restart ==
  /\ stops < MaxStops
  /\ mem' \in {file, Blank}
  /\ Forgets(mem'.nodes)
  /\ blind' = (mem' # file)
  /\ stops' = stops + 1
  /\ req' = [r \in Requests |-> IF req[r].pc = "idle" THEN Idle ELSE [req[r] EXCEPT !.pc = "done"]]
  /\ UNCHANGED <<file, routes, issued>>

Handle(r) ==
  \/ Arrive(r) \/ CheckToken(r) \/ Join(r) \/ ConfigKnown(r) \/ ConfigNew(r)
  \/ Token(r) \/ Save(r) \/ Reply(r)

Next == (\E r \in Requests : Handle(r)) \/ Restart

Spec == Init /\ [][Next]_vars

-----------------------------------------------------------------------------
\* An answered registration is in the file, unless the last write failed or a
\* repeated request was answered before the registration was written: saves of
\* overlapping requests never put an older list in place of a newer one.
AnsweredIsDurable ==
  ~behind => told \subseteq file.nodes

Configured(r) == req[r].op = "config" /\ req[r].ip # None

\* Asking /v1/config again with one public key yields the same address, however
\* the requests overlap, whether /v1/join came in between or the process was
\* restarted, unless a stop lost the registration.
ConfigIsIdempotent ==
  \A q, r \in Requests :
    Configured(q) /\ Configured(r) /\ req[q].key = req[r].key =>
      req[q].ip = req[r].ip \/ {req[q].ip, req[r].ip} \cap lost # {}

\* A subdomain is routed to an address of a node of that host, unless a stop
\* lost the registration the route was written for.
RouteToOwnNode ==
  \A h \in Hosts : routes[h] # None /\ routes[h] \notin lost =>
    \E n \in mem.nodes : n.ip = routes[h] /\ HostOf[n.key] = h

\* The coordinator hands out addresses as a pool does: what it has answered it
\* forgets in a restart only if the file was behind or could not be read.
Pool == INSTANCE AddressPool WITH
  Owners <- Keys, Addresses <- Nat, unstored <- behind, unread <- blind,
  granted <- {[owner |-> n.key, address |-> n.ip] : n \in told}

ImplementsPool == Pool!Spec
=============================================================================
