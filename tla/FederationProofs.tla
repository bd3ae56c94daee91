-------------------------- MODULE FederationProofs --------------------------
(***************************************************************************)
(* Proofs about Federation, for every set of servers, names and messages,  *)
(* every configuration of them and chains of any length: type correctness  *)
(* and the three invariants.                                               *)
(*                                                                         *)
(* That an accepted message has arrived is known to its home server only   *)
(* through the answers of the servers in between.  IInv follows the chain  *)
(* of calls of a request backwards: a call somebody waits for was made by  *)
(* a call that waits (Good), a call whose own call came back with 200 has  *)
(* the event at the destination (RelayedArrived), and past the comparison  *)
(* of domains a handler runs at the destination.  A request that was not   *)
(* sent has left no trace (Fresh), and a domain that the allowlist in      *)
(* memory lacks has no more lines in the file than there were starts that  *)
(* could not read it (Remembered).                                         *)
(***************************************************************************)
EXTENDS Federation, TLAPS

\* Calls and chains of calls, as in TypeOK.
Hop == [pc : Steps, at : Servers \cup {None}, origin : Names \cup {None}, live : BOOLEAN]
Chain == [Slots -> Hop]

\* The statements only the destination executes.
Local == {"trust", "count", "add", "select", "insert"}

\* Call i of the chain h of a request for message m.
GoodCall(h, m, i) ==
  /\ h[i].pc # "none" => h[i].at \in Servers /\ h[i].origin \in Names /\ m \in Messages
  /\ h[i].live => h[i].pc # "none" /\ i # 0 /\ (i > 1 => h[i - 1].pc = "wait")
  /\ h[i].pc \in Local => DomainOf[h[i].at] = DestOf[m]
  /\ h[i].pc \in {"count", "add"} => Mode = "auto"

Good(h, m) == \A i \in Slots : GoodCall(h, m, i)

Chains == \A r \in Requests : Good(hop[r], msg[r])

Arrived(r) == LET s == HostOf[DestOf[msg[r]]] IN r \in queue[s] \cup rejected[s]

HasRelayed(h) == \E i \in Slots : h[i].pc = "relayed"

RelayedArrived == \A r \in Requests : HasRelayed(hop[r]) => Arrived(r)

Fresh ==
  \A r \in Requests : answer[r] = "idle" =>
    /\ \A i \in Slots : hop[r][i].pc = "none"
    /\ \A s \in Servers : r \notin queue[s] \cup rejected[s]

Sent == \A r \in Requests : answer[r] # "idle" => msg[r] \in Messages

Remembered ==
  Mode = "auto" => \A s \in Servers, d \in Names : d \notin allow[s] => file[s][d] <= unread[s]

\* The types of the calls and of what they leave at the servers.
CallTypes ==
  /\ msg \in [Requests -> Messages \cup {None}]
  /\ answer \in [Requests -> {"idle", "waiting", "accepted", "failed"}]
  /\ hop \in [Requests -> Chain]
  /\ queue \in [Servers -> SUBSET Requests]
  /\ rejected \in [Servers -> SUBSET Requests]

\* The types of what servers know of each other.
TrustTypes ==
  /\ peers \in [Servers -> SUBSET Names]
  /\ allow \in [Servers -> SUBSET Names]
  /\ file \in [Servers -> [Names -> Nat]]
  /\ count \in [Servers -> [Names -> Nat]]
  /\ blocked \in [Servers -> SUBSET Names]
  /\ unread \in [Servers -> Nat]

\* The two halves of the invariant.
CallInv == /\ CallTypes /\ Chains /\ RelayedArrived /\ Fresh /\ Sent
           /\ AcceptedArrived /\ StoredAtDestination

TrustInv == TrustTypes /\ Remembered /\ AllowlistFileOnce

IInv == CallInv /\ TrustInv

\* The constants, as the proofs use them.
LEMMA Constants ==
  /\ HostOf \in [Names -> Servers] /\ DomainOf \in [Servers -> Names]
  /\ \A s \in Servers : HostOf[DomainOf[s]] = s
  /\ MainOf \in [Servers -> Names \cup {None}]
  /\ None \notin Names /\ None \notin Servers /\ None \notin Messages
  /\ HomeOf \in [Messages -> Servers] /\ DestOf \in [Messages -> Names]
  /\ MaxHops \in Nat \ {0}
BY FederationConstants

\* The types follow from the invariant.
LEMMA Typed == IInv => TypeOK
BY DEF IInv, CallInv, TrustInv, CallTypes, TrustTypes, TypeOK, Chain, Hop

\* The invariant holds before the first message.
LEMMA InitIInv == Init => IInv
<1> SUFFICES ASSUME Init PROVE IInv
  OBVIOUS
<1>1. NoHop \in Hop /\ NoHop.pc = "none" /\ NoHop.live = FALSE
  BY DEF NoHop, Hop, Steps
<1>2. \A r \in Requests, i \in Slots : hop[r][i] = NoHop
  BY DEF Init
<1>3. CallTypes
  <2>1. hop \in [Requests -> Chain]
    BY <1>1 DEF Init, Chain
  <2> QED BY <2>1 DEF Init, CallTypes
<1>4. Chains /\ RelayedArrived /\ Fresh /\ Sent
  BY <1>1, <1>2 DEF Init, Sent, Chains, Good, GoodCall, RelayedArrived, HasRelayed, Fresh, Local
<1>5. AcceptedArrived /\ StoredAtDestination
  BY DEF Init, AcceptedArrived, StoredAtDestination
<1>6. TrustInv
  <2>1. file \in [Servers -> [Names -> Nat]]
    BY DEF Init
  <2>2. /\ allow \in [Servers -> SUBSET Names] /\ \A s \in Servers : allow[s] \in Allowlists(s)
        /\ unread = [s \in Servers |-> Unread(s, allow[s])]
        /\ file = [s \in Servers |-> [d \in Names |-> IF d \in Trusted[s] THEN 1 ELSE 0]]
    BY DEF Init
  <2>3. unread \in [Servers -> Nat]
    BY <2>2 DEF Unread
  <2>4. Remembered
    <3> SUFFICES ASSUME Mode = "auto", NEW s \in Servers, NEW d \in Names, d \notin allow[s]
                 PROVE  file[s][d] <= unread[s]
      BY DEF Remembered
    <3>1. CASE allow[s] = Persisted(s)
      BY <2>2, <2>3, <3>1 DEF Persisted
    <3>2. CASE allow[s] # Persisted(s)
      BY <2>2, <3>2 DEF Unread
    <3> QED BY <3>1, <3>2
  <2>5. AllowlistFileOnce
    BY <2>2, <2>3 DEF AllowlistFileOnce
  <2>6. /\ peers \in [Servers -> SUBSET Names] /\ count \in [Servers -> [Names -> Nat]]
        /\ blocked \in [Servers -> SUBSET Names]
    BY DEF Init
  <2> QED BY <2>1, <2>2, <2>3, <2>4, <2>5, <2>6 DEF TrustInv, TrustTypes
<1> QED BY <1>3, <1>4, <1>5, <1>6 DEF IInv, CallInv

-----------------------------------------------------------------------------
\* What a step of one request may do to calls, answer and queues.
LEMMA CallStep ==
  ASSUME CallInv, NEW r \in Requests, NEW g \in Chain,
         hop' = [hop EXCEPT ![r] = g], Good(g, msg[r]), msg' = msg,
         \E i \in Slots : hop[r][i].pc # "none",
         queue' \in [Servers -> SUBSET Requests], rejected' \in [Servers -> SUBSET Requests],
         \A s \in Servers :
           /\ queue[s] \cup rejected[s] \subseteq queue'[s] \cup rejected'[s]
           /\ \A q \in queue'[s] \cup rejected'[s] :
                \/ q \in queue[s] \cup rejected[s]
                \/ q = r /\ DomainOf[s] = DestOf[msg[r]],
         HasRelayed(g) => HasRelayed(hop[r]) \/ Arrived(r)',
         \/ answer' = answer
         \/ answer' = [answer EXCEPT ![r] = "failed"]
         \/ answer' = [answer EXCEPT ![r] = "accepted"] /\ Arrived(r)'
  PROVE  CallInv'
<1>1. hop'[r] = g /\ \A q \in Requests \ {r} : hop'[q] = hop[q]
  BY DEF CallInv, CallTypes
<1>2. CallTypes'
  BY DEF CallInv, CallTypes
<1>3. Chains'
  BY <1>1 DEF CallInv, Chains
<1>4. \A q \in Requests : answer'[q] # answer[q] => q = r
  BY DEF CallInv, CallTypes
<1>5. answer[r] # "idle" /\ answer'[r] # "idle"
  BY DEF CallInv, Fresh, CallTypes
<1>6. Fresh' /\ Sent'
  BY <1>1, <1>4, <1>5 DEF CallInv, Fresh, Sent
<1>7. StoredAtDestination'
  BY DEF CallInv, StoredAtDestination
<1>8. ASSUME NEW q \in Requests, Arrived(q), msg[q] \in Messages PROVE Arrived(q)'
  <2>1. HostOf[DestOf[msg[q]]] \in Servers
    BY <1>8, Constants
  <2> QED BY <1>8, <2>1 DEF Arrived
<1>9. RelayedArrived'
  <2> SUFFICES ASSUME NEW q \in Requests, HasRelayed(hop'[q]) PROVE Arrived(q)'
    BY DEF RelayedArrived
  <2>1. CASE HasRelayed(hop[q])
    <3>1. msg[q] \in Messages
      BY <2>1 DEF HasRelayed, CallInv, Chains, Good, GoodCall
    <3> QED BY <2>1, <3>1, <1>8 DEF CallInv, RelayedArrived
  <2>2. CASE ~HasRelayed(hop[q])
    BY <2>2, <1>1
  <2> QED BY <2>1, <2>2
<1>10. AcceptedArrived'
  <2> SUFFICES ASSUME NEW q \in Requests, answer'[q] = "accepted" PROVE Arrived(q)'
    BY DEF AcceptedArrived, Arrived
  <2>1. CASE answer[q] = "accepted"
    <3>1. msg[q] \in Messages /\ Arrived(q)
      BY <2>1 DEF CallInv, Sent, AcceptedArrived, Arrived
    <3> QED BY <3>1, <1>8
  <2>2. CASE answer[q] # "accepted"
    BY <2>2, <1>4 DEF CallInv, CallTypes
  <2> QED BY <2>1, <2>2
<1> QED BY <1>2, <1>3, <1>6, <1>7, <1>9, <1>10 DEF CallInv

\* Slots of a chain, and the one before.
LEMMA Before == \A i \in Slots : i \in Nat /\ (i > 0 => i - 1 \in Slots /\ i - 1 < i)
BY Constants DEF Slots

\* The end of call i, with or without somebody who waits for it.  Neither a call
\* that waits nor one that is not there ends in this way.
LEMMA ReplyChain ==
  ASSUME CallInv, NEW r \in Requests, NEW i \in Slots, NEW ok \in BOOLEAN,
         hop[r][i].pc \notin {"none", "wait"}, Reply(r, i, ok)
  PROVE  \E g \in Chain :
           /\ hop' = [hop EXCEPT ![r] = g] /\ Good(g, msg[r])
           /\ HasRelayed(g) => HasRelayed(hop[r]) \/ ok
           /\ \/ answer' = answer
              \/ answer' = [answer EXCEPT ![r] = IF ok THEN "accepted" ELSE "failed"]
<1> DEFINE c == hop[r]
           h == [c EXCEPT ![i] = NoHop]
<1>1. c \in Chain /\ Good(c, msg[r]) /\ i \in Nat
  BY Before DEF CallInv, CallTypes, Chains
<1>2. NoHop \in Hop /\ NoHop.pc = "none" /\ NoHop.live = FALSE
  BY DEF NoHop, Hop, Steps
<1>3. h \in Chain /\ h[i] = NoHop /\ \A j \in Slots \ {i} : h[j] = c[j]
  BY <1>1, <1>2 DEF Chain
<1>4. \A j \in Slots : j > 1 /\ j - 1 = i => ~c[j].live
  BY <1>1 DEF Good, GoodCall
<1> HIDE DEF h, c
<1>5. ASSUME NEW j \in Slots, j > 1, h[j].live PROVE h[j - 1].pc = "wait" /\ j - 1 \in Slots
  <2>1. j # i /\ c[j].live
    BY <1>2, <1>3, <1>5
  <2>2. c[j - 1].pc = "wait" /\ j - 1 \in Slots
    BY <1>1, <1>5, <2>1, Before DEF Good, GoodCall
  <2>3. j - 1 # i
    BY <1>4, <1>5, <2>1
  <2> QED BY <1>3, <2>2, <2>3
<1>6. Good(h, msg[r])
  BY <1>1, <1>2, <1>3, <1>5 DEF Good, GoodCall, Local
<1>7. HasRelayed(h) => HasRelayed(c)
  BY <1>2, <1>3 DEF HasRelayed
<1>8. CASE hop' = [hop EXCEPT ![r] = h]
  <2>1. \/ answer' = answer
        \/ answer' = [answer EXCEPT ![r] = IF ok THEN "accepted" ELSE "failed"]
    BY DEF Reply, Hear
  <2> QED BY <1>3, <1>6, <1>7, <1>8, <2>1 DEF c
<1>9. CASE hop[r][i].live /\ i # 1
  <2> DEFINE p == IF ok THEN "relayed" ELSE "unrelayed"
             k == i - 1
             g == [h EXCEPT ![k] = [h[k] EXCEPT !.pc = p]]
  <2>1. i > 1 /\ k \in Slots /\ k # i /\ c[k].pc = "wait"
    BY <1>1, <1>9, Before DEF Good, GoodCall, c
  <2>2. h[k] = c[k] /\ c[k] \in Hop /\ p \in Steps
    BY <1>1, <1>3, <2>1 DEF Chain, Steps
  <2>3. LET x == [h[k] EXCEPT !.pc = p] IN
          x \in Hop /\ x.pc = p /\ x.at = c[k].at /\ x.origin = c[k].origin /\ x.live = c[k].live
    <3> HIDE DEF p, k
    <3> QED BY <2>2 DEF Hop
  <2>4. /\ g \in Chain /\ \A j \in Slots \ {k} : g[j] = h[j]
        /\ g[k].pc = p /\ g[k].at = c[k].at /\ g[k].origin = c[k].origin /\ g[k].live = c[k].live
    <3> HIDE DEF p, k
    <3> QED BY <1>3, <2>1, <2>3 DEF Chain
  <2>5. hop' = [hop EXCEPT ![r] = g] /\ answer' = answer
    BY <1>9 DEF Reply, Hear, h, c
  <2> HIDE DEF g
  <2>6. ASSUME NEW j \in Slots, j > 1, g[j].live PROVE g[j - 1].pc = "wait"
    <3>1. h[j].live
      BY <2>4, <2>6, <2>2
    <3>2. h[j - 1].pc = "wait" /\ j - 1 \in Slots
      BY <3>1, <1>5, <2>6
    <3>3. j # i
      BY <3>1, <1>2, <1>3
    <3>4. j - 1 # k
      BY <3>3, <1>1, Before
    <3> QED BY <3>2, <3>4, <2>4
  <2>7. Good(g, msg[r])
    <3> SUFFICES ASSUME NEW j \in Slots PROVE GoodCall(g, msg[r], j)
      BY DEF Good
    <3>1. CASE j = k
      <4>1. GoodCall(c, msg[r], k)
        BY <1>1, <2>1 DEF Good
      <4>2. p \notin Local /\ p \notin {"none", "count", "add"}
        BY DEF Local
      <4> HIDE DEF p, k
      <4> QED BY <3>1, <4>1, <4>2, <2>1, <2>4, <2>6 DEF GoodCall
    <3>2. CASE j # k
      <4>1. GoodCall(h, msg[r], j) /\ g[j] = h[j]
        BY <3>2, <1>6, <2>4 DEF Good
      <4> QED BY <4>1, <2>6 DEF GoodCall
    <3> QED BY <3>1, <3>2
  <2>8. HasRelayed(g) => HasRelayed(c) \/ ok
    <3>1. g[k].pc = "relayed" => ok
      BY <2>4
    <3> QED BY <3>1, <1>7, <2>4 DEF HasRelayed
  <2> QED BY <2>4, <2>5, <2>7, <2>8 DEF c
<1>10. hop' = [hop EXCEPT ![r] = h] \/ (hop[r][i].live /\ i # 1)
  BY DEF Reply, Hear, h, c
<1> QED BY <1>8, <1>9, <1>10

\* Call i goes on to statement p of the handler.
LEMMA StepChain ==
  ASSUME CallInv, NEW r \in Requests, NEW i \in Slots, NEW p \in Local,
         hop[r][i].pc \notin {"none", "wait"}, Step(r, i, p),
         DomainOf[hop[r][i].at] = DestOf[msg[r]], p \in {"count", "add"} => Mode = "auto"
  PROVE  /\ answer' = answer
         /\ \E g \in Chain : /\ hop' = [hop EXCEPT ![r] = g] /\ Good(g, msg[r])
                             /\ HasRelayed(g) => HasRelayed(hop[r])
<1> DEFINE c == hop[r]
           x == [c[i] EXCEPT !.pc = p]
           g == [c EXCEPT ![i] = x]
<1>1. c \in Chain /\ Good(c, msg[r]) /\ c[i] \in Hop /\ p \in Steps
  BY DEF CallInv, CallTypes, Chains, Chain, Steps, Local
<1>2. x \in Hop /\ x.pc = p /\ x.at = c[i].at /\ x.origin = c[i].origin /\ x.live = c[i].live
  BY <1>1 DEF Hop
<1>3. hop' = [hop EXCEPT ![r] = g] /\ answer' = answer
  BY DEF Step
<1> HIDE DEF x
<1>4. g \in Chain /\ g[i] = x /\ \A j \in Slots \ {i} : g[j] = c[j]
  BY <1>1, <1>2 DEF Chain
<1> HIDE DEF g
<1>5. ASSUME NEW j \in Slots PROVE GoodCall(g, msg[r], j)
  <2>1. GoodCall(c, msg[r], j) /\ GoodCall(c, msg[r], i)
    BY <1>1 DEF Good
  <2>2. j > 1 /\ c[j].live => c[j - 1].pc = "wait" /\ j - 1 \in Slots /\ j - 1 # i
    BY <2>1, Before DEF GoodCall
  <2>3. g[j].live = c[j].live /\ (g[j].live /\ j > 1 => g[j - 1].pc = "wait")
    BY <1>2, <1>4, <2>2
  <2>4. CASE j = i
    BY <2>1, <2>3, <2>4, <1>2, <1>4 DEF GoodCall, Local
  <2>5. CASE j # i
    BY <2>1, <2>3, <2>5, <1>4 DEF GoodCall
  <2> QED BY <2>4, <2>5
<1>6. HasRelayed(g) => HasRelayed(c)
  BY <1>2, <1>4 DEF HasRelayed, Local
<1> QED BY <1>3, <1>4, <1>5, <1>6 DEF Good

\* A call that goes on, is answered with an error, or is answered with 200 when
\* the event is at its destination, and stores at most that event.
LEMMA HandlerStep ==
  ASSUME CallInv, NEW r \in Requests, NEW i \in Slots, hop[r][i].pc \notin {"none", "wait"},
         msg' = msg,
         queue' \in [Servers -> SUBSET Requests], rejected' \in [Servers -> SUBSET Requests],
         \A s \in Servers :
           /\ queue[s] \cup rejected[s] \subseteq queue'[s] \cup rejected'[s]
           /\ \A q \in queue'[s] \cup rejected'[s] :
                \/ q \in queue[s] \cup rejected[s]
                \/ q = r /\ DomainOf[s] = DestOf[msg[r]],
         \/ Reply(r, i, FALSE)
         \/ Reply(r, i, TRUE) /\ Arrived(r)'
         \/ \E p \in Local : /\ Step(r, i, p) /\ DomainOf[hop[r][i].at] = DestOf[msg[r]]
                             /\ p \in {"count", "add"} => Mode = "auto"
  PROVE  CallInv'
<1>1. CASE Reply(r, i, FALSE)
  <2>1. PICK g \in Chain :
           /\ hop' = [hop EXCEPT ![r] = g] /\ Good(g, msg[r])
           /\ HasRelayed(g) => HasRelayed(hop[r])
           /\ \/ answer' = answer
              \/ answer' = [answer EXCEPT ![r] = "failed"]
    BY <1>1, ReplyChain
  <2> QED BY <2>1, CallStep
<1>2. CASE Reply(r, i, TRUE) /\ Arrived(r)'
  <2>1. PICK g \in Chain :
           /\ hop' = [hop EXCEPT ![r] = g] /\ Good(g, msg[r])
           /\ \/ answer' = answer
              \/ answer' = [answer EXCEPT ![r] = "accepted"]
    BY <1>2, ReplyChain
  <2> QED BY <1>2, <2>1, CallStep
<1>3. ASSUME NEW p \in Local, Step(r, i, p), DomainOf[hop[r][i].at] = DestOf[msg[r]],
             p \in {"count", "add"} => Mode = "auto"
      PROVE  CallInv'
  <2>1. /\ answer' = answer
        /\ \E g \in Chain : /\ hop' = [hop EXCEPT ![r] = g] /\ Good(g, msg[r])
                            /\ HasRelayed(g) => HasRelayed(hop[r])
    BY <1>3, StepChain
  <2>2. PICK g \in Chain : /\ hop' = [hop EXCEPT ![r] = g] /\ Good(g, msg[r])
                           /\ HasRelayed(g) => HasRelayed(hop[r])
    BY <2>1
  <2> QED BY <2>1, <2>2, CallStep
<1> QED BY <1>1, <1>2, <1>3

\* The transaction is posted on to its destination.
LEMMA ForwardStep ==
  ASSUME CallInv, NEW r \in Requests, NEW i \in 1 .. MaxHops - 1, hop[r][i].pc = "check",
         hop[r][i + 1].pc = "none",
         hop' = [hop EXCEPT ![r][i].pc = "wait",
                            ![r][i + 1] = Call(DestOf[msg[r]], hop[r][i].at)],
         UNCHANGED <<msg, answer, queue, rejected>>
  PROVE  CallInv'
<1> DEFINE c == hop[r]
           x == [c[i] EXCEPT !.pc = "wait"]
           y == Call(DestOf[msg[r]], c[i].at)
           k == i + 1
           g == [[c EXCEPT ![i] = x] EXCEPT ![k] = y]
<1>1. /\ c \in Chain /\ Good(c, msg[r]) /\ i \in Slots /\ k \in Slots /\ k # i /\ i \in Nat /\ k > 1
      /\ k - 1 = i /\ k # 0
  BY Constants DEF CallInv, CallTypes, Chains, Slots
<1>2. c[i] \in Hop /\ c[i].at \in Servers /\ c[i].origin \in Names /\ msg[r] \in Messages
  BY <1>1 DEF Chain, Good, GoodCall
<1>3. x \in Hop /\ x.pc = "wait" /\ x.at = c[i].at /\ x.origin = c[i].origin /\ x.live = c[i].live
  BY <1>2 DEF Hop, Steps
<1>4. y \in Hop /\ y.pc = "check" /\ y.at \in Servers /\ y.origin \in Names
  BY <1>2, Constants DEF Call, Hop, Steps
<1>5. hop' = [hop EXCEPT ![r] = g]
  BY <1>1
<1> HIDE DEF x, y
<1>6. g \in Chain /\ g[i] = x /\ g[k] = y /\ \A j \in Slots \ {i, k} : g[j] = c[j]
  <2> HIDE DEF k
  <2> QED BY <1>1, <1>3, <1>4 DEF Chain
<1> HIDE DEF g
<1>7. ASSUME NEW j \in Slots PROVE GoodCall(g, msg[r], j)
  <2>1. GoodCall(c, msg[r], j) /\ GoodCall(c, msg[r], i)
    BY <1>1 DEF Good
  <2>2. CASE j = k
    <3> HIDE DEF k
    <3> QED BY <2>2, <1>1, <1>2, <1>3, <1>4, <1>6 DEF GoodCall, Local
  <2>3. CASE j # k
    <3>1. j > 1 /\ c[j].live => c[j - 1].pc = "wait" /\ j - 1 \in Slots /\ j - 1 # i /\ j - 1 # k
      BY <2>1, <2>3, <1>1, Before DEF GoodCall
    <3>2. g[j].live = c[j].live /\ (g[j].live /\ j > 1 => g[j - 1].pc = "wait")
      BY <3>1, <2>3, <1>3, <1>6
    <3> QED BY <2>1, <2>3, <3>2, <1>3, <1>6 DEF GoodCall, Local
  <2> QED BY <2>2, <2>3
<1>8. HasRelayed(g) => HasRelayed(c)
  BY <1>1, <1>3, <1>4, <1>6 DEF HasRelayed
<1>9. /\ queue \in [Servers -> SUBSET Requests] /\ rejected \in [Servers -> SUBSET Requests]
  BY DEF CallInv, CallTypes
<1>10. Good(g, msg[r]) /\ \E j \in Slots : hop[r][j].pc # "none"
  BY <1>1, <1>7 DEF Good
<1> QED BY <1>5, <1>6, <1>8, <1>9, <1>10, CallStep

\* The handler of a transaction, statement by statement.
LEMMA TransactionStep ==
  ASSUME CallInv, NEW r \in Requests, NEW i \in Slots, Transaction(r, i)
  PROVE  CallInv'
<1> DEFINE s == hop[r][i].at
<1>1. /\ queue \in [Servers -> SUBSET Requests] /\ rejected \in [Servers -> SUBSET Requests]
  BY DEF CallInv, CallTypes
<1>2. GoodCall(hop[r], msg[r], i)
  BY DEF CallInv, Chains, Good
<1>3. hop[r][i].pc \in Local =>
        /\ s \in Servers /\ DomainOf[s] = DestOf[msg[r]] /\ HostOf[DestOf[msg[r]]] = s
  BY <1>2, Constants DEF GoodCall, Local
<1>4. CASE Refuse(r, i)
  BY <1>4, <1>1, HandlerStep DEF Refuse
<1>5. CASE Admit(r, i)
  <2>1. hop[r][i].pc = "check" /\ msg' = msg /\ queue' = queue /\ rejected' = rejected
    BY <1>5 DEF Admit
  <2>2. CASE DestOf[msg[r]] = DomainOf[s] /\ Step(r, i, "trust")
    BY <2>1, <2>2, <1>1, HandlerStep DEF Local
  <2>3. CASE Reply(r, i, FALSE)
    BY <2>1, <2>3, <1>1, HandlerStep
  <2>4. CASE /\ i \in 1 .. MaxHops - 1 /\ hop[r][i + 1].pc = "none"
             /\ hop' = [hop EXCEPT ![r][i].pc = "wait", ![r][i + 1] = Call(DestOf[msg[r]], s)]
             /\ UNCHANGED answer
    BY <2>1, <2>4, ForwardStep
  <2> QED BY <1>5, <2>2, <2>3, <2>4 DEF Admit
<1>6. CASE CheckTrust(r, i)
  <2>1. /\ hop[r][i].pc = "trust" /\ msg' = msg /\ queue' = queue /\ rejected' = rejected
        /\ Step(r, i, "select") \/ (Step(r, i, "count") /\ Mode = "auto")
    BY <1>6 DEF CheckTrust
  <2> QED BY <2>1, <1>1, <1>3, HandlerStep DEF Local
<1>7. CASE RecordSuccess(r, i)
  <2>1. /\ hop[r][i].pc = "count" /\ msg' = msg /\ queue' = queue /\ rejected' = rejected
        /\ Step(r, i, "select") \/ Step(r, i, "add")
    BY <1>7 DEF RecordSuccess
  <2>2. Mode = "auto"
    BY <2>1, <1>2 DEF GoodCall
  <2> QED BY <2>1, <2>2, <1>1, <1>3, HandlerStep DEF Local
<1>8. CASE AddToAllowlist(r, i)
  <2>1. /\ hop[r][i].pc = "add" /\ msg' = msg /\ queue' = queue /\ rejected' = rejected
        /\ Step(r, i, "select")
    BY <1>8 DEF AddToAllowlist
  <2> QED BY <2>1, <1>1, <1>3, HandlerStep DEF Local
<1>9. CASE SelectEvent(r, i)
  <2>1. /\ hop[r][i].pc = "select" /\ msg' = msg /\ queue' = queue /\ rejected' = rejected
        /\ Step(r, i, "insert") \/ (Reply(r, i, TRUE) /\ r \in queue[s])
    BY <1>9 DEF SelectEvent
  <2>2. CASE Step(r, i, "insert")
    BY <2>1, <2>2, <1>1, <1>3, HandlerStep DEF Local
  <2>3. CASE Reply(r, i, TRUE) /\ r \in queue[s]
    <3>1. Arrived(r)'
      BY <2>1, <2>3, <1>3 DEF Arrived, Local
    <3> QED BY <2>1, <2>3, <3>1, <1>1, HandlerStep
  <2> QED BY <2>1, <2>2, <2>3
<1>10. CASE InsertEvent(r, i)
  <2>1. /\ hop[r][i].pc = "insert" /\ msg' = msg /\ Reply(r, i, TRUE)
        /\ \/ queue' = [queue EXCEPT ![s] = @ \cup {r}] /\ rejected' = rejected
           \/ rejected' = [rejected EXCEPT ![s] = @ \cup {r}] /\ queue' = queue
    BY <1>10 DEF InsertEvent
  <2>2. /\ s \in Servers /\ DomainOf[s] = DestOf[msg[r]] /\ HostOf[DestOf[msg[r]]] = s
    BY <2>1, <1>3 DEF Local
  <2>3. /\ queue' \in [Servers -> SUBSET Requests] /\ rejected' \in [Servers -> SUBSET Requests]
        /\ r \in queue'[s] \cup rejected'[s]
        /\ \A t \in Servers :
             /\ queue[t] \cup rejected[t] \subseteq queue'[t] \cup rejected'[t]
             /\ \A q \in queue'[t] \cup rejected'[t] : q \in queue[t] \cup rejected[t] \/ (q = r /\ t = s)
    BY <2>1, <2>2, <1>1
  <2>4. Arrived(r)'
    BY <2>1, <2>2, <2>3 DEF Arrived
  <2> QED BY <2>1, <2>2, <2>3, <2>4, HandlerStep
<1>11. CASE Return(r, i)
  <2>1. /\ hop[r][i].pc \in {"relayed", "unrelayed"}
        /\ msg' = msg /\ queue' = queue /\ rejected' = rejected
        /\ Reply(r, i, hop[r][i].pc = "relayed")
    BY <1>11 DEF Return
  <2>2. CASE hop[r][i].pc = "relayed"
    <3>1. Arrived(r)
      BY <2>2 DEF CallInv, RelayedArrived, HasRelayed
    <3>2. Arrived(r)'
      BY <3>1, <2>1 DEF Arrived
    <3>3. Reply(r, i, TRUE)
      BY <2>1, <2>2
    <3> QED BY <2>1, <3>2, <3>3, <1>1, HandlerStep
  <2>3. CASE hop[r][i].pc = "unrelayed"
    <3>1. Reply(r, i, FALSE)
      BY <2>1, <2>3
    <3> QED BY <2>1, <3>1, <1>1, HandlerStep
  <2> QED BY <2>1, <2>2, <2>3
<1> QED BY <1>4, <1>5, <1>6, <1>7, <1>8, <1>9, <1>10, <1>11 DEF Transaction

-----------------------------------------------------------------------------
\* A step that changes one chain and the answer to its request.
LEMMA LossStep ==
  ASSUME CallInv, NEW r \in Requests, NEW g \in Chain,
         hop' = [hop EXCEPT ![r] = g], Good(g, msg[r]),
         \E i \in Slots : hop[r][i].pc # "none",
         HasRelayed(g) => HasRelayed(hop[r]),
         answer' = answer \/ answer' = [answer EXCEPT ![r] = "failed"],
         UNCHANGED <<msg, queue, rejected>>
  PROVE  CallInv'
<1>1. /\ queue \in [Servers -> SUBSET Requests] /\ rejected \in [Servers -> SUBSET Requests]
  BY DEF CallInv, CallTypes
<1> QED BY <1>1, CallStep

\* A caller gives up.
LEMMA GiveUpStep ==
  ASSUME CallInv, NEW r \in Requests, NEW i \in Slots, GiveUp(r, i)
  PROVE  CallInv'
<1> DEFINE c == hop[r]
           x == [c[i] EXCEPT !.live = FALSE]
           h == [c EXCEPT ![i] = x]
<1>1. /\ c \in Chain /\ Good(c, msg[r]) /\ c[i] \in Hop /\ c[i].live /\ c[i].pc # "none" /\ i # 0
      /\ UNCHANGED <<msg, queue, rejected>>
  BY DEF CallInv, CallTypes, Chains, Chain, Good, GoodCall, GiveUp
<1>2. x \in Hop /\ x.pc = c[i].pc /\ x.at = c[i].at /\ x.origin = c[i].origin /\ x.live = FALSE
  BY <1>1 DEF Hop
<1> HIDE DEF x
<1>3. h \in Chain /\ h[i] = x /\ \A j \in Slots \ {i} : h[j] = c[j]
  BY <1>1, <1>2 DEF Chain
<1>4. /\ \A j \in Slots : h[j].pc = c[j].pc /\ h[j].at = c[j].at /\ h[j].origin = c[j].origin
      /\ \A j \in Slots : h[j].live => c[j].live /\ j # i
  BY <1>2, <1>3
<1> HIDE DEF h
<1>5. ASSUME NEW j \in Slots, j > 1, h[j].live PROVE h[j - 1].pc = "wait" /\ j - 1 \in Slots
  BY <1>1, <1>4, <1>5, Before DEF Good, GoodCall
<1>6. Good(h, msg[r])
  BY <1>1, <1>4, <1>5 DEF Good, GoodCall
<1>7. CASE i = 1
  <2>1. hop' = [hop EXCEPT ![r] = h] /\ answer' = [answer EXCEPT ![r] = "failed"]
    BY <1>7 DEF GiveUp, Hear, h, x
  <2>2. HasRelayed(h) => HasRelayed(hop[r])
    BY <1>4 DEF HasRelayed
  <2> QED BY <1>1, <1>3, <1>6, <2>1, <2>2, LossStep
<1>8. CASE i # 1
  <2> DEFINE k == i - 1
             y == [h[k] EXCEPT !.pc = "unrelayed"]
             g == [h EXCEPT ![k] = y]
  <2>1. k \in Slots /\ k # i /\ c[k].pc = "wait" /\ i \in Nat
    BY <1>1, <1>8, Before DEF Good, GoodCall
  <2>2. y \in Hop /\ y.pc = "unrelayed" /\ y.at = h[k].at /\ y.origin = h[k].origin /\ y.live = h[k].live
    <3>1. h[k] \in Hop
      BY <1>3, <2>1 DEF Chain
    <3> HIDE DEF k
    <3> QED BY <3>1 DEF Hop, Steps
  <2>3. hop' = [hop EXCEPT ![r] = g] /\ answer' = answer
    BY <1>8 DEF GiveUp, Hear, h, x
  <2> HIDE DEF y
  <2>4. g \in Chain /\ g[k] = y /\ \A j \in Slots \ {k} : g[j] = h[j]
    <3> HIDE DEF k
    <3> QED BY <1>3, <2>1, <2>2 DEF Chain
  <2> HIDE DEF g
  <2>5. ASSUME NEW j \in Slots PROVE GoodCall(g, msg[r], j)
    <3>1. GoodCall(h, msg[r], j)
      BY <1>6 DEF Good
    <3>2. j > 1 /\ h[j].live => h[j - 1].pc = "wait" /\ j - 1 \in Slots /\ j - 1 # k
      BY <1>4, <1>5, <2>1, Before
    <3>3. g[j].live = h[j].live /\ (g[j].live /\ j > 1 => g[j - 1].pc = "wait")
      BY <2>2, <2>4, <3>2
    <3>4. CASE j = k
      <4>1. h[k].pc = "wait"
        BY <1>4, <2>1
      <4> HIDE DEF k
      <4> QED BY <3>1, <3>3, <3>4, <4>1, <2>2, <2>4 DEF GoodCall, Local
    <3>5. CASE j # k
      BY <3>1, <3>3, <3>5, <2>4 DEF GoodCall
    <3> QED BY <3>4, <3>5
  <2>6. HasRelayed(g) => HasRelayed(hop[r])
    BY <1>4, <2>2, <2>4 DEF HasRelayed
  <2>7. Good(g, msg[r])
    BY <2>5 DEF Good
  <2> QED BY <1>1, <2>3, <2>4, <2>6, <2>7, LossStep
<1> QED BY <1>7, <1>8

\* A call nobody waits for ends, and nobody waits for the call it made.
LEMMA DieStep ==
  ASSUME CallInv, NEW r \in Requests, NEW i \in Slots, Die(r, i)
  PROVE  CallInv'
<1> DEFINE c == hop[r]
           x(j) == [c[j] EXCEPT !.live = FALSE]
           g == [j \in Slots |-> CASE j = i -> NoHop
                                 [] j = i + 1 /\ i > 0 -> x(j)
                                 [] OTHER -> c[j]]
<1>1. /\ c \in Chain /\ Good(c, msg[r]) /\ c[i].pc # "none" /\ i \in Nat
      /\ UNCHANGED <<msg, answer, queue, rejected>> /\ hop' = [hop EXCEPT ![r] = g]
  BY Before DEF CallInv, CallTypes, Chains, Die
<1>2. \A j \in Slots : /\ c[j] \in Hop /\ j \in Nat
                       /\ x(j) \in Hop /\ x(j).pc = c[j].pc /\ x(j).at = c[j].at
                       /\ x(j).origin = c[j].origin /\ x(j).live = FALSE
  BY <1>1, Before DEF Hop, Chain
<1>3. NoHop \in Hop /\ NoHop.pc = "none" /\ NoHop.live = FALSE
  BY DEF NoHop, Hop, Steps
<1> HIDE DEF x
<1>4. \A j \in Slots :
        \/ j = i /\ g[j] = NoHop
        \/ j = i + 1 /\ i > 0 /\ g[j] = x(j)
        \/ j # i /\ ~(j = i + 1 /\ i > 0) /\ g[j] = c[j]
  BY <1>1
<1>5. g \in Chain
  BY <1>2, <1>3, <1>4 DEF Chain
<1> HIDE DEF g
<1>6. ASSUME NEW j \in Slots PROVE GoodCall(g, msg[r], j)
  <2>1. GoodCall(c, msg[r], j)
    BY <1>1 DEF Good
  <2>2. g[j].live => c[j].live /\ j # i /\ ~(j = i + 1 /\ i > 0)
    BY <1>2, <1>3, <1>4
  <2>3. g[j].live /\ j > 1 => g[j - 1].pc = "wait"
    <3> SUFFICES ASSUME g[j].live, j > 1 PROVE g[j - 1].pc = "wait"
      OBVIOUS
    <3>1. c[j - 1].pc = "wait" /\ j - 1 \in Slots /\ j - 1 # i
      BY <2>1, <2>2, <1>1, Before DEF GoodCall
    <3> QED BY <3>1, <1>2, <1>4
  <2>4. g[j] = NoHop \/ (g[j].pc = c[j].pc /\ g[j].at = c[j].at /\ g[j].origin = c[j].origin)
    BY <1>2, <1>4
  <2> QED BY <2>1, <2>2, <2>3, <2>4, <1>3 DEF GoodCall, Local
<1>7. HasRelayed(g) => HasRelayed(c)
  BY <1>2, <1>3, <1>4 DEF HasRelayed
<1>8. Good(g, msg[r])
  BY <1>6 DEF Good
<1> QED BY <1>1, <1>5, <1>7, <1>8, LossStep

\* The transaction is delivered a second time.
LEMMA RedeliverStep ==
  ASSUME CallInv, NEW r \in Requests, NEW i \in Slots, Redeliver(r, i)
  PROVE  CallInv'
<1> DEFINE c == hop[r]
           x == [c[i] EXCEPT !.pc = "check", !.live = FALSE]
           g == [c EXCEPT ![0] = x]
<1>1. /\ c \in Chain /\ Good(c, msg[r]) /\ c[i].pc # "none" /\ c[i] \in Hop /\ 0 \in Slots
      /\ c[0].pc = "none"
      /\ UNCHANGED <<msg, answer, queue, rejected>> /\ hop' = [hop EXCEPT ![r] = g]
  BY Constants DEF CallInv, CallTypes, Chains, Chain, Redeliver, Slots
<1>2. x \in Hop /\ x.pc = "check" /\ x.at = c[i].at /\ x.origin = c[i].origin /\ x.live = FALSE
  BY <1>1 DEF Hop, Steps
<1> HIDE DEF x
<1>3. g \in Chain /\ g[0] = x /\ \A j \in Slots \ {0} : g[j] = c[j]
  BY <1>1, <1>2 DEF Chain
<1> HIDE DEF g
<1>4. ASSUME NEW j \in Slots PROVE GoodCall(g, msg[r], j)
  <2>1. GoodCall(c, msg[r], j) /\ GoodCall(c, msg[r], i)
    BY <1>1 DEF Good
  <2>2. CASE j = 0
    BY <2>1, <2>2, <1>1, <1>2, <1>3 DEF GoodCall, Local
  <2>3. CASE j # 0
    <3>1. j > 1 => j - 1 \in Slots /\ j - 1 # 0
      BY Before
    <3> QED BY <2>1, <2>3, <3>1, <1>3 DEF GoodCall
  <2> QED BY <2>2, <2>3
<1>5. HasRelayed(g) => HasRelayed(c)
  BY <1>2, <1>3 DEF HasRelayed
<1>6. Good(g, msg[r])
  BY <1>4 DEF Good
<1> QED BY <1>1, <1>3, <1>5, <1>6, LossStep

\* A client sends.
LEMMA SubmitStep ==
  ASSUME CallInv, NEW r \in Requests, NEW m \in Messages, Submit(r, m)
  PROVE  CallInv'
<1> DEFINE c == hop[r]
           x == Call(Target(m), HomeOf[m])
<1>1. /\ c \in Chain /\ 1 \in Slots /\ (\A i \in Slots : c[i].pc = "none" /\ ~c[i].live)
      /\ \A s \in Servers : r \notin queue[s] \cup rejected[s]
  BY Constants DEF CallInv, CallTypes, Chains, Good, GoodCall, Fresh, Submit, Slots
<1>2. x \in Hop /\ x.pc = "check" /\ x.at \in Servers /\ x.origin \in Names
  <2>1. Target(m) \in Names /\ HomeOf[m] \in Servers
    BY Constants DEF Target
  <2> QED BY <2>1, Constants DEF Call, Hop, Steps
<1> HIDE DEF x
<1>3. PICK g \in Chain :
        /\ hop' = [hop EXCEPT ![r] = g]
        /\ g = c \/ (g[1] = x /\ \A j \in Slots \ {1} : g[j] = c[j])
  <2>1. hop' = [hop EXCEPT ![r] = [c EXCEPT ![1] = x]] \/ hop' = hop
    BY DEF Submit, x
  <2>2. [c EXCEPT ![1] = x] \in Chain
    BY <1>1, <1>2 DEF Chain
  <2>3. hop = [hop EXCEPT ![r] = c]
    BY DEF CallInv, CallTypes
  <2>4. LET h == [c EXCEPT ![1] = x] IN h[1] = x /\ \A j \in Slots \ {1} : h[j] = c[j]
    BY <1>1 DEF Chain
  <2> QED BY <1>1, <2>1, <2>2, <2>3, <2>4
<1>4. /\ answer' = [answer EXCEPT ![r] = "waiting"] \/ answer' = [answer EXCEPT ![r] = "failed"]
      /\ msg' = [msg EXCEPT ![r] = m] /\ queue' = queue /\ rejected' = rejected
  BY DEF Submit
<1>5. /\ hop'[r] = g /\ (\A q \in Requests \ {r} : hop'[q] = hop[q])
      /\ msg'[r] = m /\ (\A q \in Requests \ {r} : msg'[q] = msg[q])
      /\ answer'[r] \in {"waiting", "failed"} /\ (\A q \in Requests \ {r} : answer'[q] = answer[q])
  BY <1>3, <1>4 DEF CallInv, CallTypes
<1>6. CallTypes'
  BY <1>3, <1>4 DEF CallInv, CallTypes
<1>7. Good(g, m) /\ ~HasRelayed(g)
  <2>1. ASSUME NEW j \in Slots PROVE GoodCall(g, m, j) /\ g[j].pc # "relayed"
    <3>1. CASE j = 1
      BY <3>1, <1>1, <1>2, <1>3 DEF GoodCall, Local
    <3>2. CASE j # 1
      BY <3>2, <1>1, <1>3 DEF GoodCall, Local
    <3> QED BY <3>1, <3>2
  <2> QED BY <2>1 DEF Good, HasRelayed
<1>8. Chains'
  BY <1>5, <1>7 DEF CallInv, Chains
<1>9. RelayedArrived' /\ AcceptedArrived'
  BY <1>4, <1>5, <1>7 DEF CallInv, RelayedArrived, AcceptedArrived, Arrived
<1>10. Fresh' /\ Sent'
  BY <1>4, <1>5 DEF CallInv, Fresh, Sent
<1>11. StoredAtDestination'
  <2>1. \A s \in Servers : queue[s] \cup rejected[s] \subseteq Requests \ {r}
    BY <1>1 DEF CallInv, CallTypes
  <2> QED BY <1>4, <1>5, <2>1 DEF CallInv, StoredAtDestination
<1> QED BY <1>6, <1>8, <1>9, <1>10, <1>11 DEF CallInv

\* A step that leaves the calls alone.
LEMMA CallsAlone ==
  ASSUME CallInv, UNCHANGED <<msg, answer, hop, queue, rejected>>
  PROVE  CallInv'
<1>1. CallTypes' /\ Chains' /\ RelayedArrived'
  BY DEF CallInv, CallTypes, Chains, Good, GoodCall, RelayedArrived, Arrived, HasRelayed
<1>2. Fresh' /\ Sent' /\ AcceptedArrived' /\ StoredAtDestination'
  BY DEF CallInv, Fresh, Sent, AcceptedArrived, StoredAtDestination
<1> QED BY <1>1, <1>2 DEF CallInv

-----------------------------------------------------------------------------
\* What the servers know of each other, through every step.
LEMMA TrustStep ==
  ASSUME IInv, Next
  PROVE  TrustInv'
<1> USE DEF trust
<1>1. CASE UNCHANGED <<peers, trust>>
  BY <1>1 DEF IInv, TrustInv, TrustTypes, Remembered, AllowlistFileOnce
<1>2. ASSUME NEW r \in Requests, NEW i \in Slots, Transaction(r, i) PROVE TrustInv'
  <2> DEFINE h == hop[r][i]
  <2>0. GoodCall(hop[r], msg[r], i)
    BY DEF IInv, CallInv, Chains, Good
  <2>1. CASE Admit(r, i)
    <3>1. h.at \in Servers /\ h.origin \in Names
      BY <2>0, <2>1 DEF Admit, GoodCall
    <3>2. peers' \in [Servers -> SUBSET Names] /\ UNCHANGED trust
      <4>1. peers' = [peers EXCEPT ![h.at] = @ \cup {h.origin}] \/ peers' = peers
        BY <2>1 DEF Admit
      <4>2. peers' \in [Servers -> SUBSET Names]
        BY <3>1, <4>1 DEF IInv, TrustInv, TrustTypes
      <4> QED BY <2>1, <4>2 DEF Admit
    <3> QED BY <3>2 DEF IInv, TrustInv, TrustTypes, Remembered, AllowlistFileOnce
  <2>2. CASE RecordSuccess(r, i)
    <3>1. h.at \in Servers /\ h.origin \in Names
      BY <2>0, <2>2 DEF RecordSuccess, GoodCall
    <3>2. count' \in [Servers -> [Names -> Nat]] /\ UNCHANGED <<peers, allow, file, blocked, unread>>
      <4>1. count' = [count EXCEPT ![h.at] = [@ EXCEPT ![h.origin] =
                IF count[h.at][h.origin] < Threshold THEN count[h.at][h.origin] + 1
                ELSE count[h.at][h.origin]]]
        BY <2>2 DEF RecordSuccess
      <4>2. count \in [Servers -> [Names -> Nat]]
        BY DEF IInv, TrustInv, TrustTypes
      <4> DEFINE n == IF count[h.at][h.origin] < Threshold THEN count[h.at][h.origin] + 1
                      ELSE count[h.at][h.origin]
      <4>3. n \in Nat
        BY <3>1, <4>2
      <4> HIDE DEF n
      <4>4. count' = [count EXCEPT ![h.at] = [@ EXCEPT ![h.origin] = n]]
        BY <4>1 DEF n
      <4>5. count' \in [Servers -> [Names -> Nat]]
        BY <3>1, <4>2, <4>3, <4>4
      <4> QED BY <2>2, <4>5 DEF RecordSuccess
    <3> QED BY <3>2 DEF IInv, TrustInv, TrustTypes, Remembered, AllowlistFileOnce
  <2>3. CASE AddToAllowlist(r, i)
    <3>1. h.at \in Servers /\ h.origin \in Names /\ Mode = "auto"
      BY <2>0, <2>3 DEF AddToAllowlist, GoodCall
    <3>2. UNCHANGED <<peers, count, blocked, unread>>
      BY <2>3 DEF AddToAllowlist
    <3>3. CASE UNCHANGED <<allow, file>>
      BY <1>1, <3>2, <3>3
    <3>4. CASE /\ h.origin \notin allow[h.at]
               /\ allow' = [allow EXCEPT ![h.at] = @ \cup {h.origin}]
               /\ \/ file' = [file EXCEPT ![h.at][h.origin] = @ + 1]
                  \/ UNCHANGED file
      <4>1. /\ allow \in [Servers -> SUBSET Names] /\ file \in [Servers -> [Names -> Nat]]
            /\ unread \in [Servers -> Nat]
            /\ \A s \in Servers, d \in Names :
                 file[s][d] <= 1 + unread[s] /\ (d \notin allow[s] => file[s][d] <= unread[s])
        BY <3>1 DEF IInv, TrustInv, TrustTypes, Remembered, AllowlistFileOnce
      <4>2. file[h.at][h.origin] <= unread[h.at] /\ file[h.at][h.origin] \in Nat /\ unread[h.at] \in Nat
        BY <3>1, <3>4, <4>1
      <4>3. /\ file' \in [Servers -> [Names -> Nat]]
            /\ \A s \in Servers, d \in Names :
                 file'[s][d] = file[s][d] \/ (s = h.at /\ d = h.origin /\ file'[s][d] = file[s][d] + 1)
        BY <3>1, <3>4, <4>1
      <4>4. /\ allow' \in [Servers -> SUBSET Names] /\ h.origin \in allow'[h.at]
            /\ \A s \in Servers : allow[s] \subseteq allow'[s]
        BY <3>1, <3>4, <4>1
      <4>5. ASSUME NEW s \in Servers, NEW d \in Names
            PROVE  file'[s][d] <= 1 + unread[s] /\ (d \notin allow'[s] => file'[s][d] <= unread[s])
        BY <4>1, <4>2, <4>3, <4>4
      <4> QED BY <3>2, <4>3, <4>4, <4>5 DEF IInv, TrustInv, TrustTypes, Remembered, AllowlistFileOnce
    <3> QED BY <2>3, <3>3, <3>4 DEF AddToAllowlist
  <2> QED
    BY <1>1, <1>2, <2>1, <2>2, <2>3
    DEF Transaction, Refuse, CheckTrust, SelectEvent, InsertEvent, Return
<1>3. ASSUME NEW s \in Servers, Restart(s) PROVE TrustInv'
  <2>1. /\ allow \in [Servers -> SUBSET Names] /\ file \in [Servers -> [Names -> Nat]]
        /\ count \in [Servers -> [Names -> Nat]] /\ blocked \in [Servers -> SUBSET Names]
        /\ unread \in [Servers -> Nat]
    BY DEF IInv, TrustInv, TrustTypes
  <2>2. Blocklists(s) \subseteq SUBSET Names /\ Allowlists(s) \subseteq SUBSET Names
    BY FederationConstants DEF Blocklists, Allowlists, ReadFile, Persisted
  <2>3. PICK a \in Allowlists(s) :
          allow' = [allow EXCEPT ![s] = a] /\ unread' = [unread EXCEPT ![s] = @ + Unread(s, a)]
    BY <1>3 DEF Restart
  <2>4. /\ UNCHANGED <<peers, file>>
        /\ count' \in [Servers -> [Names -> Nat]] /\ blocked' \in [Servers -> SUBSET Names]
    BY <1>3, <2>1, <2>2 DEF Restart
  <2>5. PICK n \in Nat : n = Unread(s, a)
    BY DEF Unread
  <2>6. /\ allow' \in [Servers -> SUBSET Names] /\ unread' \in [Servers -> Nat]
        /\ allow'[s] = a /\ unread'[s] = unread[s] + n
        /\ \A t \in Servers \ {s} : allow'[t] = allow[t] /\ unread'[t] = unread[t]
    BY <2>1, <2>2, <2>3, <2>5
  <2>7. ASSUME NEW t \in Servers, NEW d \in Names
        PROVE  /\ file[t][d] <= 1 + unread'[t]
               /\ Mode = "auto" /\ d \notin allow'[t] => file[t][d] <= unread'[t]
    <3>1. /\ file[t][d] \in Nat /\ unread[t] \in Nat /\ file[t][d] <= 1 + unread[t]
          /\ Mode = "auto" /\ d \notin allow[t] => file[t][d] <= unread[t]
      BY <2>1 DEF IInv, TrustInv, Remembered, AllowlistFileOnce
    <3>2. CASE t # s
      BY <2>6, <3>1, <3>2
    <3>3. CASE t = s /\ a = Persisted(s)
      <4>1. Mode = "auto" /\ d \notin a => file[t][d] = 0
        BY <3>1, <3>3 DEF Persisted
      <4> QED BY <2>6, <3>1, <3>3, <4>1
    <3>4. CASE t = s /\ a # Persisted(s)
      <4>1. n = 1
        BY <2>5, <3>4 DEF Unread
      <4> QED BY <2>6, <3>1, <3>4, <4>1
    <3> QED BY <3>2, <3>3, <3>4
  <2> QED BY <2>4, <2>6, <2>7, <2>1 DEF IInv, TrustInv, TrustTypes, Remembered, AllowlistFileOnce
<1>4. ASSUME NEW s \in Servers, ReloadBlocklist(s) PROVE TrustInv'
  <2>1. Blocklists(s) \subseteq SUBSET Names
    BY FederationConstants DEF Blocklists, ReadFile
  <2>2. blocked' \in [Servers -> SUBSET Names] /\ UNCHANGED <<peers, allow, file, count, unread>>
    BY <1>4, <2>1 DEF ReloadBlocklist, IInv, TrustInv, TrustTypes
  <2> QED BY <2>2 DEF IInv, TrustInv, TrustTypes, Remembered, AllowlistFileOnce
<1> QED BY <1>1, <1>2, <1>3, <1>4 DEF Next, Submit, GiveUp, Die, Redeliver

\* Every step keeps the invariant.
LEMMA NextIInv == IInv /\ [Next]_vars => IInv'
<1> SUFFICES ASSUME IInv, [Next]_vars PROVE IInv'
  OBVIOUS
<1>1. CASE UNCHANGED vars
  <2>1. CallInv'
    BY <1>1, CallsAlone DEF IInv, vars
  <2>2. TrustInv'
    BY <1>1 DEF IInv, vars, trust, TrustInv, TrustTypes, Remembered, AllowlistFileOnce
  <2> QED BY <2>1, <2>2 DEF IInv
<1>2. CASE Next
  <2>1. CallInv'
    BY <1>2, SubmitStep, TransactionStep, GiveUpStep, DieStep, RedeliverStep, CallsAlone
    DEF IInv, Next, Restart, ReloadBlocklist
  <2> QED BY <1>2, <2>1, TrustStep DEF IInv
<1> QED BY <1>1, <1>2

\* The inductive invariant, from which the theorems follow.
LEMMA Invariance == Spec => []IInv
BY InitIInv, NextIInv, PTL DEF Spec

\* Calls, queues and lists of all servers stay well typed.
THEOREM FederationTypeCorrect == Spec => []TypeOK
BY Invariance, Typed, PTL

\* 202 for a remote recipient means that the event is in the queue of the server
\* of the recipient's domain or was rejected there, over chains of any length,
\* with lost answers, calls that ran on and second deliveries (relayHandler.send,
\* federationHandler.transaction).
THEOREM FederationAcceptedArrived == Spec => []AcceptedArrived
<1>1. IInv => AcceptedArrived
  BY DEF IInv, CallInv
<1> QED BY <1>1, Invariance, PTL

\* Only the server of the recipient's domain stores an event (the comparison of
\* the destination in federationHandler.transaction).
THEOREM FederationStoredAtDestination == Spec => []StoredAtDestination
<1>1. IInv => StoredAtDestination
  BY DEF IInv, CallInv
<1> QED BY <1>1, Invariance, PTL

\* The allowlist file gets at most one line for a domain, and one more for every start
\* that could not read it, over overlapping transactions, failed writes and restarts
\* (SecurityService.loadAllowlist, AddToAllowlist).
THEOREM FederationAllowlistFileOnce == Spec => []AllowlistFileOnce
<1>1. IInv => AllowlistFileOnce
  BY DEF IInv, TrustInv
<1> QED BY <1>1, Invariance, PTL
=============================================================================
