----------------------------- MODULE Federation -----------------------------
(***************************************************************************)
(* Messages to users of other servers: the remote branch of                *)
(* relayHandler.send, federation.Client, the /federation/v1/transaction    *)
(* handler with its SecurityService, and relay.AcceptTransaction.          *)
(*                                                                         *)
(* Everything happens inside one synchronous HTTP call: the home server    *)
(* posts a transaction with one event, the receiver checks it and either   *)
(* stores the event or posts the transaction on to its destination while   *)
(* its own caller waits.  A request is named by the event id Send          *)
(* generates for it; hop[r][i] is the i-th such call made for it, and      *)
(* hop[r][0] a second delivery of the transaction by a peer or proxy.      *)
(***************************************************************************)
EXTENDS Naturals

CONSTANTS Servers, Names,
          HostOf,      \* name -> the server it resolves to
          DomainOf,    \* server -> the name it is configured with
          MainOf,      \* server -> main_only domain, or None
          Listed,      \* server -> names in its blocklist file
          Published,   \* server -> names on the blocklist behind its URL
          Messages,
          HomeOf,      \* message -> the server it is sent from
          DestOf,      \* message -> the domain of its recipient
          Requests,
          Mode,        \* AllowlistMode: "open", "auto", "manual"
          Trusted,     \* server -> names in its allowlist file at the start
          Failing,     \* servers whose database or file system may fail
          Threshold,   \* AllowlistTrustThreshold
          MaxHops,     \* bound: calls in a chain before its timeouts end it
          MaxUnread,   \* bound: restarts of a server that cannot read its allowlist
          None

ASSUME FederationConstants ==
  /\ HostOf \in [Names -> Servers] /\ DomainOf \in [Servers -> Names]
  /\ \A s \in Servers : HostOf[DomainOf[s]] = s
  /\ MainOf \in [Servers -> Names \cup {None}] /\ None \notin Names \cup Servers \cup Messages
  /\ Listed \in [Servers -> SUBSET Names] /\ Published \in [Servers -> SUBSET Names]
  /\ HomeOf \in [Messages -> Servers] /\ DestOf \in [Messages -> Names]
  /\ Mode \in {"open", "auto", "manual"} /\ Trusted \in [Servers -> SUBSET Names]
  /\ Failing \subseteq Servers
  /\ Threshold \in Nat \ {0} /\ MaxHops \in Nat \ {0} /\ MaxUnread \in Nat

\* The messages this module is about: Send compares the domains as they are
\* written.
ASSUME RemoteOnly == \A m \in Messages : DestOf[m] # DomainOf[HomeOf[m]]

Slots == 0 .. MaxHops

VARIABLES msg,      \* request -> its message
          answer,   \* request -> idle | waiting | accepted | failed
          hop,      \* request -> slot -> call
          queue,    \* server -> event ids in message_queue
          rejected, \* server -> event ids it answered as rejected
          peers,    \* server -> federation_peers
          allow,    \* server -> allowlist in memory
          file,     \* server -> name -> its lines in the allowlist file
          count,    \* server -> name -> successCount
          blocked,  \* server -> blocklist in memory
          unread    \* server -> starts that did not read the allowlist (history)

trust == <<allow, file, count, blocked, unread>>
vars == <<msg, answer, hop, queue, rejected, peers, trust>>

\* pc is where the handler is; origin the server the call comes from; live
\* whether its caller still waits.
NoHop == [pc |-> "none", at |-> None, origin |-> None, live |-> FALSE]

Steps == {"none", "check", "wait", "relayed", "unrelayed",
          "trust", "count", "add", "select", "insert"}

TypeOK ==
  /\ msg \in [Requests -> Messages \cup {None}]
  /\ answer \in [Requests -> {"idle", "waiting", "accepted", "failed"}]
  /\ hop \in [Requests -> [Slots ->
       [pc : Steps, at : Servers \cup {None}, origin : Names \cup {None}, live : BOOLEAN]]]
  /\ queue \in [Servers -> SUBSET Requests]
  /\ rejected \in [Servers -> SUBSET Requests]
  /\ peers \in [Servers -> SUBSET Names]
  /\ allow \in [Servers -> SUBSET Names]
  /\ file \in [Servers -> [Names -> Nat]]
  /\ count \in [Servers -> [Names -> Nat]]
  /\ blocked \in [Servers -> SUBSET Names]
  /\ unread \in [Servers -> Nat]

\* os.ReadFile in loadBlocklist and loadAllowlist: an error leaves the list empty.
ReadFile(s, lines) == IF s \in Failing THEN {lines, {}} ELSE {lines}

\* loadBlocklist: the file, and the published list when it can be fetched.
Blocklists(s) == {l \cup p : l \in ReadFile(s, Listed[s]), p \in {{}, Published[s]}}

\* loadAllowlist
Persisted(s) == {d \in Names : Mode # "open" /\ file[s][d] > 0}
Allowlists(s) == ReadFile(s, Persisted(s))
Unread(s, list) == IF list = Persisted(s) THEN 0 ELSE 1

Init ==
  /\ msg = [r \in Requests |-> None]
  /\ answer = [r \in Requests |-> "idle"]
  /\ hop = [r \in Requests |-> [i \in Slots |-> NoHop]]
  /\ queue = [s \in Servers |-> {}]
  /\ rejected = [s \in Servers |-> {}]
  /\ peers = [s \in Servers |-> {}]
  /\ file = [s \in Servers |-> [d \in Names |-> IF d \in Trusted[s] THEN 1 ELSE 0]]
  /\ allow \in {a \in [Servers -> SUBSET Names] : \A s \in Servers : a[s] \in Allowlists(s)}
  /\ unread = [s \in Servers |-> Unread(s, allow[s])]
  /\ count = [s \in Servers |-> [d \in Names |-> 0]]
  /\ blocked \in {b \in [Servers -> SUBSET Names] : \A s \in Servers : b[s] \in Blocklists(s)}

-----------------------------------------------------------------------------
Call(name, from) ==
  [pc |-> "check", at |-> HostOf[name], origin |-> DomainOf[from], live |-> TRUE]

\* SendTransaction: main_only servers send everything to Main.
Target(m) == LET hub == MainOf[HomeOf[m]] IN IF hub # None THEN hub ELSE DestOf[m]

\* A client sends or sends again; the idempotency key plays no part.
\* resolveEndpoint may fail.
Submit(r, m) ==
  /\ answer[r] = "idle"
  /\ msg' = [msg EXCEPT ![r] = m]
  /\ \/ /\ hop' = [hop EXCEPT ![r][1] = Call(Target(m), HomeOf[m])]
        /\ answer' = [answer EXCEPT ![r] = "waiting"]
     \/ answer' = [answer EXCEPT ![r] = "failed"] /\ UNCHANGED hop
  /\ UNCHANGED <<queue, rejected, peers, trust>>

\* The caller of call i, the client's request or the call before, hears
\* whether it came back with 200; h are the calls that are left.
Hear(r, i, ok, h) ==
  IF i = 1
  THEN /\ answer' = [answer EXCEPT ![r] = IF ok THEN "accepted" ELSE "failed"]
       /\ hop' = [hop EXCEPT ![r] = h]
  ELSE /\ hop' = [hop EXCEPT ![r] = [h EXCEPT ![i - 1].pc = IF ok THEN "relayed" ELSE "unrelayed"]]
       /\ UNCHANGED answer

Reply(r, i, ok) ==
  LET h == [hop[r] EXCEPT ![i] = NoHop] IN
  IF hop[r][i].live THEN Hear(r, i, ok, h)
  ELSE hop' = [hop EXCEPT ![r] = h] /\ UNCHANGED answer

Step(r, i, pc) == hop' = [hop EXCEPT ![r][i].pc = pc] /\ UNCHANGED answer

\* The checks of the handler that depend on its configuration and lists.
Admissible(s, origin) ==
  /\ MainOf[s] # None => origin = MainOf[s]
  /\ origin \notin blocked[s]
  /\ Mode = "manual" => origin \in allow[s]

\* Refused by one of these, or by the rate limit, the body limit, the
\* signature, the schema or the clock.
Refuse(r, i) ==
  /\ hop[r][i].pc = "check"
  /\ Reply(r, i, FALSE)
  /\ UNCHANGED <<msg, queue, rejected, peers, trust>>

\* Variant: the destination is not compared.
AdmitStoresAll(r, i) ==
  LET h == hop[r][i] IN
  /\ h.pc = "check"
  /\ Admissible(h.at, h.origin)
  /\ Step(r, i, "trust")
  /\ UNCHANGED <<msg, queue, rejected, peers, trust>>

\* Variant: the server is recorded in the place of its domain.
AdmitRecordsServer(r, i) ==
  LET h == hop[r][i] IN
  /\ h.pc = "check"
  /\ Admissible(h.at, h.origin)
  /\ peers' = [peers EXCEPT ![h.at] = @ \cup {h.at}]
  /\ Reply(r, i, FALSE)
  /\ UNCHANGED <<msg, queue, rejected, trust>>

\* The origin becomes a peer (the error is discarded); then the transaction is
\* for this server, or any server posts it to its destination.
Admit(r, i) ==
  LET h == hop[r][i]
      to == DestOf[msg[r]]
  IN
  /\ h.pc = "check"
  /\ Admissible(h.at, h.origin)
  /\ \/ peers' = [peers EXCEPT ![h.at] = @ \cup {h.origin}]
     \/ h.at \in Failing /\ UNCHANGED peers
  /\ \/ to = DomainOf[h.at] /\ Step(r, i, "trust")
     \/ to # DomainOf[h.at] /\ Reply(r, i, FALSE)
     \/ /\ to # DomainOf[h.at] /\ i \in 1 .. MaxHops - 1
        /\ hop[r][i + 1].pc = "none"
        /\ hop' = [hop EXCEPT ![r][i].pc = "wait", ![r][i + 1] = Call(to, h.at)]
        /\ UNCHANGED answer
  /\ UNCHANGED <<msg, queue, rejected, trust>>

-----------------------------------------------------------------------------
\* IsAllowed, then again in RecordSuccessfulTransaction, ...
CheckTrust(r, i) ==
  LET h == hop[r][i] IN
  /\ h.pc = "trust"
  /\ Step(r, i, IF Mode = "auto" /\ h.origin \notin allow[h.at] THEN "count" ELSE "select")
  /\ UNCHANGED <<msg, queue, rejected, peers, trust>>

\* ... which counts, under the lock of the SecurityService.  The counter is
\* kept up to Threshold, with which alone it is compared.
RecordSuccess(r, i) ==
  LET h == hop[r][i] IN
  /\ h.pc = "count"
  /\ count' = [count EXCEPT ![h.at][h.origin] = IF @ < Threshold THEN @ + 1 ELSE @]
  /\ Step(r, i, IF count'[h.at][h.origin] >= Threshold THEN "add" ELSE "select")
  /\ UNCHANGED <<msg, queue, rejected, peers, allow, file, blocked, unread>>

\* Variant: membership is not tested again under the lock.
AddToAllowlistUntested(r, i) ==
  LET h == hop[r][i] IN
  /\ h.pc = "add"
  /\ allow' = [allow EXCEPT ![h.at] = @ \cup {h.origin}]
  /\ file' = [file EXCEPT ![h.at][h.origin] = @ + 1]
  /\ Step(r, i, "select")
  /\ UNCHANGED <<msg, queue, rejected, peers, count, blocked, unread>>

\* AddToAllowlist: memory under the lock, then a line of the file, whose
\* errors are discarded.
AddToAllowlist(r, i) ==
  LET h == hop[r][i] IN
  /\ h.pc = "add"
  /\ \/ h.origin \in allow[h.at] /\ UNCHANGED <<allow, file>>
     \/ /\ h.origin \notin allow[h.at]
        /\ allow' = [allow EXCEPT ![h.at] = @ \cup {h.origin}]
        /\ \/ file' = [file EXCEPT ![h.at][h.origin] = @ + 1]
           \/ h.at \in Failing /\ UNCHANGED file
  /\ Step(r, i, "select")
  /\ UNCHANGED <<msg, queue, rejected, peers, count, blocked, unread>>

\* AcceptTransaction: SELECT EXISTS, whose error counts as "no", ...
SelectEvent(r, i) ==
  /\ hop[r][i].pc = "select"
  /\ \/ r \in queue[hop[r][i].at] /\ Reply(r, i, TRUE)
     \/ (r \notin queue[hop[r][i].at] \/ hop[r][i].at \in Failing) /\ Step(r, i, "insert")
  /\ UNCHANGED <<msg, queue, rejected, peers, trust>>

\* ... then the INSERT.  Stored or rejected, the answer is 200.
InsertEvent(r, i) ==
  LET s == hop[r][i].at IN
  /\ hop[r][i].pc = "insert"
  /\ \/ /\ r \notin queue[s]
        /\ queue' = [queue EXCEPT ![s] = @ \cup {r}]
        /\ UNCHANGED rejected
     \/ /\ r \in queue[s] \/ s \in Failing
        /\ rejected' = [rejected EXCEPT ![s] = @ \cup {r}]
        /\ UNCHANGED queue
  /\ Reply(r, i, TRUE)
  /\ UNCHANGED <<msg, peers, trust>>

\* Variant: a relay answers 200 whatever the destination answered.
ReturnAlwaysOk(r, i) ==
  /\ hop[r][i].pc \in {"relayed", "unrelayed"}
  /\ Reply(r, i, TRUE)
  /\ UNCHANGED <<msg, queue, rejected, peers, trust>>

\* A relay answers its caller: 200 when the call it made came back with 200,
\* 502 otherwise.
Return(r, i) ==
  /\ hop[r][i].pc \in {"relayed", "unrelayed"}
  /\ Reply(r, i, hop[r][i].pc = "relayed")
  /\ UNCHANGED <<msg, queue, rejected, peers, trust>>

-----------------------------------------------------------------------------
\* The caller of call i gives up: timeoutHandler, the client's timeout, a
\* broken connection, a lost answer.  The call may run on, ...
GiveUp(r, i) ==
  /\ hop[r][i].live
  /\ Hear(r, i, FALSE, [hop[r] EXCEPT ![i].live = FALSE])
  /\ UNCHANGED <<msg, queue, rejected, peers, trust>>

\* ... or end at any statement; nobody waits then for the call it made.
Die(r, i) ==
  /\ hop[r][i].pc # "none" /\ ~hop[r][i].live
  /\ hop' = [hop EXCEPT ![r] =
       [j \in Slots |-> CASE j = i -> NoHop
                        [] j = i + 1 /\ i > 0 -> [hop[r][j] EXCEPT !.live = FALSE]
                        [] OTHER -> hop[r][j]]]
  /\ UNCHANGED <<msg, answer, queue, rejected, peers, trust>>

\* The transaction is delivered to its destination a second time.  Bound: one
\* such copy is under way at a time.
Redeliver(r, i) ==
  /\ i > 0 /\ hop[r][i].pc # "none" /\ \A q \in Requests : hop[q][0].pc = "none"
  /\ DomainOf[hop[r][i].at] = DestOf[msg[r]]
  /\ hop' = [hop EXCEPT ![r][0] = [hop[r][i] EXCEPT !.pc = "check", !.live = FALSE]]
  /\ UNCHANGED <<msg, answer, queue, rejected, peers, trust>>

\* A server starts again: what it kept in memory comes from its files, as far as it
\* can read them.
Restart(s) ==
  /\ \A r \in Requests, i \in Slots : hop[r][i].at # s
  /\ \E a \in Allowlists(s) :
       /\ unread[s] + Unread(s, a) <= MaxUnread \/ a = Persisted(s)
       /\ allow' = [allow EXCEPT ![s] = a]
       /\ unread' = [unread EXCEPT ![s] = @ + Unread(s, a)]
  /\ count' = [count EXCEPT ![s] = [d \in Names |-> 0]]
  /\ \E b \in Blocklists(s) : blocked' = [blocked EXCEPT ![s] = b]
  /\ UNCHANGED <<msg, answer, hop, queue, rejected, peers, file>>

\* reloadBlocklistLoop
ReloadBlocklist(s) ==
  /\ \E b \in Blocklists(s) \ {blocked[s]} : blocked' = [blocked EXCEPT ![s] = b]
  /\ UNCHANGED <<msg, answer, hop, queue, rejected, peers, allow, file, count, unread>>

Transaction(r, i) ==
  \/ Refuse(r, i) \/ Admit(r, i)
  \/ CheckTrust(r, i) \/ RecordSuccess(r, i) \/ AddToAllowlist(r, i)
  \/ SelectEvent(r, i) \/ InsertEvent(r, i)
  \/ Return(r, i)

Next ==
  \/ \E r \in Requests, m \in Messages : Submit(r, m)
  \/ \E r \in Requests, i \in Slots :
       Transaction(r, i) \/ GiveUp(r, i) \/ Die(r, i) \/ Redeliver(r, i)
  \/ \E s \in Servers : Restart(s) \/ ReloadBlocklist(s)

Spec == Init /\ [][Next]_vars

-----------------------------------------------------------------------------
\* 202 Accepted for a remote recipient means that the transaction got as far
\* as the destination's queue, over however many servers: the event is stored
\* there, or the destination has rejected it (which no server in between, nor
\* the client, gets to know).
AcceptedArrived ==
  \A r \in Requests : answer[r] = "accepted" =>
    LET s == HostOf[DestOf[msg[r]]] IN r \in queue[s] \cup rejected[s]

\* An event is stored only by the server its recipient's domain names, never
\* by a server that relays it.
StoredAtDestination ==
  \A s \in Servers : \A r \in queue[s] \cup rejected[s] : DestOf[msg[r]] = DomainOf[s]

\* However many transactions of a domain reach the trust threshold together, and over
\* restarts, the allowlist file gets one line for it, and at most one more for every
\* start of the server that could not read the file.
AllowlistFileOnce == \A s \in Servers, d \in Names : file[s][d] <= 1 + unread[s]
=============================================================================
