----------------------------- MODULE VpnProofs ------------------------------
(***************************************************************************)
(* Proofs about Vpn, for every set of requests, devices and protocols and  *)
(* every size of the pool: type correctness, that a row keeps its address, *)
(* and that Vpn hands out addresses as AddressPool does.                   *)
(*                                                                         *)
(* That no address goes to two devices is not inductive for the answered   *)
(* configurations alone.  IInv follows an address on its way from the      *)
(* sequence through a request and the row of its device to the answer:     *)
(* whoever has it in any of these places is one device (OneHolder), and    *)
(* the sequence has passed it (Drawn).  Fits is what requests have found   *)
(* out by the time they reach a statement.                                 *)
(***************************************************************************)
EXTENDS Vpn, TLAPS

\* Requests, as in TypeOK.
Request ==
  [op : {"none", "config", "revoke"},
   pc : {"idle", "check", "address", "next", "cred", "upsert", "add", "answer",
         "remove", "delete", "done"},
   slot : Slots \cup {None}, cred : Requests \cup {None},
   addr : 1 .. PoolSize \cup {None}, alone : BOOLEAN]

\* What request q has at the statement it has reached.
Carries(q) ==
  /\ q.pc \notin {"idle", "done"} => q.slot \in Slots
  /\ q.pc = "cred" => q.slot[2] # "wireguard"
  /\ q.pc \in {"next", "upsert", "add", "answer"} => q.cred \in Requests
  /\ q.pc = "upsert" /\ q.slot[2] = "wireguard" => q.addr # None

Fits == \A r \in Requests : Carries(req[r])

\* Device d has address a in its row, in a request under way or in an answer.
Holds(d, a) ==
  \/ \E s \in Slots : s[1] = d /\ row[s].addr = a
  \/ \E r \in Requests : req[r].slot \in Slots /\ req[r].slot[1] = d /\ req[r].addr = a
  \/ [owner |-> d, address |-> a] \in issued

\* An address is with one device at most.
OneHolder ==
  \A a \in 1 .. PoolSize : \A d, e \in Devices : Holds(d, a) /\ Holds(e, a) => d = e

\* An address that somebody has was drawn from the sequence.
Drawn == \A a \in 1 .. PoolSize : \A d \in Devices : Holds(d, a) => a <= seq

IInv == TypeOK /\ Fits /\ OneHolder /\ Drawn

\* The constants, as the proofs use them.
LEMMA Constants ==
  /\ PoolSize \in Nat
  /\ None \notin Requests /\ None \notin Devices
  /\ \A a \in 1 .. PoolSize : a # None
  /\ \A s \in Slots : s[1] \in Devices
BY PoolAssumption, NoneAssumption DEF Slots

\* The invariant holds before the first request.
LEMMA InitIInv == Init => IInv
<1> SUFFICES ASSUME Init PROVE IInv
  OBVIOUS
<1>1. TypeOK /\ Fits
  BY Constants DEF Init, TypeOK, Fits, Carries, Idle, NoRow, NoConfig
<1>2. \A a \in 1 .. PoolSize : \A d \in Devices : ~Holds(d, a)
  BY Constants DEF Init, Holds, Idle, NoRow
<1> QED BY <1>1, <1>2 DEF IInv, OneHolder, Drawn

-----------------------------------------------------------------------------
\* Writing a request that fits keeps types and Fits.
LEMMA PutRequest ==
  ASSUME TypeOK, Fits, NEW r \in Requests, NEW q \in Request, Carries(q),
         req' = [req EXCEPT ![r] = q]
  PROVE  req' \in [Requests -> Request] /\ Fits'
BY DEF TypeOK, Fits, Request

\* Going on to statement p leaves the rest of a request as it is.
LEMMA GoesOn ==
  ASSUME TypeOK, NEW r \in Requests,
         NEW p \in {"check", "address", "cred", "add", "answer", "delete"}
  PROVE  LET q == [req[r] EXCEPT !.pc = p] IN
           /\ q \in Request /\ q.pc = p /\ q.slot = req[r].slot
           /\ q.cred = req[r].cred /\ q.addr = req[r].addr /\ q.alone = req[r].alone
BY DEF TypeOK, Request

\* A request that has ended fits.
LEMMA EndFits == Done \in Request /\ Carries(Done)
BY DEF Done, Idle, Request, Carries

\* What the arrival of a request for slot s makes of request q.
ArrivesAs(q, s) ==
  \/ req'[q] = [Idle EXCEPT !.op = "config", !.pc = "check", !.slot = s,
                           !.alone = Active(s) = {}]
  \/ req'[q] = [Idle EXCEPT !.op = "revoke", !.pc = "remove", !.slot = s,
                           !.alone = Active(s) = {}]
  \/ req'[q] = [req[q] EXCEPT !.alone = FALSE]
  \/ req'[q] = req[q]

\* An arrival enters one request and marks those for the same slot as not alone.
LEMMA ArriveShape ==
  ASSUME NEW r \in Requests, Arrive(r)
  PROVE  \E s \in Slots : \A q \in Requests : ArrivesAs(q, s)
BY DEF Arrive, ArrivesAs

\* An arrival gives nobody an address.
LEMMA ArriveAddresses ==
  ASSUME TypeOK, NEW r \in Requests, Arrive(r), NEW q \in Requests,
         NEW a \in 1 .. PoolSize, req'[q].addr = a
  PROVE  req'[q].slot = req[q].slot /\ req[q].addr = a
<1>1. PICK s \in Slots : ArrivesAs(q, s)
  BY ArriveShape
<1>2. [Idle EXCEPT !.op = "config", !.pc = "check", !.slot = s, !.alone = Active(s) = {}].addr = None
  BY DEF Idle
<1>3. [Idle EXCEPT !.op = "revoke", !.pc = "remove", !.slot = s, !.alone = Active(s) = {}].addr = None
  BY DEF Idle
<1>4. req[q] \in Request
  BY DEF TypeOK, Request
<1>5. /\ [req[q] EXCEPT !.alone = FALSE].slot = req[q].slot
      /\ [req[q] EXCEPT !.alone = FALSE].addr = req[q].addr
  BY <1>4 DEF Request
<1> QED BY <1>1, <1>2, <1>3, <1>5, Constants DEF ArrivesAs

\* What a SELECT yields has the type of a row.
LEMMA Selected ==
  ASSUME TypeOK, NEW s \in Slots, NEW seen \in Select(s)
  PROVE  /\ seen.addr \in 1 .. PoolSize \cup {None} /\ seen.cred \in Requests \cup {None}
         /\ seen # row[s] => seen.addr = None /\ seen.cred = None
BY DEF Select, TypeOK, Row, NoRow

\* The steps of a request, and what it still knows after each.
LEMMA RequestFits ==
  ASSUME TypeOK, Fits, NEW r \in Requests, Handle(r)
  PROVE  req' \in [Requests -> Request] /\ Fits'
<1> DEFINE me == req[r]
<1> USE Constants DEF At, Go, Refuse
<1>0. me \in Request /\ Carries(me)
  BY DEF TypeOK, Fits, Request
<1>e. CASE Refuse(r)
  BY <1>e, EndFits, PutRequest
<1>1. CASE Arrive(r)
  <2>1. PICK s \in Slots : \A q \in Requests : ArrivesAs(q, s)
    BY <1>1, ArriveShape
  <2>2. ASSUME NEW q \in Requests PROVE req'[q] \in Request /\ Carries(req'[q])
    <3>1. req[q] \in Request /\ Carries(req[q])
      BY DEF TypeOK, Fits, Request
    <3>2. [req[q] EXCEPT !.alone = FALSE] \in Request /\ Carries([req[q] EXCEPT !.alone = FALSE])
      BY <3>1 DEF Request, Carries
    <3>3. ASSUME NEW o \in {"config", "revoke"}, NEW p \in {"check", "remove"}
          PROVE  LET n == [Idle EXCEPT !.op = o, !.pc = p, !.slot = s, !.alone = Active(s) = {}]
                 IN  n \in Request /\ Carries(n)
      BY DEF Idle, Request, Carries
    <3> QED BY <2>1, <3>1, <3>2, <3>3 DEF ArrivesAs
  <2>3. req' = [q \in Requests |-> req'[q]]
    BY <1>1 DEF Arrive
  <2> QED BY <2>2, <2>3 DEF Fits
<1>2. CASE CheckExpiry(r)
  <2>1. CASE req' = [req EXCEPT ![r].pc = "address"] /\ At(r, "check")
    BY <2>1, <1>0, GoesOn, PutRequest DEF Carries
  <2>2. CASE req' = [req EXCEPT ![r].pc = "cred"] /\ At(r, "check") /\ me.slot[2] # "wireguard"
    BY <2>2, <1>0, GoesOn, PutRequest DEF Carries
  <2> QED BY <1>2, <1>e, <2>1, <2>2 DEF CheckExpiry
<1>3. CASE ReadAddress(r)
  <2>0. PICK seen \in Select(me.slot) :
          req' = [req EXCEPT ![r].pc = IF seen.addr = None THEN "next" ELSE "upsert",
                             ![r].addr = seen.addr, ![r].cred = r]
    BY <1>3 DEF ReadAddress
  <2> DEFINE a == seen.addr
             q == [me EXCEPT !.pc = IF a = None THEN "next" ELSE "upsert", !.addr = a, !.cred = r]
  <2>1. me.slot \in Slots /\ a \in 1 .. PoolSize \cup {None}
    BY <1>0, <1>3, <2>0, Selected DEF ReadAddress, Carries
  <2>2. q \in Request /\ Carries(q)
    BY <1>0, <2>1 DEF Request, Carries
  <2>3. req' = [req EXCEPT ![r] = q]
    BY <2>0
  <2> QED BY <2>2, <2>3, PutRequest
<1>4. CASE NextVal(r)
  <2> DEFINE q == [me EXCEPT !.pc = "upsert", !.addr = seq + 1]
  <2>1. CASE seq < PoolSize /\ req' = [req EXCEPT ![r] = q]
    <3>1. seq + 1 \in 1 .. PoolSize
      BY <2>1 DEF TypeOK
    <3>2. q \in Request /\ Carries(q)
      BY <1>0, <1>4, <3>1 DEF NextVal, Request, Carries
    <3> QED BY <2>1, <3>2, PutRequest
  <2> QED BY <1>4, <1>e, <2>1 DEF NextVal
<1>5. CASE ReadCred(r)
  <2>0. PICK seen \in Select(me.slot) :
          req' = [req EXCEPT ![r].pc = IF seen.cred = None THEN "upsert" ELSE "add",
                             ![r].cred = IF seen.cred = None THEN r ELSE seen.cred]
    BY <1>5 DEF ReadCred
  <2> DEFINE c == seen.cred
             q == [me EXCEPT !.pc = IF c = None THEN "upsert" ELSE "add",
                             !.cred = IF c = None THEN r ELSE c]
  <2>1. me.slot \in Slots /\ c \in Requests \cup {None}
    BY <1>0, <1>5, <2>0, Selected DEF ReadCred, Carries
  <2>2. q \in Request /\ Carries(q)
    BY <1>0, <1>5, <2>1 DEF ReadCred, Request, Carries
  <2>3. req' = [req EXCEPT ![r] = q]
    BY <2>0
  <2> QED BY <2>2, <2>3, PutRequest
<1>6. CASE AddUser(r)
  BY <1>0, <1>6, GoesOn, PutRequest DEF AddUser, Carries
<1>7. CASE Upsert(r)
  <2>1. CASE req' = [req EXCEPT ![r].pc = "answer"] /\ At(r, "upsert")
    BY <2>1, <1>0, GoesOn, PutRequest DEF Carries
  <2>2. CASE req' = [req EXCEPT ![r].pc = "add"] /\ At(r, "upsert")
    BY <2>2, <1>0, GoesOn, PutRequest DEF Carries
  <2> QED BY <1>7, <1>e, <2>1, <2>2 DEF Upsert
<1>8. CASE Answer(r)
  BY <1>8, <1>e DEF Answer
<1>9. CASE RemoveUser(r)
  <2> DEFINE q == [me EXCEPT !.pc = "delete", !.alone = FALSE]
  <2>1. q \in Request /\ Carries(q)
    BY <1>0, <1>9 DEF RemoveUser, Request, Carries
  <2>2. CASE req' = [req EXCEPT ![r] = q]
    BY <2>1, <2>2, PutRequest
  <2>3. CASE req' = [req EXCEPT ![r].pc = "delete"] /\ At(r, "remove")
    BY <2>3, <1>0, GoesOn, PutRequest DEF Carries
  <2> QED BY <1>9, <2>2, <2>3 DEF RemoveUser
<1>10. CASE DeleteRow(r)
  BY <1>10, <1>e DEF DeleteRow
<1> QED
  BY <1>1, <1>2, <1>3, <1>4, <1>5, <1>6, <1>7, <1>8, <1>9, <1>10
  DEF Handle, WireGuardConfig, XrayConfig, Revoke

\* The steps of a request keep the types of tables and history.
LEMMA RequestType ==
  ASSUME TypeOK, Fits, NEW r \in Requests, Handle(r)
  PROVE  TypeOK' /\ Fits'
<1>0. req' \in [Requests -> Request] /\ Fits'
  BY RequestFits
<1>s. ~At(r, "idle") /\ ~At(r, "done") => req[r].slot \in Slots
  BY DEF At, Fits, Carries
<1>q. req[r].addr \in 1 .. PoolSize \cup {None} /\ req[r].cred \in Requests \cup {None}
  BY DEF TypeOK
<1> USE Constants, <1>0 DEF At, tables, history
<1> USE DEF TypeOK, Request
<1>1. CASE UNCHANGED <<tables, last, issued>> /\ mixed' \subseteq Slots
  BY <1>1
<1>2. CASE Arrive(r)
  BY <1>1, <1>2 DEF Arrive
<1>3. CASE CheckExpiry(r)
  BY <1>1, <1>3 DEF CheckExpiry
<1>5. CASE ReadAddress(r) \/ ReadCred(r)
  <2>1. UNCHANGED <<tables, last, issued>> /\ mixed' \subseteq mixed \cup {req[r].slot}
    BY <1>5 DEF ReadAddress, ReadCred, Saw
  <2>2. req[r].slot \in Slots
    BY <1>5, <1>s DEF ReadAddress, ReadCred
  <2> QED BY <1>1, <2>1, <2>2
<1>4. CASE NextVal(r)
  BY <1>4 DEF NextVal
<1>6. CASE AddUser(r)
  BY <1>6, <1>s, <1>q DEF AddUser, Fits, Carries
<1>7. CASE Upsert(r)
  <2> DEFINE s == req[r].slot
             new == [cred |-> req[r].cred, addr |-> StoredAddress(row[s].addr, req[r].addr),
                     expired |-> FALSE]
  <2>1. s \in Slots /\ req[r].cred \in Requests /\ (s[2] = "wireguard" => req[r].addr # None)
    BY <1>7 DEF Upsert, Fits, Carries
  <2>2. row[s].addr \in 1 .. PoolSize \cup {None}
    BY <2>1 DEF Row, NoRow
  <2>3. new \in Row /\ (s[2] = "wireguard" => new.addr # None)
    BY <2>1, <2>2, <1>q DEF Row, StoredAddress
  <2>4. row' = row \/ row' = [row EXCEPT ![s] = new]
    BY <1>7 DEF Upsert
  <2>5. row' \in [Slots -> Row \cup {NoRow}]
    BY <2>1, <2>3, <2>4
  <2>6. \A t \in Slots : row'[t].cred # None /\ t[2] = "wireguard" => row'[t].addr # None
    BY <2>1, <2>3, <2>4
  <2>7. mixed' \subseteq Slots
    BY <1>7, <2>1 DEF Upsert
  <2> QED BY <1>7, <2>5, <2>6, <2>7 DEF Upsert
<1>8. CASE Answer(r)
  <2> DEFINE s == req[r].slot
  <2>1. s \in Slots /\ s[1] \in Devices /\ req[r].cred \in Requests
    BY <1>8 DEF Answer, Fits, Carries
  <2>2. [cred |-> req[r].cred, addr |-> req[r].addr] \in Config
    BY <2>1, <1>q DEF Config
  <2>3. last' \in [Slots -> Config \cup {NoConfig}] /\ mixed' \subseteq Slots
    BY <1>8, <2>1, <2>2 DEF Answer
  <2>4. issued' \subseteq [owner : Devices, address : 1 .. PoolSize]
    BY <1>8, <2>1, <1>q DEF Answer
  <2> QED BY <1>8, <2>3, <2>4 DEF Answer
<1>9. CASE RemoveUser(r)
  BY <1>9, <1>s DEF RemoveUser
<1>10. CASE DeleteRow(r)
  <2> DEFINE s == req[r].slot
  <2>1. s \in Slots
    BY <1>10, <1>s DEF DeleteRow
  <2>2. row' = row \/ row' = [row EXCEPT ![s] = NoRow]
    BY <1>10 DEF DeleteRow
  <2>3. /\ row' \in [Slots -> Row \cup {NoRow}]
        /\ \A t \in Slots : row'[t].cred # None /\ t[2] = "wireguard" => row'[t].addr # None
    BY <2>1, <2>2 DEF NoRow
  <2>4. last' \in [Slots -> Config \cup {NoConfig}] /\ mixed' \subseteq Slots
    BY <1>10, <2>1 DEF DeleteRow
  <2> QED BY <1>10, <2>3, <2>4 DEF DeleteRow
<1> QED
  BY <1>2, <1>3, <1>4, <1>5, <1>6, <1>7, <1>8, <1>9, <1>10
  DEF Handle, WireGuardConfig, XrayConfig, Revoke

\* Every step keeps the types and what requests know.
LEMMA TypeStep == TypeOK /\ Fits /\ [Next]_vars => TypeOK' /\ Fits'
<1> SUFFICES ASSUME TypeOK, Fits, [Next]_vars PROVE TypeOK' /\ Fits'
  OBVIOUS
<1>1. ASSUME NEW r \in Requests, Handle(r) PROVE TypeOK' /\ Fits'
  BY <1>1, RequestType
<1>2. ASSUME NEW d \in Devices, DeleteDevice(d) PROVE TypeOK' /\ Fits'
  BY <1>2, Constants DEF DeleteDevice, TypeOK, Fits, Carries, Row, NoRow
<1>3. ASSUME NEW s \in Slots, Expire(s) PROVE TypeOK' /\ Fits'
  <2>1. row[s] \in Row /\ row' = [row EXCEPT ![s] = [@ EXCEPT !.expired = TRUE]]
    BY <1>3 DEF Expire, TypeOK, NoRow
  <2>2. [row[s] EXCEPT !.expired = TRUE] \in Row
        /\ [row[s] EXCEPT !.expired = TRUE].addr = row[s].addr
        /\ [row[s] EXCEPT !.expired = TRUE].cred = row[s].cred
    BY <2>1 DEF Row
  <2>3. /\ row' \in [Slots -> Row \cup {NoRow}]
        /\ \A t \in Slots : row'[t].cred # None /\ t[2] = "wireguard" => row'[t].addr # None
    BY <2>1, <2>2 DEF TypeOK
  <2> QED BY <1>3, <2>3 DEF Expire, TypeOK, Fits, history
<1>4. CASE XrayRestart
  BY <1>4, Constants DEF XrayRestart, TypeOK, Fits, Carries, history
<1>5. CASE UNCHANGED vars
  BY <1>5 DEF vars, TypeOK, Fits, Carries
<1> QED BY <1>1, <1>2, <1>3, <1>4, <1>5 DEF Next

-----------------------------------------------------------------------------
\* A step after which only those hold an address who held it before.
Passes == \A a \in 1 .. PoolSize : \A d \in Devices : Holds(d, a)' => Holds(d, a)

\* A step that passes addresses on keeps them with one device.
LEMMA PassKeeps ==
  ASSUME OneHolder, Drawn, Passes, seq' = seq
  PROVE  OneHolder' /\ Drawn'
BY DEF OneHolder, Drawn, Passes

\* An address is passed on by every statement but nextval.
LEMMA RequestPasses ==
  ASSUME TypeOK, Fits, NEW r \in Requests, Handle(r), ~NextVal(r)
  PROVE  Passes /\ seq' = seq
<1>0. seq' = seq
  BY DEF Handle, WireGuardConfig, XrayConfig, Revoke, Arrive, CheckExpiry, ReadAddress,
         ReadCred, AddUser, Upsert, Answer, RemoveUser, DeleteRow, tables, Saw
<1> SUFFICES ASSUME NEW a \in 1 .. PoolSize, NEW d \in Devices, Holds(d, a)'
             PROVE  Holds(d, a)
  BY <1>0 DEF Passes
<1> USE Constants DEF TypeOK, Fits, Carries, Holds, At, Go, Refuse, Idle, Done, tables, history
<1>1. CASE Arrive(r)
  <2>1. \A q \in Requests : req'[q].addr = a => req'[q].slot = req[q].slot /\ req[q].addr = a
    BY <1>1, ArriveAddresses
  <2> QED BY <1>1, <2>1 DEF Arrive
<1>2. CASE CheckExpiry(r)
  BY <1>2 DEF CheckExpiry
<1>3. CASE ReadAddress(r)
  BY <1>3 DEF ReadAddress, Saw, Select, NoRow
<1>5. CASE ReadCred(r)
  BY <1>5 DEF ReadCred, Saw
<1>6. CASE AddUser(r)
  BY <1>6 DEF AddUser
<1>7. CASE Upsert(r)
  BY <1>7 DEF Upsert, StoredAddress
<1>8. CASE Answer(r)
  BY <1>8 DEF Answer
<1>9. CASE RemoveUser(r)
  BY <1>9 DEF RemoveUser
<1>10. CASE DeleteRow(r)
  BY <1>10 DEF DeleteRow, NoRow
<1> QED
  BY <1>1, <1>2, <1>3, <1>5, <1>6, <1>7, <1>8, <1>9, <1>10
  DEF Handle, WireGuardConfig, XrayConfig, Revoke

\* nextval gives an address nobody has to the device of the request.
LEMMA NextValKeeps ==
  ASSUME IInv, NEW r \in Requests, NextVal(r)
  PROVE  OneHolder' /\ Drawn'
<1> USE Constants DEF IInv
<1>1. \A a \in 1 .. PoolSize : \A d \in Devices :
        Holds(d, a)' => Holds(d, a) \/ (a = seq' /\ seq' = seq + 1 /\ d = req[r].slot[1])
  BY DEF TypeOK, Fits, Carries, NextVal, Holds, At, Refuse, Idle, Done, history
<1>2. seq \in Nat /\ seq' \in Nat /\ seq <= seq'
  BY DEF NextVal, TypeOK
<1>3. Drawn'
  BY <1>1, <1>2 DEF Drawn
<1>4. OneHolder'
  BY <1>1, <1>2 DEF OneHolder, Drawn
<1> QED BY <1>3, <1>4

\* Addresses stay with their device through every step.
LEMMA HolderStep == IInv /\ [Next]_vars => OneHolder' /\ Drawn'
<1> SUFFICES ASSUME IInv, [Next]_vars PROVE OneHolder' /\ Drawn'
  OBVIOUS
<1> USE Constants DEF IInv
<1>1. ASSUME NEW r \in Requests, Handle(r) PROVE OneHolder' /\ Drawn'
  BY <1>1, RequestPasses, NextValKeeps, PassKeeps
<1>2. ASSUME NEW d \in Devices, DeleteDevice(d) PROVE Passes /\ seq' = seq
  BY <1>2 DEF DeleteDevice, TypeOK, Passes, Holds, NoRow
<1>3. ASSUME NEW s \in Slots, Expire(s) PROVE Passes /\ seq' = seq
  BY <1>3 DEF Expire, TypeOK, Passes, Holds, history, Row, NoRow
<1>4. CASE XrayRestart
  BY <1>4, PassKeeps DEF XrayRestart, Passes, Holds, history
<1>5. CASE UNCHANGED vars
  BY <1>5, PassKeeps DEF vars, Passes, Holds
<1> QED BY <1>1, <1>2, <1>3, <1>4, <1>5, PassKeeps DEF Next

\* The invariant holds always.
LEMMA Invariance == Spec => []IInv
<1>1. IInv /\ [Next]_vars => IInv'
  BY TypeStep, HolderStep DEF IInv
<1> QED BY InitIInv, <1>1, PTL DEF Spec

\* Every reachable state of the VPN service is well typed; in particular a
\* WireGuard row always has an address of the pool, also when the pool is empty.
THEOREM VpnTypeCorrect == Spec => []TypeOK
<1>1. IInv => TypeOK
  BY DEF IInv
<1> QED BY <1>1, Invariance, PTL

-----------------------------------------------------------------------------
\* A row keeps its address for as long as it exists, whichever requests for it
\* overlap: the upsert prefers the stored address.
THEOREM VpnAddressKept == Spec => AddressKept
<1> DEFINE Kept == \A s \in Slots :
              row[s].addr # None /\ row'[s] # NoRow => row'[s].addr = row[s].addr
<1>1. IInv /\ [Next]_vars => [Kept]_vars
  <2> SUFFICES ASSUME IInv, Next PROVE Kept
    OBVIOUS
  <2> USE DEF IInv, TypeOK
  <2>1. ASSUME NEW r \in Requests, Handle(r) PROVE Kept
    <3>1. CASE Upsert(r)
      BY <3>1 DEF Upsert, StoredAddress, Fits, Carries, At
    <3>2. CASE DeleteRow(r)
      BY <3>2, Constants DEF DeleteRow, Fits, Carries, At
    <3>3. CASE UNCHANGED row
      BY <3>3
    <3> QED
      BY <2>1, <3>1, <3>2, <3>3
      DEF Handle, WireGuardConfig, XrayConfig, Revoke, Arrive, CheckExpiry, ReadAddress,
          NextVal, ReadCred, AddUser, Answer, RemoveUser, tables
  <2>2. ASSUME NEW d \in Devices, DeleteDevice(d) PROVE Kept
    BY <2>2 DEF DeleteDevice
  <2>3. ASSUME NEW s \in Slots, Expire(s) PROVE Kept
    BY <2>3 DEF Expire, Row, NoRow
  <2>4. CASE XrayRestart
    BY <2>4 DEF XrayRestart
  <2> QED BY <2>1, <2>2, <2>3, <2>4 DEF Next
<1> QED BY <1>1, Invariance, PTL DEF Spec, AddressKept

-----------------------------------------------------------------------------
\* An answer grants an address that is new, or repeats a grant.
LEMMA AnswerGrants ==
  ASSUME IInv, IInv', NEW r \in Requests, Answer(r)
  PROVE  Pool!Next \/ UNCHANGED issued
<1> DEFINE s == req[r].slot
           g == [owner |-> s[1], address |-> req[r].addr]
<1> USE Constants
<1>1. s \in Slots /\ s[1] \in Devices /\ (req[r].addr = None \/ req[r].addr \in 1 .. PoolSize)
  BY DEF IInv, TypeOK, Fits, Carries, Answer, At
<1>2. CASE req[r].addr = None
  BY <1>2 DEF Answer
<1>3. CASE req[r].addr # None
  <2>1. issued' = issued \cup {g} /\ g \in Pool!Grants
    BY <1>1, <1>3 DEF Answer, Pool!Grants
  <2>2. ASSUME NEW o \in issued, o.address = g.address PROVE o = g
    <3>1. o = [owner |-> o.owner, address |-> o.address] /\ o.owner \in Devices
      BY DEF IInv, TypeOK
    <3>2. Holds(o.owner, g.address)
      BY <2>2, <3>1 DEF Holds
    <3>3. Holds(g.owner, g.address)
      BY <1>1 DEF Holds
    <3>4. o.owner = g.owner
      BY <1>1, <1>3, <3>1, <3>2, <3>3 DEF IInv, OneHolder
    <3> QED BY <2>2, <3>1, <3>4
  <2>3. CASE g \in issued
    BY <2>1, <2>3
  <2>4. CASE g \notin issued
    BY <2>1, <2>2, <2>4 DEF Pool!Next, Pool!Grant
  <2> QED BY <2>3, <2>4
<1> QED BY <1>2, <1>3

\* The VPN service implements the pool: no address is ever answered to two
\* devices, through overlapping requests, revocations, deleted devices and an
\* exhausted sequence.
THEOREM VpnImplementsPool == Spec => ImplementsPool
<1>1. Init => Pool!Init
  BY DEF Init, Pool!Init
<1>2. IInv /\ IInv' /\ [Next]_vars => [Pool!Next]_issued
  <2> SUFFICES ASSUME IInv, IInv', [Next]_vars PROVE Pool!Next \/ UNCHANGED issued
    OBVIOUS
  <2>1. ASSUME NEW r \in Requests, Handle(r) PROVE Pool!Next \/ UNCHANGED issued
    <3>1. CASE Answer(r)
      BY <3>1, AnswerGrants
    <3>2. CASE ~Answer(r)
      BY <2>1, <3>2
      DEF Handle, WireGuardConfig, XrayConfig, Revoke, Arrive, CheckExpiry, ReadAddress,
          NextVal, ReadCred, AddUser, Upsert, RemoveUser, DeleteRow, Saw, history
    <3> QED BY <3>1, <3>2
  <2> QED
    BY <2>1 DEF Next, DeleteDevice, Expire, XrayRestart, history, vars
<1> QED BY <1>1, <1>2, Invariance, PTL DEF Spec, ImplementsPool, Pool!Spec

-----------------------------------------------------------------------------
(***************************************************************************)
(* The configuration, the row and the Xray user of a slot agree.  While    *)
(* the slot is not mixed, one request at most works on it, so that what    *)
(* the request has read still holds at the statement that uses it (Stage), *)
(* up to the moment between the upsert of a new WireGuard key and its      *)
(* answer.  A revocation that nothing disturbed makes a mixed slot clean   *)
(* again: it has been alone and has removed the Xray user (Lonely).        *)
(***************************************************************************)

\* Statements belong to the protocols that have them.
Suits(q) ==
  /\ q.pc \in {"idle", "done"} => q.slot = None
  /\ q.pc \in {"address", "next"} => q.slot[2] = "wireguard"
  /\ q.pc \in {"cred", "add"} => q.slot[2] # "wireguard"
  /\ q.slot \in Slots /\ q.slot[2] # "wireguard" => q.addr = None

Suited ==
  /\ \A r \in Requests : Suits(req[r])
  /\ \A s \in Slots : IF s[2] = "wireguard" THEN xray[s] = None ELSE row[s].addr = None

\* What request q has read from the row of slot s, which is its own.
Stage(q, s) ==
  /\ q.pc = "next" => row[s].addr = None
  /\ q.pc = "upsert" => IF s[2] = "wireguard" THEN row[s].addr \in {None, q.addr}
                        ELSE row[s].cred = None
  /\ q.pc \in {"add", "answer"} => row[s].cred = q.cred /\ row[s].addr = q.addr
  /\ q.pc = "delete" => xray[s] = None

Matches(s) ==
  last[s] # NoConfig => last[s] = [cred |-> row[s].cred, addr |-> row[s].addr]

Renewing(s) == s[2] = "wireguard" /\ \E r \in Active(s) : req[r].pc = "answer"

Calm(s) ==
  /\ \A q, r \in Active(s) : q = r
  /\ \A r \in Active(s) : Stage(req[r], s)
  /\ xray[s] \in {row[s].cred, None}
  /\ Matches(s) \/ Renewing(s)

Lonely ==
  \A r \in Requests : req[r].slot \in Slots /\ req[r].alone =>
    /\ Active(req[r].slot) = {r}
    /\ req[r].pc = "delete" => xray[req[r].slot] = None

CalmInv == Suited /\ Lonely /\ \A s \in Slots : s \notin mixed => Calm(s)

\* The invariant of this section holds before the first request.
LEMMA InitCalm == Init => CalmInv
<1> SUFFICES ASSUME Init PROVE CalmInv
  OBVIOUS
<1>1. \A r \in Requests : req[r].slot = None /\ req[r].pc = "idle" /\ req[r].addr = None
  BY DEF Init, Idle
<1>2. \A s \in Slots : Active(s) = {}
  BY <1>1, SlotAssumption DEF Active
<1>3. \A s \in Slots : row[s].addr = None /\ xray[s] = None /\ last[s] = NoConfig
  BY DEF Init, NoRow
<1>4. Suited /\ Lonely
  BY <1>1, <1>3, SlotAssumption DEF Suited, Suits, Lonely
<1> QED BY <1>2, <1>3, <1>4 DEF CalmInv, Calm, Matches

\* A step of request r on its slot s, after which it is q.
Works(r, s, q) ==
  /\ req' = [req EXCEPT ![r] = q]
  /\ req[r].slot = s /\ q.slot \in {s, None}
  /\ q.alone => req[r].alone /\ q.slot = s
  /\ \A t \in Slots \ {s} : row'[t] = row[t] /\ xray'[t] = xray[t] /\ last'[t] = last[t]
  /\ \A t \in Slots \ {s} : t \notin mixed' => t \notin mixed

\* Such a step leaves the other slots alone; its own is up to it.
LEMMA WorkStep ==
  ASSUME TypeOK, CalmInv, NEW r \in Requests, NEW s \in Slots, NEW q, Works(r, s, q), Suits(q),
         IF s[2] = "wireguard" THEN xray'[s] = None ELSE row'[s].addr = None,
         q.alone /\ q.pc = "delete" => xray'[s] = None,
         s \notin mixed' =>
           /\ \A p \in Active(s) : p = r
           /\ q.slot = s => Stage(req[r], s)'
           /\ xray'[s] \in {row'[s].cred, None}
           /\ \/ Matches(s)'
              \/ q.slot = s /\ q.pc = "answer" /\ s[2] = "wireguard"
  PROVE  CalmInv'
<1> USE SlotAssumption
<1>1. req'[r] = q /\ \A p \in Requests \ {r} : req'[p] = req[p]
  BY DEF Works, TypeOK
<1>2. r \in Active(s) /\ \A t \in Slots \ {s} : r \notin Active(t)
  BY DEF Works, Active
<1>3. \A t \in Slots \ {s} : Active(t)' = Active(t)
  BY <1>1, <1>2 DEF Works, Active
<1>4. Active(s)' = IF q.slot = s THEN Active(s) ELSE Active(s) \ {r}
  BY <1>1, <1>2 DEF Works, Active
<1>5. Suited'
  BY <1>1 DEF CalmInv, Suited, Works
<1>6. Lonely'
  <2> SUFFICES ASSUME NEW p \in Requests, req'[p].slot \in Slots, req'[p].alone
               PROVE  /\ (Active(req[p].slot))' = {p}
                      /\ req'[p].pc = "delete" => xray'[req'[p].slot] = None
    BY DEF Lonely
  <2>1. CASE p = r
    <3>1. q.alone /\ req[r].alone /\ q.slot = s /\ req[r].slot = s
      BY <2>1, <1>1 DEF Works
    <3>2. Active(s)' = {r}
      BY <3>1, <1>4 DEF CalmInv, Lonely
    <3> QED BY <2>1, <1>1, <3>1, <3>2
  <2>2. CASE p # r
    <3>1. req'[p] = req[p] /\ Active(req[p].slot) = {p}
      BY <2>2, <1>1 DEF CalmInv, Lonely
    <3>2. req[p].slot # s
      BY <2>2, <3>1, <1>2
    <3> QED BY <2>2, <3>1, <3>2, <1>3 DEF CalmInv, Lonely, Works
  <2> QED BY <2>1, <2>2
<1>7. ASSUME NEW t \in Slots, t # s, t \notin mixed' PROVE Calm(t)'
  <2>1. Calm(t) /\ Active(t)' = Active(t) /\ \A p \in Active(t) : req'[p] = req[p] /\ p \in Requests
    BY <1>1, <1>2, <1>3, <1>7 DEF CalmInv, Works, Active
  <2>2. row'[t] = row[t] /\ xray'[t] = xray[t] /\ last'[t] = last[t]
    BY <1>7 DEF Works
  <2> QED BY <2>1, <2>2 DEF Calm, Stage, Matches, Renewing
<1>8. ASSUME s \notin mixed' PROVE Calm(s)'
  <2>1. CASE q.slot = s
    <3>1. Active(s)' = {r}
      BY <1>2, <1>4, <1>8, <2>1
    <3> QED BY <1>1, <1>8, <2>1, <3>1 DEF Calm, Renewing
  <2>2. CASE q.slot # s
    <3>1. Active(s)' = {}
      BY <1>2, <1>4, <1>8, <2>2
    <3> QED BY <1>8, <2>2, <3>1 DEF Calm
  <2> QED BY <2>1, <2>2
<1> QED BY <1>5, <1>6, <1>7, <1>8 DEF CalmInv

\* What a request that works on its slot knows.
LEMMA AtWork ==
  ASSUME IInv, CalmInv, NEW r \in Requests, req[r].pc \notin {"idle", "done"}
  PROVE  LET s == req[r].slot IN
           /\ s \in Slots /\ req[r] \in Request /\ Suits(req[r]) /\ Carries(req[r])
           /\ r \in Active(s)
           /\ s \notin mixed =>
                /\ Calm(s) /\ Active(s) = {r} /\ Stage(req[r], s)
                /\ (req[r].pc # "answer" => Matches(s))
<1> DEFINE s == req[r].slot
<1>1. s \in Slots /\ req[r] \in Request /\ Suits(req[r]) /\ Carries(req[r]) /\ r \in Active(s)
  BY DEF IInv, TypeOK, Request, Fits, Carries, CalmInv, Suited, Active
<1>2. ASSUME s \notin mixed
      PROVE  /\ Calm(s) /\ Active(s) = {r} /\ Stage(req[r], s)
             /\ (req[r].pc # "answer" => Matches(s))
  <2>1. Calm(s)
    BY <1>1, <1>2 DEF CalmInv
  <2>2. Active(s) = {r}
    BY <1>1, <2>1 DEF Calm
  <2> QED BY <1>1, <2>1, <2>2 DEF Calm, Renewing
<1> QED BY <1>1, <1>2

\* A request that has ended.
LEMMA Ended ==
  /\ Done.slot = None /\ Done.pc = "done" /\ Done.alone = FALSE /\ Done.addr = None /\ Suits(Done)
BY SlotAssumption DEF Done, Idle, Suits

\* A statement that changes nothing but its request.
LEMMA QuietStep ==
  ASSUME IInv, CalmInv, NEW r \in Requests, req[r].pc \notin {"idle", "done", "answer"},
         NEW q, req' = [req EXCEPT ![r] = q], UNCHANGED <<row, xray, last, mixed>>,
         q.slot \in {req[r].slot, None}, q.alone => req[r].alone /\ q.slot = req[r].slot,
         q.pc # "delete", Suits(q),
         q.slot # None /\ req[r].slot \notin mixed => Stage(q, req[r].slot)
  PROVE  CalmInv'
<1>0. PICK s \in Slots : s = req[r].slot
  BY AtWork
<1>1. /\ s \in Slots /\ req[r] \in Request
      /\ s \notin mixed => Calm(s) /\ Active(s) = {r} /\ Matches(s)
  BY <1>0, AtWork
<1>2. Works(r, s, q)
  BY <1>0 DEF Works
<1>3. IF s[2] = "wireguard" THEN xray'[s] = None ELSE row'[s].addr = None
  BY <1>1 DEF CalmInv, Suited
<1>4. req'[r] = q
  BY DEF IInv, TypeOK
<1>5. s \notin mixed' =>
        /\ \A p \in Active(s) : p = r
        /\ q.slot = s => Stage(req[r], s)'
        /\ xray'[s] \in {row'[s].cred, None} /\ Matches(s)'
  BY <1>0, <1>1, <1>4, SlotAssumption DEF Calm, Stage, Matches
<1> QED BY <1>1, <1>2, <1>3, <1>5, WorkStep DEF IInv

\* A request that ends and changes nothing else.
LEMMA EndStep ==
  ASSUME IInv, CalmInv, NEW r \in Requests, req[r].pc \notin {"idle", "done", "answer"},
         Refuse(r), UNCHANGED <<row, xray, last, mixed>>
  PROVE  CalmInv'
BY Ended, QuietStep DEF Refuse

\* A statement that fails, whether or not it says so, leaves its slot mixed.
LEMMA SpoilStep ==
  ASSUME IInv, CalmInv, NEW r \in Requests, NEW s \in Slots, req[r].slot = s, NEW q,
         Works(r, s, q), Suits(q), q.pc # "delete", s \in mixed',
         IF s[2] = "wireguard" THEN xray'[s] = None ELSE row'[s].addr = None
  PROVE  CalmInv'
BY WorkStep DEF IInv

\* A SELECT: the request goes on with the row, or its slot is mixed.
LEMMA SawStep ==
  ASSUME IInv, CalmInv, NEW r \in Requests, req[r].pc \notin {"idle", "done", "answer"},
         NEW q, req' = [req EXCEPT ![r] = q], UNCHANGED <<row, xray, last>>, NEW seen,
         mixed' = IF seen = row[req[r].slot] THEN mixed ELSE mixed \cup {req[r].slot},
         q.slot = req[r].slot, q.alone => req[r].alone, q.pc # "delete", Suits(q),
         seen = row[req[r].slot] => Stage(q, req[r].slot)
  PROVE  CalmInv'
<1>1. CASE seen = row[req[r].slot]
  BY <1>1, QuietStep
<1>2. CASE seen # row[req[r].slot]
  <2>0. PICK s \in Slots : s = req[r].slot
    BY AtWork
  <2>1. IF s[2] = "wireguard" THEN xray'[s] = None ELSE row'[s].addr = None
    BY DEF CalmInv, Suited
  <2>2. Works(r, s, q) /\ s \in mixed'
    BY <1>2, <2>0 DEF Works
  <2> QED BY <2>0, <2>1, <2>2, SpoilStep
<1> QED BY <1>1, <1>2

\* GetConfig up to the statement that stores the row.
LEMMA ReadStep ==
  ASSUME IInv, CalmInv, NEW r \in Requests,
         CheckExpiry(r) \/ ReadAddress(r) \/ NextVal(r) \/ ReadCred(r)
  PROVE  CalmInv'
<1> DEFINE me == req[r]
           s == me.slot
<1> USE DEF At
<1>1. /\ me.pc \in {"check", "address", "next", "cred"} /\ UNCHANGED <<row, xray, last>>
      /\ CheckExpiry(r) \/ NextVal(r) => UNCHANGED mixed
  BY DEF CheckExpiry, ReadAddress, NextVal, ReadCred, Saw, tables, history
<1>2. /\ s \in Slots /\ me \in Request /\ Suits(me) /\ s # None
      /\ s \notin mixed => Stage(me, s)
      /\ s[2] # "wireguard" => row[s].addr = None
  BY <1>1, AtWork, SlotAssumption DEF CalmInv, Suited
<1>e. CASE Refuse(r) /\ UNCHANGED mixed
  BY <1>1, <1>e, EndStep
<1>3. CASE CheckExpiry(r)
  <2>1. CASE Refuse(r)
    BY <2>1, <1>1, <1>3, <1>e
  <2>2. ASSUME NEW p \in {"address", "cred"}, Go(r, p), p = "address" <=> s[2] = "wireguard"
        PROVE  CalmInv'
    <3> DEFINE q == [me EXCEPT !.pc = p]
    <3>1. q.pc = p /\ q.slot = s /\ q.addr = me.addr /\ q.alone = me.alone
      BY <1>2 DEF Request
    <3>2. req' = [req EXCEPT ![r] = q]
      BY <2>2 DEF Go
    <3> HIDE DEF q
    <3>3. Suits(q) /\ Stage(q, s) /\ q.pc # "delete"
      BY <1>2, <2>2, <3>1 DEF Suits, Stage
    <3> QED BY <1>1, <1>3, <3>1, <3>2, <3>3, QuietStep
  <2> QED BY <1>3, <2>1, <2>2 DEF CheckExpiry
<1>4. CASE ReadAddress(r)
  <2>0. PICK seen \in Select(s) :
          /\ req' = [req EXCEPT ![r].pc = IF seen.addr = None THEN "next" ELSE "upsert",
                                ![r].addr = seen.addr, ![r].cred = r]
          /\ mixed' = IF seen = row[s] THEN mixed ELSE mixed \cup {s}
    BY <1>4 DEF ReadAddress, Saw
  <2> DEFINE a == seen.addr
             p == IF a = None THEN "next" ELSE "upsert"
             q == [me EXCEPT !.pc = p, !.addr = a, !.cred = r]
  <2>1. q.pc = p /\ q.slot = s /\ q.addr = a /\ q.alone = me.alone
    <3> HIDE DEF p, a
    <3> QED BY <1>2 DEF Request
  <2>2. req' = [req EXCEPT ![r] = q]
    BY <2>0
  <2> HIDE DEF q
  <2>3. s[2] = "wireguard"
    BY <1>2, <1>4 DEF ReadAddress, Suits
  <2>4. Suits(q) /\ q.pc # "delete" /\ (seen = row[s] => Stage(q, s))
    BY <1>2, <2>1, <2>3 DEF Suits, Stage
  <2> QED BY <1>1, <2>0, <2>1, <2>2, <2>4, SawStep
<1>5. CASE NextVal(r)
  <2>1. CASE Refuse(r)
    BY <2>1, <1>1, <1>5, <1>e
  <2>2. CASE req' = [req EXCEPT ![r].pc = "upsert", ![r].addr = seq']
    <3> DEFINE q == [me EXCEPT !.pc = "upsert", !.addr = seq']
    <3>1. q.pc = "upsert" /\ q.slot = s /\ q.addr = seq' /\ q.alone = me.alone
      BY <1>2 DEF Request
    <3>2. req' = [req EXCEPT ![r] = q]
      BY <2>2
    <3> HIDE DEF q
    <3>3. s[2] = "wireguard" /\ me.pc = "next"
      BY <1>2, <1>5 DEF NextVal, Suits
    <3>4. Suits(q) /\ q.pc # "delete" /\ (s \notin mixed => Stage(q, s))
      BY <1>2, <3>1, <3>3 DEF Suits, Stage
    <3> QED BY <1>1, <1>5, <3>1, <3>2, <3>4, QuietStep
  <2> QED BY <1>5, <2>1, <2>2 DEF NextVal
<1>6. CASE ReadCred(r)
  <2>0. PICK seen \in Select(s) :
          /\ req' = [req EXCEPT ![r].pc = IF seen.cred = None THEN "upsert" ELSE "add",
                                ![r].cred = IF seen.cred = None THEN r ELSE seen.cred]
          /\ mixed' = IF seen = row[s] THEN mixed ELSE mixed \cup {s}
    BY <1>6 DEF ReadCred, Saw
  <2> DEFINE c == seen.cred
             p == IF c = None THEN "upsert" ELSE "add"
             d == IF c = None THEN r ELSE c
             q == [me EXCEPT !.pc = p, !.cred = d]
  <2>1. q.pc = p /\ q.slot = s /\ q.addr = me.addr /\ q.cred = d /\ q.alone = me.alone
    <3> HIDE DEF p, d
    <3> QED BY <1>2 DEF Request
  <2>2. req' = [req EXCEPT ![r] = q]
    BY <2>0
  <2> HIDE DEF q
  <2>3. s[2] # "wireguard" /\ me.addr = None
    BY <1>2, <1>6 DEF ReadCred, Suits
  <2>4. Suits(q) /\ q.pc # "delete" /\ (seen = row[s] => Stage(q, s))
    BY <1>2, <2>1, <2>3 DEF Suits, Stage
  <2> QED BY <1>1, <2>0, <2>1, <2>2, <2>4, SawStep
<1> QED BY <1>3, <1>4, <1>5, <1>6

\* A slot's configuration names a credential.
LEMMA ConfigNames ==
  ASSUME TypeOK, NEW s \in Slots, last[s] # NoConfig
  PROVE  last[s].cred # None
BY Constants DEF TypeOK, Config

\* The row is stored.
LEMMA UpsertStep ==
  ASSUME IInv, CalmInv, NEW r \in Requests, Upsert(r)
  PROVE  CalmInv'
<1> DEFINE me == req[r]
<1>1. me.pc = "upsert" /\ UNCHANGED <<xray, last>>
  BY DEF Upsert, At
<1>0. PICK s \in Slots : s = me.slot
  BY <1>1, AtWork
<1>2. /\ s \in Slots /\ me \in Request /\ Suits(me) /\ s # None
      /\ s \notin mixed => Calm(s) /\ Active(s) = {r} /\ Stage(me, s) /\ Matches(s)
      /\ IF s[2] = "wireguard" THEN xray[s] = None ELSE row[s].addr = None /\ me.addr = None
  BY <1>0, <1>1, AtWork, SlotAssumption DEF CalmInv, Suited, Suits
<1> DEFINE p == IF s[2] = "wireguard" THEN "answer" ELSE "add"
           a == StoredAddress(row[s].addr, me.addr)
           new == [cred |-> me.cred, addr |-> a, expired |-> FALSE]
<1>3. CASE Refuse(r) /\ row' = row /\ mixed' = mixed
  BY <1>0, <1>1, <1>3, EndStep
<1>5. CASE row' = [row EXCEPT ![s] = new] /\ Refuse(r) /\ mixed' = mixed \cup {s}
  <2>1. row'[s].addr = a /\ \A t \in Slots \ {s} : row'[t] = row[t]
    BY <1>0, <1>2, <1>5 DEF IInv, TypeOK
  <2>2. Works(r, s, Done)
    BY <1>0, <1>1, <1>5, <2>1, Ended DEF Works, Refuse
  <2>3. IF s[2] = "wireguard" THEN xray'[s] = None ELSE row'[s].addr = None
    BY <1>1, <1>2, <2>1 DEF StoredAddress
  <2> QED BY <1>0, <1>5, <2>2, <2>3, Ended, SpoilStep
<1>4. CASE row' = [row EXCEPT ![s] = new] /\ Go(r, p) /\ mixed' = mixed
  <2> DEFINE q == [me EXCEPT !.pc = p]
  <2>1. q.pc = p /\ q.slot = s /\ q.addr = me.addr /\ q.cred = me.cred /\ q.alone = me.alone
    BY <1>0, <1>2 DEF Request
  <2>2. /\ req' = [req EXCEPT ![r] = q]
        /\ row' = [row EXCEPT ![s] = [cred |-> me.cred, addr |-> a, expired |-> FALSE]]
    BY <1>0, <1>4 DEF Go
  <2> HIDE DEF q
  <2>3. row'[s].cred = me.cred /\ row'[s].addr = a /\ \A t \in Slots \ {s} : row'[t] = row[t]
    BY <1>0, <1>2, <2>2 DEF IInv, TypeOK
  <2>4. Works(r, s, q)
    BY <1>0, <1>1, <1>4, <2>1, <2>2, <2>3 DEF Works
  <2>5. Suits(q)
    BY <1>0, <1>2, <2>1 DEF Suits
  <2>6. IF s[2] = "wireguard" THEN xray'[s] = None ELSE row'[s].addr = None
    BY <1>0, <1>1, <1>2, <2>3 DEF StoredAddress
  <2>7. req'[r] = q
    BY <1>0, <2>2 DEF IInv, TypeOK
  <2>8. ASSUME s \notin mixed
        PROVE  /\ Stage(req[r], s)' /\ xray'[s] \in {row'[s].cred, None}
               /\ Matches(s)' \/ (q.pc = "answer" /\ s[2] = "wireguard")
    <3>1. CASE s[2] = "wireguard"
      <4>1. a = me.addr
        BY <1>0, <1>1, <1>2, <2>8, <3>1 DEF Stage, StoredAddress
      <4> QED BY <1>0, <3>1, <4>1, <2>1, <2>3, <2>6, <2>7 DEF Stage
    <3>2. CASE s[2] # "wireguard"
      <4>1. row[s].cred = None /\ a = None /\ me.addr = None
        BY <1>0, <1>1, <1>2, <2>8, <3>2 DEF Stage, StoredAddress
      <4>2. last[s] = NoConfig
        BY <1>0, <1>2, <2>8, <4>1, ConfigNames DEF Matches, IInv
      <4>3. xray[s] = None
        BY <1>0, <1>2, <2>8, <4>1 DEF Calm
      <4> QED BY <1>0, <3>2, <4>1, <4>2, <4>3, <1>1, <2>1, <2>3, <2>7 DEF Stage, Matches
    <3> QED BY <1>0, <3>1, <3>2
  <2> QED BY <1>0, <1>1, <1>2, <1>4, <2>1, <2>4, <2>5, <2>6, <2>8, WorkStep DEF IInv
<1> QED BY <1>0, <1>3, <1>4, <1>5 DEF Upsert

\* The Xray user is added, or that failed.
LEMMA AddStep ==
  ASSUME IInv, CalmInv, NEW r \in Requests, AddUser(r)
  PROVE  CalmInv'
<1> DEFINE me == req[r]
           q == [me EXCEPT !.pc = "answer"]
<1>1. me.pc = "add" /\ UNCHANGED <<row, last>>
  BY DEF AddUser, At
<1>0. PICK s \in Slots : s = me.slot
  BY <1>1, AtWork
<1>2. /\ s \in Slots /\ me \in Request /\ Suits(me) /\ s # None /\ s[2] # "wireguard"
      /\ s \notin mixed => Calm(s) /\ Active(s) = {r} /\ Stage(me, s) /\ Matches(s)
      /\ row[s].addr = None
  BY <1>0, <1>1, AtWork, SlotAssumption DEF CalmInv, Suited, Suits
<1>3. q.pc = "answer" /\ q.slot = s /\ q.addr = me.addr /\ q.cred = me.cred /\ q.alone = me.alone
  BY <1>0, <1>2 DEF Request
<1>4. req' = [req EXCEPT ![r] = q]
  BY DEF AddUser, Go
<1> HIDE DEF q
<1>5. /\ \A t \in Slots \ {s} : xray'[t] = xray[t] /\ (t \notin mixed' => t \notin mixed)
      /\ s \notin mixed' => s \notin mixed /\ xray'[s] = IF xray[s] = None THEN me.cred ELSE xray[s]
  BY <1>0, <1>2 DEF AddUser, IInv, TypeOK
<1>6. Works(r, s, q)
  BY <1>0, <1>1, <1>3, <1>4, <1>5 DEF Works
<1>7. Suits(q)
  BY <1>0, <1>2, <1>3 DEF Suits
<1>8. req'[r] = q
  BY <1>0, <1>4 DEF IInv, TypeOK
<1>9. s \notin mixed' =>
        /\ \A p \in Active(s) : p = r
        /\ Stage(req[r], s)' /\ xray'[s] \in {row'[s].cred, None} /\ Matches(s)'
  BY <1>0, <1>1, <1>2, <1>3, <1>5, <1>8 DEF Stage, Matches, Calm
<1> QED BY <1>0, <1>1, <1>2, <1>3, <1>6, <1>7, <1>9, WorkStep DEF IInv

\* The configuration goes out, or is lost.
LEMMA AnswerStep ==
  ASSUME IInv, CalmInv, NEW r \in Requests, Answer(r)
  PROVE  CalmInv'
<1> DEFINE me == req[r]
<1>0. PICK s \in Slots : s = me.slot
  BY AtWork DEF Answer, At
<1>1. /\ me.pc = "answer" /\ UNCHANGED <<row, xray>> /\ req' = [req EXCEPT ![r] = Done]
      /\ \/ last' = [last EXCEPT ![s] = [cred |-> me.cred, addr |-> me.addr]] /\ mixed' = mixed
         \/ mixed' = mixed \cup {s} /\ last' = last
  BY <1>0, <1>0 DEF Answer, At, tables, Refuse
<1>2. /\ s \in Slots
      /\ s \notin mixed => Calm(s) /\ Active(s) = {r} /\ Stage(me, s)
      /\ IF s[2] = "wireguard" THEN xray[s] = None ELSE row[s].addr = None
  BY <1>0, <1>1, AtWork DEF CalmInv, Suited
<1>3. /\ \A t \in Slots \ {s} : last'[t] = last[t] /\ (t \notin mixed' => t \notin mixed)
      /\ s \notin mixed' => s \notin mixed /\ last'[s] = [cred |-> me.cred, addr |-> me.addr]
  BY <1>0, <1>1, <1>2 DEF IInv, TypeOK
<1>4. Works(r, s, Done)
  BY <1>0, <1>1, <1>3, Ended DEF Works
<1>5. s \notin mixed' =>
        /\ \A p \in Active(s) : p = r
        /\ xray'[s] \in {row'[s].cred, None} /\ Matches(s)'
  BY <1>0, <1>1, <1>2, <1>3 DEF Stage, Matches, Calm
<1> QED BY <1>0, <1>1, <1>2, <1>4, <1>5, Ended, WorkStep, SlotAssumption DEF IInv

\* Revoke: the Xray user.
LEMMA RemoveStep ==
  ASSUME IInv, CalmInv, NEW r \in Requests, RemoveUser(r)
  PROVE  CalmInv'
<1> DEFINE me == req[r]
<1>1. me.pc = "remove" /\ UNCHANGED <<row, last>>
  BY DEF RemoveUser, At
<1>0. PICK s \in Slots : s = me.slot
  BY <1>1, AtWork
<1>2. /\ s \in Slots /\ me \in Request /\ Suits(me) /\ s # None
      /\ s \notin mixed => Calm(s) /\ Active(s) = {r} /\ Matches(s)
      /\ IF s[2] = "wireguard" THEN xray[s] = None ELSE row[s].addr = None
  BY <1>0, <1>1, AtWork, SlotAssumption DEF CalmInv, Suited
<1>3. CASE /\ xray' = [xray EXCEPT ![s] = None] /\ Go(r, "delete") /\ mixed' = mixed
  <2> DEFINE q == [me EXCEPT !.pc = "delete"]
  <2>1. q.pc = "delete" /\ q.slot = s /\ q.addr = me.addr /\ q.alone = me.alone
    BY <1>0, <1>2 DEF Request
  <2>2. req' = [req EXCEPT ![r] = q]
    BY <1>0, <1>3 DEF Go
  <2> HIDE DEF q
  <2>3. xray'[s] = None /\ \A t \in Slots \ {s} : xray'[t] = xray[t]
    BY <1>0, <1>2, <1>3 DEF IInv, TypeOK
  <2>4. Works(r, s, q) /\ Suits(q)
    BY <1>0, <1>1, <1>2, <1>3, <2>1, <2>2, <2>3 DEF Works, Suits
  <2>5. req'[r] = q
    BY <1>0, <2>2 DEF IInv, TypeOK
  <2>6. s \notin mixed' =>
          /\ \A p \in Active(s) : p = r
          /\ Stage(req[r], s)' /\ xray'[s] \in {row'[s].cred, None} /\ Matches(s)'
    BY <1>0, <1>1, <1>2, <1>3, <2>1, <2>3, <2>5 DEF Stage, Matches
  <2>7. IF s[2] = "wireguard" THEN xray'[s] = None ELSE row'[s].addr = None
    BY <1>0, <1>1, <1>2, <2>3
  <2> QED BY <1>0, <1>2, <2>3, <2>4, <2>6, <2>7, WorkStep DEF IInv
<1>4. CASE /\ xray' = xray /\ mixed' = mixed \cup {s}
           /\ req' = [req EXCEPT ![r].pc = "delete", ![r].alone = FALSE]
  <2> DEFINE q == [me EXCEPT !.pc = "delete", !.alone = FALSE]
  <2>1. q.pc = "delete" /\ q.slot = s /\ q.addr = me.addr /\ q.alone = FALSE
    BY <1>0, <1>2 DEF Request
  <2>2. req' = [req EXCEPT ![r] = q]
    BY <1>0, <1>4
  <2> HIDE DEF q
  <2>3. Works(r, s, q) /\ Suits(q)
    BY <1>0, <1>1, <1>2, <1>4, <2>1, <2>2 DEF Works, Suits
  <2> QED BY <1>0, <1>1, <1>2, <1>4, <2>1, <2>3, WorkStep DEF IInv
<1> QED BY <1>0, <1>3, <1>4 DEF RemoveUser

\* Revoke: the row; if nothing disturbed the revocation the slot is clean.
LEMMA DeleteStep ==
  ASSUME IInv, CalmInv, NEW r \in Requests, DeleteRow(r)
  PROVE  CalmInv'
<1> DEFINE me == req[r]
<1>1. me.pc = "delete" /\ xray' = xray /\ req' = [req EXCEPT ![r] = Done]
  BY DEF DeleteRow, At, Refuse
<1>0. PICK s \in Slots : s = me.slot
  BY <1>1, AtWork
<1>2. /\ s \in Slots /\ r \in Active(s)
      /\ s \notin mixed => Calm(s) /\ Active(s) = {r} /\ Stage(me, s) /\ Matches(s)
      /\ IF s[2] = "wireguard" THEN xray[s] = None ELSE row[s].addr = None
  BY <1>0, <1>1, AtWork DEF CalmInv, Suited
<1>3. CASE UNCHANGED <<row, last, mixed>>
  BY <1>0, <1>1, <1>3, EndStep DEF Refuse
<1>4. CASE /\ row' = [row EXCEPT ![s] = NoRow] /\ last' = [last EXCEPT ![s] = NoConfig]
           /\ mixed' = IF me.alone THEN mixed \ {s} ELSE mixed
  <2>1. /\ row'[s].cred = None /\ row'[s].addr = None /\ last'[s] = NoConfig
        /\ \A t \in Slots \ {s} : row'[t] = row[t] /\ last'[t] = last[t] /\ (t \notin mixed' => t \notin mixed)
    BY <1>0, <1>2, <1>4 DEF IInv, TypeOK, NoRow
  <2>2. Works(r, s, Done)
    BY <1>0, <1>1, <2>1, Ended DEF Works
  <2>3. s \notin mixed' => (\A p \in Active(s) : p = r) /\ xray[s] = None
    <3>1. CASE me.alone
      BY <1>0, <3>1, <1>1, <1>2 DEF CalmInv, Lonely
    <3>2. CASE ~me.alone
      BY <1>0, <3>2, <1>1, <1>2, <1>4 DEF Stage
    <3> QED BY <1>0, <3>1, <3>2
  <2>4. Matches(s)'
    BY <1>0, <2>1 DEF Matches
  <2> QED BY <1>0, <1>1, <1>2, <2>1, <2>2, <2>3, <2>4, Ended, WorkStep, SlotAssumption DEF IInv
<1> QED BY <1>0, <1>3, <1>4 DEF DeleteRow

\* A request arrives: for a slot others work on, the slot is mixed from now on.
LEMMA ArriveStep ==
  ASSUME IInv, CalmInv, NEW r \in Requests, Arrive(r)
  PROVE  CalmInv'
<1> USE SlotAssumption
<1>1. PICK s \in Slots, o \in {"config", "revoke"}, p \in {"check", "remove"} :
        /\ req' = [q \in Requests |->
             IF q = r THEN [Idle EXCEPT !.op = o, !.pc = p, !.slot = s, !.alone = Active(s) = {}]
             ELSE IF q \in Active(s) THEN [req[q] EXCEPT !.alone = FALSE] ELSE req[q]]
        /\ mixed' = IF Active(s) = {} THEN mixed ELSE mixed \cup {s}
  BY DEF Arrive
<1>2. UNCHANGED <<row, xray, last>> /\ req[r].slot = None
  <2>1. req[r].pc = "idle"
    BY DEF Arrive, At
  <2> QED BY <2>1 DEF Arrive, tables, CalmInv, Suited, Suits
<1>3. /\ req'[r].pc = p /\ req'[r].slot = s /\ req'[r].addr = None
      /\ req'[r].alone => Active(s) = {}
  <2> DEFINE n == [Idle EXCEPT !.op = o, !.pc = p, !.slot = s, !.alone = Active(s) = {}]
  <2>1. n.pc = p /\ n.slot = s /\ n.addr = None /\ n.alone = (Active(s) = {})
    BY DEF Idle
  <2>2. req'[r] = n
    BY <1>1
  <2> QED BY <2>1, <2>2
<1>4. ASSUME NEW q \in Requests \ {r}
      PROVE  /\ req'[q].pc = req[q].pc /\ req'[q].slot = req[q].slot
             /\ req'[q].addr = req[q].addr /\ req'[q].cred = req[q].cred
             /\ req'[q].alone => req[q].alone /\ q \notin Active(s)
  <2>1. req[q] \in Request
    BY DEF IInv, TypeOK, Request
  <2> DEFINE n == [req[q] EXCEPT !.alone = FALSE]
  <2>2. n.pc = req[q].pc /\ n.slot = req[q].slot /\ n.addr = req[q].addr /\ n.cred = req[q].cred
        /\ n.alone = FALSE
    BY <2>1 DEF Request
  <2>3. req'[q] = IF q \in Active(s) THEN n ELSE req[q]
    BY <1>1
  <2> HIDE DEF n
  <2> QED BY <2>2, <2>3
<1>5. /\ Active(s)' = Active(s) \cup {r} /\ r \notin Active(s)
      /\ \A t \in Slots \ {s} : Active(t)' = Active(t) /\ r \notin Active(t)
  BY <1>2, <1>3, <1>4 DEF Active
<1>6. Suited'
  <2>1. \A q \in Requests : Suits(req[q])'
    BY <1>3, <1>4 DEF CalmInv, Suited, Suits
  <2> QED BY <1>2, <2>1 DEF CalmInv, Suited
<1>7. Lonely'
  <2> SUFFICES ASSUME NEW q \in Requests, req'[q].slot \in Slots, req'[q].alone
               PROVE  /\ (Active(req[q].slot))' = {q}
                      /\ req'[q].pc = "delete" => xray'[req'[q].slot] = None
    BY DEF Lonely
  <2>1. CASE q = r
    BY <2>1, <1>3, <1>5
  <2>2. CASE q # r
    <3>1. /\ req[q].alone /\ q \notin Active(s) /\ req'[q].slot = req[q].slot
          /\ req'[q].pc = req[q].pc /\ req[q].slot \in Slots
      BY <2>2, <1>4
    <3>2. req[q].slot # s
      BY <3>1 DEF Active
    <3> QED BY <3>1, <3>2, <1>2, <1>5 DEF CalmInv, Lonely
  <2> QED BY <2>1, <2>2
<1>8. ASSUME NEW t \in Slots, t # s, t \notin mixed' PROVE Calm(t)'
  <2>1. Calm(t)
    <3>1. t \notin mixed
      BY <1>1, <1>8
    <3> QED BY <3>1 DEF CalmInv
  <2>2. Active(t)' = Active(t) /\ r \notin Active(t)
    BY <1>5, <1>8
  <2>3. ASSUME NEW q \in Active(t)
        PROVE  req'[q].pc = req[q].pc /\ req'[q].addr = req[q].addr /\ req'[q].cred = req[q].cred
    <3>1. q \in Requests \ {r}
      BY <2>2, <2>3 DEF Active
    <3> QED BY <3>1, <1>4
  <2> QED BY <2>1, <2>2, <2>3, <1>2 DEF Calm, Stage, Matches, Renewing
<1>9. ASSUME s \notin mixed' PROVE Calm(s)'
  <2>1. Active(s) = {} /\ s \notin mixed /\ Active(s)' = {r}
    BY <1>1, <1>5, <1>9
  <2>2. Calm(s) /\ Matches(s)
    BY <2>1 DEF CalmInv, Calm, Renewing
  <2> QED BY <2>1, <2>2, <1>2, <1>3 DEF Calm, Stage, Matches
<1> QED BY <1>6, <1>7, <1>8, <1>9 DEF CalmInv

\* Steps of nobody's request.
LEMMA OutsideStep ==
  ASSUME IInv, CalmInv,
         \/ \E d \in Devices : DeleteDevice(d)
         \/ \E s \in Slots : Expire(s)
         \/ XrayRestart
         \/ UNCHANGED vars
  PROVE  CalmInv'
<1>1. /\ req' = req /\ last' = last /\ \A s \in Slots : xray'[s] \in {xray[s], None}
  BY DEF DeleteDevice, Expire, XrayRestart, vars, history
<1>2. \A s \in Slots :
        \/ row'[s].cred = row[s].cred /\ row'[s].addr = row[s].addr /\ (s \notin mixed' => s \notin mixed)
        \/ row'[s] = NoRow /\ s \in mixed'
  <2>1. ASSUME NEW d \in Devices, DeleteDevice(d), NEW s \in Slots
        PROVE  \/ row'[s] = row[s] /\ (s \notin mixed' => s \notin mixed)
               \/ row'[s] = NoRow /\ s \in mixed'
    BY <2>1 DEF DeleteDevice
  <2>2. ASSUME NEW t \in Slots, Expire(t), NEW s \in Slots
        PROVE  row'[s].cred = row[s].cred /\ row'[s].addr = row[s].addr /\ mixed' = mixed
    <3>1. row[t] \in Row /\ row' = [row EXCEPT ![t] = [@ EXCEPT !.expired = TRUE]] /\ mixed' = mixed
      BY <2>2 DEF Expire, IInv, TypeOK, NoRow, history
    <3>2. [row[t] EXCEPT !.expired = TRUE].addr = row[t].addr
          /\ [row[t] EXCEPT !.expired = TRUE].cred = row[t].cred
      BY <3>1 DEF Row
    <3> QED BY <3>1, <3>2 DEF IInv, TypeOK
  <2>3. CASE XrayRestart \/ UNCHANGED vars
    BY <2>3 DEF XrayRestart, vars, history
  <2> QED BY <2>1, <2>2, <2>3
<1>3. \A s \in Slots : Active(s)' = Active(s)
  BY <1>1 DEF Active
<1>4. Suited'
  BY <1>1, <1>2 DEF CalmInv, Suited, Suits, NoRow
<1>5. Lonely'
  BY <1>1, <1>3 DEF CalmInv, Lonely
<1>6. ASSUME NEW s \in Slots, s \notin mixed' PROVE Calm(s)'
  <2>1. /\ Calm(s) /\ row'[s].cred = row[s].cred /\ row'[s].addr = row[s].addr
        /\ Active(s)' = Active(s)
    BY <1>2, <1>3, <1>6 DEF CalmInv
  <2> QED BY <1>1, <1>6, <2>1 DEF Calm, Stage, Matches, Renewing
<1> QED BY <1>4, <1>5, <1>6 DEF CalmInv

\* The invariant of this section holds always.
LEMMA CalmInvariance == Spec => []CalmInv
<1>1. IInv /\ CalmInv /\ [Next]_vars => CalmInv'
  <2> SUFFICES ASSUME IInv, CalmInv, [Next]_vars PROVE CalmInv'
    OBVIOUS
  <2>1. ASSUME NEW r \in Requests, Handle(r) PROVE CalmInv'
    BY <2>1, ArriveStep, ReadStep, UpsertStep, AddStep, AnswerStep, RemoveStep, DeleteStep
    DEF Handle, WireGuardConfig, XrayConfig, Revoke
  <2> QED BY <2>1, OutsideStep DEF Next
<1> QED BY <1>1, InitCalm, Invariance, PTL DEF Spec

\* In a slot whose requests did not overlap and whose steps did not fail since
\* its last undisturbed revocation, the client's configuration is the row's.
THEOREM VpnConfigMatchesRow == Spec => []ConfigMatchesRow
<1>1. CalmInv => ConfigMatchesRow
  BY DEF CalmInv, ConfigMatchesRow, Quiet, Calm, Matches, Renewing
<1> QED BY <1>1, CalmInvariance, PTL

\* In such a slot Xray admits nobody but the holder of the row's credential,
\* across renewals, revocations, deleted devices and restarts of Xray.
THEOREM VpnXrayAdmitsRow == Spec => []XrayAdmitsRow
<1>1. CalmInv => XrayAdmitsRow
  BY DEF CalmInv, XrayAdmitsRow, Quiet, Calm
<1> QED BY <1>1, CalmInvariance, PTL
=============================================================================
