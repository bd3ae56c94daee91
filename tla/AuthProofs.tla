----------------------------- MODULE AuthProofs -----------------------------
(***************************************************************************)
(* Proofs about Auth, for every set of requests, users and devices: type   *)
(* correctness and the four invariants.                                    *)
(*                                                                         *)
(* None of the four is inductive, since each speaks of the answer and      *)
(* earlier statements decide it.  IInv says what a request has established *)
(* when it reaches a statement: its fields (Fits), that its user has an    *)
(* account (Present), that its device is its user's or was deleted under   *)
(* it (OnDevice), that nobody else registers its name (OneName), and what  *)
(* it is about to end (Aimed).  Issued says which requests name a token.   *)
(***************************************************************************)
EXTENDS Auth, FiniteSetTheorems, TLAPS

\* Requests, as in TypeOK.
Request ==
  [op : {"none", "register", "login", "logout", "revoke"},
   pc : {"idle", "name", "tx", "find", "device", "copy", "insert", "token",
         "proxy", "gateway", "auth", "confirm", "update", "mark",
         "delete", "ok", "refused"},
   user : Users \cup {None}, dev : Devices \cup {None},
   sess : Requests \cup {None}, via : BOOLEAN]

Logins == {"register", "login"}

\* The fields of a request, by the statement it has reached.
Carries(q) ==
  /\ q.pc \in {"name", "tx"} => q.op = "register"
  /\ q.pc \in {"find", "device", "copy", "insert", "proxy"} => q.op = "login"
  /\ q.pc = "token" => q.op \in Logins
  /\ q.pc \in {"name", "tx", "find", "device", "copy", "insert", "token", "proxy", "mark",
               "delete"}
       => q.user \in Users /\ q.dev \in Devices
  /\ q.pc \in {"gateway", "auth"} =>
       /\ q.op \in {"logout", "revoke"} /\ q.sess \in Requests
       /\ q.op = "revoke" => q.dev \in Devices
  /\ q.pc \in {"confirm", "update"} => q.op = "logout" /\ q.sess \in Requests
  /\ q.pc \in {"mark", "delete"} => q.op = "revoke"
  /\ q.pc = "ok" /\ q.op \in Logins => q.user \in Users /\ q.dev \in Devices

Fits == \A r \in Requests : Carries(req[r])

\* A token row was stored by a login or a registration that is past that.
Issued ==
  \A r \in Requests : tok[r] # "none" =>
    /\ req[r].pc \in {"proxy", "ok", "refused"} /\ req[r].op \in Logins
    /\ req[r].user \in Users /\ req[r].dev \in Devices

\* From the password check or the transaction on, the user has an account.
HasAccount(q) ==
  q.op \in Logins /\ q.pc \in {"device", "copy", "insert", "token", "proxy", "ok"}
    => q.user \in accounts

Present == \A r \in Requests : HasAccount(req[r])

\* Registrations past the transaction, or answered with success.
Named(q) == q.op = "register" /\ q.pc \in {"token", "ok"}

OneName ==
  \A q, r \in Requests :
    Named(req[q]) /\ Named(req[r]) /\ req[q].user = req[r].user => q = r

\* A login that is to store its token has its device, or lost it.
OnDevice ==
  \A r \in Requests : req[r].pc = "token" => owner[req[r].dev] = req[r].user \/ r \in crossed

\* AnsweredHasRow, from the statement that stores the row on.
HasRow ==
  \A s \in Requests : req[s].pc \in {"proxy", "ok"} /\ req[s].op \in Logins /\ tok[s] = "none" =>
    s \in failed \cup crossed

\* What a request aims at had a token; by the time it deletes a device, none of
\* the tokens it aimed at validates.
Aimed ==
  \A r \in Requests :
    /\ \A s \in aim[r] : tok[s] # "none"
    /\ req[r].pc \in {"confirm", "update"} => aim[r] = {req[r].sess}
    /\ req[r].pc = "mark" =>
         \A s \in aim[r] : req[s].user = req[r].user /\ req[s].dev = req[r].dev
    /\ req[r].pc = "delete" => \A s \in aim[r] : tok[s] # "live"

EndedGone == \A s \in ended : tok[s] \notin {"none", "live"}

IInv == /\ TypeOK /\ Fits /\ Issued /\ Present /\ OneName /\ OnDevice /\ HasRow
        /\ Aimed /\ EndedGone /\ SessionOnOwnDevice

\* None is no user, device or request.
LEMMA NoneIsOther == None \notin Users /\ None \notin Devices /\ None \notin Requests
BY NoneAssumption

\* The invariant holds with empty tables.
LEMMA InitIInv == Init => IInv
<1> SUFFICES ASSUME Init PROVE IInv
  OBVIOUS
<1>1. Idle \in Request /\ Idle.pc = "idle" /\ Idle.op = "none"
  BY DEF Idle, Request
<1>2. TypeOK
  BY <1>1 DEF Init, TypeOK, Request
<1>3. Fits /\ Issued /\ Present /\ OneName /\ OnDevice /\ HasRow
  BY <1>1 DEF Init, Fits, Carries, Issued, Present, HasAccount, OneName, Named, OnDevice, HasRow
<1>4. Aimed /\ EndedGone /\ SessionOnOwnDevice
  BY <1>1 DEF Init, Aimed, EndedGone, SessionOnOwnDevice, Valid
<1> QED BY <1>2, <1>3, <1>4 DEF IInv

-----------------------------------------------------------------------------
\* Writing a request that fits.
LEMMA PutRequest ==
  ASSUME TypeOK, Fits, NEW r \in Requests, NEW q \in Request, Carries(q),
         req' = [req EXCEPT ![r] = q]
  PROVE  /\ req' \in [Requests -> Request] /\ Fits'
         /\ req'[r] = q /\ \A p \in Requests \ {r} : req'[p] = req[p]
BY DEF TypeOK, Fits, Request

\* A request that a step of r may leave behind when it changes no other state a
\* later statement relies on.
Allowed(r, q) ==
  /\ q \in Request /\ Carries(q) /\ HasAccount(q)
  /\ tok[r] # "none" => /\ q.pc \in {"proxy", "ok", "refused"} /\ q.op = req[r].op
                        /\ q.user = req[r].user /\ q.dev = req[r].dev
  /\ Named(q) => Named(req[r]) /\ q.user = req[r].user
  /\ q.pc = "token" => owner[q.dev] = q.user
  /\ q.pc \in {"proxy", "ok"} /\ q.op \in Logins => tok[r] # "none" \/ r \in failed \cup crossed
  /\ q.pc \in {"confirm", "update"} => aim[r] = {q.sess}
  /\ q.pc \notin {"mark", "delete"}

\* A step that changes its request, and perhaps a proxy session, keeps IInv.
LEMMA QuietStep ==
  ASSUME IInv, NEW r \in Requests, NEW q, Allowed(r, q), req' = [req EXCEPT ![r] = q],
         proxy' \in [Requests -> {"none", "live", "expired"}],
         UNCHANGED <<accounts, owner, tok, history>>
  PROVE  IInv'
<1> USE DEF history
<1>1. /\ req' \in [Requests -> Request] /\ Fits'
      /\ req'[r] = q /\ \A p \in Requests \ {r} : req'[p] = req[p]
  BY PutRequest DEF IInv, Allowed
<1>2. TypeOK'
  BY <1>1 DEF IInv, TypeOK, Request
<1>3. Issued'
  BY <1>1 DEF IInv, Issued, Allowed
<1>4. Present'
  BY <1>1 DEF IInv, Present, HasAccount, Allowed
<1>5. OneName'
  BY <1>1 DEF IInv, OneName, Named, Allowed
<1>6. OnDevice' /\ HasRow'
  BY <1>1 DEF IInv, OnDevice, HasRow, Allowed
<1>7. Aimed' /\ EndedGone'
  <2>1. \A s \in Requests : tok[s] # "none" => req'[s].user = req[s].user /\ req'[s].dev = req[s].dev
    BY <1>1 DEF Allowed
  <2>2. aim \in [Requests -> SUBSET Requests]
    BY DEF IInv, TypeOK
  <2>3. Aimed'
    BY <1>1, <2>1, <2>2 DEF IInv, Aimed, Allowed
  <2> QED BY <2>3 DEF IInv, EndedGone
<1>8. SessionOnOwnDevice'
  BY <1>1 DEF IInv, SessionOnOwnDevice, Valid, Allowed
<1> QED BY <1>1, <1>2, <1>3, <1>4, <1>5, <1>6, <1>7, <1>8 DEF IInv

\* A request record after it goes on, or is refused.
LEMMA GoesOn ==
  ASSUME TypeOK, NEW r \in Requests,
         NEW p \in {"tx", "device", "insert", "copy", "token", "auth", "update", "delete", "ok",
                    "refused"}
  PROVE  LET q == [req[r] EXCEPT !.pc = p] IN
           /\ q \in Request /\ q.pc = p /\ q.op = req[r].op
           /\ q.user = req[r].user /\ q.dev = req[r].dev /\ q.sess = req[r].sess
<1>1. req[r] \in Request
  BY DEF TypeOK, Request
<1> QED BY <1>1 DEF Request

\* What a refused request is.
Refused(r) ==
  IF tok[r] = "none" THEN [Idle EXCEPT !.pc = "refused"] ELSE [req[r] EXCEPT !.pc = "refused"]

\* A request may be refused at any statement.
LEMMA RefusedAllowed ==
  ASSUME IInv, NEW r \in Requests
  PROVE  /\ Allowed(r, Refused(r)) /\ Refused(r).pc = "refused"
         /\ Refuse(r) => req' = [req EXCEPT ![r] = Refused(r)]
<1> DEFINE q == [Idle EXCEPT !.pc = "refused"]
<1>1. q \in Request /\ q.pc = "refused" /\ q.op = "none"
  BY DEF Idle, Request
<1>2. [req[r] EXCEPT !.pc = "refused"] \in Request
      /\ [req[r] EXCEPT !.pc = "refused"].pc = "refused"
      /\ [req[r] EXCEPT !.pc = "refused"].op = req[r].op
      /\ [req[r] EXCEPT !.pc = "refused"].user = req[r].user
      /\ [req[r] EXCEPT !.pc = "refused"].dev = req[r].dev
  BY GoesOn DEF IInv
<1>3. Refused(r) \in Request /\ Refused(r).pc = "refused"
  BY <1>1, <1>2 DEF Refused
<1>4. tok[r] # "none" => /\ Refused(r).op = req[r].op
                         /\ Refused(r).user = req[r].user /\ Refused(r).dev = req[r].dev
  BY <1>2 DEF Refused
<1>5. Allowed(r, Refused(r))
  BY <1>3, <1>4 DEF Allowed, Carries, HasAccount, Named
<1>6. Refuse(r) => req' = [req EXCEPT ![r] = Refused(r)]
  BY DEF Refuse, Refused
<1> QED BY <1>3, <1>5, <1>6

\* A refusal that changes nothing but a proxy session.
LEMMA RefuseStep ==
  ASSUME IInv, NEW r \in Requests, Refuse(r),
         proxy' \in [Requests -> {"none", "live", "expired"}],
         UNCHANGED <<accounts, owner, tok, history>>
  PROVE  IInv'
<1>1. Allowed(r, Refused(r)) /\ req' = [req EXCEPT ![r] = Refused(r)]
  BY RefusedAllowed
<1> QED BY <1>1, QuietStep

\* A token names only requests past storing it.
LEMMA NoToken ==
  ASSUME IInv, NEW r \in Requests, req[r].pc \notin {"proxy", "ok", "refused"}
  PROVE  tok[r] = "none"
BY DEF IInv, Issued

-----------------------------------------------------------------------------
\* Requests arrive.
LEMMA ArriveStep ==
  ASSUME IInv, NEW r \in Requests, Arrive(r) \/ \E s \in Requests : ArriveWith(r, s)
  PROVE  IInv'
<1>t. tok[r] = "none" /\ UNCHANGED <<accounts, owner, tok, history>>
      /\ proxy' \in [Requests -> {"none", "live", "expired"}]
  <2>1. req[r].pc = "idle" /\ UNCHANGED <<tables, history>>
    BY DEF Arrive, ArriveWith, At
  <2> QED BY <2>1, NoToken DEF tables, IInv, TypeOK
<1>1. ASSUME NEW u \in Users, NEW d \in Devices, NEW o \in Logins, NEW p \in {"name", "find"},
             o = "register" <=> p = "name",
             req' = [req EXCEPT ![r] = [Idle EXCEPT !.op = o, !.pc = p, !.user = u, !.dev = d]]
      PROVE  IInv'
  <2> DEFINE q == [Idle EXCEPT !.op = o, !.pc = p, !.user = u, !.dev = d]
  <2>1. q \in Request /\ q.op = o /\ q.pc = p /\ q.user = u /\ q.dev = d
    BY DEF Idle, Request, Logins
  <2> HIDE DEF q
  <2>2. Allowed(r, q)
    BY <1>t, <1>1, <2>1 DEF Allowed, Carries, HasAccount, Named, Logins
  <2> QED BY <1>t, <1>1, <2>2, QuietStep DEF q
<1>2. ASSUME NEW s \in Requests, NEW p \in {"gateway", "auth"},
             req' = [req EXCEPT ![r] = [Idle EXCEPT !.op = "logout", !.pc = p, !.sess = s]]
      PROVE  IInv'
  <2> DEFINE q == [Idle EXCEPT !.op = "logout", !.pc = p, !.sess = s]
  <2>1. q \in Request /\ q.op = "logout" /\ q.pc = p /\ q.sess = s
    BY DEF Idle, Request
  <2> HIDE DEF q
  <2>2. Allowed(r, q)
    BY <1>t, <2>1 DEF Allowed, Carries, HasAccount, Named, Logins
  <2> QED BY <1>t, <1>2, <2>2, QuietStep DEF q
<1>3. ASSUME NEW s \in Requests, NEW p \in {"gateway", "auth"}, NEW d \in Devices,
             req' = [req EXCEPT ![r] = [Idle EXCEPT !.op = "revoke", !.pc = p, !.sess = s, !.dev = d]]
      PROVE  IInv'
  <2> DEFINE q == [Idle EXCEPT !.op = "revoke", !.pc = p, !.sess = s, !.dev = d]
  <2>1. q \in Request /\ q.op = "revoke" /\ q.pc = p /\ q.sess = s /\ q.dev = d
    BY DEF Idle, Request
  <2> HIDE DEF q
  <2>2. Allowed(r, q)
    BY <1>t, <2>1 DEF Allowed, Carries, HasAccount, Named, Logins
  <2> QED BY <1>t, <1>3, <2>2, QuietStep DEF q
<1>4. CASE Arrive(r)
  BY <1>1, <1>4 DEF Arrive, Logins
<1>5. ASSUME NEW s \in Requests, ArriveWith(r, s) PROVE IInv'
  BY <1>2, <1>3, <1>5 DEF ArriveWith
<1> QED BY <1>4, <1>5

\* A request that goes on to a statement that reads or writes no more than it
\* has established.
LEMMA GoStep ==
  ASSUME IInv, NEW r \in Requests, NEW p \in {"tx", "device", "insert", "copy", "token", "auth", "update", "ok"},
         Go(r, p), proxy' \in [Requests -> {"none", "live", "expired"}],
         UNCHANGED <<accounts, owner, tok, history>>,
         \/ p = "tx" /\ req[r].pc = "name"
         \/ p = "device" /\ req[r].pc = "find" /\ req[r].user \in accounts
         \/ p \in {"insert", "copy"} /\ req[r].pc \in {"device", "copy"}
         \/ p = "token" /\ req[r].pc = "device" /\ owner[req[r].dev] = req[r].user
         \/ p = "auth" /\ req[r].pc = "gateway"
         \/ p = "update" /\ req[r].pc = "confirm"
         \/ p = "ok" /\ req[r].pc = "proxy"
  PROVE  IInv'
<1> DEFINE q == [req[r] EXCEPT !.pc = p]
<1>1. /\ q \in Request /\ q.pc = p /\ q.op = req[r].op
      /\ q.user = req[r].user /\ q.dev = req[r].dev /\ q.sess = req[r].sess
  <2>1. req[r] \in Request
    BY DEF IInv, TypeOK, Request
  <2> QED BY <2>1 DEF Request
<1>2. req' = [req EXCEPT ![r] = q]
  BY DEF Go
<1> HIDE DEF q
<1>3. Carries(req[r]) /\ HasAccount(req[r])
  BY DEF IInv, Fits, Present
<1>4. Carries(q) /\ HasAccount(q)
  BY <1>1, <1>3 DEF Carries, HasAccount, Logins
<1>5. tok[r] # "none" => p = "ok"
  BY NoToken
<1>6. ~Named(q)
  BY <1>1, <1>3 DEF Named, Carries, Logins
<1>7. p = "ok" => tok[r] # "none" \/ r \in failed \cup crossed
  BY <1>3 DEF IInv, HasRow, Carries, Logins
<1>8. p = "update" => aim[r] = {q.sess}
  BY <1>1 DEF IInv, Aimed
<1>9. Allowed(r, q)
  BY <1>1, <1>4, <1>5, <1>6, <1>7, <1>8 DEF Allowed
<1> QED BY <1>2, <1>9, QuietStep

\* The statements that only read, and the answer of the gateway.
LEMMA ReadStep ==
  ASSUME IInv, NEW r \in Requests,
         \/ Fail(r) \/ CheckName(r) \/ FindUser(r) \/ CheckDevice(r) \/ CopyKeys(r)
         \/ CreateProxySession(r) \/ Gateway(r) \/ Confirm(r)
  PROVE  IInv'
<1> USE DEF tables, history, At
<1>t. UNCHANGED <<accounts, owner, tok, history>>
  BY DEF Fail, CheckName, FindUser, CheckDevice, CopyKeys, CreateProxySession, Gateway, Confirm
<1>p. proxy' \in [Requests -> {"none", "live", "expired"}]
  <2>1. proxy \in [Requests -> {"none", "live", "expired"}]
    BY DEF IInv, TypeOK
  <2> QED BY <2>1 DEF Fail, CheckName, FindUser, CheckDevice, CopyKeys, CreateProxySession, Gateway,
                      Confirm
<1>r. CASE Refuse(r)
  BY <1>r, <1>t, <1>p, RefuseStep
<1>1. CASE Fail(r)
  BY <1>1, <1>r DEF Fail
<1>2. CASE CheckName(r)
  BY <1>2, <1>r, <1>t, <1>p, GoStep DEF CheckName
<1>3. CASE FindUser(r)
  BY <1>3, <1>r, <1>t, <1>p, GoStep DEF FindUser
<1>4. CASE CheckDevice(r)
  BY <1>4, <1>r, <1>t, <1>p, GoStep DEF CheckDevice, NewDevice
<1>5. CASE CopyKeys(r)
  BY <1>5, <1>r, <1>t, <1>p, GoStep DEF CopyKeys
<1>6. CASE CreateProxySession(r)
  BY <1>6, <1>r, <1>t, <1>p, GoStep DEF CreateProxySession
<1>7. CASE Gateway(r)
  BY <1>7, <1>r, <1>t, <1>p, GoStep DEF Gateway
<1>8. CASE Confirm(r)
  BY <1>8, <1>r, <1>t, <1>p, GoStep DEF Confirm
<1> QED BY <1>1, <1>2, <1>3, <1>4, <1>5, <1>6, <1>7, <1>8

-----------------------------------------------------------------------------
\* A device is inserted, by the transaction of a registration or by a login.
LEMMA OwnStep ==
  ASSUME IInv, NEW r \in Requests, NEW q \in Request, Carries(q), req' = [req EXCEPT ![r] = q],
         tok[r] = "none", NEW u \in Users, NEW d \in Devices,
         owner[d] = None, owner' = [owner EXCEPT ![d] = u],
         accounts' = accounts \cup {u}, UNCHANGED <<tok, proxy, history>>,
         q.pc = "refused" \/ (q.pc = "token" /\ q.user = u /\ q.dev = d),
         Named(q) => u \notin accounts
  PROVE  IInv'
<1> USE NoneIsOther DEF history
<1>1. /\ req' \in [Requests -> Request] /\ Fits'
      /\ req'[r] = q /\ \A p \in Requests \ {r} : req'[p] = req[p]
  BY PutRequest DEF IInv
<1>2. /\ owner'[d] = u /\ \A e \in Devices \ {d} : owner'[e] = owner[e]
      /\ \A e \in Devices : owner[e] \in Users => owner'[e] = owner[e]
  BY DEF IInv, TypeOK
<1>3. TypeOK'
  <2>1. owner' \in [Devices -> accounts' \cup {None}] /\ accounts' \subseteq Users
    BY DEF IInv, TypeOK
  <2> QED BY <1>1, <2>1 DEF IInv, TypeOK, Request
<1>4. Issued' /\ HasRow'
  BY <1>1 DEF IInv, Issued, HasRow
<1>5. Present'
  BY <1>1 DEF IInv, Present, HasAccount
<1>6. OneName'
  <2>1. \A p \in Requests \ {r} : Named(req[p]) => req[p].user \in accounts
    BY DEF IInv, Present, HasAccount, Named, Logins
  <2> QED BY <1>1, <2>1 DEF IInv, OneName, Named
<1>7. OnDevice'
  <2>1. \A p \in Requests \ {r} : req[p].pc = "token" => req[p].user \in Users /\ req[p].dev \in Devices
    BY DEF IInv, Fits, Carries
  <2> QED BY <1>1, <1>2, <2>1 DEF IInv, OnDevice
<1>8. Aimed' /\ EndedGone'
  <2>1. aim \in [Requests -> SUBSET Requests]
    BY DEF IInv, TypeOK
  <2>2. \A s \in Requests : tok[s] # "none" => req'[s] = req[s]
    BY <1>1
  <2>3. Aimed'
    BY <1>1, <2>1, <2>2 DEF IInv, Aimed
  <2> QED BY <2>3 DEF IInv, EndedGone
<1>9. SessionOnOwnDevice'
  <2> SUFFICES ASSUME NEW s \in Requests, Valid(s)
               PROVE  \/ owner'[req'[s].dev] = req'[s].user
                      \/ s \in crossed /\ owner'[req'[s].dev] # None
    BY DEF SessionOnOwnDevice, Valid
  <2>1. s # r /\ req'[s] = req[s] /\ req[s].dev \in Devices /\ req[s].user \in Users
    BY <1>1 DEF Valid, IInv, Issued
  <2>2. owner[req[s].dev] # None
    BY <2>1 DEF IInv, SessionOnOwnDevice
  <2> QED BY <2>1, <2>2, <1>2 DEF IInv, SessionOnOwnDevice
<1> QED BY <1>1, <1>3, <1>4, <1>5, <1>6, <1>7, <1>8, <1>9 DEF IInv

\* The transaction of Register and the INSERT INTO devices of Login.
LEMMA InsertStep ==
  ASSUME IInv, NEW r \in Requests, RegisterTx(r) \/ InsertDevice(r)
  PROVE  IInv'
<1> DEFINE me == req[r]
           q == [me EXCEPT !.pc = "token"]
<1> USE DEF At
<1>1. /\ tok[r] = "none" /\ me.user \in Users /\ me.dev \in Devices /\ me \in Request
      /\ RegisterTx(r) => me.op = "register"
      /\ InsertDevice(r) => me.op = "login" /\ me.user \in accounts
  <2>1. me.pc \in {"tx", "insert"} /\ (RegisterTx(r) => me.pc = "tx") /\ (InsertDevice(r) => me.pc = "insert")
    BY DEF RegisterTx, InsertDevice
  <2>2. Carries(me) /\ HasAccount(me)
    BY DEF IInv, Fits, Present
  <2>3. tok[r] = "none"
    BY <2>1, NoToken
  <2>4. me \in Request
    BY DEF IInv, TypeOK, Request
  <2> QED BY <2>1, <2>2, <2>3, <2>4 DEF Carries, HasAccount, Logins
<1>2. q \in Request /\ q.pc = "token" /\ q.op = me.op /\ q.user = me.user /\ q.dev = me.dev
  BY <1>1 DEF Request
<1>c. Carries(q)
  <2> HIDE DEF q
  <2> QED BY <1>1, <1>2 DEF Carries, Logins
<1>3. CASE UNCHANGED <<accounts, owner, tok, proxy, history>> /\ Refuse(r)
  BY <1>3, RefuseStep DEF IInv, TypeOK
<1>4. CASE /\ owner[me.dev] = None /\ owner' = [owner EXCEPT ![me.dev] = me.user]
           /\ accounts' = accounts \cup {me.user} /\ UNCHANGED <<tok, proxy, history>>
           /\ Go(r, "token") /\ (me.op = "register" => me.user \notin accounts)
  <2>1. req' = [req EXCEPT ![r] = q]
    BY <1>4 DEF Go
  <2> HIDE DEF q
  <2>2. Named(q) => me.user \notin accounts
    BY <1>2, <1>4 DEF Named
  <2> QED BY <1>1, <1>2, <1>c, <1>4, <2>1, <2>2, OwnStep
<1>5. CASE /\ owner[me.dev] = None /\ owner' = [owner EXCEPT ![me.dev] = me.user]
           /\ accounts' = accounts \cup {me.user} /\ UNCHANGED <<tok, proxy, history>> /\ Refuse(r)
  <2> DEFINE f == Refused(r)
  <2>1. f \in Request /\ Carries(f) /\ f.pc = "refused" /\ req' = [req EXCEPT ![r] = f] /\ ~Named(f)
    BY <1>5, RefusedAllowed DEF Allowed, Named
  <2> HIDE DEF f
  <2> QED BY <1>1, <1>5, <2>1, OwnStep
<1>6. CASE RegisterTx(r)
  BY <1>6, <1>1, <1>3, <1>4 DEF RegisterTx
<1>7. CASE InsertDevice(r)
  <2>1. accounts' = accounts /\ accounts = accounts \cup {me.user}
    BY <1>7, <1>1 DEF InsertDevice
  <2> QED BY <1>7, <2>1, <1>1, <1>3, <1>4, <1>5 DEF InsertDevice
<1> QED BY <1>6, <1>7

\* The token row, or none, and the answer.
LEMMA InsertTokenStep ==
  ASSUME IInv, NEW r \in Requests, InsertToken(r)
  PROVE  IInv'
<1> USE NoneIsOther DEF At
<1> DEFINE me == req[r]
<1>1. /\ tok[r] = "none" /\ me.pc = "token" /\ me \in Request /\ me.op \in Logins
      /\ me.user \in Users /\ me.dev \in Devices /\ me.user \in accounts
      /\ owner[me.dev] = me.user \/ r \in crossed
  <2>1. me.pc = "token"
    BY DEF InsertToken
  <2>2. tok[r] = "none"
    BY <2>1, NoToken
  <2>3. me \in Request
    BY DEF IInv, TypeOK, Request
  <2> QED BY <2>1, <2>2, <2>3 DEF IInv, Fits, Carries, Present, HasAccount, OnDevice
<1>2. PICK q \in Request :
        /\ req' = [req EXCEPT ![r] = q]
        /\ q.pc \in {"ok", "proxy"} /\ (q.pc = "proxy" => q.op = "login")
        /\ q.op = me.op /\ q.user = me.user /\ q.dev = me.dev
  <2> DEFINE a == [me EXCEPT !.pc = "ok"]
             b == [me EXCEPT !.pc = "proxy", !.via = TRUE]
  <2>1. /\ a \in Request /\ a.pc = "ok" /\ a.op = me.op /\ a.user = me.user /\ a.dev = me.dev
        /\ b \in Request /\ b.pc = "proxy" /\ b.op = me.op /\ b.user = me.user /\ b.dev = me.dev
    BY <1>1 DEF Request
  <2>2. \/ req' = [req EXCEPT ![r] = a]
        \/ req' = [req EXCEPT ![r] = b] /\ me.op = "login"
    BY DEF InsertToken, Go
  <2> HIDE DEF a, b
  <2> QED BY <2>1, <2>2
<1>3. Carries(q)
  BY <1>1, <1>2 DEF Carries, Logins
<1>4. /\ req' \in [Requests -> Request] /\ Fits'
      /\ req'[r] = q /\ \A p \in Requests \ {r} : req'[p] = req[p]
  BY <1>2, <1>3, PutRequest DEF IInv
<1>5. /\ tok' \in [Requests -> {"none", "live", "expired", "revoked", "gone"}]
      /\ \A p \in Requests \ {r} : tok'[p] = tok[p]
      /\ failed \subseteq failed' /\ failed' \subseteq Requests
      /\ \/ tok'[r] = "live" /\ owner[me.dev] # None
         \/ tok'[r] = "none" /\ owner[me.dev] = None
         \/ tok'[r] = "none" /\ r \in failed'
  BY <1>1 DEF InsertToken, IInv, TypeOK
<1>6. UNCHANGED <<accounts, owner, proxy, aim, ended, crossed>>
  BY DEF InsertToken
<1>7. TypeOK'
  BY <1>4, <1>5, <1>6 DEF IInv, TypeOK, Request
<1>8. Issued' /\ Present'
  BY <1>1, <1>2, <1>4, <1>5, <1>6 DEF IInv, Issued, Present, HasAccount
<1>9. OneName'
  BY <1>1, <1>2, <1>4 DEF IInv, OneName, Named
<1>10. OnDevice'
  BY <1>2, <1>4, <1>6 DEF IInv, OnDevice
<1>11. HasRow'
  BY <1>1, <1>4, <1>5, <1>6 DEF IInv, HasRow
<1>12. Aimed' /\ EndedGone'
  <2>1. aim \in [Requests -> SUBSET Requests] /\ ended \subseteq Requests
    BY DEF IInv, TypeOK
  <2>2. \A s \in Requests : tok[s] # "none" => s # r /\ req'[s] = req[s] /\ tok'[s] = tok[s]
    BY <1>1, <1>4, <1>5
  <2>3. Aimed'
    BY <1>2, <1>4, <1>6, <2>1, <2>2 DEF IInv, Aimed
  <2> QED BY <2>1, <2>2, <2>3, <1>6 DEF IInv, EndedGone
<1>13. SessionOnOwnDevice'
  BY <1>1, <1>2, <1>4, <1>5, <1>6 DEF IInv, SessionOnOwnDevice, Valid
<1> QED BY <1>4, <1>7, <1>8, <1>9, <1>10, <1>11, <1>12, <1>13 DEF IInv

-----------------------------------------------------------------------------
\* The session validates: what is to end is fixed.
LEMMA AuthenticateStep ==
  ASSUME IInv, NEW r \in Requests, Authenticate(r)
  PROVE  IInv'
<1> DEFINE me == req[r]
           s == me.sess
<1> USE DEF At, tables
<1>1. /\ me.pc = "auth" /\ tok[r] = "none" /\ me \in Request /\ s \in Requests
      /\ me.op \in {"logout", "revoke"} /\ (me.op = "revoke" => me.dev \in Devices)
  <2>1. me.pc = "auth"
    BY DEF Authenticate
  <2>2. tok[r] = "none"
    BY <2>1, NoToken
  <2>3. me \in Request
    BY DEF IInv, TypeOK, Request
  <2> QED BY <2>1, <2>2, <2>3 DEF IInv, Fits, Carries
<1>2. CASE ~Valid(s)
  <2>1. Refuse(r) /\ UNCHANGED <<accounts, owner, tok, proxy, history>>
    BY <1>2 DEF Authenticate, history
  <2> QED BY <2>1, RefuseStep DEF IInv, TypeOK
<1>3. CASE Valid(s)
  <2> DEFINE p == IF me.op = "logout" THEN "confirm" ELSE "mark"
             q == [me EXCEPT !.user = req[s].user, !.pc = p]
             A == IF me.op = "logout" THEN {s} ELSE SessionsOf(req[s].user, me.dev)
  <2>1. req' = [req EXCEPT ![r] = q] /\ aim' = [aim EXCEPT ![r] = A]
    BY <1>3 DEF Authenticate
  <2>2. req[s].user \in Users /\ tok[s] # "none" /\ s # r
    BY <1>1, <1>3 DEF Valid, IInv, Issued
  <2>3. /\ q \in Request /\ q.pc = p /\ q.user = req[s].user
        /\ q.op = me.op /\ q.dev = me.dev /\ q.sess = s
    BY <1>1, <2>2 DEF Request
  <2> HIDE DEF q
  <2>4. Carries(q)
    BY <1>1, <2>2, <2>3 DEF Carries, Logins
  <2>5. /\ req' \in [Requests -> Request] /\ Fits'
        /\ req'[r] = q /\ \A o \in Requests \ {r} : req'[o] = req[o]
    BY <2>1, <2>3, <2>4, PutRequest DEF IInv
  <2>6. /\ A \subseteq Requests /\ (\A t \in A : tok[t] = "live")
        /\ me.op = "logout" => A = {s}
        /\ me.op = "revoke" => \A t \in A : req[t].user = req[s].user /\ req[t].dev = me.dev
    BY <1>1, <1>3 DEF SessionsOf, Valid
  <2> HIDE DEF A
  <2>7. /\ aim' \in [Requests -> SUBSET Requests] /\ aim'[r] = A
        /\ \A o \in Requests \ {r} : aim'[o] = aim[o]
    BY <2>1, <2>6 DEF IInv, TypeOK
  <2>8. UNCHANGED <<accounts, owner, tok, proxy, ended, failed, crossed>>
    BY DEF Authenticate
  <2>9. TypeOK'
    BY <2>5, <2>7, <2>8 DEF IInv, TypeOK, Request
  <2>10. Issued' /\ Present' /\ HasRow'
    BY <1>1, <2>3, <2>5, <2>8 DEF IInv, Issued, Present, HasAccount, HasRow, Logins
  <2>11. OneName' /\ OnDevice'
    BY <1>1, <2>3, <2>5, <2>8 DEF IInv, OneName, Named, OnDevice
  <2>12. Aimed'
    <3>1. \A t \in Requests : tok[t] # "none" => req'[t] = req[t]
      BY <1>1, <2>5
    <3>2. \A o \in Requests : aim[o] \subseteq Requests
      BY DEF IInv, TypeOK
    <3> SUFFICES ASSUME NEW o \in Requests
                 PROVE  /\ \A t \in aim'[o] : tok[t] # "none"
                        /\ req'[o].pc \in {"confirm", "update"} => aim'[o] = {req'[o].sess}
                        /\ req'[o].pc = "mark" =>
                             \A t \in aim'[o] : req'[t].user = req'[o].user /\ req'[t].dev = req'[o].dev
                        /\ req'[o].pc = "delete" => \A t \in aim'[o] : tok[t] # "live"
      BY <2>8 DEF Aimed
    <3>3. CASE o = r
      BY <3>1, <3>3, <1>1, <2>3, <2>5, <2>6, <2>7
    <3>4. CASE o # r
      BY <3>1, <3>2, <3>4, <2>5, <2>7 DEF IInv, Aimed
    <3> QED BY <3>3, <3>4
  <2>13. EndedGone'
    BY <2>8 DEF IInv, EndedGone
  <2>14. SessionOnOwnDevice'
    BY <1>1, <2>5, <2>8 DEF IInv, SessionOnOwnDevice, Valid
  <2> QED BY <2>5, <2>9, <2>10, <2>11, <2>12, <2>13, <2>14 DEF IInv
<1> QED BY <1>2, <1>3

\* A step that only ends tokens: none comes up, none becomes live.
Ends ==
  \A s \in Requests : /\ tok'[s] = "none" <=> tok[s] = "none"
                      /\ tok'[s] = "live" => tok[s] = "live"

\* Ending tokens, with or without a device, in a step of a logout or a revocation.
LEMMA EndStep ==
  ASSUME IInv, Ends, tok' \in [Requests -> {"none", "live", "expired", "revoked", "gone"}],
         proxy' \in [Requests -> {"none", "live", "expired"}],
         UNCHANGED <<accounts, aim, failed>>,
         owner' \in [Devices -> accounts \cup {None}],
         crossed \subseteq crossed', crossed' \subseteq Requests,
         \A s \in Requests : /\ req[s].dev \in Devices /\ owner'[req[s].dev] # owner[req[s].dev]
                             => /\ tok'[s] # "live"
                                /\ req[s].pc = "token" => s \in crossed',
         req' \in [Requests -> Request], Fits', ended' \subseteq Requests,
         \A s \in Requests :
           \/ req'[s] = req[s]
           \/ /\ tok[s] = "none" /\ req[s].op \notin Logins /\ req'[s].op = req[s].op
              /\ req'[s].user = req[s].user /\ req'[s].dev = req[s].dev
              /\ \/ req'[s].pc = "ok"
                 \/ req'[s].pc = "delete" /\ \A t \in aim[s] : tok'[t] # "live",
         \A s \in ended' : s \in ended \/ (tok'[s] \notin {"none", "live"})
  PROVE  IInv'
<1>1. TypeOK'
  BY DEF IInv, TypeOK, Request
<1>2. Issued' /\ Present' /\ HasRow'
  BY DEF IInv, Issued, Present, HasAccount, HasRow, Ends, Logins
<1>3. OneName'
  BY DEF IInv, OneName, Named, Logins
<1>4. OnDevice'
  <2>1. \A s \in Requests : req[s].pc = "token" => req[s].dev \in Devices
    BY DEF IInv, Fits, Carries
  <2> QED BY <2>1 DEF IInv, OnDevice
<1>5. Aimed' /\ EndedGone'
  <2>1. \A s \in Requests : tok[s] # "none" => req'[s] = req[s]
    OBVIOUS
  <2>2. \A o \in Requests : aim[o] \subseteq Requests
    BY DEF IInv, TypeOK
  <2>3. Aimed'
    BY <2>1, <2>2 DEF IInv, Aimed, Ends
  <2>4. EndedGone'
    <3>1. ended \subseteq Requests
      BY DEF IInv, TypeOK
    <3> QED BY <3>1 DEF IInv, EndedGone, Ends
  <2> QED BY <2>3, <2>4
<1>6. SessionOnOwnDevice'
  <2> SUFFICES ASSUME NEW s \in Requests, tok'[s] = "live"
               PROVE  \/ owner'[req'[s].dev] = req'[s].user
                      \/ s \in crossed' /\ owner'[req'[s].dev] # None
    BY DEF SessionOnOwnDevice, Valid
  <2>1. tok[s] = "live" /\ req'[s] = req[s] /\ req[s].dev \in Devices
    BY DEF Ends, IInv, Issued
  <2>2. owner'[req[s].dev] = owner[req[s].dev]
    BY <2>1
  <2> QED BY <2>1, <2>2 DEF IInv, SessionOnOwnDevice, Valid
<1> QED BY <1>1, <1>2, <1>3, <1>4, <1>5, <1>6 DEF IInv

\* Logout revokes the session it validated again.
LEMMA UpdateStep ==
  ASSUME IInv, NEW r \in Requests, Update(r)
  PROVE  IInv'
<1> DEFINE me == req[r]
           q == [me EXCEPT !.pc = "ok"]
<1>1. /\ me.pc = "update" /\ tok[r] = "none" /\ me.op = "logout" /\ me.sess \in Requests
      /\ aim[r] = {me.sess} /\ tok[me.sess] # "none"
  <2>1. me.pc = "update"
    BY DEF Update, At
  <2>2. tok[r] = "none"
    BY <2>1, NoToken
  <2> QED BY <2>1, <2>2 DEF IInv, Fits, Carries, Aimed
<1>2. q \in Request /\ q.pc = "ok" /\ q.op = me.op /\ q.user = me.user /\ q.dev = me.dev
  BY GoesOn DEF IInv
<1>3. req' = [req EXCEPT ![r] = q]
  BY DEF Update, Go
<1> HIDE DEF q
<1>4. Carries(q)
  BY <1>1, <1>2 DEF Carries, Logins
<1>5. /\ req' \in [Requests -> Request] /\ Fits'
      /\ req'[r] = q /\ \A o \in Requests \ {r} : req'[o] = req[o]
  BY <1>2, <1>3, <1>4, PutRequest DEF IInv
<1>6. /\ Ends /\ tok' \in [Requests -> {"none", "live", "expired", "revoked", "gone"}]
      /\ tok'[me.sess] \notin {"none", "live"}
  BY <1>1 DEF Update, Revoked, Ends, IInv, TypeOK
<1>7. UNCHANGED <<accounts, owner, proxy, aim, failed, crossed>> /\ ended' = ended \cup {me.sess}
  BY <1>1 DEF Update
<1>8. /\ proxy \in [Requests -> {"none", "live", "expired"}] /\ ended \subseteq Requests
      /\ owner \in [Devices -> accounts \cup {None}] /\ crossed \subseteq Requests
  BY DEF IInv, TypeOK
<1>9. \A s \in Requests :
        \/ req'[s] = req[s]
        \/ /\ tok[s] = "none" /\ req[s].op \notin Logins /\ req'[s].op = req[s].op
           /\ req'[s].user = req[s].user /\ req'[s].dev = req[s].dev /\ req'[s].pc = "ok"
  BY <1>1, <1>2, <1>5 DEF Logins
<1> QED BY <1>1, <1>5, <1>6, <1>7, <1>8, <1>9, EndStep

\* RevokeDevice revokes the tokens of the user on the device.
LEMMA MarkStep ==
  ASSUME IInv, NEW r \in Requests, Mark(r)
  PROVE  IInv'
<1> DEFINE me == req[r]
           q == [me EXCEPT !.pc = "delete"]
<1>1. /\ me.pc = "mark" /\ tok[r] = "none" /\ me.op = "revoke"
      /\ me.user \in Users /\ me.dev \in Devices
      /\ \A t \in aim[r] : t \in Requests /\ req[t].user = me.user /\ req[t].dev = me.dev
  <2>1. me.pc = "mark"
    BY DEF Mark, At
  <2>2. tok[r] = "none"
    BY <2>1, NoToken
  <2>3. aim[r] \subseteq Requests
    BY DEF IInv, TypeOK
  <2> QED BY <2>1, <2>2, <2>3 DEF IInv, Fits, Carries, Aimed
<1>2. q \in Request /\ q.pc = "delete" /\ q.op = me.op /\ q.user = me.user /\ q.dev = me.dev
  BY GoesOn DEF IInv
<1>3. req' = [req EXCEPT ![r] = q]
  BY DEF Mark, Go
<1> HIDE DEF q
<1>4. Carries(q)
  BY <1>1, <1>2 DEF Carries, Logins
<1>5. /\ req' \in [Requests -> Request] /\ Fits'
      /\ req'[r] = q /\ \A o \in Requests \ {r} : req'[o] = req[o]
  BY <1>2, <1>3, <1>4, PutRequest DEF IInv
<1>6. /\ Ends /\ tok' \in [Requests -> {"none", "live", "expired", "revoked", "gone"}]
      /\ \A t \in aim[r] : tok'[t] # "live"
  BY <1>1 DEF Mark, Revoked, Ends, IInv, TypeOK
<1>7. UNCHANGED <<accounts, owner, proxy, aim, failed, crossed, ended>>
  BY DEF Mark, history
<1>8. /\ proxy \in [Requests -> {"none", "live", "expired"}] /\ ended \subseteq Requests
      /\ owner \in [Devices -> accounts \cup {None}] /\ crossed \subseteq Requests
  BY DEF IInv, TypeOK
<1>9. \A s \in Requests :
        \/ req'[s] = req[s]
        \/ /\ tok[s] = "none" /\ req[s].op \notin Logins /\ req'[s].op = req[s].op
           /\ req'[s].user = req[s].user /\ req'[s].dev = req[s].dev
           /\ req'[s].pc = "delete" /\ \A t \in aim[s] : tok'[t] # "live"
  BY <1>1, <1>2, <1>5, <1>6 DEF Logins
<1> QED BY <1>5, <1>6, <1>7, <1>8, <1>9, EndStep

\* RevokeDevice deletes the device, and with it the tokens stored since.
LEMMA DeleteStep ==
  ASSUME IInv, NEW r \in Requests, DeleteDevice(r)
  PROVE  IInv'
<1> DEFINE me == req[r]
           q == [me EXCEPT !.pc = "ok"]
<1>1. /\ me.pc = "delete" /\ tok[r] = "none" /\ me.op = "revoke"
      /\ me.user \in Users /\ me.dev \in Devices
      /\ \A t \in aim[r] : t \in Requests /\ tok[t] \notin {"none", "live"}
  <2>1. me.pc = "delete"
    BY DEF DeleteDevice, At
  <2>2. tok[r] = "none"
    BY <2>1, NoToken
  <2>3. aim[r] \subseteq Requests
    BY DEF IInv, TypeOK
  <2> QED BY <2>1, <2>2, <2>3 DEF IInv, Fits, Carries, Aimed
<1>2. q \in Request /\ q.pc = "ok" /\ q.op = me.op /\ q.user = me.user /\ q.dev = me.dev
  BY GoesOn DEF IInv
<1>3. req' = [req EXCEPT ![r] = q]
  BY DEF DeleteDevice, Go
<1> HIDE DEF q
<1>4. Carries(q)
  BY <1>1, <1>2 DEF Carries, Logins
<1>5. /\ req' \in [Requests -> Request] /\ Fits'
      /\ req'[r] = q /\ \A o \in Requests \ {r} : req'[o] = req[o]
  BY <1>2, <1>3, <1>4, PutRequest DEF IInv
<1>6. /\ Ends /\ tok' \in [Requests -> {"none", "live", "expired", "revoked", "gone"}]
      /\ owner' \in [Devices -> accounts \cup {None}]
      /\ \A e \in Devices : owner'[e] # owner[e] =>
           e = me.dev /\ \A s \in Requests : req[s].dev = e => tok'[s] # "live"
  BY <1>1 DEF DeleteDevice, Ends, IInv, TypeOK
<1>7. /\ UNCHANGED <<accounts, proxy, aim, failed>> /\ ended' = ended \cup aim[r]
      /\ crossed \subseteq crossed' /\ crossed' \subseteq Requests
      /\ owner' # owner => UnderWay(me.dev) \subseteq crossed'
  BY DEF DeleteDevice, UnderWay, IInv, TypeOK
<1>8. /\ proxy \in [Requests -> {"none", "live", "expired"}] /\ ended \subseteq Requests
  BY DEF IInv, TypeOK
<1>9. \A s \in Requests :
        \/ req'[s] = req[s]
        \/ /\ tok[s] = "none" /\ req[s].op \notin Logins /\ req'[s].op = req[s].op
           /\ req'[s].user = req[s].user /\ req'[s].dev = req[s].dev /\ req'[s].pc = "ok"
  BY <1>1, <1>2, <1>5 DEF Logins
<1>10. ASSUME NEW s \in Requests, req[s].dev \in Devices, owner'[req[s].dev] # owner[req[s].dev]
       PROVE  tok'[s] # "live" /\ (req[s].pc = "token" => s \in crossed')
  <2>1. req[s].dev = me.dev /\ tok'[s] # "live" /\ owner' # owner
    BY <1>6, <1>10
  <2>2. req[s].pc = "token" => req[s].op \in {"login", "register"}
    BY DEF IInv, Fits, Carries, Logins
  <2> QED BY <2>1, <2>2, <1>7 DEF UnderWay, At
<1>11. \A s \in ended' : s \in ended \/ tok'[s] \notin {"none", "live"}
  BY <1>1, <1>6, <1>7 DEF Ends
<1>12. ended' \subseteq Requests
  BY <1>1, <1>7, <1>8
<1> QED BY <1>5, <1>6, <1>7, <1>8, <1>9, <1>10, <1>11, <1>12, EndStep

\* Time passes, and expired rows are deleted.
LEMMA TimeStep ==
  ASSUME IInv, Cleanup \/ \E s \in Requests : Expire(s)
  PROVE  IInv'
<1>1. UNCHANGED <<accounts, owner, req, aim, ended, failed, crossed>>
  BY DEF Cleanup, Expire, history
<1>2. /\ Ends /\ tok' \in [Requests -> {"none", "live", "expired", "revoked", "gone"}]
      /\ proxy' \in [Requests -> {"none", "live", "expired"}]
  <2>1. CASE Cleanup
    BY <2>1 DEF Cleanup, Ends, IInv, TypeOK
  <2>2. ASSUME NEW s \in Requests, Expire(s)
        PROVE  /\ Ends /\ tok' \in [Requests -> {"none", "live", "expired", "revoked", "gone"}]
               /\ proxy' \in [Requests -> {"none", "live", "expired"}]
    BY <2>2 DEF Expire, Ends, IInv, TypeOK
  <2> QED BY <2>1, <2>2
<1>3. /\ owner \in [Devices -> accounts \cup {None}] /\ crossed \subseteq Requests
      /\ ended \subseteq Requests /\ req \in [Requests -> Request]
  BY DEF IInv, TypeOK, Request
<1>4. Fits'
  BY <1>1 DEF IInv, Fits, Carries
<1> QED BY <1>1, <1>2, <1>3, <1>4, EndStep

-----------------------------------------------------------------------------
\* Every step keeps the invariant.
LEMMA NextIInv == IInv /\ [Next]_vars => IInv'
<1> SUFFICES ASSUME IInv, [Next]_vars PROVE IInv'
  OBVIOUS
<1>1. CASE UNCHANGED vars
  BY <1>1 DEF vars, IInv, TypeOK, Fits, Carries, Issued, Present, HasAccount, OneName, Named,
     OnDevice, HasRow, Aimed, EndedGone, SessionOnOwnDevice, Valid
<1>2. ASSUME NEW r \in Requests, Handle(r) PROVE IInv'
  BY <1>2, ArriveStep, ReadStep, InsertStep, InsertTokenStep, AuthenticateStep, UpdateStep,
     MarkStep, DeleteStep, TimeStep
  DEF Handle, Register, Login, Logout, RevokeDevice
<1> QED BY <1>1, <1>2, TimeStep DEF Next

\* The inductive invariant, from which the theorems follow.
LEMMA Invariance == Spec => []IInv
BY InitIInv, NextIInv, PTL DEF Spec

\* The tables and requests of the auth service stay well typed; in particular a
\* row in devices belongs to a user with an account (auth.go, migrations).
THEOREM AuthTypeCorrect == Spec => []TypeOK
BY Invariance, PTL DEF IInv

\* However registrations overlap between the check and the transaction, a name
\* goes to one of them (auth.go: Register).
THEOREM AuthNameGivenOnce == Spec => []NameGivenOnce
<1>1. IInv => NameGivenOnce
  <2> SUFFICES ASSUME IInv, NEW u \in Users
               PROVE  Cardinality({r \in Requests : req[r].op = "register" /\ At(r, "ok")
                                                     /\ req[r].user = u}) <= 1
    BY DEF NameGivenOnce
  <2> DEFINE S == {r \in Requests : req[r].op = "register" /\ At(r, "ok") /\ req[r].user = u}
  <2>1. \A q, r \in S : q = r
    BY DEF IInv, OneName, Named, At
  <2> HIDE DEF S
  <2>2. Cardinality(S) <= 1
    <3>1. CASE S = {}
      BY <3>1, FS_EmptySet
    <3>2. CASE S # {}
      <4>1. PICK r \in S : S = {r}
        BY <2>1, <3>2
      <4>2. Cardinality({r}) = 1
        BY FS_Singleton
      <4> QED BY <4>1, <4>2
    <3> QED BY <3>1, <3>2
  <2> QED BY <2>2 DEF S
<1> QED BY <1>1, Invariance, PTL

\* A session that validates is on a device of its user, or its login crossed the
\* deletion of that device (auth.go: Login, RevokeDevice).
THEOREM AuthSessionOnOwnDevice == Spec => []SessionOnOwnDevice
BY Invariance, PTL DEF IInv

\* A session that a logout or a revocation has ended never validates again
\* (auth.go: RevokeToken, RevokeDevice, CleanupExpiredTokens).
THEOREM AuthEndedStaysEnded == Spec => []EndedStaysEnded
<1>1. IInv => EndedStaysEnded
  BY DEF IInv, EndedGone, EndedStaysEnded, Valid
<1> QED BY <1>1, Invariance, PTL

\* An answered session has a row in access_tokens, unless its statement failed or
\* its device was deleted under it (auth.go: the discarded error of the INSERT).
THEOREM AuthAnsweredHasRow == Spec => []AnsweredHasRow
<1>1. IInv => AnsweredHasRow
  BY DEF IInv, HasRow, AnsweredHasRow, At, Logins
<1> QED BY <1>1, Invariance, PTL
=============================================================================
