-------------------------------- MODULE Auth --------------------------------
(***************************************************************************)
(* Accounts, devices and sessions of one home server, and the proxy        *)
(* sessions of a gateway server on which its users log in too              *)
(* (auth.Service, authHandler, AuthMiddleware, ProxyForwardMiddleware,     *)
(* federationHandler.authVerify).                                          *)
(*                                                                         *)
(* Every statement is its own transaction, except the one Register opens.  *)
(* A session is named by the request that issued its token: its user and   *)
(* device are that request's.  Key material is in KeyDir and KeyBackup;    *)
(* ws tokens, the name of a device and the device list carry no state a    *)
(* session depends on.                                                     *)
(***************************************************************************)
EXTENDS Naturals, FiniteSets

CONSTANTS Requests, Users, Devices, None

ASSUME NoneAssumption == None \notin Users \cup Devices \cup Requests

VARIABLES accounts,  \* users with a row in users
          owner,     \* devices: device -> user, or None without a row
          tok,       \* access_tokens: state of the row of each session
          proxy,     \* proxy_sessions of the gateway
          req,
          aim,       \* request -> sessions it is meant to end (history)
          ended,     \* sessions whose end was answered (history)
          failed,    \* sessions whose token row could not be inserted (history)
          crossed    \* logins under way while their device was deleted (history)

vars == <<accounts, owner, tok, proxy, req, aim, ended, failed, crossed>>
tables == <<accounts, owner, tok, proxy>>
history == <<aim, ended, failed, crossed>>

Idle == [op |-> "none", pc |-> "idle", user |-> None, dev |-> None,
         sess |-> None, via |-> FALSE]

TypeOK ==
  /\ accounts \subseteq Users
  /\ owner \in [Devices -> accounts \cup {None}]
  /\ tok \in [Requests -> {"none", "live", "expired", "revoked", "gone"}]
  /\ proxy \in [Requests -> {"none", "live", "expired"}]
  /\ req \in [Requests ->
       [op : {"none", "register", "login", "logout", "revoke"},
        pc : {"idle", "name", "tx", "find", "device", "copy", "insert", "token",
              "proxy", "gateway", "auth", "confirm", "update", "mark",
              "delete", "ok", "refused"},
        user : Users \cup {None}, dev : Devices \cup {None},
        sess : Requests \cup {None}, via : BOOLEAN]]
  /\ aim \in [Requests -> SUBSET Requests]
  /\ ended \subseteq Requests
  /\ failed \subseteq Requests
  /\ crossed \subseteq Requests

Init ==
  /\ accounts = {}
  /\ owner = [d \in Devices |-> None]
  /\ tok = [r \in Requests |-> "none"]
  /\ proxy = [r \in Requests |-> "none"]
  /\ req = [r \in Requests |-> Idle]
  /\ aim = [r \in Requests |-> {}]
  /\ ended = {}
  /\ failed = {}
  /\ crossed = {}

At(r, pc) == req[r].pc = pc
Go(r, pc) == req' = [req EXCEPT ![r].pc = pc]

\* A request that is answered with an error; what it asked for matters no more,
\* unless a token names it.
Refuse(r) ==
  req' = [req EXCEPT ![r] = IF tok[r] = "none" THEN [Idle EXCEPT !.pc = "refused"]
                            ELSE [@ EXCEPT !.pc = "refused"]]

\* ValidateToken, after the signature: a row, not revoked and not expired.
Valid(s) == tok[s] = "live"

\* The sessions of a user on a device that validate.
SessionsOf(u, d) == {s \in Requests : Valid(s) /\ req[s].user = u /\ req[s].dev = d}

-----------------------------------------------------------------------------
\* POST /auth/register, and /auth/login on the home server or on a gateway: for
\* a given domain, or for one found by asking the peers after the local login
\* was refused.  The gateway passes all of it on to auth/verify, so that which
\* way a login came shows in its answer only.
Arrive(r) ==
  /\ At(r, "idle")
  /\ \E u \in Users, d \in Devices :
       \/ req' = [req EXCEPT ![r] = [Idle EXCEPT !.op = "register", !.pc = "name",
                                                 !.user = u, !.dev = d]]
       \/ req' = [req EXCEPT ![r] = [Idle EXCEPT !.op = "login", !.pc = "find",
                                                 !.user = u, !.dev = d]]
  /\ UNCHANGED <<tables, history>>

\* A client that holds a session logs out, or revokes a device of its user.
ArriveWith(r, s) ==
  /\ At(r, "idle")
  /\ At(s, "ok") /\ req[s].op \in {"register", "login"}
  /\ LET pc == IF req[s].via THEN "gateway" ELSE "auth" IN
       \/ req' = [req EXCEPT ![r] = [Idle EXCEPT !.op = "logout", !.pc = pc, !.sess = s]]
       \/ \E d \in Devices :
            req' = [req EXCEPT ![r] = [Idle EXCEPT !.op = "revoke", !.pc = pc,
                                                   !.sess = s, !.dev = d]]
  /\ UNCHANGED <<tables, history>>

\* The statements whose error ends the request with an error.
Fail(r) ==
  /\ req[r].pc \in {"name", "tx", "find", "device", "insert", "confirm", "update",
                    "mark", "delete"}
  /\ Refuse(r)
  /\ UNCHANGED <<tables, history>>

-----------------------------------------------------------------------------
\* Register

CheckName(r) ==
  /\ At(r, "name")
  /\ IF req[r].user \in accounts THEN Refuse(r) ELSE Go(r, "tx")
  /\ UNCHANGED <<tables, history>>

\* Variant: INSERT INTO users ... ON CONFLICT DO UPDATE.
RegisterTxUpsert(r) ==
  /\ At(r, "tx")
  /\ IF owner[req[r].dev] = None
     THEN /\ accounts' = accounts \cup {req[r].user}
          /\ owner' = [owner EXCEPT ![req[r].dev] = req[r].user]
          /\ Go(r, "token")
     ELSE /\ UNCHANGED <<accounts, owner>>
          /\ Refuse(r)
  /\ UNCHANGED <<tok, proxy, history>>

\* Variant: the statements run outside the transaction, and the device stays when
\* that of the user fails.
RegisterTxApart(r) ==
  /\ At(r, "tx")
  /\ owner' = [owner EXCEPT ![req[r].dev] = IF @ = None THEN req[r].user ELSE @]
  /\ accounts' \in {accounts, accounts \cup {req[r].user}}
  /\ Go(r, "token")
  /\ UNCHANGED <<tok, proxy, history>>

\* The transaction: user, device and prekeys.  The name and the id of the device
\* are unique, whoever took them since the check.
RegisterTx(r) ==
  /\ At(r, "tx")
  /\ IF req[r].user \notin accounts /\ owner[req[r].dev] = None
     THEN /\ accounts' = accounts \cup {req[r].user}
          /\ owner' = [owner EXCEPT ![req[r].dev] = req[r].user]
          /\ Go(r, "token")
     ELSE /\ UNCHANGED <<accounts, owner>>
          /\ Refuse(r)
  /\ UNCHANGED <<tok, proxy, history>>

-----------------------------------------------------------------------------
\* Login

\* The password is right or not.
FindUser(r) ==
  /\ At(r, "find")
  /\ \/ req[r].user \in accounts /\ Go(r, "device")
     \/ Refuse(r)
  /\ UNCHANGED <<tables, history>>

\* A device that is new comes with its keys, or asks to take over those of
\* another device, or neither.
NewDevice(r) == Go(r, "insert") \/ Go(r, "copy") \/ Refuse(r)

\* Variant: a restoring client is taken to have its device already.
CheckDeviceSkipsRestore(r) ==
  /\ At(r, "device")
  /\ IF owner[req[r].dev] = req[r].user THEN Go(r, "token")
     ELSE Go(r, "insert") \/ Go(r, "token") \/ Refuse(r)
  /\ UNCHANGED <<tables, history>>

CheckDevice(r) ==
  /\ At(r, "device")
  /\ IF owner[req[r].dev] = req[r].user THEN Go(r, "token") ELSE NewDevice(r)
  /\ UNCHANGED <<tables, history>>

\* A restoring client takes over the public keys of some device of the user; the
\* error of that statement is discarded.
CopyKeys(r) ==
  /\ At(r, "copy")
  /\ \/ (\E d \in Devices : owner[d] = req[r].user) /\ Go(r, "insert")
     \/ Refuse(r)
  /\ UNCHANGED <<tables, history>>

\* INSERT INTO devices; the prekeys follow, and too many of them end the login
\* with the device left in place.
InsertDevice(r) ==
  /\ At(r, "insert")
  /\ IF owner[req[r].dev] = None
     THEN /\ owner' = [owner EXCEPT ![req[r].dev] = req[r].user]
          /\ Go(r, "token") \/ Refuse(r)
     ELSE /\ UNCHANGED owner
          /\ Refuse(r)
  /\ UNCHANGED <<accounts, tok, proxy, history>>

\* INSERT INTO access_tokens, for Register and Login: its error is discarded.
\* The foreign keys ask for the user and for the device, not that they go together.
InsertToken(r) ==
  /\ At(r, "token")
  /\ \/ /\ req[r].user \in accounts /\ owner[req[r].dev] # None
        /\ tok' = [tok EXCEPT ![r] = "live"]
        /\ UNCHANGED failed
     \/ /\ owner[req[r].dev] = None
        /\ UNCHANGED <<tok, failed>>
     \/ /\ failed' = failed \cup {r}
        /\ UNCHANGED tok
  /\ \/ Go(r, "ok")
     \/ req[r].op = "login" /\ req' = [req EXCEPT ![r].pc = "proxy", ![r].via = TRUE]
  /\ UNCHANGED <<accounts, owner, proxy, aim, ended, crossed>>

\* The gateway has the answer of auth/verify, or not, and stores a proxy session.
CreateProxySession(r) ==
  /\ At(r, "proxy")
  /\ \/ proxy' = [proxy EXCEPT ![r] = "live"] /\ Go(r, "ok")
     \/ UNCHANGED proxy /\ Refuse(r)
  /\ UNCHANGED <<accounts, owner, tok, history>>

-----------------------------------------------------------------------------
\* Requests with a session

\* GetProxySessionByToken: an expired row is deleted; a live one forwards the
\* request with the token of the home server.
Gateway(r) ==
  /\ At(r, "gateway")
  /\ LET s == req[r].sess IN
       \/ /\ proxy[s] = "live"
          /\ Go(r, "auth") /\ UNCHANGED proxy
       \/ /\ proxy[s] # "live"
          /\ Refuse(r)
          /\ proxy' = [proxy EXCEPT ![s] = "none"]
  /\ UNCHANGED <<accounts, owner, tok, history>>

\* AuthMiddleware; the handler goes on with the user and device of the token.
Authenticate(r) ==
  /\ At(r, "auth")
  /\ LET s == req[r].sess IN
       IF Valid(s)
       THEN /\ req' = [req EXCEPT ![r].user = req[s].user,
                                  ![r].pc = IF req[r].op = "logout" THEN "confirm" ELSE "mark"]
            /\ aim' = [aim EXCEPT ![r] = IF req[r].op = "logout" THEN {s}
                                         ELSE SessionsOf(req[s].user, req[r].dev)]
       ELSE /\ Refuse(r)
            /\ UNCHANGED aim
  /\ UNCHANGED <<tables, ended, failed, crossed>>

\* RevokeToken validates the token again ...
Confirm(r) ==
  /\ At(r, "confirm")
  /\ IF Valid(req[r].sess) THEN Go(r, "update") ELSE Refuse(r)
  /\ UNCHANGED <<tables, history>>

Revoked(S) == [s \in Requests |-> IF s \in S /\ tok[s] \in {"live", "expired"}
                                  THEN "revoked" ELSE tok[s]]

\* Variant: the error of the UPDATE is discarded.
UpdateUnchecked(r) ==
  /\ At(r, "update")
  /\ tok' \in {tok, Revoked({req[r].sess})}
  /\ ended' = ended \cup aim[r]
  /\ Go(r, "ok")
  /\ UNCHANGED <<accounts, owner, proxy, aim, failed, crossed>>

\* ... and revokes it.
Update(r) ==
  /\ At(r, "update")
  /\ tok' = Revoked({req[r].sess})
  /\ ended' = ended \cup aim[r]
  /\ Go(r, "ok")
  /\ UNCHANGED <<accounts, owner, proxy, aim, failed, crossed>>

\* RevokeDevice: the tokens of the user on the device are revoked ...
Mark(r) ==
  /\ At(r, "mark")
  /\ tok' = Revoked({s \in Requests : req[s].user = req[r].user /\ req[s].dev = req[r].dev})
  /\ Go(r, "delete")
  /\ UNCHANGED <<accounts, owner, proxy, history>>

\* Logins that looked at the device and have not stored a token yet.
UnderWay(d) == {s \in Requests : req[s].op \in {"login", "register"} /\ req[s].dev = d
                                  /\ At(s, "token")}

\* Variant: access_tokens.device_id without ON DELETE CASCADE.
DeleteDeviceNoCascade(r) ==
  /\ At(r, "delete")
  /\ IF owner[req[r].dev] = req[r].user
     THEN /\ owner' = [owner EXCEPT ![req[r].dev] = None]
          /\ crossed' = crossed \cup UnderWay(req[r].dev)
     ELSE UNCHANGED <<owner, crossed>>
  /\ ended' = ended \cup aim[r]
  /\ Go(r, "ok")
  /\ UNCHANGED <<accounts, tok, proxy, aim, failed>>

\* ... and the device is deleted if it is the user's, and with it, by ON DELETE
\* CASCADE, the tokens that were stored since.
DeleteDevice(r) ==
  /\ At(r, "delete")
  /\ IF owner[req[r].dev] = req[r].user
     THEN /\ owner' = [owner EXCEPT ![req[r].dev] = None]
          /\ tok' = [s \in Requests |-> IF req[s].dev = req[r].dev /\ tok[s] # "none"
                                        THEN "gone" ELSE tok[s]]
          /\ crossed' = crossed \cup UnderWay(req[r].dev)
     ELSE UNCHANGED <<owner, tok, crossed>>
  /\ ended' = ended \cup aim[r]
  /\ Go(r, "ok")
  /\ UNCHANGED <<accounts, proxy, aim, failed>>

-----------------------------------------------------------------------------
\* 24 hours pass: for the token and its row, or for the row of the gateway.
Expire(s) ==
  /\ \/ tok[s] = "live" /\ tok' = [tok EXCEPT ![s] = "expired"] /\ UNCHANGED proxy
     \/ proxy[s] = "live" /\ proxy' = [proxy EXCEPT ![s] = "expired"] /\ UNCHANGED tok
  /\ UNCHANGED <<accounts, owner, req, history>>

\* CleanupExpiredTokens deletes the expired rows and those revoked a week ago.
Cleanup ==
  /\ \E S \in SUBSET {s \in Requests : tok[s] = "revoked"} :
       tok' = [s \in Requests |-> IF s \in S \/ tok[s] = "expired" THEN "gone" ELSE tok[s]]
  /\ UNCHANGED <<accounts, owner, proxy, req, history>>

Register(r) == CheckName(r) \/ RegisterTx(r)

Login(r) == FindUser(r) \/ CheckDevice(r) \/ CopyKeys(r) \/ InsertDevice(r)

Logout(r) == Confirm(r) \/ Update(r)

RevokeDevice(r) == Mark(r) \/ DeleteDevice(r)

Handle(r) ==
  \/ Arrive(r) \/ (\E s \in Requests : ArriveWith(r, s)) \/ Fail(r)
  \/ Register(r) \/ Login(r) \/ InsertToken(r) \/ CreateProxySession(r)
  \/ Gateway(r) \/ Authenticate(r) \/ Logout(r) \/ RevokeDevice(r)
  \/ Expire(r)

Next == (\E r \in Requests : Handle(r)) \/ Cleanup

Spec == Init /\ [][Next]_vars

-----------------------------------------------------------------------------
\* However registrations overlap, a user name is given to one of them.
NameGivenOnce ==
  \A u \in Users :
    Cardinality({r \in Requests : req[r].op = "register" /\ At(r, "ok") /\ req[r].user = u}) <= 1

\* A session that validates is on a device of its own user.  The exception is a
\* login whose device was deleted while it was under way: its token may be
\* stored for the device another login has registered under the same id.
SessionOnOwnDevice ==
  \A s \in Requests : Valid(s) =>
    \/ owner[req[s].dev] = req[s].user
    \/ s \in crossed /\ owner[req[s].dev] # None

\* Once a logout, or the revocation of a device, has been answered, none of the
\* sessions it was meant to end validates again.
EndedStaysEnded == \A s \in ended : ~Valid(s)

\* A session whose token was answered has a row, unless the statement failed or
\* its device was deleted before it.
AnsweredHasRow ==
  \A s \in Requests : At(s, "ok") /\ req[s].op \in {"register", "login"} /\ tok[s] = "none" =>
    s \in failed \cup crossed
=============================================================================
