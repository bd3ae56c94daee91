-------------------------------- MODULE Vpn ---------------------------------
(***************************************************************************)
(* VPN provisioning (vpn.Service, vpnHandler): a device asks for its       *)
(* WireGuard configuration, or for one of an Xray protocol, and a user     *)
(* revokes one.  vpn_peers has a row for each device and protocol;         *)
(* WireGuard addresses come from a sequence; the users of Xray's inbounds  *)
(* are changed over its API, and are gone when Xray restarts.              *)
(*                                                                         *)
(* Every statement is its own transaction and every call to Xray comes in  *)
(* between, so requests of one device overlap in any way.  A credential    *)
(* (key pair, client id, password) is named by the request that generated  *)
(* it.  OpenVPN answers a fixed text; which node a configuration is for    *)
(* changes nothing here.  The peers of the WireGuard interface are left    *)
(* out: the service removes the old one when a key is renewed, but what    *)
(* adds peers is not part of the repository.                               *)
(***************************************************************************)
EXTENDS Naturals

CONSTANTS Requests, Devices,
          XrayProtocols,  \* vmess, vless, trojan: one inbound each
          PoolSize,       \* addresses of vpn_wg_addr_seq (252: 2 .. 253)
          None

ASSUME PoolAssumption == PoolSize \in Nat
ASSUME ProtocolAssumption == "wireguard" \notin XrayProtocols
ASSUME NoneAssumption == None \notin Requests \cup Nat \cup Devices

Protocols == {"wireguard"} \cup XrayProtocols
Slots == Devices \X Protocols

ASSUME SlotAssumption == None \notin Slots

VARIABLES exists,  \* devices with a row in devices
          row,     \* vpn_peers: slot -> row
          seq,     \* last value of vpn_wg_addr_seq
          xray,    \* Xray: slot -> credential of its user, or None
          req,
          last,    \* slot -> configuration the client has (history)
          issued,  \* addresses answered, with their devices (history)
          mixed    \* slots whose requests overlapped, or of whose steps one
                   \* failed, since their last undisturbed revocation (history)

vars == <<exists, row, seq, xray, req, last, issued, mixed>>
tables == <<exists, row, seq, xray>>
history == <<last, issued, mixed>>

NoRow == [cred |-> None, addr |-> None, expired |-> FALSE]
Row == [cred : Requests, addr : 1 .. PoolSize \cup {None}, expired : BOOLEAN]

NoConfig == [cred |-> None, addr |-> None]
Config == [cred : Requests, addr : 1 .. PoolSize \cup {None}]

Idle == [op |-> "none", pc |-> "idle", slot |-> None, cred |-> None, addr |-> None,
         alone |-> FALSE]
Done == [Idle EXCEPT !.pc = "done"]

TypeOK ==
  /\ exists \subseteq Devices
  /\ row \in [Slots -> Row \cup {NoRow}]
  /\ \A s \in Slots : row[s].cred # None /\ s[2] = "wireguard" => row[s].addr # None
  /\ seq \in 0 .. PoolSize
  /\ xray \in [Slots -> Requests \cup {None}]
  /\ req \in [Requests ->
       [op : {"none", "config", "revoke"},
        pc : {"idle", "check", "address", "next", "cred", "upsert", "add", "answer",
              "remove", "delete", "done"},
        slot : Slots \cup {None}, cred : Requests \cup {None},
        addr : 1 .. PoolSize \cup {None}, alone : BOOLEAN]]
  /\ last \in [Slots -> Config \cup {NoConfig}]
  /\ issued \subseteq [owner : Devices, address : 1 .. PoolSize]
  /\ mixed \subseteq Slots

Init ==
  /\ exists = Devices
  /\ row = [s \in Slots |-> NoRow]
  /\ seq = 0
  /\ xray = [s \in Slots |-> None]
  /\ req = [r \in Requests |-> Idle]
  /\ last = [s \in Slots |-> NoConfig]
  /\ issued = {}
  /\ mixed = {}

At(r, pc) == req[r].pc = pc
Go(r, pc) == req' = [req EXCEPT ![r].pc = pc]
Refuse(r) == req' = [req EXCEPT ![r] = Done]

Active(s) == {r \in Requests : req[r].slot = s}

-----------------------------------------------------------------------------
\* A request passes the authentication: for a configuration of its own device,
\* or to revoke one of any device its user names.
Arrive(r) ==
  /\ At(r, "idle")
  /\ \E s \in Slots :
       /\ \/ /\ s[1] \in exists
             /\ req' = [q \in Requests |->
                  IF q = r THEN [Idle EXCEPT !.op = "config", !.pc = "check", !.slot = s,
                                             !.alone = Active(s) = {}]
                  ELSE IF q \in Active(s) THEN [req[q] EXCEPT !.alone = FALSE] ELSE req[q]]
          \/ req' = [q \in Requests |->
                  IF q = r THEN [Idle EXCEPT !.op = "revoke", !.pc = "remove", !.slot = s,
                                             !.alone = Active(s) = {}]
                  ELSE IF q \in Active(s) THEN [req[q] EXCEPT !.alone = FALSE] ELSE req[q]]
       /\ mixed' = IF Active(s) = {} THEN mixed ELSE mixed \cup {s}
  /\ UNCHANGED <<tables, last, issued>>

\* A SELECT yields the row or, when it fails, nothing; its error is never reported.
Select(s) == {row[s], NoRow}

\* The history of a request to slot s that goes on with what its SELECT has seen.
Saw(s, seen) ==
  /\ mixed' = IF seen = row[s] THEN mixed ELSE mixed \cup {s}
  /\ UNCHANGED <<last, issued>>

\* GetConfig: refused when the row has expired or its traffic is used up (or a
\* node is not found).
CheckExpiry(r) ==
  /\ At(r, "check")
  /\ \/ /\ \E seen \in Select(req[r].slot) : ~seen.expired
        /\ Go(r, IF req[r].slot[2] = "wireguard" THEN "address" ELSE "cred")
     \/ Refuse(r)
  /\ UNCHANGED <<tables, history>>

\* getWireGuardConfig: a new key pair, and the address the row has, if it has one
\* and it can be read.
ReadAddress(r) ==
  /\ At(r, "address")
  /\ \E seen \in Select(req[r].slot) :
       /\ req' = [req EXCEPT ![r].pc = IF seen.addr = None THEN "next" ELSE "upsert",
                             ![r].addr = seen.addr, ![r].cred = r]
       /\ Saw(req[r].slot, seen)
  /\ UNCHANGED tables

\* Variant: the sequence is created with CYCLE.
NextValCycle(r) ==
  /\ At(r, "next")
  /\ seq' = IF seq < PoolSize THEN seq + 1 ELSE 1
  /\ req' = [req EXCEPT ![r].pc = "upsert", ![r].addr = seq']
  /\ UNCHANGED <<exists, row, xray, history>>

\* Variant: the bound is that of the network, not of the pool.
NextValUnbounded(r) ==
  /\ At(r, "next")
  /\ seq' = seq + 1
  /\ req' = [req EXCEPT ![r].pc = "upsert", ![r].addr = seq']
  /\ UNCHANGED <<exists, row, xray, history>>

\* nextval: a value is never given back, not even one whose reply is lost, and
\* after the last one there is an error.
NextVal(r) ==
  /\ At(r, "next")
  /\ \/ /\ seq < PoolSize
        /\ seq' = seq + 1
        /\ \/ req' = [req EXCEPT ![r].pc = "upsert", ![r].addr = seq']
           \/ Refuse(r)
     \/ Refuse(r) /\ UNCHANGED seq
  /\ UNCHANGED <<exists, row, xray, history>>

\* Variant: the credential is generated before the row is read.
ReadCredFresh(r) ==
  /\ At(r, "cred")
  /\ \E seen \in Select(req[r].slot) :
       /\ req' = [req EXCEPT ![r].pc = IF seen.cred = None THEN "upsert" ELSE "add",
                             ![r].cred = r]
       /\ Saw(req[r].slot, seen)
  /\ UNCHANGED tables

\* getVMessConfig, getVLESSConfig, getTrojanConfig: the credential of the row, or
\* a new one when there is none or it cannot be read.
ReadCred(r) ==
  /\ At(r, "cred")
  /\ \E seen \in Select(req[r].slot) :
       /\ req' = [req EXCEPT ![r].pc = IF seen.cred = None THEN "upsert" ELSE "add",
                             ![r].cred = IF seen.cred = None THEN r ELSE seen.cred]
       /\ Saw(req[r].slot, seen)
  /\ UNCHANGED tables

\* Variant: the upsert takes the address of the request.
StoredAddressNew(old, new) == new

\* COALESCE(vpn_peers.client_address, EXCLUDED.client_address)
StoredAddress(old, new) == IF old = None THEN new ELSE old

\* INSERT ... ON CONFLICT DO UPDATE; the foreign key asks for the device.  It may
\* fail, and it may be done and report an error.
Upsert(r) ==
  /\ At(r, "upsert")
  /\ LET s == req[r].slot IN
       \/ /\ s[1] \in exists
          /\ row' = [row EXCEPT ![s] =
               [cred |-> req[r].cred, addr |-> StoredAddress(row[s].addr, req[r].addr),
                expired |-> FALSE]]
          /\ \/ /\ Go(r, IF s[2] = "wireguard" THEN "answer" ELSE "add")
                /\ UNCHANGED mixed
             \/ Refuse(r) /\ mixed' = mixed \cup {s}
       \/ Refuse(r) /\ UNCHANGED <<row, mixed>>
  /\ UNCHANGED <<exists, seq, xray, last, issued>>

\* AddUser: refused for an email the inbound has, retried, and its error discarded.
AddUser(r) ==
  /\ At(r, "add")
  /\ LET s == req[r].slot IN
       \/ /\ xray' = [xray EXCEPT ![s] = IF @ = None THEN req[r].cred ELSE @]
          /\ UNCHANGED mixed
       \/ /\ UNCHANGED xray
          /\ mixed' = mixed \cup {s}
  /\ Go(r, "answer")
  /\ UNCHANGED <<exists, row, seq, last, issued>>

\* The configuration goes out, with the credential and address of the request.
Answer(r) ==
  /\ At(r, "answer")
  /\ LET s == req[r].slot IN
       /\ \/ /\ last' = [last EXCEPT ![s] = [cred |-> req[r].cred, addr |-> req[r].addr]]
             /\ UNCHANGED mixed
          \/ mixed' = mixed \cup {s} /\ UNCHANGED last
       /\ issued' = issued \cup (IF req[r].addr = None THEN {}
                                 ELSE {[owner |-> s[1], address |-> req[r].addr]})
  /\ Refuse(r)
  /\ UNCHANGED tables

-----------------------------------------------------------------------------
\* Variant: the Xray user is left alone.
RemoveUserNot(r) ==
  /\ At(r, "remove")
  /\ Go(r, "delete")
  /\ UNCHANGED <<tables, history>>

\* Revoke: the Xray user first; the error is discarded.
RemoveUser(r) ==
  /\ At(r, "remove")
  /\ LET s == req[r].slot IN
       \/ /\ xray' = [xray EXCEPT ![s] = None]
          /\ Go(r, "delete")
          /\ UNCHANGED mixed
       \/ /\ UNCHANGED xray
          /\ req' = [req EXCEPT ![r].pc = "delete", ![r].alone = FALSE]
          /\ mixed' = mixed \cup {s}
  /\ UNCHANGED <<exists, row, seq, last, issued>>

\* Then the row.
DeleteRow(r) ==
  /\ At(r, "delete")
  /\ LET s == req[r].slot IN
       \/ /\ row' = [row EXCEPT ![s] = NoRow]
          /\ last' = [last EXCEPT ![s] = NoConfig]
          /\ mixed' = IF req[r].alone THEN mixed \ {s} ELSE mixed
       \/ UNCHANGED <<row, last, mixed>>
  /\ Refuse(r)
  /\ UNCHANGED <<exists, seq, xray, issued>>

\* RevokeDevice (module Auth) deletes the device and, by ON DELETE CASCADE, its
\* rows; it does not know of Xray.
DeleteDevice(d) ==
  /\ d \in exists
  /\ exists' = exists \ {d}
  /\ row' = [s \in Slots |-> IF s[1] = d THEN NoRow ELSE row[s]]
  /\ mixed' = mixed \cup {s \in Slots : s[1] = d}
  /\ UNCHANGED <<seq, xray, req, last, issued>>

\* Time passes expires_at.
Expire(s) ==
  /\ row[s].cred # None /\ ~row[s].expired
  /\ row' = [row EXCEPT ![s].expired = TRUE]
  /\ UNCHANGED <<exists, seq, xray, req, history>>

\* Xray restarts from its own configuration, without the users that were added.
XrayRestart ==
  /\ xray' = [s \in Slots |-> None]
  /\ UNCHANGED <<exists, row, seq, req, history>>

WireGuardConfig(r) == ReadAddress(r) \/ NextVal(r)

XrayConfig(r) == ReadCred(r) \/ AddUser(r)

Revoke(r) == RemoveUser(r) \/ DeleteRow(r)

Handle(r) ==
  \/ Arrive(r) \/ CheckExpiry(r)
  \/ WireGuardConfig(r) \/ XrayConfig(r) \/ Upsert(r) \/ Answer(r)
  \/ Revoke(r)

Next ==
  \/ \E r \in Requests : Handle(r)
  \/ \E d \in Devices : DeleteDevice(d)
  \/ \E s \in Slots : Expire(s)
  \/ XrayRestart

Spec == Init /\ [][Next]_vars

-----------------------------------------------------------------------------
Quiet(s) == Active(s) = {} /\ s \notin mixed

\* The configuration a client has is the one the row names, with its address,
\* unless requests for it overlapped or a step failed: two first requests for
\* WireGuard draw an address each, and the row keeps the first; a request that
\* cannot read the row draws a second address, and the row keeps its own.
ConfigMatchesRow ==
  \A s \in Slots : Quiet(s) /\ last[s] # NoConfig =>
    last[s] = [cred |-> row[s].cred, addr |-> row[s].addr]

\* Xray admits nobody but the holder of the row's credential, with the same
\* exceptions, across revocations, renewals and restarts of Xray: a request that
\* cannot read the row puts a new credential in it, and Xray keeps the old one.
XrayAdmitsRow ==
  \A s \in Slots : Quiet(s) => xray[s] \in {row[s].cred, None}

\* A row never changes its address.
AddressKept ==
  [][\A s \in Slots : row[s].addr # None /\ row'[s] # NoRow => row'[s].addr = row[s].addr]_vars

\* Addresses are handed out as by a pool: never one of them to two devices, not
\* even after the first has given its configuration up.
Pool == INSTANCE AddressPool WITH
  Owners <- Devices, Addresses <- 1 .. PoolSize, granted <- issued, unstored <- FALSE,
  unread <- FALSE

ImplementsPool == Pool!Spec
=============================================================================
