------------------------------- MODULE Rooms --------------------------------
(***************************************************************************)
(* rooms.Service with its HTTP handlers: room creation and membership.     *)
(* Every operation reads the roles it needs, one SELECT each, and writes   *)
(* afterwards in a statement (or, for a transfer, a transaction) of its    *)
(* own; nothing is locked in between and nothing is checked again.         *)
(*                                                                         *)
(* An operation whose check fails returns an error and changes nothing, so *)
(* the checks are guards.  SetRole is called by no handler and is left     *)
(* out: no user is ever an admin.                                          *)
(***************************************************************************)
EXTENDS Naturals, FiniteSets

CONSTANTS RoomIds, Users,
          RoomRequests, \* requests that may be in flight together
          NoUser

ASSUME NoUserAssumption == NoUser \notin Users

Roles == {"none", "member", "admin", "creator"}  \* "none": no row

VARIABLES creatorId,  \* rooms.creator_id: room -> user, NoUser before its row
          role,       \* room_members: room -> user -> role
          req,        \* requests in flight
          made,       \* rooms whose Create has run to its end (history)
          stale,      \* requests that read a role changed since (history)
          raced       \* rooms a stale request has written to (history)

roomsVars == <<creatorId, role, req, made, stale, raced>>

Idle == [op |-> "idle", pc |-> "start", room |-> NoUser, actor |-> NoUser,
         target |-> NoUser, actorRole |-> "none"]

Ops == {"idle", "create", "invite", "leave", "remove", "transfer"}

RoomsTypeOK ==
  /\ creatorId \in [RoomIds -> Users \cup {NoUser}]
  /\ role \in [RoomIds -> [Users -> Roles]]
  /\ req \in [RoomRequests -> [op : Ops, pc : {"start", "target", "write"},
                               room : RoomIds \cup {NoUser}, actor : Users \cup {NoUser},
                               target : Users \cup {NoUser}, actorRole : Roles]]
  /\ made \subseteq RoomIds
  /\ stale \subseteq RoomRequests
  /\ raced \subseteq RoomIds

RoomsInit ==
  /\ creatorId = [r \in RoomIds |-> NoUser]
  /\ role = [r \in RoomIds |-> [u \in Users |-> "none"]]
  /\ req = [q \in RoomRequests |-> Idle]
  /\ made = {}
  /\ stale = {}
  /\ raced = {}

-----------------------------------------------------------------------------
Enter(q, op, pc, r, u, v, ur) ==
  /\ req[q] = Idle
  /\ req' = [req EXCEPT ![q] = [op |-> op, pc |-> pc, room |-> r, actor |-> u,
                                target |-> v, actorRole |-> ur]]
  /\ UNCHANGED <<creatorId, role, made, stale, raced>>

Pending(q, op, pc) == req[q].op = op /\ req[q].pc = pc

\* q writes to its room and returns.  The other requests that depend on a role
\* the write changes are overtaken.
Overtaken(q) ==
  {p \in RoomRequests \ {q} :
     /\ req[p].room = req[q].room
     /\ \E u \in {req[p].actor, req[p].target} \ {NoUser} :
          role'[req[q].room][u] # role[req[q].room][u]}

Finish(q) ==
  /\ req' = [req EXCEPT ![q] = Idle]
  /\ stale' = (stale \cup Overtaken(q)) \ {q}
  /\ raced' = raced \cup {r \in RoomIds : r = req[q].room /\ q \in stale
                                            /\ req[q].op # "invite"}

\* An error, a cancelled request or a stopped server: nothing more is written.
AbortRequest(q) ==
  /\ req[q] # Idle
  /\ req' = [req EXCEPT ![q] = Idle]
  /\ stale' = stale \ {q}
  /\ UNCHANGED <<creatorId, role, made, raced>>

-----------------------------------------------------------------------------
\* Create: the row of rooms, under a fresh id ...
CreateRoom(q, r, u) ==
  /\ req[q] = Idle
  /\ creatorId[r] = NoUser
  /\ creatorId' = [creatorId EXCEPT ![r] = u]
  /\ req' = [req EXCEPT ![q] = [Idle EXCEPT !.op = "create", !.pc = "write",
                                             !.room = r, !.actor = u]]
  /\ UNCHANGED <<role, made, stale, raced>>

\* Variant: the arguments of the INSERT are swapped.
AddCreatorSwapped(q) ==
  /\ Pending(q, "create", "write")
  /\ role' = [role EXCEPT ![req[q].room][req[q].actor] = req[q].actor]
  /\ made' = made \cup {req[q].room}
  /\ Finish(q)
  /\ UNCHANGED creatorId

\* ... then the creator's row of room_members; not in one transaction.
AddCreator(q) ==
  /\ Pending(q, "create", "write")
  /\ role' = [role EXCEPT ![req[q].room][req[q].actor] = "creator"]
  /\ made' = made \cup {req[q].room}
  /\ Finish(q)
  /\ UNCHANGED creatorId

\* Invite: the inviter is creator or admin ...
InviteCheck(q, r, u, v) ==
  /\ role[r][u] \in {"creator", "admin"}
  /\ Enter(q, "invite", "write", r, u, v, role[r][u])

\* ... then INSERT ... ON CONFLICT DO NOTHING.
InviteWrite(q) ==
  /\ Pending(q, "invite", "write")
  /\ LET r == req[q].room  v == req[q].target IN
       role' = [role EXCEPT ![r][v] = IF @ = "none" THEN "member" ELSE @]
  /\ Finish(q)
  /\ UNCHANGED <<creatorId, made>>

\* Leave: any member but the creator ...
LeaveCheck(q, r, u) ==
  /\ role[r][u] \notin {"none", "creator"}
  /\ Enter(q, "leave", "write", r, u, u, role[r][u])

DeleteMember(q, op) ==
  /\ Pending(q, op, "write")
  /\ role' = [role EXCEPT ![req[q].room][req[q].target] = "none"]
  /\ Finish(q)
  /\ UNCHANGED <<creatorId, made>>

LeaveWrite(q) == DeleteMember(q, "leave")

\* Remove and TransferCreator read the actor's role, then the target's.
RemoveCheckActor(q, r, u, v) ==
  /\ role[r][u] \in {"creator", "admin"}
  /\ Enter(q, "remove", "target", r, u, v, role[r][u])

TransferCheckActor(q, r, u, v) ==
  /\ role[r][u] = "creator"
  /\ Enter(q, "transfer", "target", r, u, v, role[r][u])

ToWrite(q) ==
  /\ req' = [req EXCEPT ![q].pc = "write"]
  /\ UNCHANGED <<creatorId, role, made, stale, raced>>

RemoveCheckTarget(q) ==
  /\ Pending(q, "remove", "target")
  /\ LET targetRole == role[req[q].room][req[q].target] IN
       /\ targetRole \notin {"none", "creator"}
       /\ targetRole = "admin" => req[q].actorRole = "creator"
  /\ ToWrite(q)

RemoveWrite(q) == DeleteMember(q, "remove")

TransferCheckTarget(q) ==
  /\ Pending(q, "transfer", "target")
  /\ role[req[q].room][req[q].target] # "none"
  /\ req[q].target # req[q].actor
  /\ ToWrite(q)

\* Variant: the old creator keeps the role.
TransferWriteKeepsActor(q) ==
  /\ Pending(q, "transfer", "write")
  /\ LET r == req[q].room  v == req[q].target IN
       /\ role' = [role EXCEPT ![r][v] = IF @ = "none" THEN @ ELSE "creator"]
       /\ creatorId' = [creatorId EXCEPT ![r] = v]
  /\ Finish(q)
  /\ UNCHANGED made

\* One transaction of three UPDATEs; an UPDATE of a row that is gone changes
\* nothing.
TransferWrite(q) ==
  /\ Pending(q, "transfer", "write")
  /\ LET r == req[q].room  u == req[q].actor  v == req[q].target
         Set(rl, x, new) == [rl EXCEPT ![r][x] = IF @ = "none" THEN @ ELSE new]
     IN /\ role' = Set(Set(role, v, "creator"), u, "member")
        /\ creatorId' = [creatorId EXCEPT ![r] = v]
  /\ Finish(q)
  /\ UNCHANGED made

-----------------------------------------------------------------------------
\* The handlers of /rooms that change something, on behalf of user u.
Create(q) == (\E r \in RoomIds, u \in Users : CreateRoom(q, r, u)) \/ AddCreator(q)

Invite(q) == (\E r \in RoomIds, u, v \in Users : InviteCheck(q, r, u, v)) \/ InviteWrite(q)

Leave(q) == (\E r \in RoomIds, u \in Users : LeaveCheck(q, r, u)) \/ LeaveWrite(q)

Remove(q) ==
  \/ \E r \in RoomIds, u, v \in Users : RemoveCheckActor(q, r, u, v)
  \/ RemoveCheckTarget(q)
  \/ RemoveWrite(q)

TransferCreator(q) ==
  \/ \E r \in RoomIds, u, v \in Users : TransferCheckActor(q, r, u, v)
  \/ TransferCheckTarget(q)
  \/ TransferWrite(q)

RoomsNext == \E q \in RoomRequests :
  Create(q) \/ Invite(q) \/ Leave(q) \/ Remove(q) \/ TransferCreator(q) \/ AbortRequest(q)

RoomsSpec == RoomsInit /\ [][RoomsNext]_roomsVars

-----------------------------------------------------------------------------
Creators(r) == {u \in Users : role[r][u] = "creator"}

\* A created room has exactly one creator and rooms.creator_id names it,
\* whatever errors and crashes interrupt the operations, unless a transfer, a
\* removal or a departure was based on a role that another request had changed
\* since it was read.
OneCreator == \A r \in made \ raced : Creators(r) = {creatorId[r]}
=============================================================================
