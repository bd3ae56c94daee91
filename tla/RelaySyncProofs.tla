--------------------------- MODULE RelaySyncProofs --------------------------
(***************************************************************************)
(* The cursor of a device never passes a row that is still queued for it,  *)
(* for any devices, rows, rooms and requests in flight and for pages of    *)
(* two rows or more: with one row, a first load that is cut takes its      *)
(* cursor from the row it leaves out.                                      *)
(*                                                                         *)
(* CursorSkipsNothing is about the cursor of the client, which a reply     *)
(* replaces.  IInv says the same of the cursor a request was made with,    *)
(* and of the cursor it will answer with together with its page, for as    *)
(* long as somebody waits for the answer (Good).  Every cursor is the      *)
(* created_at of a row that was visible (Known), so that a row which       *)
(* commits behind a cursor commits out of order, and two rows with one     *)
(* created_at are both on record as such (Ties).                           *)
(*                                                                         *)
(* NothingOutOfReach holds on one device while nothing fails, however      *)
(* often the page is opened again; it needs besides that what is marked    *)
(* delivered is on its way to that device, and that a first load returns   *)
(* the delivered rows or accounts for them (Kept).                         *)
(***************************************************************************)
EXTENDS RelaySync, FiniteSetTheorems, WellFoundedInduction, TLAPS

\* A row has a created_at once its INSERT began, none of them in the future.
Stamped ==
  /\ \A e \in Events : created[e] <= now
  /\ \A e \in visible : created[e] # 0

\* A request that is under way has a device.
Sited == \A s \in Slots : sync[s].pc # "free" => sync[s].dev \in Devices

\* Rows that share their created_at are on record.
Ties == \A e, f \in visible : e # f /\ created[e] = created[f] => e \in disorder

\* A cursor is that of the first load, or the created_at of a row.
Known(t) == t = 0 \/ \E f \in visible : created[f] = t

\* The exceptions of CursorSkipsNothing.
Excused(d, e) ==
  e \in got[d] \cup delivered \cup disorder \/ <<d, e>> \in overlooked \/ created[e] < horizon[d]

\* Cursor t of device d skips nothing.
Safe(d, t) == \A e \in visible \cap Mine(Owner[d]) : Excused(d, e) \/ t < created[e]

\* The page and the cursor of a request skip nothing together; a first load may
\* leave out what is older than its page.
Covers(r) ==
  \A e \in visible \cap Mine(Owner[r.dev]) :
    \/ e \in r.page \/ Excused(r.dev, e) \/ r.next < created[e]
    \/ r.since = 0 /\ \A p \in r.page : created[e] < created[p]

\* What holds of a request in flight.
Good(r) ==
  /\ Known(r.since) /\ Known(r.next) /\ r.page \subseteq visible
  /\ r.live => /\ r.pc # "free"
               /\ Safe(r.dev, r.since)
               /\ r.pc = "mark" /\ r.page # {} => Covers(r)

IInv ==
  /\ Ties
  /\ \A d \in Devices : Known(cursor[d]) /\ Safe(d, cursor[d])
  /\ \A s \in Slots : Good(sync[s])

\* Without faults, every request has somebody who waits for its page.
Awaited(r) ==
  /\ r.pc # "free" => r.live
  /\ r.page # {} => r.pc = "mark"
  /\ r.todo \subseteq r.page

\* Delivered rows of the user of d that have their place in the order.
Settled(d) == (delivered \cap visible \cap Mine(Owner[d])) \ disorder

\* The row was received, is on its way, or is one that d may miss.
Reached(d, e) ==
  \/ e \in got[d] \/ <<d, e>> \in overlooked \/ created[e] < horizon[d]
  \/ \E s \in Slots : sync[s].dev = d /\ e \in sync[s].page

\* A first load accounts for the delivered rows: what it leaves out is older.
Loaded(r) == \A e \in Settled(r.dev) : Reached(r.dev, e) \/ \A p \in r.page : created[e] < created[p]

\* With one device and no faults: what is delivered was received, or is on its way,
\* or the page has just been opened and its first load will bring it.
Kept ==
  /\ delivered \subseteq visible
  /\ \A s \in Slots : Awaited(sync[s])
  /\ \A s \in Slots : sync[s].page # {} => sync[s].next # 0
  /\ \A s \in Slots : sync[s].pc # "free" /\ cursor[sync[s].dev] = 0 => sync[s].since = 0
  /\ \A s \in Slots : sync[s].since = 0 /\ sync[s].page # {} => Loaded(sync[s])
  /\ \A d \in Devices : cursor[d] = 0 \/ \A e \in Settled(d) : Reached(d, e)

-----------------------------------------------------------------------------
\* A set of natural numbers that is not empty has a least element.
LEMMA Least ==
  ASSUME NEW T, T \subseteq Nat, T # {}
  PROVE  \E x \in T : \A y \in T : x <= y
<1> DEFINE R == OpToRel(<, Nat)
<1>1. IsWellFoundedOn(R, Nat)
  BY NatLessThanWellFounded
<1>2. \A x, y \in Nat : x < y => <<x, y>> \in R
  BY DEF OpToRel
<1> HIDE DEF R
<1>3. PICK x \in T : \A y \in T : ~ (<<y, x>> \in R)
  BY <1>1, WFMin
<1>4. ASSUME NEW y \in T PROVE x <= y
  <2>1. x \in Nat /\ y \in Nat
    BY <1>3, <1>4
  <2>2. ~ (y < x)
    BY <1>2, <1>3, <1>4, <2>1
  <2> QED BY <2>1, <2>2
<1> QED BY <1>3, <1>4

\* Earliest is an earliest row.
LEMMA EarliestIs ==
  ASSUME TypeOK, NEW S, S \subseteq Events, S # {}
  PROVE  /\ Earliest(S) \in S
         /\ \A f \in S : created[Earliest(S)] <= created[f]
<1> DEFINE T == {created[e] : e \in S}
<1>1. T \subseteq Nat /\ T # {}
  BY DEF TypeOK, Times
<1>2. PICK x \in T : \A y \in T : x <= y
  <2> HIDE DEF T
  <2> QED BY <1>1, Least
<1>3. PICK e \in S : created[e] = x
  BY <1>2
<1>4. \A f \in S : created[e] <= created[f]
  BY <1>2, <1>3
<1> QED BY <1>4 DEF Earliest

\* Latest is a latest row.
LEMMA LatestIs ==
  ASSUME TypeOK, Stamped, NEW S, S \subseteq Events, S # {}
  PROVE  /\ Latest(S) \in S
         /\ \A f \in S : created[f] <= created[Latest(S)]
<1> DEFINE T == {now - created[e] : e \in S}
<1>1. \A e \in S : created[e] \in Nat /\ now \in Nat /\ created[e] <= now
  BY DEF TypeOK, Times, Stamped
<1>2. T \subseteq Nat /\ T # {}
  BY <1>1
<1>3. PICK x \in T : \A y \in T : x <= y
  <2> HIDE DEF T
  <2> QED BY <1>2, Least
<1>4. PICK e \in S : now - created[e] = x
  BY <1>3
<1>5. ASSUME NEW f \in S PROVE created[f] <= created[e]
  <2>1. now - created[e] <= now - created[f]
    BY <1>3, <1>4, <1>5
  <2> QED BY <2>1, <1>1
<1> QED BY <1>5 DEF Latest

\* A page that is cut has more rows than PageSize; so one row, or with two rows to
\* a page any two, can be taken from it.
LEMMA CutPage ==
  ASSUME NEW P, P \subseteq Events, IsCut(P)
  PROVE  /\ \A x : P \ {x} # {}
         /\ PageSize >= 2 => \A x, y : (P \ {x}) \ {y} # {}
<1>1. IsFiniteSet(P) /\ Cardinality(P) \in Nat
  <2>1. IsFiniteSet(Events)
    BY SyncConstants, FS_Interval DEF Events
  <2>2. IsFiniteSet(P)
    BY <2>1, FS_Subset
  <2> QED BY <2>2, FS_CardinalityType
<1>2. Cardinality(P) >= 2 /\ (PageSize >= 2 => Cardinality(P) >= 3)
  BY <1>1, PageSizeAssumption DEF IsCut
<1>3. ASSUME NEW x
      PROVE  IsFiniteSet(P \ {x}) /\ Cardinality(P \ {x}) \in Nat
             /\ Cardinality(P \ {x}) >= Cardinality(P) - 1
  <2>1. IsFiniteSet(P \ {x})
        /\ Cardinality(P \ {x}) = IF x \in P THEN Cardinality(P) - 1 ELSE Cardinality(P)
    BY <1>1, FS_RemoveElement
  <2> QED BY <1>1, <1>2, <2>1
<1>4. ASSUME NEW x PROVE P \ {x} # {}
  <2>1. Cardinality(P \ {x}) # 0
    <3>1. Cardinality(P \ {x}) \in Nat /\ Cardinality(P \ {x}) >= Cardinality(P) - 1
      BY <1>3
    <3> QED BY <3>1, <1>1, <1>2
  <2> QED BY <2>1, FS_EmptySet
<1>5. ASSUME PageSize >= 2, NEW x, NEW y PROVE (P \ {x}) \ {y} # {}
  <2> DEFINE Q == P \ {x}
  <2>1. IsFiniteSet(Q) /\ Cardinality(Q) \in Nat /\ Cardinality(Q) >= 2
    <3>1. IsFiniteSet(Q) /\ Cardinality(Q) \in Nat /\ Cardinality(Q) >= Cardinality(P) - 1
      BY <1>3
    <3> HIDE DEF Q
    <3> QED BY <3>1, <1>1, <1>2, <1>5
  <2> HIDE DEF Q
  <2>2. Cardinality(Q \ {y}) = IF y \in Q THEN Cardinality(Q) - 1 ELSE Cardinality(Q)
    BY <2>1, FS_RemoveElement
  <2>3. Cardinality(Q \ {y}) # 0
    BY <2>1, <2>2
  <2>4. Q \ {y} # {}
    BY <2>3, FS_EmptySet
  <2> QED BY <2>4 DEF Q
<1> QED BY <1>4, <1>5

\* The cursor of a page is the created_at of one of its rows, or 0.
LEMMA NextCursorOf ==
  ASSUME TypeOK, Stamped, NEW P, P \subseteq Events, NEW t
  PROVE  (P = {} /\ NextCursor(P, t) = 0) \/ \E p \in P : NextCursor(P, t) = created[p]
<1>1. CASE IsCut(P)
  <2>1. P # {}
    BY <1>1, CutPage
  <2>2. P \ {Earliest(P)} # {} /\ P \ {Latest(P)} # {}
    BY <1>1, CutPage
  <2>3. Earliest(P \ {Earliest(P)}) \in P /\ Latest(P \ {Latest(P)}) \in P
    BY <2>2, EarliestIs, LatestIs
  <2> QED BY <1>1, <2>3 DEF NextCursor, CursorCreated
<1>2. CASE ~IsCut(P) /\ P # {}
  <2>1. Earliest(P) \in P /\ Latest(P) \in P
    BY <1>2, EarliestIs, LatestIs
  <2> QED BY <1>2, <2>1 DEF NextCursor, LastCreated
<1>3. CASE ~IsCut(P) /\ P = {}
  BY <1>3 DEF NextCursor
<1> QED BY <1>1, <1>2, <1>3

-----------------------------------------------------------------------------
Typed == TypeOK /\ Stamped

\* A slot that is taken, given a record, changed or freed keeps its type.
LEMMA SlotTyped ==
  ASSUME TypeOK, NEW s \in Slots, NEW r \in SlotType, sync' = [sync EXCEPT ![s] = r]
  PROVE  /\ sync' \in [Slots -> SlotType] /\ sync'[s] = r
         /\ \A q \in Slots \ {s} : sync'[q] = sync[q]
BY DEF TypeOK

\* FreeSlot is a slot.
LEMMA FreeSlotTyped == FreeSlot \in SlotType
BY DEF FreeSlot, SlotType, Times

\* INSERTs begin and commit.
LEMMA InsertTyped ==
  ASSUME Typed, NEW e \in Events, BeginInsert(e) \/ CommitInsert(e)
  PROVE  Typed'
<1>1. CASE BeginInsert(e)
  <2>1. PICK t \in {now, now + 1} \ {0} : created' = [created EXCEPT ![e] = t] /\ now' = t
    BY <1>1 DEF BeginInsert
  <2>2. now \in Nat /\ t \in Nat /\ now <= t /\ t # 0
    BY <2>1 DEF Typed, TypeOK, Times
  <2>3. created \in [Events -> Nat] /\ UNCHANGED <<visible, delivered, disorder, cursor, got, horizon, sync, told, overlooked>>
    BY <1>1 DEF Typed, TypeOK, Times, BeginInsert, client
  <2>4. created' \in [Events -> Nat] /\ \A f \in Events : created'[f] = IF f = e THEN t ELSE created[f]
    BY <2>1, <2>2, <2>3
  <2>5. TypeOK'
    BY <2>1, <2>2, <2>3, <2>4 DEF Typed, TypeOK, Times
  <2>6. ASSUME NEW f \in Events PROVE created'[f] <= now'
    <3>1. created[f] <= now /\ created[f] \in Nat
      BY <2>3 DEF Typed, Stamped
    <3> QED BY <3>1, <2>1, <2>2, <2>4
  <2>7. \A f \in visible' : created'[f] # 0
    BY <2>2, <2>3, <2>4 DEF Typed, Stamped, TypeOK
  <2> QED BY <2>5, <2>6, <2>7 DEF Typed, Stamped
<1>2. CASE CommitInsert(e)
  <2>1. /\ visible' = visible \cup {e} /\ created[e] # 0
        /\ UNCHANGED <<now, created, delivered, cursor, got, horizon, sync, told, overlooked>>
        /\ disorder' \subseteq disorder \cup visible \cup {e}
    BY <1>2 DEF CommitInsert, client
  <2>2. TypeOK'
    BY <2>1 DEF Typed, TypeOK
  <2> QED BY <2>1, <2>2 DEF Typed, Stamped
<1> QED BY <1>1, <1>2

\* A sync request starts, is marked further or loses its reply.
LEMMA RequestTyped ==
  ASSUME Typed, NEW s \in Slots,
         (\E d \in Devices : StartSync(s, d)) \/ MarkDelivered(s) \/ LoseReply(s)
  PROVE  Typed'
<1>1. sync[s] \in SlotType
  BY DEF Typed, TypeOK
<1>2. \E r \in SlotType : sync' = [sync EXCEPT ![s] = r]
  <2>1. ASSUME NEW d \in Devices, StartSync(s, d) PROVE \E r \in SlotType : sync' = [sync EXCEPT ![s] = r]
    <3> DEFINE r == [FreeSlot EXCEPT !.pc = "query", !.dev = d, !.since = cursor[d], !.live = TRUE]
    <3>1. cursor[d] \in Times
      BY DEF Typed, TypeOK
    <3>2. r \in SlotType
      BY <3>1 DEF FreeSlot, SlotType, Times
    <3> QED BY <2>1, <3>2 DEF StartSync
  <2>2. CASE MarkDelivered(s)
    <3>1. PICK e : sync' = [sync EXCEPT ![s] = [sync[s] EXCEPT !.todo = sync[s].todo \ {e}]]
      BY <2>2 DEF MarkDelivered
    <3> QED BY <1>1, <3>1 DEF SlotType
  <2>3. CASE LoseReply(s)
    <3>1. \/ sync' = [sync EXCEPT ![s] = [sync[s] EXCEPT !.live = FALSE]]
          \/ sync' = [sync EXCEPT ![s] = FreeSlot]
      BY <2>3 DEF LoseReply
    <3>2. [sync[s] EXCEPT !.live = FALSE] \in SlotType
      BY <1>1 DEF SlotType
    <3> QED BY <3>1, <3>2, FreeSlotTyped
  <2> QED BY <2>1, <2>2, <2>3
<1>3. sync' \in [Slots -> SlotType]
  BY <1>2, SlotTyped DEF Typed
<1>4. UNCHANGED <<now, created, visible, disorder, cursor, got, horizon, told, overlooked>>
  BY DEF StartSync, MarkDelivered, LoseReply, db, client
<1>5. delivered' \subseteq Events
  <2>1. sync[s].todo \subseteq Events
    BY <1>1 DEF SlotType
  <2> QED BY <2>1 DEF StartSync, MarkDelivered, LoseReply, Typed, TypeOK
<1>6. TypeOK'
  BY <1>3, <1>4, <1>5 DEF Typed, TypeOK
<1> QED BY <1>4, <1>6 DEF Typed, Stamped

\* What the query of slot s leaves: record q, for a page taken from P.
Result(s, rooms, P, page, q) ==
  LET d == sync[s].dev
      since == sync[s].since
      C == Candidates(Owner[d], since, rooms)
  IN /\ sync' = [sync EXCEPT ![s] = q]
     /\ P \subseteq C /\ IsPage(P, C, since) /\ page \in PagesOf(P)
     /\ q.pc = "mark" /\ q.page = page /\ q.next = NextCursor(P, since)
     /\ q.dev = d /\ q.since = since /\ q.live = sync[s].live /\ q.todo \subseteq page
     /\ ~Faults => rooms
     /\ overlooked' = overlooked
          \cup ({d} \X ((Candidates(Owner[d], since, TRUE) \ C) \cup Unreturned(P, page)))

\* What a query leaves in its slot.
LEMMA QueryPage ==
  ASSUME Typed, NEW s \in Slots, Query(s)
  PROVE  \E rooms \in BOOLEAN, P \in SUBSET Events, page \in SUBSET Events, r \in SlotType :
           Result(s, rooms, P, page, r)
<1> DEFINE d == sync[s].dev
           since == sync[s].since
           C(rooms) == Candidates(Owner[d], since, rooms)
           R(P, page) == [sync[s] EXCEPT !.pc = "mark", !.page = page, !.next = NextCursor(P, since),
                            !.cut = IsCut(P), !.todo = Marks(d, page, IsCut(P))]
<1>1. PICK rooms \in BOOLEAN :
        /\ ~Faults => rooms
        /\ \E P \in {Q \in SUBSET C(rooms) : IsPage(Q, C(rooms), since)} : \E page \in PagesOf(P) :
             /\ sync' = [sync EXCEPT ![s] = R(P, page)]
             /\ overlooked' = overlooked \cup ({d} \X ((C(TRUE) \ C(rooms)) \cup Unreturned(P, page)))
  BY SyncConstants DEF Query
<1> HIDE DEF C
<1>2. PICK P \in SUBSET C(rooms) :
        /\ IsPage(P, C(rooms), since)
        /\ \E page \in PagesOf(P) :
             /\ sync' = [sync EXCEPT ![s] = R(P, page)]
             /\ overlooked' = overlooked \cup ({d} \X ((C(TRUE) \ C(rooms)) \cup Unreturned(P, page)))
  BY <1>1
<1>3. PICK page \in PagesOf(P) :
        /\ IsPage(P, C(rooms), since) /\ sync' = [sync EXCEPT ![s] = R(P, page)]
        /\ overlooked' = overlooked \cup ({d} \X ((C(TRUE) \ C(rooms)) \cup Unreturned(P, page)))
  BY <1>2
<1>4. P \subseteq Events /\ page \subseteq P
  <2>1. C(rooms) \subseteq Events
    BY DEF C, Candidates, Selected, Mine
  <2> QED BY <1>3, <2>1 DEF PagesOf
<1>5. sync[s] \in SlotType /\ NextCursor(P, since) \in Times
  <2>1. NextCursor(P, since) = 0 \/ \E p \in P : NextCursor(P, since) = created[p]
    BY <1>4, NextCursorOf DEF Typed
  <2> QED BY <1>4, <2>1 DEF Typed, TypeOK, Times
<1>6. Marks(d, page, IsCut(P)) \subseteq page
  BY DEF Marks
<1>7. IsCut(P) \in BOOLEAN
  BY DEF IsCut
<1> DEFINE n == NextCursor(P, since)
           c == IsCut(P)
           m == Marks(d, page, c)
           r == [sync[s] EXCEPT !.pc = "mark", !.page = page, !.next = n, !.cut = c, !.todo = m]
<1>8. r = R(P, page)
  OBVIOUS
<1> HIDE DEF n, c, m, R
<1>9. /\ r \in SlotType /\ r.pc = "mark" /\ r.page = page /\ r.next = n
      /\ r.dev = d /\ r.since = since /\ r.live = sync[s].live /\ r.todo \subseteq page
  BY <1>4, <1>5, <1>6, <1>7 DEF SlotType, n, c, m
<1> HIDE DEF r
<1>10. /\ sync' = [sync EXCEPT ![s] = r] /\ IsPage(P, C(rooms), since) /\ page \in PagesOf(P)
      /\ r.next = NextCursor(P, since) /\ page \in SUBSET Events
      /\ overlooked' = overlooked \cup ({d} \X ((C(TRUE) \ C(rooms)) \cup Unreturned(P, page)))
  BY <1>1, <1>3, <1>4, <1>8, <1>9 DEF n
<1>11. Result(s, rooms, P, page, r)
  BY <1>1, <1>3, <1>9, <1>10 DEF Result, C
<1> QED BY <1>4, <1>9, <1>10, <1>11

\* A query changes its slot, and what was overlooked.
LEMMA QueryTyped ==
  ASSUME Typed, NEW s \in Slots, Query(s), sync[s].dev \in Devices
  PROVE  Typed'
<1>1. /\ \E r \in SlotType : sync' = [sync EXCEPT ![s] = r]
      /\ \E D \in SUBSET Events : overlooked' = overlooked \cup ({sync[s].dev} \X D)
  <2>1. PICK rooms \in BOOLEAN, P \in SUBSET Events, page \in SUBSET Events, r \in SlotType :
          Result(s, rooms, P, page, r)
    BY QueryPage
  <2>2. Candidates(Owner[sync[s].dev], sync[s].since, TRUE) \subseteq Events /\ Unreturned(P, page) \subseteq Events
    BY DEF Candidates, Selected, Mine, Unreturned
  <2>3. sync' = [sync EXCEPT ![s] = r]
    BY <2>1 DEF Result
  <2>4. PICK A, B : A = Candidates(Owner[sync[s].dev], sync[s].since, TRUE)
                    /\ B = Candidates(Owner[sync[s].dev], sync[s].since, rooms)
    OBVIOUS
  <2>5. overlooked' = overlooked \cup ({sync[s].dev} \X ((A \ B) \cup Unreturned(P, page)))
    BY <2>1, <2>4 DEF Result
  <2>6. (A \ B) \cup Unreturned(P, page) \in SUBSET Events
    BY <2>2, <2>4
  <2> QED BY <2>3, <2>5, <2>6
<1>2. sync' \in [Slots -> SlotType]
  BY <1>1, SlotTyped DEF Typed
<1>3. overlooked' \subseteq Devices \X Events
  BY <1>1 DEF Typed, TypeOK
<1>4. UNCHANGED <<now, created, visible, disorder, delivered, cursor, got, horizon, told>>
  BY DEF Query, db, client
<1>5. TypeOK'
  BY <1>2, <1>3, <1>4 DEF Typed, TypeOK
<1> QED BY <1>4, <1>5 DEF Typed, Stamped

\* What a reply does to the client.
LEMMA ReplyEffect ==
  ASSUME Typed, NEW s \in Slots, FinishSync(s), sync[s].dev \in Devices
  PROVE  LET r == sync[s]
             d == r.dev IN
         /\ r \in SlotType
         /\ cursor' \in [Devices -> Times] /\ got' \in [Devices -> SUBSET Events]
         /\ horizon' \in [Devices -> Times]
         /\ \A c \in Devices \ {d} : UNCHANGED <<cursor[c], got[c], horizon[c]>>
         /\ got[d] \subseteq got'[d] /\ horizon[d] <= horizon'[d]
         /\ \/ cursor'[d] = cursor[d]
            \/ /\ r.live /\ r.page # {} /\ cursor'[d] = r.next
               /\ r.since = 0 => \A t \in Nat : (\A p \in r.page : t < created[p]) => t < horizon'[d]
         /\ r.live => got'[d] = got[d] \cup r.page
<1> DEFINE r == sync[s]
           d == r.dev
           first == created[Earliest(r.page)]
<1>1. /\ r \in SlotType /\ r.page \subseteq Events /\ r.next \in Times
      /\ created \in [Events -> Nat] /\ cursor \in [Devices -> Nat] /\ horizon \in [Devices -> Nat]
      /\ got \in [Devices -> SUBSET Events]
  BY DEF Typed, TypeOK, SlotType, Times
<1>2. CASE ~r.live
  <2>1. UNCHANGED <<cursor, got, horizon>>
    BY <1>2 DEF FinishSync, client
  <2> QED BY <1>1, <1>2, <2>1 DEF Times
<1>3. CASE r.live /\ r.page = {}
  <2>1. UNCHANGED <<cursor, horizon>> /\ got' = [got EXCEPT ![d] = @ \cup r.page]
    BY <1>3 DEF FinishSync, Receive
  <2> QED BY <1>1, <1>3, <2>1 DEF Times
<1>4. CASE r.live /\ r.page # {}
  <2>1. /\ got' = [got EXCEPT ![d] = @ \cup r.page]
        /\ cursor' = [cursor EXCEPT ![d] = r.next]
        /\ horizon' = [horizon EXCEPT ![d] = IF r.since = 0 /\ first > @ THEN first ELSE @]
    BY <1>4 DEF FinishSync, Receive
  <2>2. Earliest(r.page) \in r.page /\ first \in Nat
    BY <1>1, <1>4, EarliestIs DEF Typed
  <2> HIDE DEF first
  <2>3. /\ horizon' \in [Devices -> Nat]
        /\ horizon'[d] = IF r.since = 0 /\ first > horizon[d] THEN first ELSE horizon[d]
        /\ \A c \in Devices \ {d} : horizon'[c] = horizon[c]
    BY <1>1, <2>1, <2>2
  <2>4. horizon[d] <= horizon'[d] /\ (r.since = 0 => first <= horizon'[d])
    BY <1>1, <2>2, <2>3
  <2>5. ASSUME r.since = 0, NEW t \in Nat, \A p \in r.page : t < created[p]
        PROVE  t < horizon'[d]
    <3>1. t < first
      BY <2>2, <2>5 DEF first
    <3> QED BY <3>1, <2>2, <2>3, <2>4, <2>5
  <2>6. /\ cursor' \in [Devices -> Nat] /\ got' \in [Devices -> SUBSET Events]
        /\ cursor'[d] = r.next /\ got'[d] = got[d] \cup r.page
        /\ \A c \in Devices \ {d} : cursor'[c] = cursor[c] /\ got'[c] = got[c]
    BY <1>1, <2>1 DEF Times
  <2> QED BY <1>1, <1>4, <2>3, <2>4, <2>5, <2>6 DEF Times
<1> QED BY <1>2, <1>3, <1>4

\* A request ends.
LEMMA FinishTyped ==
  ASSUME Typed, NEW s \in Slots, FinishSync(s), sync[s].dev \in Devices
  PROVE  Typed'
<1>1. sync' = [sync EXCEPT ![s] = FreeSlot] /\ UNCHANGED <<now, created, visible, disorder, delivered, overlooked>>
  BY DEF FinishSync, db
<1>2. sync' \in [Slots -> SlotType]
  BY <1>1, FreeSlotTyped, SlotTyped DEF Typed
<1>3. told' \subseteq Events
  <2>1. sync[s].page \subseteq Events
    BY DEF Typed, TypeOK, SlotType
  <2> QED BY <2>1 DEF FinishSync, Marks, Typed, TypeOK
<1>4. cursor' \in [Devices -> Times] /\ got' \in [Devices -> SUBSET Events] /\ horizon' \in [Devices -> Times]
  BY ReplyEffect
<1>5. TypeOK'
  BY <1>1, <1>2, <1>3, <1>4 DEF Typed, TypeOK
<1> QED BY <1>1, <1>5 DEF Typed, Stamped

\* A page is reloaded.
LEMMA ReloadTyped ==
  ASSUME Typed, NEW d \in Devices, Reload(d)
  PROVE  Typed'
<1>1. UNCHANGED <<now, created, visible, disorder, delivered, told>>
  BY DEF Reload, db
<1>2. sync' \in [Slots -> SlotType]
  <2>1. \A s \in Slots : sync[s] \in SlotType /\ [sync[s] EXCEPT !.live = FALSE] \in SlotType
    BY DEF Typed, TypeOK, SlotType
  <2> QED BY <2>1 DEF Reload
<1>3. /\ cursor' \in [Devices -> Times] /\ got' \in [Devices -> SUBSET Events]
      /\ horizon' \in [Devices -> Times] /\ overlooked' \subseteq Devices \X Events
  BY DEF Reload, Typed, TypeOK, Times
<1>4. TypeOK'
  BY <1>1, <1>2, <1>3 DEF Typed, TypeOK
<1> QED BY <1>1, <1>4 DEF Typed, Stamped

\* What a step makes of a slot: nothing but fewer rows to mark or nobody waiting,
\* or it frees it, or takes it for a request, or answers the query of the request.
LEMMA SlotEffect ==
  ASSUME Typed, [Next]_vars, NEW s \in Slots
  PROVE  \/ /\ sync'[s].pc = sync[s].pc /\ sync'[s].dev = sync[s].dev
            /\ sync'[s].since = sync[s].since /\ sync'[s].page = sync[s].page
            /\ sync'[s].next = sync[s].next /\ sync'[s].todo \subseteq sync[s].todo
            /\ sync'[s].live => sync[s].live
            /\ ~Faults => sync'[s].live = sync[s].live
         \/ sync'[s] = FreeSlot /\ (~Faults => FinishSync(s))
         \/ \E d \in Devices : StartSync(s, d) /\
              sync'[s] = [FreeSlot EXCEPT !.pc = "query", !.dev = d, !.since = cursor[d], !.live = TRUE]
         \/ Query(s)
<1>1. sync \in [Slots -> SlotType]
  BY DEF Typed, TypeOK
<1>2. CASE sync' = sync
  BY <1>2
<1>4. ASSUME NEW q \in Slots, NEW d \in Devices, StartSync(q, d)
      PROVE  \/ sync'[s] = sync[s]
             \/ s = q /\ sync'[s] = [FreeSlot EXCEPT !.pc = "query", !.dev = d, !.since = cursor[d], !.live = TRUE]
  BY <1>1, <1>4 DEF StartSync
<1>5. ASSUME NEW q \in Slots, Query(q) PROVE sync'[s] = sync[s] \/ s = q
  BY <1>1, <1>5 DEF Query
<1>6. ASSUME NEW q \in Slots, FinishSync(q) PROVE sync'[s] = sync[s] \/ (s = q /\ sync'[s] = FreeSlot)
  BY <1>1, <1>6 DEF FinishSync
<1>7. ASSUME NEW q \in Slots, MarkDelivered(q)
      PROVE  sync'[s] = sync[s] \/ \E e : sync'[s] = [sync[s] EXCEPT !.todo = sync[s].todo \ {e}]
  BY <1>1, <1>7 DEF MarkDelivered
<1>8. ASSUME NEW q \in Slots, LoseReply(q)
      PROVE  /\ Faults
             /\ sync'[s] = sync[s] \/ sync'[s] = FreeSlot \/ sync'[s] = [sync[s] EXCEPT !.live = FALSE]
  BY <1>1, <1>8 DEF LoseReply
<1>9. ASSUME NEW d \in Devices, Reload(d)
      PROVE  sync'[s] = sync[s] \/ (Faults /\ sync'[s] = [sync[s] EXCEPT !.live = FALSE])
  BY <1>1, <1>9 DEF Reload
<1>10. ASSUME NEW e \in Events, BeginInsert(e) \/ CommitInsert(e) PROVE sync' = sync
  BY <1>10 DEF BeginInsert, CommitInsert
<1>11. ASSUME NEW e, sync'[s] = [sync[s] EXCEPT !.todo = sync[s].todo \ {e}]
       PROVE  /\ sync'[s].pc = sync[s].pc /\ sync'[s].dev = sync[s].dev
              /\ sync'[s].since = sync[s].since /\ sync'[s].page = sync[s].page
              /\ sync'[s].next = sync[s].next /\ sync'[s].todo \subseteq sync[s].todo
              /\ sync'[s].live = sync[s].live
  BY <1>1, <1>11 DEF SlotType
<1>12. ASSUME sync'[s] = [sync[s] EXCEPT !.live = FALSE]
       PROVE  /\ sync'[s].pc = sync[s].pc /\ sync'[s].dev = sync[s].dev
              /\ sync'[s].since = sync[s].since /\ sync'[s].page = sync[s].page
              /\ sync'[s].next = sync[s].next /\ sync'[s].todo \subseteq sync[s].todo
              /\ sync'[s].live = FALSE
  BY <1>1, <1>12 DEF SlotType
<1>13. CASE UNCHANGED vars
  BY <1>13, <1>2 DEF vars
<1>14. ASSUME NEW q \in Slots, NEW d \in Devices, StartSync(q, d)
       PROVE  sync'[s] = sync[s] \/ (StartSync(s, d) /\
              sync'[s] = [FreeSlot EXCEPT !.pc = "query", !.dev = d, !.since = cursor[d], !.live = TRUE])
  BY <1>4, <1>14
<1>15. CASE Next
  <2>1. CASE \E e \in Events : BeginInsert(e) \/ CommitInsert(e)
    BY <2>1, <1>2, <1>10
  <2>2. CASE \E q \in Slots, d \in Devices : StartSync(q, d)
    BY <2>2, <1>14
  <2>3. CASE \E q \in Slots : Query(q)
    BY <2>3, <1>5
  <2>4. CASE \E q \in Slots : MarkDelivered(q)
    BY <2>4, <1>7, <1>11
  <2>5. CASE \E q \in Slots : FinishSync(q)
    BY <2>5, <1>6
  <2>6. CASE \E q \in Slots : LoseReply(q)
    BY <2>6, <1>8, <1>12
  <2>7. CASE \E d \in Devices : Reload(d)
    BY <2>7, <1>9, <1>12
  <2> QED BY <1>15, <2>1, <2>2, <2>3, <2>4, <2>5, <2>6, <2>7 DEF Next
<1> QED BY <1>13, <1>15

\* The types, together with the devices of the requests, are an invariant.
LEMMA TypedStep ==
  ASSUME Typed, Sited, [Next]_vars
  PROVE  Typed' /\ Sited'
<1>1. Typed'
  <2>1. \A s \in Slots : Query(s) \/ FinishSync(s) => sync[s].dev \in Devices
    BY DEF Sited, Query, FinishSync
  <2>2. CASE UNCHANGED vars
    BY <2>2 DEF Typed, TypeOK, Stamped, vars, db, client
  <2>3. CASE Next
    BY <2>1, <2>3, InsertTyped, RequestTyped, QueryTyped, FinishTyped, ReloadTyped DEF Next
  <2> QED BY <2>2, <2>3
<1>2. ASSUME NEW s \in Slots, sync'[s].pc # "free" PROVE sync'[s].dev \in Devices
  <2>1. CASE Query(s)
    <3>1. PICK r \in SlotType : sync' = [sync EXCEPT ![s] = r] /\ r.dev = sync[s].dev
      BY <2>1, QueryPage DEF Result
    <3>2. sync'[s] = r
      BY <3>1, SlotTyped DEF Typed
    <3> QED BY <2>1, <3>1, <3>2 DEF Query, Sited
  <2>2. CASE sync'[s] = FreeSlot
    BY <1>2, <2>2 DEF FreeSlot
  <2>3. ASSUME NEW d \in Devices,
          sync'[s] = [FreeSlot EXCEPT !.pc = "query", !.dev = d, !.since = cursor[d], !.live = TRUE]
        PROVE  sync'[s].dev \in Devices
    BY <2>3 DEF FreeSlot
  <2>4. CASE sync'[s].pc = sync[s].pc /\ sync'[s].dev = sync[s].dev
    BY <1>2, <2>4 DEF Sited
  <2> QED BY <2>1, <2>2, <2>3, <2>4, SlotEffect
<1> QED BY <1>1, <1>2 DEF Sited

\* ... from the beginning.
LEMMA TypedInit == Init => Typed /\ Sited
<1> SUFFICES ASSUME Init PROVE Typed /\ Sited
  OBVIOUS
<1>1. TypeOK
  BY FreeSlotTyped DEF Init, TypeOK, Times
<1>2. Stamped
  BY DEF Init, Stamped
<1>3. Sited
  BY DEF Init, Sited, FreeSlot
<1> QED BY <1>1, <1>2, <1>3 DEF Typed

\* Rows, cursors and requests keep their types; the cursor of a page is that of one
\* of its rows (relay.Service.Sync: lastCreated, cursorCreated).
THEOREM SyncTypeCorrect == Spec => []TypeOK
<1>1. Typed /\ Sited /\ [Next]_vars => Typed' /\ Sited'
  BY TypedStep
<1>2. Typed => TypeOK
  BY DEF Typed
<1> QED BY TypedInit, <1>1, <1>2, PTL DEF Spec

-----------------------------------------------------------------------------
\* What no step does to the rows: change or remove one, or add one in order behind
\* another.
DbGrows ==
  /\ visible \subseteq visible'
  /\ \A e \in visible : created'[e] = created[e]
  /\ \A e \in visible' \ visible : \A f \in visible : created'[e] <= created[f] => e \in disorder'
  /\ delivered \subseteq delivered' /\ disorder \subseteq disorder'

\* What only a reload does to a device: lose what it has.
Grows(d) ==
  /\ got[d] \subseteq got'[d] /\ horizon[d] <= horizon'[d]
  /\ \A e \in Events : <<d, e>> \in overlooked => <<d, e>> \in overlooked'

\* Every step lets the rows grow, and has ties on record.
LEMMA DbStep ==
  ASSUME Typed, Ties, [Next]_vars
  PROVE  DbGrows /\ Ties'
<1>1. ASSUME NEW e \in Events, BeginInsert(e) PROVE DbGrows /\ Ties'
  <2>1. /\ UNCHANGED <<visible, disorder, delivered>> /\ e \notin visible
        /\ \E t : created' = [created EXCEPT ![e] = t]
    BY <1>1 DEF BeginInsert, Typed, Stamped
  <2>2. \A f \in visible : created'[f] = created[f]
    BY <2>1 DEF Typed, TypeOK
  <2> QED BY <2>1, <2>2 DEF DbGrows, Ties
<1>2. ASSUME NEW e \in Events, CommitInsert(e) PROVE DbGrows /\ Ties'
  <2>1. /\ visible' = visible \cup {e} /\ UNCHANGED <<created, delivered>>
        /\ disorder \subseteq disorder'
        /\ \A f \in visible : created[f] = created[e] => f \in disorder'
        /\ \A f \in visible : created[e] <= created[f] => e \in disorder'
    BY <1>2 DEF CommitInsert
  <2>2. DbGrows
    BY <2>1 DEF DbGrows
  <2>3. \A f \in visible : created[f] \in Nat
    BY DEF Typed, TypeOK, Times
  <2>4. Ties'
    BY <2>1, <2>3 DEF Ties
  <2> QED BY <2>2, <2>4
<1>3. ASSUME UNCHANGED db, delivered \subseteq delivered' PROVE DbGrows /\ Ties'
  BY <1>3 DEF db, DbGrows, Ties
<1>4. CASE UNCHANGED vars
  BY <1>3, <1>4 DEF vars
<1>5. ASSUME NEW s \in Slots,
             (\E d \in Devices : StartSync(s, d)) \/ Query(s) \/ MarkDelivered(s) \/ FinishSync(s) \/ LoseReply(s)
      PROVE  UNCHANGED db /\ delivered \subseteq delivered'
  BY <1>5 DEF StartSync, Query, MarkDelivered, FinishSync, LoseReply
<1>6. ASSUME NEW d \in Devices, Reload(d) PROVE UNCHANGED db /\ delivered \subseteq delivered'
  BY <1>6 DEF Reload
<1> QED BY <1>1, <1>2, <1>3, <1>4, <1>5, <1>6 DEF Next

\* Every step lets a device grow, or is its reload, after which nobody waits.
LEMMA DeviceStep ==
  ASSUME Typed, Sited, [Next]_vars, NEW d \in Devices
  PROVE  \/ Grows(d)
         \/ Reload(d) /\ cursor'[d] = 0 /\ \A s \in Slots : sync'[s].dev = d => ~sync'[s].live
<1>1. got \in [Devices -> SUBSET Events] /\ horizon \in [Devices -> Nat] /\ cursor \in [Devices -> Nat]
      /\ sync \in [Slots -> SlotType]
  BY DEF Typed, TypeOK, Times
<1>2. ASSUME UNCHANGED client, overlooked \subseteq overlooked' PROVE Grows(d)
  BY <1>1, <1>2 DEF client, Grows
<1>3. ASSUME NEW s \in Slots, FinishSync(s) PROVE Grows(d)
  <2>1. sync[s].dev \in Devices /\ overlooked' = overlooked
    BY <1>3 DEF Sited, FinishSync
  <2>2. /\ \A c \in Devices \ {sync[s].dev} : UNCHANGED <<got[c], horizon[c]>>
        /\ got[sync[s].dev] \subseteq got'[sync[s].dev] /\ horizon[sync[s].dev] <= horizon'[sync[s].dev]
    BY <1>3, <2>1, ReplyEffect
  <2>3. CASE d = sync[s].dev
    BY <2>1, <2>2, <2>3 DEF Grows
  <2>4. CASE d # sync[s].dev
    BY <1>1, <2>1, <2>2, <2>4 DEF Grows
  <2> QED BY <2>3, <2>4
<1>4. ASSUME NEW c \in Devices, Reload(c), c # d PROVE Grows(d)
  <2>1. got'[d] = got[d] /\ horizon'[d] = horizon[d] /\ overlooked' = overlooked \ ({c} \X Events)
    BY <1>1, <1>4 DEF Reload
  <2> QED BY <1>1, <1>4, <2>1 DEF Grows
<1>5. ASSUME Reload(d)
      PROVE  cursor'[d] = 0 /\ \A s \in Slots : sync'[s].dev = d => ~sync'[s].live
  <2>1. cursor'[d] = 0
    BY <1>1, <1>5 DEF Reload
  <2>2. ASSUME NEW s \in Slots, sync'[s].dev = d PROVE ~sync'[s].live
    <3>1. [sync[s] EXCEPT !.live = FALSE].live = FALSE
      BY <1>1 DEF SlotType
    <3>2. sync'[s] = IF sync[s].dev = d THEN [sync[s] EXCEPT !.live = FALSE] ELSE sync[s]
      BY <1>5 DEF Reload
    <3> QED BY <2>2, <3>1, <3>2
  <2> QED BY <2>1, <2>2
<1>6. ASSUME NEW e \in Events, BeginInsert(e) \/ CommitInsert(e) PROVE Grows(d)
  BY <1>2, <1>6 DEF BeginInsert, CommitInsert
<1>7. ASSUME NEW s \in Slots, (\E c \in Devices : StartSync(s, c)) \/ MarkDelivered(s) \/ LoseReply(s)
      PROVE  Grows(d)
  BY <1>2, <1>7 DEF StartSync, MarkDelivered, LoseReply
<1>8. ASSUME NEW s \in Slots, Query(s) PROVE Grows(d)
  BY <1>2, <1>8 DEF Query
<1>9. CASE UNCHANGED vars
  BY <1>2, <1>9 DEF vars
<1> QED BY <1>3, <1>4, <1>5, <1>6, <1>7, <1>8, <1>9 DEF Next

\* A step that leaves the clients alone lets every device grow.
LEMMA StillGrows ==
  ASSUME Typed, NEW d \in Devices, UNCHANGED <<got, horizon, overlooked>>
  PROVE  Grows(d)
<1>1. horizon[d] \in Nat
  BY DEF Typed, TypeOK, Times
<1> QED BY <1>1 DEF Grows

\* What was excused, known or safe stays so while rows and device grow: a row that
\* commits behind a known cursor is out of order.
LEMMA Persist ==
  ASSUME Typed, Typed', DbGrows, NEW d \in Devices, Grows(d)
  PROVE  /\ \A e \in visible : Excused(d, e) => Excused(d, e)'
         /\ \A t \in Nat : Known(t) /\ Safe(d, t) => Safe(d, t)'
<1>1. /\ visible \subseteq Events /\ \A e \in visible' : created'[e] \in Nat /\ created'[e] # 0
      /\ horizon[d] \in Nat /\ horizon'[d] \in Nat
      /\ \A e \in visible : created[e] \in Nat
  BY DEF Typed, TypeOK, Times, Stamped
<1>2. ASSUME NEW e \in visible, Excused(d, e) PROVE Excused(d, e)'
  <2>1. created[e] < horizon[d] => created'[e] < horizon'[d]
    <3>1. created'[e] = created[e] /\ created[e] \in Nat /\ horizon[d] <= horizon'[d]
      BY <1>1 DEF DbGrows, Grows
    <3> QED BY <1>1, <3>1
  <2>2. /\ e \in got[d] \cup delivered \cup disorder => e \in got'[d] \cup delivered' \cup disorder'
        /\ <<d, e>> \in overlooked => <<d, e>> \in overlooked'
    BY <1>1 DEF DbGrows, Grows
  <2> QED BY <1>2, <2>1, <2>2 DEF Excused
<1>3. ASSUME NEW t \in Nat, Known(t), Safe(d, t), NEW e \in visible' \cap Mine(Owner[d])
      PROVE  Excused(d, e)' \/ t < created'[e]
  <2>1. CASE e \in visible
    BY <1>2, <1>3, <2>1 DEF Safe, DbGrows
  <2>2. CASE e \notin visible
    <3>1. CASE t = 0
      BY <1>1, <1>3, <3>1
    <3>2. ASSUME NEW f \in visible, created[f] = t PROVE Excused(d, e)' \/ t < created'[e]
      <4>1. created'[e] \in Nat
        BY <1>1, <1>3
      <4>2. created'[e] <= t => e \in disorder'
        BY <1>3, <2>2, <3>2 DEF DbGrows
      <4> QED BY <4>1, <4>2 DEF Excused
    <3> QED BY <1>3, <3>1, <3>2 DEF Known
  <2> QED BY <2>1, <2>2
<1>4. \A e : (e \in Mine(Owner[d]))' <=> e \in Mine(Owner[d])
  BY DEF Mine, Reads
<1> QED BY <1>2, <1>3, <1>4 DEF Safe

\* A cursor stays known.
LEMMA KnownStays ==
  ASSUME DbGrows, NEW t, Known(t)
  PROVE  Known(t)'
BY DEF DbGrows, Known

\* A request that is not answered yet stays good, with somebody or nobody waiting.
LEMMA GoodStays ==
  ASSUME Typed, Typed', DbGrows, NEW r \in SlotType, NEW q \in SlotType, Good(r),
         q.pc = r.pc, q.dev = r.dev, q.since = r.since, q.page = r.page, q.next = r.next,
         q.live => r.live /\ r.dev \in Devices /\ Grows(r.dev)
  PROVE  Good(q)'
<1>1. Known(q.since)' /\ Known(q.next)' /\ q.page \subseteq visible'
  <2>1. Known(r.since) /\ Known(r.next) /\ r.page \subseteq visible
    BY DEF Good
  <2>2. PICK a \in Nat, b \in Nat : a = r.since /\ b = r.next
    BY DEF SlotType, Times
  <2>3. Known(a)' /\ Known(b)'
    BY <2>1, <2>2, KnownStays
  <2> QED BY <2>1, <2>2, <2>3 DEF DbGrows
<1>2. ASSUME q.live PROVE q.pc # "free" /\ Safe(q.dev, q.since)'
  <2>1. PICK d \in Devices, a \in Nat : d = r.dev /\ a = r.since
    BY <1>2 DEF SlotType, Times
  <2>2. Known(a) /\ Safe(d, a) /\ Grows(d) /\ r.pc # "free"
    BY <1>2, <2>1 DEF Good
  <2>3. Safe(d, a)'
    BY <2>2, Persist
  <2> QED BY <2>1, <2>2, <2>3
<1>3. ASSUME q.live, q.pc = "mark", q.page # {} PROVE Covers(q)'
  <2>1. PICK d \in Devices : d = r.dev
    BY <1>3
  <2>2. Grows(d) /\ Covers(r) /\ Known(r.next) /\ r.page \subseteq visible /\ r.next \in Nat
    BY <1>3, <2>1 DEF Good, SlotType, Times
  <2>3. \A e : (e \in Mine(Owner[d]))' <=> e \in Mine(Owner[d])
    BY DEF Mine, Reads
  <2>4. \A e \in visible : Excused(d, e) => Excused(d, e)'
    BY <2>2, Persist
  <2>5. ASSUME NEW e \in visible' \cap Mine(Owner[d])
        PROVE  \/ e \in r.page \/ Excused(d, e)' \/ r.next < created'[e]
               \/ r.since = 0 /\ \A p \in r.page : created'[e] < created'[p]
    <3>1. CASE e \in visible
      BY <2>1, <2>2, <2>4, <2>5, <3>1 DEF Covers, DbGrows
    <3>2. CASE e \notin visible
      <4>1. created'[e] \in Nat /\ created'[e] # 0
        BY <2>5 DEF Typed, TypeOK, Stamped, Times
      <4>2. CASE r.next = 0
        BY <4>1, <4>2
      <4>3. ASSUME NEW f \in visible, created[f] = r.next
            PROVE  Excused(d, e)' \/ r.next < created'[e]
        <5>1. created'[e] <= r.next => e \in disorder'
          BY <2>5, <3>2, <4>3 DEF DbGrows
        <5> QED BY <2>2, <4>1, <5>1 DEF Excused
      <4> QED BY <2>2, <4>2, <4>3 DEF Known
    <3> QED BY <3>1, <3>2
  <2> QED BY <2>1, <2>3, <2>5 DEF Covers
<1> QED BY <1>1, <1>2, <1>3 DEF Good

-----------------------------------------------------------------------------
\* No row is lost between a page, taken from P among the candidates C, and the cursor
\* that goes with it: it is excused, or left out because its room was not looked up.
Complete(d, since, C, P, page) ==
  \A e \in visible \cap Mine(Owner[d]) :
    \/ e \in page \/ Excused(d, e) \/ e \in Candidates(Owner[d], since, TRUE) \ C
    \/ NextCursor(P, since) < created[e]
    \/ since = 0 /\ \A p \in page : created[e] < created[p]

\* The heart of the matter: the page and the cursor that a query answers with skip
\* nothing together, in either order, cut or not.  Rows at the edge of a page either
\* lie on the right side of the cursor or share their created_at with another.
LEMMA PageCovers ==
  ASSUME Typed, Ties, PageSize >= 2, NEW d \in Devices, NEW since \in Nat, Safe(d, since),
         NEW rooms \in BOOLEAN,
         NEW C, C = Candidates(Owner[d], since, rooms),
         NEW P, P \subseteq C, IsPage(P, C, since),
         NEW page, page \in PagesOf(P), page # {}
  PROVE  Complete(d, since, C, P, page)
<1> SUFFICES ASSUME NEW e \in visible \cap Mine(Owner[d])
    PROVE  \/ e \in page \/ Excused(d, e) \/ e \in Candidates(Owner[d], since, TRUE) \ C
           \/ NextCursor(P, since) < created[e]
           \/ since = 0 /\ \A p \in page : created[e] < created[p]
  BY DEF Complete
<1>1. /\ C \subseteq visible /\ P \subseteq visible /\ visible \subseteq Events
      /\ \A f \in visible : created[f] \in Nat
  BY DEF Candidates, Typed, TypeOK, Times
<1>2. \A f \in visible : f # e /\ created[f] = created[e] => Excused(d, e)
  BY DEF Ties, Excused
<1>3. page \subseteq P /\ P # {} /\ P \subseteq Events
  BY <1>1 DEF PagesOf
<1>4. /\ Earliest(P) \in P /\ \A f \in P : created[Earliest(P)] <= created[f]
      /\ Latest(P) \in P /\ \A f \in P : created[f] <= created[Latest(P)]
  BY <1>3, EarliestIs, LatestIs DEF Typed
<1>5. CASE e \notin C
  <2>1. since = 0 => e \in Candidates(Owner[d], since, TRUE)
    BY DEF Candidates, Selected
  <2>2. e \in Candidates(Owner[d], since, TRUE) \/ e \in delivered \/ ~(created[e] > since)
    BY DEF Candidates, Selected
  <2>3. created[e] \in Nat
    BY <1>1
  <2> QED BY <1>5, <2>2, <2>3 DEF Safe, Excused
<1>6. CASE e \in C \ P
  <2>1. \A p \in P : Precedes(p, e, since)
    BY <1>6 DEF IsPage
  <2>2. CASE since = 0
    <3>1. \A p \in P : created[e] <= created[p] /\ p # e
      BY <1>6, <2>1, <2>2 DEF Precedes
    <3>2. ASSUME NEW p \in page PROVE Excused(d, e) \/ created[e] < created[p]
      <4>1. p \in visible /\ p # e /\ (created[p] = created[e] \/ created[e] < created[p])
        BY <1>1, <1>3, <3>1
      <4> QED BY <1>2, <4>1
    <3> QED BY <2>2, <3>2
  <2>3. CASE since # 0
    <3>1. \A p \in P : created[p] <= created[e] /\ p # e
      BY <1>6, <2>1, <2>3 DEF Precedes
    <3>2. PICK p \in P : NextCursor(P, since) = created[p] \/ NextCursor(P, since) = 0
      BY <1>3, NextCursorOf DEF Typed
    <3>3. created[e] # 0
      BY DEF Typed, Stamped
    <3>4. CASE NextCursor(P, since) = 0
      <4>1. created[e] \in Nat
        BY <1>1
      <4>2. 0 < created[e]
        BY <3>3, <4>1
      <4> QED BY <3>4, <4>2
    <3>5. CASE NextCursor(P, since) = created[p]
      <4>1. p \in visible /\ p # e /\ (created[p] = created[e] \/ created[p] < created[e])
        BY <1>1, <3>1, <3>2
      <4> QED BY <1>2, <3>5, <4>1
    <3> QED BY <3>2, <3>4, <3>5
  <2> QED BY <2>2, <2>3
<1>7. CASE e \in P \ page
  <2>1. /\ IsCut(P) /\ page = P \ {e} /\ \A f \in P : created[f] <= created[e]
        /\ NextCursor(P, since) = CursorCreated(P, since)
    BY <1>7 DEF PagesOf, NextCursor
  <2>2. CASE since = 0
    <3> DEFINE Q == P \ {Earliest(P)}
               y == Earliest(Q)
    <3>1. Q \subseteq Events /\ Q # {} /\ Q \ {e} # {}
      BY <1>3, <2>1, CutPage
    <3>2. y \in Q /\ \A f \in Q : created[y] <= created[f]
      <4> HIDE DEF Q
      <4> QED BY <3>1, EarliestIs DEF Typed
    <3>3. NextCursor(P, since) = created[y]
      BY <2>1, <2>2 DEF CursorCreated
    <3>4. PICK w \in Q : w # e
      BY <3>1
    <3> HIDE DEF y
    <3>5. y \in visible /\ w \in visible /\ created[y] \in Nat /\ created[w] \in Nat /\ created[e] \in Nat
      BY <1>1, <1>7, <3>2, <3>4
    <3>6. created[y] <= created[e] /\ created[w] <= created[e]
      BY <2>1, <3>2, <3>4
    <3>7. CASE y # e
      <4>1. created[y] = created[e] \/ created[y] < created[e]
        BY <3>5, <3>6
      <4> QED BY <1>2, <3>3, <3>5, <3>7, <4>1
    <3>8. CASE y = e
      <4>1. created[e] <= created[w]
        BY <3>2, <3>4, <3>8
      <4>2. created[w] = created[e]
        BY <3>5, <3>6, <4>1
      <4> QED BY <1>2, <3>4, <3>5, <4>2
    <3> QED BY <3>7, <3>8
  <2>3. CASE since # 0
    <3> DEFINE Q == P \ {Latest(P)}
               y == Latest(Q)
    <3>1. Q \subseteq Events /\ Q # {}
      BY <1>3, <2>1, CutPage
    <3>2. y \in Q
      <4> HIDE DEF Q
      <4> QED BY <3>1, LatestIs DEF Typed
    <3>3. NextCursor(P, since) = created[y]
      BY <2>1, <2>3 DEF CursorCreated
    <3> HIDE DEF y
    <3>4. /\ y \in visible /\ created[y] \in Nat /\ created[e] \in Nat /\ created[y] <= created[e]
          /\ Latest(P) \in visible /\ created[Latest(P)] \in Nat
      BY <1>1, <1>4, <1>7, <2>1, <3>2
    <3>5. CASE y # e
      <4>1. created[y] = created[e] \/ created[y] < created[e]
        BY <3>4
      <4> QED BY <1>2, <3>3, <3>4, <3>5, <4>1
    <3>6. CASE y = e
      <4>1. Latest(P) # e /\ created[Latest(P)] = created[e]
        <5>1. created[Latest(P)] <= created[e] /\ created[e] <= created[Latest(P)]
          BY <1>4, <1>7, <2>1
        <5> QED BY <3>2, <3>4, <3>6, <5>1
      <4> QED BY <1>2, <3>4, <4>1
    <3> QED BY <3>5, <3>6
  <2> QED BY <2>2, <2>3
<1> QED BY <1>5, <1>6, <1>7

-----------------------------------------------------------------------------
\* A query leaves a good request.
LEMMA QueryGood ==
  ASSUME Typed, Typed', Sited, PageSize >= 2, IInv, DbGrows, NEW s \in Slots, Query(s)
  PROVE  Good(sync[s])'
<1>1. sync[s].dev \in Devices /\ sync[s] \in SlotType /\ Good(sync[s]) /\ sync[s].pc = "query"
  BY DEF Query, Sited, Typed, TypeOK, IInv
<1>2. PICK d \in Devices, since \in Nat, live \in BOOLEAN :
        d = sync[s].dev /\ since = sync[s].since /\ live = sync[s].live
  BY <1>1 DEF SlotType, Times
<1>3. UNCHANGED <<visible, created, disorder, delivered, got, horizon>>
  BY DEF Query, db, client
<1>4. Known(since) /\ (live => Safe(d, since))
  BY <1>1, <1>2 DEF Good
<1>5. PICK rooms \in BOOLEAN, P \in SUBSET Events, page \in SUBSET Events, r \in SlotType :
        Result(s, rooms, P, page, r)
  BY QueryPage
<1>6. PICK C : C = Candidates(Owner[d], since, rooms)
  OBVIOUS
<1>7. /\ sync' = [sync EXCEPT ![s] = r] /\ P \subseteq C /\ IsPage(P, C, since) /\ page \in PagesOf(P)
      /\ r.pc = "mark" /\ r.page = page /\ r.next = NextCursor(P, since)
      /\ r.dev = d /\ r.since = since /\ r.live = live
      /\ overlooked' = overlooked \cup ({d} \X ((Candidates(Owner[d], since, TRUE) \ C)
                                                  \cup Unreturned(P, page)))
  BY <1>2, <1>5, <1>6 DEF Result
<1>8. sync'[s] = r
  BY <1>7, SlotTyped DEF Typed
<1>9. P \subseteq visible /\ page \subseteq P /\ visible \subseteq Events
  BY <1>6, <1>7 DEF Candidates, PagesOf, Typed, TypeOK
<1>10. Known(since)' /\ (live => Safe(d, since)')
  <2>1. Grows(d)
    <3>1. horizon[d] \in Nat
      BY DEF Typed, TypeOK, Times
    <3>2. overlooked \subseteq overlooked'
      BY <1>7
    <3> QED BY <1>3, <3>1, <3>2 DEF Grows
  <2> QED BY <1>4, <2>1, KnownStays, Persist
<1>11. Known(r.next)'
  <2>1. r.next = 0 \/ \E p \in P : r.next = created[p]
    BY <1>7, <1>9, NextCursorOf DEF Typed
  <2> QED BY <1>3, <1>9, <2>1 DEF Known
<1>12. ASSUME live, page # {} PROVE Covers(r)'
  <2>1. ASSUME NEW e \in visible \cap Mine(Owner[d])
        PROVE  \/ e \in page \/ Excused(d, e) \/ e \in Candidates(Owner[d], since, TRUE) \ C
               \/ r.next < created[e]
               \/ since = 0 /\ \A p \in page : created[e] < created[p]
    <3>1. /\ Ties /\ Safe(d, since) /\ P \subseteq C /\ IsPage(P, C, since) /\ page \in PagesOf(P)
          /\ C = Candidates(Owner[d], since, rooms)
      BY <1>4, <1>6, <1>7, <1>12 DEF IInv
    <3>2. Complete(d, since, C, P, page)
      BY <1>2, <1>5, <1>12, <3>1, PageCovers
    <3> QED BY <1>7, <2>1, <3>2 DEF Complete
  <2>2. \A e \in Candidates(Owner[d], since, TRUE) \ C : <<d, e>> \in overlooked'
    BY <1>7
  <2>3. \A e : (e \in Mine(Owner[d]))' <=> e \in Mine(Owner[d])
    BY DEF Mine, Reads
  <2>4. overlooked \subseteq overlooked'
    BY <1>7
  <2>5. ASSUME NEW e \in visible \cap Mine(Owner[d])
        PROVE  \/ e \in page \/ Excused(d, e)' \/ r.next < created[e]
               \/ since = 0 /\ \A p \in page : created[e] < created[p]
    BY <1>3, <2>1, <2>2, <2>4 DEF Excused
  <2> QED BY <1>3, <1>7, <2>3, <2>5 DEF Covers
<1> QED BY <1>3, <1>7, <1>8, <1>9, <1>10, <1>11, <1>12 DEF Good

\* A free slot is good, and so is a request that begins with the client's cursor.
LEMMA BeginGood ==
  ASSUME Typed, Typed', IInv, DbGrows, NEW s \in Slots,
         \/ sync'[s] = FreeSlot
         \/ \E d \in Devices : StartSync(s, d) /\
              sync'[s] = [FreeSlot EXCEPT !.pc = "query", !.dev = d, !.since = cursor[d], !.live = TRUE]
  PROVE  Good(sync[s])'
<1>1. CASE sync'[s] = FreeSlot
  BY <1>1 DEF Good, FreeSlot, Known
<1>2. ASSUME NEW d \in Devices, StartSync(s, d),
        sync'[s] = [FreeSlot EXCEPT !.pc = "query", !.dev = d, !.since = cursor[d], !.live = TRUE]
      PROVE  Good(sync[s])'
  <2>1. PICK t \in Nat : t = cursor[d]
    BY DEF Typed, TypeOK, Times
  <2>2. /\ sync'[s].pc = "query" /\ sync'[s].dev = d /\ sync'[s].since = t
        /\ sync'[s].next = 0 /\ sync'[s].page = {}
    BY <1>2, <2>1 DEF FreeSlot
  <2>3. Known(t) /\ Safe(d, t)
    BY <2>1 DEF IInv
  <2>4. Grows(d)
    <3>1. UNCHANGED <<got, horizon, overlooked>>
      BY <1>2 DEF StartSync, client
    <3> QED BY <3>1, StillGrows
  <2>5. Known(t)' /\ Safe(d, t)'
    BY <2>3, <2>4, KnownStays, Persist
  <2> QED BY <2>2, <2>5 DEF Good, Known
<1> QED BY <1>1, <1>2

\* Every request stays good.
LEMMA SlotStep ==
  ASSUME Typed, Typed', Sited, PageSize >= 2, IInv, DbGrows, [Next]_vars, NEW s \in Slots
  PROVE  Good(sync[s])'
<1>1. CASE Query(s)
  BY <1>1, QueryGood
<1>2. CASE \/ sync'[s] = FreeSlot
           \/ \E d \in Devices : StartSync(s, d) /\
                sync'[s] = [FreeSlot EXCEPT !.pc = "query", !.dev = d, !.since = cursor[d], !.live = TRUE]
  BY <1>2, BeginGood
<1>3. CASE /\ sync'[s].pc = sync[s].pc /\ sync'[s].dev = sync[s].dev
           /\ sync'[s].since = sync[s].since /\ sync'[s].page = sync[s].page
           /\ sync'[s].next = sync[s].next /\ (sync'[s].live => sync[s].live)
  <2>1. PICK r \in SlotType, q \in SlotType : r = sync[s] /\ q = sync'[s]
    BY DEF Typed, TypeOK
  <2>2. Good(r)
    BY <2>1 DEF IInv
  <2>3. ASSUME q.live PROVE r.live /\ r.dev \in Devices /\ Grows(r.dev)
    <3>1. r.live /\ r.pc # "free" /\ r.dev \in Devices
      BY <1>3, <2>1, <2>2, <2>3 DEF Good, Sited
    <3>2. PICK d \in Devices : d = r.dev
      BY <3>1
    <3>3. Grows(d)
      BY <1>3, <2>1, <2>3, <3>2, DeviceStep
    <3> QED BY <3>1, <3>2, <3>3
  <2>4. Good(q)'
    BY <1>3, <2>1, <2>2, <2>3, GoodStays
  <2> QED BY <2>1, <2>4
<1> QED BY <1>1, <1>2, <1>3, SlotEffect

\* The cursor of a client stays where it is, returns to the first load or is that
\* of a page it waits for.
LEMMA CursorStep ==
  ASSUME Typed, Typed', Sited, IInv, DbGrows, [Next]_vars, NEW d \in Devices
  PROVE  Known(cursor[d])' /\ Safe(d, cursor[d])'
<1>1. ASSUME cursor'[d] = 0 PROVE Known(cursor[d])' /\ Safe(d, cursor[d])'
  <2>1. \A e \in visible' : created'[e] \in Nat /\ created'[e] # 0
    BY DEF Typed, TypeOK, Stamped, Times
  <2>2. \A e \in visible' : 0 < created'[e]
    BY <2>1
  <2> QED BY <1>1, <2>2 DEF Known, Safe
<1>2. ASSUME cursor'[d] = cursor[d], Grows(d) PROVE Known(cursor[d])' /\ Safe(d, cursor[d])'
  <2>1. PICK t \in Nat : t = cursor[d]
    BY DEF Typed, TypeOK, Times
  <2>2. Known(t) /\ Safe(d, t)
    BY <2>1 DEF IInv
  <2>3. Known(t)' /\ Safe(d, t)'
    BY <1>2, <2>2, KnownStays, Persist
  <2> QED BY <1>2, <2>1, <2>3
<1>3. ASSUME NEW s \in Slots, FinishSync(s), cursor'[d] # cursor[d]
      PROVE  Known(cursor[d])' /\ Safe(d, cursor[d])'
  <2>1. PICK r \in SlotType : r = sync[s]
    BY DEF Typed, TypeOK
  <2>2. r.pc = "mark" /\ r.dev \in Devices /\ Good(r)
    BY <1>3, <2>1 DEF FinishSync, Sited, IInv
  <2>3. /\ d = r.dev /\ r.live /\ r.page # {} /\ cursor'[d] = r.next
        /\ r.since = 0 => \A t \in Nat : (\A p \in r.page : t < created[p]) => t < horizon'[d]
        /\ got[d] \subseteq got'[d] /\ horizon[d] <= horizon'[d]
        /\ got'[d] = got[d] \cup r.page
    BY <1>3, <2>1, <2>2, ReplyEffect
  <2>4. UNCHANGED <<visible, created, disorder, delivered, overlooked>>
    BY <1>3 DEF FinishSync, db
  <2>5. Known(cursor[d])'
    BY <2>2, <2>3, <2>4 DEF Good, Known
  <2>6. Covers(r)
    BY <2>2, <2>3 DEF Good
  <2>7. ASSUME NEW e \in visible \cap Mine(Owner[d]) PROVE Excused(d, e)' \/ cursor'[d] < created[e]
    <3>1. created[e] \in Nat /\ horizon[d] \in Nat /\ horizon'[d] \in Nat
      BY DEF Typed, TypeOK, Times
    <3>2. \/ e \in r.page \/ Excused(d, e) \/ r.next < created[e]
          \/ r.since = 0 /\ \A p \in r.page : created[e] < created[p]
      BY <2>3, <2>6, <2>7 DEF Covers
    <3>3. CASE e \in r.page
      BY <2>3, <3>3 DEF Excused
    <3>4. CASE Excused(d, e)
      <4>1. created[e] < horizon[d] => created[e] < horizon'[d]
        BY <2>3, <3>1
      <4> QED BY <2>3, <2>4, <3>4, <4>1 DEF Excused
    <3>5. CASE r.since = 0 /\ \A p \in r.page : created[e] < created[p]
      BY <2>3, <2>4, <3>1, <3>5 DEF Excused
    <3> QED BY <2>3, <3>2, <3>3, <3>4, <3>5
  <2>8. \A e : (e \in Mine(Owner[d]))' <=> e \in Mine(Owner[d])
    BY DEF Mine, Reads
  <2> QED BY <2>4, <2>5, <2>7, <2>8 DEF Safe
<1>4. cursor'[d] = cursor[d] \/ (\E s \in Slots : FinishSync(s)) \/ cursor'[d] = 0
  <2>1. cursor \in [Devices -> Times]
    BY DEF Typed, TypeOK
  <2>2. ASSUME NEW c \in Devices, Reload(c) PROVE cursor'[d] = cursor[d] \/ cursor'[d] = 0
    BY <2>1, <2>2 DEF Reload
  <2>3. ASSUME NEW e \in Events, BeginInsert(e) \/ CommitInsert(e) PROVE cursor' = cursor
    BY <2>3 DEF BeginInsert, CommitInsert, client
  <2>4. ASSUME NEW s \in Slots, (\E c \in Devices : StartSync(s, c)) \/ Query(s) \/ MarkDelivered(s) \/ LoseReply(s)
        PROVE  cursor' = cursor
    BY <2>4 DEF StartSync, Query, MarkDelivered, LoseReply, client
  <2>5. CASE UNCHANGED vars
    BY <2>5 DEF vars, client
  <2> QED BY <2>2, <2>3, <2>4, <2>5 DEF Next
<1>5. Grows(d) \/ cursor'[d] = 0
  BY DeviceStep
<1> QED BY <1>1, <1>2, <1>3, <1>4, <1>5

\* IInv holds initially.
LEMMA InitIInv == Init => IInv
BY DEF Init, IInv, Ties, Known, Safe, Good, FreeSlot

\* IInv is kept by every step, for pages of two rows or more.
LEMMA NextIInv ==
  ASSUME PageSize >= 2
  PROVE  Typed /\ Sited /\ IInv /\ [Next]_vars => Typed' /\ Sited' /\ IInv'
<1> SUFFICES ASSUME Typed, Sited, IInv, [Next]_vars PROVE Typed' /\ Sited' /\ IInv'
  OBVIOUS
<1>1. Typed' /\ Sited'
  BY TypedStep
<1>2. DbGrows /\ Ties'
  BY DbStep DEF IInv
<1>3. \A s \in Slots : Good(sync[s])'
  BY <1>1, <1>2, SlotStep
<1>4. \A d \in Devices : Known(cursor[d])' /\ Safe(d, cursor[d])'
  BY <1>1, <1>2, CursorStep
<1> QED BY <1>1, <1>2, <1>3, <1>4 DEF IInv

\* The cursor never passes a row that is still queued (relay.Service.Sync and the
\* polling of Chat.tsx): whatever the number of requests in flight, lost replies,
\* reloads, discarded errors and the order in which rows commit.
THEOREM SyncCursorSkipsNothing ==
  ASSUME PageSize >= 2
  PROVE  Spec => []CursorSkipsNothing
<1>1. Init => Typed /\ Sited /\ IInv
  BY TypedInit, InitIInv
<1>2. Typed /\ Sited /\ IInv /\ [Next]_vars => Typed' /\ Sited' /\ IInv'
  BY NextIInv
<1>3. IInv => CursorSkipsNothing
  BY DEF IInv, Safe, Excused, CursorSkipsNothing
<1> QED BY <1>1, <1>2, <1>3, PTL DEF Spec

-----------------------------------------------------------------------------
\* Requests stay awaited.
LEMMA AwaitedStep ==
  ASSUME ~Faults, Typed, Kept, [Next]_vars, NEW s \in Slots
  PROVE  Awaited(sync[s])'
<1>1. Awaited(sync[s])
  BY DEF Kept
<1>2. CASE Query(s)
  <2>1. PICK r \in SlotType, page \in SUBSET Events :
          /\ sync' = [sync EXCEPT ![s] = r] /\ r.pc = "mark" /\ r.page = page
          /\ r.live = sync[s].live /\ r.todo \subseteq page
    BY <1>2, QueryPage DEF Result
  <2>2. sync'[s] = r
    BY <2>1, SlotTyped DEF Typed
  <2>3. sync[s].pc = "query"
    BY <1>2 DEF Query
  <2> QED BY <1>1, <2>1, <2>2, <2>3 DEF Awaited
<1>3. CASE sync'[s] = FreeSlot
  BY <1>3 DEF Awaited, FreeSlot
<1>4. ASSUME NEW d \in Devices,
        sync'[s] = [FreeSlot EXCEPT !.pc = "query", !.dev = d, !.since = cursor[d], !.live = TRUE]
      PROVE  Awaited(sync[s])'
  BY <1>4 DEF Awaited, FreeSlot
<1>5. CASE /\ sync'[s].pc = sync[s].pc /\ sync'[s].page = sync[s].page
           /\ sync'[s].todo \subseteq sync[s].todo /\ sync'[s].live = sync[s].live
  BY <1>1, <1>5 DEF Awaited
<1> QED BY <1>2, <1>3, <1>4, <1>5, SlotEffect

\* A row on its way to a device is received or still on its way after a step.
LEMMA PageStep ==
  ASSUME ~Faults, Typed, Sited, Kept, [Next]_vars, NEW d \in Devices, NEW e \in Events,
         NEW s \in Slots, sync[s].dev = d, e \in sync[s].page
  PROVE  e \in got'[d] \/ (sync'[s].dev = d /\ e \in sync'[s].page)
<1>1. sync[s].pc = "mark" /\ sync[s].live
  BY DEF Kept, Awaited
<1>2. ~Query(s) /\ \A c \in Devices : ~StartSync(s, c)
  BY <1>1 DEF Query, StartSync
<1>3. ASSUME FinishSync(s) PROVE e \in got'[d]
  BY <1>1, <1>3, ReplyEffect
<1>4. \/ FinishSync(s) \/ (sync'[s].dev = sync[s].dev /\ sync'[s].page = sync[s].page)
  BY <1>2, SlotEffect
<1> QED BY <1>3, <1>4

\* What is reached stays reached while the device grows.
LEMMA ReachedStays ==
  ASSUME ~Faults, Typed, Typed', Sited, Kept, DbGrows, [Next]_vars,
         NEW d \in Devices, Grows(d), NEW e \in visible, Reached(d, e)
  PROVE  Reached(d, e)'
<1>1. e \in Events /\ created'[e] = created[e] /\ created[e] \in Nat
      /\ horizon[d] \in Nat /\ horizon'[d] \in Nat /\ horizon[d] <= horizon'[d]
  BY DEF Typed, TypeOK, Times, DbGrows, Grows
<1>2. CASE e \in got[d] \/ <<d, e>> \in overlooked
  BY <1>1, <1>2 DEF Grows, Reached
<1>3. CASE created[e] < horizon[d]
  <2>1. created'[e] < horizon'[d]
    BY <1>1, <1>3
  <2> QED BY <2>1 DEF Reached
<1>4. ASSUME NEW s \in Slots, sync[s].dev = d, e \in sync[s].page PROVE Reached(d, e)'
  BY <1>1, <1>4, PageStep DEF Reached
<1> QED BY <1>2, <1>3, <1>4 DEF Reached

\* A row is marked delivered while it is on its way to the only device.
LEMMA SettledStep ==
  ASSUME ~Faults, NEW d0, Devices = {d0}, Typed, Typed', Sited, IInv, Kept, DbGrows, [Next]_vars,
         NEW d \in Devices, NEW e \in delivered'
  PROVE  /\ e \in visible
         /\ e \in delivered \/ Reached(d, e)'
<1>1. CASE e \in delivered
  BY <1>1 DEF Kept
<1>2. CASE e \notin delivered
  <2>1. PICK s \in Slots : MarkDelivered(s)
    <3>1. ASSUME NEW s \in Slots,
                 (\E c \in Devices : StartSync(s, c)) \/ Query(s) \/ FinishSync(s) \/ LoseReply(s)
          PROVE  delivered' = delivered
      BY <3>1 DEF StartSync, Query, FinishSync, LoseReply
    <3>2. ASSUME NEW f \in Events, BeginInsert(f) \/ CommitInsert(f) PROVE delivered' = delivered
      BY <3>2 DEF BeginInsert, CommitInsert
    <3>3. ASSUME NEW c \in Devices, Reload(c) PROVE delivered' = delivered
      BY <3>3 DEF Reload
    <3>4. CASE UNCHANGED vars
      BY <1>2, <3>4 DEF vars
    <3> QED BY <1>2, <3>1, <3>2, <3>3, <3>4 DEF Next
  <2>2. e \in sync[s].todo /\ sync[s].pc = "mark"
    BY <1>2, <2>1 DEF MarkDelivered
  <2>3. e \in sync[s].page /\ sync[s].dev = d /\ sync[s].page \subseteq visible
    BY <2>2 DEF Kept, Awaited, Sited, IInv, Good
  <2>4. e \in Events
    BY <2>3 DEF Typed, TypeOK, SlotType
  <2>5. e \in got'[d] \/ (sync'[s].dev = d /\ e \in sync'[s].page)
    BY <2>3, <2>4, PageStep
  <2> QED BY <2>3, <2>5 DEF Reached
<1> QED BY <1>1, <1>2

\* A query answers with a cursor, and a first load accounts for the delivered rows.
LEMMA QueryKept ==
  ASSUME ~Faults, Typed, Typed', Sited, IInv, Kept, NEW s \in Slots, Query(s), sync'[s].page # {}
  PROVE  sync'[s].next # 0 /\ (sync'[s].since = 0 => Loaded(sync[s])')
<1>1. sync[s].dev \in Devices /\ sync[s] \in SlotType
  BY DEF Query, Sited, Typed, TypeOK
<1>2. PICK d \in Devices, since \in Nat : d = sync[s].dev /\ since = sync[s].since
  BY <1>1 DEF SlotType, Times
<1>3. UNCHANGED <<visible, created, disorder, delivered, got, horizon>>
  BY DEF Query, db, client
<1>4. PICK C : C = Candidates(Owner[d], since, TRUE)
  OBVIOUS
<1>5. PICK P \in SUBSET C, page \in SUBSET Events, r \in SlotType :
        /\ sync' = [sync EXCEPT ![s] = r] /\ IsPage(P, C, since) /\ page \in PagesOf(P)
        /\ r.page = page /\ r.next = NextCursor(P, since) /\ r.dev = d /\ r.since = since
        /\ \A e \in Unreturned(P, page) : <<d, e>> \in overlooked'
  <2>1. PICK rooms \in BOOLEAN, P \in SUBSET Events, page \in SUBSET Events, r \in SlotType :
          Result(s, rooms, P, page, r)
    BY QueryPage
  <2>2. /\ sync' = [sync EXCEPT ![s] = r] /\ P \subseteq C /\ IsPage(P, C, since) /\ page \in PagesOf(P)
        /\ r.page = page /\ r.next = NextCursor(P, since) /\ r.dev = d /\ r.since = since
        /\ \A e \in Unreturned(P, page) : <<d, e>> \in overlooked'
    BY <1>2, <1>4, <2>1 DEF Result
  <2> QED BY <2>2
<1>6. sync'[s] = r
  BY <1>5, SlotTyped DEF Typed
<1>7. /\ C \subseteq visible /\ P \subseteq visible /\ visible \subseteq Events /\ page \subseteq P
      /\ \A f \in visible : created[f] \in Nat /\ created[f] # 0
  BY <1>4, <1>5 DEF Candidates, PagesOf, Typed, TypeOK, Stamped, Times
<1>8. r.next # 0
  <2>1. (P = {} /\ NextCursor(P, since) = 0) \/ \E p \in P : NextCursor(P, since) = created[p]
    BY <1>7, NextCursorOf DEF Typed
  <2>2. P # {}
    BY <1>5, <1>6, <1>7
  <2> QED BY <1>5, <1>7, <2>1, <2>2
<1>9. ASSUME since = 0, NEW e \in Settled(d) PROVE Reached(d, e)' \/ \A p \in page : created[e] < created[p]
  <2>1. e \in visible /\ e \in delivered /\ e \notin disorder /\ e \in C
    BY <1>4, <1>9 DEF Settled, Candidates, Selected
  <2>2. CASE e \in page
    BY <1>5, <1>6, <2>2 DEF Reached
  <2>3. CASE e \in P \ page
    <3>1. <<d, e>> \in overlooked'
      BY <1>5, <2>1, <2>3 DEF Unreturned
    <3> QED BY <3>1 DEF Reached
  <2>4. CASE e \in C \ P
    <3>1. ASSUME NEW p \in page PROVE created[e] < created[p]
      <4>1. p \in P /\ p # e /\ Precedes(p, e, since) /\ p \in visible
        BY <1>5, <1>7, <2>4 DEF IsPage
      <4>2. created[e] <= created[p]
        BY <1>9, <4>1 DEF Precedes
      <4>3. created[p] # created[e]
        BY <2>1, <4>1 DEF IInv, Ties
      <4> QED BY <1>7, <2>1, <4>1, <4>2, <4>3
    <3> QED BY <3>1
  <2> QED BY <2>1, <2>2, <2>3, <2>4
<1>10. Settled(d)' = Settled(d)
  BY <1>3 DEF Settled, Mine, Reads
<1> QED BY <1>3, <1>5, <1>6, <1>8, <1>9, <1>10 DEF Loaded

\* Opening the page again leaves everything to its first load.
LEMMA ReloadKept ==
  ASSUME ~Faults, NEW d0, Devices = {d0}, Typed, Sited, Kept, NEW d \in Devices, Reload(d)
  PROVE  Kept'
<1>1. /\ \A s \in Slots : sync[s].dev # d
      /\ sync' = [s \in Slots |-> IF sync[s].dev = d THEN [sync[s] EXCEPT !.live = FALSE] ELSE sync[s]]
      /\ cursor' = [cursor EXCEPT ![d] = 0] /\ UNCHANGED <<delivered, visible>>
      /\ cursor \in [Devices -> Times]
  BY DEF Reload, db, Typed, TypeOK
<1>2. \A s \in Slots : sync'[s] = sync[s] /\ sync[s].pc = "free"
  BY <1>1 DEF Sited
<1>3. \A s \in Slots : sync[s].page = {} /\ Awaited(sync[s])
  BY <1>2 DEF Kept, Awaited
<1>4. \A c \in Devices : cursor'[c] = 0
  BY <1>1
<1>5. \A s \in Slots : Awaited(sync[s])'
  BY <1>2, <1>3 DEF Awaited
<1> QED BY <1>1, <1>2, <1>3, <1>4, <1>5 DEF Kept

\* The cursor of a page that is not opened again is left alone or set by a reply,
\* never to that of a first load.
LEMMA CursorMoves ==
  ASSUME ~Faults, Typed, Sited, Kept, [Next]_vars, NEW d \in Devices, ~Reload(d), cursor'[d] # cursor[d]
  PROVE  /\ cursor'[d] # 0
         /\ \E s \in Slots : FinishSync(s) /\ sync[s].dev = d /\ sync[s].live /\ sync[s].page # {}
<1>1. cursor \in [Devices -> Times]
  BY DEF Typed, TypeOK
<1>2. PICK s \in Slots : FinishSync(s)
  <2>1. ASSUME NEW c \in Devices, Reload(c) PROVE FALSE
    BY <1>1, <2>1 DEF Reload
  <2>2. ASSUME NEW e \in Events, BeginInsert(e) \/ CommitInsert(e) PROVE FALSE
    BY <2>2 DEF BeginInsert, CommitInsert, client
  <2>3. ASSUME NEW s \in Slots, (\E c \in Devices : StartSync(s, c)) \/ Query(s) \/ MarkDelivered(s) \/ LoseReply(s)
        PROVE  FALSE
    BY <2>3 DEF StartSync, Query, MarkDelivered, LoseReply, client
  <2>4. CASE UNCHANGED vars
    BY <2>4 DEF vars, client
  <2> QED BY <2>1, <2>2, <2>3, <2>4 DEF Next
<1>3. sync[s].dev \in Devices
  BY <1>2 DEF FinishSync, Sited
<1>4. d = sync[s].dev /\ sync[s].live /\ sync[s].page # {} /\ cursor'[d] = sync[s].next
  BY <1>2, <1>3, ReplyEffect
<1> QED BY <1>2, <1>4 DEF Kept

\* Kept is kept by every step.
LEMMA KeptStep ==
  ASSUME ~Faults, NEW d0, Devices = {d0}, Typed, Typed', Sited, IInv, Kept, [Next]_vars
  PROVE  Kept'
<1>1. CASE \E d \in Devices : Reload(d)
  BY <1>1, ReloadKept
<1>2. CASE \A d \in Devices : ~Reload(d)
  <2>1. DbGrows /\ \A d \in Devices : Grows(d)
    BY <1>2, DbStep, DeviceStep DEF IInv
  <2>2. ASSUME NEW d \in Devices, NEW e \in Settled(d)' PROVE e \in Settled(d) \/ Reached(d, e)'
    <3>1. e \in delivered' /\ e \notin disorder' /\ e \in Mine(Owner[d])
      BY <2>2 DEF Settled, Mine, Reads
    <3>2. e \in visible /\ (e \in delivered \/ Reached(d, e)')
      BY <2>1, <3>1, SettledStep
    <3> QED BY <2>1, <3>1, <3>2 DEF Settled, DbGrows
  <2>3. ASSUME NEW d \in Devices, NEW e \in Settled(d), Reached(d, e) PROVE Reached(d, e)'
    BY <2>1, <2>3, ReachedStays DEF Settled
  <2>4. delivered' \subseteq visible'
    BY <2>1, SettledStep DEF DbGrows
  <2>5. \A s \in Slots : Awaited(sync[s])'
    BY AwaitedStep
  <2>6. ASSUME NEW s \in Slots, sync'[s].page # {}
        PROVE  sync'[s].next # 0 /\ (sync'[s].since = 0 => Loaded(sync[s])')
    <3>1. CASE Query(s)
      BY <2>6, <3>1, QueryKept
    <3>2. CASE sync'[s] = FreeSlot
      BY <2>6, <3>2 DEF FreeSlot
    <3>3. ASSUME NEW d \in Devices,
            sync'[s] = [FreeSlot EXCEPT !.pc = "query", !.dev = d, !.since = cursor[d], !.live = TRUE]
          PROVE  FALSE
      BY <2>6, <3>3 DEF FreeSlot
    <3>4. CASE /\ sync'[s].pc = sync[s].pc /\ sync'[s].dev = sync[s].dev
               /\ sync'[s].since = sync[s].since /\ sync'[s].page = sync[s].page
               /\ sync'[s].next = sync[s].next
      <4>1. sync'[s].next # 0
        BY <2>6, <3>4 DEF Kept
      <4>2. ASSUME sync'[s].since = 0 PROVE Loaded(sync[s])'
        <5>1. PICK d \in Devices, page \in SUBSET visible :
                sync[s].dev = d /\ sync'[s].dev = d /\ sync[s].page = page /\ sync'[s].page = page
          BY <2>6, <3>4 DEF Kept, Awaited, Sited, IInv, Good
        <5>2. \A e \in Settled(d) : Reached(d, e) \/ \A p \in page : created[e] < created[p]
          BY <2>6, <3>4, <4>2, <5>1 DEF Kept, Loaded
        <5>3. ASSUME NEW e \in Settled(d)' PROVE Reached(d, e)' \/ \A p \in page : created'[e] < created'[p]
          <6>1. CASE e \in Settled(d)
            <7>1. e \in visible /\ created'[e] = created[e] /\ \A p \in page : created'[p] = created[p]
              BY <2>1, <5>1, <6>1 DEF Settled, DbGrows
            <7> QED BY <2>3, <5>2, <6>1, <7>1
          <6>2. CASE e \notin Settled(d)
            BY <2>2, <6>2
          <6> QED BY <6>1, <6>2
        <5> QED BY <5>1, <5>3 DEF Loaded
      <4> QED BY <4>1, <4>2
    <3> QED BY <3>1, <3>2, <3>3, <3>4, SlotEffect
  <2>7. ASSUME NEW d \in Devices, cursor'[d] = 0 PROVE cursor[d] = 0
    BY <1>2, <2>7, CursorMoves
  <2>8. ASSUME NEW s \in Slots, sync'[s].pc # "free", cursor'[sync'[s].dev] = 0 PROVE sync'[s].since = 0
    <3>1. CASE Query(s)
      <4>1. PICK r \in SlotType : sync' = [sync EXCEPT ![s] = r] /\ r.dev = sync[s].dev /\ r.since = sync[s].since
        BY <3>1, QueryPage DEF Result
      <4>2. sync'[s] = r /\ sync[s].pc = "query" /\ sync[s].dev \in Devices
        BY <3>1, <4>1, SlotTyped DEF Typed, Query, Sited
      <4> QED BY <2>7, <2>8, <4>1, <4>2 DEF Kept
    <3>2. CASE sync'[s] = FreeSlot
      BY <2>8, <3>2 DEF FreeSlot
    <3>3. ASSUME NEW d \in Devices,
            sync'[s] = [FreeSlot EXCEPT !.pc = "query", !.dev = d, !.since = cursor[d], !.live = TRUE]
          PROVE  sync'[s].since = 0
      <4>1. sync'[s].dev = d /\ sync'[s].since = cursor[d]
        BY <3>3 DEF FreeSlot
      <4> QED BY <2>7, <2>8, <4>1
    <3>4. CASE /\ sync'[s].pc = sync[s].pc /\ sync'[s].dev = sync[s].dev
               /\ sync'[s].since = sync[s].since
      <4>1. sync[s].pc # "free" /\ sync[s].dev \in Devices
        BY <2>8, <3>4 DEF Sited
      <4> QED BY <2>7, <2>8, <3>4, <4>1 DEF Kept
    <3> QED BY <3>1, <3>2, <3>3, <3>4, SlotEffect
  <2>9. ASSUME NEW d \in Devices, cursor'[d] # 0, NEW e \in Settled(d)' PROVE Reached(d, e)'
    <3>1. CASE e \notin Settled(d)
      BY <2>2, <2>9, <3>1
    <3>2. CASE e \in Settled(d) /\ cursor[d] # 0
      BY <2>3, <3>2 DEF Kept
    <3>3. CASE e \in Settled(d) /\ cursor[d] = 0
      <4>1. PICK s \in Slots : FinishSync(s) /\ sync[s].dev = d /\ sync[s].live /\ sync[s].page # {}
        BY <1>2, <2>9, <3>3, CursorMoves
      <4>2. sync[s].since = 0 /\ Loaded(sync[s])
        BY <3>3, <4>1 DEF Kept, FinishSync
      <4>3. Reached(d, e) \/ \A p \in sync[s].page : created[e] < created[p]
        BY <3>3, <4>1, <4>2 DEF Loaded
      <4>4. CASE Reached(d, e)
        BY <2>3, <3>3, <4>4
      <4>5. CASE \A p \in sync[s].page : created[e] < created[p]
        <5>1. e \in visible /\ created[e] \in Nat /\ created'[e] = created[e]
          BY <2>1, <3>3 DEF Settled, Typed, TypeOK, Times, DbGrows
        <5>2. cursor'[d] # cursor[d]
          BY <2>9, <3>3
        <5>3. created[e] < horizon'[d]
          BY <4>1, <4>2, <4>5, <5>1, <5>2, ReplyEffect
        <5> QED BY <5>1, <5>3 DEF Reached
      <4> QED BY <4>3, <4>4, <4>5
    <3> QED BY <3>1, <3>2, <3>3
  <2> QED BY <2>4, <2>5, <2>6, <2>8, <2>9 DEF Kept
<1> QED BY <1>1, <1>2

\* On one device, as long as no reply is lost and no lookup fails, every due message is
\* in the client's state, on its way in a reply, or in the result of the next sync,
\* however often the page is opened again (relay.Service.Sync marks delivered what the
\* reply it is about to write holds); except a delivered row that is cut off a first load.
THEOREM SyncNothingOutOfReach ==
  ASSUME ~Faults, PageSize >= 2, NEW CONSTANT d0, Devices = {d0}
  PROVE  Spec => []NothingOutOfReach
<1>1. Init => Typed /\ Sited /\ IInv /\ Kept
  <2>1. Init => Kept
    BY DEF Init, Kept, Awaited, FreeSlot, Settled
  <2> QED BY <2>1, TypedInit, InitIInv
<1>2. Typed /\ Sited /\ IInv /\ Kept /\ [Next]_vars => Typed' /\ Sited' /\ IInv' /\ Kept'
  BY NextIInv, KeptStep
<1>3. Typed /\ IInv /\ Kept => NothingOutOfReach
  <2> SUFFICES ASSUME Typed, IInv, Kept, NEW d \in Devices, NEW e \in Due(d) \ Missed(d), cursor[d] # 0
      PROVE  \/ e \in got[d] \/ (e \notin delivered /\ cursor[d] < created[e])
             \/ \E s \in Slots : sync[s].dev = d /\ sync[s].live /\ e \in sync[s].page
    BY DEF NothingOutOfReach, InReach
  <2>1. /\ e \in visible \cap Mine(Owner[d]) /\ e \in Events /\ horizon[d] <= created[e]
        /\ e \notin disorder /\ <<d, e>> \notin overlooked
    BY DEF Due, Mine, Missed, Typed, TypeOK
  <2>2. horizon[d] \in Nat /\ created[e] \in Nat
    BY <2>1 DEF Typed, TypeOK, Times
  <2>3. ~(created[e] < horizon[d])
    BY <2>1, <2>2
  <2>4. e \in got[d] \/ e \in delivered \/ cursor[d] < created[e]
    <3>1. Excused(d, e) \/ cursor[d] < created[e]
      BY <2>1 DEF IInv, Safe
    <3> QED BY <2>1, <2>3, <3>1 DEF Excused
  <2>5. ASSUME e \in delivered, e \notin got[d]
        PROVE  \E s \in Slots : sync[s].dev = d /\ sync[s].live /\ e \in sync[s].page
    <3>1. e \in Settled(d)
      BY <2>1, <2>5 DEF Settled
    <3>2. PICK s \in Slots : sync[s].dev = d /\ e \in sync[s].page
      BY <2>1, <2>3, <2>5, <3>1 DEF Kept, Reached
    <3>3. sync[s].live
      BY <3>2 DEF Kept, Awaited
    <3> QED BY <3>2, <3>3
  <2> QED BY <2>4, <2>5
<1> QED BY <1>1, <1>2, <1>3, PTL DEF Spec
=============================================================================
