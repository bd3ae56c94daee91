---------------------------- MODULE KeyDirProofs ----------------------------
(***************************************************************************)
(* Proofs about KeyDir, for any number of refreshes, initiators and keys.  *)
(*                                                                         *)
(* OnlyContendedTwice: two initiators hold one key pair only if both found *)
(* it free.  IInv adds that a pair which was claimed is not free any more  *)
(* (Spent), whatever is inserted or rotated meanwhile, because a refresh   *)
(* inserts each of its pairs once (OnceMade, Todo), and that an initiator  *)
(* updates a row that exists (Chosen, Rows).                               *)
(*                                                                         *)
(* OfferedHasSecret is about calm runs: one page at a time that nothing    *)
(* interrupts.  Quiet says of them where a refresh stands (Orderly: the    *)
(* rows of its ids, the room that the quota leaves them, and the signed    *)
(* prekey), that storage and every copy of it hold only secrets of         *)
(* published keys (Belongs), and that a key which is offered has its       *)
(* secret in storage unless a write of another tab undid it (OneTimeHeld,  *)
(* SignedHeld).                                                            *)
(***************************************************************************)
EXTENDS KeyDir, FiniteSetTheorems, WellFoundedInduction, TLAPS

Secret == [id : KeyIds, maker : Makers]

\* The records of refreshes and initiators, as in TypeOK.
Refresh ==
  [pc : {"idle", "reply", "done"} \cup ServerSteps \cup StorageSteps,
   ids : SUBSET KeyIds, rotate : BOOLEAN, todo : SUBSET KeyIds,
   live : BOOLEAN, snap : Storage]

Initiator ==
  [pc : {"idle", "update", "claimed", "removeWrite", "done"},
   id : SecretIds, key : {NoKey} \cup Secret, contended : BOOLEAN, snap : Storage]

Active(q) == q.pc \notin {"idle", "done"}

\* A row has a public key, and no row has none.
Rows == \A k \in KeyIds : st[k] = "absent" <=> pub[k] = None

\* What a refresh has left to insert, by the step it has reached.
Todo(q) ==
  /\ q.pc \in {"spk", "count"} => q.todo = q.ids
  /\ q.pc \in {"count", "mergeRead", "mergeWrite"} => q.ids # {}
  /\ q.pc = "insert" => q.todo # {} /\ q.todo \subseteq q.ids
  /\ q.pc \notin ServerSteps => q.todo = {}

\* The row an initiator is about to update exists; its key is that of its row.
Chosen(c) ==
  /\ c.pc = "update" => c.id \in KeyIds /\ st[c.id] \in {"free", "used"}
  /\ c.pc \in {"claimed", "removeWrite"} => c.id \in KeyIds

\* A pair that was claimed is not free any more.
Spent(c) == c.key = NoKey \/ pub[c.key.id] # c.key.maker \/ st[c.key.id] # "free"

\* A pair that was published or claimed will not be inserted again.
Made(k, r) == pub[k] = r \/ \E i \in Initiators : claim[i].key = [id |-> k, maker |-> r]

OnceMade ==
  \A r \in Refreshes, k \in KeyIds : Made(k, r) => refresh[r].pc # "idle" /\ k \notin refresh[r].todo

IInv ==
  /\ TypeOK /\ Rows
  /\ \A r \in Refreshes : Todo(refresh[r])
  /\ \A i \in Initiators : Chosen(claim[i]) /\ Spent(claim[i])
  /\ OnceMade
  /\ OnlyContendedTwice

-----------------------------------------------------------------------------
\* A refresh of one page, by the step it has reached: its rows were absent before
\* it inserts them and carry its name afterwards.
Orderly(r, q) ==
  Active(q) =>
    /\ q.ids # {} \/ q.rotate
    /\ q.pc \in {"spkRead", "spkWrite"} => q.rotate
    /\ q.pc \in {"spk", "count"} /\ q.ids # {} => Cardinality(Free) + Cardinality(q.ids) <= Quota
    /\ \A k \in q.todo : st[k] = "absent"
    /\ \A k \in KeyIds : k \in q.ids \ q.todo <=> pub[k] = r
    /\ q.rotate /\ q.pc # "spk" => spk = r
    /\ spk = r => q.rotate

\* m has put the secrets of its one-time prekeys into storage.
Merged(m) == m = Registration \/ refresh[m].pc \in {"spkRead", "spkWrite", "done"}

\* What storage, or a copy of it, has is the secret of the published key, except
\* under the ids of the surplus keys.
Belongs(s) == \A k \in KeyIds \ Surplus : s[k] # None => s[k] = pub[k] /\ Merged(s[k])

Alone(r) == \A p \in Refreshes \ {r} : ~ Active(refresh[p])

\* What a message may still need is there, or was undone by accident.
OneTimeHeld == \A k \in Free \ Surplus : Merged(pub[k]) => stored[k] = pub[k] \/ k \in torn
SignedHeld == Finished(spk) => stored[0] = spk \/ 0 \in torn

Quiet ==
  /\ \A k \in KeyIds : st[k] # "old"
  /\ \A r \in Refreshes :
       /\ refresh[r].live /\ Belongs(refresh[r].snap) /\ Orderly(r, refresh[r])
       /\ Active(refresh[r]) => Alone(r)
       /\ refresh[r].pc = "idle" => spk # r
  /\ \A i \in Initiators :
       /\ Belongs(claim[i].snap)
       /\ claim[i].pc \in {"claimed", "removeWrite"} => st[claim[i].id] = "used"
  /\ Belongs(stored) /\ OneTimeHeld /\ SignedHeld

CalmInv == calm => Quiet

-----------------------------------------------------------------------------
\* A set of natural numbers that is not empty has a least element.
LEMMA Least ==
  ASSUME NEW T, T \subseteq Nat, T # {}
  PROVE  \E x \in T : \A y \in T : x <= y
<1> DEFINE R == OpToRel(<, Nat)
<1>1. IsWellFoundedOn(R, Nat)
  BY NatLessThanWellFounded
<1>2. \A x, y \in Nat : x < y => <<x, y>> \in R
  BY DEF OpToRel
<1> HIDE DEF R
<1>3. PICK x \in T : \A y \in T : ~ (<<y, x>> \in R)
  BY <1>1, WFMin
<1>4. ASSUME NEW y \in T PROVE x <= y
  <2>1. x \in Nat /\ y \in Nat
    BY <1>3, <1>4
  <2>2. ~ (y < x)
    BY <1>2, <1>3, <1>4, <2>1
  <2> QED BY <2>1, <2>2
<1> QED BY <1>3, <1>4

\* Min of key ids is one of them.
LEMMA MinIs ==
  ASSUME NEW S, S \subseteq KeyIds, S # {}
  PROVE  Min(S) \in S
<1>1. S \subseteq Nat
  BY DEF KeyIds
<1>2. \E x \in S : \A y \in S : x <= y
  BY <1>1, Least
<1> QED BY <1>2 DEF Min

\* Max of key ids is one of them, and no other is higher.
LEMMA MaxIs ==
  ASSUME NEW S, S \subseteq KeyIds, S # {}
  PROVE  Max(S) \in S /\ \A y \in S : y <= Max(S)
<1> DEFINE T == {MaxId - x : x \in S}
<1>1. \A x \in S : x \in Nat /\ x <= MaxId /\ MaxId \in Nat
  BY KeyDirConstants DEF KeyIds
<1>2. T \subseteq Nat /\ T # {}
  BY <1>1
<1>3. PICK t \in T : \A u \in T : t <= u
  <2> HIDE DEF T
  <2> QED BY <1>2, Least
<1>4. PICK x \in S : t = MaxId - x
  BY <1>3
<1>5. ASSUME NEW y \in S PROVE x >= y
  <2>1. MaxId - x <= MaxId - y
    BY <1>3, <1>4, <1>5
  <2> QED BY <1>1, <2>1
<1>6. Max(S) \in S /\ \A y \in S : Max(S) >= y
  BY <1>4, <1>5 DEF Max
<1>7. \A a, b \in Nat : a >= b => b <= a
  OBVIOUS
<1> QED BY <1>1, <1>6, <1>7

\* The constants, as the proofs use them.
LEMMA Constants ==
  /\ MaxId \in Nat /\ Batch \in Nat /\ Batch >= 1 /\ Batch <= MaxId /\ Threshold \in Nat /\ Quota \in Nat
  /\ Generated \in Nat /\ Uploaded \in Nat /\ Uploaded <= Generated
  /\ Registration \notin Refreshes /\ None \notin Makers /\ Threshold + Batch <= Quota + 1
BY KeyDirConstants, QuotaAssumption DEF Makers

\* The types of the variables, with the records by name.
LEMMA Types ==
  TypeOK <=> /\ st \in [KeyIds -> {"absent", "free", "used", "old"}]
             /\ pub \in [KeyIds -> Makers \cup {None}]
             /\ spk \in Makers /\ spkOld \in BOOLEAN /\ stored \in Storage
             /\ refresh \in [Refreshes -> Refresh] /\ claim \in [Initiators -> Initiator]
             /\ torn \subseteq SecretIds /\ calm \in BOOLEAN
BY DEF TypeOK, Refresh, Initiator, Secret

\* Records of a refresh that did not begin or is over.
LEMMA NewRefreshTyped ==
  /\ NewRefresh \in Refresh /\ Nothing \in Storage
  /\ [NewRefresh EXCEPT !.pc = "done"] \in Refresh
<1>1. Nothing \in Storage
  BY DEF Nothing, Storage
<1> QED BY <1>1 DEF NewRefresh, Refresh

\* Storage stays storage.
LEMMA StorageTyped ==
  ASSUME NEW s \in Storage, NEW m \in Makers \cup {None}, NEW K
  PROVE  [k \in SecretIds |-> IF k \in K THEN m ELSE s[k]] \in Storage
BY DEF Storage

-----------------------------------------------------------------------------
\* Refresh r becomes q and goes to pc.
Went(r, pc, q) ==
  /\ refresh' = [refresh EXCEPT ![r] = q] /\ q.pc = pc
  /\ IF pc = "done"
     THEN q.ids = {} /\ q.todo = {} /\ q.live = TRUE /\ q.snap = Nothing
     ELSE /\ q.ids = refresh[r].ids /\ q.todo = refresh[r].todo /\ q.rotate = refresh[r].rotate
          /\ q.live = refresh[r].live /\ q.snap = refresh[r].snap

\* What a refresh becomes by Goto.
LEMMA GotoEffect ==
  ASSUME TypeOK, NEW r \in Refreshes, NEW pc \in {"reply", "done"} \cup ServerSteps \cup StorageSteps,
         Goto(r, pc)
  PROVE  \E q \in Refresh : Went(r, pc, q)
<1>1. refresh[r] \in Refresh
  BY Types
<1>2. CASE pc = "done"
  <2> DEFINE q == [NewRefresh EXCEPT !.pc = "done"]
  <2>1. refresh' = [refresh EXCEPT ![r] = q]
    BY <1>2 DEF Goto
  <2>2. q.pc = "done" /\ q.ids = {} /\ q.todo = {} /\ q.live = TRUE /\ q.snap = Nothing
    BY DEF NewRefresh
  <2> QED BY <1>2, <2>1, <2>2, NewRefreshTyped DEF Went
<1>3. CASE pc # "done"
  <2> DEFINE q == [refresh[r] EXCEPT !.pc = pc]
  <2>1. refresh' = [refresh EXCEPT ![r] = q]
    BY <1>3 DEF Goto
  <2>2. /\ q \in Refresh /\ q.pc = pc
        /\ q.ids = refresh[r].ids /\ q.todo = refresh[r].todo /\ q.rotate = refresh[r].rotate
        /\ q.live = refresh[r].live /\ q.snap = refresh[r].snap
    BY <1>1 DEF Refresh
  <2> QED BY <1>3, <2>1, <2>2 DEF Went
<1> QED BY <1>2, <1>3

\* One refresh is replaced.
LEMMA PutRefresh ==
  ASSUME TypeOK, NEW r \in Refreshes, NEW q \in Refresh, refresh' = [refresh EXCEPT ![r] = q]
  PROVE  /\ refresh' \in [Refreshes -> Refresh] /\ refresh'[r] = q
         /\ \A p \in Refreshes \ {r} : refresh'[p] = refresh[p]
BY Types

\* One initiator is replaced.
LEMMA PutClaim ==
  ASSUME TypeOK, NEW i \in Initiators, NEW c \in Initiator, claim' = [claim EXCEPT ![i] = c]
  PROVE  /\ claim' \in [Initiators -> Initiator] /\ claim'[i] = c
         /\ \A j \in Initiators \ {i} : claim'[j] = claim[j]
BY Types

\* The page decides what to add: nothing, or a batch past every row.
LEMMA StartEffect ==
  ASSUME TypeOK, NEW r \in Refreshes, StartRefresh(r)
  PROVE  \E q \in Refresh :
           /\ refresh' = [refresh EXCEPT ![r] = q]
           /\ q.todo = q.ids /\ q.rotate = spkOld /\ q.live = refresh[r].live /\ q.snap = refresh[r].snap
           /\ \/ q.pc = "done" /\ q.ids = {}
              \/ q.pc = "spk" /\ (q.ids # {} \/ q.rotate)
           /\ calm /\ q.ids # {} => /\ Cardinality(Free) < Threshold
                                    /\ q.ids = NextKeyId .. NextKeyId + Batch - 1
<1>1. refresh[r] \in Refresh /\ spkOld \in BOOLEAN
  BY Types
<1> DEFINE I(n) == IF Cardinality(Free) < Threshold THEN n .. n + Batch - 1 ELSE {}
<1>2. PICK next \in {NextKeyId} \cup {n \in {1} : ~calm} :
        /\ I(next) \subseteq KeyIds
        /\ refresh' = [refresh EXCEPT ![r] =
             [refresh[r] EXCEPT !.ids = I(next), !.todo = I(next), !.rotate = spkOld,
                !.pc = IF I(next) = {} /\ ~spkOld THEN "done" ELSE "spk"]]
  BY DEF StartRefresh
<1>3. PICK ids \in SUBSET KeyIds : ids = I(next)
  BY <1>2
<1>4. calm /\ ids # {} => Cardinality(Free) < Threshold /\ ids = NextKeyId .. NextKeyId + Batch - 1
  BY <1>2, <1>3
<1> HIDE DEF I
<1>5. PICK pc \in {"done", "spk"} : pc = IF ids = {} /\ ~spkOld THEN "done" ELSE "spk"
  OBVIOUS
<1> DEFINE q == [refresh[r] EXCEPT !.ids = ids, !.todo = ids, !.rotate = spkOld, !.pc = pc]
<1>6. refresh' = [refresh EXCEPT ![r] = q]
  BY <1>2, <1>3, <1>5
<1>7. /\ q \in Refresh /\ q.ids = ids /\ q.todo = ids /\ q.rotate = spkOld /\ q.pc = pc
      /\ q.live = refresh[r].live /\ q.snap = refresh[r].snap
  BY <1>1, <1>5 DEF Refresh, ServerSteps
<1> HIDE DEF q
<1>8. (pc = "done" /\ ids = {}) \/ (pc = "spk" /\ (ids # {} \/ spkOld))
  BY <1>1, <1>5
<1> QED BY <1>4, <1>6, <1>7, <1>8

-----------------------------------------------------------------------------
\* A step of a refresh that touches no row.
LEMMA RefreshKeeps ==
  ASSUME IInv, NEW r \in Refreshes, NEW q \in Refresh, refresh' = [refresh EXCEPT ![r] = q],
         Todo(q), q.pc # "idle", refresh[r].pc = "idle" \/ q.todo \subseteq refresh[r].todo,
         UNCHANGED <<st, pub, claim, calm>>,
         spk' \in Makers, spkOld' \in BOOLEAN, stored' \in Storage, torn' \subseteq SecretIds
  PROVE  IInv'
<1>1. /\ refresh' \in [Refreshes -> Refresh] /\ refresh'[r] = q
      /\ \A p \in Refreshes \ {r} : refresh'[p] = refresh[p]
  BY PutRefresh DEF IInv
<1>2. TypeOK'
  BY <1>1, Types DEF IInv, TypeOK, Refresh
<1>3. Rows' /\ OnlyContendedTwice'
  BY DEF IInv, Rows, OnlyContendedTwice, SameKey
<1>4. ASSUME NEW p \in Refreshes PROVE Todo(refresh[p])'
  BY <1>1 DEF IInv, Todo
<1>5. ASSUME NEW i \in Initiators PROVE Chosen(claim[i])' /\ Spent(claim[i])'
  BY DEF IInv, Chosen, Spent
<1>6. ASSUME NEW p \in Refreshes, NEW k \in KeyIds, Made(k, p)'
      PROVE  refresh'[p].pc # "idle" /\ k \notin refresh'[p].todo
  <2>1. Made(k, p)
    BY <1>6 DEF Made
  <2>2. refresh[p].pc # "idle" /\ k \notin refresh[p].todo
    BY <2>1 DEF IInv, OnceMade
  <2> QED BY <1>1, <2>2
<1> QED BY <1>2, <1>3, <1>4, <1>5, <1>6 DEF IInv, OnceMade

\* The steps of a refresh but the insertion of a row.
LEMMA RefreshStep ==
  ASSUME IInv, NEW r \in Refreshes,
         \/ StartRefresh(r) \/ UpdateSignedPrekey(r) \/ CheckQuota(r) \/ Reply(r)
         \/ Keep(r) \/ Cancel(r) \/ Fail(r)
  PROVE  IInv'
<1>1. TypeOK /\ refresh[r] \in Refresh /\ Todo(refresh[r])
  BY Types DEF IInv
<1>2. /\ spk \in Makers /\ spkOld \in BOOLEAN /\ stored \in Storage /\ torn \subseteq SecretIds
      /\ r \in Makers
  BY <1>1, Types DEF Makers
<1>3. CASE StartRefresh(r)
  <2>1. PICK q \in Refresh :
          /\ refresh' = [refresh EXCEPT ![r] = q] /\ q.todo = q.ids
          /\ (q.pc = "done" /\ q.ids = {}) \/ q.pc = "spk"
    BY <1>1, <1>3, StartEffect
  <2>2. refresh[r].pc = "idle" /\ UNCHANGED <<st, pub, claim, calm, spk, spkOld, stored, torn>>
    BY <1>3 DEF StartRefresh, server
  <2>3. Todo(q) /\ q.pc # "idle"
    BY <2>1 DEF Todo, ServerSteps
  <2> QED BY <1>2, <2>1, <2>2, <2>3, RefreshKeeps
<1>4. ASSUME NEW pc \in {"reply", "done"} \cup ServerSteps \cup StorageSteps, Goto(r, pc), pc # "insert",
             pc \in {"spk", "count"} => refresh[r].todo = refresh[r].ids,
             pc \in {"count", "mergeRead", "mergeWrite"} => refresh[r].ids # {},
             pc \notin ServerSteps \cup {"done"} => refresh[r].todo = {},
             UNCHANGED <<st, pub, claim, calm>>,
             spk' \in Makers, spkOld' \in BOOLEAN, stored' \in Storage, torn' \subseteq SecretIds
      PROVE  IInv'
  <2>0. PICK q \in Refresh : Went(r, pc, q)
    BY <1>1, <1>4, GotoEffect
  <2>1. /\ refresh' = [refresh EXCEPT ![r] = q] /\ q.pc = pc
        /\ IF pc = "done" THEN q.todo = {}
           ELSE q.ids = refresh[r].ids /\ q.todo = refresh[r].todo
    BY <2>0 DEF Went
  <2>2. Todo(q) /\ q.pc # "idle" /\ q.todo \subseteq refresh[r].todo
    BY <1>4, <2>1 DEF Todo, ServerSteps, StorageSteps
  <2> QED BY <1>4, <2>1, <2>2, RefreshKeeps
<1>5. CASE UpdateSignedPrekey(r)
  <2>1. /\ refresh[r].todo = refresh[r].ids /\ UNCHANGED <<st, pub, claim, calm, stored, torn>>
        /\ spk' \in Makers /\ spkOld' \in BOOLEAN
    BY <1>1, <1>2, <1>5 DEF Todo, UpdateSignedPrekey
  <2>2. CASE refresh[r].ids = {}
    BY <1>2, <1>4, <1>5, <2>1, <2>2 DEF UpdateSignedPrekey, ServerSteps
  <2>3. CASE refresh[r].ids # {}
    BY <1>2, <1>4, <1>5, <2>1, <2>3 DEF UpdateSignedPrekey, ServerSteps
  <2> QED BY <2>2, <2>3
<1>6. CASE CheckQuota(r)
  <2>1. /\ UNCHANGED <<st, pub, claim, calm, spk, spkOld, stored, torn>> /\ refresh[r].pc = "count"
        /\ Goto(r, "done") \/ Goto(r, "insert")
    BY <1>6 DEF CheckQuota, server
  <2>2. CASE Goto(r, "done")
    BY <1>2, <1>4, <2>1, <2>2
  <2>3. CASE Goto(r, "insert")
    <3>0. PICK q \in Refresh : Went(r, "insert", q)
      BY <1>1, <2>3, GotoEffect DEF ServerSteps
    <3>1. /\ refresh' = [refresh EXCEPT ![r] = q] /\ q.pc = "insert"
          /\ q.ids = refresh[r].ids /\ q.todo = refresh[r].todo
      BY <3>0 DEF Went
    <3>2. Todo(q)
      BY <1>1, <2>1, <3>1 DEF Todo, ServerSteps
    <3> QED BY <1>2, <2>1, <3>1, <3>2, RefreshKeeps
  <2> QED BY <2>1, <2>2, <2>3
<1>7. CASE Reply(r)
  <2>1. /\ UNCHANGED <<st, pub, claim, calm, spk, spkOld, stored, torn>> /\ refresh[r].todo = {}
        /\ Goto(r, "done") \/ (Goto(r, "mergeRead") /\ refresh[r].ids # {}) \/ Goto(r, "spkRead")
    BY <1>1, <1>7 DEF Reply, server, Todo, ServerSteps
  <2>2. CASE Goto(r, "done")
    BY <1>2, <1>4, <2>1, <2>2
  <2>3. CASE Goto(r, "mergeRead") /\ refresh[r].ids # {}
    BY <1>2, <1>4, <2>1, <2>3 DEF ServerSteps, StorageSteps
  <2>4. CASE Goto(r, "spkRead")
    BY <1>2, <1>4, <2>1, <2>4 DEF ServerSteps, StorageSteps
  <2> QED BY <2>1, <2>2, <2>3, <2>4
<1>8. CASE StorageRead(r)
  <2> DEFINE pc == IF refresh[r].pc = "mergeRead" THEN "mergeWrite" ELSE "spkWrite"
             q == [refresh[r] EXCEPT !.snap = stored, !.pc = pc]
  <2>1. refresh' = [refresh EXCEPT ![r] = q] /\ refresh[r].pc \in {"mergeRead", "spkRead"}
    BY <1>1, <1>8, Types DEF StorageRead
  <2>2. pc \in StorageSteps
    BY DEF StorageSteps
  <2>3. q \in Refresh /\ q.pc = pc /\ q.ids = refresh[r].ids /\ q.todo = refresh[r].todo
    <3> HIDE DEF pc
    <3> QED BY <1>1, <1>2, <2>2 DEF Refresh
  <2> HIDE DEF q
  <2>4. Todo(q) /\ q.pc # "idle" /\ q.todo \subseteq refresh[r].todo
    BY <1>1, <2>1, <2>3 DEF Todo, ServerSteps
  <2>5. UNCHANGED <<st, pub, claim, calm, spk, spkOld, stored, torn>>
    BY <1>8 DEF StorageRead, server
  <2> QED BY <1>2, <2>1, <2>3, <2>4, <2>5, RefreshKeeps
<1>9. CASE MergeWrite(r) \/ SpkWrite(r)
  <2>1. /\ UNCHANGED <<st, pub, claim, calm, spk, spkOld>> /\ refresh[r].todo = {}
        /\ Goto(r, "done") \/ Goto(r, "spkRead")
    BY <1>1, <1>9 DEF MergeWrite, SpkWrite, server, Todo, ServerSteps
  <2>2. stored' \in Storage
    <3>1. PICK snap \in Storage : snap = refresh[r].snap
      BY <1>1 DEF Refresh
    <3>2. CASE MergeWrite(r)
      <4>1. PICK K : \/ UNCHANGED stored
                     \/ stored' = [k \in SecretIds |-> IF k \in K THEN r ELSE snap[k]]
        BY <3>1, <3>2 DEF MergeWrite, WriteStorage
      <4> QED BY <1>2, <4>1, StorageTyped
    <3>3. CASE SpkWrite(r)
      BY <1>2, <3>1, <3>3 DEF SpkWrite, WriteStorage, Storage
    <3> QED BY <1>9, <3>2, <3>3
  <2>3. torn' \subseteq SecretIds
    BY <1>2, <1>9 DEF MergeWrite, SpkWrite, WriteStorage, Undone
  <2>4. CASE Goto(r, "done")
    BY <1>2, <1>4, <2>1, <2>2, <2>3, <2>4
  <2>5. CASE Goto(r, "spkRead")
    BY <1>2, <1>4, <2>1, <2>2, <2>3, <2>5 DEF StorageSteps, ServerSteps
  <2> QED BY <2>1, <2>4, <2>5
<1>10. CASE Cancel(r)
  <2> DEFINE q == [refresh[r] EXCEPT !.live = FALSE]
  <2>1. /\ refresh' = [refresh EXCEPT ![r] = q] /\ refresh[r].pc # "idle"
        /\ UNCHANGED <<st, pub, claim, calm, spk, spkOld, stored, torn>>
    BY <1>10 DEF Cancel, server, ServerSteps
  <2>2. q \in Refresh /\ q.pc = refresh[r].pc /\ q.ids = refresh[r].ids /\ q.todo = refresh[r].todo
    BY <1>1 DEF Refresh
  <2> HIDE DEF q
  <2>3. Todo(q)
    BY <1>1, <2>2 DEF Todo
  <2> QED BY <1>2, <2>1, <2>2, <2>3, RefreshKeeps
<1>11. CASE Fail(r)
  <2>1. Goto(r, "done") /\ UNCHANGED <<st, pub, claim, calm, spk, spkOld, stored, torn>>
    BY <1>11 DEF Fail, server
  <2> QED BY <1>2, <1>4, <2>1
<1> QED BY <1>3, <1>5, <1>6, <1>7, <1>8, <1>9, <1>10, <1>11 DEF Keep

\* A row is inserted, or left as it is.
LEMMA InsertEffect ==
  ASSUME IInv, NEW r \in Refreshes, InsertPrekey(r)
  PROVE  \E k \in refresh[r].todo, q \in Refresh :
           /\ refresh' = [refresh EXCEPT ![r] = q]
           /\ q.todo = refresh[r].todo \ {k} /\ q.ids = refresh[r].ids /\ q.rotate = refresh[r].rotate
           /\ q.live = refresh[r].live /\ q.snap = refresh[r].snap
           /\ q.pc = IF q.todo = {} THEN "reply" ELSE "insert"
           /\ IF st[k] = "absent"
              THEN st' = [st EXCEPT ![k] = "free"] /\ pub' = [pub EXCEPT ![k] = r]
              ELSE UNCHANGED <<st, pub>>
<1>1. TypeOK /\ refresh[r] \in Refresh /\ refresh[r].pc = "insert" /\ refresh[r].todo # {}
  BY Types DEF IInv, InsertPrekey, Todo
<1>2. refresh[r].todo \subseteq KeyIds
  BY <1>1 DEF Refresh
<1>3. PICK k \in refresh[r].todo : k = Min(refresh[r].todo)
  BY <1>1, <1>2, MinIs
<1> DEFINE left == refresh[r].todo \ {k}
           pc == IF left = {} THEN "reply" ELSE "insert"
           q == [refresh[r] EXCEPT !.todo = left, !.pc = pc]
<1>4. /\ refresh' = [refresh EXCEPT ![r] = q]
      /\ IF st[k] = "absent"
         THEN st' = [st EXCEPT ![k] = "free"] /\ pub' = [pub EXCEPT ![k] = r]
         ELSE UNCHANGED <<st, pub>>
  BY <1>1, <1>3, Types DEF InsertPrekey
<1>5. left \in SUBSET KeyIds /\ pc \in {"reply"} \cup ServerSteps
  BY <1>2 DEF ServerSteps
<1>6. /\ q \in Refresh /\ q.todo = left /\ q.ids = refresh[r].ids /\ q.rotate = refresh[r].rotate
      /\ q.live = refresh[r].live /\ q.snap = refresh[r].snap /\ q.pc = pc
  <2> HIDE DEF left, pc
  <2> QED BY <1>1, <1>5 DEF Refresh
<1> HIDE DEF q
<1> QED BY <1>4, <1>6

\* It was absent: the pair is new.
LEMMA InsertStep ==
  ASSUME IInv, NEW r \in Refreshes, InsertPrekey(r)
  PROVE  IInv'
<1>1. PICK k \in refresh[r].todo, q \in Refresh :
        /\ refresh' = [refresh EXCEPT ![r] = q]
        /\ q.todo = refresh[r].todo \ {k} /\ q.ids = refresh[r].ids
        /\ q.pc = IF q.todo = {} THEN "reply" ELSE "insert"
        /\ IF st[k] = "absent"
           THEN st' = [st EXCEPT ![k] = "free"] /\ pub' = [pub EXCEPT ![k] = r]
           ELSE UNCHANGED <<st, pub>>
  BY InsertEffect
<1>2. /\ TypeOK /\ refresh[r] \in Refresh /\ Todo(refresh[r]) /\ refresh[r].pc = "insert"
      /\ UNCHANGED <<spk, spkOld, stored, claim, torn, calm>>
  BY Types DEF IInv, InsertPrekey
<1>3. k \in KeyIds /\ Todo(q) /\ q.pc # "idle" /\ q.todo \subseteq refresh[r].todo
  BY <1>1, <1>2 DEF Refresh, Todo, ServerSteps
<1>4. CASE st[k] # "absent"
  <2>1. UNCHANGED <<st, pub>>
    BY <1>1, <1>4
  <2>2. spk \in Makers /\ spkOld \in BOOLEAN /\ stored \in Storage /\ torn \subseteq SecretIds
    BY <1>2, Types
  <2> QED BY <1>1, <1>2, <1>3, <2>1, <2>2, RefreshKeeps
<1>5. CASE st[k] = "absent"
  <2>1. st' = [st EXCEPT ![k] = "free"] /\ pub' = [pub EXCEPT ![k] = r]
    BY <1>1, <1>5
  <2>2. /\ refresh' \in [Refreshes -> Refresh] /\ refresh'[r] = q
        /\ \A p \in Refreshes \ {r} : refresh'[p] = refresh[p]
    BY <1>1, <1>2, PutRefresh
  <2>3. /\ st' \in [KeyIds -> {"absent", "free", "used", "old"}] /\ pub' \in [KeyIds -> Makers \cup {None}]
        /\ st'[k] = "free" /\ pub'[k] = r /\ \A j \in KeyIds \ {k} : st'[j] = st[j] /\ pub'[j] = pub[j]
    BY <1>2, <1>3, <2>1, Types DEF Makers
  <2>4. TypeOK'
    BY <1>2, <2>2, <2>3, Types DEF TypeOK, Refresh
  <2>5. Rows'
    BY <2>3, Constants DEF IInv, Rows, Makers
  <2>6. \A p \in Refreshes : Todo(refresh[p])'
    BY <1>3, <2>2 DEF IInv, Todo
  <2>7. \A i \in Initiators : claim[i].key # [id |-> k, maker |-> r]
    BY <1>1, <1>3 DEF IInv, OnceMade, Made
  <2>8. ASSUME NEW i \in Initiators PROVE Chosen(claim[i])' /\ Spent(claim[i])'
    <3>1. Chosen(claim[i]) /\ Spent(claim[i]) /\ claim[i] \in Initiator
      BY <1>2, Types DEF IInv
    <3>2. Chosen(claim[i])'
      BY <1>2, <2>3, <3>1 DEF Chosen
    <3>3. CASE claim[i].key # NoKey
      <4>1. PICK e \in Secret : e = claim[i].key
        BY <3>1, <3>3 DEF Initiator
      <4>2. e.id \in KeyIds /\ ~(e.id = k /\ e.maker = r)
        BY <2>7, <4>1 DEF Secret
      <4>3. pub[e.id] # e.maker \/ st[e.id] # "free"
        BY <3>1, <3>3, <4>1 DEF Spent
      <4>4. pub'[e.id] # e.maker \/ st'[e.id] # "free"
        BY <2>3, <4>2, <4>3
      <4> QED BY <1>2, <3>2, <4>1, <4>4 DEF Spent
    <3> QED BY <1>2, <3>2, <3>3 DEF Spent
  <2>9. ASSUME NEW p \in Refreshes, NEW j \in KeyIds, Made(j, p)'
        PROVE  refresh'[p].pc # "idle" /\ j \notin refresh'[p].todo
    <3>1. Made(j, p) \/ (j = k /\ p = r)
      BY <1>2, <2>3, <2>9 DEF Made
    <3>2. Made(j, p) => refresh[p].pc # "idle" /\ j \notin refresh[p].todo
      BY DEF IInv, OnceMade
    <3> QED BY <1>1, <1>3, <2>2, <3>1, <3>2
  <2>10. OnlyContendedTwice'
    BY <1>2 DEF IInv, OnlyContendedTwice, SameKey
  <2> QED BY <2>4, <2>5, <2>6, <2>8, <2>9, <2>10 DEF IInv, OnceMade
<1> QED BY <1>4, <1>5

-----------------------------------------------------------------------------
\* An initiator whose key stays as it is, while no row changes.
LEMMA ClaimKeeps ==
  ASSUME IInv, NEW i \in Initiators, NEW c \in Initiator, claim' = [claim EXCEPT ![i] = c],
         c.key = claim[i].key, c.contended = claim[i].contended, Chosen(c),
         UNCHANGED <<server, refresh, calm>>, stored' \in Storage, torn' \subseteq SecretIds
  PROVE  IInv'
<1>1. /\ claim' \in [Initiators -> Initiator] /\ claim'[i] = c
      /\ \A j \in Initiators \ {i} : claim'[j] = claim[j]
  BY PutClaim DEF IInv
<1>2. \A j \in Initiators : claim'[j].key = claim[j].key /\ claim'[j].contended = claim[j].contended
  BY <1>1
<1>3. TypeOK'
  BY <1>1, Types DEF IInv, TypeOK, Initiator, Secret, server
<1>4. Rows' /\ (\A r \in Refreshes : Todo(refresh[r])')
  BY DEF IInv, Rows, Todo, server
<1>5. ASSUME NEW j \in Initiators PROVE Chosen(claim[j])' /\ Spent(claim[j])'
  <2>1. Chosen(claim[j])'
    BY <1>1 DEF IInv, Chosen, server
  <2>2. Spent(claim[j])'
    BY <1>2 DEF IInv, Spent, server
  <2> QED BY <2>1, <2>2
<1>6. OnceMade'
  <2>1. \A r \in Refreshes, k \in KeyIds : Made(k, r)' => Made(k, r)
    BY <1>2 DEF Made, server
  <2> QED BY <2>1 DEF IInv, OnceMade, server
<1>7. OnlyContendedTwice'
  BY <1>2 DEF IInv, OnlyContendedTwice, SameKey
<1> QED BY <1>3, <1>4, <1>5, <1>6, <1>7 DEF IInv

\* What the statements of an initiator leave: the sub-select ...
LEMMA SelectEffect ==
  ASSUME IInv, NEW i \in Initiators, ClaimSelect(i)
  PROVE  \E c \in Initiator :
           /\ claim' = [claim EXCEPT ![i] = c]
           /\ c.key = claim[i].key /\ c.contended = claim[i].contended /\ c.snap = claim[i].snap
           /\ c.pc = "done" \/ (c.pc = "update" /\ c.id \in Free)
<1>1. claim[i] \in Initiator
  BY Types DEF IInv
<1>2. CASE Free = {}
  <2> DEFINE c == [claim[i] EXCEPT !.pc = "done"]
  <2>1. claim' = [claim EXCEPT ![i] = c]
    BY <1>2 DEF ClaimSelect
  <2>2. c \in Initiator /\ c.key = claim[i].key /\ c.contended = claim[i].contended /\ c.snap = claim[i].snap
        /\ c.pc = "done"
    BY <1>1 DEF Initiator
  <2> QED BY <2>1, <2>2
<1>3. CASE Free # {}
  <2>1. PICK k \in Free : k = Min(Free)
    BY <1>3, MinIs DEF Free
  <2> DEFINE c == [claim[i] EXCEPT !.pc = "update", !.id = k]
  <2>2. claim' = [claim EXCEPT ![i] = c]
    BY <1>3, <2>1 DEF ClaimSelect
  <2>3. k \in SecretIds
    BY <2>1 DEF Free, SecretIds
  <2>4. c \in Initiator /\ c.key = claim[i].key /\ c.contended = claim[i].contended /\ c.snap = claim[i].snap
        /\ c.pc = "update" /\ c.id = k
    BY <1>1, <2>3 DEF Initiator
  <2> QED BY <2>1, <2>2, <2>4
<1> QED BY <1>2, <1>3

\* ... the UPDATE ...
LEMMA UpdateEffect ==
  ASSUME IInv, NEW i \in Initiators, ClaimUpdate(i)
  PROVE  \E k \in KeyIds, c \in Initiator :
           /\ claim' = [claim EXCEPT ![i] = c] /\ st' = [st EXCEPT ![k] = "used"]
           /\ k = claim[i].id /\ c.id = k /\ c.pc = "claimed" /\ c.snap = claim[i].snap
           /\ c.key = [id |-> k, maker |-> pub[k]] /\ c.key \in Secret /\ (c.contended <=> st[k] # "free")
<1>1. claim[i] \in Initiator /\ claim[i].pc = "update" /\ Chosen(claim[i])
  BY Types DEF IInv, ClaimUpdate
<1>2. PICK k \in KeyIds : k = claim[i].id /\ st[k] \in {"free", "used"}
  BY <1>1 DEF Chosen
<1>3. pub[k] \in Makers
  BY <1>2, Types DEF IInv, Rows
<1>4. PICK e \in Secret : e = [id |-> k, maker |-> pub[k]]
  BY <1>3 DEF Secret
<1>5. PICK b \in BOOLEAN : b = (st[k] # "free")
  OBVIOUS
<1> DEFINE c == [claim[i] EXCEPT !.pc = "claimed", !.key = e, !.contended = b]
<1>6. claim' = [claim EXCEPT ![i] = c] /\ st' = [st EXCEPT ![k] = "used"]
  BY <1>2, <1>4, <1>5 DEF ClaimUpdate
<1>7. c \in Initiator /\ c.pc = "claimed" /\ c.key = e /\ c.contended = b /\ c.id = k /\ c.snap = claim[i].snap
  BY <1>1, <1>2 DEF Initiator
<1> HIDE DEF c
<1> QED BY <1>2, <1>4, <1>5, <1>6, <1>7

\* ... the arrival of the message ...
LEMMA DecryptEffect ==
  ASSUME IInv, NEW i \in Initiators, Decrypt(i)
  PROVE  \E c \in Initiator :
           /\ claim' = [claim EXCEPT ![i] = c]
           /\ c.key = claim[i].key /\ c.contended = claim[i].contended /\ c.id = claim[i].id
           /\ c.pc \in {"removeWrite", "done"} /\ c.snap \in {stored, claim[i].snap}
<1>1. claim[i] \in Initiator /\ stored \in Storage
  BY Types DEF IInv
<1> DEFINE a == [claim[i] EXCEPT !.pc = "removeWrite", !.snap = stored]
           b == [claim[i] EXCEPT !.pc = "done"]
<1>2. claim' = [claim EXCEPT ![i] = a] \/ claim' = [claim EXCEPT ![i] = b]
  BY DEF Decrypt
<1>3. /\ a \in Initiator /\ a.key = claim[i].key /\ a.contended = claim[i].contended /\ a.id = claim[i].id
      /\ a.pc = "removeWrite" /\ a.snap = stored
  BY <1>1 DEF Initiator
<1>4. /\ b \in Initiator /\ b.key = claim[i].key /\ b.contended = claim[i].contended /\ b.id = claim[i].id
      /\ b.pc = "done" /\ b.snap = claim[i].snap
  BY <1>1 DEF Initiator
<1> HIDE DEF a, b
<1> QED BY <1>2, <1>3, <1>4

\* ... and the removal of the secret.
LEMMA RemoveEffect ==
  ASSUME IInv, NEW i \in Initiators, RemoveWrite(i)
  PROVE  /\ \E c \in Initiator :
              /\ claim' = [claim EXCEPT ![i] = c]
              /\ c.key = claim[i].key /\ c.contended = claim[i].contended
              /\ c.pc = "done" /\ c.snap = Nothing
         /\ stored' \in Storage /\ claim[i].id \in KeyIds
         /\ \A k \in SecretIds \ {claim[i].id} : stored'[k] = claim[i].snap[k]
         /\ stored'[claim[i].id] = None
         /\ torn' = torn \cup {k \in SecretIds \ {claim[i].id} : stored'[k] # stored[k]}
<1>1. claim[i] \in Initiator /\ claim[i].id \in KeyIds /\ claim \in [Initiators -> Initiator]
  BY Types DEF IInv, RemoveWrite, Chosen
<1> DEFINE c == [claim[i] EXCEPT !.pc = "done", !.snap = Nothing]
<1>2. claim' = [claim EXCEPT ![i] = c]
  BY <1>1 DEF RemoveWrite
<1>3. /\ c \in Initiator /\ c.key = claim[i].key /\ c.contended = claim[i].contended
      /\ c.pc = "done" /\ c.snap = Nothing
  BY <1>1, NewRefreshTyped DEF Initiator
<1>4. PICK s \in Storage : s = claim[i].snap
  BY <1>1 DEF Initiator
<1>5. stored' = [s EXCEPT ![claim[i].id] = None] /\ torn' = torn \cup Undone(stored', {claim[i].id})
  BY <1>4 DEF RemoveWrite, WriteStorage
<1>6. /\ stored' \in Storage /\ stored'[claim[i].id] = None
      /\ \A k \in SecretIds \ {claim[i].id} : stored'[k] = s[k]
  BY <1>1, <1>5 DEF Storage, SecretIds
<1> QED BY <1>1, <1>2, <1>3, <1>4, <1>5, <1>6 DEF Undone

\* Every step of an initiator.
LEMMA ClaimStep ==
  ASSUME IInv, NEW i \in Initiators, Claim(i)
  PROVE  IInv'
<1>1. stored \in Storage /\ torn \subseteq SecretIds
  BY Types DEF IInv
<1>2. CASE ClaimSelect(i)
  <2>1. PICK c \in Initiator :
          /\ claim' = [claim EXCEPT ![i] = c]
          /\ c.key = claim[i].key /\ c.contended = claim[i].contended
          /\ c.pc = "done" \/ (c.pc = "update" /\ c.id \in Free)
    BY <1>2, SelectEffect
  <2>2. Chosen(c) /\ UNCHANGED <<server, refresh, calm, stored, torn>>
    BY <1>2, <2>1 DEF Chosen, Free, ClaimSelect
  <2> QED BY <1>1, <2>1, <2>2, ClaimKeeps
<1>3. CASE Decrypt(i)
  <2>1. PICK c \in Initiator :
          /\ claim' = [claim EXCEPT ![i] = c]
          /\ c.key = claim[i].key /\ c.contended = claim[i].contended /\ c.id = claim[i].id
          /\ c.pc \in {"removeWrite", "done"}
    BY <1>3, DecryptEffect
  <2>2. Chosen(claim[i]) /\ claim[i].pc = "claimed"
    BY <1>3 DEF IInv, Decrypt
  <2>3. Chosen(c) /\ UNCHANGED <<server, refresh, calm, stored, torn>>
    BY <1>3, <2>1, <2>2 DEF Chosen, Decrypt
  <2> QED BY <1>1, <2>1, <2>3, ClaimKeeps
<1>4. CASE RemoveWrite(i)
  <2>1. PICK c \in Initiator :
          /\ claim' = [claim EXCEPT ![i] = c]
          /\ c.key = claim[i].key /\ c.contended = claim[i].contended /\ c.pc = "done"
    BY <1>4, RemoveEffect
  <2>2. stored' \in Storage /\ torn' \subseteq SecretIds
    BY <1>1, <1>4, RemoveEffect
  <2>3. Chosen(c) /\ UNCHANGED <<server, refresh, calm>>
    BY <1>4, <2>1 DEF Chosen, RemoveWrite
  <2> QED BY <2>1, <2>2, <2>3, ClaimKeeps
<1>5. CASE ClaimUpdate(i)
  <2>1. PICK k \in KeyIds, c \in Initiator :
          /\ claim' = [claim EXCEPT ![i] = c] /\ st' = [st EXCEPT ![k] = "used"]
          /\ k = claim[i].id /\ c.id = k /\ c.pc = "claimed" /\ c.key = [id |-> k, maker |-> pub[k]]
          /\ c.key \in Secret /\ (c.contended <=> st[k] # "free")
    BY <1>5, UpdateEffect
  <2>2. UNCHANGED <<pub, spk, spkOld, stored, refresh, torn, calm>>
    BY <1>5 DEF ClaimUpdate
  <2>3. /\ claim' \in [Initiators -> Initiator] /\ claim'[i] = c
        /\ \A j \in Initiators \ {i} : claim'[j] = claim[j]
    BY <2>1, PutClaim DEF IInv
  <2>4. /\ st' \in [KeyIds -> {"absent", "free", "used", "old"}] /\ st'[k] = "used"
        /\ \A j \in KeyIds \ {k} : st'[j] = st[j]
    BY <2>1, Types DEF IInv
  <2>5. TypeOK'
    BY <2>2, <2>3, <2>4, Types DEF IInv, TypeOK, Initiator, Secret
  <2>6. st[k] # "absent" /\ pub[k] # None
    BY <1>5, <2>1 DEF IInv, ClaimUpdate, Chosen, Rows
  <2>7. Rows' /\ \A r \in Refreshes : Todo(refresh[r])'
    BY <2>2, <2>4, <2>6 DEF IInv, Rows, Todo
  <2>8. ASSUME NEW j \in Initiators PROVE Chosen(claim[j])' /\ Spent(claim[j])'
    <3>1. CASE j = i
      BY <2>1, <2>2, <2>3, <2>4, <3>1 DEF Chosen, Spent
    <3>2. CASE j # i
      <4>1. Chosen(claim[j]) /\ Spent(claim[j]) /\ claim'[j] = claim[j] /\ claim[j] \in Initiator
        BY <2>3, <3>2, Types DEF IInv
      <4>2. Chosen(claim[j])'
        BY <2>4, <4>1 DEF Chosen
      <4>3. claim[j].key # NoKey => claim[j].key.id \in KeyIds
        BY <4>1 DEF Initiator, Secret
      <4>4. Spent(claim[j])'
        BY <2>2, <2>4, <4>1, <4>3 DEF Spent
      <4> QED BY <4>2, <4>4
    <3> QED BY <3>1, <3>2
  <2>9. OnceMade'
    <3>1. ASSUME NEW r \in Refreshes, NEW j \in KeyIds, Made(j, r)' PROVE Made(j, r)
      <4>1. CASE claim'[i].key = [id |-> j, maker |-> r]
        <5>1. j = k /\ pub[k] = r
          BY <2>1, <2>3, <4>1
        <5> QED BY <5>1 DEF Made
      <4>2. CASE claim'[i].key # [id |-> j, maker |-> r]
        BY <2>2, <2>3, <3>1, <4>2 DEF Made
      <4> QED BY <4>1, <4>2
    <3> QED BY <2>2, <3>1 DEF IInv, OnceMade
  <2>10. ASSUME NEW a \in Initiators, NEW b \in Initiators, SameKey(a, b)'
         PROVE  claim'[a].contended \/ claim'[b].contended
    <3>1. ASSUME NEW j \in Initiators \ {i}, claim[j].key = c.key PROVE c.contended
      <4>1. Spent(claim[j]) /\ c.key # NoKey
        BY <2>1 DEF IInv, NoKey, Secret, KeyIds
      <4> QED BY <2>1, <3>1, <4>1 DEF Spent
    <3>2. CASE a # i /\ b # i
      BY <2>3, <2>10, <3>2 DEF IInv, OnlyContendedTwice, SameKey
    <3>3. CASE a = i /\ b # i
      BY <2>3, <2>10, <3>1, <3>3 DEF SameKey
    <3>4. CASE a # i /\ b = i
      BY <2>3, <2>10, <3>1, <3>4 DEF SameKey
    <3>5. a # b
      BY <2>10 DEF SameKey
    <3> QED BY <3>2, <3>3, <3>4, <3>5
  <2>11. OnlyContendedTwice'
    BY <2>10 DEF OnlyContendedTwice
  <2> QED BY <2>5, <2>7, <2>8, <2>9, <2>11 DEF IInv
<1> QED BY <1>2, <1>3, <1>4, <1>5 DEF Claim

\* Time, and the cleanup of rows used long ago.
LEMMA TimeStep ==
  ASSUME IInv, Cleanup \/ Month \/ Week
  PROVE  IInv'
<1>1. TypeOK /\ UNCHANGED <<spk, stored, refresh, claim, torn, calm>>
  BY DEF IInv, Cleanup, Month, Week
<1>2. CASE Week
  BY <1>1, <1>2 DEF Week, IInv, TypeOK, Rows, Todo, Chosen, Spent, OnceMade, Made, OnlyContendedTwice, SameKey
<1>3. ASSUME Cleanup \/ Month
      PROVE  /\ TypeOK' /\ Rows'
             /\ \A k \in KeyIds : st'[k] = "free" <=> st[k] = "free"
             /\ \A k \in KeyIds : pub'[k] = pub[k] \/ (pub'[k] = None /\ st[k] = "old")
             /\ \A k \in KeyIds : st[k] = "used" /\ st'[k] # "used" => Month
  <2>1. CASE Cleanup
    <3>1. /\ \A k \in KeyIds : st'[k] = (IF st[k] = "old" THEN "absent" ELSE st[k])
                               /\ pub'[k] = (IF st[k] = "old" THEN None ELSE pub[k])
          /\ st' \in [KeyIds -> {"absent", "free", "used", "old"}]
          /\ pub' \in [KeyIds -> Makers \cup {None}] /\ spkOld' = spkOld
      BY <1>1, <2>1, Types DEF Cleanup
    <3>2. TypeOK'
      BY <1>1, <3>1 DEF TypeOK
    <3> QED BY <3>1, <3>2 DEF IInv, Rows
  <2>2. CASE Month
    <3>1. /\ \A k \in KeyIds : st'[k] = IF st[k] = "used" THEN "old" ELSE st[k]
          /\ st' \in [KeyIds -> {"absent", "free", "used", "old"}] /\ pub' = pub /\ spkOld' = TRUE
      BY <1>1, <2>2, Types DEF Month
    <3>2. TypeOK'
      BY <1>1, <3>1 DEF TypeOK
    <3> QED BY <2>2, <3>1, <3>2 DEF IInv, Rows
  <2> QED BY <1>3, <2>1, <2>2
<1>4. CASE Cleanup \/ Month
  <2>1. \A r \in Refreshes : Todo(refresh[r])'
    BY <1>1 DEF IInv, Todo
  <2>2. ASSUME NEW i \in Initiators PROVE Chosen(claim[i])' /\ Spent(claim[i])'
    <3>1. Chosen(claim[i]) /\ Spent(claim[i]) /\ claim'[i] = claim[i] /\ claim[i] \in Initiator
      BY <1>1, Types DEF IInv
    <3>2. claim[i].pc = "update" => ~Month
      BY DEF Month
    <3>3. ASSUME claim[i].pc = "update" PROVE claim[i].id \in KeyIds /\ st'[claim[i].id] \in {"free", "used"}
      <4>1. claim[i].id \in KeyIds /\ st[claim[i].id] \in {"free", "used"}
        BY <3>1, <3>3 DEF Chosen
      <4> QED BY <1>3, <1>4, <3>2, <3>3, <4>1
    <3>4. Chosen(claim[i])'
      BY <3>1, <3>3 DEF Chosen
    <3>5. CASE claim[i].key # NoKey
      <4>1. PICK e \in Secret : e = claim[i].key
        BY <3>1, <3>5 DEF Initiator
      <4>2. e.id \in KeyIds /\ e.maker \in Makers /\ e.maker # None
        BY Constants DEF Secret
      <4>3. pub[e.id] # e.maker \/ st[e.id] # "free"
        BY <3>1, <3>5, <4>1 DEF Spent
      <4>4. pub'[e.id] # e.maker \/ st'[e.id] # "free"
        BY <1>3, <1>4, <4>2, <4>3
      <4> QED BY <3>1, <3>4, <4>1, <4>4 DEF Spent
    <3> QED BY <3>1, <3>4, <3>5 DEF Spent
  <2>3. OnceMade'
    <3>1. ASSUME NEW r \in Refreshes, NEW k \in KeyIds, Made(k, r)' PROVE Made(k, r)
      <4>1. r # None
        BY Constants DEF Makers
      <4> QED BY <1>1, <1>3, <1>4, <3>1, <4>1 DEF Made
    <3> QED BY <1>1, <3>1 DEF IInv, OnceMade
  <2>4. OnlyContendedTwice'
    BY <1>1 DEF IInv, OnlyContendedTwice, SameKey
  <2> QED BY <1>3, <1>4, <2>1, <2>2, <2>3, <2>4 DEF IInv
<1> QED BY <1>2, <1>4

-----------------------------------------------------------------------------
\* The registration establishes the invariant.
LEMMA InitIInv ==
  ASSUME Init
  PROVE  IInv
<1>1. /\ MaxId \in Nat /\ Uploaded \in Nat /\ Generated \in Nat /\ Registration \in Makers /\ None \notin Makers
      /\ Registration \notin Refreshes
  BY Constants DEF Makers
<1>2. /\ st \in [KeyIds -> {"absent", "free", "used", "old"}] /\ pub \in [KeyIds -> Makers \cup {None}]
      /\ spk \in Makers /\ spkOld \in BOOLEAN /\ stored \in Storage /\ torn \subseteq SecretIds /\ calm \in BOOLEAN
  BY <1>1 DEF Init, Storage
<1>3. refresh \in [Refreshes -> Refresh] /\ \A r \in Refreshes : refresh[r] = NewRefresh
  BY NewRefreshTyped DEF Init
<1> DEFINE c == [pc |-> "idle", id |-> 0, key |-> NoKey, contended |-> FALSE, snap |-> Nothing]
<1>4. c \in Initiator /\ c.pc = "idle" /\ c.key = NoKey
  BY NewRefreshTyped DEF Initiator, SecretIds
<1>5. claim = [i \in Initiators |-> c]
  BY DEF Init
<1> HIDE DEF c
<1>6. claim \in [Initiators -> Initiator] /\ \A i \in Initiators : claim[i].pc = "idle" /\ claim[i].key = NoKey
  BY <1>4, <1>5
<1>7. TypeOK
  BY <1>2, <1>3, <1>6, Types
<1>8. Rows
  BY <1>1 DEF Init, Rows
<1>9. \A r \in Refreshes : Todo(refresh[r])
  BY <1>3 DEF NewRefresh, Todo, ServerSteps
<1>10. \A i \in Initiators : Chosen(claim[i]) /\ Spent(claim[i])
  BY <1>6 DEF Chosen, Spent
<1>11. ASSUME NEW r \in Refreshes, NEW k \in KeyIds PROVE ~ Made(k, r)
  <2>1. pub[k] \in {Registration, None} /\ r \in Makers
    BY DEF Init, Makers
  <2>2. [id |-> k, maker |-> r] # NoKey
    BY <1>1, <2>1 DEF NoKey
  <2> QED BY <1>1, <1>6, <2>1, <2>2 DEF Made
<1>12. OnceMade /\ OnlyContendedTwice
  BY <1>6, <1>11 DEF OnceMade, OnlyContendedTwice, SameKey
<1> QED BY <1>7, <1>8, <1>9, <1>10, <1>12 DEF IInv

\* Every step keeps it.
LEMMA NextIInv ==
  ASSUME IInv, [Next]_vars
  PROVE  IInv'
<1>1. CASE UNCHANGED vars
  BY <1>1 DEF vars, server, IInv, TypeOK, Rows, Todo, Chosen, Spent, OnceMade, Made, OnlyContendedTwice, SameKey
<1>2. CASE \E i \in Initiators : Claim(i)
  BY <1>2, ClaimStep
<1>3. ASSUME NEW r \in Refreshes, StartRefresh(r) \/ Upload(r) \/ Keep(r) \/ Cancel(r) \/ Fail(r)
      PROVE  IInv'
  BY <1>3, RefreshStep, InsertStep DEF Upload
<1>4. CASE Cleanup \/ Month \/ Week
  BY <1>4, TimeStep
<1> QED BY <1>1, <1>2, <1>3, <1>4 DEF Next

\* The inductive invariant holds throughout.
THEOREM KeyDirInductive == Spec => []IInv
<1>1. Init => IInv
  BY InitIInv
<1>2. IInv /\ [Next]_vars => IInv'
  BY NextIInv
<1> QED BY <1>1, <1>2, PTL DEF Spec

\* Every variable of the directory, the pages and the initiators keeps its type.
THEOREM KeyDirTypeCorrect == Spec => []TypeOK
<1>1. IInv => TypeOK
  BY DEF IInv
<1> QED BY <1>1, KeyDirInductive, PTL

\* No refresh, retry, cleanup or reuse of a key id hands out a one-time prekey twice:
\* two initiators hold the same pair only if their UPDATEs overlapped.
THEOREM KeyDirOnlyContendedTwice == Spec => []OnlyContendedTwice
<1>1. IInv => OnlyContendedTwice
  BY DEF IInv
<1> QED BY <1>1, KeyDirInductive, PTL

-----------------------------------------------------------------------------
\* Secrets keep belonging to the keys, as rows are added and refreshes go on.
LEMMA BelongsStays ==
  ASSUME NEW s \in Storage, Belongs(s),
         \A k \in KeyIds : pub[k] # None => pub'[k] = pub[k],
         \A m \in Makers : Merged(m) => Merged(m)'
  PROVE  Belongs(s)'
<1>1. \A k \in KeyIds : s[k] \in Makers \cup {None}
  BY DEF Storage, SecretIds
<1> QED BY <1>1 DEF Belongs

\* A refresh that is the only one takes a step that touches no row.
LEMMA QuietRefresh ==
  ASSUME IInv, Quiet, NEW r \in Refreshes, NEW q \in Refresh, refresh' = [refresh EXCEPT ![r] = q],
         UNCHANGED <<st, pub, claim>>, spk' \in {spk, r}, Alone(r), q.live, q.pc # "idle",
         Merged(r) => Merged(r)', Orderly(r, q)',
         Belongs(q.snap)', Belongs(stored)', OneTimeHeld', SignedHeld'
  PROVE  Quiet'
<1>1. /\ refresh' \in [Refreshes -> Refresh] /\ refresh'[r] = q
      /\ \A p \in Refreshes \ {r} : refresh'[p] = refresh[p]
  BY PutRefresh DEF IInv
<1>2. \A m \in Makers : Merged(m) => Merged(m)'
  BY <1>1 DEF Merged, Makers
<1>3. \A p \in Refreshes : refresh[p].snap \in Storage
  BY Types DEF IInv, Refresh
<1>4. ASSUME NEW p \in Refreshes
      PROVE  /\ refresh'[p].live /\ Belongs(refresh[p].snap)' /\ Orderly(p, refresh[p])'
             /\ Active(refresh'[p]) => Alone(p)'
             /\ refresh'[p].pc = "idle" => spk' # p
  <2>1. CASE p = r
    BY <1>1, <2>1 DEF Alone
  <2>2. CASE p # r
    <3>1. refresh'[p] = refresh[p] /\ ~ Active(refresh[p]) /\ refresh[p].live
      BY <1>1, <2>2 DEF Alone, Quiet
    <3>2. refresh[p].pc = "idle" => spk # p
      BY DEF Quiet
    <3>3. PICK s \in Storage : s = refresh[p].snap
      BY <1>3
    <3>4. Belongs(s)
      BY <3>3 DEF Quiet
    <3>5. Belongs(s)'
      BY <1>2, <3>4, BelongsStays
    <3>6. Belongs(refresh[p].snap)'
      BY <3>1, <3>3, <3>5
    <3> QED BY <2>2, <3>1, <3>2, <3>6 DEF Orderly
  <2> QED BY <2>1, <2>2
<1>5. ASSUME NEW i \in Initiators
      PROVE  /\ Belongs(claim[i].snap)'
             /\ claim'[i].pc \in {"claimed", "removeWrite"} => st'[claim'[i].id] = "used"
  <2>1. PICK s \in Storage : s = claim[i].snap
    BY Types DEF IInv, Initiator
  <2>2. Belongs(s)
    BY <2>1 DEF Quiet
  <2>3. Belongs(s)'
    BY <1>2, <2>2, BelongsStays
  <2> QED BY <2>1, <2>3 DEF Quiet
<1> QED BY <1>4, <1>5 DEF Quiet

\* Such a step holds on to what is stored, when storage is left alone.
LEMMA StoredStays ==
  ASSUME IInv, Quiet, NEW r \in Refreshes, NEW q \in Refresh, refresh' = [refresh EXCEPT ![r] = q],
         UNCHANGED <<st, pub, stored, torn>>, spk' = spk \/ (spk' = r /\ q.pc # "done"),
         Merged(r) => Merged(r)',
         Merged(r) \/ ~ Merged(r)' \/ \A k \in Free : pub[k] # r,
         refresh[r].pc = "done" \/ q.pc # "done" \/ spk # r
  PROVE  Belongs(stored)' /\ OneTimeHeld' /\ SignedHeld'
<1>1. /\ refresh' \in [Refreshes -> Refresh] /\ refresh'[r] = q
      /\ \A p \in Refreshes \ {r} : refresh'[p] = refresh[p]
  BY PutRefresh DEF IInv
<1>2. /\ pub \in [KeyIds -> Makers \cup {None}] /\ spk \in Makers /\ stored \in Storage
      /\ \A k \in Free : pub[k] # None
  BY Types DEF IInv, Rows, Free
<1>3. r # Registration /\ None \notin Makers
  BY Constants
<1>4. \A m \in Makers : Merged(m) => Merged(m)'
  BY <1>1 DEF Merged, Makers
<1>5. PICK s \in Storage : s = stored
  BY <1>2
<1>6. Belongs(s)
  BY <1>5 DEF Quiet
<1>7. Belongs(s)'
  BY <1>4, <1>6, BelongsStays
<1>8. Free' = Free
  BY DEF Free
<1>9. ASSUME NEW k \in Free \ Surplus, Merged(pub[k])' PROVE stored[k] = pub[k] \/ k \in torn
  <2>1. pub[k] \in Makers
    BY <1>2 DEF Free
  <2>2. CASE pub[k] = r
    BY <1>9, <2>2 DEF Quiet, OneTimeHeld
  <2>3. CASE pub[k] # r
    <3>1. Merged(pub[k])
      BY <1>1, <1>9, <2>1, <2>3 DEF Merged, Makers
    <3> QED BY <3>1 DEF Quiet, OneTimeHeld
  <2> QED BY <2>2, <2>3
<1>10. OneTimeHeld'
  BY <1>8, <1>9 DEF OneTimeHeld
<1>11. SignedHeld'
  <2>1. SUFFICES ASSUME Finished(spk)' PROVE stored'[0] = spk' \/ 0 \in torn'
    BY DEF SignedHeld
  <2>2. Finished(spk) /\ spk' = spk
    BY <1>1, <1>2, <1>3, <2>1 DEF Finished, Makers
  <2> QED BY <2>2 DEF Quiet, SignedHeld
<1> QED BY <1>5, <1>7, <1>10, <1>11

-----------------------------------------------------------------------------
\* A batch past every row: its keys are absent, and the quota has room for them.
LEMMA Batched ==
  ASSUME TypeOK, Cardinality(Free) < Threshold
  PROVE  LET ids == NextKeyId .. NextKeyId + Batch - 1
         IN /\ \A k \in ids \cap KeyIds : st[k] = "absent"
            /\ Cardinality(Free) + Cardinality(ids) <= Quota
<1> DEFINE rows == {k \in KeyIds : st[k] # "absent"}
<1>1. IsFiniteSet(Free)
  <2>1. IsFiniteSet(KeyIds)
    BY Constants, FS_Interval DEF KeyIds
  <2> QED BY <2>1, FS_Subset DEF Free
<1>2. Cardinality(Free) \in Nat
  BY <1>1, FS_CardinalityType
<1>3. NextKeyId = IF rows = {} THEN 1 ELSE Max(rows) + 1
  BY DEF NextKeyId
<1>4. rows # {} => Max(rows) \in rows /\ \A y \in rows : y <= Max(rows)
  BY MaxIs
<1>5. rows \subseteq KeyIds /\ \A k \in KeyIds : k \in rows \/ st[k] = "absent"
  OBVIOUS
<1> HIDE DEF rows
<1>6. \A k \in rows : k \in Nat
  BY <1>5, Constants DEF KeyIds
<1>7. PICK n \in Nat : n = NextKeyId /\ \A k \in rows : k < n
  <2>1. CASE rows = {}
    BY <1>3, <2>1
  <2>2. CASE rows # {}
    <3>1. PICK m \in Nat : m = Max(rows) /\ \A k \in rows : k <= m
      BY <1>4, <1>6, <2>2
    <3>2. NextKeyId = m + 1
      BY <1>3, <2>2, <3>1
    <3> QED BY <1>6, <3>1, <3>2
  <2> QED BY <2>1, <2>2
<1>8. ASSUME NEW k \in (n .. n + Batch - 1) \cap KeyIds PROVE st[k] = "absent"
  <2>1. n <= k /\ k \in KeyIds /\ k \in Nat
    BY <1>8 DEF KeyIds
  <2> QED BY <1>5, <1>7, <2>1
<1>9. Cardinality(n .. n + Batch - 1) = Batch
  <2>1. n \in Int /\ n + Batch - 1 \in Int /\ n <= n + Batch - 1 /\ (n + Batch - 1) - n + 1 = Batch
    BY <1>7, Constants
  <2>2. Cardinality(n .. n + Batch - 1) = IF n > n + Batch - 1 THEN 0 ELSE (n + Batch - 1) - n + 1
    BY <2>1, FS_Interval
  <2> QED BY <1>7, <2>1, <2>2, Constants
<1>10. Cardinality(Free) + Batch <= Quota
  BY <1>2, Constants
<1> QED BY <1>7, <1>8, <1>9, <1>10

\* A page starts a refresh.
LEMMA QuietStart ==
  ASSUME IInv, Quiet, calm, NEW r \in Refreshes, StartRefresh(r)
  PROVE  Quiet'
<1>1. PICK q \in Refresh :
        /\ refresh' = [refresh EXCEPT ![r] = q]
        /\ q.todo = q.ids /\ q.live = refresh[r].live /\ q.snap = refresh[r].snap
        /\ \/ q.pc = "done" /\ q.ids = {}
           \/ q.pc = "spk" /\ (q.ids # {} \/ q.rotate)
        /\ q.ids # {} => /\ Cardinality(Free) < Threshold
                         /\ q.ids = NextKeyId .. NextKeyId + Batch - 1
  BY StartEffect DEF IInv
<1>2. refresh[r].pc = "idle" /\ UNCHANGED <<st, pub, claim, calm, spk, spkOld, stored, torn>>
  BY DEF StartRefresh, server
<1>3. /\ refresh'[r] = q /\ r # Registration /\ refresh[r] \in Refresh
      /\ \A p \in Refreshes \ {r} : refresh'[p] = refresh[p]
  BY <1>1, PutRefresh, Constants, Types DEF IInv
<1>4. Alone(r)
  BY DEF StartRefresh, MayStart, Quiet, Alone, Active
<1>5. \A k \in KeyIds : pub[k] # r
  BY <1>2 DEF IInv, OnceMade, Made
<1>6. ~ Merged(r) /\ spk # r
  BY <1>2, <1>3 DEF Merged, Quiet
<1>7. Belongs(stored)' /\ OneTimeHeld' /\ SignedHeld'
  BY <1>1, <1>2, <1>5, <1>6, StoredStays DEF Free
<1>8. Belongs(q.snap)'
  <2>1. PICK s \in Storage : s = refresh[r].snap
    BY <1>3 DEF Refresh
  <2>2. Belongs(s)
    BY <2>1 DEF Quiet
  <2>3. \A m \in Makers : Merged(m) => Merged(m)'
    BY <1>3, <1>6 DEF Merged, Makers
  <2>4. Belongs(s)'
    BY <1>2, <2>2, <2>3, BelongsStays
  <2> QED BY <1>1, <2>1, <2>4
<1>9. Orderly(r, q)'
  <2>1. SUFFICES ASSUME q.pc = "spk", q.ids # {} \/ q.rotate PROVE Orderly(r, q)'
    BY <1>1 DEF Orderly, Active
  <2>2. Free' = Free
    BY <1>2 DEF Free
  <2>3. q.ids # {} => (\A k \in q.ids : st[k] = "absent") /\ Cardinality(Free) + Cardinality(q.ids) <= Quota
    <3>1. q.ids \subseteq KeyIds
      BY DEF Refresh
    <3> QED BY <1>1, <3>1, Batched DEF IInv
  <2> QED BY <1>1, <1>2, <1>5, <1>6, <2>1, <2>2, <2>3 DEF Orderly
<1> QED BY <1>1, <1>2, <1>4, <1>6, <1>7, <1>8, <1>9, QuietRefresh DEF Quiet

\* The calls of PUT /keys and the reads of storage, by Goto.
LEMMA QuietGoto ==
  ASSUME IInv, Quiet, NEW r \in Refreshes, NEW q \in Refresh, refresh' = [refresh EXCEPT ![r] = q],
         Active(refresh[r]), Active(q), UNCHANGED <<st, pub, claim, stored, torn>>, spk' \in {spk, r},
         q.live = refresh[r].live, q.snap \in {refresh[r].snap, stored}, Orderly(r, q)',
         Merged(r) => Merged(r)',
         Merged(r) \/ ~ Merged(r)' \/ \A k \in Free : pub[k] # r
  PROVE  Quiet'
<1>1. refresh'[r] = q /\ \A p \in Refreshes \ {r} : refresh'[p] = refresh[p]
  BY PutRefresh DEF IInv
<1>2. Alone(r) /\ q.live /\ q.pc # "idle" /\ q.pc # "done"
  BY DEF Quiet, Active
<1>3. Belongs(stored)' /\ OneTimeHeld' /\ SignedHeld'
  BY <1>2, StoredStays
<1>4. Belongs(q.snap)'
  <2>1. PICK s \in Storage : s = q.snap
    BY DEF Refresh
  <2>2. Belongs(s)
    BY <2>1 DEF Quiet
  <2>3. \A m \in Makers : Merged(m) => Merged(m)'
    BY <1>1 DEF Merged, Makers
  <2>4. Belongs(s)'
    BY <2>2, <2>3, BelongsStays
  <2> QED BY <2>1, <2>4
<1> QED BY <1>2, <1>3, <1>4, QuietRefresh

\* The signed prekey is published.
LEMMA QuietSigned ==
  ASSUME IInv, Quiet, NEW r \in Refreshes, UpdateSignedPrekey(r)
  PROVE  Quiet'
<1>1. /\ refresh[r].pc = "spk" /\ UNCHANGED <<st, pub, claim, stored, torn>>
      /\ IF refresh[r].rotate THEN spk' = r ELSE spk' = spk
      /\ TypeOK /\ Orderly(r, refresh[r]) /\ r # Registration /\ Active(refresh[r])
  BY Constants DEF IInv, UpdateSignedPrekey, Quiet, Active
<1>2. PICK pc \in {"reply", "count"} :
        Goto(r, pc) /\ (pc = "reply" => refresh[r].ids = {})
  BY DEF UpdateSignedPrekey
<1>3. pc \in {"reply", "done"} \cup ServerSteps \cup StorageSteps /\ pc # "done"
  BY <1>2 DEF ServerSteps
<1>4. PICK q \in Refresh : Went(r, pc, q)
  BY <1>1, <1>2, <1>3, GotoEffect
<1>5. /\ refresh' = [refresh EXCEPT ![r] = q] /\ q.pc = pc
      /\ q.ids = refresh[r].ids /\ q.todo = refresh[r].todo /\ q.rotate = refresh[r].rotate
      /\ q.live = refresh[r].live /\ q.snap = refresh[r].snap
  BY <1>3, <1>4 DEF Went
<1>6. refresh'[r] = q /\ Free' = Free
  BY <1>1, <1>5, PutRefresh DEF Free
<1>7. Active(q) /\ ~ Merged(r) /\ ~ Merged(r)'
  BY <1>1, <1>2, <1>5, <1>6 DEF Active, Merged
<1>8. Orderly(r, q)'
  BY <1>1, <1>2, <1>5, <1>6 DEF Orderly, Active
<1> QED BY <1>1, <1>5, <1>7, <1>8, QuietGoto

\* The quota has room: the insertion begins.
LEMMA QuietQuota ==
  ASSUME IInv, Quiet, NEW r \in Refreshes, CheckQuota(r)
  PROVE  Quiet'
<1>1. /\ refresh[r].pc = "count" /\ UNCHANGED <<st, pub, claim, stored, torn, spk>>
      /\ TypeOK /\ Orderly(r, refresh[r]) /\ r # Registration /\ Active(refresh[r])
      /\ refresh[r].ids # {} /\ refresh[r] \in Refresh
  BY Constants, Types DEF IInv, CheckQuota, Quiet, Active, server, Todo
<1>2. Cardinality(Free) + Cardinality(refresh[r].ids) <= Quota
  BY <1>1 DEF Orderly
<1>3. Cardinality(Free) \in Nat /\ Cardinality(refresh[r].ids) \in Nat
  <2>1. IsFiniteSet(KeyIds)
    BY Constants, FS_Interval DEF KeyIds
  <2>2. Free \subseteq KeyIds /\ refresh[r].ids \subseteq KeyIds
    BY <1>1 DEF Free, Refresh
  <2>3. IsFiniteSet(Free) /\ IsFiniteSet(refresh[r].ids)
    BY <2>1, <2>2, FS_Subset
  <2> QED BY <2>3, FS_CardinalityType
<1>4. ~ (Cardinality(Free) + Cardinality(refresh[r].ids) > Quota)
  BY <1>2, <1>3, Constants
<1>5. Goto(r, "insert")
  BY <1>4 DEF CheckQuota
<1>6. PICK q \in Refresh : Went(r, "insert", q)
  BY <1>1, <1>5, GotoEffect DEF ServerSteps
<1>7. /\ refresh' = [refresh EXCEPT ![r] = q] /\ q.pc = "insert"
      /\ q.ids = refresh[r].ids /\ q.todo = refresh[r].todo /\ q.rotate = refresh[r].rotate
      /\ q.live = refresh[r].live /\ q.snap = refresh[r].snap
  BY <1>6 DEF Went
<1>8. refresh'[r] = q /\ Free' = Free
  BY <1>1, <1>7, PutRefresh DEF Free
<1>9. Active(q) /\ ~ Merged(r) /\ ~ Merged(r)'
  BY <1>1, <1>7, <1>8 DEF Active, Merged
<1>10. Orderly(r, q)'
  BY <1>1, <1>7, <1>8 DEF Orderly, Active
<1> QED BY <1>1, <1>7, <1>9, <1>10, QuietGoto

\* The call returns.
LEMMA QuietReply ==
  ASSUME IInv, Quiet, NEW r \in Refreshes, Reply(r)
  PROVE  Quiet'
<1>1. /\ refresh[r].pc = "reply" /\ UNCHANGED <<st, pub, claim, stored, torn, spk>>
      /\ TypeOK /\ Orderly(r, refresh[r]) /\ r # Registration /\ Active(refresh[r])
      /\ refresh[r].live
  BY Constants, Types DEF IInv, Reply, Quiet, Active, server
<1>2. PICK pc \in {"mergeRead", "spkRead"} :
        Goto(r, pc) /\ (pc = "spkRead" => refresh[r].ids = {})
  BY <1>1 DEF Reply
<1>3. pc \in {"reply", "done"} \cup ServerSteps \cup StorageSteps /\ pc # "done"
  BY <1>2 DEF StorageSteps
<1>4. PICK q \in Refresh : Went(r, pc, q)
  BY <1>1, <1>2, <1>3, GotoEffect
<1>5. /\ refresh' = [refresh EXCEPT ![r] = q] /\ q.pc = pc
      /\ q.ids = refresh[r].ids /\ q.todo = refresh[r].todo /\ q.rotate = refresh[r].rotate
      /\ q.live = refresh[r].live /\ q.snap = refresh[r].snap
  BY <1>3, <1>4 DEF Went
<1>6. refresh'[r] = q /\ Free' = Free
  BY <1>1, <1>5, PutRefresh DEF Free
<1>7. Active(q) /\ ~ Merged(r) /\ (Merged(r)' => pc = "spkRead")
  BY <1>1, <1>2, <1>5, <1>6 DEF Active, Merged
<1>8. Orderly(r, q)'
  BY <1>1, <1>2, <1>5, <1>6 DEF Orderly, Active
<1>9. pc = "spkRead" => \A k \in Free : pub[k] # r
  BY <1>1, <1>2 DEF Orderly, Free
<1> QED BY <1>1, <1>5, <1>7, <1>8, <1>9, QuietGoto

\* Storage is read.
LEMMA QuietRead ==
  ASSUME IInv, Quiet, NEW r \in Refreshes, StorageRead(r)
  PROVE  Quiet'
<1>1. /\ refresh[r].pc \in {"mergeRead", "spkRead"} /\ UNCHANGED <<st, pub, claim, stored, torn, spk>>
      /\ TypeOK /\ Orderly(r, refresh[r]) /\ r # Registration /\ Active(refresh[r])
      /\ refresh[r] \in Refresh /\ stored \in Storage
  BY Constants, Types DEF IInv, StorageRead, Quiet, Active, server
<1> DEFINE pc == IF refresh[r].pc = "mergeRead" THEN "mergeWrite" ELSE "spkWrite"
           q == [refresh[r] EXCEPT !.snap = stored, !.pc = pc]
<1>2. refresh' = [refresh EXCEPT ![r] = q]
  BY <1>1, Types DEF StorageRead
<1>3. pc \in StorageSteps
  BY DEF StorageSteps
<1>4. /\ q \in Refresh /\ q.pc = pc /\ q.ids = refresh[r].ids /\ q.todo = refresh[r].todo
      /\ q.rotate = refresh[r].rotate /\ q.live = refresh[r].live /\ q.snap = stored
  <2> HIDE DEF pc
  <2> QED BY <1>1, <1>3 DEF Refresh
<1> HIDE DEF q
<1>5. PICK p \in Refresh : p = q
  BY <1>4
<1>6. refresh'[r] = p /\ Free' = Free
  BY <1>1, <1>2, <1>5, PutRefresh DEF Free
<1>7. Active(p) /\ (Merged(r) <=> Merged(r)')
  BY <1>1, <1>4, <1>5, <1>6 DEF Active, Merged
<1>8. Orderly(r, p)'
  BY <1>1, <1>4, <1>5, <1>6 DEF Orderly, Active
<1> QED BY <1>1, <1>2, <1>4, <1>5, <1>7, <1>8, QuietGoto

\* A row is inserted: it was absent.
LEMMA QuietInsert ==
  ASSUME IInv, Quiet, NEW r \in Refreshes, InsertPrekey(r)
  PROVE  Quiet'
<1>1. PICK k \in refresh[r].todo, q \in Refresh :
        /\ refresh' = [refresh EXCEPT ![r] = q]
        /\ q.todo = refresh[r].todo \ {k} /\ q.ids = refresh[r].ids /\ q.rotate = refresh[r].rotate
        /\ q.live = refresh[r].live /\ q.snap = refresh[r].snap
        /\ q.pc = IF q.todo = {} THEN "reply" ELSE "insert"
        /\ IF st[k] = "absent"
           THEN st' = [st EXCEPT ![k] = "free"] /\ pub' = [pub EXCEPT ![k] = r]
           ELSE UNCHANGED <<st, pub>>
  BY InsertEffect
<1>2. /\ TypeOK /\ refresh[r] \in Refresh /\ Todo(refresh[r]) /\ refresh[r].pc = "insert"
      /\ UNCHANGED <<spk, spkOld, stored, claim, torn, calm>> /\ Active(refresh[r])
      /\ Orderly(r, refresh[r]) /\ r # Registration /\ Alone(r) /\ refresh[r].live
  BY Types, Constants DEF IInv, InsertPrekey, Active, Quiet
<1>3. k \in KeyIds /\ k \in refresh[r].ids /\ st[k] = "absent" /\ pub[k] = None
  BY <1>1, <1>2 DEF Refresh, Todo, Orderly, IInv, Rows
<1>4. st' = [st EXCEPT ![k] = "free"] /\ pub' = [pub EXCEPT ![k] = r]
  BY <1>1, <1>3
<1>5. /\ st'[k] = "free" /\ pub'[k] = r /\ \A j \in KeyIds \ {k} : st'[j] = st[j] /\ pub'[j] = pub[j]
  BY <1>2, <1>3, <1>4, Types
<1>6. refresh'[r] = q /\ \A p \in Refreshes \ {r} : refresh'[p] = refresh[p]
  BY <1>1, <1>2, PutRefresh
<1>7. q.pc \in {"reply", "insert"} /\ Active(q)
  BY <1>1 DEF Active
<1>8. \A m \in Makers : Merged(m) <=> Merged(m)'
  BY <1>2, <1>6, <1>7 DEF Merged, Makers
<1>9. \A s \in Storage : Belongs(s) => Belongs(s)'
  BY <1>3, <1>5, <1>8, BelongsStays
<1>10. ~ Merged(r)'
  BY <1>2, <1>6, <1>7 DEF Merged
<1>11. \A j \in KeyIds : st'[j] # "old"
  BY <1>5 DEF Quiet
<1>12. ASSUME NEW p \in Refreshes
       PROVE  /\ refresh'[p].live /\ Belongs(refresh[p].snap)' /\ Orderly(p, refresh[p])'
              /\ Active(refresh'[p]) => Alone(p)'
              /\ refresh'[p].pc = "idle" => spk' # p
  <2>1. PICK s \in Storage : s = refresh[p].snap /\ refresh'[p].snap = s
    BY <1>1, <1>2, <1>6, Types DEF Refresh
  <2>2. Belongs(s)
    BY <2>1 DEF Quiet
  <2>3. Belongs(s)'
    BY <1>9, <2>2
  <2>4. Belongs(refresh[p].snap)'
    BY <2>1, <2>3
  <2>5. CASE p = r
    <3>1. /\ \A j \in refresh[r].todo : j \in KeyIds /\ st[j] = "absent"
          /\ \A j \in KeyIds : j \in refresh[r].ids \ refresh[r].todo <=> pub[j] = r
          /\ refresh[r].ids # {} \/ refresh[r].rotate
          /\ (refresh[r].rotate <=> spk = r)
      BY <1>2 DEF Orderly, Refresh
    <3>2. \A j \in q.todo : st'[j] = "absent"
      BY <1>1, <1>5, <3>1
    <3>3. ASSUME NEW j \in KeyIds PROVE j \in q.ids \ q.todo <=> pub'[j] = r
      BY <1>1, <1>3, <1>5, <3>1
    <3>4. (q.ids # {} \/ q.rotate) /\ (q.rotate <=> spk' = r)
      BY <1>1, <1>2, <3>1
    <3>5. Orderly(r, q)'
      BY <1>7, <3>2, <3>3, <3>4 DEF Orderly
    <3> QED BY <1>1, <1>2, <1>6, <1>7, <2>4, <2>5, <3>5 DEF Alone
  <2>6. CASE p # r
    <3>1. refresh'[p] = refresh[p] /\ ~ Active(refresh[p])
      BY <1>2, <1>6, <2>6 DEF Alone
    <3> QED BY <1>2, <2>4, <3>1 DEF Orderly, Quiet
  <2> QED BY <2>5, <2>6
<1>13. ASSUME NEW i \in Initiators
       PROVE  /\ Belongs(claim[i].snap)'
              /\ claim'[i].pc \in {"claimed", "removeWrite"} => st'[claim'[i].id] = "used"
  <2>1. PICK s \in Storage : s = claim[i].snap
    BY <1>2, Types DEF Initiator
  <2>2. Belongs(s)
    BY <2>1 DEF Quiet
  <2>3. Belongs(s)'
    BY <1>9, <2>2
  <2>4. claim[i].pc \in {"claimed", "removeWrite"} => claim[i].id \in KeyIds /\ st[claim[i].id] = "used"
    BY DEF Quiet, IInv, Chosen
  <2> QED BY <1>2, <1>3, <1>5, <2>1, <2>3, <2>4
<1>14. Belongs(stored)'
  <2>1. PICK s \in Storage : s = stored
    BY <1>2, Types
  <2>2. Belongs(s)
    BY <2>1 DEF Quiet
  <2>3. Belongs(s)'
    BY <1>9, <2>2
  <2> QED BY <1>2, <2>1, <2>3
<1>15. ASSUME NEW j \in KeyIds \ Surplus, st'[j] = "free", Merged(pub[j])'
       PROVE  stored'[j] = pub'[j] \/ j \in torn'
  <2>1. j # k
    BY <1>5, <1>10, <1>15
  <2>2. j \in Free /\ pub[j] \in Makers
    BY <1>2, <1>5, <1>15, <2>1, Types DEF Free, IInv, Rows
  <2>3. Merged(pub[j])
    BY <1>5, <1>8, <1>15, <2>1, <2>2
  <2> QED BY <1>2, <1>5, <2>1, <2>2, <2>3 DEF Quiet, OneTimeHeld
<1>16. OneTimeHeld'
  BY <1>15 DEF OneTimeHeld, Free
<1>17. SignedHeld'
  <2>1. spk \in Makers
    BY <1>2, Types
  <2>2. Finished(spk)' => Finished(spk)
    BY <1>2, <1>6, <1>7, <2>1 DEF Finished, Makers
  <2> QED BY <1>2, <2>2 DEF Quiet, SignedHeld
<1> QED BY <1>11, <1>12, <1>13, <1>14, <1>16, <1>17 DEF Quiet

\* The secrets of the batch are stored.
LEMMA QuietMerge ==
  ASSUME IInv, Quiet, NEW r \in Refreshes, MergeWrite(r)
  PROVE  Quiet'
<1>1. /\ refresh[r].pc = "mergeWrite" /\ UNCHANGED <<st, pub, claim, spk>>
      /\ TypeOK /\ Orderly(r, refresh[r]) /\ r # Registration /\ Active(refresh[r])
      /\ refresh[r] \in Refresh /\ refresh[r].ids # {} /\ refresh[r].todo = {} /\ refresh[r].live
  BY Constants, Types DEF IInv, MergeWrite, Quiet, Active, server, Todo, ServerSteps
<1>2. PICK ids \in SUBSET KeyIds : ids = refresh[r].ids
  BY <1>1 DEF Refresh
<1>3. PICK s \in Storage : s = refresh[r].snap
  BY <1>1 DEF Refresh
<1>4. Belongs(s) /\ ~ Merged(r) /\ \A k \in KeyIds : k \in ids <=> pub[k] = r
  BY <1>1, <1>2, <1>3 DEF Quiet, Merged, Orderly
<1>5. PICK add \in SUBSET ids : add = {k \in ids : s[k] = None} /\ ids \ Surplus \subseteq add
  <2>1. ASSUME NEW k \in ids \ Surplus PROVE s[k] = None
    <3>1. k \in KeyIds \ Surplus /\ pub[k] = r
      BY <1>2, <1>4
    <3> QED BY <1>4, <3>1 DEF Belongs
  <2> QED BY <2>1
<1>6. IF add = {} THEN UNCHANGED <<stored, torn>>
      ELSE /\ stored' = [k \in SecretIds |-> IF k \in add THEN r ELSE s[k]]
           /\ torn' = torn \cup Undone(stored', add)
  BY <1>1, <1>2, <1>3, <1>5 DEF MergeWrite, WriteStorage
<1>7. /\ 0 \in SecretIds /\ 0 \notin add /\ KeyIds \subseteq SecretIds
      /\ \A k \in add : k \in SecretIds /\ stored'[k] = r
      /\ \A k \in SecretIds \ add : stored'[k] \in {stored[k], s[k]}
  BY <1>2, <1>6 DEF SecretIds, KeyIds
<1>8. \A k \in SecretIds \ add : stored'[k] = stored[k] \/ k \in torn'
  BY <1>6 DEF Undone
<1>9. torn \subseteq torn'
  BY <1>6
<1>10. PICK pc \in {"spkRead", "done"} : Goto(r, pc) /\ (pc = "spkRead" <=> refresh[r].rotate)
  BY <1>1 DEF MergeWrite, Refresh
<1>11. PICK q \in Refresh : Went(r, pc, q)
  BY <1>1, <1>10, GotoEffect DEF StorageSteps
<1>12. /\ refresh' = [refresh EXCEPT ![r] = q] /\ q.pc = pc
       /\ pc = "done" => q.live /\ q.snap = Nothing
       /\ pc = "spkRead" => /\ q.ids = ids /\ q.todo = {} /\ q.rotate = refresh[r].rotate
                            /\ q.live = refresh[r].live /\ q.snap = s
  BY <1>1, <1>2, <1>3, <1>10, <1>11 DEF Went
<1>13. refresh'[r] = q /\ \A p \in Refreshes \ {r} : refresh'[p] = refresh[p]
  BY <1>1, <1>12, PutRefresh
<1>14. Merged(r)' /\ \A m \in Makers \ {r} : Merged(m) <=> Merged(m)'
  BY <1>1, <1>10, <1>12, <1>13 DEF Merged, Makers
<1>15. \A m \in Makers : Merged(m) => Merged(m)'
  BY <1>14
<1>16. Belongs(s)'
  BY <1>1, <1>4, <1>15, BelongsStays
<1>17. Belongs(stored)'
  <2>1. PICK b \in Storage : b = stored
    BY <1>1, Types
  <2>2. Belongs(b)
    BY <2>1 DEF Quiet
  <2>3. Belongs(b)'
    BY <1>1, <1>15, <2>2, BelongsStays
  <2>4. ASSUME NEW k \in KeyIds \ Surplus, stored'[k] # None
        PROVE  stored'[k] = pub'[k] /\ Merged(stored[k])'
    <3>1. CASE k \in add
      BY <1>1, <1>4, <1>7, <1>14, <3>1
    <3>2. CASE k \notin add
      <4>1. stored'[k] \in {b[k], s[k]}
        BY <1>7, <2>1, <3>2
      <4> QED BY <1>16, <2>3, <2>4, <4>1 DEF Belongs
    <3> QED BY <3>1, <3>2
  <2> QED BY <2>4 DEF Belongs
<1>18. Belongs(q.snap)'
  <2>1. Belongs(Nothing)'
    BY DEF Belongs, Nothing, SecretIds
  <2> QED BY <1>10, <1>12, <1>16, <2>1
<1>19. ASSUME NEW k \in KeyIds \ Surplus, st[k] = "free", Merged(pub[k])' PROVE stored'[k] = pub[k] \/ k \in torn'
  <2>1. CASE k \in ids
    BY <1>4, <1>5, <1>7, <2>1
  <2>2. CASE k \notin ids
    <3>1. PICK m \in Makers \ {r} : m = pub[k]
      BY <1>1, <1>4, <1>19, <2>2, Types DEF IInv, Rows
    <3>2. Merged(m)
      BY <1>1, <1>14, <1>19, <3>1
    <3>3. stored[k] = pub[k] \/ k \in torn
      BY <1>19, <3>1, <3>2 DEF Quiet, OneTimeHeld, Free
    <3> QED BY <1>7, <1>8, <1>9, <2>2, <3>3
  <2> QED BY <2>1, <2>2
<1>20. OneTimeHeld'
  BY <1>1, <1>19 DEF OneTimeHeld, Free
<1>21. SignedHeld'
  <2>1. SUFFICES ASSUME Finished(spk)' PROVE stored'[0] = spk' \/ 0 \in torn'
    BY DEF SignedHeld
  <2>2. spk # r
    <3>1. spk = r => pc = "spkRead"
      BY <1>1, <1>10 DEF Orderly
    <3> QED BY <1>1, <1>12, <1>13, <2>1, <3>1 DEF Finished
  <2>3. Finished(spk)
    BY <1>1, <1>13, <2>1, <2>2, Types DEF Finished, Makers
  <2>4. stored[0] = spk \/ 0 \in torn
    BY <2>3 DEF Quiet, SignedHeld
  <2> QED BY <1>1, <1>7, <1>8, <1>9, <2>4
<1>22. Orderly(r, q)'
  <2>1. CASE pc = "done"
    BY <1>12, <2>1 DEF Orderly, Active
  <2>2. CASE pc = "spkRead"
    BY <1>1, <1>2, <1>4, <1>10, <1>12, <2>2 DEF Orderly
  <2> QED BY <1>10, <2>1, <2>2
<1>23. Alone(r) /\ q.live /\ q.pc # "idle"
  BY <1>1, <1>10, <1>12 DEF Quiet
<1> QED BY <1>1, <1>12, <1>14, <1>17, <1>18, <1>20, <1>21, <1>22, <1>23, QuietRefresh

\* The secret of the signed prekey is stored.
LEMMA QuietSpkWrite ==
  ASSUME IInv, Quiet, NEW r \in Refreshes, SpkWrite(r)
  PROVE  Quiet'
<1>1. /\ refresh[r].pc = "spkWrite" /\ UNCHANGED <<st, pub, claim, spk>>
      /\ TypeOK /\ Orderly(r, refresh[r]) /\ Active(refresh[r]) /\ refresh[r] \in Refresh
  BY Types DEF IInv, SpkWrite, Quiet, Active, server
<1>2. spk = r
  BY <1>1 DEF Orderly
<1>3. PICK s \in Storage : s = refresh[r].snap
  BY <1>1 DEF Refresh
<1>4. stored' = [s EXCEPT ![0] = r] /\ torn' = torn \cup Undone(stored', {0}) /\ Goto(r, "done")
  BY <1>3 DEF SpkWrite, WriteStorage
<1>5. stored'[0] = r /\ \A k \in KeyIds : k \in SecretIds \ {0} /\ stored'[k] = s[k]
  BY <1>4 DEF Storage, SecretIds, KeyIds
<1>6. torn \subseteq torn' /\ \A k \in SecretIds \ {0} : stored'[k] = stored[k] \/ k \in torn'
  BY <1>4 DEF Undone
<1>7. PICK q \in Refresh : Went(r, "done", q)
  BY <1>1, <1>4, GotoEffect
<1>8. refresh' = [refresh EXCEPT ![r] = q] /\ q.pc = "done" /\ q.live /\ q.snap = Nothing
  BY <1>7 DEF Went
<1>9. refresh'[r] = q /\ \A p \in Refreshes \ {r} : refresh'[p] = refresh[p]
  BY <1>1, <1>8, PutRefresh
<1>10. \A m \in Makers : Merged(m) <=> Merged(m)'
  BY <1>1, <1>8, <1>9 DEF Merged, Makers
<1>11. Belongs(s)
  BY <1>3 DEF Quiet
<1>12. Belongs(s)'
  BY <1>1, <1>10, <1>11, BelongsStays
<1>13. Belongs(stored)'
  BY <1>5, <1>12 DEF Belongs
<1>14. Belongs(q.snap)'
  BY <1>8 DEF Belongs, Nothing, SecretIds
<1>15. ASSUME NEW k \in KeyIds \ Surplus, st[k] = "free", Merged(pub[k])' PROVE stored'[k] = pub[k] \/ k \in torn'
  <2>1. pub[k] \in Makers
    BY <1>1, <1>15, Types DEF IInv, Rows
  <2>2. PICK m \in Makers : m = pub[k]
    BY <2>1
  <2>3. Merged(m)
    BY <1>1, <1>10, <1>15, <2>2
  <2>4. stored[k] = pub[k] \/ k \in torn
    BY <1>15, <2>2, <2>3 DEF Quiet, OneTimeHeld, Free
  <2> QED BY <1>5, <1>6, <2>4
<1>16. OneTimeHeld'
  BY <1>1, <1>15 DEF OneTimeHeld, Free
<1>17. SignedHeld' /\ Orderly(r, q)' /\ Alone(r) /\ q.pc # "idle"
  BY <1>1, <1>2, <1>5, <1>8 DEF SignedHeld, Orderly, Active, Quiet
<1>18. Merged(r) => Merged(r)'
  BY <1>10 DEF Makers
<1> QED BY <1>1, <1>8, <1>13, <1>14, <1>16, <1>17, <1>18, QuietRefresh

-----------------------------------------------------------------------------
\* An initiator takes a step that changes no row.
LEMMA QuietInitiator ==
  ASSUME IInv, Quiet, NEW i \in Initiators, NEW c \in Initiator, claim' = [claim EXCEPT ![i] = c],
         UNCHANGED <<server, refresh>>, Belongs(c.snap),
         c.pc \in {"claimed", "removeWrite"} => st[c.id] = "used",
         Belongs(stored)', OneTimeHeld', SignedHeld'
  PROVE  Quiet'
<1>1. claim'[i] = c /\ \A j \in Initiators \ {i} : claim'[j] = claim[j]
  BY PutClaim DEF IInv
<1>2. UNCHANGED <<st, pub, spk, spkOld, refresh>>
  BY DEF server
<1>3. Free' = Free /\ \A s : Belongs(s) <=> Belongs(s)'
  BY <1>2 DEF Free, Belongs, Merged
<1>4. ASSUME NEW r \in Refreshes
      PROVE  /\ refresh'[r].live /\ Belongs(refresh[r].snap)' /\ Orderly(r, refresh[r])'
             /\ Active(refresh'[r]) => Alone(r)'
             /\ refresh'[r].pc = "idle" => spk' # r
  <2>1. PICK q : q = refresh[r]
    OBVIOUS
  <2>2. /\ q.live /\ Belongs(q.snap) /\ Orderly(r, q)
        /\ Active(q) => Alone(r)
        /\ q.pc = "idle" => spk # r
    BY <2>1 DEF Quiet
  <2>3. Belongs(q.snap)' /\ Orderly(r, q)'
    BY <1>2, <1>3, <2>2 DEF Orderly
  <2> QED BY <1>2, <2>1, <2>2, <2>3 DEF Alone
<1>5. ASSUME NEW j \in Initiators
      PROVE  /\ Belongs(claim[j].snap)'
             /\ claim'[j].pc \in {"claimed", "removeWrite"} => st'[claim'[j].id] = "used"
  <2>1. PICK d : d = claim'[j]
    OBVIOUS
  <2>2. Belongs(d.snap) /\ (d.pc \in {"claimed", "removeWrite"} => st[d.id] = "used")
    BY <1>1, <2>1 DEF Quiet
  <2>3. Belongs(d.snap)'
    BY <1>3, <2>2
  <2> QED BY <1>2, <2>1, <2>2, <2>3
<1> QED BY <1>2, <1>4, <1>5 DEF Quiet

\* An initiator claims a row: fewer rows are free.
LEMMA QuietUpdate ==
  ASSUME IInv, Quiet, NEW i \in Initiators, ClaimUpdate(i)
  PROVE  Quiet'
<1>1. PICK k \in KeyIds, c \in Initiator :
        /\ claim' = [claim EXCEPT ![i] = c] /\ st' = [st EXCEPT ![k] = "used"]
        /\ k = claim[i].id /\ c.id = k /\ c.pc = "claimed" /\ c.snap = claim[i].snap
        /\ c.key = [id |-> k, maker |-> pub[k]] /\ c.key \in Secret /\ (c.contended <=> st[k] # "free")
  BY UpdateEffect
<1>2. UNCHANGED <<pub, spk, spkOld, stored, refresh, torn, calm>> /\ TypeOK
  BY DEF ClaimUpdate, IInv
<1>3. claim'[i] = c /\ \A j \in Initiators \ {i} : claim'[j] = claim[j]
  BY <1>1, <1>2, PutClaim
<1>4. st'[k] = "used" /\ st[k] # "absent" /\ \A j \in KeyIds \ {k} : st'[j] = st[j]
  BY <1>1, <1>2, Types DEF IInv, ClaimUpdate, Chosen
<1>5. \A s : Belongs(s) <=> Belongs(s)'
  BY <1>2 DEF Belongs, Merged
<1>6. Free' \subseteq Free
  BY <1>4 DEF Free
<1>7. Cardinality(Free') <= Cardinality(Free) /\ Cardinality(Free') \in Nat /\ Cardinality(Free) \in Nat
  <2>1. IsFiniteSet(KeyIds)
    BY Constants, FS_Interval DEF KeyIds
  <2>2. IsFiniteSet(Free)
    BY <2>1, FS_Subset DEF Free
  <2> QED BY <1>6, <2>2, FS_Subset, FS_CardinalityType
<1>8. ASSUME NEW r \in Refreshes
      PROVE  /\ refresh'[r].live /\ Belongs(refresh[r].snap)' /\ Orderly(r, refresh[r])'
             /\ Active(refresh'[r]) => Alone(r)'
             /\ refresh'[r].pc = "idle" => spk' # r
  <2>1. PICK q \in Refresh : q = refresh[r]
    BY <1>2, Types
  <2>2. /\ q.live /\ Belongs(q.snap) /\ Orderly(r, q)
        /\ Active(q) => Alone(r)
        /\ q.pc = "idle" => spk # r
    BY <2>1 DEF Quiet
  <2>3. Belongs(q.snap)'
    BY <1>5, <2>2
  <2>4. q.ids \subseteq KeyIds /\ q.todo \subseteq KeyIds
    BY DEF Refresh
  <2>5. Cardinality(q.ids) \in Nat
    <3>1. IsFiniteSet(KeyIds)
      BY Constants, FS_Interval DEF KeyIds
    <3> QED BY <2>4, <3>1, FS_Subset, FS_CardinalityType
  <2>6. Cardinality(Free) + Cardinality(q.ids) <= Quota => Cardinality(Free') + Cardinality(q.ids) <= Quota
    BY <1>7, <2>5, Constants
  <2>7. \A j \in q.todo : st[j] = "absent" => st'[j] = "absent"
    BY <1>4, <2>4
  <2>8. Orderly(r, q)'
    BY <1>2, <2>2, <2>6, <2>7 DEF Orderly
  <2> QED BY <1>2, <2>1, <2>2, <2>3, <2>8 DEF Alone
<1>9. ASSUME NEW j \in Initiators
      PROVE  /\ Belongs(claim[j].snap)'
             /\ claim'[j].pc \in {"claimed", "removeWrite"} => st'[claim'[j].id] = "used"
  <2>1. PICK d : d = claim'[j]
    OBVIOUS
  <2>2. Belongs(d.snap) /\ (d.pc \in {"claimed", "removeWrite"} => d.id \in KeyIds /\ st'[d.id] = "used")
    <3>1. CASE j = i
      BY <1>1, <1>3, <1>4, <2>1, <3>1 DEF Quiet
    <3>2. CASE j # i
      <4>1. Chosen(d) /\ Belongs(d.snap) /\ (d.pc \in {"claimed", "removeWrite"} => st[d.id] = "used")
        BY <1>3, <2>1, <3>2 DEF Quiet, IInv
      <4> QED BY <1>4, <4>1 DEF Chosen
    <3> QED BY <3>1, <3>2
  <2>3. Belongs(d.snap)'
    BY <1>5, <2>2
  <2> QED BY <2>1, <2>2, <2>3
<1>10. Belongs(stored)'
  <2>1. PICK s : s = stored
    OBVIOUS
  <2>2. Belongs(s)
    BY <2>1 DEF Quiet
  <2> QED BY <1>2, <1>5, <2>1, <2>2
<1>11. OneTimeHeld' /\ SignedHeld'
  BY <1>2, <1>6 DEF Quiet, OneTimeHeld, SignedHeld, Merged, Finished
<1>12. \A j \in KeyIds : st'[j] # "old"
  BY <1>4 DEF Quiet
<1> QED BY <1>8, <1>9, <1>10, <1>11, <1>12 DEF Quiet

\* Every step of an initiator.
LEMMA QuietClaim ==
  ASSUME IInv, Quiet, NEW i \in Initiators, Claim(i)
  PROVE  Quiet'
<1>1. TypeOK /\ claim[i] \in Initiator /\ Belongs(claim[i].snap) /\ Belongs(stored)
  BY Types DEF IInv, Quiet
<1>2. ASSUME UNCHANGED <<server, stored, refresh, torn>>
      PROVE  Belongs(stored)' /\ OneTimeHeld' /\ SignedHeld'
  BY <1>2 DEF server, Quiet, Belongs, OneTimeHeld, SignedHeld, Free, Merged, Finished
<1>3. CASE ClaimSelect(i)
  <2>1. PICK c \in Initiator :
          claim' = [claim EXCEPT ![i] = c] /\ c.snap = claim[i].snap /\ c.pc \in {"done", "update"}
    BY <1>3, SelectEffect
  <2>2. UNCHANGED <<server, stored, refresh, torn>>
    BY <1>3 DEF ClaimSelect
  <2> QED BY <1>1, <1>2, <2>1, <2>2, QuietInitiator
<1>4. CASE ClaimUpdate(i)
  BY <1>4, QuietUpdate
<1>5. CASE Decrypt(i)
  <2>1. PICK c \in Initiator :
          /\ claim' = [claim EXCEPT ![i] = c] /\ c.id = claim[i].id
          /\ c.pc \in {"removeWrite", "done"} /\ c.snap \in {stored, claim[i].snap}
    BY <1>5, DecryptEffect
  <2>2. UNCHANGED <<server, stored, refresh, torn>> /\ st[c.id] = "used"
    BY <1>5, <2>1 DEF Decrypt, Quiet
  <2>3. Belongs(c.snap)
    BY <1>1, <2>1
  <2> QED BY <1>2, <2>1, <2>2, <2>3, QuietInitiator
<1>6. CASE RemoveWrite(i)
  <2>1. PICK c \in Initiator :
          claim' = [claim EXCEPT ![i] = c] /\ c.pc = "done" /\ c.snap = Nothing
    BY <1>6, RemoveEffect
  <2>2. PICK k \in KeyIds : k = claim[i].id /\ st[k] = "used"
    BY <1>6, RemoveEffect DEF RemoveWrite, Quiet
  <2>3. PICK s \in Storage : s = claim[i].snap
    BY <1>1 DEF Initiator
  <2>4. /\ \A j \in SecretIds \ {k} : stored'[j] = s[j]
        /\ stored'[k] = None
        /\ torn' = torn \cup {j \in SecretIds \ {k} : stored'[j] # stored[j]}
    BY <1>6, <2>2, <2>3, RemoveEffect
  <2>5. UNCHANGED <<st, pub, spk, refresh>> /\ UNCHANGED server
    BY <1>6 DEF RemoveWrite, server
  <2>6. Belongs(s)'
    BY <1>1, <2>3, <2>5 DEF Belongs, Merged
  <2>7. Belongs(stored)'
    BY <2>4, <2>6 DEF Belongs, SecretIds
  <2>8. torn \subseteq torn' /\ \A j \in SecretIds \ {k} : stored'[j] = stored[j] \/ j \in torn'
    BY <2>4
  <2>9. OneTimeHeld'
    <3>1. ASSUME NEW j \in Free \ Surplus, Merged(pub[j]) PROVE stored'[j] = pub[j] \/ j \in torn'
      <4>1. j \in SecretIds \ {k}
        BY <2>2 DEF Free, SecretIds
      <4>2. stored[j] = pub[j] \/ j \in torn
        BY <3>1 DEF Quiet, OneTimeHeld
      <4> QED BY <2>8, <4>1, <4>2
    <3> QED BY <2>5, <3>1 DEF OneTimeHeld, Free, Merged
  <2>10. SignedHeld'
    <3>1. 0 \in SecretIds \ {k}
      BY DEF SecretIds, KeyIds
    <3> QED BY <2>5, <2>8, <3>1 DEF Quiet, SignedHeld, Finished
  <2>11. Belongs(c.snap)
    BY <2>1 DEF Belongs, Nothing, SecretIds
  <2> QED BY <2>1, <2>5, <2>7, <2>9, <2>10, <2>11, QuietInitiator
<1> QED BY <1>3, <1>4, <1>5, <1>6 DEF Claim

-----------------------------------------------------------------------------
\* A registration is quiet.
LEMMA InitQuiet ==
  ASSUME Init
  PROVE  Quiet
<1>1. /\ MaxId \in Nat /\ Generated \in Nat /\ Registration \notin Refreshes /\ None \notin Makers
  BY Constants
<1>2. \A r \in Refreshes : refresh[r] = NewRefresh
  BY DEF Init
<1>3. \A i \in Initiators : claim[i].pc = "idle" /\ claim[i].snap = Nothing
  BY DEF Init
<1>4. Belongs(Nothing)
  BY DEF Belongs, Nothing, SecretIds
<1>5. \A k \in KeyIds : k \in SecretIds /\ st[k] # "old" /\ pub[k] \in {Registration, None}
  BY DEF Init, SecretIds
<1>6. ASSUME NEW k \in KeyIds \ Surplus PROVE stored[k] = pub[k]
  <2>1. k \in Int /\ (k <= Uploaded <=> k <= Generated)
    BY Constants DEF Surplus, KeyIds
  <2>2. stored[k] = IF k <= Generated THEN Registration ELSE None
    BY DEF Init, SecretIds
  <2>3. pub[k] = IF k <= Uploaded THEN Registration ELSE None
    BY DEF Init
  <2> QED BY <2>1, <2>2, <2>3
<1>7. Belongs(stored) /\ OneTimeHeld
  BY <1>5, <1>6 DEF Belongs, OneTimeHeld, Free, Merged
<1>8. SignedHeld
  BY <1>1 DEF Init, SignedHeld, SecretIds
<1>9. ASSUME NEW r \in Refreshes
      PROVE  refresh[r].live /\ refresh[r].pc = "idle" /\ refresh[r].snap = Nothing
  BY <1>2 DEF NewRefresh
<1>10. \A r \in Refreshes : spk # r
  BY <1>1 DEF Init
<1> QED BY <1>3, <1>4, <1>5, <1>7, <1>8, <1>9, <1>10 DEF Quiet, Orderly, Active

\* Every step of a calm behaviour keeps the second invariant: nothing is cancelled
\* or fails, no month passes, and no row is old enough for the cleanup.
LEMMA NextCalm ==
  ASSUME IInv, CalmInv, [Next]_vars
  PROVE  CalmInv'
<1>1. calm' = calm
  BY DEF Next, Claim, ClaimSelect, ClaimUpdate, Decrypt, RemoveWrite, StartRefresh, Upload, Keep,
         UpdateSignedPrekey, CheckQuota, InsertPrekey, Reply, StorageRead, MergeWrite, SpkWrite,
         Cancel, Fail, Cleanup, Month, Week, vars
<1>2. SUFFICES ASSUME calm, Quiet PROVE Quiet'
  BY <1>1 DEF CalmInv
<1>3. CASE UNCHANGED <<st, pub, spk, stored, refresh, claim, torn>>
  <2>1. Free' = Free /\ \A s : Belongs(s) <=> Belongs(s)'
    BY <1>3 DEF Free, Belongs, Merged
  <2>2. \A r, q : (Orderly(r, q) <=> Orderly(r, q)') /\ (Alone(r) <=> Alone(r)')
    BY <1>3, <2>1 DEF Orderly, Alone
  <2>3. (OneTimeHeld <=> OneTimeHeld') /\ (SignedHeld <=> SignedHeld')
    BY <1>3, <2>1 DEF OneTimeHeld, SignedHeld, Merged, Finished
  <2> QED BY <1>2, <1>3, <2>1, <2>2, <2>3 DEF Quiet
<1>4. ASSUME NEW r \in Refreshes, StartRefresh(r) \/ Upload(r) \/ Keep(r) \/ Cancel(r) \/ Fail(r)
      PROVE  Quiet'
  <2>1. ~ Cancel(r) /\ ~ Fail(r)
    BY <1>2 DEF Cancel, Fail
  <2> QED BY <1>2, <1>4, <2>1, QuietStart, QuietSigned, QuietQuota, QuietInsert, QuietReply,
             QuietRead, QuietMerge, QuietSpkWrite DEF Upload, Keep
<1>5. CASE \E i \in Initiators : Claim(i)
  BY <1>2, <1>5, QuietClaim
<1>6. CASE UNCHANGED vars \/ Week
  BY <1>3, <1>6 DEF vars, server, Week
<1>7. ~ Cleanup /\ ~ Month
  BY <1>2 DEF Cleanup, Month, Quiet
<1> QED BY <1>4, <1>5, <1>6, <1>7 DEF Next

\* What the directory offers, the device can use: in one page, as long as nothing
\* fails, the secret of every free one-time prekey and of the signed prekey is stored
\* once the refresh that published it is over, or a write of storage undid it; except
\* under the ids of the surplus keys of the registration.
THEOREM KeyDirOfferedHasSecret == Spec => []OfferedHasSecret
<1>1. Init => CalmInv
  BY InitQuiet DEF CalmInv
<1>2. IInv /\ CalmInv /\ [Next]_vars => CalmInv'
  BY NextCalm
<1>3. CalmInv => OfferedHasSecret
  BY DEF CalmInv, Quiet, OfferedHasSecret, OneTimeHeld, SignedHeld, Usable, Finished, Merged
<1> QED BY <1>1, <1>2, <1>3, KeyDirInductive, PTL DEF Spec
=============================================================================
