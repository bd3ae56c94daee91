------------------------------- MODULE KeyDir -------------------------------
(***************************************************************************)
(* The prekeys of one device: the key directory (keydir.Service, the       *)
(* cleanup loop of cmd/server), the web client that refreshes them         *)
(* (Chat.tsx), and the copy of the secrets it keeps in IndexedDB           *)
(* (key-storage.ts).                                                       *)
(*                                                                         *)
(* A refresh is one run of the effect in Chat.tsx.  It generates key pairs *)
(* of its own, so a pair is named by its key id and the refresh that made  *)
(* it.  An initiator fetches a bundle with GET /keys/bundle/{user}, which  *)
(* claims a one-time prekey, and may then write a message with it.         *)
(***************************************************************************)
EXTENDS Integers, FiniteSets, FiniteSetsExt

CONSTANTS Refreshes, Initiators,
          MaxId,       \* bound: key ids in the model
          Generated,   \* one-time prekeys that a registration generates and stores ...
          Uploaded,    \* ... and the first of them, which it uploads
          Batch,       \* REPLENISH_COUNT
          Threshold,   \* REPLENISH_THRESHOLD
          Quota,       \* MaxOneTimePrekeysPerDevice
          Registration, None

ASSUME KeyDirConstants ==
  /\ MaxId \in Nat /\ Batch \in 1 .. MaxId /\ Threshold \in Nat /\ Quota \in Nat
  /\ Generated \in 0 .. MaxId /\ Uploaded \in 0 .. Generated
  /\ Registration \notin Refreshes /\ None \notin Refreshes \cup {Registration}

\* The quota has room for a batch whenever a page decides to add one (20, 50, 500).
ASSUME QuotaAssumption == Threshold + Batch <= Quota + 1

KeyIds == 1 .. MaxId
Makers == Refreshes \cup {Registration}
\* Stored at the registration and never uploaded; refreshes use their ids again.
Surplus == Uploaded + 1 .. Generated
NoKey == [id |-> 0, maker |-> None]

VARIABLES st,      \* one_time_prekeys: key id -> absent | free | used | old
          pub,     \* key id -> the maker of the public key in that row
          spk,     \* devices.signed_prekey: its maker
          spkOld,  \* devices.updated_at is more than seven days ago
          stored,  \* the secrets in IndexedDB
          refresh, \* refreshes
          claim,   \* initiators
          torn,    \* secrets a storage write undid by accident (history)
          calm     \* one page is open, nothing fails, weeks pass and not months

server == <<st, pub, spk, spkOld>>
vars == <<server, stored, refresh, claim, torn, calm>>

\* 0 stands for the signed prekey.
SecretIds == KeyIds \cup {0}
Storage == [SecretIds -> Makers \cup {None}]

Nothing == [k \in SecretIds |-> None]

NewRefresh == [pc |-> "idle", ids |-> {}, rotate |-> FALSE, todo |-> {},
               live |-> TRUE, snap |-> Nothing]

ServerSteps == {"spk", "count", "insert"}
StorageSteps == {"mergeRead", "mergeWrite", "spkRead", "spkWrite"}

TypeOK ==
  /\ st \in [KeyIds -> {"absent", "free", "used", "old"}]
  /\ pub \in [KeyIds -> Makers \cup {None}]
  /\ spk \in Makers
  /\ spkOld \in BOOLEAN
  /\ stored \in Storage
  /\ refresh \in [Refreshes ->
       [pc : {"idle", "reply", "done"} \cup ServerSteps \cup StorageSteps,
        ids : SUBSET KeyIds, rotate : BOOLEAN, todo : SUBSET KeyIds,
        live : BOOLEAN, snap : Storage]]
  /\ claim \in [Initiators ->
       [pc : {"idle", "update", "claimed", "removeWrite", "done"},
        id : SecretIds, key : {NoKey} \cup [id : KeyIds, maker : Makers],
        contended : BOOLEAN, snap : Storage]]
  /\ torn \subseteq SecretIds
  /\ calm \in BOOLEAN

\* After a registration, or the first login of a device.
Init ==
  /\ st = [k \in KeyIds |-> IF k <= Uploaded THEN "free" ELSE "absent"]
  /\ pub = [k \in KeyIds |-> IF k <= Uploaded THEN Registration ELSE None]
  /\ spk = Registration
  /\ spkOld = FALSE
  /\ stored = [k \in SecretIds |-> IF k <= Generated THEN Registration ELSE None]
  /\ refresh = [r \in Refreshes |-> NewRefresh]
  /\ claim = [i \in Initiators |->
       [pc |-> "idle", id |-> 0, key |-> NoKey, contended |-> FALSE,
        snap |-> Nothing]]
  /\ torn = {}
  /\ calm \in BOOLEAN

Free == {k \in KeyIds : st[k] = "free"}

-----------------------------------------------------------------------------
\* GetBundleForUser: the sub-select of the UPDATE picks the first free row ...
ClaimSelect(i) ==
  /\ claim[i].pc = "idle"
  /\ claim' = [claim EXCEPT ![i] = IF Free = {} THEN [@ EXCEPT !.pc = "done"]
                                   ELSE [@ EXCEPT !.pc = "update", !.id = Min(Free)]]
  /\ UNCHANGED <<server, stored, refresh, torn, calm>>

\* Variant: key_id and prekey are scanned in the wrong order.
ClaimUpdateSwapped(i) ==
  /\ claim[i].pc = "update"
  /\ LET k == claim[i].id IN
       /\ st' = [st EXCEPT ![k] = "used"]
       /\ claim' = [claim EXCEPT ![i] =
            [@ EXCEPT !.pc = "claimed", !.key = [id |-> pub[k], maker |-> k],
                      !.contended = st[k] # "free"]]
  /\ UNCHANGED <<pub, spk, spkOld, stored, refresh, torn, calm>>

\* ... and the UPDATE takes its lock, possibly after another one did, and
\* returns the row: the sub-select is not evaluated again.
ClaimUpdate(i) ==
  /\ claim[i].pc = "update"
  /\ LET k == claim[i].id IN
       /\ st' = [st EXCEPT ![k] = "used"]
       /\ claim' = [claim EXCEPT ![i] =
            [@ EXCEPT !.pc = "claimed", !.key = [id |-> k, maker |-> pub[k]],
                      !.contended = st[k] # "free"]]
  /\ UNCHANGED <<pub, spk, spkOld, stored, refresh, torn, calm>>

\* CleanupOldConsumedPrekeys
Cleanup ==
  /\ \E k \in KeyIds : st[k] = "old"
  /\ st' = [k \in KeyIds |-> IF st[k] = "old" THEN "absent" ELSE st[k]]
  /\ pub' = [k \in KeyIds |-> IF st[k] = "old" THEN None ELSE pub[k]]
  /\ UNCHANGED <<spk, spkOld, stored, refresh, claim, torn, calm>>

\* Thirty days: no statement takes that long, a sleeping page may.
Month ==
  /\ ~calm
  /\ \E k \in KeyIds : st[k] = "used"
  /\ \A i \in Initiators : claim[i].pc # "update"
  /\ \A r \in Refreshes : refresh[r].pc \notin ServerSteps
  /\ st' = [k \in KeyIds |-> IF st[k] = "used" THEN "old" ELSE st[k]]
  /\ spkOld' = TRUE
  /\ UNCHANGED <<pub, spk, stored, refresh, claim, torn, calm>>

Week ==
  /\ ~spkOld
  /\ spkOld' = TRUE
  /\ UNCHANGED <<st, pub, spk, stored, refresh, claim, torn, calm>>

-----------------------------------------------------------------------------
Goto(r, pc) ==
  refresh' = [refresh EXCEPT ![r] = IF pc = "done" THEN [NewRefresh EXCEPT !.pc = "done"]
                                                   ELSE [@ EXCEPT !.pc = pc]]

\* Within one page the lock orders the refreshes; what a closed page left
\* running on the server does not hold up the next page.
MayStart(r) ==
  calm => \A q \in Refreshes \ {r} : \/ refresh[q].pc \in {"idle", "done"}
                                        \/ ~refresh[q].live

\* GetKeyStatus: the highest key id of the rows that are left, plus one
NextKeyId ==
  LET rows == {k \in KeyIds : st[k] # "absent"} IN IF rows = {} THEN 1 ELSE Max(rows) + 1

\* GET /keys/status; the page generates what is missing and calls PUT /keys.
\* The error of the SELECT of the highest key id is discarded.
StartRefresh(r) ==
  /\ refresh[r].pc = "idle"
  /\ MayStart(r)
  /\ \E next \in {NextKeyId} \cup {n \in {1} : ~calm} :
     LET ids == IF Cardinality(Free) < Threshold THEN next .. next + Batch - 1 ELSE {} IN
       /\ ids \subseteq KeyIds
       /\ refresh' = [refresh EXCEPT ![r] =
            [@ EXCEPT !.ids = ids, !.todo = ids, !.rotate = spkOld,
                      !.pc = IF ids = {} /\ ~spkOld THEN "done" ELSE "spk"]]
  /\ UNCHANGED <<server, stored, claim, torn, calm>>

\* UpdateKeys: the signed prekey, if there is one, ...
UpdateSignedPrekey(r) ==
  /\ refresh[r].pc = "spk"
  /\ IF refresh[r].rotate THEN spk' = r /\ spkOld' = FALSE ELSE UNCHANGED <<spk, spkOld>>
  /\ Goto(r, IF refresh[r].ids = {} THEN "reply" ELSE "count")
  /\ UNCHANGED <<st, pub, stored, claim, torn, calm>>

\* ... the quota, ...
CheckQuota(r) ==
  /\ refresh[r].pc = "count"
  /\ Goto(r, IF Cardinality(Free) + Cardinality(refresh[r].ids) > Quota
             THEN "done" ELSE "insert")
  /\ UNCHANGED <<server, stored, claim, torn, calm>>

\* Variant: ON CONFLICT DO UPDATE SET consumed_at = NULL.
InsertPrekeyOverwrites(r) ==
  /\ refresh[r].pc = "insert"
  /\ LET k == Min(refresh[r].todo)
         left == refresh[r].todo \ {k}
     IN /\ st' = [st EXCEPT ![k] = "free"]
        /\ pub' = [pub EXCEPT ![k] = IF @ = None THEN r ELSE @]
        /\ refresh' = [refresh EXCEPT ![r].todo = left,
                                      ![r].pc = IF left = {} THEN "reply" ELSE "insert"]
  /\ UNCHANGED <<spk, spkOld, stored, claim, torn, calm>>

\* ... and the one-time prekeys one by one, ON CONFLICT DO NOTHING.
InsertPrekey(r) ==
  /\ refresh[r].pc = "insert"
  /\ LET k == Min(refresh[r].todo)
         left == refresh[r].todo \ {k}
     IN /\ IF st[k] = "absent"
           THEN st' = [st EXCEPT ![k] = "free"] /\ pub' = [pub EXCEPT ![k] = r]
           ELSE UNCHANGED <<st, pub>>
        /\ refresh' = [refresh EXCEPT ![r].todo = left,
                                      ![r].pc = IF left = {} THEN "reply" ELSE "insert"]
  /\ UNCHANGED <<spk, spkOld, stored, claim, torn, calm>>

\* The call returns; a refresh that was cancelled meanwhile stops here.
Reply(r) ==
  /\ refresh[r].pc = "reply"
  /\ Goto(r, CASE ~refresh[r].live -> "done"
               [] refresh[r].ids # {} -> "mergeRead"
               [] OTHER -> "spkRead")
  /\ UNCHANGED <<server, stored, claim, torn, calm>>

-----------------------------------------------------------------------------
\* Storage is read in one IndexedDB transaction and written back as a whole in
\* another.  Undone(new, mine): what the write changes besides its purpose.
Undone(new, mine) == {k \in SecretIds \ mine : new[k] # stored[k]}

WriteStorage(new, mine) == stored' = new /\ torn' = torn \cup Undone(new, mine)

\* mergeOtpksToStorage, updateSignedPrekeyInStorage
StorageRead(r) ==
  /\ refresh[r].pc \in {"mergeRead", "spkRead"}
  /\ refresh' = [refresh EXCEPT ![r].snap = stored,
                                ![r].pc = IF @ = "mergeRead" THEN "mergeWrite" ELSE "spkWrite"]
  /\ UNCHANGED <<server, stored, claim, torn, calm>>

\* Variant: a batch replaces what is stored.
MergeWriteReplaces(r) ==
  /\ refresh[r].pc = "mergeWrite"
  /\ stored' = [k \in SecretIds |-> IF k \in refresh[r].ids THEN r
                                    ELSE IF k = 0 THEN refresh[r].snap[k] ELSE None]
  /\ Goto(r, IF refresh[r].rotate THEN "spkRead" ELSE "done")
  /\ UNCHANGED <<server, claim, torn, calm>>

\* Key ids that are stored already keep their secret.
MergeWrite(r) ==
  /\ refresh[r].pc = "mergeWrite"
  /\ LET snap == refresh[r].snap
         toAdd == {k \in refresh[r].ids : snap[k] = None}
     IN IF toAdd = {} THEN UNCHANGED <<stored, torn>>
        ELSE WriteStorage([k \in SecretIds |-> IF k \in toAdd THEN r ELSE snap[k]], toAdd)
  /\ Goto(r, IF refresh[r].rotate THEN "spkRead" ELSE "done")
  /\ UNCHANGED <<server, claim, calm>>

SpkWrite(r) ==
  /\ refresh[r].pc = "spkWrite"
  /\ WriteStorage([refresh[r].snap EXCEPT ![0] = r], {0})
  /\ Goto(r, "done")
  /\ UNCHANGED <<server, claim, calm>>

\* The effect's cleanup runs (keys or token changed), which a later test of
\* cancelled sees; or the reply is lost.
Cancel(r) ==
  /\ ~calm
  /\ refresh[r].pc \in ServerSteps \cup {"reply"} /\ refresh[r].live
  /\ refresh' = [refresh EXCEPT ![r].live = FALSE]
  /\ UNCHANGED <<server, stored, claim, torn, calm>>

\* A statement fails or the page closes.
Fail(r) ==
  /\ ~calm
  /\ refresh[r].pc \in ServerSteps \cup StorageSteps
  /\ Goto(r, "done")
  /\ UNCHANGED <<server, stored, claim, torn, calm>>

\* A message made with the claimed key arrives and is decrypted, if its secret
\* is there; then removeOtpkFromStorage reads ...
Decrypt(i) ==
  /\ claim[i].pc = "claimed"
  /\ claim' = [claim EXCEPT ![i] =
       IF stored[claim[i].id] = claim[i].key.maker
       THEN [@ EXCEPT !.pc = "removeWrite", !.snap = stored]
       ELSE [@ EXCEPT !.pc = "done"]]
  /\ UNCHANGED <<server, stored, refresh, torn, calm>>

\* ... and writes.
RemoveWrite(i) ==
  /\ claim[i].pc = "removeWrite"
  /\ WriteStorage([claim[i].snap EXCEPT ![claim[i].id] = None], {claim[i].id})
  /\ claim' = [claim EXCEPT ![i].pc = "done", ![i].snap = Nothing]
  /\ UNCHANGED <<server, refresh, calm>>

Claim(i) == ClaimSelect(i) \/ ClaimUpdate(i) \/ Decrypt(i) \/ RemoveWrite(i)

Upload(r) == UpdateSignedPrekey(r) \/ CheckQuota(r) \/ InsertPrekey(r) \/ Reply(r)

Keep(r) == StorageRead(r) \/ MergeWrite(r) \/ SpkWrite(r)

Next ==
  \/ \E i \in Initiators : Claim(i)
  \/ \E r \in Refreshes : \/ StartRefresh(r) \/ Upload(r) \/ Keep(r)
                          \/ Cancel(r) \/ Fail(r)
  \/ Cleanup \/ Month \/ Week

Spec == Init /\ [][Next]_vars

-----------------------------------------------------------------------------
SameKey(i, j) == i # j /\ claim[i].key = claim[j].key /\ claim[i].key # NoKey

\* No refresh, retry, cleanup or reuse of a key id ever offers a pair again:
\* two initiators hold the same pair only if their two UPDATEs overlapped.
OnlyContendedTwice ==
  \A i, j \in Initiators : SameKey(i, j) => claim[i].contended \/ claim[j].contended

Finished(m) == m = Registration \/ refresh[m].pc = "done"

\* The device has the secret of the free one-time prekey k, if the refresh that
\* published it is over and no write of storage undid it by accident.
Usable(k) == Finished(pub[k]) => stored[k] = pub[k] \/ k \in torn

\* What the directory offers, the device can use: the secret of every free
\* one-time prekey and of the signed prekey is stored once the refresh that
\* published it is over, unless a write of storage undid it by accident: in one
\* page, as long as nothing fails.  The exception are the ids of the surplus keys
\* of the registration: mergeOtpksToStorage finds them taken.
OfferedHasSecret ==
  calm =>
  /\ \A k \in Free \ Surplus : Usable(k)
  /\ Finished(spk) => stored[0] = spk \/ 0 \in torn
=============================================================================
