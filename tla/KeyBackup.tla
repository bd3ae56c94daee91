----------------------------- MODULE KeyBackup ------------------------------
(***************************************************************************)
(* The encrypted backup of a user's keys: what the server keeps of it      *)
(* (backup_salts, key_backups), how a browser makes one (register,         *)
(* handleCreateBackup), and the two ways back: with the answer of a login, *)
(* and from a downloaded file with the salt of the server.                 *)
(*                                                                         *)
(* One user, several browsers.  A browser generates its keys and draws its *)
(* device id in the same breath, so that both carry one number; the server *)
(* keeps the public identity of a device in its row.  Of the statements of *)
(* a login (module Auth) those that touch keys are here.                   *)
(***************************************************************************)
EXTENDS Naturals

CONSTANTS Browsers,
          MaxIds,    \* bound: devices, and with them sets of keys
          MaxSalts,  \* bound: salts drawn
          None

ASSUME BoundsAssumption == MaxIds \in Nat \ {0} /\ MaxSalts \in Nat \ {0}
ASSUME NoneAssumption == None \notin Nat

VARIABLES row,       \* devices: number -> identity, or None without a row
          salt,      \* backup_salts
          blob,      \* key_backups
          ids,       \* numbers drawn
          draws,     \* salts drawn so far
          browser,
          file,      \* the backup each browser downloaded last
          foreign,   \* browsers with keys that came from another device, by a
                     \* backup or because a logout could not clear them (history)
          givenUp    \* salts of backups that were never stored (history)

vars == <<row, salt, blob, ids, draws, browser, file, foreign, givenUp>>
server == <<row, salt, blob>>
drawn == <<ids, draws>>
history == <<foreign, givenUp>>

Ids == 1 .. MaxIds
Salts == 1 .. MaxSalts

\* A backup opens with its salt and its password: the one of the account, or
\* another the user typed in.  It names the device that made it.
Backup == [salt : Salts, ident : Ids, dev : Ids, pw : {"account", "other"}]
NoBackup == [salt |-> None, ident |-> None, dev |-> None, pw |-> "account"]

Out == [pc |-> "out", dev |-> None, keys |-> None, gen |-> None, salt |-> None,
        want |-> FALSE, got |-> NoBackup]

TypeOK ==
  /\ row \in [Ids -> Ids \cup {None}]
  /\ salt \in Salts \cup {None}
  /\ blob \in Backup \cup {NoBackup}
  /\ ids \in 0 .. MaxIds
  /\ draws \in 0 .. MaxSalts
  /\ browser \in [Browsers ->
       [pc : {"out", "registered", "login", "backup", "reply", "write", "in", "made"},
        dev : Ids \cup {None}, keys : Ids \cup {None}, gen : Ids \cup {None},
        salt : Salts \cup {None}, want : BOOLEAN, got : Backup \cup {NoBackup}]]
  /\ file \in [Browsers -> Backup \cup {NoBackup}]
  /\ foreign \subseteq Browsers
  /\ givenUp \subseteq Salts

Init ==
  /\ row = [i \in Ids |-> None]
  /\ salt = None
  /\ blob = NoBackup
  /\ ids = 0 /\ draws = 0
  /\ browser = [b \in Browsers |-> Out]
  /\ file = [b \in Browsers |-> NoBackup]
  /\ foreign = {}
  /\ givenUp = {}

At(b, pc) == browser[b].pc = pc

-----------------------------------------------------------------------------
\* register: fresh keys, device id and salt; the server commits user and device.
\* It is the only registration, so nothing was drawn before.
Register(b) ==
  /\ At(b, "out") /\ ids = 0
  /\ ids' = 1 /\ draws' = 1
  /\ row' = [row EXCEPT ![1] = 1]
  /\ browser' = [browser EXCEPT ![b].pc = "registered", ![b].gen = 1, ![b].salt = 1]
  /\ UNCHANGED <<salt, blob, file, history>>

\* Variant: an existing salt is kept.
StoreKeyBackupKeepsSalt(k) ==
  /\ salt' = IF salt = None THEN k.salt ELSE salt
  /\ blob' = k

\* StoreKeyBackup: salt and bundle in one transaction.
StoreKeyBackup(k) ==
  /\ salt' = k.salt
  /\ blob' = k

\* Its error is discarded by Register.
StoreRegistered(b) ==
  /\ At(b, "registered")
  /\ \/ StoreKeyBackup([salt |-> browser[b].salt, ident |-> browser[b].gen,
                        dev |-> browser[b].gen, pw |-> "account"])
     \/ UNCHANGED <<salt, blob>>
  /\ browser' = [browser EXCEPT ![b].pc = "reply", ![b].salt = None]
  /\ UNCHANGED <<row, drawn, file, history>>

\* Variant: keys are generated whenever there are none in the storage.
LoginGeneratesForStored(b) ==
  /\ At(b, "out") /\ ids > 0 /\ ids < MaxIds
  /\ LET new == browser[b].keys = None \/ browser[b].dev = None IN
       /\ browser' = [browser EXCEPT
            ![b].pc = "login", ![b].want = browser[b].keys = None,
            ![b].gen = IF new THEN ids + 1 ELSE None]
       /\ ids' = IF new THEN ids + 1 ELSE ids
  /\ UNCHANGED <<server, draws, file, history>>

\* login: keys are generated only for a device id that is new; the backup is
\* asked for whenever no keys are in the storage.
Login(b) ==
  /\ At(b, "out") /\ ids > 0
  /\ browser' = [browser EXCEPT
       ![b].pc = "login", ![b].want = browser[b].keys = None,
       ![b].gen = IF browser[b].dev = None THEN ids + 1 ELSE None]
  /\ \/ browser[b].dev # None /\ UNCHANGED ids
     \/ browser[b].dev = None /\ ids < MaxIds /\ ids' = ids + 1
  /\ UNCHANGED <<server, draws, file, history>>

\* The device the request names: the stored one, or the new one.
DevOf(b) == IF browser[b].dev = None THEN browser[b].gen ELSE browser[b].dev

\* A request that fails leaves the browser as it was.
Abort(b) == browser' = [browser EXCEPT ![b].pc = "out", ![b].gen = None, ![b].want = FALSE,
                                       ![b].got = NoBackup]

\* auth.Login: a device without a row gets one, with the keys of the request or,
\* if the backup is asked for, with those of any device of the user.
LoginDevice(b) ==
  /\ At(b, "login")
  /\ LET d == DevOf(b)
         Enter(i) == /\ row' = [row EXCEPT ![d] = i]
                     /\ browser' = [browser EXCEPT ![b].pc = "backup"]
     IN \/ row[d] # None /\ Enter(row[d])
        \/ row[d] = None /\ browser[b].gen # None /\ Enter(browser[b].gen)
        \/ /\ row[d] = None /\ browser[b].gen = None /\ browser[b].want
           /\ \E o \in Ids : row[o] # None /\ Enter(row[o])
        \/ /\ row[d] = None /\ browser[b].gen = None
           /\ ~browser[b].want \/ \A o \in Ids : row[o] = None
           /\ Abort(b) /\ UNCHANGED row
  /\ UNCHANGED <<salt, blob, drawn, file, history>>

\* GetKeyBackup: salt and bundle as they are now, in one statement.
ReadBackup(b) ==
  /\ At(b, "backup")
  /\ browser' = [browser EXCEPT ![b].pc = "reply",
       ![b].salt = IF browser[b].want /\ blob # NoBackup THEN salt ELSE None,
       ![b].got = IF browser[b].want THEN blob ELSE NoBackup]
  /\ UNCHANGED <<server, drawn, file, history>>

\* restoreBackup with a salt and the password of the account.
Opens(k, s, pw) == k # NoBackup /\ k.salt = s /\ k.pw = pw

\* The answer arrives, or not.  The device id is stored at once; the keys are
\* written next: the generated ones if there are any, else those of the backup.
Answer(b) ==
  /\ At(b, "reply")
  /\ LET me == browser[b]
         restored == me.gen = None /\ me.want /\ Opens(me.got, me.salt, "account")
     IN \/ /\ browser' = [browser EXCEPT
                ![b] = [Out EXCEPT !.dev = DevOf(b), !.keys = me.keys,
                  !.pc = IF me.gen # None \/ restored THEN "write" ELSE "in",
                  !.gen = me.gen,
                  !.got = IF restored THEN me.got ELSE NoBackup]]
        \/ browser' = [browser EXCEPT ![b] = [Out EXCEPT !.dev = me.dev, !.keys = me.keys]]
  /\ UNCHANGED <<server, drawn, file, history>>

\* setKeysInStorage.  If it fails, generated keys are lost and the form stays,
\* or shows the chat after a reload; without the restored ones the chat shows.
WriteKeys(b) ==
  /\ At(b, "write")
  /\ LET me == browser[b] IN
     \/ /\ browser' = [browser EXCEPT
             ![b] = [Out EXCEPT !.pc = "in", !.dev = me.dev,
                       !.keys = IF me.gen # None THEN me.gen ELSE me.got.ident]]
        /\ foreign' = IF me.gen = None /\ me.got.dev # me.dev THEN foreign \cup {b}
                      ELSE foreign \ {b}
     \/ /\ \E pc \in IF me.gen # None THEN {"out", "in"} ELSE {"in"} :
             browser' = [browser EXCEPT ![b] = [Out EXCEPT !.pc = pc, !.dev = me.dev,
                                                           !.keys = me.keys]]
        /\ UNCHANGED foreign
  /\ UNCHANGED <<server, drawn, file, givenUp>>

\* logout clears the storage; that of the keys may fail unnoticed.
Logout(b) ==
  /\ At(b, "in")
  /\ \/ /\ browser' = [browser EXCEPT ![b] = Out]
        /\ foreign' = foreign \ {b}
     \/ /\ browser' = [browser EXCEPT ![b] = [Out EXCEPT !.keys = browser[b].keys]]
        /\ foreign' = foreign \cup {b}
  /\ UNCHANGED <<server, drawn, file, givenUp>>

-----------------------------------------------------------------------------
\* Variant: without the check that there are keys.
PrepareWithoutKeys(b) ==
  /\ At(b, "in") /\ draws < MaxSalts
  /\ draws' = draws + 1
  /\ salt' = draws'
  /\ browser' = [browser EXCEPT ![b].pc = "made", ![b].salt = salt']
  /\ UNCHANGED <<row, blob, ids, file, history>>

\* handleCreateBackup, first request: prepare replaces the salt alone.
Prepare(b) ==
  /\ At(b, "in") /\ browser[b].keys # None /\ draws < MaxSalts
  /\ draws' = draws + 1
  /\ salt' = draws'
  /\ \/ browser' = [browser EXCEPT ![b].pc = "made", ![b].salt = salt'] /\ UNCHANGED givenUp
     \/ UNCHANGED browser /\ givenUp' = givenUp \cup {salt'}
  /\ UNCHANGED <<row, blob, ids, file, foreign>>

\* Second request: syncKeys stores salt and bundle; then the file is downloaded.
\* The request is lost, or its answer.
Sync(b) ==
  /\ At(b, "made")
  /\ \E pw \in {"account", "other"} :
       LET k == [salt |-> browser[b].salt, ident |-> browser[b].keys,
                 dev |-> browser[b].dev, pw |-> pw]
       IN \/ /\ StoreKeyBackup(k)
             /\ file' \in {file, [file EXCEPT ![b] = k]}
             /\ UNCHANGED givenUp
          \/ /\ givenUp' = givenUp \cup {browser[b].salt}
             /\ UNCHANGED <<salt, blob, file>>
  /\ browser' = [browser EXCEPT ![b].pc = "in", ![b].salt = None]
  /\ UNCHANGED <<row, drawn, foreign>>

\* handleRestoreBackup: a file, the salt of the server (getSalt) and the password.
RestoreFile(b) ==
  /\ At(b, "in")
  /\ \E o \in Browsers :
       /\ Opens(file[o], salt, file[o].pw)
       /\ browser' = [browser EXCEPT ![b].keys = file[o].ident]
       /\ foreign' = IF file[o].dev # browser[b].dev THEN foreign \cup {b} ELSE foreign
  /\ UNCHANGED <<server, drawn, file, givenUp>>

\* RevokeDevice (module Auth) removes the row of a device.
DeleteDevice(i) ==
  /\ row[i] # None
  /\ row' = [row EXCEPT ![i] = None]
  /\ UNCHANGED <<salt, blob, drawn, browser, file, history>>

CreateBackup(b) == Prepare(b) \/ Sync(b)

Next ==
  \/ \E b \in Browsers :
       \/ Register(b) \/ StoreRegistered(b)
       \/ Login(b) \/ LoginDevice(b) \/ ReadBackup(b) \/ Answer(b) \/ WriteKeys(b)
       \/ Logout(b) \/ CreateBackup(b) \/ RestoreFile(b)
  \/ \E i \in Ids : DeleteDevice(i)

Spec == Init /\ [][Next]_vars

-----------------------------------------------------------------------------
\* The bundle in store opens with the salt in store, unless that salt belongs to
\* a backup that is being made or was given up: prepare has replaced it alone.
\* However backups of several browsers overlap, a stored one is complete.
StoredBackupOpens ==
  blob # NoBackup /\ blob.salt # salt =>
    salt \in givenUp \cup {browser[b].salt : b \in Browsers}

\* A logged-in browser holds the secret of the identity its device is known by,
\* unless its keys came from another device, or the row of its device, deleted
\* and entered again without keys, took over those of another.
KeysMatchDevice ==
  \A b \in Browsers :
    LET me == browser[b] IN
      At(b, "in") /\ me.keys # None /\ b \notin foreign /\ row[me.dev] = me.dev =>
        me.keys = me.dev
=============================================================================
