--------------------------- MODULE KeyBackupProofs --------------------------
(***************************************************************************)
(* The stored backup of a user's keys opens with the stored salt, however  *)
(* the backups of several browsers overlap, and a browser whose keys came  *)
(* from nowhere else holds the keys of its own device: for any number of   *)
(* browsers, devices and salts.                                            *)
(*                                                                         *)
(* Neither is inductive.  For the first, the browser that StoredBackupOpens*)
(* appeals to must be one that is making a backup: the salt of a browser   *)
(* waiting for the answer of a login disappears with the answer.  For the  *)
(* second, a backup that names a device with the keys of another (made by  *)
(* a browser that had restored them) would do harm if the browser of that  *)
(* device could log in and take it for its own: by then the device id is   *)
(* gone, which is the invariant Honest below.                              *)
(***************************************************************************)
EXTENDS KeyBackup, TLAPS

\* What each step of a browser relies on the steps before to have left.
Shape(me) ==
  /\ me.pc = "out" => me.gen = None
  /\ me.pc = "registered" => me.dev = None /\ me.gen # None /\ me.salt # None
  /\ me.pc \in {"login", "backup", "reply"} => (me.dev = None <=> me.gen # None)
  /\ me.pc = "write" => me.dev # None /\ me.gen \in {None, me.dev}
  /\ me.pc = "in" => me.dev # None /\ me.gen = None
  /\ me.pc = "made" => me.dev # None /\ me.gen = None /\ me.keys # None /\ me.salt # None

Shapes == \A b \in Browsers : Shape(browser[b])

\* The salt without a bundle is that of a backup being made, or given up.
Pending ==
  blob # NoBackup /\ blob.salt # salt =>
    salt \in givenUp \cup {browser[b].salt : b \in {c \in Browsers : At(c, "made")}}

\* The numbers a browser goes by were drawn, and no other browser has them.
Names(b) == {browser[b].dev, browser[b].gen} \ {None}
Drawn == \A b \in Browsers : \A n \in Names(b) : n <= ids
Distinct == \A b, c \in Browsers : b # c => Names(b) \cap Names(c) = {}

\* A backup names a device that was drawn; if its keys are not those of this
\* device, a browser of this name has not left the chat since it took them.
Honest(k) ==
  /\ k.dev # None => k.dev <= ids
  /\ k.ident # k.dev =>
       \A b \in Browsers : k.dev \in Names(b) => b \in foreign /\ browser[b].pc \in {"in", "made"}

AllHonest ==
  /\ Honest(blob)
  /\ \A b \in Browsers : Honest(file[b]) /\ Honest(browser[b].got)

\* The keys a browser has are those of its device, unless they came from elsewhere.
OwnKeys ==
  \A b \in Browsers : b \notin foreign /\ browser[b].keys # None => browser[b].keys = browser[b].dev

IInv ==
  /\ TypeOK /\ Shapes
  /\ Pending
  /\ Drawn /\ Distinct /\ AllHonest /\ OwnKeys

\* The record of a browser, and what TypeOK says of its fields.
Browser ==
  [pc : {"out", "registered", "login", "backup", "reply", "write", "in", "made"},
   dev : Ids \cup {None}, keys : Ids \cup {None}, gen : Ids \cup {None},
   salt : Salts \cup {None}, want : BOOLEAN, got : Backup \cup {NoBackup}]

-----------------------------------------------------------------------------
\* A step of one browser that takes no name but its own and fresh ones, and does
\* not leave the chat with its name and keys of another device, keeps the names
\* apart and honest backups honest.  What it stores was honest when it was made.
LEMMA Assemble ==
  ASSUME IInv, NEW b \in Browsers,
         \A c \in Browsers \ {b} : /\ browser'[c] = browser[c]
                                   /\ c \in foreign' <=> c \in foreign,
         ids \in Nat, ids' \in Nat, ids <= ids',
         \A n \in Names(b)' : n \in Names(b) \/ (n \in Nat /\ ids < n /\ n <= ids'),
         \A n \in Names(b)' :
           n \in Names(b) /\ browser[b].pc \in {"in", "made"} /\ b \in foreign =>
             browser'[b].pc \in {"in", "made"} /\ b \in foreign',
         \A k \in Backup \cup {NoBackup} : k.dev # None => k.dev \in Nat,
         \A c \in Browsers : \A n \in Names(c) : n \in Nat,
         blob' \in Backup \cup {NoBackup}, Honest(blob'),
         \A c \in Browsers : file'[c] \in Backup \cup {NoBackup} /\ Honest(file'[c]),
         \A c \in Browsers : browser'[c].got \in Backup \cup {NoBackup},
         Honest(browser'[b].got),
         Shape(browser'[b]),
         b \notin foreign' /\ browser'[b].keys # None => browser'[b].keys = browser'[b].dev
  PROVE  Shapes' /\ Drawn' /\ Distinct' /\ AllHonest' /\ OwnKeys'
<1>1. \A c \in Browsers \ {b} : Names(c)' = Names(c)
  BY DEF Names
<1>2. Drawn'
  <2>1. ASSUME NEW c \in Browsers, NEW n \in Names(c)' PROVE n <= ids'
    <3>1. CASE n \in Names(c)
      <4>1. n \in Nat /\ n <= ids
        BY <3>1 DEF IInv, Drawn
      <4> QED BY <4>1
    <3>2. CASE n \notin Names(c)
      BY <1>1, <2>1, <3>2
    <3> QED BY <3>1, <3>2
  <2> QED BY <2>1 DEF Drawn
<1>3. \A c \in Browsers \ {b} : Names(b)' \cap Names(c)' = {}
  <2> SUFFICES ASSUME NEW c \in Browsers \ {b}, NEW n \in Names(b)', n \in Names(c) PROVE FALSE
    BY <1>1
  <2>1. n \notin Names(b)
    BY DEF IInv, Distinct
  <2>2. n \in Nat /\ n <= ids
    BY DEF IInv, Drawn
  <2> QED BY <2>1, <2>2
<1>4. Distinct'
  <2> SUFFICES ASSUME NEW c \in Browsers, NEW d \in Browsers, c # d
               PROVE  Names(c)' \cap Names(d)' = {}
    BY DEF Distinct
  <2>1. CASE c = b \/ d = b
    BY <2>1, <1>3
  <2>2. CASE c # b /\ d # b
    BY <2>2, <1>1 DEF IInv, Distinct
  <2> QED BY <2>1, <2>2
<1>5. ASSUME NEW k \in Backup \cup {NoBackup}, Honest(k)
      PROVE  /\ k.dev # None => k.dev <= ids'
             /\ k.ident # k.dev => \A c \in Browsers : k.dev \in Names(c)' =>
                  c \in foreign' /\ browser'[c].pc \in {"in", "made"}
  <2>1. k.dev # None => k.dev \in Nat /\ k.dev <= ids
    BY <1>5 DEF Honest
  <2>2. ASSUME k.ident # k.dev, NEW c \in Browsers, k.dev \in Names(c)'
        PROVE  c \in foreign' /\ browser'[c].pc \in {"in", "made"}
    <3>1. k.dev # None
      BY <2>2 DEF Names
    <3>2. k.dev \in Names(c)
      BY <2>2, <2>1, <3>1, <1>1
    <3>3. c \in foreign /\ browser[c].pc \in {"in", "made"}
      BY <1>5, <2>2, <3>2 DEF Honest
    <3> QED BY <2>2, <3>2, <3>3
  <2> QED BY <2>1, <2>2
<1>6. \A k \in Backup \cup {NoBackup} : Honest(k) =>
        /\ k.dev # None => k.dev <= ids'
        /\ k.ident # k.dev => \A c \in Browsers : k.dev \in Names(c)' =>
                  c \in foreign' /\ browser'[c].pc \in {"in", "made"}
  BY <1>5
<1>7. Honest(blob)'
  BY <1>6 DEF Honest
<1>8. ASSUME NEW c \in Browsers PROVE Honest(file[c])' /\ Honest(browser[c].got)'
  <2>1. Honest(file[c])'
    <3>1. file'[c] \in Backup \cup {NoBackup} /\ Honest(file'[c])
      OBVIOUS
    <3> QED BY <3>1, <1>6 DEF Honest
  <2>2. Honest(browser'[c].got)
    BY DEF IInv, AllHonest
  <2>3. browser'[c].got \in Backup \cup {NoBackup}
    OBVIOUS
  <2> QED BY <2>1, <2>2, <2>3, <1>6 DEF Honest
<1>9. AllHonest'
  BY <1>7, <1>8 DEF AllHonest
<1>10. Shapes'
  BY DEF IInv, Shapes, Shape
<1>11. OwnKeys'
  BY DEF IInv, OwnKeys
<1> QED BY <1>2, <1>4, <1>9, <1>10, <1>11

\* A browser that is not making a backup cannot lose the salt of one.
LEMMA PendingKept ==
  ASSUME Pending, NEW b \in Browsers, ~At(b, "made"),
         \A c \in Browsers \ {b} : browser'[c] = browser[c],
         UNCHANGED <<salt, blob, givenUp>>
  PROVE  Pending'
<1> SUFFICES ASSUME blob # NoBackup /\ blob.salt # salt, salt \notin givenUp
             PROVE  \E c \in Browsers : browser'[c].pc = "made" /\ browser'[c].salt = salt
  BY DEF Pending, At
<1>1. PICK c \in Browsers : At(c, "made") /\ browser[c].salt = salt
  BY DEF Pending
<1> QED BY <1>1 DEF At

\* The numbers in the records are numbers.
LEMMA Numbers ==
  ASSUME TypeOK
  PROVE  /\ ids \in Nat
         /\ \A k \in Backup \cup {NoBackup} : k.dev # None => k.dev \in Nat
         /\ \A c \in Browsers : \A n \in Names(c) : n \in Ids
         /\ \A c \in Browsers : browser[c] \in Browser
         /\ blob \in Backup \cup {NoBackup}
         /\ \A c \in Browsers : file[c] \in Backup \cup {NoBackup}
         /\ Ids \subseteq Nat \ {0}
         /\ \A c \in Browsers : browser[c].got \in Backup \cup {NoBackup}
<1>1. Ids \subseteq Nat \ {0} /\ ids \in Nat
  BY BoundsAssumption DEF TypeOK, Ids
<1>2. \A c \in Browsers : browser[c] \in Browser
  BY DEF TypeOK, Browser
<1>3. \A k \in Backup \cup {NoBackup} : k.dev # None => k.dev \in Nat
  <2>1. \A k \in Backup : k.dev \in Ids
    BY DEF Backup
  <2>2. NoBackup.dev = None
    BY DEF NoBackup
  <2> QED BY <1>1, <2>1, <2>2
<1>4. \A c \in Browsers : \A n \in Names(c) : n \in Ids
  BY <1>2 DEF Names, Browser
<1> QED BY <1>1, <1>2, <1>3, <1>4 DEF TypeOK, Browser

-----------------------------------------------------------------------------

\* The invariant after a step of a browser, from what the step must show.
LEMMA BrowserStep ==
  ASSUME IInv, TypeOK', Pending', NEW b \in Browsers,
         \A c \in Browsers \ {b} : /\ browser'[c] = browser[c]
                                   /\ c \in foreign' <=> c \in foreign,
         ids <= ids',
         \A n \in {browser'[b].dev, browser'[b].gen} :
           n \in {None, browser[b].dev, browser[b].gen} \/ (ids < n /\ n <= ids'),
         browser[b].pc \in {"in", "made"} /\ b \in foreign =>
           \/ browser'[b].dev = None /\ browser'[b].gen = None
           \/ browser'[b].pc \in {"in", "made"} /\ b \in foreign',
         Honest(blob'), \A c \in Browsers : Honest(file'[c]), Honest(browser'[b].got),
         Shape(browser'[b]),
         b \notin foreign' /\ browser'[b].keys # None => browser'[b].keys = browser'[b].dev
  PROVE  IInv'
<1>1. TypeOK
  BY DEF IInv
<1>2. /\ ids' \in Nat /\ blob' \in Backup \cup {NoBackup}
      /\ \A c \in Browsers : file'[c] \in Backup \cup {NoBackup}
      /\ \A c \in Browsers : browser'[c] \in Browser
  BY BoundsAssumption DEF TypeOK, Browser
<1>3. \A n \in Names(b)' : n \in Nat
  BY <1>2, BoundsAssumption DEF Names, Browser, Ids
<1>4. \A c \in Browsers : browser'[c].got \in Backup \cup {NoBackup}
  BY <1>2 DEF Browser
<1>5. \A n \in Names(b)' : n \in Names(b) \/ (n \in Nat /\ ids < n /\ n <= ids')
  BY <1>3 DEF Names
<1>6. \A n \in Names(b)' :
        n \in Names(b) /\ browser[b].pc \in {"in", "made"} /\ b \in foreign =>
          browser'[b].pc \in {"in", "made"} /\ b \in foreign'
  BY DEF Names
<1>7. Shapes' /\ Drawn' /\ Distinct' /\ AllHonest' /\ OwnKeys'
  BY <1>1, <1>2, <1>4, <1>5, <1>6, Numbers, Assemble
<1> QED BY <1>7 DEF IInv

\* A browser whose step draws nothing and leaves the files, the store and the
\* history alone.
LEMMA QuietStep ==
  ASSUME IInv, NEW b \in Browsers, NEW n \in Browser,
         browser' = [browser EXCEPT ![b] = n], browser[b].pc # "made",
         row' \in [Ids -> Ids \cup {None}],
         UNCHANGED <<salt, blob, ids, draws, file, foreign, givenUp>>,
         {n.dev, n.gen} \subseteq {None, browser[b].dev, browser[b].gen},
         browser[b].pc = "in" => n.pc \in {"in", "made"},
         Honest(n.got), Shape(n),
         n.keys = browser[b].keys, browser[b].dev # None => n.dev = browser[b].dev
  PROVE  IInv'
<1>1. /\ browser'[b] = n /\ \A c \in Browsers \ {b} : browser'[c] = browser[c]
      /\ browser' \in [Browsers -> Browser]
  BY DEF IInv, TypeOK, Browser
<1>2. TypeOK'
  BY <1>1 DEF IInv, TypeOK, Browser
<1>3. Pending'
  BY <1>1, PendingKept DEF IInv, At
<1>4. b \notin foreign' /\ n.keys # None => n.keys = n.dev
  BY DEF IInv, OwnKeys
<1>5. Honest(blob') /\ \A c \in Browsers : Honest(file'[c])
  BY DEF IInv, AllHonest
<1>6. ids <= ids'
  BY BoundsAssumption DEF IInv, TypeOK
<1>7. \A m \in {browser'[b].dev, browser'[b].gen} :
        m \in {None, browser[b].dev, browser[b].gen} \/ (ids < m /\ m <= ids')
  BY <1>1
<1>8. browser[b].pc \in {"in", "made"} /\ b \in foreign =>
        \/ browser'[b].dev = None /\ browser'[b].gen = None
        \/ browser'[b].pc \in {"in", "made"} /\ b \in foreign'
  BY <1>1
<1>9. Honest(browser'[b].got) /\ Shape(browser'[b])
      /\ (b \notin foreign' /\ browser'[b].keys # None => browser'[b].keys = browser'[b].dev)
  BY <1>1, <1>4
<1> QED BY <1>1, <1>2, <1>3, <1>5, <1>6, <1>7, <1>8, <1>9, BrowserStep

-----------------------------------------------------------------------------

\* NoBackup is honest, and what a browser got or the server stores is.
LEMMA HonestKept ==
  ASSUME IInv
  PROVE  /\ Honest(NoBackup) /\ Honest(blob)
         /\ \A b \in Browsers : Honest(file[b]) /\ Honest(browser[b].got)
BY DEF IInv, AllHonest, Honest, NoBackup

\* auth.Login: the row of the device changes, the browser goes on or gives up.
LEMMA LoginDeviceStep ==
  ASSUME IInv, NEW b \in Browsers, LoginDevice(b)
  PROVE  IInv'
<1> DEFINE me == browser[b]
           d == DevOf(b)
<1>1. /\ me \in Browser /\ me.pc = "login" /\ Shape(me) /\ d \in Ids
      /\ row \in [Ids -> Ids \cup {None}]
      /\ UNCHANGED <<salt, blob, ids, draws, file, foreign, givenUp>>
  <2>1. me \in Browser /\ me.pc = "login" /\ Shape(me)
    BY Numbers DEF LoginDevice, At, IInv, Shapes
  <2>2. d \in Ids
    BY <2>1 DEF Shape, DevOf, Browser
  <2> QED BY <2>1, <2>2 DEF LoginDevice, IInv, TypeOK, drawn, history
<1>2. ASSUME NEW i \in Ids, row' = [row EXCEPT ![d] = i],
             browser' = [browser EXCEPT ![b].pc = "backup"]
      PROVE  IInv'
  <2> DEFINE n == [me EXCEPT !.pc = "backup"]
  <2>1. /\ n \in Browser /\ n.pc = "backup" /\ n.dev = me.dev /\ n.gen = me.gen
        /\ n.keys = me.keys /\ n.got = me.got /\ n.salt = me.salt
    BY <1>1 DEF Browser
  <2>2. browser' = [browser EXCEPT ![b] = n] /\ row' \in [Ids -> Ids \cup {None}]
    BY <1>1, <1>2
  <2>3. Shape(n)
    BY <1>1, <2>1 DEF Shape
  <2>4. Honest(n.got)
    BY <2>1, HonestKept
  <2> HIDE DEF n
  <2> QED BY <1>1, <2>1, <2>2, <2>3, <2>4, QuietStep
<1>3. ASSUME Abort(b), row' = row PROVE IInv'
  <2> DEFINE n == [me EXCEPT !.pc = "out", !.gen = None, !.want = FALSE, !.got = NoBackup]
  <2>1. /\ n \in Browser /\ n.pc = "out" /\ n.dev = me.dev /\ n.gen = None
        /\ n.keys = me.keys /\ n.got = NoBackup
    BY <1>1 DEF Browser
  <2>2. browser' = [browser EXCEPT ![b] = n]
    BY <1>3 DEF Abort
  <2>3. Shape(n) /\ Honest(n.got)
    BY <2>1, HonestKept DEF Shape
  <2> HIDE DEF n
  <2> QED BY <1>1, <1>3, <2>1, <2>2, <2>3, QuietStep
<1>4. \A o \in Ids : row[o] # None => row[o] \in Ids
  BY <1>1
<1>5. me.gen # None => me.gen \in Ids
  BY <1>1 DEF Browser
<1> QED BY <1>1, <1>2, <1>3, <1>4, <1>5 DEF LoginDevice

\* GetKeyBackup: the browser takes a copy of what is stored.
LEMMA ReadBackupStep ==
  ASSUME IInv, NEW b \in Browsers, ReadBackup(b)
  PROVE  IInv'
<1> DEFINE me == browser[b]
           s == IF me.want /\ blob # NoBackup THEN salt ELSE None
           k == IF me.want THEN blob ELSE NoBackup
           n == [me EXCEPT !.pc = "reply", !.salt = s, !.got = k]
<1>1. /\ me \in Browser /\ me.pc = "backup" /\ Shape(me)
      /\ row' \in [Ids -> Ids \cup {None}]
      /\ UNCHANGED <<salt, blob, ids, draws, file, foreign, givenUp>>
  BY Numbers DEF ReadBackup, At, IInv, Shapes, TypeOK, server, drawn, history
<1>2. s \in Salts \cup {None} /\ k \in Backup \cup {NoBackup} /\ Honest(k)
  BY HonestKept DEF IInv, TypeOK
<1>3. browser' = [browser EXCEPT ![b] = n]
  BY DEF ReadBackup
<1> HIDE DEF s, k
<1>4. /\ n \in Browser /\ n.pc = "reply" /\ n.dev = me.dev /\ n.gen = me.gen
      /\ n.keys = me.keys /\ n.got = k
  BY <1>1, <1>2 DEF Browser
<1>5. Shape(n)
  BY <1>1, <1>4 DEF Shape
<1> HIDE DEF n
<1> QED BY <1>1, <1>2, <1>3, <1>4, <1>5, QuietStep

\* The answer of a login or a registration, or its loss.
LEMMA AnswerStep ==
  ASSUME IInv, NEW b \in Browsers, Answer(b)
  PROVE  IInv'
<1> DEFINE me == browser[b]
           restored == me.gen = None /\ me.want /\ Opens(me.got, me.salt, "account")
           p == IF me.gen # None \/ restored THEN "write" ELSE "in"
           k == IF restored THEN me.got ELSE NoBackup
           n == [Out EXCEPT !.dev = DevOf(b), !.keys = me.keys, !.pc = p, !.gen = me.gen, !.got = k]
           m == [Out EXCEPT !.dev = me.dev, !.keys = me.keys]
<1>1. /\ me \in Browser /\ me.pc = "reply" /\ Shape(me)
      /\ row' \in [Ids -> Ids \cup {None}]
      /\ UNCHANGED <<salt, blob, ids, draws, file, foreign, givenUp>>
  BY Numbers DEF Answer, At, IInv, Shapes, TypeOK, server, drawn, history
<1>2. /\ me.gen # None => p = "write" /\ me.dev = None /\ DevOf(b) = me.gen
      /\ me.gen = None => p \in {"write", "in"} /\ me.dev # None /\ DevOf(b) = me.dev
      /\ DevOf(b) \in Ids
  BY <1>1 DEF Shape, DevOf, Browser
<1>3. k \in Backup \cup {NoBackup} /\ Honest(k)
  BY <1>1, HonestKept DEF Browser
<1>4. browser' = [browser EXCEPT ![b] = n] \/ browser' = [browser EXCEPT ![b] = m]
  BY DEF Answer
<1> HIDE DEF p, k
<1>5. /\ n \in Browser /\ n.pc = p /\ n.dev = DevOf(b) /\ n.gen = me.gen
      /\ n.keys = me.keys /\ n.got = k
  BY <1>1, <1>2, <1>3 DEF Browser, Out
<1>6. /\ m \in Browser /\ m.pc = "out" /\ m.dev = me.dev /\ m.gen = None
      /\ m.keys = me.keys /\ m.got = NoBackup
  BY <1>1 DEF Browser, Out
<1>7. Shape(n)
  BY <1>2, <1>5, NoneAssumption DEF Shape
<1>8. Shape(m) /\ Honest(m.got)
  BY <1>6, HonestKept DEF Shape
<1> HIDE DEF n, m
<1>9. CASE browser' = [browser EXCEPT ![b] = n]
  BY <1>1, <1>2, <1>3, <1>5, <1>7, <1>9, QuietStep
<1>10. CASE browser' = [browser EXCEPT ![b] = m]
  BY <1>1, <1>6, <1>8, <1>10, QuietStep
<1> QED BY <1>4, <1>9, <1>10

-----------------------------------------------------------------------------

\* A step that gives a browser a record, for the steps that are not quiet.
LEMMA Replaced ==
  ASSUME IInv, NEW b \in Browsers, NEW n \in Browser, browser' = [browser EXCEPT ![b] = n]
  PROVE  /\ browser'[b] = n /\ \A c \in Browsers \ {b} : browser'[c] = browser[c]
         /\ browser' \in [Browsers -> Browser]
BY DEF IInv, TypeOK, Browser

\* register: the first numbers and the first salt are drawn.
LEMMA RegisterStep ==
  ASSUME IInv, NEW b \in Browsers, Register(b)
  PROVE  IInv'
<1> DEFINE me == browser[b]
           n == [me EXCEPT !.pc = "registered", !.gen = 1, !.salt = 1]
<1>1. /\ me \in Browser /\ me.pc = "out" /\ ids = 0 /\ ids' = 1 /\ draws' = 1
      /\ row' = [row EXCEPT ![1] = 1] /\ UNCHANGED <<salt, blob, file, foreign, givenUp>>
      /\ browser' = [browser EXCEPT ![b] = n]
  BY Numbers DEF Register, At, IInv, history
<1>2. 1 \in Ids /\ 1 \in Salts
  BY BoundsAssumption DEF Ids, Salts
<1>3. me.dev = None
  <2>1. ASSUME me.dev # None PROVE FALSE
    <3>1. me.dev \in Names(b)
      BY <2>1 DEF Names
    <3>2. me.dev \in Nat \ {0}
      BY <3>1, Numbers DEF IInv
    <3>3. me.dev <= ids
      BY <3>1 DEF IInv, Drawn
    <3> QED BY <1>1, <3>2, <3>3
  <2> QED BY <2>1
<1>4. /\ n \in Browser /\ n.pc = "registered" /\ n.dev = None /\ n.gen = 1
      /\ n.keys = me.keys /\ n.got = me.got /\ n.salt = 1
  BY <1>1, <1>2, <1>3 DEF Browser
<1> HIDE DEF n
<1>5. /\ browser'[b] = n /\ \A c \in Browsers \ {b} : browser'[c] = browser[c]
      /\ browser' \in [Browsers -> Browser]
  BY <1>1, <1>4, Replaced
<1>6. TypeOK'
  <2>1. ids' \in 0 .. MaxIds /\ draws' \in 0 .. MaxSalts
    BY <1>1, BoundsAssumption
  <2>2. row' \in [Ids -> Ids \cup {None}]
    BY <1>1, <1>2 DEF IInv, TypeOK
  <2> QED BY <1>1, <1>5, <2>1, <2>2 DEF IInv, TypeOK, Browser
<1>7. Pending'
  BY <1>1, <1>5, PendingKept DEF IInv, At
<1>8. Honest(blob') /\ (\A c \in Browsers : Honest(file'[c])) /\ Honest(browser'[b].got)
  BY <1>1, <1>4, <1>5, HonestKept
<1>9. Shape(browser'[b])
  BY <1>4, <1>5, NoneAssumption DEF Shape
<1>10. b \notin foreign' /\ browser'[b].keys # None => browser'[b].keys = browser'[b].dev
  BY <1>1, <1>3, <1>4, <1>5 DEF IInv, OwnKeys
<1>11. \A m \in {browser'[b].dev, browser'[b].gen} :
         m \in {None, browser[b].dev, browser[b].gen} \/ (ids < m /\ m <= ids')
  BY <1>1, <1>4, <1>5
<1>12. ids <= ids'
  BY <1>1
<1> QED BY <1>1, <1>5, <1>6, <1>7, <1>8, <1>9, <1>10, <1>11, <1>12, BrowserStep

\* login: a browser without a device id draws one.
LEMMA LoginStep ==
  ASSUME IInv, NEW b \in Browsers, Login(b)
  PROVE  IInv'
<1> DEFINE me == browser[b]
           g == IF me.dev = None THEN ids + 1 ELSE None
           n == [me EXCEPT !.pc = "login", !.want = (me.keys = None), !.gen = g]
<1>1. /\ me \in Browser /\ me.pc = "out" /\ Shape(me) /\ browser' = [browser EXCEPT ![b] = n]
      /\ UNCHANGED <<row, salt, blob, draws, file, foreign, givenUp>>
  BY Numbers DEF Login, At, IInv, Shapes, server, history
<1>2. \/ me.dev # None /\ ids' = ids /\ g = None
      \/ me.dev = None /\ ids' = ids + 1 /\ g = ids' /\ g \in Ids
  BY BoundsAssumption DEF Login, IInv, TypeOK, Ids
<1>3. ids \in Nat /\ ids' \in 0 .. MaxIds /\ ids <= ids'
  BY BoundsAssumption DEF Login, IInv, TypeOK, Ids
<1> HIDE DEF g
<1>4. /\ n \in Browser /\ n.pc = "login" /\ n.dev = me.dev /\ n.gen = g
      /\ n.keys = me.keys /\ n.got = me.got
  BY <1>1, <1>2 DEF Browser
<1> HIDE DEF n
<1>5. /\ browser'[b] = n /\ \A c \in Browsers \ {b} : browser'[c] = browser[c]
      /\ browser' \in [Browsers -> Browser]
  BY <1>1, <1>4, Replaced
<1>6. TypeOK'
  BY <1>1, <1>3, <1>5 DEF IInv, TypeOK, Browser
<1>7. Pending'
  BY <1>1, <1>5, PendingKept DEF IInv, At
<1>8. Honest(blob') /\ (\A c \in Browsers : Honest(file'[c])) /\ Honest(browser'[b].got)
  BY <1>1, <1>4, <1>5, HonestKept
<1>9. Shape(browser'[b])
  <2>1. \A i \in Ids : i # None
    BY NoneAssumption, Numbers DEF IInv
  <2> QED BY <1>2, <1>4, <1>5, <2>1 DEF Shape
<1>10. b \notin foreign' /\ browser'[b].keys # None => browser'[b].keys = browser'[b].dev
  BY <1>1, <1>4, <1>5 DEF IInv, OwnKeys
<1>11. \A m \in {browser'[b].dev, browser'[b].gen} :
         m \in {None, browser[b].dev, browser[b].gen} \/ (ids < m /\ m <= ids')
  BY <1>2, <1>3, <1>4, <1>5
<1> QED BY <1>1, <1>3, <1>5, <1>6, <1>7, <1>8, <1>9, <1>10, <1>11, BrowserStep

\* The steps that leave store, files and numbers alone but move the browser in or
\* out of foreign: it keeps no name but its own, and its keys are its own unless
\* it is foreign now.
LEMMA KeysStep ==
  ASSUME IInv, NEW b \in Browsers, NEW n \in Browser,
         browser' = [browser EXCEPT ![b] = n], browser[b].pc # "made",
         UNCHANGED <<row, salt, blob, ids, draws, file, givenUp>>,
         foreign' \subseteq Browsers, \A c \in Browsers \ {b} : c \in foreign' <=> c \in foreign,
         {n.dev, n.gen} \subseteq {None, browser[b].dev, browser[b].gen},
         browser[b].pc = "in" /\ b \in foreign =>
           (n.dev = None /\ n.gen = None) \/ (n.pc = "in" /\ b \in foreign'),
         Honest(n.got), Shape(n),
         b \notin foreign' /\ n.keys # None => n.keys = n.dev
  PROVE  IInv'
<1>1. /\ browser'[b] = n /\ \A c \in Browsers \ {b} : browser'[c] = browser[c]
      /\ browser' \in [Browsers -> Browser]
  BY Replaced
<1>2. TypeOK'
  BY <1>1 DEF IInv, TypeOK, Browser
<1>3. Pending'
  BY <1>1, PendingKept DEF IInv, At
<1>4. Honest(blob') /\ (\A c \in Browsers : Honest(file'[c])) /\ Honest(browser'[b].got)
  BY <1>1, HonestKept
<1>5. ids <= ids'
  BY BoundsAssumption DEF IInv, TypeOK
<1>6. \A m \in {browser'[b].dev, browser'[b].gen} :
        m \in {None, browser[b].dev, browser[b].gen} \/ (ids < m /\ m <= ids')
  BY <1>1
<1>7. browser[b].pc \in {"in", "made"} /\ b \in foreign =>
        \/ browser'[b].dev = None /\ browser'[b].gen = None
        \/ browser'[b].pc \in {"in", "made"} /\ b \in foreign'
  BY <1>1
<1> QED BY <1>1, <1>2, <1>3, <1>4, <1>5, <1>6, <1>7, BrowserStep

\* setKeysInStorage: generated keys are those of the device.  A backup that names
\* this device has its keys too: the browser is not in the chat.
LEMMA WriteKeysStep ==
  ASSUME IInv, NEW b \in Browsers, WriteKeys(b)
  PROVE  IInv'
<1> DEFINE me == browser[b]
           key == IF me.gen # None THEN me.gen ELSE me.got.ident
           n == [Out EXCEPT !.pc = "in", !.dev = me.dev, !.keys = key]
<1>1. /\ me \in Browser /\ me.pc = "write" /\ Shape(me)
      /\ UNCHANGED <<row, salt, blob, ids, draws, file, givenUp>>
  BY Numbers DEF WriteKeys, At, IInv, Shapes, server, drawn
<1>2. me.dev # None /\ me.gen \in {None, me.dev} /\ me.dev \in Names(b)
  BY <1>1 DEF Shape, Names
<1>3. CASE /\ browser' = [browser EXCEPT ![b] = n]
           /\ foreign' = IF me.gen = None /\ me.got.dev # me.dev THEN foreign \cup {b}
                         ELSE foreign \ {b}
  <2>1. me.gen \in Ids \cup {None} /\ me.got.ident \in Ids \cup {None}
    BY <1>1 DEF Browser, Backup, NoBackup
  <2>2. key \in Ids \cup {None}
    BY <2>1
  <2>3. ASSUME b \notin foreign', key # None PROVE key = me.dev
    <3>1. CASE me.gen # None
      BY <1>2, <3>1
    <3>2. CASE me.gen = None
      <4>1. me.got.dev = me.dev
        BY <1>3, <2>3, <3>2
      <4>2. me.got.ident = me.got.dev
        BY <4>1, <1>1, <1>2, HonestKept DEF Honest
      <4> QED BY <3>2, <4>1, <4>2
    <3> QED BY <3>1, <3>2
  <2> HIDE DEF key
  <2>4. /\ n \in Browser /\ n.pc = "in" /\ n.dev = me.dev /\ n.gen = None
        /\ n.keys = key /\ n.got = NoBackup
    BY <1>1, <2>2 DEF Browser, Out
  <2>5. Shape(n) /\ Honest(n.got)
    BY <1>2, <2>4, HonestKept DEF Shape
  <2>6. foreign' \subseteq Browsers /\ \A c \in Browsers \ {b} : c \in foreign' <=> c \in foreign
    BY <1>3 DEF IInv, TypeOK
  <2> HIDE DEF n
  <2> QED BY <1>1, <1>3, <2>3, <2>4, <2>5, <2>6, KeysStep
<1>4. ASSUME NEW pc \in {"out", "in"}, foreign' = foreign,
             browser' = [browser EXCEPT ![b] = [Out EXCEPT !.pc = pc, !.dev = me.dev,
                                                           !.keys = me.keys]]
      PROVE  IInv'
  <2> DEFINE m == [Out EXCEPT !.pc = pc, !.dev = me.dev, !.keys = me.keys]
  <2>1. /\ m \in Browser /\ m.pc = pc /\ m.dev = me.dev /\ m.gen = None
        /\ m.keys = me.keys /\ m.got = NoBackup
    BY <1>1 DEF Browser, Out
  <2>2. Shape(m) /\ Honest(m.got)
    BY <1>2, <2>1, HonestKept DEF Shape
  <2>3. browser' = [browser EXCEPT ![b] = m]
    BY <1>4
  <2>4. b \notin foreign' /\ m.keys # None => m.keys = m.dev
    BY <1>4, <2>1 DEF IInv, OwnKeys
  <2>5. foreign' \subseteq Browsers
    BY <1>4 DEF IInv, TypeOK
  <2> HIDE DEF m
  <2> QED BY <1>1, <1>4, <2>1, <2>2, <2>3, <2>4, <2>5, KeysStep
<1> QED BY <1>3, <1>4 DEF WriteKeys

\* logout: keys that stay behind belong to a device the browser has no id of.
LEMMA LogoutStep ==
  ASSUME IInv, NEW b \in Browsers, Logout(b)
  PROVE  IInv'
<1> DEFINE me == browser[b]
           m == [Out EXCEPT !.keys = me.keys]
<1>1. /\ me \in Browser /\ me.pc = "in"
      /\ UNCHANGED <<row, salt, blob, ids, draws, file, givenUp>>
  BY Numbers DEF Logout, At, IInv, server, drawn
<1>2. \/ browser' = [browser EXCEPT ![b] = Out] /\ foreign' = foreign \ {b}
      \/ browser' = [browser EXCEPT ![b] = m] /\ foreign' = foreign \cup {b}
  BY DEF Logout
<1>3. /\ Out \in Browser /\ Out.pc = "out" /\ Out.dev = None /\ Out.gen = None
      /\ Out.keys = None /\ Out.got = NoBackup
  BY DEF Out, Browser
<1>4. /\ m \in Browser /\ m.pc = "out" /\ m.dev = None /\ m.gen = None
      /\ m.keys = me.keys /\ m.got = NoBackup
  BY <1>1 DEF Out, Browser
<1>5. Shape(Out) /\ Shape(m) /\ Honest(NoBackup)
  BY <1>3, <1>4, HonestKept DEF Shape
<1> HIDE DEF m
<1>6. CASE browser' = [browser EXCEPT ![b] = Out] /\ foreign' = foreign \ {b}
  <2>1. PICK n \in Browser : n = Out
    BY <1>3
  <2>2. browser' = [browser EXCEPT ![b] = n] /\ n.dev = None /\ n.gen = None
        /\ n.keys = None /\ n.got = NoBackup /\ Shape(n)
    BY <1>3, <1>5, <1>6, <2>1
  <2>3. foreign' \subseteq Browsers /\ \A c \in Browsers \ {b} : c \in foreign' <=> c \in foreign
    BY <1>6 DEF IInv, TypeOK
  <2>4. {n.dev, n.gen} \subseteq {None, browser[b].dev, browser[b].gen}
    BY <2>2
  <2>5. Honest(n.got)
    BY <1>5, <2>2
  <2> QED BY <1>1, <2>1, <2>2, <2>3, <2>4, <2>5, KeysStep
<1>7. CASE browser' = [browser EXCEPT ![b] = m] /\ foreign' = foreign \cup {b}
  <2>1. foreign' \subseteq Browsers /\ \A c \in Browsers \ {b} : c \in foreign' <=> c \in foreign
    BY <1>7 DEF IInv, TypeOK
  <2> QED BY <1>1, <1>4, <1>5, <1>7, <2>1, KeysStep
<1> QED BY <1>2, <1>6, <1>7

\* handleRestoreBackup: a file of this device has its keys, unless the browser has
\* foreign ones already.
LEMMA RestoreFileStep ==
  ASSUME IInv, NEW b \in Browsers, RestoreFile(b)
  PROVE  IInv'
<1> DEFINE me == browser[b]
<1>1. /\ me \in Browser /\ me.pc = "in" /\ Shape(me)
      /\ UNCHANGED <<row, salt, blob, ids, draws, file, givenUp>>
  BY Numbers DEF RestoreFile, At, IInv, Shapes, server, drawn
<1>2. PICK o \in Browsers :
        /\ browser' = [browser EXCEPT ![b].keys = file[o].ident]
        /\ foreign' = IF file[o].dev # me.dev THEN foreign \cup {b} ELSE foreign
  BY DEF RestoreFile
<1> DEFINE n == [me EXCEPT !.keys = file[o].ident]
<1>3. file[o].ident \in Ids \cup {None}
  <2>1. file[o] \in Backup \cup {NoBackup}
    BY Numbers DEF IInv
  <2> QED BY <2>1 DEF Backup, NoBackup
<1>4. /\ n \in Browser /\ n.pc = "in" /\ n.dev = me.dev /\ n.gen = me.gen
      /\ n.keys = file[o].ident /\ n.got = me.got
  BY <1>1, <1>3 DEF Browser
<1>5. browser' = [browser EXCEPT ![b] = n]
  BY <1>2
<1>6. Shape(n) /\ Honest(n.got)
  BY <1>1, <1>4, HonestKept DEF Shape
<1>7. ASSUME b \notin foreign' PROVE file[o].ident = me.dev
  <2>1. file[o].dev = me.dev /\ b \notin foreign
    BY <1>2, <1>7
  <2>2. me.dev \in Names(b)
    BY <1>1 DEF Shape, Names
  <2>3. file[o].ident = file[o].dev
    BY <2>1, <2>2, HonestKept DEF Honest
  <2> QED BY <2>1, <2>3
<1>8. /\ foreign' \subseteq Browsers /\ (b \in foreign => b \in foreign')
      /\ \A c \in Browsers \ {b} : c \in foreign' <=> c \in foreign
  BY <1>2 DEF IInv, TypeOK
<1> HIDE DEF n
<1> QED BY <1>1, <1>4, <1>5, <1>6, <1>7, <1>8, KeysStep

-----------------------------------------------------------------------------
\* The steps that may change the store: the browser keeps its names and keys, and
\* is in the chat after if it was before.
LEMMA StoreStep ==
  ASSUME IInv, NEW b \in Browsers, NEW n \in Browser,
         browser' = [browser EXCEPT ![b] = n],
         UNCHANGED <<row, ids, foreign>>, draws' \in 0 .. MaxSalts,
         salt' \in Salts \cup {None}, givenUp' \subseteq Salts,
         n.dev = browser[b].dev, n.gen = browser[b].gen, n.keys = browser[b].keys,
         n.got = browser[b].got, Shape(n),
         browser[b].pc \in {"in", "made"} => n.pc \in {"in", "made"},
         blob' \in Backup \cup {NoBackup}, Honest(blob'),
         file' \in [Browsers -> Backup \cup {NoBackup}], \A c \in Browsers : Honest(file'[c]),
         Pending'
  PROVE  IInv'
<1>1. /\ browser'[b] = n /\ \A c \in Browsers \ {b} : browser'[c] = browser[c]
      /\ browser' \in [Browsers -> Browser]
  BY Replaced
<1>2. TypeOK'
  BY <1>1 DEF IInv, TypeOK, Browser
<1>3. Honest(browser'[b].got) /\ Shape(browser'[b])
  BY <1>1, HonestKept
<1>4. ids <= ids'
  BY BoundsAssumption DEF IInv, TypeOK
<1>5. \A m \in {browser'[b].dev, browser'[b].gen} :
        m \in {None, browser[b].dev, browser[b].gen} \/ (ids < m /\ m <= ids')
  BY <1>1
<1>6. browser[b].pc \in {"in", "made"} /\ b \in foreign =>
        \/ browser'[b].dev = None /\ browser'[b].gen = None
        \/ browser'[b].pc \in {"in", "made"} /\ b \in foreign'
  BY <1>1
<1>7. b \notin foreign' /\ browser'[b].keys # None => browser'[b].keys = browser'[b].dev
  BY <1>1 DEF IInv, OwnKeys
<1> QED BY <1>1, <1>2, <1>3, <1>4, <1>5, <1>6, <1>7, BrowserStep

\* Register stores the backup of the keys it was sent with, or fails to.
LEMMA StoreRegisteredStep ==
  ASSUME IInv, NEW b \in Browsers, StoreRegistered(b)
  PROVE  IInv'
<1> DEFINE me == browser[b]
           k == [salt |-> me.salt, ident |-> me.gen, dev |-> me.gen, pw |-> "account"]
           n == [me EXCEPT !.pc = "reply", !.salt = None]
<1>1. /\ me \in Browser /\ me.pc = "registered" /\ Shape(me)
      /\ UNCHANGED <<row, ids, draws, file, foreign, givenUp>>
      /\ browser' = [browser EXCEPT ![b] = n]
  BY Numbers DEF StoreRegistered, At, IInv, Shapes, drawn, history
<1>2. /\ n \in Browser /\ n.pc = "reply" /\ n.dev = me.dev /\ n.gen = me.gen
      /\ n.keys = me.keys /\ n.got = me.got
  BY <1>1 DEF Browser
<1>3. Shape(n)
  BY <1>1, <1>2 DEF Shape
<1>4. k \in Backup /\ k.salt = me.salt /\ k.ident = me.gen /\ k.dev = me.gen
  BY <1>1 DEF Browser, Backup, Shape
<1>5. Honest(k)
  <2>1. me.gen \in Names(b)
    BY <1>1 DEF Shape, Names
  <2> QED BY <1>4, <2>1 DEF Honest, IInv, Drawn
<1> HIDE DEF k, n
<1>6. /\ browser'[b] = n /\ \A c \in Browsers \ {b} : browser'[c] = browser[c]
  BY <1>1, <1>2, Replaced
<1>7. CASE UNCHANGED <<salt, blob>>
  <2>1. Honest(n.got)
    BY <1>2, HonestKept
  <2>2. row' \in [Ids -> Ids \cup {None}]
    BY <1>1 DEF IInv, TypeOK
  <2> QED BY <1>1, <1>2, <1>3, <1>7, <2>1, <2>2, QuietStep
<1>8. CASE salt' = k.salt /\ blob' = k
  <2>1. Pending'
    BY <1>8 DEF Pending
  <2>2. salt' \in Salts
    BY <1>4, <1>8 DEF Backup
  <2>3. /\ draws' \in 0 .. MaxSalts /\ givenUp' \subseteq Salts
        /\ file' \in [Browsers -> Backup \cup {NoBackup}] /\ \A c \in Browsers : Honest(file'[c])
    BY <1>1, HonestKept DEF IInv, TypeOK
  <2>4. blob' \in Backup \cup {NoBackup} /\ Honest(blob')
    BY <1>4, <1>5, <1>8
  <2> QED BY <1>1, <1>2, <1>3, <2>1, <2>2, <2>3, <2>4, StoreStep
<1> QED BY <1>7, <1>8 DEF StoreRegistered, StoreKeyBackup, k

\* prepare: the salt that replaces the stored one is that of the browser, or given up.
LEMMA PrepareStep ==
  ASSUME IInv, NEW b \in Browsers, Prepare(b)
  PROVE  IInv'
<1> DEFINE me == browser[b]
           s == draws + 1
           n == [me EXCEPT !.pc = "made", !.salt = s]
<1>1. /\ me \in Browser /\ me.pc = "in" /\ me.keys # None /\ Shape(me)
      /\ UNCHANGED <<row, blob, ids, file, foreign>>
      /\ salt' = s /\ draws' = s
  BY Numbers DEF Prepare, At, IInv, Shapes
<1>2. s \in Salts /\ draws' \in 0 .. MaxSalts
  BY <1>1, BoundsAssumption DEF Prepare, IInv, TypeOK, Salts
<1>3. \/ browser' = [browser EXCEPT ![b] = n] /\ givenUp' = givenUp
      \/ browser' = browser /\ givenUp' = givenUp \cup {s}
  BY <1>1 DEF Prepare
<1> HIDE DEF s
<1>4. /\ n \in Browser /\ n.pc = "made" /\ n.dev = me.dev /\ n.gen = me.gen
      /\ n.keys = me.keys /\ n.got = me.got /\ n.salt = s
  BY <1>1, <1>2 DEF Browser
<1>5. Shape(n)
  <2>1. s # None
    BY <1>2, NoneAssumption, BoundsAssumption DEF Salts
  <2> QED BY <1>1, <1>4, <2>1 DEF Shape
<1> HIDE DEF n
<1>6. /\ givenUp' \subseteq Salts /\ blob' \in Backup \cup {NoBackup} /\ Honest(blob')
      /\ file' \in [Browsers -> Backup \cup {NoBackup}] /\ \A c \in Browsers : Honest(file'[c])
  BY <1>1, <1>2, <1>3, HonestKept DEF IInv, TypeOK
<1>7. CASE browser' = [browser EXCEPT ![b] = n] /\ givenUp' = givenUp
  <2>1. browser'[b] = n
    BY <1>4, <1>7, Replaced
  <2>2. Pending'
    BY <1>1, <1>4, <2>1 DEF Pending, At
  <2> QED BY <1>1, <1>2, <1>4, <1>5, <1>6, <1>7, <2>2, StoreStep
<1>8. CASE browser' = browser /\ givenUp' = givenUp \cup {s}
  <2>1. browser' = [browser EXCEPT ![b] = me]
    BY <1>8 DEF IInv, TypeOK
  <2>2. Pending'
    BY <1>1, <1>8 DEF Pending
  <2> HIDE DEF me
  <2> QED BY <1>1, <1>2, <1>6, <2>1, <2>2, StoreStep DEF me
<1> QED BY <1>3, <1>7, <1>8

\* syncKeys: salt and bundle together, or the salt is given up.
LEMMA SyncStep ==
  ASSUME IInv, NEW b \in Browsers, Sync(b)
  PROVE  IInv'
<1> DEFINE me == browser[b]
           n == [me EXCEPT !.pc = "in", !.salt = None]
<1>1. /\ me \in Browser /\ me.pc = "made" /\ Shape(me)
      /\ UNCHANGED <<row, ids, draws, foreign>>
      /\ browser' = [browser EXCEPT ![b] = n]
  BY Numbers DEF Sync, At, IInv, Shapes, drawn
<1>2. PICK pw \in {"account", "other"} :
        LET k == [salt |-> me.salt, ident |-> me.keys, dev |-> me.dev, pw |-> pw]
        IN \/ /\ salt' = k.salt /\ blob' = k
              /\ file' \in {file, [file EXCEPT ![b] = k]}
              /\ UNCHANGED givenUp
           \/ /\ givenUp' = givenUp \cup {me.salt}
              /\ UNCHANGED <<salt, blob, file>>
  BY DEF Sync, StoreKeyBackup
<1> DEFINE k == [salt |-> me.salt, ident |-> me.keys, dev |-> me.dev, pw |-> pw]
<1>3. /\ n \in Browser /\ n.pc = "in" /\ n.dev = me.dev /\ n.gen = me.gen
      /\ n.keys = me.keys /\ n.got = me.got
  BY <1>1 DEF Browser
<1>4. Shape(n)
  BY <1>1, <1>3 DEF Shape
<1>5. /\ k \in Backup /\ k.salt = me.salt /\ k.ident = me.keys /\ k.dev = me.dev
      /\ me.salt \in Salts
  BY <1>1 DEF Browser, Backup, Shape
<1>6. Honest(k)
  <2>1. me.dev \in Names(b) /\ me.keys # None
    BY <1>1 DEF Shape, Names
  <2>2. me.dev <= ids
    BY <2>1 DEF IInv, Drawn
  <2>3. ASSUME me.keys # me.dev, NEW c \in Browsers, me.dev \in Names(c)
        PROVE  c \in foreign /\ browser[c].pc \in {"in", "made"}
    <3>1. c = b
      BY <2>1, <2>3 DEF IInv, Distinct
    <3>2. b \in foreign
      BY <2>1, <2>3 DEF IInv, OwnKeys
    <3> QED BY <3>1, <3>2, <1>1
  <2> HIDE DEF k
  <2> QED BY <1>5, <2>2, <2>3 DEF Honest
<1>7. \/ /\ salt' = k.salt /\ blob' = k
         /\ file' \in {file, [file EXCEPT ![b] = k]}
         /\ UNCHANGED givenUp
      \/ /\ givenUp' = givenUp \cup {me.salt}
         /\ UNCHANGED <<salt, blob, file>>
  BY <1>2
<1> HIDE DEF k, n
<1>8. /\ browser'[b] = n /\ \A c \in Browsers \ {b} : browser'[c] = browser[c]
  BY <1>1, <1>3, Replaced
<1>9. draws' \in 0 .. MaxSalts
  BY <1>1 DEF IInv, TypeOK
<1>10. CASE /\ salt' = k.salt /\ blob' = k
            /\ file' \in {file, [file EXCEPT ![b] = k]}
            /\ UNCHANGED givenUp
  <2>1. Pending'
    BY <1>10 DEF Pending
  <2>2. salt' \in Salts /\ blob' \in Backup \cup {NoBackup} /\ Honest(blob')
    BY <1>5, <1>6, <1>10
  <2>3. file \in [Browsers -> Backup \cup {NoBackup}] /\ givenUp' \subseteq Salts
    BY <1>10 DEF IInv, TypeOK
  <2>4. file' \in [Browsers -> Backup \cup {NoBackup}]
    BY <1>5, <1>10, <2>3
  <2>5. ASSUME NEW c \in Browsers PROVE Honest(file'[c])
    <3>1. file'[c] = file[c] \/ file'[c] = k
      BY <1>10, <2>3
    <3> QED BY <3>1, <1>6, HonestKept
  <2> QED BY <1>1, <1>3, <1>4, <1>9, <2>1, <2>2, <2>3, <2>4, <2>5, StoreStep
<1>11. CASE givenUp' = givenUp \cup {me.salt} /\ UNCHANGED <<salt, blob, file>>
  <2>1. Pending'
    <3> SUFFICES ASSUME blob # NoBackup /\ blob.salt # salt, salt \notin givenUp, salt # me.salt
                 PROVE  \E c \in Browsers : browser'[c].pc = "made" /\ browser'[c].salt = salt
      BY <1>11 DEF Pending, At
    <3>1. PICK c \in Browsers : browser[c].pc = "made" /\ browser[c].salt = salt
      BY DEF IInv, Pending, At
    <3> QED BY <3>1, <1>8
  <2>2. /\ salt' \in Salts \cup {None} /\ givenUp' \subseteq Salts
        /\ blob' \in Backup \cup {NoBackup} /\ Honest(blob')
        /\ file' \in [Browsers -> Backup \cup {NoBackup}] /\ \A c \in Browsers : Honest(file'[c])
    BY <1>5, <1>11, HonestKept DEF IInv, TypeOK
  <2> QED BY <1>1, <1>3, <1>4, <1>9, <2>1, <2>2, StoreStep
<1> QED BY <1>7, <1>10, <1>11

\* RevokeDevice, and a step of nobody.
LEMMA OtherStep ==
  ASSUME IInv, UNCHANGED vars \/ \E i \in Ids : DeleteDevice(i)
  PROVE  IInv'
<1>1. UNCHANGED <<salt, blob, ids, draws, browser, file, foreign, givenUp>>
  BY DEF DeleteDevice, vars, drawn, history
<1>2. TypeOK'
  <2>1. row' \in [Ids -> Ids \cup {None}]
    BY DEF IInv, TypeOK, DeleteDevice, vars
  <2> QED BY <1>1, <2>1 DEF IInv, TypeOK
<1>3. Shapes' /\ Pending' /\ Drawn' /\ Distinct' /\ OwnKeys'
  BY <1>1 DEF IInv, Shapes, Shape, Pending, At, Drawn, Distinct, Names, OwnKeys
<1>4. AllHonest'
  BY <1>1 DEF IInv, AllHonest, Honest, Names
<1> QED BY <1>2, <1>3, <1>4 DEF IInv

-----------------------------------------------------------------------------
\* IInv holds initially.
LEMMA InitIInv == Init => IInv
<1> SUFFICES ASSUME Init PROVE IInv
  OBVIOUS
<1>1. /\ Out \in Browser /\ Out.pc = "out" /\ Out.dev = None /\ Out.gen = None
      /\ Out.keys = None /\ Out.got = NoBackup
  BY DEF Out, Browser
<1>2. \A b \in Browsers : browser[b] = Out /\ file[b] = NoBackup
  BY DEF Init
<1>3. TypeOK
  <2>1. browser \in [Browsers -> Browser]
    BY <1>1 DEF Init
  <2>2. ids \in 0 .. MaxIds /\ draws \in 0 .. MaxSalts
    BY BoundsAssumption DEF Init
  <2> QED BY <2>1, <2>2 DEF Init, TypeOK, Browser
<1>4. Shapes
  BY <1>1, <1>2 DEF Shapes, Shape
<1>5. Pending
  BY DEF Init, Pending
<1>6. \A b \in Browsers : Names(b) = {}
  BY <1>1, <1>2 DEF Names
<1>7. Drawn /\ Distinct
  BY <1>6 DEF Drawn, Distinct
<1>8. AllHonest
  <2>1. Honest(NoBackup)
    BY DEF Honest, NoBackup
  <2> QED BY <1>1, <1>2, <2>1 DEF AllHonest, Init
<1>9. OwnKeys
  BY <1>1, <1>2 DEF OwnKeys
<1> QED BY <1>3, <1>4, <1>5, <1>7, <1>8, <1>9 DEF IInv

\* IInv is kept by every step.
LEMMA NextIInv == IInv /\ [Next]_vars => IInv'
<1> SUFFICES ASSUME IInv, [Next]_vars PROVE IInv'
  OBVIOUS
<1>1. ASSUME NEW b \in Browsers, Register(b) PROVE IInv'
  BY <1>1, RegisterStep
<1>2. ASSUME NEW b \in Browsers, StoreRegistered(b) PROVE IInv'
  BY <1>2, StoreRegisteredStep
<1>3. ASSUME NEW b \in Browsers, Login(b) PROVE IInv'
  BY <1>3, LoginStep
<1>4. ASSUME NEW b \in Browsers, LoginDevice(b) PROVE IInv'
  BY <1>4, LoginDeviceStep
<1>5. ASSUME NEW b \in Browsers, ReadBackup(b) PROVE IInv'
  BY <1>5, ReadBackupStep
<1>6. ASSUME NEW b \in Browsers, Answer(b) PROVE IInv'
  BY <1>6, AnswerStep
<1>7. ASSUME NEW b \in Browsers, WriteKeys(b) PROVE IInv'
  BY <1>7, WriteKeysStep
<1>8. ASSUME NEW b \in Browsers, Logout(b) PROVE IInv'
  BY <1>8, LogoutStep
<1>9. ASSUME NEW b \in Browsers, CreateBackup(b) PROVE IInv'
  BY <1>9, PrepareStep, SyncStep DEF CreateBackup
<1>10. ASSUME NEW b \in Browsers, RestoreFile(b) PROVE IInv'
  BY <1>10, RestoreFileStep
<1>11. CASE UNCHANGED vars \/ \E i \in Ids : DeleteDevice(i)
  BY <1>11, OtherStep
<1> QED BY <1>1, <1>2, <1>3, <1>4, <1>5, <1>6, <1>7, <1>8, <1>9, <1>10, <1>11 DEF Next

\* IInv holds in every reachable state.
LEMMA Invariance == Spec => []IInv
BY InitIInv, NextIInv, PTL DEF Spec

\* Every variable keeps its type: what is stored and downloaded as a backup has a
\* salt, keys and the name of a device (StoreKeyBackup and handleCreateBackup never
\* store half of one).
THEOREM KeyBackupTypeCorrect == Spec => []TypeOK
<1>1. IInv => TypeOK
  BY DEF IInv
<1> QED BY <1>1, Invariance, PTL

\* The stored bundle opens with the stored salt, unless prepare has replaced it for
\* a backup that is being made or was given up (StoreKeyBackup, backup/prepare and
\* syncKeys of any number of browsers).
THEOREM KeyBackupOpens == Spec => []StoredBackupOpens
<1>1. IInv => StoredBackupOpens
  BY DEF IInv, Pending, StoredBackupOpens
<1> QED BY <1>1, Invariance, PTL

\* A browser in the chat whose keys came from no other device holds the keys its
\* device is known by (login, setKeysInStorage, handleRestoreBackup, logout).
THEOREM KeyBackupKeysMatch == Spec => []KeysMatchDevice
<1>1. IInv => KeysMatchDevice
  BY DEF IInv, OwnKeys, KeysMatchDevice
<1> QED BY <1>1, Invariance, PTL
=============================================================================
