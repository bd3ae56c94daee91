# A verification project for astralrelay.online

The repository is a federated, end-to-end encrypted messenger: a Go server
(`src/server`), a React client (`src/web`), a mesh of helper services
(`src/mesh`) and deployment scripts. The server keeps its state in PostgreSQL
and runs almost every operation as a sequence of single autocommit statements;
the client keeps keys in IndexedDB and polls. What can go wrong lies between
those statements, and that is what this project models.

Paths below are relative to `src/`; `internal/` stands for
`server/internal/`.

## 1. Inventory

| Component | State | Operations | Talks to |
|---|---|---|---|
| Message queue, sending (`internal/relay/relay.go` Send, `internal/api/handlers.go`) | `message_queue`, `idempotency_keys` | Send | rooms (membership), hub (notify), federation (remote recipients) |
| Message queue, delivery (`relay.go` Sync, MarkRead; `web/.../Chat.tsx`) | `message_queue.status`, `sync_cursors`, the client's cursor and events | Sync, MarkRead | rooms (addresses of a user's rooms), hub (delivery and read notices) |
| Rooms (`internal/rooms/rooms.go`, `handlers_rooms.go`) | `rooms`, `room_members` | Create, Invite, Leave, Remove, TransferCreator (SetRole has no caller) | relay, hub |
| Key directory (`internal/keydir/keydir.go`) | `devices`, `one_time_prekeys` | bundle (claims a prekey), update, status, cleanup | auth, federation |
| Client key storage (`web/src/crypto/key-storage.ts`, `useAuth.ts`, `signal.ts`) | one IndexedDB record with all secrets, a second copy in the Signal store | merge, rotate, remove, lock and unlock | key directory |
| Accounts and sessions (`internal/auth/auth.go`, `handlers_auth.go`, `api/auth.go`) | `users`, `devices`, `access_tokens`, `ws_tokens`, `proxy_sessions` | register, login (home or gateway), validate, log out, revoke a device, clean up | key directory, federation (auth of remote users) |
| Key backup (`handlers_backup.go`, `auth.go` 473-528, `useAuth.ts`) | `backup_salts` and the blob, one per user; what each browser holds | prepare, sync, salt, store, fetch, restore | client storage, accounts |
| Federation (`internal/federation`, `handlers_federation.go`) | `federation_peers`, allowlist and blocklist (memory and file), success counters, discovery cache | transaction, keys, devices, lookup, register | relay of other servers |
| Push-event hub (`internal/stream/hub.go`, `handlers_websocket.go`) | the map of connections, bounded channels, Redis subscriptions | Notify, NotifyTyping, NotifyDelivery, NotifyRead, Run, Register, Unregister, Close | every handler that notifies |
| VPN provisioning (`internal/vpn`, `handlers_vpn.go`) | `vpn_peers`, `vpn_wg_addr_seq`, the users of Xray's inbounds | GetConfig, Revoke, expiry | Xray, accounts (deleted devices) |
| Mesh coordinator (`mesh/coordinator/main.go`) | nodes with their addresses and the token, in memory and in a file; route files | join, config, token (peers and cert only read) | nodes, Traefik |
| Web push, media, database encryption, configuration, metrics, scripts | subscriptions, blobs, wrapped keys | I/O and wiring | external services |

What is hard in each, and what makes it correct:

- **Sending**: a client repeats a request whose outcome it does not know. An
  accepted message must be stored; a repeated request must not store it twice.
- **Delivery**: requests overlap, replies get lost, rows become visible out of
  the order of their timestamps, the cursor decides what is never asked for
  again. No message may fall behind the cursor, and every message must arrive.
- **Rooms**: roles are read in one statement and written in another. A room
  must keep exactly one creator.
- **Prekeys**: a one-time prekey must go to one initiator only, and the device
  must have the secret of everything the directory offers, although upload
  and storage are separate steps which can fail between them.
- **Federation**: a message passes through servers that each only know whether
  the next one answered 200. 202 must mean that it arrived; relays must not
  keep it; the trust list must survive races and restarts.
- **Sessions**: a name is checked before the transaction that takes it, a device
  is looked up before the token is stored for it, and revocation is two
  statements. A name must be given once, an ended session must stay ended and a
  session must be on a device of its own user.
- **Backup**: the salt is replaced before the bundle is, and any browser of the
  user may do so. The stored bundle must open with the stored salt, and a
  device must hold the secret of the identity it is known by.
- **VPN**: address, row and Xray user are changed in separate steps of which
  each may fail. No address may go to two devices, a row must keep its address,
  and Xray must admit the holder of the row's credential only.
- **Hub**: the map of connections is walked without the lock, channels are
  bounded, events arrive directly and over Redis. Whoever was reached must be
  told, and not more often than there are paths.
- **Coordinator**: a registration is answered after a save that may fail, be
  torn or come out of order. What was answered must survive a restart, and a
  node that asks again must get the address it has.

`PROJECT.json` lists the hazards at the lines where they bite.

## 2. Modules

| Module | Models | Uses |
|---|---|---|
| `Outbox` | what sending promises: acknowledged implies stored | |
| `RelaySend` | `relay.Service.Send`, statement by statement | `Outbox` (refinement) |
| `RelaySync` | `relay.Service.Sync`, the sync handler, the client's polling | |
| `RelaySyncProofs` | proofs about `RelaySync` | |
| `Rooms` | `rooms.Service` and the room handlers | |
| `KeyDir` | one device's prekeys in the directory and in client storage | |
| `KeyDirProofs` | proofs about `KeyDir` | |
| `Federation` | remote sends: `federation.Client`, the transaction handler, `SecurityService`, `AcceptTransaction` | |
| `FederationProofs` | proofs about `Federation` | |
| `Auth` | accounts, devices, tokens and proxy sessions of a home server and a gateway | |
| `AuthProofs` | proofs about `Auth` | |
| `KeyBackup` | the backup of a user's keys: server, and browsers that register, log in, back up and restore | |
| `KeyBackupProofs` | proofs about `KeyBackup` | |
| `AddressPool` | what handing out addresses promises: one owner per address | |
| `Coordinator` | the mesh coordinator with its file and route files | `AddressPool` (refinement) |
| `CoordinatorProofs` | proofs about `Coordinator` | |
| `Vpn` | `vpn.Service` with the users of Xray | `AddressPool` (refinement) |
| `VpnProofs` | proofs about `Vpn` | |
| `Hub` | `stream.Hub` on several servers, with Redis | |
| `MessagingProofs` | proofs about `RelaySend`, `Rooms` and `Hub` | |
| `MC*` | constants and symmetry for TLC | the module named |

A definition that is followed by *Variant* in its comment is a plausible
mistake in the definition after it. Variants are part of no specification;
putting one in the place of the definition it varies breaks the property that
`PROJECT.json` names with it.

### RelaySend

`mq` and `idem` are the tables, `pc` is the statement a request executes next.
`Begin`, `CheckRecipient`, `LookupKey`, `InsertMessage` and `RecordKey` are the
statements of `Send` in their order (relay.go 66-164). `Abort` is a cancelled
context, a stopped server or a failing statement; `InsertMessage` may commit
and still report an error; the error of `RecordKey` is discarded, as in the
code. `Age` moves a message through the replay window and `RecipientChanges`
lets memberships and accounts change between any two statements. A message
stands for a request body with its idempotency key; requests for one message
are retries.

`Outbox` is the promise. `RelaySend!ImplementsOutbox` maps `stored` to the
messages with a row and `acked` to the messages that were answered with an
event id.

### RelaySync

`created` is `created_at`, read when the INSERT begins; `visible` is what has
committed. `Query` is the SELECT of Sync with its LIMIT, its order, its
reversal for a first load and its cut; `MarkDelivered` is one UPDATE;
`FinishSync` the notices and the reply; `Receive` what the client does with it
(merge by id, take the cursor unless the page is empty). `Reload` opens the page
again, at any time without a request of its own under way; during a request it
loses the reply. `LoseReply`, such reloads,
discarded UPDATE errors, a failed lookup of the rooms and a scan that breaks
off happen under `Faults`. The history variables `disorder` (rows whose
`created_at` another row shared or passed), `horizon` (the oldest row of the
first page) and `overlooked` (rows that a request left out for good: those of rooms
it could not look up, and a delivered row that a first load has cut off, see
`Unreturned`) name the exceptions of the properties. The `sync_cursors` table is
written and never read, so it is left out.

### Rooms

Each operation is its checks, one action per SELECT, and its write. `stale`
and `raced` are history: a request is stale when a role it has read was changed
before it wrote, a room is raced when such a request wrote to it. The transfer
is one transaction and one action; its commit error, which the code discards,
is `AbortRequest`.

### KeyDir

`st` and `pub` are the rows of `one_time_prekeys` (`used` turns `old` after
thirty days, and Cleanup deletes it), `stored` is the IndexedDB record with 0
for the signed prekey. A refresh is one run of the effect in Chat.tsx 583-611;
a pair is named by its key id and the refresh that made it, so that two pairs
with the same id differ. A registration generates `Generated` pairs (ten), stores
them all and publishes the first `Uploaded` (five); the ids between are `Surplus`.
`ClaimSelect`/`ClaimUpdate` are the sub-select and the
locked write of one UPDATE statement: PostgreSQL evaluates the sub-select
before it waits for the row. Storage is read and written in separate IndexedDB
transactions; `torn` records what a write undid. The second copy of the
secrets in the Signal store is not modelled, so a failed `Decrypt` is judged by
`stored` alone. The SELECTs of `GetKeyStatus` are taken as one. `calm`, chosen in
the initial state, is the case in which the code is right about secrets: one
page, nothing fails or is cancelled, and weeks rather than months pass.

### Federation

A call is a record in `hop[r]`: its handler's next step, the server it runs
at, the server it came from and whether its caller still waits. `Admit` either
goes on to store the event or calls the destination while the caller waits.
`GiveUp` is any end of waiting; the call may run on, so transactions are
stored late. `Redeliver` is a second delivery. `Restart` loads the lists again;
on the servers in `Failing` a file may be impossible to read, which the code takes
for an empty list, and `unread` counts the starts without the allowlist. Names are compared as they are written, and two names may resolve to
one server. Discovery is the fixed map `HostOf`; the discovery cache is not
modelled. The counter of `RecordSuccess` stops at the threshold, with which
alone the code compares it.

### Auth

A request carries its operation, the statement it executes next, its user and
device. A session is named by the request that issued its token, and `tok` is
its row in `access_tokens`. `Arrive` is registration or login, `ArriveWith` a
logout or a revocation by the client that holds a session, through the gateway
if the session is one of a gateway (`proxy`). The statements of `Register`,
`Login`, `RevokeToken` and `RevokeDevice` are one action each, except
`RegisterTx`, which the code runs in a transaction. `Fail` is an error the code
reports; the error of the INSERT of a token is discarded, as in the code.
`DeleteDevice` removes tokens by the foreign key's ON DELETE CASCADE.
`Expire` and `Cleanup` are time and the cleanup loop of main. `aim` and `ended`
record what an answered logout or revocation promised, `crossed` the logins
whose device was deleted between their look at it and the INSERT of the token.

### KeyBackup

`salt`, `blob` and `row` are what the server has, `browser` what each browser
has in IndexedDB and localStorage, `file` the downloaded backups. Key material
is abstracted to the device id that drew it: an identity opens what was made
for it. `Register` and `StoreRegistered`, `Login` to `WriteKeys` and `Logout` are
the flows of `useAuth.ts` with the requests they make; `Prepare` and `Sync` are the
two requests of a backup, each of which may be lost with or without effect.
`givenUp` records salts whose backup was never completed, `foreign` the browsers
that restored keys of another device.

### AddressPool, Coordinator and Vpn

`AddressPool` grants an address to one owner; it forgets grants only when some
may be missing in the store, or in a start without its store.
`Coordinator!ImplementsPool` maps it to the
registrations that were answered, with `unstored` the moments in which the last
write failed or an answer overtook a write and `unread` a start that could not read
the file; `Vpn!ImplementsPool` to the addresses
in answered configurations, which are never forgotten.

`Coordinator`: `CheckToken` reads the token without the mutex; `Join`,
`ConfigKnown`, `ConfigNew` and `Token` are the parts under the mutex; `Save` takes
the mutex again and writes the state of that moment, or fails, or leaves a torn
file, which loads as nothing; `Restart` is main with load, which leaves everything
blank when the file cannot be read (`blind`), be it intact or not.

`Vpn`: `row` is `vpn_peers` by device and protocol, `seq` the sequence, `xray` the
users of the inbounds. A credential is named by the request that generated it.
No SELECT reports an error: `Select` yields the row or nothing, after which an
expired row passes, a row with an address gets a request with another one, and a
credential is replaced. The upsert may fail, and may be done and report an error.
`mixed` marks the devices and protocols whose requests overlapped, or of whose
steps one failed, SELECTs included, until a revocation that nothing disturbs. The
peers of the WireGuard interface are not modelled: the service removes the old peer
of a device (service.go:156-158), but nothing in the repository adds one.

### Hub

`Call`, `Publish` and `Local` are the parts of a Notify call. The Redis client is
made without `max_retries` (hub.go:61-65), so go-redis sends a PUBLISH up to four times
(`Attempts`, per event): each attempt reaches any subscriptions, and only a reply, an error
that is not retried or the last attempt lets the call go on. A message or a typing
notice goes over the bounded channel of `PushToLocal` to `Run` (`RunTake`), a
receipt is pushed by the caller or the subscriber. A walk holds the connections
it still has to visit; `Register` and `Unregister` may change what a walk under
way finds, since the lock is not held. `Write` is the writer of a connection.
`owed` is the pairs of an event and a connection that was there when the event
was called and that no full channel or ended connection has excused.

## 3. What is checked

| Run | Bounds | Result |
|---|---|---|
| `relay_send` | 3 requests; a keyed, an unkeyed and a remote message | `TypeOK`, `KeyNamesItsMessage`, `AcceptedIsStored`, `RetryIsIdempotent`, `ImplementsOutbox` hold |
| `sync_faults` | 1 device, 2 requests in flight, 3 rows, one of them of a room, pages of 2 | `TypeOK`, `CursorSkipsNothing` hold |
| `sync_reliable` | 1 device, 2 requests in flight, 4 rows, one of them of a room, pages of 2, reloads but no faults | `NothingOutOfReach`, `EventuallyReceived` hold |
| `sync_lost_reply` | with faults | `NothingOutOfReach` does not hold |
| `rooms` | 1 room, 3 users, 3 requests in flight | `RoomsTypeOK`, `OneCreator` hold |
| `keydir` | 2 refreshes, 2 initiators, 5 key ids, 2 generated and 1 uploaded, batches of 2, refreshed below 2, quota 3; calm or not | `TypeOK`, `OnlyContendedTwice`, `OfferedHasSecret` hold |
| `federation` | 2 requests, 3 servers (home in main_only mode, main, destination), 4 names, 2 calls in a chain, threshold 1, 1 start that cannot read the allowlist at the destination | `TypeOK`, `AcceptedArrived`, `StoredAtDestination`, `AllowlistFileOnce` hold |
| `auth` | 4 requests, 2 users, 2 device ids | `TypeOK`, `NameGivenOnce`, `SessionOnOwnDevice`, `EndedStaysEnded`, `AnsweredHasRow` hold |
| `backup` | 2 browsers, 3 device ids, 3 salts | `TypeOK`, `StoredBackupOpens`, `KeysMatchDevice` hold |
| `coordinator` | 3 requests, 3 keys on 2 hosts, 2 stops | `TypeOK`, `AnsweredIsDurable`, `ConfigIsIdempotent`, `RouteToOwnNode`, `ImplementsPool` hold |
| `vpn` | 3 requests, 2 devices, WireGuard and one Xray protocol, 2 addresses | `TypeOK`, `ConfigMatchesRow`, `XrayAdmitsRow`, `AddressKept`, `ImplementsPool` hold |
| `hub` | 2 servers, a connection to one of them, a message with 2 attempts of PUBLISH and a receipt with 1, channels of 1, with and without Redis | `HubTypeOK`, `CopiesBounded`, `EventuallyTold` hold |

Why the bounds are enough for what is asked. Sending: a duplicate needs two
requests with one key, the third request is the retry that comes after them.
Delivery: with pages of two, three rows are the least with which a first load
is cut and four the least with which a later page is; two requests are the
least with which replies cross. Rooms: an overtaken
operation needs two requests, the third makes the room what they disagree
about; `MessagingProofs` removes the bound. Prekeys: two tabs, two initiators, an
id that is cleaned up and used again, and a first batch with a surplus id and one
beyond it. Sessions: a session, its revocation, a
login that crosses it and a login that takes the id over are four requests.
Backup: two browsers are what it takes for one to replace the salt of the
other, and a third salt for a backup after that. Coordinator: two overlapping
registrations and a repeated one, with a stop before and after them. VPN: two
overlapping first requests exhaust a pool of two, the third finds it empty or
comes from the other device. Hub: with channels of one, two events are enough
to fill each of them, and so are two attempts of one PUBLISH; the connection's
server is the one called, or Redis is the only way to it. The code makes four
attempts and a server has many connections, some of which register while a walk is
under way: for `CopiesBounded` the theorem has no such bounds, for
`EventuallyTold`, on which TLC spends most of its time, they stand. Federation: a relayed transaction
takes two calls, and the message whose recipient's domain is spelled in
another way has come back to the main server within two; a copy of a
transaction can be under way beside both requests, so that three transactions
of one origin meet at the allowlist.

Bounds in guards: `MaxId` (key ids; a refresh that would need more does not
start), `MaxHops` (calls in a chain; the code ends it by timeouts), one
redelivered copy at a time, `MaxStops` (restarts of the coordinator), `MaxIds` and
`MaxSalts` (random ids and salts drawn), `MaxUnread` (starts of a server that
cannot read its allowlist). `PoolSize`, `QueueSize`, `SendSize`, `Generated`, `Uploaded`,
`Batch`, `Threshold` and `Quota` are numbers of the code, made small. `Refreshes`, `Requests`, `RoomRequests` and `Events` bound how
often something happens.

Deadlock is checked in `RelaySend` and `RelaySync` only. In the others requests,
refreshes and events are finite in number, and a state in which all have ended is no
error; `RelaySend` and `RelaySync` always have a next step (the environment,
the client's timer).

**Fairness.** Two runs need it. In `sync_reliable` the client polls every five
seconds (`Chat.tsx` 554-558), so `StartSync` is weakly fair for each device;
the handler's steps are statements of a request that is not interrupted, so
`Query`, `MarkDelivered` and `FinishSync` are weakly fair; an INSERT that has
begun commits. `EventuallyReceived` is about behaviours in which the page is not
opened again and again for ever. With faults nothing of this is promised and no liveness is
claimed. In `hub` every goroutine that can go on eventually does: the caller, the
subscriber and `Run` of each server, the writer of each connection. That is
what the Go scheduler promises, together with a socket that takes what is
written to it or is closed; calls, connections, and stops are not fair, and a
stop or an ended connection excuses.

## 4. What the code does otherwise than it says

This one is a run, with the line that says otherwise in `PROJECT.json`:

- *Lost replies* (`sync_lost_reply`): events are marked delivered before the
  reply is written and an incremental sync returns queued events only. A lost
  reply loses its messages for the open page; a reload gets them back, unless its
  first load cuts them off.

These were met while modelling and have no run of their own; the models
contain them and the properties above are stated around them:

- *First load*: limit+1 rows are selected newest first, turned
  around and cut at the end, which drops the newest (relay.go:326; the comment at
  relay.go:252 says the last N messages). The next sync returns it if it is queued;
  a row that was delivered before it does not return, so a page that is opened over
  more than 100 delivered rows misses the newest of them for as long as it is open.
  `NothingOutOfReach` and `EventuallyReceived` except that row.
- *Surplus prekeys*: a registration, and the first login of a
  device, generates and stores ten one-time prekeys and publishes five
  (useAuth.ts:108,124). The directory knows ids 1 to 5, so the first refresh
  publishes new keys from 6 on, and the merge drops the secrets of 6 to 10, whose
  ids it finds taken (key-storage.ts:219). Nothing fails, and five keys are on offer
  whose secrets nobody has. `OfferedHasSecret` excepts these ids.
- *Idempotency keys*: lookup, insert and recording of the key are three
  statements (relay.go:121). Overlapping requests with one key, or a request
  that stops before the key is recorded and its retry, queue a message twice
  (`docs/api/c2s-api.md:12` has the key for retries). `RetryIsIdempotent` is about
  retries that begin after the key was recorded.
- *Two creators*: the role is checked outside the transaction that changes it
  (rooms.go:262), so two overlapping transfers both succeed. `OneCreator`
  excepts rooms an overtaken request wrote to.
- *One prekey for two initiators*: the sub-select of the UPDATE is not evaluated
  again after the wait for the row (keydir.go:214; `docs/api/s2s-api.md:94`
  says a prekey must not be given out twice). `OnlyContendedTwice` states that
  only overlapping claims share one.
- *Backup files*: `backup_salts` has one row per user, so a backup that any
  browser begins makes earlier downloaded files impossible to open
  (handlers_backup.go:42; `docs/protocol/03-e2ee-backup.md:13`). Between `prepare`
  and `sync`, and for good if `sync` never comes, this holds for the stored
  bundle too: the exception of `StoredBackupOpens`.
- *Reads that fail*: a file or row that cannot be read is treated as one that is not
  there. The coordinator then starts from nothing over an intact file and gives its
  addresses out again (main.go:68); a federation server starts without its
  allowlist, counts trusted domains from zero and appends them once more, and
  without its own blocklist (security.go:158, 88); GetConfig lets an expired row pass
  (service.go:101), draws a second address for WireGuard, which the row does not
  take (service.go:165), and replaces the credential of an Xray protocol, which
  Xray does not take, as it knows the email (service.go:228). The properties name
  these as exceptions: `unread`, `blind`, `mixed`.
- A login restores the backup only when the browser has the device id and not
  the keys; the comment at useAuth.ts:143 speaks of any login that is answered
  with one. After another device's backup is restored the row of the device
  keeps its own identity: the exception of `KeysMatchDevice`.
- A login whose device is deleted before its token is stored is answered with a
  token that never validates, or, if another user has taken the device id
  meanwhile, with one on that user's device: `crossed` in `Auth`.
- Two overlapping first requests for WireGuard draw two addresses; the row
  keeps the first and the second configuration names the other
  (wireguard.go:29 calls the allocation transactional). Deleting a device and
  the expiry of a row leave the user in Xray; revoking WireGuard removes no
  peer. Addresses of the sequence are never given back, so 252 first requests
  exhaust it.
- `/v1/token` draws the coordinator's token without setting `nextIP`, so the first
  node then gets 10.100.0.0; a node that joins again by `/v1/join` gets another
  address; after 255 registrations the address is no IPv4 address any more.
- The hub walks its map of connections without the lock, which Go may answer by
  ending the process (`Stop`); an event published over Redis is also pushed
  directly, so connections of the called server may hear of it twice; a PUBLISH
  whose reply is late is sent again, so any connection may hear of it up to four
  times over Redis; the writer of an ended connection never ends, since `Send` is never closed.
- `status` is one column per event: what one device of a user, or one member
  of a room, has fetched, no other open page gets by an incremental sync
  (relay.go:253). `NothingOutOfReach` is therefore checked for one device; with two it
  fails at once.
- A row that commits after a row with the same or a later `created_at` was
  fetched lies behind the cursor (relay.go:264): the exception `disorder`.
- The sender is told "delivered" when the rows are selected, before any device
  has them (handlers.go:540; `docs/glossary.md:56` says the client confirms).
- With limit=1 a cut first load takes its cursor from the row it leaves out
  (relay.go:312), and the row is lost. The pages here have two rows, as the
  client's have 100, and the theorems about delivery assume `PageSize` >= 2.
- When the lookup of the rooms fails, Sync answers without them and the cursor
  passes their rows (relay.go:247): they are in `overlooked`.
- A member who becomes creator between the check and the DELETE of Leave or
  Remove is deleted, and the room is left without a creator (rooms.go:208).
- Two tabs refresh prekeys with the same ids (the lock of Chat.tsx:575 is per
  page); a refresh cancelled during its upload publishes keys whose secrets it
  drops (Chat.tsx:601); after a cleanup key ids come back for which storage
  holds an old secret, and the new one is dropped (key-storage.ts:219); merge,
  rotation and removal undo each other (key-storage.ts:217). `OfferedHasSecret`
  is therefore checked for one page, without faults, within a month.
- In a page that stays open nothing replenishes prekeys (Chat.tsx:611;
  `docs/protocol/02-key-model.md:120` says the client does as they are used).
- `GetBundle` parses its user id with a verb that `fmt.Sscanf` does not know
  and always fails (keydir.go:55); it is not modelled.
- A remote send draws a new event id for every attempt and does not look at
  the idempotency key (handlers.go:370-396), and no receiver looks at
  `transaction_id` (`docs/api/s2s-api.md:164` says it does). The retries of
  `s2s-api.md` section 7 do not exist. An event the destination could not
  store is answered 200 and the client hears 202: the exception in
  `AcceptedArrived`. Every server relays, though the comment at
  handlers_federation.go:423 says "(Main hub only)".

## 5. What is proved

TLAPS checks these for every value of the constants that satisfies the named
assumptions.

**MessagingProofs** holds the proofs of three modules that share neither state nor
constants; it extends all three, which is why `Rooms` and `Hub` have their own names
for what every module has (`RoomsInit`, `HubSpec`, ...).

*Sending* (from `KeysAssumption`, `NoneAssumption`, `RemoteAssumption`,
`ErrorsAssumption`): `TypeCorrect`, `KeysNameRows`, `AcceptedMeansStored`,
`RetriesAreIdempotent` and `Refinement`. The three invariants are not inductive.
`IInv` adds that a row holds the message of the request it is named after
(`RowsAreOwn`), what a request has done by the time it reaches a statement
(`Started`, `Progress`), and that a request whose key was recorded when it began
still finds it and never reaches the insert (`Retries`). The last is what makes
retries idempotent: keys are never removed or changed. One lemma per statement
shows that it preserves `IInv`; `StepSimulation` then shows that every step is a
`Store`, an `Ack`, a `StoreAndAck` or a stutter of `Outbox`.

*Rooms* (from `NoUserAssumption`): `RoomsTypeCorrect` and `RoomsKeepOneCreator`.
`RoomsInv` says what a request that was not overtaken still knows when it writes (`Knows`: who leaves or
is removed is no creator; who transfers is the creator, and the target is another
member), that a room has no members and one creating request until its Create has
ended (`Creation`), and that a request in flight names its room and users
(`WellFormed`). `WriteKnow` is the heart of it: whoever a write does not overtake
knows what it knew. `OneCreator` then follows for every room that no overtaken
request wrote to, which is exactly the condition under which the code is right.

*Hub* (from `NodeAssumption`, `KindAssumption`, `SizeAssumption`, `AttemptsAssumption`):
`HubTypeCorrect`
(no channel above its capacity, however many send to it) and
`HubCopiesBounded`. What a connection has heard says nothing about what it will
hear, so `HubInv` counts, for a connection and an event, the copies it was sent
and those that can still reach it (`Copies`): in its `Send`, in the two channels
and the subscription of its server, with Run, the subscriber and the caller if they
are walking, and in a call that has not got to its own server yet. They are never
more than were made (`Made`): the call makes one on its own server, each attempt of
PUBLISH one more, and there are `Attempts[e]` of them at most (`Attempted`); each
other step moves a copy from one place to the next, or drops it, and `NoNewCopies`
says that this is enough. Two points make the count right: a connection that is
not there yet may be found by a walk under way, so it is counted with that walk
from the start (`Carries`), and a caller walks once, at the end of its call
(`Places`). The counts of channels rest on lemmas about `Append` and `Tail`
(`CountAppend`, `CountTail`).

**RelaySyncProofs** (from `SyncConstants`, `PageSizeAssumption`):
`SyncTypeCorrect`, `SyncCursorSkipsNothing` for pages of two rows or more, and
`SyncNothingOutOfReach` for one device without faults. A reply replaces the
cursor, so the property has to hold before of what the reply will bring: `Good`
says that the cursor a request was made with skips nothing (`Safe`), and that its
page and its next cursor skip nothing together (`Covers`), as long as somebody
waits for the answer. A request whose device reloads is not waited for any more
and needs nothing. A row that commits later does no harm, since every cursor is
the `created_at` of a row that was visible (`Known`): the late row passes that row
and is in `disorder`. `PageCovers` is the heart of it: what a page leaves out lies
after its cursor, before a first load, or shares its `created_at` with another row
and is on record (`Ties`), in both orders and whether the page is cut or not. Cut
pages are where it needs two rows. For `NothingOutOfReach`, `Kept` adds that what
is marked delivered is in the client, in a page somebody waits for or on record as
cut off, unless the page has just been opened: then its first load, whose page
reaches back from the newest row (`Loaded`), brings it or puts it on record.

**KeyDirProofs** (from `KeyDirConstants` and `QuotaAssumption`):
`KeyDirTypeCorrect`, `KeyDirOnlyContendedTwice` and `KeyDirOfferedHasSecret`. That a
pair is not offered again is inductive with three facts: a pair that somebody holds
is not free (`Spent`), a refresh inserts each of its pairs at most once and a pair
that exists was inserted (`OnceMade`, `Todo`), and the row an initiator has chosen
is still there when it updates it (`Chosen`; Cleanup deletes rows that were used a
month ago, and no statement takes a month). An id that is uploaded again after a
cleanup names another pair. `OfferedHasSecret` is
about behaviours that are `calm`. `Quiet` follows the one refresh through its
statements (`Orderly`): its ids are new, the count at the quota lets them pass, what
it has inserted carries its name; meanwhile storage and every copy of it that a page
holds contain, but for the surplus ids, only secrets of keys that are published
(`Belongs`), so that writing a
copy back takes away nothing but what `torn` records. `QuotaAssumption` (a batch fits
under the quota whenever a page decides to add one: 20, 50 and 500 in Chat.tsx:572
and keydir.go:284) is needed for the count: UpdateKeys replaces the signed prekey
before it compares the quota, and the page stores a secret only when the whole call
succeeds, so an upload refused there would leave a signed prekey on offer whose
secret nobody has.

**VpnProofs** (from `PoolAssumption`, `NoneAssumption`, `SlotAssumption`):
`VpnTypeCorrect`, `VpnAddressKept`, `VpnImplementsPool`, `VpnConfigMatchesRow` and
`VpnXrayAdmitsRow`. That no address is answered to two devices is not inductive:
an address lives in a request and in a row before it is answered. `IInv` says that
whoever has an address in any of these places is one device (`OneHolder`) and that
the sequence has passed every such address (`Drawn`); `Fits` says what a request
has by the time it reaches a statement. Every statement but nextval only passes
addresses on within a device (`RequestPasses`); nextval gives one that, by
`Drawn`, nobody has (`NextValKeeps`). `AnswerGrants` then shows that an answer is
a `Grant` of `AddressPool` or a stutter. The last two theorems are about a device
and protocol that is not `mixed`; `CalmInv` says that it has one request at a time
(`Lonely`) and, for each statement of that request, how row, Xray user and last
answer relate while it changes them one after the other (`Calm`). A statement that
fails, a SELECT too (`SawStep`), makes the slot mixed and needs no more (`SpoilStep`).

**CoordinatorProofs** (from `HostAssumption`, `StopsAssumption`,
`NoneAssumption`): `CoordinatorTypeCorrect`, `CoordinatorDurable`,
`CoordinatorRoutes`, `CoordinatorIdempotent` and `CoordinatorImplementsPool`.
Memory and file are each consistent (`Sound`: no address twice, all below the next
one) and the file holds nothing memory has not, except after a start that could not
read it, and then only what counts as lost (`FileInMemory`); the node a
request has registered is in memory until it is answered, and so is what was
answered (`Registered`, `Answered`); what is not in the file has a request that is
about to save it, unless `behind` says that a write failed or was overtaken
(`Unsaved`); and /v1/config answers with the first node of its key (`First`).
Overlapping saves do no harm because each writes the memory of its own moment,
which only grows.

**AuthProofs** (from `NoneAssumption`): `AuthTypeCorrect`, `AuthNameGivenOnce`,
`AuthSessionOnOwnDevice`, `AuthEndedStaysEnded` and `AuthAnsweredHasRow`. `IInv`
says what a request has found and issued by the statement it is at (`Fits`,
`Issued`, `Present`), that tokens have a device and lie on the user's own unless
`crossed` (`OnDevice`, `HasRow`), and what an answered logout or revocation has
left behind (`Aimed`, `EndedGone`). A name is given once since the transaction,
not the check before it, decides (`OneName`).

**FederationProofs** (from `FederationConstants`): `FederationTypeCorrect`,
`FederationAcceptedArrived`, `FederationStoredAtDestination` and
`FederationAllowlistFileOnce`. A call answers 200 on the word of the call it made,
so the argument runs along the chain: `Chains` says that a call somebody waits for
was made by a call that waits and that only the destination gets past the
comparison of domains, `RelayedArrived` that a call whose own call was answered
200 has the event at the destination, and `Fresh` that a message not yet sent has
left no trace. The trust lists are independent of the calls (`TrustInv`): a domain
that the list in memory lacks has no more lines in the file than there were starts
that could not read it, so a line is written at most once for each (`Remembered`).

**KeyBackupProofs** (from `BoundsAssumption`, `NoneAssumption`):
`KeyBackupTypeCorrect`, `KeyBackupOpens` and `KeyBackupKeysMatch`. When the stored
bundle does not open with the stored salt, the salt belongs to a browser that is
still making its backup, or was given up (`Pending`); device ids in use were drawn
and belong to one browser (`Drawn`, `Distinct`). A backup with keys other than
those of the device it names came from a browser that is foreign and still in the
chat (`AllHonest`), so that who restores it becomes foreign too (`OwnKeys`).

The theorems state the properties as the runs check them: no theorem is weaker
than its property, and those that need a condition (`PageSize` >= 2; one device
and no faults) name it as an assumption that their run satisfies.

**Only model-checked**: `EventuallyReceived` and `EventuallyTold`, since liveness
is beyond the prover. Every invariant, action property and refinement of the runs
that pass is also a theorem.

## 6. What is not modelled

- Cryptography (signatures, Double Ratchet, sender keys, the encryption of
  database columns) is taken to work.
- Rate limits appear as refusals. Push notices are hints that make a client
  poll; `RelaySync` lets it poll at any time, which covers them.
- Accounts: WebSocket tokens (`auth.go` 375-416), names and lists of devices, which
  no session depends on. The modules other than `Auth` take tokens to be valid.
- VPN: the table of nodes, whose CreateNode, UpdateNode and DeleteNode nobody
  calls, the statistics and the peers of the WireGuard interface, the text of
  configurations.
- Federation: key and device queries, user lookup and registration with a hub
  only read or store a peer's name; discovery is a fixed map.
- Read receipts: MarkRead only inserts rows of `read_receipts`, which nothing reads
  back into the queue.
- Media, web push, backup receiver, metrics, configuration and scripts are I/O
  and wiring without a protocol of their own.

Further hazards that no property covers, because the code promises nothing
that could be stated, or because what it does is described in section 4: a
membership or an account that ends between its check and the insert
(relay.go:93); the discarded error of the commit of a transfer (rooms.go:290);
the quota of prekeys, which overlapping uploads exceed by a batch
(keydir.go:329); reads and writes of IndexedDB in separate transactions
(key-storage.ts:217); prekeys that nothing replenishes in an open page
(Chat.tsx:611); a blocklist that is empty while it is read again
(security.go:85); an address of the coordinator past 255 (main.go:299); two readers of
one message (relay.go:253).

## 7. Plan

Done: Outbox, RelaySend, RelaySync, Rooms, KeyDir, Federation (transactions),
Auth, KeyBackup, AddressPool, Coordinator, Vpn and Hub, with proofs for all of
them.

Proofs that could follow: action properties that their
invariants nearly imply, such as that a row once delivered stays delivered and that
an answered session's token never returns to live; `SyncCursorSkipsNothing` for a
limit of one row as long as no first load is cut.

Models that could follow: read receipts in `RelaySync`; the discovery cache and
the registration with a hub in `Federation`; a mailbox that `RelaySync`
implements for one device without faults.
