# Trust-Circle: TLA+ models and proofs

Trust-Circle is an end-to-end encrypted messenger for small circles. A Fastify
service *Auth* gives out tokens, a Fastify and Socket.IO service *Messaging*
keeps devices, circles, conversations and ciphertexts in PostgreSQL, and a
Flutter client encrypts, decrypts and caches. The server never sees a message;
what it must get right is *which device is trusted*, *which key a version
number names*, and *who is connected and told*. The models start there.

File names below are relative to `src/`; `M/` is `backend/messaging/src/` and
`F/` is `frontend-mobile/flutter_message_app/lib/`.

## 1. The system

| Component | State | Operations | Talks to | What is hard | What makes it correct |
|---|---|---|---|---|---|
| Account device registry (`M/routes/account.devices.ts`, `account.deviceApprovals.ts`, `M/middlewares/deviceAuth.ts`) | `account_devices`, two challenge tables | challenge and proof of a registration; challenge and decision (approve, reject, revoke) | grants of Auth, key directory, sockets | requests authenticated before another request's decision; retries; expiry; counters over purged tables | one root of trust; a device is trusted on the word of an active one; nobody is locked out; an answer counts once |
| Group key directory (`M/routes/keys.devices.ts`) | `group_device_keys`, `group_device_key_history` | publish (first, again, rotate), directory | registry | retries, rows of the prototype, revocation beside publication | a version names one key for ever; keys follow the device |
| Bootstrap grants (`backend/auth/src/routes/auth.ts`) | `device_bootstrap_grants`, an in-memory counter | issue | registry spends them | snapshot before lock, restart, window edges | the documented rate |
| Socket gateway (`M/index.ts`, `M/middlewares/socketAuth.ts`, `M/security/socketSecurity.ts`) | sockets, slots, rooms, quotas | handshake, subscribe, unsubscribe, typing, disconnect | registry (row), ACL, presence | every `await` is a gap; revocation beside handshake; closes at any point | caps; no lost slot; a revoked device has no socket |
| Presence (`M/services/presence.ts`) | socket counts per user | online, offline, roster | gateway, groups | broadcasts after awaits | members are in their rooms; presence stays in the circle; the last word is true |
| Groups and join requests (`M/routes/groups.ts`) | `groups`, `user_groups`, `join_requests` | create, request, accept, reject | presence, gateway | concurrent handling of one request | one pending request, membership only by decision, a decision stands |
| Conversations and ACL (`M/routes/conversations.ts`, `M/services/acl.ts`) | `conversations`, `conversation_users` | create, list, `canSend` | messages, gateway | row locks against revocations | a sent message was authorized when stored; no lock order of its own deadlocks |
| Messages (`M/routes/messages.v2.ts`) | `messages` | send, page | ACL, gateway | duplicate ids, page cursors | stored once, every message in some page |
| Database access (`M/plugins/db.ts`) | – | SERIALIZABLE transaction with retries | all of the above | conflicts, deadlocks | all or nothing, every call answered |
| Auth sessions (`backend/auth/src/routes/auth.ts`) | `users` | register, login, refresh, logout | – | – | tokens expire by themselves |
| Realtime client (`F/core/services/websocket_service.dart` and neighbours) | status, pending and live subscriptions, timers | connect, subscribe, reconnect, disconnect | gateway | callbacks against awaits | reconnects, and resubscribes what the user watches |
| Key directory cache (`F/core/services/key_directory_service.dart`) | memory and SQLite copies, requests in flight | fetch, invalidate | key directory, realtime events | answers after an invalidation | never keeps what was invalidated |
| Device trust, session (`F/core/providers/auth_provider.dart` ...) | tokens, device identity | login, refresh, enrol, logout | Auth, registry | answers after a logout | logged out stays logged out |
| Message queue, local storage (`F/core/services/message_queue_service.dart` ...) | SQLite rows | enqueue, send, retry | nothing: no send path uses the queue | – | – |
| Cipher, verifier, crypto isolate (`F/core/crypto`) | key caches, tasks | encrypt, decrypt, verify | directory | timeouts and late answers | – |
| Providers, screens, notifications | lists for display | – | all | – | – |
| HTTP plumbing, metrics, migrations, deployment | – | – | – | – | – |

`PROJECT.json` lists the same components with what is modelled of each, and the
hazards of the code at the lines where they bite.

## 2. Modules

| Module | What it is |
|---|---|
| `DeviceTrust` | registry and key directory of one account, one action per handler outcome |
| `DeviceLifecycle` | what the registry promises: statuses and who vouched for whom, nothing else |
| `DeviceTrustRates` | `DeviceTrust` with a log of the challenges issued, to state their rates |
| `DeviceTrust_proofs` | the registry's invariants and its refinement of `DeviceLifecycle`, proved |
| `DeviceDirectory_proofs` | the key directory's invariants and what is final about challenges, proved |
| `DeviceTrustRates_proofs` | the rates and the outstanding bound of both kinds of challenges, proved |
| `RowLocks` | PostgreSQL's row locks as the handlers use them: which modes exclude one another, who is in a cycle |
| `CircleTransactions` | the handlers of one circle as scripts of SQL statements: permissions, locks, commits, conflicts, retries |
| `CircleLedger` | what those handlers promise: one atomic, permitted operation each |
| `CircleTransactions_proofs` | its refinement of `CircleLedger` and its other safety properties, proved |
| `Presence` | circle rooms and presence words in the Messaging process |
| `Presence_proofs` | its four invariants, proved |
| `SocketGateway` | handshake, slots, rooms and revocation in the Messaging process |
| `SocketGateway_proofs` | its types, its two caps and the counting of slots, proved |
| `BootstrapGrants` | Auth's grant route: memory counter, snapshot, lock |
| `BootstrapGrants_proofs` | its types and the bound on the overshoot, proved |
| `RealtimeClient` | the app's Socket.IO client: connecting, reconnecting, subscriptions, revocation |
| `RealtimeClient_proofs` | its type invariant and two safety invariants, proved |
| `MCDeviceTrust`, `MCDeviceTrustRates`, `MCCircleTransactions`, `MCPresence`, `MCSocketGateway`, `MCBootstrapGrants` | values and symmetry sets for TLC; each `.cfg` is one run |

Operators named `M_X` stand before `X` and are never used by the specification:
each is `X` with a plausible mistake, kept to show that a property notices it.

### DeviceTrust

One account is enough: every statement filters on `user_id`, and no row is
shared by two accounts. Each handler runs in one SERIALIZABLE transaction that
locks the account's row of `users` first (`runInTransaction`, `M/plugins/db.ts`
55-86). A transaction whose snapshot is older than the lock it waited for is
aborted by PostgreSQL and retried, so a handler that commits is one atomic
action. A handler that gives up after its retries changes nothing and is not an
action.

Outside the transaction is `requireActiveDevice`: it reads the device row before
the handler starts. `authed` holds the devices with such a request under way; a
device may be revoked while it is there. That gap is what makes the second check
inside the transaction necessary, and dropping that check is one of the mutants.

| State | Code |
|---|---|
| `status`, `identityKey`, `activated` | `account_devices.status`, `.identity_public_key`, `.activated_at IS NOT NULL` |
| `grants`, `regs`, `approvals` | `device_bootstrap_grants`, `device_registration_challenges`, `device_approval_challenges` |
| `keys`, `history`, `memberOf` | `group_device_keys`, `group_device_key_history`, `user_groups` |
| `now` | `NOW()`; the clock of the Node process is taken to agree |
| `voucher` | history variable, in no table: the device whose decision activated this one |

A challenge carries `end`, which is `COALESCE(consumed_at, expires_at)`, and
`result`, `"open"` until `consumed_at` is set. The identity key version is the
constant 1 in the code and is left out. A refused proof or decision consumes its
challenge with the reason; the refusals are tested in the order of the code.
Signatures are `valid` or not; a publication whose binding signature is wrong
changes nothing and is no action. `Init` is an empty registry over key rows the
prototype left, as the migration `device_key_propagation.sql` rewrote them; it
leaves their versions alone, so a row may begin at any.

`DeviceLifecycle` keeps `status` and `voucher` alone: bootstrap once, enrol
while somebody can answer, approve by an active device, close by *another*
active device. `DeviceTrust` implements it.

### CircleTransactions

`DeviceTrust` takes a committed handler as one step; this module looks inside.
A handler is a script: a sequence of statements, each a sequence of rows with a
lock mode and the values the row must have. `OpenStatement` is the statement's
search in the committed state (`Found`); if it finds nothing, the handler refuses
at once with 403, 404 or 409. Otherwise `LockRow` takes the rows that were found
one by one in the order of the `FOR` clause and looks again at each row it got,
as READ COMMITTED does, while `SkipRow` passes over those that were not. Only at
the end of the statement does the handler see what is lacking (`unmet`) and
refuse: `canSend`, one of whose recipients has changed keys, has by then waited
for the rows of the others, and may have been in a deadlock over them. A role, a
device's status or a key's version that the query does not mention is tested the
same way, on the row it returned. `Commit` makes everything visible. A handler
waits while another holds a mode that `Excludes` the wanted one, and
`DeadlockDetected` lets PostgreSQL abort any member of a cycle.

| State | Code |
|---|---|
| `call`, `phase`, `at`, `outcome` | the request, where `runInTransaction` and its work are, the answer |
| `unmet` | rows of the open statement that it did not find, or found changed once locked |
| `held`, `busy` | row locks, connections of the `pg` pool |
| `attempt`, `stale` | the `for` loop of `runInTransaction`; rows committed since a SERIALIZABLE snapshot |
| `db` | `user_groups`, `join_requests`, `conversation_users` of all conversations, `group_device_keys`, `account_devices`, `messages` of one circle |
| `shown` | what the reading routes answered, for whom |

Publications and revocations appear with the rows they lock and write, because
they meet `canSend` there from the other side; their own rules are
`DeviceTrust`'s. The versions a publication offers and the keys a message is
sealed for are fixed by the call, as in the requests: a call that has become
stale is refused. Left as they are read: PostgreSQL aborts some SERIALIZABLE
transactions without a conflict on a row (a false positive looks like one more
retry), and waiters of one row may overtake one another. A publication needs the
row of an earlier one; the first publication of a device takes no row lock on
its key and is in `DeviceTrust` alone. A revocation also locks and supersedes
challenges of its account (`account.deviceApprovals.ts` 378-403, 519-530); no
other handler here touches those rows, and the account's own handlers wait for one
another at the account, so `RevokeScript` leaves them out.

`CircleLedger` knows no locks. `asking` is the set of users with a pending
request, `version` the version of a key that can be sealed for, or 0. That
`CircleTransactions` implements it says that each commit is an operation that was
permitted *at the commit*, by rows that had not changed since they were read.

### Presence

An event handler runs at once and what needs the circles of a user waits for a
query, on whichever connection of the pool. A task is such a query: `since` is
what the user had when it was sent, and the answer is that or more
(`Answers`), because the query runs at some time before it is acted on and
memberships only grow. The same word, `tasks`, holds what follows a commit: the
announcement of an accepted member and the rest of `POST /api/groups`, which run
after other code may have run.

| State | Code |
|---|---|
| `members`, `owner`, `phase` | `user_groups`; the account of a socket and its connection |
| `online` | the map of `M/services/presence.ts` |
| `rooms` | `group:<id>` rooms in Socket.IO |
| `told`, `missed`, `newest`, `changes` | history: the last `presence:update` a socket got about a user, users of whom a later one passed it by, the event the newest one sent stems from, and a clock of connections |
| `unjoined`, `failures` | queries that ended in a `catch` |

A word remembers from which event it stems (`asOf`), so that the property can
tell a word that is wrong from one that was overtaken. A socket that is connected
at first knows who is online in its circles.

### SocketGateway

The process runs one stretch of code at a time, so an action is what happens
between two awaits. `ReadDevice` is the database answering, `Reserve` the code
resumed by it, `Connect` Socket.IO's next tick. Between `Reserve` and that tick
no input is read, so a transport does not close there. Socket.IO looks at the
transport once more before it connects (`Abandon`). `Revoke` is the commit in
`DeviceTrust!CloseDevice`; `DisconnectDevice` the loop that follows it. A
subscription that asks for several conversations is `Subscribe` (what the ACL
grants) and `JoinRooms` (limit and join); a single one is a set of one element.
The code's single subscription tests `rooms` before it joins in the same way.

A handshake whose client left before the device was read goes on to the next
look at the transport, as in the code. `Restart` empties everything but the
database.

### BootstrapGrants

`Begin` takes the snapshot and `NOW()` of the SQL statement, `Finish` is the
statement with the account's advisory lock held, which makes it atomic against
the others. Under READ COMMITTED the snapshot is older than the lock. The
cleanup of grants older than seven days never reaches a ten-minute window and is
left out. The window of the limiter opens at its first call, as in
`@fastify/rate-limit`, and is lost with the process. `Restart` of Auth lets each
statement already sent go on, since PostgreSQL commits it by itself, or be lost
before it arrives. `peak` is a history variable: the most statements ever running at one
time. Which grants are spent is `DeviceTrust`'s matter.

### RealtimeClient

A Dart isolate also runs one stretch of code at a time. `ConnectInternal` is
`_connectInternal` up to its first await, `TokenChecked` the part between its two
awaits, `Open` and `AuthFailed` how it ends; `flights` counts the calls suspended
in each await, because `disconnect()` lets a second one start beside the first.

| State | Code |
|---|---|
| `status`, `shouldReconnect`, `subscribed`, `waiting` | `_status`, `_shouldReconnect`, `_subscribedConversations`, `_pendingSubscriptions` |
| `current`, `transport` | `_socket` and what socket_io_client does for each socket object |
| `listening` | `_networkSubscription != null` |
| `initialized`, `checks` | `_socketInitialized` of `main.dart`; `hasInternetConnection()` calls that lead to `connect` |
| `canUseMessaging`, `refreshing`, `authorized` | `AuthProvider`, its refreshes under way, the server's `account_devices` row |
| `batches`, `asked` | batch requests without an outcome; what the server's session was asked for |

socket_io_client is external: an object tries again while `waiting` and stops
when `ended` (five attempts, not counted here). Only the current object has
listeners. The network is not a variable: its listener does nothing when it goes,
and `hasInternetConnection` says nothing about the server, so `Checked` may go
either way. A member of `Convs` stands for one conversation or several; whether a
list is long enough for a batch is open. Refreshes of the trust overlap, and each
answers with what the server read for it, however old (`TrustRead`,
`TrustRefreshed`); those at the same point count as one. The requests that a list
of more than a hundred conversations is cut into (`subscribeConversationsBatch`
546-581) follow one another and are one request here, so a connection that is
lost between two of them is a connection that is lost during one. What is left out is the heartbeat, which
only reads `status`, sign-out, and two operations nothing calls
(`unsubscribeConversation`, `cleanupSubscriptions`).

## 3. Runs

TLC reports a deadlock where users stop acting and clocks or ids are used up, so
the runs of the server's modules have `CHECK_DEADLOCK FALSE`; `HandshakeEnds`
covers the waiting that would matter. The client never runs out of steps and is
checked for deadlock.

| Run | Checks | Bounds and why they are enough |
|---|---|---|
| `DeviceTrust_Keys` | `TypeOK`, `TrustIsRooted`, `KeysFollowDevice`, `VersionNamesOneKey`, `HistoryContiguous`, `DirectoryNeverForgets` | 2 devices, 2 grants, a circle, 2 materials, versions to 3, one tick, one challenge per subject: two rotations, a retry, a legacy row at any version, a revocation between check and publication |
| `DeviceTrust_Registry` | `TrustChecksHold`, `IdentityUnique`, `AccountNeverLockedOut`, `OpenApprovalIsCurrent`, `ImplementsLifecycle`, `OneOpenPerSubject`, `VerdictsAreFinal` | 3 devices, 3 keys, a grant, ids for 2 registrations and 3 approvals at a time (a purge frees one), no circle; TTL 1, window and retention 2 on a clock of 4: two devices want one key, mutual revocation, two approvers on one target, a device approved by an approved one, challenges that expire, are superseded and are purged, of both kinds |
| `DeviceTrust_Rates` | `ChallengeRate`, `OutstandingBounded` | 3 devices, 3 registrations and 2 approvals at a time; limits of 2 per account, 1 per subject and 1 outstanding; TTL 1, window and retention 2 on a clock of 3: a row leaves its window, is purged and is counted no more while new ones are issued, in both tables. Two approvals at a time do not reach the account's limit of approvals; the theorem does not depend on it |
| `CircleTransactions_Mix` | `TypeOK`, `ErrorsAreConflicts`, `CircleOrderIsStable`, `ShownIsAllowed`, `DecisionsStand`, `ImplementsLedger`, `EveryCallAnswered` | every choice of 3 calls from three lists (joining and managing; talking; the account's side), 2 connections for 3 handlers, 1 retry where the code has 2: two handlers wait for one another while the third waits for a connection, a handler waits for rows before it refuses, and one meets a conflict again on its last attempt. With two connections no cycle is longer than two; `OneOrder` covers every length |
| `Presence_Rooms` | `TypeOK`, `NoMemberMissesRoom`, `PresenceStaysInCircle`, `SettledViewIsTrue` | 3 sockets, 3 accounts, 2 circles, four worlds with 1 to 3 commits, disconnections and failed queries: two devices of one account, accounts that share only one of two circles, a member let in while connecting |
| `SocketGateway_Process` | `TypeOK`, `SocketCap`, `PendingCounted`, `RoomCap`, `RevocationClosesSockets`, `HandshakeEnds` | 3 sockets of one device with 2 slots, 2 conversations and room for 1, no symmetry: three handshakes contend for two slots, a revocation meets two open sockets, subscriptions that overlap at their ACL query exceed the room only together. One device, because no property relates two; the theorems cover any number |
| `BootstrapGrants_Overlap` | `TypeOK`, `OvershootBounded` | 5 calls, limits of 2, a window of 2 on a clock of 3, restarts |
| `RealtimeClient_Connect` | `TypeOK`, `OneSocket`, `ConnectedHasSocket`, `NeverStranded`, `QuietAfterRevocation`, `BatchEnds` | 2 overlapping calls of `_connectInternal` (`MaxFlights`), 2 socket objects with a transport (`MaxSockets`), one pending timer (`MaxTimers`), conversations as one: an attempt outlives a disconnect and meets its successor, a request meets lost sessions, reconnections, its timeout and a second request. With `MaxRefreshes` 1 a user's retry waits for the refresh under way; refreshes overlap where a refused handshake or the event `device:revoked` asks for another, and one that read the row before a revocation answers after it. The theorems hold for any of these bounds |

The limits of the code (8, 20, 6; 5 sockets; 1 000 rooms; 5 grants) are
constants of the models and are set low so that a few steps reach them
(`PoolSize` and `MaxRetries` of `CircleTransactions` too). TTL,
window and retention keep their order (TTL ≤ window ≤ retention).
`MaxNow`, `MaxVersion`, `MaxFlights`, `MaxTimers`, `MaxRefreshes` and the `events`
of a world are bounds of the models only.

Four runs are expected to fail; each shows the code doing something a document
of the repository rules out:

| Run | Property | What happens |
|---|---|---|
| `SocketGateway_Revoked` | `RevokedHasNoSocket` | a handshake that read `active` connects after the disconnect loop |
| `SocketGateway_Leak` | `PendingIsReal` | a client that leaves during the query takes a slot with it |
| `BootstrapGrants_Rate` | `GrantRate` | statements waiting for the lock do not count one another |
| `RealtimeClient_Resubscribe` | `Resubscribed` | on connecting, the resubscription skips exactly the conversations it is for |

`PendingCounted` and `OvershootBounded` are what does hold beside the second and
the third: the counter never forgets a handshake under way, though it may count one
that is gone.

Two more disagreements are in the models without a run. `AuthFailed` leaves the
status at `connecting` when `getMessagingSocketAuth` throws, and `connect` then
returns at once for ever, also on the return to the foreground that
`docs/architecture/FUNCTIONAL_REFERENCE.md` 63 describes. And a row of the
prototype at version 1 is rotated straight to a signed version 2
(`M/routes/keys.devices.ts` 303-346), where
`docs/security/DEVICE_TRUST_PROTOCOL_V1.md` 277 requires the first signed publication
to carry version 1.

`SettledViewIsTrue` names its excuses (`Excused`), and they are the finding of
that module: even when all is quiet a socket may hold a wrong word, because a
newer one passed it by or came before an older one, because an acceptance
announces one device online without looking, or because a roster says online
whatever the count has become; and it may know nothing of a user that is online,
because all that was sent about the user passed it by. That is how a member that
is let in begins: its acceptance is announced to the circle, and nobody tells it
who is there. No document of the repository promises otherwise.

**Fairness.** `SocketGateway` assumes weak fairness of the disconnect loop, of
the database's answer, of the middleware that resumes on it, and of Socket.IO's
next tick. These are what the event loop and the database do by themselves.
Nothing is assumed of users, clients or the network. `RealtimeClient` assumes that
awaits end (a biometric prompt included: the operating system ends it), that
timers fire, that a requested refresh of the trust is answered or fails, and, strongly, that a
handshake tried again and again is answered in the end. Frames are not fair: in
the background none is drawn. `CircleTransactions` assumes that some handler goes on while one
can, and not which: PostgreSQL answers statements, wakes waiters and detects
deadlocks. Since every script is finite and retries are bounded, that is enough.
The other modules state safety only.

## 4. Proofs

Every invariant and every action property that a passing run checks, and both
refinements, are proved for all values of the constants. The bounds of the models
(`MaxNow`, `MaxVersion`, ...) are constants too: what is proved holds for any of
them. Only liveness is left to TLC.

| Module | Theorem | States, for every behaviour of the specification |
|---|---|---|
| `DeviceTrust_proofs` | `TypeCorrect`, `ChecksHold` | `TypeOK`, `TrustChecksHold` |
| | `NeverLockedOut`, `OneRoot` | `AccountNeverLockedOut`, `TrustIsRooted` |
| | `ApprovalsCurrent`, `KeysUnique`, `KeysFollow` | `OpenApprovalIsCurrent`, `IdentityUnique`, `KeysFollowDevice` |
| | `Implements` | `ImplementsLifecycle` |
| `DeviceDirectory_proofs` | `HistoryHasNoGap`, `VersionsName` | `HistoryContiguous`, `VersionNamesOneKey` |
| | `NeverForgets` | `DirectoryNeverForgets` (an action property) |
| | `OneOpen`, `Final` | `OneOpenPerSubject`, `VerdictsAreFinal` (an action property) |
| `DeviceTrustRates_proofs` | `RateHolds`, `BoundHolds` | `ChallengeRate`, `OutstandingBounded` |
| `CircleTransactions_proofs` | `Atomic` | `ImplementsLedger` |
| | `TypeCorrect`, `Decided` | `TypeOK`, `DecisionsStand` (an action property) |
| | `OnlyInsiders`, `OnlyConflictsFail`, `OneOrder` | `ShownIsAllowed`, `ErrorsAreConflicts`, `CircleOrderIsStable` |
| `Presence_proofs` | `TypeCorrect`, `RoomsComplete` | `TypeOK`, `NoMemberMissesRoom` |
| | `PresenceInside`, `ViewSettles` | `PresenceStaysInCircle`, `SettledViewIsTrue` |
| `SocketGateway_proofs` | `TypeCorrect`, `NoSlotForgotten` | `TypeOK`, `PendingCounted` |
| | `CapHolds`, `RoomsHold` | `SocketCap`, `RoomCap` |
| `BootstrapGrants_proofs` | `TypeCorrect`, `OvershootHolds` | `TypeOK`, `OvershootBounded` |
| `RealtimeClient_proofs` | `TypeSafe`, `OneSocketOnly`, `ConnectedHasOne` | `TypeOK`, `OneSocket`, `ConnectedHasSocket` |

### The assumptions

Each is an `ASSUME` of the module and TLC evaluates it. `DeviceTrust`: the null
values are no values, TTL ≤ window ≤ retention, the limits are numbers.
`SocketGateway`: the limits are numbers, a device has a slot at least, and the
conversations are finitely many, so that the rooms of a socket can be counted.
`BootstrapGrants`: likewise, and the requests are finitely many. `Presence`: the
worlds are well typed and the sockets finitely many. `RealtimeClient`: its bounds
are positive. `CircleTransactions`: a device has an account and a request an
asker (foreign keys); there are finitely many handlers and one connection at
least; a call is one a route can be asked for (`CallTypes`: `canSend` refuses a
message for nobody, `revoke` names another device of the account); the tables a
scenario begins with are what the routes leave (`Databases`: one pending request
of a user, none of a member; conversations and usable keys of members); and
`ORDER BY` gives every row once (`UserOrder`, `KeyOrder`).

### The registry and its directory

`TypeOK` is not inductive alone: `RegistrationChallenge` and `ApprovalChallenge`
copy the key of a row, which is a key only if the row exists. Together with
`TrustChecksHold` it is, and that pair is the invariant everything else rests
on. `AccountNeverLockedOut` needs in addition that the approver of a challenge
is not its target (`ApproverIsOther`): the active device that signs a revocation
is then left standing. `TrustIsRooted` is inductive over those, because a device
is activated only by one already activated, so a set closed under vouchers
either lacks the new device or holds its voucher too.

Of the directory, `HistoryContiguous` is inductive together with `DirectoryRows`:
only rows a device has signed are active, and the history has one row per circle,
device and version. A rotation archives version *n* and goes on to *n* + 1, so
nothing is skipped and a version that is archived is below the current one; with
the primary key of the history this is `VersionNamesOneKey`.
`DirectoryNeverForgets` follows step by step, since the row that is overwritten
is archived in the same step.

`ChallengeRate` counts challenges that were issued, the code counts rows. The
invariant `CountedOK` joins them, for each table: at any later time the challenges
issued in the window are no more than the rows created in it, because what is
purged has left every window (window ≤ retention). An issue then adds one to both
after the code found the number of rows below its limit. `OutstandingBounded` needs
no log: the code counts the open challenges but the one it is about to supersede,
and an insert adds one to those.

### The transactions of a circle

The argument is two-phase locking, in the invariant `Locking`:

- `HeldByScript`: a handler holds the locks of the rows its script has passed;
- `Exclusive`: no row is held twice in modes that exclude each other;
- `RowsKept`: a row that a handler locked still has a value it qualified with,
  unless the open statement already lacks it (`Lacks`) and will be refused.

`RowsKept` is the heart. It is kept because a commit changes only rows its own
script locked in a mode that excludes the mode of anyone else who relies on
them (`CommitKeeps`, one case for each kind of row and handler). So a handler
that commits knows, at that instant, everything its statements looked at
(`AskGrants`, `HandleGrants`, ..., `SendGrants`), and that is the guard of its step
in `CircleLedger`: `Atomic`.

Two rules are about rows that are *not* there and cannot be locked: who asks is
no member, and nobody asks twice. They hold because both handlers that could
break them hold the circle's own row from their first statement on (`Doors`:
`AskersOutside`, `OnePending`). `ErrorsAreConflicts` uses the same doors: an
insert meets a unique index only where the script has a refusal for it.

`CircleOrderIsStable` first classifies every row of every script by kind, mode
and place (`RowRule`, `ScriptRule`). A handler of the circle that waits is at a
level (`Level`): a lock on the circle or a read mark at the top, then a role
update, then a reader's row, then the rest, joining last. If one waits for another that waits
in turn, the level falls (`LevelsFall`), so no cycle closes among them; and whoever
is deadlocked waits for somebody deadlocked (`CyclesGoOn`).

### The Messaging process

In `Presence`, `TypeOK` needs that a task that will put sockets in a room speaks
of a membership that is committed (`TasksOK`). The steps fall in two kinds: what
follows a query leaves accounts, memberships and connections alone and only adds
to rooms (`Continues`); everything else keeps `TypeOK` and takes no membership
back (`Happens`). `RoomsComplete` then rests on one observation: a socket and a
circle are brought together by two events, the connection and the membership,
and whichever is second leaves a task that knows of both.

`SettledViewIsTrue` says nothing of states in which something is under way, so the
invariant (`KnownInv`) says what is owed in them: words are true of the event
they stem from (`WordsTrue`), the last change of a user has been sent or is in a
task (`LastSent`), and a user that is online has been told to every socket or
sent past it, or a roster or a word about it is still to come
(`EveryoneListed`). Without tasks and failures, the theorem is left.

In `SocketGateway` the invariant is `SlotsOK`: connected sockets and pending slots
of a device together are within the cap, and every handshake under way is
counted. `SocketCap` alone is not inductive, since connecting does not look at
the cap again.

In `BootstrapGrants` the statements are ordered by the last of them that began
(`HasLast`): of the grants in a window, the one whose statement began last saw all
of them but those of statements that ran when it began, and it found fewer than
the limit. `peak` bounds the rest.

### The client

`TypeOK` of `RealtimeClient` needs that the two counts of suspended calls are
bounded together (`CallsBounded`); `OneSocket` is inductive over it, because every
step does one of four things to `transport` and `current` (`Link`) and the only
one that makes a new object goes through `Disposed`.

### Only checked by TLC

`EveryCallAnswered`, `RevocationClosesSockets`, `HandshakeEnds`, `NeverStranded`,
`QuietAfterRevocation` and `BatchEnds`: liveness under fairness is out of the
prover's reach. So is what a recursive definition computes for every input;
there is none in these modules (`Deadlocked` of `RowLocks` quantifies over closed
sets instead).

## 5. Not modelled, and the plan

In order of what it would show:

1. `KeyDirectoryCache`: memory, SQLite, requests in flight, invalidations; with
   the directory of `DeviceTrust` as what it caches.
2. `RealtimeClient` with the rooms of `SocketGateway`: what the server's session
   is in against what the client believes; the run for `AuthFailed`.
3. `AuthClient` (logout beside a refresh), `MessagePages` (cursors of whole seconds).
4. Presence in conversation rooms, which needs `Presence` and `SocketGateway`
   composed; the event quotas of the gateway.
5. Proofs: the two halves of `RevokedHasNoSocket` that hold (a socket of a revoked
   device stems from a handshake that read the row before the commit); what
   `CircleLedger` and `DeviceLifecycle` promise beyond their steps (membership only
   by decision, versions that only grow); the safety half of `NeverStranded` (a
   disconnected client has a timer or a network listener).

The parts of the client in 1 and 3 keep their state in memory and SQLite of one
phone and meet the server only through the routes modelled here, so they come
after the server.

Left out for good: the message queue of the client, which no send path uses
(`docs/architecture/FUNCTIONAL_REFERENCE.md` 68, 314), cryptography over bytes, formatting and validation of
requests, token formats, logs, metrics, screens, deployment.
