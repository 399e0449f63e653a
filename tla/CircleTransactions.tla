------------------------- MODULE CircleTransactions -------------------------
(***************************************************************************)
(* The Messaging handlers that read and write one circle, as the database  *)
(* transactions they run: join requests and roles (groups.ts), one         *)
(* conversation, its new sisters and its read marks (conversations.ts),    *)
(* messages (messages.v2.ts) and the permissions they lock (acl.ts), next  *)
(* to the publications and revocations that lock the same rows in another  *)
(* order (keys.devices.ts, account.deviceApprovals.ts).                    *)
(*                                                                         *)
(* A handler is a script of SQL statements.  A statement looks for its     *)
(* rows in the committed state at its start, then locks those it found,    *)
(* one by one in the order of its FOR clause, and looks again at each row  *)
(* it got (READ COMMITTED).  When some row was not found, or is not what   *)
(* the handler asks for, the handler refuses once the statement is done.   *)
(* Everything written becomes visible at COMMIT.                           *)
(***************************************************************************)
EXTENDS RowLocks, Naturals, Sequences, SequencesExt

CONSTANTS
    Users, Devices,
    DeviceUser,    \* the account of a device
    Keys,          \* the keys that messages name: <<device, version>>
    UserOrder,     \* any set of users, in the order of their ids
    KeyOrder,      \* any set of keys, in the order of account and device
    RequestIds,    \* rows of join_requests
    Asker,         \* the user of a request row
    Thread,        \* the members of the conversation
    Procs,         \* handlers in flight
    Scenarios,     \* the calls they run and the tables they find: [call, db]
    PoolSize,      \* connections of the pg pool
    MaxRetries     \* maxRetries of runInTransaction (2)

Roles == {"owner", "admin", "member"}
Managers == {"owner", "admin"}

\* what the handlers can be asked: canSend refuses a message for nobody, and
\* a device is revoked from another one of its account
CallTypes ==
    [kind : {"ask", "read"}, user : Users]
    \cup [kind : {"handle"}, user : Users, request : RequestIds,
          verdict : {"accepted", "rejected"}]
    \cup [kind : {"role"}, user : Users, member : Users, role : {"admin", "member"}]
    \cup [kind : {"converse"}, user : Users, members : SUBSET Users]
    \cup [kind : {"send"}, message : [id : STRING, from : Keys,
                                     to : SUBSET Keys \ {{}}]]
    \cup [kind : {"publish"}, device : Devices, version : Nat]
    \cup {c \in [kind : {"revoke"}, device : Devices, target : Devices] :
            c.device # c.target /\ DeviceUser[c.device] = DeviceUser[c.target]}
    \cup [kind : {"show"}, user : Users, what : STRING]

\* what the tables hold when the handlers begin: one pending request of a user
\* at most, and none of a member; conversations and usable keys of members
Databases ==
    {d \in [role    : [Users -> Roles \cup {"none"}],
            request : [RequestIds -> {"none", "pending", "accepted", "rejected"}],
            threads : SUBSET SUBSET Users,
            key     : [Devices -> {"active", "revoked"} \X Nat],
            device  : [Devices -> {"active", "revoked"}],
            stored  : {{}}] :
        /\ Thread \in d.threads
        /\ \A u \in UNION d.threads : d.role[u] # "none"
        /\ \A r \in RequestIds : d.request[r] = "pending" =>
              /\ d.role[Asker[r]] = "none"
              /\ \A x \in RequestIds \ {r} :
                    d.request[x] = "pending" => Asker[x] # Asker[r]
        /\ \A k \in Devices : d.key[k][1] = "active" =>
              d.role[DeviceUser[k]] # "none"}

ASSUME HandlersAssumption ==
    /\ DeviceUser \in [Devices -> Users]
    /\ Keys \subseteq Devices \X Nat
    /\ Asker \in [RequestIds -> Users]
    /\ IsFiniteSet(Procs)
    /\ PoolSize \in Nat \ {0} /\ MaxRetries \in Nat

ASSUME ScenariosAssumption ==
    \A s \in Scenarios : s.call \in [Procs -> CallTypes] /\ s.db \in Databases

\* ORDER BY gives every row once
ASSUME OrderAssumption ==
    /\ UserOrder \in [SUBSET Users -> Seq(Users)]
    /\ \A us \in SUBSET Users : Range(UserOrder[us]) = us
    /\ KeyOrder \in [SUBSET Keys -> Seq(Keys)]
    /\ \A ks \in SUBSET Keys : Range(KeyOrder[ks]) = ks

VARIABLES
    call,      \* what a handler was asked to do
    phase,     \* "queued", "opening", "locking", "checked" or "done"
    at,        \* its statement and the next row of it: [stmt, row]
    unmet,     \* the rows of that statement which do not qualify
    held,      \* its row locks: [row, mode]
    attempt,   \* retries so far
    stale,     \* rows committed by others since its SERIALIZABLE snapshot
    outcome,   \* "none", "ok", "refused" or "error"
    busy,      \* connections in use
    db,        \* the committed tables
    shown      \* <<user, what>> served by the reading routes

handler == <<phase, at, unmet, held, attempt, stale, outcome, busy>>
vars == <<call, handler, db, shown>>

----------------------------------------------------------------------------
(* Rows, and what a query can tell about their committed state *)

Circle == <<"group">>
Member(u) == <<"member", u>>          \* user_groups
Request(r) == <<"request", r>>
Asking(u) == <<"asking", u>>          \* uidx_join_requests_pending_group_user
Conversation == <<"conversation">>
Reader(u) == <<"reader", u>>          \* conversation_users
Key(d) == <<"key", d>>                \* group_device_keys
Device(d) == <<"device", d>>          \* account_devices
User(u) == <<"user", u>>
Message(m) == <<"message", m>>        \* uidx_messages_message_id

IsAsking(u) == \E r \in RequestIds : Asker[r] = u /\ db.request[r] = "pending"

Present(b) == IF b THEN "there" ELSE "absent"

Value(row) ==
    CASE row[1] = "member"  -> db.role[row[2]]
      [] row[1] = "request" -> db.request[row[2]]
      [] row[1] = "asking"  -> Present(IsAsking(row[2]))
      [] row[1] = "reader"  -> Present(row[2] \in Thread)
      [] row[1] = "key"     -> db.key[row[2]]
      [] row[1] = "device"  -> db.device[row[2]]
      [] row[1] = "message" -> Present(\E m \in db.stored : m.id = row[2])
      [] OTHER              -> "there"

\* a row of a statement: how it is locked, and the values it must have
Lock(row, mode, ok) == [row |-> row, mode |-> mode, ok |-> ok]

There(row, mode) == Lock(row, mode, {"there"})

----------------------------------------------------------------------------
(* Permissions (services/acl.ts) *)

\* GROUP_ROLE_PERMISSIONS, the permissions the handlers below ask for
Permitted(permission) ==
    CASE permission \in {"join-request:read", "join-request:handle"} -> Managers
      [] permission = "member-role:set" -> {"owner"}
      [] OTHER -> Roles

\* mutant: the handler forgets { lock: true }
M_AclMode == "read"

AclMode == "share"

\* getGroupRole: FOR SHARE OF g, ug
GroupRole(u, permission) ==
    <<There(Circle, AclMode), Lock(Member(u), AclMode, Permitted(permission))>>

\* getConversationAccess: FOR SHARE OF c, cu, g, ug
ConversationAccess(u) ==
    <<There(Conversation, AclMode), There(Reader(u), AclMode)>>
    \o GroupRole(u, "conversation:read")

\* canSend: FOR SHARE OF gdk, ad
SealedFor(k) ==
    <<Lock(Key(k[1]), AclMode, {<<"active", k[2]>>}),
      Lock(Device(k[1]), AclMode, {"active"})>>

\* canSend, one of the recipients: FOR SHARE OF c, cu, ug, gdk, ad
Recipient(k) ==
    <<There(Conversation, AclMode), There(Reader(DeviceUser[k[1]]), AclMode),
      Lock(Member(DeviceUser[k[1]]), AclMode, Roles)>> \o SealedFor(k)

\* canSend, ORDER BY expected.user_id, expected.device_id: five locks a row
Recipients(ks) ==
    [j \in 1..5 * Len(KeyOrder[ks]) |->
        Recipient(KeyOrder[ks][(j + 4) \div 5])[((j - 1) % 5) + 1]]

\* canCreateConversation: FOR SHARE OF ug, ORDER BY ug.user_id
AllMembers(us) ==
    [i \in 1..Len(UserOrder[us]) |->
        Lock(Member(UserOrder[us][i]), AclMode, Roles)]

\* the locks the foreign keys of an inserted row take
References(rows) == [i \in 1..Len(rows) |-> There(rows[i], "key-share")]

----------------------------------------------------------------------------
(* The statements of each transaction *)

\* mutant: the circle is not locked
M_LockGroup == There(Circle, "share")

\* lockGroup: FOR UPDATE
LockGroup == There(Circle, "update")

\* createJoinRequest
AskScript(c) ==
    << <<LockGroup>>,
       <<Lock(Member(c.user), "read", {"none"})>>,
       <<Lock(Asking(c.user), "read", {"absent"})>>,
       <<Lock(Asking(c.user), "insert", {"absent"})>>
          \o References(<<Circle, User(c.user)>>) >>

\* mutant: the request is found by its id alone
M_PendingRequest(r) == Lock(Request(r), "update",
                            {"pending", "accepted", "rejected"})

PendingRequest(r) == Lock(Request(r), "update", {"pending"})

\* handleJoinRequest; INSERT ... ON CONFLICT DO NOTHING accepts any role
HandleScript(c) ==
    << <<LockGroup>>,
       GroupRole(c.user, "join-request:handle"),
       <<PendingRequest(c.request)>> >>
    \o (IF c.verdict = "accepted"
        THEN << <<Lock(Member(Asker[c.request]), "insert", Roles \cup {"none"})>>
                   \o References(<<User(Asker[c.request]), Circle>>) >>
        ELSE <<>>)
    \o << References(<<User(c.user)>>) >>

\* PATCH .../members/:memberId/role
RoleScript(c) ==
    << GroupRole(c.user, "member-role:set"),
       <<Lock(Member(c.member), "no-key-update", {"admin", "member"})>> >>

\* POST /api/conversations
ConverseScript(c) ==
    << GroupRole(c.user, "conversation:create"),
       AllMembers(c.members \cup {c.user}),
       References(<<Circle, User(c.user)>>),
       References([i \in 1..Len(UserOrder[c.members \cup {c.user}]) |->
                     User(UserOrder[c.members \cup {c.user}][i])]) >>

\* mutant: the row to update is first only shared
M_ReadScript(c) ==
    << <<There(Reader(c.user), "share")>> \o GroupRole(c.user, "conversation:read"),
       <<There(Reader(c.user), "no-key-update")>> >>

\* markConversationRead: FOR UPDATE OF cu FOR SHARE OF c, g, ug
Authorized(u) ==
    <<There(Reader(u), "update"), There(Conversation, "share"),
      There(Circle, "share"), Lock(Member(u), "share", Roles)>>

\* POST /api/conversations/:id/read
ReadScript(c) == << Authorized(c.user) >>

\* POST /api/messages: canSend, then the INSERT
SendScript(c) ==
    << ConversationAccess(DeviceUser[c.message.from[1]]),
       SealedFor(c.message.from),
       Recipients(c.message.to),
       <<Lock(Message(c.message.id), "insert", {"absent"})>>
          \o References(<<Conversation, User(DeviceUser[c.message.from[1]])>>) >>

\* POST .../keys/group/:groupId/devices with the next version
PublishScript(c) ==
    << <<There(User(DeviceUser[c.device]), "update")>>,
       <<Lock(Device(c.device), "update", {"active"})>>,
       <<There(Circle, "share"), Lock(Member(DeviceUser[c.device]), "share", Roles)>>,
       <<Lock(Key(c.device), "update", {<<"active", c.version - 1>>})>> >>

\* versions begin at 1, and each handler publishes one at most
MaxVersion == Cardinality(Procs) + 1

\* POST .../approvals/:id/proof of a revocation
RevokeScript(c) ==
    << <<There(User(DeviceUser[c.device]), "update")>>,
       <<Lock(Device(c.device), "update", {"active"})>>,
       <<Lock(Device(c.target), "update", {"active"})>>,
       <<Lock(Key(c.target), "no-key-update",
              {"active", "revoked"} \X (1..MaxVersion))>> >>

Script(c) ==
    CASE c.kind = "ask"      -> AskScript(c)
      [] c.kind = "handle"   -> HandleScript(c)
      [] c.kind = "role"     -> RoleScript(c)
      [] c.kind = "converse" -> ConverseScript(c)
      [] c.kind = "read"     -> ReadScript(c)
      [] c.kind = "send"     -> SendScript(c)
      [] c.kind = "publish"  -> PublishScript(c)
      [] c.kind = "revoke"   -> RevokeScript(c)

Calls == UNION {Range(s.call) : s \in Scenarios}

Scripts == [c \in Calls |->
              IF c.kind = "show" THEN <<>> ELSE Script(c)]

DeviceKinds == {"publish", "revoke"}

Serializable(p) == call[p].kind \in DeviceKinds

----------------------------------------------------------------------------
(* What COMMIT makes visible *)

Committed(c) ==
    CASE c.kind = "ask" ->
           {[db EXCEPT !.request[r] = "pending"] :
               r \in {x \in RequestIds :
                        Asker[x] = c.user /\ db.request[x] = "none"}}
      [] c.kind = "handle" ->
           {[db EXCEPT !.request[c.request] = c.verdict,
                       !.role[Asker[c.request]] =
                          IF c.verdict = "accepted" /\ @ = "none"
                          THEN "member" ELSE @]}
      [] c.kind = "role"     -> {[db EXCEPT !.role[c.member] = c.role]}
      [] c.kind = "converse" -> {[db EXCEPT !.threads = @ \cup {c.members \cup {c.user}}]}
      [] c.kind = "read"     -> {db}
      [] c.kind = "send"     -> {[db EXCEPT !.stored = @ \cup {c.message}]}
      [] c.kind = "publish"  -> {[db EXCEPT !.key[c.device] = <<"active", c.version>>]}
      [] c.kind = "revoke"   ->
           {[db EXCEPT !.device[c.target] = "revoked",
                       !.key[c.target] = <<"revoked", @[2]>>]}

\* the rows COMMIT replaces
Written(c) ==
    CASE c.kind = "handle"  -> {Request(c.request)}
      [] c.kind = "role"    -> {Member(c.member)}
      [] c.kind = "read"    -> {Reader(c.user)}
      [] c.kind = "publish" -> {Key(c.device)}
      [] c.kind = "revoke"  -> {Device(c.target), Key(c.target)}
      [] OTHER              -> {}

----------------------------------------------------------------------------
(* One handler *)

Statement(p) == Scripts[call[p]][at[p].stmt]

\* COMMIT is next
Finished(p) == at[p].stmt > Len(Scripts[call[p]])

NextRow(p) == [stmt |-> at[p].stmt, row |-> at[p].row + 1]
NextStatement(p) == [stmt |-> at[p].stmt + 1, row |-> 1]

Wanted(p) == Statement(p)[at[p].row]

Blockers(p) ==
    IF phase[p] = "locking" /\ at[p].row \notin unmet[p]
    THEN Holders(held, p, Wanted(p)) ELSE {}

\* SERIALIZABLE, and past the start of the first statement
HasSnapshot(p) ==
    /\ Serializable(p)
    /\ phase[p] = "locking" \/ (phase[p] = "opening" /\ at[p].stmt > 1)

\* ROLLBACK or COMMIT without a change, and the answer
Answer(p, result) ==
    /\ phase' = [phase EXCEPT ![p] = "done"]
    /\ outcome' = [outcome EXCEPT ![p] = result]
    /\ held' = [held EXCEPT ![p] = {}]
    /\ unmet' = [unmet EXCEPT ![p] = {}]
    /\ busy' = busy - 1

\* mutant: one retry too many
M_MayRetry(p) == attempt[p] <= MaxRetries

\* attempt >= maxRetries throws
MayRetry(p) == attempt[p] < MaxRetries

\* mutant: every attempt counts as the first
M_Counted(n) == n

\* for (let attempt = 0; ; attempt += 1)
Counted(n) == n + 1

\* 40P01 or 40001: ROLLBACK, give the connection back, and begin again or throw
Conflict(p) ==
    /\ IF MayRetry(p)
       THEN /\ phase' = [phase EXCEPT ![p] = "queued"]
            /\ attempt' = [attempt EXCEPT ![p] = Counted(@)]
            /\ held' = [held EXCEPT ![p] = {}]
            /\ unmet' = [unmet EXCEPT ![p] = {}]
            /\ busy' = busy - 1
            /\ UNCHANGED outcome
       ELSE Answer(p, "error") /\ UNCHANGED attempt
    /\ UNCHANGED <<call, at, stale, db, shown>>

\* pool.connect and BEGIN
Connect(p) ==
    /\ phase[p] = "queued"
    /\ call[p].kind # "show"
    /\ busy < PoolSize
    /\ busy' = busy + 1
    /\ phase' = [phase EXCEPT ![p] = "opening"]
    /\ at' = [at EXCEPT ![p] = [stmt |-> 1, row |-> 1]]
    /\ stale' = [stale EXCEPT ![p] = {}]
    /\ UNCHANGED <<call, unmet, held, attempt, outcome, db, shown>>

\* What a query finds at its start.  An INSERT meets its conflicts later; a
\* role, a device's status and a key's version are not in the query: they are
\* tested on the row it returns.
Found(l) ==
    \/ l.mode = "insert"
    \/ Value(l.row) \in l.ok
    \/ l.row[1] = "member" /\ l.mode = "share" /\ Value(l.row) \in Roles
    \/ l.row[1] \in {"device", "key"} /\ l.mode = "update"

\* the rows that are joined to row i: canSend joins five for each recipient,
\* canCreateConversation none, and the other queries return one row at most
Joined(p, i) ==
    CASE call[p].kind = "send" /\ at[p].stmt = 3 ->
           {j \in DOMAIN Statement(p) : (j + 4) \div 5 = (i + 4) \div 5}
      [] call[p].kind = "converse" /\ at[p].stmt = 2 -> {i}
      [] OTHER -> DOMAIN Statement(p)

Unfound(p) ==
    {i \in DOMAIN Statement(p) : \E j \in Joined(p, i) : ~Found(Statement(p)[j])}

ReadOnly(p) == \A i \in DOMAIN Statement(p) : Statement(p)[i].mode = "read"

OpenStatement(p) ==
    /\ phase[p] = "opening"
    /\ ~Finished(p)
    /\ \/ /\ Unfound(p) = DOMAIN Statement(p)
          /\ Answer(p, "refused") /\ UNCHANGED at
       \/ /\ Unfound(p) = {} /\ ReadOnly(p)
          /\ at' = [at EXCEPT ![p] = NextStatement(p)]
          /\ UNCHANGED <<phase, unmet, held, outcome, busy>>
       \/ /\ Unfound(p) # DOMAIN Statement(p) /\ ~ReadOnly(p)
          /\ phase' = [phase EXCEPT ![p] = "locking"]
          /\ unmet' = [unmet EXCEPT ![p] = Unfound(p)]
          /\ UNCHANGED <<at, held, outcome, busy>>
    /\ UNCHANGED <<call, attempt, stale, db, shown>>

\* On to the next row; after the last one the handler has the answer, and
\* refuses when a row is lacking.
Pass(p, locks, lacking) ==
    IF at[p].row < Len(Statement(p))
    THEN /\ at' = [at EXCEPT ![p] = NextRow(p)]
         /\ held' = [held EXCEPT ![p] = locks]
         /\ unmet' = [unmet EXCEPT ![p] = lacking]
         /\ UNCHANGED <<phase, outcome, busy>>
    ELSE IF lacking # {}
    THEN Answer(p, "refused") /\ UNCHANGED at
    ELSE /\ at' = [at EXCEPT ![p] = NextStatement(p)]
         /\ phase' = [phase EXCEPT ![p] = "opening"]
         /\ held' = [held EXCEPT ![p] = locks]
         /\ UNCHANGED <<unmet, outcome, busy>>

SkipRow(p) ==
    /\ phase[p] = "locking"
    /\ at[p].row \in unmet[p]
    /\ Pass(p, held[p], unmet[p])
    /\ UNCHANGED <<call, attempt, stale, db, shown>>

\* 409 for a known message id; the other unique index is not handled
Refusal(p) == IF Wanted(p).row[1] = "asking" THEN "error" ELSE "refused"

LockRow(p) ==
    LET good == Value(Wanted(p).row) \in Wanted(p).ok
    IN
    /\ phase[p] = "locking"
    /\ at[p].row \notin unmet[p]
    /\ Blockers(p) = {}
    /\ IF Wanted(p).row \in stale[p]
       THEN Conflict(p)
       ELSE /\ IF Wanted(p).mode = "insert" /\ ~good
               THEN Answer(p, Refusal(p)) /\ UNCHANGED at
               ELSE Pass(p, held[p] \cup {[row |-> Wanted(p).row, mode |-> Wanted(p).mode]},
                         IF good THEN unmet[p] ELSE unmet[p] \cup {at[p].row})
            /\ UNCHANGED <<call, attempt, stale, db, shown>>

Commit(p) ==
    /\ phase[p] = "opening"
    /\ Finished(p)
    /\ db' \in Committed(call[p])
    /\ stale' = [q \in Procs |->
                   IF q # p /\ HasSnapshot(q)
                   THEN stale[q] \cup Written(call[p]) ELSE stale[q]]
    /\ Answer(p, "ok")
    /\ UNCHANGED <<call, at, attempt, shown>>

\* deadlock_timeout: a waiter that finds itself in a cycle gives up
DeadlockDetected(p) ==
    /\ phase[p] = "locking"
    /\ p \in Deadlocked([q \in Procs |-> Blockers(q)])
    /\ Conflict(p)

----------------------------------------------------------------------------
(* The reading routes: a permission query, then the answer's own query, in *)
(* two transactions of their own.                                          *)

OfConversation == {"conversation:read", "readers:read"}

\* mutant: a conversation is checked as if it were the circle's
M_ThreadOnly(u, what) == TRUE

\* getConversationAccess asks for the row of conversation_users too
ThreadOnly(u, what) == what \in OfConversation => u \in Thread

\* hasGroupPermission, hasConversationPermission
Allowed(u, what) == db.role[u] \in Permitted(what) /\ ThreadOnly(u, what)

CheckAccess(p) ==
    /\ phase[p] = "queued" /\ call[p].kind = "show"
    /\ busy < PoolSize
    /\ IF Allowed(call[p].user, call[p].what)
       THEN phase' = [phase EXCEPT ![p] = "checked"] /\ UNCHANGED outcome
       ELSE /\ phase' = [phase EXCEPT ![p] = "done"]
            /\ outcome' = [outcome EXCEPT ![p] = "refused"]
    /\ UNCHANGED <<call, at, unmet, held, attempt, stale, busy, db, shown>>

ReadOut(p) ==
    /\ phase[p] = "checked"
    /\ busy < PoolSize
    /\ shown' = shown \cup {<<call[p].user, call[p].what>>}
    /\ phase' = [phase EXCEPT ![p] = "done"]
    /\ outcome' = [outcome EXCEPT ![p] = "ok"]
    /\ UNCHANGED <<call, at, unmet, held, attempt, stale, busy, db>>

----------------------------------------------------------------------------
Init ==
    /\ \E s \in Scenarios : call = s.call /\ db = s.db
    /\ phase = [p \in Procs |-> "queued"]
    /\ at = [p \in Procs |-> [stmt |-> 1, row |-> 1]]
    /\ unmet = [p \in Procs |-> {}]
    /\ held = [p \in Procs |-> {}]
    /\ attempt = [p \in Procs |-> 0]
    /\ stale = [p \in Procs |-> {}]
    /\ outcome = [p \in Procs |-> "none"]
    /\ busy = 0
    /\ shown = {}

Handler(p) ==
    \/ Connect(p) \/ OpenStatement(p) \/ SkipRow(p) \/ LockRow(p) \/ Commit(p)
    \/ DeadlockDetected(p)
    \/ CheckAccess(p) \/ ReadOut(p)

Next == \E p \in Procs : Handler(p)

\* As long as a handler can go on, some handler does: PostgreSQL answers
\* statements, wakes waiters and runs its deadlock detector.  Which one goes on
\* is left open; since every handler is short, none can be passed over for ever.
Spec == Init /\ [][Next]_vars /\ WF_vars(Next)

----------------------------------------------------------------------------
(* Properties *)

\* Every variable holds what the transactions may put there; in particular
\* the pool is never overdrawn and nobody retries more often than
\* runInTransaction allows (db.ts 55-86).
TypeOK ==
    /\ phase \in [Procs -> {"queued", "opening", "locking", "checked", "done"}]
    /\ outcome \in [Procs -> {"none", "ok", "refused", "error"}]
    /\ unmet \in [Procs -> SUBSET Nat]
    /\ attempt \in [Procs -> 0..MaxRetries]
    /\ busy = Cardinality({p \in Procs : phase[p] \in {"opening", "locking"}})
    /\ busy <= PoolSize
    /\ db.role \in [Users -> Roles \cup {"none"}]
    /\ db.request \in [RequestIds -> {"none", "pending", "accepted", "rejected"}]
    /\ db.device \in [Devices -> {"active", "revoked"}]

\* A request that fails has been through all its retries: no unique index and
\* no other unexpected error reaches the client (groups.ts 40-81: the lock on
\* the circle keeps uidx_join_requests_pending_group_user from being met).
ErrorsAreConflicts ==
    \A p \in Procs : outcome[p] = "error" => attempt[p] = MaxRetries

\* The controls of a circle lock their rows in one order, whoever runs beside
\* them: a cycle of waiting transactions always has a publication or a
\* revocation in it, which come from the account's side (acl.ts 87-298, 347).
CircleOrderIsStable ==
    LET waiting == Deadlocked([p \in Procs |-> Blockers(p)])
    IN waiting # {} => \E p \in waiting : call[p].kind \in DeviceKinds

\* What the reading routes serve concerns only those inside: the circle its
\* members, the conversation its own, although the permission was checked in
\* an earlier transaction (groups.ts 233-300, conversations.ts 114-211).
ShownIsAllowed ==
    \A x \in shown : /\ db.role[x[1]] # "none"
                     /\ x[2] \in OfConversation => x[1] \in Thread

\* An accepted or rejected join request stays so, whoever else decides about
\* it (groups.ts 84-139).
DecisionsStand ==
    [][\A r \in RequestIds :
          db.request[r] \in {"accepted", "rejected"}
          => db'.request[r] = db.request[r]]_vars

\* the circle key of d can be sealed for
Usable(d) == db.device[d] = "active" /\ db.key[d][1] = "active"

\* the messages the clients have sealed
Letters == {c.message : c \in {x \in Calls : x.kind = "send"}}

\* Whatever the interleaving of their statements, the transactions do what the
\* ledger does in one step each: nobody is admitted, sealed for, promoted or
\* put in a conversation on the word of a row that has changed meanwhile.
Ledger == INSTANCE CircleLedger WITH
    role <- db.role,
    asking <- {u \in Users : IsAsking(u)},
    threads <- db.threads,
    active <- {d \in Devices : db.device[d] = "active"},
    version <- [d \in Devices |-> IF Usable(d) THEN db.key[d][2] ELSE 0],
    stored <- db.stored,
    Messages <- Letters

ImplementsLedger == Ledger!Spec

\* Every call gets its answer, although transactions wait for rows and for
\* connections, deadlock and begin again.
EveryCallAnswered == \A p \in Procs : <>(phase[p] = "done")
=============================================================================
