---------------------------- MODULE DeviceTrust ----------------------------
(***************************************************************************)
(* The device-trust registry of ONE account: which devices are enrolled,   *)
(* which one vouched for which, the signed challenges that decide it, and  *)
(* the per-group keys the trusted devices publish.                         *)
(*                                                                         *)
(* Every handler modelled here runs one SERIALIZABLE transaction that      *)
(* first locks the account's row of "users" FOR UPDATE, and every          *)
(* statement filters on that account, so accounts never meet and a handler *)
(* is one atomic action.  What is NOT in the transaction is kept apart:    *)
(* requireActiveDevice reads the device row before the transaction opens,  *)
(* so the answer it gave ("authed") may be stale when the handler runs.    *)
(***************************************************************************)
EXTENDS Naturals, FiniteSets

CONSTANTS
    Devices,          \* device ids the account's installations use
    IdentityKeys,     \* Ed25519 account-device public keys
    Grants,           \* bootstrap grants Auth may issue
    RegIds,           \* rows of device_registration_challenges
    ApprIds,          \* rows of device_approval_challenges
    Groups,           \* circles the account may belong to
    Materials,        \* (pk_sig, pk_kem) pairs
    NoDevice, NoKey, NoGrant, NoChallenge, NoRow,   \* SQL NULL / no such row
    TTL,              \* life of a challenge and of a grant (5 minutes)
    Window,           \* rate window (10 minutes)
    Retention,        \* purge age (7 days)
    MaxOutstanding,   \* open challenges at a time (8)
    MaxPerAccount,    \* challenges per window, account-wide (20)
    MaxPerSubject,    \* challenges per window, per device or target (6)
    MaxVersion,       \* bound: highest group-key version
    MaxNow            \* bound: clock

Statuses  == {"none", "pending", "active", "revoked"}
Decisions == {"approve", "reject", "revoke"}
Times     == 0..(MaxNow + TTL)
RegResults  == {"open", "superseded", "expired", "invalid_signature",
                "device_identity_conflict", "device_revoked",
                "identity_key_conflict", "bootstrap_authorization_required",
                "pending", "active"}
ApprResults == {"open", "superseded", "superseded_by_decision", "expired",
                "invalid_signature", "approver_not_active",
                "approver_identity_changed", "target_state_conflict",
                "target_identity_changed", "approved", "rejected"}

\* "result" is "open" until consumed_at is set; "end" is
\* COALESCE(consumed_at, expires_at), the only form the code reads them in.
RegChallenge  == [device : Devices, key : IdentityKeys,
                  grant : Grants \cup {NoGrant}, created : Times,
                  end : Times, result : RegResults]
ApprChallenge == [approver : Devices, approverKey : IdentityKeys,
                  target : Devices, targetKey : IdentityKeys,
                  decision : Decisions, created : Times, end : Times,
                  result : ApprResults]
GroupKey      == [ver : 1..MaxVersion, mat : Materials,
                  st : {"legacy", "active", "revoked"}, bound : BOOLEAN]
SupersededKey == [group : Groups, device : Devices,
                  ver : 1..MaxVersion, mat : Materials]
Grant         == [end : Times, used : BOOLEAN]

ASSUME NullsAssumption ==
    /\ NoDevice \notin Devices
    /\ NoKey \notin IdentityKeys
    /\ NoGrant \notin Grants \cup Grant
    /\ NoChallenge \notin RegChallenge \cup ApprChallenge
    /\ NoRow \notin GroupKey
ASSUME TimesAssumption ==
    /\ TTL \in Nat \ {0} /\ Window \in Nat /\ Retention \in Nat
    /\ MaxNow \in Nat /\ MaxVersion \in Nat \ {0}
    /\ TTL <= Window /\ Window <= Retention
ASSUME LimitsAssumption ==
    MaxOutstanding \in Nat /\ MaxPerAccount \in Nat /\ MaxPerSubject \in Nat

VARIABLES
    status,       \* account_devices.status; "none" when there is no row
    identityKey,  \* account_devices.identity_public_key
    activated,    \* devices whose activated_at is set
    grants,       \* device_bootstrap_grants
    regs,         \* device_registration_challenges
    approvals,    \* device_approval_challenges
    authed,       \* devices with a request past requireActiveDevice
    memberOf,     \* groups of the account (user_groups)
    keys,         \* group_device_keys
    history,      \* group_device_key_history
    now,          \* NOW() of the database
    voucher       \* history variable: the device that activated this one

registry  == <<status, identityKey, activated, voucher>>
directory == <<keys, history>>
vars == <<registry, grants, regs, approvals, authed, memberOf, directory, now>>

----------------------------------------------------------------------------
(* Challenge tables: both handlers treat their own table alike.            *)

\* consumed_at IS NULL
Open(c) == c # NoChallenge /\ c.result = "open"

\* consumed_at IS NULL AND expires_at > NOW()
Outstanding(c) == Open(c) /\ c.end > now

\* UPDATE ... SET consumed_at = NOW(), result = r
Consumed(c, r) == [c EXCEPT !.end = now, !.result = r]

\* mutant: expired challenges are left open
M_Replaced(table, ids) ==
    [i \in DOMAIN table |-> IF i \in ids /\ Outstanding(table[i])
                            THEN Consumed(table[i], "superseded")
                            ELSE table[i]]

\* UPDATE ... SET result = 'superseded' WHERE <subject> AND consumed_at IS NULL
Replaced(table, ids) ==
    [i \in DOMAIN table |-> IF i \in ids /\ Open(table[i])
                            THEN Consumed(table[i], "superseded")
                            ELSE table[i]]

\* DELETE ... WHERE COALESCE(consumed_at, expires_at) < NOW() - '7 days'
Purged(table) ==
    [i \in DOMAIN table |->
        IF table[i] # NoChallenge /\ table[i].end + Retention < now
        THEN NoChallenge ELSE table[i]]

\* mutant: only challenges still open are counted
M_Recent(table) == {i \in DOMAIN table : Outstanding(table[i])}

\* created_at > NOW() - '10 minutes'
Recent(table) ==
    {i \in DOMAIN table : table[i] # NoChallenge
                          /\ table[i].created + Window > now}

\* mutant: one challenge too many may be outstanding
M_WithinLimits(table, same, other) ==
    /\ Cardinality(Recent(table)) < MaxPerAccount
    /\ Cardinality(Recent(table) \cap same) < MaxPerSubject
    /\ Cardinality({i \in other : Outstanding(table[i])}) <= MaxOutstanding

\* Neither rate bound is met; "same" are the ids of the subject's own rows
\* and "other" those the outstanding count looks at.
WithinLimits(table, same, other) ==
    /\ Cardinality(Recent(table)) < MaxPerAccount
    /\ Cardinality(Recent(table) \cap same) < MaxPerSubject
    /\ Cardinality({i \in other : Outstanding(table[i])}) < MaxOutstanding

----------------------------------------------------------------------------
Init ==
    /\ status = [d \in Devices |-> "none"]
    /\ identityKey = [d \in Devices |-> NoKey]
    /\ activated = {}
    /\ voucher = [d \in Devices |-> NoDevice]
    /\ grants = [g \in Grants |-> NoGrant]
    /\ regs = [i \in RegIds |-> NoChallenge]
    /\ approvals = [i \in ApprIds |-> NoChallenge]
    /\ authed = {}
    \* rows the prototype left behind, at any version: the migration
    \* rewrites their status only
    /\ memberOf \in SUBSET Groups
    /\ keys \in [Groups -> [Devices -> {NoRow} \cup
                     [ver : 1..MaxVersion, mat : Materials,
                      st : {"legacy", "revoked"}, bound : {FALSE}]]]
    /\ \A g \in Groups \ memberOf : keys[g] = [d \in Devices |-> NoRow]
    /\ history = {}
    /\ now = 0

----------------------------------------------------------------------------
(* Auth: a grant after a successful password check.                        *)
IssueGrant(g) ==
    /\ grants[g] = NoGrant
    /\ grants' = [grants EXCEPT ![g] = [end |-> now + TTL, used |-> FALSE]]
    /\ UNCHANGED <<registry, regs, approvals, authed, memberOf, directory, now>>

GrantUsable(g) ==
    /\ g \in Grants
    /\ grants[g] # NoGrant
    /\ ~grants[g].used
    /\ grants[g].end > now

(* POST /api/devices/registrations/challenge.  The three early returns     *)
(* change nothing; "too many" still commits the purge.                     *)
RegistrationAdmitted(d, k, g) ==
    /\ status[d] # "revoked"
    /\ status[d] # "none" => identityKey[d] = k
    /\ g # NoGrant => GrantUsable(g)

\* device_id = d
OfDevice(table, d) ==
    {j \in RegIds : table[j] # NoChallenge /\ table[j].device = d}

RegistrationLimits(table, d) ==
    WithinLimits(table, OfDevice(table, d), RegIds \ OfDevice(table, d))

RegistrationChallenge(i, d, k, g) ==
    /\ RegistrationAdmitted(d, k, g)
    /\ regs[i] = NoChallenge
    /\ LET kept == Purged(regs) IN
       /\ RegistrationLimits(kept, d)
       /\ regs' = [Replaced(kept, OfDevice(kept, d)) EXCEPT ![i] =
                     [device |-> d, key |-> k, grant |-> g, created |-> now,
                      end |-> now + TTL, result |-> "open"]]
    /\ UNCHANGED <<registry, grants, approvals, authed, memberOf, directory, now>>

TooManyRegistrations(d, k, g) ==
    /\ RegistrationAdmitted(d, k, g)
    /\ ~RegistrationLimits(Purged(regs), d)
    /\ regs' = Purged(regs)
    /\ UNCHANGED <<registry, grants, approvals, authed, memberOf, directory, now>>

(* POST /api/devices/registrations/:id/proof, the checks in code order.    *)
\* mutant: a fresh password grant is enough, whatever the account's history
M_Bootstrapping == \E g \in Grants : GrantUsable(g)

\* no row of the account has activated_at
Bootstrapping == activated = {}

\* mutant: only active devices are searched
M_KeyTaken(c) == \E d \in Devices \ {c.device} :
                    identityKey[d] = c.key /\ status[d] = "active"

\* another device of the account already owns the key
KeyTaken(c) == \E d \in Devices \ {c.device} : identityKey[d] = c.key

RegistrationRefusal(c, valid) ==
    IF c.end <= now THEN "expired"
    ELSE IF ~valid THEN "invalid_signature"
    ELSE IF status[c.device] # "none" /\ identityKey[c.device] # c.key
    THEN "device_identity_conflict"
    ELSE IF status[c.device] = "revoked" THEN "device_revoked"
    ELSE IF KeyTaken(c) THEN "identity_key_conflict"
    ELSE IF Bootstrapping /\ ~GrantUsable(c.grant)
    THEN "bootstrap_authorization_required"
    ELSE "none"

\* mutant: consumed_at is not looked at
M_Answerable(i) == regs[i] # NoChallenge

\* found, and consumed_at IS NULL
Answerable(i) == Open(regs[i])

RefuseProof(i, valid) ==
    /\ Answerable(i)
    /\ RegistrationRefusal(regs[i], valid) # "none"
    /\ regs' = [regs EXCEPT ![i] =
                  Consumed(regs[i], RegistrationRefusal(regs[i], valid))]
    /\ UNCHANGED <<registry, grants, approvals, authed, memberOf, directory, now>>

\* The first device ever: the grant is spent and the device is its own root.
BootstrapDevice(i) ==
    /\ Answerable(i)
    /\ RegistrationRefusal(regs[i], TRUE) = "none"
    /\ Bootstrapping
    /\ LET c == regs[i] IN
       /\ grants' = [grants EXCEPT ![c.grant].used = TRUE,
                                   ![c.grant].end = now]
       /\ status' = [status EXCEPT ![c.device] = "active"]
       /\ identityKey' = [identityKey EXCEPT ![c.device] = c.key]
       /\ activated' = activated \cup {c.device}
       /\ voucher' = [voucher EXCEPT ![c.device] = c.device]
       /\ regs' = [regs EXCEPT ![i] = Consumed(c, "active")]
    /\ UNCHANGED <<approvals, authed, memberOf, directory, now>>

\* mutant: a second proof resets the status
M_EnrolledStatus(d) == "pending"

\* INSERT as pending, or UPDATE ... CASE WHEN bootstrap ... ELSE status END
EnrolledStatus(d) == IF status[d] = "none" THEN "pending" ELSE status[d]

\* Any later device is recorded as pending; a known one keeps its status.
EnrollDevice(i) ==
    /\ Answerable(i)
    /\ RegistrationRefusal(regs[i], TRUE) = "none"
    /\ ~Bootstrapping
    /\ LET c == regs[i] IN
       /\ status' = [status EXCEPT ![c.device] = EnrolledStatus(c.device)]
       /\ identityKey' = [identityKey EXCEPT ![c.device] = c.key]
       /\ regs' = [regs EXCEPT ![i] = Consumed(c,
                     IF status[c.device] = "active" THEN "active"
                                                    ELSE "pending")]
    /\ UNCHANGED <<activated, voucher, grants, approvals, authed, memberOf,
                   directory, now>>

----------------------------------------------------------------------------
(* requireActiveDevice runs before the handler and outside its transaction *)
Authenticate(d) ==
    /\ status[d] = "active"
    /\ authed' = authed \cup {d}
    /\ UNCHANGED <<registry, grants, regs, approvals, memberOf, directory, now>>

RequestsEnd(d) ==
    /\ d \in authed
    /\ authed' = authed \ {d}
    /\ UNCHANGED <<registry, grants, regs, approvals, memberOf, directory, now>>

(* POST /api/devices/:target/approvals/challenge by device a.              *)
ExpectedStatus(decision) == IF decision = "revoke" THEN "active" ELSE "pending"

ApprovalAdmitted(a, t, decision) ==
    /\ a \in authed
    /\ status[a] = "active"
    /\ status[t] = ExpectedStatus(decision)

OfTarget(table, t) ==
    {j \in ApprIds : table[j] # NoChallenge /\ table[j].target = t}
OfPair(table, a, t) == {j \in OfTarget(table, t) : table[j].approver = a}

ApprovalLimits(table, a, t) ==
    WithinLimits(table, OfTarget(table, t), ApprIds \ OfPair(table, a, t))

\* mutant: any active device may be the target
M_Distinct(a, t) == TRUE

\* createDeviceApprovalChallengeMaterial throws when a = t: a rollback
Distinct(a, t) == a # t

ApprovalChallenge(i, a, t, decision) ==
    /\ ApprovalAdmitted(a, t, decision)
    /\ Distinct(a, t)
    /\ approvals[i] = NoChallenge
    /\ LET kept == Purged(approvals) IN
       /\ ApprovalLimits(kept, a, t)
       /\ approvals' = [Replaced(kept, OfPair(kept, a, t)) EXCEPT ![i] =
                     [approver |-> a, approverKey |-> identityKey[a],
                      target |-> t, targetKey |-> identityKey[t],
                      decision |-> decision, created |-> now,
                      end |-> now + TTL, result |-> "open"]]
    /\ UNCHANGED <<registry, grants, regs, authed, memberOf, directory, now>>

TooManyApprovals(a, t, decision) ==
    /\ ApprovalAdmitted(a, t, decision)
    /\ ~ApprovalLimits(Purged(approvals), a, t)
    /\ approvals' = Purged(approvals)
    /\ UNCHANGED <<registry, grants, regs, authed, memberOf, directory, now>>

(* POST /api/devices/approvals/:id/decision, the checks in code order.     *)
\* mutant: the answer of requireActiveDevice is trusted
M_ApproverActive(c) == c.approver \in authed

\* the approver's row, read again inside the transaction
ApproverActive(c) == status[c.approver] = "active"

ApprovalRefusal(c, valid) ==
    IF c.end <= now THEN "expired"
    ELSE IF ~valid THEN "invalid_signature"
    ELSE IF ~ApproverActive(c) THEN "approver_not_active"
    ELSE IF identityKey[c.approver] # c.approverKey
    THEN "approver_identity_changed"
    ELSE IF status[c.target] # ExpectedStatus(c.decision)
    THEN "target_state_conflict"
    ELSE IF identityKey[c.target] # c.targetKey
    THEN "target_identity_changed"
    ELSE "none"

\* The challenge is the request device's own and is not consumed.
Decidable(i) == Open(approvals[i]) /\ approvals[i].approver \in authed

RefuseDecision(i, valid) ==
    /\ Decidable(i)
    /\ ApprovalRefusal(approvals[i], valid) # "none"
    /\ approvals' = [approvals EXCEPT ![i] =
                       Consumed(approvals[i],
                                ApprovalRefusal(approvals[i], valid))]
    /\ UNCHANGED <<registry, grants, regs, authed, memberOf, directory, now>>

\* mutant: only the winning challenge is closed
M_Settled(i, result) ==
    [approvals EXCEPT ![i] = Consumed(approvals[i], result)]

\* The winning decision closes every other open challenge on its target.
Settled(i, result) ==
    [j \in ApprIds |->
        IF j = i THEN Consumed(approvals[j], result)
        ELSE IF Open(approvals[j]) /\ approvals[j].target = approvals[i].target
             THEN Consumed(approvals[j], "superseded_by_decision")
             ELSE approvals[j]]

ApproveDevice(i) ==
    /\ Decidable(i)
    /\ ApprovalRefusal(approvals[i], TRUE) = "none"
    /\ approvals[i].decision = "approve"
    /\ LET t == approvals[i].target IN
       /\ status' = [status EXCEPT ![t] = "active"]
       /\ activated' = activated \cup {t}
       /\ voucher' = [voucher EXCEPT ![t] = approvals[i].approver]
    /\ approvals' = Settled(i, "approved")
    /\ UNCHANGED <<identityKey, grants, regs, authed, memberOf, directory, now>>

\* UPDATE group_device_keys SET status = 'revoked' ... status IN (...)
KeysRevoked(t) ==
    [g \in Groups |-> [keys[g] EXCEPT ![t] =
        IF @ # NoRow /\ @.st \in {"active", "legacy"}
        THEN [@ EXCEPT !.st = "revoked"] ELSE @]]

\* reject (a pending target) and revoke (an active one)
CloseDevice(i) ==
    /\ Decidable(i)
    /\ ApprovalRefusal(approvals[i], TRUE) = "none"
    /\ approvals[i].decision # "approve"
    /\ LET t == approvals[i].target IN
       /\ status' = [status EXCEPT ![t] = "revoked"]
       /\ keys' = IF approvals[i].decision = "revoke" THEN KeysRevoked(t)
                                                      ELSE keys
    /\ approvals' = Settled(i, "rejected")
    /\ UNCHANGED <<identityKey, activated, voucher, grants, regs, authed,
                   memberOf, history, now>>

----------------------------------------------------------------------------
(* POST /api/keys/group/:g/devices by device d: version v of material m,   *)
(* with a binding signature that verifies.                                 *)
\* mutant: the device's row is not read again
M_PublishAdmitted(g, d) == d \in authed /\ g \in memberOf

PublishAdmitted(g, d) ==
    /\ d \in authed
    /\ status[d] = "active"
    /\ g \in memberOf

Replaceable(row) == row # NoRow /\ row.st # "revoked"

SamePublication(row, v, m) == row.ver = v /\ row.mat = m

\* mutant: any later version is accepted
M_NextVersion(row, v) == v > row.ver

\* mutant: the present version is taken for the next one
M_RepeatedVersion(row, v) == v \in {row.ver, row.ver + 1}

NextVersion(row, v) == v = row.ver + 1

\* mutant: the version number is bumped twice
M_SetKey(g, d, v, m) ==
    keys' = [keys EXCEPT ![g][d] =
               [ver |-> v + 1, mat |-> m, st |-> "active", bound |-> TRUE]]

SetKey(g, d, v, m) ==
    keys' = [keys EXCEPT ![g][d] =
               [ver |-> v, mat |-> m, st |-> "active", bound |-> TRUE]]

\* no row yet: only version 1, anything else is key_version_gap
PublishFirst(g, d, v, m) ==
    /\ PublishAdmitted(g, d)
    /\ keys[g][d] = NoRow
    /\ v = 1
    /\ SetKey(g, d, v, m)
    /\ UNCHANGED <<registry, grants, regs, approvals, authed, memberOf,
                   history, now>>

\* the same version again: a retry, or a legacy row gaining its signature
PublishAgain(g, d, v, m) ==
    /\ PublishAdmitted(g, d)
    /\ Replaceable(keys[g][d])
    /\ SamePublication(keys[g][d], v, m)
    /\ SetKey(g, d, v, m)
    /\ UNCHANGED <<registry, grants, regs, approvals, authed, memberOf,
                   history, now>>

InHistory(g, d, v) ==
    \E h \in history : h.group = g /\ h.device = d /\ h.ver = v

\* mutant: only the latest superseded version is kept
M_Archived(g, d) ==
    {h \in history : h.group # g \/ h.device # d} \cup
    {[group |-> g, device |-> d, ver |-> keys[g][d].ver,
      mat |-> keys[g][d].mat]}

\* INSERT ... ON CONFLICT DO NOTHING: the key is (group, device, version)
Archived(g, d) ==
    IF keys[g][d].st = "active" /\ ~InHistory(g, d, keys[g][d].ver)
    THEN history \cup {[group |-> g, device |-> d, ver |-> keys[g][d].ver,
                        mat |-> keys[g][d].mat]}
    ELSE history

Rotate(g, d, v, m) ==
    /\ PublishAdmitted(g, d)
    /\ Replaceable(keys[g][d])
    /\ NextVersion(keys[g][d], v)
    /\ history' = Archived(g, d)
    /\ SetKey(g, d, v, m)
    /\ UNCHANGED <<registry, grants, regs, approvals, authed, memberOf, now>>

\* groups.ts: membership is only ever gained
JoinGroup(g) ==
    /\ g \notin memberOf
    /\ memberOf' = memberOf \cup {g}
    /\ UNCHANGED <<registry, grants, regs, approvals, authed, directory, now>>

Tick ==
    /\ now < MaxNow
    /\ now' = now + 1
    /\ UNCHANGED <<registry, grants, regs, approvals, authed, memberOf,
                   directory>>

Registration ==
    \/ \E i \in RegIds, d \in Devices, k \in IdentityKeys,
          g \in Grants \cup {NoGrant} : RegistrationChallenge(i, d, k, g)
    \/ \E d \in Devices, k \in IdentityKeys, g \in Grants \cup {NoGrant} :
          TooManyRegistrations(d, k, g)
    \/ \E i \in RegIds, valid \in BOOLEAN : RefuseProof(i, valid)
    \/ \E i \in RegIds : BootstrapDevice(i)
    \/ \E i \in RegIds : EnrollDevice(i)

Approval ==
    \/ \E i \in ApprIds, a, t \in Devices, decision \in Decisions :
          ApprovalChallenge(i, a, t, decision)
    \/ \E a, t \in Devices, decision \in Decisions :
          TooManyApprovals(a, t, decision)
    \/ \E i \in ApprIds, valid \in BOOLEAN : RefuseDecision(i, valid)
    \/ \E i \in ApprIds : ApproveDevice(i)
    \/ \E i \in ApprIds : CloseDevice(i)

Publication == \E g \in Groups, d \in Devices, v \in 1..MaxVersion,
                  m \in Materials :
    PublishFirst(g, d, v, m) \/ PublishAgain(g, d, v, m) \/ Rotate(g, d, v, m)

Next ==
    \/ \E g \in Grants : IssueGrant(g)
    \/ Registration
    \/ \E d \in Devices : Authenticate(d) \/ RequestsEnd(d)
    \/ Approval
    \/ Publication
    \/ \E g \in Groups : JoinGroup(g)
    \/ Tick

Spec == Init /\ [][Next]_vars

----------------------------------------------------------------------------
(* Properties *)

\* Every table holds rows of its declared shape (the SQL column types).
TypeOK ==
    /\ status \in [Devices -> Statuses]
    /\ identityKey \in [Devices -> IdentityKeys \cup {NoKey}]
    /\ activated \in SUBSET Devices
    /\ voucher \in [Devices -> Devices \cup {NoDevice}]
    /\ grants \in [Grants -> Grant \cup {NoGrant}]
    /\ regs \in [RegIds -> RegChallenge \cup {NoChallenge}]
    /\ approvals \in [ApprIds -> ApprChallenge \cup {NoChallenge}]
    /\ authed \in SUBSET Devices
    /\ memberOf \in SUBSET Groups
    /\ keys \in [Groups -> [Devices -> GroupKey \cup {NoRow}]]
    /\ history \in SUBSET SupersededKey
    /\ now \in 0..MaxNow

\* The CHECK constraints of account_devices (account_device_trust.sql 36-38)
\* never fire: no handler meets a constraint error, and while nobody was ever
\* activated the account has no device rows at all.
TrustChecksHold ==
    /\ \A d \in Devices :
          /\ status[d] = "active" => d \in activated
          /\ status[d] \in {"none", "pending"} => d \notin activated
          /\ status[d] = "none" <=> identityKey[d] = NoKey
    /\ activated = {} => \A d \in Devices : status[d] = "none"

\* The account can always be administered: once a device has been activated
\* some device is active, whatever revocations race each other (two devices
\* that revoke one another have one winner).
AccountNeverLockedOut ==
    activated # {} => \E d \in Devices : status[d] = "active"

\* Trust is a tree with one root: the bootstrapped device vouches for itself,
\* and every set of activated devices that contains its vouchers contains it.
TrustIsRooted ==
    /\ activated = {d \in Devices : voucher[d] # NoDevice}
    /\ \A d \in activated : voucher[d] \in activated
    /\ \A d, e \in activated : voucher[d] = d /\ voucher[e] = e => d = e
    /\ \A S \in SUBSET activated :
          S # {} /\ (\A d \in S : voucher[d] \in S)
          => \E d \in S : voucher[d] = d

\* One identity key never names two devices of the account, so a refused or
\* revoked key cannot come back under another device id.
IdentityUnique ==
    \A d, e \in Devices :
        identityKey[d] = identityKey[e] /\ identityKey[d] # NoKey => d = e

\* An unconsumed approval challenge still describes its target: a decision on
\* a device makes every other open challenge about it void (deviceApprovals
\* 519-525), so a signature is never spent on a state it was not made for.
OpenApprovalIsCurrent ==
    \A i \in ApprIds : Open(approvals[i]) =>
        /\ status[approvals[i].target] = ExpectedStatus(approvals[i].decision)
        /\ identityKey[approvals[i].target] = approvals[i].targetKey
        /\ identityKey[approvals[i].approver] = approvals[i].approverKey
        /\ approvals[i].target # approvals[i].approver

\* A new challenge replaces the previous one of the same subject: at most one
\* is open per device, and per (approver, target) pair.
OneOpenPerSubject ==
    /\ \A i, j \in RegIds :
          Open(regs[i]) /\ Open(regs[j]) /\ regs[i].device = regs[j].device
          => i = j
    /\ \A i, j \in ApprIds :
          /\ Open(approvals[i]) /\ Open(approvals[j])
          /\ approvals[i].approver = approvals[j].approver
          /\ approvals[i].target = approvals[j].target
          => i = j

\* Group keys follow the device: only an active device owns an active key, and
\* a revoked device keeps no usable row, not even one of the prototype.
KeysFollowDevice ==
    \A g \in Groups, d \in Devices : keys[g][d] # NoRow =>
        /\ keys[g][d].st = "active" => status[d] = "active" /\ keys[g][d].bound
        /\ d \in activated /\ status[d] = "revoked" => keys[g][d].st = "revoked"

\* what GET /api/keys/group/:g returns for the account (directoryQuery)
Directory(g) ==
    {[device |-> d, ver |-> keys[g][d].ver, mat |-> keys[g][d].mat] :
        d \in {e \in Devices : keys[g][e] # NoRow /\ keys[g][e].bound}}
    \cup {[device |-> h.device, ver |-> h.ver, mat |-> h.mat] :
        h \in {x \in history : x.group = g}}

\* A version number names one key for ever, in one group and device: clients
\* look up the sender's key of an old message by that number.
VersionNamesOneKey ==
    \A g \in Groups : \A x, y \in Directory(g) :
        x.device = y.device /\ x.ver = y.ver => x.mat = y.mat

\* The superseded versions of a key are the ones right below the current one,
\* without a gap.
HistoryContiguous ==
    \A h \in history :
        /\ keys[h.group][h.device] # NoRow
        /\ keys[h.group][h.device].bound
        /\ h.ver < keys[h.group][h.device].ver
        /\ h.ver + 1 < keys[h.group][h.device].ver
           => InHistory(h.group, h.device, h.ver + 1)

\* A key once in the directory stays readable, whatever is rotated or revoked.
DirectoryNeverForgets ==
    [][\A g \in Groups : Directory(g) \subseteq Directory(g)']_vars

\* The answer to a challenge is given once: after consumption a row is only
\* ever purged.
VerdictsAreFinal ==
    [][ /\ \A i \in RegIds :
             ~Open(regs[i]) /\ regs[i] # NoChallenge
             => regs'[i] \in {regs[i], NoChallenge}
        /\ \A i \in ApprIds :
             ~Open(approvals[i]) /\ approvals[i] # NoChallenge
             => approvals'[i] \in {approvals[i], NoChallenge}]_vars

\* What the registry promises about statuses, whatever its tables hold.
Lifecycle == INSTANCE DeviceLifecycle WITH
                 Devices <- Devices, NoDevice <- NoDevice,
                 status <- status, voucher <- voucher
ImplementsLifecycle == Lifecycle!Spec
=============================================================================
