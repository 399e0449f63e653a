------------------------- MODULE DeviceTrust_proofs -------------------------
(***************************************************************************)
(* Theorems of DeviceTrust, for any sets of devices, keys, grants,         *)
(* challenges, groups and materials and any limits.                        *)
(***************************************************************************)
EXTENDS DeviceTrust, TLAPS

\* The clock and the deadline of a challenge issued now are in range.
LEMMA NowTimes == TypeOK => now \in Times /\ now + TTL \in Times
BY TimesAssumption DEF TypeOK, Times

\* Consuming a challenge keeps its shape.
LEMMA ConsumedReg ==
    ASSUME TypeOK, NEW c \in RegChallenge, NEW r \in RegResults
    PROVE  Consumed(c, r) \in RegChallenge
<1>1. now \in Times
  BY NowTimes
<1>2. QED BY <1>1 DEF Consumed, RegChallenge

\* A consumed approval challenge is an approval challenge.
LEMMA ConsumedAppr ==
    ASSUME TypeOK, NEW c \in ApprChallenge, NEW r \in ApprResults
    PROVE  Consumed(c, r) \in ApprChallenge
<1>1. now \in Times
  BY NowTimes
<1>2. QED BY <1>1 DEF Consumed, ApprChallenge

\* Replacing registration challenges keeps their table well typed.
LEMMA ReplacedReg ==
    ASSUME TypeOK, NEW ids,
           NEW table \in [RegIds -> RegChallenge \cup {NoChallenge}]
    PROVE  Replaced(table, ids) \in [RegIds -> RegChallenge \cup {NoChallenge}]
<1>1. ASSUME NEW i \in RegIds, Open(table[i])
      PROVE  Consumed(table[i], "superseded") \in RegChallenge
  BY <1>1, ConsumedReg DEF Open, RegResults
<1>2. QED BY <1>1 DEF Replaced

\* Replacing approval challenges keeps their table well typed.
LEMMA ReplacedAppr ==
    ASSUME TypeOK, NEW ids,
           NEW table \in [ApprIds -> ApprChallenge \cup {NoChallenge}]
    PROVE  Replaced(table, ids) \in [ApprIds -> ApprChallenge \cup {NoChallenge}]
<1>1. ASSUME NEW i \in ApprIds, Open(table[i])
      PROVE  Consumed(table[i], "superseded") \in ApprChallenge
  BY <1>1, ConsumedAppr DEF Open, ApprResults
<1>2. QED BY <1>1 DEF Replaced

\* The purge keeps both tables well typed.
LEMMA PurgedType ==
    ASSUME TypeOK
    PROVE  /\ Purged(regs) \in [RegIds -> RegChallenge \cup {NoChallenge}]
           /\ Purged(approvals) \in [ApprIds -> ApprChallenge \cup {NoChallenge}]
BY DEF Purged, TypeOK

\* Registration keeps the types.
LEMMA RegTypeStep == TypeOK /\ Registration => TypeOK'
<1> SUFFICES ASSUME TypeOK, Registration PROVE TypeOK' OBVIOUS
<1> USE NowTimes
<1>1. ASSUME NEW i \in RegIds, NEW d \in Devices, NEW k \in IdentityKeys,
             NEW g \in Grants \cup {NoGrant}, RegistrationChallenge(i, d, k, g)
      PROVE  TypeOK'
  <2> DEFINE kept == Purged(regs)
             new == [device |-> d, key |-> k, grant |-> g, created |-> now,
                     end |-> now + TTL, result |-> "open"]
  <2>1. kept \in [RegIds -> RegChallenge \cup {NoChallenge}]
    BY PurgedType
  <2>2. new \in RegChallenge
    BY DEF RegChallenge, RegResults
  <2>3. Replaced(kept, OfDevice(kept, d))
          \in [RegIds -> RegChallenge \cup {NoChallenge}]
    BY <2>1, ReplacedReg
  <2>4. regs' \in [RegIds -> RegChallenge \cup {NoChallenge}]
    BY <1>1, <2>2, <2>3 DEF RegistrationChallenge
  <2>5. QED BY <1>1, <2>4 DEF RegistrationChallenge, TypeOK, registry, directory
<1>2. ASSUME NEW d \in Devices, NEW k \in IdentityKeys,
             NEW g \in Grants \cup {NoGrant}, TooManyRegistrations(d, k, g)
      PROVE  TypeOK'
  BY <1>2, PurgedType DEF TooManyRegistrations, TypeOK, registry, directory
<1>3. ASSUME NEW i \in RegIds, NEW valid \in BOOLEAN, RefuseProof(i, valid)
      PROVE  TypeOK'
  <2>1. regs[i] \in RegChallenge
    BY <1>3 DEF RefuseProof, Answerable, Open, TypeOK
  <2>2. RegistrationRefusal(regs[i], valid) \in RegResults
    BY <1>3 DEF RefuseProof, RegistrationRefusal, RegResults
  <2>3. regs' \in [RegIds -> RegChallenge \cup {NoChallenge}]
    BY <1>3, <2>1, <2>2, ConsumedReg DEF RefuseProof, TypeOK
  <2>4. QED BY <1>3, <2>3 DEF RefuseProof, TypeOK, registry, directory
<1>4. ASSUME NEW i \in RegIds, BootstrapDevice(i) PROVE TypeOK'
  <2>1. regs[i] \in RegChallenge
    BY <1>4 DEF BootstrapDevice, Answerable, Open, TypeOK
  <2>2. Consumed(regs[i], "active") \in RegChallenge
    BY <2>1, ConsumedReg DEF RegResults
  <2>3. /\ regs[i].device \in Devices /\ regs[i].key \in IdentityKeys
        /\ regs[i].grant \in Grants \cup {NoGrant}
    BY <2>1 DEF RegChallenge
  <2>4. grants' \in [Grants -> Grant \cup {NoGrant}]
    <3>1. GrantUsable(regs[i].grant)
      BY <1>4 DEF BootstrapDevice, RegistrationRefusal
    <3>2. grants[regs[i].grant] \in Grant
      BY <3>1 DEF GrantUsable, TypeOK
    <3>3. [grants[regs[i].grant] EXCEPT !.used = TRUE, !.end = now] \in Grant
      BY <3>2 DEF Grant
    <3>4. QED BY <1>4, <3>1, <3>2 DEF BootstrapDevice, TypeOK, Grant
  <2>5. QED BY <1>4, <2>2, <2>3, <2>4
           DEF BootstrapDevice, TypeOK, directory, Statuses
<1>5. ASSUME NEW i \in RegIds, EnrollDevice(i) PROVE TypeOK'
  <2>1. regs[i] \in RegChallenge
    BY <1>5 DEF EnrollDevice, Answerable, Open, TypeOK
  <2>2. /\ Consumed(regs[i], "active") \in RegChallenge
        /\ Consumed(regs[i], "pending") \in RegChallenge
    BY <2>1, ConsumedReg DEF RegResults
  <2>3. regs[i].device \in Devices /\ regs[i].key \in IdentityKeys
    BY <2>1 DEF RegChallenge
  <2>4. regs' \in [RegIds -> RegChallenge \cup {NoChallenge}]
    BY <1>5, <2>2 DEF EnrollDevice, TypeOK
  <2>5. QED BY <1>5, <2>3, <2>4
           DEF EnrollDevice, EnrolledStatus, TypeOK, directory, Statuses
<1>6. QED BY <1>1, <1>2, <1>3, <1>4, <1>5 DEF Registration

\* Approval, rejection and revocation keep the types.
LEMMA ApprTypeStep == TypeOK /\ TrustChecksHold /\ Approval => TypeOK'
<1> SUFFICES ASSUME TypeOK, TrustChecksHold, Approval PROVE TypeOK' OBVIOUS
<1> USE NowTimes
<1>1. ASSUME NEW i \in ApprIds, NEW a \in Devices, NEW t \in Devices,
             NEW decision \in Decisions, ApprovalChallenge(i, a, t, decision)
      PROVE  TypeOK'
  <2> DEFINE kept == Purged(approvals)
             new == [approver |-> a, approverKey |-> identityKey[a],
                     target |-> t, targetKey |-> identityKey[t],
                     decision |-> decision, created |-> now,
                     end |-> now + TTL, result |-> "open"]
  <2>1. kept \in [ApprIds -> ApprChallenge \cup {NoChallenge}]
    BY PurgedType
  <2>2. new \in ApprChallenge
    <3>1. identityKey[a] \in IdentityKeys /\ identityKey[t] \in IdentityKeys
      BY <1>1 DEF ApprovalChallenge, ApprovalAdmitted, ExpectedStatus,
                  TrustChecksHold, TypeOK
    <3>2. QED BY <3>1 DEF ApprChallenge, ApprResults
  <2>3. Replaced(kept, OfPair(kept, a, t))
          \in [ApprIds -> ApprChallenge \cup {NoChallenge}]
    BY <2>1, ReplacedAppr
  <2>4. approvals' \in [ApprIds -> ApprChallenge \cup {NoChallenge}]
    BY <1>1, <2>2, <2>3 DEF ApprovalChallenge
  <2>5. QED BY <1>1, <2>4 DEF ApprovalChallenge, TypeOK, registry, directory
<1>2. ASSUME NEW a \in Devices, NEW t \in Devices, NEW decision \in Decisions,
             TooManyApprovals(a, t, decision)
      PROVE  TypeOK'
  BY <1>2, PurgedType DEF TooManyApprovals, TypeOK, registry, directory
<1>3. ASSUME NEW i \in ApprIds, NEW valid \in BOOLEAN, RefuseDecision(i, valid)
      PROVE  TypeOK'
  <2>1. approvals[i] \in ApprChallenge
    BY <1>3 DEF RefuseDecision, Decidable, Open, TypeOK
  <2>2. ApprovalRefusal(approvals[i], valid) \in ApprResults
    BY <1>3 DEF RefuseDecision, ApprovalRefusal, ApprResults
  <2>3. approvals' \in [ApprIds -> ApprChallenge \cup {NoChallenge}]
    BY <1>3, <2>1, <2>2, ConsumedAppr DEF RefuseDecision, TypeOK
  <2>4. QED BY <1>3, <2>3 DEF RefuseDecision, TypeOK, registry, directory
<1>4. ASSUME NEW i \in ApprIds, NEW result \in {"approved", "rejected"},
             Decidable(i)
      PROVE  Settled(i, result) \in [ApprIds -> ApprChallenge \cup {NoChallenge}]
  <2>1. ASSUME NEW j \in ApprIds, NEW r \in ApprResults, Open(approvals[j])
        PROVE  Consumed(approvals[j], r) \in ApprChallenge
    BY <2>1, ConsumedAppr DEF Open, TypeOK
  <2>2. Open(approvals[i]) /\ result \in ApprResults
        /\ "superseded_by_decision" \in ApprResults
    BY <1>4 DEF Decidable, ApprResults
  <2>3. QED BY <2>1, <2>2 DEF Settled, TypeOK
<1>5. ASSUME NEW i \in ApprIds, ApproveDevice(i) PROVE TypeOK'
  <2>1. approvals[i] \in ApprChallenge
    BY <1>5 DEF ApproveDevice, Decidable, Open, TypeOK
  <2>2. approvals[i].target \in Devices /\ approvals[i].approver \in Devices
    BY <2>1 DEF ApprChallenge
  <2>3. approvals' \in [ApprIds -> ApprChallenge \cup {NoChallenge}]
    BY <1>4, <1>5 DEF ApproveDevice
  <2>4. QED BY <1>5, <2>2, <2>3 DEF ApproveDevice, TypeOK, Statuses, directory
<1>6. ASSUME NEW i \in ApprIds, CloseDevice(i) PROVE TypeOK'
  <2>1. approvals[i] \in ApprChallenge
    BY <1>6 DEF CloseDevice, Decidable, Open, TypeOK
  <2>2. approvals[i].target \in Devices
    BY <2>1 DEF ApprChallenge
  <2>3. approvals' \in [ApprIds -> ApprChallenge \cup {NoChallenge}]
    BY <1>4, <1>6 DEF CloseDevice
  <2>4. ASSUME NEW t \in Devices
        PROVE  KeysRevoked(t) \in [Groups -> [Devices -> GroupKey \cup {NoRow}]]
    <3>1. ASSUME NEW row \in GroupKey
          PROVE  [row EXCEPT !.st = "revoked"] \in GroupKey
      BY DEF GroupKey
    <3>2. ASSUME NEW g \in Groups
          PROVE  [keys[g] EXCEPT ![t] =
                    IF @ # NoRow /\ @.st \in {"active", "legacy"}
                    THEN [@ EXCEPT !.st = "revoked"] ELSE @]
                 \in [Devices -> GroupKey \cup {NoRow}]
      BY <3>1 DEF TypeOK
    <3>3. QED BY <3>2 DEF KeysRevoked
  <2>5. keys' \in [Groups -> [Devices -> GroupKey \cup {NoRow}]]
    BY <1>6, <2>2, <2>4 DEF CloseDevice, TypeOK
  <2>6. QED BY <1>6, <2>2, <2>3, <2>5 DEF CloseDevice, TypeOK, Statuses
<1>7. QED BY <1>1, <1>2, <1>3, <1>5, <1>6 DEF Approval

\* The circle keys' handlers keep the types.
LEMMA KeyTypeStep == TypeOK /\ Publication => TypeOK'
<1> SUFFICES ASSUME TypeOK,
                    NEW g \in Groups, NEW d \in Devices,
                    NEW v \in 1..MaxVersion, NEW m \in Materials,
                    \/ PublishFirst(g, d, v, m)
                    \/ PublishAgain(g, d, v, m)
                    \/ Rotate(g, d, v, m)
             PROVE  TypeOK'
  BY DEF Publication
<1>1. [ver |-> v, mat |-> m, st |-> "active", bound |-> TRUE] \in GroupKey
  BY DEF GroupKey
<1>2. SetKey(g, d, v, m)
  BY DEF PublishFirst, PublishAgain, Rotate
<1>3. keys' \in [Groups -> [Devices -> GroupKey \cup {NoRow}]]
  BY <1>1, <1>2 DEF SetKey, TypeOK
<1>4. Rotate(g, d, v, m) => history' \in SUBSET SupersededKey
  <2> SUFFICES ASSUME Rotate(g, d, v, m) PROVE history' \in SUBSET SupersededKey
    OBVIOUS
  <2>1. keys[g][d] \in GroupKey
    BY DEF Rotate, Replaceable, TypeOK
  <2>2. [group |-> g, device |-> d, ver |-> keys[g][d].ver,
         mat |-> keys[g][d].mat] \in SupersededKey
    BY <2>1 DEF GroupKey, SupersededKey
  <2>3. QED BY <2>2 DEF Rotate, Archived, TypeOK
<1>5. QED BY <1>3, <1>4
         DEF PublishFirst, PublishAgain, Rotate, TypeOK, registry

\* Every step keeps the types.
LEMMA TypeStep == TypeOK /\ TrustChecksHold /\ [Next]_vars => TypeOK'
<1> SUFFICES ASSUME TypeOK, TrustChecksHold, [Next]_vars PROVE TypeOK' OBVIOUS
<1>1. ASSUME NEW g \in Grants, IssueGrant(g) PROVE TypeOK'
  BY <1>1, TimesAssumption
     DEF IssueGrant, TypeOK, Grant, Times, registry, directory
<1>2. CASE Registration
  BY <1>2, RegTypeStep
<1>3. ASSUME NEW d \in Devices, Authenticate(d) \/ RequestsEnd(d) PROVE TypeOK'
  BY <1>3 DEF Authenticate, RequestsEnd, TypeOK, registry, directory
<1>4. CASE Approval
  BY <1>4, ApprTypeStep
<1>5. CASE Publication
  BY <1>5, KeyTypeStep
<1>6. ASSUME NEW g \in Groups, JoinGroup(g) PROVE TypeOK'
  BY <1>6 DEF JoinGroup, TypeOK, registry, directory
<1>7. CASE Tick
  BY <1>7, TimesAssumption DEF Tick, TypeOK, registry, directory
<1>8. CASE UNCHANGED vars
  BY <1>8 DEF vars, TypeOK, registry, directory
<1>9. QED BY <1>1, <1>2, <1>3, <1>4, <1>5, <1>6, <1>7, <1>8 DEF Next

----------------------------------------------------------------------------
\* Every other step leaves the registry, the approvals and the keys alone, or
\* only publishes a key.
LEMMA StepSplit ==
    [Next]_vars =>
        \/ UNCHANGED <<registry, approvals, directory>>
        \/ \E i \in RegIds : BootstrapDevice(i) \/ EnrollDevice(i)
        \/ Approval
        \/ Publication
BY DEF Next, vars, Registration, IssueGrant, RegistrationChallenge,
       TooManyRegistrations, RefuseProof, Authenticate, RequestsEnd, JoinGroup,
       Tick

\* Publication and every approval step but a decision keep the registry.
LEMMA RegistryKept ==
    [Next]_vars =>
        \/ UNCHANGED registry
        \/ \E i \in RegIds : BootstrapDevice(i) \/ EnrollDevice(i)
        \/ \E i \in ApprIds : ApproveDevice(i) \/ CloseDevice(i)
<1>1. Publication => UNCHANGED registry
  BY DEF Publication, PublishFirst, PublishAgain, Rotate
<1>2. Approval => \/ UNCHANGED registry
                  \/ \E i \in ApprIds : ApproveDevice(i) \/ CloseDevice(i)
  BY DEF Approval, ApprovalChallenge, TooManyApprovals, RefuseDecision
<1>3. QED BY <1>1, <1>2, StepSplit

\* What an accepted proof knows of its device.
LEMMA AcceptedProof ==
    ASSUME TypeOK, NEW i \in RegIds, Open(regs[i]),
           RegistrationRefusal(regs[i], TRUE) = "none"
    PROVE  /\ regs[i].device \in Devices
           /\ regs[i].key \in IdentityKeys
           /\ status[regs[i].device] # "revoked"
           /\ status[regs[i].device] # "none"
              => identityKey[regs[i].device] = regs[i].key
           /\ ~KeyTaken(regs[i])
           /\ Bootstrapping => GrantUsable(regs[i].grant)
<1>1. regs[i] \in RegChallenge
  BY DEF Open, TypeOK
<1>2. QED BY <1>1 DEF RegistrationRefusal, RegChallenge

\* What an accepted decision knows of its approver and target.
LEMMA AcceptedDecision ==
    ASSUME TypeOK, NEW i \in ApprIds, Decidable(i),
           ApprovalRefusal(approvals[i], TRUE) = "none"
    PROVE  /\ Open(approvals[i])
           /\ approvals[i].approver \in Devices
           /\ approvals[i].target \in Devices
           /\ approvals[i].decision \in Decisions
           /\ status[approvals[i].approver] = "active"
           /\ status[approvals[i].target]
              = ExpectedStatus(approvals[i].decision)
<1>1. approvals[i] \in ApprChallenge
  BY DEF Decidable, Open, TypeOK
<1>2. QED BY <1>1 DEF ApprovalRefusal, ApproverActive, ApprChallenge, Decidable

\* No step breaks a CHECK constraint of account_devices.
LEMMA ChecksStep == TypeOK /\ TrustChecksHold /\ [Next]_vars => TrustChecksHold'
<1> SUFFICES ASSUME TypeOK, TrustChecksHold, [Next]_vars PROVE TrustChecksHold'
  OBVIOUS
<1>1. CASE UNCHANGED registry
  BY <1>1 DEF registry, TrustChecksHold
<1>2. ASSUME NEW i \in RegIds, BootstrapDevice(i) PROVE TrustChecksHold'
  <2>1. /\ regs[i].device \in Devices /\ regs[i].key \in IdentityKeys
    BY <1>2, AcceptedProof DEF Answerable, BootstrapDevice
  <2>2. QED BY <1>2, <2>1, NullsAssumption
           DEF BootstrapDevice, Bootstrapping, TrustChecksHold, TypeOK
<1>3. ASSUME NEW i \in RegIds, EnrollDevice(i) PROVE TrustChecksHold'
  <2>1. /\ regs[i].device \in Devices /\ regs[i].key \in IdentityKeys
        /\ status[regs[i].device] # "none"
           => identityKey[regs[i].device] = regs[i].key
    BY <1>3, AcceptedProof DEF Answerable, EnrollDevice
  <2>2. QED BY <1>3, <2>1, NullsAssumption
           DEF EnrollDevice, EnrolledStatus, Bootstrapping, TrustChecksHold, TypeOK
<1>4. ASSUME NEW i \in ApprIds, ApproveDevice(i) PROVE TrustChecksHold'
  <2>1. /\ approvals[i].target \in Devices
        /\ status[approvals[i].target] = "pending"
    BY <1>4, AcceptedDecision DEF ApproveDevice, ExpectedStatus
  <2>2. QED BY <1>4, <2>1 DEF ApproveDevice, TrustChecksHold, TypeOK
<1>5. ASSUME NEW i \in ApprIds, CloseDevice(i) PROVE TrustChecksHold'
  <2>1. /\ approvals[i].target \in Devices
        /\ status[approvals[i].target] \in {"pending", "active"}
    BY <1>5, AcceptedDecision DEF CloseDevice, ExpectedStatus
  <2>2. QED BY <1>5, <2>1 DEF CloseDevice, TrustChecksHold, TypeOK
<1>6. QED BY <1>1, <1>2, <1>3, <1>4, <1>5, RegistryKept

\* The rows left by the prototype have their types and keep the constraints.
LEMMA InitBase == Init => TypeOK /\ TrustChecksHold
<1> SUFFICES ASSUME Init PROVE TypeOK /\ TrustChecksHold OBVIOUS
<1>1. TrustChecksHold
  BY NullsAssumption DEF Init, TrustChecksHold
<1>2. keys \in [Groups -> [Devices -> GroupKey \cup {NoRow}]]
  <2>1. [ver : 1..MaxVersion, mat : Materials,
         st : {"legacy", "revoked"}, bound : {FALSE}] \subseteq GroupKey
    BY DEF GroupKey
  <2>2. keys \in [Groups -> [Devices -> {NoRow} \cup
                     [ver : 1..MaxVersion, mat : Materials,
                      st : {"legacy", "revoked"}, bound : {FALSE}]]]
    BY DEF Init
  <2> HIDE DEF Init, GroupKey
  <2>3. QED BY <2>1, <2>2
<1>3. /\ status \in [Devices -> Statuses]
      /\ identityKey \in [Devices -> IdentityKeys \cup {NoKey}]
      /\ activated \in SUBSET Devices
      /\ voucher \in [Devices -> Devices \cup {NoDevice}]
  BY DEF Init, Statuses
<1>4. /\ grants \in [Grants -> Grant \cup {NoGrant}]
      /\ regs \in [RegIds -> RegChallenge \cup {NoChallenge}]
      /\ approvals \in [ApprIds -> ApprChallenge \cup {NoChallenge}]
      /\ authed \in SUBSET Devices
  BY DEF Init
<1>5. /\ memberOf \in SUBSET Groups /\ history \in SUBSET SupersededKey
      /\ now \in 0..MaxNow
  BY TimesAssumption DEF Init
<1>6. QED BY <1>1, <1>2, <1>3, <1>4, <1>5 DEF TypeOK

\* The tables only ever hold rows of their declared shape.
THEOREM TypeCorrect == Spec => []TypeOK
<1>1. Init => TypeOK /\ TrustChecksHold
  BY InitBase
<1>2. TypeOK /\ TrustChecksHold /\ [Next]_vars => (TypeOK /\ TrustChecksHold)'
  BY TypeStep, ChecksStep
<1>3. QED BY <1>1, <1>2, PTL DEF Spec

\* No handler can meet a CHECK constraint of account_devices.
THEOREM ChecksHold == Spec => []TrustChecksHold
<1>1. Init => TypeOK /\ TrustChecksHold
  BY InitBase
<1>2. TypeOK /\ TrustChecksHold /\ [Next]_vars => (TypeOK /\ TrustChecksHold)'
  BY TypeStep, ChecksStep
<1>3. QED BY <1>1, <1>2, PTL DEF Spec

----------------------------------------------------------------------------
(* The account is never locked out.                                        *)

\* An open approval is about a device other than its approver.
ApproverIsOther ==
    \A i \in ApprIds : Open(approvals[i])
        => approvals[i].approver # approvals[i].target

\* A consumed challenge cannot be answered any more.
LEMMA ConsumedIsClosed ==
    ASSUME NEW c \in ApprChallenge, NEW r \in ApprResults, r # "open"
    PROVE  ~Open(Consumed(c, r))
BY DEF Open, Consumed, ApprChallenge

\* A decision leaves no open challenge on its target.
LEMMA SettledCloses ==
    ASSUME TypeOK, NEW i \in ApprIds, NEW result \in {"approved", "rejected"},
           Decidable(i), approvals' = Settled(i, result),
           NEW j \in ApprIds, Open(approvals[j])'
    PROVE  /\ Open(approvals[j]) /\ approvals'[j] = approvals[j]
           /\ approvals[j].target # approvals[i].target
<1>1. approvals[i] \in ApprChallenge
  BY DEF Decidable, Open, TypeOK
<1>2. Open(approvals[j]) => approvals[j] \in ApprChallenge
  BY DEF Open, TypeOK
<1>3. approvals'[j] =
        IF j = i THEN Consumed(approvals[j], result)
        ELSE IF Open(approvals[j]) /\ approvals[j].target = approvals[i].target
             THEN Consumed(approvals[j], "superseded_by_decision")
             ELSE approvals[j]
  BY DEF Settled
<1>4. QED BY <1>1, <1>2, <1>3, ConsumedIsClosed DEF ApprResults, Open

\* A row that is open after a step was open before it, unless it is the
\* approval the step issued.
LEMMA OpenApprovals ==
    ASSUME TypeOK, [Next]_vars, NEW j \in ApprIds, Open(approvals[j])'
    PROVE  \/ Open(approvals[j]) /\ approvals'[j] = approvals[j]
           \/ \E a, t \in Devices, decision \in Decisions :
                /\ ApprovalChallenge(j, a, t, decision)
                /\ approvals'[j].approver = a /\ approvals'[j].target = t
                /\ approvals'[j].decision = decision
                /\ approvals'[j].approverKey = identityKey[a]
                /\ approvals'[j].targetKey = identityKey[t]
<1>1. CASE UNCHANGED approvals
  BY <1>1 DEF Open
<1>2. CASE \/ \E i \in RegIds : BootstrapDevice(i) \/ EnrollDevice(i)
           \/ Publication
  <2>1. ASSUME NEW i \in RegIds, BootstrapDevice(i) \/ EnrollDevice(i)
        PROVE  UNCHANGED approvals
    BY <2>1 DEF BootstrapDevice, EnrollDevice
  <2>2. ASSUME NEW g \in Groups, NEW d \in Devices, NEW v \in 1..MaxVersion,
               NEW m \in Materials,
               \/ PublishFirst(g, d, v, m) \/ PublishAgain(g, d, v, m)
               \/ Rotate(g, d, v, m)
        PROVE  UNCHANGED approvals
    BY <2>2 DEF PublishFirst, PublishAgain, Rotate
  <2>3. UNCHANGED approvals
    BY <1>2, <2>1, <2>2 DEF Publication
  <2>4. QED BY <1>1, <2>3
<1>3. Purged(approvals) \in [ApprIds -> ApprChallenge \cup {NoChallenge}]
  BY PurgedType
<1>4. Open(Purged(approvals)[j]) =>
        Open(approvals[j]) /\ Purged(approvals)[j] = approvals[j]
  BY DEF Open, Purged, TypeOK
<1>5. ASSUME NEW i \in ApprIds, NEW a \in Devices, NEW t \in Devices,
             NEW decision \in Decisions, ApprovalChallenge(i, a, t, decision)
      PROVE  \/ Open(approvals[j]) /\ approvals'[j] = approvals[j]
             \/ /\ i = j
                /\ approvals'[j].approver = a /\ approvals'[j].target = t
                /\ approvals'[j].decision = decision
                /\ approvals'[j].approverKey = identityKey[a]
                /\ approvals'[j].targetKey = identityKey[t]
  <2>1. CASE i = j
    BY <1>3, <1>5, <2>1 DEF ApprovalChallenge, Replaced
  <2>2. CASE i # j
    <3> DEFINE kept == Purged(approvals)
    <3>1. approvals'[j] = IF j \in OfPair(kept, a, t) /\ Open(kept[j])
                          THEN Consumed(kept[j], "superseded") ELSE kept[j]
      BY <1>3, <1>5, <2>2 DEF ApprovalChallenge, Replaced
    <3>2. Open(kept[j]) => kept[j] \in ApprChallenge
      BY <1>3 DEF Open
    <3>3. QED BY <1>4, <3>1, <3>2, ConsumedIsClosed DEF ApprResults, Open
  <2>3. QED BY <2>1, <2>2
<1>6. ASSUME NEW a \in Devices, NEW t \in Devices, NEW decision \in Decisions,
             TooManyApprovals(a, t, decision)
      PROVE  Open(approvals[j]) /\ approvals'[j] = approvals[j]
  BY <1>4, <1>6 DEF TooManyApprovals, Open
<1>7. ASSUME NEW i \in ApprIds, NEW valid \in BOOLEAN, RefuseDecision(i, valid)
      PROVE  Open(approvals[j]) /\ approvals'[j] = approvals[j]
  <2>1. ApprovalRefusal(approvals[i], valid) \in ApprResults \ {"open"}
    BY <1>7 DEF RefuseDecision, ApprovalRefusal, ApprResults
  <2>2. approvals[i] \in ApprChallenge
    BY <1>7 DEF RefuseDecision, Decidable, Open, TypeOK
  <2>3. i # j
    BY <1>7, <2>1, <2>2, ConsumedIsClosed DEF RefuseDecision, TypeOK, Open
  <2>4. QED BY <1>7, <2>3 DEF RefuseDecision, TypeOK, Open
<1>8. CASE Approval
  <2>1. CASE \E i \in ApprIds, a, t \in Devices, decision \in Decisions :
               ApprovalChallenge(i, a, t, decision)
    BY <1>5, <2>1
  <2>2. CASE \E a, t \in Devices, decision \in Decisions :
               TooManyApprovals(a, t, decision)
    BY <1>6, <2>2
  <2>3. CASE \E i \in ApprIds, valid \in BOOLEAN : RefuseDecision(i, valid)
    BY <1>7, <2>3
  <2>4. CASE \E i \in ApprIds : ApproveDevice(i) \/ CloseDevice(i)
    BY <2>4, SettledCloses DEF ApproveDevice, CloseDevice
  <2>5. QED BY <1>8, <2>1, <2>2, <2>3, <2>4 DEF Approval
<1>9. QED BY <1>1, <1>2, <1>8, StepSplit

\* Every step keeps approvers and targets apart.
LEMMA ApproverIsOtherStep ==
    TypeOK /\ ApproverIsOther /\ [Next]_vars => ApproverIsOther'
<1> SUFFICES ASSUME TypeOK, ApproverIsOther, [Next]_vars,
                    NEW j \in ApprIds, Open(approvals[j])'
             PROVE  approvals'[j].approver # approvals'[j].target
  BY DEF ApproverIsOther
<1>1. CASE Open(approvals[j]) /\ approvals'[j] = approvals[j]
  BY <1>1 DEF ApproverIsOther
<1>2. ASSUME NEW a \in Devices, NEW t \in Devices, NEW decision \in Decisions,
             ApprovalChallenge(j, a, t, decision),
             approvals'[j].approver = a, approvals'[j].target = t
      PROVE  approvals'[j].approver # approvals'[j].target
  BY <1>2 DEF ApprovalChallenge, Distinct
<1>3. QED BY <1>1, <1>2, OpenApprovals

\* Who rejects or revokes another device is active and stays so.
LEMMA LockoutStep ==
    TypeOK /\ ApproverIsOther /\ AccountNeverLockedOut /\ [Next]_vars
    => AccountNeverLockedOut'
<1> SUFFICES ASSUME TypeOK, ApproverIsOther, AccountNeverLockedOut, [Next]_vars
             PROVE  AccountNeverLockedOut'
  OBVIOUS
<1>1. CASE UNCHANGED registry
  BY <1>1 DEF registry, AccountNeverLockedOut
<1>2. ASSUME NEW i \in RegIds, BootstrapDevice(i) PROVE AccountNeverLockedOut'
  <2>1. regs[i].device \in Devices
    BY <1>2, AcceptedProof DEF Answerable, BootstrapDevice
  <2>2. QED BY <1>2, <2>1 DEF BootstrapDevice, AccountNeverLockedOut, TypeOK
<1>3. ASSUME NEW i \in RegIds, EnrollDevice(i) PROVE AccountNeverLockedOut'
  BY <1>3 DEF EnrollDevice, EnrolledStatus, AccountNeverLockedOut, TypeOK
<1>4. ASSUME NEW i \in ApprIds, ApproveDevice(i) PROVE AccountNeverLockedOut'
  <2>1. approvals[i].target \in Devices
    BY <1>4, AcceptedDecision DEF ApproveDevice
  <2>2. QED BY <1>4, <2>1 DEF ApproveDevice, AccountNeverLockedOut, TypeOK
<1>5. ASSUME NEW i \in ApprIds, CloseDevice(i) PROVE AccountNeverLockedOut'
  \* the approver was read active in this very transaction, and stays so
  <2>1. /\ approvals[i].approver \in Devices
        /\ status[approvals[i].approver] = "active"
        /\ approvals[i].approver # approvals[i].target
    BY <1>5, AcceptedDecision DEF CloseDevice, ApproverIsOther
  <2>2. status'[approvals[i].approver] = "active"
    BY <1>5, <2>1 DEF CloseDevice, TypeOK
  <2>3. QED BY <2>1, <2>2 DEF AccountNeverLockedOut
<1>6. QED BY <1>1, <1>2, <1>3, <1>4, <1>5, RegistryKept

\* Both hold in every reachable state.
LEMMA LockoutInduction ==
    Spec => [](ApproverIsOther /\ AccountNeverLockedOut)
<1>1. Init => ApproverIsOther /\ AccountNeverLockedOut
  BY DEF Init, ApproverIsOther, AccountNeverLockedOut, Open
<1>2. TypeOK /\ ApproverIsOther /\ AccountNeverLockedOut /\ [Next]_vars
      => (ApproverIsOther /\ AccountNeverLockedOut)'
  BY ApproverIsOtherStep, LockoutStep
<1>3. QED BY <1>1, <1>2, TypeCorrect, PTL DEF Spec

\* However revocations race, an account that ever had an active device has one.
THEOREM NeverLockedOut == Spec => []AccountNeverLockedOut
BY LockoutInduction, PTL

----------------------------------------------------------------------------
(* An open approval challenge still describes its target.                  *)

\* A step that changes a device closes the open challenges about it.
LEMMA CurrentStep ==
    TypeOK /\ TrustChecksHold /\ OpenApprovalIsCurrent /\ [Next]_vars
    => OpenApprovalIsCurrent'
<1> SUFFICES ASSUME TypeOK, TrustChecksHold, OpenApprovalIsCurrent, [Next]_vars,
                    NEW j \in ApprIds, Open(approvals[j])'
             PROVE  /\ status'[approvals'[j].target]
                         = ExpectedStatus(approvals'[j].decision)
                    /\ identityKey'[approvals'[j].target]
                         = approvals'[j].targetKey
                    /\ identityKey'[approvals'[j].approver]
                         = approvals'[j].approverKey
                    /\ approvals'[j].target # approvals'[j].approver
  BY DEF OpenApprovalIsCurrent, ExpectedStatus
<1> DEFINE c == approvals[j]
<1>1. ASSUME NEW a \in Devices, NEW t \in Devices, NEW decision \in Decisions,
             ApprovalChallenge(j, a, t, decision),
             approvals'[j].approver = a, approvals'[j].target = t,
             approvals'[j].decision = decision,
             approvals'[j].approverKey = identityKey[a],
             approvals'[j].targetKey = identityKey[t]
      PROVE  /\ status'[t] = ExpectedStatus(decision)
             /\ identityKey'[t] = approvals'[j].targetKey
             /\ identityKey'[a] = approvals'[j].approverKey
             /\ t # a
  BY <1>1 DEF ApprovalChallenge, ApprovalAdmitted, Distinct, registry
<1>2. ASSUME Open(c), approvals'[j] = c
      PROVE  /\ status'[c.target] = ExpectedStatus(c.decision)
             /\ identityKey'[c.target] = c.targetKey
             /\ identityKey'[c.approver] = c.approverKey
             /\ c.target # c.approver
  <2>1. /\ c \in ApprChallenge
        /\ status[c.target] = ExpectedStatus(c.decision)
        /\ identityKey[c.target] = c.targetKey
        /\ identityKey[c.approver] = c.approverKey
        /\ c.target # c.approver
    BY <1>2 DEF OpenApprovalIsCurrent, Open, TypeOK
  <2>2. /\ c.target \in Devices /\ c.approver \in Devices
        /\ c.targetKey \in IdentityKeys /\ c.approverKey \in IdentityKeys
    BY <2>1 DEF ApprChallenge
  <2>3. status[c.target] # "none" /\ status[c.approver] # "none"
    BY <2>1, <2>2, NullsAssumption DEF TrustChecksHold
  <2>4. CASE UNCHANGED registry
    BY <2>1, <2>4 DEF registry
  <2>5. ASSUME NEW i \in RegIds, BootstrapDevice(i) PROVE FALSE
    BY <2>2, <2>3, <2>5 DEF BootstrapDevice, Bootstrapping, TrustChecksHold
  <2>6. ASSUME NEW i \in RegIds, EnrollDevice(i)
        PROVE  /\ status'[c.target] = status[c.target]
               /\ identityKey'[c.target] = identityKey[c.target]
               /\ identityKey'[c.approver] = identityKey[c.approver]
    <3>1. /\ regs[i].device \in Devices
          /\ status[regs[i].device] # "none"
             => identityKey[regs[i].device] = regs[i].key
      BY <2>6, AcceptedProof DEF Answerable, EnrollDevice
    <3>2. QED BY <2>2, <2>3, <2>6, <3>1 DEF EnrollDevice, EnrolledStatus, TypeOK
  <2>7. ASSUME NEW i \in ApprIds, ApproveDevice(i) \/ CloseDevice(i)
        PROVE  /\ status'[c.target] = status[c.target]
               /\ identityKey' = identityKey
    <3>1. c.target # approvals[i].target
      BY <2>7, SettledCloses DEF ApproveDevice, CloseDevice
    <3>2. approvals[i].target \in Devices
      BY <2>7, AcceptedDecision DEF ApproveDevice, CloseDevice
    <3>3. QED BY <2>2, <2>7, <3>1, <3>2 DEF ApproveDevice, CloseDevice, TypeOK
  <2>8. QED BY <2>1, <2>4, <2>5, <2>6, <2>7, RegistryKept
<1>3. QED BY <1>1, <1>2, OpenApprovals

\* No signature is ever spent on a device state it was not asked for.
THEOREM ApprovalsCurrent == Spec => []OpenApprovalIsCurrent
<1>1. Init => OpenApprovalIsCurrent
  BY DEF Init, OpenApprovalIsCurrent, Open
<1>2. TypeOK /\ TrustChecksHold /\ OpenApprovalIsCurrent /\ [Next]_vars
      => OpenApprovalIsCurrent'
  BY CurrentStep
<1>3. QED BY <1>1, <1>2, TypeCorrect, ChecksHold, PTL DEF Spec

----------------------------------------------------------------------------
(* An identity key names one device.                                       *)

\* No step enrols a second device under an identity key.
LEMMA UniqueStep ==
    TypeOK /\ IdentityUnique /\ [Next]_vars => IdentityUnique'
<1> SUFFICES ASSUME TypeOK, IdentityUnique, [Next]_vars PROVE IdentityUnique'
  OBVIOUS
<1>1. CASE UNCHANGED identityKey
  BY <1>1 DEF IdentityUnique
<1>2. ASSUME NEW i \in RegIds, BootstrapDevice(i) \/ EnrollDevice(i)
      PROVE  IdentityUnique'
  <2>1. regs[i].device \in Devices /\ ~KeyTaken(regs[i])
    BY <1>2, AcceptedProof DEF Answerable, BootstrapDevice, EnrollDevice
  <2>2. identityKey' = [identityKey EXCEPT ![regs[i].device] = regs[i].key]
    BY <1>2 DEF BootstrapDevice, EnrollDevice
  <2>3. QED BY <2>1, <2>2 DEF KeyTaken, IdentityUnique, TypeOK
<1>3. QED BY <1>1, <1>2, RegistryKept
          DEF registry, ApproveDevice, CloseDevice

\* A key, refused or revoked, never comes back under another device id.
THEOREM KeysUnique == Spec => []IdentityUnique
<1>1. Init => IdentityUnique
  BY DEF Init, IdentityUnique
<1>2. TypeOK /\ IdentityUnique /\ [Next]_vars => IdentityUnique'
  BY UniqueStep
<1>3. QED BY <1>1, <1>2, TypeCorrect, PTL DEF Spec

----------------------------------------------------------------------------
(* Group keys follow the device.                                           *)

\* A device takes its circle keys along when its status changes.
LEMMA KeysStep ==
    TypeOK /\ TrustChecksHold /\ KeysFollowDevice /\ [Next]_vars
    => KeysFollowDevice'
<1> SUFFICES ASSUME TypeOK, TrustChecksHold, KeysFollowDevice, [Next]_vars
             PROVE  KeysFollowDevice'
  OBVIOUS
<1>1. CASE UNCHANGED <<registry, keys>>
  BY <1>1 DEF registry, KeysFollowDevice
<1>2. ASSUME NEW i \in RegIds, BootstrapDevice(i) PROVE KeysFollowDevice'
  <2>1. regs[i].device \in Devices
    BY <1>2, AcceptedProof DEF Answerable, BootstrapDevice
  <2>2. QED BY <1>2, <2>1
           DEF BootstrapDevice, Bootstrapping, TrustChecksHold, directory,
               KeysFollowDevice, TypeOK
<1>3. ASSUME NEW i \in RegIds, EnrollDevice(i) PROVE KeysFollowDevice'
  <2>1. regs[i].device \in Devices
    BY <1>3, AcceptedProof DEF Answerable, EnrollDevice
  <2>2. QED BY <1>3, <2>1
           DEF EnrollDevice, EnrolledStatus, directory, KeysFollowDevice, TypeOK
<1>4. ASSUME NEW i \in ApprIds, ApproveDevice(i) PROVE KeysFollowDevice'
  <2>1. approvals[i].target \in Devices
    BY <1>4, AcceptedDecision DEF ApproveDevice
  <2>2. QED BY <1>4, <2>1
           DEF ApproveDevice, directory, KeysFollowDevice, TypeOK
<1>5. ASSUME NEW i \in ApprIds, CloseDevice(i) PROVE KeysFollowDevice'
  <2> DEFINE t == approvals[i].target
  <2>1. /\ t \in Devices
        /\ approvals[i].decision \in Decisions \ {"approve"}
        /\ status[t] = ExpectedStatus(approvals[i].decision)
    BY <1>5, AcceptedDecision DEF CloseDevice
  <2>2. status' = [status EXCEPT ![t] = "revoked"] /\ UNCHANGED activated
    BY <1>5 DEF CloseDevice
  <2>3. CASE approvals[i].decision = "revoke"
    <3>1. keys' = KeysRevoked(t)
      BY <1>5, <2>3 DEF CloseDevice
    <3>2. ASSUME NEW g \in Groups, NEW d \in Devices, keys'[g][d] # NoRow
          PROVE  IF d = t THEN keys'[g][d].st = "revoked"
                          ELSE keys'[g][d] = keys[g][d]
      <4>1. keys'[g] = [keys[g] EXCEPT ![t] =
                IF @ # NoRow /\ @.st \in {"active", "legacy"}
                THEN [@ EXCEPT !.st = "revoked"] ELSE @]
        BY <3>1 DEF KeysRevoked
      <4>2. CASE d = t
        <5>1. keys[g][t] = NoRow => keys'[g][t] = NoRow
          BY <2>1, <4>1 DEF TypeOK
        <5>2. keys[g][t] \in GroupKey
          BY <2>1, <3>2, <4>2, <5>1 DEF TypeOK
        <5>3. QED BY <2>1, <4>1, <4>2, <5>2, NullsAssumption DEF TypeOK, GroupKey
      <4>3. CASE d # t
        BY <2>1, <4>1, <4>3 DEF TypeOK
      <4>4. QED BY <4>2, <4>3
    <3>3. QED BY <2>1, <2>2, <3>2 DEF KeysFollowDevice, TypeOK
  <2>4. CASE approvals[i].decision = "reject"
    <3>1. UNCHANGED keys /\ status[t] = "pending"
      BY <1>5, <2>1, <2>4 DEF CloseDevice, ExpectedStatus
    <3>2. QED BY <2>1, <2>2, <3>1
             DEF KeysFollowDevice, TrustChecksHold, TypeOK
  <2>5. QED BY <2>1, <2>3, <2>4 DEF Decisions
<1>6. CASE Publication
  <2> SUFFICES ASSUME NEW g \in Groups, NEW d \in Devices,
                      NEW v \in 1..MaxVersion, NEW m \in Materials,
                      PublishAdmitted(g, d), SetKey(g, d, v, m),
                      UNCHANGED registry
               PROVE  KeysFollowDevice'
    BY <1>6 DEF Publication, PublishFirst, PublishAgain, Rotate
  <2>1. status[d] = "active"
    BY DEF PublishAdmitted
  <2>2. QED BY <2>1 DEF SetKey, registry, KeysFollowDevice, TypeOK
<1>7. CASE Approval
  <2>1. CASE \/ \E i \in ApprIds, a, t \in Devices, decision \in Decisions :
                  ApprovalChallenge(i, a, t, decision)
             \/ \E a, t \in Devices, decision \in Decisions :
                  TooManyApprovals(a, t, decision)
             \/ \E i \in ApprIds, valid \in BOOLEAN : RefuseDecision(i, valid)
    BY <1>1, <2>1 DEF ApprovalChallenge, TooManyApprovals, RefuseDecision,
                      directory
  <2>2. QED BY <1>4, <1>5, <1>7, <2>1 DEF Approval
<1>8. CASE UNCHANGED <<registry, approvals, directory>>
  BY <1>1, <1>8 DEF directory
<1>9. QED BY <1>2, <1>3, <1>6, <1>7, <1>8, StepSplit

\* A device out of trust holds no usable group key, although the answer of
\* requireActiveDevice may be stale when it publishes.
THEOREM KeysFollow == Spec => []KeysFollowDevice
<1>1. Init => KeysFollowDevice
  <2> SUFFICES ASSUME Init PROVE KeysFollowDevice
    OBVIOUS
  <2>1. activated = {}
    BY DEF Init
  <2>2. ASSUME NEW g \in Groups, NEW d \in Devices, keys[g][d] # NoRow
        PROVE  keys[g][d].st # "active"
    <3>1. keys[g][d] \in [ver : 1..MaxVersion, mat : Materials,
                         st : {"legacy", "revoked"}, bound : {FALSE}]
      BY <2>2 DEF Init
    <3>2. QED BY <3>1
  <2>3. QED BY <2>1, <2>2 DEF KeysFollowDevice
<1>2. TypeOK /\ TrustChecksHold /\ KeysFollowDevice /\ [Next]_vars
      => KeysFollowDevice'
  BY KeysStep
<1>3. QED BY <1>1, <1>2, TypeCorrect, ChecksHold, PTL DEF Spec

----------------------------------------------------------------------------
(* Trust has one root.                                                     *)

\* Every step keeps the vouching tree rooted in the bootstrapped device.
LEMMA RootedStep ==
    TypeOK /\ TrustChecksHold /\ TrustIsRooted /\ [Next]_vars => TrustIsRooted'
<1> SUFFICES ASSUME TypeOK, TrustChecksHold, TrustIsRooted, [Next]_vars
             PROVE  TrustIsRooted'
  OBVIOUS
<1>1. CASE UNCHANGED <<activated, voucher>>
  BY <1>1 DEF TrustIsRooted
<1>2. ASSUME NEW i \in RegIds, BootstrapDevice(i) PROVE TrustIsRooted'
  <2>1. regs[i].device \in Devices
    BY <1>2, AcceptedProof DEF Answerable, BootstrapDevice
  <2>2. /\ activated' = {regs[i].device}
        /\ voucher' = [voucher EXCEPT ![regs[i].device] = regs[i].device]
    BY <1>2 DEF BootstrapDevice, Bootstrapping
  <2>3. \A d \in Devices : voucher[d] = NoDevice
    BY <1>2 DEF BootstrapDevice, Bootstrapping, TrustIsRooted
  <2>4. QED BY <2>1, <2>2, <2>3, NullsAssumption DEF TrustIsRooted, TypeOK
<1>3. ASSUME NEW i \in ApprIds, ApproveDevice(i) PROVE TrustIsRooted'
  <2> DEFINE t == approvals[i].target
             a == approvals[i].approver
  <2>1. /\ t \in Devices /\ a \in Devices
        /\ status[t] = "pending" /\ status[a] = "active"
    BY <1>3, AcceptedDecision DEF ApproveDevice, ExpectedStatus
  <2>2. t \notin activated /\ a \in activated
    BY <2>1 DEF TrustChecksHold
  <2>3. /\ activated' = activated \cup {t}
        /\ voucher' = [voucher EXCEPT ![t] = a]
    BY <1>3 DEF ApproveDevice
  <2> HIDE DEF t, a
  <2>4. /\ voucher'[t] = a
        /\ \A d \in activated : voucher'[d] = voucher[d] /\ voucher[d] # t
    BY <2>1, <2>2, <2>3 DEF TrustIsRooted, TypeOK
  <2>5. /\ activated' = {d \in Devices : voucher'[d] # NoDevice}
        /\ \A d \in activated' : voucher'[d] \in activated'
        /\ \A d, e \in activated' : voucher'[d] = d /\ voucher'[e] = e => d = e
    BY <2>1, <2>2, <2>3, <2>4, NullsAssumption DEF TrustIsRooted, TypeOK
  <2>6. ASSUME NEW S \in SUBSET activated', S # {},
               \A d \in S : voucher'[d] \in S
        PROVE  \E d \in S : voucher'[d] = d
    \* without the new device the set is still closed, and not empty
    <3> DEFINE T == S \ {t}
    <3>1. T \in SUBSET activated /\ T # {}
      BY <2>2, <2>3, <2>4, <2>6
    <3>2. \A d \in T : voucher[d] \in T
      BY <2>4, <2>6, <3>1
    <3>3. \E d \in T : voucher[d] = d
      BY <3>1, <3>2 DEF TrustIsRooted
    <3>4. QED BY <2>4, <3>1, <3>3
  <2>7. QED BY <2>5, <2>6 DEF TrustIsRooted
<1>4. QED BY <1>1, <1>2, <1>3, RegistryKept
          DEF registry, EnrollDevice, CloseDevice

\* Every activated device was vouched for, link by link, from the one device
\* that was bootstrapped.
THEOREM OneRoot == Spec => []TrustIsRooted
<1>1. Init => TrustIsRooted
  BY DEF Init, TrustIsRooted
<1>2. TypeOK /\ TrustChecksHold /\ TrustIsRooted /\ [Next]_vars
      => TrustIsRooted'
  BY RootedStep
<1>3. QED BY <1>1, <1>2, TypeCorrect, ChecksHold, PTL DEF Spec

----------------------------------------------------------------------------
(* The tables implement the life cycle.                                    *)

\* Every step of the registry is one of the lifecycle, or changes nothing there.
LEMMA LifecycleStep ==
    ASSUME TypeOK, TrustChecksHold, TrustIsRooted, ApproverIsOther,
           AccountNeverLockedOut, [Next]_vars
    PROVE  [Lifecycle!Next]_(Lifecycle!lifecycleVars)
<1> USE DEF Lifecycle!lifecycleVars
<1>1. CASE UNCHANGED registry
  BY <1>1 DEF registry
<1>2. ASSUME NEW i \in RegIds, BootstrapDevice(i)
      PROVE  Lifecycle!Bootstrap(regs[i].device) /\ regs[i].device \in Devices
  <2>1. regs[i].device \in Devices /\ activated = {}
    BY <1>2, AcceptedProof DEF Answerable, BootstrapDevice, Bootstrapping
  <2>2. QED BY <1>2, <2>1 DEF BootstrapDevice, Lifecycle!Bootstrap,
                              TrustChecksHold, TrustIsRooted
<1>3. ASSUME NEW i \in RegIds, EnrollDevice(i)
      PROVE  \/ Lifecycle!Enroll(regs[i].device) /\ regs[i].device \in Devices
             \/ UNCHANGED <<status, voucher>>
  <2>1. regs[i].device \in Devices /\ activated # {}
    BY <1>3, AcceptedProof DEF Answerable, EnrollDevice, Bootstrapping
  <2>2. Lifecycle!SomeActive
    BY <2>1 DEF AccountNeverLockedOut, Lifecycle!SomeActive
  <2>3. QED BY <1>3, <2>1, <2>2 DEF EnrollDevice, EnrolledStatus,
                                    Lifecycle!Enroll, TypeOK
<1>4. ASSUME NEW i \in ApprIds, ApproveDevice(i)
      PROVE  Lifecycle!Next
  <2>1. Lifecycle!Approve(approvals[i].approver, approvals[i].target)
    BY <1>4, AcceptedDecision DEF ApproveDevice, ExpectedStatus, Lifecycle!Approve
  <2>2. QED BY <1>4, <2>1, AcceptedDecision DEF ApproveDevice, Lifecycle!Next
<1>5. ASSUME NEW i \in ApprIds, CloseDevice(i)
      PROVE  Lifecycle!Next
  <2>1. approvals[i].approver # approvals[i].target
    BY <1>5 DEF CloseDevice, Decidable, ApproverIsOther
  <2>2. Lifecycle!Close(approvals[i].approver, approvals[i].target)
    BY <1>5, <2>1, AcceptedDecision
       DEF CloseDevice, ExpectedStatus, Decisions, Lifecycle!Close
  <2>3. QED BY <1>5, <2>2, AcceptedDecision DEF CloseDevice, Lifecycle!Next
<1>6. QED BY <1>1, <1>2, <1>3, <1>4, <1>5, RegistryKept DEF Lifecycle!Next

\* Every behaviour of the handlers and their tables is one of the life cycle:
\* a device enters trust by the one bootstrap or by an active device's word,
\* and leaves it for ever by the word of another active device.
THEOREM Implements == Spec => ImplementsLifecycle
<1>1. Init => Lifecycle!Init
  BY DEF Init, Lifecycle!Init
<1>2. TypeOK /\ TrustChecksHold /\ TrustIsRooted /\ ApproverIsOther
      /\ AccountNeverLockedOut /\ [Next]_vars
      => [Lifecycle!Next]_(Lifecycle!lifecycleVars)
  BY LifecycleStep
<1>3. QED BY <1>1, <1>2, TypeCorrect, ChecksHold, OneRoot, LockoutInduction, PTL
          DEF Spec, Lifecycle!Spec, ImplementsLifecycle
=============================================================================
