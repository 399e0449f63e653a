----------------------- MODULE DeviceDirectory_proofs -----------------------
(***************************************************************************)
(* Theorems about the tables DeviceTrust writes beside the registry: the   *)
(* group keys with their history, and the two challenge tables.            *)
(***************************************************************************)
EXTENDS DeviceTrust_proofs

\* Only rows the device has signed are active and none of them is a legacy row;
\* the history holds one row per group, device and version (its primary key).
DirectoryRows ==
    /\ \A g \in Groups, d \in Devices : keys[g][d] # NoRow =>
          /\ keys[g][d].bound => keys[g][d].st # "legacy"
          /\ keys[g][d].st = "active" => keys[g][d].bound
    /\ \A h, k \in history :
          h.group = k.group /\ h.device = k.device /\ h.ver = k.ver => h = k

\* Revoking a device's keys changes nothing but their status.
LEMMA RevokedRows ==
    ASSUME TypeOK, NEW t \in Devices, keys' = KeysRevoked(t),
           NEW g \in Groups, NEW d \in Devices
    PROVE  \/ keys'[g][d] = keys[g][d]
           \/ /\ keys[g][d] # NoRow /\ keys'[g][d] # NoRow
              /\ keys'[g][d].ver = keys[g][d].ver
              /\ keys'[g][d].mat = keys[g][d].mat
              /\ keys'[g][d].bound = keys[g][d].bound
              /\ keys'[g][d].st = "revoked"
<1>1. keys'[g] = [keys[g] EXCEPT ![t] =
          IF @ # NoRow /\ @.st \in {"active", "legacy"}
          THEN [@ EXCEPT !.st = "revoked"] ELSE @]
  BY DEF KeysRevoked
<1>2. keys[g] \in [Devices -> GroupKey \cup {NoRow}]
  BY DEF TypeOK
<1>3. CASE d # t \/ keys[g][d] = NoRow \/ keys[g][d].st \notin {"active", "legacy"}
  BY <1>1, <1>2, <1>3
<1>4. CASE d = t /\ keys[g][d] # NoRow /\ keys[g][d].st \in {"active", "legacy"}
  <2>1. keys[g][d] \in GroupKey
    BY <1>2, <1>4
  <2>2. keys'[g][d] = [keys[g][d] EXCEPT !.st = "revoked"]
    BY <1>1, <1>2, <1>4
  <2>3. keys'[g][d] \in GroupKey
    BY <2>1, <2>2 DEF GroupKey
  <2>4. QED BY <1>4, <2>1, <2>2, <2>3, NullsAssumption DEF GroupKey
<1>5. QED BY <1>3, <1>4

\* What a step may do to the directory: nothing, revoke the keys of a device,
\* or publish one key.
LEMMA DirectorySteps ==
    ASSUME TypeOK, [Next]_vars
    PROVE  \/ UNCHANGED directory
           \/ \E t \in Devices : keys' = KeysRevoked(t) /\ UNCHANGED history
           \/ Publication
<1>1. ASSUME NEW i \in RegIds, BootstrapDevice(i) \/ EnrollDevice(i)
      PROVE  UNCHANGED directory
  BY <1>1 DEF BootstrapDevice, EnrollDevice
<1>2. ASSUME NEW i \in ApprIds, CloseDevice(i)
      PROVE  \/ UNCHANGED directory
             \/ \E t \in Devices : keys' = KeysRevoked(t) /\ UNCHANGED history
  BY <1>2, AcceptedDecision DEF CloseDevice, directory
<1>3. CASE Approval
  <2>1. CASE \/ \E i \in ApprIds, a, t \in Devices, decision \in Decisions :
                  ApprovalChallenge(i, a, t, decision)
             \/ \E a, t \in Devices, decision \in Decisions :
                  TooManyApprovals(a, t, decision)
             \/ \E i \in ApprIds, valid \in BOOLEAN : RefuseDecision(i, valid)
             \/ \E i \in ApprIds : ApproveDevice(i)
    BY <2>1 DEF ApprovalChallenge, TooManyApprovals, RefuseDecision,
                ApproveDevice
  <2>2. QED BY <1>2, <1>3, <2>1 DEF Approval
<1>4. QED BY <1>1, <1>3, StepSplit

Superseded(g, d) == [group |-> g, device |-> d, ver |-> keys[g][d].ver,
                     mat |-> keys[g][d].mat]

\* What a publication does: the row is set, and either nothing was there, or
\* the row only gains its signature, or the next version replaces the row, which
\* the history then holds if it was ever signed.
LEMMA PublishSteps ==
    ASSUME TypeOK, HistoryContiguous, DirectoryRows,
           NEW g \in Groups, NEW d \in Devices, NEW v \in 1..MaxVersion,
           NEW m \in Materials,
           \/ PublishFirst(g, d, v, m) \/ PublishAgain(g, d, v, m)
           \/ Rotate(g, d, v, m)
    PROVE  /\ keys' = [keys EXCEPT ![g][d] =
                  [ver |-> v, mat |-> m, st |-> "active", bound |-> TRUE]]
           /\ \/ keys[g][d] = NoRow /\ UNCHANGED history
              \/ /\ keys[g][d] # NoRow
                 /\ v = keys[g][d].ver /\ m = keys[g][d].mat
                 /\ UNCHANGED history
              \/ /\ keys[g][d] # NoRow /\ v = keys[g][d].ver + 1
                 /\ history' = IF keys[g][d].bound
                               THEN history \cup {Superseded(g, d)} ELSE history
<1>1. keys' = [keys EXCEPT ![g][d] =
          [ver |-> v, mat |-> m, st |-> "active", bound |-> TRUE]]
  BY DEF PublishFirst, PublishAgain, Rotate, SetKey
<1>2. CASE PublishFirst(g, d, v, m) \/ PublishAgain(g, d, v, m)
  BY <1>1, <1>2 DEF PublishFirst, PublishAgain, Replaceable, SamePublication
<1>3. CASE Rotate(g, d, v, m)
  <2>1. /\ keys[g][d] # NoRow /\ keys[g][d].st # "revoked"
        /\ v = keys[g][d].ver + 1
        /\ history' = Archived(g, d)
    BY <1>3 DEF Rotate, Replaceable, NextVersion
  <2>2. keys[g][d] \in GroupKey
    BY <2>1 DEF TypeOK
  <2>3. CASE keys[g][d].bound
    <3>1. keys[g][d].st = "active"
      BY <2>1, <2>2, <2>3 DEF DirectoryRows, GroupKey
    <3>2. ~InHistory(g, d, keys[g][d].ver)
      BY <2>2 DEF InHistory, HistoryContiguous, GroupKey
    <3>3. QED BY <1>1, <2>1, <2>3, <3>1, <3>2 DEF Archived, Superseded
  <2>4. CASE ~keys[g][d].bound
    BY <1>1, <2>1, <2>4 DEF Archived, DirectoryRows
  <2>5. QED BY <2>3, <2>4
<1>4. QED BY <1>2, <1>3

\* Every step keeps the shape of the rows of the directory.
LEMMA DirectoryRowsStep ==
    TypeOK /\ HistoryContiguous /\ DirectoryRows /\ [Next]_vars => DirectoryRows'
<1> SUFFICES ASSUME TypeOK, HistoryContiguous, DirectoryRows, [Next]_vars
             PROVE  DirectoryRows'
  OBVIOUS
<1>1. CASE UNCHANGED directory
  BY <1>1 DEF directory, DirectoryRows
<1>2. ASSUME NEW t \in Devices, keys' = KeysRevoked(t), UNCHANGED history
      PROVE  DirectoryRows'
  BY <1>2, RevokedRows DEF DirectoryRows
<1>3. ASSUME NEW g \in Groups, NEW d \in Devices, NEW v \in 1..MaxVersion,
             NEW m \in Materials,
             \/ PublishFirst(g, d, v, m) \/ PublishAgain(g, d, v, m)
             \/ Rotate(g, d, v, m)
      PROVE  DirectoryRows'
  <2>1. keys' = [keys EXCEPT ![g][d] =
            [ver |-> v, mat |-> m, st |-> "active", bound |-> TRUE]]
    BY <1>3, PublishSteps
  <2>2. \A f \in Groups, e \in Devices : keys'[f][e] # NoRow =>
          /\ keys'[f][e].bound => keys'[f][e].st # "legacy"
          /\ keys'[f][e].st = "active" => keys'[f][e].bound
    BY <2>1 DEF DirectoryRows, TypeOK
  <2>3. history' \subseteq history \cup {Superseded(g, d)}
        /\ (keys[g][d] = NoRow => history' = history)
    BY <1>3, PublishSteps
  <2>4. ASSUME NEW h \in history, keys[g][d] # NoRow
        PROVE  ~(h.group = g /\ h.device = d /\ h.ver = keys[g][d].ver)
    <3>1. keys[g][d] \in GroupKey
      BY <2>4 DEF TypeOK
    <3>2. QED BY <3>1 DEF HistoryContiguous, GroupKey
  <2>5. QED BY <2>2, <2>3, <2>4 DEF DirectoryRows, Superseded
<1>4. QED BY <1>1, <1>2, <1>3, DirectorySteps DEF Publication

\* A version follows the last one of its device and circle: no gap opens.
LEMMA ContiguousStep ==
    TypeOK /\ HistoryContiguous /\ DirectoryRows /\ [Next]_vars
    => HistoryContiguous'
<1> SUFFICES ASSUME TypeOK, HistoryContiguous, DirectoryRows, [Next]_vars,
                    NEW h \in history'
             PROVE  /\ keys'[h.group][h.device] # NoRow
                    /\ keys'[h.group][h.device].bound
                    /\ h.ver < keys'[h.group][h.device].ver
                    /\ h.ver + 1 < keys'[h.group][h.device].ver
                       => InHistory(h.group, h.device, h.ver + 1)'
  BY DEF HistoryContiguous
<1> USE DEF InHistory
<1>1. CASE UNCHANGED directory
  BY <1>1 DEF directory, HistoryContiguous
<1>2. ASSUME NEW t \in Devices, keys' = KeysRevoked(t), UNCHANGED history
      PROVE  /\ keys'[h.group][h.device] # NoRow
             /\ keys'[h.group][h.device].bound
             /\ keys'[h.group][h.device].ver = keys[h.group][h.device].ver
  <2>1. h \in history /\ h.group \in Groups /\ h.device \in Devices
    BY <1>2 DEF TypeOK, SupersededKey
  <2>2. QED BY <1>2, <2>1, RevokedRows DEF HistoryContiguous
<1>3. ASSUME NEW g \in Groups, NEW d \in Devices, NEW v \in 1..MaxVersion,
             NEW m \in Materials,
             \/ PublishFirst(g, d, v, m) \/ PublishAgain(g, d, v, m)
             \/ Rotate(g, d, v, m)
      PROVE  /\ keys'[h.group][h.device] # NoRow
             /\ keys'[h.group][h.device].bound
             /\ h.ver < keys'[h.group][h.device].ver
             /\ h.ver + 1 < keys'[h.group][h.device].ver
                => InHistory(h.group, h.device, h.ver + 1)'
  <2> DEFINE new == [ver |-> v, mat |-> m, st |-> "active", bound |-> TRUE]
  <2>1. keys' = [keys EXCEPT ![g][d] = new]
    BY <1>3, PublishSteps
  <2>2. keys'[g][d] = new /\ new # NoRow
    <3>1. new \in GroupKey
      BY DEF GroupKey
    <3>2. keys'[g][d] = new
      BY <2>1 DEF TypeOK
    <3>3. QED BY <3>1, <3>2, NullsAssumption
  <2>3. history \subseteq history'
    BY <1>3, PublishSteps
  <2>4. CASE h.group # g \/ h.device # d
    <3>1. h \in history
      BY <1>3, <2>4, PublishSteps DEF Superseded
    <3>2. h.group \in Groups /\ h.device \in Devices
      BY <3>1 DEF TypeOK, SupersededKey
    <3>3. keys'[h.group][h.device] = keys[h.group][h.device]
      BY <2>1, <2>4, <3>2 DEF TypeOK
    <3>4. QED BY <2>3, <3>1, <3>3 DEF HistoryContiguous
  <2>5. CASE h.group = g /\ h.device = d /\ h \in history
    <3>1. /\ keys[g][d] # NoRow /\ keys[g][d].bound
          /\ h.ver < keys[g][d].ver
          /\ h.ver + 1 < keys[g][d].ver => InHistory(g, d, h.ver + 1)
      BY <2>5 DEF HistoryContiguous
    <3>2. keys[g][d] \in GroupKey /\ h \in SupersededKey
      BY <2>5, <3>1 DEF TypeOK
    <3>3. keys[g][d].ver \in Nat /\ h.ver \in Nat
      BY <3>2 DEF GroupKey, SupersededKey
    <3>4. CASE v = keys[g][d].ver
      BY <2>2, <2>3, <2>5, <3>1, <3>4
    <3>5. CASE v = keys[g][d].ver + 1 /\ Superseded(g, d) \in history'
      <4>1. h.ver + 1 = keys[g][d].ver => InHistory(g, d, h.ver + 1)'
        BY <3>5 DEF Superseded
      <4>2. QED BY <2>2, <2>3, <2>5, <3>1, <3>3, <3>5, <4>1
    <3>6. QED BY <1>3, <3>1, <3>4, <3>5, PublishSteps
  <2>6. CASE h \notin history
    <3>1. h = Superseded(g, d) /\ keys[g][d] # NoRow /\ v = keys[g][d].ver + 1
      BY <1>3, <2>6, PublishSteps
    <3>2. keys[g][d] \in GroupKey
      BY <3>1 DEF TypeOK
    <3>3. QED BY <2>2, <3>1, <3>2 DEF Superseded, GroupKey
  <2>7. QED BY <2>4, <2>5, <2>6
<1>4. CASE \E t \in Devices : keys' = KeysRevoked(t) /\ UNCHANGED history
  BY <1>2, <1>4 DEF HistoryContiguous
<1>5. CASE Publication
  BY <1>3, <1>5 DEF Publication
<1>6. QED BY <1>1, <1>4, <1>5, DirectorySteps

\* Both hold in every reachable state.
LEMMA DirectoryInduction == Spec => [](HistoryContiguous /\ DirectoryRows)
<1>1. Init => HistoryContiguous /\ DirectoryRows
  <2> SUFFICES ASSUME Init PROVE HistoryContiguous /\ DirectoryRows
    OBVIOUS
  <2>1. history = {}
    BY DEF Init
  <2>2. ASSUME NEW g \in Groups, NEW d \in Devices, keys[g][d] # NoRow
        PROVE  /\ keys[g][d].bound = FALSE
               /\ keys[g][d].st \in {"legacy", "revoked"}
    <3>1. keys[g][d] \in [ver : 1..MaxVersion, mat : Materials,
                          st : {"legacy", "revoked"}, bound : {FALSE}]
      BY <2>2 DEF Init
    <3>2. QED BY <3>1
  <2>3. QED BY <2>1, <2>2 DEF HistoryContiguous, DirectoryRows
<1>2. TypeOK /\ HistoryContiguous /\ DirectoryRows /\ [Next]_vars
      => (HistoryContiguous /\ DirectoryRows)'
  BY ContiguousStep, DirectoryRowsStep
<1>3. QED BY <1>1, <1>2, TypeCorrect, PTL DEF Spec

\* No superseded version is missing between the oldest one kept and the key in
\* use, however retries, rotations and revocations follow one another.
THEOREM HistoryHasNoGap == Spec => []HistoryContiguous
BY DirectoryInduction, PTL

----------------------------------------------------------------------------
(* A version number names one key, and no key is forgotten.                *)

\* A version of a history without gaps is published once, so it has one key.
LEMMA OneKeyPerVersion ==
    TypeOK /\ HistoryContiguous /\ DirectoryRows => VersionNamesOneKey
<1> SUFFICES ASSUME TypeOK, HistoryContiguous, DirectoryRows,
                    NEW g \in Groups,
                    NEW x \in Directory(g), NEW y \in Directory(g),
                    x.device = y.device, x.ver = y.ver
             PROVE  x.mat = y.mat
  BY DEF VersionNamesOneKey
<1> DEFINE Current(z) == \E d \in Devices :
               /\ keys[g][d] # NoRow
               /\ z = [device |-> d, ver |-> keys[g][d].ver,
                       mat |-> keys[g][d].mat]
           Past(z) == \E h \in history :
               /\ h.group = g
               /\ z = [device |-> h.device, ver |-> h.ver, mat |-> h.mat]
<1>1. \A z \in Directory(g) : Current(z) \/ Past(z)
  BY DEF Directory
<1>2. ASSUME NEW z, NEW w, Current(z), Past(w), z.device = w.device,
             z.ver = w.ver
      PROVE  FALSE
  <2>1. PICK d \in Devices : /\ keys[g][d] # NoRow
                             /\ z = [device |-> d, ver |-> keys[g][d].ver,
                                     mat |-> keys[g][d].mat]
    BY <1>2
  <2>2. PICK h \in history : /\ h.group = g
                             /\ w = [device |-> h.device, ver |-> h.ver,
                                     mat |-> h.mat]
    BY <1>2
  <2>3. h.ver < keys[g][d].ver /\ h.ver = keys[g][d].ver
    BY <1>2, <2>1, <2>2 DEF HistoryContiguous
  <2>4. keys[g][d] \in GroupKey
    BY <2>1 DEF TypeOK
  <2>5. QED BY <2>3, <2>4 DEF GroupKey
<1>3. CASE Current(x) /\ Current(y)
  BY <1>3
<1>4. CASE Past(x) /\ Past(y)
  BY <1>4 DEF DirectoryRows
<1>5. QED BY <1>1, <1>2, <1>3, <1>4

\* The version number in an old message leads every reader to the same key.
THEOREM VersionsName == Spec => []VersionNamesOneKey
BY DirectoryInduction, TypeCorrect, OneKeyPerVersion, PTL

\* No step takes a version out of a directory.
LEMMA NothingForgotten ==
    TypeOK /\ HistoryContiguous /\ DirectoryRows /\ [Next]_vars
    => \A g \in Groups : Directory(g) \subseteq Directory(g)'
<1> SUFFICES ASSUME TypeOK, HistoryContiguous, DirectoryRows, [Next]_vars,
                    NEW f \in Groups
             PROVE  Directory(f) \subseteq Directory(f)'
  OBVIOUS
<1> DEFINE Row(e) == [device |-> e, ver |-> keys[f][e].ver,
                      mat |-> keys[f][e].mat]
<1> SUFFICES ASSUME NEW e \in Devices, keys[f][e] # NoRow, keys[f][e].bound,
                    history \subseteq history'
             PROVE  Row(e) \in Directory(f)'
  <2>1. history \subseteq history'
    <3>1. UNCHANGED directory => history \subseteq history'
      BY DEF directory
    <3>2. Publication => history \subseteq history'
      BY PublishSteps DEF Publication
    <3>3. QED BY <3>1, <3>2, DirectorySteps
  <2>2. QED BY <2>1 DEF Directory
<1>1. CASE /\ keys'[f][e] # NoRow /\ keys'[f][e].bound
           /\ keys'[f][e].ver = keys[f][e].ver
           /\ keys'[f][e].mat = keys[f][e].mat
  BY <1>1 DEF Directory
<1>2. CASE UNCHANGED directory
  BY <1>1, <1>2 DEF directory
<1>3. ASSUME NEW t \in Devices, keys' = KeysRevoked(t)
      PROVE  Row(e) \in Directory(f)'
  BY <1>1, <1>3, RevokedRows
<1>4. ASSUME NEW g \in Groups, NEW d \in Devices, NEW v \in 1..MaxVersion,
             NEW m \in Materials,
             \/ PublishFirst(g, d, v, m) \/ PublishAgain(g, d, v, m)
             \/ Rotate(g, d, v, m)
      PROVE  Row(e) \in Directory(f)'
  <2> DEFINE new == [ver |-> v, mat |-> m, st |-> "active", bound |-> TRUE]
  <2>1. keys' = [keys EXCEPT ![g][d] = new]
    BY <1>4, PublishSteps
  <2>2. CASE f # g \/ e # d
    <3>1. keys'[f][e] = keys[f][e]
      BY <2>1, <2>2 DEF TypeOK
    <3>2. QED BY <1>1, <3>1
  <2>3. CASE f = g /\ e = d /\ v = keys[g][d].ver /\ m = keys[g][d].mat
    <3>1. new \in GroupKey
      BY DEF GroupKey
    <3>2. keys'[f][e] = new
      BY <2>1, <2>3 DEF TypeOK
    <3>3. new # NoRow
      BY <3>1, NullsAssumption
    <3>4. QED BY <1>1, <2>3, <3>2, <3>3
  <2>4. CASE f = g /\ e = d /\ Superseded(g, d) \in history'
    BY <2>4 DEF Superseded, Directory
  <2>5. QED BY <1>4, <2>2, <2>3, <2>4, PublishSteps
<1>5. QED BY <1>2, <1>3, <1>4, DirectorySteps DEF Publication

\* Nothing a step does takes a key out of the directory: a message signed with
\* it can be verified for ever.
THEOREM NeverForgets == Spec => DirectoryNeverForgets
<1>1. TypeOK /\ HistoryContiguous /\ DirectoryRows /\ [Next]_vars
      => [\A g \in Groups : Directory(g) \subseteq Directory(g)']_vars
  BY NothingForgotten
<1>2. QED BY <1>1, DirectoryInduction, TypeCorrect, PTL
         DEF Spec, DirectoryNeverForgets

----------------------------------------------------------------------------
(* The two challenge tables.                                               *)

\* What becomes of a row a purge looks at.
LEMMA PurgedRow ==
    ASSUME TypeOK
    PROVE  /\ \A i \in RegIds : Purged(regs)[i] \in {regs[i], NoChallenge}
           /\ \A i \in ApprIds :
                 Purged(approvals)[i] \in {approvals[i], NoChallenge}
BY DEF Purged, TypeOK

\* What every step does to the registration challenges.
LEMMA RegSteps ==
    ASSUME [Next]_vars
    PROVE  \/ UNCHANGED regs
           \/ \E i \in RegIds, d \in Devices, k \in IdentityKeys,
                 g \in Grants \cup {NoGrant} : RegistrationChallenge(i, d, k, g)
           \/ regs' = Purged(regs)
           \/ \E i \in RegIds, r \in RegResults \ {"open"} :
                 /\ Open(regs[i])
                 /\ regs' = [regs EXCEPT ![i] = Consumed(regs[i], r)]
<1>1. ASSUME NEW i \in RegIds, NEW valid \in BOOLEAN, RefuseProof(i, valid)
      PROVE  \E r \in RegResults \ {"open"} :
                /\ Open(regs[i])
                /\ regs' = [regs EXCEPT ![i] = Consumed(regs[i], r)]
  <2>1. RegistrationRefusal(regs[i], valid) \in RegResults \ {"open"}
    BY <1>1 DEF RefuseProof, RegistrationRefusal, RegResults
  <2>2. QED BY <1>1, <2>1 DEF RefuseProof, Answerable
<1>2. ASSUME NEW i \in RegIds, BootstrapDevice(i) \/ EnrollDevice(i)
      PROVE  \E r \in RegResults \ {"open"} :
                /\ Open(regs[i])
                /\ regs' = [regs EXCEPT ![i] = Consumed(regs[i], r)]
  BY <1>2 DEF BootstrapDevice, EnrollDevice, Answerable, RegResults
<1>3. ASSUME NEW d \in Devices, NEW k \in IdentityKeys,
             NEW g \in Grants \cup {NoGrant}, TooManyRegistrations(d, k, g)
      PROVE  regs' = Purged(regs)
  BY <1>3 DEF TooManyRegistrations
<1>4. Approval => UNCHANGED regs
  BY DEF Approval, ApprovalChallenge, TooManyApprovals, RefuseDecision,
         ApproveDevice, CloseDevice
<1>5. Publication => UNCHANGED regs
  BY DEF Publication, PublishFirst, PublishAgain, Rotate
<1>6. CASE Registration
  BY <1>1, <1>2, <1>3, <1>6 DEF Registration
<1>7. QED BY <1>4, <1>5, <1>6
          DEF Next, vars, IssueGrant, Authenticate, RequestsEnd, JoinGroup, Tick

\* What every step does to the approval challenges.
LEMMA ApprSteps ==
    ASSUME [Next]_vars
    PROVE  \/ UNCHANGED approvals
           \/ \E i \in ApprIds, a, t \in Devices, decision \in Decisions :
                 ApprovalChallenge(i, a, t, decision)
           \/ approvals' = Purged(approvals)
           \/ \E i \in ApprIds, r \in ApprResults \ {"open"} :
                 /\ Open(approvals[i])
                 /\ approvals' = [approvals EXCEPT ![i] =
                                    Consumed(approvals[i], r)]
           \/ \E i \in ApprIds, result \in {"approved", "rejected"} :
                 Decidable(i) /\ approvals' = Settled(i, result)
<1>1. ASSUME NEW i \in ApprIds, NEW valid \in BOOLEAN, RefuseDecision(i, valid)
      PROVE  \E r \in ApprResults \ {"open"} :
                /\ Open(approvals[i])
                /\ approvals' = [approvals EXCEPT ![i] =
                                   Consumed(approvals[i], r)]
  <2>1. ApprovalRefusal(approvals[i], valid) \in ApprResults \ {"open"}
    BY <1>1 DEF RefuseDecision, ApprovalRefusal, ApprResults
  <2>2. QED BY <1>1, <2>1 DEF RefuseDecision, Decidable
<1>2. ASSUME NEW i \in ApprIds, ApproveDevice(i) \/ CloseDevice(i)
      PROVE  \E result \in {"approved", "rejected"} :
                 Decidable(i) /\ approvals' = Settled(i, result)
  BY <1>2 DEF ApproveDevice, CloseDevice
<1>3. ASSUME NEW a \in Devices, NEW t \in Devices, NEW decision \in Decisions,
             TooManyApprovals(a, t, decision)
      PROVE  approvals' = Purged(approvals)
  BY <1>3 DEF TooManyApprovals
<1>4. \A i \in RegIds : BootstrapDevice(i) \/ EnrollDevice(i) => UNCHANGED approvals
  BY DEF BootstrapDevice, EnrollDevice
<1>5. Publication => UNCHANGED approvals
  BY DEF Publication, PublishFirst, PublishAgain, Rotate
<1>6. CASE Approval
  BY <1>1, <1>2, <1>3, <1>6 DEF Approval
<1>7. QED BY <1>4, <1>5, <1>6, StepSplit

\* A consumed registration challenge is not open.
LEMMA ConsumedRegIsClosed ==
    ASSUME NEW c \in RegChallenge, NEW r \in RegResults, r # "open"
    PROVE  ~Open(Consumed(c, r))
BY DEF Open, Consumed, RegChallenge

\* What a new registration challenge leaves of the other rows.
LEMMA RegIssued ==
    ASSUME TypeOK, NEW i \in RegIds, NEW d \in Devices, NEW k \in IdentityKeys,
           NEW g \in Grants \cup {NoGrant}, RegistrationChallenge(i, d, k, g),
           NEW j \in RegIds, j # i
    PROVE  /\ Open(regs'[j]) => /\ regs'[j] = regs[j]
                                /\ regs[j].device # d
           /\ ~Open(regs[j]) => regs'[j] \in {regs[j], NoChallenge}
<1> DEFINE kept == Purged(regs)
<1>1. kept \in [RegIds -> RegChallenge \cup {NoChallenge}]
  BY PurgedType
<1>2. regs'[j] = IF j \in OfDevice(kept, d) /\ Open(kept[j])
                 THEN Consumed(kept[j], "superseded") ELSE kept[j]
  BY <1>1 DEF RegistrationChallenge, Replaced
<1>3. kept[j] \in {regs[j], NoChallenge}
  BY PurgedRow
<1>4. Open(kept[j]) => kept[j] \in RegChallenge /\ kept[j] = regs[j]
  BY <1>1, <1>3 DEF Open
<1>5. Open(kept[j]) => ~Open(Consumed(kept[j], "superseded"))
  BY <1>4, ConsumedRegIsClosed DEF RegResults
<1>6. ASSUME Open(regs'[j]) PROVE regs'[j] = regs[j] /\ regs[j].device # d
  <2>1. regs'[j] = kept[j] /\ Open(kept[j]) /\ j \notin OfDevice(kept, d)
    BY <1>2, <1>5, <1>6
  <2>2. QED BY <1>4, <2>1 DEF OfDevice, Open
<1>7. ASSUME ~Open(regs[j]) PROVE regs'[j] \in {regs[j], NoChallenge}
  BY <1>2, <1>3, <1>4, <1>7
<1>8. QED BY <1>6, <1>7

\* What a new approval challenge leaves of the other rows.
LEMMA ApprIssued ==
    ASSUME TypeOK, NEW i \in ApprIds, NEW a \in Devices, NEW t \in Devices,
           NEW decision \in Decisions, ApprovalChallenge(i, a, t, decision),
           NEW j \in ApprIds, j # i
    PROVE  /\ Open(approvals'[j]) =>
                 /\ approvals'[j] = approvals[j]
                 /\ ~(approvals[j].approver = a /\ approvals[j].target = t)
           /\ ~Open(approvals[j]) => approvals'[j] \in {approvals[j], NoChallenge}
<1> DEFINE kept == Purged(approvals)
<1>1. kept \in [ApprIds -> ApprChallenge \cup {NoChallenge}]
  BY PurgedType
<1>2. approvals'[j] = IF j \in OfPair(kept, a, t) /\ Open(kept[j])
                      THEN Consumed(kept[j], "superseded") ELSE kept[j]
  BY <1>1 DEF ApprovalChallenge, Replaced
<1>3. kept[j] \in {approvals[j], NoChallenge}
  BY PurgedRow
<1>4. Open(kept[j]) => kept[j] \in ApprChallenge /\ kept[j] = approvals[j]
  BY <1>1, <1>3 DEF Open
<1>5. Open(kept[j]) => ~Open(Consumed(kept[j], "superseded"))
  BY <1>4, ConsumedIsClosed DEF ApprResults
<1>6. ASSUME Open(approvals'[j])
      PROVE  /\ approvals'[j] = approvals[j]
             /\ ~(approvals[j].approver = a /\ approvals[j].target = t)
  <2>1. /\ approvals'[j] = kept[j] /\ Open(kept[j])
        /\ j \notin OfPair(kept, a, t)
    BY <1>2, <1>5, <1>6
  <2>2. QED BY <1>4, <2>1 DEF OfPair, OfTarget, Open
<1>7. ASSUME ~Open(approvals[j]) PROVE approvals'[j] \in {approvals[j], NoChallenge}
  BY <1>2, <1>3, <1>4, <1>7
<1>8. QED BY <1>6, <1>7

\* A new registration challenge of a device replaces the open one.
LEMMA OneOpenRegStep ==
    ASSUME TypeOK, OneOpenPerSubject, [Next]_vars,
           NEW i \in RegIds, NEW j \in RegIds,
           Open(regs'[i]), Open(regs'[j]), regs'[i].device = regs'[j].device
    PROVE  i = j
<1>1. CASE /\ Open(regs[i]) /\ regs'[i] = regs[i]
           /\ Open(regs[j]) /\ regs'[j] = regs[j]
  BY <1>1 DEF OneOpenPerSubject
<1>2. CASE UNCHANGED regs
  BY <1>1, <1>2
<1>3. ASSUME NEW n \in RegIds, NEW d \in Devices, NEW k \in IdentityKeys,
             NEW g \in Grants \cup {NoGrant}, RegistrationChallenge(n, d, k, g)
      PROVE  i = j
  <2>1. \A m \in RegIds \ {n} : Open(regs'[m]) =>
           regs'[m] = regs[m] /\ regs[m].device # d
    BY <1>3, RegIssued
  <2>2. regs'[n].device = d
    <3>1. Purged(regs) \in [RegIds -> RegChallenge \cup {NoChallenge}]
      BY PurgedType
    <3>2. QED BY <1>3, <3>1 DEF RegistrationChallenge, Replaced
  <2>3. CASE i # n /\ j # n
    <3>1. regs'[i] = regs[i] /\ regs'[j] = regs[j]
      BY <2>1, <2>3
    <3>2. QED BY <1>1, <3>1
  <2>4. QED BY <2>1, <2>2, <2>3
<1>4. CASE regs' = Purged(regs)
  BY <1>1, <1>4, PurgedRow DEF Open
<1>5. ASSUME NEW n \in RegIds, NEW r \in RegResults \ {"open"}, Open(regs[n]),
             regs' = [regs EXCEPT ![n] = Consumed(regs[n], r)]
      PROVE  i = j
  <2>1. regs[n] \in RegChallenge
    BY <1>5 DEF Open, TypeOK
  <2>2. regs'[n] = Consumed(regs[n], r) /\ ~Open(regs'[n])
    BY <1>5, <2>1, ConsumedRegIsClosed DEF TypeOK
  <2>3. i # n /\ j # n
    BY <2>2
  <2>4. regs'[i] = regs[i] /\ regs'[j] = regs[j]
    BY <1>5, <2>3 DEF TypeOK
  <2>5. QED BY <1>1, <2>4
<1>6. QED BY <1>2, <1>3, <1>4, <1>5, RegSteps

\* A new approval challenge of two devices replaces the open one.
LEMMA OneOpenApprStep ==
    ASSUME TypeOK, OneOpenPerSubject, [Next]_vars,
           NEW i \in ApprIds, NEW j \in ApprIds,
           Open(approvals'[i]), Open(approvals'[j]),
           approvals'[i].approver = approvals'[j].approver,
           approvals'[i].target = approvals'[j].target
    PROVE  i = j
<1>1. \A m \in ApprIds : Open(approvals'[m]) =>
         \/ Open(approvals[m]) /\ approvals'[m] = approvals[m]
         \/ \E a, t \in Devices, decision \in Decisions :
              /\ ApprovalChallenge(m, a, t, decision)
              /\ approvals'[m].approver = a /\ approvals'[m].target = t
  BY OpenApprovals DEF Open
<1>2. CASE /\ Open(approvals[i]) /\ approvals'[i] = approvals[i]
           /\ Open(approvals[j]) /\ approvals'[j] = approvals[j]
  BY <1>2 DEF OneOpenPerSubject
<1>3. ASSUME NEW m \in ApprIds, NEW n \in ApprIds, m # n,
             NEW a \in Devices, NEW t \in Devices, NEW decision \in Decisions,
             ApprovalChallenge(m, a, t, decision),
             approvals'[n].approver = a, approvals'[n].target = t,
             Open(approvals'[n])
      PROVE  FALSE
  BY <1>3, ApprIssued
<1>4. QED BY <1>1, <1>2, <1>3

\* However challenges are asked for, answered, expired and purged, a device and
\* an approver of a target never have two of them to answer.
THEOREM OneOpen == Spec => []OneOpenPerSubject
<1>1. Init => OneOpenPerSubject
  BY DEF Init, OneOpenPerSubject, Open
<1>2. TypeOK /\ OneOpenPerSubject /\ [Next]_vars => OneOpenPerSubject'
  BY OneOpenRegStep, OneOpenApprStep DEF OneOpenPerSubject, Open
<1>3. QED BY <1>1, <1>2, TypeCorrect, PTL DEF Spec

\* A consumed row is kept as it is or purged, whichever handler runs.
LEMMA FinalStep ==
    ASSUME TypeOK, [Next]_vars
    PROVE  /\ \A i \in RegIds : ~Open(regs[i]) /\ regs[i] # NoChallenge
                  => regs'[i] \in {regs[i], NoChallenge}
           /\ \A i \in ApprIds : ~Open(approvals[i]) /\ approvals[i] # NoChallenge
                  => approvals'[i] \in {approvals[i], NoChallenge}
<1>1. ASSUME NEW i \in RegIds, ~Open(regs[i]), regs[i] # NoChallenge
      PROVE  regs'[i] \in {regs[i], NoChallenge}
  <2>1. ASSUME NEW n \in RegIds, NEW d \in Devices, NEW k \in IdentityKeys,
               NEW g \in Grants \cup {NoGrant}, RegistrationChallenge(n, d, k, g)
        PROVE  regs'[i] \in {regs[i], NoChallenge}
    <3>1. i # n
      BY <1>1, <2>1 DEF RegistrationChallenge
    <3>2. QED BY <1>1, <2>1, <3>1, RegIssued
  <2>2. ASSUME NEW n \in RegIds, NEW r, Open(regs[n]),
               regs' = [regs EXCEPT ![n] = Consumed(regs[n], r)]
        PROVE  regs'[i] = regs[i]
    BY <1>1, <2>2 DEF TypeOK
  <2>3. CASE regs' = Purged(regs)
    BY <2>3, PurgedRow
  <2>4. QED BY <2>1, <2>2, <2>3, RegSteps
<1>2. ASSUME NEW i \in ApprIds, ~Open(approvals[i]), approvals[i] # NoChallenge
      PROVE  approvals'[i] \in {approvals[i], NoChallenge}
  <2>1. ASSUME NEW n \in ApprIds, NEW a \in Devices, NEW t \in Devices,
               NEW decision \in Decisions, ApprovalChallenge(n, a, t, decision)
        PROVE  approvals'[i] \in {approvals[i], NoChallenge}
    <3>1. i # n
      BY <1>2, <2>1 DEF ApprovalChallenge
    <3>2. QED BY <1>2, <2>1, <3>1, ApprIssued
  <2>2. ASSUME NEW n \in ApprIds, NEW r, Open(approvals[n]),
               approvals' = [approvals EXCEPT ![n] = Consumed(approvals[n], r)]
        PROVE  approvals'[i] = approvals[i]
    BY <1>2, <2>2 DEF TypeOK
  <2>3. CASE approvals' = Purged(approvals)
    BY <2>3, PurgedRow
  <2>4. ASSUME NEW n \in ApprIds, NEW result, Decidable(n),
               approvals' = Settled(n, result)
        PROVE  approvals'[i] = approvals[i]
    BY <1>2, <2>4 DEF Settled, Decidable
  <2>5. QED BY <2>1, <2>2, <2>3, <2>4, ApprSteps
<1>3. QED BY <1>1, <1>2

\* No verdict is ever taken back or given twice: whatever reaches a challenge
\* that was answered, expired or superseded leaves its row alone.
THEOREM Final == Spec => VerdictsAreFinal
<1>1. TypeOK /\ [Next]_vars
      => [ /\ \A i \in RegIds : ~Open(regs[i]) /\ regs[i] # NoChallenge
                 => regs'[i] \in {regs[i], NoChallenge}
           /\ \A i \in ApprIds : ~Open(approvals[i]) /\ approvals[i] # NoChallenge
                 => approvals'[i] \in {approvals[i], NoChallenge}]_vars
  BY FinalStep
<1>2. QED BY <1>1, TypeCorrect, PTL DEF Spec, VerdictsAreFinal
=============================================================================
