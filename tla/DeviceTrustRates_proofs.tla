---------------------- MODULE DeviceTrustRates_proofs ----------------------
(***************************************************************************)
(* The rate of challenges and the number of outstanding ones, in both      *)
(* tables, for any limits and any rows.                                    *)
(***************************************************************************)
EXTENDS DeviceTrustRates, DeviceDirectory_proofs, FiniteSetTheorems

Rows(x) == {i \in Ids(x) : Table(x)[i] # NoChallenge}

\* the rows of table x that still count at time t, and those about device d
Live(x, t) == {i \in Rows(x) : Table(x)[i].created + Window > t}
LiveFor(x, t, d) == {i \in Live(x, t) : Subject(x, Table(x)[i]) = d}

\* the issues that count at time t, and those about device d
IssuedSince(x, t) == {m \in DOMAIN issued[x] : issued[x][m].at + Window > t}
IssuedFor(x, t, d) == {m \in IssuedSince(x, t) : issued[x][m].subject = d}

\* the rows that can still be answered
Pending(x) == {i \in Ids(x) : Outstanding(Table(x)[i])}

\* The rows of table x are finitely many, none from the future, and none ends
\* before it was created.
RowsOK(x) ==
    /\ IsFiniteSet(Rows(x))
    /\ \A i \in Rows(x) : /\ Table(x)[i].created <= now
                          /\ Table(x)[i].created <= Table(x)[i].end

\* A challenge that still counts, now or later, has its row: what is purged no
\* longer counts.
CountedOK(x) ==
    /\ issued[x] \in Seq([subject : Devices, at : Nat])
    /\ \A t \in Nat : t >= now =>
          /\ Cardinality(IssuedSince(x, t)) <= Cardinality(Live(x, t))
          /\ \A d \in Devices :
                Cardinality(IssuedFor(x, t, d)) <= Cardinality(LiveFor(x, t, d))

\* ChallengeRate, of one table
RateOf(x) ==
    \A n \in DOMAIN issued[x] :
        /\ Cardinality(InWindow(x, n)) <= MaxPerAccount
        /\ Cardinality({m \in InWindow(x, n) :
                          issued[x][m].subject = issued[x][n].subject})
              <= MaxPerSubject

\* OutstandingBounded, of one table
BoundOf(x) == Cardinality(Pending(x)) <= MaxOutstanding

\* Row i of table x is inserted, about device u.
RegIssues(i, u) == \E k \in IdentityKeys, g \in Grants \cup {NoGrant} :
                      RegistrationChallenge(i, u, k, g)
ApprIssues(i, u) == \E a \in Devices, decision \in Decisions :
                       ApprovalChallenge(i, a, u, decision)
Issues(x, i, u) == IF x = "registration" THEN RegIssues(i, u)
                                         ELSE ApprIssues(i, u)

----------------------------------------------------------------------------
\* The types of a row, in either table.
LEMMA RowType ==
    ASSUME TypeOK, NEW x \in Tables, NEW i \in Rows(x)
    PROVE  /\ Table(x)[i].created \in Nat /\ Table(x)[i].end \in Nat
           /\ now \in Nat /\ TTL \in Nat
           /\ Window \in Nat /\ Retention \in Nat /\ Window <= Retention
<1>1. CASE x = "registration"
  <2>1. Table(x)[i] \in RegChallenge
    BY <1>1 DEF Rows, Table, Ids, TypeOK
  <2>2. QED BY <2>1, TimesAssumption DEF RegChallenge, Times, TypeOK
<1>2. CASE x = "approval"
  <2>1. Table(x)[i] \in ApprChallenge
    BY <1>2 DEF Rows, Table, Ids, TypeOK
  <2>2. QED BY <2>1, TimesAssumption DEF ApprChallenge, Times, TypeOK
<1>3. QED BY <1>1, <1>2 DEF Tables

\* What the challenge handlers write.
LEMMA RegIssuedRow ==
    ASSUME TypeOK, NEW i \in RegIds, NEW d \in Devices, RegIssues(i, d)
    PROVE  /\ regs[i] = NoChallenge /\ Open(regs'[i])
           /\ regs'[i].device = d
           /\ regs'[i].created = now
           /\ regs'[i].end = now + TTL
<1>1. PICK k \in IdentityKeys, g \in Grants \cup {NoGrant} :
         RegistrationChallenge(i, d, k, g)
  BY DEF RegIssues
<1> DEFINE new == [device |-> d, key |-> k, grant |-> g, created |-> now,
                   end |-> now + TTL, result |-> "open"]
<1>2. Purged(regs) \in [RegIds -> RegChallenge \cup {NoChallenge}]
  BY PurgedType
<1>3. regs'[i] = new /\ regs[i] = NoChallenge
  BY <1>1, <1>2 DEF RegistrationChallenge, Replaced
<1>4. new \in RegChallenge
  BY NowTimes DEF RegChallenge, RegResults
<1>5. new # NoChallenge
  BY <1>4, NullsAssumption
<1>6. QED BY <1>3, <1>5 DEF Open

LEMMA ApprIssuedRow ==
    ASSUME TypeOK, TrustChecksHold, NEW i \in ApprIds, NEW t \in Devices,
           ApprIssues(i, t)
    PROVE  /\ approvals[i] = NoChallenge /\ Open(approvals'[i])
           /\ approvals'[i].target = t
           /\ approvals'[i].created = now
           /\ approvals'[i].end = now + TTL
<1>1. PICK a \in Devices, decision \in Decisions :
         ApprovalChallenge(i, a, t, decision)
  BY DEF ApprIssues
<1> DEFINE new == [approver |-> a, approverKey |-> identityKey[a],
                   target |-> t, targetKey |-> identityKey[t],
                   decision |-> decision, created |-> now,
                   end |-> now + TTL, result |-> "open"]
<1>2. Purged(approvals) \in [ApprIds -> ApprChallenge \cup {NoChallenge}]
  BY PurgedType
<1>3. approvals'[i] = new /\ approvals[i] = NoChallenge
  BY <1>1, <1>2 DEF ApprovalChallenge, Replaced
<1>4. identityKey[a] \in IdentityKeys /\ identityKey[t] \in IdentityKeys
  BY <1>1 DEF ApprovalChallenge, ApprovalAdmitted, ExpectedStatus,
              TrustChecksHold, TypeOK
<1>5. new \in ApprChallenge
  BY <1>4, NowTimes DEF ApprChallenge, ApprResults
<1>6. new # NoChallenge
  BY <1>5, NullsAssumption
<1>7. QED BY <1>3, <1>6 DEF Open

LEMMA IssuedRow ==
    ASSUME TypeOK, TrustChecksHold, NEW x \in Tables, NEW i \in Ids(x),
           NEW u \in Devices, Issues(x, i, u)
    PROVE  /\ Table(x)[i] = NoChallenge /\ Open(Table(x)'[i])
           /\ Table(x)'[i] # NoChallenge
           /\ Subject(x, Table(x)'[i]) = u
           /\ Table(x)'[i].created = now
           /\ Table(x)'[i].end = now + TTL
<1>1. CASE x = "registration"
  BY <1>1, RegIssuedRow DEF Ids, Table, Subject, Issues, Open
<1>2. CASE x = "approval"
  BY <1>2, ApprIssuedRow DEF Ids, Table, Subject, Issues, Open
<1>3. QED BY <1>1, <1>2 DEF Tables

\* A new challenge is the only row its step opens.
LEMMA OthersKept ==
    ASSUME TypeOK, NEW x \in Tables, NEW i \in Ids(x), NEW u \in Devices,
           Issues(x, i, u), NEW j \in Ids(x), j # i, Open(Table(x)'[j])
    PROVE  Table(x)'[j] = Table(x)[j]
<1>1. CASE x = "registration"
  BY <1>1, RegIssued DEF Ids, Table, Issues, RegIssues
<1>2. CASE x = "approval"
  BY <1>2, ApprIssued DEF Ids, Table, Issues, ApprIssues
<1>3. QED BY <1>1, <1>2 DEF Tables

\* A step inserts one row at most.
LEMMA OneIssue ==
    ASSUME TypeOK, TrustChecksHold, NEW x \in Tables,
           NEW i \in Ids(x), NEW u \in Devices, Issues(x, i, u),
           NEW j \in Ids(x), NEW v \in Devices, Issues(x, j, v)
    PROVE  i = j
<1>1. Open(Table(x)'[j]) /\ Table(x)[j] = NoChallenge
  BY IssuedRow
<1>2. i # j => Table(x)'[j] = Table(x)[j]
  BY <1>1, OthersKept
<1>3. QED BY <1>1, <1>2 DEF Open

----------------------------------------------------------------------------
\* Consuming a row changes neither its subject nor its creation.
LEMMA RegConsumedFields ==
    ASSUME TypeOK, NEW i \in RegIds, regs[i] # NoChallenge, NEW r,
           r \in RegResults
    PROVE  /\ Consumed(regs[i], r) # NoChallenge
           /\ Consumed(regs[i], r).device = regs[i].device
           /\ Consumed(regs[i], r).created = regs[i].created
           /\ Consumed(regs[i], r).end = now
<1>1. regs[i] \in RegChallenge
  BY DEF TypeOK
<1>2. Consumed(regs[i], r) \in RegChallenge
  BY <1>1, ConsumedReg
<1>3. Consumed(regs[i], r) # NoChallenge
  BY <1>2, NullsAssumption
<1>4. QED BY <1>1, <1>3 DEF Consumed, RegChallenge

LEMMA ApprConsumedFields ==
    ASSUME TypeOK, NEW i \in ApprIds, approvals[i] # NoChallenge, NEW r,
           r \in ApprResults
    PROVE  /\ Consumed(approvals[i], r) # NoChallenge
           /\ Consumed(approvals[i], r).target = approvals[i].target
           /\ Consumed(approvals[i], r).created = approvals[i].created
           /\ Consumed(approvals[i], r).end = now
<1>1. approvals[i] \in ApprChallenge
  BY DEF TypeOK
<1>2. Consumed(approvals[i], r) \in ApprChallenge
  BY <1>1, ConsumedAppr
<1>3. Consumed(approvals[i], r) # NoChallenge
  BY <1>2, NullsAssumption
<1>4. QED BY <1>1, <1>3 DEF Consumed, ApprChallenge

\* A row after a step is the row it was or that row consumed, unless it is the
\* new challenge or was purged.
LEMMA RegRowSteps ==
    ASSUME TypeOK, [Next]_vars, NEW j \in RegIds
    PROVE  \/ /\ regs[j] # NoChallenge /\ regs'[j] # NoChallenge
              /\ regs'[j].device = regs[j].device
              /\ regs'[j].created = regs[j].created
              /\ regs'[j].end \in {regs[j].end, now}
           \/ regs[j] = NoChallenge /\ regs'[j] = NoChallenge
           \/ /\ regs[j] # NoChallenge /\ regs'[j] = NoChallenge
              /\ regs[j].end + Retention < now
           \/ \E u \in Devices : RegIssues(j, u)
<1> DEFINE Consumes == regs[j] # NoChallenge /\ \E r \in RegResults :
                          regs'[j] = Consumed(regs[j], r)
           Purges == /\ regs[j] # NoChallenge /\ regs'[j] = NoChallenge
                     /\ regs[j].end + Retention < now
<1>1. CASE regs'[j] = regs[j]
  BY <1>1
<1>2. CASE Consumes
  BY <1>2, RegConsumedFields
<1>3. \/ Purged(regs)[j] = regs[j]
      \/ /\ regs[j] # NoChallenge /\ Purged(regs)[j] = NoChallenge
         /\ regs[j].end + Retention < now
  BY DEF Purged, TypeOK
<1>4. ASSUME NEW i \in RegIds, i # j, NEW d \in Devices, NEW k \in IdentityKeys,
             NEW g \in Grants \cup {NoGrant}, RegistrationChallenge(i, d, k, g)
      PROVE  regs'[j] = regs[j] \/ Consumes \/ Purges
  <2> DEFINE kept == Purged(regs)
  <2>1. kept \in [RegIds -> RegChallenge \cup {NoChallenge}]
    BY PurgedType
  <2>2. regs'[j] = IF j \in OfDevice(kept, d) /\ Open(kept[j])
                   THEN Consumed(kept[j], "superseded") ELSE kept[j]
    BY <1>4, <2>1 DEF RegistrationChallenge, Replaced
  <2>3. CASE kept[j] = regs[j]
    BY <2>2, <2>3 DEF Open, RegResults
  <2>4. CASE kept[j] = NoChallenge
    BY <1>3, <2>2, <2>4 DEF Open
  <2>5. QED BY <1>3, <2>3, <2>4
<1>5. ASSUME NEW i \in RegIds, NEW r \in RegResults, Open(regs[i]),
             regs' = [regs EXCEPT ![i] = Consumed(regs[i], r)]
      PROVE  regs'[j] = regs[j] \/ Consumes
  BY <1>5 DEF TypeOK, Open
<1>6. CASE regs' = Purged(regs)
  BY <1>1, <1>3, <1>6
<1>7. QED BY <1>1, <1>2, <1>4, <1>5, <1>6, RegSteps DEF RegIssues

LEMMA ApprRowSteps ==
    ASSUME TypeOK, [Next]_vars, NEW j \in ApprIds
    PROVE  \/ /\ approvals[j] # NoChallenge /\ approvals'[j] # NoChallenge
              /\ approvals'[j].target = approvals[j].target
              /\ approvals'[j].created = approvals[j].created
              /\ approvals'[j].end \in {approvals[j].end, now}
           \/ approvals[j] = NoChallenge /\ approvals'[j] = NoChallenge
           \/ /\ approvals[j] # NoChallenge /\ approvals'[j] = NoChallenge
              /\ approvals[j].end + Retention < now
           \/ \E u \in Devices : ApprIssues(j, u)
<1> DEFINE Consumes == approvals[j] # NoChallenge /\ \E r \in ApprResults :
                          approvals'[j] = Consumed(approvals[j], r)
           Purges == /\ approvals[j] # NoChallenge /\ approvals'[j] = NoChallenge
                     /\ approvals[j].end + Retention < now
<1>1. CASE approvals'[j] = approvals[j]
  BY <1>1
<1>2. CASE Consumes
  BY <1>2, ApprConsumedFields
<1>3. \/ Purged(approvals)[j] = approvals[j]
      \/ /\ approvals[j] # NoChallenge /\ Purged(approvals)[j] = NoChallenge
         /\ approvals[j].end + Retention < now
  BY DEF Purged, TypeOK
<1>4. ASSUME NEW i \in ApprIds, i # j, NEW a \in Devices, NEW t \in Devices,
             NEW decision \in Decisions, ApprovalChallenge(i, a, t, decision)
      PROVE  approvals'[j] = approvals[j] \/ Consumes \/ Purges
  <2> DEFINE kept == Purged(approvals)
  <2>1. kept \in [ApprIds -> ApprChallenge \cup {NoChallenge}]
    BY PurgedType
  <2>2. approvals'[j] = IF j \in OfPair(kept, a, t) /\ Open(kept[j])
                        THEN Consumed(kept[j], "superseded") ELSE kept[j]
    BY <1>4, <2>1 DEF ApprovalChallenge, Replaced
  <2>3. CASE kept[j] = approvals[j]
    BY <2>2, <2>3 DEF Open, ApprResults
  <2>4. CASE kept[j] = NoChallenge
    BY <1>3, <2>2, <2>4 DEF Open
  <2>5. QED BY <1>3, <2>3, <2>4
<1>5. ASSUME NEW i \in ApprIds, NEW r \in ApprResults, Open(approvals[i]),
             approvals' = [approvals EXCEPT ![i] = Consumed(approvals[i], r)]
      PROVE  approvals'[j] = approvals[j] \/ Consumes
  BY <1>5 DEF TypeOK, Open
<1>6. ASSUME NEW i \in ApprIds, NEW result \in {"approved", "rejected"},
             Decidable(i), approvals' = Settled(i, result)
      PROVE  approvals'[j] = approvals[j] \/ Consumes
  <2>1. approvals'[j] = IF j = i THEN Consumed(approvals[j], result)
           ELSE IF Open(approvals[j]) /\ approvals[j].target = approvals[i].target
                THEN Consumed(approvals[j], "superseded_by_decision")
                ELSE approvals[j]
    BY <1>6 DEF Settled
  <2>2. QED BY <1>6, <2>1 DEF Decidable, Open, ApprResults
<1>7. CASE approvals' = Purged(approvals)
  BY <1>1, <1>3, <1>7
<1>8. QED BY <1>1, <1>2, <1>4, <1>5, <1>6, <1>7, ApprSteps DEF ApprIssues

LEMMA RowSteps ==
    ASSUME TypeOK, [Next]_vars, NEW x \in Tables, NEW j \in Ids(x)
    PROVE  \/ /\ Table(x)[j] # NoChallenge /\ Table(x)'[j] # NoChallenge
              /\ Subject(x, Table(x)'[j]) = Subject(x, Table(x)[j])
              /\ Table(x)'[j].created = Table(x)[j].created
              /\ Table(x)'[j].end \in {Table(x)[j].end, now}
           \/ Table(x)[j] = NoChallenge /\ Table(x)'[j] = NoChallenge
           \/ /\ Table(x)[j] # NoChallenge /\ Table(x)'[j] = NoChallenge
              /\ Table(x)[j].end + Retention < now
           \/ \E u \in Devices : Issues(x, j, u)
<1>1. CASE x = "registration"
  BY <1>1, RegRowSteps DEF Ids, Table, Subject, Issues
<1>2. CASE x = "approval"
  BY <1>2, ApprRowSteps DEF Ids, Table, Subject, Issues
<1>3. QED BY <1>1, <1>2 DEF Tables

\* A row that is open after a step was that row before, or is the new one.
LEMMA OpenKept ==
    ASSUME TypeOK, [Next]_vars, NEW x \in Tables, NEW j \in Ids(x),
           Open(Table(x)'[j]), \A u \in Devices : ~Issues(x, j, u)
    PROVE  Table(x)'[j] = Table(x)[j]
<1>1. CASE x = "registration"
  <2>1. CASE regs' = Purged(regs)
    BY <1>1, <2>1, PurgedRow DEF Ids, Table, Open
  <2>2. CASE \E i \in RegIds, d \in Devices, k \in IdentityKeys,
                g \in Grants \cup {NoGrant} : RegistrationChallenge(i, d, k, g)
    BY <1>1, <2>2, RegIssued DEF Ids, Table, Issues, RegIssues
  <2>3. CASE \E i \in RegIds, r \in RegResults \ {"open"} :
                /\ Open(regs[i])
                /\ regs' = [regs EXCEPT ![i] = Consumed(regs[i], r)]
    BY <1>1, <2>3, ConsumedRegIsClosed DEF Ids, Table, Open, TypeOK
  <2>4. QED BY <1>1, <2>1, <2>2, <2>3, RegSteps DEF Table
<1>2. CASE x = "approval"
  BY <1>2, OpenApprovals DEF Ids, Table, Open, Issues, ApprIssues
<1>3. QED BY <1>1, <1>2 DEF Tables

\* The clock never runs back.
LEMMA ClockStep == TypeOK /\ [Next]_vars => now' \in Nat /\ now \in Nat /\ now' >= now
<1> SUFFICES ASSUME TypeOK, [Next]_vars
             PROVE  now' \in Nat /\ now \in Nat /\ now' >= now
  OBVIOUS
<1>1. now \in Nat
  BY TimesAssumption DEF TypeOK
<1>2. Registration \/ Approval \/ Publication => now' = now
  <2>1. Registration => now' = now
    BY DEF Registration, RegistrationChallenge, TooManyRegistrations, RefuseProof,
           BootstrapDevice, EnrollDevice
  <2>2. Approval => now' = now
    BY DEF Approval, ApprovalChallenge, TooManyApprovals, RefuseDecision,
           ApproveDevice, CloseDevice
  <2>3. Publication => now' = now
    BY DEF Publication, PublishFirst, PublishAgain, Rotate
  <2>4. QED BY <2>1, <2>2, <2>3
<1>3. QED BY <1>1, <1>2
          DEF Next, vars, IssueGrant, Authenticate, RequestsEnd, JoinGroup, Tick

----------------------------------------------------------------------------
\* The rows that count are the same after a step, but for the one it inserts.
LEMMA LiveKept ==
    ASSUME TypeOK, NEW x \in Tables, RowsOK(x), [Next]_vars, NEW j \in Ids(x),
           \A u \in Devices : ~Issues(x, j, u), NEW t \in Nat, t >= now
    PROVE  /\ j \in Live(x, t)' <=> j \in Live(x, t)
           /\ \A d : j \in LiveFor(x, t, d)' <=> j \in LiveFor(x, t, d)
<1>1. CASE /\ Table(x)[j] # NoChallenge /\ Table(x)'[j] # NoChallenge
           /\ Subject(x, Table(x)'[j]) = Subject(x, Table(x)[j])
           /\ Table(x)'[j].created = Table(x)[j].created
  BY <1>1 DEF Live, LiveFor, Rows
<1>2. CASE Table(x)[j] = NoChallenge /\ Table(x)'[j] = NoChallenge
  BY <1>2 DEF Live, LiveFor, Rows
<1>3. CASE /\ Table(x)[j] # NoChallenge /\ Table(x)'[j] = NoChallenge
           /\ Table(x)[j].end + Retention < now
  <2>1. j \in Rows(x)
    BY <1>3 DEF Rows
  <2>2. Table(x)[j].created <= Table(x)[j].end
    BY <2>1 DEF RowsOK
  <2>3. ~(Table(x)[j].created + Window > t)
    BY <1>3, <2>1, <2>2, RowType
  <2>4. QED BY <1>3, <2>3 DEF Live, LiveFor, Rows
<1>4. QED BY <1>1, <1>2, <1>3, RowSteps

\* How the history variable follows a table.
LEMMA IssuedSteps ==
    ASSUME TypeOK, TrustChecksHold, NEW x \in Tables, [RateNext]_rateVars
    PROVE  /\ [Next]_vars
           /\ \/ /\ issued'[x] = issued[x]
                 /\ \A i \in Ids(x), u \in Devices : ~Issues(x, i, u)
              \/ \E i \in Ids(x), u \in Devices :
                    /\ Issues(x, i, u)
                    /\ issued'[x] = Append(issued[x],
                                           [subject |-> u, at |-> now])
<1>1. [Next]_vars
  BY DEF RateNext, rateVars
<1>2. ASSUME NEW i \in Ids(x), NEW u \in Devices, Issues(x, i, u)
      PROVE  /\ Inserted(x) = {i} /\ Subject(x, Table(x)'[i]) = u
             /\ ~UNCHANGED vars
  <2>1. /\ Table(x)[i] = NoChallenge /\ Open(Table(x)'[i])
        /\ Table(x)'[i] # NoChallenge /\ Subject(x, Table(x)'[i]) = u
    BY <1>2, IssuedRow
  <2>2. \A j \in Ids(x) \ {i} : Open(Table(x)'[j]) => Table(x)'[j] = Table(x)[j]
    BY <1>2, OthersKept
  <2>3. Inserted(x) = {i}
    BY <2>1, <2>2 DEF Inserted, Open
  <2>4. UNCHANGED vars => Table(x)' = Table(x)
    BY DEF vars, Table
  <2>5. QED BY <2>1, <2>3, <2>4
<1>3. CASE \E i \in Ids(x), u \in Devices : Issues(x, i, u)
  <2>1. PICK i \in Ids(x), u \in Devices : Issues(x, i, u)
    BY <1>3
  <2>2. /\ Inserted(x) = {i} /\ Subject(x, Table(x)'[i]) = u
        /\ ~UNCHANGED vars
    BY <1>2, <2>1
  <2>3. (CHOOSE j \in {i} : TRUE) = i
    OBVIOUS
  <2>4. Logged(x) = Append(issued[x], [subject |-> u, at |-> now])
    BY <2>2, <2>3 DEF Logged
  <2>5. RateNext
    BY <2>2 DEF rateVars
  <2>6. issued'[x] = Logged(x)
    BY <2>5 DEF RateNext
  <2>7. QED BY <1>1, <2>1, <2>4, <2>6
<1>4. CASE \A i \in Ids(x), u \in Devices : ~Issues(x, i, u)
  <2>1. ASSUME NEW j \in Ids(x), Table(x)[j] = NoChallenge, Open(Table(x)'[j])
        PROVE  FALSE
    BY <1>1, <1>4, <2>1, OpenKept DEF Open
  <2>2. Inserted(x) = {}
    BY <2>1 DEF Inserted
  <2>3. Logged(x) = issued[x]
    BY <2>2 DEF Logged
  <2>4. issued'[x] = issued[x]
    BY <2>3 DEF RateNext, rateVars
  <2>5. QED BY <1>1, <1>4, <2>4
<1>5. QED BY <1>3, <1>4

\* Every step keeps what is known of the rows of the challenges.
LEMMA RowsStep ==
    ASSUME TypeOK, TrustChecksHold, NEW x \in Tables, RowsOK(x), [Next]_vars
    PROVE  RowsOK(x)'
<1>1. IsFiniteSet(Rows(x)')
  <2>1. \E i : Rows(x)' \subseteq Rows(x) \cup {i}
    <3>1. CASE \E i \in Ids(x), u \in Devices : Issues(x, i, u)
      <4>1. PICK i \in Ids(x), u \in Devices : Issues(x, i, u)
        BY <3>1
      <4>2. \A j \in Ids(x) : j # i /\ Table(x)'[j] # NoChallenge
               => Table(x)[j] # NoChallenge
        BY <4>1, RowSteps, OneIssue
      <4>3. QED BY <4>2 DEF Rows
    <3>2. CASE \A i \in Ids(x), u \in Devices : ~Issues(x, i, u)
      BY <3>2, RowSteps DEF Rows
    <3>3. QED BY <3>1, <3>2
  <2>2. QED BY <2>1, FS_AddElement, FS_Subset DEF RowsOK
<1>2. ASSUME NEW j \in Rows(x)'
      PROVE  /\ Table(x)'[j].created <= now'
             /\ Table(x)'[j].created <= Table(x)'[j].end
  <2>1. j \in Ids(x) /\ Table(x)'[j] # NoChallenge
    BY DEF Rows
  <2>2. now \in Nat /\ now' \in Nat /\ now' >= now /\ TTL \in Nat
    BY ClockStep, TimesAssumption
  <2>3. CASE \E u \in Devices : Issues(x, j, u)
    <3>1. Table(x)'[j].created = now /\ Table(x)'[j].end = now + TTL
      BY <2>1, <2>3, IssuedRow
    <3>2. QED BY <2>2, <3>1
  <2>4. CASE /\ Table(x)[j] # NoChallenge
             /\ Table(x)'[j].created = Table(x)[j].created
             /\ Table(x)'[j].end \in {Table(x)[j].end, now}
    <3>1. j \in Rows(x)
      BY <2>1, <2>4 DEF Rows
    <3>2. Table(x)[j].created \in Nat /\ Table(x)[j].end \in Nat
      BY <3>1, RowType
    <3>3. /\ Table(x)[j].created <= now
          /\ Table(x)[j].created <= Table(x)[j].end
      BY <3>1 DEF RowsOK
    <3>4. QED BY <2>2, <2>4, <3>2, <3>3
  <2>5. QED BY <2>1, <2>3, <2>4, RowSteps
<1>3. QED BY <1>1, <1>2 DEF RowsOK

\* The sets that are counted are finite.
LEMMA Countable ==
    ASSUME NEW x \in Tables, RowsOK(x), CountedOK(x), NEW t, NEW d
    PROVE  /\ IsFiniteSet(Live(x, t)) /\ Cardinality(Live(x, t)) \in Nat
           /\ IsFiniteSet(LiveFor(x, t, d))
           /\ Cardinality(LiveFor(x, t, d)) \in Nat
           /\ IsFiniteSet(IssuedSince(x, t))
           /\ Cardinality(IssuedSince(x, t)) \in Nat
           /\ IsFiniteSet(IssuedFor(x, t, d))
           /\ Cardinality(IssuedFor(x, t, d)) \in Nat
<1>1. /\ Live(x, t) \in SUBSET Rows(x) /\ LiveFor(x, t, d) \in SUBSET Rows(x)
  BY DEF Live, LiveFor
<1>2. Len(issued[x]) \in Nat /\ DOMAIN issued[x] = 1..Len(issued[x])
  BY DEF CountedOK
<1>3. IsFiniteSet(1..Len(issued[x]))
  BY <1>2, FS_Interval
<1>4. /\ IssuedSince(x, t) \in SUBSET (1..Len(issued[x]))
      /\ IssuedFor(x, t, d) \in SUBSET (1..Len(issued[x]))
  BY <1>2 DEF IssuedSince, IssuedFor
<1>5. /\ IsFiniteSet(Live(x, t)) /\ IsFiniteSet(LiveFor(x, t, d))
      /\ IsFiniteSet(IssuedSince(x, t)) /\ IsFiniteSet(IssuedFor(x, t, d))
  BY <1>1, <1>3, <1>4, FS_Subset DEF RowsOK
<1>6. QED BY <1>5, FS_CardinalityType

\* Both sides grow together, or the left one does not.
LEMMA BothGrow ==
    ASSUME NEW A, NEW B, IsFiniteSet(A), IsFiniteSet(B),
           Cardinality(A) <= Cardinality(B), NEW x, NEW y, y \notin B
    PROVE  Cardinality(A \cup {x}) <= Cardinality(B \cup {y})
<1>1. Cardinality(A) \in Nat /\ Cardinality(B) \in Nat
  BY FS_CardinalityType
<1>2. Cardinality(A \cup {x}) \in {Cardinality(A), Cardinality(A) + 1}
  BY FS_AddElement
<1>3. Cardinality(B \cup {y}) = Cardinality(B) + 1
  BY FS_AddElement
<1>4. QED BY <1>1, <1>2, <1>3

\* Every step keeps every creation of the last window counted.
LEMMA CountedStep ==
    ASSUME TypeOK, TrustChecksHold, NEW x \in Tables, RowsOK(x), CountedOK(x),
           [RateNext]_rateVars
    PROVE  CountedOK(x)'
<1>1. [Next]_vars
  BY IssuedSteps
<1>2. now' \in Nat /\ now \in Nat /\ now' >= now
  BY <1>1, ClockStep
<1>3. CASE /\ issued'[x] = issued[x]
           /\ \A i \in Ids(x), u \in Devices : ~Issues(x, i, u)
  <2>1. ASSUME NEW t \in Nat, t >= now'
        PROVE  /\ Live(x, t)' = Live(x, t)
               /\ \A d \in Devices : LiveFor(x, t, d)' = LiveFor(x, t, d)
    <3>1. t >= now
      BY <1>2, <2>1
    <3>2. ASSUME NEW d \in Devices PROVE LiveFor(x, t, d)' = LiveFor(x, t, d)
      <4>1. \A j \in Ids(x) : j \in LiveFor(x, t, d)' <=> j \in LiveFor(x, t, d)
        BY <1>1, <1>3, <3>1, LiveKept
      <4>2. QED BY <4>1 DEF LiveFor, Live, Rows
    <3>3. Live(x, t)' = Live(x, t)
      <4>1. \A j \in Ids(x) : j \in Live(x, t)' <=> j \in Live(x, t)
        BY <1>1, <1>3, <3>1, LiveKept
      <4>2. QED BY <4>1 DEF Live, Rows
    <3>4. QED BY <3>2, <3>3
  <2>2. ASSUME NEW t \in Nat
        PROVE  /\ IssuedSince(x, t)' = IssuedSince(x, t)
               /\ \A d \in Devices : IssuedFor(x, t, d)' = IssuedFor(x, t, d)
    BY <1>3 DEF IssuedSince, IssuedFor
  <2>3. ASSUME NEW t \in Nat, t >= now'
        PROVE  /\ Cardinality(IssuedSince(x, t)') <= Cardinality(Live(x, t)')
               /\ \A d \in Devices :
                     Cardinality(IssuedFor(x, t, d)') <= Cardinality(LiveFor(x, t, d)')
    <3>1. t >= now
      BY <1>2, <2>3
    <3>2. QED BY <2>1, <2>2, <2>3, <3>1 DEF CountedOK
  <2>4. issued'[x] \in Seq([subject : Devices, at : Nat])
    BY <1>3 DEF CountedOK
  <2>5. QED BY <2>3, <2>4 DEF CountedOK
<1>4. ASSUME NEW i \in Ids(x), NEW u \in Devices, Issues(x, i, u),
             issued'[x] = Append(issued[x], [subject |-> u, at |-> now])
      PROVE  CountedOK(x)'
  <2> DEFINE n == Len(issued[x]) + 1
             new == [subject |-> u, at |-> now]
  <2>1. /\ issued'[x] \in Seq([subject : Devices, at : Nat])
        /\ Len(issued[x]) \in Nat /\ DOMAIN issued[x] = 1..Len(issued[x])
        /\ DOMAIN issued'[x] = (DOMAIN issued[x]) \cup {n} /\ n \notin DOMAIN issued[x]
        /\ issued'[x][n] = new
        /\ \A m \in DOMAIN issued[x] : issued'[x][m] = issued[x][m]
    <3>1. issued[x] \in Seq([subject : Devices, at : Nat]) /\ new \in [subject : Devices, at : Nat]
      BY <1>2 DEF CountedOK
    <3>2. Len(issued[x]) \in Nat /\ DOMAIN issued[x] = 1..Len(issued[x])
      BY <3>1
    <3>3. /\ issued'[x] \in Seq([subject : Devices, at : Nat])
          /\ Len(issued'[x]) = n
          /\ \A m \in 1..Len(issued[x]) : issued'[x][m] = issued[x][m]
          /\ issued'[x][n] = new
      BY <1>4, <3>1, <3>2
    <3>4. DOMAIN issued'[x] = 1..n
      BY <3>3
    <3>5. QED BY <3>2, <3>3, <3>4
  <2>2. /\ Table(x)[i] = NoChallenge /\ Table(x)'[i] # NoChallenge
        /\ Subject(x, Table(x)'[i]) = u /\ Table(x)'[i].created = now
    BY <1>4, IssuedRow
  <2>3. \A j \in Ids(x) \ {i} : \A v \in Devices : ~Issues(x, j, v)
    BY <1>4, OneIssue
  <2>4. ASSUME NEW t \in Nat, t >= now', NEW d \in Devices
        PROVE  /\ Live(x, t)' = Live(x, t) \cup (IF now + Window > t THEN {i} ELSE {})
               /\ i \notin Live(x, t)
               /\ LiveFor(x, t, d)' = LiveFor(x, t, d) \cup
                     (IF now + Window > t /\ u = d THEN {i} ELSE {})
               /\ IssuedSince(x, t)' = IssuedSince(x, t) \cup
                     (IF now + Window > t THEN {n} ELSE {})
               /\ IssuedFor(x, t, d)' = IssuedFor(x, t, d) \cup
                     (IF now + Window > t /\ u = d THEN {n} ELSE {})
    <3>1. t >= now
      BY <1>2, <2>4
    <3>2. \A j \in Ids(x) \ {i} :
             /\ j \in Live(x, t)' <=> j \in Live(x, t)
             /\ j \in LiveFor(x, t, d)' <=> j \in LiveFor(x, t, d)
      BY <1>1, <2>3, <3>1, LiveKept
    <3>3. /\ i \notin Live(x, t)
          /\ i \in Live(x, t)' <=> now + Window > t
          /\ i \in LiveFor(x, t, d)' <=> now + Window > t /\ u = d
      BY <2>2 DEF Live, LiveFor, Rows
    <3>4. Live(x, t)' \subseteq Ids(x) /\ LiveFor(x, t, d)' \subseteq Ids(x)
          /\ Live(x, t) \subseteq Ids(x) /\ LiveFor(x, t, d) \subseteq Live(x, t)
      BY DEF Live, LiveFor, Rows
    <3>5. Live(x, t)' = Live(x, t) \cup (IF now + Window > t THEN {i} ELSE {})
      BY <3>2, <3>3, <3>4
    <3>6. LiveFor(x, t, d)' = LiveFor(x, t, d) \cup
                     (IF now + Window > t /\ u = d THEN {i} ELSE {})
      BY <3>2, <3>3, <3>4
    <3> DEFINE log == issued[x]
               after == issued'[x]
    <3>7. /\ after[n].at = now /\ after[n].subject = u
          /\ \A m \in DOMAIN log : after[m] = log[m]
          /\ DOMAIN after = (DOMAIN log) \cup {n} /\ n \notin DOMAIN log
      BY <2>1
    <3>8. /\ IssuedSince(x, t) = {m \in DOMAIN log : log[m].at + Window > t}
          /\ IssuedSince(x, t)' = {m \in DOMAIN after : after[m].at + Window > t}
          /\ IssuedFor(x, t, d) = {m \in IssuedSince(x, t) : log[m].subject = d}
          /\ IssuedFor(x, t, d)'
                = {m \in IssuedSince(x, t)' : after[m].subject = d}
      BY DEF IssuedSince, IssuedFor
    <3> HIDE DEF n, log, after
    <3>9. IssuedSince(x, t)' = IssuedSince(x, t) \cup
                     (IF now + Window > t THEN {n} ELSE {})
      BY <3>7, <3>8
    <3>10. IssuedFor(x, t, d)' = IssuedFor(x, t, d) \cup
                     (IF now + Window > t /\ u = d THEN {n} ELSE {})
      BY <3>7, <3>8, <3>9
    <3>11. QED BY <3>3, <3>5, <3>6, <3>9, <3>10
  <2>5. ASSUME NEW t \in Nat, t >= now'
        PROVE  /\ Cardinality(IssuedSince(x, t)') <= Cardinality(Live(x, t)')
               /\ \A d \in Devices :
                     Cardinality(IssuedFor(x, t, d)') <= Cardinality(LiveFor(x, t, d)')
    <3>1. t >= now
      BY <1>2, <2>5
    <3>2. /\ Cardinality(IssuedSince(x, t)) <= Cardinality(Live(x, t))
          /\ \A d \in Devices :
                Cardinality(IssuedFor(x, t, d)) <= Cardinality(LiveFor(x, t, d))
      BY <3>1 DEF CountedOK
    <3>3. Cardinality(IssuedSince(x, t)') <= Cardinality(Live(x, t)')
      <4>1. CASE now + Window > t
        <5>1. /\ Live(x, t)' = Live(x, t) \cup {i} /\ i \notin Live(x, t)
              /\ IssuedSince(x, t)' = IssuedSince(x, t) \cup {n}
          BY <1>4, <2>4, <2>5, <4>1
        <5>2. Cardinality(IssuedSince(x, t) \cup {n}) <= Cardinality(Live(x, t) \cup {i})
          BY <3>2, <5>1, Countable, BothGrow
        <5>3. QED BY <5>1, <5>2
      <4>2. CASE ~(now + Window > t)
        BY <1>4, <2>4, <2>5, <3>2, <4>2
      <4>3. QED BY <4>1, <4>2
    <3>4. ASSUME NEW d \in Devices
          PROVE  Cardinality(IssuedFor(x, t, d)') <= Cardinality(LiveFor(x, t, d)')
      <4>1. CASE now + Window > t /\ u = d
        <5>1. /\ LiveFor(x, t, d)' = LiveFor(x, t, d) \cup {i} /\ i \notin LiveFor(x, t, d)
              /\ IssuedFor(x, t, d)' = IssuedFor(x, t, d) \cup {n}
          BY <2>4, <2>5, <4>1 DEF LiveFor
        <5>2. Cardinality(IssuedFor(x, t, d) \cup {n})
                <= Cardinality(LiveFor(x, t, d) \cup {i})
          BY <3>2, <5>1, Countable, BothGrow
        <5>3. QED BY <5>1, <5>2
      <4>2. CASE ~(now + Window > t /\ u = d)
        <5>1. /\ LiveFor(x, t, d)' = LiveFor(x, t, d)
              /\ IssuedFor(x, t, d)' = IssuedFor(x, t, d)
          <6>1. /\ LiveFor(x, t, d)' = LiveFor(x, t, d) \cup {}
                /\ IssuedFor(x, t, d)' = IssuedFor(x, t, d) \cup {}
            BY <2>4, <2>5, <4>2
          <6>2. QED BY <6>1
        <5>2. QED BY <3>2, <5>1
      <4>3. QED BY <4>1, <4>2
    <3>5. QED BY <3>3, <3>4
  <2>6. QED BY <2>1, <2>5 DEF CountedOK
<1>5. QED BY <1>3, <1>4, IssuedSteps

\* What the handlers counted before they inserted a row.
LEMMA KeptCounts ==
    ASSUME TypeOK, NEW x \in Tables, RowsOK(x), NEW u
    PROVE  LET kept == Purged(Table(x)) IN
           /\ Recent(kept) = Live(x, now)
           /\ Recent(kept) \cap {j \in Ids(x) : kept[j] # NoChallenge
                                                /\ Subject(x, kept[j]) = u}
                = LiveFor(x, now, u)
<1> DEFINE kept == Purged(Table(x))
<1>1. DOMAIN Table(x) = Ids(x)
  BY DEF Table, Ids, TypeOK, Tables
<1>2. \A j \in Ids(x) :
         kept[j] = IF Table(x)[j] # NoChallenge /\ Table(x)[j].end + Retention < now
                   THEN NoChallenge ELSE Table(x)[j]
  BY <1>1 DEF Purged
<1>3. DOMAIN kept = Ids(x)
  BY <1>1 DEF Purged
<1>4. ASSUME NEW j \in Rows(x), Table(x)[j].end + Retention < now
      PROVE  ~(Table(x)[j].created + Window > now)
  <2>1. Table(x)[j].created <= Table(x)[j].end
    BY DEF RowsOK
  <2>2. QED BY <1>4, <2>1, RowType
<1>5. \A j \in Ids(x) :
         (kept[j] # NoChallenge /\ kept[j].created + Window > now)
         <=> (Table(x)[j] # NoChallenge /\ Table(x)[j].created + Window > now)
  BY <1>2, <1>4 DEF Rows
<1>6. Recent(kept) = Live(x, now)
  BY <1>3, <1>5 DEF Recent, Live, Rows
<1>7. \A j \in Ids(x) : kept[j] # NoChallenge => kept[j] = Table(x)[j]
  BY <1>2
<1>8. Recent(kept) \cap {j \in Ids(x) : kept[j] # NoChallenge
                                        /\ Subject(x, kept[j]) = u}
        = LiveFor(x, now, u)
  <2>1. \A j \in Live(x, now) : kept[j] # NoChallenge
    BY <1>3, <1>6 DEF Recent
  <2>2. \A j \in Live(x, now) : j \in Ids(x) /\ kept[j] = Table(x)[j]
    BY <1>7, <2>1 DEF Live, Rows
  <2>3. QED BY <1>6, <2>1, <2>2 DEF LiveFor
<1>9. QED BY <1>6, <1>8

LEMMA LimitsHeld ==
    ASSUME TypeOK, NEW x \in Tables, RowsOK(x), NEW i \in Ids(x),
           NEW u \in Devices, Issues(x, i, u)
    PROVE  /\ Cardinality(Live(x, now)) < MaxPerAccount
           /\ Cardinality(LiveFor(x, now, u)) < MaxPerSubject
<1> DEFINE kept == Purged(Table(x))
           same == {j \in Ids(x) : kept[j] # NoChallenge
                                   /\ Subject(x, kept[j]) = u}
<1>1. \E other : WithinLimits(kept, same, other)
  <2>1. CASE x = "registration"
    BY <2>1 DEF Issues, RegIssues, RegistrationChallenge, RegistrationLimits,
                OfDevice, Ids, Table, Subject
  <2>2. CASE x = "approval"
    BY <2>2 DEF Issues, ApprIssues, ApprovalChallenge, ApprovalLimits,
                OfTarget, Ids, Table, Subject
  <2>3. QED BY <2>1, <2>2 DEF Tables
<1>2. Recent(kept) = Live(x, now) /\ Recent(kept) \cap same = LiveFor(x, now, u)
  BY KeptCounts
<1>3. QED BY <1>1, <1>2 DEF WithinLimits

\* The issue that closes a window joins those that count at its time.
LEMMA RateStep ==
    ASSUME TypeOK, TrustChecksHold, NEW x \in Tables, RowsOK(x), CountedOK(x),
           RateOf(x), [RateNext]_rateVars
    PROVE  RateOf(x)'
<1>1. CASE issued'[x] = issued[x]
  BY <1>1 DEF RateOf, InWindow
<1>2. ASSUME NEW i \in Ids(x), NEW u \in Devices, Issues(x, i, u),
             issued'[x] = Append(issued[x], [subject |-> u, at |-> now])
      PROVE  RateOf(x)'
  <2> PICK n : n = Len(issued[x]) + 1
    OBVIOUS
  <2> DEFINE new == [subject |-> u, at |-> now]
             Bounded(k) ==
                 /\ Cardinality(InWindow(x, k)) <= MaxPerAccount
                 /\ Cardinality({m \in InWindow(x, k) :
                                   issued[x][m].subject = issued[x][k].subject})
                       <= MaxPerSubject
  <2>1. /\ Len(issued[x]) \in Nat /\ DOMAIN issued[x] = 1..Len(issued[x])
        /\ DOMAIN issued'[x] = 1..n
        /\ issued'[x][n] = new
        /\ \A m \in 1..Len(issued[x]) : issued'[x][m] = issued[x][m]
    <3>1. issued[x] \in Seq([subject : Devices, at : Nat])
      BY DEF CountedOK
    <3>2. new \in [subject : Devices, at : Nat]
      BY TimesAssumption DEF TypeOK
    <3>3. Len(issued[x]) \in Nat /\ DOMAIN issued[x] = 1..Len(issued[x])
      BY <3>1
    <3>4. /\ Len(issued'[x]) = n /\ issued'[x] \in Seq([subject : Devices, at : Nat])
          /\ \A m \in 1..Len(issued[x]) : issued'[x][m] = issued[x][m]
          /\ issued'[x][n] = new
      BY <1>2, <3>1, <3>2, <3>3
    <3>5. QED BY <3>3, <3>4
  <2>2. ASSUME NEW k \in 1..Len(issued[x]) PROVE Bounded(k)'
    <3>1. \A m \in 1..k : issued'[x][m] = issued[x][m] /\ issued'[x][k] = issued[x][k]
      BY <2>1
    <3>2. InWindow(x, k)' = InWindow(x, k)
      BY <3>1 DEF InWindow
    <3>3. {m \in InWindow(x, k)' : issued'[x][m].subject = issued'[x][k].subject}
            = {m \in InWindow(x, k) : issued[x][m].subject = issued[x][k].subject}
      BY <3>1, <3>2 DEF InWindow
    <3>4. Bounded(k)
      BY <2>1 DEF RateOf
    <3>5. QED BY <3>2, <3>3, <3>4
  <2>3. Bounded(n)'
    <3> DEFINE All == InWindow(x, n)'
               Same == {m \in All : issued'[x][m].subject = u}
    <3>1. now \in Nat
      BY TimesAssumption DEF TypeOK
    <3>2. /\ Cardinality(IssuedSince(x, now)) <= Cardinality(Live(x, now))
          /\ Cardinality(IssuedFor(x, now, u)) <= Cardinality(LiveFor(x, now, u))
      BY <3>1 DEF CountedOK
    <3>3. /\ Cardinality(Live(x, now)) < MaxPerAccount
          /\ Cardinality(LiveFor(x, now, u)) < MaxPerSubject
      BY <1>2, LimitsHeld
    <3>4. /\ IsFiniteSet(IssuedSince(x, now)) /\ IsFiniteSet(IssuedFor(x, now, u))
          /\ Cardinality(IssuedSince(x, now)) \in Nat
          /\ Cardinality(IssuedFor(x, now, u)) \in Nat
          /\ Cardinality(Live(x, now)) \in Nat /\ Cardinality(LiveFor(x, now, u)) \in Nat
      BY Countable
    <3>5. All \in SUBSET (IssuedSince(x, now) \cup {n})
      BY <2>1 DEF InWindow, IssuedSince
    <3>6. Same \in SUBSET (IssuedFor(x, now, u) \cup {n})
      BY <2>1 DEF InWindow, IssuedSince, IssuedFor
    <3>7. /\ IsFiniteSet(IssuedSince(x, now) \cup {n})
          /\ Cardinality(IssuedSince(x, now) \cup {n})
               \in {Cardinality(IssuedSince(x, now)), Cardinality(IssuedSince(x, now)) + 1}
          /\ IsFiniteSet(IssuedFor(x, now, u) \cup {n})
          /\ Cardinality(IssuedFor(x, now, u) \cup {n})
               \in {Cardinality(IssuedFor(x, now, u)), Cardinality(IssuedFor(x, now, u)) + 1}
      BY <3>4, FS_AddElement
    <3>8. /\ Cardinality(All) <= Cardinality(IssuedSince(x, now) \cup {n})
          /\ Cardinality(Same) <= Cardinality(IssuedFor(x, now, u) \cup {n})
          /\ Cardinality(All) \in Nat /\ Cardinality(Same) \in Nat
      <4>1. /\ Cardinality(All) <= Cardinality(IssuedSince(x, now) \cup {n})
            /\ IsFiniteSet(All)
        BY <3>5, <3>7, FS_Subset
      <4>2. /\ Cardinality(Same) <= Cardinality(IssuedFor(x, now, u) \cup {n})
            /\ IsFiniteSet(Same)
        BY <3>6, <3>7, FS_Subset
      <4>3. Cardinality(All) \in Nat /\ Cardinality(Same) \in Nat
        BY <4>1, <4>2, FS_CardinalityType
      <4>4. QED BY <4>1, <4>2, <4>3
    <3>9. Cardinality(All) <= MaxPerAccount
      BY <3>2, <3>3, <3>4, <3>7, <3>8, LimitsAssumption
    <3>10. Cardinality(Same) <= MaxPerSubject
      BY <3>2, <3>3, <3>4, <3>7, <3>8, LimitsAssumption
    <3>11. {m \in InWindow(x, n)' : issued'[x][m].subject = issued'[x][n].subject} = Same
      BY <2>1
    <3>12. QED BY <3>9, <3>10, <3>11
  <2>4. ASSUME NEW k \in DOMAIN issued'[x] PROVE Bounded(k)'
    <3>1. CASE k = n
      BY <2>3, <3>1
    <3>2. CASE k # n
      <4>1. k \in 1..Len(issued[x])
        BY <2>1, <3>2
      <4>2. QED BY <2>2, <4>1
    <3>3. QED BY <3>1, <3>2
  <2>5. QED BY <2>4 DEF RateOf
<1>3. QED BY <1>1, <1>2, IssuedSteps

----------------------------------------------------------------------------
\* Whatever else could be answered after a challenge was inserted, the handler
\* had counted.
LEMMA RegCounted ==
    ASSUME TypeOK, NEW i \in RegIds, NEW d \in Devices, RegIssues(i, d)
    PROVE  \E C \in SUBSET {j \in RegIds : regs[j] # NoChallenge} :
              /\ Cardinality(C) < MaxOutstanding
              /\ \A j \in RegIds \ {i} : Outstanding(regs[j])' => j \in C
<1>1. PICK k \in IdentityKeys, g \in Grants \cup {NoGrant} :
         RegistrationChallenge(i, d, k, g)
  BY DEF RegIssues
<1> DEFINE kept == Purged(regs)
           C == {j \in RegIds \ OfDevice(kept, d) : Outstanding(kept[j])}
<1>2. kept \in [RegIds -> RegChallenge \cup {NoChallenge}]
  BY PurgedType
<1>3. Cardinality(C) < MaxOutstanding
  BY <1>1 DEF RegistrationChallenge, RegistrationLimits, WithinLimits
<1>4. \A j \in RegIds : kept[j] \in {regs[j], NoChallenge}
  BY PurgedRow
<1>5. C \in SUBSET {j \in RegIds : regs[j] # NoChallenge}
  BY <1>4 DEF Outstanding, Open
<1>6. ASSUME NEW j \in RegIds, j # i, Outstanding(regs[j])'
      PROVE  j \in C
  <2>1. regs'[j] = IF j \in OfDevice(kept, d) /\ Open(kept[j])
                   THEN Consumed(kept[j], "superseded") ELSE kept[j]
    BY <1>1, <1>2, <1>6 DEF RegistrationChallenge, Replaced
  <2>2. Open(regs'[j]) /\ regs'[j].end > now
    BY <1>1, <1>6 DEF Outstanding, RegistrationChallenge
  <2>3. regs'[j] = regs[j] /\ regs[j].device # d
    BY <1>1, <1>6, <2>2, RegIssued
  <2>4. Open(kept[j])
    <3>1. regs'[j] # NoChallenge /\ Open(regs[j])
      BY <2>2, <2>3 DEF Open
    <3>2. kept[j] # NoChallenge
      BY <2>1, <3>1 DEF Open
    <3>3. QED BY <1>4, <3>1, <3>2
  <2>5. kept[j] = regs[j]
    BY <1>4, <2>4 DEF Open
  <2>6. j \notin OfDevice(kept, d) /\ Outstanding(kept[j])
    BY <2>2, <2>3, <2>4, <2>5 DEF OfDevice, Outstanding
  <2>7. QED BY <2>6
<1>7. QED BY <1>3, <1>5, <1>6

LEMMA ApprCounted ==
    ASSUME TypeOK, NEW i \in ApprIds, NEW t \in Devices, ApprIssues(i, t)
    PROVE  \E C \in SUBSET {j \in ApprIds : approvals[j] # NoChallenge} :
              /\ Cardinality(C) < MaxOutstanding
              /\ \A j \in ApprIds \ {i} : Outstanding(approvals[j])' => j \in C
<1>1. PICK a \in Devices, decision \in Decisions :
         ApprovalChallenge(i, a, t, decision)
  BY DEF ApprIssues
<1> DEFINE kept == Purged(approvals)
           C == {j \in ApprIds \ OfPair(kept, a, t) : Outstanding(kept[j])}
<1>2. kept \in [ApprIds -> ApprChallenge \cup {NoChallenge}]
  BY PurgedType
<1>3. Cardinality(C) < MaxOutstanding
  BY <1>1 DEF ApprovalChallenge, ApprovalLimits, WithinLimits
<1>4. \A j \in ApprIds : kept[j] \in {approvals[j], NoChallenge}
  BY PurgedRow
<1>5. C \in SUBSET {j \in ApprIds : approvals[j] # NoChallenge}
  BY <1>4 DEF Outstanding, Open
<1>6. ASSUME NEW j \in ApprIds, j # i, Outstanding(approvals[j])'
      PROVE  j \in C
  <2>1. approvals'[j] = IF j \in OfPair(kept, a, t) /\ Open(kept[j])
                        THEN Consumed(kept[j], "superseded") ELSE kept[j]
    BY <1>1, <1>2, <1>6 DEF ApprovalChallenge, Replaced
  <2>2. Open(approvals'[j]) /\ approvals'[j].end > now
    BY <1>1, <1>6 DEF Outstanding, ApprovalChallenge
  <2>3. /\ approvals'[j] = approvals[j]
        /\ ~(approvals[j].approver = a /\ approvals[j].target = t)
    BY <1>1, <1>6, <2>2, ApprIssued
  <2>4. Open(kept[j])
    <3>1. approvals'[j] # NoChallenge /\ Open(approvals[j])
      BY <2>2, <2>3 DEF Open
    <3>2. kept[j] # NoChallenge
      BY <2>1, <3>1 DEF Open
    <3>3. QED BY <1>4, <3>1, <3>2
  <2>5. kept[j] = approvals[j]
    BY <1>4, <2>4 DEF Open
  <2>6. j \notin OfPair(kept, a, t) /\ Outstanding(kept[j])
    BY <2>2, <2>3, <2>4, <2>5 DEF OfPair, OfTarget, Outstanding
  <2>7. QED BY <2>6
<1>7. QED BY <1>3, <1>5, <1>6

\* No step makes more rows answerable than allowed.
LEMMA BoundStep ==
    ASSUME TypeOK, TrustChecksHold, NEW x \in Tables, RowsOK(x), BoundOf(x),
           [Next]_vars
    PROVE  BoundOf(x)'
<1>1. now \in Nat /\ now' \in Nat /\ now' >= now
  BY ClockStep
<1>2. IsFiniteSet(Pending(x))
  <2>1. Pending(x) \in SUBSET Rows(x)
    BY DEF Pending, Rows, Outstanding, Open
  <2>2. QED BY <2>1, FS_Subset DEF RowsOK
<1>3. CASE \A i \in Ids(x), u \in Devices : ~Issues(x, i, u)
  <2>1. ASSUME NEW j \in Pending(x)' PROVE j \in Pending(x)
    <3>1. j \in Ids(x) /\ Open(Table(x)'[j]) /\ Table(x)'[j].end > now'
      BY DEF Pending, Outstanding
    <3>2. Table(x)'[j] = Table(x)[j]
      BY <1>3, <3>1, OpenKept
    <3>3. j \in Rows(x)
      BY <3>1, <3>2 DEF Rows, Open
    <3>4. Table(x)[j].end > now
      BY <1>1, <3>1, <3>2, <3>3, RowType
    <3>5. QED BY <3>1, <3>2, <3>4 DEF Pending, Outstanding
  <2>2. Pending(x)' \in SUBSET Pending(x)
    BY <2>1
  <2>3. /\ Cardinality(Pending(x)') <= Cardinality(Pending(x))
        /\ IsFiniteSet(Pending(x)')
    BY <1>2, <2>2, FS_Subset
  <2>4. Cardinality(Pending(x)') \in Nat /\ Cardinality(Pending(x)) \in Nat
    BY <1>2, <2>3, FS_CardinalityType
  <2>5. QED BY <2>3, <2>4, LimitsAssumption DEF BoundOf
<1>4. ASSUME NEW i \in Ids(x), NEW u \in Devices, Issues(x, i, u)
      PROVE  BoundOf(x)'
  <2>1. PICK C \in SUBSET Rows(x) :
           /\ Cardinality(C) < MaxOutstanding
           /\ \A j \in Ids(x) \ {i} : Outstanding(Table(x)[j])' => j \in C
    <3>1. CASE x = "registration"
      BY <1>4, <3>1, RegCounted DEF Issues, Rows, Ids, Table
    <3>2. CASE x = "approval"
      BY <1>4, <3>2, ApprCounted DEF Issues, Rows, Ids, Table
    <3>3. QED BY <3>1, <3>2 DEF Tables
  <2>2. IsFiniteSet(C) /\ Cardinality(C) \in Nat
    BY <2>1, FS_Subset, FS_CardinalityType DEF RowsOK
  <2>3. Pending(x)' \in SUBSET (C \cup {i})
    BY <2>1 DEF Pending
  <2>4. /\ IsFiniteSet(C \cup {i})
        /\ Cardinality(C \cup {i}) \in {Cardinality(C), Cardinality(C) + 1}
    BY <2>2, FS_AddElement
  <2>5. /\ IsFiniteSet(Pending(x)')
        /\ Cardinality(Pending(x)') <= Cardinality(C \cup {i})
    BY <2>3, <2>4, FS_Subset
  <2>6. Cardinality(Pending(x)') \in Nat
    BY <2>5, FS_CardinalityType
  <2>7. QED BY <2>1, <2>2, <2>4, <2>5, <2>6, LimitsAssumption DEF BoundOf
<1>5. QED BY <1>3, <1>4

----------------------------------------------------------------------------
\* The history variable hides no step of DeviceTrust.
LEMMA RateIsSpec == RateSpec => Spec
<1>1. RateInit => Init
  BY DEF RateInit
<1>2. [RateNext]_rateVars => [Next]_vars
  BY DEF RateNext, rateVars
<1>3. QED BY <1>1, <1>2, PTL DEF RateSpec, Spec

\* What holds of each table in every reachable state.
TableOK(x) == RowsOK(x) /\ CountedOK(x) /\ RateOf(x) /\ BoundOf(x)
TablesOK == \A x \in Tables : TableOK(x)

\* At first there are no challenges.
LEMMA RateInitBase == RateInit => TablesOK
<1> SUFFICES ASSUME RateInit, NEW x \in Tables PROVE TableOK(x)
  BY DEF TablesOK
<1>1. Rows(x) = {} /\ issued[x] = <<>>
  BY DEF RateInit, Init, Rows, Ids, Table
<1>2. IsFiniteSet({}) /\ Cardinality({}) = 0
  BY FS_EmptySet
<1>3. RowsOK(x)
  BY <1>1, <1>2 DEF RowsOK
<1>4. ASSUME NEW t, NEW d
      PROVE  /\ Live(x, t) = {} /\ LiveFor(x, t, d) = {}
             /\ IssuedSince(x, t) = {} /\ IssuedFor(x, t, d) = {}
  BY <1>1 DEF Live, LiveFor, IssuedSince, IssuedFor
<1>5. CountedOK(x)
  <2>1. issued[x] \in Seq([subject : Devices, at : Nat])
    BY <1>1
  <2>2. \A t : /\ Cardinality(Live(x, t)) = 0
              /\ Cardinality(IssuedSince(x, t)) = 0
              /\ \A d : /\ Cardinality(LiveFor(x, t, d)) = 0
                        /\ Cardinality(IssuedFor(x, t, d)) = 0
    BY <1>2, <1>4
  <2>3. QED BY <2>1, <2>2 DEF CountedOK
<1>6. RateOf(x)
  BY <1>1 DEF RateOf
<1>7. Pending(x) = {}
  BY <1>1 DEF Pending, Rows, Outstanding, Open
<1>8. QED BY <1>2, <1>3, <1>5, <1>6, <1>7, LimitsAssumption DEF TableOK, BoundOf

LEMMA TablesInduction == RateSpec => []TablesOK
<1>1. Spec => [](TypeOK /\ TrustChecksHold)
  BY TypeCorrect, ChecksHold, PTL
<1>2. ASSUME TypeOK, TrustChecksHold, TablesOK, [RateNext]_rateVars
      PROVE  TablesOK'
  <2>1. [Next]_vars
    BY <1>2 DEF RateNext, rateVars
  <2>2. ASSUME NEW x \in Tables PROVE TableOK(x)'
    <3>1. RowsOK(x) /\ CountedOK(x) /\ RateOf(x) /\ BoundOf(x)
      BY <1>2 DEF TablesOK, TableOK
    <3>2. RowsOK(x)'
      BY <1>2, <2>1, <3>1, RowsStep
    <3>3. CountedOK(x)'
      BY <1>2, <3>1, CountedStep
    <3>4. RateOf(x)'
      BY <1>2, <3>1, RateStep
    <3>5. BoundOf(x)'
      BY <1>2, <2>1, <3>1, BoundStep
    <3>6. QED BY <3>2, <3>3, <3>4, <3>5 DEF TableOK
  <2>3. QED BY <2>2 DEF TablesOK, Tables
<1>3. QED BY <1>1, <1>2, RateIsSpec, RateInitBase, PTL DEF RateSpec

\* Whatever expires, is answered, superseded or purged meanwhile, no window holds
\* more challenges of the account, or about one subject, than allowed.
THEOREM RateHolds == RateSpec => []ChallengeRate
<1>1. TablesOK => ChallengeRate
  BY DEF TablesOK, TableOK, RateOf, ChallengeRate
<1>2. QED BY <1>1, TablesInduction, PTL

\* However requests for challenges overlap, no table holds more answerable ones
\* than allowed.
THEOREM BoundHolds == RateSpec => []OutstandingBounded
<1>1. TablesOK => OutstandingBounded
  BY DEF TablesOK, TableOK, BoundOf, Pending, OutstandingBounded
<1>2. QED BY <1>1, TablesInduction, PTL
=============================================================================
