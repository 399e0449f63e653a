----------------------- MODULE BootstrapGrants_proofs -----------------------
(***************************************************************************)
(* Theorems about BootstrapGrants, for any number of calls and any limits. *)
(***************************************************************************)
EXTENDS BootstrapGrants, FiniteSetTheorems, TLAPS

Waiting == {r \in Requests : phase[r] = "waiting"}

\* The memory of the limiter and the statements that run come from calls made.
Counters ==
    /\ calls <= Cardinality({r \in Requests : phase[r] # "idle"})
    /\ Cardinality(Waiting) <= peak
    /\ \A g \in rows : phase[g.id] = "done"

\* Sets of calls can be counted.
LEMMA CallsFinite ==
    ASSUME NEW S \in SUBSET Requests
    PROVE  /\ IsFiniteSet(S) /\ Cardinality(S) \in Nat
           /\ Cardinality(S) <= Cardinality(Requests)
           /\ Cardinality(Requests) \in Nat
<1>1. IsFiniteSet(S) /\ Cardinality(S) <= Cardinality(Requests)
  BY GrantLimitsAssumption, FS_Subset
<1>2. QED BY <1>1, GrantLimitsAssumption, FS_CardinalityType

\* A call is counted once, and a statement is one of those that run.
LEMMA CountersStep ==
    ASSUME TypeOK, Counters, [Next]_vars PROVE Counters'
<1> DEFINE Made == {r \in Requests : phase[r] # "idle"}
<1> USE DEF TypeOK, limiter
<1>1. /\ Cardinality(Made) \in Nat /\ Cardinality(Made') \in Nat
      /\ IsFiniteSet(Made) /\ IsFiniteSet(Made')
      /\ Cardinality(Waiting) \in Nat /\ Cardinality(Waiting') \in Nat
      /\ IsFiniteSet(Waiting) /\ IsFiniteSet(Waiting')
      /\ calls \in Nat /\ peak \in Nat
  <2>1. /\ Made \in SUBSET Requests /\ Made' \in SUBSET Requests
        /\ Waiting \in SUBSET Requests /\ Waiting' \in SUBSET Requests
    BY DEF Waiting
  <2>2. QED BY <2>1, CallsFinite
<1>2. Waiting' \subseteq Waiting => Cardinality(Waiting') <= Cardinality(Waiting)
  BY <1>1, FS_Subset
<1>3. Made' = Made => Cardinality(Made') = Cardinality(Made)
  OBVIOUS
<1>4. ASSUME NEW r \in Requests, NEW ok \in BOOLEAN, Call(r, ok)
      PROVE  Counters'
  <2>1. Made' = Made \cup {r} /\ r \notin Made /\ Waiting' = Waiting
    BY <1>4 DEF Call, Waiting
  <2>2. Cardinality(Made') = Cardinality(Made) + 1
    BY <1>1, <2>1, FS_AddElement
  <2>3. calls' <= calls + 1
    BY <1>1, <1>4 DEF Call
  <2>4. calls' \in Nat
    BY <1>1, <1>4 DEF Call
  <2>5. \A g \in rows' : phase'[g.id] = "done"
    BY <1>4 DEF Call, Counters
  <2>6. QED BY <1>1, <1>4, <2>1, <2>2, <2>3, <2>4, <2>5 DEF Call, Counters
<1>5. ASSUME NEW r \in Requests, Begin(r) PROVE Counters'
  <2>1. Waiting' = Waiting \cup {r} /\ r \notin Waiting /\ Made' = Made
    BY <1>5 DEF Begin, Waiting
  <2>2. Cardinality(Waiting') = Cardinality(Waiting) + 1
    BY <1>1, <2>1, FS_AddElement
  <2>3. 1 + Cardinality(Waiting) <= peak'
    BY <1>1, <1>5 DEF Begin, Waiting
  <2>4. \A g \in rows' : phase'[g.id] = "done"
    BY <1>5 DEF Begin, Counters
  <2>5. calls' = calls
    BY <1>5 DEF Begin
  <2>6. peak' \in Nat
    BY <1>1, <1>5 DEF Begin, Waiting
  <2>7. QED BY <1>1, <1>3, <2>1, <2>2, <2>3, <2>4, <2>5, <2>6 DEF Counters
<1>6. ASSUME NEW r \in Requests, Finish(r) PROVE Counters'
  <2>1. Waiting' \subseteq Waiting /\ Made' = Made
    BY <1>6 DEF Finish, Waiting
  <2>2. \A g \in rows' : phase'[g.id] = "done"
    BY <1>6 DEF Finish, Counters
  <2>3. UNCHANGED <<calls, peak>>
    BY <1>6 DEF Finish
  <2>4. QED BY <1>1, <1>2, <1>3, <2>1, <2>2, <2>3 DEF Counters
<1>7. CASE Restart
  <2>1. Waiting' \subseteq Waiting /\ calls' = 0 /\ peak' = peak
    BY <1>7 DEF Restart, Waiting
  <2>2. \A g \in rows' : phase'[g.id] = "done"
    BY <1>7 DEF Restart, Counters
  <2>3. QED BY <1>1, <1>2, <2>1, <2>2 DEF Counters
<1>8. CASE Tick \/ UNCHANGED vars
  BY <1>8 DEF Tick, vars, Counters, Waiting
<1>9. QED BY <1>4, <1>5, <1>6, <1>7, <1>8 DEF Next

\* Every step keeps the types, given what the counters are of.
LEMMA TypeStep == ASSUME TypeOK, Counters, [Next]_vars PROVE TypeOK'
<1> USE DEF TypeOK, limiter
<1>1. /\ calls \in Nat /\ opened \in 0..MaxNow /\ now \in 0..MaxNow
      /\ MaxNow \in Nat /\ Cardinality(Requests) \in Nat
  BY CallsFinite, GrantLimitsAssumption
<1>2. ASSUME NEW r \in Requests, NEW ok \in BOOLEAN, Call(r, ok)
      PROVE  TypeOK'
  <2>1. calls' \in Nat /\ opened' \in 0..MaxNow
    BY <1>1, <1>2 DEF Call
  <2>2. /\ calls' <= Cardinality({q \in Requests : phase'[q] # "idle"})
        /\ Cardinality({q \in Requests : phase'[q] # "idle"})
             <= Cardinality(Requests)
        /\ Cardinality({q \in Requests : phase'[q] # "idle"}) \in Nat
    BY CountersStep, CallsFinite DEF Counters
  <2>3. calls' \in 0..Cardinality(Requests)
    BY <1>1, <2>1, <2>2
  <2>4. phase' \in [Requests -> {"idle", "checked", "waiting", "done"}]
    BY <1>2 DEF Call
  <2>5. UNCHANGED <<snapshot, started, rows, now, peak>>
    BY <1>2 DEF Call
  <2>6. QED BY <2>1, <2>3, <2>4, <2>5
<1>3. ASSUME NEW r \in Requests, Begin(r) PROVE TypeOK'
  <2>1. r \notin Waiting /\ Waiting \in SUBSET Requests
    BY <1>3 DEF Begin, Waiting
  <2>2. /\ IsFiniteSet(Waiting) /\ Cardinality(Waiting) \in Nat
        /\ Waiting \cup {r} \in SUBSET Requests
    BY <2>1, CallsFinite
  <2>3. 1 + Cardinality(Waiting) <= Cardinality(Requests)
    <3>1. Cardinality(Waiting \cup {r}) = Cardinality(Waiting) + 1
      BY <2>1, <2>2, FS_AddElement
    <3>2. Cardinality(Waiting \cup {r}) <= Cardinality(Requests)
      BY <2>2, CallsFinite
    <3>3. QED BY <1>1, <2>2, <3>1, <3>2
  <2>4. peak' \in 0..Cardinality(Requests)
    BY <1>1, <1>3, <2>2, <2>3 DEF Begin, Waiting
  <2>5. QED BY <1>3, <2>4 DEF Begin
<1>4. ASSUME NEW r \in Requests, Finish(r) PROVE TypeOK'
  <2>1. \A g \in rows : g.id # r
    BY <1>4 DEF Finish, Counters
  <2>2. rows' \in SUBSET [id : Requests, at : 0..MaxNow]
    BY <1>4 DEF Finish
  <2>3. \A g, h \in rows' : g.id = h.id => g = h
    BY <1>4, <2>1 DEF Finish
  <2>4. rows \subseteq rows'
    BY <1>4 DEF Finish
  <2>5. snapshot' \in [Requests -> SUBSET rows']
    BY <1>4, <2>4 DEF Finish
  <2>6. phase' \in [Requests -> {"idle", "checked", "waiting", "done"}]
    BY <1>4 DEF Finish
  <2>7. QED BY <1>4, <2>2, <2>3, <2>5, <2>6 DEF Finish
<1>5. CASE Restart
  BY <1>1, <1>5 DEF Restart
<1>6. CASE Tick
  BY <1>1, <1>6 DEF Tick
<1>7. CASE UNCHANGED vars
  BY <1>7 DEF vars
<1>8. QED BY <1>2, <1>3, <1>4, <1>5, <1>6, <1>7 DEF Next

\* They hold at first.
LEMMA InitBase == Init => TypeOK /\ Counters
<1> SUFFICES ASSUME Init PROVE TypeOK /\ Counters
  OBVIOUS
<1>1. Cardinality(Requests) \in Nat /\ MaxNow \in Nat
  BY CallsFinite, GrantLimitsAssumption
<1>2. TypeOK
  BY <1>1 DEF Init, TypeOK
<1>3. Waiting = {} /\ {r \in Requests : phase[r] # "idle"} = {}
  BY DEF Init, Waiting
<1>4. QED BY <1>2, <1>3, FS_EmptySet DEF Init, Counters

\* They hold in every reachable state.
LEMMA Base == Spec => [](TypeOK /\ Counters)
<1>1. TypeOK /\ Counters /\ [Next]_vars => (TypeOK /\ Counters)'
  BY TypeStep, CountersStep
<1>2. QED BY <1>1, InitBase, PTL DEF Spec

\* The shapes hold, and no call creates two grants.
THEOREM TypeCorrect == Spec => []TypeOK
BY Base, PTL

----------------------------------------------------------------------------
(* How far the rate is exceeded.  A grant is created on what its statement *)
(* saw; of the grants of one window, the one whose statement began last    *)
(* saw all the others but those whose statements ran beside it.            *)

\* the calls whose statement began and was not lost
Begun == Waiting \cup {g.id : g \in rows}

Unseen(T, r) == T \ {g.id : g \in snapshot[r]}

\* Of some calls, the last one to begin has missed no more than ran beside it.
HasLast(T) ==
    \E r \in T : /\ \A q \in T : started[q] <= started[r]
                 /\ Cardinality(Unseen(T, r)) <= peak

GrantsOK ==
    /\ \A r \in Begun : started[r] <= now
    /\ \A g \in rows : g.at = started[g.id] /\ Allowed(g.id)
    /\ \A T \in SUBSET Begun : T # {} => HasLast(T)

\* The statements begun before a step keep their snapshot and time, and nothing
\* else has begun: all that GrantsOK says of them stays.
LEMMA GrantsKept ==
    ASSUME TypeOK, GrantsOK, Begun' \subseteq Begun, peak' >= peak,
           \A r \in Begun : snapshot'[r] = snapshot[r] /\ started'[r] = started[r],
           now' >= now, now' \in 0..MaxNow, peak' \in Nat
    PROVE  /\ \A r \in Begun' : started'[r] <= now'
           /\ \A T \in SUBSET Begun' : T # {} => HasLast(T)'
<1>1. Begun \subseteq Requests
  BY DEF Begun, Waiting, TypeOK
<1>2. \A r \in Begun : started[r] \in Nat /\ started[r] <= now
  BY <1>1 DEF GrantsOK, TypeOK
<1>3. ASSUME NEW T \in SUBSET Begun', T # {} PROVE HasLast(T)'
  <2>1. PICK r \in T : /\ \A q \in T : started[q] <= started[r]
                       /\ Cardinality(Unseen(T, r)) <= peak
    BY <1>3 DEF GrantsOK, HasLast
  <2>2. Unseen(T, r)' = Unseen(T, r)
    BY DEF Unseen
  <2>3. Unseen(T, r) \in SUBSET Requests
    BY <1>1 DEF Unseen
  <2>4. Cardinality(Unseen(T, r)) \in Nat /\ peak \in Nat
    BY <2>3, CallsFinite DEF TypeOK
  <2>5. Cardinality(Unseen(T, r)') <= peak'
    BY <2>1, <2>2, <2>4
  <2>6. \A q \in T : started'[q] <= started'[r]
    BY <2>1
  <2>7. QED BY <2>5, <2>6 DEF HasLast, Unseen
<1>4. \A r \in Begun' : started'[r] <= now'
  BY <1>2 DEF TypeOK
<1>5. QED BY <1>3, <1>4

\* The statement that begins now is the last of any it belongs to, and sees
\* every grant but those of the statements that still wait.
LEMMA BeginStep ==
    ASSUME TypeOK, Counters, GrantsOK, NEW r \in Requests, Begin(r)
    PROVE  GrantsOK'
<1> USE DEF TypeOK
<1>1. /\ phase[r] = "checked"
      /\ phase' = [phase EXCEPT ![r] = "waiting"]
      /\ snapshot' = [snapshot EXCEPT ![r] = rows]
      /\ started' = [started EXCEPT ![r] = now]
      /\ rows' = rows /\ now' = now
  BY DEF Begin
<1>2. r \notin Begun
  BY <1>1 DEF Begun, Waiting, Counters
<1>3. Begun' = Begun \cup {r} /\ Begun \subseteq Requests
  BY <1>1 DEF Begun, Waiting
<1>4. \A q \in Begun : snapshot'[q] = snapshot[q] /\ started'[q] = started[q]
  BY <1>1, <1>2, <1>3
<1>5. Counters' /\ peak' \in Nat /\ peak \in Nat
  <2>1. Counters'
    BY CountersStep DEF Next
  <2>2. TypeOK'
    BY TypeStep DEF Next
  <2>3. QED BY <2>1, <2>2
<1>6. peak' >= peak
  <2>1. Cardinality({q \in Requests : phase[q] = "waiting"}) \in Nat
    BY CallsFinite
  <2>2. QED BY <1>5, <2>1 DEF Begin
<1>7. started'[r] = now /\ \A q \in Begun : started[q] <= now
  BY <1>1 DEF GrantsOK
<1>8. ASSUME NEW T \in SUBSET Begun', T # {} PROVE HasLast(T)'
  <2>1. CASE r \in T
    <3>1. \A q \in T : started'[q] <= started'[r]
      BY <1>3, <1>4, <1>7
    <3>2. Unseen(T, r)' \in SUBSET Waiting'
      BY <1>1, <1>3 DEF Unseen, Begun, Waiting
    <3>3. /\ IsFiniteSet(Waiting') /\ Cardinality(Waiting') \in Nat
          /\ Cardinality(Waiting') <= peak'
      <4>1. Waiting' \in SUBSET Requests
        BY DEF Waiting
      <4>2. QED BY <1>5, <4>1, CallsFinite DEF Counters
    <3>4. Cardinality(Unseen(T, r)') <= Cardinality(Waiting')
      BY <3>2, <3>3, FS_Subset
    <3>5. Cardinality(Unseen(T, r)') \in Nat
      BY <3>2, <3>3, FS_Subset, FS_CardinalityType
    <3>6. Cardinality(Unseen(T, r)') <= peak'
      BY <1>5, <3>3, <3>4, <3>5
    <3>7. QED BY <2>1, <3>1, <3>6 DEF HasLast, Unseen
  <2>2. CASE r \notin T
    <3>1. T \in SUBSET Begun
      BY <1>3, <2>2
    <3>2. PICK q \in T : /\ \A p \in T : started[p] <= started[q]
                         /\ Cardinality(Unseen(T, q)) <= peak
      BY <1>8, <3>1 DEF GrantsOK, HasLast
    <3>3. Unseen(T, q)' = Unseen(T, q)
      BY <1>4, <3>1 DEF Unseen
    <3>4. Cardinality(Unseen(T, q)) \in Nat
      BY <1>3, <3>1, CallsFinite DEF Unseen
    <3>5. Cardinality(Unseen(T, q)') <= peak'
      BY <1>5, <1>6, <3>2, <3>3, <3>4
    <3>6. \A p \in T : started'[p] <= started'[q]
      BY <1>4, <3>1, <3>2
    <3>7. QED BY <3>5, <3>6 DEF HasLast, Unseen
  <2>3. QED BY <2>1, <2>2
<1>9. \A g \in rows' : g.at = started'[g.id] /\ Allowed(g.id)'
  <2> SUFFICES ASSUME NEW g \in rows
               PROVE  g.at = started'[g.id] /\ Allowed(g.id)'
    BY <1>1
  <2>1. g.id \in Begun /\ g.at = started[g.id] /\ Allowed(g.id)
    BY DEF GrantsOK, Begun
  <2>2. snapshot'[g.id] = snapshot[g.id] /\ started'[g.id] = started[g.id]
    BY <1>4, <2>1
  <2>3. QED BY <2>1, <2>2 DEF Allowed, RecentIn
<1>10. \A q \in Begun' : started'[q] <= now'
  BY <1>1, <1>3, <1>4, <1>7
<1>11. QED BY <1>8, <1>9, <1>10 DEF GrantsOK

\* Every step keeps what is known of the grants.
LEMMA GrantsStep ==
    ASSUME TypeOK, Counters, GrantsOK, [Next]_vars PROVE GrantsOK'
<1> USE DEF TypeOK, limiter
<1>1. peak \in Nat /\ now \in 0..MaxNow /\ MaxNow \in Nat
  BY GrantLimitsAssumption
<1>2. ASSUME UNCHANGED <<snapshot, started, rows, peak>>, Begun' \subseteq Begun,
             now' >= now, now' \in 0..MaxNow
      PROVE  GrantsOK'
  <2>1. /\ \A r \in Begun' : started'[r] <= now'
        /\ \A T \in SUBSET Begun' : T # {} => HasLast(T)'
    BY <1>1, <1>2, GrantsKept
  <2>2. \A g \in rows' : g.at = started'[g.id] /\ Allowed(g.id)'
    BY <1>2 DEF GrantsOK, Allowed, RecentIn
  <2>3. QED BY <2>1, <2>2 DEF GrantsOK
<1>3. ASSUME NEW r \in Requests, NEW ok \in BOOLEAN, Call(r, ok)
      PROVE  GrantsOK'
  <2>1. Begun' = Begun
    BY <1>3 DEF Call, Begun, Waiting
  <2>2. QED BY <1>1, <1>2, <1>3, <2>1 DEF Call
<1>4. ASSUME NEW r \in Requests, Finish(r) PROVE GrantsOK'
  <2>1. /\ UNCHANGED <<snapshot, started, now, peak>>
        /\ phase[r] = "waiting"
        /\ phase' = [phase EXCEPT ![r] = "done"]
        /\ \/ rows' = rows
           \/ Allowed(r) /\ rows' = rows \cup {[id |-> r, at |-> started[r]]}
    BY <1>4 DEF Finish
  <2>2. Begun' \subseteq Begun
    BY <2>1 DEF Begun, Waiting
  <2>3. /\ \A q \in Begun' : started'[q] <= now'
        /\ \A T \in SUBSET Begun' : T # {} => HasLast(T)'
    BY <1>1, <2>1, <2>2, GrantsKept
  <2>4. ASSUME NEW g \in rows' PROVE g.at = started[g.id] /\ Allowed(g.id)
    BY <2>1 DEF GrantsOK
  <2>5. ASSUME NEW q PROVE Allowed(q)' <=> Allowed(q)
    BY <2>1 DEF Allowed, RecentIn
  <2>6. \A g \in rows' : g.at = started'[g.id] /\ Allowed(g.id)'
    BY <2>1, <2>4, <2>5
  <2>7. QED BY <2>3, <2>6 DEF GrantsOK
<1>5. CASE Restart
  <2>1. Begun' \subseteq Begun
    BY <1>5 DEF Restart, Begun, Waiting
  <2>2. QED BY <1>1, <1>2, <1>5, <2>1 DEF Restart
<1>6. CASE Tick
  <2>1. Begun' = Begun
    BY <1>6 DEF Tick, Begun, Waiting
  <2>2. QED BY <1>1, <1>2, <1>6, <2>1 DEF Tick
<1>7. CASE UNCHANGED vars
  <2>1. Begun' = Begun
    BY <1>7 DEF vars, Begun, Waiting
  <2>2. QED BY <1>1, <1>2, <1>7, <2>1 DEF vars
<1>8. QED BY <1>3, <1>4, <1>5, <1>6, <1>7, BeginStep DEF Next

\* The grants of a window, counted by the last of their statements: fewer than
\* MaxGrants that it saw, and those it could not see.
LEMMA Overshoot == TypeOK /\ GrantsOK => OvershootBounded
<1> SUFFICES ASSUME TypeOK, GrantsOK, NEW g \in rows
             PROVE  Cardinality(WindowOf(g)) <= MaxGrants - 1 + peak
  BY DEF OvershootBounded
<1> DEFINE W == WindowOf(g)
           T == {h.id : h \in W}
<1>1. /\ W \subseteq rows /\ g \in W
      /\ \A h \in rows : h.id \in Requests /\ h.at \in Nat
      /\ \A h, k \in rows : h.id = k.id => h = k
      /\ Window \in Nat \ {0} /\ MaxGrants \in Nat /\ peak \in Nat
  BY GrantLimitsAssumption DEF WindowOf, TypeOK
<1>2. T \in SUBSET Begun /\ T # {} /\ T \subseteq Requests
  BY <1>1 DEF Begun
<1>3. PICK r \in T : /\ \A q \in T : started[q] <= started[r]
                     /\ Cardinality(Unseen(T, r)) <= peak
  BY <1>2 DEF GrantsOK, HasLast
<1>4. PICK h \in W : h.id = r
  BY <1>3
<1>5. started[r] = g.at
  <2>1. h.at <= g.at /\ h.at = started[r] /\ g.at = started[g.id]
    BY <1>1, <1>4 DEF GrantsOK, WindowOf
  <2>2. g.at <= started[r]
    BY <1>1, <1>3, <2>1
  <2>3. QED BY <1>1, <1>4, <2>1, <2>2
<1>6. IsFiniteSet(rows)
  <2> DEFINE f == [k \in rows |-> k.id]
  <2>1. f \in Injection(rows, Requests)
    BY <1>1 DEF Injection, IsInjective
  <2>2. QED BY <2>1, GrantLimitsAssumption, FS_Injection
<1>7. snapshot[r] \subseteq rows
  BY <1>2, <1>3 DEF TypeOK
<1> DEFINE Seen == W \cap snapshot[r]
           Missed == W \ snapshot[r]
<1>8. /\ IsFiniteSet(Seen) /\ IsFiniteSet(Missed)
      /\ Cardinality(Seen) \in Nat /\ Cardinality(Missed) \in Nat
  <2>1. Seen \in SUBSET rows /\ Missed \in SUBSET rows
    BY <1>1
  <2>2. IsFiniteSet(Seen) /\ IsFiniteSet(Missed)
    BY <1>6, <2>1, FS_Subset
  <2>3. QED BY <2>2, FS_CardinalityType
<1>9. Cardinality(Seen) < MaxGrants
  <2> DEFINE R == RecentIn(snapshot[r], started[r])
  <2>1. Seen \in SUBSET R
    BY <1>5 DEF RecentIn, WindowOf
  <2>2. Cardinality(R) < MaxGrants
    BY <1>1, <1>4 DEF GrantsOK, Allowed
  <2>3. R \in SUBSET rows
    BY <1>7 DEF RecentIn
  <2>4. IsFiniteSet(R) /\ Cardinality(R) \in Nat
    BY <1>6, <2>3, FS_Subset, FS_CardinalityType
  <2>5. Cardinality(Seen) <= Cardinality(R)
    BY <2>1, <2>4, FS_Subset
  <2>6. QED BY <1>1, <1>8, <2>2, <2>4, <2>5
<1>10. Cardinality(Missed) <= peak
  <2> DEFINE f == [k \in Missed |-> k.id]
  <2>1. \A k \in Missed : k.id \in Unseen(T, r)
    BY <1>1, <1>7 DEF Unseen
  <2>2. f \in Injection(Missed, Unseen(T, r))
    BY <1>1, <2>1 DEF Injection, IsInjective
  <2>3. Unseen(T, r) \in SUBSET Requests
    BY <1>2 DEF Unseen
  <2>4. IsFiniteSet(Unseen(T, r)) /\ Cardinality(Unseen(T, r)) \in Nat
    BY <2>3, CallsFinite
  <2>5. Cardinality(Missed) <= Cardinality(Unseen(T, r))
    BY <2>2, <2>4, FS_Injection
  <2>6. QED BY <1>1, <1>3, <1>8, <2>4, <2>5
<1>11. Cardinality(W) = Cardinality(Seen) + Cardinality(Missed)
  <2>1. W = Seen \cup Missed /\ Seen \cap Missed = {}
    OBVIOUS
  <2>2. Cardinality(W) = Cardinality(Seen) + Cardinality(Missed) - Cardinality({})
    BY <1>8, <2>1, FS_Union
  <2>3. Cardinality({}) = 0
    BY FS_EmptySet
  <2>4. QED BY <1>8, <2>2, <2>3
<1>12. QED BY <1>1, <1>8, <1>9, <1>10, <1>11

\* However many statements race for the lock on snapshots taken before it, the
\* rate is exceeded by no more than ran beside one another.
THEOREM OvershootHolds == Spec => []OvershootBounded
<1>1. Init => GrantsOK
  BY DEF Init, GrantsOK, Begun, Waiting
<1>2. TypeOK /\ Counters /\ GrantsOK /\ [Next]_vars => GrantsOK'
  BY GrantsStep
<1>3. QED BY <1>1, <1>2, Base, Overshoot, PTL DEF Spec
=============================================================================
