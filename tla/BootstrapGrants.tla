-------------------------- MODULE BootstrapGrants --------------------------
(***************************************************************************)
(* Auth's POST /device-bootstrap-grant for one account: the grants that    *)
(* DeviceTrust lets a first device spend, and the two limits on how many   *)
(* there are.  The outer limit is a counter in the memory of Auth, in      *)
(* fixed windows; the inner one counts rows, in one SQL statement that     *)
(* first takes an advisory lock of the account.  Under READ COMMITTED the  *)
(* statement reads the snapshot taken when it started, BEFORE the lock.    *)
(***************************************************************************)
EXTENDS Naturals, FiniteSets

CONSTANTS
    Requests,     \* calls, each used once; a grant has the id of its call
    MaxGrants,    \* grants per window, counted in the table (5)
    MaxCalls,     \* calls per window, counted in memory (5)
    Window,       \* both windows (10 minutes)
    MaxNow        \* bound: clock

ASSUME GrantLimitsAssumption ==
    /\ IsFiniteSet(Requests)
    /\ MaxGrants \in Nat \ {0} /\ MaxCalls \in Nat \ {0}
    /\ Window \in Nat \ {0} /\ MaxNow \in Nat

VARIABLES
    phase,      \* "idle", "checked" (password right), "waiting" or "done"
    snapshot,   \* rows a waiting statement sees
    started,    \* its NOW()
    rows,       \* device_bootstrap_grants, committed: {[id, at]}
    calls,      \* the limiter's counter for the account ...
    opened,     \* ... and the start of its window, 0 while calls = 0
    now,
    peak        \* history variable: most statements running at one time

limiter == <<calls, opened>>
vars == <<phase, snapshot, started, rows, limiter, now, peak>>

Init ==
    /\ phase = [r \in Requests |-> "idle"]
    /\ snapshot = [r \in Requests |-> {}]
    /\ started = [r \in Requests |-> 0]
    /\ rows = {}
    /\ calls = 0 /\ opened = 0
    /\ now = 0
    /\ peak = 0

\* @fastify/rate-limit, whose window opens at the first call it counts, then
\* bcrypt.compare; a refused call ends
Call(r, passwordOk) ==
    /\ phase[r] = "idle"
    /\ LET fresh == calls = 0 \/ opened + Window <= now
           count == IF fresh THEN 1 ELSE calls + 1 IN
       /\ calls' = count
       /\ opened' = IF fresh THEN now ELSE opened
       /\ phase' = [phase EXCEPT ![r] =
                      IF count <= MaxCalls /\ passwordOk THEN "checked"
                                                         ELSE "done"]
    /\ UNCHANGED <<snapshot, started, rows, now, peak>>

\* the statement begins: its snapshot and its NOW() are taken
Begin(r) ==
    /\ phase[r] = "checked"
    /\ phase' = [phase EXCEPT ![r] = "waiting"]
    /\ snapshot' = [snapshot EXCEPT ![r] = rows]
    /\ started' = [started EXCEPT ![r] = now]
    /\ LET running == 1 + Cardinality({q \in Requests : phase[q] = "waiting"})
       IN  peak' = IF running > peak THEN running ELSE peak
    /\ UNCHANGED <<rows, limiter, now>>

\* created_at > NOW() - '10 minutes'
RecentIn(table, t) == {g \in table : g.at + Window > t}

\* mutant: one grant too many
M_Allowed(r) == Cardinality(RecentIn(snapshot[r], started[r])) <= MaxGrants

Allowed(r) == Cardinality(RecentIn(snapshot[r], started[r])) < MaxGrants

\* mutant: a statement that has committed is run again
M_Finish(r) ==
    /\ phase[r] = "waiting"
    /\ rows' = IF Allowed(r) THEN rows \cup {[id |-> r, at |-> now]} ELSE rows
    /\ UNCHANGED <<phase, snapshot, started, limiter, now, peak>>

\* The statement gets the account's lock, counts what its snapshot holds,
\* inserts, and commits; the lock keeps two of these steps apart.
Finish(r) ==
    /\ phase[r] = "waiting"
    /\ phase' = [phase EXCEPT ![r] = "done"]
    /\ rows' = IF Allowed(r) THEN rows \cup {[id |-> r, at |-> started[r]]}
                             ELSE rows
    /\ UNCHANGED <<snapshot, started, limiter, now, peak>>

\* The counter is lost and no call gets its answer.  A statement that began is
\* PostgreSQL's to finish: it goes on, or it ends with its connection.
Restart ==
    /\ calls > 0
    /\ calls' = 0 /\ opened' = 0
    /\ \E lost \in SUBSET {r \in Requests : phase[r] = "waiting"} :
          phase' = [r \in Requests |->
                      IF phase[r] = "checked" \/ r \in lost THEN "done"
                                                            ELSE phase[r]]
    /\ UNCHANGED <<snapshot, started, rows, now, peak>>

Tick ==
    /\ now < MaxNow
    /\ now' = now + 1
    /\ UNCHANGED <<phase, snapshot, started, rows, limiter, peak>>

Next ==
    \/ \E r \in Requests, ok \in BOOLEAN : Call(r, ok)
    \/ \E r \in Requests : Begin(r) \/ Finish(r)
    \/ Restart
    \/ Tick

Spec == Init /\ [][Next]_vars

----------------------------------------------------------------------------
(* Properties *)

\* Shapes; a call creates one grant at most.
TypeOK ==
    /\ phase \in [Requests -> {"idle", "checked", "waiting", "done"}]
    /\ rows \in SUBSET [id : Requests, at : 0..MaxNow]
    /\ \A g, h \in rows : g.id = h.id => g = h
    /\ snapshot \in [Requests -> SUBSET rows]
    /\ started \in [Requests -> 0..MaxNow]
    /\ calls \in 0..Cardinality(Requests)
    /\ opened \in 0..MaxNow
    /\ now \in 0..MaxNow
    /\ peak \in 0..Cardinality(Requests)

\* grants created in the window that ends with grant g
WindowOf(g) == {h \in rows : h.at <= g.at /\ h.at + Window > g.at}

\* What DEVICE_TRUST_PROTOCOL_V1.md:32 says: at most MaxGrants of an account in
\* any window.
GrantRate == \A g \in rows : Cardinality(WindowOf(g)) <= MaxGrants

\* What the code does ensure: the rate is exceeded by no more than the
\* statements that ran beside another one; calls one at a time keep to it.
OvershootBounded ==
    \A g \in rows : Cardinality(WindowOf(g)) <= MaxGrants - 1 + peak
=============================================================================
