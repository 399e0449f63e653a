---------------------------- MODULE CircleLedger ----------------------------
(***************************************************************************)
(* What the Messaging database promises about one circle: every operation  *)
(* happens at once, in a state that allows it.  No locks, no retries.      *)
(***************************************************************************)
EXTENDS Naturals, FiniteSets

CONSTANTS
    Users, Devices,
    DeviceUser,    \* the account of a device
    Messages       \* [id, from, to], from and to as <<device, key version>>

Roles == {"owner", "admin", "member"}
Managers == {"owner", "admin"}

VARIABLES
    role,      \* user -> Roles, or "none" outside the circle
    asking,    \* users with a pending join request
    threads,   \* member sets of the conversations
    active,    \* active devices
    version,   \* version of the circle key of a device, 0 when it has none
    stored     \* messages

ledger == <<role, asking, threads, active, version, stored>>

Members == {u \in Users : role[u] # "none"}

Current(keys) == \A k \in keys : k[1] \in active /\ version[k[1]] = k[2]

Init ==
    /\ role \in [Users -> Roles \cup {"none"}]
    /\ asking \in SUBSET (Users \ Members)
    /\ threads \in SUBSET (SUBSET Members)
    /\ active \in SUBSET Devices
    /\ version \in [Devices -> Nat]
    /\ \A d \in Devices : version[d] # 0 => DeviceUser[d] \in Members
    /\ stored = {}

Ask(u) ==
    /\ u \notin Members \cup asking
    /\ asking' = asking \cup {u}
    /\ UNCHANGED <<role, threads, active, version, stored>>

Admit(a, u) ==
    /\ role[a] \in Managers
    /\ u \in asking
    /\ role' = [role EXCEPT ![u] = "member"]
    /\ asking' = asking \ {u}
    /\ UNCHANGED <<threads, active, version, stored>>

Decline(a, u) ==
    /\ role[a] \in Managers
    /\ u \in asking
    /\ asking' = asking \ {u}
    /\ UNCHANGED <<role, threads, active, version, stored>>

SetRole(o, m, r) ==
    /\ role[o] = "owner"
    /\ role[m] \in {"admin", "member"}
    /\ r \in {"admin", "member"}
    /\ role' = [role EXCEPT ![m] = r]
    /\ UNCHANGED <<asking, threads, active, version, stored>>

Converse(thread) ==
    /\ thread # {} /\ thread \subseteq Members
    /\ threads' = threads \cup {thread}
    /\ UNCHANGED <<role, asking, active, version, stored>>

\* every key the message was sealed for is the current key of an active
\* device, and every device belongs to a member of the conversation
Store(m, thread) ==
    /\ thread \in threads
    /\ Current({m.from} \cup m.to)
    /\ \A k \in {m.from} \cup m.to : DeviceUser[k[1]] \in thread
    /\ \A n \in stored : n.id # m.id
    /\ stored' = stored \cup {m}
    /\ UNCHANGED <<role, asking, threads, active, version>>

Publish(d) ==
    /\ d \in active
    /\ DeviceUser[d] \in Members
    /\ version' = [version EXCEPT ![d] = @ + 1]
    /\ UNCHANGED <<role, asking, threads, active, stored>>

Revoke(a, t) ==
    /\ a # t /\ {a, t} \subseteq active
    /\ DeviceUser[a] = DeviceUser[t]
    /\ active' = active \ {t}
    /\ version' = [version EXCEPT ![t] = 0]
    /\ UNCHANGED <<role, asking, threads, stored>>

Next ==
    \/ \E u \in Users : Ask(u)
    \/ \E a, u \in Users : Admit(a, u) \/ Decline(a, u)
    \/ \E o, m \in Users, r \in Roles : SetRole(o, m, r)
    \/ \E thread \in SUBSET Users : Converse(thread)
    \/ \E thread \in threads, m \in Messages : Store(m, thread)
    \/ \E d \in Devices : Publish(d)
    \/ \E a, t \in Devices : Revoke(a, t)

Spec == Init /\ [][Next]_ledger
=============================================================================
