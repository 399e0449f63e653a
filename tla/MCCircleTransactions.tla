------------------------ MODULE MCCircleTransactions ------------------------
(* CircleTransactions on a small circle: alice founded it, bob is in it,   *)
(* carol is not.  Alice has two devices, bob one.                          *)
EXTENDS CircleTransactions, TLC

MC_Users == {"alice", "bob", "carol"}
MC_Devices == {"a1", "a2", "b1"}
MC_Keys == {<<d, 1>> : d \in MC_Devices}
MC_UserOrder ==
    [us \in SUBSET MC_Users |->
        SelectSeq(<<"alice", "bob", "carol">>, LAMBDA u : u \in us)]
MC_KeyOrder ==
    [ks \in SUBSET MC_Keys |->
        SelectSeq(<<<<"a1", 1>>, <<"a2", 1>>, <<"b1", 1>>>>, LAMBDA k : k \in ks)]
MC_DeviceUser == [a1 |-> "alice", a2 |-> "alice", b1 |-> "bob"]
MC_RequestIds == {"r1", "r2"}
MC_Asker == [r1 |-> "carol", r2 |-> "carol"]
MC_Thread == {"alice", "bob"}

Database(bob, carol) ==
    [role    |-> [alice |-> "owner", bob |-> bob, carol |-> "none"],
     request |-> [r1 |-> carol, r2 |-> "none"],
     threads |-> {MC_Thread},
     key     |-> [a1 |-> <<"active", 1>>, a2 |-> <<"active", 1>>, b1 |-> <<"active", 1>>],
     device  |-> [a1 |-> "active", a2 |-> "active", b1 |-> "active"],
     stored  |-> {}]

----------------------------------------------------------------------------
ask == [kind |-> "ask", user |-> "carol"]
handle(u, v) == [kind |-> "handle", user |-> u, request |-> "r1", verdict |-> v]
promote(r) == [kind |-> "role", user |-> "alice", member |-> "bob", role |-> r]
converse(u, us) == [kind |-> "converse", user |-> u, members |-> us]
read(u) == [kind |-> "read", user |-> u]
send(id, from, to) ==
    [kind |-> "send", message |-> [id |-> id, from |-> <<from, 1>>,
                                   to |-> {<<d, 1>> : d \in to}]]
publish(d) == [kind |-> "publish", device |-> d, version |-> 2]
revoke == [kind |-> "revoke", device |-> "a2", target |-> "a1"]
show(u, what) == [kind |-> "show", user |-> u, what |-> what]

\* joining and managing the circle
Door == <<ask, handle("alice", "accepted"), handle("bob", "accepted"),
          handle("bob", "rejected"), promote("admin"), promote("member"),
          show("bob", "join-request:read")>>

\* talking in it, while carol is let in
Talk == <<converse("alice", {"bob", "carol"}), converse("carol", {"alice"}),
          read("alice"), send("m1", "a1", {"b1"}), send("m1", "b1", {"a1"}),
          show("carol", "conversation:read"), show("carol", "members:read"),
          handle("alice", "accepted")>>

\* the account's side, which locks users and devices first, and what it meets
Registry == <<publish("a1"), revoke, handle("alice", "accepted"),
              send("m1", "a1", {"b1"}), send("m2", "b1", {"a1", "a2"})>>

----------------------------------------------------------------------------
(* The processes are numbered, and calls are dealt to them in the order of *)
(* one list: a mix that differs only in who runs what is listed once.      *)

Dealt(list, databases) ==
    {[call |-> [p \in 1..3 |-> list[i[p]]], db |-> database] :
        i \in {j \in [1..3 -> DOMAIN list] : j[1] <= j[2] /\ j[2] <= j[3]},
        database \in databases}

MC_Scenarios ==
    Dealt(Door, {Database(bob, carol) : bob \in {"member", "admin"},
                                        carol \in {"none", "pending"}})
    \cup Dealt(Talk, {Database("member", "pending")})
    \cup Dealt(Registry, {Database("member", "pending")})
=============================================================================
