----------------------------- MODULE MCPresence -----------------------------
(* Presence on small worlds. *)
EXTENDS Presence

\* one account on two devices beside another; three accounts in two circles
\* that share only the second; and one that is let in
MC_Worlds ==
    {[owner |-> [s1 |-> "u", s2 |-> "u", s3 |-> "v"],
      members |-> [c |-> {"u", "v"}, d |-> {}],
      phase |-> [s1 |-> "connected", s2 |-> "idle", s3 |-> "idle"], events |-> 1],
     [owner |-> [s1 |-> "u", s2 |-> "v", s3 |-> "w"],
      members |-> [c |-> {"u", "v"}, d |-> {"v", "w"}],
      phase |-> [s1 |-> "idle", s2 |-> "connected", s3 |-> "idle"], events |-> 1],
     [owner |-> [s1 |-> "u", s2 |-> "u", s3 |-> "v"],
      members |-> [c |-> {"v"}, d |-> {}],
      phase |-> [s1 |-> "connected", s2 |-> "idle", s3 |-> "connected"], events |-> 3],
     [owner |-> [s1 |-> "u", s2 |-> "v", s3 |-> "v"],
      members |-> [c |-> {"v"}, d |-> {}],
      phase |-> [s1 |-> "idle", s2 |-> "idle", s3 |-> "closed"], events |-> 2]}
=============================================================================
