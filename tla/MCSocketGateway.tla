-------------------------- MODULE MCSocketGateway --------------------------
(* Small instances of SocketGateway for TLC. *)
EXTENDS SocketGateway, TLC

\* Sockets, devices and conversations are interchangeable.  Only for the runs
\* that check one invariant: symmetry is unsound for liveness.
GatewaySymmetry ==
    Permutations(Sockets) \cup Permutations(Devices) \cup Permutations(Convs)
=============================================================================
