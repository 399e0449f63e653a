------------------------- MODULE MCBootstrapGrants -------------------------
(* Small instances of BootstrapGrants for TLC. *)
EXTENDS BootstrapGrants, TLC

CallSymmetry == Permutations(Requests)
=============================================================================
