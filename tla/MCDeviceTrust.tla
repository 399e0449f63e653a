--------------------------- MODULE MCDeviceTrust ---------------------------
(* DeviceTrust on small instances: the symmetries its cfgs use.            *)
EXTENDS DeviceTrust, TLC

\* Devices, keys, grants, challenge ids and materials are interchangeable.
TrustSymmetry ==
    Permutations(Devices) \cup Permutations(IdentityKeys)
    \cup Permutations(Grants) \cup Permutations(RegIds)
    \cup Permutations(ApprIds) \cup Permutations(Materials)
=============================================================================
