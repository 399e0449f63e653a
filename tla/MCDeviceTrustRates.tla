------------------------- MODULE MCDeviceTrustRates -------------------------
(* DeviceTrustRates on small instances.                                    *)
EXTENDS DeviceTrustRates, TLC

RateSymmetry ==
    Permutations(Devices) \cup Permutations(IdentityKeys)
    \cup Permutations(RegIds) \cup Permutations(ApprIds)
=============================================================================
