-------------------------- MODULE DeviceLifecycle --------------------------
(***************************************************************************)
(* What the device registry promises about one account, without its        *)
(* challenges, clocks, limits and keys: a device enters trust by the one   *)
(* bootstrap or by the word of an active device, and leaves it for ever by *)
(* the word of another active device.  DeviceTrust implements it.          *)
(***************************************************************************)
CONSTANTS Devices, NoDevice

VARIABLES
    status,    \* "none", "pending", "active" or "revoked"
    voucher    \* the device that activated this one, NoDevice if none has

lifecycleVars == <<status, voucher>>

Init ==
    /\ status = [d \in Devices |-> "none"]
    /\ voucher = [d \in Devices |-> NoDevice]

SomeActive == \E a \in Devices : status[a] = "active"

\* Once per account: nobody was ever activated.
Bootstrap(d) ==
    /\ \A e \in Devices : voucher[e] = NoDevice
    /\ status[d] = "none"
    /\ status' = [status EXCEPT ![d] = "active"]
    /\ voucher' = [voucher EXCEPT ![d] = d]

\* A later device waits, and somebody can answer it.
Enroll(d) ==
    /\ SomeActive
    /\ status[d] = "none"
    /\ status' = [status EXCEPT ![d] = "pending"]
    /\ UNCHANGED voucher

Approve(a, d) ==
    /\ status[a] = "active"
    /\ status[d] = "pending"
    /\ status' = [status EXCEPT ![d] = "active"]
    /\ voucher' = [voucher EXCEPT ![d] = a]

\* reject (pending) or revoke (active): never by the device itself
Close(a, d) ==
    /\ a # d
    /\ status[a] = "active"
    /\ status[d] \in {"pending", "active"}
    /\ status' = [status EXCEPT ![d] = "revoked"]
    /\ UNCHANGED voucher

Next ==
    \/ \E d \in Devices : Bootstrap(d) \/ Enroll(d)
    \/ \E a, d \in Devices : Approve(a, d) \/ Close(a, d)

Spec == Init /\ [][Next]_lifecycleVars
=============================================================================
