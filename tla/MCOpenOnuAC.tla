----------------------------- MODULE MCOpenOnuAC -----------------------------
(* One device with two adoptions, a reconciliation, an up indication, an   *)
(* OMCI message and a deletion: of two devices, neither touches what       *)
(* belongs to the other.                                                   *)
EXTENDS OpenOnuAC, TLC

CONSTANTS d1, a1, a2, r1, x1, m1, m2

MCDeviceOf == [r \in Requests |-> d1]
=============================================================================
