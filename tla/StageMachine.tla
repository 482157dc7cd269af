----------------------------- MODULE StageMachine -----------------------------
(***************************************************************************)
(* What the MIB download and the unlock of the UNIs are to the device      *)
(* handler: a machine that is started, tells the handler once, when it has *)
(* completed, may be reset at any time before and after that, and comes    *)
(* back to the disabled state.  InitialConfig implements it twice, and     *)
(* DeviceHandler uses both this way.                                       *)
(***************************************************************************)
VARIABLES
    phase,      \* "disabled", "running", "done", "resetting"
    told        \* the handler has been told

vars == <<phase, told>>

Init == phase = "disabled" /\ told = FALSE

Go(from, to) == phase = from /\ phase' = to /\ UNCHANGED told

Start == Go("disabled", "running")

Complete ==
    /\ phase = "running" /\ ~told
    /\ phase' = "done" /\ told' = TRUE

Reset == Go("running", "resetting") \/ Go("done", "resetting")
Restart == Go("resetting", "disabled")

Next == Start \/ Complete \/ Reset \/ Restart

Spec == Init /\ [][Next]_vars

=============================================================================
