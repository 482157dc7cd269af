----------------------------- MODULE AniMachine -----------------------------
(***************************************************************************)
(* What the ANI configuration promises to the tech profile processing: a   *)
(* run creates its entities, sets the mapper last, is complete only after  *)
(* that, may be aborted at any time, and ends in the disabled state, where *)
(* the completion has been told and forgotten.  AniConfigFsm implements    *)
(* it, and TechProf uses it this way.                                      *)
(***************************************************************************)
VARIABLES
    phase,      \* "disabled", "starting", "creating", "mapper",
                \* "configDone", "resetting"; "gone" with the adapter
    completed   \* the run is complete and the device handler not yet told

vars == <<phase, completed>>

Init == phase = "disabled" /\ completed = FALSE

Go(from, to) == phase = from /\ phase' = to /\ UNCHANGED completed

Start == Go("disabled", "starting")
Create == Go("starting", "creating")
SetMapper == Go("creating", "mapper")

Complete ==
    /\ phase = "mapper"
    /\ phase' = "configDone"
    /\ completed' = TRUE

Abort == \E p \in {"starting", "creating", "mapper", "configDone"} : Go(p, "resetting")

Restart ==
    /\ phase = "resetting"
    /\ phase' = "disabled"
    /\ completed' = FALSE

\* The adapter panics.
Die == phase' = "gone" /\ completed' = FALSE

Next == Start \/ Create \/ SetMapper \/ Complete \/ Abort \/ Restart \/ Die

Spec == Init /\ [][Next]_vars

=============================================================================
