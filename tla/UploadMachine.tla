----------------------------- MODULE UploadMachine -----------------------------
(***************************************************************************)
(* What the MIB upload is to the device handler: a machine that identifies *)
(* the ONU, loads the template of its type or asks for its MIB, and may be *)
(* stopped at any time.  MibSync implements it, and DeviceHandler uses it  *)
(* this way.                                                               *)
(***************************************************************************)
VARIABLE phase      \* "disabled", "getting", "template", "uploading", "inSync"

Init == phase = "disabled"

Go(from, to) == phase = from /\ phase' = to

Start == Go("disabled", "getting")
Template == Go("getting", "template")
Upload == Go("template", "uploading")
Sync == Go("template", "inSync") \/ Go("uploading", "inSync")

\* Something is wrong with the upload: back to the first state of a run.
Retreat == \E p \in {"template", "uploading", "inSync"} : Go(p, "getting")

Stop == phase' = "disabled"

Next == Start \/ Template \/ Upload \/ Sync \/ Retreat \/ Stop

Spec == Init /\ [][Next]_phase

=============================================================================
