--------------------------- MODULE MCDeviceHandler ---------------------------
(***************************************************************************)
(* The device handler with a few indications; the bounds are numbers and   *)
(* are given in the configurations.                                        *)
(***************************************************************************)
EXTENDS DeviceHandler
=============================================================================
