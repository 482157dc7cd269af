------------------------------ MODULE MCMibSync ------------------------------
(* A small instance of MibSync: the ONU reports its OnuData and three      *)
(* entities, of which the last is of a class no template is read for.      *)
EXTENDS MibSync, TLC

MCOnuData == {1}
MCSupported == {2, 3}
=============================================================================
