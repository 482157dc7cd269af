------------------------------ MODULE MCOmciCC ------------------------------
(* Small instance of OmciCC: three high priority requests and two TIDs for  *)
(* them.                                                                    *)
EXTENDS OmciCC, TLC

CONSTANTS h1, h2, h3

MCHighPrio == {h1, h2, h3}
=============================================================================
