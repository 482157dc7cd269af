--------------------------- MODULE MCAniConfigFsm ---------------------------
(* Small instances of AniConfigFsm.                                        *)
EXTENDS AniConfigFsm, TLC

CONSTANTS g1, g2
=============================================================================
