----------------------------- MODULE MCTechProf -----------------------------
(* Small instances of TechProf.                                            *)
EXTENDS TechProf, TLC

CONSTANTS d1, d2, t1, g1, c1, u0, p1

MCUniOf == [r \in Requests |-> Uni0]
\* All downloads ask for the path that was stored.
MCPathOf == [r \in Downloads |-> p1]
MCStored == [u \in Unis |-> p1]
MCNothingStored == NoPaths

\* The downloads differ in nothing.
Symmetry == Permutations(Downloads)
=============================================================================
