---------------------------- MODULE MCEngineLoop ----------------------------
(* Small instances of EngineLoop for TLC.                                  *)
EXTENDS EngineLoop, TLC

CONSTANTS r1, r2, r3

MCRequests == {r1, r2, r3}

(* Requests are interchangeable (not used with liveness).                  *)
Symmetry == Permutations(MCRequests)
=============================================================================
