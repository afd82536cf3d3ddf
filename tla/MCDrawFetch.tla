---------------------------- MODULE MCDrawFetch -----------------------------
(* Values of DrawFetch's constants for TLC. *)
EXTENDS DrawFetch, TLC

CONSTANTS numA, numAReordered, numB

(* numAReordered lists the numbers of numA in another order. *)
MCCanon == [n \in Numbers |-> IF n = numAReordered THEN numA ELSE n]

Symmetric == Permutations(Evaluators)
=============================================================================
