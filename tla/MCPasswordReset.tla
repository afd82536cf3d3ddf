--------------------------- MODULE MCPasswordReset ---------------------------
(* Values of PasswordReset's constants for TLC. *)
EXTENDS PasswordReset, TLC

Symmetric == Permutations(Name) \cup Permutations(Checkers)
=============================================================================
