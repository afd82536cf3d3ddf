---------------------------- MODULE MCDrawOutbox ----------------------------
(* Values of DrawOutbox's constants for TLC. *)
EXTENDS DrawOutbox, TLC

CONSTANTS k1, k2, n1, n2, t1, t2, u1, s1, s2, c1

MCOwner == [t \in Tickets |-> u1]

(* Two issues under keys of their own. *)
MCKeyOf == [i \in 1 .. MaxDay |-> IF i = 1 THEN k1 ELSE k2]

(* The same issue number a year later: normalize_draw_no drops the year. *)
MCKeyOfNextYear == [i \in 1 .. MaxDay |-> k1]

Symmetric == Permutations(Numbers) \cup Permutations(ServerWorkers)
=============================================================================
