--------------------------- MODULE MCWinNotify ------------------------------
(* Values of WinNotify's constants for TLC, and the periods of the reports *)
(* that the same notifier sends.                                           *)
EXTENDS Periods

CONSTANTS w1, w2, anne, ben

(* All wins are drawn on day 0. *)
SameDay == [c \in Wins |-> 0]
MCOwner == [c \in Wins |-> IF c = w1 THEN anne ELSE ben]
=============================================================================
