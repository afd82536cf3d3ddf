---------------------------- MODULE MCFloatRefill ----------------------------
(* Values of FloatRefill's constants for TLC: rows of qlc, whose first     *)
(* three tiers float.                                                      *)
EXTENDS FloatRefill

MCCode == [r \in Rows |-> "qlc"]
MCDrawDate == [r \in Rows |-> NewRules]

Nums(f, b) == [front |-> f, back |-> b]
Bet(m) == [combo |-> Nums(<<9, 1, 2, 3, 4, 5, 6>>, <<10>>), multiplier |-> m, append |-> FALSE]

(* Six hits and the special number, six hits, or five of each kind. *)
MCDrawNumbers ==
  [r \in Rows |-> {Nums(<<1, 2, 3, 4, 5, 6, 7>>, <<10>>),
                   Nums(<<1, 2, 3, 4, 5, 6, 7>>, <<8>>)}]
FixedToo ==
  [r \in Rows |-> MCDrawNumbers[r] \cup {Nums(<<1, 2, 3, 4, 5, 7, 8>>, <<10>>)}]

MCTickets == [r \in Rows |-> {Bet(1), Bet(2)}]
OneTicket == [r \in Rows |-> {Bet(1)}]

MCOfficial == [r \in Rows |-> [i \in 1..9 |-> 10000000 \div i]]
=============================================================================
