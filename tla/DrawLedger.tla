----------------------------- MODULE DrawLedger -----------------------------
(***************************************************************************)
(* What the comparison outbox promises, without workers, rows or tickets:  *)
(* a ledger of the draws whose comparison is still owed.  A draw becomes   *)
(* owed in the step that stores or corrects it, and a debt ends only with  *)
(* a comparison of the current result, or openly: in the set of draws      *)
(* whose worker died.  Only the history backfill stores draws silently.    *)
(***************************************************************************)
EXTENDS Naturals

CONSTANT Keys

VARIABLES
  stored,   \* draws in the database
  owed,     \* draws somebody has yet to compare in their current version
  done,     \* draws whose current version has been compared
  lost,     \* draws whose claimed comparison died
  silent    \* draws nobody was ever asked to compare

vars == <<stored, owed, done, lost, silent>>

TypeOK ==
  /\ stored \in SUBSET Keys
  /\ owed \in SUBSET stored /\ done \in SUBSET stored
  /\ lost \in SUBSET stored /\ silent \in SUBSET stored

Init == stored = {} /\ owed = {} /\ done = {} /\ lost = {} /\ silent = {}

Ask(k) == owed' = owed \cup {k} /\ silent' = silent \ {k}

(* A new draw is stored and owed in one step.                              *)
Store(k) ==
  /\ k \notin stored
  /\ stored' = stored \cup {k}
  /\ Ask(k)
  /\ UNCHANGED <<done, lost>>

(* A new result voids the comparison and is owed in the same step.         *)
Revise(k) ==
  /\ k \in stored
  /\ Ask(k)
  /\ done' = done \ {k}
  /\ UNCHANGED <<stored, lost>>

(* Somebody asks for a comparison of an unchanged result.                  *)
Request(k) ==
  /\ k \in stored
  /\ Ask(k)
  /\ UNCHANGED <<stored, done, lost>>

(* The current result has been compared; the debt may be settled by it, or *)
(* still stand (a second request is under way).                            *)
Compare(k) ==
  /\ k \in stored
  /\ done' = done \cup {k}
  /\ owed' \in {owed, owed \ {k}}
  /\ lost' = lost \ {k}
  /\ UNCHANGED <<stored, silent>>

(* The workers on the draws in K die: what ceases to be owed is in K.      *)
Lose(K) ==
  /\ lost' = lost \cup K
  /\ owed' \in SUBSET owed /\ owed \ owed' \subseteq K
  /\ UNCHANGED <<stored, done, silent>>

(* Draws are stored for the record only.                                   *)
Archive(K) ==
  /\ K \cap stored = {}
  /\ stored' = stored \cup K
  /\ silent' = silent \cup K
  /\ UNCHANGED <<owed, done, lost>>

Next ==
  \/ \E K \in SUBSET stored : Lose(K)
  \/ \E k \in Keys : Store(k) \/ Revise(k) \/ Request(k) \/ Compare(k)
  \/ \E K \in SUBSET Keys : Archive(K)

Spec == Init /\ [][Next]_vars

(* No draw vanishes from the ledger.                                       *)
Accounted == stored \subseteq owed \cup done \cup lost \cup silent
=============================================================================
