------------------------- MODULE DrawCoverage_proofs -------------------------
(***************************************************************************)
(* The types of DrawCoverage, for every schedule, source configuration,    *)
(* history size and bound.  That a late result is stored is liveness and   *)
(* stays with TLC.                                                         *)
(***************************************************************************)
EXTENDS DrawCoverage, TLAPS

-----------------------------------------------------------------------------
(* Every row the two ways of storing write is a row of the table.  First:  *)
(* the date of an answer is a day.                                         *)
LEMMA DatesAreDays ==
  ASSUME TypeOK, NEW i \in Nat, NEW date \in Dates(i)
  PROVE  date \in Nat
  BY DEF TypeOK, Dates, Today

(* A fetched result stored under either of its dates.                     *)
LEMMA StoreTyped ==
  ASSUME TypeOK, NEW i \in Nat, NEW date \in Dates(i), Store(i, date)
  PROVE  rows' \subseteq Row
<1>1. date \in Nat
  BY DatesAreDays
<1>2. [issue |-> i, date |-> date, owed |-> TRUE] \in Row
  BY <1>1 DEF Row
<1> QED
  BY <1>2 DEF TypeOK, Store

(* A batch of history, each issue under either of its dates.               *)
LEMMA StoreHistoryTyped ==
  ASSUME TypeOK, NEW I \in SUBSET Recent, StoreHistory(I)
  PROVE  rows' \subseteq Row
<1>1. Today \in Nat
  BY DEF TypeOK, Today
<1>2. I \subseteq Nat
  <2>1. Recent \subseteq 0 .. latest
    BY DEF Recent, Published
  <2> QED
    BY <2>1 DEF TypeOK
<1>3. PICK undated \in SUBSET I :
        rows' = rows \cup {[issue |-> i, date |-> IF i \in undated THEN Today ELSE i,
                           owed |-> FALSE] : i \in {j \in I : ~ HasRow(j)}}
  BY DEF StoreHistory
<1>4. ASSUME NEW i \in I
      PROVE  [issue |-> i, date |-> IF i \in undated THEN Today ELSE i,
              owed |-> FALSE] \in Row
  <2>1. i \in Nat /\ (IF i \in undated THEN Today ELSE i) \in Nat
    BY <1>1, <1>2
  <2> QED
    BY <2>1 DEF Row
<1> QED
  BY <1>3, <1>4 DEF TypeOK

-----------------------------------------------------------------------------
(* Before the first start.                                                 *)
LEMMA InitTyped == Init => TypeOK
  BY ConstantsAssumption DEF Init, TypeOK, FirstDay, Row

(* Every step of the server, the command and the world keeps it.           *)
LEMMA NextTyped == TypeOK /\ [Next]_vars => TypeOK'
<1> SUFFICES ASSUME TypeOK, [Next]_vars
             PROVE  TypeOK'
  OBVIOUS
<1>1. CASE Boot
  BY <1>1 DEF Boot, TypeOK, Drawn
<1>2. CASE CheckHistory
  BY <1>2 DEF CheckHistory, TypeOK, Drawn, Today
<1>3. CASE CheckMissed
  BY <1>3 DEF CheckMissed, TypeOK, Drawn
<1>4. CASE FetchMissed
  <2>1. rows' \subseteq Row
    BY <1>4, StoreTyped DEF FetchMissed, TypeOK
  <2> QED
    BY <1>4, <2>1 DEF FetchMissed, TypeOK, Drawn
<1>5. ASSUME NEW I \in SUBSET Recent, LoadHistory(I)
      PROVE  TypeOK'
  <2>1. rows' \subseteq Row
    BY <1>5, StoreHistoryTyped DEF LoadHistory
  <2> QED
    BY <1>5, <2>1 DEF LoadHistory, TypeOK, Drawn, Today
<1>6. ASSUME NEW I \in SUBSET Recent, CommandBackfill(I)
      PROVE  TypeOK'
  <2>1. rows' \subseteq Row
    BY <1>6, StoreHistoryTyped DEF CommandBackfill
  <2> QED
    BY <1>6, <2>1 DEF CommandBackfill, TypeOK, Drawn
<1>7. CASE Tick
  <2>1. rows' \subseteq Row
    BY <1>7, StoreTyped DEF Tick, TypeOK
  <2> QED
    BY <1>7, <2>1 DEF Tick, TypeOK, Drawn
<1>8. CASE Crash
  BY <1>8, ConstantsAssumption DEF Crash, TypeOK, Drawn
<1>9. CASE PassTime
  BY <1>9 DEF PassTime, TypeOK, Drawn
<1>10. ASSUME NEW d \in 0 .. Today, Publish(d)
       PROVE  TypeOK'
  BY <1>10 DEF Publish, IsNext, TypeOK, Drawn
<1>11. CASE UNCHANGED vars
  BY <1>11 DEF vars, TypeOK, Drawn
<1> QED
  BY <1>1, <1>2, <1>3, <1>4, <1>5, <1>6, <1>7, <1>8, <1>9, <1>10, <1>11 DEF Next

(* Type correctness of the table and of the server's life.                 *)
THEOREM TypeCorrect == Spec => []TypeOK
  BY InitTyped, NextTyped, PTL DEF Spec
=============================================================================
