------------------------- MODULE SourceHealth_proofs ------------------------
(***************************************************************************)
(* The health table is well-typed and its alert machine never gets stuck,  *)
(* for any number of sources and overlapping evaluations and any threshold.*)
(***************************************************************************)
EXTENDS SourceHealth, TLAPS

(* A recording leaves a well-formed row whose states fit together.         *)
RowOK(h) ==
  /\ h.status = "down" => h.since # None
  /\ h.alerted = "alerted" => h.status = "down"
  /\ h.alerted = "recovering" => h.status = "ok" /\ h.since # None
  /\ h.status = "degraded" => h.since = None

LEMMA AfterOkOK ==
  ASSUME NEW h \in Health, RowOK(h)
  PROVE  AfterOk(h) \in Health /\ RowOK(AfterOk(h))
BY DEF AfterOk, Health, RowOK, Overdue

LEMMA AfterDownOK ==
  ASSUME NEW h \in Health, RowOK(h), now \in Nat
  PROVE  AfterDown(h) \in Health /\ RowOK(AfterDown(h))
BY HealthAssumption DEF AfterDown, Health, RowOK

LEMMA AfterPermanentOK ==
  ASSUME NEW h \in Health
  PROVE  AfterPermanent(h) \in Health /\ RowOK(AfterPermanent(h))
BY DEF AfterPermanent, Health, RowOK

(* Applying delivered messages does, too, whatever was delivered.          *)
LEMMA ApplyOK ==
  ASSUME NEW h \in Health, NEW targets, RowOK(h)
  PROVE  Apply(h, targets) \in Health /\ RowOK(Apply(h, targets))
BY DEF Apply, Health, RowOK

HealthInv == HealthTypeOK /\ NoticeCanBeSettled

LEMMA HealthInitInv == HealthInit => HealthInv
BY HealthAssumption
DEF HealthInit, HealthInv, HealthTypeOK, NoticeCanBeSettled, NewSource, Health, Message

LEMMA RecordInv ==
  ASSUME HealthInv, NEW s \in Sources, NEW o \in Outcomes, Record(s, o)
  PROVE  HealthInv'
<1> DEFINE h == health[s]
<1>1. h \in Health /\ RowOK(h)
  BY DEF HealthInv, HealthTypeOK, NoticeCanBeSettled, RowOK
<1>2. PICK r \in Health : RowOK(r) /\ health' = [health EXCEPT ![s] = r]
  <2>1. CASE o = "ok"
    BY <2>1, <1>1, AfterOkOK DEF Record
  <2>2. CASE o = "down"
    BY <2>2, <1>1, AfterDownOK DEF Record, HealthInv, HealthTypeOK
  <2>3. CASE o = "permanent"
    BY <2>3, <1>1, AfterPermanentOK DEF Record
  <2> QED BY <2>1, <2>2, <2>3 DEF Outcomes
<1>3. \A x \in Sources : health'[x] = IF x = s THEN r ELSE health[x]
  BY <1>2 DEF HealthInv, HealthTypeOK
<1>4. health' \in [Sources -> Health]
  BY <1>2 DEF HealthInv, HealthTypeOK
<1>5. owed' \in [Sources -> BOOLEAN]
  <2>1. owed \in [Sources -> BOOLEAN]
    BY DEF HealthInv, HealthTypeOK
  <2>2. PICK b \in BOOLEAN : owed' = [owed EXCEPT ![s] = b]
    <3>1. CASE o = "ok"
      BY <3>1, <2>1 DEF Record
    <3>2. CASE o = "down"
      BY <3>2, <2>1 DEF Record
    <3>3. CASE o = "permanent"
      BY <3>3, <2>1 DEF Record
    <3> QED BY <3>1, <3>2, <3>3 DEF Outcomes
  <2> QED BY <2>1, <2>2
<1>6. NoticeCanBeSettled'
  <2> SUFFICES ASSUME NEW x \in Sources PROVE RowOK(health'[x])
    BY DEF NoticeCanBeSettled, RowOK
  <2> QED BY <1>2, <1>3 DEF HealthInv, NoticeCanBeSettled, RowOK
<1> QED BY <1>4, <1>5, <1>6 DEF Record, evalVars, HealthInv, HealthTypeOK

LEMMA SendInv ==
  ASSUME HealthInv, NEW e \in Evaluators, NEW m, NEW success \in BOOLEAN,
         Send(e, m, success)
  PROVE  HealthInv'
<1>1. m \in Message
  BY DEF Send, HealthInv, HealthTypeOK
<1>2. UNCHANGED <<now, health>> /\ NoticeCanBeSettled'
  BY DEF Send, HealthInv, NoticeCanBeSettled
<1>3. phase' \in [Evaluators -> {"idle", "planned", "sending"}]
  BY DEF Send, HealthInv, HealthTypeOK
<1>4. plan' \in [Evaluators -> SUBSET Message]
  BY DEF Send, HealthInv, HealthTypeOK
<1>5. delivered' \in [Evaluators -> SUBSET Message]
  BY <1>1 DEF Send, HealthInv, HealthTypeOK
<1>6. owed' \in [Sources -> BOOLEAN]
  BY DEF Send, HealthInv, HealthTypeOK
<1> QED BY <1>2, <1>3, <1>4, <1>5, <1>6 DEF HealthInv, HealthTypeOK

LEMMA FinishInv ==
  ASSUME HealthInv, NEW e \in Evaluators, Finish(e)
  PROVE  HealthInv'
<1>1. \A x \in Sources : health'[x] \in Health /\ RowOK(health'[x])
  <2> TAKE x \in Sources
  <2>1. health[x] \in Health /\ RowOK(health[x])
    BY DEF HealthInv, HealthTypeOK, NoticeCanBeSettled, RowOK
  <2> QED BY <2>1, ApplyOK DEF Finish
<1>2. health' \in [Sources -> Health]
  BY <1>1 DEF Finish
<1>3. NoticeCanBeSettled'
  BY <1>1 DEF NoticeCanBeSettled, RowOK
<1> QED BY <1>2, <1>3 DEF Finish, HealthInv, HealthTypeOK

LEMMA HealthNextInv == HealthInv /\ [HealthNext]_healthVars => HealthInv'
<1> SUFFICES ASSUME HealthInv, [HealthNext]_healthVars PROVE HealthInv'
  OBVIOUS
<1>1. CASE PassTime
  BY <1>1 DEF PassTime, evalVars, HealthInv, HealthTypeOK, NoticeCanBeSettled
<1>2. CASE \E s \in Sources, o \in Outcomes : Record(s, o)
  BY <1>2, RecordInv
<1>3. ASSUME NEW e \in Evaluators, Evaluate(e) PROVE HealthInv'
  <2>1. CASE Snapshot(e)
    <3>1. Due \subseteq Message
      BY DEF Due, Message
    <3>2. plan' \in [Evaluators -> SUBSET Message]
      BY <2>1, <3>1 DEF Snapshot, HealthInv, HealthTypeOK
    <3> QED BY <2>1, <3>2 DEF Snapshot, HealthInv, HealthTypeOK, NoticeCanBeSettled
  <2>2. CASE NoSender(e)
    BY <2>2 DEF NoSender, HealthInv, HealthTypeOK, NoticeCanBeSettled
  <2>3. CASE \E m \in plan[e], success \in BOOLEAN : Send(e, m, success)
    BY <2>3, SendInv
  <2>4. CASE Finish(e)
    BY <2>4, FinishInv
  <2> QED BY <1>3, <2>1, <2>2, <2>3, <2>4 DEF Evaluate
<1>4. CASE Restart
  BY <1>4 DEF Restart, HealthInv, HealthTypeOK, NoticeCanBeSettled
<1>5. CASE UNCHANGED healthVars
  BY <1>5 DEF healthVars, evalVars, HealthInv, HealthTypeOK, NoticeCanBeSettled
<1> QED BY <1>1, <1>2, <1>3, <1>4, <1>5 DEF HealthNext

(* The alert machine is well-typed and never stuck: an outage has a start, *)
(* "alerted" stands only on a failing source, a recovery notice is due     *)
(* only on a healthy one; for overlapping recordings and evaluations.      *)
THEOREM AlertsNeverStick == HealthSpec => [](HealthTypeOK /\ NoticeCanBeSettled)
<1>1. HealthInit => HealthInv
  BY HealthInitInv
<1>2. HealthInv /\ [HealthNext]_healthVars => HealthInv'
  BY HealthNextInv
<1>3. HealthInv => HealthTypeOK /\ NoticeCanBeSettled
  BY DEF HealthInv
<1> QED BY <1>1, <1>2, <1>3, PTL DEF HealthSpec
=============================================================================
