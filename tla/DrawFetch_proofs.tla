-------------------------- MODULE DrawFetch_proofs --------------------------
(***************************************************************************)
(* The polls drive the health table as SourceHealth allows (so that its    *)
(* theorems hold of the composition), are well-typed, and never replace or *)
(* unconfirm a stored draw; for any number of overlapping polls, lotteries *)
(* and issues.                                                             *)
(***************************************************************************)
EXTENDS DrawFetch, SourceHealth_proofs

LEMMA SourcesAre == Primary \in Sources /\ Backup \in Sources
BY FetchAssumption

LEMMA NoCallOK == NoCall \in Call
<1>1. (CHOOSE l \in Lotteries : TRUE) \in Lotteries
  BY FetchAssumption
<1>2. NotDrawn \in Answer
  BY DEF NotDrawn, Answer
<1> QED BY <1>1, <1>2, SourcesAre DEF NoCall, Call

(* What a poller holds as a draw has an issue and a result.                *)
LEMMA DataOK ==
  ASSUME PollTypeOK, NEW w \in Pollers, NEW s \in Sources
  PROVE  /\ Answered(w, s) \in Answer
         /\ Outcome(Answered(w, s)) \in Outcomes
         /\ HasData(w, s) => Answered(w, s).issue \in Issues /\ Answered(w, s).num \in Numbers
<1>1. Answered(w, s) \in Answer
  BY DEF PollTypeOK, Call, Answered
<1> QED BY <1>1 DEF Answer, HasData, Outcome, Outcomes

LEMMA UpgradeOK ==
  ASSUME NEW d \in Draw, NEW n, NEW single \in BOOLEAN
  PROVE  /\ Upgrade(d, n, single) \in Draw
         /\ Upgrade(d, n, single).num = d.num
         /\ Upgrade(d, n, single).single => d.single
BY DEF Upgrade, Draw

(* A store writes one draw, and on top of an existing one only confirms it.*)
Confirms(d, new) == d # NoDraw => new.num = d.num /\ (new.single => d.single)

LEMMA StoreOK ==
  ASSUME PollTypeOK, NEW l \in Lotteries, NEW a, a.issue \in Issues, a.num \in Numbers,
         NEW single \in BOOLEAN, Store(l, a, single)
  PROVE  /\ draws' \in [Lotteries \X Issues -> Draw \cup {NoDraw}]
         /\ \A x \in Lotteries \X Issues : Confirms(draws[x], draws'[x])
<1> DEFINE x == <<l, a.issue>>
           new == IF draws[x] = NoDraw THEN [num |-> a.num, single |-> single]
                  ELSE Upgrade(draws[x], a.num, single)
<1>1. x \in Lotteries \X Issues /\ draws[x] \in Draw \cup {NoDraw}
  BY DEF PollTypeOK
<1>2. new \in Draw /\ Confirms(draws[x], new)
  <2>1. CASE draws[x] = NoDraw
    BY <2>1 DEF Draw, Confirms
  <2>2. CASE draws[x] # NoDraw
    BY <2>2, <1>1, UpgradeOK DEF Confirms
  <2> QED BY <2>1, <2>2
<1>3. draws' = [draws EXCEPT ![x] = new]
  BY DEF Store
<1> HIDE DEF new, x
<1>4. draws' \in [Lotteries \X Issues -> Draw \cup {NoDraw}]
  BY <1>1, <1>2, <1>3 DEF PollTypeOK
<1>5. ASSUME NEW y \in Lotteries \X Issues PROVE Confirms(draws[y], draws'[y])
  <2>1. CASE y = x
    BY <2>1, <1>1, <1>2, <1>3 DEF PollTypeOK
  <2>2. CASE y # x
    BY <2>2, <1>3 DEF PollTypeOK, Confirms
  <2> QED BY <2>1, <2>2
<1> QED BY <1>4, <1>5

-----------------------------------------------------------------------------

(* What every step keeps of the pollers and of the draws.                  *)
Keeps ==
  /\ PollTypeOK'
  /\ \A x \in Lotteries \X Issues : Confirms(draws[x], draws'[x])

LEMMA SameDraws ==
  ASSUME PollTypeOK, UNCHANGED draws
  PROVE  /\ draws' \in [Lotteries \X Issues -> Draw \cup {NoDraw}]
         /\ \A x \in Lotteries \X Issues : Confirms(draws[x], draws'[x])
BY DEF PollTypeOK, Confirms

LEMMA InitPoll == Init => PollTypeOK
BY NoCallOK DEF Init, PollTypeOK

LEMMA ReturnKeeps ==
  ASSUME PollTypeOK, NEW w \in Pollers,
         NEW v \in {"stored", "mismatch", "notDrawn", "failed"}, Return(w, v),
         draws' \in [Lotteries \X Issues -> Draw \cup {NoDraw}],
         \A x \in Lotteries \X Issues : Confirms(draws[x], draws'[x])
  PROVE  Keeps
<1>1. AfterLottery(w) \in {"evaluate", "fetch"}
  BY DEF AfterLottery
<1>2. pc' \in [Pollers -> {"idle", "fetch", "recordPrimary", "recordBackup", "decide",
                         "grace", "recordMissing", "decideAgain", "evaluate", "alerting"}]
  BY <1>1 DEF Return, Goto, PollTypeOK
<1>3. call' \in [Pollers -> Call] /\ verdict' \in
         [Pollers -> {"none", "stored", "mismatch", "notDrawn", "failed"}]
  BY NoCallOK DEF Return, PollTypeOK
<1> QED BY <1>2, <1>3 DEF Return, PollTypeOK, Keeps

LEMMA StoreDrawKeeps ==
  ASSUME PollTypeOK, NEW w \in Pollers, NEW s \in Sources, HasData(w, s),
         NEW single \in BOOLEAN, StoreDraw(w, Answered(w, s), single)
  PROVE  Keeps
<1>1. CASE Store(call[w].lottery, Answered(w, s), single) /\ Return(w, "stored")
  <2>1. call[w].lottery \in Lotteries
    BY DEF PollTypeOK, Call
  <2>2. Answered(w, s).issue \in Issues /\ Answered(w, s).num \in Numbers
    BY DataOK
  <2> HIDE DEF Answered
  <2> QED BY <1>1, <2>1, <2>2, StoreOK, ReturnKeeps
<1>2. CASE UNCHANGED draws /\ Return(w, "failed")
  BY <1>2, SameDraws, ReturnKeeps
<1> QED BY <1>1, <1>2 DEF StoreDraw

LEMMA FetchKeeps ==
  ASSUME PollTypeOK, NEW w \in Pollers, FetchStep(w)
  PROVE  Keeps
<1>1. CASE StartPoll(w)
  BY <1>1, SameDraws DEF StartPoll, Goto, PollTypeOK, Keeps
<1>2. ASSUME NEW l \in todo[w], NEW a \in Answer, NEW b \in Answer, FetchBoth(w, l, a, b)
      PROVE  Keeps
  <2>1. [lottery |-> l, missing |-> Backup,
         answers |-> [s \in Sources |-> IF s = Primary THEN a ELSE b]] \in Call
    BY SourcesAre DEF Call, PollTypeOK
  <2>2. call' \in [Pollers -> Call]
    BY <1>2, <2>1 DEF FetchBoth, PollTypeOK
  <2>3. UNCHANGED draws
    BY <1>2 DEF FetchBoth
  <2> QED BY <1>2, <2>2, <2>3, SameDraws DEF FetchBoth, Goto, PollTypeOK, Keeps
<1>3. ASSUME NEW s \in Sources, NEW from,
             NEW to \in {"recordBackup", "decide", "decideAgain"},
             RecordOutcome(w, s, from, to)
      PROVE  Keeps
  BY <1>3, SameDraws DEF RecordOutcome, Goto, PollTypeOK, Keeps
<1>4. CASE DecideNothing(w)
  BY <1>4, SameDraws, ReturnKeeps DEF DecideNothing
<1>5. CASE DecideBoth(w)
  <2>1. PICK s \in Sources :
          \/ StoreDraw(w, Answered(w, s), FALSE)
          \/ UNCHANGED draws /\ Return(w, "mismatch")
    BY <1>5, SourcesAre DEF DecideBoth
  <2>2. HasData(w, s)
    BY <1>5 DEF DecideBoth
  <2> QED BY <2>1, <2>2, StoreDrawKeeps, SameDraws, ReturnKeeps
<1>6. ASSUME NEW present \in Sources, NEW other \in Sources, WaitForOther(w, present, other)
      PROVE  Keeps
  <2>1. call' \in [Pollers -> Call]
    BY <1>6 DEF WaitForOther, PollTypeOK, Call
  <2> QED BY <1>6, <2>1, SameDraws DEF WaitForOther, Goto, PollTypeOK, Keeps
<1>7. ASSUME NEW present \in Sources, NEW other \in Sources, StoreSingle(w, present, other)
      PROVE  Keeps
  BY <1>7, StoreDrawKeeps DEF StoreSingle
<1>8. ASSUME NEW a \in Answer, Refetch(w, a) PROVE Keeps
  <2>1. call[w] \in Call
    BY DEF PollTypeOK
  <2>2. [call[w] EXCEPT !.answers[call[w].missing] = a] \in Call
    BY <2>1 DEF Call
  <2>3. call' = [call EXCEPT ![w] = [call[w] EXCEPT !.answers[call[w].missing] = a]]
    BY <1>8 DEF Refetch
  <2>4. call' \in [Pollers -> Call]
    BY <2>2, <2>3 DEF PollTypeOK
  <2> QED BY <1>8, <2>4, SameDraws DEF Refetch, Goto, PollTypeOK, Keeps
<1>9. call[w].missing \in Sources
  BY DEF PollTypeOK, Call
<1> QED
  BY <1>1, <1>2, <1>3, <1>4, <1>5, <1>6, <1>7, <1>8, <1>9, SourcesAre DEF FetchStep

LEMMA AlertKeeps ==
  ASSUME PollTypeOK, NEW w \in Pollers, AlertStep(w)
  PROVE  Keeps
<1>1. UNCHANGED draws
  BY DEF AlertStep, NothingDue, BeginAlerts, SendAlert, EndAlerts
<1>2. UNCHANGED <<todo, call, verdict, polls>>
  BY DEF AlertStep, NothingDue, BeginAlerts, SendAlert, EndAlerts, pollVars
<1>3. pc' = pc \/ Goto(w, "idle") \/ Goto(w, "alerting")
  BY DEF AlertStep, NothingDue, BeginAlerts, SendAlert, EndAlerts, pollVars
<1> QED BY <1>1, <1>2, <1>3, SameDraws DEF Goto, PollTypeOK, Keeps

LEMMA NextKeeps == PollTypeOK /\ [Next]_vars => Keeps
<1> SUFFICES ASSUME PollTypeOK, [Next]_vars PROVE Keeps
  OBVIOUS
<1>1. CASE PassTime /\ UNCHANGED <<draws, pollVars, polls>>
  BY <1>1, SameDraws DEF pollVars, PollTypeOK, Keeps
<1>2. CASE Crash
  BY <1>2, SameDraws, NoCallOK DEF Crash, PollTypeOK, Keeps
<1>3. CASE UNCHANGED vars
  BY <1>3, SameDraws DEF vars, pollVars, PollTypeOK, Keeps
<1> QED BY <1>1, <1>2, <1>3, FetchKeeps, AlertKeeps DEF Next

-----------------------------------------------------------------------------

LEMMA FetchHealth ==
  ASSUME PollTypeOK, NEW w \in Pollers, FetchStep(w)
  PROVE  [HealthNext]_healthVars
<1>1. ASSUME NEW s \in Sources, NEW from, NEW to, RecordOutcome(w, s, from, to)
      PROVE  [HealthNext]_healthVars
  <2>1. Outcome(Answered(w, s)) \in Outcomes
    BY DataOK
  <2> QED BY <1>1, <2>1 DEF RecordOutcome, HealthNext
<1>2. call[w].missing \in Sources
  BY DEF PollTypeOK, Call
<1>3. ASSUME NEW a, NEW single, StoreDraw(w, a, single) PROVE UNCHANGED healthVars
  BY <1>3 DEF StoreDraw, Return
<1>4. CASE DecideBoth(w)
  BY <1>4, <1>3 DEF DecideBoth, Return
<1>5. ASSUME NEW s \in Sources, NEW t \in Sources, WaitForOther(w, s, t) \/ StoreSingle(w, s, t)
      PROVE  UNCHANGED healthVars
  BY <1>5, <1>3 DEF WaitForOther, StoreSingle
<1>6. CASE \E a \in Answer : Refetch(w, a)
  BY <1>6 DEF Refetch
<1>7. CASE StartPoll(w) \/ DecideNothing(w) \/
           \E l \in todo[w], a, b \in Answer : FetchBoth(w, l, a, b)
  BY <1>7 DEF StartPoll, DecideNothing, Return, FetchBoth
<1> QED BY <1>1, <1>2, <1>4, <1>5, <1>6, <1>7, SourcesAre DEF FetchStep

LEMMA AlertHealth ==
  ASSUME NEW w \in Pollers, AlertStep(w)
  PROVE  [HealthNext]_healthVars
<1>1. CASE NothingDue(w)
  BY <1>1 DEF NothingDue
<1>2. CASE BeginAlerts(w)
  BY <1>2 DEF BeginAlerts, HealthNext, Evaluate, Pollers
<1>3. CASE SendAlert(w)
  BY <1>3 DEF SendAlert, HealthNext, Evaluate, Pollers
<1>4. CASE EndAlerts(w)
  BY <1>4 DEF EndAlerts, HealthNext, Evaluate, Pollers
<1> QED BY <1>1, <1>2, <1>3, <1>4 DEF AlertStep

LEMMA NextHealth == PollTypeOK /\ [Next]_vars => [HealthNext]_healthVars
<1> SUFFICES ASSUME PollTypeOK, [Next]_vars PROVE [HealthNext]_healthVars
  OBVIOUS
<1>1. CASE PassTime /\ UNCHANGED <<draws, pollVars, polls>>
  BY <1>1 DEF HealthNext
<1>2. CASE Crash
  BY <1>2 DEF Crash, HealthNext
<1>3. CASE UNCHANGED vars
  BY <1>3 DEF vars
<1> QED BY <1>1, <1>2, <1>3, FetchHealth, AlertHealth DEF Next

(* The pollers touch the health table only as SourceHealth describes, by   *)
(* the way their actions are composed; what is proved of every             *)
(* SourceHealth behaviour is brought over to the polls by this lemma.      *)
LEMMA PollsDriveHealth == Spec => HealthSpec
<1>1. Init => HealthInit /\ PollTypeOK
  BY InitPoll DEF Init
<1>2. PollTypeOK /\ [Next]_vars => PollTypeOK'
  BY NextKeeps DEF Keeps
<1>3. PollTypeOK /\ [Next]_vars => [HealthNext]_healthVars
  BY NextHealth
<1> QED BY <1>1, <1>2, <1>3, PTL DEF Spec, HealthSpec

(* Type correctness of the polls and of the table they write.              *)
THEOREM PollsTypeCorrect == Spec => []TypeOK
<1>1. Init => PollTypeOK
  BY InitPoll
<1>2. PollTypeOK /\ [Next]_vars => PollTypeOK'
  BY NextKeeps DEF Keeps
<1>3. HealthTypeOK /\ NoticeCanBeSettled /\ PollTypeOK => TypeOK
  BY DEF TypeOK
<1> QED
  BY <1>1, <1>2, <1>3, PollsDriveHealth, AlertsNeverStick, PTL DEF Spec

(* The alert machine is never stuck in the composed system.                *)
THEOREM PolledAlertsNeverStick == Spec => []NoticeCanBeSettled
BY PollsDriveHealth, AlertsNeverStick, PTL

(* No poll ever replaces a stored result or takes a confirmation back.     *)
THEOREM PollsConfirmOnly == Spec => PollsOnlyConfirm
<1>1. Init => PollTypeOK
  BY InitPoll
<1>2. PollTypeOK /\ [Next]_vars => PollTypeOK'
  BY NextKeeps DEF Keeps
<1>3. PollTypeOK /\ [Next]_vars =>
        [\A x \in Lotteries \X Issues : draws[x] # NoDraw =>
           /\ draws'[x].num = draws[x].num
           /\ draws'[x].single => draws[x].single]_vars
  BY NextKeeps DEF Keeps, Confirms
<1> QED BY <1>1, <1>2, <1>3, PTL DEF Spec, PollsOnlyConfirm

-----------------------------------------------------------------------------

(* Both sources have answered w with the result n, in canonical form.      *)
BothAnswered(w, n) ==
  \A s \in Sources : HasData(w, s) /\ Canon[Answered(w, s).num] = Canon[n]

LEMMA StoreConfirms ==
  ASSUME PollTypeOK, NEW l \in Lotteries, NEW a, a.issue \in Issues, a.num \in Numbers,
         NEW single \in BOOLEAN, Store(l, a, single),
         NEW x \in Lotteries \X Issues, draws'[x] # draws[x], ~ draws'[x].single
  PROVE  ~ single /\ draws'[x].num = a.num
<1>1. x = <<l, a.issue>>
  BY DEF Store, PollTypeOK
<1>2. draws[x] \in Draw \cup {NoDraw}
  BY DEF PollTypeOK
<1>3. CASE draws[x] = NoDraw
  BY <1>1, <1>3 DEF Store, PollTypeOK
<1>4. CASE draws[x] # NoDraw
  <2>1. draws'[x] = Upgrade(draws[x], a.num, single)
    BY <1>1, <1>4 DEF Store, PollTypeOK
  <2> QED BY <2>1, <1>2, <1>4 DEF Upgrade, Draw
<1> QED BY <1>3, <1>4

LEMMA ConfirmStep ==
  ASSUME PollTypeOK, Next, NEW x \in Lotteries \X Issues,
         draws'[x] # draws[x], ~ draws'[x].single
  PROVE  \E w \in Pollers : BothAnswered(w, draws'[x].num)
<1>1. PICK w \in Pollers : FetchStep(w)
  BY DEF Next, AlertStep, NothingDue, BeginAlerts, SendAlert, EndAlerts, Crash
<1>2. ASSUME NEW s \in Sources, HasData(w, s), NEW single \in BOOLEAN,
             StoreDraw(w, Answered(w, s), single)
      PROVE  ~ single /\ draws'[x].num = Answered(w, s).num
  <2>1. call[w].lottery \in Lotteries
    BY DEF PollTypeOK, Call
  <2>2. Answered(w, s).issue \in Issues /\ Answered(w, s).num \in Numbers
    BY <1>2, DataOK
  <2>3. Store(call[w].lottery, Answered(w, s), single)
    BY <1>2 DEF StoreDraw
  <2> HIDE DEF Answered
  <2> QED BY <2>1, <2>2, <2>3, StoreConfirms
<1>3. CASE DecideBoth(w)
  <2>1. PICK s \in Sources : StoreDraw(w, Answered(w, s), FALSE)
    BY <1>3, SourcesAre DEF DecideBoth
  <2>2. \A t \in Sources : HasData(w, t)
    BY <1>3 DEF DecideBoth
  <2>3. draws'[x].num = Answered(w, s).num
    BY <2>1, <2>2, <1>2
  <2>4. Canon[Answered(w, Primary).num] = Canon[Answered(w, Backup).num]
    BY <1>3 DEF DecideBoth, NumbersMatch
  <2>5. \A t \in Sources : t = Primary \/ t = Backup
    BY FetchAssumption
  <2> QED BY <2>2, <2>3, <2>4, <2>5 DEF BothAnswered
<1>4. ASSUME NEW s \in Sources, NEW t \in Sources, StoreSingle(w, s, t) PROVE FALSE
  BY <1>4, <1>2 DEF StoreSingle
<1>5. UNCHANGED draws \/ DecideBoth(w) \/
        \E s \in Sources : \E t \in Sources \ {s} : StoreSingle(w, s, t)
  BY <1>1 DEF FetchStep, StartPoll, FetchBoth, RecordOutcome, DecideNothing, WaitForOther,
              Refetch
<1> QED BY <1>3, <1>4, <1>5

(* A draw becomes "confirmed by both sources" only by a poll that holds    *)
(* that result from each of them.                                          *)
THEOREM ConfirmationsAreReal == Spec => ConfirmedByBoth
<1>1. Init => PollTypeOK
  BY InitPoll
<1>2. PollTypeOK /\ [Next]_vars => PollTypeOK'
  BY NextKeeps DEF Keeps
<1>3. PollTypeOK /\ [Next]_vars =>
        [\A x \in Lotteries \X Issues :
           draws'[x] # draws[x] /\ ~ draws'[x].single =>
             \E w \in Pollers : \A s \in Sources :
               HasData(w, s) /\ Canon[Answered(w, s).num] = Canon[draws'[x].num]]_vars
  BY ConfirmStep DEF BothAnswered
<1> QED BY <1>1, <1>2, <1>3, PTL DEF Spec, ConfirmedByBoth
=============================================================================
