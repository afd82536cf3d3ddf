--------------------------- MODULE WinNotify_proofs ---------------------------
(***************************************************************************)
(* No win falls between path A, the summary and the catch-up sweep, for    *)
(* any number of wins and users, crashes and recomparisons (WinNotify).    *)
(*                                                                         *)
(* NoSilentMiss is not inductive: it says nothing while a summary runs.    *)
(* The invariant below follows a standing win through the summary of its   *)
(* day: before it, in it (its user is still to come, or its message is     *)
(* being sent), and behind it.                                             *)
(*                                                                         *)
(* At the end, the arithmetic of the reports the notifier sends (Periods). *)
(***************************************************************************)
EXTENDS Periods, TLAPS

USE NotifyAssumption

-----------------------------------------------------------------------------

(* A summary begins and ends in one morning, and sends only while it runs. *)
SummaryShape ==
  /\ summary # "done" => Morning
  /\ summary # "running" => digest = {}

(* Whatever will say "sent" in the log was delivered.                      *)
Delivered ==
  \A c \in Wins :
    "sent" \in log[c] \/ push[c] = "sent" \/ at[c] = "sent" => c \in told

(* A standing win behind its summary is dealt with, or late.               *)
Covered(c) ==
  Standing(c) /\ ~ SummaryAhead(c) =>
    \/ c \in digest \/ c \in told \/ c \in loud \/ c \in unheard \/ c \in excused
    \/ cmp[c].stamp >= Cutoff(c)

IInv == TypeOK /\ SummaryShape /\ Delivered /\ \A c \in Wins : Covered(c)

(* The time of a summary is a morning of the day after the draw.           *)
LEMMA SummaryInTheMorning ==
  ASSUME NEW c \in Wins
  PROVE  /\ SummaryTime(c) \in Nat
         /\ Cutoff(c) = SummaryTime(c)
         /\ SummaryTime(c) % 3 = 1
         /\ SummaryTime(c) \div 3 = DayOf[c] + 1
<1>1. DayOf[c] \in Nat
  OBVIOUS
<1>2. SummaryTime(c) \in Nat /\ Cutoff(c) = SummaryTime(c)
  BY <1>1 DEF SummaryTime, Cutoff
<1>3. SummaryTime(c) % 3 = 1
  BY <1>1, Z3 DEF SummaryTime
<1>4. SummaryTime(c) \div 3 = DayOf[c] + 1
  BY <1>1, Z3 DEF SummaryTime
<1> QED
  BY <1>2, <1>3, <1>4

(* The moment before the summary of a day lies in the night.               *)
LEMMA NightBefore ==
  ASSUME NEW c \in Wins, now \in Nat, now < SummaryTime(c), ~ (now + 1 < SummaryTime(c))
  PROVE  now + 1 = SummaryTime(c) /\ Night /\ ~ Morning
<1>1. now + 1 = SummaryTime(c)
  BY SummaryInTheMorning
<1>2. DayOf[c] \in Nat
  OBVIOUS
<1>3. now = 3 * (DayOf[c] + 1)
  BY <1>1, <1>2 DEF SummaryTime
<1>4. now % 3 = 0
  BY <1>2, <1>3, Z3
<1> QED
  BY <1>1, <1>4 DEF Night, Morning

-----------------------------------------------------------------------------

LEMMA InitIInv == Init => IInv
<1> SUFFICES ASSUME Init PROVE IInv
  OBVIOUS
<1>1. TypeOK
  BY DEF Init, TypeOK, TablesOK, JobsOK, HistoryOK, NoVerdict, Verdict, Stages
<1>2. SummaryShape /\ Delivered
  BY DEF Init, SummaryShape, Delivered
<1>3. \A c \in Wins : Covered(c)
  BY DEF Init, Covered, Standing, NoVerdict
<1> QED
  BY <1>1, <1>2, <1>3 DEF IInv

(* Every step keeps the types.                                             *)
LEMMA StepTypes ==
  ASSUME TypeOK, [Next]_vars
  PROVE  TypeOK'
<1> USE DEF TypeOK
<1> USE DEF TablesOK, JobsOK, HistoryOK, Verdict, NoVerdict, Stages, sweepVars, serverVars,
            historyVars
<1>1. ASSUME NEW c \in Wins, NEW v \in {"win", "lose"}, Compare(c, v) PROVE TypeOK'
  <2>1. TablesOK'
    BY <1>1 DEF Compare
  <2>2. JobsOK'
    BY <1>1 DEF Compare
  <2>3. HistoryOK'
    BY <1>1 DEF Compare
  <2> QED
    BY <2>1, <2>2, <2>3
<1>2. ASSUME NEW c \in Wins, NEW v \in {"win", "lose"}, BeginRedo(c, v) PROVE TypeOK'
  <2>1. TablesOK'
    BY <1>2 DEF BeginRedo
  <2>2. JobsOK'
    BY <1>2 DEF BeginRedo
  <2>3. HistoryOK'
    BY <1>2 DEF BeginRedo
  <2> QED
    BY <2>1, <2>2, <2>3
<1>3. ASSUME NEW c \in Wins, CommitRedo(c) PROVE TypeOK'
  <2>1. TablesOK'
    BY <1>3 DEF CommitRedo
  <2>2. JobsOK'
    BY <1>3 DEF CommitRedo
  <2>3. HistoryOK'
    BY <1>3 DEF CommitRedo
  <2> QED
    BY <2>1, <2>2, <2>3
<1>4. ASSUME NEW c \in Wins, ToggleTracked(c) PROVE TypeOK'
  <2>1. TablesOK'
    BY <1>4 DEF ToggleTracked
  <2>2. JobsOK'
    BY <1>4 DEF ToggleTracked
  <2>3. HistoryOK'
    BY <1>4 DEF ToggleTracked
  <2> QED
    BY <2>1, <2>2, <2>3
<1>5. ASSUME NEW c \in Wins, StartPush(c) PROVE TypeOK'
  <2>1. TablesOK'
    BY <1>5 DEF StartPush
  <2>2. JobsOK'
    BY <1>5 DEF StartPush
  <2>3. HistoryOK'
    BY <1>5 DEF StartPush
  <2> QED
    BY <2>1, <2>2, <2>3
<1>6. ASSUME NEW c \in Wins, NEW r \in Results, DeliverPush(c, r) PROVE TypeOK'
  <2>1. TablesOK'
    BY <1>6 DEF DeliverPush, Outcome, Status
  <2>2. JobsOK'
    BY <1>6 DEF DeliverPush, Outcome, Status
  <2>3. HistoryOK'
    BY <1>6 DEF DeliverPush, Outcome, Status
  <2> QED
    BY <2>1, <2>2, <2>3
<1>7. ASSUME NEW c \in Wins, LogPush(c) PROVE TypeOK'
  <2>1. TablesOK'
    BY <1>7 DEF LogPush
  <2>2. JobsOK'
    BY <1>7 DEF LogPush
  <2>3. HistoryOK'
    BY <1>7 DEF LogPush
  <2> QED
    BY <2>1, <2>2, <2>3
<1>8. ASSUME NEW c \in Wins, MisfirePush(c) PROVE TypeOK'
  <2>1. TablesOK'
    BY <1>8 DEF MisfirePush
  <2>2. JobsOK'
    BY <1>8 DEF MisfirePush
  <2>3. HistoryOK'
    BY <1>8 DEF MisfirePush
  <2> QED
    BY <2>1, <2>2, <2>3
<1>9. ASSUME NEW c \in Wins, SweepOne(c) PROVE TypeOK'
  <2>1. TablesOK'
    BY <1>9 DEF SweepOne
  <2>2. JobsOK'
    BY <1>9 DEF SweepOne
  <2>3. HistoryOK'
    BY <1>9 DEF SweepOne
  <2> QED
    BY <2>1, <2>2, <2>3
<1>10. ASSUME NEW c \in Wins, NEW r \in Results, DeliverSweep(c, r) PROVE TypeOK'
  <2>1. TablesOK'
    BY <1>10 DEF DeliverSweep, Outcome, Status
  <2>2. JobsOK'
    BY <1>10 DEF DeliverSweep, Outcome, Status
  <2>3. HistoryOK'
    BY <1>10 DEF DeliverSweep, Outcome, Status
  <2> QED
    BY <2>1, <2>2, <2>3
<1>11. ASSUME NEW c \in Wins, LogSweep(c) PROVE TypeOK'
  <2>1. TablesOK'
    BY <1>11 DEF LogSweep
  <2>2. JobsOK'
    BY <1>11 DEF LogSweep
  <2>3. HistoryOK'
    BY <1>11 DEF LogSweep
  <2> QED
    BY <2>1, <2>2, <2>3
<1>12. CASE PathATick
  <2>1. TablesOK'
    BY <1>12 DEF PathATick
  <2>2. JobsOK'
    BY <1>12 DEF PathATick
  <2>3. HistoryOK'
    BY <1>12 DEF PathATick
  <2> QED
    BY <2>1, <2>2, <2>3
<1>13. CASE StartSweep
  <2>1. {c \in Wins : Candidate(c)} \subseteq Wins
    OBVIOUS
  <2>2. TablesOK'
    BY <1>13, <2>1 DEF StartSweep
  <2>3. JobsOK'
    BY <1>13, <2>1 DEF StartSweep
  <2>4. HistoryOK'
    BY <1>13, <2>1 DEF StartSweep
  <2> QED
    BY <2>2, <2>3, <2>4
<1>14. CASE EndSweep
  <2>1. TablesOK'
    BY <1>14 DEF EndSweep
  <2>2. JobsOK'
    BY <1>14 DEF EndSweep
  <2>3. HistoryOK'
    BY <1>14 DEF EndSweep
  <2> QED
    BY <2>1, <2>2, <2>3
<1>15. CASE Boot
  <2>1. {c \in Wins : Candidate(c)} \subseteq Wins
    OBVIOUS
  <2>2. TablesOK'
    BY <1>15, <2>1 DEF Boot
  <2>3. JobsOK'
    BY <1>15, <2>1 DEF Boot
  <2>4. HistoryOK'
    BY <1>15, <2>1 DEF Boot
  <2> QED
    BY <2>2, <2>3, <2>4
<1>16. CASE StartSummary
  <2>1. TablesOK'
    BY <1>16 DEF StartSummary
  <2>2. JobsOK'
    BY <1>16 DEF StartSummary
  <2>3. HistoryOK'
    BY <1>16 DEF StartSummary
  <2> QED
    BY <2>1, <2>2, <2>3
<1>17. CASE EndSummary
  <2>1. TablesOK'
    BY <1>17 DEF EndSummary
  <2>2. JobsOK'
    BY <1>17 DEF EndSummary
  <2>3. HistoryOK'
    BY <1>17 DEF EndSummary
  <2> QED
    BY <2>1, <2>2, <2>3
<1>18. CASE SkipSummary
  <2>1. Yesterdays(Users) \subseteq Wins
    BY DEF Yesterdays
  <2>2. TablesOK'
    BY <1>18, <2>1 DEF SkipSummary
  <2>3. JobsOK'
    BY <1>18, <2>1 DEF SkipSummary
  <2>4. HistoryOK'
    BY <1>18, <2>1 DEF SkipSummary
  <2> QED
    BY <2>2, <2>3, <2>4
<1>19. ASSUME NEW u \in Users, Summarise(u) PROVE TypeOK'
  <2>1. Yesterdays({u}) \subseteq Wins
    BY DEF Yesterdays
  <2>2. TablesOK'
    BY <1>19, <2>1 DEF Summarise
  <2>3. JobsOK'
    BY <1>19, <2>1 DEF Summarise
  <2>4. HistoryOK'
    BY <1>19, <2>1 DEF Summarise
  <2> QED
    BY <2>2, <2>3, <2>4
<1>20. ASSUME NEW u \in Users, SummariseFails(u) PROVE TypeOK'
  <2>1. Yesterdays({u}) \subseteq Wins
    BY DEF Yesterdays
  <2>2. TablesOK'
    BY <1>20, <2>1 DEF SummariseFails
  <2>3. JobsOK'
    BY <1>20, <2>1 DEF SummariseFails
  <2>4. HistoryOK'
    BY <1>20, <2>1 DEF SummariseFails
  <2> QED
    BY <2>2, <2>3, <2>4
<1>21. ASSUME NEW r \in Results, DeliverSummary(r) PROVE TypeOK'
  <2>1. TablesOK'
    BY <1>21 DEF DeliverSummary, Outcome
  <2>2. JobsOK'
    BY <1>21 DEF DeliverSummary, Outcome
  <2>3. HistoryOK'
    BY <1>21 DEF DeliverSummary, Outcome
  <2> QED
    BY <2>1, <2>2, <2>3
<1>22. CASE PassTime
  <2>1. TablesOK'
    BY <1>22 DEF PassTime
  <2>2. JobsOK'
    BY <1>22 DEF PassTime
  <2>3. HistoryOK'
    BY <1>22 DEF PassTime
  <2> QED
    BY <2>1, <2>2, <2>3
<1>23. CASE Crash
  <2>1. Yesterdays(users) \subseteq Wins
    BY DEF Yesterdays
  <2>2. TablesOK'
    BY <1>23, <2>1 DEF Crash
  <2>3. JobsOK'
    BY <1>23, <2>1 DEF Crash
  <2>4. HistoryOK'
    BY <1>23, <2>1 DEF Crash
  <2> QED
    BY <2>2, <2>3, <2>4
<1>24. CASE UNCHANGED vars
  <2>1. TablesOK'
    BY <1>24 DEF vars
  <2>2. JobsOK'
    BY <1>24 DEF vars
  <2>3. HistoryOK'
    BY <1>24 DEF vars
  <2> QED
    BY <2>1, <2>2, <2>3
<1> HIDE DEF TypeOK
<1> QED
  BY <1>1, <1>2, <1>3, <1>4, <1>5, <1>6, <1>7, <1>8, <1>9, <1>10, <1>11, <1>12,
     <1>13, <1>14, <1>15, <1>16, <1>17, <1>18, <1>19, <1>20, <1>21, <1>22, <1>23,
     <1>24 DEF Next, Judge, PathA, Sweep, PathB

(* Every step keeps the shape of the summary.                              *)
LEMMA StepShape ==
  ASSUME TypeOK, SummaryShape, [Next]_vars
  PROVE  SummaryShape'
<1> USE DEF SummaryShape, Morning
<1>1. CASE PassTime
  <2>1. now \in Nat /\ now' = now + 1 /\ digest' = digest
    BY <1>1 DEF PassTime, TypeOK, TablesOK
  <2>2. CASE Night
    <3>1. now' % 3 = 1
      BY <2>1, <2>2, Z3 DEF Night
    <3>2. summary' = "due" /\ digest = {}
      BY <1>1, <2>1, <2>2 DEF PassTime, Night
    <3> QED
      BY <2>1, <3>1, <3>2
  <2>3. CASE ~ Night
    <3>1. summary = "done"
      BY <1>1, <2>3 DEF PassTime
    <3> QED
      BY <1>1, <2>1, <2>3, <3>1 DEF PassTime
  <2> QED
    BY <2>2, <2>3
<1>2. CASE PathB
  <2>1. now' = now
    BY <1>2 DEF PathB, StartSummary, SkipSummary, Summarise, SummariseFails, DeliverSummary,
                EndSummary
  <2>2. CASE StartSummary \/ SkipSummary \/ EndSummary
    BY <2>1, <2>2 DEF StartSummary, SkipSummary, EndSummary
  <2>3. ASSUME NEW u \in Users, Summarise(u) \/ SummariseFails(u)
        PROVE  summary = "running" /\ summary' = "running"
    BY <2>3 DEF Summarise, SummariseFails
  <2>4. ASSUME NEW r \in Results, DeliverSummary(r)
        PROVE  digest' = {} /\ summary' = summary
    BY <2>4 DEF DeliverSummary
  <2> QED
    BY <1>2, <2>1, <2>2, <2>3, <2>4 DEF PathB
<1>3. CASE Crash
  BY <1>3 DEF Crash
<1>4. CASE UNCHANGED <<now, summary, digest>>
  BY <1>4
<1>5. ASSUME NEW c \in Wins, Judge(c) PROVE UNCHANGED <<now, summary, digest>>
  BY <1>5 DEF Judge, Compare, BeginRedo, CommitRedo, ToggleTracked, serverVars
<1>6. ASSUME NEW c \in Wins, PathA(c) PROVE UNCHANGED <<now, summary, digest>>
  BY <1>6 DEF PathA, StartPush, DeliverPush, LogPush, MisfirePush
<1>7. ASSUME NEW c \in Wins, Sweep(c) PROVE UNCHANGED <<now, summary, digest>>
  BY <1>7 DEF Sweep, SweepOne, DeliverSweep, LogSweep
<1>8. PathATick \/ StartSweep \/ EndSweep \/ Boot \/ UNCHANGED vars
        => UNCHANGED <<now, summary, digest>>
  BY DEF PathATick, StartSweep, EndSweep, Boot, vars, serverVars
<1> HIDE DEF SummaryShape, Morning
<1> QED
  BY <1>1, <1>2, <1>3, <1>4, <1>5, <1>6, <1>7, <1>8 DEF Next

(* Every step keeps deliveries ahead of the logs.                          *)
LEMMA StepDelivered ==
  ASSUME TypeOK, Delivered, [Next]_vars
  PROVE  Delivered'
<1> USE DEF Delivered
<1> SUFFICES ASSUME NEW c \in Wins,
                    "sent" \in log'[c] \/ push'[c] = "sent" \/ at'[c] = "sent"
             PROVE  c \in told'
  OBVIOUS
<1>1. told \subseteq told'
  <2>1. ASSUME NEW d \in Wins, Judge(d) PROVE told' = told
    BY <2>1 DEF Judge, Compare, BeginRedo, CommitRedo, ToggleTracked, historyVars
  <2>2. ASSUME NEW d \in Wins, PathA(d) PROVE told \subseteq told'
    BY <2>2 DEF PathA, StartPush, DeliverPush, LogPush, MisfirePush, Outcome, historyVars
  <2>3. ASSUME NEW d \in Wins, Sweep(d) PROVE told \subseteq told'
    BY <2>3 DEF Sweep, SweepOne, DeliverSweep, LogSweep, Outcome, historyVars
  <2>4. PathB => told \subseteq told'
    BY DEF PathB, StartSummary, SkipSummary, Summarise, SummariseFails, DeliverSummary,
           EndSummary, Outcome, historyVars
  <2>5. PathATick \/ StartSweep \/ EndSweep \/ Boot \/ Crash \/ PassTime \/ UNCHANGED vars
          => told' = told
    BY DEF PathATick, StartSweep, EndSweep, Boot, Crash, PassTime, vars, historyVars
  <2> QED
    BY <2>1, <2>2, <2>3, <2>4, <2>5 DEF Next
<1>2. CASE "sent" \in log[c] \/ push[c] = "sent" \/ at[c] = "sent"
  BY <1>1, <1>2
<1>3. CASE ~ ("sent" \in log[c] \/ push[c] = "sent" \/ at[c] = "sent")
  <2> USE DEF TypeOK, TablesOK, JobsOK, sweepVars
  <2>1. ASSUME NEW d \in Wins, NEW r \in Results, DeliverPush(d, r) PROVE c \in told'
    BY <1>3, <2>1, SMTT(30) DEF DeliverPush, Outcome, Status
  <2>2. ASSUME NEW d \in Wins, NEW r \in Results, DeliverSweep(d, r) PROVE c \in told'
    BY <1>3, <2>2, SMTT(30) DEF DeliverSweep, Outcome, Status
  <2>3. ASSUME NEW d \in Wins,
               StartPush(d) \/ LogPush(d) \/ MisfirePush(d) \/ SweepOne(d) \/ LogSweep(d)
        PROVE  FALSE
    BY <1>3, <2>3, SMTT(30) DEF StartPush, LogPush, MisfirePush, SweepOne, LogSweep
  <2>4. CASE PathATick \/ StartSweep \/ EndSweep \/ Boot \/ Crash
    BY <1>3, <2>4, SMTT(30) DEF PathATick, StartSweep, EndSweep, Boot, Crash
  <2>5. CASE UNCHANGED <<log, push, at>>
    BY <1>3, <2>5
  <2>6. ASSUME NEW d \in Wins, Judge(d) PROVE UNCHANGED <<log, push, at>>
    BY <2>6 DEF Judge, Compare, BeginRedo, CommitRedo, ToggleTracked, serverVars
  <2>7. PathB => UNCHANGED <<log, push, at>>
    BY DEF PathB, StartSummary, SkipSummary, Summarise, SummariseFails, DeliverSummary,
           EndSummary
  <2>8. PassTime \/ UNCHANGED vars => UNCHANGED <<log, push, at>>
    BY DEF PassTime, vars, serverVars
  <2> HIDE DEF TypeOK, TablesOK, JobsOK, sweepVars
  <2> QED
    BY <2>1, <2>2, <2>3, <2>4, <2>5, <2>6, <2>7, <2>8 DEF Next, PathA, Sweep
<1> QED
  BY <1>2, <1>3

-----------------------------------------------------------------------------

(* The clock and the summary stand still, and nobody's case gets worse:    *)
(* then a win stays covered.                                               *)
LEMMA StaysCovered ==
  ASSUME NEW c \in Wins, Covered(c),
         UNCHANGED <<now, summary, users>>,
         cmp'[c] = cmp[c],
         c \in digest => c \in digest' \/ c \in told' \/ c \in loud' \/ c \in unheard'
                            \/ c \in excused',
         c \in told => c \in told', c \in loud => c \in loud',
         c \in unheard => c \in unheard', c \in excused => c \in excused'
  PROVE  Covered(c)'
BY DEF Covered, Standing, SummaryAhead, SummaryTime, Cutoff

(* A new verdict is late, or its summary is still ahead, or it is excused. *)
LEMMA VerdictCovered ==
  ASSUME TypeOK, NEW c \in Wins, NEW d \in Wins, \A x \in Wins : Covered(x),
         (\E v \in {"win", "lose"} : Compare(d, v)) \/ CommitRedo(d)
  PROVE  Covered(c)'
<1>1. UNCHANGED <<now, summary, users, digest, told>>
  BY DEF Compare, CommitRedo, serverVars, historyVars
<1>2. CASE c # d
  <2>1. /\ cmp'[c] = cmp[c]
        /\ c \in loud => c \in loud'
        /\ c \in unheard => c \in unheard'
        /\ c \in excused => c \in excused'
    BY <1>2 DEF Compare, CommitRedo, TypeOK, TablesOK, historyVars
  <2> QED
    BY <1>1, <2>1, StaysCovered
<1>3. CASE c = d
  <2>1. SummaryTime(c) \in Nat /\ Cutoff(c) = SummaryTime(c) /\ Cutoff(c)' = SummaryTime(c)
    BY SummaryInTheMorning DEF Cutoff
  <2>2. SummaryAhead(c)' <=> SummaryAhead(c)
    BY <1>1 DEF SummaryAhead, SummaryTime
  <2>3. ASSUME NEW v \in {"win", "lose"}, Compare(c, v), ~ SummaryAhead(c)
        PROVE  cmp'[c].stamp >= SummaryTime(c)
    <3>1. cmp'[c].stamp = now /\ now \in Nat
      BY <2>3 DEF Compare, TypeOK, TablesOK
    <3> QED
      BY <2>1, <2>3, <3>1 DEF SummaryAhead
  <2>4. ASSUME CommitRedo(c), ~ SummaryAhead(c)
        PROVE  cmp'[c].stamp >= SummaryTime(c) \/ c \in excused'
    <3>1. cmp'[c].stamp = redo[c].stamp /\ redo[c].stamp \in Nat
      BY <2>4 DEF CommitRedo, TypeOK, TablesOK, Verdict
    <3> QED
      BY <2>1, <2>4, <3>1 DEF CommitRedo
  <2> QED
    BY <1>3, <2>1, <2>2, <2>3, <2>4 DEF Covered
<1> QED
  BY <1>2, <1>3

(* The summary of a morning is about the wins it should cover: those that  *)
(* stand and whose summary time has come.                                  *)
LEMMA SummaryCovers ==
  ASSUME NEW c \in Wins, Standing(c), now = SummaryTime(c), NEW us, Owner[c] \in us
  PROVE  c \in Yesterdays(us)
BY SummaryInTheMorning DEF Yesterdays, Today

(* The steps of the summary.                                               *)
LEMMA SummaryCovered ==
  ASSUME TypeOK, SummaryShape, NEW c \in Wins, Covered(c), PathB
  PROVE  Covered(c)'
<1> USE DEF TypeOK, TablesOK, JobsOK
<1>1. UNCHANGED <<now, cmp>>
  BY DEF PathB, StartSummary, SkipSummary, Summarise, SummariseFails, DeliverSummary,
         EndSummary
<1>2. CASE StartSummary
  <2>1. Owner[c] \in Users
    OBVIOUS
  <2>2. SummaryAhead(c) => SummaryAhead(c)'
    BY <1>2, <2>1 DEF StartSummary, SummaryAhead, SummaryTime
  <2> QED
    BY <1>2, <2>2 DEF StartSummary, historyVars, Covered, Standing, Cutoff
<1>3. CASE SkipSummary
  <2>1. Standing(c) /\ SummaryAhead(c) /\ ~ SummaryAhead(c)' => c \in excused'
    <3>1. SummaryAhead(c) /\ ~ SummaryAhead(c)' => now = SummaryTime(c)
      BY <1>1 DEF SummaryAhead, SummaryTime
    <3>2. Owner[c] \in Users
      OBVIOUS
    <3> QED
      BY <1>3, <3>1, <3>2, SummaryCovers DEF SkipSummary
  <2> QED
    BY <1>3, <2>1 DEF SkipSummary, Covered, Standing, Cutoff
<1>4. ASSUME NEW u \in Users, Summarise(u) \/ SummariseFails(u) PROVE Covered(c)'
  <2>1. digest = {} /\ summary = "running" /\ summary' = "running" /\ users' = users \ {u}
    BY <1>4 DEF Summarise, SummariseFails
  <2>2. Standing(c) /\ SummaryAhead(c) /\ ~ SummaryAhead(c)'
          => c \in digest' \/ c \in excused'
    <3>1. SummaryAhead(c) /\ ~ SummaryAhead(c)' => now = SummaryTime(c) /\ Owner[c] \in {u}
      BY <1>1, <2>1 DEF SummaryAhead, SummaryTime
    <3>2. c \in Yesterdays({u}) => c \in digest' \/ c \in excused'
      BY <1>4 DEF Summarise, SummariseFails
    <3> QED
      BY <3>1, <3>2, SummaryCovers
  <2>3. /\ told' = told /\ loud' = loud /\ unheard' = unheard
        /\ c \in excused => c \in excused'
    BY <1>4 DEF Summarise, SummariseFails
  <2> QED
    BY <1>1, <2>1, <2>2, <2>3 DEF Covered, Standing, Cutoff
<1>5. ASSUME NEW r \in Results, DeliverSummary(r) PROVE Covered(c)'
  <2>1. UNCHANGED <<now, cmp, summary, users>>
    BY <1>5 DEF DeliverSummary
  <2>2. c \in digest => c \in told' \/ c \in loud' \/ c \in unheard'
    BY <1>5 DEF DeliverSummary, Outcome, Results
  <2>3. /\ c \in told => c \in told'
        /\ c \in loud => c \in loud'
        /\ c \in unheard => c \in unheard'
        /\ c \in excused => c \in excused'
    BY <1>5 DEF DeliverSummary, Outcome
  <2> QED
    BY <2>1, <2>2, <2>3, StaysCovered
<1>6. CASE EndSummary
  <2>1. SummaryAhead(c) => SummaryAhead(c)'
    BY <1>6 DEF EndSummary, SummaryAhead, SummaryTime
  <2> QED
    BY <1>6, <2>1 DEF EndSummary, historyVars, Covered, Standing, Cutoff
<1> HIDE DEF TypeOK, TablesOK, JobsOK
<1> QED
  BY <1>2, <1>3, <1>4, <1>5, <1>6 DEF PathB

(* A crash excuses the users its summary had not reached.                  *)
LEMMA CrashCovered ==
  ASSUME TypeOK, SummaryShape, NEW c \in Wins, Covered(c), Crash
  PROVE  Covered(c)'
<1>1. UNCHANGED <<now, cmp, told, loud, unheard>> /\ excused \subseteq excused'
  BY DEF Crash
<1>2. c \in digest => c \in excused'
  BY DEF Crash, SummaryShape
<1>3. Standing(c) /\ SummaryAhead(c) /\ ~ SummaryAhead(c)' => c \in excused'
  <2>1. SummaryAhead(c) /\ ~ SummaryAhead(c)'
          => now = SummaryTime(c) /\ summary = "running" /\ Owner[c] \in users
    BY <1>1 DEF SummaryAhead, SummaryTime, Crash
  <2> QED
    BY <2>1, SummaryCovers DEF Crash
<1> QED
  BY <1>1, <1>2, <1>3 DEF Covered, Standing, Cutoff

(* Every step keeps every win covered.                                     *)
LEMMA StepCovered ==
  ASSUME IInv, [Next]_vars, NEW c \in Wins
  PROVE  Covered(c)'
<1> TypeOK /\ SummaryShape /\ Covered(c) /\ \A x \in Wins : Covered(x)
  BY DEF IInv
<1>1. ASSUME NEW d \in Wins, Judge(d) PROVE Covered(c)'
  <2>1. ASSUME NEW v \in {"win", "lose"}, BeginRedo(d, v) PROVE Covered(c)'
    BY <2>1, StaysCovered DEF BeginRedo, serverVars, historyVars
  <2>2. CASE ToggleTracked(d)
    BY <2>2, StaysCovered DEF ToggleTracked, serverVars, historyVars
  <2> QED
    BY <1>1, <2>1, <2>2, VerdictCovered DEF Judge
<1>2. ASSUME NEW d \in Wins, PathA(d) PROVE Covered(c)'
  <2>1. UNCHANGED <<now, summary, users, cmp, digest, excused, unheard>>
    BY <1>2 DEF PathA, StartPush, DeliverPush, LogPush, MisfirePush, historyVars
  <2>2. (c \in told => c \in told') /\ (c \in loud => c \in loud')
    BY <1>2 DEF PathA, StartPush, DeliverPush, LogPush, MisfirePush, Outcome, historyVars
  <2> QED
    BY <2>1, <2>2, StaysCovered
<1>3. ASSUME NEW d \in Wins, Sweep(d) PROVE Covered(c)'
  <2>1. UNCHANGED <<now, summary, users, cmp, digest, excused, unheard>>
    BY <1>3 DEF Sweep, SweepOne, DeliverSweep, LogSweep, historyVars
  <2>2. (c \in told => c \in told') /\ (c \in loud => c \in loud')
    BY <1>3 DEF Sweep, SweepOne, DeliverSweep, LogSweep, Outcome, historyVars
  <2> QED
    BY <2>1, <2>2, StaysCovered
<1>4. CASE PathATick \/ StartSweep \/ EndSweep \/ Boot \/ UNCHANGED vars
  <2>1. UNCHANGED <<now, summary, users, cmp, digest, told, loud, excused, unheard>>
    BY <1>4 DEF PathATick, StartSweep, EndSweep, Boot, vars, serverVars, historyVars
  <2> QED
    BY <2>1, StaysCovered
<1>5. CASE PathB
  BY <1>5, SummaryCovered
<1>6. CASE Crash
  BY <1>6, CrashCovered
<1>7. CASE PassTime
  <2>1. now \in Nat /\ now' = now + 1 /\ SummaryTime(c) \in Nat
    BY <1>7, SummaryInTheMorning DEF PassTime, TypeOK, TablesOK
  <2>2. SummaryAhead(c) => SummaryAhead(c)'
    <3>1. CASE now < SummaryTime(c) /\ now + 1 < SummaryTime(c)
      BY <2>1, <3>1 DEF SummaryAhead, SummaryTime
    <3>2. CASE now < SummaryTime(c) /\ ~ (now + 1 < SummaryTime(c))
      <4>1. now' = SummaryTime(c) /\ summary' = "due"
        BY <1>7, <2>1, <3>2, NightBefore DEF PassTime
      <4> QED
        BY <4>1 DEF SummaryAhead, SummaryTime
    <3>3. CASE ~ (now < SummaryTime(c))
      <4>1. SummaryAhead(c) => now = SummaryTime(c) /\ summary # "done"
        BY <3>3 DEF SummaryAhead
      <4>2. SummaryAhead(c) => Morning
        BY <4>1, SummaryInTheMorning DEF Morning
      <4> QED
        BY <1>7, <4>1, <4>2 DEF PassTime
    <3> QED
      BY <3>1, <3>2, <3>3
  <2>3. UNCHANGED <<cmp, digest, told, loud, excused, unheard>>
    BY <1>7 DEF PassTime, historyVars
  <2> QED
    BY <2>2, <2>3 DEF Covered, Standing, Cutoff
<1> QED
  BY <1>1, <1>2, <1>3, <1>4, <1>5, <1>6, <1>7 DEF Next

LEMMA StepIInv == IInv /\ [Next]_vars => IInv'
<1> SUFFICES ASSUME IInv, [Next]_vars PROVE IInv'
  OBVIOUS
<1>1. TypeOK' /\ SummaryShape' /\ Delivered'
  BY StepTypes, StepShape, StepDelivered DEF IInv
<1>2. \A c \in Wins : Covered(c)'
  BY StepCovered
<1> QED
  BY <1>1, <1>2 DEF IInv

LEMMA Invariance == Spec => []IInv
BY InitIInv, StepIInv, PTL DEF Spec

-----------------------------------------------------------------------------

(* The types, for every number of wins and users.                          *)
THEOREM TypeCorrect == Spec => []TypeOK
<1>1. IInv => TypeOK
  BY DEF IInv
<1> QED
  BY <1>1, Invariance, PTL

(* A "sent" log is the log of a delivery that took place: a crash between  *)
(* sending and logging can repeat a message, never lose one.               *)
THEOREM LogsFollowDeliveries == Spec => []SentWasDelivered
<1>1. IInv => SentWasDelivered
  BY DEF IInv, Delivered, SentWasDelivered
<1> QED
  BY <1>1, Invariance, PTL

(* Only the summary loses a win: failed pushes and sweeps, announced to    *)
(* the administrator or not, leave it to the next way that may tell of it; *)
(* for any wins, users, crashes and recomparisons.                         *)
THEOREM OnlySummariesLoseWins == Spec => []NoSilentMiss
<1>1. IInv => NoSilentMiss
  <2> SUFFICES ASSUME IInv, NEW c \in Wins, Standing(c), ~ SummaryAhead(c),
                      summary # "running"
               PROVE  \/ c \in told \/ c \in loud \/ Candidate(c) \/ TooOld(c)
                      \/ c \in unheard \/ c \in excused
    BY DEF NoSilentMiss
  <2>1. \/ c \in told \/ c \in loud \/ c \in unheard \/ c \in excused
        \/ cmp[c].stamp >= Cutoff(c)
    BY DEF IInv, Covered, SummaryShape
  <2>2. "sent" \in log[c] => c \in told
    BY DEF IInv, Delivered
  <2> QED
    BY <2>1, <2>2 DEF Candidate
<1> QED
  BY <1>1, Invariance, PTL

-----------------------------------------------------------------------------
(* Reports and quiet hours.                                                *)

(* Nine o'clock is not quiet: a report does its work on the day it is due. *)
LEMMA ReportsRunWhenDue ==
  ASSUME NEW d \in Int PROVE Day(RunsAt(At(d, 18))) = d
<1>1. At(d, 18) \div 48 = d /\ At(d, 18) % 48 = 18
  BY DEF At
<1>2. ~ InDnd(At(d, 18))
  BY <1>1 DEF InDnd, HalfHour, DndStart, DndEnd
<1> QED
  BY <1>1, <1>2 DEF RunsAt, Day

(* A Sunday's report covers the seven days from Monday to Sunday before it. *)
LEMMA SundaysReport ==
  ASSUME NEW d \in Int, Weekday(d) = 6 PROVE WeekReported(d) = (d - 13) .. (d - 7)
  BY DEF WeekReported, DaysSinceSunday, Weekday

(* Every day, of all years, is in exactly one weekly report, and that one  *)
(* is made when its draws are over (_weekly_report).                       *)
THEOREM EveryDayInOneWeekly == \A x \in Nat : InOneWeekly(x)
<1> SUFFICES ASSUME NEW x \in Nat PROVE InOneWeekly(x)
  OBVIOUS
<1> DEFINE S == x .. (x + 20)
           reporting == {d \in Weeklies(S) : x \in WeekReported(d)}
<1>1. Weeklies(S) = {d \in S : Weekday(d) = 6}
  BY ReportsRunWhenDue DEF Weeklies
<1>2. reporting = {d \in S : Weekday(d) = 6 /\ x >= d - 13 /\ x <= d - 7}
  BY <1>1, SundaysReport
<1>3. \E d \in reporting : d > x
  <2> DEFINE d == x + 13 - (x % 7)
  <2>1. d \in S /\ d > x /\ x >= d - 13 /\ x <= d - 7
    OBVIOUS
  <2>2. d % 7 = 6
    OBVIOUS
  <2> QED
    BY <1>2, <2>1, <2>2 DEF Weekday
<1>4. \A d, e \in reporting : d = e
  BY <1>2 DEF Weekday
<1> QED
  BY <1>3, <1>4 DEF InOneWeekly

(* The calendar: the first of a month is never far from where months of    *)
(* thirty and a half days would begin, so that months follow each other    *)
(* and every day is in one of them.                                        *)
LEMMA MonthsApart ==
  ASSUME NEW m \in 1 .. 25
  PROVE  /\ MonthStart[m] \in Nat
         /\ 61 * (m - 1) - 4 <= 2 * MonthStart[m] /\ 2 * MonthStart[m] <= 61 * (m - 1) + 1
BY SMT DEF MonthStart

LEMMA MonthsInOrder ==
  ASSUME NEW m \in 1 .. 25, NEW n \in 1 .. 25, m < n
  PROVE  MonthStart[m] + 28 <= MonthStart[n]
<1>1. 61 * (n - 1) - 61 * (m - 1) >= 61
  OBVIOUS
<1> QED
  BY <1>1, MonthsApart

LEMMA DayHasMonth ==
  ASSUME NEW d \in Days
  PROVE  \E m \in Months : MonthStart[m] <= d /\ d < MonthStart[m + 1]
BY SMT DEF Days, Months, MonthStart

LEMMA MonthOfDay ==
  ASSUME NEW d \in Days
  PROVE  /\ Month(d) \in Months
         /\ MonthStart[Month(d)] <= d /\ d < MonthStart[Month(d) + 1]
<1>1. Month(d) = CHOOSE m \in Months : MonthStart[m] <= d /\ d < MonthStart[m + 1]
  BY DEF Month, MonthOf
<1> QED
  BY <1>1, DayHasMonth

LEMMA MonthIs ==
  ASSUME NEW d \in Days, NEW m \in Months, MonthStart[m] <= d, d < MonthStart[m + 1]
  PROVE  Month(d) = m
<1> DEFINE n == Month(d)
<1>1. n \in Months /\ MonthStart[n] <= d /\ d < MonthStart[n + 1]
  BY MonthOfDay
<1> HIDE DEF n
<1>2. m \in 1 .. 25 /\ n \in 1 .. 25 /\ m + 1 \in 1 .. 25 /\ n + 1 \in 1 .. 25 /\ d \in Int
  BY <1>1 DEF Months, Days
<1>3. ~ (m < n)
  <2>1. m < n => m + 1 = n \/ m + 1 < n
    BY <1>2
  <2> QED
    BY <1>1, <1>2, <2>1, MonthsInOrder, MonthsApart
<1>4. ~ (n < m)
  <2>1. n < m => n + 1 = m \/ n + 1 < m
    BY <1>2
  <2> QED
    BY <1>1, <1>2, <2>1, MonthsInOrder, MonthsApart
<1> QED
  BY <1>2, <1>3, <1>4 DEF n

(* The report made on the first of a month is about the month before.      *)
LEMMA FirstsReport ==
  ASSUME NEW m \in 2 .. 24
  PROVE  MonthReported(MonthStart[m]) = MonthStart[m - 1] .. (MonthStart[m] - 1)
<1> DEFINE d == MonthStart[m]
<1>1. m \in Months /\ m - 1 \in Months /\ m \in 1 .. 25 /\ m - 1 \in 1 .. 25 /\ m + 1 \in 1 .. 25
      /\ (m - 1) + 1 = m
  BY DEF Months
<1>2. d \in Nat /\ d < MonthStart[m + 1] /\ MonthStart[m - 1] < d /\ MonthStart[m - 1] \in Nat
  BY <1>1, MonthsApart, MonthsInOrder
<1>3. d <= 730
  BY SMT DEF MonthStart
<1> HIDE DEF d
<1>4. d \in Days /\ d - 1 \in Days
  BY <1>2, <1>3 DEF Days
<1>5. Month(d) = m
  BY <1>1, <1>2, <1>4, MonthIs DEF d
<1>6. MonthStart[m - 1] <= d - 1 /\ d - 1 < MonthStart[(m - 1) + 1]
  BY <1>1, <1>2 DEF d
<1>7. Month(d - 1) = m - 1
  BY <1>1, <1>4, <1>6, MonthIs
<1> QED
  BY <1>5, <1>7 DEF MonthReported, d

(* Every day of nearly two years, one of them a leap year, is in exactly   *)
(* one monthly report, made when its draws are over (_monthly_report).     *)
THEOREM EveryDayInOneMonthly == \A x \in 0 .. 699 : InOneMonthly(x)
<1> SUFFICES ASSUME NEW x \in 0 .. 699 PROVE InOneMonthly(x)
  OBVIOUS
<1> DEFINE reporting == {d \in Monthlies(2 .. 24) : x \in MonthReported(d)}
<1>1. Monthlies(2 .. 24) = {MonthStart[m] : m \in 2 .. 24}
  <2>1. \A m \in 2 .. 24 : Day(RunsAt(At(MonthStart[m], 18))) = MonthStart[m]
    BY MonthsApart, ReportsRunWhenDue
  <2> QED
    BY <2>1 DEF Monthlies
<1>2. x \in Days
  BY DEF Days
<1>3. ASSUME NEW m \in 2 .. 24 PROVE x \in MonthReported(MonthStart[m]) <=> Month(x) = m - 1
  <2>1. m - 1 \in Months /\ (m - 1) + 1 = m /\ MonthStart[m] \in Nat /\ MonthStart[m - 1] \in Nat
    BY MonthsApart DEF Months
  <2>2. x \in MonthReported(MonthStart[m]) <=> MonthStart[m - 1] <= x /\ x < MonthStart[m]
    <3>1. MonthReported(MonthStart[m]) = MonthStart[m - 1] .. (MonthStart[m] - 1)
      BY FirstsReport
    <3> QED
      BY <2>1, <3>1
  <2>3. MonthStart[m - 1] <= x /\ x < MonthStart[m] => Month(x) = m - 1
    BY <1>2, <2>1, MonthIs
  <2>4. Month(x) = m - 1 => MonthStart[m - 1] <= x /\ x < MonthStart[m]
    BY <1>2, <2>1, MonthOfDay
  <2> QED
    BY <2>2, <2>3, <2>4
<1>4. \E d \in reporting : d > x
  <2> DEFINE m == Month(x) + 1
  <2>1. Month(x) \in Months /\ MonthStart[Month(x)] <= x /\ x < MonthStart[m]
    BY <1>2, MonthOfDay
  <2>2. m \in 2 .. 24
    <3>1. Month(x) # 24
      <4>1. MonthStart[24] = 700
        BY SMT DEF MonthStart
      <4> QED
        BY <2>1, <4>1
    <3> QED
      BY <2>1, <3>1 DEF Months
  <2>3. MonthStart[m] \in reporting
    BY <1>1, <1>3, <2>1, <2>2 DEF Months
  <2> QED
    BY <2>1, <2>3
<1>5. \A d, e \in reporting : d = e
  <2> SUFFICES ASSUME NEW m \in 2 .. 24, NEW n \in 2 .. 24,
                      x \in MonthReported(MonthStart[m]), x \in MonthReported(MonthStart[n])
               PROVE  MonthStart[m] = MonthStart[n]
    BY <1>1
  <2>1. m - 1 = n - 1
    BY <1>3
  <2> QED
    BY <2>1
<1> QED
  BY <1>4, <1>5 DEF InOneMonthly

(* No draw day of a win slips between two reports or is told in two of     *)
(* them, wherever the model's days lie in the calendar of Periods, which   *)
(* holds ten of them (_weekly_report, _monthly_report).                    *)
THEOREM ReportsNeverSlip ==
  ASSUME \A c \in Wins : DayOf[c] <= 9
  PROVE  Spec => []ReportsTile
<1>1. ReportsTile
  <2> SUFFICES ASSUME NEW c \in Wins PROVE DayOf[c] \in ReportedDays
    BY DEF ReportsTile
  <2>1. DayOf[c] \in 0 .. 9
    BY NotifyAssumption
  <2>2. ASSUME NEW first \in 0 .. 690
        PROVE  InOneWeekly(first + DayOf[c]) /\ InOneMonthly(first + DayOf[c])
    <3>1. \A a \in 0 .. 690, b \in 0 .. 9 : a + b \in Nat /\ a + b \in 0 .. 699
      OBVIOUS
    <3>2. first + DayOf[c] \in Nat /\ first + DayOf[c] \in 0 .. 699
      BY <2>1, <3>1
    <3> QED
      BY <3>2, EveryDayInOneWeekly, EveryDayInOneMonthly
  <2> QED
    BY <2>1, <2>2 DEF ReportedDays
<1> QED
  BY <1>1, PTL

(* Seven o'clock, today or tomorrow, is where the quiet hours end that a   *)
(* time t is in (_in_dnd, _defer_summary).                                 *)
LEMMA NextSeven ==
  ASSUME NEW t \in Int, InDnd(t)
  PROVE  /\ DeferredTo(t) \in Int
         /\ DeferredTo(t) > t
         /\ ~ InDnd(DeferredTo(t))
         /\ \A s \in t .. (DeferredTo(t) - 1) : InDnd(s)
<1> DEFINE d == t \div 48
           h == t % 48
<1>1. d \in Int /\ h \in 0 .. 47 /\ t = 48 * d + h
  OBVIOUS
<1>2. h < 14 \/ h >= 44
  BY <1>1 DEF InDnd, HalfHour, DndStart, DndEnd
<1>3. DeferredTo(t) = IF h >= 14 THEN 48 * (d + 1) + 14 ELSE 48 * d + 14
  BY <1>1 DEF DeferredTo, At, Day
<1>4. DeferredTo(t) \in Int /\ DeferredTo(t) > t
  BY <1>1, <1>2, <1>3
<1>5. DeferredTo(t) % 48 = 14
  BY <1>1, <1>3
<1>6. ~ InDnd(DeferredTo(t))
  BY <1>5 DEF InDnd, HalfHour, DndStart, DndEnd
<1>7. ASSUME NEW s \in t .. (DeferredTo(t) - 1) PROVE InDnd(s)
  <2>1. s % 48 < 14 \/ s % 48 >= 44
    <3>1. CASE h >= 44 /\ s < 48 * (d + 1)
      BY <3>1, <1>1
    <3>2. CASE h >= 44 /\ s >= 48 * (d + 1)
      BY <3>2, <1>1, <1>3
    <3>3. CASE h < 14
      BY <3>3, <1>1, <1>3
    <3> QED
      BY <3>1, <3>2, <3>3, <1>1, <1>2
  <2> QED
    BY <2>1, <1>4 DEF InDnd, HalfHour, DndStart, DndEnd
<1> QED
  BY <1>4, <1>6, <1>7

(* A job held back by the quiet hours runs when they end, on whatever day  *)
(* and at whatever time of it (_defer_summary).                            *)
THEOREM DeferralsEnd == Spec => []DeferralEndsTheQuiet
<1>1. TypeOK => DeferralEndsTheQuiet
  <2> SUFFICES ASSUME TypeOK, NEW t \in HalfHoursOf(now), InDnd(t)
               PROVE  /\ DeferredTo(t) > t
                      /\ ~ InDnd(DeferredTo(t))
                      /\ \A s \in t .. (DeferredTo(t) - 1) : InDnd(s)
    BY DEF DeferralEndsTheQuiet
  <2>1. now \in Nat
    BY DEF TypeOK, TablesOK
  <2>2. t \in Int
    BY <2>1 DEF HalfHoursOf, At
  <2> QED
    BY <2>2, NextSeven
<1> QED
  BY <1>1, TypeCorrect, PTL

-----------------------------------------------------------------------------
(* Prizes and costs.                                                       *)

(* A comparison made in the evening of its draw or in the night after it   *)
(* is dated, in UTC, on the day of the draw.                               *)
LEMMA DatedOnItsDay ==
  ASSUME NEW x \in Int, NEW k \in 0 .. 1, NEW t \in HalfHoursOf(3 * x + 2 + k)
  PROVE  /\ t \in Int /\ t >= 48 * x + 43
         /\ Created(t) \in (48 * x + 27) .. (48 * x + 45)
<1>1. CASE k = 0
  <2>1. (3 * x + 2) \div 3 = x /\ (3 * x + 2) % 3 = 2
    OBVIOUS
  <2>2. t \in (48 * x + 43) .. (48 * x + 47)
    BY <1>1, <2>1 DEF HalfHoursOf, At
  <2> QED
    BY <2>2 DEF Created
<1>2. CASE k = 1
  <2>1. (3 * x + 2 + 1) \div 3 = x + 1 /\ (3 * x + 2 + 1) % 3 = 0
    OBVIOUS
  <2>2. t \in (48 * (x + 1)) .. (48 * (x + 1) + 13)
    BY <1>2, <2>1 DEF HalfHoursOf, At
  <2> QED
    BY <2>2 DEF Created
<1> QED
  BY <1>1, <1>2

(* A year begins with the first of its months.                             *)
LEMMA YearOfDay ==
  ASSUME NEW d \in Days
  PROVE  /\ Year(d) \in {2024, 2025}
         /\ YearStart(Year(d)) \in Nat /\ YearStart(Year(d) + 1) \in Nat
         /\ YearStart(Year(d)) <= d /\ d < YearStart(Year(d) + 1)
         /\ YearStart(Year(d)) <= MonthStart[Month(d)]
<1>1. Month(d) \in Months /\ MonthStart[Month(d)] <= d /\ d < MonthStart[Month(d) + 1]
  BY MonthOfDay
<1>2. MonthStart[13] = 366
  BY SMT DEF MonthStart
<1>3. YearStart(2024) = 0 /\ YearStart(2025) = 366 /\ YearStart(2025 + 1) = 731
  BY DEF YearStart
<1>4. CASE Month(d) <= 12
  <2>1. Year(d) = 2024
    BY <1>4 DEF Year
  <2>2. /\ MonthStart[Month(d) + 1] <= 366 /\ MonthStart[Month(d) + 1] \in Nat
        /\ MonthStart[Month(d)] \in Nat
    <3>1. Month(d) + 1 = 13 \/ Month(d) + 1 < 13
      BY <1>1, <1>4 DEF Months
    <3> QED
      BY <1>1, <1>2, <3>1, MonthsInOrder, MonthsApart DEF Months
  <2> QED
    BY <1>1, <1>3, <2>1, <2>2 DEF Days
<1>5. CASE ~ (Month(d) <= 12)
  <2>1. Year(d) = 2025
    BY <1>5 DEF Year
  <2>2. MonthStart[Month(d)] >= 366 /\ MonthStart[Month(d)] \in Nat
    <3>1. Month(d) = 13 \/ 13 < Month(d)
      BY <1>1, <1>5 DEF Months
    <3> QED
      BY <1>1, <1>2, <3>1, MonthsInOrder, MonthsApart DEF Months
  <2> QED
    BY <1>1, <1>3, <2>1, <2>2 DEF Days
<1> QED
  BY <1>4, <1>5

(* The summary's two clocks, UTC and local, show days of one month and     *)
(* year, save in the first eight hours of a month.                         *)
LEMMA ClocksAgree ==
  ASSUME NEW n \in Days, n >= 1, NEW h \in 0 .. 47, h >= 16 \/ n # MonthStart[Month(n)],
         NEW u, u = At(n, h) - 16
  PROVE  /\ HalfHour(u) \in 0 .. 47 /\ HalfHour(At(n, h)) \in 0 .. 47 /\ Day(At(n, h)) = n
         /\ Month(Day(u)) = Month(n) /\ Year(Day(u)) = Year(n)
<1>1. n \in Int /\ n - 1 \in Days
  BY DEF Days
<1>2. Day(At(n, h)) = n /\ HalfHour(At(n, h)) = h
  BY <1>1 DEF At, Day, HalfHour
<1>3. CASE h >= 16
  <2>1. u = 48 * n + (h - 16) /\ h - 16 \in 0 .. 47
    BY <1>1, <1>3 DEF At
  <2> QED
    BY <1>1, <1>2, <2>1 DEF Day, HalfHour
<1>4. CASE ~ (h >= 16)
  <2>1. u = 48 * (n - 1) + (h + 32) /\ h + 32 \in 0 .. 47
    BY <1>1, <1>4 DEF At
  <2>2. Day(u) = n - 1 /\ HalfHour(u) = h + 32
    BY <1>1, <2>1 DEF Day, HalfHour
  <2>3. Month(n) \in Months /\ MonthStart[Month(n)] <= n /\ n < MonthStart[Month(n) + 1]
    BY MonthOfDay
  <2>4. MonthStart[Month(n)] \in Nat /\ MonthStart[Month(n) + 1] \in Nat
    BY <2>3, MonthsApart DEF Months
  <2>5. MonthStart[Month(n)] <= n - 1 /\ n - 1 < MonthStart[Month(n) + 1]
    BY <1>1, <1>4, <2>3, <2>4
  <2>6. Month(n - 1) = Month(n)
    BY <1>1, <2>3, <2>5, MonthIs
  <2> QED
    BY <1>2, <2>1, <2>2, <2>6 DEF Year
<1> QED
  BY <1>3, <1>4

LEMMA PrizeWithItsCost ==
  ASSUME NEW x \in 1 .. 720, NEW k \in 0 .. 1, NEW t \in HalfHoursOf(3 * x + 2 + k)
  PROVE  Together(x, t)
<1> DEFINE c == Created(t)
<1>1. x \in Nat /\ t \in Int /\ t >= 48 * x + 43 /\ c \in (48 * x + 27) .. (48 * x + 45)
  BY DatedOnItsDay
<1>2. c \in (48 * x) .. (48 * x + 47) /\ CostDated(x) \in (48 * x) .. (48 * x + 47)
  BY <1>1 DEF CostDated, At
<1>3. Day(c) = x /\ Day(CostDated(x)) = x
  BY <1>1, <1>2 DEF Day
<1> HIDE DEF c
<1>4. ASSUME NEW n \in x .. (x + 6), NEW h \in 0 .. 47, At(n, h) >= t,
             h >= 16 \/ n # MonthStart[Month(n)]
      PROVE  /\ c \in PrizesOf(At(n, h)).month <=> CostDated(x) \in CostsOf(At(n, h)).month
             /\ c \in PrizesOf(At(n, h)).year <=> CostDated(x) \in CostsOf(At(n, h)).year
  <2> DEFINE u == At(n, h) - 16
             m == Month(n)
             y == Year(n)
  <2>1. n \in Days /\ n >= 1 /\ x <= n
    BY DEF Days
  <2>2. /\ HalfHour(u) \in 0 .. 47 /\ HalfHour(At(n, h)) \in 0 .. 47 /\ Day(At(n, h)) = n
        /\ Month(Day(u)) = m /\ Year(Day(u)) = y
    BY <1>4, <2>1, ClocksAgree
  <2> HIDE DEF u
  <2>3. /\ MonthStart[m] \in Int /\ MonthStart[m + 1] \in Int /\ x < MonthStart[m + 1]
    <3>1. m \in Months /\ n < MonthStart[m + 1]
      BY <2>1, MonthOfDay
    <3>2. MonthStart[m] \in Int /\ MonthStart[m + 1] \in Int
      BY <3>1, MonthsApart DEF Months
    <3> QED
      BY <1>1, <2>1, <3>1, <3>2 DEF Days
  <2>4. YearStart(y) \in Int /\ YearStart(y + 1) \in Int /\ x < YearStart(y + 1)
    <3>1. YearStart(y) \in Nat /\ YearStart(y + 1) \in Nat /\ n < YearStart(y + 1)
      BY <2>1, YearOfDay
    <3> QED
      BY <1>1, <2>1, <3>1 DEF Days
  <2> HIDE DEF m, y
  <2>5. c \in ThisMonth(u) <=> MonthStart[m] <= x
    BY <1>1, <1>2, <2>2, <2>3, SMT DEF At, ThisMonth
  <2>6. CostDated(x) \in ThisMonth(At(n, h)) <=> MonthStart[m] <= x
    BY <1>1, <1>2, <2>2, <2>3, SMT DEF At, ThisMonth, m
  <2>7. c \in ThisYear(u) <=> YearStart(y) <= x
    BY <1>1, <1>2, <2>2, <2>4, SMT DEF At, ThisYear
  <2>8. CostDated(x) \in ThisYear(At(n, h)) <=> YearStart(y) <= x
    BY <1>1, <1>2, <2>2, <2>4, SMT DEF At, ThisYear, y
  <2> QED
    BY <2>5, <2>6, <2>7, <2>8 DEF PrizesOf, CostsOf, u
<1> QED
  BY <1>3, <1>4 DEF Together, c

LEMMA EdgesWithin ==
  ASSUME NEW m \in 2 .. 23, NEW x \in Edge(m) PROVE x \in 1 .. 720
BY SMT DEF Edge, MonthStart

LEMMA EveningAndNight == WellDatedThirds = 0 .. 1
BY EdgesWithin, PrizeWithItsCost DEF WellDatedThirds

(* A verdict is reached when the draw has taken place, and committed as it *)
(* was reached.                                                            *)
JudgedAfterDraw ==
  \A c \in Wins : \A v \in {cmp[c], redo[c]} : v.st # "none" => v.stamp >= 3 * DayOf[c] + 2

LEMMA StepJudged ==
  ASSUME TypeOK, JudgedAfterDraw, [Next]_vars
  PROVE  JudgedAfterDraw'
<1>1. ASSUME UNCHANGED <<cmp, redo>> PROVE JudgedAfterDraw'
  BY <1>1 DEF JudgedAfterDraw
<1>2. ASSUME NEW c \in Wins, Judge(c) PROVE JudgedAfterDraw'
  <2> USE DEF JudgedAfterDraw, TypeOK, TablesOK
  <2>1. ASSUME NEW v \in {"win", "lose"}, Compare(c, v) PROVE JudgedAfterDraw'
    BY <2>1 DEF Compare, Drawn
  <2>2. ASSUME NEW v \in {"win", "lose"}, BeginRedo(c, v) PROVE JudgedAfterDraw'
    BY <2>2 DEF BeginRedo, Drawn
  <2>3. CASE CommitRedo(c)
    BY <2>3 DEF CommitRedo, NoVerdict
  <2>4. CASE ToggleTracked(c)
    BY <2>4 DEF ToggleTracked
  <2> QED
    BY <1>2, <2>1, <2>2, <2>3, <2>4 DEF Judge
<1>3. ASSUME NEW c \in Wins, PathA(c) \/ Sweep(c) PROVE UNCHANGED <<cmp, redo>>
  BY <1>3 DEF PathA, StartPush, DeliverPush, LogPush, MisfirePush,
              Sweep, SweepOne, DeliverSweep, LogSweep
<1>4. CASE PathB
  BY <1>1, <1>4 DEF PathB, StartSummary, SkipSummary, Summarise, SummariseFails, DeliverSummary,
                    EndSummary
<1>5. CASE PathATick \/ StartSweep \/ EndSweep \/ Boot \/ PassTime \/ Crash \/ UNCHANGED vars
  BY <1>1, <1>5 DEF PathATick, StartSweep, EndSweep, Boot, PassTime, Crash, vars
<1> QED
  BY <1>1, <1>2, <1>3, <1>4, <1>5 DEF Next

LEMMA JudgedWhenDrawn == Spec => []JudgedAfterDraw
<1>1. Init => JudgedAfterDraw
  BY DEF Init, JudgedAfterDraw, NoVerdict
<1>2. TypeOK /\ JudgedAfterDraw /\ [Next]_vars => JudgedAfterDraw'
  BY StepJudged
<1> QED
  BY <1>1, <1>2, TypeCorrect, PTL DEF Spec

(* A prize judged in the evening of its draw or in the night after it and  *)
(* the cost of that draw fall in one month and one year, although the two  *)
(* are dated on different clocks (_build_time_filter,                      *)
(* _build_time_filter_cst, dashboard_monthly).                             *)
THEOREM PrizesWithTheirCosts == Spec => []PrizeAndCostTogether
<1>1. TypeOK /\ JudgedAfterDraw => PrizeAndCostTogether
  <2> SUFFICES ASSUME TypeOK, JudgedAfterDraw, NEW c \in Wins, Standing(c),
                      cmp[c].stamp - (3 * DayOf[c] + 2) <= 1
               PROVE  cmp[c].stamp - (3 * DayOf[c] + 2) \in WellDatedThirds
    BY DEF PrizeAndCostTogether
  <2>1. cmp[c].stamp \in Nat /\ DayOf[c] \in Nat
    BY DEF TypeOK, TablesOK, Verdict
  <2>2. cmp[c].stamp >= 3 * DayOf[c] + 2
    BY DEF JudgedAfterDraw, Standing
  <2> QED
    BY <2>1, <2>2, EveningAndNight
<1> QED
  BY <1>1, TypeCorrect, JudgedWhenDrawn, PTL
=============================================================================
