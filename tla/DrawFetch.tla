------------------------------ MODULE DrawFetch -----------------------------
(***************************************************************************)
(* Polling the two data sources: a poll (_path_a_tick, or the startup      *)
(* backfill) runs fetch_and_store for lottery after lottery and evaluates  *)
(* the health of the sources at its end (SourceHealth).                    *)
(*                                                                         *)
(* A source answers with its LATEST draw, with "not drawn", or fails.  An  *)
(* issue stands for its normalised draw number; Canon gives a result the   *)
(* canonical form under which two answers are compared (sorted numbers for *)
(* the partition lotteries, the result itself for the positional ones).    *)
(***************************************************************************)
EXTENDS SourceHealth, FiniteSets

CONSTANTS
  Primary, Backup,   \* the two sources
  Lotteries, Issues, Numbers,
  Canon,             \* Canon[n]: the form compared by _numbers_match
  NoNum,
  Grace,             \* grace_seconds > 0
  MaxPolls           \* bound on polls ever started

Pollers == Evaluators

ASSUME FetchAssumption ==
  /\ Primary # Backup /\ Sources = {Primary, Backup}
  /\ Canon \in [Numbers -> Numbers]
  /\ NoNum \notin Numbers
  /\ Lotteries # {} /\ 0 \notin Issues
  /\ Grace \in BOOLEAN
  /\ MaxPolls \in Nat

VARIABLES
  draws,      \* draw_results of these lotteries, by (lottery, issue)
  pc, todo,   \* pollers: where each one is, and the lotteries left
  call,       \* pollers: the locals of fetch_and_store
  verdict,    \* pollers: the last FetchResult
  polls

pollVars == <<pc, todo, call, verdict>>
vars == <<healthVars, draws, pollVars, polls>>

-----------------------------------------------------------------------------

NoDraw == [num |-> NoNum, single |-> FALSE]
Draw   == [num : Numbers, single : BOOLEAN]

(* What a source answers after all its attempts (_fetch_with_backoff).     *)
Answer == [kind : {"data"}, issue : Issues, num : Numbers]
            \cup [kind : {"notDrawn", "down", "permanent"}, issue : {0}, num : {NoNum}]
NotDrawn == [kind |-> "notDrawn", issue |-> 0, num |-> NoNum]

(* The lottery, the answers by source, and the source that is asked again. *)
Call   == [lottery : Lotteries, answers : [Sources -> Answer], missing : Sources]
NoCall == [lottery |-> CHOOSE l \in Lotteries : TRUE,
           answers |-> [s \in Sources |-> NotDrawn], missing |-> Backup]

(* _try_fetch: an answer without a draw is a healthy source, too.          *)
Outcome(a) == IF a.kind \in {"data", "notDrawn"} THEN "ok" ELSE a.kind

PollTypeOK ==
  /\ draws \in [Lotteries \X Issues -> Draw \cup {NoDraw}]
  /\ pc \in [Pollers -> {"idle", "fetch", "recordPrimary", "recordBackup", "decide",
                         "grace", "recordMissing", "decideAgain", "evaluate", "alerting"}]
  /\ todo \in [Pollers -> SUBSET Lotteries]
  /\ call \in [Pollers -> Call]
  /\ verdict \in [Pollers -> {"none", "stored", "mismatch", "notDrawn", "failed"}]
  /\ polls \in Nat

TypeOK == HealthTypeOK /\ PollTypeOK

Init ==
  /\ HealthInit
  /\ draws = [x \in Lotteries \X Issues |-> NoDraw]
  /\ pc = [w \in Pollers |-> "idle"]
  /\ todo = [w \in Pollers |-> {}]
  /\ call = [w \in Pollers |-> NoCall]
  /\ verdict = [w \in Pollers |-> "none"]
  /\ polls = 0

Answered(w, s) == call[w].answers[s]
HasData(w, s) == Answered(w, s).kind = "data"

Goto(w, label) == pc' = [pc EXCEPT ![w] = label]

StartPoll(w) ==
  /\ pc[w] = "idle"
  /\ polls < MaxPolls
  /\ polls' = polls + 1
  /\ todo' = [todo EXCEPT ![w] = Lotteries]
  /\ Goto(w, "fetch")
  /\ UNCHANGED <<healthVars, draws, call, verdict>>

(* fetch_and_store asks both sources, one after the other.                 *)
FetchBoth(w, l, a, b) ==
  /\ pc[w] = "fetch"
  /\ l \in todo[w]
  /\ todo' = [todo EXCEPT ![w] = @ \ {l}]
  /\ call' = [call EXCEPT ![w] =
                [lottery |-> l, missing |-> Backup,
                 answers |-> [s \in Sources |-> IF s = Primary THEN a ELSE b]]]
  /\ verdict' = [verdict EXCEPT ![w] = "none"]
  /\ Goto(w, "recordPrimary")
  /\ UNCHANGED <<healthVars, draws, polls>>

(* _record_health: a transaction of its own, whose failure is swallowed.   *)
RecordOutcome(w, s, from, to) ==
  /\ pc[w] = from
  /\ \/ Record(s, Outcome(Answered(w, s)))
     \/ UNCHANGED healthVars
  /\ Goto(w, to)
  /\ UNCHANGED <<draws, todo, call, verdict, polls>>

(* _numbers_match: the numbers only, not the draw number.                  *)
NumbersMatch(a, b) == Canon[a.num] = Canon[b.num]

(* mutant: an existing draw is confirmed whatever its numbers are          *)
UpgradeAny(d, num, single) == [d EXCEPT !.single = @ /\ single]

(* mutant: an existing draw takes the new result over                      *)
UpgradeOverwrites(d, num, single) == [num |-> num, single |-> single]

(* _upgrade_existing: the same result from two sources confirms a draw; a  *)
(* different one is left to the correction service.                        *)
Upgrade(d, num, single) == [d EXCEPT !.single = @ /\ (num # d.num \/ single)]

(* _store: insert the draw, or upgrade the one that exists.                *)
Store(l, a, single) ==
  LET x == <<l, a.issue>> IN
  draws' = [draws EXCEPT ![x] = IF @ = NoDraw THEN [num |-> a.num, single |-> single]
                                ELSE Upgrade(@, a.num, single)]

AfterLottery(w) == IF todo[w] = {} THEN "evaluate" ELSE "fetch"

Return(w, v) ==
  /\ verdict' = [verdict EXCEPT ![w] = v]
  /\ call' = [call EXCEPT ![w] = NoCall]
  /\ Goto(w, AfterLottery(w))
  /\ UNCHANGED <<healthVars, todo, polls>>

(* _store answers, or raises: then the poll goes on with the next lottery. *)
StoreDraw(w, a, single) ==
  \/ Store(call[w].lottery, a, single) /\ Return(w, "stored")
  \/ UNCHANGED draws /\ Return(w, "failed")

(* The sources failed, or none of them has a draw.                         *)
DecideNothing(w) ==
  /\ pc[w] = "decide"
  /\ \A s \in Sources : ~ HasData(w, s)
  /\ Return(w, IF \A s \in Sources : Outcome(Answered(w, s)) # "ok"
               THEN "failed" ELSE "notDrawn")
  /\ UNCHANGED draws

(* Both sources have a draw: cross-check, store as confirmed or reject.    *)
(* After the grace period the draw of the source that had it is stored.    *)
DecideBoth(w) ==
  LET a == Answered(w, IF pc[w] = "decideAgain" /\ call[w].missing = Primary
                       THEN Backup ELSE Primary) IN
  /\ pc[w] \in {"decide", "decideAgain"}
  /\ \A s \in Sources : HasData(w, s)
  /\ \/ /\ NumbersMatch(Answered(w, Primary), Answered(w, Backup))
        /\ StoreDraw(w, a, FALSE)
     \/ /\ ~ NumbersMatch(Answered(w, Primary), Answered(w, Backup))
        /\ UNCHANGED draws
        /\ Return(w, "mismatch")

(* One source has a draw: wait only for a healthy source without one.      *)
WaitForOther(w, present, other) ==
  /\ pc[w] = "decide"
  /\ HasData(w, present) /\ ~ HasData(w, other)
  /\ Grace /\ Outcome(Answered(w, other)) = "ok"
  /\ call' = [call EXCEPT ![w].missing = other]
  /\ Goto(w, "grace")
  /\ UNCHANGED <<healthVars, draws, todo, verdict, polls>>

(* _grace_refetch asks the missing source again.                           *)
Refetch(w, a) ==
  /\ pc[w] = "grace"
  /\ call' = [call EXCEPT ![w].answers[call[w].missing] = a]
  /\ Goto(w, "recordMissing")
  /\ UNCHANGED <<healthVars, draws, todo, verdict, polls>>

(* Still one source, or nothing to wait for: a single-source draw.         *)
StoreSingle(w, present, other) ==
  /\ \/ pc[w] = "decideAgain"
     \/ pc[w] = "decide" /\ ~ (Grace /\ Outcome(Answered(w, other)) = "ok")
  /\ HasData(w, present) /\ ~ HasData(w, other)
  /\ StoreDraw(w, Answered(w, present), TRUE)

-----------------------------------------------------------------------------
(* The evaluation at the end of the poll.                                  *)

NothingDue(w) ==
  /\ pc[w] = "evaluate"
  /\ Due = {}
  /\ Goto(w, "idle")
  /\ UNCHANGED <<healthVars, draws, todo, call, verdict, polls>>

BeginAlerts(w) ==
  /\ pc[w] = "evaluate"
  /\ Snapshot(w)
  /\ Goto(w, "alerting")
  /\ UNCHANGED <<draws, todo, call, verdict, polls>>

SendAlert(w) ==
  /\ pc[w] = "alerting"
  /\ \E m \in plan[w], success \in BOOLEAN : Send(w, m, success)
  /\ UNCHANGED <<draws, pollVars, polls>>

EndAlerts(w) ==
  /\ pc[w] = "alerting"
  /\ NoSender(w) \/ Finish(w)
  /\ Goto(w, "idle")
  /\ UNCHANGED <<draws, todo, call, verdict, polls>>

(* The server dies in the middle of a poll.                                *)
Crash ==
  /\ \E w \in Pollers : pc[w] # "idle"
  /\ Restart
  /\ pc' = [w \in Pollers |-> "idle"]
  /\ todo' = [w \in Pollers |-> {}]
  /\ call' = [w \in Pollers |-> NoCall]
  /\ verdict' = [w \in Pollers |-> "none"]
  /\ UNCHANGED <<draws, polls>>

FetchStep(w) ==
  \/ StartPoll(w)
  \/ \E l \in todo[w], a, b \in Answer : FetchBoth(w, l, a, b)
  \/ RecordOutcome(w, Primary, "recordPrimary", "recordBackup")
  \/ RecordOutcome(w, Backup, "recordBackup", "decide")
  \/ DecideNothing(w)
  \/ DecideBoth(w)
  \/ \E present \in Sources : \E other \in Sources \ {present} :
       WaitForOther(w, present, other) \/ StoreSingle(w, present, other)
  \/ \E a \in Answer : Refetch(w, a)
  \/ RecordOutcome(w, call[w].missing, "recordMissing", "decideAgain")

AlertStep(w) == NothingDue(w) \/ BeginAlerts(w) \/ SendAlert(w) \/ EndAlerts(w)

Next ==
  \/ PassTime /\ UNCHANGED <<draws, pollVars, polls>>
  \/ \E w \in Pollers : FetchStep(w) \/ AlertStep(w)
  \/ Crash

Spec == Init /\ [][Next]_vars

-----------------------------------------------------------------------------

(* A draw is stored, or upgraded to, "confirmed by both sources" only by a *)
(* poll that holds an answer of each source with that very result; through *)
(* single-source fallbacks, the grace period and overlapping polls.        *)
ConfirmedByBoth ==
  [][\A x \in Lotteries \X Issues :
       draws'[x] # draws[x] /\ ~ draws'[x].single =>
         \E w \in Pollers : \A s \in Sources :
           HasData(w, s) /\ Canon[Answered(w, s).num] = Canon[draws'[x].num]]_vars

(* Polling never replaces a stored result and never takes a confirmation   *)
(* back ("a different result is left to the correction service").          *)
PollsOnlyConfirm ==
  [][\A x \in Lotteries \X Issues : draws[x] # NoDraw =>
       /\ draws'[x].num = draws[x].num
       /\ draws'[x].single => draws[x].single]_vars
=============================================================================
