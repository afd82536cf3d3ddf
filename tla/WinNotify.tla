------------------------------ MODULE WinNotify ------------------------------
(***************************************************************************)
(* Telling users of their prizes.  Three ways lead to a user: the instant  *)
(* push of a big win in the evening of the draw (path A), the summary of   *)
(* the previous day at 07:00 (path B), and the catch-up sweep at 07:15 and *)
(* at every start, for wins judged too late for the other two.  No way     *)
(* tells the others what it did except through notification logs, and the  *)
(* summary writes none for a single win: whether a win falls between the   *)
(* three is what this module asks.                                         *)
(*                                                                         *)
(* The clock counts thirds of a day: night (from 00:00), morning (from     *)
(* 07:00) and evening (the draws and the poll).                            *)
(***************************************************************************)
EXTENDS Naturals, FiniteSets

CONSTANTS
  Wins,         \* comparisons, each of one ticket with one draw
  DayOf,        \* the day of its draw
  Owner, Users, \* the user it belongs to
  Float,        \* those in a floating tier, the "big wins" of path A
  MaxAge,       \* _CATCHUP_MAX_AGE_DAYS, in thirds of a day
  MaxTime,      \* bound on the clock
  MaxCrashes,   \* bound on crashes of the server
  MaxEdits      \* bound on recomparisons and on changes of what users follow

ASSUME NotifyAssumption ==
  /\ DayOf \in [Wins -> Nat]
  /\ Owner \in [Wins -> Users]
  /\ Float \subseteq Wins
  /\ MaxAge \in Nat /\ MaxTime \in Nat /\ MaxCrashes \in Nat /\ MaxEdits \in Nat

VARIABLES
  now,        \* the clock
  up,         \* the server: "down", "boot" (the startup catch-up), "up"
  cmp,        \* comparisons: verdict and the time it was reached
  redo,       \* recomparisons whose transaction is still open
  tracked,    \* the ticket's lottery is one its user follows
  log,        \* notification_logs with this comparison_id, by final status
  push,       \* path A: the push job of a comparison
  sweeping,   \* a catch-up sweep is under way
  candidates, \* the sweep: candidates left
  at,         \* the sweep: how far the delivery of a candidate is
  summary,    \* the summary of the previous day: "due", "running", "done"
  users,      \* the summary: users left
  digest,     \* the summary: wins in the message being sent
  told,       \* history: wins whose user got a message
  loud,       \* history: wins whose failed delivery the administrator was told of
  excused,    \* history: wins that escaped the summary for a known reason
  unheard,    \* history: wins in a summary that reached neither user nor administrator
  crashes, edits

sweepVars == <<sweeping, candidates, at>>
serverVars == <<push, sweepVars, summary, users, digest>>
historyVars == <<told, loud, excused, unheard>>
vars == <<now, up, cmp, redo, tracked, log, serverVars, historyVars, crashes, edits>>

-----------------------------------------------------------------------------

Verdict == [st : {"none", "win", "lose"}, stamp : Nat]
NoVerdict == [st |-> "none", stamp |-> 0]

Stages == {"none", "sending", "sent", "failed"}

TablesOK ==
  /\ now \in Nat
  /\ up \in {"down", "boot", "up"}
  /\ cmp \in [Wins -> Verdict]
  /\ redo \in [Wins -> Verdict]
  /\ tracked \in [Wins -> BOOLEAN]
  /\ log \in [Wins -> SUBSET {"sent", "failed"}]

JobsOK ==
  /\ push \in [Wins -> Stages \cup {"queued"}]
  /\ sweeping \in BOOLEAN
  /\ candidates \subseteq Wins
  /\ at \in [Wins -> Stages \cup {"retrying"}]
  /\ summary \in {"due", "running", "done"}
  /\ users \subseteq Users
  /\ digest \subseteq Wins

HistoryOK ==
  /\ told \subseteq Wins /\ loud \subseteq Wins /\ excused \subseteq Wins /\ unheard \subseteq Wins
  /\ crashes \in Nat /\ edits \in Nat

TypeOK == TablesOK /\ JobsOK /\ HistoryOK

Init ==
  /\ now = 0
  /\ up = "up"
  /\ cmp = [c \in Wins |-> NoVerdict]
  /\ redo = [c \in Wins |-> NoVerdict]
  /\ tracked = [c \in Wins |-> TRUE]
  /\ log = [c \in Wins |-> {}]
  /\ push = [c \in Wins |-> "none"]
  /\ sweeping = FALSE
  /\ candidates = {}
  /\ at = [c \in Wins |-> "none"]
  /\ summary = "done"
  /\ users = {}
  /\ digest = {}
  /\ told = {} /\ loud = {} /\ excused = {} /\ unheard = {}
  /\ crashes = 0 /\ edits = 0

Today == now \div 3
Night == now % 3 = 0
Morning == now % 3 = 1
Evening == now % 3 = 2

Drawn(c) == now >= 3 * DayOf[c] + 2
Standing(c) == cmp[c].st = "win"

(* The one moment at which the summary covers the day of this draw.        *)
SummaryTime(c) == 3 * (DayOf[c] + 1) + 1

(* The summary that covers this win still will read the database for it.   *)
SummaryAhead(c) ==
  \/ now < SummaryTime(c)
  \/ /\ now = SummaryTime(c)
     /\ summary = "due" \/ (summary = "running" /\ Owner[c] \in users)

-----------------------------------------------------------------------------
(* Comparisons, and what users do.                                         *)

(* process_pending, in a tick or at a start: the comparison and its time   *)
(* are committed together, as far as the jobs of this process can tell.    *)
Compare(c, verdict) ==
  /\ up = "boot" \/ (up = "up" /\ ~ Morning)
  /\ Drawn(c)
  /\ cmp[c] = NoVerdict
  /\ cmp' = [cmp EXCEPT ![c] = [st |-> verdict, stamp |-> now]]
  /\ UNCHANGED <<now, up, redo, tracked, log, serverVars, historyVars, crashes, edits>>

(* force-verify, or the recompare command in a process of its own: the     *)
(* time is taken when the row is written, ...                              *)
BeginRedo(c, verdict) ==
  /\ edits < MaxEdits
  /\ Drawn(c)
  /\ redo[c] = NoVerdict
  /\ redo' = [redo EXCEPT ![c] = [st |-> verdict, stamp |-> now]]
  /\ edits' = edits + 1
  /\ UNCHANGED <<now, up, cmp, tracked, log, serverVars, historyVars, crashes>>

(* ... and others see it when the transaction commits.  A verdict reached  *)
(* before the summary and committed after it escapes the summary.  What    *)
(* the administrator heard, or did not, was about the earlier verdict.     *)
CommitRedo(c) ==
  /\ redo[c] # NoVerdict
  /\ cmp' = [cmp EXCEPT ![c] = redo[c]]
  /\ redo' = [redo EXCEPT ![c] = NoVerdict]
  /\ excused' = IF redo[c].stamp < SummaryTime(c) /\ ~ SummaryAhead(c)
                THEN excused \cup {c} ELSE excused \ {c}
  /\ loud' = loud \ {c}
  /\ unheard' = unheard \ {c}
  /\ UNCHANGED <<now, up, tracked, log, serverVars, told, crashes, edits>>

(* A user disables, or enables again, all tickets of the lottery.          *)
ToggleTracked(c) ==
  /\ edits < MaxEdits
  /\ edits' = edits + 1
  /\ tracked' = [tracked EXCEPT ![c] = ~ @]
  /\ UNCHANGED <<now, up, cmp, redo, log, serverVars, historyVars, crashes>>

-----------------------------------------------------------------------------
(* Delivery.                                                               *)

(* _send_to_user_channels: a channel took it, or all channels failed, or   *)
(* the user has none, of which the administrator is not told.  The alert   *)
(* about a failure may be lost as well: no administrator's key is          *)
(* configured, or that channel fails, too (_alert_admin).                  *)
Results == {"sent", "failed", "alertLost", "noChannels"}

(* mutant: a status of its own, which no query of the logs knows           *)
StatusVerbatim(result) == result

(* The status written to the log.                                          *)
Status(result) == IF result = "sent" THEN "sent" ELSE "failed"

(* What the world knows after a delivery of these wins: the user has the   *)
(* message, or the administrator, if there is to be an alert, has the      *)
(* alert.                                                                  *)
Outcome(wins, result, alertAdmin) ==
  /\ told' = IF result = "sent" THEN told \cup wins ELSE told
  /\ loud' = IF result = "failed" /\ alertAdmin THEN loud \cup wins ELSE loud

-----------------------------------------------------------------------------
(* Path A.                                                                 *)

(* _path_a_tick, after fetching and comparing: big wins of the calendar    *)
(* day's draws that no log says were sent get a push job.  Several jobs    *)
(* for one win say the same and are merged here.                           *)
PathATick ==
  LET big == {c \in Float : Standing(c) /\ DayOf[c] = Today /\ "sent" \notin log[c]} IN
  /\ up = "up" /\ (Evening \/ Night)
  /\ push' = [c \in Wins |-> IF c \in big /\ push[c] = "none" THEN "queued" ELSE push[c]]
  /\ UNCHANGED <<now, up, cmp, redo, tracked, log, sweepVars, summary, users, digest,
                 historyVars, crashes, edits>>

(* mutant: the log is written as sent before the message is                *)
StartPushSent(c) ==
  /\ up = "up" /\ push[c] = "queued"
  /\ push' = [push EXCEPT ![c] = "sending"]
  /\ log' = [log EXCEPT ![c] = @ \cup {"sent"}]
  /\ UNCHANGED <<now, up, cmp, redo, tracked, sweepVars, summary, users, digest,
                 historyVars, crashes, edits>>

(* _push_big_win: read what is needed and commit a pending log.  The       *)
(* verdict is not read again.                                              *)
StartPush(c) ==
  /\ up = "up" /\ push[c] = "queued"
  /\ push' = [push EXCEPT ![c] = "sending"]
  /\ UNCHANGED <<now, up, cmp, redo, tracked, log, sweepVars, summary, users, digest,
                 historyVars, crashes, edits>>

DeliverPush(c, result) ==
  /\ push[c] = "sending"
  /\ push' = [push EXCEPT ![c] = Status(result)]
  /\ Outcome({c}, result, TRUE)
  /\ UNCHANGED <<now, up, cmp, redo, tracked, log, sweepVars, summary, users, digest,
                 excused, unheard, crashes, edits>>

(* _update_log_status.                                                     *)
LogPush(c) ==
  /\ push[c] \notin {"none", "queued", "sending"}
  /\ log' = [log EXCEPT ![c] = @ \cup {push[c]}]
  /\ push' = [push EXCEPT ![c] = "none"]
  /\ UNCHANGED <<now, up, cmp, redo, tracked, sweepVars, summary, users, digest,
                 historyVars, crashes, edits>>

(* The job store has the job, the server was down past its grace time.     *)
MisfirePush(c) ==
  /\ up = "boot" /\ push[c] = "queued"
  /\ push' = [push EXCEPT ![c] = "none"]
  /\ UNCHANGED <<now, up, cmp, redo, tracked, log, sweepVars, summary, users, digest,
                 historyVars, crashes, edits>>

-----------------------------------------------------------------------------
(* The catch-up sweep.                                                     *)

(* mutant: the cutoff the sweep once had, two days after the draw          *)
CutoffTwoDays(c) == 3 * (DayOf[c] + 2)

(* _cutoff_utc: 07:00 on the day after the draw.                           *)
Cutoff(c) == 3 * (DayOf[c] + 1) + 1

TooOld(c) == cmp[c].stamp + MaxAge < now

(* mutant: a failed delivery counts as a notification                      *)
CandidateUnlogged(c) ==
  /\ Standing(c) /\ log[c] = {}
  /\ ~ TooOld(c)
  /\ cmp[c].stamp >= Cutoff(c)

(* find_catchup_candidates.                                                *)
Candidate(c) ==
  /\ Standing(c) /\ "sent" \notin log[c]
  /\ ~ TooOld(c)
  /\ cmp[c].stamp >= Cutoff(c)

StartSweep ==
  /\ up = "up" /\ Morning
  /\ ~ sweeping
  /\ sweeping' = TRUE
  /\ candidates' = {c \in Wins : Candidate(c)}
  /\ UNCHANGED <<now, up, at, cmp, redo, tracked, log, push, summary, users, digest,
                 historyVars, crashes, edits>>

Sending(c) == at[c] # "none"

(* notify_win_catchup: one candidate after the other.  An earlier failed   *)
(* delivery is taken to have been announced; the logs are read here, once. *)
SweepOne(c) ==
  /\ c \in candidates
  /\ \A d \in Wins : ~ Sending(d)
  /\ candidates' = candidates \ {c}
  /\ at' = [at EXCEPT ![c] = IF "failed" \in log[c] THEN "retrying" ELSE "sending"]
  /\ UNCHANGED <<now, up, sweeping, cmp, redo, tracked, log, push, summary, users, digest,
                 historyVars, crashes, edits>>

(* A retry that fails is not announced again.                              *)
DeliverSweep(c, result) ==
  /\ at[c] \in {"sending", "retrying"}
  /\ at' = [at EXCEPT ![c] = Status(result)]
  /\ Outcome({c}, result, at[c] = "sending")
  /\ UNCHANGED <<now, up, sweeping, candidates, cmp, redo, tracked, log, push, summary, users, digest,
                 excused, unheard, crashes, edits>>

LogSweep(c) ==
  /\ at[c] \notin {"none", "sending", "retrying"}
  /\ log' = [log EXCEPT ![c] = @ \cup {at[c]}]
  /\ at' = [at EXCEPT ![c] = "none"]
  /\ UNCHANGED <<now, up, sweeping, candidates, cmp, redo, tracked, push, summary, users, digest,
                 historyVars, crashes, edits>>

(* The job ends; at a start, the scheduler starts after it.                *)
EndSweep ==
  /\ sweeping /\ candidates = {} /\ \A c \in Wins : ~ Sending(c)
  /\ sweeping' = FALSE
  /\ up' = IF up = "boot" THEN "up" ELSE up
  /\ UNCHANGED <<now, candidates, at, cmp, redo, tracked, log, push, summary, users, digest,
                 historyVars, crashes, edits>>

-----------------------------------------------------------------------------
(* Path B.                                                                 *)

(* Standing wins of the day the summary is about.                          *)
Yesterdays(us) == {c \in Wins : Standing(c) /\ DayOf[c] + 1 = Today /\ Owner[c] \in us}

(* _path_b_summary at 07:00, or within the grace time of 600 seconds.      *)
StartSummary ==
  /\ up = "up" /\ summary = "due"
  /\ summary' = "running"
  /\ users' = Users
  /\ UNCHANGED <<now, up, cmp, redo, tracked, log, push, sweepVars, digest,
                 historyVars, crashes, edits>>

(* The server is down past the grace time: this summary never runs.        *)
SkipSummary ==
  /\ up = "down" /\ summary = "due"
  /\ summary' = "done"
  /\ excused' = excused \cup Yesterdays(Users)
  /\ UNCHANGED <<now, up, cmp, redo, tracked, log, push, sweepVars, users, digest,
                 told, loud, unheard, crashes, edits>>

(* notify_path_b reads the user's results; lotteries the user follows no   *)
(* longer are left out.                                                    *)
Summarise(u) ==
  /\ summary = "running" /\ digest = {} /\ u \in users
  /\ users' = users \ {u}
  /\ digest' = {c \in Yesterdays({u}) : tracked[c]}
  /\ excused' = excused \cup {c \in Yesterdays({u}) : ~ tracked[c]}
  /\ UNCHANGED <<now, up, cmp, redo, tracked, log, push, sweepVars, summary,
                 told, loud, unheard, crashes, edits>>

(* An exception for one user is logged; the others still get theirs.       *)
SummariseFails(u) ==
  /\ summary = "running" /\ digest = {} /\ u \in users
  /\ users' = users \ {u}
  /\ excused' = excused \cup Yesterdays({u})
  /\ UNCHANGED <<now, up, cmp, redo, tracked, log, push, sweepVars, summary, digest,
                 told, loud, unheard, crashes, edits>>

(* One message for the day; it is never sent again.  When it failed and    *)
(* nobody hears of that, its wins are lost in silence.                     *)
DeliverSummary(result) ==
  /\ digest # {}
  /\ digest' = {}
  /\ Outcome(digest, result, TRUE)
  /\ unheard' = IF result \in {"alertLost", "noChannels"} THEN unheard \cup digest ELSE unheard
  /\ UNCHANGED <<now, up, cmp, redo, tracked, log, push, sweepVars, summary, users,
                 excused, crashes, edits>>

EndSummary ==
  /\ summary = "running" /\ users = {} /\ digest = {}
  /\ summary' = "done"
  /\ UNCHANGED <<now, up, cmp, redo, tracked, log, push, sweepVars, users, digest,
                 historyVars, crashes, edits>>

-----------------------------------------------------------------------------
(* The clock and the server.                                               *)

(* A summary begins at 07:00 and is over long before the next evening.     *)
PassTime ==
  /\ now < MaxTime
  /\ Morning => summary = "done"
  /\ now' = now + 1
  /\ summary' = IF Night THEN "due" ELSE summary
  /\ UNCHANGED <<up, cmp, redo, tracked, log, push, sweepVars, users, digest,
                 historyVars, crashes, edits>>

(* The server dies: only queued jobs and tables survive.                   *)
Crash ==
  /\ up # "down" /\ crashes < MaxCrashes
  /\ up' = "down"
  /\ push' = [c \in Wins |-> IF push[c] = "queued" THEN "queued" ELSE "none"]
  /\ sweeping' = FALSE
  /\ candidates' = {}
  /\ at' = [c \in Wins |-> "none"]
  /\ summary' = IF summary = "running" THEN "done" ELSE summary
  /\ users' = {}
  /\ digest' = {}
  /\ excused' = IF summary = "running" THEN excused \cup digest \cup Yesterdays(users)
                ELSE excused
  /\ crashes' = crashes + 1
  /\ UNCHANGED <<now, cmp, redo, tracked, log, told, loud, unheard, edits>>

(* run_startup_backfill ends with a catch-up, before the scheduler starts. *)
Boot ==
  /\ up = "down"
  /\ up' = "boot"
  /\ sweeping' = TRUE
  /\ candidates' = {c \in Wins : Candidate(c)}
  /\ UNCHANGED <<now, at, cmp, redo, tracked, log, push, summary, users, digest,
                 historyVars, crashes, edits>>

Judge(c) ==
  \/ \E v \in {"win", "lose"} : Compare(c, v) \/ BeginRedo(c, v)
  \/ CommitRedo(c)
  \/ ToggleTracked(c)

PathA(c) ==
  \/ StartPush(c)
  \/ \E r \in Results : DeliverPush(c, r)
  \/ LogPush(c)
  \/ MisfirePush(c)

Sweep(c) ==
  \/ SweepOne(c)
  \/ \E r \in Results : DeliverSweep(c, r)
  \/ LogSweep(c)

PathB ==
  \/ StartSummary
  \/ SkipSummary
  \/ \E u \in Users : Summarise(u) \/ SummariseFails(u)
  \/ \E r \in Results : DeliverSummary(r)
  \/ EndSummary

Next ==
  \/ \E c \in Wins : Judge(c) \/ PathA(c) \/ Sweep(c)
  \/ PathATick
  \/ StartSweep \/ EndSweep
  \/ PathB
  \/ PassTime \/ Crash \/ Boot

Spec == Init /\ [][Next]_vars

(* The jobs run on while the server is up, it is started again, days pass, *)
(* and a channel that is tried again and again works some day.             *)
Fairness ==
  /\ WF_vars(PassTime) /\ WF_vars(Boot)
  /\ WF_vars(StartSummary) /\ WF_vars(SkipSummary) /\ WF_vars(EndSummary)
  /\ WF_vars(\E u \in Users : Summarise(u))
  /\ WF_vars(\E r \in Results : DeliverSummary(r))
  /\ WF_vars(StartSweep) /\ WF_vars(EndSweep)
  /\ \A c \in Wins :
       /\ SF_vars(SweepOne(c)) /\ WF_vars(LogSweep(c))
       /\ WF_vars(\E r \in Results : DeliverSweep(c, r))
       /\ SF_vars(DeliverSweep(c, "sent"))

FairSpec == Spec /\ Fairness

-----------------------------------------------------------------------------

(* A log says "sent" only of a win that reached its user, at any point of  *)
(* a delivery and after any crash: what keeps a win out of the sweep is a  *)
(* delivery that took place.                                               *)
SentWasDelivered == \A c \in Wins : "sent" \in log[c] => c \in told

(* Where a win can be lost.  Once the summary of its day is behind, a      *)
(* standing win has been told, or an alert about its verdict's failed      *)
(* delivery has reached the administrator, or the next sweep takes it up,  *)
(* or it is too old.  The exceptions are all of the summary's making: it   *)
(* was in a summary that failed without an alert (unheard), or it was in   *)
(* none (excused: the summary was missed, cut off by a crash, raised for   *)
(* this user or left the lottery out, or the verdict was reached before    *)
(* the summary read the database and committed after it).  In particular   *)
(* no failure of a push or of a sweep, announced or not, costs a win.      *)
NoSilentMiss ==
  \A c \in Wins : Standing(c) /\ ~ SummaryAhead(c) /\ summary # "running" =>
    \/ c \in told \/ c \in loud \/ Candidate(c) \/ TooOld(c)
    \/ c \in unheard \/ c \in excused

(* A late win is retried until its user was told, it no longer stands, or  *)
(* the age limit ends it: "failed" logs never take it out of the sweep.    *)
LateWinsTold ==
  \A c \in Wins :
    Candidate(c) ~> (c \in told \/ ~ Standing(c) \/ TooOld(c) \/ c \in excused)

(* "No silent miss any more" (win_catchup): NoSilentMiss without the wins  *)
(* that were in no summary at all.                                         *)
NeverMissed ==
  \A c \in Wins : Standing(c) /\ ~ SummaryAhead(c) /\ summary # "running" =>
    c \in told \/ c \in loud \/ Candidate(c) \/ TooOld(c) \/ c \in unheard
=============================================================================
