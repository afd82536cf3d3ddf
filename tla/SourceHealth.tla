---------------------------- MODULE SourceHealth ----------------------------
(***************************************************************************)
(* The health table of the data sources and the alerts driven by it        *)
(* (app/services/source_health.py).  Fetches record an outcome per source  *)
(* (record_source_health); evaluators, one at the end of every poll and    *)
(* one at every start, send an alert for an outage that lasts and a        *)
(* recovery notice after it (evaluate_source_alerts).                      *)
(*                                                                         *)
(* An evaluation has three phases: a short session reads the table, the    *)
(* messages are sent with no session open, a second short session applies  *)
(* what was delivered to rows that still fit.  Three jobs with ids of      *)
(* their own run polls, so evaluations overlap.                            *)
(***************************************************************************)
EXTENDS Naturals

CONSTANTS
  Sources,      \* the data sources (mxnzp, juhe)
  Evaluators,   \* threads that may evaluate
  Threshold,    \* source_health_alert_after_minutes, in clock units
  MaxTime,      \* bound on the clock
  None          \* a NULL down_since, not a number

ASSUME HealthAssumption ==
  /\ Threshold \in Nat /\ MaxTime \in Nat
  /\ None \notin Nat

VARIABLES
  now,        \* the clock
  health,     \* api_source_health, by source
  phase,      \* evaluators: where each one is
  plan,       \* evaluators: messages still to send, <<source, target>>
  delivered,  \* evaluators: messages that got through
  owed        \* history: sources with a long outage nobody was told of

evalVars == <<phase, plan, delivered>>
healthVars == <<now, health, evalVars, owed>>

-----------------------------------------------------------------------------

(* A source without a row behaves like a row of defaults.                  *)
NewSource == [status |-> "unknown", alerted |-> "none", since |-> None]

Health == [status  : {"unknown", "ok", "down", "degraded"},
           alerted : {"none", "alerted", "recovering"},
           since   : Nat \cup {None}]

Outcomes == {"ok", "down", "permanent"}

(* A message and the value of alerted that its delivery brings about.      *)
Message == Sources \X {"alerted", "none"}

HealthTypeOK ==
  /\ now \in Nat
  /\ health \in [Sources -> Health]
  /\ phase \in [Evaluators -> {"idle", "planned", "sending"}]
  /\ plan \in [Evaluators -> SUBSET Message]
  /\ delivered \in [Evaluators -> SUBSET Message]
  /\ owed \in [Sources -> BOOLEAN]

HealthInit ==
  /\ now = 0
  /\ health = [s \in Sources |-> NewSource]
  /\ phase = [e \in Evaluators |-> "idle"]
  /\ plan = [e \in Evaluators |-> {}]
  /\ delivered = [e \in Evaluators |-> {}]
  /\ owed = [s \in Sources |-> FALSE]

PassTime ==
  /\ now < MaxTime
  /\ now' = now + 1
  /\ UNCHANGED <<health, evalVars, owed>>

-----------------------------------------------------------------------------
(* record_source_health.                                                   *)

(* The outage has lasted as long as the threshold.                         *)
Overdue(h) == h.since # None /\ h.since + Threshold <= now

(* mutant: a misspelt state; "no layer reports it", as the code remarks    *)
AfterOkMisspelt(h) ==
  IF h.alerted # "none" \/ Overdue(h)
  THEN [h EXCEPT !.status = "ok", !.alerted = "recovered"]
  ELSE [h EXCEPT !.status = "ok", !.since = None]

(* ok: a short outage is forgotten; after a long one, or one that was      *)
(* alerted, a recovery notice is due.                                      *)
AfterOk(h) ==
  IF h.alerted # "none" \/ Overdue(h)
  THEN [h EXCEPT !.status = "ok", !.alerted = "recovering"]
  ELSE [h EXCEPT !.status = "ok", !.since = None]

(* down: a failure before the recovery notice begins a new outage.         *)
AfterDown(h) ==
  IF h.alerted = "recovering"
  THEN [status |-> "down", alerted |-> "none", since |-> now]
  ELSE [h EXCEPT !.status = "down", !.since = IF @ = None THEN now ELSE @]

(* permanent: a configuration error ends the outage.                       *)
AfterPermanent(h) == [status |-> "degraded", alerted |-> "none", since |-> None]

Record(s, outcome) ==
  LET h == health[s] IN
  /\ health' = [health EXCEPT ![s] =
                  CASE outcome = "ok"        -> AfterOk(h)
                    [] outcome = "down"      -> AfterDown(h)
                    [] outcome = "permanent" -> AfterPermanent(h)]
  /\ owed' = [owed EXCEPT ![s] =
                CASE outcome = "ok"        -> @ \/ (h.alerted = "none" /\ Overdue(h))
                  [] outcome = "down"      -> @
                  [] outcome = "permanent" -> FALSE]
  /\ UNCHANGED <<now, evalVars>>

-----------------------------------------------------------------------------
(* evaluate_source_alerts.                                                 *)

(* The messages that are due.                                              *)
Due ==
  LET alerts    == {x \in Sources : /\ health[x].status = "down"
                                    /\ health[x].alerted = "none"
                                    /\ Overdue(health[x])}
      recovered == {x \in Sources : /\ health[x].alerted = "recovering"
                                    /\ health[x].status = "ok"}
  IN  {<<s, "alerted">> : s \in alerts} \cup {<<s, "none">> : s \in recovered}

(* Phase 1: read the table and decide.                                     *)
Snapshot(e) ==
  /\ phase[e] = "idle"
  /\ Due # {}
  /\ phase' = [phase EXCEPT ![e] = "planned"]
  /\ plan' = [plan EXCEPT ![e] = Due]
  /\ UNCHANGED <<now, health, delivered, owed>>

(* The sender factory returns None: nothing is sent, nothing changes.      *)
NoSender(e) ==
  /\ phase[e] = "planned"
  /\ phase' = [phase EXCEPT ![e] = "idle"]
  /\ plan' = [plan EXCEPT ![e] = {}]
  /\ UNCHANGED <<now, health, delivered, owed>>

(* Phase 2: one message; sending may fail, the others are still tried.     *)
Send(e, m, success) ==
  /\ phase[e] \in {"planned", "sending"}
  /\ m \in plan[e]
  /\ phase' = [phase EXCEPT ![e] = "sending"]
  /\ plan' = [plan EXCEPT ![e] = @ \ {m}]
  /\ delivered' = [delivered EXCEPT ![e] = IF success THEN @ \cup {m} ELSE @]
  /\ owed' = IF success THEN [owed EXCEPT ![m[1]] = FALSE] ELSE owed
  /\ UNCHANGED <<now, health>>

(* mutant: a delivered message is applied without reading the row again    *)
ApplyUnguarded(h, targets) ==
  IF "alerted" \in targets THEN [h EXCEPT !.alerted = "alerted"]
  ELSE IF "none" \in targets THEN [h EXCEPT !.alerted = "none", !.since = None]
  ELSE h

(* A row after the delivery of messages with these targets, if it still    *)
(* is in the state the message was about.                                  *)
Apply(h, targets) ==
  IF "alerted" \in targets /\ h.alerted = "none" /\ h.status = "down"
  THEN [h EXCEPT !.alerted = "alerted"]
  ELSE IF "none" \in targets /\ h.alerted = "recovering" /\ h.status = "ok"
  THEN [h EXCEPT !.alerted = "none", !.since = None]
  ELSE h

(* Phase 3: apply what was delivered.                                      *)
Finish(e) ==
  /\ phase[e] = "sending" /\ plan[e] = {}
  /\ health' = [s \in Sources |->
                  Apply(health[s], {t \in {"alerted", "none"} : <<s, t>> \in delivered[e]})]
  /\ phase' = [phase EXCEPT ![e] = "idle"]
  /\ delivered' = [delivered EXCEPT ![e] = {}]
  /\ UNCHANGED <<now, plan, owed>>

(* The process restarts: evaluations under way are lost.                   *)
Restart ==
  /\ phase' = [e \in Evaluators |-> "idle"]
  /\ plan' = [e \in Evaluators |-> {}]
  /\ delivered' = [e \in Evaluators |-> {}]
  /\ UNCHANGED <<now, health, owed>>

Evaluate(e) ==
  \/ Snapshot(e)
  \/ NoSender(e)
  \/ \E m \in plan[e], success \in BOOLEAN : Send(e, m, success)
  \/ Finish(e)

HealthNext ==
  \/ PassTime
  \/ \E s \in Sources, o \in Outcomes : Record(s, o)
  \/ \E e \in Evaluators : Evaluate(e)
  \/ Restart

HealthSpec == HealthInit /\ [][HealthNext]_healthVars

-----------------------------------------------------------------------------

(* A row is never stuck between the states of the alert machine: an outage *)
(* has a start, "alerted" stands only on a failing source, and a recovery  *)
(* notice is due only where an evaluation can send it; however recordings  *)
(* and overlapping evaluations interleave.                                 *)
NoticeCanBeSettled ==
  \A s \in Sources : LET h == health[s] IN
    /\ h.status = "down" => h.since # None
    /\ h.alerted = "alerted" => h.status = "down"
    /\ h.alerted = "recovering" => h.status = "ok" /\ h.since # None
    /\ h.status = "degraded" => h.since = None

(* The promise behind the recovery notice of an unalerted outage: "a long  *)
(* outage nobody was told of is not cleared silently".  Either a message   *)
(* has been delivered, or the row still remembers an outage.               *)
LongOutageIsTold ==
  \A s \in Sources : owed[s] => health[s].alerted # "none" \/ health[s].since # None
=============================================================================
