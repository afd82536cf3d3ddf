---------------------------- MODULE DrawCoverage ----------------------------
(***************************************************************************)
(* Which draws of one lottery reach the table draw_results, and which of   *)
(* them are owed a comparison, over days in which the server starts, runs  *)
(* and dies: app/main.py (lifespan), app/scheduler/backfill.py, the polls  *)
(* of app/scheduler/jobs.py, the history interface of the MXNZP adapter    *)
(* and the command backfill-history.                                       *)
(*                                                                         *)
(* The clock counts thirds of a day: the hour after midnight, the day and  *)
(* the evening; path A polls in the first and the last of them, every day. *)
(* An issue is named by the day it is drawn on.  How a result is agreed by *)
(* the two sources is DrawFetch; here a fetch is answered or it is not.    *)
(***************************************************************************)
EXTENDS Integers, FiniteSets

CONSTANTS
  DrawDays,     \* the weekdays of the lottery's schedule, Monday is 0
  Configured,   \* the sources with a key in the settings
  HistorySize,  \* how many issues the history interface returns at most
  MaxTime,      \* bound: the last third of a day
  MaxCrashes    \* bound: deaths of the server

ASSUME ConstantsAssumption ==
  /\ DrawDays \subseteq 0..6 /\ DrawDays # {}
  /\ Configured \subseteq {"mxnzp", "juhe"}
  /\ HistorySize \in Nat \ {0}
  /\ MaxTime \in Nat /\ MaxCrashes \in Nat

VARIABLES
  now,      \* the third of a day it is
  server,   \* where the server process is in its life
  asOf,     \* the day the startup check took for today
  latest,   \* the newest issue the sources show
  rows,     \* draw_results: issue, stored date, has an outbox row
  crashes

vars == <<now, server, asOf, latest, rows, crashes>>

-----------------------------------------------------------------------------
(* The calendar *)

FirstDay == 7                       \* the installation, a Monday
Today == now \div 3
Drawn(d) == d % 7 \in DrawDays      \* an issue is drawn on day d

(* mutant: polls on the lottery's draw days only                           *)
TickDrawDays == now % 3 # 1 /\ Drawn(Today)

(* path_a_poll_evening, _overnight and _end, every day.                    *)
TickTime == now % 3 # 1

(* The issues the sources know, and the ones /common/history returns.      *)
Published == {d \in 0..latest : Drawn(d)}
Recent == {d \in Published :
             Cardinality({e \in Published : e > d}) < HistorySize}

(* The date of an answer: the day of the draw, or the day of the fetch     *)
(* where the source sends no date that can be read.                        *)
Dates(i) == {i, Today}

-----------------------------------------------------------------------------
(* Storing *)

Row == [issue : Nat, date : Nat, owed : BOOLEAN]

HasRow(i) == \E r \in rows : r.issue = i

(* mutant: a row without its date                                          *)
StoreUndated(i, date) ==
  rows' = IF HasRow(i) THEN rows ELSE rows \cup {[issue |-> i, owed |-> TRUE]}

(* FetchService._store of a verified result: a new row with its outbox     *)
(* row; an issue that has a row keeps it as it is.                         *)
Store(i, date) ==
  rows' = IF HasRow(i) THEN rows
          ELSE rows \cup {[issue |-> i, date |-> date, owed |-> TRUE]}

(* _store_history_draws: the issues I without a row get one, and no outbox *)
(* row.  A refused or failed request stores nothing.                       *)
StoreHistory(I) ==
  \E undated \in SUBSET I :
    rows' = rows \cup {[issue |-> i, date |-> IF i \in undated THEN Today ELSE i,
                        owed |-> FALSE] : i \in {j \in I : ~ HasRow(j)}}

-----------------------------------------------------------------------------
(* The server's start *)

(* lifespan: run_startup_backfill before the scheduler starts.  Without a  *)
(* key it fetches nothing.                                                 *)
Boot ==
  /\ server = "down"
  /\ server' = IF Configured = {} THEN "up" ELSE "history"
  /\ UNCHANGED <<now, asOf, latest, rows, crashes>>

(* _backfill_history: only from MXNZP and for a lottery without any row.   *)
CheckHistory ==
  /\ server = "history"
  /\ IF "mxnzp" \in Configured /\ rows = {}
     THEN server' = "loading" /\ asOf' = asOf
     ELSE server' = "check" /\ asOf' = Today
  /\ UNCHANGED <<now, latest, rows, crashes>>

LoadHistory(I) ==
  /\ server = "loading"
  /\ StoreHistory(I)
  /\ server' = "check"
  /\ asOf' = Today
  /\ UNCHANGED <<now, latest, crashes>>

(* The days a start looks back on (_BACKFILL_LOOKBACK_DAYS), and the ones  *)
(* with a draw but without a row of that date (_has_draw_for_date).        *)
Lookback == {asOf, asOf - 1}
HasDrawForDate(d) == \E r \in rows : r.date = d
Missed == {d \in Lookback : Drawn(d) /\ ~ HasDrawForDate(d)}

CheckMissed ==
  /\ server = "check"
  /\ server' = IF Missed # {} THEN "fetch" ELSE "up"
  /\ UNCHANGED <<now, asOf, latest, rows, crashes>>

(* fetch_and_store asks for the latest issue, whatever was missed; a       *)
(* failure is logged and the start goes on.                                *)
FetchMissed ==
  /\ server = "fetch"
  /\ server' = "up"
  /\ \/ \E date \in Dates(latest) : Store(latest, date)
     \/ UNCHANGED rows
  /\ UNCHANGED <<now, asOf, latest, crashes>>

-----------------------------------------------------------------------------
(* Running *)

(* _path_a_tick: every lottery is fetched in every tick, on its draw days  *)
(* or not.  A tick without an answer changes nothing here.                 *)
Tick ==
  /\ server = "up" /\ TickTime
  /\ Configured # {}
  /\ \E date \in Dates(latest) : Store(latest, date)
  /\ UNCHANGED <<now, server, asOf, latest, crashes>>

(* The command backfill-history, in a process of its own, does not look    *)
(* whether the lottery has rows.                                           *)
CommandBackfill(I) ==
  /\ "mxnzp" \in Configured
  /\ StoreHistory(I)
  /\ UNCHANGED <<now, server, asOf, latest, crashes>>

Crash ==
  /\ server # "down"
  /\ crashes < MaxCrashes
  /\ crashes' = crashes + 1
  /\ server' = "down"
  /\ UNCHANGED <<now, asOf, latest, rows>>

-----------------------------------------------------------------------------
(* The world *)

(* The next issue: drawn in the evening of a draw day, shown then or later. *)
IsNext(d) == d > latest /\ Drawn(d) /\ \A e \in latest + 1 .. d - 1 : ~ Drawn(e)

Publish(d) ==
  /\ IsNext(d)
  /\ now >= 3 * d + 2
  /\ latest' = d
  /\ UNCHANGED <<now, server, asOf, rows, crashes>>

(* ... but before the next one is drawn.  A start takes minutes: midnight   *)
(* may fall into it, a day may not.                                        *)
PassTime ==
  /\ now < MaxTime
  /\ server \in {"down", "up"} \/ (now + 1) % 3 = 0
  /\ (now + 1) % 3 = 2 /\ Drawn(Today) => ~ \E d \in 0 .. Today - 1 : IsNext(d)
  /\ now' = now + 1
  /\ UNCHANGED <<server, asOf, latest, rows, crashes>>

-----------------------------------------------------------------------------
(* Before the first start, by day; the last issue of the week before shows. *)
Init ==
  /\ now = 3 * FirstDay + 1
  /\ server = "down"
  /\ asOf = FirstDay
  /\ latest \in {d \in 0 .. FirstDay - 1 : Drawn(d)}
  /\ \A d \in latest + 1 .. FirstDay - 1 : ~ Drawn(d)
  /\ rows = {}
  /\ crashes = 0

Next ==
  \/ Boot \/ CheckHistory \/ CheckMissed \/ FetchMissed
  \/ \E I \in SUBSET Recent : LoadHistory(I) \/ CommandBackfill(I)
  \/ Tick \/ Crash \/ PassTime
  \/ \E d \in 0 .. Today : Publish(d)

Spec == Init /\ [][Next]_vars

(* A process gets on and restarts (restart: always); the clock runs and    *)
(* results are shown.  Of the polls made over and over every evening one   *)
(* is answered in the end.                                                 *)
Fairness ==
  /\ WF_vars(Boot) /\ WF_vars(CheckHistory)
  /\ WF_vars(\E I \in SUBSET Recent : LoadHistory(I))
  /\ WF_vars(CheckMissed) /\ WF_vars(FetchMissed)
  /\ WF_vars(PassTime) /\ WF_vars(\E d \in 0 .. Today : Publish(d))
  /\ SF_vars(Tick)

FairSpec == Spec /\ Fairness

-----------------------------------------------------------------------------
(* Properties *)

(* A stored draw always has the date it is looked up by.                   *)
TypeOK ==
  /\ now \in Nat
  /\ server \in {"down", "history", "loading", "check", "fetch", "up"}
  /\ asOf \in Nat
  /\ latest \in Nat
  /\ rows \subseteq Row
  /\ crashes \in 0 .. MaxCrashes

(* However late a result shows, and whatever kept the server down, it is   *)
(* stored unless the next issue takes its place at the sources first: the  *)
(* polls go on after the draw day's night (register_all_jobs).             *)
LatestIsStored ==
  \A i \in {d \in 0 .. MaxTime \div 3 : Drawn(d)} :
    latest = i ~> (HasRow(i) \/ latest # i)
=============================================================================
