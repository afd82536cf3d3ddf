----------------------------- MODULE FloatRefill -----------------------------
(***************************************************************************)
(* The life of a comparison row's amount.  A comparison judges a ticket    *)
(* under PrizeRules: a fixed tier gets its amount at once, a floating one  *)
(* waits for the official announcement, which the refill job of the server *)
(* (FloatRefillWorker, twice a day) asks for until the row is MaxAge old.  *)
(* A correction, force-verify or the recompare command judge the row anew, *)
(* while a refill that has read the old row is still asking.               *)
(*                                                                         *)
(* A row stands for one ticket with one draw.  The clock counts days.      *)
(***************************************************************************)
EXTENDS PrizeRules, PrizeSources

CONSTANTS
  Rows,
  Code, DrawDate,    \* lottery and day of the row's draw
  DrawNumbers,       \* what its draw's numbers may be, a correction included
  Tickets,           \* what its ticket may be, edits included
  Official,          \* Official[r][tier]: the amount announced, for one bet
  MaxAge,            \* max_age_days
  MaxTime,           \* bound on the clock
  MaxChanges,        \* bound on corrections, edits, force-verifies, recomparisons
  MaxCrashes         \* bound on crashes

Numbers == [front : Seq(Nat), back : Seq(Nat)]
Ticket  == [combo : Numbers, multiplier : Nat, append : BOOLEAN]

ASSUME RefillAssumption ==
  /\ Code \in [Rows -> Codes] /\ DrawDate \in [Rows -> Nat]
  /\ \A r \in Rows :
       /\ DrawNumbers[r] # {} /\ \A d \in DrawNumbers[r] : d \in Numbers
       /\ Tickets[r] # {} /\ \A t \in Tickets[r] : t \in Ticket
       /\ \A i \in 1..9 : Official[r][i] \in Nat
  /\ MaxAge \in Nat /\ MaxTime \in Nat /\ MaxChanges \in Nat /\ MaxCrashes \in Nat

VARIABLES
  now,
  draw, ticket,  \* the current numbers of each row's draw, and its ticket
  due,           \* rows whose draw has an unprocessed outbox row
  row,           \* comparisons
  stage,         \* refill jobs, by process: "idle", "rows"
  batch,         \* refill jobs: rows still to be asked for
  read,          \* refill jobs: tiers and tickets as the job read them
  cutoff,        \* refill jobs: rows from before this day have expired
  cli,           \* the recompare command: "idle", "redo", "refill"
  redo,          \* the recompare command: how far it is with each draw
  kept,          \* the recompare command: tiers and amounts it has put aside
  crossed,       \* history: rows with an amount asked for under another tier
  held,          \* history: rows filled when put aside, not compared since
  filled,        \* history: rows refilled under the verdict they still have
  asked,         \* history: rows asked for under the verdict they still have
  refused,       \* history: rows written off by an answer about that verdict
  mistaken,      \* history: rows written off by an answer about an earlier one
  changes, crashes

refillVars == <<stage, batch, read, cutoff>>
cliVars    == <<cli, redo, kept>>
answerVars == <<asked, refused, mistaken>>
ghostVars  == <<crossed, filled, held, answerVars>>
boundVars  == <<changes, crashes>>
vars == <<now, draw, ticket, due, row, refillVars, cliVars, ghostVars, boundVars>>

Processes == {"server", "cli"}

-----------------------------------------------------------------------------

Tier   == 1..9 \cup {None}
Amount == Nat \cup {None}

(* corrected: the row was judged again (corrected_at).                     *)
Row   == [tier : Tier, amount : Amount, unresolved : BOOLEAN, created : Nat,
          corrected : BOOLEAN]
NoRow == [tier |-> None, amount |-> None, unresolved |-> FALSE, created |-> None,
          corrected |-> FALSE]

(* What the command has put aside; bad: it was crossed already.            *)
Kept    == [tier : Tier, amount : Amount, bad : BOOLEAN]
Nothing == [tier |-> None, amount |-> None, bad |-> FALSE]

Reading == [tier : Tier, ticket : UNION {Tickets[r] : r \in Rows}]
Unread  == [r \in Rows |-> [tier |-> None, ticket |-> CHOOSE t \in Tickets[r] : TRUE]]

TablesOK ==
  /\ now \in Nat
  /\ draw \in [Rows -> UNION {DrawNumbers[r] : r \in Rows}]
  /\ ticket \in [Rows -> UNION {Tickets[r] : r \in Rows}]
  /\ \A r \in Rows : draw[r] \in DrawNumbers[r] /\ ticket[r] \in Tickets[r]
  /\ due \subseteq Rows
  /\ row \in [Rows -> Row \cup {NoRow}]

JobsOK ==
  /\ stage \in [Processes -> {"idle", "rows"}]
  /\ batch \in [Processes -> SUBSET Rows]
  /\ read \in [Processes -> [Rows -> Reading]]
  /\ \A p \in Processes, r \in Rows : read[p][r].ticket \in Tickets[r]
  /\ cutoff \in [Processes -> Int \cup {None}]
  /\ cli \in {"idle", "redo", "refill"}
  /\ redo \in [Rows -> {"no", "todo", "compare", "restore"}]
  /\ kept \in [Rows -> Kept]

HistoryOK ==
  /\ crossed \subseteq Rows /\ filled \subseteq Rows /\ held \subseteq Rows
  /\ asked \subseteq Rows /\ refused \subseteq Rows /\ mistaken \subseteq Rows
  /\ changes \in Nat /\ crashes \in Nat

TypeOK == TablesOK /\ JobsOK /\ HistoryOK

Init ==
  /\ now = 0
  /\ draw \in [Rows -> UNION {DrawNumbers[r] : r \in Rows}]
  /\ ticket \in [Rows -> UNION {Tickets[r] : r \in Rows}]
  /\ \A r \in Rows : draw[r] \in DrawNumbers[r] /\ ticket[r] \in Tickets[r]
  /\ due = Rows
  /\ row = [r \in Rows |-> NoRow]
  /\ stage = [p \in Processes |-> "idle"]
  /\ batch = [p \in Processes |-> {}]
  /\ read = [p \in Processes |-> Unread]
  /\ cutoff = [p \in Processes |-> None]
  /\ cli = "idle"
  /\ redo = [r \in Rows |-> "no"]
  /\ kept = [r \in Rows |-> Nothing]
  /\ crossed = {} /\ filled = {} /\ held = {}
  /\ asked = {} /\ refused = {} /\ mistaken = {}
  /\ changes = 0 /\ crashes = 0

-----------------------------------------------------------------------------
(* Judging a row.                                                          *)

Verdict(r) ==
  MatchTier(Code[r], Hits(Code[r], draw[r], ticket[r].combo), DrawDate[r])

(* A fixed amount times the multiplier; a floating tier waits.             *)
FixedAmount(r, tier) ==
  LET cents == AmountOf(Code[r], tier, DrawDate[r])
  IN  IF cents = None THEN None ELSE cents * ticket[r].multiplier

(* mutant: a row judged again keeps the amount it has                      *)
JudgedKeeping(r) ==
  [tier |-> Verdict(r), unresolved |-> FALSE,
   amount |-> IF FixedAmount(r, Verdict(r)) = None THEN row[r].amount
              ELSE FixedAmount(r, Verdict(r)),
   created |-> IF row[r] = NoRow THEN now ELSE row[r].created,
   corrected |-> row[r] # NoRow]

(* mutant: a new row without its time stamp                                *)
JudgedUndated(r) ==
  [tier |-> Verdict(r), amount |-> FixedAmount(r, Verdict(r)), unresolved |-> FALSE,
   created |-> row[r].created,
   corrected |-> row[r] # NoRow]

(* _upsert_comparison: a new row, or the old one judged again in place.    *)
Judged(r) ==
  [tier |-> Verdict(r), amount |-> FixedAmount(r, Verdict(r)), unresolved |-> FALSE,
   created |-> IF row[r] = NoRow THEN now ELSE row[r].created,
   corrected |-> row[r] # NoRow]

(* What a source has answered was about the earlier verdict.               *)
AnswersLapse(r) ==
  /\ asked' = asked \ {r}
  /\ refused' = refused \ {r}
  /\ mistaken' = mistaken \ {r}

(* The server compares a draw of the outbox.                               *)
Compare(r) ==
  /\ r \in due
  /\ due' = due \ {r}
  /\ row' = [row EXCEPT ![r] = Judged(r)]
  /\ crossed' = crossed \ {r} /\ filled' = filled \ {r} /\ held' = held \ {r}
  /\ AnswersLapse(r)
  /\ UNCHANGED <<now, draw, ticket, refillVars, cliVars, boundVars>>

(* A correction of the draw, or force_verify, which keeps its numbers.     *)
Reopen(r, d) ==
  /\ changes < MaxChanges /\ changes' = changes + 1
  /\ draw' = [draw EXCEPT ![r] = d]
  /\ due' = due \cup {r}
  /\ UNCHANGED <<now, ticket, row, refillVars, cliVars, ghostVars, crashes>>

EditTicket(r, t) ==
  /\ changes < MaxChanges /\ changes' = changes + 1
  /\ ticket' = [ticket EXCEPT ![r] = t]
  /\ UNCHANGED <<now, draw, due, row, refillVars, cliVars, ghostVars, crashes>>

-----------------------------------------------------------------------------
(* FloatRefillWorker.refill, by the server's job or the recompare command. *)

(* Rows in a floating tier whose amount is not known.                      *)
Open(r) ==
  /\ row[r].tier \in FloatTiers
  /\ row[r].amount = None
  /\ ~ row[r].unresolved

Selected(from) == {r \in Rows : Open(r) /\ (from = None \/ row[r].created >= from)}

(* One transaction reads the rows, their draws and their tickets.          *)
BeginRefill(p, from) ==
  /\ stage[p] = "idle"
  /\ stage' = [stage EXCEPT ![p] = "rows"]
  /\ cutoff' = [cutoff EXCEPT ![p] = from]
  /\ batch' = [batch EXCEPT ![p] = Selected(from)]
  /\ read' = [read EXCEPT ![p] =
                [r \in Rows |-> IF r \in Selected(from)
                                THEN [tier |-> row[r].tier, ticket |-> ticket[r]]
                                ELSE Unread[r]]]
  /\ UNCHANGED <<now, draw, ticket, due, row, ghostVars, boundVars>>

StartRefill == BeginRefill("server", now - MaxAge) /\ UNCHANGED cliVars

ForceRefill ==
  /\ cli = "redo" /\ \A r \in Rows : redo[r] = "no"
  /\ cli' = "refill"
  /\ BeginRefill("cli", None)
  /\ UNCHANGED <<redo, kept>>

(* The announced amount for the tier and ticket that the job has read.     *)
Prize(r, tier, t) ==
  ((Official[r][tier] * (IF t.append THEN AppendTenths(Code[r], tier) ELSE 10)) \div 10)
    * t.multiplier

(* The job's question is about the tier that the row has by now.           *)
UpToDate(p, r) == row[r].tier = read[p][r].tier

(* Amount, and permanent failure, are written to the row as it is by now.  *)
Announced(p, r) ==
  /\ row' = [row EXCEPT ![r].amount = Prize(r, read[p][r].tier, read[p][r].ticket)]
  /\ IF UpToDate(p, r)
     THEN filled' = filled \cup {r} /\ crossed' = crossed \ {r}
     ELSE crossed' = crossed \cup {r} /\ filled' = filled \ {r}
  /\ UNCHANGED <<refused, mistaken>>

NotYet == UNCHANGED <<row, crossed, filled, refused, mistaken>>

PermanentError(p, r) ==
  /\ row' = [row EXCEPT ![r].unresolved = TRUE]
  /\ IF UpToDate(p, r)
     THEN refused' = refused \cup {r} /\ UNCHANGED mistaken
     ELSE mistaken' = mistaken \cup {r} /\ UNCHANGED refused
  /\ UNCHANGED <<crossed, filled>>

(* Only a question about the verdict that the row has asks for it.         *)
AskFor(p, r) == asked' = IF UpToDate(p, r) THEN asked \cup {r} ELSE asked

(* One row is asked for at its lottery's source and dealt with.            *)
Ask(p, r) ==
  /\ stage[p] = "rows"
  /\ r \in batch[p]
  /\ \E outcome \in Outcomes(Code[r]) :
       \/ outcome = "amount" /\ Announced(p, r)
       \/ outcome \in {"notYet", "transient"} /\ NotYet
       \/ outcome = "permanent" /\ PermanentError(p, r)
  /\ batch' = [batch EXCEPT ![p] = @ \ {r}]
  /\ AskFor(p, r)
  /\ UNCHANGED <<now, draw, ticket, due, stage, read, cutoff, cliVars, held, boundVars>>

(* A row's write fails: the exception leaves the loop, the rest of the     *)
(* batch is dropped, and the marking of expired rows follows.              *)
WriteFails(p, r) ==
  /\ stage[p] = "rows"
  /\ r \in batch[p]
  /\ batch' = [batch EXCEPT ![p] = {}]
  /\ AskFor(p, r)
  /\ UNCHANGED <<now, draw, ticket, due, row, stage, read, cutoff, cliVars, crossed, filled,
                 held, refused, mistaken, boundVars>>

Forget(p) ==
  /\ stage' = [stage EXCEPT ![p] = "idle"]
  /\ read' = [read EXCEPT ![p] = Unread]
  /\ cutoff' = [cutoff EXCEPT ![p] = None]

(* mutant: only rows the job itself selects are looked at                  *)
ExpiredSelected(p) ==
  {r \in Selected(cutoff[p]) : cutoff[p] # None /\ row[r].created < cutoff[p]}

(* mutant: the day on which a row is still selected counts as too late     *)
ExpiredOnTheDay(p) ==
  {r \in Rows : Open(r) /\ cutoff[p] # None /\ row[r].created <= cutoff[p]}

Expired(p) ==
  {r \in Rows : Open(r) /\ cutoff[p] # None /\ row[r].created < cutoff[p]}

(* _mark_expired_unresolved, in the finally of the job; its own failure is *)
(* only logged.                                                            *)
MarkExpired(p, success) ==
  /\ stage[p] = "rows" /\ batch[p] = {}
  /\ row' = IF success
            THEN [r \in Rows |-> IF r \in Expired(p) THEN [row[r] EXCEPT !.unresolved = TRUE]
                                 ELSE row[r]]
            ELSE row
  /\ Forget(p)
  /\ cli' = IF p = "cli" THEN "idle" ELSE cli
  /\ UNCHANGED <<now, draw, ticket, due, batch, redo, kept, ghostVars,
                 boundVars>>

-----------------------------------------------------------------------------
(* recompare_all, in a process of its own.                                 *)

StartRecompare ==
  /\ cli = "idle"
  /\ changes < MaxChanges /\ changes' = changes + 1
  /\ cli' = "redo"
  /\ redo' = [r \in Rows |-> "todo"]
  /\ UNCHANGED <<now, draw, ticket, due, row, refillVars, kept, ghostVars, crashes>>

(* _RECLASSIFIED_FLOAT_TIERS                                               *)
Reclassified(r) == IF Code[r] = "qlc" THEN {3} ELSE {}

(* mutant: only the first tier is worth keeping                            *)
PreservedFirst(r) ==
  row[r].tier = 1 /\ row[r].amount # None

(* _snapshot_refilled_float_amounts                                        *)
Preserved(r) ==
  /\ IsFloat(Code[r], row[r].tier, DrawDate[r])
  /\ row[r].tier \notin Reclassified(r)
  /\ row[r].amount # None

Snapshot(r) ==
  /\ cli = "redo"
  /\ redo[r] = "todo" /\ \A q \in Rows : redo[q] \in {"todo", "no"}
  /\ redo' = [redo EXCEPT ![r] = "compare"]
  /\ kept' = [kept EXCEPT ![r] =
                IF Preserved(r)
                THEN [tier |-> row[r].tier, amount |-> row[r].amount, bad |-> r \in crossed]
                ELSE Nothing]
  /\ held' = IF r \in filled THEN held \cup {r} ELSE held \ {r}
  /\ UNCHANGED <<now, draw, ticket, due, row, refillVars, cli, crossed, filled, answerVars,
                 boundVars>>

(* The draw is compared again as the server would (_compare_one).          *)
CompareAgain(r) ==
  /\ redo[r] = "compare"
  /\ redo' = [redo EXCEPT ![r] = "restore"]
  /\ row' = [row EXCEPT ![r] = Judged(r)]
  /\ crossed' = crossed \ {r} /\ held' = held \ {r}
  /\ AnswersLapse(r)
  /\ filled' = IF Verdict(r) = row[r].tier /\ r \in held /\ row[r].tier \notin Reclassified(r)
               THEN filled ELSE filled \ {r}
  /\ UNCHANGED <<now, draw, ticket, due, refillVars, cli, kept, boundVars>>

(* A comparison that raises leaves the draw as it was.                     *)
SkipDraw(r) ==
  /\ redo[r] = "compare"
  /\ redo' = [redo EXCEPT ![r] = "no"]
  /\ kept' = [kept EXCEPT ![r] = Nothing]
  /\ UNCHANGED <<now, draw, ticket, due, row, refillVars, cli, ghostVars, boundVars>>

(* The tier is the one put aside, and the amount is gone.                  *)
CanRestore(r) ==
  kept[r].tier # None /\ row[r].tier = kept[r].tier /\ row[r].amount = None

(* _restore_float_amounts                                                  *)
Restore(r) ==
  /\ redo[r] = "restore"
  /\ redo' = [redo EXCEPT ![r] = "no"]
  /\ row' = IF CanRestore(r) THEN [row EXCEPT ![r].amount = kept[r].amount] ELSE row
  /\ crossed' = IF CanRestore(r) /\ kept[r].bad THEN crossed \cup {r} ELSE crossed
  /\ kept' = [kept EXCEPT ![r] = Nothing]
  /\ UNCHANGED <<now, draw, ticket, due, refillVars, cli, filled, held, answerVars, boundVars>>

-----------------------------------------------------------------------------

(* A process dies; an amount the command was to restore is lost.           *)
Crash(p) ==
  /\ crashes < MaxCrashes /\ crashes' = crashes + 1
  /\ Forget(p)
  /\ batch' = [batch EXCEPT ![p] = {}]
  /\ IF p = "cli"
     THEN /\ cli' = "idle"
          /\ redo' = [r \in Rows |-> "no"]
          /\ kept' = [r \in Rows |-> Nothing]
          /\ filled' = {r \in filled : redo[r] # "restore"}
     ELSE UNCHANGED <<cliVars, filled>>
  /\ UNCHANGED <<now, draw, ticket, due, row, crossed, held, answerVars, changes>>

PassTime ==
  /\ now < MaxTime
  /\ now' = now + 1
  /\ UNCHANGED <<draw, ticket, due, row, refillVars, cliVars, ghostVars, boundVars>>

Next ==
  \/ PassTime
  \/ StartRefill \/ ForceRefill \/ StartRecompare
  \/ \E r \in Rows :
       \/ Compare(r)
       \/ \E d \in DrawNumbers[r] : Reopen(r, d)
       \/ \E t \in Tickets[r] : EditTicket(r, t)
       \/ \E p \in Processes : Ask(p, r) \/ WriteFails(p, r)
       \/ Snapshot(r) \/ CompareAgain(r) \/ SkipDraw(r) \/ Restore(r)
  \/ \E p \in Processes :
       \/ \E success \in BOOLEAN : MarkExpired(p, success)
       \/ Crash(p)

Spec == Init /\ [][Next]_vars

(* The refill job runs twice a day and gets through its rows; marking      *)
(* expired rows does not fail for ever.  Nothing is asked of the sources,  *)
(* of administrators or of the command.                                    *)
Fairness ==
  /\ WF_vars(PassTime)
  /\ WF_vars(StartRefill)
  /\ WF_vars(\E r \in Rows : Ask("server", r) \/ WriteFails("server", r))
  /\ WF_vars(\E success \in BOOLEAN : MarkExpired("server", success))
  /\ SF_vars(MarkExpired("server", TRUE))

FairSpec == Spec /\ Fairness

-----------------------------------------------------------------------------

(* An amount belongs to the verdict it stands beside: it is what the row's *)
(* tier pays for its ticket or an earlier version of it, whatever judged,  *)
(* refilled and restored the row in between; unless a refill wrote it that *)
(* had read another tier.                                                  *)
Worth(r, tier, t) ==
  IF tier = None THEN None
  ELSE IF IsFloat(Code[r], tier, DrawDate[r]) THEN Prize(r, tier, t)
  ELSE AmountOf(Code[r], tier, DrawDate[r]) * t.multiplier

AmountFitsTier ==
  \A r \in Rows :
    row[r].amount # None /\ r \notin crossed =>
      \E t \in Tickets[r] : row[r].amount = Worth(r, row[r].tier, t)

(* A win without an amount is one the refill job selects and a source can  *)
(* announce, under the rules of any day: no floating tier of a table is    *)
(* missing from _FLOAT_TIERS, and its lottery is routed to a source.       *)
EveryWaitIsSeen ==
  \A r \in Rows :
    row[r].tier # None /\ row[r].amount = None =>
      row[r].tier \in FloatTiers /\ "amount" \in Outcomes(Code[r])

(* A row is judged under rules that agree with themselves: see PrizeRules. *)
JudgedConsistently == \A r \in Rows : row[r] # NoRow => RulesAreConsistent

(* The recompare command keeps refilled amounts: one that fits the verdict *)
(* is missing only while the command is about to write it back.  (Judging  *)
(* by the server, a command that dies, a refill after the command has put  *)
(* the row aside, and qlc's third tier take a row out of "filled".)        *)
RefilledIsKept ==
  \A r \in filled : row[r].amount # None \/ redo[r] = "restore"

(* Who writes a row off has a final answer about the verdict it has, or    *)
(* its age is over; a row judged again may besides be written off by an    *)
(* answer about its earlier verdict, from a job that was still asking, and *)
(* nothing else writes one off: not the recompare command, which knows no  *)
(* age, nor a job that ends late or has lost its batch.                    *)
WrittenOffForAReason ==
  \A r \in Rows : row[r].unresolved =>
    \/ r \in refused
    \/ row[r].created + MaxAge < now
    \/ r \in mistaken /\ row[r].corrected

(* A wait ends: the amount comes, or the row is written off once its age   *)
(* is over, though the sources may fail for ever and writes may fail.      *)
EveryWaitEnds ==
  \A r \in Rows :
    (Open(r) /\ row[r].created + MaxAge < MaxTime) ~> ~ Open(r)

(* "A row judged again must go back into the refill" (_upsert_comparison): *)
(* no such row is written off for its age before it was asked for.         *)
JudgedAgainIsAsked ==
  \A r \in Rows :
    row[r].corrected /\ row[r].unresolved /\ r \notin mistaken => r \in asked
=============================================================================
