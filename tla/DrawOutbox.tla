----------------------------- MODULE DrawOutbox -----------------------------
(***************************************************************************)
(* The comparison pipeline of one lottery: a draw is stored together with  *)
(* an outbox row (FetchService._store), workers poll the outbox, claim a   *)
(* row, and compare the draw with every ticket (CompareService), writing   *)
(* comparisons, prize claims and draw costs.  Corrections, force-verify,   *)
(* the cold-start history backfill, ticket edits, the claim ledger and the *)
(* recompare command act on the same tables.                               *)
(*                                                                         *)
(* One day carries one issue: issue i is drawn on the evening of day i.    *)
(* KeyOf[i] is the normalised draw number the row is stored under.         *)
(*                                                                         *)
(* The server process owns ONE database connection (pool_size=1,           *)
(* max_overflow=0), held from the first statement of a Session to its end, *)
(* so nothing else of the server runs while a worker is "comparing".  A    *)
(* command (recompare, smoke, backfill-history) is another OS process with *)
(* a connection of its own.                                                *)
(* The sqlite3 driver opens no transaction for SELECT or SAVEPOINT, so     *)
(* RELEASE of a ticket's savepoint commits that ticket; after a savepoint  *)
(* was rolled back a transaction stays open until the final commit.  Any   *)
(* exception of a ticket, a failed write included, skips that ticket alone.*)
(***************************************************************************)
EXTENDS Naturals, FiniteSets

CONSTANTS
  MaxDay,          \* number of issues (days) explored
  Keys,            \* draw_results keys: normalised draw numbers
  KeyOf,           \* KeyOf[i] \in Keys for every issue i
  Numbers,         \* results a draw can have; a pick wins on exactly one
  NoNum,           \* "no result", not a member of Numbers
  Tickets, Users,
  Owner,           \* Owner[t] \in Users
  BadTickets,      \* tickets whose stored numbers do not parse
  ServerWorkers,   \* threads of the server that run process_pending
  CliWorkers,      \* processes that run the recompare or smoke command
  MaxVer,          \* bound on a row's version (corrections)
  MaxOutbox,       \* bound on outbox rows ever written
  MaxEdits,        \* bound on ticket edits
  MaxFaults,       \* bound on crashes, failed comparisons, failed tickets
  MaxHistory,      \* bound on history backfills
  MaxExtras        \* bound on edits, faults and history backfills together

Issues  == 1 .. MaxDay
Workers == ServerWorkers \cup CliWorkers

ASSUME ConstantsAssumption ==
  /\ MaxDay \in Nat \ {0}
  /\ KeyOf \in [Issues -> Keys]
  /\ NoNum \notin Numbers
  /\ Owner \in [Tickets -> Users]
  /\ BadTickets \subseteq Tickets
  /\ ServerWorkers \cap CliWorkers = {}
  /\ MaxVer \in Nat /\ MaxOutbox \in Nat /\ MaxEdits \in Nat
  /\ MaxFaults \in Nat /\ MaxHistory \in Nat /\ MaxExtras \in Nat

VARIABLES
  day,        \* the current day
  rows,       \* draw_results, by key
  outbox,     \* pending_comparisons with processed_at IS NULL
  nextId,     \* next pending_comparisons.id
  tickets,    \* tickets
  comp,       \* comparisons, by (key, ticket)
  claim,      \* prize_claims status of that comparison
  cost,       \* draw_costs: tickets summed in the row of (key, user)
  outrun,     \* history: draws with a result written from a replaced version
  skipped,    \* history: (key, ticket) whose last comparison failed
  pc, batch, job, seen, todo, inTx,   \* the workers
  cold,       \* a history backfill found the lottery empty, and is fetching
  cmpVer,     \* history: newest version a finished comparison read
  abandoned,  \* history: claimed draws whose comparison died
  torn,       \* history: draws a comparison died on part-way, no cost since
  silent,     \* history: rows no outbox row was ever written for
  reported,   \* history: issues fetch_and_store reported as stored
  faults, edits, histories

drawVars   == <<rows, outbox, nextId, cold>>
resultVars == <<comp, claim, cost, outrun, skipped>>
workerVars == <<pc, batch, job, seen, todo, inTx>>
ghostVars  == <<cmpVer, abandoned, torn, silent, reported>>
boundVars  == <<faults, edits, histories>>
vars == <<day, drawVars, tickets, resultVars, workerVars, ghostVars, boundVars>>

-----------------------------------------------------------------------------

NoRow == [issue |-> 0, num |-> NoNum, ver |-> 0, single |-> FALSE]
Row   == [issue : Issues, num : Numbers, ver : Nat \ {0}, single : BOOLEAN]

NoCmp == [num |-> NoNum, pick |-> NoNum]
Cmp   == [num : Numbers, pick : Numbers]

(* prize_tier / is_win of a comparison: the pick hits the drawn result.     *)
IsWin(c) == c # NoCmp /\ c.num = c.pick

ClaimStatus == {"none", "pending", "claimed", "expired"}

(* What a comparison has read of its draw.                                 *)
Unread == [num |-> NoNum, ver |-> 0]

(* edited is history: the numbers or the flag changed, or the row went.    *)
NoTicket == [st |-> "none", pick |-> NoNum, born |-> 0, edited |-> FALSE]
Ticket   == [st : {"on", "off", "gone"}, pick : Numbers, born : Issues, edited : BOOLEAN]

(* An outbox row; the recompare command works on draws without one (id 0). *)
OutboxRow == [id : Nat \ {0}, key : Keys]
Job       == [id : Nat, key : Keys]
NoJob     == [id |-> 0, key |-> NoNum]

TypeOK ==
  /\ day \in Issues
  /\ rows \in [Keys -> Row \cup {NoRow}]
  /\ outbox \in SUBSET OutboxRow
  /\ nextId \in Nat \ {0}
  /\ tickets \in [Tickets -> Ticket \cup {NoTicket}]
  /\ comp \in [Keys \X Tickets -> Cmp \cup {NoCmp}]
  /\ claim \in [Keys \X Tickets -> ClaimStatus]
  /\ cost \in [Keys \X Users -> SUBSET Tickets]
  /\ outrun \in SUBSET Keys
  /\ skipped \in SUBSET (Keys \X Tickets)
  /\ pc \in [Workers -> {"idle", "polling", "claimed", "comparing"}]
  /\ batch \in [Workers -> SUBSET Job]
  /\ job \in [Workers -> Job \cup {NoJob}]
  /\ seen \in [Workers -> [num : Numbers \cup {NoNum}, ver : Nat]]
  /\ todo \in [Workers -> SUBSET (Tickets \X Numbers)]
  /\ inTx \in [Workers -> BOOLEAN]
  /\ cold \in BOOLEAN
  /\ cmpVer \in [Keys -> Nat]
  /\ abandoned \in SUBSET Keys
  /\ torn \in SUBSET Keys
  /\ silent \in SUBSET Keys
  /\ reported \in SUBSET Issues
  /\ faults \in Nat /\ edits \in Nat /\ histories \in Nat

Init ==
  /\ day = 1
  /\ rows = [k \in Keys |-> NoRow]
  /\ outbox = {}
  /\ nextId = 1
  /\ tickets = [t \in Tickets |-> NoTicket]
  /\ comp = [x \in Keys \X Tickets |-> NoCmp]
  /\ claim = [x \in Keys \X Tickets |-> "none"]
  /\ cost = [x \in Keys \X Users |-> {}]
  /\ outrun = {}
  /\ skipped = {}
  /\ pc = [w \in Workers |-> "idle"]
  /\ batch = [w \in Workers |-> {}]
  /\ job = [w \in Workers |-> NoJob]
  /\ seen = [w \in Workers |-> Unread]
  /\ todo = [w \in Workers |-> {}]
  /\ inTx = [w \in Workers |-> FALSE]
  /\ cold = FALSE
  /\ cmpVer = [k \in Keys |-> 0]
  /\ abandoned = {}
  /\ torn = {}
  /\ silent = {}
  /\ reported = {}
  /\ faults = 0 /\ edits = 0 /\ histories = 0

-----------------------------------------------------------------------------

(* The server's only connection is free: no server session is comparing.   *)
ServerFreeAlways == TRUE            \* mutant: a connection for everyone
ServerFree == \A v \in ServerWorkers : pc[v] # "comparing"

ConnectionFree(w) == w \in ServerWorkers => ServerFree

(* The bound on the steps that are counted.                                *)
Room == faults + edits + histories < MaxExtras

(* Some process can open a session: the server, or a command.              *)
AnyProcess == ServerFree \/ CliWorkers # {}

Pending(k) == \E r \in outbox : r.key = k

(* mutant: a draw that is already stored gets no further outbox row        *)
EnqueueNewOnly(k) ==
  /\ nextId <= MaxOutbox
  /\ outbox' = IF rows[k] = NoRow THEN outbox \cup {[id |-> nextId, key |-> k]} ELSE outbox
  /\ nextId' = nextId + 1
  /\ silent' = silent \ {k}

(* Write one outbox row for k in the current transaction.                  *)
Enqueue(k) ==
  /\ nextId <= MaxOutbox
  /\ outbox' = outbox \cup {[id |-> nextId, key |-> k]}
  /\ nextId' = nextId + 1
  /\ silent' = silent \ {k}

NextDay ==
  /\ day < MaxDay
  /\ day' = day + 1
  /\ UNCHANGED <<drawVars, tickets, resultVars, workerVars, ghostVars, boundVars>>

(* A draw row as it is inserted.                                           *)
NewRowUnversioned(i, n, single) ==      \* mutant: the version column is not set
  [issue |-> i, num |-> n, ver |-> 0, single |-> single]
NewRow(i, n, single) == [issue |-> i, num |-> n, ver |-> 1, single |-> single]

(* FetchService._store, new row: DrawResult and outbox row in one commit.  *)
StoreNewDraw(i, n, single) ==
  /\ AnyProcess
  /\ i <= day
  /\ rows[KeyOf[i]] = NoRow
  /\ rows' = [rows EXCEPT ![KeyOf[i]] = NewRow(i, n, single)]
  /\ Enqueue(KeyOf[i])
  /\ reported' = reported \cup {i}
  /\ UNCHANGED <<day, cold, tickets, resultVars, workerVars, cmpVer, abandoned,
                 torn, boundVars>>

(* mutant: another result than the stored one is adopted on the spot       *)
UpgradeDrawAdopts(i, confirms) ==
  /\ AnyProcess
  /\ i <= day
  /\ rows[KeyOf[i]] # NoRow /\ rows[KeyOf[i]].ver < MaxVer
  /\ \E n \in Numbers :
       rows' = [rows EXCEPT ![KeyOf[i]].num = n, ![KeyOf[i]].ver = @ + 1]
  /\ reported' = reported \cup {i}
  /\ UNCHANGED <<day, outbox, nextId, cold, tickets, resultVars, workerVars,
                 cmpVer, abandoned, torn, silent, boundVars>>

(* FetchService._store on a key that exists, and _upgrade_existing: only   *)
(* an equal result of two sources (confirms) takes the single-source flag  *)
(* off, nothing else changes, no outbox row is written, and the caller is  *)
(* told stored=True.                                                       *)
UpgradeDraw(i, confirms) ==
  /\ AnyProcess
  /\ i <= day
  /\ rows[KeyOf[i]] # NoRow
  /\ rows' = [rows EXCEPT ![KeyOf[i]].single = @ /\ ~ confirms]
  /\ reported' = reported \cup {i}
  /\ UNCHANGED <<day, outbox, nextId, cold, tickets, resultVars, workerVars,
                 cmpVer, abandoned, torn, silent, boundVars>>

(* _has_any_draw_for_lottery: the history is fetched only while the lottery*)
(* has no draw at all; the check has a session of its own.                 *)
CheckHistory ==
  /\ AnyProcess
  /\ histories < MaxHistory /\ Room /\ ~ cold
  /\ \A k \in Keys : rows[k] = NoRow
  /\ cold' = TRUE
  /\ histories' = histories + 1
  /\ UNCHANGED <<day, rows, outbox, nextId, tickets, resultVars, workerVars,
                 ghostVars, faults, edits>>

(* The history goes on to be stored at the start that found nothing, ...    *)
StartBackfill ==
  /\ cold
  /\ cold' = FALSE
  /\ UNCHANGED histories

(* ... or by the backfill-history command, which does not look first.      *)
CommandBackfill ==
  /\ CliWorkers # {}
  /\ histories < MaxHistory /\ Room
  /\ histories' = histories + 1
  /\ UNCHANGED cold

(* _store_history_draws: the fetched issues I whose key is not in use by   *)
(* now are stored as verified, without an outbox row.                      *)
BackfillHistory(I) ==
  /\ AnyProcess
  /\ StartBackfill \/ CommandBackfill
  /\ \A i \in I : i <= day
  /\ \A i, j \in I : KeyOf[i] = KeyOf[j] => i = j
  /\ \E f \in [I -> Numbers] :
       rows' = [k \in Keys |->
                  IF rows[k] = NoRow /\ \E i \in I : KeyOf[i] = k
                  THEN LET i == CHOOSE i \in I : KeyOf[i] = k
                       IN  NewRow(i, f[i], TRUE)
                  ELSE rows[k]]
  /\ silent' = silent \cup {k \in Keys : rows[k] = NoRow /\ \E i \in I : KeyOf[i] = k}
  /\ UNCHANGED <<day, outbox, nextId, tickets, resultVars, workerVars,
                 cmpVer, abandoned, torn, reported, faults, edits>>

(* DrawCorrectService.correct: new result, version+1, new outbox row.      *)
Correct(k, n) ==
  /\ ServerFree
  /\ rows[k] # NoRow
  /\ rows[k].ver < MaxVer
  /\ rows' = [rows EXCEPT ![k].num = n, ![k].ver = @ + 1]
  /\ Enqueue(k)
  /\ UNCHANGED <<day, cold, tickets, resultVars, workerVars, cmpVer, abandoned,
                 torn, reported, boundVars>>

(* force_verify: a draw without an unprocessed outbox row gets one (every  *)
(* stored row is verified already, so nothing else of the row changes).    *)
ForceVerify(k) ==
  /\ ServerFree
  /\ rows[k] # NoRow
  /\ ~ Pending(k)
  /\ Enqueue(k)
  /\ UNCHANGED <<day, rows, cold, tickets, resultVars, workerVars, cmpVer, abandoned,
                 torn, reported, boundVars>>

-----------------------------------------------------------------------------
(* Tickets (TicketRepo) and the claim ledger.                              *)

CreateTicket(t, n) ==
  /\ ServerFree
  /\ tickets[t] = NoTicket
  /\ tickets' = [tickets EXCEPT ![t] =
                   [st |-> "on", pick |-> n, born |-> day, edited |-> FALSE]]
  /\ UNCHANGED <<day, drawVars, resultVars, workerVars, ghostVars, boundVars>>

(* PATCH: the numbers or the enabled flag change, created_at does not.     *)
UpdateTicket(t, n, st) ==
  /\ ServerFree
  /\ edits < MaxEdits /\ Room
  /\ tickets[t] # NoTicket /\ tickets[t].st # "gone"
  /\ tickets' = [tickets EXCEPT ![t].pick = n, ![t].st = st,
                               ![t].edited = TRUE]
  /\ edits' = edits + 1
  /\ UNCHANGED <<day, drawVars, resultVars, workerVars, ghostVars, faults, histories>>

(* DELETE: the row goes; its comparisons stay (no cascade).                *)
DeleteTicket(t) ==
  /\ ServerFree
  /\ edits < MaxEdits /\ Room
  /\ tickets[t] # NoTicket /\ tickets[t].st # "gone"
  /\ tickets' = [tickets EXCEPT ![t].st = "gone", ![t].edited = TRUE]
  /\ edits' = edits + 1
  /\ UNCHANGED <<day, drawVars, resultVars, workerVars, ghostVars, faults, histories>>

(* mark_claimed: only a pending claim.                                     *)
MarkClaimed(x) ==
  /\ ServerFree
  /\ claim[x] = "pending"
  /\ claim' = [claim EXCEPT ![x] = "claimed"]
  /\ UNCHANGED <<day, drawVars, tickets, comp, cost, outrun, skipped, workerVars,
                 ghostVars, boundVars>>

(* _expire_claims: the pending claims S whose deadline has passed.         *)
ExpireClaims(S) ==
  /\ ServerFree
  /\ S # {} /\ \A x \in S : claim[x] = "pending"
  /\ claim' = [x \in Keys \X Tickets |-> IF x \in S THEN "expired" ELSE claim[x]]
  /\ UNCHANGED <<day, drawVars, tickets, comp, cost, outrun, skipped, workerVars,
                 ghostVars, boundVars>>

-----------------------------------------------------------------------------
(* CompareService.                                                         *)

(* process_pending: snapshot the unprocessed rows.                         *)
Poll(w) ==
  /\ ConnectionFree(w)
  /\ pc[w] = "idle"
  /\ outbox # {}
  /\ pc' = [pc EXCEPT ![w] = "polling"]
  /\ batch' = [batch EXCEPT ![w] = outbox]
  /\ UNCHANGED <<day, drawVars, tickets, resultVars, job, seen, todo, inTx,
                 ghostVars, boundVars>>

(* recompare_all: snapshot the stored draws.                               *)
StartRecompare(w) ==
  /\ w \in CliWorkers
  /\ pc[w] = "idle"
  /\ \E k \in Keys : rows[k] # NoRow
  /\ pc' = [pc EXCEPT ![w] = "polling"]
  /\ batch' = [batch EXCEPT ![w] = [id : {0}, key : {k \in Keys : rows[k] # NoRow}]]
  /\ UNCHANGED <<day, drawVars, tickets, resultVars, job, seen, todo, inTx,
                 ghostVars, boundVars>>

(* mutant: the loop is not left after the last row                         *)
AfterJobStuck(rest) == "polling"

(* Leave the loop, or go on with the rest of the snapshot.                 *)
AfterJob(rest) == IF rest = {} THEN "idle" ELSE "polling"

(* mutant: the UPDATE lacks "AND processed_at IS NULL"                     *)
ClaimRowAgain(w, r) ==
  /\ ConnectionFree(w)
  /\ pc[w] = "polling" /\ r \in batch[w]
  /\ r.id # 0
  /\ batch' = [batch EXCEPT ![w] = @ \ {r}]
  /\ outbox' = outbox \ {r}
  /\ pc' = [pc EXCEPT ![w] = "claimed"]
  /\ job' = [job EXCEPT ![w] = r]
  /\ UNCHANGED <<day, rows, nextId, cold, tickets, resultVars, seen, todo, inTx,
                 ghostVars, boundVars>>

(* _claim: UPDATE ... WHERE processed_at IS NULL RETURNING, own commit.    *)
ClaimRow(w, r) ==
  /\ ConnectionFree(w)
  /\ pc[w] = "polling" /\ r \in batch[w]
  /\ batch' = [batch EXCEPT ![w] = @ \ {r}]
  /\ r \in outbox
  /\ outbox' = outbox \ {r}
  /\ pc' = [pc EXCEPT ![w] = "claimed"]
  /\ job' = [job EXCEPT ![w] = r]
  /\ UNCHANGED <<day, rows, nextId, cold, tickets, resultVars, seen, todo, inTx,
                 ghostVars, boundVars>>

(* _claim returned False: another worker has the row.                      *)
SkipClaimed(w, r) ==
  /\ ConnectionFree(w)
  /\ pc[w] = "polling" /\ r \in batch[w]
  /\ r.id # 0 /\ r \notin outbox
  /\ batch' = [batch EXCEPT ![w] = @ \ {r}]
  /\ pc' = [pc EXCEPT ![w] = AfterJob(batch[w] \ {r})]
  /\ UNCHANGED <<day, drawVars, tickets, resultVars, job, seen, todo, inTx,
                 ghostVars, boundVars>>

(* recompare_all takes the next draw; it claims nothing.                   *)
TakeDraw(w, r) ==
  /\ pc[w] = "polling" /\ r \in batch[w]
  /\ r.id = 0
  /\ batch' = [batch EXCEPT ![w] = @ \ {r}]
  /\ pc' = [pc EXCEPT ![w] = "claimed"]
  /\ job' = [job EXCEPT ![w] = r]
  /\ UNCHANGED <<day, drawVars, tickets, resultVars, seen, todo, inTx,
                 ghostVars, boundVars>>

(* _select_active_tickets: enabled, and created by the end of the draw day *)
Selected(k) ==
  {t \in Tickets : tickets[t].st = "on" /\ tickets[t].born <= rows[k].issue}

(* _compare_one opens its session and reads the draw and the tickets.      *)
BeginCompare(w) ==
  /\ ConnectionFree(w)
  /\ pc[w] = "claimed"
  /\ LET k == job[w].key IN
       /\ seen' = [seen EXCEPT ![w] = [num |-> rows[k].num, ver |-> rows[k].ver]]
       /\ todo' = [todo EXCEPT ![w] = {<<t, tickets[t].pick>> : t \in Selected(k)}]
  /\ pc' = [pc EXCEPT ![w] = "comparing"]
  /\ inTx' = [inTx EXCEPT ![w] = FALSE]
  /\ UNCHANGED <<day, drawVars, tickets, resultVars, batch, job, ghostVars, boundVars>>

(* mutants: a lost win keeps its claim; every win opens its claim anew     *)
SyncClaimKeep(old, c, status) ==
  IF ~ IsWin(old) /\ IsWin(c) THEN "pending" ELSE status
SyncClaimReopen(old, c, status) ==
  IF IsWin(old) /\ ~ IsWin(c) THEN "none"
  ELSE IF old # c /\ IsWin(c) THEN "pending"
  ELSE status

(* _sync_claim and _create_claim: the claim of a comparison that becomes c.*)
SyncClaim(old, c, status) ==
  IF IsWin(old) /\ ~ IsWin(c) THEN "none"
  ELSE IF ~ IsWin(old) /\ IsWin(c) THEN "pending"
  ELSE status

(* The draw of w, if w writes the tickets in P from a replaced version.    *)
Outruns(w, P) ==
  {k \in {job[w].key} : P # {} /\ seen[w].ver # rows[k].ver}

(* mutant: a comparison that exists is left as it is                       *)
UpsertInsertOnly(w, P) ==
  LET k      == job[w].key
      Of(x)  == {p \in P : x = <<k, p[1]>> /\ comp[x] = NoCmp}
      New(x) == IF Of(x) = {} THEN comp[x]
                ELSE [num  |-> seen[w].num, pick |-> (CHOOSE p \in Of(x) : TRUE)[2]]
  IN  /\ comp' = [x \in Keys \X Tickets |-> New(x)]
      /\ claim' = [x \in Keys \X Tickets |-> SyncClaim(comp[x], New(x), claim[x])]
      /\ outrun' = outrun \cup Outruns(w, P)
      /\ skipped' = skipped \ {<<k, p[1]>> : p \in P}

(* _upsert_comparison for the tickets in P: rewrite the row of the ticket, *)
(* or insert it, and bring its claim in line.                              *)
Upsert(w, P) ==
  LET k      == job[w].key
      Of(x)  == {p \in P : x = <<k, p[1]>>}
      New(x) == IF Of(x) = {} THEN comp[x]
                ELSE [num  |-> seen[w].num, pick |-> (CHOOSE p \in Of(x) : TRUE)[2]]
  IN  /\ comp' = [x \in Keys \X Tickets |-> New(x)]
      /\ claim' = [x \in Keys \X Tickets |-> SyncClaim(comp[x], New(x), claim[x])]
      /\ outrun' = outrun \cup Outruns(w, P)
      /\ skipped' = skipped \ {<<k, p[1]>> : p \in P}

(* One ticket inside its savepoint, committed by its release.              *)
CompareTicket(w, p) ==
  /\ pc[w] = "comparing" /\ ~ inTx[w]
  /\ p \in todo[w] /\ p[1] \notin BadTickets
  /\ Upsert(w, {p})
  /\ todo' = [todo EXCEPT ![w] = @ \ {p}]
  /\ UNCHANGED <<day, drawVars, tickets, cost, pc, batch, job, seen, inTx,
                 ghostVars, boundVars>>

(* mutant: a ticket's exception leaves the loop over the tickets           *)
SkipTicketAndRest(w, p) ==
  /\ pc[w] = "comparing" /\ p \in todo[w]
  /\ todo' = [todo EXCEPT ![w] = {}]
  /\ inTx' = [inTx EXCEPT ![w] = TRUE]
  /\ UNCHANGED <<day, drawVars, tickets, comp, claim, cost, outrun, pc, batch, job,
                 seen, ghostVars, edits, histories>>

(* The except branch of the loop: the ticket's savepoint is rolled back,   *)
(* the ticket is logged and skipped, and the next one is compared.         *)
SkipTicket(w, p) ==
  /\ pc[w] = "comparing" /\ p \in todo[w]
  /\ todo' = [todo EXCEPT ![w] = @ \ {p}]
  /\ inTx' = [inTx EXCEPT ![w] = TRUE]
  /\ UNCHANGED <<day, drawVars, tickets, comp, claim, cost, outrun, pc, batch, job,
                 seen, ghostVars, edits, histories>>

(* Numbers that do not parse raise every time.                             *)
SkipBadTicket(w, p) ==
  /\ p[1] \in BadTickets
  /\ SkipTicket(w, p)
  /\ UNCHANGED <<skipped, faults>>

(* A well-formed ticket raises when its writes fail: the other process has *)
(* the database locked or wrote in between, or the disk fails.             *)
TicketFails(w, p) ==
  /\ faults < MaxFaults /\ Room
  /\ p[1] \notin BadTickets
  /\ SkipTicket(w, p)
  /\ skipped' = skipped \cup {<<job[w].key, p[1]>>}
  /\ faults' = faults + 1

(* mutant: a cost row is updated but never inserted                        *)
UpsertCostsUpdateOnly(k) ==
  cost' = [x \in Keys \X Users |->
             LET on == {t \in Tickets : Owner[t] = x[2] /\ tickets[t].st = "on"}
             IN  IF x[1] = k /\ on # {} /\ cost[x] # {} THEN on ELSE cost[x]]

(* _upsert_draw_costs: every user with an enabled ticket gets the sum of   *)
(* the enabled tickets of the lottery.                                     *)
UpsertCosts(k) ==
  cost' = [x \in Keys \X Users |->
             LET on == {t \in Tickets : Owner[t] = x[2] /\ tickets[t].st = "on"}
             IN  IF x[1] = k /\ on # {} THEN on ELSE cost[x]]

(* The final commit of _compare_one: the costs, and the tickets after a    *)
(* rolled-back savepoint, which were still uncommitted.                    *)
FinishCompare(w) ==
  LET k == job[w].key IN
  /\ pc[w] = "comparing"
  /\ todo[w] = {} \/ inTx[w]
  /\ Upsert(w, {p \in todo[w] : p[1] \notin BadTickets})
  /\ UpsertCosts(k)
  /\ cmpVer' = [cmpVer EXCEPT ![k] = IF @ < seen[w].ver THEN seen[w].ver ELSE @]
  /\ abandoned' = IF seen[w].ver = rows[k].ver THEN abandoned \ {k} ELSE abandoned
  /\ torn' = torn \ {k}
  /\ pc' = [pc EXCEPT ![w] = AfterJob(batch[w])]
  /\ job' = [job EXCEPT ![w] = NoJob]
  /\ seen' = [seen EXCEPT ![w] = Unread]
  /\ todo' = [todo EXCEPT ![w] = {}]
  /\ inTx' = [inTx EXCEPT ![w] = FALSE]
  /\ UNCHANGED <<day, drawVars, tickets, batch, silent, reported, boundVars>>

-----------------------------------------------------------------------------
(* Failures.                                                               *)

(* The claimed draws the workers W were working on, ...                     *)
Held(W) == {job[w].key : w \in {v \in W : pc[v] \in {"claimed", "comparing"}
                                          /\ job[v].id # 0}}

(* ... and the draws whose tickets they were comparing.                     *)
Halfway(W) == {job[w].key : w \in {v \in W : pc[v] = "comparing"}}

(* A draw-level exception (pool timeout, database locked, broken row): it  *)
(* is logged and the loop goes on; the claim stays processed.              *)
AbortCompare(w) ==
  /\ faults < MaxFaults /\ Room
  /\ pc[w] \in {"claimed", "comparing"}
  /\ faults' = faults + 1
  /\ abandoned' = abandoned \cup Held({w})
  /\ torn' = torn \cup Halfway({w})
  /\ pc' = [pc EXCEPT ![w] = AfterJob(batch[w])]
  /\ job' = [job EXCEPT ![w] = NoJob]
  /\ seen' = [seen EXCEPT ![w] = Unread]
  /\ todo' = [todo EXCEPT ![w] = {}]
  /\ inTx' = [inTx EXCEPT ![w] = FALSE]
  /\ UNCHANGED <<day, drawVars, tickets, resultVars, batch, cmpVer,
                 silent, reported, edits, histories>>

(* A process dies: its workers lose what they held in memory.              *)
Crash(W) ==
  /\ faults < MaxFaults /\ Room
  /\ \E w \in W : pc[w] # "idle"
  /\ faults' = faults + 1
  /\ abandoned' = abandoned \cup Held(W)
  /\ torn' = torn \cup Halfway(W)
  /\ pc' = [w \in Workers |-> IF w \in W THEN "idle" ELSE pc[w]]
  /\ batch' = [w \in Workers |-> IF w \in W THEN {} ELSE batch[w]]
  /\ job' = [w \in Workers |-> IF w \in W THEN NoJob ELSE job[w]]
  /\ seen' = [w \in Workers |-> IF w \in W THEN Unread ELSE seen[w]]
  /\ todo' = [w \in Workers |-> IF w \in W THEN {} ELSE todo[w]]
  /\ inTx' = [w \in Workers |-> IF w \in W THEN FALSE ELSE inTx[w]]
  /\ UNCHANGED <<day, drawVars, tickets, resultVars, cmpVer, silent,
                 reported, edits, histories>>

-----------------------------------------------------------------------------

WorkerStep(w) ==
  \/ Poll(w)
  \/ StartRecompare(w)
  \/ \E r \in batch[w] : ClaimRow(w, r) \/ SkipClaimed(w, r) \/ TakeDraw(w, r)
  \/ BeginCompare(w)
  \/ \E p \in todo[w] : CompareTicket(w, p) \/ SkipBadTicket(w, p)
  \/ FinishCompare(w)

DrawStep ==
  \/ \E i \in Issues :
       \/ \E n \in Numbers, single \in BOOLEAN : StoreNewDraw(i, n, single)
       \/ \E confirms \in BOOLEAN : UpgradeDraw(i, confirms)
  \/ CheckHistory
  \/ \E I \in SUBSET Issues : BackfillHistory(I)
  \/ \E k \in Keys : ForceVerify(k) \/ \E n \in Numbers : Correct(k, n)

UserStep ==
  \/ \E t \in Tickets :
       \/ DeleteTicket(t)
       \/ \E n \in Numbers :
            \/ CreateTicket(t, n)
            \/ \E st \in {"on", "off"} : UpdateTicket(t, n, st)
  \/ \E x \in Keys \X Tickets : MarkClaimed(x)
  \/ \E S \in SUBSET {x \in Keys \X Tickets : claim[x] = "pending"} : ExpireClaims(S)

FaultStep ==
  \/ \E w \in Workers : AbortCompare(w) \/ \E p \in todo[w] : TicketFails(w, p)
  \/ Crash(ServerWorkers)
  \/ \E w \in CliWorkers : Crash({w})

Next ==
  \/ NextDay
  \/ DrawStep
  \/ UserStep
  \/ \E w \in Workers : WorkerStep(w)
  \/ FaultStep

Spec == Init /\ [][Next]_vars

(* The scheduler polls again and again (every 15 minutes of the evening,   *)
(* and at every start), and a running comparison goes on: the server's     *)
(* workers are weakly fair.  Users, sources, commands and faults are not.  *)
FairSpec == Spec /\ \A w \in ServerWorkers : WF_vars(WorkerStep(w))

-----------------------------------------------------------------------------
(* Properties.                                                             *)

(* w works on an outbox row of k it has claimed, and its comparison reads  *)
(* (or has read) the current version of the draw.                          *)
Working(w, k) ==
  /\ job[w].id # 0 /\ job[w].key = k
  /\ \/ pc[w] = "claimed"
     \/ pc[w] = "comparing" /\ seen[w].ver = rows[k].ver

(* Somebody has yet to compare the current version of draw k.              *)
Owed(k) == Pending(k) \/ \E w \in Workers : Working(w, k)

(* Every stored draw is compared in its current version or is about to be, *)
(* unless the claiming worker died on it or the row never got an outbox    *)
(* row: storing, correcting, claiming and comparing leave no other gap.    *)
NoLostDraw ==
  \A k \in Keys : rows[k] # NoRow =>
    Owed(k) \/ cmpVer[k] = rows[k].ver \/ k \in abandoned \/ k \in silent

(* The design doc's promise for the claim column: "compared once, and      *)
(* recoverable after a crash".  A claimed row stays claimed, so a draw     *)
(* whose worker died is owed by nobody.                                    *)
CrashRecoverable ==
  \A k \in Keys : rows[k] # NoRow /\ k \notin silent =>
    Owed(k) \/ cmpVer[k] = rows[k].ver

(* No two workers hold the same outbox row, and no held row can be claimed *)
(* again: the claim is exclusive and final.                                *)
ClaimedOnce ==
  \A w \in Workers : pc[w] \in {"claimed", "comparing"} /\ job[w].id # 0 =>
    /\ job[w] \notin outbox
    /\ \A v \in Workers \ {w} :
         pc[v] \in {"claimed", "comparing"} => job[v].id # job[w].id

(* The claim ledger agrees with the comparisons at every commit, through   *)
(* corrections, concurrent recompares and crashes: a claim exists exactly  *)
(* for the winning comparisons.                                            *)
ClaimIffWin ==
  \A x \in Keys \X Tickets : claim[x] # "none" <=> IsWin(comp[x])

(* The current version has been compared to the end, and no comparison has *)
(* written from a version that was replaced while it ran.                  *)
Settled(k) == rows[k] # NoRow /\ cmpVer[k] = rows[k].ver /\ k \notin outrun

(* A settled draw has a comparison for every well-formed ticket that took  *)
(* part and existed before the day of the draw, and whatever comparison it *)
(* has is that of its current result with the numbers of the ticket: for   *)
(* all tickets that were never edited and whose own last comparison did    *)
(* not fail (skipped), from the first compared version on, also while      *)
(* later comparisons run, die or are repeated.  What one ticket meets, in  *)
(* its numbers or its writes, costs no other ticket its result.            *)
SettledIsComplete ==
  \A k \in Keys : Settled(k) =>
    \A t \in Tickets : ~ tickets[t].edited /\ <<k, t>> \notin skipped =>
      /\ t \in Selected(k) \ BadTickets /\ tickets[t].born < rows[k].issue
           => comp[<<k, t>>] # NoCmp
      /\ comp[<<k, t>>] # NoCmp =>
           comp[<<k, t>>] = [num |-> rows[k].num, pick |-> tickets[t].pick]

(* What a server worker compares is the draw as it stands: a correction    *)
(* waits for the connection, so that only a command's comparison can go on *)
(* with a result that was replaced (outrun).                               *)
ServerReadsStand ==
  \A w \in ServerWorkers : pc[w] = "comparing" =>
    seen[w] = [num |-> rows[job[w].key].num, ver |-> rows[job[w].key].ver]

(* A result and its ticket's share of the draw's cost go together, through *)
(* edits of other tickets, commands and failures: between comparisons only *)
(* a draw whose comparison died part-way (torn) has results without costs, *)
(* until the next comparison books them.  (_compare_one's comment says one *)
(* commit for both: torn is what the savepoints' own commits leave of it.) *)
CostsWithResults ==
  \A k \in Keys :
    k \notin torn /\ (\A w \in Workers : pc[w] = "comparing" => job[w].key # k) =>
      \A t \in Tickets : comp[<<k, t>>] # NoCmp /\ ~ tickets[t].edited =>
        t \in cost[<<k, Owner[t]>>]

(* stored=True means that this issue is in the database.                   *)
StoredIsThisIssue == \A i \in reported : rows[KeyOf[i]].issue = i

(* A decided claim (claimed or expired) is never reopened; it goes only    *)
(* when a new comparison of its ticket stops winning.                      *)
DecidedClaimsStay ==
  [][\A x \in Keys \X Tickets : claim[x] \in {"claimed", "expired"} =>
       \/ claim'[x] = claim[x]
       \/ claim'[x] = "none" /\ IsWin(comp[x]) /\ ~ IsWin(comp'[x])]_vars

(* Every stored version of a draw is eventually compared or its comparison *)
(* dies: no row waits in the outbox for ever.                              *)
EveryDrawSettles ==
  \A k \in Keys :
    Pending(k) ~> rows[k].ver = cmpVer[k] \/ k \in abandoned

(* The tables and workers, seen as a ledger of owed comparisons.           *)
Stored   == {k \in Keys : rows[k] # NoRow}
Compared == {k \in Stored : cmpVer[k] = rows[k].ver}

Ledger == INSTANCE DrawLedger WITH
            stored <- Stored, owed <- {k \in Stored : Owed(k)},
            done <- Compared, lost <- abandoned, silent <- silent

(* Every step of the pipeline is a step of the ledger or invisible in it:  *)
(* a debt arises with the write that causes it and is never dropped, by    *)
(* whatever interleaving of workers, corrections, commands and faults.     *)
LedgerSpec == Ledger!Spec
=============================================================================
