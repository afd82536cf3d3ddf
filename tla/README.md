# TLA+ models of lottery-notification

`lottery-notification` is a self-hosted service for a few users who play
Chinese lotteries. It fetches the results of seven lotteries from two sources,
compares them with the users' tickets, tells the users of their prizes and
keeps the books (prize claims, costs, amounts). It is one FastAPI process with
APScheduler threads over one SQLite file, plus a command line that opens the
same file from a process of its own.

The promise that runs through its documents is "a win is never silently
missed". The modules here ask what the code makes of that promise: under which
interleavings, crashes, late answers and repeated runs it holds, and where it
does not. TLC checks the modules on small instances, TLAPS proves their main
safety properties for all values of the constants.

## The system

| Component | State it keeps | Operations | Modelled in |
|---|---|---|---|
| Which draws get stored (`main.py`, `scheduler/backfill.py`, the polls of `scheduler/jobs.py`, `cli.py backfill-history`) | `draw_results` (issue, date, outbox row or not), the phase of a start | start, history of an empty lottery, check for missed draws, fetch, poll, command | `DrawCoverage` |
| Fetching and cross-checking (`services/fetch_service.py`) | `draw_results.single_source`, the locals of a poll | ask two sources, grace period, ask again, store, confirm | `DrawFetch` |
| Source health (`services/source_health.py`) | `api_source_health`, the plan of an evaluation | record an outcome, snapshot, send, settle | `SourceHealth` |
| Comparison pipeline (`services/compare_service.py`, `correct_service.py`, `api/tickets.py`, `api/claims.py`, `api/admin.py`) | `draw_results`, `pending_comparisons`, `tickets`, `comparisons`, `prize_claims`, `draw_costs` | store with outbox row, claim, compare, correct, force-verify, recompare, edit tickets, mark and expire claims | `DrawOutbox`, abstractly `DrawLedger` |
| Prize rules (`domain/compare.py`, `prize.py`, `prize_tables.py`, `seeds/lottery_types.py`) | none | comparators, tables by date, prize of a tier | `PrizeRules` |
| Floating amounts (`services/refill_service.py`, recompare) | `comparisons.prize_amount`, `unresolved`, `created_at` | refill, expire, put aside, restore | `FloatRefill` |
| Result notifications (`notifications/notifier.py`, `services/win_catchup.py`, `scheduler/jobs.py`) | `notification_logs`, queued push jobs | instant push, 07:00 summary, catch-up sweep | `WinNotify` |
| Prize sources (`adapters/cwl_prize.py`, `sporttery_prize.py`, `main.py`) | none | look an amount up, fall back to the PDF, route by lottery | `PrizeSources` |
| Password reset (`services/password_reset_service.py`, `api/admin.py`, `cli.py`) | `password_reset_codes`, the password, the limiter's hits, the locals of a verification | request, mail, retire what was not sent, verify, reset by an administrator or a command | `PasswordReset` |
| Invitations and accounts (`services/invite_service.py`, `api/auth.py`, `api/admin_ext.py`, `cli.py`) | `users`, `invite_codes` | create an administrator, issue a code, register, refuse and count | `Invitations` |
| Weekly and monthly reports, Do Not Disturb (`scheduler/jobs.py`, `notifications/notifier.py`) | `notification_logs` | report a week or a month, defer | `Periods` (the days and times) |
| Read endpoints (`api/dashboard.py`) | none | sums by month and year | `Periods` (what is counted when) |
| Ticket entry (`domain/entry.py`, `spec.py`) | none | single bets only; fushi and dantuo entries raise `NotImplementedError` | judged bets, in `PrizeRules` |
| Channels, other endpoints, administration, configuration, migrations, web interface | | | not modelled: input and output, or single-row writes |

How they interact. A tick of path A (21:30 to 01:00, every 15 minutes)
polls all lotteries, then runs the comparison outbox, then queues a push for
the big wins of the calendar day. The 07:00 summary (path B) covers the
previous day, the 07:15 sweep what both left out; 08:00 and 22:00 fill in
floating amounts. A start runs outbox, history, missed draws, outbox and sweep
before the scheduler. Everything meets in the tables: the scheduler's jobs
overlap (each job id runs once at a time, different ids run together), requests
edit tickets meanwhile, and a command is a second process. The server has one
database connection (`pool_size=1`), so two server sessions never interleave
inside a transaction, but do between transactions; the command has its own.

What is hard here, and what the properties are for (the list with lines is in
`PROJECT.json` under `hazards`):

* work is handed over by rows (outbox row, log row, `unresolved`, `alerted`),
  each committed before or after the act it stands for, with a crash possible
  in between;
* three ways to a user know of each other only through times (`created_at`,
  07:00, calendar days) and one kind of log;
* a job reads a batch, asks the network, and writes by what it read;
* the same row is judged again by a correction, a ticket edit, an administrator
  or a command while any of that goes on;
* rules and keys have edges: tables change on a date, numbers lose their year,
  answers lack their date, weeks and months end while draws are being polled;
* a password can be set by a code that is still being checked when somebody else
  sets it.

## The modules

**`DrawOutbox`** is the core: one lottery's draws, its outbox, any number of server
workers and commands. Its tables are functions over keys and tickets; a worker
is `idle`, `polling` (it has read the unprocessed rows), `claimed` (its UPDATE
committed) or `comparing`. One action is one commit: a ticket's comparison is
committed by the release of its savepoint (`CompareTicket`), the costs by
`FinishCompare`. A ticket whose comparison raises is skipped and the others go on:
always if its numbers do not parse (`SkipBadTicket`), as a fault if its writes fail
(`TicketFails`). `ServerFree` is the single connection. `StoreNewDraw`,
`UpgradeDraw` are `FetchService._store`; `Correct` is `DrawCorrectService.correct`
(called by tests only, but documented as the way to correct a draw);
`CheckHistory`/`BackfillHistory` the history backfill, with its look at the
table and its write as separate steps, and the command that does not look;
`ForceVerify` the administrator's endpoint. `KeyOf` maps issues to stored draw
numbers, so that two issues can share one. History variables record what a
property needs and no action reads: `cmpVer` (newest compared version),
`abandoned` (claimed, then died), `silent` (stored without outbox row), `outrun`
(draws into which a result of an older version was written after a newer one was
compared), `skipped` (tickets whose last comparison with a draw failed), `torn`
(draws a comparison died on between their results and their costs), `reported`, and
of a ticket whether it was ever `edited`.

**`DrawLedger`** is its abstract specification: draws that are stored, owed,
done, lost or silent, with no workers. `DrawOutbox` implements it under the
mapping at its end (`Ledger`): "owed" is an unprocessed outbox row, or a worker
that holds the claim and reads the current version.

**`DrawCoverage`** is above that: which issues get a row at all. A clock in
thirds of a day (the hour after midnight, day, evening), the phases of a start
in the order of `run_startup_backfill`, polls, the command, late results and
answers without a date (stored under the day of the fetch).

**`SourceHealth`** is the health table with its alert machine; an evaluation is
three steps (read, send outside any session, settle). **`DrawFetch`** extends it
with the polls: the two answers, the records of their outcome, the decision,
the grace period and the second answer are separate steps, and polls overlap.

**`WinNotify`** has a win (a comparison) that is judged, judged again with an
open transaction, followed or not by its user, and pushed, summarised or swept;
the three ways are the functions of the source, one action per session or send.
A failed delivery has three outcomes: the administrator's alert arrives, it does not
(no administrator's Bark, or its own failure), or there was no channel to try. History
variables: `told`, `loud` (the alert of a failed delivery arrived), `unheard` (in a
summary that reached neither user nor administrator) and `excused` (the reasons,
listed where it is set, for which the code leaves a win out of the summary).

**`PrizeRules`** holds the comparators, tables and prizes as constant operators
translated from `domain/`; **`PrizeSources`** says what each kind of answer of a
prize source counts as (announced, not yet, transient, permanent), when the PDF
bulletin is asked, and which lottery goes to which source.
**`FloatRefill`** builds the life of an amount on the two:
compare, reopen (correction, force-verify), edit, the refill job (`BeginRefill`
reads, `Ask` looks up and writes row by row, `MarkExpired`), and the recompare
command (`Snapshot`, `CompareAgain`, `Restore` are separate commits). An answer is
about the tier the job has read: if the row was judged again meanwhile, it counts
neither as asking for the new tier (`asked`) nor as a reason (`refused`), and what it
writes is remembered as a mistake (`crossed` for an amount, `mistaken` for a write-off).

**`Invitations`** is accounts and the codes they are made with. A registration is one
transaction; one that is refused is rolled back (`Refuse`) and counted in a
second (`CountRefused`), with anything in between. **`PasswordReset`** extends it:
time runs in minutes (the limiter's window and the resend interval), a code is
stored (`Request`), mailed outside the transaction (`SendEnds`) and retired by its
id if the mail failed (`Clear`, `ClearFails`). A verification is two steps, before
and after its hashing (`ReadCode`, then `GuessWrong` or `GuessRight`), and holds the
server's connection between them; the command's process does not need it.
`wrong`, `barred` and `overtaken` are history variables.

**`Periods`** is arithmetic laid over `WinNotify`'s clock, whose first day may be any
day of two years: quiet hours and `_defer_summary`, the days a weekly or monthly
report covers, and the dashboard's months, where prizes are dated in UTC and costs
in local time.

`MC*.tla` give constants their values; `*_proofs.tla` and
`DrawOutbox_refinement.tla` hold the theorems. Definitions marked `mutant:` in a
comment are plausible faults of the code kept beside the definition they would
replace; no specification uses them, they show that a property can fail.

## What the runs check

| Run | Instance | Shows |
|---|---|---|
| `outbox_faults` | one draw, one ticket, one server worker, one command, two results; of a crash, a failed comparison or a failed write, an edit and a history load any two | types; `NoLostDraw`, `ClaimedOnce`, `ClaimIffWin`, `DecidedClaimsStay`, `SettledIsComplete`, `ServerReadsStand`, `CostsWithResults`; refinement of the ledger |
| `outbox_live` | two draws, two server workers, a well-formed and a malformed ticket, one fault | `SettledIsComplete` where one ticket may harm another; every outbox row is settled in the end |
| `outbox_crash` (violated) | as above with a fault | `CrashRecoverable` fails |
| `outbox_year` (violated) | two issues, one key | `StoredIsThisIssue` fails |
| `coverage` | eleven days of the dlt schedule (Monday, Wednesday, Saturday), one crash, history of two issues | `LatestIsStored` |
| `fetch_polls` | one lottery, one issue, two overlapping pollers, three answers of which two differ in order only | `ConfirmedByBoth`, `PollsOnlyConfirm`, `NoticeCanBeSettled` |
| `fetch_outage` (violated) | two lotteries, one poller | `LongOutageIsTold` fails |
| `notify` | one big win over three days, one crash, one recomparison or change of followed lotteries; for the periods, any first day in two years | `SentWasDelivered`, `NoSilentMiss`, `LateWinsTold`; `ReportsTile`, `DeferralEndsTheQuiet`, `PrizeAndCostTogether` |
| `notify_missed` (violated) | the same without edits | `NeverMissed` fails |
| `refill` | one qlc row, two tickets, three results, two changes, one crash | `AmountFitsTier`, `EveryWaitIsSeen`, `RefilledIsKept`, `WrittenOffForAReason`, `JudgedConsistently`, `EveryWaitEnds` |
| `refill_again` (violated) | one change, no crash | `JudgedAgainIsAsked` fails |
| `accounts` | two users, one invitation, two reset codes, two verifying threads, one operator's reset, one restart | `OneAccountPerInvite`, `AtMostOneActive`, `GuessesAreCounted`, `OnlyLiveCodesOpen`, `OverrideStands`, `RetiredForAReason` |

Each property is stated in words above its definition.

**Bounds.** Every bound is a constant named `Max...` and appears in a guard. They are
chosen so that the shortest run into each hazard fits: a worker and a command
for every race of two, two versions of a draw (a correction), two outbox rows
for one draw. `MaxExtras` bounds faults, edits and history loads together: any two
of them meet in `outbox_faults`, more than two only in the proofs. In `notify` enough thirds of a day for a win to be judged, missed,
retried by two sweeps and to reach the age limit; in `coverage` three issues, a
start on each kind of day and a last evening without a draw. In `accounts` two
codes let a clean-up or a verification of the first meet the second, two minutes
let a code expire (`Ttl` is 2 there) and the limiter refuse (`MaxHits` is 2), and
one counted attempt locks an invitation that has expired. The first day ranges over 0 .. 690
in `ReportedDays`, over the three days on either side of each month's end in
`WellDatedThirds`: a leap year and a common one. Clocks stop at
their bound and edits and faults run out, hence `CHECK_DEADLOCK FALSE`: the real
system idles there. The safety properties that are proved do not depend on
these bounds.

**Fairness.** `DrawOutbox`: server workers are weakly fair, since the scheduler
polls every quarter of an hour and a running comparison goes on; users,
sources, commands and faults are not. `DrawCoverage`: the steps of a start (the
process is restarted by `restart: always`), the clock, and the showing of
results are weakly fair; an answered poll is strongly fair, since polls repeat
every evening and a source does not fail for ever. `WinNotify`: the jobs and the
clock weakly; the sweep's delivery strongly, since a channel that is tried every
morning works some day. `FloatRefill`: the job gets through its batch, and its
last write does not fail for ever; the sources may.

## Where code and documents disagree

* **A crash loses a comparison** (`outbox_crash`). `process_pending` commits
  `processed_at` before it compares, and nothing resets it. The design calls the
  outbox recoverable after a crash.
* **Draw numbers without a year** (`outbox_year`). Next year's issue with the same
  three digits meets this year's row, is reported as stored and never is.
* **A long outage can be forgotten** (`fetch_outage`). The recovery of one lottery's
  fetch can clear an outage that nobody was told of; the comment in
  `source_health.py` excludes it.
* **A missed 07:00 summary is not made up for** (`notify_missed`). The sweep leaves
  out wins that were judged in time for the summary, also when the summary
  never ran.
* **Judged again after seven days** (`refill_again`). The row is put back into the
  wait, but selected and expired by its first `created_at`.

More that the models show, or that came up while writing them, without a run of
their own:

* **Results and costs are not one transaction.** The comment at
  `compare_service.py:202` says that the costs are committed together with the
  comparisons. On the one connection every released savepoint is committed by itself
  (`CompareTicket`), the costs by the last commit, so a crash or an exception in
  between leaves results without costs until the draw is compared again (`torn` in
  `CostsWithResults`).
* **A ticket whose write fails is left out for good.** The loop over the tickets goes on
  after any exception (`compare_service.py:188-199`), and the draw then counts as
  compared: the malformed ticket it is meant for and a good one whose write met a
  locked database alike get no result until the draw is compared anew (`skipped` in
  `SettledIsComplete`).
* **Invitations are not protected against guessing.** The design
  (`2026-06-16-lottery-notification-design.md:229` and `:403`) and
  `tests/api/test_invite.py:85-97` have failed attempts lock a valid, unused code. The
  test calls `consume` without a user by itself; in the program only
  `_record_failed_invite_attempt` does (`api/auth.py:128-137`), after a registration
  with that code was refused, and a valid, unused code is not refused. Of the codes
  not yet used only expired ones are therefore counted on and locked.
* **A failure the administrator has not heard of.** `notifier.py:168-169` leaves out
  the alert of a repeated catch-up because "the first failure was alerted". If
  that alert failed, or no administrator's Bark or no channel was configured, it
  was not, and later failures stay silent until the win is too old.
* **A notice settled for another outage.** The evaluation re-reads a source before it
  settles a notice and leaves a row that has changed for the next round
  (`source_health.py:124-128`, `:163-170`). It compares the two status columns only (lines
  274-285): a source that recovered and failed again while the notice was sent looks
  unchanged, and the new outage counts as announced.
* **qlc's special number.** `docs/reference/lottery-rules.md` says it comes from the
  pool of the seven picked; the comparator (`domain/compare.py`) asks the ticket for
  a number of its own (`PrizeRules` does the same).
* **An operator's password can be replaced.** `cli.py reset-password` runs in a process of its
  own, so a verification that has read its code and is hashing sets the user's
  password after it (`overtaken` in `OnlyLiveCodesOpen`; `OverrideStands` says that
  only such a code can). An administrator's reset, a request, waits for the
  connection.
* **A correction passes by a ticket that was switched off.** The comparison takes
  the tickets that are enabled at that moment (`compare_service.py:73`), so the result
  of one switched off since keeps the old numbers; the design says that the draw's
  comparisons are updated in place. `SettledIsComplete` speaks of tickets that were
  never edited for this reason.
* **Saved mail settings.** `api/admin_ext.py` saves them, but the mail channel is
  built once at the start (`main.py:133`) from the settings of that moment.
* **The first eight hours of a month.** The dashboard's month is the UTC month for
  prizes and the local one for costs, so the two sums are of different months
  until 08:00 on the first, and of different years on 1 January.
* **Reports.** A report missed by more than its grace time is not made up for. One that was
  deferred past midnight would report by the later day; with quiet hours from 22
  to 7 and reports at nine this cannot happen.

Losses the code allows without any document speaking of them. The properties named
exempt them, to show that there are no others:

* **A win of a failed summary** (`unheard` in `NoSilentMiss`). If the administrator's alert
  after it is skipped (`notifier.py:326-331`) or fails (`:341-349`), or the user has no
  channel, nobody hears of the summary's wins, and the sweep leaves them out because
  they were judged in time.
* **An amount of another tier** (`crossed` in `AmountFitsTier`). The refill writes by the
  rows it read (`refill_service.py:175`); one that was judged again in the meantime gets
  the amount of its earlier tier.
* **A write-off by an answer about another tier** (`mistaken` in `WrittenOffForAReason`).
  The same window with a permanent error (`refill_service.py:146-157`): the row is
  written off for a tier nobody has asked for.
* **An amount the command took away** (`filled` in `RefilledIsKept`). A crash between
  the comparison and the restoring of `recompare` (`compare_service.py:407-411`) loses
  the refilled amount, and so does a refill after the command has put the row
  aside; the row waits for the next refill, or is written off if it is older than
  seven days.
* **An amount of the ticket's earlier form** (`AmountFitsTier`). What is restored was
  computed before the ticket was edited (`compare_service.py:537`).

Two about the draws: a start fetches only
the latest issue, so a daily lottery loses the draws before it after a longer
pause (`DrawCoverage!FetchMissed`; recovery is on `TODOS.md`), and draws loaded as
history have no outbox row, so tickets bought for them before are compared only
after a correction, force-verify or recompare (`silent` in `DrawOutbox`, `owed =
FALSE` in `DrawCoverage`; the comment in `_store_history_draws` relies on an
outbox row written when a ticket is created, which `TicketRepo.create` does not
write).

## What is proved

All theorems hold for any values of the constants that satisfy the module's
named `...Assumption`.

* `DrawOutbox_proofs`. `TypeCorrect`; `NothingLost` from `TypeOK` and a description
  of the workers: a held row is out of the outbox, its draw is stored, and a
  comparing worker read a version no newer than the row's. That is what makes
  the property inductive: an outbox row that disappears is held by the worker
  that claimed it, and a worker that finishes has compared the version it read.
  `ClaimExclusive` needs that ids grow and that a claimed id is neither in the
  outbox nor held twice. `ClaimsFollowWins` and `DecidedForGood` need that every
  write of a comparison synchronises its claim.
  `SettledForAll` holds with commands, edits and faults: when a draw is settled
  (compared in its current version, and not outrun), every ticket that was never
  edited and whose own last comparison did not fail has its row, judged by the
  current result. Its invariant says that who
  has read the current version has read its result, that what a comparison has left to
  do are tickets it selected, with their numbers, and that a comparison of
  the current version has done or will do every ticket. `ServerIsNeverOutrun` is the
  counterpart: what a server worker has read stays the current version until it is
  done, so only a command can outrun a comparison (`NothingOutrun`: without commands,
  never). `CostsFollowResults` rests on the selection: the tickets a comparison has done
  or has left are those enabled when it read them, so that one never edited is still
  enabled when the costs are summed up, and a draw that has results and is not being
  compared has had that sum or is `torn`. A ticket that is switched off or deleted
  while a command compares it gets a result without a cost, since the command's
  transaction does not keep the server's edits out between two savepoints; the
  property speaks of tickets never edited for this reason. `OnlyFaultsLose` and `OneKeyEach` bound two of the violated
  properties: `CrashRecoverable` holds where nothing fails, `StoredIsThisIssue` where no
  two issues share a number, so nothing else is behind those violations.
* `DrawOutbox_refinement`. `ImplementsLedger`: initial states map to initial states
  and each action to one action of the ledger or to a stutter, given
  the invariants above.
* `SourceHealth_proofs`, `DrawFetch_proofs`. The alert machine's rows can always be
  settled, for any number of overlapping evaluations, and the composition
  preserves it; only two agreeing answers confirm a draw; polls never replace a
  result.
* `DrawCoverage_proofs`. The types of the table over starts, polls and crashes.
* `WinNotify_proofs`. `OnlySummariesLoseWins`: pushes and sweeps may fail in any order,
  with or without an alert, and lose no win; what is lost, a summary has lost. The inductive invariant follows a
  standing win through the summary: while the summary runs, the win is in the
  message being sent, or its user is still to come, or it has been told, was
  loud, unheard, excused or is a candidate of the sweep; plus what a log says of the past.
* `WinNotify_proofs`, at its end. `EveryDayInOneWeekly` for all days of all years, and
  `DeferralsEnd`: the next seven o'clock is the end of the quiet hours any time of
  them is in. `EveryDayInOneMonthly` says the same of the monthly reports over
  the calendar of `Periods` (two years and the months around them);
  `ReportsNeverSlip` concludes `ReportsTile` for any comparison of the
  first ten days of the model (`DayOf[c] <= 9`), which is how far the last whole month
  of the calendar goes beyond the last first day. `PrizesWithTheirCosts`: a prize is judged
  no earlier than its draw, which is all that `PrizeAndCostTogether` needs.
* `PasswordReset_proofs`. The properties of accounts and codes. The inductive
  invariant says that accounts and invitations refer to each other; that
  only the codes made so far have owners; that the codes an operator's reset
  barred are retired and not being verified; and that at most one verification is
  under way (the one connection) and what it has read still holds, unless a command retired
  its code.
* `FloatRefill_proofs`. `AmountsFit` (what is put aside or read fits too),
  `WaitsAreSeen` (by the tables and the routing), `RefillsAreKept`, and
  `WriteOffsHaveAReason` (a running job's cutoff lies at least `MaxAge` back, and a job
  that still holds a row whose tier is not the one it read finds it marked as
  judged again).
  `RulesAgree` says that the tables agree with themselves, by cases over the tables:
  more hits never lose, a better tier never pays less, on any day (`RulesOfADay`),
  and the new tables of dlt neither make nor unmake a win (`WinsOfTwoDays`).
  `MoreHitsNeverLose` carries that from hits to numbers: of two tickets with as many
  numbers as their lottery asks for, one that hits at least as many of either
  kind wins whenever the other does, and no worse a tier (their hits are among those the tables were compared on).

Only model-checked: the liveness properties (`EveryDrawSettles`,
`LatestIsStored`, `LateWinsTold`, `EveryWaitEnds`), which are beyond the prover, and
the violated properties.

## Abstractions

* A result or a pick is a value that matches or does not, except in
  `PrizeRules`, which works on the numbers.
* Users and their channels are enabled. Quiet hours are in `Periods` only: the
  instant push and the sweep ignore them, and with the application's 22 to 7
  neither the summary nor a report falls inside.
  The stored settings `master_enable`, `path_a_enable`, `summary_time` and
  `users.dnd_json` are not read by the notifier, so they are not in the model.
* Two push jobs for one win are merged, and a sweep takes its candidates in any
  order.
* Deleting a ticket is in `DrawOutbox`, not in `FloatRefill`; a lookup and its
  write are one step there, and the server's refill job does not overlap itself
  (`max_instances=1`).
* The answers of a prize source are grouped by what becomes of them; which one
  comes is free at every question, so the job may meet any sequence of them.
* The 1.8 multiplier of an appended dlt bet is kept in tenths.
* The limiter's sliding minute is a tick, shared with the resend interval. A new
  invitation code is one that nobody is having counted at that moment. A used invitation's
  expiry is not followed, since nothing reads it. Mail is taken to be configured;
  without it a request stores nothing.
* Attempts and back-off of a fetch are one answer; HTTP, parsing of pages,
  encryption, wording and layout are left out.

## Not modelled, and what could follow

* Ticket entry beyond single bets: the code raises `NotImplementedError` for the expansion of
  fushi and dantuo entries, so there is nothing to translate yet.
* Login, tokens, cookies and CSRF; user preferences; channel settings; the audit log;
  statistics and listings. They are single-row writes or queries, without
  a second step anything could come between.
* The protocols of Bark, Feishu, mail and the HTTP sources, parsing of pages and PDFs,
  encryption of secrets, migrations, the web interface and the scripts.
* Worth adding: the composition of `DrawCoverage` with `DrawOutbox` (a lottery's
  tickets over starts, history and polls).
