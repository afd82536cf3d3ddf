-------------------------- MODULE DrawOutbox_proofs --------------------------
(***************************************************************************)
(* Proofs about DrawOutbox, for any number of issues, draws, tickets and   *)
(* workers, and any bounds.  The inductive invariant is                    *)
(*   IInv == TypeOK, Bound, Ids, ClaimIffWin, NoLostDraw                   *)
(* The costs and the completeness of what is settled, at the end, have     *)
(* invariants of their own on top of it, and the costs conditions too.     *)
(***************************************************************************)
EXTENDS DrawOutbox, TLAPS

Busy(w) == pc[w] \in {"claimed", "comparing"}

(* What a worker, a snapshot or the outbox refers to is a stored draw, and *)
(* nobody has read or compared a version that does not exist yet.          *)
Bound ==
  /\ \A r \in outbox : rows[r.key] # NoRow
  /\ \A w \in Workers :
       /\ \A r \in batch[w] : rows[r.key] # NoRow
       /\ Busy(w) => job[w] \in Job /\ rows[job[w].key] # NoRow
       /\ pc[w] = "comparing" =>
            seen[w].num \in Numbers /\ seen[w].ver <= rows[job[w].key].ver
  /\ \A k \in Keys : cmpVer[k] <= rows[k].ver

LEMMA NoRowNotRow == NoRow \notin Row
  BY DEF NoRow, Row

LEMMA RowStays ==
  ASSUME TypeOK, NEW k \in Keys, rows[k] # NoRow
  PROVE  rows[k] \in Row
  BY DEF TypeOK

(* Types are preserved: one step per action.                               *)
LEMMA TypeStep ==
  ASSUME ConstantsAssumption, TypeOK, Bound, [Next]_vars
  PROVE  TypeOK'
<1> USE ConstantsAssumption DEF ConstantsAssumption
<1> SUFFICES ASSUME Next PROVE TypeOK'
  BY DEF TypeOK, vars, drawVars, resultVars, workerVars, ghostVars, boundVars
<1>1. CASE NextDay
  BY <1>1 DEF NextDay, TypeOK, Issues, drawVars, resultVars, workerVars, ghostVars, boundVars
<1>2. ASSUME NEW i \in Issues, NEW n \in Numbers, NEW single \in BOOLEAN,
             StoreNewDraw(i, n, single)
      PROVE  TypeOK'
  BY <1>2 DEF StoreNewDraw, NewRow, Enqueue, TypeOK, Row, OutboxRow,
              resultVars, workerVars, boundVars
<1>3. ASSUME NEW i \in Issues, NEW confirms \in BOOLEAN, UpgradeDraw(i, confirms)
      PROVE  TypeOK'
  <2>1. rows[KeyOf[i]] \in Row
    BY <1>3, RowStays DEF UpgradeDraw
  <2>2. rows' \in [Keys -> Row \cup {NoRow}]
    BY <1>3, <2>1 DEF UpgradeDraw, TypeOK, Row
  <2> QED
    BY <1>3, <2>2 DEF UpgradeDraw, TypeOK, resultVars, workerVars, boundVars
<1>4. ASSUME NEW I \in SUBSET Issues, BackfillHistory(I)
      PROVE  TypeOK'
  <2>1. rows' \in [Keys -> Row \cup {NoRow}]
    <3>1. PICK f \in [I -> Numbers] :
            rows' = [k \in Keys |->
                       IF rows[k] = NoRow /\ \E i \in I : KeyOf[i] = k
                       THEN LET i == CHOOSE i \in I : KeyOf[i] = k
                            IN  NewRow(i, f[i], TRUE)
                       ELSE rows[k]]
      BY <1>4 DEF BackfillHistory
    <3>2. ASSUME NEW k \in Keys, \E i \in I : KeyOf[i] = k
          PROVE  NewRow(CHOOSE i \in I : KeyOf[i] = k,
                        f[CHOOSE i \in I : KeyOf[i] = k], TRUE) \in Row
      <4>1. (CHOOSE i \in I : KeyOf[i] = k) \in I
        BY <3>2
      <4> QED
        BY <4>1 DEF NewRow, Row
    <3> QED
      BY <3>1, <3>2 DEF TypeOK
  <2> QED
    <3>1. silent' \in SUBSET Keys
      BY <1>4 DEF BackfillHistory, TypeOK
    <3>2. cold' \in BOOLEAN /\ histories' \in Nat
      <4>1. CASE StartBackfill
        BY <4>1 DEF StartBackfill, TypeOK
      <4>2. CASE CommandBackfill
        BY <4>2 DEF CommandBackfill, TypeOK
      <4> QED
        BY <1>4, <4>1, <4>2 DEF BackfillHistory
    <3>3. UNCHANGED <<day, outbox, nextId, tickets, resultVars, workerVars,
                      cmpVer, abandoned, torn, reported, faults, edits>>
      BY <1>4 DEF BackfillHistory
    <3> QED
      BY <2>1, <3>1, <3>2, <3>3 DEF TypeOK, resultVars, workerVars
<1>25. CASE CheckHistory
  BY <1>25 DEF CheckHistory, TypeOK, resultVars, workerVars, ghostVars
<1>5. ASSUME NEW k \in Keys, ForceVerify(k)
      PROVE  TypeOK'
  BY <1>5 DEF ForceVerify, Enqueue, TypeOK, OutboxRow, resultVars, workerVars, boundVars
<1>6. ASSUME NEW k \in Keys, NEW n \in Numbers, Correct(k, n)
      PROVE  TypeOK'
  <2>1. rows[k] \in Row
    BY <1>6, RowStays DEF Correct
  <2>2. rows' \in [Keys -> Row \cup {NoRow}]
    <3>1. rows' = [rows EXCEPT ![k] = [rows[k] EXCEPT !.num = n, !.ver = @ + 1]]
      BY <1>6, <2>1 DEF Correct, TypeOK, Row
    <3>2. [rows[k] EXCEPT !.num = n, !.ver = @ + 1] \in Row
      <4>1. rows[k].ver + 1 \in Nat \ {0}
        BY <2>1 DEF Row
      <4> QED
        BY <2>1, <4>1 DEF Row
    <3> QED
      BY <3>1, <3>2 DEF TypeOK
  <2>3. /\ outbox' \in SUBSET OutboxRow /\ nextId' \in Nat \ {0}
        /\ silent' \in SUBSET Keys
    BY <1>6 DEF Correct, Enqueue, TypeOK, OutboxRow
  <2> QED
    BY <1>6, <2>2, <2>3 DEF Correct, TypeOK, resultVars, workerVars, boundVars
<1>7. ASSUME NEW t \in Tickets, NEW n \in Numbers, CreateTicket(t, n)
      PROVE  TypeOK'
  BY <1>7 DEF CreateTicket, TypeOK, Ticket, drawVars, resultVars, workerVars, ghostVars, boundVars
<1>8. ASSUME NEW t \in Tickets, NEW n \in Numbers, NEW st \in {"on", "off"},
             UpdateTicket(t, n, st)
      PROVE  TypeOK'
  <2>1. tickets' \in [Tickets -> Ticket \cup {NoTicket}]
    <3>1. tickets[t] \in Ticket
      BY <1>8 DEF UpdateTicket, TypeOK
    <3>2. [tickets[t] EXCEPT !.pick = n, !.st = st, !.edited = TRUE] \in Ticket
      BY <3>1 DEF Ticket
    <3>3. tickets' = [tickets EXCEPT ![t] = [tickets[t] EXCEPT !.pick = n, !.st = st, !.edited = TRUE]]
      BY <1>8, <3>1 DEF UpdateTicket, TypeOK, Ticket
    <3> QED
      BY <3>2, <3>3 DEF TypeOK
  <2> QED
    BY <1>8, <2>1 DEF UpdateTicket, TypeOK, drawVars, resultVars, workerVars, ghostVars
<1>9. ASSUME NEW t \in Tickets, DeleteTicket(t)
      PROVE  TypeOK'
  <2>1. tickets' \in [Tickets -> Ticket \cup {NoTicket}]
    <3>1. tickets[t] \in Ticket
      BY <1>9 DEF DeleteTicket, TypeOK
    <3>2. [tickets[t] EXCEPT !.st = "gone", !.edited = TRUE] \in Ticket
      BY <3>1 DEF Ticket
    <3>3. tickets' = [tickets EXCEPT ![t] = [tickets[t] EXCEPT !.st = "gone", !.edited = TRUE]]
      BY <1>9, <3>1 DEF DeleteTicket, TypeOK, Ticket
    <3> QED
      BY <3>2, <3>3 DEF TypeOK
  <2>2. UNCHANGED <<day, drawVars, resultVars, workerVars, ghostVars, faults, histories>>
        /\ edits' \in Nat
    BY <1>9 DEF DeleteTicket, TypeOK
  <2> QED
    BY <2>1, <2>2 DEF TypeOK, drawVars, resultVars, workerVars, ghostVars
<1>10. ASSUME NEW x \in Keys \X Tickets, MarkClaimed(x)
       PROVE  TypeOK'
  BY <1>10 DEF MarkClaimed, TypeOK, ClaimStatus, drawVars, workerVars, ghostVars, boundVars
<1>11. ASSUME NEW S \in SUBSET (Keys \X Tickets), ExpireClaims(S)
       PROVE  TypeOK'
  BY <1>11 DEF ExpireClaims, TypeOK, ClaimStatus, drawVars, workerVars, ghostVars, boundVars
<1>12. ASSUME NEW w \in Workers, Poll(w)
       PROVE  TypeOK'
  BY <1>12 DEF Poll, TypeOK, OutboxRow, Job, drawVars, resultVars, ghostVars, boundVars
<1>13. ASSUME NEW w \in Workers, StartRecompare(w)
       PROVE  TypeOK'
  BY <1>13 DEF StartRecompare, TypeOK, Job, drawVars, resultVars, ghostVars, boundVars
<1>14. ASSUME NEW w \in Workers, NEW r \in batch[w], ClaimRow(w, r)
       PROVE  TypeOK'
  BY <1>14 DEF ClaimRow, TypeOK, resultVars, ghostVars, boundVars
<1>15. ASSUME NEW w \in Workers, NEW r \in batch[w], SkipClaimed(w, r)
       PROVE  TypeOK'
  BY <1>15 DEF SkipClaimed, AfterJob, TypeOK, drawVars, resultVars, ghostVars, boundVars
<1>16. ASSUME NEW w \in Workers, NEW r \in batch[w], TakeDraw(w, r)
       PROVE  TypeOK'
  BY <1>16 DEF TakeDraw, TypeOK, drawVars, resultVars, ghostVars, boundVars
<1>17. ASSUME NEW w \in Workers, BeginCompare(w)
       PROVE  TypeOK'
  <2> DEFINE k == job[w].key
  <2>1. rows[k] \in Row
    BY <1>17, RowStays DEF BeginCompare, Bound, Busy, Job
  <2>2. {<<t, tickets[t].pick>> : t \in Selected(k)} \in SUBSET (Tickets \X Numbers)
    BY DEF Selected, TypeOK, Ticket, NoTicket
  <2>3. [num |-> rows[k].num, ver |-> rows[k].ver] \in [num : Numbers \cup {NoNum}, ver : Nat]
    BY <2>1 DEF Row
  <2> QED
    BY <1>17, <2>2, <2>3 DEF BeginCompare, TypeOK, drawVars, resultVars, ghostVars, boundVars
<1>18. ASSUME NEW w \in Workers, NEW P \in SUBSET (Tickets \X Numbers), Upsert(w, P),
              pc[w] = "comparing"
       PROVE  /\ comp' \in [Keys \X Tickets -> Cmp \cup {NoCmp}]
              /\ claim' \in [Keys \X Tickets -> ClaimStatus]
              /\ outrun' \in SUBSET Keys
              /\ skipped' \in SUBSET (Keys \X Tickets)
  <2> DEFINE k      == job[w].key
             Of(x)  == {p \in P : x = <<k, p[1]>>}
             New(x) == IF Of(x) = {} THEN comp[x]
                       ELSE [num  |-> seen[w].num, pick |-> (CHOOSE p \in Of(x) : TRUE)[2]]
  <2>1. ASSUME NEW x \in Keys \X Tickets PROVE New(x) \in Cmp \cup {NoCmp}
    <3>1. CASE Of(x) = {}
      BY <3>1 DEF TypeOK
    <3>2. CASE Of(x) # {}
      <4>1. (CHOOSE p \in Of(x) : TRUE) \in Tickets \X Numbers
        BY <3>2
      <4>2. seen[w].num \in Numbers
        BY <1>18 DEF Bound
      <4> QED
        BY <3>2, <4>1, <4>2 DEF Cmp
    <3> QED
      BY <3>1, <3>2
  <2>5. skipped' \in SUBSET (Keys \X Tickets)
    BY <1>18 DEF Upsert, TypeOK
  <2>2. comp' = [x \in Keys \X Tickets |-> New(x)]
        /\ claim' = [x \in Keys \X Tickets |-> SyncClaim(comp[x], New(x), claim[x])]
    BY <1>18 DEF Upsert
  <2>3. ASSUME NEW x \in Keys \X Tickets PROVE SyncClaim(comp[x], New(x), claim[x]) \in ClaimStatus
    BY DEF TypeOK, SyncClaim, ClaimStatus
  <2>4. outrun' \in SUBSET Keys
    <3>1. job[w].key \in Keys
      BY <1>18 DEF Bound, Busy, Job
    <3> QED
      BY <1>18, <3>1 DEF Upsert, Outruns, TypeOK
  <2> HIDE DEF New
  <2> QED
    BY <2>1, <2>2, <2>3, <2>4, <2>5
<1>19. ASSUME NEW w \in Workers, NEW p \in todo[w], CompareTicket(w, p)
       PROVE  TypeOK'
  <2>1. /\ comp' \in [Keys \X Tickets -> Cmp \cup {NoCmp}]
        /\ claim' \in [Keys \X Tickets -> ClaimStatus]
        /\ outrun' \in SUBSET Keys
        /\ skipped' \in SUBSET (Keys \X Tickets)
    BY <1>18, <1>19 DEF CompareTicket, TypeOK
  <2> QED
    BY <1>19, <2>1 DEF CompareTicket, TypeOK, drawVars, ghostVars, boundVars
<1>20. ASSUME NEW w \in Workers, NEW p \in todo[w], SkipBadTicket(w, p) \/ TicketFails(w, p)
       PROVE  TypeOK'
  <2>1. SkipTicket(w, p) /\ pc[w] = "comparing"
    BY <1>20 DEF SkipBadTicket, TicketFails, SkipTicket
  <2>2. skipped' \in SUBSET (Keys \X Tickets) /\ faults' \in Nat
    <3>1. job[w].key \in Keys /\ p[1] \in Tickets
      BY <2>1 DEF Bound, Busy, Job, TypeOK
    <3> QED
      BY <1>20, <3>1 DEF SkipBadTicket, TicketFails, TypeOK
  <2> QED
    BY <2>1, <2>2 DEF SkipTicket, TypeOK, drawVars, ghostVars
<1>21. ASSUME NEW w \in Workers, FinishCompare(w)
       PROVE  TypeOK'
  <2>1. /\ comp' \in [Keys \X Tickets -> Cmp \cup {NoCmp}]
        /\ claim' \in [Keys \X Tickets -> ClaimStatus]
        /\ outrun' \in SUBSET Keys
        /\ skipped' \in SUBSET (Keys \X Tickets)
    <3>1. {p \in todo[w] : p[1] \notin BadTickets} \in SUBSET (Tickets \X Numbers)
      BY DEF TypeOK
    <3> QED
      BY <1>18, <1>21, <3>1 DEF FinishCompare
  <2>2. cost' \in [Keys \X Users -> SUBSET Tickets]
    BY <1>21 DEF FinishCompare, UpsertCosts, TypeOK
  <2>3. cmpVer' \in [Keys -> Nat] /\ abandoned' \in SUBSET Keys /\ torn' \in SUBSET Keys
    BY <1>21 DEF FinishCompare, TypeOK
  <2>4. /\ pc' \in [Workers -> {"idle", "polling", "claimed", "comparing"}]
        /\ job' \in [Workers -> Job \cup {NoJob}]
        /\ seen' \in [Workers -> [num : Numbers \cup {NoNum}, ver : Nat]]
        /\ todo' \in [Workers -> SUBSET (Tickets \X Numbers)]
        /\ inTx' \in [Workers -> BOOLEAN]
    BY <1>21 DEF FinishCompare, AfterJob, Unread, TypeOK
  <2> QED
    BY <1>21, <2>1, <2>2, <2>3, <2>4 DEF FinishCompare, TypeOK, drawVars, boundVars
<1>22. ASSUME NEW W \in SUBSET Workers
       PROVE  Held(W) \in SUBSET Keys /\ Halfway(W) \in SUBSET Keys
  BY DEF Held, Halfway, Bound, Busy, Job
<1>23. ASSUME NEW w \in Workers, AbortCompare(w)
       PROVE  TypeOK'
  <2>1. abandoned' \in SUBSET Keys /\ torn' \in SUBSET Keys
    <3>1. Held({w}) \in SUBSET Keys /\ Halfway({w}) \in SUBSET Keys
      BY <1>22
    <3> QED
      BY <1>23, <3>1 DEF AbortCompare, TypeOK
  <2>2. faults' \in Nat
    BY <1>23 DEF AbortCompare, TypeOK
  <2>3. /\ pc' \in [Workers -> {"idle", "polling", "claimed", "comparing"}]
        /\ job' \in [Workers -> Job \cup {NoJob}]
        /\ todo' \in [Workers -> SUBSET (Tickets \X Numbers)]
        /\ inTx' \in [Workers -> BOOLEAN]
    BY <1>23 DEF AbortCompare, AfterJob, TypeOK
  <2>4. seen' \in [Workers -> [num : Numbers \cup {NoNum}, ver : Nat]]
    BY <1>23 DEF AbortCompare, Unread, TypeOK
  <2> QED
    BY <1>23, <2>1, <2>2, <2>3, <2>4 DEF AbortCompare, TypeOK, drawVars, resultVars
<1>24. ASSUME NEW W \in SUBSET Workers, Crash(W)
       PROVE  TypeOK'
  <2>1. abandoned' \in SUBSET Keys /\ torn' \in SUBSET Keys
    BY <1>22, <1>24 DEF Crash, TypeOK
  <2>2. /\ pc' \in [Workers -> {"idle", "polling", "claimed", "comparing"}]
        /\ batch' \in [Workers -> SUBSET Job]
        /\ job' \in [Workers -> Job \cup {NoJob}]
        /\ todo' \in [Workers -> SUBSET (Tickets \X Numbers)]
        /\ inTx' \in [Workers -> BOOLEAN]
    BY <1>24 DEF Crash, TypeOK
  <2>3. seen' \in [Workers -> [num : Numbers \cup {NoNum}, ver : Nat]]
    BY <1>24 DEF Crash, Unread, TypeOK
  <2>4. faults' \in Nat
    BY <1>24 DEF Crash, TypeOK
  <2> QED
    BY <1>24, <2>1, <2>2, <2>3, <2>4 DEF Crash, TypeOK, drawVars, resultVars
<1> QED
  BY <1>1, <1>2, <1>3, <1>4, <1>5, <1>6, <1>7, <1>8, <1>9, <1>10, <1>11, <1>12,
     <1>13, <1>14, <1>15, <1>16, <1>17, <1>19, <1>20, <1>21, <1>23, <1>24, <1>25
     DEF Next, DrawStep, UserStep, WorkerStep, FaultStep, Workers

-----------------------------------------------------------------------------
(* Steps that touch neither draws, outbox, comparisons nor workers.        *)
Aside == UNCHANGED <<rows, outbox, nextId, workerVars, cmpVer, abandoned, silent>>

LEMMA AsideSteps ==
  /\ NextDay \/ CheckHistory => Aside
  /\ \A t, n : CreateTicket(t, n) => Aside
  /\ \A t, n, st : UpdateTicket(t, n, st) => Aside
  /\ \A t : DeleteTicket(t) => Aside
  /\ \A x : MarkClaimed(x) => Aside
  /\ \A S : ExpireClaims(S) => Aside
BY DEF Aside, NextDay, CheckHistory, CreateTicket, UpdateTicket, DeleteTicket, MarkClaimed,
       ExpireClaims, drawVars, workerVars, ghostVars

LEMMA NoRowVer == NoRow.ver = 0
  BY DEF NoRow

(* The others, by name.                                                    *)
LEMMA CoreSteps ==
  ASSUME Next, ~ Aside
  PROVE  \/ \E i \in Issues :
              \/ \E n \in Numbers, single \in BOOLEAN : StoreNewDraw(i, n, single)
              \/ \E confirms \in BOOLEAN : UpgradeDraw(i, confirms)
         \/ \E I \in SUBSET Issues : BackfillHistory(I)
         \/ \E k \in Keys : ForceVerify(k) \/ \E n \in Numbers : Correct(k, n)
         \/ \E w \in Workers : WorkerStep(w) \/ AbortCompare(w)
         \/ \E w \in Workers : \E p \in todo[w] : TicketFails(w, p)
         \/ \E W \in SUBSET Workers : Crash(W)
<1>1. ~ NextDay /\ ~ CheckHistory /\ ~ UserStep
  BY AsideSteps DEF UserStep
<1>2. DrawStep => \/ \E i \in Issues :
                       \/ \E n \in Numbers, single \in BOOLEAN : StoreNewDraw(i, n, single)
                       \/ \E confirms \in BOOLEAN : UpgradeDraw(i, confirms)
                  \/ \E I \in SUBSET Issues : BackfillHistory(I)
                  \/ \E k \in Keys : ForceVerify(k) \/ \E n \in Numbers : Correct(k, n)
  BY <1>1 DEF DrawStep
<1>3. FaultStep => \/ \E w \in Workers : AbortCompare(w)
                   \/ \E w \in Workers : \E p \in todo[w] : TicketFails(w, p)
                   \/ \E W \in SUBSET Workers : Crash(W)
  BY DEF FaultStep, Workers
<1> QED
  BY <1>1, <1>2, <1>3 DEF Next

(* The history backfill adds rows and touches none.                        *)
LEMMA BackfillKeeps ==
  ASSUME TypeOK, NEW I \in SUBSET Issues, BackfillHistory(I)
  PROVE  /\ \A k \in Keys : rows[k] # NoRow => rows'[k] = rows[k]
         /\ \A k \in Keys : rows'[k] # NoRow /\ rows[k] = NoRow =>
              rows'[k].ver = 1 /\ \E i \in I : KeyOf[i] = k
         /\ \A k \in Keys : (\E i \in I : KeyOf[i] = k) => rows'[k] # NoRow
<1>1. PICK f \in [I -> Numbers] :
        rows' = [k \in Keys |->
                   IF rows[k] = NoRow /\ \E i \in I : KeyOf[i] = k
                   THEN LET i == CHOOSE i \in I : KeyOf[i] = k
                        IN  NewRow(i, f[i], TRUE)
                   ELSE rows[k]]
  BY DEF BackfillHistory
<1>2. \A i, n : NewRow(i, n, TRUE) # NoRow /\ NewRow(i, n, TRUE).ver = 1
  BY DEF NewRow, NoRow
<1> QED
  BY <1>1, <1>2

LEMMA BoundStep ==
  ASSUME ConstantsAssumption, TypeOK, TypeOK', Bound, [Next]_vars
  PROVE  Bound'
<1> USE ConstantsAssumption DEF ConstantsAssumption
<1>0. CASE Aside
  BY <1>0 DEF Aside, Bound, Busy, workerVars
<1> SUFFICES ASSUME Next, ~ Aside PROVE Bound'
  BY <1>0 DEF Aside, vars, drawVars, ghostVars
<1>2. ASSUME NEW i \in Issues, NEW n \in Numbers, NEW single \in BOOLEAN,
             StoreNewDraw(i, n, single)
      PROVE  Bound'
  <2>1. KeyOf[i] \in Keys
    OBVIOUS
  <2>2. rows'[KeyOf[i]] # NoRow /\ rows'[KeyOf[i]].ver = 1
    BY <1>2, <2>1 DEF StoreNewDraw, NewRow, NoRow, TypeOK
  <2>3. \A k \in Keys : rows[k] # NoRow => rows'[k] = rows[k]
    BY <1>2 DEF StoreNewDraw, TypeOK
  <2>4. \A k \in Keys : cmpVer[k] <= rows'[k].ver
    <3> SUFFICES ASSUME NEW k \in Keys PROVE cmpVer[k] <= rows'[k].ver
      OBVIOUS
    <3>1. CASE k = KeyOf[i]
      BY <1>2, <2>2, <3>1, NoRowVer DEF StoreNewDraw, Bound, TypeOK
    <3>2. CASE k # KeyOf[i]
      BY <1>2, <3>2 DEF StoreNewDraw, Bound, TypeOK
    <3> QED
      BY <3>1, <3>2
  <2>5. \A r \in outbox' : r \in outbox \/ r.key = KeyOf[i]
    BY <1>2 DEF StoreNewDraw, Enqueue
  <2> QED
    BY <1>2, <2>1, <2>2, <2>3, <2>4, <2>5
       DEF StoreNewDraw, Bound, Busy, TypeOK, OutboxRow, Job, workerVars
<1>3. ASSUME NEW i \in Issues, NEW confirms \in BOOLEAN, UpgradeDraw(i, confirms)
      PROVE  Bound'
  <2>1. rows[KeyOf[i]] \in Row
    BY <1>3, RowStays DEF UpgradeDraw
  <2>2. \A k \in Keys : rows'[k].ver = rows[k].ver /\ (rows[k] # NoRow => rows'[k] # NoRow)
    <3>1. rows'[KeyOf[i]].ver = rows[KeyOf[i]].ver /\ rows[KeyOf[i]].ver # 0
      BY <1>3, <2>1 DEF UpgradeDraw, TypeOK, Row
    <3> QED
      BY <1>3, <3>1, NoRowVer DEF UpgradeDraw, TypeOK
  <2> QED
    BY <1>3, <2>2 DEF UpgradeDraw, Bound, Busy, TypeOK, OutboxRow, Job, workerVars
<1>4. ASSUME NEW I \in SUBSET Issues, BackfillHistory(I)
      PROVE  Bound'
  <2>1. \A k \in Keys : rows[k] # NoRow => rows'[k] = rows[k]
    BY <1>4, BackfillKeeps
  <2>2. \A k \in Keys : rows'[k].ver \in Nat
    BY NoRowVer DEF TypeOK, Row
  <2>3. UNCHANGED <<outbox, batch, pc, job, seen, cmpVer>>
    BY <1>4 DEF BackfillHistory, workerVars
  <2>4. \A k \in Keys : cmpVer[k] <= rows'[k].ver
    <3> SUFFICES ASSUME NEW k \in Keys PROVE cmpVer[k] <= rows'[k].ver
      OBVIOUS
    <3>1. CASE rows[k] = NoRow
      BY <2>2, <3>1, NoRowVer DEF Bound, TypeOK
    <3>2. CASE rows[k] # NoRow
      BY <2>1, <3>2 DEF Bound
    <3> QED
      BY <3>1, <3>2
  <2> QED
    BY <2>1, <2>3, <2>4 DEF Bound, Busy, TypeOK, OutboxRow, Job
<1>5. ASSUME NEW k \in Keys, ForceVerify(k)
      PROVE  Bound'
  BY <1>5 DEF ForceVerify, Enqueue, Bound, Busy, workerVars
<1>6. ASSUME NEW k \in Keys, NEW n \in Numbers, Correct(k, n)
      PROVE  Bound'
  <2>1. rows[k] \in Row
    BY <1>6, RowStays DEF Correct
  <2>2. \A q \in Keys : rows[q].ver <= rows'[q].ver /\ (rows[q] # NoRow => rows'[q] # NoRow)
    <3>1. rows'[k].ver = rows[k].ver + 1 /\ rows'[k].ver # 0
      BY <1>6, <2>1 DEF Correct, TypeOK, Row
    <3>2. \A q \in Keys : rows[q].ver \in Nat
      BY NoRowVer DEF TypeOK, Row
    <3>3. \A q \in Keys \ {k} : rows'[q] = rows[q]
      BY <1>6 DEF Correct, TypeOK
    <3>4. rows[k].ver <= rows'[k].ver /\ rows'[k] # NoRow
      BY <3>1, <3>2, NoRowVer
    <3> QED
      BY <3>2, <3>3, <3>4
  <2>3. \A q \in Keys : rows[q].ver \in Nat /\ rows'[q].ver \in Nat
    BY NoRowVer DEF TypeOK, Row
  <2>4. \A r \in outbox' : r \in outbox \/ r.key = k
    BY <1>6 DEF Correct, Enqueue
  <2>5. \A q \in Keys : cmpVer'[q] <= rows'[q].ver
    BY <1>6, <2>2, <2>3 DEF Correct, Bound, TypeOK
  <2>6. \A w \in Workers : pc[w] = "comparing" => seen[w].ver <= rows'[job[w].key].ver
    <3> SUFFICES ASSUME NEW w \in Workers, pc[w] = "comparing"
                 PROVE  seen[w].ver <= rows'[job[w].key].ver
      OBVIOUS
    <3>1. job[w].key \in Keys /\ seen[w].ver <= rows[job[w].key].ver
      BY DEF Bound, Busy, Job
    <3>2. seen[w].ver \in Nat
      BY DEF TypeOK
    <3> QED
      BY <2>2, <2>3, <3>1, <3>2
  <2> QED
    <3>1. \A r \in outbox' : rows'[r.key] # NoRow
      BY <1>6, <2>2, <2>4 DEF Correct, Bound, TypeOK, OutboxRow
    <3>2. \A w \in Workers : \A r \in batch[w] : rows'[r.key] # NoRow
      BY <2>2 DEF Bound, TypeOK, Job
    <3>3. \A w \in Workers : Busy(w) => job[w] \in Job /\ rows'[job[w].key] # NoRow
      BY <2>2 DEF Bound, Job
    <3>4. UNCHANGED workerVars
      BY <1>6 DEF Correct
    <3> QED
      BY <2>5, <2>6, <3>1, <3>2, <3>3, <3>4 DEF Bound, Busy, workerVars
<1>12. ASSUME NEW w \in Workers, Poll(w)
       PROVE  Bound'
  BY <1>12 DEF Poll, Bound, Busy, TypeOK, drawVars, ghostVars
<1>13. ASSUME NEW w \in Workers, StartRecompare(w)
       PROVE  Bound'
  BY <1>13 DEF StartRecompare, Bound, Busy, TypeOK, drawVars, ghostVars
<1>14. ASSUME NEW w \in Workers, NEW r \in batch[w], ClaimRow(w, r)
       PROVE  Bound'
  BY <1>14 DEF ClaimRow, Bound, Busy, TypeOK, ghostVars
<1>15. ASSUME NEW w \in Workers, NEW r \in batch[w], SkipClaimed(w, r)
       PROVE  Bound'
  BY <1>15 DEF SkipClaimed, AfterJob, Bound, Busy, TypeOK, drawVars, ghostVars
<1>16. ASSUME NEW w \in Workers, NEW r \in batch[w], TakeDraw(w, r)
       PROVE  Bound'
  BY <1>16 DEF TakeDraw, Bound, Busy, TypeOK, drawVars, ghostVars
<1>17. ASSUME NEW w \in Workers, BeginCompare(w)
       PROVE  Bound'
  <2>1. job[w] \in Job /\ rows[job[w].key] \in Row
    BY <1>17, RowStays DEF BeginCompare, Bound, Busy, Job
  <2>2. seen'[w].num \in Numbers /\ seen'[w].ver = rows[job[w].key].ver /\ seen'[w].ver \in Nat
    BY <1>17, <2>1 DEF BeginCompare, TypeOK, Row
  <2>3. \A v \in Workers : v # w => pc'[v] = pc[v] /\ seen'[v] = seen[v]
    BY <1>17 DEF BeginCompare, TypeOK
  <2> QED
    BY <1>17, <2>1, <2>2, <2>3 DEF BeginCompare, Bound, Busy, drawVars, ghostVars
<1>19. ASSUME NEW w \in Workers, NEW p \in todo[w], CompareTicket(w, p)
       PROVE  Bound'
  BY <1>19 DEF CompareTicket, Bound, Busy, drawVars, ghostVars
<1>20. ASSUME NEW w \in Workers, NEW p \in todo[w], SkipTicket(w, p)
       PROVE  Bound'
  BY <1>20 DEF SkipTicket, Bound, Busy, drawVars, ghostVars
<1>21. ASSUME NEW w \in Workers, FinishCompare(w)
       PROVE  Bound'
  <2>1. \A q \in Keys : cmpVer'[q] <= rows[q].ver
    BY <1>21 DEF FinishCompare, Bound, TypeOK
  <2>2. \A v \in Workers : v # w => pc'[v] = pc[v] /\ seen'[v] = seen[v] /\ job'[v] = job[v]
    BY <1>21 DEF FinishCompare, TypeOK
  <2>3. pc'[w] \in {"idle", "polling"}
    BY <1>21 DEF FinishCompare, AfterJob, TypeOK
  <2> QED
    BY <1>21, <2>1, <2>2, <2>3 DEF FinishCompare, Bound, Busy, drawVars
<1>23. ASSUME NEW w \in Workers, AbortCompare(w)
       PROVE  Bound'
  <2>2. \A v \in Workers : v # w => pc'[v] = pc[v] /\ seen'[v] = seen[v] /\ job'[v] = job[v]
    BY <1>23 DEF AbortCompare, TypeOK
  <2>3. pc'[w] \in {"idle", "polling"}
    BY <1>23 DEF AbortCompare, AfterJob, TypeOK
  <2> QED
    BY <1>23, <2>2, <2>3 DEF AbortCompare, Bound, Busy, drawVars
<1>24. ASSUME NEW W \in SUBSET Workers, Crash(W)
       PROVE  Bound'
  <2>2. \A v \in Workers : v \notin W =>
          pc'[v] = pc[v] /\ seen'[v] = seen[v] /\ job'[v] = job[v] /\ batch'[v] = batch[v]
    BY <1>24 DEF Crash, TypeOK
  <2>3. \A v \in W : pc'[v] = "idle" /\ batch'[v] = {}
    BY <1>24 DEF Crash, TypeOK
  <2> QED
    BY <1>24, <2>2, <2>3 DEF Crash, Bound, Busy, drawVars
<1> QED
  BY <1>2, <1>3, <1>4, <1>5, <1>6, <1>12, <1>13, <1>14, <1>15, <1>16, <1>17, <1>19,
     <1>20, <1>21, <1>23, <1>24, CoreSteps
     DEF WorkerStep, SkipBadTicket, TicketFails
-----------------------------------------------------------------------------
(* Outbox ids are unique, and a held id has left the outbox for good.      *)
Ids ==
  /\ \A r \in outbox : r.id < nextId
  /\ \A r, q \in outbox : r.id = q.id => r = q
  /\ \A w \in Workers : Busy(w) =>
       /\ job[w].id < nextId
       /\ \A r \in outbox : r.id # job[w].id
       /\ \A v \in Workers \ {w} : Busy(v) /\ job[w].id # 0 => job[v].id # job[w].id

LEMMA IdsStep ==
  ASSUME ConstantsAssumption, TypeOK, Bound, Ids, [Next]_vars
  PROVE  Ids'
<1> USE ConstantsAssumption DEF ConstantsAssumption
<1>0. CASE Aside
  BY <1>0 DEF Aside, Ids, Busy, workerVars
<1> SUFFICES ASSUME Next, ~ Aside PROVE Ids'
  BY <1>0 DEF Aside, vars, drawVars, ghostVars
<1>1. ASSUME UNCHANGED <<outbox, nextId>>,
             \A w \in Workers : Busy(w)' => Busy(w) /\ job'[w] = job[w]
      PROVE  Ids'
  BY <1>1 DEF Ids
<1>2. ASSUME NEW k \in Keys, Enqueue(k), UNCHANGED workerVars
      PROVE  Ids'
  <2>1. outbox' = outbox \cup {[id |-> nextId, key |-> k]} /\ nextId' = nextId + 1
    BY <1>2 DEF Enqueue
  <2>2. \A r \in outbox : r.id \in Nat /\ r.id < nextId
    BY DEF Ids, TypeOK, OutboxRow
  <2>3. nextId \in Nat
    BY DEF TypeOK
  <2>4. \A r \in outbox' : r.id < nextId'
    BY <2>1, <2>2, <2>3
  <2>5. \A r, q \in outbox' : r.id = q.id => r = q
    BY <2>1, <2>2, <2>3 DEF Ids
  <2>6. \A w \in Workers : Busy(w) => job[w].id \in Nat /\ job[w].id < nextId
    BY DEF Ids, Bound, Job
  <2>7. \A w \in Workers : Busy(w) => job[w].id < nextId' /\ \A r \in outbox' : r.id # job[w].id
    BY <2>1, <2>3, <2>6 DEF Ids
  <2> QED
    BY <1>2, <2>4, <2>5, <2>7 DEF Ids, Busy, workerVars
<1>3. ASSUME NEW i \in Issues, NEW n \in Numbers, NEW single \in BOOLEAN,
             StoreNewDraw(i, n, single)
      PROVE  Ids'
  BY <1>2, <1>3 DEF StoreNewDraw
<1>4. ASSUME NEW i \in Issues, NEW confirms \in BOOLEAN, UpgradeDraw(i, confirms)
      PROVE  Ids'
  BY <1>1, <1>4 DEF UpgradeDraw, Busy, workerVars
<1>5. ASSUME NEW I \in SUBSET Issues, BackfillHistory(I)
      PROVE  Ids'
  BY <1>1, <1>5 DEF BackfillHistory, Busy, workerVars
<1>6. ASSUME NEW k \in Keys, ForceVerify(k)
      PROVE  Ids'
  BY <1>2, <1>6 DEF ForceVerify
<1>7. ASSUME NEW k \in Keys, NEW n \in Numbers, Correct(k, n)
      PROVE  Ids'
  BY <1>2, <1>7 DEF Correct
<1>12. ASSUME NEW w \in Workers, Poll(w)
       PROVE  Ids'
  BY <1>1, <1>12 DEF Poll, Busy, TypeOK, drawVars
<1>13. ASSUME NEW w \in Workers, StartRecompare(w)
       PROVE  Ids'
  BY <1>1, <1>13 DEF StartRecompare, Busy, TypeOK, drawVars
<1>14. ASSUME NEW w \in Workers, NEW r \in batch[w], ClaimRow(w, r)
       PROVE  Ids'
  <2>1. r \in outbox /\ r.id < nextId /\ r.id # 0
    BY <1>14 DEF ClaimRow, Ids, TypeOK, OutboxRow
  <2>2. job'[w] = r /\ \A v \in Workers \ {w} : job'[v] = job[v] /\ pc'[v] = pc[v]
    BY <1>14 DEF ClaimRow, TypeOK
  <2>3. outbox' = outbox \ {r} /\ nextId' = nextId
    BY <1>14 DEF ClaimRow
  <2>4. \A v \in Workers \ {w} : Busy(v) => job[v].id # r.id
    BY <2>1 DEF Ids
  <2>5. \A q \in outbox' : q.id # r.id
    BY <2>1, <2>3 DEF Ids
  <2> QED
    BY <2>1, <2>2, <2>3, <2>4, <2>5 DEF Ids, Busy
<1>15. ASSUME NEW w \in Workers, NEW r \in batch[w], SkipClaimed(w, r)
       PROVE  Ids'
  BY <1>1, <1>15 DEF SkipClaimed, AfterJob, Busy, TypeOK, drawVars
<1>16. ASSUME NEW w \in Workers, NEW r \in batch[w], TakeDraw(w, r)
       PROVE  Ids'
  <2>1. r.id = 0
    BY <1>16 DEF TakeDraw
  <2> QED
    BY <1>16, <2>1 DEF TakeDraw, Ids, Busy, TypeOK, drawVars, OutboxRow
<1>17. ASSUME NEW w \in Workers, BeginCompare(w)
       PROVE  Ids'
  BY <1>1, <1>17 DEF BeginCompare, Busy, TypeOK, drawVars
<1>19. ASSUME NEW w \in Workers, NEW p \in todo[w], CompareTicket(w, p)
       PROVE  Ids'
  BY <1>1, <1>19 DEF CompareTicket, Busy, drawVars
<1>20. ASSUME NEW w \in Workers, NEW p \in todo[w], SkipTicket(w, p)
       PROVE  Ids'
  BY <1>1, <1>20 DEF SkipTicket, Busy, drawVars
<1>21. ASSUME NEW w \in Workers, FinishCompare(w)
       PROVE  Ids'
  BY <1>1, <1>21 DEF FinishCompare, AfterJob, Busy, TypeOK, drawVars
<1>23. ASSUME NEW w \in Workers, AbortCompare(w)
       PROVE  Ids'
  BY <1>1, <1>23 DEF AbortCompare, AfterJob, Busy, TypeOK, drawVars
<1>24. ASSUME NEW W \in SUBSET Workers, Crash(W)
       PROVE  Ids'
  BY <1>1, <1>24 DEF Crash, Busy, TypeOK, drawVars
<1> QED
  BY <1>3, <1>4, <1>5, <1>6, <1>7, <1>12, <1>13, <1>14, <1>15, <1>16, <1>17, <1>19,
     <1>20, <1>21, <1>23, <1>24, CoreSteps
     DEF WorkerStep, SkipBadTicket, TicketFails
-----------------------------------------------------------------------------
(* The claim ledger follows the comparisons: a claim exists exactly for    *)
(* the winning ones.                                                       *)
LEMMA SyncClaimAgrees ==
  ASSUME NEW old, NEW c, NEW status \in ClaimStatus, status # "none" <=> IsWin(old)
  PROVE  SyncClaim(old, c, status) # "none" <=> IsWin(c)
BY DEF SyncClaim

LEMMA UpsertAgrees ==
  ASSUME TypeOK, ClaimIffWin, NEW w, NEW P, Upsert(w, P)
  PROVE  ClaimIffWin'
<1> DEFINE k      == job[w].key
           Of(x)  == {p \in P : x = <<k, p[1]>>}
           New(x) == IF Of(x) = {} THEN comp[x]
                     ELSE [num  |-> seen[w].num, pick |-> (CHOOSE p \in Of(x) : TRUE)[2]]
<1>1. comp' = [x \in Keys \X Tickets |-> New(x)]
      /\ claim' = [x \in Keys \X Tickets |-> SyncClaim(comp[x], New(x), claim[x])]
  BY DEF Upsert
<1>2. ASSUME NEW x \in Keys \X Tickets
      PROVE  SyncClaim(comp[x], New(x), claim[x]) # "none" <=> IsWin(New(x))
  <2>1. claim[x] \in ClaimStatus /\ (claim[x] # "none" <=> IsWin(comp[x]))
    BY DEF TypeOK, ClaimIffWin
  <2> HIDE DEF New
  <2> QED
    BY <2>1, SyncClaimAgrees
<1> HIDE DEF New
<1> QED
  BY <1>1, <1>2 DEF ClaimIffWin, IsWin

LEMMA OtherSteps ==
  /\ UNCHANGED vars \/ NextDay \/ CheckHistory => UNCHANGED <<comp, claim>>
  /\ \A i, n, single : StoreNewDraw(i, n, single) => UNCHANGED <<comp, claim>>
  /\ \A i, confirms : UpgradeDraw(i, confirms) => UNCHANGED <<comp, claim>>
  /\ \A I : BackfillHistory(I) => UNCHANGED <<comp, claim>>
  /\ \A k : ForceVerify(k) => UNCHANGED <<comp, claim>>
  /\ \A k, n : Correct(k, n) => UNCHANGED <<comp, claim>>
  /\ \A t, n : CreateTicket(t, n) => UNCHANGED <<comp, claim>>
  /\ \A t, n, st : UpdateTicket(t, n, st) => UNCHANGED <<comp, claim>>
  /\ \A t : DeleteTicket(t) => UNCHANGED <<comp, claim>>
  /\ \A w : \/ Poll(w) \/ StartRecompare(w) \/ BeginCompare(w) \/ AbortCompare(w)
              => UNCHANGED <<comp, claim>>
  /\ \A w, r : ClaimRow(w, r) \/ SkipClaimed(w, r) \/ TakeDraw(w, r)
                 => UNCHANGED <<comp, claim>>
  /\ \A w, p : SkipBadTicket(w, p) \/ TicketFails(w, p) => UNCHANGED <<comp, claim>>
  /\ \A W : Crash(W) => UNCHANGED <<comp, claim>>
<1> USE DEF resultVars
<1>1. UNCHANGED vars \/ NextDay \/ CheckHistory => UNCHANGED <<comp, claim>>
  BY DEF vars, NextDay, CheckHistory
<1>2. /\ \A i, n, single : StoreNewDraw(i, n, single) => UNCHANGED <<comp, claim>>
      /\ \A i, confirms : UpgradeDraw(i, confirms) => UNCHANGED <<comp, claim>>
  BY DEF StoreNewDraw, UpgradeDraw
<1>3. /\ \A I : BackfillHistory(I) => UNCHANGED <<comp, claim>>
      /\ \A k : ForceVerify(k) => UNCHANGED <<comp, claim>>
      /\ \A k, n : Correct(k, n) => UNCHANGED <<comp, claim>>
  BY DEF BackfillHistory, ForceVerify, Correct
<1>4. /\ \A t, n : CreateTicket(t, n) => UNCHANGED <<comp, claim>>
      /\ \A t, n, st : UpdateTicket(t, n, st) => UNCHANGED <<comp, claim>>
      /\ \A t : DeleteTicket(t) => UNCHANGED <<comp, claim>>
  BY DEF CreateTicket, UpdateTicket, DeleteTicket
<1>5. \A w : \/ Poll(w) \/ StartRecompare(w) \/ BeginCompare(w) \/ AbortCompare(w)
              => UNCHANGED <<comp, claim>>
  BY DEF Poll, StartRecompare, BeginCompare, AbortCompare
<1>6. \A w, r : ClaimRow(w, r) \/ SkipClaimed(w, r) \/ TakeDraw(w, r)
                 => UNCHANGED <<comp, claim>>
  BY DEF ClaimRow, SkipClaimed, TakeDraw
<1>7. /\ \A w, p : SkipBadTicket(w, p) \/ TicketFails(w, p) => UNCHANGED <<comp, claim>>
      /\ \A W : Crash(W) => UNCHANGED <<comp, claim>>
  BY DEF SkipBadTicket, TicketFails, SkipTicket, Crash
<1> QED
  BY <1>1, <1>2, <1>3, <1>4, <1>5, <1>6, <1>7

LEMMA ClaimStep ==
  ASSUME TypeOK, ClaimIffWin, [Next]_vars
  PROVE  ClaimIffWin'
<1>1. CASE UNCHANGED <<comp, claim>>
  BY <1>1 DEF ClaimIffWin, IsWin
<1>2. ASSUME NEW x \in Keys \X Tickets, MarkClaimed(x)
      PROVE  ClaimIffWin'
  BY <1>2 DEF MarkClaimed, ClaimIffWin, IsWin, TypeOK
<1>3. ASSUME NEW S \in SUBSET (Keys \X Tickets), ExpireClaims(S)
      PROVE  ClaimIffWin'
  BY <1>3 DEF ExpireClaims, ClaimIffWin, IsWin, TypeOK
<1>4. ASSUME NEW w \in Workers, NEW p \in todo[w], CompareTicket(w, p)
      PROVE  ClaimIffWin'
  BY <1>4, UpsertAgrees DEF CompareTicket
<1>5. ASSUME NEW w \in Workers, FinishCompare(w)
      PROVE  ClaimIffWin'
  BY <1>5, UpsertAgrees DEF FinishCompare
<1> QED
  BY <1>1, <1>2, <1>3, <1>4, <1>5, OtherSteps DEF Next, DrawStep, UserStep, WorkerStep, FaultStep

-----------------------------------------------------------------------------
(* A decided claim changes only when its comparison stops winning.         *)
DecidedStays(x) ==
  claim[x] \in {"claimed", "expired"} =>
    \/ claim'[x] = claim[x]
    \/ claim'[x] = "none" /\ IsWin(comp[x]) /\ ~ IsWin(comp'[x])

LEMMA UpsertKeepsDecided ==
  ASSUME TypeOK, ClaimIffWin, NEW w, NEW P, Upsert(w, P), NEW x \in Keys \X Tickets
  PROVE  DecidedStays(x)
<1>1. PICK new : /\ comp'[x] = new
                 /\ claim'[x] = SyncClaim(comp[x], new, claim[x])
  BY DEF Upsert
<1>2. claim[x] # "none" => IsWin(comp[x])
  BY DEF ClaimIffWin
<1> QED
  BY <1>1, <1>2 DEF DecidedStays, SyncClaim

LEMMA DecidedStep ==
  ASSUME TypeOK, ClaimIffWin, [Next]_vars, NEW x \in Keys \X Tickets
  PROVE  DecidedStays(x)
<1>1. CASE UNCHANGED <<comp, claim>>
  BY <1>1 DEF DecidedStays
<1>2. ASSUME NEW y \in Keys \X Tickets, MarkClaimed(y)
      PROVE  DecidedStays(x)
  BY <1>2 DEF MarkClaimed, DecidedStays, TypeOK
<1>3. ASSUME NEW S \in SUBSET (Keys \X Tickets), ExpireClaims(S)
      PROVE  DecidedStays(x)
  BY <1>3 DEF ExpireClaims, DecidedStays, TypeOK
<1>4. ASSUME NEW w \in Workers, NEW p \in todo[w], CompareTicket(w, p)
      PROVE  DecidedStays(x)
  BY <1>4, UpsertKeepsDecided DEF CompareTicket
<1>5. ASSUME NEW w \in Workers, FinishCompare(w)
      PROVE  DecidedStays(x)
  BY <1>5, UpsertKeepsDecided DEF FinishCompare
<1> QED
  BY <1>1, <1>2, <1>3, <1>4, <1>5, OtherSteps DEF Next, DrawStep, UserStep, WorkerStep, FaultStep

-----------------------------------------------------------------------------
(* No draw is lost.  k stays owed when a step leaves its version, the      *)
(* outbox rows for it and the workers on it alone.                         *)
Covered(k) == Owed(k) \/ cmpVer[k] = rows[k].ver \/ k \in abandoned \/ k \in silent

LEMMA StillCovered ==
  ASSUME NEW k \in Keys, Covered(k),
         rows'[k].ver = rows[k].ver, cmpVer'[k] = cmpVer[k],
         abandoned \subseteq abandoned', k \in silent => k \in silent' \/ Pending(k)',
         Pending(k) => Pending(k)' \/ \E w \in Workers : Working(w, k)',
         \A w \in Workers : Working(w, k) => Working(w, k)' \/ k \in abandoned'
  PROVE  Covered(k)'
BY DEF Covered, Owed

LEMMA LostStep ==
  ASSUME ConstantsAssumption, TypeOK, TypeOK', Bound, NoLostDraw, [Next]_vars
  PROVE  NoLostDraw'
<1> USE ConstantsAssumption DEF ConstantsAssumption
<1>0. CASE Aside
  BY <1>0 DEF Aside, NoLostDraw, Owed, Pending, Working, workerVars
<1> SUFFICES ASSUME Next, ~ Aside, NEW k \in Keys, rows'[k] # NoRow
             PROVE  Covered(k)'
  BY <1>0 DEF Aside, vars, drawVars, ghostVars, NoLostDraw, Covered
<1>1. rows[k] # NoRow => Covered(k)
  BY DEF NoLostDraw, Covered
<1>2. ASSUME NEW q \in Keys, Enqueue(q), rows' = [rows EXCEPT ![q] = rows'[q]],
             UNCHANGED <<workerVars, cmpVer, abandoned>>
      PROVE  Covered(k)'
  <2>1. outbox' = outbox \cup {[id |-> nextId, key |-> q]} /\ silent' = silent \ {q}
    BY <1>2 DEF Enqueue
  <2>2. CASE k = q
    <3>1. [id |-> nextId, key |-> q] \in outbox' /\ [id |-> nextId, key |-> q].key = k
      BY <2>1, <2>2
    <3>2. Pending(k)'
      BY <3>1 DEF Pending
    <3> QED
      BY <3>2 DEF Covered, Owed
  <2>3. CASE k # q
    <3>1. rows'[k] = rows[k]
      BY <1>2, <2>3 DEF TypeOK
    <3>2. Covered(k)
      BY <1>1, <3>1
    <3>3. (Pending(k) => Pending(k)') /\ (k \in silent => k \in silent')
      BY <2>1, <2>3 DEF Pending
    <3>4. \A w \in Workers : Working(w, k) => Working(w, k)'
      BY <1>2, <3>1 DEF Working, workerVars
    <3> QED
      BY <1>2, <3>1, <3>2, <3>3, <3>4, StillCovered
  <2> QED
    BY <2>2, <2>3
<1>3. ASSUME NEW i \in Issues, NEW n \in Numbers, NEW single \in BOOLEAN,
             StoreNewDraw(i, n, single)
      PROVE  Covered(k)'
  BY <1>2, <1>3 DEF StoreNewDraw, TypeOK
<1>4. ASSUME NEW i \in Issues, NEW confirms \in BOOLEAN, UpgradeDraw(i, confirms)
      PROVE  Covered(k)'
  <2>1. rows[KeyOf[i]] \in Row
    BY <1>4, RowStays DEF UpgradeDraw
  <2>2. rows'[k].ver = rows[k].ver /\ rows[k] # NoRow
    BY <1>4, <2>1 DEF UpgradeDraw, TypeOK, Row
  <2> QED
    BY <1>1, <1>4, <2>2, StillCovered
       DEF UpgradeDraw, Pending, Working, workerVars
<1>5. ASSUME NEW I \in SUBSET Issues, BackfillHistory(I)
      PROVE  Covered(k)'
  <2>1. CASE rows[k] = NoRow
    <3>1. k \in silent'
      BY <1>5, <2>1, BackfillKeeps DEF BackfillHistory
    <3> QED
      BY <3>1 DEF Covered
  <2>2. CASE rows[k] # NoRow
    <3>1. rows'[k] = rows[k] /\ UNCHANGED <<outbox, workerVars, cmpVer, abandoned>>
      BY <1>5, <2>2, BackfillKeeps DEF BackfillHistory
    <3>2. k \in silent => k \in silent'
      BY <1>5 DEF BackfillHistory
    <3> QED
      BY <1>1, <2>2, <3>1, <3>2, StillCovered DEF Pending, Working, workerVars
  <2> QED
    BY <2>1, <2>2
<1>6. ASSUME NEW q \in Keys, ForceVerify(q)
      PROVE  Covered(k)'
  BY <1>2, <1>6 DEF ForceVerify, TypeOK
<1>7. ASSUME NEW q \in Keys, NEW n \in Numbers, Correct(q, n)
      PROVE  Covered(k)'
  BY <1>2, <1>7 DEF Correct, TypeOK
<1>8. ASSUME UNCHANGED <<rows, cmpVer, abandoned, silent>>,
             \A w \in Workers : Working(w, k) => Working(w, k)',
             Pending(k) => Pending(k)' \/ \E w \in Workers : Working(w, k)'
      PROVE  Covered(k)'
  BY <1>1, <1>8, StillCovered
<1>9. ASSUME UNCHANGED <<outbox, rows, cmpVer, abandoned, silent>>,
             NEW w \in Workers, ~ Working(w, k),
             \A v \in Workers \ {w} : pc'[v] = pc[v] /\ job'[v] = job[v] /\ seen'[v] = seen[v]
      PROVE  Covered(k)'
  BY <1>8, <1>9 DEF Working, Pending
<1>12. ASSUME NEW w \in Workers, Poll(w)
       PROVE  Covered(k)'
  BY <1>9, <1>12 DEF Poll, Working, TypeOK, drawVars, ghostVars
<1>13. ASSUME NEW w \in Workers, StartRecompare(w)
       PROVE  Covered(k)'
  BY <1>9, <1>13 DEF StartRecompare, Working, TypeOK, drawVars, ghostVars
<1>14. ASSUME NEW w \in Workers, NEW r \in batch[w], ClaimRow(w, r)
       PROVE  Covered(k)'
  <2>1. pc'[w] = "claimed" /\ job'[w] = r /\ r.id # 0
    BY <1>14 DEF ClaimRow, TypeOK, OutboxRow
  <2>2. r.key = k => Working(w, k)'
    BY <2>1 DEF Working
  <2>3. r.key # k => (Pending(k) => Pending(k)')
    BY <1>14 DEF ClaimRow, Pending
  <2>4. \A v \in Workers : Working(v, k) => Working(v, k)'
    BY <1>14 DEF ClaimRow, Working, TypeOK
  <2> QED
    BY <1>8, <1>14, <2>2, <2>3, <2>4 DEF ClaimRow, ghostVars
<1>15. ASSUME NEW w \in Workers, NEW r \in batch[w], SkipClaimed(w, r)
       PROVE  Covered(k)'
  BY <1>9, <1>15 DEF SkipClaimed, Working, TypeOK, drawVars, ghostVars
<1>16. ASSUME NEW w \in Workers, NEW r \in batch[w], TakeDraw(w, r)
       PROVE  Covered(k)'
  BY <1>9, <1>16 DEF TakeDraw, Working, TypeOK, drawVars, ghostVars
<1>17. ASSUME NEW w \in Workers, BeginCompare(w)
       PROVE  Covered(k)'
  <2>1. Working(w, k) => Working(w, k)'
    BY <1>17 DEF BeginCompare, Working, TypeOK, drawVars
  <2>2. \A v \in Workers \ {w} : Working(v, k) => Working(v, k)'
    BY <1>17 DEF BeginCompare, Working, TypeOK, drawVars
  <2> QED
    BY <1>8, <1>17, <2>1, <2>2 DEF BeginCompare, Pending, drawVars, ghostVars
<1>19. ASSUME NEW w \in Workers, NEW p \in todo[w], CompareTicket(w, p)
       PROVE  Covered(k)'
  BY <1>8, <1>19 DEF CompareTicket, Working, Pending, drawVars, ghostVars
<1>20. ASSUME NEW w \in Workers, NEW p \in todo[w], SkipTicket(w, p)
       PROVE  Covered(k)'
  BY <1>8, <1>20 DEF SkipTicket, Working, Pending, drawVars, ghostVars
<1>21. ASSUME NEW w \in Workers, FinishCompare(w)
       PROVE  Covered(k)'
  <2> DEFINE q == job[w].key
  <2>1. \A v \in Workers \ {w} : pc'[v] = pc[v] /\ job'[v] = job[v] /\ seen'[v] = seen[v]
    BY <1>21 DEF FinishCompare, TypeOK
  <2>2. UNCHANGED <<outbox, rows, silent>>
    BY <1>21 DEF FinishCompare, drawVars
  <2>3. q \in Keys /\ seen[w].ver \in Nat /\ seen[w].ver <= rows[q].ver
    BY <1>21 DEF FinishCompare, Bound, Busy, Job, TypeOK
  <2>4. CASE k = q /\ seen[w].ver = rows[k].ver
    <3>1. cmpVer[k] \in Nat /\ rows[k].ver \in Nat /\ cmpVer[k] <= rows[k].ver
      BY <2>3, <2>4 DEF TypeOK, Bound
    <3>2. cmpVer'[k] = IF cmpVer[k] < seen[w].ver THEN seen[w].ver ELSE cmpVer[k]
      BY <1>21, <2>4 DEF FinishCompare, TypeOK
    <3>3. cmpVer'[k] = rows'[k].ver
      BY <2>2, <2>4, <3>1, <3>2
    <3> QED
      BY <3>3 DEF Covered
  <2>5. CASE k = q /\ seen[w].ver # rows[k].ver
    <3>1. ~ Working(w, k) /\ abandoned' = abandoned
      BY <1>21, <2>5 DEF FinishCompare, Working
    <3>2. cmpVer[k] # rows[k].ver \/ cmpVer'[k] = cmpVer[k]
      <4>1. cmpVer[k] \in Nat /\ rows[k].ver \in Nat /\ cmpVer[k] <= rows[k].ver
        BY <2>3, <2>5, NoRowVer DEF TypeOK, Bound, Row
      <4>2. cmpVer'[k] = IF cmpVer[k] < seen[w].ver THEN seen[w].ver ELSE cmpVer[k]
        BY <1>21, <2>5 DEF FinishCompare, TypeOK
      <4> QED
        BY <2>3, <2>5, <4>1, <4>2
    <3>3. Owed(k) => Owed(k)'
      BY <2>1, <2>2, <3>1 DEF Owed, Pending, Working
    <3> QED
      BY <1>1, <2>2, <3>1, <3>2, <3>3 DEF Covered
  <2>6. CASE k # q
    <3>1. cmpVer'[k] = cmpVer[k] /\ (k \in abandoned => k \in abandoned') /\ ~ Working(w, k)
      BY <1>21, <2>6 DEF FinishCompare, Working, TypeOK
    <3>2. Owed(k) => Owed(k)'
      BY <2>1, <2>2, <3>1 DEF Owed, Pending, Working
    <3> QED
      BY <1>1, <2>2, <3>1, <3>2 DEF Covered
  <2> QED
    BY <2>4, <2>5, <2>6
<1>22. ASSUME NEW W \in SUBSET Workers, NEW w \in W, Working(w, k)
       PROVE  k \in Held(W)
  BY <1>22 DEF Held, Working
<1>23. ASSUME NEW w \in Workers, AbortCompare(w)
       PROVE  Covered(k)'
  <2>1. \A v \in Workers \ {w} : Working(v, k) => Working(v, k)'
    BY <1>23 DEF AbortCompare, Working, TypeOK, drawVars
  <2>2. Working(w, k) => k \in abandoned'
    BY <1>22, <1>23 DEF AbortCompare
  <2> QED
    BY <1>1, <1>23, <2>1, <2>2, StillCovered DEF AbortCompare, Pending, drawVars
<1>24. ASSUME NEW W \in SUBSET Workers, Crash(W)
       PROVE  Covered(k)'
  <2>1. \A v \in Workers \ W : Working(v, k) => Working(v, k)'
    BY <1>24 DEF Crash, Working, TypeOK, drawVars
  <2>2. \A v \in W : Working(v, k) => k \in abandoned'
    BY <1>22, <1>24 DEF Crash
  <2> QED
    BY <1>1, <1>24, <2>1, <2>2, StillCovered DEF Crash, Pending, drawVars
<1> QED
  BY <1>3, <1>4, <1>5, <1>6, <1>7, <1>12, <1>13, <1>14, <1>15, <1>16, <1>17, <1>19,
     <1>20, <1>21, <1>23, <1>24, CoreSteps
     DEF WorkerStep, SkipBadTicket, TicketFails
-----------------------------------------------------------------------------
IInv == TypeOK /\ Bound /\ Ids /\ ClaimIffWin /\ NoLostDraw

LEMMA IInvInit == ASSUME ConstantsAssumption, Init PROVE IInv
<1> USE ConstantsAssumption DEF ConstantsAssumption, Init
<1>1. TypeOK
  <2>1. day \in Issues
    BY DEF Issues
  <2>2. /\ rows \in [Keys -> Row \cup {NoRow}]
        /\ outbox \in SUBSET OutboxRow /\ nextId \in Nat \ {0}
        /\ tickets \in [Tickets -> Ticket \cup {NoTicket}]
        /\ comp \in [Keys \X Tickets -> Cmp \cup {NoCmp}]
        /\ claim \in [Keys \X Tickets -> ClaimStatus]
        /\ cost \in [Keys \X Users -> SUBSET Tickets]
    BY DEF ClaimStatus
  <2>3. /\ pc \in [Workers -> {"idle", "polling", "claimed", "comparing"}]
        /\ batch \in [Workers -> SUBSET Job]
        /\ job \in [Workers -> Job \cup {NoJob}]
        /\ todo \in [Workers -> SUBSET (Tickets \X Numbers)]
        /\ inTx \in [Workers -> BOOLEAN]
    OBVIOUS
  <2>4. seen \in [Workers -> [num : Numbers \cup {NoNum}, ver : Nat]]
    BY DEF Unread
  <2> QED
    BY <2>1, <2>2, <2>3, <2>4 DEF TypeOK
<1>2. Bound
  BY NoRowVer DEF Bound, Busy
<1>3. Ids
  BY DEF Ids, Busy
<1>4. ClaimIffWin
  BY DEF ClaimIffWin, IsWin
<1>5. NoLostDraw
  BY DEF NoLostDraw
<1> QED
  BY <1>1, <1>2, <1>3, <1>4, <1>5 DEF IInv

LEMMA IInvStep == ASSUME ConstantsAssumption, IInv, [Next]_vars PROVE IInv'
<1>1. TypeOK'
  BY TypeStep DEF IInv
<1> QED
  BY <1>1, BoundStep, IdsStep, ClaimStep, LostStep DEF IInv

LEMMA Inductive == Spec => []IInv
<1>1. Init => IInv
  BY IInvInit, ConstantsAssumption
<1>2. IInv /\ [Next]_vars => IInv'
  BY IInvStep, ConstantsAssumption
<1> QED
  BY <1>1, <1>2, PTL DEF Spec

(* Every variable keeps its type: no handler writes a value of another     *)
(* kind, for any number of draws, tickets and workers.                     *)
THEOREM TypeCorrect == Spec => []TypeOK
  BY Inductive, PTL DEF IInv

(* The atomic UPDATE of _claim gives a row to one worker, once.            *)
THEOREM ClaimExclusive == Spec => []ClaimedOnce
<1>1. IInv => ClaimedOnce
  BY DEF IInv, Ids, Busy, ClaimedOnce
<1> QED
  BY <1>1, Inductive, PTL

(* prize_claims follow comparisons at every commit of CompareService.      *)
THEOREM ClaimsFollowWins == Spec => []ClaimIffWin
  BY Inductive, PTL DEF IInv

(* A stored draw version is compared, about to be, or accounted for as     *)
(* abandoned or silent: no interleaving of storing, correcting, claiming   *)
(* and comparing drops it.                                                 *)
THEOREM NothingLost == Spec => []NoLostDraw
  BY Inductive, PTL DEF IInv

(* mark_claimed, _expire_claims and recomparisons never reopen a decided   *)
(* claim.                                                                  *)
THEOREM DecidedForGood == Spec => DecidedClaimsStay
<1>1. IInv /\ [Next]_vars =>
        [\A x \in Keys \X Tickets : claim[x] \in {"claimed", "expired"} =>
           \/ claim'[x] = claim[x]
           \/ claim'[x] = "none" /\ IsWin(comp[x]) /\ ~ IsWin(comp'[x])]_vars
  BY DecidedStep DEF IInv, DecidedStays
<1> QED
  BY <1>1, Inductive, PTL DEF Spec, DecidedClaimsStay
-----------------------------------------------------------------------------
(* What a comparison writes.                                               *)
LEMMA UpsertWrites ==
  ASSUME ConstantsAssumption, TypeOK, Bound, NEW w \in Workers, pc[w] = "comparing",
         NEW P \in SUBSET (Tickets \X Numbers), Upsert(w, P),
         NEW k \in Keys, NEW t \in Tickets
  PROVE  IF k = job[w].key /\ \E p \in P : p[1] = t
         THEN /\ comp'[<<k, t>>] # NoCmp
              /\ \E p \in P : /\ p[1] = t
                              /\ comp'[<<k, t>>] = [num |-> seen[w].num, pick |-> p[2]]
         ELSE comp'[<<k, t>>] = comp[<<k, t>>]
<1> DEFINE Of == {p \in P : <<k, t>> = <<job[w].key, p[1]>>}
<1>1. comp'[<<k, t>>] = IF Of = {} THEN comp[<<k, t>>]
                        ELSE [num |-> seen[w].num, pick |-> (CHOOSE p \in Of : TRUE)[2]]
  BY DEF Upsert
<1>2. seen[w].num # NoNum
  BY DEF Bound, ConstantsAssumption
<1>3. Of # {} <=> k = job[w].key /\ \E p \in P : p[1] = t
  OBVIOUS
<1>4. CASE Of = {}
  BY <1>1, <1>3, <1>4
<1>5. CASE Of # {}
  <2> DEFINE p == CHOOSE p \in Of : TRUE
  <2>1. p \in P /\ p[1] = t
    BY <1>5
  <2>2. comp'[<<k, t>>] = [num |-> seen[w].num, pick |-> p[2]]
    BY <1>1, <1>5
  <2> HIDE DEF p
  <2> QED
    BY <1>2, <1>3, <1>5, <2>1, <2>2 DEF NoCmp
<1> QED
  BY <1>4, <1>5

-----------------------------------------------------------------------------
(* Completeness, for servers and commands, edits and failures.  The        *)
(* tickets a comparison of k has to cover.                                 *)
Due(k) == Selected(k) \ BadTickets

(* The comparison of t is that of k's result with t's numbers.             *)
Current(k, t) == comp[<<k, t>>] = [num |-> rows[k].num, pick |-> tickets[t].pick]

Left(w, t) == \E p \in todo[w] : p[1] = t

(* Who read the current version read its result.                           *)
SameRead ==
  \A w \in Workers : pc[w] = "comparing" /\ seen[w].ver = rows[job[w].key].ver =>
    seen[w].num = rows[job[w].key].num

(* What is left to compare are selected tickets, with their numbers.       *)
ReadsTickets ==
  \A w \in Workers : pc[w] = "comparing" => \A p \in todo[w] :
    /\ tickets[p[1]] # NoTicket
    /\ ~ tickets[p[1]].edited => p[1] \in Selected(job[w].key) /\ p[2] = tickets[p[1]].pick

(* Whoever has a result is covered by the next comparison as well.         *)
FromDue ==
  \A k \in Keys, t \in Tickets : comp[<<k, t>>] # NoCmp =>
    /\ rows[k] # NoRow /\ tickets[t] # NoTicket
    /\ ~ tickets[t].edited => t \in Due(k)

DrawnBefore == \A k \in Keys : rows[k] # NoRow => rows[k].issue <= day

(* A comparison of the current version has done or will do every ticket    *)
(* whose own comparison does not fail.                                     *)
Covers ==
  \A w \in Workers : pc[w] = "comparing" =>
    LET k == job[w].key IN
      seen[w].ver = rows[k].ver /\ k \notin outrun =>
        \A t \in Tickets : ~ tickets[t].edited /\ <<k, t>> \notin skipped =>
          /\ t \in Due(k) /\ tickets[t].born < rows[k].issue =>
               comp[<<k, t>>] # NoCmp \/ Left(w, t)
          /\ comp[<<k, t>>] # NoCmp => Current(k, t) \/ Left(w, t)

(* A version that was compared to the end is compared for all.             *)
Complete ==
  \A k \in Keys : rows[k] # NoRow /\ cmpVer[k] = rows[k].ver /\ k \notin outrun =>
    \A t \in Tickets : ~ tickets[t].edited /\ <<k, t>> \notin skipped =>
      /\ t \in Due(k) /\ tickets[t].born < rows[k].issue => comp[<<k, t>>] # NoCmp
      /\ comp[<<k, t>>] # NoCmp => Current(k, t)

SInv ==
  /\ ServerReadsStand /\ SameRead /\ ReadsTickets /\ FromDue /\ DrawnBefore
  /\ Covers /\ Complete

(* What other steps do to a row: it keeps its issue, and its result with   *)
(* its version, which no server worker is reading when it grows.           *)
RowMoves(k) ==
  IF rows[k] = NoRow
  THEN \/ rows'[k] = NoRow
       \/ rows'[k].issue \in Issues /\ rows'[k].issue <= day /\ rows'[k].ver = 1
  ELSE /\ rows'[k] # NoRow /\ rows'[k].issue = rows[k].issue
       /\ \/ rows'[k].ver = rows[k].ver /\ rows'[k].num = rows[k].num
          \/ rows'[k].ver = rows[k].ver + 1 /\ ServerFree

(* A new ticket is as old as the day; every other change is an edit.       *)
TicketMoves(t) ==
  \/ tickets'[t] = tickets[t]
  \/ tickets[t] = NoTicket /\ tickets'[t] # NoTicket /\ tickets'[t].born = day
  \/ tickets[t] # NoTicket /\ tickets'[t] # NoTicket /\ tickets'[t].edited

(* Steps besides the comparisons.                                          *)
LEMMA QuietStep ==
  ASSUME ConstantsAssumption, TypeOK, Bound, SInv,
         UNCHANGED <<comp, cmpVer, outrun, skipped, pc, job, seen, todo>>,
         day' \in Nat, day <= day',
         \A k \in Keys : RowMoves(k), \A t \in Tickets : TicketMoves(t)
  PROVE  SInv'
<1>1. day \in Nat /\ \A k \in Keys : rows[k] # NoRow =>
        rows[k] \in Row /\ rows[k].issue \in Nat /\ rows[k].ver \in Nat \ {0}
  BY RowStays DEF TypeOK, Row, Issues
<1>2. ASSUME NEW w \in Workers, pc[w] = "comparing"
      PROVE  /\ job[w].key \in Keys /\ rows[job[w].key] # NoRow
             /\ seen[w].ver \in Nat /\ seen[w].ver <= rows[job[w].key].ver
  BY <1>2 DEF Bound, Busy, Job, TypeOK
(* A row that is there, seen by who has read it.                           *)
<1>3. ASSUME NEW w \in Workers, pc[w] = "comparing"
      PROVE  LET k == job[w].key IN
               IF rows'[k].ver = seen[w].ver
               THEN rows[k].ver = seen[w].ver /\ rows'[k].num = rows[k].num
               ELSE rows[k].ver # seen[w].ver \/ ServerFree
  <2>1. RowMoves(job[w].key)
    BY <1>2, <1>3
  <2> QED
    BY <1>1, <1>2, <1>3, <2>1 DEF RowMoves
<1>4. ServerReadsStand'
  <2> SUFFICES ASSUME NEW w \in ServerWorkers, pc[w] = "comparing"
               PROVE  seen[w] = [num |-> rows'[job[w].key].num, ver |-> rows'[job[w].key].ver]
    BY DEF ServerReadsStand
  <2>1. seen[w] = [num |-> rows[job[w].key].num, ver |-> rows[job[w].key].ver]
    BY DEF SInv, ServerReadsStand
  <2>2. ~ ServerFree /\ w \in Workers
    BY DEF ServerFree, Workers
  <2> QED
    BY <1>3, <2>1, <2>2
<1>5. SameRead'
  BY <1>3 DEF SInv, SameRead
<1>6. ASSUME NEW t \in Tickets, tickets[t] # NoTicket
      PROVE  tickets'[t] # NoTicket /\ (tickets'[t] = tickets[t] \/ tickets'[t].edited)
  BY <1>6 DEF TicketMoves
<1>7. ASSUME NEW k \in Keys, rows[k] # NoRow, NEW t \in Tickets, tickets'[t] = tickets[t]
      PROVE  (t \in Due(k) <=> t \in Due(k)') /\ (t \in Selected(k) <=> t \in Selected(k)')
  BY <1>7 DEF RowMoves, Due, Selected
<1>8. ReadsTickets'
  <2> SUFFICES ASSUME NEW w \in Workers, pc[w] = "comparing", NEW p \in todo[w]
               PROVE  /\ tickets'[p[1]] # NoTicket
                      /\ ~ tickets'[p[1]].edited =>
                           p[1] \in Selected(job[w].key)' /\ p[2] = tickets'[p[1]].pick
    BY DEF ReadsTickets
  <2>1. p[1] \in Tickets
    BY DEF TypeOK
  <2>2. /\ tickets[p[1]] # NoTicket
        /\ ~ tickets[p[1]].edited => p[1] \in Selected(job[w].key) /\ p[2] = tickets[p[1]].pick
    BY DEF SInv, ReadsTickets
  <2> QED
    BY <1>2, <1>6, <1>7, <2>1, <2>2
<1>9. FromDue'
  <2> SUFFICES ASSUME NEW k \in Keys, NEW t \in Tickets, comp[<<k, t>>] # NoCmp
               PROVE  /\ rows'[k] # NoRow /\ tickets'[t] # NoTicket
                      /\ ~ tickets'[t].edited => t \in Due(k)'
    BY DEF FromDue
  <2>1. /\ rows[k] # NoRow /\ tickets[t] # NoTicket
        /\ ~ tickets[t].edited => t \in Due(k)
    BY DEF SInv, FromDue
  <2> QED
    BY <1>6, <1>7, <2>1 DEF RowMoves
<1>10. DrawnBefore'
  <2> SUFFICES ASSUME NEW k \in Keys, rows'[k] # NoRow PROVE rows'[k].issue <= day'
    BY DEF DrawnBefore
  <2>1. CASE rows[k] = NoRow
    <3>1. rows'[k].issue \in Nat /\ rows'[k].issue <= day
      BY <2>1 DEF RowMoves, Issues
    <3> QED BY <3>1, <1>1
  <2>2. CASE rows[k] # NoRow
    <3>1. rows'[k].issue = rows[k].issue /\ rows[k].issue <= day /\ rows[k].issue \in Nat
      BY <2>2, <1>1 DEF RowMoves, SInv, DrawnBefore
    <3> QED BY <3>1, <1>1
  <2> QED BY <2>1, <2>2
(* A ticket the draw has to cover, or with a result, is one it had before. *)
<1>11. ASSUME NEW k \in Keys, rows[k] # NoRow, NEW t \in Tickets, ~ tickets'[t].edited,
              \/ t \in Due(k)' /\ tickets'[t].born < rows'[k].issue
              \/ comp[<<k, t>>] # NoCmp
       PROVE  tickets'[t] = tickets[t] /\ rows'[k].issue = rows[k].issue
  <2>1. rows'[k].issue = rows[k].issue /\ rows[k].issue <= day /\ rows[k].issue \in Nat
    BY <1>1, <1>11 DEF RowMoves, SInv, DrawnBefore
  <2>2. CASE tickets[t] # NoTicket
    BY <1>6, <1>11, <2>1, <2>2
  <2>3. CASE tickets[t] = NoTicket
    <3>1. comp[<<k, t>>] = NoCmp
      BY <2>3 DEF SInv, FromDue
    <3>2. ~ (tickets'[t].born = day)
      BY <1>1, <1>11, <2>1, <3>1
    <3> QED
      BY <2>1, <2>3, <3>2 DEF TicketMoves
  <2> QED
    BY <2>2, <2>3
<1>12. Covers'
  <2> SUFFICES ASSUME NEW w \in Workers, pc[w] = "comparing",
                      seen[w].ver = rows'[job[w].key].ver, job[w].key \notin outrun,
                      NEW t \in Tickets, ~ tickets'[t].edited, <<job[w].key, t>> \notin skipped
               PROVE  LET k == job[w].key IN
                        /\ t \in Due(k)' /\ tickets'[t].born < rows'[k].issue =>
                             comp[<<k, t>>] # NoCmp \/ Left(w, t)
                        /\ comp[<<k, t>>] # NoCmp => Current(k, t)' \/ Left(w, t)
    BY DEF Covers, Left
  <2> DEFINE k == job[w].key
  <2>1. k \in Keys /\ rows[k] # NoRow /\ seen[w].ver = rows[k].ver /\ rows'[k].num = rows[k].num
    BY <1>2, <1>3
  <2>2. ~ tickets[t].edited =>
          /\ t \in Due(k) /\ tickets[t].born < rows[k].issue =>
               comp[<<k, t>>] # NoCmp \/ Left(w, t)
          /\ comp[<<k, t>>] # NoCmp => Current(k, t) \/ Left(w, t)
    BY <2>1 DEF SInv, Covers
  <2> QED
    BY <1>7, <1>11, <2>1, <2>2 DEF Current
<1>13. Complete'
  <2> SUFFICES ASSUME NEW k \in Keys, rows'[k] # NoRow, cmpVer[k] = rows'[k].ver,
                      k \notin outrun, NEW t \in Tickets, ~ tickets'[t].edited,
                      <<k, t>> \notin skipped
               PROVE  /\ t \in Due(k)' /\ tickets'[t].born < rows'[k].issue
                           => comp[<<k, t>>] # NoCmp
                      /\ comp[<<k, t>>] # NoCmp => Current(k, t)'
    BY DEF Complete
  <2>1. cmpVer[k] \in Nat /\ cmpVer[k] <= rows[k].ver
    BY DEF TypeOK, Bound
  <2>2. rows[k] # NoRow
    BY <2>1, NoRowVer DEF RowMoves
  <2>3. cmpVer[k] = rows[k].ver /\ rows'[k].num = rows[k].num
    BY <1>1, <2>1, <2>2 DEF RowMoves
  <2>4. ~ tickets[t].edited =>
          /\ t \in Due(k) /\ tickets[t].born < rows[k].issue => comp[<<k, t>>] # NoCmp
          /\ comp[<<k, t>>] # NoCmp => Current(k, t)
    BY <2>2, <2>3 DEF SInv, Complete
  <2> QED
    BY <1>7, <1>11, <2>2, <2>3, <2>4 DEF Current
<1> QED
  BY <1>4, <1>5, <1>8, <1>9, <1>10, <1>12, <1>13 DEF SInv

(* Workers that are not comparing afterwards have done nothing else.       *)
LEMMA StopStep ==
  ASSUME SInv, NEW W \in SUBSET Workers, \A v \in W : pc'[v] # "comparing",
         \A v \in Workers \ W :
           pc'[v] = pc[v] /\ job'[v] = job[v] /\ seen'[v] = seen[v] /\ todo'[v] = todo[v],
         UNCHANGED <<day, rows, tickets, comp, cmpVer, outrun, skipped>>
  PROVE  SInv'
<1>1. /\ \A k : Due(k)' = Due(k) /\ Selected(k)' = Selected(k)
      /\ \A k, t : Current(k, t)' = Current(k, t)
      /\ \A v \in Workers \ W : \A t : Left(v, t)' = Left(v, t)
  BY DEF Due, Current, Selected, Left
<1>2. ServerReadsStand' /\ SameRead'
  BY DEF SInv, ServerReadsStand, SameRead, Workers
<1>3. ReadsTickets'
  BY <1>1 DEF SInv, ReadsTickets
<1>4. Covers'
  BY <1>1 DEF SInv, Covers
<1>5. FromDue' /\ DrawnBefore' /\ Complete'
  BY <1>1 DEF SInv, FromDue, DrawnBefore, Complete
<1> QED
  BY <1>2, <1>3, <1>4, <1>5 DEF SInv

LEMMA DrawStepSettled ==
  ASSUME ConstantsAssumption, TypeOK, Bound, SInv, DrawStep
  PROVE  SInv'
<1> USE ConstantsAssumption DEF ConstantsAssumption
<1>1. day \in Nat /\ \A t \in Tickets : tickets' = tickets => TicketMoves(t)
  BY DEF TypeOK, Issues, TicketMoves
<1>2. ASSUME NEW k \in Keys, rows'[k] = rows[k] PROVE RowMoves(k)
  BY <1>2 DEF RowMoves
<1>3. ASSUME \A k \in Keys : RowMoves(k), UNCHANGED <<day, tickets, resultVars, workerVars, cmpVer>>
      PROVE  SInv'
  BY <1>1, <1>3, QuietStep DEF resultVars, workerVars
<1>4. ASSUME NEW i \in Issues, NEW n \in Numbers, NEW single \in BOOLEAN,
             StoreNewDraw(i, n, single)
      PROVE  SInv'
  <2>1. /\ rows[KeyOf[i]] = NoRow /\ rows'[KeyOf[i]] = NewRow(i, n, single)
        /\ \A k \in Keys \ {KeyOf[i]} : rows'[k] = rows[k]
    BY <1>4 DEF StoreNewDraw, TypeOK
  <2>2. NewRow(i, n, single).issue = i /\ NewRow(i, n, single).ver = 1 /\ i <= day
    BY <1>4 DEF StoreNewDraw, NewRow
  <2>3. \A k \in Keys : RowMoves(k)
    BY <1>2, <2>1, <2>2 DEF RowMoves
  <2> QED
    BY <1>3, <1>4, <2>3 DEF StoreNewDraw
<1>5. ASSUME NEW i \in Issues, NEW confirms \in BOOLEAN, UpgradeDraw(i, confirms)
      PROVE  SInv'
  <2> DEFINE q == KeyOf[i]
  <2>1. rows[q] \in Row
    BY <1>5, RowStays DEF UpgradeDraw
  <2>2. /\ rows'[q].issue = rows[q].issue /\ rows'[q].num = rows[q].num
        /\ rows'[q].ver = rows[q].ver /\ rows'[q].ver # 0
    BY <1>5, <2>1 DEF UpgradeDraw, TypeOK, Row
  <2>3. \A k \in Keys \ {q} : rows'[k] = rows[k]
    BY <1>5 DEF UpgradeDraw, TypeOK
  <2>4. rows[q] # NoRow /\ rows'[q] # NoRow
    BY <1>5, <2>2, NoRowVer DEF UpgradeDraw
  <2>5. \A k \in Keys : RowMoves(k)
    BY <1>2, <2>2, <2>3, <2>4 DEF RowMoves
  <2> QED
    BY <1>3, <1>5, <2>5 DEF UpgradeDraw
<1>6. ASSUME NEW I \in SUBSET Issues, BackfillHistory(I) PROVE SInv'
  <2>1. PICK f \in [I -> Numbers] :
          rows' = [k \in Keys |->
                     IF rows[k] = NoRow /\ \E i \in I : KeyOf[i] = k
                     THEN LET i == CHOOSE i \in I : KeyOf[i] = k
                          IN  NewRow(i, f[i], TRUE)
                     ELSE rows[k]]
    BY <1>6 DEF BackfillHistory
  <2>2. \A i \in I : i \in Issues /\ i <= day
    BY <1>6 DEF BackfillHistory
  <2>3. \A i, n : NewRow(i, n, TRUE).issue = i /\ NewRow(i, n, TRUE).ver = 1
    BY DEF NewRow
  <2>4. ASSUME NEW k \in Keys, rows[k] = NoRow, \E i \in I : KeyOf[i] = k
        PROVE  rows'[k].issue \in Issues /\ rows'[k].issue <= day /\ rows'[k].ver = 1
    <3> DEFINE i == CHOOSE i \in I : KeyOf[i] = k
    <3>1. i \in I
      BY <2>4
    <3>2. rows'[k] = NewRow(i, f[i], TRUE)
      BY <2>1, <2>4
    <3>3. rows'[k].issue = i /\ rows'[k].ver = 1
      BY <2>3, <3>2
    <3> HIDE DEF i
    <3> QED
      BY <2>2, <3>1, <3>3
  <2>5. \A k \in Keys : ~ (rows[k] = NoRow /\ \E i \in I : KeyOf[i] = k) => rows'[k] = rows[k]
    BY <2>1
  <2>6. \A k \in Keys : RowMoves(k)
    BY <1>2, <2>4, <2>5 DEF RowMoves
  <2> QED
    BY <1>3, <1>6, <2>6 DEF BackfillHistory
<1>7. ASSUME NEW k \in Keys, NEW n \in Numbers, Correct(k, n) PROVE SInv'
  <2>1. rows[k] # NoRow /\ rows[k] \in Row /\ ServerFree
    BY <1>7, RowStays DEF Correct
  <2>2. rows'[k].issue = rows[k].issue /\ rows'[k].ver = rows[k].ver + 1
    BY <1>7, <2>1 DEF Correct, TypeOK, Row
  <2>3. \A q \in Keys \ {k} : rows'[q] = rows[q]
    BY <1>7 DEF Correct, TypeOK
  <2>4. rows'[k] # NoRow
    BY <2>1, <2>2, NoRowVer DEF Row
  <2>5. \A q \in Keys : RowMoves(q)
    BY <1>2, <2>1, <2>2, <2>3, <2>4 DEF RowMoves
  <2> QED
    BY <1>3, <1>7, <2>5 DEF Correct
<1>8. ASSUME CheckHistory \/ \E k \in Keys : ForceVerify(k) PROVE SInv'
  BY <1>2, <1>3, <1>8 DEF CheckHistory, ForceVerify, ghostVars
<1> QED
  BY <1>4, <1>5, <1>6, <1>7, <1>8 DEF DrawStep

LEMMA UserStepSettled ==
  ASSUME ConstantsAssumption, TypeOK, Bound, SInv, UserStep
  PROVE  SInv'
<1>1. /\ day \in Nat
      /\ UNCHANGED rows => \A k \in Keys : RowMoves(k)
  BY DEF TypeOK, Issues, RowMoves
<1>2. ASSUME UNCHANGED <<day, drawVars, comp, cost, outrun, skipped, workerVars, ghostVars>>,
             \A t \in Tickets : TicketMoves(t)
      PROVE  SInv'
  BY <1>1, <1>2, QuietStep DEF drawVars, workerVars, ghostVars
<1>3. ASSUME NEW t \in Tickets, NEW n \in Numbers, CreateTicket(t, n) PROVE SInv'
  <2>1. /\ tickets[t] = NoTicket /\ tickets'[t].born = day /\ tickets'[t].st = "on"
        /\ \A s \in Tickets \ {t} : tickets'[s] = tickets[s]
    BY <1>3 DEF CreateTicket, TypeOK
  <2>2. \A s \in Tickets : TicketMoves(s)
    BY <2>1 DEF TicketMoves, NoTicket
  <2> QED
    BY <1>2, <1>3, <2>2 DEF CreateTicket, resultVars
<1>4. ASSUME NEW t \in Tickets, UNCHANGED <<day, drawVars, resultVars, workerVars, ghostVars>>,
             tickets[t] # NoTicket, tickets'[t].edited = TRUE,
             \A s \in Tickets \ {t} : tickets'[s] = tickets[s]
      PROVE  SInv'
  <2>1. \A s \in Tickets : TicketMoves(s)
    BY <1>4 DEF TicketMoves, NoTicket
  <2> QED
    BY <1>2, <1>4, <2>1 DEF resultVars
<1>5. ASSUME NEW t \in Tickets, NEW n \in Numbers, NEW st \in {"on", "off"},
             UpdateTicket(t, n, st)
      PROVE  SInv'
  <2>1. tickets[t] \in Ticket /\ tickets[t] # NoTicket
    BY <1>5 DEF UpdateTicket, TypeOK
  <2>2. tickets'[t].edited = TRUE /\ \A s \in Tickets \ {t} : tickets'[s] = tickets[s]
    BY <1>5, <2>1 DEF UpdateTicket, TypeOK, Ticket
  <2> QED
    BY <1>4, <1>5, <2>1, <2>2 DEF UpdateTicket
<1>6. ASSUME NEW t \in Tickets, DeleteTicket(t) PROVE SInv'
  <2>1. tickets[t] \in Ticket /\ tickets[t] # NoTicket
    BY <1>6 DEF DeleteTicket, TypeOK
  <2>2. tickets'[t].edited = TRUE /\ \A s \in Tickets \ {t} : tickets'[s] = tickets[s]
    BY <1>6, <2>1 DEF DeleteTicket, TypeOK, Ticket
  <2> QED
    BY <1>4, <1>6, <2>1, <2>2 DEF DeleteTicket
<1>7. ASSUME (\E x : MarkClaimed(x)) \/ (\E S : ExpireClaims(S)) PROVE SInv'
  BY <1>2, <1>7 DEF MarkClaimed, ExpireClaims, TicketMoves
<1> QED
  BY <1>3, <1>5, <1>6, <1>7 DEF UserStep

(* What w writes for the tickets in P, some of those it has left.          *)
LEMMA CompareSettled ==
  ASSUME ConstantsAssumption, TypeOK, Bound, SInv, NEW w \in Workers, pc[w] = "comparing",
         NEW P \in SUBSET todo[w], \A p \in P : p[1] \notin BadTickets, Upsert(w, P),
         UNCHANGED <<rows, tickets>>
  PROVE  /\ FromDue'
         /\ P # {} /\ seen[w].ver # rows[job[w].key].ver => job[w].key \in outrun'
         /\ outrun \subseteq outrun'
         /\ \A k, t : <<k, t>> \in skipped \ skipped' => k = job[w].key /\ \E p \in P : p[1] = t
         /\ \A k \in Keys, t \in Tickets :
              IF k = job[w].key /\ \E p \in P : p[1] = t
              THEN /\ comp'[<<k, t>>] # NoCmp
                   /\ k \notin outrun' /\ ~ tickets[t].edited => Current(k, t)'
              ELSE comp'[<<k, t>>] = comp[<<k, t>>]
<1> DEFINE q == job[w].key
<1>1. P \in SUBSET (Tickets \X Numbers)
  BY DEF TypeOK
<1>2. q \in Keys /\ rows[q] # NoRow
  BY DEF Bound, Busy, Job
<1>3. \A p \in P : /\ tickets[p[1]] # NoTicket
                   /\ ~ tickets[p[1]].edited => p[1] \in Due(q) /\ p[2] = tickets[p[1]].pick
  BY DEF SInv, ReadsTickets, Due
<1>4. outrun' = outrun \cup {k \in {q} : P # {} /\ seen[w].ver # rows[k].ver}
  BY DEF Upsert, Outruns
<1>5. seen[w].ver = rows[q].ver => seen[w].num = rows[q].num
  BY DEF SInv, SameRead
<1>6. ASSUME NEW k \in Keys, NEW t \in Tickets
      PROVE  IF k = q /\ \E p \in P : p[1] = t
             THEN /\ comp'[<<k, t>>] # NoCmp
                  /\ \E p \in P : /\ p[1] = t
                                  /\ comp'[<<k, t>>] = [num |-> seen[w].num, pick |-> p[2]]
             ELSE comp'[<<k, t>>] = comp[<<k, t>>]
  BY <1>1, UpsertWrites
<1>7. \A k : Due(k)' = Due(k)
  BY DEF Due, Selected
<1>8. ASSUME NEW k \in Keys, NEW t \in Tickets, k = q, \E p \in P : p[1] = t,
             k \notin outrun', ~ tickets[t].edited
      PROVE  comp'[<<k, t>>] = [num |-> rows[k].num, pick |-> tickets[t].pick]
  <2>1. seen[w].ver = rows[q].ver
    BY <1>4, <1>8
  <2>2. PICK p \in P : p[1] = t /\ comp'[<<k, t>>] = [num |-> seen[w].num, pick |-> p[2]]
    BY <1>6, <1>8
  <2>3. p[2] = tickets[t].pick
    BY <1>3, <1>8, <2>2
  <2> QED
    BY <1>5, <1>8, <2>1, <2>2, <2>3
<1>9. FromDue'
  <2> SUFFICES ASSUME NEW k \in Keys, NEW t \in Tickets, comp'[<<k, t>>] # NoCmp
               PROVE  /\ rows[k] # NoRow /\ tickets[t] # NoTicket
                      /\ ~ tickets[t].edited => t \in Due(k)
    BY <1>7 DEF FromDue
  <2>1. CASE k = q /\ \E p \in P : p[1] = t
    BY <1>2, <1>3, <2>1
  <2>2. CASE ~ (k = q /\ \E p \in P : p[1] = t)
    BY <1>6, <2>2 DEF SInv, FromDue
  <2> QED
    BY <2>1, <2>2
<1>10. \A k, t : <<k, t>> \in skipped \ skipped' => k = q /\ \E p \in P : p[1] = t
  BY DEF Upsert
<1> QED
  BY <1>4, <1>6, <1>8, <1>9, <1>10 DEF Current

(* A ticket that is passed over, for its numbers or with its failure on    *)
(* record, touches no other one.                                           *)
LEMMA SkipSettled ==
  ASSUME ConstantsAssumption, TypeOK, Bound, SInv, NEW w \in Workers, NEW p \in todo[w],
         SkipTicket(w, p), skipped \subseteq skipped',
         p[1] \in BadTickets \/ <<job[w].key, p[1]>> \in skipped'
  PROVE  SInv'
<1>1. /\ pc[w] = "comparing" /\ todo'[w] = todo[w] \ {p}
      /\ \A v \in Workers \ {w} : todo'[v] = todo[v]
      /\ UNCHANGED <<day, rows, tickets, comp, pc, job, seen, cmpVer, outrun>>
  BY DEF SkipTicket, TypeOK, drawVars, ghostVars
<1>2. /\ \A k : Due(k)' = Due(k) /\ Selected(k)' = Selected(k)
      /\ \A k, t : Current(k, t)' = Current(k, t)
  BY <1>1 DEF Due, Current, Selected
<1>3. ServerReadsStand' /\ SameRead' /\ ReadsTickets' /\ FromDue' /\ DrawnBefore' /\ Complete'
  BY <1>1, <1>2 DEF SInv, ServerReadsStand, SameRead, ReadsTickets, FromDue, DrawnBefore, Complete
<1>4. ASSUME NEW v \in Workers, NEW k \in Keys, NEW t \in Tickets, Left(v, t), t \in Due(k),
             v = w => <<job[w].key, t>> \notin skipped'
      PROVE  Left(v, t)'
  BY <1>1, <1>4 DEF Left, Due
<1>5. Covers'
  <2> SUFFICES ASSUME NEW v \in Workers, pc[v] = "comparing",
                      seen[v].ver = rows[job[v].key].ver, job[v].key \notin outrun,
                      NEW t \in Tickets, ~ tickets[t].edited,
                      <<job[v].key, t>> \notin skipped'
               PROVE  LET k == job[v].key IN
                        /\ t \in Due(k) /\ tickets[t].born < rows[k].issue =>
                             comp[<<k, t>>] # NoCmp \/ Left(v, t)'
                        /\ comp[<<k, t>>] # NoCmp => Current(k, t) \/ Left(v, t)'
    BY <1>1, <1>2 DEF Covers
  <2> DEFINE k == job[v].key
  <2>1. /\ t \in Due(k) /\ tickets[t].born < rows[k].issue =>
             comp[<<k, t>>] # NoCmp \/ Left(v, t)
        /\ comp[<<k, t>>] # NoCmp => Current(k, t) \/ Left(v, t)
    BY DEF SInv, Covers
  <2>2. k \in Keys
    BY DEF Bound, Busy, Job
  <2>3. comp[<<k, t>>] # NoCmp => t \in Due(k)
    BY <2>2 DEF SInv, FromDue
  <2> QED
    BY <1>4, <2>1, <2>2, <2>3
<1> QED
  BY <1>3, <1>5 DEF SInv

LEMMA WorkerStepSettled ==
  ASSUME ConstantsAssumption, TypeOK, Bound, SInv, NEW w \in Workers, WorkerStep(w)
  PROVE  SInv'
<1>1. ASSUME pc'[w] # "comparing",
             \A v \in Workers \ {w} :
               pc'[v] = pc[v] /\ job'[v] = job[v] /\ seen'[v] = seen[v] /\ todo'[v] = todo[v],
             UNCHANGED <<day, rows, tickets, comp, cmpVer, outrun, skipped>>
      PROVE  SInv'
  <2> DEFINE W == {w}
  <2>1. W \in SUBSET Workers
    OBVIOUS
  <2> QED
    BY <1>1, <2>1, StopStep
<1>2. CASE Poll(w) \/ StartRecompare(w)
  <2>1. /\ pc'[w] # "comparing" /\ \A v \in Workers \ {w} : pc'[v] = pc[v]
        /\ UNCHANGED <<job, seen, todo>>
    BY <1>2 DEF Poll, StartRecompare, TypeOK
  <2>2. UNCHANGED <<day, rows, tickets, comp, cmpVer, outrun, skipped>>
    BY <1>2 DEF Poll, StartRecompare, drawVars, resultVars, ghostVars
  <2> QED
    BY <1>1, <2>1, <2>2
<1>3. ASSUME NEW r \in batch[w], ClaimRow(w, r) \/ SkipClaimed(w, r) \/ TakeDraw(w, r)
      PROVE  SInv'
  <2>1. pc'[w] # "comparing"
    BY <1>3 DEF ClaimRow, SkipClaimed, TakeDraw, AfterJob, TypeOK
  <2>2. \A v \in Workers \ {w} :
           pc'[v] = pc[v] /\ job'[v] = job[v] /\ seen'[v] = seen[v] /\ todo'[v] = todo[v]
    BY <1>3 DEF ClaimRow, SkipClaimed, TakeDraw, TypeOK
  <2>3. UNCHANGED <<day, rows, tickets, comp, cmpVer, outrun, skipped>>
    BY <1>3 DEF ClaimRow, SkipClaimed, TakeDraw, drawVars, resultVars, ghostVars
  <2> QED
    BY <1>1, <2>1, <2>2, <2>3
<1>4. CASE BeginCompare(w)
  <2> DEFINE q == job[w].key
  <2>1. /\ pc'[w] = "comparing" /\ \A v \in Workers \ {w} : pc'[v] = pc[v]
        /\ job' = job /\ seen'[w] = [num |-> rows[q].num, ver |-> rows[q].ver]
        /\ \A v \in Workers \ {w} : seen'[v] = seen[v] /\ todo'[v] = todo[v]
        /\ todo'[w] = {<<t, tickets[t].pick>> : t \in Selected(q)}
        /\ UNCHANGED <<day, rows, tickets, comp, cmpVer, outrun, skipped>>
    BY <1>4 DEF BeginCompare, TypeOK, drawVars, resultVars, ghostVars
  <2>2. /\ \A k : Due(k)' = Due(k) /\ Selected(k)' = Selected(k)
        /\ \A k, t : Current(k, t)' = Current(k, t)
        /\ \A v \in Workers \ {w} : \A t : Left(v, t)' = Left(v, t)
    BY <2>1 DEF Due, Current, Selected, Left
  <2>3. \A t \in Due(q) : Left(w, t)'
    <3> SUFFICES ASSUME NEW t \in Due(q) PROVE \E p \in todo'[w] : p[1] = t
      BY DEF Left
    <3>1. <<t, tickets[t].pick>> \in todo'[w]
      BY <2>1 DEF Due
    <3> QED
      BY <3>1
  <2>4. q \in Keys
    BY <1>4 DEF BeginCompare, Bound, Busy, Job
  <2>5. ServerReadsStand' /\ SameRead'
    BY <2>1 DEF SInv, ServerReadsStand, SameRead, Workers
  <2>6. ReadsTickets'
    <3>1. \A p \in todo'[w] : /\ p[1] \in Selected(q) /\ p[2] = tickets[p[1]].pick
                              /\ tickets[p[1]] # NoTicket
      BY <2>1 DEF Selected, NoTicket
    <3> QED
      BY <2>1, <2>2, <3>1 DEF SInv, ReadsTickets
  <2>7. Covers'
    <3> SUFFICES ASSUME NEW v \in Workers, pc'[v] = "comparing",
                        seen'[v].ver = rows[job[v].key].ver, job[v].key \notin outrun,
                        NEW t \in Tickets, ~ tickets[t].edited, <<job[v].key, t>> \notin skipped
                 PROVE  LET k == job[v].key IN
                          /\ t \in Due(k) /\ tickets[t].born < rows[k].issue =>
                               comp[<<k, t>>] # NoCmp \/ Left(v, t)'
                          /\ comp[<<k, t>>] # NoCmp => Current(k, t) \/ Left(v, t)'
      BY <2>1, <2>2 DEF Covers
    <3>1. CASE v = w
      BY <2>3, <2>4, <3>1 DEF SInv, FromDue
    <3>2. CASE v # w
      BY <2>1, <2>2, <3>2 DEF SInv, Covers
    <3> QED
      BY <3>1, <3>2
  <2>8. FromDue' /\ DrawnBefore' /\ Complete'
    BY <2>1, <2>2 DEF SInv, FromDue, DrawnBefore, Complete
  <2> QED
    BY <2>5, <2>6, <2>7, <2>8 DEF SInv
<1>5. ASSUME NEW p \in todo[w], CompareTicket(w, p) PROVE SInv'
  <2> DEFINE q == job[w].key
             P == {p}
  <2>1. /\ pc[w] = "comparing" /\ p[1] \notin BadTickets /\ Upsert(w, P)
        /\ todo'[w] = todo[w] \ P /\ \A v \in Workers \ {w} : todo'[v] = todo[v]
        /\ UNCHANGED <<day, rows, tickets, pc, job, seen, cmpVer>>
    BY <1>5 DEF CompareTicket, TypeOK, drawVars, ghostVars
  <2>2. P \in SUBSET todo[w] /\ \A r \in P : r[1] \notin BadTickets
    BY <2>1
  <2>3. /\ FromDue'
        /\ outrun \subseteq outrun'
        /\ \A k, t : <<k, t>> \in skipped \ skipped' => k = q /\ p[1] = t
        /\ \A k \in Keys, t \in Tickets :
              IF k = q /\ p[1] = t
              THEN /\ comp'[<<k, t>>] # NoCmp
                   /\ k \notin outrun' /\ ~ tickets[t].edited => Current(k, t)'
              ELSE comp'[<<k, t>>] = comp[<<k, t>>]
    BY <2>1, <2>2, CompareSettled
  <2>4. \A v \in Workers : pc[v] = "comparing" => job[v].key \in Keys
    BY DEF Bound, Busy, Job
  <2>5. \A k : Due(k)' = Due(k) /\ Selected(k)' = Selected(k)
    BY <2>1 DEF Due, Selected
  <2>6. ServerReadsStand' /\ SameRead' /\ ReadsTickets' /\ DrawnBefore'
    BY <2>1, <2>5 DEF SInv, ServerReadsStand, SameRead, ReadsTickets, DrawnBefore
  <2>7. ASSUME NEW k \in Keys, NEW t \in Tickets, k \notin outrun', ~ tickets[t].edited
        PROVE  /\ comp[<<k, t>>] # NoCmp => comp'[<<k, t>>] # NoCmp
               /\ Current(k, t) => Current(k, t)'
               /\ comp'[<<k, t>>] # NoCmp => Current(k, t)' \/ comp[<<k, t>>] # NoCmp
               /\ k = q /\ p[1] = t => comp'[<<k, t>>] # NoCmp /\ Current(k, t)'
    BY <2>1, <2>3, <2>7 DEF Current
  <2>8. ASSUME NEW v \in Workers, NEW t \in Tickets
        PROVE  /\ v # w => (Left(v, t)' <=> Left(v, t))
               /\ Left(w, t) => Left(w, t)' \/ p[1] = t
    BY <2>1, <2>8 DEF Left
  <2>9. Covers'
    <3> SUFFICES ASSUME NEW v \in Workers, pc[v] = "comparing",
                        NEW k \in Keys, k = job[v].key,
                        seen[v].ver = rows[k].ver, k \notin outrun',
                        NEW t \in Tickets, ~ tickets[t].edited, <<k, t>> \notin skipped'
                 PROVE  /\ t \in Due(k) /\ tickets[t].born < rows[k].issue =>
                             comp'[<<k, t>>] # NoCmp \/ Left(v, t)'
                        /\ comp'[<<k, t>>] # NoCmp => Current(k, t)' \/ Left(v, t)'
      BY <2>1, <2>4, <2>5 DEF Covers
    <3>1. <<k, t>> \notin skipped =>
            /\ t \in Due(k) /\ tickets[t].born < rows[k].issue =>
                 comp[<<k, t>>] # NoCmp \/ Left(v, t)
            /\ comp[<<k, t>>] # NoCmp => Current(k, t) \/ Left(v, t)
      BY <2>3 DEF SInv, Covers
    <3>4. <<k, t>> \in skipped => k = q /\ p[1] = t
      BY <2>3
    <3>2. /\ comp[<<k, t>>] # NoCmp => comp'[<<k, t>>] # NoCmp
          /\ Current(k, t) => Current(k, t)'
          /\ comp'[<<k, t>>] # NoCmp => Current(k, t)' \/ comp[<<k, t>>] # NoCmp
          /\ k = q /\ p[1] = t => comp'[<<k, t>>] # NoCmp /\ Current(k, t)'
      BY <2>7
    <3>3. Left(v, t) => Left(v, t)' \/ (k = q /\ p[1] = t)
      BY <2>8
    <3> QED
      BY <3>1, <3>2, <3>3, <3>4
  <2>10. Complete'
    <3> SUFFICES ASSUME NEW k \in Keys, rows[k] # NoRow, cmpVer[k] = rows[k].ver,
                        k \notin outrun', NEW t \in Tickets, ~ tickets[t].edited,
                        <<k, t>> \notin skipped'
                 PROVE  /\ t \in Due(k) /\ tickets[t].born < rows[k].issue
                             => comp'[<<k, t>>] # NoCmp
                        /\ comp'[<<k, t>>] # NoCmp => Current(k, t)'
      BY <2>1, <2>5 DEF Complete
    <3>1. <<k, t>> \notin skipped =>
            /\ t \in Due(k) /\ tickets[t].born < rows[k].issue => comp[<<k, t>>] # NoCmp
            /\ comp[<<k, t>>] # NoCmp => Current(k, t)
      BY <2>3 DEF SInv, Complete
    <3>2. <<k, t>> \in skipped => k = q /\ p[1] = t
      BY <2>3
    <3> QED
      BY <2>7, <3>1, <3>2
  <2> QED
    BY <2>3, <2>6, <2>9, <2>10 DEF SInv
<1>6. ASSUME NEW p \in todo[w], SkipBadTicket(w, p) PROVE SInv'
  BY <1>6, SkipSettled DEF SkipBadTicket
<1>7. CASE FinishCompare(w)
  <2> DEFINE q == job[w].key
             P == {p \in todo[w] : p[1] \notin BadTickets}
  <2>1. /\ pc[w] = "comparing" /\ Upsert(w, P) /\ pc'[w] # "comparing"
        /\ \A v \in Workers \ {w} : pc'[v] = pc[v] /\ job'[v] = job[v] /\ seen'[v] = seen[v]
                                    /\ todo'[v] = todo[v]
        /\ UNCHANGED <<day, rows, tickets>>
    BY <1>7 DEF FinishCompare, AfterJob, TypeOK, drawVars
  <2>2. P \in SUBSET todo[w] /\ \A p \in P : p[1] \notin BadTickets
    OBVIOUS
  <2>3. /\ FromDue'
        /\ P # {} /\ seen[w].ver # rows[q].ver => q \in outrun'
        /\ outrun \subseteq outrun'
        /\ \A k, t : <<k, t>> \in skipped \ skipped' => k = q /\ \E p \in P : p[1] = t
        /\ \A k \in Keys, t \in Tickets :
              IF k = q /\ \E p \in P : p[1] = t
              THEN /\ comp'[<<k, t>>] # NoCmp
                   /\ k \notin outrun' /\ ~ tickets[t].edited => Current(k, t)'
              ELSE comp'[<<k, t>>] = comp[<<k, t>>]
    BY <2>1, <2>2, CompareSettled
  <2>4. /\ q \in Keys /\ rows[q].ver \in Nat /\ cmpVer[q] \in Nat /\ seen[w].ver \in Nat
        /\ cmpVer[q] <= rows[q].ver /\ seen[w].ver <= rows[q].ver
    BY <2>1, RowStays DEF Bound, Busy, Job, TypeOK, Row
  <2>5. \A k : Due(k)' = Due(k) /\ Selected(k)' = Selected(k)
    BY <2>1 DEF Due, Selected
  <2>6. ServerReadsStand' /\ SameRead' /\ ReadsTickets' /\ DrawnBefore'
    <3>1. ServerReadsStand'
      BY <2>1 DEF SInv, ServerReadsStand, Workers
    <3>2. SameRead'
      BY <2>1 DEF SInv, SameRead
    <3>3. ReadsTickets'
      BY <2>1, <2>5 DEF SInv, ReadsTickets
    <3> QED
      BY <2>1, <3>1, <3>2, <3>3 DEF SInv, DrawnBefore
  <2>7. ASSUME NEW k \in Keys, NEW t \in Tickets, k \notin outrun', ~ tickets[t].edited
        PROVE  /\ comp[<<k, t>>] # NoCmp => comp'[<<k, t>>] # NoCmp
               /\ Current(k, t) => Current(k, t)'
               /\ comp'[<<k, t>>] # NoCmp => Current(k, t)' \/ comp[<<k, t>>] # NoCmp
               /\ k = q /\ (\E p \in P : p[1] = t) => comp'[<<k, t>>] # NoCmp /\ Current(k, t)'
    BY <2>1, <2>3, <2>7 DEF Current
  <2>8. Covers'
    <3> SUFFICES ASSUME NEW v \in Workers, v # w, pc[v] = "comparing",
                        NEW k \in Keys, k = job[v].key,
                        seen[v].ver = rows[k].ver, k \notin outrun',
                        NEW t \in Tickets, ~ tickets[t].edited, <<k, t>> \notin skipped'
                 PROVE  /\ t \in Due(k) /\ tickets[t].born < rows[k].issue =>
                             comp'[<<k, t>>] # NoCmp \/ Left(v, t)
                        /\ comp'[<<k, t>>] # NoCmp => Current(k, t)' \/ Left(v, t)
      <4>1. \A v \in Workers : pc[v] = "comparing" => job[v].key \in Keys
        BY DEF Bound, Busy, Job
      <4> QED
        BY <2>1, <2>5, <4>1 DEF Covers, Left
    <3>1. <<k, t>> \notin skipped =>
            /\ t \in Due(k) /\ tickets[t].born < rows[k].issue =>
                 comp[<<k, t>>] # NoCmp \/ Left(v, t)
            /\ comp[<<k, t>>] # NoCmp => Current(k, t) \/ Left(v, t)
      BY <2>3 DEF SInv, Covers
    <3>2. /\ comp[<<k, t>>] # NoCmp => comp'[<<k, t>>] # NoCmp
          /\ Current(k, t) => Current(k, t)'
          /\ comp'[<<k, t>>] # NoCmp => Current(k, t)' \/ comp[<<k, t>>] # NoCmp
      BY <2>7
    <3>3. <<k, t>> \in skipped => comp'[<<k, t>>] # NoCmp /\ Current(k, t)'
      BY <2>3, <2>7
    <3> QED
      BY <3>1, <3>2, <3>3
  <2>9. Complete'
    <3> SUFFICES ASSUME NEW k \in Keys, rows[k] # NoRow, cmpVer'[k] = rows[k].ver,
                        k \notin outrun', NEW t \in Tickets, ~ tickets[t].edited,
                        <<k, t>> \notin skipped'
                 PROVE  /\ t \in Due(k) /\ tickets[t].born < rows[k].issue
                             => comp'[<<k, t>>] # NoCmp
                        /\ comp'[<<k, t>>] # NoCmp => Current(k, t)'
      BY <2>1, <2>5 DEF Complete
    <3>1. ASSUME cmpVer[k] = rows[k].ver, <<k, t>> \notin skipped
          PROVE  /\ t \in Due(k) /\ tickets[t].born < rows[k].issue => comp[<<k, t>>] # NoCmp
                 /\ comp[<<k, t>>] # NoCmp => Current(k, t)
      BY <2>3, <3>1 DEF SInv, Complete
    <3>4. CASE <<k, t>> \in skipped
      BY <2>3, <2>7, <3>4
    <3>2. CASE cmpVer[k] = rows[k].ver /\ <<k, t>> \notin skipped
      BY <2>7, <3>1, <3>2
    <3>3. CASE cmpVer[k] # rows[k].ver /\ <<k, t>> \notin skipped
      <4>1. k = q /\ seen[w].ver = rows[q].ver
        BY <1>7, <2>4, <3>3 DEF FinishCompare, TypeOK
      <4>2. /\ t \in Due(q) /\ tickets[t].born < rows[q].issue =>
                 comp[<<q, t>>] # NoCmp \/ Left(w, t)
            /\ comp[<<q, t>>] # NoCmp => Current(q, t) \/ Left(w, t)
        BY <2>1, <2>3, <3>3, <4>1 DEF SInv, Covers
      <4>3. Left(w, t) /\ t \in Due(q) => \E p \in P : p[1] = t
        BY DEF Left, Due
      <4>4. comp[<<q, t>>] # NoCmp => t \in Due(q)
        BY <2>4 DEF SInv, FromDue
      <4> QED
        BY <2>7, <4>1, <4>2, <4>3, <4>4
    <3> QED
      BY <3>2, <3>3, <3>4
  <2> QED
    BY <2>3, <2>6, <2>8, <2>9 DEF SInv
<1> QED
  BY <1>2, <1>3, <1>4, <1>5, <1>6, <1>7 DEF WorkerStep

LEMMA SettledStep ==
  ASSUME ConstantsAssumption, TypeOK, Bound, SInv, [Next]_vars
  PROVE  SInv'
<1>1. ASSUME NEW w \in Workers, AbortCompare(w) PROVE SInv'
  <2> DEFINE W == {w}
  <2>1. pc'[w] # "comparing"
    BY <1>1 DEF AbortCompare, AfterJob, TypeOK
  <2>2. \A v \in Workers \ W :
           pc'[v] = pc[v] /\ job'[v] = job[v] /\ seen'[v] = seen[v] /\ todo'[v] = todo[v]
    BY <1>1 DEF AbortCompare, TypeOK
  <2>3. UNCHANGED <<day, rows, tickets, comp, cmpVer, outrun, skipped>>
    BY <1>1 DEF AbortCompare, drawVars, resultVars
  <2>4. W \in SUBSET Workers
    OBVIOUS
  <2> QED
    BY <2>1, <2>2, <2>3, <2>4, StopStep
<1>2. ASSUME NEW W \in SUBSET Workers, Crash(W) PROVE SInv'
  <2>1. /\ \A v \in W : pc'[v] # "comparing"
        /\ \A v \in Workers \ W :
             pc'[v] = pc[v] /\ job'[v] = job[v] /\ seen'[v] = seen[v] /\ todo'[v] = todo[v]
    BY <1>2 DEF Crash
  <2>2. UNCHANGED <<day, rows, tickets, comp, cmpVer, outrun, skipped>>
    BY <1>2 DEF Crash, drawVars, resultVars
  <2> QED
    BY <2>1, <2>2, StopStep
<1>3. CASE NextDay \/ UNCHANGED vars
  <2>1. /\ UNCHANGED <<rows, tickets, comp, cmpVer, outrun, skipped, pc, job, seen, todo>>
        /\ day' \in Nat /\ day <= day'
    BY <1>3 DEF NextDay, vars, drawVars, resultVars, workerVars, ghostVars, TypeOK, Issues
  <2>2. (\A k \in Keys : RowMoves(k)) /\ \A t \in Tickets : TicketMoves(t)
    BY <2>1 DEF RowMoves, TicketMoves
  <2> QED
    BY <2>1, <2>2, QuietStep
<1>5. ASSUME NEW w \in Workers, NEW p \in todo[w], TicketFails(w, p) PROVE SInv'
  BY <1>5, SkipSettled DEF TicketFails
<1>4. ASSUME FaultStep PROVE SInv'
  BY <1>1, <1>2, <1>4, <1>5 DEF FaultStep, Workers
<1> QED
  BY <1>3, <1>4, DrawStepSettled, UserStepSettled, WorkerStepSettled DEF Next

LEMMA SettledInductive == Spec => []SInv
<1>1. Init => SInv
  BY DEF Init, SInv, ServerReadsStand, SameRead, ReadsTickets, FromDue, DrawnBefore, Covers,
         Complete, Workers
<1>2. IInv /\ SInv /\ [Next]_vars => SInv'
  BY SettledStep, ConstantsAssumption DEF IInv
<1> QED
  BY <1>1, <1>2, Inductive, PTL DEF Spec

(* Once a version of a draw has been compared to the end, it is and stays  *)
(* compared for every ticket that is not edited and whose own comparison   *)
(* did not fail, with the ticket's own numbers, whatever is stored,        *)
(* corrected, forced, bought, interrupted or compared by commands in the   *)
(* meantime and whatever happens to other tickets, unless a comparison     *)
(* wrote from a version that had been replaced (process_pending,           *)
(* _compare_one).                                                          *)
THEOREM SettledForAll == Spec => []SettledIsComplete
<1>1. SInv => SettledIsComplete
  BY DEF SInv, Complete, Due, Current, Settled, SettledIsComplete
<1> QED
  BY <1>1, SettledInductive, PTL

(* The one connection keeps corrections out of a running comparison of the *)
(* server (build_engine, DrawCorrectService.correct, _compare_one).        *)
THEOREM ServerIsNeverOutrun == Spec => []ServerReadsStand
<1>1. SInv => ServerReadsStand
  BY DEF SInv
<1> QED
  BY <1>1, SettledInductive, PTL

(* So that without commands no result comes from a replaced version: the   *)
(* exception of SettledForAll is the recompare command's alone.            *)
THEOREM NothingOutrun ==
  ASSUME CliWorkers = {}
  PROVE  Spec => [](outrun = {})
<1>1. Init => outrun = {}
  BY DEF Init
<1>2. IInv /\ SInv /\ outrun = {} /\ [Next]_vars => (outrun = {})'
  <2> SUFFICES ASSUME IInv, SInv, outrun = {}, [Next]_vars PROVE outrun' = {}
    OBVIOUS
  <2>1. ASSUME NEW w \in Workers, NEW P, pc[w] = "comparing", Upsert(w, P)
        PROVE  outrun' = {}
    <3>1. seen[w] = [num |-> rows[job[w].key].num, ver |-> rows[job[w].key].ver]
      BY <2>1 DEF SInv, ServerReadsStand, Workers
    <3> QED
      BY <2>1, <3>1 DEF Upsert, Outruns
  <2>2. ASSUME NEW w \in Workers, WorkerStep(w) PROVE outrun' = {}
    <3>1. CASE FinishCompare(w) \/ \E p \in todo[w] : CompareTicket(w, p)
      BY <2>1, <3>1 DEF FinishCompare, CompareTicket
    <3>2. CASE ~ (FinishCompare(w) \/ \E p \in todo[w] : CompareTicket(w, p))
      BY <2>2, <3>2 DEF WorkerStep, Poll, StartRecompare, ClaimRow, SkipClaimed, TakeDraw,
                        BeginCompare, SkipBadTicket, SkipTicket, resultVars
    <3> QED
      BY <3>1, <3>2
  <2>3. CASE NextDay \/ DrawStep \/ FaultStep \/ UNCHANGED vars
    BY <2>3 DEF NextDay, DrawStep, StoreNewDraw, UpgradeDraw, CheckHistory, BackfillHistory,
                ForceVerify, Correct, FaultStep, AbortCompare, TicketFails, SkipTicket, Crash,
                vars, resultVars
  <2>4. CASE UserStep
    BY <2>4 DEF UserStep, CreateTicket, UpdateTicket, DeleteTicket, MarkClaimed, ExpireClaims,
                resultVars
  <2> QED
    BY <2>2, <2>3, <2>4 DEF Next
<1> QED
  BY <1>1, <1>2, Inductive, SettledInductive, PTL DEF Spec

-----------------------------------------------------------------------------
(* Costs.  A result has its ticket's cost, or a comparison of the draw is  *)
(* about to book it, or died on the way.                                   *)
Booked ==
  \A k \in Keys, t \in Tickets : comp[<<k, t>>] # NoCmp /\ ~ tickets[t].edited =>
    \/ t \in cost[<<k, Owner[t]>>]
    \/ k \in torn
    \/ \E w \in Workers : pc[w] = "comparing" /\ job[w].key = k

(* Steps that write neither results nor costs, and end no comparison       *)
(* without a trace.                                                        *)
LEMMA StillBooked ==
  ASSUME Booked, UNCHANGED <<comp, cost>>, torn \subseteq torn',
         \A t \in Tickets : tickets[t].edited => tickets'[t].edited,
         \A v \in Workers : pc[v] = "comparing" =>
           (pc'[v] = "comparing" /\ job'[v] = job[v]) \/ job[v].key \in torn',
         \A t \in Tickets : tickets[t].edited \in BOOLEAN /\ tickets'[t].edited \in BOOLEAN
  PROVE  Booked'
BY DEF Booked

LEMMA CostStep ==
  ASSUME ConstantsAssumption, TypeOK, TypeOK', Bound, SInv, SInv', Booked, [Next]_vars
  PROVE  Booked'
<1>0. \A t \in Tickets : tickets[t].edited \in BOOLEAN /\ tickets'[t].edited \in BOOLEAN
  <2>1. \A x \in Ticket \cup {NoTicket} : x.edited \in BOOLEAN
    <3>1. \A x \in Ticket : x.edited \in BOOLEAN
      BY DEF Ticket
    <3>2. NoTicket.edited \in BOOLEAN
      BY DEF NoTicket
    <3> QED
      BY <3>1, <3>2
  <2>2. \A t \in Tickets : tickets[t] \in Ticket \cup {NoTicket}
    BY DEF TypeOK
  <2>3. \A t \in Tickets : tickets'[t] \in Ticket \cup {NoTicket}
    BY DEF TypeOK
  <2> QED
    BY <2>1, <2>2, <2>3
<1>1. ASSUME UNCHANGED <<comp, cost, torn, pc, job>>,
             \A t \in Tickets : tickets[t].edited => tickets'[t].edited
      PROVE  Booked'
  BY <1>0, <1>1, StillBooked
<1>2. CASE NextDay \/ DrawStep \/ UNCHANGED vars
  BY <1>1, <1>2 DEF NextDay, DrawStep, StoreNewDraw, UpgradeDraw, CheckHistory,
     BackfillHistory, ForceVerify, Correct, vars, drawVars, resultVars, workerVars, ghostVars
<1>3. ASSUME UserStep PROVE Booked'
  <2>1. ASSUME NEW t \in Tickets, NEW n \in Numbers, CreateTicket(t, n) PROVE Booked'
    <3>1. \A s \in Tickets : tickets[s].edited => tickets'[s].edited
      BY <2>1 DEF CreateTicket, NoTicket, TypeOK
    <3> QED
      BY <1>1, <2>1, <3>1 DEF CreateTicket, resultVars, workerVars, ghostVars
  <2>2. ASSUME NEW t \in Tickets, NEW n \in Numbers, NEW st \in {"on", "off"},
               UpdateTicket(t, n, st)
        PROVE  Booked'
    <3>1. tickets[t] \in Ticket
      BY <2>2 DEF UpdateTicket, TypeOK
    <3>2. tickets'[t].edited = TRUE /\ \A s \in Tickets \ {t} : tickets'[s] = tickets[s]
      BY <2>2, <3>1 DEF UpdateTicket, TypeOK, Ticket
    <3> QED
      BY <1>1, <2>2, <3>2 DEF UpdateTicket, resultVars, workerVars, ghostVars
  <2>3. ASSUME NEW t \in Tickets, DeleteTicket(t) PROVE Booked'
    <3>1. tickets[t] \in Ticket
      BY <2>3 DEF DeleteTicket, TypeOK
    <3>2. tickets'[t].edited = TRUE /\ \A s \in Tickets \ {t} : tickets'[s] = tickets[s]
      BY <2>3, <3>1 DEF DeleteTicket, TypeOK, Ticket
    <3> QED
      BY <1>1, <2>3, <3>2 DEF DeleteTicket, resultVars, workerVars, ghostVars
  <2>4. ASSUME (\E x : MarkClaimed(x)) \/ (\E S : ExpireClaims(S)) PROVE Booked'
    BY <1>1, <2>4 DEF MarkClaimed, ExpireClaims, workerVars, ghostVars
  <2> QED
    BY <1>3, <2>1, <2>2, <2>3, <2>4 DEF UserStep
<1>4. ASSUME NEW w \in Workers, Poll(w) \/ StartRecompare(w) \/ BeginCompare(w)
                                \/ \E r \in batch[w] : ClaimRow(w, r) \/ SkipClaimed(w, r)
                                                        \/ TakeDraw(w, r)
      PROVE  Booked'
  <2>1. \A v \in Workers : pc[v] = "comparing" => pc'[v] = "comparing" /\ job'[v] = job[v]
    BY <1>4 DEF Poll, StartRecompare, BeginCompare, ClaimRow, SkipClaimed, TakeDraw, TypeOK
  <2>2. UNCHANGED <<tickets, comp, cost, torn>>
    BY <1>4 DEF Poll, StartRecompare, BeginCompare, ClaimRow, SkipClaimed, TakeDraw, resultVars,
                ghostVars
  <2> QED
    BY <1>0, <2>1, <2>2, StillBooked
<1>5. ASSUME NEW w \in Workers, NEW p \in todo[w], CompareTicket(w, p)
      PROVE  Booked'
  <2>1. p \in Tickets \X Numbers /\ {p} \in SUBSET (Tickets \X Numbers)
    BY DEF TypeOK
  <2>2. pc[w] = "comparing" /\ Upsert(w, {p}) /\ UNCHANGED <<tickets, cost, torn, pc, job>>
    BY <1>5 DEF CompareTicket, ghostVars
  <2>3. ASSUME NEW k \in Keys, NEW t \in Tickets, comp'[<<k, t>>] # comp[<<k, t>>]
        PROVE  k = job[w].key
    BY <2>1, <2>2, <2>3, UpsertWrites
  <2> QED
    BY <2>2, <2>3 DEF Booked
<1>6. ASSUME NEW w \in Workers, NEW p \in todo[w], SkipTicket(w, p)
      PROVE  Booked'
  BY <1>1, <1>6 DEF SkipTicket, ghostVars
<1>7. ASSUME NEW w \in Workers, FinishCompare(w)
      PROVE  Booked'
  <2> DEFINE q == job[w].key
             P == {p \in todo[w] : p[1] \notin BadTickets}
  <2>1. /\ pc[w] = "comparing" /\ Upsert(w, P) /\ UpsertCosts(q) /\ tickets' = tickets
        /\ torn' = torn \ {q}
        /\ \A v \in Workers \ {w} : pc'[v] = pc[v] /\ job'[v] = job[v]
    BY <1>7 DEF FinishCompare, TypeOK
  <2>2. P \in SUBSET (Tickets \X Numbers)
    BY DEF TypeOK
  <2> SUFFICES ASSUME NEW k \in Keys, NEW t \in Tickets, comp'[<<k, t>>] # NoCmp,
                      ~ tickets[t].edited
               PROVE  \/ t \in cost'[<<k, Owner[t]>>]
                      \/ k \in torn'
                      \/ \E v \in Workers : pc'[v] = "comparing" /\ job'[v].key = k
    BY <2>1 DEF Booked
  <2>3. /\ <<k, Owner[t]>> \in Keys \X Users
        /\ cost'[<<k, Owner[t]>>] =
             LET on == {s \in Tickets : Owner[s] = Owner[t] /\ tickets[s].st = "on"}
             IN  IF k = q /\ on # {} THEN on ELSE cost[<<k, Owner[t]>>]
    BY <2>1 DEF UpsertCosts, ConstantsAssumption
  <2>4. CASE k = q
    <3>1. tickets[t].st = "on"
      BY <2>1 DEF SInv, FromDue, Due, Selected
    <3> QED
      BY <2>3, <2>4, <3>1
  <2>5. CASE k # q
    <3>1. comp[<<k, t>>] # NoCmp /\ cost'[<<k, Owner[t]>>] = cost[<<k, Owner[t]>>]
      BY <2>1, <2>2, <2>3, <2>5, UpsertWrites
    <3>2. \/ t \in cost[<<k, Owner[t]>>]
          \/ k \in torn
          \/ \E v \in Workers : pc[v] = "comparing" /\ job[v].key = k
      BY <3>1 DEF Booked
    <3> QED
      BY <2>1, <2>5, <3>1, <3>2
  <2> QED
    BY <2>4, <2>5
<1>8. ASSUME NEW W \in SUBSET Workers, torn' = torn \cup Halfway(W),
             UNCHANGED <<tickets, comp, cost>>,
             \A v \in Workers \ W : pc'[v] = pc[v] /\ job'[v] = job[v]
      PROVE  Booked'
  <2>1. \A v \in W : pc[v] = "comparing" => job[v].key \in torn'
    BY <1>8 DEF Halfway
  <2> QED
    BY <1>0, <1>8, <2>1, StillBooked
<1>9. ASSUME NEW w \in Workers, AbortCompare(w) PROVE Booked'
  <2>1. \A v \in Workers \ {w} : pc'[v] = pc[v] /\ job'[v] = job[v]
    BY <1>9 DEF AbortCompare, TypeOK
  <2>2. torn' = torn \cup Halfway({w}) /\ UNCHANGED <<tickets, comp, cost>>
    BY <1>9 DEF AbortCompare, resultVars
  <2> QED
    BY <1>8, <2>1, <2>2
<1>10. ASSUME NEW W \in SUBSET Workers, Crash(W) PROVE Booked'
  <2>1. \A v \in Workers \ W : pc'[v] = pc[v] /\ job'[v] = job[v]
    BY <1>10 DEF Crash
  <2>2. torn' = torn \cup Halfway(W) /\ UNCHANGED <<tickets, comp, cost>>
    BY <1>10 DEF Crash, resultVars
  <2> QED
    BY <1>8, <2>1, <2>2
<1>11. ASSUME FaultStep PROVE Booked'
  BY <1>6, <1>9, <1>10, <1>11 DEF FaultStep, TicketFails, Workers
<1>12. ASSUME NEW w \in Workers, WorkerStep(w) PROVE Booked'
  BY <1>4, <1>5, <1>6, <1>7, <1>12 DEF WorkerStep, SkipBadTicket
<1> QED
  BY <1>2, <1>3, <1>11, <1>12 DEF Next

(* A result has its cost whenever its draw is not being compared, under    *)
(* edits of other tickets, commands, corrections and failures, unless a    *)
(* comparison of the draw died part-way and none has come since            *)
(* (_compare_one commits results ticket by ticket and costs at the end).   *)
THEOREM CostsFollowResults == Spec => []CostsWithResults
<1>1. Init => Booked
  BY DEF Init, Booked
<1>2. IInv /\ IInv' /\ SInv /\ SInv' /\ Booked /\ [Next]_vars => Booked'
  BY CostStep, ConstantsAssumption DEF IInv
<1>3. Booked => CostsWithResults
  BY DEF Booked, CostsWithResults
<1> QED
  BY <1>1, <1>2, <1>3, Inductive, SettledInductive, PTL DEF Spec

-----------------------------------------------------------------------------
(* What the two promises that do not hold come down to.                    *)

(* Crashes and failed comparisons are all that keeps the outbox from       *)
(* keeping its promise: without them every draw that got an outbox row is  *)
(* compared in its current version or about to be (process_pending).       *)
THEOREM OnlyFaultsLose ==
  ASSUME MaxFaults = 0
  PROVE  Spec => []CrashRecoverable
<1>1. Init => abandoned = {}
  BY DEF Init
<1>2. IInv /\ abandoned = {} /\ [Next]_vars => (abandoned = {})'
  <2> SUFFICES ASSUME IInv, abandoned = {}, [Next]_vars PROVE abandoned' = {}
    OBVIOUS
  <2>1. ~ FaultStep
    <3>1. ~ (faults < MaxFaults)
      BY DEF IInv, TypeOK
    <3> QED
      BY <3>1 DEF FaultStep, AbortCompare, TicketFails, Crash
  <2>2. ASSUME NEW w \in Workers, WorkerStep(w) PROVE abandoned' = {}
    BY <2>2 DEF WorkerStep, Poll, StartRecompare, ClaimRow, SkipClaimed, TakeDraw, BeginCompare,
                CompareTicket, SkipBadTicket, SkipTicket, FinishCompare, ghostVars
  <2>3. CASE NextDay \/ UserStep \/ UNCHANGED vars
    BY <2>3, AsideSteps DEF Aside, UserStep, vars, ghostVars
  <2>4. CASE DrawStep
    BY <2>4 DEF DrawStep, StoreNewDraw, UpgradeDraw, CheckHistory, BackfillHistory, ForceVerify,
                Correct, ghostVars
  <2> QED
    BY <2>1, <2>2, <2>3, <2>4 DEF Next
<1>3. IInv /\ abandoned = {} => CrashRecoverable
  BY DEF IInv, NoLostDraw, CrashRecoverable
<1> QED
  BY <1>1, <1>2, <1>3, Inductive, PTL DEF Spec

(* A row is under the key of its issue, and a key that was reported has a  *)
(* row.                                                                    *)
Keyed ==
  /\ \A k \in Keys : rows[k] # NoRow => KeyOf[rows[k].issue] = k
  /\ \A i \in reported : rows[KeyOf[i]] # NoRow

LEMMA KeyedStep ==
  ASSUME ConstantsAssumption, TypeOK, TypeOK', Keyed, [Next]_vars
  PROVE  Keyed'
<1> USE ConstantsAssumption DEF ConstantsAssumption
<1>1. \A i \in reported : i \in Issues /\ KeyOf[i] \in Keys
  BY DEF TypeOK
(* A step that keeps the rows' issues and reports only what is there.      *)
<1>2. ASSUME \A k \in Keys : rows[k] # NoRow =>
               rows'[k] # NoRow /\ rows'[k].issue = rows[k].issue,
             \A k \in Keys : rows[k] = NoRow /\ rows'[k] # NoRow => KeyOf[rows'[k].issue] = k,
             \A i \in reported' : i \in reported \/ rows'[KeyOf[i]] # NoRow
      PROVE  Keyed'
  BY <1>1, <1>2 DEF Keyed
<1>3. CASE UNCHANGED <<rows, reported>>
  BY <1>3 DEF Keyed
<1>4. ASSUME NEW i \in Issues, NEW n \in Numbers, NEW single \in BOOLEAN,
             StoreNewDraw(i, n, single)
      PROVE  Keyed'
  <2>1. /\ rows[KeyOf[i]] = NoRow /\ rows'[KeyOf[i]] = NewRow(i, n, single)
        /\ \A k \in Keys \ {KeyOf[i]} : rows'[k] = rows[k]
        /\ reported' = reported \cup {i}
    BY <1>4 DEF StoreNewDraw, TypeOK
  <2>2. NewRow(i, n, single).issue = i /\ NewRow(i, n, single) # NoRow
    BY NoRowVer DEF NewRow
  <2> QED
    BY <1>2, <2>1, <2>2
<1>5. ASSUME NEW i \in Issues, NEW confirms \in BOOLEAN, UpgradeDraw(i, confirms)
      PROVE  Keyed'
  <2> DEFINE q == KeyOf[i]
  <2>1. rows[q] \in Row
    BY <1>5, RowStays DEF UpgradeDraw
  <2>2. rows'[q].issue = rows[q].issue /\ rows'[q].ver = rows[q].ver /\ rows'[q].ver # 0
    BY <1>5, <2>1 DEF UpgradeDraw, TypeOK, Row
  <2>3. /\ \A k \in Keys \ {q} : rows'[k] = rows[k]
        /\ rows[q] # NoRow /\ rows'[q] # NoRow
        /\ reported' = reported \cup {i}
    BY <1>5, <2>2, NoRowVer DEF UpgradeDraw, TypeOK
  <2> QED
    BY <1>2, <2>2, <2>3
<1>6. ASSUME NEW I \in SUBSET Issues, BackfillHistory(I) PROVE Keyed'
  <2>1. PICK f \in [I -> Numbers] :
          rows' = [k \in Keys |->
                     IF rows[k] = NoRow /\ \E i \in I : KeyOf[i] = k
                     THEN LET i == CHOOSE i \in I : KeyOf[i] = k
                          IN  NewRow(i, f[i], TRUE)
                     ELSE rows[k]]
    BY <1>6 DEF BackfillHistory
  <2>2. \A i, n : NewRow(i, n, TRUE).issue = i
    BY DEF NewRow
  <2>3. ASSUME NEW k \in Keys, rows[k] = NoRow, rows'[k] # NoRow PROVE KeyOf[rows'[k].issue] = k
    <3> DEFINE i == CHOOSE i \in I : KeyOf[i] = k
    <3>1. \E j \in I : KeyOf[j] = k
      BY <2>1, <2>3
    <3>2. i \in I /\ KeyOf[i] = k
      BY <3>1
    <3>3. rows'[k] = NewRow(i, f[i], TRUE)
      BY <2>1, <2>3, <3>1
    <3> HIDE DEF i
    <3> QED
      BY <2>2, <3>2, <3>3
  <2>4. \A k \in Keys : rows[k] # NoRow => rows'[k] = rows[k]
    BY <2>1
  <2> QED
    BY <1>2, <1>6, <2>3, <2>4 DEF BackfillHistory
<1>7. ASSUME NEW k \in Keys, NEW n \in Numbers, Correct(k, n) PROVE Keyed'
  <2>1. rows[k] # NoRow /\ rows[k] \in Row
    BY <1>7, RowStays DEF Correct
  <2>2. rows'[k].issue = rows[k].issue /\ rows'[k].ver = rows[k].ver + 1
    BY <1>7, <2>1 DEF Correct, TypeOK, Row
  <2>3. \A q \in Keys \ {k} : rows'[q] = rows[q]
    BY <1>7 DEF Correct, TypeOK
  <2>4. rows'[k] # NoRow
    BY <2>1, <2>2, NoRowVer DEF Row
  <2> QED
    BY <1>2, <1>7, <2>1, <2>2, <2>3, <2>4 DEF Correct
<1>8. ASSUME CheckHistory \/ \E k \in Keys : ForceVerify(k) PROVE UNCHANGED <<rows, reported>>
  BY <1>8 DEF CheckHistory, ForceVerify, ghostVars
<1>9. ASSUME NEW w \in Workers, WorkerStep(w) PROVE UNCHANGED <<rows, reported>>
  BY <1>9 DEF WorkerStep, Poll, StartRecompare, ClaimRow, SkipClaimed, TakeDraw, BeginCompare,
              CompareTicket, SkipBadTicket, SkipTicket, FinishCompare, drawVars, ghostVars
<1>10. NextDay \/ UserStep \/ FaultStep \/ UNCHANGED vars => UNCHANGED <<rows, reported>>
  BY DEF NextDay, UserStep, CreateTicket, UpdateTicket, DeleteTicket, MarkClaimed, ExpireClaims,
         FaultStep, AbortCompare, TicketFails, SkipTicket, Crash, vars, drawVars, ghostVars
<1> QED
  BY <1>3, <1>4, <1>5, <1>6, <1>7, <1>8, <1>9, <1>10 DEF Next, DrawStep

(* stored=True can only be wrong for an issue that shares its number with  *)
(* another one: within a year, as long as numbers without a year are       *)
(* distinct, what is reported is in the database (normalize_draw_no,       *)
(* FetchService._store).                                                   *)
THEOREM OneKeyEach ==
  ASSUME \A i, j \in Issues : KeyOf[i] = KeyOf[j] => i = j
  PROVE  Spec => []StoredIsThisIssue
<1>1. Init => Keyed
  BY DEF Init, Keyed
<1>2. IInv /\ IInv' /\ Keyed /\ [Next]_vars => Keyed'
  BY KeyedStep, ConstantsAssumption DEF IInv
<1>3. IInv /\ Keyed => StoredIsThisIssue
  <2> SUFFICES ASSUME IInv, Keyed, NEW i \in reported PROVE rows[KeyOf[i]].issue = i
    BY DEF StoredIsThisIssue
  <2>1. i \in Issues /\ KeyOf[i] \in Keys /\ rows[KeyOf[i]] # NoRow
    BY ConstantsAssumption DEF IInv, TypeOK, Keyed, ConstantsAssumption
  <2>2. rows[KeyOf[i]] \in Row
    BY <2>1, RowStays DEF IInv
  <2>3. rows[KeyOf[i]].issue \in Issues /\ KeyOf[rows[KeyOf[i]].issue] = KeyOf[i]
    BY <2>1, <2>2 DEF Keyed, Row
  <2> QED
    BY <2>1, <2>3
<1> QED
  BY <1>1, <1>2, <1>3, Inductive, PTL DEF Spec
=============================================================================
