------------------------ MODULE DrawOutbox_refinement ------------------------
(***************************************************************************)
(* DrawOutbox implements DrawLedger: every step of the pipeline, seen      *)
(* through Stored, Owed and Compared, is a step of the ledger or changes   *)
(* nothing in it.                                                          *)
(***************************************************************************)
EXTENDS DrawOutbox_proofs

OwedSet    == {k \in Stored : Owed(k)}
LedgerVars == <<Stored, OwedSet, Compared, abandoned, silent>>

(* What the ledger shows of draw k depends on these only.                  *)
LEMMA SameView ==
  ASSUME UNCHANGED <<rows, cmpVer, abandoned, silent>>,
         \A k \in Stored : Owed(k)' <=> Owed(k)
  PROVE  UNCHANGED LedgerVars
BY DEF LedgerVars, OwedSet, Stored, Compared

(* A worker that works on k keeps k owed as long as nothing else happens.  *)
LEMMA SameOwed ==
  ASSUME NEW k, rows'[k].ver = rows[k].ver, outbox' = outbox,
         \A w \in Workers : Working(w, k)' <=> Working(w, k)
  PROVE  Owed(k)' <=> Owed(k)
BY DEF Owed, Pending

(* A new outbox row for q: the ledger's Ask.                               *)
LEMMA EnqueueAsks ==
  ASSUME TypeOK, NEW q \in Keys, Enqueue(q), rows'[q] # NoRow,
         rows' = [rows EXCEPT ![q] = rows'[q]],
         UNCHANGED workerVars
  PROVE  /\ OwedSet' = OwedSet \cup {q}
         /\ silent' = silent \ {q}
         /\ Stored' = Stored \cup {q}
<1>1. outbox' = outbox \cup {[id |-> nextId, key |-> q]} /\ silent' = silent \ {q}
  BY DEF Enqueue
<1>2. \A k \in Keys \ {q} : rows'[k] = rows[k]
  BY DEF TypeOK
<1>3. Owed(q)'
  <2>1. [id |-> nextId, key |-> q] \in outbox' /\ [id |-> nextId, key |-> q].key = q
    BY <1>1
  <2> QED
    BY <2>1 DEF Owed, Pending
<1>4. ASSUME NEW k \in Keys \ {q} PROVE Owed(k)' <=> Owed(k)
  <2>1. Pending(k)' <=> Pending(k)
    BY <1>1 DEF Pending
  <2>2. \A w \in Workers : Working(w, k)' <=> Working(w, k)
    BY <1>2 DEF Working, workerVars
  <2> QED
    BY <2>1, <2>2 DEF Owed
<1>5. Stored' = Stored \cup {q}
  BY <1>2 DEF Stored
<1> QED
  BY <1>1, <1>3, <1>4, <1>5 DEF OwedSet, Stored

LEMMA LedgerInit == ASSUME Init PROVE Ledger!Init
  BY DEF Init, Ledger!Init, Stored, Compared

LEMMA LedgerStep ==
  ASSUME ConstantsAssumption, IInv, IInv', [Next]_vars
  PROVE  Ledger!Next \/ UNCHANGED LedgerVars
<1> USE ConstantsAssumption DEF ConstantsAssumption
<1> USE DEF IInv
<1>0. CASE Aside
  <2>1. \A k \in Stored : Owed(k)' <=> Owed(k)
    BY <1>0 DEF Aside, Owed, Pending, Working, workerVars
  <2> QED
    BY <1>0, <2>1, SameView DEF Aside
<1> SUFFICES ASSUME Next, ~ Aside PROVE Ledger!Next \/ UNCHANGED LedgerVars
  BY <1>0 DEF Aside, vars, drawVars, ghostVars
<1>1. ASSUME UNCHANGED <<rows, outbox, cmpVer, abandoned, silent>>,
             \A k \in Stored, w \in Workers : Working(w, k)' <=> Working(w, k)
      PROVE  UNCHANGED LedgerVars
  BY <1>1, SameView, SameOwed
<1>3. ASSUME NEW i \in Issues, NEW n \in Numbers, NEW single \in BOOLEAN,
             StoreNewDraw(i, n, single)
      PROVE  Ledger!Next
  <2> DEFINE q == KeyOf[i]
  <2>1. q \in Keys /\ rows'[q].ver = 1 /\ rows'[q] # NoRow /\ rows[q] = NoRow
    BY <1>3 DEF StoreNewDraw, NewRow, NoRow, TypeOK
  <2>2. rows' = [rows EXCEPT ![q] = rows'[q]] /\ Enqueue(q) /\ UNCHANGED workerVars
        /\ cmpVer' = cmpVer /\ abandoned' = abandoned
    BY <1>3 DEF StoreNewDraw, TypeOK
  <2>3. OwedSet' = OwedSet \cup {q} /\ silent' = silent \ {q} /\ Stored' = Stored \cup {q}
    BY <2>1, <2>2, EnqueueAsks
  <2>4. cmpVer[q] # 1
    BY <2>1, NoRowVer DEF Bound, TypeOK
  <2>5. Compared' = Compared
    BY <2>1, <2>2, <2>3, <2>4 DEF Compared, Stored, TypeOK
  <2>6. Ledger!Store(q)
    BY <2>1, <2>2, <2>3, <2>5 DEF Ledger!Store, Ledger!Ask, OwedSet, Stored
  <2> QED
    BY <2>1, <2>6 DEF Ledger!Next
<1>4. ASSUME NEW i \in Issues, NEW confirms \in BOOLEAN, UpgradeDraw(i, confirms)
      PROVE  UNCHANGED LedgerVars
  <2>1. rows[KeyOf[i]] \in Row
    BY <1>4, RowStays DEF UpgradeDraw
  <2>2. rows'[KeyOf[i]].ver = rows[KeyOf[i]].ver /\ rows[KeyOf[i]].ver # 0
    BY <1>4, <2>1 DEF UpgradeDraw, TypeOK, Row
  <2>3. \A k \in Keys : rows'[k].ver = rows[k].ver /\ (rows'[k] # NoRow <=> rows[k] # NoRow)
    BY <1>4, <2>2, NoRowVer DEF UpgradeDraw, TypeOK
  <2>4. UNCHANGED <<outbox, workerVars, cmpVer, abandoned, silent>>
    BY <1>4 DEF UpgradeDraw
  <2>5. \A k \in Keys : Owed(k)' <=> Owed(k)
    BY <2>3, <2>4 DEF Owed, Pending, Working, workerVars
  <2> QED
    BY <2>3, <2>4, <2>5 DEF LedgerVars, OwedSet, Stored, Compared
<1>5. ASSUME NEW I \in SUBSET Issues, BackfillHistory(I)
      PROVE  Ledger!Next
  <2> DEFINE K == {k \in Keys : rows[k] = NoRow /\ \E i \in I : KeyOf[i] = k}
  <2>1. K \cap Stored = {} /\ Stored' = Stored \cup K
    BY <1>5, BackfillKeeps DEF Stored
  <2>2. \A k \in Stored : rows'[k] = rows[k]
    BY <1>5, BackfillKeeps DEF Stored
  <2>3. UNCHANGED <<outbox, workerVars, cmpVer, abandoned>> /\ silent' = silent \cup K
    BY <1>5 DEF BackfillHistory
  <2>4. \A k \in K : ~ Owed(k)'
    <3> SUFFICES ASSUME NEW k \in K PROVE ~ Owed(k)'
      OBVIOUS
    <3>1. ~ Pending(k)'
      BY <2>3 DEF Pending, Bound
    <3>2. \A w \in Workers : ~ Working(w, k)'
      BY <2>3 DEF Working, Bound, Busy, workerVars
    <3> QED
      BY <3>1, <3>2 DEF Owed
  <2>5. \A k \in Stored : Owed(k)' <=> Owed(k)
    BY <2>2, <2>3 DEF Owed, Pending, Working, workerVars
  <2>6. OwedSet' = OwedSet
    BY <2>1, <2>4, <2>5 DEF OwedSet
  <2>7. \A k \in K : cmpVer[k] = 0 /\ rows'[k].ver = 1
    <3>1. \A k \in K : rows'[k].ver = 1
      BY <1>5, BackfillKeeps
    <3>2. \A k \in K : cmpVer[k] \in Nat /\ cmpVer[k] <= 0
      BY NoRowVer DEF Bound, TypeOK
    <3> QED
      BY <3>1, <3>2
  <2>8. Compared' = Compared
    BY <2>1, <2>2, <2>3, <2>7 DEF Compared
  <2>9. Ledger!Archive(K)
    BY <2>1, <2>3, <2>6, <2>8 DEF Ledger!Archive, OwedSet
  <2> QED
    BY <2>9 DEF Ledger!Next
<1>6. ASSUME NEW k \in Keys, ForceVerify(k)
      PROVE  Ledger!Next
  <2>1. /\ rows' = rows /\ rows[k] # NoRow /\ Enqueue(k)
        /\ UNCHANGED workerVars /\ cmpVer' = cmpVer /\ abandoned' = abandoned
    BY <1>6 DEF ForceVerify
  <2>2. OwedSet' = OwedSet \cup {k} /\ silent' = silent \ {k} /\ Stored' = Stored
    BY <2>1, EnqueueAsks DEF TypeOK, Stored
  <2>3. Compared' = Compared
    BY <2>1, <2>2 DEF Compared
  <2>4. Ledger!Request(k)
    BY <2>1, <2>2, <2>3 DEF Ledger!Request, Ledger!Ask, OwedSet, Stored
  <2> QED
    BY <2>4 DEF Ledger!Next
<1>7. ASSUME NEW k \in Keys, NEW n \in Numbers, Correct(k, n)
      PROVE  Ledger!Next
  <2>1. rows[k] \in Row
    BY <1>7, RowStays DEF Correct
  <2>2. rows'[k].ver = rows[k].ver + 1 /\ rows'[k] # NoRow
    <3>1. rows'[k].ver = rows[k].ver + 1 /\ rows'[k].ver # 0
      BY <1>7, <2>1 DEF Correct, TypeOK, Row
    <3> QED
      BY <3>1, NoRowVer
  <2>3. rows' = [rows EXCEPT ![k] = rows'[k]] /\ Enqueue(k) /\ UNCHANGED workerVars
        /\ cmpVer' = cmpVer /\ abandoned' = abandoned
    BY <1>7 DEF Correct, TypeOK
  <2>4. OwedSet' = OwedSet \cup {k} /\ silent' = silent \ {k} /\ Stored' = Stored \cup {k}
    BY <2>2, <2>3, EnqueueAsks
  <2>5. cmpVer[k] # rows'[k].ver
    BY <2>1, <2>2 DEF Bound, TypeOK, Row
  <2>6. k \in Stored
    BY <1>7 DEF Correct, Stored
  <2>7. \A q \in Keys \ {k} : rows'[q] = rows[q]
    BY <2>3 DEF TypeOK
  <2>8. Compared' = Compared \ {k}
    BY <2>3, <2>4, <2>5, <2>6, <2>7 DEF Compared, Stored
  <2>9. Ledger!Revise(k)
    BY <2>3, <2>4, <2>6, <2>8 DEF Ledger!Revise, Ledger!Ask, OwedSet
  <2> QED
    BY <2>9 DEF Ledger!Next
<1>12. ASSUME NEW w \in Workers, Poll(w)
       PROVE  UNCHANGED LedgerVars
  BY <1>1, <1>12 DEF Poll, Working, TypeOK, drawVars, ghostVars
<1>13. ASSUME NEW w \in Workers, StartRecompare(w)
       PROVE  UNCHANGED LedgerVars
  BY <1>1, <1>13 DEF StartRecompare, Working, TypeOK, drawVars, ghostVars
<1>14. ASSUME NEW w \in Workers, NEW r \in batch[w], ClaimRow(w, r)
       PROVE  UNCHANGED LedgerVars
  <2>1. /\ pc[w] = "polling" /\ pc'[w] = "claimed" /\ job'[w] = r /\ r.id # 0
        /\ r \in outbox /\ outbox' = outbox \ {r}
    BY <1>14 DEF ClaimRow, TypeOK, OutboxRow
  <2>2. UNCHANGED <<rows, seen, cmpVer, abandoned, silent>>
    BY <1>14 DEF ClaimRow, ghostVars
  <2>3. \A v \in Workers \ {w}, k \in Stored : Working(v, k)' <=> Working(v, k)
    BY <1>14 DEF ClaimRow, Working, TypeOK
  <2>4. \A k \in Stored : ~ Working(w, k) /\ (Working(w, k)' <=> r.key = k)
    BY <2>1 DEF Working
  <2>5. \A k \in Stored : Pending(k) <=> Pending(k)' \/ r.key = k
    BY <2>1 DEF Pending
  <2>6. \A k \in Stored : Owed(k)' <=> Owed(k)
    BY <2>3, <2>4, <2>5 DEF Owed
  <2> QED
    BY <2>2, <2>6, SameView
<1>15. ASSUME NEW w \in Workers, NEW r \in batch[w], SkipClaimed(w, r)
       PROVE  UNCHANGED LedgerVars
  BY <1>1, <1>15 DEF SkipClaimed, AfterJob, Working, TypeOK, drawVars, ghostVars
<1>16. ASSUME NEW w \in Workers, NEW r \in batch[w], TakeDraw(w, r)
       PROVE  UNCHANGED LedgerVars
  <2>1. r.id = 0
    BY <1>16 DEF TakeDraw
  <2>2. \A k \in Stored, v \in Workers : Working(v, k)' <=> Working(v, k)
    BY <1>16, <2>1 DEF TakeDraw, Working, TypeOK, drawVars
  <2> QED
    BY <1>1, <1>16, <2>2 DEF TakeDraw, drawVars, ghostVars
<1>17. ASSUME NEW w \in Workers, BeginCompare(w)
       PROVE  UNCHANGED LedgerVars
  <2>1. \A k \in Stored : Working(w, k)' <=> Working(w, k)
    BY <1>17 DEF BeginCompare, Working, TypeOK, drawVars
  <2>2. \A v \in Workers \ {w}, k \in Stored : Working(v, k)' <=> Working(v, k)
    BY <1>17 DEF BeginCompare, Working, TypeOK, drawVars
  <2>3. UNCHANGED <<rows, outbox, cmpVer, abandoned, silent>>
    BY <1>17 DEF BeginCompare, drawVars, ghostVars
  <2> QED
    BY <1>1, <2>1, <2>2, <2>3
<1>19. ASSUME NEW w \in Workers, NEW p \in todo[w], CompareTicket(w, p)
       PROVE  UNCHANGED LedgerVars
  BY <1>1, <1>19 DEF CompareTicket, Working, drawVars, ghostVars
<1>20. ASSUME NEW w \in Workers, NEW p \in todo[w], SkipTicket(w, p)
       PROVE  UNCHANGED LedgerVars
  BY <1>1, <1>20 DEF SkipTicket, Working, drawVars, ghostVars
<1>21. ASSUME NEW w \in Workers, FinishCompare(w)
       PROVE  Ledger!Next \/ UNCHANGED LedgerVars
  <2>0. PICK q \in Keys : q = job[w].key
    BY <1>21 DEF FinishCompare, Bound, Busy, Job
  <2>1. \A v \in Workers \ {w} : pc'[v] = pc[v] /\ job'[v] = job[v] /\ seen'[v] = seen[v]
    BY <1>21 DEF FinishCompare, TypeOK
  <2>2. UNCHANGED <<rows, outbox, silent>>
    BY <1>21 DEF FinishCompare, drawVars
  <2>3. /\ q \in Stored /\ q \in Keys
        /\ seen[w].ver \in Nat /\ cmpVer[q] \in Nat /\ rows[q].ver \in Nat
        /\ seen[w].ver <= rows[q].ver /\ cmpVer[q] <= rows[q].ver
    BY <1>21, <2>0, NoRowVer DEF FinishCompare, Bound, Busy, Stored, TypeOK, Row
  <2>4. /\ cmpVer'[q] = IF cmpVer[q] < seen[w].ver THEN seen[w].ver ELSE cmpVer[q]
        /\ \A k \in Keys \ {q} : cmpVer'[k] = cmpVer[k]
    BY <1>21, <2>0 DEF FinishCompare, TypeOK
  <2>5. \A v \in Workers \ {w}, k \in Keys : Working(v, k)' <=> Working(v, k)
    BY <2>1, <2>2 DEF Working
  <2>6. \A k \in Keys : ~ Working(w, k)'
    BY <1>21 DEF FinishCompare, AfterJob, Working, TypeOK
  <2>7. \A k \in Keys \ {q} : ~ Working(w, k)
    BY <2>0 DEF Working
  <2>8. \A k \in Keys \ {q} : Owed(k)' <=> Owed(k)
    BY <2>2, <2>5, <2>6, <2>7 DEF Owed, Pending
  <2>9. Stored' = Stored
    BY <2>2 DEF Stored
  <2>10. CASE seen[w].ver = rows[q].ver
    <3>1. cmpVer'[q] = rows'[q].ver
      BY <2>2, <2>3, <2>4, <2>10
    <3>2. Compared' = Compared \cup {q}
      BY <2>2, <2>3, <2>4, <2>9, <3>1 DEF Compared, Stored
    <3>3. Owed(q)' => Owed(q)
      BY <2>2, <2>5, <2>6 DEF Owed, Pending
    <3>4. OwedSet' \in {OwedSet, OwedSet \ {q}}
      BY <2>3, <2>8, <2>9, <3>3 DEF OwedSet, Stored
    <3>5. abandoned' = abandoned \ {q}
      BY <1>21, <2>0, <2>10 DEF FinishCompare
    <3>6. Ledger!Compare(q)
      BY <2>2, <2>3, <2>9, <3>2, <3>4, <3>5 DEF Ledger!Compare, OwedSet
    <3> QED
      BY <2>3, <3>6 DEF Ledger!Next
  <2>11. CASE seen[w].ver # rows[q].ver
    <3>1. cmpVer'[q] = rows'[q].ver <=> cmpVer[q] = rows[q].ver
      BY <2>2, <2>3, <2>4, <2>11
    <3>2. Compared' = Compared
      BY <2>2, <2>4, <2>9, <3>1 DEF Compared, Stored
    <3>3. ~ Working(w, q)
      BY <1>21, <2>0, <2>11 DEF FinishCompare, Working
    <3>4. Owed(q)' <=> Owed(q)
      BY <2>2, <2>3, <2>5, <2>6, <3>3 DEF Owed, Pending
    <3>5. OwedSet' = OwedSet
      BY <2>8, <2>9, <3>4 DEF OwedSet, Stored
    <3>6. abandoned' = abandoned
      BY <1>21, <2>0, <2>11 DEF FinishCompare
    <3> QED
      BY <2>2, <2>9, <3>2, <3>5, <3>6 DEF LedgerVars
  <2> QED
    BY <2>10, <2>11
<1>22. ASSUME NEW W \in SUBSET Workers, UNCHANGED <<rows, outbox, cmpVer, silent>>,
              \A w \in W : pc'[w] \in {"idle", "polling"},
              \A v \in Workers \ W : pc'[v] = pc[v] /\ job'[v] = job[v] /\ seen'[v] = seen[v],
              abandoned' = abandoned \cup Held(W)
       PROVE  Ledger!Next
  <2>1. Held(W) \subseteq Stored /\ Held(W) \in SUBSET Keys
    BY DEF Held, Bound, Busy, Job, Stored
  <2>2. \A v \in Workers, k \in Keys : Working(v, k)' => Working(v, k)
    BY <1>22 DEF Working
  <2>3. \A v \in Workers, k \in Keys : Working(v, k) => Working(v, k)' \/ k \in Held(W)
    BY <1>22 DEF Working, Held
  <2>4. Stored' = Stored /\ Compared' = Compared
    BY <1>22 DEF Stored, Compared
  <2>5. OwedSet' \in SUBSET OwedSet
    BY <1>22, <2>2, <2>4 DEF OwedSet, Owed, Pending, Stored
  <2>6. OwedSet \ OwedSet' \subseteq Held(W)
    BY <1>22, <2>3, <2>4 DEF OwedSet, Owed, Pending, Stored
  <2>7. Ledger!Lose(Held(W))
    BY <1>22, <2>4, <2>5, <2>6 DEF Ledger!Lose, OwedSet
  <2> QED
    BY <2>1, <2>7 DEF Ledger!Next
<1>23. ASSUME NEW w \in Workers, AbortCompare(w)
       PROVE  Ledger!Next
  <2>1. /\ UNCHANGED <<rows, outbox, cmpVer, silent>>
        /\ abandoned' = abandoned \cup Held({w})
    BY <1>23 DEF AbortCompare, drawVars
  <2>2. \A v \in {w} : pc'[v] \in {"idle", "polling"}
    BY <1>23 DEF AbortCompare, AfterJob, TypeOK
  <2>3. \A v \in Workers \ {w} : pc'[v] = pc[v] /\ job'[v] = job[v] /\ seen'[v] = seen[v]
    BY <1>23 DEF AbortCompare, TypeOK
  <2> QED
    BY <1>22, <2>1, <2>2, <2>3
<1>24. ASSUME NEW W \in SUBSET Workers, Crash(W)
       PROVE  Ledger!Next
  BY <1>22, <1>24 DEF Crash, TypeOK, drawVars
<1> QED
  BY <1>3, <1>4, <1>5, <1>6, <1>7, <1>12, <1>13, <1>14, <1>15, <1>16, <1>17, <1>19,
     <1>20, <1>21, <1>23, <1>24, CoreSteps
     DEF WorkerStep, SkipBadTicket, TicketFails

(* Storing, correcting, verifying, claiming, comparing and dying, in any   *)
(* order and by any number of workers, keep the ledger's rules: a debt     *)
(* arises with the write that causes it and is never dropped silently.     *)
THEOREM ImplementsLedger == Spec => LedgerSpec
<1>1. Init => Ledger!Init
  BY LedgerInit
<1>2. IInv /\ IInv' /\ [Next]_vars => [Ledger!Next]_(Ledger!vars)
  BY LedgerStep, ConstantsAssumption DEF Ledger!vars, LedgerVars, OwedSet
<1> QED
  BY <1>1, <1>2, Inductive, PTL DEF Spec, LedgerSpec, Ledger!Spec
=============================================================================
