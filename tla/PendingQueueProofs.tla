------------------------- MODULE PendingQueueProofs -------------------------
(***************************************************************************)
(* Theorems about the pending queue for every number of processes, records *)
(* and items, and every bound on the failures.                             *)
(***************************************************************************)
EXTENDS PendingQueueProperties, FiniteSetTheorems, TLAPS

LEMMA TypeInit == Init => TypeOK
BY RecsAssumption, BoundsAssumption
   DEF Init, TypeOK, FilesOK, LocksOK, LocalsOK, HistoryOK, Outcomes, Blank, Docs, Locked, RecordSteps

\* The local variables keep their types through the shared parts of the actions.
LEMMA TakeType ==
  ASSUME LocalsOK, NEW p \in Procs, NEW r \in Recs, NEW step \in RecordSteps,
         Take(p, r, step), UNCHANGED <<op, target, seen, batch, out>>
  PROVE  LocalsOK'
BY DEF LocalsOK, Take, Locked

LEMMA TakeAndReportType ==
  ASSUME LocalsOK, NEW p \in Procs, NEW r \in Recs, NEW v \in Outcomes,
         TakeAndReport(p, r, v), UNCHANGED <<op, target, seen, batch>>
  PROVE  LocalsOK'
BY DEF LocalsOK, TakeAndReport

LEMMA ReportType ==
  ASSUME LocalsOK, NEW p \in Procs, cur[p] \in Recs, NEW v \in Outcomes, Report(p, v)
  PROVE  out' \in [Procs -> [Recs -> Outcomes]]
BY DEF LocalsOK, Report

LEMMA AdvanceType ==
  ASSUME LocalsOK, NEW p \in Procs, pc[p] \in RecordSteps, NEW step \in RecordSteps,
         Advance(p, step), out' \in [Procs -> [Recs -> Outcomes]],
         UNCHANGED <<op, target, seen, batch, todo>>
  PROVE  LocalsOK'
BY DEF LocalsOK, Advance, Locked

LEMMA FinishType ==
  ASSUME LocalsOK, NEW p \in Procs, pc[p] \in RecordSteps, NEW v \in Outcomes,
         Finish(p, v), UNCHANGED <<op, target, seen, batch, todo>>
  PROVE  LocalsOK'
<1>1. cur[p] \in Recs
  BY DEF LocalsOK
<1>2. out' \in [Procs -> [Recs -> Outcomes]]
  BY <1>1, ReportType DEF Finish
<1> QED
  BY <1>2 DEF LocalsOK, Finish, Locked, RecordSteps

LEMMA ResetType ==
  ASSUME LocalsOK, NEW p \in Procs, Reset(p)
  PROVE  LocalsOK'
BY DEF LocalsOK, Reset, Blank, Outcomes, Locked, RecordSteps

LEMMA AfterIndexType ==
  ASSUME LocalsOK, NEW p \in Procs, pc[p] = "index", NEW v \in Outcomes,
         AfterIndex(p, v), UNCHANGED <<op, target, seen, batch, todo>>
  PROVE  LocalsOK'
<1>1. cur[p] \in Recs /\ pc[p] \in RecordSteps
  BY DEF LocalsOK, RecordSteps
<1>2. CASE LedgerWritten(p)
  <2>1. out' \in [Procs -> [Recs -> Outcomes]]
    BY <1>1, <1>2, ReportType DEF AfterIndex
  <2> QED
    BY <1>1, <1>2, <2>1, AdvanceType DEF AfterIndex, RecordSteps
<1>3. CASE ~LedgerWritten(p)
  BY <1>1, <1>3, FinishType DEF AfterIndex, Outcomes
<1> QED
  BY <1>2, <1>3

\* What a publishing step writes has its type.
LEMMA MakeSidecarsType ==
  ASSUME FilesOK, NEW p \in Procs, cur[p] \in Recs, MakeSidecars(p)
  PROVE  evidence' \in [Recs -> Nat]
BY DEF FilesOK, MakeSidecars

LEMMA MakeItemType ==
  ASSUME FilesOK, HistoryOK, NEW p \in Procs, cur[p] \in Recs, MakeItem(p)
  PROVE  /\ items' \in [Items -> Docs \cup {NoItem}]
         /\ created' \in [Items -> Nat]
<1> DEFINE i == ItemOf[cur[p]]
<1>1. i \in Items /\ PayloadOf[cur[p]] \in Payloads
      /\ TitleOf[PayloadOf[cur[p]]] \in Titles
  BY RecsAssumption
<1>2. [span |-> PayloadOf[cur[p]], title |-> TitleOf[PayloadOf[cur[p]]], form |-> "orig"]
        \in Docs
  BY <1>1 DEF Docs, Forms
<1> QED
  BY <1>1, <1>2 DEF FilesOK, HistoryOK, MakeItem

\* The records are finitely many, so their repairs can be counted.
LEMMA RepairCount ==
  ASSUME NEW p \in Procs
  PROVE  Cardinality({r \in Recs : out[p][r] = "repair"}) \in Nat
BY FS_Subset, FS_CardinalityType, RecsAssumption

LEMMA TypeStep == TypeOK /\ [Next]_vars => TypeOK'
<1> SUFFICES ASSUME TypeOK, [Next]_vars PROVE TypeOK'
  OBVIOUS
<1> USE RecsAssumption, BoundsAssumption
<1> USE DEF Locked, RecordSteps, ResolutionOps, Terminal, Publishing, Forms, Docs,
            files, locks, locals, env, history
<1>1. ASSUME NEW r \in Recs, Enqueue(r) \/ HookOpen(r) \/ HookClose(r)
      PROVE TypeOK'
  BY <1>1 DEF TypeOK, FilesOK, LocksOK, LocalsOK, HistoryOK, Outcomes, Enqueue, HookOpen, HookClose
<1>2. ASSUME NEW i \in Items, NEW t \in Titles, OtherCreates(i, t) PROVE TypeOK'
  BY <1>2 DEF TypeOK, FilesOK, LocksOK, LocalsOK, HistoryOK, Outcomes, OtherCreates, Edited
<1>3. ASSUME NEW i \in Items, NEW f \in Forms, OtherEdits(i, f) PROVE TypeOK'
  <2>1. FilesOK'
    <3>1. items[i] \in Docs
      BY <1>3 DEF TypeOK, FilesOK, OtherEdits, Occupied
    <3>2. [items[i] EXCEPT !.form = f] \in Docs
      BY <3>1
    <3>3. items' = [items EXCEPT ![i] = [items[i] EXCEPT !.form = f]]
      BY <1>3 DEF OtherEdits
    <3> QED
      BY <1>3, <3>2, <3>3 DEF TypeOK, FilesOK, OtherEdits
  <2>2. LocksOK'
    BY <1>3 DEF TypeOK, LocksOK, OtherEdits, Edited, Occupied
  <2>3. LocalsOK'
    BY <1>3 DEF TypeOK, LocalsOK, Outcomes, OtherEdits, Edited, Occupied
  <2>4. HistoryOK'
    BY <1>3 DEF TypeOK, HistoryOK, LocalsOK, OtherEdits, Edited, Occupied
  <2> QED BY <2>1, <2>2, <2>3, <2>4 DEF TypeOK
<1>4. ASSUME NEW i \in Items, OtherDeletes(i) \/ Evict(i) PROVE TypeOK'
  <2>1. FilesOK'
    BY <1>4 DEF TypeOK, FilesOK, LocalsOK, OtherDeletes, Evict
  <2>2. LocksOK'
    BY <1>4 DEF TypeOK, LocksOK, OtherDeletes, Evict
  <2>3. LocalsOK'
    BY <1>4 DEF TypeOK, LocalsOK, Outcomes, OtherDeletes, Evict
  <2>4. HistoryOK'
    <3>1. CASE OtherDeletes(i)
      BY <3>1 DEF TypeOK, HistoryOK, OtherDeletes
    <3>2. CASE Evict(i)
      BY <3>2 DEF TypeOK, HistoryOK, Evict
    <3> QED BY <1>4, <3>1, <3>2
  <2> QED BY <2>1, <2>2, <2>3, <2>4 DEF TypeOK
<1>5. ASSUME NEW p \in Procs, BeginApply(p) PROVE TypeOK'
  BY <1>5 DEF TypeOK, FilesOK, LocksOK, LocalsOK, HistoryOK, Outcomes, BeginApply
<1>6. ASSUME NEW p \in Procs, NEW r \in Recs, NEW a \in ResolutionOps, NEW t \in Items,
             BeginResolve(p, r, a, t)
      PROVE TypeOK'
  BY <1>6 DEF TypeOK, FilesOK, LocksOK, LocalsOK, HistoryOK, Outcomes, BeginResolve
<1>7. ASSUME NEW p \in Procs, AcquireQueue(p) \/ AcquireCatalog(p) PROVE TypeOK'
  <2>1. FilesOK'
    BY <1>7 DEF TypeOK, FilesOK, LocalsOK, AcquireQueue, AcquireCatalog
  <2>2. LocksOK'
    BY <1>7 DEF TypeOK, LocksOK, AcquireQueue, AcquireCatalog
  <2>3. LocalsOK'
    BY <1>7 DEF TypeOK, LocalsOK, Outcomes, AcquireQueue, AcquireCatalog
  <2>4. HistoryOK'
    BY <1>7 DEF TypeOK, HistoryOK, LocalsOK, AcquireQueue, AcquireCatalog
  <2> QED BY <2>1, <2>2, <2>3, <2>4 DEF TypeOK
<1>8. ASSUME NEW p \in Procs, NEW S \in SUBSET Recs, PlanApply(p, S) PROVE TypeOK'
  <2>1. FilesOK'
    BY <1>8 DEF TypeOK, FilesOK, LocalsOK, PlanApply, Prepare
  <2>2. LocksOK'
    BY <1>8 DEF TypeOK, LocksOK, PlanApply, Prepare
  <2>3. LocalsOK'
    <3> DEFINE ready == {r \in S : Applicable(r)}
    <3> DEFINE report == [r \in Recs |-> IF r \in S /\ ~Applicable(r) THEN "review" ELSE "none"]
    <3>1. ready \in SUBSET Recs /\ report \in [Recs -> Outcomes]
      BY DEF Outcomes
    <3>2. /\ todo' = [todo EXCEPT ![p] = ready] /\ out' = [out EXCEPT ![p] = report]
          /\ pc' = [pc EXCEPT ![p] = "next"] /\ UNCHANGED <<op, target, seen, cur>>
      BY <1>8 DEF PlanApply
    <3>3. \E b \in BatchIds : batch' = [batch EXCEPT ![p] = b]
      BY <1>8 DEF PlanApply, Prepare
    <3> HIDE DEF ready, report
    <3>4. /\ todo' \in [Procs -> SUBSET Recs] /\ out' \in [Procs -> [Recs -> Outcomes]]
          /\ batch' \in [Procs -> BatchIds \cup {NoBatch}]
      BY <3>1, <3>2, <3>3 DEF TypeOK, LocalsOK
    <3> QED
      BY <3>2, <3>4 DEF TypeOK, LocalsOK, Locked, RecordSteps
  <2>4. HistoryOK'
    BY <1>8 DEF TypeOK, HistoryOK, LocalsOK, PlanApply, Prepare
  <2> QED BY <2>1, <2>2, <2>3, <2>4 DEF TypeOK
<1>9. ASSUME NEW p \in Procs, PlanResolve(p) PROVE TypeOK'
  BY <1>9 DEF TypeOK, FilesOK, LocksOK, LocalsOK, HistoryOK, Outcomes, PlanResolve, Prepare, Resolvable, Visible
<1>10. ASSUME NEW p \in Procs, PlanRefused(p) PROVE TypeOK'
  BY <1>10 DEF TypeOK, FilesOK, LocksOK, LocalsOK, HistoryOK, Outcomes, PlanRefused, Reset, Release, Fault, NoFault, Blank
<1>11. ASSUME NEW p \in Procs, NEW r \in Recs, ExamineApply(p, r) PROVE TypeOK'
  <2>1. FilesOK'
    BY <1>11 DEF TypeOK, FilesOK, LocalsOK, ExamineApply, Take, TakeAndReport
  <2>2. LocksOK'
    BY <1>11 DEF TypeOK, LocksOK, ExamineApply, Take, TakeAndReport
  <2>3. LocalsOK'
    BY <1>11, TakeType, TakeAndReportType DEF TypeOK, Outcomes, ExamineApply
  <2>4. HistoryOK'
    BY <1>11 DEF TypeOK, HistoryOK, LocalsOK, ExamineApply, Take, TakeAndReport
  <2> QED BY <2>1, <2>2, <2>3, <2>4 DEF TypeOK
<1>12. ASSUME NEW p \in Procs, NEW r \in Recs, ExamineResolve(p, r) PROVE TypeOK'
  <2>1. FilesOK'
    BY <1>12 DEF TypeOK, FilesOK, LocalsOK, ExamineResolve, Take, TakeAndReport
  <2>2. LocksOK'
    BY <1>12 DEF TypeOK, LocksOK, ExamineResolve, Take, TakeAndReport
  <2>3. LocalsOK'
    BY <1>12, TakeType, TakeAndReportType DEF TypeOK, Outcomes, ExamineResolve
  <2>4. HistoryOK'
    BY <1>12 DEF TypeOK, HistoryOK, LocalsOK, ExamineResolve, Take, TakeAndReport
  <2> QED BY <2>1, <2>2, <2>3, <2>4 DEF TypeOK
<1>13. ASSUME NEW p \in Procs, NEW r \in Recs, ExamineFails(p, r) PROVE TypeOK'
  BY <1>13 DEF TypeOK, FilesOK, LocksOK, LocalsOK, HistoryOK, Outcomes, ExamineFails, TakeAndReport, Fault
<1>14. ASSUME NEW p \in Procs, AttachEvidence(p) PROVE TypeOK'
  <2>1. FilesOK'
    <3>1. cur[p] \in Recs
      BY <1>14 DEF TypeOK, LocalsOK, AttachEvidence
    <3> QED
      BY <1>14, <3>1, MakeSidecarsType DEF TypeOK, FilesOK, AttachEvidence
  <2>2. LocksOK'
    BY <1>14 DEF TypeOK, LocksOK, AttachEvidence, MakeSidecars, Advance
  <2>3. LocalsOK'
    BY <1>14 DEF TypeOK, LocalsOK, Outcomes, AttachEvidence, MakeSidecars, Advance
  <2>4. HistoryOK'
    BY <1>14 DEF TypeOK, HistoryOK, LocalsOK, AttachEvidence, MakeSidecars, Advance
  <2> QED BY <2>1, <2>2, <2>3, <2>4 DEF TypeOK
<1>15. ASSUME NEW p \in Procs, CreateItem(p) PROVE TypeOK'
  <2>1. FilesOK'
    BY <1>15 DEF TypeOK, FilesOK, LocalsOK, CreateItem, MakeItem, Advance
  <2>2. LocksOK'
    BY <1>15 DEF TypeOK, LocksOK, CreateItem, MakeItem, Advance
  <2>3. LocalsOK'
    BY <1>15 DEF TypeOK, LocalsOK, Outcomes, CreateItem, MakeItem, Advance
  <2>4. HistoryOK'
    <3>1. cur[p] \in Recs
      BY <1>15 DEF TypeOK, LocalsOK, CreateItem
    <3> QED
      BY <1>15, <3>1, MakeItemType DEF TypeOK, HistoryOK, CreateItem
  <2> QED BY <2>1, <2>2, <2>3, <2>4 DEF TypeOK
<1>16. ASSUME NEW p \in Procs, WriteLedger(p) PROVE TypeOK'
  BY <1>16 DEF TypeOK, FilesOK, LocksOK, LocalsOK, HistoryOK, Outcomes, WriteLedger, Advance
<1>17. ASSUME NEW p \in Procs, LedgerDegraded(p) PROVE TypeOK'
  BY <1>17 DEF TypeOK, FilesOK, LocksOK, LocalsOK, HistoryOK, Outcomes, LedgerDegraded, Report, Advance, Fault, NoFault
<1>18. ASSUME NEW p \in Procs, UpsertIndex(p) PROVE TypeOK'
  <2>1. FilesOK'
    <3>1. cur[p] \in Recs
      BY <1>18 DEF TypeOK, LocalsOK, UpsertIndex
    <3>2. ItemOf[cur[p]] \in Items
      BY <3>1
    <3> QED
      BY <1>18, <3>2 DEF TypeOK, FilesOK, UpsertIndex
  <2>2. LocksOK'
    BY <1>18 DEF TypeOK, LocksOK, UpsertIndex, AfterIndex, Report, Advance, Finish
  <2>3. LocalsOK'
    BY <1>18, AfterIndexType DEF TypeOK, Outcomes, UpsertIndex
  <2>4. HistoryOK'
    BY <1>18 DEF TypeOK, HistoryOK, LocalsOK, UpsertIndex, AfterIndex, Report, Advance, Finish
  <2> QED BY <2>1, <2>2, <2>3, <2>4 DEF TypeOK
<1>19. ASSUME NEW p \in Procs, IndexDegraded(p) PROVE TypeOK'
  <2>1. FilesOK'
    <3>1. cur[p] \in Recs
      BY <1>19 DEF TypeOK, LocalsOK, IndexDegraded
    <3>2. ItemOf[cur[p]] \in Items
      BY <3>1
    <3> QED
      BY <1>19, <3>2 DEF TypeOK, FilesOK, IndexDegraded
  <2>2. LocksOK'
    BY <1>19 DEF TypeOK, LocksOK, IndexDegraded, AfterIndex, Report, Advance, Finish, Fault
  <2>3. LocalsOK'
    BY <1>19, AfterIndexType DEF TypeOK, Outcomes, IndexDegraded
  <2>4. HistoryOK'
    BY <1>19 DEF TypeOK, HistoryOK, LocalsOK, IndexDegraded, AfterIndex, Report, Advance, Finish, Fault
  <2> QED BY <2>1, <2>2, <2>3, <2>4 DEF TypeOK
<1>20. ASSUME NEW p \in Procs, Park(p) PROVE TypeOK'
  BY <1>20 DEF TypeOK, FilesOK, LocksOK, LocalsOK, HistoryOK, Outcomes, Park, Advance
<1>21. ASSUME NEW p \in Procs, Unlink(p) PROVE TypeOK'
  <2>1. FilesOK'
    BY <1>21 DEF TypeOK, FilesOK, LocalsOK, Unlink, RemoveFile, Finish, Report
  <2>2. LocksOK'
    BY <1>21 DEF TypeOK, LocksOK, Unlink, RemoveFile, Finish, Report
  <2>3. LocalsOK'
    BY <1>21, FinishType DEF TypeOK, Outcomes, Unlink
  <2>4. HistoryOK'
    BY <1>21 DEF TypeOK, HistoryOK, LocalsOK, Unlink, RemoveFile, Finish, Report
  <2> QED BY <2>1, <2>2, <2>3, <2>4 DEF TypeOK
<1>22. ASSUME NEW p \in Procs, StepFails(p) PROVE TypeOK'
  <2>1. FilesOK'
    <3>1. cur[p] \in Recs
      BY <1>22 DEF TypeOK, LocalsOK, StepFails
    <3>2. /\ evidence' \in [Recs -> Nat]
          /\ items' \in [Items -> Docs \cup {NoItem}]
      BY <1>22, <3>1, MakeSidecarsType, MakeItemType DEF TypeOK, FilesOK, StepFails
    <3>3. queue' \in [Recs -> {"unborn", "partial", "full", "gone"}]
      BY <1>22, <3>1 DEF TypeOK, FilesOK, StepFails, RemoveFile
    <3> QED
      BY <1>22, <3>2, <3>3 DEF TypeOK, FilesOK, StepFails
  <2>2. LocksOK'
    BY <1>22 DEF TypeOK, LocksOK, StepFails, MakeSidecars, MakeItem, RemoveFile, Finish, Report, Fault
  <2>3. LocalsOK'
    BY <1>22 DEF TypeOK, LocalsOK, Outcomes, StepFails, MakeSidecars, MakeItem, RemoveFile, Finish, Report, Fault
  <2>4. HistoryOK'
    BY <1>22 DEF TypeOK, HistoryOK, LocalsOK, StepFails, MakeSidecars, MakeItem, RemoveFile, Finish, Report, Fault
  <2> QED BY <2>1, <2>2, <2>3, <2>4 DEF TypeOK
<1>23. ASSUME NEW p \in Procs, Complete(p) PROVE TypeOK'
  <2>1. FilesOK' /\ LocksOK'
    BY <1>23 DEF TypeOK, FilesOK, LocksOK, LocalsOK, Complete, Release
  <2>2. LocalsOK'
    BY <1>23, ResetType DEF TypeOK, Complete
  <2>3. Cardinality({r \in Recs : out[p][r] = "repair"}) \in Nat
    BY RepairCount
  <2>4. HistoryOK'
    BY <1>23, <2>3 DEF TypeOK, HistoryOK, Complete, Fault, NoFault
  <2> QED BY <2>1, <2>2, <2>4 DEF TypeOK
<1>24. ASSUME NEW p \in Procs, Crash(p) PROVE TypeOK'
  BY <1>24 DEF TypeOK, FilesOK, LocksOK, LocalsOK, HistoryOK, Outcomes, Crash, Reset, Release, Fault, Blank
<1>25. CASE UNCHANGED vars
  BY <1>25 DEF TypeOK, FilesOK, LocksOK, LocalsOK, HistoryOK, Outcomes, vars
<1> QED
  BY <1>1, <1>2, <1>3, <1>4, <1>5, <1>6, <1>7, <1>8, <1>9, <1>10, <1>11, <1>12, <1>13,
     <1>14, <1>15, <1>16, <1>17, <1>18, <1>19, <1>20, <1>21, <1>22, <1>23, <1>24, <1>25
     DEF Next, Producer, OtherWriter, Operator, Drive

(* The type invariant of the pending queue: the files, the locks, the local  *)
(* variables of drains and resolutions and the bounded counters keep their   *)
(* types through every step of pending.py that is modelled.                  *)
THEOREM TypeCorrect == Spec => []TypeOK
BY TypeInit, TypeStep, PTL DEF Spec

-----------------------------------------------------------------------------
(* What a process relies on is preserved.  The locks leave one process that  *)
(* is past the queue lock, so only its own steps can disturb it.             *)

Inside == Locked \cup {"catalog"}

\* The steps of Drive that only a process past the queue lock takes and that do
\* not end its batch.
Work(p) ==
  \/ AcquireCatalog(p)
  \/ \E S \in SUBSET Recs : PlanApply(p, S)
  \/ PlanResolve(p)
  \/ \E r \in Recs : ExamineApply(p, r) \/ ExamineResolve(p, r) \/ ExamineFails(p, r)
  \/ AttachEvidence(p) \/ CreateItem(p)
  \/ WriteLedger(p) \/ LedgerDegraded(p)
  \/ UpsertIndex(p) \/ IndexDegraded(p)
  \/ Park(p) \/ Unlink(p) \/ StepFails(p)

LEMMA OneInside ==
  ASSUME WorkersReliable, NEW p \in Procs, NEW q \in Procs, p # q, pc[p] \in Inside
  PROVE  pc[q] \notin Inside
BY DEF WorkersReliable, Reliable, Inside

LEMMA Outside ==
  ASSUME NEW q \in Procs, pc[q]' \notin Inside
  PROVE  Reliable(q)'
BY DEF Reliable, Inside, Locked, RecordSteps

\* A process whose variables, locks and files are left alone stays reliable.
LEMMA Undisturbed ==
  ASSUME TypeOK, NEW q \in Procs, Reliable(q),
         pc[q]' = pc[q], op[q]' = op[q], todo[q]' = todo[q], cur[q]' = cur[q],
         out[q]' = out[q], target[q]' = target[q],
         queueLock = q => queueLock' = q,
         catalogLock = q => catalogLock' = q,
         UNCHANGED <<items, ledger, resolved>>, Visible \subseteq Visible'
  PROVE  Reliable(q)'
BY DEF Reliable, Kept, Published, SamePayload, Occupied, TwinOf, LedgerWritten

\* A record of the batch is finished: what is left of the batch is still queued.
LEMMA ToNext ==
  ASSUME NEW p \in Procs, Reliable(p), pc[p] \in RecordSteps, pc[p]' = "next",
         UNCHANGED <<queueLock, catalogLock>>, todo[p]' \subseteq Visible'
  PROVE  Reliable(p)'
BY DEF Reliable, Locked, RecordSteps

\* A record moves on to its next step.
LEMMA ToStep ==
  ASSUME NEW p \in Procs, Reliable(p), pc[p] \in RecordSteps, pc[p]' \in RecordSteps,
         UNCHANGED <<queueLock, catalogLock, queue, op, todo, cur>>,
         pc[p]' = "park" => op[p] \in Terminal,
         pc[p]' \in {"create", "ledger", "index"} => op[p] \in Publishing \cup {"apply"},
         pc[p]' # "evidence",
         pc[p]' \in {"ledger", "index"} => SamePayload(cur[p])',
         pc[p]' = "index" /\ LedgerWritten(p)' => ledger'[ItemOf[cur[p]]] # NoItem,
         pc[p]' = "unlink" => Kept(p, cur[p])'
  PROVE  Reliable(p)'
BY DEF Reliable, Locked, RecordSteps, Visible

LEMMA CreatedPayload ==
  ASSUME TypeOK, NEW p \in Procs, cur[p] \in Recs, MakeItem(p), UNCHANGED cur
  PROVE  SamePayload(cur[p])'
<1>1. ItemOf[cur[p]] \in Items /\ PayloadOf[cur[p]] \in Payloads
      /\ TitleOf[PayloadOf[cur[p]]] \in Titles
  BY RecsAssumption
<1> DEFINE d == [span |-> PayloadOf[cur[p]], title |-> TitleOf[PayloadOf[cur[p]]],
                 form |-> "orig"]
<1>2. d \in Docs
  BY <1>1 DEF Docs, Forms
<1>3. items'[ItemOf[cur[p]]] = d
  BY <1>1 DEF MakeItem, TypeOK, FilesOK
<1> QED
  BY <1>2, <1>3, NoItemAssumption DEF SamePayload, Occupied

\* A process past the locks prepares each of its steps by the one before.
LEMMA OwnStep ==
  ASSUME TypeOK, NEW p \in Procs, Reliable(p), Work(p)
  PROVE  Reliable(p)'
<1> USE DEF Locked, RecordSteps, Terminal, Publishing
<1> DEFINE r == cur[p]
<1>t. pc[p] \in RecordSteps => r \in Recs /\ r \in Visible /\ r \notin todo[p]
  BY DEF TypeOK, LocalsOK, Reliable
<1>1. CASE AcquireCatalog(p)
  BY <1>1 DEF AcquireCatalog, Reliable, TypeOK, LocalsOK
<1>2. ASSUME NEW S \in SUBSET Recs, PlanApply(p, S) PROVE Reliable(p)'
  BY <1>2 DEF PlanApply, Reliable, Visible, locks, TypeOK, LocalsOK
<1>3. CASE PlanResolve(p)
  BY <1>3 DEF PlanResolve, Resolvable, Reliable, Visible, locks, TypeOK, LocalsOK
<1>4. ASSUME NEW s \in Recs, ExamineApply(p, s) PROVE Reliable(p)'
  BY <1>4 DEF ExamineApply, Reconciles, SameBody, Take, TakeAndReport, Reliable, Visible,
     SamePayload, Occupied, files, locks, TypeOK, LocalsOK
<1>5. ASSUME NEW s \in Recs, ExamineResolve(p, s) PROVE Reliable(p)'
  <2>1. pc[p] = "next" /\ s \in todo[p] /\ s \in Visible
    BY <1>5 DEF ExamineResolve, Take, TakeAndReport, Reliable
  <2>2. CASE Take(p, s, "park") /\ op[p] \in Terminal
    BY <1>5, <2>1, <2>2 DEF ExamineResolve, Take, Reliable, Visible, files, locks,
       TypeOK, LocalsOK
  <2>3. CASE Take(p, s, "unlink") /\ op[p] = "accept_duplicate" /\ TwinOf(s, target[p])
    <3>1. target[p] \in Items
      BY <2>3 DEF TypeOK, LocalsOK
    <3> QED
      BY <1>5, <2>1, <2>3, <3>1 DEF ExamineResolve, Take, Reliable, Visible, Kept,
         Terminal, TwinOf, Occupied, files, locks, TypeOK, LocalsOK
  <2>4. CASE Take(p, s, "ledger") /\ op[p] \in Publishing /\ SamePayload(s)
    BY <1>5, <2>1, <2>4 DEF ExamineResolve, Take, Reliable, Visible, SamePayload,
       Occupied, files, locks, TypeOK, LocalsOK
  <2>5. CASE Take(p, s, "evidence") /\ op[p] \in Publishing
    BY <1>5, <2>1, <2>5 DEF ExamineResolve, Take, Reliable, Visible, files, locks,
       TypeOK, LocalsOK
  <2>6. CASE TakeAndReport(p, s, "failed")
    BY <1>5, <2>1, <2>6 DEF ExamineResolve, TakeAndReport, Reliable, Visible, files, locks,
       TypeOK, LocalsOK
  <2> QED
    BY <1>5, <2>2, <2>3, <2>4, <2>5, <2>6 DEF ExamineResolve, Recoverable
<1>6. ASSUME NEW s \in Recs, ExamineFails(p, s) PROVE Reliable(p)'
  BY <1>6 DEF ExamineFails, TakeAndReport, Reliable, Visible, files, locks, TypeOK, LocalsOK
<1>7. CASE AttachEvidence(p)
  BY <1>7 DEF AttachEvidence, Advance, Reliable, Visible, locks, TypeOK, LocalsOK
<1>8. CASE CreateItem(p)
  <2>1. pc[p] = "create" /\ pc[p]' = "ledger" /\ MakeItem(p)
        /\ UNCHANGED <<queue, queueLock, catalogLock, op, todo, cur>>
    BY <1>8 DEF CreateItem, Advance, locks, TypeOK, LocalsOK
  <2>2. SamePayload(r)'
    BY <1>t, <2>1, CreatedPayload
  <2> QED
    BY <2>1, <2>2, ToStep DEF Reliable
<1>9. CASE WriteLedger(p)
  <2>1. pc[p] = "ledger" /\ pc[p]' = "index"
        /\ UNCHANGED <<queue, items, queueLock, catalogLock, op, todo, cur>>
        /\ ledger' = [ledger EXCEPT ![ItemOf[r]] = items[ItemOf[r]]]
    BY <1>9 DEF WriteLedger, Advance, locks, TypeOK, LocalsOK
  <2>2. SamePayload(r)' /\ ledger'[ItemOf[r]] # NoItem
    BY <1>t, <2>1, RecsAssumption DEF Reliable, SamePayload, Occupied, TypeOK, FilesOK
  <2> QED
    BY <2>1, <2>2, ToStep DEF Reliable
<1>10. CASE LedgerDegraded(p)
  <2>1. pc[p] = "ledger" /\ pc[p]' = "index"
        /\ UNCHANGED <<queue, items, queueLock, catalogLock, op, todo, cur>>
    BY <1>10 DEF LedgerDegraded, Advance, files, locks, TypeOK, LocalsOK
  <2>2. SamePayload(r)'
    BY <2>1 DEF Reliable, SamePayload, Occupied
  <2>3. ~LedgerWritten(p)'
    BY <1>t, <1>10, <2>1 DEF LedgerDegraded, Report, LedgerWritten, TypeOK, LocalsOK
  <2> QED
    BY <2>1, <2>2, <2>3, ToStep DEF Reliable
<1>11. CASE UpsertIndex(p) \/ IndexDegraded(p)
  <2>1. pc[p] = "index" /\ UNCHANGED <<queue, items, ledger, queueLock, catalogLock, op, todo>>
    BY <1>11 DEF UpsertIndex, IndexDegraded, locks
  <2>2. AfterIndex(p, "none") \/ AfterIndex(p, "repair")
    BY <1>11 DEF UpsertIndex, IndexDegraded
  <2>3. CASE LedgerWritten(p)
    <3>1. pc[p]' = "unlink" /\ cur' = cur
      BY <2>1, <2>2, <2>3 DEF AfterIndex, Advance, TypeOK, LocalsOK
    <3>2. Kept(p, cur[p])'
      BY <2>1, <2>3, <3>1 DEF Reliable, Kept, Published, SamePayload, Occupied
    <3> QED
      BY <2>1, <3>1, <3>2, ToStep
  <2>4. CASE ~LedgerWritten(p)
    <3>1. pc[p]' = "next"
      BY <2>1, <2>2, <2>4 DEF AfterIndex, Finish, TypeOK, LocalsOK
    <3> QED
      BY <2>1, <3>1, ToNext DEF Reliable, Visible
  <2> QED BY <2>3, <2>4
<1>13. CASE Park(p)
  BY <1>13 DEF Park, Advance, Reliable, Visible, Kept, locks, TypeOK, LocalsOK
<1>14. CASE Unlink(p) \/ StepFails(p)
  <2>1. pc[p] \in RecordSteps /\ pc[p]' = "next" /\ UNCHANGED <<queueLock, catalogLock, todo>>
    BY <1>14 DEF Unlink, StepFails, Finish, locks, TypeOK, LocalsOK
  <2>2. queue' = queue \/ RemoveFile(p)
    BY <1>14 DEF Unlink, StepFails
  <2>3. todo[p]' \subseteq Visible'
    BY <1>t, <2>1, <2>2 DEF Reliable, Visible, RemoveFile, TypeOK, FilesOK, LocalsOK
  <2> QED
    BY <2>1, <2>3, ToNext
<1> QED
  BY <1>1, <1>2, <1>3, <1>4, <1>5, <1>6, <1>7, <1>8, <1>9, <1>10, <1>11, <1>13,
     <1>14 DEF Work

LEMMA ReliableInit == Init => WorkersReliable
BY DEF Init, WorkersReliable, Reliable, Locked, RecordSteps

LEMMA ReliableStep == TypeOK /\ WorkersReliable /\ [Next]_vars => WorkersReliable'
<1> SUFFICES ASSUME TypeOK, WorkersReliable, [Next]_vars, NEW q \in Procs
             PROVE  Reliable(q)'
  BY DEF WorkersReliable
<1>q. Reliable(q)
  BY DEF WorkersReliable
<1>1. ASSUME NEW r \in Recs, Enqueue(r) \/ HookOpen(r) \/ HookClose(r)
      PROVE Reliable(q)'
  <2>1. Visible \subseteq Visible'
    BY <1>1 DEF Enqueue, HookOpen, HookClose, Visible, TypeOK, FilesOK
  <2> QED
    BY <1>1, <1>q, <2>1, Undisturbed DEF Enqueue, HookOpen, HookClose, locks, locals
<1>2. ASSUME NEW i \in Items, NEW t \in Titles, OtherCreates(i, t) PROVE Reliable(q)'
  <2>1. pc[q] \notin Locked
    BY <1>2, <1>q, SentinelAssumption DEF OtherCreates, CatalogFree, Reliable
  <2> QED
    BY <1>2, <1>q, <2>1 DEF OtherCreates, Reliable, locks, locals, Locked, RecordSteps
<1>3. ASSUME NEW i \in Items, NEW f \in Forms, OtherEdits(i, f) PROVE Reliable(q)'
  <2>1. pc[q] \notin Locked
    BY <1>3, <1>q, SentinelAssumption DEF OtherEdits, CatalogFree, Reliable
  <2> QED
    BY <1>3, <1>q, <2>1 DEF OtherEdits, Reliable, locks, locals, Locked, RecordSteps
<1>4. ASSUME NEW i \in Items, OtherDeletes(i) PROVE Reliable(q)'
  <2>1. pc[q] \notin Locked
    BY <1>4, <1>q, SentinelAssumption DEF OtherDeletes, CatalogFree, Reliable
  <2> QED
    BY <1>4, <1>q, <2>1 DEF OtherDeletes, Reliable, locks, locals, Locked, RecordSteps
<1>5. ASSUME NEW i \in Items, Evict(i) PROVE Reliable(q)'
  BY <1>5, <1>q, Undisturbed DEF Evict, Visible, locks, locals
<1>6. ASSUME NEW p \in Procs,
             \/ BeginApply(p)
             \/ \E r \in Recs, a \in ResolutionOps, t \in Items : BeginResolve(p, r, a, t)
      PROVE Reliable(q)'
  <2>1. CASE q = p
    BY <1>6, <2>1, Outside DEF BeginApply, BeginResolve, Inside, Locked, RecordSteps,
       TypeOK, LocalsOK
  <2>2. CASE q # p
    <3>1. UNCHANGED <<queue, items, ledger, resolved, queueLock, catalogLock>>
      BY <1>6 DEF BeginApply, BeginResolve, files, locks
    <3>2. pc[q]' = pc[q] /\ op[q]' = op[q] /\ todo[q]' = todo[q] /\ cur[q]' = cur[q]
          /\ out[q]' = out[q] /\ target[q]' = target[q]
      BY <1>6, <2>2 DEF BeginApply, BeginResolve, TypeOK, LocalsOK
    <3> QED
      BY <1>q, <3>1, <3>2, Undisturbed DEF Visible
  <2> QED BY <2>1, <2>2
<1>7. ASSUME NEW p \in Procs, AcquireQueue(p) PROVE Reliable(q)'
  <2>1. CASE q = p
    BY <1>7, <2>1 DEF AcquireQueue, Reliable, Locked, RecordSteps, TypeOK, LocalsOK
  <2>2. CASE q # p
    <3>1. pc[q] \notin Inside
      BY <1>7, <1>q, SentinelAssumption DEF AcquireQueue, Reliable, Inside
    <3> QED
      BY <1>7, <2>2, <3>1, Outside DEF AcquireQueue, TypeOK, LocalsOK
  <2> QED BY <2>1, <2>2
<1>8. ASSUME NEW p \in Procs, Crash(p) \/ PlanRefused(p) \/ Complete(p) PROVE Reliable(q)'
  <2>0. /\ pc' = [pc EXCEPT ![p] = "idle"]
        /\ op' = [op EXCEPT ![p] = "apply"] /\ todo' = [todo EXCEPT ![p] = {}]
        /\ cur' = [cur EXCEPT ![p] = NoRec] /\ out' = [out EXCEPT ![p] = Blank]
        /\ target' = [target EXCEPT ![p] = NoItem]
        /\ queueLock' = IF queueLock = p THEN NoProc ELSE queueLock
        /\ catalogLock' = IF catalogLock = p THEN NoProc ELSE catalogLock
        /\ UNCHANGED <<queue, items, ledger, resolved>>
    BY <1>8 DEF Crash, PlanRefused, Complete, Reset, Release, files
  <2>1. CASE q = p
    BY <2>0, <2>1, Outside DEF Inside, Locked, RecordSteps, TypeOK, LocalsOK
  <2>2. CASE q # p
    BY <1>q, <2>0, <2>2, Undisturbed DEF Visible, TypeOK, LocalsOK
  <2> QED BY <2>1, <2>2
<1>9. CASE UNCHANGED vars
  BY <1>9, <1>q, Undisturbed DEF vars, files, locks, locals, Visible
<1>10. ASSUME NEW p \in Procs, Work(p), q # p PROVE Reliable(q)'
  <2>1. pc[p] \in Inside
    BY <1>10 DEF Work, AcquireCatalog, PlanApply, PlanResolve, ExamineApply, ExamineResolve,
       ExamineFails, Take, TakeAndReport, AttachEvidence, CreateItem, WriteLedger,
       LedgerDegraded, UpsertIndex, IndexDegraded, Park, Unlink, StepFails,
       Inside, Locked, RecordSteps
  <2>2. pc[q] \notin Inside
    BY <1>10, <2>1, OneInside
  <2>3. pc[q]' = pc[q]
    BY <1>10 DEF Work, AcquireCatalog, PlanApply, PlanResolve, ExamineApply, ExamineResolve,
       ExamineFails, Take, TakeAndReport, AttachEvidence, CreateItem, WriteLedger,
       LedgerDegraded, UpsertIndex, IndexDegraded, Park, Unlink, StepFails,
       Advance, AfterIndex, Finish, TypeOK, LocalsOK
  <2> QED
    BY <2>2, <2>3, Outside
<1>11. ASSUME NEW p \in Procs, Work(p), q = p PROVE Reliable(q)'
  BY <1>11, <1>q, OwnStep
<1>12. ASSUME NEW p \in Procs, Operator(p) \/ Drive(p) \/ Crash(p) PROVE Reliable(q)'
  <2>1. CASE Operator(p)
    BY <1>6, <2>1 DEF Operator
  <2>2. CASE Drive(p)
    <3>1. AcquireQueue(p) \/ PlanRefused(p) \/ Complete(p) \/ Work(p)
      BY <2>2 DEF Drive, Work
    <3> QED BY <1>7, <1>8, <1>10, <1>11, <3>1
  <2>3. CASE Crash(p)
    BY <1>8, <2>3
  <2> QED BY <1>12, <2>1, <2>2, <2>3
<1> QED
  BY <1>1, <1>2, <1>3, <1>4, <1>5, <1>9, <1>12 DEF Next, Producer, OtherWriter

(* Every process of the drain can rely on its locks, on its records being    *)
(* queued, and on the evidence its next step needs: what _apply_record and   *)
(* _apply_resolution assume after they have planned under both locks.        *)
THEOREM WorkersAreReliable == Spec => []WorkersReliable
<1>1. Init => TypeOK /\ WorkersReliable
  BY TypeInit, ReliableInit
<1>2. TypeOK /\ WorkersReliable /\ [Next]_vars => (TypeOK /\ WorkersReliable)'
  BY TypeStep, ReliableStep
<1> QED
  BY <1>1, <1>2, PTL DEF Spec

-----------------------------------------------------------------------------
(* Only a process at its unlink step takes a record out of the queue.        *)

LEMMA Removal ==
  ASSUME TypeOK, [Next]_vars, NEW r \in Recs, queue[r] # "gone", queue'[r] = "gone"
  PROVE  \E p \in Procs : pc[p] = "unlink" /\ cur[p] = r
<1> USE DEF TypeOK, FilesOK
<1>1. ~Producer
  BY DEF Producer, Enqueue, HookOpen, HookClose
<1>2. ~OtherWriter
  BY DEF OtherWriter, OtherCreates, OtherEdits, OtherDeletes, Evict
<1>3. PICK p \in Procs : Operator(p) \/ Drive(p) \/ Crash(p)
  BY <1>1, <1>2 DEF Next, vars, files
<1>4. ~Operator(p) /\ ~Crash(p)
  BY DEF Operator, BeginApply, BeginResolve, Crash, files
<1>5. Unlink(p) \/ StepFails(p)
  BY <1>3, <1>4 DEF Drive, AcquireQueue, AcquireCatalog, PlanApply, PlanResolve, PlanRefused,
     ExamineApply, ExamineResolve, ExamineFails, AttachEvidence, CreateItem, WriteLedger,
     LedgerDegraded, UpsertIndex, IndexDegraded, Park, Complete, files
<1>6. pc[p] = "unlink" /\ RemoveFile(p)
  BY <1>5 DEF Unlink, StepFails
<1> QED
  BY <1>6 DEF RemoveFile

LEMMA KeptRecord ==
  ASSUME TypeOK, WorkersReliable, NEW p \in Procs, pc[p] = "unlink"
  PROVE  Kept(p, cur[p])
BY DEF WorkersReliable, Reliable

(* No queued write is lost: whatever crashes and fails, and whatever other   *)
(* writers do to the pool, a record leaves pending/ only when its item and   *)
(* source ledger record exist, or it was parked, or merged by an operator.   *)
THEOREM NothingLost == Spec => NoLostWrite
<1>1. TypeOK /\ WorkersReliable /\ [Next]_vars =>
        \A r \in Recs : queue[r] # "gone" /\ queue'[r] = "gone" =>
          \E p \in Procs : cur[p] = r /\ Kept(p, r)
  BY Removal, KeptRecord
<1> QED
  BY <1>1, TypeCorrect, WorkersAreReliable, PTL DEF Spec, NoLostWrite

-----------------------------------------------------------------------------
(* The audit gate.                                                         *)

LEMMA VettedInit == Init => WorkersVetted /\ AuditGate
BY RecsAssumption DEF Init, WorkersVetted, Vetted, Planning, Publishing, AuditGate, SamePayload, Occupied

\* Approvals are never taken back, so an unmoved process stays vetted.
LEMMA StaysVetted ==
  ASSUME NEW q \in Procs, Vetted(q), approved \subseteq approved',
         pc[q]' = pc[q], op[q]' = op[q], todo[q]' = todo[q], cur[q]' = cur[q]
  PROVE  Vetted(q)'
BY DEF Vetted, MayPublish

\* A process that works on its batch, or ends it, only needs what is left of it.
LEMMA LeavesVetted ==
  ASSUME TypeOK, NEW p \in Procs, Vetted(p), approved' = approved,
         \/ /\ pc[p] \notin Planning /\ pc[p]' \notin Planning \cup {"evidence", "create"}
            /\ op[p]' = op[p] /\ todo[p]' \subseteq todo[p]
         \/ pc[p]' = "idle" /\ op[p]' = "apply" /\ todo[p]' = {}
  PROVE  Vetted(p)'
BY DEF Vetted, MayPublish, Planning, Publishing

LEMMA VettedOwnStep ==
  ASSUME TypeOK, NEW p \in Procs, Vetted(p), Operator(p) \/ Drive(p) \/ Crash(p)
  PROVE  Vetted(p)'
<1> USE DEF TypeOK, LocalsOK, Planning
<1>1. CASE BeginApply(p)
  BY <1>1 DEF BeginApply, Vetted, MayPublish, history
<1>2. ASSUME NEW r \in Recs, NEW a \in ResolutionOps, NEW t \in Items, BeginResolve(p, r, a, t)
      PROVE Vetted(p)'
  BY <1>2 DEF BeginResolve, Vetted, MayPublish, ResolutionOps, Terminal, Publishing
<1>3. CASE AcquireQueue(p) \/ AcquireCatalog(p)
  BY <1>3 DEF AcquireQueue, AcquireCatalog, Vetted, MayPublish, history
<1>4. ASSUME NEW S \in SUBSET Recs, PlanApply(p, S) PROVE Vetted(p)'
  <2>1. \A r \in S : Applicable(r) => KindOf[r] # "malformed"
    BY DEF Applicable, Class, Verdict, Readable
  <2> QED
    BY <1>4, <2>1 DEF PlanApply, Vetted, MayPublish, Publishing, history
<1>5. CASE PlanResolve(p)
  <2>1. cur[p] \in Recs
    BY <1>5 DEF PlanResolve, Resolvable, Visible
  <2>2. op[p] \in Publishing => Intended(cur[p], op[p])
    BY <1>5 DEF PlanResolve, Resolvable, Recoverable, Applies, Publishing
  <2>3. op[p] \in Publishing => MayPublish(cur[p])
    BY <1>5, <2>2 DEF PlanResolve, Vetted, Intended, MayPublish, Publishing, Readable
  <2> QED
    BY <1>5, <2>1, <2>3 DEF PlanResolve, Vetted, MayPublish, history
<1>6. CASE PlanRefused(p) \/ Complete(p) \/ Crash(p)
  BY <1>6, LeavesVetted DEF PlanRefused, Complete, Crash, Reset, history
<1>7. ASSUME NEW r \in Recs, ExamineApply(p, r) PROVE Vetted(p)'
  <2>1. r \in todo[p] /\ pc[p] = "next" /\ op[p] = "apply" /\ op' = op /\ approved' = approved
    BY <1>7 DEF ExamineApply, Take, TakeAndReport, history
  <2>2. CASE Writes(r) /\ Take(p, r, "evidence")
    BY <2>1, <2>2 DEF Writes, AuditPasses, Take, Vetted, MayPublish, Publishing
  <2>3. CASE Take(p, r, "ledger") \/ TakeAndReport(p, r, "review")
    BY <2>1, <2>3, LeavesVetted DEF Take, TakeAndReport
  <2> QED
    BY <1>7, <2>2, <2>3 DEF ExamineApply
<1>8. ASSUME NEW r \in Recs, ExamineResolve(p, r) PROVE Vetted(p)'
  <2>1. r \in todo[p] /\ pc[p] = "next" /\ op' = op /\ approved' = approved
    BY <1>8 DEF ExamineResolve, Take, TakeAndReport, history
  <2>2. CASE Take(p, r, "evidence") /\ op[p] \in Publishing
    BY <2>1, <2>2 DEF Take, Vetted, MayPublish, Publishing
  <2>3. CASE Take(p, r, "park") \/ Take(p, r, "unlink") \/ Take(p, r, "ledger")
    <3>1. pc[p]' \in {"park", "unlink", "ledger"} /\ todo[p]' \subseteq todo[p]
      BY <2>3 DEF Take
    <3> QED
      BY <2>1, <3>1, LeavesVetted
  <2>4. CASE TakeAndReport(p, r, "failed")
    BY <2>1, <2>4, LeavesVetted DEF TakeAndReport
  <2> QED
    BY <1>8, <2>2, <2>3, <2>4 DEF ExamineResolve
<1>9. ASSUME NEW r \in Recs, ExamineFails(p, r) PROVE Vetted(p)'
  BY <1>9, LeavesVetted DEF ExamineFails, TakeAndReport, history
<1>10. CASE AttachEvidence(p)
  BY <1>10 DEF AttachEvidence, Advance, Vetted, MayPublish, history
<1>11. CASE CreateItem(p) \/ WriteLedger(p) \/ LedgerDegraded(p) \/ Park(p)
  BY <1>11, LeavesVetted DEF CreateItem, WriteLedger, LedgerDegraded, Park, Advance, history
<1>12. CASE UpsertIndex(p) \/ IndexDegraded(p)
  BY <1>12, LeavesVetted DEF UpsertIndex, IndexDegraded, AfterIndex, Advance, Finish, history
<1>13. CASE Unlink(p) \/ StepFails(p)
  <2>1. pc[p] \notin Planning /\ pc[p]' = "next" /\ UNCHANGED <<op, todo, approved>>
    BY <1>13 DEF Unlink, StepFails, Finish, history
  <2> QED
    BY <2>1, LeavesVetted
<1> QED
  BY <1>1, <1>2, <1>3, <1>4, <1>5, <1>6, <1>7, <1>8, <1>9, <1>10, <1>11, <1>12, <1>13
     DEF Operator, Drive

LEMMA VettedStep == TypeOK /\ WorkersVetted /\ [Next]_vars => WorkersVetted'
<1> SUFFICES ASSUME TypeOK, WorkersVetted, [Next]_vars, NEW q \in Procs
             PROVE  Vetted(q)'
  BY DEF WorkersVetted
<1>q. Vetted(q)
  BY DEF WorkersVetted
<1>1. CASE Producer \/ OtherWriter \/ UNCHANGED vars
  <2>1. UNCHANGED <<locals, approved>>
    BY <1>1 DEF Producer, Enqueue, HookOpen, HookClose, OtherWriter, OtherCreates, OtherEdits,
       OtherDeletes, Evict, vars, history
  <2> QED
    BY <1>q, <2>1, StaysVetted DEF locals
<1>2. ASSUME NEW p \in Procs, Operator(p) \/ Drive(p) \/ Crash(p) PROVE Vetted(q)'
  <2>1. CASE q = p
    BY <1>2, <1>q, <2>1, VettedOwnStep
  <2>2. CASE q # p
    <3>1. /\ approved \subseteq approved'
          /\ pc[q]' = pc[q] /\ op[q]' = op[q] /\ todo[q]' = todo[q] /\ cur[q]' = cur[q]
      BY <1>2, <2>2 DEF Operator, BeginApply, BeginResolve, Drive, AcquireQueue, AcquireCatalog,
         PlanApply, PlanResolve, PlanRefused, ExamineApply, ExamineResolve, ExamineFails, Take,
         TakeAndReport, AttachEvidence, CreateItem, WriteLedger, LedgerDegraded, UpsertIndex,
         IndexDegraded, AfterIndex, Park, Unlink, StepFails, Complete, Crash, Reset, Advance,
         Finish, history, TypeOK, LocalsOK
    <3> QED
      BY <1>q, <3>1, StaysVetted
  <2> QED BY <2>1, <2>2
<1> QED
  BY <1>1, <1>2 DEF Next

\* A vetted process writes only what the audit let through or somebody approved.
LEMMA CreatesAudited ==
  ASSUME TypeOK, NEW p \in Procs, Vetted(p), AuditGate, pc[p] \in {"evidence", "create"},
         MakeItem(p), approved' = approved
  PROVE  AuditGate'
<1> DEFINE s == cur[p]
<1> DEFINE d == [span |-> PayloadOf[s], title |-> TitleOf[PayloadOf[s]], form |-> "orig"]
<1>1. s \in Recs /\ MayPublish(s) /\ ItemOf[s] \in Items
  BY RecsAssumption DEF TypeOK, LocalsOK, RecordSteps, Vetted
<1>2. items' = [items EXCEPT ![ItemOf[s]] = d]
  BY DEF MakeItem
<1> SUFFICES ASSUME NEW r \in Recs, SamePayload(r)'
             PROVE  /\ KindOf[r] # "secret"
                    /\ KindOf[r] = "risky" =>
                         \E q \in approved : ItemOf[q] = ItemOf[r] /\ PayloadOf[q] = PayloadOf[r]
  BY DEF AuditGate
<1>3. ItemOf[r] \in Items
  BY RecsAssumption
<1>4. CASE ItemOf[r] # ItemOf[s]
  <2>1. SamePayload(r)
    BY <1>1, <1>2, <1>3, <1>4 DEF SamePayload, Occupied, TypeOK, FilesOK
  <2> QED
    BY <2>1 DEF AuditGate
<1>5. CASE ItemOf[r] = ItemOf[s]
  <2>1. PayloadOf[r] = PayloadOf[s]
    BY <1>1, <1>2, <1>5 DEF SamePayload, TypeOK, FilesOK
  <2>2. KindOf[r] \in {"risky", "secret"} => KindOf[s] = "risky" /\ KindOf[r] = "risky"
    BY <1>1, <2>1, AuditAssumption DEF MayPublish
  <2> QED
    BY <1>1, <1>5, <2>1, <2>2 DEF MayPublish
<1> QED BY <1>4, <1>5

LEMMA AuditStep == TypeOK /\ WorkersVetted /\ AuditGate /\ [Next]_vars => AuditGate'
<1> SUFFICES ASSUME TypeOK, WorkersVetted, AuditGate, [Next]_vars PROVE AuditGate'
  OBVIOUS
<1> USE DEF TypeOK, FilesOK
\* Whoever else changes the pool does not put a record's payload into it.
<1>1. ASSUME approved \subseteq approved', \A r \in Recs : SamePayload(r)' => SamePayload(r)
      PROVE AuditGate'
  BY <1>1 DEF AuditGate
<1>2. ASSUME UNCHANGED items, approved \subseteq approved' PROVE AuditGate'
  BY <1>1, <1>2 DEF SamePayload, Occupied
<1>3. CASE Producer \/ UNCHANGED vars
  BY <1>2, <1>3 DEF Producer, Enqueue, HookOpen, HookClose, vars, files, history
<1>4. ASSUME NEW i \in Items, NEW t \in Titles, OtherCreates(i, t) PROVE AuditGate'
  <2>1. \A r \in Recs : SamePayload(r)' => SamePayload(r)
    BY <1>4, RecsAssumption DEF OtherCreates, SamePayload, Occupied
  <2> QED
    BY <1>1, <1>4, <2>1 DEF OtherCreates, history
<1>5. ASSUME NEW i \in Items, NEW f \in Forms, OtherEdits(i, f) PROVE AuditGate'
  <2>1. items[i] \in Docs /\ items' = [items EXCEPT ![i] = [items[i] EXCEPT !.form = f]]
        /\ items[i] # NoItem
    BY <1>5 DEF OtherEdits, Occupied
  <2>2. \A r \in Recs : SamePayload(r)' => SamePayload(r)
    BY <2>1, RecsAssumption DEF SamePayload, Occupied, Docs
  <2> QED
    BY <1>1, <1>5, <2>2 DEF OtherEdits, history
<1>6. ASSUME NEW i \in Items, OtherDeletes(i) \/ Evict(i) PROVE AuditGate'
  <2>1. \A r \in Recs : SamePayload(r)' => SamePayload(r)
    BY <1>6, RecsAssumption DEF OtherDeletes, Evict, SamePayload, Occupied
  <2> QED
    BY <1>1, <1>6, <2>1 DEF OtherDeletes, Evict, history
<1>7. ASSUME NEW p \in Procs, Operator(p) \/ Drive(p) \/ Crash(p) PROVE AuditGate'
  <2>1. CASE pc[p] \in {"evidence", "create"} /\ MakeItem(p) /\ approved' = approved
    BY <2>1, CreatesAudited DEF WorkersVetted
  <2>2. CASE UNCHANGED items /\ approved \subseteq approved'
    BY <1>2, <2>2
  <2> QED
    BY <1>7, <2>1, <2>2 DEF Operator, BeginApply, BeginResolve, Drive, AcquireQueue,
       AcquireCatalog, PlanApply, PlanResolve, PlanRefused, ExamineApply, ExamineResolve,
       ExamineFails, AttachEvidence, CreateItem, WriteLedger, LedgerDegraded, UpsertIndex,
       IndexDegraded, Park, Unlink, StepFails, Complete, Crash, files, history
<1> QED
  BY <1>3, <1>4, <1>5, <1>6, <1>7 DEF Next, OtherWriter

(* What the audit blocks is published only with an operator's approval, and  *)
(* a secret never: however decisions, crashes, retries and the recovery of   *)
(* an interrupted approval follow each other.                                *)
THEOREM AuditHolds == Spec => []AuditGate
<1>1. Init => TypeOK /\ WorkersVetted /\ AuditGate
  BY TypeInit, VettedInit
<1>2. TypeOK /\ WorkersVetted /\ AuditGate /\ [Next]_vars
        => (TypeOK /\ WorkersVetted /\ AuditGate)'
  BY TypeStep, VettedStep, AuditStep
<1> QED
  BY <1>1, <1>2, PTL DEF Spec

-----------------------------------------------------------------------------
(* Exactly once.  The exclusive creation counts on the md file that an       *)
(* earlier creation left behind, so the count is tied to the file.           *)

CreatedOnce == \A i \in Items : created[i] = 0 \/ (created[i] = 1 /\ Occupied(i))

LEMMA CreatedStep ==
  ASSUME MaxDeletes = 0, TypeOK, CreatedOnce, [Next]_vars
  PROVE  CreatedOnce'
<1> USE DEF TypeOK, FilesOK, HistoryOK
<1>1. ASSUME UNCHANGED created, \A i \in Items : Occupied(i) => Occupied(i)'
      PROVE  CreatedOnce'
  BY <1>1 DEF CreatedOnce
<1>2. ASSUME UNCHANGED <<created, items>> PROVE CreatedOnce'
  BY <1>1, <1>2 DEF Occupied
<1>3. CASE Producer \/ UNCHANGED vars
  BY <1>2, <1>3 DEF Producer, Enqueue, HookOpen, HookClose, vars, files, history
<1>4. ASSUME NEW i \in Items, NEW t \in Titles, OtherCreates(i, t) PROVE CreatedOnce'
  <2>1. [span |-> NoSpan, title |-> t, form |-> "orig"] # NoItem
    BY NoItemAssumption DEF Docs, Forms
  <2> QED
    BY <1>1, <1>4, <2>1 DEF OtherCreates, Occupied, history
<1>5. ASSUME NEW i \in Items, NEW f \in Forms, OtherEdits(i, f) PROVE CreatedOnce'
  <2>1. [items[i] EXCEPT !.form = f] \in Docs
    BY <1>5 DEF OtherEdits, Occupied, Docs
  <2> QED
    BY <1>1, <1>5, <2>1, NoItemAssumption DEF OtherEdits, Occupied, history
<1>6. ASSUME NEW i \in Items, OtherDeletes(i) \/ Evict(i) PROVE CreatedOnce'
  BY <1>2, <1>6 DEF OtherDeletes, Evict, history
<1>7. ASSUME NEW p \in Procs, Operator(p) \/ Drive(p) \/ Crash(p) PROVE CreatedOnce'
  <2>1. CASE pc[p] = "create" /\ MakeItem(p)
    <3> DEFINE r == cur[p]
    <3>1. r \in Recs /\ ItemOf[r] \in Items /\ PayloadOf[r] \in Payloads
          /\ TitleOf[PayloadOf[r]] \in Titles
      BY <2>1, RecsAssumption DEF LocalsOK, RecordSteps
    <3>2. [span |-> PayloadOf[r], title |-> TitleOf[PayloadOf[r]], form |-> "orig"] # NoItem
      BY <3>1, NoItemAssumption DEF Docs, Forms
    <3>3. created[ItemOf[r]] = 0
      BY <2>1, <3>1 DEF MakeItem, CreatedOnce
    <3> QED
      BY <2>1, <3>1, <3>2, <3>3 DEF MakeItem, CreatedOnce, Occupied
  <2>2. CASE UNCHANGED <<created, items>>
    BY <1>2, <2>2
  <2> QED
    BY <1>7, <2>1, <2>2 DEF Operator, BeginApply, BeginResolve, Drive, AcquireQueue,
       AcquireCatalog, PlanApply, PlanResolve, PlanRefused, ExamineApply, ExamineResolve,
       ExamineFails, AttachEvidence, CreateItem, WriteLedger, LedgerDegraded, UpsertIndex,
       IndexDegraded, Park, Unlink, StepFails, Complete, Crash, files, history
<1> QED
  BY <1>3, <1>4, <1>5, <1>6, <1>7 DEF Next, OtherWriter

(* While nobody deletes items, retries after any number of crashes and       *)
(* failed steps create the md file of a record at most once.                 *)
THEOREM CreatesExactlyOnce ==
  ASSUME MaxDeletes = 0
  PROVE  Spec => []ExactlyOnce
<1>1. Init => CreatedOnce
  BY DEF Init, CreatedOnce
<1>2. TypeOK /\ CreatedOnce /\ [Next]_vars => CreatedOnce'
  BY CreatedStep
<1>3. TypeOK /\ CreatedOnce => ExactlyOnce
  BY DEF CreatedOnce, ExactlyOnce
<1> QED
  BY <1>1, <1>2, <1>3, TypeCorrect, PTL DEF Spec

-----------------------------------------------------------------------------
(* The refinement of the write buffer.                                     *)

LEMMA InPool ==
  ASSUME TypeOK, NEW i \in Items, items[i] # NoItem
  PROVE  [span |-> items[i].span, title |-> items[i].title] # NoItem
BY NoItemAssumption DEF TypeOK, FilesOK

LEMMA BufferStutter ==
  UNCHANGED <<queue, resolved, items, ledger>> => UNCHANGED Buffer!vars
BY DEF Buffer!vars, Visible

LEMMA BufferPublish ==
  ASSUME TypeOK, NEW p \in Procs, NEW r \in Visible, cur[p] = r, MakeItem(p),
         UNCHANGED <<queue, resolved, ledger>>
  PROVE  Buffer!Publish(r)
<1> DEFINE d == [span |-> PayloadOf[r], title |-> TitleOf[PayloadOf[r]], form |-> "orig"]
<1>1. r \in Recs /\ ItemOf[r] \in Items /\ PayloadOf[r] \in Payloads
      /\ TitleOf[PayloadOf[r]] \in Titles
  BY RecsAssumption DEF Visible
<1>2. d \in Docs
  BY <1>1 DEF Docs, Forms
<1>3. d # NoItem
  BY <1>2, NoItemAssumption
<1>4. items' = [items EXCEPT ![ItemOf[r]] = d] /\ items[ItemOf[r]] = NoItem
  BY DEF MakeItem, Occupied
<1> QED
  BY <1>1, <1>3, <1>4 DEF Buffer!Publish, Visible, TypeOK, FilesOK

LEMMA BufferRetire ==
  ASSUME TypeOK, WorkersReliable, NEW p \in Procs, NEW r \in Recs, cur[p] = r,
         pc[p] = "unlink", RemoveFile(p), UNCHANGED <<resolved, items, ledger>>
  PROVE  Buffer!Retire(r)
<1>1. r \in Visible /\ r \in Recs
  BY DEF WorkersReliable, Reliable, RecordSteps, Visible
<1>2. Buffer!Published(r) \/ r \in resolved \/ Buffer!Merged(r)
  <2>1. ItemOf[r] \in Items
    BY <1>1, RecsAssumption
  <2>2. Published(r) => Buffer!Published(r)
    BY <2>1, InPool DEF Published, SamePayload, Occupied, Buffer!Published
  <2>3. op[p] = "accept_duplicate" /\ TwinOf(r, target[p]) => Buffer!Merged(r)
    BY InPool DEF TwinOf, Occupied, Buffer!Merged, TypeOK, LocalsOK
  <2> QED BY <2>2, <2>3, KeptRecord DEF Kept
<1>3. Visible' = Visible \ {r}
  BY <1>1 DEF Visible, RemoveFile, TypeOK, FilesOK
<1>4. {q \in Recs : queue'[q] = "gone"} = {q \in Recs : queue[q] = "gone"} \cup {r}
  BY <1>1 DEF RemoveFile, TypeOK, FilesOK
<1> QED
  BY <1>1, <1>2, <1>3, <1>4 DEF Buffer!Retire

LEMMA BufferStep ==
  ASSUME MaxDeletes = 0, TypeOK, WorkersReliable, [Next]_vars
  PROVE  [Buffer!Next]_(Buffer!vars)
<1>1. ASSUME NEW r \in Recs, Enqueue(r) \/ HookOpen(r)
      PROVE Buffer!Accept(r)
  <2>1. r \notin Visible /\ queue[r] # "gone" /\ Visible' = Visible \cup {r}
    BY <1>1 DEF Enqueue, HookOpen, Visible, TypeOK, FilesOK
  <2>2. {q \in Recs : queue'[q] = "gone"} = {q \in Recs : queue[q] = "gone"}
    BY <1>1 DEF Enqueue, HookOpen, TypeOK, FilesOK
  <2>3. UNCHANGED <<resolved, items, ledger>>
    BY <1>1 DEF Enqueue, HookOpen
  <2> QED
    BY <2>1, <2>2, <2>3 DEF Buffer!Accept
<1>2. ASSUME NEW r \in Recs, HookClose(r) PROVE UNCHANGED Buffer!vars
  <2>1. Visible' = Visible
    BY <1>2 DEF HookClose, Visible, TypeOK, FilesOK
  <2>2. {q \in Recs : queue'[q] = "gone"} = {q \in Recs : queue[q] = "gone"}
    BY <1>2 DEF HookClose, TypeOK, FilesOK
  <2> QED
    BY <1>2, <2>1, <2>2 DEF HookClose, Buffer!vars
<1>3. ASSUME NEW i \in Items, NEW t \in Titles, OtherCreates(i, t)
      PROVE Buffer!Foreign(i, t)
  <2> DEFINE d == [span |-> NoSpan, title |-> t, form |-> "orig"]
  <2>1. d # NoItem
    <3>1. d \in Docs
      BY DEF Docs, Forms
    <3> QED BY <3>1, NoItemAssumption
  <2>2. items' = [items EXCEPT ![i] = d] /\ items[i] = NoItem
        /\ (\A r \in Recs : ItemOf[r] # i) /\ UNCHANGED <<queue, resolved, ledger>>
    BY <1>3 DEF OtherCreates, Occupied
  <2> QED
    BY <2>1, <2>2 DEF Buffer!Foreign, Visible, TypeOK, FilesOK
<1>4. ASSUME NEW i \in Items, NEW f \in Forms, OtherEdits(i, f) PROVE UNCHANGED Buffer!vars
  <2> DEFINE d == [items[i] EXCEPT !.form = f]
  <2>1. items[i] \in Docs /\ items[i] # NoItem
    BY <1>4 DEF OtherEdits, Occupied, TypeOK, FilesOK
  <2>2. d \in Docs /\ d.span = items[i].span /\ d.title = items[i].title
    BY <2>1 DEF Docs
  <2>3. d # NoItem
    BY <2>2, NoItemAssumption
  <2>4. items' = [items EXCEPT ![i] = d] /\ UNCHANGED <<queue, resolved, ledger>>
    BY <1>4 DEF OtherEdits
  <2> QED
    BY <2>1, <2>2, <2>3, <2>4 DEF Buffer!vars, Visible, TypeOK, FilesOK
<1>5. ASSUME NEW i \in Items PROVE ~OtherDeletes(i)
  BY DEF OtherDeletes, TypeOK, HistoryOK
<1>6. ASSUME NEW i \in Items, Evict(i) PROVE UNCHANGED Buffer!vars
  BY <1>6, BufferStutter DEF Evict
<1>7. ASSUME NEW p \in Procs, Operator(p) \/ Crash(p) PROVE UNCHANGED Buffer!vars
  BY <1>7, BufferStutter DEF Operator, BeginApply, BeginResolve, Crash, files
<1>8. ASSUME NEW p \in Procs, Drive(p),
             ~(CreateItem(p) \/ WriteLedger(p) \/ Park(p) \/ Unlink(p) \/ StepFails(p))
      PROVE UNCHANGED Buffer!vars
  BY <1>8, BufferStutter DEF Drive, AcquireQueue, AcquireCatalog, PlanApply, PlanResolve,
     PlanRefused, ExamineApply, ExamineResolve, ExamineFails, AttachEvidence, LedgerDegraded,
     UpsertIndex, IndexDegraded, Complete, files
<1>9. ASSUME NEW p \in Procs, CreateItem(p)
      PROVE \E r \in Recs : Buffer!Publish(r)
  <2>1. cur[p] \in Visible /\ cur[p] \in Recs
    BY <1>9 DEF CreateItem, WorkersReliable, Reliable, RecordSteps, Visible
  <2>2. MakeItem(p) /\ UNCHANGED <<queue, resolved, ledger>>
    BY <1>9 DEF CreateItem
  <2>3. PICK r \in Recs : r = cur[p]
    BY <2>1
  <2>4. Buffer!Publish(r)
    BY <2>1, <2>2, <2>3, BufferPublish
  <2> QED
    BY <2>4
<1>10. ASSUME NEW p \in Procs, WriteLedger(p)
       PROVE \E i \in Items : Buffer!Source(i)
  <2>1. cur[p] \in Recs /\ SamePayload(cur[p])
    BY <1>10 DEF WriteLedger, WorkersReliable, Reliable, RecordSteps, Visible
  <2>2. ItemOf[cur[p]] \in Items /\ items[ItemOf[cur[p]]] # NoItem
    BY <2>1, RecsAssumption DEF SamePayload, Occupied
  <2>3. ledger' = [ledger EXCEPT ![ItemOf[cur[p]]] = items[ItemOf[cur[p]]]]
        /\ UNCHANGED <<queue, resolved, items>>
    BY <1>10 DEF WriteLedger
  <2> QED
    BY <2>2, <2>3, InPool DEF Buffer!Source, Visible, TypeOK, FilesOK
<1>11. ASSUME NEW p \in Procs, Park(p) PROVE \E r \in Recs : Buffer!Park(r)
  <2>1. cur[p] \in Visible /\ cur[p] \in Recs
    BY <1>11 DEF Park, WorkersReliable, Reliable, RecordSteps, Visible
  <2> QED
    BY <1>11, <2>1 DEF Park, Buffer!Park, Visible
<1>12. ASSUME NEW p \in Procs, Unlink(p) \/ StepFails(p)
       PROVE \/ UNCHANGED Buffer!vars
             \/ \E r \in Recs : Buffer!Publish(r) \/ Buffer!Retire(r) \/ Buffer!Park(r)
  <2>1. pc[p] \in RecordSteps /\ cur[p] \in Visible /\ cur[p] \in Recs
    BY <1>12 DEF Unlink, StepFails, WorkersReliable, Reliable, RecordSteps, Visible
  <2>2. \/ UNCHANGED <<queue, resolved, items, ledger>>
        \/ MakeItem(p) /\ UNCHANGED <<queue, resolved, ledger>>
        \/ pc[p] = "unlink" /\ RemoveFile(p) /\ UNCHANGED <<resolved, items, ledger>>
    BY <1>12 DEF Unlink, StepFails
  <2>3. CASE UNCHANGED <<queue, resolved, items, ledger>>
    BY <2>3, BufferStutter
  <2>4. CASE MakeItem(p) /\ UNCHANGED <<queue, resolved, ledger>>
    <3>1. PICK r \in Recs : r = cur[p]
      BY <2>1
    <3>2. Buffer!Publish(r)
      BY <2>1, <2>4, <3>1, BufferPublish
    <3> QED
      BY <3>2
  <2>5. CASE pc[p] = "unlink" /\ RemoveFile(p) /\ UNCHANGED <<resolved, items, ledger>>
    <3>1. PICK r \in Recs : r = cur[p]
      BY <2>1
    <3>2. Buffer!Retire(r)
      BY <2>5, <3>1, BufferRetire
    <3> QED
      BY <3>2
  <2> QED
    BY <2>2, <2>3, <2>4, <2>5
<1>13. ASSUME NEW p \in Procs, Drive(p) PROVE [Buffer!Next]_(Buffer!vars)
  <2>1. CASE CreateItem(p)
    BY <1>9, <2>1 DEF Buffer!Next
  <2>2. CASE WriteLedger(p)
    BY <1>10, <2>2 DEF Buffer!Next
  <2>3. CASE Park(p)
    BY <1>11, <2>3 DEF Buffer!Next
  <2>4. CASE Unlink(p) \/ StepFails(p)
    BY <1>12, <2>4 DEF Buffer!Next
  <2> QED
    BY <1>8, <1>13, <2>1, <2>2, <2>3, <2>4
<1>14. CASE UNCHANGED vars
  BY <1>14, BufferStutter DEF vars, files
<1>15. CASE Producer
  BY <1>1, <1>2, <1>15 DEF Producer, Buffer!Next
<1>16. CASE OtherWriter
  BY <1>3, <1>4, <1>5, <1>6, <1>16 DEF OtherWriter, Buffer!Next
<1> QED
  BY <1>7, <1>13, <1>14, <1>15, <1>16 DEF Next

(* As long as nobody deletes an item, any number of drains, resolutions,     *)
(* crashes and failing steps together implement the write buffer: a write is *)
(* published at most once and is retired only when it is kept.               *)
THEOREM DrainImplementsBuffer ==
  ASSUME MaxDeletes = 0
  PROVE  Spec => RefinesBuffer
<1>1. Init => Buffer!Init
  BY DEF Init, Buffer!Init, Visible
<1>2. TypeOK /\ WorkersReliable /\ [Next]_vars => [Buffer!Next]_(Buffer!vars)
  BY BufferStep
<1> QED
  BY <1>1, <1>2, TypeCorrect, WorkersAreReliable, PTL DEF Spec, RefinesBuffer, Buffer!Spec
=============================================================================
