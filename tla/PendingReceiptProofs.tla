------------------------ MODULE PendingReceiptProofs ------------------------
(***************************************************************************)
(* Theorems about the receipts of the pending queue: that they are written *)
(* ahead of every change, that a completed one is true, and that the rows  *)
(* it leaves out of the derived index are counted or named in the marker.  *)
(***************************************************************************)
EXTENDS PendingQueueProofs

\* A batch is under way, and these of its records are not finished yet.
Working == Locked \ {"plan"}
Remaining(p) == todo[p] \cup (IF pc[p] \in RecordSteps THEN {cur[p]} ELSE {})

-----------------------------------------------------------------------------
(* Both locks keep everybody else away from a batch that is under way.     *)

LEMMA Excluded ==
  ASSUME TypeOK, WorkersReliable, [Next]_vars, NEW q \in Procs, pc[q] \in Working,
         ~Drive(q), ~Crash(q)
  PROVE  /\ UNCHANGED <<items, ledger, resolved, receipts, evidence, dirty, told, created>>
         /\ \A r \in Recs : queue'[r] = "gone" <=> queue[r] = "gone"
         /\ Visible \subseteq Visible'
         /\ index' = index \/ \E i \in evicting : index' = index \ {i}
         /\ pc[q]' = pc[q] /\ op[q]' = op[q] /\ target[q]' = target[q]
         /\ batch[q]' = batch[q] /\ todo[q]' = todo[q] /\ cur[q]' = cur[q] /\ out[q]' = out[q]
<1>l. queueLock = q /\ catalogLock = q /\ q # NoProc
  BY SentinelAssumption DEF WorkersReliable, Reliable, Working
<1>1. CASE Producer
  <2>1. PICK r \in Recs : Enqueue(r) \/ HookOpen(r) \/ HookClose(r)
    BY <1>1 DEF Producer
  <2>2. UNCHANGED <<resolved, items, ledger, evidence, index, dirty, receipts, locals, history>>
    BY <2>1 DEF Enqueue, HookOpen, HookClose
  <2>3. /\ \A s \in Recs : queue'[s] = "gone" <=> queue[s] = "gone"
        /\ Visible \subseteq Visible'
    BY <2>1 DEF Enqueue, HookOpen, HookClose, Visible, TypeOK, FilesOK
  <2> QED BY <2>2, <2>3 DEF locals, history
<1>2. CASE OtherWriter
  <2>1. PICK i \in Items : Evict(i)
    BY <1>l, <1>2 DEF OtherWriter, OtherCreates, OtherEdits, OtherDeletes, CatalogFree
  <2> QED BY <2>1 DEF Evict, Visible, locals, history
<1>3. ASSUME NEW p \in Procs, Operator(p) PROVE p # q
  BY <1>3 DEF Operator, BeginApply, BeginResolve, Working, Locked, RecordSteps
<1>4. ASSUME NEW p \in Procs, Drive(p) PROVE FALSE
  <2>1. p # q
    BY <1>4
  <2>2. pc[p] \notin Inside
    BY <2>1, OneInside DEF Working, Inside
  <2> QED
    BY <1>4, <1>l, <2>2 DEF Drive, AcquireQueue, AcquireCatalog, PlanApply, PlanResolve,
       PlanRefused, ExamineApply, ExamineResolve, ExamineFails, Take, TakeAndReport,
       AttachEvidence, CreateItem, WriteLedger, LedgerDegraded, UpsertIndex, IndexDegraded,
       Park, Unlink, StepFails, Complete, Inside, Locked, RecordSteps
<1>5. ASSUME NEW p \in Procs, Operator(p) \/ Crash(p), p # q
      PROVE /\ UNCHANGED <<queue, items, ledger, resolved, receipts, evidence, index, dirty, told, created>>
            /\ pc[q]' = pc[q] /\ op[q]' = op[q] /\ target[q]' = target[q]
            /\ batch[q]' = batch[q] /\ todo[q]' = todo[q] /\ cur[q]' = cur[q] /\ out[q]' = out[q]
  BY <1>5 DEF Operator, BeginApply, BeginResolve, Crash, Reset, files, history, TypeOK, LocalsOK
<1>6. CASE UNCHANGED vars
  BY <1>6 DEF vars, files, locals, history, Visible
<1> QED
  BY <1>1, <1>2, <1>3, <1>4, <1>5, <1>6 DEF Next, Visible

\* The steps of a batch that is under way and goes on.
LEMMA Batches ==
  ASSUME TypeOK, NEW p \in Procs, Drive(p) \/ Crash(p), pc[p]' \in Working
  PROVE  \/ Work(p) /\ pc[p] \in Working
         \/ pc[p] = "plan" /\ PlanResolve(p)
         \/ pc[p] = "plan" /\ \E S \in SUBSET Recs : PlanApply(p, S)
<1> USE DEF Working, Locked, RecordSteps, TypeOK, LocalsOK
<1>1. ~Crash(p) /\ ~Complete(p) /\ ~PlanRefused(p) /\ ~AcquireQueue(p) /\ ~AcquireCatalog(p)
  BY DEF Crash, Complete, PlanRefused, AcquireQueue, AcquireCatalog, Reset
<1>2. \/ PlanResolve(p) \/ \E S \in SUBSET Recs : PlanApply(p, S)
      \/ \E r \in Recs : ExamineApply(p, r) \/ ExamineResolve(p, r) \/ ExamineFails(p, r)
      \/ AttachEvidence(p) \/ CreateItem(p)
      \/ WriteLedger(p) \/ LedgerDegraded(p)
      \/ UpsertIndex(p) \/ IndexDegraded(p)
      \/ Park(p) \/ Unlink(p) \/ StepFails(p)
  BY <1>1 DEF Drive
<1>3. (PlanResolve(p) => pc[p] = "plan") /\ \A S \in SUBSET Recs : PlanApply(p, S) => pc[p] = "plan"
  BY DEF PlanResolve, PlanApply
<1>4. ASSUME ~PlanResolve(p), ~\E S \in SUBSET Recs : PlanApply(p, S)
      PROVE  pc[p] \in Working
  BY <1>2, <1>4 DEF ExamineApply, ExamineResolve, ExamineFails, Take, TakeAndReport,
     AttachEvidence, CreateItem, WriteLedger, LedgerDegraded, UpsertIndex, IndexDegraded,
     Park, Unlink, StepFails
<1> QED
  BY <1>2, <1>3, <1>4 DEF Work

\* Its own steps only take records off a batch.
LEMMA BatchShrinks ==
  ASSUME TypeOK, NEW p \in Procs, Work(p), pc[p] \in Working
  PROVE  /\ UNCHANGED <<receipts, op, target, batch, told>>
         /\ pc[p]' \in Working
         /\ Remaining(p)' \subseteq Remaining(p)
<1> USE DEF Working, Locked, RecordSteps, TypeOK, LocalsOK
<1>1. ~AcquireCatalog(p) /\ ~PlanResolve(p) /\ ~\E S \in SUBSET Recs : PlanApply(p, S)
  BY DEF AcquireCatalog, PlanResolve, PlanApply
<1>2. UNCHANGED <<receipts, op, target, batch, told>>
  BY <1>1 DEF Work, ExamineApply, ExamineResolve, ExamineFails,
     AttachEvidence, CreateItem, WriteLedger, LedgerDegraded, UpsertIndex, IndexDegraded,
     Park, Unlink, StepFails, files, history
<1>3. ASSUME NEW r \in Recs, ExamineApply(p, r) \/ ExamineResolve(p, r) \/ ExamineFails(p, r)
      PROVE pc[p]' \in Working /\ Remaining(p)' \subseteq Remaining(p)
  <2>1. pc[p] = "next" /\ r \in todo[p] /\ todo' = [todo EXCEPT ![p] = @ \ {r}]
    BY <1>3 DEF ExamineApply, ExamineResolve, ExamineFails, Take, TakeAndReport
  <2>2. \/ UNCHANGED pc
        \/ \E step \in RecordSteps : pc' = [pc EXCEPT ![p] = step] /\ cur' = [cur EXCEPT ![p] = r]
    BY <1>3 DEF ExamineApply, ExamineResolve, ExamineFails, Take, TakeAndReport
  <2> QED
    BY <2>1, <2>2 DEF Remaining
<1>4. ASSUME pc[p] \in RecordSteps, todo' = todo,
             \/ pc[p]' = "next"
             \/ pc[p]' \in RecordSteps /\ cur' = cur
      PROVE pc[p]' \in Working /\ Remaining(p)' \subseteq Remaining(p)
  BY <1>4 DEF Remaining
<1>5. CASE UpsertIndex(p) \/ IndexDegraded(p)
  <2>1. pc[p] \in RecordSteps /\ todo' = todo /\ \E v \in Outcomes : AfterIndex(p, v)
    BY <1>5 DEF UpsertIndex, IndexDegraded, Outcomes
  <2>2. pc[p]' = "next" \/ (pc[p]' \in RecordSteps /\ cur' = cur)
    BY <2>1 DEF AfterIndex, Finish, Advance
  <2> QED BY <1>2, <1>4, <2>1, <2>2
<1>6. CASE Unlink(p) \/ StepFails(p)
  <2>1. pc[p] \in RecordSteps /\ todo' = todo /\ pc[p]' = "next"
    BY <1>6 DEF Unlink, StepFails, Finish
  <2> QED BY <1>2, <1>4, <2>1
<1>7. CASE AttachEvidence(p) \/ CreateItem(p) \/ WriteLedger(p) \/ LedgerDegraded(p) \/ Park(p)
  <2>1. pc[p] \in RecordSteps /\ todo' = todo /\ pc[p]' \in RecordSteps /\ cur' = cur
    BY <1>7 DEF AttachEvidence, CreateItem, WriteLedger, LedgerDegraded, Park, Advance
  <2> QED BY <1>2, <1>4, <2>1
<1> QED
  BY <1>1, <1>2, <1>3, <1>5, <1>6, <1>7 DEF Work

-----------------------------------------------------------------------------
(* Written ahead: while a batch is under way the ledger has its prepared     *)
(* receipt, which names all that is left of it.                              *)

Receipted(p) ==
  pc[p] \in Working =>
    /\ batch[p] \in BatchIds /\ receipts[batch[p]] # NoBatch
    /\ Remaining(p) \subseteq receipts[batch[p]]
BatchesReceipted == \A p \in Procs : Receipted(p)

LEMMA Prepared ==
  ASSUME TypeOK, NEW p \in Procs, NEW S \in SUBSET Recs, Prepare(p, S)
  PROVE  /\ batch[p]' \in BatchIds /\ receipts'[batch[p]'] = S /\ S # NoBatch
         /\ receipts[batch[p]'] = NoBatch
BY SentinelAssumption DEF Prepare, TypeOK, FilesOK, LocalsOK

\* A process moves by its own steps only, and begins a batch outside of one.
LEMMA OthersMove ==
  ASSUME TypeOK, [Next]_vars, NEW q \in Procs, ~Drive(q), ~Crash(q)
  PROVE  pc[q]' = pc[q] \/ pc[q]' \notin Working
<1> USE DEF TypeOK, LocalsOK
<1>1. CASE Producer \/ OtherWriter \/ UNCHANGED vars
  BY <1>1 DEF Producer, Enqueue, HookOpen, HookClose, OtherWriter, OtherCreates, OtherEdits,
     OtherDeletes, Evict, vars, locals
<1>2. CASE Operator(q)
  BY <1>2 DEF Operator, BeginApply, BeginResolve, Working, Locked, RecordSteps
<1>3. ASSUME NEW p \in Procs, p # q, Operator(p) \/ Drive(p) \/ Crash(p)
      PROVE pc[q]' = pc[q]
  BY <1>3 DEF Operator, BeginApply, BeginResolve, Drive, AcquireQueue, AcquireCatalog,
     PlanApply, PlanResolve, PlanRefused, ExamineApply, ExamineResolve, ExamineFails, Take,
     TakeAndReport, AttachEvidence, CreateItem, WriteLedger, LedgerDegraded, UpsertIndex,
     IndexDegraded, AfterIndex, Park, Unlink, StepFails, Complete, Crash, Reset, Advance, Finish
<1> QED
  BY <1>1, <1>2, <1>3 DEF Next

LEMMA ReceiptedStep ==
  TypeOK /\ WorkersReliable /\ BatchesReceipted /\ [Next]_vars => BatchesReceipted'
<1> SUFFICES ASSUME TypeOK, WorkersReliable, BatchesReceipted, [Next]_vars,
                    NEW q \in Procs, pc[q]' \in Working
             PROVE  /\ batch[q]' \in BatchIds /\ receipts'[batch[q]'] # NoBatch
                    /\ Remaining(q)' \subseteq receipts'[batch[q]']
  BY DEF BatchesReceipted, Receipted
<1>q. Receipted(q)
  BY DEF BatchesReceipted
<1>1. CASE Drive(q) \/ Crash(q)
  <2>1. CASE Work(q) /\ pc[q] \in Working
    BY <1>q, <2>1, BatchShrinks DEF Receipted
  <2>2. CASE PlanResolve(q)
    <3>1. cur[q] \in Recs /\ Prepare(q, {cur[q]})
      BY <2>2 DEF PlanResolve, Resolvable, Visible
    <3>2. Remaining(q)' = {cur[q]}
      BY <2>2 DEF PlanResolve, Remaining, RecordSteps, TypeOK, LocalsOK
    <3> QED BY <3>1, <3>2, Prepared
  <2>3. ASSUME NEW S \in SUBSET Recs, PlanApply(q, S)
        PROVE  /\ batch[q]' \in BatchIds /\ receipts'[batch[q]'] # NoBatch
               /\ Remaining(q)' \subseteq receipts'[batch[q]']
    <3>1. Prepare(q, S) /\ Remaining(q)' \subseteq S
      BY <2>3 DEF PlanApply, Remaining, RecordSteps, TypeOK, LocalsOK
    <3> QED BY <3>1, Prepared
  <2> QED BY <1>1, <2>1, <2>2, <2>3, Batches
<1>2. CASE ~(Drive(q) \/ Crash(q))
  <2>1. CASE pc[q] \in Working
    <3>1. Receipted(q)' = Receipted(q)
      BY <1>2, <2>1, Excluded DEF Receipted, Remaining
    <3> QED BY <1>q, <3>1 DEF Receipted
  <2>2. CASE pc[q] \notin Working
    <3>1. pc[q]' = pc[q] \/ pc[q]' \notin Working
      BY <1>2, OthersMove
    <3> QED BY <2>2, <3>1
  <2> QED BY <2>1, <2>2
<1> QED BY <1>1, <1>2

LEMMA ReceiptedAlways == Spec => []BatchesReceipted
<1>1. Init => BatchesReceipted
  BY DEF Init, BatchesReceipted, Receipted, Working, Locked, RecordSteps
<1>2. TypeOK /\ WorkersReliable /\ BatchesReceipted /\ [Next]_vars => BatchesReceipted'
  BY ReceiptedStep
<1> QED
  BY <1>1, <1>2, TypeCorrect, WorkersAreReliable, PTL DEF Spec

\* Only a process at its creation step makes an item.
LEMMA Creation ==
  ASSUME TypeOK, [Next]_vars, NEW i \in Items, created'[i] # created[i]
  PROVE  \E p \in Procs : pc[p] = "create" /\ ItemOf[cur[p]] = i
<1>1. ~Producer /\ ~OtherWriter /\ ~UNCHANGED vars
  BY DEF Producer, Enqueue, HookOpen, HookClose, OtherWriter, OtherCreates, OtherEdits,
     OtherDeletes, Evict, vars, history
<1>2. PICK p \in Procs : Operator(p) \/ Drive(p) \/ Crash(p)
  BY <1>1 DEF Next
<1>3. CreateItem(p) \/ StepFails(p)
  BY <1>2 DEF Operator, BeginApply, BeginResolve, Drive, AcquireQueue,
     AcquireCatalog, PlanApply, PlanResolve, PlanRefused, ExamineApply, ExamineResolve,
     ExamineFails, AttachEvidence, WriteLedger, LedgerDegraded, UpsertIndex, IndexDegraded,
     Park, Unlink, Complete, Crash, history
<1>4. pc[p] = "create" /\ MakeItem(p)
  BY <1>3 DEF CreateItem, StepFails
<1> QED
  BY <1>4 DEF MakeItem, TypeOK, HistoryOK

(* No item is created and no record leaves the queue before the prepared     *)
(* receipt of the batch that does it is in the ledger, whatever other drains *)
(* crashed and left unfinished (append_pending_receipt before the first      *)
(* write of a batch).                                                        *)
THEOREM ReceiptsAreWrittenAhead == Spec => WriteAhead
<1>1. ASSUME TypeOK, BatchesReceipted, [Next]_vars
      PROVE  /\ \A r \in Recs : queue[r] # "gone" /\ queue'[r] = "gone" => Recorded(r)
             /\ \A i \in Items : created'[i] # created[i] =>
                  \E r \in Recs : ItemOf[r] = i /\ Recorded(r)
  <2>1. ASSUME NEW p \in Procs, pc[p] \in RecordSteps PROVE cur[p] \in Recs /\ Recorded(cur[p])
    BY <1>1, <2>1 DEF BatchesReceipted, Receipted, Remaining, Recorded, Working, Locked,
       RecordSteps, TypeOK, LocalsOK
  <2> QED
    BY <1>1, <2>1, Removal, Creation DEF RecordSteps
<1> QED
  BY <1>1, TypeCorrect, ReceiptedAlways, PTL DEF Spec, WriteAhead

-----------------------------------------------------------------------------
(* True receipts: what a batch reports of a record it has finished is so,    *)
(* and stays so until the batch ends.                                        *)

Reported(p, r) ==
  IF out[p][r] \in {"applied", "repair"}
  THEN queue[r] = "gone" /\ Kept(p, r)
  ELSE out[p][r] # "none" /\ (queue[r] # "gone" \/ r \in resolved)
Honest(p) ==
  pc[p] \in Working => \A r \in receipts[batch[p]] \ Remaining(p) : Reported(p, r)
BatchesHonest == \A p \in Procs : Honest(p)

\* A step of a batch that is under way, without the plan.
LEMMA WorkCases ==
  ASSUME NEW p \in Procs, Work(p), pc[p] \in Working
  PROVE  \/ \E r \in Recs : ExamineApply(p, r) \/ ExamineResolve(p, r) \/ ExamineFails(p, r)
         \/ AttachEvidence(p) \/ CreateItem(p)
         \/ WriteLedger(p) \/ LedgerDegraded(p)
         \/ UpsertIndex(p) \/ IndexDegraded(p)
         \/ Park(p) \/ Unlink(p) \/ StepFails(p)
BY DEF Work, AcquireCatalog, PlanResolve, PlanApply, Working, Locked, RecordSteps

\* A batch adds to the pool and the ledgers, and removes its current record only.
LEMMA WorkAdds ==
  ASSUME TypeOK, NEW p \in Procs, Reliable(p), Work(p), pc[p] \in Working
  PROVE  /\ \A i \in Items : Occupied(i) => items'[i] = items[i]
         /\ \A i \in Items : ledger[i] # NoItem => ledger'[i] # NoItem
         /\ resolved \subseteq resolved'
         /\ UNCHANGED queue \/ (pc[p] = "unlink" /\ RemoveFile(p))
<1> USE DEF TypeOK, FilesOK
<1>1. UNCHANGED items \/ MakeItem(p)
  BY WorkCases DEF ExamineApply, ExamineResolve, ExamineFails, AttachEvidence, CreateItem,
     WriteLedger, LedgerDegraded, UpsertIndex, IndexDegraded, Park, Unlink, StepFails, files
<1>2. \A i \in Items : Occupied(i) => items'[i] = items[i]
  BY <1>1 DEF MakeItem
<1>3. UNCHANGED ledger \/ WriteLedger(p)
  BY WorkCases DEF ExamineApply, ExamineResolve, ExamineFails, AttachEvidence, CreateItem,
     LedgerDegraded, UpsertIndex, IndexDegraded, Park, Unlink, StepFails, files
<1>4. \A i \in Items : ledger[i] # NoItem => ledger'[i] # NoItem
  BY <1>3 DEF WriteLedger, Reliable, SamePayload, Occupied
<1>5. resolved \subseteq resolved'
  BY WorkCases DEF ExamineApply, ExamineResolve, ExamineFails, AttachEvidence, CreateItem,
     WriteLedger, LedgerDegraded, UpsertIndex, IndexDegraded, Park, Unlink, StepFails, files
<1>6. UNCHANGED queue \/ (pc[p] = "unlink" /\ RemoveFile(p))
  BY WorkCases DEF ExamineApply, ExamineResolve, ExamineFails, AttachEvidence, CreateItem,
     WriteLedger, LedgerDegraded, UpsertIndex, IndexDegraded, Park, Unlink, StepFails, files
<1> QED BY <1>2, <1>4, <1>5, <1>6

LEMMA KeptStays ==
  ASSUME TypeOK, NEW p \in Procs, NEW r \in Recs, Kept(p, r),
         op[p]' = op[p], target[p]' = target[p],
         \A i \in Items : Occupied(i) => items'[i] = items[i],
         \A i \in Items : ledger[i] # NoItem => ledger'[i] # NoItem,
         resolved \subseteq resolved'
  PROVE  Kept(p, r)'
<1>1. ItemOf[r] \in Items
  BY RecsAssumption
<1>2. Published(r) => Published(r)'
  BY <1>1 DEF Published, SamePayload, Occupied
<1>3. op[p] = "accept_duplicate" /\ TwinOf(r, target[p]) => TwinOf(r, target[p])'
  BY DEF TwinOf, Occupied, TypeOK, LocalsOK
<1> QED BY <1>2, <1>3 DEF Kept

\* What is reported of a finished record is not taken back.
LEMMA WorkReports ==
  ASSUME TypeOK, NEW p \in Procs, Work(p), pc[p] \in Working,
         NEW r \in Recs, r \notin Remaining(p)
  PROVE  out'[p][r] = out[p][r]
<1> USE DEF TypeOK, LocalsOK, Remaining
<1>1. ASSUME NEW s \in Recs, ExamineApply(p, s) \/ ExamineResolve(p, s) \/ ExamineFails(p, s)
      PROVE out'[p][r] = out[p][r]
  <2>1. s # r
    BY <1>1 DEF ExamineApply, ExamineResolve, ExamineFails, Take, TakeAndReport
  <2>2. UNCHANGED out \/ \E v \in Outcomes : out' = [out EXCEPT ![p][s] = v]
    BY <1>1 DEF ExamineApply, ExamineResolve, ExamineFails, TakeAndReport, Outcomes
  <2> QED BY <2>1, <2>2
<1>2. CASE pc[p] \in RecordSteps /\ \E v : out' = [out EXCEPT ![p][cur[p]] = v]
  BY <1>2
<1>3. CASE UpsertIndex(p) \/ IndexDegraded(p)
  <2>1. pc[p] \in RecordSteps /\ \E v \in Outcomes : AfterIndex(p, v)
    BY <1>3 DEF UpsertIndex, IndexDegraded, RecordSteps, Outcomes
  <2>2. \E v : out' = [out EXCEPT ![p][cur[p]] = v]
    BY <2>1 DEF AfterIndex, Finish, Report
  <2> QED BY <1>2, <2>1, <2>2
<1>4. CASE Unlink(p) \/ StepFails(p) \/ LedgerDegraded(p)
  <2>1. pc[p] \in RecordSteps
    BY <1>4 DEF Unlink, StepFails, LedgerDegraded, RecordSteps
  <2>2. \E v : out' = [out EXCEPT ![p][cur[p]] = v]
    BY <1>4 DEF Unlink, StepFails, LedgerDegraded, Finish, Report
  <2> QED BY <1>2, <2>1, <2>2
<1>5. CASE AttachEvidence(p) \/ CreateItem(p) \/ WriteLedger(p) \/ Park(p)
  BY <1>5 DEF AttachEvidence, CreateItem, WriteLedger, Park
<1> QED BY <1>1, <1>3, <1>4, <1>5, WorkCases

\* A record is finished with a report that is true.
LEMMA FinishesHonestly ==
  ASSUME TypeOK, NEW p \in Procs, Reliable(p), Work(p), pc[p] \in Working,
         NEW r \in Remaining(p), r \notin Remaining(p)'
  PROVE  Reported(p, r)'
<1> USE DEF TypeOK, LocalsOK, FilesOK
<1>v. r \in Recs /\ queue[r] # "gone"
  BY DEF Remaining, Reliable, Visible, Working, Locked, RecordSteps
<1>1. ASSUME out'[p][r] \in {"review", "failed"}, queue' = queue PROVE Reported(p, r)'
  BY <1>1, <1>v DEF Reported
<1>2. ASSUME NEW s \in Recs, ExamineApply(p, s) \/ ExamineResolve(p, s) \/ ExamineFails(p, s)
      PROVE Reported(p, r)'
  <2>1. pc[p] = "next" /\ r \in todo[p] /\ todo' = [todo EXCEPT ![p] = @ \ {s}] /\ queue' = queue
    BY <1>2 DEF ExamineApply, ExamineResolve, ExamineFails, Take, TakeAndReport, Remaining,
       RecordSteps, files
  <2>2. r = s
    BY <2>1 DEF Remaining
  <2>3. ~\E step \in RecordSteps : Take(p, s, step)
    BY <2>2 DEF Take, Remaining
  <2>4. TakeAndReport(p, s, "review") \/ TakeAndReport(p, s, "failed")
    BY <1>2, <2>3 DEF ExamineApply, ExamineResolve, ExamineFails, RecordSteps
  <2> QED BY <1>1, <2>1, <2>2, <2>4 DEF TakeAndReport
<1>3. ASSUME pc[p] \in RecordSteps, todo' = todo PROVE r = cur[p] \/ r \in todo'[p]
  BY <1>3 DEF Remaining
<1>4. CASE UpsertIndex(p) \/ IndexDegraded(p)
  <2>1. pc[p] \in RecordSteps /\ todo' = todo /\ queue' = queue
        /\ \E v \in Outcomes : AfterIndex(p, v)
    BY <1>4 DEF UpsertIndex, IndexDegraded, RecordSteps, Outcomes
  <2>2. r = cur[p]
    BY <1>3, <2>1 DEF Remaining
  <2>3. Finish(p, "failed")
    BY <2>1, <2>2 DEF AfterIndex, Advance, Remaining, RecordSteps
  <2> QED BY <1>1, <2>1, <2>2, <2>3 DEF Finish, Report
<1>5. CASE Unlink(p)
  <2>1. r = cur[p]
    BY <1>3, <1>5 DEF Unlink, RecordSteps, Remaining
  <2>2. CASE queue[cur[p]] = seen[p]
    <3>1. out'[p][r] \in {"applied", "repair"} /\ queue'[r] = "gone"
      BY <1>5, <1>v, <2>1, <2>2 DEF Unlink, Finish, Report, RemoveFile
    <3>2. Kept(p, r)
      BY <1>5, <2>1 DEF Unlink, Reliable
    <3>3. Kept(p, r)'
      BY <1>5, <1>v, <3>2, KeptStays DEF Unlink
    <3> QED BY <3>1, <3>3 DEF Reported
  <2>3. CASE queue[cur[p]] # seen[p]
    BY <1>1, <1>5, <1>v, <2>1, <2>3 DEF Unlink, Finish, Report
  <2> QED BY <2>2, <2>3
<1>6. CASE StepFails(p)
  <2>1. pc[p] \in RecordSteps /\ todo' = todo
    BY <1>6 DEF StepFails, RecordSteps
  <2>2. r = cur[p]
    BY <1>3, <2>1 DEF Remaining
  <2>3. out'[p][r] = "failed"
    BY <1>6, <1>v, <2>2 DEF StepFails, Finish, Report
  <2>4. queue' = queue \/ (pc[p] = "unlink" /\ op[p] \in Terminal /\ resolved' = resolved)
    BY <1>6 DEF StepFails
  <2>5. pc[p] = "unlink" /\ op[p] \in Terminal => r \in resolved
    BY <2>2 DEF Reliable, Kept
  <2> QED BY <1>1, <2>3, <2>4, <2>5 DEF Reported
<1>7. CASE AttachEvidence(p) \/ CreateItem(p) \/ WriteLedger(p) \/ LedgerDegraded(p) \/ Park(p)
  <2>1. pc[p] \in RecordSteps /\ todo' = todo /\ pc[p]' \in RecordSteps /\ cur' = cur
    BY <1>7 DEF AttachEvidence, CreateItem, WriteLedger, LedgerDegraded, Park, Advance, RecordSteps
  <2> QED BY <2>1 DEF Remaining
<1> QED BY <1>2, <1>4, <1>5, <1>6, <1>7, WorkCases

LEMMA HonestStep ==
  TypeOK /\ WorkersReliable /\ BatchesReceipted /\ BatchesHonest /\ [Next]_vars => BatchesHonest'
<1> SUFFICES ASSUME TypeOK, WorkersReliable, BatchesReceipted, BatchesHonest, [Next]_vars,
                    NEW q \in Procs, pc[q]' \in Working,
                    NEW r \in (receipts[batch[q]] \ Remaining(q))'
             PROVE  Reported(q, r)'
  BY DEF BatchesHonest, Honest
<1>q. Receipted(q) /\ Honest(q) /\ Reliable(q)
  BY DEF BatchesReceipted, BatchesHonest, WorkersReliable
<1>1. CASE Drive(q) \/ Crash(q)
  <2>1. CASE Work(q) /\ pc[q] \in Working
    <3>1. r \in receipts[batch[q]] /\ r \in Recs /\ r \notin Remaining(q)'
      BY <1>q, <2>1, BatchShrinks DEF Receipted, TypeOK, FilesOK
    <3>2. CASE r \in Remaining(q)
      BY <1>q, <2>1, <3>1, <3>2, FinishesHonestly
    <3>3. CASE r \notin Remaining(q)
      <4>1. Reported(q, r)
        BY <1>q, <2>1, <3>1, <3>3 DEF Honest
      <4>2. out'[q][r] = out[q][r]
        BY <2>1, <3>1, <3>3, WorkReports
      <4>3. queue'[r] = queue[r]
        BY <1>q, <2>1, <3>1, <3>3, WorkAdds
           DEF RemoveFile, Remaining, RecordSteps, TypeOK, FilesOK
      <4>4. resolved \subseteq resolved'
        BY <1>q, <2>1, WorkAdds
      <4>5. Kept(q, r) => Kept(q, r)'
        BY <1>q, <2>1, <3>1, WorkAdds, BatchShrinks, KeptStays
      <4> QED BY <4>1, <4>2, <4>3, <4>4, <4>5 DEF Reported
    <3> QED BY <3>2, <3>3
  <2>2. CASE PlanResolve(q)
    <3>1. cur[q] \in Recs /\ Prepare(q, {cur[q]})
      BY <2>2 DEF PlanResolve, Resolvable, Visible
    <3>2. Remaining(q)' = {cur[q]}
      BY <2>2 DEF PlanResolve, Remaining, RecordSteps, TypeOK, LocalsOK
    <3> QED BY <3>1, <3>2, Prepared
  <2>3. ASSUME NEW S \in SUBSET Recs, PlanApply(q, S) PROVE Reported(q, r)'
    <3>1. Prepare(q, S) /\ Remaining(q)' = {s \in S : Applicable(s)} /\ S \subseteq Visible
      BY <2>3 DEF PlanApply, Remaining, RecordSteps, TypeOK, LocalsOK
    <3>2. r \in S /\ ~Applicable(r) /\ r \in Recs
      BY <3>1, Prepared
    <3>3. out'[q][r] = "review" /\ queue' = queue
      BY <2>3, <3>2 DEF PlanApply, TypeOK, LocalsOK
    <3>4. queue[r] # "gone"
      BY <3>1, <3>2 DEF Visible
    <3> QED BY <3>3, <3>4 DEF Reported
  <2> QED BY <1>1, <2>1, <2>2, <2>3, Batches
<1>2. CASE ~(Drive(q) \/ Crash(q))
  <2>1. pc[q] \in Working
    BY <1>2, OthersMove
  <2>2. r \in receipts[batch[q]] \ Remaining(q) /\ r \in Recs
    BY <1>2, <1>q, <2>1, Excluded DEF Remaining, Receipted, TypeOK, FilesOK
  <2>3. Reported(q, r)
    BY <1>q, <2>1, <2>2 DEF Honest
  <2>4. out'[q][r] = out[q][r] /\ (queue'[r] = "gone" <=> queue[r] = "gone")
        /\ resolved' = resolved
    BY <1>2, <2>1, <2>2, Excluded
  <2>5. Kept(q, r) => Kept(q, r)'
    BY <1>2, <2>1, <2>2, Excluded, KeptStays
  <2> QED BY <2>3, <2>4, <2>5 DEF Reported
<1> QED BY <1>1, <1>2

LEMMA HonestAlways == Spec => []BatchesHonest
<1>1. Init => BatchesHonest
  BY DEF Init, BatchesHonest, Honest, Working, Locked, RecordSteps
<1>2. TypeOK /\ WorkersReliable /\ BatchesReceipted /\ BatchesHonest /\ [Next]_vars
        => BatchesHonest'
  BY HonestStep
<1> QED
  BY <1>1, <1>2, TypeCorrect, WorkersAreReliable, ReceiptedAlways, PTL DEF Spec

\* A receipt is completed by the process whose batch it is, when nothing remains.
LEMMA Completion ==
  ASSUME TypeOK, [Next]_vars, NEW b \in BatchIds, receipts[b] # NoBatch, receipts'[b] = NoBatch
  PROVE  \E p \in Procs : batch[p] = b /\ pc[p] = "next" /\ todo[p] = {} /\ Complete(p)
<1> USE DEF TypeOK, FilesOK
<1>1. ~Producer /\ ~OtherWriter /\ ~UNCHANGED vars
  BY DEF Producer, Enqueue, HookOpen, HookClose, OtherWriter, OtherCreates, OtherEdits,
     OtherDeletes, Evict, vars, files
<1>2. PICK p \in Procs : Operator(p) \/ Drive(p) \/ Crash(p)
  BY <1>1 DEF Next
<1>3. ~PlanResolve(p) /\ ~\E S \in SUBSET Recs : PlanApply(p, S)
  BY SentinelAssumption DEF PlanResolve, PlanApply, Prepare, Resolvable, Visible
<1>4. Complete(p)
  BY <1>2, <1>3 DEF Operator, BeginApply, BeginResolve, Drive, AcquireQueue, AcquireCatalog,
     PlanRefused, ExamineApply, ExamineResolve, ExamineFails, AttachEvidence, CreateItem,
     WriteLedger, LedgerDegraded, UpsertIndex, IndexDegraded, Park, Unlink, StepFails, Crash,
     files
<1> QED
  BY <1>4 DEF Complete

(* Whatever a completed receipt says of a record is true: applied means that *)
(* the record has left the queue and its content is kept, and everything     *)
(* else means that it is still queued or parked (the completed receipt of    *)
(* apply_pending and resolve_pending).                                       *)
THEOREM ReceiptsAreTruthful == Spec => TruthfulReceipt
<1>1. TypeOK /\ BatchesHonest /\ [Next]_vars =>
        \A b \in BatchIds : receipts[b] # NoBatch /\ receipts'[b] = NoBatch =>
          \E p \in Procs :
            /\ batch[p] = b
            /\ \A r \in receipts[b] :
                 IF out[p][r] \in {"applied", "repair"}
                 THEN queue[r] = "gone" /\ Kept(p, r)
                 ELSE out[p][r] # "none" /\ (queue[r] # "gone" \/ r \in resolved)
  <2> SUFFICES ASSUME TypeOK, BatchesHonest, [Next]_vars,
                      NEW b \in BatchIds, receipts[b] # NoBatch, receipts'[b] = NoBatch
               PROVE  \E p \in Procs : batch[p] = b /\ \A r \in receipts[b] : Reported(p, r)
    BY DEF Reported
  <2>1. PICK p \in Procs : batch[p] = b /\ pc[p] = "next" /\ todo[p] = {}
    BY Completion
  <2>2. Remaining(p) = {}
    BY <2>1 DEF Remaining, RecordSteps
  <2>3. \A r \in receipts[b] : Reported(p, r)
    BY <2>1, <2>2 DEF BatchesHonest, Honest, Working, Locked
  <2> QED BY <2>1, <2>3
<1> QED
  BY <1>1, TypeCorrect, HonestAlways, PTL DEF Spec, TruthfulReceipt

-----------------------------------------------------------------------------
(* Sidecars.  A plain drain makes no sidecars for the records that wait for  *)
(* a decision, so theirs are the derived ones.                               *)

Discreet(p) ==
  op[p] = "apply" =>
    /\ \A r \in todo[p] : KindOf[r] # "feedback"
    /\ pc[p] = "evidence" => KindOf[cur[p]] \notin {"risky", "feedback"}
DrainsDiscreet == \A p \in Procs : Discreet(p)

LEMMA DiscreetOwnStep ==
  ASSUME TypeOK, WorkersVetted, NEW p \in Procs, Discreet(p), Operator(p) \/ Drive(p) \/ Crash(p)
  PROVE  Discreet(p)'
<1> USE DEF TypeOK, LocalsOK
\* What is left of the batch is part of it, and no record is at its first step.
<1>1. ASSUME op[p]' = op[p], todo[p]' \subseteq todo[p], pc[p]' # "evidence" PROVE Discreet(p)'
  BY <1>1 DEF Discreet
<1>2. ASSUME todo[p]' = {}, pc[p]' # "evidence" PROVE Discreet(p)'
  BY <1>2 DEF Discreet
<1>3. CASE BeginApply(p) \/ AcquireQueue(p) \/ AcquireCatalog(p)
  BY <1>1, <1>3 DEF BeginApply, AcquireQueue, AcquireCatalog
<1>4. ASSUME NEW r \in Recs, NEW a \in ResolutionOps, NEW t \in Items, BeginResolve(p, r, a, t)
      PROVE Discreet(p)'
  <2>1. todo[p] = {}
    BY <1>4 DEF BeginResolve, WorkersVetted, Vetted, Planning
  <2> QED BY <1>2, <1>4, <2>1 DEF BeginResolve
<1>5. ASSUME NEW S \in SUBSET Recs, PlanApply(p, S) PROVE Discreet(p)'
  <2>1. \A r \in S : Applicable(r) => KindOf[r] # "feedback"
    BY DEF Applicable, Class, Verdict
  <2> QED BY <1>5, <2>1 DEF PlanApply, Discreet
<1>6. CASE PlanResolve(p)
  BY <1>6 DEF PlanResolve, Discreet
<1>7. CASE PlanRefused(p) \/ Complete(p) \/ Crash(p)
  BY <1>2, <1>7 DEF PlanRefused, Complete, Crash, Reset
<1>8. ASSUME NEW r \in Recs, ExamineApply(p, r) PROVE Discreet(p)'
  <2>1. r \in todo[p] /\ op' = op /\ todo[p]' \subseteq todo[p] /\ op[p] = "apply"
    BY <1>8 DEF ExamineApply, Take, TakeAndReport
  <2>2. CASE Take(p, r, "evidence") /\ Writes(r)
    BY <2>1, <2>2 DEF Take, Writes, AuditPasses, Discreet
  <2>3. CASE Take(p, r, "ledger") \/ TakeAndReport(p, r, "review")
    BY <1>1, <2>1, <2>3 DEF Take, TakeAndReport
  <2> QED BY <1>8, <2>2, <2>3 DEF ExamineApply
<1>9. ASSUME NEW r \in Recs, ExamineResolve(p, r) \/ ExamineFails(p, r) PROVE Discreet(p)'
  <2>1. op' = op /\ todo[p]' \subseteq todo[p]
    BY <1>9 DEF ExamineResolve, ExamineFails, Take, TakeAndReport
  <2>2. op[p]' # "apply" \/ pc[p]' # "evidence"
    BY <1>9 DEF ExamineResolve, ExamineFails, TakeAndReport
  <2> QED BY <1>1, <2>1, <2>2 DEF Discreet
<1>10. ASSUME pc[p] \in RecordSteps, Work(p) PROVE Discreet(p)'
  <2>1. op' = op
    BY <1>10, BatchShrinks DEF Working, Locked, RecordSteps
  <2>2. todo' = todo /\ pc[p]' # "evidence"
    BY <1>10 DEF Work, AcquireCatalog, PlanApply, PlanResolve, ExamineApply, ExamineResolve,
       ExamineFails, Take, TakeAndReport, AttachEvidence, CreateItem, WriteLedger,
       LedgerDegraded, UpsertIndex, IndexDegraded, AfterIndex, Park, Unlink, StepFails,
       Finish, Advance, RecordSteps
  <2> QED BY <1>1, <2>1, <2>2
<1>11. CASE \/ AttachEvidence(p) \/ CreateItem(p) \/ WriteLedger(p) \/ LedgerDegraded(p)
            \/ UpsertIndex(p) \/ IndexDegraded(p) \/ Park(p) \/ Unlink(p) \/ StepFails(p)
  <2>1. pc[p] \in RecordSteps /\ Work(p)
    BY <1>11 DEF Work, AttachEvidence, CreateItem, WriteLedger, LedgerDegraded, UpsertIndex,
       IndexDegraded, Park, Unlink, StepFails, RecordSteps
  <2> QED BY <1>10, <2>1
<1> QED
  BY <1>3, <1>4, <1>5, <1>6, <1>7, <1>8, <1>9, <1>11 DEF Operator, Drive

\* The locals of a process are changed by its own steps only.
LEMMA OthersLocals ==
  ASSUME TypeOK, [Next]_vars, NEW q \in Procs, ~Operator(q), ~Drive(q), ~Crash(q)
  PROVE  pc[q]' = pc[q] /\ op[q]' = op[q] /\ todo[q]' = todo[q] /\ cur[q]' = cur[q]
<1> USE DEF TypeOK, LocalsOK
<1>1. CASE Producer \/ OtherWriter \/ UNCHANGED vars
  BY <1>1 DEF Producer, Enqueue, HookOpen, HookClose, OtherWriter, OtherCreates, OtherEdits,
     OtherDeletes, Evict, vars, locals
<1>2. ASSUME NEW p \in Procs, p # q, Operator(p) \/ Drive(p) \/ Crash(p)
      PROVE pc[q]' = pc[q] /\ op[q]' = op[q] /\ todo[q]' = todo[q] /\ cur[q]' = cur[q]
  BY <1>2 DEF Operator, BeginApply, BeginResolve, Drive, AcquireQueue, AcquireCatalog,
     PlanApply, PlanResolve, PlanRefused, ExamineApply, ExamineResolve, ExamineFails, Take,
     TakeAndReport, AttachEvidence, CreateItem, WriteLedger, LedgerDegraded, UpsertIndex,
     IndexDegraded, AfterIndex, Park, Unlink, StepFails, Complete, Crash, Reset, Advance, Finish
<1> QED BY <1>1, <1>2 DEF Next

LEMMA DiscreetStep ==
  TypeOK /\ WorkersVetted /\ DrainsDiscreet /\ [Next]_vars => DrainsDiscreet'
<1> SUFFICES ASSUME TypeOK, WorkersVetted, DrainsDiscreet, [Next]_vars, NEW q \in Procs
             PROVE  Discreet(q)'
  BY DEF DrainsDiscreet
<1>q. Discreet(q)
  BY DEF DrainsDiscreet
<1>1. CASE Operator(q) \/ Drive(q) \/ Crash(q)
  BY <1>1, <1>q, DiscreetOwnStep
<1>2. CASE ~(Operator(q) \/ Drive(q) \/ Crash(q))
  BY <1>2, <1>q, OthersLocals DEF Discreet
<1> QED BY <1>1, <1>2

LEMMA EvidenceStep ==
  TypeOK /\ WorkersReliable /\ DrainsDiscreet /\ ResolutionEvidenceOnce /\ [Next]_vars
    => ResolutionEvidenceOnce'
<1> SUFFICES ASSUME TypeOK, WorkersReliable, DrainsDiscreet, ResolutionEvidenceOnce,
                    [Next]_vars, NEW r \in Recs, KindOf[r] \in {"risky", "feedback"}
             PROVE  evidence'[r] <= 1
  BY DEF ResolutionEvidenceOnce
<1>1. evidence[r] <= 1
  BY DEF ResolutionEvidenceOnce
<1>2. ASSUME NEW p \in Procs, pc[p] = "evidence", MakeSidecars(p) PROVE evidence'[r] <= 1
  <2>1. CASE cur[p] # r
    BY <1>1, <1>2, <2>1 DEF MakeSidecars, TypeOK, FilesOK
  <2>2. CASE cur[p] = r
    <3>1. op[p] \in Publishing
      BY <1>2, <2>2 DEF WorkersReliable, Reliable, DrainsDiscreet, Discreet
    <3> QED
      BY <1>1, <1>2, <2>2, <3>1 DEF MakeSidecars, TypeOK, FilesOK
  <2> QED BY <2>1, <2>2
<1>3. CASE Producer \/ OtherWriter \/ UNCHANGED vars
  BY <1>1, <1>3 DEF Producer, Enqueue, HookOpen, HookClose, OtherWriter, OtherCreates,
     OtherEdits, OtherDeletes, Evict, vars, files
<1>4. ASSUME NEW p \in Procs, Operator(p) \/ Drive(p) \/ Crash(p) PROVE evidence'[r] <= 1
  <2>1. UNCHANGED evidence \/ (pc[p] = "evidence" /\ MakeSidecars(p))
    BY <1>4 DEF Operator, BeginApply, BeginResolve, Drive, AcquireQueue,
       AcquireCatalog, PlanApply, PlanResolve, PlanRefused, ExamineApply, ExamineResolve,
       ExamineFails, AttachEvidence, CreateItem, WriteLedger, LedgerDegraded, UpsertIndex,
       IndexDegraded, Park, Unlink, StepFails, Complete, Crash, files
  <2> QED BY <1>1, <1>2, <2>1
<1> QED BY <1>3, <1>4 DEF Next

(* However often an approval or a conversion is interrupted and offered      *)
(* again, its evidence sidecars exist once: a drain without a decision never *)
(* makes any for such a record, and a decision derives their ids from it     *)
(* (_evidence_record_id in write_service.py).                                     *)
THEOREM ResolutionsMakeEvidenceOnce == Spec => []ResolutionEvidenceOnce
<1>1. Init => DrainsDiscreet /\ ResolutionEvidenceOnce
  BY DEF Init, DrainsDiscreet, Discreet, ResolutionEvidenceOnce
<1>2. TypeOK /\ WorkersReliable /\ WorkersVetted
        /\ DrainsDiscreet /\ ResolutionEvidenceOnce /\ [Next]_vars
        => (DrainsDiscreet /\ ResolutionEvidenceOnce)'
  BY DiscreetStep, EvidenceStep
<1>3. Spec => []WorkersVetted
  <2>1. Init => TypeOK /\ WorkersVetted
    BY TypeInit, VettedInit
  <2>2. TypeOK /\ WorkersVetted /\ [Next]_vars => (TypeOK /\ WorkersVetted)'
    BY TypeStep, VettedStep
  <2> QED BY <2>1, <2>2, PTL DEF Spec
<1> QED
  BY <1>1, <1>2, <1>3, TypeCorrect, WorkersAreReliable, PTL DEF Spec

-----------------------------------------------------------------------------
(* Index rows.  A record that has left the queue is found again by its item, *)
(* or by the item it was merged into, so no later batch creates its item a   *)
(* second time; and a batch knows of each record it has removed that the     *)
(* index row is there, or named as missing.                                  *)

Writing == Publishing \cup {"apply"}
Indexed(i) == i \in index \cup dirty
Away(r) == queue[r] = "gone" /\ r \notin resolved

Remembered ==
  \A r \in Recs : Away(r) =>
    \/ Occupied(ItemOf[r])
    \/ MetadataTwin(r) /\ KindOf[r] \notin {"feedback", "malformed"}

\* No record with the item and the payload of q has left the queue without its item.
Fresh(q) ==
  \A r \in Recs : Away(r) /\ ItemOf[r] = ItemOf[q] /\ PayloadOf[r] = PayloadOf[q] =>
    Occupied(ItemOf[r])
NoEcho(p) ==
  op[p] \in Writing =>
    /\ pc[p] \in Working => \A q \in todo[p] : Fresh(q)
    /\ pc[p] \in {"evidence", "create"} => Fresh(cur[p])

\* The one record of an accepted duplicate is readable and has no item of its own.
Merging(p) ==
  op[p] = "accept_duplicate" /\ pc[p] \in Working =>
    \A r \in receipts[batch[p]] :
      ~Occupied(ItemOf[r]) /\ KindOf[r] \notin {"feedback", "malformed"}

Owed(p) ==
  op[p] \in Writing =>
    /\ pc[p] \in Working => \A r \in receipts[batch[p]] \ Remaining(p) :
         out[p][r] = "applied" => Indexed(ItemOf[r])
    /\ pc[p] = "unlink" => out[p][cur[p]] = "repair" \/ Indexed(ItemOf[cur[p]])

NothingEvicting == evicting = {}
BatchesRemember ==
  NothingEvicting /\ Remembered /\ \A p \in Procs : NoEcho(p) /\ Merging(p) /\ Owed(p)

LEMMA NeverEvicting ==
  ASSUME MaxDeletes = 0, TypeOK, NothingEvicting, [Next]_vars
  PROVE  NothingEvicting'
<1> USE DEF NothingEvicting, TypeOK, HistoryOK
<1>1. CASE Producer \/ UNCHANGED vars
  BY <1>1 DEF Producer, Enqueue, HookOpen, HookClose, vars, env
<1>2. CASE OtherWriter
  BY <1>2 DEF OtherWriter, OtherCreates, OtherEdits, OtherDeletes, Evict
<1>3. ASSUME NEW p \in Procs, Operator(p) \/ Drive(p) \/ Crash(p) PROVE UNCHANGED evicting
  BY <1>3 DEF Operator, BeginApply, BeginResolve, Drive, AcquireQueue, AcquireCatalog,
     PlanApply, PlanResolve, PlanRefused, ExamineApply, ExamineResolve, ExamineFails,
     AttachEvidence, CreateItem, WriteLedger, LedgerDegraded, UpsertIndex, IndexDegraded, Park,
     Unlink, StepFails, Complete, Crash, env
<1> QED BY <1>1, <1>2, <1>3 DEF Next

\* Without deletions items stay, and keep what identifies them.
LEMMA PoolGrows ==
  ASSUME MaxDeletes = 0, TypeOK, [Next]_vars, NEW i \in Items, Occupied(i)
  PROVE  Occupied(i)' /\ items'[i].span = items[i].span /\ items'[i].title = items[i].title
<1> USE DEF TypeOK, FilesOK, HistoryOK
<1>1. ASSUME items'[i] = items[i] 
      PROVE Occupied(i)' /\ items'[i].span = items[i].span /\ items'[i].title = items[i].title
  BY <1>1 DEF Occupied
<1>2. CASE Producer \/ UNCHANGED vars
  BY <1>1, <1>2 DEF Producer, Enqueue, HookOpen, HookClose, vars, files
<1>3. ASSUME NEW j \in Items, NEW t \in Titles, OtherCreates(j, t) PROVE items'[i] = items[i]
  BY <1>3 DEF OtherCreates, Occupied
<1>4. ASSUME NEW j \in Items, NEW f \in Forms, OtherEdits(j, f)
      PROVE Occupied(i)' /\ items'[i].span = items[i].span /\ items'[i].title = items[i].title
  <2> DEFINE d == [items[j] EXCEPT !.form = f]
  <2>1. items[j] \in Docs /\ items' = [items EXCEPT ![j] = d]
    BY <1>4 DEF OtherEdits, Occupied
  <2>2. d \in Docs /\ d.span = items[j].span /\ d.title = items[j].title
    BY <2>1 DEF Docs
  <2>3. d # NoItem
    BY <2>2, NoItemAssumption
  <2> QED BY <1>1, <2>1, <2>2, <2>3 DEF Occupied
<1>5. ASSUME NEW j \in Items, OtherDeletes(j) \/ Evict(j) PROVE items'[i] = items[i]
  BY <1>5 DEF OtherDeletes, Evict
<1>6. ASSUME NEW p \in Procs, Operator(p) \/ Drive(p) \/ Crash(p) PROVE items'[i] = items[i]
  <2>1. UNCHANGED items \/ MakeItem(p)
    BY <1>6 DEF Operator, BeginApply, BeginResolve, Drive, AcquireQueue,
       AcquireCatalog, PlanApply, PlanResolve, PlanRefused, ExamineApply, ExamineResolve,
       ExamineFails, AttachEvidence, CreateItem, WriteLedger, LedgerDegraded, UpsertIndex,
       IndexDegraded, Park, Unlink, StepFails, Complete, Crash, files
  <2> QED BY <2>1 DEF MakeItem
<1> QED
  BY <1>1, <1>2, <1>3, <1>4, <1>5, <1>6 DEF Next, OtherWriter

\* Parked records stay parked, so a record gets away only by the removal of its file.
LEMMA GetsAway ==
  ASSUME TypeOK, [Next]_vars, NEW r \in Recs, Away(r)', ~Away(r)
  PROVE  \E p \in Procs :
           /\ pc[p] = "unlink" /\ cur[p] = r /\ Work(p)
           /\ UNCHANGED <<resolved, items, receipts>>
<1> USE DEF TypeOK, FilesOK
<1>1. resolved \subseteq resolved'
  <2>1. CASE Producer \/ OtherWriter \/ UNCHANGED vars
    BY <2>1 DEF Producer, Enqueue, HookOpen, HookClose, OtherWriter, OtherCreates,
       OtherEdits, OtherDeletes, Evict, vars, files
  <2>2. ASSUME NEW p \in Procs, Operator(p) \/ Drive(p) \/ Crash(p)
        PROVE resolved \subseteq resolved'
    BY <2>2 DEF Operator, BeginApply, BeginResolve, Drive, AcquireQueue,
       AcquireCatalog, PlanApply, PlanResolve, PlanRefused, ExamineApply, ExamineResolve,
       ExamineFails, AttachEvidence, CreateItem, WriteLedger, LedgerDegraded, UpsertIndex,
       IndexDegraded, Park, Unlink, StepFails, Complete, Crash, files
  <2> QED BY <2>1, <2>2 DEF Next
<1>2. queue[r] # "gone" /\ queue'[r] = "gone"
  BY <1>1 DEF Away
<1>3. ~Producer /\ ~OtherWriter /\ ~UNCHANGED vars
  BY <1>2 DEF Producer, Enqueue, HookOpen, HookClose, OtherWriter, OtherCreates, OtherEdits,
     OtherDeletes, Evict, vars, files
<1>4. PICK p \in Procs : Operator(p) \/ Drive(p) \/ Crash(p)
  BY <1>3 DEF Next
<1>5. Unlink(p) \/ StepFails(p)
  BY <1>2, <1>4 DEF Operator, BeginApply, BeginResolve, Crash, Drive, AcquireQueue,
     AcquireCatalog, PlanApply, PlanResolve, PlanRefused, ExamineApply, ExamineResolve,
     ExamineFails, AttachEvidence, CreateItem, WriteLedger, LedgerDegraded, UpsertIndex,
     IndexDegraded, Park, Complete, files
<1>6. pc[p] = "unlink" /\ RemoveFile(p) /\ UNCHANGED <<resolved, items, receipts>>
  BY <1>2, <1>5 DEF Unlink, StepFails
<1> QED
  BY <1>2, <1>5, <1>6 DEF RemoveFile, Work

LEMMA RememberedStep ==
  ASSUME MaxDeletes = 0, TypeOK, WorkersReliable, BatchesReceipted, BatchesRemember, [Next]_vars
  PROVE  Remembered'
<1> SUFFICES ASSUME NEW r \in Recs, Away(r)'
             PROVE  \/ Occupied(ItemOf[r])'
                    \/ MetadataTwin(r)' /\ KindOf[r] \notin {"feedback", "malformed"}
  BY DEF Remembered
<1>i. ItemOf[r] \in Items
  BY RecsAssumption
<1>1. Occupied(ItemOf[r]) => Occupied(ItemOf[r])'
  BY <1>i, PoolGrows
<1>2. MetadataTwin(r) => MetadataTwin(r)'
  BY PoolGrows DEF MetadataTwin, TwinOf
<1>3. CASE Away(r)
  BY <1>1, <1>2, <1>3 DEF BatchesRemember, Remembered
<1>4. CASE ~Away(r)
  <2>1. PICK p \in Procs : pc[p] = "unlink" /\ cur[p] = r /\ UNCHANGED <<resolved, items>>
    BY <1>4, GetsAway
  <2>2. Kept(p, r)
    BY <2>1 DEF WorkersReliable, Reliable
  <2>3. op[p] \notin Terminal
    BY <2>1, <2>2 DEF Kept, Away
  <2>4. CASE op[p] = "accept_duplicate"
    <3>1. r \in receipts[batch[p]]
      BY <2>1 DEF BatchesReceipted, Receipted, Remaining, Working, Locked, RecordSteps
    <3>2. KindOf[r] \notin {"feedback", "malformed"}
      BY <2>1, <2>4, <3>1 DEF BatchesRemember, Merging, Working, Locked, RecordSteps
    <3>3. target[p] \in Items /\ TwinOf(r, target[p])
      BY <2>2, <2>3, <2>4 DEF Kept, TypeOK, LocalsOK
    <3> QED BY <1>2, <3>2, <3>3 DEF MetadataTwin
  <2>5. CASE op[p] # "accept_duplicate"
    BY <1>1, <2>2, <2>3, <2>5 DEF Kept, Published, SamePayload
  <2> QED BY <2>4, <2>5
<1> QED BY <1>3, <1>4

LEMMA FreshStays ==
  ASSUME MaxDeletes = 0, TypeOK, WorkersReliable, [Next]_vars,
         NEW p \in Procs, pc[p] \in Working, op[p] \in Writing, NEW q \in Recs, Fresh(q)
  PROVE  Fresh(q)'
<1> SUFFICES ASSUME NEW r \in Recs, Away(r)', ItemOf[r] = ItemOf[q], PayloadOf[r] = PayloadOf[q]
             PROVE  Occupied(ItemOf[r])'
  BY DEF Fresh
<1>1. Occupied(ItemOf[r]) => Occupied(ItemOf[r])'
  BY RecsAssumption, PoolGrows
<1>2. CASE Away(r)
  BY <1>1, <1>2 DEF Fresh
<1>3. CASE ~Away(r)
  <2>1. PICK s \in Procs : pc[s] = "unlink" /\ cur[s] = r
    BY <1>3, GetsAway
  <2>2. s = p
    BY <2>1, OneInside DEF Inside, Working, Locked, RecordSteps
  <2>3. Published(r)
    BY <2>1, <2>2 DEF WorkersReliable, Reliable, Kept, Writing, Publishing, Terminal
  <2> QED BY <1>1, <2>3 DEF Published, SamePayload
<1> QED BY <1>2, <1>3

\* What may still be published at the plan has no copy that left without its item.
LEMMA FreshAtPlan ==
  ASSUME Remembered, NEW q \in Recs,
         Occupied(ItemOf[q]) \/ ~MetadataTwin(q) \/ KindOf[q] = "feedback"
  PROVE  Fresh(q)
<1> SUFFICES ASSUME NEW r \in Recs, Away(r), ItemOf[r] = ItemOf[q], PayloadOf[r] = PayloadOf[q]
             PROVE  Occupied(ItemOf[r])
  BY DEF Fresh
<1>1. MetadataTwin(r) <=> MetadataTwin(q)
  BY DEF MetadataTwin, TwinOf
<1>2. KindOf[q] = "feedback" => KindOf[r] \in {"feedback", "malformed"}
  BY TypeFieldAssumption
<1> QED BY <1>1, <1>2 DEF Remembered

LEMMA PlanFresh ==
  ASSUME Remembered, NEW q \in Recs, Applicable(q)
  PROVE  Fresh(q)
<1>1. Occupied(ItemOf[q]) \/ ~MetadataTwin(q)
  BY DEF Applicable, Class, Verdict
<1> QED BY <1>1, FreshAtPlan

LEMMA DecisionFresh ==
  ASSUME Remembered, NEW q \in Recs, NEW a \in Publishing, NEW t, Resolvable(q, a, t)
  PROVE  Fresh(q)
<1>1. Occupied(ItemOf[q]) \/ ~MetadataTwin(q) \/ KindOf[q] = "feedback"
  BY DEF Resolvable, Recoverable, SamePayload, Applies, Intended, Class, Verdict, Publishing, Terminal
<1> QED BY <1>1, FreshAtPlan

\* The record at its first steps has just been taken from the batch.
LEMMA WorkTakes ==
  ASSUME TypeOK, NEW p \in Procs, Work(p), pc[p] \in Working
  PROVE  /\ todo[p]' \subseteq todo[p]
         /\ pc[p]' \in {"evidence", "create"} =>
              cur[p]' \in todo[p] \/ (pc[p] = "evidence" /\ cur[p]' = cur[p])
<1> USE DEF TypeOK, LocalsOK
<1>1. ASSUME NEW r \in Recs, ExamineApply(p, r) \/ ExamineResolve(p, r) \/ ExamineFails(p, r)
      PROVE /\ todo[p]' \subseteq todo[p]
            /\ pc[p]' \in {"evidence", "create"} => cur[p]' \in todo[p]
  BY <1>1 DEF ExamineApply, ExamineResolve, ExamineFails, Take, TakeAndReport
<1>2. CASE UpsertIndex(p) \/ IndexDegraded(p)
  BY <1>2 DEF UpsertIndex, IndexDegraded, AfterIndex, Finish, Advance
<1>3. CASE Unlink(p) \/ StepFails(p)
  BY <1>3 DEF Unlink, StepFails, Finish
<1>4. CASE AttachEvidence(p) \/ CreateItem(p) \/ WriteLedger(p) \/ LedgerDegraded(p) \/ Park(p)
  BY <1>4 DEF AttachEvidence, CreateItem, WriteLedger, LedgerDegraded, Park, Advance
<1> QED BY <1>1, <1>2, <1>3, <1>4, WorkCases

LEMMA NoEchoStep ==
  ASSUME MaxDeletes = 0, TypeOK, WorkersReliable, BatchesRemember, [Next]_vars, NEW p \in Procs
  PROVE  NoEcho(p)'
<1>p. NoEcho(p) /\ Remembered
  BY DEF BatchesRemember
<1>w. {"evidence", "create"} \subseteq Working
  BY DEF Working, Locked, RecordSteps
<1> SUFFICES ASSUME op[p]' \in Writing, pc[p]' \in Working
             PROVE  /\ \A q \in todo[p]' : Fresh(q)'
                    /\ pc[p]' \in {"evidence", "create"} => Fresh(cur[p])'
  BY <1>w DEF NoEcho
<1>1. CASE Drive(p) \/ Crash(p)
  <2>1. CASE Work(p) /\ pc[p] \in Working
    <3>1. op[p] \in Writing
      BY <2>1, BatchShrinks
    <3>2. /\ \A q \in todo[p]' : q \in Recs /\ Fresh(q)
          /\ pc[p]' \in {"evidence", "create"} => cur[p]' \in Recs /\ Fresh(cur[p]')
      BY <1>p, <2>1, <3>1, WorkTakes DEF NoEcho, TypeOK, LocalsOK, RecordSteps
    <3>3. \A q \in Recs : Fresh(q) => Fresh(q)'
      BY <2>1, <3>1, FreshStays
    <3> QED BY <3>2, <3>3 DEF Fresh
  <2>2. CASE PlanResolve(p)
    <3>1. /\ cur[p] \in Recs /\ Resolvable(cur[p], op[p], target[p]) /\ op[p]' = op[p]
          /\ todo[p]' = {cur[p]} /\ pc[p]' = "next" /\ op[p] # "apply"
          /\ UNCHANGED <<queue, resolved, items>>
      BY <2>2 DEF PlanResolve, Resolvable, Visible, TypeOK, LocalsOK
    <3>2. Fresh(cur[p])
      BY <1>p, <3>1, DecisionFresh DEF Writing
    <3> QED BY <3>1, <3>2 DEF Fresh, Away, Occupied
  <2>3. ASSUME NEW S \in SUBSET Recs, PlanApply(p, S)
        PROVE /\ \A q \in todo[p]' : Fresh(q)'
              /\ pc[p]' \in {"evidence", "create"} => Fresh(cur[p])'
    <3>1. todo[p]' = {r \in S : Applicable(r)} /\ pc[p]' = "next"
          /\ UNCHANGED <<queue, resolved, items>>
      BY <2>3 DEF PlanApply, TypeOK, LocalsOK
    <3>2. \A q \in todo[p]' : Fresh(q)
      BY <1>p, <3>1, PlanFresh
    <3> QED BY <3>1, <3>2 DEF Fresh, Away, Occupied
  <2> QED BY <1>1, <2>1, <2>2, <2>3, Batches
<1>2. CASE ~(Drive(p) \/ Crash(p))
  <2>1. pc[p] \in Working
    BY <1>2, OthersMove
  <2>2. pc[p]' = pc[p] /\ op[p]' = op[p] /\ todo[p]' = todo[p] /\ cur[p]' = cur[p]
    BY <1>2, <2>1, Excluded
  <2>3. \A q \in Recs : Fresh(q) => Fresh(q)'
    BY <2>1, <2>2, FreshStays
  <2>4. todo[p] \subseteq Recs /\ (pc[p] \in {"evidence", "create"} => cur[p] \in Recs)
    BY DEF TypeOK, LocalsOK, RecordSteps
  <2> QED BY <1>p, <2>1, <2>2, <2>3, <2>4 DEF NoEcho, Fresh
<1> QED BY <1>1, <1>2

LEMMA MergingStep ==
  ASSUME TypeOK, WorkersReliable, BatchesRemember, [Next]_vars, NEW p \in Procs
  PROVE  Merging(p)'
<1>p. Merging(p) /\ Reliable(p)
  BY DEF BatchesRemember, WorkersReliable
<1> SUFFICES ASSUME op[p]' = "accept_duplicate", pc[p]' \in Working,
                    NEW r \in receipts'[batch[p]']
             PROVE  ~Occupied(ItemOf[r])' /\ KindOf[r] \notin {"feedback", "malformed"}
  BY DEF Merging
<1>1. CASE Drive(p) \/ Crash(p)
  <2>1. CASE Work(p) /\ pc[p] \in Working
    <3>1. op[p] = "accept_duplicate" /\ r \in receipts[batch[p]]
      BY <2>1, BatchShrinks
    <3>2. pc[p] \notin {"evidence", "create"}
      BY <1>p, <3>1 DEF Reliable, Publishing
    <3>3. UNCHANGED items
      BY <2>1, <3>2, WorkCases DEF ExamineApply, ExamineResolve, ExamineFails, AttachEvidence,
         CreateItem, WriteLedger, LedgerDegraded, UpsertIndex, IndexDegraded, Park, Unlink,
         StepFails, files
    <3> QED BY <1>p, <2>1, <3>1, <3>3 DEF Merging, Occupied
  <2>2. CASE PlanResolve(p)
    <3>1. /\ cur[p] \in Recs /\ Resolvable(cur[p], op[p], target[p]) /\ op[p]' = op[p]
          /\ Prepare(p, {cur[p]}) /\ UNCHANGED items
      BY <2>2 DEF PlanResolve, Resolvable, Visible, TypeOK, LocalsOK
    <3>2. r = cur[p]
      BY <3>1, Prepared
    <3>3. Class(r) = "metadata_duplicate"
      BY <3>1, <3>2 DEF Resolvable, Applies, Publishing, Terminal
    <3>4. ~Occupied(ItemOf[r]) /\ KindOf[r] \notin {"feedback", "malformed"}
      BY <3>3 DEF Class, Verdict, Readable
    <3> QED BY <3>1, <3>4 DEF Occupied
  <2>3. ASSUME NEW S \in SUBSET Recs PROVE ~PlanApply(p, S)
    BY DEF PlanApply
  <2> QED BY <1>1, <2>1, <2>2, <2>3, Batches
<1>2. CASE ~(Drive(p) \/ Crash(p))
  <2>1. pc[p] \in Working
    BY <1>2, OthersMove
  <2> QED BY <1>2, <1>p, <2>1, Excluded DEF Merging, Occupied
<1> QED BY <1>1, <1>2

LEMMA RowsStay ==
  ASSUME TypeOK, NothingEvicting, [Next]_vars, NEW i \in Items, Indexed(i)
  PROVE  Indexed(i)'
<1>1. CASE Producer \/ OtherWriter \/ UNCHANGED vars
  BY <1>1 DEF Indexed, NothingEvicting, Producer, Enqueue, HookOpen, HookClose, OtherWriter,
     OtherCreates, OtherEdits, OtherDeletes, Evict, vars, files, history
<1>2. ASSUME NEW p \in Procs, Operator(p) \/ Drive(p) \/ Crash(p)
      PROVE index \subseteq index' /\ dirty \subseteq dirty'
  BY <1>2 DEF Operator, BeginApply, BeginResolve, Drive, AcquireQueue,
     AcquireCatalog, PlanApply, PlanResolve, PlanRefused, ExamineApply, ExamineResolve,
     ExamineFails, AttachEvidence, CreateItem, WriteLedger, LedgerDegraded, UpsertIndex,
     IndexDegraded, Park, Unlink, StepFails, Complete, Crash, files, history
<1> QED BY <1>1, <1>2 DEF Next, Indexed

\* Only the unlink reports a record as applied, and not when a repair is due.
LEMMA FinishesApplied ==
  ASSUME TypeOK, NEW p \in Procs, Reliable(p), Work(p), pc[p] \in Working,
         NEW r \in Remaining(p), r \notin Remaining(p)', out'[p][r] = "applied"
  PROVE  pc[p] = "unlink" /\ r = cur[p] /\ out[p][r] # "repair"
<1> USE DEF TypeOK, LocalsOK
<1>v. r \in Recs
  BY DEF Remaining, Working, Locked, RecordSteps
<1>1. ASSUME NEW s \in Recs, ExamineApply(p, s) \/ ExamineResolve(p, s) \/ ExamineFails(p, s)
      PROVE FALSE
  <2>1. pc[p] = "next" /\ r \in todo[p] /\ todo' = [todo EXCEPT ![p] = @ \ {s}]
    BY <1>1 DEF ExamineApply, ExamineResolve, ExamineFails, Take, TakeAndReport, Remaining,
       RecordSteps
  <2>2. r = s
    BY <2>1 DEF Remaining
  <2>3. ~\E step \in RecordSteps : Take(p, s, step)
    BY <2>2 DEF Take, Remaining
  <2>4. TakeAndReport(p, s, "review") \/ TakeAndReport(p, s, "failed")
    BY <1>1, <2>3 DEF ExamineApply, ExamineResolve, ExamineFails, RecordSteps
  <2> QED BY <1>v, <2>2, <2>4 DEF TakeAndReport
<1>2. CASE UpsertIndex(p) \/ IndexDegraded(p)
  <2>1. pc[p] \in RecordSteps /\ todo' = todo /\ \E v \in Outcomes : AfterIndex(p, v)
    BY <1>2 DEF UpsertIndex, IndexDegraded, RecordSteps, Outcomes
  <2>2. r = cur[p]
    BY <2>1 DEF Remaining
  <2>3. Finish(p, "failed")
    BY <2>1, <2>2 DEF AfterIndex, Advance, Remaining, RecordSteps
  <2> QED BY <1>v, <2>2, <2>3 DEF Finish, Report
<1>3. CASE Unlink(p)
  <2>1. pc[p] = "unlink" /\ r = cur[p]
    BY <1>3 DEF Unlink, RecordSteps, Remaining
  <2> QED BY <1>3, <1>v, <2>1 DEF Unlink, Finish, Report
<1>4. CASE StepFails(p)
  <2>1. pc[p] \in RecordSteps /\ todo' = todo /\ Finish(p, "failed")
    BY <1>4 DEF StepFails, RecordSteps
  <2>2. r = cur[p]
    BY <2>1 DEF Remaining
  <2> QED BY <1>v, <2>1, <2>2 DEF Finish, Report
<1>5. CASE AttachEvidence(p) \/ CreateItem(p) \/ WriteLedger(p) \/ LedgerDegraded(p) \/ Park(p)
  <2>1. pc[p] \in RecordSteps /\ todo' = todo /\ pc[p]' \in RecordSteps /\ cur' = cur
    BY <1>5 DEF AttachEvidence, CreateItem, WriteLedger, LedgerDegraded, Park, Advance, RecordSteps
  <2> QED BY <2>1 DEF Remaining
<1> QED BY <1>1, <1>2, <1>3, <1>4, <1>5, WorkCases

\* A publishing record reaches its unlink through the index step.
LEMMA ReachesUnlink ==
  ASSUME TypeOK, NEW p \in Procs, Reliable(p), Work(p), pc[p] \in Working,
         op[p] \in Writing, pc[p]' = "unlink"
  PROVE  out'[p][cur[p]'] = "repair" \/ Indexed(ItemOf[cur[p]])'
<1> USE DEF TypeOK, LocalsOK, Writing, Publishing, Terminal, RecordSteps
<1>1. ASSUME NEW s \in Recs PROVE ~(ExamineApply(p, s) \/ ExamineResolve(p, s) \/ ExamineFails(p, s))
  BY DEF ExamineApply, ExamineResolve, ExamineFails, Take, TakeAndReport
<1>2. ~(AttachEvidence(p) \/ CreateItem(p) \/ WriteLedger(p) \/ LedgerDegraded(p))
  BY DEF AttachEvidence, CreateItem, WriteLedger, LedgerDegraded, Advance
<1>3. ~(Park(p) \/ Unlink(p) \/ StepFails(p))
  BY DEF Park, Unlink, StepFails, Finish, Reliable
<1>4. CASE UpsertIndex(p)
  <2>1. cur' = cur
    BY <1>4 DEF UpsertIndex, AfterIndex, Advance, Finish
  <2> QED BY <1>4, <2>1 DEF UpsertIndex, Indexed
<1>5. CASE IndexDegraded(p)
  <2>1. cur' = cur /\ Report(p, "repair") /\ cur[p] \in Recs
    BY <1>5 DEF IndexDegraded, AfterIndex, Advance, Finish
  <2> QED BY <2>1 DEF Report
<1> QED BY <1>1, <1>2, <1>3, <1>4, <1>5, WorkCases

LEMMA OwedStep ==
  ASSUME TypeOK, WorkersReliable, BatchesReceipted, BatchesRemember, [Next]_vars, NEW p \in Procs
  PROVE  Owed(p)'
<1>p. Owed(p) /\ Reliable(p) /\ Receipted(p)
  BY DEF BatchesRemember, WorkersReliable, BatchesReceipted
<1>i. \A r \in Recs : ItemOf[r] \in Items /\ (Indexed(ItemOf[r]) => Indexed(ItemOf[r])')
  BY RecsAssumption, RowsStay DEF BatchesRemember
<1>u. "unlink" \in Working
  BY DEF Working, Locked, RecordSteps
<1> SUFFICES ASSUME op[p]' \in Writing, pc[p]' \in Working
             PROVE  /\ \A r \in receipts'[batch[p]'] \ Remaining(p)' :
                         out'[p][r] = "applied" => Indexed(ItemOf[r])'
                    /\ pc[p]' = "unlink" =>
                         out'[p][cur[p]'] = "repair" \/ Indexed(ItemOf[cur[p]])'
  BY <1>u DEF Owed
<1>1. CASE Drive(p) \/ Crash(p)
  <2>1. CASE Work(p) /\ pc[p] \in Working
    <3>1. op[p] \in Writing /\ receipts'[batch[p]'] = receipts[batch[p]]
      BY <2>1, BatchShrinks
    <3>2. ASSUME NEW r \in (receipts[batch[p]] \ Remaining(p)'), out'[p][r] = "applied"
          PROVE  Indexed(ItemOf[r])'
      <4>1. r \in Recs
        BY <1>p, <2>1, <3>2 DEF Receipted, TypeOK, FilesOK
      <4>2. CASE r \in Remaining(p)
        <5>1. pc[p] = "unlink" /\ r = cur[p] /\ out[p][r] # "repair"
          BY <1>p, <2>1, <3>2, <4>2, FinishesApplied
        <5> QED BY <1>i, <1>p, <3>1, <4>1, <5>1 DEF Owed
      <4>3. CASE r \notin Remaining(p)
        <5>1. out[p][r] = "applied"
          BY <2>1, <3>2, <4>1, <4>3, WorkReports
        <5> QED BY <1>i, <1>p, <2>1, <3>1, <3>2, <4>1, <4>3, <5>1 DEF Owed
      <4> QED BY <4>2, <4>3
    <3>3. pc[p]' = "unlink" => out'[p][cur[p]'] = "repair" \/ Indexed(ItemOf[cur[p]])'
      BY <1>p, <2>1, <3>1, ReachesUnlink
    <3> QED BY <3>1, <3>2, <3>3
  <2>2. CASE PlanResolve(p)
    <3>1. cur[p] \in Recs /\ Prepare(p, {cur[p]}) /\ pc[p]' = "next"
      BY <2>2 DEF PlanResolve, Resolvable, Visible, TypeOK, LocalsOK
    <3>2. Remaining(p)' = {cur[p]}
      BY <2>2 DEF PlanResolve, Remaining, RecordSteps, TypeOK, LocalsOK
    <3> QED BY <3>1, <3>2, Prepared
  <2>3. ASSUME NEW S \in SUBSET Recs, PlanApply(p, S)
        PROVE /\ \A r \in receipts'[batch[p]'] \ Remaining(p)' :
                   out'[p][r] = "applied" => Indexed(ItemOf[r])'
              /\ pc[p]' = "unlink" =>
                   out'[p][cur[p]'] = "repair" \/ Indexed(ItemOf[cur[p]])'
    <3>1. /\ Prepare(p, S) /\ pc[p]' = "next"
          /\ \A r \in S : out'[p][r] \in {"review", "none"}
      BY <2>3 DEF PlanApply, TypeOK, LocalsOK
    <3> QED BY <3>1, Prepared
  <2> QED BY <1>1, <2>1, <2>2, <2>3, Batches
<1>2. CASE ~(Drive(p) \/ Crash(p))
  <2>1. pc[p] \in Working
    BY <1>2, OthersMove
  <2>2. /\ op[p]' = op[p] /\ pc[p]' = pc[p] /\ cur[p]' = cur[p] /\ out'[p] = out[p]
        /\ receipts'[batch[p]'] = receipts[batch[p]] /\ Remaining(p)' = Remaining(p)
    BY <1>2, <2>1, Excluded DEF Remaining
  <2>3. \A r \in receipts[batch[p]] : r \in Recs
    BY <1>p, <2>1 DEF Receipted, TypeOK, FilesOK
  <2>4. pc[p] = "unlink" => cur[p] \in Recs
    BY DEF TypeOK, LocalsOK, RecordSteps
  <2>5. op[p] \in Writing
    BY <2>2
  <2>6. ASSUME NEW r \in (receipts[batch[p]] \ Remaining(p)), out[p][r] = "applied"
        PROVE Indexed(ItemOf[r])'
    BY <1>i, <1>p, <2>1, <2>3, <2>5, <2>6 DEF Owed
  <2>7. pc[p] = "unlink" => out[p][cur[p]] = "repair" \/ Indexed(ItemOf[cur[p]])'
    <3> SUFFICES ASSUME pc[p] = "unlink", out[p][cur[p]] # "repair"
                 PROVE  Indexed(ItemOf[cur[p]])'
      OBVIOUS
    <3>1. PICK r \in Recs : r = cur[p]
      BY <2>4
    <3>2. Indexed(ItemOf[r])
      BY <1>p, <2>5, <3>1 DEF Owed
    <3> QED BY <1>i, <2>2, <3>1, <3>2 DEF Indexed
  <2>8. \A r \in receipts'[batch[p]'] \ Remaining(p)' :
          out'[p][r] = "applied" => Indexed(ItemOf[r])'
    BY <2>2, <2>6
  <2>9. pc[p]' = "unlink" =>
          out'[p][cur[p]'] = "repair" \/ Indexed(ItemOf[cur[p]])'
    BY <2>2, <2>7
  <2> QED BY <2>8, <2>9
<1> QED BY <1>1, <1>2

\* A row goes missing only when a batch that reports its repair is completed.
LEMMA BecomesMissing ==
  ASSUME MaxDeletes = 0, TypeOK, WorkersReliable, BatchesReceipted, BatchesHonest,
         BatchesRemember, [Next]_vars, NEW r \in Recs, Retired(r)', ~Indexed(ItemOf[r])'
  PROVE  \/ Retired(r) /\ ~Indexed(ItemOf[r])
         \/ \E p \in Procs : /\ pc[p] = "next" /\ out[p][r] = "repair"
                            /\ told' = told + Cardinality({q \in Recs : out[p][q] = "repair"})
<1>h. Away(r)' /\ SamePayload(r)' /\ ~Recorded(r)'
  BY DEF Retired, Away
<1>i. ItemOf[r] \in Items /\ (Indexed(ItemOf[r]) => Indexed(ItemOf[r])')
  BY RecsAssumption, RowsStay DEF BatchesRemember
\* The record left the queue before this step: at its removal it is on record.
<1>a. Away(r)
  <2> SUFFICES ASSUME ~Away(r) PROVE FALSE
    OBVIOUS
  <2>1. PICK p \in Procs : pc[p] = "unlink" /\ cur[p] = r /\ UNCHANGED receipts
    BY <1>h, GetsAway
  <2>2. batch[p] \in BatchIds /\ receipts[batch[p]] # NoBatch /\ r \in receipts[batch[p]]
    BY <2>1 DEF BatchesReceipted, Receipted, Remaining, Working, Locked, RecordSteps
  <2> QED BY <1>h, <2>1, <2>2 DEF Recorded
\* Its item was there: no batch makes it again without an eye on this record.
<1>s. SamePayload(r)
  <2>1. CASE Occupied(ItemOf[r])
    BY <1>h, <1>i, <2>1, PoolGrows DEF SamePayload
  <2>2. CASE ~Occupied(ItemOf[r])
    <3>1. ASSUME NEW p \in Procs, pc[p] \in {"evidence", "create"}, MakeItem(p) PROVE FALSE
      <4>1. cur[p] \in Recs /\ op[p] \in Writing
        BY <3>1 DEF TypeOK, LocalsOK, WorkersReliable, Reliable, RecordSteps, Writing
      <4>2. ItemOf[cur[p]] = ItemOf[r]
        BY <1>h, <1>i, <2>2, <3>1 DEF MakeItem, SamePayload, Occupied, TypeOK, FilesOK
      <4>3. PayloadOf[cur[p]] = PayloadOf[r]
        <5> DEFINE d == [span |-> PayloadOf[cur[p]], title |-> TitleOf[PayloadOf[cur[p]]],
                         form |-> "orig"]
        <5>1. items'[ItemOf[r]] = d
          BY <1>i, <3>1, <4>2 DEF MakeItem, TypeOK, FilesOK
        <5> QED BY <1>h, <5>1 DEF SamePayload
      <4>4. Fresh(cur[p])
        BY <3>1, <4>1 DEF BatchesRemember, NoEcho
      <4> QED BY <1>a, <2>2, <4>2, <4>3, <4>4 DEF Fresh
    <3>2. ASSUME NEW p \in Procs, Operator(p) \/ Drive(p) \/ Crash(p) PROVE UNCHANGED items
      BY <3>1, <3>2 DEF Operator, BeginApply, BeginResolve, Drive, AcquireQueue,
         AcquireCatalog, PlanApply, PlanResolve, PlanRefused, ExamineApply, ExamineResolve,
         ExamineFails, AttachEvidence, CreateItem, WriteLedger, LedgerDegraded, UpsertIndex,
         IndexDegraded, Park, Unlink, StepFails, Complete, Crash, files
    <3>3. CASE OtherWriter
      BY <1>h, <1>i, <2>2, <3>3, RecsAssumption DEF OtherWriter, OtherCreates, OtherEdits,
         OtherDeletes, Evict, SamePayload, Occupied, TypeOK, FilesOK
    <3>4. ASSUME Producer \/ UNCHANGED vars PROVE UNCHANGED items
      BY <3>4 DEF Producer, Enqueue, HookOpen, HookClose, vars, files
    <3>5. items'[ItemOf[r]] = items[ItemOf[r]] \/ OtherWriter
      BY <3>2, <3>4 DEF Next
    <3> QED BY <1>h, <2>2, <3>3, <3>5 DEF SamePayload, Occupied
  <2> QED BY <2>1, <2>2
\* A receipt that forgets the record is completed, and it is a true one.
<1>1. CASE ~Recorded(r)
  BY <1>i, <1>a, <1>s, <1>1 DEF Retired, Away
<1>2. CASE Recorded(r)
  <2>1. PICK b \in BatchIds : receipts[b] # NoBatch /\ r \in receipts[b]
    BY <1>2 DEF Recorded
  <2>2. receipts'[b] = NoBatch
    <3>1. ASSUME receipts'[b] # NoBatch PROVE receipts'[b] = receipts[b]
      <4>1. CASE Producer \/ OtherWriter \/ UNCHANGED vars
        BY <4>1 DEF Producer, Enqueue, HookOpen, HookClose, OtherWriter, OtherCreates,
           OtherEdits, OtherDeletes, Evict, vars, files
      <4>2. ASSUME NEW p \in Procs, Operator(p) \/ Drive(p) \/ Crash(p)
            PROVE \/ UNCHANGED receipts
                  \/ \E S : Prepare(p, S)
                  \/ receipts' = [receipts EXCEPT ![batch[p]] = NoBatch]
        BY <4>2 DEF Operator, BeginApply, BeginResolve, Drive, AcquireQueue,
           AcquireCatalog, PlanApply, PlanResolve, PlanRefused, ExamineApply, ExamineResolve,
           ExamineFails, AttachEvidence, CreateItem, WriteLedger, LedgerDegraded, UpsertIndex,
           IndexDegraded, Park, Unlink, StepFails, Complete, Crash, files
      <4>3. ASSUME NEW p \in Procs, \/ UNCHANGED receipts
                                    \/ \E S : Prepare(p, S)
                                    \/ receipts' = [receipts EXCEPT ![batch[p]] = NoBatch]
            PROVE receipts'[b] = receipts[b]
        BY <2>1, <3>1, <4>3 DEF Prepare, TypeOK, FilesOK
      <4> QED BY <4>1, <4>2, <4>3 DEF Next
    <3> QED BY <1>h, <2>1, <3>1 DEF Recorded
  <2>3. PICK p \in Procs : batch[p] = b /\ pc[p] = "next" /\ todo[p] = {} /\ Complete(p)
    BY <2>1, <2>2, Completion
  <2>4. pc[p] \in Working /\ r \in receipts[batch[p]] \ Remaining(p)
    BY <2>1, <2>3 DEF Remaining, Working, Locked, RecordSteps
  <2>5. Reported(p, r)
    BY <2>4 DEF BatchesHonest, Honest
  <2>6. out[p][r] \in {"applied", "repair"} /\ Kept(p, r)
    BY <1>a, <2>5 DEF Reported, Away
  <2>7. CASE out[p][r] = "repair"
    BY <2>1, <2>2, <2>3, <2>7 DEF Complete
  <2>8. CASE out[p][r] = "applied"
    <3>1. op[p] \notin Terminal
      BY <1>a, <2>6 DEF Kept, Away
    <3>2. op[p] # "accept_duplicate"
      BY <1>s, <2>4 DEF BatchesRemember, Merging, SamePayload
    <3>3. op[p] \in Writing
      BY <3>1, <3>2 DEF TypeOK, LocalsOK, ResolutionOps, Writing
    <3> QED BY <1>i, <2>4, <2>8, <3>3 DEF BatchesRemember, Owed
  <2> QED BY <2>6, <2>7, <2>8
<1> QED BY <1>1, <1>2

\* The count of the completed receipts never falls.
LEMMA TellingGrows ==
  ASSUME TypeOK, [Next]_vars
  PROVE  told \in Nat /\ told' \in Nat /\ told <= told'
<1>1. told \in Nat /\ told' \in Nat
  BY TypeStep DEF TypeOK, HistoryOK
<1>2. CASE Producer \/ OtherWriter \/ UNCHANGED vars
  BY <1>1, <1>2 DEF Producer, Enqueue, HookOpen, HookClose, OtherWriter, OtherCreates,
     OtherEdits, OtherDeletes, Evict, vars, history
<1>3. ASSUME NEW p \in Procs, Operator(p) \/ Drive(p) \/ Crash(p)
      PROVE  told <= told'
  <2>1. CASE Complete(p)
    <3>1. Cardinality({q \in Recs : out[p][q] = "repair"}) \in Nat
      BY RepairCount
    <3> QED BY <1>1, <2>1, <3>1 DEF Complete
  <2>2. CASE ~Complete(p)
    BY <1>1, <1>3, <2>2 DEF Operator, BeginApply, BeginResolve, Drive, AcquireQueue,
       AcquireCatalog, PlanApply, PlanResolve, PlanRefused, ExamineApply, ExamineResolve,
       ExamineFails, AttachEvidence, CreateItem, WriteLedger, LedgerDegraded, UpsertIndex,
       IndexDegraded, Park, Unlink, StepFails, Crash, history
  <2> QED BY <2>1, <2>2
<1> QED BY <1>1, <1>2, <1>3 DEF Next

\* Records have no more items than there are records.
LEMMA ItemsOf ==
  ASSUME NEW S \in SUBSET Recs
  PROVE  LET T == {ItemOf[r] : r \in S}
         IN  /\ IsFiniteSet(T) /\ IsFiniteSet(S)
             /\ Cardinality(T) \in Nat /\ Cardinality(S) \in Nat
             /\ Cardinality(T) <= Cardinality(S)
<1> DEFINE T == {ItemOf[r] : r \in S}
           f == [r \in S |-> ItemOf[r]]
<1>1. IsFiniteSet(S)
  BY FS_Subset, RecsAssumption
<1>2. f \in Surjection(S, T)
  BY DEF Surjection
<1>3. IsFiniteSet(T) /\ Cardinality(T) <= Cardinality(S)
  BY <1>1, <1>2, FS_Surjection
<1> QED BY <1>1, <1>3, FS_CardinalityType

LEMMA CountedStep ==
  ASSUME MaxDeletes = 0, TypeOK, WorkersReliable, BatchesReceipted, BatchesHonest,
         BatchesRemember, RepairsCounted, [Next]_vars
  PROVE  RepairsCounted'
<1> DEFINE Lost == {r \in Recs : Retired(r) /\ ~Indexed(ItemOf[r])}
           Due(p) == {q \in Recs : out[p][q] = "repair"}
           ItemsIn(S) == {ItemOf[r] : r \in S}
<1>l. Lost' \subseteq Recs /\ Lost' = {r \in Recs : Retired(r)' /\ ~Indexed(ItemOf[r])'}
  OBVIOUS
<1>m. Missing = ItemsIn(Lost) /\ Missing' = ItemsIn(Lost')
  BY DEF Missing, Indexed
<1>t. told \in Nat /\ told' \in Nat /\ told <= told'
  BY TellingGrows
<1>1. CASE Lost' \subseteq Lost
  <2>1. Missing' \in SUBSET Missing
    BY <1>m, <1>1
  <2>2. IsFiniteSet(Missing) /\ Cardinality(Missing) \in Nat
    BY <1>m, ItemsOf
  <2>3. Cardinality(Missing') <= Cardinality(Missing) /\ Cardinality(Missing') \in Nat
    BY <2>1, <2>2, FS_Subset, FS_CardinalityType
  <2> QED BY <1>t, <2>2, <2>3 DEF RepairsCounted
<1>2. CASE ~(Lost' \subseteq Lost)
  <2>1. PICK r \in Lost' : r \notin Lost
    BY <1>2
  <2>2. PICK p \in Procs : /\ pc[p] = "next" /\ out[p][r] = "repair"
                          /\ told' = told + Cardinality(Due(p))
    BY <1>l, <2>1, BecomesMissing
  <2>3. Lost' \subseteq Lost \cup Due(p)
    <3> SUFFICES ASSUME NEW s \in Lost', s \notin Lost PROVE s \in Due(p)
      OBVIOUS
    <3>1. PICK q \in Procs : pc[q] = "next" /\ out[q][s] = "repair"
      BY <1>l, BecomesMissing
    <3>2. q = p
      BY <2>2, <3>1, OneInside DEF Inside, Locked, RecordSteps
    <3> QED BY <1>l, <3>1, <3>2
  <2>4. Missing' \in SUBSET (Missing \cup ItemsIn(Due(p)))
    BY <1>m, <2>3
  <2>5. /\ IsFiniteSet(Missing) /\ Cardinality(Missing) \in Nat
        /\ IsFiniteSet(ItemsIn(Due(p))) /\ Cardinality(ItemsIn(Due(p))) \in Nat
        /\ Cardinality(Due(p)) \in Nat /\ Cardinality(ItemsIn(Due(p))) <= Cardinality(Due(p))
    <3>1. Lost \in SUBSET Recs /\ Due(p) \in SUBSET Recs
      OBVIOUS
    <3> QED BY <1>m, <3>1, ItemsOf
  <2>6. /\ IsFiniteSet(Missing \cup ItemsIn(Due(p)))
        /\ Cardinality(Missing \cup ItemsIn(Due(p))) \in Nat
        /\ Cardinality(Missing \cup ItemsIn(Due(p)))
             <= Cardinality(Missing) + Cardinality(ItemsIn(Due(p)))
    <3> HIDE DEF ItemsIn, Due
    <3>1. /\ IsFiniteSet(Missing \cup ItemsIn(Due(p)))
          /\ Cardinality(Missing \cup ItemsIn(Due(p))) =
               Cardinality(Missing) + Cardinality(ItemsIn(Due(p)))
                 - Cardinality(Missing \cap ItemsIn(Due(p)))
      BY <2>5, FS_Union
    <3>2. Cardinality(Missing \cap ItemsIn(Due(p))) \in Nat
      BY <2>5, FS_Intersection, FS_CardinalityType
    <3>3. Cardinality(Missing \cup ItemsIn(Due(p))) \in Nat
      BY <3>1, FS_CardinalityType
    <3> QED BY <2>5, <3>1, <3>2, <3>3
  <2>7. Cardinality(Missing') \in Nat
        /\ Cardinality(Missing') <= Cardinality(Missing \cup ItemsIn(Due(p)))
    BY <2>4, <2>6, FS_Subset, FS_CardinalityType
  <2> HIDE DEF ItemsIn, Due
  <2> QED BY <1>t, <2>2, <2>5, <2>6, <2>7 DEF RepairsCounted
<1> QED BY <1>1, <1>2

(* While nobody deletes items, every row of a published record that is      *)
(* missing is told of: the marker names its item, or a completed receipt     *)
(* counted it among its repairs (pending_receipts.py:378), or its batch is   *)
(* unfinished.                                                               *)
THEOREM MissingRowsAreCounted ==
  ASSUME MaxDeletes = 0
  PROVE  Spec => []RepairsCounted
<1> DEFINE Inv == BatchesRemember /\ RepairsCounted
<1>1. Init => Inv
  <2> SUFFICES ASSUME Init PROVE Inv
    OBVIOUS
  <2>1. BatchesRemember
    BY DEF Init, BatchesRemember, NothingEvicting, Remembered, Away, NoEcho, Merging, Owed,
       Working, Locked, RecordSteps
  <2>2. Missing = {} /\ told = 0
    BY DEF Init, Missing, Retired
  <2> QED BY <2>1, <2>2, FS_EmptySet DEF RepairsCounted
<1>2. TypeOK /\ WorkersReliable /\ BatchesReceipted /\ BatchesHonest /\ Inv /\ [Next]_vars => Inv'
  <2> SUFFICES ASSUME TypeOK, WorkersReliable, BatchesReceipted, BatchesHonest, Inv, [Next]_vars
               PROVE  Inv'
    OBVIOUS
  <2>1. NothingEvicting'
    BY NeverEvicting DEF BatchesRemember
  <2>2. Remembered'
    BY RememberedStep
  <2>3. ASSUME NEW p \in Procs PROVE NoEcho(p)' /\ Merging(p)' /\ Owed(p)'
    BY NoEchoStep, MergingStep, OwedStep
  <2>4. RepairsCounted'
    BY CountedStep
  <2> QED BY <2>1, <2>2, <2>3, <2>4 DEF BatchesRemember
<1> QED
  BY <1>1, <1>2, TypeCorrect, WorkersAreReliable, ReceiptedAlways, HonestAlways, PTL DEF Spec
=============================================================================
