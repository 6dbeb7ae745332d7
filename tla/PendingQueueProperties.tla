----------------------- MODULE PendingQueueProperties -----------------------
(***************************************************************************)
(* What the pending queue promises to the agents that write through it.    *)
(***************************************************************************)
EXTENDS PendingQueue

FilesOK ==
  /\ queue \in [Recs -> {"unborn", "partial", "full", "gone"}]
  /\ resolved \subseteq Recs
  /\ items \in [Items -> Docs \cup {NoItem}]
  /\ ledger \in [Items -> Docs \cup {NoItem}]
  /\ evidence \in [Recs -> Nat]
  /\ index \subseteq Items /\ dirty \subseteq Items
  /\ receipts \in [BatchIds -> (SUBSET Recs) \cup {NoBatch}]
  /\ torn \in Nat
LocksOK ==
  /\ queueLock \in Procs \cup {NoProc}
  /\ catalogLock \in Procs \cup {NoProc}
Outcomes == {"none", "review", "failed", "repair", "applied"}
LocalsOK ==
  /\ pc \in [Procs -> {"idle", "queue", "catalog"} \cup Locked]
  /\ op \in [Procs -> {"apply"} \cup ResolutionOps]
  /\ target \in [Procs -> Items \cup {NoItem}]
  /\ seen \in [Procs -> {"partial", "full"}]
  /\ batch \in [Procs -> BatchIds \cup {NoBatch}]
  /\ todo \in [Procs -> SUBSET Recs]
  /\ cur \in [Procs -> Recs \cup {NoRec}]
  /\ out \in [Procs -> [Recs -> Outcomes]]
  /\ \A p \in Procs : pc[p] \in RecordSteps => cur[p] \in Recs
  /\ \A p \in Procs : op[p] = "accept_duplicate" => target[p] \in Items
HistoryOK ==
  /\ evicting \subseteq Items
  /\ faults \in Nat /\ edits \in Nat /\ deletes \in Nat
  /\ created \in [Items -> Nat]
  /\ approved \subseteq Recs /\ told \in Nat

\* The types of the files, the locks, the processes' locals and the rest.
TypeOK == FilesOK /\ LocksOK /\ LocalsOK /\ HistoryOK

\* The item of the record is in the pool with its payload and its source record.
Published(r) == SamePayload(r) /\ ledger[ItemOf[r]] # NoItem

\* Where an operation keeps the content of a record that it takes out of the queue.
Kept(p, r) ==
  IF op[p] \in Terminal THEN r \in resolved
  ELSE IF op[p] = "accept_duplicate" THEN TwinOf(r, target[p])
  ELSE Published(r)

(* A record leaves the queue only at the hand of a process whose operation  *)
(* has kept its content: a drain or a publishing decision as an item that   *)
(* also has its source ledger record, a rejection as a file under           *)
(* resolved/, an accepted duplicate in the item the operator named.  Whoever *)
(* crashes and whatever fails, no enqueued write disappears (pending.py      *)
(* apply/resolve).                                                           *)
NoLostWrite ==
  [][\A r \in Recs : queue[r] # "gone" /\ queue'[r] = "gone" =>
        \E p \in Procs : cur[p] = r /\ Kept(p, r)]_vars

(* However often a drain is retried after a crash or a failed unlink, the md *)
(* file of a record is created once (the docstring of pending.py promises an *)
(* apply that is exactly-once at the item boundary).                         *)
ExactlyOnce == \A i \in Items : created[i] <= 1

(* A drain changes the pool, or takes a record out of the queue, only while  *)
(* the receipt ledger has an unfinished batch that selected the record, so a *)
(* crash always leaves a trace of what may be half done.                     *)
Recorded(r) == \E b \in BatchIds : receipts[b] # NoBatch /\ r \in receipts[b]
WriteAhead ==
  [][/\ \A r \in Recs : queue[r] # "gone" /\ queue'[r] = "gone" => Recorded(r)
     /\ \A i \in Items : created'[i] # created[i] =>
          \E r \in Recs : ItemOf[r] = i /\ Recorded(r)]_vars

(* The outcomes a batch completes with are true: a record it reports as      *)
(* applied has left the queue and is kept somewhere, one it reports as       *)
(* failed or for review is still queued for the next attempt, or was parked  *)
(* under resolved/ before the failure.                                       *)
TruthfulReceipt ==
  [][\A b \in BatchIds : receipts[b] # NoBatch /\ receipts'[b] = NoBatch =>
       \E p \in Procs :
         /\ batch[p] = b
         /\ \A r \in receipts[b] :
              IF out[p][r] \in {"applied", "repair"}
              THEN queue[r] = "gone" /\ Kept(p, r)
              ELSE out[p][r] # "none" /\ (queue[r] # "gone" \/ r \in resolved)]_vars

(* Content the audit blocks enters the pool only by an operator's approval   *)
(* of its findings, and content with a secret never does: not by a retry,    *)
(* not by the recovery of an interrupted approval.                           *)
AuditGate ==
  \A r \in Recs : SamePayload(r) =>
    /\ KindOf[r] # "secret"
    /\ KindOf[r] = "risky" =>
         \E q \in approved : ItemOf[q] = ItemOf[r] /\ PayloadOf[q] = PayloadOf[r]

(* What AuditGate rests on: an approval is on record before its batch waits  *)
(* for the locks, a batch that publishes by decision holds only records its  *)
(* decision covers, and a process that writes an item has vetted the record, *)
(* by the audit or by the approval, even if it was planned before a crash.   *)
MayPublish(r) ==
  KindOf[r] \notin {"malformed", "secret"} /\ (KindOf[r] = "risky" => r \in approved)
Planning == {"idle", "queue", "catalog", "plan"}
Vetted(p) ==
  /\ op[p] = "approve_audit" /\ pc[p] \in Planning => cur[p] \in approved
  /\ pc[p] \in Planning => todo[p] = {}
  /\ op[p] \in Publishing => \A r \in todo[p] : MayPublish(r)
  /\ op[p] = "apply" => \A r \in todo[p] : KindOf[r] # "malformed"
  /\ pc[p] \in {"evidence", "create"} => MayPublish(cur[p])
WorkersVetted == \A p \in Procs : Vetted(p)

(* Receipts name no record, so a row that is missing is told of by numbers    *)
(* (pending_receipts.py:378) or by the dirty marker.  Whatever failed and     *)
(* however often it was retried: the items of published records that have     *)
(* left the queue, have no index row and are not in the marker, are not more  *)
(* than the repairs the completed receipts have counted, unfinished batches   *)
(* apart.  An operator who finds the counts at zero and no unfinished batch   *)
(* has no row to look for.                                                    *)
Retired(r) == queue[r] = "gone" /\ r \notin resolved /\ SamePayload(r) /\ ~Recorded(r)
Missing == {ItemOf[r] : r \in {q \in Recs : Retired(q)}} \ (index \cup dirty)
RepairsCounted == Cardinality(Missing) <= told

(* What a process may rely on at each of its steps: it plans and works with  *)
(* both locks held; its records are still queued; and before it removes a    *)
(* record, the content of that record is kept where its operation keeps it.  *)
(* The exclusion of drains, enqueues and catalog writers rests on it.        *)
Reliable(p) ==
  /\ pc[p] \in Locked => queueLock = p /\ catalogLock = p
  /\ pc[p] = "catalog" => queueLock = p
  /\ pc[p] \in Locked \ {"plan"} => todo[p] \subseteq Visible
  /\ pc[p] \in RecordSteps => cur[p] \in Visible \ todo[p]
  /\ pc[p] \in {"evidence", "create", "ledger", "index"} => op[p] \in Publishing \cup {"apply"}
  /\ pc[p] = "park" => op[p] \in Terminal
  /\ pc[p] \in {"ledger", "index"} => SamePayload(cur[p])
  /\ pc[p] = "index" /\ LedgerWritten(p) => ledger[ItemOf[cur[p]]] # NoItem
  /\ pc[p] = "unlink" => Kept(p, cur[p])
WorkersReliable == \A p \in Procs : Reliable(p)

(* An interrupted approval or conversion that is retried does not leave a    *)
(* second set of evidence sidecars: their ids are derived from the record.   *)
ResolutionEvidenceOnce ==
  \A r \in Recs : KindOf[r] \in {"risky", "feedback"} => evidence[r] <= 1

-----------------------------------------------------------------------------
(* The drain implements the write buffer as long as nobody deletes an item. *)
Buffer == INSTANCE WriteBuffer WITH
  queued  <- Visible,
  retired <- {r \in Recs : queue[r] = "gone"},
  parked  <- resolved,
  pool    <- [i \in Items |-> IF items[i] = NoItem THEN NoItem
                              ELSE [span |-> items[i].span, title |-> items[i].title]],
  sourced <- {i \in Items : ledger[i] # NoItem}

(* Drains, resolutions, crashes, retries and failing steps together only do  *)
(* what the write buffer allows: accept, publish once, and retire a record   *)
(* whose content is kept.                                                    *)
RefinesBuffer == Buffer!Spec

-----------------------------------------------------------------------------
(* Liveness, under a host that keeps running `memory sync-pending --safe-only *)
(* --apply`: batches are begun again and again, every step that is possible  *)
(* is taken, a lock that is free again and again is obtained.                *)

PlanAll(p) == PlanApply(p, Visible)
BatchFairness ==
  \A p \in Procs :
    /\ WF_vars(BeginApply(p))
    /\ SF_vars(AcquireQueue(p)) /\ SF_vars(AcquireCatalog(p))
    /\ SF_vars(PlanAll(p))
    /\ WF_vars(Drive(p))
HookFairness == \A r \in Recs : WF_vars(HookClose(r))
EvictFairness == \A i \in Items : WF_vars(Evict(i))
FairSpec == Spec /\ BatchFairness /\ HookFairness /\ EvictFairness

(* Every queued record whose write is in order ends up in the pool and out of *)
(* the queue, unless an operator quarantined it while it was half written.   *)
Converges ==
  \A r \in Recs : queue[r] \in {"partial", "full"} ~>
                     queue[r] = "gone" /\ (Published(r) \/ r \in resolved)
=============================================================================
