---------------------------- MODULE PendingQueue ----------------------------
(***************************************************************************)
(* The durable write buffer (agent_brain/memory/store/pending.py): records *)
(* are queued under pending/ by the SDK and by the shell hook, and a drain *)
(* (`memory sync-pending`) classifies them and re-drives the safe ones     *)
(* through WriteService, or resolves one by an operator's decision.        *)
(*                                                                         *)
(* A process takes the queue lock, then the catalog lock, and works on its *)
(* batch until it releases both.  The per-record and per-item lock files   *)
(* are always taken inside these two, by the same process, so they add no  *)
(* exclusion here and are not represented.  flock is released by the       *)
(* kernel when its holder dies; files are not.                             *)
(***************************************************************************)
EXTENDS Integers, FiniteSets

CONSTANTS
  Procs,              \* processes that run a drain or a resolution
  Recs,               \* queue files; the number is the position in the scan
  Items,              \* item ids; ItemOf gives the stable id of a record
  Payloads,           \* canonical payload hashes
  Titles,             \* type + title + summary of a payload
  RecordIdOf, ItemOf, PayloadOf, KindOf,   \* functions on Recs
  TitleOf,            \* function on Payloads
  BatchIds,           \* receipt batches that may be unfinished at a time
  NoProc, NoRec, NoItem, NoSpan, NoBatch,
  MaxQueueEntries,    \* scan cap: a longer queue is refused as truncated
  MaxFaults,          \* bound on crashes and failed I/O operations
  MaxEdits,           \* bound on catalog changes by other writers
  MaxDeletes,         \* bound on deletions of items by other writers
  MaxTorn             \* bound on crashes inside an append to the receipts

\* "malformed" stands for every record that cannot be parsed or is not an envelope
Kinds == {"plain", "risky", "secret", "feedback", "stale", "malformed"}

ASSUME RecsAssumption ==
  /\ Recs \subseteq Nat
  /\ IsFiniteSet(Recs)
  /\ RecordIdOf \in [Recs -> Nat]
  /\ ItemOf \in [Recs -> Items]
  /\ PayloadOf \in [Recs -> Payloads]
  /\ KindOf \in [Recs -> Kinds]
  /\ TitleOf \in [Payloads -> Titles]
\* A stable id hashes the record id: equal stable ids mean equal record ids.
ASSUME StableIdAssumption ==
  \A r, q \in Recs : ItemOf[r] = ItemOf[q] => RecordIdOf[r] = RecordIdOf[q]
\* The audit reads the payload only; a malformed record has none it could read.
ASSUME AuditAssumption ==
  \A r, q \in Recs :
    PayloadOf[r] = PayloadOf[q] /\ KindOf[r] \in {"risky", "secret"} =>
      KindOf[q] \in {KindOf[r], "malformed"}
\* The type of a memory is a field of its payload.
ASSUME TypeFieldAssumption ==
  \A r, q \in Recs :
    PayloadOf[r] = PayloadOf[q] /\ KindOf[r] = "feedback" =>
      KindOf[q] \in {"feedback", "malformed"}
ASSUME SentinelAssumption ==
  /\ NoProc \notin Procs
  /\ NoRec \notin Recs
  /\ NoSpan \notin Payloads
  /\ \A S \in SUBSET Recs : S # NoBatch
  /\ NoBatch \notin BatchIds
ASSUME BoundsAssumption ==
  /\ MaxQueueEntries \in Nat /\ MaxFaults \in Nat /\ MaxTorn \in Nat
  /\ MaxEdits \in Nat /\ MaxDeletes \in Nat
  /\ Cardinality(BatchIds) > MaxFaults   \* every fault can leave one unfinished

\* What happened to the md since it was created: refs changed, a field that the
\* source ledger also holds changed, the body replaced (restore_raw by a sync).
Forms == {"orig", "linked", "edited", "rewritten"}
Docs == [span : Payloads \cup {NoSpan}, title : Titles, form : Forms]
ASSUME NoItemAssumption ==
  \A d \in Docs : d # NoItem /\ [span |-> d.span, title |-> d.title] # NoItem

Terminal == {"reject", "quarantine"}
Publishing == {"approve_audit", "convert_type"}
ResolutionOps == Terminal \cup Publishing \cup {"accept_duplicate"}
RecordSteps == {"evidence", "create", "ledger", "index", "park", "unlink"}
Locked == RecordSteps \cup {"plan", "next"}

VARIABLES
  \* files
  queue,       \* [Recs -> "unborn", "partial", "full", "gone"]
  resolved,    \* records linked under pending/resolved/
  items,       \* [Items -> Docs or NoItem], the markdown pool
  ledger,      \* [Items -> Docs or NoItem], sources/writes/<id>.json
  evidence,    \* [Recs -> number of evidence sidecars made for the record]
  index,       \* items with a row in the derived index
  dirty,       \* items named in the index-dirty marker
  receipts,    \* [BatchIds -> selection of an unfinished batch, or NoBatch]; the line
               \* holds only a digest of it, so no action reads the records from it
  torn,        \* crashes that left a torn last line in the receipt ledger
  \* locks
  queueLock, catalogLock,
  \* processes
  pc, op, target, seen, batch, todo, cur, out,
  \* environment
  evicting,    \* items whose md is deleted, index row not yet
  faults, edits, deletes,
  \* history, read by properties only
  created,     \* [Items -> how often a drain created the md file]
  approved,    \* records whose audit findings an operator approved
  told         \* sum of the index_repair_required_count of the completed receipts

files == <<queue, resolved, items, ledger, evidence, index, dirty, receipts, torn>>
locks == <<queueLock, catalogLock>>
locals == <<pc, op, target, seen, batch, todo, cur, out>>
env == <<evicting, faults, edits, deletes>>
history == <<created, approved, told>>
vars == <<files, locks, locals, env, history>>

Blank == [r \in Recs |-> "none"]

Init ==
  /\ queue = [r \in Recs |-> "unborn"]
  /\ resolved = {}
  /\ items = [i \in Items |-> NoItem]
  /\ ledger = [i \in Items |-> NoItem]
  /\ evidence = [r \in Recs |-> 0]
  /\ index = {} /\ dirty = {}
  /\ receipts = [b \in BatchIds |-> NoBatch]
  /\ torn = 0
  /\ queueLock = NoProc /\ catalogLock = NoProc
  /\ pc = [p \in Procs |-> "idle"]
  /\ op = [p \in Procs |-> "apply"]
  /\ target = [p \in Procs |-> NoItem]
  /\ seen = [p \in Procs |-> "full"]
  /\ batch = [p \in Procs |-> NoBatch]
  /\ todo = [p \in Procs |-> {}]
  /\ cur = [p \in Procs |-> NoRec]
  /\ out = [p \in Procs |-> Blank]
  /\ evicting = {} /\ faults = 0 /\ edits = 0 /\ deletes = 0
  /\ created = [i \in Items |-> 0]
  /\ approved = {} /\ told = 0

-----------------------------------------------------------------------------
(* Classification of a record against the queue and the catalog.           *)

Visible == {r \in Recs : queue[r] \in {"partial", "full"}}
\* mutant: the stable id is never looked up
OccupiedIgnored(i) == FALSE
Occupied(i) == items[i] # NoItem
Readable(r) == queue[r] = "full" /\ KindOf[r] # "malformed"
\* mutant: the audit is bypassed, as allow_unsafe would
AuditSkipped(r) == TRUE
AuditPasses(r) == KindOf[r] \notin {"risky", "secret"}
\* span_hash of the existing item is the payload hash of the record
SamePayload(r) == Occupied(ItemOf[r]) /\ items[ItemOf[r]].span = PayloadOf[r]
SameBody(r) == SamePayload(r) /\ items[ItemOf[r]].form # "rewritten"

TwinOf(r, i) == Occupied(i) /\ items[i].title = TitleOf[PayloadOf[r]]
PayloadTwin(r) == \E i \in Items : Occupied(i) /\ items[i].span = PayloadOf[r]
MetadataTwin(r) == \E i \in Items : TwinOf(r, i)

\* _classify_pending_record: the first reason that applies.
Verdict(r) ==
  IF ~Readable(r) THEN "malformed"
  ELSE IF KindOf[r] = "feedback" THEN "unsupported_type"
  ELSE IF Occupied(ItemOf[r]) THEN (IF SamePayload(r) THEN "already_written" ELSE "conflict")
  ELSE IF PayloadTwin(r) THEN "payload_duplicate"
  ELSE IF MetadataTwin(r) THEN "metadata_duplicate"
  ELSE IF ~AuditPasses(r) THEN "audit_blocked"
  ELSE IF KindOf[r] = "stale" THEN "stale_requires_review"
  ELSE "ready"

SameIdentity(r, q) == Readable(r) /\ Readable(q) /\ RecordIdOf[r] = RecordIdOf[q]
Collides(r) ==
  \E q \in Visible : SameIdentity(r, q) /\ PayloadOf[q] # PayloadOf[r]
Repeats(r) == \E q \in Visible : q < r /\ SameIdentity(r, q)

Alone(r) == \A q \in Visible : SameIdentity(r, q) => q = r

Class(r) ==
  IF Collides(r) THEN "conflict"
  ELSE IF Repeats(r) /\ Verdict(r) = "ready" THEN "queue_duplicate"
  ELSE Verdict(r)

Applicable(r) == Class(r) \in {"ready", "already_written"}
Truncated == Cardinality(Visible) > MaxQueueEntries

(* A resolution is offered again after a crash when the item it would have  *)
(* created is there and is still exactly that item.                         *)
Intended(r, a) ==
  \/ a = "approve_audit" /\ Readable(r) /\ KindOf[r] = "risky"
  \/ a = "convert_type"  /\ Readable(r) /\ KindOf[r] = "feedback"
Recoverable(r, a) ==
  Intended(r, a) /\ SamePayload(r) /\ items[ItemOf[r]].form = "orig"
Applies(r, a, t) ==
  \/ /\ a = "reject"
     /\ Class(r) \in {"stale_requires_review", "payload_duplicate", "queue_duplicate",
                      "metadata_duplicate", "unsupported_type", "audit_blocked"}
  \/ a = "quarantine" /\ Class(r) \in {"malformed", "conflict"}
  \/ a = "approve_audit" /\ Class(r) = "audit_blocked" /\ Intended(r, a)
  \/ a = "accept_duplicate" /\ Class(r) = "metadata_duplicate" /\ TwinOf(r, t)
  \/ a = "convert_type" /\ Class(r) = "unsupported_type" /\ Intended(r, a)
Resolvable(r, a, t) ==
  /\ r \in Visible /\ Alone(r) /\ ~Truncated
  /\ IF a \in Publishing /\ Occupied(ItemOf[r]) /\ Readable(r)
     THEN Recoverable(r, a) ELSE Applies(r, a, t)

-----------------------------------------------------------------------------
(* Producers.                                                              *)

\* enqueue_write_record: temp file, hard link, under the queue lock.
Enqueue(r) ==
  /\ queue[r] = "unborn" /\ queueLock = NoProc
  /\ queue' = [queue EXCEPT ![r] = "full"]
  /\ UNCHANGED <<resolved, items, ledger, evidence, index, dirty, receipts, torn,
                 locks, locals, env, history>>

\* write-memory.sh opens its file in pending/ directly and takes no lock.
HookOpen(r) ==
  /\ queue[r] = "unborn"
  /\ queue' = [queue EXCEPT ![r] = "partial"]
  /\ UNCHANGED <<resolved, items, ledger, evidence, index, dirty, receipts, torn,
                 locks, locals, env, history>>

HookClose(r) ==
  /\ queue[r] = "partial"
  /\ queue' = [queue EXCEPT ![r] = "full"]
  /\ UNCHANGED <<resolved, items, ledger, evidence, index, dirty, receipts, torn,
                 locks, locals, env, history>>

-----------------------------------------------------------------------------
(* Starting a batch.                                                       *)

BeginApply(p) ==
  /\ pc[p] = "idle"
  /\ pc' = [pc EXCEPT ![p] = "queue"]
  /\ UNCHANGED <<files, locks, op, target, seen, batch, todo, cur, out, env, history>>

\* resolve(apply=True) first plans without locks and gives up when nothing is ready.
BeginResolve(p, r, a, t) ==
  /\ pc[p] = "idle"
  /\ Resolvable(r, a, t)
  /\ pc' = [pc EXCEPT ![p] = "queue"]
  /\ op' = [op EXCEPT ![p] = a]
  /\ target' = [target EXCEPT ![p] = IF a = "accept_duplicate" THEN t ELSE NoItem]
  /\ cur' = [cur EXCEPT ![p] = r]
  /\ approved' = IF a = "approve_audit" THEN approved \cup {r} ELSE approved
  /\ UNCHANGED <<files, locks, seen, batch, todo, out, env, created, told>>

AcquireQueue(p) ==
  /\ pc[p] = "queue" /\ queueLock = NoProc
  /\ queueLock' = p
  /\ pc' = [pc EXCEPT ![p] = "catalog"]
  /\ UNCHANGED <<files, catalogLock, op, target, seen, batch, todo, cur, out, env, history>>

AcquireCatalog(p) ==
  /\ pc[p] = "catalog" /\ catalogLock = NoProc
  /\ catalogLock' = p
  /\ pc' = [pc EXCEPT ![p] = "plan"]
  /\ UNCHANGED <<files, queueLock, op, target, seen, batch, todo, cur, out, env, history>>

Reset(p) ==
  /\ pc' = [pc EXCEPT ![p] = "idle"]
  /\ op' = [op EXCEPT ![p] = "apply"]
  /\ target' = [target EXCEPT ![p] = NoItem]
  /\ seen' = [seen EXCEPT ![p] = "full"]
  /\ batch' = [batch EXCEPT ![p] = NoBatch]
  /\ todo' = [todo EXCEPT ![p] = {}]
  /\ cur' = [cur EXCEPT ![p] = NoRec]
  /\ out' = [out EXCEPT ![p] = Blank]
\* mutant: the lock files are removed whoever holds them
ReleaseAny(p) == queueLock' = NoProc /\ catalogLock' = NoProc
Release(p) ==
  /\ queueLock' = IF queueLock = p THEN NoProc ELSE queueLock
  /\ catalogLock' = IF catalogLock = p THEN NoProc ELSE catalogLock
Fault == faults < MaxFaults /\ faults' = faults + 1
NoFault == faults' = faults

\* mutant: the prepared receipt is not written
PrepareUnwritten(p, S) ==
  /\ UNCHANGED receipts
  /\ \E b \in BatchIds : batch' = [batch EXCEPT ![p] = b]
\* append_pending_receipt of the prepared receipt, before anything is changed
Prepare(p, S) ==
  /\ torn = 0
  /\ \E b \in BatchIds :
       /\ receipts[b] = NoBatch
       /\ receipts' = [receipts EXCEPT ![b] = S]
       /\ batch' = [batch EXCEPT ![p] = b]

\* The records named on the command line, or all of them for --safe-only; a name
\* that two records share selects none.  The records that are not applicable are
\* reported for review and stay queued.
PlanApply(p, S) ==
  /\ pc[p] = "plan" /\ op[p] = "apply"
  /\ S \subseteq Visible /\ ~Truncated
  /\ S = Visible \/ \A r \in S : Alone(r)
  /\ Prepare(p, S)
  /\ todo' = [todo EXCEPT ![p] = {r \in S : Applicable(r)}]
  /\ out' = [out EXCEPT ![p] =
               [r \in Recs |-> IF r \in S /\ ~Applicable(r) THEN "review" ELSE "none"]]
  /\ pc' = [pc EXCEPT ![p] = "next"]
  /\ UNCHANGED <<queue, resolved, items, ledger, evidence, index, dirty, torn, locks,
                 op, target, seen, cur, env, history>>

\* The plan made before the locks is made again under them.
PlanResolve(p) ==
  /\ pc[p] = "plan" /\ op[p] # "apply"
  /\ Resolvable(cur[p], op[p], target[p])
  /\ Prepare(p, {cur[p]})
  /\ todo' = [todo EXCEPT ![p] = {cur[p]}]
  /\ seen' = [seen EXCEPT ![p] = queue[cur[p]]]
  /\ cur' = [cur EXCEPT ![p] = NoRec]
  /\ pc' = [pc EXCEPT ![p] = "next"]
  /\ UNCHANGED <<queue, resolved, items, ledger, evidence, index, dirty, torn, locks,
                 op, target, out, env, history>>

\* Nothing is changed: the queue is longer than the scan cap, the decision no
\* longer applies, the scan fails, or the prepared receipt cannot be appended.
PlanRefused(p) ==
  /\ pc[p] = "plan"
  /\ \/ Truncated /\ NoFault
     \/ op[p] # "apply" /\ ~Resolvable(cur[p], op[p], target[p]) /\ NoFault
     \/ torn > 0 /\ NoFault
     \/ Fault
  /\ Reset(p) /\ Release(p)
  /\ UNCHANGED <<files, evicting, edits, deletes, history>>

-----------------------------------------------------------------------------
(* One record of the batch.                                                *)

\* mutant: the record taken from the batch is not bound
TakeUnbound(p, r, step) ==
  /\ pc[p] = "next" /\ r \in todo[p]
  /\ todo' = [todo EXCEPT ![p] = @ \ {r}]
  /\ pc' = [pc EXCEPT ![p] = step]
  /\ UNCHANGED cur
Take(p, r, step) ==
  /\ pc[p] = "next" /\ r \in todo[p]
  /\ todo' = [todo EXCEPT ![p] = @ \ {r}]
  /\ cur' = [cur EXCEPT ![p] = r]
  /\ pc' = [pc EXCEPT ![p] = step]
TakeAndReport(p, r, v) ==
  /\ pc[p] = "next" /\ r \in todo[p]
  /\ todo' = [todo EXCEPT ![p] = @ \ {r}]
  /\ out' = [out EXCEPT ![p][r] = v]
  /\ UNCHANGED <<pc, cur>>
Advance(p, step) == pc' = [pc EXCEPT ![p] = step] /\ UNCHANGED cur
Report(p, v) == out' = [out EXCEPT ![p][cur[p]] = v]
Finish(p, v) ==
  /\ Report(p, v)
  /\ cur' = [cur EXCEPT ![p] = NoRec]
  /\ pc' = [pc EXCEPT ![p] = "next"]

\* _apply_record: the stable item decides between reconcile, conflict and write;
\* the write re-runs the audit whatever the record asked for.
Reconciles(r) == SameBody(r)
Writes(r) == ~Occupied(ItemOf[r]) /\ AuditPasses(r)
ExamineApply(p, r) ==
  /\ op[p] = "apply"
  /\ \/ Reconciles(r) /\ Take(p, r, "ledger") /\ UNCHANGED out
     \/ Writes(r) /\ Take(p, r, "evidence") /\ UNCHANGED out
     \/ ~Reconciles(r) /\ ~Writes(r) /\ TakeAndReport(p, r, "review")
  /\ UNCHANGED <<files, locks, op, target, seen, batch, env, history>>

\* _apply_resolution: the file must still be the one the plan read, the existing
\* item still what the decision was made on.
ExamineResolve(p, r) ==
  LET unchanged == queue[r] = seen[p]
      parks == unchanged /\ op[p] \in Terminal
      merges == unchanged /\ op[p] = "accept_duplicate" /\ TwinOf(r, target[p])
      recovers == unchanged /\ op[p] \in Publishing /\ Recoverable(r, op[p])
      writes == unchanged /\ op[p] \in Publishing /\ ~Occupied(ItemOf[r])
  IN /\ op[p] # "apply"
     /\ \/ parks /\ Take(p, r, "park") /\ UNCHANGED out
        \/ merges /\ Take(p, r, "unlink") /\ UNCHANGED out
        \/ recovers /\ Take(p, r, "ledger") /\ UNCHANGED out
        \/ writes /\ Take(p, r, "evidence") /\ UNCHANGED out
        \/ ~(parks \/ merges \/ recovers \/ writes) /\ TakeAndReport(p, r, "failed")
     /\ UNCHANGED <<files, locks, op, target, seen, batch, env, history>>

\* The record cannot be read, or WriteService cannot be built.
ExamineFails(p, r) ==
  /\ TakeAndReport(p, r, "failed") /\ Fault
  /\ UNCHANGED <<files, locks, op, target, seen, batch, evicting, edits, deletes, history>>

\* mutant: a resolution's sidecars get random ids as well
MakeSidecarsAgain(p) == evidence' = [evidence EXCEPT ![cur[p]] = @ + 1]
\* Sidecars get random ids, except that a resolution derives them from the record.
MakeSidecars(p) ==
  evidence' = [evidence EXCEPT ![cur[p]] =
                 IF op[p] \in Publishing /\ @ > 0 THEN @ ELSE @ + 1]
AttachEvidence(p) ==
  /\ pc[p] = "evidence"
  /\ MakeSidecars(p)
  /\ Advance(p, "create")
  /\ UNCHANGED <<queue, resolved, items, ledger, index, dirty, receipts, torn, locks,
                 op, target, seen, batch, todo, out, env, history>>

\* ItemsStore.write: exclusive creation of the md file.
MakeItem(p) ==
  LET r == cur[p]
      i == ItemOf[r]
  IN /\ ~Occupied(i)
     /\ items' = [items EXCEPT ![i] = [span |-> PayloadOf[r],
                                       title |-> TitleOf[PayloadOf[r]], form |-> "orig"]]
     /\ created' = [created EXCEPT ![i] = @ + 1]
CreateItem(p) ==
  /\ pc[p] = "create"
  /\ MakeItem(p)
  /\ Advance(p, "ledger")
  /\ UNCHANGED <<queue, resolved, ledger, evidence, index, dirty, receipts, torn, locks,
                 op, target, seen, batch, todo, out, env, approved, told>>

\* mutant: an existing source record is always a conflict
LedgerAcceptsNew(i) == ledger[i] = NoItem
\* A record of the same item may be completed when only its refs have changed.
LedgerAccepts(i) ==
  \/ ledger[i] = NoItem \/ ledger[i] = items[i]
  \/ /\ ledger[i] # NoItem
     /\ ledger[i].span = items[i].span /\ ledger[i].title = items[i].title
     /\ {ledger[i].form, items[i].form} \subseteq {"orig", "linked"}

WriteLedger(p) ==
  LET i == ItemOf[cur[p]]
  IN /\ pc[p] = "ledger" /\ LedgerAccepts(i)
     /\ ledger' = [ledger EXCEPT ![i] = items[i]]
     /\ Advance(p, "index")
     /\ UNCHANGED <<queue, resolved, items, evidence, index, dirty, receipts, torn, locks,
                    op, target, seen, batch, todo, out, env, history>>

\* A refused or failed ledger write does not stop the index step, but the
\* record stays queued.
LedgerDegraded(p) ==
  /\ pc[p] = "ledger"
  /\ \/ ~LedgerAccepts(ItemOf[cur[p]]) /\ NoFault
     \/ Fault
  /\ Report(p, "failed")
  /\ Advance(p, "index")
  /\ UNCHANGED <<files, locks, op, target, seen, batch, todo, evicting, edits, deletes, history>>

\* mutant: the record is unlinked whether or not its source record was written
LedgerIgnored(p) == TRUE
LedgerWritten(p) == out[p][cur[p]] # "failed"

\* mutant: the outcome forgets that the index needs a repair
AfterIndexForgotten(p, v) ==
  IF LedgerWritten(p)
  THEN Report(p, "none") /\ Advance(p, "unlink")
  ELSE Finish(p, "failed")
AfterIndex(p, v) ==
  IF LedgerWritten(p)
  THEN Report(p, v) /\ Advance(p, "unlink")
  ELSE Finish(p, "failed")

UpsertIndex(p) ==
  /\ pc[p] = "index"
  /\ index' = index \cup {ItemOf[cur[p]]}
  /\ AfterIndex(p, "none")
  /\ UNCHANGED <<queue, resolved, items, ledger, evidence, dirty, receipts, torn, locks,
                 op, target, seen, batch, todo, env, history>>

\* Best effort: the marker names the item, and may itself fail to be written.
IndexDegraded(p) ==
  /\ pc[p] = "index" /\ Fault
  /\ dirty' \in {dirty, dirty \cup {ItemOf[cur[p]]}}
  /\ AfterIndex(p, "repair")
  /\ UNCHANGED <<queue, resolved, items, ledger, evidence, index, receipts, torn, locks,
                 op, target, seen, batch, todo, evicting, edits, deletes, history>>

\* mutant: the record is not linked into resolved/ before its unlink
ParkUnlinked(p) ==
  /\ pc[p] = "park"
  /\ Advance(p, "unlink")
  /\ UNCHANGED <<files, locks, op, target, seen, batch, todo, out, env, history>>
\* _move_terminal_pending_record: a hard link into resolved/ before the unlink.
Park(p) ==
  /\ pc[p] = "park"
  /\ resolved' = resolved \cup {cur[p]}
  /\ Advance(p, "unlink")
  /\ UNCHANGED <<queue, items, ledger, evidence, index, dirty, receipts, torn, locks,
                 op, target, seen, batch, todo, out, env, history>>

\* The file is read once more; another content or inode keeps it in the queue.
RemoveFile(p) == queue' = [queue EXCEPT ![cur[p]] = "gone"]
\* mutant: a record that changed is left alone but reported as applied
UnlinkReported(p) ==
  /\ pc[p] = "unlink"
  /\ IF queue[cur[p]] = seen[p] THEN RemoveFile(p) ELSE UNCHANGED queue
  /\ Finish(p, "applied")
  /\ UNCHANGED <<resolved, items, ledger, evidence, index, dirty, receipts, torn, locks,
                 op, target, seen, batch, todo, env, history>>
Unlink(p) ==
  /\ pc[p] = "unlink"
  /\ IF queue[cur[p]] = seen[p]
     THEN /\ RemoveFile(p)
          /\ Finish(p, IF out[p][cur[p]] = "repair" THEN "repair" ELSE "applied")
     ELSE UNCHANGED queue /\ Finish(p, "failed")
  /\ UNCHANGED <<resolved, items, ledger, evidence, index, dirty, receipts, torn, locks,
                 op, target, seen, batch, todo, env, history>>

\* An exception or a refusing commit guard ends the record.  What is on disk
\* stays: the step may have taken effect before the exception (an fsync).
StepFails(p) ==
  /\ \/ /\ pc[p] = "evidence"
        /\ MakeSidecars(p) /\ UNCHANGED <<queue, resolved, items, created>>
     \/ /\ pc[p] = "create"
        /\ MakeItem(p) /\ UNCHANGED <<queue, resolved, evidence>>
     \/ /\ pc[p] = "ledger" /\ op[p] \in Publishing
        /\ UNCHANGED <<queue, resolved, items, evidence, created>>
     \/ /\ pc[p] = "unlink" /\ op[p] \in Terminal /\ queue[cur[p]] = seen[p]
        /\ RemoveFile(p) /\ UNCHANGED <<resolved, items, evidence, created>>
     \/ /\ pc[p] \in {"evidence", "create", "park", "unlink"}
        /\ UNCHANGED <<queue, resolved, items, evidence, created>>
  /\ Fault /\ Finish(p, "failed")
  /\ UNCHANGED <<ledger, index, dirty, receipts, torn, locks, op, target, seen, batch, todo,
                 evicting, edits, deletes, approved, told>>

-----------------------------------------------------------------------------
(* The end of a batch, and of a process.                                   *)

\* The completed receipt counts the records whose index row needs a repair and names
\* none of them; if it cannot be appended the batch stays unfinished.  The holder of
\* the locks is the only one that appends, so the ledger it prepared in is not torn.
Complete(p) ==
  /\ pc[p] = "next" /\ todo[p] = {}
  /\ \/ /\ NoFault
        /\ receipts' = [receipts EXCEPT ![batch[p]] = NoBatch]
        /\ told' = told + Cardinality({r \in Recs : out[p][r] = "repair"})
     \/ Fault /\ UNCHANGED <<receipts, told>>
  /\ Reset(p) /\ Release(p)
  /\ UNCHANGED <<queue, resolved, items, ledger, evidence, index, dirty, torn,
                 evicting, edits, deletes, created, approved>>

Appending(p) == pc[p] = "plan" \/ (pc[p] = "next" /\ todo[p] = {})

\* The process dies: its locks are released and only the files remain.  Inside
\* an append to the receipt ledger it may leave half a line behind.
Crash(p) ==
  /\ pc[p] # "idle" /\ Fault
  /\ \/ torn' = torn
     \/ torn < MaxTorn /\ Appending(p) /\ torn' = torn + 1
  /\ Reset(p) /\ Release(p)
  /\ UNCHANGED <<queue, resolved, items, ledger, evidence, index, dirty, receipts,
                 evicting, edits, deletes, history>>

-----------------------------------------------------------------------------
(* Other writers of the pool, each a short operation under the catalog lock. *)

CatalogFree == catalogLock = NoProc
Edited == edits < MaxEdits /\ edits' = edits + 1

\* A direct `memory write`; its item id is fresh, never a stable id.
OtherCreates(i, t) ==
  /\ CatalogFree /\ Edited
  /\ ~Occupied(i) /\ \A r \in Recs : ItemOf[r] # i
  /\ items' = [items EXCEPT ![i] = [span |-> NoSpan, title |-> t, form |-> "orig"]]
  /\ UNCHANGED <<queue, resolved, ledger, evidence, index, dirty, receipts, torn, locks,
                 locals, evicting, faults, deletes, history>>

\* link_mem changes refs, update_frontmatter other fields, restore_raw all of it.
\* One change at most per item: a second would be the same kind or hide the first.
OtherEdits(i, f) ==
  /\ CatalogFree /\ Edited
  /\ Occupied(i) /\ items[i].form = "orig" /\ f # "orig"
  /\ items' = [items EXCEPT ![i].form = f]
  /\ UNCHANGED <<queue, resolved, ledger, evidence, index, dirty, receipts, torn, locks,
                 locals, evicting, faults, deletes, history>>

\* `memory delete`: the md under the lock, the index row after it is released.
OtherDeletes(i) ==
  /\ CatalogFree /\ deletes < MaxDeletes /\ deletes' = deletes + 1
  /\ Occupied(i)
  /\ items' = [items EXCEPT ![i] = NoItem]
  /\ evicting' = evicting \cup {i}
  /\ UNCHANGED <<queue, resolved, ledger, evidence, index, dirty, receipts, torn, locks,
                 locals, faults, edits, history>>

Evict(i) ==
  /\ i \in evicting
  /\ evicting' = evicting \ {i}
  /\ index' = index \ {i}
  /\ UNCHANGED <<queue, resolved, items, ledger, evidence, dirty, receipts, torn, locks,
                 locals, faults, edits, deletes, history>>

-----------------------------------------------------------------------------

Producer == \E r \in Recs : Enqueue(r) \/ HookOpen(r) \/ HookClose(r)

Drive(p) ==
  \/ AcquireQueue(p) \/ AcquireCatalog(p)
  \/ \E S \in SUBSET Recs : PlanApply(p, S)
  \/ PlanResolve(p) \/ PlanRefused(p)
  \/ \E r \in Recs : ExamineApply(p, r) \/ ExamineResolve(p, r) \/ ExamineFails(p, r)
  \/ AttachEvidence(p) \/ CreateItem(p)
  \/ WriteLedger(p) \/ LedgerDegraded(p)
  \/ UpsertIndex(p) \/ IndexDegraded(p)
  \/ Park(p) \/ Unlink(p) \/ StepFails(p)
  \/ Complete(p)

OtherWriter ==
  \E i \in Items :
    \/ \E t \in Titles : OtherCreates(i, t)
    \/ \E f \in Forms \ {"orig"} : OtherEdits(i, f)
    \/ OtherDeletes(i) \/ Evict(i)

Operator(p) ==
  \/ BeginApply(p)
  \/ \E r \in Recs, a \in ResolutionOps, t \in Items : BeginResolve(p, r, a, t)

Next ==
  \/ Producer \/ OtherWriter
  \/ \E p \in Procs : Operator(p) \/ Drive(p) \/ Crash(p)

Spec == Init /\ [][Next]_vars
=============================================================================
