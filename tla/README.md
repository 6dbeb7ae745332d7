# Agent Memory Hub in TLA+

Agent Memory Hub is a local-first memory shared by several agents on one host.
Every memory item is a markdown file; everything else (SQLite index, vectors,
graph edges, ledgers) is derived from the files or records how they came to be.
The rule behind the design is that *the markdown append is the only verdict for
"written"*: a step after it may fail, and must then be repairable. Many
processes (agents' hooks, MCP servers, CLI commands, scheduled maintenance)
work on the same directory, and any of them may die at any time. There is no
server; exclusion is `flock`, durability is exclusive creation, hard links and
`fsync`. The models are about that: what is on disk after any interleaving of
such processes, failures and retries.

## Inventory

| Component | State | Operations | Interacts with |
|---|---|---|---|
| Pending queue, `memory/store/pending.py` | `pending/*.json`, `pending/resolved/`, queue lock | `enqueue_write_record`, `plan`, `apply`, `resolve` (reject, quarantine, approve-audit, accept-duplicate, convert-type) | calls WriteService under the queue and catalog locks, writes receipts |
| Write service, `memory/store/write_service.py` | `sources/writes/<id>.json`, evidence sidecars | `write`, `reconcile_existing` | items store, index, dirty marker |
| Pending receipts, `memory/governance/pending_receipts.py` | an append-only JSONL ledger | prepare, complete, status | pending queue, doctor |
| Items store, `memory/store/items_store.py` | `items/*.md`, catalog lock, item locks | `write`, `update_frontmatter`, `restore_raw`, `link_mem`, `delete`, `iter_all` | everybody |
| Hook writer, `agent_runtime_kit/tools/write-memory.sh` | none | writes a file into `pending/` without a lock | pending queue |
| Index maintenance, `interfaces/cli/commands/index_maintenance.py`, and the marker `.index-dirty` (in `pending.py`) | SQLite rows, marker lines | `reindex_store`, `repair_index_health` (`verify --repair`), `repair_index_drift`, append, read and clear of the marker | items store, index, every writer, automatic governance |
| Contradiction containment and resolution, `memory/governance/contradiction_*.py` | receipts (prepared, final), the states of the items of a case | `contain_contradiction_case`, `resolve_contradiction_case`, and the recovery of each | items store, index, review queue |
| Supersession, `memory/governance/supersession.py` | two items, a snapshot, the lifecycle ledger | `preview`, `apply`, `revert` | items store, index |
| Signal resolution, `memory/governance/signal_resolution.py` | receipts, the state of a signal item | `transition_signal_state`, `recover_signal_transaction` | items store, index |
| Review transactions, `memory/governance/review_transactions.py` | receipts | `resolve_review_candidate` | review queue, items store |
| Lifecycle reviews, `memory/governance/lifecycle_*.py` | archived files, an append-only ledger | `archive_reviewed_item`, keep-active, defer, `append_lifecycle_record` | items store, index, supersession |
| Automatic governance, `memory/governance/auto_governance.py`, `daily_maintenance.py` | a plan and a report per run | runs the safe actions of the others | all of governance, index maintenance |
| Loops, `memory/loops/` | one JSON ledger per loop, a journal, recorded outcomes | create, checkpoint, add and move a step, open and answer a human gate, feedback, complete, fail, block; `run_contract` | learning outcomes |
| Recall and context, `memory/recall/`, `memory/context/` | access statistics | search, rank, inject | index (read only) |
| Evidence, `memory/evidence/` | append-only conversation, resource and import records | capture, import | write service |
| Native sync, `native_sync/` | a SQLite database per device (snapshots, parts, outbox, refusals, cursor, replica, policy), the Hub's records and change log | a worker's pass (scan, upload, read changes), policy change, purge, revoke | files of other products, network |
| Encrypted sync, history sync, `product/` | encrypted append-only objects, import jobs | push, pull, import | items store, network |
| Interfaces, integrations, platform, evaluation, web | no protocol state of their own | wrap the operations above | all |

Which behaviours are hard, and what makes each part correct:

* **Pending queue, write service, receipts.** A record passes through six
  durable steps (prepared receipt, sidecar, md file, source ledger, index row,
  unlink, completed receipt) and a crash or an exception may follow each.
  Correct means: nothing enqueued is lost, nothing is published twice or
  without its audit, receipts are true, what is left undone can be found again,
  and a drain that is repeated comes to an end. Two processes race for two
  locks; producers and the shell hook add files meanwhile, the hook without a
  lock; other writers edit and delete items between two drains.
* **Index maintenance.** No lock spans a repair, and a repair deletes: rows
  that a scan did not see and marker lines that it believes repaired. Correct
  means: no live row is deleted, no line is cleared that the repair has not
  dealt with, and repairs that are repeated end with index = pool.
* **Containment and resolution of contradictions.** Several files change in one
  logical operation, with a prepared receipt before and a terminal one after;
  the question is what a crash between them leaves, whether rival recoveries
  are harmless, and whether a decision is made on what the reviewer saw.
* **Supersession, archive, reviews.** Two files and a ledger line, or a file that
  moves, without a prepared receipt: what fails halfway is undone from bytes held
  in memory or from a snapshot, while editors, who know no lock, go on.
* **Loops.** A JSON file that several agents rewrite without a lock, through one
  temporary name, and a journal beside it.
* **Sync.** An outbox that is uploaded at least once, a change log that is read in
  pages by a cursor, a replica whose content depends on a policy that may change
  between a request and the use of its answer, revocation in the middle of a pass.

`PROJECT.json` lists every component with what is and is not modelled, and the
hazards of this code line by line with the properties aimed at them.

## Plan

Done, in this order: `PendingQueue` with its abstract `WriteBuffer`;
`DirtyIndex`; `CaseGovernance` with its abstract `CaseDecisions`; `NativeSync`;
`LoopLedger`; `LifecycleReview`. Each has its properties, its runs and its
theorems.

Wanted next:

1. `SignalResolution` and the rest of the review transactions: prepared and
   final receipts once more, with reasons and evidence of their own.
2. The append-only objects of `encrypted_sync`, where two devices append.
3. The projection of `native_sync` into the directories of other products, and
   its quarantine.
4. The abstract side of decisions with containments and with rollbacks, for
   which `CaseDecisions` would have to say what a containment does to the tags
   and what a late rollback takes back.

Every state module is written to be proved about: constants with named
assumptions, one action per operation, no RECURSIVE operator, invariants made
of named parts.

## Modules

| Module | What it is |
|---|---|
| `PendingQueue` | the queue, a drain and the resolutions, step by step |
| `WriteBuffer` | its abstract promise: accept, publish once, source, park, retire what is kept |
| `DirtyIndex` | writers, index, marker and the three repairs |
| `CaseGovernance` | one contradiction case: containment, decision, rollback, recovery |
| `CaseDecisions` | the abstract promise: the whole case is decided in one step |
| `NativeSync` | the workers of several devices, the Hub, its change log, the replicas |
| `LoopLedger` | the ledger and the journal of one loop, and a contract's run |
| `LifecycleReview` | supersede, revert, archive, keep active, defer, and the lifecycle ledger |

Each state module `M` has `MProperties` (type invariant, safety, action and
liveness properties, refinement mapping), `MProofs` (the theorems) and `MCM`
(instances and symmetry for TLC). Two have a second module of theorems that
builds on the first: `PendingReceiptProofs` (receipts, sidecars and index rows of
the queue) and `CaseDecisionProofs` (the refinement of `CaseDecisions`). Operators
whose comment begins with `mutant:` are not part of the models. Each is what a plausible mistake in the definition
it is next to would look like; put in its place, it makes a property of a run
fail (`PROJECT.json`, `mutants`).

### PendingQueue

State and code:

* `queue[r]`: the file of record r: not there yet, half written by the hook,
  complete, gone. `resolved` are the hard links in `pending/resolved/`.
* `items[i]`: the md file: which payload it holds (the `span_hash`), its title
  (type, title and summary, which decide a metadata duplicate) and whether it
  was changed since. `ledger[i]` is the source record, a snapshot of the same.
* `receipts[b]`: the selection of a batch that is prepared and not completed. The
  line of the code has a digest of it and counts, no names, so only properties
  look into it. Of completed batches `told` is left, the sum of their
  `index_repair_required_count`. `torn` counts half lines in the receipt ledger.
* `pc[p]` is where process p is between two durable steps: waiting for the
  queue lock, then for the catalog lock, planning, between two records, or
  before the step of the current record that `pc` names. `out[p]` are the
  outcomes so far, `seen[p]` the file content a resolution was planned on.
* `KindOf` is a fixed fact about a record's payload: *plain* passes the audit,
  *risky* and *secret* do not (only risky can be approved), *feedback* is a type
  that must be converted, *stale* needs a review, *malformed* cannot be parsed.
  A stale record behaves like a secret one: it is not applicable and may be
  rejected; no run has one.

A drain: `BeginApply`, `AcquireQueue`, `AcquireCatalog`, `PlanApply` (classify
under the locks, prepare the receipt), then per record `ExamineApply`,
`AttachEvidence`, `CreateItem`, `WriteLedger`, `UpsertIndex`, `Unlink`, and
`Complete`. A resolution plans once without locks (`BeginResolve`) and again
under them (`PlanResolve`). `Verdict`, `Collides`, `Repeats` and `Class` are
`_classify_pending_record` and `_reconcile_pending_identity_collisions` with
their order of reasons. Failures: `StepFails` (an exception before or after the
durable effect), `LedgerDegraded`, `IndexDegraded`, `ExamineFails`,
`PlanRefused`, a `Complete` whose append fails, and `Crash` anywhere.

Abstractions a reader should know:

* The per-record and per-item lock files are always taken inside the two locks
  by the same process, so they exclude nothing more and are left out. Lock
  deadlines are covered by the faults (a refused batch changes nothing).
* The code works through a batch in the order of the file names; the model in
  any order, which allows more. A resolution holds one record; the CLI accepts
  several, which the code plans and applies one after the other.
* Scope (tenant, project) of duplicates, evidence content, enrichment, quality
  scores and the platform check that degrades evidence are left out.
* An edit by another writer happens once per item (a second would be of the
  same kind or hide the first).

### DirtyIndex

`md[i]` and `index[i]` are the version of the file and the version the row was
made from (0: none), `marker[i]` the number of lines of i in `.index-dirty`.
`work[w]` is a write in hand: md done, and then the upsert ("index": a failure
appends a line; "update": `memory update` gives up), the eviction after a
delete, or the line ("mark"). `run[p]` is a repair in hand with its locals:
the ids of the first scan, missing and orphan ids, the snapshot of the marker,
the files still to read, those seen, the versions read, the rows due.

`reindex`: `ReadMarker`, `List`, `ReadFile`/`Upsert` per file, `Prune`, `Clear`.
`verify --repair`: `Survey`, `Compare`, `ReadMarker`, `List`, `ReadFile` for all
files, `EndRead` with the comparison `SameSource`, `Upsert`, `Drop`, `Clear`.
The drift repair: `Survey`, `Compare`, `ReadMarker`, `ReadFile`/`Upsert`,
`Drop`, a second `Survey`/`Recompare`, `Clear`. A file that was listed and is
gone, or cannot be read, is skipped (`Unread`) and makes the scan incomplete,
which reindex and verify look at and the first scan of the drift repair does not.

An id may come back after its item was deleted: the pending queue derives it from
the record (`pending.py:711`), and the recovery of a case restores files. The
versions of such an item go on (`last`), so that a row of its earlier life is told
from a new one. `back[p]` is history: the ids that came back since repair p listed
the files. `Present` and `EarlierLines` are the pool and the marker at the start.

Left out: supersession edges, `reindex --no-prune`, a torn last line of the
marker. Files are read in any order; the directory listing is one step; each
upsert, delete and prune is one SQLite transaction, as in `IndexWriter`.

### CaseGovernance

`md[i]` is what the files say of an item: `text` for everything a user writes,
`conf`, `held` for the tags of a containment, `marks` for those of decisions,
`by` for `superseded_by`, `mature` for the maturity of governance. `ledger[t]`
is a transaction with its receipts: the snapshot it was prepared with (`before`),
the digests of its terminal receipt (`after`; a digest is the content it is the
digest of), the decision and its target. The two ledgers of the code are one
table in the order of the prepared receipts; the state "twice" is a transaction
with two terminal receipts, and `torn` are the ledgers that end in half a line,
which a crash inside `_append_receipt_payload` leaves; every reader calls either
corrupt. A receipt that is appended to half a line is part of it and lost.
`lock` holds the lifecycle and the catalog lock, which are taken together;
`job[p]` is an operation in hand.

Containment: `Survey` (without locks), `ContainPrepare` or `ContainRefused`.
Decision: `Preview`, with the intent digest `Sight`, and later `ResolvePrepare`,
which computes the intent again under the locks. Both go on with `WriteItem`
(one atomic file each), `Complete` (index, terminal receipt), or `Fail`, and after
it `Rollback`, which takes the locks anew. `ChooseRecovery` looks at the ledger
without locks; `RecoverContainment` and `RecoverDecision` take them, and only
the second looks again; `UndoItem`, `UndoDone` and `UndoFails` are common.
`Successors` and `PairReady` are what the preview of a supersession requires,
with the walk along `superseded_by` as the smallest set closed under it.
Other writers (`Edit`, `Mature`, `Approve`, `Delete`) take the catalog lock for
one write.

Left out: duplicates and expiry of automatic governance, the texts of reasons,
tenants, and a receipt that lacks nothing but its newline. An edit never ends the contradiction, which would only end the case.

### NativeSync

The asset of the code is a part of a file: a text longer than the limit is cut
into parts, each with revisions of its own. Per device the tables of its
database: `snap` (snapshots.hash), `part` (source_parts), `outbox`, `refused` and
`earlier` (outbox_rejections and the order of their times), `cursor`, `replica`,
`mode` (the storage policy that was applied) beside `wants` (what `config.json`
says when `projection_enabled` reads it, which it does each time it is asked). On
the Hub: `store`, the current record of each asset; `log`, the changes in the order
of their sequence numbers; `revoked`. `pass[d]` is the memory of the running pass;
its `page.bodies` is the switch as it was when the page was requested. `withheld`
are files that `withheld()` of the installed release keeps back. `overdue` is
history: the assets whose record came with a late upload and was not confirmed by
an upload in time since.

A pass: `Begin` (policy, walk), `List` (the walk's names that still are files),
`Scan` per file (`EnqueueDocument`, `QueueDelete`, `ScanMissing`), `Connect`,
then per queued row `Send`, `Commit` (the Hub: `Answer`, `Put`), `Saved` or
`Refused`, at last per page `Fetch`, `Check` or `Refetch`, and `Apply`, and `Finish`.
`Check` compares the switch before and after the request, never the applied policy,
and `Apply` asks a third time, per record (client.py:961, 964, 1004); with
`SwitchInApply` the member turns it between two records of the page. `ScanMissing`
drops the unsent version of a file that is withheld but there (`DropUnsent`). `Defer`
and a `Finish` from "pull" are the pass's time budget, which always leaves room
for one upload and one page. A transaction of either database is one step. The
two reads of an empty page (`FetchNothing`, `LastSeq`) are two. Equal content is
accepted first, as the replay of a lost answer; then only a row on top of the
revision the Hub has. A reader of bodies is not shown changes whose text is gone.

Faults: `Stop` (crash, no network, lost answer), `TimeOut` and `Arrive` (an
upload its client gave up on and the Hub handles later), `Unmount`, `Toggle` and
`SwitchInApply`, `Revoke`, `Purge`, `Upgrade` (a release that withholds a file it
shared before), `StopInConfigure`.

Left out: selecting files, adopting old files and the review of copies,
quarantined sources, kinds other than memory, uploads switched off, delivery
reports, tenants, credentials, the one-time scrub of old logs.

### LoopLedger

`file` and `tmp` are `<loop id>.json` and its temporary file: a version, absent,
partial (opened and not filled) or torn (two texts mixed). A version holds the
loop's status, its steps with dependencies, open blockers, open and decided
gates, and whether it has evidence of a passed verification. `log` holds what the
events of the journal claim; `credits` counts the successes recorded for
learning. An operation reads and computes in one step (`Operate` with
`Checkpoint`, `AddStep`, `MoveStep`, `OpenGate`, `Resolve`, `Feedback`, `Block`,
`Fail`, `Complete`: the versions it may produce, none when it is refused), and
writes in several: `Announce`, `Open`, `Fill`, `Move`, `Tell`, `Learn`; `Raise`
when the temporary file is gone. An open file keeps its inode under a new name
(`Renamed`). `contract` is a run of `run_contract`: `RunContract`, `Verify`,
`OpenNeeded`, `Decide`, `Abandon`.

Left out: the texts of reasons, artifacts and commands, the parsing of contracts,
the allow-list and output classification of the verifier, drafts.

### LifecycleReview

`item[i]` is the file (`body`, time of observation `seen`, `superseded_by` as
`sup`, `refs.mems` as `refs`), `archived[i]` its copy in the archive, `stale` the
items whose index row is not made from the file. Of the lifecycle ledger the
model keeps what its readers read: `latest`, what the last record of a pair says
(the revert asks whether the reference was older than the supersession),
`deferred`, and `torn`. `job[p]` is an operation with the bytes it read (`oldO`,
`oldR`) and prepared (`newO`, `newR`); `touched` are files an editor changed
meanwhile.

Supersede and revert: `Start` (locks, preview), `Check` (snapshot, bytes once
more), `Prepare`, `Mark`, `Link`, `Record`, `Sync`; an exception before or after
each durable effect (`CheckFails`, `MarkFails`, `LinkFails`, `RecordFails`) leads
to `Undo`, `UndoMore`, `Settle` (by the bytes, then by the snapshot), `GiveUp` and
`Note`. A file that cannot be read at the beginning of the rollback ends it at once;
a restore that fails is passed over; the snapshot may fail after one of the files. Archive: `Plan` (without locks), `Open` (locks; resume or finish an
earlier archiving), `Copy`, `Fill`, `Verify`, `Unlink`, `CopyFails`, `UnlinkFails`.
`KeepActive`, `KeepRecord`, `KeepFails`, `Defer`. `Unappended` is an append that
raises: truncated, or left whole or half. `Crash` anywhere.

Abstractions:

* The lifecycle lock and the catalog lock (which `locked_items` takes too) make
  one operation at a time, `Free`, and keep the writers of the items store out.
  Plans and editors are not kept out. `Alone` is proved, not assumed.
* The chain of `superseded_by` is walked as a set that is closed under it and has
  no loop; the result is the same. Tenant, project, sensitivity and review state
  of a pair are the constant `Suits`.
* Due for review means observed before `horizon` and not superseded; the states
  of signals are left out. Equal contents are equal bytes; a snapshot holds what
  was read under the locks.
* Editors change bodies; they neither delete files nor create them again.
  `Resolve` stands for the three other writers of `superseded_by`
  (`conflict_actions.py`, the compressor, the crystallizer), which look at no
  chain. Therefore only this holds, and is stated: a *supersession* never closes
  a cycle.

## Runs

| Run | Instance | Shows |
|---|---|---|
| `drain` | 2 processes, two files of one record and a secret, scan cap 2, 1 fault, 1 torn append | `TypeOK`, `WorkersReliable`, `NoLostWrite`, `WriteAhead`, `TruthfulReceipt`, `ExactlyOnce`, `RepairsCounted`, `AuditGate` |
| `resolve` | 2 processes, a risky and a feedback record, a third item of another writer, 1 fault, 1 edit | `AuditGate`, `ResolutionEvidenceOnce`, and `RefinesBuffer`: every step is one of `WriteBuffer` or none |
| `live` | 2 processes, 1 record, 1 fault, 1 deletion | `Converges` |
| `repairs` | all three kinds of repair, 1 at a time, 1 writer, an item that is there and due for repair and one that is made, changed or deleted and made again, 2 faults, marker cap 2 | `TypeOK`, `VerifyKeepsLiveRows`, `SparesOldRows`, `KeepsNewLines`, `RepairsConverge` |
| `decide` | 2 reviewers, a case of 2 items and a third one, select an authority or merge, 1 edit per item, 1 crash, half receipt or index failure, 2 transactions | `IndexOwed`, `DecidesWhatWasSeen`, `RefinesDecisions` (each decision is one step of `CaseDecisions`), `Settles` |
| `contain` | 2 processes contain, dismiss, defer and recover a case of 2 items; 1 crash, half receipt or failing step, 1 deletion, 1 day, approvals, maturity | `TypeOK`, `OneOpen`, `BaselineFirst`, `RecoveryRechecks` |
| `sync` | 2 devices, 1 file of one part, 3 edits that may go back, pages of 1, 2 faults: stop, late upload, switch | `TypeOK`, `DesiredIsOwed`, `ReadersMoveForward` |
| `share` | 1 device, 1 file of one or two parts, blank or held back, 2 edits, pages of 2, 1 fault of any other kind than a late upload | `DesiredIsOwed`, `Converges`, `RevocationClears` |
| `loops` | 2 agents, 2 steps, 1 gate, 1 verifier, 7 operations, 1 of them overlapping, 1 crash | `TypeOK`, `VersionsFit`, `StaysReadable`, `JournalIsTrue`, `CompletesWhenClear` |
| `lifecycle` | 2 operators, 3 items, 2 operations of all five kinds, 2 faults of any kind, 1 write by others | `TypeOK`, `AllOrNothing`, `NoNewCycle`, `ArchiveLosesNothing` |
| `skips` | 2 devices, 1 file, 1 edit, no fault | that `CursorNeverSkips` does *not* hold |
| `reverts` | 1 device, 1 file that is held back and restored, no fault | that `Converges` does *not* hold without the conditions of `share` |

The last two end in a counterexample. Each is a place where the code does other
than its comment says (`PROJECT.json`, `findings`; section on divergences).

Why the bounds are enough.

* *Queue.* Every property is about one record, or two that share an id, an item,
  a payload or a title, so two records and one that differs show each case; two
  processes suffice because at most one is inside the locks and the others can
  only wait, plan without locks, or have died. One fault gives every single crash
  point, and what the next drain makes of it. `MaxQueueEntries` (the scan cap) is
  at the number of records, or one below it in `drain`, where an overfull queue
  is refused. There is one batch number more than faults, because each fault can
  leave a batch unfinished. `drain` has no deletions, under which `ExactlyOnce`
  and `RepairsCounted` are too strong; `live` has one. Edits are in `resolve`, whose
  `RefinesBuffer` contains that nothing is lost; the theorems of the other
  properties have them.
* *Index.* A wrong deletion needs one item to keep and one to confuse it with;
  two versions tell an old row from a new one, or a first life of an id from a
  second; two failures and the line that is there fill a marker of two lines
  beyond its cap.
* *Cases.* Two transactions, because a second one shows what an open or corrupt
  first one does; two processes, one in the gap between an unlocked look and
  its locks while the other goes through. A merge target that is not of the case
  gives a chain of replacements. Confidence has one or two steps above nothing.
* *Sync.* One file is one owner's; files do not interact except in the order of
  the outbox, which the parts of one file show as well. A page of one row makes
  every read take several pages; two parts make one grow and shrink. A device
  that reads and one that writes are the two roles. `share` has one device, no late
  upload, one turn of the switch and no file that returns to an earlier text,
  because with any of these the code does not converge: `skips` and `reverts`
  show two of them, the divergences name all.
* *Loops.* A dependency needs two steps. An overlap is dear (`RaceCost`): it
  costs three of the seven operations, which leaves a history long enough to
  block, resume and complete before or after it.
* *Lifecycle.* A cycle that a look at the next item does not find needs three
  items. Two operations: the second meets what the first one left. Two faults:
  a failure, and a failure of its rollback, which is what giving up takes.

The rest (more processes, devices, items, faults) is what the theorems are for.

What the properties say:

* `NoLostWrite`: a record leaves `pending/` only at the hand of a process whose
  operation has kept its content where that operation keeps it.
* `WriteAhead`: neither the pool nor the queue changes at a drain's hand without
  an unfinished receipt that names the record.
* `WorkersReliable`: what a step relies on (locks held, record still queued, md
  there before the ledger, content kept before the unlink). It is the inductive
  core of most proofs about the queue.
* `TruthfulReceipt`: the outcomes that a completed receipt reports are so.
* `RepairsCounted`: receipts name nothing, so what can be true of them is a number:
  the rows that are missing and not in the marker are not more than the repairs
  that completed receipts have counted. Items of unfinished batches are apart: the
  unfinished batch itself is reported.
* `AuditGate`: no path, recovery and retry included, publishes what the audit
  blocked without an approval, and none publishes a secret.
* `ExactlyOnce`, `ResolutionEvidenceOnce`: what a retry must not do again.
* `RefinesBuffer`: all of it together, as the small specification `WriteBuffer`.
* `VerifyKeepsLiveRows`, `SparesOldRows`, `KeepsNewLines`: what each repair may
  never delete, and from which knowledge it is safe. The first excepts an id that
  came back after the second scan (`back`): the code looks at nothing later.
* `OneOpen`, `RecoveryRechecks`: checks made under the locks keep a ledger usable
  although everybody looked at it before; a decision gets a second terminal
  receipt only from the rollback of a failure, never from rival recoveries.
* `BaselineFirst`: what carries the tags of a containment has the content it had
  before them in the ledger, however recoveries overwrote what others wrote.
* `DecidesWhatWasSeen`, `IndexOwed`, `RefinesDecisions`: a decision is made on
  what was previewed, changes the case as a whole, and leaves no row stale
  without a trace.
* `DesiredIsOwed`: what a device last decided about a part is still queued or is
  what the Hub holds. Excepted are erased assets, those whose record came with a
  late upload (`overdue`), and what a withheld file still shares.
* `ReadersMoveForward`: a text that a reader is given is not older than what it had.
* `CursorNeverSkips`: what is behind the cursor is in the replica. It is what the
  code claims; `skips` refutes it, and `OnlyTheGapSkips` says when it holds.
* `VersionsFit`, `StaysReadable`, `JournalIsTrue`: coherence of every version that
  can be read, even with lost updates; crashes alone spoil neither the ledger
  nor the journal. The last two are about operations that do not overlap.
* `CompletesWhenClear`: a contract's run completes its loop only without failed
  verifiers and without gates.
* `AllOrNothing`: if one write, record, read or restore failed, a supersession or
  revert ends with both files changed or both as they were, except for files an
  editor touched. Only after such an edit, or when the rollback meets a second
  failure, is a pair given up as it is, and then the operation says so.
* `NoNewCycle`: no step of a supersession closes a cycle, whatever other writers
  made of the chain before it took the locks, and whatever failed since.
* `ArchiveLosesNothing`: a file is removed only when the archive holds all of it,
  also if the copy is from an interrupted run, and archived copies stay.
* `Converges` (twice), `RepairsConverge`, `Settles`, `RevocationClears`: repeated
  drains, repairs, recoveries and passes finish what is left. `RepairsConverge`
  excepts a marker beyond its cap, and `Settles` a ledger that ends in half a
  receipt: neither is ever dealt with.

## Fairness

* *Drains.* The code starts no drain by itself: `memory sync-pending` is a
  command, and the documents promise only what a *later* one does. `live`
  therefore assumes an operator or a schedule that runs
  `memory sync-pending --safe-only --apply` again and again, that a process which
  can take a step takes it or dies, and that a lock which is free again and again
  is obtained: `flock` is polled until a deadline, and a refused process starts
  over. A hook that opened a file closes it. Nothing is assumed of operators,
  editors or producers.
* *Repairs.* A write that began goes on or its process dies, and each kind of
  repair is run again and again, by the schedule of maintenance or by hand.
* *Cases.* A process that is alive goes on, and an operator tries to recover, again
  and again, what readiness reports as incomplete (strong fairness of
  `ChooseRecovery`: the ledger may be busy in between). Nobody has to survey,
  preview or edit.
* *Sync.* The worker's loop (`worker.py`) starts a pass after each interval and a
  pass goes on: weak fairness of `Work`. A pass may be cut short by its budget,
  after at least one upload and one page. Nothing is assumed of mounts: where a
  mount stays away, nothing is promised of its files.
* `LoopLedger` and `LifecycleReview` have no scheduler; their properties are safety
  only. Faults are finite everywhere.

## Divergences seen while modelling

Behaviour of the code that its documents or comments say otherwise of, or that
surprises. All of it is in the models unless said otherwise; the properties are
stated so as to hold beside it.

Pending queue and index:

* No code moves a poison record to `pending/dead/` (README.md:559,
  docs/architecture.md:47); it stays queued.
* A written record whose item somebody edited is a conflict for ever, because
  the source ledger then disagrees (`write_service.py:997`). `live` has no edits.
* Half a line in the receipt ledger stops every later drain
  (`pending_receipts.py:450`). `live` has none.
* The drift repair deletes rows from an incomplete scan
  (`index_maintenance.py:179`); `SparesOldRows` excludes it.
* Of two repairs at once, the second can clear a line of a later failure
  (`pending.py:1369`); the runs have one at a time.
* Verify compares numbers of files instead of ids, so that a deletion and a
  creation between its scans let it clear the new item's line
  (`index_maintenance.py:104`).
* Between the second scan of verify and its deletions nothing is compared
  (`index_maintenance.py:133`): an id that was deleted and is used again in that
  time (a drain, a recovery) loses the row of its new file.
* A deletion between a crash and a retry creates the item again; two records with
  one payload in one batch are both written; a queue beyond the scan cap, and a
  marker beyond its own, are never worked off.

Cases:

* The maturity pass of the next governance run changes contained items, and with
  it their baseline (`auto_governance.py:235`); every decision of the case but
  deferring it is then refused (README.md:242: dismissals and accepted resolutions
  restore recall).
* A dismissed case that still contradicts is contained again by the next run,
  although only "later edits reopen the Case" (README.md:240).
* `select_authority` on a contained case is always refused: the pair check wants
  a replacement that is not held (`supersession.py:520`).
* Half a receipt, from a crash inside an append, makes its ledger corrupt
  (`contradiction_resolution.py:1222`): no recovery of an open transaction and no
  new transaction starts until somebody repairs the file. `Settles` excepts it.
* The recovery of a containment is not checked again under the locks
  (`contradiction_containment.py:452`); two of them write two terminal receipts,
  after which the ledger is corrupt.
* A process that fails releases the locks before it rolls back
  (`contradiction_resolution.py:550`); a recovery in between gives the second
  terminal receipt that `RecoveryRechecks` admits.
* A recovery overwrites edits made since the crash and creates deleted items again.

Sync:

* `changes()` reads the rows of a page and, for an empty one, `max(seq)` in a read
  of its own (`hub.py:1156`): an upload that commits in between is covered by
  the cursor and never delivered, although client.py:1037 says that the
  cursor cannot skip data and hub.py:1088 that an empty page retains it. This is
  the run `skips`. A late upload does it to a lone reader too, therefore `share`
  has none.
* The worker waits 30 s for an upload (`worker.py:33`; other callers 10 s,
  `transport.py:78`) and then gives up; the Hub may be waiting for its database and
  commit later. Landing after newer content, such an upload can restore an older
  revision that was confirmed as replaced, and nothing in the outbox would correct
  it. `DesiredIsOwed` excepts the asset (`overdue`) until an upload in time has
  confirmed it; the run `sync` has late uploads, and so have the theorems about
  `DesiredIsOwed` and `ReadersMoveForward`.
* The switch of the projection is read from the file at three places of a pass, and
  `recall --enable/--disable` writes it without a lock (`cli.py:1147`). The pass
  compares what it read before and after a request, not the policy it set the
  cache up for. Turned off and on again within a pass, a page of metadata moves
  the cursor beyond texts that the device is to have, or the records of a page
  are stored in part; turned on and off, texts are stored under the policy cloud
  and stay, since the next pass finds the policy unchanged. `sync` has two turns
  of the switch; `share` has one, and `OnlyTheGapSkips` assumes that it rests
  during a pass (`SwitchedAtRest`).
* A file that is held back is withdrawn. Put back to exactly the content it had
  before, it counts as unchanged (`client.py:604`) and stays withdrawn, although
  client.py:608 says that fixing it resumes its sync. This is the run `reverts`; in
  `share` no file returns to an earlier content.
* A file that a new release withholds keeps its copy on the Hub, by design
  (`client.py:715`): its unsent texts are dropped, its unsent withdrawals are not,
  and of these `DesiredIsOwed` still speaks.
* Replicas keep a record that an operator of the Hub purged (`hub.py:1239`).
* A mount that vanishes between the walk and the test of its files makes them
  look deleted; the tombstones are taken back after it returns.

Loops:

* `complete` looks at steps and evidence, not at open gates; only the
  orchestrator does (docs/architecture.md: high-risk actions remain human-gated).
* Evidence of a failure counts as evidence for completion (`loop_state.py:40`).
* A loop that was blocked for its gates stays blocked after their approval, and a
  loop whose only blocked step is cancelled stays blocked.
* A checkpoint announces a restart before it writes one.
* Overlapping operations lose updates, which can undo a completion, and share the
  temporary file, which can leave a partial ledger.

Lifecycle:

* A crash after the obsolete item is marked: the next apply answers
  `already_applied` (`supersession.py:779`) and writes neither the link nor the
  record.
* A revert whose supersession has no record, or a blocked attempt as its last
  one, takes the reference for older and never removes it
  (`lifecycle_ledger.py:137`).
* A crash during the copy leaves a partial file in the archive that blocks every
  later archiving of the item (ARCHIVE_TARGET_EXISTS).
* An append that fails and cannot be truncated can leave an applied record of a
  pair that was rolled back.
* One torn line of the ledger makes every deferral invisible.

## Proofs

All theorems hold for every value of the constants under the named assumptions of
the modules (records are numbered, a stable id determines the record id, records
with one payload have one audit verdict and one type (`TypeFieldAssumption`: the
type is among the fields that `_canonical_payload_sha256` hashes, pending.py:686),
sentinels are no ordinary values, nor what is shown of one, bounds are natural
numbers, `Items`, `Case` and `Outside` are finite), and under the conditions a theorem states itself.

`PendingQueueProofs`:

* `TypeCorrect` and `WorkersAreReliable`: `TypeOK` and `WorkersReliable` are
  inductive, the second with the help of the first. The argument is by the
  holder of the locks: a process inside them is alone (`OneInside`), other
  processes and writers leave what it relies on alone (`Undisturbed`,
  `Outside`), and each step establishes what the next one relies on.
* `NothingLost`: only a process at its unlink step removes a record
  (`Removal`), and there the content is kept, by `WorkersReliable`.
* `AuditHolds`: `AuditGate` is not inductive; a record between its vetting and
  its creation has to be covered, which is `WorkersVetted`.
* `CreatesExactlyOnce`, if nobody deletes items (`MaxDeletes = 0`): the
  strengthening says that an item that was never created was created 0 times
  and an occupied one at most once.
* `DrainImplementsBuffer`, under the same condition: initial states map to
  initial states, and each step to a step of `WriteBuffer` or a stutter.

`PendingReceiptProofs`, on top of these:

* `ReceiptsAreWrittenAhead` from `BatchesReceipted`: while a batch is under way the
  ledger has its prepared receipt, and it names all that is left of the batch.
  `WriteAhead` alone is not inductive, because it looks at one step only.
* `ReceiptsAreTruthful` from `BatchesHonest`: the outcome of a record that a batch
  has finished is true when it is noted and stays true until the batch ends,
  because both locks keep others away from the record and from the item that
  keeps its content (`Undisturbed`).
* `ResolutionsMakeEvidenceOnce` from `DrainsDiscreet`: a plain drain never makes
  sidecars for a record that waits for a decision, so the derived ids of the
  decision are the only ones, however often it is repeated.
* `MissingRowsAreCounted`, if nobody deletes items (`MaxDeletes = 0`), from
  `BatchesRemember`: a record that has left the queue is found again by its item or
  by the twin it was merged into, so no later batch creates the item again, and
  a batch knows of each record it removed that the row is there or owed. Items that
  become missing do so when their batch is completed, and are then no more than
  the repairs that its receipt counts (`CountedStep`). With
  deletions `RepairsCounted` is too strong: once the item of a published record
  is deleted and its row evicted, a drain of a copy creates it again and owes
  the row until its own index step.

`DirtyIndexProofs`, for any number of items, writers and repairs:

* `TypeCorrect`.
* `LiveRowsKept` and `OldRowsSpared` from `ScansOK`: what is upserted was read;
  live items from before a repair are never orphans and always in what is read
  or still to read of a complete scan; an orphan that came to life is met by
  the second scan of verify, or it is one of `back[p]`.
* `NewLinesKept`, for one repair at a time, from `LinesKept`: after the marker
  was read it holds the lines that were read plus those appended since. With two
  repairs it is false (divergences).

`CaseGovernanceProofs`:

* `TypeCorrect` from `Typed`, which also says that a process between its prepared
  and its terminal receipt holds the lock and that the items of its transaction
  are there: nobody deletes inside the locks.
* `OneOpenHolds`: a prepared receipt is appended only to a usable ledger.
* `RecoveriesRecheck` from `Unsettled`: inside the locks a decision that is being
  written or restored has no terminal receipt yet.
* `DecisionsOweTheIndex`, without containments, from `Debts`: an item that was
  written since its row is covered by an open transaction, by a receipt that asks
  for repair, or by the process that will index it.
* `BaselinesFirst` from `Based`: contents in hand and in snapshots that are held
  have a baseline, not only those in the files, because rollbacks write them back.
* `DecisionsAreSeen` from `Faithful`: what is written is the decided content, what
  is still to be written is what was seen.

`CaseDecisionProofs`, for any number of items, reviewers and operators:

* `DecisionsAreAtomic`, without containments and without errors that are handled by
  a rollback (`"contain" \notin Kinds`, `"fail" \notin Faults`): `Spec` implements
  `CaseDecisions`. The abstract content of an item is its file's, or the
  snapshot's in the open transaction that holds it (`View`). The preparation
  swaps the one for the other when they are equal; the writes are out of
  sight; the terminal receipt shows all of them or, after a recovery, none. This
  needs `Steady`: a process that writes finds every item as its snapshot or as its
  plan says (`Ruling`), and one that restores leaves snapshots behind (`Undone`);
  and `Loopless`, since the abstract decision asks that nothing in the case, the
  target itself included, replaces its target. Both conditions are needed: a rollback that comes after
  another operator's recovery takes back what was edited in between, and a
  containment changes tags that `CaseDecisions` does not speak of.

`NativeSyncProofs`, for any number of devices, files and parts:

* `TypeCorrect` from `Inv`: queued rows are decisions (`Queued`),
  uploads and pages in hand are well formed (`Uploads`, `Pages`), revisions count
  changes (`Counted`), changes of an asset are in the order of their revisions and
  the Hub holds the last (`Ordered`), of which alone the log has a text (`OneText`),
  what a replica holds was read from the log (`Sourced`).
* `ReadersForward` from `Fresh`: a text in a page in hand is not older than the
  replica's record, because by `OneText` it is the Hub's record of its asset, or was
  when the page was read and no other page came between.
* `DecisionsAreOwed`, with every fault, from `Acknowledged`: what the Hub has
  confirmed it still holds until the client drops the row, or a late upload landed
  on it and its asset is `overdue`. A row leaves the outbox only then, or when it is
  the text of a withheld file.
* `OnlyTheGapSkips`: `CursorNeverSkips` in every behaviour in which no upload
  commits while a device is between the Hub's two reads of an empty page
  (`NoneInTheGap`) and the switch is turned only between passes
  (`SwitchedAtRest`), with any number of devices and all faults. So the run `skips`
  and the switch within a pass are the only ways to skip a change. The
  invariants are `InStep` (a pass works under the policy that the switch asks for,
  and so do its pages) and `ReadWhole`: a change with its text is in the replica if
  it is behind the cursor, in the replica or in the page in hand if it is behind
  that page's cursor, and not ahead of the cursor at the end of the log.
* `LoneReaderSkipsNothing`: with one device and no late upload (`"late" \notin
  Faults`) the window is never used, because the device's own pass is in it.

`LoopLedgerProofs`, for any number of agents, steps, gates, races and crashes:

* `TypeCorrect` and `LedgersFit` from `AllSound`: every version anywhere, in the two
  files or in memory, is coherent; a lost update replaces a coherent version by
  another.
* `NeverCompletesPastGates` from `GatesSeen`: while a run needs gates, one is still
  to be opened or is open in the version its last operation returned.
* `LedgerStaysReadable` and `JournalTellsTheTruth` from `Quiet`: as long as no two
  operations have overlapped, which is what the two properties are about, at
  most one is under way, what it writes continues what the file has and says
  what its event claims, the temporary file is its own, and every event told is
  true of the file. Crashes are in: what a crash leaves half done is either
  not yet the ledger, or a ledger whose event is never told.

`LifecycleReviewProofs`, for any number of items, operators and faults:

* `TypeCorrect` and `OneAtATime` from `Typed == TypeOK /\ Alone /\ Shapes`. The lemma
  `NextSteps` sorts a step by whose it is: of an operation, of an editor, or of
  somebody the locks keep out; the other proofs are one case each for these.
* `ArchivingLosesNothing` from `Compared`: from the comparison to the unlink, the
  copy equals the file or an editor touched the file.
* `SupersessionsCloseNoCycle` from `Apart`: from the check to the mark, the obsolete
  item has no successor and the replacement's chain ends without it, because
  only bodies change meanwhile. The new chain is then shown to end.
* `BothFilesOrNone` from `Progress`: at each step both files are what that step
  expects, or an editor touched one; giving up untouched files takes a failure of
  the operation and one of its rollback.

Every invariant and every action property that a passing run checks has a theorem, some under the
conditions stated with them, and so have both refinements. Only model-checked are the liveness properties
`Converges` (of the queue and of the sync), `RepairsConverge`, `Settles` and
`RevocationClears`, which are beyond this prover.

## Not modelled

Recall, context assembly, ranking, embeddings, validity and the reports are
computations without protocol state. Signal resolution and the rest of the review
transactions repeat the skeleton of `CaseGovernance` with other evidence and are
planned. Encrypted and history sync, and the projection of shared memories into
other products' directories, are protocols of their own, planned for later.
Adapters, installers, CLI parsing, web pages, benchmarks and packaging, which are
most of the repository's lines, hold no state that the properties are about. Path
and file-descriptor hardening is I/O.
