----------------------------- MODULE NativeSync -----------------------------
(***************************************************************************)
(* The sharing of memory files between the devices of an organization      *)
(* (agent_brain/native_sync).  Each device runs one worker whose passes    *)
(* scan the files it owns into a durable outbox, upload the outbox to the  *)
(* Hub, and read the Hub's change log back into a replica.  A file is cut  *)
(* into parts and every part is an asset of its own with revisions, which  *)
(* the Hub accepts only on top of the revision it has.                     *)
(*                                                                         *)
(* A transaction of the client's or the Hub's SQLite database is one step; *)
(* everything else interleaves, and a pass may stop between any two steps. *)
(***************************************************************************)
EXTENDS Integers, Sequences, FiniteSets, FiniteSetsExt

CONSTANTS
  Device,       \* the enrolled devices
  Doc,          \* the selected memory files, over all devices
  Owner,        \* the device of each file
  Content,      \* what a file can hold
  Parts,        \* the number of parts of a content; 0 is a blank memory
  MaxParts,
  Blocked,      \* the contents the screen holds back
  Page,         \* rows per page of the change log
  Faults,       \* the kinds of fault that may happen
  MaxFaults,    \* how many happen in all
  MaxEdits,     \* edits of the files in all
  Reverts       \* may a file return to a content it had before?

Asset == Doc \X (1..MaxParts)

ASSUME SyncAssumption ==
  /\ Owner \in [Doc -> Device]
  /\ Parts \in [Content -> 0..MaxParts]
  /\ MaxParts \in Nat
  /\ Blocked \subseteq Content
  /\ Page \in Nat \ {0}
  /\ MaxFaults \in Nat /\ MaxEdits \in Nat
  /\ Reverts \in BOOLEAN
  /\ "absent" \notin Content /\ "none" \notin Content /\ "deleted" \notin Content

VARIABLES
  file,      \* the content of each file, or "absent"
  written,   \* the contents each file has had
  mounted,   \* whether the directory of a device's files is there
  withheld,  \* the files that the installed release no longer shares
  snap,      \* snapshots.hash: the content last queued, "none" or "deleted"
  part,      \* source_parts: the last desired state of each asset
  outbox,    \* the row queued for each asset
  refused,   \* outbox_rejections: the row that was refused
  earlier,   \* the assets whose refusal is older than this asset's
  cursor,    \* meta.cursor: how far the change log was applied
  replica,   \* the records of the other devices and of one's own
  mode,      \* meta.storage-policy-v1
  wants,     \* config.json: may shared memories be kept on the device?
  pass,      \* the memory of the running pass
  store,     \* Hub: the current record of each asset
  log,       \* Hub: the changes
  revoked,   \* Hub: the devices that may no longer call
  late,      \* uploads the client gave up on and the Hub has not handled
  overdue,   \* history: the assets whose record came with such an upload
  edits, faults

sources == <<file, written, mounted, withheld, edits>>
refusals == <<refused, earlier>>
queue   == <<snap, part, outbox, refused, earlier>>
recall  == <<cursor, replica, mode>>
hub     == <<store, log, revoked, overdue>>
vars    == <<sources, queue, recall, hub, wants, pass, late, faults>>

NoPart  == [rev |-> -1]
NoRow   == [base |-> -1]
NoRec   == [rev |-> 0]
NoPage  == [items |-> {}, cursor |-> -1, bodies |-> FALSE]
NoReply == [kind |-> "none", rev |-> -1]

Row     == [asset : Asset, base : Nat, ver : Content, deleted : BOOLEAN]
PartRow == [rev : Nat, ver : Content, deleted : BOOLEAN]
Rec     == [asset : Asset, rev : Nat, ver : Content, deleted : BOOLEAN,
            text : {"kept", "scrubbed", "purged", "metadata"}]
Change  == [seq : Nat, rec : Rec]

NoReplica == [a \in Asset |-> NoRec]
Idle == [at |-> "idle", left |-> {}, listed |-> {}, todo |-> {}, row |-> NoRow,
         tried |-> FALSE, reply |-> NoReply, page |-> NoPage]

Mine(d)     == {a \in Asset : Owner[a[1]] = d}
DocsOf(d)   == {m \in Doc : Owner[m] = d}
PartsOf(m)  == {a \in Asset : a[1] = m /\ part[a] # NoPart}
At(d, where) == pass[d].at = where

Init ==
  /\ file = [m \in Doc |-> "absent"]
  /\ written = [m \in Doc |-> {}]
  /\ mounted = [d \in Device |-> TRUE]
  /\ withheld = {}
  /\ snap = [m \in Doc |-> "none"]
  /\ part = [a \in Asset |-> NoPart]
  /\ outbox = [a \in Asset |-> NoRow]
  /\ refused = [a \in Asset |-> NoRow]
  /\ earlier = [a \in Asset |-> {}]
  /\ cursor = [d \in Device |-> 0]
  /\ replica = [d \in Device |-> NoReplica]
  /\ wants \in [Device -> BOOLEAN]
  /\ mode = [d \in Device |-> IF wants[d] THEN "projection" ELSE "cloud"]
  /\ pass = [d \in Device |-> Idle]
  /\ store = [a \in Asset |-> NoRec]
  /\ log = <<>>
  /\ revoked = {}
  /\ late = {} /\ overdue = {}
  /\ edits = 0 /\ faults = 0

Fault(kind) == kind \in Faults /\ faults < MaxFaults /\ faults' = faults + 1

-----------------------------------------------------------------------------
(* The world around the workers.                                           *)

Edit(m, c) ==
  /\ edits < MaxEdits /\ edits' = edits + 1
  /\ file[m] # c /\ (Reverts \/ c \notin written[m])
  /\ mounted[Owner[m]]
  /\ file' = [file EXCEPT ![m] = c]
  /\ written' = [written EXCEPT ![m] = @ \cup {c}]
  /\ UNCHANGED <<mounted, withheld, queue, recall, hub, wants, pass, late, faults>>

Remove(m) ==
  /\ edits < MaxEdits /\ edits' = edits + 1
  /\ file[m] # "absent" /\ mounted[Owner[m]]
  /\ file' = [file EXCEPT ![m] = "absent"]
  /\ UNCHANGED <<written, mounted, withheld, queue, recall, hub, wants, pass, late, faults>>

Unmount(d) ==
  /\ Fault("unmount") /\ mounted[d] /\ DocsOf(d) # {}
  /\ mounted' = [mounted EXCEPT ![d] = FALSE]
  /\ UNCHANGED <<file, written, withheld, edits, queue, recall, hub, wants, pass, late>>

Mount(d) ==
  /\ ~mounted[d]
  /\ mounted' = [mounted EXCEPT ![d] = TRUE]
  /\ UNCHANGED <<file, written, withheld, edits, queue, recall, hub, wants, pass, late, faults>>

(* A new release of the program withholds a file that the old one shared;  *)
(* the worker is started anew.                                             *)
Upgrade(m) ==
  /\ Fault("upgrade") /\ m \notin withheld
  /\ withheld' = withheld \cup {m}
  /\ pass' = [pass EXCEPT ![Owner[m]] = Idle]
  /\ UNCHANGED <<file, written, mounted, edits, queue, recall, hub, wants, late>>

(* The member switches the keeping of shared memories on or off: the file  *)
(* is rewritten while a pass runs, and holds no lock.                      *)
Toggle(d) ==
  /\ Fault("toggle")
  /\ wants' = [wants EXCEPT ![d] = ~@]
  /\ UNCHANGED <<sources, queue, recall, hub, pass, late>>

-----------------------------------------------------------------------------
(* The Hub.                                                                *)

Same(rec, row) == rec # NoRec /\ rec.ver = row.ver /\ rec.deleted = row.deleted
OnTopOrBehind(rec, row) == row.base <= rec.rev   \* mutant: no conflict is seen
OnTop(rec, row) == row.base = rec.rev

Scrubbed(changes, a, rev) ==
  [i \in DOMAIN changes |->
     IF changes[i].asset = a /\ changes[i].rev < rev /\ changes[i].text = "kept"
     THEN [changes[i] EXCEPT !.text = "scrubbed"] ELSE changes[i]]

(* A new revision: the texts of the older ones leave the log.              *)
Accept(row) ==
  LET rec == [asset |-> row.asset, rev |-> row.base + 1, ver |-> row.ver,
              deleted |-> row.deleted, text |-> "kept"]
  IN  /\ store' = [store EXCEPT ![row.asset] = rec]
      /\ log' = Append(Scrubbed(log, row.asset, rec.rev), rec)

(* Equal content is the replay of a lost answer and is asked first.        *)
Answer(row) ==
  IF Same(store[row.asset], row) THEN [kind |-> "saved", rev |-> store[row.asset].rev]
  ELSE IF OnTop(store[row.asset], row) THEN [kind |-> "saved", rev |-> row.base + 1]
  ELSE [kind |-> "refused", rev |-> -1]

Put(row) ==
  IF ~Same(store[row.asset], row) /\ OnTop(store[row.asset], row)
  THEN Accept(row) ELSE UNCHANGED <<store, log>>

(* An operator erases every revision of an asset.                          *)
Purge(a) ==
  /\ Fault("purge") /\ store[a] # NoRec
  /\ store' = [store EXCEPT ![a] = NoRec]
  /\ log' = [i \in DOMAIN log |->
               IF log[i].asset = a
               THEN [log[i] EXCEPT !.text = "purged", !.deleted = TRUE] ELSE log[i]]
  /\ UNCHANGED <<sources, queue, recall, revoked, overdue, wants, pass, late>>

Revoke(d) ==
  /\ Fault("revoke") /\ d \notin revoked
  /\ revoked' = revoked \cup {d}
  /\ UNCHANGED <<sources, queue, recall, store, log, overdue, wants, pass, late>>

(* An upload reaches the Hub after its client gave up waiting.             *)
Arrive(row) ==
  /\ row \in late /\ late' = late \ {row}
  /\ IF Owner[row.asset[1]] \in revoked THEN UNCHANGED <<store, log>> ELSE Put(row)
  /\ overdue' = IF store' = store THEN overdue ELSE overdue \cup {row.asset}
  /\ UNCHANGED <<sources, queue, recall, revoked, wants, pass, faults>>

(* One page of changes.  A reader of bodies is not shown revisions whose   *)
(* text is gone, and rows without anything else are read over: an empty    *)
(* page means that the reader has caught up.                               *)
Shown(rec, bodies) == IF bodies THEN rec ELSE [rec EXCEPT !.text = "metadata"]

Ahead(from, bodies) == {i \in DOMAIN log : i > from /\ (bodies => log[i].text = "kept")}

Changes(from, bodies) ==
  LET ahead == Ahead(from, bodies)
      first == Min(ahead)
      skip  == from + ((first - from - 1) \div Page) * Page
      end   == Min({skip + Page, Len(log)})
  IN  [items |-> {[seq |-> i, rec |-> Shown(log[i], bodies)] : i \in {j \in ahead : j <= end}},
       cursor |-> end, bodies |-> bodies]

-----------------------------------------------------------------------------
(* The pass of a device's worker.                                          *)

(* A changed projection policy: shared bodies and the cursor leave in one  *)
(* transaction, and the new policy is recorded in a later one.             *)
ClearForPolicy(d) ==
  /\ cursor' = [cursor EXCEPT ![d] = 0]
  /\ replica' = IF wants[d] THEN replica ELSE [replica EXCEPT ![d] = NoReplica]

Policy(d) == IF wants[d] THEN "projection" ELSE "cloud"

ConfigureStorage(d) ==
  IF mode[d] = Policy(d) THEN UNCHANGED recall
  ELSE ClearForPolicy(d) /\ mode' = [mode EXCEPT ![d] = Policy(d)]

(* The pass starts: a missing mount is skipped, otherwise the tree is      *)
(* walked.                                                                 *)
Begin(d) ==
  /\ At(d, "idle")
  /\ ConfigureStorage(d)
  /\ pass' = [pass EXCEPT ![d] =
       IF mounted[d]
       THEN [Idle EXCEPT !.at = "walk",
                         !.listed = {m \in DocsOf(d) \ withheld : file[m] # "absent"}]
       ELSE [Idle EXCEPT !.at = "me"]]
  /\ UNCHANGED <<sources, queue, hub, wants, late, faults>>

(* The files that are left to scan; after the last one the Hub is asked.   *)
ToScan(p) == IF p.left = {} THEN [Idle EXCEPT !.at = "me"] ELSE [p EXCEPT !.at = "scan"]

(* Of the names found, those that still are files are kept.                *)
List(d) ==
  /\ At(d, "walk")
  /\ pass' = [pass EXCEPT ![d] =
       ToScan([pass[d] EXCEPT !.left = DocsOf(d),
                              !.listed = {m \in @ : mounted[d] /\ file[m] # "absent"}])]
  /\ UNCHANGED <<sources, queue, recall, hub, wants, late, faults>>

Tombstone(a, rev) ==
  [asset |-> a, base |-> rev, ver |-> part[a].ver, deleted |-> TRUE]

(* queue_delete, for a set of assets in one transaction *)
QueueDelete(gone) ==
  /\ part' = [a \in Asset |-> IF a \in gone THEN [part[a] EXCEPT !.deleted = TRUE] ELSE part[a]]
  /\ outbox' = [a \in Asset |-> IF a \in gone THEN Tombstone(a, part[a].rev) ELSE outbox[a]]

KnownAlways(a) == part[a].rev   \* mutant: a new part has no row yet
Known(a) == IF part[a] = NoPart THEN 0 ELSE part[a].rev

(* enqueue_document: a row for each part, and tombstones for the parts a   *)
(* longer version had.                                                     *)
EnqueueDocument(m, c) ==
  LET live == {m} \X (1..Parts[c])
      tail == PartsOf(m) \ live
  IN  /\ part' = [a \in Asset |->
             IF a \in live THEN [rev |-> Known(a), ver |-> c, deleted |-> FALSE]
             ELSE IF a \in tail THEN [part[a] EXCEPT !.deleted = TRUE] ELSE part[a]]
      /\ outbox' = [a \in Asset |->
             IF a \in live
             THEN [asset |-> a, base |-> Known(a), ver |-> c, deleted |-> FALSE]
             ELSE IF a \in tail THEN Tombstone(a, part[a].rev) ELSE outbox[a]]

ScanFile(d, m) ==
  LET c == file[m]
  IN  IF c = "absent" \/ ~mounted[d] \/ snap[m] = c THEN UNCHANGED <<snap, part, outbox>>
      ELSE IF c \in Blocked
      THEN /\ QueueDelete(IF snap[m] = "none" THEN {} ELSE {a \in PartsOf(m) : ~part[a].deleted})
           /\ UNCHANGED snap
      ELSE IF Parts[c] = 0
      THEN /\ QueueDelete(IF snap[m] = "none" THEN {} ELSE PartsOf(m))
           /\ snap' = [snap EXCEPT ![m] = IF @ = "none" THEN @ ELSE c]
      ELSE EnqueueDocument(m, c) /\ snap' = [snap EXCEPT ![m] = c]

(* A file that is withheld stays on the Hub: only what was not sent goes.  *)
DropQueued(m) ==   \* mutant: also what is to be withdrawn
  outbox' = [a \in Asset |-> IF a \in PartsOf(m) THEN NoRow ELSE outbox[a]]

DropUnsent(m) ==
  outbox' = [a \in Asset |->
               IF a \in PartsOf(m) /\ outbox[a] # NoRow /\ ~outbox[a].deleted
               THEN NoRow ELSE outbox[a]]

(* Any other selected file that was not listed has disappeared.            *)
ScanMissing(m) ==
  LET done(a) == /\ snap[m] = "deleted" /\ part[a].deleted
                 /\ outbox[a] # NoRow => outbox[a].deleted
  IN  IF snap[m] = "none" THEN UNCHANGED <<snap, part, outbox>>
      ELSE IF m \in withheld /\ mounted[Owner[m]] /\ file[m] # "absent"
      THEN DropUnsent(m) /\ UNCHANGED <<snap, part>>
      ELSE /\ QueueDelete({a \in PartsOf(m) : ~done(a)})
           /\ snap' = [snap EXCEPT ![m] = "deleted"]

Scan(d, m) ==
  /\ At(d, "scan") /\ m \in pass[d].left
  /\ m \notin pass[d].listed => pass[d].left \cap pass[d].listed = {}
  /\ IF m \in pass[d].listed THEN ScanFile(d, m) ELSE ScanMissing(m)
  /\ pass' = [pass EXCEPT ![d] = ToScan([pass[d] EXCEPT !.left = @ \ {m}])]
  /\ UNCHANGED <<sources, refusals, recall, hub, wants, late, faults>>

(* The Hub rejects the device: the pass ends and revoke_local clears what  *)
(* was shared with it, but neither its files nor its outbox.               *)
DeniedOnly(d) ==   \* mutant: nothing is cleared
  /\ pass[d].at \in {"me", "push", "sent", "pull"} /\ d \in revoked
  /\ pass' = [pass EXCEPT ![d] = Idle]
  /\ UNCHANGED <<sources, queue, recall, hub, wants, late, faults>>

Denied(d) ==
  /\ pass[d].at \in {"me", "push", "sent", "pull"} /\ d \in revoked
  /\ pass' = [pass EXCEPT ![d] = Idle]
  /\ replica' = [replica EXCEPT ![d] = NoReplica]
  /\ cursor' = [cursor EXCEPT ![d] = 0]
  /\ UNCHANGED <<sources, queue, mode, hub, wants, late, faults>>

(* The rows that are left to upload; after the last one the log is read.   *)
ToPush(p) == IF p.todo = {} THEN [Idle EXCEPT !.at = "pull"]
             ELSE [p EXCEPT !.at = "push", !.row = NoRow, !.reply = NoReply]

(* Refusals of rows that were saved or replaced are forgotten.             *)
Forget(gone) ==
  /\ refused' = [a \in Asset |-> IF a \in gone THEN NoRow ELSE refused[a]]
  /\ earlier' = [a \in Asset |-> IF a \in gone THEN {} ELSE earlier[a] \ gone]

(* The Hub knows the device; what is queued now is what this pass uploads. *)
Connect(d) ==
  /\ At(d, "me") /\ d \notin revoked
  /\ Forget({a \in Mine(d) : refused[a] # outbox[a]})
  /\ pass' = [pass EXCEPT ![d] =
       ToPush([@ EXCEPT !.todo = {outbox[a] : a \in Mine(d)} \ {NoRow}])]
  /\ UNCHANGED <<sources, snap, part, outbox, recall, hub, wants, late, faults>>

(* Rows that were refused before go last, the oldest refusal first.        *)
InAnyTurn(d) == pass[d].todo   \* mutant: refusals keep their place

InTurn(d) ==
  LET again == {row \in pass[d].todo : refused[row.asset] = row}
      fresh == pass[d].todo \ again
  IN  IF fresh # {} THEN fresh
      ELSE {row \in again : \A other \in again : other.asset \notin earlier[row.asset]}

Send(d) ==
  /\ At(d, "push")
  /\ \E row \in InTurn(d) :
       pass' = [pass EXCEPT ![d].at = "sent", ![d].row = row, ![d].tried = TRUE,
                            ![d].todo = @ \ {row}]
  /\ UNCHANGED <<sources, queue, recall, hub, wants, late, faults>>

Commit(d) ==
  /\ At(d, "sent") /\ d \notin revoked
  /\ Put(pass[d].row)
  /\ overdue' = IF Answer(pass[d].row).kind = "saved" THEN overdue \ {pass[d].row.asset} ELSE overdue
  /\ pass' = [pass EXCEPT ![d].at = "answered", ![d].reply = Answer(pass[d].row)]
  /\ UNCHANGED <<sources, queue, recall, revoked, wants, late, faults>>

(* The outbox row goes only if it still is the one that was sent.          *)
Saved(d) ==
  /\ At(d, "answered") /\ pass[d].reply.kind = "saved"
  /\ LET a == pass[d].row.asset
     IN  /\ part' = [part EXCEPT ![a].rev = pass[d].reply.rev]
         /\ outbox' = [outbox EXCEPT ![a] = IF @ = pass[d].row THEN NoRow ELSE @]
         /\ Forget({a})
  /\ pass' = [pass EXCEPT ![d] = ToPush(@)]
  /\ UNCHANGED <<sources, snap, recall, hub, wants, late, faults>>

RefusedForGood(d) ==   \* mutant: what the Hub refuses is dropped
  /\ At(d, "answered") /\ pass[d].reply.kind = "refused"
  /\ outbox' = [outbox EXCEPT ![pass[d].row.asset] = NoRow]
  /\ pass' = [pass EXCEPT ![d] = ToPush(@)]
  /\ UNCHANGED <<sources, snap, part, refusals, recall, hub, wants, late, faults>>

Refused(d) ==
  /\ At(d, "answered") /\ pass[d].reply.kind = "refused"
  /\ LET a == pass[d].row.asset
     IN  /\ refused' = [refused EXCEPT ![a] = pass[d].row]
         /\ earlier' = [b \in Asset |->
              IF b = a THEN {c \in Mine(d) \ {a} : refused[c] # NoRow} ELSE earlier[b] \ {a}]
  /\ pass' = [pass EXCEPT ![d] = ToPush(@)]
  /\ UNCHANGED <<sources, snap, part, outbox, recall, hub, wants, late, faults>>

(* The budget of the pass is spent after at least one upload.              *)
Defer(d) ==
  /\ At(d, "push") /\ pass[d].tried
  /\ pass' = [pass EXCEPT ![d] = [Idle EXCEPT !.at = "pull"]]
  /\ UNCHANGED <<sources, queue, recall, hub, wants, late, faults>>

(* The switch is read from the file for every request.                     *)
Fetch(d) ==
  /\ At(d, "pull") /\ d \notin revoked
  /\ Ahead(cursor[d], wants[d]) # {}
  /\ pass' = [pass EXCEPT ![d].at = "fetched", ![d].page = Changes(cursor[d], wants[d])]
  /\ UNCHANGED <<sources, queue, recall, hub, wants, late, faults>>

(* For an empty page the Hub asks for the last sequence number afterwards, *)
(* in a read of its own.                                                   *)
FetchNothing(d) ==
  /\ At(d, "pull") /\ d \notin revoked
  /\ Ahead(cursor[d], wants[d]) = {}
  /\ pass' = [pass EXCEPT ![d].at = "ended", ![d].page = [NoPage EXCEPT !.bodies = wants[d]]]
  /\ UNCHANGED <<sources, queue, recall, hub, wants, late, faults>>

LastSeq(d) ==
  /\ At(d, "ended")
  /\ pass' = [pass EXCEPT ![d].at = "fetched", ![d].page.cursor = Max({cursor[d], Len(log)})]
  /\ UNCHANGED <<sources, queue, recall, hub, wants, late, faults>>

(* The switch is read again once the page is there: if it is as it was for *)
(* the request the page is used, whatever policy the cache was set up for; *)
(* if not, the page is dropped.                                            *)
Check(d) ==
  /\ At(d, "fetched") /\ pass[d].page.bodies = wants[d]
  /\ pass' = [pass EXCEPT ![d].at = "checked"]
  /\ UNCHANGED <<sources, queue, recall, hub, wants, late, faults>>

Refetch(d) ==
  /\ At(d, "fetched") /\ pass[d].page.bodies # wants[d]
  /\ ConfigureStorage(d)
  /\ pass' = [pass EXCEPT ![d].at = "pull", ![d].page = NoPage]
  /\ UNCHANGED <<sources, queue, hub, wants, late, faults>>

About(items, a) == {change \in items : change.rec.asset = a}
Latest(items, a) ==
  (CHOOSE last \in About(items, a) : \A change \in About(items, a) : change.seq <= last.seq).rec

(* One's own records repair the revisions a lost answer left behind, and   *)
(* a local tombstone is queued again when the Hub shows the asset live.    *)
ReplayOwn(d, items) ==
  LET seen(a)   == {change.rec.rev : change \in About(items, a)}
      rev(a)    == Max({part[a].rev} \cup seen(a))
      own(a)    == a \in Mine(d) /\ About(items, a) # {}
      revive(a) == part[a].deleted /\ \E change \in About(items, a) : ~change.rec.deleted
  IN  /\ part' = [a \in Asset |->
           IF own(a) /\ part[a] # NoPart THEN [part[a] EXCEPT !.rev = rev(a)] ELSE part[a]]
      /\ outbox' = [a \in Asset |->
           IF own(a) /\ part[a] # NoPart /\ revive(a) THEN Tombstone(a, rev(a))
           ELSE IF own(a) /\ outbox[a] # NoRow
           THEN [outbox[a] EXCEPT !.base = Max({@} \cup seen(a))]
           ELSE outbox[a]]

(* The page's records and its cursor are one transaction; a record of the  *)
(* page is kept if the switch is on when its turn comes.                   *)
ApplyPage(d, kept) ==
  LET page == pass[d].page
  IN  /\ ReplayOwn(d, page.items)
      /\ replica' = [replica EXCEPT ![d] = [a \in Asset |->
                       IF About(kept, a) = {} THEN @[a] ELSE Latest(kept, a)]]
      /\ cursor' = [cursor EXCEPT ![d] = page.cursor]
      /\ pass' = [pass EXCEPT ![d] = [Idle EXCEPT
           !.at = IF page.items = {} THEN "pulled" ELSE "pull", !.tried = TRUE]]
      /\ UNCHANGED <<sources, snap, refusals, mode, hub, late>>

Apply(d) ==
  /\ At(d, "checked")
  /\ ApplyPage(d, IF wants[d] THEN pass[d].page.items ELSE {})
  /\ UNCHANGED <<wants, faults>>

(* The member uses the switch while the records of a page are stored.      *)
SwitchInApply(d) ==
  /\ Fault("toggle") /\ At(d, "checked")
  /\ \E before \in SUBSET pass[d].page.items :
       /\ \A one \in before, other \in pass[d].page.items \ before : one.seq < other.seq
       /\ ApplyPage(d, IF wants[d] THEN before ELSE pass[d].page.items \ before)
  /\ wants' = [wants EXCEPT ![d] = ~@]

(* The log is read, or the budget is spent after at least one page.        *)
Finish(d) ==
  /\ At(d, "pulled") \/ (At(d, "pull") /\ pass[d].tried)
  /\ ConfigureStorage(d)
  /\ pass' = [pass EXCEPT ![d] = Idle]
  /\ UNCHANGED <<sources, queue, hub, wants, late, faults>>

(* A crash, an unreachable Hub or a lost answer: the pass is over.         *)
Stop(d) ==
  /\ Fault("stop") /\ ~At(d, "idle")
  /\ pass' = [pass EXCEPT ![d] = Idle]
  /\ UNCHANGED <<sources, queue, recall, hub, wants, late>>

(* Any process of the device that opens the client follows a changed       *)
(* policy when no pass holds the lock.                                     *)
Configure(d) ==
  /\ At(d, "idle") /\ mode[d] # Policy(d)
  /\ ConfigureStorage(d)
  /\ UNCHANGED <<sources, queue, hub, wants, pass, late, faults>>

(* A crash between the two transactions of a policy change.                *)
StopInConfigure(d) ==
  /\ Fault("stop") /\ At(d, "idle") /\ mode[d] # Policy(d)
  /\ ClearForPolicy(d)
  /\ UNCHANGED <<sources, queue, mode, hub, wants, pass, late>>

(* The client stops waiting for an upload that the Hub has not handled.    *)
TimeOut(d) ==
  /\ Fault("late") /\ At(d, "sent")
  /\ late' = late \cup {pass[d].row}
  /\ pass' = [pass EXCEPT ![d] = Idle]
  /\ UNCHANGED <<sources, queue, recall, hub, wants>>

Work(d) ==
  \/ Begin(d) \/ List(d) \/ (\E m \in Doc : Scan(d, m))
  \/ Denied(d) \/ Connect(d) \/ Send(d) \/ Commit(d) \/ Saved(d) \/ Refused(d)
  \/ Defer(d) \/ Fetch(d) \/ FetchNothing(d) \/ LastSeq(d)
  \/ Check(d) \/ Refetch(d) \/ Apply(d) \/ Finish(d)

World ==
  \/ \E m \in Doc : Remove(m) \/ Upgrade(m) \/ \E c \in Content : Edit(m, c)
  \/ \E d \in Device : Unmount(d) \/ Mount(d) \/ Toggle(d) \/ Revoke(d)
  \/ \E a \in Asset : Purge(a)
  \/ \E row \in late : Arrive(row)
  \/ \E d \in Device : Stop(d) \/ Configure(d) \/ StopInConfigure(d) \/ TimeOut(d) \/ SwitchInApply(d)

Next == World \/ \E d \in Device : Work(d)

Spec == Init /\ [][Next]_vars

(* The worker's loop starts a pass again and again, and a pass goes on.    *)
FairSpec == Spec /\ \A d \in Device : WF_vars(Work(d))
=============================================================================
