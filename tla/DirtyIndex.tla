------------------------------ MODULE DirtyIndex ------------------------------
(***************************************************************************)
(* The markdown pool, the derived index, the .index-dirty marker and the   *)
(* three repairs that bring them back together: `memory reindex`,          *)
(* `memory verify --repair` and the drift repair of automatic governance   *)
(* (interfaces/cli/commands/index_maintenance.py).                         *)
(*                                                                         *)
(* No lock spans a repair.  A writer changes one md file, then the index,  *)
(* then perhaps the marker; a repair reads the files one by one; each      *)
(* upsert, delete or prune of the index is one SQLite transaction; append  *)
(* and clear of the marker are serialised by its own lock file.            *)
(* The content of an item is the version of its last write, 0 when there   *)
(* is no file or row.  Supersession edges are left out.                    *)
(***************************************************************************)
EXTENDS Integers, FiniteSets, FiniteSetsExt

CONSTANTS
  Items, Writers, Repairers,
  Repairs,      \* the kinds of repair that run
  NoItem,
  MaxLines,     \* MAX_DIRTY_INDEX_ENTRIES: a longer marker reads as corrupt
  Present,      \* the items that are there at the start, each with its row
  EarlierLines, \* [Items -> lines in the marker at the start]
  MaxVersion,   \* [Items -> bound on the creations and changes of the item]
  MaxFaults     \* bound on failed operations and deaths of processes

ASSUME RepairsAssumption == Repairs \subseteq {"reindex", "verify", "drift"}
ASSUME ItemsAssumption == IsFiniteSet(Items) /\ NoItem \notin Items
ASSUME BoundsAssumption ==
  /\ MaxLines \in Nat /\ MaxFaults \in Nat
  /\ Present \subseteq Items
  /\ EarlierLines \in [Items -> Nat] /\ MaxVersion \in [Items -> Nat]

VARIABLES
  md,        \* [Items -> version of the md file]
  index,     \* [Items -> version the row was made from]
  marker,    \* [Items -> number of its lines in .index-dirty]
  work,      \* [Writers -> what is left of the write in hand]
  run,       \* [Repairers -> the repair in hand]
  faults,
  last,      \* [Items -> the last version written, 0 when the id was never used]
  \* history, read by properties only
  since,     \* [Repairers -> lines appended since the repair read the marker]
  old,       \* [Repairers -> items live ever since the repair began]
  back       \* [Repairers -> ids used again since the repair listed the files]

vars == <<md, index, marker, work, run, faults, last, since, old, back>>

Live == {i \in Items : md[i] # 0}
Indexed == {i \in Items : index[i] # 0}
Lines(m) == MapThenSumSet(LAMBDA i : m[i], Items)
Corrupt == Lines(marker) > MaxLines
NoLines == [i \in Items |-> 0]
Marked(m) == {i \in Items : m[i] # 0}

Fault == faults < MaxFaults /\ faults' = faults + 1
NoFault == faults' = faults

NoWork == [step |-> "idle", item |-> NoItem, version |-> 0]
Idle == [kind |-> "none", pc |-> "idle", snap |-> NoLines, ids |-> {}, missing |-> {},
         orphans |-> {}, todo |-> {}, seen |-> {}, whole |-> TRUE, got |-> NoLines, due |-> {}]

Init ==
  /\ md = [i \in Items |-> IF i \in Present THEN 1 ELSE 0]
  /\ index = md /\ last = md
  /\ marker = EarlierLines
  /\ work = [w \in Writers |-> NoWork]
  /\ run = [p \in Repairers |-> Idle]
  /\ faults = 0
  /\ since = [p \in Repairers |-> NoLines]
  /\ old = [p \in Repairers |-> {}]
  /\ back = [p \in Repairers |-> {}]

-----------------------------------------------------------------------------
(* Writers.  The md file first, then the row.                              *)

Hand(w, step, i, v) ==
  /\ work[w] = NoWork
  /\ work' = [work EXCEPT ![w] = [step |-> step, item |-> i, version |-> v]]
Done(w) == work' = [work EXCEPT ![w] = NoWork]
Leave(i) == old' = [p \in Repairers |-> old[p] \ {i}]

\* WriteService.write.  A drain and the recovery of a contradiction case make an
\* item under an id that is fixed beforehand, so a deleted id may come back.
Create(w, i) ==
  /\ md[i] = 0 /\ last[i] < MaxVersion[i]
  /\ md' = [md EXCEPT ![i] = last[i] + 1]
  /\ last' = [last EXCEPT ![i] = @ + 1]
  /\ back' = IF last[i] = 0 THEN back ELSE [p \in Repairers |-> back[p] \cup {i}]
  /\ Hand(w, "index", i, last[i] + 1)
  /\ UNCHANGED <<index, marker, run, faults, since, old>>

\* `memory update` gives up when the upsert fails ("update"), an import that
\* overwrites records the item in the marker ("index")
Change(w, i, step) ==
  /\ md[i] # 0 /\ last[i] < MaxVersion[i]
  /\ md' = [md EXCEPT ![i] = last[i] + 1]
  /\ last' = [last EXCEPT ![i] = @ + 1]
  /\ Hand(w, step, i, last[i] + 1)
  /\ UNCHANGED <<index, marker, run, faults, since, old, back>>

Delete(w, i) ==
  /\ md[i] # 0
  /\ md' = [md EXCEPT ![i] = 0]
  /\ Hand(w, "evict", i, 0)
  /\ Leave(i)
  /\ UNCHANGED <<index, marker, run, faults, last, since, back>>

\* the upsert of the version this writer wrote, or the eviction of the row
Project(w) ==
  /\ work[w].step \in {"index", "update", "evict"}
  /\ index' = [index EXCEPT ![work[w].item] = work[w].version]
  /\ Done(w)
  /\ UNCHANGED <<md, marker, run, faults, last, since, old, back>>

ProjectFails(w) ==
  /\ work[w].step \in {"index", "update", "evict"} /\ Fault
  /\ IF work[w].step = "index" THEN work' = [work EXCEPT ![w].step = "mark"] ELSE Done(w)
  /\ UNCHANGED <<md, index, marker, run, last, since, old, back>>

\* append_dirty_index_marker
AppendLine(w) ==
  /\ work[w].step = "mark"
  /\ marker' = [marker EXCEPT ![work[w].item] = @ + 1]
  /\ since' = [p \in Repairers |-> [since[p] EXCEPT ![work[w].item] = @ + 1]]
  /\ Done(w)
  /\ UNCHANGED <<md, index, run, faults, last, old, back>>

\* the process dies, or the line cannot be appended, which nobody is told
WriterStops(w) ==
  /\ work[w].step # "idle" /\ Fault
  /\ Done(w)
  /\ UNCHANGED <<md, index, marker, run, last, since, old, back>>

-----------------------------------------------------------------------------
(* Repairs.                                                                *)

At(p, pc) == run[p].pc = pc
Quit(p) == run' = [run EXCEPT ![p] = Idle]

Begin(p, k) ==
  /\ At(p, "idle")
  /\ run' = [run EXCEPT ![p] = [Idle EXCEPT !.kind = k,
                                  !.pc = IF k = "reindex" THEN "marker" ELSE "survey"]]
  /\ old' = [old EXCEPT ![p] = Live]
  /\ UNCHANGED <<md, index, marker, work, faults, last, since, back>>

\* Files that are listed but not read: gone meanwhile, or unreadable.
Unread(S) ==
  \/ S \cap Live = {} /\ NoFault
  \/ S # {} /\ Fault

\* The ids in the pool: collect_index_health_readonly and inspect_index_drift
Survey(p) ==
  /\ run[p].pc \in {"survey", "resurvey"}
  /\ run' = [run EXCEPT ![p].ids = Live,
                        ![p].pc = IF @ = "survey" THEN "compare" ELSE "recompare"]
  /\ UNCHANGED <<md, index, marker, work, faults, last, since, old, back>>

\* ... against the ids in the index.  Only verify asks whether all were read.
Compare(p, S) ==
  LET ids == run[p].ids \ S
      missing == ids \ Indexed
      orphans == Indexed \ ids
  IN /\ At(p, "compare") /\ S \subseteq run[p].ids /\ Unread(S)
     /\ IF \/ run[p].kind = "verify" /\ S # {}
           \/ run[p].kind = "drift" /\ missing = {} /\ orphans = {}
        THEN Quit(p)
        ELSE run' = [run EXCEPT ![p].ids = ids, ![p].missing = missing,
                                ![p].orphans = orphans, ![p].pc = "marker"]
     /\ UNCHANGED <<md, index, marker, work, last, since, old, back>>

\* read_dirty_index_marker; one that is corrupt or cannot be read names no entry
ReadMarker(p, lines) ==
  /\ At(p, "marker")
  /\ \/ ~Corrupt /\ lines = marker /\ NoFault
     \/ Corrupt /\ lines = NoLines /\ NoFault
     \/ lines = NoLines /\ Fault
  /\ IF /\ run[p].kind = "verify"
        /\ \/ lines # marker
           \/ run[p].missing = {} /\ run[p].orphans = {} /\ lines = NoLines
     THEN Quit(p)
     ELSE run' = [run EXCEPT ![p].snap = lines, ![p].pc = "list"]
  /\ since' = [since EXCEPT ![p] = NoLines]
  /\ UNCHANGED <<md, index, marker, work, last, old, back>>

\* iter_all: the directory is listed first, then each file is read
List(p) ==
  /\ At(p, "list")
  /\ run' = [run EXCEPT ![p].todo = Live, ![p].pc = "read"]
  /\ back' = [back EXCEPT ![p] = {}]
  /\ UNCHANGED <<md, index, marker, work, faults, last, since, old>>

\* verify reads all files first, the others upsert each one as it is read
ReadFile(p, i) ==
  /\ At(p, "read") /\ i \in run[p].todo /\ run[p].due = {}
  /\ \/ /\ md[i] # 0 /\ NoFault
        /\ run' = [run EXCEPT ![p].todo = @ \ {i}, ![p].seen = @ \cup {i},
                              ![p].got[i] = md[i],
                              ![p].due = IF run[p].kind = "verify" THEN {} ELSE {i}]
     \/ /\ Unread({i})
        /\ run' = [run EXCEPT ![p].todo = @ \ {i}, ![p].whole = FALSE]
  /\ UNCHANGED <<md, index, marker, work, last, since, old, back>>

Upsert(p, i) ==
  /\ i \in run[p].due
  /\ index' = [index EXCEPT ![i] = run[p].got[i]]
  /\ run' = [run EXCEPT ![p].due = @ \ {i}]
  /\ UNCHANGED <<md, marker, work, faults, last, since, old, back>>

AllRead(p) == At(p, "read") /\ run[p].todo = {} /\ run[p].due = {}

ActiveDirty(p) == Marked(run[p].snap) \cap run[p].ids
\* mutant: only the ids that will be upserted are compared
SameMissing(p) == run[p].whole /\ run[p].missing \cup ActiveDirty(p) \subseteq run[p].seen
\* repair_index_health: the source is still the one the report was made from
SameSource(p) ==
  /\ run[p].whole
  /\ Cardinality(run[p].seen) = Cardinality(run[p].ids)
  /\ run[p].missing \cup ActiveDirty(p) \subseteq run[p].seen
  /\ run[p].orphans \cap run[p].seen = {}

EndRead(p) ==
  /\ AllRead(p) /\ run[p].kind # "reindex"
  /\ IF run[p].kind = "drift"
     THEN run' = [run EXCEPT ![p].pc = "apply"]
     ELSE IF SameSource(p)
     THEN run' = [run EXCEPT ![p].pc = "apply", ![p].due = run[p].missing \cup ActiveDirty(p)]
     ELSE Quit(p)
  /\ UNCHANGED <<md, index, marker, work, faults, last, since, old, back>>

\* mutant: an incomplete scan prunes as well
GhostsOfAnyScan(p) == Items \ run[p].seen
\* reindex_store drops every row it has not seen, if it has seen every file
Ghosts(p) == IF run[p].whole THEN Items \ run[p].seen ELSE {}
Prune(p) ==
  /\ AllRead(p) /\ run[p].kind = "reindex"
  /\ index' = [i \in Items |-> IF i \in Ghosts(p) THEN 0 ELSE index[i]]
  /\ run' = [run EXCEPT ![p].pc = "clear"]
  /\ UNCHANGED <<md, marker, work, faults, last, since, old, back>>

Drop(p, i) ==
  /\ At(p, "apply") /\ run[p].due = {} /\ i \in run[p].orphans
  /\ index' = [index EXCEPT ![i] = 0]
  /\ run' = [run EXCEPT ![p].orphans = @ \ {i}]
  /\ UNCHANGED <<md, marker, work, faults, last, since, old, back>>

\* the drift repair looks again before it touches the marker
EndApply(p) ==
  /\ At(p, "apply") /\ run[p].due = {} /\ run[p].orphans = {}
  /\ run' = [run EXCEPT ![p].pc = IF run[p].kind = "drift" /\ run[p].whole
                                  THEN "resurvey" ELSE "clear"]
  /\ UNCHANGED <<md, index, marker, work, faults, last, since, old, back>>

Recompare(p, S) ==
  /\ At(p, "recompare") /\ S \subseteq run[p].ids /\ Unread(S)
  /\ IF S = {} /\ run[p].ids = Indexed
     THEN run' = [run EXCEPT ![p].pc = "clear"]
     ELSE Quit(p)
  /\ UNCHANGED <<md, index, marker, work, last, since, old, back>>

\* mutant: every line of a repaired id is removed
RemainingOfOthers(p) == [i \in Items |-> IF run[p].snap[i] # 0 THEN 0 ELSE marker[i]]
\* mutant: the counts are subtracted the wrong way round
RemainingReversed(p) ==
  [i \in Items |-> IF marker[i] > run[p].snap[i] THEN run[p].snap[i] - marker[i] ELSE 0]
\* mutant: no line is removed
RemainingAll(p) == marker
\* clear_dirty_index_marker: the lines of the snapshot, whatever else was added
Remaining(p) ==
  [i \in Items |-> IF marker[i] > run[p].snap[i] THEN marker[i] - run[p].snap[i] ELSE 0]
Clear(p) ==
  /\ At(p, "clear")
  /\ marker' = IF run[p].whole /\ ~Corrupt THEN Remaining(p) ELSE marker
  /\ Quit(p)
  /\ UNCHANGED <<md, index, work, faults, last, since, old, back>>

\* the process dies, or the embedder, the index or the marker raises
Abort(p) ==
  /\ ~At(p, "idle") /\ Fault /\ Quit(p)
  /\ UNCHANGED <<md, index, marker, work, last, since, old, back>>

-----------------------------------------------------------------------------

WriterBegins(w) ==
  \E i \in Items :
    \/ Create(w, i) \/ Delete(w, i)
    \/ \E step \in {"index", "update"} : Change(w, i, step)
WriterGoesOn(w) ==
  Project(w) \/ ProjectFails(w) \/ AppendLine(w) \/ WriterStops(w)

Repair(p) ==
  \/ \E k \in Repairs : Begin(p, k)
  \/ Survey(p) \/ List(p) \/ EndRead(p) \/ Prune(p) \/ EndApply(p)
  \/ Clear(p)
  \/ \E lines \in {marker, NoLines} : ReadMarker(p, lines)
  \/ \E S \in SUBSET Items : Compare(p, S) \/ Recompare(p, S)
  \/ \E i \in Items : ReadFile(p, i) \/ Upsert(p, i) \/ Drop(p, i)

Next ==
  \/ \E w \in Writers : WriterBegins(w) \/ WriterGoesOn(w)
  \/ \E p \in Repairers : Repair(p) \/ Abort(p)

Spec == Init /\ [][Next]_vars

(* A write that began goes on or its process dies; each kind of repair runs *)
(* again and again, by a schedule or by hand, and goes on once it began.    *)
Fairness ==
  /\ \A w \in Writers : WF_vars(WriterGoesOn(w))
  /\ \A p \in Repairers : WF_vars(Repair(p)) /\ \A k \in Repairs : SF_vars(Begin(p, k))
FairSpec == Spec /\ Fairness
=============================================================================
