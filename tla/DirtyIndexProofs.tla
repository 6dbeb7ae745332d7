-------------------------- MODULE DirtyIndexProofs --------------------------
(***************************************************************************)
(* Theorems about the repairs of the derived index, for every number of    *)
(* items, writers and repairs and every bound on writes and failures.      *)
(***************************************************************************)
EXTENDS DirtyIndexProperties, TLAPS

LEMMA IdleType == Idle \in Tasks
BY DEF Idle, Tasks, NoLines

LEMMA TypeInit == Init => TypeOK
BY IdleType, BoundsAssumption DEF Init, TypeOK, Jobs, NoWork, NoLines

LEMMA WriterType ==
  ASSUME TypeOK, NEW w \in Writers, WriterBegins(w) \/ WriterGoesOn(w)
  PROVE  TypeOK'
<1>1. ASSUME NEW i \in Items, Create(w, i)
      PROVE  TypeOK'
  BY <1>1 DEF TypeOK, Create, Hand, Jobs
<1>2. ASSUME NEW i \in Items, NEW step \in {"index", "update"}, Change(w, i, step)
      PROVE  TypeOK'
  BY <1>2 DEF TypeOK, Change, Hand, Jobs
<1>3. ASSUME NEW i \in Items, Delete(w, i)
      PROVE  TypeOK'
  BY <1>3 DEF TypeOK, Delete, Hand, Leave, Jobs
<1>4. CASE Project(w)
  <2>1. work[w] \in [step : {"index", "update", "evict", "mark"}, item : Items, version : Nat]
    BY <1>4 DEF Project, TypeOK, Jobs, NoWork
  <2> QED
    BY <2>1, <1>4 DEF TypeOK, Project, Done, Jobs
<1>5. CASE ProjectFails(w)
  <2>1. work[w] \in [step : {"index", "update", "evict", "mark"}, item : Items, version : Nat]
    BY <1>5 DEF ProjectFails, TypeOK, Jobs, NoWork
  <2>2. [work[w] EXCEPT !.step = "mark"] \in Jobs
    BY <2>1 DEF Jobs
  <2>3. work' = [work EXCEPT ![w] = [work[w] EXCEPT !.step = "mark"]] \/ work' = [work EXCEPT ![w] = NoWork]
    BY <1>5 DEF ProjectFails, Done
  <2>4. work' \in [Writers -> Jobs]
    BY <2>2, <2>3 DEF TypeOK, Jobs
  <2>5. faults' \in Nat
    BY <1>5 DEF TypeOK, ProjectFails, Fault
  <2> QED
    BY <2>4, <2>5, <1>5 DEF TypeOK, ProjectFails
<1>6. CASE AppendLine(w)
  <2>1. work[w].item \in Items
    BY <1>6 DEF AppendLine, TypeOK, Jobs, NoWork
  <2> QED
    BY <2>1, <1>6 DEF TypeOK, AppendLine, Done, Jobs
<1>7. CASE WriterStops(w)
  <2>1. work[w].item \in Items
    BY <1>7 DEF WriterStops, TypeOK, Jobs, NoWork
  <2> QED
    BY <2>1, <1>7 DEF TypeOK, WriterStops, Fault, Done, Jobs
<1> QED
  BY <1>1, <1>2, <1>3, <1>4, <1>5, <1>6, <1>7 DEF WriterBegins, WriterGoesOn

\* What a step of a repair does to its own record is well typed.
LEMMA TaskType ==
  ASSUME TypeOK, NEW p \in Repairers, Repair(p) \/ Abort(p)
  PROVE  run' \in [Repairers -> Tasks]
<1>0. /\ run \in [Repairers -> Tasks] /\ run[p] \in Tasks
      /\ md \in [Items -> Nat] /\ index \in [Items -> Nat] /\ marker \in [Items -> Nat]
      /\ NoLines \in [Items -> Nat]
  BY DEF TypeOK, NoLines
<1>q. ASSUME Quit(p)
      PROVE  run' \in [Repairers -> Tasks]
  BY <1>0, <1>q, IdleType DEF Quit
<1>r. SUFFICES ASSUME ~Quit(p)
               PROVE  run' \in [Repairers -> Tasks]
  BY <1>q
<1>1. ASSUME NEW k \in Repairs, Begin(p, k)
      PROVE  run' \in [Repairers -> Tasks]
  BY <1>0, <1>1 DEF Begin, Idle, Tasks
<1>2. CASE Survey(p)
  BY <1>0, <1>2 DEF Survey, Tasks, Live
<1>3. ASSUME NEW S \in SUBSET Items, Compare(p, S)
      PROVE  run' \in [Repairers -> Tasks]
  <2>1. PICK ids \in SUBSET Items, missing \in SUBSET Items, orphans \in SUBSET Items :
          run' = [run EXCEPT ![p].ids = ids, ![p].missing = missing,
                             ![p].orphans = orphans, ![p].pc = "marker"]
    <3>1. run[p].ids \ S \in SUBSET Items
      BY <1>0 DEF Tasks
    <3>2. Indexed \in SUBSET Items
      BY DEF Indexed
    <3> QED
      BY <1>r, <1>3, <3>1, <3>2 DEF Compare
  <2> QED
    BY <1>0, <2>1 DEF Tasks
<1>4. ASSUME NEW lines \in {marker, NoLines}, ReadMarker(p, lines)
      PROVE  run' \in [Repairers -> Tasks]
  <2>1. lines \in [Items -> Nat]
    BY <1>0
  <2>2. run' = [run EXCEPT ![p].snap = lines, ![p].pc = "list"]
    BY <1>r, <1>4 DEF ReadMarker
  <2> QED
    BY <1>0, <2>1, <2>2 DEF Tasks
<1>5. CASE List(p)
  BY <1>0, <1>5 DEF List, Tasks, Live
<1>6. ASSUME NEW i \in Items, ReadFile(p, i)
      PROVE  run' \in [Repairers -> Tasks]
  <2>1. CASE run' = [run EXCEPT ![p].todo = @ \ {i}, ![p].whole = FALSE]
    BY <1>0, <2>1 DEF Tasks
  <2>2. CASE run' = [run EXCEPT ![p].todo = @ \ {i}, ![p].seen = @ \cup {i},
                                ![p].got[i] = md[i],
                                ![p].due = IF run[p].kind = "verify" THEN {} ELSE {i}]
    <3> DEFINE due == IF run[p].kind = "verify" THEN {} ELSE {i}
    <3> DEFINE got == [run[p].got EXCEPT ![i] = md[i]]
    <3> DEFINE todo == run[p].todo \ {i}
    <3> DEFINE seen == run[p].seen \cup {i}
    <3>1. due \in SUBSET Items /\ todo \in SUBSET Items /\ seen \in SUBSET Items
          /\ got \in [Items -> Nat]
      BY <1>0 DEF Tasks
    <3>2. run' = [run EXCEPT ![p] = [run[p] EXCEPT !.todo = todo, !.seen = seen,
                                                   !.got = got, !.due = due]]
      BY <1>0, <2>2 DEF Tasks
    <3> HIDE DEF due, got, todo, seen
    <3>3. [run[p] EXCEPT !.todo = todo, !.seen = seen, !.got = got, !.due = due] \in Tasks
      BY <1>0, <3>1 DEF Tasks
    <3> QED
      BY <1>0, <3>2, <3>3
  <2> QED
    BY <1>6, <2>1, <2>2 DEF ReadFile
<1>7. ASSUME NEW i \in Items, Upsert(p, i)
      PROVE  run' \in [Repairers -> Tasks]
  BY <1>0, <1>7 DEF Upsert, Tasks
<1>8. CASE EndRead(p)
  <2>1. run[p].missing \cup ActiveDirty(p) \in SUBSET Items
    BY <1>0 DEF Tasks, ActiveDirty, Marked
  <2>2. \/ run' = [run EXCEPT ![p].pc = "apply"]
        \/ run' = [run EXCEPT ![p].pc = "apply", ![p].due = run[p].missing \cup ActiveDirty(p)]
    BY <1>r, <1>8 DEF EndRead
  <2>3. CASE run' = [run EXCEPT ![p].pc = "apply"]
    BY <1>0, <2>3 DEF Tasks
  <2>4. ASSUME NEW due \in SUBSET Items,
               run' = [run EXCEPT ![p].pc = "apply", ![p].due = due]
        PROVE  run' \in [Repairers -> Tasks]
    BY <1>0, <2>4 DEF Tasks
  <2> QED
    BY <2>1, <2>2, <2>3, <2>4
<1>9. CASE Prune(p)
  BY <1>0, <1>9 DEF Prune, Tasks
<1>10. ASSUME NEW i \in Items, Drop(p, i)
       PROVE  run' \in [Repairers -> Tasks]
  BY <1>0, <1>10 DEF Drop, Tasks
<1>11. CASE EndApply(p)
  BY <1>0, <1>11 DEF EndApply, Tasks
<1>12. ASSUME NEW S \in SUBSET Items, Recompare(p, S)
       PROVE  run' \in [Repairers -> Tasks]
  <2>1. run' = [run EXCEPT ![p].pc = "clear"]
    BY <1>r, <1>12 DEF Recompare
  <2> QED
    BY <1>0, <2>1 DEF Tasks
<1>13. CASE Clear(p) \/ Abort(p)
  BY <1>r, <1>13 DEF Clear, Abort
<1> QED
  BY <1>1, <1>2, <1>3, <1>4, <1>5, <1>6, <1>7, <1>8, <1>9, <1>10, <1>11, <1>12, <1>13
     DEF Repair

\* What repairs leave alone, and the types of the rest.
LEMMA RepairType ==
  ASSUME TypeOK, NEW p \in Repairers, Repair(p) \/ Abort(p)
  PROVE  TypeOK'
<1>1. run' \in [Repairers -> Tasks]
  BY TaskType
<1>0. run[p] \in Tasks /\ index \in [Items -> Nat] /\ marker \in [Items -> Nat] /\ faults \in Nat
  BY DEF TypeOK
<1> DEFINE Rest ==
      /\ UNCHANGED <<md, work, last>>
      /\ faults' \in Nat
      /\ index' \in [Items -> Nat] /\ marker' \in [Items -> Nat]
      /\ since' \in [Repairers -> [Items -> Nat]] /\ old' \in [Repairers -> SUBSET Items]
      /\ back' \in [Repairers -> SUBSET Items]
<1>2. ASSUME NEW k \in Repairs, Begin(p, k)
      PROVE  Rest
  BY <1>2 DEF TypeOK, Begin, Live
<1>3. ASSUME Survey(p) \/ List(p) \/ EndRead(p) \/ EndApply(p)
      PROVE  Rest
  BY <1>3 DEF TypeOK, Survey, List, EndRead, EndApply
<1>4. ASSUME NEW S \in SUBSET Items, Compare(p, S) \/ Recompare(p, S)
      PROVE  Rest
  <2>1. Unread(S) /\ UNCHANGED <<md, index, marker, work, last, since, old, back>>
    BY <1>4 DEF Compare, Recompare
  <2> QED
    BY <2>1 DEF TypeOK, Unread, Fault, NoFault
<1>5. ASSUME NEW lines \in {marker, NoLines}, ReadMarker(p, lines)
      PROVE  Rest
  <2>1. faults' \in Nat
    BY <1>5 DEF TypeOK, ReadMarker, Fault, NoFault
  <2>2. since' = [since EXCEPT ![p] = NoLines]
    BY <1>5 DEF ReadMarker
  <2>3. UNCHANGED <<md, index, marker, work, last, old, back>>
    BY <1>5 DEF ReadMarker
  <2> QED
    BY <2>1, <2>2, <2>3 DEF TypeOK, NoLines
<1>6. ASSUME NEW i \in Items, ReadFile(p, i)
      PROVE  Rest
  <2>1. (NoFault \/ Unread({i})) /\ UNCHANGED <<md, index, marker, work, last, since, old, back>>
    BY <1>6 DEF ReadFile
  <2> QED
    BY <2>1 DEF TypeOK, Unread, Fault, NoFault
<1>7. ASSUME NEW i \in Items, Upsert(p, i) \/ Drop(p, i)
      PROVE  Rest
  <2>1. index' \in [Items -> Nat]
    BY <1>0, <1>7 DEF Upsert, Drop, Tasks
  <2> QED
    BY <2>1, <1>7 DEF TypeOK, Upsert, Drop
<1>8. ASSUME Prune(p)
       PROVE  Rest
  <2>1. index' \in [Items -> Nat]
    BY <1>0, <1>8 DEF Prune
  <2>2. UNCHANGED <<md, marker, work, faults, last, since, old, back>>
    BY <1>8 DEF Prune
  <2> QED
    BY <2>1, <2>2 DEF TypeOK
<1>9. ASSUME Clear(p)
       PROVE  Rest
  <2>1. Remaining(p) \in [Items -> Nat]
    BY <1>0 DEF Remaining, Tasks
  <2>2. marker' \in [Items -> Nat]
    BY <1>0, <1>9, <2>1 DEF Clear
  <2>3. UNCHANGED <<md, index, work, faults, last, since, old, back>>
    BY <1>9 DEF Clear
  <2> QED
    BY <2>2, <2>3 DEF TypeOK
<1>10. ASSUME Abort(p)
       PROVE  Rest
  <2>1. faults' \in Nat
    BY <1>0, <1>10 DEF Abort, Fault
  <2>2. UNCHANGED <<md, index, marker, work, last, since, old, back>>
    BY <1>10 DEF Abort
  <2> QED
    BY <2>1, <2>2 DEF TypeOK
<1>11. Rest
  <2> HIDE DEF Rest
  <2> QED
    BY <1>2, <1>3, <1>4, <1>5, <1>6, <1>7, <1>8, <1>9, <1>10 DEF Repair
<1> QED
  BY <1>1, <1>11 DEF TypeOK

(* Every variable keeps its type: the files, the marker, the locals of     *)
(* every writer and every repair (index_maintenance.py, write_service.py). *)
THEOREM TypeCorrect == Spec => []TypeOK
<1>1. ASSUME TypeOK, [Next]_vars
      PROVE  TypeOK'
  <2>1. CASE Next
    BY <1>1, <2>1, WriterType, RepairType DEF Next
  <2>2. CASE UNCHANGED vars
    BY <1>1, <2>2 DEF vars, TypeOK
  <2> QED
    BY <1>1, <2>1, <2>2
<1> QED
  BY <1>1, TypeInit, PTL DEF Spec


-----------------------------------------------------------------------------
(* The rows.  What a scan has seen is compared with what is there when a    *)
(* row is deleted, for any number of repairs at a time.                      *)

\* The ids that were used, and may be used again.
Born == {i \in Items : last[i] # 0}

\* An item that has a file or a row, or is in hand, was created before.
Origins ==
  /\ Live \subseteq Born /\ Indexed \subseteq Born
  /\ \A w \in Writers : work[w].item \in Born \cup {NoItem}

\* What is upserted was read, what was read was there, orphans were there too.
ReadOK(p) ==
  /\ run[p].due \subseteq run[p].seen
  /\ \A i \in Items : i \in run[p].seen => run[p].got[i] # 0
  /\ \A i \in Items : run[p].got[i] # 0 => i \in Born
  /\ run[p].orphans \subseteq Born

KindOK(p) ==
  /\ run[p].kind = "none" => run[p].pc = "idle"
  /\ run[p].kind = "reindex" => run[p].pc \in {"marker", "list", "read", "clear"}

\* Items live since the repair began are never orphans, and never missed.
OldOK(p) ==
  /\ old[p] \subseteq Live
  /\ run[p].kind = "verify" /\ run[p].pc = "compare" => old[p] \subseteq run[p].ids
  /\ run[p].kind = "verify" /\ run[p].pc \in {"marker", "list", "read", "apply"} =>
       old[p] \cap run[p].orphans = {}
  /\ run[p].kind = "reindex" /\ run[p].pc = "read" /\ run[p].whole =>
       old[p] \subseteq run[p].todo \cup run[p].seen

\* An orphan that came to life meets the second scan of verify, or came after it.
OrphansOK(p) ==
  /\ run[p].kind = "verify" /\ run[p].pc = "read" /\ run[p].whole =>
       run[p].orphans \cap Live \subseteq run[p].todo \cup run[p].seen \cup back[p]
  /\ run[p].kind = "verify" /\ run[p].pc = "apply" =>
       run[p].orphans \cap Live \subseteq back[p]

ScanOK(p) == ReadOK(p) /\ KindOK(p) /\ OldOK(p) /\ OrphansOK(p)
ScansOK == Origins /\ \A p \in Repairers : ScanOK(p)

LEMMA ScansInit == Init => ScansOK
BY DEF Init, ScansOK, Origins, ScanOK, ReadOK, KindOK, OldOK, OrphansOK, Idle, NoWork, NoLines,
   Live, Indexed, Born

\* Writers change what a scan relies on only by new files and by deletions.
LEMMA Outdated ==
  ASSUME TypeOK, NEW q \in Repairers, ScanOK(q), run'[q] = run[q], Born \subseteq Born',
         old'[q] \subseteq old[q], old'[q] \subseteq Live', back[q] \subseteq back'[q],
         Live' \cap Born \subseteq Live \cup back'[q]
  PROVE  ScanOK(q)'
<1>1. ReadOK(q)'
  BY DEF ScanOK, ReadOK
<1>2. KindOK(q)'
  BY DEF ScanOK, KindOK
<1>3. OldOK(q)'
  BY DEF ScanOK, OldOK
<1>4. OrphansOK(q)'
  <2>1. run[q].orphans \cap Live' \subseteq Live \cup back'[q]
    BY DEF ScanOK, ReadOK
  <2> QED
    BY <2>1 DEF ScanOK, OrphansOK
<1> QED
  BY <1>1, <1>2, <1>3, <1>4 DEF ScanOK

LEMMA WriterScans ==
  ASSUME TypeOK, ScansOK, NEW w \in Writers, WriterBegins(w) \/ WriterGoesOn(w)
  PROVE  ScansOK'
<1>0. \A q \in Repairers : old[q] \subseteq Live
  BY DEF ScansOK, ScanOK, OldOK
<1>1. ASSUME NEW i \in Items, Create(w, i)
      PROVE  ScansOK'
  <2>1. /\ Live' = Live \cup {i} /\ Born' = Born \cup {i}
        /\ \A q \in Repairers :
             back'[q] = IF i \in Born THEN back[q] \cup {i} ELSE back[q]
    BY <1>1 DEF Create, Live, Born, TypeOK
  <2>2. Origins'
    BY <1>1, <2>1 DEF ScansOK, Origins, Create, Hand, Indexed, TypeOK
  <2>3. \A q \in Repairers : ScanOK(q)'
    BY <1>0, <1>1, <2>1, Outdated DEF ScansOK, Create
  <2> QED
    BY <2>2, <2>3 DEF ScansOK
<1>2. ASSUME NEW i \in Items, NEW step \in {"index", "update"}, Change(w, i, step)
      PROVE  ScansOK'
  <2>1. Live' = Live /\ i \in Live /\ Born' = Born \cup {i}
    BY <1>2 DEF Change, Live, Born, TypeOK
  <2>2. Origins'
    BY <1>2, <2>1 DEF ScansOK, Origins, Change, Hand, Indexed, TypeOK
  <2>3. \A q \in Repairers : ScanOK(q)'
    BY <1>0, <1>2, <2>1, Outdated DEF ScansOK, Change
  <2> QED
    BY <2>2, <2>3 DEF ScansOK
<1>3. ASSUME NEW i \in Items, Delete(w, i)
      PROVE  ScansOK'
  <2>1. Live' = Live \ {i} /\ i \in Live
    BY <1>3 DEF Delete, Live, TypeOK
  <2>2. Origins'
    BY <1>3, <2>1 DEF ScansOK, Origins, Delete, Hand, Indexed, TypeOK, Born
  <2>3. \A q \in Repairers : old'[q] = old[q] \ {i}
    BY <1>3 DEF Delete, Leave
  <2>4. \A q \in Repairers : ScanOK(q)'
    BY <1>0, <1>3, <2>1, <2>3, Outdated DEF ScansOK, Delete, Born
  <2> QED
    BY <2>2, <2>4 DEF ScansOK
<1>4. CASE WriterGoesOn(w)
  <2>1. UNCHANGED <<md, run, last, old, back>>
    BY <1>4 DEF WriterGoesOn, Project, ProjectFails, AppendLine, WriterStops
  <2>2. work'[w].item \in Born \cup {NoItem}
        /\ \A v \in Writers : v # w => work'[v] = work[v]
    BY <1>4 DEF WriterGoesOn, Project, ProjectFails, AppendLine, WriterStops, Done, NoWork,
       ScansOK, Origins, TypeOK, Jobs
  <2>3. Indexed' \subseteq Born
    <3>1. CASE index' = index
      BY <3>1 DEF ScansOK, Origins, Indexed
    <3>2. CASE Project(w)
      <4>1. work[w].item \in Born
        BY <3>2, ItemsAssumption DEF Project, ScansOK, Origins, TypeOK, Jobs, NoWork
      <4> QED
        BY <3>2, <4>1 DEF Project, ScansOK, Origins, Indexed, TypeOK
    <3> QED
      BY <1>4, <3>1, <3>2 DEF WriterGoesOn, ProjectFails, AppendLine, WriterStops
  <2>4. Live' = Live
    BY <2>1 DEF Live
  <2>5. \A q \in Repairers : ScanOK(q)'
    BY <1>0, <2>1, <2>4, Outdated DEF ScansOK, Born
  <2> QED
    BY <2>1, <2>2, <2>3, <2>4, <2>5 DEF ScansOK, Origins, Born
<1> QED
  BY <1>1, <1>2, <1>3, <1>4 DEF WriterBegins

\* No repair touches the pool; it writes the rows it read, and empties others.
LEMMA RepairOrigins ==
  ASSUME TypeOK, ScansOK, NEW p \in Repairers, Repair(p) \/ Abort(p)
  PROVE  Origins' /\ Live' = Live /\ UNCHANGED <<md, work, last>>
         /\ \A q \in Repairers : q # p =>
              run'[q] = run[q] /\ old'[q] = old[q] /\ back'[q] = back[q]
<1>1. UNCHANGED <<md, work, last>>
  BY DEF Repair, Abort, Begin, Survey, Compare, ReadMarker, List, ReadFile, Upsert, EndRead,
     Prune, Drop, EndApply, Recompare, Clear
<1>2. \A q \in Repairers : q # p => old'[q] = old[q] /\ back'[q] = back[q]
  BY DEF TypeOK, Repair, Abort, Begin, Survey, Compare, ReadMarker, List, ReadFile, Upsert,
     EndRead, Prune, Drop, EndApply, Recompare, Clear
<1>3. \A q \in Repairers : q # p => run'[q] = run[q]
  BY DEF TypeOK, Repair, Abort, Begin, Survey, Compare, ReadMarker, List, ReadFile, Upsert,
     EndRead, Prune, Drop, EndApply, Recompare, Clear, Quit
<1>4. Indexed' \subseteq Born
  <2>1. CASE index' = index
    BY <2>1 DEF ScansOK, Origins, Indexed
  <2>2. ASSUME NEW i \in Items, Upsert(p, i)
        PROVE  Indexed' \subseteq Born
    <3>1. i \in Born
      BY <2>2 DEF Upsert, ScansOK, ScanOK, ReadOK
    <3> QED
      BY <2>2, <3>1 DEF Upsert, ScansOK, Origins, Indexed, TypeOK
  <2>3. ASSUME NEW i \in Items, Drop(p, i)
        PROVE  Indexed' \subseteq Born
    BY <2>3 DEF Drop, ScansOK, Origins, Indexed, TypeOK
  <2>4. CASE Prune(p)
    BY <2>4 DEF Prune, ScansOK, Origins, Indexed, TypeOK
  <2> QED
    BY <2>1, <2>2, <2>3, <2>4 DEF Repair, Abort, Begin, Survey, Compare, ReadMarker, List,
       ReadFile, EndRead, EndApply, Recompare, Clear
<1> QED
  BY <1>1, <1>2, <1>3, <1>4 DEF ScansOK, Origins, Live, Born

LEMMA QuitScan ==
  ASSUME TypeOK, NEW p \in Repairers, old[p] \subseteq Live, UNCHANGED <<md, old>>, Quit(p)
  PROVE  ScanOK(p)'
<1>1. run'[p] = Idle
  BY DEF Quit, TypeOK
<1> QED
  BY <1>1 DEF ScanOK, ReadOK, KindOK, OldOK, OrphansOK, Idle, NoLines, Live

\* The steps before and after the work on the rows.
LEMMA PlanningScans ==
  ASSUME TypeOK, NEW p \in Repairers, ScanOK(p), Origins, ~Quit(p),
         \/ \E k \in Repairs : Begin(p, k)
         \/ Survey(p) \/ List(p)
         \/ \E S \in SUBSET Items : Compare(p, S) \/ Recompare(p, S)
         \/ \E lines \in {marker, NoLines} : ReadMarker(p, lines)
  PROVE  ScanOK(p)'
<1>0. run[p] \in Tasks /\ run \in [Repairers -> Tasks] /\ old[p] \subseteq Live
      /\ old \in [Repairers -> SUBSET Items] /\ run[p].kind \in {"none"} \cup Repairs
      /\ Live \in SUBSET Items
  BY DEF TypeOK, ScanOK, OldOK, Tasks, Live
<1>s. ReadOK(p) /\ KindOK(p) /\ OldOK(p) /\ OrphansOK(p)
  BY DEF ScanOK
<1>1. ASSUME NEW k \in Repairs, Begin(p, k)
      PROVE  ScanOK(p)'
  <2>1. run'[p] = [Idle EXCEPT !.kind = k, !.pc = IF k = "reindex" THEN "marker" ELSE "survey"]
        /\ old'[p] = Live /\ Live' = Live
    BY <1>0, <1>1 DEF Begin, Live
  <2> QED
    BY <2>1, RepairsAssumption
       DEF ScanOK, ReadOK, KindOK, OldOK, OrphansOK, Idle, NoLines
<1>2. CASE Survey(p)
  <2>1. /\ run'[p] = [run[p] EXCEPT !.ids = Live,
                         !.pc = IF @ = "survey" THEN "compare" ELSE "recompare"]
        /\ run[p].pc \in {"survey", "resurvey"}
        /\ UNCHANGED <<md, last, old, back>>
    BY <1>0, <1>2 DEF Survey, Tasks
  <2> QED
    BY <1>0, <1>s, <2>1 DEF Tasks, ScanOK, ReadOK, KindOK, OldOK, OrphansOK, Live, Born
<1>3. CASE List(p)
  <2>1. run'[p] = [run[p] EXCEPT !.todo = Live, !.pc = "read"] /\ run[p].pc = "list"
        /\ UNCHANGED <<md, last, old>>
    BY <1>0, <1>3 DEF List, At
  <2> QED
    BY <1>0, <1>s, <2>1 DEF Tasks, ScanOK, ReadOK, KindOK, OldOK, OrphansOK, Live, Born
<1>4. ASSUME NEW S \in SUBSET Items, Compare(p, S)
      PROVE  ScanOK(p)'
  <2> DEFINE ids == run[p].ids \ S
  <2>1. /\ run' = [run EXCEPT ![p].ids = ids, ![p].missing = ids \ Indexed,
                              ![p].orphans = Indexed \ ids, ![p].pc = "marker"]
        /\ run[p].kind = "verify" => S = {}
        /\ run[p].pc = "compare" /\ UNCHANGED <<md, last, old, back>>
    BY <1>4 DEF Compare, At
  <2>2. /\ run'[p].pc = "marker" /\ run'[p].kind = run[p].kind
        /\ run'[p].orphans = Indexed \ ids
        /\ run'[p].due = run[p].due /\ run'[p].seen = run[p].seen
        /\ run'[p].got = run[p].got
    BY <1>0, <2>1 DEF Tasks
  <2>3. run[p].kind = "verify" => old[p] \subseteq ids
    BY <1>s, <2>1 DEF OldOK
  <2> HIDE DEF ids
  <2>4. ReadOK(p)' /\ KindOK(p)' /\ OrphansOK(p)'
    BY <1>s, <2>1, <2>2 DEF ReadOK, KindOK, OrphansOK, Origins, Born
  <2>5. OldOK(p)'
    BY <1>0, <2>1, <2>2, <2>3 DEF OldOK, Live
  <2> QED
    BY <2>4, <2>5 DEF ScanOK
<1>5. ASSUME NEW S \in SUBSET Items, Recompare(p, S)
      PROVE  ScanOK(p)'
  <2>1. run'[p] = [run[p] EXCEPT !.pc = "clear"] /\ UNCHANGED <<md, last, old, back>>
        /\ run[p].pc = "recompare"
    BY <1>0, <1>5 DEF Recompare, At
  <2> QED
    BY <1>0, <1>s, <2>1 DEF Tasks, ScanOK, ReadOK, KindOK, OldOK, OrphansOK, Live, Born
<1>6. ASSUME NEW lines \in {marker, NoLines}, ReadMarker(p, lines)
      PROVE  ScanOK(p)'
  <2>1. run'[p] = [run[p] EXCEPT !.snap = lines, !.pc = "list"] /\ UNCHANGED <<md, last, old, back>>
        /\ run[p].pc = "marker"
    BY <1>0, <1>6 DEF ReadMarker, At
  <2> QED
    BY <1>0, <1>s, <2>1 DEF Tasks, ScanOK, ReadOK, KindOK, OldOK, OrphansOK, Live, Born
<1> QED
  BY <1>1, <1>2, <1>3, <1>4, <1>5, <1>6

\* The second scan and the work on the rows.
LEMMA WorkingScans ==
  ASSUME TypeOK, NEW p \in Repairers, ScanOK(p), Origins, ~Quit(p),
         \/ EndRead(p) \/ Prune(p) \/ EndApply(p)
         \/ \E i \in Items : ReadFile(p, i) \/ Upsert(p, i) \/ Drop(p, i)
  PROVE  ScanOK(p)'
<1>0. run[p] \in Tasks /\ run \in [Repairers -> Tasks] /\ old[p] \subseteq Live
      /\ Live \in SUBSET Items
  BY DEF TypeOK, ScanOK, OldOK, Live
<1>s. ReadOK(p) /\ KindOK(p) /\ OldOK(p) /\ OrphansOK(p)
  BY DEF ScanOK
<1>1. ASSUME NEW i \in Items, ReadFile(p, i)
      PROVE  ScanOK(p)'
  <2>0. UNCHANGED <<md, last, old, back>> /\ run[p].pc = "read" /\ run[p].due = {}
    BY <1>1 DEF ReadFile, At
  <2>1. CASE /\ md[i] # 0
             /\ run' = [run EXCEPT ![p].todo = @ \ {i}, ![p].seen = @ \cup {i},
                                   ![p].got[i] = md[i],
                                   ![p].due = IF run[p].kind = "verify" THEN {} ELSE {i}]
    <3>1. /\ run'[p].todo = run[p].todo \ {i} /\ run'[p].seen = run[p].seen \cup {i}
          /\ run'[p].due = (IF run[p].kind = "verify" THEN {} ELSE {i})
          /\ run'[p].got = [run[p].got EXCEPT ![i] = md[i]]
          /\ run'[p].pc = run[p].pc /\ run'[p].kind = run[p].kind
          /\ run'[p].whole = run[p].whole /\ run'[p].orphans = run[p].orphans
      BY <1>0, <2>1 DEF Tasks
    <3>2. i \in Born
      BY <2>1 DEF Origins, Live
    <3>3. ReadOK(p)'
      BY <1>0, <1>s, <2>0, <2>1, <3>1, <3>2 DEF ReadOK, Tasks, Born
    <3>4. KindOK(p)' /\ OldOK(p)' /\ OrphansOK(p)'
      BY <1>0, <1>s, <2>0, <3>1 DEF KindOK, OldOK, OrphansOK, Live
    <3> QED
      BY <3>3, <3>4 DEF ScanOK
  <2>2. CASE run' = [run EXCEPT ![p].todo = @ \ {i}, ![p].whole = FALSE]
    <3>1. run'[p] = [run[p] EXCEPT !.todo = @ \ {i}, !.whole = FALSE]
      BY <1>0, <2>2 DEF Tasks
    <3> QED
      BY <1>0, <1>s, <2>0, <3>1 DEF Tasks, ScanOK, ReadOK, KindOK, OldOK, OrphansOK, Live, Born
  <2> QED
    BY <1>1, <2>1, <2>2 DEF ReadFile
<1>2. ASSUME NEW i \in Items, Upsert(p, i)
      PROVE  ScanOK(p)'
  <2>1. run'[p] = [run[p] EXCEPT !.due = @ \ {i}] /\ UNCHANGED <<md, last, old, back>>
    BY <1>0, <1>2 DEF Upsert
  <2> QED
    BY <1>0, <1>s, <2>1 DEF Tasks, ScanOK, ReadOK, KindOK, OldOK, OrphansOK, Live, Born
<1>3. ASSUME NEW i \in Items, Drop(p, i)
      PROVE  ScanOK(p)'
  <2>1. run'[p] = [run[p] EXCEPT !.orphans = @ \ {i}] /\ UNCHANGED <<md, last, old, back>>
    BY <1>0, <1>3 DEF Drop
  <2> QED
    BY <1>0, <1>s, <2>1 DEF Tasks, ScanOK, ReadOK, KindOK, OldOK, OrphansOK, Live, Born
<1>4. CASE Prune(p)
  <2>1. run'[p] = [run[p] EXCEPT !.pc = "clear"] /\ UNCHANGED <<md, last, old, back>>
        /\ run[p].pc = "read"
    BY <1>0, <1>4 DEF Prune, AllRead, At
  <2> QED
    BY <1>0, <1>s, <2>1 DEF Tasks, ScanOK, ReadOK, KindOK, OldOK, OrphansOK, Live, Born
<1>5. CASE EndApply(p)
  <2>1. /\ run'[p] = [run[p] EXCEPT !.pc = IF run[p].kind = "drift" /\ run[p].whole
                                           THEN "resurvey" ELSE "clear"]
        /\ UNCHANGED <<md, last, old, back>> /\ run[p].pc = "apply"
    BY <1>0, <1>5 DEF EndApply, At
  <2> QED
    BY <1>0, <1>s, <2>1 DEF Tasks, ScanOK, ReadOK, KindOK, OldOK, OrphansOK, Live, Born
<1>6. CASE EndRead(p)
  <2>0. UNCHANGED <<md, last, old, back>> /\ run[p].pc = "read" /\ run[p].kind # "reindex"
        /\ run[p].todo = {}
    BY <1>6 DEF EndRead, AllRead, At
  <2>1. CASE run[p].kind = "drift"
    <3>1. run'[p] = [run[p] EXCEPT !.pc = "apply"]
      BY <1>0, <1>6, <2>1 DEF EndRead
    <3> QED
      BY <1>0, <1>s, <2>0, <2>1, <3>1
         DEF Tasks, ScanOK, ReadOK, KindOK, OldOK, OrphansOK, Live, Born
  <2>2. CASE run[p].kind # "drift"
    <3> DEFINE due == run[p].missing \cup ActiveDirty(p)
    <3>1. /\ run' = [run EXCEPT ![p].pc = "apply", ![p].due = due]
          /\ SameSource(p)
      BY <1>6, <2>2 DEF EndRead
    <3>2. due \subseteq run[p].seen /\ run[p].orphans \cap run[p].seen = {} /\ run[p].whole
      BY <3>1 DEF SameSource
    <3> HIDE DEF due
    <3>3. /\ run'[p].pc = "apply" /\ run'[p].due = due /\ run'[p].seen = run[p].seen
          /\ run'[p].got = run[p].got /\ run'[p].orphans = run[p].orphans
          /\ run'[p].kind = run[p].kind
      BY <1>0, <3>1 DEF Tasks
    <3>4. ReadOK(p)' /\ KindOK(p)' /\ OldOK(p)'
      BY <1>0, <1>s, <2>0, <3>2, <3>3 DEF ReadOK, KindOK, OldOK, Live, Born
    <3>5. OrphansOK(p)'
      BY <1>0, <1>s, <2>0, <3>2, <3>3 DEF OrphansOK, Live
    <3> QED
      BY <3>4, <3>5 DEF ScanOK
  <2> QED
    BY <2>1, <2>2
<1> QED
  BY <1>1, <1>2, <1>3, <1>4, <1>5, <1>6

LEMMA RepairScans ==
  ASSUME TypeOK, ScansOK, NEW p \in Repairers, Repair(p) \/ Abort(p)
  PROVE  ScansOK'
<1>1. ASSUME NEW q \in Repairers, q # p
      PROVE  ScanOK(q)'
  BY <1>1, RepairOrigins, Outdated DEF ScansOK, ScanOK, OldOK, Born
<1>2. ScanOK(p)'
  <2>0. ScanOK(p) /\ Origins /\ old[p] \subseteq Live
    BY DEF ScansOK, ScanOK, OldOK
  <2>1. CASE Quit(p)
    <3>1. UNCHANGED <<md, old>>
      <4>1. ~ \E k \in Repairs : Begin(p, k)
        <5>1. run'[p].pc = "idle"
          BY <2>1 DEF Quit, Idle, TypeOK
        <5>2. ASSUME NEW k \in Repairs, Begin(p, k)
              PROVE  run'[p].pc # "idle"
          BY <5>2 DEF Begin, Idle, TypeOK
        <5> QED
          BY <5>1, <5>2
      <4> QED
        BY <4>1 DEF Repair, Abort, Survey, Compare, ReadMarker, List, ReadFile, Upsert,
           EndRead, Prune, Drop, EndApply, Recompare, Clear
    <3> QED
      BY <2>0, <2>1, <3>1, QuitScan
  <2>2. CASE ~Quit(p)
    BY <2>0, <2>2, PlanningScans, WorkingScans DEF Repair, Abort, Clear
  <2> QED
    BY <2>1, <2>2
<1> QED
  BY <1>1, <1>2, RepairOrigins DEF ScansOK

LEMMA ScansStay == Spec => []ScansOK
<1>1. ASSUME TypeOK, ScansOK, [Next]_vars
      PROVE  ScansOK'
  <2>1. CASE Next
    BY <1>1, <2>1, WriterScans, RepairScans DEF Next
  <2>2. CASE UNCHANGED vars
    BY <1>1, <2>2 DEF vars, ScansOK, Origins, ScanOK, ReadOK, KindOK, OldOK, OrphansOK,
       Live, Indexed, Born
  <2> QED
    BY <1>1, <2>1, <2>2
<1> QED
  BY <1>1, ScansInit, TypeCorrect, PTL DEF Spec

\* Which step of a repair takes a row away, and what it knows of the item.
LEMMA RowDropped ==
  ASSUME TypeOK, ScansOK, NEW p \in Repairers, [Next]_vars, run'[p] # run[p],
         NEW i \in Items, index[i] # 0, index'[i] = 0
  PROVE  \/ run[p].kind = "reindex" /\ i \notin old[p]
         \/ run[p].kind = "verify" /\ i \notin old[p] /\ (md[i] = 0 \/ i \in back[p])
         \/ run[p].kind = "drift"
<1>1. PICK q \in Repairers : Repair(q) \/ Abort(q)
  <2>1. ~ \E w \in Writers : WriterBegins(w) \/ WriterGoesOn(w)
    BY DEF WriterBegins, WriterGoesOn, Create, Change, Delete, Project, ProjectFails,
       AppendLine, WriterStops
  <2> QED
    BY <2>1 DEF Next, vars
<1>2. q = p
  BY <1>1, RepairOrigins
<1>s. ReadOK(p) /\ KindOK(p) /\ OldOK(p) /\ OrphansOK(p)
  BY DEF ScansOK, ScanOK
<1>k. run[p].kind \in {"none", "reindex", "verify", "drift"}
  BY RepairsAssumption DEF TypeOK, Tasks
<1>3. Prune(p) \/ \E j \in Items : Upsert(p, j) \/ Drop(p, j)
  BY <1>1, <1>2 DEF Repair, Abort, Begin, Survey, Compare, ReadMarker, List, ReadFile, EndRead,
     EndApply, Recompare, Clear
<1>4. ASSUME NEW j \in Items, Upsert(p, j)
      PROVE  FALSE
  <2>1. j \in run[p].due /\ index' = [index EXCEPT ![j] = run[p].got[j]]
    BY <1>4 DEF Upsert
  <2>2. run[p].got[j] # 0
    BY <1>s, <2>1 DEF ReadOK
  <2> QED
    BY <2>1, <2>2 DEF TypeOK
<1>5. ASSUME NEW j \in Items, Drop(p, j)
      PROVE  \/ /\ run[p].kind = "verify" /\ i \notin old[p]
                /\ md[i] = 0 \/ i \in back[p]
             \/ run[p].kind = "drift"
  <2>1. j = i /\ i \in run[p].orphans /\ run[p].pc = "apply"
    BY <1>5 DEF Drop, TypeOK, At
  <2> QED
    BY <1>s, <1>k, <2>1 DEF KindOK, OldOK, OrphansOK, Live, Born
<1>6. CASE Prune(p)
  <2>1. i \in Ghosts(p) /\ run[p].kind = "reindex" /\ run[p].pc = "read" /\ run[p].todo = {}
    BY <1>6 DEF Prune, AllRead, At
  <2>2. run[p].whole /\ i \notin run[p].seen
    BY <2>1 DEF Ghosts
  <2> QED
    BY <1>s, <2>1, <2>2 DEF OldOK
<1> QED
  BY <1>3, <1>4, <1>5, <1>6

(* reindex and verify do not delete the row of an item that was there       *)
(* before they began, even if not every file could be read (reindex_store,   *)
(* repair_index_health), with any number of repairs at a time.               *)
THEOREM OldRowsSpared == Spec => SparesOldRows
<1>1. TypeOK /\ ScansOK /\ [Next]_vars =>
        \A p \in Repairers : run'[p] # run[p] /\ run[p].kind # "drift" => SparesOld(p)
  BY RowDropped DEF SparesOld, TypeOK
<1> QED
  BY <1>1, TypeCorrect, ScansStay, PTL DEF Spec, SparesOldRows

(* `verify --repair` does not delete the row of an item whose file is there *)
(* (repair_index_health), unless the id is one that was used before and was  *)
(* used again after the second listing, with any number of writers and       *)
(* repairs at a time.                                                        *)
THEOREM LiveRowsKept == Spec => VerifyKeepsLiveRows
<1>1. TypeOK /\ ScansOK /\ [Next]_vars =>
        \A p \in Repairers : run'[p] # run[p] /\ run[p].kind = "verify" =>
          \A i \in Items \ back[p] : md[i] # 0 /\ index[i] # 0 => index'[i] # 0
  BY RowDropped
<1> QED
  BY <1>1, TypeCorrect, ScansStay, PTL DEF Spec, VerifyKeepsLiveRows

-----------------------------------------------------------------------------
(* The marker.  Only one repair at a time may clear it: with two, the second *)
(* takes out lines the first has already taken out (run doubled).            *)

AfterMarker == {"list", "read", "apply", "resurvey", "recompare", "clear"}

\* The lines the repair has read are still there, and those appended since as well.
LinesKept ==
  \A p \in Repairers : run[p].pc \in AfterMarker =>
    \A i \in Items : marker[i] >= run[p].snap[i] + since[p][i]

LEMMA WriterKeepsLines ==
  ASSUME TypeOK, LinesKept, NEW w \in Writers, WriterBegins(w) \/ WriterGoesOn(w)
  PROVE  LinesKept'
<1>1. run' = run
  BY DEF WriterBegins, WriterGoesOn, Create, Change, Delete, Project, ProjectFails,
     AppendLine, WriterStops
<1>2. CASE UNCHANGED <<marker, since>>
  BY <1>1, <1>2 DEF LinesKept
<1>3. CASE AppendLine(w)
  <2>1. work[w].item \in Items
    BY <1>3 DEF AppendLine, TypeOK, Jobs, NoWork
  <2> QED
    <3> SUFFICES ASSUME NEW p \in Repairers, run[p].pc \in AfterMarker, NEW i \in Items
                 PROVE  marker'[i] >= run[p].snap[i] + since'[p][i]
      BY <1>1 DEF LinesKept
    <3>1. marker[i] >= run[p].snap[i] + since[p][i]
      BY DEF LinesKept
    <3>2. marker[i] \in Nat /\ since[p][i] \in Nat /\ run[p].snap[i] \in Nat
      BY DEF TypeOK, Tasks
    <3>3. marker'[i] = IF i = work[w].item THEN marker[i] + 1 ELSE marker[i]
      BY <1>3 DEF AppendLine, TypeOK
    <3>4. since'[p][i] = IF i = work[w].item THEN since[p][i] + 1 ELSE since[p][i]
      BY <1>3 DEF AppendLine, TypeOK
    <3> QED
      BY <3>1, <3>2, <3>3, <3>4
<1> QED
  BY <1>2, <1>3 DEF WriterBegins, WriterGoesOn, Create, Change, Delete, Project,
     ProjectFails, WriterStops

\* A step of the only repair: it keeps the marker, or it is its last.
LEMMA RepairKeepsLines ==
  ASSUME TypeOK, LinesKept, NEW p \in Repairers, \A q \in Repairers : q = p,
         Repair(p) \/ Abort(p)
  PROVE  LinesKept'
<1>0. run[p] \in Tasks /\ Idle \in Tasks /\ run \in [Repairers -> Tasks]
  BY IdleType DEF TypeOK
<1>q. ASSUME Quit(p)
      PROVE  LinesKept'
  BY <1>0, <1>q DEF LinesKept, Quit, Idle, AfterMarker
<1>r. SUFFICES ASSUME ~Quit(p)
               PROVE  LinesKept'
  BY <1>q
<1>1. ASSUME UNCHANGED <<marker, since>>, run'[p].snap = run[p].snap,
             run'[p].pc \in AfterMarker => run[p].pc \in AfterMarker
      PROVE  LinesKept'
  BY <1>1 DEF LinesKept
<1>2. ASSUME NEW k \in Repairs, Begin(p, k)
      PROVE  LinesKept'
  BY <1>0, <1>2 DEF LinesKept, Begin, Idle, AfterMarker
<1>3. ASSUME NEW S \in SUBSET Items, Compare(p, S)
      PROVE  LinesKept'
  BY <1>0, <1>r, <1>3 DEF LinesKept, Compare, Tasks, AfterMarker
<1>4. ASSUME NEW lines \in {marker, NoLines}, ReadMarker(p, lines)
      PROVE  LinesKept'
  <2>1. run' = [run EXCEPT ![p].snap = lines, ![p].pc = "list"]
    BY <1>r, <1>4 DEF ReadMarker
  <2>2. marker' = marker /\ since' = [since EXCEPT ![p] = NoLines]
    BY <1>4 DEF ReadMarker
  <2>3. marker \in [Items -> Nat] /\ since \in [Repairers -> [Items -> Nat]]
    BY DEF TypeOK
  <2>4. run'[p].snap = lines /\ since'[p] = NoLines
    BY <1>0, <2>1, <2>2, <2>3 DEF Tasks
  <2>5. \A i \in Items : marker[i] >= lines[i] + 0
    BY <2>3 DEF NoLines
  <2> QED
    BY <2>2, <2>4, <2>5 DEF LinesKept, NoLines
<1>5. CASE Survey(p)
  BY <1>0, <1>1, <1>5 DEF Survey, Tasks, AfterMarker
<1>6. CASE List(p)
  BY <1>0, <1>6 DEF LinesKept, List, Tasks, AfterMarker
<1>7. CASE EndRead(p)
  <2>1. UNCHANGED <<marker, since>> /\ run[p].pc = "read"
    BY <1>7 DEF EndRead, AllRead, At
  <2>2. run'[p].snap = run[p].snap
    BY <1>0, <1>r, <1>7 DEF EndRead, Tasks
  <2> QED
    BY <1>1, <2>1, <2>2 DEF AfterMarker
<1>8. CASE Prune(p)
  BY <1>0, <1>1, <1>8 DEF Prune, AllRead, At, Tasks, AfterMarker
<1>9. CASE EndApply(p)
  BY <1>0, <1>1, <1>9 DEF EndApply, At, Tasks, AfterMarker
<1>10. ASSUME NEW S \in SUBSET Items, Recompare(p, S)
       PROVE  LinesKept'
  BY <1>0, <1>1, <1>r, <1>10 DEF Recompare, At, Tasks, AfterMarker
<1>11. ASSUME NEW i \in Items, ReadFile(p, i)
       PROVE  LinesKept'
  BY <1>0, <1>1, <1>11 DEF ReadFile, Tasks
<1>12. ASSUME NEW i \in Items, Upsert(p, i)
       PROVE  LinesKept'
  BY <1>0, <1>1, <1>12 DEF Upsert, Tasks
<1>13. ASSUME NEW i \in Items, Drop(p, i)
       PROVE  LinesKept'
  BY <1>0, <1>1, <1>13 DEF Drop, Tasks
<1>14. CASE Clear(p) \/ Abort(p)
  BY <1>r, <1>14 DEF Clear, Abort
<1> QED
  BY <1>2, <1>3, <1>4, <1>5, <1>6, <1>7, <1>8, <1>9, <1>10, <1>11, <1>12, <1>13, <1>14
     DEF Repair

\* The step that leaves "clear" is the clear itself or an abort.
LEMMA ClearKeepsNewLines ==
  ASSUME TypeOK, LinesKept, NEW p \in Repairers, \A q \in Repairers : q = p, [Next]_vars,
         At(p, "clear"), ~At(p, "clear")', NEW i \in Items
  PROVE  marker'[i] >= since[p][i]
<1>1. marker[i] \in Nat /\ since[p][i] \in Nat /\ run[p].snap[i] \in Nat
  BY DEF TypeOK, Tasks
<1>2. marker[i] >= run[p].snap[i] + since[p][i]
  BY DEF LinesKept, At, AfterMarker
<1>3. run' # run
  BY DEF At
<1>4. ~ \E w \in Writers : WriterBegins(w) \/ WriterGoesOn(w)
  BY <1>3 DEF WriterBegins, WriterGoesOn, Create, Change, Delete, Project, ProjectFails,
     AppendLine, WriterStops
<1>5. Repair(p) \/ Abort(p)
  BY <1>3, <1>4 DEF Next, vars
<1>6. Clear(p) \/ marker' = marker
  BY <1>5 DEF Repair, Abort, Begin, Survey, Compare, ReadMarker, List, ReadFile, Upsert,
     EndRead, Prune, Drop, EndApply, Recompare
<1>7. marker' = marker \/ marker' = Remaining(p)
  BY <1>6 DEF Clear
<1> QED
  BY <1>1, <1>2, <1>7 DEF Remaining

(* A line that was appended to the marker after a repair had read it is not *)
(* cleared by that repair (clear_dirty_index_marker), if no other repair    *)
(* runs at the same time.                                                   *)
THEOREM NewLinesKept ==
  ASSUME \A p, q \in Repairers : p = q
  PROVE  Spec => KeepsNewLines
<1>1. Init => LinesKept
  BY DEF Init, LinesKept, Idle, AfterMarker
<1>2. ASSUME TypeOK, LinesKept, [Next]_vars
      PROVE  LinesKept'
  <2>1. CASE Next
    BY <1>2, <2>1, WriterKeepsLines, RepairKeepsLines DEF Next
  <2>2. CASE UNCHANGED vars
    BY <1>2, <2>2 DEF vars, LinesKept
  <2> QED
    BY <1>2, <2>1, <2>2
<1>3. TypeOK /\ LinesKept /\ [Next]_vars =>
        \A p \in Repairers : At(p, "clear") /\ ~At(p, "clear")' =>
          \A i \in Items : marker'[i] >= since[p][i]
  BY ClearKeepsNewLines
<1> QED
  BY <1>1, <1>2, <1>3, TypeCorrect, PTL DEF Spec, KeepsNewLines
=============================================================================
