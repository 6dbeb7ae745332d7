------------------------- MODULE DirtyIndexProperties -------------------------
(***************************************************************************)
(* What the repairs of the derived index promise.                          *)
(***************************************************************************)
EXTENDS DirtyIndex

Tasks ==
  [kind : {"none"} \cup Repairs,
   pc : {"idle", "survey", "compare", "marker", "list", "read", "apply", "resurvey",
         "recompare", "clear"},
   snap : [Items -> Nat], ids : SUBSET Items, missing : SUBSET Items,
   orphans : SUBSET Items, todo : SUBSET Items, seen : SUBSET Items, whole : BOOLEAN,
   got : [Items -> Nat], due : SUBSET Items]
Jobs ==
  {NoWork} \cup
  [step : {"index", "update", "evict", "mark"}, item : Items, version : Nat]

\* The types of the files, the locals of writers and repairs, and the history.
TypeOK ==
  /\ md \in [Items -> Nat] /\ index \in [Items -> Nat] /\ marker \in [Items -> Nat]
  /\ work \in [Writers -> Jobs]
  /\ run \in [Repairers -> Tasks]
  /\ faults \in Nat
  /\ last \in [Items -> Nat]
  /\ since \in [Repairers -> [Items -> Nat]]
  /\ old \in [Repairers -> SUBSET Items]
  /\ back \in [Repairers -> SUBSET Items]

InHand(i) == \E w \in Writers : work[w].item = i

(* `verify --repair` never removes the row of an item whose md file is       *)
(* there, although it deletes the rows that a scan called orphans and other *)
(* writers created, updated and deleted since: repair_index_health compares *)
(* a second scan with its report before it deletes anything.  What comes    *)
(* after that scan is not compared: a deleted id that a drain or a recovery *)
(* uses again between the scan and the delete does lose its row.            *)
VerifyKeepsLiveRows ==
  [][\A p \in Repairers : run'[p] # run[p] /\ run[p].kind = "verify" =>
       \A i \in Items \ back[p] :
         md[i] # 0 /\ index[i] # 0 => index'[i] # 0]_vars

(* reindex and verify may work on an old scan, but they never delete the    *)
(* row of an item whose file was there from their first step on, not even   *)
(* after a scan that could not read every file ("an incomplete Markdown     *)
(* scan never prunes", README.md).                                          *)
SparesOld(p) == \A i \in old[p] : index[i] # 0 => index'[i] # 0
SparesOldRows ==
  [][\A p \in Repairers : run'[p] # run[p] /\ run[p].kind # "drift" => SparesOld(p)]_vars

(* clear_dirty_index_marker takes out the lines a repair has seen, and no   *)
(* line that was appended since: that line reports a later failure.         *)
KeepsNewLines ==
  [][\A p \in Repairers : At(p, "clear") /\ ~At(p, "clear")' =>
       \A i \in Items : marker'[i] >= since[p][i]]_vars

(* Once writers and failures come to rest, repeated repairs make the index  *)
(* equal to the pool, contents included, and empty the marker, unless it    *)
(* has grown past the bound above which no repair reads or clears it.       *)
RepairsConverge == <>[](index = md /\ (marker = NoLines \/ Corrupt))
=============================================================================
