------------------------ MODULE CaseGovernanceProofs ------------------------
(***************************************************************************)
(* Theorems about containment, decision and recovery of a Case, for every  *)
(* number of items, processes and transactions and every set of faults.    *)
(***************************************************************************)
EXTENDS CaseGovernanceProperties, TLAPS

Images == UNION {[S -> Content] : S \in SUBSET Item}
Bases == UNION {[S -> 0..MaxTxn] : S \in SUBSET Item}
Receipts ==
  [kind : {"none", "contain", "resolve"},
   state : {"none", "prepared", "completed", "rolled_back", "twice"},
   items : SUBSET Item, before : Images, after : Images,
   action : AllActions \cup {"none"}, target : Item \cup {None},
   until : Nat, repair : BOOLEAN]
Sights ==
  [action : AllActions \cup {"none"}, target : Item \cup {None}, before : Images, base : Bases]
Jobs ==
  [at : {"idle", "contain", "decide", "write", "rollback", "undo", "recover", "restore"},
   txn : 0..MaxTxn, todo : SUBSET Item, plan : Images, sight : Sights]

LedgerTyped ==
  /\ ledger \in [Txn -> Receipts]
  /\ \A t \in Txn :
       /\ ledger[t].state = "none" <=> ledger[t].kind = "none"
       /\ DOMAIN ledger[t].before = ledger[t].items
       /\ ledger[t].state \notin {"none", "prepared"} => DOMAIN ledger[t].after = ledger[t].items

\* an operation in hand is about a transaction that has a receipt in ledger l
Fits(j, l) ==
  /\ j.at = "decide" => j.sight.action \in AllActions
  /\ j.at \in {"write", "rollback", "undo", "recover", "restore"} =>
       j.txn \in Txn /\ l[j.txn].state # "none"
  /\ j.at = "write" => j.todo \subseteq DOMAIN j.plan /\ DOMAIN j.plan \subseteq l[j.txn].items
  /\ j.at \in {"undo", "restore"} => j.todo \subseteq l[j.txn].items

(* The inductive form of TypeOK: functions and records, what ties the        *)
(* domains of the snapshots to the items of their receipts, and that writing *)
(* is done inside the locks, where nobody deletes an item.                  *)
Inside == {"write", "undo", "restore"}
Owns(p) ==
  /\ job[p].at \in Inside => lock = p
  /\ job[p].at = "write" => \A i \in ledger[job[p].txn].items : Present(i)
Typed ==
  /\ md \in [Item -> Content \cup {None}]
  /\ LedgerTyped
  /\ lock \in Worker \cup {None}
  /\ job \in [Worker -> Jobs]
  /\ \A p \in Worker : Fits(job[p], ledger) /\ Owns(p)
  /\ clock \in 0..MaxClock /\ faults \in 0..MaxFaults
  /\ unindexed \in SUBSET Item

(* Receipts are appended: what is in a ledger stays.                        *)
Grows ==
  \A t \in Txn : ledger[t].state # "none" =>
    /\ ledger'[t].state # "none"
    /\ ledger'[t].kind = ledger[t].kind /\ ledger'[t].items = ledger[t].items
    /\ ledger'[t].before = ledger[t].before

-----------------------------------------------------------------------------
(* Images.                                                                 *)

LEMMA ImageOf ==
  ASSUME NEW S \in SUBSET Item, NEW f \in [S -> Content]
  PROVE  f \in Images /\ DOMAIN f = S
BY DEF Images

LEMMA ImageType ==
  ASSUME NEW f \in Images
  PROVE  DOMAIN f \in SUBSET Item /\ f \in [DOMAIN f -> Content]
BY DEF Images

LEMMA NothingType == Nothing \in Images /\ Nothing \in Bases /\ DOMAIN Nothing = {}
<1>1. Nothing \in [{} -> Content] /\ Nothing \in [{} -> 0..MaxTxn]
  BY DEF Nothing
<1> QED
  BY <1>1 DEF Images, Bases

LEMMA SentinelTypes == NoTxn \in Receipts /\ Idle \in Jobs /\ NoSight \in Sights
<1>1. NoSight \in Sights
  BY NothingType DEF NoSight, Sights
<1>2. 0 \in 0..MaxTxn /\ {} \in SUBSET Item
  BY BoundsAssumption
<1> QED
  BY <1>1, <1>2, NothingType DEF NoTxn, Receipts, Idle, Jobs

LEMMA SnapshotType ==
  ASSUME Typed, NEW S \in SUBSET Item, \A i \in S : Present(i)
  PROVE  Snapshot(S) \in Images /\ DOMAIN Snapshot(S) = S
<1>1. Snapshot(S) \in [S -> Content]
  BY DEF Typed, Present, Snapshot
<1> QED
  BY <1>1, ImageOf

LEMMA ContainedType ==
  ASSUME NEW c \in Content
  PROVE  Contained(c) \in Content
<1>1. /\ c.conf \in 0..MaxConf
      /\ (IF c.conf <= FloorConf THEN FloorConf ELSE c.conf - 1) \in 0..MaxConf
  BY BoundsAssumption DEF Content
<1> QED
  BY <1>1 DEF Contained, Content

\* The receipt a decision restores from is the last one of the item.
LEMMA LastBaseline ==
  ASSUME NEW i \in Item, IsBaseline(i)
  PROVE  /\ Last(Containments(i)) \in Containments(i)
         /\ \A s \in Containments(i) : s <= Last(Containments(i))
BY DEF IsBaseline, Last

LEMMA RestoredType ==
  ASSUME Typed, NEW i \in Item, Present(i)
  PROVE  /\ Restored(i) \in Content
         /\ Restored(i).text = md[i].text /\ Restored(i).mature = md[i].mature
         /\ Restored(i).by = md[i].by
<1>1. md[i] \in Content
  BY DEF Typed, Present
<1>2. CASE i \in Case /\ IsBaseline(i)
  <2> DEFINE t == Last(Containments(i))
             b == ledger[t].before[i]
  <2>1. t \in Txn /\ i \in ledger[t].items
    BY <1>2, LastBaseline DEF Containments, Of
  <2>2. ledger[t].before \in Images /\ i \in DOMAIN ledger[t].before
    BY <2>1 DEF Typed, LedgerTyped, Receipts
  <2>3. b \in Content
    BY <2>2, ImageType
  <2>4. Restored(i) = [md[i] EXCEPT !.held = b.held, !.marks = b.marks, !.conf = b.conf]
    BY <1>2 DEF Restored
  <2> QED
    BY <1>1, <2>3, <2>4 DEF Content
<1>3. CASE ~(i \in Case /\ IsBaseline(i))
  BY <1>1, <1>3 DEF Restored
<1> QED
  BY <1>2, <1>3

LEMMA DecidedType ==
  ASSUME Typed, NEW action \in AllActions, NEW target \in Item \cup {None},
         NEW i \in Item, Present(i)
  PROVE  Decided(action, target, i) \in Content
<1>1. \A mark \in AllActions \cup {"resolved"} : Mark(Restored(i), mark) \in Content
  BY RestoredType DEF Mark, Content
<1> QED
  BY <1>1 DEF Decided, Content, AllActions

-----------------------------------------------------------------------------
(* Type correctness.                                                       *)

LEMMA FitsStable ==
  ASSUME Typed, Grows, NEW p \in Worker
  PROVE  Fits(job[p], ledger')
BY DEF Typed, Fits, Grows

\* Whoever is not inside the locks leaves those who are alone.
Excluded(p) == lock \in {None, p} \/ (lock' = lock /\ md' = md)

\* A step of one process keeps the types if it keeps those of what it touches.
LEMMA TypedStep ==
  ASSUME Typed, LedgerTyped', Grows, NEW p \in Worker, Excluded(p),
         NEW j, Step(p, j), j \in Jobs, Fits(j, ledger'),
         j.at \in Inside => lock' = p,
         j.at = "write" => \A i \in ledger'[j.txn].items : md'[i] # None,
         md' \in [Item -> Content \cup {None}], lock' \in Worker \cup {None},
         clock' \in 0..MaxClock, faults' \in 0..MaxFaults, unindexed' \in SUBSET Item
  PROVE  Typed'
<1>1. job' \in [Worker -> Jobs] /\ job'[p] = j
  BY DEF Typed, Step
<1>2. ASSUME NEW q \in Worker
      PROVE  Fits(job'[q], ledger') /\ Owns(q)'
  <2>1. CASE q = p
    BY <1>1, <2>1 DEF Owns, Present
  <2>2. CASE q # p
    <3>1. job'[q] = job[q]
      BY <2>2 DEF Typed, Step
    <3>2. Fits(job[q], ledger')
      BY FitsStable
    <3>3. CASE job[q].at \in Inside
      <4>1. lock = q /\ lock' = lock /\ md' = md
        BY <2>2, <3>3, ItemsAssumption DEF Typed, Owns, Excluded
      <4>2. job[q].at = "write" => ledger'[job[q].txn].items = ledger[job[q].txn].items
        BY DEF Typed, Fits, Grows
      <4> QED
        BY <3>1, <3>2, <4>1, <4>2 DEF Typed, Owns, Present
    <3>4. CASE job[q].at \notin Inside
      BY <3>1, <3>2, <3>4 DEF Owns, Inside
    <3> QED
      BY <3>3, <3>4
  <2> QED
    BY <2>1, <2>2
<1>3. \A q \in Worker : Fits(job[q], ledger)' /\ Owns(q)'
  BY <1>2 DEF Fits
<1> QED
  BY <1>1, <1>3 DEF Typed

LEMMA SameLedger ==
  ASSUME Typed, ledger' = ledger
  PROVE  LedgerTyped' /\ Grows
BY DEF Typed, LedgerTyped, Grows

\* A prepared receipt is a new row of the table.
LEMMA NewReceipt ==
  ASSUME Typed, NEW t \in Txn, IsNext(t), NEW r \in Receipts,
         r.kind # "none", r.state = "prepared", DOMAIN r.before = r.items,
         ledger' = [ledger EXCEPT ![t] = r]
  PROVE  LedgerTyped' /\ Grows
<1>1. ledger[t].state = "none"
  BY DEF IsNext, Txn
<1> QED
  BY <1>1 DEF Typed, LedgerTyped, Grows

LEMMA SettledType ==
  ASSUME Typed, NEW t \in Txn, ledger[t].state # "none",
         NEW state \in {"completed", "rolled_back"},
         NEW after \in Images, DOMAIN after = ledger[t].items, NEW repair \in BOOLEAN,
         ledger' = Settled(t, state, after, repair)
  PROVE  LedgerTyped' /\ Grows
<1> DEFINE r == [ledger[t] EXCEPT !.state = IF @ = "prepared" THEN state ELSE "twice",
                                  !.after = after, !.repair = repair]
<1>1. ledger[t] \in Receipts
  BY DEF Typed, LedgerTyped
<1>2. r \in Receipts /\ r.state \in {"completed", "rolled_back", "twice"} /\ r.after = after
      /\ r.kind = ledger[t].kind /\ r.items = ledger[t].items /\ r.before = ledger[t].before
  BY <1>1 DEF Receipts
<1>3. ledger' = ledger \/ ledger' = [ledger EXCEPT ![t] = r]
  BY <1>1 DEF Settled, Typed, LedgerTyped
<1> HIDE DEF r
<1> QED
  BY <1>1, <1>2, <1>3, SameLedger DEF Typed, LedgerTyped, Grows

LEMMA LeaveType ==
  ASSUME Typed, LedgerTyped', Grows, NEW p \in Worker, Excluded(p), Leave(p),
         md' \in [Item -> Content \cup {None}], lock' \in Worker \cup {None},
         clock' \in 0..MaxClock, faults' \in 0..MaxFaults, unindexed' \in SUBSET Item
  PROVE  Typed'
<1>1. Idle \in Jobs /\ Fits(Idle, ledger') /\ Idle.at \notin Inside /\ Idle.at # "write"
  BY SentinelTypes DEF Idle, Fits, Inside
<1> QED
  BY <1>1, TypedStep DEF Leave

\* The decisions a preview was ready for are of items that are there.
LEMMA SightType ==
  ASSUME Typed, NEW action \in AllActions, NEW target \in Item \cup {None},
         ResolveAllowed(action, target)
  PROVE  /\ Sight(action, target) \in Sights
         /\ DecisionItems(action, target) \in SUBSET Item
         /\ \A i \in DecisionItems(action, target) : Present(i)
         /\ DOMAIN Sight(action, target).before = DecisionItems(action, target)
         /\ Sight(action, target).action = action /\ Sight(action, target).target = target
         /\ \A i \in DecisionItems(action, target) : Sight(action, target).before[i] = md[i]
<1> DEFINE ids == DecisionItems(action, target)
           image == [i \in ids |-> md[i]]
           base == IF action = "defer" THEN Nothing ELSE Baselines
<1>1. ids \in SUBSET Item /\ \A i \in ids : Present(i)
  BY DEF ResolveAllowed, ValidTarget, DecisionItems, Item, AllActions
<1>2. image \in Images /\ DOMAIN image = ids
  BY <1>1, SnapshotType DEF Snapshot
<1>3. \A i \in Case : (IF IsBaseline(i) THEN Last(Containments(i)) ELSE 0) \in 0..MaxTxn
  BY LastBaseline, BoundsAssumption DEF Containments, Of, Txn, Item
<1>4. Baselines \in [Case -> 0..MaxTxn]
  BY <1>3 DEF Baselines
<1>5. base \in Bases
  BY <1>4, NothingType DEF Bases, Item
<1>6. Sight(action, target) =
        [action |-> action, target |-> target, before |-> image, base |-> base]
  BY DEF Sight
<1> HIDE DEF base, image
<1>7. Sight(action, target) \in Sights
  BY <1>2, <1>5, <1>6 DEF Sights
<1> QED
  BY <1>1, <1>2, <1>6, <1>7 DEF image

LEMMA WritingType ==
  ASSUME Typed, NEW t \in Txn, NEW plan \in Images, NEW s \in Sights
  PROVE  Writing(t, plan, s) \in Jobs
BY BoundsAssumption, ImageType DEF Writing, Jobs, Txn

LEMMA ContainType ==
  ASSUME Typed, NEW p \in Worker, Survey(p) \/ ContainPrepare(p) \/ ContainRefused(p)
  PROVE  Typed'
<1>0. Idle \in Jobs /\ NoTxn \in Receipts /\ job[p] \in Jobs
  BY SentinelTypes DEF Typed
<1>1. CASE Survey(p)
  <2> DEFINE j == [Idle EXCEPT !.at = "contain"]
  <2>1. j \in Jobs /\ Fits(j, ledger') /\ j.at = "contain"
    BY <1>0 DEF Jobs, Idle, Fits
  <2>2. Step(p, j)
    BY <1>1 DEF Survey
  <2> HIDE DEF j
  <2> QED
    BY <1>1, <2>1, <2>2, SameLedger, TypedStep DEF Survey, Typed, Excluded, Inside
<1>2. CASE ContainRefused(p)
  BY <1>2, SameLedger, LeaveType DEF ContainRefused, Typed, Excluded
<1>3. CASE ContainPrepare(p)
  <2> DEFINE image == Snapshot(Exposed)
             plan == [i \in Exposed |-> Contained(md[i])]
  <2>1. Exposed \in SUBSET Item /\ \A i \in Exposed : Present(i)
    BY <1>3 DEF ContainPrepare, ContainAllowed, ProvenanceHealthy, Exposed, Item
  <2>2. image \in Images /\ DOMAIN image = Exposed
    BY <2>1, SnapshotType
  <2>3. \A i \in Exposed : Contained(md[i]) \in Content
    BY <2>1, ContainedType DEF Typed, Present
  <2>4. plan \in Images /\ DOMAIN plan = Exposed
    BY <2>1, <2>3, ImageOf
  <2> HIDE DEF plan, image
  <2>5. PICK t \in Txn :
          /\ IsNext(t)
          /\ ledger' = [ledger EXCEPT ![t] =
               [NoTxn EXCEPT !.kind = "contain", !.state = "prepared", !.items = Exposed,
                             !.before = image]]
          /\ Step(p, Writing(t, plan, NoSight))
    BY <1>3 DEF ContainPrepare, image, plan
  <2> DEFINE r == [NoTxn EXCEPT !.kind = "contain", !.state = "prepared", !.items = Exposed,
                                !.before = image]
             j == Writing(t, plan, NoSight)
  <2>6. /\ r \in Receipts /\ r.kind # "none" /\ r.state = "prepared"
        /\ DOMAIN r.before = r.items /\ r.items = Exposed
    BY <1>0, <2>1, <2>2 DEF Receipts, NoTxn
  <2>7. /\ j \in Jobs /\ j.at = "write" /\ j.txn = t /\ j.todo = Exposed /\ j.plan = plan
    BY <2>4, WritingType, SentinelTypes DEF Writing
  <2>8. ledger' = [ledger EXCEPT ![t] = r] /\ Step(p, j)
    BY <2>5
  <2> HIDE DEF r, j
  <2>9. LedgerTyped' /\ Grows
    BY <2>5, <2>6, <2>8, NewReceipt
  <2>10. ledger'[t] = r
    BY <2>8 DEF Typed, LedgerTyped
  <2>11. Fits(j, ledger')
    BY <2>4, <2>6, <2>7, <2>10 DEF Fits
  <2> QED
    BY <1>3, <2>1, <2>6, <2>7, <2>8, <2>9, <2>10, <2>11, TypedStep
       DEF ContainPrepare, Typed, Excluded, Present
<1> QED
  BY <1>1, <1>2, <1>3

LEMMA ResolveType ==
  ASSUME Typed, NEW p \in Worker,
         \/ \E a \in Actions, g \in Item \cup {None} : Preview(p, a, g)
         \/ ResolvePrepare(p) \/ ResolveRefused(p)
  PROVE  Typed'
<1>0. Idle \in Jobs /\ NoTxn \in Receipts /\ job[p] \in Jobs
  BY SentinelTypes DEF Typed
<1>1. ASSUME NEW a \in Actions, NEW g \in Item \cup {None}, Preview(p, a, g)
      PROVE  Typed'
  <2> DEFINE s == Sight(a, g)
             j == [Idle EXCEPT !.at = "decide", !.sight = s]
  <2>1. s \in Sights /\ s.action \in AllActions
    BY <1>1, SightType, KindsAssumption DEF Preview
  <2> HIDE DEF s
  <2>2. j \in Jobs /\ j.at = "decide" /\ j.sight = s
    BY <1>0, <2>1 DEF Jobs
  <2>3. Step(p, j)
    BY <1>1 DEF Preview, s
  <2> HIDE DEF j
  <2>4. Fits(j, ledger')
    BY <2>1, <2>2 DEF Fits
  <2> QED
    BY <1>1, <2>2, <2>3, <2>4, SameLedger, TypedStep DEF Preview, Typed, Excluded, Inside
<1>2. CASE ResolveRefused(p)
  BY <1>2, SameLedger, LeaveType DEF ResolveRefused, Typed, Excluded
<1>3. CASE ResolvePrepare(p)
  <2> DEFINE s == job[p].sight
             ids == Rewritten(s.action, s.target)
             image == Snapshot(DOMAIN s.before)
             plan == [i \in ids |-> Decided(s.action, s.target, i)]
             until == IF s.action = "defer" THEN clock + 1 ELSE 0
  <2>1. /\ s \in Sights /\ s.action \in AllActions /\ s.target \in Item \cup {None}
    BY <1>0, <1>3 DEF Jobs, Sights, Typed, Fits, ResolvePrepare
  <2>0. until \in Nat
    BY BoundsAssumption DEF Typed
  <2>2. ResolveAllowed(s.action, s.target) /\ s = Sight(s.action, s.target)
    BY <1>3 DEF ResolvePrepare, IntentHolds
  <2>3. /\ DOMAIN s.before \in SUBSET Item /\ DOMAIN s.before = DecisionItems(s.action, s.target)
        /\ \A i \in DOMAIN s.before : Present(i)
    BY <2>1, <2>2, SightType
  <2>4. image \in Images /\ DOMAIN image = DOMAIN s.before
    BY <2>3, SnapshotType
  <2>5. ids \subseteq DOMAIN s.before
    BY <2>3 DEF Rewritten
  <2>6. \A i \in ids : Decided(s.action, s.target, i) \in Content
    BY <2>1, <2>2, <2>3, <2>5, DecidedType
  <2>7. plan \in Images /\ DOMAIN plan = ids
    BY <2>3, <2>5, <2>6, ImageOf
  <2>8. PICK t \in Txn :
          /\ IsNext(t)
          /\ ledger' = [ledger EXCEPT ![t] =
               [NoTxn EXCEPT !.kind = "resolve", !.state = "prepared",
                             !.items = DOMAIN s.before, !.before = image,
                             !.action = s.action, !.target = s.target, !.until = until]]
          /\ Step(p, Writing(t, plan, s))
    BY <1>3 DEF ResolvePrepare
  <2> DEFINE r == [NoTxn EXCEPT !.kind = "resolve", !.state = "prepared",
                                !.items = DOMAIN s.before, !.before = image,
                                !.action = s.action, !.target = s.target, !.until = until]
             j == Writing(t, plan, s)
  <2> HIDE DEF s, ids, image, plan, until
  <2>9. /\ r \in Receipts /\ r.kind # "none" /\ r.state = "prepared"
        /\ DOMAIN r.before = r.items /\ r.items = DOMAIN s.before
    BY <1>0, <2>0, <2>1, <2>3, <2>4 DEF Receipts
  <2>10. /\ j \in Jobs /\ j.at = "write" /\ j.txn = t /\ j.todo = ids /\ j.plan = plan
    BY <2>1, <2>7, WritingType DEF Writing
  <2>11. ledger' = [ledger EXCEPT ![t] = r] /\ Step(p, j)
    BY <2>8
  <2> HIDE DEF r, j
  <2>12. LedgerTyped' /\ Grows
    BY <2>8, <2>9, <2>11, NewReceipt
  <2>13. ledger'[t] = r
    BY <2>11 DEF Typed, LedgerTyped
  <2>14. Fits(j, ledger')
    BY <2>5, <2>7, <2>9, <2>10, <2>13 DEF Fits
  <2> QED
    BY <1>3, <2>3, <2>9, <2>10, <2>11, <2>12, <2>13, <2>14, TypedStep
       DEF ResolvePrepare, Typed, Excluded, Present
<1> QED
  BY <1>1, <1>2, <1>3

LEMMA FaultType ==
  ASSUME Typed, NEW f, Fault(f)
  PROVE  faults' \in 0..MaxFaults
BY BoundsAssumption DEF Typed, Fault

LEMMA ReindexType ==
  ASSUME Typed, NEW S, (Reindexed(S) /\ UNCHANGED faults) \/ ReindexFails(S)
  PROVE  faults' \in 0..MaxFaults /\ unindexed' \in SUBSET Item
<1>1. CASE Reindexed(S) /\ UNCHANGED faults
  BY <1>1 DEF Typed, Reindexed
<1>2. CASE ReindexFails(S)
  BY <1>2, FaultType DEF Typed, ReindexFails
<1> QED
  BY <1>1, <1>2

LEMMA WriteType ==
  ASSUME Typed, NEW p \in Worker, WriteItem(p) \/ Complete(p) \/ Fail(p)
  PROVE  Typed'
<1>0. /\ job[p] \in Jobs /\ Fits(job[p], ledger)
      /\ job[p].at = "write" /\ lock = p /\ Excluded(p)
  BY DEF Typed, Owns, WriteItem, Complete, Fail, Inside, Excluded
<1>t. /\ job[p].txn \in Txn /\ ledger[job[p].txn].state # "none"
      /\ ledger[job[p].txn].items \in SUBSET Item
      /\ \A i \in ledger[job[p].txn].items : Present(i)
  BY <1>0 DEF Fits, Typed, LedgerTyped, Receipts, Owns
<1>1. CASE WriteItem(p)
  <2>1. PICK i \in job[p].todo :
          /\ md' = [md EXCEPT ![i] = job[p].plan[i]]
          /\ Step(p, [job[p] EXCEPT !.todo = @ \ {i}])
          /\ unindexed' = unindexed \cup {i}
    BY <1>1 DEF WriteItem
  <2> DEFINE j == [job[p] EXCEPT !.todo = @ \ {i}]
  <2>2. /\ j \in Jobs /\ j.at = job[p].at /\ j.txn = job[p].txn /\ j.plan = job[p].plan
        /\ j.todo = job[p].todo \ {i}
    BY <1>0 DEF Jobs
  <2>3. Step(p, j)
    BY <2>1
  <2> HIDE DEF j
  <2>4. i \in Item /\ job[p].plan[i] \in Content
    BY <1>0, <2>1, ImageType DEF Jobs, Fits
  <2>5. Fits(j, ledger')
    BY <1>0, <1>1, <2>2 DEF Fits, WriteItem
  <2>6. ledger' = ledger /\ \A k \in ledger[job[p].txn].items : md'[k] # None
    BY <1>1, <1>t, <2>1, <2>4, ItemsAssumption DEF WriteItem, Present, Typed
  <2> QED
    BY <1>0, <1>1, <2>1, <2>2, <2>3, <2>4, <2>5, <2>6, SameLedger, TypedStep DEF WriteItem, Typed
<1>2. CASE Complete(p)
  <2> DEFINE t == job[p].txn
             after == Snapshot(ledger[t].items)
  <2>1. after \in Images /\ DOMAIN after = ledger[t].items
    BY <1>t, SnapshotType
  <2>2. \E repair \in BOOLEAN : ledger' = Settled(t, "completed", after, repair)
    BY <1>2 DEF Complete
  <2> HIDE DEF after
  <2>3. LedgerTyped' /\ Grows
    BY <1>t, <2>1, <2>2, SettledType
  <2>4. faults' \in 0..MaxFaults /\ unindexed' \in SUBSET Item
    BY <1>2, ReindexType DEF Complete
  <2> QED
    BY <1>0, <1>2, <2>3, <2>4, LeaveType DEF Complete, Typed
<1>3. CASE Fail(p)
  <2> DEFINE j == [job[p] EXCEPT !.at = "rollback"]
  <2>1. j \in Jobs /\ j.at = "rollback" /\ j.txn = job[p].txn
    BY <1>0 DEF Jobs
  <2>2. Step(p, j)
    BY <1>3 DEF Fail
  <2> HIDE DEF j
  <2>3. Fits(j, ledger')
    BY <1>0, <1>3, <2>1 DEF Fits, Fail
  <2>4. faults' \in 0..MaxFaults
    BY <1>3, FaultType DEF Fail
  <2> QED
    BY <1>0, <1>3, <2>1, <2>2, <2>3, <2>4, SameLedger, TypedStep DEF Fail, Typed, Inside
<1> QED
  BY <1>1, <1>2, <1>3

LEMMA RecoveryType ==
  ASSUME Typed, NEW p \in Worker,
         \/ \E t \in Txn : ChooseRecovery(p, t)
         \/ Rollback(p) \/ RecoverContainment(p) \/ RecoverDecision(p)
  PROVE  Typed'
<1>0. Idle \in Jobs /\ job[p] \in Jobs /\ Fits(job[p], ledger)
  BY SentinelTypes DEF Typed
<1>1. ASSUME NEW t \in Txn, ChooseRecovery(p, t)
      PROVE  Typed'
  <2> DEFINE j == [Idle EXCEPT !.at = "recover", !.txn = t]
  <2>0. t \in 0..MaxTxn
    BY BoundsAssumption DEF Txn
  <2>1. j \in Jobs /\ j.at = "recover" /\ j.txn = t
    BY <1>0, <2>0 DEF Jobs
  <2>2. /\ Step(p, j) /\ ledger[t].state # "none"
        /\ UNCHANGED <<md, ledger, lock, clock, faults, unindexed>>
    BY <1>1 DEF ChooseRecovery
  <2> HIDE DEF j
  <2>3. Fits(j, ledger')
    BY <2>1, <2>2 DEF Fits
  <2> QED
    BY <2>1, <2>2, <2>3, SameLedger, TypedStep DEF Typed, Excluded, Inside
<1>2. CASE Rollback(p)
  <2> DEFINE todo == ledger[job[p].txn].items
             j == [Idle EXCEPT !.at = "undo", !.txn = job[p].txn, !.todo = todo]
  <2>1. job[p].txn \in Txn /\ ledger[job[p].txn].state # "none" /\ todo \in SUBSET Item
    BY <1>0, <1>2 DEF Rollback, Fits, Typed, LedgerTyped, Receipts
  <2>2. j \in Jobs /\ j.at = "undo" /\ j.txn = job[p].txn /\ j.todo = todo
    BY <1>0, <2>1 DEF Jobs
  <2>3. Step(p, j) /\ lock = None /\ lock' = p /\ UNCHANGED <<md, ledger, clock, faults, unindexed>>
    BY <1>2 DEF Rollback
  <2> HIDE DEF j
  <2>4. Fits(j, ledger')
    BY <2>1, <2>2, <2>3 DEF Fits
  <2> QED
    BY <2>2, <2>3, <2>4, SameLedger, TypedStep DEF Typed, Excluded
<1>r. ASSUME job[p].at = "recover", lock = None, Restoring(p)
      PROVE  Typed'
  <2> DEFINE todo == ledger[job[p].txn].items
             j == [job[p] EXCEPT !.at = "restore", !.todo = todo]
  <2>1. job[p].txn \in Txn /\ ledger[job[p].txn].state # "none" /\ todo \in SUBSET Item
    BY <1>0, <1>r DEF Fits, Typed, LedgerTyped, Receipts
  <2>2. j \in Jobs /\ j.at = "restore" /\ j.txn = job[p].txn /\ j.todo = todo
    BY <1>0, <2>1 DEF Jobs
  <2>3. Step(p, j) /\ lock' = p /\ UNCHANGED <<md, ledger, clock, faults, unindexed>>
    BY <1>r DEF Restoring
  <2> HIDE DEF j
  <2>4. Fits(j, ledger')
    BY <2>1, <2>2, <2>3 DEF Fits
  <2> QED
    BY <1>r, <2>2, <2>3, <2>4, SameLedger, TypedStep DEF Typed, Excluded
<1>3. CASE RecoverContainment(p)
  BY <1>3, <1>r DEF RecoverContainment
<1>4. CASE RecoverDecision(p)
  <2>1. CASE StillIncomplete(job[p].txn)
    BY <1>4, <2>1, <1>r DEF RecoverDecision
  <2>2. CASE ~StillIncomplete(job[p].txn)
    BY <1>4, <2>2, SameLedger, LeaveType DEF RecoverDecision, Typed, Excluded
  <2> QED
    BY <2>1, <2>2
<1> QED
  BY <1>1, <1>2, <1>3, <1>4

LEMMA UndoType ==
  ASSUME Typed, NEW p \in Worker, UndoItem(p) \/ UndoDone(p) \/ UndoFails(p)
  PROVE  Typed'
<1>0. /\ job[p] \in Jobs /\ Fits(job[p], ledger)
      /\ job[p].at \in {"undo", "restore"} /\ lock = p /\ Excluded(p)
  BY DEF Typed, Owns, UndoItem, UndoDone, UndoFails, Inside, Excluded
<1>t. /\ job[p].txn \in Txn /\ ledger[job[p].txn].state # "none"
      /\ ledger[job[p].txn].items \in SUBSET Item
      /\ ledger[job[p].txn].before \in Images
      /\ DOMAIN ledger[job[p].txn].before = ledger[job[p].txn].items
  BY <1>0 DEF Fits, Typed, LedgerTyped, Receipts
<1>1. CASE UndoItem(p)
  <2>1. PICK i \in job[p].todo :
          /\ md' = [md EXCEPT ![i] = ledger[job[p].txn].before[i]]
          /\ Step(p, [job[p] EXCEPT !.todo = @ \ {i}])
          /\ unindexed' = unindexed \cup {i}
    BY <1>1 DEF UndoItem
  <2> DEFINE j == [job[p] EXCEPT !.todo = @ \ {i}]
  <2>2. /\ j \in Jobs /\ j.at = job[p].at /\ j.txn = job[p].txn
        /\ j.todo = job[p].todo \ {i}
    BY <1>0 DEF Jobs
  <2>3. Step(p, j)
    BY <2>1
  <2> HIDE DEF j
  <2>4. i \in Item /\ ledger[job[p].txn].before[i] \in Content
    BY <1>0, <1>t, <2>1, ImageType DEF Fits
  <2>5. Fits(j, ledger')
    BY <1>0, <1>1, <2>2 DEF Fits, UndoItem
  <2> QED
    BY <1>0, <1>1, <2>1, <2>2, <2>3, <2>4, <2>5, SameLedger, TypedStep DEF UndoItem, Typed
<1>2. CASE UndoDone(p)
  <2> DEFINE t == job[p].txn
  <2>1. ledger' = ledger \/ ledger' = Settled(t, "rolled_back", ledger[t].before, TRUE)
    BY <1>2 DEF UndoDone
  <2>2. LedgerTyped' /\ Grows
    BY <1>t, <2>1, SettledType, SameLedger
  <2>3. faults' \in 0..MaxFaults /\ unindexed' \in SUBSET Item
    BY <1>2, ReindexType DEF UndoDone
  <2> QED
    BY <1>0, <1>2, <2>2, <2>3, LeaveType DEF UndoDone, Typed
<1>3. CASE UndoFails(p)
  <2>1. faults' \in 0..MaxFaults
    BY <1>3, FaultType DEF UndoFails, Typed
  <2> QED
    BY <1>0, <1>3, <2>1, SameLedger, LeaveType DEF UndoFails, Typed
<1> QED
  BY <1>1, <1>2, <1>3

\* Other writers hold the catalog lock for their write, so nobody is inside.
LEMMA OthersType ==
  ASSUME Typed,
         \/ \E i \in Item : Edit(i) \/ Mature(i) \/ Approve(i) \/ Delete(i)
         \/ Tick
  PROVE  Typed'
<1>1. CASE \E i \in Item : Edit(i) \/ Mature(i) \/ Approve(i) \/ Delete(i)
  <2>1. PICK i \in Item : Edit(i) \/ Mature(i) \/ Approve(i) \/ Delete(i)
    BY <1>1
  <2>2. /\ lock = None /\ UNCHANGED <<ledger, lock, job, clock, faults, unindexed>>
        /\ md[i] \in Content
    BY <2>1 DEF Edit, Mature, Approve, Delete, Present, Typed
  <2>3. \E c \in Content \cup {None} : md' = [md EXCEPT ![i] = c]
    <3>1. CASE Edit(i)
      <4>1. [md[i] EXCEPT !.text = @ + 1] \in Content
        BY <2>2, <3>1, BoundsAssumption DEF Edit, Content
      <4> QED
        BY <2>2, <3>1, <4>1 DEF Edit, Typed
    <3>2. CASE Mature(i)
      <4>1. [md[i] EXCEPT !.mature = Score(i)] \in Content
        BY <2>2 DEF Score, Content
      <4> QED
        BY <2>2, <3>2, <4>1 DEF Mature, Typed
    <3>3. CASE Approve(i)
      <4> DEFINE marks == md[i].marks \cup {"approved"}
                 c == [md[i] EXCEPT !.held = FALSE, !.conf = MaxConf, !.marks = marks]
      <4>1. MaxConf \in 0..MaxConf /\ md[i].marks \cup {"approved"} = marks
        BY BoundsAssumption
      <4>3. marks \in SUBSET (AllActions \cup {"resolved", "approved"})
        BY <2>2 DEF Content
      <4> HIDE DEF marks
      <4>4. c \in Content
        BY <2>2, <4>1, <4>3 DEF Content
      <4>2. md' = [md EXCEPT ![i] = c]
        BY <2>2, <3>3, <4>1 DEF Approve, Typed
      <4> QED
        BY <4>4, <4>2
    <3>4. CASE Delete(i)
      BY <3>4 DEF Delete
    <3> QED
      BY <2>1, <3>1, <3>2, <3>3, <3>4
  <2>4. LedgerTyped'
    BY <2>2, SameLedger
  <2>5. \A p \in Worker : Fits(job[p], ledger)' /\ Owns(p)'
    BY <2>2, ItemsAssumption DEF Typed, Fits, Owns, Inside
  <2> QED
    BY <2>2, <2>3, <2>4, <2>5 DEF Typed
<1>2. CASE Tick
  <2>1. clock' \in 0..MaxClock
    BY <1>2, BoundsAssumption DEF Tick, Typed
  <2> QED
    BY <1>2, <2>1 DEF Tick, Typed, LedgerTyped, Fits, Owns, Present
<1> QED
  BY <1>1, <1>2

LEMMA CrashType ==
  ASSUME Typed, NEW p \in Worker, Crash(p)
  PROVE  Typed'
<1>1. faults' \in 0..MaxFaults
  BY FaultType DEF Crash
<1> QED
  BY <1>1, SameLedger, LeaveType DEF Crash, Typed, Excluded

LEMMA TypedInit == Init => Typed
<1> SUFFICES ASSUME Init PROVE Typed
  OBVIOUS
<1>1. md \in [Item -> Content \cup {None}]
  BY BoundsAssumption DEF Init, Content
<1>2. LedgerTyped
  BY SentinelTypes, NothingType DEF Init, LedgerTyped, NoTxn
<1>3. job \in [Worker -> Jobs] /\ \A p \in Worker : Fits(job[p], ledger) /\ Owns(p)
  BY SentinelTypes DEF Init, Idle, Fits, Owns, Inside
<1>4. lock \in Worker \cup {None} /\ unindexed \in SUBSET Item
  BY DEF Init
<1>5. clock \in 0..MaxClock /\ faults \in 0..MaxFaults
  BY BoundsAssumption DEF Init
<1> QED
  BY <1>1, <1>2, <1>3, <1>4, <1>5 DEF Typed

LEMMA TypedNext == Typed /\ [Next]_vars => Typed'
<1> SUFFICES ASSUME Typed, [Next]_vars PROVE Typed'
  OBVIOUS
<1>1. CASE UNCHANGED vars
  BY <1>1 DEF vars, Typed, LedgerTyped, Fits, Owns, Present
<1>2. CASE Next
  BY <1>2, ContainType, ResolveType, WriteType, RecoveryType, UndoType, OthersType, CrashType
     DEF Next, Run
<1> QED
  BY <1>1, <1>2

LEMMA AlwaysTyped == Spec => []Typed
BY TypedInit, TypedNext, PTL DEF Spec

\* Half a receipt is left by a process that dies while it appends to a ledger.
TornTyped == torn \subseteq {"contain", "resolve"}
LEMMA TornInit == Init => TornTyped
BY DEF Init, TornTyped
LEMMA TornNext == Typed /\ TornTyped /\ [Next]_vars => TornTyped'
<1> SUFFICES ASSUME Typed, TornTyped, [Next]_vars PROVE TornTyped'
  OBVIOUS
<1>1. ASSUME NEW p \in Worker, Crash(p)
      PROVE  TornTyped'
  <2>1. AppendsTo(p) \subseteq {"contain", "resolve"}
    <3>1. job[p].at \in {"write", "undo", "restore"} =>
            ledger[job[p].txn].kind \in {"contain", "resolve"}
      BY DEF Typed, LedgerTyped, Fits, Receipts
    <3> QED
      BY <3>1 DEF AppendsTo
  <2> QED
    BY <1>1, <2>1 DEF Crash, TornTyped
<1>2. CASE torn' = torn
  BY <1>2 DEF TornTyped
<1> QED
  BY <1>1, <1>2
     DEF Next, Run, vars, Survey, Preview, ChooseRecovery, Fail, Edit, Mature, Approve,
         Delete, Tick, ContainPrepare, ContainRefused, ResolvePrepare, ResolveRefused,
         WriteItem, Complete, Rollback, RecoverContainment, RecoverDecision, Restoring,
         UndoItem, UndoDone, UndoFails

\* Typed is TypeOK and what its proof needs.
LEMMA TypedIsTyped == Typed /\ TornTyped => TypeOK
<1> SUFFICES ASSUME Typed, TornTyped PROVE TypeOK
  OBVIOUS
<1>1. ASSUME NEW t \in Txn
      PROVE  IsReceipt(ledger[t])
  BY ImageType DEF Typed, LedgerTyped, Receipts, IsReceipt, IsImage
<1>2. ASSUME NEW p \in Worker
      PROVE  IsJob(job[p])
  BY ImageType DEF Typed, Jobs, Sights, Fits, IsJob, IsImage
<1> QED
  BY <1>1, <1>2 DEF Typed, LedgerTyped, TornTyped, TypeOK

(* Every variable keeps its type: snapshots are of the items of their        *)
(* receipt and a process writes only what it prepared.                      *)
THEOREM TypeCorrect == Spec => []TypeOK
BY AlwaysTyped, TornInit, TornNext, TypedIsTyped, PTL DEF Spec

-----------------------------------------------------------------------------
(* One open transaction, and what a second terminal receipt takes.         *)

\* The ledger changes by a prepared receipt of a usable ledger, or by a terminal
\* receipt of a process that has written all it had to write.
Opens(t, r) ==
  /\ IsNext(t) /\ r.kind # "none" /\ r.state = "prepared" /\ ~r.repair /\ Usable(r.kind)
  /\ r.kind = "contain" => \E p \in Worker : job[p].at = "contain"
  /\ ledger' = [ledger EXCEPT ![t] = r]
Closes(p, state, after, repair) ==
  /\ job[p].at \in Inside /\ job[p].todo = {} /\ ledger[job[p].txn].kind \notin torn
  /\ state = "rolled_back" <=> job[p].at # "write"
  /\ ~repair => state = "completed" /\ unindexed' = unindexed \ DOMAIN job[p].plan
  /\ ledger' = Settled(job[p].txn, state, after, repair) /\ UNCHANGED md

\* What the two preparations write down: the receipt, and the mutations to come.
Contains(r, plan) ==
  /\ r.kind = "contain" /\ r.items = Exposed /\ r.before = Snapshot(Exposed)
  /\ DOMAIN plan = Exposed
Decides(p, r, plan, s) ==
  /\ s = job[p].sight /\ s.action \in AllActions /\ s.target \in Item \cup {None}
  /\ r.kind = "resolve" /\ r.action = s.action /\ r.target = s.target
  /\ r.items = DOMAIN s.before /\ r.before = Snapshot(r.items)
  /\ r.items = DecisionItems(s.action, s.target)
  /\ r.items \in SUBSET Item /\ \A i \in r.items : Present(i) /\ s.before[i] = md[i]
  /\ DOMAIN plan = Rewritten(s.action, s.target) /\ DOMAIN plan \subseteq r.items
  /\ \A i \in DOMAIN plan : plan[i] = Decided(s.action, s.target, i)

LEMMA ContainPrepares ==
  ASSUME Typed, NEW p \in Worker, ContainPrepare(p)
  PROVE  \E t \in Txn, r \in Receipts, plan \in Images, s \in Sights :
           Opens(t, r) /\ Step(p, Writing(t, plan, s)) /\ Contains(r, plan)
<1> DEFINE image == Snapshot(Exposed)
           plan == [i \in Exposed |-> Contained(md[i])]
           r == [NoTxn EXCEPT !.kind = "contain", !.state = "prepared", !.items = Exposed,
                              !.before = image]
<1>1. Exposed \in SUBSET Item /\ \A i \in Exposed : Present(i)
  BY DEF ContainPrepare, ContainAllowed, ProvenanceHealthy, Exposed, Item
<1>2. image \in Images
  BY <1>1, SnapshotType
<1>3. \A i \in Exposed : Contained(md[i]) \in Content
  BY <1>1, ContainedType DEF Typed, Present
<1>4. plan \in Images /\ DOMAIN plan = Exposed
  BY <1>1, <1>3, ImageOf
<1> HIDE DEF image, plan
<1>5. /\ r \in Receipts /\ r.kind = "contain" /\ r.state = "prepared" /\ ~r.repair
      /\ r.items = Exposed /\ r.before = image
  BY <1>1, <1>2, SentinelTypes DEF Receipts, NoTxn
<1>6. PICK t \in Txn : /\ IsNext(t) /\ ledger' = [ledger EXCEPT ![t] = r]
                      /\ Step(p, Writing(t, plan, NoSight))
  BY DEF ContainPrepare, image, plan
<1>7. Usable("contain") /\ job[p].at = "contain"
  BY DEF ContainPrepare, ContainAllowed, ProvenanceHealthy
<1> HIDE DEF r
<1>8. Opens(t, r) /\ Contains(r, plan)
  BY <1>4, <1>5, <1>6, <1>7 DEF Opens, Contains, image
<1> QED
  BY <1>4, <1>5, <1>6, <1>8, SentinelTypes

LEMMA ResolvePrepares ==
  ASSUME Typed, NEW p \in Worker, ResolvePrepare(p)
  PROVE  \E t \in Txn, r \in Receipts, plan \in Images, s \in Sights :
           Opens(t, r) /\ Step(p, Writing(t, plan, s)) /\ Decides(p, r, plan, s)
<1> DEFINE s == job[p].sight
           ids == Rewritten(s.action, s.target)
           image == Snapshot(DOMAIN s.before)
           plan == [i \in ids |-> Decided(s.action, s.target, i)]
           until == IF s.action = "defer" THEN clock + 1 ELSE 0
           r == [NoTxn EXCEPT !.kind = "resolve", !.state = "prepared",
                              !.items = DOMAIN s.before, !.before = image,
                              !.action = s.action, !.target = s.target, !.until = until]
<1>1. s \in Sights /\ s.action \in AllActions /\ s.target \in Item \cup {None}
  BY DEF Jobs, Sights, Typed, Fits, ResolvePrepare
<1>2. ResolveAllowed(s.action, s.target) /\ s = Sight(s.action, s.target)
  BY DEF ResolvePrepare, IntentHolds
<1>3. /\ DOMAIN s.before \in SUBSET Item /\ DOMAIN s.before = DecisionItems(s.action, s.target)
      /\ \A i \in DOMAIN s.before : Present(i) /\ s.before[i] = md[i]
  BY <1>1, <1>2, SightType
<1>4. image \in Images /\ until \in Nat
  BY <1>3, SnapshotType, BoundsAssumption DEF Typed
<1>5. ids \subseteq DOMAIN s.before
  BY <1>3 DEF Rewritten
<1>6. \A i \in ids : Decided(s.action, s.target, i) \in Content
  BY <1>1, <1>2, <1>3, <1>5, DecidedType
<1>7. /\ plan \in Images /\ DOMAIN plan = ids
      /\ \A i \in ids : plan[i] = Decided(s.action, s.target, i)
  BY <1>3, <1>5, <1>6, ImageOf
<1>8. PICK t \in Txn : /\ IsNext(t) /\ ledger' = [ledger EXCEPT ![t] = r]
                      /\ Step(p, Writing(t, plan, s))
  BY DEF ResolvePrepare
<1>9. Usable("resolve")
  BY <1>2 DEF ResolveAllowed
<1> HIDE DEF s, ids, image, plan, until
<1>10. /\ r \in Receipts /\ r.kind = "resolve" /\ r.state = "prepared" /\ ~r.repair
       /\ r.items = DOMAIN s.before /\ r.before = image /\ r.action = s.action
       /\ r.target = s.target
  BY <1>1, <1>3, <1>4, SentinelTypes DEF Receipts, NoTxn
<1> HIDE DEF r
<1>11. Opens(t, r)
  BY <1>8, <1>9, <1>10 DEF Opens
<1>12. Decides(p, r, plan, s)
  BY <1>1, <1>3, <1>5, <1>7, <1>10 DEF Decides, image, ids, s
<1> QED
  BY <1>1, <1>7, <1>8, <1>10, <1>11, <1>12

LEMMA Prepares ==
  ASSUME Typed, NEW p \in Worker, ContainPrepare(p) \/ ResolvePrepare(p)
  PROVE  \E t \in Txn, r \in Receipts, plan \in Images, s \in Sights :
           Opens(t, r) /\ Step(p, Writing(t, plan, s))
BY ContainPrepares, ResolvePrepares

LEMMA SettleSteps ==
  ASSUME Typed, [Next]_vars, ~\E p \in Worker : ContainPrepare(p) \/ ResolvePrepare(p)
  PROVE  \/ ledger' = ledger
         \/ \E p \in Worker, state \in {"completed", "rolled_back"}, after \in Images,
                repair \in BOOLEAN : Closes(p, state, after, repair)
<1>3. CASE \E p \in Worker : Complete(p)
  <2>1. PICK p \in Worker : Complete(p)
    BY <1>3
  <2> DEFINE t == job[p].txn
             after == Snapshot(ledger[t].items)
  <2>2. ledger[t].items \in SUBSET Item /\ \A i \in ledger[t].items : Present(i)
    BY <2>1 DEF Complete, Typed, LedgerTyped, Receipts, Fits, Owns
  <2>3. after \in Images
    BY <2>2, SnapshotType
  <2>4. PICK repair \in BOOLEAN :
          /\ ledger' = Settled(t, "completed", after, repair)
          /\ repair \/ unindexed' = unindexed \ DOMAIN job[p].plan
    BY <2>1 DEF Complete, Reindexed
  <2> HIDE DEF after
  <2>0. job[p].at = "write" /\ job[p].todo = {} /\ md' = md
    BY <2>1 DEF Complete
  <2>5. ledger[t].kind \notin torn => Closes(p, "completed", after, repair)
    BY <2>0, <2>4 DEF Closes, Inside
  <2>6. ledger[t].kind \in torn => ledger' = ledger
    BY <2>4 DEF Settled
  <2> QED
    BY <2>3, <2>5, <2>6
<1>4. CASE \E p \in Worker : UndoDone(p)
  <2>1. PICK p \in Worker : UndoDone(p)
    BY <1>4
  <2> DEFINE t == job[p].txn
  <2>2. ledger[t].before \in Images
    BY <2>1 DEF UndoDone, Typed, LedgerTyped, Receipts, Fits
  <2>3. ledger' = ledger \/ ledger' = Settled(t, "rolled_back", ledger[t].before, TRUE)
    BY <2>1 DEF UndoDone
  <2>4. ledger' # ledger => Closes(p, "rolled_back", ledger[t].before, TRUE)
    <3>1. job[p].at \in {"undo", "restore"} /\ job[p].todo = {} /\ md' = md
      BY <2>1 DEF UndoDone
    <3> QED
      BY <2>3, <3>1 DEF Closes, Inside, Settled
  <2> QED
    BY <2>2, <2>4
<1>5. CASE ledger' = ledger
  BY <1>5
<1> QED
  BY <1>3, <1>4, <1>5
     DEF Next, Run, vars, Survey, Preview, ChooseRecovery, Fail, Crash, Edit, Mature, Approve,
         Delete, Tick, ContainRefused, ResolveRefused, WriteItem, Rollback, RecoverContainment,
         RecoverDecision, Restoring, UndoItem, UndoFails

LEMMA LedgerSteps ==
  ASSUME Typed, [Next]_vars
  PROVE  \/ ledger' = ledger
         \/ \E t \in Txn, r \in Receipts : Opens(t, r)
         \/ \E p \in Worker, state \in {"completed", "rolled_back"}, after \in Images,
                repair \in BOOLEAN : Closes(p, state, after, repair)
BY SettleSteps, Prepares

LEMMA OneOpenNext == Typed /\ OneOpen /\ [Next]_vars => OneOpen'
<1> SUFFICES ASSUME Typed, OneOpen, [Next]_vars PROVE OneOpen'
  OBVIOUS
<1>1. CASE ledger' = ledger
  BY <1>1 DEF OneOpen
<1>2. ASSUME NEW t \in Txn, NEW r \in Receipts, Opens(t, r)
      PROVE  OneOpen'
  <2>1. \A s \in Txn : ledger'[s] = IF s = t THEN r ELSE ledger[s]
    BY <1>2 DEF Opens, Typed, LedgerTyped
  <2>2. \A s \in Txn : ledger[s].kind = r.kind => ledger[s].state # "prepared"
    BY <1>2 DEF Opens, Usable, Incomplete, Of
  <2> QED
    BY <2>1, <2>2 DEF OneOpen
<1>3. ASSUME NEW p \in Worker, NEW state \in {"completed", "rolled_back"}, NEW after \in Images,
             NEW repair \in BOOLEAN, Closes(p, state, after, repair)
      PROVE  OneOpen'
  <2> DEFINE t == job[p].txn
  <2>1. t \in Txn
    BY <1>3 DEF Closes, Inside, Typed, Fits
  <2>2. /\ ledger'[t].state # "prepared"
        /\ \A s \in Txn \ {t} : ledger'[s] = ledger[s]
    BY <1>3, <2>1 DEF Closes, Settled, Typed, LedgerTyped, Receipts
  <2> QED
    BY <2>1, <2>2 DEF OneOpen
<1> QED
  BY <1>1, <1>2, <1>3, LedgerSteps

(* No ledger ever has two open transactions: the check of the ledger is made *)
(* under the lock under which the prepared receipt is appended.             *)
THEOREM OneOpenHolds == Spec => []OneOpen
<1>1. Init => OneOpen
  BY DEF Init, OneOpen, NoTxn
<1> QED
  BY <1>1, AlwaysTyped, OneOpenNext, PTL DEF Spec

-----------------------------------------------------------------------------
(* What a process inside the locks relies on.                              *)

Acts(p) ==
  \/ Survey(p)
  \/ \E a \in Actions, g \in Item \cup {None} : Preview(p, a, g)
  \/ \E t \in Txn : ChooseRecovery(p, t)
  \/ Run(p) \/ Fail(p) \/ Crash(p)

\* While a process is inside the locks nobody else writes a file or a receipt.
LEMMA Alone ==
  ASSUME Typed, [Next]_vars, NEW q \in Worker, job'[q].at \in Inside, ~Acts(q)
  PROVE  job[q].at \in Inside /\ job'[q] = job[q] /\ md' = md /\ ledger' = ledger
<1>1. CASE \E p \in Worker : Acts(p)
  <2>1. PICK p \in Worker : Acts(p) /\ p # q
    BY <1>1
  <2>2. \E j : Step(p, j)
    BY <2>1 DEF Acts, Run, Leave, Survey, ContainPrepare, ContainRefused, Preview,
         ResolvePrepare, ResolveRefused, WriteItem, Complete, Fail, Rollback, ChooseRecovery,
         Restoring, RecoverContainment, RecoverDecision, UndoItem, UndoDone, UndoFails, Crash
  <2>3. job'[q] = job[q]
    BY <2>1, <2>2 DEF Step, Typed
  <2>4. lock = q /\ lock # None /\ lock # p
    BY <2>1, <2>3, ItemsAssumption DEF Typed, Owns
  <2>5. job[p].at \notin Inside
    BY <2>1, <2>4 DEF Typed, Owns
  <2>6. md' = md /\ ledger' = ledger
    BY <2>1, <2>4, <2>5
       DEF Acts, Run, Inside, Leave, Survey, ContainPrepare, ContainRefused, Preview,
         ResolvePrepare, ResolveRefused, WriteItem, Complete, Fail, Rollback, ChooseRecovery,
         Restoring, RecoverContainment, RecoverDecision, UndoItem, UndoDone, UndoFails, Crash
  <2> QED
    BY <2>3, <2>6
<1>2. CASE \E i \in Item : Edit(i) \/ Mature(i) \/ Approve(i) \/ Delete(i)
  <2>1. lock = None /\ job' = job
    BY <1>2 DEF Edit, Mature, Approve, Delete
  <2> QED
    BY <2>1, ItemsAssumption DEF Typed, Owns
<1>3. CASE Tick \/ UNCHANGED vars
  BY <1>3 DEF Tick, vars
<1> QED
  BY <1>1, <1>2, <1>3 DEF Next, Acts

(* What is being written, and a decision that is being recovered, has no     *)
(* terminal receipt yet: RecoverDecision looks again once it has the locks. *)
Unsettled(p) ==
  /\ job[p].at = "write" => ledger[job[p].txn].state = "prepared"
  /\ job[p].at = "restore" /\ ledger[job[p].txn].kind = "resolve" =>
       ledger[job[p].txn].state = "prepared"

LEMMA UnsettledNext ==
  ASSUME Typed, \A p \in Worker : Unsettled(p), [Next]_vars, NEW q \in Worker
  PROVE  Unsettled(q)'
<1> SUFFICES ASSUME job'[q].at \in {"write", "restore"}
             PROVE  Unsettled(q)'
  BY DEF Unsettled
<1>1. CASE ~Acts(q)
  BY <1>1, Alone DEF Unsettled, Inside
<1>2. CASE ContainPrepare(q) \/ ResolvePrepare(q)
  <2>1. PICK t \in Txn, r \in Receipts, plan \in Images, s \in Sights :
          Opens(t, r) /\ Step(q, Writing(t, plan, s))
    BY <1>2, Prepares
  <2>2. job'[q] = Writing(t, plan, s) /\ ledger'[t] = r
    BY <2>1 DEF Opens, Step, Typed, LedgerTyped
  <2> QED
    BY <2>1, <2>2 DEF Opens, Unsettled, Writing
<1>3. CASE WriteItem(q) \/ UndoItem(q)
  <2>1. /\ ledger' = ledger /\ job'[q].at = job[q].at /\ job'[q].txn = job[q].txn
    BY <1>3 DEF WriteItem, UndoItem, Step, Typed, Jobs
  <2> QED
    BY <2>1 DEF Unsettled
<1>4. CASE RecoverContainment(q) \/ RecoverDecision(q)
  <2>1. /\ ledger' = ledger
        /\ job'[q].at # "idle" =>
             job'[q].at = "restore" /\ job'[q].txn = job[q].txn
    BY <1>4, SentinelTypes
       DEF RecoverContainment, RecoverDecision, Restoring, Leave, Step, Typed, Jobs, Idle
  <2>2. RecoverDecision(q) /\ ledger[job[q].txn].state # "prepared" => job'[q].at = "idle"
    BY DEF RecoverDecision, StillIncomplete, Leave, Step, Typed, Idle
  <2>3. RecoverContainment(q) => ledger[job[q].txn].kind = "contain"
    BY DEF RecoverContainment
  <2> QED
    BY <1>4, <2>1, <2>2, <2>3 DEF Unsettled
<1>5. CASE Survey(q) \/ (\E a \in Actions, g \in Item \cup {None} : Preview(q, a, g))
           \/ (\E t \in Txn : ChooseRecovery(q, t)) \/ Fail(q) \/ Rollback(q)
  <2>1. job'[q].at \in {"contain", "decide", "recover", "undo"} \/ Fail(q)
    BY <1>5 DEF Survey, Preview, ChooseRecovery, Rollback, Step, Typed, Idle
  <2>2. Fail(q) => job'[q].at = "rollback"
    BY DEF Fail, Step, Typed, Jobs
  <2> QED
    BY <2>1, <2>2
<1>6. CASE ContainRefused(q) \/ ResolveRefused(q) \/ Complete(q) \/ UndoDone(q) \/ UndoFails(q)
           \/ Crash(q)
  <2>1. job'[q] = Idle
    BY <1>6 DEF ContainRefused, ResolveRefused, Complete, UndoDone, UndoFails, Crash, Leave, Step,
         Typed
  <2> QED
    BY <2>1 DEF Idle
<1> QED
  BY <1>1, <1>2, <1>3, <1>4, <1>5, <1>6 DEF Acts, Run

AllUnsettled == \A p \in Worker : Unsettled(p)

LEMMA AlwaysUnsettled == Spec => []AllUnsettled
<1>1. Init => AllUnsettled
  BY DEF Init, AllUnsettled, Unsettled, Idle
<1>2. Typed /\ AllUnsettled /\ [Next]_vars => AllUnsettled'
  <2> SUFFICES ASSUME Typed, AllUnsettled, [Next]_vars, NEW q \in Worker PROVE Unsettled(q)'
    BY DEF AllUnsettled
  <2> QED
    BY UnsettledNext DEF AllUnsettled
<1> QED
  BY <1>1, <1>2, AlwaysTyped, PTL DEF Spec

(* A second terminal receipt of a decision comes only from the rollback of   *)
(* a process that failed: a recovery looks at the ledger again under the    *)
(* locks, and whoever writes still has its transaction open.                *)
THEOREM RecoveriesRecheck == Spec => RecoveryRechecks
<1>1. Typed /\ AllUnsettled /\ [Next]_vars =>
        [\A t \in Of("resolve") :
           ledger[t].state # "twice" /\ ledger'[t].state = "twice" =>
             \E p \in Worker : job[p].at = "undo" /\ job[p].txn = t]_vars
  <2> SUFFICES ASSUME Typed, AllUnsettled, [Next]_vars, NEW t \in Of("resolve"),
                      ledger[t].state # "twice", ledger'[t].state = "twice"
               PROVE  \E p \in Worker : job[p].at = "undo" /\ job[p].txn = t
    OBVIOUS
  <2>1. t \in Txn /\ ledger[t].kind = "resolve" /\ ledger[t].state # "none"
    BY DEF Of, Typed, LedgerTyped
  <2>2. CASE \E u \in Txn, r \in Receipts : Opens(u, r)
    BY <2>1, <2>2 DEF Opens, Typed, LedgerTyped
  <2>3. ASSUME NEW p \in Worker, NEW state \in {"completed", "rolled_back"}, NEW after \in Images,
               NEW repair \in BOOLEAN, Closes(p, state, after, repair)
        PROVE  job[p].at = "undo" /\ job[p].txn = t
    <3>1. job[p].txn \in Txn
      BY <2>3 DEF Closes, Inside, Typed, Fits
    <3>2. job[p].txn = t
      BY <2>1, <2>3, <3>1 DEF Closes, Settled, Typed, LedgerTyped
    <3>3. ledger[t].state # "prepared"
      BY <2>1, <2>3, <3>2 DEF Closes, Settled, Typed, LedgerTyped, Receipts
    <3> QED
      BY <2>1, <2>3, <3>2, <3>3 DEF Closes, Inside, AllUnsettled, Unsettled
  <2> QED
    BY <2>2, <2>3, LedgerSteps
<1> QED
  BY <1>1, AlwaysTyped, AlwaysUnsettled, PTL DEF Spec, RecoveryRechecks

-----------------------------------------------------------------------------
(* The index debt of decisions.                                            *)

\* What a process has in hand, only it changes.
LEMMA Others ==
  ASSUME Typed, NEW p \in Worker, Acts(p)
  PROVE  \A q \in Worker \ {p} : job'[q] = job[q]
<1>1. \E j : Step(p, j)
  BY DEF Acts, Run, Leave, Survey, ContainPrepare, ContainRefused, Preview,
     ResolvePrepare, ResolveRefused, WriteItem, Complete, Fail, Rollback, ChooseRecovery,
     Restoring, RecoverContainment, RecoverDecision, UndoItem, UndoDone, UndoFails, Crash
<1> QED
  BY <1>1 DEF Step, Typed

\* What each operation leaves in hand.
LEMMA JobSteps ==
  ASSUME Typed, NEW p \in Worker
  PROVE  /\ Survey(p) => job'[p].at = "contain"
         /\ (\E a \in Actions, g \in Item \cup {None} : Preview(p, a, g)) => job'[p].at = "decide"
         /\ (\E t \in Txn : ChooseRecovery(p, t)) => job'[p].at = "recover"
         /\ WriteItem(p) =>
              /\ job'[p].at = "write" /\ job'[p].txn = job[p].txn
              /\ job'[p].plan = job[p].plan /\ job'[p].sight = job[p].sight
         /\ UndoItem(p) => job'[p].at = job[p].at /\ job'[p].txn = job[p].txn
         /\ Fail(p) => job'[p].at = "rollback" /\ job'[p].txn = job[p].txn
         /\ Rollback(p) => job'[p].at = "undo" /\ job'[p].txn = job[p].txn
         /\ RecoverContainment(p) \/ RecoverDecision(p) =>
              job'[p].at = "idle" \/ (job'[p].at = "restore" /\ job'[p].txn = job[p].txn)
         /\ ContainPrepare(p) \/ ResolvePrepare(p) => job'[p].at = "write"
         /\ ContainRefused(p) \/ ResolveRefused(p) \/ Complete(p) \/ UndoDone(p) \/ UndoFails(p)
              \/ Crash(p) => job'[p].at = "idle"
<1>1. /\ Survey(p) => job'[p].at = "contain"
      /\ (\E a \in Actions, g \in Item \cup {None} : Preview(p, a, g)) => job'[p].at = "decide"
      /\ (\E t \in Txn : ChooseRecovery(p, t)) => job'[p].at = "recover"
  BY DEF Survey, Preview, ChooseRecovery, Step, Typed, Idle
<1>2. /\ WriteItem(p) =>
           /\ job'[p].at = "write" /\ job'[p].txn = job[p].txn
           /\ job'[p].plan = job[p].plan /\ job'[p].sight = job[p].sight
      /\ UndoItem(p) => job'[p].at = job[p].at /\ job'[p].txn = job[p].txn
      /\ Fail(p) => job'[p].at = "rollback" /\ job'[p].txn = job[p].txn
  BY DEF WriteItem, UndoItem, Fail, Step, Typed, Jobs
<1>3. Rollback(p) => job'[p].at = "undo" /\ job'[p].txn = job[p].txn
  BY DEF Rollback, Step, Typed, Jobs, Idle
<1>0. Leave(p) => job'[p].at = "idle"
  BY DEF Leave, Step, Typed, Idle
<1>r. Restoring(p) => job'[p].at = "restore" /\ job'[p].txn = job[p].txn
  BY DEF Restoring, Step, Typed, Jobs
<1>4. RecoverContainment(p) \/ RecoverDecision(p) =>
        job'[p].at = "idle" \/ (job'[p].at = "restore" /\ job'[p].txn = job[p].txn)
  BY <1>0, <1>r DEF RecoverContainment, RecoverDecision
<1>5. ContainPrepare(p) \/ ResolvePrepare(p) => job'[p].at = "write"
  BY DEF ContainPrepare, ResolvePrepare, Step, Typed, Writing
<1>6. ContainRefused(p) \/ ResolveRefused(p) \/ Complete(p) \/ UndoDone(p) \/ UndoFails(p)
        \/ Crash(p) => job'[p].at = "idle"
  BY <1>0 DEF ContainRefused, ResolveRefused, Complete, UndoDone, UndoFails, Crash
<1> QED
  BY <1>1, <1>2, <1>3, <1>4, <1>5, <1>6

\* Who writes went on writing, or has just prepared.
LEMMA WriteSteps ==
  ASSUME Typed, [Next]_vars, NEW q \in Worker, job'[q].at = "write"
  PROVE  \/ ContainPrepare(q) \/ ResolvePrepare(q)
         \/ /\ job[q].at = "write" /\ ledger' = ledger
            /\ job'[q].txn = job[q].txn /\ job'[q].plan = job[q].plan
            /\ job'[q].sight = job[q].sight
            /\ WriteItem(q) \/ (job'[q] = job[q] /\ md' = md)
<1>1. CASE ~Acts(q)
  BY <1>1, Alone DEF Inside
<1>2. CASE WriteItem(q)
  BY <1>2, JobSteps DEF WriteItem
<1>3. CASE UndoItem(q)
  BY <1>3, JobSteps DEF UndoItem
<1> QED
  BY <1>1, <1>2, <1>3, JobSteps DEF Acts, Run

LEMMA OwnJob ==
  ASSUME Typed, [Next]_vars, NEW q \in Worker, ~Acts(q)
  PROVE  job'[q] = job[q]
<1>1. CASE \E p \in Worker : Acts(p)
  BY <1>1, Others
<1>2. CASE ~\E p \in Worker : Acts(p)
  BY <1>2 DEF Next, Acts, vars, Edit, Mature, Approve, Delete, Tick
<1> QED
  BY <1>1, <1>2

\* Nobody starts to write a transaction that has a receipt.
LEMMA WriterStays ==
  ASSUME Typed, [Next]_vars, NEW t \in Txn, ledger[t].state # "none",
         NEW q \in Worker, job'[q].at = "write", job'[q].txn = t
  PROVE  /\ ledger' = ledger /\ job[q].at = "write" /\ job[q].txn = t
         /\ job'[q].plan = job[q].plan
<1>1. CASE ContainPrepare(q) \/ ResolvePrepare(q)
  <2>1. PICK u \in Txn, r \in Receipts, plan \in Images, s \in Sights :
          Opens(u, r) /\ Step(q, Writing(u, plan, s))
    BY <1>1, Prepares
  <2>2. job'[q].txn = u
    BY <2>1 DEF Step, Writing, Typed
  <2>3. ledger[u].state = "none"
    BY <2>1 DEF Opens, IsNext, Txn
  <2> QED
    BY <2>2, <2>3
<1> QED
  BY <1>1, WriteSteps

\* Nobody else writes the transaction of a process that undoes it.
Undoing(p) ==
  job[p].at \in {"rollback", "undo"} =>
    /\ ledger[job[p].txn].state = "prepared" \/ ledger[job[p].txn].repair
    /\ \A q \in Worker : job[q].at = "write" => job[q].txn # job[p].txn
\* An item is owed if every process that may complete its transaction wrote it.
Owed(i) ==
  \E t \in Txn :
    /\ i \in ledger[t].items
    /\ \/ ledger[t].repair
       \/ /\ ledger[t].state = "prepared"
          /\ \A p \in Worker : job[p].at = "write" /\ job[p].txn = t => i \in DOMAIN job[p].plan
Debts ==
  /\ \A t \in Txn : ledger[t].kind # "contain"
  /\ \A t \in Txn : ledger[t].repair => ledger[t].state \notin {"none", "prepared"}
  /\ \A p \in Worker : job[p].at # "contain" /\ Undoing(p)
  /\ \A i \in unindexed : Owed(i)

\* The index falls behind only by the item writes of who holds the locks.
LEMMA UnindexedSteps ==
  ASSUME Typed, [Next]_vars, NEW i \in unindexed', i \notin unindexed
  PROVE  \E p \in Worker : (WriteItem(p) \/ UndoItem(p)) /\ i \in job[p].todo
<1>1. ASSUME NEW p \in Worker, Acts(p)
      PROVE  (WriteItem(p) \/ UndoItem(p)) /\ i \in job[p].todo
  BY <1>1 DEF Acts, Run, Survey, ContainPrepare, ContainRefused, Preview, ResolvePrepare,
       ResolveRefused, WriteItem, Complete, Fail, Rollback, ChooseRecovery, Restoring,
       RecoverContainment, RecoverDecision, UndoItem, UndoDone, UndoFails, Crash, Reindexed,
       ReindexFails
<1>2. CASE ~\E p \in Worker : Acts(p)
  BY <1>2 DEF Next, Acts, vars, Edit, Mature, Approve, Delete, Tick
<1> QED
  BY <1>1, <1>2

\* A terminal receipt changes one row of the table.
LEMMA ClosesStep ==
  ASSUME Typed, NEW p \in Worker, NEW state \in {"completed", "rolled_back"},
         NEW after \in Images, NEW repair \in BOOLEAN, Closes(p, state, after, repair)
  PROVE  /\ job[p].txn \in Txn /\ ledger[job[p].txn].state # "none"
         /\ \A t \in Txn \ {job[p].txn} : ledger'[t] = ledger[t]
         /\ ledger'[job[p].txn].repair = repair
         /\ ledger'[job[p].txn].state =
              IF ledger[job[p].txn].state = "prepared" THEN state ELSE "twice"
         /\ ledger'[job[p].txn].kind = ledger[job[p].txn].kind
         /\ ledger'[job[p].txn].items = ledger[job[p].txn].items
         /\ ledger'[job[p].txn].before = ledger[job[p].txn].before
         /\ ledger'[job[p].txn].after = after
<1>1. job[p].txn \in Txn /\ ledger[job[p].txn].state # "none"
  BY DEF Closes, Inside, Typed, Fits
<1> QED
  BY <1>1 DEF Closes, Settled, Typed, LedgerTyped, Receipts

LEMMA DebtsNext ==
  ASSUME "contain" \notin Kinds, Typed, AllUnsettled, Debts, [Next]_vars
  PROVE  Debts'
<1>1. ASSUME NEW p \in Worker
      PROVE  job'[p].at # "contain"
  <2>1. ~Survey(p)
    BY DEF Survey
  <2>2. Acts(p) => job'[p].at # "contain"
    BY <2>1, JobSteps DEF Acts, Run, UndoItem
  <2> QED
    BY <2>2, OwnJob DEF Debts
<1>k. \A p \in Worker, state \in {"completed", "rolled_back"}, after \in Images,
         repair \in BOOLEAN : Closes(p, state, after, repair) =>
           /\ job[p].txn \in Txn /\ ledger[job[p].txn].state # "none"
           /\ \A t \in Txn \ {job[p].txn} : ledger'[t] = ledger[t]
           /\ ledger'[job[p].txn].repair = repair
           /\ ledger'[job[p].txn].state \notin {"none", "prepared"}
           /\ ledger'[job[p].txn].kind = ledger[job[p].txn].kind
           /\ ledger'[job[p].txn].items = ledger[job[p].txn].items
  BY ClosesStep
<1>2. ASSUME NEW t \in Txn
      PROVE  /\ ledger'[t].kind # "contain"
             /\ ledger'[t].repair => ledger'[t].state \notin {"none", "prepared"}
  <2>1. CASE \E u \in Txn, r \in Receipts : Opens(u, r)
    <3>1. PICK u \in Txn, r \in Receipts : Opens(u, r)
      BY <2>1
    <3>2. ledger'[t] = IF t = u THEN r ELSE ledger[t]
      BY <3>1 DEF Opens, Typed, LedgerTyped
    <3> QED
      BY <3>1, <3>2 DEF Opens, Debts
  <2> QED
    BY <1>k, <2>1, LedgerSteps DEF Debts
<1>3. ASSUME NEW p \in Worker
      PROVE  Undoing(p)'
  <2> SUFFICES ASSUME job'[p].at \in {"rollback", "undo"}
               PROVE  /\ ledger'[job'[p].txn].state = "prepared" \/ ledger'[job'[p].txn].repair
                      /\ \A q \in Worker : job'[q].at = "write" => job'[q].txn # job'[p].txn
    BY DEF Undoing
  <2> DEFINE t == job[p].txn
  <2>1. /\ job'[p].txn = t
        /\ job[p].at \in {"rollback", "undo"} \/ Fail(p)
    <3>1. CASE Acts(p)
      BY <3>1, JobSteps DEF Acts, Run, Rollback
    <3> QED
      BY <3>1, OwnJob
  <2>2. t \in Txn /\ ledger[t].state # "none"
    BY <2>1 DEF Fail, Typed, Fits
  <2>3. CASE Fail(p)
    <3>1. /\ job[p].at = "write" /\ lock = p /\ ledger' = ledger /\ ledger[t].state = "prepared"
      BY <2>3 DEF Fail, Typed, Owns, Inside, AllUnsettled, Unsettled
    <3>2. \A q \in Worker : job[q].at = "write" => q = p
      BY <3>1 DEF Typed, Owns, Inside
    <3> QED
      BY <2>1, <2>2, <3>1, <3>2, WriterStays
  <2>4. CASE job[p].at \in {"rollback", "undo"}
    <3>1. /\ ledger[t].state = "prepared" \/ ledger[t].repair
          /\ \A q \in Worker : job[q].at = "write" => job[q].txn # t
      BY <2>4 DEF Debts, Undoing
    <3>2. CASE \E u \in Txn, r \in Receipts : Opens(u, r)
      <4>1. ledger'[t] = ledger[t]
        BY <2>2, <3>2 DEF Opens, IsNext, Txn, Typed, LedgerTyped
      <4> QED
        BY <2>1, <2>2, <3>1, <4>1, WriterStays
    <3>3. ASSUME NEW q \in Worker, NEW state \in {"completed", "rolled_back"},
                 NEW after \in Images, NEW repair \in BOOLEAN, Closes(q, state, after, repair)
          PROVE  ledger'[t].state = "prepared" \/ ledger'[t].repair
      <4>1. job[q].txn = t => job[q].at # "write"
        BY <3>1
      <4>2. job[q].txn = t => repair
        BY <3>3, <4>1 DEF Closes
      <4> QED
        BY <2>2, <3>1, <3>3, <4>2, ClosesStep
    <3>4. ledger'[t].state = "prepared" \/ ledger'[t].repair
      BY <3>1, <3>2, <3>3, LedgerSteps, <2>1
    <3> QED
      BY <2>1, <2>2, <3>1, <3>4, WriterStays
  <2> QED
    BY <2>1, <2>3, <2>4
<1>4. ASSUME NEW i \in unindexed'
      PROVE  Owed(i)'
  <2>1. CASE i \notin unindexed
    <3>1. PICK p \in Worker : (WriteItem(p) \/ UndoItem(p)) /\ i \in job[p].todo
      BY <2>1, UnindexedSteps
    <3> DEFINE t == job[p].txn
    <3>2. /\ job[p].at \in Inside /\ ledger' = ledger /\ t \in Txn /\ i \in ledger[t].items
          /\ job[p].at = "write" => i \in DOMAIN job[p].plan
      BY <3>1 DEF WriteItem, UndoItem, Inside, Typed, Fits
    <3>3. ledger[t].state = "prepared" \/ ledger[t].repair
      <4>1. ledger[t].kind = "resolve"
        <5>1. ledger[t].kind # "none"
          BY <3>2 DEF Typed, LedgerTyped, Fits, Inside
        <5> QED
          BY <3>2, <5>1 DEF Debts, Typed, LedgerTyped, Receipts
      <4>2. Undoing(p) /\ Unsettled(p)
        BY DEF Debts, AllUnsettled
      <4> QED
        BY <3>2, <4>1, <4>2 DEF Undoing, Unsettled, Inside
    <3>4. \A q \in Worker : job'[q].at = "write" => i \in DOMAIN job'[q].plan
      <4>1. Acts(p) /\ ~ContainPrepare(p) /\ ~ResolvePrepare(p)
        BY <3>1 DEF Acts, Run, WriteItem, UndoItem, ContainPrepare, ResolvePrepare
      <4>2. \A q \in Worker : job'[q].at = "write" => q = p
        BY <3>2, <4>1, Others DEF Typed, Owns, Inside
      <4>3. job'[p].at = "write" => job[p].at = "write" /\ job'[p].plan = job[p].plan
        BY <4>1, WriteSteps
      <4> QED
        BY <3>2, <4>2, <4>3
    <3> QED
      BY <3>2, <3>3, <3>4 DEF Owed
  <2>2. CASE i \in unindexed
    <3>1. PICK t \in Txn :
            /\ i \in ledger[t].items
            /\ \/ ledger[t].repair
               \/ /\ ledger[t].state = "prepared"
                  /\ \A p \in Worker :
                       job[p].at = "write" /\ job[p].txn = t => i \in DOMAIN job[p].plan
      BY <2>2 DEF Debts, Owed
    <3>2. ledger[t].state # "none"
      BY <3>1 DEF Debts
    <3>3. CASE ledger'[t] = ledger[t]
      BY <3>1, <3>2, <3>3, WriterStays DEF Owed
    <3>4. ASSUME NEW p \in Worker, NEW state \in {"completed", "rolled_back"},
                 NEW after \in Images, NEW repair \in BOOLEAN, Closes(p, state, after, repair),
                 job[p].txn = t
          PROVE  ledger'[t].repair /\ ledger'[t].items = ledger[t].items
      <4>1. ledger'[t].repair = repair /\ ledger'[t].items = ledger[t].items
        BY <3>4, ClosesStep
      <4>2. CASE ~repair
        <5>1. job[p].at = "write" /\ unindexed' = unindexed \ DOMAIN job[p].plan
          BY <3>4, <4>2 DEF Closes
        <5>2. ledger[t].state = "prepared" /\ ~ledger[t].repair
          BY <3>4, <5>1 DEF AllUnsettled, Unsettled, Debts
        <5> QED
          BY <3>1, <3>4, <5>1, <5>2
      <4> QED
        BY <4>1, <4>2
    <3>5. CASE ledger'[t] # ledger[t]
      <4>1. ASSUME NEW u \in Txn, NEW r \in Receipts, Opens(u, r) PROVE FALSE
        BY <3>2, <3>5, <4>1 DEF Opens, IsNext, Txn, Typed, LedgerTyped
      <4>2. PICK p \in Worker, state \in {"completed", "rolled_back"}, after \in Images,
              repair \in BOOLEAN : Closes(p, state, after, repair)
        BY <3>5, <4>1, LedgerSteps
      <4>3. job[p].txn = t
        BY <3>5, <4>2, ClosesStep
      <4> QED
        BY <3>1, <3>4, <4>2, <4>3 DEF Owed
    <3> QED
      BY <3>3, <3>5
  <2> QED
    BY <2>1, <2>2
<1> QED
  BY <1>1, <1>2, <1>3, <1>4 DEF Debts

(* Without containments, every item that a decision or its recovery wrote    *)
(* has a fresh index row, a marker line, an open transaction or a terminal  *)
(* receipt that asks for a repair.                                          *)
THEOREM DecisionsOweTheIndex ==
  ASSUME "contain" \notin Kinds
  PROVE  Spec => []IndexOwed
<1>1. Init => Debts
  BY DEF Init, Debts, NoTxn, Undoing, Idle
<1>2. Debts => IndexOwed
  BY DEF Debts, Owed, IndexOwed
<1> QED
  BY <1>1, <1>2, AlwaysTyped, AlwaysUnsettled, DebtsNext, PTL DEF Spec

-----------------------------------------------------------------------------
(* The baselines of containments.                                          *)

LEMMA FileSteps ==
  ASSUME Typed, [Next]_vars, NEW i \in Item
  PROVE  \/ md'[i] = md[i]
         \/ \E p \in Worker : WriteItem(p) /\ i \in job[p].todo /\ md'[i] = job[p].plan[i]
         \/ \E p \in Worker : /\ UndoItem(p) /\ i \in job[p].todo
                             /\ md'[i] = ledger[job[p].txn].before[i]
         \/ Edit(i) \/ Mature(i) \/ Approve(i) \/ Delete(i)
<1>1. ASSUME NEW p \in Worker, WriteItem(p)
      PROVE  md'[i] = md[i] \/ (i \in job[p].todo /\ md'[i] = job[p].plan[i])
  BY <1>1 DEF WriteItem, Typed
<1>2. ASSUME NEW p \in Worker, UndoItem(p)
      PROVE  md'[i] = md[i] \/ (i \in job[p].todo /\ md'[i] = ledger[job[p].txn].before[i])
  BY <1>2 DEF UndoItem, Typed
<1>3. ASSUME NEW k \in Item, Edit(k) \/ Mature(k) \/ Approve(k) \/ Delete(k)
      PROVE  md'[i] = md[i] \/ k = i
  BY <1>3 DEF Edit, Mature, Approve, Delete, Typed
<1>4. ASSUME NEW p \in Worker, Acts(p), ~WriteItem(p), ~UndoItem(p)
      PROVE  md' = md
  BY <1>4 DEF Acts, Run, Survey, ContainPrepare, ContainRefused, Preview, ResolvePrepare,
       ResolveRefused, Complete, Fail, Rollback, ChooseRecovery, Restoring,
       RecoverContainment, RecoverDecision, UndoDone, UndoFails, Crash
<1>5. Tick \/ UNCHANGED vars => md' = md
  BY DEF Tick, vars
<1> QED
  BY <1>1, <1>2, <1>3, <1>4, <1>5 DEF Next, Acts

\* The containment ledger has what i was before it was contained.
HasBase(i) == \E t \in Of("contain") : i \in ledger[t].items /\ ~ledger[t].before[i].held

(* What may be written to an item again must have a base too: the snapshots  *)
(* of the receipts and the mutations in hand.                               *)
Based ==
  /\ \A i \in Item : Present(i) /\ md[i].held => HasBase(i)
  /\ \A t \in Of("contain") : \A i \in ledger[t].items : ~ledger[t].before[i].held
  /\ \A t \in Txn : \A i \in ledger[t].items : ledger[t].before[i].held => HasBase(i)
  /\ \A p \in Worker : job[p].at = "write" =>
       \A i \in DOMAIN job[p].plan : job[p].plan[i].held => HasBase(i)

LEMMA GrowsNext == ASSUME Typed, [Next]_vars PROVE Grows
<1>1. ledger' = ledger => Grows
  BY SameLedger
<1>2. ASSUME NEW t \in Txn, NEW r \in Receipts, Opens(t, r)
      PROVE  Grows
  BY <1>2 DEF Opens, IsNext, Txn, Typed, LedgerTyped, Grows
<1>3. ASSUME NEW p \in Worker, NEW state \in {"completed", "rolled_back"}, NEW after \in Images,
             NEW repair \in BOOLEAN, Closes(p, state, after, repair)
      PROVE  Grows
  <2>1. \A t \in Txn : ledger[t].state # "none" =>
          /\ ledger'[t].state \in {ledger[t].state, state, "twice"}
          /\ ledger'[t].kind = ledger[t].kind /\ ledger'[t].items = ledger[t].items
          /\ ledger'[t].before = ledger[t].before
    BY <1>3, ClosesStep
  <2> QED
    BY <2>1 DEF Grows
<1> QED
  BY <1>1, <1>2, <1>3, LedgerSteps

LEMMA BaseStays ==
  ASSUME Typed, [Next]_vars, NEW i \in Item, HasBase(i)
  PROVE  HasBase(i)'
BY GrowsNext DEF HasBase, Of, Grows, Typed, LedgerTyped

\* What a decision writes is held only if the item is held and has no baseline.
LEMMA DecidedHeld ==
  ASSUME Typed, Based, NEW action \in AllActions, NEW target \in Item \cup {None},
         NEW i \in Item, Present(i), Decided(action, target, i).held
  PROVE  HasBase(i)
<1>1. Restored(i) \in Content
  BY RestoredType
<1>2. Decided(action, target, i).held = Restored(i).held
  BY <1>1 DEF Decided, Mark, Content
<1>3. CASE i \in Case /\ IsBaseline(i)
  <2> DEFINE t == Last(Containments(i))
  <2>1. t \in Of("contain") /\ i \in ledger[t].items
    BY <1>3, LastBaseline DEF Containments
  <2>2. ~ledger[t].before[i].held
    BY <2>1 DEF Based
  <2>3. Restored(i).held = ledger[t].before[i].held
    BY <1>3 DEF Restored, Typed, Present, Content
  <2> QED
    BY <1>2, <2>2, <2>3
<1>4. CASE ~(i \in Case /\ IsBaseline(i))
  BY <1>2, <1>4 DEF Restored, Based
<1> QED
  BY <1>3, <1>4

LEMMA BasedNext == Typed /\ Based /\ [Next]_vars => Based'
<1> SUFFICES ASSUME Typed, Based, [Next]_vars PROVE Based'
  OBVIOUS
<1>1. ASSUME NEW i \in Item, Present(i)', md'[i].held
      PROVE  HasBase(i)'
  <2>1. CASE md'[i] = md[i] \/ Edit(i) \/ Mature(i) \/ Approve(i) \/ Delete(i)
    <3>1. Present(i) /\ md[i].held
      BY <1>1, <2>1 DEF Present, Edit, Mature, Approve, Delete, Typed, Content
    <3> QED
      BY <3>1, BaseStays DEF Based
  <2>2. ASSUME NEW p \in Worker, WriteItem(p), i \in job[p].todo, md'[i] = job[p].plan[i]
        PROVE  HasBase(i)'
    <3>1. i \in DOMAIN job[p].plan /\ job[p].at = "write"
      BY <2>2 DEF WriteItem, Typed, Fits
    <3> QED
      BY <1>1, <2>2, <3>1, BaseStays DEF Based
  <2>3. ASSUME NEW p \in Worker, UndoItem(p), i \in job[p].todo,
               md'[i] = ledger[job[p].txn].before[i]
        PROVE  HasBase(i)'
    <3>1. job[p].txn \in Txn /\ i \in ledger[job[p].txn].items
      BY <2>3 DEF UndoItem, Typed, Fits
    <3> QED
      BY <1>1, <2>3, <3>1, BaseStays DEF Based
  <2> QED
    BY <2>1, <2>2, <2>3, FileSteps
<1>2. CASE ~\E p \in Worker : ContainPrepare(p) \/ ResolvePrepare(p)
  <2>1. \A t \in Txn : /\ ledger'[t].kind = ledger[t].kind /\ ledger'[t].items = ledger[t].items
                       /\ ledger'[t].before = ledger[t].before
    BY <1>2, SettleSteps, ClosesStep
  <2>2. ASSUME NEW p \in Worker, job'[p].at = "write"
        PROVE  job[p].at = "write" /\ job'[p].plan = job[p].plan
    BY <1>2, <2>2, WriteSteps
  <2>3. \A i \in Item : HasBase(i) => HasBase(i)'
    BY BaseStays
  <2>4. \A t \in Txn : ledger[t].items \in SUBSET Item
    BY DEF Typed, LedgerTyped, Receipts
  <2>5. \A p \in Worker : DOMAIN job[p].plan \in SUBSET Item
    BY ImageType DEF Typed, Jobs
  <2> QED
    BY <1>1, <2>1, <2>2, <2>3, <2>4, <2>5 DEF Based, Of
<1>3. ASSUME NEW p \in Worker, NEW t \in Txn, NEW r \in Receipts, NEW plan \in Images,
             NEW s \in Sights, Opens(t, r), Step(p, Writing(t, plan, s)), ContainPrepare(p) \/ ResolvePrepare(p),
             \A i \in r.items : r.before[i].held => HasBase(i) /\ r.kind # "contain",
             \A i \in DOMAIN plan : plan[i].held => HasBase(i)'
      PROVE  Based'
  <2>1. /\ \A u \in Txn : ledger'[u] = IF u = t THEN r ELSE ledger[u]
        /\ job'[p].at = "write" /\ job'[p].plan = plan
    BY <1>3 DEF Opens, Step, Writing, Typed, LedgerTyped
  <2>2. ASSUME NEW q \in Worker \ {p}
        PROVE  job'[q] = job[q]
    BY <1>3, Others DEF Acts, Run
  <2>3. \A i \in Item : HasBase(i) => HasBase(i)'
    BY BaseStays
  <2>4. r.items \in SUBSET Item /\ \A u \in Txn : ledger[u].items \in SUBSET Item
    BY DEF Typed, LedgerTyped, Receipts
  <2>5. \A q \in Worker : DOMAIN job[q].plan \in SUBSET Item
    BY ImageType DEF Typed, Jobs
  <2>6. \A u \in Of("contain")' : \A i \in ledger'[u].items : ~ledger'[u].before[i].held
    BY <1>3, <2>1 DEF Based, Of
  <2>7. \A u \in Txn : \A i \in ledger'[u].items : ledger'[u].before[i].held => HasBase(i)'
    BY <1>3, <2>1, <2>3, <2>4 DEF Based
  <2>8. \A q \in Worker : job'[q].at = "write" =>
          \A i \in DOMAIN job'[q].plan : job'[q].plan[i].held => HasBase(i)'
    BY <1>3, <2>1, <2>2, <2>3, <2>5 DEF Based
  <2> QED
    BY <1>1, <2>6, <2>7, <2>8 DEF Based
<1>4. ASSUME NEW p \in Worker, ContainPrepare(p)
      PROVE  Based'
  <2>1. PICK t \in Txn, r \in Receipts, plan \in Images, s \in Sights :
          Opens(t, r) /\ Step(p, Writing(t, plan, s)) /\ Contains(r, plan)
    BY <1>4, ContainPrepares
  <2>2. \A i \in r.items : Present(i) /\ ~r.before[i].held
    BY <1>4, <2>1 DEF Contains, Exposed, Snapshot, ContainPrepare, ContainAllowed, ProvenanceHealthy
  <2>3. t \in Of("contain")' /\ ledger'[t] = r
    BY <2>1 DEF Contains, Opens, Of, Typed, LedgerTyped
  <2>4. \A i \in DOMAIN plan : HasBase(i)'
    BY <2>1, <2>2, <2>3 DEF Contains, HasBase
  <2> QED
    BY <1>3, <1>4, <2>1, <2>2, <2>4
<1>5. ASSUME NEW p \in Worker, ResolvePrepare(p)
      PROVE  Based'
  <2>1. PICK t \in Txn, r \in Receipts, plan \in Images, s \in Sights :
          Opens(t, r) /\ Step(p, Writing(t, plan, s)) /\ Decides(p, r, plan, s)
    BY <1>5, ResolvePrepares
  <2>2. \A i \in r.items : i \in Item /\ Present(i) /\ r.before[i] = md[i] /\ r.kind # "contain"
    BY <2>1 DEF Decides, Snapshot
  <2>3. \A i \in DOMAIN plan : plan[i].held => HasBase(i)
    BY <2>1, <2>2, DecidedHeld DEF Decides
  <2>4. \A i \in DOMAIN plan : plan[i].held => HasBase(i)'
    BY <2>1, <2>2, <2>3, BaseStays DEF Decides
  <2> QED
    BY <1>3, <1>5, <2>1, <2>2, <2>4 DEF Based
<1> QED
  BY <1>2, <1>4, <1>5

(* Whatever crashed, was rolled back or recovered: an item that carries the  *)
(* tags of a containment has the content it had before them in the          *)
(* containment ledger.                                                      *)
THEOREM BaselinesFirst == Spec => []BaselineFirst
<1>1. Init => Based
  BY DEF Init, Based, Idle, NoTxn, Nothing, Of
<1>2. Typed /\ Based => BaselineFirst
  BY DEF Based, BaselineFirst, HasBase
<1> QED
  BY <1>1, <1>2, AlwaysTyped, BasedNext, PTL DEF Spec

-----------------------------------------------------------------------------
(* What a decision writes is what the reviewer saw.                        *)

\* content c of item i carries a decision that was taken on content seen
Carries(action, target, i, c, seen) ==
  /\ c.text = seen.text /\ c.mature = seen.mature
  /\ IF action \in {"select_authority", "merge"} /\ i # target
     THEN c.by = target ELSE action \in c.marks

LEMMA DecidedCarries ==
  ASSUME Typed, NEW action \in AllActions \ {"defer"}, NEW target \in Item \cup {None},
         NEW i \in Item, Present(i)
  PROVE  Carries(action, target, i, Decided(action, target, i), md[i])
<1>1. /\ Restored(i) \in Content
      /\ Restored(i).text = md[i].text /\ Restored(i).mature = md[i].mature
  BY RestoredType
<1> DEFINE c == Restored(i)
<1> HIDE DEF c
<1>2. c \in Content /\ c.text = md[i].text /\ c.mature = md[i].mature
  BY <1>1 DEF c
<1>3. Decided(action, target, i) =
        IF action \in {"coexist", "dismiss"} \/ i = target THEN Mark(c, action)
        ELSE [Mark(c, "resolved") EXCEPT !.by = target]
  BY DEF Decided, c
<1>4. \A mark : /\ Mark(c, mark).text = c.text /\ Mark(c, mark).mature = c.mature
               /\ mark \in Mark(c, mark).marks
               /\ [Mark(c, mark) EXCEPT !.by = target].text = c.text
               /\ [Mark(c, mark) EXCEPT !.by = target].mature = c.mature
               /\ [Mark(c, mark) EXCEPT !.by = target].by = target
  BY <1>2 DEF Mark, Content
<1>5. CASE action \in {"coexist", "dismiss"} \/ i = target
  BY <1>2, <1>3, <1>4, <1>5 DEF Carries
<1>6. CASE ~(action \in {"coexist", "dismiss"} \/ i = target)
  BY <1>2, <1>3, <1>4, <1>6 DEF Carries, AllActions
<1> QED
  BY <1>5, <1>6

(* While a decision is written, an item is what the reviewer saw until its   *)
(* turn comes, and what was prepared from it after that.                    *)
Faithful(p) ==
  LET j == job[p]
      r == ledger[j.txn]
  IN j.at = "write" /\ r.kind = "resolve" =>
       /\ r.action = j.sight.action /\ r.target = j.sight.target
       /\ j.todo \subseteq DOMAIN j.plan
       /\ DOMAIN j.plan = IF r.action = "defer" THEN {} ELSE r.items
       /\ \A i \in r.items :
            /\ i \in Item
            /\ i \in j.todo \/ i \notin DOMAIN j.plan => md[i] = j.sight.before[i]
            /\ i \in DOMAIN j.plan \ j.todo => md[i] = j.plan[i]
            /\ i \in DOMAIN j.plan =>
                 Carries(r.action, r.target, i, j.plan[i], j.sight.before[i])
AllFaithful == \A p \in Worker : Faithful(p)

LEMMA FaithfulNext ==
  ASSUME Typed, AllFaithful, [Next]_vars, NEW p \in Worker
  PROVE  Faithful(p)'
<1> SUFFICES ASSUME job'[p].at = "write"
             PROVE  Faithful(p)'
  BY DEF Faithful
<1>1. CASE ContainPrepare(p)
  <2>1. PICK t \in Txn, r \in Receipts, plan \in Images, s \in Sights :
          Opens(t, r) /\ Step(p, Writing(t, plan, s)) /\ Contains(r, plan)
    BY <1>1, ContainPrepares
  <2>2. job'[p].txn = t /\ ledger'[t] = r
    BY <2>1 DEF Opens, Step, Writing, Typed, LedgerTyped
  <2> QED
    BY <2>1, <2>2 DEF Contains, Faithful
<1>2. CASE ResolvePrepare(p)
  <2>1. PICK t \in Txn, r \in Receipts, plan \in Images, s \in Sights :
          Opens(t, r) /\ Step(p, Writing(t, plan, s)) /\ Decides(p, r, plan, s)
    BY <1>2, ResolvePrepares
  <2>2. /\ job'[p].txn = t /\ job'[p].plan = plan /\ job'[p].sight = s
        /\ job'[p].todo = DOMAIN plan /\ ledger'[t] = r /\ md' = md
    BY <1>2, <2>1 DEF Opens, Step, Writing, Typed, LedgerTyped, ResolvePrepare
  <2>3. DOMAIN plan = IF r.action = "defer" THEN {} ELSE r.items
    BY <2>1 DEF Decides, Rewritten
  <2>4. \A i \in r.items : i \in DOMAIN plan =>
          Carries(r.action, r.target, i, plan[i], s.before[i])
    BY <2>1, <2>3, DecidedCarries DEF Decides
  <2> QED
    BY <2>1, <2>2, <2>3, <2>4 DEF Decides, Faithful
<1>3. CASE WriteItem(p)
  <2>1. PICK i \in job[p].todo :
          /\ md' = [md EXCEPT ![i] = job[p].plan[i]]
          /\ Step(p, [job[p] EXCEPT !.todo = @ \ {i}])
    BY <1>3 DEF WriteItem
  <2>2. /\ job'[p].txn = job[p].txn /\ job'[p].plan = job[p].plan
        /\ job'[p].sight = job[p].sight /\ job'[p].todo = job[p].todo \ {i}
        /\ ledger' = ledger /\ job[p].at = "write"
    BY <1>3, <2>1 DEF Step, Typed, Jobs, WriteItem
  <2>3. \A k \in Item : md'[k] = IF k = i THEN job[p].plan[i] ELSE md[k]
    BY <2>1 DEF Typed
  <2> QED
    BY <2>1, <2>2, <2>3 DEF AllFaithful, Faithful
<1>4. CASE job[p].at = "write" /\ ledger' = ledger /\ job'[p] = job[p] /\ md' = md
  BY <1>4 DEF AllFaithful, Faithful
<1> QED
  BY <1>1, <1>2, <1>3, <1>4, WriteSteps

(* A completed decision changed exactly what the reviewer was shown: no      *)
(* edit, approval or recovery comes in between the intent check and the     *)
(* terminal receipt.                                                        *)
THEOREM DecisionsAreSeen == Spec => DecidesWhatWasSeen
<1>1. Init => AllFaithful
  BY DEF Init, AllFaithful, Faithful, Idle
<1>2. Typed /\ AllFaithful /\ [Next]_vars => AllFaithful'
  <2> SUFFICES ASSUME Typed, AllFaithful, [Next]_vars, NEW p \in Worker PROVE Faithful(p)'
    BY DEF AllFaithful
  <2> QED
    BY FaithfulNext
<1>3. ASSUME Typed, AllUnsettled, AllFaithful, [Next]_vars, NEW p \in Worker
      PROVE  SeenDecision(p)
  <2> DEFINE t == job[p].txn
  <2> SUFFICES ASSUME job[p].at = "write", ledger[t].kind = "resolve",
                      ledger'[t].state = "completed"
               PROVE  SeenDecision(p)
    BY DEF SeenDecision
  <2>1. t \in Txn /\ ledger[t].state = "prepared" /\ lock = p
    BY <1>3 DEF AllUnsettled, Unsettled, Typed, Fits, Owns, Inside
  <2>2. ASSUME NEW u \in Txn, NEW r \in Receipts, Opens(u, r)
        PROVE  FALSE
    BY <1>3, <2>1, <2>2 DEF Opens, IsNext, Txn, Typed, LedgerTyped
  <2>3. PICK q \in Worker, state \in {"completed", "rolled_back"}, after \in Images,
          repair \in BOOLEAN : Closes(q, state, after, repair)
    BY <1>3, <2>1, <2>2, LedgerSteps
  <2>4. q = p /\ job[p].todo = {} /\ md' = md
    BY <1>3, <2>1, <2>3 DEF Closes, Typed, Owns
  <2>5. Faithful(p)
    BY <1>3 DEF AllFaithful
  <2> QED
    BY <2>4, <2>5 DEF Faithful, Carries, SeenDecision
<1>4. Typed /\ AllUnsettled /\ AllFaithful /\ [Next]_vars =>
        [\A p \in Worker : SeenDecision(p)]_vars
  BY <1>3
<1> QED
  BY <1>1, <1>2, <1>4, AlwaysTyped, AlwaysUnsettled, PTL DEF Spec, DecidesWhatWasSeen
=============================================================================
