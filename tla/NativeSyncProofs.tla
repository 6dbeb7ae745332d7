-------------------------- MODULE NativeSyncProofs --------------------------
(***************************************************************************)
(* Theorems about the sharing of memories, for every set of devices, files *)
(* and contents, every length of a page and every kind and number of       *)
(* faults.                                                                 *)
(***************************************************************************)
EXTENDS NativeSyncProperties, WellFoundedInduction, SequenceTheorems, TLAPS

(* A queued row is the last decision about its asset.                      *)
Queued ==
  \A a \in Asset : outbox[a] # NoRow =>
    /\ outbox[a].asset = a /\ part[a] # NoPart
    /\ outbox[a].ver = part[a].ver /\ outbox[a].deleted = part[a].deleted

(* What a pass uploads is a queued row of its device: only the pass itself *)
(* replaces or removes rows, and it does so before and after an upload.    *)
InFlight(p) == IF p.at \in {"sent", "answered"} THEN {p.row} ELSE {}
UploadsOf(d) ==
  /\ pass[d].left \in SUBSET DocsOf(d)
  /\ pass[d].todo # {} => pass[d].at \in {"push", "sent", "answered"}
  /\ \A row \in pass[d].todo \cup InFlight(pass[d]) :
       row \in Row /\ row.asset \in Mine(d) /\ outbox[row.asset] = row
  /\ InFlight(pass[d]) \cap pass[d].todo = {}
  /\ pass[d].reply.kind = "saved" => pass[d].reply.rev \in Nat
Uploads == \A d \in Device : UploadsOf(d)

(* Revisions count the changes of their asset.                             *)
Counted ==
  /\ \A a \in Asset : store[a].rev <= Len(log)
  /\ \A i \in DOMAIN log : log[i].rev <= Len(log)
  /\ \A a \in Asset : store[a] # NoRec => \E i \in DOMAIN log : log[i].asset = a

(* A page shows changes of the log beyond the cursor it was asked with.    *)
InHand(d) == pass[d].at \in {"fetched", "checked"}
Pages ==
  \A d \in Device : InHand(d) =>
    /\ cursor[d] <= pass[d].page.cursor
    /\ \A change \in pass[d].page.items :
         /\ change.seq \in DOMAIN log
         /\ cursor[d] < change.seq /\ change.seq <= pass[d].page.cursor
         /\ log[change.seq].asset = change.rec.asset /\ log[change.seq].rev = change.rec.rev

(* A page in hand is stored, whole or in part.                             *)
Applies(d) ==
  At(d, "checked") /\ \E kept \in SUBSET pass[d].page.items : ApplyPage(d, kept)

LEMMA ApplyingSteps ==
  ASSUME NEW d \in Device, Apply(d) \/ SwitchInApply(d)
  PROVE  Applies(d)
<1>1. CASE Apply(d)
  <2>1. (IF wants[d] THEN pass[d].page.items ELSE {}) \in SUBSET pass[d].page.items
    OBVIOUS
  <2> QED
    BY <1>1, <2>1 DEF Apply, Applies
<1>2. CASE SwitchInApply(d)
  <2>1. PICK before \in SUBSET pass[d].page.items :
          ApplyPage(d, IF wants[d] THEN before ELSE pass[d].page.items \ before)
    BY <1>2 DEF SwitchInApply
  <2>2. (IF wants[d] THEN before ELSE pass[d].page.items \ before) \in SUBSET pass[d].page.items
    OBVIOUS
  <2> QED
    BY <1>2, <2>1, <2>2 DEF SwitchInApply, Applies
<1> QED
  BY <1>1, <1>2

-----------------------------------------------------------------------------
(* Greatest and least numbers.                                             *)

LEMMA MinOf ==
  ASSUME NEW S \in SUBSET Nat, S # {}
  PROVE  Min(S) \in S /\ \A y \in S : Min(S) <= y
<1>1. \E x \in S : \A y \in S : ~(<<y, x>> \in OpToRel(<, Nat))
  BY NatLessThanWellFounded, WFMin
<1>2. \E x \in S : \A y \in S : x <= y
  <2>1. PICK x \in S : \A y \in S : ~(<<y, x>> \in OpToRel(<, Nat))
    BY <1>1
  <2>2. \A y \in S : y < x => <<y, x>> \in OpToRel(<, Nat)
    <3>1. \A y \in S : <<y, x>> \in Nat \X Nat
      OBVIOUS
    <3> QED
      BY <3>1 DEF OpToRel
  <2>3. \A y \in S : ~(y < x)
    BY <2>1, <2>2, Zenon
  <2>4. \A y \in S : x <= y
    BY <2>3
  <2> QED
    BY <2>4
<1> QED
  BY <1>2 DEF Min

LEMMA MaxOf ==
  ASSUME NEW n \in Nat, NEW S \in SUBSET (0..n), S # {}
  PROVE  Max(S) \in S /\ \A y \in S : y <= Max(S)
<1> DEFINE T == {k \in Nat : n - k \in S}
<1>1. T \in SUBSET Nat /\ T # {}
  <2>1. PICK x \in S : TRUE
    OBVIOUS
  <2>2. n - x \in T
    BY <2>1
  <2> QED
    BY <2>2
<1>2. PICK k \in T : \A y \in T : k <= y
  BY <1>1, MinOf
<1>3. n - k \in S /\ \A y \in S : y <= n - k
  <2>1. \A y \in S : n - y \in T
    OBVIOUS
  <2> QED
    BY <2>1, <1>2
<1> QED
  BY <1>3 DEF Max

LEMMA MaxOfTwo ==
  ASSUME NEW m \in Nat, NEW n \in Nat
  PROVE  Max({m, n}) \in {m, n} /\ Max({m, n}) >= m /\ Max({m, n}) >= n
<1>1. \E x \in {m, n} : \A y \in {m, n} : x >= y
  <2>1. CASE m <= n
    BY <2>1
  <2>2. CASE n <= m
    BY <2>2
  <2> QED
    BY <2>1, <2>2
<1> QED
  BY <1>1 DEF Max

-----------------------------------------------------------------------------
(* Type correctness, table by table.                                       *)

SourcesType ==
  /\ file \in [Doc -> Content \cup {"absent"}]
  /\ written \in [Doc -> SUBSET Content]
  /\ mounted \in [Device -> BOOLEAN] /\ withheld \subseteq Doc
  /\ edits \in 0..MaxEdits
QueueType ==
  /\ snap \in [Doc -> Content \cup {"none", "deleted"}]
  /\ part \in [Asset -> PartRow \cup {NoPart}]
  /\ outbox \in [Asset -> Row \cup {NoRow}]
RefusalType ==
  /\ refused \in [Asset -> Row \cup {NoRow}]
  /\ earlier \in [Asset -> SUBSET Asset]
RecallType ==
  /\ cursor \in [Device -> Nat]
  /\ replica \in [Device -> [Asset -> Rec \cup {NoRec}]]
  /\ mode \in [Device -> {"projection", "cloud"}]
HubType ==
  /\ store \in [Asset -> Rec \cup {NoRec}]
  /\ log \in Seq(Rec)
RestType ==
  /\ wants \in [Device -> BOOLEAN]
  /\ revoked \subseteq Device
  /\ late \subseteq Row /\ overdue \subseteq Asset
  /\ faults \in 0..MaxFaults
PassesType == pass \in [Device -> PassType]

LEMMA TypeParts ==
  TypeOK <=> /\ SourcesType /\ QueueType /\ RefusalType /\ RecallType
             /\ HubType /\ RestType /\ PassesType
BY DEF TypeOK, SourcesType, QueueType, RefusalType, RecallType, HubType, RestType, PassesType

LEMMA TypePartsNext ==
  TypeOK' <=> /\ SourcesType' /\ QueueType' /\ RefusalType' /\ RecallType'
              /\ HubType' /\ RestType' /\ PassesType'
BY DEF TypeOK, SourcesType, QueueType, RefusalType, RecallType, HubType, RestType, PassesType

LEMMA IdleType == Idle \in PassType /\ NoReplica \in [Asset -> Rec \cup {NoRec}]
BY DEF Idle, PassType, NoReplica, NoReply, NoPage

LEMMA ToScanType ==
  ASSUME NEW p \in PassType
  PROVE  ToScan(p) \in PassType
BY IdleType DEF ToScan, PassType

LEMMA ToPushType ==
  ASSUME NEW p \in PassType
  PROVE  ToPush(p) \in PassType
BY IdleType DEF ToPush, PassType

LEMMA TombstoneType ==
  ASSUME QueueType, NEW a \in Asset, part[a] # NoPart, NEW rev \in Nat
  PROVE  Tombstone(a, rev) \in Row
BY DEF QueueType, Tombstone, Row, PartRow

LEMMA QueueDeleteType ==
  ASSUME QueueType, NEW gone \in SUBSET {a \in Asset : part[a] # NoPart}, QueueDelete(gone)
  PROVE  part' \in [Asset -> PartRow \cup {NoPart}] /\ outbox' \in [Asset -> Row \cup {NoRow}]
<1>1. ASSUME NEW a \in gone PROVE [part[a] EXCEPT !.deleted = TRUE] \in PartRow
  BY DEF QueueType, PartRow
<1>2. ASSUME NEW a \in gone PROVE Tombstone(a, part[a].rev) \in Row
  BY TombstoneType DEF QueueType, PartRow
<1> QED
  BY <1>1, <1>2 DEF QueueType, QueueDelete

LEMMA EnqueueType ==
  ASSUME QueueType, NEW m \in Doc, NEW c \in Content, EnqueueDocument(m, c)
  PROVE  part' \in [Asset -> PartRow \cup {NoPart}] /\ outbox' \in [Asset -> Row \cup {NoRow}]
<1> DEFINE live == {m} \X (1..Parts[c])
           tail == PartsOf(m) \ live
<1>1. ASSUME NEW a \in Asset PROVE Known(a) \in Nat
  BY DEF Known, QueueType, PartRow
<1>2. ASSUME NEW a \in Asset
      PROVE  /\ [rev |-> Known(a), ver |-> c, deleted |-> FALSE] \in PartRow
             /\ [asset |-> a, base |-> Known(a), ver |-> c, deleted |-> FALSE] \in Row
  BY <1>1 DEF PartRow, Row
<1>3. ASSUME NEW a \in tail
      PROVE  /\ [part[a] EXCEPT !.deleted = TRUE] \in PartRow
             /\ Tombstone(a, part[a].rev) \in Row
  <2>1. a \in Asset /\ part[a] \in PartRow
    BY DEF PartsOf, QueueType
  <2> QED
    BY <2>1, TombstoneType DEF PartsOf, PartRow
<1> QED
  BY <1>2, <1>3 DEF EnqueueDocument, QueueType

LEMMA ConfigureType ==
  ASSUME RecallType, RestType, NEW d \in Device, ConfigureStorage(d)
  PROVE  RecallType'
<1>1. CASE UNCHANGED recall
  BY <1>1 DEF RecallType, recall
<1>2. CASE ClearForPolicy(d) /\ mode' = [mode EXCEPT ![d] = Policy(d)]
  <2>1. cursor' \in [Device -> Nat] /\ replica' \in [Device -> [Asset -> Rec \cup {NoRec}]]
    BY <1>2, IdleType DEF RecallType, ClearForPolicy
  <2>2. mode' \in [Device -> {"projection", "cloud"}]
    BY <1>2 DEF RecallType, Policy
  <2> QED
    BY <2>1, <2>2 DEF RecallType
<1> QED
  BY <1>1, <1>2 DEF ConfigureStorage

\* What no step takes back from the log: a change keeps its place, its asset
\* and its revision, and what is erased stays erased.
LogKept ==
  /\ Len(log) <= Len(log') /\ DOMAIN log \subseteq DOMAIN log'
  /\ \A i \in DOMAIN log :
       /\ log'[i].asset = log[i].asset /\ log'[i].rev = log[i].rev
       /\ log[i].text = "purged" => log'[i].text = "purged"

LEMMA LogKeptIdly ==
  ASSUME HubType, log' = log
  PROVE  LogKept
BY LenProperties DEF HubType, LogKept

LEMMA RewrittenLog ==
  ASSUME HubType, NEW l \in [DOMAIN log -> Rec]
  PROVE  l \in Seq(Rec) /\ Len(l) = Len(log) /\ DOMAIN l = DOMAIN log
<1>1. Len(log) \in Nat /\ DOMAIN log = 1..Len(log)
  BY LenProperties DEF HubType
<1>2. l \in Seq(Rec)
  BY <1>1, SeqDef
<1>3. Len(l) \in Nat /\ DOMAIN l = 1..Len(l)
  BY <1>2, LenProperties
<1>4. 1..Len(l) = 1..Len(log)
  BY <1>1, <1>3
<1>5. Len(l) = Len(log)
  BY <1>1, <1>3, <1>4
<1> QED
  BY <1>2, <1>5

LEMMA ScrubbedType ==
  ASSUME HubType, NEW a \in Asset, NEW rev \in Nat
  PROVE  /\ Scrubbed(log, a, rev) \in Seq(Rec)
         /\ Len(Scrubbed(log, a, rev)) = Len(log)
         /\ \A i \in DOMAIN log :
              /\ Scrubbed(log, a, rev)[i].asset = log[i].asset
              /\ Scrubbed(log, a, rev)[i].rev = log[i].rev
              /\ Scrubbed(log, a, rev)[i].text = log[i].text
                   \/ (log[i].text = "kept" /\ Scrubbed(log, a, rev)[i].text = "scrubbed")
<1>1. \A i \in DOMAIN log : log[i] \in Rec
  BY LenProperties DEF HubType
<1>2. \A i \in DOMAIN log : [log[i] EXCEPT !.text = "scrubbed"] \in Rec
  BY <1>1 DEF Rec
<1>3. Scrubbed(log, a, rev) \in [DOMAIN log -> Rec]
  BY <1>1, <1>2 DEF Scrubbed
<1>4. \A i \in DOMAIN log :
        /\ Scrubbed(log, a, rev)[i].asset = log[i].asset
        /\ Scrubbed(log, a, rev)[i].rev = log[i].rev
        /\ Scrubbed(log, a, rev)[i].text = log[i].text
             \/ (log[i].text = "kept" /\ Scrubbed(log, a, rev)[i].text = "scrubbed")
  BY <1>1 DEF Scrubbed, Rec
<1> QED
  BY <1>3, <1>4, RewrittenLog

\* A new revision is appended on top of the old one.
LEMMA AcceptKeeps ==
  ASSUME HubType, NEW row \in Row, Accept(row)
  PROVE  /\ HubType' /\ LogKept
         /\ Len(log') = Len(log) + 1
         /\ log'[Len(log')] = store'[row.asset]
         /\ store'[row.asset] = [asset |-> row.asset, rev |-> row.base + 1, ver |-> row.ver,
                                 deleted |-> row.deleted, text |-> "kept"]
         /\ \A i \in DOMAIN log : log'[i].text = log[i].text
              \/ (log[i].text = "kept" /\ log'[i].text = "scrubbed")
<1> DEFINE rec == [asset |-> row.asset, rev |-> row.base + 1, ver |-> row.ver,
                   deleted |-> row.deleted, text |-> "kept"]
           old == Scrubbed(log, row.asset, row.base + 1)
<1>1. rec \in Rec
  BY DEF Row, Rec
<1>2. row.asset \in Asset /\ row.base + 1 \in Nat
  BY DEF Row
<1>3. store' = [store EXCEPT ![row.asset] = rec] /\ log' = Append(old, rec)
  BY DEF Accept
<1>4. /\ old \in Seq(Rec) /\ Len(old) = Len(log)
      /\ \A i \in DOMAIN log : /\ old[i].asset = log[i].asset /\ old[i].rev = log[i].rev
                               /\ old[i].text = log[i].text
                                    \/ (log[i].text = "kept" /\ old[i].text = "scrubbed")
  BY <1>2, ScrubbedType
<1>5. Len(log) \in Nat /\ DOMAIN log = 1..Len(log)
  BY LenProperties DEF HubType
<1> HIDE DEF rec, old
<1>6. /\ log' \in Seq(Rec) /\ Len(log') = Len(log) + 1 /\ log'[Len(log) + 1] = rec
      /\ DOMAIN log' = 1..(Len(log) + 1)
      /\ \A i \in 1..Len(log) : log'[i] = old[i]
  BY <1>1, <1>3, <1>4, <1>5
<1>7. store' \in [Asset -> Rec \cup {NoRec}] /\ store'[row.asset] = rec
  BY <1>1, <1>2, <1>3 DEF HubType
<1>8. HubType'
  BY <1>6, <1>7 DEF HubType
<1>9. LogKept
  BY <1>4, <1>5, <1>6 DEF LogKept
<1> QED
  BY <1>4, <1>5, <1>6, <1>7, <1>8, <1>9 DEF rec

LEMMA PutKeeps ==
  ASSUME HubType, NEW row \in Row, Put(row)
  PROVE  HubType' /\ LogKept
<1>1. CASE Accept(row)
  BY <1>1, AcceptKeeps
<1>2. CASE UNCHANGED <<store, log>>
  BY <1>2, LogKeptIdly DEF HubType
<1> QED
  BY <1>1, <1>2 DEF Put

LEMMA PurgeKeeps ==
  ASSUME HubType, NEW a \in Asset, Purge(a)
  PROVE  HubType' /\ LogKept /\ Len(log') = Len(log)
<1>1. \A i \in DOMAIN log : log[i] \in Rec
  BY LenProperties DEF HubType
<1>2. \A i \in DOMAIN log : [log[i] EXCEPT !.text = "purged", !.deleted = TRUE] \in Rec
  BY <1>1 DEF Rec
<1>3. log' \in [DOMAIN log -> Rec]
  BY <1>1, <1>2 DEF Purge
<1>4. log' \in Seq(Rec) /\ Len(log') = Len(log) /\ DOMAIN log' = DOMAIN log
  BY <1>3, RewrittenLog
<1>5. store' \in [Asset -> Rec \cup {NoRec}]
  BY DEF Purge, HubType
<1>6. \A i \in DOMAIN log :
        /\ log'[i].asset = log[i].asset /\ log'[i].rev = log[i].rev
        /\ log[i].text = "purged" => log'[i].text = "purged"
  BY <1>1 DEF Purge, Rec
<1>7. Len(log) \in Nat
  BY LenProperties DEF HubType
<1> QED
  BY <1>4, <1>5, <1>6, <1>7 DEF HubType, LogKept

-----------------------------------------------------------------------------
(* Pages of changes.                                                       *)

LEMMA Multiples ==
  \A x \in Nat, p \in Nat \ {0}, y \in Nat : y + (x \div p) * p \in Nat /\ y + (x \div p) * p >= y
OBVIOUS

\* What the Hub answers is a stretch of the log beyond the cursor.
LEMMA ChangesAhead ==
  ASSUME HubType, NEW from \in Nat, NEW bodies \in BOOLEAN, Ahead(from, bodies) # {}
  PROVE  /\ Changes(from, bodies).items \in SUBSET Change
         /\ Changes(from, bodies).cursor \in Nat /\ from <= Changes(from, bodies).cursor
         /\ Changes(from, bodies).cursor <= Len(log) /\ Changes(from, bodies).bodies = bodies
         /\ \A change \in Changes(from, bodies).items :
              /\ change.seq \in DOMAIN log
              /\ from < change.seq /\ change.seq <= Changes(from, bodies).cursor
              /\ log[change.seq].asset = change.rec.asset
              /\ log[change.seq].rev = change.rec.rev
              /\ change.rec.text = "kept" => bodies /\ log[change.seq].text = "kept"
<1> DEFINE ahead == Ahead(from, bodies)
           first == Min(ahead)
           skip  == from + ((first - from - 1) \div Page) * Page
           end   == Min({skip + Page, Len(log)})
           items == {[seq |-> i, rec |-> Shown(log[i], bodies)] : i \in {j \in ahead : j <= end}}
<1>1. /\ Len(log) \in Nat /\ DOMAIN log = 1..Len(log)
      /\ \A i \in DOMAIN log : log[i] \in Rec
  BY LenProperties DEF HubType
<1>2. ahead \in SUBSET Nat /\ \A i \in ahead :
         i \in DOMAIN log /\ i > from /\ (bodies => log[i].text = "kept")
  BY <1>1 DEF Ahead
<1>3. first \in Nat /\ first > from /\ from < Len(log)
  <2>1. first \in ahead
    BY <1>2, MinOf
  <2> QED
    BY <2>1, <1>1, <1>2
<1> HIDE DEF first
<1>4. Page \in Nat \ {0}
  BY SyncAssumption
<1>5. skip \in Nat /\ skip >= from
  BY <1>3, <1>4, Multiples
<1> HIDE DEF skip
<1>6. end \in {skip + Page, Len(log)} /\ end <= Len(log)
  <2>1. {skip + Page, Len(log)} \in SUBSET Nat /\ {skip + Page, Len(log)} # {}
    BY <1>1, <1>4, <1>5
  <2> QED
    BY <2>1, MinOf
<1>7. end \in Nat /\ end >= from
  BY <1>1, <1>3, <1>4, <1>5, <1>6
<1>8. Changes(from, bodies) = [items |-> items, cursor |-> end, bodies |-> bodies]
  BY DEF Changes, first, skip
<1> HIDE DEF end
<1>9. \A i \in DOMAIN log :
        /\ Shown(log[i], bodies) \in Rec
        /\ Shown(log[i], bodies).asset = log[i].asset /\ Shown(log[i], bodies).rev = log[i].rev
        /\ Shown(log[i], bodies).text = "kept" => bodies /\ log[i].text = "kept"
  BY <1>1 DEF Shown, Rec
<1>10. ASSUME NEW change \in items
       PROVE  /\ change \in Change /\ change.seq \in DOMAIN log
              /\ from < change.seq /\ change.seq <= end
              /\ log[change.seq].asset = change.rec.asset
              /\ log[change.seq].rev = change.rec.rev
              /\ change.rec.text = "kept" => bodies /\ log[change.seq].text = "kept"
  <2>1. PICK i \in ahead : i <= end /\ change = [seq |-> i, rec |-> Shown(log[i], bodies)]
    BY <1>10
  <2> QED
    BY <2>1, <1>1, <1>2, <1>9 DEF Change
<1> HIDE DEF items
<1> QED
  BY <1>6, <1>7, <1>8, <1>10

\* The newest change of an asset in a page.
LEMMA LatestIn ==
  ASSUME NEW n \in Nat, NEW items \in SUBSET Change, \A change \in items : change.seq <= n,
         NEW a \in Asset, About(items, a) # {}
  PROVE  \E last \in About(items, a) :
           /\ Latest(items, a) = last.rec
           /\ \A change \in About(items, a) : change.seq <= last.seq
<1> DEFINE seqs == {change.seq : change \in About(items, a)}
<1>1. seqs \in SUBSET (0..n) /\ seqs # {}
  BY DEF About, Change
<1>2. PICK top \in seqs : \A k \in seqs : k <= top
  BY <1>1, MaxOf
<1>3. \E last \in About(items, a) : \A change \in About(items, a) : change.seq <= last.seq
  BY <1>2
<1> QED
  BY <1>3 DEF Latest

LEMMA GreatestSeen ==
  ASSUME NEW n \in Nat, NEW items \in SUBSET Change, \A change \in items : change.rec.rev <= n,
         NEW x \in Nat, NEW a \in Asset
  PROVE  Max({x} \cup {change.rec.rev : change \in About(items, a)}) \in Nat
<1> DEFINE revs == {x} \cup {change.rec.rev : change \in About(items, a)}
<1>1. \A change \in items : change.rec.rev \in Nat
  BY DEF Change, Rec
<1>2. revs \in SUBSET (0..(n + x)) /\ revs # {}
  BY <1>1 DEF About
<1>3. Max(revs) \in revs
  <2> HIDE DEF revs
  <2>1. n + x \in Nat
    OBVIOUS
  <2> QED
    BY <1>2, <2>1, MaxOf
<1> QED
  BY <1>2, <1>3

LEMMA ReplayType ==
  ASSUME QueueType, NEW n \in Nat, NEW items \in SUBSET Change,
         \A change \in items : change.rec.rev <= n,
         NEW d \in Device, ReplayOwn(d, items)
  PROVE  part' \in [Asset -> PartRow \cup {NoPart}] /\ outbox' \in [Asset -> Row \cup {NoRow}]
<1> DEFINE seen(a) == {change.rec.rev : change \in About(items, a)}
           rev(a)  == Max({part[a].rev} \cup seen(a))
           own(a)  == a \in Mine(d) /\ About(items, a) # {}
           revive(a) == part[a].deleted /\ \E change \in About(items, a) : ~change.rec.deleted
<1>1. ASSUME NEW a \in Asset, part[a] # NoPart
      PROVE  [part[a] EXCEPT !.rev = rev(a)] \in PartRow /\ Tombstone(a, rev(a)) \in Row
  <2>1. part[a] \in PartRow
    BY <1>1 DEF QueueType
  <2>2. part[a].rev \in Nat
    BY <2>1 DEF PartRow
  <2>3. rev(a) \in Nat
    BY <2>2, GreatestSeen
  <2> HIDE DEF rev
  <2> QED
    BY <1>1, <2>1, <2>3, TombstoneType DEF PartRow
<1>2. ASSUME NEW a \in Asset, outbox[a] # NoRow
      PROVE  [outbox[a] EXCEPT !.base = Max({outbox[a].base} \cup seen(a))] \in Row
  <2>1. outbox[a] \in Row
    BY <1>2 DEF QueueType
  <2>2. outbox[a].base \in Nat
    BY <2>1 DEF Row
  <2>3. Max({outbox[a].base} \cup seen(a)) \in Nat
    BY <2>2, GreatestSeen
  <2> HIDE DEF seen
  <2> QED
    BY <2>1, <2>3 DEF Row
<1>3. /\ part' = [a \in Asset |->
           IF own(a) /\ part[a] # NoPart THEN [part[a] EXCEPT !.rev = rev(a)] ELSE part[a]]
      /\ outbox' = [a \in Asset |->
           IF own(a) /\ part[a] # NoPart /\ revive(a) THEN Tombstone(a, rev(a))
           ELSE IF own(a) /\ outbox[a] # NoRow
           THEN [outbox[a] EXCEPT !.base = Max({@} \cup seen(a))]
           ELSE outbox[a]]
  BY DEF ReplayOwn
<1> HIDE DEF seen, rev, own, revive
<1> QED
  BY <1>1, <1>2, <1>3 DEF QueueType

-----------------------------------------------------------------------------
(* Every step keeps the types.                                             *)

LEMMA FaultType ==
  ASSUME RestType, NEW kind, Fault(kind)
  PROVE  faults' \in 0..MaxFaults
BY SyncAssumption DEF RestType, Fault

\* A page is stored.
LEMMA AppliesTypes ==
  ASSUME TypeOK, Counted, Pages, NEW d \in Device, Applies(d),
         wants' \in [Device -> BOOLEAN], faults' \in 0..MaxFaults
  PROVE  TypeOK'
<1> USE TypeParts
<1> DEFINE page == pass[d].page
<1>1. PICK kept \in SUBSET page.items : ApplyPage(d, kept)
  BY DEF Applies
<1>2. Len(log) \in Nat /\ DOMAIN log = 1..Len(log)
  BY LenProperties DEF HubType
<1>3. /\ page.items \in SUBSET Change /\ page.cursor \in Nat
      /\ \A change \in page.items : change.seq <= Len(log) /\ change.rec.rev <= Len(log)
  <2>1. InHand(d) /\ cursor[d] <= page.cursor
    BY DEF Applies, At, InHand, Pages
  <2>2. page.items \in SUBSET Change /\ page.cursor \in Nat
    BY <2>1 DEF PassesType, PassType, RecallType
  <2>3. \A change \in page.items :
          change.seq \in DOMAIN log /\ log[change.seq].rev = change.rec.rev
    BY <2>1 DEF Pages
  <2> QED
    BY <1>2, <2>2, <2>3 DEF Counted
<1>4. part' \in [Asset -> PartRow \cup {NoPart}] /\ outbox' \in [Asset -> Row \cup {NoRow}]
  BY <1>1, <1>2, <1>3, ReplayType DEF ApplyPage
<1>5. \A a \in Asset : About(kept, a) # {} => Latest(kept, a) \in Rec
  <2> SUFFICES ASSUME NEW a \in Asset, About(kept, a) # {}
               PROVE  Latest(kept, a) \in Rec
    OBVIOUS
  <2>1. kept \in SUBSET Change /\ \A change \in kept : change.seq <= Len(log)
    BY <1>1, <1>3
  <2>2. PICK last \in About(kept, a) : Latest(kept, a) = last.rec
    BY <1>2, <2>1, LatestIn
  <2> QED
    BY <2>1, <2>2 DEF About, Change
<1>6. RecallType'
  <2>1. /\ replica' = [replica EXCEPT ![d] = [a \in Asset |->
                         IF About(kept, a) = {} THEN replica[d][a] ELSE Latest(kept, a)]]
        /\ cursor' = [cursor EXCEPT ![d] = page.cursor] /\ mode' = mode
    BY <1>1 DEF ApplyPage, RecallType
  <2> QED
    BY <1>3, <1>5, <2>1 DEF RecallType
<1>7. PassesType'
  BY <1>1, IdleType DEF ApplyPage, PassesType, PassType
<1>8. RestType'
  BY <1>1 DEF ApplyPage, RestType, hub
<1> QED
  BY <1>1, <1>4, <1>6, <1>7, <1>8, TypePartsNext DEF ApplyPage, sources, refusals, hub,
     SourcesType, QueueType, RefusalType, HubType

\* Steps of the world and of the Hub.
LEMMA WorldTypes ==
  ASSUME TypeOK, Uploads, Counted, Pages, World
  PROVE  TypeOK'
<1> USE TypeParts
<1>1. ASSUME NEW m \in Doc, NEW c \in Content, Edit(m, c) PROVE TypeOK'
  <2>1. SourcesType'
    BY <1>1, SyncAssumption DEF Edit, SourcesType
  <2> QED
    BY <1>1, <2>1, TypePartsNext DEF Edit, queue, recall, hub,
       QueueType, RefusalType, RecallType, HubType, RestType, PassesType
<1>2. ASSUME NEW m \in Doc, Remove(m) PROVE TypeOK'
  <2>1. SourcesType'
    BY <1>2, SyncAssumption DEF Remove, SourcesType
  <2> QED
    BY <1>2, <2>1, TypePartsNext DEF Remove, queue, recall, hub,
       QueueType, RefusalType, RecallType, HubType, RestType, PassesType
<1>3. ASSUME NEW d \in Device, Unmount(d) \/ Mount(d) PROVE TypeOK'
  <2>1. SourcesType'
    BY <1>3 DEF Unmount, Mount, SourcesType
  <2>2. faults' \in 0..MaxFaults
    BY <1>3, FaultType DEF Unmount, Mount, RestType
  <2> QED
    BY <1>3, <2>1, <2>2, TypePartsNext DEF Unmount, Mount, queue, recall, hub,
       QueueType, RefusalType, RecallType, HubType, RestType, PassesType
<1>4. ASSUME NEW d \in Device, Toggle(d) \/ Revoke(d) PROVE TypeOK'
  <2>1. faults' \in 0..MaxFaults
    BY <1>4, FaultType DEF Toggle, Revoke
  <2>2. wants' \in [Device -> BOOLEAN]
    BY <1>4 DEF Toggle, Revoke, RestType
  <2>3. revoked' \subseteq Device /\ late' = late /\ overdue' = overdue
    BY <1>4 DEF Toggle, Revoke, RestType, hub
  <2>4. RestType'
    BY <2>1, <2>2, <2>3 DEF RestType
  <2> QED
    BY <1>4, <2>4, TypePartsNext DEF Toggle, Revoke, sources, queue, recall, hub,
       SourcesType, QueueType, RefusalType, RecallType, HubType, PassesType
<1>5. ASSUME NEW a \in Asset, Purge(a) PROVE TypeOK'
  <2>1. HubType'
    BY <1>5, PurgeKeeps
  <2>2. RestType'
    BY <1>5, FaultType DEF Purge, RestType
  <2> QED
    BY <1>5, <2>1, <2>2, TypePartsNext DEF Purge, sources, queue, recall,
       SourcesType, QueueType, RefusalType, RecallType, PassesType
<1>6. ASSUME NEW row \in late, Arrive(row) PROVE TypeOK'
  <2>1. HubType'
    <3>1. row \in Row
      BY DEF RestType
    <3>2. UNCHANGED <<store, log>> \/ Put(row)
      BY <1>6 DEF Arrive
    <3> QED
      BY <3>1, <3>2, PutKeeps DEF HubType
  <2>2. RestType'
    BY <1>6 DEF Arrive, RestType, Row
  <2> QED
    BY <1>6, <2>1, <2>2, TypePartsNext DEF Arrive, sources, queue, recall,
       SourcesType, QueueType, RefusalType, RecallType, PassesType
<1>7. ASSUME NEW d \in Device, Stop(d) PROVE TypeOK'
  <2>1. PassesType' /\ RestType'
    BY <1>7, IdleType, SyncAssumption DEF Stop, Fault, PassesType, RestType, hub
  <2> QED
    BY <1>7, <2>1, TypePartsNext DEF Stop, sources, queue, recall, hub,
       SourcesType, QueueType, RefusalType, RecallType, HubType
<1>8. ASSUME NEW d \in Device, Configure(d) PROVE TypeOK'
  <2>1. RecallType'
    BY <1>8, ConfigureType DEF Configure
  <2> QED
    BY <1>8, <2>1, TypePartsNext DEF Configure, sources, queue, hub,
       SourcesType, QueueType, RefusalType, HubType, RestType, PassesType
<1>9. ASSUME NEW d \in Device, StopInConfigure(d) PROVE TypeOK'
  <2>1. RecallType'
    BY <1>9, IdleType DEF StopInConfigure, ClearForPolicy, RecallType
  <2>2. RestType'
    BY <1>9, SyncAssumption DEF StopInConfigure, Fault, RestType, hub
  <2> QED
    BY <1>9, <2>1, <2>2, TypePartsNext DEF StopInConfigure, sources, queue, hub,
       SourcesType, QueueType, RefusalType, HubType, PassesType
<1>10. ASSUME NEW d \in Device, TimeOut(d) PROVE TypeOK'
  <2>1. pass[d].row \in Row
    BY <1>10 DEF Uploads, UploadsOf, InFlight, TimeOut, At
  <2>2. PassesType' /\ RestType'
    BY <1>10, <2>1, IdleType, SyncAssumption DEF TimeOut, Fault, PassesType, RestType, hub
  <2> QED
    BY <1>10, <2>2, TypePartsNext DEF TimeOut, sources, queue, recall, hub,
       SourcesType, QueueType, RefusalType, RecallType, HubType
<1>11. ASSUME NEW m \in Doc, Upgrade(m) PROVE TypeOK'
  <2>1. SourcesType' /\ PassesType' /\ RestType'
    BY <1>11, IdleType, FaultType, SyncAssumption DEF Upgrade, SourcesType, PassesType, RestType, hub
  <2> QED
    BY <1>11, <2>1, TypePartsNext DEF Upgrade, queue, recall, hub,
       QueueType, RefusalType, RecallType, HubType
<1>12. ASSUME NEW d \in Device, SwitchInApply(d) PROVE TypeOK'
  <2>1. wants' \in [Device -> BOOLEAN] /\ faults' \in 0..MaxFaults
    BY <1>12, FaultType DEF SwitchInApply, RestType
  <2> QED
    BY <1>12, <2>1, ApplyingSteps, AppliesTypes
<1> QED
  BY <1>1, <1>2, <1>3, <1>4, <1>5, <1>6, <1>7, <1>8, <1>9, <1>10, <1>11, <1>12 DEF World

\* Steps of a pass that leave the tables alone.
LEMMA PassTypes ==
  ASSUME TypeOK, Uploads, NEW d \in Device,
         List(d) \/ Send(d) \/ Defer(d) \/ Fetch(d) \/ FetchNothing(d) \/ LastSeq(d) \/ Check(d)
  PROVE  TypeOK'
<1> USE TypeParts
<1>1. pass[d] \in PassType
  BY DEF PassesType
<1>2. CASE List(d)
  <2> DEFINE p == [pass[d] EXCEPT !.left = DocsOf(d),
                     !.listed = {m \in pass[d].listed : mounted[d] /\ file[m] # "absent"}]
  <2>1. p \in PassType
    BY <1>1 DEF PassType, DocsOf
  <2>2. ToScan(p) \in PassType
    BY <2>1, ToScanType
  <2>3. pass' = [pass EXCEPT ![d] = ToScan(p)]
    BY <1>2 DEF List
  <2> HIDE DEF p
  <2>4. PassesType'
    BY <2>2, <2>3 DEF PassesType
  <2> QED
    BY <1>2, <2>4, TypePartsNext DEF List, sources, queue, recall, hub,
       SourcesType, QueueType, RefusalType, RecallType, HubType, RestType
<1>3. CASE Send(d)
  <2>1. PICK row \in InTurn(d) :
          pass' = [pass EXCEPT ![d].at = "sent", ![d].row = row, ![d].tried = TRUE,
                               ![d].todo = @ \ {row}]
    BY <1>3 DEF Send
  <2>2. row \in Row
    BY <2>1, <1>1 DEF InTurn, PassType
  <2>3. PassesType'
    BY <1>1, <2>1, <2>2 DEF PassesType, PassType
  <2> QED
    BY <1>3, <2>3, TypePartsNext DEF Send, sources, queue, recall, hub,
       SourcesType, QueueType, RefusalType, RecallType, HubType, RestType
<1>4. CASE Defer(d) \/ FetchNothing(d) \/ Check(d)
  <2> DEFINE none == [NoPage EXCEPT !.bodies = wants[d]]
  <2>1. none \in [items : SUBSET Change, cursor : Nat \cup {-1}, bodies : BOOLEAN]
    BY DEF NoPage, RestType
  <2> HIDE DEF none
  <2>2. /\ [Idle EXCEPT !.at = "pull"] \in PassType
        /\ [pass[d] EXCEPT !.at = "ended", !.page = none] \in PassType
        /\ [pass[d] EXCEPT !.at = "checked"] \in PassType
    BY <1>1, <2>1, IdleType DEF PassType
  <2>3. \/ pass' = [pass EXCEPT ![d] = [Idle EXCEPT !.at = "pull"]]
        \/ pass' = [pass EXCEPT ![d] = [pass[d] EXCEPT !.at = "ended", !.page = none]]
        \/ pass' = [pass EXCEPT ![d] = [pass[d] EXCEPT !.at = "checked"]]
    BY <1>4 DEF Defer, FetchNothing, Check, none
  <2>4. PassesType'
    BY <2>2, <2>3 DEF PassesType
  <2> QED
    BY <1>4, <2>4, TypePartsNext DEF Defer, FetchNothing, Check, sources, queue, recall, hub,
       SourcesType, QueueType, RefusalType, RecallType, HubType, RestType
<1>5. CASE Fetch(d)
  <2> DEFINE page == Changes(cursor[d], wants[d])
  <2>1. page.items \in SUBSET Change /\ page.cursor \in Nat
    BY <1>5, ChangesAhead DEF Fetch, RecallType, RestType
  <2>2. page = [items |-> page.items, cursor |-> page.cursor, bodies |-> wants[d]]
    BY DEF Changes
  <2>3. pass' = [pass EXCEPT ![d].at = "fetched", ![d].page = page]
    BY <1>5 DEF Fetch
  <2> HIDE DEF page
  <2>4. page \in [items : SUBSET Change, cursor : Nat \cup {-1}, bodies : BOOLEAN]
    BY <2>1, <2>2 DEF RestType
  <2>5. PassesType'
    BY <1>1, <2>3, <2>4 DEF PassesType, PassType
  <2> QED
    BY <1>5, <2>5, TypePartsNext DEF Fetch, sources, queue, recall, hub,
       SourcesType, QueueType, RefusalType, RecallType, HubType, RestType
<1>6. CASE LastSeq(d)
  <2> DEFINE last == Max({cursor[d], Len(log)})
  <2>1. last \in Nat
    <3>1. Len(log) \in Nat /\ cursor[d] \in Nat
      BY LenProperties DEF HubType, RecallType
    <3> QED
      BY <3>1, MaxOfTwo
  <2>2. pass' = [pass EXCEPT ![d].at = "fetched", ![d].page.cursor = last]
    BY <1>6 DEF LastSeq
  <2> HIDE DEF last
  <2>3. PassesType'
    BY <1>1, <2>1, <2>2 DEF PassesType, PassType
  <2> QED
    BY <1>6, <2>3, TypePartsNext DEF LastSeq, sources, queue, recall, hub,
       SourcesType, QueueType, RefusalType, RecallType, HubType, RestType
<1> QED
  BY <1>2, <1>3, <1>4, <1>5, <1>6

\* Steps that scan and upload.
LEMMA UploadTypes ==
  ASSUME TypeOK, Queued, Uploads, NEW d \in Device,
         (\E m \in Doc : Scan(d, m)) \/ Connect(d) \/ Commit(d) \/ Saved(d) \/ Refused(d)
  PROVE  TypeOK'
<1> USE TypeParts
<1>1. pass[d] \in PassType
  BY DEF PassesType
<1>2. ASSUME NEW m \in Doc, Scan(d, m) PROVE TypeOK'
  <2>1. snap' \in [Doc -> Content \cup {"none", "deleted"}]
    BY <1>2 DEF Scan, ScanFile, ScanMissing, QueueType, SourcesType
  <2>2. part' \in [Asset -> PartRow \cup {NoPart}] /\ outbox' \in [Asset -> Row \cup {NoRow}]
    <3>1. CASE UNCHANGED <<part, outbox>>
      BY <3>1 DEF QueueType
    <3>2. CASE \E gone \in SUBSET {a \in Asset : part[a] # NoPart} : QueueDelete(gone)
      BY <3>2, QueueDeleteType
    <3>3. CASE \E c \in Content : EnqueueDocument(m, c)
      BY <3>3, EnqueueType
    <3>4. CASE ScanFile(d, m)
      <4>1. file[m] \in Content \cup {"absent"}
        BY DEF SourcesType
      <4>2. \/ UNCHANGED <<part, outbox>>
            \/ QueueDelete(IF snap[m] = "none" THEN {} ELSE {a \in PartsOf(m) : ~part[a].deleted})
            \/ QueueDelete(IF snap[m] = "none" THEN {} ELSE PartsOf(m))
            \/ \E c \in Content : EnqueueDocument(m, c)
        BY <3>4, <4>1 DEF ScanFile
      <4> QED
        BY <4>2, <3>1, <3>2, <3>3 DEF PartsOf
    <3>5. CASE DropUnsent(m) /\ UNCHANGED part
      BY <3>5 DEF DropUnsent, QueueType
    <3>6. CASE ScanMissing(m)
      BY <3>1, <3>2, <3>5, <3>6 DEF ScanMissing, PartsOf
    <3> QED
      BY <1>2, <3>4, <3>6 DEF Scan
  <2>3. PassesType'
    <3>1. [pass[d] EXCEPT !.left = pass[d].left \ {m}] \in PassType
      BY <1>1 DEF PassType
    <3>2. ToScan([pass[d] EXCEPT !.left = pass[d].left \ {m}]) \in PassType
      BY <3>1, ToScanType
    <3> QED
      BY <1>2, <3>2 DEF Scan, PassesType
  <2> QED
    BY <1>2, <2>1, <2>2, <2>3, TypePartsNext DEF Scan, sources, refusals, recall, hub,
       SourcesType, QueueType, RefusalType, RecallType, HubType, RestType
<1>3. CASE Connect(d)
  <2>1. RefusalType'
    BY <1>3 DEF Connect, Forget, RefusalType
  <2>2. {outbox[a] : a \in Mine(d)} \ {NoRow} \in SUBSET Row
    BY DEF QueueType, Mine
  <2>3. PassesType'
    <3> DEFINE p == [pass[d] EXCEPT !.todo = {outbox[a] : a \in Mine(d)} \ {NoRow}]
    <3>1. p \in PassType
      BY <1>1, <2>2 DEF PassType
    <3>2. ToPush(p) \in PassType
      BY <3>1, ToPushType
    <3>3. pass' = [pass EXCEPT ![d] = ToPush(p)]
      BY <1>3 DEF Connect
    <3> HIDE DEF p
    <3> QED
      BY <3>2, <3>3 DEF PassesType
  <2> QED
    BY <1>3, <2>1, <2>3, TypePartsNext DEF Connect, sources, recall, hub,
       SourcesType, QueueType, RecallType, HubType, RestType
<1>4. CASE Commit(d)
  <2>1. pass[d].row \in Row
    BY <1>4 DEF Commit, At, Uploads, UploadsOf, InFlight
  <2>2. HubType'
    BY <1>4, <2>1, PutKeeps DEF Commit
  <2>3. Answer(pass[d].row) \in [kind : {"saved", "refused"}, rev : Nat \cup {-1}]
    BY <2>1 DEF Answer, Row, HubType, Rec, NoRec
  <2>4. PassesType'
    BY <1>1, <1>4, <2>3 DEF Commit, PassesType, PassType
  <2> QED
    BY <1>4, <2>2, <2>4, TypePartsNext DEF Commit, sources, queue, recall,
       SourcesType, QueueType, RefusalType, RecallType, RestType
<1>5. CASE Saved(d)
  <2> DEFINE a == pass[d].row.asset
  <2>1. pass[d].row \in Row /\ a \in Asset /\ outbox[a] = pass[d].row
    BY <1>5 DEF Saved, At, Uploads, UploadsOf, InFlight, Row
  <2>2. outbox[a] # NoRow
    BY <2>1 DEF Row, NoRow
  <2>3. part[a] \in PartRow
    BY <2>1, <2>2 DEF Queued, QueueType
  <2>4. pass[d].reply.rev \in Nat
    BY <1>5 DEF Saved, Uploads, UploadsOf
  <2>5. part' \in [Asset -> PartRow \cup {NoPart}] /\ outbox' \in [Asset -> Row \cup {NoRow}]
    BY <1>5, <2>1, <2>3, <2>4 DEF Saved, QueueType, PartRow
  <2>6. RefusalType'
    BY <1>5 DEF Saved, Forget, RefusalType
  <2>7. PassesType'
    BY <1>1, <1>5, ToPushType DEF Saved, PassesType
  <2> QED
    BY <1>5, <2>5, <2>6, <2>7, TypePartsNext DEF Saved, sources, recall, hub,
       SourcesType, QueueType, RecallType, HubType, RestType
<1>6. CASE Refused(d)
  <2>1. pass[d].row \in Row
    BY <1>6 DEF Refused, At, Uploads, UploadsOf, InFlight
  <2>2. RefusalType'
    BY <1>6, <2>1 DEF Refused, RefusalType, Mine, Row
  <2>3. PassesType'
    BY <1>1, <1>6, ToPushType DEF Refused, PassesType
  <2> QED
    BY <1>6, <2>2, <2>3, TypePartsNext DEF Refused, sources, recall, hub,
       SourcesType, QueueType, RecallType, HubType, RestType
<1> QED
  BY <1>2, <1>3, <1>4, <1>5, <1>6

\* Steps that change what a device recalls.
LEMMA RecallTypes ==
  ASSUME TypeOK, Counted, Pages, NEW d \in Device,
         Begin(d) \/ Denied(d) \/ Refetch(d) \/ Apply(d) \/ Finish(d)
  PROVE  TypeOK'
<1> USE TypeParts
<1>1. pass[d] \in PassType
  BY DEF PassesType
<1>2. CASE Begin(d)
  <2>1. [Idle EXCEPT !.at = "walk", !.listed = {m \in DocsOf(d) \ withheld : file[m] # "absent"}]
          \in PassType
    BY IdleType DEF PassType, DocsOf
  <2>2. PassesType'
    BY <1>2, <2>1, IdleType DEF Begin, PassesType, PassType
  <2> QED
    BY <1>2, <2>2, ConfigureType, TypePartsNext DEF Begin, sources, queue, hub,
       SourcesType, QueueType, RefusalType, HubType, RestType
<1>3. CASE Denied(d)
  <2>1. PassesType' /\ RecallType'
    BY <1>3, IdleType DEF Denied, PassesType, RecallType
  <2> QED
    BY <1>3, <2>1, TypePartsNext DEF Denied, sources, queue, hub,
       SourcesType, QueueType, RefusalType, HubType, RestType
<1>4. CASE Refetch(d) \/ Finish(d)
  <2>1. [pass[d] EXCEPT !.at = "pull", !.page = NoPage] \in PassType
    BY <1>1 DEF PassType, NoPage
  <2>2. \/ pass' = [pass EXCEPT ![d] = Idle]
        \/ pass' = [pass EXCEPT ![d] = [pass[d] EXCEPT !.at = "pull", !.page = NoPage]]
    BY <1>4 DEF Refetch, Finish
  <2>3. PassesType'
    BY <2>1, <2>2, IdleType DEF PassesType
  <2> QED
    BY <1>4, <2>3, ConfigureType, TypePartsNext DEF Refetch, Finish, sources, queue, hub,
       SourcesType, QueueType, RefusalType, HubType, RestType
<1>5. CASE Apply(d)
  <2>1. wants' \in [Device -> BOOLEAN] /\ faults' \in 0..MaxFaults
    BY <1>5 DEF Apply, RestType
  <2> QED
    BY <1>5, <2>1, ApplyingSteps, AppliesTypes
<1> QED
  BY <1>2, <1>3, <1>4, <1>5

LEMMA TypeStep ==
  ASSUME TypeOK, Queued, Uploads, Counted, Pages, [Next]_vars
  PROVE  TypeOK'
<1>1. CASE UNCHANGED vars
  BY <1>1 DEF vars, sources, queue, recall, hub, TypeOK
<1>2. CASE Next
  BY <1>2, WorldTypes, PassTypes, UploadTypes, RecallTypes DEF Next, Work
<1> QED
  BY <1>1, <1>2

-----------------------------------------------------------------------------
(* The rest of the inductive invariants.                                   *)

(* Revisions grow along the log; the Hub's record is the newest one.       *)
Gone(l, a) == \E i \in DOMAIN l : l[i].asset = a /\ l[i].text = "purged"
InOrder(l, records) ==
  /\ \A i, j \in DOMAIN l :
       (i < j /\ l[i].asset = l[j].asset /\ ~Gone(l, l[i].asset)) => l[i].rev < l[j].rev
  /\ \A i \in DOMAIN l : ~Gone(l, l[i].asset) => l[i].rev <= records[l[i].asset].rev
Ordered == InOrder(log, store)

(* A replica's record was read from the log.                               *)
Sourced ==
  \A d \in Device, a \in Asset : replica[d][a] # NoRec =>
    \E i \in DOMAIN log : log[i].asset = a /\ log[i].rev = replica[d][a].rev

(* A text in a page in hand is not older than what the replica has.        *)
Fresh ==
  \A d \in Device : InHand(d) =>
    \A change \in pass[d].page.items :
      (change.rec.text = "kept" /\ ~Gone(log, change.rec.asset)) =>
        replica[d][change.rec.asset].rev <= change.rec.rev

(* An empty page waits for the end of the log.                             *)
Emptied == \A d \in Device : At(d, "ended") => pass[d].page.items = {}

(* The Hub keeps a text in the log only of the record that it holds.       *)
OneText ==
  /\ \A a \in Asset : store[a] # NoRec => store[a].text = "kept"
  /\ \A i \in DOMAIN log : log[i].text = "kept" =>
       /\ store[log[i].asset] = log[i]
       /\ \A j \in DOMAIN log : (log[j].text = "kept" /\ log[j].asset = log[i].asset) => i = j

(* What the Hub has acknowledged it still holds, unless an upload that its *)
(* client had given up on landed on top of it.                             *)
Acknowledged ==
  \A d \in Device :
    ( /\ pass[d].at = "answered" /\ pass[d].reply.kind = "saved"
      /\ ~Erased(pass[d].row.asset) /\ pass[d].row.asset \notin overdue )
        => Same(store[pass[d].row.asset], pass[d].row)

-----------------------------------------------------------------------------
(* The queue is changed by the pass of the owner only.                     *)

LEMMA OneOwner ==
  ASSUME NEW d \in Device, NEW e \in Device, NEW a \in Mine(d), a \in Mine(e)
  PROVE  d = e
BY DEF Mine

Decided(a) ==
  /\ outbox[a] # NoRow /\ outbox[a].asset = a /\ part[a] # NoPart
  /\ outbox[a].ver = part[a].ver /\ outbox[a].deleted = part[a].deleted
Untouched(a) ==
  /\ outbox'[a] = outbox[a] /\ (part[a] = NoPart <=> part'[a] = NoPart)
  /\ part'[a].ver = part[a].ver /\ part'[a].deleted = part[a].deleted

Dropped(a) ==
  /\ outbox'[a] = NoRow /\ part'[a] = part[a]
  /\ a[1] \in withheld' /\ part[a].deleted = FALSE

\* Scanning and reading back decide again, leave a decision as it is, or drop
\* what was not sent of a file that is withheld.
QueueStep(d) ==
  /\ \A a \in Asset : Decided(a)' \/ Untouched(a) \/ Dropped(a)
  /\ \A a \in Asset \ Mine(d) : outbox'[a] = outbox[a]

LEMMA DeletesDecide ==
  ASSUME QueueType, NEW d \in Device,
         NEW gone \in SUBSET {a \in Mine(d) : part[a] # NoPart}, QueueDelete(gone)
  PROVE  QueueStep(d)
<1>1. ASSUME NEW a \in gone PROVE Decided(a)'
  <2>1. a \in Asset /\ part[a] \in PartRow
    BY DEF Mine, QueueType
  <2>2. outbox'[a] = Tombstone(a, part[a].rev) /\ part'[a] = [part[a] EXCEPT !.deleted = TRUE]
    BY <2>1 DEF QueueDelete
  <2>3. Tombstone(a, part[a].rev) # NoRow
    BY <2>1 DEF Tombstone, NoRow, PartRow
  <2>4. part'[a] # NoPart /\ part'[a].ver = part[a].ver /\ part'[a].deleted = TRUE
    BY <2>1, <2>2 DEF PartRow, NoPart
  <2> QED
    BY <2>2, <2>3, <2>4 DEF Decided, Tombstone
<1>2. ASSUME NEW a \in Asset, a \notin gone PROVE Untouched(a)
  BY <1>2 DEF QueueDelete, Untouched
<1>3. \A a \in Asset \ Mine(d) : outbox'[a] = outbox[a]
  BY DEF QueueDelete
<1> QED
  BY <1>1, <1>2, <1>3 DEF QueueStep

LEMMA EnqueueDecides ==
  ASSUME QueueType, NEW d \in Device, NEW m \in DocsOf(d), NEW c \in Content,
         EnqueueDocument(m, c)
  PROVE  QueueStep(d)
<1> DEFINE live == {m} \X (1..Parts[c])
           tail == PartsOf(m) \ live
<1>1. ASSUME NEW a \in Asset, a \in live PROVE Decided(a)'
  <2>1. /\ part'[a] = [rev |-> Known(a), ver |-> c, deleted |-> FALSE]
        /\ outbox'[a] = [asset |-> a, base |-> Known(a), ver |-> c, deleted |-> FALSE]
    BY <1>1 DEF EnqueueDocument
  <2>2. Known(a) \in Nat
    BY DEF Known, QueueType, PartRow
  <2>3. part'[a] # NoPart /\ outbox'[a] # NoRow
    BY <2>1, <2>2 DEF NoPart, NoRow
  <2> QED
    BY <2>1, <2>3 DEF Decided
<1>2. ASSUME NEW a \in Asset, a \notin live, a \in tail PROVE Decided(a)'
  <2>1. part[a] \in PartRow
    BY <1>2 DEF PartsOf, QueueType
  <2>2. outbox'[a] = Tombstone(a, part[a].rev) /\ part'[a] = [part[a] EXCEPT !.deleted = TRUE]
    BY <1>2 DEF EnqueueDocument
  <2>3. Tombstone(a, part[a].rev) # NoRow
    BY <2>1 DEF Tombstone, NoRow, PartRow
  <2>4. part'[a] # NoPart /\ part'[a].ver = part[a].ver /\ part'[a].deleted = TRUE
    BY <2>1, <2>2 DEF PartRow, NoPart
  <2> QED
    BY <2>2, <2>3, <2>4 DEF Decided, Tombstone
<1>3. ASSUME NEW a \in Asset, a \notin live, a \notin tail PROVE Untouched(a)
  BY <1>3 DEF EnqueueDocument, Untouched
<1>4. \A a \in Asset \ Mine(d) : a \notin live /\ a \notin tail
  BY DEF Mine, DocsOf, PartsOf, Asset
<1>5. \A a \in Asset \ Mine(d) : outbox'[a] = outbox[a]
  BY <1>3, <1>4 DEF Untouched
<1> QED
  BY <1>1, <1>2, <1>3, <1>5 DEF QueueStep

LEMMA DropDecides ==
  ASSUME Queued, NEW d \in Device, NEW m \in DocsOf(d), m \in withheld',
         DropUnsent(m), UNCHANGED part
  PROVE  QueueStep(d)
<1>1. ASSUME NEW a \in Asset PROVE Untouched(a) \/ Dropped(a)
  <2>1. CASE outbox'[a] = outbox[a]
    BY <2>1 DEF Untouched
  <2>2. CASE outbox'[a] # outbox[a]
    <3>1. outbox'[a] = NoRow /\ outbox[a] # NoRow /\ ~outbox[a].deleted /\ a \in PartsOf(m)
      BY <2>2 DEF DropUnsent
    <3>2. outbox[a].deleted = part[a].deleted
      BY <3>1 DEF Queued
    <3> QED
      BY <3>1, <3>2 DEF Dropped, PartsOf
  <2> QED
    BY <2>1, <2>2
<1>2. \A a \in Asset \ Mine(d) : outbox'[a] = outbox[a]
  BY DEF DropUnsent, PartsOf, Mine, DocsOf
<1> QED
  BY <1>1, <1>2 DEF QueueStep

LEMMA ScanDecides ==
  ASSUME TypeOK, Queued, Uploads, NEW d \in Device, NEW m \in Doc, Scan(d, m)
  PROVE  QueueStep(d)
<1>1. m \in DocsOf(d)
  BY DEF Scan, Uploads, UploadsOf
<1>2. PartsOf(m) \subseteq {a \in Mine(d) : part[a] # NoPart}
  BY <1>1 DEF PartsOf, Mine, DocsOf
<1>3. QueueType
  BY TypeParts
<1>4. CASE UNCHANGED <<part, outbox>>
  BY <1>4 DEF QueueStep, Untouched
<1>5. CASE \E gone \in SUBSET PartsOf(m) : QueueDelete(gone)
  BY <1>2, <1>3, <1>5, DeletesDecide
<1>6. CASE \E c \in Content : EnqueueDocument(m, c)
  BY <1>1, <1>3, <1>6, EnqueueDecides
<1>7. file[m] \in Content \cup {"absent"}
  BY DEF TypeOK
<1>8. CASE m \in withheld /\ DropUnsent(m) /\ UNCHANGED part
  BY <1>1, <1>8, DropDecides DEF Scan, sources
<1>9. \/ UNCHANGED <<part, outbox>>
      \/ \E gone \in SUBSET PartsOf(m) : QueueDelete(gone)
      \/ \E c \in Content : EnqueueDocument(m, c)
      \/ m \in withheld /\ DropUnsent(m) /\ UNCHANGED part
  <2>1. CASE ScanFile(d, m)
    BY <1>7, <2>1 DEF ScanFile
  <2>2. CASE ScanMissing(m)
    BY <2>2 DEF ScanMissing
  <2> QED
    BY <2>1, <2>2 DEF Scan
<1> QED
  BY <1>4, <1>5, <1>6, <1>8, <1>9

LEMMA ReplayDecides ==
  ASSUME QueueType, Queued, NEW d \in Device, NEW n \in Nat, NEW items \in SUBSET Change,
         \A change \in items : change.rec.rev <= n, ReplayOwn(d, items)
  PROVE  QueueStep(d)
<1> DEFINE seen(a) == {change.rec.rev : change \in About(items, a)}
           rev(a)  == Max({part[a].rev} \cup seen(a))
           own(a)  == a \in Mine(d) /\ About(items, a) # {}
           revive(a) == part[a].deleted /\ \E change \in About(items, a) : ~change.rec.deleted
<1>1. /\ part' = [a \in Asset |->
           IF own(a) /\ part[a] # NoPart THEN [part[a] EXCEPT !.rev = rev(a)] ELSE part[a]]
      /\ outbox' = [a \in Asset |->
           IF own(a) /\ part[a] # NoPart /\ revive(a) THEN Tombstone(a, rev(a))
           ELSE IF own(a) /\ outbox[a] # NoRow
           THEN [outbox[a] EXCEPT !.base = Max({@} \cup seen(a))]
           ELSE outbox[a]]
  BY DEF ReplayOwn
<1>2. ASSUME NEW a \in Asset, part[a] # NoPart
      PROVE  /\ part[a] \in PartRow /\ rev(a) \in Nat
             /\ [part[a] EXCEPT !.rev = rev(a)] # NoPart
             /\ [part[a] EXCEPT !.rev = rev(a)].ver = part[a].ver
             /\ [part[a] EXCEPT !.rev = rev(a)].deleted = part[a].deleted
  <2>1. part[a] \in PartRow
    BY <1>2 DEF QueueType
  <2>2. part[a].rev \in Nat
    BY <2>1 DEF PartRow
  <2>3. rev(a) \in Nat
    BY <2>2, GreatestSeen
  <2> HIDE DEF rev
  <2> QED
    BY <2>1, <2>3 DEF PartRow, NoPart
<1>3. ASSUME NEW a \in Asset, outbox[a] # NoRow
      PROVE  /\ [outbox[a] EXCEPT !.base = Max({outbox[a].base} \cup seen(a))] # NoRow
             /\ [outbox[a] EXCEPT !.base = Max({outbox[a].base} \cup seen(a))].asset = outbox[a].asset
             /\ [outbox[a] EXCEPT !.base = Max({outbox[a].base} \cup seen(a))].ver = outbox[a].ver
             /\ [outbox[a] EXCEPT !.base = Max({outbox[a].base} \cup seen(a))].deleted = outbox[a].deleted
  <2>1. outbox[a] \in Row
    BY <1>3 DEF QueueType
  <2>2. outbox[a].base \in Nat
    BY <2>1 DEF Row
  <2>3. Max({outbox[a].base} \cup seen(a)) \in Nat
    BY <2>2, GreatestSeen
  <2> HIDE DEF seen
  <2> QED
    BY <2>1, <2>3 DEF Row, NoRow
<1>4. ASSUME NEW a \in Asset PROVE Decided(a)' \/ Untouched(a)
  <2>1. CASE own(a) /\ part[a] # NoPart /\ revive(a)
    <3>1. outbox'[a] = Tombstone(a, rev(a)) /\ part'[a] = [part[a] EXCEPT !.rev = rev(a)]
      BY <1>1, <2>1
    <3>2. Tombstone(a, rev(a)) # NoRow /\ part[a].deleted \in BOOLEAN
      BY <1>2, <2>1 DEF Tombstone, NoRow, PartRow
    <3>3. part[a].deleted = TRUE
      BY <2>1, <3>2
    <3>4. /\ part'[a] # NoPart /\ part'[a].ver = part[a].ver
          /\ part'[a].deleted = part[a].deleted
      BY <1>2, <2>1, <3>1
    <3>5. /\ outbox'[a].asset = a /\ outbox'[a].ver = part[a].ver
          /\ outbox'[a].deleted = TRUE
      BY <3>1 DEF Tombstone
    <3> QED
      BY <3>1, <3>2, <3>3, <3>4, <3>5 DEF Decided
  <2>2. CASE ~(own(a) /\ part[a] # NoPart /\ revive(a)) /\ own(a) /\ outbox[a] # NoRow
    <3>1. Decided(a)
      BY <2>2 DEF Queued, Decided
    <3>2. /\ outbox'[a] = [outbox[a] EXCEPT !.base = Max({outbox[a].base} \cup seen(a))]
          /\ part'[a] = [part[a] EXCEPT !.rev = rev(a)]
      BY <1>1, <2>2, <3>1 DEF Decided
    <3> HIDE DEF rev, seen, own, revive
    <3> QED
      BY <1>2, <1>3, <2>2, <3>1, <3>2 DEF Decided
  <2>3. CASE ~(own(a) /\ part[a] # NoPart /\ revive(a)) /\ ~(own(a) /\ outbox[a] # NoRow)
    <3>1. /\ outbox'[a] = outbox[a]
          /\ part'[a] = part[a] \/ (part[a] # NoPart /\ part'[a] = [part[a] EXCEPT !.rev = rev(a)])
      BY <1>1, <2>3
    <3> HIDE DEF rev, seen, own, revive
    <3> QED
      BY <1>2, <3>1 DEF Untouched
  <2> QED
    BY <2>1, <2>2, <2>3
<1>5. \A a \in Asset \ Mine(d) : outbox'[a] = outbox[a]
  <2> HIDE DEF rev, seen, revive
  <2> QED
    BY <1>1
<1> QED
  BY <1>4, <1>5 DEF QueueStep

\* What the page of a pass holds, as the lemmas above need it.
LEMMA PageInLog ==
  ASSUME TypeOK, Counted, Pages, NEW d \in Device, InHand(d)
  PROVE  /\ Len(log) \in Nat /\ DOMAIN log = 1..Len(log)
         /\ pass[d].page.items \in SUBSET Change
         /\ \A change \in pass[d].page.items :
              change.seq <= Len(log) /\ change.rec.rev <= Len(log)
<1>1. DOMAIN log = 1..Len(log) /\ Len(log) \in Nat
  BY LenProperties DEF TypeOK
<1>2. pass[d].page.items \in SUBSET Change
  BY DEF TypeOK, PassType
<1>3. \A change \in pass[d].page.items :
        change.seq \in DOMAIN log /\ log[change.seq].rev = change.rec.rev
  BY DEF Pages
<1> QED
  BY <1>1, <1>2, <1>3 DEF Counted

LEMMA ApplyDecides ==
  ASSUME TypeOK, Queued, Counted, Pages, NEW d \in Device, Applies(d)
  PROVE  QueueStep(d) /\ UNCHANGED hub
<1>1. InHand(d) /\ ReplayOwn(d, pass[d].page.items) /\ UNCHANGED hub
  BY DEF Applies, ApplyPage, At, InHand
<1> QED
  BY <1>1, PageInLog, ReplayDecides, TypeParts

LEMMA QueueSteps ==
  ASSUME TypeOK, Queued, Uploads, Counted, Pages, [Next]_vars
  PROVE  \/ UNCHANGED <<part, outbox>>
         \/ \E d \in Device : QueueStep(d) /\ UNCHANGED hub
         \/ \E d \in Device : Saved(d)
<1>1. CASE UNCHANGED vars
  BY <1>1 DEF vars, queue
<1>2. CASE World
  BY <1>2, ApplyingSteps, ApplyDecides DEF World, Edit, Remove, Upgrade, Unmount, Mount, Toggle,
     Revoke, Purge, Arrive, Stop, Configure, StopInConfigure, TimeOut, queue
<1>3. ASSUME NEW d \in Device, Work(d)
      PROVE  UNCHANGED <<part, outbox>> \/ (QueueStep(d) /\ UNCHANGED hub) \/ Saved(d)
  BY <1>3, ScanDecides, ApplyingSteps, ApplyDecides DEF Work, Scan, Begin, List, Denied, Connect,
     Send, Commit, Refused, Defer, Fetch, FetchNothing, LastSeq, Check, Refetch, Finish, queue
<1> QED
  BY <1>1, <1>2, <1>3 DEF Next

\* The row that is saved is the one in the outbox.
LEMMA SavedRow ==
  ASSUME TypeOK, Queued, Uploads, NEW d \in Device, Saved(d)
  PROVE  LET a == pass[d].row.asset
         IN  /\ a \in Mine(d) /\ Decided(a) /\ outbox[a] = pass[d].row
             /\ outbox' = [outbox EXCEPT ![a] = NoRow]
             /\ \A b \in Asset : (part[b] = NoPart <=> part'[b] = NoPart)
                                 /\ part'[b].ver = part[b].ver /\ part'[b].deleted = part[b].deleted
<1> DEFINE a == pass[d].row.asset
<1>1. a \in Mine(d) /\ outbox[a] = pass[d].row /\ pass[d].row \in Row
  BY DEF Saved, At, Uploads, UploadsOf, InFlight
<1>2. a \in Asset /\ outbox[a] # NoRow
  BY <1>1 DEF Row, NoRow, Mine
<1>3. Decided(a)
  BY <1>2 DEF Queued, Decided
<1>4. part[a] \in PartRow /\ pass[d].reply.rev \in Nat
  BY <1>2, <1>3 DEF Decided, TypeOK, Saved, Uploads, UploadsOf
<1>5. outbox' = [outbox EXCEPT ![a] = NoRow] /\ part' = [part EXCEPT ![a].rev = pass[d].reply.rev]
  BY <1>1 DEF Saved
<1>6. ASSUME NEW b \in Asset
      PROVE  /\ part[b] = NoPart <=> part'[b] = NoPart
             /\ part'[b].ver = part[b].ver /\ part'[b].deleted = part[b].deleted
  <2>1. CASE b = a
    <3>1. part'[a] = [part[a] EXCEPT !.rev = pass[d].reply.rev]
      BY <1>2, <1>5 DEF TypeOK
    <3> QED
      BY <1>3, <1>4, <2>1, <3>1 DEF Decided, PartRow, NoPart
  <2>2. CASE b # a
    BY <1>5, <2>2 DEF TypeOK
  <2> QED
    BY <2>1, <2>2
<1> QED
  BY <1>1, <1>3, <1>5, <1>6

LEMMA QueuedStep ==
  ASSUME TypeOK, Queued, Uploads, Counted, Pages, [Next]_vars
  PROVE  Queued'
<1>1. CASE UNCHANGED <<part, outbox>>
  BY <1>1 DEF Queued
<1>2. ASSUME NEW d \in Device, QueueStep(d) PROVE Queued'
  BY <1>2 DEF QueueStep, Decided, Untouched, Dropped, Queued
<1>3. ASSUME NEW d \in Device, Saved(d) PROVE Queued'
  <2>1. \A b \in Asset : outbox'[b] \in {outbox[b], NoRow}
    BY <1>3, SavedRow DEF TypeOK
  <2> QED
    BY <1>3, <2>1, SavedRow DEF Queued
<1> QED
  BY <1>1, <1>2, <1>3, QueueSteps

\* The uploads of the other devices do not notice a step of one pass.
LEMMA OtherUploads ==
  ASSUME Uploads, NEW d \in Device,
         \A a \in Asset \ Mine(d) : outbox'[a] = outbox[a],
         \A e \in Device \ {d} : pass'[e] = pass[e], UploadsOf(d)'
  PROVE  Uploads'
<1> SUFFICES ASSUME NEW e \in Device, e # d PROVE UploadsOf(e)'
  BY DEF Uploads
<1>1. UploadsOf(e) /\ pass'[e] = pass[e]
  BY DEF Uploads
<1>2. \A a \in Mine(e) : outbox'[a] = outbox[a]
  BY OneOwner DEF Mine
<1> QED
  BY <1>1, <1>2 DEF UploadsOf

LEMMA UploadsStep ==
  ASSUME TypeOK, Queued, Uploads, Counted, Pages, [Next]_vars
  PROVE  Uploads'
<1>1. CASE UNCHANGED <<pass, outbox>>
  BY <1>1 DEF Uploads, UploadsOf
<1>2. ASSUME NEW d \in Device, pass' = [pass EXCEPT ![d] = Idle], UNCHANGED outbox
      PROVE  Uploads'
  <2>1. pass'[d] = Idle /\ \A e \in Device \ {d} : pass'[e] = pass[e]
    BY <1>2 DEF TypeOK
  <2>2. UploadsOf(d)'
    BY <2>1 DEF UploadsOf, Idle, InFlight, NoReply
  <2> QED
    BY <1>2, <2>1, <2>2, OtherUploads
<1>3. ASSUME NEW d \in Device, NEW p, pass' = [pass EXCEPT ![d] = p],
             p.left \in SUBSET DocsOf(d), p.todo = {}, p.at \notin {"sent", "answered"},
             p.reply.kind = "saved" => p.reply.rev \in Nat, \A a \in Asset \ Mine(d) : outbox'[a] = outbox[a]
      PROVE  Uploads'
  <2>1. pass'[d] = p /\ \A e \in Device \ {d} : pass'[e] = pass[e]
    BY <1>3 DEF TypeOK
  <2>2. UploadsOf(d)'
    BY <1>3, <2>1 DEF UploadsOf, InFlight
  <2> QED
    BY <1>3, <2>1, <2>2, OtherUploads
<1>7. ASSUME NEW d \in Device, Applies(d) PROVE Uploads'
  <2>1. \A a \in Asset \ Mine(d) : outbox'[a] = outbox[a]
    BY <1>7, ApplyDecides DEF QueueStep
  <2>2. PICK at \in {"pulled", "pull"} :
          pass' = [pass EXCEPT ![d] = [Idle EXCEPT !.at = at, !.tried = TRUE]]
    BY <1>7 DEF Applies, ApplyPage
  <2> DEFINE p == [Idle EXCEPT !.at = at, !.tried = TRUE]
  <2>3. /\ p.left \in SUBSET DocsOf(d) /\ p.todo = {} /\ p.at = at
        /\ p.reply.kind # "saved"
    BY DEF Idle, NoReply
  <2>4. pass' = [pass EXCEPT ![d] = p]
    BY <2>2
  <2> HIDE DEF p
  <2> QED
    BY <1>3, <2>1, <2>3, <2>4
<1>4. CASE World
  <2>1. ASSUME NEW m \in Doc, Upgrade(m) PROVE Uploads'
    BY <1>2, <2>1, SyncAssumption DEF Upgrade, queue
  <2> QED
    BY <1>1, <1>2, <1>4, <1>7, <2>1, ApplyingSteps DEF World, Edit, Remove, Unmount, Mount, Toggle,
       Revoke, Purge, Arrive, Stop, Configure, StopInConfigure, TimeOut, queue
<1>5. ASSUME NEW d \in Device, Work(d) PROVE Uploads'
  <2>1. /\ pass[d] \in PassType /\ UploadsOf(d)
        /\ pass[d].left \in SUBSET DocsOf(d)
        /\ pass[d].reply.kind = "saved" => pass[d].reply.rev \in Nat
        /\ pass[d].at \notin {"push", "sent", "answered"} => pass[d].todo = {}
    BY DEF TypeOK, Uploads, UploadsOf
  <2>2. ASSUME NEW p, pass' = [pass EXCEPT ![d] = p], p.left = {}, p.todo = {},
               p.at \notin {"sent", "answered"}, p.reply = NoReply,
               \A a \in Asset \ Mine(d) : outbox'[a] = outbox[a]
        PROVE  Uploads'
    <3>1. p.left \in SUBSET DocsOf(d) /\ p.reply.kind # "saved"
      BY <2>2 DEF NoReply
    <3> QED
      BY <1>3, <2>2, <3>1
  <2>13. CASE Begin(d)
    <3> DEFINE walk == [Idle EXCEPT !.at = "walk",
                                    !.listed = {m \in DocsOf(d) \ withheld : file[m] # "absent"}]
               me == [Idle EXCEPT !.at = "me"]
    <3>1. /\ walk.left = {} /\ walk.todo = {} /\ walk.at = "walk" /\ walk.reply = NoReply
          /\ me.left = {} /\ me.todo = {} /\ me.at = "me" /\ me.reply = NoReply
      BY DEF Idle
    <3>2. pass' = [pass EXCEPT ![d] = walk] \/ pass' = [pass EXCEPT ![d] = me]
      BY <2>13 DEF Begin
    <3>3. UNCHANGED outbox
      BY <2>13 DEF Begin, queue
    <3> HIDE DEF walk, me
    <3> QED
      BY <2>2, <3>1, <3>2, <3>3
  <2>3. CASE List(d)
    <3> DEFINE p == [pass[d] EXCEPT !.left = DocsOf(d),
                       !.listed = {m \in @ : mounted[d] /\ file[m] # "absent"}]
    <3>1. /\ pass' = [pass EXCEPT ![d] = ToScan(p)] /\ UNCHANGED outbox
          /\ pass[d].at = "walk"
      BY <2>3 DEF List, queue, At
    <3>2. /\ ToScan(p).left \in SUBSET DocsOf(d) /\ ToScan(p).todo = {}
          /\ ToScan(p).at \in {"me", "scan"}
          /\ ToScan(p).reply.kind = "saved" => ToScan(p).reply.rev \in Nat
      BY <2>1, <3>1 DEF ToScan, Idle, NoReply, PassType
    <3> HIDE DEF p
    <3> QED
      BY <1>3, <3>1, <3>2
  <2>4. ASSUME NEW m \in Doc, Scan(d, m) PROVE Uploads'
    <3> DEFINE p == [pass[d] EXCEPT !.left = @ \ {m}]
    <3>1. /\ pass' = [pass EXCEPT ![d] = ToScan(p)] /\ pass[d].at = "scan"
      BY <2>4 DEF Scan, At
    <3>2. /\ ToScan(p).left \in SUBSET DocsOf(d) /\ ToScan(p).todo = {}
          /\ ToScan(p).at \in {"me", "scan"}
          /\ ToScan(p).reply.kind = "saved" => ToScan(p).reply.rev \in Nat
      BY <2>1, <3>1 DEF ToScan, Idle, NoReply, PassType
    <3>3. \A a \in Asset \ Mine(d) : outbox'[a] = outbox[a]
      BY <2>4, ScanDecides DEF QueueStep
    <3> HIDE DEF p
    <3> QED
      BY <1>3, <3>1, <3>2, <3>3
  <2>5. CASE Denied(d) \/ Finish(d)
    BY <1>2, <2>5 DEF Denied, Finish, queue
  <2>6. CASE Connect(d)
    <3> DEFINE rows == {outbox[a] : a \in Mine(d)} \ {NoRow}
               p == [pass[d] EXCEPT !.todo = rows]
    <3>1. /\ pass' = [pass EXCEPT ![d] = ToPush(p)] /\ UNCHANGED outbox /\ pass[d].at = "me"
      BY <2>6 DEF Connect, At
    <3>2. \A row \in rows : row \in Row /\ row.asset \in Mine(d) /\ outbox[row.asset] = row
      BY DEF Queued, TypeOK, Mine
    <3>3. /\ pass'[d] = ToPush(p)
          /\ \A e \in Device \ {d} : pass'[e] = pass[e]
      BY <3>1 DEF TypeOK
    <3>4. CASE rows = {}
      <4>1. ToPush(p) = [Idle EXCEPT !.at = "pull"]
        BY <2>1, <3>4 DEF ToPush, PassType
      <4> HIDE DEF p
      <4> QED
        BY <1>3, <3>1, <4>1 DEF Idle, NoReply
    <3>5. CASE rows # {}
      <4>1. /\ ToPush(p).todo = rows /\ ToPush(p).at = "push" /\ ToPush(p).left = pass[d].left
            /\ ToPush(p).reply = NoReply
        BY <2>1, <3>5 DEF ToPush, PassType
      <4> HIDE DEF rows, p
      <4>2. UploadsOf(d)'
        BY <2>1, <3>1, <3>2, <3>3, <4>1 DEF UploadsOf, InFlight, NoReply
      <4> QED
        BY <3>1, <3>3, <4>2, OtherUploads
    <3> QED
      BY <3>4, <3>5
  <2>7. CASE Send(d)
    <3>1. PICK row \in InTurn(d) :
            pass' = [pass EXCEPT ![d].at = "sent", ![d].row = row, ![d].tried = TRUE,
                                 ![d].todo = @ \ {row}]
      BY <2>7 DEF Send
    <3>2. row \in pass[d].todo
      BY DEF InTurn
    <3>3. /\ pass'[d].at = "sent" /\ pass'[d].row = row /\ pass'[d].todo = pass[d].todo \ {row}
          /\ pass'[d].left = pass[d].left /\ pass'[d].reply = pass[d].reply
          /\ \A e \in Device \ {d} : pass'[e] = pass[e]
      BY <2>1, <3>1 DEF TypeOK, PassType
    <3>4. UNCHANGED outbox
      BY <2>7 DEF Send, queue
    <3>5. UploadsOf(d)'
      BY <2>1, <3>2, <3>3, <3>4 DEF UploadsOf, InFlight
    <3> QED
      BY <3>3, <3>4, <3>5, OtherUploads
  <2>8. CASE Commit(d)
    <3>1. /\ pass'[d].at = "answered" /\ pass'[d].row = pass[d].row /\ pass'[d].todo = pass[d].todo
          /\ pass'[d].left = pass[d].left /\ pass'[d].reply = Answer(pass[d].row)
          /\ \A e \in Device \ {d} : pass'[e] = pass[e]
          /\ pass[d].at = "sent" /\ UNCHANGED outbox
      BY <2>1, <2>8 DEF Commit, At, TypeOK, PassType, queue
    <3>2. pass[d].row \in Row
      BY <2>1, <3>1 DEF UploadsOf, InFlight
    <3>3. Answer(pass[d].row).kind = "saved" => Answer(pass[d].row).rev \in Nat
      BY <3>2 DEF Answer, Row, TypeOK, Rec, NoRec
    <3>4. UploadsOf(d)'
      BY <2>1, <3>1, <3>3 DEF UploadsOf, InFlight
    <3> QED
      BY <3>1, <3>4, OtherUploads
  <2>9. CASE Saved(d) \/ Refused(d)
    <3>1. /\ pass' = [pass EXCEPT ![d] = ToPush(pass[d])] /\ pass[d].at = "answered"
      BY <2>9 DEF Saved, Refused, At
    <3>2. /\ pass'[d] = ToPush(pass[d])
          /\ \A e \in Device \ {d} : pass'[e] = pass[e]
      BY <3>1 DEF TypeOK
    <3>3. /\ \A a \in Asset : a # pass[d].row.asset => outbox'[a] = outbox[a]
          /\ pass[d].row.asset \in Mine(d)
      BY <2>1, <2>9, <3>1 DEF Saved, Refused, TypeOK, UploadsOf, InFlight
    <3>4. \A row \in pass[d].todo : row.asset # pass[d].row.asset
      BY <2>1, <3>1 DEF UploadsOf, InFlight
    <3>5. UploadsOf(d)'
      <4>1. CASE pass[d].todo = {}
        BY <3>2, <4>1 DEF ToPush, Idle, NoReply, UploadsOf, InFlight
      <4>2. CASE pass[d].todo # {}
        <5>1. /\ pass'[d].todo = pass[d].todo /\ pass'[d].at = "push"
              /\ pass'[d].left = pass[d].left /\ pass'[d].reply = NoReply
          BY <2>1, <3>2, <4>2 DEF ToPush, PassType
        <5>2. \A row \in pass[d].todo : row \in Row /\ row.asset \in Mine(d) /\ outbox'[row.asset] = row
          BY <2>1, <3>3, <3>4 DEF UploadsOf, Mine
        <5> QED
          BY <2>1, <5>1, <5>2 DEF UploadsOf, InFlight, NoReply
      <4> QED
        BY <4>1, <4>2
    <3> QED
      BY <3>2, <3>3, <3>5, OtherUploads
  <2>10. CASE Defer(d)
    <3> DEFINE p == [Idle EXCEPT !.at = "pull"]
    <3>1. p.left = {} /\ p.todo = {} /\ p.at = "pull" /\ p.reply = NoReply
      BY DEF Idle
    <3>2. pass' = [pass EXCEPT ![d] = p] /\ UNCHANGED outbox
      BY <2>10 DEF Defer, queue
    <3> HIDE DEF p
    <3> QED
      BY <2>2, <3>1, <3>2
  <2>11. CASE Fetch(d) \/ FetchNothing(d) \/ LastSeq(d) \/ Check(d) \/ Refetch(d)
    <3>1. \E at \in {"fetched", "checked", "ended", "pull"} : \E page :
            pass' = [pass EXCEPT ![d] = [pass[d] EXCEPT !.at = at, !.page = page]]
      <4>1. CASE Check(d)
        <5>1. pass' = [pass EXCEPT ![d] = [pass[d] EXCEPT !.at = "checked", !.page = pass[d].page]]
          BY <2>1, <4>1 DEF Check, TypeOK, PassType
        <5> QED
          BY <5>1
      <4>2. CASE LastSeq(d)
        <5> DEFINE page == [pass[d].page EXCEPT !.cursor = Max({cursor[d], Len(log)})]
        <5>1. pass' = [pass EXCEPT ![d] = [pass[d] EXCEPT !.at = "fetched", !.page = page]]
          BY <4>2 DEF LastSeq
        <5> HIDE DEF page
        <5> QED
          BY <5>1
      <4>3. CASE Fetch(d) \/ FetchNothing(d) \/ Refetch(d)
        BY <4>3 DEF Fetch, FetchNothing, Refetch
      <4> QED
        BY <2>11, <4>1, <4>2, <4>3
    <3>2. PICK at \in {"fetched", "checked", "ended", "pull"} : \E page :
            pass' = [pass EXCEPT ![d] = [pass[d] EXCEPT !.at = at, !.page = page]]
      BY <3>1
    <3>3. PICK page : pass' = [pass EXCEPT ![d] = [pass[d] EXCEPT !.at = at, !.page = page]]
      BY <3>2
    <3>4. pass[d].todo = {} /\ UNCHANGED outbox
      BY <2>1, <2>11 DEF Fetch, FetchNothing, LastSeq, Check, Refetch, At, queue
    <3> DEFINE p == [pass[d] EXCEPT !.at = at, !.page = page]
    <3>5. p.left = pass[d].left /\ p.todo = {} /\ p.at = at /\ p.reply = pass[d].reply
      BY <2>1, <3>4 DEF PassType
    <3>6. pass' = [pass EXCEPT ![d] = p]
      BY <3>3
    <3> HIDE DEF p
    <3> QED
      BY <1>3, <2>1, <3>4, <3>5, <3>6
  <2>12. CASE Apply(d)
    BY <1>7, <2>12, ApplyingSteps
  <2> QED
    BY <1>5, <2>3, <2>4, <2>5, <2>6, <2>7, <2>8, <2>9, <2>10, <2>11, <2>12, <2>13 DEF Work
<1>6. CASE UNCHANGED vars
  BY <1>1, <1>6 DEF vars, queue
<1> QED
  BY <1>4, <1>5, <1>6 DEF Next

-----------------------------------------------------------------------------
(* The Hub's log.                                                          *)

\* A step leaves the Hub alone, accepts an upload on top, or erases.
LEMMA HubSteps ==
  ASSUME TypeOK, Uploads, [Next]_vars
  PROVE  \/ UNCHANGED <<store, log>>
         \/ \E d \in Device : /\ Commit(d) /\ Accept(pass[d].row)
                              /\ pass[d].row \in Row /\ OnTop(store[pass[d].row.asset], pass[d].row)
         \/ \E row \in late : /\ Arrive(row) /\ Accept(row)
                              /\ row \in Row /\ OnTop(store[row.asset], row)
         \/ \E a \in Asset : Purge(a)
<1>1. CASE UNCHANGED vars
  BY <1>1 DEF vars, hub
<1>2. ASSUME NEW row \in late, Arrive(row)
      PROVE  \/ UNCHANGED <<store, log>>
             \/ Accept(row) /\ row \in Row /\ OnTop(store[row.asset], row)
  BY <1>2 DEF Arrive, Put, TypeOK
<1>3. CASE World
  BY <1>2, <1>3 DEF World, Edit, Remove, Upgrade, Unmount, Mount, Toggle, Revoke, Stop, Configure,
     StopInConfigure, TimeOut, SwitchInApply, ApplyPage, hub
<1>4. ASSUME NEW d \in Device, Commit(d)
      PROVE  \/ UNCHANGED <<store, log>>
             \/ /\ Accept(pass[d].row)
                /\ pass[d].row \in Row /\ OnTop(store[pass[d].row.asset], pass[d].row)
  BY <1>4 DEF Commit, Put, At, Uploads, UploadsOf, InFlight
<1>5. ASSUME NEW d \in Device, Work(d), ~Commit(d)
      PROVE  UNCHANGED <<store, log>>
  BY <1>5 DEF Work, Scan, Apply, ApplyPage, Begin, List, Denied, Connect, Send, Saved, Refused,
     Defer, Fetch, FetchNothing, LastSeq, Check, Refetch, Finish, hub
<1> QED
  BY <1>1, <1>3, <1>4, <1>5 DEF Next

LEMMA HubCases ==
  ASSUME TypeOK, Uploads, [Next]_vars
  PROVE  \/ UNCHANGED <<store, log>>
         \/ \E row \in Row : Accept(row) /\ OnTop(store[row.asset], row)
         \/ \E a \in Asset : Purge(a)
BY HubSteps

LEMMA LogSteps ==
  ASSUME TypeOK, Uploads, [Next]_vars
  PROVE  HubType' /\ LogKept
BY HubCases, AcceptKeeps, PurgeKeeps, LogKeptIdly, TypeParts DEF HubType

LEMMA HubFacts ==
  ASSUME HubType
  PROVE  /\ Len(log) \in Nat /\ DOMAIN log = 1..Len(log)
         /\ \A i \in DOMAIN log : log[i].rev \in Nat /\ log[i].asset \in Asset
         /\ \A a \in Asset : store[a].rev \in Nat
<1>1. Len(log) \in Nat /\ DOMAIN log = 1..Len(log) /\ \A i \in DOMAIN log : log[i] \in Rec
  BY LenProperties DEF HubType
<1>2. \A a \in Asset : store[a].rev \in Nat
  BY DEF HubType, Rec, NoRec
<1> QED
  BY <1>1, <1>2 DEF Rec

LEMMA HubFactsNext ==
  ASSUME HubType'
  PROVE  Len(log') \in Nat /\ DOMAIN log' = 1..Len(log')
BY LenProperties DEF HubType

LEMMA AcceptFacts ==
  ASSUME HubType, NEW row \in Row, Accept(row)
  PROVE  /\ Len(log') = Len(log) + 1 /\ log'[Len(log')] = store'[row.asset]
         /\ store'[row.asset].rev = row.base + 1
         /\ log'[Len(log')].asset = row.asset
<1>1. /\ Len(log') = Len(log) + 1 /\ log'[Len(log')] = store'[row.asset]
      /\ store'[row.asset] = [asset |-> row.asset, rev |-> row.base + 1, ver |-> row.ver,
                              deleted |-> row.deleted, text |-> "kept"]
  BY AcceptKeeps
<1> QED
  BY <1>1

LEMMA CountedStep ==
  ASSUME TypeOK, Uploads, Counted, [Next]_vars
  PROVE  Counted'
<1>1. HubType /\ HubType' /\ LogKept
  BY LogSteps, TypeParts
<1>2. /\ Len(log) \in Nat /\ DOMAIN log = 1..Len(log)
      /\ Len(log') \in Nat /\ DOMAIN log' = 1..Len(log')
      /\ \A i \in DOMAIN log : log[i].rev \in Nat
      /\ \A a \in Asset : store[a].rev \in Nat
  BY <1>1, HubFacts, HubFactsNext
<1>3. CASE UNCHANGED <<store, log>>
  BY <1>3 DEF Counted
<1>4. ASSUME NEW row \in Row, Accept(row), OnTop(store[row.asset], row) PROVE Counted'
  <2>1. /\ Len(log') = Len(log) + 1 /\ log'[Len(log')] = store'[row.asset]
        /\ store'[row.asset].rev = row.base + 1
        /\ log'[Len(log')].asset = row.asset
    BY <1>1, <1>4, AcceptFacts
  <2>2. row.asset \in Asset /\ row.base = store[row.asset].rev
    BY <1>4 DEF OnTop, Row
  <2>3. \A a \in Asset : a # row.asset => store'[a] = store[a]
    BY <1>1, <1>4 DEF Accept, HubType
  <2>4. \A a \in Asset : store'[a].rev <= Len(log')
    BY <1>2, <2>1, <2>2, <2>3 DEF Counted
  <2>5. \A i \in DOMAIN log' : i \in DOMAIN log \/ i = Len(log')
    BY <1>2, <2>1
  <2>6. \A i \in DOMAIN log' : log'[i].rev <= Len(log')
    BY <1>1, <1>2, <2>1, <2>2, <2>5 DEF Counted, LogKept
  <2>7. \A a \in Asset : store'[a] # NoRec => \E i \in DOMAIN log' : log'[i].asset = a
    <3>1. Len(log') \in DOMAIN log'
      BY <1>2, <2>1
    <3> QED
      BY <1>1, <2>1, <2>3, <3>1 DEF Counted, LogKept
  <2> QED
    BY <2>4, <2>6, <2>7 DEF Counted
<1>5. ASSUME NEW a \in Asset, Purge(a) PROVE Counted'
  <2>1. Len(log') = Len(log)
    BY <1>1, <1>5, PurgeKeeps
  <2>2. \A b \in Asset : store'[b] \in {store[b], NoRec}
    BY <1>1, <1>5 DEF Purge, HubType
  <2>3. NoRec.rev <= Len(log)
    BY <1>2 DEF NoRec
  <2>4. DOMAIN log' = DOMAIN log
    BY <1>2, <2>1
  <2> QED
    BY <1>1, <1>2, <2>1, <2>2, <2>3, <2>4 DEF Counted, LogKept
<1> QED
  BY <1>3, <1>4, <1>5, HubCases

LEMMA GoneStays ==
  ASSUME LogKept, NEW a, Gone(log, a)
  PROVE  Gone(log', a)
BY DEF Gone, LogKept

LEMMA OrderedStep ==
  ASSUME TypeOK, Uploads, Ordered, [Next]_vars
  PROVE  Ordered'
<1>1. HubType /\ HubType' /\ LogKept
  BY LogSteps, TypeParts
<1>2. /\ Len(log) \in Nat /\ DOMAIN log = 1..Len(log)
      /\ Len(log') \in Nat /\ DOMAIN log' = 1..Len(log')
      /\ \A i \in DOMAIN log : log[i].rev \in Nat /\ log[i].asset \in Asset
      /\ \A a \in Asset : store[a].rev \in Nat
  BY <1>1, HubFacts, HubFactsNext
<1>3. CASE UNCHANGED <<store, log>>
  BY <1>3 DEF Ordered, InOrder
<1>4. ASSUME NEW row \in Row, Accept(row), OnTop(store[row.asset], row) PROVE Ordered'
  <2> DEFINE n == Len(log')
  <2>1. /\ n = Len(log) + 1 /\ log'[n] = store'[row.asset]
        /\ store'[row.asset].rev = row.base + 1
        /\ log'[n].asset = row.asset
    BY <1>1, <1>4, AcceptFacts
  <2>2. row.asset \in Asset /\ row.base = store[row.asset].rev
    BY <1>4 DEF OnTop, Row
  <2>3. \A a \in Asset : a # row.asset => store'[a] = store[a]
    BY <1>1, <1>4 DEF Accept, HubType
  <2>4. \A i \in DOMAIN log' : i \in DOMAIN log \/ i = n
    BY <1>2, <2>1
  <2>5. \A i \in DOMAIN log : i < n /\ log'[i].asset = log[i].asset /\ log'[i].rev = log[i].rev
                              /\ (~Gone(log', log[i].asset) => ~Gone(log, log[i].asset))
    BY <1>1, <1>2, <2>1, GoneStays DEF LogKept
  <2>6. \A i \in DOMAIN log :
          (log[i].asset = row.asset /\ ~Gone(log', row.asset)) => log[i].rev < log'[n].rev
    BY <1>2, <2>1, <2>2, <2>5 DEF Ordered, InOrder
  <2>7. ASSUME NEW i \in DOMAIN log', NEW j \in DOMAIN log', i < j,
               log'[i].asset = log'[j].asset, ~Gone(log', log'[i].asset)
        PROVE  log'[i].rev < log'[j].rev
    <3>1. i \in DOMAIN log
      BY <1>2, <2>1, <2>7
    <3>2. CASE j = n
      BY <2>1, <2>5, <2>6, <2>7, <3>1, <3>2
    <3>3. CASE j \in DOMAIN log
      BY <2>5, <2>7, <3>1, <3>3 DEF Ordered, InOrder
    <3> QED
      BY <2>4, <3>2, <3>3
  <2>8. ASSUME NEW i \in DOMAIN log', ~Gone(log', log'[i].asset)
        PROVE  log'[i].rev <= store'[log'[i].asset].rev
    <3>1. CASE i = n
      BY <1>2, <2>1, <2>2, <3>1
    <3>2. CASE i \in DOMAIN log /\ log[i].asset = row.asset
      BY <1>2, <2>1, <2>2, <2>5, <2>6, <2>8, <3>2
    <3>3. CASE i \in DOMAIN log /\ log[i].asset # row.asset
      BY <1>2, <2>3, <2>5, <2>8, <3>3 DEF Ordered, InOrder
    <3> QED
      BY <2>4, <3>1, <3>2, <3>3
  <2>9. /\ \A i, j \in DOMAIN log' :
             (i < j /\ log'[i].asset = log'[j].asset /\ ~Gone(log', log'[i].asset))
               => log'[i].rev < log'[j].rev
        /\ \A i \in DOMAIN log' : ~Gone(log', log'[i].asset) => log'[i].rev <= store'[log'[i].asset].rev
    BY <2>7, <2>8
  <2> QED
    BY <2>9 DEF Ordered, InOrder
<1>5. ASSUME NEW a \in Asset, Purge(a) PROVE Ordered'
  <2>1. Len(log') = Len(log) /\ DOMAIN log' = DOMAIN log
    BY <1>1, <1>2, <1>5, PurgeKeeps
  <2>2. \A i \in DOMAIN log : log'[i].asset = log[i].asset /\ log'[i].rev = log[i].rev
                              /\ (~Gone(log', log[i].asset) => ~Gone(log, log[i].asset))
    BY <1>1, GoneStays DEF LogKept
  <2>3. \A i \in DOMAIN log : log[i].asset = a => Gone(log', a)
    <3>1. \A i \in DOMAIN log : log[i].asset = a => log'[i].text = "purged"
      <4>1. \A i \in DOMAIN log : log[i] \in Rec
        BY <1>1, LenProperties DEF HubType
      <4> QED
        BY <1>5, <4>1 DEF Purge, Rec
    <3> QED
      BY <2>1, <2>2, <3>1 DEF Gone
  <2>4. \A b \in Asset : b # a => store'[b] = store[b]
    BY <1>1, <1>5 DEF Purge, HubType
  <2>5. \A i \in DOMAIN log' : ~Gone(log', log'[i].asset) =>
          /\ log[i].asset # a /\ store'[log[i].asset] = store[log[i].asset]
          /\ ~Gone(log, log[i].asset)
    BY <1>2, <2>1, <2>2, <2>3, <2>4
  <2>6. /\ \A i, j \in DOMAIN log' :
             (i < j /\ log'[i].asset = log'[j].asset /\ ~Gone(log', log'[i].asset))
               => log'[i].rev < log'[j].rev
        /\ \A i \in DOMAIN log' : ~Gone(log', log'[i].asset) => log'[i].rev <= store'[log'[i].asset].rev
    BY <2>1, <2>2, <2>5 DEF Ordered, InOrder
  <2> QED
    BY <2>6 DEF Ordered, InOrder
<1> QED
  BY <1>3, <1>4, <1>5, HubCases

-----------------------------------------------------------------------------
(* What a device recalls.                                                  *)

\* A changed policy takes the cursor back, and may clear the replica.
Cleared(d) ==
  cursor'[d] = 0 /\ (replica'[d] = replica[d] \/ replica'[d] = NoReplica)

LEMMA PolicyClears ==
  ASSUME TypeOK, NEW d \in Device, ClearForPolicy(d)
  PROVE  /\ Cleared(d)
         /\ \A e \in Device \ {d} : replica'[e] = replica[e] /\ cursor'[e] = cursor[e]
BY DEF ClearForPolicy, Cleared, TypeOK

LEMMA ConfigureClears ==
  ASSUME TypeOK, NEW d \in Device, ConfigureStorage(d)
  PROVE  /\ UNCHANGED recall \/ Cleared(d)
         /\ \A e \in Device \ {d} :
              replica'[e] = replica[e] /\ cursor'[e] = cursor[e] /\ mode'[e] = mode[e]
<1>1. CASE UNCHANGED recall
  BY <1>1 DEF recall
<1>2. CASE ClearForPolicy(d) /\ mode' = [mode EXCEPT ![d] = Policy(d)]
  BY <1>2, PolicyClears DEF TypeOK
<1> QED
  BY <1>1, <1>2 DEF ConfigureStorage

Recalls(d) ==
  \/ cursor'[d] = cursor[d] /\ replica'[d] = replica[d] /\ mode'[d] = mode[d]
  \/ Cleared(d)
  \/ Apply(d) \/ SwitchInApply(d)

LEMMA RecallSteps ==
  ASSUME TypeOK, [Next]_vars, NEW d \in Device
  PROVE  Recalls(d)
<1>1. CASE UNCHANGED recall
  BY <1>1 DEF recall, Recalls
<1>2. ASSUME NEW e \in Device, ConfigureStorage(e) PROVE Recalls(d)
  BY <1>1, <1>2, ConfigureClears DEF Recalls
<1>3. ASSUME NEW e \in Device, Apply(e) \/ SwitchInApply(e) PROVE Recalls(d)
  <2>1. CASE e = d
    BY <1>3, <2>1 DEF Recalls
  <2>2. CASE e # d
    <3>1. Applies(e)
      BY <1>3, ApplyingSteps
    <3> QED
      BY <2>2, <3>1 DEF Applies, ApplyPage, Recalls, TypeOK
  <2> QED
    BY <2>1, <2>2
<1>4. CASE World
  <2>1. ASSUME NEW e \in Device, StopInConfigure(e) PROVE Recalls(d)
    BY <2>1, PolicyClears DEF StopInConfigure, Recalls
  <2> QED
    BY <1>1, <1>2, <1>3, <1>4, <2>1 DEF World, Edit, Remove, Upgrade, Unmount, Mount,
       Toggle, Revoke, Purge, Arrive, Stop, Configure, TimeOut
<1>5. ASSUME NEW e \in Device, Work(e) PROVE Recalls(d)
  <2>1. CASE Begin(e) \/ Refetch(e) \/ Finish(e)
    BY <1>2, <2>1 DEF Begin, Refetch, Finish
  <2>2. CASE Denied(e)
    BY <2>2 DEF Denied, Recalls, Cleared, TypeOK
  <2>3. CASE Apply(e)
    BY <1>3, <2>3
  <2>4. CASE ~(Begin(e) \/ Refetch(e) \/ Finish(e) \/ Denied(e) \/ Apply(e))
    BY <1>1, <1>5, <2>4 DEF Work, Scan, List, Connect, Send, Commit, Saved, Refused,
       Defer, Fetch, FetchNothing, LastSeq, Check
  <2> QED
    BY <2>1, <2>2, <2>3, <2>4
<1>6. CASE UNCHANGED vars
  BY <1>1, <1>6 DEF vars
<1> QED
  BY <1>4, <1>5, <1>6 DEF Next

\* Where a step of its worker takes a pass.
LEMMA WorkGoes ==
  ASSUME TypeOK, NEW d \in Device, Work(d)
  PROVE  \/ pass'[d].at \in {"idle", "walk", "scan", "me", "push", "sent", "pull", "pulled"}
         \/ Commit(d) \/ Fetch(d) \/ FetchNothing(d) \/ LastSeq(d) \/ Check(d)
<1>1. pass[d] \in PassType
  BY DEF TypeOK
<1>2. CASE Begin(d) \/ Denied(d) \/ Refetch(d) \/ Apply(d) \/ Finish(d) \/ Defer(d)
  <2>1. \/ pass'[d].at = Idle.at
        \/ pass'[d].at \in {"walk", "me", "pull", "pulled"}
    <3>1. CASE Begin(d)
      BY <3>1 DEF Begin, Idle, TypeOK
    <3>2. CASE Denied(d) \/ Finish(d)
      BY <3>2 DEF Denied, Finish, TypeOK
    <3>3. CASE Refetch(d)
      <4>1. pass' = [pass EXCEPT ![d] = [pass[d] EXCEPT !.at = "pull", !.page = NoPage]]
        BY <3>3 DEF Refetch
      <4>2. pass'[d].at = "pull"
        BY <1>1, <4>1 DEF TypeOK, PassType
      <4> QED
        BY <4>2
    <3>4. CASE Apply(d)
      BY <3>4 DEF Apply, ApplyPage, Idle, TypeOK
    <3>5. CASE Defer(d)
      BY <3>5 DEF Defer, Idle, TypeOK
    <3> QED
      BY <1>2, <3>1, <3>2, <3>3, <3>4, <3>5
  <2>2. Idle.at = "idle"
    BY DEF Idle
  <2> QED
    BY <2>1, <2>2
<1>3. CASE List(d) \/ (\E m \in Doc : Scan(d, m))
  <2>1. pass'[d].at \in {"me", "scan"}
    <3>1. PICK p \in PassType : pass' = [pass EXCEPT ![d] = ToScan(p)]
      <4>1. /\ [pass[d] EXCEPT !.left = DocsOf(d),
                  !.listed = {m \in @ : mounted[d] /\ file[m] # "absent"}] \in PassType
            /\ \A m \in Doc : [pass[d] EXCEPT !.left = @ \ {m}] \in PassType
        BY <1>1 DEF PassType, DocsOf
      <4> QED
        BY <1>3, <4>1 DEF List, Scan
    <3>2. ToScan(p).at \in {"me", "scan"}
      BY DEF ToScan, Idle, PassType
    <3> QED
      BY <3>1, <3>2 DEF TypeOK
  <2> QED
    BY <2>1
<1>4. CASE Connect(d) \/ Saved(d) \/ Refused(d)
  <2>1. PICK todo : pass' = [pass EXCEPT ![d] = ToPush([pass[d] EXCEPT !.todo = todo])]
    <3>1. pass[d] = [pass[d] EXCEPT !.todo = pass[d].todo]
      BY <1>1 DEF PassType
    <3> QED
      BY <1>4, <3>1 DEF Connect, Saved, Refused
  <2>2. ToPush([pass[d] EXCEPT !.todo = todo]).at \in {"pull", "push"}
    BY <1>1 DEF ToPush, Idle, PassType
  <2> QED
    BY <2>1, <2>2 DEF TypeOK
<1>5. CASE Send(d)
  <2>1. PICK row \in InTurn(d) :
          pass' = [pass EXCEPT ![d] = [pass[d] EXCEPT !.at = "sent", !.row = row,
                                         !.tried = TRUE, !.todo = @ \ {row}]]
    BY <1>5 DEF Send
  <2> QED
    BY <1>1, <2>1 DEF TypeOK, PassType
<1> QED
  BY <1>2, <1>3, <1>4, <1>5 DEF Work

\* A page in hand, or the end of the log, was just read, or nothing of what
\* the device recalls has changed.
Unread(d) ==
  cursor'[d] = cursor[d] /\ replica'[d] = replica[d] /\ mode'[d] = mode[d]

LEMMA FetchedSteps ==
  ASSUME TypeOK, [Next]_vars, NEW d \in Device, pass'[d].at \in {"fetched", "checked", "ended"}
  PROVE  /\ Unread(d)
         /\ pass'[d] = pass[d] \/ Fetch(d) \/ FetchNothing(d) \/ LastSeq(d) \/ Check(d)
<1>1. CASE UNCHANGED <<pass, recall>>
  BY <1>1 DEF recall, Unread
<1>2. ASSUME NEW e \in Device, e # d,
             ConfigureStorage(e) \/ (ClearForPolicy(e) /\ UNCHANGED mode)
      PROVE  Unread(d)
  BY <1>2, ConfigureClears, PolicyClears DEF Unread
<1>3. ASSUME NEW e \in Device, Applies(e)
      PROVE  e # d /\ Unread(d) /\ pass'[d] = pass[d]
  <2>1. pass'[e].at \in {"pulled", "pull"}
    BY <1>3 DEF Applies, ApplyPage, Idle, TypeOK
  <2>2. e # d
    BY <2>1
  <2> QED
    BY <1>3, <2>2 DEF Applies, ApplyPage, Unread, TypeOK
<1>4. CASE World
  <2>1. ASSUME NEW e \in Device, pass' = [pass EXCEPT ![e] = Idle], UNCHANGED recall
        PROVE  pass'[d] = pass[d] /\ Unread(d)
    <3>1. e # d
      BY <2>1 DEF TypeOK, Idle
    <3> QED
      BY <2>1, <3>1 DEF recall, TypeOK, Unread
  <2>2. ASSUME NEW m \in Doc, Upgrade(m) PROVE pass'[d] = pass[d] /\ Unread(d)
    BY <2>1, <2>2, SyncAssumption DEF Upgrade
  <2>3. ASSUME NEW e \in Device, Configure(e) \/ StopInConfigure(e)
        PROVE  pass'[d] = pass[d] /\ Unread(d)
    <3>1. e # d /\ UNCHANGED pass
      BY <2>3 DEF Configure, StopInConfigure, At
    <3> QED
      BY <1>2, <2>3, <3>1 DEF Configure, StopInConfigure
  <2> QED
    BY <1>1, <1>3, <1>4, <2>1, <2>2, <2>3, ApplyingSteps DEF World, Edit, Remove, Unmount, Mount,
       Toggle, Revoke, Purge, Arrive, Stop, TimeOut
<1>5. ASSUME NEW e \in Device, Work(e), e # d PROVE pass'[d] = pass[d] /\ Unread(d)
  <2>1. CASE Apply(e)
    BY <1>3, <2>1, ApplyingSteps
  <2>2. CASE ~Apply(e)
    <3>1. pass'[d] = pass[d]
      BY <1>5, <2>2 DEF Work, Begin, List, Scan, Denied, Connect, Send, Commit, Saved, Refused,
         Defer, Fetch, FetchNothing, LastSeq, Check, Refetch, Finish, TypeOK
    <3>2. CASE Begin(e) \/ Refetch(e) \/ Finish(e)
      BY <1>2, <1>5, <3>1, <3>2 DEF Begin, Refetch, Finish
    <3>3. CASE Denied(e)
      BY <1>5, <3>1, <3>3 DEF Denied, TypeOK, Unread
    <3>4. CASE ~(Begin(e) \/ Refetch(e) \/ Finish(e) \/ Denied(e))
      BY <1>5, <2>2, <3>1, <3>4 DEF Work, Scan, List, Connect, Send, Commit, Saved, Refused,
         Defer, Fetch, FetchNothing, LastSeq, Check, recall, Unread
    <3> QED
      BY <3>1, <3>2, <3>3, <3>4
  <2> QED
    BY <2>1, <2>2
<1>6. CASE Work(d)
  <2>1. Commit(d) => pass'[d].at = "answered"
    BY DEF Commit, TypeOK, PassType
  <2>2. Fetch(d) \/ FetchNothing(d) \/ LastSeq(d) \/ Check(d)
    BY <1>6, <2>1, WorkGoes
  <2> QED
    BY <2>2 DEF Fetch, FetchNothing, LastSeq, Check, recall, Unread
<1>7. CASE UNCHANGED vars
  BY <1>1, <1>7 DEF vars
<1> QED
  BY <1>4, <1>5, <1>6, <1>7 DEF Next

\* What reading a page does to the pass.
LEMMA ReadingSteps ==
  ASSUME TypeOK, NEW d \in Device
  PROVE  /\ Fetch(d) => pass'[d].at = "fetched" /\ pass'[d].page = Changes(cursor[d], wants[d])
         /\ FetchNothing(d) =>
              pass'[d].at = "ended" /\ pass'[d].page = [NoPage EXCEPT !.bodies = wants[d]]
         /\ LastSeq(d) =>
              /\ pass[d].at = "ended" /\ pass'[d].at = "fetched"
              /\ pass'[d].page = [pass[d].page EXCEPT !.cursor = Max({cursor[d], Len(log)})]
         /\ Check(d) =>
              /\ pass[d].at = "fetched" /\ pass'[d].at = "checked"
              /\ pass'[d].page = pass[d].page
<1>1. pass[d] \in PassType
  BY DEF TypeOK
<1>2. ASSUME NEW at, NEW page,
             pass' = [pass EXCEPT ![d] = [pass[d] EXCEPT !.at = at, !.page = page]]
      PROVE  pass'[d].at = at /\ pass'[d].page = page
  BY <1>1, <1>2 DEF TypeOK, PassType
<1>3. Fetch(d) => pass'[d].at = "fetched" /\ pass'[d].page = Changes(cursor[d], wants[d])
  <2> DEFINE page == Changes(cursor[d], wants[d])
  <2>1. Fetch(d) => pass' = [pass EXCEPT ![d] = [pass[d] EXCEPT !.at = "fetched", !.page = page]]
    BY DEF Fetch
  <2> HIDE DEF page
  <2>2. Fetch(d) => pass'[d].at = "fetched" /\ pass'[d].page = page
    BY <1>2, <2>1
  <2> QED
    BY <2>2 DEF page
<1>4. FetchNothing(d) =>
        pass'[d].at = "ended" /\ pass'[d].page = [NoPage EXCEPT !.bodies = wants[d]]
  <2> DEFINE page == [NoPage EXCEPT !.bodies = wants[d]]
  <2>1. FetchNothing(d) =>
          pass' = [pass EXCEPT ![d] = [pass[d] EXCEPT !.at = "ended", !.page = page]]
    BY DEF FetchNothing
  <2> HIDE DEF page
  <2>2. FetchNothing(d) => pass'[d].at = "ended" /\ pass'[d].page = page
    BY <1>2, <2>1
  <2> QED
    BY <2>2 DEF page
<1>5. LastSeq(d) =>
        /\ pass[d].at = "ended" /\ pass'[d].at = "fetched"
        /\ pass'[d].page = [pass[d].page EXCEPT !.cursor = Max({cursor[d], Len(log)})]
  <2> DEFINE last == Max({cursor[d], Len(log)})
  <2>1. LastSeq(d) => pass[d].at = "ended" /\ pass' = [pass EXCEPT ![d].at = "fetched",
                                                                  ![d].page.cursor = last]
    BY DEF LastSeq, At
  <2> HIDE DEF last
  <2>2. LastSeq(d) => pass'[d].at = "fetched" /\ pass'[d].page = [pass[d].page EXCEPT !.cursor = last]
    BY <1>1, <2>1 DEF TypeOK, PassType
  <2> QED
    BY <2>1, <2>2 DEF last
<1>6. Check(d) =>
        /\ pass[d].at = "fetched" /\ pass'[d].at = "checked" /\ pass'[d].page = pass[d].page
  BY <1>1 DEF Check, At, TypeOK, PassType
<1> QED
  BY <1>3, <1>4, <1>5, <1>6

\* The end of the log that an empty page is answered with.
LEMMA LastIn ==
  ASSUME TypeOK, NEW d \in Device, LastSeq(d)
  PROVE  /\ pass'[d].page.items = pass[d].page.items
         /\ pass'[d].page.bodies = pass[d].page.bodies
         /\ pass'[d].page.cursor \in {cursor[d], Len(log)} /\ cursor[d] <= pass'[d].page.cursor
<1> DEFINE last == Max({cursor[d], Len(log)})
<1>1. pass'[d].page = [pass[d].page EXCEPT !.cursor = last]
  BY ReadingSteps
<1>2. cursor[d] \in Nat /\ Len(log) \in Nat /\ pass[d] \in PassType
  BY HubFacts, TypeParts DEF TypeOK
<1>3. last \in {cursor[d], Len(log)} /\ last >= cursor[d]
  BY <1>2, MaxOfTwo
<1> HIDE DEF last
<1> QED
  BY <1>1, <1>2, <1>3 DEF PassType

LEMMA PagesStep ==
  ASSUME TypeOK, Uploads, Pages, Emptied, [Next]_vars
  PROVE  Pages'
<1> SUFFICES ASSUME NEW d \in Device, InHand(d)'
             PROVE  /\ cursor'[d] <= pass'[d].page.cursor
                    /\ \A change \in pass'[d].page.items :
                         /\ change.seq \in DOMAIN log'
                         /\ cursor'[d] < change.seq /\ change.seq <= pass'[d].page.cursor
                         /\ log'[change.seq].asset = change.rec.asset
                         /\ log'[change.seq].rev = change.rec.rev
  BY DEF Pages
<1>1. HubType /\ LogKept
  BY LogSteps, TypeParts
<1>2. pass[d] \in PassType /\ cursor[d] \in Nat /\ cursor'[d] = cursor[d]
  BY FetchedSteps DEF TypeOK, InHand, Unread
<1>3. CASE (pass'[d] = pass[d] \/ Check(d))
  <2>1. InHand(d) /\ pass'[d].page = pass[d].page
    BY <1>3, ReadingSteps DEF InHand
  <2>2. /\ cursor[d] <= pass[d].page.cursor
        /\ \A change \in pass[d].page.items :
             /\ change.seq \in DOMAIN log
             /\ cursor[d] < change.seq /\ change.seq <= pass[d].page.cursor
             /\ log[change.seq].asset = change.rec.asset
             /\ log[change.seq].rev = change.rec.rev
    BY <2>1 DEF Pages
  <2>3. \A i \in DOMAIN log : /\ i \in DOMAIN log' /\ log'[i].asset = log[i].asset
                              /\ log'[i].rev = log[i].rev
    BY <1>1 DEF LogKept
  <2> QED
    BY <1>2, <2>1, <2>2, <2>3
<1>4. CASE Fetch(d)
  <2> DEFINE page == Changes(cursor[d], wants[d])
  <2>1. pass'[d].page = page /\ log' = log
    BY <1>4, ReadingSteps DEF Fetch, hub
  <2>2. /\ cursor[d] <= page.cursor
        /\ \A change \in page.items :
             /\ change.seq \in DOMAIN log
             /\ cursor[d] < change.seq /\ change.seq <= page.cursor
             /\ log[change.seq].asset = change.rec.asset
             /\ log[change.seq].rev = change.rec.rev
    BY <1>1, <1>2, <1>4, ChangesAhead DEF Fetch, TypeOK
  <2> HIDE DEF page
  <2> QED
    BY <1>2, <2>1, <2>2
<1>5. CASE LastSeq(d)
  <2>1. pass[d].page.items = {}
    BY <1>5, ReadingSteps DEF Emptied, At
  <2> QED
    BY <1>2, <1>5, <2>1, LastIn
<1>6. CASE FetchNothing(d)
  BY <1>6, ReadingSteps DEF InHand
<1> QED
  BY <1>3, <1>4, <1>5, <1>6, FetchedSteps DEF InHand

LEMMA EmptiedStep ==
  ASSUME TypeOK, Emptied, [Next]_vars
  PROVE  Emptied'
<1> SUFFICES ASSUME NEW d \in Device, pass'[d].at = "ended" PROVE pass'[d].page.items = {}
  BY DEF Emptied, At
<1>1. CASE pass'[d] = pass[d]
  BY <1>1 DEF Emptied, At
<1>2. CASE FetchNothing(d)
  BY <1>2, ReadingSteps DEF NoPage
<1> QED
  BY <1>1, <1>2, FetchedSteps, ReadingSteps

\* What a page leaves in the replica.
LEMMA Applied ==
  ASSUME TypeOK, Counted, Pages, NEW d \in Device, Applies(d), NEW a \in Asset
  PROVE  /\ InHand(d) /\ mode' = mode /\ log' = log
         /\ cursor'[d] = pass[d].page.cursor /\ cursor[d] <= cursor'[d]
         /\ \/ replica'[d][a] = replica[d][a]
            \/ \E last \in About(pass[d].page.items, a) : replica'[d][a] = last.rec
<1> DEFINE page == pass[d].page
<1>1. InHand(d)
  BY DEF Applies, InHand, At
<1>2. PICK kept \in SUBSET page.items : ApplyPage(d, kept)
  BY DEF Applies
<1>3. /\ mode' = mode /\ log' = log /\ cursor'[d] = page.cursor
      /\ replica'[d][a] = IF About(kept, a) = {} THEN replica[d][a] ELSE Latest(kept, a)
  BY <1>2 DEF ApplyPage, hub, TypeOK
<1>4. cursor[d] <= page.cursor
  BY <1>1 DEF Pages
<1>5. ASSUME About(kept, a) # {}
      PROVE  \E last \in About(page.items, a) : Latest(kept, a) = last.rec
  <2>1. /\ kept \in SUBSET Change /\ Len(log) \in Nat
        /\ \A change \in kept : change.seq <= Len(log)
    BY <1>1, <1>2, PageInLog
  <2>2. PICK last \in About(kept, a) : Latest(kept, a) = last.rec
    BY <1>5, <2>1, LatestIn
  <2> QED
    BY <2>2 DEF About
<1> QED
  BY <1>1, <1>3, <1>4, <1>5

LEMMA SourcedStep ==
  ASSUME TypeOK, Uploads, Counted, Pages, Sourced, [Next]_vars
  PROVE  Sourced'
<1> SUFFICES ASSUME NEW d \in Device, NEW a \in Asset, replica'[d][a] # NoRec
             PROVE  \E i \in DOMAIN log' : log'[i].asset = a /\ log'[i].rev = replica'[d][a].rev
  BY DEF Sourced
<1>1. \A i \in DOMAIN log :
        i \in DOMAIN log' /\ log'[i].asset = log[i].asset /\ log'[i].rev = log[i].rev
  BY LogSteps DEF LogKept
<1>2. CASE replica'[d][a] = replica[d][a]
  BY <1>1, <1>2 DEF Sourced
<1>3. CASE Applies(d) /\ replica'[d][a] # replica[d][a]
  <2>1. PICK last \in About(pass[d].page.items, a) : replica'[d][a] = last.rec
    BY <1>3, Applied
  <2>2. /\ last.rec.asset = a /\ last.seq \in DOMAIN log
        /\ log[last.seq].asset = last.rec.asset /\ log[last.seq].rev = last.rec.rev
    BY <1>3, <2>1, Applied DEF About, Pages
  <2> QED
    BY <1>1, <2>1, <2>2
<1>4. CASE replica'[d] = NoReplica
  BY <1>4 DEF NoReplica
<1> QED
  BY <1>2, <1>3, <1>4, RecallSteps, ApplyingSteps DEF Recalls, Cleared

\* A text is shown of the newest change of its asset only.
LEMMA FreshStep ==
  ASSUME TypeOK, Uploads, Pages, Ordered, OneText, Sourced, Fresh, Emptied, [Next]_vars
  PROVE  Fresh'
<1> SUFFICES ASSUME NEW d \in Device, InHand(d)', NEW change \in pass'[d].page.items,
                    change.rec.text = "kept", ~Gone(log', change.rec.asset)
             PROVE  replica'[d][change.rec.asset].rev <= change.rec.rev
  BY DEF Fresh
<1> DEFINE a == change.rec.asset
<1>1. HubType /\ LogKept /\ replica'[d] = replica[d] /\ cursor[d] \in Nat
  BY LogSteps, TypeParts, FetchedSteps DEF InHand, Unread, TypeOK
<1>2. ~Gone(log, a)
  BY <1>1, GoneStays
<1>3. CASE pass'[d] = pass[d] \/ Check(d)
  <2>1. InHand(d) /\ change \in pass[d].page.items
    BY <1>3, ReadingSteps DEF InHand
  <2> QED
    BY <1>1, <1>2, <2>1 DEF Fresh
<1>4. CASE Fetch(d)
  <2>1. change \in Changes(cursor[d], wants[d]).items
    BY <1>4, ReadingSteps
  <2>2. /\ change.seq \in DOMAIN log /\ log[change.seq].text = "kept"
        /\ log[change.seq].asset = a /\ log[change.seq].rev = change.rec.rev
    <3>1. wants[d] \in BOOLEAN /\ Ahead(cursor[d], wants[d]) # {}
      BY <1>4 DEF Fetch, TypeOK
    <3>2. \A one \in Changes(cursor[d], wants[d]).items :
            /\ one.seq \in DOMAIN log
            /\ log[one.seq].asset = one.rec.asset /\ log[one.seq].rev = one.rec.rev
            /\ one.rec.text = "kept" => log[one.seq].text = "kept"
      BY <1>1, <3>1, ChangesAhead
    <3> QED
      BY <2>1, <3>2
  <2>3. a \in Asset /\ store[a].rev = change.rec.rev /\ change.rec.rev \in Nat
    BY <1>1, <2>2, HubFacts DEF OneText
  <2>4. CASE replica[d][a] = NoRec
    BY <1>1, <2>3, <2>4 DEF NoRec
  <2>5. CASE replica[d][a] # NoRec
    <3>1. PICK i \in DOMAIN log : log[i].asset = a /\ log[i].rev = replica[d][a].rev
      BY <2>3, <2>5 DEF Sourced
    <3> QED
      BY <1>1, <1>2, <2>3, <3>1 DEF Ordered, InOrder
  <2> QED
    BY <2>4, <2>5
<1>5. CASE LastSeq(d)
  BY <1>5, LastIn, ReadingSteps DEF Emptied, At
<1>6. CASE FetchNothing(d)
  BY <1>6, ReadingSteps DEF InHand
<1> QED
  BY <1>3, <1>4, <1>5, <1>6, FetchedSteps DEF InHand

\* A text that a reader is given is a later revision.
LEMMA ForwardStep ==
  ASSUME TypeOK, Uploads, Counted, Pages, Fresh, [Next]_vars,
         NEW d \in Device, NEW a \in Asset, replica'[d][a] # NoRec,
         replica'[d][a].text = "kept", ~Erased(a)'
  PROVE  replica'[d][a].rev >= replica[d][a].rev
<1>1. replica[d][a].rev \in Nat
  BY DEF TypeOK, Rec, NoRec
<1>2. ~Gone(log, a)
  BY LogSteps, GoneStays DEF Erased, Gone
<1>3. CASE replica'[d][a] = replica[d][a]
  BY <1>1, <1>3
<1>4. CASE Applies(d) /\ replica'[d][a] # replica[d][a]
  <2>1. PICK last \in About(pass[d].page.items, a) : replica'[d][a] = last.rec
    BY <1>4, Applied
  <2>2. last \in pass[d].page.items /\ last.rec.asset = a /\ InHand(d)
    BY <1>4, <2>1, Applied DEF About
  <2>3. last.rec.rev \in Nat
    BY <2>2 DEF TypeOK, PassType, Change, Rec
  <2> QED
    BY <1>1, <1>2, <2>1, <2>2, <2>3 DEF Fresh
<1>5. CASE replica'[d] = NoReplica
  BY <1>5 DEF NoReplica
<1> QED
  BY <1>3, <1>4, <1>5, RecallSteps, ApplyingSteps DEF Recalls, Cleared

-----------------------------------------------------------------------------
(* Decisions and what the Hub has of them.                                 *)

\* A pass waits with an answer from the Hub since the Hub gave it.
LEMMA AnsweredSteps ==
  ASSUME TypeOK, [Next]_vars, NEW d \in Device, pass'[d].at = "answered"
  PROVE  pass'[d] = pass[d] \/ Commit(d)
<1>1. CASE UNCHANGED pass
  BY <1>1
<1>2. CASE World
  <2>1. ASSUME NEW e \in Device, pass' = [pass EXCEPT ![e] = Idle] PROVE pass'[d] = pass[d]
    <3>1. e # d
      BY <2>1 DEF TypeOK, Idle
    <3> QED
      BY <2>1, <3>1 DEF TypeOK
  <2>2. ASSUME NEW m \in Doc, Upgrade(m) PROVE pass'[d] = pass[d]
    BY <2>1, <2>2, SyncAssumption DEF Upgrade
  <2>3. ASSUME NEW e \in Device, Applies(e) PROVE pass'[d] = pass[d]
    <3>1. pass'[e].at \in {"pulled", "pull"}
      BY <2>3 DEF Applies, ApplyPage, Idle, TypeOK
    <3>2. e # d
      BY <3>1
    <3> QED
      BY <2>3, <3>2 DEF Applies, ApplyPage, TypeOK
  <2> QED
    BY <1>1, <1>2, <2>1, <2>2, <2>3, ApplyingSteps DEF World, Edit, Remove, Unmount, Mount, Toggle,
       Revoke, Purge, Arrive, Stop, TimeOut, Configure, StopInConfigure
<1>3. ASSUME NEW e \in Device, Work(e), e # d PROVE pass'[d] = pass[d]
  BY <1>3 DEF Work, Begin, List, Scan, Denied, Connect, Send, Commit, Saved, Refused, Defer,
     Fetch, FetchNothing, LastSeq, Check, Refetch, Apply, ApplyPage, Finish, TypeOK
<1>4. CASE Work(d)
  BY <1>4, ReadingSteps, WorkGoes
<1>5. CASE UNCHANGED vars
  BY <1>1, <1>5 DEF vars
<1> QED
  BY <1>2, <1>3, <1>4, <1>5 DEF Next

\* What an operator erases is marked in the log.
LEMMA PurgeErases ==
  ASSUME TypeOK, Uploads, Counted, NEW a \in Asset, Purge(a), [Next]_vars
  PROVE  Erased(a)' /\ \A b \in Asset : b # a => store'[b] = store[b]
<1>1. HubType /\ HubType' /\ Len(log') = Len(log)
  BY LogSteps, PurgeKeeps, TypeParts
<1>2. PICK i \in DOMAIN log : log[i].asset = a
  BY DEF Purge, Counted
<1>3. log[i] \in Rec
  BY <1>1, LenProperties DEF HubType
<1>4. i \in DOMAIN log' /\ log'[i] = [log[i] EXCEPT !.text = "purged", !.deleted = TRUE]
  BY <1>2 DEF Purge
<1>5. log'[i].asset = a /\ log'[i].text = "purged"
  BY <1>2, <1>3, <1>4 DEF Rec
<1> QED
  BY <1>1, <1>4, <1>5 DEF Erased, Purge, HubType

LEMMA ErasedStays ==
  ASSUME TypeOK, Uploads, [Next]_vars, NEW a \in Asset, Erased(a)
  PROVE  Erased(a)'
BY LogSteps DEF LogKept, Erased

LEMMA AcceptSaves ==
  ASSUME TypeOK, NEW row \in Row, Accept(row)
  PROVE  Same(store'[row.asset], row) /\ \A b \in Asset : b # row.asset => store'[b] = store[b]
<1>1. store'[row.asset] = [asset |-> row.asset, rev |-> row.base + 1, ver |-> row.ver,
                           deleted |-> row.deleted, text |-> "kept"]
  BY AcceptKeeps, TypeParts
<1>2. store'[row.asset] # NoRec /\ store'[row.asset].ver = row.ver
      /\ store'[row.asset].deleted = row.deleted
  BY <1>1 DEF NoRec
<1> QED
  BY <1>2 DEF Same, Accept, TypeOK

\* Only a saved upload takes an asset from those whose record came late.
LEMMA OverdueSteps ==
  ASSUME TypeOK, [Next]_vars
  PROVE  \/ overdue \subseteq overdue'
         \/ \E d \in Device : Commit(d) /\ overdue' = overdue \ {pass[d].row.asset}
<1>1. CASE UNCHANGED vars
  BY <1>1 DEF vars, hub
<1>2. CASE World
  BY <1>2 DEF World, Edit, Remove, Upgrade, Unmount, Mount, Toggle, Revoke, Purge, Arrive, Stop,
     Configure, StopInConfigure, TimeOut, SwitchInApply, ApplyPage, hub
<1>3. ASSUME NEW d \in Device, Work(d)
      PROVE  overdue \subseteq overdue' \/ (Commit(d) /\ overdue' = overdue \ {pass[d].row.asset})
  <2>1. CASE Commit(d)
    BY <2>1 DEF Commit
  <2>2. CASE ~Commit(d)
    BY <1>3, <2>2 DEF Work, Begin, List, Scan, Denied, Connect, Send, Saved, Refused, Defer,
       Fetch, FetchNothing, LastSeq, Check, Refetch, Apply, ApplyPage, Finish, hub
  <2> QED
    BY <2>1, <2>2
<1> QED
  BY <1>1, <1>2, <1>3 DEF Next

LEMMA ArriveOverdue ==
  ASSUME TypeOK, NEW row \in Row, Arrive(row), Accept(row), OnTop(store[row.asset], row)
  PROVE  row.asset \in overdue' /\ \A b \in Asset : b # row.asset => store'[b] = store[b]
<1>1. store'[row.asset].rev = row.base + 1 /\ row.base \in Nat
  BY AcceptFacts, TypeParts DEF Row
<1>2. store' # store
  BY <1>1 DEF OnTop
<1> QED
  BY <1>2, AcceptSaves DEF Arrive

LEMMA AcknowledgedStep ==
  ASSUME TypeOK, Uploads, Counted, Acknowledged, [Next]_vars
  PROVE  Acknowledged'
<1> SUFFICES ASSUME NEW d \in Device, pass'[d].at = "answered", pass'[d].reply.kind = "saved",
                    ~Gone(log', pass'[d].row.asset), pass'[d].row.asset \notin overdue'
             PROVE  Same(store'[pass'[d].row.asset], pass'[d].row)
  BY DEF Acknowledged, Erased, Gone
<1>1. CASE Commit(d)
  <2>1. /\ pass'[d].row = pass[d].row /\ pass'[d].reply = Answer(pass[d].row)
        /\ pass[d].at = "sent" /\ Put(pass[d].row)
    BY <1>1 DEF Commit, At, TypeOK, PassType
  <2>2. pass[d].row \in Row
    BY <2>1 DEF Uploads, UploadsOf, InFlight
  <2>3. CASE Same(store[pass[d].row.asset], pass[d].row)
    BY <2>1, <2>3 DEF Put
  <2>4. CASE ~Same(store[pass[d].row.asset], pass[d].row)
    <3>1. OnTop(store[pass[d].row.asset], pass[d].row)
      BY <2>1, <2>4 DEF Answer
    <3> QED
      BY <2>1, <2>2, <2>4, <3>1, AcceptSaves DEF Put
  <2> QED
    BY <2>3, <2>4
<1>2. CASE pass'[d] = pass[d] /\ ~Commit(d)
  <2> DEFINE a == pass[d].row.asset
  <2>1. pass[d].row \in Row /\ a \in Mine(d) /\ a \in Asset
    BY <1>2 DEF Uploads, UploadsOf, InFlight, Mine
  <2>2. ~Erased(a) /\ ~Gone(log', a)
    BY <1>2, <2>1, ErasedStays DEF Erased, Gone
  <2>3. \A e \in Device : Commit(e) => pass[e].row.asset # a
    <3> SUFFICES ASSUME NEW e \in Device, Commit(e) PROVE pass[e].row.asset # a
      OBVIOUS
    <3>1. e # d /\ pass[e].row.asset \in Mine(e)
      BY <1>2 DEF Commit, At, Uploads, UploadsOf, InFlight
    <3> QED
      BY <2>1, <3>1, OneOwner
  <2>4. Same(store[a], pass[d].row)
    <3>1. a \notin overdue
      BY <1>2, <2>3, OverdueSteps
    <3> QED
      BY <1>2, <2>2, <3>1 DEF Acknowledged
  <2>5. CASE UNCHANGED <<store, log>>
    BY <1>2, <2>4, <2>5
  <2>6. ASSUME NEW e \in Device, Commit(e), Accept(pass[e].row), pass[e].row \in Row
        PROVE  store'[a] = store[a]
    BY <2>3, <2>1, <2>6, AcceptSaves
  <2>7. ASSUME NEW row \in Row, Arrive(row), Accept(row), OnTop(store[row.asset], row)
        PROVE  store'[a] = store[a]
    BY <1>2, <2>1, <2>7, ArriveOverdue
  <2>8. ASSUME NEW b \in Asset, Purge(b) PROVE store'[a] = store[a]
    <3>1. Erased(b)' /\ \A c \in Asset : c # b => store'[c] = store[c]
      BY <2>8, PurgeErases
    <3>2. ~Gone(log', a) /\ Gone(log', b)
      BY <2>2, <3>1 DEF Erased, Gone
    <3>3. a # b
      BY <3>2
    <3> QED
      BY <2>1, <3>1, <3>3
  <2> QED
    BY <1>2, <2>4, <2>5, <2>6, <2>8, <2>7, HubSteps
<1> QED
  BY <1>1, <1>2, AnsweredSteps

Owed(a) ==
  \/ Same(store[a], part[a])
  \/ outbox[a] # NoRow /\ outbox[a].ver = part[a].ver /\ outbox[a].deleted = part[a].deleted

LEMMA WithheldStays ==
  ASSUME TypeOK, [Next]_vars
  PROVE  withheld \subseteq withheld'
<1>1. CASE UNCHANGED vars
  BY <1>1 DEF vars, sources
<1>2. CASE World
  BY <1>2 DEF World, Edit, Remove, Upgrade, Unmount, Mount, Toggle, Revoke, Purge, Arrive, Stop,
     Configure, StopInConfigure, TimeOut, SwitchInApply, ApplyPage, sources
<1>3. ASSUME NEW d \in Device, Work(d) PROVE UNCHANGED withheld
  BY <1>3 DEF Work, Begin, List, Scan, Denied, Connect, Send, Commit, Saved, Refused, Defer,
     Fetch, FetchNothing, LastSeq, Check, Refetch, Apply, ApplyPage, Finish, sources
<1> QED
  BY <1>1, <1>2, <1>3 DEF Next

LEMMA OwedStep ==
  ASSUME TypeOK, Queued, Uploads, Counted, Pages, Acknowledged, DesiredIsOwed, [Next]_vars
  PROVE  DesiredIsOwed'
<1> SUFFICES ASSUME NEW a \in Asset, part'[a] # NoPart, ~Erased(a)', a \notin overdue',
                    a[1] \in withheld' => part'[a].deleted
             PROVE  Owed(a)'
  BY DEF DesiredIsOwed, Owed, Erased
<1>1. ~Erased(a)
  BY ErasedStays
<1>2. ASSUME a \notin overdue, part[a] # NoPart, part'[a].deleted = part[a].deleted
      PROVE  Owed(a)
  BY <1>2, <1>1, WithheldStays DEF DesiredIsOwed, Owed
<1>3. ASSUME NEW e \in Device, Commit(e), pass[e].row.asset = a PROVE Owed(a)'
  <2>1. outbox[a] = pass[e].row /\ pass[e].row \in Row
    BY <1>3 DEF Commit, At, Uploads, UploadsOf, InFlight
  <2>2. outbox[a] # NoRow
    BY <2>1 DEF Row, NoRow
  <2> QED
    BY <1>3, <2>2 DEF Commit, queue, Queued, Owed
<1>4. a \notin overdue \/ \E e \in Device : Commit(e) /\ pass[e].row.asset = a
  BY OverdueSteps
<1>5. CASE UNCHANGED <<part, outbox>> /\ a \notin overdue
  <2>1. Owed(a)
    BY <1>2, <1>5
  <2>2. CASE UNCHANGED <<store, log>>
    BY <1>5, <2>1, <2>2 DEF Owed
  <2>3. ASSUME NEW e \in Device, Commit(e), Accept(pass[e].row), pass[e].row \in Row
        PROVE  Owed(a)'
    <3>1. CASE pass[e].row.asset = a
      BY <1>3, <2>3, <3>1
    <3>2. CASE pass[e].row.asset # a
      BY <1>5, <2>1, <2>3, <3>2, AcceptSaves DEF Owed
    <3> QED
      BY <3>1, <3>2
  <2>4. ASSUME NEW row \in Row, Arrive(row), Accept(row), OnTop(store[row.asset], row)
        PROVE  Owed(a)'
    BY <1>5, <2>1, <2>4, ArriveOverdue DEF Owed
  <2>5. ASSUME NEW b \in Asset, Purge(b) PROVE Owed(a)'
    BY <1>5, <2>1, <2>5, PurgeErases DEF Owed
  <2> QED
    BY <2>2, <2>3, <2>5, <2>4, HubSteps
<1>6. ASSUME NEW d \in Device, QueueStep(d), UNCHANGED hub PROVE Owed(a)'
  <2>1. CASE Decided(a)'
    BY <2>1 DEF Decided, Owed
  <2>2. CASE Untouched(a)
    <3>1. Owed(a)
      BY <1>2, <1>6, <2>2 DEF Untouched, hub
    <3> QED
      BY <1>6, <2>2, <3>1 DEF Owed, Untouched, Same, hub
  <2>3. CASE Dropped(a)
    BY <2>3 DEF Dropped
  <2> QED
    BY <1>6, <2>1, <2>2, <2>3 DEF QueueStep
<1>7. ASSUME NEW d \in Device, Saved(d) PROVE Owed(a)'
  <2> DEFINE b == pass[d].row.asset
  <2>1. /\ b \in Mine(d) /\ Decided(b) /\ outbox[b] = pass[d].row
        /\ outbox' = [outbox EXCEPT ![b] = NoRow]
        /\ (part[a] = NoPart <=> part'[a] = NoPart)
        /\ part'[a].ver = part[a].ver /\ part'[a].deleted = part[a].deleted
    BY <1>7, SavedRow
  <2>2. UNCHANGED <<store, log>> /\ a \notin overdue
    BY <1>7 DEF Saved, hub
  <2>3. CASE a = b
    <3>1. Same(store[a], pass[d].row)
      BY <1>1, <1>7, <2>2, <2>3 DEF Saved, At, Acknowledged
    <3> QED
      BY <2>1, <2>2, <2>3, <3>1 DEF Decided, Owed, Same
  <2>4. CASE a # b
    <3>1. Owed(a) /\ outbox'[a] = outbox[a]
      BY <1>2, <2>1, <2>2, <2>4 DEF TypeOK
    <3> QED
      BY <2>1, <2>2, <3>1 DEF Owed, Same
  <2> QED
    BY <2>3, <2>4
<1> QED
  BY <1>5, <1>6, <1>7, <1>3, <1>4, QueueSteps

\* Without the fault no upload is ever late.
LEMMA NeverLate ==
  ASSUME "late" \notin Faults, late = {}, [Next]_vars
  PROVE  late' = {}
<1>1. CASE UNCHANGED vars
  BY <1>1 DEF vars
<1>2. CASE World
  BY <1>2 DEF World, Edit, Remove, Upgrade, Unmount, Mount, Toggle, Revoke, Purge, Arrive, Stop,
     Configure, StopInConfigure, TimeOut, SwitchInApply, ApplyPage, Fault
<1>3. ASSUME NEW d \in Device, Work(d) PROVE late' = {}
  BY <1>3 DEF Work, Begin, List, Scan, Denied, Connect, Send, Commit, Saved, Refused, Defer,
     Fetch, FetchNothing, LastSeq, Check, Refetch, Apply, ApplyPage, Finish
<1> QED
  BY <1>1, <1>2, <1>3 DEF Next

-----------------------------------------------------------------------------
(* What lies behind the cursor of a projecting device.                     *)

(* A kept change behind the cursor is in the replica; one behind the       *)
(* cursor of the page in hand is in the replica or in the page, and no     *)
(* other change of its asset is; at the end of the log none is ahead.      *)
Within(d) ==
  cursor[d] <= Len(log) /\ (InHand(d) => pass[d].page.cursor <= Len(log))
Behind(d, i) ==
  LET about == About(pass[d].page.items, log[i].asset)
  IN  /\ i <= cursor[d] => replica[d][log[i].asset] = log[i]
      /\ pass[d].at = "ended" => i <= cursor[d]
      /\ (InHand(d) /\ i <= pass[d].page.cursor) =>
           /\ \A change \in about : change.rec = log[i]
           /\ i > cursor[d] => about # {}
ReadWhole ==
  \A d \in Device :
    /\ Within(d)
    /\ mode[d] = "projection" => \A i \in DOMAIN log : log[i].text = "kept" => Behind(d, i)

(* No upload commits between the two reads of an empty page: the one       *)
(* window in which the Hub can answer a cursor beyond a change that it has *)
(* not shown.                                                              *)
NoneInTheGap == (\E d \in Device : At(d, "ended")) => Len(log') = Len(log)

(* The switch is used between two passes only.  In the middle of a pass it *)
(* can let a page without texts, or half a page, move the cursor over      *)
(* texts that the device is to have.                                       *)
SwitchedAtRest == \A d \in Device : wants'[d] # wants[d] => At(d, "idle")

(* Then a pass works under the policy that the switch asks for, and its    *)
(* pages are asked for as the switch has it.                               *)
InStep ==
  \A d \in Device :
    /\ ~At(d, "idle") => mode[d] = Policy(d)
    /\ (InHand(d) \/ At(d, "ended")) => pass[d].page.bodies = wants[d]

Steady(d) == mode'[d] = mode[d] /\ wants'[d] = wants[d] /\ ~At(d, "idle")

LEMMA InStepStep ==
  ASSUME TypeOK, InStep, [Next]_vars, SwitchedAtRest
  PROVE  InStep'
<1>1. ASSUME NEW d \in Device, ~At(d, "idle")'
      PROVE  Steady(d) \/ mode'[d] = Policy(d)'
  <2>1. CASE UNCHANGED <<pass, recall>>
    BY <1>1, <2>1 DEF Steady, recall, At, SwitchedAtRest
  <2>2. ASSUME NEW e \in Device, pass' = [pass EXCEPT ![e] = Idle], UNCHANGED recall
        PROVE  Steady(d)
    <3>1. e # d
      BY <1>1, <2>2 DEF At, Idle, TypeOK
    <3> QED
      BY <1>1, <2>2, <3>1 DEF Steady, recall, At, TypeOK, SwitchedAtRest
  <2>3. ASSUME NEW m \in Doc, Upgrade(m)
        PROVE  Steady(d)
    BY <2>2, <2>3, SyncAssumption DEF Upgrade
  <2>4. ASSUME NEW e \in Device, Configure(e) \/ StopInConfigure(e)
        PROVE  Steady(d)
    <3>1. UNCHANGED pass /\ e # d /\ UNCHANGED wants
      BY <1>1, <2>4 DEF Configure, StopInConfigure, At
    <3>2. mode'[d] = mode[d]
      BY <2>4, <3>1, ConfigureClears DEF Configure, StopInConfigure
    <3> QED
      BY <1>1, <3>1, <3>2 DEF Steady, At
  <2>5. ASSUME NEW e \in Device, Applies(e)
        PROVE  Steady(d)
    <3>1. mode' = mode /\ At(e, "checked") /\ (e # d => pass'[d] = pass[d])
      BY <2>5 DEF Applies, ApplyPage, TypeOK
    <3>2. ~At(d, "idle")
      BY <1>1, <3>1 DEF At
    <3> QED
      BY <3>1, <3>2 DEF Steady, SwitchedAtRest
  <2>6. CASE World
    BY <2>1, <2>2, <2>3, <2>4, <2>5, <2>6, ApplyingSteps DEF World, Edit, Remove, Unmount, Mount,
       Toggle, Revoke, Purge, Arrive, Stop, TimeOut
  <2>7. ASSUME NEW e \in Device, ConfigureStorage(e), UNCHANGED wants, e # d => pass'[d] = pass[d]
        PROVE  Steady(d) \/ mode'[d] = Policy(d)'
    <3>1. CASE e = d
      BY <2>7, <3>1 DEF ConfigureStorage, Policy, TypeOK, recall
    <3>2. CASE e # d
      BY <1>1, <2>7, <3>2, ConfigureClears DEF Steady, At, recall
    <3> QED
      BY <3>1, <3>2
  <2>8. ASSUME NEW e \in Device, Work(e)
        PROVE  Steady(d) \/ mode'[d] = Policy(d)'
    <3>1. UNCHANGED wants
      BY <2>8 DEF Work, Begin, List, Scan, Denied, Connect, Send, Commit, Saved, Refused, Defer,
         Fetch, FetchNothing, LastSeq, Check, Refetch, Apply, Finish
    <3>2. e # d => pass'[d] = pass[d]
      BY <2>8 DEF Work, Begin, List, Scan, Denied, Connect, Send, Commit, Saved, Refused, Defer,
         Fetch, FetchNothing, LastSeq, Check, Refetch, Apply, ApplyPage, Finish, TypeOK
    <3>3. CASE Begin(e) \/ Refetch(e) \/ Finish(e)
      BY <2>7, <3>1, <3>2, <3>3 DEF Begin, Refetch, Finish
    <3>4. CASE Apply(e)
      BY <2>5, <3>4, ApplyingSteps
    <3>5. CASE ~(Begin(e) \/ Refetch(e) \/ Finish(e) \/ Apply(e))
      <4>1. UNCHANGED mode /\ ~At(e, "idle")
        BY <2>8, <3>5 DEF Work, List, Scan, Denied, Connect, Send, Commit, Saved, Refused, Defer,
           Fetch, FetchNothing, LastSeq, Check, recall, At
      <4> QED
        BY <1>1, <3>1, <3>2, <4>1 DEF Steady, At
    <3> QED
      BY <3>3, <3>4, <3>5
  <2> QED
    BY <2>1, <2>6, <2>8 DEF Next, vars
<1>2. ASSUME NEW d \in Device, (InHand(d) \/ At(d, "ended"))'
      PROVE  pass'[d].page.bodies = wants'[d]
  <2>1. pass'[d].at \in {"fetched", "checked", "ended"} /\ pass[d] \in PassType
    BY <1>2 DEF InHand, At, TypeOK
  <2>2. CASE pass'[d] = pass[d]
    BY <2>1, <2>2 DEF InStep, SwitchedAtRest, InHand, At
  <2>3. CASE Fetch(d)
    <3> DEFINE page == Changes(cursor[d], wants[d])
    <3>1. pass'[d].page = page
      BY <2>3, ReadingSteps
    <3>2. page.bodies = wants[d]
      BY <2>3, ChangesAhead, TypeParts DEF Fetch, TypeOK
    <3> HIDE DEF page
    <3> QED
      BY <2>3, <3>1, <3>2 DEF Fetch
  <2>4. CASE FetchNothing(d)
    <3>1. pass'[d].page.bodies = wants[d]
      BY <2>4, ReadingSteps DEF NoPage
    <3> QED
      BY <2>4, <3>1 DEF FetchNothing
  <2>5. CASE LastSeq(d)
    BY <2>5, LastIn DEF LastSeq, InStep
  <2>6. CASE Check(d)
    BY <2>6, ReadingSteps DEF Check, InStep, InHand
  <2> QED
    BY <2>1, <2>2, <2>3, <2>4, <2>5, <2>6, FetchedSteps
<1>3. ASSUME NEW d \in Device, ~At(d, "idle")' PROVE mode'[d] = Policy(d)'
  BY <1>1, <1>3 DEF Steady, InStep, Policy
<1> QED
  BY <1>2, <1>3 DEF InStep

\* A text that is kept was kept before, and nothing of its change has changed.
LEMMA KeptText ==
  ASSUME TypeOK, Uploads, [Next]_vars, NEW i \in DOMAIN log, log'[i].text = "kept"
  PROVE  i \in DOMAIN log' /\ log'[i] = log[i]
<1>1. HubType /\ LogKept /\ log[i] \in Rec
  BY LogSteps, TypeParts, LenProperties DEF HubType
<1>2. i \in DOMAIN log'
  BY <1>1 DEF LogKept
<1>3. ASSUME NEW row \in Row, Accept(row) PROVE log'[i] = log[i]
  <2> DEFINE old == Scrubbed(log, row.asset, row.base + 1)
             rec == [asset |-> row.asset, rev |-> row.base + 1, ver |-> row.ver,
                     deleted |-> row.deleted, text |-> "kept"]
  <2>1. log' = Append(old, rec)
    BY <1>3 DEF Accept
  <2>2. row.asset \in Asset /\ row.base + 1 \in Nat
    BY DEF Row
  <2>3. old \in Seq(Rec) /\ Len(old) = Len(log) /\ i \in 1..Len(old)
    BY <1>1, <2>2, ScrubbedType, HubFacts
  <2>4. rec \in Rec
    BY DEF Row, Rec
  <2>5. old[i] = log[i] \/ old[i] = [log[i] EXCEPT !.text = "scrubbed"]
    BY DEF Scrubbed
  <2> HIDE DEF old, rec
  <2>6. log'[i] = old[i]
    BY <2>1, <2>3, <2>4
  <2> QED
    BY <1>1, <2>5, <2>6 DEF Rec
<1>4. ASSUME NEW a \in Asset, Purge(a) PROVE log'[i] = log[i]
  BY <1>1, <1>4 DEF Purge, Rec
<1> QED
  BY <1>2, <1>3, <1>4, HubCases

\* A new change takes the texts of the older ones of its asset away.
LEMMA OneTextStep ==
  ASSUME TypeOK, Uploads, OneText, [Next]_vars
  PROVE  OneText'
<1>1. HubType /\ HubType' /\ LogKept
  BY LogSteps, TypeParts
<1>2. /\ Len(log) \in Nat /\ DOMAIN log = 1..Len(log)
      /\ Len(log') \in Nat /\ DOMAIN log' = 1..Len(log')
      /\ \A i \in DOMAIN log : log[i].rev \in Nat /\ log[i].asset \in Asset
      /\ \A a \in Asset : store[a].rev \in Nat
  BY <1>1, HubFacts, HubFactsNext
<1>3. CASE UNCHANGED <<store, log>>
  BY <1>3 DEF OneText
<1>4. ASSUME NEW row \in Row, Accept(row), OnTop(store[row.asset], row) PROVE OneText'
  <2> DEFINE n == Len(log')
  <2>1. /\ n = Len(log) + 1 /\ log'[n] = store'[row.asset]
        /\ store'[row.asset].rev = row.base + 1 /\ store'[row.asset].text = "kept"
        /\ log'[n].asset = row.asset
    <3>1. /\ Len(log') = Len(log) + 1 /\ log'[Len(log')] = store'[row.asset]
          /\ store'[row.asset] = [asset |-> row.asset, rev |-> row.base + 1, ver |-> row.ver,
                                  deleted |-> row.deleted, text |-> "kept"]
      BY <1>1, <1>4, AcceptKeeps
    <3> QED
      BY <3>1
  <2>2. row.asset \in Asset /\ row.base = store[row.asset].rev
    BY <1>4 DEF OnTop, Row
  <2>3. \A a \in Asset : a # row.asset => store'[a] = store[a]
    BY <1>1, <1>4 DEF Accept, HubType
  <2>4. \A i \in DOMAIN log' : i \in DOMAIN log \/ i = n
    BY <1>2, <2>1
  <2>5. ASSUME NEW i \in DOMAIN log, log'[i].text = "kept"
        PROVE  log'[i] = log[i] /\ log[i].asset # row.asset
    <3>1. log'[i] = log[i]
      BY <2>5, KeptText
    <3>2. store[log[i].asset] = log[i] /\ log[i] \in Rec
      BY <1>1, <2>5, <3>1, LenProperties DEF OneText, HubType
    <3>3. log[i].asset = row.asset => log[i].rev < row.base + 1
      <4>1. log[i].asset = row.asset => log[i].rev = row.base
        BY <2>2, <3>2
      <4>2. row.base \in Nat
        BY DEF Row
      <4> QED
        BY <4>1, <4>2
    <3>4. Scrubbed(log, row.asset, row.base + 1)[i].text = "kept"
      <4> DEFINE old == Scrubbed(log, row.asset, row.base + 1)
                 rec == [asset |-> row.asset, rev |-> row.base + 1, ver |-> row.ver,
                         deleted |-> row.deleted, text |-> "kept"]
      <4>1. log' = Append(old, rec)
        BY <1>4 DEF Accept
      <4>2. row.base + 1 \in Nat /\ rec \in Rec
        BY DEF Row, Rec
      <4>3. old \in Seq(Rec) /\ i \in 1..Len(old)
        BY <1>1, <1>2, <2>2, <4>2, ScrubbedType
      <4> HIDE DEF old, rec
      <4>4. log'[i] = old[i]
        BY <4>1, <4>2, <4>3
      <4> QED
        BY <2>5, <4>4 DEF old
    <3>5. log[i].text = "kept"
      BY <2>5, <3>1
    <3>6. ASSUME log[i].asset = row.asset PROVE FALSE
      <4>1. Scrubbed(log, row.asset, row.base + 1)[i] = [log[i] EXCEPT !.text = "scrubbed"]
        BY <3>3, <3>5, <3>6 DEF Scrubbed
      <4> QED
        BY <3>2, <3>4, <4>1 DEF Rec
    <3> QED
      BY <3>1, <3>6
  <2>6. \A a \in Asset : store'[a] # NoRec => store'[a].text = "kept"
    BY <2>1, <2>3 DEF OneText
  <2>7. \A i \in DOMAIN log' : log'[i].text = "kept" => store'[log'[i].asset] = log'[i]
    BY <1>2, <2>1, <2>3, <2>4, <2>5 DEF OneText
  <2>8. \A i, j \in DOMAIN log' :
          (log'[i].text = "kept" /\ log'[j].text = "kept" /\ log'[j].asset = log'[i].asset) => i = j
    BY <2>1, <2>4, <2>5 DEF OneText
  <2> QED
    BY <2>6, <2>7, <2>8 DEF OneText
<1>5. ASSUME NEW a \in Asset, Purge(a) PROVE OneText'
  <2>1. DOMAIN log' = DOMAIN log
    BY <1>1, <1>2, <1>5, PurgeKeeps
  <2>2. \A b \in Asset : store'[b] = IF b = a THEN NoRec ELSE store[b]
    BY <1>1, <1>5 DEF Purge, HubType
  <2>3. \A i \in DOMAIN log : log'[i].text = "kept" => log'[i] = log[i] /\ log[i].asset # a
    <3>1. \A i \in DOMAIN log : log[i] \in Rec
      BY <1>1, LenProperties DEF HubType
    <3> QED
      BY <1>5, <3>1 DEF Purge, Rec
  <2> QED
    BY <1>2, <2>1, <2>2, <2>3 DEF OneText
<1> QED
  BY <1>3, <1>4, <1>5, HubCases

\* A page for a reader of bodies shows every kept change up to its cursor,
\* and shows it as it is.
LEMMA ChangesWhole ==
  ASSUME HubType, NEW from \in Nat, NEW bodies \in BOOLEAN, bodies,
         Ahead(from, bodies) # {}
  PROVE  /\ \A change \in Changes(from, bodies).items :
              /\ change.seq \in DOMAIN log /\ from < change.seq
              /\ change.rec = log[change.seq] /\ log[change.seq].text = "kept"
         /\ \A i \in DOMAIN log :
              (log[i].text = "kept" /\ from < i /\ i <= Changes(from, bodies).cursor) =>
                [seq |-> i, rec |-> log[i]] \in Changes(from, bodies).items
<1> DEFINE ahead == Ahead(from, bodies)
           first == Min(ahead)
           skip  == from + ((first - from - 1) \div Page) * Page
           end   == Min({skip + Page, Len(log)})
           items == {[seq |-> i, rec |-> Shown(log[i], bodies)] : i \in {j \in ahead : j <= end}}
<1>1. Len(log) \in Nat /\ DOMAIN log = 1..Len(log)
  BY HubFacts
<1>2. /\ \A i \in ahead : i \in DOMAIN log /\ i > from /\ log[i].text = "kept"
      /\ \A i \in DOMAIN log : (i > from /\ log[i].text = "kept") => i \in ahead
  BY DEF Ahead
<1>3. Changes(from, bodies).items = items /\ Changes(from, bodies).cursor = end
  BY Zenon DEF Changes
<1> HIDE DEF skip, end
<1>4. items = {[seq |-> i, rec |-> log[i]] : i \in {j \in ahead : j <= end}}
  BY DEF Shown
<1> HIDE DEF ahead
<1>5. \A change \in items :
        /\ change.seq \in DOMAIN log /\ from < change.seq
        /\ change.rec = log[change.seq] /\ log[change.seq].text = "kept"
  <2>1. TAKE change \in items
  <2>2. PICK i \in ahead : i <= end /\ change = [seq |-> i, rec |-> log[i]]
    BY <1>4
  <2>3. i \in DOMAIN log /\ i > from /\ log[i].text = "kept" /\ i \in Nat
    BY <1>1, <1>2
  <2> QED
    BY <1>1, <2>2, <2>3
<1>6. ASSUME NEW i \in DOMAIN log, log[i].text = "kept", from < i, i <= end
       PROVE  [seq |-> i, rec |-> log[i]] \in items
  <2>1. i \in ahead
    BY <1>1, <1>2, <1>6
  <2> QED
    BY <1>4, <1>6, <2>1
<1>7. ASSUME NEW i \in DOMAIN log, log[i].text = "kept", from < i,
             i <= Changes(from, bodies).cursor
      PROVE  [seq |-> i, rec |-> log[i]] \in Changes(from, bodies).items
  <2> HIDE DEF items
  <2> QED
    BY <1>3, <1>6, <1>7
<1>8. \A change \in Changes(from, bodies).items : change \in items
  <2> HIDE DEF items
  <2> QED
    BY <1>3
<1> HIDE DEF items
<1> QED
  BY <1>5, <1>7, <1>8

\* No cursor, and no page, is ahead of the log.
LEMMA WithinStep ==
  ASSUME TypeOK, Uploads, Counted, Pages, ReadWhole, [Next]_vars, NEW d \in Device
  PROVE  Within(d)'
<1>1. /\ HubType /\ HubType' /\ LogKept /\ Len(log) \in Nat /\ Len(log') \in Nat
      /\ Len(log) <= Len(log')
  <2>1. HubType /\ HubType' /\ LogKept
    BY LogSteps, TypeParts
  <2> QED
    BY <2>1, HubFacts, HubFactsNext DEF LogKept
<1>2. pass[d] \in PassType /\ cursor[d] \in Nat
  BY DEF TypeOK
<1>3. cursor[d] <= Len(log) /\ (InHand(d) => pass[d].page.cursor <= Len(log))
  BY DEF ReadWhole, Within
<1>4. cursor'[d] <= Len(log')
  <2>1. CASE cursor'[d] = cursor[d] \/ cursor'[d] = 0
    BY <1>1, <1>2, <1>3, <2>1
  <2>2. CASE Applies(d)
    <3>1. cursor'[d] = pass[d].page.cursor /\ InHand(d) /\ log' = log
      BY <2>2 DEF Applies, ApplyPage, At, InHand, hub, TypeOK
    <3> QED
      BY <1>3, <3>1
  <2> QED
    BY <2>1, <2>2, RecallSteps, ApplyingSteps DEF Recalls, Cleared
<1>5. ASSUME InHand(d)' PROVE pass'[d].page.cursor <= Len(log')
  <2>1. CASE pass'[d] = pass[d] \/ Check(d)
    <3>1. InHand(d) /\ pass'[d].page = pass[d].page
      BY <1>5, <2>1, ReadingSteps DEF InHand
    <3>2. pass[d].page.cursor \in Nat \cup {-1}
      BY <1>2 DEF PassType
    <3> QED
      BY <1>1, <1>3, <3>1, <3>2
  <2>2. CASE Fetch(d)
    <3> DEFINE page == Changes(cursor[d], wants[d])
    <3>1. pass'[d].page = page /\ log' = log
      BY <2>2, ReadingSteps DEF Fetch, hub
    <3>2. page.cursor <= Len(log)
      BY <1>1, <1>2, <2>2, ChangesAhead DEF Fetch, TypeOK
    <3> HIDE DEF page
    <3> QED
      BY <3>1, <3>2
  <2>3. CASE LastSeq(d)
    <3>1. log' = log /\ pass'[d].page.cursor \in {cursor[d], Len(log)}
      BY <2>3, LastIn DEF LastSeq, hub
    <3> QED
      BY <1>1, <1>2, <1>3, <3>1
  <2>4. CASE FetchNothing(d)
    BY <1>5, <2>4, ReadingSteps DEF InHand
  <2> QED
    BY <1>5, <2>1, <2>2, <2>3, <2>4, FetchedSteps DEF InHand
<1> QED
  BY <1>4, <1>5 DEF Within

\* A page that a projecting device applies leaves the kept changes up to its
\* cursor in the replica.
LEMMA BehindApplied ==
  ASSUME TypeOK, Counted, Pages, ReadWhole, NEW d \in Device, Apply(d), wants[d],
         mode[d] = "projection",
         NEW i \in DOMAIN log, log[i].text = "kept", i <= cursor'[d]
  PROVE  replica'[d][log[i].asset] = log[i]
<1> DEFINE page == pass[d].page
           a == log[i].asset
<1>1. InHand(d) /\ ApplyPage(d, page.items)
  BY DEF Apply, At, InHand
<1>2. a \in Asset
  BY HubFacts, TypeParts
<1>3. /\ cursor'[d] = page.cursor
      /\ replica'[d][a] = IF About(page.items, a) = {} THEN replica[d][a] ELSE Latest(page.items, a)
  BY <1>1, <1>2 DEF ApplyPage, TypeOK
<1>4. Behind(d, i)
  BY DEF ReadWhole
<1>5. /\ i <= cursor[d] => replica[d][a] = log[i]
      /\ \A change \in About(page.items, a) : change.rec = log[i]
      /\ i > cursor[d] => About(page.items, a) # {}
  BY <1>1, <1>3, <1>4 DEF Behind
<1>6. CASE About(page.items, a) = {}
  <2>1. cursor[d] \in Nat /\ i \in Nat
    BY HubFacts, TypeParts DEF TypeOK
  <2> QED
    BY <1>3, <1>5, <1>6, <2>1
<1>7. CASE About(page.items, a) # {}
  <2>1. PICK last \in About(page.items, a) : Latest(page.items, a) = last.rec
    BY <1>1, <1>2, <1>7, PageInLog, LatestIn
  <2> QED
    BY <1>3, <1>5, <1>7, <2>1
<1> QED
  BY <1>6, <1>7

\* A page fetched with texts has the kept changes up to its cursor, and
\* nothing else of their assets.
LEMMA BehindFetched ==
  ASSUME TypeOK, Uploads, OneText, NEW d \in Device, Fetch(d), wants[d],
         NEW i \in DOMAIN log, log[i].text = "kept", i <= pass'[d].page.cursor
  PROVE  /\ \A change \in About(pass'[d].page.items, log[i].asset) : change.rec = log[i]
         /\ i > cursor[d] => About(pass'[d].page.items, log[i].asset) # {}
<1> DEFINE page == Changes(cursor[d], wants[d])
<1>1. HubType /\ cursor[d] \in Nat /\ wants[d] \in BOOLEAN
  BY TypeParts DEF TypeOK
<1>2. /\ \A change \in page.items :
           /\ change.seq \in DOMAIN log /\ cursor[d] < change.seq
           /\ change.rec = log[change.seq] /\ log[change.seq].text = "kept"
      /\ \A j \in DOMAIN log :
           (log[j].text = "kept" /\ cursor[d] < j /\ j <= page.cursor) =>
             [seq |-> j, rec |-> log[j]] \in page.items
  BY <1>1, ChangesWhole DEF Fetch
<1>3. pass'[d].page = page
  BY ReadingSteps
<1> HIDE DEF page
<1>4. ASSUME NEW change \in About(page.items, log[i].asset) PROVE change.rec = log[i]
  <2>1. change \in page.items /\ change.rec.asset = log[i].asset
    BY DEF About
  <2>2. change.seq = i
    BY <1>2, <2>1 DEF OneText
  <2> QED
    BY <1>2, <2>1, <2>2
<1>5. ASSUME i > cursor[d] PROVE About(page.items, log[i].asset) # {}
  <2>1. i \in Nat
    BY <1>1, HubFacts
  <2>2. [seq |-> i, rec |-> log[i]] \in page.items
    BY <1>1, <1>2, <1>3, <1>5, <2>1
  <2> QED
    BY <2>2 DEF About
<1> QED
  BY <1>3, <1>4, <1>5

\* Every step keeps the reading whole, except an upload between the two reads
\* of an empty page and a switch in the middle of a pass.
LEMMA ReadWholeStep ==
  ASSUME TypeOK, Uploads, Counted, Pages, Emptied, OneText, InStep, ReadWhole,
         [Next]_vars, NoneInTheGap, SwitchedAtRest
  PROVE  ReadWhole'
<1> SUFFICES ASSUME NEW d \in Device, mode'[d] = "projection",
                    NEW i \in DOMAIN log', log'[i].text = "kept"
             PROVE  /\ i <= cursor'[d] => replica'[d][log'[i].asset] = log'[i]
                    /\ pass'[d].at = "ended" => i <= cursor'[d]
                    /\ (InHand(d)' /\ i <= pass'[d].page.cursor) =>
                         /\ \A change \in About(pass'[d].page.items, log'[i].asset) :
                              change.rec = log'[i]
                         /\ i > cursor'[d] => About(pass'[d].page.items, log'[i].asset) # {}
  BY WithinStep DEF ReadWhole, Behind
<1>1. HubType /\ HubType' /\ LogKept
  BY LogSteps, TypeParts
<1>2. /\ Len(log) \in Nat /\ DOMAIN log = 1..Len(log)
      /\ Len(log') \in Nat /\ DOMAIN log' = 1..Len(log') /\ Len(log) <= Len(log')
  BY <1>1, HubFacts, HubFactsNext DEF LogKept
<1>3. pass[d] \in PassType /\ cursor[d] \in Nat /\ i \in Nat /\ i >= 1
  BY <1>2 DEF TypeOK
<1>4. Within(d)
  BY DEF ReadWhole
<1>5. ASSUME i \in DOMAIN log, mode[d] = "projection"
      PROVE  log'[i] = log[i] /\ Behind(d, i)
  <2>1. log'[i] = log[i]
    BY <1>5, KeptText
  <2> QED
    BY <1>5, <2>1 DEF ReadWhole
<1>6. ASSUME i <= cursor'[d] PROVE replica'[d][log'[i].asset] = log'[i]
  <2>1. CASE cursor'[d] = cursor[d] /\ replica'[d] = replica[d] /\ mode'[d] = mode[d]
    <3>1. i \in DOMAIN log
      BY <1>2, <1>3, <1>4, <1>6, <2>1 DEF Within
    <3> QED
      BY <1>5, <1>6, <2>1, <3>1 DEF Behind
  <2>2. CASE cursor'[d] = 0
    BY <1>3, <1>6, <2>2
  <2>3. CASE Apply(d)
    <3>1. log' = log /\ mode' = mode /\ At(d, "checked")
      BY <2>3 DEF Apply, ApplyPage, hub
    <3>2. wants[d]
      BY <3>1 DEF InStep, Policy, At
    <3> QED
      BY <1>6, <2>3, <3>1, <3>2, BehindApplied
  <2>4. CASE SwitchInApply(d)
    <3>1. At(d, "checked") /\ wants'[d] # wants[d]
      BY <2>4 DEF SwitchInApply, TypeOK
    <3> QED
      BY <3>1 DEF SwitchedAtRest, At
  <2> QED
    BY <2>1, <2>2, <2>3, <2>4, RecallSteps DEF Recalls, Cleared
<1>7. CASE pass'[d].at \notin {"fetched", "checked", "ended"}
  BY <1>6, <1>7 DEF InHand
<1>8. ASSUME pass'[d].at \in {"fetched", "checked", "ended"}
      PROVE  cursor'[d] = cursor[d] /\ replica'[d] = replica[d] /\ mode[d] = "projection"
  BY <1>8, FetchedSteps DEF Unread
<1>9. CASE pass'[d] = pass[d] \/ Check(d)
  <2>1. ASSUME pass'[d].at = "ended" PROVE i <= cursor'[d]
    <3>1. At(d, "ended")
      BY <1>9, <2>1, ReadingSteps DEF At
    <3>2. Len(log') = Len(log)
      BY <3>1 DEF NoneInTheGap
    <3> QED
      BY <1>2, <1>5, <1>8, <2>1, <3>1, <3>2 DEF Behind, At
  <2>2. ASSUME InHand(d)', i <= pass'[d].page.cursor
        PROVE  /\ \A change \in About(pass'[d].page.items, log'[i].asset) : change.rec = log'[i]
               /\ i > cursor'[d] => About(pass'[d].page.items, log'[i].asset) # {}
    <3>1. InHand(d) /\ pass'[d].page = pass[d].page
      BY <1>9, <2>2, ReadingSteps DEF InHand
    <3>2. pass[d].page.cursor \in Nat \cup {-1} /\ pass[d].page.cursor <= Len(log)
      BY <1>3, <1>4, <3>1 DEF Within, PassType
    <3>3. i \in DOMAIN log
      BY <1>2, <1>3, <2>2, <3>1, <3>2
    <3> QED
      BY <1>5, <1>8, <2>2, <3>1, <3>3 DEF Behind, InHand
  <2> QED
    BY <1>6, <2>1, <2>2
<1>10. CASE Fetch(d)
  <2>1. log' = log /\ pass'[d].at = "fetched" /\ At(d, "pull")
    BY <1>10, ReadingSteps DEF Fetch, hub
  <2>2. wants[d]
    BY <1>8, <2>1 DEF InStep, Policy, At
  <2> QED
    BY <1>6, <1>8, <1>10, <2>1, <2>2, BehindFetched
<1>11. CASE FetchNothing(d)
  <2>1. log' = log /\ pass'[d].at = "ended" /\ At(d, "pull") /\ Ahead(cursor[d], wants[d]) = {}
    BY <1>11, ReadingSteps DEF FetchNothing, hub
  <2>2. wants[d]
    BY <1>8, <2>1 DEF InStep, Policy, At
  <2>3. ~(i > cursor[d])
    BY <2>1, <2>2 DEF Ahead
  <2> QED
    BY <1>3, <1>6, <1>8, <2>1, <2>3 DEF InHand
<1>12. CASE LastSeq(d)
  <2>1. /\ log' = log /\ pass[d].at = "ended" /\ pass'[d].at = "fetched"
        /\ pass'[d].page.items = {}
    BY <1>12, ReadingSteps, LastIn DEF LastSeq, hub, Emptied, At
  <2>2. i <= cursor'[d]
    BY <1>5, <1>8, <2>1 DEF Behind
  <2> QED
    BY <1>3, <1>6, <1>8, <2>1, <2>2 DEF About
<1> QED
  BY <1>7, <1>9, <1>10, <1>11, <1>12, FetchedSteps

-----------------------------------------------------------------------------
(* The theorems.                                                           *)

Inv ==
  /\ TypeOK /\ Queued /\ Uploads /\ Counted /\ Pages
  /\ Emptied /\ Ordered /\ OneText /\ Sourced /\ Fresh

LEMMA InvInit == ASSUME Init PROVE Inv /\ late = {} /\ Acknowledged /\ DesiredIsOwed
<1>1. TypeOK
  <2>1. SourcesType /\ QueueType /\ RefusalType /\ RestType
    BY SyncAssumption DEF Init, SourcesType, QueueType, RefusalType, RestType
  <2>2. RecallType /\ PassesType
    BY IdleType DEF Init, RecallType, PassesType
  <2>3. HubType
    BY DEF Init, HubType
  <2> QED
    BY <2>1, <2>2, <2>3, TypeParts
<1>2. \A d \in Device : /\ pass[d].at = "idle" /\ pass[d].left = {} /\ pass[d].todo = {}
                         /\ pass[d].reply = NoReply
  BY DEF Init, Idle
<1>3. Queued /\ Uploads /\ Pages /\ Emptied /\ Fresh /\ Acknowledged
  BY <1>2 DEF Init, Queued, Uploads, UploadsOf, InFlight, InHand, At, Pages, Emptied, Fresh,
     Acknowledged, NoReply
<1>4. Counted /\ Ordered /\ OneText
  BY DEF Init, Counted, Ordered, InOrder, OneText, NoRec
<1>5. Sourced
  BY DEF Init, NoReplica, Sourced
<1>6. DesiredIsOwed /\ late = {}
  BY DEF Init, DesiredIsOwed
<1> QED
  BY <1>1, <1>3, <1>4, <1>5, <1>6 DEF Inv

LEMMA InvStep == ASSUME Inv, [Next]_vars PROVE Inv'
BY TypeStep, QueuedStep, UploadsStep, CountedStep, PagesStep, EmptiedStep, OrderedStep, OneTextStep,
   SourcedStep, FreshStep DEF Inv

LEMMA Invariant == Spec => []Inv
<1>1. Init => Inv
  BY InvInit
<1>2. Inv /\ [Next]_vars => Inv'
  BY InvStep
<1> QED
  BY <1>1, <1>2, PTL DEF Spec

(* Every table of the clients and the Hub keeps its shape, whatever        *)
(* happens between the transactions.                                       *)
THEOREM TypeCorrect == Spec => []TypeOK
<1>1. Inv => TypeOK
  BY DEF Inv
<1> QED
  BY <1>1, Invariant, PTL

(* A text that a reader is given is never older than the record that it    *)
(* replaces, also when the switch is turned while a page is on its way or  *)
(* is being stored.                                                        *)
THEOREM ReadersForward == Spec => ReadersMoveForward
<1>1. Inv /\ [Next]_vars =>
        [\A d \in Device, a \in Asset :
           ( /\ replica'[d][a] # NoRec /\ replica'[d][a].text = "kept"
             /\ ~Erased(a)' ) => replica'[d][a].rev >= replica[d][a].rev]_vars
  BY ForwardStep DEF Inv
<1> QED
  BY <1>1, Invariant, PTL DEF Spec, ReadersMoveForward

(* A decision about an asset stays in the outbox until the Hub has it, and *)
(* then the Hub keeps it, whatever the faults, if no upload that its       *)
(* client had given up on lands on top of it, and the file is not withheld *)
(* by a new release while the decision is to share it (client.py:717).     *)
THEOREM DecisionsAreOwed == Spec => []DesiredIsOwed
<1> DEFINE Kept == Inv /\ Acknowledged /\ DesiredIsOwed
<1>1. Init => Kept
  BY InvInit
<1>2. Kept /\ [Next]_vars => Kept'
  BY InvStep, AcknowledgedStep, OwedStep DEF Inv
<1>3. Kept => DesiredIsOwed
  OBVIOUS
<1> QED
  BY <1>1, <1>2, <1>3, PTL DEF Spec

(* What lies behind the cursor of a projecting device is in its replica:   *)
(* for any number of devices, and through crashes, purges, policy changes  *)
(* and late uploads, if no upload commits between the Hub's read of an     *)
(* empty page and its read of the last sequence number (hub.py:1156), and  *)
(* the switch is not turned while a pass runs (client.py:963).             *)
THEOREM OnlyTheGapSkips ==
  Spec /\ [][NoneInTheGap]_vars /\ [][SwitchedAtRest]_vars => []CursorNeverSkips
<1> DEFINE Whole == Inv /\ InStep /\ ReadWhole
           Calm  == Next /\ NoneInTheGap /\ SwitchedAtRest
<1>1. Init => Whole
  <2>1. Init => InStep /\ ReadWhole
    BY DEF Init, InStep, InHand, At, ReadWhole, Within, Idle
  <2> QED
    BY <2>1, InvInit
<1>2. Whole /\ [Calm]_vars => Whole'
  <2> SUFFICES ASSUME Whole, [Calm]_vars PROVE Whole'
    OBVIOUS
  <2>1. [Next]_vars /\ NoneInTheGap /\ SwitchedAtRest
    BY DEF vars, hub, NoneInTheGap, SwitchedAtRest
  <2> QED
    BY <2>1, InvStep, InStepStep, ReadWholeStep DEF Inv
<1>3. Whole => CursorNeverSkips
  <2> SUFFICES ASSUME Whole, NEW d \in Device, NEW i \in DOMAIN log,
                      mode[d] = "projection", i <= cursor[d], store[log[i].asset] = log[i]
               PROVE  replica[d][log[i].asset] = log[i]
    BY DEF CursorNeverSkips
  <2>1. log[i] \in Rec /\ log[i].asset \in Asset
    <3>1. HubType
      BY TypeParts DEF Inv
    <3> QED
      BY <3>1, HubFacts, LenProperties DEF HubType
  <2>2. log[i] # NoRec
    BY <2>1 DEF Rec, NoRec
  <2> QED
    BY <2>1, <2>2 DEF Inv, OneText, ReadWhole, Behind
<1> HIDE DEF Whole
<1>4. Whole /\ [][Calm]_vars => []Whole
  BY <1>2, PTL
<1>5. [][Next]_vars /\ [][NoneInTheGap]_vars /\ [][SwitchedAtRest]_vars => [][Calm]_vars
  BY PTL
<1> QED
  BY <1>1, <1>3, <1>4, <1>5, PTL DEF Spec

(* A device that shares with itself only skips nothing: its pass uploads   *)
(* before it reads, and nobody else can use the gap but an upload that it  *)
(* gave up on.                                                             *)
THEOREM LoneReaderSkipsNothing ==
  ASSUME \A d, e \in Device : d = e, "late" \notin Faults
  PROVE  Spec /\ [][SwitchedAtRest]_vars => []CursorNeverSkips
<1> DEFINE Alone == Inv /\ late = {}
<1>1. Init => Alone
  BY InvInit
<1>2. Alone /\ [Next]_vars => Alone'
  BY InvStep, NeverLate
<1>3. Alone /\ [Next]_vars => NoneInTheGap
  <2> SUFFICES ASSUME Alone, [Next]_vars, NEW d \in Device, At(d, "ended")
               PROVE  Len(log') = Len(log)
    BY DEF NoneInTheGap
  <2>1. ~(\E e \in Device : Commit(e))
    BY DEF Commit, At
  <2>2. ASSUME NEW a \in Asset, Purge(a) PROVE Len(log') = Len(log)
    BY <2>2, PurgeKeeps, TypeParts DEF Inv
  <2> QED
    BY <2>1, <2>2, HubSteps DEF Inv
<1> HIDE DEF Alone
<1> QED
  BY <1>1, <1>2, <1>3, OnlyTheGapSkips, PTL DEF Spec
=============================================================================
