---------------------- MODULE LifecycleReviewProofs ----------------------
(***************************************************************************)
(* Theorems about LifecycleReview, for any items, operators and bounds.    *)
(***************************************************************************)
EXTENDS LifecycleReviewProperties, TLAPS

Mine(p) == Begin(p) \/ Supersession(p) \/ Archiving(p) \/ Keeping(p) \/ Crash(p)

PairSteps == {"check", "prepare", "mark", "link", "record", "sync", "undo", "undo more",
              "settle", "note"}
MadeSteps == {"mark", "link", "record", "sync", "undo", "undo more", "settle"}
FileSteps == {"copy", "fill", "verify", "unlink"}

Alone == \A p, q \in Operator : Inside(p) /\ Inside(q) => p = q

(* What an operation in hand holds at each of its steps; its files are there. *)
Shape(p) ==
  /\ job[p].kind = "supersede" => job[p].at \in PairSteps
  /\ job[p].at \in PairSteps =>
       /\ job[p].kind \in {"supersede", "revert-supersession"}
       /\ job[p].o \in Item /\ job[p].r \in Item /\ job[p].o # job[p].r
       /\ job[p].oldO \in Content /\ job[p].oldR \in Content
       /\ Present(job[p].o) /\ Present(job[p].r)
  /\ job[p].at \in MadeSteps => job[p].newO \in Content /\ job[p].newR \in Content
  /\ job[p].at \in FileSteps =>
       job[p].o \in Item /\ job[p].oldO \in Content /\ Present(job[p].o)
  /\ At(p, "keep") =>
       /\ job[p].o \in Item /\ job[p].oldO \in Content /\ job[p].newO \in Content
       /\ Present(job[p].o)
  /\ At(p, "queued") => job[p].o \in Item
Shapes == \A p \in Operator : Shape(p)
Typed == TypeOK /\ Alone /\ Shapes

-----------------------------------------------------------------------------
(* Types.                                                                   *)


\* a file written by one of the operations is a file
LEMMA MadeContent ==
  ASSUME NEW c \in Content, NEW kind, NEW i \in Item
  PROVE  /\ Marked(kind, i, c) \in Content /\ Related(kind, i, c) \in Content
         /\ Observed(c) \in Content
         /\ [c EXCEPT !.body = @ + 1] \in Content
         /\ [c EXCEPT !.refs = @ \cup {i}] \in Content /\ [c EXCEPT !.sup = i] \in Content
BY DEF Marked, Related, Observed, Content

LEMMA IdleIsJob == Idle \in Jobs
BY DEF Idle, Jobs, Steps, Known

\* the ledger stays a ledger
LEMMA LedgerType ==
  ASSUME TypeOK, NEW m \in [Pair -> {"none", "linked", "kept", "other"}], NEW d \in SUBSET Item,
         UNCHANGED ledger \/ Append(m, d) \/ Tear \/ Unappended(m, d)
  PROVE  /\ latest' \in [Pair -> {"none", "linked", "kept", "other"}]
         /\ deferred' \subseteq Item /\ torn' \in {"no", "half", "bad"}
<1>1. Append(m, d) => latest' \in {latest, m} /\ deferred' \in {deferred, d}
                       /\ torn' \in {"no", "half", "bad"}
  BY DEF Append, TypeOK
<1>2. Tear => /\ latest' = [x \in Pair |-> "none"] /\ deferred' = deferred /\ torn' = "half"
  BY DEF Tear
<1>3. UNCHANGED ledger \/ Append(m, d) \/ Tear
  BY DEF Unappended
<1> QED
  BY <1>1, <1>2, <1>3 DEF TypeOK, ledger

\* an operation in hand that is given other fields of the right types
LEMMA JobType ==
  ASSUME TypeOK, NEW p \in Operator, NEW j \in Jobs, job' = [job EXCEPT ![p] = j]
  PROVE  job' \in [Operator -> Jobs]
BY DEF TypeOK

DiskType ==
  item' \in [Item -> Known] /\ archived' \in [Item -> Known \cup {Half}] /\ stale' \subseteq Item
LedgerTyped ==
  /\ latest' \in [Pair -> {"none", "linked", "kept", "other"}]
  /\ deferred' \subseteq Item /\ torn' \in {"no", "half", "bad"}
CountersType ==
  horizon' \in [Item -> Nat] /\ ops' \in Nat /\ writes' \in Nat /\ faults' \in Nat

LEMMA PutType ==
  ASSUME TypeOK, NEW i \in Item, NEW c \in Known, Put(i, c)
  PROVE  item' \in [Item -> Known] /\ stale' \subseteq Item
BY DEF TypeOK, Put

LEMMA Counting ==
  ASSUME TypeOK, NoFault \/ \E f \in Faults : FaultOnly(f)
  PROVE  CountersType
BY DEF TypeOK, NoFault, FaultOnly, Fault, CountersType

\* job' in the shape that the actions give it
LEMMA JobKept ==
  ASSUME TypeOK, NEW p \in Operator, NEW s \in Steps,
         NEW w \in {"none", "concurrent", "markdown", "ledger", "rollback"}, NEW S \in SUBSET Item
  PROVE  /\ [job[p] EXCEPT !.at = s] \in Jobs
         /\ [job[p] EXCEPT !.at = s, !.why = w] \in Jobs
         /\ [job[p] EXCEPT !.at = s, !.touched = S] \in Jobs
         /\ [job[p] EXCEPT !.touched = S] \in Jobs
BY DEF TypeOK, Jobs

\* the files of a pair at hand
LEMMA PairFiles ==
  ASSUME Typed, NEW p \in Operator, job[p].at \in PairSteps
  PROVE  /\ job[p].o \in Item /\ job[p].r \in Item /\ job[p].o # job[p].r
         /\ item[job[p].o] \in Content /\ item[job[p].r] \in Content
         /\ job[p].oldO \in Content /\ job[p].oldR \in Content
         /\ job[p] \in Jobs
BY DEF Typed, TypeOK, Shapes, Shape, Known, Present

LEMMA SupersessionJob ==
  ASSUME Typed, NEW p \in Operator, Supersession(p)
  PROVE  job' \in [Operator -> Jobs] /\ \A q \in Operator \ {p} : job'[q] = job[q]
<1> USE DEF Typed
<1>1. CASE Check(p)
  <2>1. job' = [job EXCEPT ![p] = [job[p] EXCEPT !.at = "prepare", !.why = "none"]]
        \/ job' = [job EXCEPT ![p] = [job[p] EXCEPT !.at = "note", !.why = "concurrent"]]
    BY <1>1 DEF Check, TypeOK, Jobs
  <2>2. [job[p] EXCEPT !.at = "prepare", !.why = "none"] \in Jobs
        /\ [job[p] EXCEPT !.at = "note", !.why = "concurrent"] \in Jobs
    BY JobKept DEF Steps
  <2> QED BY <2>1, <2>2 DEF TypeOK
<1>2. CASE CheckFails(p) \/ Sync(p) \/ Note(p)
  BY <1>2, IdleIsJob DEF CheckFails, Sync, Note, End, TypeOK
<1>3. CASE Prepare(p)
  <2>1. At(p, "prepare")
    BY <1>3 DEF Prepare
  <2>2. /\ Marked(job[p].kind, job[p].r, item[job[p].o]) \in Content
        /\ Related(job[p].kind, job[p].o, item[job[p].r]) \in Content
    BY <2>1, PairFiles, MadeContent DEF At, PairSteps
  <2>3. \E c, d \in Content :
          job' = [job EXCEPT ![p] = [job[p] EXCEPT !.at = "mark", !.newO = c, !.newR = d]]
    <3>1. job[p].oldR \in Content
      BY <2>1, PairFiles DEF At, PairSteps
    <3>2. CASE job[p].pre
      BY <1>3, <2>2, <3>1, <3>2 DEF Prepare, TypeOK, Jobs
    <3>3. CASE ~job[p].pre
      BY <1>3, <2>2, <3>1, <3>3 DEF Prepare, TypeOK, Jobs
    <3> QED BY <3>2, <3>3
  <2>4. \A c, d \in Content : [job[p] EXCEPT !.at = "mark", !.newO = c, !.newR = d] \in Jobs
    <3>1. job[p] \in Jobs /\ Content \subseteq Known /\ "mark" \in Steps
      BY DEF TypeOK, Steps, Known
    <3> QED BY <3>1 DEF Jobs
  <2>5. \E x \in Jobs : job' = [job EXCEPT ![p] = x]
    BY <2>3, <2>4
  <2> QED BY <2>5 DEF TypeOK
<1>4. CASE Mark(p) \/ MarkFails(p) \/ Link(p) \/ LinkFails(p) \/ Record(p) \/ RecordFails(p)
           \/ Undo(p) \/ UndoMore(p) \/ Settle(p)
  <2>1. \/ \E s \in {"link", "record", "sync", "undo more", "settle", "note"} : Go(p, s)
        \/ Undone(p, "markdown") \/ Undone(p, "ledger") \/ GiveUp(p)
    BY <1>4 DEF Mark, MarkFails, Link, LinkFails, Record, RecordFails, Undo, UndoMore, Settle
  <2>2. CASE \E s \in {"link", "record", "sync", "undo more", "settle", "note"} : Go(p, s)
    <3>1. PICK s \in {"link", "record", "sync", "undo more", "settle", "note"} : Go(p, s)
      BY <2>2
    <3>2. s \in Steps
      BY DEF Steps
    <3>3. [job[p] EXCEPT !.at = s] \in Jobs
      BY <3>2, JobKept
    <3> QED BY <3>1, <3>3 DEF Go, TypeOK
  <2>3. ASSUME NEW s \in {"undo", "note"}, NEW w \in {"markdown", "ledger", "rollback"},
               job' = [job EXCEPT ![p].at = s, ![p].why = w]
        PROVE  job' \in [Operator -> Jobs] /\ \A q \in Operator \ {p} : job'[q] = job[q]
    <3>1. job' = [job EXCEPT ![p] = [job[p] EXCEPT !.at = s, !.why = w]]
      BY <2>3 DEF TypeOK, Jobs
    <3>2. [job[p] EXCEPT !.at = s, !.why = w] \in Jobs
      BY JobKept DEF Steps
    <3> QED BY <3>1, <3>2 DEF TypeOK
  <2> QED BY <2>1, <2>2, <2>3 DEF Undone, GiveUp
<1> QED
  BY <1>1, <1>2, <1>3, <1>4 DEF Supersession

LEMMA SupersessionType ==
  ASSUME Typed, NEW p \in Operator, Supersession(p)
  PROVE  TypeOK'
<1> USE DEF Typed
<1>0. job' \in [Operator -> Jobs]
  BY SupersessionJob
<1>p. job[p].at \in PairSteps
  BY DEF Supersession, Check, CheckFails, Prepare, Mark, MarkFails, Link, LinkFails, Record,
    RecordFails, Undo, UndoMore, Settle, Sync, Note, At, PairSteps
<1>q. /\ Marked(job[p].kind, job[p].r, item[job[p].o]) \in Content
      /\ Related(job[p].kind, job[p].o, item[job[p].r]) \in Content
  BY <1>p, PairFiles, MadeContent
<1>1. CountersType
  <2>1. NoFault \/ \E f \in {"io", "ledger", "index"} : FaultOnly(f)
    BY DEF Supersession, Check, CheckFails, Prepare, Mark, MarkFails, Link, LinkFails, Record,
      RecordFails, Undo, UndoMore, Settle, Sync, Note
  <2> QED BY <2>1 DEF TypeOK, NoFault, FaultOnly, Fault, CountersType
<1>2. DiskType
  <2>2. /\ job[p].o \in Item /\ job[p].r \in Item
        /\ job[p].oldO \in Known /\ job[p].oldR \in Known
        /\ item[job[p].o] \in Known /\ item[job[p].r] \in Known
    BY <1>p, PairFiles DEF Known, TypeOK
  <2>1. \/ UNCHANGED <<item, archived, stale>>
        \/ UNCHANGED archived /\ \E i \in {job[p].o, job[p].r}, c \in Content : Put(i, c)
        \/ UNCHANGED <<item, archived>> /\ stale' = stale \ {job[p].r, job[p].o}
        \/ /\ \E c, d \in Known : item' = [item EXCEPT ![job[p].o] = c, ![job[p].r] = d]
           /\ stale' = stale \cup {job[p].o, job[p].r} /\ UNCHANGED archived
    <3>1. CASE Check(p) \/ CheckFails(p) \/ Prepare(p) \/ Record(p) \/ RecordFails(p) \/ Note(p)
      BY <3>1 DEF Check, CheckFails, Prepare, Record, RecordFails, Note, disk
    <3>2. CASE Mark(p) \/ MarkFails(p)
      BY <3>2, <1>q DEF Mark, MarkFails, WriteMark
    <3>3. CASE Link(p) \/ LinkFails(p)
      BY <3>3, <1>q DEF Link, LinkFails
    <3>4. CASE Sync(p)
      BY <3>4 DEF Sync
    <3>5. CASE Undo(p) \/ UndoMore(p)
      BY <3>5, <1>p, PairFiles DEF Undo, UndoMore
    <3>6. CASE Settle(p)
      BY <3>6, <2>2 DEF Settle
    <3> QED
      BY <3>1, <3>2, <3>3, <3>4, <3>5, <3>6 DEF Supersession
  <2>3. CASE \E i \in {job[p].o, job[p].r}, c \in Content : Put(i, c) /\ UNCHANGED archived
    BY <2>2, <2>3, PutType DEF DiskType, Known, TypeOK
  <2> QED
    BY <2>1, <2>2, <2>3 DEF DiskType, TypeOK
<1>3. LedgerTyped
  <2>1. Outcome(p) \in {"linked", "kept", "other"} /\ <<job[p].r, job[p].o>> \in Pair
    BY <1>p, PairFiles DEF Outcome, Pair
  <2>2. /\ [latest EXCEPT ![<<job[p].r, job[p].o>>] = Outcome(p)]
             \in [Pair -> {"none", "linked", "kept", "other"}]
        /\ [latest EXCEPT ![<<job[p].r, job[p].o>>] = "other"]
             \in [Pair -> {"none", "linked", "kept", "other"}]
        /\ deferred \in SUBSET Item /\ deferred \ {job[p].o} \in SUBSET Item
    BY <2>1 DEF TypeOK
  <2>3. CASE Record(p) \/ RecordFails(p)
    BY <2>2, <2>3, LedgerType DEF Record, RecordFails, AppendOutcome, LedgerTyped
  <2>4. CASE Note(p)
    BY <2>2, <2>4, LedgerType DEF Note, LedgerTyped
  <2>5. CASE ~(Record(p) \/ RecordFails(p) \/ Note(p))
    <3>1. UNCHANGED ledger
      BY <2>5 DEF Supersession, Check, CheckFails, Prepare, Mark, MarkFails, Link, LinkFails,
        Undo, UndoMore, Settle, Sync
    <3> QED BY <3>1 DEF ledger, TypeOK, LedgerTyped
  <2> QED BY <2>3, <2>4, <2>5
<1> QED
  BY <1>0, <1>1, <1>2, <1>3 DEF TypeOK, CountersType, DiskType, LedgerTyped

LEMMA BeginType ==
  ASSUME Typed, NEW p \in Operator, Begin(p)
  PROVE  TypeOK' /\ \A q \in Operator \ {p} : job'[q] = job[q]
<1> USE DEF Typed
<1>1. ASSUME NEW kind \in {"supersede", "revert-supersession"}, NEW r \in Item, NEW o \in Item,
             Start(p, kind, r, o)
      PROVE  TypeOK' /\ \A q \in Operator \ {p} : job'[q] = job[q]
  <2>1. kind \in Kinds /\ item[r] \in Known /\ item[o] \in Known /\ Preexisted(kind, r, o) \in BOOLEAN
    <3>1. kind \in Kinds /\ item[r] \in Known /\ item[o] \in Known
      BY <1>1 DEF Start, TypeOK
    <3>2. Preexisted(kind, r, o) = TRUE \/ Preexisted(kind, r, o) = FALSE
      BY DEF Preexisted
    <3> QED BY <3>1, <3>2
  <2>2. [Idle EXCEPT !.at = "check", !.kind = kind, !.o = o, !.r = r,
           !.oldO = item[o], !.oldR = item[r], !.pre = Preexisted(kind, r, o)] \in Jobs
    BY <2>1 DEF Idle, Jobs, Steps, Known
  <2>3. job' \in [Operator -> Jobs] /\ \A q \in Operator \ {p} : job'[q] = job[q]
    BY <1>1, <2>2 DEF Start, TypeOK
  <2> QED BY <1>1, <2>3 DEF Start, TypeOK, disk, ledger
<1>2. ASSUME NEW r \in Item, NEW o \in Item, StartAgain(p, r, o)
      PROVE  TypeOK' /\ \A q \in Operator \ {p} : job'[q] = job[q]
  BY <1>2 DEF StartAgain, TypeOK, NoFault, ledger
<1>3. ASSUME NEW i \in Item, Plan(p, i)
      PROVE  TypeOK' /\ \A q \in Operator \ {p} : job'[q] = job[q]
  <2>1. [Idle EXCEPT !.at = "queued", !.kind = "archive", !.o = i] \in Jobs
    BY <1>3 DEF Plan, Idle, Jobs, Steps, Known
  <2>2. job' \in [Operator -> Jobs] /\ \A q \in Operator \ {p} : job'[q] = job[q]
    BY <1>3, <2>1 DEF Plan, TypeOK
  <2> QED BY <1>3, <2>2 DEF Plan, TypeOK, disk, ledger
<1>4. ASSUME NEW i \in Item, KeepActive(p, i)
      PROVE  TypeOK' /\ \A q \in Operator \ {p} : job'[q] = job[q]
  <2>1. item[i] \in Content /\ Observed(item[i]) \in Content /\ "keep-active" \in Kinds
    BY <1>4, MadeContent DEF KeepActive, TypeOK, Present, Known
  <2>2. [Idle EXCEPT !.at = "keep", !.kind = "keep-active", !.o = i,
                     !.oldO = item[i], !.newO = Observed(item[i])] \in Jobs
    BY <2>1 DEF Idle, Jobs, Steps, Known
  <2>3. job' \in [Operator -> Jobs] /\ \A q \in Operator \ {p} : job'[q] = job[q]
    BY <1>4, <2>2 DEF KeepActive, TypeOK
  <2>4. item' \in [Item -> Known] /\ stale' \subseteq Item
    BY <1>4, <2>1, PutType DEF KeepActive, Known
  <2> QED BY <1>4, <2>3, <2>4 DEF KeepActive, TypeOK, ledger, Fault
<1>5. ASSUME NEW i \in Item, Defer(p, i)
      PROVE  TypeOK' /\ \A q \in Operator \ {p} : job'[q] = job[q]
  <2>1. LedgerTyped
    BY <1>5, LedgerType DEF Defer, TypeOK, LedgerTyped
  <2> QED BY <1>5, <2>1 DEF Defer, TypeOK, LedgerTyped, disk, Fault
<1> QED BY <1>1, <1>2, <1>3, <1>4, <1>5 DEF Begin

LEMMA ArchivingType ==
  ASSUME Typed, NEW p \in Operator, Archiving(p)
  PROVE  TypeOK' /\ \A q \in Operator \ {p} : job'[q] = job[q]
<1> USE DEF Typed
<1>0. job[p].o \in Item /\ job[p] \in Jobs
  <2>1. job[p].at \in FileSteps \cup {"queued"}
    BY DEF Archiving, Open, Copy, Fill, CopyFails, Verify, Unlink, UnlinkFails, At, FileSteps
  <2> QED BY <2>1 DEF Shapes, Shape, TypeOK, At
<1>1. job' \in [Operator -> Jobs] /\ \A q \in Operator \ {p} : job'[q] = job[q]
  <2>1. ASSUME End(p) PROVE job' \in [Operator -> Jobs] /\ \A q \in Operator \ {p} : job'[q] = job[q]
    BY <2>1, IdleIsJob DEF End, TypeOK
  <2>2. ASSUME NEW s \in {"fill", "verify"}, Go(p, s)
        PROVE  job' \in [Operator -> Jobs] /\ \A q \in Operator \ {p} : job'[q] = job[q]
    <3>1. [job[p] EXCEPT !.at = s] \in Jobs
      BY JobKept DEF Steps
    <3> QED BY <2>2, <3>1 DEF Go, TypeOK
  <2>3. CASE Verify(p) /\ ~End(p)
    <3>1. job' = [job EXCEPT ![p] = [job[p] EXCEPT !.at = "unlink", !.touched = {}]]
      BY <2>3 DEF Verify, TypeOK, Jobs
    <3>2. [job[p] EXCEPT !.at = "unlink", !.touched = {}] \in Jobs
      BY JobKept DEF Steps
    <3>3. \E x \in Jobs : job' = [job EXCEPT ![p] = x]
      BY <3>1, <3>2
    <3> QED BY <3>3 DEF TypeOK
  <2>4. CASE Open(p) /\ ~End(p)
    <3>1. \E s \in {"copy", "verify"}, b \in BOOLEAN :
            job' = [job EXCEPT ![p].at = s, ![p].oldO = item[job[p].o], ![p].pre = b]
      BY <2>4 DEF Open
    <3>2. PICK s \in {"copy", "verify"}, b \in BOOLEAN :
            job' = [job EXCEPT ![p].at = s, ![p].oldO = item[job[p].o], ![p].pre = b]
      BY <3>1
    <3>3. job' = [job EXCEPT ![p] = [job[p] EXCEPT !.at = s, !.oldO = item[job[p].o], !.pre = b]]
      BY <3>2 DEF TypeOK, Jobs
    <3>4. [job[p] EXCEPT !.at = s, !.oldO = item[job[p].o], !.pre = b] \in Jobs
      <4>1. item[job[p].o] \in Known /\ s \in Steps
        BY <1>0 DEF TypeOK, Steps
      <4> QED BY <1>0, <4>1 DEF Jobs
    <3>5. \E x \in Jobs : job' = [job EXCEPT ![p] = x]
      BY <3>3, <3>4
    <3> QED BY <3>5 DEF TypeOK
  <2> QED
    BY <2>1, <2>2, <2>3, <2>4 DEF Archiving, Copy, Fill, CopyFails, Unlink, UnlinkFails
<1>2. CountersType
  <2>1. NoFault \/ \E f \in {"io", "index"} : FaultOnly(f)
    BY DEF Archiving, Open, Copy, Fill, CopyFails, Verify, Unlink, UnlinkFails
  <2> QED BY <2>1 DEF TypeOK, NoFault, FaultOnly, Fault, CountersType
<1>3. DiskType
  <2>1. job[p].oldO \in Known
    BY <1>0 DEF Jobs
  <2>2. CASE Open(p) \/ Verify(p)
    <3>1. item' = item /\ archived' = archived /\ stale' \in {stale, stale \ {job[p].o}}
      BY <2>2 DEF Open, Verify, disk
    <3> QED BY <3>1 DEF DiskType, TypeOK
  <2>3. CASE Copy(p) \/ Fill(p) \/ CopyFails(p)
    <3>1. /\ item' = item /\ stale' = stale
          /\ \E c \in Known \cup {Half} : archived' \in {archived, [archived EXCEPT ![job[p].o] = c]}
      BY <2>1, <2>3 DEF Copy, Fill, CopyFails, Discard, Known
    <3> QED BY <3>1 DEF DiskType, TypeOK
  <2>4. CASE Unlink(p) \/ UnlinkFails(p)
    <3>1. /\ archived' = archived /\ item' \in {item, [item EXCEPT ![job[p].o] = None]}
          /\ stale' \in {stale, stale \ {job[p].o}, stale \cup {job[p].o}}
      BY <2>4 DEF Unlink, UnlinkFails, Put
    <3> QED BY <1>0, <3>1 DEF DiskType, TypeOK, Known
  <2> QED BY <2>2, <2>3, <2>4 DEF Archiving
<1>4. UNCHANGED ledger
  BY DEF Archiving, Open, Copy, Fill, CopyFails, Verify, Unlink, UnlinkFails
<1> QED
  BY <1>1, <1>2, <1>3, <1>4 DEF TypeOK, CountersType, DiskType, ledger

LEMMA KeepingType ==
  ASSUME Typed, NEW p \in Operator, Keeping(p)
  PROVE  TypeOK' /\ \A q \in Operator \ {p} : job'[q] = job[q]
<1> USE DEF Typed
<1>0. job[p].o \in Item /\ job[p].oldO \in Known
  BY DEF Keeping, KeepRecord, KeepFails, Shapes, Shape, Known
<1>1. job' \in [Operator -> Jobs] /\ \A q \in Operator \ {p} : job'[q] = job[q]
  BY IdleIsJob DEF Keeping, KeepRecord, KeepFails, End, TypeOK
<1>2. CountersType
  BY DEF Keeping, KeepRecord, KeepFails, TypeOK, NoFault, FaultOnly, Fault, CountersType
<1>3. DiskType
  BY <1>0, PutType DEF Keeping, KeepRecord, KeepFails, TypeOK, DiskType
<1>4. LedgerTyped
  <2>1. UNCHANGED ledger \/ Append(latest, deferred \ {job[p].o}) \/ Tear
        \/ Unappended(latest, deferred \ {job[p].o})
    BY DEF Keeping, KeepRecord, KeepFails
  <2>2. latest \in [Pair -> {"none", "linked", "kept", "other"}]
        /\ deferred \ {job[p].o} \in SUBSET Item
    BY DEF TypeOK
  <2> QED BY <2>1, <2>2, LedgerType DEF LedgerTyped
<1> QED BY <1>1, <1>2, <1>3, <1>4 DEF TypeOK, CountersType, DiskType, LedgerTyped

LEMMA CrashType ==
  ASSUME Typed, NEW p \in Operator, Crash(p)
  PROVE  TypeOK' /\ \A q \in Operator \ {p} : job'[q] = job[q]
<1> USE DEF Typed
<1>1. job' \in [Operator -> Jobs] /\ \A q \in Operator \ {p} : job'[q] = job[q]
  BY IdleIsJob DEF Crash, End, TypeOK
<1> QED
  BY <1>1 DEF Crash, TypeOK, FaultOnly, Fault, Tear, disk, ledger

LEMMA OthersType ==
  ASSUME Typed, Others
  PROVE  TypeOK'
<1> USE DEF Typed
<1>1. PICK i \in Item : Expires(i) \/ Ages(i) \/ Delete(i) \/ Edit(i)
                        \/ \E j \in Item : Relate(i, j) \/ Resolve(i, j)
  BY DEF Others
<1>2. CASE Expires(i) \/ Ages(i) \/ Delete(i)
  BY <1>2 DEF Expires, Ages, Delete, TypeOK, NoFault, Writes, disk, ledger, Present, Known, Content
<1>3. ASSUME NEW c \in Content, Writer(i, c) PROVE TypeOK'
  <2>1. item' \in [Item -> Known] /\ stale' \subseteq Item
    BY <1>3, PutType DEF Writer, Known
  <2> QED BY <1>3, <2>1 DEF Writer, Writes, TypeOK, ledger
<1>4. CASE \E j \in Item : Relate(i, j) \/ Resolve(i, j)
  <2>1. item[i] \in Content
    BY <1>4 DEF Relate, Resolve, Writer, Present, TypeOK, Known
  <2> QED BY <1>3, <1>4, <2>1, MadeContent DEF Relate, Resolve
<1>5. CASE Edit(i)
  <2>1. item[i] \in Content
    BY <1>5 DEF Edit, Present, TypeOK, Known
  <2>2. item' \in [Item -> Known] /\ stale' \subseteq Item
    BY <1>5, <2>1, MadeContent, PutType DEF Edit, Known
  <2>3. \A p \in Operator : [job[p] EXCEPT !.touched = @ \cup {i}] \in Jobs
    BY DEF TypeOK, Jobs
  <2>4. job' \in [Operator -> Jobs]
    BY <1>5, <2>3 DEF Edit, TypeOK
  <2> QED BY <1>5, <2>2, <2>4 DEF Edit, Writes, TypeOK, ledger
<1> QED BY <1>1, <1>2, <1>4, <1>5

-----------------------------------------------------------------------------
(* Whose step it is.                                                       *)

(* While q is inside, the other operators only plan, and the rest of the    *)
(* world edits, lets time pass or a deferral expire.                        *)
Quiet(q) ==
  /\ Inside(q) /\ job'[q] = job[q] /\ item' = item /\ archived' = archived /\ faults' = faults

LEMMA NextSteps ==
  ASSUME Typed, [Next]_vars, NEW q \in Operator
  PROVE  \/ Mine(q)
         \/ Quiet(q)
         \/ Inside(q) /\ \E i \in Item : Edit(i)
         \/ ~Inside(q) /\ job'[q] = job[q]
<1> USE DEF Typed
<1>1. CASE UNCHANGED vars
  BY <1>1 DEF vars, disk, ledger, Quiet
<1>2. ASSUME NEW p \in Operator, Mine(p), p # q
      PROVE  Quiet(q) \/ (~Inside(q) /\ job'[q] = job[q])
  <2>1. job'[q] = job[q]
    BY <1>2, BeginType, SupersessionJob, ArchivingType, KeepingType, CrashType DEF Mine
  <2>2. CASE Inside(q)
    <3>1. ~Free
      BY <2>2 DEF Free
    <3>2. ~Inside(p)
      BY <1>2, <2>2 DEF Alone
    <3>3. \E i \in Item : Plan(p, i) \/ StartAgain(p, i, i)
      BY <1>2, <3>1, <3>2 DEF Mine, Begin, Start, StartAgain, KeepActive, Defer, Supersession,
        Check, CheckFails, Prepare, Mark, MarkFails, Link, LinkFails, Record, RecordFails, Undo,
        UndoMore, Settle, Sync, Note, Archiving, Open, Copy, Fill, CopyFails, Verify, Unlink,
        UnlinkFails, Keeping, KeepRecord, KeepFails, Crash, At, Inside
    <3> QED BY <2>1, <2>2, <3>1, <3>3 DEF Quiet, Plan, StartAgain, disk
  <2> QED BY <2>1, <2>2
<1>3. CASE Others
  <2>1. PICK i \in Item : Expires(i) \/ Ages(i) \/ Delete(i) \/ Edit(i)
                          \/ \E j \in Item : Relate(i, j) \/ Resolve(i, j)
    BY <1>3 DEF Others
  <2>2. CASE Edit(i)
    <3>1. ~Inside(q) => job'[q] = job[q]
      BY <2>2 DEF Edit
    <3> QED BY <2>2, <3>1
  <2>3. CASE ~Edit(i)
    <3>1. job' = job
      BY <2>1, <2>3 DEF Expires, Ages, Delete, Relate, Resolve, Writer
    <3>2. Inside(q) => item' = item /\ archived' = archived /\ faults' = faults
      BY <2>1, <2>3 DEF Expires, Ages, Delete, Relate, Resolve, Writer, Free, NoFault, disk
    <3> QED BY <3>1, <3>2 DEF Quiet
  <2> QED BY <2>2, <2>3
<1> QED
  BY <1>1, <1>2, <1>3 DEF Next, Mine

LEMMA TypeStep ==
  ASSUME Typed, [Next]_vars
  PROVE  TypeOK'
<1>1. CASE UNCHANGED vars
  BY <1>1 DEF vars, disk, ledger, Typed, TypeOK
<1> QED
  BY <1>1, BeginType, SupersessionType, ArchivingType, KeepingType, CrashType, OthersType DEF Next

\* one gets inside only when nobody is there
LEMMA Entering ==
  ASSUME Typed, NEW p \in Operator, Mine(p), ~Inside(p), Inside(p)'
  PROVE  Free
<1> USE DEF Typed
<1>1. Begin(p) \/ Open(p)
  BY DEF Mine, Supersession, Check, CheckFails, Prepare, Mark, MarkFails, Link, LinkFails,
    Record, RecordFails, Undo, UndoMore, Settle, Sync, Note, Archiving, Copy, Fill, CopyFails,
    Verify, Unlink, UnlinkFails, Keeping, KeepRecord, KeepFails, Crash, At, Inside
<1>2. ASSUME NEW i \in Item, Plan(p, i) PROVE FALSE
  BY <1>2 DEF Plan, Idle, Inside, TypeOK
<1>3. ASSUME NEW i \in Item, Defer(p, i) PROVE FALSE
  BY <1>3 DEF Defer, Inside
<1> QED
  BY <1>1, <1>2, <1>3 DEF Begin, Start, StartAgain, KeepActive, Open

LEMMA AloneStep ==
  ASSUME Typed, [Next]_vars
  PROVE  Alone'
<1> USE DEF Typed
<1> SUFFICES ASSUME NEW p \in Operator, NEW q \in Operator, Inside(p)', Inside(q)', p # q
             PROVE  FALSE
  BY DEF Alone
<1>1. ASSUME NEW x \in Operator, ~Mine(x), Inside(x)' PROVE Inside(x)
  <2>1. CASE Inside(x) BY <2>1
  <2>2. CASE ~Inside(x) /\ job'[x] = job[x]
    BY <1>1, <2>2 DEF Inside
  <2> QED BY <1>1, <2>1, <2>2, NextSteps DEF Quiet
<1>2. CASE Mine(p) /\ Mine(q)
  <2>1. job'[p] = job[p] /\ job'[q] = job[q]
    BY <1>2, BeginType, SupersessionJob, ArchivingType, KeepingType, CrashType DEF Mine
  <2>2. Inside(p) /\ Inside(q)
    BY <2>1 DEF Inside
  <2> QED BY <2>2 DEF Alone
<1>3. CASE Mine(p) /\ ~Mine(q)
  BY <1>1, <1>3, Entering DEF Alone, Free
<1>4. CASE ~Mine(p) /\ Mine(q)
  BY <1>1, <1>4, Entering DEF Alone, Free
<1>5. CASE ~Mine(p) /\ ~Mine(q)
  BY <1>1, <1>5 DEF Alone
<1> QED BY <1>2, <1>3, <1>4, <1>5

-----------------------------------------------------------------------------
(* What an operation in hand holds.                                        *)

SamePair(p) ==
  /\ job'[p].at \in PairSteps
  /\ job'[p].kind = job[p].kind /\ job'[p].o = job[p].o /\ job'[p].r = job[p].r
  /\ job'[p].oldO = job[p].oldO /\ job'[p].oldR = job[p].oldR
  /\ job'[p].pre = job[p].pre /\ job'[p].touched = job[p].touched

\* a step of a supersession goes on with the same pair, and writes only its files
LEMMA PairStep ==
  ASSUME Typed, NEW p \in Operator, Supersession(p)
  PROVE  /\ job[p].at \in PairSteps
         /\ job'[p] = Idle \/ SamePair(p)
         /\ job'[p] = Idle \/ Prepare(p)
              \/ (job'[p].newO = job[p].newO /\ job'[p].newR = job[p].newR)
         /\ \A x \in Item \ {job[p].o, job[p].r} : item'[x] = item[x]
         /\ item'[job[p].o] \in Content /\ item'[job[p].r] \in Content
         /\ archived' = archived
<1> USE DEF Typed
<1>1. job[p].at \in PairSteps
  BY DEF Supersession, Check, CheckFails, Prepare, Mark, MarkFails, Link, LinkFails, Record,
    RecordFails, Undo, UndoMore, Settle, Sync, Note, At, PairSteps
<1>2. job \in [Operator -> Jobs] /\ item \in [Item -> Known]
  BY DEF TypeOK
<1>3. /\ job[p].o \in Item /\ job[p].r \in Item /\ job[p].o # job[p].r
      /\ item[job[p].o] \in Content /\ item[job[p].r] \in Content
      /\ job[p].oldO \in Content /\ job[p].oldR \in Content
  BY <1>1, PairFiles
<1>4. /\ Marked(job[p].kind, job[p].r, item[job[p].o]) \in Content
      /\ Related(job[p].kind, job[p].o, item[job[p].r]) \in Content
  BY <1>3, MadeContent
<1>5. /\ job'[p] = Idle \/ SamePair(p)
      /\ job'[p] = Idle \/ Prepare(p)
           \/ (job'[p].newO = job[p].newO /\ job'[p].newR = job[p].newR)
  <2>1. CASE CheckFails(p) \/ Sync(p) \/ Note(p)
    BY <1>2, <2>1 DEF CheckFails, Sync, Note, End
  <2>2. CASE Check(p) \/ Mark(p) \/ MarkFails(p) \/ Link(p) \/ LinkFails(p) \/ Record(p)
             \/ RecordFails(p) \/ Undo(p) \/ UndoMore(p) \/ Settle(p)
    <3>1. \/ \E s \in {"link", "record", "sync", "undo more", "settle", "note"} :
               job' = [job EXCEPT ![p].at = s]
          \/ \E s \in {"prepare", "note", "undo"}, w \in {"none", "concurrent", "markdown", "ledger", "rollback"} :
               job' = [job EXCEPT ![p].at = s, ![p].why = w]
      BY <2>2 DEF Check, Mark, MarkFails, Link, LinkFails, Record, RecordFails, Undo, UndoMore,
        Settle, Go, Undone, GiveUp
    <3>2. ASSUME NEW s \in {"link", "record", "sync", "undo more", "settle", "note"},
                 job' = [job EXCEPT ![p].at = s]
          PROVE  SamePair(p) /\ job'[p].newO = job[p].newO /\ job'[p].newR = job[p].newR
      BY <1>2, <3>2 DEF SamePair, PairSteps, Jobs
    <3>3. ASSUME NEW s \in {"prepare", "note", "undo"},
                 NEW w \in {"none", "concurrent", "markdown", "ledger", "rollback"},
                 job' = [job EXCEPT ![p].at = s, ![p].why = w]
          PROVE  SamePair(p) /\ job'[p].newO = job[p].newO /\ job'[p].newR = job[p].newR
      <4>1. job' = [job EXCEPT ![p] = [job[p] EXCEPT !.at = s, !.why = w]]
        BY <1>2, <3>3 DEF Jobs
      <4>2. job'[p] = [job[p] EXCEPT !.at = s, !.why = w]
        BY <1>2, <4>1
      <4>3. job[p] \in Jobs
        BY <1>2
      <4> QED BY <4>2, <4>3 DEF SamePair, PairSteps, Jobs
    <3> QED BY <3>1, <3>2, <3>3
  <2>3. CASE Prepare(p)
    BY <1>2, <2>3 DEF Prepare, SamePair, PairSteps, Jobs
  <2> QED BY <2>1, <2>2, <2>3 DEF Supersession
<1>6. \/ item' = item
      \/ \E i \in {job[p].o, job[p].r}, c \in Content : item' = [item EXCEPT ![i] = c]
      \/ \E c, d \in Content : item' = [item EXCEPT ![job[p].o] = c, ![job[p].r] = d]
  <2>1. CASE Check(p) \/ CheckFails(p) \/ Prepare(p) \/ Record(p) \/ RecordFails(p) \/ Note(p)
             \/ Sync(p)
    BY <2>1 DEF Check, CheckFails, Prepare, Record, RecordFails, Note, Sync, disk
  <2>2. CASE Mark(p) \/ MarkFails(p)
    BY <2>2, <1>4 DEF Mark, MarkFails, WriteMark, Put
  <2>3. CASE Link(p) \/ LinkFails(p)
    BY <2>3, <1>4 DEF Link, LinkFails, Put
  <2>4. CASE Undo(p) \/ UndoMore(p)
    BY <2>4, <1>3 DEF Undo, UndoMore, Put
  <2>5. CASE Settle(p)
    BY <2>5, <1>3 DEF Settle
  <2> QED BY <2>1, <2>2, <2>3, <2>4, <2>5 DEF Supersession
<1>7. archived' = archived
  BY DEF Supersession, Check, CheckFails, Prepare, Mark, MarkFails, Link, LinkFails, Record,
    RecordFails, Undo, UndoMore, Settle, Sync, Note, disk
<1> QED BY <1>1, <1>2, <1>3, <1>5, <1>6, <1>7

LEMMA IdleShape ==
  ASSUME NEW p \in Operator, job'[p] = Idle
  PROVE  Shape(p)'
BY DEF Idle, Shape, PairSteps, MadeSteps, FileSteps, At

LEMMA SupersessionShape ==
  ASSUME Typed, NEW p \in Operator, Supersession(p)
  PROVE  Shape(p)'
<1>1. CASE job'[p] = Idle
  BY <1>1, IdleShape
<1>2. CASE SamePair(p)
  <2>1. /\ job[p].o \in Item /\ job[p].r \in Item /\ job[p].o # job[p].r
        /\ item[job[p].o] \in Content /\ item[job[p].r] \in Content
        /\ job[p].oldO \in Content /\ job[p].oldR \in Content
    BY PairFiles, PairStep
  <2>2. job[p].kind \in {"supersede", "revert-supersession"}
    BY PairStep DEF Typed, Shapes, Shape
  <2>3. Present(job[p].o)' /\ Present(job[p].r)'
    BY <1>2, PairStep, ItemsAssumption DEF SamePair, Present
  <2>4. job'[p].at \in MadeSteps => job'[p].newO \in Content /\ job'[p].newR \in Content
    <3>1. CASE Prepare(p)
      <4>1. /\ Marked(job[p].kind, job[p].r, item[job[p].o]) \in Content
            /\ Related(job[p].kind, job[p].o, item[job[p].r]) \in Content
        BY <2>1, MadeContent
      <4>2. CASE job[p].pre
        BY <2>1, <3>1, <4>1, <4>2 DEF Prepare, Typed, TypeOK, Jobs
      <4>3. CASE ~job[p].pre
        BY <3>1, <4>1, <4>3 DEF Prepare, Typed, TypeOK, Jobs
      <4> QED BY <4>2, <4>3
    <3>2. CASE Check(p)
      <4>1. \E s \in {"prepare", "note"}, w \in {"none", "concurrent"} :
              job' = [job EXCEPT ![p].at = s, ![p].why = w]
        BY <3>2 DEF Check
      <4>2. job'[p].at \in {"prepare", "note"}
        <5>1. PICK s \in {"prepare", "note"}, w \in {"none", "concurrent"} :
                job' = [job EXCEPT ![p].at = s, ![p].why = w]
          BY <4>1
        <5>2. job' = [job EXCEPT ![p] = [job[p] EXCEPT !.at = s, !.why = w]]
          BY <5>1 DEF Typed, TypeOK, Jobs
        <5>3. job'[p] = [job[p] EXCEPT !.at = s, !.why = w] /\ job[p] \in Jobs
          BY <5>2 DEF Typed, TypeOK
        <5> QED BY <5>3 DEF Jobs
      <4> QED BY <4>2 DEF MadeSteps
    <3>3. CASE Note(p) \/ CheckFails(p)
      <4>1. job'[p] = Idle
        BY <3>3 DEF Note, CheckFails, End, Typed, TypeOK
      <4>2. Idle.at = "idle"
        BY DEF Idle
      <4> QED BY <4>1, <4>2 DEF MadeSteps
    <3>4. CASE ~Prepare(p) /\ ~Check(p) /\ ~Note(p) /\ ~CheckFails(p)
      <4>1. job[p].at \in MadeSteps
        BY <3>4 DEF Supersession, Mark, MarkFails, Link, LinkFails, Record, RecordFails, Undo,
          UndoMore, Settle, Sync, At, MadeSteps
      <4>2. job[p].newO \in Content /\ job[p].newR \in Content
        BY <4>1 DEF Typed, Shapes, Shape
      <4>3. job'[p].at \in MadeSteps => job'[p] # Idle
        <5>1. Idle.at = "idle"
          BY DEF Idle
        <5> QED BY <5>1 DEF MadeSteps
      <4> QED BY <3>4, <4>2, <4>3, PairStep
    <3> QED BY <3>1, <3>2, <3>3, <3>4
  <2>5. job'[p].at \notin FileSteps /\ job'[p].at # "keep" /\ job'[p].at # "queued"
    BY <1>2 DEF SamePair, PairSteps, FileSteps
  <2> QED
    BY <1>2, <2>1, <2>2, <2>3, <2>4, <2>5 DEF Shape, SamePair, At
<1> QED BY <1>1, <1>2, PairStep

LEMMA BeginShape ==
  ASSUME Typed, NEW p \in Operator, Begin(p)
  PROVE  Shape(p)'
<1> USE DEF Typed
<1>0. job \in [Operator -> Jobs] /\ item \in [Item -> Known]
  BY DEF TypeOK
<1>1. ASSUME NEW kind \in {"supersede", "revert-supersession"}, NEW r \in Item, NEW o \in Item,
             Start(p, kind, r, o)
      PROVE  Shape(p)'
  <2>1. r # o /\ Present(r) /\ Present(o)
    BY <1>1 DEF Start, Ready, Valid
  <2>2. /\ job'[p].at = "check" /\ job'[p].kind = kind /\ job'[p].o = o /\ job'[p].r = r
        /\ job'[p].oldO = item[o] /\ job'[p].oldR = item[r]
    BY <1>0, <1>1 DEF Start, Idle
  <2>3. item' = item
    BY <1>1 DEF Start, disk
  <2> QED
    BY <1>0, <2>1, <2>2, <2>3 DEF Shape, PairSteps, MadeSteps, FileSteps, At, Present, Known
<1>2. ASSUME NEW i \in Item, Plan(p, i) PROVE Shape(p)'
  <2>1. job'[p].at = "queued" /\ job'[p].kind = "archive" /\ job'[p].o = i
    BY <1>0, <1>2 DEF Plan, Idle
  <2> QED BY <2>1 DEF Shape, PairSteps, MadeSteps, FileSteps, At
<1>3. ASSUME job' = job, At(p, "idle") PROVE Shape(p)'
  BY <1>3 DEF Shape, Shapes, PairSteps, MadeSteps, FileSteps, At
<1>4. ASSUME NEW i \in Item, KeepActive(p, i) PROVE Shape(p)'
  <2>1. CASE job' = job
    BY <1>3, <1>4, <2>1 DEF KeepActive
  <2>2. CASE job' # job
    <3>1. item[i] \in Content /\ Observed(item[i]) \in Content
      BY <1>0, <1>4, MadeContent DEF KeepActive, Present, Known
    <3>2. /\ job'[p].at = "keep" /\ job'[p].kind = "keep-active" /\ job'[p].o = i
          /\ job'[p].oldO = item[i] /\ job'[p].newO = Observed(item[i])
      <4>1. job' = [job EXCEPT ![p] = [Idle EXCEPT !.at = "keep", !.kind = "keep-active",
                        !.o = i, !.oldO = item[i], !.newO = Observed(item[i])]]
        BY <1>4, <2>2 DEF KeepActive
      <4>2. job'[p] = [Idle EXCEPT !.at = "keep", !.kind = "keep-active", !.o = i,
                                   !.oldO = item[i], !.newO = Observed(item[i])]
        BY <1>0, <4>1
      <4> QED BY <4>2 DEF Idle
    <3>3. item'[i] = Observed(item[i])
      BY <1>0, <1>4 DEF KeepActive, Put
    <3>4. Present(i)'
      BY <3>1, <3>3, ItemsAssumption DEF Present
    <3> QED BY <3>1, <3>2, <3>4 DEF Shape, PairSteps, MadeSteps, FileSteps, At
  <2> QED BY <2>1, <2>2
<1>5. ASSUME NEW i \in Item, Defer(p, i) PROVE Shape(p)'
  BY <1>3, <1>5 DEF Defer
<1>6. ASSUME NEW r \in Item, NEW o \in Item, StartAgain(p, r, o) PROVE Shape(p)'
  BY <1>3, <1>6 DEF StartAgain
<1> QED BY <1>1, <1>2, <1>4, <1>5, <1>6 DEF Begin

LEMMA OtherShape ==
  ASSUME Typed, NEW p \in Operator, Archiving(p) \/ Keeping(p) \/ Crash(p)
  PROVE  Shape(p)'
<1> USE DEF Typed
<1>0. job \in [Operator -> Jobs] /\ item \in [Item -> Known]
  BY DEF TypeOK
<1>1. CASE End(p)
  <2>1. job'[p] = Idle
    BY <1>0, <1>1 DEF End
  <2> QED BY <2>1, IdleShape
<1>2. CASE Open(p) /\ ~End(p)
  <2>1. PICK s \in {"copy", "verify"}, b \in BOOLEAN :
          job' = [job EXCEPT ![p].at = s, ![p].oldO = item[job[p].o], ![p].pre = b]
    BY <1>2 DEF Open
  <2>2. /\ job'[p].at = s /\ job'[p].o = job[p].o /\ job'[p].oldO = item[job[p].o]
        /\ job'[p].kind = job[p].kind
    BY <1>0, <2>1 DEF Jobs
  <2>3. /\ Present(job[p].o) /\ item' = item /\ job[p].o \in Item
        /\ job[p].kind # "supersede"
    BY <1>2 DEF Open, Shapes, Shape, At, PairSteps
  <2> QED
    BY <1>0, <2>2, <2>3 DEF Shape, PairSteps, MadeSteps, FileSteps, At, Present, Known
<1>3. CASE Copy(p) \/ Fill(p) \/ (Verify(p) /\ ~End(p))
  <2>1. /\ job[p].at \in FileSteps /\ job'[p].at \in FileSteps /\ job'[p].o = job[p].o
        /\ job'[p].oldO = job[p].oldO /\ job'[p].kind = job[p].kind /\ item' = item
    BY <1>0, <1>3 DEF Copy, Fill, Verify, Go, FileSteps, At, Jobs, disk
  <2> QED BY <2>1 DEF Shapes, Shape, PairSteps, MadeSteps, FileSteps, At, Present
<1> QED
  BY <1>1, <1>2, <1>3 DEF Archiving, CopyFails, Unlink, UnlinkFails, Keeping, KeepRecord,
    KeepFails, Crash

LEMMA ShapeStep ==
  ASSUME Typed, [Next]_vars
  PROVE  Shapes'
<1> USE DEF Typed
<1> SUFFICES ASSUME NEW q \in Operator PROVE Shape(q)'
  BY DEF Shapes
<1>0. Shape(q) /\ job \in [Operator -> Jobs] /\ item \in [Item -> Known]
  BY DEF Shapes, TypeOK
<1>1. CASE Mine(q)
  BY <1>1, BeginShape, SupersessionShape, OtherShape DEF Mine
<1>2. CASE Quiet(q)
  BY <1>0, <1>2 DEF Quiet, Shape, At, Present
<1>3. ASSUME NEW i \in Item, Edit(i) PROVE Shape(q)'
  <2>1. item[i] \in Content /\ [item[i] EXCEPT !.body = @ + 1] \in Content
    BY <1>0, <1>3, MadeContent DEF Edit, Present, Known
  <2>2. \A x \in Item : item'[x] # None <=> item[x] # None
    BY <1>0, <1>3, <2>1, ItemsAssumption DEF Edit, Put
  <2>3. /\ job'[q].at = job[q].at /\ job'[q].kind = job[q].kind /\ job'[q].o = job[q].o
        /\ job'[q].r = job[q].r /\ job'[q].oldO = job[q].oldO /\ job'[q].oldR = job[q].oldR
        /\ job'[q].newO = job[q].newO /\ job'[q].newR = job[q].newR
    BY <1>0, <1>3 DEF Edit, Jobs
  <2> QED BY <1>0, <2>2, <2>3 DEF Shape, At, Present
<1>4. CASE ~Inside(q) /\ job'[q] = job[q]
  BY <1>0, <1>4 DEF Shape, Inside, PairSteps, MadeSteps, FileSteps, At
<1> QED BY <1>1, <1>2, <1>3, <1>4, NextSteps

LEMMA TypedInvariant == Spec => []Typed
<1>1. Init => Typed
  <2>1. Init => TypeOK
    BY IdleIsJob, BoundsAssumption DEF Init, TypeOK, Known, Content, Pair
  <2>2. Init => \A p \in Operator : job[p].at = "idle" /\ job[p].kind = "none"
    BY DEF Init, Idle
  <2>3. Init => Alone /\ Shapes
    BY <2>2 DEF Alone, Shapes, Shape, Inside, PairSteps, MadeSteps, FileSteps, At
  <2> QED BY <2>1, <2>3 DEF Typed
<1>2. Typed /\ [Next]_vars => Typed'
  BY TypeStep, AloneStep, ShapeStep DEF Typed
<1> QED BY <1>1, <1>2, PTL DEF Spec

(* The pool, the archive, the ledger and the operations in hand keep their  *)
(* types (lifecycle_ledger.py:52, supersession.py:48).                      *)
THEOREM TypeCorrect == Spec => []TypeOK
<1>1. Typed => TypeOK
  BY DEF Typed
<1> QED BY <1>1, TypedInvariant, PTL

(* Reviewed operations exclude each other, whatever fails and whoever       *)
(* crashes (lifecycle_archive.py:71, supersession.py:100).                   *)
THEOREM OneAtATime == Spec => []Alone
<1>1. Typed => Alone
  BY DEF Typed
<1> QED BY <1>1, TypedInvariant, PTL

-----------------------------------------------------------------------------
(* Archiving.                                                              *)

\* what is unlinked next was compared, and only an edit can have come since
Compared(p) ==
  At(p, "unlink") => archived[job[p].o] = item[job[p].o] \/ job[p].o \in job[p].touched

\* an edit of one file
LEMMA EditStep ==
  ASSUME Typed, NEW i \in Item, Edit(i), NEW q \in Operator
  PROVE  /\ \A x \in Item \ {i} : item'[x] = item[x]
         /\ item[i] \in Content /\ item'[i] \in Content /\ item'[i].sup = item[i].sup
         /\ job'[q].at = job[q].at /\ job'[q].kind = job[q].kind
         /\ job'[q].o = job[q].o /\ job'[q].r = job[q].r /\ job'[q].pre = job[q].pre
         /\ job'[q].oldO = job[q].oldO /\ job'[q].oldR = job[q].oldR
         /\ job'[q].newO = job[q].newO /\ job'[q].newR = job[q].newR /\ job'[q].why = job[q].why
         /\ job[q].touched \subseteq job'[q].touched
         /\ Inside(q) /\ i \in {job[q].o, job[q].r} => i \in job'[q].touched
         /\ archived' = archived /\ faults' = faults
<1>1. job \in [Operator -> Jobs] /\ item \in [Item -> Known]
  BY DEF Typed, TypeOK
<1>2. item[i] \in Content
  BY <1>1 DEF Edit, Present, Known
<1>3. [item[i] EXCEPT !.body = @ + 1] \in Content /\ [item[i] EXCEPT !.body = @ + 1].sup = item[i].sup
  BY <1>2 DEF Content
<1>4. /\ item' = [item EXCEPT ![i] = [item[i] EXCEPT !.body = @ + 1]]
  BY DEF Edit, Put
<1>5. job'[q] = IF Inside(q) /\ i \in {job[q].o, job[q].r}
                THEN [job[q] EXCEPT !.touched = @ \cup {i}] ELSE job[q]
  BY DEF Edit
<1>6. job[q] \in Jobs
  BY <1>1
<1>7. job'[q] = job[q] \/ job'[q] = [job[q] EXCEPT !.touched = @ \cup {i}]
  BY <1>5
<1>8. /\ job'[q].at = job[q].at /\ job'[q].kind = job[q].kind
      /\ job'[q].o = job[q].o /\ job'[q].r = job[q].r /\ job'[q].pre = job[q].pre
      /\ job'[q].oldO = job[q].oldO /\ job'[q].oldR = job[q].oldR
      /\ job'[q].newO = job[q].newO /\ job'[q].newR = job[q].newR /\ job'[q].why = job[q].why
      /\ job[q].touched \subseteq job'[q].touched
  BY <1>6, <1>7 DEF Jobs
<1>9. Inside(q) /\ i \in {job[q].o, job[q].r} => i \in job'[q].touched
  BY <1>5, <1>6 DEF Jobs
<1> QED BY <1>1, <1>2, <1>3, <1>4, <1>8, <1>9 DEF Edit

LEMMA ComparedStep ==
  ASSUME Typed, \A p \in Operator : Compared(p), [Next]_vars, NEW q \in Operator
  PROVE  Compared(q)'
<1>0. Compared(q) /\ job \in [Operator -> Jobs]
  BY DEF Typed, TypeOK
<1>1. CASE Mine(q)
  <2>1. Idle.at = "idle"
    BY DEF Idle
  <2>2. CASE job'[q].at # "unlink"
    BY <2>2 DEF Compared, At
  <2>3. CASE job'[q].at = "unlink" /\ Begin(q)
    <3>1. /\ \A kind \in {"supersede", "revert-supersession"}, r, o \in Item : ~Start(q, kind, r, o)
          /\ \A i \in Item : ~Plan(q, i) /\ (KeepActive(q, i) => job' = job)
      BY <1>0, <2>3 DEF Start, Plan, KeepActive, Idle
    <3>2. job' = job /\ At(q, "idle")
      BY <2>3, <3>1 DEF Begin, StartAgain, KeepActive, Defer
    <3> QED BY <2>3, <3>2 DEF At
  <2>4. CASE job'[q].at = "unlink" /\ Supersession(q)
    BY <2>1, <2>4, PairStep DEF SamePair, PairSteps
  <2>5. CASE job'[q].at = "unlink" /\ (Keeping(q) \/ Crash(q))
    BY <1>0, <2>1, <2>5 DEF Keeping, KeepRecord, KeepFails, Crash, End
  <2>6. CASE job'[q].at = "unlink" /\ Archiving(q)
    <3>1. ~End(q)
      BY <1>0, <2>1, <2>6 DEF End
    <3>2. ~Copy(q) /\ ~Fill(q)
      BY <1>0, <2>6 DEF Copy, Fill, Go, Jobs
    <3>3. ~Open(q)
      <4>1. Open(q) => \E s \in {"copy", "verify"}, b \in BOOLEAN :
              job' = [job EXCEPT ![q].at = s, ![q].oldO = item[job[q].o], ![q].pre = b]
        BY <3>1 DEF Open
      <4> QED BY <1>0, <2>6, <4>1 DEF Jobs
    <3>4. Verify(q) /\ Copied(q)
      BY <2>6, <3>1, <3>2, <3>3 DEF Archiving, Verify, CopyFails, Unlink, UnlinkFails
    <3>5. job'[q].o = job[q].o
      BY <1>0, <3>4 DEF Verify, Jobs
    <3> QED BY <3>4, <3>5 DEF Verify, Copied, Compared, disk
  <2> QED BY <1>1, <2>2, <2>3, <2>4, <2>5, <2>6 DEF Mine
<1>2. CASE Quiet(q)
  BY <1>0, <1>2 DEF Quiet, Compared, At
<1>3. ASSUME Inside(q), NEW i \in Item, Edit(i) PROVE Compared(q)'
  <2>1. At(q, "unlink") => job[q].o \in Item
    BY DEF Typed, Shapes, Shape, FileSteps, At
  <2> QED BY <1>0, <1>3, <2>1, EditStep DEF Compared, At
<1>4. CASE ~Inside(q) /\ job'[q] = job[q]
  BY <1>4 DEF Compared, At, Inside
<1> QED BY <1>1, <1>2, <1>3, <1>4, NextSteps

\* the archive changes only at an item that an operation has in hand, and that is there
LEMMA ArchiveWritten ==
  ASSUME Typed, [Next]_vars, NEW i \in Item, item[i] = None
  PROVE  archived'[i] = archived[i]
<1> USE DEF Typed
<1>1. ASSUME NEW p \in Operator, Copy(p) \/ Fill(p) \/ CopyFails(p)
      PROVE  archived'[i] = archived[i]
  <2>1. job[p].at \in FileSteps
    BY <1>1 DEF Copy, Fill, CopyFails, At, FileSteps
  <2>2. job[p].o # i
    BY <2>1 DEF Shapes, Shape, Present
  <2> QED BY <1>1, <2>2 DEF Copy, Fill, CopyFails, Discard, TypeOK
<1>2. ASSUME NEW p \in Operator, Supersession(p) PROVE archived' = archived
  BY <1>2, PairStep
<1>3. ASSUME NEW p \in Operator, Begin(p) \/ Keeping(p) \/ Crash(p) \/ Open(p) \/ Verify(p)
                                 \/ Unlink(p) \/ UnlinkFails(p)
      PROVE  archived' = archived
  BY <1>3 DEF Begin, Start, StartAgain, Plan, KeepActive, Defer, Keeping, KeepRecord, KeepFails,
    Crash, Open, Verify, Unlink, UnlinkFails, disk
<1>4. Others => archived' = archived
  BY DEF Others, Expires, Ages, Delete, Edit, Relate, Resolve, Writer, disk
<1>5. UNCHANGED vars => archived' = archived
  BY DEF vars, disk
<1> QED BY <1>1, <1>2, <1>3, <1>4, <1>5 DEF Next, Archiving

(* Archiving removes a file only when a whole and equal copy is in the       *)
(* archive, except for an edit after its last comparison; and the copy of    *)
(* an archived item stays as it is (lifecycle_archive.py:241).               *)
THEOREM ArchivingLosesNothing == Spec => ArchiveLosesNothing
<1>1. Init => \A p \in Operator : Compared(p)
  BY DEF Init, Idle, Compared, At
<1>2. Typed /\ (\A p \in Operator : Compared(p)) /\ [Next]_vars => (\A p \in Operator : Compared(p))'
  BY ComparedStep
<1>3. Typed /\ (\A p \in Operator : Compared(p)) /\ [Next]_vars =>
        [\A i \in Item :
           /\ item[i] # None /\ item'[i] = None /\ (\E p \in Operator : Archives(p, i)) =>
                archived[i] = item[i] \/ \E p \in Operator : Archives(p, i) /\ i \in job[p].touched
           /\ item[i] = None /\ archived[i] # None => archived'[i] = archived[i]]_vars
  <2> SUFFICES ASSUME Typed, \A p \in Operator : Compared(p), [Next]_vars, NEW i \in Item
               PROVE  /\ item[i] # None /\ item'[i] = None /\ (\E p \in Operator : Archives(p, i)) =>
                           archived[i] = item[i] \/ \E p \in Operator : Archives(p, i) /\ i \in job[p].touched
                      /\ item[i] = None /\ archived[i] # None => archived'[i] = archived[i]
    OBVIOUS
  <2> QED BY ArchiveWritten DEF Compared, Archives
<1> QED BY <1>1, <1>2, <1>3, TypedInvariant, PTL DEF Spec, ArchiveLosesNothing

-----------------------------------------------------------------------------
(* Supersession and cycles.                                                *)

\* what the writes of a supersession can make of the two files
LEMMA PairWrites ==
  ASSUME Typed, NEW p \in Operator, Supersession(p)
  PROVE  LET j == job[p] IN
         /\ item'[j.o] \in {item[j.o], Marked(j.kind, j.r, item[j.o]), j.oldO}
         /\ item'[j.r] \in {item[j.r], Related(j.kind, j.o, item[j.r]), j.oldR}
         /\ j.at # "mark" => item'[j.o] \in {item[j.o], j.oldO}
<1> DEFINE j == job[p]
<1>1. item \in [Item -> Known] /\ j.o \in Item /\ j.r \in Item /\ j.o # j.r
  BY PairStep, PairFiles DEF Typed, TypeOK
<1>2. CASE Check(p) \/ CheckFails(p) \/ Prepare(p) \/ Record(p) \/ RecordFails(p) \/ Note(p)
           \/ Sync(p)
  BY <1>2 DEF Check, CheckFails, Prepare, Record, RecordFails, Note, Sync, disk
<1>3. CASE Mark(p) \/ MarkFails(p)
  BY <1>1, <1>3 DEF Mark, MarkFails, WriteMark, Put, At
<1>4. CASE Link(p) \/ LinkFails(p)
  BY <1>1, <1>4 DEF Link, LinkFails, Put
<1>5. CASE Undo(p) \/ UndoMore(p)
  BY <1>1, <1>5 DEF Undo, UndoMore, Put
<1>6. CASE Settle(p)
  BY <1>1, <1>6 DEF Settle
<1> QED BY <1>2, <1>3, <1>4, <1>5, <1>6 DEF Supersession

LEMMA Fields ==
  ASSUME NEW c \in Content, NEW kind, NEW i \in Item
  PROVE  /\ Related(kind, i, c).sup = c.sup
         /\ Marked("supersede", i, c).sup = i
BY DEF Related, Marked, Content

\* a reference that no supersession has overtaken yet
Apart(p) ==
  job[p].kind = "supersede" =>
    /\ job[p].oldO.sup = None /\ item[job[p].r].sup = job[p].oldR.sup
    /\ job[p].at \in {"check", "prepare", "mark"} =>
         item[job[p].o].sup = None /\ EndsApart(job[p].r, job[p].o)

\* where nothing appears or disappears, only the references decide
LEMMA SameReferences ==
  ASSUME \A x \in Item : (item'[x] = None <=> item[x] = None) /\ (item[x] # None => item'[x].sup = item[x].sup),
         NEW r \in Item, NEW o \in Item
  PROVE  (EndsApart(r, o) => EndsApart(r, o)') /\ (Acyclic => Acyclic')
<1>1. ASSUME EndsApart(r, o) PROVE EndsApart(r, o)'
  <2>1. PICK C \in SUBSET (Item \ {o}) :
          /\ r \in C
          /\ \A x \in C : Present(x) /\ item[x].sup \in C \cup {None}
          /\ NoLoop(C)
    BY <1>1 DEF EndsApart
  <2>2. \A x \in C : Present(x)' /\ item'[x].sup = item[x].sup
    BY <2>1 DEF Present
  <2>3. \A T \in SUBSET C : T # {} => \E x \in T : item'[x].sup \notin T
    BY <2>1, <2>2 DEF NoLoop
  <2>4. NoLoop(C)'
    BY <2>3 DEF NoLoop
  <2> QED BY <2>1, <2>2, <2>4 DEF EndsApart
<1>2. ASSUME Acyclic PROVE Acyclic'
  <2>1. There' = There
    BY DEF There, Present
  <2>2. \A x \in There : item'[x].sup = item[x].sup
    BY DEF There, Present
  <2>3. \A T \in SUBSET There : T # {} => \E x \in T : item'[x].sup \notin T
    BY <1>2, <2>2 DEF Acyclic, NoLoop
  <2> QED BY <2>1, <2>3 DEF Acyclic, NoLoop
<1> QED BY <1>1, <1>2

LEMMA EditReferences ==
  ASSUME Typed, NEW i \in Item, Edit(i)
  PROVE  \A x \in Item : (item'[x] = None <=> item[x] = None) /\ (item[x] # None => item'[x].sup = item[x].sup)
<1> TAKE x \in Item
<1>1. CASE x # i
  <2>1. item'[x] = item[x]
    BY <1>1 DEF Edit, Put, Typed, TypeOK
  <2> QED BY <2>1
<1>2. CASE x = i
  <2>1. item[i] \in Content
    BY DEF Edit, Present, Typed, TypeOK, Known
  <2>2. item'[i] = [item[i] EXCEPT !.body = @ + 1]
    BY DEF Edit, Put, Typed, TypeOK
  <2>3. item'[i] \in Content /\ item'[i].sup = item[i].sup
    BY <2>1, <2>2 DEF Content
  <2> QED BY <1>2, <2>1, <2>3, ItemsAssumption
<1> QED BY <1>1, <1>2

LEMMA ApartStep ==
  ASSUME Typed, \A p \in Operator : Apart(p), [Next]_vars, NEW q \in Operator
  PROVE  Apart(q)'
<1>0. Apart(q) /\ job \in [Operator -> Jobs] /\ item \in [Item -> Known]
  BY DEF Typed, TypeOK
<1>k. Idle.kind # "supersede"
  BY DEF Idle
<1>s. job[q].kind = "supersede" => job[q].at \in PairSteps
  BY DEF Typed, Shapes, Shape
<1>1. CASE Mine(q) /\ job'[q].kind = "supersede"
  <2>1. CASE Begin(q)
    <3>1. job[q].at = "idle"
      BY <2>1 DEF Begin, Start, StartAgain, Plan, KeepActive, Defer, At
    <3>2. job'[q] # job[q]
      BY <1>1, <1>s, <3>1 DEF PairSteps
    <3>3. \A i \in Item : ~Plan(q, i) /\ ~KeepActive(q, i)
      BY <1>0, <1>1, <3>2 DEF Plan, KeepActive, Idle
    <3>4. PICK kind \in {"supersede", "revert-supersession"}, r \in Item, o \in Item : Start(q, kind, r, o)
      BY <2>1, <3>2, <3>3 DEF Begin, StartAgain, Defer
    <3>5. /\ job'[q].kind = kind /\ job'[q].o = o /\ job'[q].r = r
          /\ job'[q].oldO = item[o] /\ job'[q].oldR = item[r]
      BY <1>0, <3>4 DEF Start, Idle
    <3>6. item' = item /\ item[o].sup = None /\ EndsApart(r, o)
      BY <1>1, <3>4, <3>5 DEF Start, Ready, Valid, disk
    <3>7. EndsApart(r, o)'
      BY <3>6, SameReferences
    <3> QED BY <3>5, <3>6, <3>7 DEF Apart
  <2>2. CASE Supersession(q)
    <3>1. SamePair(q)
      BY <1>1, <1>k, <2>2, PairStep
    <3>2. job[q].kind = "supersede"
      BY <1>1, <3>1 DEF SamePair
    <3>3. /\ job[q].o \in Item /\ job[q].r \in Item /\ job[q].o # job[q].r
          /\ item[job[q].o] \in Content /\ item[job[q].r] \in Content
      BY <2>2, PairStep, PairFiles
    <3>4. item'[job[q].r].sup = job[q].oldR.sup
      BY <1>0, <2>2, <3>2, <3>3, PairWrites, Fields DEF Apart
    <3>5. job'[q].at \in {"check", "prepare", "mark"} =>
            item' = item /\ job[q].at \in {"check", "prepare", "mark"}
      <4>1. CASE Check(q) \/ Prepare(q)
        BY <4>1 DEF Check, Prepare, disk, At
      <4>2. CASE CheckFails(q) \/ Note(q) \/ Sync(q)
        BY <1>0, <1>1, <1>k, <4>2 DEF CheckFails, Note, Sync, End
      <4>3. CASE Mark(q) \/ MarkFails(q) \/ Link(q) \/ LinkFails(q) \/ Record(q) \/ RecordFails(q)
                 \/ Undo(q) \/ UndoMore(q) \/ Settle(q)
        <5>1. \/ \E s \in {"link", "record", "sync", "undo more", "settle", "note"} :
                   job' = [job EXCEPT ![q].at = s]
              \/ \E s \in {"note", "undo"}, w \in {"markdown", "ledger", "rollback"} :
                   job' = [job EXCEPT ![q].at = s, ![q].why = w]
          BY <4>3 DEF Mark, MarkFails, Link, LinkFails, Record, RecordFails, Undo, UndoMore,
            Settle, Go, Undone, GiveUp
        <5>2. job'[q].at \in {"link", "record", "sync", "undo", "undo more", "settle", "note"}
          <6>1. ASSUME NEW s \in {"note", "undo"}, NEW w \in {"markdown", "ledger", "rollback"},
                       job' = [job EXCEPT ![q].at = s, ![q].why = w]
                PROVE  job'[q].at = s
            <7>1. job' = [job EXCEPT ![q] = [job[q] EXCEPT !.at = s, !.why = w]]
              BY <1>0, <6>1 DEF Jobs
            <7>2. job'[q] = [job[q] EXCEPT !.at = s, !.why = w] /\ job[q] \in Jobs
              BY <1>0, <7>1
            <7> QED BY <7>2 DEF Jobs
          <6> QED BY <1>0, <5>1, <6>1 DEF Jobs
        <5> QED BY <5>2
      <4> QED BY <2>2, <4>1, <4>2, <4>3 DEF Supersession
    <3>6. PICK r \in Item, o \in Item : r = job[q].r /\ o = job[q].o
      BY <3>3
    <3>7. job'[q].at \in {"check", "prepare", "mark"} => item'[o].sup = None /\ EndsApart(r, o)'
      <4>1. job'[q].at \in {"check", "prepare", "mark"} =>
              item' = item /\ item[o].sup = None /\ EndsApart(r, o)
        BY <1>0, <3>2, <3>5, <3>6 DEF Apart
      <4> QED BY <4>1, SameReferences
    <3>8. job'[q].r = r /\ job'[q].o = o /\ job'[q].oldO = job[q].oldO /\ job'[q].oldR = job[q].oldR
      BY <3>1, <3>6 DEF SamePair
    <3> QED BY <1>0, <3>2, <3>4, <3>6, <3>7, <3>8 DEF Apart
  <2>3. CASE Crash(q) \/ Keeping(q)
    BY <1>0, <1>1, <1>k, <2>3 DEF Crash, Keeping, KeepRecord, KeepFails, End
  <2>4. CASE Archiving(q)
    <3>1. job[q].at \notin PairSteps
      BY <2>4 DEF Archiving, Open, Copy, Fill, CopyFails, Verify, Unlink, UnlinkFails, At, PairSteps
    <3>2. Shape(q)'
      BY <2>4, OtherShape
    <3>3. job'[q].at \in PairSteps
      BY <1>1, <3>2 DEF Shape
    <3>4. ~End(q)
      BY <1>0, <1>1, <1>k DEF End
    <3>5. Copy(q) \/ Fill(q) \/ (Verify(q) /\ ~End(q)) => job'[q].at \in {"fill", "verify", "unlink"}
      BY <1>0 DEF Copy, Fill, Verify, Go, Jobs
    <3>6. ~Copy(q) /\ ~Fill(q) /\ ~Verify(q)
      BY <3>3, <3>4, <3>5 DEF PairSteps
    <3>7. ~Open(q)
      <4>1. Open(q) => \E s \in {"copy", "verify"}, b \in BOOLEAN :
              job' = [job EXCEPT ![q].at = s, ![q].oldO = item[job[q].o], ![q].pre = b]
        BY <3>4 DEF Open
      <4> QED BY <1>0, <3>3, <4>1 DEF Jobs, PairSteps
    <3> QED
      BY <2>4, <3>4, <3>5, <3>6, <3>7 DEF Archiving, CopyFails, Unlink, UnlinkFails
  <2> QED BY <1>1, <2>1, <2>2, <2>3, <2>4 DEF Mine
<1>2. CASE Quiet(q)
  <2>1. job[q].kind = "supersede" => job[q].o \in Item /\ job[q].r \in Item
    BY <1>s, PairFiles
  <2>2. item' = item /\ job'[q] = job[q]
    BY <1>2 DEF Quiet
  <2> QED BY <1>0, <2>1, <2>2, SameReferences DEF Apart
<1>3. ASSUME NEW i \in Item, Edit(i) PROVE Apart(q)'
  <2>1. \A x \in Item : (item'[x] = None <=> item[x] = None) /\ (item[x] # None => item'[x].sup = item[x].sup)
    BY <1>3, EditReferences
  <2>2. job[q].kind = "supersede" =>
          job[q].o \in Item /\ job[q].r \in Item /\ Present(job[q].o) /\ Present(job[q].r)
    BY <1>s DEF Typed, Shapes, Shape
  <2>3. /\ job'[q].at = job[q].at /\ job'[q].kind = job[q].kind
        /\ job'[q].o = job[q].o /\ job'[q].r = job[q].r
        /\ job'[q].oldO = job[q].oldO /\ job'[q].oldR = job[q].oldR
    BY <1>3, EditStep
  <2> QED BY <1>0, <2>1, <2>2, <2>3, SameReferences DEF Apart, Present
<1>4. CASE ~Inside(q) /\ job'[q] = job[q]
  BY <1>s, <1>4 DEF Apart, Inside, PairSteps
<1>5. CASE job'[q].kind # "supersede"
  BY <1>5 DEF Apart
<1> QED BY <1>1, <1>2, <1>3, <1>4, <1>5, NextSteps

LEMMA NoCycleStep ==
  ASSUME Typed, \A p \in Operator : Apart(p), [Next]_vars, NEW p \in Operator,
         job[p].kind = "supersede", job'[p] # job[p], Acyclic
  PROVE  Acyclic'
<1> DEFINE o == job[p].o
           r == job[p].r
<1>1. job[p].at \in PairSteps /\ Apart(p)
  BY DEF Typed, Shapes, Shape
<1>2. /\ o \in Item /\ r \in Item /\ o # r /\ item[o] \in Content /\ item[r] \in Content
      /\ job[p].oldO \in Content /\ job[p].oldR \in Content
  BY <1>1, PairFiles
<1>3. CASE \E i \in Item : Edit(i)
  BY <1>2, <1>3, EditReferences, SameReferences
<1>4. CASE Crash(p)
  BY <1>2, <1>4, SameReferences DEF Crash, disk
<1>5. CASE Supersession(p)
  <2>1. /\ \A x \in Item \ {o, r} : item'[x] = item[x]
        /\ item'[o] \in Content /\ item'[r] \in Content
    BY <1>5, PairStep
  <2>2. item'[r].sup = item[r].sup
    BY <1>1, <1>2, <1>5, PairWrites, Fields DEF Apart
  <2>3. There' = There /\ There \subseteq Item /\ None \notin There
    BY <1>2, <2>1, ItemsAssumption DEF There, Present
  <2>4. \A x \in There \ {o} : item'[x].sup = item[x].sup
    BY <2>1, <2>2, <2>3
  <2>5. CASE item'[o].sup \in {item[o].sup, None}
    <3>1. \A T \in SUBSET There : T # {} => \E x \in T : item'[x].sup \notin T
      BY <2>3, <2>4, <2>5 DEF Acyclic, NoLoop
    <3> QED BY <2>3, <3>1 DEF Acyclic, NoLoop
  <2>6. CASE item'[o].sup \notin {item[o].sup, None}
    <3>1. job[p].at = "mark" /\ item'[o].sup = r
      <4>1. job[p].oldO.sup = None
        BY <1>1 DEF Apart
      <4>2. item'[o] # item[o] /\ item'[o] # job[p].oldO
        BY <2>6, <4>1
      <4>3. job[p].at = "mark" /\ item'[o] = Marked("supersede", r, item[o])
        BY <1>5, <4>2, PairWrites
      <4> QED BY <1>2, <4>3, Fields
    <3>2. PICK C \in SUBSET (Item \ {o}) :
            /\ r \in C
            /\ \A x \in C : Present(x) /\ item[x].sup \in C \cup {None}
            /\ NoLoop(C)
      BY <1>1, <3>1 DEF Apart, EndsApart
    <3>3. ASSUME NEW T \in SUBSET There, T # {} PROVE \E x \in T : item'[x].sup \notin T
      <4>1. CASE o \notin T
        BY <2>4, <3>3, <4>1 DEF Acyclic, NoLoop
      <4>2. CASE o \in T /\ r \notin T
        BY <3>1, <4>2
      <4>3. CASE o \in T /\ r \in T
        <5>1. T \cap C \in SUBSET C /\ T \cap C # {}
          BY <3>2, <4>3
        <5>2. PICK x \in T \cap C : item[x].sup \notin T \cap C
          BY <3>2, <5>1 DEF NoLoop
        <5>3. x # o /\ item'[x].sup = item[x].sup /\ item[x].sup \in C \cup {None}
          BY <2>4, <3>2, <5>2
        <5> QED BY <2>3, <5>2, <5>3
      <4> QED BY <4>1, <4>2, <4>3
    <3> QED BY <2>3, <3>3 DEF Acyclic, NoLoop
  <2> QED BY <2>5, <2>6
<1>6. CASE Begin(p) \/ Archiving(p) \/ Keeping(p)
  BY <1>1, <1>6 DEF Begin, Start, StartAgain, Plan, KeepActive, Defer, Archiving, Open, Copy,
    Fill, CopyFails, Verify, Unlink, UnlinkFails, Keeping, KeepRecord, KeepFails, At, PairSteps
<1> QED BY <1>3, <1>4, <1>5, <1>6, NextSteps DEF Quiet, Mine

(* A supersession never closes a cycle of superseded_by references, however *)
(* long the chain is, whoever else wrote it, and whatever failed between    *)
(* its check and its write (supersession.py:529).                           *)
THEOREM SupersessionsCloseNoCycle == Spec => NoNewCycle
<1>1. Init => \A p \in Operator : Apart(p)
  BY DEF Init, Idle, Apart
<1>2. Typed /\ (\A p \in Operator : Apart(p)) /\ [Next]_vars => (\A p \in Operator : Apart(p))'
  BY ApartStep
<1>3. Typed /\ (\A p \in Operator : Apart(p)) /\ [Next]_vars =>
        [\A p \in Operator :
           job[p].kind = "supersede" /\ job'[p] # job[p] /\ Acyclic => Acyclic']_vars
  BY NoCycleStep
<1> QED BY <1>1, <1>2, <1>3, TypedInvariant, PTL DEF Spec, NoNewCycle

-----------------------------------------------------------------------------
(* Both files or none.                                                     *)

OldO(p) == item[job[p].o] = job[p].oldO \/ job[p].o \in job[p].touched
OldR(p) == item[job[p].r] = job[p].oldR \/ job[p].r \in job[p].touched
NewO(p) == item[job[p].o] = job[p].newO \/ job[p].o \in job[p].touched
NewR(p) == item[job[p].r] = job[p].newR \/ job[p].r \in job[p].touched

\* what was prepared is made from what was read, unless it was edited
Made(p) ==
  /\ job[p].o \in job[p].touched \/ job[p].newO = Marked(job[p].kind, job[p].r, job[p].oldO)
  /\ job[p].r \in job[p].touched
       \/ job[p].newR = IF job[p].pre THEN job[p].oldR ELSE Related(job[p].kind, job[p].o, job[p].oldR)

\* how far the two files have come at each step, counting what failed
Progress(p) ==
  /\ job[p].at \in {"check", "prepare", "mark"} => OldO(p) /\ OldR(p)
  /\ job[p].at \in {"mark", "link"} => Made(p)
  /\ job[p].at = "link" => NewO(p) /\ OldR(p)
  /\ job[p].at \in {"record", "sync"} => NewO(p) /\ NewR(p)
  /\ job[p].at \in {"undo", "undo more", "settle"} =>
       job[p].why # "rollback" /\ (job[p].touched # {} \/ faults >= 1)
  /\ job[p].at = "undo" => (OldO(p) \/ NewO(p)) /\ (OldR(p) \/ NewR(p))
  /\ job[p].at = "undo more" => OldO(p) \/ job[p].touched # {} \/ faults >= 2
  /\ job[p].at = "settle" => (OldO(p) /\ OldR(p)) \/ job[p].touched # {} \/ faults >= 2
  /\ job[p].at = "note" =>
       IF job[p].why = "rollback" THEN job[p].touched # {} \/ faults >= 2 ELSE OldO(p) /\ OldR(p)

SameFields(p) ==
  /\ job'[p].kind = job[p].kind /\ job'[p].o = job[p].o /\ job'[p].r = job[p].r
  /\ job'[p].oldO = job[p].oldO /\ job'[p].oldR = job[p].oldR
  /\ job'[p].newO = job[p].newO /\ job'[p].newR = job[p].newR
  /\ job'[p].pre = job[p].pre

LEMMA AfterGo ==
  ASSUME Typed, NEW p \in Operator, NEW s, Go(p, s)
  PROVE  /\ job'[p].at = s /\ SameFields(p) /\ job'[p].why = job[p].why
         /\ job'[p].touched = job[p].touched
BY DEF Go, SameFields, Typed, TypeOK, Jobs

LEMMA AfterMove ==
  ASSUME Typed, NEW p \in Operator, NEW s \in {"prepare", "note", "undo"},
         NEW w \in {"none", "concurrent", "markdown", "ledger", "rollback"},
         job' = [job EXCEPT ![p].at = s, ![p].why = w]
  PROVE  /\ job'[p].at = s /\ SameFields(p) /\ job'[p].why = w
         /\ job'[p].touched = job[p].touched
<1>1. job' = [job EXCEPT ![p] = [job[p] EXCEPT !.at = s, !.why = w]]
  BY DEF Typed, TypeOK, Jobs
<1>2. job'[p] = [job[p] EXCEPT !.at = s, !.why = w]
  BY <1>1 DEF Typed, TypeOK
<1>3. job[p] \in Jobs
  BY DEF Typed, TypeOK
<1>4. PICK x \in Jobs : x = job[p]
  BY <1>3
<1>5. PICK y : y = job'[p]
  OBVIOUS
<1>6. y = [x EXCEPT !.at = s, !.why = w]
  BY <1>2, <1>4, <1>5
<1>7. /\ y.at = s /\ y.why = w /\ y.touched = x.touched
      /\ y.kind = x.kind /\ y.o = x.o /\ y.r = x.r /\ y.pre = x.pre
      /\ y.oldO = x.oldO /\ y.oldR = x.oldR /\ y.newO = x.newO /\ y.newR = x.newR
  BY <1>6 DEF Jobs
<1> QED BY <1>4, <1>5, <1>7 DEF SameFields

LEMMA AfterUndone ==
  ASSUME Typed, NEW p \in Operator, NEW w \in {"markdown", "ledger"}, Undone(p, w)
  PROVE  /\ job'[p].at = "undo" /\ SameFields(p) /\ job'[p].why = w
         /\ job'[p].touched = job[p].touched
BY AfterMove DEF Undone

LEMMA AfterGiveUp ==
  ASSUME Typed, NEW p \in Operator, GiveUp(p)
  PROVE  /\ job'[p].at = "note" /\ SameFields(p) /\ job'[p].why = "rollback"
         /\ job'[p].touched = job[p].touched
BY AfterMove DEF GiveUp

\* an operation that does not move, while others do
LEMMA ProgressKept ==
  ASSUME NEW p \in Operator, Progress(p), SameFields(p), faults \in Nat,
         job'[p].at = job[p].at, job'[p].why = job[p].why, job[p].touched \subseteq job'[p].touched,
         faults' = faults,
         item'[job[p].o] = item[job[p].o] \/ job[p].o \in job'[p].touched,
         item'[job[p].r] = item[job[p].r] \/ job[p].r \in job'[p].touched
  PROVE  Progress(p)'
<1>1. /\ OldO(p) => OldO(p)'
      /\ OldR(p) => OldR(p)'
      /\ NewO(p) => NewO(p)'
      /\ NewR(p) => NewR(p)'
      /\ job[p].touched # {} => job'[p].touched # {}
  BY DEF OldO, OldR, NewO, NewR, SameFields
<1>2. Made(p) => Made(p)'
  BY DEF Made, SameFields
<1> QED BY <1>1, <1>2 DEF Progress

LEMMA IdleProgress ==
  ASSUME NEW p \in Operator, job'[p].at \in {"idle", "queued", "keep"} \cup FileSteps
  PROVE  Progress(p)'
BY DEF Progress, FileSteps

LEMMA SupersessionProgress ==
  ASSUME Typed, NEW p \in Operator, Supersession(p), Progress(p)
  PROVE  Progress(p)'
<1> DEFINE j == job[p]
<1>1. /\ j.o \in Item /\ j.r \in Item /\ j.o # j.r /\ item \in [Item -> Known]
      /\ faults \in Nat /\ job \in [Operator -> Jobs]
  BY PairStep, PairFiles DEF Typed, TypeOK
<1>2. CASE CheckFails(p) \/ Sync(p) \/ Note(p)
  <2>1. job'[p] = Idle /\ Idle.at = "idle"
    BY <1>1, <1>2 DEF CheckFails, Sync, Note, End, Idle
  <2> QED BY <2>1, IdleProgress
<1>3. CASE Check(p)
  <2>1. \E s \in {"prepare", "note"}, w \in {"none", "concurrent"} :
          job' = [job EXCEPT ![p].at = s, ![p].why = w]
    BY <1>3 DEF Check
  <2>2. /\ job'[p].at \in {"prepare", "note"} /\ job'[p].why \in {"none", "concurrent"}
        /\ SameFields(p) /\ job'[p].touched = job[p].touched
    <3>1. PICK s \in {"prepare", "note"}, w \in {"none", "concurrent"} :
            job' = [job EXCEPT ![p].at = s, ![p].why = w]
      BY <2>1
    <3> QED BY <3>1, AfterMove
  <2>3. OldO(p) /\ OldR(p) /\ item' = item
    BY <1>3 DEF Check, At, Progress, disk
  <2>4. OldO(p)' /\ OldR(p)'
    BY <2>2, <2>3 DEF OldO, OldR, SameFields
  <2> QED BY <2>2, <2>4 DEF Progress
<1>4. CASE Prepare(p)
  <2>1. OldO(p) /\ OldR(p) /\ item' = item
    BY <1>4 DEF Prepare, At, Progress, disk
  <2>2. /\ job'[p].at = "mark" /\ job'[p].kind = j.kind /\ job'[p].o = j.o /\ job'[p].r = j.r
        /\ job'[p].oldO = j.oldO /\ job'[p].oldR = j.oldR /\ job'[p].pre = j.pre
        /\ job'[p].touched = j.touched
        /\ job'[p].newO = Marked(j.kind, j.r, item[j.o])
    BY <1>1, <1>4 DEF Prepare, Jobs
  <2>3. job'[p].newR = IF j.pre THEN j.oldR ELSE Related(j.kind, j.o, item[j.r])
    <3>1. CASE j.pre
      BY <1>1, <1>4, <3>1 DEF Prepare, Jobs
    <3>2. CASE ~j.pre
      BY <1>1, <1>4, <3>2 DEF Prepare, Jobs
    <3> QED BY <3>1, <3>2
  <2>4. OldO(p)' /\ OldR(p)'
    BY <2>1, <2>2 DEF OldO, OldR
  <2>5. Made(p)'
    BY <2>1, <2>2, <2>3 DEF Made, OldO, OldR
  <2> QED BY <2>2, <2>4, <2>5 DEF Progress
<1>5. CASE Mark(p)
  <2>1. OldO(p) /\ OldR(p) /\ Made(p)
    BY <1>5 DEF Mark, At, Progress
  <2>2. /\ job'[p].at = "link" /\ SameFields(p) /\ job'[p].touched = j.touched
    BY <1>5, AfterGo DEF Mark
  <2>3. item'[j.o] = Marked(j.kind, j.r, item[j.o]) /\ item'[j.r] = item[j.r]
    BY <1>1, <1>5 DEF Mark, WriteMark, Put
  <2>4. Made(p)'
    BY <2>1, <2>2 DEF Made, SameFields
  <2>5. NewO(p)' /\ OldR(p)'
    BY <2>1, <2>2, <2>3 DEF Made, SameFields, NewO, OldO, OldR
  <2> QED BY <2>2, <2>4, <2>5 DEF Progress
<1>6. CASE MarkFails(p)
  <2>1. OldO(p) /\ OldR(p) /\ Made(p)
    BY <1>6 DEF MarkFails, At, Progress
  <2>2. /\ job'[p].at = "undo" /\ job'[p].why = "markdown" /\ SameFields(p)
        /\ job'[p].touched = j.touched /\ faults' >= 1
    <3>1. Undone(p, "markdown") /\ FaultOnly("io")
      BY <1>6 DEF MarkFails
    <3> QED BY <1>1, <3>1, AfterUndone DEF FaultOnly, Fault
  <2>3. item'[j.o] \in {item[j.o], Marked(j.kind, j.r, item[j.o])} /\ item'[j.r] = item[j.r]
    BY <1>1, <1>6 DEF MarkFails, WriteMark, Put
  <2>4. (OldO(p)' \/ NewO(p)') /\ OldR(p)'
    BY <2>1, <2>2, <2>3 DEF Made, SameFields, NewO, OldO, OldR
  <2> QED BY <2>2, <2>4 DEF Progress
<1>7. CASE Link(p)
  <2>1. NewO(p) /\ OldR(p) /\ Made(p)
    BY <1>7 DEF Link, At, Progress
  <2>2. CASE item[j.o] # j.newO
    <3>1. /\ job'[p].at = "undo" /\ job'[p].why = "markdown" /\ SameFields(p)
          /\ job'[p].touched = j.touched /\ item' = item
      BY <1>7, <2>2, AfterUndone DEF Link
    <3>2. j.touched # {} /\ NewO(p)' /\ OldR(p)'
      BY <2>1, <2>2, <3>1 DEF NewO, OldR, SameFields
    <3> QED BY <3>1, <3>2 DEF Progress
  <2>3. CASE item[j.o] = j.newO
    <3>1. job'[p].at = "record" /\ SameFields(p) /\ job'[p].touched = j.touched
      BY <1>7, <2>3, AfterGo DEF Link
    <3>2. item'[j.o] = item[j.o]
          /\ item'[j.r] = IF j.pre THEN item[j.r] ELSE Related(j.kind, j.o, item[j.r])
      BY <1>1, <1>7, <2>3 DEF Link, Put
    <3>3. NewO(p)' /\ NewR(p)'
      BY <2>1, <3>1, <3>2 DEF Made, SameFields, NewO, NewR, OldR
    <3> QED BY <3>1, <3>3 DEF Progress
  <2> QED BY <2>2, <2>3
<1>8. CASE LinkFails(p)
  <2>1. NewO(p) /\ OldR(p) /\ Made(p) /\ ~j.pre
    BY <1>8 DEF LinkFails, At, Progress
  <2>2. /\ job'[p].at = "undo" /\ job'[p].why = "markdown" /\ SameFields(p)
        /\ job'[p].touched = j.touched /\ faults' >= 1
    <3>1. Undone(p, "markdown") /\ FaultOnly("io")
      BY <1>8 DEF LinkFails
    <3> QED BY <1>1, <3>1, AfterUndone DEF FaultOnly, Fault
  <2>3. item'[j.o] = item[j.o] /\ item'[j.r] \in {item[j.r], Related(j.kind, j.o, item[j.r])}
    BY <1>1, <1>8 DEF LinkFails, Put
  <2>4. NewO(p)' /\ (OldR(p)' \/ NewR(p)')
    BY <2>1, <2>2, <2>3 DEF Made, SameFields, NewO, NewR, OldR
  <2> QED BY <2>2, <2>4 DEF Progress
<1>9. CASE Record(p) \/ RecordFails(p)
  <2>1. NewO(p) /\ NewR(p) /\ item' = item
    BY <1>9 DEF Record, RecordFails, At, Progress, disk
  <2>2. CASE Record(p) /\ LinkStands(p)
    <3>1. job'[p].at = "sync" /\ SameFields(p) /\ job'[p].touched = j.touched
      BY <2>2, AfterGo DEF Record
    <3>2. NewO(p)' /\ NewR(p)'
      BY <2>1, <3>1 DEF NewO, NewR, SameFields
    <3> QED BY <3>1, <3>2 DEF Progress
  <2>3. CASE (Record(p) /\ ~LinkStands(p)) \/ RecordFails(p)
    <3>1. /\ job'[p].at = "undo" /\ job'[p].why \in {"markdown", "ledger"} /\ SameFields(p)
          /\ job'[p].touched = j.touched
      <4>1. Undone(p, "markdown") \/ Undone(p, "ledger")
        BY <2>3 DEF Record, RecordFails
      <4> QED BY <4>1, AfterUndone
    <3>2. j.touched # {} \/ faults' >= 1
      BY <1>1, <2>1, <2>3 DEF Record, RecordFails, LinkStands, NewR, FaultOnly, Fault
    <3>3. NewO(p)' /\ NewR(p)'
      BY <2>1, <3>1 DEF NewO, NewR, SameFields
    <3> QED BY <3>1, <3>2, <3>3 DEF Progress
  <2> QED BY <1>9, <2>2, <2>3
<1>10. CASE Undo(p)
  <2>1. /\ (OldO(p) \/ NewO(p)) /\ (OldR(p) \/ NewR(p))
        /\ j.why # "rollback" /\ (j.touched # {} \/ faults >= 1)
    BY <1>10 DEF Undo, At, Progress
  <2>2. CASE ~Ours(p) /\ ~(GiveUp(p) /\ FaultOnly("io"))
    <3>1. /\ job'[p].at = "note" /\ job'[p].why = "rollback" /\ job'[p].touched = j.touched
      BY <1>10, <2>2, AfterGiveUp DEF Undo
    <3>2. j.touched # {}
      BY <2>1, <2>2 DEF Ours, OldO, NewO, OldR, NewR
    <3> QED BY <3>1, <3>2 DEF Progress
  <2>4. CASE GiveUp(p) /\ FaultOnly("io")
    <3>1. /\ job'[p].at = "note" /\ job'[p].why = "rollback" /\ job'[p].touched = j.touched
      BY <2>4, AfterGiveUp
    <3>2. j.touched # {} \/ faults' >= 2
      BY <1>1, <2>1, <2>4 DEF FaultOnly, Fault
    <3> QED BY <3>1, <3>2 DEF Progress
  <2>3. CASE Ours(p) /\ ~(GiveUp(p) /\ FaultOnly("io"))
    <3>1. /\ job'[p].at = "undo more" /\ job'[p].why = j.why /\ SameFields(p)
          /\ job'[p].touched = j.touched
      BY <1>10, <2>3, AfterGo DEF Undo
    <3>2. (item'[j.o] = j.oldO /\ faults' = faults) \/ faults' = faults + 1
      BY <1>1, <1>10, <2>3 DEF Undo, Put, NoFault, FaultOnly, Fault
    <3>3. OldO(p)' \/ j.touched # {} \/ faults' >= 2
      <4>1. CASE item'[j.o] = j.oldO
        BY <3>1, <4>1 DEF OldO, SameFields
      <4>2. CASE faults' = faults + 1
        BY <1>1, <2>1, <4>2
      <4> QED BY <3>2, <4>1, <4>2
    <3>4. j.touched # {} \/ faults' >= 1
      BY <1>1, <2>1, <3>2
    <3> QED BY <2>1, <3>1, <3>3, <3>4 DEF Progress
  <2> QED BY <2>2, <2>3, <2>4
<1>11. CASE UndoMore(p)
  <2>1. /\ OldO(p) \/ j.touched # {} \/ faults >= 2
        /\ j.why # "rollback" /\ (j.touched # {} \/ faults >= 1)
    BY <1>11 DEF UndoMore, At, Progress
  <2>2. /\ job'[p].at = "settle" /\ job'[p].why = j.why /\ SameFields(p)
        /\ job'[p].touched = j.touched
    BY <1>11, AfterGo DEF UndoMore
  <2>3. /\ item'[j.o] = item[j.o]
        /\ (item'[j.r] = j.oldR /\ faults' = faults) \/ faults' = faults + 1
    BY <1>1, <1>11 DEF UndoMore, Put, NoFault, FaultOnly, Fault
  <2>4. (OldO(p)' /\ OldR(p)') \/ j.touched # {} \/ faults' >= 2
    BY <1>1, <2>1, <2>2, <2>3 DEF OldO, OldR, SameFields
  <2>5. j.touched # {} \/ faults' >= 1
    BY <1>1, <2>1, <2>3
  <2> QED BY <2>1, <2>2, <2>4, <2>5 DEF Progress
<1>12. CASE Settle(p)
  <2>1. (OldO(p) /\ OldR(p)) \/ j.touched # {} \/ faults >= 2
    BY <1>12 DEF Settle, At, Progress
  <2>2. j.why # "rollback"
    BY <1>12 DEF Settle, At, Progress
  <2>5. j.touched # {} \/ faults >= 1
    BY <1>12 DEF Settle, At, Progress
  <2>3. CASE Go(p, "note")
    <3>1. /\ job'[p].at = "note" /\ job'[p].why = j.why /\ SameFields(p)
          /\ job'[p].touched = j.touched
      BY <2>3, AfterGo
    <3>2. CASE GiveUp(p)
      <4>1. job'[p].why = "rollback"
        BY <3>2, AfterGiveUp
      <4> QED BY <2>2, <3>1, <4>1
    <3>3. CASE ~GiveUp(p)
      <4>1. item'[j.o] = j.oldO /\ item'[j.r] = j.oldR
        BY <1>1, <1>12, <3>3 DEF Settle, AsRead
      <4> QED BY <2>2, <3>1, <4>1 DEF Progress, OldO, OldR, SameFields
    <3> QED BY <3>2, <3>3
  <2>4. CASE ~Go(p, "note")
    <3>1. GiveUp(p) /\ faults' = faults + 1
      BY <1>12, <2>4 DEF Settle, FaultOnly, Fault
    <3>2. job'[p].at = "note" /\ job'[p].why = "rollback" /\ job'[p].touched = j.touched
      BY <3>1, AfterGiveUp
    <3>3. j.touched # {} \/ faults' >= 2
      BY <1>1, <2>5, <3>1
    <3> QED BY <3>2, <3>3 DEF Progress
  <2> QED BY <2>3, <2>4
<1> QED
  BY <1>2, <1>3, <1>4, <1>5, <1>6, <1>7, <1>8, <1>9, <1>10, <1>11, <1>12 DEF Supersession

LEMMA ProgressStep ==
  ASSUME Typed, \A p \in Operator : Progress(p), [Next]_vars, NEW q \in Operator
  PROVE  Progress(q)'
<1>0. /\ Progress(q) /\ job \in [Operator -> Jobs] /\ item \in [Item -> Known] /\ faults \in Nat
  BY DEF Typed, TypeOK
<1>1. CASE Supersession(q)
  BY <1>0, <1>1, SupersessionProgress
<1>2. CASE Begin(q)
  <2>1. ASSUME NEW kind \in {"supersede", "revert-supersession"}, NEW r \in Item, NEW o \in Item,
               Start(q, kind, r, o)
        PROVE  Progress(q)'
    <3>1. /\ job'[q].at = "check" /\ job'[q].o = o /\ job'[q].r = r
          /\ job'[q].oldO = item[o] /\ job'[q].oldR = item[r] /\ item' = item
      BY <1>0, <2>1 DEF Start, Idle, disk
    <3> QED BY <3>1 DEF Progress, OldO, OldR
  <2>2. ASSUME job' = job, At(q, "idle") PROVE Progress(q)'
    BY <2>2, IdleProgress DEF At
  <2>3. ASSUME NEW i \in Item, Plan(q, i) PROVE Progress(q)'
    <3>1. job'[q].at = "queued"
      BY <1>0, <2>3 DEF Plan, Idle
    <3> QED BY <3>1, IdleProgress
  <2>4. ASSUME NEW i \in Item, KeepActive(q, i) PROVE Progress(q)'
    <3>1. job' = job \/ job'[q].at = "keep"
      <4>1. job' = job \/ job' = [job EXCEPT ![q] = [Idle EXCEPT !.at = "keep",
                !.kind = "keep-active", !.o = i, !.oldO = item[i], !.newO = Observed(item[i])]]
        BY <2>4 DEF KeepActive
      <4>2. job' = job \/ job'[q] = [Idle EXCEPT !.at = "keep", !.kind = "keep-active", !.o = i,
                !.oldO = item[i], !.newO = Observed(item[i])]
        BY <1>0, <4>1
      <4> QED BY <4>2 DEF Idle
    <3> QED BY <2>2, <2>4, <3>1, IdleProgress DEF KeepActive
  <2> QED BY <1>2, <2>1, <2>2, <2>3, <2>4 DEF Begin, StartAgain, Defer
<1>3. CASE Archiving(q) \/ Keeping(q) \/ Crash(q)
  <2>1. CASE End(q)
    <3>1. job'[q].at = "idle"
      BY <1>0, <2>1 DEF End, Idle
    <3> QED BY <3>1, IdleProgress
  <2>2. CASE Copy(q) \/ Fill(q) \/ (Verify(q) /\ ~End(q))
    <3>1. job'[q].at \in {"fill", "verify", "unlink"}
      BY <1>0, <2>2 DEF Copy, Fill, Verify, Go, Jobs
    <3> QED BY <3>1, IdleProgress DEF FileSteps
  <2>3. CASE Open(q) /\ ~End(q)
    <3>1. \E s \in {"copy", "verify"}, b \in BOOLEAN :
            job' = [job EXCEPT ![q].at = s, ![q].oldO = item[job[q].o], ![q].pre = b]
      BY <2>3 DEF Open
    <3>2. job'[q].at \in {"copy", "verify"}
      BY <1>0, <3>1 DEF Jobs
    <3> QED BY <3>2, IdleProgress DEF FileSteps
  <2> QED
    BY <1>3, <2>1, <2>2, <2>3 DEF Archiving, CopyFails, Unlink, UnlinkFails, Keeping, KeepRecord,
      KeepFails, Crash
<1>4. CASE Quiet(q)
  BY <1>0, <1>4, ProgressKept DEF Quiet, SameFields
<1>5. ASSUME NEW i \in Item, Edit(i), Inside(q) PROVE Progress(q)'
  <2>1. /\ \A x \in Item \ {i} : item'[x] = item[x]
        /\ SameFields(q) /\ job'[q].at = job[q].at /\ job'[q].why = job[q].why
        /\ job[q].touched \subseteq job'[q].touched /\ faults' = faults
        /\ i \in {job[q].o, job[q].r} => i \in job'[q].touched
    BY <1>5, EditStep DEF SameFields
  <2>2. CASE job[q].at \in PairSteps
    <3>1. job[q].o \in Item /\ job[q].r \in Item
      BY <2>2, PairFiles
    <3> QED BY <1>0, <2>1, <3>1, ProgressKept
  <2>3. CASE job[q].at \notin PairSteps
    BY <2>1, <2>3 DEF Progress, PairSteps
  <2> QED BY <2>2, <2>3
<1>6. CASE ~Inside(q) /\ job'[q] = job[q]
  BY <1>6, IdleProgress DEF Inside
<1> QED BY <1>1, <1>2, <1>3, <1>4, <1>5, <1>6, NextSteps DEF Mine

(* A supersession or revert that comes to its end has changed both files,   *)
(* or none, if one write, record or restore failed; only an edit by hand,   *)
(* or a second failure after the one that made it go back, makes it give    *)
(* the pair up as it is, and it says so (supersession.py:180, 226, 615).    *)
THEOREM BothFilesOrNone == Spec => []AllOrNothing
<1>1. Init => \A p \in Operator : Progress(p)
  <2>1. Init => \A p \in Operator : job[p].at = "idle"
    BY DEF Init, Idle
  <2> QED BY <2>1 DEF Progress
<1>2. Typed /\ (\A p \in Operator : Progress(p)) /\ [Next]_vars => (\A p \in Operator : Progress(p))'
  BY ProgressStep
<1>3. (\A p \in Operator : Progress(p)) => AllOrNothing
  BY DEF Progress, AllOrNothing, Stands, OldO, OldR, NewO, NewR, At
<1> QED BY <1>1, <1>2, <1>3, TypedInvariant, PTL DEF Spec

=============================================================================
