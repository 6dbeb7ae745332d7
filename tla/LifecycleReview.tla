-------------------------- MODULE LifecycleReview --------------------------
(***************************************************************************)
(* Reviewed changes to the life of a memory: supersession and its revert   *)
(* (two files and a ledger record), archiving (a file moves), keeping an   *)
(* item active, deferring its review.  The operations exclude each other   *)
(* and the writers of the pool by locks; editors and crashes know none.    *)
(***************************************************************************)
EXTENDS Integers, FiniteSets

CONSTANTS
  Item, Operator,
  None,        \* no item, no file
  Half,        \* a file of the archive that is not completely written
  Suits,       \* pairs <<r, o>>: same tenant and project, r reviewed and as visible
  Kinds,       \* the operations that are used
  Faults,      \* the faults that occur: "crash", "io", "ledger", "torn", "index"
  MaxOps, MaxWrites, MaxFaults

ASSUME KindsAssumption ==
  Kinds \subseteq {"supersede", "revert-supersession", "archive", "keep-active", "defer"}
ASSUME BoundsAssumption == MaxOps \in Nat /\ MaxWrites \in Nat /\ MaxFaults \in Nat

VARIABLES
  item,        \* [Item -> the file: body, time of observation, frontmatter]
  archived,    \* [Item -> the copy in items/archived]
  latest,      \* [<<r, o>> -> what the last ledger record of the pair says]
  deferred,    \* items whose last record defers them
  torn,        \* whether a line of the ledger is unreadable
  horizon,     \* [Item -> observations up to this one are stale]
  stale,       \* items whose index row is not made from the file
  job,         \* [Operator -> the operation in hand]
  ops, writes, faults

vars == <<item, archived, latest, deferred, torn, horizon, stale, job, ops, writes, faults>>
disk == <<item, archived, stale>>
ledger == <<latest, deferred, torn>>

Content == [body : Nat, seen : Nat, sup : Item \cup {None}, refs : SUBSET Item]
Pair == Item \X Item
ASSUME ItemsAssumption == None \notin Item /\ None \notin Content /\ Half \notin Content \cup {None}

Idle == [at |-> "idle", kind |-> "none", o |-> None, r |-> None, oldO |-> None, oldR |-> None,
         newO |-> None, newR |-> None, pre |-> FALSE, why |-> "none", touched |-> {}]

Init ==
  /\ item = [i \in Item |-> [body |-> 0, seen |-> 1, sup |-> None, refs |-> {}]]
  /\ archived = [i \in Item |-> None]
  /\ latest = [x \in Pair |-> "none"] /\ deferred = {} /\ torn = "no"
  /\ horizon = [i \in Item |-> 0] /\ stale = {}
  /\ job = [p \in Operator |-> Idle]
  /\ ops = 0 /\ writes = 0 /\ faults = 0

-----------------------------------------------------------------------------
(* Locks, faults, and one record appended to the ledger.                   *)

At(p, s) == job[p].at = s
Inside(p) == job[p].at \notin {"idle", "queued"}
Free == \A p \in Operator : ~Inside(p)
Go(p, s) == job' = [job EXCEPT ![p].at = s]
End(p) == job' = [job EXCEPT ![p] = Idle]

Fault(f) == f \in Faults /\ faults < MaxFaults /\ faults' = faults + 1
FaultOnly(f) == Fault(f) /\ UNCHANGED <<horizon, ops, writes>>
NoFault == UNCHANGED <<horizon, ops, writes, faults>>

\* a record that follows half a line is part of that line
Append(m, d) ==
  IF torn = "half" THEN torn' = "bad" /\ UNCHANGED <<latest, deferred>>
  ELSE latest' = m /\ deferred' = d /\ UNCHANGED torn
\* half a line; nothing before it is read any more
Tear == latest' = [x \in Pair |-> "none"] /\ torn' = "half" /\ UNCHANGED deferred
\* an append that raises: truncated, or, if that fails too, whole or half
Unappended(m, d) ==
  \/ UNCHANGED ledger
  \/ "torn" \in Faults /\ (Append(m, d) \/ Tear)

\* active_lifecycle_deferrals: one bad line and there are none
Deferrals == IF torn = "no" THEN deferred ELSE {}

-----------------------------------------------------------------------------
(* Supersession: the obsolete item is marked, the replacement refers to it. *)

Present(i) == item[i] # None

\* the replacement's chain ends, at an item that is there, without the obsolete one
NoLoop(S) == \A T \in SUBSET S : T # {} => \E x \in T : item[x].sup \notin T
EndsNext(r, o) ==   \* mutant: only the next item of the chain is looked at
  Present(r) /\ item[r].sup # o
EndsApart(r, o) ==
  \E C \in SUBSET (Item \ {o}) :
    /\ r \in C
    /\ \A x \in C : Present(x) /\ item[x].sup \in C \cup {None}
    /\ NoLoop(C)
Valid(r, o) == r # o /\ Present(r) /\ Present(o) /\ <<r, o>> \in Suits /\ EndsApart(r, o)

Ready(kind, r, o) ==
  IF kind = "supersede" THEN Valid(r, o) /\ item[o].sup = None
  ELSE r # o /\ Present(r) /\ Present(o) /\ item[o].sup = r

\* whether the replacement's reference is older than the supersession
Preexisted(kind, r, o) ==
  IF kind = "supersede" THEN o \in item[r].refs ELSE latest[<<r, o>>] # "linked"

Marked(kind, r, c) == [c EXCEPT !.sup = IF kind = "supersede" THEN r ELSE None]
Related(kind, o, c) ==
  [c EXCEPT !.refs = IF kind = "supersede" THEN @ \cup {o} ELSE @ \ {o}]

\* locks, preview, the bytes of both files
Start(p, kind, r, o) ==
  /\ kind \in Kinds /\ At(p, "idle") /\ Free /\ ops < MaxOps
  /\ Ready(kind, r, o)
  /\ job' = [job EXCEPT ![p] =
       [Idle EXCEPT !.at = "check", !.kind = kind, !.o = o, !.r = r,
          !.oldO = item[o], !.oldR = item[r], !.pre = Preexisted(kind, r, o)]]
  /\ ops' = ops + 1
  /\ UNCHANGED <<disk, ledger, horizon, writes, faults>>

\* what is already superseded is only indexed again
StartAgain(p, r, o) ==
  /\ "supersede" \in Kinds /\ At(p, "idle") /\ Free /\ Valid(r, o) /\ item[o].sup = r
  /\ stale' = stale \ {r, o} /\ stale' # stale
  /\ UNCHANGED <<item, archived, ledger, job>> /\ NoFault

AsRead(p) == item[job[p].o] = job[p].oldO /\ item[job[p].r] = job[p].oldR

\* the snapshot is made, both files are read again
Check(p) ==
  /\ At(p, "check")
  /\ job' = [job EXCEPT ![p].at = IF AsRead(p) THEN "prepare" ELSE "note",
                        ![p].why = IF AsRead(p) THEN "none" ELSE "concurrent"]
  /\ UNCHANGED <<disk, ledger>> /\ NoFault
CheckFails(p) ==
  /\ At(p, "check") /\ FaultOnly("io")
  /\ End(p) /\ UNCHANGED <<disk, ledger>>

Prepare(p) ==
  /\ At(p, "prepare")
  /\ LET j == job[p] IN
     job' = [job EXCEPT ![p].at = "mark",
               ![p].newO = Marked(j.kind, j.r, item[j.o]),
               ![p].newR = IF j.pre THEN j.oldR ELSE Related(j.kind, j.o, item[j.r])]
  /\ UNCHANGED <<disk, ledger>> /\ NoFault

Put(i, c) == item' = [item EXCEPT ![i] = c] /\ stale' = stale \cup {i}
Undone(p, why) == job' = [job EXCEPT ![p].at = "undo", ![p].why = why]

WriteMark(p) == Put(job[p].o, Marked(job[p].kind, job[p].r, item[job[p].o]))
Mark(p) ==
  /\ At(p, "mark") /\ WriteMark(p) /\ Go(p, "link")
  /\ UNCHANGED <<archived, ledger>> /\ NoFault
\* an exception, before or after the write
MarkFails(p) ==
  /\ At(p, "mark") /\ FaultOnly("io")
  /\ WriteMark(p) \/ UNCHANGED <<item, stale>>
  /\ Undone(p, "markdown") /\ UNCHANGED <<archived, ledger>>

\* the mark is compared with what was prepared before the link is written
Link(p) ==
  LET j == job[p] IN
  /\ At(p, "link")
  /\ IF item[j.o] # j.newO THEN Undone(p, "markdown") /\ UNCHANGED <<item, stale>>
     ELSE /\ Go(p, "record")
          /\ IF j.pre THEN UNCHANGED <<item, stale>> ELSE Put(j.r, Related(j.kind, j.o, item[j.r]))
  /\ UNCHANGED <<archived, ledger>> /\ NoFault
LinkFails(p) ==
  LET j == job[p] IN
  /\ At(p, "link") /\ item[j.o] = j.newO /\ ~j.pre /\ FaultOnly("io")
  /\ Put(j.r, Related(j.kind, j.o, item[j.r])) \/ UNCHANGED <<item, stale>>
  /\ Undone(p, "markdown") /\ UNCHANGED <<archived, ledger>>

LinkStands(p) == job[p].pre \/ item[job[p].r] = job[p].newR
OutcomeNamed(p) ==   \* mutant: the reader does not know the name of a revert
  IF job[p].kind = "supersede" THEN IF job[p].pre THEN "kept" ELSE "linked" ELSE job[p].kind
\* the records "applied" and "reverted" also end a deferral
Outcome(p) ==
  IF job[p].kind = "revert-supersession" THEN "other"
  ELSE IF job[p].pre THEN "kept" ELSE "linked"
AppendOutcome(p) ==
  Append([latest EXCEPT ![<<job[p].r, job[p].o>>] = Outcome(p)], deferred \ {job[p].o})
Record(p) ==
  /\ At(p, "record")
  /\ IF LinkStands(p) THEN AppendOutcome(p) /\ Go(p, "sync")
     ELSE UNCHANGED ledger /\ Undone(p, "markdown")
  /\ UNCHANGED disk /\ NoFault
RecordFails(p) ==
  /\ At(p, "record") /\ LinkStands(p) /\ FaultOnly("ledger")
  /\ Unappended([latest EXCEPT ![<<job[p].r, job[p].o>>] = Outcome(p)], deferred \ {job[p].o})
  /\ Undone(p, "ledger") /\ UNCHANGED disk

Sync(p) ==
  /\ At(p, "sync") /\ End(p)
  /\ \/ stale' = stale \ {job[p].r, job[p].o} /\ NoFault
     \/ UNCHANGED stale /\ FaultOnly("index")
  /\ UNCHANGED <<item, archived, ledger>>

-----------------------------------------------------------------------------
(* The rollback of a pair.                                                 *)

Ours(p) ==
  item[job[p].o] \in {job[p].oldO, job[p].newO} /\ item[job[p].r] \in {job[p].oldR, job[p].newR}
GiveUp(p) == job' = [job EXCEPT ![p].at = "note", ![p].why = "rollback"]

\* a file that cannot be read ends the rollback; each restore may fail, and that
\* failure is passed over
Undo(p) ==
  /\ At(p, "undo")
  /\ \/ ~Ours(p) /\ GiveUp(p) /\ UNCHANGED <<item, stale>> /\ NoFault
     \/ GiveUp(p) /\ UNCHANGED <<item, stale>> /\ FaultOnly("io")
     \/ /\ Ours(p) /\ Go(p, "undo more")
        /\ \/ Put(job[p].o, job[p].oldO) /\ NoFault
           \/ UNCHANGED <<item, stale>> /\ FaultOnly("io")
  /\ UNCHANGED <<archived, ledger>>
UndoMore(p) ==
  /\ At(p, "undo more") /\ Go(p, "settle")
  /\ \/ Put(job[p].r, job[p].oldR) /\ NoFault
     \/ UNCHANGED <<item, stale>> /\ FaultOnly("io")
  /\ UNCHANGED <<archived, ledger>>
SettleAnyway(p) ==   \* mutant: the snapshot is not used
  At(p, "settle") /\ Go(p, "note") /\ UNCHANGED <<disk, ledger>> /\ NoFault
\* the snapshot is the second way back; it may fail after one file, and the
\* comparison after it may fail as well
Settle(p) ==
  LET j == job[p]
      Back(c, d) == /\ item' = [item EXCEPT ![j.o] = c, ![j.r] = d]
                    /\ stale' = stale \cup {j.o, j.r}
  IN
  /\ At(p, "settle")
  /\ \/ /\ AsRead(p) /\ Go(p, "note") /\ UNCHANGED <<item, stale>> /\ NoFault
     \/ ~AsRead(p) /\ Go(p, "note") /\ Back(j.oldO, j.oldR) /\ NoFault
     \/ /\ GiveUp(p) /\ FaultOnly("io")
        /\ \E c \in {item[j.o], j.oldO}, d \in {item[j.r], j.oldR} : Back(c, d)
  /\ UNCHANGED <<archived, ledger>>

\* a record of the failure, if it can be written; none of a failed record
Note(p) ==
  /\ At(p, "note") /\ End(p)
  /\ \/ job[p].why = "ledger" /\ UNCHANGED ledger /\ NoFault
     \/ /\ job[p].why # "ledger" /\ NoFault
        /\ Append([latest EXCEPT ![<<job[p].r, job[p].o>>] = "other"], deferred)
     \/ /\ job[p].why # "ledger" /\ FaultOnly("ledger")
        /\ Unappended([latest EXCEPT ![<<job[p].r, job[p].o>>] = "other"], deferred)
  /\ UNCHANGED disk

-----------------------------------------------------------------------------
(* Archiving: a copy, compared, and then the file is unlinked.             *)

Due(i) == item[i].sup = None /\ item[i].seen <= horizon[i]
Eligible(i) == i \notin Deferrals /\ Due(i)

\* the review plan is made before any lock
Plan(p, i) ==
  /\ "archive" \in Kinds /\ At(p, "idle") /\ ops < MaxOps
  /\ Present(i) /\ Eligible(i)
  /\ job' = [job EXCEPT ![p] = [Idle EXCEPT !.at = "queued", !.kind = "archive", !.o = i]]
  /\ ops' = ops + 1
  /\ UNCHANGED <<disk, ledger, horizon, writes, faults>>

\* pre: the copy is from an earlier, interrupted archiving
Open(p) ==
  LET i == job[p].o
      goes(s, old) == job' = [job EXCEPT ![p].at = s, ![p].oldO = item[i], ![p].pre = old]
  IN
  /\ At(p, "queued") /\ Free
  /\ CASE ~Present(i) ->
            /\ End(p)
            /\ stale' \in {stale, IF archived[i] \in {None, Half} THEN stale ELSE stale \ {i}}
       [] Present(i) /\ Eligible(i) /\ archived[i] = None -> goes("copy", FALSE) /\ UNCHANGED stale
       [] Present(i) /\ Eligible(i) /\ archived[i] = item[i] -> goes("verify", TRUE) /\ UNCHANGED stale
       [] OTHER -> End(p) /\ UNCHANGED stale
  /\ UNCHANGED <<item, archived, ledger>> /\ NoFault

Copy(p) ==
  /\ At(p, "copy") /\ Go(p, "fill")
  /\ archived' = [archived EXCEPT ![job[p].o] = Half]
  /\ UNCHANGED <<item, stale, ledger>> /\ NoFault
Fill(p) ==
  /\ At(p, "fill") /\ Go(p, "verify")
  /\ archived' = [archived EXCEPT ![job[p].o] = job[p].oldO]
  /\ UNCHANGED <<item, stale, ledger>> /\ NoFault
\* a copy of this operation is removed again, if that is possible
Discard(p) ==
  \/ ~job[p].pre /\ archived' = [archived EXCEPT ![job[p].o] = None]
  \/ UNCHANGED archived
CopyFails(p) ==
  /\ job[p].at \in {"fill", "verify"} /\ FaultOnly("io")
  /\ Discard(p) /\ End(p)
  /\ UNCHANGED <<item, stale, ledger>>

CopyThere(p) == archived[job[p].o] = job[p].oldO   \* mutant: the file is not read again
Copied(p) == archived[job[p].o] = job[p].oldO /\ item[job[p].o] = job[p].oldO
Verify(p) ==
  /\ At(p, "verify")
  /\ IF Copied(p) THEN job' = [job EXCEPT ![p].at = "unlink", ![p].touched = {}] ELSE End(p)
  /\ UNCHANGED <<disk, ledger>> /\ NoFault

Unlink(p) ==
  /\ At(p, "unlink") /\ End(p) /\ item' = [item EXCEPT ![job[p].o] = None]
  /\ \/ stale' = stale \ {job[p].o} /\ NoFault
     \/ stale' = stale \cup {job[p].o} /\ FaultOnly("index")
  /\ UNCHANGED <<archived, ledger>>
\* an exception before the unlink or after it
UnlinkFails(p) ==
  /\ At(p, "unlink") /\ FaultOnly("io") /\ End(p)
  /\ Put(job[p].o, None) \/ UNCHANGED <<item, stale>>
  /\ UNCHANGED <<archived, ledger>>

-----------------------------------------------------------------------------
(* Keeping an item active, deferring it.                                   *)

\* an exception after the write leaves it there, without a record
Observed(c) == [c EXCEPT !.seen = @ + 1]
KeepActive(p, i) ==
  /\ "keep-active" \in Kinds /\ At(p, "idle") /\ Free /\ ops < MaxOps
  /\ Present(i) /\ item[i].sup = None
  /\ Put(i, Observed(item[i]))
  /\ \/ /\ job' = [job EXCEPT ![p] = [Idle EXCEPT !.at = "keep", !.kind = "keep-active", !.o = i,
                                     !.oldO = item[i], !.newO = Observed(item[i])]]
        /\ UNCHANGED faults
     \/ UNCHANGED job /\ Fault("io")
  /\ ops' = ops + 1
  /\ UNCHANGED <<archived, ledger, horizon, writes>>

\* what was edited meanwhile is not recorded
KeepRecord(p) ==
  LET i == job[p].o IN
  /\ At(p, "keep") /\ End(p)
  /\ IF item[i] # job[p].newO THEN UNCHANGED <<stale, ledger>> /\ NoFault
     ELSE /\ Append(latest, deferred \ {i})
          /\ \/ stale' = stale \ {i} /\ NoFault
             \/ UNCHANGED stale /\ FaultOnly("index")
  /\ UNCHANGED <<item, archived>>
KeepFails(p) ==
  LET i == job[p].o IN
  /\ At(p, "keep") /\ item[i] = job[p].newO /\ FaultOnly("ledger") /\ End(p)
  /\ Unappended(latest, deferred \ {i})
  /\ Put(i, job[p].oldO) \/ UNCHANGED <<item, stale>>
  /\ UNCHANGED archived

Defer(p, i) ==
  /\ "defer" \in Kinds /\ At(p, "idle") /\ Free /\ ops < MaxOps /\ Present(i)
  /\ \/ Append(latest, deferred \cup {i}) /\ UNCHANGED faults
     \/ Unappended(latest, deferred \cup {i}) /\ Fault("ledger")
  /\ ops' = ops + 1
  /\ UNCHANGED <<disk, job, horizon, writes>>

-----------------------------------------------------------------------------
(* Time, crashes, and everybody else.                                      *)

Expires(i) ==
  /\ i \in deferred /\ deferred' = deferred \ {i}
  /\ UNCHANGED <<disk, latest, torn, job>> /\ NoFault
Ages(i) ==
  /\ "archive" \in Kinds /\ Present(i) /\ horizon[i] < item[i].seen
  /\ horizon' = [horizon EXCEPT ![i] = item[i].seen]
  /\ UNCHANGED <<disk, ledger, job, ops, writes, faults>>

Crash(p) ==
  /\ Inside(p) /\ FaultOnly("crash") /\ End(p)
  /\ \/ UNCHANGED ledger
     \/ "torn" \in Faults /\ job[p].at \in {"record", "note", "keep"} /\ Tear
  /\ UNCHANGED disk

Writes == writes < MaxWrites /\ writes' = writes + 1
Writer(i, c) ==
  /\ Free /\ Present(i) /\ Writes /\ Put(i, c)
  /\ UNCHANGED <<archived, ledger, job, horizon, ops, faults>>
\* store.link_mem, and the three writers of superseded_by that look at no chain
Relate(i, j) ==
  i # j /\ Present(i) /\ j \notin item[i].refs /\ Writer(i, [item[i] EXCEPT !.refs = @ \cup {j}])
Resolve(i, j) == i # j /\ Writer(i, [item[i] EXCEPT !.sup = j])
Delete(i) ==
  /\ Free /\ Present(i) /\ Writes
  /\ item' = [item EXCEPT ![i] = None] /\ stale' = stale \ {i}
  /\ UNCHANGED <<archived, ledger, job, horizon, ops, faults>>
\* an editor knows no lock
Edit(i) ==
  /\ Present(i) /\ Writes
  /\ Put(i, [item[i] EXCEPT !.body = @ + 1])
  /\ job' = [p \in Operator |->
               IF Inside(p) /\ i \in {job[p].o, job[p].r} THEN [job[p] EXCEPT !.touched = @ \cup {i}]
               ELSE job[p]]
  /\ UNCHANGED <<archived, ledger, horizon, ops, faults>>

-----------------------------------------------------------------------------
Begin(p) ==
  \/ \E kind \in {"supersede", "revert-supersession"}, r, o \in Item : Start(p, kind, r, o)
  \/ \E r, o \in Item : StartAgain(p, r, o)
  \/ \E i \in Item : Plan(p, i) \/ KeepActive(p, i) \/ Defer(p, i)
Supersession(p) ==
  \/ Check(p) \/ CheckFails(p) \/ Prepare(p) \/ Mark(p) \/ MarkFails(p) \/ Link(p) \/ LinkFails(p)
  \/ Record(p) \/ RecordFails(p) \/ Sync(p) \/ Undo(p) \/ UndoMore(p) \/ Settle(p) \/ Note(p)
Archiving(p) ==
  Open(p) \/ Copy(p) \/ Fill(p) \/ CopyFails(p) \/ Verify(p) \/ Unlink(p) \/ UnlinkFails(p)
Keeping(p) == KeepRecord(p) \/ KeepFails(p)
Others ==
  \E i \in Item :
    Expires(i) \/ Ages(i) \/ Delete(i) \/ Edit(i) \/ \E j \in Item : Relate(i, j) \/ Resolve(i, j)

Next ==
  \/ \E p \in Operator : Begin(p) \/ Supersession(p) \/ Archiving(p) \/ Keeping(p) \/ Crash(p)
  \/ Others

Spec == Init /\ [][Next]_vars
=============================================================================
