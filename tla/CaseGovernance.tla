---------------------------- MODULE CaseGovernance ----------------------------
(***************************************************************************)
(* One contradiction Case: automatic governance contains its items, a      *)
(* reviewer decides it, an operator recovers what was interrupted          *)
(* (memory/governance: auto_governance, contradiction_containment,         *)
(* contradiction_resolution).                                              *)
(*                                                                         *)
(* Both transactions have one skeleton: snapshot, `prepared` receipt, one  *)
(* atomic write per item, index, terminal receipt, all of it under the     *)
(* lifecycle lock and the catalog lock.  What is outside the locks is a    *)
(* step of its own: the survey of governance, the preview of a reviewer,   *)
(* the first check of a recovery, and the gap before a rollback.           *)
(*                                                                         *)
(* A digest is the content it is the digest of.  The two ledgers are one   *)
(* table of transactions in the order of their prepared receipts; `twice`  *)
(* is a transaction with two terminal receipts.  A reader calls a ledger   *)
(* corrupt that has one, or that ends in half a line.                      *)
(***************************************************************************)
EXTENDS Integers, FiniteSets, FiniteSetsExt

CONSTANTS
  Case,        \* the items of the case
  Outside,     \* items a merge may put in their place
  Worker,      \* processes: governance, reviewers and operators
  None,
  Kinds,       \* the transactions that run: "contain", "resolve"
  Actions,     \* the decisions reviewers take
  Ripe,        \* items whose maturity score passes its threshold when undisputed
  FloorConf,   \* the 0.3 under which a containment does not put a confidence
  MaxConf,     \* confidence, in steps of 0.15
  MaxText,     \* bound on the edits of one item
  MaxTxn,      \* bound on the transactions
  MaxClock,    \* bound on the days that pass
  MaxDeletes,  \* bound on the items that are gone
  Faults,      \* what goes wrong: "crash", "tear" (a crash inside an append),
               \* "fail" (an error that is handled), "index"
  MaxFaults    \* bound on failed operations and deaths of processes

Item == Case \cup Outside
Txn == 1..MaxTxn
AllActions == {"select_authority", "merge", "coexist", "dismiss", "defer"}

\* what the files say of an item: text stands for everything a user writes,
\* held for the tags of a containment, marks for the tags of decisions
Content ==
  [text : 0..MaxText, conf : 0..MaxConf, held : BOOLEAN,
   marks : SUBSET (AllActions \cup {"resolved", "approved"}),
   by : Item \cup {None}, mature : BOOLEAN]

ASSUME ItemsAssumption ==
  /\ IsFiniteSet(Case) /\ IsFiniteSet(Outside) /\ Case \cap Outside = {}
  /\ None \notin Item /\ None \notin Worker /\ None \notin Content /\ Ripe \subseteq Item
  /\ None \notin [text : Nat, marks : SUBSET (AllActions \cup {"resolved"}), by : Item \cup {None}]
ASSUME KindsAssumption ==
  /\ Kinds \subseteq {"contain", "resolve"} /\ Actions \subseteq AllActions
  /\ Faults \subseteq {"crash", "tear", "fail", "index"}
ASSUME BoundsAssumption ==
  /\ FloorConf \in Nat /\ MaxConf \in Nat /\ FloorConf <= MaxConf /\ MaxText \in Nat
  /\ MaxTxn \in Nat /\ MaxClock \in Nat /\ MaxDeletes \in Nat /\ MaxFaults \in Nat

VARIABLES
  md,         \* [Item -> content of the md file, None when it is deleted]
  ledger,     \* [Txn -> the receipts of one transaction]
  lock,       \* who holds the lifecycle and the catalog lock
  job,        \* [Worker -> the operation in hand]
  clock,      \* days
  faults,
  unindexed,  \* items a transaction wrote that have no fresh row and no marker line
  torn        \* kinds whose ledger ends in half a receipt

vars == <<md, ledger, lock, job, clock, faults, unindexed, torn>>

Present(i) == md[i] # None
Fault(f) == f \in Faults /\ faults < MaxFaults /\ faults' = faults + 1

Nothing == [i \in {} |-> None]
NoSight == [action |-> "none", target |-> None, before |-> Nothing, base |-> Nothing]
NoTxn == [kind |-> "none", state |-> "none", items |-> {}, before |-> Nothing,
          after |-> Nothing, action |-> "none", target |-> None, until |-> 0, repair |-> FALSE]
Idle == [at |-> "idle", txn |-> 0, todo |-> {}, plan |-> Nothing, sight |-> NoSight]

Init ==
  /\ md = [i \in Item |-> [text |-> 0, conf |-> MaxConf, held |-> FALSE, marks |-> {},
                           by |-> None, mature |-> FALSE]]
  /\ ledger = [t \in Txn |-> NoTxn]
  /\ lock = None
  /\ job = [p \in Worker |-> Idle]
  /\ clock = 0 /\ faults = 0
  /\ unindexed = {} /\ torn = {}

Writing(t, plan, sight) ==
  [at |-> "write", txn |-> t, todo |-> DOMAIN plan, plan |-> plan, sight |-> sight]
Step(p, fields) == job' = [job EXCEPT ![p] = fields]
Leave(p) == Step(p, Idle)

-----------------------------------------------------------------------------
(* The receipt ledgers.                                                    *)

Of(kind) == {t \in Txn : ledger[t].kind = kind}
Corrupt(kind) == kind \in torn \/ \E t \in Of(kind) : ledger[t].state = "twice"
Incomplete(kind) == \E t \in Of(kind) : ledger[t].state = "prepared"
\* mutant: a transaction that was left open does not stop the next
UsableOpen(kind) == ~Corrupt(kind)
Usable(kind) == ~Corrupt(kind) /\ ~Incomplete(kind)

\* transaction ids are random; the table keeps the order of the receipts
IsNext(t) == t \in Txn /\ \A s \in Txn : ledger[s].state = "none" <=> s >= t
Full == \A t \in Txn : ledger[t].state # "none"

Last(S) == CHOOSE t \in S : \A s \in S : s <= t

\* mutant: the terminal receipt has no digests
SettledBlank(t, state, after, repair) ==
  [ledger EXCEPT ![t].state = IF @ = "prepared" THEN state ELSE "twice", ![t].repair = repair]
\* a terminal receipt after the first one is appended all the same; one that is
\* appended to half a receipt is part of that line, and no reader finds it
Settled(t, state, after, repair) ==
  IF ledger[t].kind \in torn THEN ledger
  ELSE [ledger EXCEPT ![t].state = IF @ = "prepared" THEN state ELSE "twice",
                      ![t].after = after, ![t].repair = repair]

-----------------------------------------------------------------------------
(* What the receipts say of the items.                                     *)

Containments(i) ==
  {t \in Of("contain") : ledger[t].state = "completed" /\ i \in ledger[t].items}
IsBaseline(i) ==
  \E t \in Containments(i) :
    (\A s \in Containments(i) : s <= t) /\ md[i] = ledger[t].after[i]
\* neither "missing" nor "changed" nor "unavailable"
ProvenanceHealthy ==
  /\ Usable("contain")
  /\ \A i \in Case : Present(i) /\ (md[i].held => IsBaseline(i))
Baselines == [i \in Case |-> IF IsBaseline(i) THEN Last(Containments(i)) ELSE 0]

Decisions == {t \in Of("resolve") : ledger[t].state = "completed"}
DecisionMatches(t) == \A i \in ledger[t].items : md[i] = ledger[t].after[i]
\* the case is neither resolved nor deferred at present
CaseOpen ==
  \A t \in Decisions :
    (\A s \in Decisions : s <= t) =>
      \/ ~DecisionMatches(t)
      \/ ledger[t].action = "defer" /\ ledger[t].until <= clock

-----------------------------------------------------------------------------
(* Containment.                                                            *)

\* the survey of a governance pass; an item that something replaced is no conflict
Survey(p) ==
  /\ "contain" \in Kinds /\ job[p] = Idle
  /\ \A i \in Case : Present(i) /\ md[i].by = None
  /\ Step(p, [Idle EXCEPT !.at = "contain"])
  /\ UNCHANGED <<md, ledger, lock, clock, faults, unindexed, torn>>

\* mutant: the snapshot is taken of the prepared mutations
SnapshotLate(S) == [i \in S |-> [md[i] EXCEPT !.held = TRUE]]
Snapshot(S) == [i \in S |-> md[i]]

Exposed == {i \in Case : ~md[i].held}
Contained(c) ==
  [c EXCEPT !.held = TRUE, !.conf = IF @ <= FloorConf THEN FloorConf ELSE @ - 1]

ContainAllowed == ProvenanceHealthy /\ Exposed # {}

ContainPrepare(p) ==
  /\ job[p].at = "contain" /\ lock = None
  /\ ContainAllowed
  /\ \E t \in Txn :
       /\ IsNext(t)
       /\ ledger' = [ledger EXCEPT ![t] =
            [NoTxn EXCEPT !.kind = "contain", !.state = "prepared", !.items = Exposed,
                          !.before = Snapshot(Exposed)]]
       /\ Step(p, Writing(t, [i \in Exposed |-> Contained(md[i])], NoSight))
  /\ lock' = p
  /\ UNCHANGED <<md, clock, faults, unindexed, torn>>

ContainRefused(p) ==
  /\ job[p].at = "contain" /\ lock = None
  /\ ~ContainAllowed \/ Full
  /\ Leave(p)
  /\ UNCHANGED <<md, ledger, lock, clock, faults, unindexed, torn>>

-----------------------------------------------------------------------------
(* Decision of a case.                                                     *)

DecisionItems(action, target) == Case \cup (IF action = "merge" THEN {target} ELSE {})
ValidTarget(action, target) ==
  CASE action = "select_authority" -> target \in Case
    [] action = "merge" -> target \in Outside
    [] OTHER -> target = None

\* i and what replaced it, and what replaced that
Successors(i) ==
  {j \in Item : \A S \in SUBSET Item :
     i \in S /\ (\A k \in S : Present(k) /\ md[k].by # None => md[k].by \in S) => j \in S}

\* SupersessionService.preview says "ready": the way from the target ends, and not at i
PairReady(target, i) ==
  /\ target # i /\ Present(target) /\ Present(i)
  /\ ~md[target].held /\ md[i].by = None
  /\ i \notin Successors(target)
  /\ \A j \in Successors(target) : Present(j)
  /\ \E j \in Successors(target) : md[j].by = None

PairsReady(action, target) ==
  action \in {"select_authority", "merge"} =>
    \A i \in Case \ {target} : PairReady(target, i)

ResolveAllowed(action, target) ==
  /\ ValidTarget(action, target)
  /\ \A i \in DecisionItems(action, target) : Present(i)
  /\ action = "defer" \/ ProvenanceHealthy
  /\ Usable("resolve") /\ CaseOpen
  /\ PairsReady(action, target)

\* what the intent digest binds
Sight(action, target) ==
  [action |-> action, target |-> target,
   before |-> [i \in DecisionItems(action, target) |-> md[i]],
   base |-> IF action = "defer" THEN Nothing ELSE Baselines]

Preview(p, action, target) ==
  /\ "resolve" \in Kinds /\ job[p] = Idle /\ lock = None
  /\ ResolveAllowed(action, target)
  /\ Step(p, [Idle EXCEPT !.at = "decide", !.sight = Sight(action, target)])
  /\ UNCHANGED <<md, ledger, lock, clock, faults, unindexed, torn>>

\* the content before its containment, as far as a decision restores it
Restored(i) ==
  IF i \in Case /\ IsBaseline(i)
  THEN LET b == ledger[Last(Containments(i))].before[i]
       IN [md[i] EXCEPT !.held = b.held, !.marks = b.marks, !.conf = b.conf]
  ELSE md[i]
Mark(c, mark) == [c EXCEPT !.marks = @ \cup {mark}]

Decided(action, target, i) ==
  CASE action \in {"coexist", "dismiss"} -> Mark(Restored(i), action)
    [] i = target -> Mark(Restored(i), action)
    [] OTHER -> [Mark(Restored(i), "resolved") EXCEPT !.by = target]
Rewritten(action, target) == IF action = "defer" THEN {} ELSE DecisionItems(action, target)

\* mutant: the intent digest is not computed again under the locks
IntentTrusted(s) == ResolveAllowed(s.action, s.target)
IntentHolds(s) == ResolveAllowed(s.action, s.target) /\ s = Sight(s.action, s.target)

ResolvePrepare(p) ==
  /\ job[p].at = "decide" /\ lock = None
  /\ LET s == job[p].sight
         ids == Rewritten(s.action, s.target)
     IN /\ IntentHolds(s)
        /\ \E t \in Txn :
             /\ IsNext(t)
             /\ ledger' = [ledger EXCEPT ![t] =
                  [NoTxn EXCEPT !.kind = "resolve", !.state = "prepared",
                                !.items = DOMAIN s.before,
                                !.before = Snapshot(DOMAIN s.before),
                                !.action = s.action, !.target = s.target,
                                !.until = IF s.action = "defer" THEN clock + 1 ELSE 0]]
             /\ Step(p, Writing(t, [i \in ids |-> Decided(s.action, s.target, i)], s))
  /\ lock' = p
  /\ UNCHANGED <<md, clock, faults, unindexed, torn>>

ResolveRefused(p) ==
  /\ job[p].at = "decide" /\ lock = None
  /\ ~IntentHolds(job[p].sight) \/ Full
  /\ Leave(p)
  /\ UNCHANGED <<md, ledger, lock, clock, faults, unindexed, torn>>

-----------------------------------------------------------------------------
(* The common skeleton, under the locks.                                   *)

WriteItem(p) ==
  /\ job[p].at = "write"
  /\ \E i \in job[p].todo :
       /\ md' = [md EXCEPT ![i] = job[p].plan[i]]
       /\ Step(p, [job[p] EXCEPT !.todo = @ \ {i}])
       /\ unindexed' = unindexed \cup {i}
  /\ UNCHANGED <<ledger, lock, clock, faults, torn>>

\* a row or a marker line for each of these, or neither for some of them
Reindexed(items) == unindexed' = unindexed \ items
ReindexFails(items) ==
  /\ Fault("index")
  /\ \E lost \in SUBSET items : unindexed' = unindexed \ (items \ lost)

\* mutant: the receipt does not say that the index needs a repair
CompleteUnflagged(p) ==
  /\ job[p].at = "write" /\ job[p].todo = {}
  /\ ledger' = Settled(job[p].txn, "completed", Snapshot(ledger[job[p].txn].items), FALSE)
  /\ \/ Reindexed(DOMAIN job[p].plan) /\ UNCHANGED faults
     \/ ReindexFails(DOMAIN job[p].plan)
  /\ lock' = None
  /\ Leave(p)
  /\ UNCHANGED <<md, clock, torn>>
Complete(p) ==
  /\ job[p].at = "write" /\ job[p].todo = {}
  /\ LET t == job[p].txn
         after == Snapshot(ledger[t].items)
     IN \/ /\ ledger' = Settled(t, "completed", after, FALSE)
           /\ Reindexed(DOMAIN job[p].plan) /\ UNCHANGED faults
        \/ /\ ledger' = Settled(t, "completed", after, TRUE)
           /\ ReindexFails(DOMAIN job[p].plan)
  /\ lock' = None
  /\ Leave(p)
  /\ UNCHANGED <<md, clock, torn>>

\* an item write or the last receipt fails; the locks are released before the rollback
Fail(p) ==
  /\ job[p].at = "write" /\ Fault("fail")
  /\ Step(p, [job[p] EXCEPT !.at = "rollback"])
  /\ lock' = None
  /\ UNCHANGED <<md, ledger, clock, unindexed, torn>>

Rollback(p) ==
  /\ job[p].at = "rollback" /\ lock = None
  /\ Step(p, [Idle EXCEPT !.at = "undo", !.txn = job[p].txn,
                          !.todo = ledger[job[p].txn].items])
  /\ lock' = p
  /\ UNCHANGED <<md, ledger, clock, faults, unindexed, torn>>

\* the first check of a recovery reads the ledger without a lock
ChooseRecovery(p, t) ==
  /\ job[p] = Idle
  /\ ledger[t].state = "prepared" /\ ~Corrupt(ledger[t].kind)
  /\ Step(p, [Idle EXCEPT !.at = "recover", !.txn = t])
  /\ UNCHANGED <<md, ledger, lock, clock, faults, unindexed, torn>>

Restoring(p) ==
  /\ Step(p, [job[p] EXCEPT !.at = "restore", !.todo = ledger[job[p].txn].items])
  /\ lock' = p
  /\ UNCHANGED <<md, ledger, clock, faults, unindexed, torn>>

RecoverContainment(p) ==
  /\ job[p].at = "recover" /\ lock = None
  /\ ledger[job[p].txn].kind = "contain"
  /\ Restoring(p)

\* mutant: the second look at the ledger is left out
OnceIncomplete(t) == TRUE
\* mutant: the second look asks for a ledger without open transactions
NeverIncomplete(t) == ledger[t].state = "prepared" /\ Usable("resolve")
StillIncomplete(t) == ledger[t].state = "prepared" /\ ~Corrupt("resolve")

\* the recovery of a decision reads the ledger again once it has the locks
RecoverDecision(p) ==
  /\ job[p].at = "recover" /\ lock = None
  /\ ledger[job[p].txn].kind = "resolve"
  /\ IF StillIncomplete(job[p].txn)
     THEN Restoring(p)
     ELSE Leave(p) /\ UNCHANGED <<md, ledger, lock, clock, faults, unindexed, torn>>

\* a rollback rewrites the files that are there, a recovery makes them again too
UndoItem(p) ==
  /\ job[p].at \in {"undo", "restore"}
  /\ \E i \in job[p].todo :
       /\ job[p].at = "undo" => Present(i)
       /\ md' = [md EXCEPT ![i] = ledger[job[p].txn].before[i]]
       /\ Step(p, [job[p] EXCEPT !.todo = @ \ {i}])
       /\ unindexed' = unindexed \cup {i}
  /\ UNCHANGED <<ledger, lock, clock, faults, torn>>

\* only the rollback of a containment looks at the ledger before it appends
UndoDone(p) ==
  /\ job[p].at \in {"undo", "restore"} /\ job[p].todo = {}
  /\ LET t == job[p].txn
         k == ledger[t].kind
     IN /\ ledger' = IF job[p].at = "undo" /\ k = "contain" /\ Corrupt(k) THEN ledger
                     ELSE Settled(t, "rolled_back", ledger[t].before, TRUE)
        /\ \/ Reindexed(ledger[t].items) /\ UNCHANGED faults
           \/ ReindexFails(ledger[t].items)
  /\ lock' = None
  /\ Leave(p)
  /\ UNCHANGED <<md, clock, torn>>

UndoFails(p) ==
  /\ job[p].at \in {"undo", "restore"}
  /\ \/ Fault("fail")
     \/ job[p].at = "undo" /\ (\E i \in job[p].todo : ~Present(i)) /\ UNCHANGED faults
  /\ lock' = None
  /\ Leave(p)
  /\ UNCHANGED <<md, ledger, clock, unindexed, torn>>

\* the ledger whose next receipt is p's
AppendsTo(p) ==
  CASE job[p].at = "contain" /\ lock = None /\ ContainAllowed -> {"contain"}
    [] job[p].at = "decide" /\ lock = None /\ IntentHolds(job[p].sight) -> {"resolve"}
    [] job[p].at \in {"write", "undo", "restore"} /\ job[p].todo = {} -> {ledger[job[p].txn].kind}
    [] OTHER -> {}

\* the process dies, perhaps in _append_receipt_payload, with half a line written
Crash(p) ==
  /\ job[p] # Idle
  /\ \/ Fault("crash") /\ torn' = torn
     \/ Fault("tear") /\ \E kind \in AppendsTo(p) : torn' = torn \cup {kind}
  /\ lock' = IF lock = p THEN None ELSE lock
  /\ Leave(p)
  /\ UNCHANGED <<md, ledger, clock, unindexed>>

-----------------------------------------------------------------------------
(* Other writers; each takes the catalog lock for one write.               *)

\* the conflict stays a conflict: an edit that ends it would only end the case
Edit(i) ==
  /\ lock = None /\ Present(i)
  /\ md[i].text < MaxText
  /\ md' = [md EXCEPT ![i].text = @ + 1]
  /\ UNCHANGED <<ledger, lock, job, clock, faults, unindexed, torn>>

\* score_maturity takes 0.18 off for needs-review and for a replaced item
Score(i) == i \in Ripe /\ ~md[i].held /\ md[i].by = None

\* _maturity_actions, the first thing a governance pass does
Mature(i) ==
  /\ "contain" \in Kinds /\ lock = None /\ Present(i)
  /\ md[i].mature # Score(i)
  /\ md' = [md EXCEPT ![i].mature = Score(i)]
  /\ UNCHANGED <<ledger, lock, job, clock, faults, unindexed, torn>>

\* memory review resolve --action approve: needs-review goes, once per item
Approve(i) ==
  /\ lock = None /\ Present(i)
  /\ md[i].held /\ "approved" \notin md[i].marks
  /\ md' = [md EXCEPT ![i].held = FALSE, ![i].conf = MaxConf, ![i].marks = @ \cup {"approved"}]
  /\ UNCHANGED <<ledger, lock, job, clock, faults, unindexed, torn>>

Delete(i) ==
  /\ lock = None /\ Present(i)
  /\ Cardinality({j \in Item : ~Present(j)}) < MaxDeletes
  /\ md' = [md EXCEPT ![i] = None]
  /\ UNCHANGED <<ledger, lock, job, clock, faults, unindexed, torn>>

Tick ==
  /\ clock < MaxClock
  /\ clock' = clock + 1
  /\ UNCHANGED <<md, ledger, lock, job, faults, unindexed, torn>>

-----------------------------------------------------------------------------
Run(p) ==
  \/ ContainPrepare(p) \/ ContainRefused(p)
  \/ ResolvePrepare(p) \/ ResolveRefused(p)
  \/ WriteItem(p) \/ Complete(p)
  \/ Rollback(p) \/ RecoverContainment(p) \/ RecoverDecision(p)
  \/ UndoItem(p) \/ UndoDone(p) \/ UndoFails(p)

Next ==
  \/ \E p \in Worker :
       \/ Survey(p)
       \/ \E a \in Actions, g \in Item \cup {None} : Preview(p, a, g)
       \/ \E t \in Txn : ChooseRecovery(p, t)
       \/ Run(p) \/ Fail(p) \/ Crash(p)
  \/ \E i \in Item : Edit(i) \/ Mature(i) \/ Approve(i) \/ Delete(i)
  \/ Tick

Spec == Init /\ [][Next]_vars

(* A process that is alive goes on, and an operator tries to recover what    *)
(* readiness reports as incomplete; nobody has to survey, preview or edit.  *)
Fairness ==
  \A p \in Worker :
    WF_vars(Run(p)) /\ \A t \in Txn : SF_vars(ChooseRecovery(p, t))
FairSpec == Spec /\ Fairness
=============================================================================
