------------------------- MODULE CaseDecisionProofs -------------------------
(***************************************************************************)
(* Decisions of a Case implement CaseDecisions, where a decision is one    *)
(* step, for every number of items, reviewers and operators, and whatever  *)
(* crashes, edits and deletions come between their steps.                  *)
(*                                                                         *)
(* The abstract content of an item is what its file says, or the snapshot  *)
(* of the open transaction that holds it.  A preparation swaps the one for *)
(* the other, and they are equal then; the writes of a decision, and what  *)
(* is lost under an open transaction, stay out of sight; the terminal      *)
(* receipt shows the whole decision at once, or nothing of it.             *)
(***************************************************************************)
EXTENDS CaseGovernanceProofs

\* what Committed says of an item, of any files and any ledger
Shown(c) ==
  IF c = None THEN None ELSE [text |-> c.text, marks |-> c.marks \ {"approved"}, by |-> c.by]
Opened(l, i) == {t \in {u \in Txn : l[u].kind = "resolve"} : l[t].state = "prepared" /\ i \in l[t].items}
View(m, l, i) ==
  Shown(IF Opened(l, i) = {} THEN m[i] ELSE l[Last(Opened(l, i))].before[i])

LEMMA CommittedView ==
  /\ \A i : Committed(i) = View(md, ledger, i)
  /\ \A i : Committed(i)' = View(md', ledger', i)
BY Zenon DEF Committed, View, Shown, Opened, Of

\* one transaction at most is open, so there is no choice of a snapshot
Single(l) ==
  \A s, t \in Txn :
    l[s].kind = "resolve" /\ l[t].kind = "resolve" /\ l[s].state = "prepared" /\ l[t].state = "prepared"
      => s = t

LEMMA ViewOpen ==
  ASSUME NEW m, NEW l, Single(l), NEW i, NEW t \in Opened(l, i)
  PROVE  View(m, l, i) = Shown(l[t].before[i])
<1>1. \A s \in Opened(l, i) : s = t BY DEF Opened, Single
<1>2. \A s \in Opened(l, i) : s <= t BY <1>1 DEF Opened, Txn
<1>3. Last(Opened(l, i)) = t BY <1>1, <1>2 DEF Last
<1> QED BY <1>3 DEF View

LEMMA ViewClosed ==
  ASSUME NEW m, NEW l, NEW i, Opened(l, i) = {}
  PROVE  View(m, l, i) = Shown(m[i])
BY DEF View

\* A decision, as far as a view shows it.
Ruled(action, target, i, c) ==
  IF action \in {"coexist", "dismiss"} \/ i = target THEN Mark(c, action)
  ELSE [Mark(c, "resolved") EXCEPT !.by = target]

LEMMA ContentShown ==
  ASSUME NEW c \in Content
  PROVE  /\ c # None /\ Shown(c) # None
         /\ Shown(c) = [text |-> c.text, marks |-> c.marks \ {"approved"}, by |-> c.by]
<1>1. c # None BY ItemsAssumption
<1>2. Shown(c) = [text |-> c.text, marks |-> c.marks \ {"approved"}, by |-> c.by]
  BY <1>1 DEF Shown
<1>3. Shown(c) \in [text : Nat, marks : SUBSET (AllActions \cup {"resolved"}), by : Item \cup {None}]
  BY <1>2, BoundsAssumption DEF Content
<1>4. Shown(c) # None BY <1>3, ItemsAssumption
<1> QED BY <1>1, <1>2, <1>4

LEMMA MarkShown ==
  ASSUME NEW c \in Content, NEW mark \in AllActions \cup {"resolved"}
  PROVE  /\ Mark(c, mark) \in Content
         /\ Shown(Mark(c, mark)) = [Shown(c) EXCEPT !.marks = @ \cup {mark}]
<1>1. Mark(c, mark) \in Content BY DEF Mark, Content
<1>2. Shown(Mark(c, mark)) =
        [text |-> Mark(c, mark).text, marks |-> Mark(c, mark).marks \ {"approved"},
         by |-> Mark(c, mark).by]
  BY <1>1, ContentShown
<1>3. /\ Mark(c, mark).text = c.text /\ Mark(c, mark).by = c.by
      /\ Mark(c, mark).marks = c.marks \cup {mark}
  BY DEF Mark, Content
<1>4. mark # "approved" BY DEF AllActions
<1>5. (c.marks \cup {mark}) \ {"approved"} = (c.marks \ {"approved"}) \cup {mark} BY <1>4
<1>6. Shown(c) = [text |-> c.text, marks |-> c.marks \ {"approved"}, by |-> c.by]
  BY ContentShown
<1>7. [Shown(c) EXCEPT !.marks = @ \cup {mark}] =
        [text |-> c.text, marks |-> (c.marks \ {"approved"}) \cup {mark}, by |-> c.by]
  BY <1>6
<1> QED BY <1>1, <1>2, <1>3, <1>5, <1>7

LEMMA ReplacedShown ==
  ASSUME NEW c \in Content, NEW target \in Item
  PROVE  /\ [c EXCEPT !.by = target] \in Content
         /\ Shown([c EXCEPT !.by = target]) = [Shown(c) EXCEPT !.by = target]
<1> DEFINE d == [c EXCEPT !.by = target]
<1>1. d \in Content /\ d.text = c.text /\ d.marks = c.marks /\ d.by = target BY DEF Content
<1>2. Shown(d) = [text |-> d.text, marks |-> d.marks \ {"approved"}, by |-> d.by]
  BY <1>1, ContentShown
<1>3. Shown(c) = [text |-> c.text, marks |-> c.marks \ {"approved"}, by |-> c.by]
  BY ContentShown
<1>4. [Shown(c) EXCEPT !.by = target] =
        [text |-> c.text, marks |-> c.marks \ {"approved"}, by |-> target]
  BY <1>3
<1> QED BY <1>1, <1>2, <1>4

-----------------------------------------------------------------------------
(* Without errors that are handled, and without containments, nobody rolls *)
(* back, and a process that writes or restores is the only one.            *)

NoFailure == \A p \in Worker : job[p].at \notin {"rollback", "undo", "contain"}

\* the decision of a preview is one that reviewers take
Bound(p) == job[p].at = "decide" => job[p].sight.action \in Actions

(* While a decision is written, an item is what its snapshot says until its *)
(* turn comes, and the decided snapshot after that; and what made the      *)
(* preview ready is true of the snapshots.                                 *)
Ruling(p) ==
  LET j == job[p]
      r == ledger[j.txn]
  IN j.at = "write" =>
       /\ r.kind = "resolve" /\ r.action \in Actions /\ ValidTarget(r.action, r.target)
       /\ r.items = DecisionItems(r.action, r.target)
       /\ DOMAIN j.plan = Rewritten(r.action, r.target)
       /\ \A i \in DOMAIN j.plan : j.plan[i] = Ruled(r.action, r.target, i, r.before[i])
       /\ \A i \in r.items :
            md[i] = IF i \in DOMAIN j.plan \ j.todo THEN j.plan[i] ELSE r.before[i]
       /\ r.action \in {"select_authority", "merge"} =>
            \A i \in Case \ {r.target} : r.before[i].by = None /\ r.before[r.target].by # i

\* a recovery leaves the snapshots behind
Undone(p) ==
  job[p].at = "restore" =>
    \A i \in ledger[job[p].txn].items \ job[p].todo : md[i] = ledger[job[p].txn].before[i]

Steady == NoFailure /\ \A p \in Worker : Bound(p) /\ Ruling(p) /\ Undone(p)

LEMMA NeverFails ==
  ASSUME "contain" \notin Kinds, "fail" \notin Faults, Typed, NoFailure, [Next]_vars
  PROVE  NoFailure'
<1> SUFFICES ASSUME NEW p \in Worker PROVE job'[p].at \notin {"rollback", "undo", "contain"}
  BY DEF NoFailure
<1>1. ~Survey(p) /\ ~Fail(p) /\ ~Rollback(p)
  BY DEF Survey, Fail, Fault, Rollback, NoFailure
<1>2. CASE Acts(p)
  BY <1>1, <1>2, JobSteps DEF Acts, Run, UndoItem, NoFailure
<1>3. CASE ~Acts(p) BY <1>3, OwnJob DEF NoFailure
<1> QED BY <1>2, <1>3

LEMMA BoundNext ==
  ASSUME Typed, [Next]_vars, NEW p \in Worker, Bound(p)
  PROVE  Bound(p)'
<1> SUFFICES ASSUME job'[p].at = "decide" PROVE job'[p].sight.action \in Actions
  BY DEF Bound
<1>1. CASE ~Acts(p) BY <1>1, OwnJob DEF Bound
<1>2. ASSUME NEW a \in Actions, NEW g \in Item \cup {None}, Preview(p, a, g)
      PROVE  job'[p].sight.action \in Actions
  <2>1. job'[p] = [Idle EXCEPT !.at = "decide", !.sight = Sight(a, g)]
    BY <1>2 DEF Preview, Step, Typed
  <2>2. job'[p].sight.action = a BY <2>1 DEF Idle, Sight
  <2> QED BY <2>2
<1>3. CASE Acts(p) /\ ~\E a \in Actions, g \in Item \cup {None} : Preview(p, a, g)
  BY <1>3, JobSteps DEF Acts, Run, UndoItem
<1> QED BY <1>1, <1>2, <1>3

\* Without containments a decision restores nothing.
LEMMA DecidedRuled ==
  ASSUME Debts, NEW action \in AllActions \ {"defer"}, NEW target, NEW i
  PROVE  Decided(action, target, i) = Ruled(action, target, i, md[i])
<1>1. ~IsBaseline(i) BY DEF Debts, IsBaseline, Containments, Of
<1>2. Restored(i) = md[i] BY <1>1 DEF Restored
<1> QED BY <1>2 DEF Decided, Ruled

\* What replaced the target, if anything did, comes behind it.
LEMMA SuccessorIsBehind ==
  ASSUME Typed, NEW target \in Item, Present(target), md[target].by # None
  PROVE  md[target].by \in Successors(target)
<1>1. md[target].by \in Item BY DEF Typed, Present, Content
<1> QED BY <1>1 DEF Successors

LEMMA ReadyPairs ==
  ASSUME Typed, NEW action \in {"select_authority", "merge"}, NEW target \in Item,
         PairsReady(action, target), NEW i \in Case \ {target}
  PROVE  md[i].by = None /\ md[target].by # i
<1>1. /\ Present(target) /\ md[i].by = None /\ i \notin Successors(target)
  BY DEF PairsReady, PairReady
<1>2. i # None BY ItemsAssumption DEF Item
<1> QED BY <1>1, <1>2, SuccessorIsBehind

LEMMA RulingBegins ==
  ASSUME Typed, Debts, NEW p \in Worker, Bound(p), ResolvePrepare(p)
  PROVE  Ruling(p)'
<1>1. PICK t \in Txn, r \in Receipts, plan \in Images, s \in Sights :
        Opens(t, r) /\ Step(p, Writing(t, plan, s)) /\ Decides(p, r, plan, s)
  BY ResolvePrepares
<1>2. /\ job'[p].at = "write" /\ job'[p].txn = t /\ job'[p].plan = plan
      /\ job'[p].todo = DOMAIN plan /\ ledger'[t] = r /\ md' = md
  BY <1>1 DEF Opens, Step, Writing, Typed, LedgerTyped, ResolvePrepare
<1>3. ResolveAllowed(r.action, r.target) /\ r.action \in Actions
  BY <1>1 DEF Decides, ResolvePrepare, IntentHolds, Bound
<1>4. ValidTarget(r.action, r.target) /\ PairsReady(r.action, r.target)
  BY <1>3 DEF ResolveAllowed
<1>5. \A i \in r.items : i \in Item /\ Present(i) /\ r.before[i] = md[i]
  BY <1>1 DEF Decides, Snapshot
<1>6. ASSUME NEW i \in DOMAIN plan
      PROVE  plan[i] = Ruled(r.action, r.target, i, r.before[i])
  <2>1. r.action \in AllActions \ {"defer"} BY <1>1 DEF Decides, Rewritten
  <2>2. plan[i] = Decided(r.action, r.target, i) /\ i \in r.items BY <1>1 DEF Decides
  <2> QED BY <1>5, <2>1, <2>2, DecidedRuled
<1>7. ASSUME r.action \in {"select_authority", "merge"}, NEW i \in Case \ {r.target}
      PROVE  r.before[i].by = None /\ r.before[r.target].by # i
  <2>1. r.target \in Item BY <1>4, <1>7 DEF ValidTarget, Item
  <2>2. i \in r.items /\ r.target \in r.items
    BY <1>1, <1>4, <1>7 DEF Decides, DecisionItems, ValidTarget
  <2> QED BY <1>4, <1>5, <1>7, <2>1, <2>2, ReadyPairs
<1>8. r.items = DecisionItems(r.action, r.target) /\ DOMAIN plan = Rewritten(r.action, r.target)
      /\ r.kind = "resolve"
  BY <1>1 DEF Decides
<1> QED BY <1>2, <1>3, <1>4, <1>5, <1>6, <1>7, <1>8 DEF Ruling, ValidTarget, DecisionItems, Rewritten

LEMMA RulingNext ==
  ASSUME Typed, Debts, NoFailure, NEW p \in Worker, Bound(p), Ruling(p), [Next]_vars
  PROVE  Ruling(p)'
<1> SUFFICES ASSUME job'[p].at = "write" PROVE Ruling(p)'
  BY DEF Ruling
<1>1. CASE ContainPrepare(p) BY <1>1 DEF ContainPrepare, NoFailure
<1>2. CASE ResolvePrepare(p) BY <1>2, RulingBegins
<1>3. CASE WriteItem(p)
  <2>1. PICK i \in job[p].todo :
          /\ md' = [md EXCEPT ![i] = job[p].plan[i]]
          /\ Step(p, [job[p] EXCEPT !.todo = @ \ {i}])
    BY <1>3 DEF WriteItem
  <2>2. /\ job'[p].txn = job[p].txn /\ job'[p].plan = job[p].plan
        /\ job'[p].todo = job[p].todo \ {i} /\ ledger' = ledger /\ job[p].at = "write"
    BY <1>3, <2>1 DEF Step, Typed, Jobs, WriteItem
  <2>3. \A k \in Item : md'[k] = IF k = i THEN job[p].plan[i] ELSE md[k]
    BY <2>1 DEF Typed
  <2>4. /\ job[p].txn \in Txn /\ ledger[job[p].txn].items \in SUBSET Item
        /\ i \in DOMAIN job[p].plan
    BY <2>2 DEF Typed, Fits, LedgerTyped, Receipts
  <2> DEFINE r == ledger[job[p].txn]
  <2>5. ASSUME NEW k \in r.items
        PROVE  md'[k] = IF k \in DOMAIN job[p].plan \ (job[p].todo \ {i})
                        THEN job[p].plan[k] ELSE r.before[k]
    <3>1. md[k] = IF k \in DOMAIN job[p].plan \ job[p].todo THEN job[p].plan[k] ELSE r.before[k]
      BY <2>2 DEF Ruling
    <3> QED BY <2>3, <2>4, <3>1
  <2> QED BY <2>2, <2>5 DEF Ruling, ValidTarget, DecisionItems, Rewritten
<1>4. CASE job[p].at = "write" /\ ledger' = ledger /\ job'[p] = job[p] /\ md' = md
  BY <1>4 DEF Ruling, ValidTarget, DecisionItems, Rewritten
<1> QED BY <1>1, <1>2, <1>3, <1>4, WriteSteps

LEMMA UndoneNext ==
  ASSUME Typed, NEW p \in Worker, Undone(p), [Next]_vars
  PROVE  Undone(p)'
<1> SUFFICES ASSUME job'[p].at = "restore" PROVE Undone(p)'
  BY DEF Undone
<1>1. CASE ~Acts(p) BY <1>1, Alone DEF Undone, Inside
<1>2. CASE RecoverContainment(p) \/ RecoverDecision(p)
  <2>1. Restoring(p) \/ Leave(p) BY <1>2 DEF RecoverContainment, RecoverDecision
  <2>2. ~Leave(p) BY DEF Leave, Step, Typed, Idle
  <2>3. /\ ledger' = ledger /\ job'[p].txn = job[p].txn
        /\ job'[p].todo = ledger[job[p].txn].items
    BY <2>1, <2>2 DEF Restoring, Step, Typed, Jobs
  <2> QED BY <2>3 DEF Undone
<1>3. CASE UndoItem(p)
  <2>1. PICK i \in job[p].todo :
          /\ md' = [md EXCEPT ![i] = ledger[job[p].txn].before[i]]
          /\ Step(p, [job[p] EXCEPT !.todo = @ \ {i}])
    BY <1>3 DEF UndoItem
  <2>2. /\ job'[p].at = job[p].at /\ job'[p].txn = job[p].txn
        /\ job'[p].todo = job[p].todo \ {i} /\ ledger' = ledger
    BY <1>3, <2>1 DEF Step, Typed, Jobs, UndoItem
  <2>3. \A k \in Item : md'[k] = IF k = i THEN ledger[job[p].txn].before[i] ELSE md[k]
    BY <2>1 DEF Typed
  <2>4. ledger[job[p].txn].items \in SUBSET Item
    BY <2>2 DEF Typed, Fits, LedgerTyped, Receipts
  <2> QED BY <2>2, <2>3, <2>4 DEF Undone
<1> QED BY <1>1, <1>2, <1>3, JobSteps DEF Acts, Run

LEMMA SteadyNext ==
  ASSUME "contain" \notin Kinds, "fail" \notin Faults, Typed, Debts, Steady, [Next]_vars
  PROVE  Steady'
<1>1. NoFailure' BY NeverFails DEF Steady
<1>2. ASSUME NEW p \in Worker PROVE Bound(p)' /\ Ruling(p)' /\ Undone(p)'
  BY BoundNext, RulingNext, UndoneNext DEF Steady
<1> QED BY <1>1, <1>2 DEF Steady

-----------------------------------------------------------------------------
(* What the steps show.                                                    *)

\* nothing replaces itself
Loopless == \A i \in Item : Committed(i) # None => Committed(i).by # i

LEMMA SameView ==
  ASSUME NEW m, NEW n, NEW l, NEW i, n[i] = m[i] \/ Opened(l, i) # {}
  PROVE  View(n, l, i) = View(m, l, i)
BY DEF View

LEMMA SingleOpen == Typed /\ OneOpen => Single(ledger)
BY DEF OneOpen, Single

\* Whoever writes or restores has its transaction open.
LEMMA InsideIsOpen ==
  ASSUME Typed, Debts, AllUnsettled, NoFailure, NEW p \in Worker, job[p].at \in Inside
  PROVE  /\ job[p].at \in {"write", "restore"} /\ job[p].txn \in Txn
         /\ ledger[job[p].txn].kind = "resolve" /\ ledger[job[p].txn].state = "prepared"
         /\ ledger[job[p].txn].items \in SUBSET Item
<1>1. job[p].at \in {"write", "restore"} BY DEF Inside, NoFailure
<1>2. job[p].txn \in Txn /\ ledger[job[p].txn].state # "none" BY <1>1 DEF Typed, Fits
<1>3. ledger[job[p].txn].kind = "resolve" /\ ledger[job[p].txn].items \in SUBSET Item
  BY <1>2 DEF Typed, LedgerTyped, Receipts, Debts
<1>4. Unsettled(p) BY DEF AllUnsettled
<1> QED BY <1>1, <1>2, <1>3, <1>4 DEF Unsettled

LEMMA WritesAreHidden ==
  ASSUME Typed, Debts, AllUnsettled, NoFailure, NEW p \in Worker,
         WriteItem(p) \/ UndoItem(p), NEW i \in job[p].todo
  PROVE  Opened(ledger, i) # {}
<1>1. job[p].at \in Inside /\ i \in ledger[job[p].txn].items
  BY DEF WriteItem, UndoItem, Inside, Typed, Fits
<1>2. job[p].txn \in Opened(ledger, i) BY <1>1, InsideIsOpen DEF Opened
<1> QED BY <1>2

\* An edit is an edit of what is shown, or of what is about to be overwritten.
LEMMA EditIsShown ==
  ASSUME Typed, NEW k \in Item, Edit(k)
  PROVE  /\ Shown(md[k]) # None
         /\ Shown(md'[k]) = [Shown(md[k]) EXCEPT !.text = @ + 1]
<1> DEFINE c == md[k]
           d == [c EXCEPT !.text = @ + 1]
<1>1. c \in Content /\ c.text < MaxText BY DEF Edit, Typed, Present
<1>2. md'[k] = d BY DEF Edit, Typed
<1>3. d \in Content /\ d.text = c.text + 1 /\ d.marks = c.marks /\ d.by = c.by
  BY <1>1, BoundsAssumption DEF Content
<1>4. Shown(d) = [text |-> c.text + 1, marks |-> c.marks \ {"approved"}, by |-> c.by]
  BY <1>3, ContentShown
<1>5. Shown(c) = [text |-> c.text, marks |-> c.marks \ {"approved"}, by |-> c.by] /\ Shown(c) # None
  BY <1>1, ContentShown
<1> HIDE DEF c, d
<1>6. [Shown(c) EXCEPT !.text = @ + 1] =
        [text |-> c.text + 1, marks |-> c.marks \ {"approved"}, by |-> c.by]
  BY <1>5
<1> QED BY <1>2, <1>4, <1>5, <1>6 DEF c

\* Neither maturity nor an approval shows.
LEMMA OthersAreNotShown ==
  ASSUME Typed, NEW k \in Item, Mature(k) \/ Approve(k)
  PROVE  Shown(md'[k]) = Shown(md[k])
<1> DEFINE c == md[k]
           d == md'[k]
<1>1. c \in Content BY DEF Mature, Approve, Typed, Present
<1>2. \/ d = [c EXCEPT !.mature = Score(k)]
      \/ d = [c EXCEPT !.held = FALSE, !.conf = MaxConf, !.marks = @ \cup {"approved"}]
  BY DEF Mature, Approve, Typed
<1>3. /\ d.text = c.text /\ d.by = c.by
      /\ d.marks \ {"approved"} = c.marks \ {"approved"}
  BY <1>1, <1>2 DEF Content
<1>4. d \in Content
  <2>1. Score(k) \in BOOLEAN BY Zenon DEF Score
  <2>2. \A b \in BOOLEAN : [c EXCEPT !.mature = b] \in Content BY <1>1 DEF Content
  <2>3. [c EXCEPT !.held = FALSE, !.conf = MaxConf, !.marks = @ \cup {"approved"}] \in Content
    <3>1. MaxConf \in 0..MaxConf BY BoundsAssumption
    <3>2. c.marks \cup {"approved"} \in SUBSET (AllActions \cup {"resolved", "approved"})
      BY <1>1 DEF Content
    <3> HIDE DEF c
    <3> QED BY <1>1, <3>1, <3>2 DEF Content
  <2> HIDE DEF c, d
  <2> QED BY <1>2, <2>1, <2>2, <2>3
<1> QED BY <1>1, <1>3, <1>4, ContentShown

\* The views on both sides of a terminal receipt.
LEMMA ClosingViews ==
  ASSUME Typed, OneOpen, Debts, AllUnsettled, NoFailure, NEW p \in Worker,
         NEW state \in {"completed", "rolled_back"}, NEW after \in Images,
         NEW repair \in BOOLEAN, Closes(p, state, after, repair), NEW i \in Item
  PROVE  /\ View(md', ledger', i) = Shown(md[i])
         /\ View(md, ledger, i) =
              Shown(IF i \in ledger[job[p].txn].items THEN ledger[job[p].txn].before[i] ELSE md[i])
<1> DEFINE t == job[p].txn
<1>1. job[p].at \in Inside /\ md' = md BY DEF Closes
<1>2. t \in Txn /\ ledger[t].kind = "resolve" /\ ledger[t].state = "prepared"
  BY <1>1, InsideIsOpen
<1>3. Single(ledger) BY SingleOpen
<1>4. /\ ledger'[t].state # "prepared"
      /\ \A s \in Txn \ {t} : ledger'[s] = ledger[s]
  BY <1>2, ClosesStep
<1>5. Opened(ledger', i) = {}
  BY <1>2, <1>3, <1>4 DEF Opened, Single
<1>6. CASE i \in ledger[t].items
  <2>1. t \in Opened(ledger, i) BY <1>2, <1>6 DEF Opened
  <2> QED BY <1>1, <1>3, <1>5, <1>6, <2>1, ViewOpen, ViewClosed
<1>7. CASE i \notin ledger[t].items
  <2>1. Opened(ledger, i) = {} BY <1>2, <1>3, <1>7 DEF Opened, Single
  <2> QED BY <1>1, <1>5, <1>7, <2>1, ViewClosed
<1> QED BY <1>6, <1>7

\* A preparation swaps the files of a case for equal snapshots.
LEMMA OpeningViews ==
  ASSUME Typed, Debts, NEW p \in Worker, ResolvePrepare(p), NEW i \in Item
  PROVE  View(md', ledger', i) = View(md, ledger, i)
<1>1. PICK t \in Txn, r \in Receipts, plan \in Images, s \in Sights :
        Opens(t, r) /\ Step(p, Writing(t, plan, s)) /\ Decides(p, r, plan, s)
  BY ResolvePrepares
<1>2. \A u \in Txn : ledger'[u] = IF u = t THEN r ELSE ledger[u]
  BY <1>1 DEF Opens, Typed, LedgerTyped
<1>3. r.kind = "resolve" /\ md' = md /\ \A k \in r.items : r.before[k] = md[k]
  BY <1>1 DEF Decides, Snapshot, ResolvePrepare
<1>4. \A u \in Txn : ledger[u].kind = "resolve" => ledger[u].state # "prepared"
  BY <1>1, <1>3 DEF Opens, Usable, Incomplete, Of
<1>5. Opened(ledger, i) = {} BY <1>4 DEF Opened
<1>6. Single(ledger') BY <1>2, <1>4 DEF Single
<1>7. CASE i \in r.items
  <2>1. t \in Opened(ledger', i) BY <1>1, <1>2, <1>3, <1>7 DEF Opened, Opens
  <2> QED BY <1>2, <1>3, <1>5, <1>6, <1>7, <2>1, ViewOpen, ViewClosed
<1>8. CASE i \notin r.items
  <2>1. Opened(ledger', i) = {} BY <1>2, <1>4, <1>8 DEF Opened
  <2> QED BY <1>3, <1>5, <2>1, ViewClosed
<1> QED BY <1>7, <1>8

-----------------------------------------------------------------------------
(* The refinement.                                                         *)

Seen == [i \in Item |-> Committed(i)]

LEMMA SeenViews ==
  /\ Seen = [i \in Item |-> View(md, ledger, i)]
  /\ Seen' = [i \in Item |-> View(md', ledger', i)]
BY CommittedView DEF Seen

\* A completed decision is one step of CaseDecisions; a deferral shows nothing.
LEMMA DecisionsAreSteps ==
  ASSUME Typed, OneOpen, Debts, AllUnsettled, Steady, Loopless, NEW p \in Worker,
         job[p].at = "write", NEW after \in Images, NEW repair \in BOOLEAN,
         Closes(p, "completed", after, repair)
  PROVE  Abstract!Next \/ Seen' = Seen
<1> DEFINE t == job[p].txn
           r == ledger[t]
           a == r.action
           g == r.target
<1>1. /\ job[p].at \in Inside /\ job[p].todo = {} BY DEF Closes
<1>2. r.kind = "resolve" /\ t \in Txn /\ r.items \in SUBSET Item
  BY <1>1, InsideIsOpen DEF Steady
<1>3. r.before \in Images /\ DOMAIN r.before = r.items BY <1>2 DEF Typed, LedgerTyped, Receipts
<1>4. \A i \in r.items : r.before[i] \in Content BY <1>3, ImageType
<1>5. /\ a \in Actions /\ ValidTarget(a, g) /\ r.items = DecisionItems(a, g)
      /\ DOMAIN job[p].plan = Rewritten(a, g)
      /\ \A i \in DOMAIN job[p].plan : job[p].plan[i] = Ruled(a, g, i, r.before[i])
      /\ \A i \in r.items :
           md[i] = IF i \in DOMAIN job[p].plan \ job[p].todo THEN job[p].plan[i] ELSE r.before[i]
      /\ a \in {"select_authority", "merge"} =>
           \A i \in Case \ {g} : r.before[i].by = None /\ r.before[g].by # i
  BY DEF Steady, Ruling
<1>6. ASSUME NEW i \in Item
      PROVE  /\ Seen'[i] = Shown(md[i])
             /\ Seen[i] = Shown(IF i \in r.items THEN r.before[i] ELSE md[i])
  BY <1>1, ClosingViews, SeenViews DEF Steady
<1>7. Seen = [i \in Item |-> Seen[i]] /\ Seen' = [i \in Item |-> Seen'[i]]
  BY SeenViews
<1>c. Seen = [i \in Item |-> Committed(i)] /\ Item = Abstract!Item
  BY DEF Seen, Item, Abstract!Item
<1> HIDE DEF r, a, g
<1>8. CASE a = "defer"
  <2>1. \A i \in r.items : md[i] = r.before[i] BY <1>5, <1>8 DEF Rewritten
  <2>2. \A i \in Item : Seen'[i] = Seen[i] BY <1>6, <2>1
  <2> QED BY <1>7, <2>2
<1>9. CASE a # "defer"
  <2>1. \A i \in r.items : md[i] = Ruled(a, g, i, r.before[i])
    BY <1>1, <1>5, <1>9 DEF Rewritten
  <2>2. a \in AllActions BY <1>5, KindsAssumption
  <2>3. \A i \in r.items : Seen[i] = Shown(r.before[i]) /\ Seen[i] # None
    BY <1>2, <1>4, <1>6, ContentShown
  <2>4. \A i \in Item \ r.items : Seen'[i] = Seen[i] BY <1>6
  <2>5. CASE a \in {"coexist", "dismiss"}
    <3>1. r.items = Case BY <1>5, <2>5 DEF DecisionItems
    <3>2. ASSUME NEW i \in Case PROVE Seen'[i] = [Seen[i] EXCEPT !.marks = @ \cup {a}]
      <4>1. md[i] = Mark(r.before[i], a) BY <2>1, <2>5, <3>1 DEF Ruled
      <4>2. r.before[i] \in Content /\ i \in Item BY <1>2, <1>4, <3>1
      <4>3. Shown(md[i]) = [Shown(r.before[i]) EXCEPT !.marks = @ \cup {a}]
        BY <2>2, <4>1, <4>2, MarkShown
      <4> QED BY <1>6, <2>3, <3>1, <4>2, <4>3
    <3>3. Seen' = [i \in Item |-> IF i \in Case THEN [Seen[i] EXCEPT !.marks = @ \cup {a}] ELSE Seen[i]]
      BY <1>7, <2>4, <3>1, <3>2
    <3>4. Abstract!Keep(a)
      <4>1. a \in Actions \cap {"coexist", "dismiss"} BY <1>5, <2>5
      <4>2. \A i \in Case : Seen[i] # None BY <2>3, <3>1
      <4> QED BY <3>3, <4>1, <4>2, Zenon
           DEF Seen, Item, Abstract!Keep, Abstract!Present, Abstract!Marked, Abstract!Item
    <3> QED BY <1>5, <3>4 DEF Abstract!Next
  <2>6. CASE a \in {"select_authority", "merge"}
    <3>1. /\ g \in IF a = "merge" THEN Outside ELSE Case
          /\ g \in r.items /\ g \in Item /\ r.items = Case \cup {g}
      BY <1>5, <2>6 DEF ValidTarget, DecisionItems, Item
    <3>2. Seen'[g] = [Seen[g] EXCEPT !.marks = @ \cup {a}]
      <4>1. md[g] = Mark(r.before[g], a) BY <2>1, <3>1 DEF Ruled
      <4>2. r.before[g] \in Content BY <1>4, <3>1
      <4>3. Shown(md[g]) = [Shown(r.before[g]) EXCEPT !.marks = @ \cup {a}]
        BY <2>2, <4>1, <4>2, MarkShown
      <4> QED BY <1>6, <2>3, <3>1, <4>3
    <3>3. ASSUME NEW i \in Case, i # g
          PROVE  /\ Seen'[i] = [[Seen[i] EXCEPT !.marks = @ \cup {"resolved"}] EXCEPT !.by = g]
                 /\ Seen[i].by = None
      <4>1. i \in Item /\ i \in r.items BY <3>1 DEF Item
      <4>2. r.before[i] \in Content BY <1>4, <4>1
      <4>3. md[i] = [Mark(r.before[i], "resolved") EXCEPT !.by = g]
        BY <2>1, <2>6, <3>3, <4>1 DEF Ruled
      <4>4. Shown(md[i]) = [Shown(Mark(r.before[i], "resolved")) EXCEPT !.by = g]
        BY <3>1, <4>2, <4>3, MarkShown, ReplacedShown
      <4>5. Shown(Mark(r.before[i], "resolved")) = [Shown(r.before[i]) EXCEPT !.marks = @ \cup {"resolved"}]
        BY <4>2, MarkShown
      <4>6. Seen[i].by = r.before[i].by BY <2>3, <4>1, <4>2, ContentShown
      <4>7. r.before[i].by = None BY <1>5, <2>6, <3>3
      <4> QED BY <1>6, <2>3, <4>1, <4>4, <4>5, <4>6, <4>7
    <3>4. Seen[g].by \notin Case
      <4>1. Seen[g].by = r.before[g].by BY <1>4, <2>3, <3>1, ContentShown
      <4>2. Seen[g].by # g
        <5>1. Committed(g) = Seen[g] BY <3>1 DEF Seen
        <5> QED BY <2>3, <3>1, <5>1 DEF Loopless
      <4> QED BY <1>5, <2>6, <4>1, <4>2
    <3>5. Seen' = [i \in Item |->
            IF i = g THEN [Seen[i] EXCEPT !.marks = @ \cup {a}]
            ELSE IF i \in Case THEN [[Seen[i] EXCEPT !.marks = @ \cup {"resolved"}] EXCEPT !.by = g]
            ELSE Seen[i]]
      BY <1>7, <2>4, <3>1, <3>2, <3>3
    <3>6. Abstract!Replace(a, g)
      <4>1. a \in Actions \cap {"select_authority", "merge"} BY <1>5, <2>6
      <4>2. Seen[g] # None /\ \A i \in Case : Seen[i] # None /\ (i # g => Seen[i].by = None)
        BY <2>3, <3>1, <3>3
      <4> QED BY <3>1, <3>4, <3>5, <4>1, <4>2, Zenon
           DEF Seen, Item, Abstract!Replace, Abstract!Present, Abstract!Marked, Abstract!Item
    <3> QED BY <1>5, <1>c, <3>1, <3>6, Zenon DEF Abstract!Next
  <2> QED BY <2>2, <2>5, <2>6, <1>9 DEF AllActions
<1> QED BY <1>8, <1>9

LEMMA SeenStep ==
  ASSUME "contain" \notin Kinds, Typed, OneOpen, Debts, AllUnsettled, Steady, Loopless,
         [Next]_vars
  PROVE  Abstract!Next \/ Seen' = Seen
<1>0. Seen = [i \in Item |-> Committed(i)] /\ Item = Abstract!Item
  BY DEF Seen, Item, Abstract!Item
<1>1. CASE \E k \in Item : Edit(k)
  <2>1. PICK k \in Item : Edit(k) BY <1>1
  <2>2. ledger' = ledger /\ \A i \in Item : i # k => md'[i] = md[i]
    BY <2>1 DEF Edit, Typed
  <2>3. \A i \in Item : i # k => Seen'[i] = Seen[i] BY <2>2, SameView, SeenViews
  <2>4. CASE Opened(ledger, k) # {}
    <3>1. Seen'[k] = Seen[k] BY <2>2, <2>4, SameView, SeenViews
    <3> QED BY <2>3, <3>1, SeenViews
  <2>5. CASE Opened(ledger, k) = {}
    <3>1. Seen[k] = Shown(md[k]) /\ Seen'[k] = Shown(md'[k])
      BY <2>2, <2>5, ViewClosed, SeenViews
    <3>2. Seen[k] # None /\ Seen'[k] = [Seen[k] EXCEPT !.text = @ + 1]
      BY <2>1, <3>1, EditIsShown
    <3>3. Seen' = [Seen EXCEPT ![k].text = @ + 1]
      BY <2>3, <3>2, SeenViews
    <3>4. Abstract!Edit(k)
      BY <3>2, <3>3, Zenon DEF Seen, Abstract!Edit, Abstract!Present
    <3> QED BY <1>0, <3>4 DEF Abstract!Next
  <2> QED BY <2>4, <2>5
<1>2. CASE \E k \in Item : Delete(k)
  <2>1. PICK k \in Item : Delete(k) BY <1>2
  <2>2. ledger' = ledger /\ md'[k] = None /\ \A i \in Item : i # k => md'[i] = md[i]
    BY <2>1 DEF Delete, Typed
  <2>3. \A i \in Item : i # k => Seen'[i] = Seen[i] BY <2>2, SameView, SeenViews
  <2>4. CASE Opened(ledger, k) # {}
    <3>1. Seen'[k] = Seen[k] BY <2>2, <2>4, SameView, SeenViews
    <3> QED BY <2>3, <3>1, SeenViews
  <2>5. CASE Opened(ledger, k) = {}
    <3>1. Seen[k] = Shown(md[k]) /\ Seen'[k] = Shown(None)
      BY <2>2, <2>5, ViewClosed, SeenViews
    <3>2. md[k] \in Content BY <2>1 DEF Delete, Typed, Present
    <3>3. Seen[k] # None /\ Seen'[k] = None
      BY <3>1, <3>2, ContentShown DEF Shown
    <3>4. Seen' = [Seen EXCEPT ![k] = None]
      BY <2>3, <3>3, SeenViews
    <3>5. Abstract!Remove(k)
      BY <3>3, <3>4, Zenon DEF Seen, Abstract!Remove, Abstract!Present
    <3> QED BY <1>0, <3>5 DEF Abstract!Next
  <2> QED BY <2>4, <2>5
<1>3. ASSUME NEW p \in Worker, NEW state \in {"completed", "rolled_back"}, NEW after \in Images,
             NEW repair \in BOOLEAN, Closes(p, state, after, repair)
      PROVE  Abstract!Next \/ Seen' = Seen
  <2>1. job[p].at \in Inside /\ job[p].todo = {} BY <1>3 DEF Closes
  <2>2. job[p].at \in {"write", "restore"} BY <2>1, InsideIsOpen DEF Steady
  <2>3. CASE job[p].at = "write"
    <3>1. state = "completed" BY <1>3, <2>3 DEF Closes
    <3> QED BY <1>3, <2>3, <3>1, DecisionsAreSteps
  <2>4. CASE job[p].at = "restore"
    <3>1. \A i \in ledger[job[p].txn].items : md[i] = ledger[job[p].txn].before[i]
      BY <2>1, <2>4 DEF Steady, Undone
    <3>2. \A i \in Item : View(md', ledger', i) = View(md, ledger, i)
      BY <1>3, <3>1, ClosingViews DEF Steady
    <3> QED BY <3>2, SeenViews
  <2> QED BY <2>2, <2>3, <2>4
<1>4. CASE \E p \in Worker : ContainPrepare(p) \/ ResolvePrepare(p)
  <2>1. PICK p \in Worker : ContainPrepare(p) \/ ResolvePrepare(p) BY <1>4
  <2>2. ~ContainPrepare(p) BY DEF ContainPrepare, Steady, NoFailure
  <2>3. \A i \in Item : View(md', ledger', i) = View(md, ledger, i)
    BY <2>1, <2>2, OpeningViews
  <2> QED BY <2>3, SeenViews
<1>5. CASE ledger' = ledger /\ ~\E k \in Item : Edit(k) \/ Delete(k)
  <2>1. ASSUME NEW i \in Item PROVE View(md', ledger', i) = View(md, ledger, i)
    <3>1. CASE md'[i] = md[i] \/ Opened(ledger, i) # {} BY <1>5, <3>1, SameView
    <3>2. CASE Opened(ledger, i) = {} /\ md'[i] # md[i]
      <4>1. ASSUME NEW p \in Worker, WriteItem(p) \/ UndoItem(p), i \in job[p].todo PROVE FALSE
        BY <3>2, <4>1, WritesAreHidden DEF Steady
      <4>2. Mature(i) \/ Approve(i) BY <1>5, <3>2, <4>1, FileSteps
      <4> QED BY <1>5, <3>2, <4>2, OthersAreNotShown, ViewClosed
    <3> QED BY <3>1, <3>2
  <2> QED BY <2>1, SeenViews
<1> QED BY <1>1, <1>2, <1>3, <1>4, <1>5, SettleSteps

\* What is seen of an item that is there is a text, marks and what replaced it.
LEMMA SeenType ==
  ASSUME Typed, Single(ledger), NEW i \in Item, Seen[i] # None
  PROVE  Seen[i] \in [text : Nat, marks : SUBSET (AllActions \cup {"resolved"}), by : Item \cup {None}]
<1>1. \A c \in Content :
        Shown(c) \in [text : Nat, marks : SUBSET (AllActions \cup {"resolved"}), by : Item \cup {None}]
  <2> SUFFICES ASSUME NEW c \in Content
               PROVE  Shown(c) \in [text : Nat, marks : SUBSET (AllActions \cup {"resolved"}),
                                    by : Item \cup {None}]
    OBVIOUS
  <2>1. Shown(c) = [text |-> c.text, marks |-> c.marks \ {"approved"}, by |-> c.by]
    BY ContentShown
  <2> QED BY <2>1, BoundsAssumption DEF Content
<1>2. Seen[i] = View(md, ledger, i) BY SeenViews
<1>3. CASE Opened(ledger, i) = {}
  <2>1. Seen[i] = Shown(md[i]) BY <1>2, <1>3, ViewClosed
  <2>2. md[i] \in Content BY <2>1 DEF Typed, Shown
  <2> QED BY <1>1, <2>1, <2>2
<1>4. CASE Opened(ledger, i) # {}
  <2>1. PICK t \in Opened(ledger, i) : TRUE BY <1>4
  <2>2. t \in Txn /\ i \in ledger[t].items BY <2>1 DEF Opened
  <2>3. ledger[t].before[i] \in Content
    BY <2>2, ImageType DEF Typed, LedgerTyped, Receipts
  <2>4. Seen[i] = Shown(ledger[t].before[i]) BY <1>2, <1>4, <2>1, ViewOpen
  <2> QED BY <1>1, <2>3, <2>4
<1> QED BY <1>3, <1>4

\* No step of CaseDecisions lets an item replace itself.
LEMMA LooplessNext ==
  ASSUME Typed, Single(ledger), Loopless, Abstract!Next \/ Seen' = Seen
  PROVE  Loopless'
<1> SUFFICES ASSUME NEW i \in Item, Seen'[i] # None PROVE Seen'[i].by # i
  <2>2. \A k \in Item : Seen'[k] = Committed(k)' BY DEF Seen
  <2> QED BY <2>2 DEF Loopless
<1>1. Seen[i] # None => Seen[i].by # i
  <2>1. Seen[i] = Committed(i) BY DEF Seen
  <2> QED BY <2>1 DEF Loopless
<1>2. Seen[i] # None =>
        Seen[i] \in [text : Nat, marks : SUBSET (AllActions \cup {"resolved"}), by : Item \cup {None}]
  BY SeenType
<1>3. CASE Seen' = Seen BY <1>1, <1>3
<1>4. ASSUME NEW a \in Actions, Abstract!Keep(a) PROVE Seen'[i].by # i
  <2>1. Seen'[i] = IF i \in Case THEN [Seen[i] EXCEPT !.marks = @ \cup {a}] ELSE Seen[i]
    BY <1>4, Zenon DEF Seen, Item, Abstract!Keep, Abstract!Present, Abstract!Marked, Abstract!Item
  <2>2. i \in Case => Seen[i] # None
    BY <1>4, Zenon DEF Seen, Item, Abstract!Keep, Abstract!Present
  <2> QED BY <1>1, <1>2, <2>1, <2>2
<1>5. ASSUME NEW a \in Actions, NEW g \in Abstract!Item, Abstract!Replace(a, g) PROVE Seen'[i].by # i
  <2>1. Seen'[i] =
          IF i = g THEN [Seen[i] EXCEPT !.marks = @ \cup {a}]
          ELSE IF i \in Case THEN [[Seen[i] EXCEPT !.marks = @ \cup {"resolved"}] EXCEPT !.by = g]
          ELSE Seen[i]
    BY <1>5, Zenon DEF Seen, Item, Abstract!Replace, Abstract!Present, Abstract!Marked, Abstract!Item
  <2>2. i = g \/ i \in Case => Seen[i] # None
    BY <1>5, Zenon DEF Seen, Item, Abstract!Replace, Abstract!Present
  <2> QED BY <1>1, <1>2, <2>1, <2>2
<1>6. ASSUME NEW k \in Abstract!Item, Abstract!Edit(k) PROVE Seen'[i].by # i
  <2>1. Seen' = [Seen EXCEPT ![k].text = @ + 1] /\ Seen[k] # None
    BY <1>6, Zenon DEF Seen, Abstract!Edit, Abstract!Present
  <2> QED BY <1>1, <1>2, <2>1, SeenViews
<1>7. ASSUME NEW k \in Abstract!Item, Abstract!Remove(k) PROVE Seen'[i].by # i
  <2>1. Seen' = [Seen EXCEPT ![k] = None] BY <1>7, Zenon DEF Seen, Abstract!Remove
  <2> QED BY <1>1, <1>2, <2>1, SeenViews
<1> QED BY <1>3, <1>4, <1>5, <1>6, <1>7 DEF Abstract!Next

LEMMA InitSeen == Init => Abstract!Init /\ Steady /\ Loopless
<1> SUFFICES ASSUME Init PROVE Abstract!Init /\ Steady /\ Loopless OBVIOUS
<1>1. Steady BY DEF Init, Steady, NoFailure, Bound, Ruling, Undone, Idle
<1>2. ASSUME NEW i \in Item PROVE Committed(i) = [text |-> 0, marks |-> {}, by |-> None]
  <2>1. Opened(ledger, i) = {} BY DEF Init, NoTxn, Opened
  <2>2. Committed(i) = Shown(md[i]) BY <2>1, ViewClosed, CommittedView
  <2>3. md[i] = [text |-> 0, conf |-> MaxConf, held |-> FALSE, marks |-> {}, by |-> None, mature |-> FALSE]
    BY DEF Init
  <2>4. md[i] \in Content BY <2>3, BoundsAssumption DEF Content
  <2>5. Shown(md[i]) = [text |-> 0, marks |-> {}, by |-> None]
    BY <2>3, <2>4, ContentShown
  <2> QED BY <2>2, <2>5
<1>3. Abstract!Init BY <1>2 DEF Abstract!Init, Abstract!Item, Item
<1>4. Loopless BY <1>2, ItemsAssumption DEF Loopless
<1> QED BY <1>1, <1>3, <1>4

(* Where no containment runs and no error is handled by a rollback, the     *)
(* decisions of a Case are atomic, for any number of items, reviewers and   *)
(* operators: whoever reads the snapshot of an open transaction for its     *)
(* files sees a whole decision at its terminal receipt or nothing of it,    *)
(* and beside that only edits and deletions of single items                 *)
(* (resolve_contradiction_case and recover_contradiction_case_transaction   *)
(* in contradiction_resolution.py).                                         *)
THEOREM DecisionsAreAtomic ==
  ASSUME "contain" \notin Kinds, "fail" \notin Faults
  PROVE  Spec => RefinesDecisions
<1> DEFINE Inv == Debts /\ Steady /\ Loopless
<1>1. Init => Inv /\ Abstract!Init
  BY InitSeen DEF Init, Debts, NoTxn, Undoing, Idle
<1>2. Typed /\ OneOpen /\ AllUnsettled /\ Inv /\ [Next]_vars =>
        Inv' /\ [Abstract!Next]_([i \in Item |-> Committed(i)])
  <2> SUFFICES ASSUME Typed, OneOpen, AllUnsettled, Inv, [Next]_vars
               PROVE  Inv' /\ [Abstract!Next]_([i \in Item |-> Committed(i)])
    OBVIOUS
  <2>1. Abstract!Next \/ Seen' = Seen BY SeenStep
  <2>2. Debts' /\ Steady' BY DebtsNext, SteadyNext
  <2>3. Loopless' BY <2>1, SingleOpen, LooplessNext
  <2> QED BY <2>1, <2>2, <2>3, Zenon DEF Seen
<1> QED
  BY <1>1, <1>2, AlwaysTyped, OneOpenHolds, AlwaysUnsettled, PTL
     DEF Spec, RefinesDecisions, Abstract!Spec

=============================================================================
