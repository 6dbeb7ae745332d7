----------------------- MODULE CaseGovernanceProperties -----------------------
(***************************************************************************)
(* What containment, decision and recovery of a Case promise.              *)
(***************************************************************************)
EXTENDS CaseGovernance

IsImage(f) == DOMAIN f \subseteq Item /\ f \in [DOMAIN f -> Content]
IsReceipt(r) ==
  /\ r.kind \in {"none", "contain", "resolve"}
  /\ r.state \in {"none", "prepared", "completed", "rolled_back", "twice"}
  /\ r.state = "none" <=> r.kind = "none"
  /\ IsImage(r.before) /\ DOMAIN r.before = r.items
  /\ IsImage(r.after) /\ (r.state \notin {"none", "prepared"} => DOMAIN r.after = r.items)
  /\ r.action \in AllActions \cup {"none"} /\ r.target \in Item \cup {None}
  /\ r.until \in Nat /\ r.repair \in BOOLEAN
IsJob(j) ==
  /\ j.at \in {"idle", "contain", "decide", "write", "rollback", "undo", "recover", "restore"}
  /\ j.txn \in 0..MaxTxn
  /\ j.todo \subseteq Item
  /\ IsImage(j.plan) /\ (j.at = "write" => j.todo \subseteq DOMAIN j.plan)
  /\ IsImage(j.sight.before)

(* The types of the files, the ledgers and the locals of the processes; a    *)
(* snapshot is of the items of its receipt, a terminal receipt has their    *)
(* digests, and a process writes only what it prepared.                     *)
TypeOK ==
  /\ md \in [Item -> Content \cup {None}]
  /\ DOMAIN ledger = Txn /\ \A t \in Txn : IsReceipt(ledger[t])
  /\ lock \in Worker \cup {None}
  /\ DOMAIN job = Worker /\ \A p \in Worker : IsJob(job[p])
  /\ clock \in 0..MaxClock /\ faults \in 0..MaxFaults
  /\ unindexed \subseteq Item /\ torn \subseteq {"contain", "resolve"}

(* A ledger never has two transactions that are neither completed nor rolled *)
(* back: the checks of contain_contradiction_case and of                    *)
(* resolve_contradiction_case are repeated under the locks, and a process   *)
(* that dies or cannot roll back leaves its transaction open.               *)
OneOpen ==
  \A s, t \in Txn :
    ledger[s].kind = ledger[t].kind /\ ledger[s].state = "prepared" /\ ledger[t].state = "prepared"
      => s = t

(* Whatever crashed or was recovered, and although recoveries overwrite what *)
(* others wrote: an item that carries the tags of a containment has the     *)
(* content it had before them in the containment ledger.                    *)
BaselineFirst ==
  \A i \in Item :
    Present(i) /\ md[i].held =>
      \E t \in Of("contain") : i \in ledger[t].items /\ ~ledger[t].before[i].held

(* A decision that has a terminal receipt gets a second one only from the    *)
(* rollback of the process that failed; recoveries, however many operators  *)
(* start them, read the ledger again under the locks.                       *)
RecoveryRechecks ==
  [][\A t \in Of("resolve") :
       ledger[t].state # "twice" /\ ledger'[t].state = "twice" =>
         \E p \in Worker : job[p].at = "undo" /\ job[p].txn = t]_vars

SeenDecision(p) ==
  LET t == job[p].txn
      seen == job[p].sight.before
  IN job[p].at = "write" /\ ledger[t].kind = "resolve" /\ ledger'[t].state = "completed" =>
       \A i \in ledger[t].items :
         /\ md'[i].text = seen[i].text /\ md'[i].mature = seen[i].mature
         /\ CASE ledger[t].action = "defer" -> md'[i] = seen[i]
              [] ledger[t].action \in {"select_authority", "merge"} /\ i # ledger[t].target ->
                   md'[i].by = ledger[t].target
              [] OTHER -> ledger[t].action \in md'[i].marks
(* What a completed decision changed is what the reviewer was shown: at its  *)
(* terminal receipt every item of the case still has the text and the       *)
(* maturity it had in the preview, and carries the decision.                *)
DecidesWhatWasSeen == [][\A p \in Worker : SeenDecision(p)]_vars

(* No item that a decision or its recovery wrote is left with an old index   *)
(* row and no trace of it: it is in the marker, or its transaction is still *)
(* open, or its terminal receipt asks for an index repair.                  *)
IndexOwed ==
  \A i \in unindexed :
    \E t \in Txn : i \in ledger[t].items /\ (ledger[t].state = "prepared" \/ ledger[t].repair)

(* Decisions are atomic for whoever counts a prepared one as not yet made:   *)
(* crashes between the writes, concurrent edits and any number of           *)
(* recoveries included.                                                     *)
Committed(i) ==
  LET open == {t \in Of("resolve") : ledger[t].state = "prepared" /\ i \in ledger[t].items}
      c == IF open = {} THEN md[i] ELSE ledger[Last(open)].before[i]
  IN IF c = None THEN None
     ELSE [text |-> c.text, marks |-> c.marks \ {"approved"}, by |-> c.by]
Abstract == INSTANCE CaseDecisions WITH content <- [i \in Item |-> Committed(i)]
RefinesDecisions == Abstract!Spec

(* An interrupted decision does not block the case for ever: it is completed *)
(* or an operator's recovery rolls it back, unless a process died inside    *)
(* _append_receipt_payload and left half a receipt: then no recovery starts. *)
Settles ==
  \A t \in Txn :
    ledger[t].state = "prepared" ~> ledger[t].state # "prepared" \/ ledger[t].kind \in torn
=============================================================================
