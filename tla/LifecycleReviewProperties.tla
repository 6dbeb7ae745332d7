--------------------- MODULE LifecycleReviewProperties ---------------------
(* What reviewed lifecycle changes must not get wrong.                      *)
EXTENDS LifecycleReview

Steps == {"idle", "queued", "check", "prepare", "mark", "link", "record", "sync", "undo",
          "undo more", "settle", "note", "copy", "fill", "verify", "unlink", "keep"}
Known == Content \cup {None}
Jobs ==
  [at : Steps, kind : Kinds \cup {"none"}, o : Item \cup {None}, r : Item \cup {None},
   oldO : Known, oldR : Known, newO : Known, newR : Known, pre : BOOLEAN,
   why : {"none", "concurrent", "markdown", "ledger", "rollback"}, touched : SUBSET Item]

(* The pool, the archive, the ledger and the operations in hand keep their  *)
(* types (lifecycle_ledger.py:52, supersession.py:48).                      *)
TypeOK ==
  /\ item \in [Item -> Known] /\ archived \in [Item -> Known \cup {Half}]
  /\ latest \in [Pair -> {"none", "linked", "kept", "other"}]
  /\ deferred \subseteq Item /\ torn \in {"no", "half", "bad"}
  /\ horizon \in [Item -> Nat] /\ stale \subseteq Item
  /\ job \in [Operator -> Jobs]
  /\ ops \in Nat /\ writes \in Nat /\ faults \in Nat

(* A supersession or revert that comes to its end has changed both files,   *)
(* or none, if one write, record or restore failed; only an edit by hand,   *)
(* or a second failure after the one that made it go back, makes it give    *)
(* the pair up as it is, and it says so (supersession.py:180, 226, 615).    *)
Stands(p, c, d) ==
  /\ item[job[p].o] = c \/ job[p].o \in job[p].touched
  /\ item[job[p].r] = d \/ job[p].r \in job[p].touched
AllOrNothing ==
  \A p \in Operator :
    /\ At(p, "sync") => Stands(p, job[p].newO, job[p].newR)
    /\ At(p, "note") =>
         IF job[p].why = "rollback" THEN job[p].touched # {} \/ faults >= 2
         ELSE Stands(p, job[p].oldO, job[p].oldR)

(* A supersession never closes a cycle of superseded_by references, however *)
(* long the chain is, whoever else wrote it, and whatever failed between    *)
(* its check and its write (supersession.py:529).                           *)
There == {i \in Item : Present(i)}
Acyclic == NoLoop(There)
NoNewCycle ==
  [][\A p \in Operator :
       job[p].kind = "supersede" /\ job'[p] # job[p] /\ Acyclic => Acyclic']_vars

(* Archiving removes a file only when a whole and equal copy is in the       *)
(* archive, also a copy that an interrupted run left there, except for an   *)
(* edit after its last comparison; and the copy of an archived item stays   *)
(* as it is (lifecycle_archive.py:241).                                     *)
Archives(p, i) == At(p, "unlink") /\ job[p].o = i
ArchiveLosesNothing ==
  [][\A i \in Item :
       /\ item[i] # None /\ item'[i] = None /\ (\E p \in Operator : Archives(p, i)) =>
            archived[i] = item[i] \/ \E p \in Operator : Archives(p, i) /\ i \in job[p].touched
       /\ item[i] = None /\ archived[i] # None => archived'[i] = archived[i]]_vars
=============================================================================
