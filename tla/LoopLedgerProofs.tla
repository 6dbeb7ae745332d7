--------------------------- MODULE LoopLedgerProofs ---------------------------
(***************************************************************************)
(* For any number of processes, steps and gates, and however the steps of  *)
(* their operations interleave: every version of the ledger that can be    *)
(* read is coherent.  The argument never looks at who wrote a version.     *)
(* Each operation takes a coherent version to coherent ones, and whatever  *)
(* lies in one of the two files or in the memory of a process is a version *)
(* that some operation made.                                               *)
(***************************************************************************)
EXTENDS LoopLedgerProperties, TLAPS

(* A version that an operation may start from: its steps have been issued. *)
Sound(v) == v \in Version /\ Coherent(v) /\ Known(v) \subseteq issued

(* Nothing in the system is a version that is not sound.                   *)
AllSound ==
  /\ file \in Unreadable \/ Sound(file)
  /\ tmp \in Unreadable \/ Sound(tmp)
  /\ \A p \in Actor : Sound(job[p].new)

(* A run whose actions need a gate still has to open one or has seen one   *)
(* open.                                                                   *)
GatesSeen == contract.need # {} => contract.due # {} \/ contract.open # {}

IInv == TypeOK /\ AllSound /\ GatesSeen

-----------------------------------------------------------------------------
(* What the operations make of a version.                                  *)

Fits(r) ==
  /\ r.new \in Version /\ Coherent(r.new)
  /\ r.early \in SUBSET Claim /\ r.claims \in SUBSET Claim

LEMMA CreatedFits ==
  ASSUME NEW status \in {"created", "running"}
  PROVE  Created(status) \in Version /\ Coherent(Created(status)) /\ Known(Created(status)) = {}
<1> DEFINE v == Created(status)
<1>1. v.steps \in [Step -> StepRow] BY DEF Created, NoStep, StepRow
<1>2. v \in Version BY <1>1 DEF Created, Version, LoopStatus
<1>3. Known(v) = {} BY DEF Known, Created, NoStep
<1>4. Coherent(v) BY <1>3 DEF Coherent, Created, NoStep, Begun, Known
<1> QED BY <1>2, <1>3, <1>4

(* An operation that leaves the steps and the blockers alone.              *)
LEMMA SameSteps ==
  ASSUME NEW v \in Version, Coherent(v), NEW w \in Version,
         w.steps = v.steps, w.blockers = v.blockers,
         w.status = "completed" =>
           w.proven /\ \A s \in Known(v) : v.steps[s].status \in {"verified", "cancelled"}
  PROVE  Coherent(w)
BY DEF Coherent, Known, Ready

LEMMA CheckpointFits ==
  ASSUME NEW v \in Version, Coherent(v), NEW r \in Checkpoint(v)
  PROVE  Fits(r) /\ Known(r.new) = Known(v)
<1>1. v.status # "completed" BY DEF Checkpoint
<1>2. r.new \in {v, [v EXCEPT !.status = "running"]} BY DEF Checkpoint, Result
<1>3. [v EXCEPT !.status = "running"] \in Version BY DEF Version, LoopStatus
<1>4. r.new \in Version /\ r.new.steps = v.steps /\ r.new.blockers = v.blockers
      /\ r.new.status # "completed"
  BY <1>1, <1>2, <1>3 DEF Version
<1>5. r.early \in SUBSET Claim /\ r.claims \in SUBSET Claim
  BY DEF Checkpoint, Result, Claim, Restarted
<1> QED BY <1>4, <1>5, SameSteps DEF Fits, Known

LEMMA CompleteFits ==
  ASSUME NEW v \in Version, Coherent(v), NEW r \in Complete(v)
  PROVE  Fits(r) /\ Known(r.new) = Known(v)
<1>1. /\ v.status = "running"
      /\ \A s \in Known(v) : v.steps[s].status \in {"verified", "cancelled"}
  BY DEF Complete
<1>2. PICK e \in BOOLEAN :
        (e \/ v.proven) /\ r = Result([v EXCEPT !.status = "completed", !.proven = @ \/ e], {Done})
  BY DEF Complete
<1>3. v.proven \in BOOLEAN BY DEF Version
<1>4. v.proven \/ e = TRUE BY <1>2, <1>3
<1>5. r.new = [v EXCEPT !.status = "completed", !.proven = TRUE]
  BY <1>2, <1>4, Zenon DEF Result
<1>6. /\ r.new \in Version /\ r.new.steps = v.steps /\ r.new.blockers = v.blockers
      /\ r.new.proven
  BY <1>5 DEF Version, LoopStatus
<1>7. r.early \in SUBSET Claim /\ r.claims \in SUBSET Claim
  BY <1>2 DEF Result, Claim, Done
<1> QED BY <1>1, <1>6, <1>7, SameSteps DEF Fits, Known

LEMMA FailFits ==
  ASSUME NEW v \in Version, Coherent(v), NEW evidences \in SUBSET BOOLEAN,
         NEW r \in Fail(v, evidences)
  PROVE  Fits(r) /\ Known(r.new) = Known(v) /\ r.new.status # "completed"
<1>1. PICK e \in evidences :
        r = Result([v EXCEPT !.status = "failed", !.proven = @ \/ e], {})
  BY DEF Fail
<1>2. (v.proven \/ e) \in BOOLEAN BY Zenon DEF Version
<1>3. PICK b \in BOOLEAN : r.new = [v EXCEPT !.status = "failed", !.proven = b]
  BY <1>1, <1>2, Zenon DEF Result
<1>4. r.new \in Version /\ r.new.steps = v.steps /\ r.new.blockers = v.blockers
      /\ r.new.status # "completed"
  BY <1>3 DEF Version, LoopStatus
<1>5. r.early \in SUBSET Claim /\ r.claims \in SUBSET Claim BY <1>1 DEF Result
<1> QED BY <1>4, <1>5, SameSteps DEF Fits, Known

LEMMA BlockFits ==
  ASSUME NEW v \in Version, Coherent(v), NEW r \in Block(v)
  PROVE  Fits(r) /\ Known(r.new) = Known(v) /\ r.new.status # "completed"
<1>1. r = Result([v EXCEPT !.status = "blocked"], {}) BY DEF Block
<1>2. r.new \in Version /\ r.new.steps = v.steps /\ r.new.blockers = v.blockers
      /\ r.new.status # "completed"
  BY <1>1 DEF Result, Version, LoopStatus
<1>3. r.early \in SUBSET Claim /\ r.claims \in SUBSET Claim BY <1>1 DEF Result
<1> QED BY <1>2, <1>3, SameSteps DEF Fits, Known

LEMMA FeedbackFits ==
  ASSUME NEW v \in Version, Coherent(v), NEW passed \in BOOLEAN, NEW r \in Feedback(v, passed)
  PROVE  Fits(r) /\ Known(r.new) = Known(v) /\ r.new.status = v.status
<1>1. r = Result([v EXCEPT !.proven = @ \/ passed], {}) BY DEF Feedback
<1>2. /\ (v.proven \/ passed) \in BOOLEAN
      /\ v.proven => (v.proven \/ passed)
  BY Zenon DEF Version
<1>3. PICK b \in BOOLEAN : (v.proven => b) /\ r.new = [v EXCEPT !.proven = b]
  BY <1>1, <1>2, Zenon DEF Result
<1>4. /\ r.new \in Version /\ r.new.steps = v.steps /\ r.new.blockers = v.blockers
      /\ r.new.status = v.status /\ r.new.proven = b
  BY <1>3 DEF Version
<1>5. v.status = "completed" =>
        b /\ \A s \in Known(v) : v.steps[s].status \in {"verified", "cancelled"}
  BY <1>3, Zenon DEF Coherent
<1>6. Coherent(r.new) BY <1>4, <1>5, SameSteps
<1>7. r.early \in SUBSET Claim /\ r.claims \in SUBSET Claim BY <1>1 DEF Result
<1> QED BY <1>4, <1>6, <1>7 DEF Fits, Known

LEMMA OpenGateFits ==
  ASSUME NEW v \in Version, Coherent(v), NEW g \in Gate, NEW r \in OpenGate(v, g)
  PROVE  Fits(r) /\ Known(r.new) = Known(v) /\ r.new.status = v.status /\ r.new.gates # {}
<1>1. r = Result([v EXCEPT !.gates = @ \cup {g}], {}) BY DEF OpenGate
<1>2. /\ r.new \in Version /\ r.new.steps = v.steps /\ r.new.blockers = v.blockers
      /\ r.new.status = v.status /\ r.new.proven = v.proven /\ g \in r.new.gates
  BY <1>1 DEF Result, Version
<1>3. Coherent(r.new)
  <2>1. v.status = "completed" =>
          v.proven /\ \A s \in Known(v) : v.steps[s].status \in {"verified", "cancelled"}
    BY Zenon DEF Coherent
  <2> QED BY <1>2, <2>1, SameSteps
<1>4. r.early \in SUBSET Claim /\ r.claims \in SUBSET Claim BY <1>1 DEF Result
<1> QED BY <1>2, <1>3, <1>4 DEF Fits, Known

LEMMA ResolveFits ==
  ASSUME NEW v \in Version, Coherent(v), NEW r \in Resolve(v)
  PROVE  Fits(r) /\ Known(r.new) = Known(v)
<1>1. PICK x \in v.gates \X Decision :
        r = Result([v EXCEPT !.gates = @ \ {x[1]}, !.resolved = @ \cup {x}], {x})
  BY DEF Resolve
<1>2. x \in Gate \X Decision BY DEF Version
<1>3. /\ r.new \in Version /\ r.new.steps = v.steps /\ r.new.blockers = v.blockers
      /\ r.new.status = v.status /\ r.new.proven = v.proven
  BY <1>1, <1>2 DEF Result, Version
<1>4. Coherent(r.new)
  <2>1. v.status = "completed" =>
          v.proven /\ \A s \in Known(v) : v.steps[s].status \in {"verified", "cancelled"}
    BY Zenon DEF Coherent
  <2> QED BY <1>3, <2>1, SameSteps
<1>5. r.early \in SUBSET Claim /\ r.claims \in SUBSET Claim BY <1>1, <1>2 DEF Result, Claim
<1> QED BY <1>3, <1>4, <1>5 DEF Fits, Known

(* A new step: no version knows its id, so nothing depends on it yet.      *)
LEMMA AddStepFits ==
  ASSUME NEW v \in Version, Coherent(v), Known(v) \subseteq issued, NEW r \in AddStep(v)
  PROVE  Fits(r)
<1>1. PICK new \in (Step \ issued) \X SUBSET Known(v) :
        r = Result([v EXCEPT !.steps[new[1]] = [status |-> "pending", deps |-> new[2]]], {})
  BY DEF AddStep
<1> DEFINE s == new[1]
           row == [status |-> "pending", deps |-> new[2]]
           w == [v EXCEPT !.steps[s] = row]
<1>2. /\ s \in Step /\ s \notin Known(v) /\ new[2] \subseteq Known(v)
      /\ v.status # "completed" /\ Known(v) \subseteq Step
  BY <1>1 DEF AddStep, Known
<1>3. row \in StepRow BY <1>2 DEF StepRow, StepStatus
<1>4. w \in Version BY <1>2, <1>3 DEF Version
<1>5. /\ w.status = v.status /\ w.blockers = v.blockers
      /\ w.steps = [v.steps EXCEPT ![s] = row] /\ v.steps \in [Step -> StepRow]
  BY DEF Version
<1>6. w.steps[s] = row /\ \A u \in Step : u # s => w.steps[u] = v.steps[u]
  BY <1>2, <1>5
<1>7. Known(w) = Known(v) \cup {s} BY <1>2, <1>6 DEF Known
<1>8. v.steps[s].status = "absent" BY <1>2 DEF Known
<1>9. ASSUME NEW u \in Step
      PROVE  /\ w.steps[u].deps \subseteq Known(w)
             /\ w.steps[u].status \in Begun => Ready(w, u)
             /\ u \in w.blockers <=> w.steps[u].status = "blocked"
  <2>1. CASE u = s
    BY <1>2, <1>5, <1>6, <1>7, <1>8, <2>1 DEF Coherent, Begun
  <2>2. CASE u # s
    <3>1. w.steps[u] = v.steps[u] BY <1>6, <2>2
    <3>2. /\ v.steps[u].deps \subseteq Known(v)
          /\ v.steps[u].status \in Begun => Ready(v, u)
          /\ u \in v.blockers <=> v.steps[u].status = "blocked"
      BY DEF Coherent
    <3>3. Ready(v, u) => Ready(w, u)
      BY <1>2, <1>6, <3>1, <3>2 DEF Ready
    <3> QED BY <1>5, <1>7, <3>1, <3>2, <3>3
  <2> QED BY <2>1, <2>2
<1>10. Coherent(w) BY <1>2, <1>5, <1>9 DEF Coherent
<1>11. r.new = w /\ r.early = {} /\ r.claims = {} BY <1>1 DEF Result
<1> QED BY <1>4, <1>10, <1>11 DEF Fits

(* A step that moves was not verified, so no step that has begun depends   *)
(* on it; and one that has begun itself was ready before.                  *)
LEMMA MoveStepFits ==
  ASSUME NEW v \in Version, Coherent(v), NEW r \in MoveStep(v)
  PROVE  Fits(r)
<1>1. PICK m \in Step \X StepStatus :
        /\ m[2] \in Moves[v.steps[m[1]].status]
        /\ m[2] = "running" => Ready(v, m[1])
        /\ r = Result(Moved(v, m[1], m[2]), IF m[2] = "verified" THEN {m} ELSE {})
  BY DEF MoveStep
<1> DEFINE s == m[1]
           to == m[2]
           w == Moved(v, s, to)
           old == v.steps[s].status
<1>2. s \in Step /\ to \in StepStatus /\ v.steps \in [Step -> StepRow] BY DEF Version
<1>3. old \in StepStatus \cup {"absent"} BY <1>2 DEF StepRow
<1>4. /\ old \notin {"absent", "verified", "cancelled"}
      /\ to # "pending"
      /\ to = "completed" => old = "running"
      /\ to = "verified" => old = "completed"
      /\ to = "blocked" => old # "blocked"
  BY <1>1, <1>2, <1>3 DEF Moves, StepStatus
<1>5. StatusAfter(v, s, to) \in LoopStatus \ {"completed"} \/ StatusAfter(v, s, to) = v.status
  BY DEF StatusAfter, LoopStatus
<1>6. BlockersAfter(v, s, to) \in SUBSET Step BY <1>2 DEF BlockersAfter, Version
<1>7. \A u \in Step : u # s => (u \in BlockersAfter(v, s, to) <=> u \in v.blockers)
  BY DEF BlockersAfter
<1>8. s \in BlockersAfter(v, s, to) <=> to = "blocked"
  <2>1. s \in v.blockers <=> old = "blocked" BY <1>2 DEF Coherent
  <2> QED BY <1>2, <1>4, <2>1 DEF BlockersAfter
<1>9. w \in Version
  <2>1. [v.steps EXCEPT ![s].status = to] \in [Step -> StepRow] BY <1>2 DEF StepRow
  <2>2. StatusAfter(v, s, to) \in LoopStatus BY <1>5 DEF Version
  <2>3. w = [v EXCEPT !.status = StatusAfter(v, s, to), !.steps = [@ EXCEPT ![s].status = to],
                      !.blockers = BlockersAfter(v, s, to)]
    BY DEF Moved
  <2> HIDE DEF s, to, w
  <2> QED BY <1>6, <2>1, <2>2, <2>3 DEF Version
<1>10. /\ w.steps[s].status = to /\ w.steps[s].deps = v.steps[s].deps
       /\ \A u \in Step : u # s => w.steps[u] = v.steps[u]
       /\ w.blockers = BlockersAfter(v, s, to)
       /\ w.status = StatusAfter(v, s, to) /\ w.proven = v.proven
  BY <1>2 DEF Moved, Version, StepRow
<1>11. Known(w) = Known(v) BY <1>2, <1>4, <1>10 DEF Known, StepStatus
<1>12. ASSUME NEW u \in Step, Ready(v, u), v.steps[u].deps \subseteq Known(v)
       PROVE  Ready(w, u)
  BY <1>4, <1>10, <1>12, <1>2 DEF Ready, Known
<1>13. ASSUME NEW u \in Step
       PROVE  /\ w.steps[u].deps \subseteq Known(w)
              /\ w.steps[u].status \in Begun => Ready(w, u)
              /\ u \in w.blockers <=> w.steps[u].status = "blocked"
  <2>1. /\ v.steps[u].deps \subseteq Known(v)
        /\ v.steps[u].status \in Begun => Ready(v, u)
        /\ u \in v.blockers <=> v.steps[u].status = "blocked"
    BY DEF Coherent
  <2>2. CASE u = s
    <3>1. to \in Begun => Ready(v, s)
      BY <1>1, <1>4, <2>1, <2>2 DEF Begun
    <3> QED BY <1>8, <1>10, <1>11, <1>12, <2>1, <2>2, <3>1
  <2>3. CASE u # s
    BY <1>7, <1>10, <1>11, <1>12, <2>1, <2>3
  <2> QED BY <2>2, <2>3
<1>14. w.status # "completed"
  <2>1. v.status = "completed" => s \notin Known(v)
    BY <1>4 DEF Coherent
  <2>2. s \in Known(v) BY <1>2, <1>4 DEF Known
  <2> QED BY <1>5, <1>10, <2>1, <2>2
<1>15. Coherent(w) BY <1>13, <1>14 DEF Coherent
<1>16. r.new = w /\ r.early = {} /\ r.claims \in SUBSET Claim
  BY <1>1, <1>2 DEF Result, Claim
<1> QED BY <1>9, <1>15, <1>16 DEF Fits

LEMMA ResultsFit ==
  ASSUME NEW v \in Version, Coherent(v), Known(v) \subseteq issued, NEW r \in Results(v)
  PROVE  Fits(r)
<1>1. CASE r \in Checkpoint(v) BY <1>1, CheckpointFits
<1>2. CASE r \in Complete(v) BY <1>2, CompleteFits
<1>3. CASE r \in Fail(v, BOOLEAN) BY <1>3, FailFits
<1>4. CASE r \in Block(v) BY <1>4, BlockFits
<1>5. CASE r \in Feedback(v, TRUE) BY <1>5, FeedbackFits
<1>6. CASE r \in Feedback(v, FALSE) BY <1>6, FeedbackFits
<1>7. CASE r \in AddStep(v) BY <1>7, AddStepFits
<1>8. CASE r \in MoveStep(v) BY <1>8, MoveStepFits
<1>9. CASE r \in UNION {OpenGate(v, g) : g \in Gate}
  <2>1. PICK g \in Gate : r \in OpenGate(v, g) BY <1>9
  <2> QED BY <2>1, OpenGateFits
<1>10. CASE r \in Resolve(v) BY <1>10, ResolveFits
<1> QED
  BY <1>1, <1>2, <1>3, <1>4, <1>5, <1>6, <1>7, <1>8, <1>9, <1>10 DEF Results

-----------------------------------------------------------------------------
(* The steps of the operations.                                            *)

LEMMA IdleIsSound == Idle \in JobType /\ Sound(Idle.new)
BY CreatedFits DEF Idle, JobType, Sound

LEMMA InitInv == Init => IInv
<1> SUFFICES ASSUME Init PROVE IInv OBVIOUS
<1>1. TypeOK
  <2>1. NoRun \in RunType BY LedgerAssumption DEF NoRun, RunType
  <2> QED BY <2>1, IdleIsSound, LedgerAssumption DEF Init, TypeOK, Unreadable
<1>2. AllSound BY IdleIsSound DEF Init, AllSound, Unreadable
<1>3. GatesSeen BY DEF Init, GatesSeen, NoRun
<1> QED BY <1>1, <1>2, <1>3 DEF IInv

(* A version that an operation may read.                                   *)
LEMMA ReadIsSound ==
  ASSUME IInv, file \notin Unreadable
  PROVE  file \in Version /\ Coherent(file) /\ Known(file) \subseteq issued
BY DEF IInv, AllSound, Sound

(* Issuing more ids spoils no version.                                     *)
LEMMA StillSound ==
  ASSUME issued \subseteq issued', NEW v, Sound(v)
  PROVE  v \in Version /\ Coherent(v) /\ Known(v) \subseteq issued'
BY DEF Sound

LEMMA StartPreserves ==
  ASSUME IInv, NEW p \in Actor, NEW r, Fits(r), Start(p, r)
  PROVE  /\ AllSound'
         /\ contract' \in RunType => TypeOK'
<1> USE DEF IInv
<1> DEFINE new == [at |-> IF r.early = {} THEN "open" ELSE "early", new |-> r.new,
                   early |-> r.early, claims |-> r.claims, fd |-> "none"]
<1>1. new \in JobType BY DEF Fits, JobType
<1>2. job' = [job EXCEPT ![p] = new] BY DEF Start
<1>3. issued' = issued \cup Known(r.new) /\ Known(r.new) \subseteq Step BY DEF Start, Known
<1>4. UNCHANGED <<file, tmp, log, credits, crashes>> BY DEF Start, disk
<1>5. /\ ops' \in Nat /\ races' \in 0..MaxRaces
  BY LedgerAssumption DEF Start, TypeOK
<1>6. contract' \in RunType => TypeOK'
  BY <1>1, <1>2, <1>3, <1>4, <1>5 DEF TypeOK
<1>9. ASSUME NEW v, Sound(v) PROVE v \in Version /\ Coherent(v) /\ Known(v) \subseteq issued'
  BY <1>3, <1>9, StillSound
<1>10. AllSound'
  <2>1. file' \in Unreadable \/ Sound(file)' BY <1>4, <1>9 DEF AllSound, Sound
  <2>2. tmp' \in Unreadable \/ Sound(tmp)' BY <1>4, <1>9 DEF AllSound, Sound
  <2>3. ASSUME NEW q \in Actor PROVE Sound(job[q].new)'
    <3>1. job \in [Actor -> JobType] BY DEF TypeOK
    <3>2. CASE q = p
      <4>1. job'[q].new = r.new BY <1>2, <3>1, <3>2
      <4> QED BY <1>3, <4>1 DEF Sound, Fits
    <3>3. CASE q # p
      <4>1. job'[q].new = job[q].new BY <1>2, <3>1, <3>3
      <4>2. Sound(job[q].new) BY DEF AllSound
      <4> QED BY <1>9, <4>1, <4>2 DEF Sound
    <3> QED BY <3>2, <3>3
  <2> QED BY <2>1, <2>2, <2>3 DEF AllSound
<1> QED BY <1>6, <1>10

(* A step that only changes what processes hold, not the versions.         *)
LEMMA SameVersions ==
  ASSUME AllSound, UNCHANGED issued,
         file' \in {file} \cup Unreadable \cup {tmp} \cup {job[p].new : p \in Actor},
         tmp' \in {tmp} \cup Unreadable \cup {job[p].new : p \in Actor},
         \A p \in Actor : job'[p].new \in {job[p].new, Idle.new}
  PROVE  AllSound'
<1>1. ASSUME NEW v, Sound(v) PROVE v \in Version /\ Coherent(v) /\ Known(v) \subseteq issued'
  BY <1>1, StillSound
<1>3. ASSUME NEW q \in Actor PROVE Sound(job[q].new)'
  <2>1. Sound(job'[q].new) BY IdleIsSound DEF AllSound
  <2> QED BY <1>1, <2>1 DEF Sound
<1>4. file' \in Unreadable \/ Sound(file)'
  <2>1. file' \in Unreadable \/ Sound(file') BY DEF AllSound
  <2> QED BY <1>1, <2>1 DEF Sound
<1>5. tmp' \in Unreadable \/ Sound(tmp)'
  <2>1. tmp' \in Unreadable \/ Sound(tmp') BY DEF AllSound
  <2> QED BY <1>1, <2>1 DEF Sound
<1> QED BY <1>3, <1>4, <1>5 DEF AllSound

LEMMA BrokenRuns ==
  ASSUME TypeOK, GatesSeen, NEW p, Broken(p)
  PROVE  contract' \in RunType /\ GatesSeen'
BY DEF TypeOK, GatesSeen, RunType, Broken

LEMMA CreatePreserves ==
  ASSUME IInv, NEW p \in Actor, Create(p)
  PROVE  IInv'
<1>1. PICK status \in {"created", "running"} : Start(p, Result(Created(status), {}))
  BY DEF Create
<1>2. Fits(Result(Created(status), {})) BY CreatedFits DEF Fits, Result
<1> QED BY <1>1, <1>2, StartPreserves DEF IInv, Create, TypeOK, GatesSeen

LEMMA OperatePreserves ==
  ASSUME IInv, NEW p \in Actor, Operate(p)
  PROVE  IInv'
<1>1. PICK r \in Results(file) : Start(p, r) BY DEF Operate
<1>2. Fits(r) BY <1>1, ReadIsSound, ResultsFit DEF Operate
<1> QED BY <1>1, <1>2, StartPreserves DEF IInv, Operate, TypeOK, GatesSeen

LEMMA AnnouncePreserves ==
  ASSUME IInv, NEW p \in Actor, Announce(p)
  PROVE  IInv'
<1> USE DEF IInv
<1>1. /\ job \in [Actor -> JobType] /\ UNCHANGED <<file, tmp, credits, issued, contract, ops, races, crashes>>
      /\ job' = [job EXCEPT ![p].at = "open"] /\ log' = log \cup job[p].early
  BY DEF Announce, disk, TypeOK
<1>2. /\ job' \in [Actor -> JobType]
      /\ \A q \in Actor : job'[q].new = job[q].new
  BY <1>1 DEF JobType
<1>3. job[p].early \in SUBSET Claim BY <1>1 DEF JobType
<1>4. TypeOK' BY <1>1, <1>2, <1>3 DEF TypeOK
<1>5. AllSound' BY <1>1, <1>2, SameVersions
<1> QED BY <1>1, <1>4, <1>5 DEF GatesSeen

LEMMA OpenPreserves ==
  ASSUME IInv, NEW p \in Actor, Open(p)
  PROVE  IInv'
<1> USE DEF IInv
<1>1. /\ job \in [Actor -> JobType] /\ UNCHANGED <<file, log, credits, issued, contract, ops, races, crashes>>
      /\ job' = [job EXCEPT ![p].at = "fill", ![p].fd = "tmp"] /\ tmp' \in Unreadable
  BY DEF Open, TypeOK, Unreadable
<1>2. /\ job' \in [Actor -> JobType]
      /\ \A q \in Actor : job'[q].new = job[q].new
  BY <1>1 DEF JobType
<1>3. TypeOK' BY <1>1, <1>2 DEF TypeOK
<1>4. AllSound' BY <1>1, <1>2, SameVersions
<1> QED BY <1>1, <1>3, <1>4 DEF GatesSeen

LEMMA FillPreserves ==
  ASSUME IInv, NEW p \in Actor, Fill(p)
  PROVE  IInv'
<1> USE DEF IInv
<1>1. /\ job \in [Actor -> JobType] /\ UNCHANGED <<log, credits, issued, contract, ops, races, crashes>>
      /\ job' = [job EXCEPT ![p].at = "move", ![p].fd = "none"]
      /\ tmp' \in {tmp, job[p].new, Torn} /\ file' \in {file, job[p].new, Torn}
  BY DEF Fill, TypeOK, Written
<1>2. /\ job' \in [Actor -> JobType]
      /\ \A q \in Actor : job'[q].new = job[q].new
  BY <1>1 DEF JobType
<1>3. job[p].new \in Version /\ Torn \in Unreadable BY <1>1 DEF JobType, Unreadable
<1>4. TypeOK' BY <1>1, <1>2, <1>3 DEF TypeOK
<1>5. AllSound' BY <1>1, <1>2, <1>3, SameVersions
<1> QED BY <1>1, <1>4, <1>5 DEF GatesSeen

LEMMA MovePreserves ==
  ASSUME IInv, NEW p \in Actor, Move(p)
  PROVE  IInv'
<1> USE DEF IInv
<1>1. /\ job \in [Actor -> JobType] /\ UNCHANGED <<log, credits, issued, contract, ops, races, crashes>>
      /\ file' = tmp /\ tmp' = Absent /\ tmp' \in Unreadable
  BY DEF Move, TypeOK, Unreadable
<1>2. job' = [q \in Actor |->
        IF q # p THEN [job[q] EXCEPT !.fd = Renamed(@)]
        ELSE IF job[p].claims = {} THEN Idle ELSE [job[p] EXCEPT !.at = "tell"]]
  BY DEF Move
<1>3. ASSUME NEW q \in Actor
      PROVE  job'[q] \in JobType /\ job'[q].new \in {job[q].new, Idle.new}
  <2>1. CASE q # p
    <3>1. Renamed(job[q].fd) \in {"none", "tmp", "file", "gone"}
      BY <1>1 DEF JobType, Renamed
    <3>2. job'[q] = [job[q] EXCEPT !.fd = Renamed(job[q].fd)] BY <1>2, <2>1
    <3> QED BY <1>1, <3>1, <3>2 DEF JobType
  <2>2. CASE q = p /\ job[p].claims = {}
    BY <1>2, <2>2, IdleIsSound
  <2>3. CASE q = p /\ job[p].claims # {}
    BY <1>1, <1>2, <2>3 DEF JobType
  <2> QED BY <2>1, <2>2, <2>3
<1>4. job' \in [Actor -> JobType] BY <1>2, <1>3
<1>5. TypeOK' BY <1>1, <1>4 DEF TypeOK
<1>6. AllSound' BY <1>1, <1>3, SameVersions
<1> QED BY <1>1, <1>5, <1>6 DEF GatesSeen

LEMMA RaisePreserves ==
  ASSUME IInv, NEW p \in Actor, Raise(p)
  PROVE  IInv'
<1> USE DEF IInv
<1>1. /\ job \in [Actor -> JobType] /\ UNCHANGED <<file, tmp, log, credits, issued, ops, races, crashes>>
      /\ job' = [job EXCEPT ![p] = Idle] /\ Broken(p)
  BY DEF Raise, TypeOK, disk
<1>2. /\ job' \in [Actor -> JobType]
      /\ \A q \in Actor : job'[q].new \in {job[q].new, Idle.new}
  BY <1>1, IdleIsSound
<1>3. contract' \in RunType /\ GatesSeen' BY <1>1, BrokenRuns
<1>4. TypeOK' BY <1>1, <1>2, <1>3 DEF TypeOK
<1>5. AllSound' BY <1>1, <1>2, SameVersions
<1> QED BY <1>3, <1>4, <1>5

LEMMA TellPreserves ==
  ASSUME IInv, NEW p \in Actor, Tell(p)
  PROVE  IInv'
<1> USE DEF IInv
<1>1. /\ job \in [Actor -> JobType]
      /\ UNCHANGED <<file, tmp, credits, issued, contract, ops, races, crashes>>
      /\ log' = log \cup job[p].claims
      /\ job' \in {[job EXCEPT ![p].at = "learn"], [job EXCEPT ![p] = Idle]}
  BY DEF Tell, TypeOK, disk
<1>2. /\ job' \in [Actor -> JobType]
      /\ \A q \in Actor : job'[q].new \in {job[q].new, Idle.new}
  BY <1>1, IdleIsSound DEF JobType
<1>3. job[p].claims \in SUBSET Claim BY <1>1 DEF JobType
<1>4. TypeOK' BY <1>1, <1>2, <1>3 DEF TypeOK
<1>5. AllSound' BY <1>1, <1>2, SameVersions
<1> QED BY <1>1, <1>4, <1>5 DEF GatesSeen

LEMMA LearnPreserves ==
  ASSUME IInv, NEW p \in Actor, Learn(p)
  PROVE  IInv'
<1> USE DEF IInv
<1>1. /\ job \in [Actor -> JobType] /\ credits' = credits + 1 /\ credits \in Nat
      /\ UNCHANGED <<file, tmp, log, issued, contract, ops, races, crashes>>
      /\ job' = [job EXCEPT ![p] = Idle]
  BY DEF Learn, TypeOK, disk
<1>2. /\ job' \in [Actor -> JobType]
      /\ \A q \in Actor : job'[q].new \in {job[q].new, Idle.new}
  BY <1>1, IdleIsSound
<1>3. TypeOK' BY <1>1, <1>2 DEF TypeOK
<1>4. AllSound' BY <1>1, <1>2, SameVersions
<1> QED BY <1>1, <1>3, <1>4 DEF GatesSeen

LEMMA CrashPreserves ==
  ASSUME IInv, NEW p \in Actor, Crash(p)
  PROVE  IInv'
<1> USE DEF IInv
<1>1. /\ job \in [Actor -> JobType] /\ crashes' \in 0..MaxCrashes
      /\ UNCHANGED <<file, tmp, log, credits, issued, ops, races>>
      /\ job' = [job EXCEPT ![p] = Idle] /\ Broken(p)
  BY LedgerAssumption DEF Crash, TypeOK, disk
<1>2. /\ job' \in [Actor -> JobType]
      /\ \A q \in Actor : job'[q].new \in {job[q].new, Idle.new}
  BY <1>1, IdleIsSound
<1>3. contract' \in RunType /\ GatesSeen' BY <1>1, BrokenRuns
<1>4. TypeOK' BY <1>1, <1>2, <1>3 DEF TypeOK
<1>5. AllSound' BY <1>1, <1>2, SameVersions
<1> QED BY <1>3, <1>4, <1>5

LEMMA RunContractPreserves ==
  ASSUME IInv, NEW p \in Actor, RunContract(p)
  PROVE  IInv'
<1>1. Start(p, Result(Created("running"), {})) BY DEF RunContract
<1>2. Fits(Result(Created("running"), {})) BY CreatedFits DEF Fits, Result
<1>3. PICK need \in SUBSET Gate :
        contract' = [at |-> "running", by |-> p, left |-> Verifiers, bad |-> FALSE,
                     need |-> need, due |-> need, open |-> {}]
  BY DEF RunContract
<1>4. contract' \in RunType BY <1>3, LedgerAssumption DEF RunType
<1>5. GatesSeen' BY <1>3 DEF GatesSeen
<1> QED BY <1>1, <1>2, <1>4, <1>5, StartPreserves DEF IInv

LEMMA VerifyPreserves ==
  ASSUME IInv, NEW p \in Actor, Verify(p)
  PROVE  IInv'
<1>1. PICK passed \in BOOLEAN :
        /\ \E r \in Feedback(file, passed) : Start(p, r)
        /\ contract' = [contract EXCEPT !.left = @ - 1, !.bad = @ \/ ~passed]
  BY DEF Verify
<1>2. PICK r \in Feedback(file, passed) : Start(p, r) BY <1>1
<1>3. Fits(r) BY <1>2, ReadIsSound, FeedbackFits DEF Verify
<1>4. contract \in RunType /\ contract.left > 0 BY DEF IInv, TypeOK, Verify
<1>5. PICK b \in BOOLEAN : contract' = [contract EXCEPT !.left = @ - 1, !.bad = b]
  <2>1. (contract.bad \/ ~passed) \in BOOLEAN BY Zenon
  <2> QED BY <1>1, <2>1, Zenon
<1>6. contract' \in RunType
  <2>1. contract.left - 1 \in 0..Verifiers BY <1>4, LedgerAssumption DEF RunType
  <2> QED BY <1>4, <1>5, <2>1 DEF RunType
<1>7. GatesSeen' BY <1>4, <1>5 DEF GatesSeen, IInv, RunType
<1> QED BY <1>2, <1>3, <1>6, <1>7, StartPreserves DEF IInv

LEMMA OpenNeededPreserves ==
  ASSUME IInv, NEW p \in Actor, OpenNeeded(p)
  PROVE  IInv'
<1>1. PICK g \in contract.due : \E r \in OpenGate(file, g) :
        Start(p, r) /\ contract' = [contract EXCEPT !.due = @ \ {g}, !.open = r.new.gates]
  BY DEF OpenNeeded
<1>2. PICK r \in OpenGate(file, g) :
        Start(p, r) /\ contract' = [contract EXCEPT !.due = @ \ {g}, !.open = r.new.gates]
  BY <1>1
<1>3. contract \in RunType /\ g \in Gate BY DEF IInv, TypeOK, RunType
<1>4. Fits(r) /\ r.new.gates # {} BY <1>3, ReadIsSound, OpenGateFits DEF OpenNeeded
<1>5. contract' \in RunType BY <1>2, <1>3, <1>4 DEF RunType, Fits, Version
<1>6. GatesSeen' BY <1>2, <1>3, <1>4 DEF GatesSeen, RunType
<1> QED BY <1>2, <1>4, <1>5, <1>6, StartPreserves DEF IInv

(* What the run decides, when it completes the loop.                       *)
LEMMA VerdictFits ==
  ASSUME IInv, file \notin Unreadable, NEW r \in Verdict(file)
  PROVE  /\ Fits(r)
         /\ r.new.status = "completed" =>
              ~contract.bad /\ contract.due = {} /\ contract.open = {}
<1>1. file \in Version /\ Coherent(file) BY ReadIsSound
<1>2. CASE contract.bad
  <2>1. r \in Fail(file, {TRUE}) BY <1>2 DEF Verdict
  <2>2. {TRUE} \in SUBSET BOOLEAN OBVIOUS
  <2> QED BY <1>1, <2>1, <2>2, FailFits
<1>3. CASE ~contract.bad /\ contract.due # {} BY <1>3 DEF Verdict
<1>4. CASE ~contract.bad /\ contract.due = {} /\ contract.open # {}
  <2>1. r \in Block(file) BY <1>4 DEF Verdict
  <2> QED BY <1>1, <2>1, BlockFits
<1>5. CASE ~contract.bad /\ contract.due = {} /\ contract.open = {}
  <2>1. r \in Complete(file) BY <1>5 DEF Verdict
  <2> QED BY <1>1, <1>5, <2>1, CompleteFits
<1> QED BY <1>2, <1>3, <1>4, <1>5

LEMMA DecidePreserves ==
  ASSUME IInv, NEW p \in Actor, Decide(p)
  PROVE  IInv'
<1>1. PICK r \in Verdict(file) : Start(p, r) BY DEF Decide
<1>2. Fits(r) BY <1>1, VerdictFits DEF Decide
<1>3. contract' \in RunType /\ GatesSeen' BY DEF Decide, IInv, TypeOK, RunType, GatesSeen
<1> QED BY <1>1, <1>2, <1>3, StartPreserves DEF IInv

LEMMA AbandonPreserves ==
  ASSUME IInv, NEW p \in Actor, Abandon(p)
  PROVE  IInv'
<1> USE DEF IInv
<1>1. UNCHANGED <<file, tmp, job, log, credits, issued, ops, races, crashes>>
  BY DEF Abandon, disk
<1>2. contract' \in RunType /\ GatesSeen' BY DEF Abandon, TypeOK, RunType, GatesSeen
<1>3. TypeOK' BY <1>1, <1>2 DEF TypeOK
<1>4. AllSound' BY <1>1, SameVersions
<1> QED BY <1>2, <1>3, <1>4

LEMMA StepInv ==
  ASSUME IInv, [Next]_vars
  PROVE  IInv'
<1>1. ASSUME NEW p \in Actor,
             Create(p) \/ Operate(p) \/ RunContract(p) \/ GoOn(p) \/ Run(p) \/ Crash(p)
      PROVE  IInv'
  BY <1>1, CreatePreserves, OperatePreserves, RunContractPreserves, AnnouncePreserves,
     OpenPreserves, FillPreserves, MovePreserves, RaisePreserves, TellPreserves,
     LearnPreserves, VerifyPreserves, OpenNeededPreserves, DecidePreserves,
     AbandonPreserves, CrashPreserves
     DEF GoOn, Run
<1>2. CASE UNCHANGED vars
  BY <1>2, SameVersions DEF vars, disk, IInv, TypeOK, GatesSeen
<1> QED BY <1>1, <1>2 DEF Next

LEMMA Invariance == Spec => []IInv
BY InitInv, StepInv, PTL DEF Spec

-----------------------------------------------------------------------------
(* While no operation begins during another one, the ledger only moves     *)
(* forward: what a version says, every later version says too, and what an *)
(* event is going to claim lies in the file before the event is written.   *)

Continues(v, w) ==
  /\ v.status = "completed" => w.status = "completed"
  /\ v.resolved \subseteq w.resolved
  /\ \A s \in Step : v.steps[s].status = "verified" => w.steps[s].status = "verified"

(* What an operation makes of v takes nothing back, and says what its      *)
(* event claims.                                                           *)
Advances(v, r) ==
  /\ Continues(v, r.new)
  /\ \A claim \in r.claims : Holds(r.new, claim)
  /\ Done \in r.claims => v.status # "completed"
  /\ r.early \subseteq {Restarted}

OneAtATime == \A p, q \in Actor : At(p, "idle") \/ At(q, "idle") \/ p = q

(* Nothing is claimed before there is a ledger, and it is made once.       *)
Unwritten ==
  /\ file \in Version \cup {Absent}
  /\ ops = 0 => file = Absent /\ \A p \in Actor : At(p, "idle")
  /\ file = Absent => log = {} /\ credits = 0

(* The temporary file is the writer's own until it takes the ledger's name.*)
Placed(p) ==
  /\ At(p, "fill") => job[p].fd = "tmp" /\ tmp = Partial
  /\ At(p, "move") => tmp = job[p].new

(* A version that is on its way to the file.                               *)
Writing(p) ==
  (At(p, "early") \/ At(p, "open") \/ At(p, "fill") \/ At(p, "move")) =>
    /\ file # Absent => Continues(file, job[p].new)
    /\ \A claim \in job[p].claims : Holds(job[p].new, claim)
    /\ Done \in job[p].claims => credits = 0
    /\ job[p].early \subseteq {Restarted}
    /\ file = Absent => job[p].early = {}

(* A version that is in the file, but not yet in the journal.              *)
Telling(p) ==
  /\ At(p, "tell") => file # Absent /\ \A claim \in job[p].claims : Holds(file, claim)
  /\ At(p, "tell") /\ Done \in job[p].claims => credits = 0
  /\ At(p, "learn") => file # Absent /\ file.status = "completed" /\ credits = 0

Told == \A claim \in log : Holds(file, claim)
Credited == credits <= 1 /\ (credits = 1 => file.status = "completed")

Sequential ==
  /\ OneAtATime /\ Unwritten /\ Told /\ Credited
  /\ \A p \in Actor : Placed(p) /\ Writing(p) /\ Telling(p)

Quiet == races = 0 => Sequential

LEMMA AbsentIsNoVersion == \A v \in Version : v \notin Unreadable
BY DEF Version, Unreadable, Absent, Partial, Torn, LoopStatus

(* A claim that holds of a version holds of those that continue it.        *)
LEMMA StillHolds ==
  ASSUME NEW v \in Version, NEW w \in Version, Continues(v, w), NEW claim, Holds(v, claim)
  PROVE  Holds(w, claim)
BY DEF Continues, Holds

(* Only the event of a completion claims that the loop is completed.       *)
LEMMA DoneIsCompleted ==
  ASSUME NEW v \in Version, Holds(v, Done)
  PROVE  v.status = "completed"
<1>1. Done # Restarted BY DEF Done, Restarted
<1>2. \A s \in Step : Done # <<s, "verified">> BY DEF Done
<1>3. \A x \in Gate \X Decision : x # Done BY DEF Done, Decision
<1>4. v.resolved \subseteq Gate \X Decision BY DEF Version
<1>5. Done \notin v.resolved BY <1>3, <1>4
<1> QED BY <1>1, <1>2, <1>5, Zenon DEF Holds

(* An operation that changes neither steps nor decisions.                  *)
LEMMA SameAdvances ==
  ASSUME NEW v \in Version, NEW r, r.new.steps = v.steps, r.new.resolved = v.resolved,
         v.status = "completed" => r.new.status = "completed",
         r.claims = {}, r.early \subseteq {Restarted}
  PROVE  Advances(v, r)
BY DEF Advances, Continues

LEMMA CheckpointAdvances ==
  ASSUME NEW v \in Version, NEW r \in Checkpoint(v)
  PROVE  Advances(v, r)
<1>1. v.status # "completed" BY DEF Checkpoint
<1>2. r.new \in {v, [v EXCEPT !.status = "running"]} /\ r.claims = {} /\ r.early \subseteq {Restarted}
  BY DEF Checkpoint, Result
<1>3. r.new.steps = v.steps /\ r.new.resolved = v.resolved BY <1>2 DEF Version
<1> QED BY <1>1, <1>2, <1>3, SameAdvances

LEMMA CompleteAdvances ==
  ASSUME NEW v \in Version, NEW r \in Complete(v)
  PROVE  Advances(v, r)
<1>1. v.status = "running" BY DEF Complete
<1>2. PICK e \in BOOLEAN :
        r = Result([v EXCEPT !.status = "completed", !.proven = @ \/ e], {Done})
  BY DEF Complete
<1>3. /\ r.new.steps = v.steps /\ r.new.resolved = v.resolved /\ r.new.status = "completed"
      /\ r.claims = {Done} /\ r.early = {}
  BY <1>2 DEF Result, Version
<1>4. Holds(r.new, Done) BY <1>3 DEF Holds
<1> QED BY <1>1, <1>3, <1>4 DEF Advances, Continues

LEMMA FailAdvances ==
  ASSUME NEW v \in Version, NEW evidences, NEW r \in Fail(v, evidences)
  PROVE  Advances(v, r)
<1>1. PICK e \in evidences :
        r = Result([v EXCEPT !.status = "failed", !.proven = @ \/ e], {})
  BY DEF Fail
<1>2. v.status # "completed" BY DEF Fail
<1>3. /\ r.new.steps = v.steps /\ r.new.resolved = v.resolved
      /\ r.claims = {} /\ r.early = {}
  BY <1>1 DEF Result, Version
<1> QED BY <1>2, <1>3, SameAdvances

LEMMA BlockAdvances ==
  ASSUME NEW v \in Version, NEW r \in Block(v)
  PROVE  Advances(v, r)
<1>1. v.status # "completed" /\ r = Result([v EXCEPT !.status = "blocked"], {}) BY DEF Block
<1>2. /\ r.new.steps = v.steps /\ r.new.resolved = v.resolved
      /\ r.claims = {} /\ r.early = {}
  BY <1>1 DEF Result, Version
<1> QED BY <1>1, <1>2, SameAdvances

LEMMA FeedbackAdvances ==
  ASSUME NEW v \in Version, NEW passed, NEW r \in Feedback(v, passed)
  PROVE  Advances(v, r)
<1>1. r = Result([v EXCEPT !.proven = @ \/ passed], {}) BY DEF Feedback
<1>2. /\ r.new.steps = v.steps /\ r.new.resolved = v.resolved /\ r.new.status = v.status
      /\ r.claims = {} /\ r.early = {}
  BY <1>1 DEF Result, Version
<1> QED BY <1>2, SameAdvances

LEMMA OpenGateAdvances ==
  ASSUME NEW v \in Version, NEW g \in Gate, NEW r \in OpenGate(v, g)
  PROVE  Advances(v, r)
<1>1. r = Result([v EXCEPT !.gates = @ \cup {g}], {}) BY DEF OpenGate
<1>2. /\ r.new.steps = v.steps /\ r.new.resolved = v.resolved /\ r.new.status = v.status
      /\ r.claims = {} /\ r.early = {}
  BY <1>1 DEF Result, Version
<1> QED BY <1>2, SameAdvances

(* Decisions add up: an earlier one is kept.                               *)
LEMMA ResolveAdvances ==
  ASSUME NEW v \in Version, NEW r \in Resolve(v)
  PROVE  Advances(v, r)
<1>1. PICK x \in v.gates \X Decision :
        r = Result([v EXCEPT !.gates = @ \ {x[1]}, !.resolved = @ \cup {x}], {x})
  BY DEF Resolve
<1>2. /\ r.new.steps = v.steps /\ r.new.resolved = v.resolved \cup {x}
      /\ r.new.status = v.status /\ r.claims = {x} /\ r.early = {}
  BY <1>1 DEF Result, Version
<1>3. x # Done BY DEF Done, Decision
<1>4. Holds(r.new, x) BY <1>2 DEF Holds
<1>5. Continues(v, r.new) BY <1>2 DEF Continues
<1>6. r.early \subseteq {Restarted} BY <1>2
<1>7. Done \notin r.claims BY <1>2, <1>3
<1>8. \A claim \in r.claims : Holds(r.new, claim) BY <1>2, <1>4
<1> QED BY <1>5, <1>6, <1>7, <1>8 DEF Advances

(* The id of a new step was not issued, so no verified step has it.        *)
LEMMA AddStepAdvances ==
  ASSUME NEW v \in Version, Known(v) \subseteq issued, NEW r \in AddStep(v)
  PROVE  Advances(v, r)
<1>1. PICK new \in (Step \ issued) \X SUBSET Known(v) :
        r = Result([v EXCEPT !.steps[new[1]] = [status |-> "pending", deps |-> new[2]]], {})
  BY DEF AddStep
<1> DEFINE s == new[1]
<1>2. /\ s \in Step /\ s \notin Known(v) /\ v.status # "completed"
      /\ v.steps \in [Step -> StepRow]
  BY <1>1 DEF AddStep, Version
<1>3. v.steps[s].status = "absent" BY <1>2 DEF Known
<1>4. /\ r.new.resolved = v.resolved /\ r.claims = {} /\ r.early = {}
      /\ r.new.steps = [v.steps EXCEPT ![s] = [status |-> "pending", deps |-> new[2]]]
  BY <1>1 DEF Result, Version
<1>5. \A u \in Step : u # s => r.new.steps[u] = v.steps[u] BY <1>2, <1>4
<1> QED BY <1>2, <1>3, <1>4, <1>5 DEF Advances, Continues

(* A verified step never moves again.                                      *)
LEMMA MoveStepAdvances ==
  ASSUME NEW v \in Version, NEW r \in MoveStep(v)
  PROVE  Advances(v, r)
<1>1. PICK m \in Step \X StepStatus :
        /\ m[2] \in Moves[v.steps[m[1]].status]
        /\ r = Result(Moved(v, m[1], m[2]), IF m[2] = "verified" THEN {m} ELSE {})
  BY DEF MoveStep
<1> DEFINE s == m[1]
           to == m[2]
<1>2. s \in Step /\ v.steps \in [Step -> StepRow] BY DEF Version
<1>3. v.steps[s].status # "verified" BY <1>1 DEF Moves
<1>4. /\ r.new = Moved(v, s, to) /\ r.early = {}
      /\ r.claims \subseteq {m} /\ (r.claims # {} => to = "verified")
  BY <1>1 DEF Result
<1>8. /\ r.new.steps[s].status = to
      /\ \A u \in Step : u # s => r.new.steps[u] = v.steps[u]
      /\ r.new.resolved = v.resolved /\ r.new.status = StatusAfter(v, s, to)
  BY <1>2, <1>4 DEF Moved, Version, StepRow
<1>5. v.status = "completed" => StatusAfter(v, s, to) = "completed" BY DEF StatusAfter
<1>6. m = <<s, to>> OBVIOUS
<1>7. \A claim \in r.claims : claim # Done /\ Holds(r.new, claim)
  BY <1>2, <1>4, <1>6, <1>8 DEF Holds, Done
<1> QED BY <1>3, <1>4, <1>5, <1>7, <1>8 DEF Advances, Continues

LEMMA ResultsAdvance ==
  ASSUME NEW v \in Version, Known(v) \subseteq issued, NEW r \in Results(v)
  PROVE  Advances(v, r)
<1>1. CASE r \in UNION {OpenGate(v, g) : g \in Gate}
  <2>1. PICK g \in Gate : r \in OpenGate(v, g) BY <1>1
  <2> QED BY <2>1, OpenGateAdvances
<1> QED
  BY <1>1, CheckpointAdvances, CompleteAdvances, FailAdvances, BlockAdvances,
     FeedbackAdvances, AddStepAdvances, MoveStepAdvances, ResolveAdvances DEF Results

(* The verdict of a contract's run is one of the operations.               *)
LEMMA VerdictAdvances ==
  ASSUME NEW v \in Version, NEW r \in Verdict(v)
  PROVE  Advances(v, r)
BY FailAdvances, BlockAdvances, CompleteAdvances DEF Verdict

LEMMA InitQuiet == Init => Quiet
<1> SUFFICES ASSUME Init PROVE Sequential BY DEF Quiet
<1>1. \A p \in Actor : At(p, "idle") BY DEF Init, At, Idle
<1>2. OneAtATime BY <1>1 DEF OneAtATime
<1>3. Unwritten /\ Told /\ Credited BY <1>1 DEF Init, Unwritten, Told, Credited
<1>4. \A p \in Actor : Placed(p) /\ Writing(p) /\ Telling(p)
  BY <1>1 DEF Placed, Writing, Telling, At
<1> QED BY <1>2, <1>3, <1>4 DEF Sequential

(* Who is idle owes nothing.                                               *)
LEMMA IdleOwesNothing ==
  ASSUME NEW q \in Actor, job'[q].at = "idle"
  PROVE  (Placed(q) /\ Writing(q) /\ Telling(q))'
BY DEF Placed, Writing, Telling, At

(* The others of a busy process are idle, and stay it.                     *)
LEMMA TheRestIsIdle ==
  ASSUME OneAtATime, NEW p \in Actor, ~At(p, "idle"),
         \A q \in Actor : q # p => job'[q].at = job[q].at
  PROVE  OneAtATime' /\ \A q \in Actor : q # p => job'[q].at = "idle"
BY DEF OneAtATime, At

(* An operation that begins while no other one is under way.               *)
LEMMA StartKeepsQuiet ==
  ASSUME IInv, Quiet, NEW p \in Actor, NEW r, Fits(r), Start(p, r), races' = 0,
         IF file = Absent THEN r.early = {} /\ r.claims = {} ELSE Advances(file, r)
  PROVE  Sequential'
<1>1. job \in [Actor -> JobType] /\ races \in Nat /\ ops \in Nat
  BY LedgerAssumption DEF IInv, TypeOK
<1>2. Busy = {} /\ ops' = ops + 1 /\ races = 0 BY <1>1 DEF Start
<1>3. Sequential BY <1>2 DEF Quiet
<1>4. \A q \in Actor : At(q, "idle") BY <1>2 DEF Busy
<1>5. UNCHANGED <<file, tmp, log, credits>> BY DEF Start, disk
<1>6. job' = [job EXCEPT ![p] =
        [at |-> IF r.early = {} THEN "open" ELSE "early", new |-> r.new,
         early |-> r.early, claims |-> r.claims, fd |-> "none"]]
  BY DEF Start
<1>7. /\ job'[p].at \in {"open", "early"} /\ job'[p].new = r.new
      /\ job'[p].early = r.early /\ job'[p].claims = r.claims
  BY <1>1, <1>6
<1>8. \A q \in Actor : q # p => job'[q].at = "idle" BY <1>1, <1>4, <1>6 DEF At
<1>9. OneAtATime' BY <1>8 DEF OneAtATime, At
<1>10. (Unwritten /\ Told /\ Credited)'
  BY <1>1, <1>2, <1>3, <1>5 DEF Sequential, Unwritten, Told, Holds, Credited
<1>11. (Placed(p) /\ Telling(p))' BY <1>7 DEF Placed, Telling, At
<1>12. Writing(p)'
  <2>1. credits \in Nat BY DEF IInv, TypeOK
  <2>2. CASE file = Absent
    <3>1. credits = 0 BY <1>3, <2>2 DEF Sequential, Unwritten
    <3> QED BY <1>5, <1>7, <2>2, <3>1 DEF Writing
  <2>3. CASE file # Absent
    <3>1. Advances(file, r) BY <2>3
    <3>2. Done \in r.claims => credits = 0
      BY <1>3, <2>1, <3>1 DEF Sequential, Credited, Advances
    <3>3. /\ Continues(file, r.new)' /\ r.early \subseteq {Restarted}
          /\ \A claim \in r.claims : Holds(r.new, claim)
      BY <1>5, <3>1 DEF Advances, Continues
    <3> QED BY <1>5, <1>7, <2>3, <3>2, <3>3 DEF Writing, Continues, Holds
  <2> QED BY <2>2, <2>3
<1>13. \A q \in Actor : (Placed(q) /\ Writing(q) /\ Telling(q))'
  BY <1>8, <1>11, <1>12, IdleOwesNothing
<1> QED BY <1>9, <1>10, <1>13 DEF Sequential

(* An operation that reads what there is.                                  *)
LEMMA ReadKeepsQuiet ==
  ASSUME IInv, Quiet, NEW p \in Actor, NEW r, Fits(r), Start(p, r), races' = 0,
         file \notin Unreadable, Advances(file, r)
  PROVE  Sequential'
<1>1. file # Absent BY DEF Unreadable
<1> QED BY <1>1, StartKeepsQuiet

(* The ledger is made before anything else, for no operation can read it.  *)
LEMMA CreationKeepsQuiet ==
  ASSUME IInv, Quiet, NEW p \in Actor, ops = 0, races' = 0,
         NEW status \in {"created", "running"}, Start(p, Result(Created(status), {}))
  PROVE  Sequential'
<1> DEFINE r == Result(Created(status), {})
<1>1. Fits(r) /\ r.early = {} /\ r.claims = {} BY CreatedFits DEF Fits, Result
<1>2. races \in Nat BY LedgerAssumption DEF IInv, TypeOK
<1>3. races = 0 BY <1>2 DEF Start
<1>4. file = Absent BY <1>3 DEF Quiet, Sequential, Unwritten
<1> HIDE DEF r
<1>5. Start(p, r) BY DEF r
<1> QED BY <1>1, <1>4, <1>5, StartKeepsQuiet

LEMMA StartsKeepQuiet ==
  ASSUME IInv, Quiet, NEW p \in Actor, races' = 0,
         Create(p) \/ Operate(p) \/ RunContract(p) \/ Verify(p) \/ OpenNeeded(p) \/ Decide(p)
  PROVE  Sequential'
<1>1. CASE Create(p) BY <1>1, CreationKeepsQuiet DEF Create
<1>2. CASE Operate(p)
  <2>1. PICK r \in Results(file) : Start(p, r) BY <1>2 DEF Operate
  <2>2. file \notin Unreadable BY <1>2 DEF Operate
  <2> QED BY <2>1, <2>2, ReadIsSound, ResultsFit, ResultsAdvance, ReadKeepsQuiet
<1>3. CASE RunContract(p) BY <1>3, CreationKeepsQuiet DEF RunContract
<1>4. CASE Verify(p)
  <2>1. PICK passed \in BOOLEAN : \E r \in Feedback(file, passed) : Start(p, r)
    BY <1>4 DEF Verify
  <2>2. PICK r \in Feedback(file, passed) : Start(p, r) BY <2>1
  <2>3. file \notin Unreadable BY <1>4 DEF Verify
  <2> QED BY <2>2, <2>3, ReadIsSound, FeedbackFits, FeedbackAdvances, ReadKeepsQuiet
<1>5. CASE OpenNeeded(p)
  <2>1. PICK g \in contract.due : \E r \in OpenGate(file, g) : Start(p, r)
    BY <1>5 DEF OpenNeeded
  <2>2. PICK r \in OpenGate(file, g) : Start(p, r) BY <2>1
  <2>3. file \notin Unreadable BY <1>5 DEF OpenNeeded
  <2>4. g \in Gate BY DEF IInv, TypeOK, RunType
  <2> QED BY <2>2, <2>3, <2>4, ReadIsSound, OpenGateFits, OpenGateAdvances, ReadKeepsQuiet
<1>6. CASE Decide(p)
  <2>1. PICK r \in Verdict(file) : Start(p, r) BY <1>6 DEF Decide
  <2>2. file \notin Unreadable BY <1>6 DEF Decide
  <2> QED BY <2>1, <2>2, ReadIsSound, VerdictFits, VerdictAdvances, ReadKeepsQuiet
<1> QED BY <1>1, <1>2, <1>3, <1>4, <1>5, <1>6

LEMMA AnnounceKeepsQuiet ==
  ASSUME IInv, Sequential, NEW p \in Actor, Announce(p)
  PROVE  Sequential'
<1>1. /\ job \in [Actor -> JobType] /\ At(p, "early") /\ UNCHANGED <<file, tmp, credits, ops>>
      /\ job' = [job EXCEPT ![p].at = "open"] /\ log' = log \cup job[p].early
  BY DEF Announce, disk, IInv, TypeOK
<1>2. /\ \A q \in Actor : q # p => job'[q] = job[q]
      /\ job'[p] = [job[p] EXCEPT !.at = "open"] /\ job[p] \in JobType /\ ~At(p, "idle")
  BY <1>1 DEF At
<1>3. OneAtATime' /\ \A q \in Actor : q # p => job'[q].at = "idle"
  BY <1>2, TheRestIsIdle DEF Sequential
<1>4. Writing(p) BY DEF Sequential
<1>5. (Placed(p) /\ Writing(p) /\ Telling(p))'
  BY <1>1, <1>2, <1>4 DEF Placed, Writing, Telling, At, JobType, Continues, Holds
<1>6. (Unwritten /\ Told /\ Credited)'
  BY <1>1, <1>2, <1>4 DEF Sequential, Unwritten, Told, Holds, Credited, Writing, At
<1> QED BY <1>3, <1>5, <1>6, IdleOwesNothing DEF Sequential

LEMMA OpenKeepsQuiet ==
  ASSUME IInv, Sequential, NEW p \in Actor, Open(p)
  PROVE  Sequential'
<1>1. /\ job \in [Actor -> JobType] /\ At(p, "open") /\ UNCHANGED <<file, log, credits, ops>>
      /\ job' = [job EXCEPT ![p].at = "fill", ![p].fd = "tmp"] /\ tmp' = Partial
  BY DEF Open, IInv, TypeOK
<1>2. /\ \A q \in Actor : q # p => job'[q] = job[q]
      /\ job'[p] = [job[p] EXCEPT !.at = "fill", !.fd = "tmp"] /\ job[p] \in JobType /\ ~At(p, "idle")
  BY <1>1 DEF At
<1>3. OneAtATime' /\ \A q \in Actor : q # p => job'[q].at = "idle"
  BY <1>2, TheRestIsIdle DEF Sequential
<1>4. Writing(p) BY DEF Sequential
<1>5. (Placed(p) /\ Writing(p) /\ Telling(p))'
  BY <1>1, <1>2, <1>4 DEF Placed, Writing, Telling, At, JobType, Continues, Holds
<1>6. (Unwritten /\ Told /\ Credited)'
  BY <1>1, <1>2 DEF Sequential, Unwritten, Told, Holds, Credited, At
<1> QED BY <1>3, <1>5, <1>6, IdleOwesNothing DEF Sequential

(* Alone, a writer finds its temporary file as it left it.                 *)
LEMMA FillKeepsQuiet ==
  ASSUME IInv, Sequential, NEW p \in Actor, Fill(p)
  PROVE  Sequential'
<1>1. /\ job \in [Actor -> JobType] /\ At(p, "fill") /\ UNCHANGED <<log, credits, ops>>
      /\ job' = [job EXCEPT ![p].at = "move", ![p].fd = "none"]
  BY DEF Fill, IInv, TypeOK
<1>2. job[p].fd = "tmp" /\ tmp = Partial BY <1>1 DEF Sequential, Placed
<1>3. tmp' = job[p].new /\ file' = file BY <1>2 DEF Fill, Written
<1>4. /\ \A q \in Actor : q # p => job'[q] = job[q]
      /\ job'[p] = [job[p] EXCEPT !.at = "move", !.fd = "none"] /\ job[p] \in JobType /\ ~At(p, "idle")
  BY <1>1 DEF At
<1>5. OneAtATime' /\ \A q \in Actor : q # p => job'[q].at = "idle"
  BY <1>4, TheRestIsIdle DEF Sequential
<1>6. Writing(p) BY DEF Sequential
<1>7. (Placed(p) /\ Writing(p) /\ Telling(p))'
  BY <1>1, <1>3, <1>4, <1>6 DEF Placed, Writing, Telling, At, JobType, Continues, Holds
<1>8. (Unwritten /\ Told /\ Credited)'
  BY <1>1, <1>3, <1>4 DEF Sequential, Unwritten, Told, Holds, Credited, At
<1> QED BY <1>5, <1>7, <1>8, IdleOwesNothing DEF Sequential

(* The new version takes the place of one that it continues.               *)
LEMMA MoveKeepsQuiet ==
  ASSUME IInv, Sequential, NEW p \in Actor, Move(p)
  PROVE  Sequential'
<1>1. /\ job \in [Actor -> JobType] /\ At(p, "move") /\ UNCHANGED <<log, credits, ops>>
      /\ file' = tmp
  BY DEF Move, IInv, TypeOK
<1>2. job[p] \in JobType /\ job[p].new \in Version /\ ~At(p, "idle") BY <1>1 DEF JobType, At
<1>3. file' = job[p].new /\ file' \in Version BY <1>1, <1>2 DEF Sequential, Placed
<1>4. file' # Absent BY <1>3, AbsentIsNoVersion DEF Unreadable
<1>5. Writing(p) /\ (file = Absent \/ file \in Version) BY DEF Sequential, Unwritten
<1>6. /\ file # Absent => Continues(file, file')
      /\ \A claim \in job[p].claims : Holds(file', claim)
      /\ Done \in job[p].claims => credits = 0
  BY <1>1, <1>3, <1>5 DEF Writing
<1>7. job'[p] = IF job[p].claims = {} THEN Idle ELSE [job[p] EXCEPT !.at = "tell"]
  BY DEF Move
<1>8. \A q \in Actor : q # p => job'[q].at = job[q].at
  <2>1. SUFFICES ASSUME NEW q \in Actor, q # p PROVE job'[q].at = job[q].at OBVIOUS
  <2>2. job'[q] = [job[q] EXCEPT !.fd = Renamed(@)] BY <2>1 DEF Move
  <2>3. job[q] \in JobType BY <1>1
  <2> QED BY <2>2, <2>3 DEF JobType
<1>9. OneAtATime' /\ \A q \in Actor : q # p => job'[q].at = "idle"
  BY <1>2, <1>8, TheRestIsIdle DEF Sequential
<1>10. (Placed(p) /\ Writing(p) /\ Telling(p))'
  <2>1. CASE job[p].claims = {} BY <1>7, <2>1, IdleOwesNothing DEF Idle
  <2>2. CASE job[p].claims # {}
    <3>1. job'[p].at = "tell" /\ job'[p].claims = job[p].claims
      BY <1>2, <1>7, <2>2 DEF JobType
    <3> QED BY <1>1, <1>4, <1>6, <3>1 DEF Placed, Writing, Telling, At, Holds
  <2> QED BY <2>1, <2>2
<1>11. Unwritten'
  BY <1>1, <1>2, <1>3, <1>4 DEF Sequential, Unwritten
<1>12. Told'
  <2>1. ASSUME NEW claim \in log PROVE Holds(file', claim)
    <3>1. file # Absent /\ Holds(file, claim) BY <2>1 DEF Sequential, Unwritten, Told
    <3> QED BY <1>3, <1>5, <1>6, <3>1, StillHolds
  <2> QED BY <1>1, <2>1 DEF Told, Holds
<1>13. Credited'
  <2>1. credits <= 1 /\ (credits = 1 => file # Absent /\ file.status = "completed")
    BY DEF Sequential, Unwritten, Credited
  <2> QED BY <1>1, <1>6, <2>1 DEF Credited, Continues
<1> QED BY <1>9, <1>10, <1>11, <1>12, <1>13, IdleOwesNothing DEF Sequential

LEMMA TellKeepsQuiet ==
  ASSUME IInv, Sequential, NEW p \in Actor, Tell(p)
  PROVE  Sequential'
<1>1. /\ job \in [Actor -> JobType] /\ At(p, "tell") /\ UNCHANGED <<file, tmp, credits, ops>>
      /\ log' = log \cup job[p].claims
  BY DEF Tell, disk, IInv, TypeOK
<1>2. job[p] \in JobType /\ ~At(p, "idle") BY <1>1 DEF At
<1>3. /\ \A q \in Actor : q # p => job'[q] = job[q]
      /\ job'[p] = IF Done \in job[p].claims THEN [job[p] EXCEPT !.at = "learn"] ELSE Idle
  BY <1>1 DEF Tell
<1>4. OneAtATime' /\ \A q \in Actor : q # p => job'[q].at = "idle"
  BY <1>2, <1>3, TheRestIsIdle DEF Sequential
<1>5. /\ file # Absent /\ file \in Version
      /\ \A claim \in job[p].claims : Holds(file, claim)
      /\ Done \in job[p].claims => credits = 0
  BY <1>1 DEF Sequential, Telling, Unwritten
<1>6. (Placed(p) /\ Writing(p) /\ Telling(p))'
  <2>1. CASE Done \notin job[p].claims BY <1>3, <2>1, IdleOwesNothing DEF Idle
  <2>2. CASE Done \in job[p].claims
    <3>1. job'[p].at = "learn" BY <1>2, <1>3, <2>2 DEF JobType
    <3>2. file.status = "completed" BY <1>5, <2>2, DoneIsCompleted
    <3> QED BY <1>1, <1>5, <2>2, <3>1, <3>2 DEF Placed, Writing, Telling, At
  <2> QED BY <2>1, <2>2
<1>7. (Unwritten /\ Told /\ Credited)'
  BY <1>1, <1>2, <1>5 DEF Sequential, Unwritten, Told, Holds, Credited
<1> QED BY <1>4, <1>6, <1>7, IdleOwesNothing DEF Sequential

LEMMA LearnKeepsQuiet ==
  ASSUME IInv, Sequential, NEW p \in Actor, Learn(p)
  PROVE  Sequential'
<1>1. /\ job \in [Actor -> JobType] /\ At(p, "learn") /\ UNCHANGED <<file, tmp, log, ops>>
      /\ job' = [job EXCEPT ![p] = Idle] /\ credits' = credits + 1
  BY DEF Learn, disk, IInv, TypeOK
<1>2. ~At(p, "idle") /\ job'[p].at = "idle" /\ \A q \in Actor : q # p => job'[q] = job[q]
  BY <1>1 DEF At, Idle
<1>3. OneAtATime' /\ \A q \in Actor : q # p => job'[q].at = "idle"
  BY <1>2, TheRestIsIdle DEF Sequential
<1>4. file # Absent /\ file.status = "completed" /\ credits = 0
  BY <1>1 DEF Sequential, Telling
<1>5. (Unwritten /\ Told /\ Credited)'
  BY <1>1, <1>2, <1>4 DEF Sequential, Unwritten, Told, Holds, Credited
<1> QED BY <1>2, <1>3, <1>5, IdleOwesNothing DEF Sequential

(* A process that dies leaves at most a temporary file.                    *)
LEMMA CrashKeepsQuiet ==
  ASSUME IInv, Sequential, NEW p \in Actor, Crash(p) \/ Raise(p)
  PROVE  Sequential'
<1>1. /\ job \in [Actor -> JobType] /\ UNCHANGED <<file, tmp, log, credits, ops>>
      /\ job' = [job EXCEPT ![p] = Idle]
  BY DEF Crash, Raise, disk, IInv, TypeOK
<1>2. job'[p].at = "idle" /\ \A q \in Actor : q # p => job'[q] = job[q]
  BY <1>1 DEF Idle
<1>3. OneAtATime' BY <1>2 DEF Sequential, OneAtATime, At
<1>4. (Unwritten /\ Told /\ Credited)'
  BY <1>1, <1>2 DEF Sequential, Unwritten, Told, Holds, Credited, At
<1>5. ASSUME NEW q \in Actor PROVE (Placed(q) /\ Writing(q) /\ Telling(q))'
  <2>1. CASE q = p BY <1>2, <2>1, IdleOwesNothing
  <2>2. CASE q # p
    <3>1. Placed(q) /\ Writing(q) /\ Telling(q) /\ job'[q] = job[q]
      BY <1>2, <2>2 DEF Sequential
    <3> QED BY <1>1, <3>1 DEF Placed, Writing, Telling, At, Continues, Holds
  <2> QED BY <2>1, <2>2
<1> QED BY <1>3, <1>4, <1>5 DEF Sequential

LEMMA SameStateKeepsQuiet ==
  ASSUME Sequential, UNCHANGED <<disk, job, log, credits, ops>>
  PROVE  Sequential'
BY DEF Sequential, OneAtATime, Unwritten, Told, Credited, Placed, Writing, Telling, At,
       Continues, Holds, disk

LEMMA StepQuiet ==
  ASSUME IInv, Quiet, [Next]_vars
  PROVE  Quiet'
<1>1. SUFFICES ASSUME races' = 0 PROVE Sequential' BY DEF Quiet
<1>2. ASSUME NEW p \in Actor,
             Create(p) \/ Operate(p) \/ RunContract(p) \/ Verify(p) \/ OpenNeeded(p) \/ Decide(p)
      PROVE  Sequential'
  BY <1>1, <1>2, StartsKeepQuiet
<1>3. ASSUME NEW p \in Actor, GoOn(p) \/ Abandon(p) \/ Crash(p)
      PROVE  Sequential'
  <2>1. races = 0
    BY <1>1, <1>3 DEF GoOn, Announce, Open, Fill, Move, Raise, Tell, Learn, Abandon, Crash
  <2>2. Sequential BY <2>1 DEF Quiet
  <2>3. CASE Abandon(p) BY <2>2, <2>3, SameStateKeepsQuiet DEF Abandon
  <2> QED
    BY <1>3, <2>2, <2>3, AnnounceKeepsQuiet, OpenKeepsQuiet, FillKeepsQuiet, MoveKeepsQuiet,
       TellKeepsQuiet, LearnKeepsQuiet, CrashKeepsQuiet DEF GoOn
<1>4. CASE UNCHANGED vars
  BY <1>1, <1>4, SameStateKeepsQuiet DEF vars, Quiet
<1> QED BY <1>2, <1>3, <1>4 DEF Next, Run

LEMMA QuietInvariance == Spec => []Quiet
<1>1. IInv /\ Quiet /\ [Next]_vars => Quiet' BY StepQuiet
<1> QED BY <1>1, Invariance, InitQuiet, PTL DEF Spec

-----------------------------------------------------------------------------
(* The results.                                                            *)

(* The files hold versions or what cannot be parsed, and the journal holds *)
(* claims, whatever the operations of the store do.                        *)
THEOREM TypeCorrect == Spec => []TypeOK
<1>1. IInv => TypeOK BY DEF IInv
<1> QED BY <1>1, Invariance, PTL

(* Every readable ledger is coherent, with any number of agents racing:    *)
(* steps begin on verified dependencies, blockers stand for blocked steps, *)
(* and a completed loop has evidence and nothing unfinished.               *)
THEOREM LedgersFit == Spec => []VersionsFit
<1>1. IInv => VersionsFit BY DEF IInv, AllSound, Sound, VersionsFit
<1> QED BY <1>1, Invariance, PTL

(* Without a race the ledger can always be read, wherever a process dies:  *)
(* the text lands in the temporary file first, and the rename that gives   *)
(* it the ledger's name comes after the whole text.                        *)
THEOREM LedgerStaysReadable == Spec => []StaysReadable
<1>1. Quiet => StaysReadable BY DEF Quiet, Sequential, Unwritten, StaysReadable
<1> QED BY <1>1, QuietInvariance, PTL

(* Without a race the journal never claims what the ledger does not say,   *)
(* for any number of processes, steps and gates and however many die, and  *)
(* the memories of a completed loop are credited at most once.             *)
THEOREM JournalTellsTheTruth == Spec => []JournalIsTrue
<1>1. Quiet /\ IInv => JournalIsTrue
  <2>1. SUFFICES ASSUME Quiet, IInv, races = 0 PROVE JournalIsTrue BY DEF JournalIsTrue
  <2>2. file # Absent => file \notin Unreadable
    BY <2>1, AbsentIsNoVersion DEF Quiet, Sequential, Unwritten
  <2>3. log # {} \/ credits = 1 => file # Absent
    BY <2>1 DEF Quiet, Sequential, Unwritten
  <2> QED
    BY <2>1, <2>2, <2>3 DEF Quiet, Sequential, Told, Credited, JournalIsTrue
<1> QED BY <1>1, Invariance, QuietInvariance, PTL

(* The orchestrator never completes the loop of a contract whose verifiers *)
(* failed or whose actions need a gate, whatever other agents do to the    *)
(* loop meanwhile.                                                         *)
THEOREM NeverCompletesPastGates == Spec => CompletesWhenClear
<1> DEFINE Clear(p) ==
      ( /\ Runs(p) /\ At(p, "idle") /\ job'[p].at = "open"
        /\ job'[p].new.status = "completed" /\ file.status # "completed" )
        => ~contract.bad /\ contract.need = {}
<1>1. ASSUME IInv, [Next]_vars, NEW p \in Actor,
             Runs(p), At(p, "idle"), job'[p].at = "open",
             job'[p].new.status = "completed", file.status # "completed"
      PROVE  ~contract.bad /\ contract.need = {}
  <2>1. job \in [Actor -> JobType] BY <1>1 DEF IInv, TypeOK
  <2>2. job'[p] # job[p] /\ job[p].at = "idle" BY <1>1 DEF At
  <2>3. PICK q \in Actor :
          Create(q) \/ Operate(q) \/ RunContract(q) \/ GoOn(q) \/ Run(q) \/ Crash(q)
    BY <1>1, <2>2 DEF Next, vars
  <2>4. ~GoOn(q) /\ ~Crash(q) /\ ~Abandon(q)
    <3>1. ASSUME Move(q) PROVE FALSE
      <4>1. p # q BY <2>2, <3>1 DEF Move, At
      <4>2. job'[p] = [job[p] EXCEPT !.fd = Renamed(@)] BY <3>1, <4>1 DEF Move
      <4>3. job'[p].at = "idle" BY <2>1, <2>2, <4>2 DEF JobType
      <4> QED BY <1>1, <4>3
    <3>2. ASSUME Announce(q) \/ Open(q) \/ Fill(q) PROVE FALSE
      <4>1. p # q BY <2>2, <3>2 DEF Announce, Open, Fill, At
      <4> QED BY <2>1, <2>2, <3>2, <4>1 DEF Announce, Open, Fill
    <3>3. ASSUME Raise(q) \/ Tell(q) \/ Learn(q) PROVE FALSE
      <4>1. p # q BY <2>2, <3>3 DEF Raise, Tell, Learn, At
      <4> QED BY <2>1, <2>2, <3>3, <4>1 DEF Raise, Tell, Learn
    <3>4. ~Crash(q) BY <1>1, <2>1, <2>2 DEF Crash, Idle
    <3>5. ~Abandon(q) BY <2>2 DEF Abandon
    <3> QED BY <3>1, <3>2, <3>3, <3>4, <3>5 DEF GoOn
  <2>5. ASSUME NEW r, Start(q, r) PROVE q = p /\ r.new.status = "completed"
    <3>1. q = p BY <2>1, <2>2, <2>5 DEF Start
    <3>2. job'[p].new = r.new BY <2>1, <2>5, <3>1 DEF Start
    <3> QED BY <1>1, <3>1, <3>2
  <2>6. CASE Create(q)
    <3>1. PICK status \in {"created", "running"} : Start(q, Result(Created(status), {}))
      BY <2>6 DEF Create
    <3> QED BY <2>5, <3>1 DEF Result, Created
  <2>7. CASE Operate(q)
    BY <1>1, <2>5, <2>7 DEF Operate
  <2>8. CASE RunContract(q)
    <3>1. Start(q, Result(Created("running"), {})) BY <2>8 DEF RunContract
    <3> QED BY <2>5, <3>1 DEF Result, Created
  <2>9. CASE Verify(q)
    <3>1. PICK passed \in BOOLEAN : \E r \in Feedback(file, passed) : Start(q, r)
      BY <2>9 DEF Verify
    <3>2. PICK r \in Feedback(file, passed) : Start(q, r) BY <3>1
    <3>3. r.new.status = file.status BY <1>1, <2>9, <3>2, ReadIsSound, FeedbackFits DEF Verify
    <3> QED BY <1>1, <2>5, <3>2, <3>3
  <2>10. CASE OpenNeeded(q)
    <3>1. PICK g \in contract.due : \E r \in OpenGate(file, g) : Start(q, r)
      BY <2>10 DEF OpenNeeded
    <3>2. PICK r \in OpenGate(file, g) : Start(q, r) BY <3>1
    <3>3. g \in Gate BY <1>1 DEF IInv, TypeOK, RunType
    <3>4. r.new.status = file.status
      BY <1>1, <2>10, <3>2, <3>3, ReadIsSound, OpenGateFits DEF OpenNeeded
    <3> QED BY <1>1, <2>5, <3>2, <3>4
  <2>11. CASE Decide(q)
    <3>1. PICK r \in Verdict(file) : Start(q, r) BY <2>11 DEF Decide
    <3>2. r.new.status = "completed" BY <2>5, <3>1
    <3>3. ~contract.bad /\ contract.due = {} /\ contract.open = {}
      BY <1>1, <2>11, <3>1, <3>2, VerdictFits DEF Decide
    <3> QED BY <1>1, <3>3 DEF IInv, GatesSeen
  <2> QED BY <2>3, <2>4, <2>6, <2>7, <2>8, <2>9, <2>10, <2>11 DEF Run
<1>2. IInv /\ [Next]_vars => [\A p \in Actor : Clear(p)]_vars BY <1>1
<1> QED BY <1>2, Invariance, PTL DEF CompletesWhenClear, Spec

=============================================================================
