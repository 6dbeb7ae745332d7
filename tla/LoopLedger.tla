----------------------------- MODULE LoopLedger -----------------------------
(***************************************************************************)
(* The ledger of one loop (agent_brain/memory/loops): a JSON file that     *)
(* agents and people change through the same store, without a lock.  An    *)
(* operation reads the file, checks and computes a new version in memory,  *)
(* writes it through a temporary file whose name all writers share, and    *)
(* then appends an event to the journal.  The steps of two operations may  *)
(* interleave and a process may die between any two of them.               *)
(*                                                                         *)
(* The orchestrator is one more client of the store: it creates the loop   *)
(* of a contract, runs the verifiers and then fails, blocks or completes   *)
(* it.                                                                     *)
(***************************************************************************)
EXTENDS Integers, FiniteSets

CONSTANTS
  Actor,       \* the processes that use the store
  Step,        \* the ids that make_step_id can return
  Gate,        \* the human gates of the contract
  Verifiers,   \* the verification commands of the contract
  MaxOps,      \* operations in all, but for those of a contract's run
  MaxRaces,    \* how many of them begin while another one is under way,
  RaceCost,    \* and for how many such a one counts
  MaxCrashes,
  None

ASSUME LedgerAssumption ==
  /\ Verifiers \in Nat /\ MaxOps \in Nat /\ MaxRaces \in Nat /\ RaceCost \in Nat /\ MaxCrashes \in Nat
  /\ None \notin Actor

VARIABLES
  file,        \* <loop id>.json: a version, absent, or what cannot be parsed
  tmp,         \* <loop id>.json.tmp
  job,         \* the operation of each process
  log,         \* what the events of the journal claim
  credits,     \* successful outcomes recorded for learning
  issued,      \* the step ids that were made
  contract,    \* the progress of the orchestrator's run
  ops, races, crashes

disk == <<file, tmp>>
vars == <<disk, job, log, credits, issued, contract, ops, races, crashes>>

LoopStatus == {"created", "running", "blocked", "failed", "completed"}
StepStatus == {"pending", "running", "blocked", "completed", "verified", "cancelled"}

(* STEP_TRANSITIONS *)
Moves == [absent    |-> {},
          pending   |-> {"running", "blocked", "cancelled"},
          running   |-> {"blocked", "completed", "cancelled"},
          blocked   |-> {"running", "cancelled"},
          completed |-> {"verified", "running"},
          verified  |-> {}, cancelled |-> {}]

Decision == {"approved", "rejected"}
Restarted == <<None, "restarted">>
Done == <<None, "completed">>
Claim == {Restarted, Done} \cup (Step \X {"verified"}) \cup (Gate \X Decision)

StepRow == [status : StepStatus \cup {"absent"}, deps : SUBSET Step]
Version == [status : LoopStatus, steps : [Step -> StepRow], blockers : SUBSET Step,
            gates : SUBSET Gate, resolved : SUBSET (Gate \X Decision), proven : BOOLEAN]

NoStep == [status |-> "absent", deps |-> {}]
Created(status) ==
  [status |-> status, steps |-> [s \in Step |-> NoStep], blockers |-> {},
   gates |-> {}, resolved |-> {}, proven |-> FALSE]

Absent  == [status |-> "none"]
Partial == [status |-> "partial"]
Torn    == [status |-> "torn"]
Unreadable == {Absent, Partial, Torn}
Known(v) == {s \in Step : v.steps[s].status # "absent"}

Idle == [at |-> "idle", new |-> Created("created"), early |-> {}, claims |-> {}, fd |-> "none"]
NoRun == [at |-> "none", by |-> None, left |-> 0, bad |-> FALSE, need |-> {}, due |-> {}, open |-> {}]

Init ==
  /\ file = Absent /\ tmp = Absent
  /\ job = [p \in Actor |-> Idle]
  /\ log = {} /\ credits = 0 /\ issued = {}
  /\ contract = NoRun
  /\ ops = 0 /\ races = 0 /\ crashes = 0

-----------------------------------------------------------------------------
(* What an operation makes of the version it read: the new version, an     *)
(* event it appends before writing, and what its event claims afterwards.  *)
(* An empty set means that the operation is refused.                       *)

Result(new, claims) == [new |-> new, early |-> {}, claims |-> claims]

Checkpoint(v) ==
  IF v.status = "completed" THEN {}
  ELSE IF v.status \in {"created", "failed"}
  THEN {[new |-> [v EXCEPT !.status = "running"], early |-> {Restarted}, claims |-> {}]}
  ELSE {Result(v, {})}

(* A row with evidence, whatever it says, or a passed verification counts. *)
Complete(v) ==
  IF v.status = "running" /\ \A s \in Known(v) : v.steps[s].status \in {"verified", "cancelled"}
  THEN {Result([v EXCEPT !.status = "completed", !.proven = @ \/ evidence], {Done}) :
          evidence \in {e \in BOOLEAN : e \/ v.proven}}
  ELSE {}

Fail(v, evidences) ==
  IF v.status \in {"created", "running", "blocked"}
  THEN {Result([v EXCEPT !.status = "failed", !.proven = @ \/ evidence], {}) :
          evidence \in evidences}
  ELSE {}

Block(v) ==
  IF v.status \in {"created", "running"} THEN {Result([v EXCEPT !.status = "blocked"], {})} ELSE {}

Feedback(v, passed) == {Result([v EXCEPT !.proven = @ \/ passed], {})}

AddStep(v) ==
  IF v.status = "completed" THEN {}
  ELSE {Result([v EXCEPT !.steps[new[1]] = [status |-> "pending", deps |-> new[2]]], {}) :
          new \in (Step \ issued) \X SUBSET Known(v)}

Ready(v, s) == \A d \in v.steps[s].deps : v.steps[d].status = "verified"

BlockersKept(v, s, to) ==   \* mutant: only a resumed step resolves its blocker
  IF to = "blocked" THEN v.blockers \cup {s}
  ELSE IF to = "running" THEN v.blockers \ {s} ELSE v.blockers
(* The open blockers after a step's transition, and the loop's status.     *)
BlockersAfter(v, s, to) ==
  IF to = "blocked" THEN v.blockers \cup {s}
  ELSE IF v.steps[s].status = "blocked" THEN v.blockers \ {s} ELSE v.blockers

StatusAfter(v, s, to) ==
  IF to = "blocked" /\ v.status \in {"created", "running"} THEN "blocked"
  ELSE IF /\ to = "running" /\ v.status \in {"created", "blocked"}
          /\ BlockersAfter(v, s, to) \ {s} = {} THEN "running"
  ELSE v.status
Moved(v, s, to) ==
  [v EXCEPT !.status = StatusAfter(v, s, to), !.steps[s].status = to,
            !.blockers = BlockersAfter(v, s, to)]

MoveStep(v) ==
  {Result(Moved(v, m[1], m[2]), IF m[2] = "verified" THEN {m} ELSE {}) :
     m \in {x \in Step \X StepStatus :
              /\ x[2] \in Moves[v.steps[x[1]].status]
              /\ x[2] = "running" => Ready(v, x[1])}}

OpenGate(v, g) ==
  IF g \in v.gates THEN {} ELSE {Result([v EXCEPT !.gates = @ \cup {g}], {})}

ResolveAnew(v) ==   \* mutant: the decision replaces the earlier ones
  {Result([v EXCEPT !.gates = @ \ {r[1]}, !.resolved = {r}], {r}) :
     r \in v.gates \X Decision}

Resolve(v) ==
  {Result([v EXCEPT !.gates = @ \ {r[1]}, !.resolved = @ \cup {r}], {r}) :
     r \in v.gates \X Decision}

Results(v) ==
  Checkpoint(v) \cup Complete(v) \cup Fail(v, BOOLEAN) \cup Block(v)
    \cup Feedback(v, TRUE) \cup Feedback(v, FALSE) \cup AddStep(v) \cup MoveStep(v)
    \cup Resolve(v) \cup (UNION {OpenGate(v, g) : g \in Gate})

-----------------------------------------------------------------------------
(* The steps of an operation.                                              *)

At(p, where) == job[p].at = where
Busy == {p \in Actor : ~At(p, "idle")}

(* The operation has read the file and checked.                            *)
Start(p, r) ==
  /\ At(p, "idle")
  /\ IF Busy = {} THEN ops' = ops + 1 /\ UNCHANGED races
     ELSE /\ races < MaxRaces /\ races' = races + 1
          /\ ops + RaceCost <= MaxOps /\ ops' = ops + RaceCost
  /\ issued' = issued \cup Known(r.new)
  /\ job' = [job EXCEPT ![p] =
       [at |-> IF r.early = {} THEN "open" ELSE "early", new |-> r.new,
        early |-> r.early, claims |-> r.claims, fd |-> "none"]]
  /\ UNCHANGED <<disk, log, credits, crashes>>

Create(p) ==
  /\ ops = 0
  /\ \E status \in {"created", "running"} : Start(p, Result(Created(status), {}))
  /\ UNCHANGED contract

Runs(p) == contract.at = "running" /\ contract.by = p

Operate(p) ==
  /\ file \notin Unreadable /\ ~Runs(p) /\ ops < MaxOps
  /\ \E r \in Results(file) : Start(p, r)
  /\ UNCHANGED contract

Announce(p) ==
  /\ At(p, "early")
  /\ log' = log \cup job[p].early
  /\ job' = [job EXCEPT ![p].at = "open"]
  /\ UNCHANGED <<disk, credits, issued, contract, ops, races, crashes>>

OpenInPlace(p) ==   \* mutant: no temporary file is used
  /\ At(p, "open")
  /\ file' = Partial
  /\ job' = [job EXCEPT ![p].at = "fill", ![p].fd = "file"]
  /\ UNCHANGED <<tmp, log, credits, issued, contract, ops, races, crashes>>

(* The temporary file is opened, created or emptied.                       *)
Open(p) ==
  /\ At(p, "open")
  /\ tmp' = Partial
  /\ job' = [job EXCEPT ![p].at = "fill", ![p].fd = "tmp"]
  /\ UNCHANGED <<file, log, credits, issued, contract, ops, races, crashes>>

(* The text lands in the file that was opened, under the name it has now:  *)
(* over the text of another writer it may leave a mixture of both.         *)
Written(old, new) == IF old \in {Partial, new} THEN {new} ELSE {new, Torn}

Fill(p) ==
  /\ At(p, "fill")
  /\ LET fd == job[p].fd
     IN  /\ tmp' \in IF fd = "tmp" THEN Written(tmp, job[p].new) ELSE {tmp}
         /\ file' \in IF fd = "file" THEN Written(file, job[p].new) ELSE {file}
  /\ job' = [job EXCEPT ![p].at = "move", ![p].fd = "none"]
  /\ UNCHANGED <<log, credits, issued, contract, ops, races, crashes>>

(* Who has the old files open keeps them.                                  *)
Renamed(fd) == IF fd = "tmp" THEN "file" ELSE IF fd = "file" THEN "gone" ELSE fd

Move(p) ==
  /\ At(p, "move") /\ tmp # Absent
  /\ file' = tmp /\ tmp' = Absent
  /\ job' = [q \in Actor |->
       IF q # p THEN [job[q] EXCEPT !.fd = Renamed(@)]
       ELSE IF job[p].claims = {} THEN Idle ELSE [job[p] EXCEPT !.at = "tell"]]
  /\ UNCHANGED <<log, credits, issued, contract, ops, races, crashes>>

(* The run of a contract is over when one of its operations raises.        *)
Broken(p) == contract' = IF Runs(p) THEN [contract EXCEPT !.at = "end"] ELSE contract

(* Another writer moved the temporary file away.                           *)
Raise(p) ==
  /\ At(p, "move") /\ tmp = Absent
  /\ job' = [job EXCEPT ![p] = Idle]
  /\ Broken(p)
  /\ UNCHANGED <<disk, log, credits, issued, ops, races, crashes>>

Tell(p) ==
  /\ At(p, "tell")
  /\ log' = log \cup job[p].claims
  /\ job' = [job EXCEPT ![p] = IF Done \in @.claims THEN [@ EXCEPT !.at = "learn"] ELSE Idle]
  /\ UNCHANGED <<disk, credits, issued, contract, ops, races, crashes>>

(* A completed loop is recorded as a success of the memories it used.      *)
Learn(p) ==
  /\ At(p, "learn")
  /\ credits' = credits + 1
  /\ job' = [job EXCEPT ![p] = Idle]
  /\ UNCHANGED <<disk, log, issued, contract, ops, races, crashes>>

Crash(p) ==
  /\ crashes < MaxCrashes /\ crashes' = crashes + 1
  /\ ~At(p, "idle") \/ Runs(p)
  /\ job' = [job EXCEPT ![p] = Idle]
  /\ Broken(p)
  /\ UNCHANGED <<disk, log, credits, issued, ops, races>>

-----------------------------------------------------------------------------
(* run_contract                                                            *)

RunContract(p) ==
  /\ ops = 0
  /\ Start(p, Result(Created("running"), {}))
  /\ \E need \in SUBSET Gate :
       contract' = [at |-> "running", by |-> p, left |-> Verifiers, bad |-> FALSE,
                    need |-> need, due |-> need, open |-> {}]

VerifyForever(p) ==   \* mutant: the end of the list is not looked at
  /\ Runs(p) /\ file \notin Unreadable
  /\ \E passed \in BOOLEAN :
       /\ \E r \in Feedback(file, passed) : Start(p, r)
       /\ contract' = [contract EXCEPT !.left = @ - 1, !.bad = @ \/ ~passed]

Verify(p) ==
  /\ Runs(p) /\ contract.left > 0 /\ file \notin Unreadable
  /\ \E passed \in BOOLEAN :
       /\ \E r \in Feedback(file, passed) : Start(p, r)
       /\ contract' = [contract EXCEPT !.left = @ - 1, !.bad = @ \/ ~passed]

OpenNeededBlindly(p) ==   \* mutant: the run looks at the version it created
  /\ Runs(p) /\ contract.left = 0 /\ ~contract.bad /\ file \notin Unreadable
  /\ \E g \in contract.due : \E r \in OpenGate(file, g) :
       /\ Start(p, r)
       /\ contract' = [contract EXCEPT !.due = @ \ {g}]

(* The gates of the actions are opened one by one; the run looks at the    *)
(* gates of the version its own last operation returned.                   *)
OpenNeeded(p) ==
  /\ Runs(p) /\ contract.left = 0 /\ ~contract.bad /\ file \notin Unreadable
  /\ \E g \in contract.due : \E r \in OpenGate(file, g) :
       /\ Start(p, r)
       /\ contract' = [contract EXCEPT !.due = @ \ {g}, !.open = r.new.gates]

Verdict(v) ==
  IF contract.bad THEN Fail(v, {TRUE})
  ELSE IF contract.due # {} THEN {}
  ELSE IF contract.open # {} THEN Block(v)
  ELSE Complete(v)

Decide(p) ==
  /\ Runs(p) /\ contract.left = 0 /\ file \notin Unreadable
  /\ \E r \in Verdict(file) : Start(p, r)
  /\ contract' = [contract EXCEPT !.at = "end"]

(* The next operation of the run is refused, or has nothing left to do.    *)
Refused ==
  IF file \in Unreadable THEN TRUE
  ELSE /\ contract.left = 0 /\ Verdict(file) = {}
       /\ contract.bad \/ contract.due = {} \/ contract.due \cap file.gates # {}

Abandon(p) ==
  /\ Runs(p) /\ At(p, "idle") /\ Refused
  /\ contract' = [contract EXCEPT !.at = "end"]
  /\ UNCHANGED <<disk, job, log, credits, issued, ops, races, crashes>>

GoOn(p) == Announce(p) \/ Open(p) \/ Fill(p) \/ Move(p) \/ Raise(p) \/ Tell(p) \/ Learn(p)
Run(p)  == Verify(p) \/ OpenNeeded(p) \/ Decide(p) \/ Abandon(p)

Next ==
  \E p \in Actor :
    Create(p) \/ Operate(p) \/ RunContract(p) \/ GoOn(p) \/ Run(p) \/ Crash(p)

Spec == Init /\ [][Next]_vars
=============================================================================
