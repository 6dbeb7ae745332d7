------------------------ MODULE LoopLedgerProperties ------------------------
(***************************************************************************)
(* What the ledger of a loop must guarantee.                               *)
(***************************************************************************)
EXTENDS LoopLedger

JobType ==
  [at : {"idle", "early", "open", "fill", "move", "tell", "learn"}, new : Version,
   early : SUBSET Claim, claims : SUBSET Claim, fd : {"none", "tmp", "file", "gone"}]
RunType ==
  [at : {"none", "running", "end"}, by : Actor \cup {None}, left : 0..Verifiers,
   bad : BOOLEAN, need : SUBSET Gate, due : SUBSET Gate, open : SUBSET Gate]

(* The files hold versions or what cannot be parsed, the journal claims.   *)
TypeOK ==
  /\ file \in Version \cup Unreadable /\ tmp \in Version \cup Unreadable
  /\ job \in [Actor -> JobType]
  /\ log \subseteq Claim
  /\ credits \in Nat /\ issued \subseteq Step
  /\ contract \in RunType
  /\ ops \in Nat /\ races \in 0..MaxRaces /\ crashes \in 0..MaxCrashes

Begun == {"running", "completed", "verified"}
Coherent(v) ==
  /\ \A s \in Step :
       /\ v.steps[s].deps \subseteq Known(v)
       /\ v.steps[s].status \in Begun => Ready(v, s)
       /\ s \in v.blockers <=> v.steps[s].status = "blocked"
  /\ v.status = "completed" =>
       v.proven /\ \A s \in Known(v) : v.steps[s].status \in {"verified", "cancelled"}

(* Every version that can be read is coherent, whatever was lost between   *)
(* racing writers: a step has begun only on verified dependencies, a       *)
(* blocked step has its open blocker and no other step has one, and a      *)
(* completed loop has evidence and no unfinished step                      *)
(* (loop_store.py:213, 402, 449, 484).                                     *)
VersionsFit == file \in Unreadable \/ Coherent(file)

(* A process that dies never leaves a ledger that cannot be read; only two *)
(* writers at once can (loop_store.py:683).                                *)
StaysReadable == races = 0 => file \in Version \cup {Absent}

Holds(v, claim) ==
  \/ claim = Restarted
  \/ claim = Done /\ v.status = "completed"
  \/ claim \in v.resolved
  \/ \E s \in Step : claim = <<s, "verified">> /\ v.steps[s].status = "verified"

(* As long as the operations follow each other, no event of the journal    *)
(* claims what the ledger does not say: a completed loop stays completed,  *)
(* a verified step verified and a decided gate decided, also when a        *)
(* process dies between the ledger and the journal (loop_store.py:241,     *)
(* 526, 664).  Only the restart that a checkpoint announces before it      *)
(* writes (line 155) is not held to it.  The memories a loop used are      *)
(* credited at most once, and only when it is completed (line 261).        *)
JournalIsTrue ==
  races = 0 =>
    /\ \A claim \in log : file \notin Unreadable /\ Holds(file, claim)
    /\ credits <= 1 /\ (credits = 1 => file \notin Unreadable /\ file.status = "completed")

(* The orchestrator completes a loop only when no verifier failed and none *)
(* of the contract's actions needs a gate (loop_orchestrator.py:48, 74).       *)
CompletesWhenClear ==
  [][\A p \in Actor :
       ( /\ Runs(p) /\ At(p, "idle") /\ job'[p].at = "open"
         /\ job'[p].new.status = "completed" /\ file.status # "completed" )
         => ~contract.bad /\ contract.need = {}]_vars
=============================================================================
