---------------------------- MODULE DependencyRun ----------------------------
(****************************************************************************)
(* What running a plan of dependent steps promises, whatever the order in   *)
(* which the steps are visited: a step runs at most once and only when all  *)
(* it depends on has succeeded, a failure that its policy does not tolerate *)
(* stops the run, and the verdict follows from what happened to the steps.  *)
(* ExecutionEngine.tla, the serial interpreter, is shown to implement it.   *)
(****************************************************************************)
EXTENDS Naturals

CONSTANT Plans      \* the plans a run may be given

VARIABLES
  plan,             \* the plan of this run
  fate,             \* what has become of each step
  verdict           \* what the caller has been told

vars == <<plan, fate, verdict>>

Fates    == {"pending", "succeeded", "failed", "skipped"}
Verdicts == {"none", "succeeded", "failed", "waiting_replan", "raised"}

Steps == DOMAIN plan.deps

Init ==
  /\ plan \in Plans
  /\ fate = [i \in DOMAIN plan.deps |-> "pending"]
  /\ verdict = "none"

(* A step failed and its policy is not to carry on.                         *)
Stopped == \E i \in Steps : fate[i] = "failed" /\ plan.onFailure[i] # "continue"

Open(i) == verdict = "none" /\ ~Stopped /\ fate[i] = "pending"

RunStep(i) ==
  /\ Open(i)
  /\ \A d \in plan.deps[i] : fate[d] = "succeeded"
  /\ \E f \in {"succeeded", "failed"} : fate' = [fate EXCEPT ![i] = f]
  /\ UNCHANGED <<plan, verdict>>

SkipStep(i) ==
  /\ Open(i)
  /\ \E d \in plan.deps[i] : fate[d] # "succeeded"
  /\ fate' = [fate EXCEPT ![i] = "skipped"]
  /\ UNCHANGED <<plan, verdict>>

(* The verdict the caller gets when the run stops or has no step left.      *)
VerdictOn(i) == IF plan.onFailure[i] = "request_replan" THEN "waiting_replan" ELSE "failed"

Conclude ==
  /\ verdict = "none"
  /\ \/ /\ ~Stopped
        /\ \A i \in Steps : fate[i] # "pending"
        /\ verdict' = "succeeded"
     \/ \E i \in Steps :
          /\ fate[i] = "failed"
          /\ plan.onFailure[i] # "continue"
          /\ verdict' = VerdictOn(i)
  /\ UNCHANGED <<plan, fate>>

(* An error of the surroundings (no executor for a kind, an artifact that   *)
(* cannot be stored) ends the run without a verdict.                        *)
Raise ==
  /\ verdict = "none"
  /\ verdict' = "raised"
  /\ UNCHANGED <<plan, fate>>

Next ==
  \/ \E i \in Steps : RunStep(i) \/ SkipStep(i)
  \/ Conclude
  \/ Raise

Spec == Init /\ [][Next]_vars
=============================================================================
