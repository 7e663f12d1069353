--------------------------- MODULE ExecutionEngine ---------------------------
(****************************************************************************)
(* ExecutionEngine.run (sdk_test_agent/execution/execution_engine.py): the  *)
(* serial interpreter of a validated ExecutionPlan. It walks plan.steps in  *)
(* list order, skips a step whose dependencies have not all succeeded, asks *)
(* the registry for the executor of the step's kind, runs it, persists what *)
(* it printed, and applies the step's failure policy.                       *)
(*                                                                          *)
(* A validated plan has unique step ids and dependencies on known steps, so *)
(* a step is its position in the list. Nothing forbids a dependency on a    *)
(* later step or on the step itself.                                        *)
(****************************************************************************)
EXTENDS Naturals, Sequences

CONSTANTS
  MaxSteps,         \* the longest plan the validator accepts (max_step_count)
  Plans,            \* the validated plans the engine may be given
  SupportedKinds    \* the step kinds that have an executor in the registry

Policies == {"abort", "continue", "request_replan", "fallback"}

IsPlan(p, n) ==
  /\ p.kind      \in [1..n -> STRING]
  /\ p.deps      \in [1..n -> SUBSET (1..n)]
  /\ p.onFailure \in [1..n -> Policies]

ASSUME PlansAssumption ==
  /\ MaxSteps \in Nat
  /\ \A p \in Plans : \E n \in 1..MaxSteps : IsPlan(p, n)

VARIABLES
  plan,         \* the plan being interpreted
  pc,           \* where run() is
  cursor,       \* position of the next step the for loop visits
  result,       \* status of the StepExecutionResult in hand
  stepStatus,   \* step_status: step -> status ("unset": no entry)
  stepResults,  \* step_results: step -> result.status ("unset": no entry)
  stepRuns,     \* run.step_runs
  stepOutputs,  \* keys of context.step_outputs
  runStatus,    \* run.status
  replan        \* replan_request.failed_step_id (0: no request)

records == <<stepStatus, stepResults, stepRuns, stepOutputs>>
vars    == <<plan, pc, cursor, result, records, runStatus, replan>>

Steps == DOMAIN plan.deps

(* StepExecutionResult.status as the executors set it.                      *)
ExecutorStatus == {"succeeded", "failed", "skipped"}
StepStatus     == ExecutorStatus \cup {"waiting_replan"}
RunStatus      == {"running", "succeeded", "failed", "waiting_replan"}

Init ==
  /\ plan \in Plans
  /\ pc = "loop"
  /\ cursor = 1
  /\ result = "unset"
  /\ stepStatus  = [i \in DOMAIN plan.deps |-> "unset"]
  /\ stepResults = [i \in DOMAIN plan.deps |-> "unset"]
  /\ stepRuns = <<>>
  /\ stepOutputs = {}
  /\ runStatus = "running"
  /\ replan = 0

(* Variant: a dependency without an entry in step_status is let through.    *)
DependenciesNotFailed(i) == \A d \in plan.deps[i] : stepStatus[d] \notin {"failed", "skipped"}

DependenciesSatisfied(i) == \A d \in plan.deps[i] : stepStatus[d] = "succeeded"

(* Variant: step runs numbered from zero.                                   *)
RecordFromZero(i, status) == [step |-> i - 1, status |-> status]

Record(i, status) == [step |-> i, status |-> status]

(* Variant: the skipped step gets a step run but no entry in step_status.   *)
SkipStepUnrecorded ==
  /\ pc = "loop"
  /\ cursor \in Steps
  /\ ~DependenciesSatisfied(cursor)
  /\ stepRuns' = Append(stepRuns, Record(cursor, "skipped"))
  /\ cursor' = cursor + 1
  /\ UNCHANGED <<plan, pc, result, stepStatus, stepResults, stepOutputs, runStatus, replan>>

SkipStep ==
  /\ pc = "loop"
  /\ cursor \in Steps
  /\ ~DependenciesSatisfied(cursor)
  /\ stepRuns'   = Append(stepRuns, Record(cursor, "skipped"))
  /\ stepStatus' = [stepStatus EXCEPT ![cursor] = "skipped"]
  /\ cursor' = cursor + 1
  /\ UNCHANGED <<plan, pc, result, stepResults, stepOutputs, runStatus, replan>>

(* registry.get is outside the try: an unknown kind leaves run().           *)
UnsupportedKind ==
  /\ pc = "loop"
  /\ cursor \in Steps
  /\ DependenciesSatisfied(cursor)
  /\ plan.kind[cursor] \notin SupportedKinds
  /\ pc' = "raised"
  /\ UNCHANGED <<plan, cursor, result, records, runStatus, replan>>

StartStep ==
  /\ pc = "loop"
  /\ cursor \in Steps
  /\ DependenciesSatisfied(cursor)
  /\ plan.kind[cursor] \in SupportedKinds
  /\ pc' = "executing"
  /\ UNCHANGED <<plan, cursor, result, records, runStatus, replan>>

ExecutorReturns ==
  /\ pc = "executing"
  /\ result' \in ExecutorStatus
  /\ pc' = "finishing"
  /\ UNCHANGED <<plan, cursor, records, runStatus, replan>>

(* Any exception of an executor becomes a failed result.                    *)
ExecutorRaises ==
  /\ pc = "executing"
  /\ result' = "failed"
  /\ pc' = "finishing"
  /\ UNCHANGED <<plan, cursor, records, runStatus, replan>>

(* Variants: an executor's "skipped" is taken for a success; "fallback" is  *)
(* tolerated like "continue".                                               *)
StopsRunOnFailedOnly(i, status)  == status = "failed" /\ plan.onFailure[i] # "continue"
StopsRunUnlessFallback(i, status) ==
  status # "succeeded" /\ plan.onFailure[i] \notin {"continue", "fallback"}

(* A result that is not "succeeded" ends the run unless the policy is to    *)
(* continue; "fallback" is treated as "abort".                              *)
StopsRun(i, status) == status # "succeeded" /\ plan.onFailure[i] # "continue"

AwaitsReplan(i, status) == StopsRun(i, status) /\ plan.onFailure[i] = "request_replan"

(* The status left in step_status, result and step_run once the policy has  *)
(* been applied.                                                            *)
SettledStatus(i, status) == IF AwaitsReplan(i, status) THEN "waiting_replan" ELSE status

FinishStep ==
  LET settled == SettledStatus(cursor, result) IN
  /\ pc = "finishing"
  /\ stepRuns'    = Append(stepRuns, Record(cursor, settled))
  /\ stepResults' = [stepResults EXCEPT ![cursor] = settled]
  /\ stepStatus'  = [stepStatus EXCEPT ![cursor] = settled]
  /\ stepOutputs' = IF result = "succeeded" THEN stepOutputs \cup {cursor} ELSE stepOutputs
  /\ replan' = IF AwaitsReplan(cursor, result) THEN cursor ELSE replan
  /\ runStatus' = IF AwaitsReplan(cursor, result) THEN "waiting_replan"
                  ELSE IF StopsRun(cursor, result) THEN "failed"
                  ELSE runStatus
  /\ pc' = IF StopsRun(cursor, result) THEN "recording" ELSE "loop"
  /\ result' = "unset"
  /\ cursor' = cursor + 1
  /\ UNCHANGED plan

(* _persist_text raises while the step's output is being stored: run()      *)
(* is left before step_run and result are recorded.                         *)
StepPersistFails ==
  /\ pc = "finishing"
  /\ pc' = "raised"
  /\ UNCHANGED <<plan, cursor, result, records, runStatus, replan>>

(* Variant: the run waits for its skipped steps.                            *)
LoopEndsWhenAllRan ==
  /\ pc = "loop"
  /\ cursor \notin Steps
  /\ \A i \in Steps : stepResults[i] # "unset"
  /\ runStatus' = "succeeded"
  /\ pc' = "recording"
  /\ UNCHANGED <<plan, cursor, result, records, replan>>

LoopEnds ==
  /\ pc = "loop"
  /\ cursor \notin Steps
  /\ runStatus' = "succeeded"
  /\ pc' = "recording"
  /\ UNCHANGED <<plan, cursor, result, records, replan>>

(* _finish_artifact_recording, then the ExecutionRunResult is returned.     *)
RecordSummary ==
  /\ pc = "recording"
  /\ pc' \in {"returned", "raised"}
  /\ UNCHANGED <<plan, cursor, result, records, runStatus, replan>>

Done == pc \in {"returned", "raised"} /\ UNCHANGED vars

EngineStep ==
  \/ SkipStep \/ UnsupportedKind \/ StartStep
  \/ FinishStep \/ StepPersistFails \/ LoopEnds \/ RecordSummary

Next == EngineStep \/ ExecutorReturns \/ ExecutorRaises \/ Done

Spec == Init /\ [][Next]_vars

(* The engine's own steps are straight-line code. An executor call has no   *)
(* time limit, so nothing is assumed of its return.                         *)
FairSpec == Spec /\ WF_vars(EngineStep)

-----------------------------------------------------------------------------

TypeOK ==
  /\ plan \in Plans
  /\ pc \in {"loop", "executing", "finishing", "recording", "returned", "raised"}
  /\ cursor \in Nat \ {0}
  /\ result \in ExecutorStatus \cup {"unset"}
  /\ stepStatus  \in [Steps -> StepStatus \cup {"unset"}]
  /\ stepResults \in [Steps -> StepStatus \cup {"unset"}]
  /\ stepRuns \in Seq([step : Steps, status : StepStatus])
  /\ stepOutputs \subseteq Steps
  /\ runStatus \in RunStatus
  /\ replan \in Steps \cup {0}

Executed(i) == stepResults[i] # "unset"

(* Whatever happens to the statuses afterwards, a step that was given to    *)
(* its executor has only dependencies that succeeded and whose outputs are  *)
(* in the context (the executors look inputs up there).                     *)
RanAfterDependencies ==
  \A i \in Steps : Executed(i) =>
    \A d \in plan.deps[i] : stepStatus[d] = "succeeded" /\ d \in stepOutputs

(* The three records of a step (step_status, step_results, step_runs) and   *)
(* the context's outputs never tell different stories: REQUEST_REPLAN       *)
(* rewrites the status in three places after the fact.                      *)
RecordsAgree ==
  /\ \A i \in Steps : /\ stepStatus[i] = "unset" <=> i > Len(stepRuns)
                      /\ stepStatus[i] = "succeeded" <=> i \in stepOutputs
  /\ \A k \in DOMAIN stepRuns :
       /\ stepRuns[k].step = k
       /\ stepRuns[k].status = stepStatus[k]
       /\ Executed(k) => stepResults[k] = stepStatus[k]

(* The verdict of a returned run follows from its steps: "succeeded" means  *)
(* that all were visited and each failure was tolerated by its policy,      *)
(* "failed" and "waiting_replan" that exactly the last visited step failed  *)
(* under a policy that stops the run, and a replan request names that step. *)
VerdictFollowsFromSteps ==
  LET last == Len(stepRuns)
      Fatal(i) == Executed(i) /\ stepStatus[i] # "succeeded" /\ plan.onFailure[i] # "continue"
  IN pc = "returned" =>
       /\ runStatus = "succeeded" <=> \A i \in Steps : ~Fatal(i)
       /\ runStatus = "succeeded" => \A i \in Steps : stepStatus[i] # "unset"
       /\ runStatus # "succeeded" => Fatal(last) /\ \A i \in Steps \ {last} : ~Fatal(i)
       /\ replan # 0 <=> runStatus = "waiting_replan"
       /\ replan # 0 => replan = last /\ plan.onFailure[last] = "request_replan"

(* A step that depends on itself or on a step later in the list is accepted *)
(* by the validator and never runs, so a dependency cycle cannot hang or    *)
(* reorder a run.                                                           *)
ForwardDependentNeverRuns ==
  \A i \in Steps : (\E d \in plan.deps[i] : d >= i) => ~Executed(i)

(* run() ends, or is inside an executor that never returns.                 *)
EndsOrExecutorHangs == <>(pc \in {"returned", "raised"}) \/ <>[](pc = "executing")

-----------------------------------------------------------------------------
(* The refinement mapping to the abstract run.                              *)

fate == [i \in Steps |->
           IF stepStatus[i] = "unset" THEN "pending"
           ELSE IF stepStatus[i] = "succeeded" THEN "succeeded"
           ELSE IF Executed(i) THEN "failed"
           ELSE "skipped"]

verdict == IF pc = "returned" THEN runStatus
           ELSE IF pc = "raised" THEN "raised"
           ELSE "none"

Abstract == INSTANCE DependencyRun

(* The interpreter implements the abstract run of dependent steps.          *)
ImplementsDependencyRun == Abstract!Spec
=============================================================================
