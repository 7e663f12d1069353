------------------------ MODULE ExecutionEngineProofs ------------------------
(****************************************************************************)
(* Proofs about ExecutionEngine for every set of validated plans, of any    *)
(* length: its safety invariants, and that it implements DependencyRun.     *)
(****************************************************************************)
EXTENDS ExecutionEngine, TLAPS

Visited == 1..Len(stepRuns)

Fatal(i) == Executed(i) /\ stepStatus[i] # "succeeded" /\ plan.onFailure[i] # "continue"

(* The loop has recorded the steps before the cursor and no other, and an   *)
(* executor is given only the step at the cursor.                           *)
LoopPosition ==
  /\ cursor = Len(stepRuns) + 1
  /\ Visited \subseteq Steps
  /\ \A i \in Steps : Executed(i) => i \in Visited
  /\ pc \in {"executing", "finishing"} => cursor \in Steps /\ DependenciesSatisfied(cursor)
  /\ pc = "finishing" => result \in ExecutorStatus

(* Dependencies of an executed step lie before it.                          *)
DependenciesBefore ==
  \A i \in Steps : Executed(i) =>
    \A d \in plan.deps[i] : d < i /\ stepStatus[d] = "succeeded"

(* As long as the loop runs no step was fatal; once it has ended, the run's *)
(* status tells how.                                                        *)
LoopOutcome ==
  /\ pc \in {"loop", "executing", "finishing"} =>
       runStatus = "running" /\ replan = 0 /\ \A i \in Steps : ~Fatal(i)
  /\ pc \in {"recording", "returned"} =>
       \/ /\ runStatus = "succeeded" /\ replan = 0
          /\ Steps \subseteq Visited
          /\ \A i \in Steps : ~Fatal(i)
       \/ /\ Len(stepRuns) \in Steps
          /\ Fatal(Len(stepRuns))
          /\ \A i \in Steps \ {Len(stepRuns)} : ~Fatal(i)
          /\ \/ /\ runStatus = "waiting_replan" /\ replan = Len(stepRuns)
                /\ plan.onFailure[Len(stepRuns)] = "request_replan"
             \/ /\ runStatus = "failed" /\ replan = 0
                /\ plan.onFailure[Len(stepRuns)] # "request_replan"

IInv == TypeOK /\ RecordsAgree /\ LoopPosition /\ DependenciesBefore /\ LoopOutcome

-----------------------------------------------------------------------------

(* Steps are numbered from 1, and every dependency is a step.               *)
LEMMA PlanShape ==
  ASSUME plan \in Plans
  PROVE  \E n \in 1..MaxSteps : Steps = 1..n /\ IsPlan(plan, n)
BY PlansAssumption DEF Steps, IsPlan

LEMMA DependenciesAreSteps ==
  ASSUME plan \in Plans, NEW i \in Steps
  PROVE  plan.deps[i] \subseteq Steps
BY PlanShape DEF IsPlan

LEMMA InitInv == Init => IInv
<1> SUFFICES ASSUME Init PROVE IInv
  OBVIOUS
<1>1. PICK n \in 1..MaxSteps : Steps = 1..n /\ IsPlan(plan, n)
  BY PlanShape DEF Init
<1>2. TypeOK
  BY <1>1 DEF Init, TypeOK, Steps, RunStatus
<1>3. RecordsAgree
  BY <1>1, PlansAssumption DEF Init, RecordsAgree, Steps
<1>4. LoopPosition /\ DependenciesBefore /\ LoopOutcome
  BY DEF Init, LoopPosition, DependenciesBefore, LoopOutcome, Visited, Fatal, Executed, Steps
<1> QED
  BY <1>2, <1>3, <1>4 DEF IInv

(* A step that changes neither the records nor the loop's position.         *)
LEMMA Frame ==
  ASSUME IInv, UNCHANGED <<plan, cursor, records>>
  PROVE  /\ Steps' = Steps
         /\ RecordsAgree' /\ DependenciesBefore'
         /\ \A i \in Steps : Fatal(i)' = Fatal(i)
<1> QED
  BY DEF IInv, Steps, RecordsAgree, DependenciesBefore, Fatal, Executed, records

LEMMA QuietSteps ==
  ASSUME IInv,
         UnsupportedKind \/ StartStep \/ ExecutorReturns \/ ExecutorRaises
           \/ StepPersistFails \/ LoopEnds \/ RecordSummary \/ Done
  PROVE  IInv'
<1>0. UNCHANGED <<plan, cursor, records>>
  BY DEF UnsupportedKind, StartStep, ExecutorReturns, ExecutorRaises,
         StepPersistFails, LoopEnds, RecordSummary, Done, vars, records
<1>1. Steps' = Steps /\ RecordsAgree' /\ DependenciesBefore'
  BY <1>0, Frame
<1>2. TypeOK'
  BY <1>0, <1>1 DEF IInv, TypeOK, ExecutorStatus, RunStatus, records, UnsupportedKind, StartStep,
         ExecutorReturns, ExecutorRaises, StepPersistFails, LoopEnds, RecordSummary, Done, vars
<1>3. LoopPosition'
  BY <1>0, <1>1 DEF IInv, LoopPosition, Visited, Executed, DependenciesSatisfied, ExecutorStatus,
         records, UnsupportedKind, StartStep, ExecutorReturns, ExecutorRaises, StepPersistFails,
         LoopEnds, RecordSummary, Done, vars
<1>4. LoopOutcome'
  <2>1. \A i \in Steps : Fatal(i)' = Fatal(i)
    BY <1>0, Frame
  <2>2. CASE LoopEnds
    <3>1. PICK n \in 1..MaxSteps : Steps = 1..n
      BY PlanShape DEF IInv, TypeOK
    <3>2. Len(stepRuns) \in Nat /\ cursor = Len(stepRuns) + 1 /\ cursor \notin 1..n
      BY <2>2, <3>1 DEF LoopEnds, IInv, TypeOK, LoopPosition
    <3>3. Steps \subseteq Visited
      BY <3>1, <3>2, PlansAssumption DEF Visited
    <3> QED
      BY <1>0, <1>1, <2>1, <2>2, <3>3 DEF IInv, LoopOutcome, LoopEnds, Visited, records
  <2>3. CASE ~LoopEnds
    <3>1. UNCHANGED <<runStatus, replan>>
      BY <2>3 DEF UnsupportedKind, StartStep, ExecutorReturns, ExecutorRaises,
             StepPersistFails, RecordSummary, Done, vars
    <3>2. /\ pc' \in {"loop", "executing", "finishing"} => pc \in {"loop", "executing", "finishing"}
          /\ pc' \in {"recording", "returned"} => pc \in {"recording", "returned"}
      BY <2>3 DEF UnsupportedKind, StartStep, ExecutorReturns, ExecutorRaises,
             StepPersistFails, RecordSummary, Done, vars
    <3>3. Len(stepRuns') = Len(stepRuns) /\ plan' = plan
      BY <1>0 DEF records
    <3> QED
      BY <1>1, <2>1, <3>1, <3>2, <3>3 DEF IInv, LoopOutcome, Visited
  <2> QED
    BY <2>2, <2>3
<1> QED
  BY <1>1, <1>2, <1>3, <1>4 DEF IInv

(* Appending to the step runs while the step at the cursor gets its status. *)
LEMMA AppendRecord ==
  ASSUME IInv, cursor \in Steps,
         NEW r \in [step : Steps, status : StepStatus],
         stepRuns' = Append(stepRuns, r), plan' = plan
  PROVE  /\ Steps' = Steps
         /\ Len(stepRuns) \in Nat
         /\ Len(stepRuns') = cursor
         /\ Visited' = Visited \cup {cursor}
         /\ cursor \notin Visited
         /\ Visited \subseteq Steps
         /\ DOMAIN stepRuns' = DOMAIN stepRuns \cup {cursor}
         /\ DOMAIN stepRuns = Visited
         /\ stepRuns'[cursor] = r
         /\ \A k \in DOMAIN stepRuns : stepRuns'[k] = stepRuns[k]
<1>1. /\ stepRuns \in Seq([step : Steps, status : StepStatus])
      /\ cursor = Len(stepRuns) + 1
      /\ Visited \subseteq Steps
  BY DEF IInv, TypeOK, LoopPosition
<1>2. /\ Len(stepRuns) \in Nat
      /\ DOMAIN stepRuns = 1..Len(stepRuns)
      /\ Len(stepRuns') = Len(stepRuns) + 1
      /\ DOMAIN stepRuns' = 1..Len(stepRuns')
      /\ stepRuns'[Len(stepRuns) + 1] = r
      /\ \A k \in 1..Len(stepRuns) : stepRuns'[k] = stepRuns[k]
  BY <1>1
<1>3. Steps' = Steps
  BY DEF Steps
<1>4. 1..(Len(stepRuns) + 1) = 1..Len(stepRuns) \cup {Len(stepRuns) + 1}
  BY <1>2
<1> QED
  BY <1>1, <1>2, <1>3, <1>4 DEF Visited

LEMMA SkipStepInv == IInv /\ SkipStep => IInv'
<1> SUFFICES ASSUME IInv, SkipStep PROVE IInv'
  OBVIOUS
<1>0. PICK n \in 1..MaxSteps : Steps = 1..n /\ IsPlan(plan, n)
  BY PlanShape DEF IInv, TypeOK
<1>1. /\ cursor \in Steps
      /\ Record(cursor, "skipped") \in [step : Steps, status : StepStatus]
      /\ stepRuns' = Append(stepRuns, Record(cursor, "skipped"))
      /\ plan' = plan
  BY DEF SkipStep, Record, StepStatus, ExecutorStatus
<1>2. /\ Steps' = Steps
      /\ Len(stepRuns) \in Nat
      /\ Len(stepRuns') = cursor
      /\ Visited' = Visited \cup {cursor}
      /\ cursor \notin Visited
      /\ Visited \subseteq Steps
      /\ DOMAIN stepRuns' = DOMAIN stepRuns \cup {cursor}
      /\ DOMAIN stepRuns = Visited
      /\ stepRuns'[cursor] = Record(cursor, "skipped")
      /\ \A k \in DOMAIN stepRuns : stepRuns'[k] = stepRuns[k]
  BY <1>1, AppendRecord
<1>3. /\ ~Executed(cursor)
      /\ \A i \in Steps : Executed(i)' <=> Executed(i)
      /\ stepStatus'[cursor] = "skipped"
      /\ \A i \in Steps \ {cursor} : stepStatus'[i] = stepStatus[i]
      /\ stepStatus[cursor] = "unset"
      /\ cursor \notin stepOutputs
  BY <1>1, <1>2, <1>0 DEF IInv, TypeOK, LoopPosition, RecordsAgree, SkipStep, Executed, Visited
<1>4. TypeOK'
  BY <1>1, <1>2 DEF IInv, TypeOK, SkipStep, StepStatus, ExecutorStatus
<1>5. RecordsAgree'
  <2>1. \A i \in Steps : /\ stepStatus'[i] = "unset" <=> i > Len(stepRuns')
                         /\ stepStatus'[i] = "succeeded" <=> i \in stepOutputs'
    BY <1>0, <1>2, <1>3 DEF IInv, RecordsAgree, LoopPosition, SkipStep
  <2>2. \A k \in DOMAIN stepRuns : /\ stepRuns'[k].step = k
                                   /\ stepRuns'[k].status = stepStatus'[k]
                                   /\ Executed(k)' => stepResults'[k] = stepStatus'[k]
    BY <1>2, <1>3 DEF IInv, RecordsAgree, SkipStep
  <2>3. stepRuns'[cursor].step = cursor /\ stepRuns'[cursor].status = "skipped"
    BY <1>2 DEF Record
  <2>4. ~Executed(cursor) /\ UNCHANGED stepResults
    BY <1>3 DEF SkipStep
  <2>5. ASSUME NEW k \in DOMAIN stepRuns'
        PROVE  /\ stepRuns'[k].step = k
               /\ stepRuns'[k].status = stepStatus'[k]
               /\ Executed(k)' => stepResults'[k] = stepStatus'[k]
    BY <1>2, <1>3, <2>2, <2>3, <2>4, <2>5 DEF Executed
  <2> QED
    BY <1>2, <2>1, <2>5 DEF RecordsAgree, Executed
<1>6. LoopPosition'
  BY <1>2, <1>3, <1>1 DEF IInv, TypeOK, LoopPosition, SkipStep
<1>7. DependenciesBefore'
  BY <1>1, <1>2, <1>3, DependenciesAreSteps DEF IInv, TypeOK, DependenciesBefore
<1>8. LoopOutcome'
  BY <1>2, <1>3 DEF IInv, LoopOutcome, SkipStep, Fatal
<1> QED
  BY <1>4, <1>5, <1>6, <1>7, <1>8 DEF IInv

LEMMA FinishStepInv == IInv /\ FinishStep => IInv'
<1> SUFFICES ASSUME IInv, FinishStep PROVE IInv'
  OBVIOUS
<1> DEFINE settled == SettledStatus(cursor, result)
<1>0. PICK n \in 1..MaxSteps : Steps = 1..n /\ IsPlan(plan, n)
  BY PlanShape DEF IInv, TypeOK
<1>1. /\ cursor \in Steps
      /\ result \in ExecutorStatus
      /\ settled \in StepStatus
      /\ Record(cursor, settled) \in [step : Steps, status : StepStatus]
      /\ stepRuns' = Append(stepRuns, Record(cursor, settled))
      /\ plan' = plan
      /\ DependenciesSatisfied(cursor)
  BY DEF FinishStep, Record, StepStatus, ExecutorStatus, SettledStatus, IInv, LoopPosition
<1>2. /\ Steps' = Steps
      /\ Len(stepRuns) \in Nat
      /\ Len(stepRuns') = cursor
      /\ Visited' = Visited \cup {cursor}
      /\ cursor \notin Visited
      /\ Visited \subseteq Steps
      /\ DOMAIN stepRuns' = DOMAIN stepRuns \cup {cursor}
      /\ DOMAIN stepRuns = Visited
      /\ stepRuns'[cursor] = Record(cursor, settled)
      /\ \A k \in DOMAIN stepRuns : stepRuns'[k] = stepRuns[k]
  BY <1>1, AppendRecord
<1>3. /\ settled = "succeeded" <=> result = "succeeded"
      /\ settled # "unset"
  BY <1>1 DEF SettledStatus, AwaitsReplan, StopsRun, ExecutorStatus
<1>4. /\ ~Executed(cursor)
      /\ stepStatus[cursor] = "unset"
      /\ cursor \notin stepOutputs
  BY <1>1, <1>2, <1>0 DEF IInv, TypeOK, LoopPosition, RecordsAgree, Visited
<1>5. /\ stepStatus'[cursor] = settled
      /\ stepResults'[cursor] = settled
      /\ \A i \in Steps \ {cursor} : /\ stepStatus'[i] = stepStatus[i]
                                     /\ stepResults'[i] = stepResults[i]
                                     /\ Executed(i)' <=> Executed(i)
      /\ stepResults'[cursor] # "unset"
      /\ stepOutputs' = IF settled = "succeeded" THEN stepOutputs \cup {cursor} ELSE stepOutputs
  <2>1. /\ stepStatus'  = [stepStatus EXCEPT ![cursor] = settled]
        /\ stepResults' = [stepResults EXCEPT ![cursor] = settled]
        /\ stepOutputs' = IF result = "succeeded" THEN stepOutputs \cup {cursor} ELSE stepOutputs
    BY DEF FinishStep
  <2>2. /\ stepStatus  \in [Steps -> StepStatus \cup {"unset"}]
        /\ stepResults \in [Steps -> StepStatus \cup {"unset"}]
    BY DEF IInv, TypeOK
  <2> HIDE DEF settled
  <2> QED
    BY <1>1, <1>3, <2>1, <2>2 DEF Executed
<1>6. TypeOK'
  <2>1. stepRuns' \in Seq([step : Steps, status : StepStatus])
    BY <1>1 DEF IInv, TypeOK
  <2>2. cursor' \in Nat \ {0}
    BY DEF IInv, TypeOK, FinishStep
  <2>3. /\ stepStatus'  \in [Steps -> StepStatus \cup {"unset"}]
        /\ stepResults' \in [Steps -> StepStatus \cup {"unset"}]
    BY <1>1 DEF IInv, TypeOK, FinishStep
  <2> QED
    BY <1>1, <1>2, <1>5, <2>1, <2>2, <2>3 DEF IInv, TypeOK, FinishStep, RunStatus
<1>7. RecordsAgree'
  <2>1. \A i \in Steps : /\ stepStatus'[i] = "unset" <=> i > Len(stepRuns')
                         /\ stepStatus'[i] = "succeeded" <=> i \in stepOutputs'
    BY <1>0, <1>2, <1>3, <1>4, <1>5 DEF IInv, RecordsAgree, LoopPosition
  <2>2. \A k \in DOMAIN stepRuns : /\ stepRuns'[k].step = k
                                   /\ stepRuns'[k].status = stepStatus'[k]
                                   /\ Executed(k)' => stepResults'[k] = stepStatus'[k]
    BY <1>2, <1>5 DEF IInv, RecordsAgree
  <2>3. stepRuns'[cursor].step = cursor /\ stepRuns'[cursor].status = settled
    BY <1>2 DEF Record
  <2>4. ASSUME NEW k \in DOMAIN stepRuns'
        PROVE  /\ stepRuns'[k].step = k
               /\ stepRuns'[k].status = stepStatus'[k]
               /\ Executed(k)' => stepResults'[k] = stepStatus'[k]
    <3> HIDE DEF settled
    <3> QED
      BY <1>2, <1>5, <2>2, <2>3, <2>4 DEF Executed
  <2> QED
    BY <1>2, <2>1, <2>4 DEF RecordsAgree, Executed
<1>8. LoopPosition'
  BY <1>1, <1>2, <1>5 DEF IInv, TypeOK, LoopPosition, FinishStep
<1>9. DependenciesBefore'
  <2>1. \A d \in plan.deps[cursor] : d \in Steps /\ stepStatus[d] = "succeeded"
    BY <1>1, DependenciesAreSteps DEF DependenciesSatisfied, IInv, TypeOK
  <2>2. \A d \in plan.deps[cursor] : d # cursor /\ d \in Visited
    BY <2>1, <1>4, <1>0, <1>2 DEF IInv, RecordsAgree, Visited
  <2>3. \A d \in Visited : d < cursor
    BY <1>2 DEF Visited, IInv, LoopPosition
  <2>4. ASSUME NEW i \in Steps, Executed(i), NEW d \in plan.deps[i]
        PROVE  d < i /\ stepStatus'[d] = "succeeded"
    BY <2>4, <1>4, <1>5, DependenciesAreSteps DEF IInv, TypeOK, DependenciesBefore, RecordsAgree
  <2> QED
    BY <1>1, <1>2, <1>5, <2>1, <2>2, <2>3, <2>4 DEF DependenciesBefore
<1>10. LoopOutcome'
  <2>1. \A i \in Steps : i = cursor => (Fatal(i)' <=> StopsRun(cursor, result))
    <3> HIDE DEF settled
    <3> QED
      BY <1>1, <1>3, <1>5 DEF Fatal, Executed, StopsRun
  <2>2. \A i \in Steps \ {cursor} : ~Fatal(i)'
    <3> HIDE DEF settled
    <3>1. \A i \in Steps : ~Fatal(i)
      BY DEF IInv, LoopOutcome, FinishStep
    <3> QED
      BY <3>1, <1>1, <1>5 DEF Fatal
  <2>3. /\ runStatus' = IF AwaitsReplan(cursor, result) THEN "waiting_replan"
                        ELSE IF StopsRun(cursor, result) THEN "failed" ELSE "running"
        /\ replan' = IF AwaitsReplan(cursor, result) THEN cursor ELSE 0
        /\ pc' = IF StopsRun(cursor, result) THEN "recording" ELSE "loop"
    BY DEF IInv, LoopOutcome, FinishStep
  <2>4. AwaitsReplan(cursor, result) <=>
          StopsRun(cursor, result) /\ plan.onFailure[cursor] = "request_replan"
    BY DEF AwaitsReplan
  <2> QED
    BY <1>1, <1>2, <2>1, <2>2, <2>3, <2>4 DEF LoopOutcome
<1> QED
  BY <1>6, <1>7, <1>8, <1>9, <1>10 DEF IInv

LEMMA NextInv == IInv /\ [Next]_vars => IInv'
<1>1. ASSUME IInv, UNCHANGED vars PROVE IInv'
  <2>1. UNCHANGED <<plan, cursor, records>> /\ UNCHANGED <<pc, result, runStatus, replan>>
    BY <1>1 DEF vars, records
  <2>2. Steps' = Steps /\ RecordsAgree' /\ DependenciesBefore'
    BY <1>1, <2>1, Frame
  <2> QED
    BY <1>1, <2>1, <2>2 DEF IInv, TypeOK, LoopPosition, LoopOutcome, Visited, Fatal, Executed,
       DependenciesSatisfied, records
<1> QED
  BY <1>1, QuietSteps, SkipStepInv, FinishStepInv DEF Next, EngineStep

(* Every reachable state satisfies the inductive invariant.                 *)
THEOREM InductiveInvariant == Spec => []IInv
BY InitInv, NextInv, PTL DEF Spec

-----------------------------------------------------------------------------

(* run() only ever holds states of the declared shape.                      *)
THEOREM TypeCorrect == Spec => []TypeOK
<1>1. IInv => TypeOK
  BY DEF IInv
<1> QED
  BY <1>1, InductiveInvariant, PTL

(* Whatever the plan, an executed step's dependencies have all succeeded    *)
(* and their outputs are in the context.                                    *)
THEOREM DependenciesFirst == Spec => []RanAfterDependencies
<1>1. IInv => RanAfterDependencies
  <2> SUFFICES ASSUME IInv, NEW i \in Steps, Executed(i), NEW d \in plan.deps[i]
               PROVE  stepStatus[d] = "succeeded" /\ d \in stepOutputs
    BY DEF RanAfterDependencies
  <2>1. d \in Steps /\ stepStatus[d] = "succeeded"
    BY DependenciesAreSteps DEF IInv, TypeOK, DependenciesBefore
  <2> QED
    BY <2>1 DEF IInv, RecordsAgree
<1> QED
  BY <1>1, InductiveInvariant, PTL

(* step_status, step_results, step_runs and the context's outputs agree.    *)
THEOREM OneStory == Spec => []RecordsAgree
<1>1. IInv => RecordsAgree
  BY DEF IInv
<1> QED
  BY <1>1, InductiveInvariant, PTL

(* A step that depends on itself or on a later step never executes, for     *)
(* plans of any length.                                                     *)
THEOREM NoForwardDependency == Spec => []ForwardDependentNeverRuns
<1>1. IInv => ForwardDependentNeverRuns
  <2> SUFFICES ASSUME IInv, NEW i \in Steps, NEW d \in plan.deps[i], d >= i, Executed(i)
               PROVE  FALSE
    BY DEF ForwardDependentNeverRuns
  <2>1. PICK n \in 1..MaxSteps : Steps = 1..n
    BY PlanShape DEF IInv, TypeOK
  <2>2. d \in Steps /\ d < i
    BY DependenciesAreSteps DEF IInv, TypeOK, DependenciesBefore
  <2> QED
    BY <2>1, <2>2, PlansAssumption
<1> QED
  BY <1>1, InductiveInvariant, PTL

(* The verdict of a returned run is the one its steps and their failure     *)
(* policies call for.                                                       *)
THEOREM VerdictSound == Spec => []VerdictFollowsFromSteps
<1>1. IInv => VerdictFollowsFromSteps
  <2> SUFFICES ASSUME IInv, pc = "returned" PROVE VerdictFollowsFromSteps
    BY DEF VerdictFollowsFromSteps
  <2>1. PICK n \in 1..MaxSteps : Steps = 1..n
    BY PlanShape DEF IInv, TypeOK
  <2>2. \A i \in Visited \cap Steps : stepStatus[i] # "unset"
    BY <2>1, PlansAssumption DEF IInv, TypeOK, RecordsAgree, Visited
  <2>3. 0 \notin Steps
    BY <2>1
  <2> QED
    BY <2>2, <2>3 DEF IInv, LoopOutcome, VerdictFollowsFromSteps, Fatal
<1> QED
  BY <1>1, InductiveInvariant, PTL

-----------------------------------------------------------------------------
(* The refinement. A step's fate, spelled out.                              *)

LEMMA FateOf ==
  ASSUME NEW i \in Steps
  PROVE  fate[i] = IF stepStatus[i] = "unset" THEN "pending"
                   ELSE IF stepStatus[i] = "succeeded" THEN "succeeded"
                   ELSE IF Executed(i) THEN "failed" ELSE "skipped"
BY DEF fate

(* A fatal step and an abstract step that stops the run are the same thing. *)
LEMMA StoppedIsFatal ==
  ASSUME IInv
  PROVE  \A i \in Steps :
           (fate[i] = "failed" /\ plan.onFailure[i] # "continue") <=> Fatal(i)
<1> TAKE i \in Steps
<1>1. Executed(i) => stepStatus[i] # "unset"
  <2>1. Executed(i) => i \in DOMAIN stepRuns /\ stepResults[i] = stepStatus[i]
    BY DEF IInv, TypeOK, LoopPosition, RecordsAgree, Visited
  <2> QED
    BY <2>1 DEF Executed
<1> QED
  BY <1>1, FateOf DEF Fatal

LEMMA AbstractOpen ==
  ASSUME IInv, pc \in {"loop", "finishing"}, cursor \in Steps
  PROVE  Abstract!Open(cursor)
<1>1. PICK n \in 1..MaxSteps : Steps = 1..n
  BY PlanShape DEF IInv, TypeOK
<1>2. verdict = "none"
  BY DEF verdict
<1>3. stepStatus[cursor] = "unset"
  BY <1>1 DEF IInv, TypeOK, LoopPosition, RecordsAgree
<1>4. \A i \in Steps : ~Fatal(i)
  BY DEF IInv, LoopOutcome
<1> QED
  BY <1>2, <1>3, <1>4, FateOf, StoppedIsFatal
  DEF Abstract!Open, Abstract!Stopped, Abstract!Steps, Steps

(* The steps that reach no verdict and record nothing are invisible.        *)
LEMMA FateFrame ==
  ASSUME UNCHANGED <<plan, records>>
  PROVE  fate' = fate
BY DEF fate, records, Steps, Executed

LEMMA SkipRefines == IInv /\ SkipStep => Abstract!SkipStep(cursor)
<1> SUFFICES ASSUME IInv, SkipStep PROVE Abstract!SkipStep(cursor)
  OBVIOUS
<1>1. Abstract!Open(cursor) /\ cursor \in Steps
  BY AbstractOpen DEF SkipStep
<1>2. \E d \in plan.deps[cursor] : fate[d] # "succeeded"
  BY <1>1, FateOf, DependenciesAreSteps
  DEF IInv, TypeOK, SkipStep, DependenciesSatisfied
<1>3. fate' = [fate EXCEPT ![cursor] = "skipped"]
  <2>1. ~Executed(cursor)
    BY <1>1 DEF IInv, LoopPosition, Visited, TypeOK
  <2>2. /\ stepStatus' = [stepStatus EXCEPT ![cursor] = "skipped"]
        /\ stepStatus \in [Steps -> StepStatus \cup {"unset"}]
        /\ stepResults' = stepResults /\ plan' = plan
    BY DEF SkipStep, IInv, TypeOK
  <2> QED
    BY <1>1, <2>1, <2>2 DEF fate, Steps, Executed
<1>4. UNCHANGED <<plan, verdict>>
  BY DEF SkipStep, verdict
<1> QED
  BY <1>1, <1>2, <1>3, <1>4 DEF Abstract!SkipStep

LEMMA FinishRefines == IInv /\ FinishStep => Abstract!RunStep(cursor)
<1> SUFFICES ASSUME IInv, FinishStep PROVE Abstract!RunStep(cursor)
  OBVIOUS
<1>1. /\ cursor \in Steps
      /\ Abstract!Open(cursor)
      /\ result \in ExecutorStatus
      /\ DependenciesSatisfied(cursor)
  BY AbstractOpen DEF FinishStep, IInv, LoopPosition
<1>2. \A d \in plan.deps[cursor] : fate[d] = "succeeded"
  BY <1>1, FateOf, DependenciesAreSteps DEF IInv, TypeOK, DependenciesSatisfied
<1>3. fate' = [fate EXCEPT ![cursor] = IF result = "succeeded" THEN "succeeded" ELSE "failed"]
  <2> DEFINE settled == SettledStatus(cursor, result)
  <2>1. /\ settled # "unset"
        /\ settled = "succeeded" <=> result = "succeeded"
    BY <1>1 DEF SettledStatus, AwaitsReplan, StopsRun, ExecutorStatus
  <2>2. /\ stepStatus'  = [stepStatus EXCEPT ![cursor] = settled]
        /\ stepResults' = [stepResults EXCEPT ![cursor] = settled]
        /\ stepStatus  \in [Steps -> StepStatus \cup {"unset"}]
        /\ stepResults \in [Steps -> StepStatus \cup {"unset"}]
        /\ plan' = plan
    BY DEF FinishStep, IInv, TypeOK
  <2> HIDE DEF settled
  <2> QED
    BY <1>1, <2>1, <2>2 DEF fate, Steps, Executed
<1>4. UNCHANGED <<plan, verdict>>
  BY DEF FinishStep, verdict
<1> QED
  BY <1>1, <1>2, <1>3, <1>4 DEF Abstract!RunStep

LEMMA ReturnRefines == IInv /\ RecordSummary => Abstract!Conclude \/ Abstract!Raise
<1> SUFFICES ASSUME IInv, RecordSummary PROVE Abstract!Conclude \/ Abstract!Raise
  OBVIOUS
<1>1. UNCHANGED <<plan, fate>> /\ verdict = "none"
  BY FateFrame DEF RecordSummary, verdict, records
<1>2. CASE pc' = "raised"
  BY <1>1, <1>2 DEF verdict, Abstract!Raise
<1>3. CASE pc' = "returned"
  <2>1. verdict' = runStatus
    BY <1>3 DEF RecordSummary, verdict
  <2>2. CASE \A i \in Steps : ~Fatal(i)
    <3>1. runStatus = "succeeded" /\ Steps \subseteq Visited
      BY <2>2 DEF IInv, LoopOutcome, RecordSummary
    <3>2. PICK n \in 1..MaxSteps : Steps = 1..n
      BY PlanShape DEF IInv, TypeOK
    <3>3. \A i \in Steps : stepStatus[i] # "unset"
      BY <3>1, <3>2 DEF IInv, TypeOK, RecordsAgree, Visited
    <3> QED
      BY <1>1, <2>1, <2>2, <3>1, <3>3, FateOf, StoppedIsFatal
      DEF Abstract!Conclude, Abstract!Stopped, Abstract!Steps, Steps
  <2>3. CASE \E i \in Steps : Fatal(i)
    <3> DEFINE last == Len(stepRuns)
    <3>1. /\ last \in Steps
          /\ Fatal(last)
          /\ runStatus = Abstract!VerdictOn(last)
      BY <2>3 DEF IInv, LoopOutcome, RecordSummary, Abstract!VerdictOn
    <3> QED
      BY <1>1, <2>1, <3>1, StoppedIsFatal DEF Abstract!Conclude, Abstract!Steps, Steps
  <2> QED
    BY <2>2, <2>3
<1> QED
  BY <1>2, <1>3 DEF RecordSummary

LEMMA RaiseRefines == UnsupportedKind \/ StepPersistFails => Abstract!Raise
BY FateFrame DEF UnsupportedKind, StepPersistFails, verdict, Abstract!Raise, records

LEMMA InvisibleSteps ==
  ASSUME StartStep \/ ExecutorReturns \/ ExecutorRaises \/ LoopEnds \/ UNCHANGED vars
  PROVE  UNCHANGED Abstract!vars
<1>1. UNCHANGED <<plan, records>>
  BY DEF StartStep, ExecutorReturns, ExecutorRaises, LoopEnds, vars, records
<1>2. fate' = fate
  BY <1>1, FateFrame
<1>3. verdict' = verdict
  BY DEF StartStep, ExecutorReturns, ExecutorRaises, LoopEnds, vars, verdict
<1> QED
  BY <1>1, <1>2, <1>3 DEF Abstract!vars

(* The interpreter implements the abstract run: every step of the code is a *)
(* step of the promise or invisible to it.                                  *)
THEOREM Refinement == Spec => ImplementsDependencyRun
<1>1. Init => Abstract!Init
  BY DEF Init, Abstract!Init, fate, verdict, Steps
<1>2. IInv /\ [Next]_vars => [Abstract!Next]_(Abstract!vars)
  <2> SUFFICES ASSUME IInv, [Next]_vars PROVE [Abstract!Next]_(Abstract!vars)
    OBVIOUS
  <2>1. SkipStep \/ FinishStep => Abstract!Next
    <3>1. SkipStep \/ FinishStep => cursor \in Steps
      BY DEF SkipStep, FinishStep, IInv, LoopPosition
    <3> QED
      BY <3>1, SkipRefines, FinishRefines DEF Abstract!Next, Abstract!Steps, Steps
  <2>2. RecordSummary \/ UnsupportedKind \/ StepPersistFails => Abstract!Next
    BY ReturnRefines, RaiseRefines DEF Abstract!Next
  <2>3. StartStep \/ ExecutorReturns \/ ExecutorRaises \/ LoopEnds \/ Done \/ UNCHANGED vars
          => UNCHANGED Abstract!vars
    BY InvisibleSteps DEF Done
  <2> QED
    BY <2>1, <2>2, <2>3 DEF Next, EngineStep
<1> QED
  BY <1>1, <1>2, InductiveInvariant, PTL DEF Spec, ImplementsDependencyRun, Abstract!Spec
=============================================================================
