--------------------------- MODULE AgentLoopProofs ---------------------------
(****************************************************************************)
(* Proofs about the agent loop, for every registry, set of drafts, requests *)
(* and validators, and any number of passes. The argument: what a node may  *)
(* rely on is what the nodes before it on its path have left in the state,  *)
(* so the inductive invariant says, for each stretch of the path, what the  *)
(* state dictionary holds there.                                            *)
(****************************************************************************)
EXTENDS AgentLoop, FiniteSetTheorems, TLAPS

(* What the validator's verdict amounts to, clause by clause.               *)
Sound(p, validator) ==
  /\ Cardinality(Positions(p.draft)) \in 1..validator.maxSteps
  /\ \A i, j \in Positions(p.draft) : p.draft.id[i] = p.draft.id[j] => i = j
  /\ \A i \in Positions(p.draft) :
       /\ p.draft.deps[i] \subseteq {p.draft.id[j] : j \in Positions(p.draft)}
       /\ \E c \in Registry :
            /\ c.kind = p.draft.kind[i]
            /\ \/ p.digest[c].status = "enabled" /\ p.draft.inputsFit[i]
               \/ p.digest[c].status = "deprecated" /\ validator.allowDeprecated

BeforeRun ==
  {"interaction_decision", "env_init", "capability_resolve", "plan", "finalize", "validate",
   "preflight", "execute", "replan_returned"}

(* What the nodes from plan to report find in the dictionary.               *)
PlanInHand ==
  /\ node \in {"plan", "finalize"} => state.snapshot \in Snapshots
  /\ node = "finalize" => state.draft \in Drafts
  /\ node \in {"validate", "preflight", "execute", "running", "task_check", "report"} =>
       /\ state.plan \in FinalPlans
       /\ runtime.pinned = None => state.plan.digest = Digest(state.snapshot)

(* What lies between a draft and its run.                                   *)
Admission ==
  /\ node \in {"preflight", "execute", "running"} => Sound(state.plan, runtime.validator)
  /\ node \in {"execute", "running"} =>
       \A i \in Positions(state.plan.draft) : state.plan.draft.kind[i] \in ExecutorKinds
  /\ node = "running" => runPlan = Positional(state.plan.draft)

(* Run and plan ids grow along the runs, and the next ones are larger.      *)
Numbering ==
  /\ \A i \in 1..Len(runs) : runs[i].run <= state.iteration /\ runs[i].plan <= planned
  /\ \A i, j \in 1..Len(runs) : i < j => runs[i].run < runs[j].run /\ runs[i].plan < runs[j].plan
  /\ node \in BeforeRun => \A i \in 1..Len(runs) : runs[i].run < state.iteration
  /\ node \in {"validate", "preflight", "execute"} =>
       /\ state.plan.id = planned
       /\ \A i \in 1..Len(runs) : runs[i].plan < planned
  /\ node = "replan_context" => state.iteration < MaxIteration

(* From the start of a run to the report the last entry of runs is the one  *)
(* in hand; a report exists only at the end.                                *)
RunInHand ==
  /\ node \in {"running", "task_check", "report"} =>
       /\ runs # <<>>
       /\ runs[Len(runs)] = [run    |-> state.iteration,
                             plan   |-> state.plan.id,
                             digest |-> state.plan.digest]
  /\ node \in {"task_check", "report"} => state.run = state.iteration
  /\ node = "report" => state.route = "end"
  /\ state.report # None => node = "end"
  /\ ReportTellsOneStory

(* No session is open yet where an answer or a refusal can be decided.      *)
Sessions ==
  /\ node \in {"interaction_decision", "env_init", "direct_return", "refuse_return"} => opened = 0
  /\ state.status \in {"returned", "refused"} => node = "end"
  /\ AnsweringTouchesNothing

IInv == TypeOK /\ PlanInHand /\ Admission /\ Numbering /\ RunInHand /\ Sessions

-----------------------------------------------------------------------------
(* The pure part: what the panel and the validator return.                  *)

(* A snapshot has a status for every registered capability.                 *)
LEMMA SnapshotType == \A r : Snapshot(r) \in Snapshots
<1> SUFFICES ASSUME NEW r, NEW c \in Registry
             PROVE  Availability(c, r) \in
                      [status : Statuses, reason : DOMAIN StatusOn,
                       missing : SUBSET UNION {d.needs : d \in Registry}]
    BY DEF Snapshot, Snapshots
<1>1. Objection(c, r) \in DOMAIN StatusOn
    BY DEF Objection, StatusOn
<1>2. \A o \in DOMAIN StatusOn : StatusOn[o] \in Statuses
    BY DEF StatusOn, Statuses
<1>3. Missing(c, r) \subseteq UNION {d.needs : d \in Registry}
    BY DEF Missing
<1> QED
    BY <1>1, <1>2, <1>3 DEF Availability

(* The steps of a draft are a list.                                         *)
LEMMA DraftShape ==
  ASSUME NEW d \in Drafts
  PROVE  /\ Cardinality(Positions(d)) \in Nat
         /\ Positions(d) = 1..Cardinality(Positions(d))
         /\ IsFiniteSet(Positions(d))
         /\ Positions(d) = {} <=> Cardinality(Positions(d)) = 0
<1>1. IsFiniteSet(Positions(d)) /\ Positions(d) = 1..Cardinality(Positions(d))
    BY DraftsAssumption DEF Positions
<1>2. Cardinality(Positions(d)) \in Nat
    BY <1>1, FS_CardinalityType
<1> QED
    BY <1>1, <1>2

(* A plan that passes the validator is sound, whichever options it has.     *)
LEMMA PassesIsSound ==
  ASSUME NEW p \in FinalPlans, NEW snapshot, NEW v \in Validators,
         Passes(p, snapshot, v)
  PROVE  Sound(p, v)
<1> DEFINE d == p.draft
<1>1. d \in Drafts
    BY DEF FinalPlans
<1>2. "error" \notin Issues(p, snapshot, v)
    BY DEF Passes
<1>3. Positions(d) # {}
    BY <1>2 DEF Issues, Error
<1>4. /\ "error" \notin Error(Cardinality(Positions(d)) > v.maxSteps)
      /\ "error" \notin IdIssues(d)
      /\ "error" \notin DigestIssues(p, snapshot)
      /\ \A i \in Positions(d) : /\ "error" \notin StepBaseIssues(d, i, v)
                                 /\ "error" \notin StepCapabilityIssues(d, i, snapshot, v)
    BY <1>2, <1>3, Zenon DEF Issues
<1>5. Cardinality(Positions(d)) \in 1..v.maxSteps
    BY <1>1, <1>3, <1>4, DraftShape, BoundsAssumption DEF Error
<1>6. \A i, j \in Positions(d) : d.id[i] = d.id[j] => i = j
    BY <1>4 DEF IdIssues, Error
<1>7. p.digest = snapshot
    BY <1>4 DEF DigestIssues, Digest, Error
<1>8. ASSUME NEW i \in Positions(d)
      PROVE  d.deps[i] \subseteq {d.id[j] : j \in Positions(d)}
    BY <1>4, <1>8 DEF StepBaseIssues, Error
<1>9. ASSUME NEW i \in Positions(d)
      PROVE  \E c \in Registry :
               /\ c.kind = d.kind[i]
               /\ \/ p.digest[c].status = "enabled" /\ d.inputsFit[i]
                  \/ p.digest[c].status = "deprecated" /\ v.allowDeprecated
  <2>1. PICK c \in Registry : c.kind = d.kind[i]
      BY <1>4, <1>9 DEF StepCapabilityIssues, Error
  <2>2. "error" \notin (IF snapshot[c].status # "enabled"
                        THEN SeverityIf(~(snapshot[c].status = "deprecated" /\ v.allowDeprecated), TRUE)
                        ELSE Error(~d.inputsFit[i])
                             \cup RequiredCapabilityIssues(d, i, c, snapshot, v))
    <3>1. c \in {e \in Registry : e.kind = d.kind[i]}
        BY <2>1
    <3>2. "error" \notin StepCapabilityIssues(d, i, snapshot, v)
        BY <1>4, <1>9
    <3> HIDE DEF d
    <3> QED
        BY <3>1, <3>2, Zenon DEF StepCapabilityIssues
  <2>3. CASE snapshot[c].status = "enabled"
      BY <1>7, <2>1, <2>2, <2>3 DEF Error
  <2>4. CASE snapshot[c].status # "enabled"
      BY <1>7, <2>1, <2>2, <2>4 DEF SeverityIf, Error
  <2> QED
      BY <2>3, <2>4
<1> QED
    BY <1>5, <1>6, <1>8, <1>9 DEF Sound

-----------------------------------------------------------------------------
(* The invariant, action by action.                                         *)

(* Initially nothing is in the dictionary and nothing has been run.         *)
LEMMA InitInv == Init => IInv
<1> SUFFICES ASSUME Init PROVE IInv
    OBVIOUS
<1>1. TypeOK
    BY BoundsAssumption DEF Init, TypeOK, Nodes, StateType, Optional, Engine!Verdicts
<1>2. PlanInHand /\ Admission /\ Numbering /\ RunInHand /\ Sessions
    BY NoneAssumption DEF Init, LoopStatus, PlanInHand, Admission, Numbering, RunInHand, Sessions, ReportTellsOneStory,
           AnsweringTouchesNothing
<1> QED
    BY <1>1, <1>2 DEF IInv

(* The routes, each as the set of nodes it can lead to.                     *)
LEMMA Routing ==
  /\ \A m \in Modes : AfterInteraction(m) \in
       {"env_init", "direct_return", "refuse_return", "human_interrupt", "fail"}
  /\ \A r \in Routes :
       /\ AfterTaskCheck(r) \in {"report", "replan_context", "human_interrupt", "fail"}
       /\ AfterTaskCheck(r) = "report" => r = "end"
       /\ AfterTaskCheck(r) = "replan_context" => r = "replan"
  /\ \A n \in Terminal :
       /\ StatusAt(n) \in LoopStatus
       /\ StatusAt(n) = "returned" => n = "direct_return"
       /\ StatusAt(n) = "refused" => n = "refuse_return"
       /\ StatusAt(n) = "succeeded" <=> n = "report"
  BY DEF Modes, Routes, Terminal, LoopStatus, AfterInteraction, AfterTaskCheck, StatusAt

(* What the entries of runs are.                                            *)
LEMMA RunEntries ==
  IInv => \A i \in 1..Len(runs) : runs[i].run \in Nat /\ runs[i].plan \in Nat
<1> DEFINE Entry == [run : Nat, plan : Nat, digest : Snapshots]
<1> SUFFICES ASSUME IInv, NEW i \in 1..Len(runs)
             PROVE  runs[i].run \in Nat /\ runs[i].plan \in Nat
    OBVIOUS
<1>1. runs \in Seq(Entry)
    BY DEF IInv, TypeOK
<1>2. runs[i] \in Entry
  <2> HIDE DEF Entry
  <2> QED
      BY <1>1
<1> QED
    BY <1>2

(* Nodes that only decide, open the session or resolve the capabilities.    *)
LEMMA DecideInv == IInv /\ Decide => IInv'
<1> SUFFICES ASSUME IInv, Decide PROVE IInv'
    OBVIOUS
<1> USE DEF At, Goto, fixed, engineVars
<1>0. PICK m \in Modes : state' = [state EXCEPT !.mode = m] /\ node' = AfterInteraction(m)
    BY DEF Decide
<1>1. node' \in {"env_init", "direct_return", "refuse_return", "human_interrupt", "fail"}
    BY <1>0, Routing
<1>2. TypeOK'
    BY <1>0, <1>1 DEF IInv, Decide, TypeOK, Nodes, Terminal, StateType, Optional
<1>3. (PlanInHand /\ Admission)'
    BY <1>0, <1>1 DEF IInv, Decide, PlanInHand, Admission
<1>4. Numbering'
    BY <1>0, <1>1 DEF IInv, Decide, Numbering, BeforeRun, TypeOK, StateType
<1>5. RunInHand'
    BY <1>0, <1>1 DEF IInv, Decide, RunInHand, ReportTellsOneStory, TypeOK, StateType
<1>6. Sessions'
    BY <1>0, <1>1 DEF IInv, Decide, Sessions, AnsweringTouchesNothing, RunInHand, TypeOK, StateType
<1> QED
    BY <1>2, <1>3, <1>4, <1>5, <1>6 DEF IInv

LEMMA EnvInitInv == IInv /\ EnvInit => IInv'
<1> SUFFICES ASSUME IInv, EnvInit PROVE IInv'
    OBVIOUS
<1> USE DEF At, Goto, fixed, engineVars
<1>0. /\ state' = [state EXCEPT !.status = "env_initialized"]
      /\ "env_initialized" \in LoopStatus
      /\ opened' \in 0..1
    BY DEF IInv, Sessions, EnvInit, LoopStatus
<1>1. TypeOK'
  <2>1. state' \in StateType
      BY <1>0 DEF IInv, TypeOK, StateType, Optional
  <2> QED
      BY <1>0, <2>1 DEF IInv, EnvInit, TypeOK, Nodes
<1>2. (PlanInHand /\ Admission)'
    BY DEF IInv, EnvInit, PlanInHand, Admission
<1>3. Numbering'
    BY DEF IInv, EnvInit, Numbering, BeforeRun, TypeOK, StateType
<1>4. RunInHand'
    BY DEF IInv, EnvInit, RunInHand, ReportTellsOneStory, TypeOK, StateType
<1>5. Sessions'
    BY DEF IInv, EnvInit, Sessions, AnsweringTouchesNothing, RunInHand, TypeOK, StateType
<1> QED
    BY <1>1, <1>2, <1>3, <1>4, <1>5 DEF IInv

LEMMA CapabilityResolveInv == IInv /\ CapabilityResolve => IInv'
<1> SUFFICES ASSUME IInv, CapabilityResolve PROVE IInv'
    OBVIOUS
<1> USE DEF At, Goto, fixed, engineVars
<1>0. PICK s \in Snapshots : state' = [state EXCEPT !.snapshot = s]
    BY SnapshotType DEF CapabilityResolve
<1>1. TypeOK'
    BY <1>0 DEF IInv, CapabilityResolve, TypeOK, Nodes, StateType, Optional
<1>2. (PlanInHand /\ Admission)'
    BY <1>0 DEF IInv, CapabilityResolve, PlanInHand, Admission, TypeOK, StateType
<1>3. Numbering'
    BY <1>0 DEF IInv, CapabilityResolve, Numbering, BeforeRun, TypeOK, StateType
<1>4. RunInHand'
    BY <1>0 DEF IInv, CapabilityResolve, RunInHand, ReportTellsOneStory, TypeOK, StateType
<1>5. Sessions'
    BY <1>0 DEF IInv, CapabilityResolve, Sessions, AnsweringTouchesNothing, RunInHand, TypeOK, StateType
<1> QED
    BY <1>1, <1>2, <1>3, <1>4, <1>5 DEF IInv

(* Planning, finalizing and the two checks.                                 *)
LEMMA PlanInv == IInv /\ Plan => IInv'
<1> SUFFICES ASSUME IInv, Plan PROVE IInv'
    OBVIOUS
<1> USE DEF At, Goto, fixed, engineVars
<1>0. PICK d \in Drafts : state' = [state EXCEPT !.draft = d]
    BY DEF Plan
<1>1. TypeOK'
    BY <1>0 DEF IInv, Plan, TypeOK, Nodes, StateType, Optional
<1>2. (PlanInHand /\ Admission)'
    BY <1>0 DEF IInv, Plan, PlanInHand, Admission, TypeOK, StateType
<1>3. Numbering'
    BY <1>0 DEF IInv, Plan, Numbering, BeforeRun, TypeOK, StateType
<1>4. RunInHand'
    BY <1>0 DEF IInv, Plan, RunInHand, ReportTellsOneStory, TypeOK, StateType
<1>5. Sessions'
    BY <1>0 DEF IInv, Plan, Sessions, AnsweringTouchesNothing, RunInHand, TypeOK, StateType
<1> QED
    BY <1>1, <1>2, <1>3, <1>4, <1>5 DEF IInv

LEMMA FinalizeInv == IInv /\ Finalize => IInv'
<1> SUFFICES ASSUME IInv, Finalize PROVE IInv'
    OBVIOUS
<1> USE DEF At, Goto, fixed, engineVars
<1> DEFINE final == [id |-> planned + 1, draft |-> state.draft, digest |-> Digest(BindingSnapshot)]
<1>0. /\ state' = [state EXCEPT !.plan = final]
      /\ final \in FinalPlans
      /\ final.id = planned + 1
      /\ runtime.pinned = None => final.digest = Digest(state.snapshot)
    BY SnapshotType DEF IInv, Finalize, TypeOK, PlanInHand, FinalPlans, Digest, BindingSnapshot
<1> HIDE DEF final
<1>1. TypeOK'
    BY <1>0 DEF IInv, Finalize, TypeOK, Nodes, StateType, Optional
<1>2. (PlanInHand /\ Admission)'
    BY <1>0 DEF IInv, Finalize, PlanInHand, Admission, TypeOK, StateType, Digest
<1>3. Numbering'
  <2>1. /\ runs' = runs /\ planned' = planned + 1 /\ planned \in Nat
        /\ state'.iteration = state.iteration /\ state'.plan.id = planned'
        /\ node = "finalize" /\ node' = "validate"
      BY <1>0 DEF IInv, Finalize, TypeOK, StateType
  <2>2. \A i \in 1..Len(runs) : runs[i].plan \in Nat
      BY RunEntries
  <2> QED
      BY <2>1, <2>2 DEF IInv, Numbering, BeforeRun
<1>4. RunInHand'
    BY <1>0 DEF IInv, Finalize, RunInHand, ReportTellsOneStory, TypeOK, StateType
<1>5. Sessions'
    BY <1>0 DEF IInv, Finalize, Sessions, AnsweringTouchesNothing, RunInHand, TypeOK, StateType
<1> QED
    BY <1>1, <1>2, <1>3, <1>4, <1>5 DEF IInv

LEMMA ValidateInv == IInv /\ Validate => IInv'
<1> SUFFICES ASSUME IInv, Validate PROVE IInv'
    OBVIOUS
<1> USE DEF At, Goto, fixed, engineVars
<1> DEFINE passed == Passes(state.plan, BindingSnapshot, runtime.validator)
<1>0. /\ state' = [state EXCEPT !.validation = passed]
      /\ passed \in BOOLEAN
      /\ node' = IF passed THEN "preflight" ELSE "fail"
    BY DEF Validate, AfterValidate, Passes
<1>1. passed => Sound(state.plan, runtime.validator)
    BY PassesIsSound DEF IInv, Validate, TypeOK, PlanInHand
<1> HIDE DEF passed
<1>2. TypeOK'
    BY <1>0 DEF IInv, Validate, TypeOK, Nodes, Terminal, StateType, Optional
<1>3. (PlanInHand /\ Admission)'
    BY <1>0, <1>1 DEF IInv, Validate, PlanInHand, Admission, TypeOK, StateType
<1>4. Numbering'
    BY <1>0 DEF IInv, Validate, Numbering, BeforeRun, TypeOK, StateType
<1>5. RunInHand'
    BY <1>0 DEF IInv, Validate, RunInHand, ReportTellsOneStory, TypeOK, StateType
<1>6. Sessions'
    BY <1>0 DEF IInv, Validate, Sessions, AnsweringTouchesNothing, RunInHand, TypeOK, StateType
<1> QED
    BY <1>2, <1>3, <1>4, <1>5, <1>6 DEF IInv

LEMMA PreflightInv == IInv /\ Preflight => IInv'
<1> SUFFICES ASSUME IInv, Preflight PROVE IInv'
    OBVIOUS
<1> USE DEF At, Goto, fixed, engineVars
<1> DEFINE passed == PreflightPasses(state.plan.draft, IF runtime.controller THEN Operators ELSE {})
<1>0. /\ state' = [state EXCEPT !.preflight = passed]
      /\ passed \in BOOLEAN
      /\ node' = IF passed THEN "execute" ELSE "fail"
    BY DEF Preflight, AfterPreflight, PreflightPasses
<1>1. passed => \A i \in Positions(state.plan.draft) : state.plan.draft.kind[i] \in ExecutorKinds
    BY DEF PreflightPasses
<1> HIDE DEF passed
<1>2. TypeOK'
  <2>1. node' \in Nodes
      BY <1>0 DEF Nodes, Terminal
  <2>2. state' \in StateType
      BY <1>0 DEF IInv, TypeOK, StateType, Optional
  <2> QED
      BY <2>1, <2>2 DEF IInv, Preflight, TypeOK
<1>3. (PlanInHand /\ Admission)'
    BY <1>0, <1>1 DEF IInv, Preflight, PlanInHand, Admission, TypeOK, StateType
<1>4. Numbering'
    BY <1>0 DEF IInv, Preflight, Numbering, BeforeRun, TypeOK, StateType
<1>5. RunInHand'
    BY <1>0 DEF IInv, Preflight, RunInHand, ReportTellsOneStory, TypeOK, StateType
<1>6. Sessions'
    BY <1>0 DEF IInv, Preflight, Sessions, AnsweringTouchesNothing, RunInHand, TypeOK, StateType
<1> QED
    BY <1>2, <1>3, <1>4, <1>5, <1>6 DEF IInv

(* Executing: the run is entered in runs with the ids in hand.              *)
LEMMA ExecuteInv == IInv /\ Execute => IInv'
<1> SUFFICES ASSUME IInv, Execute PROVE IInv'
    OBVIOUS
<1> USE DEF At, Goto, fixed, engineVars
<1> DEFINE entry == [run |-> state.iteration, plan |-> state.plan.id, digest |-> state.plan.digest]
<1>0. /\ runs' = Append(runs, entry)
      /\ entry.run = state.iteration /\ entry.plan = planned
      /\ runs \in Seq([run : Nat, plan : Nat, digest : Snapshots])
      /\ entry \in [run : Nat, plan : Nat, digest : Snapshots]
    BY BoundsAssumption DEF IInv, Execute, TypeOK, PlanInHand, Numbering, StateType, FinalPlans
<1>1. /\ runs' \in Seq([run : Nat, plan : Nat, digest : Snapshots])
      /\ Len(runs') = Len(runs) + 1 /\ Len(runs) \in Nat
      /\ runs' # <<>>
      /\ runs'[Len(runs')] = entry
      /\ \A i \in 1..Len(runs) : runs'[i] = runs[i]
  <2> HIDE DEF entry
  <2> QED
      BY <1>0
<1>2. TypeOK'
  <2>1. DOMAIN fate' = DOMAIN runPlan'.deps
      BY DEF Execute, Positional
  <2>2. \A i \in DOMAIN fate' : fate'[i] \in Engine!Fates
      BY DEF Execute, Engine!Fates
  <2>3. verdict' \in Engine!Verdicts /\ node' \in Nodes
      BY DEF Execute, Engine!Verdicts, Nodes
  <2> QED
      BY <1>1, <2>1, <2>2, <2>3 DEF IInv, Execute, TypeOK
<1>3. (PlanInHand /\ Admission)'
    BY DEF IInv, Execute, PlanInHand, Admission
<1>4. Numbering'
  <2>1. /\ state' = state /\ planned' = planned /\ node = "execute" /\ node' = "running"
        /\ state.iteration \in Nat /\ planned \in Nat
      BY BoundsAssumption DEF IInv, Execute, TypeOK, StateType
  <2>2. \A i \in 1..Len(runs) : /\ runs[i].run \in Nat /\ runs[i].plan \in Nat
                               /\ runs[i].run < state.iteration /\ runs[i].plan < planned
      BY <2>1, RunEntries DEF IInv, Numbering, BeforeRun
  <2>3. \A i \in 1..Len(runs') :
          \/ i = Len(runs') /\ runs'[i].run = state.iteration /\ runs'[i].plan = planned
          \/ i \in 1..Len(runs) /\ runs'[i] = runs[i]
    <3> HIDE DEF entry
    <3> QED
        BY <1>0, <1>1
  <2>4. \A i, j \in 1..Len(runs) : i < j => runs[i].run < runs[j].run /\ runs[i].plan < runs[j].plan
      BY DEF IInv, Numbering
  <2>5. \A i \in 1..Len(runs') : runs'[i].run <= state.iteration /\ runs'[i].plan <= planned
      BY <2>1, <2>2, <2>3
  <2>6. ASSUME NEW i \in 1..Len(runs'), NEW j \in 1..Len(runs'), i < j
        PROVE  runs'[i].run < runs'[j].run /\ runs'[i].plan < runs'[j].plan
    <3>1. i \in 1..Len(runs) /\ runs'[i] = runs[i]
        BY <1>1, <2>3, <2>6
    <3>2. CASE j = Len(runs') /\ runs'[j].run = state.iteration /\ runs'[j].plan = planned
        BY <3>1, <3>2, <2>2
    <3>3. CASE j \in 1..Len(runs) /\ runs'[j] = runs[j]
        BY <3>1, <3>3, <2>4, <2>6
    <3> QED
        BY <2>3, <3>2, <3>3
  <2> QED
      BY <2>1, <2>5, <2>6 DEF Numbering, BeforeRun
<1>5. RunInHand'
    BY <1>1 DEF IInv, Execute, RunInHand, ReportTellsOneStory
<1>6. Sessions'
    BY DEF IInv, Execute, Sessions, AnsweringTouchesNothing
<1> QED
    BY <1>2, <1>3, <1>4, <1>5, <1>6 DEF IInv

(* The engine touches only its own variables.                               *)
LEMMA EngineRunsInv == IInv /\ EngineRuns => IInv'
<1> SUFFICES ASSUME IInv, EngineRuns PROVE IInv'
    OBVIOUS
<1> USE DEF At, Goto, fixed, engineVars
<1>1. /\ runPlan' = runPlan
      /\ DOMAIN fate' = DOMAIN fate
      /\ \A i \in DOMAIN fate' : fate'[i] \in Engine!Fates
      /\ verdict' \in Engine!Verdicts
  <2>1. CASE \E i \in Engine!Steps : Engine!RunStep(i) \/ Engine!SkipStep(i)
      BY <2>1 DEF IInv, TypeOK, Engine!RunStep, Engine!SkipStep, Engine!Fates
  <2>2. CASE Engine!Conclude
      BY <2>2 DEF IInv, TypeOK, Engine!Conclude, Engine!VerdictOn, Engine!Verdicts
  <2>3. CASE Engine!Raise
      BY <2>3 DEF IInv, TypeOK, Engine!Raise, Engine!Verdicts
  <2> QED
      BY <2>1, <2>2, <2>3 DEF EngineRuns, Engine!Next
<1>2. TypeOK'
    BY <1>1 DEF IInv, EngineRuns, TypeOK
<1>3. (PlanInHand /\ Admission /\ Numbering)'
    BY <1>1 DEF IInv, EngineRuns, PlanInHand, Admission, Numbering
<1>4. (RunInHand /\ Sessions)'
    BY <1>1 DEF IInv, EngineRuns, RunInHand, Sessions, ReportTellsOneStory, AnsweringTouchesNothing
<1> QED
    BY <1>2, <1>3, <1>4 DEF IInv

LEMMA ExecuteReturnsInv == IInv /\ ExecuteReturns => IInv'
<1> SUFFICES ASSUME IInv, ExecuteReturns PROVE IInv'
    OBVIOUS
<1> USE DEF At, Goto, fixed, engineVars
<1>0. state' = [state EXCEPT !.run = state.iteration, !.execution = verdict]
    BY DEF ExecuteReturns
<1>1. state.iteration \in Nat /\ verdict \in Engine!Verdicts
    BY BoundsAssumption DEF IInv, TypeOK, StateType
<1>2. TypeOK'
  <2>1. state' \in StateType
      BY <1>0, <1>1 DEF IInv, TypeOK, StateType, Optional
  <2> QED
      BY <2>1 DEF IInv, ExecuteReturns, TypeOK, Nodes
<1>3. (PlanInHand /\ Admission)'
    BY <1>0 DEF IInv, ExecuteReturns, PlanInHand, Admission, TypeOK, StateType
<1>4. Numbering'
    BY <1>0 DEF IInv, ExecuteReturns, Numbering, BeforeRun, TypeOK, StateType
<1>5. RunInHand'
    BY <1>0 DEF IInv, ExecuteReturns, RunInHand, ReportTellsOneStory, TypeOK, StateType
<1>6. Sessions'
    BY <1>0 DEF IInv, ExecuteReturns, Sessions, AnsweringTouchesNothing, RunInHand, TypeOK, StateType
<1> QED
    BY <1>2, <1>3, <1>4, <1>5, <1>6 DEF IInv

(* After the run: the check, another pass, or the end.                      *)
LEMMA TaskCheckInv == IInv /\ TaskCheck => IInv'
<1> SUFFICES ASSUME IInv, TaskCheck PROVE IInv'
    OBVIOUS
<1> USE DEF At, Goto, fixed, engineVars
<1>0. PICK r \in Routes : /\ r = "replan" => state.iteration < MaxIteration
                          /\ state' = [state EXCEPT !.route = r]
                          /\ node' = AfterTaskCheck(r)
    BY DEF TaskCheck
<1>1. /\ node' \in {"report", "replan_context", "human_interrupt", "fail"}
      /\ node' = "report" => r = "end"
      /\ node' = "replan_context" => state.iteration < MaxIteration
    BY <1>0, Routing
<1>2. TypeOK'
  <2>1. node' \in Nodes
      BY <1>1 DEF Nodes, Terminal
  <2>2. state' \in StateType
      BY <1>0 DEF IInv, TypeOK, StateType, Optional
  <2> QED
      BY <2>1, <2>2 DEF IInv, TaskCheck, TypeOK
<1>3. (PlanInHand /\ Admission)'
    BY <1>0, <1>1 DEF IInv, TaskCheck, PlanInHand, Admission, TypeOK, StateType
<1>4. Numbering'
    BY <1>0, <1>1 DEF IInv, TaskCheck, Numbering, BeforeRun, TypeOK, StateType
<1>5. RunInHand'
    BY <1>0, <1>1 DEF IInv, TaskCheck, RunInHand, ReportTellsOneStory, TypeOK, StateType
<1>6. Sessions'
    BY <1>0, <1>1 DEF IInv, TaskCheck, Sessions, AnsweringTouchesNothing, RunInHand, TypeOK, StateType
<1> QED
    BY <1>2, <1>3, <1>4, <1>5, <1>6 DEF IInv

LEMMA ReplanContextInv == IInv /\ ReplanContext => IInv'
<1> SUFFICES ASSUME IInv, ReplanContext PROVE IInv'
    OBVIOUS
<1> USE DEF At, Goto, fixed, engineVars
<1>0. /\ state' = [state EXCEPT !.iteration = state.iteration + 1]
      /\ state.iteration \in Nat
      /\ state.iteration + 1 \in 0..MaxIteration
      /\ node' \in {"capability_resolve", "replan_returned"}
    BY BoundsAssumption DEF IInv, ReplanContext, TypeOK, Numbering, StateType
<1>2. TypeOK'
  <2>1. state' \in StateType
      BY <1>0 DEF IInv, TypeOK, StateType
  <2> QED
      BY <1>0, <2>1 DEF IInv, ReplanContext, TypeOK, Nodes, Ends
<1>3. (PlanInHand /\ Admission)'
    BY <1>0 DEF IInv, ReplanContext, PlanInHand, Admission
<1>4. Numbering'
  <2>1. /\ runs' = runs /\ planned' = planned
        /\ state'.iteration = state.iteration + 1
        /\ node' \notin {"validate", "preflight", "execute", "replan_context"}
      BY <1>0 DEF IInv, ReplanContext, TypeOK, StateType
  <2>2. \A i \in 1..Len(runs) : runs[i].run \in Nat
      BY RunEntries
  <2> QED
      BY <1>0, <2>1, <2>2 DEF IInv, Numbering
<1>5. RunInHand'
    BY <1>0 DEF IInv, ReplanContext, RunInHand, ReportTellsOneStory, TypeOK, StateType
<1>6. Sessions'
    BY <1>0 DEF IInv, ReplanContext, Sessions, AnsweringTouchesNothing, RunInHand, TypeOK, StateType
<1> QED
    BY <1>2, <1>3, <1>4, <1>5, <1>6 DEF IInv

LEMMA TerminateInv == IInv /\ Terminate => IInv'
<1> SUFFICES ASSUME IInv, Terminate PROVE IInv'
    OBVIOUS
<1> USE DEF At, Goto, fixed, engineVars
<1> DEFINE report == IF node = "report"
                     THEN [plan |-> state.plan.id, run |-> state.run, route |-> state.route]
                     ELSE state.report
<1>0. /\ state' = [state EXCEPT !.status = StatusAt(node), !.report = report]
      /\ node \in Terminal /\ node' = "end"
      /\ runs' = runs /\ opened' = opened /\ planned' = planned
    BY DEF Terminate
<1>1. /\ StatusAt(node) \in LoopStatus
      /\ StatusAt(node) \in {"returned", "refused"} => node \in {"direct_return", "refuse_return"}
      /\ node = "report" => StatusAt(node) = "succeeded"
    BY <1>0, Routing
<1>2. node # "report" => report = None
    BY <1>0 DEF IInv, RunInHand, Terminal
<1>3. report \in Optional([plan : Nat, run : Nat, route : Routes])
  <2>1. CASE node = "report"
    <3>1. state.plan.id \in Nat
        BY <2>1 DEF IInv, PlanInHand, FinalPlans
    <3>2. state.run \in Nat /\ state.route \in Routes
        BY <2>1, BoundsAssumption DEF IInv, RunInHand, TypeOK, StateType, Routes
    <3> QED
        BY <2>1, <3>1, <3>2 DEF Optional
  <2>2. CASE node # "report"
      BY <1>2, <2>2 DEF Optional
  <2> QED
      BY <2>1, <2>2
<1>4. TypeOK'
  <2> HIDE DEF report
  <2>1. state' \in StateType
      BY <1>0, <1>1, <1>3 DEF IInv, TypeOK, StateType, Optional
  <2> QED
      BY <1>0, <2>1 DEF IInv, Terminate, TypeOK, Nodes, Ends
<1>5. (PlanInHand /\ Admission)'
    BY <1>0 DEF IInv, PlanInHand, Admission
<1>6. /\ state'.iteration = state.iteration /\ state'.snapshot = state.snapshot
      /\ state'.status = StatusAt(node) /\ state'.report = report
  <2> HIDE DEF report
  <2> QED
      BY <1>0 DEF IInv, TypeOK, StateType
<1>7. Numbering'
    BY <1>0, <1>6 DEF IInv, Numbering, BeforeRun
<1>8. RunInHand'
  <2>1. CASE node = "report"
    <3>1. /\ runs[Len(runs)] = [run    |-> state.iteration,
                                plan   |-> state.plan.id,
                                digest |-> state.plan.digest]
          /\ state.run = state.iteration /\ state.route = "end"
          /\ runtime.pinned = None => state.plan.digest = Digest(state.snapshot)
        BY <2>1 DEF IInv, RunInHand, PlanInHand
    <3>2. runtime' = runtime
        BY DEF Terminate
    <3>3. report = [plan |-> state.plan.id, run |-> state.iteration, route |-> "end"]
        BY <2>1, <3>1
    <3> HIDE DEF report
    <3>4. ReportTellsOneStory'
        BY <1>0, <1>1, <1>6, <2>1, <3>1, <3>2, <3>3 DEF ReportTellsOneStory, Digest
    <3> QED
        BY <1>0, <3>4 DEF RunInHand
  <2>2. CASE node # "report"
    <3>1. state'.report = None
        BY <1>2, <1>6, <2>2
    <3> QED
        BY <1>0, <3>1 DEF RunInHand, ReportTellsOneStory
  <2> QED
      BY <2>1, <2>2
<1>9. Sessions'
  <2>1. CASE state'.status \in {"returned", "refused"}
    <3>1. node \in {"direct_return", "refuse_return"}
        BY <1>1, <1>6, <2>1
    <3>2. opened' = 0
        BY <1>0, <3>1 DEF IInv, Sessions
    <3>3. state'.report = None
        BY <1>2, <1>6, <3>1
    <3> QED
        BY <1>0, <3>2, <3>3 DEF Sessions, AnsweringTouchesNothing
  <2>2. CASE state'.status \notin {"returned", "refused"}
      BY <1>0, <2>2 DEF Sessions, AnsweringTouchesNothing
  <2> QED
      BY <2>1, <2>2
<1> QED
    BY <1>4, <1>5, <1>7, <1>8, <1>9 DEF IInv

(* Leaving by an exception, and calling the one-pass driver once more.      *)
LEMMA RaiseInv == IInv /\ Raise => IInv'
<1> SUFFICES ASSUME IInv, Raise PROVE IInv'
    OBVIOUS
<1> USE DEF At, Goto, fixed, engineVars
<1>0. /\ node \notin {"end"} /\ node' = "raised"
      /\ UNCHANGED <<driver, runtime, state, runPlan, fate, verdict, planned, opened, runs>>
    BY DEF Raise
<1>1. TypeOK'
    BY <1>0 DEF IInv, TypeOK, Nodes, Ends
<1>2. (PlanInHand /\ Admission /\ Numbering)'
    BY <1>0 DEF IInv, PlanInHand, Admission, Numbering, BeforeRun
<1>3. (RunInHand /\ Sessions)'
    BY <1>0 DEF IInv, RunInHand, Sessions, ReportTellsOneStory, AnsweringTouchesNothing
<1> QED
    BY <1>1, <1>2, <1>3 DEF IInv

LEMMA CallAgainInv == IInv /\ CallAgain => IInv'
<1> SUFFICES ASSUME IInv, CallAgain PROVE IInv'
    OBVIOUS
<1> USE DEF At, Goto, fixed, engineVars
<1>0. /\ node = "replan_returned" /\ node' = "interaction_decision" /\ opened' = 0
      /\ UNCHANGED <<driver, runtime, state, runPlan, fate, verdict, planned, runs>>
    BY DEF CallAgain
<1>1. TypeOK'
    BY <1>0 DEF IInv, TypeOK, Nodes
<1>2. (PlanInHand /\ Admission /\ Numbering)'
    BY <1>0 DEF IInv, PlanInHand, Admission, Numbering, BeforeRun
<1>3. (RunInHand /\ Sessions)'
    BY <1>0 DEF IInv, RunInHand, Sessions, ReportTellsOneStory, AnsweringTouchesNothing
<1> QED
    BY <1>1, <1>2, <1>3 DEF IInv

LEMMA NextInv == IInv /\ [Next]_vars => IInv'
<1>1. IInv /\ UNCHANGED vars => IInv'
    BY DEF vars, fixed, engineVars, IInv, TypeOK, PlanInHand, Admission, Numbering, RunInHand,
           Sessions, ReportTellsOneStory, AnsweringTouchesNothing
<1> QED
    BY <1>1, DecideInv, EnvInitInv, CapabilityResolveInv, PlanInv, FinalizeInv, ValidateInv,
       PreflightInv, ExecuteInv, EngineRunsInv, ExecuteReturnsInv, TaskCheckInv,
       ReplanContextInv, TerminateInv, RaiseInv, CallAgainInv DEF Next, Done

-----------------------------------------------------------------------------
(* The theorems.                                                            *)

(* Every reachable state satisfies the invariant: what a node relies on has *)
(* been left in the dictionary by the nodes before it.                      *)
THEOREM InductiveInvariant == Spec => []IInv
<1> QED
    BY InitInv, NextInv, PTL DEF Spec

(* The state dictionary and the run's records are type correct.             *)
THEOREM TypeCorrect == Spec => []TypeOK
<1>1. IInv => TypeOK
    BY DEF IInv
<1> QED
    BY <1>1, InductiveInvariant, PTL

(* For any registry, panel request, validator and planner, a step reaches   *)
(* its executor only if it was admitted against the snapshot that the       *)
(* plan's digest names (validate_node, preflight_node, execute_node).       *)
THEOREM OnlyAdmittedSteps == Spec => []StepsRunWereAdmitted
<1>1. IInv => StepsRunWereAdmitted
  <2> SUFFICES ASSUME IInv, node = "running" PROVE StepsRunWereAdmitted
      BY DEF StepsRunWereAdmitted, At
  <2>1. StepsRun \subseteq Positions(state.plan.draft)
      BY DEF IInv, TypeOK, Admission, StepsRun, Positional
  <2>2. /\ Sound(state.plan, runtime.validator)
        /\ \A i \in Positions(state.plan.draft) : state.plan.draft.kind[i] \in ExecutorKinds
      BY DEF IInv, Admission
  <2> QED
      BY <2>1, <2>2 DEF StepsRunWereAdmitted, Sound
<1> QED
    BY <1>1, InductiveInvariant, PTL

(* What execute_node hands to the engine is a plan as the engine assumes    *)
(* one: a bounded list of steps whose dependencies each name one step.      *)
THEOREM EngineInput == Spec => []EngineGetsAPlan
<1>1. IInv => EngineGetsAPlan
  <2> DEFINE d == state.plan.draft
             n == Cardinality(Positions(d))
  <2> SUFFICES ASSUME IInv, node = "running" PROVE EngineGetsAPlan
      BY DEF EngineGetsAPlan, At
  <2>1. d \in Drafts
      BY DEF IInv, PlanInHand, FinalPlans
  <2>2. Positions(d) = 1..n
      BY <2>1, DraftShape
  <2>3. n \in 1..runtime.validator.maxSteps
      BY DEF IInv, Admission, Sound
  <2>4. ASSUME NEW i \in 1..n, NEW id \in d.deps[i]
        PROVE  Cardinality({j \in runPlan.deps[i] : d.id[j] = id}) = 1
    <3>1. runPlan.deps[i] = {j \in Positions(d) : d.id[j] \in d.deps[i]}
      <4>1. runPlan = Positional(d)
          BY DEF IInv, Admission
      <4>2. i \in Positions(d)
          BY <2>2
      <4> HIDE DEF d
      <4> QED
          BY <4>1, <4>2 DEF Positional
    <3>2. PICK j \in Positions(d) : d.id[j] = id
      <4>1. d.deps[i] \subseteq {d.id[j] : j \in Positions(d)}
          BY <2>2 DEF IInv, Admission, Sound
      <4> HIDE DEF d
      <4> QED
          BY <4>1, Zenon
    <3>3. \A k \in Positions(d) : d.id[k] = id => k = j
        BY <3>2 DEF IInv, Admission, Sound
    <3>4. {k \in runPlan.deps[i] : d.id[k] = id} = {j}
      <4> HIDE DEF d
      <4> QED
          BY <3>1, <3>2, <3>3
    <3> QED
        BY <3>4, FS_Singleton
  <2> QED
      BY <2>2, <2>3, <2>4 DEF EngineGetsAPlan
<1> QED
    BY <1>1, InductiveInvariant, PTL

(* Along any number of passes and calls, no run id and no plan is used      *)
(* twice (replan_context_node counts before the next execute_node).         *)
THEOREM DistinctRuns == Spec => []RunsAreDistinct
<1>1. IInv => RunsAreDistinct
  <2> SUFFICES ASSUME IInv, NEW i \in 1..Len(runs), NEW j \in 1..Len(runs), i # j
               PROVE  runs[i].run # runs[j].run /\ runs[i].plan # runs[j].plan
      BY DEF RunsAreDistinct
  <2>1. /\ runs[i].run \in Nat /\ runs[i].plan \in Nat
        /\ runs[j].run \in Nat /\ runs[j].plan \in Nat
      BY RunEntries
  <2>2. CASE i < j
      BY <2>1, <2>2 DEF IInv, Numbering
  <2>3. CASE j < i
      BY <2>1, <2>3 DEF IInv, Numbering
  <2> QED
      BY <2>2, <2>3
<1> QED
    BY <1>1, InductiveInvariant, PTL

(* A report names the plan and the run that were executed last, in this     *)
(* pass, and the route "end" (report_node).                                 *)
THEOREM OneReport == Spec => []ReportTellsOneStory
<1>1. IInv => ReportTellsOneStory
    BY DEF IInv, RunInHand
<1> QED
    BY <1>1, InductiveInvariant, PTL

(* An answer or a refusal opens no session and follows no report            *)
(* (direct_return_node, refuse_return_node).                                *)
THEOREM AnswersTouchNothing == Spec => []AnsweringTouchesNothing
<1>1. IInv => AnsweringTouchesNothing
    BY DEF IInv, Sessions
<1> QED
    BY <1>1, InductiveInvariant, PTL
=============================================================================
