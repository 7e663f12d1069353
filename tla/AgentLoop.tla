------------------------------ MODULE AgentLoop ------------------------------
(****************************************************************************)
(* The agent loop (sdk_test_agent/agent_loop): decide, resolve the          *)
(* capabilities, plan, finalize, validate, preflight, execute, check the    *)
(* task, and report, stop or plan again. Its nodes read and update one      *)
(* state dictionary. Two drivers exist: the graph of build_langgraph_...,   *)
(* whose replan edge returns to capability_resolve, and                     *)
(* run_agent_loop_once, which returns after one pass and whose caller may   *)
(* call it again with the state it got.                                     *)
(*                                                                          *)
(* Plan admission is PlanAdmission.tla; the run of an admitted plan is the  *)
(* abstract run of DependencyRun.tla, which ExecutionEngine.tla implements. *)
(* Planner, interaction decider and task checker are an LLM: any answer.    *)
(****************************************************************************)
EXTENDS PlanAdmission, Sequences

CONSTANTS
  Drafts,           \* the drafts a planner may answer with
  Requests,         \* the BuildCapabilitySnapshotInput of a pass
  Validators,       \* configurations of PlanValidator
  MaxIteration,     \* bound: no replan is asked for at this iteration
  None              \* an absent key

(* A draft's steps are a list: its functions share one domain 1..n.         *)
ASSUME DraftsAssumption ==
  \A d \in Drafts :
    /\ IsFiniteSet(Positions(d))
    /\ \A f \in {"id", "kind", "deps", "inputsFit", "requires", "action", "risk",
                "malformed", "onFailure"} : DOMAIN d[f] = 1..Cardinality(Positions(d))

ASSUME BoundsAssumption ==
  /\ MaxIteration \in Nat
  /\ \A v \in Validators : v.maxSteps \in Nat

VARIABLES
  driver,           \* "graph" or "once"
  runtime,          \* SdkRuntimeContext: validator, controller, pinned snapshot
  node,             \* the node that runs next, or how the loop ended
  state,            \* the state dictionary
  runPlan, fate, verdict,   \* the run in progress, see DependencyRun
  planned,          \* how many plans were finalized: plan ids are fresh
  opened,           \* sessions opened in this invocation
  runs              \* the runs started, in order: [run, plan, digest]

engineVars == <<runPlan, fate, verdict>>
fixed      == <<driver, runtime>>
vars       == <<fixed, node, state, engineVars, planned, opened, runs>>

Engine == INSTANCE DependencyRun WITH plan <- runPlan, Plans <- {}

Modes      == {"PLAN", "RETURN", "REFUSE", "HUMAN", "other"}
Routes     == {"end", "replan", "fail", "ask_input", "human_interrupt", "other"}
LoopStatus == {"env_initialized", "succeeded", "returned", "refused", "failed", "need_human"}
Terminal   == {"report", "direct_return", "refuse_return", "fail", "human_interrupt"}
Ends       == {"end", "replan_returned", "raised"}

ASSUME NoneAssumption == None \notin LoopStatus

Init ==
  /\ driver \in {"graph", "once"}
  /\ runtime \in [validator : Validators, controller : BOOLEAN, pinned : {None} \cup Requests]
  /\ node = "interaction_decision"
  /\ state = [mode |-> None, iteration |-> 0, status |-> None, snapshot |-> None,
              draft |-> None, plan |-> None, validation |-> None, preflight |-> None,
              run |-> None, execution |-> None, route |-> None, report |-> None]
  /\ runPlan = [kind |-> <<>>, deps |-> <<>>, onFailure |-> <<>>]
  /\ fate = <<>>
  /\ verdict = "none"
  /\ planned = 0
  /\ opened = 0
  /\ runs = <<>>

At(n)   == node = n
Goto(n) == node' = n

-----------------------------------------------------------------------------
(* Routing                                                                  *)

AfterInteraction(mode) ==
  CASE mode = "PLAN"   -> "env_init"
    [] mode = "RETURN" -> "direct_return"
    [] mode = "REFUSE" -> "refuse_return"
    [] mode = "HUMAN"  -> "human_interrupt"
    [] OTHER           -> "fail"

AfterValidate(passed) == IF passed THEN "preflight" ELSE "fail"

(* Variant: preflight is advisory.                                          *)
AfterPreflightAlways(passed) == "execute"

AfterPreflight(passed) == IF passed THEN "execute" ELSE "fail"

(* Variant: each route has a node of its name.                              *)
AfterTaskCheckAsks(route) ==
  CASE route = "end"             -> "report"
    [] route = "replan"          -> "replan_context"
    [] route = "human_interrupt" -> "human_interrupt"
    [] route = "ask_input"       -> "ask_input"
    [] OTHER                     -> "fail"

(* "ask_input" has no node of its own.                                      *)
AfterTaskCheck(route) ==
  CASE route = "end"             -> "report"
    [] route = "replan"          -> "replan_context"
    [] route = "human_interrupt" -> "human_interrupt"
    [] OTHER                     -> "fail"

-----------------------------------------------------------------------------
(* Nodes                                                                    *)

Decide ==
  /\ At("interaction_decision")
  /\ \E m \in Modes : state' = [state EXCEPT !.mode = m] /\ Goto(AfterInteraction(m))
  /\ UNCHANGED <<fixed, engineVars, planned, opened, runs>>

EnvInit ==
  /\ At("env_init")
  /\ opened' = IF runtime.controller THEN opened + 1 ELSE opened
  /\ state' = [state EXCEPT !.status = "env_initialized"]
  /\ Goto("capability_resolve")
  /\ UNCHANGED <<fixed, engineVars, planned, runs>>

(* The context keys env_init_node reports are those of the bindings.        *)
ContextOf == IF runtime.controller THEN {"command_controller"} ELSE {}

(* A request comes from the runtime's factory, with any context, or is      *)
(* built from the state.                                                    *)
CapabilityResolve ==
  /\ At("capability_resolve")
  /\ \E r \in Requests : \E context \in {r.context, ContextOf} :
       state' = [state EXCEPT !.snapshot = Snapshot([r EXCEPT !.context = context])]
  /\ Goto("plan")
  /\ UNCHANGED <<fixed, engineVars, planned, opened, runs>>

Plan ==
  /\ At("plan")
  /\ \E d \in Drafts : state' = [state EXCEPT !.draft = d]
  /\ Goto("finalize")
  /\ UNCHANGED <<fixed, engineVars, planned, opened, runs>>

(* finalize_node and validate_node prefer the snapshot object pinned in the *)
(* runtime's metadata to the one in the state.                              *)
BindingSnapshot ==
  IF runtime.pinned # None THEN Snapshot(runtime.pinned) ELSE state.snapshot

Finalize ==
  /\ At("finalize")
  /\ planned' = planned + 1
  /\ state' = [state EXCEPT !.plan = [id     |-> planned + 1,
                                      draft  |-> state.draft,
                                      digest |-> Digest(BindingSnapshot)]]
  /\ Goto("validate")
  /\ UNCHANGED <<fixed, engineVars, opened, runs>>

Validate ==
  LET passed == Passes(state.plan, BindingSnapshot, runtime.validator) IN
  /\ At("validate")
  /\ state' = [state EXCEPT !.validation = passed]
  /\ Goto(AfterValidate(passed))
  /\ UNCHANGED <<fixed, engineVars, planned, opened, runs>>

Preflight ==
  LET passed == PreflightPasses(state.plan.draft, IF runtime.controller THEN Operators ELSE {}) IN
  /\ At("preflight")
  /\ state' = [state EXCEPT !.preflight = passed]
  /\ Goto(AfterPreflight(passed))
  /\ UNCHANGED <<fixed, engineVars, planned, opened, runs>>

(* The run's id is run_<iteration>.                                         *)
Execute ==
  /\ At("execute")
  /\ runPlan' = Positional(state.plan.draft)
  /\ fate' = [i \in Positions(state.plan.draft) |-> "pending"]
  /\ verdict' = "none"
  /\ runs' = Append(runs, [run |-> state.iteration, plan |-> state.plan.id, digest |-> state.plan.digest])
  /\ Goto("running")
  /\ UNCHANGED <<fixed, state, planned, opened>>

EngineRuns ==
  /\ At("running")
  /\ Engine!Next
  /\ UNCHANGED <<fixed, node, state, planned, opened, runs>>

(* Variant: a run id that is in the state is kept.                          *)
ExecuteReturnsKeepingRun ==
  /\ At("running")
  /\ verdict \notin {"none", "raised"}
  /\ state' = [state EXCEPT !.run = IF @ = None THEN state.iteration ELSE @, !.execution = verdict]
  /\ Goto("task_check")
  /\ UNCHANGED <<fixed, engineVars, planned, opened, runs>>

ExecuteReturns ==
  /\ At("running")
  /\ verdict \notin {"none", "raised"}
  /\ state' = [state EXCEPT !.run = state.iteration, !.execution = verdict]
  /\ Goto("task_check")
  /\ UNCHANGED <<fixed, engineVars, planned, opened, runs>>

(* The checker's route is not checked; an answer that cannot be parsed      *)
(* counts as "replan".                                                      *)
TaskCheck ==
  /\ At("task_check")
  /\ \E r \in Routes :
       /\ r = "replan" => state.iteration < MaxIteration
       /\ state' = [state EXCEPT !.route = r]
       /\ Goto(AfterTaskCheck(r))
  /\ UNCHANGED <<fixed, engineVars, planned, opened, runs>>

(* Variant: the iteration is not counted.                                   *)
ReplanUncounted ==
  /\ At("replan_context")
  /\ UNCHANGED state
  /\ Goto(IF driver = "graph" THEN "capability_resolve" ELSE "replan_returned")
  /\ UNCHANGED <<fixed, engineVars, planned, opened, runs>>

ReplanContext ==
  /\ At("replan_context")
  /\ state' = [state EXCEPT !.iteration = @ + 1]
  /\ Goto(IF driver = "graph" THEN "capability_resolve" ELSE "replan_returned")
  /\ UNCHANGED <<fixed, engineVars, planned, opened, runs>>

StatusAt(n) ==
  CASE n = "report"          -> "succeeded"
    [] n = "direct_return"   -> "returned"
    [] n = "refuse_return"   -> "refused"
    [] n = "human_interrupt" -> "need_human"
    [] n = "fail"            -> "failed"

Terminate ==
  /\ node \in Terminal
  /\ state' = [state EXCEPT
       !.status = StatusAt(node),
       !.report = IF node = "report"
                  THEN [plan |-> state.plan.id, run |-> state.run, route |-> state.route]
                  ELSE @]
  /\ Goto("end")
  /\ UNCHANGED <<fixed, engineVars, planned, opened, runs>>

(* A decider, controller, panel, planner, checker or conversion raises, or  *)
(* the engine does: nothing catches it.                                     *)
Raise ==
  /\ \/ node \in {"interaction_decision", "env_init", "capability_resolve", "plan",
                  "finalize", "task_check"}
     \/ At("running") /\ verdict = "raised"
  /\ Goto("raised")
  /\ UNCHANGED <<fixed, state, engineVars, planned, opened, runs>>

(* run_agent_loop_once is called again with the state it returned.          *)
CallAgain ==
  /\ At("replan_returned")
  /\ Goto("interaction_decision")
  /\ opened' = 0
  /\ UNCHANGED <<fixed, state, engineVars, planned, runs>>

Done == node \in {"end", "raised"} /\ UNCHANGED vars

Next ==
  \/ Decide \/ EnvInit \/ CapabilityResolve \/ Plan \/ Finalize \/ Validate \/ Preflight
  \/ Execute \/ EngineRuns \/ ExecuteReturns \/ TaskCheck \/ ReplanContext
  \/ Terminate \/ Raise \/ CallAgain \/ Done

Spec == Init /\ [][Next]_vars

-----------------------------------------------------------------------------

Nodes == Terminal \cup Ends \cup
  {"interaction_decision", "env_init", "capability_resolve", "plan", "finalize", "validate",
   "preflight", "execute", "running", "task_check", "replan_context"}

Optional(S) == S \cup {None}

FinalPlans == [id : Nat, draft : Drafts, digest : Snapshots]

StateType ==
  [mode       : Optional(Modes),
   iteration  : 0..MaxIteration,
   status     : Optional(LoopStatus),
   snapshot   : Optional(Snapshots),
   draft      : Optional(Drafts),
   plan       : Optional(FinalPlans),
   validation : Optional(BOOLEAN),
   preflight  : Optional(BOOLEAN),
   run        : Optional(Nat),
   execution  : Optional(Engine!Verdicts),
   route      : Optional(Routes),
   report     : Optional([plan : Nat, run : Nat, route : Routes])]

TypeOK ==
  /\ driver \in {"graph", "once"}
  /\ runtime \in [validator : Validators, controller : BOOLEAN, pinned : Optional(Requests)]
  /\ node \in Nodes
  /\ state \in StateType
  /\ DOMAIN fate = DOMAIN runPlan.deps
  /\ \A i \in DOMAIN fate : fate[i] \in Engine!Fates
  /\ verdict \in Engine!Verdicts
  /\ planned \in Nat /\ opened \in 0..1
  /\ runs \in Seq([run : Nat, plan : Nat, digest : Snapshots])

StepsRun == {i \in DOMAIN fate : fate[i] \in {"succeeded", "failed"}}

(* Whatever the planner drafts and whichever pass it is, a step reaches an  *)
(* executor only if there is one for its kind and its capability was        *)
(* enabled, with inputs that fit its schema, in the snapshot whose digest   *)
(* its plan carries; a validator told to allow deprecated capabilities      *)
(* lets those through besides.                                              *)
StepsRunWereAdmitted ==
  At("running") =>
    LET draft    == state.plan.draft
        snapshot == state.plan.digest
    IN \A i \in StepsRun :
         /\ draft.kind[i] \in ExecutorKinds
         /\ \E c \in Registry :
              /\ c.kind = draft.kind[i]
              /\ \/ snapshot[c].status = "enabled" /\ draft.inputsFit[i]
                 \/ snapshot[c].status = "deprecated" /\ runtime.validator.allowDeprecated

(* What the engine is given is a plan as it assumes one: at least one step  *)
(* and not too many, and dependencies that resolve to exactly one position. *)
EngineGetsAPlan ==
  At("running") =>
    LET draft == state.plan.draft
        n     == Cardinality(Positions(draft))
    IN /\ Positions(draft) = 1..n /\ n \in 1..runtime.validator.maxSteps
       /\ \A i \in 1..n : \A id \in draft.deps[i] :
            Cardinality({j \in runPlan.deps[i] : draft.id[j] = id}) = 1

(* The report names one story: the plan it names is the plan that was run   *)
(* last, under the run it names, in this pass, and the checker asked for    *)
(* the end; the digest the checker was told is the one of that plan, unless *)
(* a snapshot is pinned in the runtime.                                     *)
ReportTellsOneStory ==
  state.report # None =>
    LET last == runs[Len(runs)] IN
      /\ state.report = [plan |-> last.plan, run |-> last.run, route |-> "end"]
      /\ state.status = "succeeded"
      /\ last.run = state.iteration
      /\ runtime.pinned = None => last.digest = Digest(state.snapshot)

(* Along a chain of replans no run id and no plan is used twice, through    *)
(* either driver: artifacts are named after the run.                        *)
RunsAreDistinct ==
  \A i, j \in 1..Len(runs) :
    i # j => runs[i].run # runs[j].run /\ runs[i].plan # runs[j].plan

(* An answer or a refusal touches nothing: no session was opened and no     *)
(* plan made in the invocation that gives it, whatever earlier invocations  *)
(* left in the state.                                                       *)
AnsweringTouchesNothing ==
  state.status \in {"returned", "refused"} => opened = 0 /\ state.report = None
=============================================================================
