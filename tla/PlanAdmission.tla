---------------------------- MODULE PlanAdmission ----------------------------
(****************************************************************************)
(* What stands between a plan an LLM has drafted and its execution:         *)
(*   - CapabilityPanel._resolve_descriptor and build_snapshot               *)
(*     (capability/capability_panel.py): which capabilities can be used,    *)
(*     and the digest that names this answer;                               *)
(*   - PlanValidator.validate (plan/plan_validation.py) against a snapshot; *)
(*   - run_preflight (agent_loop/preflight.py) against the executors.       *)
(* All of it is pure: a snapshot is the availability of each descriptor,    *)
(* its digest (SHA-256 of the same content) is that content itself, and a   *)
(* draft is a record of functions of the positions of its steps.            *)
(****************************************************************************)
EXTENDS Naturals, FiniteSets

CONSTANTS
  Registry,         \* the descriptors in the CapabilityRegistry
  StepKinds,        \* SUPPORTED_PLAN_STEP_KINDS
  ExecutorKinds,    \* execution_registry.supported_step_kinds()
  Operators         \* the actions the command dispatcher has an operator for

(* CapabilityRegistry.register refuses a second descriptor with the id or   *)
(* the step kind of an earlier one.                                         *)
ASSUME RegistryAssumption ==
  \A c, d \in Registry : c.id = d.id \/ c.kind = d.kind => c = d

-----------------------------------------------------------------------------
(* The capability panel. A request is a BuildCapabilitySnapshotInput.       *)

Statuses == {"enabled", "disabled", "unavailable", "placeholder", "deprecated"}

Missing(c, request) == c.needs \ request.context

(* The first objection to a capability, in the order of the code.           *)
Objection(c, request) ==
  IF c.isPlaceholder /\ ~request.allowPlaceholder   THEN "placeholder"
  ELSE IF c.isDeprecated /\ ~request.allowDeprecated THEN "deprecated"
  ELSE IF ~c.defaultEnabled                         THEN "off by default"
  ELSE IF c.id \in request.forbidden                THEN "forbidden"
  ELSE IF c.id \in request.flaggedOff               THEN "flag"
  ELSE IF Missing(c, request) # {}                  THEN "context"
  ELSE IF c.risk > request.maxRisk                  THEN "risk"
  ELSE "none"

StatusOn == [o \in {"placeholder", "deprecated", "off by default", "forbidden",
                    "flag", "context", "risk", "none"} |->
               CASE o = "placeholder" -> "placeholder"
                 [] o = "deprecated"  -> "deprecated"
                 [] o = "context"     -> "unavailable"
                 [] o = "none"        -> "enabled"
                 [] OTHER             -> "disabled"]

Availability(c, request) ==
  LET o == Objection(c, request) IN
    [status  |-> StatusOn[o],
     reason  |-> o,
     missing |-> IF o = "context" THEN Missing(c, request) ELSE {}]

Snapshots ==
  [Registry -> [status : Statuses, reason : DOMAIN StatusOn,
                missing : SUBSET UNION {c.needs : c \in Registry}]]

Snapshot(request) == [c \in Registry |-> Availability(c, request)]

Digest(snapshot) == snapshot

-----------------------------------------------------------------------------
(* The plan validator. A step has an id, a kind, the ids it depends on,     *)
(* inputs that do or do not fit the schema of its kind, the capability ids  *)
(* it declares, a risk and a failure policy; "malformed" stands for an      *)
(* empty id or kind, an unknown risk or policy, or a timeout below 1.       *)

Positions(draft) == DOMAIN draft.id

Error(found)   == IF found THEN {"error"} ELSE {}
Warning(found) == IF found THEN {"warning"} ELSE {}
SeverityIf(strict, found) == IF strict THEN Error(found) ELSE Warning(found)

(* Variant: two steps with the same id are not told apart.                  *)
IdIssuesUnchecked(draft) == {}

IdIssues(draft) ==
  Error(\E i, j \in Positions(draft) : i # j /\ draft.id[i] = draft.id[j])

StepBaseIssues(draft, i, validator) ==
  Error(~(draft.deps[i] \subseteq {draft.id[j] : j \in Positions(draft)}))
  \cup Error(draft.malformed[i])
  \cup Error(draft.kind[i] \notin StepKinds)
  \cup Error(~(draft.requires[i] \subseteq validator.available))
  \cup Warning(draft.risk[i] = "high")

RequiredCapabilityIssues(draft, i, c, snapshot, validator) ==
  LET declared == {d \in Registry : d.id \in draft.requires[i]} IN
  IF draft.requires[i] = {} THEN SeverityIf(validator.strict, TRUE)
  ELSE Error(\E id \in draft.requires[i] : \A d \in Registry : d.id # id)
       \cup Error(\E d \in declared : snapshot[d].status # "enabled")
       \cup SeverityIf(validator.strict, c.id \notin draft.requires[i])

(* A capability that is not enabled ends the check of the step: neither its *)
(* inputs nor what it declares are looked at.                               *)
StepCapabilityIssues(draft, i, snapshot, validator) ==
  LET descriptor == {c \in Registry : c.kind = draft.kind[i]} IN
  IF descriptor = {} THEN Error(TRUE)
  ELSE UNION {IF snapshot[c].status # "enabled"
              THEN SeverityIf(~(snapshot[c].status = "deprecated" /\ validator.allowDeprecated), TRUE)
              ELSE Error(~draft.inputsFit[i])
                   \cup RequiredCapabilityIssues(draft, i, c, snapshot, validator)
              : c \in descriptor}

(* plan = [draft, digest]; the finalizer always writes a digest.            *)
DigestIssues(plan, snapshot) == Error(plan.digest # Digest(snapshot))

Issues(plan, snapshot, validator) ==
  LET draft == plan.draft IN
  IF Positions(draft) = {} THEN Error(TRUE)
  ELSE Error(Cardinality(Positions(draft)) > validator.maxSteps)
       \cup IdIssues(draft)
       \cup DigestIssues(plan, snapshot)
       \cup UNION {StepBaseIssues(draft, i, validator)
                   \cup StepCapabilityIssues(draft, i, snapshot, validator) : i \in Positions(draft)}

Passes(plan, snapshot, validator) ==
  LET issues == Issues(plan, snapshot, validator) IN
    "error" \notin issues /\ ~(validator.failOnWarning /\ "warning" \in issues)

-----------------------------------------------------------------------------
(* Preflight, with the operators there are when a controller is bound.      *)

PreflightPasses(draft, operators) ==
  \A i \in Positions(draft) :
    /\ draft.kind[i] \in ExecutorKinds
    /\ draft.kind[i] = "run_command" /\ draft.action[i] # "none" => draft.action[i] \in operators

(* The plan as the engine walks it: dependencies as positions in the list.  *)
Positional(draft) ==
  [kind      |-> draft.kind,
   deps      |-> [i \in Positions(draft) |-> {j \in Positions(draft) : draft.id[j] \in draft.deps[i]}],
   onFailure |-> draft.onFailure]
=============================================================================
