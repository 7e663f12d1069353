--------------------------- MODULE CommandControl ---------------------------
(****************************************************************************)
(* What CommandController.execute_action lets through to the sandbox:       *)
(* ActionPolicy, PathPolicy, ActionDispatcher and the checks an operator    *)
(* makes before its call (sdk_test_agent/cmd_ctrl), and safe_join of the    *)
(* sandbox, which decides again where a file goes.                          *)
(****************************************************************************)
EXTENDS Naturals, Sequences, SequencesExt

Actions == {"install_sdk", "write_file", "run_python", "run_pytest", "collect_artifacts",
            "inspect_exec", "guarded_exec"}
PathActions == {"write_file", "collect_artifacts"}

(* A path is a sequence of segments, absolute or not: "up" is "..", "here"  *)
(* is ".", "dotted" a name that begins with two dots, "name" any other.     *)
Segments == {"up", "here", "dotted", "name"}
Paths(n) == [absolute : BOOLEAN, segments : BoundedSeq(Segments, n)]

(* posixpath.normpath: ".." takes away the name before it; at the root      *)
(* there is nothing above, and a relative path keeps what it cannot resolve.*)
Resolve(absolute, done, segment) ==
  IF segment = "here" THEN done
  ELSE IF segment # "up" THEN Append(done, segment)
  ELSE IF done # <<>> /\ Last(done) # "up" THEN Front(done)
  ELSE IF absolute THEN done ELSE Append(done, "up")

Normal(path) ==
  LET upTo[n \in 0 .. Len(path.segments)] ==
        IF n = 0 THEN <<>> ELSE Resolve(path.absolute, upTo[n - 1], path.segments[n])
  IN  upTo[Len(path.segments)]

(* The test of both guards: the normal path, without its leading slashes,   *)
(* begins with two dots.                                                    *)
Escapes(path) == Normal(path) # <<>> /\ Head(Normal(path)) \in {"up", "dotted"}

(* Where safe_join puts a path it accepts, below the working directory.     *)
SafeJoin(workdir, path) == workdir \o Normal(path)

(* An argv is its program, whether one of its words is in _deny_tokens, and *)
(* whether it is one of the forms allowed to a restricted program.          *)
Restricted == {"python", "pip", "which", "java", "mvn", "gradle"}
Programs == {"none", "interactive", "reader", "other"} \cup Restricted
Argvs == [program : Programs, risky : BOOLEAN, listed : BOOLEAN]

InspectAllows(argv) ==
  /\ argv.program \in {"reader"} \cup Restricted
  /\ ~argv.risky
  /\ argv.program \in Restricted => argv.listed

(* A command: the action, its path, its argv, and whether its payload has   *)
(* what the operator needs (the keys of write_file, a known install mode).  *)
(* A controller: the actions its ActionPolicy allows, whether it has a      *)
(* PathPolicy, the operators of its dispatcher, the answer of its guard     *)
(* (DefaultCommandGuard always says "escalate").                            *)
CommandOf(action, path, argv, complete) ==
  [action |-> action, path |-> path, argv |-> argv, complete |-> complete]
Decisions == {"allow", "deny", "escalate"}
Controllers == [allowed : SUBSET Actions, confined : BOOLEAN, operators : SUBSET Actions,
                guard : Decisions]

OperatorVerdict(ctl, cmd) ==
  IF cmd.action \in {"install_sdk", "write_file"} /\ ~cmd.complete THEN "OperatorExecutionError"
  ELSE IF cmd.action \in PathActions /\ Escapes(cmd.path) THEN "OperatorExecutionError"
  ELSE IF cmd.action = "inspect_exec" /\ ~InspectAllows(cmd.argv) THEN "PolicyViolationError"
  ELSE IF cmd.action = "guarded_exec" /\ ctl.guard = "deny" THEN "GuardDeniedError"
  ELSE IF cmd.action = "guarded_exec" /\ ctl.guard = "escalate" THEN "GuardEscalationRequired"
  ELSE "runs"

(* The first check that refuses decides the exception; "runs" means the     *)
(* operator makes its one call of the sandbox.                              *)
Verdict(ctl, cmd) ==
  IF cmd.action \notin ctl.allowed THEN "PolicyViolationError"
  ELSE IF ctl.confined /\ cmd.action \in PathActions /\ Escapes(cmd.path)
       THEN "PolicyViolationError"
  ELSE IF cmd.action \notin ctl.operators THEN "ActionDispatchError"
  ELSE OperatorVerdict(ctl, cmd)
=============================================================================
