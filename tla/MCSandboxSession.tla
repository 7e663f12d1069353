-------------------------- MODULE MCSandboxSession --------------------------
(* Three containers: a session can be opened, lost half-way and re-opened   *)
(* while an earlier container still exists. The containers are alike. The   *)
(* commands are of every action, over the paths of up to two segments.      *)
EXTENDS SandboxSession, TLC

Symmetry == Permutations(Containers)

AnyPath == [absolute |-> FALSE, segments |-> <<"name">>]
AnyArgv == [program |-> "reader", risky |-> FALSE, listed |-> TRUE]

MCController ==
  [allowed |-> Actions \ {"install_sdk"}, confined |-> TRUE,
   operators |-> Actions \ {"run_pytest"}, guard |-> "escalate"]

MCCommands ==
  { CommandOf(a, AnyPath, AnyArgv, TRUE) : a \in Actions }
    \cup { CommandOf("write_file", p, AnyArgv, c) : p \in Paths(2), c \in BOOLEAN }
    \cup { CommandOf("inspect_exec", AnyPath, v, TRUE) : v \in Argvs }

(* The file of an accepted path lies below the working directory: nothing   *)
(* that is left of it leads up (safe_join and PathPolicy make the same      *)
(* test, so neither refuses what the other accepts).                        *)
ASSUME AcceptedPathsStayBelow ==
  \A p \in Paths(4) :
    ~Escapes(p) =>
      LET full == SafeJoin(<<"name">>, p)
      IN  /\ Normal([absolute |-> TRUE, segments |-> full]) = full
          /\ IsPrefix(<<"name">>, full)

(* No command runs unless its action is allowed, and a controller without   *)
(* policies still never writes outside the working directory.               *)
ASSUME OnlyAllowedCommandsRun ==
  \A ctl \in {[MCController EXCEPT !.allowed = A, !.confined = b, !.guard = g] :
                A \in {{}, {"write_file"}, Actions}, b \in BOOLEAN, g \in Decisions} :
    \A cmd \in MCCommands :
      Verdict(ctl, cmd) = "runs" =>
        /\ cmd.action \in ctl.allowed \cap ctl.operators
        /\ cmd.action \in PathActions => ~Escapes(cmd.path)
        /\ cmd.action = "guarded_exec" => ctl.guard = "allow"
=============================================================================
