--------------------------- MODULE SandboxSession ---------------------------
(****************************************************************************)
(* CommandController.open_session / execute_action / close_session          *)
(* (sdk_test_agent/cmd_ctrl/controller.py) over one DockerPythonSandbox     *)
(* (sdk_test_agent/sandbox/python/docker_sandbox.py) and the container      *)
(* engine behind its driver. A controller operation is a sequence of        *)
(* sandbox calls; DockerPythonSandbox.start is itself a sequence of driver  *)
(* calls. Between two of them the container can exit by itself, and each    *)
(* driver call can raise, without having done its work or after the engine  *)
(* did it (a lost or late answer); an exception abandons the rest of the    *)
(* sequence.                                                                *)
(****************************************************************************)
EXTENDS Naturals, Sequences, CommandControl

CONSTANTS
  Containers,     \* containers the engine can create
  NoContainer,    \* _container_id is None
  Controller,     \* policies, operators and guard of the controller
  Commands        \* commands its client executes

ASSUME NoContainerAssumption == NoContainer \notin Containers
ASSUME ControllerAssumption == Controller \in Controllers

VARIABLES
  client,         \* how the sandbox is used, see Clients
  autoRemove,     \* spec.auto_remove
  status,         \* DockerPythonSandbox._status
  held,           \* DockerPythonSandbox._container_id
  engine,         \* what the engine has of each container
  todo,           \* calls the operation in progress has still to make
  operation,      \* the operation in progress, or the last one
  outcome,        \* how it ended
  told,           \* containers create_container has returned the id of
  fresh           \* those of them returned since the last create()

vars == <<client, autoRemove, status, held, engine, todo, operation, outcome, told, fresh>>

(* "session": opens only at first and after a close that returned.          *)
(* "loop": env_init_node, which opens a session on every run of the agent   *)
(* loop and leaves closing to others. "direct": calls the methods of        *)
(* BaseSandbox in any order.                                                *)
Clients == {"session", "loop", "direct"}

Methods == {"create", "prepare_image", "start", "stop", "destroy", "destroy_force", "exec"}
DriverCalls == {"create_container", "start_container", "mkdir"}

(* "workspace_ready" is overwritten by the next statement and "failed" is   *)
(* never assigned.                                                          *)
Status == {"created", "image_ready", "container_running", "ready", "stopped", "removed"}
UpStatus == {"container_running", "ready"}

EngineStates == {"absent", "created", "running", "exited", "removed"}
Exists(c) == engine[c] \in {"created", "running", "exited"}

Init ==
  /\ client \in Clients
  /\ autoRemove \in BOOLEAN
  /\ status = "created"
  /\ held = NoContainer
  /\ engine = [c \in Containers |-> "absent"]
  /\ todo = <<>>
  /\ operation = "none"
  /\ outcome = "none"
  /\ told = {}
  /\ fresh = {}

-----------------------------------------------------------------------------
(* The client starts an operation.                                          *)

Begin(op, calls) ==
  /\ todo = <<>>
  /\ todo' = calls
  /\ operation' = op
  /\ outcome' = "pending"
  /\ UNCHANGED <<client, autoRemove, status, held, engine, told, fresh>>

OpenSession ==
  /\ client # "direct"
  /\ client = "session" => operation = "none" \/ (operation = "close" /\ outcome = "ok")
  /\ Begin("open", <<"create", "prepare_image", "start">>)

(* A command that a policy, the dispatcher or the guard refuses raises      *)
(* before any call of the sandbox.                                          *)
Refuse ==
  /\ todo = <<>>
  /\ operation' = "execute"
  /\ outcome' = "raised"
  /\ UNCHANGED <<client, autoRemove, status, held, engine, todo, told, fresh>>

ExecuteAction ==
  /\ client # "direct"
  /\ operation # "none"
  /\ \E cmd \in Commands :
       IF Verdict(Controller, cmd) = "runs" THEN Begin("execute", <<"exec">>) ELSE Refuse

CloseSession ==
  /\ client # "direct"
  /\ operation # "none"
  /\ Begin("close", <<"stop", "destroy">>)

CallDirectly == client = "direct" /\ \E m \in Methods : Begin(m, <<m>>)

-----------------------------------------------------------------------------
(* One call returns, or raises and abandons the operation.                  *)

Calling(m) == todo # <<>> /\ Head(todo) = m

Return ==
  /\ todo' = Tail(todo)
  /\ outcome' = IF Len(todo) = 1 THEN "ok" ELSE outcome
  /\ UNCHANGED <<client, autoRemove, operation>>

Raise ==
  /\ todo' = <<>>
  /\ outcome' = "raised"
  /\ UNCHANGED <<client, autoRemove, operation>>

(* What the engine may have done to the held container when the driver call *)
(* that should bring it from one of the states `from` to `to` raises.       *)
MaybeDone(from, to) ==
  \/ UNCHANGED engine
  \/ held \in Containers /\ engine[held] \in from /\ engine' = [engine EXCEPT ![held] = to]

(* Variant: create() keeps the status of the previous session.              *)
CreateKeepsStatus ==
  /\ Calling("create")
  /\ fresh' = {}
  /\ Return
  /\ UNCHANGED <<status, held, engine, told>>

Create ==
  /\ Calling("create")
  /\ status' = "created"
  /\ fresh' = {}
  /\ Return
  /\ UNCHANGED <<held, engine, told>>

PrepareImage ==
  /\ Calling("prepare_image")
  /\ \/ status' = "image_ready" /\ Return
     \/ UNCHANGED status /\ Raise
  /\ UNCHANGED <<held, engine, told, fresh>>

(* start() is refused unless the image is ready, then makes three driver    *)
(* calls.                                                                   *)
Start ==
  /\ Calling("start")
  /\ \/ /\ status = "image_ready"
        /\ todo' = <<"create_container", "start_container", "mkdir">> \o Tail(todo)
        /\ UNCHANGED <<client, autoRemove, operation, outcome>>
     \/ /\ status # "image_ready"
        /\ Raise
  /\ UNCHANGED <<status, held, engine, told, fresh>>

(* Variant: _container_id assigned only once the container is started.      *)
CreateContainerUnheld ==
  /\ Calling("create_container")
  /\ \E c \in Containers :
       /\ engine[c] = "absent"
       /\ engine' = [engine EXCEPT ![c] = "created"]
       /\ \/ told' = told \cup {c} /\ fresh' = fresh \cup {c} /\ held' = c /\ Return
          \/ told' = told \cup {c} /\ UNCHANGED <<held, fresh>> /\ Raise
  /\ UNCHANGED status

CreateContainer ==
  /\ Calling("create_container")
  /\ \/ \E c \in Containers :
          /\ engine[c] = "absent"
          /\ engine' = [engine EXCEPT ![c] = "created"]
          /\ \/ held' = c /\ told' = told \cup {c} /\ fresh' = fresh \cup {c} /\ Return
             \/ UNCHANGED <<held, told, fresh>> /\ Raise
     \/ UNCHANGED <<engine, held, told, fresh>> /\ Raise
  /\ UNCHANGED status

StartContainer ==
  /\ Calling("start_container")
  /\ \/ /\ Exists(held)
        /\ engine' = [engine EXCEPT ![held] = "running"]
        /\ status' = "container_running"
        /\ Return
     \/ MaybeDone({"created", "exited"}, "running") /\ UNCHANGED status /\ Raise
  /\ UNCHANGED <<held, told, fresh>>

(* start()'s exec of mkdir; its exit code is not looked at.                 *)
MakeWorkdir ==
  /\ Calling("mkdir")
  /\ \/ engine[held] = "running" /\ status' = "ready" /\ Return
     \/ UNCHANGED status /\ Raise
  /\ UNCHANGED <<held, engine, told, fresh>>

(* _require_running, then the driver's exec (or archive or log call) in the *)
(* held container.                                                          *)
Exec ==
  /\ Calling("exec")
  /\ \/ status \in UpStatus /\ held # NoContainer /\ engine[held] = "running" /\ Return
     \/ Raise
  /\ UNCHANGED <<status, held, engine, told, fresh>>

EndOfRun == IF autoRemove THEN "removed" ELSE "exited"

(* stop() has nothing to do without a container or after stop or destroy.   *)
StopIsNoop == held = NoContainer \/ status \in {"stopped", "removed"}

(* Variant: the status is set in a finally clause, as destroy() does.       *)
StopEvenIfRaised ==
  /\ Calling("stop")
  /\ \/ StopIsNoop /\ UNCHANGED <<status, engine>> /\ Return
     \/ /\ ~StopIsNoop
        /\ status' = "stopped"
        /\ \/ /\ Exists(held)
              /\ engine' = IF engine[held] = "running"
                           THEN [engine EXCEPT ![held] = EndOfRun] ELSE engine
              /\ Return
           \/ MaybeDone({"running"}, EndOfRun) /\ Raise
  /\ UNCHANGED <<held, told, fresh>>

(* The engine answers a stop of a container that does not run with success. *)
Stop ==
  /\ Calling("stop")
  /\ \/ StopIsNoop /\ UNCHANGED <<status, engine>> /\ Return
     \/ /\ ~StopIsNoop
        /\ \/ /\ Exists(held)
              /\ engine' = IF engine[held] = "running"
                           THEN [engine EXCEPT ![held] = EndOfRun] ELSE engine
              /\ status' = "stopped"
              /\ Return
           \/ MaybeDone({"running"}, EndOfRun) /\ UNCHANGED status /\ Raise
  /\ UNCHANGED <<held, told, fresh>>

(* What the engine lets a remove call take away.                            *)
Removable(force) ==
  IF force THEN {"created", "running", "exited"} ELSE {"created", "exited"}

(* Variant: destroy() uses the status "failed".                             *)
DestroyMarksFailed(method, force) ==
  /\ Calling(method)
  /\ \/ held = NoContainer /\ status' = "removed" /\ UNCHANGED engine /\ Return
     \/ /\ held # NoContainer
        /\ engine[held] \in Removable(force)
        /\ engine' = [engine EXCEPT ![held] = "removed"]
        /\ status' = "removed"
        /\ Return
     \/ /\ held # NoContainer
        /\ MaybeDone(Removable(force), "removed")
        /\ status' = "failed"
        /\ Raise
  /\ UNCHANGED <<held, told, fresh>>

(* The status is "removed" whatever the driver says; _container_id is kept. *)
Destroy(method, force) ==
  /\ Calling(method)
  /\ status' = "removed"
  /\ \/ held = NoContainer /\ UNCHANGED engine /\ Return
     \/ /\ held # NoContainer
        /\ engine[held] \in Removable(force)
        /\ engine' = [engine EXCEPT ![held] = "removed"]
        /\ Return
     \/ held # NoContainer /\ MaybeDone(Removable(force), "removed") /\ Raise
  /\ UNCHANGED <<held, told, fresh>>

(* The container's main process ends by itself.                             *)
ContainerExits ==
  \E c \in Containers :
    /\ engine[c] = "running"
    /\ engine' = [engine EXCEPT ![c] = EndOfRun]
    /\ UNCHANGED <<client, autoRemove, status, held, todo, operation, outcome, told, fresh>>

ClientStep == OpenSession \/ ExecuteAction \/ CloseSession \/ CallDirectly

SandboxStep ==
  \/ Create \/ PrepareImage \/ Start \/ CreateContainer \/ StartContainer \/ MakeWorkdir
  \/ Exec \/ Stop \/ Destroy("destroy", FALSE) \/ Destroy("destroy_force", TRUE)

Next == ClientStep \/ SandboxStep \/ ContainerExits

Spec == Init /\ [][Next]_vars

-----------------------------------------------------------------------------

TypeOK ==
  /\ client \in Clients
  /\ autoRemove \in BOOLEAN
  /\ status \in Status
  /\ held \in Containers \cup {NoContainer}
  /\ engine \in [Containers -> EngineStates]
  /\ todo \in Seq(Methods \cup DriverCalls)
  /\ operation \in {"none", "open", "execute", "close"} \cup Methods
  /\ outcome \in {"none", "pending", "ok", "raised"}
  /\ told \subseteq Containers
  /\ fresh \subseteq told

(* While _require_running lets commands through, they go to a container     *)
(* that was created since the last create() and has been started: a         *)
(* re-opened session that fails half-way never falls back to the container  *)
(* of the session before it.                                                *)
UpMeansStartedInThisSession ==
  status \in UpStatus =>
    /\ held \in fresh
    /\ engine[held] \in {"running", "exited", "removed"}

(* When close_session has returned, no container the client was told of     *)
(* exists and the sandbox accepts no command.                               *)
ClosedMeansGone ==
  operation = "close" /\ outcome = "ok" =>
    status = "removed" /\ \A c \in told : ~Exists(c)

(* A client that closes each session before it opens the next never loses   *)
(* track of a container: all that create_container told it of and that      *)
(* still exist are the one it holds, whichever call of open_session or      *)
(* close_session raised, and none is left once close_session has returned.  *)
NothingLeftBehind ==
  client = "session" =>
    /\ \A c \in told : Exists(c) => c = held
    /\ ClosedMeansGone

(* close_session removes without force, which the engine refuses for a      *)
(* container that runs. It never comes to that: where destroy() is refused, *)
(* the held container is gone already. It does come to the latter, by       *)
(* auto_remove or by a remove whose answer was lost, and then every close   *)
(* raises, because destroy() keeps _container_id.                           *)
OnlyGoneContainersBlockClose ==
  client # "direct" /\ Calling("destroy") /\ held # NoContainer =>
    engine[held] \in Removable(FALSE) \cup {"removed"}
=============================================================================
