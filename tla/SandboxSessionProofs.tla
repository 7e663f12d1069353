------------------------- MODULE SandboxSessionProofs -------------------------
(****************************************************************************)
(* Proofs about SandboxSession for any set of containers, any controller    *)
(* and any commands: what the sandbox believes of its container is true     *)
(* enough to act on, and a client that closes its sessions loses none.      *)
(****************************************************************************)
EXTENDS SandboxSession, WellFoundedInduction, TLAPS

BeforeContainer ==
  { <<"create", "prepare_image", "start">>, <<"prepare_image", "start">>, <<"start">>,
    <<"create_container", "start_container", "mkdir">> }

StartCalls ==
  { <<"create_container", "start_container", "mkdir">>, <<"start_container", "mkdir">>,
    <<"mkdir">> }

(* The calls that can be left of an operation.                              *)
CallsLeft(op) ==
  CASE op = "none"    -> {}
    [] op = "open"    -> BeforeContainer \cup StartCalls
    [] op = "execute" -> { <<"exec">> }
    [] op = "close"   -> { <<"stop", "destroy">>, <<"destroy">> }
    [] op = "start"   -> { <<"start">> } \cup StartCalls
    [] OTHER          -> { <<op>> }

(* The calls still to be made are those of the operation in progress.       *)
Progress ==
  /\ todo = <<>> \/ todo \in CallsLeft(operation)
  /\ outcome = "ok" => todo = <<>>
  /\ client # "direct" => operation \in {"none", "open", "execute", "close"}

(* What start() has established when it makes its next driver call.         *)
StartInOrder ==
  /\ Calling("create_container") => status = "image_ready"
  /\ Calling("start_container") => status = "image_ready" /\ held \in fresh
  /\ Calling("mkdir") => status = "container_running"

(* A container whose id has been returned exists or existed, and the held   *)
(* one is one of them.                                                      *)
HeldIsKnown ==
  /\ \A c \in told : engine[c] # "absent"
  /\ held \in told \cup {NoContainer}

(* close_session makes its unforced remove after a stop that returned.      *)
StopComesFirst ==
  client # "direct" /\ Calling("destroy") =>
    held = NoContainer \/ status \in {"stopped", "removed"}

(* Where the status makes stop() a no-op, the container does not run.       *)
StoppedNeverRuns ==
  client # "direct" /\ held # NoContainer /\ status \in {"stopped", "removed"} =>
    engine[held] # "running"

(* Until open_session creates its container no earlier one is left.         *)
OpensOnClean ==
  client = "session" /\ (operation = "none" \/ (operation = "open" /\ todo \in BeforeContainer))
    => \A c \in told : ~Exists(c)

IInv ==
  /\ TypeOK
  /\ Progress
  /\ StartInOrder
  /\ HeldIsKnown
  /\ UpMeansStartedInThisSession
  /\ StopComesFirst
  /\ StoppedNeverRuns
  /\ OpensOnClean
  /\ NothingLeftBehind

-----------------------------------------------------------------------------
(* What there is to know of a list of calls that an operation can have left.*)

Operations == {"none", "open", "execute", "close"} \cup Methods

LEMMA Tails ==
  /\ Tail(<<"create", "prepare_image", "start">>) = <<"prepare_image", "start">>
  /\ Tail(<<"prepare_image", "start">>) = <<"start">>
  /\ Tail(<<"create_container", "start_container", "mkdir">>) = <<"start_container", "mkdir">>
  /\ Tail(<<"start_container", "mkdir">>) = <<"mkdir">>
  /\ Tail(<<"stop", "destroy">>) = <<"destroy">>
  /\ \A m \in Methods \cup DriverCalls : Tail(<<m>>) = <<>> /\ Len(<<m>>) = 1 /\ Head(<<m>>) = m
OBVIOUS

LEMMA CallLists ==
  ASSUME NEW op \in Operations, NEW calls \in CallsLeft(op)
  PROVE  \/ /\ calls = <<"create", "prepare_image", "start">> /\ op = "open"
         \/ /\ calls = <<"prepare_image", "start">> /\ op = "open"
         \/ /\ calls = <<"create_container", "start_container", "mkdir">> /\ op \in {"open", "start"}
         \/ /\ calls = <<"start_container", "mkdir">> /\ op \in {"open", "start"}
         \/ /\ calls = <<"mkdir">> /\ op \in {"open", "start"}
         \/ /\ calls = <<"stop", "destroy">> /\ op = "close"
         \/ \E m \in Methods : calls = <<m>>
BY DEF CallsLeft, BeforeContainer, StartCalls, Methods, Operations

LEMMA CallsAreMethods ==
  ASSUME NEW op \in Operations, NEW calls \in CallsLeft(op)
  PROVE  /\ calls \in Seq(Methods \cup DriverCalls)
         /\ calls # <<>>
         /\ Tail(calls) \in Seq(Methods \cup DriverCalls)
         /\ Len(calls) = 1 <=> Tail(calls) = <<>>
         /\ Tail(calls) = <<>> \/ Tail(calls) \in CallsLeft(op)
<1>1. CASE calls = <<"create", "prepare_image", "start">> /\ op = "open"
  BY <1>1, Tails DEF CallsLeft, BeforeContainer, Methods
<1>2. CASE calls = <<"prepare_image", "start">> /\ op = "open"
  BY <1>2, Tails DEF CallsLeft, BeforeContainer, Methods
<1>3. CASE calls = <<"create_container", "start_container", "mkdir">> /\ op \in {"open", "start"}
  BY <1>3, Tails DEF CallsLeft, StartCalls, DriverCalls
<1>4. CASE calls = <<"start_container", "mkdir">> /\ op \in {"open", "start"}
  BY <1>4, Tails DEF CallsLeft, StartCalls, DriverCalls
<1>5. CASE calls = <<"mkdir">> /\ op \in {"open", "start"}
  BY <1>5, Tails DEF CallsLeft, StartCalls, DriverCalls
<1>6. CASE calls = <<"stop", "destroy">> /\ op = "close"
  BY <1>6, Tails DEF CallsLeft, Methods
<1>7. CASE \E m \in Methods : calls = <<m>>
  BY <1>7, Tails
<1> QED
  BY <1>1, <1>2, <1>3, <1>4, <1>5, <1>6, <1>7, CallLists

(* A call that returns hands over to the one after it.                      *)
LEMMA CallAfterReturn ==
  ASSUME NEW op \in Operations, NEW calls \in CallsLeft(op), Tail(calls) # <<>>
  PROVE  /\ Head(Tail(calls)) # "create_container"
         /\ Head(Tail(calls)) = "start_container" => Head(calls) = "create_container"
         /\ Head(Tail(calls)) = "mkdir" => Head(calls) = "start_container"
         /\ Head(Tail(calls)) = "destroy" => Head(calls) = "stop"
         /\ Tail(calls) \in BeforeContainer => calls \in BeforeContainer
<1>1. CASE calls = <<"create", "prepare_image", "start">>
  BY <1>1, Tails DEF BeforeContainer
<1>2. CASE calls = <<"prepare_image", "start">>
  BY <1>2, Tails DEF BeforeContainer
<1>3. CASE calls = <<"create_container", "start_container", "mkdir">>
  BY <1>3, Tails DEF BeforeContainer
<1>4. CASE calls = <<"start_container", "mkdir">>
  BY <1>4, Tails DEF BeforeContainer
<1>5. CASE calls = <<"mkdir">> \/ \E m \in Methods : calls = <<m>>
  BY <1>5, Tails
<1>6. CASE calls = <<"stop", "destroy">>
  BY <1>6, Tails DEF BeforeContainer
<1> QED
  BY <1>1, <1>2, <1>3, <1>4, <1>5, <1>6, CallLists
-----------------------------------------------------------------------------
(* Steps                                                                    *)

LEMMA InitInv == Init => IInv
<1> SUFFICES ASSUME Init PROVE IInv
  OBVIOUS
<1>1. TypeOK
  BY DEF Init, TypeOK, Clients, Status, EngineStates
<1>2. Progress /\ StartInOrder /\ StopComesFirst
  BY DEF Init, Progress, StartInOrder, StopComesFirst, Calling
<1>3. HeldIsKnown /\ UpMeansStartedInThisSession /\ StoppedNeverRuns /\ OpensOnClean
  BY DEF Init, HeldIsKnown, UpMeansStartedInThisSession, StoppedNeverRuns, OpensOnClean, UpStatus
<1>4. NothingLeftBehind
  BY DEF Init, NothingLeftBehind, ClosedMeansGone
<1> QED
  BY <1>1, <1>2, <1>3, <1>4 DEF IInv

(* An operation in progress makes the calls that are left of it.            *)
LEMMA Pending ==
  ASSUME IInv, todo # <<>>
  PROVE  operation \in Operations /\ todo \in CallsLeft(operation)
BY DEF IInv, TypeOK, Progress, Operations, Methods

LEMMA AfterReturn ==
  ASSUME IInv, todo # <<>>, Return
  PROVE  /\ Progress'
         /\ todo' \in Seq(Methods \cup DriverCalls)
         /\ UNCHANGED <<client, autoRemove, operation>>
         /\ outcome' \in {"none", "pending", "ok", "raised"}
         /\ outcome' = "ok" => todo' = <<>>
         /\ ~Calling("create_container")'
         /\ Calling("start_container")' => Calling("create_container")
         /\ Calling("mkdir")' => Calling("start_container")
         /\ Calling("destroy")' => Calling("stop")
         /\ todo' \in BeforeContainer => todo \in BeforeContainer
<1>1. operation \in Operations /\ todo \in CallsLeft(operation)
  BY Pending
<1>2. /\ Tail(todo) \in Seq(Methods \cup DriverCalls)
      /\ Len(todo) = 1 <=> Tail(todo) = <<>>
      /\ Tail(todo) = <<>> \/ Tail(todo) \in CallsLeft(operation)
  BY <1>1, CallsAreMethods
<1>3. outcome # "ok"
  BY DEF IInv, Progress
<1>4. /\ UNCHANGED <<client, autoRemove, operation>>
      /\ outcome' \in {"none", "pending", "ok", "raised"}
      /\ outcome' = "ok" => todo' = <<>>
      /\ todo' \in Seq(Methods \cup DriverCalls)
  BY <1>2, <1>3 DEF Return, IInv, TypeOK
<1>5. Progress'
  BY <1>2, <1>4 DEF Return, IInv, Progress
<1>6. <<>> \notin BeforeContainer
  BY DEF BeforeContainer
<1> QED
  BY <1>1, <1>2, <1>4, <1>5, <1>6, CallAfterReturn DEF Return, Calling

LEMMA AfterRaise ==
  ASSUME IInv, Raise
  PROVE  /\ Progress'
         /\ todo' = <<>> /\ outcome' = "raised"
         /\ todo' \in Seq(Methods \cup DriverCalls)
         /\ UNCHANGED <<client, autoRemove, operation>>
         /\ \A m : ~Calling(m)'
         /\ todo' \notin BeforeContainer
BY DEF IInv, Progress, Raise, Calling, BeforeContainer
(* The client starts an operation, or is refused.                           *)
LEMMA ClientInv == IInv /\ ClientStep => IInv'
<1> SUFFICES ASSUME IInv, ClientStep PROVE IInv'
  OBVIOUS
<1>1. todo = <<>> /\ UNCHANGED <<client, autoRemove, status, held, engine, told, fresh>>
  BY DEF ClientStep, OpenSession, ExecuteAction, CloseSession, CallDirectly, Begin, Refuse
<1>2. CASE OpenSession
  <2>1. /\ todo' = <<"create", "prepare_image", "start">>
        /\ operation' = "open" /\ outcome' = "pending"
        /\ client # "direct"
        /\ client = "session" => operation = "none" \/ (operation = "close" /\ outcome = "ok")
    BY <1>2 DEF OpenSession, Begin
  <2>2. todo' \in CallsLeft("open") /\ todo' \in BeforeContainer
    BY <2>1 DEF CallsLeft, BeforeContainer
  <2>3. todo' \in Seq(Methods \cup DriverCalls) /\ Head(todo') = "create"
    BY <2>1 DEF Methods
  <2> QED
    BY <1>1, <2>1, <2>2, <2>3 DEF IInv, TypeOK, Exists, Calling,
     Progress, StartInOrder, HeldIsKnown, UpMeansStartedInThisSession, StopComesFirst,
     StoppedNeverRuns, OpensOnClean, NothingLeftBehind, ClosedMeansGone
<1>3. CASE ExecuteAction
  <2>1. \/ todo' = <<"exec">> /\ operation' = "execute" /\ outcome' = "pending"
        \/ todo' = <<>> /\ operation' = "execute" /\ outcome' = "raised"
    BY <1>1, <1>3 DEF ExecuteAction, Begin, Refuse
  <2>2. todo' = <<>> \/ (todo' \in CallsLeft("execute") /\ Head(todo') = "exec")
    BY <2>1 DEF CallsLeft
  <2>3. <<>> \in Seq(Methods \cup DriverCalls) /\ <<"exec">> \in Seq(Methods \cup DriverCalls)
    BY DEF Methods
  <2> QED
    BY <1>1, <2>1, <2>2, <2>3 DEF IInv, TypeOK, Exists, Calling,
     Progress, StartInOrder, HeldIsKnown, UpMeansStartedInThisSession, StopComesFirst,
     StoppedNeverRuns, OpensOnClean, NothingLeftBehind, ClosedMeansGone
<1>4. CASE CloseSession
  <2>1. /\ todo' = <<"stop", "destroy">> /\ operation' = "close" /\ outcome' = "pending"
        /\ client # "direct"
    BY <1>4 DEF CloseSession, Begin
  <2>2. todo' \in CallsLeft("close") /\ Head(todo') = "stop"
    BY <2>1 DEF CallsLeft
  <2>3. todo' \in Seq(Methods \cup DriverCalls)
    BY <2>1 DEF Methods
  <2> QED
    BY <1>1, <2>1, <2>2, <2>3 DEF IInv, TypeOK, Exists, Calling,
     Progress, StartInOrder, HeldIsKnown, UpMeansStartedInThisSession, StopComesFirst,
     StoppedNeverRuns, OpensOnClean, NothingLeftBehind, ClosedMeansGone
<1>5. CASE CallDirectly
  <2>1. PICK m \in Methods : /\ todo' = <<m>> /\ operation' = m /\ outcome' = "pending"
                             /\ client = "direct"
    BY <1>5 DEF CallDirectly, Begin
  <2>2. todo' \in CallsLeft(m) /\ Head(todo') = m
    BY <2>1 DEF CallsLeft, Methods
  <2>3. todo' \in Seq(Methods \cup DriverCalls)
    BY <2>1, <2>2, CallsAreMethods DEF Operations
  <2>4. m \notin DriverCalls
    BY DEF Methods, DriverCalls
  <2> QED
    BY <1>1, <2>1, <2>2, <2>3, <2>4
    DEF IInv, TypeOK, Exists, Calling, DriverCalls,
     Progress, StartInOrder, HeldIsKnown, UpMeansStartedInThisSession, StopComesFirst,
     StoppedNeverRuns, OpensOnClean, NothingLeftBehind, ClosedMeansGone
<1> QED
  BY <1>2, <1>3, <1>4, <1>5 DEF ClientStep

(* The calls that do not touch the container.                               *)
LEMMA PrepareInv == IInv /\ (Create \/ PrepareImage \/ Exec) => IInv'
<1> SUFFICES ASSUME IInv, Create \/ PrepareImage \/ Exec PROVE IInv'
  OBVIOUS
<1>1. /\ todo # <<>> /\ UNCHANGED <<held, engine, told>>
      /\ fresh' \subseteq fresh
      /\ Calling("create") \/ Calling("prepare_image") \/ Calling("exec")
      /\ ~Calling("create_container") /\ ~Calling("start_container") /\ ~Calling("stop")
  BY DEF Create, PrepareImage, Exec, Calling
<1>2. \/ status' \in Status \ (UpStatus \cup {"stopped", "removed"})
      \/ UNCHANGED <<status, fresh>>
  BY DEF Create, PrepareImage, Exec, Status, UpStatus
<1>3. CASE Return
  <2>1. outcome' = "ok" => operation # "close"
    <3>1. operation = "close" => Head(todo) \in {"stop", "destroy"}
      BY <1>1, Pending DEF CallsLeft
    <3> QED
      BY <1>1, <3>1 DEF Calling
  <2> QED
    BY <1>1, <1>2, <1>3, <2>1, AfterReturn
    DEF IInv, TypeOK, Exists,
     Progress, StartInOrder, HeldIsKnown, UpMeansStartedInThisSession, StopComesFirst,
     StoppedNeverRuns, OpensOnClean, NothingLeftBehind, ClosedMeansGone
<1>4. CASE Raise
  BY <1>1, <1>2, <1>4, AfterRaise DEF IInv, TypeOK, Exists,
     Progress, StartInOrder, HeldIsKnown, UpMeansStartedInThisSession, StopComesFirst,
     StoppedNeverRuns, OpensOnClean, NothingLeftBehind, ClosedMeansGone
<1> QED
  BY <1>3, <1>4 DEF Create, PrepareImage, Exec
(* start() makes its three driver calls only with an image.                 *)
LEMMA StartInv == IInv /\ Start => IInv'
<1> SUFFICES ASSUME IInv, Start PROVE IInv'
  OBVIOUS
<1>1. /\ todo # <<>> /\ Head(todo) = "start"
      /\ UNCHANGED <<status, held, engine, told, fresh>>
  BY DEF Start, Calling
<1>2. operation \in Operations /\ todo \in CallsLeft(operation)
  BY <1>1, Pending
<1>3. todo = <<"start">> /\ operation \in {"open", "start"}
  BY <1>1, <1>2 DEF CallsLeft, BeforeContainer, StartCalls, Operations, Methods
<1>4. CASE /\ status = "image_ready"
           /\ todo' = <<"create_container", "start_container", "mkdir">> \o Tail(todo)
           /\ UNCHANGED <<client, autoRemove, operation, outcome>>
  <2>1. todo' = <<"create_container", "start_container", "mkdir">>
    BY <1>3, <1>4, Tails DEF Methods
  <2>2. /\ todo' \in Seq(Methods \cup DriverCalls) /\ todo' # <<>>
        /\ Head(todo') = "create_container"
        /\ todo' \in CallsLeft(operation)
        /\ todo \in BeforeContainer /\ outcome # "ok"
    BY <1>1, <1>3, <2>1 DEF DriverCalls, CallsLeft, StartCalls, BeforeContainer, IInv, Progress
  <2> QED
    BY <1>1, <1>4, <2>2
    DEF IInv, TypeOK, Exists, Calling,
     Progress, StartInOrder, HeldIsKnown, UpMeansStartedInThisSession, StopComesFirst,
     StoppedNeverRuns, OpensOnClean, NothingLeftBehind, ClosedMeansGone
<1>5. CASE Raise
  BY <1>1, <1>5, AfterRaise DEF IInv, TypeOK, Exists,
     Progress, StartInOrder, HeldIsKnown, UpMeansStartedInThisSession, StopComesFirst,
     StoppedNeverRuns, OpensOnClean, NothingLeftBehind, ClosedMeansGone
<1> QED
  BY <1>4, <1>5 DEF Start

(* A new container is the first of its session, and the only one of a       *)
(* client that closes its sessions.                                         *)
LEMMA CreateContainerInv == IInv /\ CreateContainer => IInv'
<1> SUFFICES ASSUME IInv, CreateContainer PROVE IInv'
  OBVIOUS
<1>1. /\ todo # <<>> /\ Calling("create_container")
      /\ status' = status /\ status = "image_ready"
  BY DEF CreateContainer, Calling, IInv, StartInOrder
<1>2. /\ operation \in {"open", "start"}
      /\ operation = "open" => todo \in BeforeContainer
  <2>1. operation \in Operations /\ todo \in CallsLeft(operation) /\ Head(todo) = "create_container"
    BY <1>1, Pending DEF Calling
  <2> QED
    BY <2>1, CallLists, Tails DEF BeforeContainer, Methods, DriverCalls
<1>3. client = "session" => \A c \in told : ~Exists(c)
  BY <1>2 DEF IInv, Progress, OpensOnClean
<1>4. ASSUME NEW c \in Containers, engine[c] = "absent",
             engine' = [engine EXCEPT ![c] = "created"],
             held' = c, told' = told \cup {c}, fresh' = fresh \cup {c}, Return
      PROVE  IInv'
  <2>1. todo' \notin BeforeContainer
    <3>1. operation \in Operations /\ todo \in CallsLeft(operation) /\ Head(todo) = "create_container"
      BY <1>1, Pending DEF Calling
    <3>2. todo = <<"create_container", "start_container", "mkdir">>
      BY <3>1, CallLists, Tails DEF Methods, DriverCalls
    <3>3. todo' = <<"start_container", "mkdir">>
      BY <1>4, <3>2, Tails DEF Return
    <3> QED
      BY <3>3 DEF BeforeContainer
  <2>2. /\ TypeOK' /\ Progress'
    BY <1>1, <1>4, AfterReturn DEF IInv, TypeOK, EngineStates
  <2>3. StartInOrder' /\ StopComesFirst'
    BY <1>1, <1>4, AfterReturn DEF IInv, StartInOrder, StopComesFirst, Calling
  <2>4. HeldIsKnown' /\ UpMeansStartedInThisSession' /\ StoppedNeverRuns'
    BY <1>1, <1>4 DEF IInv, TypeOK, HeldIsKnown, UpMeansStartedInThisSession, StoppedNeverRuns, UpStatus
  <2>5. OpensOnClean'
    BY <1>2, <1>4, <2>1 DEF OpensOnClean, Return
  <2>6. NothingLeftBehind'
    BY <1>2, <1>3, <1>4 DEF IInv, TypeOK, NothingLeftBehind, ClosedMeansGone, Exists, Return
  <2> QED
    BY <2>2, <2>3, <2>4, <2>5, <2>6 DEF IInv
<1>5. ASSUME NEW c \in Containers, engine[c] = "absent",
             engine' = [engine EXCEPT ![c] = "created"],
             UNCHANGED <<held, told, fresh>>, Raise
      PROVE  IInv'
  <2>1. c \notin told
    BY <1>5 DEF IInv, HeldIsKnown
  <2>2. \A d \in told : engine'[d] = engine[d]
    BY <1>5, <2>1 DEF IInv, TypeOK
  <2>3. NoContainer \notin told
    BY NoContainerAssumption DEF IInv, TypeOK
  <2>4. TypeOK'
    BY <1>1, <1>5, AfterRaise DEF IInv, TypeOK, EngineStates
  <2> QED
    BY <1>1, <1>2, <1>5, <2>1, <2>2, <2>3, <2>4, AfterRaise
    DEF IInv, TypeOK, Exists, UpStatus,
     Progress, StartInOrder, HeldIsKnown, UpMeansStartedInThisSession, StopComesFirst,
     StoppedNeverRuns, OpensOnClean, NothingLeftBehind, ClosedMeansGone
<1>6. ASSUME UNCHANGED <<engine, held, told, fresh>>, Raise
      PROVE  IInv'
  BY <1>1, <1>6, AfterRaise DEF IInv, TypeOK, Exists,
     Progress, StartInOrder, HeldIsKnown, UpMeansStartedInThisSession, StopComesFirst,
     StoppedNeverRuns, OpensOnClean, NothingLeftBehind, ClosedMeansGone
<1> QED
  BY <1>1, <1>4, <1>5, <1>6 DEF CreateContainer
(* What a driver call that raises may have done to the held container.      *)
LEMMA MaybeDoneTouches ==
  ASSUME IInv, NEW from, NEW to \in EngineStates, MaybeDone(from, to)
  PROVE  /\ engine' \in [Containers -> EngineStates]
         /\ \A c \in Containers : c # held => engine'[c] = engine[c]
         /\ held \in Containers =>
              engine'[held] = engine[held] \/ (engine[held] \in from /\ engine'[held] = to)
BY DEF MaybeDone, IInv, TypeOK

(* The held container is started: of the session, as nothing else is held.  *)
LEMMA StartContainerInv == IInv /\ StartContainer => IInv'
<1> SUFFICES ASSUME IInv, StartContainer PROVE IInv'
  OBVIOUS
<1>1. /\ todo # <<>> /\ Calling("start_container")
      /\ status = "image_ready" /\ held \in fresh
      /\ UNCHANGED <<held, told, fresh>>
  BY DEF StartContainer, Calling, IInv, StartInOrder
<1>2. /\ held \in Containers /\ held # NoContainer
  BY <1>1, NoContainerAssumption DEF IInv, TypeOK
<1>3. operation \in {"open", "start"}
  <2>1. operation \in Operations /\ todo \in CallsLeft(operation) /\ Head(todo) = "start_container"
    BY <1>1, Pending DEF Calling
  <2> QED
    BY <2>1, CallLists, Tails DEF Methods, DriverCalls
<1>4. todo \notin BeforeContainer
  BY <1>1, Tails DEF BeforeContainer, Calling
<1>5. ASSUME Exists(held), engine' = [engine EXCEPT ![held] = "running"],
             status' = "container_running", Return
      PROVE  IInv'
  <2>1. TypeOK' /\ Progress'
    BY <1>1, <1>2, <1>5, AfterReturn DEF IInv, TypeOK, Status, EngineStates
  <2>2. StartInOrder' /\ StopComesFirst' /\ OpensOnClean'
    BY <1>1, <1>3, <1>4, <1>5, AfterReturn
    DEF IInv, StartInOrder, StopComesFirst, OpensOnClean, Calling, Return
  <2>3. HeldIsKnown' /\ UpMeansStartedInThisSession' /\ StoppedNeverRuns'
    BY <1>1, <1>2, <1>5
    DEF IInv, TypeOK, HeldIsKnown, UpMeansStartedInThisSession, StoppedNeverRuns
  <2>4. NothingLeftBehind'
    BY <1>1, <1>2, <1>3, <1>5
    DEF IInv, TypeOK, NothingLeftBehind, ClosedMeansGone, Exists, Return
  <2> QED
    BY <2>1, <2>2, <2>3, <2>4 DEF IInv
<1>6. ASSUME MaybeDone({"created", "exited"}, "running"), UNCHANGED status, Raise
      PROVE  IInv'
  <2>1. /\ engine' \in [Containers -> EngineStates]
        /\ \A c \in Containers : c # held => engine'[c] = engine[c]
        /\ engine'[held] = engine[held]
             \/ (engine[held] \in {"created", "exited"} /\ engine'[held] = "running")
    BY <1>2, <1>6, MaybeDoneTouches DEF EngineStates
  <2>2. TypeOK' /\ Progress'
    BY <1>1, <1>6, <2>1, AfterRaise DEF IInv, TypeOK
  <2> QED
    BY <1>1, <1>2, <1>3, <1>6, <2>1, <2>2, AfterRaise
    DEF IInv, TypeOK, Exists, UpStatus,
     Progress, StartInOrder, HeldIsKnown, UpMeansStartedInThisSession, StopComesFirst,
     StoppedNeverRuns, OpensOnClean, NothingLeftBehind, ClosedMeansGone
<1> QED
  BY <1>1, <1>5, <1>6 DEF StartContainer

LEMMA MakeWorkdirInv == IInv /\ MakeWorkdir => IInv'
<1> SUFFICES ASSUME IInv, MakeWorkdir PROVE IInv'
  OBVIOUS
<1>1. /\ todo # <<>> /\ Calling("mkdir") /\ status = "container_running"
      /\ UNCHANGED <<held, engine, told, fresh>>
      /\ ~Calling("create_container") /\ ~Calling("start_container") /\ ~Calling("stop")
  BY DEF MakeWorkdir, Calling, IInv, StartInOrder
<1>2. operation \in {"open", "start"}
  <2>1. operation \in Operations /\ todo \in CallsLeft(operation) /\ Head(todo) = "mkdir"
    BY <1>1, Pending DEF Calling
  <2> QED
    BY <2>1, CallLists, Tails DEF Methods, DriverCalls
<1>3. status' \in UpStatus /\ todo \notin BeforeContainer
  BY <1>1, Tails DEF MakeWorkdir, UpStatus, BeforeContainer, Calling
<1>4. CASE Return
  BY <1>1, <1>2, <1>3, <1>4, AfterReturn DEF IInv, TypeOK, Status, UpStatus, Exists,
     Progress, StartInOrder, HeldIsKnown, UpMeansStartedInThisSession, StopComesFirst,
     StoppedNeverRuns, OpensOnClean, NothingLeftBehind, ClosedMeansGone
<1>5. CASE Raise
  BY <1>1, <1>2, <1>3, <1>5, AfterRaise DEF IInv, TypeOK, Status, UpStatus, Exists,
     Progress, StartInOrder, HeldIsKnown, UpMeansStartedInThisSession, StopComesFirst,
     StoppedNeverRuns, OpensOnClean, NothingLeftBehind, ClosedMeansGone
<1> QED
  BY <1>4, <1>5 DEF MakeWorkdir

(* A stop that returns leaves no running container behind.                  *)
LEMMA StopInv == IInv /\ Stop => IInv'
<1> SUFFICES ASSUME IInv, Stop PROVE IInv'
  OBVIOUS
<1>1. /\ todo # <<>> /\ Calling("stop")
      /\ UNCHANGED <<held, told, fresh>>
      /\ ~Calling("create_container") /\ ~Calling("start_container") /\ ~Calling("destroy")
  BY DEF Stop, Calling
<1>2. todo \notin BeforeContainer /\ todo # <<"destroy">>
  BY <1>1, Tails DEF BeforeContainer, Calling, Methods
<1>3. ASSUME Return PROVE ~(operation' = "close" /\ outcome' = "ok")
  <2>1. operation = "close" => todo = <<"stop", "destroy">>
    BY <1>1, <1>2, Pending DEF CallsLeft
  <2>2. Tail(<<"stop", "destroy">>) # <<>>
    OBVIOUS
  <2> QED
    BY <1>1, <1>3, <2>1, <2>2, AfterReturn DEF Return
<1>4. EndOfRun \in {"exited", "removed"} /\ EndOfRun \in EngineStates
  BY DEF EndOfRun, EngineStates
<1>5. ASSUME StopIsNoop, UNCHANGED <<status, engine>>, Return
      PROVE  IInv'
  BY <1>1, <1>2, <1>3, <1>5, AfterReturn DEF IInv, TypeOK, Exists, StopIsNoop,
     Progress, StartInOrder, HeldIsKnown, UpMeansStartedInThisSession, StopComesFirst,
     StoppedNeverRuns, OpensOnClean, NothingLeftBehind, ClosedMeansGone
<1>6. ASSUME ~StopIsNoop, Exists(held), status' = "stopped", Return,
             engine' = IF engine[held] = "running"
                       THEN [engine EXCEPT ![held] = EndOfRun] ELSE engine
      PROVE  IInv'
  <2>1. held \in Containers
    BY <1>6 DEF StopIsNoop, IInv, TypeOK
  <2>2. /\ engine' \in [Containers -> EngineStates]
        /\ \A c \in Containers : c # held => engine'[c] = engine[c]
        /\ engine'[held] # "running" /\ engine'[held] # "absent"
    BY <1>4, <1>6, <2>1 DEF IInv, TypeOK, Exists, EngineStates
  <2>3. TypeOK' /\ Progress'
    BY <1>1, <1>6, <2>2, AfterReturn DEF IInv, TypeOK, Status
  <2> QED
    BY <1>1, <1>2, <1>3, <1>6, <2>1, <2>2, <2>3, AfterReturn
    DEF IInv, TypeOK, Exists, UpStatus,
     Progress, StartInOrder, HeldIsKnown, UpMeansStartedInThisSession, StopComesFirst,
     StoppedNeverRuns, OpensOnClean, NothingLeftBehind, ClosedMeansGone
<1>7. ASSUME ~StopIsNoop, MaybeDone({"running"}, EndOfRun), UNCHANGED status, Raise
      PROVE  IInv'
  <2>1. held \in Containers
    BY <1>7 DEF StopIsNoop, IInv, TypeOK
  <2>2. /\ engine' \in [Containers -> EngineStates]
        /\ \A c \in Containers : c # held => engine'[c] = engine[c]
        /\ engine'[held] = engine[held]
             \/ (engine[held] = "running" /\ engine'[held] \in {"exited", "removed"})
    BY <1>4, <1>7, <2>1, MaybeDoneTouches
  <2>3. TypeOK' /\ Progress'
    BY <1>1, <1>7, <2>2, AfterRaise DEF IInv, TypeOK
  <2> QED
    BY <1>1, <1>7, <2>1, <2>2, <2>3, AfterRaise
    DEF IInv, TypeOK, Exists, UpStatus,
     Progress, StartInOrder, HeldIsKnown, UpMeansStartedInThisSession, StopComesFirst,
     StoppedNeverRuns, OpensOnClean, NothingLeftBehind, ClosedMeansGone
<1> QED
  BY <1>1, <1>5, <1>6, <1>7 DEF Stop

(* A remove that returns leaves nothing; one that raises may, but the       *)
(* container no longer runs.                                                *)
LEMMA DestroyInv ==
  ASSUME IInv, NEW method \in {"destroy", "destroy_force"}, NEW force \in BOOLEAN,
         Destroy(method, force), method = "destroy_force" => client = "direct"
  PROVE  IInv'
<1>1. /\ todo # <<>> /\ Calling(method) /\ status' = "removed"
      /\ UNCHANGED <<held, told, fresh>>
      /\ ~Calling("create_container") /\ ~Calling("start_container") /\ ~Calling("stop")
  BY DEF Destroy, Calling
<1>2. /\ todo \notin BeforeContainer
      /\ client # "direct" /\ held # NoContainer => engine[held] # "running"
  BY <1>1, Tails DEF BeforeContainer, Calling, IInv, StopComesFirst, StoppedNeverRuns
<1>3. ASSUME held = NoContainer, UNCHANGED engine, Return
      PROVE  IInv'
  <2>1. held \notin told
    BY <1>3, NoContainerAssumption DEF IInv, TypeOK
  <2> QED
    BY <1>1, <1>2, <1>3, <2>1, AfterReturn DEF IInv, TypeOK, Status, UpStatus, Exists,
     Progress, StartInOrder, HeldIsKnown, UpMeansStartedInThisSession, StopComesFirst,
     StoppedNeverRuns, OpensOnClean, NothingLeftBehind, ClosedMeansGone
<1>4. ASSUME held # NoContainer, engine[held] \in Removable(force),
             engine' = [engine EXCEPT ![held] = "removed"], Return
      PROVE  IInv'
  <2>1. held \in Containers
    BY <1>4 DEF IInv, TypeOK
  <2>2. /\ engine' \in [Containers -> EngineStates]
        /\ \A c \in Containers : c # held => engine'[c] = engine[c]
        /\ engine'[held] = "removed"
    BY <1>4, <2>1 DEF IInv, TypeOK, EngineStates
  <2>3. TypeOK' /\ Progress'
    BY <1>1, <1>4, <2>2, AfterReturn DEF IInv, TypeOK, Status
  <2> QED
    BY <1>1, <1>2, <1>4, <2>1, <2>2, <2>3, AfterReturn
    DEF IInv, TypeOK, Exists, UpStatus,
     Progress, StartInOrder, HeldIsKnown, UpMeansStartedInThisSession, StopComesFirst,
     StoppedNeverRuns, OpensOnClean, NothingLeftBehind, ClosedMeansGone
<1>5. ASSUME held # NoContainer, MaybeDone(Removable(force), "removed"), Raise
      PROVE  IInv'
  <2>1. held \in Containers
    BY <1>5 DEF IInv, TypeOK
  <2>2. /\ engine' \in [Containers -> EngineStates]
        /\ \A c \in Containers : c # held => engine'[c] = engine[c]
        /\ engine'[held] = engine[held] \/ engine'[held] = "removed"
    BY <1>5, <2>1, MaybeDoneTouches DEF EngineStates
  <2>3. TypeOK' /\ Progress'
    BY <1>1, <1>5, <2>2, AfterRaise DEF IInv, TypeOK, Status
  <2> QED
    BY <1>1, <1>2, <1>5, <2>1, <2>2, <2>3, AfterRaise
    DEF IInv, TypeOK, Exists, UpStatus,
     Progress, StartInOrder, HeldIsKnown, UpMeansStartedInThisSession, StopComesFirst,
     StoppedNeverRuns, OpensOnClean, NothingLeftBehind, ClosedMeansGone
<1> QED
  BY <1>1, <1>3, <1>4, <1>5 DEF Destroy

(* Nothing the engine does by itself brings a container back.               *)
LEMMA ContainerExitsInv == IInv /\ ContainerExits => IInv'
<1> SUFFICES ASSUME IInv, ContainerExits PROVE IInv'
  OBVIOUS
<1>1. PICK c \in Containers : engine[c] = "running" /\ engine' = [engine EXCEPT ![c] = EndOfRun]
  BY DEF ContainerExits
<1>2. /\ UNCHANGED <<client, autoRemove, status, held, todo, operation, outcome, told, fresh>>
      /\ EndOfRun \in {"exited", "removed"}
  BY DEF ContainerExits, EndOfRun
<1>3. \A d \in Containers : engine'[d] = engine[d] \/ (engine[d] = "running" /\ engine'[d] \in {"exited", "removed"})
  BY <1>1, <1>2 DEF IInv, TypeOK
<1>4. TypeOK'
  BY <1>1, <1>2 DEF IInv, TypeOK, EngineStates
<1>5. Progress' /\ StartInOrder' /\ StopComesFirst'
  BY <1>2 DEF IInv, Progress, StartInOrder, StopComesFirst, Calling
<1> QED
  BY <1>2, <1>3, <1>4, <1>5 DEF IInv, TypeOK, Exists, HeldIsKnown, UpMeansStartedInThisSession,
     StoppedNeverRuns, OpensOnClean, NothingLeftBehind, ClosedMeansGone

LEMMA StepInv == IInv /\ [Next]_vars => IInv'
<1> SUFFICES ASSUME IInv, [Next]_vars PROVE IInv'
  OBVIOUS
<1>1. CASE ClientStep
  BY <1>1, ClientInv
<1>2. CASE Create \/ PrepareImage \/ Exec
  BY <1>2, PrepareInv
<1>3. CASE Start
  BY <1>3, StartInv
<1>4. CASE CreateContainer
  BY <1>4, CreateContainerInv
<1>5. CASE StartContainer
  BY <1>5, StartContainerInv
<1>6. CASE MakeWorkdir
  BY <1>6, MakeWorkdirInv
<1>7. CASE Stop
  BY <1>7, StopInv
<1>8. CASE Destroy("destroy", FALSE)
  BY <1>8, DestroyInv
<1>9. CASE Destroy("destroy_force", TRUE)
  (* close_session removes without force: only a direct caller does it. *)
  <2>1. todo # <<>> /\ Head(todo) = "destroy_force"
    BY <1>9 DEF Destroy, Calling
  <2>2. operation \in Operations /\ todo \in CallsLeft(operation)
    BY <2>1, Pending
  <2>3. operation \notin {"none", "open", "execute", "close"}
    BY <2>1, <2>2 DEF CallsLeft, BeforeContainer, StartCalls
  <2> QED
    BY <1>9, <2>3, DestroyInv DEF IInv, Progress
<1>10. CASE ContainerExits
  BY <1>10, ContainerExitsInv
<1>11. CASE UNCHANGED vars
  BY <1>11 DEF vars, IInv, TypeOK, Exists, Calling,
     Progress, StartInOrder, HeldIsKnown, UpMeansStartedInThisSession, StopComesFirst,
     StoppedNeverRuns, OpensOnClean, NothingLeftBehind, ClosedMeansGone
<1> QED
  BY <1>1, <1>2, <1>3, <1>4, <1>5, <1>6, <1>7, <1>8, <1>9, <1>10, <1>11 DEF Next, SandboxStep

LEMMA Inductive == Spec => []IInv
<1> QED
  BY InitInv, StepInv, PTL DEF Spec

-----------------------------------------------------------------------------
(* Paths of any length. Induction, with the set of the numbers that have    *)
(* the property.                                                            *)
LEMMA Induction ==
  ASSUME NEW T \in SUBSET Nat, 0 \in T, \A n \in T : n + 1 \in T
  PROVE  T = Nat
<1> DEFINE Out == Nat \ T
           Less == OpToRel(<, Nat)
<1> SUFFICES ASSUME Out # {} PROVE FALSE
  OBVIOUS
<1>1. IsWellFoundedOn(Less, Nat)
  BY NatLessThanWellFounded
<1>2. PICK n \in Out : \A m \in Out : ~ (<<m, n>> \in Less)
  <2> HIDE DEF Less
  <2>1. Out \subseteq Nat
    OBVIOUS
  <2> HIDE DEF Out
  <2> QED
    BY <1>1, <2>1, WFMin
<1>3. n \in Nat \ {0} /\ n - 1 \in Nat /\ n - 1 < n
  OBVIOUS
<1>4. <<n - 1, n>> \in Less
  BY <1>3 DEF OpToRel
<1>5. n - 1 \in T
  BY <1>2, <1>3, <1>4
<1> QED
  BY <1>3, <1>5

AnyPaths == [absolute : BOOLEAN, segments : Seq(Segments)]

(* normpath resolves one segment after the other: what it has got after n.  *)
NormalStep(p, g, n) ==
  IF n = 0 THEN <<>> ELSE Resolve(p.absolute, g[n - 1], p.segments[n])

LEMMA NormalFunction ==
  ASSUME NEW p \in AnyPaths
  PROVE  \E g : /\ g[0] = <<>>
                /\ \A n \in 1 .. Len(p.segments) :
                     g[n] = Resolve(p.absolute, g[n - 1], p.segments[n])
                /\ Normal(p) = g[Len(p.segments)]
<1> DEFINE Good(g, m) == g = [n \in 0 .. m |-> NormalStep(p, g, n)]
           T == {m \in Nat : \E g : Good(g, m)}
<1>0. Len(p.segments) \in Nat
  BY DEF AnyPaths
<1>1. 0 \in T
  <2> DEFINE g == [n \in 0 .. 0 |-> <<>>]
  <2>1. g = [n \in 0 .. 0 |-> NormalStep(p, g, n)]
    BY DEF NormalStep
  <2> QED
    BY <2>1
<1>2. ASSUME NEW m \in T PROVE m + 1 \in T
  <2>1. PICK g : Good(g, m)
    BY <1>2
  <2> DEFINE h == [n \in 0 .. (m + 1) |-> NormalStep(p, g, n)]
  <2>2. \A n \in 0 .. m : h[n] = g[n]
    BY <2>1
  <2>3. \A n \in 0 .. (m + 1) : NormalStep(p, g, n) = NormalStep(p, h, n)
    <3> SUFFICES ASSUME NEW n \in 0 .. (m + 1)
                 PROVE  NormalStep(p, g, n) = NormalStep(p, h, n)
      OBVIOUS
    <3>1. CASE n = 0
      BY <3>1 DEF NormalStep
    <3>2. CASE n # 0
      <4> HIDE DEF h
      <4>1. n - 1 \in 0 .. m
        BY <3>2
      <4>2. h[n - 1] = g[n - 1]
        BY <2>2, <4>1
      <4> QED
        BY <4>2 DEF NormalStep
    <3> QED
      BY <3>1, <3>2
  <2>4. Good(h, m + 1)
    <3>1. h = [n \in 0 .. (m + 1) |-> NormalStep(p, g, n)]
      OBVIOUS
    <3> HIDE DEF h
    <3> QED
      BY <2>3, <3>1
  <2> QED
    <3> HIDE DEF h, Good
    <3> QED
      BY <2>4
<1>3. \E g : Good(g, Len(p.segments))
  <2>1. T = Nat
    <3>1. T \in SUBSET Nat
      OBVIOUS
    <3> HIDE DEF T
    <3> QED
      BY <1>1, <1>2, <3>1, Induction
  <2> QED
    BY <1>0, <2>1
<1> DEFINE g == CHOOSE g : g = [n \in 0 .. Len(p.segments) |-> NormalStep(p, g, n)]
<1>4. g = [n \in 0 .. Len(p.segments) |-> NormalStep(p, g, n)]
  BY <1>3
<1>5. Normal(p) = g[Len(p.segments)]
  BY DEF Normal, NormalStep
<1> HIDE DEF g
<1>6. \A n \in 0 .. Len(p.segments) : g[n] = NormalStep(p, g, n)
  BY <1>4
<1>7. g[0] = <<>> /\ \A n \in 1 .. Len(p.segments) : g[n] = Resolve(p.absolute, g[n - 1], p.segments[n])
  <2>1. 0 \in 0 .. Len(p.segments) /\ \A n \in 1 .. Len(p.segments) : n \in 0 .. Len(p.segments) /\ n # 0
    BY <1>0
  <2> QED
    BY <1>6, <2>1 DEF NormalStep
<1> QED
  BY <1>5, <1>7

(* A path that normpath returns: what leads up stands at its beginning, and *)
(* nothing does in an absolute one.                                         *)
IsNormal(absolute, q) ==
  /\ q \in Seq({"up", "dotted", "name"})
  /\ \A i \in 1 .. Len(q) : q[i] = "up" => ~absolute /\ \A k \in 1 .. i : q[k] = "up"

LEMMA ResolveKeepsNormal ==
  ASSUME NEW a \in BOOLEAN, NEW q, NEW s \in Segments, IsNormal(a, q)
  PROVE  IsNormal(a, Resolve(a, q, s))
<1> DEFINE N == {"up", "dotted", "name"}
<1>0. q \in Seq(N) /\ Len(q) \in Nat /\ \A i \in 1 .. Len(q) : q[i] \in N
  BY DEF IsNormal
<1>1. CASE s = "here"
  BY <1>1 DEF Resolve
<1>2. CASE s \in {"dotted", "name"}
  <2>1. Resolve(a, q, s) = Append(q, s)
    BY <1>2 DEF Resolve
  <2>2. /\ Append(q, s) \in Seq(N) /\ Len(Append(q, s)) = Len(q) + 1
        /\ \A i \in 1 .. Len(q) : Append(q, s)[i] = q[i]
        /\ Append(q, s)[Len(q) + 1] = s
    BY <1>0, <1>2
  <2>3. \A i \in 1 .. (Len(q) + 1) : i \in 1 .. Len(q) \/ i = Len(q) + 1
    BY <1>0
  <2>4. \A i \in 1 .. Len(q) : \A k \in 1 .. i : k \in 1 .. Len(q)
    BY <1>0
  <2> HIDE DEF N
  <2> QED
    BY <1>2, <2>1, <2>2, <2>3, <2>4 DEF IsNormal, N
<1>3. CASE s = "up" /\ q # <<>> /\ Last(q) # "up"
  <2>1. Resolve(a, q, s) = SubSeq(q, 1, Len(q) - 1)
    BY <1>3 DEF Resolve, Front
  <2>2. /\ SubSeq(q, 1, Len(q) - 1) \in Seq(N) /\ Len(SubSeq(q, 1, Len(q) - 1)) = Len(q) - 1
        /\ \A i \in 1 .. (Len(q) - 1) : SubSeq(q, 1, Len(q) - 1)[i] = q[i] /\ i \in 1 .. Len(q)
    <3> DEFINE m == Len(q) - 1
    <3>1. m \in Nat /\ m <= Len(q)
      BY <1>0, <1>3
    <3>2. \A i \in 1 .. m : i \in 1 .. Len(q)
      BY <1>0, <3>1
    <3> HIDE DEF m, N
    <3>3. SubSeq(q, 1, m) \in Seq(N)
      BY <1>0, <3>1, <3>2
    <3>4. Len(SubSeq(q, 1, m)) = m /\ \A i \in 1 .. m : SubSeq(q, 1, m)[i] = q[i]
      BY <1>0, <3>1, <3>2
    <3> QED
      BY <3>2, <3>3, <3>4 DEF m
  <2>3. \A i \in 1 .. (Len(q) - 1) : \A k \in 1 .. i : k \in 1 .. (Len(q) - 1)
    BY <1>0
  <2> HIDE DEF N
  <2> QED
    BY <2>1, <2>2, <2>3 DEF IsNormal, N
<1>4. CASE s = "up" /\ (q = <<>> \/ Last(q) = "up") /\ a
  BY <1>4 DEF Resolve
<1>5. CASE s = "up" /\ (q = <<>> \/ Last(q) = "up") /\ ~a
  <2>1. Resolve(a, q, s) = Append(q, "up")
    BY <1>5 DEF Resolve
  <2>2. /\ Append(q, "up") \in Seq(N) /\ Len(Append(q, "up")) = Len(q) + 1
        /\ \A i \in 1 .. Len(q) : Append(q, "up")[i] = q[i]
        /\ Append(q, "up")[Len(q) + 1] = "up"
    BY <1>0
  <2>3. \A i \in 1 .. Len(q) : q[i] = "up"
    <3>1. CASE q = <<>>
      BY <3>1
    <3>2. CASE q # <<>>
      <4>1. Len(q) \in 1 .. Len(q) /\ q[Len(q)] = "up"
        BY <1>0, <1>5, <3>2 DEF Last
      <4> QED
        BY <4>1 DEF IsNormal
    <3> QED
      BY <3>1, <3>2
  <2>4. \A i \in 1 .. (Len(q) + 1) : i \in 1 .. Len(q) \/ i = Len(q) + 1
    BY <1>0
  <2>5. \A i \in 1 .. (Len(q) + 1) : \A k \in 1 .. i : k \in 1 .. (Len(q) + 1)
    BY <1>0
  <2> HIDE DEF N
  <2> QED
    BY <1>5, <2>1, <2>2, <2>3, <2>4, <2>5 DEF IsNormal, N
<1> QED
  BY <1>1, <1>2, <1>3, <1>4, <1>5 DEF Segments

LEMMA NormalIsNormal ==
  ASSUME NEW p \in AnyPaths
  PROVE  IsNormal(p.absolute, Normal(p))
<1>1. PICK g : /\ g[0] = <<>>
               /\ \A n \in 1 .. Len(p.segments) :
                    g[n] = Resolve(p.absolute, g[n - 1], p.segments[n])
               /\ Normal(p) = g[Len(p.segments)]
  BY NormalFunction
<1>2. /\ Len(p.segments) \in Nat /\ p.absolute \in BOOLEAN
      /\ \A n \in 1 .. Len(p.segments) : p.segments[n] \in Segments
  BY DEF AnyPaths
<1> DEFINE T == {n \in Nat : n <= Len(p.segments) => IsNormal(p.absolute, g[n])}
<1>3. 0 \in T
  <2>1. <<>> \in Seq({"up", "dotted", "name"}) /\ Len(<<>>) = 0 /\ 1 .. 0 = {}
    OBVIOUS
  <2>2. IsNormal(p.absolute, g[0])
    BY <1>1, <2>1 DEF IsNormal
  <2> QED
    BY <2>2
<1>4. ASSUME NEW n \in T PROVE n + 1 \in T
  <2> SUFFICES ASSUME n + 1 <= Len(p.segments) PROVE IsNormal(p.absolute, g[n + 1])
    OBVIOUS
  <2>1. n + 1 \in 1 .. Len(p.segments) /\ (n + 1) - 1 = n /\ n <= Len(p.segments)
    BY <1>2
  <2>2. g[n + 1] = Resolve(p.absolute, g[n], p.segments[n + 1])
    BY <1>1, <2>1
  <2> QED
    BY <1>2, <2>1, <2>2, ResolveKeepsNormal
<1>5. T = Nat
  <2>1. T \in SUBSET Nat
    OBVIOUS
  <2> HIDE DEF T
  <2> QED
    BY <1>3, <1>4, <2>1, Induction
<1> QED
  BY <1>1, <1>2, <1>5

(* A path without "." and ".." is left as it is.                            *)
LEMMA NamesStay ==
  ASSUME NEW a \in BOOLEAN, NEW s \in Seq({"dotted", "name"})
  PROVE  Normal([absolute |-> a, segments |-> s]) = s
<1> DEFINE p == [absolute |-> a, segments |-> s]
<1>0. p \in AnyPaths /\ p.absolute = a /\ p.segments = s
  BY DEF AnyPaths, Segments
<1> HIDE DEF p
<1>1. PICK g : /\ g[0] = <<>>
               /\ \A n \in 1 .. Len(s) : g[n] = Resolve(a, g[n - 1], s[n])
               /\ Normal(p) = g[Len(s)]
  BY <1>0, NormalFunction
<1>2. Len(s) \in Nat /\ \A n \in 1 .. Len(s) : s[n] \in {"dotted", "name"}
  OBVIOUS
<1> DEFINE T == {n \in Nat : n <= Len(s) => g[n] = SubSeq(s, 1, n)}
<1>3. 0 \in T
  <2>1. SubSeq(s, 1, 0) = <<>>
    OBVIOUS
  <2> QED
    BY <1>1, <2>1
<1>4. ASSUME NEW n \in T PROVE n + 1 \in T
  <2> SUFFICES ASSUME n + 1 <= Len(s) PROVE g[n + 1] = SubSeq(s, 1, n + 1)
    OBVIOUS
  <2>1. n + 1 \in 1 .. Len(s) /\ (n + 1) - 1 = n /\ n <= Len(s)
    BY <1>2
  <2>2. g[n + 1] = Append(g[n], s[n + 1])
    BY <1>1, <1>2, <2>1 DEF Resolve
  <2>3. SubSeq(s, 1, n + 1) = Append(SubSeq(s, 1, n), s[n + 1])
    BY <2>1
  <2> QED
    BY <2>1, <2>2, <2>3
<1>5. T = Nat
  <2>1. T \in SUBSET Nat
    OBVIOUS
  <2> HIDE DEF T
  <2> QED
    BY <1>3, <1>4, <2>1, Induction
<1>6. SubSeq(s, 1, Len(s)) = s
  OBVIOUS
<1>7. g[Len(s)] = SubSeq(s, 1, Len(s))
  <2>1. Len(s) \in T
    BY <1>2, <1>5
  <2> QED
    BY <1>2, <2>1
<1> QED
  BY <1>1, <1>6, <1>7 DEF p

(* What safe_join makes of a path it accepts has no way up left in it, and  *)
(* begins with the working directory, for paths of any length.              *)
LEMMA AcceptedPaths ==
  ASSUME NEW p \in AnyPaths, NEW workdir \in Seq({"dotted", "name"}), ~Escapes(p)
  PROVE  /\ SafeJoin(workdir, p) \in Seq({"dotted", "name"})
         /\ IsPrefix(workdir, SafeJoin(workdir, p))
<1> DEFINE q == Normal(p)
<1>1. IsNormal(p.absolute, q)
  BY NormalIsNormal
<1> HIDE DEF q
<1>2. q \in Seq({"up", "dotted", "name"}) /\ Len(q) \in Nat
  BY <1>1 DEF IsNormal
<1>3. \A i \in 1 .. Len(q) : q[i] # "up"
  <2> SUFFICES ASSUME NEW i \in 1 .. Len(q), q[i] = "up" PROVE FALSE
    OBVIOUS
  <2>1. 1 \in 1 .. i /\ q # <<>> /\ Head(q) = q[1]
    BY <1>2
  <2>2. q[1] = "up"
    BY <1>1, <2>1 DEF IsNormal
  <2> QED
    BY <2>1, <2>2 DEF Escapes, q
<1>4. q \in Seq({"dotted", "name"})
  <2>1. \A i \in 1 .. Len(q) : q[i] \in {"dotted", "name"}
    BY <1>2, <1>3
  <2> QED
    BY <1>2, <2>1
<1>5. IsPrefix(workdir, workdir \o q)
  BY <1>4 DEF IsPrefix
<1> QED
  BY <1>4, <1>5 DEF SafeJoin, q

-----------------------------------------------------------------------------
(* Theorems                                                                 *)

(* Every variable keeps its type: in particular the sandbox never holds     *)
(* anything but a container whose id it was given.                          *)
THEOREM TypeCorrect == Spec => []TypeOK
<1>1. IInv => TypeOK
  BY DEF IInv
<1> QED
  BY <1>1, Inductive, PTL

(* A command that _require_running lets through goes to the container of    *)
(* this session, which was started, for any number of failed openings       *)
(* before.                                                                  *)
THEOREM CommandsGoToThisSession == Spec => []UpMeansStartedInThisSession
<1>1. IInv => UpMeansStartedInThisSession
  BY DEF IInv
<1> QED
  BY <1>1, Inductive, PTL

(* A client that closes its sessions loses no container, whichever of its   *)
(* calls raise, and with or without effect.                                 *)
THEOREM SessionsLeaveNothing == Spec => []NothingLeftBehind
<1>1. IInv => NothingLeftBehind
  BY DEF IInv
<1> QED
  BY <1>1, Inductive, PTL

(* The unforced remove of close_session meets a container that it can       *)
(* remove or one that is gone, for any number of closes that raised before. *)
THEOREM DestroyMeetsNoRunning == Spec => []OnlyGoneContainersBlockClose
<1>1. IInv => OnlyGoneContainersBlockClose
  <2> SUFFICES ASSUME IInv, client # "direct", Calling("destroy"), held # NoContainer
               PROVE  engine[held] \in Removable(FALSE) \cup {"removed"}
    BY DEF OnlyGoneContainersBlockClose
  <2>1. engine[held] # "running"
    BY DEF IInv, StopComesFirst, StoppedNeverRuns
  <2>2. held \in Containers /\ engine[held] # "absent" /\ engine[held] \in EngineStates
    BY DEF IInv, HeldIsKnown, TypeOK
  <2> QED
    BY <2>1, <2>2 DEF EngineStates, Removable
<1> QED
  BY <1>1, Inductive, PTL

(* The file of a command that gets through lies below the working           *)
(* directory, however long its path is and whatever the controller: each    *)
(* operator's own check refuses what PathPolicy would, and what is left of  *)
(* an accepted path after posixpath.normpath never leads up (safe_join).    *)
THEOREM FilesStayBelow ==
  ASSUME NEW ctl, NEW cmd, NEW workdir \in Seq({"dotted", "name"}),
         cmd.action \in PathActions, cmd.path \in AnyPaths, Verdict(ctl, cmd) = "runs"
  PROVE  LET file == SafeJoin(workdir, cmd.path)
         IN  /\ Normal([absolute |-> TRUE, segments |-> file]) = file
             /\ IsPrefix(workdir, file)
<1>1. ~Escapes(cmd.path)
  BY DEF Verdict, OperatorVerdict
<1> QED
  BY <1>1, AcceptedPaths, NamesStay
===============================================================================
