----------------------------- MODULE RuntimeDeploy -----------------------------
(****************************************************************************)
(* What SdkTestAgent makes outside itself: the java deploy loop             *)
(* (MinimalLoopService.run_java_deploy), the execution engine's steps that  *)
(* build an image, create a runtime and inspect it, and the removal and     *)
(* registration calls of RuntimeManagerService, over the artifact store,    *)
(* the runtime registry and the container engine. No method undoes anything.*)
(*                                                                          *)
(* A job is one caller; what it still has to do is a list of calls. The     *)
(* first one returns, or raises with or without having had its effect: this *)
(* includes a process that dies, since all that a job knows dies with it.   *)
(* Jobs are processes or threads that share the databases; each insert is   *)
(* atomic.                                                                  *)
(****************************************************************************)
EXTENDS ArtifactStore, RuntimeRegistry, Inspection, Sequences, SequencesExt

CONSTANTS
  TaskOf,           \* the task id of each job: fresh for a deployment
  KindSets,         \* the kinds the jobs may have; "none" never starts
  MaxRounds         \* how often a plan is run for its task (replans)

ASSUME DeployAssumption ==
  /\ TaskOf \in [Jobs -> Tasks]
  /\ \A j, k \in Jobs : TaskOf[j] = TaskOf[k] => j = k
  /\ Owners = Tasks
  /\ KindSets \subseteq [Jobs -> {"deploy", "run", "remove", "setup", "none"}]
  /\ MaxRounds \in Nat \ {0}
  /\ None \notin ImageIds \cup ContainerIds \cup Boxes
  /\ {"app.jar", "pom.xml", "settings.xml", "Dockerfile", "build.log", "log", "env_report",
      "collected_context", "summary"} \subseteq Names

VARIABLES
  kind,             \* what each job does
  status,           \* where it is
  todo,             \* the calls it has not made yet
  round,            \* how often it was started
  image,            \* the image it has built
  box,              \* the container it has created, or is to remove
  report,           \* what its inspections found
  raised            \* one of its calls has raised

jobVars == <<kind, status, todo, round, image, box, report, raised>>
vars == <<storeVars, registryVars, jobVars, engineVars>>

Init ==
  /\ StoreInit /\ RegistryInit /\ EngineInit
  /\ kind \in KindSets
  /\ status = [j \in Jobs |-> "idle"]
  /\ todo = [j \in Jobs |-> <<>>]
  /\ round = [j \in Jobs |-> 0]
  /\ image = [j \in Jobs |-> None]
  /\ box = [j \in Jobs |-> None]
  /\ report = [j \in Jobs |-> NoReport]
  /\ raised = [j \in Jobs |-> FALSE]

-----------------------------------------------------------------------------
(* The calls each method makes, in their order; those of one step of a plan *)
(* share its number; "by" tells an executor's calls from the engine's own.  *)

Do(ops, step, by) ==
  [i \in DOMAIN ops |-> [op |-> ops[i], name |-> "none", step |-> step, by |-> by]]

PersistArtifact(name, step, by) ==
  <<[op |-> "file", name |-> name, step |-> step, by |-> by],
    [op |-> "row",  name |-> name, step |-> step, by |-> by]>>

CreateTask       == <<"task">>
CreateStage      == <<"stage">>
RegisterImage    == <<"image">>
CreateContainer  == <<"create", "start", "container">>
CreateDeployment == <<"deployment">>

(* Variant: the row says so before it is so.                                *)
MarkFirst       == <<"mark", "remove">>
RemoveContainer == <<"remove", "mark">>

RegisterHost   == <<"host">>
RegisterEngine == <<"engine">>

(* Variant: the deployment is recorded before the container is.             *)
DeployRecordedFirst(settings) ==
  Do(CreateTask \o CreateStage, 0, "caller") \o PersistArtifact("app.jar", 0, "caller")
  \o PersistArtifact("pom.xml", 0, "caller") \o PersistArtifact("Dockerfile", 0, "caller")
  \o Do(<<"build", "image", "create", "start", "deployment", "container">>, 0, "caller")

Deploy(settings) ==
  Do(CreateTask \o CreateStage, 0, "caller")
  \o PersistArtifact("app.jar", 0, "caller") \o PersistArtifact("pom.xml", 0, "caller")
  \o (IF settings THEN PersistArtifact("settings.xml", 0, "caller") ELSE <<>>)
  \o Do(<<"package">>, 0, "caller") \o PersistArtifact("Dockerfile", 0, "caller")
  \o Do(<<"build">> \o RegisterImage \o CreateContainer \o <<"inspect">> \o CreateDeployment, 0, "caller")

(* A plan of four steps, and the engine's own artifacts: the log of the     *)
(* build, which its executor persists too, and the summary.                 *)
BuildImageStep == Do(<<"build">>, 1, "executor") \o PersistArtifact("build.log", 1, "executor")
StepLog        == PersistArtifact("log", 1, "engine")
CreateRuntimeStep == Do(CreateContainer \o CreateDeployment, 2, "executor")
InspectEnvironmentStep == Do(<<"inspect">>, 3, "executor") \o PersistArtifact("env_report", 3, "executor")
CollectArtifactStep == PersistArtifact("collected_context", 4, "executor")
Summary == PersistArtifact("summary", 5, "engine")

RunPlan ==
  BuildImageStep \o StepLog \o CreateRuntimeStep \o InspectEnvironmentStep
  \o CollectArtifactStep \o Summary

Start(j) ==
  /\ status[j] = "idle" \/ (kind[j] = "run" /\ status[j] # "busy" /\ round[j] < MaxRounds)
  /\ \/ kind[j] = "deploy" /\ \E s \in BOOLEAN : todo' = [todo EXCEPT ![j] = Deploy(s)]
                           /\ box' = [box EXCEPT ![j] = None]
     \/ kind[j] = "run"    /\ todo' = [todo EXCEPT ![j] = RunPlan]
                           /\ box' = [box EXCEPT ![j] = None]
     \/ kind[j] = "setup"  /\ todo' = [todo EXCEPT ![j] = Do(RegisterHost \o RegisterEngine, 0, "caller")]
                           /\ UNCHANGED box
     \/ kind[j] = "remove" /\ todo' = [todo EXCEPT ![j] = Do(RemoveContainer, 0, "caller")]
                           /\ \E row \in containers : box' = [box EXCEPT ![j] = row.id]
  /\ status' = [status EXCEPT ![j] = "busy"]
  /\ round' = [round EXCEPT ![j] = @ + 1]
  /\ image' = [image EXCEPT ![j] = None]
  /\ report' = [report EXCEPT ![j] = NoReport]
  /\ UNCHANGED <<storeVars, registryVars, kind, raised, engineVars>>

-----------------------------------------------------------------------------
(* The calls                                                                *)

Facing(j, op) == status[j] = "busy" /\ Head(todo[j]).op = op

Path(j) == <<TaskOf[j], Head(todo[j]).name>>

(* The call returned.                                                       *)
Returned(j) ==
  /\ todo' = [todo EXCEPT ![j] = Tail(@)]
  /\ status' = [status EXCEPT ![j] = IF Len(todo[j]) = 1 THEN "returned" ELSE "busy"]
  /\ UNCHANGED <<kind, round, raised>>

Keeps(j) == Returned(j) /\ UNCHANGED <<image, box, report>>

StoreCall(j) ==
  /\ \/ Facing(j, "task")  /\ InsertTask(TaskOf[j])
     \/ Facing(j, "stage") /\ InsertStage(TaskOf[j])
     \/ Facing(j, "file")  /\ WriteFile(Path(j), TRUE)
     \/ Facing(j, "row")   /\ InsertArtifact(Path(j), kind[j] = "deploy")
  /\ Keeps(j)
  /\ UNCHANGED <<registryVars, engineVars>>

Build(j) ==
  /\ Facing(j, "build")
  /\ \E i \in ImageIds : BuildImage(i) /\ image' = [image EXCEPT ![j] = i]
  /\ Returned(j)
  /\ UNCHANGED <<storeVars, registryVars, box, report>>

(* A runtime step finds the image in the outputs of the steps before it.    *)
Create(j) ==
  /\ Facing(j, "create") /\ image[j] # None
  /\ \E b \in ContainerIds : CreateBox(b, j) /\ box' = [box EXCEPT ![j] = b]
  /\ Returned(j)
  /\ UNCHANGED <<storeVars, registryVars, image, report>>

EngineCall(j) ==
  /\ \/ Facing(j, "start")  /\ StartBox(box[j])
     \/ Facing(j, "remove") /\ RemoveBox(box[j])
  /\ Keeps(j)
  /\ UNCHANGED <<storeVars, registryVars>>

(* The environment inspector asks for the container's state, then runs its  *)
(* probes, any of which may fail, be it that the container has gone.        *)
Inspect(j) ==
  /\ \/ /\ Facing(j, "package")
        /\ \E p \in PackageInputs : report' = [report EXCEPT ![j].package = PackageStatus(p)]
     \/ /\ Facing(j, "inspect") /\ box[j] # None
        /\ \E running \in SeenRunning(box[j]), answering \in SUBSET Probes :
             report' = [report EXCEPT ![j].env = EnvStatus(running, answering),
                                      ![j].readiness = Readiness(running, answering)]
  /\ Returned(j)
  /\ UNCHANGED <<storeVars, registryVars, image, box, engineVars>>

RegistryCall(j) ==
  /\ \/ Facing(j, "image")      /\ InsertImage(image[j], TaskOf[j])
     \/ Facing(j, "container")  /\ InsertContainer(box[j], image[j], TaskOf[j])
     \/ Facing(j, "deployment") /\ InsertDeployment(TaskOf[j], image[j], box[j])
     \/ Facing(j, "mark")       /\ UpdateStatus(box[j], "removed")
     \/ Facing(j, "host")       /\ \E h \in HostIds, n \in HostNames : InsertHost(h, n)
     \/ Facing(j, "engine")     /\ InsertEngine
  /\ Keeps(j)
  /\ UNCHANGED <<storeVars, engineVars>>

-----------------------------------------------------------------------------
(* A call raises                                                            *)

(* What may have been done all the same.                                    *)
Effect(j) ==
  \/ UNCHANGED <<storeVars, engineVars>>
  \/ /\ Facing(j, "file")
     /\ \E whole \in BOOLEAN : WriteFile(Path(j), whole)
     /\ UNCHANGED engineVars
  \/ /\ \/ Facing(j, "build")  /\ \E i \in ImageIds : BuildImage(i)
        \/ Facing(j, "create") /\ image[j] # None /\ \E b \in ContainerIds : CreateBox(b, j)
        \/ Facing(j, "start")  /\ StartBox(box[j])
        \/ Facing(j, "remove") /\ RemoveBox(box[j])
     /\ UNCHANGED storeVars

(* Variant: the exception is swallowed.                                     *)
GoesOn(j) ==
  /\ todo' = [todo EXCEPT ![j] = Tail(@)]
  /\ status' = [status EXCEPT ![j] = IF Len(todo[j]) = 1 THEN "returned" ELSE "busy"]
  /\ UNCHANGED <<image, box, report>>

(* The call with which a plan whose first call fails goes on: the next      *)
(* step's first one, or that of the summary.                                *)
GoesOnWith(s, i) ==
  \/ s[i].step # s[1].step   /\ \A k \in 1 .. (i - 1) : s[k].step = s[1].step
  \/ s[i].name = "summary"   /\ \A k \in 1 .. (i - 1) : s[k].name # "summary"

(* An exception of an executor fails its step: the engine goes on, or stops *)
(* and writes its summary. What a failed step has put out is not found by   *)
(* later ones, except the container once it is registered. Every other      *)
(* exception leaves the method.                                             *)
Abandons(j) ==
  LET c == Head(todo[j]) IN
  IF c.by = "executor"
  THEN /\ \E i \in DOMAIN todo[j] :
            GoesOnWith(todo[j], i) /\ todo' = [todo EXCEPT ![j] = SubSeq(@, i, Len(@))]
       /\ image' = [image EXCEPT ![j] = IF c.step = 1 THEN None ELSE @]
       /\ box' = [box EXCEPT ![j] = IF c.op \in Range(CreateContainer) THEN None ELSE @]
       /\ UNCHANGED <<status, report>>
  ELSE /\ todo' = [todo EXCEPT ![j] = <<>>]
       /\ status' = [status EXCEPT ![j] = "failed"]
       /\ report' = [report EXCEPT ![j] = NoReport]
       /\ UNCHANGED <<image, box>>

Raises(j) ==
  /\ status[j] = "busy"
  /\ Effect(j)
  /\ Abandons(j)
  /\ raised' = [raised EXCEPT ![j] = TRUE]
  /\ UNCHANGED <<registryVars, kind, round>>

Next ==
  \E j \in Jobs :
    \/ Start(j) \/ StoreCall(j) \/ Build(j) \/ Create(j) \/ EngineCall(j) \/ Inspect(j)
    \/ RegistryCall(j) \/ Raises(j)

Spec == Init /\ [][Next]_vars

-----------------------------------------------------------------------------
(* Properties                                                               *)

(* Every table, file and job keeps its type.                                *)
TypeOK ==
  /\ StoreTypeOK /\ RegistryTypeOK /\ EngineTypeOK
  /\ kind \in KindSets
  /\ status \in [Jobs -> {"idle", "busy", "returned", "failed"}]
  /\ round \in [Jobs -> 0 .. MaxRounds]
  /\ image \in [Jobs -> ImageIds \cup {None}]
  /\ box \in [Jobs -> ContainerIds \cup {None}]
  /\ report \in [Jobs -> Reports]
  /\ raised \in [Jobs -> BOOLEAN]
  /\ \A j \in Jobs : (status[j] = "busy") <=> (todo[j] # <<>>)

(* A deployment recorded as ready by the deploy loop has all it refers to   *)
(* on record: its task and stage, the whole of its jar, pom and Dockerfile, *)
(* the image that was built, and its own container of that image.           *)
ReadyDeploymentIsBacked ==
  \A d \in deployments, j \in Jobs : kind[j] = "deploy" /\ d.task = TaskOf[j] =>
    /\ d.task \in tasks \cap stages
    /\ \A n \in {"app.jar", "pom.xml", "Dockerfile"} :
         \E a \in artifacts : a.path = <<d.task, n>> /\ files[a.path] = a.write
    /\ d.image \in built /\ Has(images, d.image)
    /\ \E c \in containers : c.id = d.container /\ c.image = d.image /\ c.owner = d.task

(* A container that the registry does not know is on its way there, or one  *)
(* of its maker's calls has raised; and one recorded as removed is gone.    *)
RegistryKnowsContainers ==
  /\ \A b \in ContainerIds : Exists(b) =>
       LET j == boxes[b].by IN
         \/ Has(containers, b)
         \/ raised[j]
         \/ box[j] = b /\ \E i \in DOMAIN todo[j] : todo[j][i].op = "container"
  /\ \A c \in containers : c.status = "removed" => ~Exists(c.id)
=============================================================================
