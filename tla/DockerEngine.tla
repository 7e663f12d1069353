------------------------------ MODULE DockerEngine ------------------------------
(****************************************************************************)
(* The container engine as DockerSdkDriver uses it: each method is one call *)
(* of the engine's client, whose errors it turns into its own. An image is  *)
(* what it was built from: the same content is the same image.              *)
(****************************************************************************)
EXTENDS Naturals

CONSTANTS
  ImageIds,
  ContainerIds,
  Jobs,             \* who creates containers
  None

VARIABLES
  built,            \* the images the engine has
  boxes             \* its containers

engineVars == <<built, boxes>>

Boxes == [state : {"created", "running", "gone"}, by : Jobs]

EngineInit == built = {} /\ boxes = [b \in ContainerIds |-> None]

(* build_image raises as well when the build's log tells of an error.       *)
BuildImage(i) ==
  /\ built' = built \cup {i}
  /\ UNCHANGED boxes

CreateBox(b, maker) ==
  /\ boxes[b] = None
  /\ boxes' = [boxes EXCEPT ![b] = [state |-> "created", by |-> maker]]
  /\ UNCHANGED built

StartBox(b) ==
  /\ boxes[b].state # "gone"
  /\ boxes' = [boxes EXCEPT ![b].state = "running"]
  /\ UNCHANGED built

RemoveBox(b) ==
  /\ boxes[b].state # "gone"
  /\ boxes' = [boxes EXCEPT ![b].state = "gone"]
  /\ UNCHANGED built

(* inspect_container; a main process may have ended.                        *)
SeenRunning(b) == {FALSE, boxes[b].state = "running"}

EngineTypeOK ==
  /\ built \subseteq ImageIds
  /\ boxes \in [ContainerIds -> Boxes \cup {None}]

Exists(b) == boxes[b] # None /\ boxes[b].state # "gone"
=============================================================================
