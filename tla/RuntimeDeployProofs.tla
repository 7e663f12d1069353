-------------------------- MODULE RuntimeDeployProofs --------------------------
(****************************************************************************)
(* Proofs about RuntimeDeploy for any number of jobs, images, containers    *)
(* and replans, with every call failing anywhere: rows describe their files,*)
(* a recorded deployment has what it refers to, and the registry knows the  *)
(* containers.                                                              *)
(****************************************************************************)
EXTENDS RuntimeDeploy, SequenceTheorems, TLAPS

Ops == {"task", "stage", "file", "row", "package", "build", "image", "create", "start",
        "container", "inspect", "deployment", "remove", "mark", "host", "engine"}

Calls == [op : Ops, name : Names \cup {"none"}, step : 0 .. 5, by : {"caller", "executor", "engine"}]

(* The calls that need the job's container.                                 *)
UsesBox == {"start", "container", "deployment"}

-----------------------------------------------------------------------------
(* What is so of the calls of every method, and of the rest of them.        *)

(* A file is written right before its row; both carry its name.             *)
RowsFollowFiles(s) ==
  /\ \A i \in 1 .. Len(s) : s[i].op \in {"file", "row"} => s[i].name \in Names
  /\ \A i \in 1 .. Len(s) : s[i].op = "file" =>
       i + 1 <= Len(s) /\ s[i + 1].op = "row" /\ s[i + 1].name = s[i].name
  /\ \A i \in 2 .. Len(s) : s[i].op = "row" =>
       s[i - 1].op = "file" /\ s[i - 1].name = s[i].name /\ s[i - 1].step = s[i].step

(* A container is recorded after it is created, which happens once, and is  *)
(* marked removed right after its removal.                                  *)
BoxCallsInOrder(s) ==
  /\ \A i \in 1 .. Len(s) : s[i].op = "create" =>
       \E m \in (i + 1) .. Len(s) : s[m].op = "container"
  /\ \A i \in 1 .. Len(s) : \A m \in (i + 1) .. Len(s) : ~(s[i].op = "create" /\ s[m].op = "create")
  /\ \A i \in 2 .. Len(s) : s[i].op = "mark" => s[i - 1].op = "remove"

(* The steps of a plan: images in the first, the container in the second.   *)
PlanInOrder(s) ==
  /\ \A i \in 1 .. Len(s) : \A m \in (i + 1) .. Len(s) : s[i].step <= s[m].step
  /\ \A i \in 1 .. Len(s) : s[i].name = "summary" =>
       s[i].by = "engine" /\ \A m \in i .. Len(s) : s[m].op \in {"file", "row"}
  /\ \A i \in 1 .. Len(s) : s[i].by = "executor" =>
       /\ s[i].step >= 1
       /\ \A m \in (i + 1) .. Len(s) :
            /\ s[m].op # "image"
            /\ s[m].op \in UsesBox =>
                 /\ s[m].step = 2
                 /\ s[i].step = 1 =>
                      \E k \in (i + 1) .. (m - 1) : s[k].op = "create" /\ s[k].step = 2

(* Which kinds make which calls; a deployment is recorded at the very end.  *)
KindOfCalls(k, s) ==
  /\ \A i \in 1 .. Len(s) : s[i].op \in {"remove", "mark"} => k = "remove"
  /\ k = "remove" => \A i \in 1 .. Len(s) : s[i].op \in {"remove", "mark"} /\ s[i].by = "caller"
  /\ k = "deploy" => \A i \in 1 .. Len(s) :
       /\ s[i].by = "caller"
       /\ s[i].op = "deployment" => i = Len(s)
       /\ s[i].op = "build" => \A op \in {"image", "container"} :
            \E m \in (i + 1) .. Len(s) : s[m].op = op

Shape(k, s) == RowsFollowFiles(s) /\ BoxCallsInOrder(s) /\ PlanInOrder(s) /\ KindOfCalls(k, s)

(* A container, or an image, is needed before one is made.                  *)
NeedsBox(s) ==
  \E m \in 1 .. Len(s) : s[m].op \in UsesBox /\ \A i \in 1 .. (m - 1) : s[i].op # "create"
NeedsImage(s) ==
  \E m \in 1 .. Len(s) : s[m].op = "image" /\ \A i \in 1 .. (m - 1) : s[i].op # "build"

Pending(j, op) == \E i \in 1 .. Len(todo[j]) : todo[j][i].op = op
RowPending(j, n) == \E i \in 1 .. Len(todo[j]) : todo[j][i].op = "row" /\ todo[j][i].name = n

-----------------------------------------------------------------------------
(* The invariant                                                            *)

(* What a job has in hand is enough for its next calls.                     *)
HasWhatItNeeds(j) ==
  /\ NeedsBox(todo[j]) => box[j] # None /\ image[j] # None
  /\ NeedsImage(todo[j]) => image[j] # None
  /\ box[j] # None => boxes[box[j]] # None
  /\ kind[j] = "remove" /\ todo[j] # <<>> => box[j] # None
  /\ status[j] = "idle" => round[j] = 0

(* The call before the one it faces has had its effect.                     *)
LastCallIsDone(j) ==
  /\ Facing(j, "row") => files[Path(j)] = writes[Path(j)]
  /\ Facing(j, "mark") => boxes[box[j]].state = "gone"

(* A deployment on its way has on record what is not still to be done.      *)
Milestones(j) ==
  kind[j] = "deploy" /\ todo[j] # <<>> =>
    /\ Pending(j, "task") \/ TaskOf[j] \in tasks
    /\ Pending(j, "stage") \/ TaskOf[j] \in stages
    /\ \A n \in {"app.jar", "pom.xml", "Dockerfile"} :
         RowPending(j, n) \/ \E a \in artifacts : a.path = <<TaskOf[j], n>> /\ files[a.path] = a.write
    /\ Pending(j, "build") \/ image[j] \in built
    /\ Pending(j, "image") \/ Has(images, image[j])
    /\ \/ Pending(j, "container")
       \/ \E c \in containers : c.id = box[j] /\ c.image = image[j] /\ c.owner = TaskOf[j]

JobInv(j) ==
  Shape(kind[j], todo[j]) /\ HasWhatItNeeds(j) /\ LastCallIsDone(j) /\ Milestones(j)

RowsDescribeFiles ==
  \A a \in artifacts : a.write <= writes[a.path] /\ (a.write = writes[a.path] => files[a.path] = a.write)

(* RegistryKnowsContainers, with the reason that no new container takes the *)
(* place of one that is on its way; no row is without a container.          *)
BoxesAreKnown ==
  /\ \A b \in ContainerIds : Exists(b) =>
       LET j == boxes[b].by IN
         \/ Has(containers, b)
         \/ raised[j]
         \/ box[j] = b /\ Pending(j, "container") /\ ~Pending(j, "create")
  /\ \A c \in containers : boxes[c.id] # None /\ (c.status = "removed" => boxes[c.id].state = "gone")

(* Nothing follows the record of a deployment.                              *)
DeploymentIsLast ==
  \A d \in deployments, j \in Jobs : kind[j] = "deploy" /\ d.task = TaskOf[j] =>
    todo[j] = <<>> /\ status[j] # "idle"

IInv ==
  /\ TypeOK /\ todo \in [Jobs -> Seq(Calls)]
  /\ \A j \in Jobs : JobInv(j)
  /\ RowsDescribeFiles /\ BoxesAreKnown
  /\ ReadyDeploymentIsBacked /\ DeploymentIsLast
-----------------------------------------------------------------------------
(* What is left of the calls of a method.                                   *)

LEMMA ShapeOfRest ==
  ASSUME NEW k, NEW s \in Seq(Calls), NEW t \in Seq(Calls), NEW d \in Nat, Shape(k, s),
         Len(t) = Len(s) - d, \A i \in 1 .. Len(t) : t[i] = s[i + d]
  PROVE  Shape(k, t)
<1>0. Len(s) \in Nat /\ Len(t) \in Nat /\ Len(s) = Len(t) + d
  OBVIOUS
<1>1. \A i \in 1 .. Len(t) : i + d \in 1 .. Len(s) /\ t[i] = s[i + d]
  BY <1>0
<1>2. RowsFollowFiles(t)
  <2>1. \A i \in 1 .. Len(t) : t[i].op \in {"file", "row"} => t[i].name \in Names
    BY <1>1 DEF Shape, RowsFollowFiles
  <2>2. ASSUME NEW i \in 1 .. Len(t), t[i].op = "file"
        PROVE  i + 1 <= Len(t) /\ t[i + 1].op = "row" /\ t[i + 1].name = t[i].name
    <3>1. /\ (i + d) + 1 <= Len(s) /\ s[(i + d) + 1].op = "row"
          /\ s[(i + d) + 1].name = s[i + d].name
      BY <1>1, <2>2 DEF Shape, RowsFollowFiles
    <3>2. i + 1 \in 1 .. Len(t) /\ (i + 1) + d = (i + d) + 1
      BY <1>0, <3>1
    <3>3. t[i] = s[i + d]
      BY <1>1
    <3>4. t[i + 1] = s[(i + 1) + d]
      BY <1>1, <3>2
    <3> QED
      BY <3>1, <3>2, <3>3, <3>4
  <2>3. ASSUME NEW i \in 2 .. Len(t), t[i].op = "row"
        PROVE  t[i - 1].op = "file" /\ t[i - 1].name = t[i].name /\ t[i - 1].step = t[i].step
    <3>1. i - 1 \in 1 .. Len(t) /\ i \in 1 .. Len(t) /\ (i - 1) + d = (i + d) - 1 /\ i + d \in 2 .. Len(s)
      BY <1>0
    <3>2. t[i] = s[i + d] /\ t[i - 1] = s[(i + d) - 1]
      BY <1>1, <3>1
    <3> QED
      BY <2>3, <3>1, <3>2 DEF Shape, RowsFollowFiles
  <2> QED
    BY <2>1, <2>2, <2>3 DEF RowsFollowFiles
<1>3. \A i \in 1 .. Len(t) : \A m \in (i + 1) .. Len(t) :
        /\ m \in 1 .. Len(t) /\ i + d \in 1 .. Len(s) /\ m + d \in ((i + d) + 1) .. Len(s)
        /\ t[i] = s[i + d] /\ t[m] = s[m + d]
  <2>1. \A i \in 1 .. Len(t) : \A m \in (i + 1) .. Len(t) :
          m \in 1 .. Len(t) /\ i + d \in 1 .. Len(s) /\ m + d \in ((i + d) + 1) .. Len(s)
    BY <1>0
  <2> QED
    BY <1>1, <2>1
<1>4. \A i \in 1 .. Len(t) : \A m \in ((i + d) + 1) .. Len(s) :
        m - d \in (i + 1) .. Len(t) /\ m - d \in 1 .. Len(t) /\ t[m - d] = s[m]
  <2>1. \A i \in 1 .. Len(t) : \A m \in ((i + d) + 1) .. Len(s) :
          m - d \in (i + 1) .. Len(t) /\ m - d \in 1 .. Len(t) /\ (m - d) + d = m
    BY <1>0
  <2> SUFFICES ASSUME NEW i \in 1 .. Len(t), NEW m \in ((i + d) + 1) .. Len(s)
               PROVE  t[m - d] = s[m]
    BY <2>1
  <2>2. t[m - d] = s[(m - d) + d]
    BY <1>1, <2>1
  <2> QED
    BY <2>1, <2>2
<1>5. BoxCallsInOrder(t)
  <2>1. ASSUME NEW i \in 1 .. Len(t), t[i].op = "create"
        PROVE  \E m \in (i + 1) .. Len(t) : t[m].op = "container"
    <3>1. PICK m \in ((i + d) + 1) .. Len(s) : s[m].op = "container"
      BY <1>1, <2>1 DEF Shape, BoxCallsInOrder
    <3> QED
      BY <1>4, <3>1
  <2>2. \A i \in 1 .. Len(t) : \A m \in (i + 1) .. Len(t) : ~(t[i].op = "create" /\ t[m].op = "create")
    BY <1>3 DEF Shape, BoxCallsInOrder
  <2>3. ASSUME NEW i \in 2 .. Len(t), t[i].op = "mark" PROVE t[i - 1].op = "remove"
    <3>1. i - 1 \in 1 .. Len(t) /\ i \in 1 .. Len(t) /\ (i - 1) + d = (i + d) - 1 /\ i + d \in 2 .. Len(s)
      BY <1>0
    <3>2. t[i] = s[i + d] /\ t[i - 1] = s[(i + d) - 1]
      BY <1>1, <3>1
    <3> QED
      BY <2>3, <3>1, <3>2 DEF Shape, BoxCallsInOrder
  <2> QED
    BY <2>1, <2>2, <2>3 DEF BoxCallsInOrder
<1>6. PlanInOrder(t)
  <2>1. ASSUME NEW i \in 1 .. Len(t), NEW m \in (i + 1) .. Len(t) PROVE t[i].step <= t[m].step
    <3>1. i + d \in 1 .. Len(s) /\ m + d \in ((i + d) + 1) .. Len(s)
      BY <1>3
    <3>2. s[i + d].step <= s[m + d].step
      BY <3>1 DEF Shape, PlanInOrder
    <3> QED
      BY <1>3, <3>2
  <2>2. \A i \in 1 .. Len(t) : t[i].name = "summary" =>
          t[i].by = "engine" /\ \A m \in i .. Len(t) : t[m].op \in {"file", "row"}
    <3>1. \A i \in 1 .. Len(t) : \A m \in i .. Len(t) :
            m \in 1 .. Len(t) /\ m + d \in (i + d) .. Len(s)
      BY <1>0
    <3> QED
      BY <1>1, <3>1 DEF Shape, PlanInOrder
  <2>3. ASSUME NEW i \in 1 .. Len(t), t[i].by = "executor"
        PROVE  /\ t[i].step >= 1
               /\ \A m \in (i + 1) .. Len(t) :
                    /\ t[m].op # "image"
                    /\ t[m].op \in UsesBox =>
                         /\ t[m].step = 2
                         /\ t[i].step = 1 =>
                              \E n \in (i + 1) .. (m - 1) : t[n].op = "create" /\ t[n].step = 2
    <3>1. s[i + d].by = "executor" /\ i + d \in 1 .. Len(s) /\ t[i] = s[i + d]
      BY <1>1, <2>3
    <3>2. t[i].step >= 1
      BY <3>1 DEF Shape, PlanInOrder
    <3>3. ASSUME NEW m \in (i + 1) .. Len(t)
          PROVE  /\ t[m].op # "image"
                 /\ t[m].op \in UsesBox => t[m].step = 2
      BY <1>3, <3>1 DEF Shape, PlanInOrder
    <3>4. ASSUME NEW m \in (i + 1) .. Len(t), t[m].op \in UsesBox, t[i].step = 1
          PROVE  \E n \in (i + 1) .. (m - 1) : t[n].op = "create" /\ t[n].step = 2
      <4>1. m + d \in ((i + d) + 1) .. Len(s) /\ t[m] = s[m + d]
        BY <1>3
      <4>1a. \A x \in ((i + d) + 1) .. Len(s) : s[x].op \in UsesBox /\ s[i + d].step = 1 =>
              \E n \in ((i + d) + 1) .. (x - 1) : s[n].op = "create" /\ s[n].step = 2
        BY <3>1 DEF Shape, PlanInOrder
      <4>2. PICK n \in ((i + d) + 1) .. ((m + d) - 1) : s[n].op = "create" /\ s[n].step = 2
        BY <3>1, <3>4, <4>1, <4>1a
      <4>3. m \in Nat /\ n \in Nat /\ i \in Nat /\ m + d <= Len(s)
        BY <1>0, <4>1, <4>2
      <4>4. n \in ((i + d) + 1) .. Len(s)
        BY <1>0, <4>2, <4>3
      <4>5. n - d \in (i + 1) .. (m - 1)
        BY <4>2, <4>3
      <4> QED
        BY <1>4, <4>2, <4>4, <4>5
    <3> QED
      BY <3>2, <3>3, <3>4
  <2> QED
    BY <2>1, <2>2, <2>3 DEF PlanInOrder
<1>7. KindOfCalls(k, t)
  <2>1. ASSUME NEW i \in 1 .. Len(t)
        PROVE  /\ t[i].op \in {"remove", "mark"} => k = "remove"
               /\ k = "remove" => t[i].op \in {"remove", "mark"} /\ t[i].by = "caller"
    <3>1. i + d \in 1 .. Len(s) /\ t[i] = s[i + d]
      BY <1>1
    <3> QED
      BY <3>1 DEF Shape, KindOfCalls
  <2>2. ASSUME k = "deploy", NEW i \in 1 .. Len(t)
        PROVE  /\ t[i].by = "caller"
               /\ t[i].op = "deployment" => i = Len(t)
               /\ t[i].op = "build" => \A op \in {"image", "container"} :
                    \E m \in (i + 1) .. Len(t) : t[m].op = op
    <3>1. /\ s[i + d].by = "caller"
          /\ s[i + d].op = "deployment" => i + d = Len(s)
          /\ s[i + d].op = "build" => \A op \in {"image", "container"} :
               \E m \in ((i + d) + 1) .. Len(s) : s[m].op = op
      <4>1. i + d \in 1 .. Len(s)
        BY <1>1
      <4> QED
        BY <2>2, <4>1 DEF Shape, KindOfCalls
    <3>2. ASSUME NEW op \in {"image", "container"}, t[i].op = "build"
          PROVE  \E m \in (i + 1) .. Len(t) : t[m].op = op
      <4>1. PICK m \in ((i + d) + 1) .. Len(s) : s[m].op = op
        BY <1>1, <3>1, <3>2
      <4> QED
        BY <1>4, <4>1
    <3>3. t[i] = s[i + d] /\ (i + d = Len(s) => i = Len(t))
      BY <1>1
    <3> QED
      BY <3>1, <3>2, <3>3
  <2> QED
    BY <2>1, <2>2 DEF KindOfCalls
<1> QED
  BY <1>2, <1>5, <1>6, <1>7 DEF Shape

(* The rest after the first call.                                           *)
LEMMA TailOfCalls ==
  ASSUME NEW k, NEW s \in Seq(Calls), s # <<>>, Shape(k, s)
  PROVE  /\ Tail(s) \in Seq(Calls) /\ Len(Tail(s)) = Len(s) - 1 /\ Len(s) >= 1
         /\ Head(s) = s[1] /\ s[1] \in Calls
         /\ \A i \in 1 .. Len(Tail(s)) : Tail(s)[i] = s[i + 1]
         /\ Tail(s) = <<>> <=> Len(s) = 1
         /\ Shape(k, Tail(s))
         /\ NeedsBox(Tail(s)) => NeedsBox(s) \/ s[1].op = "create"
         /\ NeedsImage(Tail(s)) => NeedsImage(s) \/ s[1].op = "build"
<1>1. /\ Tail(s) \in Seq(Calls) /\ Len(Tail(s)) = Len(s) - 1 /\ Len(s) >= 1 /\ Len(s) \in Nat
      /\ Head(s) = s[1] /\ s[1] \in Calls
      /\ \A i \in 1 .. Len(Tail(s)) : Tail(s)[i] = s[i + 1]
      /\ Tail(s) = <<>> <=> Len(s) = 1
  <2>1. Len(s) \in Nat /\ Len(s) >= 1
    OBVIOUS
  <2>2. Tail(s) \in Seq(Calls) /\ Len(Tail(s)) = Len(s) - 1 /\ Head(s) = s[1] /\ s[1] \in Calls
    BY <2>1
  <2>3. \A i \in 1 .. Len(Tail(s)) : Tail(s)[i] = s[i + 1]
    BY <2>1
  <2>4. Tail(s) = <<>> <=> Len(s) = 1
    BY <2>1, <2>2
  <2> QED
    BY <2>1, <2>2, <2>3, <2>4
<1> DEFINE t == Tail(s)
<1>2. t \in Seq(Calls) /\ Len(t) = Len(s) - 1 /\ \A i \in 1 .. Len(t) : t[i] = s[i + 1]
  BY <1>1
<1> HIDE DEF t
<1>3. Shape(k, t)
  BY <1>2, ShapeOfRest
<1>4. ASSUME NeedsBox(t), s[1].op # "create" PROVE NeedsBox(s)
  <2>1. PICK m \in 1 .. Len(t) : t[m].op \in UsesBox /\ \A i \in 1 .. (m - 1) : t[i].op # "create"
    BY <1>4 DEF NeedsBox
  <2>2. m + 1 \in 1 .. Len(s) /\ s[m + 1].op \in UsesBox
    BY <1>1, <1>2, <2>1
  <2>3. ASSUME NEW i \in 1 .. m PROVE s[i].op # "create"
    <3>1. CASE i = 1
      BY <1>4, <3>1
    <3>2. CASE i # 1
      <4>1. i - 1 \in 1 .. (m - 1) /\ i - 1 \in 1 .. Len(t) /\ (i - 1) + 1 = i
        BY <1>1, <1>2, <3>2
      <4> QED
        BY <1>2, <2>1, <4>1
    <3> QED
      BY <3>1, <3>2
  <2>4. (m + 1) - 1 = m
    OBVIOUS
  <2> QED
    BY <2>2, <2>3, <2>4 DEF NeedsBox
<1>5. ASSUME NeedsImage(t), s[1].op # "build" PROVE NeedsImage(s)
  <2>1. PICK m \in 1 .. Len(t) : t[m].op = "image" /\ \A i \in 1 .. (m - 1) : t[i].op # "build"
    BY <1>5 DEF NeedsImage
  <2>2. m + 1 \in 1 .. Len(s) /\ s[m + 1].op = "image"
    BY <1>1, <1>2, <2>1
  <2>3. ASSUME NEW i \in 1 .. m PROVE s[i].op # "build"
    <3>1. CASE i = 1
      BY <1>5, <3>1
    <3>2. CASE i # 1
      <4>1. i - 1 \in 1 .. (m - 1) /\ i - 1 \in 1 .. Len(t) /\ (i - 1) + 1 = i
        BY <1>1, <1>2, <3>2
      <4> QED
        BY <1>2, <2>1, <4>1
    <3> QED
      BY <3>1, <3>2
  <2>4. (m + 1) - 1 = m
    OBVIOUS
  <2> QED
    BY <2>2, <2>3, <2>4 DEF NeedsImage
<1> QED
  BY <1>1, <1>3, <1>4, <1>5 DEF t

(* The rest with which a plan goes on after a call of an executor failed: it *)
(* needs no image and no container any more, and its first call is no row.  *)
LEMMA PlanGoesOn ==
  ASSUME NEW k, NEW s \in Seq(Calls), Shape(k, s), NEW i \in 1 .. Len(s), GoesOnWith(s, i),
         s[1].by = "executor"
  PROVE  LET t == SubSeq(s, i, Len(s)) IN
         /\ t \in Seq(Calls) /\ t # <<>> /\ Shape(k, t)
         /\ Head(t) = s[i] /\ s[i].op \notin {"row", "remove", "mark"}
         /\ ~NeedsBox(t) /\ ~NeedsImage(t)
<1> DEFINE t == SubSeq(s, i, Len(s))
           d == i - 1
<1>1. /\ Len(s) \in Nat /\ d \in Nat /\ 1 \in 1 .. Len(s) /\ s[1] \in Calls /\ i \in Nat
      /\ t \in Seq(Calls) /\ Len(t) = Len(s) - d /\ t # <<>> /\ Head(t) = s[i]
      /\ \A m \in 1 .. Len(t) : t[m] = s[m + d] /\ m + d \in 1 .. Len(s)
  <2>1. Len(s) \in Nat /\ d \in Nat /\ 1 \in 1 .. Len(s) /\ s[1] \in Calls /\ i \in Nat
    OBVIOUS
  <2>2. t \in Seq(Calls) /\ Len(t) = (Len(s) - i) + 1
    BY <2>1
  <2>3. \A m \in 1 .. Len(t) : t[m] = s[(i + m) - 1]
    BY <2>1, <2>2
  <2>4. \A m \in 1 .. Len(t) : (i + m) - 1 = m + d /\ m + d \in 1 .. Len(s)
    BY <2>1, <2>2
  <2>5. Len(t) = Len(s) - d /\ Len(t) >= 1
    BY <2>1, <2>2
  <2>6. 1 \in 1 .. Len(t) /\ (i + 1) - 1 = i
    BY <2>1, <2>5
  <2> HIDE DEF t, d
  <2>7. t # <<>> /\ Head(t) = t[1] /\ t[1] = s[i]
    BY <2>2, <2>3, <2>5, <2>6
  <2> QED
    BY <2>1, <2>2, <2>3, <2>4, <2>5, <2>7
<1> HIDE DEF t, d
<1>2. Shape(k, t)
  BY <1>1, ShapeOfRest
<1>3. i > 1
  BY <1>1 DEF GoesOnWith, Shape, PlanInOrder
<1>4. s[i].op \notin {"row", "remove", "mark"}
  <2>1. s[i].op # "row"
    <3> SUFFICES ASSUME s[i].op = "row" PROVE FALSE
      OBVIOUS
    <3>1. s[i - 1].name = s[i].name /\ s[i - 1].step = s[i].step /\ i - 1 \in 1 .. (i - 1)
      BY <1>1, <1>3 DEF Shape, RowsFollowFiles
    <3> QED
      BY <3>1 DEF GoesOnWith
  <2>2. s[i].op \notin {"remove", "mark"}
    BY <1>1 DEF Shape, KindOfCalls
  <2> QED
    BY <2>1, <2>2
<1>5. ASSUME NEW m \in i .. Len(s) PROVE s[m].op # "image"
  BY <1>1, <1>3 DEF Shape, PlanInOrder
<1>6. ASSUME NEW m \in i .. Len(s), s[m].op \in UsesBox
      PROVE  \E n \in i .. (m - 1) : s[n].op = "create"
  <2>1. m \in 2 .. Len(s) /\ s[m].step = 2 /\ s[1].step >= 1 /\ s[m] \in Calls /\ s[i] \in Calls
    BY <1>1, <1>3, <1>6 DEF Shape, PlanInOrder
  <2>2. s[i].name # "summary"
    <3> SUFFICES ASSUME s[i].name = "summary" PROVE FALSE
      OBVIOUS
    <3>1. \A n \in i .. Len(s) : s[n].op \in {"file", "row"}
      BY DEF Shape, PlanInOrder
    <3> QED
      BY <1>6, <3>1 DEF UsesBox
  <2>3. s[i].step # s[1].step /\ \A n \in 1 .. (i - 1) : s[n].step = s[1].step
    BY <2>2 DEF GoesOnWith
  <2>4. s[1].step <= s[i].step /\ s[i].step <= s[m].step
    <3>1. s[1].step <= s[i].step
      <4>1. i \in (1 + 1) .. Len(s)
        BY <1>1, <1>3
      <4> QED
        BY <1>1, <4>1 DEF Shape, PlanInOrder
    <3>2. CASE m = i
      <4>1. s[i].step = 2 /\ s[m].step = 2
        BY <2>1, <3>2
      <4> QED
        BY <3>1, <4>1
    <3>3. CASE m # i
      <4>1. m \in (i + 1) .. Len(s)
        BY <1>1, <3>3
      <4>2. s[i].step <= s[m].step
        <5>1. \A a \in 1 .. Len(s) : \A b \in (a + 1) .. Len(s) : s[a].step <= s[b].step
          BY DEF Shape, PlanInOrder
        <5> QED
          BY <4>1, <5>1
      <4> QED
        BY <3>1, <4>2
    <3> QED
      BY <3>2, <3>3
  <2>5. s[1].step = 1
    <3>1. s[1].step \in 0 .. 5 /\ s[i].step \in 0 .. 5
      BY <1>1, <2>1 DEF Calls
    <3>2. s[1].step < 2
      BY <2>1, <2>3, <2>4, <3>1
    <3> QED
      BY <2>1, <3>1, <3>2
  <2>6. PICK n \in 2 .. (m - 1) : s[n].op = "create" /\ s[n].step = 2
    BY <1>1, <1>6, <2>1, <2>5 DEF Shape, PlanInOrder
  <2>7. n >= i
    BY <1>1, <2>3, <2>5, <2>6
  <2> QED
    BY <1>1, <2>6, <2>7
<1>7. ~NeedsBox(t)
  <2> SUFFICES ASSUME NEW m \in 1 .. Len(t), t[m].op \in UsesBox
               PROVE  \E n \in 1 .. (m - 1) : t[n].op = "create"
    BY DEF NeedsBox
  <2>1. m + d \in i .. Len(s) /\ s[m + d].op \in UsesBox
    BY <1>1 DEF d
  <2>2. PICK n \in i .. ((m + d) - 1) : s[n].op = "create"
    BY <1>6, <2>1
  <2>3. n - d \in 1 .. (m - 1) /\ n - d \in 1 .. Len(t) /\ (n - d) + d = n
    BY <1>1, <2>2 DEF d
  <2> QED
    BY <1>1, <2>2, <2>3
<1>8. ~NeedsImage(t)
  <2>1. \A m \in 1 .. Len(t) : m + d \in i .. Len(s) /\ t[m] = s[m + d]
    BY <1>1 DEF d
  <2> QED
    BY <1>5, <2>1 DEF NeedsImage
<1> QED
  BY <1>1, <1>2, <1>4, <1>7, <1>8 DEF t

-----------------------------------------------------------------------------
(* The calls of each method, one by one.                                    *)

LEMMA DoCalls ==
  ASSUME NEW ops \in Seq(Ops), NEW step \in 0 .. 5, NEW by \in {"caller", "executor", "engine"}
  PROVE  LET s == Do(ops, step, by) IN
         /\ s \in Seq(Calls) /\ Len(s) = Len(ops)
         /\ \A i \in 1 .. Len(ops) :
              s[i].op = ops[i] /\ s[i].name = "none" /\ s[i].step = step /\ s[i].by = by
<1> DEFINE e(i) == [op |-> ops[i], name |-> "none", step |-> step, by |-> by]
<1>1. DOMAIN ops = 1 .. Len(ops) /\ Len(ops) \in Nat
  OBVIOUS
<1>2. \A i \in 1 .. Len(ops) :
        e(i) \in Calls /\ e(i).op = ops[i] /\ e(i).name = "none" /\ e(i).step = step /\ e(i).by = by
  <2>1. \A i \in 1 .. Len(ops) : ops[i] \in Ops
    OBVIOUS
  <2> QED
    BY <2>1 DEF Calls
<1>3. Do(ops, step, by) = [i \in 1 .. Len(ops) |-> e(i)]
  BY <1>1 DEF Do
<1> HIDE DEF e
<1>4. /\ [i \in 1 .. Len(ops) |-> e(i)] \in Seq(Calls)
      /\ Len([i \in 1 .. Len(ops) |-> e(i)]) = Len(ops)
  <2>1. \A i \in 1 .. Len(ops) : e(i) \in Calls
    BY <1>2
  <2> QED
    BY <1>1, <2>1, IsASeq
<1> QED
  BY <1>2, <1>3, <1>4

(* An artifact is persisted by two calls, the file's and the row's.         *)
LEMMA PersistCalls ==
  ASSUME NEW name \in Names, NEW step \in 0 .. 5, NEW by \in {"caller", "executor", "engine"}
  PROVE  LET s == PersistArtifact(name, step, by) IN
         /\ s \in Seq(Calls) /\ Len(s) = 2
         /\ s[1].op = "file" /\ s[2].op = "row"
         /\ s[1].name = name /\ s[2].name = name /\ s[1].step = step /\ s[2].step = step
         /\ s[1].by = by /\ s[2].by = by
<1> DEFINE file == [op |-> "file", name |-> name, step |-> step, by |-> by]
           row  == [op |-> "row", name |-> name, step |-> step, by |-> by]
<1>1. file \in Calls /\ row \in Calls
  BY DEF Calls, Ops
<1>2. /\ file.op = "file" /\ file.name = name /\ file.step = step /\ file.by = by
      /\ row.op = "row" /\ row.name = name /\ row.step = step /\ row.by = by
  OBVIOUS
<1>3. PersistArtifact(name, step, by) = <<file, row>>
  BY DEF PersistArtifact
<1> HIDE DEF file, row
<1> QED
  BY <1>1, <1>2, <1>3

(* The calls of two lists, one after the other.                             *)
LEMMA Join ==
  ASSUME NEW S, NEW s \in Seq(S), NEW t \in Seq(S)
  PROVE  /\ s \o t \in Seq(S) /\ Len(s \o t) = Len(s) + Len(t)
         /\ \A i \in 1 .. Len(s) : (s \o t)[i] = s[i]
         /\ \A i \in 1 .. Len(t) : (s \o t)[Len(s) + i] = t[i]
BY ConcatProperties

(* Where the parts of three and of four lists are in the whole.             *)
LEMMA JoinThree ==
  ASSUME NEW a \in Seq(Calls), NEW b \in Seq(Calls), NEW c \in Seq(Calls)
  PROVE  LET s == (a \o b) \o c IN
         /\ s \in Seq(Calls) /\ Len(s) = (Len(a) + Len(b)) + Len(c)
         /\ \A i \in 1 .. Len(a) : s[i] = a[i]
         /\ \A i \in 1 .. Len(b) : s[Len(a) + i] = b[i]
         /\ \A i \in 1 .. Len(c) : s[(Len(a) + Len(b)) + i] = c[i]
<1> DEFINE ab == a \o b
           s == ab \o c
<1>1. /\ ab \in Seq(Calls) /\ Len(ab) = Len(a) + Len(b)
      /\ \A i \in 1 .. Len(a) : ab[i] = a[i]
      /\ \A i \in 1 .. Len(b) : ab[Len(a) + i] = b[i]
  BY Join
<1>2. /\ s \in Seq(Calls) /\ Len(s) = Len(ab) + Len(c)
      /\ \A i \in 1 .. Len(ab) : s[i] = ab[i]
      /\ \A i \in 1 .. Len(c) : s[Len(ab) + i] = c[i]
  <2>1. ab \in Seq(Calls)
    BY <1>1
  <2> HIDE DEF ab
  <2> QED
    BY <2>1, Join
<1> HIDE DEF ab, s
<1>3. Len(a) \in Nat /\ Len(b) \in Nat
  OBVIOUS
<1>4. /\ \A i \in 1 .. Len(a) : i \in 1 .. Len(ab)
      /\ \A i \in 1 .. Len(b) : Len(a) + i \in 1 .. Len(ab)
  BY <1>1, <1>3
<1>5. s \in Seq(Calls) /\ Len(s) = (Len(a) + Len(b)) + Len(c)
  BY <1>1, <1>2
<1>6. \A i \in 1 .. Len(c) : s[(Len(a) + Len(b)) + i] = c[i]
  BY <1>1, <1>2
<1>7. \A i \in 1 .. Len(a) : s[i] = a[i]
  BY <1>1, <1>2, <1>4
<1>8. \A i \in 1 .. Len(b) : s[Len(a) + i] = b[i]
  BY <1>1, <1>2, <1>4
<1> QED
  BY <1>5, <1>6, <1>7, <1>8 DEF ab, s

(* What each list of calls is made of.                                      *)
LEMMA FirstCalls ==
  LET s == Do(CreateTask \o CreateStage, 0, "caller") IN
  /\ s \in Seq(Calls) /\ Len(s) = 2 /\ s[1].op = "task" /\ s[2].op = "stage"
  /\ \A i \in 1 .. 2 : s[i].name = "none" /\ s[i].step = 0 /\ s[i].by = "caller"
<1> DEFINE ops == CreateTask \o CreateStage
<1>1. ops \in Seq(Ops) /\ Len(ops) = 2 /\ ops[1] = "task" /\ ops[2] = "stage"
  <2>1. CreateTask \in Seq(Ops) /\ CreateStage \in Seq(Ops)
    BY DEF CreateTask, CreateStage, Ops
  <2>2. ops \in Seq(Ops)
    BY <2>1
  <2> QED
    BY <2>2 DEF CreateTask, CreateStage
<1> HIDE DEF ops
<1>2. 0 \in 0 .. 5 /\ 1 \in 1 .. Len(ops) /\ 2 \in 1 .. Len(ops)
  BY <1>1
<1> DEFINE s == Do(ops, 0, "caller")
<1>3. /\ s \in Seq(Calls) /\ Len(s) = Len(ops)
      /\ \A i \in 1 .. Len(ops) :
           s[i].op = ops[i] /\ s[i].name = "none" /\ s[i].step = 0 /\ s[i].by = "caller"
  BY <1>1, <1>2, DoCalls
<1> HIDE DEF s
<1> QED
  BY <1>1, <1>2, <1>3 DEF ops, s

LEMMA SetupCalls ==
  LET s == Do(RegisterHost \o RegisterEngine, 0, "caller") IN
  /\ s \in Seq(Calls) /\ Len(s) = 2 /\ s[1].op = "host" /\ s[2].op = "engine"
  /\ \A i \in 1 .. 2 : s[i].name = "none" /\ s[i].step = 0 /\ s[i].by = "caller"
<1> DEFINE ops == RegisterHost \o RegisterEngine
<1>1. ops \in Seq(Ops) /\ Len(ops) = 2 /\ ops[1] = "host" /\ ops[2] = "engine"
  <2>1. RegisterHost \in Seq(Ops) /\ RegisterEngine \in Seq(Ops)
    BY DEF RegisterHost, RegisterEngine, Ops
  <2>2. ops \in Seq(Ops)
    BY <2>1
  <2> QED
    BY <2>2 DEF RegisterHost, RegisterEngine
<1> HIDE DEF ops
<1>2. 0 \in 0 .. 5 /\ 1 \in 1 .. Len(ops) /\ 2 \in 1 .. Len(ops)
  BY <1>1
<1> DEFINE s == Do(ops, 0, "caller")
<1>3. /\ s \in Seq(Calls) /\ Len(s) = Len(ops)
      /\ \A i \in 1 .. Len(ops) :
           s[i].op = ops[i] /\ s[i].name = "none" /\ s[i].step = 0 /\ s[i].by = "caller"
  BY <1>1, <1>2, DoCalls
<1> HIDE DEF s
<1> QED
  BY <1>1, <1>2, <1>3 DEF ops, s

LEMMA RemoveCalls ==
  LET s == Do(RemoveContainer, 0, "caller") IN
  /\ s \in Seq(Calls) /\ Len(s) = 2 /\ s[1].op = "remove" /\ s[2].op = "mark"
  /\ \A i \in 1 .. 2 : s[i].name = "none" /\ s[i].step = 0 /\ s[i].by = "caller"
<1> DEFINE ops == RemoveContainer
<1>1. ops \in Seq(Ops) /\ Len(ops) = 2 /\ ops[1] = "remove" /\ ops[2] = "mark"
  BY DEF RemoveContainer, Ops
<1> HIDE DEF ops
<1>2. 0 \in 0 .. 5 /\ 1 \in 1 .. Len(ops) /\ 2 \in 1 .. Len(ops)
  BY <1>1
<1> DEFINE s == Do(ops, 0, "caller")
<1>3. /\ s \in Seq(Calls) /\ Len(s) = Len(ops)
      /\ \A i \in 1 .. Len(ops) :
           s[i].op = ops[i] /\ s[i].name = "none" /\ s[i].step = 0 /\ s[i].by = "caller"
  BY <1>1, <1>2, DoCalls
<1> HIDE DEF s
<1> QED
  BY <1>1, <1>2, <1>3 DEF ops, s

LEMMA OneCall ==
  ASSUME NEW op \in Ops, NEW step \in 0 .. 5, NEW by \in {"caller", "executor", "engine"}
  PROVE  LET s == Do(<<op>>, step, by) IN
         /\ s \in Seq(Calls) /\ Len(s) = 1
         /\ s[1].op = op /\ s[1].name = "none" /\ s[1].step = step /\ s[1].by = by
<1> DEFINE ops == <<op>>
           s   == Do(ops, step, by)
<1>1. ops \in Seq(Ops) /\ Len(ops) = 1 /\ ops[1] = op
  OBVIOUS
<1> HIDE DEF ops
<1>2. /\ s \in Seq(Calls) /\ Len(s) = Len(ops)
      /\ \A i \in 1 .. Len(ops) :
           s[i].op = ops[i] /\ s[i].name = "none" /\ s[i].step = step /\ s[i].by = by
  BY <1>1, DoCalls
<1> HIDE DEF s
<1> QED
  BY <1>1, <1>2 DEF ops, s

LEMMA MakingCalls ==
  LET s == Do(<<"build">> \o RegisterImage \o CreateContainer \o <<"inspect">> \o CreateDeployment,
              0, "caller") IN
  /\ s \in Seq(Calls) /\ Len(s) = 7
  /\ s[1].op = "build" /\ s[2].op = "image" /\ s[3].op = "create" /\ s[4].op = "start"
  /\ s[5].op = "container" /\ s[6].op = "inspect" /\ s[7].op = "deployment"
  /\ \A i \in 1 .. 7 : s[i].name = "none" /\ s[i].step = 0 /\ s[i].by = "caller"
<1> DEFINE ops == <<"build">> \o RegisterImage \o CreateContainer \o <<"inspect">> \o CreateDeployment
<1>1. /\ ops \in Seq(Ops) /\ Len(ops) = 7
      /\ ops[1] = "build" /\ ops[2] = "image" /\ ops[3] = "create" /\ ops[4] = "start"
      /\ ops[5] = "container" /\ ops[6] = "inspect" /\ ops[7] = "deployment"
  <2> USE DEF RegisterImage, CreateContainer, CreateDeployment
  <2>1. /\ <<"build">> \in Seq(Ops) /\ RegisterImage \in Seq(Ops) /\ CreateContainer \in Seq(Ops)
        /\ <<"inspect">> \in Seq(Ops) /\ CreateDeployment \in Seq(Ops)
    BY DEF Ops
  <2>2. ops \in Seq(Ops)
    <3> HIDE DEF RegisterImage, CreateContainer, CreateDeployment
    <3> QED
      BY <2>1, Join
  <2> QED
    BY <2>2
<1> HIDE DEF ops
<1>2. 0 \in 0 .. 5 /\ \A i \in {1, 2, 3, 4, 5, 6, 7} : i \in 1 .. 7
  OBVIOUS
<1> DEFINE s == Do(ops, 0, "caller")
<1>3. /\ s \in Seq(Calls) /\ Len(s) = Len(ops)
      /\ \A i \in 1 .. Len(ops) :
           s[i].op = ops[i] /\ s[i].name = "none" /\ s[i].step = 0 /\ s[i].by = "caller"
  BY <1>1, <1>2, DoCalls
<1> HIDE DEF s
<1> QED
  BY <1>1, <1>2, <1>3 DEF ops, s

(* The calls of a caller; the summary belongs to plans.                     *)
Plain(t) == \A i \in 1 .. Len(t) : t[i].step = 0 /\ t[i].by = "caller" /\ t[i].name # "summary"

LEMMA JoinPlain ==
  ASSUME NEW s \in Seq(Calls), NEW t \in Seq(Calls), Plain(s), Plain(t)
  PROVE  s \o t \in Seq(Calls) /\ Plain(s \o t)
<1> DEFINE u == s \o t
<1>1. /\ u \in Seq(Calls) /\ Len(u) = Len(s) + Len(t)
      /\ \A i \in 1 .. Len(s) : u[i] = s[i]
      /\ \A i \in 1 .. Len(t) : u[Len(s) + i] = t[i]
  BY Join
<1> HIDE DEF u
<1>2. ASSUME NEW i \in 1 .. Len(u)
      PROVE  u[i].step = 0 /\ u[i].by = "caller" /\ u[i].name # "summary"
  <2>1. Len(s) \in Nat /\ Len(t) \in Nat
    OBVIOUS
  <2>2. CASE i \in 1 .. Len(s)
    BY <1>1, <2>2 DEF Plain
  <2>3. CASE i \notin 1 .. Len(s)
    <3>1. i - Len(s) \in 1 .. Len(t) /\ Len(s) + (i - Len(s)) = i
      BY <1>1, <2>1, <2>3
    <3>2. u[i] = t[i - Len(s)]
      BY <1>1, <3>1
    <3> QED
      BY <3>1, <3>2 DEF Plain
  <2> QED
    BY <2>2, <2>3
<1> QED
  BY <1>1, <1>2 DEF u, Plain

LEMMA PersistPlain ==
  ASSUME NEW name \in Names, name # "summary"
  PROVE  LET s == PersistArtifact(name, 0, "caller") IN
         /\ s \in Seq(Calls) /\ Len(s) = 2 /\ Plain(s)
         /\ s[1].op = "file" /\ s[1].name = name /\ s[2].op = "row" /\ s[2].name = name
<1>1. 0 \in 0 .. 5
  OBVIOUS
<1> DEFINE s == PersistArtifact(name, 0, "caller")
<1>2. /\ s \in Seq(Calls) /\ Len(s) = 2
      /\ s[1].op = "file" /\ s[2].op = "row"
      /\ s[1].name = name /\ s[2].name = name /\ s[1].step = 0 /\ s[2].step = 0
      /\ s[1].by = "caller" /\ s[2].by = "caller"
  BY <1>1, PersistCalls
<1> HIDE DEF s
<1>3. \A i \in 1 .. Len(s) : i = 1 \/ i = 2
  BY <1>2
<1> QED
  BY <1>2, <1>3 DEF s, Plain

(* The calls of run_java_deploy, one by one.                                *)
LEMMA DeployCalls ==
  ASSUME NEW settings \in BOOLEAN
  PROVE  LET s == Deploy(settings)
             o == IF settings THEN 2 ELSE 0 IN
         /\ s \in Seq(Calls) /\ Len(s) = 16 + o
         /\ s[1].op = "task" /\ s[2].op = "stage"
         /\ s[3].op = "file" /\ s[3].name = "app.jar" /\ s[4].op = "row" /\ s[4].name = "app.jar"
         /\ s[5].op = "file" /\ s[5].name = "pom.xml" /\ s[6].op = "row" /\ s[6].name = "pom.xml"
         /\ settings => /\ s[7].op = "file" /\ s[7].name = "settings.xml"
                        /\ s[8].op = "row" /\ s[8].name = "settings.xml"
         /\ s[7 + o].op = "package"
         /\ s[8 + o].op = "file" /\ s[8 + o].name = "Dockerfile"
         /\ s[9 + o].op = "row" /\ s[9 + o].name = "Dockerfile"
         /\ s[10 + o].op = "build" /\ s[11 + o].op = "image" /\ s[12 + o].op = "create"
         /\ s[13 + o].op = "start" /\ s[14 + o].op = "container" /\ s[15 + o].op = "inspect"
         /\ s[16 + o].op = "deployment"
         /\ \A i \in 1 .. Len(s) : s[i].step = 0 /\ s[i].by = "caller" /\ s[i].name # "summary"
<1> DEFINE o == IF settings THEN 2 ELSE 0
           a == Do(CreateTask \o CreateStage, 0, "caller")
           b == PersistArtifact("app.jar", 0, "caller")
           c == PersistArtifact("pom.xml", 0, "caller")
           d == IF settings THEN PersistArtifact("settings.xml", 0, "caller") ELSE <<>>
           e == Do(<<"package">>, 0, "caller")
           f == PersistArtifact("Dockerfile", 0, "caller")
           g == Do(<<"build">> \o RegisterImage \o CreateContainer \o <<"inspect">> \o CreateDeployment,
                   0, "caller")
           abc == (a \o b) \o c
           ade == (abc \o d) \o e
           s == (ade \o f) \o g
<1>1. s = Deploy(settings)
  BY DEF Deploy
<1>2. 0 \in 0 .. 5 /\ "package" \in Ops
  BY DEF Ops
<1>3. a \in Seq(Calls) /\ Len(a) = 2 /\ a[1].op = "task" /\ a[2].op = "stage" /\ Plain(a)
  BY FirstCalls DEF Plain
<1>4. /\ b \in Seq(Calls) /\ Len(b) = 2
      /\ b[1].op = "file" /\ b[1].name = "app.jar" /\ b[2].op = "row" /\ b[2].name = "app.jar" /\ Plain(b)
  <2>1. "app.jar" \in Names
    BY DeployAssumption DEF DeployAssumption
  <2> QED
    BY <2>1, PersistPlain
<1>5. /\ c \in Seq(Calls) /\ Len(c) = 2
      /\ c[1].op = "file" /\ c[1].name = "pom.xml" /\ c[2].op = "row" /\ c[2].name = "pom.xml" /\ Plain(c)
  <2>1. "pom.xml" \in Names
    BY DeployAssumption DEF DeployAssumption
  <2> QED
    BY <2>1, PersistPlain
<1>6. /\ d \in Seq(Calls) /\ Len(d) = o /\ Plain(d)
      /\ settings => /\ d[1].op = "file" /\ d[1].name = "settings.xml"
                     /\ d[2].op = "row" /\ d[2].name = "settings.xml"
  <2>1. "settings.xml" \in Names
    BY DeployAssumption DEF DeployAssumption
  <2>2. CASE settings
    BY <2>1, <2>2, PersistPlain
  <2>3. CASE ~settings
    BY <2>3 DEF Plain
  <2> QED
    BY <2>2, <2>3
<1>7. e \in Seq(Calls) /\ Len(e) = 1 /\ e[1].op = "package" /\ Plain(e)
  BY <1>2, OneCall DEF Plain
<1>8. /\ f \in Seq(Calls) /\ Len(f) = 2 /\ Plain(f)
      /\ f[1].op = "file" /\ f[1].name = "Dockerfile" /\ f[2].op = "row" /\ f[2].name = "Dockerfile"
  <2>1. "Dockerfile" \in Names
    BY DeployAssumption DEF DeployAssumption
  <2> QED
    BY <2>1, PersistPlain
<1>9. /\ g \in Seq(Calls) /\ Len(g) = 7 /\ Plain(g)
      /\ g[1].op = "build" /\ g[2].op = "image" /\ g[3].op = "create" /\ g[4].op = "start"
      /\ g[5].op = "container" /\ g[6].op = "inspect" /\ g[7].op = "deployment"
  BY MakingCalls DEF Plain
<1>10. o \in {0, 2} /\ (settings => o = 2) /\ (~settings => o = 0)
  OBVIOUS
<1> HIDE DEF a, b, c, d, e, f, g, o
<1>11. /\ abc \in Seq(Calls) /\ Len(abc) = 6
       /\ \A i \in 1 .. 2 : abc[i] = a[i] /\ abc[2 + i] = b[i] /\ abc[4 + i] = c[i]
  <2>1. /\ abc \in Seq(Calls) /\ Len(abc) = (Len(a) + Len(b)) + Len(c)
        /\ \A i \in 1 .. Len(a) : abc[i] = a[i]
        /\ \A i \in 1 .. Len(b) : abc[Len(a) + i] = b[i]
        /\ \A i \in 1 .. Len(c) : abc[(Len(a) + Len(b)) + i] = c[i]
    <3>1. a \in Seq(Calls) /\ b \in Seq(Calls) /\ c \in Seq(Calls)
      BY <1>3, <1>4, <1>5
    <3> QED
      BY <3>1, JoinThree
  <2> HIDE DEF abc
  <2> QED
    BY <1>3, <1>4, <1>5, <2>1
<1>12. /\ ade \in Seq(Calls) /\ Len(ade) = 7 + o
       /\ \A i \in 1 .. 6 : ade[i] = abc[i]
       /\ \A i \in 1 .. o : ade[6 + i] = d[i]
       /\ \A i \in 1 .. 1 : ade[(6 + o) + i] = e[i]
  <2> HIDE DEF abc
  <2>1. /\ ade \in Seq(Calls) /\ Len(ade) = (Len(abc) + Len(d)) + Len(e)
        /\ \A i \in 1 .. Len(abc) : ade[i] = abc[i]
        /\ \A i \in 1 .. Len(d) : ade[Len(abc) + i] = d[i]
        /\ \A i \in 1 .. Len(e) : ade[(Len(abc) + Len(d)) + i] = e[i]
    <3>1. abc \in Seq(Calls) /\ d \in Seq(Calls) /\ e \in Seq(Calls)
      BY <1>6, <1>7, <1>11
    <3> QED
      BY <3>1, JoinThree
  <2> HIDE DEF ade
  <2> QED
    BY <1>6, <1>7, <1>10, <1>11, <2>1
<1>13. /\ s \in Seq(Calls) /\ Len(s) = 16 + o
       /\ \A i \in 1 .. (7 + o) : s[i] = ade[i]
       /\ \A i \in 1 .. 2 : s[(7 + o) + i] = f[i]
       /\ \A i \in 1 .. 7 : s[(9 + o) + i] = g[i]
  <2> HIDE DEF abc, ade
  <2>1. /\ s \in Seq(Calls) /\ Len(s) = (Len(ade) + Len(f)) + Len(g)
        /\ \A i \in 1 .. Len(ade) : s[i] = ade[i]
        /\ \A i \in 1 .. Len(f) : s[Len(ade) + i] = f[i]
        /\ \A i \in 1 .. Len(g) : s[(Len(ade) + Len(f)) + i] = g[i]
    <3>1. ade \in Seq(Calls) /\ f \in Seq(Calls) /\ g \in Seq(Calls)
      BY <1>8, <1>9, <1>12
    <3> QED
      BY <3>1, JoinThree
  <2> HIDE DEF s
  <2> QED
    BY <1>8, <1>9, <1>10, <1>12, <2>1
<1> HIDE DEF abc, ade, s
<1>14. /\ \A i \in 1 .. 2 : s[i] = a[i] /\ s[2 + i] = b[i] /\ s[4 + i] = c[i]
       /\ settings => s[7] = d[1] /\ s[8] = d[2]
       /\ s[7 + o] = e[1] /\ s[8 + o] = f[1] /\ s[9 + o] = f[2]
       /\ s[10 + o] = g[1] /\ s[11 + o] = g[2] /\ s[12 + o] = g[3] /\ s[13 + o] = g[4]
       /\ s[14 + o] = g[5] /\ s[15 + o] = g[6] /\ s[16 + o] = g[7]
  <2>1. \A i \in 1 .. 6 : s[i] = ade[i] /\ ade[i] = abc[i]
    <3>1. \A i \in 1 .. 6 : i \in 1 .. (7 + o)
      BY <1>10
    <3>2. \A i \in 1 .. (7 + o) : s[i] = ade[i]
      BY <1>13
    <3>3. \A i \in 1 .. 6 : ade[i] = abc[i]
      BY <1>12
    <3> QED
      BY <3>1, <3>2, <3>3
  <2>2. \A i \in 1 .. 2 : s[i] = a[i] /\ s[2 + i] = b[i] /\ s[4 + i] = c[i]
    BY <1>11, <2>1
  <2>3. settings => s[7] = d[1] /\ s[8] = d[2]
    <3>1. settings => s[7] = ade[7] /\ s[8] = ade[8]
      BY <1>10, <1>13
    <3>2. settings => ade[6 + 1] = d[1] /\ ade[6 + 2] = d[2]
      BY <1>10, <1>12
    <3> QED
      BY <3>1, <3>2
  <2>4. s[7 + o] = e[1]
    <3>1. s[7 + o] = ade[7 + o]
      BY <1>10, <1>13
    <3>2. ade[(6 + o) + 1] = e[1] /\ (6 + o) + 1 = 7 + o
      BY <1>10, <1>12
    <3> QED
      BY <3>1, <3>2
  <2>5. s[8 + o] = f[1] /\ s[9 + o] = f[2]
    <3>1. s[(7 + o) + 1] = f[1] /\ s[(7 + o) + 2] = f[2]
      BY <1>13
    <3>2. (7 + o) + 1 = 8 + o /\ (7 + o) + 2 = 9 + o
      BY <1>10
    <3> QED
      BY <3>1, <3>2
  <2>6. /\ s[10 + o] = g[1] /\ s[11 + o] = g[2] /\ s[12 + o] = g[3] /\ s[13 + o] = g[4]
        /\ s[14 + o] = g[5] /\ s[15 + o] = g[6] /\ s[16 + o] = g[7]
    <3>1. \A i \in 1 .. 7 : s[(9 + o) + i] = g[i]
      BY <1>13
    <3>2. \A i \in 1 .. 7 : (9 + o) + i = (9 + i) + o
      BY <1>10
    <3> QED
      BY <3>1, <3>2
  <2> QED
    BY <2>2, <2>3, <2>4, <2>5, <2>6
<1>15. Plain(s)
  <2> USE DEF abc, ade, s
  <2>1. a \o b \in Seq(Calls) /\ Plain(a \o b)
    BY <1>3, <1>4, JoinPlain
  <2>2. abc \in Seq(Calls) /\ Plain(abc)
    BY <1>5, <2>1, JoinPlain
  <2> HIDE DEF abc
  <2>3. abc \o d \in Seq(Calls) /\ Plain(abc \o d)
    BY <1>6, <2>2, JoinPlain
  <2>4. ade \in Seq(Calls) /\ Plain(ade)
    BY <1>7, <2>3, JoinPlain
  <2> HIDE DEF ade
  <2>5. ade \o f \in Seq(Calls) /\ Plain(ade \o f)
    BY <1>8, <2>4, JoinPlain
  <2> QED
    BY <1>9, <2>5, JoinPlain
<1>16. /\ s[1].op = "task" /\ s[2].op = "stage"
       /\ s[3].op = "file" /\ s[3].name = "app.jar" /\ s[4].op = "row" /\ s[4].name = "app.jar"
       /\ s[5].op = "file" /\ s[5].name = "pom.xml" /\ s[6].op = "row" /\ s[6].name = "pom.xml"
  BY <1>3, <1>4, <1>5, <1>14
<1> QED
  BY <1>1, <1>3, <1>4, <1>5, <1>6, <1>7, <1>8, <1>9, <1>13, <1>14, <1>15, <1>16 DEF o, Plain
LEMMA JoinOneTwo ==
  ASSUME NEW a \in Seq(Calls), NEW b \in Seq(Calls)
  PROVE  LET s == a \o b IN Len(a) = 1 /\ Len(b) = 2 =>
         s \in Seq(Calls) /\ Len(s) = 3 /\ s[1] = a[1] /\ s[2] = b[1] /\ s[3] = b[2]
<1> DEFINE s == a \o b
<1>1. /\ s \in Seq(Calls) /\ Len(s) = Len(a) + Len(b)
      /\ \A i \in 1 .. Len(a) : s[i] = a[i]
      /\ \A i \in 1 .. Len(b) : s[Len(a) + i] = b[i]
  BY Join
<1> HIDE DEF s
<1> QED
  BY <1>1 DEF s

(* The calls of the plan, one by one.                                       *)
LEMMA PlanCalls ==
  LET s == RunPlan IN
  /\ s \in Seq(Calls) /\ Len(s) = 16
  /\ s[1].op = "build" /\ s[2].op = "file" /\ s[3].op = "row" /\ s[4].op = "file" /\ s[5].op = "row"
  /\ s[6].op = "create" /\ s[7].op = "start" /\ s[8].op = "container" /\ s[9].op = "deployment"
  /\ s[10].op = "inspect" /\ s[11].op = "file" /\ s[12].op = "row" /\ s[13].op = "file"
  /\ s[14].op = "row" /\ s[15].op = "file" /\ s[16].op = "row"
  /\ s[2].name = "build.log" /\ s[3].name = "build.log" /\ s[4].name = "log" /\ s[5].name = "log"
  /\ s[11].name = "env_report" /\ s[12].name = "env_report"
  /\ s[13].name = "collected_context" /\ s[14].name = "collected_context"
  /\ s[15].name = "summary" /\ s[16].name = "summary"
  /\ s[1].name = "none" /\ s[10].name = "none" /\ \A i \in 6 .. 9 : s[i].name = "none"
  /\ \A i \in 1 .. 5 : s[i].step = 1
  /\ \A i \in 6 .. 9 : s[i].step = 2
  /\ \A i \in 10 .. 12 : s[i].step = 3
  /\ \A i \in 13 .. 14 : s[i].step = 4
  /\ \A i \in 15 .. 16 : s[i].step = 5 /\ s[i].by = "engine"
<1> DEFINE a == BuildImageStep
           b == StepLog
           c == CreateRuntimeStep
           d == InspectEnvironmentStep
           e == CollectArtifactStep
           f == Summary
           x == (a \o b) \o c
           y == (x \o d) \o e
           s == y \o f
<1>1. s = RunPlan
  BY DEF RunPlan
<1>2. /\ 0 \in 0 .. 5
      /\ 1 \in 0 .. 5 /\ 2 \in 0 .. 5 /\ 3 \in 0 .. 5 /\ 4 \in 0 .. 5 /\ 5 \in 0 .. 5
      /\ {"build", "inspect"} \subseteq Ops
  BY DEF Ops
<1>3. {"build.log", "log", "env_report", "collected_context", "summary"} \subseteq Names
  BY DeployAssumption DEF DeployAssumption
<1>4. /\ a \in Seq(Calls) /\ Len(a) = 3 /\ a[1].op = "build" /\ a[1].name = "none"
      /\ a[2].op = "file" /\ a[3].op = "row" /\ a[2].name = "build.log" /\ a[3].name = "build.log"
      /\ a[1].step = 1 /\ a[2].step = 1 /\ a[3].step = 1
  <2>1. "build" \in Ops /\ "build.log" \in Names /\ 1 \in 0 .. 5
    BY <1>2, <1>3
  <2> DEFINE u == Do(<<"build">>, 1, "executor")
             v == PersistArtifact("build.log", 1, "executor")
  <2>2. u \in Seq(Calls) /\ Len(u) = 1 /\ u[1].op = "build" /\ u[1].name = "none" /\ u[1].step = 1
    BY <2>1, OneCall
  <2>3. /\ v \in Seq(Calls) /\ Len(v) = 2 /\ v[1].op = "file" /\ v[2].op = "row"
        /\ v[1].name = "build.log" /\ v[2].name = "build.log" /\ v[1].step = 1 /\ v[2].step = 1
    BY <2>1, PersistCalls
  <2>4. a = u \o v
    BY DEF BuildImageStep
  <2> HIDE DEF u, v, a
  <2>5. a \in Seq(Calls) /\ Len(a) = 3 /\ a[1] = u[1] /\ a[2] = v[1] /\ a[3] = v[2]
    BY <2>2, <2>3, <2>4, JoinOneTwo
  <2> QED
    BY <2>2, <2>3, <2>5
<1>5. /\ b \in Seq(Calls) /\ Len(b) = 2 /\ b[1].op = "file" /\ b[2].op = "row"
      /\ b[1].name = "log" /\ b[2].name = "log" /\ b[1].step = 1 /\ b[2].step = 1
  <2>1. "log" \in Names /\ 1 \in 0 .. 5
    BY <1>2, <1>3
  <2> QED
    BY <2>1, PersistCalls DEF StepLog
<1>6. /\ c \in Seq(Calls) /\ Len(c) = 4 /\ c[1].op = "create" /\ c[2].op = "start"
      /\ c[3].op = "container" /\ c[4].op = "deployment"
      /\ \A i \in 1 .. 4 : c[i].step = 2 /\ c[i].name = "none"
  <2> DEFINE ops == CreateContainer \o CreateDeployment
  <2>1. /\ ops \in Seq(Ops) /\ Len(ops) = 4
        /\ ops[1] = "create" /\ ops[2] = "start" /\ ops[3] = "container" /\ ops[4] = "deployment"
    <3>1. CreateContainer \in Seq(Ops) /\ CreateDeployment \in Seq(Ops)
      BY DEF CreateContainer, CreateDeployment, Ops
    <3>2. ops \in Seq(Ops)
      BY <3>1
    <3> QED
      BY <3>2 DEF CreateContainer, CreateDeployment
  <2>2. c = Do(ops, 2, "executor")
    BY DEF CreateRuntimeStep
  <2> HIDE DEF ops, c
  <2>3. /\ c \in Seq(Calls) /\ Len(c) = Len(ops)
        /\ \A i \in 1 .. Len(ops) : c[i].op = ops[i] /\ c[i].name = "none" /\ c[i].step = 2
    BY <1>2, <2>1, <2>2, DoCalls
  <2> QED
    BY <2>1, <2>3
<1>7. /\ d \in Seq(Calls) /\ Len(d) = 3 /\ d[1].op = "inspect" /\ d[1].name = "none"
      /\ d[2].op = "file" /\ d[3].op = "row" /\ d[2].name = "env_report" /\ d[3].name = "env_report"
      /\ d[1].step = 3 /\ d[2].step = 3 /\ d[3].step = 3
  <2>1. "inspect" \in Ops /\ "env_report" \in Names /\ 3 \in 0 .. 5
    BY <1>2, <1>3
  <2> DEFINE u == Do(<<"inspect">>, 3, "executor")
             v == PersistArtifact("env_report", 3, "executor")
  <2>2. u \in Seq(Calls) /\ Len(u) = 1 /\ u[1].op = "inspect" /\ u[1].name = "none" /\ u[1].step = 3
    BY <2>1, OneCall
  <2>3. /\ v \in Seq(Calls) /\ Len(v) = 2 /\ v[1].op = "file" /\ v[2].op = "row"
        /\ v[1].name = "env_report" /\ v[2].name = "env_report" /\ v[1].step = 3 /\ v[2].step = 3
    BY <2>1, PersistCalls
  <2>4. d = u \o v
    BY DEF InspectEnvironmentStep
  <2> HIDE DEF u, v, d
  <2>5. d \in Seq(Calls) /\ Len(d) = 3 /\ d[1] = u[1] /\ d[2] = v[1] /\ d[3] = v[2]
    BY <2>2, <2>3, <2>4, JoinOneTwo
  <2> QED
    BY <2>2, <2>3, <2>5
<1>8. /\ e \in Seq(Calls) /\ Len(e) = 2 /\ e[1].op = "file" /\ e[2].op = "row"
      /\ e[1].name = "collected_context" /\ e[2].name = "collected_context"
      /\ e[1].step = 4 /\ e[2].step = 4
  <2>1. "collected_context" \in Names /\ 4 \in 0 .. 5
    BY <1>2, <1>3
  <2> QED
    BY <2>1, PersistCalls DEF CollectArtifactStep
<1>9. /\ f \in Seq(Calls) /\ Len(f) = 2 /\ f[1].op = "file" /\ f[2].op = "row"
      /\ f[1].name = "summary" /\ f[2].name = "summary" /\ f[1].step = 5 /\ f[2].step = 5
      /\ f[1].by = "engine" /\ f[2].by = "engine"
  <2>1. "summary" \in Names /\ 5 \in 0 .. 5
    BY <1>2, <1>3
  <2> QED
    BY <2>1, PersistCalls DEF Summary
<1> HIDE DEF a, b, c, d, e, f
<1>10. /\ x \in Seq(Calls) /\ Len(x) = 9
       /\ \A i \in 1 .. 3 : x[i] = a[i]
       /\ \A i \in 1 .. 2 : x[3 + i] = b[i]
       /\ \A i \in 1 .. 4 : x[5 + i] = c[i]
  <2>1. a \in Seq(Calls) /\ b \in Seq(Calls) /\ c \in Seq(Calls)
    BY <1>4, <1>5, <1>6
  <2>2. /\ x \in Seq(Calls) /\ Len(x) = (Len(a) + Len(b)) + Len(c)
        /\ \A i \in 1 .. Len(a) : x[i] = a[i]
        /\ \A i \in 1 .. Len(b) : x[Len(a) + i] = b[i]
        /\ \A i \in 1 .. Len(c) : x[(Len(a) + Len(b)) + i] = c[i]
    BY <2>1, JoinThree
  <2> HIDE DEF x
  <2> QED
    BY <1>4, <1>5, <1>6, <2>2
<1> HIDE DEF x
<1>11. /\ y \in Seq(Calls) /\ Len(y) = 14
       /\ \A i \in 1 .. 9 : y[i] = x[i]
       /\ \A i \in 1 .. 3 : y[9 + i] = d[i]
       /\ \A i \in 1 .. 2 : y[12 + i] = e[i]
  <2>1. x \in Seq(Calls) /\ d \in Seq(Calls) /\ e \in Seq(Calls)
    BY <1>7, <1>8, <1>10
  <2>2. /\ y \in Seq(Calls) /\ Len(y) = (Len(x) + Len(d)) + Len(e)
        /\ \A i \in 1 .. Len(x) : y[i] = x[i]
        /\ \A i \in 1 .. Len(d) : y[Len(x) + i] = d[i]
        /\ \A i \in 1 .. Len(e) : y[(Len(x) + Len(d)) + i] = e[i]
    BY <2>1, JoinThree
  <2> HIDE DEF y
  <2> QED
    BY <1>7, <1>8, <1>10, <2>2
<1> HIDE DEF y
<1>12. /\ s \in Seq(Calls) /\ Len(s) = 16
       /\ \A i \in 1 .. 14 : s[i] = y[i]
       /\ \A i \in 1 .. 2 : s[14 + i] = f[i]
  <2>1. y \in Seq(Calls) /\ f \in Seq(Calls)
    BY <1>9, <1>11
  <2>2. /\ s \in Seq(Calls) /\ Len(s) = Len(y) + Len(f)
        /\ \A i \in 1 .. Len(y) : s[i] = y[i]
        /\ \A i \in 1 .. Len(f) : s[Len(y) + i] = f[i]
    BY <2>1, Join
  <2> HIDE DEF s
  <2> QED
    BY <1>9, <1>11, <2>2
<1> HIDE DEF s
<1>13. /\ s[1] = a[1] /\ s[2] = a[2] /\ s[3] = a[3] /\ s[4] = b[1] /\ s[5] = b[2]
       /\ s[6] = c[1] /\ s[7] = c[2] /\ s[8] = c[3] /\ s[9] = c[4]
       /\ s[10] = d[1] /\ s[11] = d[2] /\ s[12] = d[3] /\ s[13] = e[1] /\ s[14] = e[2]
       /\ s[15] = f[1] /\ s[16] = f[2]
  BY <1>10, <1>11, <1>12
<1>14. /\ \A i \in 1 .. 5 : i \in {1, 2, 3, 4, 5}
       /\ \A i \in 6 .. 9 : i \in {6, 7, 8, 9}
       /\ \A i \in 10 .. 12 : i \in {10, 11, 12}
       /\ \A i \in 13 .. 14 : i \in {13, 14}
       /\ \A i \in 15 .. 16 : i \in {15, 16}
  OBVIOUS
<1>15. /\ \A i \in 1 .. 5 : s[i].step = 1
       /\ \A i \in 6 .. 9 : s[i].step = 2 /\ s[i].name = "none"
       /\ \A i \in 10 .. 12 : s[i].step = 3
       /\ \A i \in 13 .. 14 : s[i].step = 4
       /\ \A i \in 15 .. 16 : s[i].step = 5 /\ s[i].by = "engine"
  <2>1. \A i \in 1 .. 5 : s[i].step = 1
    BY <1>4, <1>5, <1>13, <1>14
  <2>2. \A i \in 6 .. 9 : s[i].step = 2 /\ s[i].name = "none"
    <3>1. \A i \in {1, 2, 3, 4} : c[i].step = 2 /\ c[i].name = "none"
      BY <1>6
    <3> QED
      BY <1>13, <1>14, <3>1
  <2>3. \A i \in 10 .. 12 : s[i].step = 3
    BY <1>7, <1>13, <1>14
  <2>4. \A i \in 13 .. 14 : s[i].step = 4
    BY <1>8, <1>13, <1>14
  <2>5. \A i \in 15 .. 16 : s[i].step = 5 /\ s[i].by = "engine"
    BY <1>9, <1>13, <1>14
  <2> QED
    BY <2>1, <2>2, <2>3, <2>4, <2>5
<1>16. /\ s[1].op = "build" /\ s[2].op = "file" /\ s[3].op = "row" /\ s[4].op = "file" /\ s[5].op = "row"
       /\ s[6].op = "create" /\ s[7].op = "start" /\ s[8].op = "container" /\ s[9].op = "deployment"
       /\ s[10].op = "inspect" /\ s[11].op = "file" /\ s[12].op = "row" /\ s[13].op = "file"
       /\ s[14].op = "row" /\ s[15].op = "file" /\ s[16].op = "row"
  BY <1>4, <1>5, <1>6, <1>7, <1>8, <1>9, <1>13
<1>17. /\ s[2].name = "build.log" /\ s[3].name = "build.log" /\ s[4].name = "log" /\ s[5].name = "log"
       /\ s[11].name = "env_report" /\ s[12].name = "env_report"
       /\ s[13].name = "collected_context" /\ s[14].name = "collected_context"
       /\ s[15].name = "summary" /\ s[16].name = "summary"
       /\ s[1].name = "none" /\ s[10].name = "none"
  BY <1>4, <1>5, <1>7, <1>8, <1>9, <1>13
<1> QED
  BY <1>1, <1>12, <1>15, <1>16, <1>17

(* What a method starts with.                                               *)
Fresh(k, s) ==
  /\ s \in Seq(Calls) /\ s # <<>> /\ Head(s) = s[1]
  /\ Shape(k, s)
  /\ ~NeedsBox(s) /\ ~NeedsImage(s)
  /\ s[1].op \notin {"row", "mark"}

(* Each method's calls have the shape, and need nothing at the start.       *)
LEMMA DeployIsFresh ==
  ASSUME NEW settings \in BOOLEAN
  PROVE  LET s == Deploy(settings) IN
         /\ Fresh("deploy", s)
         /\ \A op \in {"task", "stage", "build", "image", "container"} :
              \E i \in 1 .. Len(s) : s[i].op = op
         /\ \A n \in {"app.jar", "pom.xml", "Dockerfile"} :
              \E i \in 1 .. Len(s) : s[i].op = "row" /\ s[i].name = n
<1> DEFINE s == Deploy(settings)
           o == IF settings THEN 2 ELSE 0
<1>1. /\ s \in Seq(Calls) /\ Len(s) = 16 + o
      /\ s[1].op = "task" /\ s[2].op = "stage"
      /\ s[3].op = "file" /\ s[3].name = "app.jar" /\ s[4].op = "row" /\ s[4].name = "app.jar"
      /\ s[5].op = "file" /\ s[5].name = "pom.xml" /\ s[6].op = "row" /\ s[6].name = "pom.xml"
      /\ settings => /\ s[7].op = "file" /\ s[7].name = "settings.xml"
                     /\ s[8].op = "row" /\ s[8].name = "settings.xml"
      /\ s[7 + o].op = "package"
      /\ s[8 + o].op = "file" /\ s[8 + o].name = "Dockerfile"
      /\ s[9 + o].op = "row" /\ s[9 + o].name = "Dockerfile"
      /\ s[10 + o].op = "build" /\ s[11 + o].op = "image" /\ s[12 + o].op = "create"
      /\ s[13 + o].op = "start" /\ s[14 + o].op = "container" /\ s[15 + o].op = "inspect"
      /\ s[16 + o].op = "deployment"
      /\ \A i \in 1 .. Len(s) : s[i].step = 0 /\ s[i].by = "caller" /\ s[i].name # "summary"
  BY DeployCalls
<1>2. o \in {0, 2} /\ (settings => o = 2) /\ (~settings => o = 0)
  OBVIOUS
<1>3. {"app.jar", "pom.xml", "settings.xml", "Dockerfile"} \subseteq Names
  BY DeployAssumption DEF DeployAssumption
<1> HIDE DEF s, o
<1>0. /\ Len(s) = 16 + o /\ o \in {0, 2}
      /\ \A i \in 1 .. Len(s) : s[i].step = 0 /\ s[i].by = "caller" /\ s[i].name # "summary"
  BY <1>1, <1>2
<1>4. ASSUME NEW i \in 1 .. Len(s)
      PROVE  \/ i \in {1, 2, 3, 4, 5, 6}
             \/ settings /\ i \in {7, 8}
             \/ i \in {7 + o, 8 + o, 9 + o, 10 + o, 11 + o, 12 + o, 13 + o, 14 + o, 15 + o, 16 + o}
  BY <1>1, <1>2
<1>5. RowsFollowFiles(s)
  <2>1. ASSUME NEW i \in 1 .. Len(s), s[i].op = "file"
        PROVE  i \in {3, 5} \/ (settings /\ i = 7) \/ i = 8 + o
    BY <1>1, <1>2, <1>4, <2>1
  <2>2. ASSUME NEW i \in 1 .. Len(s), s[i].op = "row"
        PROVE  i \in {4, 6} \/ (settings /\ i = 8) \/ i = 9 + o
    BY <1>1, <1>2, <1>4, <2>2
  <2>3. ASSUME NEW i \in 1 .. Len(s), s[i].op = "file"
        PROVE  /\ i + 1 <= Len(s) /\ s[i + 1].op = "row" /\ s[i + 1].name = s[i].name
               /\ s[i].name \in Names
    <3>1. CASE i \in {3, 5}
      BY <1>1, <1>2, <1>3, <3>1
    <3>2. CASE settings /\ i = 7
      BY <1>1, <1>2, <1>3, <3>2
    <3>3. CASE i = 8 + o
      <4>1. i + 1 = 9 + o /\ i + 1 <= Len(s)
        BY <1>1, <1>2, <3>3
      <4> QED
        BY <1>1, <1>3, <3>3, <4>1
    <3> QED
      BY <2>1, <2>3, <3>1, <3>2, <3>3
  <2>4. ASSUME NEW i \in 1 .. Len(s), s[i].op = "row"
        PROVE  /\ i - 1 \in 1 .. Len(s) /\ s[i - 1].op = "file" /\ s[i - 1].name = s[i].name
               /\ s[i].name \in Names
    <3>1. CASE i \in {4, 6}
      BY <1>1, <1>2, <1>3, <3>1
    <3>2. CASE settings /\ i = 8
      BY <1>1, <1>2, <1>3, <3>2
    <3>3. CASE i = 9 + o
      <4>1. i - 1 = 8 + o /\ i - 1 \in 1 .. Len(s)
        BY <1>1, <1>2, <3>3
      <4> QED
        BY <1>1, <1>3, <3>3, <4>1
    <3> QED
      BY <2>2, <2>4, <3>1, <3>2, <3>3
  <2>5. \A i \in 2 .. Len(s) : i \in 1 .. Len(s)
    OBVIOUS
  <2> QED
    BY <1>0, <2>3, <2>4, <2>5 DEF RowsFollowFiles
<1>6. BoxCallsInOrder(s)
  <2>1. \A i \in 1 .. Len(s) : s[i].op = "create" => i = 12 + o
    BY <1>1, <1>2, <1>4
  <2>2. \A i \in 1 .. Len(s) : s[i].op # "mark"
    BY <1>1, <1>2, <1>4
  <2>3. 14 + o \in ((12 + o) + 1) .. Len(s)
    BY <1>0
  <2>4. \A i \in 2 .. Len(s) : i \in 1 .. Len(s)
    BY <1>0
  <2>5. \A i \in 1 .. Len(s) : \A m \in (i + 1) .. Len(s) : m \in 1 .. Len(s) /\ m # i
    BY <1>0
  <2>6. s[14 + o].op = "container"
    BY <1>1
  <2> QED
    BY <2>1, <2>2, <2>3, <2>4, <2>5, <2>6 DEF BoxCallsInOrder
<1>7. PlanInOrder(s)
  <2>1. \A i \in 1 .. Len(s) : \A m \in (i + 1) .. Len(s) : m \in 1 .. Len(s)
    BY <1>0
  <2>2. \A i \in 1 .. Len(s) : \A m \in (i + 1) .. Len(s) : s[i].step <= s[m].step
    BY <1>0, <2>1
  <2> QED
    BY <1>0, <2>2 DEF PlanInOrder
<1>8. KindOfCalls("deploy", s)
  <2>1. \A i \in 1 .. Len(s) : s[i].op \notin {"remove", "mark"}
    BY <1>1, <1>2, <1>4
  <2>2. \A i \in 1 .. Len(s) : (s[i].op = "deployment" => i = 16 + o) /\ (s[i].op = "build" => i = 10 + o)
    BY <1>1, <1>2, <1>4
  <2>3. {11 + o, 14 + o} \subseteq ((10 + o) + 1) .. Len(s)
    BY <1>0
  <2>4. ASSUME NEW i \in 1 .. Len(s), s[i].op = "build", NEW op \in {"image", "container"}
        PROVE  \E m \in (i + 1) .. Len(s) : s[m].op = op
    <3>1. i = 10 + o
      BY <2>2, <2>4
    <3>2. s[11 + o].op = "image" /\ s[14 + o].op = "container"
      BY <1>1
    <3> QED
      BY <2>3, <2>4, <3>1, <3>2
  <2> QED
    BY <1>0, <2>1, <2>2, <2>4 DEF KindOfCalls
<1>9. ~NeedsBox(s) /\ ~NeedsImage(s)
  <2>1. ASSUME NEW m \in 1 .. Len(s), s[m].op \in UsesBox PROVE 12 + o \in 1 .. (m - 1)
    <3>1. m \in {13 + o, 14 + o, 16 + o}
      BY <1>1, <1>2, <1>4, <2>1 DEF UsesBox
    <3> QED
      BY <1>2, <3>1
  <2>2. ASSUME NEW m \in 1 .. Len(s), s[m].op = "image" PROVE 10 + o \in 1 .. (m - 1)
    <3>1. m = 11 + o
      BY <1>1, <1>2, <1>4, <2>2
    <3> QED
      BY <1>2, <3>1
  <2> QED
    BY <1>1, <2>1, <2>2 DEF NeedsBox, NeedsImage
<1>10. s # <<>> /\ Head(s) = s[1]
  BY <1>1, <1>2
<1>11. Fresh("deploy", s)
  BY <1>1, <1>5, <1>6, <1>7, <1>8, <1>9, <1>10 DEF Fresh, Shape
<1>12. /\ {1, 2, 4, 6} \subseteq 1 .. Len(s)
       /\ {9 + o, 10 + o, 11 + o, 14 + o} \subseteq 1 .. Len(s)
  BY <1>1, <1>2
<1>13. \A op \in {"task", "stage", "build", "image", "container"} : \E i \in 1 .. Len(s) : s[i].op = op
  <2>1. (\E i \in 1 .. Len(s) : s[i].op = "task") /\ (\E i \in 1 .. Len(s) : s[i].op = "stage")
    BY <1>1, <1>12
  <2>2. (\E i \in 1 .. Len(s) : s[i].op = "build") /\ (\E i \in 1 .. Len(s) : s[i].op = "image")
    BY <1>1, <1>12
  <2>3. \E i \in 1 .. Len(s) : s[i].op = "container"
    BY <1>1, <1>12
  <2> QED
    BY <2>1, <2>2, <2>3
<1>14. \A n \in {"app.jar", "pom.xml", "Dockerfile"} :
         \E i \in 1 .. Len(s) : s[i].op = "row" /\ s[i].name = n
  <2>1. /\ s[4].op = "row" /\ s[4].name = "app.jar" /\ s[6].op = "row" /\ s[6].name = "pom.xml"
        /\ s[9 + o].op = "row" /\ s[9 + o].name = "Dockerfile"
    BY <1>1
  <2> QED
    BY <1>12, <2>1
<1> QED
  BY <1>11, <1>13, <1>14 DEF s

LEMMA PlanIsFresh == Fresh("run", RunPlan)
<1> DEFINE s == RunPlan
<1>1. /\ s \in Seq(Calls) /\ Len(s) = 16
      /\ s[1].op = "build" /\ s[2].op = "file" /\ s[3].op = "row" /\ s[4].op = "file" /\ s[5].op = "row"
      /\ s[6].op = "create" /\ s[7].op = "start" /\ s[8].op = "container" /\ s[9].op = "deployment"
      /\ s[10].op = "inspect" /\ s[11].op = "file" /\ s[12].op = "row" /\ s[13].op = "file"
      /\ s[14].op = "row" /\ s[15].op = "file" /\ s[16].op = "row"
  BY PlanCalls
<1>2. /\ s[2].name = "build.log" /\ s[3].name = "build.log" /\ s[4].name = "log" /\ s[5].name = "log"
      /\ s[11].name = "env_report" /\ s[12].name = "env_report"
      /\ s[13].name = "collected_context" /\ s[14].name = "collected_context"
      /\ s[15].name = "summary" /\ s[16].name = "summary"
      /\ s[1].name = "none" /\ s[10].name = "none" /\ \A i \in 6 .. 9 : s[i].name = "none"
  BY PlanCalls
<1>3. /\ \A i \in 1 .. 5 : s[i].step = 1
      /\ \A i \in 6 .. 9 : s[i].step = 2
      /\ \A i \in 10 .. 12 : s[i].step = 3
      /\ \A i \in 13 .. 14 : s[i].step = 4
      /\ \A i \in 15 .. 16 : s[i].step = 5 /\ s[i].by = "engine"
  BY PlanCalls
<1>4. {"build.log", "log", "env_report", "collected_context", "summary"} \subseteq Names
  BY DeployAssumption DEF DeployAssumption
<1> HIDE DEF s
<1>0. Len(s) = 16
  BY <1>1
<1>5. \A i \in 1 .. Len(s) : i \in {1, 2, 3, 4, 5, 6, 7, 8, 9, 10, 11, 12, 13, 14, 15, 16}
  BY <1>1
<1>6. RowsFollowFiles(s)
  <2>1. ASSUME NEW i \in 1 .. Len(s), s[i].op \in {"file", "row"} PROVE s[i].name \in Names
    <3>1. i \in {2, 3, 4, 5, 11, 12, 13, 14, 15, 16}
      BY <1>1, <1>5, <2>1
    <3> QED
      BY <1>2, <1>4, <3>1
  <2>2. ASSUME NEW i \in 1 .. Len(s), s[i].op = "file"
        PROVE  i + 1 <= Len(s) /\ s[i + 1].op = "row" /\ s[i + 1].name = s[i].name
    <3>1. i \in {2, 4, 11, 13, 15}
      BY <1>1, <1>5, <2>2
    <3>2. i + 1 <= Len(s) /\ i + 1 \in {3, 5, 12, 14, 16}
      BY <1>0, <3>1
    <3>3. s[i + 1].op = "row"
      BY <1>1, <3>2
    <3>4. s[i + 1].name = s[i].name
      <4>1. /\ s[3].name = s[2].name /\ s[5].name = s[4].name /\ s[12].name = s[11].name
            /\ s[14].name = s[13].name /\ s[16].name = s[15].name
        BY <1>2
      <4>2. CASE i = 2
        BY <4>1, <4>2
      <4>3. CASE i = 4
        BY <4>1, <4>3
      <4>4. CASE i = 11
        BY <4>1, <4>4
      <4>5. CASE i = 13
        BY <4>1, <4>5
      <4>6. CASE i = 15
        BY <4>1, <4>6
      <4> QED
        BY <3>1, <4>2, <4>3, <4>4, <4>5, <4>6
    <3> QED
      BY <3>2, <3>3, <3>4
  <2>3. ASSUME NEW i \in 2 .. Len(s), s[i].op = "row"
        PROVE  s[i - 1].op = "file" /\ s[i - 1].name = s[i].name /\ s[i - 1].step = s[i].step
    <3>1. i \in {3, 5, 12, 14, 16}
      <4>1. i \in 1 .. Len(s)
        BY <1>1
      <4> QED
        BY <1>1, <1>5, <2>3, <4>1
    <3>2. s[i - 1].op = "file" /\ s[i - 1].name = s[i].name
      BY <1>1, <1>2, <3>1
    <3>3. s[i - 1].step = s[i].step
      <4>1. /\ s[2].step = 1 /\ s[3].step = 1 /\ s[4].step = 1 /\ s[5].step = 1
            /\ s[11].step = 3 /\ s[12].step = 3 /\ s[13].step = 4 /\ s[14].step = 4
            /\ s[15].step = 5 /\ s[16].step = 5
        BY <1>3
      <4> QED
        BY <3>1, <4>1
    <3> QED
      BY <3>2, <3>3
  <2> QED
    BY <2>1, <2>2, <2>3 DEF RowsFollowFiles
<1>7. BoxCallsInOrder(s)
  <2>1. \A i \in 1 .. Len(s) : s[i].op = "create" => i = 6
    BY <1>1, <1>5
  <2>2. \A i \in 1 .. Len(s) : s[i].op # "mark"
    BY <1>1, <1>5
  <2>3. \A i \in 1 .. Len(s) : \A m \in (i + 1) .. Len(s) : m \in 1 .. Len(s) /\ m # i
    BY <1>0
  <2>4. \A i \in 2 .. Len(s) : i \in 1 .. Len(s)
    BY <1>0
  <2>5. 8 \in (6 + 1) .. Len(s)
    BY <1>0
  <2>6. s[8].op = "container"
    BY <1>1
  <2> QED
    BY <2>1, <2>2, <2>3, <2>4, <2>5, <2>6 DEF BoxCallsInOrder
<1>8. PlanInOrder(s)
  <2>3. ASSUME NEW i \in 1 .. Len(s)
        PROVE  /\ s[i].step \in 1 .. 5
               /\ s[i].step <= 1 <=> i \in 1 .. 5
               /\ s[i].step <= 2 <=> i \in 1 .. 9
               /\ s[i].step <= 3 <=> i \in 1 .. 12
               /\ s[i].step <= 4 <=> i \in 1 .. 14
    <3>1. i \in 1 .. 5 \/ i \in 6 .. 9 \/ i \in 10 .. 12 \/ i \in 13 .. 14 \/ i \in 15 .. 16
      BY <1>1
    <3>2. CASE i \in 1 .. 5
      <4>1. s[i].step = 1
        BY <1>3, <3>2
      <4> QED
        BY <3>2, <4>1
    <3>3. CASE i \in 6 .. 9
      <4>1. s[i].step = 2
        BY <1>3, <3>3
      <4> QED
        BY <3>3, <4>1
    <3>4. CASE i \in 10 .. 12
      <4>1. s[i].step = 3
        BY <1>3, <3>4
      <4> QED
        BY <3>4, <4>1
    <3>5. CASE i \in 13 .. 14
      <4>1. s[i].step = 4
        BY <1>3, <3>5
      <4> QED
        BY <3>5, <4>1
    <3>6. CASE i \in 15 .. 16
      <4>1. s[i].step = 5
        BY <1>3, <3>6
      <4> QED
        BY <3>6, <4>1
    <3> QED
      BY <3>1, <3>2, <3>3, <3>4, <3>5, <3>6
  <2>1. \A i \in 1 .. Len(s) : \A m \in (i + 1) .. Len(s) : s[i].step <= s[m].step
    <3> SUFFICES ASSUME NEW i \in 1 .. Len(s), NEW m \in (i + 1) .. Len(s)
                 PROVE  s[i].step <= s[m].step
      OBVIOUS
    <3>1. m \in 1 .. Len(s) /\ i < m
      BY <1>0
    <3>2. s[i].step \in 1 .. 5 /\ s[m].step \in 1 .. 5
      BY <2>3, <3>1
    <3>3. /\ i \in 1 .. 5 \/ m \notin 1 .. 5
          /\ i \in 1 .. 9 \/ m \notin 1 .. 9
          /\ i \in 1 .. 12 \/ m \notin 1 .. 12
          /\ i \in 1 .. 14 \/ m \notin 1 .. 14
      BY <3>1
    <3>4. /\ s[i].step <= 1 <=> i \in 1 .. 5
          /\ s[i].step <= 2 <=> i \in 1 .. 9
          /\ s[i].step <= 3 <=> i \in 1 .. 12
          /\ s[i].step <= 4 <=> i \in 1 .. 14
      BY <2>3
    <3>5. /\ s[m].step <= 1 <=> m \in 1 .. 5
          /\ s[m].step <= 2 <=> m \in 1 .. 9
          /\ s[m].step <= 3 <=> m \in 1 .. 12
          /\ s[m].step <= 4 <=> m \in 1 .. 14
      BY <2>3, <3>1
    <3>6. ~(s[m].step < s[i].step)
      BY <3>2, <3>3, <3>4, <3>5
    <3> QED
      BY <3>2, <3>6
  <2>2. ASSUME NEW i \in 1 .. Len(s), s[i].name = "summary"
        PROVE  s[i].by = "engine" /\ \A m \in i .. Len(s) : s[m].op \in {"file", "row"}
    <3>1. i \in {15, 16}
      <4>1. s[6].name = "none" /\ s[7].name = "none" /\ s[8].name = "none" /\ s[9].name = "none"
        BY PlanCalls DEF s
      <4> QED
        BY <1>2, <1>5, <2>2, <4>1
    <3>2. \A m \in i .. Len(s) : m \in {15, 16}
      BY <1>0, <3>1
    <3>3. s[15].op = "file" /\ s[16].op = "row"
      BY <1>1
    <3>4. s[15].by = "engine" /\ s[16].by = "engine"
      BY <1>3
    <3> QED
      BY <3>1, <3>2, <3>3, <3>4
  <2>4. \A m \in 1 .. Len(s) : s[m].op # "image" /\ (s[m].op \in UsesBox => m \in {7, 8, 9})
    BY <1>1, <1>5 DEF UsesBox
  <2>5. \A i \in 1 .. Len(s) : s[i].step = 1 => i \in 1 .. 5
    BY <2>3
  <2>6. ASSUME NEW i \in 1 .. Len(s), NEW m \in (i + 1) .. Len(s), s[m].op \in UsesBox
        PROVE  /\ s[m].step = 2
               /\ s[i].step = 1 =>
                    \E k \in (i + 1) .. (m - 1) : s[k].op = "create" /\ s[k].step = 2
    <3>1. m \in 1 .. Len(s)
      BY <1>0
    <3>2. m \in {7, 8, 9} /\ m \in 6 .. 9
      BY <2>4, <2>6, <3>1
    <3>3. s[m].step = 2 /\ s[6].step = 2
      <4>1. \A k \in 6 .. 9 : s[k].step = 2
        BY <1>3
      <4> QED
        BY <3>2, <4>1
    <3>4. s[i].step = 1 => 6 \in (i + 1) .. (m - 1)
      BY <2>5, <3>2
    <3> QED
      BY <1>1, <3>3, <3>4
  <2>7. \A i \in 1 .. Len(s) : \A m \in (i + 1) .. Len(s) : m \in 1 .. Len(s)
    BY <1>0
  <2> QED
    BY <2>1, <2>2, <2>3, <2>4, <2>6, <2>7 DEF PlanInOrder
<1>9. KindOfCalls("run", s)
  <2>1. \A i \in 1 .. Len(s) : s[i].op \notin {"remove", "mark"}
    BY <1>1, <1>5
  <2> QED
    BY <2>1 DEF KindOfCalls
<1>10. ~NeedsBox(s) /\ ~NeedsImage(s)
  <2>1. \A m \in 1 .. Len(s) : s[m].op \in UsesBox => 6 \in 1 .. (m - 1)
    BY <1>1, <1>5 DEF UsesBox
  <2>2. \A m \in 1 .. Len(s) : s[m].op # "image"
    BY <1>1, <1>5
  <2>3. s[6].op = "create"
    BY <1>1
  <2> QED
    BY <2>1, <2>2, <2>3 DEF NeedsBox, NeedsImage
<1>11. s # <<>> /\ Head(s) = s[1]
  <2>1. s \in Seq(Calls)
    BY <1>1
  <2>2. s # <<>>
    BY <1>0
  <2> QED
    BY <1>0, <2>1, <2>2
<1> QED
  BY <1>1, <1>6, <1>7, <1>8, <1>9, <1>10, <1>11 DEF Fresh, Shape, s

LEMMA SetupIsFresh == Fresh("setup", Do(RegisterHost \o RegisterEngine, 0, "caller"))
<1> DEFINE s == Do(RegisterHost \o RegisterEngine, 0, "caller")
<1>1. /\ s \in Seq(Calls) /\ Len(s) = 2 /\ s[1].op = "host" /\ s[2].op = "engine"
      /\ \A i \in 1 .. 2 : s[i].name = "none" /\ s[i].step = 0 /\ s[i].by = "caller"
  BY SetupCalls
<1> HIDE DEF s
<1>2. \A i \in 1 .. Len(s) : i \in {1, 2} /\ s[i].op \in {"host", "engine"}
  BY <1>1
<1>3. \A i \in 1 .. Len(s) : \A m \in (i + 1) .. Len(s) : m \in 1 .. Len(s)
  BY <1>1
<1>4. \A i \in 2 .. Len(s) : i \in 1 .. Len(s)
  BY <1>1
<1>5. RowsFollowFiles(s) /\ BoxCallsInOrder(s)
  BY <1>2, <1>3, <1>4 DEF RowsFollowFiles, BoxCallsInOrder
<1>6. PlanInOrder(s) /\ KindOfCalls("setup", s)
  BY <1>1, <1>2, <1>3 DEF PlanInOrder, KindOfCalls
<1>7. ~NeedsBox(s) /\ ~NeedsImage(s) /\ s # <<>> /\ Head(s) = s[1]
  <2>1. s \in Seq(Calls) /\ Len(s) = 2
    BY <1>1
  <2>2. s # <<>> /\ Head(s) = s[1]
    BY <2>1
  <2> QED
    BY <1>2, <2>2 DEF NeedsBox, NeedsImage, UsesBox
<1> QED
  BY <1>1, <1>5, <1>6, <1>7 DEF Fresh, Shape, s

LEMMA RemovalIsFresh == Fresh("remove", Do(RemoveContainer, 0, "caller"))
<1> DEFINE s == Do(RemoveContainer, 0, "caller")
<1>1. /\ s \in Seq(Calls) /\ Len(s) = 2 /\ s[1].op = "remove" /\ s[2].op = "mark"
      /\ \A i \in 1 .. 2 : s[i].name = "none" /\ s[i].step = 0 /\ s[i].by = "caller"
  BY RemoveCalls
<1> HIDE DEF s
<1>2. \A i \in 1 .. Len(s) : i \in {1, 2} /\ s[i].op \in {"remove", "mark"}
  BY <1>1
<1>3. \A i \in 1 .. Len(s) : \A m \in (i + 1) .. Len(s) : m \in 1 .. Len(s)
  BY <1>1
<1>4. \A i \in 2 .. Len(s) : i \in 1 .. Len(s) /\ i = 2 /\ i - 1 = 1
  BY <1>1
<1>5. RowsFollowFiles(s)
  BY <1>2, <1>3, <1>4 DEF RowsFollowFiles
<1>6. BoxCallsInOrder(s)
  BY <1>1, <1>2, <1>4 DEF BoxCallsInOrder
<1>7. PlanInOrder(s) /\ KindOfCalls("remove", s)
  BY <1>1, <1>2, <1>3 DEF PlanInOrder, KindOfCalls
<1>8. ~NeedsBox(s) /\ ~NeedsImage(s) /\ s # <<>> /\ Head(s) = s[1]
  <2>1. s \in Seq(Calls) /\ Len(s) = 2
    BY <1>1
  <2>2. s # <<>> /\ Head(s) = s[1]
    BY <2>1
  <2> QED
    BY <1>2, <2>2 DEF NeedsBox, NeedsImage, UsesBox
<1> QED
  BY <1>1, <1>5, <1>6, <1>7, <1>8 DEF Fresh, Shape, s

-----------------------------------------------------------------------------
(* A call that is made: what its job has for it.                            *)

LEMMA Faced ==
  ASSUME IInv, NEW j \in Jobs, status[j] = "busy"
  PROVE  /\ todo[j] \in Seq(Calls) /\ todo[j] # <<>> /\ Len(todo[j]) >= 1
         /\ Head(todo[j]) = todo[j][1] /\ todo[j][1] \in Calls
         /\ Shape(kind[j], todo[j])
         /\ todo[j][1].op \in {"file", "row"} => Path(j) \in Paths
         /\ todo[j][1].op \in UsesBox => image[j] \in ImageIds /\ box[j] \in ContainerIds
         /\ todo[j][1].op \in {"remove", "mark"} => kind[j] = "remove" /\ box[j] \in ContainerIds
         /\ todo[j][1].op = "image" => image[j] \in ImageIds
         /\ box[j] \in ContainerIds => boxes[box[j]] \in Boxes
<1> DEFINE s == todo[j]
<1>1. s \in Seq(Calls) /\ s # <<>> /\ JobInv(j)
  BY DEF IInv, TypeOK
<1>2. /\ image[j] \in ImageIds \cup {None} /\ box[j] \in ContainerIds \cup {None}
      /\ None \notin ImageIds /\ None \notin ContainerIds /\ boxes \in [ContainerIds -> Boxes \cup {None}]
      /\ TaskOf[j] \in Tasks
  BY DeployAssumption DEF DeployAssumption, IInv, TypeOK, EngineTypeOK
<1>3. Path(j) = <<TaskOf[j], Head(s).name>>
  BY DEF Path
<1> HIDE DEF s
<1>4. Len(s) \in Nat /\ Len(s) >= 1 /\ Head(s) = s[1] /\ s[1] \in Calls /\ 1 \in 1 .. Len(s)
  BY <1>1
<1>5. Shape(kind[j], s)
  BY <1>1 DEF JobInv, s
<1>6. s[1].op \in {"file", "row"} => Path(j) \in Paths
  BY <1>2, <1>3, <1>4, <1>5 DEF Shape, RowsFollowFiles, Paths
<1>7. s[1].op \in UsesBox => NeedsBox(s)
  <2>1. \A i \in 1 .. (1 - 1) : FALSE
    OBVIOUS
  <2> QED
    BY <1>4, <2>1 DEF NeedsBox
<1>8. s[1].op = "image" => NeedsImage(s)
  <2>1. \A i \in 1 .. (1 - 1) : FALSE
    OBVIOUS
  <2> QED
    BY <1>4, <2>1 DEF NeedsImage
<1>9. s[1].op \in {"remove", "mark"} => kind[j] = "remove"
  BY <1>4, <1>5 DEF Shape, KindOfCalls
<1>10. /\ NeedsBox(s) => box[j] # None /\ image[j] # None
       /\ NeedsImage(s) => image[j] # None
       /\ box[j] # None => boxes[box[j]] # None
       /\ kind[j] = "remove" => box[j] # None
  BY <1>1 DEF JobInv, HasWhatItNeeds, s
<1> QED
  BY <1>1, <1>2, <1>4, <1>5, <1>6, <1>7, <1>8, <1>9, <1>10 DEF s

-----------------------------------------------------------------------------
(* Types                                                                    *)

LEMMA TypesInit == Init => TypeOK /\ todo \in [Jobs -> Seq(Calls)]
<1> SUFFICES ASSUME Init PROVE TypeOK /\ todo \in [Jobs -> Seq(Calls)]
  OBVIOUS
<1>1. StoreTypeOK /\ RegistryTypeOK /\ EngineTypeOK
  BY DEF Init, StoreInit, RegistryInit, EngineInit, StoreTypeOK, RegistryTypeOK, EngineTypeOK
<1>2. NoReport \in Reports
  BY DEF NoReport, Reports, Statuses
<1>3. <<>> \in Seq(Calls)
  OBVIOUS
<1> QED
  BY <1>1, <1>2, <1>3, DeployAssumption DEF Init, TypeOK, DeployAssumption

(* A call that returns.                                                     *)
LEMMA ReturnedTypes ==
  ASSUME IInv, NEW j \in Jobs, status[j] = "busy", Returned(j)
  PROVE  /\ kind' \in KindSets
         /\ status' \in [Jobs -> {"idle", "busy", "returned", "failed"}]
         /\ round' \in [Jobs -> 0 .. MaxRounds] /\ raised' \in [Jobs -> BOOLEAN]
         /\ \A k \in Jobs : (status'[k] = "busy") <=> (todo'[k] # <<>>)
         /\ todo' \in [Jobs -> Seq(Calls)]
<1>1. todo[j] \in Seq(Calls) /\ todo[j] # <<>> /\ Shape(kind[j], todo[j])
  BY Faced
<1>2. Tail(todo[j]) \in Seq(Calls) /\ (Tail(todo[j]) = <<>> <=> Len(todo[j]) = 1)
  BY <1>1, TailOfCalls
<1> QED
  BY <1>2 DEF IInv, TypeOK, Returned

Typed == TypeOK /\ todo \in [Jobs -> Seq(Calls)]

LEMMA StoreCallTypes == ASSUME IInv, NEW j \in Jobs, StoreCall(j) PROVE Typed'
<1>1. status[j] = "busy"
  BY DEF StoreCall, Facing
<1>2. /\ kind' \in KindSets
      /\ status' \in [Jobs -> {"idle", "busy", "returned", "failed"}]
      /\ round' \in [Jobs -> 0 .. MaxRounds] /\ raised' \in [Jobs -> BOOLEAN]
      /\ \A k \in Jobs : (status'[k] = "busy") <=> (todo'[k] # <<>>)
      /\ todo' \in [Jobs -> Seq(Calls)]
  BY <1>1, ReturnedTypes DEF StoreCall, Keeps
<1>3. StoreTypeOK'
  <2>1. TaskOf[j] \in Tasks /\ StoreTypeOK
    BY DeployAssumption DEF DeployAssumption, IInv, TypeOK
  <2>2. CASE Facing(j, "task") /\ InsertTask(TaskOf[j])
    BY <2>1, <2>2 DEF InsertTask, StoreTypeOK
  <2>3. CASE Facing(j, "stage") /\ InsertStage(TaskOf[j])
    BY <2>1, <2>3 DEF InsertStage, StoreTypeOK
  <2>4. CASE Facing(j, "file") /\ WriteFile(Path(j), TRUE)
    <3>1. Path(j) \in Paths
      BY <1>1, <2>4, Faced DEF Facing
    <3> QED
      BY <2>1, <2>4, <3>1 DEF WriteFile, StoreTypeOK
  <2>5. CASE Facing(j, "row") /\ InsertArtifact(Path(j), kind[j] = "deploy")
    <3>1. Path(j) \in Paths
      BY <1>1, <2>5, Faced DEF Facing
    <3>2. [task |-> Path(j)[1], staged |-> kind[j] = "deploy", path |-> Path(j), write |-> writes[Path(j)]]
            \in ArtifactRows
      BY <2>1, <3>1 DEF StoreTypeOK, ArtifactRows, Paths
    <3> QED
      BY <2>1, <2>5, <3>2 DEF InsertArtifact, StoreTypeOK
  <2> QED
    BY <2>2, <2>3, <2>4, <2>5 DEF StoreCall
<1>4. RegistryTypeOK' /\ EngineTypeOK'
  BY DEF StoreCall, registryVars, engineVars, IInv, TypeOK, RegistryTypeOK, EngineTypeOK
<1>5. /\ image' \in [Jobs -> ImageIds \cup {None}] /\ box' \in [Jobs -> ContainerIds \cup {None}]
      /\ report' \in [Jobs -> Reports]
  BY DEF StoreCall, Keeps, IInv, TypeOK
<1> QED
  BY <1>2, <1>3, <1>4, <1>5 DEF Typed, TypeOK

LEMMA BuildTypes == ASSUME IInv, NEW j \in Jobs, Build(j) PROVE Typed'
<1>1. status[j] = "busy"
  BY DEF Build, Facing
<1>2. /\ kind' \in KindSets
      /\ status' \in [Jobs -> {"idle", "busy", "returned", "failed"}]
      /\ round' \in [Jobs -> 0 .. MaxRounds] /\ raised' \in [Jobs -> BOOLEAN]
      /\ \A k \in Jobs : (status'[k] = "busy") <=> (todo'[k] # <<>>)
      /\ todo' \in [Jobs -> Seq(Calls)]
  BY <1>1, ReturnedTypes DEF Build
<1>3. StoreTypeOK' /\ RegistryTypeOK'
  BY DEF Build, storeVars, registryVars, IInv, TypeOK, RegistryTypeOK, StoreTypeOK
<1>4. EngineTypeOK' /\ image' \in [Jobs -> ImageIds \cup {None}]
  BY DEF Build, BuildImage, IInv, TypeOK, EngineTypeOK
<1>5. box' \in [Jobs -> ContainerIds \cup {None}] /\ report' \in [Jobs -> Reports]
  BY DEF Build, IInv, TypeOK
<1> QED
  BY <1>2, <1>3, <1>4, <1>5 DEF Typed, TypeOK

LEMMA CreateTypes == ASSUME IInv, NEW j \in Jobs, Create(j) PROVE Typed'
<1>1. status[j] = "busy"
  BY DEF Create, Facing
<1>2. /\ kind' \in KindSets
      /\ status' \in [Jobs -> {"idle", "busy", "returned", "failed"}]
      /\ round' \in [Jobs -> 0 .. MaxRounds] /\ raised' \in [Jobs -> BOOLEAN]
      /\ \A k \in Jobs : (status'[k] = "busy") <=> (todo'[k] # <<>>)
      /\ todo' \in [Jobs -> Seq(Calls)]
  BY <1>1, ReturnedTypes DEF Create
<1>3. StoreTypeOK' /\ RegistryTypeOK'
  BY DEF Create, storeVars, registryVars, IInv, TypeOK, RegistryTypeOK, StoreTypeOK
<1>4. EngineTypeOK' /\ box' \in [Jobs -> ContainerIds \cup {None}]
  <2>1. PICK b \in ContainerIds : CreateBox(b, j) /\ box' = [box EXCEPT ![j] = b]
    BY DEF Create
  <2>2. [state |-> "created", by |-> j] \in Boxes
    BY DEF Boxes
  <2> QED
    BY <2>1, <2>2 DEF CreateBox, IInv, TypeOK, EngineTypeOK
<1>5. image' \in [Jobs -> ImageIds \cup {None}] /\ report' \in [Jobs -> Reports]
  BY DEF Create, IInv, TypeOK
<1> QED
  BY <1>2, <1>3, <1>4, <1>5 DEF Typed, TypeOK

LEMMA EngineCallTypes == ASSUME IInv, NEW j \in Jobs, EngineCall(j) PROVE Typed'
<1>1. status[j] = "busy"
  BY DEF EngineCall, Facing
<1>2. /\ kind' \in KindSets
      /\ status' \in [Jobs -> {"idle", "busy", "returned", "failed"}]
      /\ round' \in [Jobs -> 0 .. MaxRounds] /\ raised' \in [Jobs -> BOOLEAN]
      /\ \A k \in Jobs : (status'[k] = "busy") <=> (todo'[k] # <<>>)
      /\ todo' \in [Jobs -> Seq(Calls)]
  BY <1>1, ReturnedTypes DEF EngineCall, Keeps
<1>3. StoreTypeOK' /\ RegistryTypeOK'
  BY DEF EngineCall, storeVars, registryVars, IInv, TypeOK, RegistryTypeOK, StoreTypeOK
<1>4. EngineTypeOK'
  <2>1. box[j] \in ContainerIds /\ boxes[box[j]] \in Boxes
    BY <1>1, Faced DEF EngineCall, Facing, UsesBox
  <2>2. \A st \in {"created", "running", "gone"} : [boxes[box[j]] EXCEPT !.state = st] \in Boxes
    BY <2>1 DEF Boxes
  <2> QED
    BY <2>1, <2>2 DEF EngineCall, StartBox, RemoveBox, IInv, TypeOK, EngineTypeOK
<1>5. /\ image' \in [Jobs -> ImageIds \cup {None}] /\ box' \in [Jobs -> ContainerIds \cup {None}]
      /\ report' \in [Jobs -> Reports]
  BY DEF EngineCall, Keeps, IInv, TypeOK
<1> QED
  BY <1>2, <1>3, <1>4, <1>5 DEF Typed, TypeOK

LEMMA InspectTypes == ASSUME IInv, NEW j \in Jobs, Inspect(j) PROVE Typed'
<1>1. status[j] = "busy"
  BY DEF Inspect, Facing
<1>2. /\ kind' \in KindSets
      /\ status' \in [Jobs -> {"idle", "busy", "returned", "failed"}]
      /\ round' \in [Jobs -> 0 .. MaxRounds] /\ raised' \in [Jobs -> BOOLEAN]
      /\ \A k \in Jobs : (status'[k] = "busy") <=> (todo'[k] # <<>>)
      /\ todo' \in [Jobs -> Seq(Calls)]
  BY <1>1, ReturnedTypes DEF Inspect
<1>3. StoreTypeOK' /\ RegistryTypeOK' /\ EngineTypeOK'
  BY DEF Inspect, storeVars, registryVars, engineVars, IInv, TypeOK, RegistryTypeOK, StoreTypeOK, EngineTypeOK
<1>4. image' \in [Jobs -> ImageIds \cup {None}] /\ box' \in [Jobs -> ContainerIds \cup {None}]
  BY DEF Inspect, IInv, TypeOK
<1>5. report' \in [Jobs -> Reports]
  <2>1. report \in [Jobs -> Reports]
    BY DEF IInv, TypeOK
  <2>2. \A p \in PackageInputs : PackageStatus(p) \in Statuses
    BY DEF PackageStatus, Statuses
  <2>3. \A r, a : EnvStatus(r, a) \in Statuses /\ Readiness(r, a) \in {"none", "ready", "degraded", "failed"}
    BY DEF EnvStatus, Readiness, Statuses
  <2>4. \A st \in Statuses : [report[j] EXCEPT !.package = st] \in Reports
    BY <2>1 DEF Reports
  <2>5. \A st \in Statuses, r \in {"none", "ready", "degraded", "failed"} :
          [[report[j] EXCEPT !.env = st] EXCEPT !.readiness = r] \in Reports
    BY <2>1 DEF Reports
  <2>6. CASE \E p \in PackageInputs : report' = [report EXCEPT ![j].package = PackageStatus(p)]
    BY <2>1, <2>2, <2>4, <2>6
  <2>7. ASSUME NEW r, NEW a,
               report' = [report EXCEPT ![j].env = EnvStatus(r, a), ![j].readiness = Readiness(r, a)]
        PROVE  report' \in [Jobs -> Reports]
    BY <2>1, <2>3, <2>5, <2>7
  <2> QED
    BY <2>6, <2>7 DEF Inspect
<1> QED
  BY <1>2, <1>3, <1>4, <1>5 DEF Typed, TypeOK

LEMMA RegistryCallTypes == ASSUME IInv, NEW j \in Jobs, RegistryCall(j) PROVE Typed'
<1>1. status[j] = "busy"
  BY DEF RegistryCall, Facing
<1>2. /\ kind' \in KindSets
      /\ status' \in [Jobs -> {"idle", "busy", "returned", "failed"}]
      /\ round' \in [Jobs -> 0 .. MaxRounds] /\ raised' \in [Jobs -> BOOLEAN]
      /\ \A k \in Jobs : (status'[k] = "busy") <=> (todo'[k] # <<>>)
      /\ todo' \in [Jobs -> Seq(Calls)]
  BY <1>1, ReturnedTypes DEF RegistryCall, Keeps
<1>3. StoreTypeOK' /\ EngineTypeOK'
  BY DEF RegistryCall, storeVars, engineVars, IInv, TypeOK, EngineTypeOK, StoreTypeOK
<1>4. RegistryTypeOK'
  <2>1. RegistryTypeOK /\ TaskOf[j] \in Owners
    BY DeployAssumption DEF DeployAssumption, IInv, TypeOK
  <2>2. CASE Facing(j, "image") /\ InsertImage(image[j], TaskOf[j])
    <3>1. image[j] \in ImageIds
      BY <1>1, <2>2, Faced DEF Facing
    <3> QED
      BY <2>1, <2>2, <3>1 DEF InsertImage, RegistryTypeOK, ImageRows
  <2>3. CASE Facing(j, "container") /\ InsertContainer(box[j], image[j], TaskOf[j])
    <3>1. image[j] \in ImageIds /\ box[j] \in ContainerIds
      BY <1>1, <2>3, Faced DEF Facing, UsesBox
    <3> QED
      BY <2>1, <2>3, <3>1 DEF InsertContainer, RegistryTypeOK, ContainerRows
  <2>4. CASE Facing(j, "deployment") /\ InsertDeployment(TaskOf[j], image[j], box[j])
    <3>1. image[j] \in ImageIds /\ box[j] \in ContainerIds
      BY <1>1, <2>4, Faced DEF Facing, UsesBox
    <3> QED
      BY <2>1, <2>4, <3>1 DEF InsertDeployment, RegistryTypeOK, DeploymentRows
  <2>5. CASE Facing(j, "mark") /\ UpdateStatus(box[j], "removed")
    <3>1. \A row \in ContainerRows : [row EXCEPT !.status = "removed"] \in ContainerRows
      BY DEF ContainerRows
    <3> QED
      BY <2>1, <2>5, <3>1 DEF UpdateStatus, RegistryTypeOK
  <2>6. CASE \E h \in HostIds, n \in HostNames : InsertHost(h, n)
    BY <2>1, <2>6 DEF InsertHost, RegistryTypeOK, HostRows
  <2>7. CASE InsertEngine
    BY <2>1, <2>7 DEF InsertEngine, RegistryTypeOK
  <2> QED
    BY <2>2, <2>3, <2>4, <2>5, <2>6, <2>7 DEF RegistryCall
<1>5. /\ image' \in [Jobs -> ImageIds \cup {None}] /\ box' \in [Jobs -> ContainerIds \cup {None}]
      /\ report' \in [Jobs -> Reports]
  BY DEF RegistryCall, Keeps, IInv, TypeOK
<1> QED
  BY <1>2, <1>3, <1>4, <1>5 DEF Typed, TypeOK

(* What a call that raises does to its job: it is over, or goes on with a   *)
(* rest that needs neither image nor container.                             *)
LEMMA AbandonedTodo ==
  ASSUME IInv, NEW j \in Jobs, status[j] = "busy", Abandons(j)
  PROVE  \/ /\ todo' = [todo EXCEPT ![j] = <<>>] /\ status' = [status EXCEPT ![j] = "failed"]
            /\ UNCHANGED box /\ UNCHANGED image
         \/ /\ todo[j][1].by = "executor" /\ kind[j] \notin {"deploy", "remove"} /\ UNCHANGED status
            /\ \E t \in Seq(Calls) :
                 /\ todo' = [todo EXCEPT ![j] = t]
                 /\ t # <<>> /\ Head(t).op \notin {"row", "remove", "mark"} /\ Shape(kind[j], t)
                 /\ ~NeedsBox(t) /\ ~NeedsImage(t)
            /\ box' = box \/ box' = [box EXCEPT ![j] = None]
            /\ image' = image \/ image' = [image EXCEPT ![j] = None]
<1> DEFINE s == todo[j]
<1>1. s \in Seq(Calls) /\ s # <<>> /\ Len(s) >= 1 /\ Head(s) = s[1] /\ s[1] \in Calls /\ Shape(kind[j], s)
  BY Faced
<1>2. CASE s[1].by # "executor"
  BY <1>1, <1>2 DEF Abandons
<1>3. CASE s[1].by = "executor"
  <2>1. PICK i \in DOMAIN s : GoesOnWith(s, i) /\ todo' = [todo EXCEPT ![j] = SubSeq(s, i, Len(s))]
    BY <1>1, <1>3 DEF Abandons, IInv
  <2>2. UNCHANGED status
    BY <1>1, <1>3 DEF Abandons
  <2>3. box' = box \/ box' = [box EXCEPT ![j] = None]
    BY <1>1, <1>3 DEF Abandons, IInv, TypeOK
  <2>4. image' = image \/ image' = [image EXCEPT ![j] = None]
    BY <1>1, <1>3 DEF Abandons, IInv, TypeOK
  <2> DEFINE t == SubSeq(s, i, Len(s))
  <2>5. i \in 1 .. Len(s) /\ 1 \in 1 .. Len(s)
    BY <1>1, <2>1
  <2> HIDE DEF s
  <2>6. /\ t \in Seq(Calls) /\ t # <<>> /\ Shape(kind[j], t) /\ Head(t).op \notin {"row", "remove", "mark"}
        /\ ~NeedsBox(t) /\ ~NeedsImage(t)
    BY <1>1, <1>3, <2>1, <2>5, PlanGoesOn
  <2>7. kind[j] \notin {"deploy", "remove"}
    BY <1>1, <1>3, <2>5 DEF Shape, KindOfCalls
  <2> HIDE DEF t
  <2> QED
    BY <1>3, <2>1, <2>2, <2>3, <2>4, <2>6, <2>7 DEF s, t
<1> QED
  BY <1>2, <1>3

LEMMA RaisesTypes == ASSUME IInv, NEW j \in Jobs, Raises(j) PROVE Typed'
<1>1. status[j] = "busy" /\ Abandons(j)
  BY DEF Raises
<1>2. /\ status \in [Jobs -> {"idle", "busy", "returned", "failed"}] /\ todo \in [Jobs -> Seq(Calls)]
      /\ \A k \in Jobs : (status[k] = "busy") <=> (todo[k] # <<>>)
      /\ box \in [Jobs -> ContainerIds \cup {None}] /\ image \in [Jobs -> ImageIds \cup {None}]
      /\ report \in [Jobs -> Reports] /\ raised \in [Jobs -> BOOLEAN]
  BY DEF IInv, TypeOK
<1>3. /\ status' \in [Jobs -> {"idle", "busy", "returned", "failed"}] /\ todo' \in [Jobs -> Seq(Calls)]
      /\ \A k \in Jobs : (status'[k] = "busy") <=> (todo'[k] # <<>>)
      /\ box' \in [Jobs -> ContainerIds \cup {None}] /\ image' \in [Jobs -> ImageIds \cup {None}]
  <2>1. CASE todo' = [todo EXCEPT ![j] = <<>>] /\ status' = [status EXCEPT ![j] = "failed"]
             /\ UNCHANGED box /\ UNCHANGED image
    <3>1. <<>> \in Seq(Calls)
      OBVIOUS
    <3> QED
      BY <1>2, <2>1, <3>1
  <2>2. ASSUME UNCHANGED status, NEW t \in Seq(Calls), todo' = [todo EXCEPT ![j] = t], t # <<>>,
               box' = box \/ box' = [box EXCEPT ![j] = None],
               image' = image \/ image' = [image EXCEPT ![j] = None]
        PROVE  <1>3!:
    BY <1>1, <1>2, <2>2
  <2> QED
    BY <1>1, <2>1, <2>2, AbandonedTodo
<1>4. report' \in [Jobs -> Reports]
  <2>1. NoReport \in Reports
    BY DEF NoReport, Reports, Statuses
  <2> QED
    BY <1>1, <1>2, <2>1 DEF Abandons
<1>5. RegistryTypeOK' /\ kind' \in KindSets /\ round' \in [Jobs -> 0 .. MaxRounds]
  BY DEF Raises, registryVars, IInv, TypeOK, RegistryTypeOK
<1>6. raised' \in [Jobs -> BOOLEAN]
  BY <1>2 DEF Raises
<1>7. StoreTypeOK' /\ EngineTypeOK'
  <2>1. StoreTypeOK /\ EngineTypeOK /\ todo[j][1].op = Head(todo[j]).op
    BY <1>1, Faced DEF IInv, TypeOK
  <2>2. CASE UNCHANGED <<storeVars, engineVars>>
    BY <2>1, <2>2 DEF storeVars, engineVars, StoreTypeOK, EngineTypeOK
  <2>3. CASE Facing(j, "file") /\ (\E whole \in BOOLEAN : WriteFile(Path(j), whole)) /\ UNCHANGED engineVars
    <3>1. Path(j) \in Paths
      BY <1>1, <2>1, <2>3, Faced DEF Facing
    <3>2. StoreTypeOK'
      BY <2>1, <2>3, <3>1 DEF WriteFile, StoreTypeOK
    <3> QED
      BY <2>1, <2>3, <3>2 DEF engineVars, EngineTypeOK
  <2>4. CASE UNCHANGED storeVars /\ \E i \in ImageIds : BuildImage(i)
    BY <2>1, <2>4 DEF BuildImage, storeVars, StoreTypeOK, EngineTypeOK
  <2>5. CASE UNCHANGED storeVars /\ \E b \in ContainerIds : CreateBox(b, j)
    <3>1. [state |-> "created", by |-> j] \in Boxes
      BY DEF Boxes
    <3> QED
      BY <2>1, <2>5, <3>1 DEF CreateBox, storeVars, StoreTypeOK, EngineTypeOK
  <2>6. CASE /\ UNCHANGED storeVars
             /\ (Facing(j, "start") /\ StartBox(box[j])) \/ (Facing(j, "remove") /\ RemoveBox(box[j]))
    <3>1. box[j] \in ContainerIds /\ boxes[box[j]] \in Boxes
      BY <1>1, <2>1, <2>6, Faced DEF Facing, UsesBox
    <3>2. \A st \in {"created", "running", "gone"} : [boxes[box[j]] EXCEPT !.state = st] \in Boxes
      BY <3>1 DEF Boxes
    <3> QED
      BY <2>1, <2>6, <3>1, <3>2 DEF StartBox, RemoveBox, storeVars, StoreTypeOK, EngineTypeOK
  <2> QED
    BY <2>2, <2>3, <2>4, <2>5, <2>6 DEF Raises, Effect
<1> QED
  BY <1>3, <1>4, <1>5, <1>6, <1>7 DEF Typed, TypeOK

LEMMA StartTypes == ASSUME IInv, NEW j \in Jobs, Start(j) PROVE Typed'
<1>1. StoreTypeOK' /\ RegistryTypeOK' /\ EngineTypeOK'
  BY DEF Start, storeVars, registryVars, engineVars, IInv, TypeOK, RegistryTypeOK, StoreTypeOK, EngineTypeOK
<1>2. /\ kind \in [Jobs -> {"deploy", "run", "remove", "setup", "none"}]
      /\ status \in [Jobs -> {"idle", "busy", "returned", "failed"}] /\ todo \in [Jobs -> Seq(Calls)]
      /\ round \in [Jobs -> 0 .. MaxRounds]
      /\ \A k \in Jobs : (status[k] = "busy") <=> (todo[k] # <<>>)
      /\ box \in [Jobs -> ContainerIds \cup {None}] /\ image \in [Jobs -> ImageIds \cup {None}]
      /\ report \in [Jobs -> Reports] /\ raised \in [Jobs -> BOOLEAN]
      /\ containers \subseteq ContainerRows /\ MaxRounds \in Nat \ {0}
      /\ status[j] = "idle" => round[j] = 0
  BY DeployAssumption DEF DeployAssumption, IInv, TypeOK, RegistryTypeOK, JobInv, HasWhatItNeeds
<1>3. \E t \in Seq(Calls) : t # <<>> /\ todo' = [todo EXCEPT ![j] = t]
  <2>1. \A s \in BOOLEAN : Deploy(s) \in Seq(Calls) /\ Deploy(s) # <<>>
    BY DeployIsFresh DEF Fresh
  <2>2. RunPlan \in Seq(Calls) /\ RunPlan # <<>>
    BY PlanIsFresh DEF Fresh
  <2>3. /\ Do(RegisterHost \o RegisterEngine, 0, "caller") \in Seq(Calls)
        /\ Do(RegisterHost \o RegisterEngine, 0, "caller") # <<>>
    BY SetupIsFresh DEF Fresh
  <2>4. Do(RemoveContainer, 0, "caller") \in Seq(Calls) /\ Do(RemoveContainer, 0, "caller") # <<>>
    BY RemovalIsFresh DEF Fresh
  <2> QED
    BY <2>1, <2>2, <2>3, <2>4 DEF Start
<1>4. box' \in [Jobs -> ContainerIds \cup {None}]
  <2>1. \A row \in containers : row.id \in ContainerIds
    BY <1>2 DEF ContainerRows
  <2> QED
    BY <1>2, <2>1 DEF Start
<1>5. round' \in [Jobs -> 0 .. MaxRounds]
  BY <1>2 DEF Start
<1>6. /\ status' = [status EXCEPT ![j] = "busy"] /\ kind' \in KindSets
      /\ image' \in [Jobs -> ImageIds \cup {None}] /\ raised' \in [Jobs -> BOOLEAN]
  BY <1>2 DEF Start, IInv, TypeOK
<1>7. report' \in [Jobs -> Reports]
  <2>1. NoReport \in Reports
    BY DEF NoReport, Reports, Statuses
  <2> QED
    BY <1>2, <2>1 DEF Start
<1>8. /\ status' \in [Jobs -> {"idle", "busy", "returned", "failed"}]
      /\ todo' \in [Jobs -> Seq(Calls)] /\ \A k \in Jobs : (status'[k] = "busy") <=> (todo'[k] # <<>>)
  BY <1>2, <1>3, <1>6
<1> QED
  BY <1>1, <1>4, <1>5, <1>6, <1>7, <1>8 DEF Typed, TypeOK

-----------------------------------------------------------------------------
(* What a step of one job leaves as it was.                                 *)

(* What is on record stays on record, and a container stays its maker's.    *)
StoreGrows == tasks \subseteq tasks' /\ stages \subseteq stages' /\ artifacts \subseteq artifacts'

RegistryGrows ==
  /\ \A i \in ImageIds : Has(images, i) => Has(images', i)
  /\ \A c \in containers : \E d \in containers' : d.id = c.id /\ d.image = c.image /\ d.owner = c.owner

EngineGrows ==
  /\ built \subseteq built'
  /\ \A b \in ContainerIds : boxes[b] # None =>
       /\ boxes'[b] # None /\ boxes'[b].by = boxes[b].by
       /\ boxes[b].state = "gone" => boxes'[b].state = "gone"

(* The files are those of the job's task, the rest is its own.              *)
FilesKept(j) ==
  \A p \in Paths : (files'[p] = files[p] /\ writes'[p] = writes[p]) \/ (p = Path(j) /\ Facing(j, "file"))

OthersKept(j) ==
  /\ kind' = kind
  /\ \A k \in Jobs : k # j =>
       /\ todo'[k] = todo[k] /\ status'[k] = status[k] /\ round'[k] = round[k]
       /\ box'[k] = box[k] /\ image'[k] = image[k]
  /\ \A k \in Jobs : raised[k] => raised'[k]

Ages(j) == StoreGrows /\ RegistryGrows /\ EngineGrows /\ FilesKept(j) /\ OthersKept(j)

LEMMA SameStore == ASSUME NEW j, UNCHANGED storeVars PROVE StoreGrows /\ FilesKept(j)
BY DEF storeVars, StoreGrows, FilesKept

LEMMA SameRegistry == ASSUME UNCHANGED registryVars PROVE RegistryGrows
BY DEF registryVars, RegistryGrows, Has

LEMMA SameEngine == ASSUME UNCHANGED engineVars PROVE EngineGrows
BY DEF engineVars, EngineGrows

(* Each call of the engine: a container changes its state, not its maker.   *)
LEMMA EngineCallsGrow ==
  ASSUME IInv, NEW j \in Jobs,
         \/ \E i \in ImageIds : BuildImage(i)
         \/ \E b \in ContainerIds : CreateBox(b, j)
         \/ /\ box[j] \in ContainerIds /\ boxes[box[j]] \in Boxes
            /\ StartBox(box[j]) \/ RemoveBox(box[j])
  PROVE  EngineGrows
<1>1. boxes \in [ContainerIds -> Boxes \cup {None}] /\ None \notin Boxes
  BY DeployAssumption DEF DeployAssumption, IInv, TypeOK, EngineTypeOK
<1>2. CASE \E i \in ImageIds : BuildImage(i)
  BY <1>2 DEF BuildImage, EngineGrows
<1>3. CASE \E b \in ContainerIds : CreateBox(b, j)
  BY <1>1, <1>3 DEF CreateBox, EngineGrows
<1>4. ASSUME box[j] \in ContainerIds, boxes[box[j]] \in Boxes, StartBox(box[j]) \/ RemoveBox(box[j])
      PROVE  EngineGrows
  <2>1. PICK st \in {"running", "gone"} :
          /\ boxes[box[j]].state # "gone" /\ UNCHANGED built
          /\ boxes' = [boxes EXCEPT ![box[j]] = [boxes[box[j]] EXCEPT !.state = st]]
    BY <1>1, <1>4 DEF StartBox, RemoveBox
  <2>2. /\ [boxes[box[j]] EXCEPT !.state = st] \in Boxes
        /\ [boxes[box[j]] EXCEPT !.state = st].by = boxes[box[j]].by
    BY <1>4 DEF Boxes
  <2> QED
    BY <1>1, <1>4, <2>1, <2>2 DEF EngineGrows
<1> QED
  BY <1>2, <1>3, <1>4

(* A call that returns is that of one job.                                  *)
LEMMA ReturnedKeeps ==
  ASSUME IInv, NEW j \in Jobs, Returned(j),
         box' = box \/ \E b : box' = [box EXCEPT ![j] = b],
         image' = image \/ \E i : image' = [image EXCEPT ![j] = i]
  PROVE  OthersKept(j)
<1>1. kind' = kind /\ raised' = raised /\ round' = round
  BY DEF Returned
<1>2. ASSUME NEW k \in Jobs, k # j
      PROVE  todo'[k] = todo[k] /\ status'[k] = status[k]
  BY <1>2 DEF Returned, IInv, TypeOK
<1>3. ASSUME NEW k \in Jobs, k # j
      PROVE  box'[k] = box[k] /\ image'[k] = image[k]
  BY <1>3 DEF IInv, TypeOK
<1> QED
  BY <1>1, <1>2, <1>3 DEF OthersKept

LEMMA StoreCallAges == ASSUME IInv, NEW j \in Jobs, StoreCall(j) PROVE Ages(j)
<1>1. UNCHANGED registryVars /\ UNCHANGED engineVars /\ Returned(j) /\ UNCHANGED <<image, box>>
  BY DEF StoreCall, Keeps
<1>2. StoreGrows
  BY DEF StoreCall, InsertTask, InsertStage, WriteFile, InsertArtifact, StoreGrows
<1>3. FilesKept(j)
  <2>1. CASE Facing(j, "file") /\ WriteFile(Path(j), TRUE)
    BY <2>1 DEF WriteFile, IInv, TypeOK, StoreTypeOK, FilesKept
  <2>2. CASE UNCHANGED <<files, writes>>
    BY <2>2 DEF FilesKept
  <2> QED
    BY <2>1, <2>2 DEF StoreCall, InsertTask, InsertStage, InsertArtifact
<1>4. OthersKept(j)
  BY <1>1, ReturnedKeeps
<1> QED
  BY <1>1, <1>2, <1>3, <1>4, SameRegistry, SameEngine DEF Ages

LEMMA EngineCallsAge ==
  ASSUME IInv, NEW j \in Jobs, Build(j) \/ Create(j) \/ EngineCall(j)
  PROVE  Ages(j)
<1>1. UNCHANGED storeVars /\ UNCHANGED registryVars /\ Returned(j) /\ status[j] = "busy"
  BY DEF Build, Create, EngineCall, Keeps, Facing
<1>2. EngineGrows
  <2>1. CASE EngineCall(j)
    <3>1. box[j] \in ContainerIds /\ boxes[box[j]] \in Boxes
      BY <1>1, <2>1, Faced DEF EngineCall, Facing, UsesBox
    <3> QED
      BY <2>1, <3>1, EngineCallsGrow DEF EngineCall
  <2> QED
    BY <2>1, EngineCallsGrow DEF Build, Create
<1>3. OthersKept(j)
  BY <1>1, ReturnedKeeps DEF Build, Create, EngineCall, Keeps
<1> QED
  BY <1>1, <1>2, <1>3, SameStore, SameRegistry DEF Ages

LEMMA InspectAges == ASSUME IInv, NEW j \in Jobs, Inspect(j) PROVE Ages(j)
<1>1. UNCHANGED storeVars /\ UNCHANGED registryVars /\ UNCHANGED engineVars /\ Returned(j)
      /\ UNCHANGED <<image, box>>
  BY DEF Inspect
<1>2. OthersKept(j)
  BY <1>1, ReturnedKeeps
<1> QED
  BY <1>1, <1>2, SameStore, SameRegistry, SameEngine DEF Ages

LEMMA RegistryCallAges == ASSUME IInv, NEW j \in Jobs, RegistryCall(j) PROVE Ages(j)
<1>1. UNCHANGED storeVars /\ UNCHANGED engineVars /\ Returned(j) /\ UNCHANGED <<image, box>>
  BY DEF RegistryCall, Keeps
<1>2. RegistryGrows
  <2>1. CASE UpdateStatus(box[j], "removed")
    <3>1. images' = images
      BY <2>1 DEF UpdateStatus
    <3>2. ASSUME NEW c \in containers
          PROVE  \E d \in containers' : d.id = c.id /\ d.image = c.image /\ d.owner = c.owner
      <4> DEFINE d == IF c.id = box[j] THEN [c EXCEPT !.status = "removed"] ELSE c
      <4>1. d \in containers'
        BY <2>1 DEF UpdateStatus
      <4>2. c \in ContainerRows
        BY DEF IInv, TypeOK, RegistryTypeOK
      <4>3. d.id = c.id /\ d.image = c.image /\ d.owner = c.owner
        BY <4>2 DEF ContainerRows
      <4> QED
        BY <4>1, <4>3
    <3> QED
      BY <3>1, <3>2 DEF RegistryGrows
  <2>2. CASE InsertImage(image[j], TaskOf[j]) \/ InsertContainer(box[j], image[j], TaskOf[j])
             \/ InsertDeployment(TaskOf[j], image[j], box[j])
             \/ (\E h \in HostIds, n \in HostNames : InsertHost(h, n)) \/ InsertEngine
    <3>1. images \subseteq images' /\ containers \subseteq containers'
      BY <2>2 DEF InsertImage, InsertContainer, InsertDeployment, InsertHost, InsertEngine
    <3> QED
      BY <3>1 DEF Has, RegistryGrows
  <2> QED
    BY <2>1, <2>2 DEF RegistryCall
<1>3. OthersKept(j)
  BY <1>1, ReturnedKeeps
<1> QED
  BY <1>1, <1>2, <1>3, SameStore, SameEngine DEF Ages

LEMMA StartAges == ASSUME IInv, NEW j \in Jobs, Start(j) PROVE Ages(j)
<1>1. UNCHANGED storeVars /\ UNCHANGED registryVars /\ UNCHANGED engineVars /\ UNCHANGED <<kind, raised>>
  BY DEF Start
<1>2. \E t : todo' = [todo EXCEPT ![j] = t]
  BY DEF Start
<1>3. box' = box \/ \E b : box' = [box EXCEPT ![j] = b]
  BY DEF Start
<1>4. /\ status' = [status EXCEPT ![j] = "busy"] /\ round' = [round EXCEPT ![j] = @ + 1]
      /\ image' = [image EXCEPT ![j] = None]
  BY DEF Start
<1>5. OthersKept(j)
  BY <1>1, <1>2, <1>3, <1>4 DEF OthersKept, IInv, TypeOK
<1> QED
  BY <1>1, <1>5, SameStore, SameRegistry, SameEngine DEF Ages

LEMMA RaisesAges == ASSUME IInv, NEW j \in Jobs, Raises(j) PROVE Ages(j)
<1>1. /\ status[j] = "busy" /\ Abandons(j) /\ UNCHANGED registryVars /\ kind' = kind /\ round' = round
      /\ raised' = [raised EXCEPT ![j] = TRUE] /\ Effect(j) /\ Head(todo[j]) = todo[j][1]
  BY Faced DEF Raises
<1>2. OthersKept(j)
  <2>1. ASSUME NEW k \in Jobs, k # j
        PROVE  /\ todo'[k] = todo[k] /\ status'[k] = status[k]
               /\ box'[k] = box[k] /\ image'[k] = image[k]
    <3>1. CASE /\ todo' = [todo EXCEPT ![j] = <<>>] /\ status' = [status EXCEPT ![j] = "failed"]
               /\ UNCHANGED box /\ UNCHANGED image
      BY <2>1, <3>1 DEF IInv, TypeOK
    <3>2. CASE /\ UNCHANGED status /\ \E t \in Seq(Calls) : todo' = [todo EXCEPT ![j] = t]
               /\ box' = box \/ box' = [box EXCEPT ![j] = None]
               /\ image' = image \/ image' = [image EXCEPT ![j] = None]
      BY <2>1, <3>2 DEF IInv, TypeOK
    <3> QED
      BY <1>1, <3>1, <3>2, AbandonedTodo
  <2>2. \A k \in Jobs : raised[k] => raised'[k]
    BY <1>1 DEF IInv, TypeOK
  <2> QED
    BY <1>1, <2>1, <2>2 DEF OthersKept
<1>3. RegistryGrows
  BY <1>1, SameRegistry
<1>4. StoreGrows /\ FilesKept(j) /\ EngineGrows
  <2>1. CASE UNCHANGED <<storeVars, engineVars>>
    BY <2>1, SameStore, SameEngine
  <2>2. CASE Facing(j, "file") /\ (\E whole \in BOOLEAN : WriteFile(Path(j), whole)) /\ UNCHANGED engineVars
    <3>1. StoreGrows /\ FilesKept(j)
      BY <2>2 DEF WriteFile, IInv, TypeOK, StoreTypeOK, StoreGrows, FilesKept
    <3> QED
      BY <2>2, <3>1, SameEngine
  <2>3. CASE /\ UNCHANGED storeVars
             /\ (\E i \in ImageIds : BuildImage(i)) \/ (\E b \in ContainerIds : CreateBox(b, j))
    BY <2>3, SameStore, EngineCallsGrow
  <2>4. CASE /\ UNCHANGED storeVars
             /\ (Facing(j, "start") /\ StartBox(box[j])) \/ (Facing(j, "remove") /\ RemoveBox(box[j]))
    <3>1. box[j] \in ContainerIds /\ boxes[box[j]] \in Boxes
      BY <1>1, <2>4, Faced DEF Facing, UsesBox
    <3> QED
      BY <2>4, <3>1, SameStore, EngineCallsGrow
  <2> QED
    BY <1>1, <2>1, <2>2, <2>3, <2>4 DEF Effect
<1> QED
  BY <1>2, <1>3, <1>4 DEF Ages
-----------------------------------------------------------------------------
(* The other jobs.                                                          *)

LEMMA PathsDiffer ==
  ASSUME NEW j \in Jobs, NEW k \in Jobs, k # j, NEW n
  PROVE  <<TaskOf[k], n>> # Path(j)
<1>1. TaskOf[k] # TaskOf[j]
  BY DeployAssumption DEF DeployAssumption
<1> QED
  BY <1>1 DEF Path

(* What one job does leaves the others what they have and need.             *)
LEMMA OthersInv ==
  ASSUME IInv, NEW j \in Jobs, Ages(j), NEW k \in Jobs, k # j
  PROVE  JobInv(k)'
<1>1. /\ kind' = kind /\ todo'[k] = todo[k] /\ status'[k] = status[k] /\ round'[k] = round[k]
      /\ box'[k] = box[k] /\ image'[k] = image[k]
  BY DEF Ages, OthersKept
<1>2. JobInv(k) /\ (status[k] = "busy" <=> todo[k] # <<>>)
  BY DEF IInv, TypeOK
<1>3. Shape(kind[k], todo[k])'
  BY <1>1, <1>2 DEF JobInv
<1>4. \A b \in ContainerIds : boxes[b] # None =>
        boxes'[b] # None /\ (boxes[b].state = "gone" => boxes'[b].state = "gone")
  BY DEF Ages, EngineGrows
<1>5. HasWhatItNeeds(k)'
  <2>1. box[k] # None => boxes[box[k]] # None /\ box[k] \in ContainerIds
    BY <1>2 DEF JobInv, HasWhatItNeeds, IInv, TypeOK
  <2>2. box'[k] # None => boxes'[box'[k]] # None
    BY <1>1, <1>4, <2>1
  <2> QED
    BY <1>1, <1>2, <2>2 DEF JobInv, HasWhatItNeeds
<1>6. LastCallIsDone(k)'
  <2>1. ASSUME Facing(k, "row")' PROVE files'[Path(k)'] = writes'[Path(k)']
    <3>1. status[k] = "busy" /\ Head(todo[k]).op = "row" /\ Path(k)' = Path(k)
      BY <1>1, <2>1 DEF Facing, Path
    <3>2. Path(k) \in Paths /\ files[Path(k)] = writes[Path(k)]
      BY <1>2, <3>1, Faced DEF JobInv, LastCallIsDone, Facing
    <3>3. Path(k) # Path(j)
      BY PathsDiffer DEF Path
    <3> QED
      BY <3>1, <3>2, <3>3 DEF Ages, FilesKept
  <2>2. ASSUME Facing(k, "mark")' PROVE boxes'[box'[k]].state = "gone"
    <3>1. status[k] = "busy" /\ Head(todo[k]).op = "mark" /\ Facing(k, "mark")
      BY <1>1, <2>2 DEF Facing
    <3>2. box[k] \in ContainerIds /\ boxes[box[k]] \in Boxes /\ boxes[box[k]].state = "gone"
      BY <1>2, <3>1, Faced DEF JobInv, LastCallIsDone
    <3>3. None \notin Boxes
      BY DeployAssumption DEF DeployAssumption
    <3> QED
      BY <1>1, <1>4, <3>2, <3>3
  <2> QED
    BY <2>1, <2>2 DEF LastCallIsDone
<1>7. Milestones(k)'
  <2> SUFFICES ASSUME kind[k] = "deploy", todo[k] # <<>> PROVE Milestones(k)'
    BY <1>1 DEF Milestones
  <2>1. /\ Pending(k, "task") \/ TaskOf[k] \in tasks
        /\ Pending(k, "stage") \/ TaskOf[k] \in stages
        /\ \A n \in {"app.jar", "pom.xml", "Dockerfile"} :
             RowPending(k, n) \/ \E a \in artifacts : a.path = <<TaskOf[k], n>> /\ files[a.path] = a.write
        /\ Pending(k, "build") \/ image[k] \in built
        /\ Pending(k, "image") \/ Has(images, image[k])
        /\ \/ Pending(k, "container")
           \/ \E c \in containers : c.id = box[k] /\ c.image = image[k] /\ c.owner = TaskOf[k]
    BY <1>2 DEF JobInv, Milestones
  <2>2. /\ \A op : Pending(k, op)' <=> Pending(k, op)
        /\ \A n : RowPending(k, n)' <=> RowPending(k, n)
    BY <1>1 DEF Pending, RowPending
  <2>3. tasks \subseteq tasks' /\ stages \subseteq stages' /\ built \subseteq built'
    BY DEF Ages, StoreGrows, EngineGrows
  <2>4. ASSUME NEW n, NEW a \in artifacts, a.path = <<TaskOf[k], n>>, files[a.path] = a.write
        PROVE  \E c \in artifacts' : c.path = <<TaskOf[k], n>> /\ files'[c.path] = c.write
    <3>1. a.path \in Paths /\ a \in artifacts'
      BY DEF Ages, StoreGrows, IInv, TypeOK, StoreTypeOK, ArtifactRows
    <3>3. a.path # Path(j)
      BY <2>4, PathsDiffer
    <3>2. files'[a.path] = files[a.path]
      BY <3>1, <3>3 DEF Ages, FilesKept
    <3> QED
      BY <2>4, <3>1, <3>2
  <2>5. Has(images, image[k]) => Has(images', image[k])
    <3>1. Has(images, image[k]) => image[k] \in ImageIds
      BY DEF Has, IInv, TypeOK, RegistryTypeOK, ImageRows
    <3> QED
      BY <3>1 DEF Ages, RegistryGrows
  <2>6. ASSUME NEW c \in containers, c.id = box[k], c.image = image[k], c.owner = TaskOf[k]
        PROVE  \E d \in containers' : d.id = box[k] /\ d.image = image[k] /\ d.owner = TaskOf[k]
    BY <2>6 DEF Ages, RegistryGrows
  <2>7. \A n \in {"app.jar", "pom.xml", "Dockerfile"} :
          RowPending(k, n)' \/ \E c \in artifacts' : c.path = <<TaskOf[k], n>> /\ files'[c.path] = c.write
    BY <2>1, <2>2, <2>4
  <2>8. \/ Pending(k, "container")'
        \/ \E c \in containers' : c.id = box[k] /\ c.image = image[k] /\ c.owner = TaskOf[k]
    BY <2>1, <2>2, <2>6
  <2>9. /\ Pending(k, "task")' \/ TaskOf[k] \in tasks'
        /\ Pending(k, "stage")' \/ TaskOf[k] \in stages'
        /\ Pending(k, "build")' \/ image[k] \in built'
        /\ Pending(k, "image")' \/ Has(images', image[k])
    BY <2>1, <2>2, <2>3, <2>5
  <2> QED
    BY <1>1, <2>7, <2>8, <2>9 DEF Milestones
<1> QED
  BY <1>3, <1>5, <1>6, <1>7 DEF JobInv

-----------------------------------------------------------------------------
(* The job whose call returns: what each call has done.                     *)

Done(j) ==
  /\ Facing(j, "task") => TaskOf[j] \in tasks'
  /\ Facing(j, "stage") => TaskOf[j] \in stages'
  /\ Facing(j, "file") => files'[Path(j)] = writes'[Path(j)]
  /\ Facing(j, "row") => \E a \in artifacts' : a.path = Path(j) /\ files'[a.path] = a.write
  /\ Facing(j, "build") => image'[j] \in built'
  /\ image'[j] = image[j] \/ (Facing(j, "build") /\ image'[j] # None)
  /\ Facing(j, "image") => Has(images', image[j])
  /\ Facing(j, "create") => image[j] # None /\ box'[j] # None
  /\ box'[j] = box[j] \/ (Facing(j, "create") /\ boxes'[box'[j]] # None)
  /\ Facing(j, "container") =>
       \E c \in containers' : c.id = box[j] /\ c.image = image[j] /\ c.owner = TaskOf[j]
  /\ Facing(j, "remove") => boxes'[box[j]].state = "gone"

LEMMA StoreCallDone == ASSUME IInv, NEW j \in Jobs, StoreCall(j) PROVE Done(j)
<1>1. /\ Facing(j, "task") \/ Facing(j, "stage") \/ Facing(j, "file") \/ Facing(j, "row")
      /\ image'[j] = image[j] /\ box'[j] = box[j]
  BY DEF StoreCall, Keeps
<1>2. Facing(j, "task") => TaskOf[j] \in tasks'
  BY DEF StoreCall, Facing, InsertTask
<1>3. Facing(j, "stage") => TaskOf[j] \in stages'
  BY DEF StoreCall, Facing, InsertStage
<1>4. ASSUME Facing(j, "file") PROVE files'[Path(j)] = writes'[Path(j)]
  <2>1. Path(j) \in Paths
    BY <1>4, Faced DEF Facing
  <2>2. WriteFile(Path(j), TRUE)
    BY <1>4 DEF StoreCall, Facing
  <2> QED
    BY <2>1, <2>2 DEF WriteFile, IInv, TypeOK, StoreTypeOK
<1>5. ASSUME Facing(j, "row") PROVE \E a \in artifacts' : a.path = Path(j) /\ files'[a.path] = a.write
  <2>1. InsertArtifact(Path(j), kind[j] = "deploy") /\ files[Path(j)] = writes[Path(j)]
    BY <1>5 DEF StoreCall, Facing, IInv, JobInv, LastCallIsDone
  <2> DEFINE a == [task |-> Path(j)[1], staged |-> kind[j] = "deploy", path |-> Path(j),
                   write |-> writes[Path(j)]]
  <2>2. a \in artifacts' /\ files' = files
    BY <2>1 DEF InsertArtifact
  <2> QED
    BY <2>1, <2>2
<1> QED
  BY <1>1, <1>2, <1>3, <1>4, <1>5 DEF Done, Facing

LEMMA BuildDone == ASSUME IInv, NEW j \in Jobs, Build(j) PROVE Done(j)
<1>1. Facing(j, "build") /\ box'[j] = box[j]
  BY DEF Build
<1>2. PICK i \in ImageIds : BuildImage(i) /\ image' = [image EXCEPT ![j] = i]
  BY DEF Build
<1>3. image'[j] = i /\ i # None /\ i \in built'
  BY <1>2, DeployAssumption DEF DeployAssumption, BuildImage, IInv, TypeOK
<1> QED
  BY <1>1, <1>3 DEF Done, Facing

LEMMA CreateDone == ASSUME IInv, NEW j \in Jobs, Create(j) PROVE Done(j)
<1>1. Facing(j, "create") /\ image'[j] = image[j] /\ image[j] # None
  BY DEF Create
<1>2. PICK b \in ContainerIds : CreateBox(b, j) /\ box' = [box EXCEPT ![j] = b]
  BY DEF Create
<1>3. box'[j] = b /\ b # None
  BY <1>2, DeployAssumption DEF DeployAssumption, IInv, TypeOK
<1>4. boxes'[b] # None
  <2>1. [state |-> "created", by |-> j] \in Boxes
    BY DEF Boxes
  <2>2. None \notin Boxes /\ boxes'[b] = [state |-> "created", by |-> j]
    BY <1>2, DeployAssumption DEF DeployAssumption, CreateBox, IInv, TypeOK, EngineTypeOK
  <2> QED
    BY <2>1, <2>2
<1> QED
  BY <1>1, <1>3, <1>4 DEF Done, Facing

LEMMA EngineCallDone == ASSUME IInv, NEW j \in Jobs, EngineCall(j) PROVE Done(j)
<1>1. /\ Facing(j, "start") \/ Facing(j, "remove")
      /\ image'[j] = image[j] /\ box'[j] = box[j]
  BY DEF EngineCall, Keeps
<1>2. ASSUME Facing(j, "remove") PROVE boxes'[box[j]].state = "gone"
  <2>1. RemoveBox(box[j]) /\ box[j] \in ContainerIds /\ boxes[box[j]] \in Boxes
    BY <1>2, Faced DEF EngineCall, Facing
  <2>2. boxes \in [ContainerIds -> Boxes \cup {None}]
    BY DEF IInv, TypeOK, EngineTypeOK
  <2>3. boxes'[box[j]] = [boxes[box[j]] EXCEPT !.state = "gone"]
    BY <2>1, <2>2 DEF RemoveBox
  <2> QED
    BY <2>1, <2>3 DEF Boxes
<1> QED
  BY <1>1, <1>2 DEF Done, Facing

LEMMA InspectDone == ASSUME IInv, NEW j \in Jobs, Inspect(j) PROVE Done(j)
<1>1. /\ Facing(j, "package") \/ Facing(j, "inspect")
      /\ image'[j] = image[j] /\ box'[j] = box[j]
  BY DEF Inspect
<1> QED
  BY <1>1 DEF Done, Facing

LEMMA RegistryCallDone == ASSUME IInv, NEW j \in Jobs, RegistryCall(j) PROVE Done(j)
<1>1. /\ \/ Facing(j, "image") \/ Facing(j, "container") \/ Facing(j, "deployment")
         \/ Facing(j, "mark") \/ Facing(j, "host") \/ Facing(j, "engine")
      /\ image'[j] = image[j] /\ box'[j] = box[j]
  BY DEF RegistryCall, Keeps
<1>2. ASSUME Facing(j, "image") PROVE Has(images', image[j])
  <2>1. InsertImage(image[j], TaskOf[j])
    BY <1>2 DEF RegistryCall, Facing
  <2>2. [id |-> image[j], source |-> TaskOf[j]] \in images'
    BY <2>1 DEF InsertImage
  <2> QED
    BY <2>2 DEF Has
<1>3. ASSUME Facing(j, "container")
      PROVE  \E c \in containers' : c.id = box[j] /\ c.image = image[j] /\ c.owner = TaskOf[j]
  <2>1. InsertContainer(box[j], image[j], TaskOf[j])
    BY <1>3 DEF RegistryCall, Facing
  <2> DEFINE c == [id |-> box[j], image |-> image[j], owner |-> TaskOf[j], status |-> "running"]
  <2>2. c \in containers'
    BY <2>1 DEF InsertContainer
  <2> QED
    BY <2>2
<1> QED
  BY <1>1, <1>2, <1>3 DEF Done, Facing
-----------------------------------------------------------------------------
(* The job itself.                                                          *)

(* A call that is still to be made is the next one, or one of the rest.     *)
LEMMA PendingGoes ==
  ASSUME IInv, NEW j \in Jobs, status[j] = "busy", Returned(j)
  PROVE  /\ todo'[j] = Tail(todo[j]) /\ todo[j] \in Seq(Calls) /\ todo[j] # <<>>
         /\ \A op : Pending(j, op) => Facing(j, op) \/ Pending(j, op)'
         /\ \A op : (\E m \in 2 .. Len(todo[j]) : todo[j][m].op = op) => Pending(j, op)'
         /\ \A n : RowPending(j, n) =>
              (Facing(j, "row") /\ Head(todo[j]).name = n) \/ RowPending(j, n)'
         /\ \A n : (\E m \in 2 .. Len(todo[j]) : todo[j][m].op = "row" /\ todo[j][m].name = n)
              => RowPending(j, n)'
<1> DEFINE s == todo[j]
           t == Tail(s)
<1>1. s \in Seq(Calls) /\ s # <<>> /\ Shape(kind[j], s)
  BY Faced
<1>2. /\ Len(t) = Len(s) - 1 /\ Len(s) \in Nat /\ Head(s) = s[1]
      /\ \A i \in 1 .. Len(t) : t[i] = s[i + 1]
  BY <1>1, TailOfCalls
<1>3. todo'[j] = t
  BY DEF Returned, IInv, TypeOK
<1> HIDE DEF t
<1> HIDE DEF s
<1>4. \A m \in 2 .. Len(s) : m - 1 \in 1 .. Len(t) /\ t[m - 1] = s[m]
  BY <1>2
<1>5. /\ \A op : Facing(j, op) <=> s[1].op = op
      /\ \A op : Pending(j, op) <=> \E i \in 1 .. Len(s) : s[i].op = op
      /\ \A n : RowPending(j, n) <=> \E i \in 1 .. Len(s) : s[i].op = "row" /\ s[i].name = n
  BY <1>2 DEF Facing, Pending, RowPending, s
<1>6. /\ \A op : Pending(j, op)' <=> \E i \in 1 .. Len(t) : t[i].op = op
      /\ \A n : RowPending(j, n)' <=> \E i \in 1 .. Len(t) : t[i].op = "row" /\ t[i].name = n
  BY <1>3 DEF Pending, RowPending
<1>7. \A i \in 1 .. Len(s) : i = 1 \/ i \in 2 .. Len(s)
  BY <1>2
<1>8. \A op : (\E m \in 2 .. Len(s) : s[m].op = op) => Pending(j, op)'
  BY <1>4, <1>6
<1>9. \A n : (\E m \in 2 .. Len(s) : s[m].op = "row" /\ s[m].name = n) => RowPending(j, n)'
  BY <1>4, <1>6
<1>10. \A op : Pending(j, op) => Facing(j, op) \/ Pending(j, op)'
  BY <1>5, <1>7, <1>8
<1>11. \A n : RowPending(j, n) => (Facing(j, "row") /\ Head(s).name = n) \/ RowPending(j, n)'
  BY <1>2, <1>5, <1>7, <1>9
<1> QED
  BY <1>1, <1>3, <1>8, <1>9, <1>10, <1>11 DEF s, t

(* The rest of the calls finds what it needs when the first one returns.    *)
LEMMA ReturnedInv ==
  ASSUME IInv, NEW j \in Jobs, status[j] = "busy", Returned(j), Done(j), Ages(j), Typed'
  PROVE  JobInv(j)'
<1> DEFINE s == todo[j]
           t == Tail(s)
<1>1. s \in Seq(Calls) /\ s # <<>> /\ Shape(kind[j], s) /\ Len(s) >= 1 /\ Len(s) \in Nat
      /\ Head(s) = s[1] /\ s[1] \in Calls
  BY Faced
<1>2. /\ todo'[j] = t /\ kind'[j] = kind[j] /\ status'[j] \in {"returned", "busy"}
      /\ (status'[j] = "busy" <=> t # <<>>)
  <2>1. todo'[j] = t /\ kind'[j] = kind[j] /\ status'[j] \in {"returned", "busy"}
    BY DEF Returned, IInv, TypeOK
  <2> QED
    BY <2>1 DEF Typed, TypeOK
<1>3. /\ t \in Seq(Calls) /\ Len(t) = Len(s) - 1 /\ \A i \in 1 .. Len(t) : t[i] = s[i + 1]
      /\ Shape(kind[j], t)
      /\ NeedsBox(t) => NeedsBox(s) \/ s[1].op = "create"
      /\ NeedsImage(t) => NeedsImage(s) \/ s[1].op = "build"
  BY <1>1, TailOfCalls
<1>4. \A op : Facing(j, op) <=> s[1].op = op
  BY <1>1 DEF Facing
<1>5. JobInv(j)
  BY DEF IInv
<1> HIDE DEF t
<1>6. Shape(kind[j], todo[j])'
  BY <1>2, <1>3
<1>7. HasWhatItNeeds(j)'
  <2>1. /\ NeedsBox(s) => box[j] # None /\ image[j] # None
        /\ NeedsImage(s) => image[j] # None
        /\ kind[j] = "remove" => box[j] # None
        /\ box[j] # None => boxes[box[j]] # None /\ box[j] \in ContainerIds
    BY <1>1, <1>5 DEF JobInv, HasWhatItNeeds, IInv, TypeOK
  <2>2. image[j] # None => image'[j] # None
    BY DEF Done
  <2>3. box[j] # None => box'[j] # None
    BY DEF Done
  <2>4. box'[j] # None => boxes'[box'[j]] # None
    BY <2>1 DEF Done, Ages, EngineGrows
  <2>5. NeedsBox(t) => box'[j] # None /\ image'[j] # None
    BY <1>3, <1>4, <2>1, <2>2, <2>3 DEF Done
  <2>6. NeedsImage(t) => image'[j] # None
    <3>1. Facing(j, "build") => image'[j] # None
      <4>1. image'[j] \in built' => image'[j] # None
        BY DeployAssumption DEF DeployAssumption, Typed, TypeOK, EngineTypeOK
      <4> QED
        BY <4>1 DEF Done
    <3> QED
      BY <1>3, <1>4, <2>1, <2>2, <3>1
  <2> QED
    BY <1>2, <2>1, <2>3, <2>4, <2>5, <2>6 DEF HasWhatItNeeds
<1>8. ASSUME NEW n, s[1].op = "file", s[1].name = n
      PROVE  2 \in 2 .. Len(s) /\ s[2].op = "row" /\ s[2].name = n /\ t # <<>> /\ Head(t) = s[2]
  <2>1. 1 + 1 <= Len(s) /\ s[1 + 1].op = "row" /\ s[1 + 1].name = s[1].name
    BY <1>1, <1>8 DEF Shape, RowsFollowFiles
  <2>2. Len(t) >= 1 /\ t[1] = s[2]
    BY <1>1, <1>3, <2>1
  <2>3. t # <<>> /\ Head(t) = t[1]
    BY <1>3, <2>2
  <2> QED
    BY <1>1, <1>8, <2>1, <2>2, <2>3
<1>9. ASSUME status'[j] = "busy" PROVE 2 \in 2 .. Len(s) /\ Head(t) = s[2]
  <2>1. t # <<>> /\ Len(t) \in Nat
    BY <1>2, <1>3, <1>9
  <2>2. Len(t) >= 1 /\ Head(t) = t[1]
    BY <1>3, <2>1
  <2> QED
    BY <1>1, <1>3, <2>2
<1>10. LastCallIsDone(j)'
  <2>1. ASSUME Facing(j, "row")' PROVE files'[Path(j)'] = writes'[Path(j)']
    <3>1. 2 \in 2 .. Len(s) /\ s[2].op = "row" /\ Path(j)' = <<TaskOf[j], s[2].name>>
      BY <1>2, <1>9, <2>1 DEF Facing, Path
    <3>2. s[2 - 1].op = "file" /\ s[2 - 1].name = s[2].name
      BY <1>1, <3>1 DEF Shape, RowsFollowFiles
    <3>3. Facing(j, "file") /\ Path(j) = <<TaskOf[j], s[2].name>>
      BY <1>1, <1>4, <3>2 DEF Path
    <3> QED
      BY <3>1, <3>3 DEF Done
  <2>2. ASSUME Facing(j, "mark")' PROVE boxes'[box'[j]].state = "gone"
    <3>1. 2 \in 2 .. Len(s) /\ s[2].op = "mark"
      BY <1>2, <1>9, <2>2 DEF Facing
    <3>2. s[2 - 1].op = "remove"
      BY <1>1, <3>1 DEF Shape, BoxCallsInOrder
    <3>3. Facing(j, "remove") /\ ~Facing(j, "create")
      BY <1>4, <3>2
    <3> QED
      BY <3>3 DEF Done
  <2> QED
    BY <2>1, <2>2 DEF LastCallIsDone
<1>11. Milestones(j)'
  <2> SUFFICES ASSUME kind[j] = "deploy" PROVE Milestones(j)'
    BY <1>2 DEF Milestones
  <2>1. /\ Pending(j, "task") \/ TaskOf[j] \in tasks
        /\ Pending(j, "stage") \/ TaskOf[j] \in stages
        /\ \A n \in {"app.jar", "pom.xml", "Dockerfile"} :
             RowPending(j, n) \/ \E a \in artifacts : a.path = <<TaskOf[j], n>> /\ files[a.path] = a.write
        /\ Pending(j, "build") \/ image[j] \in built
        /\ Pending(j, "image") \/ Has(images, image[j])
        /\ \/ Pending(j, "container")
           \/ \E c \in containers : c.id = box[j] /\ c.image = image[j] /\ c.owner = TaskOf[j]
    BY <1>1, <1>5 DEF JobInv, Milestones
  <2>2. \A op : Pending(j, op) => Facing(j, op) \/ Pending(j, op)'
    BY PendingGoes
  <2>3. \A op : (\E m \in 2 .. Len(s) : s[m].op = op) => Pending(j, op)'
    BY PendingGoes
  <2>4. tasks \subseteq tasks' /\ stages \subseteq stages' /\ built \subseteq built'
    BY DEF Ages, StoreGrows, EngineGrows
  <2>5. Pending(j, "task")' \/ TaskOf[j] \in tasks'
    BY <2>1, <2>2, <2>4 DEF Done
  <2>6. Pending(j, "stage")' \/ TaskOf[j] \in stages'
    BY <2>1, <2>2, <2>4 DEF Done
  <2>7. Pending(j, "build")' \/ image'[j] \in built'
    BY <2>1, <2>2, <2>4 DEF Done
  <2>8. Facing(j, "build") => Pending(j, "image")' /\ Pending(j, "container")'
    <3>1. s[1].op = "build" => \A op \in {"image", "container"} : \E m \in (1 + 1) .. Len(s) : s[m].op = op
      <4>1. 1 \in 1 .. Len(s)
        BY <1>1
      <4> QED
        BY <1>1, <4>1 DEF Shape, KindOfCalls
    <3> QED
      BY <1>4, <2>3, <3>1
  <2>9. Facing(j, "create") => Pending(j, "container")'
    <3>1. s[1].op = "create" => \E m \in (1 + 1) .. Len(s) : s[m].op = "container"
      <4>1. 1 \in 1 .. Len(s)
        BY <1>1
      <4> QED
        BY <1>1, <4>1 DEF Shape, BoxCallsInOrder
    <3> QED
      BY <1>4, <2>3, <3>1
  <2>10. Pending(j, "image")' \/ Has(images', image'[j])
    <3>1. Has(images, image[j]) => Has(images', image[j])
      <4>1. Has(images, image[j]) => image[j] \in ImageIds
        BY DEF Has, IInv, TypeOK, RegistryTypeOK, ImageRows
      <4> QED
        BY <4>1 DEF Ages, RegistryGrows
    <3> QED
      BY <2>1, <2>2, <2>8, <3>1 DEF Done
  <2>11. \/ Pending(j, "container")'
         \/ \E c \in containers' : c.id = box'[j] /\ c.image = image'[j] /\ c.owner = TaskOf[j]
    <3>1. CASE Facing(j, "build") \/ Facing(j, "create")
      BY <2>8, <2>9, <3>1
    <3>2. CASE ~Facing(j, "build") /\ ~Facing(j, "create")
      <4>1. box'[j] = box[j] /\ image'[j] = image[j]
        BY <3>2 DEF Done
      <4>2. CASE Facing(j, "container")
        BY <4>1, <4>2 DEF Done
      <4>3. CASE Pending(j, "container") /\ ~Facing(j, "container")
        BY <2>2, <4>3
      <4>4. ASSUME NEW c \in containers, c.id = box[j], c.image = image[j], c.owner = TaskOf[j]
            PROVE  \E d \in containers' : d.id = box'[j] /\ d.image = image'[j] /\ d.owner = TaskOf[j]
        BY <4>1, <4>4 DEF Ages, RegistryGrows
      <4> QED
        BY <2>1, <4>2, <4>3, <4>4
    <3> QED
      BY <3>1, <3>2
  <2>12. ASSUME NEW n \in {"app.jar", "pom.xml", "Dockerfile"}
         PROVE  RowPending(j, n)' \/ \E c \in artifacts' : c.path = <<TaskOf[j], n>> /\ files'[c.path] = c.write
    <3>1. CASE RowPending(j, n)
      <4>1. (Facing(j, "row") /\ Head(s).name = n) \/ RowPending(j, n)'
        BY <3>1, PendingGoes
      <4>2. Head(s).name = n => Path(j) = <<TaskOf[j], n>>
        BY DEF Path
      <4> QED
        BY <4>1, <4>2 DEF Done
    <3>2. ASSUME NEW a \in artifacts, a.path = <<TaskOf[j], n>>, files[a.path] = a.write
          PROVE  RowPending(j, n)' \/ \E c \in artifacts' : c.path = <<TaskOf[j], n>> /\ files'[c.path] = c.write
      <4>1. CASE Facing(j, "file") /\ Head(s).name = n
        <5>1. 2 \in 2 .. Len(s) /\ s[2].op = "row" /\ s[2].name = n
          BY <1>1, <1>4, <1>8, <4>1
        <5> QED
          BY <5>1, PendingGoes
      <4>2. CASE ~(Facing(j, "file") /\ Head(s).name = n)
        <5>1. a.path \in Paths /\ a \in artifacts'
          BY DEF Ages, StoreGrows, IInv, TypeOK, StoreTypeOK, ArtifactRows
        <5>2. ~(a.path = Path(j) /\ Facing(j, "file"))
          BY <3>2, <4>2 DEF Path
        <5>3. files'[a.path] = files[a.path]
          BY <5>1, <5>2 DEF Ages, FilesKept
        <5> QED
          BY <3>2, <5>1, <5>3
      <4> QED
        BY <4>1, <4>2
    <3> QED
      BY <2>1, <3>1, <3>2
  <2> QED
    BY <2>5, <2>6, <2>7, <2>10, <2>11, <2>12 DEF Milestones
<1> QED
  BY <1>6, <1>7, <1>10, <1>11 DEF JobInv

(* And when it raises: the job is over, or goes on without what it has lost.*)
LEMMA RaisesInv == ASSUME IInv, NEW j \in Jobs, Raises(j), Ages(j) PROVE JobInv(j)'
<1>1. /\ status[j] = "busy" /\ Abandons(j) /\ kind' = kind
      /\ todo[j] \in Seq(Calls) /\ Shape(kind[j], todo[j])
  BY Faced DEF Raises
<1>2. box[j] # None => boxes'[box[j]] # None
  <2>1. JobInv(j) /\ box[j] \in ContainerIds \cup {None}
    BY DEF IInv, TypeOK
  <2> QED
    BY <2>1 DEF JobInv, HasWhatItNeeds, Ages, EngineGrows
<1>3. CASE /\ todo' = [todo EXCEPT ![j] = <<>>] /\ status' = [status EXCEPT ![j] = "failed"]
           /\ UNCHANGED box /\ UNCHANGED image
  <2>1. todo'[j] = <<>> /\ status'[j] = "failed" /\ box'[j] = box[j]
    BY <1>3 DEF IInv, TypeOK
  <2>2. Shape(kind[j], <<>>)
    <3>1. <<>> \in Seq(Calls) /\ Len(<<>>) = Len(todo[j]) - Len(todo[j]) /\ Len(todo[j]) \in Nat
          /\ \A i \in 1 .. Len(<<>>) : FALSE
      BY <1>1
    <3> QED
      BY <1>1, <3>1, ShapeOfRest
  <2>3. ~NeedsBox(<<>>) /\ ~NeedsImage(<<>>)
    BY DEF NeedsBox, NeedsImage
  <2>4. HasWhatItNeeds(j)'
    BY <1>2, <2>1, <2>3 DEF HasWhatItNeeds
  <2>5. LastCallIsDone(j)' /\ Milestones(j)'
    BY <2>1 DEF LastCallIsDone, Facing, Milestones
  <2> QED
    BY <1>1, <2>1, <2>2, <2>4, <2>5 DEF JobInv
<1>4. CASE /\ kind[j] \notin {"deploy", "remove"} /\ UNCHANGED status
           /\ \E t \in Seq(Calls) :
                /\ todo' = [todo EXCEPT ![j] = t]
                /\ t # <<>> /\ Head(t).op \notin {"row", "remove", "mark"} /\ Shape(kind[j], t)
                /\ ~NeedsBox(t) /\ ~NeedsImage(t)
           /\ box' = box \/ box' = [box EXCEPT ![j] = None]
           /\ image' = image \/ image' = [image EXCEPT ![j] = None]
  <2>1. PICK t \in Seq(Calls) :
          /\ todo' = [todo EXCEPT ![j] = t]
          /\ t # <<>> /\ Head(t).op \notin {"row", "remove", "mark"} /\ Shape(kind[j], t)
          /\ ~NeedsBox(t) /\ ~NeedsImage(t)
    BY <1>4
  <2>2. todo'[j] = t /\ status'[j] = "busy" /\ box'[j] \in {box[j], None}
    BY <1>1, <1>4, <2>1 DEF IInv, TypeOK
  <2>3. HasWhatItNeeds(j)'
    BY <1>1, <1>2, <1>4, <2>1, <2>2 DEF HasWhatItNeeds
  <2>4. LastCallIsDone(j)' /\ Milestones(j)'
    BY <1>1, <1>4, <2>1, <2>2 DEF LastCallIsDone, Facing, Milestones
  <2> QED
    BY <1>1, <2>1, <2>2, <2>3, <2>4 DEF JobInv
<1> QED
  BY <1>1, <1>3, <1>4, AbandonedTodo

(* A method starts without needing anything but a container to remove.      *)
LEMMA StartInv == ASSUME IInv, NEW j \in Jobs, Start(j) PROVE JobInv(j)'
<1>1. /\ kind' = kind /\ boxes' = boxes /\ status'[j] = "busy"
      /\ todo \in [Jobs -> Seq(Calls)] /\ box \in [Jobs -> ContainerIds \cup {None}]
  BY DEF Start, engineVars, IInv, TypeOK
<1>2. box[j] # None => boxes[box[j]] # None
  BY DEF IInv, JobInv, HasWhatItNeeds
<1>3. ASSUME NEW s, Fresh(kind[j], s), todo'[j] = s, box'[j] # None => boxes[box'[j]] # None,
             kind[j] = "remove" => box'[j] # None, kind[j] # "deploy"
      PROVE  JobInv(j)'
  <2>1. HasWhatItNeeds(j)'
    BY <1>1, <1>3 DEF Fresh, HasWhatItNeeds
  <2>2. LastCallIsDone(j)' /\ Milestones(j)'
    BY <1>1, <1>3 DEF Fresh, LastCallIsDone, Facing, Milestones
  <2> QED
    BY <1>1, <1>3, <2>1, <2>2 DEF JobInv, Fresh
<1>4. CASE kind[j] = "deploy"
  <2>1. PICK settings \in BOOLEAN :
          todo' = [todo EXCEPT ![j] = Deploy(settings)] /\ box' = [box EXCEPT ![j] = None]
    BY <1>4 DEF Start
  <2> DEFINE s == Deploy(settings)
  <2>2. /\ Fresh("deploy", s)
        /\ \A op \in {"task", "stage", "build", "image", "container"} :
             \E i \in 1 .. Len(s) : s[i].op = op
        /\ \A n \in {"app.jar", "pom.xml", "Dockerfile"} :
             \E i \in 1 .. Len(s) : s[i].op = "row" /\ s[i].name = n
    BY DeployIsFresh
  <2>3. todo'[j] = s /\ box'[j] = None
    BY <1>1, <2>1
  <2> HIDE DEF s
  <2>4. HasWhatItNeeds(j)'
    BY <1>1, <1>4, <2>2, <2>3 DEF Fresh, HasWhatItNeeds
  <2>5. LastCallIsDone(j)'
    BY <1>1, <2>2, <2>3 DEF Fresh, LastCallIsDone, Facing
  <2>6. Milestones(j)'
    <3>1. ASSUME NEW op \in {"task", "stage", "build", "image", "container"} PROVE Pending(j, op)'
      <4>1. \E i \in 1 .. Len(s) : s[i].op = op
        BY <2>2
      <4> QED
        BY <2>3, <4>1 DEF Pending
    <3>2. \A n \in {"app.jar", "pom.xml", "Dockerfile"} : RowPending(j, n)'
      BY <2>2, <2>3 DEF RowPending
    <3> QED
      BY <3>1, <3>2 DEF Milestones
  <2> QED
    BY <1>1, <1>4, <2>2, <2>3, <2>4, <2>5, <2>6 DEF JobInv, Fresh
<1>5. CASE kind[j] = "run"
  <2>1. todo'[j] = RunPlan /\ box'[j] = None
    BY <1>1, <1>5 DEF Start
  <2> QED
    BY <1>3, <1>5, <2>1, PlanIsFresh
<1>6. CASE kind[j] = "setup"
  <2>1. todo'[j] = Do(RegisterHost \o RegisterEngine, 0, "caller") /\ box'[j] = box[j]
    BY <1>1, <1>6 DEF Start
  <2> QED
    BY <1>2, <1>3, <1>6, <2>1, SetupIsFresh
<1>7. CASE kind[j] = "remove"
  <2>1. PICK row \in containers : box' = [box EXCEPT ![j] = row.id]
    BY <1>7 DEF Start
  <2>2. row.id \in ContainerIds /\ row.id # None /\ boxes[row.id] # None
    BY DeployAssumption DEF DeployAssumption, IInv, TypeOK, RegistryTypeOK, ContainerRows, BoxesAreKnown
  <2>3. todo'[j] = Do(RemoveContainer, 0, "caller") /\ box'[j] = row.id
    BY <1>1, <1>7, <2>1 DEF Start
  <2> QED
    BY <1>3, <1>7, <2>2, <2>3, RemovalIsFresh
<1> QED
  BY <1>4, <1>5, <1>6, <1>7 DEF Start

(* Every step keeps what every job has.                                     *)
LEMMA StepOfJob ==
  ASSUME IInv, NEW j \in Jobs,
         \/ Start(j) \/ StoreCall(j) \/ Build(j) \/ Create(j) \/ EngineCall(j) \/ Inspect(j)
         \/ RegistryCall(j) \/ Raises(j)
  PROVE  Typed' /\ Ages(j) /\ \A k \in Jobs : JobInv(k)'
<1>1. Typed'
  BY StartTypes, StoreCallTypes, BuildTypes, CreateTypes, EngineCallTypes, InspectTypes,
     RegistryCallTypes, RaisesTypes
<1>2. Ages(j)
  BY StartAges, StoreCallAges, EngineCallsAge, InspectAges, RegistryCallAges, RaisesAges
<1>3. \A k \in Jobs : k # j => JobInv(k)'
  BY <1>2, OthersInv
<1>4. JobInv(j)'
  <2>1. CASE Start(j)
    BY <2>1, StartInv
  <2>2. CASE Raises(j)
    BY <1>2, <2>2, RaisesInv
  <2>3. CASE StoreCall(j) \/ Build(j) \/ Create(j) \/ EngineCall(j) \/ Inspect(j) \/ RegistryCall(j)
    <3>1. Returned(j) /\ status[j] = "busy"
      BY <2>3 DEF StoreCall, Build, Create, EngineCall, Inspect, RegistryCall, Keeps, Facing
    <3>2. Done(j)
      BY <2>3, StoreCallDone, BuildDone, CreateDone, EngineCallDone, InspectDone, RegistryCallDone
    <3> QED
      BY <1>1, <1>2, <3>1, <3>2, ReturnedInv
  <2> QED
    BY <2>1, <2>2, <2>3
<1> QED
  BY <1>1, <1>2, <1>3, <1>4

-----------------------------------------------------------------------------
(* The rows and the files                                                   *)

LEMMA WritesKeepRows ==
  ASSUME IInv, NEW p \in Paths, NEW whole \in BOOLEAN, WriteFile(p, whole)
  PROVE  RowsDescribeFiles'
<1> SUFFICES ASSUME NEW a \in artifacts
             PROVE  a.write <= writes'[a.path] /\ (a.write = writes'[a.path] => files'[a.path] = a.write)
  BY DEF WriteFile, RowsDescribeFiles
<1>1. a.path \in Paths /\ a.write \in Nat /\ a.write <= writes[a.path]
      /\ (a.write = writes[a.path] => files[a.path] = a.write)
  BY DEF IInv, RowsDescribeFiles, TypeOK, StoreTypeOK, ArtifactRows
<1>2. writes \in [Paths -> Nat] /\ files \in [Paths -> Nat \cup {Torn}]
  BY DEF IInv, TypeOK, StoreTypeOK
<1>3. CASE a.path = p
  <2>1. writes'[a.path] = writes[a.path] + 1 /\ writes[a.path] \in Nat
    BY <1>1, <1>2, <1>3 DEF WriteFile
  <2> QED
    BY <1>1, <2>1
<1>4. CASE a.path # p
  <2>1. writes'[a.path] = writes[a.path] /\ files'[a.path] = files[a.path]
    BY <1>1, <1>2, <1>4 DEF WriteFile
  <2> QED
    BY <1>1, <2>1
<1> QED
  BY <1>3, <1>4

(* A row is inserted right after the whole file was written.                *)
LEMMA StepKeepsRows ==
  ASSUME IInv, NEW j \in Jobs,
         \/ Start(j) \/ StoreCall(j) \/ Build(j) \/ Create(j) \/ EngineCall(j) \/ Inspect(j)
         \/ RegistryCall(j) \/ Raises(j)
  PROVE  RowsDescribeFiles'
<1>1. CASE UNCHANGED <<artifacts, files, writes>>
  BY <1>1 DEF IInv, RowsDescribeFiles
<1>2. ASSUME Facing(j, "file"), NEW whole \in BOOLEAN, WriteFile(Path(j), whole)
      PROVE  RowsDescribeFiles'
  <2>1. Path(j) \in Paths
    BY <1>2, Faced DEF Facing
  <2> QED
    BY <1>2, <2>1, WritesKeepRows
<1>3. CASE Facing(j, "row") /\ InsertArtifact(Path(j), kind[j] = "deploy")
  <2>1. Path(j) \in Paths /\ files[Path(j)] = writes[Path(j)] /\ writes[Path(j)] \in Nat
    BY <1>3, Faced DEF Facing, IInv, JobInv, LastCallIsDone, TypeOK, StoreTypeOK
  <2> DEFINE new == [task |-> Path(j)[1], staged |-> kind[j] = "deploy", path |-> Path(j),
                     write |-> writes[Path(j)]]
  <2>2. artifacts' = artifacts \cup {new} /\ files' = files /\ writes' = writes
    BY <1>3 DEF InsertArtifact
  <2>3. new.path = Path(j) /\ new.write = writes[Path(j)]
    OBVIOUS
  <2>4. new.write <= writes[new.path] /\ files[new.path] = new.write
    BY <2>1, <2>3
  <2> HIDE DEF new
  <2> QED
    BY <2>2, <2>4 DEF IInv, RowsDescribeFiles
<1>4. CASE StoreCall(j)
  BY <1>1, <1>2, <1>3, <1>4 DEF StoreCall, InsertTask, InsertStage
<1>5. CASE Raises(j)
  BY <1>1, <1>2, <1>5 DEF Raises, Effect, storeVars
<1>6. CASE Start(j) \/ Build(j) \/ Create(j) \/ EngineCall(j) \/ Inspect(j) \/ RegistryCall(j)
  BY <1>1, <1>6 DEF Start, Build, Create, EngineCall, Inspect, RegistryCall, storeVars
<1> QED
  BY <1>4, <1>5, <1>6

-----------------------------------------------------------------------------
(* The containers and the registry                                          *)

(* A container exists after a step that did before, or was created by it.   *)
LEMMA NewBoxes ==
  ASSUME IInv, NEW j \in Jobs,
         \/ Start(j) \/ StoreCall(j) \/ Build(j) \/ Create(j) \/ EngineCall(j) \/ Inspect(j)
         \/ RegistryCall(j) \/ Raises(j),
         NEW b \in ContainerIds, Exists(b)'
  PROVE  \/ Exists(b)
         \/ Create(j) /\ boxes'[b].by = j /\ box'[j] = b
         \/ Raises(j) /\ boxes'[b].by = j
<1>1. boxes \in [ContainerIds -> Boxes \cup {None}] /\ box \in [Jobs -> ContainerIds \cup {None}]
  BY DEF IInv, TypeOK, EngineTypeOK
<1>2. CASE boxes' = boxes
  BY <1>2 DEF Exists
<1>3. ASSUME NEW c \in ContainerIds, CreateBox(c, j) PROVE Exists(b) \/ (b = c /\ boxes'[b].by = j)
  BY <1>1, <1>3 DEF CreateBox, Exists
<1>4. ASSUME StartBox(box[j]) \/ RemoveBox(box[j]), box[j] \in ContainerIds, boxes[box[j]] \in Boxes
      PROVE  Exists(b)
  <2>1. None \notin Boxes /\ boxes[box[j]].state # "gone"
    BY <1>4, DeployAssumption DEF DeployAssumption, StartBox, RemoveBox
  <2>2. b # box[j] => boxes'[b] = boxes[b]
    BY <1>1, <1>4 DEF StartBox, RemoveBox
  <2> QED
    BY <1>4, <2>1, <2>2 DEF Exists
<1>5. ASSUME Facing(j, "start") \/ Facing(j, "remove")
      PROVE  box[j] \in ContainerIds /\ boxes[box[j]] \in Boxes
  BY <1>5, Faced DEF Facing, UsesBox
<1>6. CASE Create(j)
  <2>1. PICK c \in ContainerIds : CreateBox(c, j) /\ box' = [box EXCEPT ![j] = c]
    BY <1>6 DEF Create
  <2>2. box'[j] = c
    BY <1>1, <2>1
  <2> QED
    BY <1>3, <1>6, <2>1, <2>2
<1>7. CASE Raises(j)
  <2>1. boxes' = boxes \/ (\E c \in ContainerIds : CreateBox(c, j))
        \/ ((Facing(j, "start") \/ Facing(j, "remove")) /\ (StartBox(box[j]) \/ RemoveBox(box[j])))
    BY <1>7 DEF Raises, Effect, engineVars, BuildImage
  <2> QED
    BY <1>2, <1>3, <1>4, <1>5, <1>7, <2>1
<1>8. CASE EngineCall(j)
  BY <1>4, <1>5, <1>8 DEF EngineCall
<1>9. CASE Start(j) \/ StoreCall(j) \/ Build(j) \/ Inspect(j) \/ RegistryCall(j)
  BY <1>2, <1>9 DEF Start, StoreCall, Build, BuildImage, Inspect, RegistryCall, engineVars
<1> QED
  BY <1>6, <1>7, <1>8, <1>9

(* A container on its way to the registry gets there, or a call has raised. *)
LEMMA OnItsWay ==
  ASSUME IInv, NEW j \in Jobs, Ages(j),
         \/ Start(j) \/ StoreCall(j) \/ Build(j) \/ Create(j) \/ EngineCall(j) \/ Inspect(j)
         \/ RegistryCall(j) \/ Raises(j),
         NEW k \in Jobs, Pending(k, "container"), ~Pending(k, "create")
  PROVE  \/ Has(containers', box[k])
         \/ raised'[k]
         \/ box'[k] = box[k] /\ Pending(k, "container")' /\ ~Pending(k, "create")'
<1>1. CASE k # j
  BY <1>1 DEF Ages, OthersKept, Pending
<1>2. CASE k = j /\ Start(j)
  <2>1. todo[j] # <<>> /\ status[j] # "busy"
    BY <1>2 DEF Pending, Start
  <2> QED
    BY <2>1 DEF IInv, TypeOK
<1>3. CASE k = j /\ Raises(j)
  BY <1>3 DEF Raises, IInv, TypeOK
<1>4. CASE /\ k = j
           /\ StoreCall(j) \/ Build(j) \/ Create(j) \/ EngineCall(j) \/ Inspect(j) \/ RegistryCall(j)
  <2>1. Returned(j) /\ status[j] = "busy"
    BY <1>4 DEF StoreCall, Build, Create, EngineCall, Inspect, RegistryCall, Keeps, Facing
  <2>2. Done(j)
    BY <1>4, StoreCallDone, BuildDone, CreateDone, EngineCallDone, InspectDone, RegistryCallDone
  <2>3. todo'[j] = Tail(todo[j]) /\ (Facing(j, "container") \/ Pending(j, "container")')
    BY <1>4, <2>1, PendingGoes
  <2>4. todo[j] \in Seq(Calls) /\ todo[j] # <<>> /\ Shape(kind[j], todo[j])
    BY <2>1, Faced
  <2>5. Head(todo[j]) = todo[j][1] /\ 1 \in 1 .. Len(todo[j]) /\ Len(Tail(todo[j])) = Len(todo[j]) - 1
        /\ Len(todo[j]) \in Nat /\ \A i \in 1 .. Len(Tail(todo[j])) : Tail(todo[j])[i] = todo[j][i + 1]
    BY <2>4, TailOfCalls
  <2>6. ~Facing(j, "create")
    BY <1>4, <2>5 DEF Pending, Facing
  <2>7. ~Pending(j, "create")'
    BY <1>4, <2>3, <2>5 DEF Pending
  <2>8. box'[j] = box[j] /\ (Facing(j, "container") => Has(containers', box[j]))
    BY <2>2, <2>6 DEF Done, Has
  <2> QED
    BY <1>4, <2>3, <2>7, <2>8
<1> QED
  BY <1>1, <1>2, <1>3, <1>4

(* The registry's part of the invariant, after any step.                    *)
LEMMA StepKnowsBoxes ==
  ASSUME IInv, NEW j \in Jobs, Ages(j), Typed',
         \/ Start(j) \/ StoreCall(j) \/ Build(j) \/ Create(j) \/ EngineCall(j) \/ Inspect(j)
         \/ RegistryCall(j) \/ Raises(j)
  PROVE  BoxesAreKnown'
<1>1. ASSUME NEW b \in ContainerIds, Exists(b)'
      PROVE  \E m \in Jobs :
               /\ boxes'[b].by = m
               /\ \/ Has(containers', b)
                  \/ raised'[m]
                  \/ box'[m] = b /\ Pending(m, "container")' /\ ~Pending(m, "create")'
  <2>1. CASE Exists(b)
    <3>1. PICK m \in Jobs : boxes[b].by = m /\ boxes'[b].by = m
      BY <2>1 DEF Exists, Ages, EngineGrows, IInv, TypeOK, EngineTypeOK, Boxes
    <3>2. \/ Has(containers, b)
          \/ raised[m]
          \/ box[m] = b /\ Pending(m, "container") /\ ~Pending(m, "create")
      BY <2>1, <3>1 DEF IInv, BoxesAreKnown, Pending
    <3>3. CASE Has(containers, b)
      <4>1. PICK c \in containers : c.id = b
        BY <3>3 DEF Has
      <4>2. \E d \in containers' : d.id = c.id
        BY DEF Ages, RegistryGrows
      <4> QED
        BY <3>1, <4>1, <4>2 DEF Has
    <3>4. CASE raised[m]
      BY <3>1, <3>4 DEF Ages, OthersKept
    <3>5. CASE box[m] = b /\ Pending(m, "container") /\ ~Pending(m, "create")
      <4>1. \/ Has(containers', box[m])
            \/ raised'[m]
            \/ box'[m] = box[m] /\ Pending(m, "container")' /\ ~Pending(m, "create")'
        BY <3>1, <3>5, OnItsWay
      <4> QED
        BY <3>1, <3>5, <4>1
    <3> QED
      BY <3>1, <3>2, <3>3, <3>4, <3>5
  <2>2. CASE Raises(j) /\ boxes'[b].by = j
    <3>1. raised'[j]
      BY <2>2 DEF Raises, IInv, TypeOK
    <3> QED
      BY <2>2, <3>1
  <2>3. CASE Create(j) /\ boxes'[b].by = j /\ box'[j] = b
    <3>1. Returned(j) /\ Facing(j, "create") /\ status[j] = "busy"
      BY <2>3 DEF Create, Facing
    <3>2. todo[j] \in Seq(Calls) /\ todo[j] # <<>> /\ Shape(kind[j], todo[j])
      BY <3>1, Faced
    <3>3. /\ Head(todo[j]) = todo[j][1] /\ 1 \in 1 .. Len(todo[j]) /\ 1 + 1 = 2
          /\ Len(Tail(todo[j])) = Len(todo[j]) - 1
          /\ Len(todo[j]) \in Nat /\ \A i \in 1 .. Len(Tail(todo[j])) : Tail(todo[j])[i] = todo[j][i + 1]
      BY <3>2, TailOfCalls
    <3>4. todo[j][1].op = "create"
      BY <3>1, <3>3 DEF Facing
    <3>5. /\ \E i \in 2 .. Len(todo[j]) : todo[j][i].op = "container"
          /\ \A i \in 2 .. Len(todo[j]) : todo[j][i].op # "create"
      <4>1. /\ \E i \in (1 + 1) .. Len(todo[j]) : todo[j][i].op = "container"
            /\ \A i \in (1 + 1) .. Len(todo[j]) : todo[j][i].op # "create"
        BY <3>2, <3>3, <3>4 DEF Shape, BoxCallsInOrder
      <4> QED
        BY <4>1
    <3>6. Pending(j, "container")' /\ todo'[j] = Tail(todo[j])
      BY <3>1, <3>5, PendingGoes
    <3>7. \A i \in 1 .. Len(Tail(todo[j])) : i + 1 \in 2 .. Len(todo[j])
      BY <3>3
    <3>8. ~Pending(j, "create")'
      BY <3>3, <3>5, <3>6, <3>7 DEF Pending
    <3> QED
      BY <2>3, <3>6, <3>8
  <2> QED
    BY <1>1, <2>1, <2>2, <2>3, NewBoxes
<1>2. ASSUME NEW c \in containers'
      PROVE  boxes'[c.id] # None /\ (c.status = "removed" => boxes'[c.id].state = "gone")
  <2>1. ASSUME NEW b \in ContainerIds, boxes[b] # None
        PROVE  boxes'[b] # None /\ (boxes[b].state = "gone" => boxes'[b].state = "gone")
    BY <2>1 DEF Ages, EngineGrows
  <2>2. \A r \in containers : /\ r.id \in ContainerIds /\ boxes[r.id] # None
                              /\ (r.status = "removed" => boxes[r.id].state = "gone")
    BY DEF IInv, BoxesAreKnown, TypeOK, RegistryTypeOK, ContainerRows
  <2>3. CASE c \in containers
    BY <2>1, <2>2, <2>3
  <2>4. CASE c \notin containers
    <3>1. RegistryCall(j)
      BY <2>4 DEF Start, StoreCall, Build, Create, EngineCall, Inspect, Raises, registryVars
    <3>2. (Facing(j, "container") /\ InsertContainer(box[j], image[j], TaskOf[j]))
          \/ (Facing(j, "mark") /\ UpdateStatus(box[j], "removed"))
      BY <2>4, <3>1 DEF RegistryCall, InsertImage, InsertDeployment, InsertHost, InsertEngine
    <3>3. box[j] \in ContainerIds /\ boxes[box[j]] \in Boxes /\ None \notin Boxes
      BY <3>2, Faced, DeployAssumption DEF Facing, UsesBox, DeployAssumption
    <3>4. CASE InsertContainer(box[j], image[j], TaskOf[j])
      <4>1. c = [id |-> box[j], image |-> image[j], owner |-> TaskOf[j], status |-> "running"]
        BY <2>4, <3>4 DEF InsertContainer
      <4> QED
        BY <2>1, <3>3, <4>1
    <3>5. CASE Facing(j, "mark") /\ UpdateStatus(box[j], "removed")
      <4>1. boxes[box[j]].state = "gone"
        BY <3>5 DEF IInv, JobInv, LastCallIsDone
      <4>2. PICK r \in containers : c = IF r.id = box[j] THEN [r EXCEPT !.status = "removed"] ELSE r
        BY <3>5 DEF UpdateStatus
      <4>3. r.id = box[j] /\ c = [r EXCEPT !.status = "removed"]
        BY <2>4, <4>2
      <4>4. r \in ContainerRows
        BY DEF IInv, TypeOK, RegistryTypeOK
      <4>5. c.id = box[j]
        BY <4>3, <4>4 DEF ContainerRows
      <4> QED
        BY <2>1, <3>3, <4>1, <4>5
    <3> QED
      BY <3>2, <3>4, <3>5
  <2> QED
    BY <2>3, <2>4
<1> QED
  BY <1>1, <1>2 DEF BoxesAreKnown, Pending

-----------------------------------------------------------------------------
(* The deployments                                                          *)

(* What a deployment refers to stays on record while its job does nothing.  *)
Backed(d) ==
  /\ d.task \in tasks \cap stages
  /\ \A n \in {"app.jar", "pom.xml", "Dockerfile"} :
       \E a \in artifacts : a.path = <<d.task, n>> /\ files[a.path] = a.write
  /\ d.image \in built /\ Has(images, d.image)
  /\ \E c \in containers : c.id = d.container /\ c.image = d.image /\ c.owner = d.task

LEMMA OldDeployments ==
  ASSUME IInv, NEW j \in Jobs, Ages(j),
         \/ Start(j) \/ StoreCall(j) \/ Build(j) \/ Create(j) \/ EngineCall(j) \/ Inspect(j)
         \/ RegistryCall(j) \/ Raises(j),
         NEW k \in Jobs, kind[k] = "deploy", NEW d \in deployments, d.task = TaskOf[k]
  PROVE  Backed(d)' /\ todo'[k] = <<>> /\ status'[k] # "idle"
<1>1. todo[k] = <<>> /\ status[k] # "idle" /\ status[k] # "busy" /\ Backed(d)
  BY DEF IInv, DeploymentIsLast, ReadyDeploymentIsBacked, TypeOK, Backed
<1>2. k # j
  BY <1>1 DEF Start, StoreCall, Build, Create, EngineCall, Inspect, RegistryCall, Raises, Facing
<1>3. todo'[k] = <<>> /\ status'[k] # "idle"
  BY <1>1, <1>2 DEF Ages, OthersKept
<1>4. d.task \in tasks' \cap stages' /\ d.image \in built'
  BY <1>1 DEF Backed, Ages, StoreGrows, EngineGrows
<1>5. ASSUME NEW n \in {"app.jar", "pom.xml", "Dockerfile"}
      PROVE  \E a \in artifacts' : a.path = <<d.task, n>> /\ files'[a.path] = a.write
  <2>1. PICK a \in artifacts : a.path = <<d.task, n>> /\ files[a.path] = a.write
    BY <1>1 DEF Backed
  <2>2. a.path \in Paths /\ a \in artifacts'
    BY DEF Ages, StoreGrows, IInv, TypeOK, StoreTypeOK, ArtifactRows
  <2>3. a.path # Path(j)
    BY <1>2, <2>1, PathsDiffer
  <2>4. files'[a.path] = files[a.path]
    BY <2>2, <2>3 DEF Ages, FilesKept
  <2> QED
    BY <2>1, <2>2, <2>4
<1>6. Has(images', d.image)
  <2>1. d.image \in ImageIds
    BY DEF IInv, TypeOK, RegistryTypeOK, DeploymentRows
  <2> QED
    BY <1>1, <2>1 DEF Backed, Ages, RegistryGrows
<1>7. \E c \in containers' : c.id = d.container /\ c.image = d.image /\ c.owner = d.task
  BY <1>1 DEF Backed, Ages, RegistryGrows
<1>8. Backed(d)'
  BY <1>4, <1>5, <1>6, <1>7 DEF Backed
<1> QED
  BY <1>3, <1>8

(* A new one is recorded by the last call of its job, so that nothing that  *)
(* its milestones tell of is still to be done.                              *)
LEMMA NewDeployment ==
  ASSUME IInv, NEW j \in Jobs, Typed', kind[j] = "deploy", RegistryCall(j), Facing(j, "deployment"),
         InsertDeployment(TaskOf[j], image[j], box[j]),
         NEW d, d = [task |-> TaskOf[j], image |-> image[j], container |-> box[j]]
  PROVE  Backed(d)' /\ todo'[j] = <<>> /\ status'[j] # "idle"
<1>1. /\ status[j] = "busy" /\ todo[j] \in Seq(Calls) /\ todo[j] # <<>> /\ Shape(kind[j], todo[j])
      /\ Head(todo[j]) = todo[j][1] /\ Len(todo[j]) >= 1
  BY Faced DEF Facing
<1>2. Len(todo[j]) = 1
  <2>1. todo[j][1].op = "deployment" /\ 1 \in 1 .. Len(todo[j])
    BY <1>1 DEF Facing
  <2> QED
    BY <1>1, <2>1 DEF Shape, KindOfCalls
<1>3. /\ \A op : op # "deployment" => ~Pending(j, op)
      /\ \A n : ~RowPending(j, n)
  <2>1. \A i \in 1 .. Len(todo[j]) : todo[j][i].op = "deployment"
    BY <1>1, <1>2 DEF Facing
  <2> QED
    BY <2>1 DEF Pending, RowPending
<1>4. todo'[j] = <<>> /\ status'[j] # "idle"
  <2>1. status'[j] = "returned"
    BY <1>2 DEF RegistryCall, Keeps, Returned, IInv, TypeOK
  <2> QED
    BY <2>1 DEF Typed, TypeOK
<1>5. Milestones(j)
  BY DEF IInv, JobInv
<1>6. /\ TaskOf[j] \in tasks \cap stages
      /\ \A n \in {"app.jar", "pom.xml", "Dockerfile"} :
           \E a \in artifacts : a.path = <<TaskOf[j], n>> /\ files[a.path] = a.write
      /\ image[j] \in built /\ Has(images, image[j])
      /\ \E c \in containers : c.id = box[j] /\ c.image = image[j] /\ c.owner = TaskOf[j]
  BY <1>1, <1>3, <1>5 DEF Milestones
<1>7. /\ tasks' = tasks /\ stages' = stages /\ artifacts' = artifacts /\ files' = files
      /\ built' = built /\ images' = images /\ containers' = containers
  BY DEF RegistryCall, InsertDeployment, storeVars, engineVars
<1>8. d.task = TaskOf[j] /\ d.image = image[j] /\ d.container = box[j]
  OBVIOUS
<1>9. Backed(d)'
  BY <1>6, <1>7, <1>8 DEF Backed, Has
<1> QED
  BY <1>4, <1>9

(* The deployments' part of the invariant, after any step.                  *)
LEMMA StepKeepsDeployments ==
  ASSUME IInv, NEW j \in Jobs, Ages(j), Typed',
         \/ Start(j) \/ StoreCall(j) \/ Build(j) \/ Create(j) \/ EngineCall(j) \/ Inspect(j)
         \/ RegistryCall(j) \/ Raises(j)
  PROVE  ReadyDeploymentIsBacked' /\ DeploymentIsLast'
<1>1. kind' = kind
  BY DEF Ages, OthersKept
<1>2. ASSUME NEW d \in deployments', NEW k \in Jobs, kind[k] = "deploy", d.task = TaskOf[k]
      PROVE  Backed(d)' /\ todo'[k] = <<>> /\ status'[k] # "idle"
  <2>1. CASE d \in deployments
    BY <1>2, <2>1, OldDeployments
  <2>2. CASE d \notin deployments
    <3>1. RegistryCall(j)
      BY <2>2 DEF Start, StoreCall, Build, Create, EngineCall, Inspect, Raises, registryVars
    <3>2. Facing(j, "deployment") /\ InsertDeployment(TaskOf[j], image[j], box[j])
      BY <2>2, <3>1 DEF RegistryCall, InsertImage, InsertContainer, UpdateStatus, InsertHost, InsertEngine
    <3>3. d = [task |-> TaskOf[j], image |-> image[j], container |-> box[j]]
      BY <2>2, <3>2 DEF InsertDeployment
    <3>4. k = j
      <4>1. TaskOf[k] = TaskOf[j]
        BY <1>2, <3>3
      <4> QED
        BY <4>1, DeployAssumption DEF DeployAssumption
    <3> QED
      BY <1>2, <3>1, <3>2, <3>3, <3>4, NewDeployment
  <2> QED
    BY <2>1, <2>2
<1>3. ASSUME NEW d \in deployments', NEW k \in Jobs, kind'[k] = "deploy", d.task = TaskOf[k]
      PROVE  Backed(d)' /\ todo'[k] = <<>> /\ status'[k] # "idle"
  BY <1>1, <1>2, <1>3
<1> QED
  BY <1>3 DEF ReadyDeploymentIsBacked, DeploymentIsLast, Backed

-----------------------------------------------------------------------------
(* The invariant                                                            *)

LEMMA InitInv == Init => IInv
<1> SUFFICES ASSUME Init PROVE IInv
  OBVIOUS
<1>1. TypeOK /\ todo \in [Jobs -> Seq(Calls)]
  BY TypesInit
<1>2. ASSUME NEW j \in Jobs PROVE JobInv(j)
  <2>1. todo[j] = <<>> /\ status[j] = "idle" /\ round[j] = 0 /\ box[j] = None
    BY DEF Init
  <2>2. Shape(kind[j], <<>>)
    <3>1. \A i \in 1 .. Len(<<>>) : FALSE
      OBVIOUS
    <3>2. \A i \in 2 .. Len(<<>>) : FALSE
      OBVIOUS
    <3> QED
      BY <3>1, <3>2 DEF Shape, RowsFollowFiles, BoxCallsInOrder, PlanInOrder, KindOfCalls
  <2>3. ~NeedsBox(<<>>) /\ ~NeedsImage(<<>>)
    BY DEF NeedsBox, NeedsImage
  <2> QED
    BY <2>1, <2>2, <2>3 DEF JobInv, HasWhatItNeeds, LastCallIsDone, Facing, Milestones
<1>3. RowsDescribeFiles
  BY DEF Init, StoreInit, RowsDescribeFiles
<1>4. BoxesAreKnown
  BY DEF Init, RegistryInit, EngineInit, BoxesAreKnown, Exists
<1>5. ReadyDeploymentIsBacked /\ DeploymentIsLast
  BY DEF Init, RegistryInit, ReadyDeploymentIsBacked, DeploymentIsLast
<1> QED
  BY <1>1, <1>2, <1>3, <1>4, <1>5 DEF IInv

LEMMA StepInv == IInv /\ [Next]_vars => IInv'
<1>1. ASSUME IInv, NEW j \in Jobs,
             \/ Start(j) \/ StoreCall(j) \/ Build(j) \/ Create(j) \/ EngineCall(j) \/ Inspect(j)
             \/ RegistryCall(j) \/ Raises(j)
      PROVE  IInv'
  <2>1. Typed' /\ Ages(j) /\ \A k \in Jobs : JobInv(k)'
    BY <1>1, StepOfJob
  <2>2. RowsDescribeFiles'
    BY <1>1, StepKeepsRows
  <2>3. BoxesAreKnown'
    BY <1>1, <2>1, StepKnowsBoxes
  <2>4. ReadyDeploymentIsBacked' /\ DeploymentIsLast'
    BY <1>1, <2>1, StepKeepsDeployments
  <2> QED
    BY <2>1, <2>2, <2>3, <2>4 DEF IInv, Typed
<1>2. ASSUME IInv, UNCHANGED vars PROVE IInv'
  <2>1. /\ TypeOK' /\ todo' \in [Jobs -> Seq(Calls)]
    BY <1>2 DEF IInv, vars, storeVars, registryVars, jobVars, engineVars, TypeOK,
       StoreTypeOK, RegistryTypeOK, EngineTypeOK
  <2>2. ASSUME NEW j \in Jobs PROVE JobInv(j)'
    <3>1. /\ kind' = kind /\ todo' = todo /\ status' = status /\ round' = round
          /\ image' = image /\ box' = box /\ boxes' = boxes /\ built' = built
          /\ files' = files /\ writes' = writes /\ tasks' = tasks /\ stages' = stages
          /\ artifacts' = artifacts /\ images' = images /\ containers' = containers
      BY <1>2 DEF vars, storeVars, registryVars, jobVars, engineVars
    <3>2. JobInv(j)
      BY <1>2 DEF IInv
    <3>3. HasWhatItNeeds(j)' /\ LastCallIsDone(j)'
      BY <3>1, <3>2 DEF JobInv, HasWhatItNeeds, LastCallIsDone, Facing, Path
    <3>4. Milestones(j)'
      BY <3>1, <3>2 DEF JobInv, Milestones, Pending, RowPending, Has
    <3> QED
      BY <3>1, <3>2, <3>3, <3>4 DEF JobInv
  <2>3. RowsDescribeFiles' /\ BoxesAreKnown'
    <3>1. RowsDescribeFiles'
      BY <1>2 DEF IInv, vars, storeVars, RowsDescribeFiles
    <3>2. /\ boxes' = boxes /\ containers' = containers /\ raised' = raised /\ box' = box
          /\ todo' = todo /\ BoxesAreKnown
      BY <1>2 DEF IInv, vars, registryVars, jobVars, engineVars
    <3>3. BoxesAreKnown'
      BY <3>2, Zenon DEF BoxesAreKnown, Exists, Has, Pending
    <3> QED
      BY <3>1, <3>3
  <2>4. ReadyDeploymentIsBacked' /\ DeploymentIsLast'
    <3>1. /\ kind' = kind /\ todo' = todo /\ status' = status /\ tasks' = tasks /\ stages' = stages
          /\ artifacts' = artifacts /\ files' = files /\ built' = built /\ images' = images
          /\ containers' = containers /\ deployments' = deployments
      BY <1>2 DEF vars, storeVars, registryVars, jobVars, engineVars
    <3>2. ReadyDeploymentIsBacked'
      BY <1>2, <3>1 DEF IInv, ReadyDeploymentIsBacked, Has
    <3>3. DeploymentIsLast'
      BY <1>2, <3>1 DEF IInv, DeploymentIsLast
    <3> QED
      BY <3>2, <3>3
  <2> QED
    BY <2>1, <2>2, <2>3, <2>4 DEF IInv
<1> QED
  BY <1>1, <1>2 DEF Next

(* It holds always.                                                         *)
LEMMA Inductive == Spec => []IInv
BY InitInv, StepInv, PTL DEF Spec

(* Every table, file and job keeps its type.                                *)
THEOREM TypeCorrect == Spec => []TypeOK
<1>1. IInv => TypeOK
  BY DEF IInv
<1> QED
  BY <1>1, Inductive, PTL

(* The newest row of an artifact has the hash and the size of the file that *)
(* is there, whatever was cut or written again (persist_artifact_bytes).    *)
THEOREM RowsDescribeTheirFiles == Spec => []LatestRowDescribesItsFile
<1>1. IInv => LatestRowDescribesItsFile
  BY DEF IInv, RowsDescribeFiles, LatestRowDescribesItsFile
<1> QED
  BY <1>1, Inductive, PTL

(* A deployment that run_java_deploy has recorded has its task, its three   *)
(* files, its image and its container on record, for good.                  *)
THEOREM DeploymentsAreBacked == Spec => []ReadyDeploymentIsBacked
<1>1. IInv => ReadyDeploymentIsBacked
  BY DEF IInv
<1> QED
  BY <1>1, Inductive, PTL

(* A container that RuntimeManagerService made is in the registry, on its   *)
(* way there, or left by a call that raised; a removed one is gone.         *)
THEOREM RegistryIsComplete == Spec => []RegistryKnowsContainers
<1>1. IInv => RegistryKnowsContainers
  <2> SUFFICES ASSUME IInv PROVE RegistryKnowsContainers
    OBVIOUS
  <2>1. ASSUME NEW b \in ContainerIds, Exists(b)
        PROVE  LET j == boxes[b].by IN
                 \/ Has(containers, b)
                 \/ raised[j]
                 \/ box[j] = b /\ \E i \in DOMAIN todo[j] : todo[j][i].op = "container"
    <3>1. PICK j \in Jobs : boxes[b].by = j
      BY <2>1 DEF Exists, IInv, TypeOK, EngineTypeOK, Boxes
    <3>2. Has(containers, b) \/ raised[j] \/ (box[j] = b /\ Pending(j, "container"))
      BY <2>1, <3>1 DEF IInv, BoxesAreKnown, Pending
    <3>3. DOMAIN todo[j] = 1 .. Len(todo[j])
      BY DEF IInv
    <3> QED
      BY <3>1, <3>2, <3>3 DEF Pending
  <2>2. \A c \in containers : c.status = "removed" => ~Exists(c.id)
    BY DEF IInv, BoxesAreKnown, Exists
  <2> QED
    BY <2>1, <2>2 DEF RegistryKnowsContainers
<1> QED
  BY <1>1, Inductive, PTL
=============================================================================
