---------------------------- MODULE RuntimeRegistry ----------------------------
(****************************************************************************)
(* RuntimeRegistryRepo: the tables in which RuntimeManagerService keeps     *)
(* what it has made. Every call is a connection and a commit of its own;    *)
(* of the schema's constraints SQLite enforces the primary keys and the     *)
(* unique name of a host, not the foreign keys. An insert that violates one *)
(* raises; here it is not enabled, and the caller has the other branch.     *)
(****************************************************************************)
EXTENDS DockerEngine

CONSTANTS
  HostIds,
  HostNames,        \* with NoName, of a host that has none
  NoName,
  EngineId,         \* engine_id of the service
  Owners            \* task ids

VARIABLES
  hosts,            \* table hosts
  engines,          \* table docker_engines: their ids
  images,           \* table images
  containers,       \* table containers
  deployments       \* table deployments

registryVars == <<hosts, engines, images, containers, deployments>>

HostRows       == [id : HostIds, name : HostNames]
ImageRows      == [id : ImageIds, source : Owners]
ContainerRows  == [id : ContainerIds, image : ImageIds, owner : Owners,
                   status : {"running", "removed"}]
DeploymentRows == [task : Owners, image : ImageIds, container : ContainerIds]

RegistryInit ==
  /\ hosts = {} /\ engines = {} /\ images = {} /\ containers = {} /\ deployments = {}

Has(table, key) == \E row \in table : row.id = key

InsertHost(id, name) ==
  /\ ~Has(hosts, id) /\ (name = NoName \/ \A h \in hosts : h.name # name)
  /\ hosts' = hosts \cup {[id |-> id, name |-> name]}
  /\ UNCHANGED <<engines, images, containers, deployments>>

InsertEngine ==
  /\ EngineId \notin engines
  /\ engines' = engines \cup {EngineId}
  /\ UNCHANGED <<hosts, images, containers, deployments>>

InsertImage(id, task) ==
  /\ ~Has(images, id)
  /\ images' = images \cup {[id |-> id, source |-> task]}
  /\ UNCHANGED <<hosts, engines, containers, deployments>>

InsertContainer(id, image, task) ==
  /\ ~Has(containers, id)
  /\ containers' = containers \cup
       {[id |-> id, image |-> image, owner |-> task, status |-> "running"]}
  /\ UNCHANGED <<hosts, engines, images, deployments>>

(* Variant: an upsert that inserts what is not there.                        *)
UpsertStatus(id, status) ==
  /\ containers' = {row \in containers : row.id # id} \cup {[id |-> id, status |-> status]}
  /\ UNCHANGED <<hosts, engines, images, deployments>>

(* upsert_container_status updates what there is and inserts nothing.       *)
UpdateStatus(id, status) ==
  /\ containers' = {IF row.id = id THEN [row EXCEPT !.status = status] ELSE row : row \in containers}
  /\ UNCHANGED <<hosts, engines, images, deployments>>

(* The key of a deployment is a hash of its task and container.             *)
InsertDeployment(task, image, container) ==
  /\ \A d \in deployments : ~(d.task = task /\ d.container = container)
  /\ deployments' = deployments \cup {[task |-> task, image |-> image, container |-> container]}
  /\ UNCHANGED <<hosts, engines, images, containers>>

RegistryTypeOK ==
  /\ hosts \subseteq HostRows
  /\ engines \subseteq {EngineId}
  /\ images \subseteq ImageRows
  /\ containers \subseteq ContainerRows
  /\ deployments \subseteq DeploymentRows
=============================================================================
