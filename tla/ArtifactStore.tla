----------------------------- MODULE ArtifactStore -----------------------------
(****************************************************************************)
(* ArtifactManagerService over ArtifactManagerRepo: files in a directory    *)
(* per task, and the rows of a SQLite database that describe them. Every    *)
(* insert has a connection and a commit of its own, and nothing enforces    *)
(* the foreign keys of the schema. The operators are the single steps of    *)
(* the service's methods; who calls them decides how far a method gets.     *)
(*                                                                          *)
(* The content of a file is the number of the write that made it, so that a *)
(* row tells by its write number which content its hash and size are of.    *)
(****************************************************************************)
EXTENDS Naturals

CONSTANTS
  Tasks,            \* task ids
  Names,            \* the names of artifacts in their directory
  Torn              \* the content of a file whose writing was cut

Paths == Tasks \X Names

VARIABLES
  tasks,            \* table tasks: their ids
  stages,           \* table task_stages: the tasks they are of
  artifacts,        \* table artifacts
  files,            \* what is on disk; 0 is no file
  writes            \* how often each path was opened for writing

storeVars == <<tasks, stages, artifacts, files, writes>>

ArtifactRows == [task : Tasks, staged : BOOLEAN, path : Paths, write : Nat]

StoreInit ==
  /\ tasks = {}
  /\ stages = {}
  /\ artifacts = {}
  /\ files = [p \in Paths |-> 0]
  /\ writes = [p \in Paths |-> 0]

(* create_task: the row first, the directories after it.                    *)
InsertTask(t) ==
  /\ tasks' = tasks \cup {t}
  /\ UNCHANGED <<stages, artifacts, files, writes>>

(* create_stage: the status is that of the call, no code changes it.        *)
InsertStage(t) ==
  /\ stages' = stages \cup {t}
  /\ UNCHANGED <<tasks, artifacts, files, writes>>

(* persist_artifact_bytes makes the directories again, then opens the file, *)
(* which empties it, and writes.                                            *)
WriteFile(p, whole) ==
  /\ writes' = [writes EXCEPT ![p] = @ + 1]
  /\ files' = [files EXCEPT ![p] = IF whole THEN writes[p] + 1 ELSE Torn]
  /\ UNCHANGED <<tasks, stages, artifacts>>

(* A new row for what was last written there.                               *)
InsertArtifact(p, staged) ==
  /\ artifacts' = artifacts \cup
       {[task |-> p[1], staged |-> staged, path |-> p, write |-> writes[p]]}
  /\ UNCHANGED <<tasks, stages, files, writes>>

StoreTypeOK ==
  /\ tasks \subseteq Tasks
  /\ stages \subseteq Tasks
  /\ artifacts \subseteq ArtifactRows
  /\ files \in [Paths -> Nat \cup {Torn}]
  /\ writes \in [Paths -> Nat]

(* The newest row of a path describes what the file holds, unless a later   *)
(* write has been begun there: hash and size are of the whole file.         *)
LatestRowDescribesItsFile ==
  \A a \in artifacts : a.write = writes[a.path] => files[a.path] = a.write
=============================================================================
