--------------------------- MODULE MCRuntimeDeploy ---------------------------
(* Two jobs of the kinds that share something: two deployments, a           *)
(* deployment beside a removal, a plan that is run twice for one task, two  *)
(* registrations of the same host and engine.                               *)
EXTENDS RuntimeDeploy, TLC

CONSTANTS j1, j2, t1, t2

MCTaskOf == (j1 :> t1) @@ (j2 :> t2)

Kinds(k, l) == (j1 :> k) @@ (j2 :> l)

MCKindSets ==
  {Kinds("deploy", "deploy"), Kinds("deploy", "remove"), Kinds("run", "none"), Kinds("setup", "setup")}

MCNames == {"app.jar", "pom.xml", "settings.xml", "Dockerfile",
            "build.log", "log", "env_report", "collected_context", "summary"}

Symmetric == Permutations(ImageIds) \cup Permutations(ContainerIds)
=============================================================================
