------------------------------ MODULE Inspection ------------------------------
(****************************************************************************)
(* The two inspectors' verdicts: JavaPackageInspector on what it is given,  *)
(* DockerEnvInspector on a container. Findings, hints and warnings are left *)
(* out but for what the status depends on. Neither raises.                  *)
(****************************************************************************)
EXTENDS Naturals

(* A jar that is empty, that is no archive, or without or with a manifest;  *)
(* a pom.xml that is missing or empty, that does not parse, or that does.   *)
PackageInputs == [jar : {"empty", "broken", "plain", "manifest"}, pom : {"none", "broken", "good"}]

PackageStatus(input) ==
  CASE input.jar = "empty"                          -> "failed"
    [] input.jar = "manifest" /\ input.pom = "good" -> "success"
    [] OTHER                                        -> "partial"

(* The eight probes of tools only matter together.                          *)
Critical == {"pwd", "ls", "env"}
Probes   == Critical \cup {"tools"}

Readiness(running, answering) ==
  CASE ~running \/ answering \cap Critical = {} -> "failed"
    [] running /\ Critical \subseteq answering  -> "ready"
    [] OTHER                                    -> "degraded"

EnvStatus(running, answering) ==
  CASE Readiness(running, answering) = "failed" -> "failed"
    [] running /\ answering = Probes            -> "success"
    [] OTHER                                    -> "partial"

Statuses == {"none", "success", "partial", "failed"}
Reports  == [package : Statuses, env : Statuses, readiness : {"none", "ready", "degraded", "failed"}]
NoReport == [package |-> "none", env |-> "none", readiness |-> "none"]
=============================================================================
