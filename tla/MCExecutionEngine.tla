-------------------------- MODULE MCExecutionEngine --------------------------
(* Finite plan spaces for the interpreter.                                  *)
EXTENDS ExecutionEngine

PlansOf(n, kinds, policies) ==
  [kind : [1..n -> kinds], deps : [1..n -> SUBSET (1..n)], onFailure : [1..n -> policies]]

(* Every dependency relation on three steps, self-dependencies and cycles   *)
(* included, under the three failure policies that differ.                  *)
ThreeStepPlans == PlansOf(3, {"run_command"}, {"abort", "continue", "request_replan"})

(* Every plan of one or two steps, with the kind the validator accepts and  *)
(* no executor handles, and all four policies.                              *)
SmallPlans == UNION {PlansOf(n, {"run_command", "parse_text"}, Policies) : n \in 1..2}

EnginePlans == ThreeStepPlans \cup SmallPlans
==============================================================================
