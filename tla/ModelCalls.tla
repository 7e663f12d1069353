----------------------------- MODULE ModelCalls -----------------------------
(****************************************************************************)
(* How the decider, the planner and the checker of the agent loop ask a     *)
(* language model and read its answer:                                      *)
(*   - ModelRegistry.resolve and OpenAICompatibleLlmClient.complete         *)
(*     (sdk_test_agent/llm);                                                *)
(*   - LlmJsonResponseParser;                                               *)
(*   - LlmInteractionDecider, LlmPlanner and LlmTaskChecker.                *)
(* Nothing here is retried by this code or kept between calls. A result is  *)
(* [raised, value]: the error class that leaves the call, or "none".        *)
(****************************************************************************)
EXTENDS Naturals, Sequences

Returns(v) == [raised |-> "none", value |-> v]
Throws(e)  == [raised |-> e, value |-> "none"]
Fails(r)   == r.raised # "none"

-----------------------------------------------------------------------------
(* The client. A registry is a set of provider names and a set of models,   *)
(* [alias, provider, model, protocol, structured, defaults]; a client has a *)
(* provider of its own and may have a registry. An absent value is "none".  *)

Formats == {"json_object", "json_schema"}
Settings == [responses        |-> {"max_tokens", "reasoning", "format"},
             chat_completions |-> {"temperature", "top_p", "max_tokens", "format"}]
SettingNames == UNION {Settings[p] : p \in DOMAIN Settings}

(* ModelRegistry.resolve: the model of an alias, if its provider is known.  *)
Registered(registry, alias) ==
  LET named == {m \in registry.models : m.alias = alias} IN
  IF named = {} THEN Throws("LlmModelNotFoundError")
  ELSE LET m == CHOOSE m \in named : TRUE IN
       IF m.provider \in registry.providers THEN Returns(m) ELSE Throws("LlmProviderNotFoundError")

(* Without an alias or a registry the model is the one that is named, with  *)
(* everything it is asked for taken as supported.                           *)
Resolve(client, request) ==
  IF request.alias # "none" /\ client.hasRegistry THEN Registered(client.registry, request.alias)
  ELSE IF request.model = "none" THEN Throws("LlmConfigError")
  ELSE Returns([alias |-> request.model, provider |-> client.provider, model |-> request.model,
                protocol |-> IF request.protocol # "none" THEN request.protocol ELSE "responses",
                structured |-> TRUE, defaults |-> [s \in SettingNames |-> "none"]])

ProtocolOf(request, target) ==
  IF request.protocol # "none" THEN request.protocol ELSE target.protocol

(* The request's own setting, or the model's default.                       *)
Chosen(request, target, s) ==
  IF request.settings[s] # "none" THEN request.settings[s] ELSE target.defaults[s]

(* What is sent: the model, the settings that have a value and that the     *)
(* protocol knows, and over all of them what extra_body says. A text format *)
(* is not sent.                                                             *)
Sent(request, target) ==
  LET kept  == {s \in Settings[ProtocolOf(request, target)] :
                  LET v == Chosen(request, target, s)
                  IN  v # "none" /\ (s = "format" => v \in Formats)}
      built == [s \in kept \cup {"model"} |->
                  IF s = "model" THEN target.model ELSE Chosen(request, target, s)]
  IN  [s \in DOMAIN built \cup DOMAIN request.extra |->
         IF s \in DOMAIN request.extra THEN request.extra[s] ELSE built[s]]

(* What the provider does with what it is sent: it fails or answers with a  *)
(* content. The answer names the provider that was resolved; what was sent  *)
(* went to the client's own.                                                *)
Complete(client, request, reply) ==
  LET r == Resolve(client, request) IN
  IF Fails(r) THEN r
  ELSE IF ProtocolOf(request, r.value) \notin DOMAIN Settings THEN Throws("LlmConfigError")
  ELSE IF Chosen(request, r.value, "format") \in Formats /\ ~r.value.structured
       THEN Throws("LlmCapabilityError")
  ELSE IF reply.fails THEN Throws("LlmProviderError")
  ELSE Returns([content |-> reply.content, provider |-> r.value.provider, to |-> client.provider,
                sent |-> Sent(request, r.value)])

-----------------------------------------------------------------------------
(* A content is a set of one JSON object, or something else ({}).           *)

Parsed(content) ==
  IF content = {} THEN Throws("LlmResponseParseError")
  ELSE Returns(CHOOSE p \in content : TRUE)

(* A caller names its model, or an alias instead, and asks for an object.   *)
RequestOf(caller) ==
  [alias    |-> caller.alias,
   model    |-> IF caller.alias # "none" THEN "none" ELSE caller.model,
   protocol |-> caller.protocol,
   settings |-> [s \in SettingNames |->
                   IF s = "format" THEN "json_object"
                   ELSE IF s = "temperature" THEN "0" ELSE "none"],
   extra    |-> [s \in {} |-> "none"]]

(* A field of a payload is "absent", "null", "blank", "good" (what the      *)
(* prompt asks for) or "other" (of another type, or out of range).          *)
DecisionModes == {"PLAN", "RETURN", "REFUSE", "HUMAN"}

DecisionIsValid(p) ==
  /\ p.mode \in DecisionModes
  /\ p.content \in {"good", "blank"}
  /\ p.reason = "good"
  /\ p.confidence = "good"
  /\ p.metadata = "good"
  /\ p.goal \in {"null", "good", "blank"}
  /\ p.mode = "PLAN" => p.goal = "good"
  /\ p.mode # "PLAN" => p.content = "good"

(* LlmInteractionDecider.decide: its errors leave the node.                 *)
Decision(client, caller, reply) ==
  LET c == Complete(client, RequestOf(caller), reply) IN
  IF Fails(c) THEN c
  ELSE IF Fails(Parsed(c.value.content)) THEN Throws("InteractionDecisionParseError")
  ELSE LET p == Parsed(c.value.content).value IN
       IF "absent" \in {p[f] : f \in DOMAIN p} \/ ~DecisionIsValid(p)
       THEN Throws("InteractionDecisionValidationError")
       ELSE Returns(p.mode)

(* LlmPlanner.plan: no steps are an empty list; a step is "known" when its  *)
(* keys are those of PlanStep, what their values are is left to the         *)
(* validator.                                                               *)
DraftSteps(client, caller, reply) ==
  IF ~client.configured THEN Throws("PlanLlmClientNotConfiguredError")
  ELSE LET c == Complete(client, RequestOf(caller), reply) IN
       IF Fails(c) THEN c
       ELSE IF Fails(Parsed(c.value.content)) THEN Throws("PlanLlmOutputError")
       ELSE LET steps == Parsed(c.value.content).value.steps IN
            IF \A i \in DOMAIN steps : steps[i] = "known" THEN Returns(steps)
            ELSE Throws("PlanLlmOutputError")

(* LlmTaskChecker.check: an answer that cannot be read asks for a replan,   *)
(* and so does one without a route; a route is not compared with the        *)
(* allowed ones.                                                            *)
CheckedRoute(client, caller, reply) ==
  LET c == Complete(client, RequestOf(caller), reply) IN
  IF Fails(c) THEN c
  ELSE IF Fails(Parsed(c.value.content)) THEN Returns("replan")
  ELSE LET p == Parsed(c.value.content).value IN
       Returns(IF p.readable /\ p.route # "absent" THEN p.route ELSE "replan")
=============================================================================
