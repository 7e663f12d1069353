----------------------------- MODULE MCAgentLoop -----------------------------
(* A registry with one capability of each sort, and drafts with every kind  *)
(* of defect the validator and the preflight look for.                      *)
EXTENDS AgentLoop, ModelCalls

Capability(id, kind, placeholder, deprecated, needs, risk) ==
  [id |-> id, kind |-> kind, isPlaceholder |-> placeholder, isDeprecated |-> deprecated,
   defaultEnabled |-> ~placeholder, needs |-> needs, risk |-> risk]

MCRegistry ==
  {Capability("cmd",   "run_command",    FALSE, FALSE, {"command_controller"}, 2),
   Capability("probe", "execute_probe",  FALSE, TRUE,  {}, 1),
   Capability("text",  "parse_text",     TRUE,  FALSE, {}, 0),
   Capability("build", "build_image",    FALSE, FALSE, {}, 1)}

(* "build_image" is enabled and has no executor here.                       *)
MCStepKinds     == {"run_command", "execute_probe", "parse_text", "build_image"}
MCExecutorKinds == {"run_command", "execute_probe"}

Request(forbidden, off, placeholder, deprecated, risk) ==
  [context |-> {"command_controller"}, allowPlaceholder |-> placeholder, allowDeprecated |-> deprecated,
   forbidden |-> forbidden, flaggedOff |-> off, maxRisk |-> risk]

(* As the loop asks for it; everything allowed; something against each.     *)
MCRequests ==
  {Request({}, {}, FALSE, FALSE, 2), Request({}, {}, TRUE, TRUE, 2), Request({"probe"}, {"build"}, FALSE, TRUE, 1)}

Validator(strict, warnings, deprecated) ==
  [strict |-> strict, failOnWarning |-> warnings, allowDeprecated |-> deprecated,
   available |-> {"cmd", "probe", "text", "build"}, maxSteps |-> 2]

MCValidators == {Validator(FALSE, FALSE, FALSE), Validator(FALSE, FALSE, TRUE),
                 Validator(TRUE, FALSE, TRUE),   Validator(FALSE, TRUE, FALSE)}

OneStep(kind, fits, requires, action) ==
  [id |-> <<"a">>, kind |-> <<kind>>, deps |-> <<{}>>, inputsFit |-> <<fits>>,
   requires |-> <<requires>>, action |-> <<action>>, risk |-> <<"low">>,
   malformed |-> <<FALSE>>, onFailure |-> <<"request_replan">>]

TwoSteps(id, deps, risk, malformed, onFailure) ==
  [id |-> <<"a", id>>, kind |-> <<"run_command", "execute_probe">>, deps |-> <<{}, deps>>,
   inputsFit |-> <<TRUE, TRUE>>, requires |-> <<{"cmd"}, {"probe"}>>,
   action |-> <<"known", "none">>, risk |-> <<"low", risk>>,
   malformed |-> <<FALSE, malformed>>, onFailure |-> <<onFailure, "abort">>]

NoSteps == [f \in {"id", "kind", "deps", "inputsFit", "requires", "action", "risk",
                   "malformed", "onFailure"} |-> <<>>]

ThreeSteps ==
  [id |-> <<"a", "b", "c">>, kind |-> [i \in 1..3 |-> "execute_probe"], deps |-> [i \in 1..3 |-> {}],
   inputsFit |-> [i \in 1..3 |-> TRUE], requires |-> [i \in 1..3 |-> {"probe"}],
   action |-> [i \in 1..3 |-> "none"], risk |-> [i \in 1..3 |-> "low"],
   malformed |-> [i \in 1..3 |-> FALSE], onFailure |-> [i \in 1..3 |-> "abort"]]

MCDrafts ==
  {NoSteps, ThreeSteps}
  \cup {OneStep(k, fits, {c.id : c \in {d \in MCRegistry : d.kind = k}}, "none")
          : k \in MCStepKinds \cup {"other"}, fits \in BOOLEAN}
  \cup {OneStep("run_command", TRUE, r, a) : r \in {{}, {"cmd"}, {"probe"}}, a \in {"known", "unknown"}}
  \cup {TwoSteps(id, deps, "low", FALSE, p)
          : id \in {"a", "b"}, deps \in {{}, {"a"}, {"b"}, {"x"}}, p \in {"abort", "continue"}}
  \cup {TwoSteps("b", {"a"}, "high", m, "request_replan") : m \in BOOLEAN}

-----------------------------------------------------------------------------
(* The language model behind the loop: clients with and without a registry  *)
(* and every answer of its three callers.                                   *)

NoDefaults == [s \in SettingNames |-> "none"]

Model(alias, provider, protocol, structured) ==
  [alias |-> alias, provider |-> provider, model |-> "large", protocol |-> protocol,
   structured |-> structured, defaults |-> [NoDefaults EXCEPT !.max_tokens = "1000"]]

Directory ==
  [providers |-> {"main", "spare"},
   models    |-> {Model("good", "main", "chat_completions", TRUE), Model("far", "spare", "responses", TRUE),
                  Model("weak", "main", "responses", FALSE), Model("lost", "nowhere", "responses", TRUE)}]

Clients == [provider : {"main"}, configured : BOOLEAN, hasRegistry : BOOLEAN, registry : {Directory}]

Callers == [alias : {"none", "good", "far", "weak", "lost", "unknown"}, model : {"own"},
            protocol : {"none", "responses", "chat_completions", "other"}]

Answers(payloads) ==
  [fails : BOOLEAN, content : {{}} \cup {{p} : p \in payloads}]

DecisionPayloads ==
  [mode : DecisionModes \cup {"other", "absent"}, content : {"good", "blank", "other", "absent"},
   reason : {"good", "blank"}, confidence : {"good", "other"}, metadata : {"good", "absent"},
   goal : {"null", "good", "blank", "absent"}]
CheckPayloads == [readable : BOOLEAN, route : Routes \cup {"absent"}]

AnyClient == [provider |-> "main", configured |-> TRUE, hasRegistry |-> TRUE, registry |-> Directory]
AnyCaller == [alias |-> "good", model |-> "own", protocol |-> "none"]

(* The branches of the loop are those its callers of the model can take: a  *)
(* decider answers with each allowed mode and no other, a checker with      *)
(* each route, allowed or not, and both can raise.                          *)
ASSUME ModelDrivesTheLoop ==
  LET decisions == {Decision(AnyClient, AnyCaller, a) : a \in Answers(DecisionPayloads)}
      routes    == {CheckedRoute(AnyClient, AnyCaller, a) : a \in Answers(CheckPayloads)}
  IN  /\ {d.value : d \in {r \in decisions : ~Fails(r)}} = Modes \ {"other"}
      /\ {d.value : d \in {r \in routes : ~Fails(r)}} = Routes
      /\ \E r \in decisions : Fails(r)
      /\ \E r \in routes : Fails(r)

(* What reads no answer never ends the loop as a success: an answer that is *)
(* no object is an error to the decider and the planner, a replan to the    *)
(* checker, whatever the client.                                            *)
ASSUME GarbageIsNoSuccess ==
  \A client \in Clients, caller \in Callers :
    LET garbage == [fails |-> FALSE, content |-> {}] IN
    /\ Fails(Decision(client, caller, garbage))
    /\ Fails(DraftSteps(client, caller, garbage))
    /\ LET c == CheckedRoute(client, caller, garbage) IN Fails(c) \/ c.value = "replan"

(* A request for an object reaches a provider as one, or the call raises:   *)
(* under either protocol the answer was asked for in the format the parser  *)
(* needs, of the model the alias stands for.                                *)
ASSUME ObjectsAreAskedFor ==
  \A client \in Clients, caller \in Callers :
    LET c == Complete(client, RequestOf(caller), [fails |-> FALSE, content |-> {}]) IN
    ~Fails(c) =>
      /\ c.value.sent.format = "json_object"
      /\ c.value.sent.model = IF caller.alias = "none" THEN "own" ELSE "large"

(* Of the planner's steps the loop gets all or none.                        *)
ASSUME StepsArriveWhole ==
  \A steps \in UNION {[1..n -> {"known", "other"}] : n \in 0..2} :
    LET d == DraftSteps(AnyClient, AnyCaller, [fails |-> FALSE, content |-> {[steps |-> steps]}]) IN
    Fails(d) <=> "other" \in {steps[i] : i \in DOMAIN steps}
=============================================================================
