---------------------------- MODULE RegistryOps ----------------------------
(***************************************************************************)
(* Which models may serve a request and in which order they are tried:      *)
(* ModelRegistry.eligible (registry.py) and ModelRouter._candidate_models.  *)
(* A model is a record with the fields of ModelConfig the choice depends on;*)
(* ids are numbers here, compared the way the code compares strings.        *)
(***************************************************************************)
EXTENDS Integers, Sequences, FiniteSets

Tiers == {"free", "cheap", "standard", "premium"}
PrivacyModes == {"public", "proprietary", "local_only"}

Rank == [free |-> 0, cheap |-> 1, standard |-> 2, premium |-> 3]

RequiredCapabilities(request) == {request.task} \cup request.required

\* Faulty variants, for mutation: a model that an operator has approved counts as
\* local; proprietary code needs a local model that is approved as well; the first
\* capability found is enough.
PrivacyAllowsApproved(model, privacy) ==
    privacy \in {"local_only", "proprietary"} => model.local \/ model.approved

PrivacyAllowsBoth(model, privacy) ==
    CASE privacy = "local_only"  -> model.local
      [] privacy = "proprietary" -> model.local /\ model.approved
      [] privacy = "public"      -> TRUE

MayServeSome(model, request) ==
    /\ model.enabled
    /\ RequiredCapabilities(request) \cap model.capabilities # {}

PrivacyAllows(model, privacy) ==
    CASE privacy = "local_only"  -> model.local
      [] privacy = "proprietary" -> model.local \/ model.approved
      [] privacy = "public"      -> TRUE

MayServe(model, request) ==
    /\ model.enabled
    /\ RequiredCapabilities(request) \subseteq model.capabilities
    /\ model.tier = "premium" => request.premium
    /\ PrivacyAllows(model, request.privacy)

\* (Unlike try_reserve, the sort does not clamp negative estimates.)
ExpectedCost(model, request) ==
    request.input * model.price.input + request.output * model.price.output

SortKey(model, request) ==
    << Rank[model.tier], model.priority, ExpectedCost(model, request), model.id >>

\* Python's comparison of tuples of equal length.
TupleLess(a, b) ==
    \E i \in DOMAIN a : a[i] < b[i] /\ \A k \in 1 .. i - 1 : a[k] = b[k]

\* sorted(..., key=...): the domain of key in the order of the keys.  Where they are
\* distinct, as here, there is one such order.
SortedBy(key) ==
    CHOOSE s \in [1 .. Cardinality(DOMAIN key) -> DOMAIN key] :
        \A i, k \in DOMAIN s : i < k => TupleLess(key[s[i]], key[s[k]])

Willing(models, request) == { model \in models : MayServe(model, request) }

\* Faulty variant: priority before tier.
EligibleByPriority(models, request) ==
    SortedBy([model \in Willing(models, request) |->
                 << model.priority, Rank[model.tier], ExpectedCost(model, request), model.id >>])

Eligible(models, request) ==
    SortedBy([model \in Willing(models, request) |-> SortKey(model, request)])

\* The elements of s in the set `keep', in the order they have in s.
Only(s, keep) ==
    LET places == SortedBy([i \in { k \in DOMAIN s : s[k] \in keep } |-> << i >>])
    IN  [i \in DOMAIN places |-> s[places[i]]]

\* enabledProviders: the providers with enabled = true in the configuration.
CandidateModels(models, enabledProviders, request) ==
    Only(Eligible(models, request),
         { model \in models : model.provider \in enabledProviders })
-----------------------------------------------------------------------------
(* How a request comes about.  A call is made through route() itself, run() *)
(* or a task method of the facade (service.py), or the API; given has the   *)
(* fields its caller states.                                                *)

RouterDefaults == [privacy |-> "public", premium |-> TRUE, required |-> {},
                   input |-> 2000, output |-> 2000]
FacadeDefaults == [RouterDefaults EXCEPT !.privacy = "proprietary"]
ApiDefaults == [RouterDefaults EXCEPT !.premium = FALSE]

\* analyze_code, refactor, generate_tests, design_architecture and debug, with
\* proprietary = True by default.
TaskMethod(given) ==
    [task |-> given.task,
     privacy |-> IF "proprietary" \in DOMAIN given /\ ~ given.proprietary
                 THEN "public" ELSE "proprietary"]

\* What the caller states, and a default for every other field.
WithDefaults(given, defaults) ==
    [field \in DOMAIN given \cup DOMAIN defaults |->
        IF field \in DOMAIN given THEN given[field] ELSE defaults[field]]

\* Faulty variant: the defaults of the router are the facade's.
RequestAsRouted(call) ==
    WithDefaults(IF call.through = "task" THEN TaskMethod(call.given) ELSE call.given,
                 IF call.through = "api" THEN ApiDefaults ELSE RouterDefaults)

RequestOf(call) ==
    CASE call.through = "route" -> WithDefaults(call.given, RouterDefaults)
      [] call.through = "run"   -> WithDefaults(call.given, FacadeDefaults)
      [] call.through = "task"  -> WithDefaults(TaskMethod(call.given), FacadeDefaults)
      [] call.through = "api"   -> WithDefaults(call.given, ApiDefaults)
=============================================================================
