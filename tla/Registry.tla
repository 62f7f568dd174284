------------------------------ MODULE Registry ------------------------------
(***************************************************************************)
(* The candidates of one request after another under one configuration:     *)
(* the registry keeps no state but its models, so what matters is how the   *)
(* answers to different requests relate.                                    *)
(***************************************************************************)
EXTENDS RegistryOps, Functions

CONSTANTS
    Catalogs,       \* the model tables an operator may configure
    ProviderSets,   \* the sets of enabled providers
    Calls           \* the calls that are made: see RegistryOps

\* A row of the table, and a call, have the types that ModelConfig and RouterRequest
\* declare.  (Nothing bounds priorities, prices and estimates.)
IsModel(model) ==
    /\ model.id \in Int /\ model.priority \in Int /\ model.tier \in Tiers
    /\ model.price.input \in Int /\ model.price.output \in Int

FieldTypes ==
    [task |-> STRING, required |-> SUBSET STRING, privacy |-> PrivacyModes,
     premium |-> BOOLEAN, input |-> Int, output |-> Int, proprietary |-> BOOLEAN]

IsCall(c) ==
    /\ c.through \in {"route", "run", "task", "api"}
    /\ "task" \in DOMAIN c.given /\ DOMAIN c.given \subseteq DOMAIN FieldTypes
    /\ \A field \in DOMAIN c.given : c.given[field] \in FieldTypes[field]

ASSUME RegistryAssumption ==
    /\ \A models \in Catalogs :
           /\ IsFiniteSet(models)
           /\ \A model \in models : IsModel(model)
           \* ModelRegistry refuses a table with two models of one id.
           /\ \A a, b \in models : a.id = b.id => a = b
    /\ \A c \in Calls : IsCall(c)

VARIABLES
    catalog,           \* the configured models
    enabledProviders,  \* the providers with enabled = true
    call,              \* the last call
    candidates         \* what it was offered, in order

registryVars == << catalog, enabledProviders, call, candidates >>

request == RequestOf(call)

RegistryInit ==
    /\ catalog \in Catalogs
    /\ enabledProviders \in ProviderSets
    /\ call \in Calls
    /\ candidates = CandidateModels(catalog, enabledProviders, request)

Ask(next) ==
    /\ call' = next
    /\ candidates' = CandidateModels(catalog, enabledProviders, RequestOf(next))
    /\ UNCHANGED << catalog, enabledProviders >>

RegistryNext == \E next \in Calls : Ask(next)

RegistrySpec == RegistryInit /\ [][RegistryNext]_registryVars

-----------------------------------------------------------------------------
(* Properties.                                                              *)

\* The caller has said that anybody may see the code.
Released ==
    \/ /\ call.through = "task"
       /\ "proprietary" \in DOMAIN call.given /\ ~ call.given.proprietary
    \/ /\ call.through # "task" /\ "privacy" \in DOMAIN call.given
       /\ call.given.privacy = "public"
    \/ /\ call.through \in {"route", "api"} /\ "privacy" \notin DOMAIN call.given

\* Code of a LOCAL_ONLY job stays on local models, other code that was not released
\* on those and the ones an operator approved, whatever the rest of the table looks
\* like: the facade, unlike the API, takes code for proprietary unless it is told.
\* A disabled model or provider gets no code at all.
PrivacyFailsClosed ==
    \A i \in 1 .. Len(candidates) :
        /\ candidates[i].enabled /\ candidates[i].provider \in enabledProviders
        /\ ~ candidates[i].local => request.privacy # "local_only"
        /\ ~ candidates[i].local /\ ~ candidates[i].approved => Released

\* A premium model is a fallback: it comes after every candidate that is not
\* premium, however the operator set the priorities, and only when allowed.
PremiumLast ==
    \A i, k \in 1 .. Len(candidates) :
        candidates[i].tier = "premium" =>
            /\ request.premium
            /\ k > i => candidates[k].tier = "premium"

\* Nobody is forgotten or offered twice: a model is left out only for a reason.
NobodyForgotten ==
    /\ IsInjective(candidates)
    /\ \A model \in catalog : model \notin { candidates[i] : i \in 1 .. Len(candidates) } =>
           \/ ~ model.enabled \/ model.provider \notin enabledProviders
           \/ request.task \notin model.capabilities
           \/ \E capability \in request.required : capability \notin model.capabilities
           \/ model.tier = "premium" /\ ~ request.premium
           \/ ~ model.local /\ request.privacy = "local_only"
           \/ ~ model.local /\ ~ model.approved /\ request.privacy = "proprietary"

Strictness == [public |-> 0, proprietary |-> 1, local_only |-> 2]

\* Request a asks for everything request b asks for, with estimates as large.
AtLeastAsStrict(a, b) ==
    /\ a.task = b.task /\ b.required \subseteq a.required
    /\ Strictness[a.privacy] >= Strictness[b.privacy]
    /\ a.premium => b.premium
    /\ a.input = b.input /\ a.output = b.output

\* Tightening a request (privacy, capabilities, premium) only removes candidates:
\* the rest are offered in the order they had.
TighteningOnlyRemoves ==
    [][AtLeastAsStrict(request', request) =>
           /\ \A model \in Range(candidates') : model \in Range(candidates)
           /\ \A m, n \in 1 .. Len(candidates') : m < n =>
                  \E i, k \in 1 .. Len(candidates) :
                      i < k /\ candidates[i] = candidates'[m] /\ candidates[k] = candidates'[n]
      ]_registryVars
=============================================================================
