------------------------------ MODULE CloudApi ------------------------------
(***************************************************************************)
(* One process of the cloud API (cloud_api.py, config.py) from its start:   *)
(* requests to /v1/route that present a key, get the cached service or      *)
(* build it, and are routed.                                                *)
(*                                                                         *)
(* FastAPI runs the two synchronous dependencies in a pool of threads, the  *)
(* key first, and validates the body behind them; the handler runs in the   *)
(* event loop.  route() (Router is about it) is reduced to the calls that   *)
(* the quotas of its router still admit.  A service is known by the request *)
(* that built it.                                                           *)
(***************************************************************************)
EXTENDS Integers, FiniteSets

CONSTANTS
    Requests,      \* requests to /v1/route
    Header,        \* the Authorization header of each: [bearer, supplied]
    Asks,          \* the body of each: "invalid", "ineligible" or "eligible"
    Threads,       \* size of the thread pool
    Capacity,      \* calls that the quotas of one router admit in a day
    Configs,       \* configuration files: [providers, models], see Buildable
    AccessKeys,    \* values of ROUTER_ACCESS_KEY; Unset is one of them
    Unset,         \* the variable is missing or empty, so is a key
    BetaKey,       \* the key whose hash is in the source
    None           \* no service

ASSUME CloudAssumption ==
    /\ IsFiniteSet(Requests)
    /\ Threads \in Nat
    /\ Capacity \in Nat
    /\ None \notin Requests
    /\ BetaKey # Unset

VARIABLES
    config,     \* the configuration file
    accessKey,  \* ROUTER_ACCESS_KEY
    phase,      \* how far each request is, or its HTTP status
    service,    \* the service each request was given
    cache,      \* what get_ai_service has cached
    routers,    \* the services that were built
    used,       \* calls charged to the quotas of each of them
    callers     \* history: the requests for which a provider was called

vars == << config, accessKey, phase, service, cache, routers, used, callers >>
deployment == << config, accessKey >>

Refusals == {"401", "422", "500"}
Phases == {"sent", "admitted", "building", "ready", "calling", "200", "503"} \cup Refusals

-----------------------------------------------------------------------------
(* What a request presents, and what a configuration must have.             *)

\* Faulty variant: an unset key compares like any other.
ValidKeyUnset(r, key) ==
    Header[r].bearer /\ Header[r].supplied \in {key, BetaKey}

\* require_access_key lets the request through.
ValidKey(r, key) ==
    /\ Header[r].bearer
    /\ \/ key # Unset /\ Header[r].supplied = key
       \/ Header[r].supplied = BetaKey

\* _validate_config, build_router and ModelRouter raise nothing.  providers maps
\* ids to adapters, models to provider ids.
Buildable(file) ==
    /\ DOMAIN file.providers # {}
    /\ DOMAIN file.models # {}
    /\ \A m \in DOMAIN file.models : file.models[m] \in DOMAIN file.providers
    /\ \A p \in DOMAIN file.providers : file.providers[p] \in {"openai_compatible", "gemini"}

Building == { r \in Requests : phase[r] = "building" }

FreeThread == Cardinality(Building) < Threads

Go(r, next) == phase' = [phase EXCEPT ![r] = next]

-----------------------------------------------------------------------------
Init ==
    /\ config \in Configs
    /\ accessKey \in AccessKeys
    /\ phase = [r \in Requests |-> "sent"]
    /\ service = [r \in Requests |-> None]
    /\ cache = None
    /\ routers = {}
    /\ used = [r \in Requests |-> 0]
    /\ callers = {}

Authenticate(r) ==
    /\ phase[r] = "sent"
    /\ FreeThread
    /\ Go(r, IF ValidKey(r, accessKey) THEN "admitted" ELSE "401")
    /\ UNCHANGED << deployment, service, cache, routers, used, callers >>

\* get_ai_service: a miss builds a service in this thread, without a lock.
LookUp(r) ==
    /\ phase[r] = "admitted"
    /\ FreeThread
    /\ IF cache = None
       THEN Go(r, "building") /\ UNCHANGED service
       ELSE Go(r, "ready") /\ service' = [service EXCEPT ![r] = cache]
    /\ UNCHANGED << deployment, cache, routers, used, callers >>

\* Faulty variants: the last one to be built is kept; none is.
BuildReplaces(r) ==
    /\ phase[r] = "building" /\ Buildable(config)
    /\ Go(r, "ready")
    /\ service' = [service EXCEPT ![r] = r]
    /\ cache' = r
    /\ routers' = routers \cup {r}
    /\ UNCHANGED << deployment, used, callers >>

BuildForgets(r) ==
    /\ phase[r] = "building" /\ Buildable(config)
    /\ Go(r, "ready")
    /\ service' = [service EXCEPT ![r] = r]
    /\ routers' = routers \cup {r}
    /\ UNCHANGED << deployment, cache, used, callers >>

\* The request goes on with the service it has built; the first one stays cached.
Build(r) ==
    /\ phase[r] = "building"
    /\ Buildable(config)
    /\ Go(r, "ready")
    /\ service' = [service EXCEPT ![r] = r]
    /\ cache' = IF cache = None THEN r ELSE cache
    /\ routers' = routers \cup {r}
    /\ UNCHANGED << deployment, used, callers >>

\* The configuration cannot be used or, now, not be read.  Nothing is cached.
BuildFails(r) ==
    /\ phase[r] = "building"
    /\ Go(r, "500")
    /\ UNCHANGED << deployment, service, cache, routers, used, callers >>

\* A call is reserved and sent.
Call(r) ==
    /\ used[service[r]] < Capacity
    /\ Go(r, "calling")
    /\ used' = [used EXCEPT ![service[r]] = @ + 1]
    /\ callers' = callers \cup {r}

GiveUp(r) == Go(r, "503") /\ UNCHANGED << used, callers >>

\* The body is validated, the handler asks for the candidates, and route() makes a
\* first call or finds no candidate that it may call.
Route(r) ==
    /\ phase[r] = "ready"
    /\ IF Asks[r] # "eligible" THEN Go(r, "422") /\ UNCHANGED << used, callers >>
       ELSE Call(r) \/ GiveUp(r)
    /\ UNCHANGED << deployment, service, cache, routers >>

\* A call ends with an answer, or with an error after which route() calls again
\* or gives up.
CallEnds(r) ==
    /\ phase[r] = "calling"
    /\ \/ Go(r, "200") /\ UNCHANGED << used, callers >>
       \/ Call(r)
       \/ GiveUp(r)
    /\ UNCHANGED << deployment, service, cache, routers >>

Step(r) ==
    \/ Authenticate(r) \/ LookUp(r) \/ Build(r) \/ BuildFails(r) \/ Route(r) \/ CallEnds(r)

Next == \E r \in Requests : Step(r)

Spec == Init /\ [][Next]_vars

-----------------------------------------------------------------------------
(* Properties.                                                              *)

\* Every variable has its type.
TypeOK ==
    /\ config \in Configs
    /\ accessKey \in AccessKeys
    /\ phase \in [Requests -> Phases]
    /\ service \in [Requests -> Requests \cup {None}]
    /\ cache \in Requests \cup {None}
    /\ routers \in SUBSET Requests
    /\ used \in [Requests -> Nat]
    /\ callers \in SUBSET Requests

\* Requests that arrive before the first service is ready may each build one, with
\* quotas of its own, so the limits of the configuration hold per router and not
\* per process.  The excess ends with the cold start: there are no more routers than
\* threads, each keeps to its capacity, and a request that did not build a service
\* itself uses the one that stays cached.
OverrunBound ==
    /\ Cardinality(routers) <= Threads
    /\ \A s \in routers : used[s] <= Capacity
    /\ \A r \in Requests : service[r] # None =>
           /\ service[r] = r \/ service[r] = cache
           /\ service[r] \in routers /\ cache \in routers

\* Whoever builds a service or causes a call presented a key that is configured, and
\* a request that is refused (401, 422, 500) costs nobody quota: a call is made only
\* for a request that is being served, was answered or got 503.
RefusedForFree ==
    /\ \A r \in routers \cup callers :
           /\ Header[r].bearer
           /\ Header[r].supplied \in {accessKey, BetaKey} \ {Unset}
    /\ \A r \in Requests :
           /\ phase[r] \in Refusals => r \notin callers
           /\ phase[r] \in {"calling", "200"} => r \in callers
=============================================================================
