------------------------------ MODULE MCRouter ------------------------------
(***************************************************************************)
(* Router for TLC: three jobs and three models of two providers, chosen by    *)
(* the registry from a small catalog.                                       *)
(***************************************************************************)
EXTENDS Router, RegistryOps

CONSTANTS Alice, Bob, Carol   \* the jobs

SmallJobs == {Alice, Bob, Carol}
SmallModels == {1, 2, 3}
SmallProviders == {"local", "cloud"}

\* A catalog in the order of a configuration file, not of the candidates: the
\* cheap model of the cloud, its premium model, the free local one.
Entry(id, provider, tier, price) ==
    [id |-> id, provider |-> provider, tier |-> tier, price |-> price,
     priority |-> 1, enabled |-> TRUE, local |-> provider = "local",
     approved |-> FALSE,
     capabilities |-> IF provider = "local" THEN {"debugging"}
                                            ELSE {"debugging", "architecture"}]

Catalog == {Entry(1, "cloud", "cheap",   [input |-> 1, output |-> 1]),
            Entry(2, "cloud", "premium", [input |-> 2, output |-> 2]),
            Entry(3, "local", "free",    [input |-> 0, output |-> 0])}

EntryOf(m) == CHOOSE entry \in Catalog : entry.id = m

CatalogProvider == [m \in SmallModels |-> EntryOf(m).provider]
CatalogPrice == [m \in SmallModels |-> EntryOf(m).price]

Query == [task |-> "debugging", required |-> {}, premium |-> TRUE,
          privacy |-> "public", input |-> 1, output |-> 1]

SmallRequest == [j \in SmallJobs |-> [input |-> 1, output |-> 1]]

CandidateIds(request) ==
    LET models == CandidateModels(Catalog, SmallProviders, request)
    IN  [i \in 1 .. Len(models) |-> models[i].id]

\* Alice may use every model; Bob's task is beyond the local one; Carol's code
\* may not leave the house, and nothing there can do her task.
SmallCandidates == (Alice :> << 3, 1, 2 >>) @@ (Bob :> << 1, 2 >>) @@ (Carol :> << >>)

\* The lists are what the registry chooses (TLC is much faster with the values).
ASSUME RegistryChooses ==
    LET architecture == [Query EXCEPT !.required = {"architecture"}]
        private == [architecture EXCEPT !.privacy = "local_only"]
    IN  /\ CandidateIds(Query) = << 3, 1, 2 >>
        /\ CandidateIds(architecture) = << 1, 2 >>
        /\ CandidateIds(private) = << >>

Unlimited == [requestsPerMinute |-> NoLimit, requestsPerDay |-> NoLimit,
              tokensPerMinute |-> NoLimit, tokensPerDay |-> NoLimit,
              dailyCost |-> NoLimit]

\* One call a day to the cheap model, a dollar limit on the premium one, one
\* call a minute to the local one: its retry may find nothing left.
SmallLimits == << [Unlimited EXCEPT !.requestsPerDay = 1],
                  [Unlimited EXCEPT !.dailyCost = 6],
                  [Unlimited EXCEPT !.requestsPerMinute = 1] >>

\* The local model answers two calls a day: its second retry finds nothing left.
TwoCallLimits == << [Unlimited EXCEPT !.requestsPerDay = 1],
                    [Unlimited EXCEPT !.dailyCost = 6],
                    [Unlimited EXCEPT !.requestsPerDay = 2] >>

OneRetry == [m \in SmallModels |-> IF m = 3 THEN 1 ELSE 0]
TwoRetries == [m \in SmallModels |-> IF m = 3 THEN 2 ELSE 0]

\* One error of each kind route treats differently.
EachKind == {"ProviderTimeoutError", "ProviderRateLimitError", "ProviderPermanentError"}

OneUsage == {[tokens |-> 3, cost |-> 1]}

\* Less, and more, than the estimate.
AnyUsage == {[tokens |-> 1, cost |-> 1], [tokens |-> 3, cost |-> 2]}
=============================================================================
