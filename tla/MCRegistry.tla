----------------------------- MODULE MCRegistry -----------------------------
(***************************************************************************)
(* Registry for TLC: every table of three models whose tier, priority,      *)
(* place and approval vary freely.  The first does both tasks, the others   *)
(* one each.                                                                *)
(***************************************************************************)
EXTENDS Registry, SequencesExt

Places == {[local |-> TRUE,  approved |-> FALSE, provider |-> "ollama"],
           [local |-> FALSE, approved |-> TRUE,  provider |-> "groq"],
           [local |-> FALSE, approved |-> FALSE, provider |-> "groq"]}

\* The model that is cheap per input token is dear per output token.
Entries(id) ==
    { [id |-> id, enabled |-> TRUE, tier |-> tier, priority |-> priority,
       price |-> [input |-> id, output |-> 3 - id],
       local |-> place.local, approved |-> place.approved, provider |-> place.provider,
       capabilities |-> CASE id = 1 -> {"debugging", "architecture"}
                             [] id = 2 -> {"debugging"}
                             [] id = 3 -> {"architecture"}] :
      tier \in {"cheap", "premium"}, priority \in {1, 2}, place \in Places }

\* A disabled model without a fault is always there as well.
Disabled == [id |-> 4, enabled |-> FALSE, tier |-> "free", priority |-> 1,
             price |-> [input |-> 0, output |-> 0], local |-> TRUE, approved |-> TRUE,
             provider |-> "ollama", capabilities |-> {"debugging", "architecture"}]

SmallCatalogs == { {a, b, c, Disabled} : a \in Entries(1), b \in Entries(2), c \in Entries(3) }

SmallProviderSets == {{"ollama", "groq"}, {"ollama"}, {"groq"}}

Made(through, given) == [through |-> through, given |-> given]

\* Everything is stated, or next to nothing.
SmallCalls ==
    { Made("run", [task |-> task, required |-> required, privacy |-> privacy,
                   premium |-> premium, input |-> 1, output |-> 3]) :
      task \in {"debugging", "architecture"}, required \in {{}, {"architecture"}},
      privacy \in PrivacyModes, premium \in BOOLEAN }
    \cup { Made(through, [task |-> "debugging"]) : through \in {"route", "run", "task", "api"} }
    \cup { Made("task", [task |-> "architecture", proprietary |-> FALSE]),
            Made("api", [task |-> "debugging", privacy |-> "proprietary"]) }

\* The order of sorted() and the filter of _candidate_models are the library's.
ASSUME OrderIsStandard ==
    \A models \in { c \in SmallCatalogs : \A m \in c : m.priority = 1 },
       c \in SmallCalls, providers \in SmallProviderSets :
        LET req == RequestOf(c)
            inOrder == SetToSortSeq(Willing(models, req), LAMBDA a, b :
                           TupleLess(SortKey(a, req), SortKey(b, req)))
        IN  /\ Eligible(models, req) = inOrder
            /\ CandidateModels(models, providers, req) =
                   SelectSeq(inOrder, LAMBDA model : model.provider \in providers)
=============================================================================
