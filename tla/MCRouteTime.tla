----------------------------- MODULE MCRouteTime -----------------------------
(***************************************************************************)
(* RouteTime for TLC: the cloud profile, in units of five seconds, and one  *)
(* with retries, in units of a twentieth of a second but for its timeouts.  *)
(***************************************************************************)
EXTENDS RouteTime

Offer(provider, timeout, maxRetries) ==
    [provider |-> provider, timeout |-> timeout, maxRetries |-> maxRetries]

Service(adapter, keyNames) == [adapter |-> adapter, keyNames |-> keyNames]

\* The free models of config/router.cloud.toml; Groq has no credential.
CloudProfile ==
    [candidates  |-> << Offer("openrouter", 4, 0), Offer("gemini", 4, 0),
                        Offer("groq", 3, 0), Offer("cerebras", 3, 0),
                        Offer("nvidia", 3, 0) >>,
     providers   |-> [openrouter |-> Service("openai_compatible", {"OPENROUTER_API_KEY"}),
                      gemini     |-> Service("gemini", {"GEMINI_API_KEY"}),
                      groq       |-> Service("openai_compatible", {"GROQ_API_KEY"}),
                      cerebras   |-> Service("openai_compatible", {"CEREBRAS_API_KEY"}),
                      nvidia     |-> Service("openai_compatible", {"NVIDIA_API_KEY"})],
     keys        |-> {"OPENROUTER_API_KEY", "GEMINI_API_KEY", "CEREBRAS_API_KEY",
                      "NVIDIA_API_KEY"},
     backoffBase |-> 0, backoffMax |-> 0]

\* Two models of a local server without a key, one of Gemini; the second backoff is
\* cut to the longest one.
RetryProfile ==
    [candidates  |-> << Offer("ollama", 2, 2), Offer("gemini", 2, 1),
                        Offer("ollama", 1, 0) >>,
     providers   |-> [ollama |-> Service("openai_compatible", {}),
                      gemini |-> Service("gemini", {"GEMINI_API_KEY"})],
     keys        |-> {"GEMINI_API_KEY"},
     backoffBase |-> 5, backoffMax |-> 8]

BothProfiles == {CloudProfile, RetryProfile}

Reply(status, billing, retryAfter, body) ==
    [status |-> status, billing |-> billing, retryAfter |-> retryAfter, body |-> body]

\* One answer of each kind that is treated differently.
EachAnswer ==
    { Reply(200, FALSE, NoDelay, body) : body \in {"content", "empty", "broken"} }
    \cup {Reply(404, FALSE, 9, "other"), Reply(403, TRUE, 9, "other"),
          Reply(409, FALSE, NoDelay, "other"), Reply(429, TRUE, 9, "other"),
          Reply(503, FALSE, 9, "other"), Reply(503, FALSE, -1, "broken")}

\* Every error route() distinguishes comes out of the adapters.
ASSUME EveryErrorIsRaised ==
    { Generate("gemini", answer).type :
        answer \in EachAnswer \cup {Silence, Cut, Reply(429, FALSE, 9, "other")} }
    = ErrorTypes \cup {"success"}
=============================================================================
