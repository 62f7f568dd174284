----------------------------- MODULE MCCloudApi -----------------------------
(***************************************************************************)
(* CloudApi for TLC: five requests, three of which can be served, and       *)
(* configurations with one fault each beside a good one.                    *)
(***************************************************************************)
EXTENDS CloudApi, TLC

Names == {"ann", "ben", "cyd", "dan", "eve"}

Presented(bearer, supplied) == [bearer |-> bearer, supplied |-> supplied]

\* Eve's key is empty; Dan's body is wrong.
SmallHeader ==
    [ann |-> Presented(TRUE, "primary"), ben |-> Presented(TRUE, "beta"),
     cyd |-> Presented(TRUE, "beta"),    dan |-> Presented(TRUE, "beta"),
     eve |-> Presented(TRUE, "")]

SmallAsks ==
    [ann |-> "eligible", ben |-> "eligible", cyd |-> "eligible", dan |-> "invalid",
     eve |-> "ineligible"]

File(providers, models) == [providers |-> providers, models |-> models]

GoodFile == File([groq |-> "openai_compatible", gemini |-> "gemini"], << "gemini", "groq" >>)

SmallConfigs ==
    {GoodFile,
     File([p \in {} |-> "gemini"], << "groq" >>), File([groq |-> "gemini"], << >>),
     File([groq |-> "gemini"], << "ollama" >>), File([groq |-> "fake"], << "groq" >>)}

\* The configuration that can be built is the good one.
ASSUME OneIsBuildable == { file \in SmallConfigs : Buildable(file) } = {GoodFile}
=============================================================================
