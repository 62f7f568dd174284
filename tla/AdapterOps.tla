----------------------------- MODULE AdapterOps -----------------------------
(***************************************************************************)
(* What an adapter's generate makes of the answer of a provider             *)
(* (openai_compatible.py, gemini.py, http_errors.py): a response, or the    *)
(* error that route() acts on, with the delay that the provider asked for.  *)
(*                                                                         *)
(* An answer is a record of what the decision depends on:                   *)
(*   status      the HTTP status                                            *)
(*   billing     the body speaks of quota, credit, balance or billing       *)
(*   retryAfter  the number in Retry-After; NoDelay when there is no header,*)
(*               or not a number in it (a date, for instance)               *)
(*   body        "content": what the adapter looks for is there             *)
(*               "empty":   it is there, but its text is null               *)
(*               "other":   JSON of another shape, a blocked prompt included*)
(*               "broken":  no JSON, or usage that is not numbers           *)
(***************************************************************************)
EXTENDS ProviderErrors, Integers

CONSTANTS
    NoDelay,   \* no usable Retry-After
    Silence,   \* no answer within the timeout
    Cut        \* the connection cannot be made, or breaks

ASSUME AnswerAssumption == NoDelay \notin Int

Bodies == {"content", "empty", "other", "broken"}

Success == [type |-> "success", retryAfter |-> NoDelay]
Raised(type) == [type |-> type, retryAfter |-> NoDelay]

\* retry_after: not below zero; there is no upper end.
RetryAfter(answer) ==
    IF answer.retryAfter = NoDelay THEN NoDelay
    ELSE IF answer.retryAfter < 0 THEN 0 ELSE answer.retryAfter

RaisedWithDelay(type, answer) == [type |-> type, retryAfter |-> RetryAfter(answer)]

\* raise_for_provider_status; Success when it raises nothing.
RaiseForProviderStatus(answer) ==
    CASE answer.status \in {401, 403} -> Raised("ProviderAuthenticationError")
      [] answer.status = 429 ->
             RaisedWithDelay(IF answer.billing THEN "ProviderQuotaExceededError"
                                               ELSE "ProviderRateLimitError", answer)
      [] answer.status \in {408, 409, 425} \/ answer.status >= 500 ->
             RaisedWithDelay("TransientProviderError", answer)
      [] answer.status \in 400 .. 499 \ {401, 403, 408, 409, 425, 429} ->
             Raised("ProviderPermanentError")
      [] OTHER -> Success

\* The OpenAI adapter makes the text "None" of a null; Gemini cannot join it.
Readable(adapter, body) ==
    \/ body = "content"
    \/ body = "empty" /\ adapter = "openai_compatible"

\* Whatever else goes wrong with the answer, in the adapter or as an exception that
\* route() wraps, is transient.
Generate(adapter, answer) ==
    IF answer = Silence THEN Raised("ProviderTimeoutError")
    ELSE IF answer = Cut THEN Raised("TransientProviderError")
    ELSE LET raised == RaiseForProviderStatus(answer)
         IN  IF raised # Success \/ Readable(adapter, answer.body) THEN raised
             ELSE Raised("TransientProviderError")

\* _headers: whether a request can be sent at all; the adapter raises an
\* authentication error when not.
HasCredentials(provider, keys) ==
    IF provider.keyNames = {} THEN provider.adapter = "openai_compatible"
                              ELSE provider.keyNames \cap keys # {}
=============================================================================
