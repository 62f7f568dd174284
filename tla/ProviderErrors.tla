--------------------------- MODULE ProviderErrors ---------------------------
(***************************************************************************)
(* The classes of exceptions.py, by what route() does when a call raises    *)
(* one of them: try the model again, leave the provider alone for the rest  *)
(* of the job, or go on to the next model.                                  *)
(***************************************************************************)
TransientErrors == {"ProviderTimeoutError", "TransientProviderError"}
ProviderWideErrors == {"ProviderAuthenticationError", "ProviderQuotaExceededError",
                       "ProviderRateLimitError"}
ErrorTypes == TransientErrors \cup ProviderWideErrors \cup {"ProviderPermanentError"}
=============================================================================
