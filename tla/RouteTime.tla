------------------------------ MODULE RouteTime ------------------------------
(***************************************************************************)
(* One route() call in time: how long its calls and sleeps take, what the   *)
(* adapters make of the answers, and the deadlines of those who wait for it.*)
(*                                                                         *)
(* Time jumps from the end of one call or sleep to the end of the next.  The*)
(* quotas and circuits that route() asks on the way (Router is about them)  *)
(* may skip any candidate and refuse any retry.                             *)
(***************************************************************************)
EXTENDS AdapterOps, Sequences, Functions

CONSTANTS
    Profiles,           \* configurations: see below
    Cloud,              \* the one of them that the cloud API runs with
    Answers,            \* what a provider may answer
    Delays,             \* bound: how long a call takes that does not run out of time
    Arrivals,           \* bound: how long a request takes to reach route()
    BrowserDeadline,    \* the 110 seconds of the page
    FunctionDeadline,   \* maxDuration of vercel.json
    NoPause             \* nothing was repeated yet

greatest(S) == CHOOSE x \in S : \A y \in S : y <= x

\* candidates: in order, each with its provider, timeout and max_retries.
\* keys: the variables with a credential in the environment.
ASSUME RouteTimeAssumption ==
    /\ Cloud \in Profiles
    /\ Delays \subseteq Nat /\ Arrivals \subseteq Nat
    /\ \E longest \in Arrivals : \A arrival \in Arrivals : arrival <= longest
    /\ \A answer \in Answers :
           answer.status \in Int /\ answer.retryAfter \in Int \cup {NoDelay}
    /\ \A p \in Profiles :
           /\ {p.backoffBase, p.backoffMax} \subseteq Nat
           /\ p.candidates \in Seq([provider : STRING, timeout : Nat \ {0}, maxRetries : Int])

\* config/router.cloud.toml: a model is called once, and the timeouts of all of them
\* leave room below both deadlines.
ASSUME CloudBudgetAssumption ==
    LET offers == Cloud.candidates
        spent == greatest(Arrivals)
                     + SumFunction([i \in 1 .. Len(offers) |-> offers[i].timeout])
    IN  /\ \A i \in 1 .. Len(offers) : offers[i].maxRetries <= 0
        /\ {BrowserDeadline, FunctionDeadline} \subseteq Nat
        /\ spent < BrowserDeadline /\ spent < FunctionDeadline

VARIABLES
    profile,    \* the configuration
    clock,      \* time since the page sent the request
    job,        \* the locals of route()
    honoured,   \* history: time slept because a provider asked for it
    rejected,   \* history: the candidates whose provider answered with 4xx, and how
    paused      \* history: the call behind the last sleep, and when it ended

history == << honoured, rejected, paused >>
timeVars == << profile, clock, job, history >>

HasStatus(answer, statuses) == answer \notin {Silence, Cut} /\ answer.status \in statuses

Candidate(i) == profile.candidates[i]
Provider(i) == profile.providers[Candidate(i).provider]

lesser(x, y) == IF x < y THEN x ELSE y

\* backoff_base_seconds * 2**retry_index, up to backoff_max_seconds ...
Backoff(config, retry) == lesser(config.backoffMax, config.backoffBase * 2^retry)

\* Faulty variant: the jitter is added, not multiplied.
WideJitter(delay) == { d \in 0 .. 2 * delay : 5 * d >= 4 * delay /\ d <= delay + 3 }

\* ... times a number between 0.8 and 1.2, which may exceed backoff_max_seconds.
Jittered(delay) == { d \in 0 .. 2 * delay : 5 * d >= 4 * delay /\ 5 * d <= 6 * delay }

-----------------------------------------------------------------------------
TimeInit ==
    /\ profile \in Profiles
    /\ clock = 0
    /\ job = [phase |-> "arriving", at |-> 0, retry |-> 0, excluded |-> {}, wake |-> 0]
    /\ honoured = 0
    /\ rejected = {}
    /\ paused = NoPause

\* The candidates from this one on: the first that is not skipped is called.
GoOn(from, excluded) ==
    \/ job' = [job EXCEPT !.phase = "failed", !.excluded = excluded]
    \/ \E i \in from .. Len(profile.candidates) :
           /\ Candidate(i).provider \notin excluded
           /\ Candidate(i).maxRetries >= 0
           /\ job' = [phase |-> "calling", at |-> i, retry |-> 0,
                      excluded |-> excluded, wake |-> 0]

Arrive(delay) ==
    /\ job.phase = "arriving"
    /\ clock' = clock + delay
    /\ GoOn(1, {})
    /\ UNCHANGED << profile, history >>

\* Faulty variant: one retry more.
RetriesOneMore(error) ==
    error.type \in TransientErrors /\ job.retry <= Candidate(job.at).maxRetries

Retries(error) ==
    error.type \in TransientErrors /\ job.retry < Candidate(job.at).maxRetries

\* Faulty variant: the backoff is used although the provider asked for a delay.
SleepOfBackoff(error) == Jittered(Backoff(profile, job.retry))

\* How long route() may sleep before it calls the model again.
Sleep(error) ==
    IF error.retryAfter # NoDelay THEN {error.retryAfter} ELSE Jittered(Backoff(profile, job.retry))

Excluded(error) ==
    IF error.type \in ProviderWideErrors
    THEN job.excluded \cup {Candidate(job.at).provider} ELSE job.excluded

\* The credential is missing: nothing is sent.
Unsendable ==
    /\ job.phase = "calling"
    /\ ~ HasCredentials(Provider(job.at), profile.keys)
    /\ GoOn(job.at + 1, Excluded(Raised("ProviderAuthenticationError")))
    /\ UNCHANGED << profile, clock, history >>

\* The provider answers in time, or wait_for and the client give up.
CallEnds(delay, answer) ==
    LET result == Generate(Provider(job.at).adapter, answer)
    IN  /\ job.phase = "calling"
        /\ HasCredentials(Provider(job.at), profile.keys)
        /\ IF answer = Silence THEN delay = Candidate(job.at).timeout
                               ELSE delay <= Candidate(job.at).timeout
        /\ clock' = clock + delay
        /\ rejected' = IF HasStatus(answer, 400 .. 499)
                       THEN rejected \cup {<< job.at, answer.status >>} ELSE rejected
        /\ IF result = Success
           THEN job' = [job EXCEPT !.phase = "succeeded"] /\ UNCHANGED << honoured, paused >>
           ELSE IF Retries(result)
           THEN \E pause \in Sleep(result) :
                    /\ job' = [job EXCEPT !.phase = "sleeping", !.wake = clock' + pause]
                    /\ honoured' = IF result.retryAfter = NoDelay THEN honoured
                                                                  ELSE honoured + pause
                    /\ paused' = [at |-> job.at, answer |-> answer, since |-> clock']
           ELSE GoOn(job.at + 1, Excluded(result)) /\ UNCHANGED << honoured, paused >>
        /\ UNCHANGED profile

\* The sleep ends: the model is called again, or its quota has no room any more.
Wake ==
    /\ job.phase = "sleeping"
    /\ clock' = job.wake
    /\ \/ job' = [job EXCEPT !.phase = "calling", !.retry = @ + 1]
       \/ GoOn(job.at + 1, job.excluded)
    /\ UNCHANGED << profile, history >>

TimeNext ==
    \/ \E delay \in Arrivals : Arrive(delay)
    \/ Unsendable
    \/ \E answer \in Answers \cup {Silence, Cut} :
           \E delay \in Delays \cup {Candidate(i).timeout : i \in 1 .. Len(profile.candidates)} :
               CallEnds(delay, answer)
    \/ Wake

TimeSpec == TimeInit /\ [][TimeNext]_timeVars

-----------------------------------------------------------------------------
(* Properties.                                                              *)

\* README, Protected cloud API: "Its combined failover budget stays below the
\* browser and Vercel function deadlines, preventing a late successful response
\* from being discarded by the UI": whatever the providers answer, and however long
\* they ask to wait, the cloud profile is done before anybody gives up.
BudgetBelowDeadlines ==
    profile = Cloud => clock < BrowserDeadline /\ clock < FunctionDeadline

\* The longest backoff of retry r, and the most that candidate i may take.
LongestBackoff(config, r) == (6 * Backoff(config, r)) \div 5
TimeOf(config, i, retries) ==
    (retries + 1) * config.candidates[i].timeout
        + SumFunction([r \in 0 .. retries - 1 |-> LongestBackoff(config, r)])

\* The most that a job may take with candidate i.
Allowance(config, i) ==
    LET retries == config.candidates[i].maxRetries
    IN  IF retries < 0 THEN 0 ELSE TimeOf(config, i, retries)

\* The time a job has taken never exceeds what its configuration accounts for (one
\* timeout for each call, one longest backoff for each retry, candidate by
\* candidate) and the delays that providers asked for, which nothing bounds.
TimeAccounted ==
    clock <= greatest(Arrivals) + honoured
             + SumFunction([i \in 1 .. job.at |-> Allowance(profile, i)])

\* README: "Exponential backoff with jitter for genuinely transient failures".  A
\* request that a provider rejected is not sent to it again in the same way: after
\* 401, 403 or 429 the job leaves the provider alone, after another 4xx (but 408, 409
\* and 425) the model.  A model is called again no earlier than its provider asked,
\* and otherwise after the backoff of that retry.
PoliteRetries ==
    job.phase = "calling" =>
        /\ \A call \in rejected :
               /\ call[2] \in {401, 403, 429} =>
                      Candidate(job.at).provider # Candidate(call[1]).provider
               /\ call[2] \notin {408, 409, 425} => job.at # call[1]
        /\ job.retry > 0 =>
               LET waited == clock - paused.since
               IN  /\ paused.at = job.at
                   /\ IF /\ paused.answer \notin {Silence, Cut}
                         /\ paused.answer.status >= 400
                         /\ paused.answer.retryAfter # NoDelay
                      THEN waited >= paused.answer.retryAfter
                      ELSE /\ 5 * waited >= 4 * Backoff(profile, job.retry - 1)
                           /\ 5 * waited <= 6 * Backoff(profile, job.retry - 1)
=============================================================================
