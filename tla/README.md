# A TLA+ model of modernization-ai-router

The router sends modernization jobs to language models: it picks the models a
job may use, reserves quota, calls one provider after another until one answers,
keeps the books, and (separately) verifies results in a Docker sandbox. These
modules model the parts whose correctness depends on order, concurrency, time and
boundaries. TLC checks them on small instances, and that the router implements an
abstract specification of what it promises; TLAPS proves every safety property that
the passing runs check, and that refinement, for every instance.

Paths below are relative to `src/src/modernization_router/`.

## Inventory

| Component | State | Operations | Talks to | What is hard | What makes it right |
|---|---|---|---|---|---|
| Quota tracker `quota.py` | per model: two deques of time stamps, the day, three daily counters, the open reservations | `try_reserve`, `commit`, `release`, `snapshot` | Router | many jobs interleave; settlements come late, twice, or after midnight; window boundary | limits hold in every window; the books match what was granted |
| Circuit breaker `health.py` | per provider: failures in a row, time of opening | `can_attempt`, `success`, `failure`, `snapshot` | Router, health check | answers of old calls and health checks report in any order | shut exactly while the last N reports failed recently |
| Registry `registry.py`, `models.py` | the configured models (constant) | `eligible` | Router | many policies combine | privacy fails closed; premium last; nobody forgotten |
| Router `router.py` | per job: candidates, position, retry, excluded providers, attempts | `route`, `health`, `close` | all of the above, adapters | jobs interleave at every call and sleep; cancellation; timeouts; retries | nothing leaks; one ledger record per success; failover order; every job ends |
| Ledger `accounting.py` | list of usage records | `record`, `snapshot` | Router | agrees with the tracker | same books |
| Errors `exceptions.py`, `adapters/http_errors.py` | none | classification | Router, adapters | class decides retry, exclusion, circuit | see Router |
| Adapters `adapters/` | an HTTP client | `generate`, `health_check`, `close` | providers | answers of unknown shape; delays asked for | every answer becomes a response or the error that fits it; nobody is called again too early or in vain |
| Execution `execution.py` | a container, a docker client process, two readers | `execute`, `verify` | Docker | removal races creation; cancellation; pipes | success means every command ended with 0; steps do not overlap; a timeout removes the container; output bounded and complete |
| Cloud API `cloud_api.py` | one cached service per process | `/v1/route`, `/healthz` | Facade | cold start in a thread pool; failing configuration; request budget | the excess of a cold start is bounded and ends; refused requests cost nothing; an answer is in time |
| Facade `service.py` | none | `run` and five task methods | Router | defaults that differ from the API's | private code stays private whichever way it comes in |
| Config `config.py` | none | parse, validate, build | Cloud API | unchecked values | a router exists only for a usable configuration |
| Logging `logging.py` | none | formatting | | | |
| Browser `static/app.js` | source, names, one job, result and its tabs | load, edit, convert, select | Cloud API | overlapping loads; a job against its deadline | prompt describes the source; no late success is discarded |

## How the code maps to steps

The program is one asyncio event loop. A task gives up control only where it
suspends. The locks of the tracker, the breaker and the ledger are never held
across a suspension, so acquiring one never waits and **each of their operations
is one atomic step**. `route()` suspends in two places only: in
`wait_for(adapter.generate(...))` and in `_sleep(delay)`. Everything between two
suspensions is **one action** of `Router`: when a call fails, the release, the
attempt record, the report to the circuit, and the search through the remaining
candidates up to the next call happen in one step, as they do in the code.

## Modules

| Module | Models | Built on |
|---|---|---|
| `QuotaOps` | the tracker's operations as functions on `_QuotaState` | |
| `Quota` | one model's tracker under arbitrary callers, time and midnights; history `grants` | `QuotaOps` |
| `FoldProofs` | lemmas about finite sets: induction, least elements, sums, folds over sequences | |
| `QuotaOpsProofs` | lemmas about the tracker's operations | `QuotaOps`, `FoldProofs` |
| `QuotaProofs` | theorems about `Quota` | `Quota`, `QuotaOpsProofs` |
| `CircuitOps` | the breaker's operations on `CircuitState` | |
| `CircuitBreaker` | one provider's circuit under calls in flight and health checks; history `outcomes` | `CircuitOps` |
| `RegistryOps` | filter and order of the candidates | |
| `Registry` | one request after another under one configuration | `RegistryOps` |
| `ProviderErrors` | the classes of errors, by what `route()` does | |
| `Router` | concurrent `route()` calls over shared trackers, circuits and ledger; health checks | `QuotaOps`, `CircuitOps`, `ProviderErrors`, `RouteSpec` (refinement) |
| `RouterProofs` | theorems about `Router`, among them that it implements `RouteSpec` | `Router`, `QuotaOpsProofs`, `RouteSpecProofs` |
| `RouteSpec` | what `route()` promises its callers, whatever quotas and circuits do | |
| `RouteSpecProofs` | theorems about `RouteSpec` | `RouteSpec` |
| `AdapterOps` | what `generate` makes of an answer | `ProviderErrors` |
| `RouteTime` | one `route()` call in time, against the deadlines of those who wait | `AdapterOps` |
| `RoutingProofs` | theorems about the parts that `route()` relies on: circuit, candidates, time | `CircuitBreaker`, `Registry`, `RouteTime`, `FoldProofs` |
| `CloudApi` | one process of the API from its start: keys, the cached service, thread pool | |
| `ExecutionOps` | the policy's checks and the summary of diagnostics | |
| `Execution` | `verify` and `execute` of several workers against docker clients and the daemon; history `ended` | `ExecutionOps` |
| `OutputReader` | the two `_read_bounded` tasks of one `execute`, the pipes and the client | |
| `WorkerProofs` | theorems about `Execution` and `OutputReader` | `Execution`, `OutputReader` |
| `ProjectFiles` | how the page joins the chosen files into one source | |
| `BrowserUI` | the page: overlapping loads, jobs, the result and its tabs | `ProjectFiles` |
| `WebProofs` | theorems about the API and its page | `CloudApi`, `BrowserUI`, `FoldProofs` |
| `MCQuota`, `MCCircuitBreaker`, `MCRegistry`, `MCRouter`, `MCRouteTime`, `MCCloudApi`, `MCExecution`, `MCOutputReader`, `MCBrowserUI` | instances for TLC; `MCRouter` takes its candidates from `RegistryOps` | |

`Init`, `Next`, `Spec` and `TypeOK` have names of their own (`RegistrySpec`, `TimeSpec`,
`ReadersSpec`, `PageSpec`, ...) in the modules that share a module of proofs with another.

State and actions, against the code:

- `Quota`: `state` is `_QuotaState`; `TryReserve` is `try_reserve` (roll, check,
  record), `Commit`, `Release` and `Snapshot` the methods of those names, `Tick`
  and `Midnight` the two clocks. `Roll` is `_roll_windows`. A settlement names
  any grant, open or not, at any time: double and late settlements included.
- `CircuitBreaker`: `Begin` is a call let through by `can_attempt`, `End` its
  report, `EndUnreported` an end that `route` does not report, `Probe` the health
  check.
- `Registry`: `call` says how the last request came in (`route`, `run`, a task
  method, the API) and what its caller stated; `RequestOf` adds the defaults of that
  way in (`WithDefaults`), and `Ask` is `_candidate_models` for the result: `Willing` is
  the filter, `SortedBy` Python's `sorted`, `Only` the second filter, by provider.
- `Router`: `job[j]` holds the locals of one `route()` call. `Start` is the call
  up to its first suspension; `Succeed` lines 122-166; `Fail` lines 167-226;
  `Wake` the next round of the retry loop, which reserves again but does not ask
  the circuit again; `Cancel` the `CancelledError` branch; `Probe` and `Snapshot`
  are `health()`. `Search` is the rest of the `for` loop over the candidates: the
  first candidate that is not excluded, whose circuit lets it through and whose
  quota admits it is called, every model tried before it is rolled, and the job
  fails when there is none. `LedgerTotals` is the ledger's `snapshot`.
- `RouteSpec`: `status`, `attempts` and `billed` are what a caller sees of a job: how
  far it is, the attempts that its result or error lists, its ledger records. A
  call's beginning is not visible, its end is (`Succeed`, `Fail`); which candidates
  are skipped is left open. `Router` maps its state to these in `Promise`.
- `RouteTime`: `Arrive` is the way to `route()`, `CallEnds` one call until an answer
  or its timeout with everything up to the next suspension, `Unsendable` a call
  that needs no time because the credential is missing, `Wake` the end of a sleep.
  `GoOn` may skip any candidate and refuse any retry, as quotas and circuits may.
  `AdapterOps.Generate` turns an answer (status, `Retry-After`, shape of the body)
  into the result that decides. Time jumps to the end of each call and sleep.
- `CloudApi`: for each request, `Authenticate` is `require_access_key`, `LookUp` and
  `Build` (or `BuildFails`) are `get_ai_service` with its `lru_cache` before and
  after the work of a miss, which runs in a thread without a lock; `Route` is the
  validation of the body and the handler up to its first call, `CallEnds` the rest,
  with `route()` reduced to what the quotas of its router still admit.

- `Execution`: for each worker, `phase` says where `verify` is: `Launch` is
  `execute` up to the wait for the client, for a
  request that `ExecutionOps.Permitted`, `Exited` and `Timeout` are the two ends
  of that wait, `AfterRemoval` the end of the bounded wait for `docker rm` and the
  kill of the client, `Finish` the result and `verify`'s decision to go on,
  `Refuse` everything that raises before the client is spawned,
  a refusal of the policy included, `Cancel` a
  cancelled task. `client` and `container` are docker's side: `Create`,
  `StartContainer` and `EndContainer` are what `docker run --rm` does in the code's
  eyes, and may fail or never come; `ForceRemove` is the daemon acting on
  `docker rm --force`, at any time after it was asked, also when the executor has
  given up waiting for it. A container's name depends on the request id only, so
  pipelines that reuse one share a name.
- `OutputReader`: `Read` is one round of the loop in `_read_bounded`, `Eof` its
  end, `Collect` the two awaits and the result. `Write` and `Close` are the client.
  `Execution`'s `Finish` takes for granted that the readers end once the client is
  gone; `ResultComes` is that fact.

- `BrowserUI`: `Choose` and `LoadEnds` are `loadProjectFiles` up to and after its
  awaits (`LoadFails` when a text cannot be read), `Edit`, `UseSample`, `NewJob` and
  `SelectTab` the handlers; `Submit` is the submit handler up to its `fetch`,
  `Receive` the rest of its `try`, `JobFails` its `catch`. `AddFile` is what one file
  goes through: it is skipped or appended, cut where the source is full, and `Assemble`
  folds it over the files that are considered. The time a job takes is `RouteTime`'s.

Definitions called faulty variants are not part of the models: each is a
plausible bug, and the property it is paired with in `PROJECT.json` fails when it
replaces the real definition.

## Runs

| Run | Result | What it shows |
|---|---|---|
| `MCQuota.cfg` | pass | all limits on, usage above and below the estimate, one midnight, repeated settlements: request limits hold in every window and day, reservations match, the window and the daily counters are exact, admissions respect the limits; tokens per minute over every window, as long as usage has stayed within its estimate |
| `MCQuotaMidnight.cfg` | **violation** | tokens per day fails across a midnight (finding 1) |
| `MCCircuitBreaker.cfg` | pass | failures counted and gate exact, reports in any order |
| `MCRegistry.cfg` | pass | 5,184 tables, every sequence of calls through every way in: privacy fails closed (the facade's code is private unless released), premium last, nobody forgotten, tightening only removes |
| `MCRouter.cfg` | pass | open reservations are the calls in flight; tracker and ledger keep the same books; no more calls in a day than the limit; a job goes on to the first candidate that is usable at that very moment, and gives up only when there is none |
| `MCRouterLiveness.cfg` | pass | every job that called a provider ends; `Router` implements `RouteSpec` (`KeepsPromise`) |
| `MCRouteTime.cfg` | pass | under every answer of every provider: the cloud profile is done before the page's 110 s and the function's 120 s; with retries, the time is accounted for by timeouts, longest backoffs and the delays asked for; a rejected request is not sent again, and no model is called again before its provider asked or its backoff is over |
| `MCCloudApi.cfg` | pass | at a cold start there are no more routers than threads, each within its capacity, and one stays for all later requests; only configured keys build or call, and refused requests cost nothing |
| `MCExecution.cfg` | pass | steps of a pipeline do not overlap; success means that every command was permitted and ended by itself with 0; a container outlives its timeout only when the removal came too early or hung, or its name is shared; every `verify` ends. As assumptions: each way to break the policy is refused, and `diagnostic_summary` repeats no line and drops an error line only in the case it names |
| `MCExecutionTimeout.cfg` | **violation** | a removal that comes too early leaves a running container (finding 2) |
| `MCBrowserUI.cfg` | pass | the file names in the prompt are those of the source; visible tabs show the latest answer; what the page says of a load is true, but for an exact fit (see Divergences) |
| `MCOutputReader.cfg` | pass | the readers keep exactly the first bytes up to the limit and say so when they drop any; the result is complete; the command is never left blocked; a result comes |

Deadlock checking is off throughout: the bounds on time, calls and reports end
every behaviour, and an idle router may stop.

### Bounds

- *Time* is in whole units; `Window` and `Cooldown` are 1 or 2. The window and
  the cooldown are compared with a difference of two stamps only, so what counts
  is having stamps before, at and after the boundary; `MaxTime` exceeds or equals
  the window for that reason.
- *`MaxGrants` = 4* with limits of two requests: enough for a limit to be used
  up, recovered and used up again.
- *`MaxOutcomes` = 5*, threshold 2: a circuit opens, is closed by a late success,
  and opens again.
- *Router*: three models of two providers are the least in which a provider is
  excluded, another is reached, and one provider has two models. Alice may use
  all of them, Bob shares two with her, Carol may use none. One retry on the
  first model; limits low enough that jobs take each other's last slot and that a
  retry is refused. One error of each kind `route` distinguishes.
  `MaxFailures` bounds failed health checks in a row; the liveness run has
  none, one usage and a clock that stands still, since fairness is costly to check,
  but two retries, so that the second may find the quota of the day used up.
- *Registry*: 5,184 tables (three models, each cheap or premium, of two priorities,
  local, approved or neither; three sets of enabled providers) and 30 calls.
- *RouteTime*: the cloud profile in units of five seconds, with the numbers of the
  deployment (five free candidates of 20, 20, 15, 15 and 15 s without retries, up to
  20 s for the request to arrive, the most that the budget leaves room for); and a
  profile with two retries, one retry and none, whose second backoff is cut. One
  answer of each kind that is treated differently, with and without `Retry-After`,
  below zero and not a number. `Delays` are 0 and 1 besides the timeouts: only sums
  matter.
- *CloudApi*: five requests and two threads, so that a miss may overlap a miss and
  still leave requests that come after; routers of capacity two; a good
  configuration and one with each fault; the primary key set and unset.
- *Execution*: two pipelines, one of two commands, sharing one of two names: the
  least in which a step follows another, a removal hits another worker's
  container, and a name is taken. Every container, client and removal may fail or
  hang at each of its steps. Exit codes 0 and 1 of commands, 125 and 137 of docker.
- *OutputReader*: limits of -1, 0, 3 and 4 bytes, chunks of up to two, pipes of
  three, five bytes written: the limit falls before, within and at the end of a
  chunk, and the output exceeds limit and pipe together.
- *Browser*: two loads, two jobs; a source of ten characters and five selections:
  one that is cut, one whose first file just fills the source, one that is whole,
  one with more files than are considered, one of which nothing is read. Content is
  known by the job it came from.

### Fairness

`FairSpec` assumes weak fairness of `Answer(j)` and `Wake(j)`, nothing else:
`asyncio.wait_for` ends every provider call by its timeout, and a sleep ends. The
latter needs a finite delay; `Retry-After` is not capped by the code (see
Hazards). Starting, cancelling, probing and time need no fairness.

`Execution`: weak fairness of the worker's own steps (a request is launched or
refused) and of its two timeouts
(`wait_for` bounds the wait for the client and, with ten seconds, for
`docker rm`), and that a killed process dies. Docker is not assumed to do
anything. `OutputReader`: weak fairness of the readers and of `Collect`, which the
event loop runs; nothing about the command. The other specifications state no
fairness and check no liveness.

## Findings

1. **Settlement after midnight** (`quota.py:122`, `135`). A reservation made
   yesterday and settled after the tracker has rolled to today lowers today's
   counters; today then admits more than `tokens_per_day`. `DailyExact` states
   what does hold: the counters are exact as long as no settlement is late.
2. **Removal before creation** (`execution.py:279`). On a timeout `execute` runs
   `docker rm --force` first and kills the docker client afterwards. While the
   client still pulls the image there is nothing to remove; it then creates and
   starts the container, is killed, and the container runs on, without limit of
   time, in the workspace of a job that has been reported. README: "forced timeout
   cleanup". `OrphanOnlyIfMissed` states what does hold.

### Divergences

Met while modelling; the models follow the code, and the properties state what does
hold.

- *Circuit asked once per model* (`router.py:86`, `94`). The README's flow is "Quota
  reservation -> circuit check -> bounded provider call"; the code asks before it
  reserves, and not before a retry. `FirstUsableIsCalled` holds for every move to
  another candidate.
- *Dropped without a word* (`static/app.js:98`). When a file fills the source to the
  last character, the loop ends and the files after it are dropped, but `clipped`
  stays false and the page says "ready to route". `LossIsReported` excepts this case
  and no other.
- *Limits per router* (`cloud_api.py:97`). Concurrent first requests may each build a
  router, and use it, with limits of its own; README: "Atomic in-process quota
  reservations so concurrent jobs cannot all claim the last slot". `OverrunBound` says how
  far that goes. A configuration that cannot be loaded is tried again by each request.
- *Retry-After has no upper end* (`router.py:205`), and the jitter may exceed
  `backoff_max_seconds` by a fifth (`router.py:212`): `TimeAccounted` counts both.
- The OpenAI adapter makes the text "None" of a null content; Gemini retries the
  same answer as transient. A malformed answer, a blocked prompt included, is
  transient for both.
- An empty pipeline is reported as not succeeded, with nothing in
  `diagnostics_for_ai`. In `diagnostic_summary` the first 40 error lines are taken
  before duplicates are dropped, so a repeated line may hide another.
- A health check that gets 4xx, a refused credential for instance, counts as
  healthy.

## Refinement

`RouteSpec` is the promise to a caller; `Router!Promise` instantiates it with what a
caller sees of the program: a job that calls or sleeps is working, its attempts are
the list of the code, its records are those of the shared ledger that carry its
name. `KeepsPromise` is the whole specification `RouteSpec!Spec` under that mapping:
ticks, health checks, snapshots, wake-ups that find quota and reservations are
stutters; each end of a call is `Succeed` or `Fail`, a failure after which the
search finds nobody goes to `failed` in the same step. `MCRouterLiveness` checks it on
an instance, and `PromiseKept` proves it for any number of jobs, models and candidates.
`RouteSpecProofs` proves of `RouteSpec` what callers rely on:
one ledger record for an answer and none otherwise (`OneRecordPerSuccess`), and the
order of failover (`FailoverDiscipline`); `PromiseFollows` puts the two together, so
that both are facts about the program.

## Proofs

All theorems are about the specification for every value of the constants; they assume
only the named assumptions on constants, and TLC evaluates each on the instances:

- `WindowAssumption`, `NoLimitAssumption`, `QuotaAssumption`, `CircuitAssumption`,
  `CircuitBoundsAssumption`, `RouterAssumption`, `ExecutionAssumption`,
  `OutputReaderAssumption`, `CloudAssumption`, `ProjectFilesAssumption`: types and bounds.
  `RouteAssumption` is a hypothesis of the theorems about `RouteSpec` and follows from
  `RouterAssumption`.
- `RegistryAssumption`: a table is finite and has no two models of one id, which
  `ModelRegistry` enforces; fields have the types of `ModelConfig` and `RouterRequest`.
  Priorities, prices and estimates are any integers, negative ones included.
- `RouteTimeAssumption`: timeouts are positive, backoffs are not negative, arrivals have
  a greatest one, `max_retries` and `Retry-After` are any integers.
- `CloudBudgetAssumption`: what `config/router.cloud.toml` is meant to guarantee. No
  candidate is retried, and arrival and all timeouts together stay below both deadlines.
  Only `BudgetIsKept` uses it.
- `BrowserUIAssumption`: the header of the sample leaves room for its text. A selection may
  have any number of files of any length.

Three conjuncts are there for the proofs' sake only, and hold of every run of the
program: the jobs of a process and the requests of the API are finite in number, and a
pipeline has a length.

**`FoldProofs`** has the lemmas the other proofs share. A sum over a set is the library's
`SumFunction`, a sum over a sequence that of its elements by position, and `FoldLeft` is
recursive over sets: none of them can be unfolded. The induction rules of the library take a
predicate, which the provers cannot instantiate; here a *set* stands for the predicate
(`SubsetInduction`, `IntervalInduction`, by a least counterexample), which is a statement of
first order. From it follow that sums exist and are unique (`SumsExist`,
`SumsUnique`), what a sum is after an element was added, removed, changed or renamed, and that a
fold goes element by element (`FoldExists`, `FoldPrefix`).

**`QuotaOpsProofs`**: what each operation of `QuotaOps` does to window, counters and
reservations.

**`QuotaProofs`**

- `TypeCorrect`, `MinuteLimitHolds`, `DayLimitHolds`, `NoReservationLeaks`. The limits are
  statements about the history of grants, while the code tests the length of a deque and
  a counter, so neither is inductive. `IInv` adds `RequestLog` (the deque is the history
  but for a prefix that has left the window for good) and `DayLog` (the counter counts
  exactly the latest grants, those of the tracker's day). Then a step that grants needs the
  guard and the log, a roll only moves the prefix, and everything else leaves
  history and log alone. `NoReservationLeaks` is inductive with the types: grants have distinct
  reservations, so a settlement removes its own or nothing.
- `WindowTokensAreExact`, `DailyCountersAreExact`, `AdmissionKeepsLimits` (an action
  property), `MinuteTokenLimitHolds`. `SumInv` adds that the token events are those of
  grants, in their order, with their times and charges; that a grant without an event has
  left the window or weighs nothing (`EventLog`); that an open grant is charged its
  estimate (`History`); and the daily sums (`DayBooks`). Time order is needed, since a roll
  drops from the left only. `MinuteTokenLimitHolds` is about windows of the past as well:
  charges only go down while usages keep to their estimates, so a window that fitted
  when its last grant was made still does (`WindowsFit`).

**`RoutingProofs`**

- *Circuit*: `TypeCorrect`, `FailuresCounted`, `GateCorrect`. `CircuitInv` adds
  `OpenedExact`: the circuit is open exactly while the count has reached the threshold, and
  `opened_at` is the time of the latest report. `RunLength` turns the count into a
  statement about the reports.
- *Candidates*: `PrivacyIsKept`, `PremiumIsLast`, `NobodyIsForgotten` and, between any two
  calls, `TighteningRemovesOnly`. The state is only a result (`CandidatesAreOfTheCall`); the work
  is in the operators. A finite set of keys of one length has a sorting and the
  `CHOOSE` of `SortedBy` is one (`SortedByProperties`), which needs that the order of
  tuples is total (`TupleLess` compares tier, priority, cost and id, and ids differ).
  `CandidatesRanked` says of `CandidateModels` what the properties need: each candidate
  passes the filter, each model that passes is there once, and the order is that of the sort keys. For
  privacy, `NotReleased` goes through the four ways in and their defaults.
- *Time*: `TimeIsAccountedFor`, `RetriesArePolite`, `BudgetIsKept`. `clock` is bounded by a sum
  over all candidates so far, which a step inside a candidate does not keep: `TimeInv`
  counts what the present candidate has used so far, retry by retry (`SpentBy`), and a sleep
  by when it will *end*. `Heeded` says that a rejection left its provider excluded or its
  candidate behind, `Patient` that the call behind the last sleep is one of this candidate and
  that the sleep is as long as the provider or the backoff asks. `BudgetIsKept` is the case
  without retries, where no delay is ever honoured.

**`RouteSpecProofs`**: `AnswersAreBilledOnce`, `FailoverIsDisciplined`. `IInv` adds to both
properties that only candidates were called and that nothing succeeded while the job goes on
(`Progress`). The lemma `NextAttempt` says how a call that `MayCall` allows relates to
*every* earlier attempt, though it looks at the last one only; it needs the
discipline of the attempts so far.

**`RouterProofs`**: `JobInv` is the invariant of a job's locals, its list of attempts
among them: attempts are on candidates up to the one the job is at, the excluded providers
are those that refused an attempt, a call in flight has the number that follows that of the
transient failure before it, and a sleeping job's last attempt failed that way with retries
left (`Log`). `SearchEffect` says once what the loop over the candidates does. `JobStep` then
sums up what one step does for one job and one model: it opens a reservation, releases or
commits the one the job holds, or neither. From it follow the properties of all jobs
*together*: `ReservationsAreHeld` (`Holds`), `DailyLimitHolds` (`Counted`: no more calls were
made than the counter says, and the counter keeps to the limit) and `BooksAlwaysBalance`
(`Balanced`, over the sums of the ledger and of what is held). `FirstUsableCalled` is an
action property and needs `JobInv` only. `PromiseKept` is the refinement: `JobInv`
supplies what `MayCall` of `RouteSpec` demands of the attempts, which the program never
looks at. `PromiseFollows` applies the theorems about `RouteSpec` under the same mapping.

**`WorkerProofs`**

- *Execution*: `ExecutionTypeCorrect`, `NoStepsOverlap`, `ReportsAreReal`, `OrphansWereMissed`.
  `IInv` has for each worker how far its results, its client and its removal have come in
  each phase (`Progress`), for each container that it belongs to the step its owner is at
  and that the owner's client is still there or was killed (`Owned`), and for each
  removal that worked, that there will be no other container of the step unless somebody
  else uses its name (`Removed`). The last is where finding 2 lies: it is claimed of a
  removal that found a container, not of one that came too early.
- *Readers*: `ReadersAreExact`, `ResultIsComplete`. The invariant has, for each stream, that
  retained bytes, pipe and bytes yet to be written are consecutive (`Exact`), that a
  reader that is done met the end of its stream with the client gone, and that the result is
  made of what finished readers hold. The lemmas are about runs of consecutive bytes,
  cut and joined.

**`WebProofs`**

- *API*: `TypeCorrect`, `ColdStartIsBounded`, `RefusalsCostNothing`. That there are no more
  routers than threads is not inductive: `ColdStart` bounds the routers and the requests
  that are building one *together*, and adds that nothing was built as long as nothing is
  cached, so that a miss always finds the builders to be those in the pool. For the
  keys, `KeyFirst` adds that whoever got past the first dependency has a key.
- *Page*: `PageTypeCorrect`, `NamesAreOfSource`, `TabsAreOfLatestJob` and the action property
  `LossesAreReported`. `PageInv` adds `TabsOfLatest`: while a job runs no tabs are seen, which is
  why a result of the job before can never be behind the tabs of this one. What a
  load makes of a selection is a loop, so `Rounds` names the source after each file, and
  `Accounts` is the invariant of that loop: the source fits, its length is that of its
  parts with their headers, and it is whole so far, or a beginning that fills the source to
  its last character, or something was lost and `clipped` says so. `AssembleAccounts` is its
  end; `LossesAreReported` follows, also for the selection of a load that was not the
  latest.

TLC confirmed the inductive invariants of quota, circuit, router (`JobInv`), execution,
readers, time (`TimeInv`) and page (`PageInv`) on the instances of the runs.

Model-checked only:

- liveness (`JobsEnd`, `VerifyEnds`, `NeverBlocked`, `ResultComes`), which rests on
  ENABLED and is out of the prover's reach;
- the two statements of the documents that the code violates (see Findings): there TLC's
  counterexample is the result;
- the assumptions in `MCExecution` about `Permitted` and `diagnostic_summary`, which are checked over
  bounded inputs.

The thresholds that the loader accepts below one are covered by `GateCorrect`,
which holds for every integer; the run uses a threshold of two.

## Not modelled

- Float rounding of money; wording and logging; payloads and headers; the latencies
  in attempt records; `close()`; the fake adapter of the tests.
- Of the API: `/healthz`, security headers, static files, the limits of the fields.
  A body that is no JSON at all is refused before the key is looked at, and a key
  outside ASCII is an error of the server: neither reaches a router.
- What the Docker daemon does beyond the three commands the code uses; the fixed
  isolation flags of `docker run`; the removal of ANSI escapes.
- A clock that runs backwards. In `Router` the date does not change and calls and
  sleeps end at any moment: `Quota` covers midnights, `RouteTime` durations.
- Restarts: quotas, circuits and ledger live in memory, as their classes say, and a
  new process starts from zero. What a provider bills for a call that timed out:
  the tracker releases its whole estimate and cannot know.
- The status badge, copying and downloading in the page; markup and styles.
- Small simplifications: a file's header has one length for the first file and one for
  the others, whatever its name; `diagnostic_summary` is cut by lines; `execute` is not
  cancelled while it spawns the client.
- That 408, 409 and 425 are *not* taken for permanent: `RouteTime` lets a quota refuse any
  retry, so no property can tell that one was owed. `Generate` translates the code's table.

## Plan

Done: every component but logging, some in part (see above); every invariant and action property of the
passing runs is a theorem. What would come next:

1. `Router` with its history shown to implement `Quota` for each model, so that
   `MinuteLimitHolds` and the token limits hold of concurrent jobs without a proof of their own.
2. A router whose clock passes midnight, with finding 1 in the books of tracker and ledger.

`PROJECT.json` lists the hazards, and for those without a property the reason.
