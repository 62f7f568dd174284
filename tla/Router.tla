------------------------------- MODULE Router -------------------------------
(***************************************************************************)
(* ModelRouter.route (router.py) run by any number of concurrent jobs over  *)
(* the quota tracker, the circuit breaker and the usage ledger they share.  *)
(*                                                                         *)
(* asyncio switches tasks only where a task suspends, and route suspends in *)
(* two places: while a provider call is in flight and while it sleeps       *)
(* before a retry.  (The locks it takes are held across no await, so they   *)
(* are always free.)  Everything between two suspensions is one action: the *)
(* handling of an answer includes the settlement of the quota, the report   *)
(* to the circuit and the whole search for the next model to call.          *)
(*                                                                         *)
(* A provider call times out, and a sleep ends, at any moment: their lengths*)
(* are configuration.  The UTC date does not change (Quota.tla is about     *)
(* that).                                                                  *)
(***************************************************************************)
EXTENDS QuotaOps, CircuitOps, ProviderErrors

CONSTANTS
    Jobs,         \* route() calls
    Models,       \* model ids
    Providers,    \* provider ids
    ProviderOf,   \* the provider of each model
    MaxRetries,   \* max_retries of each model
    ModelLimits,  \* quota limits of each model
    Price,        \* cost per token of each model
    Request,      \* each job's estimate: [input, output]
    Candidates,   \* what _candidate_models returns to each job (RegistryOps)
    Errors,       \* errors a call may raise, a subset of ErrorTypes
    Usages,       \* what a provider reports to have used
    MaxTime,      \* bound: seconds of monotonic time explored
    MaxFailures   \* bound: failed health checks in a row

ASSUME RouterAssumption ==
    /\ IsFiniteSet(Jobs)
    /\ ProviderOf \in [Models -> Providers]
    /\ MaxRetries \in [Models -> Int]
    /\ ModelLimits \in [Models -> Limits]
    /\ Price \in [Models -> [input : Nat, output : Nat]]
    /\ Request \in [Jobs -> [input : Int, output : Int]]
    /\ Candidates \in [Jobs -> Seq(Models)]
    /\ \A j \in Jobs : \A i, k \in 1 .. Len(Candidates[j]) :
           Candidates[j][i] = Candidates[j][k] => i = k
    /\ Errors \subseteq ErrorTypes
    /\ Usages \subseteq Amount
    /\ MaxTime \in Nat
    /\ MaxFailures \in Nat

VARIABLES
    now,       \* time.monotonic()
    quota,     \* the _QuotaState of each model
    circuit,   \* the CircuitState of each provider
    ledger,    \* the UsageRecords, in order
    job        \* the local variables of each route() call

vars == << now, quota, circuit, ledger, job >>

Running == {"calling", "sleeping"}
Ended == {"succeeded", "failed", "ineligible", "cancelled"}

\* position: index of the model in the candidates; retry: retry_index.
NewJob == [phase |-> "idle", position |-> 0, retry |-> 0,
           excluded |-> {}, attempts |-> << >>]

Model(j) == Candidates[j][job[j].position]

EstimateFor(j, m) == Estimate(Price[m], Request[j])

\* The reservation job j asks for next, or holds while it calls model m.  The
\* code draws a uuid4; job and call identify it as well.
ReservationFor(j, m) ==
    Reservation(<< j, Len(job[j].attempts) + 1 >>, EstimateFor(j, m))

Held(j) == ReservationFor(j, Model(j))

-----------------------------------------------------------------------------
(* The search for the next model to call: the iterations of the for loop    *)
(* over the candidates up to the next suspension.  q, c and r are the quota *)
(* states, the circuits and the job record when the search starts.          *)

\* The loop reaches try_reserve at candidate i.
Tried(j, i, c, r) ==
    LET m == Candidates[j][i]
    IN  /\ ProviderOf[m] \notin r.excluded
        /\ CanAttempt(c[ProviderOf[m]], now)
        /\ MaxRetries[m] >= 0

Admitted(j, m, q) ==
    Admits(Roll(q[m], now, 0), ModelLimits[m], EstimateFor(j, m))

\* Faulty variant: the first refused reservation ends the search.
NextCallOrNone(j, from, q, c, r) ==
    LET n     == Len(Candidates[j])
        first == Min({ i \in from .. n : Tried(j, i, c, r) } \cup {n + 1})
    IN  IF first <= n /\ Admitted(j, Candidates[j][first], q) THEN first ELSE n + 1

\* The candidate at or after `from' that gets a reservation, or one past the end.
NextCall(j, from, q, c, r) ==
    Min({ i \in from .. Len(Candidates[j]) :
            Tried(j, i, c, r) /\ Admitted(j, Candidates[j][i], q) }
        \cup {Len(Candidates[j]) + 1})

\* Every model tried on the way is rolled; the last one is reserved.
Searched(j, from, q, c, r) ==
    LET next  == NextCall(j, from, q, c, r)
        id    == << j, Len(r.attempts) + 1 >>
        tried == { Candidates[j][i] : i \in { k \in from .. Len(Candidates[j]) :
                                                k <= next /\ Tried(j, k, c, r) } }
    IN  [m \in Models |->
            IF m \notin tried THEN q[m] ELSE
            LET rolled == Roll(q[m], now, 0)
            IN  IF next <= Len(Candidates[j]) /\ m = Candidates[j][next]
                THEN Reserve(rolled, Reservation(id, EstimateFor(j, m)), now)
                ELSE rolled]

Search(j, from, q, c, r) ==
    LET next == NextCall(j, from, q, c, r)
    IN  /\ quota' = Searched(j, from, q, c, r)
        /\ circuit' = c
        /\ job' = [job EXCEPT ![j] =
               IF next <= Len(Candidates[j])
               THEN [r EXCEPT !.phase = "calling", !.position = next, !.retry = 0]
               ELSE [r EXCEPT !.phase = "failed"]]

-----------------------------------------------------------------------------
Init ==
    /\ now = 0
    /\ quota = [m \in Models |-> FreshState(0)]
    /\ circuit = [p \in Providers |-> NewCircuit]
    /\ ledger = << >>
    /\ job = [j \in Jobs |-> NewJob]

\* NoEligibleModelsError when there is no candidate.
Start(j) ==
    /\ job[j].phase = "idle"
    /\ IF Candidates[j] = << >>
       THEN /\ job' = [job EXCEPT ![j].phase = "ineligible"]
            /\ UNCHANGED << quota, circuit >>
       ELSE Search(j, 1, quota, circuit, job[j])
    /\ UNCHANGED << now, ledger >>

Attempt(j, outcome) ==
    [model |-> Model(j), number |-> job[j].retry + 1, outcome |-> outcome]

\* Faulty variant: the answer is booked and the retry loop goes on.
SucceedUnreturned(j, usage) ==
    LET m == Model(j)
    IN  /\ job[j].phase = "calling"
        /\ quota' = [quota EXCEPT ![m] = CommitUsage(@, Held(j), usage)]
        /\ ledger' = Append(ledger, [job |-> j, model |-> m, usage |-> usage])
        /\ job' = [job EXCEPT ![j].phase = "sleeping",
                              ![j].attempts = Append(@, Attempt(j, "success"))]
        /\ UNCHANGED << now, circuit >>

Succeed(j, usage) ==
    LET m == Model(j)
        p == ProviderOf[m]
    IN  /\ job[j].phase = "calling"
        /\ quota' = [quota EXCEPT ![m] = CommitUsage(@, Held(j), usage)]
        /\ circuit' = [circuit EXCEPT ![p] = AfterSuccess(@)]
        /\ ledger' = Append(ledger, [job |-> j, model |-> m, usage |-> usage])
        /\ job' = [job EXCEPT ![j].phase = "succeeded",
                              ![j].attempts = Append(@, Attempt(j, "success"))]
        /\ UNCHANGED now

\* The job after a failed attempt, before it goes on.
AfterAttempt(j, error) ==
    [job[j] EXCEPT
        !.attempts = Append(@, Attempt(j, error)),
        !.excluded = IF error \in ProviderWideErrors THEN @ \cup {ProviderOf[Model(j)]}
                                                     ELSE @]

\* Faulty variant: a retry too many.
RetriesOnceMore(j, error) ==
    /\ error \in TransientErrors
    /\ job[j].retry <= MaxRetries[Model(j)]

CircuitAfter(p, error) ==
    IF error \in ProviderWideErrors THEN circuit
    ELSE [circuit EXCEPT ![p] = AfterFailure(@, now)]

Retries(j, error) ==
    /\ error \in TransientErrors
    /\ job[j].retry < MaxRetries[Model(j)]

\* The reservation is released, the circuit hears of the failure, and the job
\* sleeps before a retry or goes on to the next candidate.
Fail(j, error) ==
    LET m == Model(j)
        q == [quota EXCEPT ![m] = ReleaseEstimate(@, Held(j))]
        c == CircuitAfter(ProviderOf[m], error)
        r == AfterAttempt(j, error)
    IN  /\ job[j].phase = "calling"
        /\ IF Retries(j, error)
           THEN /\ quota' = q
                /\ circuit' = c
                /\ job' = [job EXCEPT ![j] = [r EXCEPT !.phase = "sleeping"]]
           ELSE Search(j, job[j].position + 1, q, c, r)
        /\ UNCHANGED << now, ledger >>

\* Faulty variant: a refused job goes on sleeping until there is quota again.
WakeWhenAdmitted(j) ==
    LET m == Model(j)
    IN  /\ job[j].phase = "sleeping"
        /\ Admitted(j, m, quota)
        /\ quota' = [quota EXCEPT ![m] = Reserve(Roll(@, now, 0), Held(j), now)]
        /\ job' = [job EXCEPT ![j].phase = "calling", ![j].retry = @ + 1]
        /\ UNCHANGED << now, circuit, ledger >>

\* The sleep is over: try_reserve the same model again, without asking the
\* circuit.  A refusal ends the retries of this model.
Wake(j) ==
    LET m      == Model(j)
        rolled == [quota EXCEPT ![m] = Roll(@, now, 0)]
    IN  /\ job[j].phase = "sleeping"
        /\ IF Admitted(j, m, quota)
           THEN /\ quota' = [rolled EXCEPT ![m] = Reserve(@, Held(j), now)]
                /\ job' = [job EXCEPT ![j].phase = "calling", ![j].retry = @ + 1]
                /\ UNCHANGED circuit
           ELSE Search(j, job[j].position + 1, rolled, circuit, job[j])
        /\ UNCHANGED << now, ledger >>

\* Faulty variant: nobody releases what a cancelled call had reserved.
CancelOnly(j) ==
    /\ job[j].phase \in Running
    /\ job' = [job EXCEPT ![j].phase = "cancelled"]
    /\ UNCHANGED << now, quota, circuit, ledger >>

\* The task is cancelled where it is suspended.
Cancel(j) ==
    /\ job[j].phase \in Running
    /\ quota' = IF job[j].phase = "calling"
                THEN [quota EXCEPT ![Model(j)] = ReleaseEstimate(@, Held(j))]
                ELSE quota
    /\ job' = [job EXCEPT ![j].phase = "cancelled"]
    /\ UNCHANGED << now, circuit, ledger >>

\* health: each provider's check reports on its own, whenever it ends.
Probe(p, healthy) ==
    /\ ~ healthy => circuit[p].failures < MaxFailures
    /\ circuit' = [circuit EXCEPT ![p] = IF healthy THEN AfterSuccess(@)
                                                    ELSE AfterFailure(@, now)]
    /\ UNCHANGED << now, quota, ledger, job >>

\* The ledger's snapshot: what its records add up to for one model.
LedgerTotals(m) ==
    LET records == { i \in 1 .. Len(ledger) : ledger[i].model = m }
        total(field) == SumFunction([i \in records |-> ledger[i].usage[field]])
    IN  [requests |-> Cardinality(records), tokens |-> total("tokens"), cost |-> total("cost")]

\* health, once every check has ended: the quota snapshot rolls every model.
Snapshot ==
    /\ quota' = [m \in Models |-> Roll(quota[m], now, 0)]
    /\ UNCHANGED << now, circuit, ledger, job >>

Tick ==
    /\ now < MaxTime
    /\ now' = now + 1
    /\ UNCHANGED << quota, circuit, ledger, job >>

Answer(j) ==
    \/ \E usage \in Usages : Succeed(j, usage)
    \/ \E error \in Errors : Fail(j, error)

Next ==
    \/ \E j \in Jobs : Start(j) \/ Answer(j) \/ Wake(j) \/ Cancel(j)
    \/ \E p \in Providers : \E healthy \in BOOLEAN : Probe(p, healthy)
    \/ Snapshot
    \/ Tick

Spec == Init /\ [][Next]_vars

\* wait_for bounds every call, and a sleep of a finite delay ends.
FairSpec == Spec /\ \A j \in Jobs : WF_vars(Answer(j)) /\ WF_vars(Wake(j))

-----------------------------------------------------------------------------
(* Properties.                                                              *)

QuotaReservation == [id : Jobs \X Nat, tokens : Int, cost : Int]
QuotaState == [requestTimes : Seq(Nat),
               tokenEvents : Seq([at : Nat, id : Jobs \X Nat, tokens : Int]),
               day : {0}, dailyRequests : Nat, dailyTokens : Int, dailyCost : Int,
               reservations : SUBSET QuotaReservation]
UsageRecord == [job : Jobs, model : Models, usage : Amount]
AttemptRecord == [model : Models, number : Nat, outcome : ErrorTypes \cup {"success"}]
Job == [phase : {"idle"} \cup Running \cup Ended, position : Nat, retry : Nat,
        excluded : SUBSET Providers, attempts : Seq(AttemptRecord)]

\* Every variable has its type, and a running job is at one of its candidates.
TypeOK ==
    /\ now \in 0 .. MaxTime
    /\ quota \in [Models -> QuotaState]
    /\ circuit \in [Providers -> Circuit]
    /\ ledger \in Seq(UsageRecord)
    /\ job \in [Jobs -> Job]
    /\ \A j \in Jobs : job[j].phase \in Running => job[j].position \in 1 .. Len(Candidates[j])

Calling(m) == { j \in Jobs : job[j].phase = "calling" /\ Model(j) = m }

\* The open reservations of a model are those of the calls in flight to it: a
\* job that ended, sleeps or went on to another model holds none, however its
\* calls ended.
ReservationsHeld ==
    \A m \in Models : quota[m].reservations = { Held(j) : j \in Calling(m) }

\* The tracker and the ledger keep the same books, as the two snapshots of health
\* show them: what a model is charged for the day is the total of its records plus
\* the estimates of the calls in flight.  (The tracker clamps negative usage, the
\* ledger does not.)
BooksBalance ==
    (\A i \in 1 .. Len(ledger) : ledger[i].usage.tokens >= 0 /\ ledger[i].usage.cost >= 0) =>
        \A m \in Models :
            LET totals == LedgerTotals(m)
                held(field) == SumFunction([j \in Calling(m) |-> Held(j)[field]])
            IN  /\ quota[m].dailyTokens = totals.tokens + held("tokens")
                /\ quota[m].dailyCost = totals.cost + held("cost")
                /\ quota[m].dailyRequests >= totals.requests + Cardinality(Calling(m))

AttemptsOn(j, m) == { k \in 1 .. Len(job[j].attempts) : job[j].attempts[k].model = m }

\* The job's last call to m is in flight, or was when the job was cancelled.
Unanswered(j, m) ==
    /\ job[j].phase \in {"calling", "cancelled"}
    /\ Model(j) = m
    /\ \A k \in AttemptsOn(j, m) : job[j].attempts[k].number # job[j].retry + 1

CallsTo(m) ==
    SumFunction([j \in Jobs |-> Cardinality(AttemptsOn(j, m)) + (IF Unanswered(j, m) THEN 1 ELSE 0)])

\* Every call to a provider, retries and cancelled ones included, is one request
\* of the daily counter, and no interleaving of jobs makes more calls to a model
\* than its requests_per_day.
CallsWithinDailyLimit ==
    \A m \in Models :
        /\ quota[m].dailyRequests = CallsTo(m)
        /\ ModelLimits[m].requestsPerDay # NoLimit =>
               CallsTo(m) <= ModelLimits[m].requestsPerDay

\* No error of job j speaks against the provider of model m, and its circuit is
\* not open now.
LetThrough(j, m, attempts) ==
    /\ \A k \in 1 .. Len(attempts) :
           attempts[k].outcome \in ProviderWideErrors =>
               ProviderOf[attempts[k].model] # ProviderOf[m]
    /\ CanAttempt(circuit'[ProviderOf[m]], now)

\* Model m, called now, would be let through, and its quota has room.
UsableBy(j, m, attempts) ==
    /\ MaxRetries[m] >= 0
    /\ LetThrough(j, m, attempts)
    /\ Admits(Roll(quota'[m], now, 0), ModelLimits[m], EstimateFor(j, m))

\* The job leaves the candidate it was at, for another one or for good.
MovesOn(j) ==
    \/ job'[j].phase = "failed" /\ job[j].phase # "failed"
    \/ job'[j].phase = "calling" /\ job'[j].position # job[j].position

\* The job goes on to the first usable candidate behind the one it was at, and calls
\* no provider that refused it or whose circuit is open.
GoesToFirstUsable(j) ==
    LET end  == Len(Candidates[j]) + 1
        next == IF job'[j].phase = "failed" THEN end ELSE job'[j].position
    IN  /\ \A i \in job[j].position + 1 .. next - 1 :
               ~ UsableBy(j, Candidates[j][i], job'[j].attempts)
        /\ next < end => LetThrough(j, Candidates[j][next], job'[j].attempts)

\* A job goes on to the first candidate behind the one it was at that is usable at
\* that very moment, after all its own step did to quotas and circuits: it skips no
\* usable one, gives up only when there is none, and calls no provider that refused
\* it or whose circuit is open.  (Only a retry calls without asking the circuit.)
FirstUsableIsCalled ==
    [][\A j \in Jobs : MovesOn(j) => GoesToFirstUsable(j)]_vars

\* Every job that called a provider ends: answered, failed or cancelled.
JobsEnd == \A j \in Jobs : job[j].phase \in Running ~> job[j].phase \in Ended

-----------------------------------------------------------------------------
(* The promise to the callers (RouteSpec) and how the program keeps it: a   *)
(* job that calls or sleeps is at work for its caller, the attempts are the *)
(* list in the code, and of a ledger record it matters whose it is.          *)

StatusOf(j) ==
    CASE job[j].phase = "idle"      -> "asked"
      [] job[j].phase \in Running   -> "working"
      [] job[j].phase = "succeeded" -> "answered"
      [] OTHER                      -> job[j].phase

Promise == INSTANCE RouteSpec WITH
    status    <- [j \in Jobs |-> StatusOf(j)],
    attempts  <- [j \in Jobs |-> job[j].attempts],
    billed    <- [i \in 1 .. Len(ledger) |->
                     [job |-> ledger[i].job, model |-> ledger[i].model]],
    Transient <- TransientErrors,
    Refusals  <- ProviderWideErrors,
    Permanent <- {"ProviderPermanentError"}

\* However jobs, quotas, circuits, health checks and cancellations interleave,
\* every step of the program is one that RouteSpec allows: one record per answer,
\* candidates in order, no retry but after a transient error and within
\* max_retries, no call to a provider that refused the job.
KeepsPromise == Promise!Spec
=============================================================================
