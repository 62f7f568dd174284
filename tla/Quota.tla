------------------------------- MODULE Quota -------------------------------
(***************************************************************************)
(* InMemoryQuotaTracker for one model, used by any number of concurrent     *)
(* jobs: each may reserve, and settle what it reserved (commit or release)  *)
(* at any later moment, more than once, while monotonic time advances and   *)
(* the UTC date changes.  The states of different models share nothing, so  *)
(* one is enough.                                                           *)
(*                                                                         *)
(* `grants' is history the code does not keep: one record per reservation   *)
(* ever given out.  The properties compare it with the tracker's counters.  *)
(***************************************************************************)
EXTENDS QuotaOps

CONSTANTS
    ModelLimits,   \* the limits of the model's ModelConfig
    Price,         \* its cost per input and output token
    Requests,      \* the estimates callers ask for: [input, output]
    Usages,        \* what providers report to have used
    MaxTime,       \* bound: seconds of monotonic time explored
    MaxDay,        \* bound: midnights explored
    MaxGrants      \* bound: reservations explored

ASSUME QuotaAssumption ==
    /\ ModelLimits \in Limits
    /\ Price \in [input : Nat, output : Nat]
    /\ Requests \subseteq [input : Int, output : Int]
    /\ Usages \subseteq Amount
    /\ MaxTime \in Nat
    /\ MaxDay \in Nat
    /\ MaxGrants \in Nat

VARIABLES
    now,      \* time.monotonic()
    today,    \* datetime.now(UTC).date()
    state,    \* the model's _QuotaState
    grants    \* history: the reservations given out, in order

vars == << now, today, state, grants >>

\* A reservation's id is its position in `grants' (a fresh uuid4 in the code).
Handle(i) == Reservation(i, grants[i].estimate)

Live(i) == grants[i].at > now - Window

-----------------------------------------------------------------------------
Init ==
    /\ now = 0
    /\ today = 0
    /\ state = FreshState(0)
    /\ grants = << >>

\* try_reserve: roll, then either reserve or return None.
TryReserve(request) ==
    LET rolled   == Roll(state, now, today)
        estimate == Estimate(Price, request)
    IN  /\ \/ /\ Len(grants) < MaxGrants
              /\ Admits(rolled, ModelLimits, estimate)
              /\ state' = Reserve(rolled, Reservation(Len(grants) + 1, estimate), now)
              /\ grants' = Append(grants, [at |-> now, day |-> today,
                                           estimate |-> estimate, charge |-> estimate,
                                           open |-> TRUE, late |-> FALSE])
           \/ /\ ~ Admits(rolled, ModelLimits, estimate)
              /\ state' = rolled
              /\ UNCHANGED grants
        /\ UNCHANGED << now, today >>

\* History of the first settlement of grant i.  It is late when the tracker
\* already counts another day than the one the grant was counted in.
SettledGrant(grant, charge) ==
    [at |-> grant.at, day |-> grant.day, estimate |-> grant.estimate,
     charge |-> charge, open |-> FALSE, late |-> state.day # grant.day]

Settle(i, charge) ==
    grants' = IF grants[i].open
              THEN [grants EXCEPT ![i] = SettledGrant(@, charge)]
              ELSE grants

Commit(i, usage) ==
    /\ state' = CommitUsage(state, Handle(i), usage)
    /\ Settle(i, [tokens |-> NonNegative(usage.tokens), cost |-> NonNegative(usage.cost)])
    /\ UNCHANGED << now, today >>

Release(i) ==
    /\ state' = ReleaseEstimate(state, Handle(i))
    /\ Settle(i, [tokens |-> 0, cost |-> 0])
    /\ UNCHANGED << now, today >>

\* snapshot rolls the windows of every model it reports.
Snapshot ==
    /\ state' = Roll(state, now, today)
    /\ UNCHANGED << now, today, grants >>

Tick ==
    /\ now < MaxTime
    /\ now' = now + 1
    /\ UNCHANGED << today, state, grants >>

Midnight ==
    /\ today < MaxDay
    /\ today' = today + 1
    /\ UNCHANGED << now, state, grants >>

Next ==
    \/ \E request \in Requests : TryReserve(request)
    \/ \E i \in 1 .. Len(grants) : Release(i) \/ \E usage \in Usages : Commit(i, usage)
    \/ Snapshot
    \/ Tick
    \/ Midnight

Spec == Init /\ [][Next]_vars

-----------------------------------------------------------------------------
(* Properties.                                                              *)

Grant == [at : Nat, day : Nat, estimate : Amount, charge : Amount,
          open : BOOLEAN, late : BOOLEAN]

State == [requestTimes : Seq(Nat),
          tokenEvents : Seq([at : Nat, id : Nat, tokens : Int]),
          day : Nat, dailyRequests : Nat, dailyTokens : Int, dailyCost : Int,
          reservations : SUBSET [id : Nat, tokens : Int, cost : Int]]

\* Every variable has its type: counters are integers, stamps and days natural.
TypeOK ==
    /\ now \in 0 .. MaxTime
    /\ today \in 0 .. MaxDay
    /\ state \in State
    /\ grants \in Seq(Grant)

\* requests_per_minute holds in EVERY window of the last minute's length, not
\* only the one in force at some check: the grant made requests_per_minute
\* grants after another one comes at least a window later, whatever was
\* released, committed, rolled or refused in between.
RequestsPerMinute ==
    ModelLimits.requestsPerMinute # NoLimit =>
        \A i, j \in 1 .. Len(grants) :
            j = i + ModelLimits.requestsPerMinute =>
                grants[j].at - grants[i].at >= Window

\* requests_per_day holds for every UTC day: a release gives back tokens and
\* money but never the request (docstring of release).
RequestsPerDay ==
    ModelLimits.requestsPerDay # NoLimit =>
        \A i, j \in 1 .. Len(grants) :
            j = i + ModelLimits.requestsPerDay => grants[j].day > grants[i].day

\* The reservations dict holds exactly the grants nobody has settled yet: none
\* is leaked by a late or repeated settlement, none is dropped by a roll.
ReservationsMatch ==
    state.reservations = { Handle(i) : i \in { k \in 1 .. Len(grants) : grants[k].open } }

Charged(S, field) == SumFunction([i \in S |-> grants[i].charge[field]])

\* The sliding token window charges each recent grant what it is known to have
\* used: the estimate while it is open, the usage once committed, nothing once
\* released.  (Live grants only: expired events linger until the next roll.)
WindowTokensExact ==
    MinuteTokens(Roll(state, now, today)) =
        Charged({ i \in 1 .. Len(grants) : Live(i) }, "tokens")

\* As long as no reservation outlives the day it was made in, the daily
\* counters are exactly what the day's grants are charged.
DailyExact ==
    LET ofDay == { i \in 1 .. Len(grants) : grants[i].day = state.day }
    IN  (\A i \in 1 .. Len(grants) : ~ grants[i].late) =>
            /\ state.dailyTokens = Charged(ofDay, "tokens")
            /\ state.dailyCost = Charged(ofDay, "cost")
            /\ state.dailyRequests = Cardinality(ofDay)

\* What admission promises of a step: see AdmissionWithinLimits.
GrantsFit ==
    Len(grants') > Len(grants) =>
        LET recent == { i \in 1 .. Len(grants') : grants'[i].at > now - Window }
            ofDay  == { i \in 1 .. Len(grants') : grants'[i].day = today }
            charged(S, field) == SumFunction([i \in S |-> grants'[i].charge[field]])
            noneLate == \A i \in 1 .. Len(grants') : ~ grants'[i].late
        IN  /\ ModelLimits.tokensPerMinute # NoLimit =>
                   charged(recent, "tokens") <= ModelLimits.tokensPerMinute
            /\ noneLate /\ ModelLimits.tokensPerDay # NoLimit =>
                   charged(ofDay, "tokens") <= ModelLimits.tokensPerDay
            /\ noneLate /\ ModelLimits.dailyCost # NoLimit =>
                   charged(ofDay, "cost") <= ModelLimits.dailyCost

\* tokens_per_minute and the daily limits bind when a job is admitted: right
\* after a grant, what all grants of the window (of the day, when none was
\* settled late) are charged is within the limit, even if earlier usage
\* overshot its estimate.
AdmissionWithinLimits == [][GrantsFit]_vars

\* As long as no usage has exceeded its estimate, tokens_per_minute holds over
\* every window that ends with a grant, for good.
TokensPerMinute ==
    (/\ ModelLimits.tokensPerMinute # NoLimit
     /\ \A i \in 1 .. Len(grants) : grants[i].charge.tokens <= grants[i].estimate.tokens)
    => \A j \in 1 .. Len(grants) :
            Charged({ i \in 1 .. j : grants[i].at > grants[j].at - Window }, "tokens")
                <= ModelLimits.tokensPerMinute

\* When no usage exceeds its estimate: what the grants of one UTC day are
\* charged is within tokens_per_day (README: "tokens-per-minute/day limits").
TokensPerDay ==
    ModelLimits.tokensPerDay # NoLimit =>
        \A day \in 0 .. today :
            Charged({ i \in 1 .. Len(grants) : grants[i].day = day }, "tokens")
                <= ModelLimits.tokensPerDay
=============================================================================
