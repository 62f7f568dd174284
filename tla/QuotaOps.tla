------------------------------ MODULE QuotaOps ------------------------------
(***************************************************************************)
(* The operations of InMemoryQuotaTracker (quota.py) on the state it keeps  *)
(* for one model, _QuotaState.  Each operation is one critical section of   *)
(* the tracker's asyncio.Lock, and none of them awaits while it holds the   *)
(* lock, so each is a function from a state to the next one.  Quota.tla     *)
(* drives them by arbitrary callers, Router.tla by the routing loop.        *)
(*                                                                         *)
(* Seconds and days are natural numbers and money is counted in whole units *)
(* (the code's rounding of floats is left out).                            *)
(***************************************************************************)
EXTENDS Integers, Sequences, SequencesExt

CONSTANTS
    Window,   \* length in seconds of the sliding window (60.0 in the code)
    NoLimit   \* a limit that is not configured (None)

ASSUME WindowAssumption == Window \in Nat \ {0}
ASSUME NoLimitAssumption == NoLimit \notin Int

-----------------------------------------------------------------------------
(* Data: what a caller estimates or reports, a reservation, a state.        *)

Amount == [tokens : Int, cost : Int]

Limit == Nat \cup {NoLimit}
Limits == [requestsPerMinute : Limit, requestsPerDay : Limit,
           tokensPerMinute : Limit, tokensPerDay : Limit,
           dailyCost : Limit]

NonNegative(n) == IF n > 0 THEN n ELSE 0

EstimateCost(price, input, output) ==
    input * price.input + output * price.output

\* What try_reserve charges for a request before it knows the real usage.
Estimate(price, request) ==
    LET input  == NonNegative(request.input)
        output == NonNegative(request.output)
    IN  [tokens |-> input + output, cost |-> EstimateCost(price, input, output)]

Reservation(id, estimate) ==
    [id |-> id, tokens |-> estimate.tokens, cost |-> estimate.cost]

FreshState(today) ==
    [requestTimes |-> << >>, tokenEvents |-> << >>, day |-> today,
     dailyRequests |-> 0, dailyTokens |-> 0, dailyCost |-> 0,
     reservations |-> {}]

-----------------------------------------------------------------------------
(* _roll_windows: drop the expired prefix of both deques, and zero the      *)
(* daily counters when the UTC date is no longer the one they are for.      *)

\* Index of the first stamp that the popleft loop keeps.
FirstLive(stamps, cutoff) ==
    Min({ i \in 1 .. Len(stamps) : stamps[i] > cutoff } \cup {Len(stamps) + 1})

Stamps(events) == [i \in 1 .. Len(events) |-> events[i].at]

RollTo(state, cutoff, today) ==
    LET sameDay == state.day = today
    IN  [requestTimes  |-> SubSeq(state.requestTimes,
                                  FirstLive(state.requestTimes, cutoff),
                                  Len(state.requestTimes)),
         tokenEvents   |-> SubSeq(state.tokenEvents,
                                  FirstLive(Stamps(state.tokenEvents), cutoff),
                                  Len(state.tokenEvents)),
         day           |-> today,
         dailyRequests |-> IF sameDay THEN state.dailyRequests ELSE 0,
         dailyTokens   |-> IF sameDay THEN state.dailyTokens ELSE 0,
         dailyCost     |-> IF sameDay THEN state.dailyCost ELSE 0,
         reservations  |-> state.reservations]

\* Faulty variants, for mutation: a window one second short, and a roll that
\* forgets the open reservations together with the day they were made in.
RollEarly(state, now, today) == RollTo(state, now - Window + 1, today)

RollForgetful(state, now, today) ==
    [RollTo(state, now - Window, today) EXCEPT
        !.reservations = IF state.day = today THEN @ ELSE {}]

Roll(state, now, today) == RollTo(state, now - Window, today)

-----------------------------------------------------------------------------
(* try_reserve, on a state that has just been rolled.                       *)

MinuteTokens(state) ==
    SumFunction([i \in 1 .. Len(state.tokenEvents) |-> state.tokenEvents[i].tokens])

Admits(state, limits, estimate) ==
    /\ limits.requestsPerMinute # NoLimit =>
           Len(state.requestTimes) < limits.requestsPerMinute
    /\ limits.requestsPerDay # NoLimit =>
           state.dailyRequests < limits.requestsPerDay
    /\ limits.tokensPerMinute # NoLimit =>
           MinuteTokens(state) + estimate.tokens <= limits.tokensPerMinute
    /\ limits.tokensPerDay # NoLimit =>
           state.dailyTokens + estimate.tokens <= limits.tokensPerDay
    /\ limits.dailyCost # NoLimit =>
           state.dailyCost + estimate.cost <= limits.dailyCost

\* Faulty variant: the tokens and the cost are charged by commit only.
ReserveUncharged(state, reservation, now) ==
    [state EXCEPT
        !.requestTimes  = Append(@, now),
        !.dailyRequests = @ + 1,
        !.reservations  = @ \cup {reservation}]

Reserve(state, reservation, now) ==
    [requestTimes  |-> Append(state.requestTimes, now),
     tokenEvents   |-> Append(state.tokenEvents, [at |-> now, id |-> reservation.id,
                                                  tokens |-> reservation.tokens]),
     day           |-> state.day,
     dailyRequests |-> state.dailyRequests + 1,
     dailyTokens   |-> state.dailyTokens + reservation.tokens,
     dailyCost     |-> state.dailyCost + reservation.cost,
     reservations  |-> state.reservations \cup {reservation}]

-----------------------------------------------------------------------------
(* commit and release.  Both first pop the reservation and return at once   *)
(* when it is no longer there; neither of them rolls the windows.           *)

Settled(state, reservation, dailyTokens, dailyCost, tokenEvents) ==
    [requestTimes  |-> state.requestTimes,
     tokenEvents   |-> tokenEvents,
     day           |-> state.day,
     dailyRequests |-> state.dailyRequests,
     dailyTokens   |-> dailyTokens,
     dailyCost     |-> dailyCost,
     reservations  |-> state.reservations \ {reservation}]

\* Faulty variants: a commit that does not check that the reservation was still
\* there, a release that gives the request back, one that leaves its token event.
CommitUnchecked(state, reservation, usage) ==
    Settled(state, reservation,
            state.dailyTokens + NonNegative(usage.tokens) - reservation.tokens,
            state.dailyCost, state.tokenEvents)

ReleaseRequestToo(state, reservation) ==
    IF reservation \notin state.reservations THEN state ELSE
        [state EXCEPT !.reservations  = @ \ {reservation},
                      !.dailyRequests = @ - 1]

ReleaseKeepingEvent(state, reservation) ==
    IF reservation \notin state.reservations THEN state ELSE
        Settled(state, reservation,
                NonNegative(state.dailyTokens - reservation.tokens),
                NonNegative(state.dailyCost - reservation.cost),
                state.tokenEvents)

CommitUsage(state, reservation, usage) ==
    LET actual == NonNegative(usage.tokens)
        charged(event) == IF event.id = reservation.id
                          THEN [event EXCEPT !.tokens = actual]
                          ELSE event
    IN  IF reservation \notin state.reservations THEN state ELSE
        Settled(state, reservation,
                state.dailyTokens + actual - reservation.tokens,
                state.dailyCost + NonNegative(usage.cost) - reservation.cost,
                [i \in 1 .. Len(state.tokenEvents) |-> charged(state.tokenEvents[i])])

\* (An id is in at most one event, so removing the first match is the filter.)
WithoutEvent(events, id) == RemoveFirstMatch(events, LAMBDA event : event.id = id)

ReleaseEstimate(state, reservation) ==
    IF reservation \notin state.reservations THEN state ELSE
        Settled(state, reservation,
                NonNegative(state.dailyTokens - reservation.tokens),
                NonNegative(state.dailyCost - reservation.cost),
                WithoutEvent(state.tokenEvents, reservation.id))
=============================================================================
