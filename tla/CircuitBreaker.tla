--------------------------- MODULE CircuitBreaker ---------------------------
(***************************************************************************)
(* The circuit of one provider.  Calls pass its gate when they begin and    *)
(* report their outcome when they end, in any order and however long after  *)
(* the circuit has changed; the health check reports without passing the    *)
(* gate (router.py, health).  `outcomes' is history: the reports, in the    *)
(* order in which they arrive.                                              *)
(***************************************************************************)
EXTENDS CircuitOps, Sequences

CONSTANTS
    MaxTime,       \* bound: seconds of monotonic time explored
    MaxCalls,      \* bound: calls in flight at once
    MaxOutcomes    \* bound: reports explored

ASSUME CircuitBoundsAssumption ==
    /\ MaxTime \in Nat
    /\ MaxCalls \in Nat
    /\ MaxOutcomes \in Nat

VARIABLES
    now,        \* time.monotonic()
    circuit,    \* the provider's CircuitState
    calls,      \* number of calls in flight
    outcomes    \* history: [ok, at] of every report

vars == << now, circuit, calls, outcomes >>

Init ==
    /\ now = 0
    /\ circuit = NewCircuit
    /\ calls = 0
    /\ outcomes = << >>

\* can_attempt lets a call through.  There is no half-open state: once the
\* cooldown is over everybody is let through.
Begin ==
    /\ calls < MaxCalls
    /\ CanAttempt(circuit, now)
    /\ calls' = calls + 1
    /\ UNCHANGED << now, circuit, outcomes >>

Report(ok) ==
    /\ Len(outcomes) < MaxOutcomes
    /\ circuit' = IF ok THEN AfterSuccess(circuit) ELSE AfterFailure(circuit, now)
    /\ outcomes' = Append(outcomes, [ok |-> ok, at |-> now])
    /\ UNCHANGED now

End ==
    /\ calls > 0
    /\ \E ok \in BOOLEAN : Report(ok)
    /\ calls' = calls - 1

\* The call ends in an error that says nothing of the provider's health
\* (authentication, quota, rate limit) or is cancelled: nothing is reported.
EndUnreported ==
    /\ calls > 0
    /\ calls' = calls - 1
    /\ UNCHANGED << now, circuit, outcomes >>

Probe ==
    /\ \E ok \in BOOLEAN : Report(ok)
    /\ UNCHANGED calls

Tick ==
    /\ now < MaxTime
    /\ now' = now + 1
    /\ UNCHANGED << circuit, calls, outcomes >>

Next == Begin \/ End \/ EndUnreported \/ Probe \/ Tick

Spec == Init /\ [][Next]_vars

-----------------------------------------------------------------------------
(* Properties.                                                              *)

Outcome == [ok : BOOLEAN, at : Nat]

\* Every variable has its type.
TypeOK ==
    /\ now \in 0 .. MaxTime
    /\ circuit \in Circuit
    /\ calls \in 0 .. MaxCalls
    /\ outcomes \in Seq(Outcome)

\* The last n reports are failures.
FailingRun(n) ==
    /\ n <= Len(outcomes)
    /\ \A i \in Len(outcomes) - n + 1 .. Len(outcomes) : ~ outcomes[i].ok

\* A threshold of zero or less opens the circuit at the first failure.
OpeningRun == IF FailureThreshold > 1 THEN FailureThreshold ELSE 1

\* consecutive_failures is the length of the run of failures that the reports
\* end with: late reports of old calls and probes count like any other.
FailuresExact ==
    /\ FailingRun(circuit.failures)
    /\ ~ FailingRun(circuit.failures + 1)

\* The gate is shut exactly when the last failure_threshold reports are all
\* failures and the latest of them came less than a cooldown ago: nothing but
\* a success or the full cooldown AFTER the last failure opens it again.
GateExact ==
    CanAttempt(circuit, now) <=>
        ~ /\ FailingRun(OpeningRun)
          /\ now - outcomes[Len(outcomes)].at < Cooldown
=============================================================================
