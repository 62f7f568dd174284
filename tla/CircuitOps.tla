----------------------------- MODULE CircuitOps -----------------------------
(***************************************************************************)
(* The operations of CircuitBreaker (health.py) on the CircuitState of one  *)
(* provider.  Each is a critical section of the breaker's asyncio.Lock that *)
(* awaits nothing, hence a function on the state.  last_success_at and      *)
(* last_failure_at, which only the status page reads, are left out.         *)
(***************************************************************************)
EXTENDS Integers

CONSTANTS
    FailureThreshold,   \* consecutive failures that open the circuit
    Cooldown,           \* seconds an open circuit keeps callers away
    Never               \* opened_at of a circuit that is not open (None)

\* The configuration loader checks neither number: both may be zero or negative.
ASSUME CircuitAssumption ==
    /\ FailureThreshold \in Int
    /\ Cooldown \in Int
    /\ Never \notin Int

Circuit == [failures : Nat, openedAt : Nat \cup {Never}]

NewCircuit == [failures |-> 0, openedAt |-> Never]

\* Faulty variant, for mutation: one second too early.
CanAttemptEarly(circuit, now) ==
    circuit.openedAt # Never => now - circuit.openedAt >= Cooldown - 1

CanAttempt(circuit, now) ==
    circuit.openedAt # Never => now - circuit.openedAt >= Cooldown

\* Faulty variant: a success closes the circuit and forgets to reset the count.
AfterSuccessKeepingCount(circuit) == [circuit EXCEPT !.openedAt = Never]

AfterSuccess(circuit) == NewCircuit

\* Faulty variant: opened a cooldown ago, to let a trial call through at once.
AfterFailureBackdated(circuit, now) ==
    LET failures == circuit.failures + 1
    IN  [failures |-> failures,
         openedAt |-> IF failures >= FailureThreshold THEN now - Cooldown ELSE circuit.openedAt]

AfterFailure(circuit, now) ==
    LET failures == circuit.failures + 1
    IN  [failures |-> failures,
         openedAt |-> IF failures >= FailureThreshold THEN now ELSE circuit.openedAt]
=============================================================================
