--------------------------- MODULE RoutingProofs ---------------------------
(***************************************************************************)
(* Theorems about what route() relies on: the circuit of a provider, the    *)
(* ranking of the models, and the time that one job takes, for every        *)
(* configuration, call, answer and duration.                                *)
(***************************************************************************)
EXTENDS CircuitBreaker, Registry, RouteTime, FoldProofs

-----------------------------------------------------------------------------
(* CircuitBreaker.                                                          *)
(*                                                                         *)
(* FailuresExact is inductive with TypeOK.  GateExact is not: it says what  *)
(* the gate answers now, and must be told of opened_at in the past.  The    *)
(* strengthening, OpenedExact, says which report opened_at is the time of.  *)

\* The circuit is open exactly while the reports end with a long enough run of
\* failures, and opened_at is the time of the last of them, not of the first.
OpenedExact ==
    /\ circuit.openedAt # Never <=> circuit.failures >= OpeningRun
    /\ circuit.openedAt # Never => circuit.openedAt = outcomes[Len(outcomes)].at

CircuitInv == TypeOK /\ FailuresExact /\ OpenedExact

\* A report as an action on the reports: what FailuresExact needs of one.
Reported(ok) ==
    /\ outcomes' = Append(outcomes, [ok |-> ok, at |-> now])
    /\ circuit' = IF ok THEN AfterSuccess(circuit) ELSE AfterFailure(circuit, now)

-----------------------------------------------------------------------------
\* The initial state satisfies the inductive invariant.
LEMMA InitCircuit == Init => CircuitInv
<1> SUFFICES ASSUME Init PROVE CircuitInv
  OBVIOUS
<1> USE CircuitAssumption, CircuitBoundsAssumption DEF Init, NewCircuit
<1>1. TypeOK
  BY DEF TypeOK, Circuit, Outcome
<1>2. FailuresExact
  BY DEF FailuresExact, FailingRun
<1>3. OpenedExact
  BY DEF OpenedExact, OpeningRun
<1> QED
  BY <1>1, <1>2, <1>3 DEF CircuitInv

\* A report keeps the circuit and the reports in their types.
LEMMA ReportType ==
    ASSUME TypeOK, NEW ok \in BOOLEAN, Reported(ok)
    PROVE  circuit' \in Circuit /\ outcomes' \in Seq(Outcome)
<1> USE CircuitAssumption, CircuitBoundsAssumption DEF TypeOK, Reported
<1>1. now \in Nat
  OBVIOUS
<1>2. circuit' \in Circuit
  BY <1>1 DEF Circuit, AfterSuccess, AfterFailure, NewCircuit
<1>3. [ok |-> ok, at |-> now] \in Outcome
  BY <1>1 DEF Outcome
<1> QED
  BY <1>2, <1>3

\* consecutive_failures stays the length of the final run of failures.
LEMMA ReportFailures ==
    ASSUME TypeOK, FailuresExact, NEW ok \in BOOLEAN, Reported(ok)
    PROVE  FailuresExact'
<1> DEFINE n == Len(outcomes)
<1>1. /\ outcomes \in Seq(Outcome) /\ n \in Nat
      /\ circuit.failures \in Nat
  BY DEF TypeOK, Circuit
<1>2. /\ Len(outcomes') = n + 1
      /\ outcomes'[n + 1].ok <=> ok
      /\ \A i \in 1 .. n : outcomes'[i] = outcomes[i]
  BY <1>1 DEF Reported
<1>3. CASE ok
  <2>1. circuit'.failures = 0
    BY <1>3 DEF Reported, AfterSuccess, NewCircuit
  <2>2. FailingRun(circuit.failures)'
    BY <1>1, <1>2, <2>1 DEF FailingRun
  <2>3. n + 1 \in Len(outcomes') - 1 + 1 .. Len(outcomes')
    BY <1>1, <1>2
  <2>4. ~ FailingRun(circuit.failures + 1)'
    BY <1>2, <1>3, <2>1, <2>3 DEF FailingRun
  <2> QED
    BY <2>2, <2>4 DEF FailuresExact
<1>4. CASE ~ ok
  <2>1. circuit'.failures = circuit.failures + 1
    BY <1>4 DEF Reported, AfterFailure
  <2> DEFINE f == circuit.failures
  <2>2. f <= n /\ \A i \in n - f + 1 .. n : ~ outcomes[i].ok
    BY DEF FailuresExact, FailingRun
  <2>3. f + 1 <= n => \E i \in n - f .. n : outcomes[i].ok
    BY <1>1 DEF FailuresExact, FailingRun
  <2> HIDE DEF f, n
  <2>4. f \in Nat /\ n \in Nat
    BY <1>1 DEF f, n
  <2>5. f + 1 <= n + 1 /\ \A i \in n + 1 - (f + 1) + 1 .. n + 1 : ~ outcomes'[i].ok
    <3> SUFFICES ASSUME NEW i \in n - f + 1 .. n + 1 PROVE ~ outcomes'[i].ok
      BY <2>2, <2>4
    <3> QED
      BY <1>2, <1>4, <2>2, <2>4 DEF n
  <2>6. ~ (/\ f + 2 <= n + 1
           /\ \A i \in n + 1 - (f + 2) + 1 .. n + 1 : ~ outcomes'[i].ok)
    <3> SUFFICES ASSUME f + 2 <= n + 1
                 PROVE  \E i \in n - f .. n + 1 : outcomes'[i].ok
      BY <2>4
    <3>1. PICK i \in n - f .. n : outcomes[i].ok
      BY <2>3, <2>4
    <3>2. i \in 1 .. n
      BY <2>4
    <3>3. outcomes'[i] = outcomes[i]
      BY <1>2, <3>2 DEF n
    <3> QED
      BY <2>4, <3>1, <3>3
  <2>7. Len(outcomes') = n + 1 /\ circuit'.failures = f + 1 /\ f + 1 + 1 = f + 2
    BY <1>2, <2>1, <2>4 DEF n, f
  <2>8. FailingRun(circuit.failures)'
    BY <2>4, <2>5, <2>7 DEF FailingRun
  <2>9. ~ FailingRun(circuit.failures + 1)'
    BY <2>4, <2>6, <2>7 DEF FailingRun
  <2> QED
    BY <2>8, <2>9 DEF FailuresExact
<1> QED
  BY <1>3, <1>4

\* opened_at stays the time of the last failure of a long enough run.
LEMMA ReportOpened ==
    ASSUME TypeOK, OpenedExact, NEW ok \in BOOLEAN, Reported(ok)
    PROVE  OpenedExact'
<1> USE CircuitAssumption, CircuitBoundsAssumption
<1>1. /\ circuit.failures \in Nat /\ now \in Nat
      /\ outcomes \in Seq(Outcome)
  BY DEF TypeOK, Circuit
<1>2. outcomes'[Len(outcomes')].at = now
  BY <1>1 DEF Reported
<1>3. CASE ok
  BY <1>3 DEF OpenedExact, Reported, AfterSuccess, NewCircuit, OpeningRun
<1>4. CASE ~ ok
  BY <1>1, <1>2, <1>4 DEF OpenedExact, Reported, AfterFailure, OpeningRun
<1> QED
  BY <1>3, <1>4

\* Every step preserves the inductive invariant.
LEMMA NextCircuit == CircuitInv /\ [Next]_vars => CircuitInv'
<1> SUFFICES ASSUME CircuitInv, [Next]_vars PROVE CircuitInv'
  OBVIOUS
<1>1. TypeOK /\ FailuresExact /\ OpenedExact
  BY DEF CircuitInv
<1> USE CircuitAssumption, CircuitBoundsAssumption
<1>2. ASSUME UNCHANGED << circuit, outcomes >>, now' \in 0 .. MaxTime, calls' \in 0 .. MaxCalls
      PROVE  CircuitInv'
  BY <1>1, <1>2 DEF CircuitInv, TypeOK, FailuresExact, FailingRun, OpenedExact
<1>3. ASSUME NEW ok \in BOOLEAN, Report(ok), calls' \in 0 .. MaxCalls
      PROVE  CircuitInv'
  <2>1. Reported(ok) /\ now' = now
    BY <1>3 DEF Report, Reported
  <2>2. TypeOK'
    BY <1>1, <1>3, <2>1, ReportType DEF TypeOK
  <2> QED
    BY <1>1, <2>1, <2>2, ReportFailures, ReportOpened DEF CircuitInv
<1>4. CASE Begin
  BY <1>1, <1>2, <1>4 DEF Begin, TypeOK
<1>5. CASE End
  <2>1. calls' \in 0 .. MaxCalls
    BY <1>1, <1>5 DEF End, TypeOK
  <2>2. PICK ok \in BOOLEAN : Report(ok)
    BY <1>5 DEF End
  <2> QED
    BY <1>3, <2>1, <2>2
<1>6. CASE EndUnreported
  BY <1>1, <1>2, <1>6 DEF EndUnreported, TypeOK
<1>7. CASE Probe
  <2>1. calls' \in 0 .. MaxCalls
    BY <1>1, <1>7 DEF Probe, TypeOK
  <2>2. PICK ok \in BOOLEAN : Report(ok)
    BY <1>7 DEF Probe
  <2> QED
    BY <1>3, <2>1, <2>2
<1>8. CASE Tick
  BY <1>1, <1>2, <1>8 DEF Tick, TypeOK
<1>9. CASE UNCHANGED vars
  BY <1>1, <1>2, <1>9 DEF vars, TypeOK
<1> QED
  BY <1>4, <1>5, <1>6, <1>7, <1>8, <1>9 DEF Next

\* The inductive invariant holds in every reachable state.
LEMMA SpecCircuit == Spec => []CircuitInv
  BY InitCircuit, NextCircuit, PTL DEF Spec

\* A run of n failures at the end is one at least as long as m.
LEMMA RunLength ==
    ASSUME TypeOK, FailuresExact, NEW m \in Nat
    PROVE  FailingRun(m) <=> m <= circuit.failures
<1> DEFINE f == circuit.failures
           n == Len(outcomes)
<1>1. f \in Nat /\ n \in Nat
  BY DEF TypeOK, Circuit
<1>2. f <= n /\ \A i \in n - f + 1 .. n : ~ outcomes[i].ok
  BY DEF FailuresExact, FailingRun
<1>3. f + 1 <= n => \E i \in n - f .. n : outcomes[i].ok
  BY <1>1 DEF FailuresExact, FailingRun
<1> HIDE DEF f, n
<1>4. ASSUME m <= f PROVE m <= n /\ \A i \in n - m + 1 .. n : ~ outcomes[i].ok
  BY <1>1, <1>2, <1>4
<1>5. ASSUME m > f, m <= n PROVE \E i \in n - m + 1 .. n : outcomes[i].ok
  BY <1>1, <1>3, <1>5
<1> QED
  BY <1>1, <1>4, <1>5 DEF FailingRun, f, n

-----------------------------------------------------------------------------
\* Every variable of the breaker and its history keeps its type.
THEOREM TypeCorrect == Spec => []TypeOK
<1>1. CircuitInv => TypeOK
  BY DEF CircuitInv
<1> QED
  BY <1>1, SpecCircuit, PTL

\* consecutive_failures counts the failures since the last success, whatever
\* order late answers and health checks report in.
THEOREM FailuresCounted == Spec => []FailuresExact
<1>1. CircuitInv => FailuresExact
  BY DEF CircuitInv
<1> QED
  BY <1>1, SpecCircuit, PTL

\* can_attempt refuses exactly while failure_threshold failures end the reports
\* and less than a cooldown has passed since the latest one.
THEOREM GateCorrect == Spec => []GateExact
<1>1. CircuitInv => GateExact
  <2> SUFFICES ASSUME CircuitInv PROVE GateExact
    OBVIOUS
  <2> USE CircuitAssumption, CircuitBoundsAssumption
  <2>1. TypeOK /\ FailuresExact /\ OpenedExact
    BY DEF CircuitInv
  <2>2. OpeningRun \in Nat
    BY DEF OpeningRun
  <2>3. FailingRun(OpeningRun) <=> circuit.failures >= OpeningRun
    BY <2>1, <2>2, RunLength DEF TypeOK, Circuit
  <2>4. now \in Int /\ (circuit.openedAt # Never => circuit.openedAt \in Int)
    BY <2>1 DEF TypeOK, Circuit
  <2> QED
    BY <2>1, <2>3, <2>4 DEF GateExact, OpenedExact, CanAttempt
<1> QED
  BY <1>1, SpecCircuit, PTL

-----------------------------------------------------------------------------
(* Registry: sorting.                                                       *)

\* The keys that sorted() compares: tuples of n integers.
Keys(n) == [1 .. n -> Int]

\* The comparison of tuples is a strict total order.
LEMMA TupleLessIrreflexive ==
    ASSUME NEW n \in Nat, NEW a \in Keys(n)
    PROVE  ~ TupleLess(a, a)
BY DEF Keys, TupleLess

\* What is below something below a tuple is below it.
LEMMA TupleLessTransitive ==
    ASSUME NEW n \in Nat, NEW a \in Keys(n), NEW b \in Keys(n), NEW c \in Keys(n),
           TupleLess(a, b), TupleLess(b, c)
    PROVE  TupleLess(a, c)
<1>1. PICK i \in 1 .. n : a[i] < b[i] /\ \A k \in 1 .. i - 1 : a[k] = b[k]
  BY DEF Keys, TupleLess
<1>2. PICK j \in 1 .. n : b[j] < c[j] /\ \A k \in 1 .. j - 1 : b[k] = c[k]
  BY DEF Keys, TupleLess
<1> DEFINE m == IF i <= j THEN i ELSE j
<1>3. m \in 1 .. n /\ a[m] < c[m] /\ \A k \in 1 .. m - 1 : a[k] = c[k]
  <2>1. \A k \in 1 .. n : a[k] \in Int /\ b[k] \in Int /\ c[k] \in Int
    BY DEF Keys
  <2>2. CASE i < j
    <3>1. i \in 1 .. j - 1
      BY <2>2
    <3>2. b[i] = c[i]
      BY <1>2, <3>1
    <3> QED BY <1>1, <1>2, <2>1, <2>2, <3>2
  <2>3. CASE i = j
    BY <1>1, <1>2, <2>1, <2>3
  <2>4. CASE j < i
    <3>1. j \in 1 .. i - 1
      BY <2>4
    <3>2. a[j] = b[j]
      BY <1>1, <3>1
    <3> QED BY <1>1, <1>2, <2>1, <2>4, <3>2
  <2> QED BY <2>2, <2>3, <2>4
<1> HIDE DEF m
<1>4. DOMAIN a = 1 .. n
  BY DEF Keys
<1> QED BY <1>3, <1>4 DEF TupleLess

\* Of two different tuples one is below the other.
LEMMA TupleLessTotal ==
    ASSUME NEW n \in Nat, NEW a \in Keys(n), NEW b \in Keys(n), a # b
    PROVE  TupleLess(a, b) \/ TupleLess(b, a)
<1> DEFINE T == { i \in 1 .. n : a[i] # b[i] }
<1>1. T \in SUBSET Nat /\ T # {}
  BY DEF Keys
<1>2. PICK i \in T : \A k \in T : i <= k
  BY <1>1, HasLeast
<1>3. i \in 1 .. n /\ a[i] # b[i] /\ \A k \in 1 .. i - 1 : a[k] = b[k]
  BY <1>2
<1>4. a[i] \in Int /\ b[i] \in Int /\ DOMAIN a = 1 .. n /\ DOMAIN b = 1 .. n
  BY <1>3 DEF Keys
<1>5. a[i] < b[i] \/ b[i] < a[i]
  BY <1>3, <1>4
<1> QED BY <1>3, <1>4, <1>5 DEF TupleLess

\* key gives every element of a finite set a key of its own.
IsKey(key, n) ==
    /\ IsFiniteSet(DOMAIN key)
    /\ key \in [DOMAIN key -> Keys(n)]
    /\ \A x, y \in DOMAIN key : key[x] = key[y] => x = y

\* s lists the elements of S in the order of their keys.
InOrder(s, S, key) ==
    /\ s \in [1 .. Cardinality(S) -> S]
    /\ \A i, k \in 1 .. Cardinality(S) : i < k => TupleLess(key[s[i]], key[s[k]])

\* A nonempty set has an element with the largest key.
LEMMA LargestKey ==
    ASSUME NEW n \in Nat, NEW key, IsKey(key, n), NEW S \in SUBSET DOMAIN key, S # {}
    PROVE  \E x \in S : \A y \in S \ {x} : TupleLess(key[y], key[x])
<1> DEFINE D == DOMAIN key
           G == { s \in SUBSET D : s # {} =>
                     \E x \in s : \A y \in s \ {x} : TupleLess(key[y], key[x]) }
<1>1. {} \in G
  OBVIOUS
<1>2. ASSUME NEW s \in SUBSET D, s # {}, \A x \in s : s \ {x} \in G PROVE s \in G
  <2>1. PICK a : a \in s
    BY <1>2
  <2>2. CASE s = {a}
    BY <2>2
  <2>3. CASE s # {a}
    <3>1. PICK x \in s \ {a} : \A y \in (s \ {a}) \ {x} : TupleLess(key[y], key[x])
      BY <1>2, <2>1, <2>3
    <3>2. key[a] \in Keys(n) /\ key[x] \in Keys(n) /\ key[a] # key[x]
      BY <2>1, <3>1 DEF IsKey
    <3>3. CASE TupleLess(key[a], key[x])
      BY <3>1, <3>3
    <3>4. CASE TupleLess(key[x], key[a])
      <4>1. ASSUME NEW y \in s \ {a} PROVE TupleLess(key[y], key[a])
        <5>1. CASE y = x
          BY <3>4, <5>1
        <5>2. CASE y # x
          <6>1. TupleLess(key[y], key[x])
            BY <3>1, <5>2
          <6>2. key[y] \in Keys(n)
            BY DEF IsKey
          <6> QED BY <3>2, <3>4, <6>1, <6>2, TupleLessTransitive
        <5> QED BY <5>1, <5>2
      <4> QED BY <2>1, <4>1
    <3> QED BY <3>2, <3>3, <3>4, TupleLessTotal
  <2> QED BY <2>2, <2>3
<1>3. IsFiniteSet(D)
  BY DEF IsKey
<1> HIDE DEF G, D
<1>4. \A s \in SUBSET D : s \in G
  BY <1>1, <1>2, <1>3, SubsetInduction
<1> QED BY <1>4 DEF G, D

\* A finite set can be listed in the order of its keys.
LEMMA OrderExists ==
    ASSUME NEW n \in Nat, NEW key, IsKey(key, n)
    PROVE  \E s : InOrder(s, DOMAIN key, key)
<1> DEFINE D == DOMAIN key
           G == { S \in SUBSET D : \E s : InOrder(s, S, key) }
<1>0. IsFiniteSet(D)
  BY DEF IsKey
<1>1. {} \in G
  <2>1. Cardinality({}) = 0
    BY FS_EmptySet
  <2>2. InOrder([i \in {} |-> i], {}, key)
    BY <2>1 DEF InOrder
  <2> QED BY <2>2
<1>2. ASSUME NEW S \in SUBSET D, S # {}, \A x \in S : S \ {x} \in G PROVE S \in G
  <2>1. PICK x \in S : \A y \in S \ {x} : TupleLess(key[y], key[x])
    BY <1>2, LargestKey
  <2>2. PICK q : InOrder(q, S \ {x}, key)
    BY <1>2
  <2>3. Cardinality(S \ {x}) = Cardinality(S) - 1 /\ Cardinality(S) \in Nat
    BY <1>0, FS_Subset, FS_RemoveElement, FS_CardinalityType
  <2> DEFINE c == Cardinality(S)
             s == [i \in 1 .. c |-> IF i = c THEN x ELSE q[i]]
  <2>4. \A i \in 1 .. c : i # c => i \in 1 .. Cardinality(S \ {x})
    BY <2>3
  <2>5. \A i \in 1 .. c : s[i] \in S /\ (i # c => s[i] = q[i] /\ q[i] \in S \ {x})
    BY <2>2, <2>4 DEF InOrder
  <2>6. ASSUME NEW i \in 1 .. c, NEW k \in 1 .. c, i < k
        PROVE  TupleLess(key[s[i]], key[s[k]])
    <3>1. i # c
      BY <2>3, <2>6
    <3>2. CASE k = c
      BY <2>1, <2>5, <3>1, <3>2
    <3>3. CASE k # c
      BY <2>2, <2>4, <2>5, <2>6, <3>1, <3>3 DEF InOrder
    <3> QED BY <3>2, <3>3
  <2>7. s \in [1 .. c -> S]
    BY <2>5
  <2> HIDE DEF s
  <2>8. InOrder(s, S, key)
    BY <2>6, <2>7 DEF InOrder
  <2> QED BY <2>8
<1> HIDE DEF G
<1>3. \A S \in SUBSET D : S \in G
  BY <1>0, <1>1, <1>2, SubsetInduction
<1> QED BY <1>3 DEF G

\* What sorted() returns: every element once, in the order of the keys.
LEMMA SortedByProperties ==
    ASSUME NEW n \in Nat, NEW key, IsKey(key, n)
    PROVE  LET s == SortedBy(key) c == Cardinality(DOMAIN key)
           IN  /\ c \in Nat
               /\ s \in [1 .. c -> DOMAIN key]
               /\ \A i, k \in 1 .. c : i < k <=> TupleLess(key[s[i]], key[s[k]])
               /\ \A i, k \in 1 .. c : s[i] = s[k] => i = k
               /\ \A x \in DOMAIN key : \E i \in 1 .. c : s[i] = x
<1> DEFINE D == DOMAIN key
           s == SortedBy(key)
           c == Cardinality(D)
<1>0. IsFiniteSet(D) /\ c \in Nat
  BY FS_CardinalityType DEF IsKey
<1>1. InOrder(s, D, key)
  <2>1. \E q : InOrder(q, D, key)
    BY OrderExists
  <2>2. \E q \in [1 .. c -> D] :
            \A i, k \in DOMAIN q : i < k => TupleLess(key[q[i]], key[q[k]])
    BY <2>1 DEF InOrder
  <2>3. /\ s \in [1 .. c -> D]
        /\ \A i, k \in DOMAIN s : i < k => TupleLess(key[s[i]], key[s[k]])
    BY <2>2, Zenon DEF SortedBy
  <2> QED BY <2>3 DEF InOrder
<1> HIDE DEF s
<1>2. \A i \in 1 .. c : s[i] \in D /\ key[s[i]] \in Keys(n)
  BY <1>1 DEF InOrder, IsKey
<1>3. ASSUME NEW i \in 1 .. c, NEW k \in 1 .. c, TupleLess(key[s[i]], key[s[k]])
      PROVE  i < k
  <2>1. CASE i = k
    BY <1>2, <1>3, <2>1, TupleLessIrreflexive
  <2>2. CASE k < i
    <3>1. TupleLess(key[s[k]], key[s[i]])
      BY <1>1, <2>2 DEF InOrder
    <3>2. TupleLess(key[s[i]], key[s[i]])
      BY <1>2, <1>3, <3>1, TupleLessTransitive
    <3> QED BY <1>2, <3>2, TupleLessIrreflexive
  <2> QED BY <2>1, <2>2
<1>4. ASSUME NEW i \in 1 .. c, NEW k \in 1 .. c, s[i] = s[k] PROVE i = k
  <2>1. ~ TupleLess(key[s[i]], key[s[k]]) /\ ~ TupleLess(key[s[k]], key[s[i]])
    BY <1>2, <1>4, TupleLessIrreflexive
  <2> QED BY <1>1, <2>1 DEF InOrder
<1>5. \A x \in D : \E i \in 1 .. c : s[i] = x
  <2>1. s \in Injection(1 .. c, D)
    BY <1>1, <1>4 DEF InOrder, Injection, IsInjective
  <2>2. IsFiniteSet(1 .. c) /\ Cardinality(1 .. c) = c
    BY <1>0, FS_Interval
  <2>3. s \in Surjection(1 .. c, D)
    BY <1>0, <2>1, <2>2, FS_Injection
  <2> QED BY <2>3 DEF Surjection
<1> QED BY <1>0, <1>1, <1>3, <1>4, <1>5 DEF InOrder, s

-----------------------------------------------------------------------------
(* Registry: what the candidates of a request are.                          *)

\* A call makes a request with the types of RouterRequest.
IsRequest(r) ==
    /\ r.privacy \in PrivacyModes /\ r.premium \in BOOLEAN
    /\ r.input \in Int /\ r.output \in Int

\* The table of a configuration: see RegistryAssumption.
IsTable(models) ==
    /\ IsFiniteSet(models)
    /\ \A model \in models : IsModel(model)
    /\ \A a, b \in models : a.id = b.id => a = b

\* The defaults are the fields of a request.
LEMMA DefaultsType ==
    ASSUME NEW given, NEW defaults,
           \A field \in DOMAIN given : given[field] \in FieldTypes[field],
           {"privacy", "premium", "input", "output"} \subseteq DOMAIN defaults,
           \A field \in DOMAIN defaults : defaults[field] \in FieldTypes[field]
    PROVE  IsRequest(WithDefaults(given, defaults))
<1> DEFINE w == WithDefaults(given, defaults)
<1>1. \A field \in {"privacy", "premium", "input", "output"} : w[field] \in FieldTypes[field]
  BY DEF WithDefaults
<1> HIDE DEF w
<1>2. /\ FieldTypes["privacy"] = PrivacyModes /\ FieldTypes["premium"] = BOOLEAN
      /\ FieldTypes["input"] = Int /\ FieldTypes["output"] = Int
  BY DEF FieldTypes
<1>3. /\ w["privacy"] \in PrivacyModes /\ w["premium"] \in BOOLEAN
      /\ w["input"] \in Int /\ w["output"] \in Int
  BY <1>1, <1>2
<1>4. IsRequest(w)
  BY <1>3 DEF IsRequest
<1> QED BY <1>4 DEF w

\* Whoever calls, and whatever the call states, what is routed is a request.
LEMMA RequestType ==
    ASSUME NEW c, IsCall(c)
    PROVE  IsRequest(RequestOf(c))
<1>1. \A field \in DOMAIN c.given : c.given[field] \in FieldTypes[field]
  BY DEF IsCall
<1>2. \A field \in DOMAIN TaskMethod(c.given) :
          TaskMethod(c.given)[field] \in FieldTypes[field]
  <2>1. c.given["task"] \in FieldTypes["task"]
    BY DEF IsCall
  <2>2. FieldTypes["task"] = STRING /\ FieldTypes["privacy"] = PrivacyModes
    BY DEF FieldTypes
  <2> QED BY <2>1, <2>2 DEF TaskMethod, PrivacyModes
<1>3. ASSUME NEW defaults \in {RouterDefaults, FacadeDefaults, ApiDefaults}
      PROVE  /\ {"privacy", "premium", "input", "output"} \subseteq DOMAIN defaults
             /\ \A field \in DOMAIN defaults : defaults[field] \in FieldTypes[field]
  <2> DEFINE fields == {"privacy", "premium", "required", "input", "output"}
  <2>1. DOMAIN defaults = fields
    BY DEF RouterDefaults, FacadeDefaults, ApiDefaults
  <2>2. /\ defaults["privacy"] \in PrivacyModes /\ defaults["premium"] \in BOOLEAN
        /\ defaults["required"] \in SUBSET STRING
        /\ defaults["input"] \in Int /\ defaults["output"] \in Int
    <3>1. defaults["required"] = {} /\ defaults["input"] = 2000 /\ defaults["output"] = 2000
      BY DEF RouterDefaults, FacadeDefaults, ApiDefaults
    <3>2. defaults["privacy"] = "public" \/ defaults["privacy"] = "proprietary"
      BY DEF RouterDefaults, FacadeDefaults, ApiDefaults
    <3>3. defaults["premium"] = TRUE \/ defaults["premium"] = FALSE
      BY DEF RouterDefaults, FacadeDefaults, ApiDefaults
    <3>4. defaults["privacy"] \in PrivacyModes
      BY <3>2 DEF PrivacyModes
    <3>5. defaults["premium"] \in BOOLEAN
      BY <3>3
    <3>6. /\ defaults["required"] \in SUBSET STRING
          /\ defaults["input"] \in Int /\ defaults["output"] \in Int
      BY <3>1
    <3> QED BY <3>4, <3>5, <3>6, Zenon
  <2>3. \A field \in fields : defaults[field] \in FieldTypes[field]
    BY <2>2 DEF FieldTypes
  <2> QED BY <2>1, <2>3
<1>4. c.through \in {"route", "run", "task", "api"}
  BY DEF IsCall
<1> HIDE DEF IsCall
<1>5. CASE c.through = "route"
  BY <1>1, <1>3, <1>5, DefaultsType DEF RequestOf
<1>6. CASE c.through = "run"
  BY <1>1, <1>3, <1>6, DefaultsType DEF RequestOf
<1>7. CASE c.through = "task"
  BY <1>2, <1>3, <1>7, DefaultsType DEF RequestOf
<1>8. CASE c.through = "api"
  BY <1>1, <1>3, <1>8, DefaultsType DEF RequestOf
<1> QED BY <1>4, <1>5, <1>6, <1>7, <1>8

\* The keys of a table are tuples of four integers, no two of them the same.
LEMMA SortKeysDistinct ==
    ASSUME NEW models, IsTable(models), NEW r, IsRequest(r), NEW S \in SUBSET models
    PROVE  IsKey([model \in S |-> SortKey(model, r)], 4)
<1>1. ASSUME NEW model \in S PROVE SortKey(model, r) \in Keys(4)
  <2>1. IsModel(model)
    BY DEF IsTable
  <2>2. Rank[model.tier] \in Int
    BY <2>1 DEF IsModel, Tiers, Rank
  <2>3. ExpectedCost(model, r) \in Int
    BY <2>1 DEF IsModel, IsRequest, ExpectedCost
  <2> QED BY <2>1, <2>2, <2>3 DEF SortKey, Keys, IsModel
<1>2. ASSUME NEW a \in S, NEW b \in S, SortKey(a, r) = SortKey(b, r) PROVE a = b
  <2>1. a.id = b.id
    BY <1>2 DEF SortKey
  <2> QED BY <2>1 DEF IsTable
<1>3. IsFiniteSet(S)
  BY FS_Subset DEF IsTable
<1> QED BY <1>1, <1>2, <1>3 DEF IsKey

\* The candidates s of a request r are, each once, the models that may serve it and
\* whose provider is enabled, in the order of their sort keys.
Ranking(s, models, providers, r) ==
    \E c \in Nat :
        /\ s \in [1 .. c -> models]
        /\ \A i \in 1 .. c : MayServe(s[i], r) /\ s[i].provider \in providers
        /\ \A i, k \in 1 .. c : i < k <=> TupleLess(SortKey(s[i], r), SortKey(s[k], r))
        /\ \A i, k \in 1 .. c : s[i] = s[k] => i = k
        /\ \A model \in models : MayServe(model, r) /\ model.provider \in providers =>
               \E i \in 1 .. c : s[i] = model

\* The candidates are the models that may serve, each once, in the order of the keys.
LEMMA CandidatesRanked ==
    ASSUME NEW models, IsTable(models), NEW providers, NEW r, IsRequest(r)
    PROVE  Ranking(CandidateModels(models, providers, r), models, providers, r)
<1> DEFINE W == Willing(models, r)
           key == [model \in W |-> SortKey(model, r)]
           e == Eligible(models, r)
           n == Cardinality(W)
<1>1. W \in SUBSET models /\ DOMAIN key = W
  BY DEF Willing
<1>2. IsKey(key, 4)
  BY <1>1, SortKeysDistinct
<1>3. e = SortedBy(key)
  BY DEF Eligible
<1> HIDE DEF e
<1>4. /\ n \in Nat /\ e \in [1 .. n -> W]
      /\ \A i, k \in 1 .. n : i < k <=> TupleLess(key[e[i]], key[e[k]])
      /\ \A i, k \in 1 .. n : e[i] = e[k] => i = k
      /\ \A x \in W : \E i \in 1 .. n : e[i] = x
  <2> HIDE DEF key
  <2> QED BY <1>1, <1>2, <1>3, SortedByProperties
<1>5. \A i \in 1 .. n : e[i] \in W /\ key[e[i]] = SortKey(e[i], r)
  BY <1>4
<1> DEFINE keep == { model \in models : model.provider \in providers }
           kept == { k \in DOMAIN e : e[k] \in keep }
           place == [i \in kept |-> << i >>]
           p == SortedBy(place)
           c == Cardinality(kept)
           s == [i \in DOMAIN p |-> e[p[i]]]
<1>6. CandidateModels(models, providers, r) = s
  BY DEF CandidateModels, Only, e
<1>7. kept \in SUBSET (1 .. n) /\ DOMAIN place = kept
  BY <1>4
<1>8. IsKey(place, 1)
  <2>1. IsFiniteSet(kept)
    <3> HIDE DEF kept, n
    <3>1. n \in Int /\ 1 \in Int
      BY <1>4
    <3>2. IsFiniteSet(1 .. n)
      BY <3>1, FS_Interval
    <3> QED BY <1>7, <3>2, FS_Subset
  <2>2. \A i \in kept : << i >> \in Keys(1)
    BY <1>7 DEF Keys
  <2> QED BY <2>1, <2>2 DEF IsKey
<1>9. /\ c \in Nat /\ p \in [1 .. c -> kept]
      /\ \A i, k \in 1 .. c : i < k <=> TupleLess(place[p[i]], place[p[k]])
      /\ \A i, k \in 1 .. c : p[i] = p[k] => i = k
      /\ \A x \in kept : \E i \in 1 .. c : p[i] = x
  <2> HIDE DEF place, kept
  <2>1. DOMAIN place = kept
    BY <1>7
  <2> QED BY <1>8, <2>1, SortedByProperties
<1> HIDE DEF p, c, kept, keep
<1>10. \A i \in 1 .. c : p[i] \in kept /\ p[i] \in 1 .. n
  BY <1>7, <1>9
<1>11. \A i, k \in 1 .. c : i < k <=> p[i] < p[k]
  <2> TAKE i \in 1 .. c, k \in 1 .. c
  <2>1. place[p[i]] = << p[i] >> /\ place[p[k]] = << p[k] >>
    BY <1>10
  <2>2. TupleLess(<< p[i] >>, << p[k] >>) <=> p[i] < p[k]
    BY <1>10 DEF TupleLess
  <2> QED BY <1>9, <2>1, <2>2
<1>12. s \in [1 .. c -> models] /\ \A i \in 1 .. c : s[i] = e[p[i]]
  BY <1>1, <1>4, <1>9, <1>10
<1>13. \A i \in 1 .. c : MayServe(s[i], r) /\ s[i].provider \in providers
  BY <1>4, <1>10, <1>12 DEF Willing, kept, keep
<1>14. \A i, k \in 1 .. c : i < k <=> TupleLess(SortKey(s[i], r), SortKey(s[k], r))
  <2> TAKE i \in 1 .. c, k \in 1 .. c
  <2>1. p[i] < p[k] <=> TupleLess(SortKey(e[p[i]], r), SortKey(e[p[k]], r))
    BY <1>4, <1>5, <1>10
  <2> QED BY <1>11, <1>12, <2>1
<1>15. \A i, k \in 1 .. c : s[i] = s[k] => i = k
  BY <1>4, <1>9, <1>10, <1>12
<1>16. ASSUME NEW model \in models, MayServe(model, r), model.provider \in providers
       PROVE  \E i \in 1 .. c : s[i] = model
  <2>1. PICK k \in 1 .. n : e[k] = model
    BY <1>4, <1>16 DEF Willing
  <2>2. k \in kept
    BY <1>4, <1>16, <2>1 DEF kept, keep
  <2>3. PICK i \in 1 .. c : p[i] = k
    BY <1>9, <2>2
  <2> QED BY <1>12, <2>1, <2>3
<1> HIDE DEF s
<1>17. Ranking(s, models, providers, r)
  BY <1>9, <1>12, <1>13, <1>14, <1>15, <1>16 DEF Ranking
<1> QED BY <1>6, <1>17

-----------------------------------------------------------------------------
(* Registry: its properties.                                                *)

\* The candidates are those of the last call, under the configuration.
RegistryInv ==
    /\ catalog \in Catalogs /\ call \in Calls
    /\ candidates = CandidateModels(catalog, enabledProviders, request)

\* The candidates are those of the last call under the configuration: the registry
\* remembers nothing of earlier calls.
THEOREM CandidatesAreOfTheCall == RegistrySpec => []RegistryInv
<1>1. RegistryInit => RegistryInv
  BY DEF RegistryInit, RegistryInv
<1>2. RegistryInv /\ [RegistryNext]_registryVars => RegistryInv'
  BY DEF RegistryInv, RegistryNext, Ask, registryVars, request
<1> QED BY <1>1, <1>2, PTL DEF RegistrySpec

\* What the properties need of it.
Ranked ==
    /\ IsTable(catalog) /\ IsCall(call) /\ IsRequest(request)
    /\ Ranking(candidates, catalog, enabledProviders, request)

\* What the invariant says of the candidates.
LEMMA RegistryFacts == RegistryInv => Ranked
<1> SUFFICES ASSUME RegistryInv PROVE Ranked
  OBVIOUS
<1>1. IsTable(catalog) /\ IsCall(call)
  BY RegistryAssumption DEF RegistryInv, IsTable
<1>2. IsRequest(request)
  BY <1>1, RequestType DEF request
<1>3. Ranking(CandidateModels(catalog, enabledProviders, request),
              catalog, enabledProviders, request)
  BY <1>1, <1>2, CandidatesRanked
<1> QED BY <1>1, <1>2, <1>3 DEF RegistryInv, Ranked

\* The privacy of a request that was not released is not public.
LEMMA NotReleased ==
    ASSUME NEW c, IsCall(c), RequestOf(c).privacy = "public"
    PROVE  /\ c.through = "task" => "proprietary" \in DOMAIN c.given /\ ~ c.given.proprietary
           /\ c.through # "task" /\ "privacy" \in DOMAIN c.given => c.given.privacy = "public"
           /\ c.through # "task" /\ "privacy" \notin DOMAIN c.given =>
                  c.through \in {"route", "api"}
<1>1. CASE c.through = "task"
  <2>1. RequestOf(c) = WithDefaults(TaskMethod(c.given), FacadeDefaults)
    BY <1>1 DEF RequestOf
  <2>2. RequestOf(c).privacy = TaskMethod(c.given).privacy
    BY <2>1 DEF WithDefaults, TaskMethod
  <2>3. "proprietary" \in DOMAIN c.given /\ ~ c.given.proprietary
    BY <2>2 DEF TaskMethod
  <2> QED BY <1>1, <2>3
<1>2. CASE c.through # "task" /\ "privacy" \in DOMAIN c.given
  <2>1. RequestOf(c).privacy = c.given.privacy
    BY <1>2 DEF RequestOf, WithDefaults, IsCall
  <2> QED BY <1>2, <2>1
<1>3. CASE c.through # "task" /\ "privacy" \notin DOMAIN c.given
  <2>1. CASE c.through = "run"
    <3>1. RequestOf(c) = WithDefaults(c.given, FacadeDefaults)
      BY <2>1 DEF RequestOf
    <3>2. RequestOf(c).privacy = FacadeDefaults.privacy
      BY <1>3, <3>1 DEF WithDefaults, FacadeDefaults, RouterDefaults
    <3> QED BY <3>2 DEF FacadeDefaults, RouterDefaults
  <2> QED BY <1>3, <2>1 DEF IsCall
<1> QED BY <1>1, <1>2, <1>3

\* Privacy fails closed, for every table, configuration and call.
THEOREM PrivacyIsKept == RegistrySpec => []PrivacyFailsClosed
<1>1. RegistryInv => PrivacyFailsClosed
  <2> SUFFICES ASSUME RegistryInv, NEW i \in 1 .. Len(candidates)
               PROVE  /\ candidates[i].enabled /\ candidates[i].provider \in enabledProviders
                      /\ ~ candidates[i].local => request.privacy # "local_only"
                      /\ ~ candidates[i].local /\ ~ candidates[i].approved => Released
    BY DEF PrivacyFailsClosed
  <2>1. IsCall(call) /\ IsRequest(request)
    BY RegistryFacts DEF Ranked
  <2>2. MayServe(candidates[i], request) /\ candidates[i].provider \in enabledProviders
    BY RegistryFacts DEF Ranking, Ranked
  <2>3. candidates[i].enabled /\ PrivacyAllows(candidates[i], request.privacy)
    BY <2>2 DEF MayServe
  <2>4. request.privacy \in {"public", "proprietary", "local_only"}
    BY <2>1 DEF IsRequest, PrivacyModes
  <2>5. /\ ~ candidates[i].local => request.privacy # "local_only"
        /\ ~ candidates[i].local /\ ~ candidates[i].approved => request.privacy = "public"
    BY <2>3, <2>4 DEF PrivacyAllows
  <2>6. request.privacy = "public" => Released
    <3>1. ASSUME request.privacy = "public" PROVE Released
      <4>1. /\ call.through = "task" =>
                  "proprietary" \in DOMAIN call.given /\ ~ call.given.proprietary
            /\ call.through # "task" /\ "privacy" \in DOMAIN call.given =>
                  call.given.privacy = "public"
            /\ call.through # "task" /\ "privacy" \notin DOMAIN call.given =>
                  call.through \in {"route", "api"}
        BY <2>1, <3>1, NotReleased DEF request
      <4> QED BY <4>1, Zenon DEF Released
    <3> QED BY <3>1
  <2> QED BY <2>2, <2>3, <2>5, <2>6
<1> QED BY <1>1, CandidatesAreOfTheCall, PTL

\* A candidate of a lower tier comes first.
LEMMA TierFirst ==
    ASSUME NEW a, NEW b, NEW r, TupleLess(SortKey(a, r), SortKey(b, r)),
           IsModel(a), IsModel(b), a.tier = "premium"
    PROVE  b.tier = "premium"
<1>1. Rank[a.tier] <= Rank[b.tier]
  <2>1. SortKey(a, r)[1] = Rank[a.tier] /\ SortKey(b, r)[1] = Rank[b.tier]
    BY DEF SortKey
  <2>2. Rank[a.tier] \in Int /\ Rank[b.tier] \in Int
    BY DEF IsModel, Tiers, Rank
  <2>3. DOMAIN SortKey(a, r) = 1 .. 4
    BY DEF SortKey
  <2>4. PICK i \in 1 .. 4 : /\ SortKey(a, r)[i] < SortKey(b, r)[i]
                            /\ \A k \in 1 .. i - 1 : SortKey(a, r)[k] = SortKey(b, r)[k]
    BY <2>3 DEF TupleLess
  <2>5. i = 1 \/ 1 \in 1 .. i - 1
    OBVIOUS
  <2> QED BY <2>1, <2>2, <2>4, <2>5
<1> QED BY <1>1 DEF IsModel, Tiers, Rank

\* Premium models come last, for every table, configuration and call.
THEOREM PremiumIsLast == RegistrySpec => []PremiumLast
<1>1. RegistryInv => PremiumLast
  <2> SUFFICES ASSUME RegistryInv, NEW i \in 1 .. Len(candidates), NEW k \in 1 .. Len(candidates),
                      candidates[i].tier = "premium"
               PROVE  /\ request.premium
                      /\ k > i => candidates[k].tier = "premium"
    BY DEF PremiumLast
  <2>1. PICK c \in Nat :
            /\ candidates \in [1 .. c -> catalog]
            /\ \A m \in 1 .. c : MayServe(candidates[m], request)
            /\ \A m, n \in 1 .. c : m < n <=>
                   TupleLess(SortKey(candidates[m], request), SortKey(candidates[n], request))
    BY RegistryFacts DEF Ranking, Ranked
  <2>2. Len(candidates) = c
    BY <2>1
  <2>3. MayServe(candidates[i], request)
    BY <2>1, <2>2
  <2>4. request.premium
    BY <2>3 DEF MayServe
  <2>5. IsModel(candidates[i]) /\ IsModel(candidates[k])
    BY <2>1, <2>2, RegistryFacts DEF IsTable, Ranked
  <2>6. ASSUME k > i PROVE candidates[k].tier = "premium"
    <3>1. TupleLess(SortKey(candidates[i], request), SortKey(candidates[k], request))
      BY <2>1, <2>2, <2>6
    <3> QED BY <2>5, <3>1, TierFirst
  <2> QED BY <2>4, <2>6
<1> QED BY <1>1, CandidatesAreOfTheCall, PTL

\* No model is left out without a reason or offered twice, for every table,
\* configuration and call.
THEOREM NobodyIsForgotten == RegistrySpec => []NobodyForgotten
<1>1. RegistryInv => NobodyForgotten
  <2> SUFFICES ASSUME RegistryInv PROVE NobodyForgotten
    OBVIOUS
  <2>1. PICK c \in Nat :
            /\ candidates \in [1 .. c -> catalog]
            /\ \A i, k \in 1 .. c : candidates[i] = candidates[k] => i = k
            /\ \A model \in catalog :
                   MayServe(model, request) /\ model.provider \in enabledProviders =>
                       \E i \in 1 .. c : candidates[i] = model
    BY RegistryFacts DEF Ranking, Ranked
  <2>2. Len(candidates) = c
    BY <2>1
  <2>3. IsInjective(candidates)
    BY <2>1 DEF IsInjective
  <2>4. ASSUME NEW model \in catalog,
               model \notin { candidates[i] : i \in 1 .. Len(candidates) }
        PROVE  \/ ~ model.enabled \/ model.provider \notin enabledProviders
               \/ request.task \notin model.capabilities
               \/ \E capability \in request.required : capability \notin model.capabilities
               \/ model.tier = "premium" /\ ~ request.premium
               \/ ~ model.local /\ request.privacy = "local_only"
               \/ ~ model.local /\ ~ model.approved /\ request.privacy = "proprietary"
    <3>1. ~ MayServe(model, request) \/ model.provider \notin enabledProviders
      BY <2>1, <2>2, <2>4
    <3>2. request.privacy \in {"public", "proprietary", "local_only"}
      BY RegistryFacts DEF IsRequest, PrivacyModes, Ranked
    <3> QED BY <3>1, <3>2 DEF MayServe, PrivacyAllows, RequiredCapabilities
  <2> QED BY <2>3, <2>4 DEF NobodyForgotten
<1> QED BY <1>1, CandidatesAreOfTheCall, PTL

\* A model that may serve the stricter of two requests may serve the other.
LEMMA StricterServesLess ==
    ASSUME NEW a, NEW b, IsRequest(a), IsRequest(b), AtLeastAsStrict(a, b),
           NEW model, MayServe(model, a)
    PROVE  MayServe(model, b)
<1>1. RequiredCapabilities(b) \subseteq RequiredCapabilities(a)
  BY DEF AtLeastAsStrict, RequiredCapabilities
<1>2. Strictness[a.privacy] >= Strictness[b.privacy]
  BY DEF AtLeastAsStrict
<1>3. a.privacy \in {"public", "proprietary", "local_only"} /\
      b.privacy \in {"public", "proprietary", "local_only"}
  BY DEF IsRequest, PrivacyModes
<1>4. PrivacyAllows(model, a.privacy) => PrivacyAllows(model, b.privacy)
  <2>1. /\ b.privacy = "local_only" => a.privacy = "local_only"
        /\ b.privacy = "proprietary" => a.privacy \in {"local_only", "proprietary"}
    BY <1>2, <1>3 DEF Strictness
  <2>2. SUFFICES ASSUME PrivacyAllows(model, a.privacy) PROVE PrivacyAllows(model, b.privacy)
    OBVIOUS
  <2>3. CASE b.privacy = "local_only"
    BY <2>1, <2>2, <2>3 DEF PrivacyAllows
  <2>4. CASE b.privacy = "proprietary"
    <3>1. model.local \/ model.approved
      BY <2>1, <2>2, <2>4 DEF PrivacyAllows
    <3> QED BY <2>4, <3>1 DEF PrivacyAllows
  <2>5. CASE b.privacy = "public"
    BY <2>5 DEF PrivacyAllows
  <2> QED BY <1>3, <2>3, <2>4, <2>5
<1> QED BY <1>1, <1>4 DEF MayServe, AtLeastAsStrict

\* Tightening only removes candidates, between any two calls.
THEOREM TighteningRemovesOnly == RegistrySpec => TighteningOnlyRemoves
<1> DEFINE Step == AtLeastAsStrict(request', request) =>
               /\ \A model \in Range(candidates') : model \in Range(candidates)
               /\ \A m, n \in 1 .. Len(candidates') : m < n =>
                      \E i, k \in 1 .. Len(candidates) :
                          i < k /\ candidates[i] = candidates'[m] /\ candidates[k] = candidates'[n]
<1>1. ASSUME RegistryInv, RegistryInv', RegistryNext PROVE Step
  <2> SUFFICES ASSUME AtLeastAsStrict(request', request)
               PROVE  /\ \A model \in Range(candidates') : model \in Range(candidates)
                      /\ \A m, n \in 1 .. Len(candidates') : m < n =>
                             \E i, k \in 1 .. Len(candidates) :
                                 /\ i < k
                                 /\ candidates[i] = candidates'[m]
                                 /\ candidates[k] = candidates'[n]
    OBVIOUS
  <2>1. PICK c \in Nat :
            /\ candidates \in [1 .. c -> catalog]
            /\ \A i, k \in 1 .. c : i < k <=>
                   TupleLess(SortKey(candidates[i], request), SortKey(candidates[k], request))
            /\ \A model \in catalog :
                   MayServe(model, request) /\ model.provider \in enabledProviders =>
                       \E i \in 1 .. c : candidates[i] = model
    BY <1>1, RegistryFacts DEF Ranking, Ranked
  <2>2. PICK d \in Nat :
            /\ candidates' \in [1 .. d -> catalog]
            /\ \A i \in 1 .. d : /\ MayServe(candidates'[i], request')
                                 /\ candidates'[i].provider \in enabledProviders
            /\ \A i, k \in 1 .. d : i < k <=>
                   TupleLess(SortKey(candidates'[i], request'), SortKey(candidates'[k], request'))
    <3>1. Ranking(candidates', catalog', enabledProviders', request')
      <4>1. Ranked'
        BY <1>1, RegistryFacts, PTL
      <4> QED BY <4>1 DEF Ranked
    <3>2. catalog' = catalog /\ enabledProviders' = enabledProviders
      BY <1>1 DEF RegistryNext, Ask
    <3> QED BY <3>1, <3>2 DEF Ranking
  <2>3. Len(candidates) = c /\ Len(candidates') = d /\ DOMAIN candidates = 1 .. c
        /\ DOMAIN candidates' = 1 .. d
    BY <2>1, <2>2
  <2>4. IsRequest(request) /\ IsRequest(request)'
    <3>1. Ranked /\ Ranked'
      BY <1>1, RegistryFacts, PTL
    <3> QED BY <3>1 DEF Ranked
  <2>5. ASSUME NEW n \in 1 .. d PROVE \E i \in 1 .. c : candidates[i] = candidates'[n]
    <3>1. MayServe(candidates'[n], request)
      BY <2>2, <2>4, StricterServesLess DEF IsRequest
    <3> QED BY <2>1, <2>2, <3>1
  <2>6. \A model : SortKey(model, request') = SortKey(model, request)
    BY DEF SortKey, ExpectedCost, AtLeastAsStrict
  <2>7. ASSUME NEW m \in 1 .. d, NEW n \in 1 .. d, m < n
        PROVE  \E i, k \in 1 .. c :
                   i < k /\ candidates[i] = candidates'[m] /\ candidates[k] = candidates'[n]
    <3>1. PICK i \in 1 .. c : candidates[i] = candidates'[m]
      BY <2>5
    <3>2. PICK k \in 1 .. c : candidates[k] = candidates'[n]
      BY <2>5
    <3>3. TupleLess(SortKey(candidates[i], request), SortKey(candidates[k], request))
      BY <2>2, <2>6, <2>7, <3>1, <3>2
    <3>4. i < k
      BY <2>1, <3>3
    <3> QED BY <3>1, <3>2, <3>4
  <2>8. \A model \in Range(candidates') : model \in Range(candidates)
    BY <2>3, <2>5 DEF Range
  <2> QED BY <2>3, <2>7, <2>8
<1> QED BY <1>1, CandidatesAreOfTheCall, PTL DEF RegistrySpec, TighteningOnlyRemoves

-----------------------------------------------------------------------------
(* RouteTime: what the configuration accounts for.                          *)

\* A power of two is a natural number: it counts the subsets of a set.
LEMMA PowerType == ASSUME NEW n \in Nat PROVE 2^n \in Nat
<1>1. IsFiniteSet(1 .. n) /\ Cardinality(1 .. n) = n
  BY FS_Interval
<1>2. IsFiniteSet(SUBSET (1 .. n)) /\ Cardinality(SUBSET (1 .. n)) = 2^n
  BY <1>1, FS_SUBSET
<1> QED BY <1>2, FS_CardinalityType

\* A configuration, as RouteTimeAssumption has it.
LEMMA ProfileType ==
    ASSUME NEW p \in Profiles
    PROVE  /\ p.backoffBase \in Nat /\ p.backoffMax \in Nat
           /\ Len(p.candidates) \in Nat
           /\ \A i \in 1 .. Len(p.candidates) :
                  /\ p.candidates[i].provider \in STRING
                  /\ p.candidates[i].timeout \in Nat
                  /\ p.candidates[i].maxRetries \in Int
<1>1. p.backoffBase \in Nat /\ p.backoffMax \in Nat
  BY RouteTimeAssumption
<1>2. p.candidates \in Seq([provider : STRING, timeout : Nat \ {0}, maxRetries : Int])
  BY RouteTimeAssumption
<1> DEFINE Offer == [provider : STRING, timeout : Nat \ {0}, maxRetries : Int]
<1>3. Len(p.candidates) \in Nat /\ \A i \in 1 .. Len(p.candidates) : p.candidates[i] \in Offer
  <2>1. p.candidates \in Seq(Offer)
    BY <1>2
  <2> HIDE DEF Offer
  <2> QED BY <2>1
<1> QED BY <1>1, <1>3

\* Backoffs are natural numbers.
LEMMA BackoffType ==
    ASSUME NEW p \in Profiles, NEW r \in Nat
    PROVE  Backoff(p, r) \in Nat /\ LongestBackoff(p, r) \in Nat
<1> DEFINE b == p.backoffBase m == p.backoffMax e == 2^r
<1>1. b \in Nat /\ m \in Nat /\ e \in Nat
  BY ProfileType, PowerType
<1>2. Backoff(p, r) = lesser(m, b * e)
  BY DEF Backoff
<1> HIDE DEF b, m, e
<1>3. b * e \in Nat
  BY <1>1
<1>4. Backoff(p, r) \in Nat
  BY <1>1, <1>2, <1>3 DEF lesser
<1> QED BY <1>4 DEF LongestBackoff

\* A backoff is no longer than the longest one.
LEMMA JitterBounds ==
    ASSUME NEW p \in Profiles, NEW r \in Nat, NEW d \in Jittered(Backoff(p, r))
    PROVE  /\ d \in Nat /\ d <= LongestBackoff(p, r)
           /\ 5 * d >= 4 * Backoff(p, r) /\ 5 * d <= 6 * Backoff(p, r)
<1> DEFINE b == Backoff(p, r)
<1>1. b \in Nat
  BY BackoffType
<1>2. d \in 0 .. 2 * b /\ 5 * d >= 4 * b /\ 5 * d <= 6 * b
  BY DEF Jittered
<1>3. LongestBackoff(p, r) = (6 * b) \div 5
  BY DEF LongestBackoff
<1> HIDE DEF b
<1>4. d \in Nat /\ d <= (6 * b) \div 5
  BY <1>1, <1>2
<1> QED BY <1>2, <1>3, <1>4 DEF b

-----------------------------------------------------------------------------
(* RouteTime: the time that candidates may take.                            *)

\* The longest backoffs of the first n retries, and the time the first n candidates
\* may take.
Backoffs(p, n) == SumFunction([r \in 0 .. n - 1 |-> LongestBackoff(p, r)])
Spent(p, n) == SumFunction([i \in 1 .. n |-> Allowance(p, i)])

\* The backoffs of n retries: none for no retry, and one more for every other.
LEMMA BackoffsGrow ==
    ASSUME NEW p \in Profiles, NEW n \in Nat, NEW m \in Nat, n <= m
    PROVE  /\ Backoffs(p, n) \in Nat /\ Backoffs(p, 0) = 0
           /\ Backoffs(p, n) <= Backoffs(p, m)
           /\ Backoffs(p, n + 1) = Backoffs(p, n) + LongestBackoff(p, n)
<1> DEFINE f == [r \in Nat |-> LongestBackoff(p, r)]
<1>1. \A r \in Nat : f[r] \in Nat
  BY BackoffType
<1>2. ASSUME NEW k \in Nat PROVE Backoffs(p, k) = SumOver(f, 0, k - 1)
  <2>1. [r \in 0 .. k - 1 |-> LongestBackoff(p, r)] = [r \in 0 .. k - 1 |-> f[r]]
    OBVIOUS
  <2> QED BY <2>1 DEF Backoffs, SumOver
<1>3. f[n] = LongestBackoff(p, n)
  OBVIOUS
<1> HIDE DEF f
<1>4. SumOver(f, 0, n - 1) \in Nat /\ SumOver(f, 0, n - 1) <= SumOver(f, 0, m - 1)
  BY <1>1, SumOverGrows
<1>5. SumOver(f, 0, n) = SumOver(f, 0, n - 1) + f[n]
  BY <1>1, SumOverLast
<1>6. Backoffs(p, 0) = 0 /\ Backoffs(p, n + 1) = SumOver(f, 0, n)
  BY <1>2, SumOverNothing
<1> QED BY <1>2, <1>3, <1>4, <1>5, <1>6

\* What a candidate may take: the heard, and the backoffs between them.
LEMMA AllowanceType ==
    ASSUME NEW p \in Profiles, NEW i \in 1 .. Len(p.candidates)
    PROVE  /\ Allowance(p, i) \in Nat
           /\ p.candidates[i].maxRetries >= 0 =>
                  Allowance(p, i) = (p.candidates[i].maxRetries + 1) * p.candidates[i].timeout
                                     + Backoffs(p, p.candidates[i].maxRetries)
<1> DEFINE t == p.candidates[i].timeout m == p.candidates[i].maxRetries
<1>1. t \in Nat /\ m \in Int
  BY ProfileType
<1>2. CASE m < 0
  BY <1>1, <1>2 DEF Allowance
<1>3. CASE m >= 0
  <2>1. Allowance(p, i) = (m + 1) * t + Backoffs(p, m)
    BY <1>1, <1>3 DEF Allowance, TimeOf, Backoffs
  <2>2. Backoffs(p, m) \in Nat
    <3>1. m \in Nat /\ m <= m
      BY <1>1, <1>3
    <3> QED BY <3>1, BackoffsGrow
  <2> HIDE DEF t, m
  <2>3. (m + 1) * t \in Nat
    BY <1>1, <1>3
  <2> QED BY <2>1, <2>2, <2>3 DEF t, m
<1> QED BY <1>1, <1>2, <1>3

\* The time of n candidates: none for none, and more with every other.
LEMMA SpentGrows ==
    ASSUME NEW p \in Profiles, NEW n \in Nat, NEW m \in Nat, n <= m,
           m <= Len(p.candidates)
    PROVE  /\ Spent(p, n) \in Nat /\ Spent(p, 0) = 0
           /\ Spent(p, n) <= Spent(p, m)
           /\ n > 0 => Spent(p, n) = Spent(p, n - 1) + Allowance(p, n)
<1> DEFINE l == Len(p.candidates)
           f == [i \in 1 .. l |-> Allowance(p, i)]
<1>0. l \in Nat
  BY ProfileType
<1>1. \A i \in 1 .. l : f[i] \in Nat
  BY AllowanceType
<1>2. ASSUME NEW k \in 0 .. l PROVE Spent(p, k) = SumOver(f, 1, k)
  <2>1. [i \in 1 .. k |-> Allowance(p, i)] = [i \in 1 .. k |-> f[i]]
    BY <1>0
  <2> QED BY <2>1 DEF Spent, SumOver
<1>3. n > 0 => f[n] = Allowance(p, n)
  BY <1>0
<1> HIDE DEF f, l
<1>4. SumOver(f, 1, n) \in Nat /\ SumOver(f, 1, n) <= SumOver(f, 1, m)
  <2>1. \A i \in 1 .. m : f[i] \in Nat
    BY <1>0, <1>1 DEF l
  <2> QED BY <2>1, SumOverGrows
<1>5. n > 0 => SumOver(f, 1, n) = SumOver(f, 1, n - 1) + f[n]
  <2>1. \A i \in 1 .. n : f[i] \in Nat
    BY <1>0, <1>1 DEF l
  <2> QED BY <2>1, SumOverLast
<1>6. Spent(p, 0) = 0 /\ n \in 0 .. l /\ m \in 0 .. l /\ (n > 0 => n - 1 \in 0 .. l)
  BY <1>0, <1>2, SumOverNothing DEF l
<1> QED BY <1>2, <1>3, <1>4, <1>5, <1>6
-----------------------------------------------------------------------------
(* RouteTime: what the adapters make of an answer.                          *)

\* The answer asks for a delay that is honoured.
Asks(answer) ==
    /\ answer \notin {Silence, Cut}
    /\ answer.status >= 400
    /\ answer.retryAfter # NoDelay

\* What route() learns of an answer: a rejection is an error, and a 4xx but 408, 409
\* and 425 no transient one; a transient error passes on the delay asked for.
LEMMA GenerateFacts ==
    ASSUME NEW adapter, NEW answer \in Answers \cup {Silence, Cut}
    PROVE  LET error == Generate(adapter, answer)
           IN  /\ error.retryAfter \in Nat \cup {NoDelay}
               /\ HasStatus(answer, 400 .. 499) => error # Success
               /\ HasStatus(answer, {401, 403, 429}) => error.type \in ProviderWideErrors
               /\ HasStatus(answer, 400 .. 499) /\ answer.status \notin {408, 409, 425} =>
                      error.type \notin TransientErrors
               /\ error.type \in TransientErrors => error # Success
               /\ error.type \in TransientErrors /\ Asks(answer) =>
                      error.retryAfter \in Nat /\ error.retryAfter >= answer.retryAfter
               /\ error.type \in TransientErrors /\ ~ Asks(answer) =>
                      error.retryAfter = NoDelay
<1> DEFINE error == Generate(adapter, answer)
           raised == RaiseForProviderStatus(answer)
<1>1. CASE answer \in {Silence, Cut}
  <2>1. error = Raised("ProviderTimeoutError") \/ error = Raised("TransientProviderError")
    BY <1>1 DEF Generate
  <2> HIDE DEF error
  <2>2. /\ error.retryAfter = NoDelay
        /\ error.type \in {"ProviderTimeoutError", "TransientProviderError"}
    BY <2>1 DEF Raised
  <2>3. error # Success
    BY <2>2 DEF Success
  <2> QED BY <1>1, <2>2, <2>3 DEF HasStatus, Asks, error
<1>2. CASE answer \notin {Silence, Cut}
  <2>1. answer.status \in Int /\ answer.retryAfter \in Int \cup {NoDelay}
    BY <1>2, RouteTimeAssumption
  <2>2. \/ error = raised /\ raised # Success
        \/ raised = Success /\ (error = Success \/ error = Raised("TransientProviderError"))
    BY <1>2 DEF Generate
  <2>3. /\ RetryAfter(answer) \in Nat \cup {NoDelay}
        /\ answer.retryAfter # NoDelay =>
               RetryAfter(answer) \in Nat /\ RetryAfter(answer) >= answer.retryAfter
        /\ answer.retryAfter = NoDelay => RetryAfter(answer) = NoDelay
    BY <2>1 DEF RetryAfter
  <2> DEFINE s == answer.status
  <2> HIDE DEF error, raised
  <2>4. CASE s \in {401, 403}
    <3>1. raised = Raised("ProviderAuthenticationError")
      BY <2>4 DEF RaiseForProviderStatus, raised
    <3>2. raised.type = "ProviderAuthenticationError" /\ raised.retryAfter = NoDelay
      BY <3>1 DEF Raised
    <3>3. raised # Success
      BY <3>2 DEF Success
    <3> QED BY <2>2, <2>4, <3>2, <3>3
            DEF HasStatus, ProviderWideErrors, TransientErrors, error
  <2>5. CASE s = 429
    <3>1. raised = RaisedWithDelay(IF answer.billing THEN "ProviderQuotaExceededError"
                                                     ELSE "ProviderRateLimitError", answer)
      BY <2>5 DEF RaiseForProviderStatus, raised
    <3>2. /\ raised.type \in {"ProviderQuotaExceededError", "ProviderRateLimitError"}
          /\ raised.retryAfter = RetryAfter(answer)
      BY <3>1 DEF RaisedWithDelay
    <3>3. raised # Success
      BY <3>2 DEF Success
    <3> QED BY <2>2, <2>3, <2>5, <3>2, <3>3
            DEF HasStatus, ProviderWideErrors, TransientErrors, error
  <2>6. CASE s \in {408, 409, 425} \/ s >= 500
    <3>1. raised = RaisedWithDelay("TransientProviderError", answer)
      BY <2>1, <2>6 DEF RaiseForProviderStatus, raised
    <3>2. raised.type = "TransientProviderError" /\ raised.retryAfter = RetryAfter(answer)
      BY <3>1 DEF RaisedWithDelay
    <3>3. raised # Success
      BY <3>2 DEF Success
    <3>4. s >= 400
      BY <2>1, <2>6
    <3> QED BY <1>2, <2>1, <2>2, <2>3, <2>6, <3>2, <3>3, <3>4
            DEF HasStatus, Asks, error
  <2>7. CASE s \in 400 .. 499 \ {401, 403, 408, 409, 425, 429}
    <3>1. raised = Raised("ProviderPermanentError")
      BY <2>1, <2>7 DEF RaiseForProviderStatus, raised
    <3>2. raised.type = "ProviderPermanentError" /\ raised.retryAfter = NoDelay
      BY <3>1 DEF Raised
    <3>3. raised # Success
      BY <3>2 DEF Success
    <3> QED BY <2>2, <2>7, <3>2, <3>3
            DEF HasStatus, ProviderWideErrors, TransientErrors, error
  <2>8. CASE s < 400
    <3>1. raised = Success
      BY <2>1, <2>8 DEF RaiseForProviderStatus, raised
    <3>2. error.retryAfter = NoDelay /\ (error.type = "success" \/ error # Success)
      <4>1. CASE error = Success
        BY <4>1 DEF Success
      <4>2. CASE error = Raised("TransientProviderError")
        BY <4>2 DEF Raised, Success
      <4> QED BY <2>2, <3>1, <4>1, <4>2
    <3>3. s \notin 400 .. 499 /\ s \notin {401, 403, 429} /\ ~ Asks(answer)
      BY <2>1, <2>8 DEF Asks
    <3>4. error.type \in TransientErrors => error # Success
      BY <3>2 DEF TransientErrors
    <3> QED BY <3>2, <3>3, <3>4 DEF HasStatus, error
  <2> QED BY <2>1, <2>4, <2>5, <2>6, <2>7, <2>8
<1> QED BY <1>1, <1>2
-----------------------------------------------------------------------------
(* RouteTime: the inductive invariant.                                      *)

Longest == greatest(Arrivals)

Phases == {"arriving", "calling", "sleeping", "succeeded", "failed"}

JobType(p, j) ==
    j \in [phase : Phases, at : 0 .. Len(p.candidates), retry : Nat,
           excluded : SUBSET STRING, wake : Nat]

\* The job j heard a candidate, for the first time or again.
Active(j) == j.phase \in {"calling", "sleeping"}

\* The time that n heard of candidate i may take, with the backoffs between them.
CallsOf(p, i, n) == n * p.candidates[i].timeout + Backoffs(p, n)

\* At time t, with h of it slept because providers asked for it: the time of the
\* candidates that are done with, and of the one that is not.
SpentBy(p, j, t, h) ==
    /\ Active(j) => j.at >= 1 /\ j.retry <= p.candidates[j.at].maxRetries
    /\ j.phase = "calling" =>
           t <= Longest + h + Spent(p, j.at - 1) + CallsOf(p, j.at, j.retry)
    /\ j.phase = "sleeping" =>
           /\ j.retry < p.candidates[j.at].maxRetries
           /\ t <= j.wake
           /\ j.wake <= Longest + h + Spent(p, j.at - 1) + CallsOf(p, j.at, j.retry + 1)
    /\ ~ Active(j) => t <= Longest + h + Spent(p, j.at)

\* The pause before retry r was as long as it had to be.
Waited(p, answer, pause, r) ==
    IF Asks(answer) THEN pause >= answer.retryAfter
    ELSE 5 * pause >= 4 * Backoff(p, r) /\ 5 * pause <= 6 * Backoff(p, r)

\* Who rejected the job is behind it, or excluded.
Heeded(p, j, heard) ==
    \A c \in heard :
        /\ c[1] \in 1 .. j.at
        /\ Active(j) =>
               /\ c[2] \in {401, 403, 429} => p.candidates[c[1]].provider \in j.excluded
               /\ c[2] \notin {408, 409, 425} => c[1] < j.at

\* The candidate is not excluded, and not called again too early.
Patient(p, j, t, pause) ==
    /\ Active(j) => p.candidates[j.at].provider \notin j.excluded
    /\ j.phase = "sleeping" =>
           /\ pause.at = j.at /\ pause.since \in Nat
           /\ Waited(p, pause.answer, j.wake - pause.since, j.retry)
    /\ j.phase = "calling" /\ j.retry > 0 =>
           /\ pause.at = j.at /\ pause.since \in Nat
           /\ Waited(p, pause.answer, t - pause.since, j.retry - 1)

TimeInv ==
    /\ profile \in Profiles /\ clock \in Nat /\ honoured \in Nat
    /\ JobType(profile, job)
    /\ job.phase = "arriving" => clock = 0 /\ job.at = 0 /\ rejected = {}
    /\ SpentBy(profile, job, clock, honoured)
    /\ profile = Cloud => honoured = 0
    /\ Heeded(profile, job, rejected)
    /\ Patient(profile, job, clock, paused)

\* The longest arrival is one, because there is a longest.
LEMMA LongestType == Longest \in Nat /\ \A arrival \in Arrivals : arrival <= Longest
<1>1. \E x \in Arrivals : \A y \in Arrivals : y <= x
  BY RouteTimeAssumption
<1>2. Longest \in Arrivals /\ \A y \in Arrivals : y <= Longest
  BY <1>1, Zenon DEF Longest, greatest
<1> QED BY <1>2, RouteTimeAssumption

\* The job goes on to a later candidate, or ends.
LEMMA GoOnStep ==
    ASSUME TimeInv, NEW E \in SUBSET STRING, GoOn(job.at + 1, E),
           NEW t \in Nat, NEW h \in Nat, t <= Longest + h + Spent(profile, job.at),
           NEW heard, NEW pause,
           \A c \in heard :
               /\ c[1] \in 1 .. job.at
               /\ c[2] \in {401, 403, 429} => profile.candidates[c[1]].provider \in E
    PROVE  /\ JobType(profile, job') /\ job'.phase # "arriving"
           /\ SpentBy(profile, job', t, h)
           /\ Heeded(profile, job', heard)
           /\ Patient(profile, job', t, pause)
<1> DEFINE n == Len(profile.candidates)
<1>0. n \in Nat /\ job.at \in 0 .. n /\ profile \in Profiles
  BY ProfileType DEF TimeInv, JobType
<1>1. CASE job' = [job EXCEPT !.phase = "failed", !.excluded = E]
  <2>1. JobType(profile, job') /\ job'.phase = "failed" /\ job'.at = job.at
    BY <1>1 DEF TimeInv, JobType, Phases
  <2> QED BY <2>1 DEF Active, SpentBy, Heeded, Patient
<1>2. CASE \E i \in job.at + 1 .. n :
               /\ Candidate(i).provider \notin E
               /\ Candidate(i).maxRetries >= 0
               /\ job' = [phase |-> "calling", at |-> i, retry |-> 0, excluded |-> E, wake |-> 0]
  <2>1. PICK i \in job.at + 1 .. n :
               /\ profile.candidates[i].provider \notin E
               /\ profile.candidates[i].maxRetries >= 0
               /\ job' = [phase |-> "calling", at |-> i, retry |-> 0, excluded |-> E, wake |-> 0]
    BY <1>2 DEF Candidate
  <2> DEFINE j == [phase |-> "calling", at |-> i, retry |-> 0, excluded |-> E, wake |-> 0]
  <2>2. i \in 1 .. n /\ i > job.at
    BY <1>0, <2>1
  <2>3. /\ j.phase = "calling" /\ j.at = i /\ j.retry = 0 /\ j.excluded = E
        /\ JobType(profile, j)
    BY <1>0, <2>2 DEF JobType, Phases
  <2> HIDE DEF j
  <2>4. t <= Longest + h + Spent(profile, i - 1) + CallsOf(profile, i, 0)
    <3>1. profile.candidates[i].timeout \in Nat
      BY <1>0, <2>2, ProfileType
    <3>2. CallsOf(profile, i, 0) = 0
      <4>1. 0 \in Nat /\ 0 <= 0
        OBVIOUS
      <4>2. Backoffs(profile, 0) = 0
        BY <1>0, <4>1, BackoffsGrow
      <4> QED BY <3>1, <4>2 DEF CallsOf
    <3>3. /\ job.at \in Nat /\ i - 1 \in Nat /\ job.at <= i - 1 /\ i - 1 <= n
      BY <1>0, <2>2
    <3>4. Spent(profile, job.at) \in Nat /\ Spent(profile, job.at) <= Spent(profile, i - 1)
      BY <1>0, <3>3, SpentGrows
    <3>5. Spent(profile, i - 1) \in Nat
      BY <1>0, <3>3, SpentGrows
    <3> QED BY <3>2, <3>4, <3>5, LongestType
  <2>5. SpentBy(profile, j, t, h)
    BY <2>1, <2>2, <2>3, <2>4 DEF SpentBy, Active
  <2>6. Heeded(profile, j, heard)
    BY <1>0, <2>2, <2>3 DEF Heeded, Active
  <2>7. Patient(profile, j, t, pause)
    BY <2>1, <2>3 DEF Patient, Active
  <2>8. job' = j
    BY <2>1 DEF j
  <2> QED BY <2>3, <2>5, <2>6, <2>7, <2>8
<1> QED BY <1>1, <1>2 DEF GoOn
\* A job begins with nothing spent.
LEMMA TimeInitInv == TimeInit => TimeInv
<1> SUFFICES ASSUME TimeInit PROVE TimeInv
  OBVIOUS
<1>1. /\ profile \in Profiles /\ clock = 0 /\ honoured = 0 /\ rejected = {}
      /\ job = [phase |-> "arriving", at |-> 0, retry |-> 0, excluded |-> {}, wake |-> 0]
  BY DEF TimeInit
<1>2. Len(profile.candidates) \in Nat
  BY <1>1, ProfileType
<1>3. JobType(profile, job) /\ job.phase = "arriving" /\ job.at = 0
  BY <1>1, <1>2 DEF JobType, Phases
<1>4. SpentBy(profile, job, clock, honoured)
  <2>1. Spent(profile, 0) = 0
    <3>1. 0 \in Nat /\ 0 <= 0 /\ 0 <= Len(profile.candidates)
      BY <1>2
    <3> QED BY <1>1, <3>1, SpentGrows
  <2> QED BY <1>1, <1>3, <2>1, LongestType DEF SpentBy, Active
<1>5. Heeded(profile, job, rejected) /\ Patient(profile, job, clock, paused)
  BY <1>1, <1>3 DEF Heeded, Patient, Active
<1> QED BY <1>1, <1>3, <1>4, <1>5 DEF TimeInv

\* A request arrives.
LEMMA ArriveStep ==
    ASSUME TimeInv, NEW delay \in Arrivals, Arrive(delay)
    PROVE  TimeInv'
<1>1. /\ profile \in Profiles /\ clock = 0 /\ job.at = 0 /\ rejected = {} /\ honoured \in Nat
      /\ profile = Cloud => honoured = 0
  BY DEF TimeInv, Arrive
<1>2. /\ profile' = profile /\ honoured' = honoured /\ rejected' = rejected /\ paused' = paused
      /\ clock' = delay /\ GoOn(job.at + 1, {}) /\ delay \in Nat /\ delay <= Longest
  <2>1. clock' = clock + delay /\ GoOn(1, {}) /\ delay \in Nat
    BY RouteTimeAssumption DEF Arrive
  <2>2. clock' = delay /\ job.at + 1 = 1
    BY <1>1, <2>1
  <2> QED BY <2>1, <2>2, LongestType DEF Arrive, history
<1>3. Spent(profile, job.at) = 0
  <2>1. 0 \in Nat /\ 0 <= 0 /\ 0 <= Len(profile.candidates)
    BY <1>1, ProfileType
  <2> QED BY <1>1, <2>1, SpentGrows
<1>4. delay <= Longest + honoured + Spent(profile, job.at)
  BY <1>1, <1>2, <1>3, LongestType
<1>5. /\ JobType(profile, job') /\ job'.phase # "arriving"
      /\ SpentBy(profile, job', delay, honoured)
      /\ Heeded(profile, job', rejected)
      /\ Patient(profile, job', delay, paused)
  <2>1. {} \in SUBSET STRING
    OBVIOUS
  <2>2. \A c \in rejected :
            /\ c[1] \in 1 .. job.at
            /\ c[2] \in {401, 403, 429} => profile.candidates[c[1]].provider \in {}
    BY <1>1
  <2> QED BY <1>1, <1>2, <1>4, <2>1, <2>2, GoOnStep
<1> QED BY <1>1, <1>2, <1>5 DEF TimeInv

\* The time of the heard of one candidate.
LEMMA CallsBound ==
    ASSUME NEW p \in Profiles, NEW i \in 1 .. Len(p.candidates), NEW n \in Nat,
           n <= p.candidates[i].maxRetries
    PROVE  /\ CallsOf(p, i, n) \in Nat /\ LongestBackoff(p, n) \in Nat
           /\ CallsOf(p, i, n) + p.candidates[i].timeout <= Allowance(p, i)
           /\ CallsOf(p, i, n + 1)
                  = CallsOf(p, i, n) + p.candidates[i].timeout + LongestBackoff(p, n)
<1> DEFINE t == p.candidates[i].timeout m == p.candidates[i].maxRetries
           b == Backoffs(p, n) c == Backoffs(p, m) l == LongestBackoff(p, n)
<1>1. t \in Nat /\ m \in Nat /\ n <= m /\ l \in Nat
  <2>1. t \in Nat /\ m \in Int
    BY ProfileType
  <2>2. l \in Nat
    BY BackoffType
  <2> HIDE DEF t, l
  <2> QED BY <2>1, <2>2
<1>2. b \in Nat /\ b <= c /\ Backoffs(p, n + 1) = b + l
  BY <1>1, BackoffsGrow
<1>3. c \in Nat
  <2>1. m <= m
    BY <1>1
  <2> QED BY <1>1, <2>1, BackoffsGrow
<1>4. Allowance(p, i) = (m + 1) * t + c
  BY <1>1, AllowanceType
<1>5. CallsOf(p, i, n) = n * t + b /\ CallsOf(p, i, n + 1) = (n + 1) * t + (b + l)
  BY <1>2 DEF CallsOf
<1> HIDE DEF t, m, b, c, l
<1>6. n * t \in Nat /\ (n + 1) * t = n * t + t
  BY <1>1
<1>7. (n + 1) * t <= (m + 1) * t
  BY <1>1
<1>8. (m + 1) * t \in Nat /\ (n + 1) * t \in Nat
  BY <1>1
<1>9. /\ CallsOf(p, i, n) \in Nat /\ l \in Nat
      /\ CallsOf(p, i, n) + t <= Allowance(p, i)
      /\ CallsOf(p, i, n + 1) = CallsOf(p, i, n) + t + l
  BY <1>1, <1>2, <1>3, <1>4, <1>5, <1>6, <1>7, <1>8
<1> QED BY <1>9 DEF t, l

\* What is known of a job that heard or sleeps.
LEMMA ActiveFacts ==
    ASSUME TimeInv, Active(job)
    PROVE  LET p == profile o == profile.candidates[job.at]
           IN  /\ p \in Profiles /\ Len(p.candidates) \in Nat
               /\ clock \in Nat /\ honoured \in Nat
               /\ job.at \in 1 .. Len(p.candidates)
               /\ job.retry \in Nat /\ job.wake \in Nat /\ job.excluded \in SUBSET STRING
               /\ o.provider \in STRING /\ o.timeout \in Nat /\ o.maxRetries \in Int
               /\ job.retry <= o.maxRetries
               /\ Spent(p, job.at - 1) \in Nat /\ Allowance(p, job.at) \in Nat
               /\ Spent(p, job.at) = Spent(p, job.at - 1) + Allowance(p, job.at)
<1>1. profile \in Profiles /\ clock \in Nat /\ honoured \in Nat /\ JobType(profile, job)
  BY DEF TimeInv
<1>2. /\ Len(profile.candidates) \in Nat
      /\ job.at \in 0 .. Len(profile.candidates)
      /\ job.retry \in Nat /\ job.wake \in Nat /\ job.excluded \in SUBSET STRING
  BY <1>1, ProfileType DEF JobType
<1>3. job.at >= 1 /\ job.retry <= profile.candidates[job.at].maxRetries
  BY DEF TimeInv, SpentBy
<1>4. job.at \in 1 .. Len(profile.candidates)
  BY <1>2, <1>3
<1>5. LET o == profile.candidates[job.at]
      IN  o.provider \in STRING /\ o.timeout \in Nat /\ o.maxRetries \in Int
  BY <1>1, <1>4, ProfileType
<1>6. /\ Spent(profile, job.at - 1) \in Nat
      /\ Spent(profile, job.at) = Spent(profile, job.at - 1) + Allowance(profile, job.at)
  <2>1. /\ job.at - 1 \in Nat /\ job.at \in Nat /\ job.at > 0 /\ job.at <= job.at
        /\ job.at - 1 <= job.at /\ job.at <= Len(profile.candidates)
    BY <1>2, <1>4
  <2>2. Spent(profile, job.at - 1) \in Nat
    BY <1>1, <2>1, SpentGrows
  <2>3. Spent(profile, job.at) = Spent(profile, job.at - 1) + Allowance(profile, job.at)
    BY <1>1, <2>1, SpentGrows
  <2> QED BY <2>2, <2>3
<1>7. Allowance(profile, job.at) \in Nat
  BY <1>1, <1>4, AllowanceType
<1> QED BY <1>1, <1>2, <1>3, <1>4, <1>5, <1>6, <1>7

\* The candidate is given up: the credential is missing.
LEMMA UnsendableStep ==
    ASSUME TimeInv, Unsendable
    PROVE  TimeInv'
<1> DEFINE p == profile
           E == job.excluded \cup {p.candidates[job.at].provider}
<1>1. Active(job) /\ job.phase = "calling"
  BY DEF Unsendable, Active
<1>2. /\ profile' = profile /\ clock' = clock /\ honoured' = honoured
      /\ rejected' = rejected /\ paused' = paused
      /\ GoOn(job.at + 1, E)
  <2>1. Excluded(Raised("ProviderAuthenticationError")) = E
    BY DEF Excluded, Raised, ProviderWideErrors, Candidate
  <2> QED BY <2>1 DEF Unsendable, history
<1>3. E \in SUBSET STRING
  BY <1>1, ActiveFacts
<1>4. clock <= Longest + honoured + Spent(p, job.at)
  <2>1. clock <= Longest + honoured + Spent(p, job.at - 1) + CallsOf(p, job.at, job.retry)
    BY <1>1 DEF TimeInv, SpentBy
  <2>2. /\ CallsOf(p, job.at, job.retry) \in Nat
        /\ CallsOf(p, job.at, job.retry) + p.candidates[job.at].timeout <= Allowance(p, job.at)
    BY <1>1, ActiveFacts, CallsBound
  <2>3. /\ Spent(p, job.at) = Spent(p, job.at - 1) + Allowance(p, job.at)
        /\ Spent(p, job.at - 1) \in Nat /\ Allowance(p, job.at) \in Nat
        /\ clock \in Nat /\ honoured \in Nat /\ p.candidates[job.at].timeout \in Nat
    BY <1>1, ActiveFacts
  <2> QED BY <2>1, <2>2, <2>3, LongestType
<1>5. \A c \in rejected :
          /\ c[1] \in 1 .. job.at
          /\ c[2] \in {401, 403, 429} => p.candidates[c[1]].provider \in E
  BY <1>1 DEF TimeInv, Heeded
<1>6. clock \in Nat /\ honoured \in Nat
  BY DEF TimeInv
<1> HIDE DEF E
<1>7. /\ JobType(profile, job') /\ job'.phase # "arriving"
      /\ SpentBy(profile, job', clock, honoured)
      /\ Heeded(profile, job', rejected)
      /\ Patient(profile, job', clock, paused)
  BY <1>2, <1>3, <1>4, <1>5, <1>6, GoOnStep
<1> QED BY <1>2, <1>7 DEF TimeInv

\* The sleep is over.
LEMMA WakeStep ==
    ASSUME TimeInv, Wake
    PROVE  TimeInv'
<1> DEFINE p == profile
<1>1. Active(job) /\ job.phase = "sleeping"
  BY DEF Wake, Active
<1>2. /\ profile' = profile /\ clock' = job.wake /\ honoured' = honoured
      /\ rejected' = rejected /\ paused' = paused
  BY DEF Wake, history
<1>3. /\ job.retry < p.candidates[job.at].maxRetries
      /\ job.wake <= Longest + honoured + Spent(p, job.at - 1) + CallsOf(p, job.at, job.retry + 1)
  BY <1>1 DEF TimeInv, SpentBy
<1>4. job.wake \in Nat /\ honoured \in Nat /\ job.retry + 1 \in Nat
      /\ job.retry + 1 <= p.candidates[job.at].maxRetries
  <2>1. /\ job.wake \in Nat /\ honoured \in Nat /\ job.retry \in Nat
        /\ p.candidates[job.at].maxRetries \in Int
    BY <1>1, ActiveFacts
  <2> QED BY <1>3, <2>1
<1>5. Heeded(p, job, rejected) /\ Patient(p, job, clock, paused)
  BY DEF TimeInv
<1>6. /\ JobType(p, job') /\ job'.phase # "arriving"
      /\ SpentBy(p, job', job.wake, honoured)
      /\ Heeded(p, job', rejected)
      /\ Patient(p, job', job.wake, paused)
  <2>1. CASE job' = [job EXCEPT !.phase = "calling", !.retry = @ + 1]
    <3>1. /\ JobType(p, job') /\ job'.phase = "calling" /\ job'.at = job.at
          /\ job'.retry = job.retry + 1 /\ job'.excluded = job.excluded
      <4>1. JobType(p, job) /\ job.retry + 1 \in Nat
        BY <1>4 DEF TimeInv
      <4> QED BY <2>1, <4>1 DEF JobType, Phases
    <3>2. SpentBy(p, job', job.wake, honoured)
      BY <1>1, <1>3, <1>4, <3>1, ActiveFacts DEF SpentBy, Active
    <3>3. Heeded(p, job', rejected)
      BY <1>1, <1>5, <3>1 DEF Heeded, Active
    <3>4. Patient(p, job', job.wake, paused)
      <4>1. job'.retry - 1 = job.retry
        BY <1>1, <3>1, ActiveFacts
      <4> QED BY <1>1, <1>5, <3>1, <4>1 DEF Patient, Active
    <3> QED BY <3>1, <3>2, <3>3, <3>4
  <2>2. CASE GoOn(job.at + 1, job.excluded)
    <3>1. job.wake <= Longest + honoured + Spent(p, job.at)
      <4>1. /\ CallsOf(p, job.at, job.retry + 1) \in Nat
            /\ CallsOf(p, job.at, job.retry + 1) + p.candidates[job.at].timeout
                   <= Allowance(p, job.at)
        BY <1>1, <1>4, ActiveFacts, CallsBound
      <4>2. /\ Spent(p, job.at) = Spent(p, job.at - 1) + Allowance(p, job.at)
            /\ Spent(p, job.at - 1) \in Nat /\ Allowance(p, job.at) \in Nat
            /\ p.candidates[job.at].timeout \in Nat
        BY <1>1, ActiveFacts
      <4> QED BY <1>3, <1>4, <4>1, <4>2, LongestType
    <3>2. \A c \in rejected :
              /\ c[1] \in 1 .. job.at
              /\ c[2] \in {401, 403, 429} => p.candidates[c[1]].provider \in job.excluded
      BY <1>1, <1>5 DEF Heeded
    <3>3. job.excluded \in SUBSET STRING
      BY <1>1, ActiveFacts
    <3> QED BY <1>4, <2>2, <3>1, <3>2, <3>3, GoOnStep
  <2> QED BY <2>1, <2>2 DEF Wake
<1> QED BY <1>2, <1>4, <1>6 DEF TimeInv
\* A call has ended in an error that is not repeated, or cannot be: the job goes on.
LEMMA GiveUpStep ==
    ASSUME TimeInv, job.phase = "calling", NEW delay, NEW answer \in Answers \cup {Silence, Cut},
           NEW t \in Nat,
           t <= clock + profile.candidates[job.at].timeout,
           NEW heard,
           heard = IF HasStatus(answer, 400 .. 499)
                   THEN rejected \cup {<< job.at, answer.status >>} ELSE rejected,
           NEW adapter, GoOn(job.at + 1, Excluded(Generate(adapter, answer)))
    PROVE  /\ JobType(profile, job') /\ job'.phase # "arriving"
           /\ SpentBy(profile, job', t, honoured)
           /\ Heeded(profile, job', heard)
           /\ Patient(profile, job', t, paused)
<1> DEFINE p == profile
           E == Excluded(Generate(adapter, answer))
<1>0. Active(job)
  BY DEF Active
<1>1. job.excluded \subseteq E /\ E \in SUBSET STRING
  <2>1. job.excluded \in SUBSET STRING /\ p.candidates[job.at].provider \in STRING
    BY <1>0, ActiveFacts
  <2> QED BY <2>1 DEF Excluded, Candidate
<1>2. t <= Longest + honoured + Spent(p, job.at)
  <2>1. clock <= Longest + honoured + Spent(p, job.at - 1) + CallsOf(p, job.at, job.retry)
    BY DEF TimeInv, SpentBy
  <2>2. /\ CallsOf(p, job.at, job.retry) \in Nat
        /\ CallsOf(p, job.at, job.retry) + p.candidates[job.at].timeout <= Allowance(p, job.at)
    BY <1>0, ActiveFacts, CallsBound
  <2>3. /\ Spent(p, job.at) = Spent(p, job.at - 1) + Allowance(p, job.at)
        /\ Spent(p, job.at - 1) \in Nat /\ Allowance(p, job.at) \in Nat
        /\ clock \in Nat /\ honoured \in Nat /\ p.candidates[job.at].timeout \in Nat
    BY <1>0, ActiveFacts
  <2> HIDE DEF E
  <2> QED BY <2>1, <2>2, <2>3, LongestType
<1>3. ASSUME NEW c \in heard
      PROVE  /\ c[1] \in 1 .. job.at
             /\ c[2] \in {401, 403, 429} => p.candidates[c[1]].provider \in E
  <2>1. CASE c \in rejected
    BY <1>0, <1>1, <2>1 DEF TimeInv, Heeded
  <2>2. CASE c = << job.at, answer.status >> /\ HasStatus(answer, 400 .. 499)
    <3>1. c[1] \in 1 .. job.at /\ c[1] = job.at
      BY <1>0, <2>2, ActiveFacts
    <3>2. ASSUME c[2] \in {401, 403, 429} PROVE p.candidates[job.at].provider \in E
      <4>1. HasStatus(answer, {401, 403, 429})
        BY <2>2, <3>2 DEF HasStatus
      <4>2. Generate(adapter, answer).type \in ProviderWideErrors
        BY <4>1, GenerateFacts
      <4> QED BY <4>2 DEF Excluded, Candidate
    <3> QED BY <3>1, <3>2
  <2> QED BY <2>1, <2>2
<1>4. honoured \in Nat
  BY DEF TimeInv
<1> HIDE DEF E
<1>5. GoOn(job.at + 1, E)
  BY DEF E
<1> QED BY <1>1, <1>2, <1>3, <1>4, <1>5, GoOnStep

\* A call is answered, or ends without an answer.
LEMMA CallEndsStep ==
    ASSUME TimeInv, NEW delay \in Nat, NEW answer \in Answers \cup {Silence, Cut},
           CallEnds(delay, answer)
    PROVE  TimeInv'
<1> DEFINE p == profile
           adapter == Provider(job.at).adapter
           result == Generate(adapter, answer)
           heard == IF HasStatus(answer, 400 .. 499)
                    THEN rejected \cup {<< job.at, answer.status >>} ELSE rejected
           t == clock + delay
<1>1. /\ job.phase = "calling" /\ profile' = p /\ clock' = t /\ rejected' = heard
      /\ delay <= p.candidates[job.at].timeout
  <2>1. /\ job.phase = "calling" /\ profile' = p /\ clock' = t /\ rejected' = heard
        /\ delay = Candidate(job.at).timeout \/ delay <= Candidate(job.at).timeout
    BY DEF CallEnds
  <2>2. Active(job)
    BY <2>1 DEF Active
  <2>3. p.candidates[job.at].timeout \in Nat
    BY <2>2, ActiveFacts
  <2> QED BY <2>1, <2>3 DEF Candidate
<1>2. Active(job)
  BY <1>1 DEF Active
<1>3. t \in Nat /\ honoured \in Nat /\ t <= clock + p.candidates[job.at].timeout
  <2>1. clock \in Nat /\ honoured \in Nat /\ p.candidates[job.at].timeout \in Nat
    BY <1>2, ActiveFacts
  <2> QED BY <1>1, <2>1
<1>4. /\ result = Success => /\ job' = [job EXCEPT !.phase = "succeeded"]
                             /\ honoured' = honoured /\ paused' = paused
      /\ result # Success /\ Retries(result) =>
             \E pause \in Sleep(result) :
                 /\ job' = [job EXCEPT !.phase = "sleeping", !.wake = t + pause]
                 /\ honoured' = IF result.retryAfter = NoDelay THEN honoured ELSE honoured + pause
                 /\ paused' = [at |-> job.at, answer |-> answer, since |-> t]
      /\ result # Success /\ ~ Retries(result) =>
             /\ GoOn(job.at + 1, Excluded(result))
             /\ honoured' = honoured /\ paused' = paused
  BY <1>1 DEF CallEnds
<1>5. \A c \in heard : c[1] \in 1 .. job.at
  <2>1. job.at \in 1 .. job.at
    BY <1>2, ActiveFacts
  <2> QED BY <2>1 DEF TimeInv, Heeded
<1>6. /\ t <= Longest + honoured + Spent(p, job.at - 1) + CallsOf(p, job.at, job.retry)
                  + p.candidates[job.at].timeout
      /\ CallsOf(p, job.at, job.retry) \in Nat
      /\ CallsOf(p, job.at, job.retry) + p.candidates[job.at].timeout <= Allowance(p, job.at)
      /\ CallsOf(p, job.at, job.retry + 1) = CallsOf(p, job.at, job.retry)
             + p.candidates[job.at].timeout + LongestBackoff(p, job.retry)
      /\ LongestBackoff(p, job.retry) \in Nat
  <2>1. /\ CallsOf(p, job.at, job.retry) \in Nat
        /\ CallsOf(p, job.at, job.retry) + p.candidates[job.at].timeout <= Allowance(p, job.at)
        /\ CallsOf(p, job.at, job.retry + 1) = CallsOf(p, job.at, job.retry)
               + p.candidates[job.at].timeout + LongestBackoff(p, job.retry)
        /\ LongestBackoff(p, job.retry) \in Nat
    BY <1>2, ActiveFacts, CallsBound
  <2>2. clock <= Longest + honoured + Spent(p, job.at - 1) + CallsOf(p, job.at, job.retry)
    BY <1>1 DEF TimeInv, SpentBy
  <2>3. /\ Spent(p, job.at - 1) \in Nat /\ clock \in Nat /\ honoured \in Nat
        /\ p.candidates[job.at].timeout \in Nat
    BY <1>2, ActiveFacts
  <2> HIDE DEF t
  <2>4. t <= clock + p.candidates[job.at].timeout /\ t \in Nat
    BY <1>3
  <2> QED BY <2>1, <2>2, <2>3, <2>4, LongestType
<1>7. /\ Spent(p, job.at) = Spent(p, job.at - 1) + Allowance(p, job.at)
      /\ Spent(p, job.at - 1) \in Nat /\ Allowance(p, job.at) \in Nat
      /\ p.candidates[job.at].timeout \in Nat
  BY <1>2, ActiveFacts
<1>8. JobType(p, job) /\ job.retry \in Nat /\ p \in Profiles
  BY <1>2, ActiveFacts DEF TimeInv
<1>9. profile = Cloud => honoured = 0
  BY DEF TimeInv
<1>10. CASE result = Success
  <2>1. /\ JobType(p, job') /\ job'.phase = "succeeded" /\ job'.at = job.at
        /\ honoured' = honoured
    BY <1>4, <1>8, <1>10 DEF JobType, Phases
  <2> HIDE DEF heard, result, t
  <2>2. SpentBy(p, job', t, honoured)
    <3>1. t <= Longest + honoured + Spent(p, job.at)
      BY <1>3, <1>6, <1>7, LongestType
    <3> QED BY <2>1, <3>1 DEF SpentBy, Active
  <2>3. Heeded(p, job', heard) /\ Patient(p, job', t, paused')
    BY <1>5, <2>1 DEF Heeded, Patient, Active
  <2> QED BY <1>1, <1>3, <1>8, <1>9, <2>1, <2>2, <2>3 DEF TimeInv
<1>11. CASE result # Success /\ Retries(result)
  <2>1. PICK pause \in Sleep(result) :
            /\ job' = [job EXCEPT !.phase = "sleeping", !.wake = t + pause]
            /\ honoured' = IF result.retryAfter = NoDelay THEN honoured ELSE honoured + pause
            /\ paused' = [at |-> job.at, answer |-> answer, since |-> t]
    BY <1>4, <1>11
  <2>2. result.type \in TransientErrors /\ job.retry < p.candidates[job.at].maxRetries
    BY <1>11 DEF Retries, Candidate
  <2>3. /\ result.retryAfter \in Nat \cup {NoDelay}
        /\ HasStatus(answer, 400 .. 499) => answer.status \in {408, 409, 425}
        /\ Asks(answer) => result.retryAfter \in Nat /\ result.retryAfter >= answer.retryAfter
        /\ ~ Asks(answer) => result.retryAfter = NoDelay
    BY <2>2, GenerateFacts DEF HasStatus
  <2> HIDE DEF result, heard, t
  <2>4. /\ pause \in Nat
        /\ result.retryAfter = NoDelay => pause <= LongestBackoff(p, job.retry)
        /\ Waited(p, answer, pause, job.retry)
    <3>1. CASE result.retryAfter = NoDelay
      <4>1. pause \in Jittered(Backoff(p, job.retry))
        BY <3>1 DEF Sleep
      <4>2. /\ pause \in Nat /\ pause <= LongestBackoff(p, job.retry)
            /\ 5 * pause >= 4 * Backoff(p, job.retry) /\ 5 * pause <= 6 * Backoff(p, job.retry)
        BY <1>8, <4>1, JitterBounds
      <4>3. ~ Asks(answer)
        BY <2>3, <3>1, AnswerAssumption
      <4> QED BY <4>2, <4>3 DEF Waited
    <3>2. CASE result.retryAfter # NoDelay
      <4>1. pause = result.retryAfter /\ Asks(answer)
        BY <2>3, <3>2 DEF Sleep
      <4> QED BY <2>3, <3>2, <4>1 DEF Waited
    <3> QED BY <3>1, <3>2
  <2>5. /\ JobType(p, job') /\ job'.phase = "sleeping" /\ job'.at = job.at
        /\ job'.retry = job.retry /\ job'.wake = t + pause /\ job'.excluded = job.excluded
    <3>1. t + pause \in Nat
      BY <1>3, <2>4
    <3> QED BY <1>8, <2>1, <3>1 DEF JobType, Phases
  <2>6. honoured' \in Nat
    BY <1>3, <2>1, <2>4
  <2>7. SpentBy(p, job', t, honoured')
    <3>1. t + pause <= Longest + honoured' + Spent(p, job.at - 1)
                           + CallsOf(p, job.at, job.retry + 1)
      <4>1. CASE result.retryAfter = NoDelay
        BY <1>3, <1>6, <1>7, <2>1, <2>4, <4>1, LongestType
      <4>2. CASE result.retryAfter # NoDelay
        BY <1>3, <1>6, <1>7, <2>1, <2>4, <4>2, LongestType
      <4> QED BY <4>1, <4>2
    <3>2. t <= t + pause
      BY <1>3, <2>4
    <3>3. job.at >= 1 /\ job.retry <= p.candidates[job.at].maxRetries
      BY <1>2 DEF TimeInv, SpentBy
    <3> QED BY <2>2, <2>5, <3>1, <3>2, <3>3 DEF SpentBy, Active
  <2>8. Heeded(p, job', heard)
    <3> SUFFICES ASSUME NEW c \in heard
                 PROVE  /\ c[1] \in 1 .. job.at
                        /\ c[2] \in {401, 403, 429} =>
                               p.candidates[c[1]].provider \in job.excluded
                        /\ c[2] \notin {408, 409, 425} => c[1] < job.at
      BY <2>5 DEF Heeded
    <3>1. CASE c \in rejected
      BY <1>2, <3>1 DEF TimeInv, Heeded
    <3>2. CASE c = << job.at, answer.status >> /\ HasStatus(answer, 400 .. 499)
      <4>1. c[2] \in {408, 409, 425}
        BY <2>3, <3>2
      <4> QED BY <1>5, <4>1
    <3> QED BY <3>1, <3>2 DEF heard
  <2>9. Patient(p, job', t, paused')
    <3>1. p.candidates[job.at].provider \notin job.excluded
      BY <1>2 DEF TimeInv, Patient
    <3>2. paused'.at = job.at /\ paused'.since = t /\ paused'.answer = answer
      BY <2>1
    <3>3. (t + pause) - t = pause
      BY <1>3, <2>4
    <3> QED BY <1>3, <2>4, <2>5, <3>1, <3>2, <3>3 DEF Patient, Active
  <2>10. profile # Cloud
    <3>1. \A i \in 1 .. Len(Cloud.candidates) : Cloud.candidates[i].maxRetries <= 0
      BY CloudBudgetAssumption
    <3>2. /\ job.at \in 1 .. Len(p.candidates)
          /\ p.candidates[job.at].maxRetries \in Int
      BY <1>2, ActiveFacts
    <3>3. ~ (p.candidates[job.at].maxRetries <= 0)
      BY <1>8, <2>2, <3>2
    <3> QED BY <3>1, <3>2, <3>3
  <2> QED BY <1>1, <1>3, <1>8, <2>5, <2>6, <2>7, <2>8, <2>9, <2>10 DEF TimeInv
<1>12. CASE result # Success /\ ~ Retries(result)
  <2>1. GoOn(job.at + 1, Excluded(result)) /\ honoured' = honoured /\ paused' = paused
    BY <1>4, <1>12
  <2> HIDE DEF t, heard, adapter
  <2>2. /\ JobType(p, job') /\ job'.phase # "arriving"
        /\ SpentBy(p, job', t, honoured)
        /\ Heeded(p, job', heard)
        /\ Patient(p, job', t, paused)
    <3>1. heard = IF HasStatus(answer, 400 .. 499)
                  THEN rejected \cup {<< job.at, answer.status >>} ELSE rejected
      BY DEF heard
    <3> QED BY <1>1, <1>3, <2>1, <3>1, GiveUpStep
  <2> QED BY <1>1, <1>3, <1>8, <1>9, <2>1, <2>2 DEF TimeInv
<1> QED BY <1>10, <1>11, <1>12

\* Every step keeps the invariant.
LEMMA TimeNextInv == TimeInv /\ [TimeNext]_timeVars => TimeInv'
<1> SUFFICES ASSUME TimeInv, [TimeNext]_timeVars PROVE TimeInv'
  OBVIOUS
<1>1. CASE \E delay \in Arrivals : Arrive(delay)
  BY <1>1, ArriveStep
<1>2. CASE Unsendable
  BY <1>2, UnsendableStep
<1>3. ASSUME NEW answer \in Answers \cup {Silence, Cut},
             NEW delay \in Delays \cup {Candidate(i).timeout : i \in 1 .. Len(profile.candidates)},
             CallEnds(delay, answer)
      PROVE  TimeInv'
  <2>1. delay \in Nat
    <3>1. profile \in Profiles
      BY DEF TimeInv
    <3>2. \A i \in 1 .. Len(profile.candidates) : Candidate(i).timeout \in Nat
      BY <3>1, ProfileType DEF Candidate
    <3> QED BY <3>2, RouteTimeAssumption
  <2> QED BY <1>3, <2>1, CallEndsStep
<1>4. CASE Wake
  BY <1>4, WakeStep
<1>5. CASE UNCHANGED timeVars
  BY <1>5 DEF timeVars, history, TimeInv
<1> QED BY <1>1, <1>2, <1>3, <1>4, <1>5 DEF TimeNext

\* The invariant, for every configuration, answer and duration of a call.
THEOREM TimeIsKept == TimeSpec => []TimeInv
BY TimeInitInv, TimeNextInv, PTL DEF TimeSpec

\* What a job has taken: at most the time of the candidates up to its own.
LEMMA WithinSpent ==
    TimeInv => clock <= Longest + honoured + Spent(profile, job.at)
<1> SUFFICES ASSUME TimeInv PROVE clock <= Longest + honoured + Spent(profile, job.at)
  OBVIOUS
<1>1. CASE ~ Active(job)
  BY <1>1 DEF TimeInv, SpentBy
<1>2. CASE job.phase = "calling"
  <2>0. Active(job)
    BY <1>2 DEF Active
  <2> DEFINE n == job.retry
  <2>1. n \in Nat /\ n <= profile.candidates[job.at].maxRetries
    BY <2>0, ActiveFacts
  <2>2. clock <= Longest + honoured + Spent(profile, job.at - 1) + CallsOf(profile, job.at, n)
    BY <1>2 DEF TimeInv, SpentBy
  <2> HIDE DEF n
  <2>3. /\ CallsOf(profile, job.at, n) \in Nat
        /\ CallsOf(profile, job.at, n) + profile.candidates[job.at].timeout
               <= Allowance(profile, job.at)
    BY <2>0, <2>1, ActiveFacts, CallsBound
  <2>4. /\ Spent(profile, job.at) = Spent(profile, job.at - 1) + Allowance(profile, job.at)
        /\ Spent(profile, job.at - 1) \in Nat /\ Allowance(profile, job.at) \in Nat
        /\ profile.candidates[job.at].timeout \in Nat /\ clock \in Nat /\ honoured \in Nat
    BY <2>0, ActiveFacts
  <2> QED BY <2>2, <2>3, <2>4, LongestType
<1>3. CASE job.phase = "sleeping"
  <2>0. Active(job)
    BY <1>3 DEF Active
  <2> DEFINE n == job.retry + 1
  <2>1. n \in Nat /\ n <= profile.candidates[job.at].maxRetries
    <3>1. job.retry \in Nat /\ profile.candidates[job.at].maxRetries \in Int
      BY <2>0, ActiveFacts
    <3>2. job.retry < profile.candidates[job.at].maxRetries
      BY <1>3 DEF TimeInv, SpentBy
    <3> QED BY <3>1, <3>2
  <2>2. /\ clock <= job.wake
        /\ job.wake <= Longest + honoured + Spent(profile, job.at - 1)
                           + CallsOf(profile, job.at, n)
    BY <1>3 DEF TimeInv, SpentBy
  <2> HIDE DEF n
  <2>3. /\ CallsOf(profile, job.at, n) \in Nat
        /\ CallsOf(profile, job.at, n) + profile.candidates[job.at].timeout
               <= Allowance(profile, job.at)
    BY <2>0, <2>1, ActiveFacts, CallsBound
  <2>4. /\ Spent(profile, job.at) = Spent(profile, job.at - 1) + Allowance(profile, job.at)
        /\ Spent(profile, job.at - 1) \in Nat /\ Allowance(profile, job.at) \in Nat
        /\ profile.candidates[job.at].timeout \in Nat /\ clock \in Nat /\ honoured \in Nat
        /\ job.wake \in Nat
    BY <2>0, ActiveFacts
  <2> QED BY <2>2, <2>3, <2>4, LongestType
<1> QED BY <1>1, <1>2, <1>3 DEF Active

\* A job takes no more than its configuration accounts for and its providers asked for.
THEOREM TimeIsAccountedFor == TimeSpec => []TimeAccounted
<1>1. TimeInv => TimeAccounted
  BY WithinSpent DEF TimeAccounted, Spent, Longest
<1> QED BY <1>1, TimeIsKept, PTL

\* Rejections are heeded and pauses kept.
THEOREM RetriesArePolite == TimeSpec => []PoliteRetries
<1>1. TimeInv => PoliteRetries
  <2> SUFFICES ASSUME TimeInv, job.phase = "calling"
               PROVE  /\ \A c \in rejected :
                             /\ c[2] \in {401, 403, 429} =>
                                    Candidate(job.at).provider # Candidate(c[1]).provider
                             /\ c[2] \notin {408, 409, 425} => job.at # c[1]
                      /\ job.retry > 0 =>
                             /\ paused.at = job.at
                             /\ Waited(profile, paused.answer, clock - paused.since,
                                       job.retry - 1)
    BY DEF PoliteRetries, Waited, Asks
  <2>0. Active(job)
    BY DEF Active
  <2>1. ASSUME NEW c \in rejected
        PROVE  /\ c[2] \in {401, 403, 429} =>
                      Candidate(job.at).provider # Candidate(c[1]).provider
               /\ c[2] \notin {408, 409, 425} => job.at # c[1]
    <3>1. /\ c[1] \in 1 .. job.at
          /\ c[2] \in {401, 403, 429} => profile.candidates[c[1]].provider \in job.excluded
          /\ c[2] \notin {408, 409, 425} => c[1] < job.at
      BY <2>0 DEF TimeInv, Heeded
    <3>2. profile.candidates[job.at].provider \notin job.excluded
      BY <2>0 DEF TimeInv, Patient
    <3>3. job.at \in Int
      BY <2>0, ActiveFacts
    <3>4. c[1] < job.at => job.at # c[1]
      BY <3>1, <3>3
    <3> QED BY <3>1, <3>2, <3>4, Zenon DEF Candidate
  <2>2. job.retry > 0 =>
             /\ paused.at = job.at
             /\ Waited(profile, paused.answer, clock - paused.since, job.retry - 1)
    BY DEF TimeInv, Patient
  <2> QED BY <2>1, <2>2
<1> QED BY <1>1, TimeIsKept, PTL

\* Nothing is repeated in the cloud profile: a candidate takes no more than its timeout.
LEMMA CloudSpent ==
    ASSUME NEW n \in 0 .. Len(Cloud.candidates)
    PROVE  Spent(Cloud, n) <= SumFunction([i \in 1 .. Len(Cloud.candidates) |->
                                               Cloud.candidates[i].timeout])
<1> DEFINE l == Len(Cloud.candidates)
           f == [i \in 1 .. l |-> Allowance(Cloud, i)]
           g == [i \in 1 .. l |-> Cloud.candidates[i].timeout]
<1>0. Cloud \in Profiles /\ l \in Nat
  BY RouteTimeAssumption, ProfileType
<1>1. ASSUME NEW i \in 1 .. l
      PROVE  /\ Allowance(Cloud, i) \in Nat /\ Cloud.candidates[i].timeout \in Nat
             /\ Allowance(Cloud, i) <= Cloud.candidates[i].timeout
  <2> DEFINE m == Cloud.candidates[i].maxRetries t == Cloud.candidates[i].timeout
  <2>1. m <= 0
    BY CloudBudgetAssumption
  <2>2. m \in Int /\ t \in Nat
    BY <1>0, ProfileType
  <2>3. Allowance(Cloud, i) \in Nat /\ (m >= 0 => Allowance(Cloud, i) = (m + 1) * t + Backoffs(Cloud, m))
    BY <1>0, AllowanceType
  <2>4. CASE m < 0
    BY <2>2, <2>4 DEF Allowance
  <2>5. CASE m = 0
    <3>1. Backoffs(Cloud, 0) = 0
      <4>1. 0 \in Nat /\ 0 <= 0
        OBVIOUS
      <4> QED BY <1>0, <4>1, BackoffsGrow
    <3> HIDE DEF m, t
    <3>2. Allowance(Cloud, i) = (0 + 1) * t + 0
      BY <2>3, <2>5, <3>1
    <3>3. Allowance(Cloud, i) <= t
      BY <2>2, <3>2
    <3> QED BY <2>2, <2>3, <3>3 DEF t
  <2> QED BY <2>1, <2>2, <2>4, <2>5
<1>2. Spent(Cloud, l) = SumFunction(f)
  BY DEF Spent
<1>3. SumFunction(f) = Total(f, 1 .. l) /\ SumFunction(g) = Total(g, 1 .. l)
  BY Zenon DEF SumFunction, Total
<1>4. \A i \in 1 .. l : f[i] \in Int /\ g[i] \in Int /\ f[i] <= g[i]
  BY <1>1
<1>5. IsFiniteSet(1 .. l)
  BY <1>0, FS_Interval
<1>6. Spent(Cloud, n) \in Nat /\ Spent(Cloud, n) <= Spent(Cloud, l)
  <2>1. n \in Nat /\ n <= l /\ l <= l
    BY <1>0
  <2> QED BY <1>0, <2>1, SpentGrows
<1>7. Spent(Cloud, l) \in Nat
  <2>1. l <= l
    BY <1>0
  <2> QED BY <1>0, <2>1, SpentGrows
<1> HIDE DEF f, g
<1>8. Total(f, 1 .. l) <= Total(g, 1 .. l) /\ Total(g, 1 .. l) \in Int
  BY <1>4, <1>5, TotalMonotone, TotalType
<1>9. Spent(Cloud, n) <= SumFunction(g)
  BY <1>2, <1>3, <1>6, <1>7, <1>8
<1> QED BY <1>9 DEF g

\* The cloud profile is done before the page or the function gives up.
THEOREM BudgetIsKept == TimeSpec => []BudgetBelowDeadlines
<1>1. TimeInv => BudgetBelowDeadlines
  <2> SUFFICES ASSUME TimeInv, profile = Cloud
               PROVE  clock < BrowserDeadline /\ clock < FunctionDeadline
    BY DEF BudgetBelowDeadlines
  <2> DEFINE budget == SumFunction([i \in 1 .. Len(Cloud.candidates) |->
                                        Cloud.candidates[i].timeout])
             spent == Spent(Cloud, job.at)
  <2>1. honoured = 0 /\ clock \in Nat /\ job.at \in 0 .. Len(Cloud.candidates)
    BY DEF TimeInv, JobType
  <2>2. clock <= Longest + honoured + Spent(profile, job.at)
    BY WithinSpent
  <2>3. spent <= budget
    BY <2>1, CloudSpent
  <2>4. spent \in Nat
    <3>1. Cloud \in Profiles /\ Len(Cloud.candidates) \in Nat
      BY RouteTimeAssumption, ProfileType
    <3>2. job.at \in Nat /\ job.at <= job.at /\ job.at <= Len(Cloud.candidates)
      BY <2>1, <3>1
    <3> QED BY <3>1, <3>2, SpentGrows
  <2>5. budget \in Int
    <3> DEFINE g == [i \in 1 .. Len(Cloud.candidates) |-> Cloud.candidates[i].timeout]
    <3>1. budget = Total(g, 1 .. Len(Cloud.candidates))
      BY Zenon DEF SumFunction, Total
    <3>2. \A i \in 1 .. Len(Cloud.candidates) : g[i] \in Int
      BY RouteTimeAssumption, ProfileType
    <3>3. IsFiniteSet(1 .. Len(Cloud.candidates))
      BY RouteTimeAssumption, ProfileType, FS_Interval
    <3> HIDE DEF g, budget
    <3> QED BY <3>1, <3>2, <3>3, TotalType
  <2>6. /\ {BrowserDeadline, FunctionDeadline} \subseteq Nat
        /\ Longest + budget < BrowserDeadline /\ Longest + budget < FunctionDeadline
    BY CloudBudgetAssumption DEF Longest
  <2>7. clock <= Longest + 0 + spent
    BY <2>1, <2>2
  <2> HIDE DEF budget, spent
  <2> QED BY <2>1, <2>3, <2>4, <2>5, <2>6, <2>7, LongestType
<1> QED BY <1>1, TimeIsKept, PTL
=============================================================================
