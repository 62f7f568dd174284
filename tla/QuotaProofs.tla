---------------------------- MODULE QuotaProofs ----------------------------
(***************************************************************************)
(* What Quota promises about request limits, reservations, tokens and money,*)
(* proved for every window, every limits, every set of requests and usages   *)
(* and every bound.                                                         *)
(***************************************************************************)
EXTENDS Quota, QuotaOpsProofs, TLAPS

-----------------------------------------------------------------------------
(* The inductive invariant.  Neither limit is inductive alone: the counters *)
(* the code tests must be tied to the history of grants.                    *)

\* The request log of state s has an entry for each grant but some of the
\* oldest, and those have left the window for good (monotonic time only grows).
RequestLog(s) ==
    LET dropped == Len(grants) - Len(s.requestTimes)
    IN  /\ dropped >= 0
        /\ \A i \in 1 .. dropped : grants[i].at <= now - Window
        /\ \A i \in 1 .. Len(s.requestTimes) :
               s.requestTimes[i] = grants[dropped + i].at

\* Its request counter counts exactly the grants of its day, the latest ones.
DayLog(s) ==
    LET earlier == Len(grants) - s.dailyRequests
    IN  /\ s.day <= today
        /\ earlier >= 0
        /\ \A i \in 1 .. earlier : grants[i].day < s.day
        /\ \A i \in earlier + 1 .. Len(grants) : grants[i].day = s.day

\* The inductive invariant.
IInv ==
    /\ TypeOK
    /\ RequestLog(state)
    /\ DayLog(state)
    /\ RequestsPerMinute
    /\ RequestsPerDay

-----------------------------------------------------------------------------
(* The lemmas of QuotaOpsProofs, here.                                      *)

\* Quota's reservations are named by numbers.
LEMMA StateIsTracker == State = TrackerState(Nat)
BY DEF State, TrackerState

\* An estimate is an amount: integer tokens and cost.
LEMMA EstimateType ==
    ASSUME NEW request \in Requests
    PROVE  Estimate(Price, request) \in Amount
BY QuotaAssumption DEF Estimate, EstimateCost, NonNegative, Amount

-----------------------------------------------------------------------------
(* IInv is inductive.                                                       *)

\* The fresh tracker satisfies the inductive invariant.
LEMMA InitIInv == Init => IInv
<1> SUFFICES ASSUME Init PROVE IInv
  OBVIOUS
<1> USE DEF Init
<1>1. state \in State
  <2>1. << >> \in Seq(Nat) /\ << >> \in Seq([at : Nat, id : Nat, tokens : Int])
    BY EmptySeq
  <2>2. {} \in SUBSET [id : Nat, tokens : Int, cost : Int] /\ 0 \in Nat /\ 0 \in Int
    OBVIOUS
  <2>3. FreshState(0) \in State
    BY <2>1, <2>2, StateRecord, StateIsTracker DEF FreshState
  <2> QED BY <2>3
<1>2. TypeOK
  BY <1>1, QuotaAssumption DEF TypeOK
<1>3. /\ Len(grants) = 0
      /\ Len(state.requestTimes) = 0
      /\ state.dailyRequests = 0
      /\ state.day = 0
  BY DEF FreshState
<1>4. RequestLog(state) /\ DayLog(state)
  BY <1>3, QuotaAssumption DEF RequestLog, DayLog
<1>5. RequestsPerMinute /\ RequestsPerDay
  BY <1>3 DEF RequestsPerMinute, RequestsPerDay
<1> QED BY <1>2, <1>4, <1>5 DEF IInv

\* Rolling the windows loses nothing that the limits rely on.
LEMMA RollIInv ==
    ASSUME IInv
    PROVE  LET r == Roll(state, now, today)
           IN  /\ r \in State
               /\ r.day = today
               /\ RequestLog(r)
               /\ DayLog(r)
               /\ r.reservations = state.reservations
<1> DEFINE r == Roll(state, now, today)
           k == Len(state.requestTimes) - Len(r.requestTimes)
           n == Len(grants)
<1>1. /\ state \in State /\ now \in Nat /\ today \in Nat /\ n \in Nat
      /\ Len(state.requestTimes) \in Nat
  BY QuotaAssumption DEF IInv, TypeOK, State
<1>2. /\ r \in State
      /\ k >= 0
      /\ \A i \in 1 .. k : state.requestTimes[i] <= now - Window
      /\ \A i \in 1 .. Len(r.requestTimes) : r.requestTimes[i] = state.requestTimes[i + k]
      /\ r.day = today
      /\ r.dailyRequests = IF state.day = today THEN state.dailyRequests ELSE 0
      /\ r.reservations = state.reservations
  <2>1. state \in TrackerState(Nat)
    BY <1>1, StateIsTracker
  <2>2. r \in TrackerState(Nat) /\ RollEffect(state, r, now, today)
    BY <1>1, <2>1, RollProperties
  <2> QED BY <2>2, StateIsTracker DEF RollEffect
<1>3. Len(r.requestTimes) \in Nat
  BY <1>2 DEF State
<1> HIDE DEF r
<1>4. RequestLog(r)
  <2> DEFINE old == Len(state.requestTimes)
             new == Len(r.requestTimes)
  <2>1. /\ n - old >= 0
        /\ \A i \in 1 .. n - old : grants[i].at <= now - Window
        /\ \A i \in 1 .. old : state.requestTimes[i] = grants[n - old + i].at
    BY DEF IInv, RequestLog
  <2>2. /\ n \in Nat /\ old \in Nat /\ new \in Nat /\ k = old - new /\ k >= 0
        /\ k \in Int
    BY <1>1, <1>2, <1>3
  <2>3. /\ \A i \in 1 .. k : state.requestTimes[i] <= now - Window
        /\ \A i \in 1 .. new : r.requestTimes[i] = state.requestTimes[i + k]
    BY <1>2
  <2> HIDE DEF n, old, new, k
  <2>4. n - new >= 0
    BY <2>1, <2>2
  <2>5. ASSUME NEW i \in 1 .. n - new PROVE grants[i].at <= now - Window
    <3>1. CASE i <= n - old
      BY <2>1, <2>2, <3>1
    <3>2. CASE i > n - old
      <4> DEFINE j == i - (n - old)
      <4>1. j \in 1 .. k /\ j \in 1 .. old /\ n - old + j = i
        BY <2>1, <2>2, <3>2
      <4> HIDE DEF j
      <4> QED BY <2>1, <2>3, <4>1
    <3> QED BY <2>1, <2>2, <3>1, <3>2
  <2>6. ASSUME NEW i \in 1 .. new PROVE r.requestTimes[i] = grants[n - new + i].at
    <3>1. i + k \in 1 .. old /\ n - old + (i + k) = n - new + i
      BY <2>1, <2>2
    <3> QED BY <2>1, <2>3, <3>1
  <2> QED BY <2>4, <2>5, <2>6 DEF RequestLog, n, new
<1>5. DayLog(r)
  <2>1. /\ state.day <= today /\ state.day \in Nat /\ state.dailyRequests \in Nat
        /\ n - state.dailyRequests >= 0
        /\ \A i \in 1 .. n - state.dailyRequests : grants[i].day < state.day
        /\ \A i \in n - state.dailyRequests + 1 .. n : grants[i].day = state.day
    BY <1>1 DEF IInv, DayLog, State
  <2>2. CASE state.day = today
    BY <1>2, <2>1, <2>2 DEF DayLog
  <2>3. CASE state.day # today
    <3>1. r.dailyRequests = 0 /\ state.day < today
      BY <1>1, <1>2, <2>1, <2>3
    <3>2. ASSUME NEW i \in 1 .. n PROVE grants[i].day < today
      <4>1. grants[i].day <= state.day /\ grants[i].day \in Int
        <5>1. grants[i] \in Grant
          BY ElementOfSeq DEF IInv, TypeOK
        <5>2. CASE i <= n - state.dailyRequests
          BY <1>1, <2>1, <5>1, <5>2 DEF Grant
        <5>3. CASE i > n - state.dailyRequests
          BY <1>1, <2>1, <5>1, <5>3 DEF Grant
        <5> QED BY <1>1, <2>1, <5>2, <5>3
      <4> QED BY <1>1, <2>1, <3>1, <4>1
    <3> QED BY <1>1, <1>2, <3>1, <3>2 DEF DayLog
  <2> QED BY <2>2, <2>3
<1> QED BY <1>2, <1>4, <1>5 DEF r

\* Giving out a reservation that a rolled state r admits (kept folded: the
\* records it contains burden every obligation that does not need them).
GrantStep(r, e) ==
    /\ r.day = today
    /\ Admits(r, ModelLimits, e)
    /\ state' = Reserve(r, Reservation(Len(grants) + 1, e), now)
    /\ grants' = Append(grants, [at |-> now, day |-> today, estimate |-> e,
                                 charge |-> e, open |-> TRUE, late |-> FALSE])
    /\ now' = now
    /\ today' = today

\* A grant after a successful check of the limits preserves the invariant: the
\* only step that could break a limit.
LEMMA GrantIInv ==
    ASSUME IInv, NEW r \in State, NEW e \in Amount, RequestLog(r), DayLog(r),
           GrantStep(r, e)
    PROVE  IInv'
<1> DEFINE n == Len(grants)
           log == Len(r.requestTimes)
           cnt == r.dailyRequests
           new == [at |-> now, day |-> today, estimate |-> e,
                   charge |-> e, open |-> TRUE, late |-> FALSE]
<1>0. now \in Nat /\ today \in Nat /\ n \in Nat /\ log \in Nat /\ cnt \in Nat
  BY QuotaAssumption, SMTT(30) DEF IInv, TypeOK, State
<1>1. /\ now \in 0 .. MaxTime /\ today \in 0 .. MaxDay
      /\ grants \in Seq(Grant)
      /\ r.requestTimes \in Seq(Nat)
      /\ now' = now /\ today' = today /\ r.day = today
  BY QuotaAssumption DEF IInv, TypeOK, State, GrantStep
<1>2. /\ state' \in State
      /\ state'.requestTimes = Append(r.requestTimes, now)
      /\ state'.day = today
      /\ state'.dailyRequests = cnt + 1
  <2>1. state' = Reserve(r, Reservation(n + 1, e), now)
    BY DEF GrantStep
  <2>2. n + 1 \in Nat
    BY <1>0
  <2>3. ASSUME NEW m \in Nat
        PROVE  LET next == Reserve(r, Reservation(m, e), now)
               IN  /\ next \in State
                   /\ next.requestTimes = Append(r.requestTimes, now)
                   /\ next.day = r.day
                   /\ next.dailyRequests = r.dailyRequests + 1
    <3>1. now \in Nat
      BY <1>0
    <3>2. r \in TrackerState(Nat)
      BY StateIsTracker
    <3>3. LET next == Reserve(r, Reservation(m, e), now)
          IN  next \in TrackerState(Nat) /\ ReserveEffect(r, next, m, e, now)
      BY ONLY <3>1, <3>2, e \in Amount, m \in Nat, ReserveType
    <3> QED BY ONLY <3>3, StateIsTracker DEF ReserveEffect
  <2> HIDE DEF n
  <2> QED BY <1>1, <2>1, <2>2, <2>3, Zenon
<1>3. /\ grants' \in Seq(Grant)
      /\ Len(grants') = n + 1
      /\ \A i \in 1 .. n : grants'[i] = grants[i]
      /\ grants'[n + 1].at = now
      /\ grants'[n + 1].day = today
  <2>1. new \in Grant /\ new.at = now /\ new.day = today
    BY <1>0, <1>1 DEF Grant
  <2> HIDE DEF new
  <2>2. grants' = Append(grants, new)
    BY DEF new, GrantStep
  <2> QED BY <1>0, <1>1, <2>1, <2>2, AppendProperties
<1>4. /\ Len(state'.requestTimes) = log + 1
      /\ \A i \in 1 .. log : state'.requestTimes[i] = r.requestTimes[i]
      /\ state'.requestTimes[log + 1] = now
  BY <1>0, <1>1, <1>2, AppendProperties
<1>5. /\ n - log >= 0
      /\ \A i \in 1 .. n - log : grants[i].at <= now - Window
      /\ \A i \in 1 .. log : r.requestTimes[i] = grants[n - log + i].at
  BY DEF RequestLog
<1>6. /\ n - cnt >= 0
      /\ \A i \in 1 .. n - cnt : grants[i].day < today
      /\ \A i \in n - cnt + 1 .. n : grants[i].day = today
  BY <1>1 DEF DayLog
<1>7. ASSUME NEW i \in 1 .. n
      PROVE  /\ grants'[i].at = grants[i].at /\ grants[i].at \in Nat
             /\ grants'[i].day = grants[i].day /\ grants[i].day \in Nat
  <2>1. grants[i] \in Grant
    BY <1>0, <1>1, ElementOfSeq
  <2> QED BY <1>3, <2>1 DEF Grant
<1> HIDE DEF n, log, cnt, new
<1>8. TypeOK'
  BY <1>1, <1>2, <1>3 DEF TypeOK
<1>9. RequestLog(state)'
  <2>1. Len(grants') - Len(state'.requestTimes) = n - log
    BY <1>0, <1>3, <1>4
  <2>2. ASSUME NEW i \in 1 .. n - log PROVE grants'[i].at <= now' - Window
    BY <1>0, <1>1, <1>5, <1>7
  <2>3. ASSUME NEW i \in 1 .. log + 1
        PROVE  state'.requestTimes[i] = grants'[n - log + i].at
    <3>1. CASE i = log + 1
      BY <1>0, <1>3, <1>4, <3>1
    <3>2. CASE i \in 1 .. log
      BY <1>0, <1>4, <1>5, <1>7, <3>2
    <3> QED BY <1>0, <3>1, <3>2
  <2> QED BY <1>4, <1>5, <2>1, <2>2, <2>3 DEF RequestLog
<1>10. DayLog(state)'
  <2>1. Len(grants') - state'.dailyRequests = n - cnt
    BY <1>0, <1>2, <1>3
  <2>2. ASSUME NEW i \in 1 .. n - cnt PROVE grants'[i].day < today
    BY <1>0, <1>6, <1>7
  <2>3. ASSUME NEW i \in n - cnt + 1 .. n + 1 PROVE grants'[i].day = today
    <3>1. CASE i = n + 1
      BY <1>3, <3>1
    <3>2. CASE i # n + 1
      <4>1. i \in 1 .. n /\ i \in n - cnt + 1 .. n
        BY <1>0, <1>6, <3>2
      <4> QED BY <1>6, <1>7, <4>1
    <3> QED BY <3>1, <3>2
  <2> QED BY <1>0, <1>1, <1>2, <1>3, <1>6, <2>1, <2>2, <2>3 DEF DayLog
<1>11. RequestsPerMinute'
  <2> DEFINE rpm == ModelLimits.requestsPerMinute
  <2> SUFFICES ASSUME rpm # NoLimit, NEW i \in 1 .. n + 1, NEW j \in 1 .. n + 1, j = i + rpm
               PROVE  grants'[j].at - grants'[i].at >= Window
    BY <1>3 DEF RequestsPerMinute
  <2>1. rpm \in Nat /\ log < rpm
    BY QuotaAssumption DEF Limits, Limit, Admits, GrantStep, log
  <2> HIDE DEF rpm
  <2>2. CASE j = n + 1
    <3>1. i \in 1 .. n /\ i \in 1 .. n - log
      BY <1>0, <1>5, <2>1, <2>2
    <3>2. grants'[i].at <= now - Window /\ grants'[i].at \in Nat
      BY <1>5, <1>7, <3>1
    <3> QED BY <1>0, <1>3, <2>2, <3>2, WindowAssumption
  <2>3. CASE j # n + 1
    <3>1. i \in 1 .. n /\ j \in 1 .. n
      BY <1>0, <2>1, <2>3
    <3>2. grants[j].at - grants[i].at >= Window
      BY <3>1 DEF IInv, RequestsPerMinute, n, rpm
    <3> QED BY <1>7, <3>1, <3>2
  <2> QED BY <2>2, <2>3
<1>12. RequestsPerDay'
  <2> DEFINE rpd == ModelLimits.requestsPerDay
  <2> SUFFICES ASSUME rpd # NoLimit, NEW i \in 1 .. n + 1, NEW j \in 1 .. n + 1, j = i + rpd
               PROVE  grants'[j].day > grants'[i].day
    BY <1>3 DEF RequestsPerDay
  <2>1. rpd \in Nat /\ cnt < rpd
    BY QuotaAssumption DEF Limits, Limit, Admits, GrantStep, cnt
  <2> HIDE DEF rpd
  <2>2. CASE j = n + 1
    <3>1. i \in 1 .. n /\ i \in 1 .. n - cnt
      BY <1>0, <1>6, <2>1, <2>2
    <3> QED BY <1>0, <1>3, <1>6, <1>7, <2>2, <3>1
  <2>3. CASE j # n + 1
    <3>1. i \in 1 .. n /\ j \in 1 .. n
      BY <1>0, <2>1, <2>3
    <3>2. grants[j].day > grants[i].day
      BY <3>1 DEF IInv, RequestsPerDay, n, rpd
    <3> QED BY <1>7, <3>1, <3>2
  <2> QED BY <2>2, <2>3
<1> QED BY <1>8, <1>9, <1>10, <1>11, <1>12 DEF IInv

\* Steps that leave the grants' stamps and days and the request counters alone,
\* while time may pass: settlements, ticks and midnights.
LEMMA QuietIInv ==
    ASSUME IInv,
           TypeOK',
           state'.requestTimes = state.requestTimes,
           state'.day = state.day,
           state'.dailyRequests = state.dailyRequests,
           Len(grants') = Len(grants),
           \A i \in 1 .. Len(grants) : grants'[i].at = grants[i].at,
           \A i \in 1 .. Len(grants) : grants'[i].day = grants[i].day,
           now' >= now, today' >= today
    PROVE  IInv'
<1> DEFINE n   == Len(grants)
           log == Len(state.requestTimes)
<1>1. /\ now \in Nat /\ today \in Nat /\ now' \in Nat /\ today' \in Nat
      /\ n \in Nat /\ log \in Nat /\ state.day \in Nat /\ state.dailyRequests \in Nat
  BY QuotaAssumption, SMTT(30) DEF IInv, TypeOK, State
<1>2. ASSUME NEW i \in 1 .. n PROVE grants[i].at \in Nat /\ grants[i].day \in Nat
  <2>1. grants[i] \in Grant
    BY ElementOfSeq DEF IInv, TypeOK
  <2> QED BY <2>1 DEF Grant
<1>3. RequestLog(state)'
  <2>1. /\ n - log >= 0
        /\ \A i \in 1 .. n - log : grants[i].at <= now - Window
        /\ \A i \in 1 .. log : state.requestTimes[i] = grants[n - log + i].at
    BY DEF IInv, RequestLog
  <2> HIDE DEF n, log
  <2>2. ASSUME NEW i \in 1 .. n - log PROVE grants'[i].at <= now' - Window
    <3>1. i \in 1 .. n
      BY <1>1
    <3>2. grants'[i].at = grants[i].at /\ grants[i].at \in Nat
      BY <1>2, <3>1 DEF n
    <3>3. grants[i].at <= now - Window
      BY <2>1
    <3> QED BY <1>1, <3>2, <3>3, WindowAssumption
  <2>3. ASSUME NEW i \in 1 .. log PROVE state'.requestTimes[i] = grants'[n - log + i].at
    <3>1. n - log + i \in 1 .. n
      BY <1>1, <2>1
    <3> QED BY <2>1, <3>1 DEF n
  <2> QED BY <2>1, <2>2, <2>3 DEF RequestLog, n, log
<1>4. DayLog(state)'
  <2>1. /\ state.day <= today
        /\ n - state.dailyRequests >= 0
        /\ \A i \in 1 .. n - state.dailyRequests : grants[i].day < state.day
        /\ \A i \in n - state.dailyRequests + 1 .. n : grants[i].day = state.day
    BY DEF IInv, DayLog
  <2> HIDE DEF n
  <2>2. ASSUME NEW i \in 1 .. n - state.dailyRequests PROVE grants'[i].day < state.day
    <3>1. i \in 1 .. n
      BY <1>1
    <3> QED BY <2>1, <3>1 DEF n
  <2>3. ASSUME NEW i \in n - state.dailyRequests + 1 .. n PROVE grants'[i].day = state.day
    <3>1. i \in 1 .. n
      BY <1>1, <2>1
    <3> QED BY <2>1, <3>1 DEF n
  <2> QED BY <1>1, <2>1, <2>2, <2>3 DEF DayLog, n
<1>5. RequestsPerMinute'
  <2> DEFINE rpm == ModelLimits.requestsPerMinute
  <2> SUFFICES ASSUME rpm # NoLimit, NEW i \in 1 .. n, NEW j \in 1 .. n, j = i + rpm
               PROVE  grants'[j].at - grants'[i].at >= Window
    BY DEF RequestsPerMinute
  <2>1. grants[j].at - grants[i].at >= Window
    BY DEF IInv, RequestsPerMinute
  <2> QED BY <2>1
<1>6. RequestsPerDay'
  <2> DEFINE rpd == ModelLimits.requestsPerDay
  <2> SUFFICES ASSUME rpd # NoLimit, NEW i \in 1 .. n, NEW j \in 1 .. n, j = i + rpd
               PROVE  grants'[j].day > grants'[i].day
    BY DEF RequestsPerDay
  <2>1. grants[j].day > grants[i].day
    BY DEF IInv, RequestsPerDay
  <2> QED BY <2>1
<1> QED BY <1>3, <1>4, <1>5, <1>6 DEF IInv

\* A step that only replaces the state by its rolled form: a refused request,
\* a snapshot.
LEMMA RolledIInv ==
    ASSUME IInv, state' \in State, RequestLog(state'), DayLog(state'),
           UNCHANGED << now, today, grants >>
    PROVE  IInv'
<1>1. TypeOK'
  BY DEF IInv, TypeOK
<1>2. RequestLog(state)' /\ DayLog(state)'
  BY DEF RequestLog, DayLog
<1>3. RequestsPerMinute' /\ RequestsPerDay'
  BY DEF IInv, RequestsPerMinute, RequestsPerDay
<1> QED BY <1>1, <1>2, <1>3 DEF IInv

\* The reservation of a grant is a well-typed one.
LEMMA HandleType ==
    ASSUME TypeOK, NEW i \in 1 .. Len(grants)
    PROVE  Handle(i) \in [id : Nat, tokens : Int, cost : Int]
<1>1. grants[i] \in Grant
  BY ElementOfSeq DEF TypeOK
<1>2. grants[i].estimate \in Amount /\ i \in Nat
  BY <1>1 DEF Grant
<1> QED BY <1>2 DEF Handle, Reservation, Amount

\* Settling grant i rewrites its charge and its flags only.
LEMMA SettleHistory ==
    ASSUME TypeOK, NEW i \in 1 .. Len(grants), NEW c \in Amount, Settle(i, c)
    PROVE  /\ grants' \in Seq(Grant)
           /\ Len(grants') = Len(grants)
           /\ \A k \in 1 .. Len(grants) :
                  /\ grants'[k].at = grants[k].at
                  /\ grants'[k].day = grants[k].day
                  /\ grants'[k].estimate = grants[k].estimate
                  /\ grants'[k].open = (grants[k].open /\ k # i)
<1> DEFINE new == SettledGrant(grants[i], c)
<1>1. grants \in Seq(Grant) /\ state.day \in Nat
  BY DEF TypeOK, State
<1>2. \A k \in 1 .. Len(grants) : grants[k] \in Grant
  BY <1>1, ElementOfSeq
<1>3. /\ new \in Grant
      /\ new.at = grants[i].at
      /\ new.day = grants[i].day
      /\ new.estimate = grants[i].estimate
      /\ new.open = FALSE
  BY <1>1, <1>2 DEF SettledGrant, Grant
<1> HIDE DEF new
<1>4. CASE grants[i].open
  <2>1. grants' = [grants EXCEPT ![i] = new]
    BY <1>4 DEF Settle, new
  <2>2. /\ grants' \in Seq(Grant)
        /\ Len(grants') = Len(grants)
        /\ \A k \in 1 .. Len(grants) : grants'[k] = IF k = i THEN new ELSE grants[k]
    BY <1>1, <1>3, <2>1, ExceptSeq
  <2>3. ASSUME NEW k \in 1 .. Len(grants)
        PROVE  /\ grants'[k].at = grants[k].at
               /\ grants'[k].day = grants[k].day
               /\ grants'[k].estimate = grants[k].estimate
               /\ grants'[k].open = (grants[k].open /\ k # i)
    <3>1. CASE k = i
      BY <1>3, <1>4, <2>2, <3>1
    <3>2. CASE k # i
      <4>1. grants'[k] = grants[k] /\ grants[k].open \in BOOLEAN
        BY <1>2, <2>2, <3>2 DEF Grant
      <4> QED BY <3>2, <4>1
    <3> QED BY <3>1, <3>2
  <2> QED BY <2>2, <2>3
<1>5. CASE ~ grants[i].open
  <2>1. grants' = grants
    BY <1>5 DEF Settle
  <2>2. \A k \in 1 .. Len(grants) : grants[k].open \in BOOLEAN
    BY <1>2 DEF Grant
  <2>3. \A k \in 1 .. Len(grants) : grants[k].open = (grants[k].open /\ k # i)
    BY <1>5, <2>2
  <2> QED BY <1>1, <2>1, <2>3
<1> QED BY <1>4, <1>5

\* Committing or releasing any grant, again or late, preserves the invariant.
LEMMA SettledIInv ==
    ASSUME IInv, NEW i \in 1 .. Len(grants), NEW c \in Amount, Settle(i, c),
           state' \in State,
           state'.requestTimes = state.requestTimes,
           state'.day = state.day,
           state'.dailyRequests = state.dailyRequests,
           now' = now, today' = today
    PROVE  IInv'
<1>1. TypeOK /\ now \in Nat /\ today \in Nat
  BY QuotaAssumption DEF IInv, TypeOK
<1>2. /\ grants' \in Seq(Grant)
      /\ Len(grants') = Len(grants)
      /\ \A k \in 1 .. Len(grants) : grants'[k].at = grants[k].at
      /\ \A k \in 1 .. Len(grants) : grants'[k].day = grants[k].day
  BY <1>1, SettleHistory
<1>3. TypeOK'
  BY <1>1, <1>2 DEF TypeOK
<1>4. now' >= now /\ today' >= today
  BY <1>1
<1> QED BY <1>2, <1>3, <1>4, QuietIInv

\* Every step preserves the inductive invariant.
LEMMA NextIInv == IInv /\ [Next]_vars => IInv'
<1> SUFFICES ASSUME IInv, [Next]_vars PROVE IInv'
  OBVIOUS
<1>1. /\ TypeOK
      /\ now \in Nat /\ today \in Nat /\ state \in State
      /\ state.requestTimes = state.requestTimes
  BY QuotaAssumption DEF IInv, TypeOK
<1>2. ASSUME NEW request \in Requests, TryReserve(request) PROVE IInv'
  <2> DEFINE r == Roll(state, now, today)
             e == Estimate(Price, request)
  <2>1. r \in State /\ r.day = today /\ RequestLog(r) /\ DayLog(r)
    BY RollIInv
  <2>2. e \in Amount
    BY EstimateType
  <2>3. \/ GrantStep(r, e)
        \/ state' = r /\ UNCHANGED << now, today, grants >>
    BY <1>2, <2>1 DEF TryReserve, GrantStep
  <2> HIDE DEF r, e
  <2>4. CASE GrantStep(r, e)
    BY <2>1, <2>2, <2>4, GrantIInv
  <2>5. CASE state' = r /\ UNCHANGED << now, today, grants >>
    BY <2>1, <2>5, RolledIInv
  <2> QED BY <2>3, <2>4, <2>5
<1>3. ASSUME NEW i \in 1 .. Len(grants), NEW usage \in Usages, Commit(i, usage) PROVE IInv'
  <2> DEFINE c == [tokens |-> NonNegative(usage.tokens), cost |-> NonNegative(usage.cost)]
  <2>1. usage \in Amount /\ c \in Amount
    BY QuotaAssumption DEF Amount, NonNegative
  <2>2. Settle(i, c) /\ state' = CommitUsage(state, Handle(i), usage) /\ now' = now /\ today' = today
    BY <1>3 DEF Commit
  <2> HIDE DEF c
  <2>3. /\ state' \in State
        /\ state'.requestTimes = state.requestTimes
        /\ state'.day = state.day
        /\ state'.dailyRequests = state.dailyRequests
    BY <1>1, <2>1, <2>2, HandleType, CommitType, StateIsTracker DEF SettleEffect
  <2> QED BY <1>1, <2>1, <2>2, <2>3, SettledIInv
<1>4. ASSUME NEW i \in 1 .. Len(grants), Release(i) PROVE IInv'
  <2> DEFINE c == [tokens |-> 0, cost |-> 0]
  <2>1. c \in Amount
    BY DEF Amount
  <2>2. Settle(i, c) /\ state' = ReleaseEstimate(state, Handle(i)) /\ now' = now /\ today' = today
    BY <1>4 DEF Release
  <2> HIDE DEF c
  <2>3. /\ state' \in State
        /\ state'.requestTimes = state.requestTimes
        /\ state'.day = state.day
        /\ state'.dailyRequests = state.dailyRequests
    BY <1>1, <2>2, HandleType, ReleaseType, StateIsTracker DEF SettleEffect
  <2> QED BY <1>1, <2>1, <2>2, <2>3, SettledIInv
<1>5. CASE Snapshot
  <2> DEFINE r == Roll(state, now, today)
  <2>1. r \in State /\ r.day = today /\ RequestLog(r) /\ DayLog(r)
    BY RollIInv
  <2>2. state' = r /\ UNCHANGED << now, today, grants >>
    BY <1>5 DEF Snapshot
  <2> HIDE DEF r
  <2> QED BY <2>1, <2>2, RolledIInv
<1>6. CASE Tick
  <2>1. TypeOK' /\ now' >= now /\ today' = today /\ UNCHANGED << state, grants >>
    BY <1>1, <1>6, QuotaAssumption DEF Tick, TypeOK
  <2> QED BY <1>1, <2>1, QuietIInv
<1>7. CASE Midnight
  <2>1. TypeOK' /\ today' >= today /\ now' = now /\ UNCHANGED << state, grants >>
    BY <1>1, <1>7, QuotaAssumption DEF Midnight, TypeOK
  <2> QED BY <1>1, <2>1, QuietIInv
<1>8. CASE UNCHANGED vars
  <2>1. TypeOK' /\ today' = today /\ now' = now /\ UNCHANGED << state, grants >>
    BY <1>1, <1>8 DEF vars, TypeOK
  <2> QED BY <1>1, <2>1, QuietIInv
<1> QED BY <1>2, <1>3, <1>4, <1>5, <1>6, <1>7, <1>8 DEF Next

-----------------------------------------------------------------------------
(* The theorems.                                                            *)

\* The inductive invariant holds in every reachable state.
LEMMA SpecIInv == Spec => []IInv
<1>1. Init => IInv
  BY InitIInv
<1>2. IInv /\ [Next]_vars => IInv'
  BY NextIInv
<1> QED BY <1>1, <1>2, PTL DEF Spec

\* Every variable of the tracker keeps its type.
THEOREM TypeCorrect == Spec => []TypeOK
<1>1. IInv => TypeOK
  BY DEF IInv
<1> QED BY <1>1, SpecIInv, PTL

\* No window of the last minute's length ever sees more than
\* requests_per_minute grants, for every limit and every window.
THEOREM MinuteLimitHolds == Spec => []RequestsPerMinute
<1>1. IInv => RequestsPerMinute
  BY DEF IInv
<1> QED BY <1>1, SpecIInv, PTL

\* No UTC day ever sees more than requests_per_day grants.
THEOREM DayLimitHolds == Spec => []RequestsPerDay
<1>1. IInv => RequestsPerDay
  BY DEF IInv
<1> QED BY <1>1, SpecIInv, PTL

-----------------------------------------------------------------------------
(* No reservation is lost or leaked.                                        *)

\* Different grants have different reservations.
LEMMA HandleInjective ==
    ASSUME NEW i, NEW k, Handle(i) = Handle(k)
    PROVE  i = k
<1>1. Handle(i).id = i /\ Handle(k).id = k
  BY DEF Handle, Reservation
<1> QED BY <1>1

\* A settlement closes its grant and removes its reservation, or does neither.
LEMMA SettledReservations ==
    ASSUME TypeOK, ReservationsMatch,
           NEW i \in 1 .. Len(grants), NEW c \in Amount, Settle(i, c),
           state'.reservations = state.reservations \ {Handle(i)}
    PROVE  ReservationsMatch'
<1>1. /\ Len(grants') = Len(grants)
      /\ \A k \in 1 .. Len(grants) :
             /\ grants'[k].estimate = grants[k].estimate
             /\ grants'[k].open = (grants[k].open /\ k # i)
  BY SettleHistory
<1>2. \A k \in 1 .. Len(grants) : Handle(k)' = Handle(k)
  BY <1>1 DEF Handle
<1> DEFINE Open == { k \in 1 .. Len(grants) : grants[k].open }
           Left == { k \in 1 .. Len(grants') : grants'[k].open }
<1>3. Left = Open \ {i}
  BY <1>1
<1>4. state.reservations = { Handle(k) : k \in Open }
  BY DEF ReservationsMatch
<1>5. state'.reservations = { Handle(k) : k \in Open \ {i} }
  <2>1. \A k \in Open : Handle(k) = Handle(i) <=> k = i
    BY HandleInjective
  <2> HIDE DEF Open
  <2> QED BY <1>4, <2>1
<1>6. state'.reservations = { Handle(k)' : k \in Left }
  <2>1. \A k \in Left : Handle(k)' = Handle(k)
    BY <1>1, <1>2
  <2> HIDE DEF Left, Open
  <2> QED BY <1>3, <1>5, <2>1
<1> QED BY <1>6 DEF ReservationsMatch

\* A grant adds its own reservation, and no other grant had that one.
LEMMA GrantedReservations ==
    ASSUME TypeOK, ReservationsMatch, NEW r \in State, NEW e \in Amount,
           r.reservations = state.reservations, GrantStep(r, e)
    PROVE  ReservationsMatch'
<1>0. PICK n \in Nat : n = Len(grants)
  BY DEF TypeOK
<1> DEFINE new == [at |-> now, day |-> today, estimate |-> e,
                   charge |-> e, open |-> TRUE, late |-> FALSE]
           Open == { k \in 1 .. n : grants[k].open }
           Left == { k \in 1 .. Len(grants') : grants'[k].open }
<1>1. n \in Nat /\ n = Len(grants) /\ grants \in Seq(Grant)
  BY <1>0 DEF TypeOK
<1>2. /\ Len(grants') = n + 1
      /\ \A k \in 1 .. n : grants'[k] = grants[k]
      /\ grants'[n + 1] = new
  <2>1. grants' = Append(grants, new)
    BY DEF GrantStep
  <2> HIDE DEF new
  <2> QED BY <1>1, <2>1, AppendProperties
<1>3. state'.reservations = state.reservations \cup {Reservation(n + 1, e)}
  BY <1>1 DEF GrantStep, Reserve
<1>4. Handle(n + 1)' = Reservation(n + 1, e) /\ grants'[n + 1].open
  <2>1. grants'[n + 1].estimate = e /\ grants'[n + 1].open
    BY <1>2
  <2> QED BY <2>1 DEF Handle
<1>5. \A k \in 1 .. n : Handle(k)' = Handle(k)
  BY <1>2 DEF Handle
<1>6. Left = Open \cup {n + 1}
  <2> HIDE DEF new
  <2> QED BY <1>1, <1>2, <1>4
<1>7. state.reservations = { Handle(k) : k \in Open }
  BY <1>1 DEF ReservationsMatch
<1>8. state'.reservations = { Handle(k)' : k \in Left }
  <2>1. \A k \in Open : Handle(k)' = Handle(k)
    BY <1>5
  <2> HIDE DEF Left, Open, new
  <2> QED BY <1>3, <1>4, <1>6, <1>7, <2>1
<1> QED BY <1>8 DEF ReservationsMatch

\* Every step keeps the open reservations equal to the unsettled grants.
LEMMA NextReservations ==
    ASSUME IInv, ReservationsMatch, [Next]_vars
    PROVE  ReservationsMatch'
<1> DEFINE r == Roll(state, now, today)
<1>1. TypeOK /\ r \in State /\ r.day = today /\ r.reservations = state.reservations
      /\ state \in State
  BY RollIInv DEF IInv, TypeOK
<1> HIDE DEF r
<1>2. ASSUME state'.reservations = state.reservations, grants' = grants
      PROVE  ReservationsMatch'
  BY <1>2 DEF ReservationsMatch, Handle
<1>3. ASSUME NEW request \in Requests, TryReserve(request) PROVE ReservationsMatch'
  <2> DEFINE e == Estimate(Price, request)
  <2>1. e \in Amount
    BY EstimateType
  <2>2. \/ GrantStep(r, e)
        \/ state' = r /\ grants' = grants
    BY <1>1, <1>3 DEF TryReserve, GrantStep, r
  <2> HIDE DEF e
  <2> QED BY <1>1, <1>2, <2>1, <2>2, GrantedReservations
<1>4. ASSUME NEW i \in 1 .. Len(grants), NEW usage \in Usages, Commit(i, usage)
      PROVE  ReservationsMatch'
  <2> DEFINE c == [tokens |-> NonNegative(usage.tokens), cost |-> NonNegative(usage.cost)]
  <2>1. usage \in Amount /\ c \in Amount
    BY QuotaAssumption DEF Amount, NonNegative
  <2>2. Settle(i, c) /\ state' = CommitUsage(state, Handle(i), usage)
    BY <1>4 DEF Commit
  <2> HIDE DEF c
  <2>3. state'.reservations = state.reservations \ {Handle(i)}
    BY <1>1, <2>1, <2>2, HandleType, CommitType, StateIsTracker DEF SettleEffect
  <2> QED BY <1>1, <2>1, <2>2, <2>3, SettledReservations
<1>5. ASSUME NEW i \in 1 .. Len(grants), Release(i) PROVE ReservationsMatch'
  <2> DEFINE c == [tokens |-> 0, cost |-> 0]
  <2>1. c \in Amount
    BY DEF Amount
  <2>2. Settle(i, c) /\ state' = ReleaseEstimate(state, Handle(i))
    BY <1>5 DEF Release
  <2> HIDE DEF c
  <2>3. state'.reservations = state.reservations \ {Handle(i)}
    BY <1>1, <2>2, HandleType, ReleaseType, StateIsTracker DEF SettleEffect
  <2> QED BY <1>1, <2>1, <2>2, <2>3, SettledReservations
<1>6. CASE Snapshot
  BY <1>1, <1>2, <1>6 DEF Snapshot, r
<1>7. CASE Tick \/ Midnight \/ UNCHANGED vars
  BY <1>2, <1>7 DEF Tick, Midnight, vars
<1> QED BY <1>3, <1>4, <1>5, <1>6, <1>7 DEF Next

\* The tracker holds exactly the reservations that were given out and not yet
\* settled: duplicated and late settlements and rolls never lose or leak one.
THEOREM NoReservationLeaks == Spec => []ReservationsMatch
<1>1. Init => ReservationsMatch
  BY DEF Init, ReservationsMatch, FreshState
<1>2. IInv /\ ReservationsMatch /\ [Next]_vars => ReservationsMatch'
  BY NextReservations
<1> QED BY <1>1, <1>2, SpecIInv, PTL DEF Spec

-----------------------------------------------------------------------------
(* Tokens and money: the sums over the grants.                              *)

\* The charges of one kind that a history q has for the grants in S.
ChargedIn(q, S, field) == SumFunction([i \in S |-> q[i].charge[field]])

Fields == {"tokens", "cost"}

\* Charges are integers, and any set of grants is finite.
LEMMA ChargeType ==
    ASSUME NEW q \in Seq(Grant), NEW S \in SUBSET (1 .. Len(q)), NEW field \in Fields
    PROVE  /\ IsFiniteSet(S)
           /\ \A i \in S : q[i].charge[field] \in Int
           /\ ChargedIn(q, S, field) = Total([i \in 1 .. Len(q) |-> q[i].charge[field]], S)
<1> DEFINE f == [i \in S |-> q[i].charge[field]]
           g == [i \in 1 .. Len(q) |-> q[i].charge[field]]
<1>1. Len(q) \in Nat
  OBVIOUS
<1>2. IsFiniteSet(1 .. Len(q))
  BY <1>1, FS_Interval
<1>3. IsFiniteSet(S)
  BY <1>2, FS_Subset
<1>4. ASSUME NEW i \in S PROVE q[i].charge[field] \in Int
  <2>1. q[i] \in Grant
    BY ElementOfSeq
  <2>2. q[i].charge \in Amount
    BY <2>1 DEF Grant
  <2> QED BY <2>2 DEF Amount, Fields
<1>5. \A i \in S : f[i] \in Int /\ f[i] = g[i]
  BY <1>4
<1>6. ChargedIn(q, S, field) = Total(f, S)
  BY Zenon DEF ChargedIn, SumFunction, Total
<1> HIDE DEF f, g
<1>7. Total(f, S) = Total(g, S)
  BY <1>3, <1>5, TotalEqual
<1> QED BY <1>3, <1>4, <1>6, <1>7 DEF g

\* What a set of grants is charged is an integer.
LEMMA ChargedInInt ==
    ASSUME NEW q \in Seq(Grant), NEW S \in SUBSET (1 .. Len(q)), NEW field \in Fields
    PROVE  ChargedIn(q, S, field) \in Int
<1> DEFINE g == [i \in 1 .. Len(q) |-> q[i].charge[field]]
<1>1. /\ IsFiniteSet(S) /\ ChargedIn(q, S, field) = Total(g, S)
      /\ \A i \in S : g[i] \in Int
  BY ChargeType
<1> HIDE DEF g
<1> QED BY <1>1, TotalType

\* A history that charges no grant of S more than another one does.
LEMMA ChargedInMonotone ==
    ASSUME NEW p \in Seq(Grant), NEW q \in Seq(Grant), NEW field \in Fields,
           NEW S \in SUBSET (1 .. Len(p)), S \in SUBSET (1 .. Len(q)),
           \A i \in S : p[i].charge[field] <= q[i].charge[field]
    PROVE  ChargedIn(p, S, field) <= ChargedIn(q, S, field)
<1> DEFINE f == [i \in 1 .. Len(p) |-> p[i].charge[field]]
           g == [i \in 1 .. Len(q) |-> q[i].charge[field]]
<1>1. /\ IsFiniteSet(S) /\ ChargedIn(p, S, field) = Total(f, S)
      /\ \A i \in S : f[i] \in Int
  BY ChargeType
<1>2. /\ ChargedIn(q, S, field) = Total(g, S)
      /\ \A i \in S : g[i] \in Int
  BY ChargeType
<1>3. \A i \in S : f[i] \in Int /\ g[i] \in Int /\ f[i] <= g[i]
  BY <1>1, <1>2
<1> HIDE DEF f, g
<1> QED BY <1>1, <1>2, <1>3, TotalMonotone

\* Two histories that charge the grants of S the same.
LEMMA ChargedInEqual ==
    ASSUME NEW p \in Seq(Grant), NEW q \in Seq(Grant), NEW field \in Fields,
           NEW S \in SUBSET (1 .. Len(p)), S \in SUBSET (1 .. Len(q)),
           \A i \in S : p[i].charge[field] = q[i].charge[field]
    PROVE  ChargedIn(p, S, field) = ChargedIn(q, S, field)
<1>1. \A i \in S : p[i].charge[field] \in Int /\ q[i].charge[field] \in Int
  BY ChargeType
<1>2. \A i \in S : /\ p[i].charge[field] <= q[i].charge[field]
                   /\ q[i].charge[field] <= p[i].charge[field]
  BY <1>1
<1>3. /\ ChargedIn(p, S, field) <= ChargedIn(q, S, field)
      /\ ChargedIn(q, S, field) <= ChargedIn(p, S, field)
  BY <1>2, ChargedInMonotone
<1>4. ChargedIn(p, S, field) \in Int /\ ChargedIn(q, S, field) \in Int
  BY ChargedInInt
<1> QED BY <1>3, <1>4

\* The charge of one grant and that of the others.
LEMMA ChargedInElement ==
    ASSUME NEW q \in Seq(Grant), NEW S \in SUBSET (1 .. Len(q)), NEW field \in Fields,
           NEW a \in S
    PROVE  ChargedIn(q, S, field) = q[a].charge[field] + ChargedIn(q, S \ {a}, field)
<1> DEFINE g == [i \in 1 .. Len(q) |-> q[i].charge[field]]
           R == S \ {a}
<1>1. /\ IsFiniteSet(S) /\ ChargedIn(q, S, field) = Total(g, S)
      /\ \A i \in S : g[i] \in Int
      /\ g[a] = q[a].charge[field]
  BY ChargeType
<1>2. ChargedIn(q, R, field) = Total(g, R)
  <2>1. R \in SUBSET (1 .. Len(q))
    OBVIOUS
  <2> HIDE DEF R
  <2> QED BY <2>1, ChargeType
<1> HIDE DEF g
<1>3. Total(g, S) = g[a] + Total(g, S \ {a})
  BY <1>1, TotalElement
<1> QED BY <1>1, <1>2, <1>3

\* No grants, no charge.
LEMMA ChargedInNone ==
    ASSUME NEW q, NEW field
    PROVE  ChargedIn(q, {}, field) = 0
<1> DEFINE f == [i \in {} |-> q[i].charge[field]]
<1>1. ChargedIn(q, {}, field) = Total(f, {})
  BY Zenon DEF ChargedIn, SumFunction, Total
<1> QED BY <1>1, TotalEmpty

\* Charges that are not negative do not add up to less than nothing.
LEMMA ChargedInNonNegative ==
    ASSUME NEW q \in Seq(Grant), NEW S \in SUBSET (1 .. Len(q)), NEW field \in Fields,
           \A i \in S : q[i].charge[field] >= 0
    PROVE  ChargedIn(q, S, field) >= 0
<1> DEFINE g == [i \in 1 .. Len(q) |-> q[i].charge[field]]
<1>1. /\ IsFiniteSet(S) /\ ChargedIn(q, S, field) = Total(g, S)
      /\ \A i \in S : g[i] \in Int /\ g[i] >= 0
  BY ChargeType
<1> HIDE DEF g
<1> QED BY <1>1, TotalNonNegative

\* One grant's charge changes.
LEMMA ChargedInChange ==
    ASSUME NEW p \in Seq(Grant), NEW q \in Seq(Grant), NEW field \in Fields,
           NEW S \in SUBSET (1 .. Len(p)), S \in SUBSET (1 .. Len(q)), NEW a \in S,
           \A i \in S \ {a} : p[i].charge[field] = q[i].charge[field]
    PROVE  ChargedIn(p, S, field)
               = ChargedIn(q, S, field) - q[a].charge[field] + p[a].charge[field]
<1> DEFINE R == S \ {a}
<1>1. R \in SUBSET (1 .. Len(p)) /\ R \in SUBSET (1 .. Len(q))
  OBVIOUS
<1>2. ChargedIn(p, S, field) = p[a].charge[field] + ChargedIn(p, R, field)
  BY ChargedInElement
<1>3. ChargedIn(q, S, field) = q[a].charge[field] + ChargedIn(q, R, field)
  BY ChargedInElement
<1>4. ChargedIn(p, R, field) = ChargedIn(q, R, field)
  <2>1. \A i \in R : p[i].charge[field] = q[i].charge[field]
    OBVIOUS
  <2> HIDE DEF R
  <2> QED BY <1>1, <2>1, ChargedInEqual
<1>5. ChargedIn(q, R, field) \in Int
  <2> HIDE DEF R
  <2> QED BY <1>1, ChargedInInt
<1>6. p[a].charge[field] \in Int /\ q[a].charge[field] \in Int
  BY ChargeType
<1> HIDE DEF R
<1> QED BY <1>2, <1>3, <1>4, <1>5, <1>6

\* One more grant.
LEMMA ChargedInAdd ==
    ASSUME NEW p \in Seq(Grant), NEW q \in Seq(Grant), NEW field \in Fields,
           NEW S \in SUBSET (1 .. Len(q)), Len(p) = Len(q) + 1,
           \A i \in 1 .. Len(q) : p[i] = q[i]
    PROVE  ChargedIn(p, S \cup {Len(p)}, field)
               = ChargedIn(q, S, field) + p[Len(p)].charge[field]
<1> DEFINE T == S \cup {Len(p)}
<1>0. Len(q) \in Nat
  OBVIOUS
<1>1. /\ T \in SUBSET (1 .. Len(p)) /\ S \in SUBSET (1 .. Len(p))
      /\ Len(p) \in T /\ T \ {Len(p)} = S
  <2>1. Len(p) \in 1 .. Len(p) /\ Len(p) \notin S
    BY <1>0
  <2>2. \A i \in S : i \in 1 .. Len(p)
    BY <1>0
  <2> QED BY <2>1, <2>2
<1>2. \A i \in S : p[i].charge[field] = q[i].charge[field]
  OBVIOUS
<1> HIDE DEF T
<1>3. ChargedIn(p, T, field) = p[Len(p)].charge[field] + ChargedIn(p, T \ {Len(p)}, field)
  BY <1>1, ChargedInElement
<1>4. ChargedIn(p, S, field) = ChargedIn(q, S, field)
  BY <1>1, <1>2, ChargedInEqual
<1>5. ChargedIn(q, S, field) \in Int
  BY ChargedInInt
<1>6. p[Len(p)].charge[field] \in Int
  BY <1>1, ChargeType
<1>7. ChargedIn(p, T, field) = p[Len(p)].charge[field] + ChargedIn(q, S, field)
  BY <1>1, <1>3, <1>4, Zenon
<1>8. ChargedIn(p, T, field) = ChargedIn(q, S, field) + p[Len(p)].charge[field]
  BY <1>5, <1>6, <1>7
<1> QED BY <1>8 DEF T

-----------------------------------------------------------------------------
(* The inductive invariant of the sums: the token events and the daily       *)
(* counters, each tied to the grants.                                       *)

\* A charge is the estimate until the grant is settled, never negative, and is
\* late only once settled; grants are in the order of time.
History ==
    /\ \A i \in 1 .. Len(grants) :
           /\ grants[i].at <= now
           /\ grants[i].charge.tokens >= 0
           /\ grants[i].charge.cost >= 0
           /\ grants[i].open => grants[i].charge = grants[i].estimate /\ ~ grants[i].late
    /\ \A i, k \in 1 .. Len(grants) : i <= k => grants[i].at <= grants[k].at

\* Grant i has left the window or is charged no tokens.
Weightless(i) ==
    \/ grants[i].at <= now - Window
    \/ ~ grants[i].open /\ grants[i].charge.tokens = 0

\* The token events are those of grants, in their order, with the time and the
\* charge of each; a grant without an event has left the window or weighs nothing.
EventLog(events) ==
    /\ \A k \in 1 .. Len(events) :
           /\ events[k].id \in 1 .. Len(grants)
           /\ events[k].at = grants[events[k].id].at
           /\ events[k].tokens = grants[events[k].id].charge.tokens
    /\ \A k, l \in 1 .. Len(events) : k < l => events[k].id < events[l].id
    /\ \A i \in 1 .. Len(grants) :
           Weightless(i) \/ \E k \in 1 .. Len(events) : events[k].id = i

OfDay(q, d) == { i \in 1 .. Len(q) : q[i].day = d }

NoneLate(q) == \A i \in 1 .. Len(q) : ~ q[i].late

\* The daily sums are what the day's grants are charged, until one is settled late.
DayBooks(s) ==
    NoneLate(grants) =>
        /\ s.dailyTokens = ChargedIn(grants, OfDay(grants, s.day), "tokens")
        /\ s.dailyCost = ChargedIn(grants, OfDay(grants, s.day), "cost")

SumInv ==
    /\ IInv
    /\ ReservationsMatch
    /\ History
    /\ EventLog(state.tokenEvents)
    /\ DayBooks(state)

\* The fields of a grant have their types.
LEMMA GrantFields ==
    ASSUME TypeOK, NEW i \in 1 .. Len(grants)
    PROVE  /\ grants[i] \in Grant
           /\ grants[i].at \in Nat /\ grants[i].day \in Nat
           /\ grants[i].estimate \in Amount /\ grants[i].charge \in Amount
           /\ grants[i].charge.tokens \in Int /\ grants[i].charge.cost \in Int
           /\ grants[i].estimate.tokens \in Int /\ grants[i].estimate.cost \in Int
           /\ grants[i].open \in BOOLEAN /\ grants[i].late \in BOOLEAN
<1>1. grants[i] \in Grant
  BY ElementOfSeq DEF TypeOK
<1>2. grants[i].estimate \in Amount /\ grants[i].charge \in Amount
  BY <1>1 DEF Grant
<1> QED BY <1>1, <1>2 DEF Grant, Amount

\* A roll drops the events that have left the window and no others.
LEMMA RolledEvents ==
    ASSUME TypeOK, History, NEW old, NEW new, Len(old) \in Nat, Len(new) \in Nat,
           EventLog(old), RollEventsEffect(old, new, now)
    PROVE  EventLog(new) /\ \A k \in 1 .. Len(new) : new[k].at > now - Window
<1>1. PICK d \in 0 .. Len(old) :
          /\ Len(new) = Len(old) - d
          /\ \A i \in 1 .. Len(new) : new[i] = old[i + d]
          /\ \A i \in 1 .. d : old[i].at <= now - Window
          /\ d < Len(old) => old[d + 1].at > now - Window
  BY DEF RollEventsEffect
<1>2. now \in Nat /\ now - Window \in Int
  BY QuotaAssumption, WindowAssumption DEF TypeOK
<1>3. /\ \A k \in 1 .. Len(old) :
             /\ old[k].id \in 1 .. Len(grants)
             /\ old[k].at = grants[old[k].id].at
             /\ old[k].tokens = grants[old[k].id].charge.tokens
      /\ \A k, l \in 1 .. Len(old) : k < l => old[k].id < old[l].id
      /\ \A i \in 1 .. Len(grants) :
             Weightless(i) \/ \E k \in 1 .. Len(old) : old[k].id = i
  BY DEF EventLog
<1>4. \A k \in 1 .. Len(new) : new[k] = old[k + d] /\ k + d \in d + 1 .. Len(old)
  BY <1>1
<1>5. ASSUME NEW k \in 1 .. Len(new)
      PROVE  /\ new[k].id \in 1 .. Len(grants)
             /\ new[k].at = grants[new[k].id].at
             /\ new[k].tokens = grants[new[k].id].charge.tokens
  <2>1. k + d \in 1 .. Len(old) /\ new[k] = old[k + d]
    BY <1>1, <1>4
  <2> QED BY <1>3, <2>1
<1>6. ASSUME NEW k \in 1 .. Len(new), NEW l \in 1 .. Len(new), k < l
      PROVE  new[k].id < new[l].id
  <2>1. /\ k + d \in 1 .. Len(old) /\ new[k] = old[k + d]
        /\ l + d \in 1 .. Len(old) /\ new[l] = old[l + d]
        /\ k + d < l + d
    BY <1>1, <1>4, <1>6
  <2> QED BY <1>3, <2>1
<1>7. ASSUME NEW i \in 1 .. Len(grants)
      PROVE  Weightless(i) \/ \E k \in 1 .. Len(new) : new[k].id = i
  <2>1. SUFFICES ASSUME ~ Weightless(i)
                 PROVE  \E k \in 1 .. Len(new) : new[k].id = i
    OBVIOUS
  <2>2. PICK l \in 1 .. Len(old) : old[l].id = i
    BY <1>3, <2>1
  <2>3. old[l].at = grants[i].at
    BY <1>3, <2>2
  <2>4. ~ (grants[i].at <= now - Window)
    BY <2>1 DEF Weightless
  <2>5. l > d
    BY <1>1, <2>3, <2>4
  <2>6. l - d \in 1 .. Len(new) /\ (l - d) + d = l
    BY <1>1, <2>5
  <2>7. new[l - d].id = i
    BY <1>4, <2>2, <2>6
  <2> QED BY <2>6, <2>7
<1>8. ASSUME NEW k \in 1 .. Len(new) PROVE new[k].at > now - Window
  <2>1. d < Len(old) /\ d + 1 \in 1 .. Len(old) /\ k + d \in 1 .. Len(old) /\ d + 1 <= k + d
    BY <1>1, <1>4
  <2>2. old[d + 1].at > now - Window
    BY <1>1, <2>1
  <2>3. old[d + 1].id <= old[k + d].id
    BY <1>3, <2>1
  <2>4. /\ old[d + 1].id \in 1 .. Len(grants) /\ old[d + 1].at = grants[old[d + 1].id].at
        /\ old[k + d].id \in 1 .. Len(grants) /\ old[k + d].at = grants[old[k + d].id].at
    BY <1>3, <2>1
  <2>5. grants[old[d + 1].id].at <= grants[old[k + d].id].at
    BY <2>3, <2>4 DEF History
  <2>6. grants[old[d + 1].id].at \in Nat /\ grants[old[k + d].id].at \in Nat
    BY <2>4, GrantFields
  <2>7. old[k + d].at > now - Window
    <3> DEFINE a == grants[old[d + 1].id].at
               z == grants[old[k + d].id].at
    <3>0. old[d + 1].at = a
      BY <2>4, Zenon
    <3>1. a > now - Window
      BY <2>2, <3>0, Zenon
    <3>3. a <= z /\ a \in Int /\ z \in Int
      BY <2>5, <2>6
    <3>2. z > now - Window
      <4> HIDE DEF a, z
      <4> QED BY <1>2, <3>1, <3>3
    <3> QED BY <2>4, <3>2
  <2> QED BY <1>4, <2>7
<1> QED BY <1>5, <1>6, <1>7, <1>8 DEF EventLog

\* The grants of the last minute.
Recent == { i \in 1 .. Len(grants) : Live(i) }

\* What the rolled events add up to is what the recent grants are charged.
LEMMA EventsWeigh ==
    ASSUME TypeOK, NEW s, Len(s.tokenEvents) \in Nat, EventLog(s.tokenEvents),
           \A k \in 1 .. Len(s.tokenEvents) : s.tokenEvents[k].at > now - Window
    PROVE  MinuteTokens(s) = ChargedIn(grants, Recent, "tokens")
<1> DEFINE events == s.tokenEvents
           m == Len(events)
           f == [k \in 1 .. m |-> events[k].tokens]
           b == [k \in 1 .. m |-> events[k].id]
           g == [i \in 1 .. Len(grants) |-> grants[i].charge["tokens"]]
           Ids == { b[k] : k \in 1 .. m }
<1>1. /\ \A k \in 1 .. m :
             /\ events[k].id \in 1 .. Len(grants)
             /\ events[k].at = grants[events[k].id].at
             /\ events[k].tokens = grants[events[k].id].charge.tokens
      /\ \A k, l \in 1 .. m : k < l => events[k].id < events[l].id
      /\ \A i \in 1 .. Len(grants) :
             Weightless(i) \/ \E k \in 1 .. m : events[k].id = i
  BY DEF EventLog
<1>2. MinuteTokens(s) = Total(f, 1 .. m)
  BY MinuteTokensTotal
<1>3. /\ IsFiniteSet(Recent)
      /\ ChargedIn(grants, Recent, "tokens") = Total(g, Recent)
  <2>1. Recent \in SUBSET (1 .. Len(grants)) /\ grants \in Seq(Grant) /\ "tokens" \in Fields
    BY DEF Recent, TypeOK, Fields
  <2> QED BY <2>1, ChargeType
<1>4. \A i \in 1 .. Len(grants) : g[i] \in Int /\ g[i] = grants[i].charge.tokens
  BY GrantFields
<1>5. /\ \A k \in 1 .. m : f[k] \in Int /\ b[k] \in 1 .. Len(grants) /\ g[b[k]] = f[k]
      /\ \A k, l \in 1 .. m : b[k] = b[l] => k = l
  <2>1. ASSUME NEW k \in 1 .. m
        PROVE  f[k] \in Int /\ b[k] \in 1 .. Len(grants) /\ g[b[k]] = f[k]
    <3>1. b[k] = events[k].id /\ f[k] = events[k].tokens
      OBVIOUS
    <3>2. b[k] \in 1 .. Len(grants) /\ f[k] = grants[b[k]].charge.tokens
      BY <1>1, <3>1
    <3> QED BY <1>4, <3>2
  <2>2. ASSUME NEW k \in 1 .. m, NEW l \in 1 .. m, b[k] = b[l] PROVE k = l
    <3>1. b[k] = events[k].id /\ b[l] = events[l].id
      OBVIOUS
    <3>2. events[k].id \in Int /\ ~ (k < l) /\ ~ (l < k)
      BY <1>1, <2>2, <3>1
    <3> QED BY <3>2
  <2> QED BY <2>1, <2>2
<1>6. Ids \in SUBSET Recent
  <2>1. ASSUME NEW k \in 1 .. m PROVE b[k] \in Recent
    <3>1. b[k] = events[k].id
      OBVIOUS
    <3>2. grants[b[k]].at > now - Window
      BY <1>1, <3>1
    <3> QED BY <1>5, <3>2 DEF Recent, Live
  <2> QED BY <2>1
<1>7. ASSUME NEW i \in Recent \ Ids PROVE g[i] = 0
  <2>1. i \in 1 .. Len(grants) /\ grants[i].at > now - Window
    BY DEF Recent, Live
  <2>2. ~ \E k \in 1 .. m : events[k].id = i
    OBVIOUS
  <2>3. grants[i].at \in Nat /\ now \in Int /\ Window \in Int
    BY <2>1, GrantFields, QuotaAssumption, WindowAssumption DEF TypeOK
  <2>4. ~ (grants[i].at <= now - Window)
    BY <2>1, <2>3
  <2>5. grants[i].charge.tokens = 0
    BY <1>1, <2>1, <2>2, <2>4 DEF Weightless
  <2> QED BY <1>4, <2>1, <2>5
<1>8. IsFiniteSet(1 .. m)
  BY FS_Interval
<1> HIDE DEF f, b, g
<1>9. Total(f, 1 .. m) = Total(g, Ids)
  <2> DEFINE D == 1 .. m
  <2>1. /\ IsFiniteSet(D)
        /\ \A x \in D : f[x] \in Int
        /\ \A x, y \in D : b[x] = b[y] => x = y
        /\ \A x \in D : g[b[x]] = f[x]
    BY <1>5, <1>8
  <2> HIDE DEF D
  <2>2. Total(f, D) = Total(g, { b[x] : x \in D })
    BY <2>1, TotalRename
  <2> QED BY <2>2 DEF D
<1>10. Total(g, Recent) = Total(g, Ids)
  <2>1. \A i \in Recent : g[i] \in Int
    BY <1>4 DEF Recent
  <2> HIDE DEF Ids
  <2> QED BY <1>3, <1>6, <1>7, <2>1, TotalSubset
<1> QED BY <1>2, <1>3, <1>9, <1>10

\* A grant appends one record to the history.
LEMMA GrantHistory ==
    ASSUME TypeOK, NEW r, NEW e \in Amount, GrantStep(r, e)
    PROVE  /\ grants' \in Seq(Grant)
           /\ Len(grants') = Len(grants) + 1
           /\ \A i \in 1 .. Len(grants) : grants'[i] = grants[i]
           /\ LET new == grants'[Len(grants) + 1]
              IN  /\ new.at = now /\ new.day = today
                  /\ new.estimate = e /\ new.charge = e
                  /\ new.open = TRUE /\ new.late = FALSE
<1> DEFINE new == [at |-> now, day |-> today, estimate |-> e,
                   charge |-> e, open |-> TRUE, late |-> FALSE]
<1>1. grants \in Seq(Grant) /\ Len(grants) \in Nat
  BY DEF TypeOK
<1>2. /\ new \in Grant
      /\ new.at = now /\ new.day = today
      /\ new.estimate = e /\ new.charge = e
      /\ new.open = TRUE /\ new.late = FALSE
  BY QuotaAssumption DEF Grant, TypeOK
<1>3. grants' = Append(grants, new)
  BY DEF GrantStep
<1> HIDE DEF new
<1>4. /\ grants' \in Seq(Grant)
      /\ Len(grants') = Len(grants) + 1
      /\ \A i \in 1 .. Len(grants) : grants'[i] = grants[i]
      /\ grants'[Len(grants) + 1] = new
  BY <1>1, <1>2, <1>3, AppendProperties
<1> QED BY <1>2, <1>4

\* The history stays one: the new grant is the latest.
LEMMA GrantKeepsHistory ==
    ASSUME TypeOK, History, NEW r, NEW e \in Amount, e.tokens >= 0, e.cost >= 0,
           GrantStep(r, e)
    PROVE  History'
<1> DEFINE n == Len(grants)
<1>1. n \in Nat /\ now \in Nat /\ now' = now
  BY QuotaAssumption DEF TypeOK, GrantStep
<1>2. /\ Len(grants') = n + 1
      /\ \A i \in 1 .. n : grants'[i] = grants[i]
      /\ grants'[n + 1].at = now /\ grants'[n + 1].estimate = e /\ grants'[n + 1].charge = e
      /\ grants'[n + 1].late = FALSE
  BY GrantHistory
<1>3. \A i \in 1 .. n : grants[i].at \in Nat /\ grants[i].at <= now
  BY GrantFields DEF History
<1> HIDE DEF n
<1>4. ASSUME NEW i \in 1 .. n + 1
      PROVE  /\ grants'[i].at <= now'
             /\ grants'[i].charge.tokens >= 0
             /\ grants'[i].charge.cost >= 0
             /\ grants'[i].open => grants'[i].charge = grants'[i].estimate /\ ~ grants'[i].late
  <2>1. CASE i = n + 1
    BY <1>1, <1>2, <2>1
  <2>2. CASE i \in 1 .. n
    <3>1. /\ grants[i].at <= now
          /\ grants[i].charge.tokens >= 0
          /\ grants[i].charge.cost >= 0
          /\ grants[i].open => grants[i].charge = grants[i].estimate /\ ~ grants[i].late
      BY <2>2 DEF History, n
    <3>2. grants'[i] = grants[i]
      BY <1>2, <2>2
    <3> QED BY <1>1, <3>1, <3>2, Zenon
  <2> QED BY <1>1, <2>1, <2>2
<1>5. ASSUME NEW i \in 1 .. n + 1, NEW k \in 1 .. n + 1, i <= k
      PROVE  grants'[i].at <= grants'[k].at
  <2>1. CASE k = n + 1
    <3>1. CASE i = n + 1
      BY <1>1, <1>2, <2>1, <3>1
    <3>2. CASE i \in 1 .. n
      BY <1>2, <1>3, <2>1, <3>2
    <3> QED BY <1>1, <3>1, <3>2
  <2>2. CASE k \in 1 .. n
    <3>1. i \in 1 .. n
      BY <1>1, <1>5, <2>2
    <3>2. grants[i].at <= grants[k].at
      BY <1>5, <2>2, <3>1 DEF History, n
    <3> QED BY <1>2, <2>2, <3>1, <3>2
  <2> QED BY <1>1, <2>1, <2>2
<1> QED BY <1>2, <1>4, <1>5 DEF History

\* The new grant has the last event.
LEMMA GrantKeepsEvents ==
    ASSUME TypeOK, NEW r \in State, NEW e \in Amount, EventLog(r.tokenEvents),
           GrantStep(r, e)
    PROVE  EventLog(state.tokenEvents)'
<1> DEFINE n == Len(grants)
           old == r.tokenEvents
           event == [at |-> now, id |-> n + 1, tokens |-> e.tokens]
           new == Append(old, event)
           m == Len(old)
<1>1. n \in Nat /\ now' = now /\ m \in Nat
  BY SMTT(30) DEF TypeOK, State, GrantStep
<1>2. /\ Len(grants') = n + 1
      /\ \A i \in 1 .. n : grants'[i] = grants[i]
      /\ grants'[n + 1].at = now /\ grants'[n + 1].charge = e
  BY GrantHistory
<1>3. state'.tokenEvents = new
  BY DEF GrantStep, Reserve, Reservation
<1>4. /\ Len(new) = m + 1
      /\ \A k \in 1 .. m : new[k] = old[k]
      /\ new[m + 1].at = now /\ new[m + 1].id = n + 1 /\ new[m + 1].tokens = e.tokens
  <2>1. /\ old \in Seq([at : Nat, id : Nat, tokens : Int])
        /\ event \in [at : Nat, id : Nat, tokens : Int]
    BY <1>1, QuotaAssumption DEF State, Amount, TypeOK
  <2>2. event.at = now /\ event.id = n + 1 /\ event.tokens = e.tokens
    OBVIOUS
  <2> HIDE DEF event
  <2>3. /\ Len(new) = m + 1
        /\ \A k \in 1 .. m : new[k] = old[k]
        /\ new[m + 1] = event
    BY <2>1, AppendProperties
  <2> QED BY <2>2, <2>3
<1>5. /\ \A k \in 1 .. m :
             /\ old[k].id \in 1 .. n
             /\ old[k].at = grants[old[k].id].at
             /\ old[k].tokens = grants[old[k].id].charge.tokens
      /\ \A k, l \in 1 .. m : k < l => old[k].id < old[l].id
      /\ \A i \in 1 .. n : Weightless(i) \/ \E k \in 1 .. m : old[k].id = i
  BY DEF EventLog
<1> HIDE DEF n, old, new, m
<1>6. ASSUME NEW k \in 1 .. m + 1
      PROVE  /\ new[k].id \in 1 .. n + 1
             /\ new[k].at = grants'[new[k].id].at
             /\ new[k].tokens = grants'[new[k].id].charge.tokens
  <2>1. CASE k = m + 1
    BY <1>1, <1>2, <1>4, <2>1
  <2>2. CASE k \in 1 .. m
    <3>1. new[k] = old[k] /\ old[k].id \in 1 .. n
      BY <1>4, <1>5, <2>2
    <3>2. grants'[old[k].id] = grants[old[k].id]
      BY <1>2, <3>1
    <3>3. old[k].id \in 1 .. n + 1
      BY <1>1, <3>1
    <3> QED BY <1>5, <2>2, <3>1, <3>2, <3>3
  <2> QED BY <1>1, <2>1, <2>2
<1>7. ASSUME NEW k \in 1 .. m + 1, NEW l \in 1 .. m + 1, k < l
      PROVE  new[k].id < new[l].id
  <2>1. k \in 1 .. m /\ new[k] = old[k] /\ old[k].id \in 1 .. n
    BY <1>1, <1>4, <1>5, <1>7
  <2>2. CASE l = m + 1
    BY <1>1, <1>4, <2>1, <2>2
  <2>3. CASE l \in 1 .. m
    BY <1>4, <1>5, <1>7, <2>1, <2>3
  <2> QED BY <1>1, <2>2, <2>3
<1>8. ASSUME NEW i \in 1 .. n + 1
      PROVE  Weightless(i)' \/ \E k \in 1 .. m + 1 : new[k].id = i
  <2>1. CASE i = n + 1
    <3>1. m + 1 \in 1 .. m + 1 /\ new[m + 1].id = i
      BY <1>1, <1>4, <2>1
    <3> QED BY <3>1
  <2>2. CASE i \in 1 .. n
    <3>1. CASE Weightless(i)
      BY <1>1, <1>2, <2>2, <3>1 DEF Weightless
    <3>2. CASE \E k \in 1 .. m : old[k].id = i
      <4>1. PICK k \in 1 .. m : old[k].id = i
        BY <3>2
      <4>2. k \in 1 .. m + 1 /\ new[k].id = i
        BY <1>1, <1>4, <4>1
      <4> QED BY <4>2
    <3> QED BY <1>5, <2>2, <3>1, <3>2
  <2> QED BY <1>1, <2>1, <2>2
<1> QED BY <1>2, <1>3, <1>4, <1>6, <1>7, <1>8 DEF EventLog

\* The day's sums grow by the estimate.
LEMMA GrantKeepsBooks ==
    ASSUME TypeOK, NEW r \in State, NEW e \in Amount, DayBooks(r), GrantStep(r, e)
    PROVE  DayBooks(state)'
<1> DEFINE n == Len(grants)
           S == OfDay(grants, today)
<1>1. n \in Nat /\ grants \in Seq(Grant) /\ r.day = today
  BY DEF TypeOK, GrantStep
<1>2. /\ grants' \in Seq(Grant)
      /\ Len(grants') = n + 1
      /\ \A i \in 1 .. n : grants'[i] = grants[i]
      /\ grants'[n + 1].day = today /\ grants'[n + 1].charge = e
  BY GrantHistory
<1>3. /\ state'.day = today
      /\ state'.dailyTokens = r.dailyTokens + e.tokens
      /\ state'.dailyCost = r.dailyCost + e.cost
  BY <1>1 DEF GrantStep, Reserve, Reservation
<1>4. S \in SUBSET (1 .. n) /\ OfDay(grants', today) = S \cup {n + 1}
  BY <1>1, <1>2 DEF OfDay
<1>5. NoneLate(grants') => NoneLate(grants)
  <2>1. 1 .. n \subseteq 1 .. n + 1
    BY <1>1
  <2> QED BY <1>2, <2>1 DEF NoneLate
<1> HIDE DEF S
<1>6. ASSUME NEW field \in Fields
      PROVE  ChargedIn(grants', OfDay(grants', today), field)
                 = ChargedIn(grants, S, field) + e[field]
  <2>1. ChargedIn(grants', S \cup {Len(grants')}, field)
            = ChargedIn(grants, S, field) + grants'[Len(grants')].charge[field]
    BY <1>1, <1>2, <1>4, ChargedInAdd
  <2> QED BY <1>2, <1>4, <2>1
<1>7. ASSUME NoneLate(grants')
      PROVE  /\ state'.dailyTokens = ChargedIn(grants', OfDay(grants', today), "tokens")
             /\ state'.dailyCost = ChargedIn(grants', OfDay(grants', today), "cost")
  <2>1. /\ r.dailyTokens = ChargedIn(grants, S, "tokens")
        /\ r.dailyCost = ChargedIn(grants, S, "cost")
    BY <1>1, <1>5, <1>7 DEF DayBooks, S
  <2>2. "tokens" \in Fields /\ "cost" \in Fields
    BY DEF Fields
  <2> QED BY <1>3, <1>6, <2>1, <2>2
<1> QED BY <1>3, <1>7 DEF DayBooks

\* The first settlement of grant i: what it changes of the history.
FirstSettlement(i, c) ==
    /\ Len(grants') = Len(grants)
    /\ grants' \in Seq(Grant)
    /\ \A k \in 1 .. Len(grants) : k # i => grants'[k] = grants[k]
    /\ grants'[i].at = grants[i].at /\ grants'[i].day = grants[i].day
    /\ grants'[i].charge = c
    /\ grants'[i].open = FALSE
    /\ grants'[i].late = (state.day # grants[i].day)

\* A settlement is the first one, or changes nothing.
LEMMA SettleOnce ==
    ASSUME TypeOK, NEW i \in 1 .. Len(grants), NEW c \in Amount, Settle(i, c)
    PROVE  IF grants[i].open THEN FirstSettlement(i, c) ELSE grants' = grants
<1> DEFINE new == SettledGrant(grants[i], c)
<1>1. grants \in Seq(Grant) /\ state.day \in Nat /\ grants[i] \in Grant
  BY GrantFields DEF TypeOK, State
<1>2. /\ new \in Grant
      /\ new.at = grants[i].at /\ new.day = grants[i].day
      /\ new.charge = c /\ new.open = FALSE
      /\ new.late = (state.day # grants[i].day)
  BY <1>1 DEF SettledGrant, Grant
<1> HIDE DEF new
<1>3. CASE grants[i].open
  <2>1. grants' = [grants EXCEPT ![i] = new]
    BY <1>3 DEF Settle, new
  <2>2. /\ grants' \in Seq(Grant)
        /\ Len(grants') = Len(grants)
        /\ \A k \in 1 .. Len(grants) : grants'[k] = IF k = i THEN new ELSE grants[k]
    BY <1>1, <1>2, <2>1, ExceptSeq
  <2> QED BY <1>2, <1>3, <2>2 DEF FirstSettlement
<1>4. CASE ~ grants[i].open
  BY <1>4 DEF Settle
<1> QED BY <1>3, <1>4

\* A settled grant keeps its place, its time and a charge that is not negative.
LEMMA SettleKeepsHistory ==
    ASSUME TypeOK, History, now' = now, NEW i \in 1 .. Len(grants), NEW c \in Amount,
           c.tokens >= 0, c.cost >= 0, FirstSettlement(i, c)
    PROVE  History'
<1> DEFINE n == Len(grants)
<1>1. ASSUME NEW k \in 1 .. n
      PROVE  /\ grants'[k].at = grants[k].at
             /\ grants'[k].at <= now'
             /\ grants'[k].charge.tokens >= 0
             /\ grants'[k].charge.cost >= 0
             /\ grants'[k].open => grants'[k].charge = grants'[k].estimate /\ ~ grants'[k].late
  <2>1. /\ grants[k].at <= now
        /\ grants[k].charge.tokens >= 0
        /\ grants[k].charge.cost >= 0
        /\ grants[k].open => grants[k].charge = grants[k].estimate /\ ~ grants[k].late
    BY DEF History
  <2>2. CASE k = i
    BY <2>1, <2>2 DEF FirstSettlement
  <2>3. CASE k # i
    <3>1. grants'[k] = grants[k]
      BY <2>3 DEF FirstSettlement
    <3> QED BY <2>1, <3>1
  <2> QED BY <2>2, <2>3
<1>2. ASSUME NEW k \in 1 .. n, NEW l \in 1 .. n, k <= l PROVE grants'[k].at <= grants'[l].at
  BY <1>1, <1>2 DEF History
<1>3. Len(grants') = n
  BY DEF FirstSettlement
<1> QED BY <1>1, <1>2, <1>3 DEF History

\* A committed grant's event has its usage.
LEMMA CommitKeepsEvents ==
    ASSUME TypeOK, now' = now, EventLog(state.tokenEvents),
           NEW i \in 1 .. Len(grants), NEW c \in Amount, FirstSettlement(i, c),
           NEW u, c.tokens = NonNegative(u.tokens), grants[i].open,
           CommitEffect(state, state', Handle(i), u)
    PROVE  EventLog(state.tokenEvents)'
<1> DEFINE n == Len(grants)
           old == state.tokenEvents
           new == state'.tokenEvents
           m == Len(old)
<1>1. /\ \A k \in 1 .. m :
             /\ old[k].id \in 1 .. n
             /\ old[k].at = grants[old[k].id].at
             /\ old[k].tokens = grants[old[k].id].charge.tokens
      /\ \A k, l \in 1 .. m : k < l => old[k].id < old[l].id
      /\ \A j \in 1 .. n : Weightless(j) \/ \E k \in 1 .. m : old[k].id = j
  BY DEF EventLog
<1>2. /\ Len(new) = m
      /\ \A k \in 1 .. m :
             /\ new[k].at = old[k].at
             /\ new[k].id = old[k].id
             /\ new[k].tokens = IF old[k].id = i THEN c.tokens ELSE old[k].tokens
  <2>1. Handle(i).id = i
    BY DEF Handle, Reservation
  <2> QED BY <2>1 DEF CommitEffect
<1>3. /\ Len(grants') = n
      /\ \A k \in 1 .. n : k # i => grants'[k] = grants[k]
      /\ grants'[i].at = grants[i].at /\ grants'[i].charge = c
  BY DEF FirstSettlement
<1> HIDE DEF n, old, new, m
<1>4. ASSUME NEW k \in 1 .. m
      PROVE  /\ new[k].id \in 1 .. n
             /\ new[k].at = grants'[new[k].id].at
             /\ new[k].tokens = grants'[new[k].id].charge.tokens
  <2>1. CASE old[k].id = i
    BY <1>1, <1>2, <1>3, <2>1
  <2>2. CASE old[k].id # i
    <3>1. grants'[old[k].id] = grants[old[k].id]
      BY <1>1, <1>3, <2>2
    <3> QED BY <1>1, <1>2, <2>2, <3>1
  <2> QED BY <2>1, <2>2
<1>5. \A k, l \in 1 .. m : k < l => new[k].id < new[l].id
  BY <1>1, <1>2
<1>6. ASSUME NEW j \in 1 .. n
      PROVE  Weightless(j)' \/ \E k \in 1 .. m : new[k].id = j
  <2>1. CASE \E k \in 1 .. m : old[k].id = j
    BY <1>2, <2>1
  <2>2. CASE Weightless(j) /\ j # i
    BY <1>3, <2>2 DEF Weightless
  <2>3. CASE Weightless(j) /\ j = i
    BY <1>3, <2>3 DEF Weightless
  <2> QED BY <1>1, <2>1, <2>2, <2>3
<1> QED BY <1>2, <1>3, <1>4, <1>5, <1>6 DEF EventLog, n, old, new, m

\* The events of new are those of old with another id, in the same order.
EventsRemoved(old, new, id) ==
    /\ Len(new) \in Nat
    /\ \A k \in 1 .. Len(new) : \E l \in 1 .. Len(old) : new[k] = old[l] /\ old[l].id # id
    /\ \A k, l \in 1 .. Len(new) : k < l => new[k].id < new[l].id
    /\ \A l \in 1 .. Len(old) : old[l].id # id => \E k \in 1 .. Len(new) : new[k] = old[l]

\* Removing the event of a reservation leaves the others, in a log ordered by id.
LEMMA EventRemoved ==
    ASSUME NEW S, NEW old \in Seq(S), NEW id,
           \A k \in 1 .. Len(old) : old[k].id \in Int,
           \A k, l \in 1 .. Len(old) : k < l => old[k].id < old[l].id
    PROVE  EventsRemoved(old, WithoutEvent(old, id), id)
<1> DEFINE new == WithoutEvent(old, id)
           m == Len(old)
<1>0. m \in Nat
  OBVIOUS
<1>1. \A k, l \in 1 .. m : old[k].id = old[l].id => k = l
  <2> TAKE k \in 1 .. m, l \in 1 .. m
  <2> HAVE old[k].id = old[l].id
  <2>1. old[k].id \in Int /\ ~ (k < l) /\ ~ (l < k)
    OBVIOUS
  <2> QED BY <1>0, <2>1
<1>2. \/ (\A k \in 1 .. m : old[k].id # id) /\ new = old
      \/ \E d \in 1 .. m :
             /\ old[d].id = id
             /\ Len(new) = m - 1
             /\ \A k \in 1 .. Len(new) : new[k] = old[IF k < d THEN k ELSE k + 1]
  BY <1>1, WithoutEventProperties
<1>3. CASE (\A k \in 1 .. m : old[k].id # id) /\ new = old
  BY <1>3 DEF EventsRemoved
<1>4. CASE \E d \in 1 .. m :
               /\ old[d].id = id
               /\ Len(new) = m - 1
               /\ \A k \in 1 .. Len(new) : new[k] = old[IF k < d THEN k ELSE k + 1]
  <2>1. PICK d \in 1 .. m :
             /\ old[d].id = id
             /\ Len(new) = m - 1
             /\ \A k \in 1 .. Len(new) : new[k] = old[IF k < d THEN k ELSE k + 1]
    BY <1>4
  <2> DEFINE from(k) == IF k < d THEN k ELSE k + 1
  <2> HIDE DEF new
  <2>2. /\ Len(new) \in Nat
        /\ \A k \in 1 .. Len(new) : /\ from(k) \in 1 .. m /\ from(k) # d
                                    /\ new[k] = old[from(k)]
        /\ \A k, l \in 1 .. Len(new) : k < l => from(k) < from(l)
    BY <1>0, <2>1
  <2>3. \A l \in 1 .. m : l # d => \E k \in 1 .. Len(new) : from(k) = l
    <3> TAKE l \in 1 .. m
    <3> HAVE l # d
    <3>1. CASE l < d
      <4>1. l \in 1 .. Len(new) /\ from(l) = l
        BY <1>0, <2>1, <3>1
      <4> QED BY <4>1
    <3>2. CASE l > d
      <4>1. l - 1 \in 1 .. Len(new) /\ from(l - 1) = l
        BY <1>0, <2>1, <3>2
      <4> QED BY <4>1
    <3> QED BY <3>1, <3>2
  <2> HIDE DEF from
  <2>4. \A l \in 1 .. m : old[l].id = id => l = d
    BY <1>1, <2>1
  <2>5. \A k \in 1 .. Len(new) : \E l \in 1 .. m : new[k] = old[l] /\ old[l].id # id
    BY <2>2, <2>4
  <2>6. \A k, l \in 1 .. Len(new) : k < l => new[k].id < new[l].id
    BY <2>2
  <2>7. \A l \in 1 .. m : old[l].id # id => \E k \in 1 .. Len(new) : new[k] = old[l]
    BY <2>1, <2>2, <2>3
  <2> QED BY <2>2, <2>5, <2>6, <2>7 DEF EventsRemoved, new
<1> QED BY <1>2, <1>3, <1>4

\* A released grant has no event and weighs nothing.
LEMMA ReleaseKeepsEvents ==
    ASSUME TypeOK, now' = now, EventLog(state.tokenEvents),
           NEW i \in 1 .. Len(grants), NEW c \in Amount, FirstSettlement(i, c),
           c.tokens = 0,
           state'.tokenEvents = WithoutEvent(state.tokenEvents, i)
    PROVE  EventLog(state.tokenEvents)'
<1> DEFINE n == Len(grants)
           old == state.tokenEvents
           new == state'.tokenEvents
<1>1. /\ \A k \in 1 .. Len(old) :
             /\ old[k].id \in 1 .. n
             /\ old[k].at = grants[old[k].id].at
             /\ old[k].tokens = grants[old[k].id].charge.tokens
      /\ \A k, l \in 1 .. Len(old) : k < l => old[k].id < old[l].id
      /\ \A j \in 1 .. n : Weightless(j) \/ \E k \in 1 .. Len(old) : old[k].id = j
  BY DEF EventLog
<1>2. EventsRemoved(old, new, i)
  <2> DEFINE Event == [at : Nat, id : Nat, tokens : Int]
  <2>1. old \in Seq(Event) /\ new = WithoutEvent(old, i)
    BY DEF TypeOK, State
  <2>2. /\ \A k \in 1 .. Len(old) : old[k].id \in Int
        /\ \A k, l \in 1 .. Len(old) : k < l => old[k].id < old[l].id
    BY <1>1
  <2> HIDE DEF Event, old, new
  <2>3. EventsRemoved(old, WithoutEvent(old, i), i)
    BY <2>1, <2>2, EventRemoved
  <2> QED BY <2>1, <2>3
<1>3. /\ Len(grants') = n
      /\ \A k \in 1 .. n : k # i => grants'[k] = grants[k]
      /\ grants'[i].at = grants[i].at /\ grants'[i].charge = c /\ grants'[i].open = FALSE
  BY DEF FirstSettlement
<1>4. /\ \A k \in 1 .. Len(new) : \E l \in 1 .. Len(old) : new[k] = old[l] /\ old[l].id # i
      /\ \A k, l \in 1 .. Len(new) : k < l => new[k].id < new[l].id
      /\ \A l \in 1 .. Len(old) : old[l].id # i => \E k \in 1 .. Len(new) : new[k] = old[l]
  BY <1>2 DEF EventsRemoved
<1> HIDE DEF n, old, new
<1>5. ASSUME NEW k \in 1 .. Len(new)
      PROVE  /\ new[k].id \in 1 .. n
             /\ new[k].at = grants'[new[k].id].at
             /\ new[k].tokens = grants'[new[k].id].charge.tokens
  <2>1. PICK l \in 1 .. Len(old) : new[k] = old[l] /\ old[l].id # i
    BY <1>4
  <2>2. old[l].id \in 1 .. n /\ grants'[old[l].id] = grants[old[l].id]
    BY <1>1, <1>3, <2>1
  <2> QED BY <1>1, <2>1, <2>2
<1>6. ASSUME NEW j \in 1 .. n
      PROVE  Weightless(j)' \/ \E k \in 1 .. Len(new) : new[k].id = j
  <2>1. CASE j = i
    BY <1>3, <2>1 DEF Weightless
  <2>2. CASE j # i /\ \E k \in 1 .. Len(old) : old[k].id = j
    <3>1. PICK l \in 1 .. Len(old) : old[l].id = j
      BY <2>2
    <3>2. PICK k \in 1 .. Len(new) : new[k] = old[l]
      BY <1>4, <2>2, <3>1
    <3> QED BY <3>1, <3>2
  <2>3. CASE j # i /\ Weightless(j)
    BY <1>3, <2>3 DEF Weightless
  <2> QED BY <1>1, <2>1, <2>2, <2>3
<1> QED BY <1>3, <1>4, <1>5, <1>6 DEF EventLog, n, new

\* The day's sums change with the charge.
LEMMA SettleKeepsBooks ==
    ASSUME TypeOK, History, DayBooks(state),
           NEW i \in 1 .. Len(grants), grants[i].open, NEW c \in Amount,
           FirstSettlement(i, c),
           state'.day = state.day,
           NoneLate(grants) /\ grants[i].day = state.day =>
               /\ state'.dailyTokens = state.dailyTokens - grants[i].estimate.tokens + c.tokens
               /\ state'.dailyCost = state.dailyCost - grants[i].estimate.cost + c.cost
    PROVE  DayBooks(state)'
<1> DEFINE n == Len(grants)
           d == state.day
           S == OfDay(grants, d)
<1>1. /\ grants \in Seq(Grant) /\ grants' \in Seq(Grant) /\ Len(grants') = n
      /\ \A k \in 1 .. n : k # i => grants'[k] = grants[k]
      /\ grants'[i].day = grants[i].day /\ grants'[i].charge = c
      /\ grants'[i].late = (d # grants[i].day)
  BY DEF TypeOK, FirstSettlement
<1>2. OfDay(grants', d) = S /\ S \in SUBSET (1 .. n) /\ S \in SUBSET (1 .. Len(grants'))
  BY <1>1 DEF OfDay
<1>3. SUFFICES ASSUME NoneLate(grants')
               PROVE  /\ state'.dailyTokens = ChargedIn(grants', S, "tokens")
                      /\ state'.dailyCost = ChargedIn(grants', S, "cost")
  BY <1>2 DEF DayBooks
<1>4. grants[i].day = d /\ ~ grants[i].late
  BY <1>1, <1>3 DEF NoneLate, History
<1>5. NoneLate(grants)
  BY <1>1, <1>3, <1>4 DEF NoneLate
<1>6. /\ state.dailyTokens = ChargedIn(grants, S, "tokens")
      /\ state.dailyCost = ChargedIn(grants, S, "cost")
  BY <1>5 DEF DayBooks
<1>7. i \in S /\ grants[i].charge = grants[i].estimate
  BY <1>4 DEF OfDay, History
<1> HIDE DEF S
<1>8. ASSUME NEW field \in Fields
      PROVE  ChargedIn(grants', S, field)
                 = ChargedIn(grants, S, field) - grants[i].charge[field] + c[field]
  <2>1. \A k \in S \ {i} : grants'[k].charge[field] = grants[k].charge[field]
    BY <1>1, <1>2
  <2>2. ChargedIn(grants', S, field)
            = ChargedIn(grants, S, field) - grants[i].charge[field] + grants'[i].charge[field]
    BY <1>1, <1>2, <1>7, <2>1, ChargedInChange, ZenonT(60)
  <2> QED BY <1>1, <2>2
<1>9. "tokens" \in Fields /\ "cost" \in Fields
  BY DEF Fields
<1> QED BY <1>4, <1>5, <1>6, <1>7, <1>8, <1>9

-----------------------------------------------------------------------------
(* SumInv is inductive.                                                     *)

\* The fresh tracker satisfies it.
LEMMA InitSumInv == Init => SumInv
<1> SUFFICES ASSUME Init PROVE SumInv
  OBVIOUS
<1>1. Len(grants) = 0
  BY DEF Init
<1>2. /\ Len(state.tokenEvents) = 0
      /\ state.dailyTokens = 0 /\ state.dailyCost = 0
  BY DEF Init, FreshState
<1>3. IInv
  BY InitIInv
<1>4. ReservationsMatch
  BY DEF Init, ReservationsMatch, FreshState
<1>5. History /\ EventLog(state.tokenEvents)
  BY <1>1, <1>2 DEF History, EventLog
<1>6. DayBooks(state)
  <2>1. OfDay(grants, state.day) = {}
    BY <1>1 DEF OfDay
  <2>2. \A field : ChargedIn(grants, OfDay(grants, state.day), field) = 0
    BY <2>1, ChargedInNone, Zenon
  <2> QED BY <1>2, <2>2 DEF DayBooks
<1> QED BY <1>3, <1>4, <1>5, <1>6 DEF SumInv

\* What SumInv says of a state that has just been rolled.
RolledSums(r) ==
    /\ r \in State
    /\ r.day = today
    /\ RequestLog(r)
    /\ DayLog(r)
    /\ r.reservations = state.reservations
    /\ EventLog(r.tokenEvents)
    /\ \A k \in 1 .. Len(r.tokenEvents) : r.tokenEvents[k].at > now - Window
    /\ DayBooks(r)

\* Rolling the windows keeps the sums, and forgets expired events and past days.
LEMMA RollSums ==
    ASSUME SumInv
    PROVE  RolledSums(Roll(state, now, today))
<1> DEFINE r == Roll(state, now, today)
           n == Len(grants)
<1>1. /\ IInv /\ TypeOK /\ History /\ EventLog(state.tokenEvents) /\ DayBooks(state)
      /\ state \in State /\ now \in Nat /\ today \in Nat /\ n \in Nat
  BY QuotaAssumption DEF SumInv, IInv, TypeOK
<1>2. r \in State /\ r.day = today /\ RequestLog(r) /\ DayLog(r)
      /\ r.reservations = state.reservations
  BY <1>1, RollIInv
<1>3. state \in TrackerState(Nat)
  BY <1>1, StateIsTracker
<1>4. RollEventsEffect(state.tokenEvents, r.tokenEvents, now)
  BY <1>1, <1>3, RollEvents
<1>5. RollEffect(state, r, now, today)
  BY <1>1, <1>3, RollProperties
<1> HIDE DEF r
<1>6. /\ EventLog(r.tokenEvents)
      /\ \A k \in 1 .. Len(r.tokenEvents) : r.tokenEvents[k].at > now - Window
  <2>1. Len(state.tokenEvents) \in Nat /\ Len(r.tokenEvents) \in Nat
    BY <1>1, <1>2 DEF State
  <2> QED BY <1>1, <1>4, <2>1, RolledEvents
<1>7. DayBooks(r)
  <2>1. CASE state.day = today
    <3>1. r.dailyTokens = state.dailyTokens /\ r.dailyCost = state.dailyCost /\ r.day = state.day
      BY <1>2, <1>5, <2>1 DEF RollEffect
    <3> QED BY <1>1, <3>1 DEF DayBooks
  <2>2. CASE state.day # today
    <3>1. r.dailyTokens = 0 /\ r.dailyCost = 0 /\ r.dailyRequests = 0
      BY <1>5, <2>2 DEF RollEffect
    <3>2. \A i \in 1 .. n : grants[i].day < today /\ grants[i].day \in Nat
      BY <1>1, <1>2, <3>1, GrantFields DEF DayLog
    <3>3. OfDay(grants, r.day) = {}
      BY <1>1, <1>2, <3>2 DEF OfDay
    <3>4. \A field : ChargedIn(grants, OfDay(grants, r.day), field) = 0
      BY <3>3, ChargedInNone, Zenon
    <3> QED BY <3>1, <3>4 DEF DayBooks
  <2> QED BY <2>1, <2>2
<1> QED BY <1>2, <1>6, <1>7 DEF RolledSums, r

\* What the steps are to the sums: a grant of a nonnegative estimate, the first
\* settlement of a grant, a roll, or nothing but time.
Granted(e) == GrantStep(Roll(state, now, today), e) /\ e.tokens >= 0 /\ e.cost >= 0

UsageCharge(u) == [tokens |-> NonNegative(u.tokens), cost |-> NonNegative(u.cost)]

NoCharge == [tokens |-> 0, cost |-> 0]

SettledOpen(i, c) ==
    /\ grants[i].open
    /\ Settle(i, c)
    /\ FirstSettlement(i, c)
    /\ state'.day = state.day
    /\ now' = now

Committed(i, u) ==
    SettledOpen(i, UsageCharge(u)) /\ CommitEffect(state, state', Handle(i), u)

Released(i) ==
    SettledOpen(i, NoCharge) /\ ReleaseEffect(state, state', Handle(i))

Rolled == state' = Roll(state, now, today) /\ grants' = grants /\ now' = now

Waited == state' = state /\ grants' = grants /\ now' >= now

\* A reported usage is charged as a nonnegative amount, a release as nothing.
LEMMA ChargeTypes ==
    /\ \A u \in Usages : /\ UsageCharge(u) \in Amount
                         /\ UsageCharge(u).tokens >= 0 /\ UsageCharge(u).cost >= 0
    /\ NoCharge \in Amount /\ NoCharge.tokens = 0 /\ NoCharge.cost = 0
BY QuotaAssumption DEF UsageCharge, NoCharge, NonNegative, Amount

\* An estimate is not negative: counts below zero are taken for zero.
LEMMA EstimateNonNegative ==
    ASSUME NEW request \in Requests
    PROVE  Estimate(Price, request).tokens >= 0 /\ Estimate(Price, request).cost >= 0
<1> DEFINE input  == NonNegative(request.input)
           output == NonNegative(request.output)
<1>1. input \in Nat /\ output \in Nat /\ Price.input \in Nat /\ Price.output \in Nat
  BY QuotaAssumption DEF NonNegative
<1>2. /\ Estimate(Price, request).tokens = input + output
      /\ Estimate(Price, request).cost = input * Price.input + output * Price.output
  BY DEF Estimate, EstimateCost
<1> HIDE DEF input, output
<1>3. \A a, b \in Nat : a * b \in Nat
  OBVIOUS
<1>4. input * Price.input \in Nat /\ output * Price.output \in Nat
  BY <1>1, <1>3
<1> QED BY <1>1, <1>2, <1>4

\* A reservation that is settled already is not in the dict: commit and release
\* return at once.
LEMMA SettledGone ==
    ASSUME ReservationsMatch, NEW i \in 1 .. Len(grants)
    PROVE  Handle(i) \in state.reservations <=> grants[i].open
<1>1. state.reservations = { Handle(k) : k \in { k \in 1 .. Len(grants) : grants[k].open } }
  BY DEF ReservationsMatch
<1>2. \A k : Handle(k) = Handle(i) => k = i
  BY HandleInjective
<1> QED BY <1>1, <1>2

\* Every step is one of these.
LEMMA StepKinds ==
    ASSUME SumInv, [Next]_vars
    PROVE  \/ \E e \in Amount : Granted(e)
           \/ \E i \in 1 .. Len(grants) : Released(i) \/ \E u \in Usages : Committed(i, u)
           \/ Rolled
           \/ Waited
<1> DEFINE r == Roll(state, now, today)
<1>1. /\ TypeOK /\ ReservationsMatch /\ state \in TrackerState(Nat) /\ now \in Nat
      /\ r.day = today
  <2>1. IInv /\ TypeOK /\ ReservationsMatch /\ state \in State /\ now \in Nat
    BY QuotaAssumption DEF SumInv, IInv, TypeOK
  <2> QED BY <2>1, RollIInv, StateIsTracker
<1>2. ASSUME NEW request \in Requests, TryReserve(request)
      PROVE  (\E e \in Amount : Granted(e)) \/ Rolled
  <2> DEFINE e == Estimate(Price, request)
  <2>1. e \in Amount /\ e.tokens >= 0 /\ e.cost >= 0
    BY EstimateType, EstimateNonNegative
  <2>2. \/ GrantStep(r, e)
        \/ state' = r /\ UNCHANGED << now, today, grants >>
    BY <1>1, <1>2 DEF TryReserve, GrantStep, r
  <2> HIDE DEF e
  <2> QED BY <2>1, <2>2 DEF Granted, Rolled
<1> HIDE DEF r
<1>3. ASSUME NEW i \in 1 .. Len(grants), NEW u \in Usages, Commit(i, u)
      PROVE  Committed(i, u) \/ Waited
  <2>1. /\ Settle(i, UsageCharge(u))
        /\ state' = CommitUsage(state, Handle(i), u)
        /\ now' = now
    BY <1>3 DEF Commit, UsageCharge
  <2>2. u \in Amount /\ UsageCharge(u) \in Amount
    BY ChargeTypes, QuotaAssumption
  <2>3. /\ SettleEffect(state, state', Handle(i))
        /\ Handle(i) \in state.reservations => CommitEffect(state, state', Handle(i), u)
    BY <1>1, <2>1, <2>2, HandleType, CommitType
  <2>4. CASE grants[i].open
    <3>1. FirstSettlement(i, UsageCharge(u))
      BY <1>1, <2>1, <2>2, <2>4, SettleOnce
    <3> QED BY <1>1, <2>1, <2>3, <2>4, <3>1, SettledGone DEF Committed, SettledOpen, SettleEffect
  <2>5. CASE ~ grants[i].open
    <3>1. grants' = grants
      BY <2>1, <2>5 DEF Settle
    <3> QED BY <1>1, <2>1, <2>3, <2>5, <3>1, SettledGone DEF Waited, SettleEffect
  <2> QED BY <2>4, <2>5
<1>4. ASSUME NEW i \in 1 .. Len(grants), Release(i)
      PROVE  Released(i) \/ Waited
  <2>1. /\ Settle(i, NoCharge)
        /\ state' = ReleaseEstimate(state, Handle(i))
        /\ now' = now
    BY <1>4 DEF Release, NoCharge
  <2>2. NoCharge \in Amount
    BY ChargeTypes
  <2>3. /\ SettleEffect(state, state', Handle(i))
        /\ Handle(i) \in state.reservations => ReleaseEffect(state, state', Handle(i))
    BY <1>1, <2>1, HandleType, ReleaseType
  <2>4. CASE grants[i].open
    <3>1. FirstSettlement(i, NoCharge)
      BY <1>1, <2>1, <2>2, <2>4, SettleOnce
    <3> QED BY <1>1, <2>1, <2>3, <2>4, <3>1, SettledGone DEF Released, SettledOpen, SettleEffect
  <2>5. CASE ~ grants[i].open
    <3>1. grants' = grants
      BY <2>1, <2>5 DEF Settle
    <3> QED BY <1>1, <2>1, <2>3, <2>5, <3>1, SettledGone DEF Waited, SettleEffect
  <2> QED BY <2>4, <2>5
<1>5. CASE Snapshot
  BY <1>5 DEF Snapshot, Rolled
<1>6. CASE Tick \/ Midnight \/ UNCHANGED vars
  BY <1>1, <1>6 DEF Tick, Midnight, vars, Waited
<1> QED BY <1>2, <1>3, <1>4, <1>5, <1>6 DEF Next

\* A release takes the whole estimate back: the counters of the day never have
\* less than it, so cutting them off at zero changes nothing.
LEMMA ReleaseKeepsBooks ==
    ASSUME TypeOK, History, DayBooks(state),
           NEW i \in 1 .. Len(grants), Released(i)
    PROVE  DayBooks(state)'
<1> DEFINE S == OfDay(grants, state.day)
           e == grants[i].estimate
<1>1. /\ grants[i].open /\ FirstSettlement(i, NoCharge)
      /\ state'.day = state.day
      /\ ReleaseEffect(state, state', Handle(i))
  BY DEF Released, SettledOpen
<1>2. /\ state'.dailyTokens = NonNegative(state.dailyTokens - e.tokens)
      /\ state'.dailyCost = NonNegative(state.dailyCost - e.cost)
  <2>1. Handle(i).tokens = e.tokens /\ Handle(i).cost = e.cost
    BY DEF Handle, Reservation
  <2> QED BY <1>1, <2>1 DEF ReleaseEffect
<1>3. /\ NoCharge \in Amount /\ NoCharge.tokens = 0 /\ NoCharge.cost = 0
      /\ e.tokens \in Int /\ e.cost \in Int
      /\ state.dailyTokens \in Int /\ state.dailyCost \in Int
  BY ChargeTypes, GrantFields DEF TypeOK, State
<1>4. ASSUME NoneLate(grants), grants[i].day = state.day
      PROVE  /\ state'.dailyTokens = state.dailyTokens - e.tokens + NoCharge.tokens
             /\ state'.dailyCost = state.dailyCost - e.cost + NoCharge.cost
  <2>1. /\ state.dailyTokens = ChargedIn(grants, S, "tokens")
        /\ state.dailyCost = ChargedIn(grants, S, "cost")
    BY <1>4 DEF DayBooks
  <2>2. grants \in Seq(Grant) /\ S \in SUBSET (1 .. Len(grants)) /\ i \in S
    BY <1>4 DEF TypeOK, OfDay
  <2>3. \A k \in S : grants[k].charge.tokens >= 0 /\ grants[k].charge.cost >= 0
    BY <2>2 DEF History
  <2>4. grants[i].charge = e
    BY <1>1 DEF History
  <2> HIDE DEF S
  <2>5. ASSUME NEW field \in Fields PROVE ChargedIn(grants, S, field) >= e[field]
    <3> DEFINE R == S \ {i}
    <3>1. R \in SUBSET (1 .. Len(grants)) /\ \A k \in R : grants[k].charge[field] >= 0
      BY <2>2, <2>3 DEF Fields
    <3>2. ChargedIn(grants, S, field) = grants[i].charge[field] + ChargedIn(grants, R, field)
      BY <2>2, ChargedInElement
    <3> HIDE DEF R
    <3>3. ChargedIn(grants, R, field) >= 0 /\ ChargedIn(grants, R, field) \in Int
      BY <2>2, <3>1, ChargedInNonNegative, ChargedInInt
    <3>4. e[field] \in Int
      BY <1>3 DEF Fields
    <3>5. grants[i].charge[field] = e[field]
      BY <2>4, Zenon
    <3> HIDE DEF e
    <3> QED BY <3>2, <3>3, <3>4, <3>5
  <2>6. state.dailyTokens >= e["tokens"] /\ state.dailyCost >= e["cost"]
    BY <2>1, <2>5 DEF Fields
  <2> HIDE DEF e
  <2> QED BY <1>2, <1>3, <2>6 DEF NonNegative
<1> QED BY <1>1, <1>3, <1>4, SettleKeepsBooks

\* The parts of SumInv that are about sums.
Kept == History /\ EventLog(state.tokenEvents) /\ DayBooks(state)

\* Every step keeps the sums.
LEMMA NextSumInv ==
    ASSUME SumInv, [Next]_vars
    PROVE  SumInv'
<1> DEFINE r == Roll(state, now, today)
<1>1. /\ IInv /\ TypeOK /\ ReservationsMatch
      /\ History /\ EventLog(state.tokenEvents) /\ DayBooks(state)
      /\ now \in Nat /\ grants \in Seq(Grant) /\ Len(grants) \in Nat
  BY QuotaAssumption DEF SumInv, IInv, TypeOK
<1>2. IInv' /\ ReservationsMatch'
  BY <1>1, NextIInv, NextReservations
<1>3. RolledSums(r)
  BY RollSums
<1>4. now' \in Nat
  BY <1>2, QuotaAssumption DEF IInv, TypeOK
<1> HIDE DEF r
<1>5. ASSUME NEW e \in Amount, Granted(e) PROVE Kept'
  <2>1. r \in State /\ EventLog(r.tokenEvents) /\ DayBooks(r) /\ GrantStep(r, e)
        /\ e.tokens >= 0 /\ e.cost >= 0
    BY <1>3, <1>5 DEF RolledSums, Granted, r
  <2>2. History'
    BY <1>1, <2>1, GrantKeepsHistory
  <2>3. EventLog(state.tokenEvents)'
    BY <1>1, <2>1, GrantKeepsEvents
  <2>4. DayBooks(state)'
    BY <1>1, <2>1, GrantKeepsBooks
  <2> QED BY <2>2, <2>3, <2>4 DEF Kept
<1>6. ASSUME NEW i \in 1 .. Len(grants), Released(i) PROVE Kept'
  <2>1. /\ grants[i].open /\ FirstSettlement(i, NoCharge) /\ now' = now
        /\ ReleaseEffect(state, state', Handle(i))
    BY <1>6 DEF Released, SettledOpen
  <2>2. state'.tokenEvents = WithoutEvent(state.tokenEvents, i)
    <3>1. Handle(i).id = i
      BY DEF Handle, Reservation
    <3> QED BY <2>1, <3>1 DEF ReleaseEffect
  <2>3. NoCharge \in Amount /\ NoCharge.tokens = 0 /\ NoCharge.cost = 0
    BY ChargeTypes
  <2>4. History'
    BY <1>1, <2>1, <2>3, SettleKeepsHistory
  <2>5. EventLog(state.tokenEvents)'
    BY <1>1, <2>1, <2>2, <2>3, ReleaseKeepsEvents
  <2>6. DayBooks(state)'
    BY <1>1, <1>6, ReleaseKeepsBooks
  <2> QED BY <2>4, <2>5, <2>6 DEF Kept
<1>7. ASSUME NEW i \in 1 .. Len(grants), NEW u \in Usages, Committed(i, u) PROVE Kept'
  <2> DEFINE c == UsageCharge(u)
  <2>1. /\ grants[i].open /\ FirstSettlement(i, c) /\ now' = now /\ state'.day = state.day
        /\ CommitEffect(state, state', Handle(i), u)
    BY <1>7 DEF Committed, SettledOpen
  <2>2. c \in Amount /\ c.tokens >= 0 /\ c.cost >= 0
    BY ChargeTypes
  <2>3. c.tokens = NonNegative(u.tokens) /\ c.cost = NonNegative(u.cost)
    BY DEF UsageCharge
  <2> HIDE DEF c
  <2>4. History'
    BY <1>1, <2>1, <2>2, SettleKeepsHistory
  <2>5. EventLog(state.tokenEvents)'
    BY <1>1, <2>1, <2>2, <2>3, CommitKeepsEvents
  <2>6. /\ state'.dailyTokens = state.dailyTokens - grants[i].estimate.tokens + c.tokens
        /\ state'.dailyCost = state.dailyCost - grants[i].estimate.cost + c.cost
    <3>1. /\ state'.dailyTokens = state.dailyTokens + c.tokens - grants[i].estimate.tokens
          /\ state'.dailyCost = state.dailyCost + c.cost - grants[i].estimate.cost
      <4>1. /\ Handle(i).tokens = grants[i].estimate.tokens
            /\ Handle(i).cost = grants[i].estimate.cost
        BY DEF Handle, Reservation
      <4> QED BY <2>1, <2>3, <4>1 DEF CommitEffect
    <3>2. /\ state.dailyTokens \in Int /\ state.dailyCost \in Int
          /\ c.tokens \in Int /\ c.cost \in Int
          /\ grants[i].estimate.tokens \in Int /\ grants[i].estimate.cost \in Int
      BY <1>1, <2>2, GrantFields DEF TypeOK, State, Amount
    <3> QED BY <3>1, <3>2
  <2>7. DayBooks(state)'
    BY <1>1, <2>1, <2>2, <2>6, SettleKeepsBooks
  <2> QED BY <2>4, <2>5, <2>7 DEF Kept
<1>8. ASSUME grants' = grants, now' >= now,
             EventLog(state'.tokenEvents), DayBooks(state')
      PROVE  Kept'
  <2>1. \A i \in 1 .. Len(grants) : grants[i].at \in Nat
    BY <1>1, GrantFields
  <2>2. History'
    BY <1>1, <1>4, <1>8, <2>1 DEF History
  <2>3. \A i \in 1 .. Len(grants) : Weightless(i) => Weightless(i)'
    BY <1>1, <1>4, <1>8, <2>1, WindowAssumption DEF Weightless
  <2>4. EventLog(state.tokenEvents)'
    BY <1>8, <2>3 DEF EventLog
  <2>5. DayBooks(state)'
    BY <1>8 DEF DayBooks
  <2> QED BY <2>2, <2>4, <2>5 DEF Kept
<1>9. ASSUME Rolled PROVE Kept'
  <2>1. grants' = grants /\ now' >= now /\ state' = r
    BY <1>1, <1>9 DEF Rolled, r
  <2>2. EventLog(state'.tokenEvents) /\ DayBooks(state')
    BY <1>3, <2>1 DEF RolledSums
  <2> QED BY <1>8, <2>1, <2>2
<1>10. ASSUME Waited PROVE Kept'
  BY <1>1, <1>8, <1>10 DEF Waited
<1>11. Kept'
  BY <1>5, <1>6, <1>7, <1>9, <1>10, StepKinds
<1> QED BY <1>2, <1>11 DEF SumInv, Kept

\* The sums are right in every reachable state.
LEMMA SpecSumInv == Spec => []SumInv
<1>1. Init => SumInv
  BY InitSumInv
<1>2. SumInv /\ [Next]_vars => SumInv'
  BY NextSumInv
<1> QED BY <1>1, <1>2, PTL DEF Spec

-----------------------------------------------------------------------------
(* The theorems about sums.                                                 *)

\* The window's events weigh what the recent grants are charged, in a rolled state.
LEMMA RolledWeight ==
    ASSUME SumInv
    PROVE  MinuteTokens(Roll(state, now, today)) = ChargedIn(grants, Recent, "tokens")
<1> DEFINE r == Roll(state, now, today)
<1>1. RolledSums(r)
  BY RollSums
<1> HIDE DEF r
<1>2. /\ TypeOK /\ Len(r.tokenEvents) \in Nat /\ EventLog(r.tokenEvents)
      /\ \A k \in 1 .. Len(r.tokenEvents) : r.tokenEvents[k].at > now - Window
  BY <1>1 DEF SumInv, IInv, RolledSums, State
<1>3. MinuteTokens(r) = ChargedIn(grants, Recent, "tokens")
  BY <1>2, EventsWeigh
<1> QED BY <1>3 DEF r

\* The sliding token window charges every recent grant exactly what it is known to
\* have used, for every window length and every history of settlements.
THEOREM WindowTokensAreExact == Spec => []WindowTokensExact
<1>1. SumInv => WindowTokensExact
  <2> SUFFICES ASSUME SumInv PROVE WindowTokensExact
    OBVIOUS
  <2>1. Charged(Recent, "tokens") = ChargedIn(grants, Recent, "tokens")
    BY Zenon DEF Charged, ChargedIn
  <2> QED BY <2>1, RolledWeight, Zenon DEF WindowTokensExact, Recent
<1> QED BY <1>1, SpecSumInv, PTL

\* The daily counters are exactly what the day's grants are charged, until one
\* reservation is settled on another day than the one it was made on.
THEOREM DailyCountersAreExact == Spec => []DailyExact
<1>1. SumInv => DailyExact
  <2> SUFFICES ASSUME SumInv, NoneLate(grants)
               PROVE  /\ state.dailyTokens = Charged(OfDay(grants, state.day), "tokens")
                      /\ state.dailyCost = Charged(OfDay(grants, state.day), "cost")
                      /\ state.dailyRequests = Cardinality(OfDay(grants, state.day))
    BY Zenon DEF DailyExact, NoneLate, OfDay
  <2>1. /\ state.dailyTokens = ChargedIn(grants, OfDay(grants, state.day), "tokens")
        /\ state.dailyCost = ChargedIn(grants, OfDay(grants, state.day), "cost")
    BY DEF SumInv, DayBooks
  <2>2. \A S, field : Charged(S, field) = ChargedIn(grants, S, field)
    BY Zenon DEF Charged, ChargedIn
  <2> DEFINE n == Len(grants)
             m == n - state.dailyRequests
  <2>3. /\ n \in Nat /\ state.dailyRequests \in Nat /\ state.day \in Nat
        /\ \A i \in 1 .. n : grants[i].day \in Nat
    BY GrantFields DEF SumInv, IInv, TypeOK, State
  <2>4. /\ m >= 0
        /\ \A i \in 1 .. m : grants[i].day < state.day
        /\ \A i \in m + 1 .. n : grants[i].day = state.day
    BY DEF SumInv, IInv, DayLog
  <2>5. OfDay(grants, state.day) = (m + 1) .. n
    <3> SUFFICES ASSUME NEW i \in 1 .. n PROVE grants[i].day = state.day <=> i >= m + 1
      BY <2>3, <2>4 DEF OfDay
    <3> QED BY <2>3, <2>4
  <2>6. Cardinality((m + 1) .. n) = state.dailyRequests
    <3>1. m + 1 \in Int /\ n \in Int /\ m + 1 <= n + 1
      BY <2>3, <2>4
    <3>2. Cardinality((m + 1) .. n) = IF m + 1 > n THEN 0 ELSE n - (m + 1) + 1
      BY <3>1, FS_Interval
    <3> QED BY <2>3, <2>4, <3>2
  <2> QED BY <2>1, <2>2, <2>5, <2>6
<1> QED BY <1>1, SpecSumInv, PTL

\* What a grant is admitted for fits in the limits that are configured.
LEMMA GrantedFits ==
    ASSUME SumInv, NEW e \in Amount, Granted(e)
    PROVE  /\ ModelLimits.tokensPerMinute # NoLimit =>
                  ChargedIn(grants', Recent \cup {Len(grants')}, "tokens")
                      <= ModelLimits.tokensPerMinute
           /\ NoneLate(grants') /\ ModelLimits.tokensPerDay # NoLimit =>
                  ChargedIn(grants', OfDay(grants', today), "tokens") <= ModelLimits.tokensPerDay
           /\ NoneLate(grants') /\ ModelLimits.dailyCost # NoLimit =>
                  ChargedIn(grants', OfDay(grants', today), "cost") <= ModelLimits.dailyCost
<1> DEFINE r == Roll(state, now, today)
           n == Len(grants)
<1>1. /\ RolledSums(r) /\ GrantStep(r, e)
      /\ MinuteTokens(r) = ChargedIn(grants, Recent, "tokens")
  BY RollSums, RolledWeight DEF Granted
<1> HIDE DEF r
<1>2. /\ TypeOK /\ grants \in Seq(Grant) /\ n \in Nat
      /\ r \in State /\ DayBooks(r) /\ r.day = today /\ Admits(r, ModelLimits, e)
  BY <1>1 DEF SumInv, IInv, TypeOK, RolledSums, GrantStep
<1>3. /\ grants' \in Seq(Grant)
      /\ Len(grants') = n + 1
      /\ \A i \in 1 .. n : grants'[i] = grants[i]
      /\ grants'[n + 1].charge = e
  BY <1>1, <1>2, GrantHistory
<1>4. ModelLimits.tokensPerMinute # NoLimit =>
          ChargedIn(grants', Recent \cup {Len(grants')}, "tokens")
              <= ModelLimits.tokensPerMinute
  <2>1. ChargedIn(grants', Recent \cup {Len(grants')}, "tokens")
            = ChargedIn(grants, Recent, "tokens") + grants'[Len(grants')].charge["tokens"]
    <3>1. Recent \in SUBSET (1 .. n) /\ "tokens" \in Fields
      BY DEF Recent, Fields
    <3> QED BY <1>2, <1>3, <3>1, ChargedInAdd
  <2>2. grants'[Len(grants')].charge["tokens"] = e.tokens
    BY <1>3, Zenon
  <2>3. ModelLimits.tokensPerMinute # NoLimit =>
            MinuteTokens(r) + e.tokens <= ModelLimits.tokensPerMinute
    BY <1>2 DEF Admits
  <2> QED BY <1>1, <2>1, <2>2, <2>3
<1>5. DayBooks(state)' /\ now' = now /\ today' = today /\ state'.day = today
      /\ state'.dailyTokens = r.dailyTokens + e.tokens
      /\ state'.dailyCost = r.dailyCost + e.cost
  <2>1. DayBooks(state)'
    BY <1>1, <1>2, GrantKeepsBooks
  <2>2. /\ state'.day = r.day
        /\ state'.dailyTokens = r.dailyTokens + e.tokens
        /\ state'.dailyCost = r.dailyCost + e.cost
    BY <1>1 DEF GrantStep, Reserve, Reservation
  <2> QED BY <1>1, <1>2, <2>1, <2>2 DEF GrantStep
<1>6. NoneLate(grants') =>
          /\ ChargedIn(grants', OfDay(grants', today), "tokens") = r.dailyTokens + e.tokens
          /\ ChargedIn(grants', OfDay(grants', today), "cost") = r.dailyCost + e.cost
  BY <1>5 DEF DayBooks
<1>7. /\ ModelLimits.tokensPerDay # NoLimit => r.dailyTokens + e.tokens <= ModelLimits.tokensPerDay
      /\ ModelLimits.dailyCost # NoLimit => r.dailyCost + e.cost <= ModelLimits.dailyCost
  BY <1>2 DEF Admits
<1> QED BY <1>4, <1>6, <1>7

\* Only a grant makes the history longer.
LEMMA LongerIsGranted ==
    ASSUME SumInv, [Next]_vars, Len(grants') > Len(grants)
    PROVE  \E e \in Amount : Granted(e)
<1>1. Len(grants) \in Nat
  BY DEF SumInv, IInv, TypeOK
<1>2. \A i \in 1 .. Len(grants) : Released(i) => Len(grants') = Len(grants)
  BY DEF Released, SettledOpen, FirstSettlement
<1>3. \A i \in 1 .. Len(grants), u \in Usages : Committed(i, u) => Len(grants') = Len(grants)
  BY DEF Committed, SettledOpen, FirstSettlement
<1>4. Rolled \/ Waited => Len(grants') = Len(grants)
  BY DEF Rolled, Waited
<1> QED BY <1>1, <1>2, <1>3, <1>4, StepKinds

\* The window of a grant that is just made: the recent grants and itself.
LEMMA RecentNext ==
    ASSUME SumInv, NEW e \in Amount, Granted(e)
    PROVE  { i \in 1 .. Len(grants') : grants'[i].at > now - Window }
               = Recent \cup {Len(grants')}
<1> DEFINE n == Len(grants)
<1>1. /\ n \in Nat /\ Len(grants') = n + 1
      /\ \A i \in 1 .. n : grants'[i] = grants[i]
      /\ grants'[n + 1].at = now
  <2>1. TypeOK /\ n \in Nat
    BY DEF SumInv, IInv, TypeOK
  <2>2. GrantStep(Roll(state, now, today), e)
    BY DEF Granted
  <2> QED BY <2>1, <2>2, GrantHistory
<1>2. now > now - Window
  BY WindowAssumption, QuotaAssumption DEF SumInv, IInv, TypeOK
<1> QED BY <1>1, <1>2 DEF Recent, Live

\* Every grant leaves the window's tokens and, unless one was settled late, the
\* day's tokens and cost within the limits, even after an overshoot.
THEOREM AdmissionKeepsLimits == Spec => AdmissionWithinLimits
<1>1. ASSUME SumInv, [Next]_vars
      PROVE  GrantsFit
  <2> SUFFICES ASSUME Len(grants') > Len(grants) PROVE GrantsFit
    BY DEF GrantsFit
  <2>1. PICK e \in Amount : Granted(e)
    BY <1>1, LongerIsGranted
  <2>2. { i \in 1 .. Len(grants') : grants'[i].at > now - Window } = Recent \cup {Len(grants')}
    BY <1>1, <2>1, RecentNext
  <2>3. /\ ModelLimits.tokensPerMinute # NoLimit =>
               ChargedIn(grants', Recent \cup {Len(grants')}, "tokens")
                   <= ModelLimits.tokensPerMinute
        /\ NoneLate(grants') /\ ModelLimits.tokensPerDay # NoLimit =>
               ChargedIn(grants', OfDay(grants', today), "tokens") <= ModelLimits.tokensPerDay
        /\ NoneLate(grants') /\ ModelLimits.dailyCost # NoLimit =>
               ChargedIn(grants', OfDay(grants', today), "cost") <= ModelLimits.dailyCost
    BY <1>1, <2>1, GrantedFits
  <2> QED BY <2>2, <2>3, Zenon DEF GrantsFit, ChargedIn, OfDay, NoneLate
<1> QED BY <1>1, SpecSumInv, PTL DEF Spec, AdmissionWithinLimits

-----------------------------------------------------------------------------
(* The token limit over every window.                                       *)

\* No grant has been charged more than it was estimated.
NoOvershoot(q) ==
    \A i \in 1 .. Len(q) : q[i].charge.tokens <= q[i].estimate.tokens

\* The grants up to grant j that were in the window when j was made.
WindowOf(q, j) == { i \in 1 .. j : q[i].at > q[j].at - Window }

\* TokensPerMinute of a history q.
WindowsFit(q) ==
    ModelLimits.tokensPerMinute # NoLimit /\ NoOvershoot(q) =>
        \A j \in 1 .. Len(q) :
            ChargedIn(q, WindowOf(q, j), "tokens") <= ModelLimits.tokensPerMinute

\* The windows of an extended history are those of the old one and a new one.
LEMMA GrantKeepsWindows ==
    ASSUME SumInv, WindowsFit(grants), NEW e \in Amount, Granted(e)
    PROVE  WindowsFit(grants')
<1> DEFINE n == Len(grants)
           limit == ModelLimits.tokensPerMinute
<1>1. TypeOK /\ grants \in Seq(Grant) /\ n \in Nat
  BY DEF SumInv, IInv, TypeOK
<1>2. /\ grants' \in Seq(Grant)
      /\ Len(grants') = n + 1
      /\ \A i \in 1 .. n : grants'[i] = grants[i]
      /\ grants'[n + 1].at = now
  <2>1. GrantStep(Roll(state, now, today), e)
    BY DEF Granted
  <2> QED BY <1>1, <2>1, GrantHistory
<1>3. SUFFICES ASSUME limit # NoLimit, NoOvershoot(grants'), NEW j \in 1 .. n + 1
               PROVE  ChargedIn(grants', WindowOf(grants', j), "tokens") <= limit
  BY <1>2 DEF WindowsFit
<1>4. CASE j \in 1 .. n
  <2>1. NoOvershoot(grants)
    BY <1>1, <1>2, <1>3 DEF NoOvershoot
  <2>2. ChargedIn(grants, WindowOf(grants, j), "tokens") <= limit
    BY <1>3, <1>4, <2>1 DEF WindowsFit
  <2>3. /\ \A i \in 1 .. j : grants'[i] = grants[i]
        /\ grants'[j] = grants[j]
    BY <1>1, <1>2, <1>4
  <2>4. WindowOf(grants', j) = WindowOf(grants, j)
    BY <2>3 DEF WindowOf
  <2> DEFINE S == WindowOf(grants, j)
  <2>5. S \in SUBSET (1 .. n) /\ S \in SUBSET (1 .. Len(grants')) /\ "tokens" \in Fields
    BY <1>1, <1>2, <1>4 DEF WindowOf, Fields
  <2>6. \A i \in S : grants'[i].charge["tokens"] = grants[i].charge["tokens"]
    BY <2>3 DEF WindowOf
  <2> HIDE DEF S
  <2>7. ChargedIn(grants', S, "tokens") = ChargedIn(grants, S, "tokens")
    BY <1>1, <1>2, <2>5, <2>6, ChargedInEqual
  <2> QED BY <2>2, <2>4, <2>7 DEF S
<1>5. CASE j = n + 1
  <2>1. WindowOf(grants', j) = Recent \cup {Len(grants')}
    BY <1>2, <1>5, RecentNext DEF WindowOf
  <2> QED BY <1>3, <2>1, GrantedFits
<1> QED BY <1>1, <1>4, <1>5

\* A settlement within the estimate lowers the charge of one grant.
LEMMA SettleKeepsWindows ==
    ASSUME TypeOK, History, WindowsFit(grants),
           NEW i \in 1 .. Len(grants), NEW c \in Amount, SettledOpen(i, c)
    PROVE  WindowsFit(grants')
<1> DEFINE n == Len(grants)
           limit == ModelLimits.tokensPerMinute
<1>1. /\ grants \in Seq(Grant) /\ n \in Nat
      /\ grants[i].open /\ Settle(i, c) /\ FirstSettlement(i, c)
  BY DEF TypeOK, SettledOpen
<1>2. /\ grants' \in Seq(Grant)
      /\ Len(grants') = n
      /\ \A k \in 1 .. n : /\ grants'[k].at = grants[k].at
                           /\ grants'[k].estimate = grants[k].estimate
      /\ \A k \in 1 .. n : k # i => grants'[k] = grants[k]
  BY <1>1, SettleHistory DEF FirstSettlement
<1>3. grants[i].charge = grants[i].estimate
  BY <1>1 DEF History
<1>4. SUFFICES ASSUME limit # NoLimit, NoOvershoot(grants'), NEW j \in 1 .. n
               PROVE  ChargedIn(grants', WindowOf(grants', j), "tokens") <= limit
  BY <1>2 DEF WindowsFit
<1>5. \A k \in 1 .. n : grants'[k].charge.tokens <= grants[k].charge.tokens
  <2> TAKE k \in 1 .. n
  <2>1. CASE k = i
    <3>1. grants'[i].charge.tokens <= grants'[i].estimate.tokens
      BY <1>2, <1>4 DEF NoOvershoot
    <3>2. grants'[i].estimate.tokens = grants[i].charge.tokens
      BY <1>2, <1>3, Zenon
    <3> QED BY <2>1, <3>1, <3>2, Zenon
  <2>2. CASE k # i
    BY <1>2, <2>2, GrantFields
  <2> QED BY <2>1, <2>2
<1>6. NoOvershoot(grants)
  <2> SUFFICES ASSUME NEW k \in 1 .. n PROVE grants[k].charge.tokens <= grants[k].estimate.tokens
    BY DEF NoOvershoot
  <2>1. CASE k = i
    BY <1>3, <2>1, GrantFields
  <2>2. CASE k # i
    BY <1>2, <1>4, <2>2 DEF NoOvershoot
  <2> QED BY <2>1, <2>2
<1> DEFINE S == WindowOf(grants, j)
<1>7. ChargedIn(grants, S, "tokens") <= limit
  BY <1>4, <1>6 DEF WindowsFit
<1>8. WindowOf(grants', j) = S
  BY <1>1, <1>2 DEF WindowOf
<1>9. S \in SUBSET (1 .. n) /\ S \in SUBSET (1 .. Len(grants')) /\ "tokens" \in Fields
  BY <1>1, <1>2 DEF WindowOf, Fields
<1> HIDE DEF S
<1>10. \A k \in S : grants'[k].charge["tokens"] <= grants[k].charge["tokens"]
  BY <1>5, <1>9
<1>11. /\ ChargedIn(grants', S, "tokens") <= ChargedIn(grants, S, "tokens")
       /\ ChargedIn(grants', S, "tokens") \in Int
       /\ ChargedIn(grants, S, "tokens") \in Int
  BY <1>1, <1>2, <1>9, <1>10, ChargedInMonotone, ChargedInInt
<1>12. limit \in Int
  BY <1>4, QuotaAssumption DEF Limits, Limit
<1> HIDE DEF limit
<1> QED BY <1>7, <1>8, <1>11, <1>12

\* As long as no usage exceeds its estimate, tokens_per_minute holds over every
\* window that ends with a grant: the sliding window misses nothing.
THEOREM MinuteTokenLimitHolds == Spec => []TokensPerMinute
<1>1. Init => WindowsFit(grants)
  BY DEF Init, WindowsFit
<1>2. SumInv /\ WindowsFit(grants) /\ [Next]_vars => WindowsFit(grants)'
  <2> SUFFICES ASSUME SumInv, WindowsFit(grants), [Next]_vars PROVE WindowsFit(grants')
    BY DEF WindowsFit, NoOvershoot, ChargedIn, WindowOf
  <2>1. TypeOK /\ History
    BY DEF SumInv, IInv
  <2>2. ASSUME NEW e \in Amount, Granted(e) PROVE WindowsFit(grants')
    BY <2>2, GrantKeepsWindows
  <2>3. ASSUME NEW i \in 1 .. Len(grants), Released(i) PROVE WindowsFit(grants')
    BY <2>1, <2>3, ChargeTypes, SettleKeepsWindows DEF Released
  <2>4. ASSUME NEW i \in 1 .. Len(grants), NEW u \in Usages, Committed(i, u)
        PROVE  WindowsFit(grants')
    BY <2>1, <2>4, ChargeTypes, SettleKeepsWindows DEF Committed
  <2>5. ASSUME Rolled \/ Waited PROVE WindowsFit(grants')
    BY <2>5 DEF Rolled, Waited
  <2> QED BY <2>2, <2>3, <2>4, <2>5, StepKinds
<1>3. WindowsFit(grants) => TokensPerMinute
  <2>1. \A S, field : Charged(S, field) = ChargedIn(grants, S, field)
    BY Zenon DEF Charged, ChargedIn
  <2> QED BY <2>1, Zenon DEF WindowsFit, TokensPerMinute, NoOvershoot, WindowOf
<1> QED BY <1>1, <1>2, <1>3, SpecSumInv, PTL DEF Spec
=============================================================================
