---------------------------- MODULE RouterProofs ----------------------------
(***************************************************************************)
(* What any number of concurrent jobs keep in common, proved of Router for  *)
(* all jobs, models, limits, candidates, errors and usages.                 *)
(***************************************************************************)
EXTENDS Router, QuotaOpsProofs, TLAPS

-----------------------------------------------------------------------------
(* The quota of one model.                                                  *)

ReservationId == Jobs \X Nat

\* A quota state of Router is a tracker state of day 0.
LEMMA QuotaStateIsTracker ==
    ASSUME NEW s
    PROVE  s \in QuotaState <=> s \in TrackerState(ReservationId) /\ s.day = 0
BY DEF QuotaState, QuotaReservation, TrackerState, ReservationId

\* What the operations do to the books of a model (to its counters and its open
\* reservations): a roll nothing, the date never changes.
SameBooks(s, n) ==
    /\ n.dailyRequests = s.dailyRequests
    /\ n.dailyTokens = s.dailyTokens
    /\ n.dailyCost = s.dailyCost
    /\ n.reservations = s.reservations

OpenedBooks(s, n, h) ==
    /\ n.dailyRequests = s.dailyRequests + 1
    /\ n.dailyTokens = s.dailyTokens + h.tokens
    /\ n.dailyCost = s.dailyCost + h.cost
    /\ n.reservations = s.reservations \cup {h}

SettledBooks(s, n, h) ==
    /\ n.dailyRequests = s.dailyRequests
    /\ n.reservations = s.reservations \ {h}

ReleasedBooks(s, n, h) ==
    /\ SettledBooks(s, n, h)
    /\ h \in s.reservations =>
           /\ n.dailyTokens = NonNegative(s.dailyTokens - h.tokens)
           /\ n.dailyCost = NonNegative(s.dailyCost - h.cost)

CommittedBooks(s, n, h, u) ==
    /\ SettledBooks(s, n, h)
    /\ h \in s.reservations =>
           /\ n.dailyTokens = s.dailyTokens + NonNegative(u.tokens) - h.tokens
           /\ n.dailyCost = s.dailyCost + NonNegative(u.cost) - h.cost

\* Rolling keeps the type and the books.
LEMMA RollKeeps ==
    ASSUME NEW s \in QuotaState, NEW t \in Nat
    PROVE  Roll(s, t, 0) \in QuotaState /\ SameBooks(s, Roll(s, t, 0))
<1>1. s \in TrackerState(ReservationId) /\ s.day = 0
  BY QuotaStateIsTracker
<1> DEFINE n == Roll(s, t, 0)
<1>2. n \in TrackerState(ReservationId) /\ RollEffect(s, n, t, 0)
  BY <1>1, RollProperties
<1> HIDE DEF n
<1>3. n.day = 0 /\ SameBooks(s, n)
  BY <1>1, <1>2 DEF RollEffect, SameBooks
<1>4. n \in QuotaState
  BY <1>2, <1>3, QuotaStateIsTracker
<1> QED BY <1>3, <1>4 DEF n

\* So does reserving, which opens the books of one call.
LEMMA ReserveKeeps ==
    ASSUME NEW s \in QuotaState, NEW t \in Nat, NEW id \in ReservationId, NEW e \in Amount
    PROVE  LET n == Reserve(s, Reservation(id, e), t)
           IN  n \in QuotaState /\ OpenedBooks(s, n, Reservation(id, e))
<1>1. s \in TrackerState(ReservationId) /\ s.day = 0
  BY QuotaStateIsTracker
<1> DEFINE n == Reserve(s, Reservation(id, e), t)
<1>2. n \in TrackerState(ReservationId) /\ ReserveEffect(s, n, id, e, t)
  BY <1>1, ReserveType
<1> HIDE DEF n
<1>3. n.day = 0 /\ OpenedBooks(s, n, Reservation(id, e))
  <2>1. Reservation(id, e).tokens = e.tokens /\ Reservation(id, e).cost = e.cost
    BY DEF Reservation
  <2> QED BY <1>1, <1>2, <2>1 DEF ReserveEffect, OpenedBooks
<1>4. n \in QuotaState
  BY <1>2, <1>3, QuotaStateIsTracker
<1> QED BY <1>3, <1>4 DEF n

\* And settling, which closes them.
LEMMA SettlingKeeps ==
    ASSUME NEW s \in QuotaState, NEW h \in QuotaReservation
    PROVE  /\ ReleaseEstimate(s, h) \in QuotaState
           /\ ReleasedBooks(s, ReleaseEstimate(s, h), h)
           /\ \A u \in Amount : /\ CommitUsage(s, h, u) \in QuotaState
                                /\ CommittedBooks(s, CommitUsage(s, h, u), h, u)
<1>1. s \in TrackerState(ReservationId) /\ s.day = 0
  BY QuotaStateIsTracker
<1>2. h \in [id : ReservationId, tokens : Int, cost : Int]
  BY DEF QuotaReservation, ReservationId
<1>3. ReleaseEstimate(s, h) \in QuotaState /\ ReleasedBooks(s, ReleaseEstimate(s, h), h)
  <2> DEFINE n == ReleaseEstimate(s, h)
  <2>1. /\ n \in TrackerState(ReservationId) /\ SettleEffect(s, n, h)
        /\ h \in s.reservations => ReleaseEffect(s, n, h)
    BY <1>1, <1>2, ReleaseType
  <2> HIDE DEF n
  <2>2. n.day = 0 /\ ReleasedBooks(s, n, h)
    BY <1>1, <2>1 DEF SettleEffect, ReleaseEffect, ReleasedBooks, SettledBooks
  <2>3. n \in QuotaState
    BY <2>1, <2>2, QuotaStateIsTracker
  <2> QED BY <2>2, <2>3 DEF n
<1>4. ASSUME NEW u \in Amount
      PROVE  /\ CommitUsage(s, h, u) \in QuotaState
             /\ CommittedBooks(s, CommitUsage(s, h, u), h, u)
  <2> DEFINE n == CommitUsage(s, h, u)
  <2>1. /\ n \in TrackerState(ReservationId) /\ SettleEffect(s, n, h)
        /\ h \in s.reservations => CommitEffect(s, n, h, u)
    BY <1>1, <1>2, CommitType
  <2> HIDE DEF n
  <2>2. n.day = 0 /\ CommittedBooks(s, n, h, u)
    BY <1>1, <2>1 DEF SettleEffect, CommitEffect, CommittedBooks, SettledBooks
  <2>3. n \in QuotaState
    BY <2>1, <2>2, QuotaStateIsTracker
  <2> QED BY <2>2, <2>3 DEF n
<1> QED BY <1>3, <1>4

\* Estimates are amounts, and never negative.
LEMMA EstimateForType ==
    ASSUME NEW j \in Jobs, NEW m \in Models
    PROVE  /\ EstimateFor(j, m) \in Amount
           /\ EstimateFor(j, m).tokens >= 0
           /\ EstimateFor(j, m).cost >= 0
<1> DEFINE input  == NonNegative(Request[j].input)
           output == NonNegative(Request[j].output)
<1>1. input \in Nat /\ output \in Nat /\ Price[m].input \in Nat /\ Price[m].output \in Nat
  BY RouterAssumption DEF NonNegative
<1>2. EstimateFor(j, m) =
          [tokens |-> input + output,
           cost |-> input * Price[m].input + output * Price[m].output]
  BY DEF EstimateFor, Estimate, EstimateCost
<1> HIDE DEF input, output
<1>3. \A a, b \in Nat : a * b \in Nat
  OBVIOUS
<1>4. input * Price[m].input \in Nat /\ output * Price[m].output \in Nat
  BY <1>1, <1>3
<1>5. \A a, b \in Nat : a \in Int /\ a >= 0 /\ a + b \in Nat
  OBVIOUS
<1>6. /\ input + output \in Nat
      /\ input * Price[m].input + output * Price[m].output \in Nat
  BY <1>1, <1>4, <1>5
<1> QED BY <1>2, <1>5, <1>6 DEF Amount

-----------------------------------------------------------------------------
(* The search for the next model.                                           *)

\* The search of job j from candidate `from' ends at candidate `next' (behind the
\* last one: in failure), starting from the quotas q, the circuits c and the job
\* record r.
SearchEffect(j, from, next, q, c, r) ==
    /\ next \in Nat /\ from <= next /\ next <= Len(Candidates[j]) + 1
    /\ next <= Len(Candidates[j]) =>
           Tried(j, next, c, r) /\ Admitted(j, Candidates[j][next], q)
    /\ \A i \in from .. next - 1 :
           ~ (Tried(j, i, c, r) /\ Admitted(j, Candidates[j][i], q))
    /\ quota' = [m \in Models |-> quota'[m]]
    /\ \A m \in Models :
           IF next <= Len(Candidates[j]) /\ m = Candidates[j][next]
           THEN quota'[m] = Reserve(Roll(q[m], now, 0),
                                    Reservation(<< j, Len(r.attempts) + 1 >>, EstimateFor(j, m)),
                                    now)
           ELSE quota'[m] = q[m] \/ quota'[m] = Roll(q[m], now, 0)
    /\ \A i \in from .. next - 1 :
           Tried(j, i, c, r) => quota'[Candidates[j][i]] = Roll(q[Candidates[j][i]], now, 0)
    /\ circuit' = c
    /\ job' = [job EXCEPT ![j] =
                   IF next <= Len(Candidates[j])
                   THEN [r EXCEPT !.phase = "calling", !.position = next, !.retry = 0]
                   ELSE [r EXCEPT !.phase = "failed"]]

\* The lists of candidates.
LEMMA CandidateFacts ==
    ASSUME NEW j \in Jobs
    PROVE  /\ Candidates[j] \in Seq(Models)
           /\ Len(Candidates[j]) \in Nat
           /\ \A i \in 1 .. Len(Candidates[j]) : Candidates[j][i] \in Models
           /\ \A i, k \in 1 .. Len(Candidates[j]) : Candidates[j][i] = Candidates[j][k] => i = k
<1>1. Candidates[j] \in Seq(Models)
  BY RouterAssumption
<1>2. \A i, k \in 1 .. Len(Candidates[j]) : Candidates[j][i] = Candidates[j][k] => i = k
  BY RouterAssumption
<1> QED BY <1>1, <1>2, ElementOfSeq

\* A search stops at the first candidate it may call and rolls what it tries.
LEMMA SearchEnds ==
    ASSUME NEW j \in Jobs, NEW from \in Nat, from >= 1, from <= Len(Candidates[j]) + 1,
           NEW q, NEW c, NEW r, Search(j, from, q, c, r)
    PROVE  \E next : SearchEffect(j, from, next, q, c, r)
<1> DEFINE n == Len(Candidates[j])
           next == NextCall(j, from, q, c, r)
           Found == { i \in from .. n : Tried(j, i, c, r) /\ Admitted(j, Candidates[j][i], q) }
           id == << j, Len(r.attempts) + 1 >>
           tried == { Candidates[j][i] : i \in { k \in from .. n :
                                                   k <= next /\ Tried(j, k, c, r) } }
<1>0. /\ n \in Nat /\ from \in 1 .. n + 1
      /\ \A i \in 1 .. n : Candidates[j][i] \in Models
      /\ \A i, k \in 1 .. n : Candidates[j][i] = Candidates[j][k] => i = k
  BY CandidateFacts
<1>1. /\ next \in Found \cup {n + 1}
      /\ \A y \in Found \cup {n + 1} : next <= y
  <2>1. Found \cup {n + 1} \in SUBSET Nat /\ Found \cup {n + 1} # {}
    BY <1>0
  <2>2. next = Min(Found \cup {n + 1})
    BY DEF NextCall
  <2> HIDE DEF Found, next
  <2> QED BY <2>1, <2>2, MinIsLeast
<1>2. /\ quota' = [m \in Models |->
            IF m \notin tried THEN q[m] ELSE
            IF next <= n /\ m = Candidates[j][next]
            THEN Reserve(Roll(q[m], now, 0), Reservation(id, EstimateFor(j, m)), now)
            ELSE Roll(q[m], now, 0)]
      /\ circuit' = c
      /\ job' = [job EXCEPT ![j] =
                     IF next <= n
                     THEN [r EXCEPT !.phase = "calling", !.position = next, !.retry = 0]
                     ELSE [r EXCEPT !.phase = "failed"]]
  BY DEF Search, Searched
<1> HIDE DEF next
<1>3. /\ next \in Nat /\ from <= next /\ next <= n + 1
      /\ next <= n => Tried(j, next, c, r) /\ Admitted(j, Candidates[j][next], q)
      /\ \A i \in from .. next - 1 :
             ~ (Tried(j, i, c, r) /\ Admitted(j, Candidates[j][i], q))
  BY <1>0, <1>1
<1>4. \A i \in from .. n : i <= next /\ Tried(j, i, c, r) => Candidates[j][i] \in tried
  OBVIOUS
<1>5. next <= n => Candidates[j][next] \in tried
  BY <1>0, <1>3, <1>4
<1>6. \A i \in from .. next - 1 :
          /\ Tried(j, i, c, r) => Candidates[j][i] \in tried
          /\ Candidates[j][i] \in Models
          /\ next <= n => Candidates[j][i] # Candidates[j][next]
  BY <1>0, <1>3, <1>4
<1> HIDE DEF tried, n, id
<1>7. \A m \in Models :
          quota'[m] = IF m \notin tried THEN q[m] ELSE
                      IF next <= n /\ m = Candidates[j][next]
                      THEN Reserve(Roll(q[m], now, 0), Reservation(id, EstimateFor(j, m)), now)
                      ELSE Roll(q[m], now, 0)
  BY <1>2
<1>8. quota' = [m \in Models |-> quota'[m]]
  BY <1>2
<1>9. SearchEffect(j, from, next, q, c, r)
  BY <1>2, <1>3, <1>5, <1>6, <1>7, <1>8 DEF SearchEffect, n, id
<1> QED BY <1>9

-----------------------------------------------------------------------------
(* Types, and what a job's record says of the calls it has made.            *)

RefusedBy(a) ==
    { ProviderOf[a[k].model] : k \in { i \in 1 .. Len(a) : a[i].outcome \in ProviderWideErrors } }

\* The attempts of record r of job j are on candidates up to the one it is at, and
\* the excluded providers are those that refused one.
BaseLog(j, r) ==
    /\ r \in Job
    /\ r.position \in 0 .. Len(Candidates[j])
    /\ r.excluded = RefusedBy(r.attempts)
    /\ \A k \in 1 .. Len(r.attempts) :
           \E p \in 1 .. r.position : r.attempts[k].model = Candidates[j][p]

\* While a call is in flight, its number is one that the model's retries leave and
\* no attempt has, one more than that of a transient failure before it.
CallingLog(r, m) ==
    LET n == Len(r.attempts)
    IN  /\ r.retry <= MaxRetries[m]
        /\ \A k \in 1 .. n : r.attempts[k].model = m => r.attempts[k].number <= r.retry
        /\ IF n > 0 /\ r.attempts[n].model = m
           THEN r.attempts[n].outcome \in TransientErrors /\ r.attempts[n].number = r.retry
           ELSE r.retry = 0

\* While the job sleeps, its last attempt failed that way and may be repeated.
SleepingLog(r, m) ==
    LET n == Len(r.attempts)
    IN  /\ n > 0
        /\ r.attempts[n].model = m
        /\ r.attempts[n].outcome \in TransientErrors
        /\ r.attempts[n].number = r.retry + 1
        /\ r.retry < MaxRetries[m]
        /\ \A k \in 1 .. n : r.attempts[k].model = m => r.attempts[k].number <= r.retry + 1

Log(j, r) ==
    /\ BaseLog(j, r)
    /\ r.phase = "idle" => r = NewJob
    /\ r.phase \in Running =>
           /\ r.position >= 1
           /\ ProviderOf[Candidates[j][r.position]] \notin r.excluded
    /\ r.phase = "calling" => CallingLog(r, Candidates[j][r.position])
    /\ r.phase = "sleeping" => SleepingLog(r, Candidates[j][r.position])

\* The inductive invariant of the jobs.
JobInv ==
    /\ TypeOK
    /\ \A j \in Jobs : Log(j, job[j])

\* The parts of JobInv, ready to use.
LEMMA JobFacts ==
    ASSUME JobInv
    PROVE  /\ now \in Nat
           /\ quota \in [Models -> QuotaState]
           /\ circuit \in [Providers -> Circuit]
           /\ ledger \in Seq(UsageRecord)
           /\ job \in [Jobs -> Job]
BY RouterAssumption DEF JobInv, TypeOK

\* The fields of a job record.
LEMMA RecordFields ==
    ASSUME NEW r \in Job
    PROVE  /\ r.phase \in {"idle"} \cup Running \cup Ended
           /\ r.position \in Nat /\ r.retry \in Nat
           /\ r.excluded \in SUBSET Providers
           /\ r.attempts \in Seq(AttemptRecord) /\ Len(r.attempts) \in Nat
           /\ \A k \in 1 .. Len(r.attempts) :
                  /\ r.attempts[k].model \in Models
                  /\ r.attempts[k].number \in Nat
<1>1. r.attempts \in Seq(AttemptRecord)
  BY DEF Job
<1>2. \A k \in 1 .. Len(r.attempts) : r.attempts[k] \in AttemptRecord
  BY <1>1, ElementOfSeq
<1> QED BY <1>1, <1>2 DEF Job, AttemptRecord

\* A running job is at one of its candidates.
LEMMA RunningAt ==
    ASSUME JobInv, NEW j \in Jobs, job[j].phase \in Running
    PROVE  /\ job[j] \in Job /\ Log(j, job[j])
           /\ job[j].position \in 1 .. Len(Candidates[j])
           /\ Model(j) = Candidates[j][job[j].position]
           /\ Model(j) \in Models
<1>1. job[j] \in Job /\ Log(j, job[j]) /\ job[j].position \in 1 .. Len(Candidates[j])
  BY DEF JobInv, TypeOK
<1> QED BY <1>1, CandidateFacts DEF Model

\* What a held reservation is made of.
LEMMA HeldType ==
    ASSUME JobInv, NEW j \in Jobs, NEW m \in Models
    PROVE  /\ ReservationFor(j, m) \in QuotaReservation
           /\ ReservationFor(j, m).id = << j, Len(job[j].attempts) + 1 >>
           /\ ReservationFor(j, m).tokens = EstimateFor(j, m).tokens
           /\ ReservationFor(j, m).cost = EstimateFor(j, m).cost
<1>1. job[j] \in Job
  BY DEF JobInv, TypeOK
<1>2. << j, Len(job[j].attempts) + 1 >> \in Jobs \X Nat
  BY <1>1, RecordFields
<1>3. EstimateFor(j, m) \in Amount
  BY EstimateForType
<1> QED BY <1>2, <1>3 DEF ReservationFor, Reservation, QuotaReservation, Amount

\* One more attempt on the model the job is at, which excludes its provider when it
\* refuses the job.
LEMMA AttemptLogged ==
    ASSUME NEW j \in Jobs, NEW r, BaseLog(j, r), r.position >= 1,
           NEW x \in AttemptRecord, x.model = Candidates[j][r.position],
           NEW s \in Job, s.position = r.position, s.attempts = Append(r.attempts, x),
           s.excluded = IF x.outcome \in ProviderWideErrors
                        THEN r.excluded \cup {ProviderOf[x.model]} ELSE r.excluded
    PROVE  /\ BaseLog(j, s)
           /\ Len(s.attempts) = Len(r.attempts) + 1
           /\ \A k \in 1 .. Len(r.attempts) : s.attempts[k] = r.attempts[k]
           /\ s.attempts[Len(r.attempts) + 1] = x
<1> DEFINE a == r.attempts
           b == s.attempts
           n == Len(a)
           p == ProviderOf[x.model]
<1>1. /\ r \in Job /\ r.position \in 0 .. Len(Candidates[j])
      /\ r.excluded = RefusedBy(a)
      /\ \A k \in 1 .. n : \E i \in 1 .. r.position : a[k].model = Candidates[j][i]
  BY DEF BaseLog
<1>2. a \in Seq(AttemptRecord) /\ n \in Nat /\ r.position \in Nat
  BY <1>1, RecordFields
<1>3. Len(b) = n + 1 /\ (\A k \in 1 .. n : b[k] = a[k]) /\ b[n + 1] = x
  BY <1>2, AppendProperties
<1> HIDE DEF a, b, n, p
<1>4. s.excluded = RefusedBy(b)
  <2> DEFINE K == { i \in 1 .. n : a[i].outcome \in ProviderWideErrors }
             L == { i \in 1 .. n + 1 : b[i].outcome \in ProviderWideErrors }
  <2>1. /\ RefusedBy(a) = { ProviderOf[a[k].model] : k \in K }
        /\ RefusedBy(b) = { ProviderOf[b[k].model] : k \in L }
    BY <1>3 DEF RefusedBy, n
  <2>2. /\ \A k \in K : a[k] = b[k]
        /\ ProviderOf[b[n + 1].model] = p
        /\ L = IF x.outcome \in ProviderWideErrors THEN K \cup {n + 1} ELSE K
    BY <1>2, <1>3 DEF p, n
  <2> HIDE DEF K, L
  <2>3. { ProviderOf[a[k].model] : k \in K } = { ProviderOf[b[k].model] : k \in K }
    BY <2>2
  <2>4. CASE x.outcome \in ProviderWideErrors
    <3>1. { ProviderOf[b[k].model] : k \in K \cup {n + 1} }
              = { ProviderOf[b[k].model] : k \in K } \cup {p}
      BY <2>2
    <3> QED BY <1>1, <2>1, <2>2, <2>3, <2>4, <3>1 DEF p
  <2>5. CASE x.outcome \notin ProviderWideErrors
    BY <1>1, <2>1, <2>2, <2>3, <2>5
  <2> QED BY <2>4, <2>5
<1>5. \A k \in 1 .. n + 1 : \E i \in 1 .. s.position : b[k].model = Candidates[j][i]
  <2> TAKE k \in 1 .. n + 1
  <2>1. CASE k = n + 1
    <3>1. r.position \in 1 .. s.position /\ b[k].model = Candidates[j][r.position]
      BY <1>2, <1>3, <2>1
    <3> QED BY <3>1
  <2>2. CASE k \in 1 .. n
    BY <1>1, <1>3, <2>2
  <2> QED BY <1>2, <2>1, <2>2 DEF n, a
<1>6. BaseLog(j, s)
  BY <1>1, <1>3, <1>4, <1>5 DEF BaseLog, b
<1> QED BY <1>3, <1>6 DEF n, a, b

\* What an answer is listed as.
LEMMA AttemptType ==
    ASSUME JobInv, NEW j \in Jobs, job[j].phase = "calling",
           NEW outcome \in ErrorTypes \cup {"success"}
    PROVE  /\ Attempt(j, outcome) \in AttemptRecord
           /\ Attempt(j, outcome).model = Model(j)
           /\ Attempt(j, outcome).number = job[j].retry + 1
           /\ Attempt(j, outcome).outcome = outcome
<1>1. job[j] \in Job /\ Model(j) \in Models
  BY RunningAt DEF Running
<1>2. job[j].retry + 1 \in Nat
  BY <1>1, RecordFields
<1> QED BY <1>1, <1>2 DEF Attempt, AttemptRecord

\* What a failed attempt makes of the record: one more attempt, and the provider is
\* excluded if it refused.
LEMMA AfterAttemptLog ==
    ASSUME JobInv, NEW j \in Jobs, job[j].phase = "calling", NEW error \in Errors
    PROVE  LET r == AfterAttempt(j, error)
               n == Len(job[j].attempts)
           IN  /\ BaseLog(j, r)
               /\ r.phase = "calling" /\ r.position = job[j].position /\ r.retry = job[j].retry
               /\ Len(r.attempts) = n + 1
               /\ \A k \in 1 .. n : r.attempts[k] = job[j].attempts[k]
               /\ r.attempts[n + 1].model = Model(j)
               /\ r.attempts[n + 1].number = job[j].retry + 1
               /\ r.attempts[n + 1].outcome = error
               /\ error \notin ProviderWideErrors => r.excluded = job[j].excluded
               /\ r.attempts = Append(job[j].attempts, Attempt(j, error))
<1> DEFINE r == AfterAttempt(j, error)
           new == Attempt(j, error)
           p == ProviderOf[Model(j)]
           x == IF error \in ProviderWideErrors THEN job[j].excluded \cup {p}
                                                ELSE job[j].excluded
           s == Append(job[j].attempts, new)
<1>1. /\ job[j] \in Job /\ Log(j, job[j]) /\ job[j].position \in 1 .. Len(Candidates[j])
      /\ Model(j) = Candidates[j][job[j].position] /\ Model(j) \in Models
      /\ p \in Providers
  BY RunningAt, RouterAssumption DEF Running
<1>2. /\ job[j].attempts \in Seq(AttemptRecord) /\ job[j].excluded \in SUBSET Providers
  BY <1>1, RecordFields
<1>3. /\ new \in AttemptRecord
      /\ new.model = Model(j) /\ new.number = job[j].retry + 1 /\ new.outcome = error
  BY RouterAssumption, AttemptType
<1>4. s \in Seq(AttemptRecord) /\ x \in SUBSET Providers
  BY <1>1, <1>2, <1>3, AppendProperties
<1>5. r = [job[j] EXCEPT !.attempts = s, !.excluded = x]
  BY DEF AfterAttempt
<1>6. /\ r.phase = "calling" /\ r.position = job[j].position /\ r.retry = job[j].retry
      /\ r.attempts = s /\ r.excluded = x /\ r \in Job
  <2> HIDE DEF x, s, r
  <2> QED BY <1>1, <1>4, <1>5 DEF Job
<1> HIDE DEF r, new
<1>7. /\ BaseLog(j, r)
      /\ Len(r.attempts) = Len(job[j].attempts) + 1
      /\ \A k \in 1 .. Len(job[j].attempts) : r.attempts[k] = job[j].attempts[k]
      /\ r.attempts[Len(job[j].attempts) + 1] = new
  <2>1. BaseLog(j, job[j]) /\ job[j].position >= 1
    BY <1>1 DEF Log
  <2>2. r.excluded = IF new.outcome \in ProviderWideErrors
                     THEN job[j].excluded \cup {ProviderOf[new.model]} ELSE job[j].excluded
    BY <1>3, <1>6
  <2>3. /\ new.model = Candidates[j][job[j].position]
        /\ r.attempts = Append(job[j].attempts, new) /\ r.position = job[j].position
    BY <1>1, <1>3, <1>6
  <2> HIDE DEF x, s, p
  <2> QED BY <1>3, <1>6, <2>1, <2>2, <2>3, AttemptLogged
<1>8. error \notin ProviderWideErrors => r.excluded = job[j].excluded
  BY <1>6
<1> QED BY <1>3, <1>6, <1>7, <1>8 DEF r, new

\* A search leaves a record with a new call and no attempt on its model, or one
\* that has failed.
LEMMA SearchLog ==
    ASSUME NEW j \in Jobs, NEW next, NEW q, NEW c, NEW r,
           BaseLog(j, r), job \in [Jobs -> Job],
           SearchEffect(j, r.position + 1, next, q, c, r)
    PROVE  Log(j, job'[j]) /\ job'[j] \in Job
<1>0. job'[j] = IF next <= Len(Candidates[j])
                THEN [r EXCEPT !.phase = "calling", !.position = next, !.retry = 0]
                ELSE [r EXCEPT !.phase = "failed"]
  BY DEF SearchEffect
<1>1. /\ r \in Job /\ r.position \in 0 .. Len(Candidates[j]) /\ r.position \in Nat
      /\ r.excluded = RefusedBy(r.attempts)
      /\ \A k \in 1 .. Len(r.attempts) :
             \E p \in 1 .. r.position : r.attempts[k].model = Candidates[j][p]
      /\ Len(r.attempts) \in Nat
      /\ \A k \in 1 .. Len(r.attempts) : r.attempts[k].number \in Nat
  BY RecordFields DEF BaseLog
<1>2. /\ next \in Nat /\ r.position + 1 <= next /\ next <= Len(Candidates[j]) + 1
      /\ next <= Len(Candidates[j]) => Tried(j, next, c, r)
  BY DEF SearchEffect
<1>3. /\ Len(Candidates[j]) \in Nat
      /\ \A i \in 1 .. Len(Candidates[j]) : Candidates[j][i] \in Models
      /\ \A i, k \in 1 .. Len(Candidates[j]) : Candidates[j][i] = Candidates[j][k] => i = k
  BY CandidateFacts
<1>4. CASE next <= Len(Candidates[j])
  <2> DEFINE s == [r EXCEPT !.phase = "calling", !.position = next, !.retry = 0]
             m == Candidates[j][next]
  <2>1. /\ s \in Job /\ s.phase = "calling" /\ s.position = next /\ s.retry = 0
        /\ s.excluded = r.excluded /\ s.attempts = r.attempts
    BY <1>1, <1>2 DEF Job, Running
  <2> HIDE DEF s
  <2>2. ProviderOf[m] \notin r.excluded /\ MaxRetries[m] >= 0
    BY <1>2, <1>4 DEF Tried
  <2>3. next \in 1 .. Len(Candidates[j])
    BY <1>1, <1>2, <1>4
  <2>4. \A k \in 1 .. Len(r.attempts) : r.attempts[k].model # m
    BY <1>1, <1>2, <1>3, <2>3
  <2>5. BaseLog(j, s)
    <3>1. \A k \in 1 .. Len(r.attempts) :
              \E p \in 1 .. next : r.attempts[k].model = Candidates[j][p]
      BY <1>1, <1>2
    <3> QED BY <1>1, <2>1, <2>3, <3>1 DEF BaseLog
  <2>6. CallingLog(s, m)
    <3>1. MaxRetries[m] \in Int
      BY <1>3, <2>3, RouterAssumption
    <3>2. Len(r.attempts) > 0 => Len(r.attempts) \in 1 .. Len(r.attempts)
      BY <1>1
    <3> QED BY <1>1, <2>1, <2>2, <2>4, <3>1, <3>2 DEF CallingLog
  <2>7. Log(j, s)
    BY <2>1, <2>2, <2>3, <2>5, <2>6 DEF Log
  <2> QED BY <1>0, <1>4, <2>1, <2>7 DEF s
<1>5. CASE ~ (next <= Len(Candidates[j]))
  <2> DEFINE s == [r EXCEPT !.phase = "failed"]
  <2>1. /\ s \in Job /\ s.phase = "failed" /\ s.position = r.position
        /\ s.excluded = r.excluded /\ s.attempts = r.attempts
    BY <1>1 DEF Job, Ended
  <2> HIDE DEF s
  <2>2. BaseLog(j, s)
    BY <1>1, <2>1 DEF BaseLog
  <2>3. Log(j, s)
    BY <2>1, <2>2 DEF Log, Running
  <2> QED BY <1>0, <1>5, <2>1, <2>3 DEF s
<1> QED BY <1>4, <1>5

\* It keeps the types of the quotas.
LEMMA SearchTypes ==
    ASSUME now \in Nat, NEW j \in Jobs, NEW from, NEW next,
           NEW q \in [Models -> QuotaState], NEW c, NEW r \in Job,
           SearchEffect(j, from, next, q, c, r)
    PROVE  quota' \in [Models -> QuotaState]
<1>1. /\ quota' = [m \in Models |-> quota'[m]]
      /\ \A m \in Models :
             \/ quota'[m] = Reserve(Roll(q[m], now, 0),
                                    Reservation(<< j, Len(r.attempts) + 1 >>, EstimateFor(j, m)),
                                    now)
             \/ quota'[m] = q[m]
             \/ quota'[m] = Roll(q[m], now, 0)
  BY DEF SearchEffect
<1>2. << j, Len(r.attempts) + 1 >> \in ReservationId
  BY RecordFields DEF ReservationId
<1>3. ASSUME NEW m \in Models PROVE quota'[m] \in QuotaState
  <2>1. q[m] \in QuotaState /\ Roll(q[m], now, 0) \in QuotaState
    BY RollKeeps
  <2>2. Reserve(Roll(q[m], now, 0),
                Reservation(<< j, Len(r.attempts) + 1 >>, EstimateFor(j, m)), now) \in QuotaState
    BY <1>2, <2>1, EstimateForType, ReserveKeeps
  <2> QED BY <1>1, <2>1, <2>2
<1> HIDE DEF SearchEffect
<1> QED BY <1>1, <1>3

-----------------------------------------------------------------------------
(* What a step of a job means for one model.                                *)

\* The job record r of job j has a call to model m in flight, and the reservation
\* it holds then.
CallsAt(j, r, m) == r.phase = "calling" /\ Candidates[j][r.position] = m

HeldWith(j, r) ==
    Reservation(<< j, Len(r.attempts) + 1 >>, EstimateFor(j, Candidates[j][r.position]))

\* The calls to m it has made: those that were answered, and one that was not.
AnswersOf(r, m) == { k \in 1 .. Len(r.attempts) : r.attempts[k].model = m }

Pending(j, r, m) ==
    /\ r.phase \in {"calling", "cancelled"}
    /\ Candidates[j][r.position] = m
    /\ \A k \in AnswersOf(r, m) : r.attempts[k].number # r.retry + 1

CallsMade(j, r, m) ==
    Cardinality(AnswersOf(r, m)) + (IF Pending(j, r, m) THEN 1 ELSE 0)

\* A record that calls m has not had its answer.
LEMMA CallsMadeFacts ==
    ASSUME NEW j \in Jobs, NEW r \in Job, NEW m
    PROVE  /\ IsFiniteSet(AnswersOf(r, m))
           /\ Cardinality(AnswersOf(r, m)) \in Nat
           /\ CallsMade(j, r, m) \in Nat
           /\ Log(j, r) /\ CallsAt(j, r, m) =>
                  CallsMade(j, r, m) = Cardinality(AnswersOf(r, m)) + 1
           /\ r.phase \notin {"calling", "cancelled"} =>
                  CallsMade(j, r, m) = Cardinality(AnswersOf(r, m))
           /\ Candidates[j][r.position] # m =>
                  CallsMade(j, r, m) = Cardinality(AnswersOf(r, m))
<1>1. /\ Len(r.attempts) \in Nat /\ r.retry \in Nat
      /\ \A k \in 1 .. Len(r.attempts) : r.attempts[k].number \in Nat
  BY RecordFields
<1>2. IsFiniteSet(AnswersOf(r, m)) /\ Cardinality(AnswersOf(r, m)) \in Nat
  <2>1. IsFiniteSet(1 .. Len(r.attempts))
    BY <1>1, FS_Interval
  <2>2. AnswersOf(r, m) \in SUBSET (1 .. Len(r.attempts))
    BY DEF AnswersOf
  <2> QED BY <2>1, <2>2, FS_Subset, FS_CardinalityType
<1>3. ASSUME Log(j, r), CallsAt(j, r, m) PROVE Pending(j, r, m)
  <2>1. CallingLog(r, m)
    BY <1>3 DEF Log, CallsAt
  <2>2. \A k \in AnswersOf(r, m) : r.attempts[k].number # r.retry + 1
    BY <1>1, <2>1 DEF CallingLog, AnswersOf
  <2> QED BY <1>3, <2>2 DEF CallsAt, Pending
<1>4. r.phase \notin {"calling", "cancelled"} => ~ Pending(j, r, m)
  BY DEF Pending
<1>5. Candidates[j][r.position] # m => ~ Pending(j, r, m)
  BY DEF Pending
<1> QED BY <1>2, <1>3, <1>4, <1>5 DEF CallsMade

\* An attempt on m is one more answer of m, and none of another model.
LEMMA OneMoreAnswer ==
    ASSUME NEW r \in Job, NEW s, NEW x \in AttemptRecord,
           s.attempts = Append(r.attempts, x), NEW m
    PROVE  Cardinality(AnswersOf(s, m))
               = Cardinality(AnswersOf(r, m)) + (IF x.model = m THEN 1 ELSE 0)
<1> DEFINE n == Len(r.attempts)
           A == AnswersOf(r, m)
           B == AnswersOf(s, m)
<1>1. r.attempts \in Seq(AttemptRecord) /\ n \in Nat
  BY RecordFields
<1>2. /\ Len(s.attempts) = n + 1
      /\ \A k \in 1 .. n : s.attempts[k] = r.attempts[k]
      /\ s.attempts[n + 1] = x
  BY <1>1, AppendProperties
<1>3. B = IF x.model = m THEN A \cup {n + 1} ELSE A
  BY <1>1, <1>2 DEF AnswersOf
<1>4. IsFiniteSet(A) /\ Cardinality(A) \in Nat /\ n + 1 \notin A
  <2>1. IsFiniteSet(1 .. n)
    BY <1>1, FS_Interval
  <2>2. A \in SUBSET (1 .. n)
    BY DEF AnswersOf
  <2>3. n + 1 \notin 1 .. n
    BY <1>1
  <2> QED BY <2>1, <2>2, <2>3, FS_Subset, FS_CardinalityType
<1> HIDE DEF A, B
<1>5. Cardinality(A \cup {n + 1}) = Cardinality(A) + 1
  BY <1>4, FS_AddElement
<1> QED BY <1>3, <1>4, <1>5 DEF A, B

\* A step that makes s of the record r of job j and leaves the quota n of model m
\* where it was q opens a call to m, gives one up, books its answer, or does
\* nothing to m.
Opens(j, m, r, s, q, n) ==
    /\ ~ CallsAt(j, r, m) /\ CallsAt(j, s, m)
    /\ OpenedBooks(q, n, HeldWith(j, s))
    /\ ModelLimits[m].requestsPerDay # NoLimit =>
           q.dailyRequests < ModelLimits[m].requestsPerDay
    /\ CallsMade(j, s, m) = CallsMade(j, r, m) + 1
    /\ ledger' = ledger

Releases(j, m, r, s, q, n) ==
    /\ CallsAt(j, r, m) /\ ~ CallsAt(j, s, m)
    /\ ReleasedBooks(q, n, HeldWith(j, r))
    /\ CallsMade(j, s, m) = CallsMade(j, r, m)
    /\ ledger' = ledger

Commits(j, m, r, s, q, n) ==
    /\ CallsAt(j, r, m) /\ ~ CallsAt(j, s, m)
    /\ \E u \in Amount :
           /\ CommittedBooks(q, n, HeldWith(j, r), u)
           /\ ledger' = Append(ledger, [job |-> j, model |-> m, usage |-> u])
    /\ CallsMade(j, s, m) = CallsMade(j, r, m)

Elsewhere(j, m, r, s, q, n) ==
    /\ ~ CallsAt(j, r, m) /\ ~ CallsAt(j, s, m)
    /\ SameBooks(q, n)
    /\ CallsMade(j, s, m) = CallsMade(j, r, m)
    /\ \/ ledger' = ledger
       \/ \E x \in UsageRecord : x.model # m /\ ledger' = Append(ledger, x)

JobStep(j, m) ==
    LET r == job[j]
        s == job'[j]
        q == quota[m]
        n == quota'[m]
    IN  \/ Opens(j, m, r, s, q, n)
        \/ Releases(j, m, r, s, q, n)
        \/ Commits(j, m, r, s, q, n)
        \/ Elsewhere(j, m, r, s, q, n)

\* What a step of job j keeps.
Keeps(j) ==
    /\ now' = now
    /\ quota' \in [Models -> QuotaState]
    /\ circuit' \in [Providers -> Circuit]
    /\ ledger' \in Seq(UsageRecord)
    /\ job' = [job EXCEPT ![j] = job'[j]]
    /\ job'[j] \in Job
    /\ Log(j, job'[j])

StepOf(j) == Keeps(j) /\ \A m \in Models : JobStep(j, m)

\* What a search from the record r and the quota q of model m makes of them, s and n.
SearchOutcome(j, m, r, s, q, n) ==
    IF CallsAt(j, s, m)
    THEN /\ OpenedBooks(q, n, HeldWith(j, s))
         /\ ModelLimits[m].requestsPerDay # NoLimit =>
                q.dailyRequests < ModelLimits[m].requestsPerDay
         /\ CallsMade(j, s, m) = Cardinality(AnswersOf(r, m)) + 1
         /\ s.position > r.position
    ELSE /\ SameBooks(q, n)
         /\ CallsMade(j, s, m) = Cardinality(AnswersOf(r, m))

\* A search that finds a model opens a call to it, and one that finds none does
\* nothing but roll.
LEMMA SearchStep ==
    ASSUME now \in Nat, NEW j \in Jobs, NEW next, NEW q \in [Models -> QuotaState], NEW c,
           NEW r, BaseLog(j, r), job \in [Jobs -> Job],
           SearchEffect(j, r.position + 1, next, q, c, r), NEW m \in Models
    PROVE  SearchOutcome(j, m, r, job'[j], q[m], quota'[m]) /\ job'[j].attempts = r.attempts
<1> DEFINE s == job'[j]
<1>1. Log(j, s) /\ s \in Job
  BY SearchLog
<1>2. r \in Job /\ r.position \in Nat
  BY RecordFields DEF BaseLog
<1>3. /\ job' = [job EXCEPT ![j] =
                     IF next <= Len(Candidates[j])
                     THEN [r EXCEPT !.phase = "calling", !.position = next, !.retry = 0]
                     ELSE [r EXCEPT !.phase = "failed"]]
      /\ next \in Nat /\ r.position + 1 <= next
      /\ next <= Len(Candidates[j]) => Admitted(j, Candidates[j][next], q)
      /\ IF next <= Len(Candidates[j]) /\ m = Candidates[j][next]
         THEN quota'[m] = Reserve(Roll(q[m], now, 0),
                                  Reservation(<< j, Len(r.attempts) + 1 >>, EstimateFor(j, m)),
                                  now)
         ELSE quota'[m] = q[m] \/ quota'[m] = Roll(q[m], now, 0)
  BY DEF SearchEffect
<1>4. /\ s.attempts = r.attempts
      /\ IF next <= Len(Candidates[j]) THEN s.phase = "calling" /\ s.position = next
                                       ELSE s.phase = "failed"
  BY <1>2, <1>3 DEF Job
<1> HIDE DEF s
<1>5. AnswersOf(s, m) = AnswersOf(r, m)
  BY <1>4 DEF AnswersOf
<1>6. /\ q[m] \in QuotaState /\ Roll(q[m], now, 0) \in QuotaState
      /\ SameBooks(q[m], Roll(q[m], now, 0)) /\ SameBooks(q[m], q[m])
  BY RollKeeps DEF SameBooks
<1>7. CASE CallsAt(j, s, m)
  <2>1. next <= Len(Candidates[j]) /\ m = Candidates[j][next] /\ s.position = next
    BY <1>4, <1>7 DEF CallsAt
  <2> DEFINE w == Roll(q[m], now, 0)
             h == Reservation(<< j, Len(r.attempts) + 1 >>, EstimateFor(j, m))
  <2>2. << j, Len(r.attempts) + 1 >> \in ReservationId
    BY <1>2, RecordFields DEF ReservationId
  <2>3. h = HeldWith(j, s)
    BY <1>4, <2>1 DEF HeldWith
  <2>4. OpenedBooks(w, Reserve(w, h, now), h)
    BY <1>6, <2>2, ReserveKeeps, EstimateForType
  <2>5. SameBooks(q[m], w) /\ quota'[m] = Reserve(w, h, now)
    BY <1>3, <1>6, <2>1
  <2>6. ModelLimits[m].requestsPerDay # NoLimit =>
            w.dailyRequests < ModelLimits[m].requestsPerDay
    BY <1>3, <2>1 DEF Admitted, Admits
  <2> HIDE DEF w, h
  <2>7. OpenedBooks(q[m], quota'[m], h)
    BY <2>4, <2>5 DEF OpenedBooks, SameBooks
  <2>8. ModelLimits[m].requestsPerDay # NoLimit =>
            q[m].dailyRequests < ModelLimits[m].requestsPerDay
    BY <2>5, <2>6 DEF SameBooks
  <2>9. CallsMade(j, s, m) = Cardinality(AnswersOf(r, m)) + 1
    BY <1>1, <1>5, <1>7, CallsMadeFacts
  <2>10. s.position > r.position
    BY <1>2, <1>3, <2>1
  <2> QED BY <1>4, <1>7, <2>3, <2>7, <2>8, <2>9, <2>10 DEF SearchOutcome, s
<1>8. CASE ~ CallsAt(j, s, m)
  <2>1. ~ (next <= Len(Candidates[j]) /\ m = Candidates[j][next])
    BY <1>4, <1>8 DEF CallsAt
  <2>2. SameBooks(q[m], quota'[m])
    BY <1>3, <1>6, <2>1
  <2>3. CallsMade(j, s, m) = Cardinality(AnswersOf(r, m))
    BY <1>1, <1>4, <1>5, <1>8, CallsMadeFacts DEF CallsAt
  <2> QED BY <1>4, <1>8, <2>2, <2>3 DEF SearchOutcome, s
<1> QED BY <1>7, <1>8

\* The search that a step of job j ends with, after it made c of the circuits, q of
\* the quotas and r of the record.
LEMMA SearchKeeps ==
    ASSUME JobInv, NEW j \in Jobs, NEW next, NEW q \in [Models -> QuotaState],
           NEW c \in [Providers -> Circuit], NEW r, BaseLog(j, r),
           SearchEffect(j, r.position + 1, next, q, c, r), UNCHANGED << now, ledger >>
    PROVE  Keeps(j)
<1>1. now \in Nat /\ job \in [Jobs -> Job] /\ ledger \in Seq(UsageRecord)
  BY JobFacts
<1>2. Log(j, job'[j]) /\ job'[j] \in Job
  BY <1>1, SearchLog
<1>3. quota' \in [Models -> QuotaState]
  BY <1>1, SearchTypes DEF BaseLog
<1>4. circuit' = c /\ job' = [job EXCEPT ![j] = job'[j]]
  BY <1>1 DEF SearchEffect
<1> QED BY <1>1, <1>2, <1>3, <1>4 DEF Keeps

\* The circuits keep their type.
LEMMA CircuitTypes ==
    ASSUME JobInv, NEW p \in Providers
    PROVE  /\ AfterSuccess(circuit[p]) \in Circuit
           /\ AfterFailure(circuit[p], now) \in Circuit
           /\ \A error : CircuitAfter(p, error) \in [Providers -> Circuit]
           /\ [circuit EXCEPT ![p] = AfterSuccess(circuit[p])] \in [Providers -> Circuit]
           /\ [circuit EXCEPT ![p] = AfterFailure(circuit[p], now)] \in [Providers -> Circuit]
<1>1. circuit \in [Providers -> Circuit] /\ now \in Nat
  BY JobFacts
<1>2. circuit[p].failures \in Nat /\ circuit[p].openedAt \in Nat \cup {Never}
  BY <1>1 DEF Circuit
<1>3. AfterSuccess(circuit[p]) \in Circuit
  BY DEF AfterSuccess, NewCircuit, Circuit
<1>4. AfterFailure(circuit[p], now) \in Circuit
  BY <1>1, <1>2 DEF AfterFailure, Circuit
<1> QED BY <1>1, <1>3, <1>4 DEF CircuitAfter

\* What running jobs hold, in the terms of their records.
LEMMA HeldIsHeldWith ==
    ASSUME NEW j
    PROVE  /\ Held(j) = HeldWith(j, job[j])
           /\ \A m : CallsAt(j, job[j], m) <=> job[j].phase = "calling" /\ Model(j) = m
BY DEF Held, ReservationFor, HeldWith, Model, CallsAt

\* route() begins.
LEMMA StartStep ==
    ASSUME JobInv, NEW j \in Jobs, Start(j)
    PROVE  StepOf(j)
<1>1. /\ now \in Nat /\ quota \in [Models -> QuotaState] /\ circuit \in [Providers -> Circuit]
      /\ ledger \in Seq(UsageRecord) /\ job \in [Jobs -> Job] /\ job[j] \in Job
  BY JobFacts
<1>2. job[j] = NewJob /\ BaseLog(j, job[j])
  BY DEF JobInv, Log, Start
<1>3. job[j].position = 0 /\ job[j].phase = "idle"
  BY <1>2 DEF NewJob
<1>4. ledger' = ledger /\ now' = now
  BY DEF Start
<1>5. ASSUME NEW m \in Models
      PROVE  /\ ~ CallsAt(j, job[j], m)
             /\ CallsMade(j, job[j], m) = Cardinality(AnswersOf(job[j], m))
  BY <1>1, <1>3, CallsMadeFacts DEF CallsAt
<1>6. CASE Candidates[j] = << >>
  <2> DEFINE s == [job[j] EXCEPT !.phase = "ineligible"]
  <2>1. job' = [job EXCEPT ![j] = s] /\ quota' = quota /\ circuit' = circuit
    BY <1>6 DEF Start
  <2>2. /\ s \in Job /\ s.phase = "ineligible" /\ s.position = job[j].position
        /\ s.excluded = job[j].excluded /\ s.attempts = job[j].attempts
    BY <1>1 DEF Job, Ended
  <2> HIDE DEF s
  <2>3. Log(j, s)
    BY <1>2, <2>2 DEF Log, BaseLog, Running
  <2>4. job'[j] = s
    BY <1>1, <2>1
  <2>5. Keeps(j)
    BY <1>1, <1>4, <2>1, <2>2, <2>3, <2>4 DEF Keeps
  <2>6. ASSUME NEW m \in Models PROVE JobStep(j, m)
    <3>1. ~ CallsAt(j, s, m)
      BY <2>2 DEF CallsAt
    <3>2. CallsMade(j, s, m) = Cardinality(AnswersOf(s, m))
      BY <2>2, CallsMadeFacts
    <3>3. AnswersOf(s, m) = AnswersOf(job[j], m)
      BY <2>2 DEF AnswersOf
    <3>4. Elsewhere(j, m, job[j], s, quota[m], quota'[m])
      BY <1>4, <1>5, <2>1, <3>1, <3>2, <3>3 DEF Elsewhere, SameBooks
    <3> QED BY <2>4, <3>4 DEF JobStep
  <2> QED BY <2>5, <2>6 DEF StepOf
<1>7. CASE Candidates[j] # << >>
  <2>1. Search(j, 1, quota, circuit, job[j])
    BY <1>7 DEF Start
  <2>2. PICK next : SearchEffect(j, job[j].position + 1, next, quota, circuit, job[j])
    BY <1>3, <2>1, CandidateFacts, SearchEnds
  <2>3. Keeps(j)
    BY <1>1, <1>2, <1>4, <2>2, SearchKeeps
  <2>4. ASSUME NEW m \in Models PROVE JobStep(j, m)
    <3>1. SearchOutcome(j, m, job[j], job'[j], quota[m], quota'[m])
      BY <1>1, <1>2, <2>2, SearchStep
    <3> QED BY <1>4, <1>5, <3>1 DEF JobStep, SearchOutcome, Opens, Elsewhere
  <2> QED BY <2>3, <2>4 DEF StepOf
<1> QED BY <1>6, <1>7

\* A provider answers with a result.
LEMMA SucceedStep ==
    ASSUME JobInv, NEW j \in Jobs, NEW usage \in Usages, Succeed(j, usage)
    PROVE  StepOf(j)
<1> DEFINE s == job'[j]
           m0 == Model(j)
<1>1. /\ now \in Nat /\ quota \in [Models -> QuotaState] /\ circuit \in [Providers -> Circuit]
      /\ ledger \in Seq(UsageRecord) /\ job \in [Jobs -> Job] /\ job[j] \in Job
      /\ job[j].phase = "calling"
  BY JobFacts DEF Succeed
<1>2. Log(j, job[j]) /\ job[j].position \in 1 .. Len(Candidates[j]) /\ m0 \in Models
  BY <1>1, RunningAt DEF Running
<1>3. usage \in Amount
  BY RouterAssumption
<1>4. /\ Held(j) \in QuotaReservation /\ Held(j) = HeldWith(j, job[j])
      /\ \A m : CallsAt(j, job[j], m) <=> m = m0
  BY <1>1, <1>2, HeldType, HeldIsHeldWith DEF Held
<1>5. /\ quota' = [quota EXCEPT ![m0] = CommitUsage(quota[m0], Held(j), usage)]
      /\ circuit' = [circuit EXCEPT ![ProviderOf[m0]] = AfterSuccess(circuit[ProviderOf[m0]])]
      /\ ledger' = Append(ledger, [job |-> j, model |-> m0, usage |-> usage])
      /\ job' = [job EXCEPT ![j].phase = "succeeded",
                            ![j].attempts = Append(@, Attempt(j, "success"))]
      /\ now' = now
  BY DEF Succeed
<1>6. /\ Attempt(j, "success") \in AttemptRecord /\ Attempt(j, "success").model = m0
  BY <1>1, AttemptType
<1>7. /\ s \in Job /\ s.phase = "succeeded" /\ s.position = job[j].position
      /\ s.excluded = job[j].excluded
      /\ s.attempts = Append(job[j].attempts, Attempt(j, "success"))
      /\ job' = [job EXCEPT ![j] = s]
  <2> DEFINE a == Append(job[j].attempts, Attempt(j, "success"))
  <2>1. a \in Seq(AttemptRecord)
    BY <1>1, <1>6, RecordFields, AppendProperties
  <2>2. s = [job[j] EXCEPT !.phase = "succeeded", !.attempts = a]
    BY <1>1, <1>5
  <2>3. job' = [job EXCEPT ![j] = s]
    BY <1>1, <1>5
  <2> HIDE DEF s, a
  <2>4. /\ s \in Job /\ s.phase = "succeeded" /\ s.position = job[j].position
        /\ s.excluded = job[j].excluded /\ s.attempts = a
    BY <1>1, <2>1, <2>2 DEF Job, Ended
  <2> QED BY <2>3, <2>4 DEF a
<1>8. Log(j, s)
  <2>1. Attempt(j, "success").outcome \notin ProviderWideErrors
    BY DEF Attempt, ProviderWideErrors
  <2>2. BaseLog(j, job[j]) /\ job[j].position >= 1 /\ m0 = Candidates[j][job[j].position]
    BY <1>2 DEF Log, Model
  <2> DEFINE x == Attempt(j, "success")
  <2>3. /\ x \in AttemptRecord /\ x.model = Candidates[j][job[j].position]
        /\ s.attempts = Append(job[j].attempts, x)
        /\ s.excluded = IF x.outcome \in ProviderWideErrors
                        THEN job[j].excluded \cup {ProviderOf[x.model]} ELSE job[j].excluded
    BY <1>6, <1>7, <2>1, <2>2
  <2> HIDE DEF s, x
  <2>4. BaseLog(j, s)
    BY <1>7, <2>2, <2>3, AttemptLogged
  <2> QED BY <1>7, <2>4 DEF Log, Running
<1>9. \A m \in Models : quota'[m] = IF m = m0 THEN CommitUsage(quota[m0], Held(j), usage)
                                              ELSE quota[m]
  BY <1>1, <1>5
<1>10. Keeps(j)
  <2>1. CommitUsage(quota[m0], Held(j), usage) \in QuotaState
    BY <1>1, <1>2, <1>3, <1>4, SettlingKeeps
  <2>2. quota' \in [Models -> QuotaState]
    BY <1>1, <1>5, <2>1
  <2>3. circuit' \in [Providers -> Circuit]
    BY <1>2, <1>5, CircuitTypes, RouterAssumption
  <2>4. [job |-> j, model |-> m0, usage |-> usage] \in UsageRecord
    BY <1>2, <1>3 DEF UsageRecord
  <2>5. ledger' \in Seq(UsageRecord)
    BY <1>1, <1>5, <2>4, AppendProperties
  <2> QED BY <1>5, <1>7, <1>8, <2>2, <2>3, <2>5 DEF Keeps
<1>11. ASSUME NEW m \in Models PROVE JobStep(j, m)
  <2>1. ~ CallsAt(j, s, m) /\ CallsMade(j, s, m) = Cardinality(AnswersOf(s, m))
    BY <1>7, CallsMadeFacts DEF CallsAt
  <2>2. Cardinality(AnswersOf(s, m))
            = Cardinality(AnswersOf(job[j], m)) + (IF m0 = m THEN 1 ELSE 0)
    BY <1>1, <1>6, <1>7, OneMoreAnswer
  <2> HIDE DEF s, m0
  <2>3. CASE m = m0
    <3>1. CallsMade(j, job[j], m) = Cardinality(AnswersOf(job[j], m)) + 1
      BY <1>1, <1>2, <1>4, <2>3, CallsMadeFacts
    <3>2. CommittedBooks(quota[m], quota'[m], HeldWith(j, job[j]), usage)
      BY <1>1, <1>2, <1>3, <1>4, <1>9, <2>3, SettlingKeeps
    <3>3. Commits(j, m, job[j], s, quota[m], quota'[m])
      BY <1>3, <1>4, <1>5, <2>1, <2>2, <2>3, <3>1, <3>2 DEF Commits
    <3> QED BY <3>3 DEF JobStep, s
  <2>4. CASE m # m0
    <3>1. CallsMade(j, job[j], m) = Cardinality(AnswersOf(job[j], m))
      BY <1>1, <2>4, CallsMadeFacts DEF m0, Model
    <3>2. \E x \in UsageRecord : x.model # m /\ ledger' = Append(ledger, x)
      BY <1>2, <1>3, <1>5, <2>4 DEF UsageRecord
    <3>3. Cardinality(AnswersOf(job[j], m)) \in Nat
      BY <1>1, CallsMadeFacts
    <3>4. CallsMade(j, s, m) = CallsMade(j, job[j], m)
      BY <2>1, <2>2, <2>4, <3>1, <3>3
    <3>5. Elsewhere(j, m, job[j], s, quota[m], quota'[m])
      BY <1>4, <1>9, <2>1, <2>4, <3>2, <3>4 DEF Elsewhere, SameBooks
    <3> QED BY <3>5 DEF JobStep, s
  <2> QED BY <2>3, <2>4
<1> QED BY <1>10, <1>11 DEF StepOf

\* A provider answers with an error, or not at all.
LEMMA FailStep ==
    ASSUME JobInv, NEW j \in Jobs, NEW error \in Errors, Fail(j, error)
    PROVE  StepOf(j)
<1> DEFINE m0 == Model(j)
           q == [quota EXCEPT ![m0] = ReleaseEstimate(quota[m0], Held(j))]
           c == CircuitAfter(ProviderOf[m0], error)
           r == AfterAttempt(j, error)
           a == job[j].attempts
           n == Len(a)
           s == job'[j]
<1>1. /\ now \in Nat /\ quota \in [Models -> QuotaState] /\ circuit \in [Providers -> Circuit]
      /\ ledger \in Seq(UsageRecord) /\ job \in [Jobs -> Job] /\ job[j] \in Job
      /\ job[j].phase = "calling"
  BY JobFacts DEF Fail
<1>2. /\ Log(j, job[j]) /\ m0 \in Models /\ m0 = Candidates[j][job[j].position]
      /\ job[j].position \in 1 .. Len(Candidates[j])
  BY <1>1, RunningAt DEF Running
<1>3. /\ Held(j) \in QuotaReservation /\ Held(j) = HeldWith(j, job[j])
      /\ \A m : CallsAt(j, job[j], m) <=> m = m0
  BY <1>1, <1>2, HeldType, HeldIsHeldWith DEF Held
<1>4. /\ BaseLog(j, r) /\ r \in Job
      /\ r.phase = "calling" /\ r.position = job[j].position /\ r.retry = job[j].retry
      /\ Len(r.attempts) = n + 1
      /\ \A k \in 1 .. n : r.attempts[k] = a[k]
      /\ r.attempts[n + 1].model = m0
      /\ r.attempts[n + 1].number = job[j].retry + 1
      /\ r.attempts[n + 1].outcome = error
      /\ error \notin ProviderWideErrors => r.excluded = job[j].excluded
      /\ r.attempts = Append(a, Attempt(j, error))
  BY <1>1, AfterAttemptLog DEF BaseLog
<1>5. Attempt(j, error) \in AttemptRecord /\ Attempt(j, error).model = m0
  BY <1>1, AttemptType, RouterAssumption
<1>6. /\ ReleaseEstimate(quota[m0], Held(j)) \in QuotaState
      /\ ReleasedBooks(quota[m0], ReleaseEstimate(quota[m0], Held(j)), Held(j))
  BY <1>1, <1>2, <1>3, SettlingKeeps
<1>7. q \in [Models -> QuotaState] /\ c \in [Providers -> Circuit]
  BY <1>1, <1>2, <1>6, CircuitTypes, RouterAssumption
<1>8. now' = now /\ ledger' = ledger
  BY DEF Fail
<1>9. IF Retries(j, error)
      THEN /\ quota' = q
           /\ circuit' = c
           /\ job' = [job EXCEPT ![j] = [r EXCEPT !.phase = "sleeping"]]
      ELSE Search(j, r.position + 1, q, c, r)
  <2> USE <1>4
  <2> HIDE DEF r
  <2> QED BY DEF Fail, r
<1>10. \A m \in Models : q[m] = IF m = m0 THEN ReleaseEstimate(quota[m0], Held(j)) ELSE quota[m]
  BY <1>1
<1>11. ASSUME NEW m \in Models
       PROVE  /\ CallsMade(j, job[j], m) = Cardinality(AnswersOf(r, m))
              /\ Cardinality(AnswersOf(r, m)) \in Nat
  <2>1. Cardinality(AnswersOf(r, m))
            = Cardinality(AnswersOf(job[j], m)) + (IF m0 = m THEN 1 ELSE 0)
    BY <1>1, <1>4, <1>5, OneMoreAnswer
  <2>2. /\ Cardinality(AnswersOf(job[j], m)) \in Nat
        /\ m = m0 => CallsMade(j, job[j], m) = Cardinality(AnswersOf(job[j], m)) + 1
        /\ m # m0 => CallsMade(j, job[j], m) = Cardinality(AnswersOf(job[j], m))
    BY <1>1, <1>2, <1>3, CallsMadeFacts
  <2> HIDE DEF m0, r
  <2> QED BY <2>1, <2>2
<1> HIDE DEF q, c, r
<1>12. CASE Retries(j, error)
  <2>1. /\ s = [r EXCEPT !.phase = "sleeping"] /\ quota' = q /\ circuit' = c
        /\ job' = [job EXCEPT ![j] = s]
    BY <1>1, <1>9, <1>12
  <2>2. /\ s \in Job /\ s.phase = "sleeping" /\ s.position = r.position
        /\ s.retry = r.retry /\ s.excluded = r.excluded /\ s.attempts = r.attempts
    BY <1>4, <2>1 DEF Job, Running
  <2>3. /\ error \in TransientErrors /\ job[j].retry < MaxRetries[m0]
        /\ error \notin ProviderWideErrors
    BY <1>12 DEF Retries, TransientErrors, ProviderWideErrors
  <2>4. BaseLog(j, s)
    <3> HIDE DEF s
    <3>1. /\ r.position \in 0 .. Len(Candidates[j]) /\ r.excluded = RefusedBy(r.attempts)
          /\ \A k \in 1 .. Len(r.attempts) :
                 \E p \in 1 .. r.position : r.attempts[k].model = Candidates[j][p]
      BY <1>4 DEF BaseLog
    <3> QED BY <2>2, <3>1 DEF BaseLog
  <2>5. n \in Nat /\ job[j].retry \in Nat /\ \A k \in 1 .. n : a[k].number \in Nat
    BY <1>1, RecordFields
  <2>6. \A k \in 1 .. n : a[k].model = m0 => a[k].number <= job[j].retry
    BY <1>1, <1>2 DEF Log, CallingLog
  <2>7. \A k \in 1 .. n + 1 : s.attempts[k].model = m0 => s.attempts[k].number <= job[j].retry + 1
    <3> TAKE k \in 1 .. n + 1
    <3>1. CASE k = n + 1
      <4>1. s.attempts[k].number = job[j].retry + 1
        BY <1>4, <2>2, <3>1
      <4> QED BY <2>5, <4>1
    <3>2. CASE k \in 1 .. n
      <4>1. s.attempts[k] = a[k]
        BY <1>4, <2>2, <3>2
      <4> QED BY <2>5, <2>6, <3>2, <4>1
    <3>3. n \in Nat /\ k \in 1 .. n + 1
      BY <2>5
    <3>4. k = n + 1 \/ k \in 1 .. n
      <4> HIDE DEF n
      <4> QED BY <3>3
    <3> QED BY <3>1, <3>2, <3>4
  <2>8. SleepingLog(s, m0)
    BY <1>4, <2>2, <2>3, <2>5, <2>7 DEF SleepingLog
  <2>9. ProviderOf[m0] \notin s.excluded
    BY <1>1, <1>2, <1>4, <2>2, <2>3 DEF Log, Running
  <2>10. Log(j, s)
    BY <1>2, <1>4, <2>2, <2>4, <2>8, <2>9 DEF Log, Running
  <2>11. Keeps(j)
    BY <1>1, <1>7, <1>8, <2>1, <2>2, <2>10 DEF Keeps
  <2>12. ASSUME NEW m \in Models PROVE JobStep(j, m)
    <3>1. ~ CallsAt(j, s, m)
      BY <2>2 DEF CallsAt
    <3>2. CallsMade(j, s, m) = CallsMade(j, job[j], m)
      <4>1. AnswersOf(s, m) = AnswersOf(r, m)
        BY <2>2 DEF AnswersOf
      <4> QED BY <1>11, <2>2, <4>1, CallsMadeFacts
    <3> HIDE DEF s, m0
    <3>3. CASE m = m0
      <4>1. ReleasedBooks(quota[m], quota'[m], HeldWith(j, job[j]))
        BY <1>3, <1>6, <1>10, <2>1, <3>3
      <4>2. Releases(j, m, job[j], s, quota[m], quota'[m])
        BY <1>3, <1>8, <3>1, <3>2, <3>3, <4>1 DEF Releases
      <4> QED BY <4>2 DEF JobStep, s
    <3>4. CASE m # m0
      <4>1. SameBooks(quota[m], quota'[m])
        BY <1>10, <2>1, <3>4 DEF SameBooks
      <4>2. Elsewhere(j, m, job[j], s, quota[m], quota'[m])
        BY <1>3, <1>8, <3>1, <3>2, <3>4, <4>1 DEF Elsewhere
      <4> QED BY <4>2 DEF JobStep, s
    <3> QED BY <3>3, <3>4
  <2> QED BY <2>11, <2>12 DEF StepOf
<1>13. CASE ~ Retries(j, error)
  <2>1. Search(j, r.position + 1, q, c, r)
    BY <1>9, <1>13
  <2>2. PICK next : SearchEffect(j, r.position + 1, next, q, c, r)
    <3>1. Len(Candidates[j]) \in Nat
      BY CandidateFacts
    <3>2. /\ r.position + 1 \in Nat /\ r.position + 1 >= 1
          /\ r.position + 1 <= Len(Candidates[j]) + 1
      BY <1>2, <1>4, <3>1
    <3> HIDE DEF m0
    <3> QED BY <2>1, <3>2, SearchEnds
  <2>3. Keeps(j)
    BY <1>4, <1>7, <1>8, <2>2, SearchKeeps
  <2>4. ASSUME NEW m \in Models PROVE JobStep(j, m)
    <3>1. SearchOutcome(j, m, r, s, q[m], quota'[m])
      BY <1>1, <1>4, <1>7, <2>2, SearchStep
    <3>2. s \in Job /\ s.position \in Nat
      BY <2>3, RecordFields DEF Keeps
    <3>3. \A k \in 1 .. Len(Candidates[j]) :
              Candidates[j][k] = m0 => k = job[j].position
      BY <1>2, CandidateFacts
    <3>4. s.phase = "calling" => s.position \in 1 .. Len(Candidates[j])
      BY <2>3 DEF Keeps, Log, BaseLog, Running
    <3> HIDE DEF s, m0
    <3>5. CASE m = m0
      <4>1. ~ CallsAt(j, s, m)
        <5> SUFFICES ASSUME CallsAt(j, s, m) PROVE FALSE
          OBVIOUS
        <5>1. s.position = job[j].position
          BY <3>3, <3>4, <3>5 DEF CallsAt
        <5>2. s.position > r.position
          BY <3>1 DEF SearchOutcome
        <5> QED BY <1>4, <3>2, <5>1, <5>2
      <4>2. SameBooks(q[m], quota'[m]) /\ CallsMade(j, s, m) = CallsMade(j, job[j], m)
        BY <1>11, <3>1, <4>1 DEF SearchOutcome
      <4>3. ReleasedBooks(quota[m], quota'[m], HeldWith(j, job[j]))
        <5>1. ReleasedBooks(quota[m], q[m], HeldWith(j, job[j]))
          BY <1>3, <1>6, <1>10, <3>5
        <5> QED BY <4>2, <5>1 DEF ReleasedBooks, SettledBooks, SameBooks
      <4>4. Releases(j, m, job[j], s, quota[m], quota'[m])
        BY <1>3, <1>8, <3>5, <4>1, <4>2, <4>3 DEF Releases
      <4> QED BY <4>4 DEF JobStep, s
    <3>6. CASE m # m0
      <4>1. q[m] = quota[m] /\ ~ CallsAt(j, job[j], m)
        BY <1>3, <1>10, <3>6
      <4>2. CASE CallsAt(j, s, m)
        <5>1. Opens(j, m, job[j], s, quota[m], quota'[m])
          BY <1>8, <1>11, <3>1, <4>1, <4>2 DEF SearchOutcome, Opens
        <5> QED BY <5>1 DEF JobStep, s
      <4>3. CASE ~ CallsAt(j, s, m)
        <5>1. Elsewhere(j, m, job[j], s, quota[m], quota'[m])
          BY <1>8, <1>11, <3>1, <4>1, <4>3 DEF SearchOutcome, Elsewhere
        <5> QED BY <5>1 DEF JobStep, s
      <4> QED BY <4>2, <4>3
    <3> QED BY <3>5, <3>6
  <2> QED BY <2>3, <2>4 DEF StepOf
<1> QED BY <1>12, <1>13

\* A sleep before a retry ends.
LEMMA WakeStep ==
    ASSUME JobInv, NEW j \in Jobs, Wake(j)
    PROVE  StepOf(j)
<1> DEFINE m0 == Model(j)
           q == [quota EXCEPT ![m0] = Roll(quota[m0], now, 0)]
           s == job'[j]
           n == Len(job[j].attempts)
<1>1. /\ now \in Nat /\ quota \in [Models -> QuotaState] /\ circuit \in [Providers -> Circuit]
      /\ ledger \in Seq(UsageRecord) /\ job \in [Jobs -> Job] /\ job[j] \in Job
      /\ job[j].phase = "sleeping"
  BY JobFacts DEF Wake
<1>2. /\ Log(j, job[j]) /\ BaseLog(j, job[j])
      /\ m0 \in Models /\ m0 = Candidates[j][job[j].position]
      /\ job[j].position \in 1 .. Len(Candidates[j]) /\ SleepingLog(job[j], m0)
      /\ ProviderOf[m0] \notin job[j].excluded
  BY <1>1, RunningAt DEF Running, Log
<1>3. now' = now /\ ledger' = ledger
  BY DEF Wake
<1>4. ASSUME NEW m \in Models
      PROVE  /\ ~ CallsAt(j, job[j], m)
             /\ CallsMade(j, job[j], m) = Cardinality(AnswersOf(job[j], m))
  BY <1>1, CallsMadeFacts DEF CallsAt
<1>5. ASSUME NEW m \in Models PROVE q[m] \in QuotaState /\ SameBooks(quota[m], q[m])
  <2>1. Roll(quota[m], now, 0) \in QuotaState /\ SameBooks(quota[m], Roll(quota[m], now, 0))
    BY <1>1, RollKeeps
  <2>2. q[m] = IF m = m0 THEN Roll(quota[m], now, 0) ELSE quota[m]
    BY <1>1
  <2> QED BY <1>1, <2>1, <2>2 DEF SameBooks
<1>6. q \in [Models -> QuotaState]
  BY <1>1, <1>5
<1>7. CASE Admitted(j, m0, quota)
  <2> DEFINE w == Roll(quota[m0], now, 0)
             nq == Reserve(w, Held(j), now)
  <2>1. /\ quota' = [q EXCEPT ![m0] = Reserve(q[m0], Held(j), now)]
        /\ job' = [job EXCEPT ![j].phase = "calling", ![j].retry = @ + 1]
        /\ circuit' = circuit
    BY <1>7 DEF Wake
  <2>2. /\ w \in QuotaState /\ SameBooks(quota[m0], w) /\ q[m0] = w
    BY <1>1, <1>2, RollKeeps
  <2>3. nq \in QuotaState /\ OpenedBooks(w, nq, Held(j))
    <3>1. << j, Len(job[j].attempts) + 1 >> \in ReservationId
      BY <1>1, RecordFields DEF ReservationId
    <3>2. Held(j) = Reservation(<< j, Len(job[j].attempts) + 1 >>, EstimateFor(j, m0))
      BY DEF Held, ReservationFor
    <3> HIDE DEF w
    <3> QED BY <1>1, <1>2, <2>2, <3>1, <3>2, EstimateForType, ReserveKeeps
  <2>4. quota' \in [Models -> QuotaState]
        /\ \A m \in Models : quota'[m] = IF m = m0 THEN nq ELSE quota[m]
    <3>1. \A m \in Models : q[m] = IF m = m0 THEN w ELSE quota[m]
      BY <1>1
    <3> HIDE DEF q, w
    <3> QED BY <1>6, <2>1, <2>2, <2>3, <3>1
  <2>5. /\ s \in Job /\ s.phase = "calling" /\ s.position = job[j].position
        /\ s.retry = job[j].retry + 1 /\ s.excluded = job[j].excluded
        /\ s.attempts = job[j].attempts /\ job' = [job EXCEPT ![j] = s]
    <3>1. s = [job[j] EXCEPT !.phase = "calling", !.retry = job[j].retry + 1]
      BY <1>1, <2>1
    <3>2. job[j].retry + 1 \in Nat
      BY <1>1, RecordFields
    <3>3. job' = [job EXCEPT ![j] = s]
      BY <1>1, <2>1
    <3> HIDE DEF s
    <3> QED BY <1>1, <3>1, <3>2, <3>3 DEF Job, Running
  <2> HIDE DEF s, nq, w, q
  <2>6. BaseLog(j, s)
    BY <1>2, <2>5 DEF BaseLog
  <2>7. CallingLog(s, m0)
    <3>1. MaxRetries[m0] \in Int /\ job[j].retry \in Nat
      BY <1>1, <1>2, RecordFields, RouterAssumption
    <3> QED BY <1>2, <2>5, <3>1 DEF CallingLog, SleepingLog
  <2>8. Log(j, s)
    BY <1>2, <2>5, <2>6, <2>7 DEF Log, Running
  <2>9. Keeps(j)
    BY <1>1, <1>3, <2>1, <2>4, <2>5, <2>8 DEF Keeps, s
  <2>10. ASSUME NEW m \in Models PROVE JobStep(j, m)
    <3>1. AnswersOf(s, m) = AnswersOf(job[j], m)
      BY <2>5 DEF AnswersOf
    <3>2. \A x : CallsAt(j, s, x) <=> x = m0
      BY <1>2, <2>5 DEF CallsAt
    <3>3. Held(j) = HeldWith(j, s)
      BY <1>2, <2>5 DEF Held, ReservationFor, HeldWith
    <3>4. CASE m = m0
      <4>1. CallsMade(j, s, m) = CallsMade(j, job[j], m) + 1
        BY <1>4, <2>5, <2>8, <3>1, <3>2, <3>4, CallsMadeFacts
      <4>2. OpenedBooks(quota[m], quota'[m], HeldWith(j, s))
        BY <2>2, <2>3, <2>4, <3>3, <3>4 DEF OpenedBooks, SameBooks
      <4>3. ModelLimits[m].requestsPerDay # NoLimit =>
                quota[m].dailyRequests < ModelLimits[m].requestsPerDay
        BY <1>7, <2>2, <3>4 DEF Admitted, Admits, SameBooks, w
      <4>4. Opens(j, m, job[j], s, quota[m], quota'[m])
        BY <1>3, <1>4, <3>2, <3>4, <4>1, <4>2, <4>3 DEF Opens
      <4> QED BY <4>4 DEF JobStep, s
    <3>5. CASE m # m0
      <4>1. CallsMade(j, s, m) = CallsMade(j, job[j], m)
        BY <1>2, <1>4, <2>5, <3>1, <3>5, CallsMadeFacts
      <4>2. SameBooks(quota[m], quota'[m])
        BY <2>4, <3>5 DEF SameBooks
      <4>3. Elsewhere(j, m, job[j], s, quota[m], quota'[m])
        BY <1>3, <1>4, <3>2, <3>5, <4>1, <4>2 DEF Elsewhere
      <4> QED BY <4>3 DEF JobStep, s
    <3> QED BY <3>4, <3>5
  <2> QED BY <2>9, <2>10 DEF StepOf
<1>8. CASE ~ Admitted(j, m0, quota)
  <2>1. Search(j, job[j].position + 1, q, circuit, job[j])
    BY <1>8 DEF Wake
  <2> HIDE DEF q
  <2>2. PICK next : SearchEffect(j, job[j].position + 1, next, q, circuit, job[j])
    <3>1. Len(Candidates[j]) \in Nat
      BY CandidateFacts
    <3>2. /\ job[j].position + 1 \in Nat /\ job[j].position + 1 >= 1
          /\ job[j].position + 1 <= Len(Candidates[j]) + 1
      BY <1>2, <3>1
    <3> QED BY <2>1, <3>2, SearchEnds
  <2>3. Keeps(j)
    BY <1>1, <1>2, <1>3, <1>6, <2>2, SearchKeeps
  <2>4. ASSUME NEW m \in Models PROVE JobStep(j, m)
    <3>1. SearchOutcome(j, m, job[j], job'[j], q[m], quota'[m])
      BY <1>1, <1>2, <1>6, <2>2, SearchStep
    <3>2. SameBooks(quota[m], q[m])
      BY <1>5 DEF q
    <3> HIDE DEF s
    <3>3. CASE CallsAt(j, s, m)
      <4>1. Opens(j, m, job[j], s, quota[m], quota'[m])
        BY <1>3, <1>4, <3>1, <3>2, <3>3
        DEF SearchOutcome, Opens, OpenedBooks, SameBooks, s
      <4> QED BY <4>1 DEF JobStep, s
    <3>4. CASE ~ CallsAt(j, s, m)
      <4>1. Elsewhere(j, m, job[j], s, quota[m], quota'[m])
        BY <1>3, <1>4, <3>1, <3>2, <3>4 DEF SearchOutcome, Elsewhere, SameBooks, s
      <4> QED BY <4>1 DEF JobStep, s
    <3> QED BY <3>3, <3>4
  <2> QED BY <2>3, <2>4 DEF StepOf
<1> QED BY <1>7, <1>8

\* The task is cancelled.
LEMMA CancelStep ==
    ASSUME JobInv, NEW j \in Jobs, Cancel(j)
    PROVE  StepOf(j)
<1> DEFINE m0 == Model(j)
           s == job'[j]
<1>1. /\ now \in Nat /\ quota \in [Models -> QuotaState] /\ circuit \in [Providers -> Circuit]
      /\ ledger \in Seq(UsageRecord) /\ job \in [Jobs -> Job] /\ job[j] \in Job
      /\ job[j].phase \in Running
  BY JobFacts DEF Cancel
<1>2. /\ Log(j, job[j]) /\ BaseLog(j, job[j])
      /\ m0 \in Models /\ m0 = Candidates[j][job[j].position]
  BY <1>1, RunningAt DEF Log
<1>3. /\ now' = now /\ ledger' = ledger /\ circuit' = circuit
      /\ quota' = IF job[j].phase = "calling"
                  THEN [quota EXCEPT ![m0] = ReleaseEstimate(quota[m0], Held(j))]
                  ELSE quota
      /\ job' = [job EXCEPT ![j].phase = "cancelled"]
  BY DEF Cancel
<1>4. /\ Held(j) \in QuotaReservation /\ Held(j) = HeldWith(j, job[j])
      /\ \A m : CallsAt(j, job[j], m) <=> job[j].phase = "calling" /\ m = m0
  BY <1>2, HeldType, HeldIsHeldWith DEF Held
<1>5. /\ ReleaseEstimate(quota[m0], Held(j)) \in QuotaState
      /\ ReleasedBooks(quota[m0], ReleaseEstimate(quota[m0], Held(j)), Held(j))
  BY <1>1, <1>2, <1>4, SettlingKeeps
<1>6. /\ s \in Job /\ s.phase = "cancelled" /\ s.position = job[j].position
      /\ s.retry = job[j].retry /\ s.excluded = job[j].excluded
      /\ s.attempts = job[j].attempts /\ job' = [job EXCEPT ![j] = s]
  <2>1. s = [job[j] EXCEPT !.phase = "cancelled"] /\ job' = [job EXCEPT ![j] = s]
    BY <1>1, <1>3
  <2> HIDE DEF s
  <2> QED BY <1>1, <2>1 DEF Job, Ended
<1> HIDE DEF s
<1>7. Log(j, s)
  BY <1>2, <1>6 DEF Log, BaseLog, Running
<1>8. quota' \in [Models -> QuotaState]
      /\ \A m \in Models : quota'[m] = IF job[j].phase = "calling" /\ m = m0
                                       THEN ReleaseEstimate(quota[m0], Held(j)) ELSE quota[m]
  BY <1>1, <1>3, <1>5
<1>9. Keeps(j)
  BY <1>1, <1>3, <1>6, <1>7, <1>8 DEF Keeps, s
<1>10. ASSUME NEW m \in Models PROVE JobStep(j, m)
  <2>1. ~ CallsAt(j, s, m)
    BY <1>6 DEF CallsAt
  <2>2. AnswersOf(s, m) = AnswersOf(job[j], m)
    BY <1>6 DEF AnswersOf
  <2>3. Pending(j, s, m) <=> Pending(j, job[j], m)
    <3>1. CASE job[j].phase = "calling"
      BY <1>6, <2>2, <3>1 DEF Pending
    <3>2. CASE job[j].phase = "sleeping"
      <4>1. ~ Pending(j, job[j], m)
        BY <3>2 DEF Pending
      <4>2. SleepingLog(job[j], m0) /\ Len(job[j].attempts) \in Nat
        BY <1>1, <1>2, <3>2, RecordFields DEF Log
      <4>3. /\ job[j].attempts[Len(job[j].attempts)].number = job[j].retry + 1
            /\ Len(job[j].attempts) \in AnswersOf(job[j], m0)
        BY <4>2 DEF SleepingLog, AnswersOf
      <4>4. Candidates[j][s.position] = m0
        BY <1>2, <1>6
      <4>5. ~ Pending(j, s, m)
        <5> SUFFICES ASSUME Pending(j, s, m) PROVE FALSE
          OBVIOUS
        <5>1. m = m0
          BY <4>4 DEF Pending
        <5> QED BY <1>6, <2>2, <4>3, <5>1 DEF Pending
      <4> QED BY <4>1, <4>5
    <3> QED BY <1>1, <3>1, <3>2 DEF Running
  <2>4. CallsMade(j, s, m) = CallsMade(j, job[j], m)
    BY <2>2, <2>3 DEF CallsMade
  <2> HIDE DEF m0
  <2>5. CASE job[j].phase = "calling" /\ m = m0
    <3>1. ReleasedBooks(quota[m], quota'[m], HeldWith(j, job[j]))
      BY <1>4, <1>5, <1>8, <2>5
    <3>2. Releases(j, m, job[j], s, quota[m], quota'[m])
      BY <1>3, <1>4, <2>1, <2>4, <2>5, <3>1 DEF Releases
    <3> QED BY <3>2 DEF JobStep, s
  <2>6. CASE ~ (job[j].phase = "calling" /\ m = m0)
    <3>1. SameBooks(quota[m], quota'[m])
      BY <1>8, <2>6 DEF SameBooks
    <3>2. Elsewhere(j, m, job[j], s, quota[m], quota'[m])
      BY <1>3, <1>4, <2>1, <2>4, <2>6, <3>1 DEF Elsewhere
    <3> QED BY <3>2 DEF JobStep, s
  <2> QED BY <2>5, <2>6
<1> QED BY <1>9, <1>10 DEF StepOf

-----------------------------------------------------------------------------
(* Every step.                                                              *)

\* A step of one job keeps the invariant.
LEMMA KeepsInv ==
    ASSUME JobInv, NEW j \in Jobs, Keeps(j)
    PROVE  JobInv'
<1>1. /\ now \in 0 .. MaxTime /\ job \in [Jobs -> Job]
      /\ \A i \in Jobs : Log(i, job[i])
      /\ \A i \in Jobs : job[i].phase \in Running => job[i].position \in 1 .. Len(Candidates[i])
  BY DEF JobInv, TypeOK
<1>2. /\ now' = now
      /\ quota' \in [Models -> QuotaState] /\ circuit' \in [Providers -> Circuit]
      /\ ledger' \in Seq(UsageRecord)
      /\ job' = [job EXCEPT ![j] = job'[j]] /\ job'[j] \in Job /\ Log(j, job'[j])
  BY DEF Keeps
<1>3. job' \in [Jobs -> Job] /\ \A i \in Jobs : i # j => job'[i] = job[i]
  <2> DEFINE s == job'[j]
  <2>1. job' = [job EXCEPT ![j] = s] /\ s \in Job
    BY <1>2
  <2> HIDE DEF s
  <2> QED BY <1>1, <2>1
<1>4. \A i \in Jobs : Log(i, job'[i])
  BY <1>1, <1>2, <1>3
<1>5. \A i \in Jobs : job'[i].phase \in Running => job'[i].position \in 1 .. Len(Candidates[i])
  <2> TAKE i \in Jobs
  <2>1. job'[i] \in Job /\ Log(i, job'[i])
    BY <1>3, <1>4
  <2> DEFINE s == job'[i]
  <2>2. s.position \in 0 .. Len(Candidates[i]) /\ (s.phase \in Running => s.position >= 1)
    BY <2>1 DEF Log, BaseLog
  <2>3. Len(Candidates[i]) \in Nat
    BY CandidateFacts
  <2> HIDE DEF s
  <2>4. s.phase \in Running => s.position \in 1 .. Len(Candidates[i])
    BY <2>2, <2>3
  <2> QED BY <2>4 DEF s
<1>6. TypeOK'
  BY <1>1, <1>2, <1>3, <1>5 DEF TypeOK
<1>7. (\A i \in Jobs : Log(i, job[i]))'
  BY <1>4
<1> QED BY <1>6, <1>7 DEF JobInv

\* The clock, a health check and a snapshot change no book and no job.
Quiet ==
    /\ job' = job
    /\ ledger' = ledger
    /\ \A m \in Models : SameBooks(quota[m], quota'[m])

\* The steps that no job takes are quiet.
LEMMA QuietStep ==
    ASSUME JobInv,
           \/ \E p \in Providers : \E healthy \in BOOLEAN : Probe(p, healthy)
           \/ Snapshot \/ Tick \/ UNCHANGED vars
    PROVE  JobInv' /\ Quiet
<1>1. /\ now \in 0 .. MaxTime /\ now \in Nat
      /\ quota \in [Models -> QuotaState] /\ circuit \in [Providers -> Circuit]
      /\ ledger \in Seq(UsageRecord) /\ job \in [Jobs -> Job]
      /\ \A i \in Jobs : Log(i, job[i])
      /\ \A i \in Jobs : job[i].phase \in Running => job[i].position \in 1 .. Len(Candidates[i])
  BY JobFacts DEF JobInv, TypeOK
<1>2. /\ job' = job /\ ledger' = ledger /\ now' \in 0 .. MaxTime
      /\ quota' \in [Models -> QuotaState] /\ circuit' \in [Providers -> Circuit]
      /\ \A m \in Models : SameBooks(quota[m], quota'[m])
  <2>1. CASE \E p \in Providers : \E healthy \in BOOLEAN : Probe(p, healthy)
    <3>1. PICK p \in Providers, healthy \in BOOLEAN : Probe(p, healthy)
      BY <2>1
    <3> QED BY <1>1, <3>1, CircuitTypes DEF Probe, SameBooks
  <2>2. CASE Snapshot
    <3>1. \A m \in Models : /\ Roll(quota[m], now, 0) \in QuotaState
                            /\ SameBooks(quota[m], Roll(quota[m], now, 0))
      BY <1>1, RollKeeps
    <3>2. quota' = [m \in Models |-> Roll(quota[m], now, 0)]
      BY <2>2 DEF Snapshot
    <3>3. quota' \in [Models -> QuotaState] /\ \A m \in Models : SameBooks(quota[m], quota'[m])
      BY <3>1, <3>2
    <3> QED BY <1>1, <2>2, <3>3 DEF Snapshot
  <2>3. CASE Tick
    <3>1. now' \in 0 .. MaxTime
      BY <1>1, <2>3, RouterAssumption DEF Tick
    <3> QED BY <1>1, <2>3, <3>1 DEF Tick, SameBooks
  <2>4. CASE UNCHANGED vars
    BY <1>1, <2>4 DEF vars, SameBooks
  <2> QED BY <2>1, <2>2, <2>3, <2>4
<1>3. TypeOK'
  BY <1>1, <1>2 DEF TypeOK
<1>4. (\A i \in Jobs : Log(i, job[i]))'
  BY <1>1, <1>2
<1> QED BY <1>2, <1>3, <1>4 DEF JobInv, Quiet

\* So every step keeps the invariant, and is a step of one job or of none.
LEMMA Steps ==
    ASSUME JobInv, [Next]_vars
    PROVE  JobInv' /\ (Quiet \/ \E j \in Jobs : StepOf(j))
<1>1. ASSUME NEW j \in Jobs, Start(j) \/ Answer(j) \/ Wake(j) \/ Cancel(j)
      PROVE  StepOf(j)
  <2>1. CASE Start(j)
    BY <2>1, StartStep
  <2>2. CASE Answer(j)
    <3>1. CASE \E usage \in Usages : Succeed(j, usage)
      BY <3>1, SucceedStep
    <3>2. CASE \E error \in Errors : Fail(j, error)
      BY <3>2, FailStep
    <3> QED BY <2>2, <3>1, <3>2 DEF Answer
  <2>3. CASE Wake(j)
    BY <2>3, WakeStep
  <2>4. CASE Cancel(j)
    BY <2>4, CancelStep
  <2> QED BY <1>1, <2>1, <2>2, <2>3, <2>4
<1>2. CASE \E j \in Jobs : Start(j) \/ Answer(j) \/ Wake(j) \/ Cancel(j)
  <2>1. PICK j \in Jobs : StepOf(j)
    BY <1>1, <1>2
  <2> QED BY <2>1, KeepsInv DEF StepOf
<1>3. CASE \/ \E p \in Providers : \E healthy \in BOOLEAN : Probe(p, healthy)
           \/ Snapshot \/ Tick \/ UNCHANGED vars
  BY <1>3, QuietStep
<1> QED BY <1>2, <1>3 DEF Next

\* The initial state.
LEMMA JobInit == Init => JobInv
<1> SUFFICES ASSUME Init PROVE JobInv
  OBVIOUS
<1>1. /\ now = 0
      /\ quota = [m \in Models |-> FreshState(0)]
      /\ circuit = [p \in Providers |-> NewCircuit]
      /\ ledger = << >>
      /\ job = [j \in Jobs |-> NewJob]
  BY DEF Init
<1>2. now \in 0 .. MaxTime
  BY <1>1, RouterAssumption
<1>3. FreshState(0) \in QuotaState
  <2>1. << >> \in Seq(Nat) /\ << >> \in Seq([at : Nat, id : Jobs \X Nat, tokens : Int])
    OBVIOUS
  <2>2. {} \in SUBSET QuotaReservation
    OBVIOUS
  <2> HIDE DEF QuotaReservation
  <2> QED BY <2>1, <2>2 DEF FreshState, QuotaState
<1>4. NewCircuit \in Circuit
  BY DEF NewCircuit, Circuit
<1>5. /\ NewJob \in Job /\ NewJob.phase = "idle" /\ NewJob.position = 0
      /\ NewJob.excluded = {} /\ NewJob.attempts = << >> /\ Len(NewJob.attempts) = 0
  <2>1. << >> \in Seq(AttemptRecord) /\ Len(<< >>) = 0 /\ "idle" \in {"idle"} \cup Running \cup Ended
    OBVIOUS
  <2> QED BY <2>1 DEF NewJob, Job
<1>6. ASSUME NEW j \in Jobs PROVE Log(j, NewJob)
  <2>1. RefusedBy(<< >>) = {}
    BY DEF RefusedBy
  <2>2. Len(Candidates[j]) \in Nat
    BY CandidateFacts
  <2>3. BaseLog(j, NewJob)
    BY <1>5, <2>1, <2>2 DEF BaseLog
  <2> QED BY <1>5, <2>3 DEF Log, Running
<1>7. \A j \in Jobs : job[j] = NewJob
  BY <1>1
<1>8. TypeOK
  <2>1. \A j \in Jobs : job[j].phase \notin Running
    BY <1>5, <1>7 DEF Running
  <2>2. ledger \in Seq(UsageRecord)
    BY <1>1
  <2> QED BY <1>1, <1>2, <1>3, <1>4, <1>5, <2>1, <2>2 DEF TypeOK
<1> QED BY <1>6, <1>7, <1>8 DEF JobInv

\* The variables keep their types, a running job is at one of its candidates, and
\* its record says truly which calls it made and may make.
THEOREM RouterTypeCorrect == Spec => []TypeOK
<1>1. JobInv /\ [Next]_vars => JobInv'
  BY Steps
<1>2. JobInv => TypeOK
  BY DEF JobInv
<1> QED BY JobInit, <1>1, <1>2, PTL DEF Spec

-----------------------------------------------------------------------------
(* The reservations.                                                        *)

\* The jobs whose records f have a call to m in flight, and what they hold.
Callers(f, m) == { j \in Jobs : CallsAt(j, f[j], m) }

HeldOf(f, m) == { HeldWith(j, f[j]) : j \in Callers(f, m) }

\* ReservationsHeld, in these terms.
Holds(q, f) == \A m \in Models : q[m].reservations = HeldOf(f, m)

\* ReservationsHeld says of the job records what Holds says.
LEMMA ReservationsInTheseTerms == ReservationsHeld <=> Holds(quota, job)
<1>1. ASSUME NEW m
      PROVE  Calling(m) = Callers(job, m) /\ { Held(j) : j \in Calling(m) } = HeldOf(job, m)
  <2>1. Calling(m) = Callers(job, m)
    BY HeldIsHeldWith DEF Calling, Callers
  <2>2. \A j \in Jobs : Held(j) = HeldWith(j, job[j])
    BY HeldIsHeldWith
  <2>3. Callers(job, m) \subseteq Jobs
    BY DEF Callers
  <2> QED BY <2>1, <2>2, <2>3 DEF HeldOf
<1> QED BY <1>1 DEF ReservationsHeld, Holds

\* No two jobs hold the same reservation.
LEMMA HeldApart ==
    ASSUME NEW i, NEW j, NEW r, NEW s, i # j
    PROVE  HeldWith(i, r) # HeldWith(j, s)
BY DEF HeldWith, Reservation

\* A step of one job adds the job to the callers of a model, takes it away, or
\* leaves them as they are.
LEMMA CallersStep ==
    ASSUME JobInv, NEW j \in Jobs, Keeps(j), NEW m
    PROVE  LET r == job[j]
               s == job'[j]
               C == Callers(job, m)
               D == Callers(job', m)
           IN  /\ \A i \in Jobs : i # j => job'[i] = job[i]
               /\ (j \in C <=> CallsAt(j, r, m)) /\ (j \in D <=> CallsAt(j, s, m))
               /\ C \subseteq Jobs /\ D \subseteq Jobs
               /\ ~ CallsAt(j, r, m) /\ CallsAt(j, s, m) => D = C \cup {j}
               /\ CallsAt(j, r, m) /\ ~ CallsAt(j, s, m) => D = C \ {j}
               /\ ~ CallsAt(j, r, m) /\ ~ CallsAt(j, s, m) => D = C
<1>1. job \in [Jobs -> Job] /\ job' = [job EXCEPT ![j] = job'[j]]
  BY JobFacts DEF Keeps
<1>2. \A i \in Jobs : i # j => job'[i] = job[i]
  BY <1>1
<1> QED BY <1>2 DEF Callers

\* So the reservations stay those of the callers.
LEMMA HoldsStep ==
    ASSUME JobInv, [Next]_vars, Holds(quota, job)
    PROVE  Holds(quota', job')
<1>1. CASE Quiet
  BY <1>1 DEF Quiet, SameBooks, Holds
<1>2. ASSUME NEW j \in Jobs, StepOf(j) PROVE Holds(quota', job')
  <2> SUFFICES ASSUME NEW m \in Models PROVE quota'[m].reservations = HeldOf(job', m)
    BY DEF Holds
  <2> DEFINE r == job[j]
             s == job'[j]
             C == Callers(job, m)
             D == Callers(job', m)
             R == quota[m].reservations
             N == quota'[m].reservations
  <2>1. /\ \A i \in Jobs : i # j => job'[i] = job[i]
        /\ (j \in C <=> CallsAt(j, r, m)) /\ (j \in D <=> CallsAt(j, s, m))
        /\ C \subseteq Jobs /\ D \subseteq Jobs
        /\ ~ CallsAt(j, r, m) /\ CallsAt(j, s, m) => D = C \cup {j}
        /\ CallsAt(j, r, m) /\ ~ CallsAt(j, s, m) => D = C \ {j}
        /\ ~ CallsAt(j, r, m) /\ ~ CallsAt(j, s, m) => D = C
    BY <1>2, CallersStep DEF StepOf
  <2>2. R = { HeldWith(i, job[i]) : i \in C }
    BY DEF Holds, HeldOf
  <2>3. HeldOf(job', m) = { HeldWith(i, job'[i]) : i \in D }
    BY DEF HeldOf
  <2>4. \A i \in Jobs : i # j => HeldWith(i, job'[i]) = HeldWith(i, job[i])
    BY <2>1
  <2>5. JobStep(j, m)
    BY <1>2 DEF StepOf
  <2>6. CASE ~ CallsAt(j, r, m) /\ CallsAt(j, s, m)
    <3>1. N = R \cup {HeldWith(j, s)}
      BY <2>5, <2>6 DEF JobStep, Opens, Releases, Commits, Elsewhere, OpenedBooks
    <3>2. D = C \cup {j} /\ j \notin C
      BY <2>1, <2>6
    <3> HIDE DEF C, D, R, N
    <3>3. { HeldWith(i, job'[i]) : i \in C \cup {j} }
              = { HeldWith(i, job[i]) : i \in C } \cup {HeldWith(j, job'[j])}
      BY <2>1, <2>4, <3>2
    <3> QED BY <2>2, <2>3, <3>1, <3>2, <3>3 DEF N
  <2>7. CASE CallsAt(j, r, m) /\ ~ CallsAt(j, s, m)
    <3>1. N = R \ {HeldWith(j, r)}
      BY <2>5, <2>7
      DEF JobStep, Opens, Releases, Commits, Elsewhere, ReleasedBooks, CommittedBooks,
          SettledBooks
    <3>2. D = C \ {j} /\ j \in C
      BY <2>1, <2>7
    <3> HIDE DEF C, D, R, N
    <3>3. \A i \in C : i # j => HeldWith(i, job[i]) # HeldWith(j, job[j])
      BY HeldApart
    <3>4. { HeldWith(i, job'[i]) : i \in C \ {j} }
              = { HeldWith(i, job[i]) : i \in C } \ {HeldWith(j, job[j])}
      BY <2>1, <2>4, <3>2, <3>3
    <3> QED BY <2>2, <2>3, <3>1, <3>2, <3>4 DEF N
  <2>8. CASE ~ CallsAt(j, r, m) /\ ~ CallsAt(j, s, m)
    <3>1. N = R
      BY <2>5, <2>8 DEF JobStep, Opens, Releases, Commits, Elsewhere, SameBooks
    <3>2. D = C /\ j \notin C
      BY <2>1, <2>8
    <3> HIDE DEF C, D, R, N
    <3>3. { HeldWith(i, job'[i]) : i \in C } = { HeldWith(i, job[i]) : i \in C }
      BY <2>1, <2>4, <3>2
    <3> QED BY <2>2, <2>3, <3>1, <3>2, <3>3 DEF N
  <2>9. ~ (CallsAt(j, r, m) /\ CallsAt(j, s, m))
    BY <2>5 DEF JobStep, Opens, Releases, Commits, Elsewhere
  <2> QED BY <2>6, <2>7, <2>8, <2>9
<1> QED BY <1>1, <1>2, Steps

\* No call is in flight at first, and nothing is reserved.
LEMMA HoldsInit == ASSUME Init PROVE Holds(quota, job)
<1> SUFFICES ASSUME NEW m \in Models PROVE quota[m].reservations = HeldOf(job, m)
  BY DEF Holds
<1>1. quota[m].reservations = {}
  BY DEF Init, FreshState
<1>2. Callers(job, m) = {}
  BY DEF Init, NewJob, Callers, CallsAt
<1> QED BY <1>1, <1>2 DEF HeldOf

\* However jobs, answers, cancellations and rolls interleave, the open reservations
\* of a model are those of the calls in flight to it.
THEOREM ReservationsAreHeld == Spec => []ReservationsHeld
<1> DEFINE HeldInv == JobInv /\ Holds(quota, job)
<1>1. Init => HeldInv
  BY JobInit, HoldsInit
<1>2. HeldInv /\ [Next]_vars => HeldInv'
  <2> SUFFICES ASSUME JobInv, Holds(quota, job), [Next]_vars
               PROVE  JobInv' /\ Holds(quota, job)'
    OBVIOUS
  <2>1. JobInv' /\ Holds(quota', job')
    BY Steps, HoldsStep
  <2>2. Holds(quota, job)'
    BY <2>1 DEF Holds
  <2> QED BY <2>1, <2>2
<1>3. HeldInv => ReservationsHeld
  BY ReservationsInTheseTerms
<1> HIDE DEF HeldInv
<1> QED BY <1>1, <1>2, <1>3, PTL DEF Spec

-----------------------------------------------------------------------------
(* The calls to a model and its daily counter.                              *)

\* A sum after one of its terms has changed.
LEMMA TotalUpdate ==
    ASSUME NEW S, IsFiniteSet(S), NEW a \in S, NEW f, NEW g,
           \A x \in S : f[x] \in Int /\ g[x] \in Int,
           \A x \in S : x # a => g[x] = f[x]
    PROVE  Total(g, S) - g[a] = Total(f, S) - f[a]
<1> DEFINE T == S \ {a}
<1>1. IsFiniteSet(T) /\ T \subseteq S /\ a \notin T
  BY FS_RemoveElement
<1> HIDE DEF T
<1>2. Total(f, S) = f[a] + Total(f, T)
  BY TotalElement DEF T
<1>3. Total(g, S) = g[a] + Total(g, T)
  BY TotalElement DEF T
<1>4. Total(f, T) = Total(g, T)
  BY <1>1, TotalEqual
<1>5. Total(f, T) \in Int /\ f[a] \in Int /\ g[a] \in Int
  BY <1>1, TotalType
<1> QED BY <1>2, <1>3, <1>4, <1>5

\* The calls to m that the jobs with the records f have made.
MadeBy(f, m) == [j \in Jobs |-> CallsMade(j, f[j], m)]

\* CallsTo adds up what each job record has made.
LEMMA CallsToInTheseTerms == \A m : CallsTo(m) = Total(MadeBy(job, m), Jobs)
<1> TAKE m
<1>1. ASSUME NEW j \in Jobs
      PROVE  CallsMade(j, job[j], m)
                 = Cardinality(AttemptsOn(j, m)) + (IF Unanswered(j, m) THEN 1 ELSE 0)
  <2>1. AnswersOf(job[j], m) = AttemptsOn(j, m)
    BY DEF AnswersOf, AttemptsOn
  <2>2. Pending(j, job[j], m) <=> Unanswered(j, m)
    BY <2>1 DEF Pending, Unanswered, Model
  <2> QED BY <2>1, <2>2 DEF CallsMade
<1>2. MadeBy(job, m)
          = [j \in Jobs |-> Cardinality(AttemptsOn(j, m)) + (IF Unanswered(j, m) THEN 1 ELSE 0)]
  BY <1>1 DEF MadeBy
<1>3. DOMAIN MadeBy(job, m) = Jobs
  BY DEF MadeBy
<1>4. CallsTo(m) = SumFunction(MadeBy(job, m))
  BY <1>2, Zenon DEF CallsTo
<1>5. SumFunction(MadeBy(job, m)) = Total(MadeBy(job, m), DOMAIN MadeBy(job, m))
  BY Zenon DEF SumFunction, Total
<1> QED BY <1>3, <1>4, <1>5

\* CallsWithinDailyLimit, in these terms.
Counted(q, f) ==
    \A m \in Models :
        /\ q[m].dailyRequests = Total(MadeBy(f, m), Jobs)
        /\ ModelLimits[m].requestsPerDay # NoLimit =>
               q[m].dailyRequests <= ModelLimits[m].requestsPerDay

\* Every step that starts a call counts it.
LEMMA CountedStep ==
    ASSUME JobInv, [Next]_vars, Counted(quota, job)
    PROVE  Counted(quota', job')
<1>1. CASE Quiet
  BY <1>1 DEF Quiet, SameBooks, Counted
<1>2. ASSUME NEW j \in Jobs, StepOf(j) PROVE Counted(quota', job')
  <2> SUFFICES ASSUME NEW m \in Models
               PROVE  /\ quota'[m].dailyRequests = Total(MadeBy(job', m), Jobs)
                      /\ ModelLimits[m].requestsPerDay # NoLimit =>
                             quota'[m].dailyRequests <= ModelLimits[m].requestsPerDay
    BY DEF Counted
  <2> DEFINE f == MadeBy(job, m)
             g == MadeBy(job', m)
             d == quota[m].dailyRequests
             e == quota'[m].dailyRequests
             limit == ModelLimits[m].requestsPerDay
  <2>1. JobInv'
    BY Steps
  <2>2. job \in [Jobs -> Job] /\ job' \in [Jobs -> Job]
    BY <2>1 DEF JobInv, TypeOK
  <2>3. \A i \in Jobs : i # j => job'[i] = job[i]
    BY <1>2, CallersStep DEF StepOf
  <2>4. \A i \in Jobs : /\ f[i] = CallsMade(i, job[i], m) /\ f[i] \in Nat
                        /\ g[i] = CallsMade(i, job'[i], m) /\ g[i] \in Nat
    BY <2>2, CallsMadeFacts DEF MadeBy
  <2>5. \A i \in Jobs : i # j => g[i] = f[i]
    BY <2>3, <2>4
  <2>6. /\ d = Total(f, Jobs)
        /\ limit # NoLimit => d <= limit
    BY DEF Counted
  <2>7. d \in Nat /\ limit \in Nat \cup {NoLimit}
    <3>1. quota[m] \in QuotaState /\ ModelLimits[m] \in Limits
      BY JobFacts, RouterAssumption
    <3> QED BY <3>1 DEF QuotaState, Limits, Limit
  <2>8. JobStep(j, m)
    BY <1>2 DEF StepOf
  <2>9. \/ g[j] = f[j] + 1 /\ e = d + 1 /\ (limit # NoLimit => d < limit)
        \/ g[j] = f[j] /\ e = d
    BY <2>4, <2>8
    DEF JobStep, Opens, Releases, Commits, Elsewhere, OpenedBooks, ReleasedBooks,
        CommittedBooks, SettledBooks, SameBooks
  <2> HIDE DEF f, g, d, e, limit
  <2>10. Total(g, Jobs) - g[j] = Total(f, Jobs) - f[j]
    <3>1. \A i \in Jobs : f[i] \in Int /\ g[i] \in Int
      BY <2>4
    <3>2. IsFiniteSet(Jobs)
      BY RouterAssumption
    <3> QED BY <2>5, <3>1, <3>2, TotalUpdate
  <2>11. Total(f, Jobs) \in Int /\ Total(g, Jobs) \in Int
    <3>1. \A i \in Jobs : f[i] \in Int /\ g[i] \in Int
      BY <2>4
    <3> QED BY <3>1, TotalType, RouterAssumption
  <2>12. e = Total(g, Jobs) /\ (limit # NoLimit => e <= limit)
    BY <2>4, <2>6, <2>7, <2>9, <2>10, <2>11
  <2> QED BY <2>12 DEF e, g, limit
<1> QED BY <1>1, <1>2, Steps

\* Nobody has called anybody at first.
LEMMA CountedInit == ASSUME Init PROVE Counted(quota, job)
<1> SUFFICES ASSUME NEW m \in Models
             PROVE  /\ quota[m].dailyRequests = Total(MadeBy(job, m), Jobs)
                    /\ ModelLimits[m].requestsPerDay # NoLimit =>
                           quota[m].dailyRequests <= ModelLimits[m].requestsPerDay
  BY DEF Counted
<1> DEFINE f == MadeBy(job, m)
<1>1. quota[m].dailyRequests = 0
  BY DEF Init, FreshState
<1>2. \A j \in Jobs : f[j] \in Int /\ f[j] = 0
  <2> TAKE j \in Jobs
  <2>1. job[j].phase = "idle" /\ job[j].attempts = << >> /\ Len(job[j].attempts) = 0
    BY DEF Init, NewJob
  <2>2. AnswersOf(job[j], m) = {} /\ ~ Pending(j, job[j], m)
    BY <2>1 DEF AnswersOf, Pending
  <2>3. CallsMade(j, job[j], m) = 0
    BY <2>2, FS_EmptySet DEF CallsMade
  <2> QED BY <2>3 DEF MadeBy
<1> HIDE DEF f
<1>3. Total(f, Jobs) = 0
  <2>1. {} \in SUBSET Jobs /\ \A x \in Jobs \ {} : f[x] = 0
    BY <1>2
  <2>2. Total(f, Jobs) = Total(f, {})
    BY <1>2, <2>1, TotalSubset, RouterAssumption
  <2> QED BY <2>2, TotalEmpty
<1>4. ModelLimits[m].requestsPerDay \in Nat \cup {NoLimit}
  BY RouterAssumption DEF Limits, Limit
<1> QED BY <1>1, <1>3, <1>4 DEF f

\* Every call is one request of the daily counter, and however the jobs interleave
\* they make no more calls to a model than its requests_per_day.
THEOREM DailyLimitHolds == Spec => []CallsWithinDailyLimit
<1> DEFINE DailyInv == JobInv /\ Counted(quota, job)
<1>1. Init => DailyInv
  BY JobInit, CountedInit
<1>2. DailyInv /\ [Next]_vars => DailyInv'
  <2> SUFFICES ASSUME JobInv, Counted(quota, job), [Next]_vars
               PROVE  JobInv' /\ Counted(quota, job)'
    OBVIOUS
  <2>1. JobInv' /\ Counted(quota', job')
    BY Steps, CountedStep
  <2>2. Counted(quota, job)'
    BY <2>1 DEF Counted
  <2> QED BY <2>1, <2>2
<1>3. DailyInv => CallsWithinDailyLimit
  BY CallsToInTheseTerms DEF Counted, CallsWithinDailyLimit
<1> HIDE DEF DailyInv
<1> QED BY <1>1, <1>2, <1>3, PTL DEF Spec

-----------------------------------------------------------------------------
(* The books: the daily counters, the ledger and the calls in flight.       *)

Fields == {"tokens", "cost"}

DailyOf(q, field) == IF field = "tokens" THEN q.dailyTokens ELSE q.dailyCost

RecordsOf(l, m) == { i \in 1 .. Len(l) : l[i].model = m }

UsageIn(l, field) == [i \in 1 .. Len(l) |-> l[i].usage[field]]

\* What the records of m in ledger l, and the calls in flight to m, add up to.
Recorded(l, m, field) == Total(UsageIn(l, field), RecordsOf(l, m))

Reserving(f, field) == [j \in Jobs |-> HeldWith(j, f[j])[field]]

Reserved(f, m, field) == Total(Reserving(f, field), Callers(f, m))

NoRefunds(l) == \A i \in 1 .. Len(l) : l[i].usage.tokens >= 0 /\ l[i].usage.cost >= 0

\* BooksBalance, in these terms.
Balanced(q, l, f) ==
    NoRefunds(l) =>
        \A m \in Models :
            /\ \A field \in Fields :
                   DailyOf(q[m], field) = Recorded(l, m, field) + Reserved(f, m, field)
            /\ q[m].dailyRequests >= Cardinality(RecordsOf(l, m)) + Cardinality(Callers(f, m))

\* The records of a model, their number and what they report.
LEMMA LedgerFacts ==
    ASSUME NEW l \in Seq(UsageRecord), NEW m, NEW field \in Fields
    PROVE  /\ Len(l) \in Nat
           /\ RecordsOf(l, m) \subseteq 1 .. Len(l)
           /\ IsFiniteSet(RecordsOf(l, m)) /\ Cardinality(RecordsOf(l, m)) \in Nat
           /\ \A i \in 1 .. Len(l) : UsageIn(l, field)[i] \in Int
           /\ NoRefunds(l) => \A i \in 1 .. Len(l) : UsageIn(l, field)[i] >= 0
<1>1. Len(l) \in Nat /\ \A i \in 1 .. Len(l) : l[i] \in UsageRecord
  BY ElementOfSeq
<1>2. RecordsOf(l, m) \subseteq 1 .. Len(l)
  BY DEF RecordsOf
<1>3. IsFiniteSet(1 .. Len(l))
  BY <1>1, FS_Interval
<1>4. IsFiniteSet(RecordsOf(l, m)) /\ Cardinality(RecordsOf(l, m)) \in Nat
  BY <1>2, <1>3, FS_Subset, FS_CardinalityType
<1>5. ASSUME NEW i \in 1 .. Len(l)
      PROVE  /\ UsageIn(l, field)[i] \in Int
             /\ NoRefunds(l) => UsageIn(l, field)[i] >= 0
  <2> DEFINE u == l[i].usage
  <2>1. UsageIn(l, field)[i] = u[field]
    BY DEF UsageIn
  <2>2. /\ u.tokens \in Int /\ u.cost \in Int
        /\ NoRefunds(l) => u.tokens >= 0 /\ u.cost >= 0
    BY <1>1 DEF UsageRecord, Amount, NoRefunds
  <2>3. field = "tokens" \/ field = "cost"
    BY DEF Fields
  <2> QED BY <2>1, <2>2, <2>3
<1> QED BY <1>1, <1>2, <1>4, <1>5

\* One more record.
LEMMA LedgerAppend ==
    ASSUME NEW l \in Seq(UsageRecord), NEW x \in UsageRecord, NEW m, NEW field \in Fields
    PROVE  LET n == Append(l, x)
           IN  /\ Recorded(n, m, field)
                      = Recorded(l, m, field) + (IF x.model = m THEN x.usage[field] ELSE 0)
               /\ Cardinality(RecordsOf(n, m))
                      = Cardinality(RecordsOf(l, m)) + (IF x.model = m THEN 1 ELSE 0)
               /\ NoRefunds(n) =>
                      NoRefunds(l) /\ x.usage.tokens >= 0 /\ x.usage.cost >= 0
<1> DEFINE n == Append(l, x)
           A == RecordsOf(l, m)
           B == RecordsOf(n, m)
           f == UsageIn(l, field)
           g == UsageIn(n, field)
           k == Len(l) + 1
<1>1. /\ Len(l) \in Nat /\ A \subseteq 1 .. Len(l)
      /\ IsFiniteSet(A) /\ Cardinality(A) \in Nat
      /\ \A i \in 1 .. Len(l) : f[i] \in Int
  BY LedgerFacts
<1>2. n \in Seq(UsageRecord) /\ Len(n) = k /\ n[k] = x /\ \A i \in 1 .. Len(l) : n[i] = l[i]
  BY AppendProperties
<1>3. \A i \in 1 .. k : g[i] \in Int
  <2> HIDE DEF n, g, k
  <2>1. \A i \in 1 .. Len(n) : g[i] \in Int
    BY <1>2, LedgerFacts DEF g
  <2> QED BY <1>2, <2>1
<1>4. /\ B = IF x.model = m THEN A \cup {k} ELSE A
      /\ k \notin A
  <2> HIDE DEF n
  <2> QED BY <1>1, <1>2 DEF RecordsOf
<1>5. (\A i \in 1 .. Len(l) : g[i] = f[i]) /\ g[k] = x.usage[field]
  <2> HIDE DEF n
  <2> QED BY <1>1, <1>2 DEF UsageIn
<1>6. NoRefunds(n) => NoRefunds(l) /\ x.usage.tokens >= 0 /\ x.usage.cost >= 0
  <2> HIDE DEF n
  <2>1. k \in 1 .. k /\ \A i \in 1 .. Len(l) : i \in 1 .. k
    BY <1>1
  <2> QED BY <1>2, <2>1 DEF NoRefunds
<1>7. k \in 1 .. k /\ A \subseteq 1 .. k
  BY <1>1
<1> HIDE DEF n, A, B, f, g, k
<1>8. Total(g, A) = Total(f, A)
  <2>1. \A i \in A : f[i] \in Int /\ g[i] \in Int /\ f[i] = g[i]
    BY <1>1, <1>5
  <2> QED BY <1>1, <2>1, TotalEqual
<1>9. Total(g, A \cup {k}) = Total(g, A) + g[k]
  <2>1. \A i \in A \cup {k} : g[i] \in Int
    BY <1>3, <1>7
  <2> QED BY <1>1, <1>4, <2>1, TotalAdd
<1>10. Cardinality(A \cup {k}) = Cardinality(A) + 1
  BY <1>1, <1>4, FS_AddElement
<1>11. Total(f, A) \in Int
  <2>1. \A i \in A : f[i] \in Int
    BY <1>1
  <2> QED BY <1>1, <2>1, TotalType
<1>12. Total(g, B) = Total(f, A) + (IF x.model = m THEN x.usage[field] ELSE 0)
  <2>1. CASE x.model = m
    BY <1>4, <1>5, <1>8, <1>9, <2>1
  <2>2. CASE x.model # m
    BY <1>4, <1>8, <1>11, <2>2
  <2> QED BY <2>1, <2>2
<1>13. Cardinality(B) = Cardinality(A) + (IF x.model = m THEN 1 ELSE 0)
  BY <1>1, <1>4, <1>10
<1> QED BY <1>6, <1>12, <1>13 DEF Recorded, n, A, B, f, g

\* What the calls in flight hold is never negative.
LEMMA ReservedFacts ==
    ASSUME JobInv, NEW m, NEW field \in Fields
    PROVE  /\ IsFiniteSet(Callers(job, m)) /\ Cardinality(Callers(job, m)) \in Nat
           /\ \A i \in Callers(job, m) : /\ Reserving(job, field)[i] \in Int
                                         /\ Reserving(job, field)[i] >= 0
           /\ Callers(job, m) \subseteq Jobs
<1>1. Callers(job, m) \subseteq Jobs
  BY DEF Callers
<1>2. IsFiniteSet(Callers(job, m)) /\ Cardinality(Callers(job, m)) \in Nat
  BY <1>1, FS_Subset, FS_CardinalityType, RouterAssumption
<1>3. ASSUME NEW i \in Callers(job, m)
      PROVE  Reserving(job, field)[i] \in Int /\ Reserving(job, field)[i] >= 0
  <2>1. i \in Jobs /\ job[i].phase = "calling"
    BY DEF Callers, CallsAt
  <2> DEFINE e == EstimateFor(i, Candidates[i][job[i].position])
  <2>2. /\ e \in Amount /\ e.tokens >= 0 /\ e.cost >= 0
    BY <2>1, RunningAt, EstimateForType DEF Running
  <2>3. e.tokens \in Int /\ e.cost \in Int
    BY <2>2 DEF Amount
  <2> HIDE DEF e
  <2>4. Reserving(job, field)[i] = HeldWith(i, job[i])[field]
    BY <2>1 DEF Reserving
  <2>5. /\ HeldWith(i, job[i])["tokens"] = e.tokens
        /\ HeldWith(i, job[i])["cost"] = e.cost
    BY DEF HeldWith, Reservation, e
  <2>6. field = "tokens" \/ field = "cost"
    BY DEF Fields
  <2> QED BY <2>2, <2>3, <2>4, <2>5, <2>6
<1> QED BY <1>1, <1>2, <1>3

\* The sums after a caller has come or gone.
LEMMA TotalGrows ==
    ASSUME NEW C, IsFiniteSet(C), NEW a, a \notin C, NEW f, NEW g,
           \A x \in C : f[x] \in Int /\ g[x] = f[x], g[a] \in Int
    PROVE  Total(g, C \cup {a}) = Total(f, C) + g[a]
<1>1. \A x \in C \cup {a} : g[x] \in Int
  OBVIOUS
<1>2. Total(g, C \cup {a}) = Total(g, C) + g[a]
  BY <1>1, TotalAdd
<1>3. \A x \in C : f[x] \in Int /\ g[x] \in Int /\ f[x] = g[x]
  OBVIOUS
<1>4. Total(f, C) = Total(g, C)
  BY <1>3, TotalEqual
<1> QED BY <1>2, <1>4

\* Taking an element out of a sum takes its term out.
LEMMA TotalShrinks ==
    ASSUME NEW C, IsFiniteSet(C), NEW a \in C, NEW f, NEW g,
           \A x \in C : f[x] \in Int, \A x \in C : x # a => g[x] = f[x]
    PROVE  Total(g, C \ {a}) = Total(f, C) - f[a] /\ Total(f, C \ {a}) = Total(f, C) - f[a]
<1> DEFINE T == C \ {a}
<1>1. IsFiniteSet(T) /\ \A x \in T : f[x] \in Int /\ g[x] \in Int /\ f[x] = g[x]
  BY FS_RemoveElement
<1> HIDE DEF T
<1>2. Total(f, T) = Total(g, T) /\ Total(f, T) \in Int
  BY <1>1, TotalEqual, TotalType
<1>3. Total(f, C) = f[a] + Total(f, T)
  BY TotalElement DEF T
<1> QED BY <1>2, <1>3 DEF T

\* The same of the callers of a model.
LEMMA ReservedStep ==
    ASSUME JobInv, NEW j \in Jobs, Keeps(j), NEW m, NEW field \in Fields
    PROVE  LET r == job[j]
               s == job'[j]
               old == Reserved(job, m, field)
               new == Reserved(job', m, field)
               count == Cardinality(Callers(job, m))
               after == Cardinality(Callers(job', m))
           IN  /\ old \in Int /\ old >= 0 /\ new \in Int
               /\ ~ CallsAt(j, r, m) /\ CallsAt(j, s, m) =>
                      new = old + HeldWith(j, s)[field] /\ after = count + 1
               /\ CallsAt(j, r, m) /\ ~ CallsAt(j, s, m) =>
                      /\ new = old - HeldWith(j, r)[field] /\ after = count - 1
                      /\ new >= 0
               /\ ~ CallsAt(j, r, m) /\ ~ CallsAt(j, s, m) => new = old /\ after = count
<1> DEFINE r == job[j]
           s == job'[j]
           C == Callers(job, m)
           D == Callers(job', m)
           f == Reserving(job, field)
           g == Reserving(job', field)
<1>1. JobInv'
  BY KeepsInv
<1>2. /\ \A i \in Jobs : i # j => job'[i] = job[i]
      /\ (j \in C <=> CallsAt(j, r, m)) /\ (j \in D <=> CallsAt(j, s, m))
      /\ ~ CallsAt(j, r, m) /\ CallsAt(j, s, m) => D = C \cup {j}
      /\ CallsAt(j, r, m) /\ ~ CallsAt(j, s, m) => D = C \ {j}
      /\ ~ CallsAt(j, r, m) /\ ~ CallsAt(j, s, m) => D = C
  BY CallersStep
<1>3. /\ IsFiniteSet(C) /\ Cardinality(C) \in Nat /\ C \subseteq Jobs
      /\ \A i \in C : f[i] \in Int /\ f[i] >= 0
  BY ReservedFacts
<1>4. /\ IsFiniteSet(D) /\ D \subseteq Jobs
      /\ \A i \in D : g[i] \in Int /\ g[i] >= 0
  <2>1. (/\ IsFiniteSet(Callers(job, m)) /\ Callers(job, m) \subseteq Jobs
         /\ \A i \in Callers(job, m) : /\ Reserving(job, field)[i] \in Int
                                       /\ Reserving(job, field)[i] >= 0)'
    BY <1>1, ReservedFacts, PTL
  <2> QED BY <2>1
<1>5. /\ \A i \in Jobs : i # j => g[i] = f[i]
      /\ f[j] = HeldWith(j, r)[field] /\ g[j] = HeldWith(j, s)[field]
  BY <1>2 DEF Reserving
<1> HIDE DEF r, s, C, D, f, g
<1>6. Total(f, C) \in Int /\ Total(f, C) >= 0 /\ Total(g, D) \in Int /\ Total(g, D) >= 0
  BY <1>3, <1>4, TotalType, TotalNonNegative
<1>7. CASE ~ CallsAt(j, r, m) /\ CallsAt(j, s, m)
  <2>1. j \notin C /\ j \in D /\ D = C \cup {j}
    BY <1>2, <1>7
  <2>2. \A i \in C : f[i] \in Int /\ g[i] = f[i]
    BY <1>3, <1>5, <2>1
  <2>3. Total(g, D) = Total(f, C) + g[j]
    BY <1>3, <1>4, <2>1, <2>2, TotalGrows
  <2>4. Cardinality(D) = Cardinality(C) + 1
    BY <1>3, <2>1, FS_AddElement
  <2> QED BY <1>5, <1>6, <1>7, <2>3, <2>4 DEF Reserved, r, s, C, D, f, g
<1>8. CASE CallsAt(j, r, m) /\ ~ CallsAt(j, s, m)
  <2>1. j \in C /\ D = C \ {j}
    BY <1>2, <1>8
  <2>2. \A i \in C : i # j => g[i] = f[i]
    BY <1>3, <1>5
  <2>3. Total(g, D) = Total(f, C) - f[j]
    BY <1>3, <2>1, <2>2, TotalShrinks
  <2>4. Cardinality(D) = Cardinality(C) - 1
    BY <1>3, <2>1, FS_RemoveElement
  <2> QED BY <1>5, <1>6, <1>8, <2>3, <2>4 DEF Reserved, r, s, C, D, f, g
<1>9. CASE ~ CallsAt(j, r, m) /\ ~ CallsAt(j, s, m)
  <2>1. j \notin C /\ D = C
    BY <1>2, <1>9
  <2>2. \A i \in C : f[i] \in Int /\ g[i] \in Int /\ f[i] = g[i]
    BY <1>3, <1>5, <2>1
  <2>3. Total(g, D) = Total(f, C)
    BY <1>3, <2>1, <2>2, TotalEqual
  <2> QED BY <1>6, <1>9, <2>1, <2>3 DEF Reserved, r, s, C, D, f, g
<1>10. CASE CallsAt(j, r, m) /\ CallsAt(j, s, m)
  BY <1>6, <1>10 DEF Reserved, r, s, C, D, f, g
<1> QED BY <1>7, <1>8, <1>9, <1>10

\* The books that are opened, released, committed or left alone, field by field.
LEMMA BooksByField ==
    ASSUME NEW q \in QuotaState, NEW n, NEW field \in Fields
    PROVE  /\ DailyOf(q, field) \in Int
           /\ \A h : OpenedBooks(q, n, h) => DailyOf(n, field) = DailyOf(q, field) + h[field]
           /\ \A h : ReleasedBooks(q, n, h) /\ h \in q.reservations =>
                  DailyOf(n, field) = NonNegative(DailyOf(q, field) - h[field])
           /\ \A h, u : CommittedBooks(q, n, h, u) /\ h \in q.reservations =>
                  DailyOf(n, field) = DailyOf(q, field) + NonNegative(u[field]) - h[field]
           /\ SameBooks(q, n) => DailyOf(n, field) = DailyOf(q, field)
<1>1. CASE field = "tokens"
  BY <1>1 DEF QuotaState, DailyOf, OpenedBooks, ReleasedBooks, CommittedBooks, SameBooks
<1>2. CASE field = "cost"
  BY <1>2 DEF QuotaState, DailyOf, OpenedBooks, ReleasedBooks, CommittedBooks, SameBooks
<1> QED BY <1>1, <1>2 DEF Fields

\* What a call holds is a number.
LEMMA HeldField ==
    ASSUME NEW j \in Jobs, NEW r, NEW m \in Models, CallsAt(j, r, m), NEW field \in Fields
    PROVE  HeldWith(j, r)[field] \in Int
<1>1. m = Candidates[j][r.position]
  BY DEF CallsAt
<1>2. /\ HeldWith(j, r)["tokens"] = EstimateFor(j, m).tokens
      /\ HeldWith(j, r)["cost"] = EstimateFor(j, m).cost
  BY <1>1 DEF HeldWith, Reservation
<1>3. EstimateFor(j, m).tokens \in Int /\ EstimateFor(j, m).cost \in Int
  BY EstimateForType DEF Amount
<1>4. field = "tokens" \/ field = "cost"
  BY DEF Fields
<1> QED BY <1>2, <1>3, <1>4

\* A step that opens, closes or books a call does the same to the tracker and to the
\* ledger and the calls in flight.
LEMMA BalancedJobStep ==
    ASSUME JobInv, NEW j \in Jobs, StepOf(j), NEW m \in Models, NEW field \in Fields,
           Holds(quota, job), NoRefunds(ledger'),
           NoRefunds(ledger) =>
               /\ DailyOf(quota[m], field)
                      = Recorded(ledger, m, field) + Reserved(job, m, field)
               /\ quota[m].dailyRequests
                      >= Cardinality(RecordsOf(ledger, m)) + Cardinality(Callers(job, m))
    PROVE  /\ DailyOf(quota'[m], field)
                  = Recorded(ledger', m, field) + Reserved(job', m, field)
           /\ quota'[m].dailyRequests
                  >= Cardinality(RecordsOf(ledger', m)) + Cardinality(Callers(job', m))
<1> DEFINE r == job[j]
           s == job'[j]
           q == quota[m]
           n == quota'[m]
           l == ledger
           k == ledger'
           before == Reserved(job, m, field)
           after == Reserved(job', m, field)
           count == Cardinality(Callers(job, m))
           countAfter == Cardinality(Callers(job', m))
           rec == Recorded(l, m, field)
           recAfter == Recorded(k, m, field)
           num == Cardinality(RecordsOf(l, m))
           numAfter == Cardinality(RecordsOf(k, m))
<1>1. /\ q \in QuotaState /\ l \in Seq(UsageRecord) /\ r \in Job
  BY JobFacts
<1>2. /\ before \in Int /\ before >= 0 /\ after \in Int
      /\ ~ CallsAt(j, r, m) /\ CallsAt(j, s, m) =>
             after = before + HeldWith(j, s)[field] /\ countAfter = count + 1
      /\ CallsAt(j, r, m) /\ ~ CallsAt(j, s, m) =>
             after = before - HeldWith(j, r)[field] /\ countAfter = count - 1 /\ after >= 0
      /\ ~ CallsAt(j, r, m) /\ ~ CallsAt(j, s, m) => after = before /\ countAfter = count
  BY ReservedStep DEF StepOf
<1>3. JobStep(j, m)
  BY DEF StepOf
<1>4. CallsAt(j, r, m) => HeldWith(j, r) \in q.reservations
  BY DEF Holds, HeldOf, Callers
<1>5. /\ num \in Nat /\ rec \in Int /\ (NoRefunds(l) => rec >= 0)
  <2> DEFINE A == RecordsOf(l, m)
             f == UsageIn(l, field)
  <2>1. /\ IsFiniteSet(A) /\ Cardinality(A) \in Nat
        /\ \A i \in A : f[i] \in Int
        /\ NoRefunds(l) => \A i \in A : f[i] >= 0
    BY <1>1, LedgerFacts
  <2> HIDE DEF A, f
  <2>2. Total(f, A) \in Int
    BY <2>1, TotalType
  <2>3. NoRefunds(l) => Total(f, A) >= 0
    BY <2>1, TotalNonNegative
  <2> QED BY <2>1, <2>2, <2>3 DEF Recorded, A, f
<1>6. count \in Nat
  BY ReservedFacts
<1>7. /\ DailyOf(q, field) \in Int /\ q.dailyRequests \in Nat
      /\ \A h : OpenedBooks(q, n, h) => DailyOf(n, field) = DailyOf(q, field) + h[field]
      /\ \A h : ReleasedBooks(q, n, h) /\ h \in q.reservations =>
             DailyOf(n, field) = NonNegative(DailyOf(q, field) - h[field])
      /\ \A h, u : CommittedBooks(q, n, h, u) /\ h \in q.reservations =>
             DailyOf(n, field) = DailyOf(q, field) + NonNegative(u[field]) - h[field]
      /\ SameBooks(q, n) => DailyOf(n, field) = DailyOf(q, field)
  <2>1. q.dailyRequests \in Nat
    BY <1>1 DEF QuotaState
  <2> HIDE DEF q, n
  <2> QED BY <1>1, <2>1, BooksByField
<1>8. NoRefunds(l) => /\ DailyOf(q, field) = rec + before
                      /\ q.dailyRequests >= num + count
  OBVIOUS
<1>9. k = l => rec = recAfter /\ num = numAfter /\ NoRefunds(l)
  OBVIOUS
<1>10. NoRefunds(k)
  OBVIOUS
<1> HIDE DEF r, s, q, n, l, k, before, after, count, countAfter, rec, recAfter, num, numAfter
<1>11. CASE Opens(j, m, r, s, q, n)
  <2>1. /\ k = l /\ n.dailyRequests = q.dailyRequests + 1
        /\ OpenedBooks(q, n, HeldWith(j, s))
        /\ ~ CallsAt(j, r, m) /\ CallsAt(j, s, m)
    BY <1>11 DEF Opens, OpenedBooks, k, l
  <2>2. DailyOf(n, field) = DailyOf(q, field) + HeldWith(j, s)[field]
    BY <1>7, <2>1
  <2>3. after = before + HeldWith(j, s)[field] /\ countAfter = count + 1
    BY <1>2, <2>1
  <2> DEFINE x == HeldWith(j, s)[field]
             daily == DailyOf(q, field)
  <2>4. x \in Int
    BY <2>1, HeldField
  <2> HIDE DEF x, daily
  <2>5. DailyOf(n, field) = recAfter + after
    <3>1. DailyOf(n, field) = daily + x /\ after = before + x /\ daily = rec + before
          /\ recAfter = rec
      BY <1>8, <1>9, <2>1, <2>2, <2>3 DEF x, daily
    <3> QED BY <1>2, <1>5, <2>4, <3>1
  <2>6. n.dailyRequests >= numAfter + countAfter
    BY <1>5, <1>6, <1>7, <1>8, <1>9, <2>1, <2>3
  <2> QED BY <2>5, <2>6 DEF n, numAfter, countAfter, recAfter, after, k
<1>12. CASE Releases(j, m, r, s, q, n)
  <2>1. /\ k = l /\ n.dailyRequests = q.dailyRequests
        /\ ReleasedBooks(q, n, HeldWith(j, r))
        /\ CallsAt(j, r, m) /\ ~ CallsAt(j, s, m)
    BY <1>12 DEF Releases, ReleasedBooks, SettledBooks, k, l
  <2> DEFINE x == HeldWith(j, r)[field]
             daily == DailyOf(q, field)
  <2>2. DailyOf(n, field) = NonNegative(daily - x)
    BY <1>4, <1>7, <2>1
  <2>3. after = before - x /\ countAfter = count - 1 /\ after >= 0
    BY <1>2, <2>1
  <2>4. x \in Int
    BY <2>1, HeldField
  <2>5. daily = rec + before /\ recAfter = rec /\ rec >= 0
    BY <1>5, <1>8, <1>9, <2>1
  <2> HIDE DEF x, daily
  <2>6. daily - x = rec + after /\ daily - x >= 0
    BY <1>2, <1>5, <2>3, <2>4, <2>5
  <2>7. \A i \in Int : i >= 0 => NonNegative(i) = i
    BY DEF NonNegative
  <2>8. daily - x \in Int
    BY <1>2, <1>5, <2>4, <2>5
  <2>9. DailyOf(n, field) = recAfter + after
    BY <2>2, <2>5, <2>6, <2>7, <2>8
  <2>10. n.dailyRequests >= numAfter + countAfter
    BY <1>5, <1>6, <1>7, <1>8, <1>9, <2>1, <2>3
  <2> QED BY <2>9, <2>10 DEF n, numAfter, countAfter, recAfter, after, k
<1>13. CASE Commits(j, m, r, s, q, n)
  <2>1. PICK u \in Amount :
            /\ CommittedBooks(q, n, HeldWith(j, r), u)
            /\ k = Append(l, [job |-> j, model |-> m, usage |-> u])
    BY <1>13 DEF Commits, k, l
  <2>2. /\ n.dailyRequests = q.dailyRequests
        /\ CallsAt(j, r, m) /\ ~ CallsAt(j, s, m)
    BY <1>13, <2>1 DEF Commits, CommittedBooks, SettledBooks
  <2> DEFINE x == HeldWith(j, r)[field]
             y == u[field]
             daily == DailyOf(q, field)
             w == [job |-> j, model |-> m, usage |-> u]
  <2>3. DailyOf(n, field) = daily + NonNegative(y) - x
    BY <1>4, <1>7, <2>1, <2>2
  <2>4. after = before - x /\ countAfter = count - 1
    BY <1>2, <2>2
  <2>5. x \in Int
    BY <2>2, HeldField
  <2>6. w \in UsageRecord /\ w.model = m /\ w.usage = u
    BY DEF UsageRecord
  <2> HIDE DEF w
  <2>7. /\ recAfter = rec + y /\ numAfter = num + 1
        /\ NoRefunds(l) /\ u.tokens >= 0 /\ u.cost >= 0
    <3>1. /\ Recorded(Append(l, w), m, field) = rec + u[field]
          /\ Cardinality(RecordsOf(Append(l, w), m)) = num + 1
          /\ NoRefunds(Append(l, w)) =>
                 NoRefunds(l) /\ u.tokens >= 0 /\ u.cost >= 0
      BY <1>1, <2>6, LedgerAppend DEF rec, num
    <3> QED BY <1>10, <2>1, <3>1 DEF w, recAfter, numAfter
  <2>8. y \in Int /\ y >= 0
    <3>1. u.tokens \in Int /\ u.cost \in Int
      BY DEF Amount
    <3>2. field = "tokens" \/ field = "cost"
      BY DEF Fields
    <3> QED BY <2>7, <3>1, <3>2
  <2>9. daily = rec + before /\ q.dailyRequests >= num + count
    BY <1>8, <2>7
  <2> HIDE DEF x, y, daily
  <2>10. NonNegative(y) = y
    BY <2>8 DEF NonNegative
  <2>11. DailyOf(n, field) = recAfter + after
    BY <1>2, <1>5, <2>3, <2>4, <2>5, <2>7, <2>8, <2>9, <2>10
  <2>12. n.dailyRequests >= numAfter + countAfter
    BY <1>5, <1>6, <1>7, <2>2, <2>4, <2>7, <2>9
  <2> QED BY <2>11, <2>12 DEF n, numAfter, countAfter, recAfter, after, k
<1>14. CASE Elsewhere(j, m, r, s, q, n)
  <2>1. /\ SameBooks(q, n) /\ n.dailyRequests = q.dailyRequests
        /\ ~ CallsAt(j, r, m) /\ ~ CallsAt(j, s, m)
        /\ k = l \/ \E x \in UsageRecord : x.model # m /\ k = Append(l, x)
    BY <1>14 DEF Elsewhere, SameBooks, k, l
  <2>2. recAfter = rec /\ numAfter = num /\ NoRefunds(l)
    <3>1. ASSUME NEW x \in UsageRecord, x.model # m, k = Append(l, x)
          PROVE  recAfter = rec /\ numAfter = num /\ NoRefunds(l)
      <4>1. /\ Recorded(Append(l, x), m, field) = rec + 0
            /\ Cardinality(RecordsOf(Append(l, x), m)) = num + 0
            /\ NoRefunds(Append(l, x)) => NoRefunds(l)
        BY <1>1, <3>1, LedgerAppend DEF rec, num
      <4>2. recAfter = rec + 0 /\ numAfter = num + 0 /\ NoRefunds(l)
        BY <1>10, <3>1, <4>1 DEF recAfter, numAfter
      <4> QED BY <1>5, <4>2
    <3> QED BY <1>9, <2>1, <3>1
  <2>3. DailyOf(n, field) = DailyOf(q, field) /\ after = before /\ countAfter = count
    BY <1>2, <1>7, <2>1
  <2>4. DailyOf(n, field) = recAfter + after /\ n.dailyRequests >= numAfter + countAfter
    BY <1>8, <2>1, <2>2, <2>3
  <2> QED BY <2>4 DEF n, numAfter, countAfter, recAfter, after, k
<1> QED BY <1>3, <1>11, <1>12, <1>13, <1>14 DEF JobStep, r, s, q, n

\* So the books balance after every step that they balance before.
LEMMA BalancedStep ==
    ASSUME JobInv, [Next]_vars, Holds(quota, job), Balanced(quota, ledger, job)
    PROVE  Balanced(quota', ledger', job')
<1>1. CASE Quiet
  <2>1. job' = job /\ ledger' = ledger
    BY <1>1 DEF Quiet
  <2>2. \A m \in Models : \A field \in Fields :
            /\ DailyOf(quota'[m], field) = DailyOf(quota[m], field)
            /\ quota'[m].dailyRequests = quota[m].dailyRequests
    BY <1>1 DEF Quiet, SameBooks, DailyOf
  <2>3. "tokens" \in Fields
    BY DEF Fields
  <2> QED BY <2>1, <2>2, <2>3 DEF Balanced
<1>2. ASSUME NEW j \in Jobs, StepOf(j) PROVE Balanced(quota', ledger', job')
  <2> SUFFICES ASSUME NoRefunds(ledger'), NEW m \in Models, NEW field \in Fields
               PROVE  /\ DailyOf(quota'[m], field)
                             = Recorded(ledger', m, field) + Reserved(job', m, field)
                      /\ quota'[m].dailyRequests
                             >= Cardinality(RecordsOf(ledger', m)) + Cardinality(Callers(job', m))
    <3>1. "tokens" \in Fields
      BY DEF Fields
    <3> QED BY <3>1 DEF Balanced
  <2> QED BY <1>2, BalancedJobStep DEF Balanced
<1> QED BY <1>1, <1>2, Steps

\* At first there are no books.
LEMMA BalancedInit == ASSUME Init PROVE Balanced(quota, ledger, job)
<1> SUFFICES ASSUME NEW m \in Models, NEW field \in Fields
             PROVE  /\ DailyOf(quota[m], field)
                           = Recorded(ledger, m, field) + Reserved(job, m, field)
                    /\ quota[m].dailyRequests
                           >= Cardinality(RecordsOf(ledger, m)) + Cardinality(Callers(job, m))
  <2>1. "tokens" \in Fields
    BY DEF Fields
  <2> QED BY <2>1 DEF Balanced
<1>1. DailyOf(quota[m], field) = 0 /\ quota[m].dailyRequests = 0
  BY DEF Init, FreshState, DailyOf
<1>2. RecordsOf(ledger, m) = {}
  <2>1. Len(ledger) = 0
    BY DEF Init
  <2> QED BY <2>1 DEF RecordsOf
<1>3. Callers(job, m) = {}
  BY DEF Init, NewJob, Callers, CallsAt
<1>4. Recorded(ledger, m, field) = 0 /\ Reserved(job, m, field) = 0
  BY <1>2, <1>3, TotalEmpty DEF Recorded, Reserved
<1> QED BY <1>1, <1>2, <1>3, <1>4, FS_EmptySet

\* The sums in BooksBalance are these.
LEMMA BalanceInTheseTerms ==
    ASSUME JobInv, Balanced(quota, ledger, job)
    PROVE  BooksBalance
<1> SUFFICES ASSUME NoRefunds(ledger), NEW m \in Models
             PROVE  LET totals == LedgerTotals(m)
                        held(field) == SumFunction([j \in Calling(m) |-> Held(j)[field]])
                    IN  /\ quota[m].dailyTokens = totals.tokens + held("tokens")
                        /\ quota[m].dailyCost = totals.cost + held("cost")
                        /\ quota[m].dailyRequests >= totals.requests + Cardinality(Calling(m))
  BY DEF BooksBalance, NoRefunds
<1> DEFINE A == RecordsOf(ledger, m)
           C == Callers(job, m)
<1>1. Calling(m) = C /\ \A j \in Jobs : Held(j) = HeldWith(j, job[j])
  BY HeldIsHeldWith DEF Calling, Callers
<1>2. "tokens" \in Fields /\ "cost" \in Fields
  BY DEF Fields
<1>3. ASSUME NEW field \in Fields
      PROVE  SumFunction([i \in A |-> ledger[i].usage[field]]) = Recorded(ledger, m, field)
  <2> DEFINE f == [i \in A |-> ledger[i].usage[field]]
             g == UsageIn(ledger, field)
  <2>1. /\ A \subseteq 1 .. Len(ledger) /\ IsFiniteSet(A)
        /\ \A i \in 1 .. Len(ledger) : g[i] \in Int
    BY JobFacts, LedgerFacts
  <2>2. \A i \in A : f[i] \in Int /\ g[i] \in Int /\ f[i] = g[i]
    BY <2>1 DEF UsageIn
  <2>3. DOMAIN f = A
    OBVIOUS
  <2>4. SumFunction(f) = Total(f, DOMAIN f)
    BY Zenon DEF SumFunction, Total
  <2> HIDE DEF f, g, A
  <2>5. Total(f, A) = Total(g, A)
    BY <2>1, <2>2, TotalEqual
  <2> QED BY <2>3, <2>4, <2>5 DEF Recorded, A, f, g
<1>4. ASSUME NEW field \in Fields
      PROVE  SumFunction([j \in Calling(m) |-> Held(j)[field]]) = Reserved(job, m, field)
  <2> DEFINE f == [j \in Calling(m) |-> Held(j)[field]]
             g == Reserving(job, field)
  <2>1. /\ C \subseteq Jobs /\ IsFiniteSet(C)
        /\ \A i \in C : g[i] \in Int
    BY ReservedFacts
  <2>2. \A i \in C : f[i] \in Int /\ g[i] \in Int /\ f[i] = g[i]
    <3> TAKE i \in C
    <3>1. i \in Jobs /\ i \in Calling(m) /\ g[i] \in Int
      BY <1>1, <2>1
    <3>2. f[i] = Held(i)[field] /\ g[i] = HeldWith(i, job[i])[field]
      BY <3>1 DEF Reserving
    <3> QED BY <1>1, <3>1, <3>2
  <2>3. DOMAIN f = C
    BY <1>1
  <2>4. SumFunction(f) = Total(f, DOMAIN f)
    BY Zenon DEF SumFunction, Total
  <2> HIDE DEF f, g, C
  <2>5. Total(f, C) = Total(g, C)
    BY <2>1, <2>2, TotalEqual
  <2> QED BY <2>3, <2>4, <2>5 DEF Reserved, C, f, g
<1>5. /\ LedgerTotals(m).tokens = Recorded(ledger, m, "tokens")
      /\ LedgerTotals(m).cost = Recorded(ledger, m, "cost")
      /\ LedgerTotals(m).requests = Cardinality(A)
  <2>1. /\ SumFunction([i \in A |-> ledger[i].usage["tokens"]]) = Recorded(ledger, m, "tokens")
        /\ SumFunction([i \in A |-> ledger[i].usage["cost"]]) = Recorded(ledger, m, "cost")
    BY <1>2, <1>3
  <2>2. LedgerTotals(m) = [requests |-> Cardinality(A),
                           tokens |-> SumFunction([i \in A |-> ledger[i].usage["tokens"]]),
                           cost |-> SumFunction([i \in A |-> ledger[i].usage["cost"]])]
    BY Zenon DEF LedgerTotals, RecordsOf
  <2> HIDE DEF A
  <2> QED BY <2>1, <2>2
<1>6. /\ quota[m].dailyTokens = Recorded(ledger, m, "tokens") + Reserved(job, m, "tokens")
      /\ quota[m].dailyCost = Recorded(ledger, m, "cost") + Reserved(job, m, "cost")
      /\ quota[m].dailyRequests >= Cardinality(A) + Cardinality(C)
  BY <1>2 DEF Balanced, DailyOf
<1>7. /\ SumFunction([j \in Calling(m) |-> Held(j)["tokens"]]) = Reserved(job, m, "tokens")
      /\ SumFunction([j \in Calling(m) |-> Held(j)["cost"]]) = Reserved(job, m, "cost")
  BY <1>2, <1>4
<1> HIDE DEF A, C
<1> QED BY <1>1, <1>5, <1>6, <1>7

\* The tracker and the ledger keep the same books, whatever is booked, given back or
\* cancelled in between.
THEOREM BooksAlwaysBalance == Spec => []BooksBalance
<1> DEFINE BalanceInv == JobInv /\ Holds(quota, job) /\ Balanced(quota, ledger, job)
<1>1. Init => BalanceInv
  BY JobInit, HoldsInit, BalancedInit
<1>2. BalanceInv /\ [Next]_vars => BalanceInv'
  <2> SUFFICES ASSUME JobInv, Holds(quota, job), Balanced(quota, ledger, job), [Next]_vars
               PROVE  JobInv' /\ Holds(quota, job)' /\ Balanced(quota, ledger, job)'
    OBVIOUS
  <2>1. JobInv' /\ Holds(quota', job') /\ Balanced(quota', ledger', job')
    BY Steps, HoldsStep, BalancedStep
  <2>2. Holds(quota, job)' /\ Balanced(quota, ledger, job)'
    BY <2>1
  <2> QED BY <2>1, <2>2
<1>3. BalanceInv => BooksBalance
  BY BalanceInTheseTerms
<1> HIDE DEF BalanceInv
<1> QED BY <1>1, <1>2, <1>3, PTL DEF Spec

-----------------------------------------------------------------------------
(* The candidate a job goes on to.                                          *)

\* A model that is usable after the search was usable when the search tried it: a
\* second roll at that moment changes nothing.
LEMMA UsableWasTried ==
    ASSUME now \in Nat, NEW j \in Jobs, NEW from \in Nat, NEW next,
           NEW q \in [Models -> QuotaState], NEW c, NEW r, NEW a,
           r.excluded = RefusedBy(a), from >= 1, from <= Len(Candidates[j]) + 1,
           SearchEffect(j, from, next, q, c, r),
           NEW i \in from .. next - 1, UsableBy(j, Candidates[j][i], a)
    PROVE  FALSE
<1> DEFINE m == Candidates[j][i]
<1>1. /\ next \in Nat /\ next <= Len(Candidates[j]) + 1
      /\ ~ (Tried(j, i, c, r) /\ Admitted(j, m, q))
      /\ Tried(j, i, c, r) => quota'[m] = Roll(q[m], now, 0)
      /\ circuit' = c
  BY DEF SearchEffect
<1>2. m \in Models
  <2>1. Len(Candidates[j]) \in Nat /\ \A k \in 1 .. Len(Candidates[j]) : Candidates[j][k] \in Models
    BY CandidateFacts
  <2>2. i \in 1 .. Len(Candidates[j])
    BY <1>1, <2>1
  <2> QED BY <2>1, <2>2
<1>3. Tried(j, i, c, r)
  <2>1. /\ MaxRetries[m] >= 0 /\ CanAttempt(circuit'[ProviderOf[m]], now)
        /\ \A k \in 1 .. Len(a) :
               a[k].outcome \in ProviderWideErrors => ProviderOf[a[k].model] # ProviderOf[m]
    BY DEF UsableBy, LetThrough
  <2>2. ProviderOf[m] \notin RefusedBy(a)
    BY <2>1 DEF RefusedBy
  <2> QED BY <1>1, <2>1, <2>2 DEF Tried
<1>4. Admitted(j, m, q)
  <2>1. Admits(Roll(quota'[m], now, 0), ModelLimits[m], EstimateFor(j, m))
    BY DEF UsableBy
  <2>2. q[m] \in TrackerState(ReservationId)
    BY <1>2, QuotaStateIsTracker
  <2>3. Roll(Roll(q[m], now, 0), now, 0) = Roll(q[m], now, 0)
    BY <2>2, RollIdempotent
  <2> QED BY <1>1, <1>3, <2>1, <2>3 DEF Admitted
<1> QED BY <1>1, <1>3, <1>4

\* A search goes on to the first usable candidate.
LEMMA SearchGoes ==
    ASSUME JobInv, NEW j \in Jobs, NEW next, NEW q \in [Models -> QuotaState], NEW c, NEW r,
           BaseLog(j, r), r.position = job[j].position,
           SearchEffect(j, r.position + 1, next, q, c, r)
    PROVE  GoesToFirstUsable(j)
<1> DEFINE s == job'[j]
           n == Len(Candidates[j])
<1>1. /\ now \in Nat /\ job \in [Jobs -> Job] /\ n \in Nat
      /\ r \in Job /\ r.position \in 0 .. n /\ r.position \in Nat
      /\ r.excluded = RefusedBy(r.attempts)
  BY JobFacts, CandidateFacts, RecordFields DEF BaseLog
<1>2. /\ job' = [job EXCEPT ![j] =
                     IF next <= n
                     THEN [r EXCEPT !.phase = "calling", !.position = next, !.retry = 0]
                     ELSE [r EXCEPT !.phase = "failed"]]
      /\ next \in Nat /\ next <= n + 1 /\ circuit' = c
      /\ next <= n => Tried(j, next, c, r)
  BY DEF SearchEffect
<1>3. /\ s.attempts = r.attempts
      /\ IF next <= n THEN s.phase = "calling" /\ s.position = next ELSE s.phase = "failed"
  BY <1>1, <1>2 DEF Job
<1>4. (IF s.phase = "failed" THEN n + 1 ELSE s.position) = next
  BY <1>1, <1>2, <1>3
<1> HIDE DEF s
<1>5. ASSUME NEW i \in job[j].position + 1 .. next - 1
      PROVE  ~ UsableBy(j, Candidates[j][i], s.attempts)
  <2>1. /\ r.position + 1 \in Nat /\ r.position + 1 >= 1 /\ r.position + 1 <= n + 1
        /\ i \in r.position + 1 .. next - 1
    BY <1>1
  <2> HIDE DEF n
  <2> QED BY <1>1, <1>3, <2>1, UsableWasTried DEF n
<1>6. ASSUME next < n + 1
      PROVE  LetThrough(j, Candidates[j][next], s.attempts)
  <2>1. Tried(j, next, c, r)
    BY <1>1, <1>2, <1>6
  <2>2. /\ ProviderOf[Candidates[j][next]] \notin RefusedBy(r.attempts)
        /\ CanAttempt(circuit'[ProviderOf[Candidates[j][next]]], now)
    BY <1>1, <1>2, <2>1 DEF Tried
  <2> QED BY <1>3, <2>2 DEF LetThrough, RefusedBy
<1> QED BY <1>4, <1>5, <1>6 DEF GoesToFirstUsable, s, n

\* Jobs move on by a search, and only by one.
LEMMA MovingOn ==
    ASSUME JobInv, [Next]_vars, NEW j \in Jobs, MovesOn(j)
    PROVE  GoesToFirstUsable(j)
<1>1. /\ now \in Nat /\ quota \in [Models -> QuotaState] /\ job \in [Jobs -> Job]
      /\ job[j] \in Job /\ Log(j, job[j])
  BY JobFacts DEF JobInv
<1>2. job'[j] # job[j]
  BY DEF MovesOn
<1>3. ASSUME NEW i \in Jobs, Start(i) \/ Answer(i) \/ Wake(i) \/ Cancel(i)
      PROVE  i = j
  <2>1. StepOf(i)
    <3>1. CASE Answer(i)
      BY <3>1, SucceedStep, FailStep DEF Answer
    <3> QED BY <1>3, <3>1, StartStep, WakeStep, CancelStep
  <2>2. i # j => job'[j] = job[j]
    BY <2>1, CallersStep DEF StepOf
  <2> QED BY <1>2, <2>2
<1>4. CASE Start(j)
  <2>1. job[j] = NewJob /\ BaseLog(j, job[j]) /\ job[j].position = 0
    BY <1>1, <1>4 DEF Log, Start, NewJob
  <2>2. Candidates[j] # << >>
    <3> SUFFICES ASSUME Candidates[j] = << >> PROVE FALSE
      OBVIOUS
    <3>1. job' = [job EXCEPT ![j].phase = "ineligible"]
      BY <1>4 DEF Start
    <3>2. job'[j].phase = "ineligible"
      BY <1>1, <3>1 DEF Job
    <3> QED BY <3>2 DEF MovesOn
  <2>3. Search(j, 1, quota, circuit, job[j])
    BY <1>4, <2>2 DEF Start
  <2>4. PICK next : SearchEffect(j, job[j].position + 1, next, quota, circuit, job[j])
    BY <2>1, <2>3, CandidateFacts, SearchEnds
  <2> QED BY <1>1, <2>1, <2>4, SearchGoes
<1>5. CASE \E usage \in Usages : Succeed(j, usage)
  <2>1. job' = [job EXCEPT ![j].phase = "succeeded",
                           ![j].attempts = Append(@, Attempt(j, "success"))]
    BY <1>5 DEF Succeed
  <2>2. job'[j].phase = "succeeded"
    BY <1>1, <2>1 DEF Job
  <2> QED BY <2>2 DEF MovesOn
<1>6. CASE \E error \in Errors : Fail(j, error)
  <2>1. PICK error \in Errors : Fail(j, error)
    BY <1>6
  <2> DEFINE m0 == Model(j)
             q == [quota EXCEPT ![m0] = ReleaseEstimate(quota[m0], Held(j))]
             c == CircuitAfter(ProviderOf[m0], error)
             r == AfterAttempt(j, error)
  <2>2. job[j].phase = "calling"
    BY <2>1 DEF Fail
  <2>3. /\ m0 \in Models /\ Held(j) \in QuotaReservation
        /\ job[j].position \in 1 .. Len(Candidates[j])
    BY <2>2, RunningAt, HeldType DEF Running, Held
  <2>4. q \in [Models -> QuotaState]
    BY <1>1, <2>3, SettlingKeeps
  <2>5. BaseLog(j, r) /\ r \in Job /\ r.position = job[j].position
    BY <2>2, AfterAttemptLog DEF BaseLog
  <2>6. IF Retries(j, error)
        THEN job' = [job EXCEPT ![j] = [r EXCEPT !.phase = "sleeping"]]
        ELSE Search(j, r.position + 1, q, c, r)
    <3> USE <2>5
    <3> HIDE DEF r
    <3> QED BY <2>1 DEF Fail, r
  <2> HIDE DEF r, q, c, m0
  <2>7. ~ Retries(j, error)
    <3> SUFFICES ASSUME Retries(j, error) PROVE FALSE
      OBVIOUS
    <3>1. job'[j] = [r EXCEPT !.phase = "sleeping"]
      BY <1>1, <2>6
    <3>2. job'[j].phase = "sleeping"
      BY <2>5, <3>1 DEF Job
    <3> QED BY <3>2 DEF MovesOn
  <2>8. PICK next : SearchEffect(j, r.position + 1, next, q, c, r)
    <3>1. Len(Candidates[j]) \in Nat
      BY CandidateFacts
    <3>2. /\ r.position + 1 \in Nat /\ r.position + 1 >= 1
          /\ r.position + 1 <= Len(Candidates[j]) + 1
      BY <2>3, <2>5, <3>1
    <3> QED BY <2>6, <2>7, <3>2, SearchEnds
  <2> QED BY <2>4, <2>5, <2>8, SearchGoes
<1>7. CASE Wake(j)
  <2> DEFINE m0 == Model(j)
             q == [quota EXCEPT ![m0] = Roll(quota[m0], now, 0)]
  <2>1. job[j].phase = "sleeping"
    BY <1>7 DEF Wake
  <2>2. /\ m0 \in Models /\ BaseLog(j, job[j])
        /\ job[j].position \in 1 .. Len(Candidates[j])
    BY <2>1, RunningAt DEF Running, Log
  <2>3. Roll(quota[m0], now, 0) \in QuotaState
    BY <1>1, <2>2, RollKeeps
  <2>4. q \in [Models -> QuotaState]
    BY <1>1, <2>2, <2>3
  <2>5. IF Admitted(j, m0, quota)
        THEN job' = [job EXCEPT ![j].phase = "calling", ![j].retry = @ + 1]
        ELSE Search(j, job[j].position + 1, q, circuit, job[j])
    BY <1>7 DEF Wake
  <2> HIDE DEF q, m0
  <2>6. ~ Admitted(j, m0, quota)
    <3> SUFFICES ASSUME Admitted(j, m0, quota) PROVE FALSE
      OBVIOUS
    <3>1. job'[j] = [job[j] EXCEPT !.phase = "calling", !.retry = job[j].retry + 1]
      BY <1>1, <2>5
    <3>2. job'[j].phase = "calling" /\ job'[j].position = job[j].position
      BY <1>1, <3>1 DEF Job
    <3> QED BY <3>2 DEF MovesOn
  <2>7. PICK next : SearchEffect(j, job[j].position + 1, next, q, circuit, job[j])
    <3>1. Len(Candidates[j]) \in Nat
      BY CandidateFacts
    <3>2. /\ job[j].position + 1 \in Nat /\ job[j].position + 1 >= 1
          /\ job[j].position + 1 <= Len(Candidates[j]) + 1
      BY <2>2, <3>1
    <3> QED BY <2>5, <2>6, <3>2, SearchEnds
  <2> QED BY <1>1, <2>2, <2>4, <2>7, SearchGoes
<1>8. CASE Cancel(j)
  <2>1. job'[j].phase = "cancelled"
    BY <1>1, <1>8 DEF Cancel, Job
  <2> QED BY <2>1 DEF MovesOn
<1>9. \E i \in Jobs : Start(i) \/ Answer(i) \/ Wake(i) \/ Cancel(i)
  BY <1>2 DEF Next, Probe, Snapshot, Tick, vars
<1> QED BY <1>3, <1>4, <1>5, <1>6, <1>7, <1>8, <1>9 DEF Answer

\* A job that moves on calls the first candidate that is usable at that moment, and
\* fails only when there is none.
THEOREM FirstUsableCalled == Spec => FirstUsableIsCalled
<1>1. JobInv /\ [Next]_vars => JobInv'
  BY Steps
<1>2. JobInv /\ [Next]_vars => [\A j \in Jobs : MovesOn(j) => GoesToFirstUsable(j)]_vars
  BY MovingOn
<1> QED BY JobInit, <1>1, <1>2, PTL DEF Spec, FirstUsableIsCalled

-----------------------------------------------------------------------------
(* The promise to the callers: every step is one of RouteSpec, or a stutter. *)

\* What RouteSpec sees of the jobs and of the ledger.
StatusBar == [j \in Jobs |-> StatusOf(j)]
AttemptsBar == [j \in Jobs |-> job[j].attempts]
LedgerBar == [i \in 1 .. Len(ledger) |-> [job |-> ledger[i].job, model |-> ledger[i].model]]

StatusIn(r) ==
    CASE r.phase = "idle"      -> "asked"
      [] r.phase \in Running   -> "working"
      [] r.phase = "succeeded" -> "answered"
      [] OTHER                 -> r.phase

\* The status RouteSpec sees in each phase.
LEMMA StatusPhases ==
    ASSUME NEW r
    PROVE  /\ r.phase = "idle" => StatusIn(r) = "asked"
           /\ r.phase \in Running => StatusIn(r) = "working"
           /\ r.phase = "succeeded" => StatusIn(r) = "answered"
           /\ r.phase = "failed" => StatusIn(r) = "failed"
           /\ r.phase = "ineligible" => StatusIn(r) = "ineligible"
           /\ r.phase = "cancelled" => StatusIn(r) = "cancelled"
BY DEF StatusIn, Running

\* A step of job j changes what RouteSpec sees of j only.
LEMMA BarStep ==
    ASSUME JobInv, NEW j \in Jobs, Keeps(j)
    PROVE  /\ StatusBar[j] = StatusIn(job[j]) /\ AttemptsBar[j] = job[j].attempts
           /\ StatusBar' = [StatusBar EXCEPT ![j] = StatusIn(job'[j])]
           /\ AttemptsBar' = [AttemptsBar EXCEPT ![j] = job'[j].attempts]
<1>1. \A i \in Jobs : i # j => job'[i] = job[i]
  BY CallersStep
<1>2. \A i \in Jobs : StatusOf(i) = StatusIn(job[i])
  BY DEF StatusOf, StatusIn
<1>3. \A i \in Jobs : StatusOf(i)' = StatusIn(job'[i])
  BY DEF StatusOf, StatusIn
<1>4. StatusBar = [i \in Jobs |-> StatusIn(job[i])]
  BY <1>2 DEF StatusBar
<1>5. StatusBar' = [i \in Jobs |-> StatusIn(job'[i])]
  BY <1>3 DEF StatusBar
<1>6. StatusBar' = [StatusBar EXCEPT ![j] = StatusIn(job'[j])]
  <2>1. \A i \in Jobs : i # j => StatusIn(job'[i]) = StatusIn(job[i])
    BY <1>1
  <2> QED BY <1>4, <1>5, <2>1
<1>7. AttemptsBar' = [AttemptsBar EXCEPT ![j] = job'[j].attempts]
  BY <1>1 DEF AttemptsBar
<1> QED BY <1>4, <1>6, <1>7 DEF AttemptsBar

\* When neither the status nor the attempts of a job change, RouteSpec stutters.
LEMMA BarStutter ==
    ASSUME JobInv, NEW j \in Jobs, Keeps(j), ledger' = ledger,
           StatusIn(job'[j]) = StatusIn(job[j]), job'[j].attempts = job[j].attempts
    PROVE  UNCHANGED Promise!vars
<1>1. StatusBar' = StatusBar /\ AttemptsBar' = AttemptsBar
  <2>1. /\ StatusBar[j] = StatusIn(job[j]) /\ AttemptsBar[j] = job[j].attempts
        /\ StatusBar' = [StatusBar EXCEPT ![j] = StatusIn(job'[j])]
        /\ AttemptsBar' = [AttemptsBar EXCEPT ![j] = job'[j].attempts]
    BY BarStep
  <2>2. /\ StatusBar = [i \in Jobs |-> StatusBar[i]]
        /\ AttemptsBar = [i \in Jobs |-> AttemptsBar[i]]
    BY DEF StatusBar, AttemptsBar
  <2> QED BY <2>1, <2>2
<1>2. LedgerBar' = LedgerBar
  BY DEF LedgerBar
<1> QED BY <1>1, <1>2 DEF Promise!vars, StatusBar, AttemptsBar, LedgerBar

\* The next call of a job that has one in flight is one that RouteSpec allows.
LEMMA CallIsAllowed ==
    ASSUME JobInv, NEW j \in Jobs, job[j].phase = "calling"
    PROVE  /\ Promise!MayCall(j, Model(j), job[j].retry + 1)
           /\ job[j].position \in 1 .. Len(Candidates[j])
           /\ Model(j) = Candidates[j][job[j].position]
           /\ job[j].retry + 1 \in {1} \cup { AttemptsBar[j][k].number + 1 :
                                                k \in 1 .. Len(AttemptsBar[j]) }
<1> DEFINE r == job[j]
           a == r.attempts
           n == Len(a)
           m == Model(j)
           P == Candidates[j]
<1>1. /\ r \in Job /\ Log(j, r) /\ r.position \in 1 .. Len(P)
      /\ m = P[r.position] /\ m \in Models
  BY RunningAt DEF Running
<1>2. /\ Len(P) \in Nat /\ \A i \in 1 .. Len(P) : P[i] \in Models
      /\ \A i, k \in 1 .. Len(P) : P[i] = P[k] => i = k
  BY CandidateFacts
<1>3. /\ a \in Seq(AttemptRecord) /\ n \in Nat /\ r.retry \in Nat /\ r.position \in Nat
  BY <1>1, RecordFields
<1>4. /\ r.excluded = RefusedBy(a) /\ ProviderOf[m] \notin r.excluded
      /\ \A k \in 1 .. n : \E p \in 1 .. r.position : a[k].model = P[p]
      /\ r.retry <= MaxRetries[m]
      /\ IF n > 0 /\ a[n].model = m
         THEN a[n].outcome \in TransientErrors /\ a[n].number = r.retry
         ELSE r.retry = 0
  BY <1>1 DEF Log, BaseLog, CallingLog, Running
<1>5. AttemptsBar[j] = a
  BY DEF AttemptsBar
<1>6. ASSUME NEW i \in 1 .. Len(P) PROVE Promise!PositionOf(j, P[i]) = i
  <2>1. (CHOOSE k \in 1 .. Len(P) : P[k] = P[i]) \in { k \in 1 .. Len(P) : P[k] = P[i] }
    OBVIOUS
  <2> QED BY <1>2, <2>1 DEF Promise!PositionOf
<1> HIDE DEF r, a, n, m, P
<1>7. n > 0 /\ a[n].model # m => Promise!PositionOf(j, a[n].model) < Promise!PositionOf(j, m)
  <2> SUFFICES ASSUME n > 0, a[n].model # m
               PROVE  Promise!PositionOf(j, a[n].model) < Promise!PositionOf(j, m)
    OBVIOUS
  <2>1. PICK p \in 1 .. r.position : a[n].model = P[p]
    BY <1>3, <1>4
  <2>2. p # r.position /\ p < r.position /\ p \in 1 .. Len(P)
    BY <1>1, <1>2, <1>3, <2>1
  <2>3. /\ Promise!PositionOf(j, P[p]) = p
        /\ Promise!PositionOf(j, P[r.position]) = r.position
    BY <1>1, <1>6, <2>2
  <2> QED BY <1>1, <2>1, <2>2, <2>3
<1>8. a = << >> <=> n = 0
  BY <1>3 DEF n
<1>9. Promise!LastOf(j) = a[n]
  BY <1>5 DEF Promise!LastOf, AttemptsBar, n
<1>10. Promise!Follows(j, m, r.retry + 1)
  <2>1. CASE n = 0
    BY <1>4, <1>5, <1>8, <2>1 DEF Promise!Follows, AttemptsBar
  <2>2. CASE n > 0 /\ a[n].model = m
    <3>1. a # << >> /\ AttemptsBar[j] # << >>
      BY <1>3, <1>5, <1>8, <2>2
    <3>2. /\ Promise!LastOf(j).model = m
          /\ Promise!LastOf(j).outcome \in TransientErrors
          /\ r.retry = Promise!LastOf(j).number
      BY <1>4, <1>9, <2>2
    <3> QED BY <3>1, <3>2 DEF Promise!Follows, AttemptsBar
  <2>3. CASE n > 0 /\ a[n].model # m
    <3>1. r.retry = 0 /\ Promise!LastOf(j).model = a[n].model
      BY <1>4, <1>9, <2>3
    <3> QED BY <1>3, <1>7, <2>3, <3>1 DEF Promise!Follows
  <2> QED BY <1>3, <2>1, <2>2, <2>3
<1>11. ~ Promise!Refused(j, ProviderOf[m])
  BY <1>4, <1>5 DEF Promise!Refused, RefusedBy, AttemptsBar
<1>12. r.retry + 1 <= MaxRetries[m] + 1
  <2>1. MaxRetries[m] \in Int
    BY <1>1, RouterAssumption
  <2> QED BY <1>3, <1>4, <2>1
<1>13. Promise!MayCall(j, m, r.retry + 1)
  BY <1>1, <1>10, <1>11, <1>12 DEF Promise!MayCall, P
<1>14. r.retry + 1 \in {1} \cup { a[k].number + 1 : k \in 1 .. n }
  <2>1. CASE r.retry = 0
    BY <2>1
  <2>2. CASE r.retry # 0
    <3>1. n \in 1 .. n /\ a[n].number + 1 = r.retry + 1
      BY <1>3, <1>4, <2>2
    <3> QED BY <3>1
  <2> QED BY <2>1, <2>2
<1> QED BY <1>1, <1>5, <1>13, <1>14 DEF r, a, n, m, P

\* A search leaves the attempts alone, and the job in a call or failed.
LEMMA SearchedRecord ==
    ASSUME JobInv, NEW j \in Jobs, NEW from, NEW next, NEW q, NEW c, NEW r \in Job,
           SearchEffect(j, from, next, q, c, r)
    PROVE  job'[j].attempts = r.attempts /\ job'[j].phase \in {"calling", "failed"}
<1>1. job'[j] = IF next <= Len(Candidates[j])
                THEN [r EXCEPT !.phase = "calling", !.position = next, !.retry = 0]
                ELSE [r EXCEPT !.phase = "failed"]
  BY JobFacts DEF SearchEffect
<1> QED BY <1>1 DEF Job

\* A job that starts begins, gives up or is rejected.
LEMMA StartAllowed ==
    ASSUME JobInv, NEW j \in Jobs, Start(j)
    PROVE  Promise!Begin(j) \/ Promise!Reject(j) \/ Promise!GiveUp(j)
<1>1. /\ job \in [Jobs -> Job] /\ job[j] \in Job /\ Log(j, job[j])
      /\ job[j].phase = "idle" /\ ledger' = ledger
  BY JobFacts DEF JobInv, Start
<1>2. Keeps(j)
  BY StartStep DEF StepOf
<1>3. /\ StatusBar[j] = "asked"
      /\ StatusBar' = [StatusBar EXCEPT ![j] = StatusIn(job'[j])]
      /\ AttemptsBar' = [AttemptsBar EXCEPT ![j] = job'[j].attempts]
      /\ AttemptsBar[j] = job[j].attempts
  BY <1>1, <1>2, BarStep, StatusPhases
<1>4. LedgerBar' = LedgerBar
  BY <1>1 DEF LedgerBar
<1>5. AttemptsBar = [AttemptsBar EXCEPT ![j] = AttemptsBar[j]]
  BY DEF AttemptsBar
<1>6. CASE Candidates[j] = << >>
  <2>1. job'[j] = [job[j] EXCEPT !.phase = "ineligible"]
    BY <1>1, <1>6 DEF Start
  <2>2. job'[j].phase = "ineligible" /\ job'[j].attempts = job[j].attempts
    BY <1>1, <2>1 DEF Job
  <2>3. StatusBar' = [StatusBar EXCEPT ![j] = "ineligible"]
    BY <1>3, <2>2, StatusPhases
  <2>4. AttemptsBar' = AttemptsBar
    BY <1>3, <1>5, <2>2
  <2>5. Promise!Reject(j)
    BY <1>3, <1>4, <1>6, <2>3, <2>4 DEF Promise!Reject, StatusBar, AttemptsBar, LedgerBar
  <2> QED BY <2>5
<1>7. CASE Candidates[j] # << >>
  <2>1. Search(j, 1, quota, circuit, job[j])
    BY <1>7 DEF Start
  <2>2. PICK next : SearchEffect(j, 1, next, quota, circuit, job[j])
    BY <2>1, CandidateFacts, SearchEnds
  <2>3. job'[j].attempts = job[j].attempts /\ job'[j].phase \in {"calling", "failed"}
    BY <1>1, <2>2, SearchedRecord
  <2>4. AttemptsBar' = AttemptsBar
    BY <1>3, <1>5, <2>3
  <2>5. CASE job'[j].phase = "calling"
    <3>1. StatusBar' = [StatusBar EXCEPT ![j] = "working"]
      BY <1>3, <2>5, StatusPhases DEF Running
    <3> QED BY <1>3, <1>4, <1>7, <2>4, <3>1 DEF Promise!Begin, StatusBar, AttemptsBar, LedgerBar
  <2>6. CASE job'[j].phase = "failed"
    <3>1. StatusBar' = [StatusBar EXCEPT ![j] = "failed"]
      BY <1>3, <2>6, StatusPhases
    <3> QED BY <1>3, <1>4, <1>7, <2>4, <3>1 DEF Promise!GiveUp, StatusBar, AttemptsBar, LedgerBar
  <2> QED BY <2>3, <2>5, <2>6
<1> QED BY <1>6, <1>7

\* An answer is one that was owed, and one record.
LEMMA SucceedAllowed ==
    ASSUME JobInv, NEW j \in Jobs, NEW usage \in Usages, Succeed(j, usage),
           NEW m, m = Model(j), NEW number, number = job[j].retry + 1
    PROVE  Promise!Succeed(j, m, number)
<1> DEFINE x == [job |-> j, model |-> m, usage |-> usage]
           e == Attempt(j, "success")
<1>1. /\ job \in [Jobs -> Job] /\ job[j] \in Job /\ ledger \in Seq(UsageRecord)
      /\ job[j].phase = "calling" /\ ledger' = Append(ledger, x)
      /\ job' = [job EXCEPT ![j].phase = "succeeded", ![j].attempts = Append(@, e)]
  BY JobFacts DEF Succeed
<1>2. Keeps(j)
  BY SucceedStep DEF StepOf
<1>3. /\ m \in Models /\ usage \in Amount
      /\ Promise!MayCall(j, m, number)
  BY <1>1, RunningAt, CallIsAllowed, RouterAssumption DEF Running
<1>4. e = [model |-> m, number |-> number, outcome |-> "success"]
  BY DEF Attempt
<1> HIDE DEF e
<1>5. job'[j].phase = "succeeded" /\ job'[j].attempts = Append(job[j].attempts, e)
  BY <1>1 DEF Job
<1>6. /\ StatusBar[j] = "working" /\ StatusBar' = [StatusBar EXCEPT ![j] = "answered"]
      /\ AttemptsBar' = [AttemptsBar EXCEPT ![j] = Append(AttemptsBar[j], e)]
  BY <1>1, <1>2, <1>5, BarStep, StatusPhases DEF Running
<1>7. LedgerBar' = Append(LedgerBar, [job |-> j, model |-> m])
  <2> DEFINE n == Len(ledger)
             f(l) == [i \in 1 .. Len(l) |-> [job |-> l[i].job, model |-> l[i].model]]
  <2>1. x \in UsageRecord
    BY <1>3 DEF UsageRecord
  <2>2. /\ n \in Nat /\ Len(ledger') = n + 1
        /\ \A i \in 1 .. n : ledger'[i] = ledger[i]
        /\ ledger'[n + 1] = x
    BY <1>1, <2>1, AppendProperties
  <2>3. x.job = j /\ x.model = m
    OBVIOUS
  <2>4. LedgerBar \in Seq([job : Jobs, model : Models]) /\ Len(LedgerBar) = n
    <3>1. \A i \in 1 .. n : ledger[i] \in UsageRecord
      BY <1>1, ElementOfSeq
    <3>2. \A i \in 1 .. n : [job |-> ledger[i].job, model |-> ledger[i].model]
                                \in [job : Jobs, model : Models]
      BY <3>1 DEF UsageRecord
    <3> QED BY <2>2, <3>2 DEF LedgerBar
  <2>5. /\ Append(LedgerBar, [job |-> j, model |-> m]) \in Seq([job : Jobs, model : Models])
        /\ Len(Append(LedgerBar, [job |-> j, model |-> m])) = n + 1
        /\ \A i \in 1 .. n : Append(LedgerBar, [job |-> j, model |-> m])[i] = LedgerBar[i]
        /\ Append(LedgerBar, [job |-> j, model |-> m])[n + 1] = [job |-> j, model |-> m]
    BY <1>3, <2>4, AppendProperties
  <2> HIDE DEF x
  <2>6. LedgerBar' = [i \in 1 .. n + 1 |-> [job |-> ledger'[i].job, model |-> ledger'[i].model]]
    BY <2>2 DEF LedgerBar
  <2>7. \A i \in 1 .. n + 1 : [job |-> ledger'[i].job, model |-> ledger'[i].model]
                                 = Append(LedgerBar, [job |-> j, model |-> m])[i]
    <3> TAKE i \in 1 .. n + 1
    <3>1. CASE i = n + 1
      BY <2>2, <2>3, <2>5, <3>1
    <3>2. CASE i # n + 1
      <4>1. i \in 1 .. n
        BY <2>2, <3>2
      <4>2. LedgerBar[i] = [job |-> ledger[i].job, model |-> ledger[i].model]
        BY <4>1 DEF LedgerBar
      <4> QED BY <2>2, <2>5, <4>1, <4>2
    <3> QED BY <3>1, <3>2
  <2>8. Append(LedgerBar, [job |-> j, model |-> m])
            = [i \in 1 .. n + 1 |-> Append(LedgerBar, [job |-> j, model |-> m])[i]]
    BY <2>2, <2>5
  <2> QED BY <2>6, <2>7, <2>8
<1>8. Promise!Listed(j, m, number, "success")
  BY <1>4, <1>6 DEF Promise!Listed, AttemptsBar
<1> QED BY <1>3, <1>6, <1>7, <1>8 DEF Promise!Succeed, StatusBar, LedgerBar

\* So is an error, after which the job is at work still or has failed.
LEMMA FailAllowed ==
    ASSUME JobInv, NEW j \in Jobs, NEW error \in Errors, Fail(j, error),
           NEW m, m = Model(j), NEW number, number = job[j].retry + 1
    PROVE  \E next \in {"working", "failed"} :
               Promise!Fail(j, m, number, error, next)
<1> DEFINE e == Attempt(j, error)
           q == [quota EXCEPT ![m] = ReleaseEstimate(quota[m], Held(j))]
           c == CircuitAfter(ProviderOf[m], error)
           r == AfterAttempt(j, error)
<1>1. /\ job \in [Jobs -> Job] /\ job[j] \in Job
      /\ job[j].phase = "calling" /\ ledger' = ledger
  BY JobFacts DEF Fail
<1>2. Keeps(j)
  BY FailStep DEF StepOf
<1>3. Promise!MayCall(j, m, number)
  BY <1>1, CallIsAllowed
<1>4. e = [model |-> m, number |-> number, outcome |-> error]
  BY DEF Attempt
<1>5. /\ BaseLog(j, r) /\ r \in Job /\ r.position = job[j].position
      /\ r.attempts = Append(job[j].attempts, e)
  BY <1>1, AfterAttemptLog DEF BaseLog
<1>6. job[j].position \in 1 .. Len(Candidates[j])
  BY <1>1, RunningAt DEF Running
<1>7. IF Retries(j, error)
      THEN job' = [job EXCEPT ![j] = [r EXCEPT !.phase = "sleeping"]]
      ELSE Search(j, r.position + 1, q, c, r)
  <2> USE <1>5
  <2> HIDE DEF r
  <2> QED BY DEF Fail, r
<1> HIDE DEF r, q, c, e
<1>8. job'[j].attempts = r.attempts /\ job'[j].phase \in {"calling", "sleeping", "failed"}
  <2>1. CASE Retries(j, error)
    <3>1. job'[j] = [r EXCEPT !.phase = "sleeping"]
      BY <1>1, <1>7, <2>1
    <3> QED BY <1>5, <3>1 DEF Job
  <2>2. CASE ~ Retries(j, error)
    <3>1. Len(Candidates[j]) \in Nat
      BY CandidateFacts
    <3>2. /\ r.position + 1 \in Nat /\ r.position + 1 >= 1
          /\ r.position + 1 <= Len(Candidates[j]) + 1
      BY <1>5, <1>6, <3>1
    <3>3. PICK next : SearchEffect(j, r.position + 1, next, q, c, r)
      BY <1>7, <2>2, <3>2, SearchEnds
    <3> QED BY <1>5, <3>3, SearchedRecord
  <2> QED BY <2>1, <2>2
<1>9. LedgerBar' = LedgerBar
  BY <1>1 DEF LedgerBar
<1>10. /\ StatusBar[j] = StatusIn(job[j])
       /\ StatusBar' = [StatusBar EXCEPT ![j] = StatusIn(job'[j])]
       /\ AttemptsBar' = [AttemptsBar EXCEPT ![j] = Append(AttemptsBar[j], e)]
  BY <1>2, <1>5, <1>8, BarStep
<1>11. StatusIn(job[j]) = "working" /\ StatusIn(job'[j]) \in {"working", "failed"}
  BY <1>1, <1>8, StatusPhases DEF Running
<1>12. Promise!Listed(j, m, number, error)
  BY <1>4, <1>10 DEF Promise!Listed, AttemptsBar
<1>13. Promise!Fail(j, m, number, error, StatusIn(job'[j]))
  BY <1>3, <1>9, <1>10, <1>11, <1>12 DEF Promise!Fail, StatusBar, LedgerBar
<1> QED BY <1>11, <1>13

\* A job that wakes up goes on unseen, or gives up.
LEMMA WakeAllowed ==
    ASSUME JobInv, NEW j \in Jobs, Wake(j)
    PROVE  Promise!GiveUp(j) \/ UNCHANGED Promise!vars
<1> DEFINE m == Model(j)
           q == [quota EXCEPT ![m] = Roll(quota[m], now, 0)]
<1>1. /\ job \in [Jobs -> Job] /\ job[j] \in Job
      /\ job[j].phase = "sleeping" /\ ledger' = ledger
  BY JobFacts DEF Wake
<1>2. Keeps(j)
  BY WakeStep DEF StepOf
<1>3. job[j].position \in 1 .. Len(Candidates[j])
  BY <1>1, RunningAt DEF Running
<1>4. IF Admitted(j, m, quota)
      THEN job' = [job EXCEPT ![j].phase = "calling", ![j].retry = @ + 1]
      ELSE Search(j, job[j].position + 1, q, circuit, job[j])
  BY DEF Wake
<1> HIDE DEF m, q
<1>5. job'[j].attempts = job[j].attempts /\ job'[j].phase \in {"calling", "failed"}
  <2>1. CASE Admitted(j, m, quota)
    <3>1. job'[j] = [job[j] EXCEPT !.phase = "calling", !.retry = job[j].retry + 1]
      BY <1>1, <1>4, <2>1
    <3> QED BY <1>1, <3>1 DEF Job
  <2>2. CASE ~ Admitted(j, m, quota)
    <3>1. Len(Candidates[j]) \in Nat
      BY CandidateFacts
    <3>2. /\ job[j].position + 1 \in Nat /\ job[j].position + 1 >= 1
          /\ job[j].position + 1 <= Len(Candidates[j]) + 1
      BY <1>3, <3>1
    <3>3. PICK next : SearchEffect(j, job[j].position + 1, next, q, circuit, job[j])
      BY <1>4, <2>2, <3>2, SearchEnds
    <3> QED BY <1>1, <3>3, SearchedRecord
  <2> QED BY <2>1, <2>2
<1>6. StatusIn(job[j]) = "working"
  BY <1>1, StatusPhases DEF Running
<1>7. CASE job'[j].phase = "calling"
  <2>1. StatusIn(job'[j]) = "working"
    BY <1>7, StatusPhases DEF Running
  <2> QED BY <1>1, <1>2, <1>5, <1>6, <2>1, BarStutter
<1>8. CASE job'[j].phase = "failed"
  <2>1. /\ StatusBar[j] = "working" /\ StatusBar' = [StatusBar EXCEPT ![j] = "failed"]
        /\ AttemptsBar' = [AttemptsBar EXCEPT ![j] = AttemptsBar[j]]
    BY <1>2, <1>5, <1>6, <1>8, BarStep, StatusPhases
  <2>2. AttemptsBar' = AttemptsBar /\ LedgerBar' = LedgerBar
    BY <1>1, <2>1 DEF AttemptsBar, LedgerBar
  <2>3. Candidates[j] # << >>
    BY <1>3
  <2> QED BY <2>1, <2>2, <2>3 DEF Promise!GiveUp, StatusBar, AttemptsBar, LedgerBar
<1> QED BY <1>5, <1>7, <1>8

\* A cancellation is one.
LEMMA CancelAllowed ==
    ASSUME JobInv, NEW j \in Jobs, Cancel(j)
    PROVE  Promise!Cancel(j)
<1>1. /\ job \in [Jobs -> Job] /\ job[j] \in Job /\ job[j].phase \in Running
      /\ ledger' = ledger /\ job' = [job EXCEPT ![j].phase = "cancelled"]
  BY JobFacts DEF Cancel
<1>2. Keeps(j)
  BY CancelStep DEF StepOf
<1>3. job'[j].phase = "cancelled" /\ job'[j].attempts = job[j].attempts
  BY <1>1 DEF Job
<1>4. /\ StatusBar[j] = "working" /\ StatusBar' = [StatusBar EXCEPT ![j] = "cancelled"]
      /\ AttemptsBar' = [AttemptsBar EXCEPT ![j] = AttemptsBar[j]]
  BY <1>1, <1>2, <1>3, BarStep, StatusPhases
<1>5. AttemptsBar' = AttemptsBar /\ LedgerBar' = LedgerBar
  BY <1>1, <1>4 DEF AttemptsBar, LedgerBar
<1> QED BY <1>4, <1>5 DEF Promise!Cancel, StatusBar, AttemptsBar, LedgerBar

\* Every step of Router is one of RouteSpec or a stutter.
LEMMA NextAllowed ==
    ASSUME JobInv, [Next]_vars
    PROVE  [Promise!Next]_(Promise!vars)
<1>1. CASE Quiet
  <2>1. StatusBar' = StatusBar /\ AttemptsBar' = AttemptsBar /\ LedgerBar' = LedgerBar
    <3>1. job' = job /\ ledger' = ledger
      BY <1>1 DEF Quiet
    <3> QED BY <3>1 DEF StatusBar, AttemptsBar, LedgerBar, StatusOf
  <2> QED BY <2>1 DEF Promise!vars, StatusBar, AttemptsBar, LedgerBar
<1>2. ASSUME NEW j \in Jobs, Promise!Begin(j) \/ Promise!Reject(j) \/ Promise!GiveUp(j)
                               \/ Promise!Cancel(j)
      PROVE  Promise!Next
  BY <1>2 DEF Promise!Next
<1>3. ASSUME NEW j \in Jobs, job[j].phase = "calling",
             NEW m, m = Model(j), NEW number, number = job[j].retry + 1,
             Promise!Call(j, m, number)
      PROVE  Promise!Next
  <2>1. (\E i \in 1 .. Len(Candidates[j]) : m = Candidates[j][i])
        /\ number \in {1} \cup { AttemptsBar[j][k].number + 1 : k \in 1 .. Len(AttemptsBar[j]) }
    BY <1>3, CallIsAllowed
  <2>2. PICK i \in 1 .. Len(Candidates[j]) : m = Candidates[j][i]
    BY <2>1
  <2>3. Promise!Call(j, Candidates[j][i], number)
    BY <1>3, <2>2
  <2> QED BY <2>1, <2>3 DEF Promise!Next, AttemptsBar
<1>4. ASSUME NEW j \in Jobs, Answer(j) PROVE Promise!Next
  <2>1. job[j].phase = "calling"
    BY <1>4 DEF Answer, Succeed, Fail
  <2>2. PICK m : m = Model(j)
    OBVIOUS
  <2>3. PICK number : number = job[j].retry + 1
    OBVIOUS
  <2>4. CASE \E usage \in Usages : Succeed(j, usage)
    <3>1. Promise!Succeed(j, m, number)
      BY <2>2, <2>3, <2>4, SucceedAllowed
    <3>2. Promise!Call(j, m, number)
      BY <3>1 DEF Promise!Call
    <3> QED BY <1>3, <2>1, <2>2, <2>3, <3>2
  <2>5. CASE \E error \in Errors : Fail(j, error)
    <3>1. PICK error \in Errors : Fail(j, error)
      BY <2>5
    <3>2. error \in Promise!Failures
      BY RouterAssumption DEF Promise!Failures, ErrorTypes
    <3>3. PICK next \in {"working", "failed"} : Promise!Fail(j, m, number, error, next)
      BY <2>2, <2>3, <3>1, FailAllowed
    <3>4. Promise!Call(j, m, number)
      BY <3>2, <3>3 DEF Promise!Call
    <3> QED BY <1>3, <2>1, <2>2, <2>3, <3>4
  <2> QED BY <1>4, <2>4, <2>5 DEF Answer
<1>5. CASE Next
  <2>1. CASE \E j \in Jobs : Start(j) \/ Answer(j) \/ Wake(j) \/ Cancel(j)
    <3>1. PICK j \in Jobs : Start(j) \/ Answer(j) \/ Wake(j) \/ Cancel(j)
      BY <2>1
    <3>2. CASE Start(j)
      BY <1>2, <3>2, StartAllowed
    <3>3. CASE Answer(j)
      BY <1>4, <3>3
    <3>4. CASE Wake(j)
      <4>1. CASE Promise!GiveUp(j)
        BY <1>2, <4>1
      <4>2. CASE UNCHANGED Promise!vars
        BY <4>2
      <4> QED BY <3>4, <4>1, <4>2, WakeAllowed
    <3>5. CASE Cancel(j)
      BY <1>2, <3>5, CancelAllowed
    <3> QED BY <3>1, <3>2, <3>3, <3>4, <3>5
  <2>2. CASE (\E p \in Providers : \E healthy \in BOOLEAN : Probe(p, healthy))
                \/ Snapshot \/ Tick
    <3>1. Quiet
      BY <2>2, QuietStep
    <3> QED BY <1>1, <3>1
  <2> QED BY <1>5, <2>1, <2>2 DEF Next
<1>6. CASE UNCHANGED vars
  <2>1. Quiet
    BY <1>6, QuietStep
  <2> QED BY <1>1, <2>1
<1> QED BY <1>5, <1>6

\* Router starts as RouteSpec does.
LEMMA InitAllowed == Init => Promise!Init
<1> SUFFICES ASSUME Init PROVE Promise!Init
  OBVIOUS
<1>1. \A j \in Jobs : job[j].phase = "idle" /\ job[j].attempts = << >>
  BY DEF Init, NewJob
<1>2. \A j \in Jobs : StatusOf(j) = "asked"
  <2>1. \A j \in Jobs : StatusOf(j) = StatusIn(job[j])
    BY DEF StatusOf, StatusIn
  <2> QED BY <1>1, <2>1, StatusPhases
<1>3. StatusBar = [j \in Jobs |-> "asked"] /\ AttemptsBar = [j \in Jobs |-> << >>]
  BY <1>1, <1>2 DEF StatusBar, AttemptsBar
<1>4. LedgerBar = << >>
  BY DEF Init, LedgerBar
<1> QED BY <1>3, <1>4 DEF Promise!Init, StatusBar, AttemptsBar, LedgerBar

\* Whatever quotas, circuits, other jobs, health checks and cancellations do, the
\* program does what RouteSpec promises.
THEOREM PromiseKept == Spec => KeepsPromise
<1>1. JobInv /\ [Next]_vars => JobInv'
  BY Steps
<1>2. JobInv /\ [Next]_vars => [Promise!Next]_(Promise!vars)
  BY NextAllowed
<1> QED BY JobInit, InitAllowed, <1>1, <1>2, PTL DEF Spec, KeepsPromise, Promise!Spec

-----------------------------------------------------------------------------
(* What follows from the promise, from the theorems about RouteSpec.         *)

PromiseProofs == INSTANCE RouteSpecProofs WITH
    status    <- [j \in Jobs |-> StatusOf(j)],
    attempts  <- [j \in Jobs |-> job[j].attempts],
    billed    <- [i \in 1 .. Len(ledger) |->
                     [job |-> ledger[i].job, model |-> ledger[i].model]],
    Transient <- TransientErrors,
    Refusals  <- ProviderWideErrors,
    Permanent <- {"ProviderPermanentError"}

\* A job that was answered is on the usage ledger once, for the model that answered
\* it, and no other job is; and the attempts of every job follow the rules of failover.
THEOREM PromiseFollows ==
    Spec => [](PromiseProofs!OneRecordPerSuccess /\ PromiseProofs!FailoverDiscipline)
<1>1. PromiseProofs!RouteAssumption
  BY RouterAssumption DEF PromiseProofs!RouteAssumption, TransientErrors, ProviderWideErrors
<1>2. PromiseProofs!Spec => []PromiseProofs!OneRecordPerSuccess
  BY <1>1, PromiseProofs!AnswersAreBilledOnce
<1>3. PromiseProofs!Spec => []PromiseProofs!FailoverDiscipline
  BY <1>1, PromiseProofs!FailoverIsDisciplined
<1>4. Promise!Init => PromiseProofs!Init
  BY DEF Promise!Init, PromiseProofs!Init
<1>5. [Promise!Next]_(Promise!vars) => [PromiseProofs!Next]_(PromiseProofs!vars)
  BY DEF Promise!Next, Promise!vars, Promise!Begin, Promise!Reject, Promise!GiveUp,
     Promise!Cancel, Promise!Call, Promise!Succeed, Promise!Fail, Promise!MayCall,
     Promise!Follows, Promise!Refused, Promise!Listed, Promise!LastOf, Promise!PositionOf,
     Promise!Failures, PromiseProofs!Next, PromiseProofs!vars, PromiseProofs!Begin,
     PromiseProofs!Reject, PromiseProofs!GiveUp, PromiseProofs!Cancel, PromiseProofs!Call,
     PromiseProofs!Succeed, PromiseProofs!Fail, PromiseProofs!MayCall, PromiseProofs!Follows,
     PromiseProofs!Refused, PromiseProofs!Listed, PromiseProofs!LastOf,
     PromiseProofs!PositionOf, PromiseProofs!Failures
<1> QED BY PromiseKept, <1>2, <1>3, <1>4, <1>5, PTL DEF KeepsPromise, Promise!Spec, PromiseProofs!Spec
=============================================================================
