--------------------------- MODULE QuotaOpsProofs ---------------------------
(***************************************************************************)
(* Lemmas about the operators of QuotaOps, for QuotaProofs and RouterProofs:*)
(* what rolling, reserving, committing and releasing do to a tracker state. *)
(***************************************************************************)
EXTENDS QuotaOps, FoldProofs

\* Min of such a set is an element of it and a lower bound.
LEMMA MinIsLeast ==
    ASSUME NEW T \in SUBSET Nat, T # {}
    PROVE  /\ Min(T) \in T
           /\ \A y \in T : Min(T) <= y
<1>1. \E x \in T : \A y \in T : x <= y
  BY HasLeast
<1> QED BY <1>1, Zenon DEF Min

-----------------------------------------------------------------------------
(* The states of the tracker, with reservations named in Id, and what each   *)
(* operation does to one.  (An effect is named so that a proof need not look *)
(* inside the operation again.)                                             *)

TrackerState(Id) ==
    [requestTimes : Seq(Nat),
     tokenEvents : Seq([at : Nat, id : Id, tokens : Int]),
     day : Nat, dailyRequests : Nat, dailyTokens : Int, dailyCost : Int,
     reservations : SUBSET [id : Id, tokens : Int, cost : Int]]

\* Rolling to time t of day d: a suffix of the request log is kept, whose missing
\* part has expired, and the counters of the same day only.
RollEffect(s, n, t, d) ==
    LET k == Len(s.requestTimes) - Len(n.requestTimes)
    IN  /\ k >= 0
        /\ \A i \in 1 .. k : s.requestTimes[i] <= t - Window
        /\ \A i \in 1 .. Len(n.requestTimes) : n.requestTimes[i] = s.requestTimes[i + k]
        /\ n.day = d
        /\ n.dailyRequests = IF s.day = d THEN s.dailyRequests ELSE 0
        /\ n.dailyTokens = IF s.day = d THEN s.dailyTokens ELSE 0
        /\ n.dailyCost = IF s.day = d THEN s.dailyCost ELSE 0
        /\ n.reservations = s.reservations

\* The token events before the first one still in the window are dropped.
RollEventsEffect(old, new, t) ==
    \E k \in 0 .. Len(old) :
        /\ Len(new) = Len(old) - k
        /\ \A i \in 1 .. Len(new) : new[i] = old[i + k]
        /\ \A i \in 1 .. k : old[i].at <= t - Window
        /\ k < Len(old) => old[k + 1].at > t - Window

\* Reserving an estimate e under the name id at time t.
ReserveEffect(s, n, id, e, t) ==
    /\ n.requestTimes = Append(s.requestTimes, t)
    /\ n.tokenEvents = Append(s.tokenEvents, [at |-> t, id |-> id, tokens |-> e.tokens])
    /\ n.day = s.day
    /\ n.dailyRequests = s.dailyRequests + 1
    /\ n.dailyTokens = s.dailyTokens + e.tokens
    /\ n.dailyCost = s.dailyCost + e.cost
    /\ n.reservations = s.reservations \cup {Reservation(id, e)}

\* Settling reservation r: the requests stay, the reservation goes.
SettleEffect(s, n, r) ==
    /\ n.requestTimes = s.requestTimes
    /\ n.day = s.day
    /\ n.dailyRequests = s.dailyRequests
    /\ n.reservations = s.reservations \ {r}
    /\ r \notin s.reservations => n = s

\* Committing usage u, the first time: the usage instead of the estimate.
CommitEffect(s, n, r, u) ==
    /\ n.dailyTokens = s.dailyTokens + NonNegative(u.tokens) - r.tokens
    /\ n.dailyCost = s.dailyCost + NonNegative(u.cost) - r.cost
    /\ Len(n.tokenEvents) = Len(s.tokenEvents)
    /\ \A i \in 1 .. Len(s.tokenEvents) :
           /\ n.tokenEvents[i].at = s.tokenEvents[i].at
           /\ n.tokenEvents[i].id = s.tokenEvents[i].id
           /\ n.tokenEvents[i].tokens =
                  IF s.tokenEvents[i].id = r.id THEN NonNegative(u.tokens)
                  ELSE s.tokenEvents[i].tokens

\* Releasing, the first time: the estimate is taken back, down to zero.
ReleaseEffect(s, n, r) ==
    /\ n.dailyTokens = NonNegative(s.dailyTokens - r.tokens)
    /\ n.dailyCost = NonNegative(s.dailyCost - r.cost)
    /\ n.tokenEvents = WithoutEvent(s.tokenEvents, r.id)

\* The popleft loop drops expired stamps only.
LEMMA FirstLiveBounds ==
    ASSUME NEW stamps \in Seq(Nat), NEW cutoff \in Int
    PROVE  /\ FirstLive(stamps, cutoff) \in 1 .. Len(stamps) + 1
           /\ \A i \in 1 .. FirstLive(stamps, cutoff) - 1 : stamps[i] <= cutoff
           /\ FirstLive(stamps, cutoff) <= Len(stamps) =>
                  stamps[FirstLive(stamps, cutoff)] > cutoff
<1> DEFINE T == { i \in 1 .. Len(stamps) : stamps[i] > cutoff } \cup {Len(stamps) + 1}
           m == Min(T)
<1>1. T \in SUBSET Nat /\ T # {}
  OBVIOUS
<1>2. FirstLive(stamps, cutoff) = m
  BY DEF FirstLive
<1>3. m \in T /\ \A y \in T : m <= y
  BY <1>1, MinIsLeast
<1> HIDE DEF m
<1>4. m \in 1 .. Len(stamps) + 1
  BY <1>3
<1>5. ASSUME NEW i \in 1 .. m - 1 PROVE stamps[i] <= cutoff
  <2>1. i \notin T /\ i \in 1 .. Len(stamps)
    BY <1>3, <1>4
  <2>2. stamps[i] \in Nat
    BY <2>1
  <2> QED BY <2>1, <2>2
<1>6. m <= Len(stamps) => stamps[m] > cutoff
  BY <1>3
<1> QED BY <1>2, <1>4, <1>5, <1>6

\* Removing a reservation's event leaves a sequence of events.
LEMMA WithoutEventType ==
    ASSUME NEW S, NEW s \in Seq(S), NEW id
    PROVE  WithoutEvent(s, id) \in Seq(S)
<1> DEFINE I == { i \in 1 .. Len(s) : s[i].id = id }
           m == Min(I)
<1>1. CASE I = {}
  BY <1>1 DEF WithoutEvent, RemoveFirstMatch
<1>2. CASE I # {}
  <2>1. I \in SUBSET Nat
    OBVIOUS
  <2>2. m \in I
    BY <1>2, <2>1, MinIsLeast
  <2>3. WithoutEvent(s, id) = SubSeq(s, 1, m - 1) \o SubSeq(s, m + 1, Len(s))
    BY <1>2 DEF WithoutEvent, RemoveFirstMatch, RemoveAt, SelectInSeq
  <2> HIDE DEF m
  <2>4. /\ SubSeq(s, 1, m - 1) \in Seq(S)
        /\ SubSeq(s, m + 1, Len(s)) \in Seq(S)
    BY <2>2, SubSeqProperties
  <2> QED BY <2>3, <2>4, ConcatProperties
<1> QED BY <1>1, <1>2

\* A record of well-typed fields is a tracker state (for the prover's sake:
\* the records of QuotaOps are written out field by field).
LEMMA StateRecord ==
    ASSUME NEW Id, NEW rt \in Seq(Nat), NEW te \in Seq([at : Nat, id : Id, tokens : Int]),
           NEW d \in Nat, NEW dr \in Nat, NEW dt \in Int, NEW dc \in Int,
           NEW rs \in SUBSET [id : Id, tokens : Int, cost : Int]
    PROVE  [requestTimes |-> rt, tokenEvents |-> te, day |-> d, dailyRequests |-> dr,
            dailyTokens |-> dt, dailyCost |-> dc, reservations |-> rs] \in TrackerState(Id)
BY DEF TrackerState

\* What a roll keeps of a well-typed state: a suffix of the request log whose
\* missing part has expired, and the counters of the same day only.
LEMMA RollProperties ==
    ASSUME NEW Id, NEW s \in TrackerState(Id), NEW t \in Nat, NEW d \in Nat
    PROVE  Roll(s, t, d) \in TrackerState(Id) /\ RollEffect(s, Roll(s, t, d), t, d)
<1> DEFINE Event == [at : Nat, id : Id, tokens : Int]
           c  == t - Window
           f  == FirstLive(s.requestTimes, c)
           g  == FirstLive(Stamps(s.tokenEvents), c)
           rt == SubSeq(s.requestTimes, f, Len(s.requestTimes))
           te == SubSeq(s.tokenEvents, g, Len(s.tokenEvents))
           r  == Roll(s, t, d)
<1>1. /\ c \in Int
      /\ s.requestTimes \in Seq(Nat)
      /\ s.tokenEvents \in Seq(Event)
  BY WindowAssumption DEF TrackerState
<1>0. \A i \in 1 .. Len(s.tokenEvents) : s.tokenEvents[i] \in Event
  <2> HIDE DEF Event
  <2> QED BY <1>1, ElementOfSeq
<1>2. /\ f \in 1 .. Len(s.requestTimes) + 1
      /\ \A i \in 1 .. f - 1 : s.requestTimes[i] <= c
  BY <1>1, FirstLiveBounds
<1>3. g \in 1 .. Len(s.tokenEvents) + 1
  <2>1. /\ Stamps(s.tokenEvents) \in Seq(Nat)
        /\ Len(Stamps(s.tokenEvents)) = Len(s.tokenEvents)
    <3>1. \A i \in 1 .. Len(s.tokenEvents) : s.tokenEvents[i].at \in Nat
      BY <1>0
    <3> QED BY <1>1, <3>1, LenProperties, IsASeq DEF Stamps
  <2> QED BY <1>1, <2>1, FirstLiveBounds
<1>4. r = [requestTimes |-> rt, tokenEvents |-> te, day |-> d,
           dailyRequests |-> IF s.day = d THEN s.dailyRequests ELSE 0,
           dailyTokens |-> IF s.day = d THEN s.dailyTokens ELSE 0,
           dailyCost |-> IF s.day = d THEN s.dailyCost ELSE 0,
           reservations |-> s.reservations]
  BY DEF Roll, RollTo
<1> HIDE DEF f, g, r, c
<1>5. /\ rt \in Seq(Nat)
      /\ Len(rt) = Len(s.requestTimes) - f + 1
      /\ \A i \in 1 .. Len(rt) : rt[i] = s.requestTimes[i + f - 1]
  <2>1. \A i \in f .. Len(s.requestTimes) : s.requestTimes[i] \in Nat
    BY <1>1, <1>2
  <2>2. f \in Int /\ Len(s.requestTimes) \in Int
    BY <1>1, <1>2
  <2>3. /\ rt \in Seq(Nat)
        /\ Len(rt) = IF f <= Len(s.requestTimes) THEN Len(s.requestTimes) - f + 1 ELSE 0
        /\ \A i \in 1 .. Len(s.requestTimes) - f + 1 : rt[i] = s.requestTimes[f + i - 1]
    BY <2>1, <2>2, SubSeqProperties
  <2> QED BY <1>1, <1>2, <2>3
<1>6. te \in Seq(Event)
  <2>1. \A i \in g .. Len(s.tokenEvents) : s.tokenEvents[i] \in Event
    <3> HIDE DEF Event
    <3> QED BY <1>1, <1>3, <1>0
  <2>2. g \in Int /\ Len(s.tokenEvents) \in Int
    BY <1>1, <1>3
  <2> HIDE DEF Event
  <2> QED BY <2>1, <2>2, SubSeqProperties
<1> HIDE DEF rt, te
<1>7. r \in TrackerState(Id)
  <2>1. /\ (IF s.day = d THEN s.dailyRequests ELSE 0) \in Nat
        /\ (IF s.day = d THEN s.dailyTokens ELSE 0) \in Int
        /\ (IF s.day = d THEN s.dailyCost ELSE 0) \in Int
        /\ s.reservations \in SUBSET [id : Id, tokens : Int, cost : Int]
    BY DEF TrackerState
  <2> QED BY <1>4, <1>5, <1>6, <2>1, StateRecord
<1> DEFINE k == Len(s.requestTimes) - Len(r.requestTimes)
<1>8. k = f - 1
  BY <1>1, <1>2, <1>4, <1>5
<1> HIDE DEF k
<1>9. k >= 0 /\ \A i \in 1 .. k : s.requestTimes[i] <= t - Window
  BY <1>2, <1>8 DEF c
<1>10. \A i \in 1 .. Len(r.requestTimes) : r.requestTimes[i] = s.requestTimes[i + k]
  <2>1. r.requestTimes = rt
    BY <1>4
  <2>2. \A i \in 1 .. Len(rt) : i + f - 1 = i + k
    BY <1>2, <1>5, <1>8
  <2> QED BY <1>5, <2>1, <2>2
<1>11. /\ r.day = d
       /\ r.dailyRequests = IF s.day = d THEN s.dailyRequests ELSE 0
       /\ r.dailyTokens = IF s.day = d THEN s.dailyTokens ELSE 0
       /\ r.dailyCost = IF s.day = d THEN s.dailyCost ELSE 0
       /\ r.reservations = s.reservations
  BY <1>4
<1> QED BY <1>7, <1>9, <1>10, <1>11 DEF r, k, RollEffect

\* Reserving keeps the type of the state.
LEMMA ReserveType ==
    ASSUME NEW Id, NEW s \in TrackerState(Id), NEW t \in Nat, NEW id \in Id, NEW e \in Amount
    PROVE  LET n == Reserve(s, Reservation(id, e), t)
           IN  n \in TrackerState(Id) /\ ReserveEffect(s, n, id, e, t)
<1> DEFINE event == [at |-> t, id |-> id, tokens |-> e.tokens]
           n == [requestTimes |-> Append(s.requestTimes, t),
                 tokenEvents |-> Append(s.tokenEvents, event),
                 day |-> s.day,
                 dailyRequests |-> s.dailyRequests + 1,
                 dailyTokens |-> s.dailyTokens + e.tokens,
                 dailyCost |-> s.dailyCost + e.cost,
                 reservations |-> s.reservations \cup {Reservation(id, e)}]
<1>1. Reserve(s, Reservation(id, e), t) = n
  BY DEF Reserve, Reservation
<1>2. /\ Append(s.requestTimes, t) \in Seq(Nat)
      /\ Len(Append(s.requestTimes, t)) = Len(s.requestTimes) + 1
  BY AppendProperties DEF TrackerState
<1>3. Append(s.tokenEvents, event) \in Seq([at : Nat, id : Id, tokens : Int])
  BY AppendProperties DEF TrackerState, Amount
<1>4. /\ Reservation(id, e) \in [id : Id, tokens : Int, cost : Int]
      /\ e.tokens \in Int /\ e.cost \in Int
  BY DEF Reservation, Amount
<1>5. /\ s.dailyRequests + 1 \in Nat
      /\ s.dailyTokens + e.tokens \in Int
      /\ s.dailyCost + e.cost \in Int
      /\ s.day \in Nat
      /\ s.reservations \in SUBSET [id : Id, tokens : Int, cost : Int]
  <2>1. /\ s.dailyRequests \in Nat /\ s.dailyTokens \in Int /\ s.dailyCost \in Int
        /\ s.day \in Nat
        /\ s.reservations \in SUBSET [id : Id, tokens : Int, cost : Int]
    BY DEF TrackerState
  <2> QED BY ONLY <1>4, <2>1
<1> HIDE DEF event
<1>6. s.reservations \cup {Reservation(id, e)} \in SUBSET [id : Id, tokens : Int, cost : Int]
  BY <1>4, <1>5
<1>7. n \in TrackerState(Id)
  BY <1>6, <1>2, <1>3, <1>5, StateRecord
<1>8. ReserveEffect(s, n, id, e, t)
  BY DEF ReserveEffect, event
<1> QED BY <1>1, <1>7, <1>8

\* Committing keeps the type of the state, whatever usage is reported, charges the
\* usage instead of the estimate, and does so once.
LEMMA CommitType ==
    ASSUME NEW Id, NEW s \in TrackerState(Id), NEW u \in Amount,
           NEW r \in [id : Id, tokens : Int, cost : Int]
    PROVE  LET n == CommitUsage(s, r, u)
           IN  /\ n \in TrackerState(Id)
               /\ SettleEffect(s, n, r)
               /\ r \in s.reservations => CommitEffect(s, n, r, u)
<1> DEFINE Event  == [at : Nat, id : Id, tokens : Int]
           actual == NonNegative(u.tokens)
           event(i) == IF s.tokenEvents[i].id = r.id
                       THEN [s.tokenEvents[i] EXCEPT !.tokens = actual]
                       ELSE s.tokenEvents[i]
           events == [i \in 1 .. Len(s.tokenEvents) |-> event(i)]
           n == [requestTimes |-> s.requestTimes,
                 tokenEvents |-> events,
                 day |-> s.day,
                 dailyRequests |-> s.dailyRequests,
                 dailyTokens |-> s.dailyTokens + actual - r.tokens,
                 dailyCost |-> s.dailyCost + NonNegative(u.cost) - r.cost,
                 reservations |-> s.reservations \ {r}]
<1>1. actual \in Int /\ NonNegative(u.cost) \in Int
  BY DEF NonNegative, Amount
<1>2. CASE r \notin s.reservations
  BY <1>2 DEF CommitUsage, SettleEffect
<1>3. CASE r \in s.reservations
  <2>1. CommitUsage(s, r, u) = n
    BY <1>3 DEF CommitUsage, Settled
  <2> HIDE DEF actual
  <2>2. s.tokenEvents \in Seq(Event) /\ Len(s.tokenEvents) \in Nat
    BY DEF TrackerState
  <2>3. ASSUME NEW i \in 1 .. Len(s.tokenEvents)
        PROVE  /\ event(i) \in Event
               /\ event(i).at = s.tokenEvents[i].at
               /\ event(i).id = s.tokenEvents[i].id
               /\ event(i).tokens = IF s.tokenEvents[i].id = r.id THEN actual
                                    ELSE s.tokenEvents[i].tokens
    <3>1. s.tokenEvents[i] \in Event
      BY <2>2, ElementOfSeq
    <3> QED BY <1>1, <3>1
  <2> HIDE DEF event
  <2>4. /\ events \in Seq(Event)
        /\ Len(events) = Len(s.tokenEvents)
        /\ \A i \in 1 .. Len(s.tokenEvents) : events[i] = event(i)
    BY <2>2, <2>3, IsASeq, LenProperties
  <2> HIDE DEF events
  <2>5. /\ s.requestTimes \in Seq(Nat) /\ s.day \in Nat /\ s.dailyRequests \in Nat
        /\ s.dailyTokens + actual - r.tokens \in Int
        /\ s.dailyCost + NonNegative(u.cost) - r.cost \in Int
        /\ s.reservations \ {r} \in SUBSET [id : Id, tokens : Int, cost : Int]
    BY <1>1 DEF TrackerState
  <2>6. n \in TrackerState(Id)
    BY <2>4, <2>5, StateRecord
  <2>7. ASSUME NEW i \in 1 .. Len(s.tokenEvents)
        PROVE  /\ events[i].at = s.tokenEvents[i].at
               /\ events[i].id = s.tokenEvents[i].id
               /\ events[i].tokens = IF s.tokenEvents[i].id = r.id THEN actual
                                     ELSE s.tokenEvents[i].tokens
    BY <2>3, <2>4
  <2>8. SettleEffect(s, n, r)
    BY <1>3 DEF SettleEffect
  <2>9. CommitEffect(s, n, r, u)
    BY <2>4, <2>7 DEF CommitEffect, actual
  <2> QED BY <2>1, <2>6, <2>8, <2>9
<1> QED BY <1>2, <1>3

\* Releasing keeps the type of the state, takes the estimate back, and does so once.
LEMMA ReleaseType ==
    ASSUME NEW Id, NEW s \in TrackerState(Id), NEW r \in [id : Id, tokens : Int, cost : Int]
    PROVE  LET n == ReleaseEstimate(s, r)
           IN  /\ n \in TrackerState(Id)
               /\ SettleEffect(s, n, r)
               /\ r \in s.reservations => ReleaseEffect(s, n, r)
<1> DEFINE Event  == [at : Nat, id : Id, tokens : Int]
           events == WithoutEvent(s.tokenEvents, r.id)
           tokens == NonNegative(s.dailyTokens - r.tokens)
           cost   == NonNegative(s.dailyCost - r.cost)
           n == [requestTimes |-> s.requestTimes,
                 tokenEvents |-> events,
                 day |-> s.day,
                 dailyRequests |-> s.dailyRequests,
                 dailyTokens |-> tokens,
                 dailyCost |-> cost,
                 reservations |-> s.reservations \ {r}]
<1>1. s.tokenEvents \in Seq(Event)
  BY DEF TrackerState
<1>2. events \in Seq(Event)
  BY <1>1, WithoutEventType
<1>3. tokens \in Int /\ cost \in Int
  BY DEF NonNegative, TrackerState
<1>4. CASE r \notin s.reservations
  BY <1>4 DEF ReleaseEstimate, SettleEffect
<1>5. CASE r \in s.reservations
  <2>1. ReleaseEstimate(s, r) = n
    BY <1>5 DEF ReleaseEstimate, Settled
  <2> HIDE DEF events, tokens, cost
  <2>2. /\ s.requestTimes \in Seq(Nat) /\ s.day \in Nat /\ s.dailyRequests \in Nat
        /\ s.reservations \ {r} \in SUBSET [id : Id, tokens : Int, cost : Int]
    BY DEF TrackerState
  <2>3. n \in TrackerState(Id)
    BY <1>2, <1>3, <2>2, StateRecord
  <2>4. SettleEffect(s, n, r)
    BY <1>5 DEF SettleEffect
  <2>5. ReleaseEffect(s, n, r)
    BY DEF ReleaseEffect, events, tokens, cost
  <2> QED BY <2>1, <2>3, <2>4, <2>5
<1> QED BY <1>4, <1>5

-----------------------------------------------------------------------------
(* The token events.                                                        *)

\* A roll drops the events before the first one that is still in the window.
LEMMA RollEvents ==
    ASSUME NEW Id, NEW s \in TrackerState(Id), NEW t \in Nat, NEW d \in Nat
    PROVE  RollEventsEffect(s.tokenEvents, Roll(s, t, d).tokenEvents, t)
<1> DEFINE Event == [at : Nat, id : Id, tokens : Int]
           old == s.tokenEvents
           c == t - Window
           g == FirstLive(Stamps(old), c)
           new == SubSeq(old, g, Len(old))
<1>1. old \in Seq(Event) /\ Len(old) \in Nat /\ c \in Int
  BY WindowAssumption DEF TrackerState
<1>2. \A i \in 1 .. Len(old) : old[i] \in Event
  <2> HIDE DEF Event
  <2> QED BY <1>1, ElementOfSeq
<1>3. Roll(s, t, d).tokenEvents = new
  BY DEF Roll, RollTo
<1>4. /\ Stamps(old) \in Seq(Nat)
      /\ Len(Stamps(old)) = Len(old)
      /\ \A i \in 1 .. Len(old) : Stamps(old)[i] = old[i].at
  <2>1. \A i \in 1 .. Len(old) : old[i].at \in Nat
    BY <1>2
  <2> QED BY <1>1, <2>1, LenProperties, IsASeq DEF Stamps
<1>5. /\ g \in 1 .. Len(old) + 1
      /\ \A i \in 1 .. g - 1 : Stamps(old)[i] <= c
      /\ g <= Len(old) => Stamps(old)[g] > c
  BY <1>1, <1>4, FirstLiveBounds
<1> HIDE DEF g, old, Event, c
<1>6. /\ Len(new) = Len(old) - g + 1
      /\ \A i \in 1 .. Len(old) - g + 1 : new[i] = old[g + i - 1]
  <2>1. \A i \in g .. Len(old) : old[i] \in Event
    BY <1>1, <1>2, <1>5
  <2>2. g \in Int /\ Len(old) \in Int
    BY <1>1, <1>5
  <2>3. /\ Len(new) = IF g <= Len(old) THEN Len(old) - g + 1 ELSE 0
        /\ \A i \in 1 .. Len(old) - g + 1 : new[i] = old[g + i - 1]
    BY <2>1, <2>2, SubSeqProperties
  <2> QED BY <1>1, <1>5, <2>3
<1> DEFINE k == g - 1
<1>7. k \in 0 .. Len(old) /\ Len(new) = Len(old) - k
  BY <1>1, <1>5, <1>6
<1> HIDE DEF new
<1>8. \A i \in 1 .. Len(new) : new[i] = old[i + k]
  <2>1. \A i \in 1 .. Len(new) : g + i - 1 = i + k
    BY <1>1, <1>5, <1>6
  <2> QED BY <1>6, <1>7, <2>1
<1>9. ASSUME NEW i \in 1 .. k PROVE old[i].at <= c
  <2>1. i \in 1 .. g - 1 /\ i \in 1 .. Len(old)
    BY <1>1, <1>5
  <2>2. Stamps(old)[i] <= c /\ Stamps(old)[i] = old[i].at
    BY <1>4, <1>5, <2>1
  <2> QED BY <2>2
<1>10. k < Len(old) => old[k + 1].at > c
  <2>1. k + 1 = g
    BY <1>5
  <2> QED BY <1>1, <1>4, <1>5, <2>1
<1> QED BY <1>3, <1>7, <1>8, <1>9, <1>10 DEF RollEventsEffect, old, c

\* When no two events have the same id, removing an id removes its event, or
\* nothing when there is none.
LEMMA WithoutEventProperties ==
    ASSUME NEW S, NEW s \in Seq(S), NEW id,
           \A i, k \in 1 .. Len(s) : s[i].id = s[k].id => i = k
    PROVE  LET n == WithoutEvent(s, id)
           IN  \/ /\ \A i \in 1 .. Len(s) : s[i].id # id
                  /\ n = s
               \/ \E k \in 1 .. Len(s) :
                      /\ s[k].id = id
                      /\ Len(n) = Len(s) - 1
                      /\ \A i \in 1 .. Len(n) : n[i] = s[IF i < k THEN i ELSE i + 1]
<1> DEFINE I == { i \in 1 .. Len(s) : s[i].id = id }
           m == Min(I)
           n == WithoutEvent(s, id)
<1>0. Len(s) \in Nat
  OBVIOUS
<1>1. CASE I = {}
  BY <1>1 DEF WithoutEvent, RemoveFirstMatch
<1>2. CASE I # {}
  <2>1. I \in SUBSET Nat
    OBVIOUS
  <2>2. m \in I
    BY <1>2, <2>1, MinIsLeast
  <2> DEFINE a == SubSeq(s, 1, m - 1)
             b == SubSeq(s, m + 1, Len(s))
  <2>3. n = a \o b
    BY <1>2 DEF WithoutEvent, RemoveFirstMatch, RemoveAt, SelectInSeq
  <2> HIDE DEF m, n
  <2>4. m \in 1 .. Len(s) /\ s[m].id = id
    BY <2>2
  <2>5. /\ a \in Seq(S) /\ Len(a) = m - 1
        /\ \A i \in 1 .. m - 1 : a[i] = s[i]
    <3>1. \A i \in 1 .. m - 1 : s[i] \in S
      BY <2>4
    <3>2. /\ a \in Seq(S)
          /\ Len(a) = IF 1 <= m - 1 THEN (m - 1) - 1 + 1 ELSE 0
          /\ \A i \in 1 .. (m - 1) - 1 + 1 : a[i] = s[1 + i - 1]
      BY <2>4, <3>1, SubSeqProperties
    <3>3. \A i \in 1 .. m - 1 : i \in 1 .. (m - 1) - 1 + 1 /\ 1 + i - 1 = i
      BY <2>4
    <3> HIDE DEF a
    <3>4. \A i \in 1 .. m - 1 : a[i] = s[i]
      BY <3>2, <3>3
    <3> QED BY <2>4, <3>2, <3>4
  <2>6. /\ b \in Seq(S) /\ Len(b) = Len(s) - m
        /\ \A i \in 1 .. Len(s) - m : b[i] = s[m + i]
    <3>1. \A i \in m + 1 .. Len(s) : s[i] \in S
      BY <2>4
    <3>2. /\ b \in Seq(S)
          /\ Len(b) = IF m + 1 <= Len(s) THEN Len(s) - (m + 1) + 1 ELSE 0
          /\ \A i \in 1 .. Len(s) - (m + 1) + 1 : b[i] = s[(m + 1) + i - 1]
      BY <2>4, <3>1, SubSeqProperties
    <3>3. \A i \in 1 .. Len(s) - m : i \in 1 .. Len(s) - (m + 1) + 1 /\ (m + 1) + i - 1 = m + i
      BY <2>4
    <3> HIDE DEF b
    <3>4. \A i \in 1 .. Len(s) - m : b[i] = s[m + i]
      BY <3>2, <3>3
    <3> QED BY <1>0, <2>4, <3>2, <3>4
  <2> HIDE DEF a, b
  <2>7. /\ Len(n) = Len(a) + Len(b)
        /\ \A i \in 1 .. Len(a) + Len(b) : n[i] = IF i <= Len(a) THEN a[i] ELSE b[i - Len(a)]
    BY <2>3, <2>5, <2>6, ConcatProperties, ZenonT(60)
  <2>8. Len(n) = Len(s) - 1
    BY <1>0, <2>4, <2>5, <2>6, <2>7
  <2>9. ASSUME NEW i \in 1 .. Len(n) PROVE n[i] = s[IF i < m THEN i ELSE i + 1]
    <3>1. CASE i < m
      BY <1>0, <2>4, <2>5, <2>6, <2>7, <2>8, <3>1
    <3>2. CASE ~ (i < m)
      <4>1. i - (m - 1) \in 1 .. Len(s) - m /\ m + (i - (m - 1)) = i + 1
        BY <1>0, <2>4, <2>8, <3>2
      <4>2. n[i] = b[i - (m - 1)]
        BY <1>0, <2>4, <2>5, <2>6, <2>7, <2>8, <3>2
      <4>3. b[i - (m - 1)] = s[m + (i - (m - 1))]
        BY <2>6, <4>1
      <4> QED BY <3>2, <4>1, <4>2, <4>3
    <3> QED BY <3>1, <3>2
  <2> QED BY <2>4, <2>8, <2>9 DEF n
<1> QED BY <1>1, <1>2

\* tokens_per_minute is checked against the sum of the events.
LEMMA MinuteTokensTotal ==
    ASSUME NEW s
    PROVE  MinuteTokens(s) = Total([i \in 1 .. Len(s.tokenEvents) |-> s.tokenEvents[i].tokens],
                                   1 .. Len(s.tokenEvents))
BY Zenon DEF MinuteTokens, SumFunction, Total

\* When the first stamp is inside the window, the popleft loop drops nothing.
LEMMA NothingToDrop ==
    ASSUME NEW stamps \in Seq(Nat), NEW cutoff \in Int,
           Len(stamps) > 0 => stamps[1] > cutoff
    PROVE  FirstLive(stamps, cutoff) = 1
<1> DEFINE f == FirstLive(stamps, cutoff)
           n == Len(stamps)
<1>1. /\ f \in 1 .. n + 1
      /\ \A i \in 1 .. f - 1 : stamps[i] <= cutoff
  BY FirstLiveBounds
<1>2. n \in Nat
  OBVIOUS
<1>3. n > 0 => stamps[1] \in Nat
  OBVIOUS
<1> HIDE DEF f
<1>4. f > 1 => n > 0 /\ 1 \in 1 .. f - 1
  BY <1>1, <1>2
<1>5. f > 1 => FALSE
  BY <1>1, <1>3, <1>4
<1> QED BY <1>1, <1>2, <1>5 DEF f

\* A roll at the same moment as the one before it changes nothing.
LEMMA RollIdempotent ==
    ASSUME NEW Id, NEW s \in TrackerState(Id), NEW t \in Nat, NEW d \in Nat
    PROVE  Roll(Roll(s, t, d), t, d) = Roll(s, t, d)
<1> DEFINE Event == [at : Nat, id : Id, tokens : Int]
           c == t - Window
           old == s.requestTimes
           f == FirstLive(old, c)
           n == Roll(s, t, d)
           rt == n.requestTimes
           te == n.tokenEvents
<1>1. /\ c \in Int /\ old \in Seq(Nat) /\ Len(old) \in Nat
      /\ n \in TrackerState(Id)
      /\ rt \in Seq(Nat) /\ te \in Seq(Event)
  <2>1. c \in Int /\ old \in Seq(Nat) /\ Len(old) \in Nat
    BY WindowAssumption DEF TrackerState
  <2>2. n \in TrackerState(Id)
    BY RollProperties
  <2> HIDE DEF n
  <2>3. rt \in Seq(Nat) /\ te \in Seq(Event)
    BY <2>2 DEF TrackerState
  <2> QED BY <2>1, <2>2, <2>3
<1>2. n.day = d
  BY DEF Roll, RollTo
<1>3. Len(rt) > 0 => rt[1] > c
  <2>1. f \in 1 .. Len(old) + 1 /\ (f <= Len(old) => old[f] > c)
    BY <1>1, FirstLiveBounds
  <2>2. rt = SubSeq(old, f, Len(old))
    BY DEF Roll, RollTo
  <2> HIDE DEF f, n, c, old
  <2>3. \A i \in f .. Len(old) : old[i] \in Nat
    BY <1>1, <2>1
  <2>4. /\ Len(rt) = IF f <= Len(old) THEN Len(old) - f + 1 ELSE 0
        /\ \A i \in 1 .. Len(old) - f + 1 : rt[i] = old[f + i - 1]
    BY <1>1, <2>1, <2>2, <2>3, SubSeqProperties
  <2>5. Len(rt) > 0 => f <= Len(old) /\ 1 \in 1 .. Len(old) - f + 1
    BY <1>1, <2>1, <2>4
  <2>6. Len(rt) > 0 => rt[1] = old[f]
    BY <2>1, <2>4, <2>5
  <2> QED BY <2>1, <2>5, <2>6
<1>4. /\ Stamps(te) \in Seq(Nat) /\ Len(Stamps(te)) = Len(te)
      /\ Len(te) > 0 => Stamps(te)[1] > c
  <2>1. PICK k \in 0 .. Len(s.tokenEvents) :
            /\ Len(te) = Len(s.tokenEvents) - k
            /\ \A i \in 1 .. Len(te) : te[i] = s.tokenEvents[i + k]
            /\ k < Len(s.tokenEvents) => s.tokenEvents[k + 1].at > c
    BY RollEvents DEF RollEventsEffect
  <2> HIDE DEF n, c
  <2>2. Len(s.tokenEvents) \in Nat
    BY DEF TrackerState
  <2>3. Len(te) \in Nat /\ \A i \in 1 .. Len(te) : te[i] \in Event
    <3> HIDE DEF te, Event
    <3> QED BY <1>1, ElementOfSeq
  <2>4. \A i \in 1 .. Len(te) : te[i].at \in Nat
    BY <2>3
  <2>5. Stamps(te) \in Seq(Nat) /\ Len(Stamps(te)) = Len(te)
    BY <2>3, <2>4, LenProperties, IsASeq DEF Stamps
  <2>6. Len(te) > 0 => Stamps(te)[1] = te[1].at
    BY <2>3 DEF Stamps
  <2>7. Len(te) > 0 => te[1] = s.tokenEvents[k + 1] /\ k < Len(s.tokenEvents)
    BY <2>1, <2>2, <2>3
  <2> QED BY <2>1, <2>5, <2>6, <2>7
<1>5. FirstLive(rt, c) = 1 /\ FirstLive(Stamps(te), c) = 1
  <2> HIDE DEF n, c
  <2> QED BY <1>1, <1>3, <1>4, NothingToDrop
<1>6. SubSeq(rt, 1, Len(rt)) = rt /\ SubSeq(te, 1, Len(te)) = te
  <2> HIDE DEF n, Event
  <2> QED BY <1>1, SubSeqFull
<1> HIDE DEF n
<1>7. Roll(n, t, d) = [requestTimes |-> rt, tokenEvents |-> te, day |-> d,
                       dailyRequests |-> n.dailyRequests, dailyTokens |-> n.dailyTokens,
                       dailyCost |-> n.dailyCost, reservations |-> n.reservations]
  BY <1>2, <1>5, <1>6 DEF Roll, RollTo
<1>8. n = [requestTimes |-> rt, tokenEvents |-> te, day |-> n.day,
           dailyRequests |-> n.dailyRequests, dailyTokens |-> n.dailyTokens,
           dailyCost |-> n.dailyCost, reservations |-> n.reservations]
  BY <1>1 DEF TrackerState
<1> QED BY <1>2, <1>7, <1>8 DEF n
=============================================================================
