----------------------------- MODULE WebProofs -----------------------------
(***************************************************************************)
(* Theorems about the web front: the cloud API, for every number of         *)
(* requests, threads and configurations, and the page, for every selection  *)
(* of files and any number of loads and jobs.                               *)
(***************************************************************************)
EXTENDS CloudApi, BrowserUI, FoldProofs

-----------------------------------------------------------------------------
(* CloudApi.                                                                *)
(*                                                                         *)
(* The excess of a cold start is bounded and refusals cost nothing.  Why    *)
(* the bound holds: as long as nothing is cached no service has been built, *)
(* and those who build one occupy a thread each; once something is cached   *)
(* nobody starts to build.  So builders and built together never outnumber  *)
(* the threads.                                                             *)

Builders == Building \cup routers

\* What the bound rests on: nothing is built before something is cached, builders
\* and built fit in the threads, and everybody's service is one that was built.
ColdStart ==
    /\ cache = None => routers = {}
    /\ cache # None => cache \in routers
    /\ Cardinality(Builders) <= Threads
    /\ \A r \in Requests : service[r] # None =>
           service[r] \in {r, cache} /\ service[r] \in routers /\ cache \in routers
    /\ \A r \in Requests : phase[r] \in {"ready", "calling"} => service[r] # None
    /\ \A s \in Requests : used[s] <= Capacity

ColdStartInv == TypeOK /\ ColdStart

\* Going on changes the phase of one request only.
LEMMA GoEffect ==
    ASSUME TypeOK, NEW r \in Requests, NEW next \in Phases, Go(r, next)
    PROVE  /\ phase' \in [Requests -> Phases]
           /\ phase'[r] = next
           /\ \A x \in Requests : x # r => phase'[x] = phase[x]
  BY DEF TypeOK, Go

\* A set of requests is finite, and a subset of it no larger.
LEMMA SmallerSet ==
    ASSUME NEW S \in SUBSET Requests, NEW T \in SUBSET S
    PROVE  /\ IsFiniteSet(S) /\ IsFiniteSet(T)
           /\ Cardinality(S) \in Nat /\ Cardinality(T) \in Nat
           /\ Cardinality(T) <= Cardinality(S)
  BY CloudAssumption, FS_Subset, FS_CardinalityType

\* The initial state has nothing built and nothing used.
LEMMA InitColdStart == Init => ColdStartInv
<1> SUFFICES ASSUME Init PROVE ColdStartInv
  OBVIOUS
<1>1. TypeOK
  BY DEF Init, TypeOK, Phases
<1>2. Builders = {}
  BY DEF Init, Builders, Building
<1>3. Cardinality(Builders) <= Threads
  BY <1>2, FS_EmptySet, CloudAssumption
<1> QED
  BY <1>1, <1>3, CloudAssumption DEF Init, ColdStartInv, ColdStart

\* A step that builds nothing and starts no building keeps the bound.
LEMMA NoNewBuilder ==
    ASSUME ColdStartInv, Builders' \in SUBSET Builders
    PROVE  Cardinality(Builders') <= Threads
<1>1. Builders \in SUBSET Requests
  BY DEF ColdStartInv, TypeOK, Builders, Building
<1> QED
  BY <1>1, SmallerSet, CloudAssumption DEF ColdStartInv, ColdStart

\* A request without a key is turned away, and others wait for a thread.
LEMMA AuthenticateIInv ==
    ASSUME ColdStartInv, NEW r \in Requests, Authenticate(r)
    PROVE  ColdStartInv'
<1> USE DEF ColdStartInv
<1>1. PICK next \in {"admitted", "401"} : Go(r, next)
  BY DEF Authenticate
<1>2. next \in Phases
  BY DEF Phases, Refusals
<1>3. /\ phase' \in [Requests -> Phases] /\ phase'[r] = next
      /\ \A x \in Requests : x # r => phase'[x] = phase[x]
  BY <1>1, <1>2, GoEffect
<1>4. TypeOK'
  BY <1>3 DEF TypeOK, Authenticate, deployment
<1>5. Builders' \in SUBSET Builders
  BY <1>3 DEF Builders, Building, Authenticate
<1>6. Cardinality(Builders') <= Threads
  BY <1>5, NoNewBuilder
<1>7. \A x \in Requests : phase'[x] \in {"ready", "calling"} => service'[x] # None
  BY <1>3 DEF ColdStart, Authenticate
<1> QED
  BY <1>4, <1>6, <1>7 DEF ColdStart, Authenticate

\* A hit takes the cached service; a miss adds one builder, for which there is a
\* thread.
LEMMA LookUpIInv ==
    ASSUME ColdStartInv, NEW r \in Requests, LookUp(r)
    PROVE  ColdStartInv'
<1> USE DEF ColdStartInv
<1>1. CASE cache = None
  <2>1. Go(r, "building") /\ UNCHANGED service
    BY <1>1 DEF LookUp
  <2>2. /\ phase' \in [Requests -> Phases] /\ phase'[r] = "building"
        /\ \A x \in Requests : x # r => phase'[x] = phase[x]
    BY <2>1, GoEffect DEF Phases
  <2>3. TypeOK'
    BY <2>1, <2>2 DEF TypeOK, LookUp, deployment
  <2>4. Builders = Building /\ Builders' = Building \cup {r} /\ r \notin Building
    BY <1>1, <2>2 DEF Builders, Building, ColdStart, LookUp
  <2>5. IsFiniteSet(Building) /\ Cardinality(Building) \in Nat
    BY SmallerSet DEF Building
  <2>6. Cardinality(Builders') = Cardinality(Building) + 1
    BY <2>4, <2>5, FS_AddElement
  <2>7. Cardinality(Builders') <= Threads
    BY <2>5, <2>6, CloudAssumption DEF LookUp, FreeThread
  <2>8. \A x \in Requests : phase'[x] \in {"ready", "calling"} => service'[x] # None
    BY <2>1, <2>2 DEF ColdStart
  <2> QED
    BY <2>1, <2>3, <2>7, <2>8 DEF ColdStart, LookUp
<1>2. CASE cache # None
  <2>1. Go(r, "ready") /\ service' = [service EXCEPT ![r] = cache]
    BY <1>2 DEF LookUp
  <2>2. /\ phase' \in [Requests -> Phases] /\ phase'[r] = "ready"
        /\ \A x \in Requests : x # r => phase'[x] = phase[x]
    BY <2>1, GoEffect DEF Phases
  <2>3. TypeOK'
    BY <2>1, <2>2 DEF TypeOK, LookUp, deployment
  <2>4. Builders' \in SUBSET Builders
    BY <2>2 DEF Builders, Building, LookUp
  <2>5. Cardinality(Builders') <= Threads
    BY <2>4, NoNewBuilder
  <2>6. service'[r] = cache /\ \A x \in Requests : x # r => service'[x] = service[x]
    BY <2>1 DEF TypeOK
  <2>7. \A x \in Requests : phase'[x] \in {"ready", "calling"} => service'[x] # None
    BY <1>2, <2>2, <2>6 DEF ColdStart
  <2> QED
    BY <1>2, <2>3, <2>5, <2>6, <2>7 DEF ColdStart, LookUp
<1> QED
  BY <1>1, <1>2

\* A builder becomes one who has built: the two together stay as many.
LEMMA BuildIInv ==
    ASSUME ColdStartInv, NEW r \in Requests, Build(r)
    PROVE  ColdStartInv'
<1> USE DEF ColdStartInv
<1>1. /\ phase' \in [Requests -> Phases] /\ phase'[r] = "ready"
      /\ \A x \in Requests : x # r => phase'[x] = phase[x]
  BY GoEffect DEF Phases, Build
<1>2. cache' \in routers' /\ routers' = routers \cup {r}
  BY DEF Build, ColdStart
<1>3. TypeOK'
  BY <1>1, <1>2 DEF TypeOK, Build, deployment
<1>4. Builders' \in SUBSET Builders
  BY <1>1, <1>2 DEF Builders, Building, Build
<1>5. Cardinality(Builders') <= Threads
  BY <1>4, NoNewBuilder
<1>6. service'[r] = r /\ \A x \in Requests : x # r => service'[x] = service[x]
  BY DEF TypeOK, Build
<1>7. cache # None => cache' = cache
  BY DEF Build
<1>8. r # None
  BY CloudAssumption
<1>9. \A x \in Requests : service'[x] # None =>
          service'[x] \in {x, cache'} /\ service'[x] \in routers'
  <2> SUFFICES ASSUME NEW x \in Requests, service'[x] # None
               PROVE  service'[x] \in {x, cache'} /\ service'[x] \in routers'
    OBVIOUS
  <2>1. CASE x = r
    BY <2>1, <1>2, <1>6
  <2>2. CASE x # r
    BY <2>2, <1>2, <1>6, <1>7 DEF ColdStart
  <2> QED
    BY <2>1, <2>2
<1>10. \A x \in Requests : phase'[x] \in {"ready", "calling"} => service'[x] # None
  BY <1>1, <1>6, <1>8 DEF ColdStart
<1>11. cache' # None
  BY <1>8 DEF Build
<1>12. \A s \in Requests : used'[s] <= Capacity
  BY DEF Build, ColdStart
<1> QED
  BY <1>2, <1>3, <1>5, <1>9, <1>10, <1>11, <1>12 DEF ColdStart

\* A service that cannot be built leaves nothing behind.
LEMMA BuildFailsIInv ==
    ASSUME ColdStartInv, NEW r \in Requests, BuildFails(r)
    PROVE  ColdStartInv'
<1> USE DEF ColdStartInv
<1>1. /\ phase' \in [Requests -> Phases] /\ phase'[r] = "500"
      /\ \A x \in Requests : x # r => phase'[x] = phase[x]
  BY GoEffect DEF Phases, Refusals, BuildFails
<1>2. TypeOK'
  BY <1>1 DEF TypeOK, BuildFails, deployment
<1>3. Builders' \in SUBSET Builders
  BY <1>1 DEF Builders, Building, BuildFails
<1>4. Cardinality(Builders') <= Threads
  BY <1>3, NoNewBuilder
<1>5. \A x \in Requests : phase'[x] \in {"ready", "calling"} => service'[x] # None
  BY <1>1 DEF ColdStart, BuildFails
<1> QED
  BY <1>2, <1>4, <1>5 DEF ColdStart, BuildFails

\* A step of the handler, with or without a call, leaves services and cache alone.
LEMMA HandlerIInv ==
    ASSUME ColdStartInv, NEW r \in Requests, NEW next \in {"422", "200", "503", "calling"},
           phase[r] \in {"ready", "calling"}, Go(r, next),
           next = "calling" => Call(r),
           next # "calling" => UNCHANGED << used, callers >>,
           UNCHANGED << deployment, service, cache, routers >>
    PROVE  ColdStartInv'
<1> USE DEF ColdStartInv
<1>1. next \in Phases /\ next # "building"
  BY DEF Phases, Refusals
<1>2. /\ phase' \in [Requests -> Phases] /\ phase'[r] = next
      /\ \A x \in Requests : x # r => phase'[x] = phase[x]
  BY <1>1, GoEffect
<1>3. service[r] \in Requests
  BY DEF ColdStart, TypeOK
<1>4. used' \in [Requests -> Nat] /\ callers' \in SUBSET Requests
  BY <1>3 DEF Call, TypeOK
<1>5. \A s \in Requests : used'[s] <= Capacity
  <2>1. CASE next = "calling"
    <3>1. used[service[r]] < Capacity /\ used' = [used EXCEPT ![service[r]] = @ + 1]
      BY <2>1 DEF Call
    <3>2. used[service[r]] \in Nat /\ Capacity \in Nat
      BY <1>3, CloudAssumption DEF TypeOK
    <3>3. used[service[r]] + 1 <= Capacity
      BY <3>1, <3>2
    <3> QED
      BY <3>1, <3>3, <1>3 DEF ColdStart, TypeOK
  <2>2. CASE next # "calling"
    BY <2>2 DEF ColdStart
  <2> QED
    BY <2>1, <2>2
<1>6. TypeOK'
  BY <1>2, <1>4 DEF TypeOK, deployment
<1>7. Builders' \in SUBSET Builders
  BY <1>1, <1>2 DEF Builders, Building
<1>8. Cardinality(Builders') <= Threads
  BY <1>7, NoNewBuilder
<1>9. \A x \in Requests : phase'[x] \in {"ready", "calling"} => service'[x] # None
  BY <1>2 DEF ColdStart
<1> QED
  BY <1>5, <1>6, <1>8, <1>9 DEF ColdStart

\* Every step keeps the invariant.
LEMMA NextColdStart == ColdStartInv /\ [Next]_vars => ColdStartInv'
<1> SUFFICES ASSUME ColdStartInv, [Next]_vars PROVE ColdStartInv'
  OBVIOUS
<1>1. CASE UNCHANGED vars
  <2>1. Builders' = Builders
    BY <1>1 DEF vars, Builders, Building
  <2> QED
    BY <1>1, <2>1 DEF vars, deployment, ColdStartInv, TypeOK, ColdStart
<1>2. ASSUME NEW r \in Requests, Step(r) PROVE ColdStartInv'
  <2>1. CASE Authenticate(r)
    BY <2>1, AuthenticateIInv
  <2>2. CASE LookUp(r)
    BY <2>2, LookUpIInv
  <2>3. CASE Build(r)
    BY <2>3, BuildIInv
  <2>4. CASE BuildFails(r)
    BY <2>4, BuildFailsIInv
  <2>5. CASE Route(r)
    <3>1. \/ Go(r, "422") /\ UNCHANGED << used, callers >>
          \/ Go(r, "calling") /\ Call(r)
          \/ Go(r, "503") /\ UNCHANGED << used, callers >>
      BY <2>5 DEF Route, Call, GiveUp
    <3> QED
      BY <2>5, <3>1, HandlerIInv DEF Route
  <2>6. CASE CallEnds(r)
    <3>1. \/ Go(r, "200") /\ UNCHANGED << used, callers >>
          \/ Go(r, "calling") /\ Call(r)
          \/ Go(r, "503") /\ UNCHANGED << used, callers >>
      BY <2>6 DEF CallEnds, Call, GiveUp
    <3> QED
      BY <2>6, <3>1, HandlerIInv DEF CallEnds
  <2> QED
    BY <1>2, <2>1, <2>2, <2>3, <2>4, <2>5, <2>6 DEF Step
<1> QED
  BY <1>1, <1>2 DEF Next

\* What was built is no more than the threads, and each admits its capacity.
LEMMA BoundFollows == ColdStartInv => OverrunBound
<1> SUFFICES ASSUME ColdStartInv PROVE OverrunBound
  OBVIOUS
<1>1. Builders \in SUBSET Requests /\ routers \in SUBSET Builders
  BY DEF ColdStartInv, TypeOK, Builders, Building
<1>2. Cardinality(routers) <= Threads
  BY <1>1, SmallerSet, CloudAssumption DEF ColdStartInv, ColdStart
<1> QED
  BY <1>2 DEF ColdStartInv, TypeOK, ColdStart, OverrunBound

\* The variables of the API keep their types.
THEOREM TypeCorrect == Spec => []TypeOK
<1>1. ColdStartInv => TypeOK
  BY DEF ColdStartInv
<1> QED
  BY <1>1, InitColdStart, NextColdStart, PTL DEF Spec

\* A process never has more routers than threads, each of which keeps to its
\* capacity, and every request that built none shares the cached one.
THEOREM ColdStartIsBounded == Spec => []OverrunBound
  BY InitColdStart, NextColdStart, BoundFollows, PTL DEF Spec
-----------------------------------------------------------------------------
(* Nobody without a key builds or calls, and a refused request calls nobody. *)

\* Who is past the key has shown one; builders and callers are, and a request that
\* caused a call is being served or has its answer.
KeyFirst ==
    /\ \A r \in Requests : phase[r] \notin {"sent", "401"} => ValidKey(r, accessKey)
    /\ \A r \in routers : phase[r] \notin {"sent", "401"}
    /\ \A r \in callers : phase[r] \in {"calling", "200", "503"}
    /\ \A r \in Requests : phase[r] \in {"calling", "200"} => r \in callers

\* Every step keeps refused requests from having done anything.
LEMMA NextKeyFirst ==
    ASSUME TypeOK, KeyFirst, [Next]_vars
    PROVE  KeyFirst'
<1>1. CASE UNCHANGED vars
  BY <1>1 DEF vars, deployment, KeyFirst, ValidKey
<1>2. ASSUME NEW r \in Requests, Step(r) PROVE KeyFirst'
  <2> ValidKey(r, accessKey)' = ValidKey(r, accessKey)
    BY <1>2 DEF Step, Authenticate, LookUp, Build, BuildFails, Route, CallEnds,
                deployment, ValidKey
  <2>1. CASE Authenticate(r)
    <3>1. phase' = [phase EXCEPT ![r] = IF ValidKey(r, accessKey) THEN "admitted" ELSE "401"]
      BY <2>1 DEF Authenticate, Go
    <3>2. phase[r] = "sent" /\ r \notin routers /\ r \notin callers
      BY <2>1 DEF Authenticate, KeyFirst
    <3> QED
      BY <2>1, <3>1, <3>2 DEF Authenticate, TypeOK, KeyFirst, ValidKey, deployment
  <2>2. CASE LookUp(r)
    <3>1. \E next \in {"building", "ready"} : phase' = [phase EXCEPT ![r] = next]
      BY <2>2 DEF LookUp, Go
    <3> QED
      BY <2>2, <3>1 DEF LookUp, TypeOK, KeyFirst, ValidKey, deployment
  <2>3. CASE Build(r)
    BY <2>3 DEF Build, Go, TypeOK, KeyFirst, ValidKey, deployment
  <2>4. CASE BuildFails(r)
    BY <2>4 DEF BuildFails, Go, TypeOK, KeyFirst, ValidKey, deployment
  <2>5. CASE Route(r)
    BY <2>5 DEF Route, Call, GiveUp, Go, TypeOK, KeyFirst, ValidKey, deployment
  <2>6. CASE CallEnds(r)
    BY <2>6 DEF CallEnds, Call, GiveUp, Go, TypeOK, KeyFirst, ValidKey, deployment
  <2> QED
    BY <1>2, <2>1, <2>2, <2>3, <2>4, <2>5, <2>6 DEF Step
<1> QED
  BY <1>1, <1>2 DEF Next

\* A request that was refused has called nobody.
LEMMA RefusedFollows == TypeOK /\ KeyFirst => RefusedForFree
  BY CloudAssumption DEF TypeOK, KeyFirst, RefusedForFree, ValidKey, Refusals

\* Services are built and providers called only for requests that showed a key, and
\* a request that was refused has cost no quota.
THEOREM RefusalsCostNothing == Spec => []RefusedForFree
<1>1. Init => KeyFirst
  BY DEF Init, KeyFirst
<1>2. ColdStartInv => TypeOK
  BY DEF ColdStartInv
<1>3. TypeOK /\ KeyFirst /\ [Next]_vars => KeyFirst'
  BY NextKeyFirst
<1> QED
  BY <1>1, <1>2, <1>3, InitColdStart, NextColdStart, RefusedFollows, PTL DEF Spec

-----------------------------------------------------------------------------
(* BrowserUI: what a selection of files becomes.                            *)

Files == [name : STRING, length : Nat, kind : {"text", "binary", "large"}]
Parts(N) == [name : N, length : Nat]
NamesIn(selection) == { selection[k].name : k \in 1 .. Len(selection) }

\* What a round of the loop leaves, where the files have the names N.
Sources(N) == [parts : Seq(Parts(N)), used : Nat, clipped : BOOLEAN, full : BOOLEAN]

\* The files that are considered are files of the selection.
LEMMA ConsideredFiles ==
    ASSUME NEW selection \in Seq(Files)
    PROVE  LET files == Considered(selection)
           IN  /\ Len(files) \in Nat /\ DOMAIN files = 1 .. Len(files)
               /\ \A i \in 1 .. Len(files) :
                      /\ files[i].name \in NamesIn(selection)
                      /\ files[i].length \in Nat
                      /\ files[i].kind \in {"text", "binary", "large"}
<1> DEFINE m == shorter(Len(selection), MaxFiles)
           files == Considered(selection)
<1>1. m \in Nat /\ m <= Len(selection) /\ MaxFiles \in Nat
  BY ProjectFilesAssumption DEF shorter
<1>2. files = SubSeq(selection, 1, m)
  BY DEF Considered
<1> HIDE DEF m, files
<1>3. Len(files) = m /\ DOMAIN files = 1 .. m /\ \A i \in 1 .. m : files[i] = selection[i]
  <2> HIDE DEF Files
  <2> QED BY <1>1, <1>2
<1>4. ASSUME NEW i \in 1 .. m
      PROVE  /\ selection[i].name \in NamesIn(selection)
             /\ selection[i].length \in Nat
             /\ selection[i].kind \in {"text", "binary", "large"}
  <2>1. i \in 1 .. Len(selection)
    BY <1>1
  <2>2. selection[i] \in Files
    <3> HIDE DEF Files
    <3> QED BY <2>1
  <2> QED BY <2>1, <2>2 DEF Files, NamesIn
<1> QED BY <1>1, <1>3, <1>4 DEF files

\* A file, taken into a source.
LEMMA AddFileType ==
    ASSUME NEW N, NEW v \in Sources(N), NEW file, file.name \in N, file.length \in Nat
    PROVE  AddFile(v, file) \in Sources(N)
<1> DEFINE header == IF v.parts = << >> THEN FirstHeader ELSE NextHeader
           remaining == MaxSource - v.used - header
           body == shorter(file.length, remaining)
           taken == v.used + header + body
<1>1. /\ v.parts \in Seq(Parts(N)) /\ v.used \in Nat /\ v.clipped \in BOOLEAN /\ v.full \in BOOLEAN
      /\ header \in Nat /\ MaxSource \in Nat
  BY ProjectFilesAssumption DEF Sources
<1>2. CASE v.full \/ file.kind # "text"
  BY <1>2 DEF AddFile
<1>3. CASE ~ (v.full \/ file.kind # "text") /\ remaining <= 0
  <2>1. AddFile(v, file) = [v EXCEPT !.clipped = TRUE, !.full = TRUE]
    BY <1>3 DEF AddFile
  <2> QED BY <2>1 DEF Sources
<1>4. CASE ~ (v.full \/ file.kind # "text") /\ ~ remaining <= 0
  <2>1. AddFile(v, file) = [parts   |-> Append(v.parts, Part(file.name, body)),
                            used    |-> taken,
                            clipped |-> v.clipped \/ body < file.length,
                            full    |-> taken >= MaxSource]
    BY <1>4 DEF AddFile
  <2>2. body \in Nat
    <3> HIDE DEF header
    <3> QED BY <1>1, <1>4 DEF shorter
  <2>3. taken \in Nat
    <3> HIDE DEF header, body
    <3> QED BY <1>1, <2>2
  <2>4. Append(v.parts, Part(file.name, body)) \in Seq(Parts(N))
    <3>1. Part(file.name, body) \in Parts(N)
      BY <2>2 DEF Part, Parts
    <3> HIDE DEF Parts, body
    <3> QED BY <1>1, <3>1
  <2> HIDE DEF body, taken
  <2> QED BY <2>1, <2>3, <2>4 DEF Sources
<1> QED BY <1>2, <1>3, <1>4

\* A selection without files.
LEMMA NothingType ==
    ASSUME NEW selection \in Seq(Files), NEW N
    PROVE  Nothing(selection) \in Sources(N)
<1>1. << >> \in Seq(Parts(N))
  <2> HIDE DEF Parts
  <2> QED OBVIOUS
<1> QED BY <1>1 DEF Nothing, Sources

\* The loop, round by round.
Rounds(selection, v) ==
    LET files == Considered(selection)
    IN  /\ v[0] = Nothing(selection)
        /\ \A i \in 1 .. Len(files) : v[i] = AddFile(v[i - 1], files[i])
        /\ Assemble(selection) = v[Len(files)]

\* The loop computes what a selection becomes.
LEMMA RoundsExist ==
    ASSUME NEW selection \in Seq(Files)
    PROVE  \E v : Rounds(selection, v)
<1> DEFINE files == Considered(selection)
           n == Len(files)
           V == Sources(NamesIn(selection))
           base == Nothing(selection)
           It(k) == k = [s \in SUBSET (DOMAIN files) |->
                            IF s = {} THEN base ELSE AddFile(k[s \ {Max(s)}], files[Max(s)])]
           g == [p \in V \X (1 .. n) |-> AddFile(p[1], files[p[2]])]
<1>1. /\ n \in Nat /\ DOMAIN files = 1 .. n /\ base \in V
      /\ \A i \in 1 .. n : files[i].name \in NamesIn(selection) /\ files[i].length \in Nat
  BY ConsideredFiles, NothingType
<1>2. Assemble(selection) = (CHOOSE k : It(k))[DOMAIN files]
  BY Zenon DEF Assemble, FoldLeft, MapThenFoldSet
<1>3. ASSUME NEW x \in V, NEW i \in 1 .. n
      PROVE  AddFile(x, files[i]) \in V /\ g[<< x, i >>] = AddFile(x, files[i])
  <2>1. AddFile(x, files[i]) \in V
    BY <1>1, AddFileType
  <2> HIDE DEF V, n, files
  <2> QED BY <2>1
<1> HIDE DEF g
<1>4. PICK k \in [SUBSET (1 .. n) -> V] : Folds(k, g, base, 1 .. n)
  <2> HIDE DEF V, n, base
  <2>1. \A x \in V : \A i \in 1 .. n : g[<< x, i >>] \in V
    BY <1>3
  <2> QED BY <1>1, <2>1, FoldExists
<1>5. It(k)
  <2> DEFINE h == [s \in SUBSET (1 .. n) |->
                      IF s = {} THEN base ELSE AddFile(k[s \ {Max(s)}], files[Max(s)])]
  <2>1. ASSUME NEW s \in SUBSET (1 .. n) PROVE k[s] = h[s]
    <3>1. CASE s = {}
      BY <1>4, <3>1 DEF Folds
    <3>2. CASE s # {}
      <4>1. Max(s) \in 1 .. n
        <5> HIDE DEF n
        <5> QED BY <1>1, <3>2, MaxIsGreatest
      <4> HIDE DEF V, n, base, files
      <4>2. k[s] = g[<< k[s \ {Max(s)}], Max(s) >>]
        BY <1>4, <3>2 DEF Folds
      <4>3. k[s \ {Max(s)}] \in V
        BY <1>4
      <4>4. g[<< k[s \ {Max(s)}], Max(s) >>] = AddFile(k[s \ {Max(s)}], files[Max(s)])
        BY <1>3, <4>1, <4>3
      <4> QED BY <3>2, <4>2, <4>4
    <3> QED BY <3>1, <3>2
  <2>2. k = [s \in SUBSET (1 .. n) |-> k[s]]
    BY <1>4
  <2>3. k = h
    BY <2>1, <2>2
  <2> QED BY <1>1, <2>3
<1> DEFINE q == CHOOSE k_1 : It(k_1)
<1>6. It(q)
  BY <1>5
<1>7. /\ q[{}] = base
      /\ \A s \in SUBSET (1 .. n) :
             s # {} => q[s] = AddFile(q[s \ {Max(s)}], files[Max(s)])
  <2>1. q = [s \in SUBSET (1 .. n) |->
               IF s = {} THEN base ELSE AddFile(q[s \ {Max(s)}], files[Max(s)])]
    BY <1>1, <1>6
  <2> HIDE DEF q, n, base, files
  <2> QED BY <2>1
<1>8. Assemble(selection) = q[1 .. n]
  BY <1>1, <1>2
<1> HIDE DEF q, It
<1> DEFINE v == [i \in 0 .. n |-> q[1 .. i]]
<1>9. v[0] = base /\ v[n] = q[1 .. n]
  <2>1. 1 .. 0 = {} /\ 0 \in 0 .. n /\ n \in 0 .. n
    BY <1>1
  <2> HIDE DEF base, n
  <2> QED BY <1>7, <2>1
<1>10. ASSUME NEW i \in 1 .. n PROVE v[i] = AddFile(v[i - 1], files[i])
  <2> HIDE DEF n, files, base
  <2>1. /\ 1 .. i \in SUBSET (1 .. n) /\ 1 .. i # {}
        /\ Max(1 .. i) = i /\ (1 .. i) \ {i} = 1 .. i - 1
    BY <1>1, FoldPrefix
  <2>2. q[1 .. i] = AddFile(q[1 .. i - 1], files[i])
    BY <1>7, <2>1
  <2>3. i \in 0 .. n /\ i - 1 \in 0 .. n
    BY <1>1
  <2> QED BY <2>2, <2>3
<1> HIDE DEF v
<1>11. Rounds(selection, v)
  BY <1>8, <1>9, <1>10 DEF Rounds
<1> QED BY <1>11

\* A file, taken whole.
LEMMA AddWholeType ==
    ASSUME NEW N, NEW w \in Seq(Parts(N)), NEW file, file.name \in N, file.length \in Nat
    PROVE  AddWhole(w, file) \in Seq(Parts(N))
<1>1. Part(file.name, file.length) \in Parts(N)
  BY DEF Part, Parts
<1> HIDE DEF Parts
<1> QED BY <1>1 DEF AddWhole

\* The same loop without bounds.
WholeRounds(selection, v) ==
    LET files == Considered(selection)
    IN  /\ v[0] = << >>
        /\ \A i \in 1 .. Len(files) : v[i] = AddWhole(v[i - 1], files[i])
        /\ Whole(selection) = v[Len(files)]

\* The loop without bounds computes the parts of a selection of which nothing is lost.
LEMMA WholeRoundsExist ==
    ASSUME NEW selection \in Seq(Files)
    PROVE  \E v : WholeRounds(selection, v)
<1> DEFINE files == Considered(selection)
           n == Len(files)
           V == Seq(Parts(NamesIn(selection)))
           base == << >>
           It(k) == k = [s \in SUBSET (DOMAIN files) |->
                            IF s = {} THEN base ELSE AddWhole(k[s \ {Max(s)}], files[Max(s)])]
           g == [p \in V \X (1 .. n) |-> AddWhole(p[1], files[p[2]])]
<1>1. /\ n \in Nat /\ DOMAIN files = 1 .. n /\ base \in V
      /\ \A i \in 1 .. n : files[i].name \in NamesIn(selection) /\ files[i].length \in Nat
  <2>1. base \in V
    <3> HIDE DEF Parts
    <3> QED OBVIOUS
  <2> HIDE DEF base, V
  <2> QED BY <2>1, ConsideredFiles
<1>2. Whole(selection) = (CHOOSE k : It(k))[DOMAIN files]
  BY Zenon DEF Whole, FoldLeft, MapThenFoldSet
<1>3. ASSUME NEW x \in V, NEW i \in 1 .. n
      PROVE  AddWhole(x, files[i]) \in V /\ g[<< x, i >>] = AddWhole(x, files[i])
  <2>1. AddWhole(x, files[i]) \in V
    BY <1>1, AddWholeType
  <2> HIDE DEF V, n, files
  <2> QED BY <2>1
<1> HIDE DEF g
<1>4. PICK k \in [SUBSET (1 .. n) -> V] : Folds(k, g, base, 1 .. n)
  <2> HIDE DEF V, n, base
  <2>1. \A x \in V : \A i \in 1 .. n : g[<< x, i >>] \in V
    BY <1>3
  <2> QED BY <1>1, <2>1, FoldExists
<1>5. It(k)
  <2> DEFINE h == [s \in SUBSET (1 .. n) |->
                      IF s = {} THEN base ELSE AddWhole(k[s \ {Max(s)}], files[Max(s)])]
  <2>1. ASSUME NEW s \in SUBSET (1 .. n) PROVE k[s] = h[s]
    <3>1. CASE s = {}
      BY <1>4, <3>1 DEF Folds
    <3>2. CASE s # {}
      <4>1. Max(s) \in 1 .. n
        <5> HIDE DEF n
        <5> QED BY <1>1, <3>2, MaxIsGreatest
      <4> HIDE DEF V, n, base, files
      <4>2. k[s] = g[<< k[s \ {Max(s)}], Max(s) >>]
        BY <1>4, <3>2 DEF Folds
      <4>3. k[s \ {Max(s)}] \in V
        BY <1>4
      <4>4. g[<< k[s \ {Max(s)}], Max(s) >>] = AddWhole(k[s \ {Max(s)}], files[Max(s)])
        BY <1>3, <4>1, <4>3
      <4> QED BY <3>2, <4>2, <4>4
    <3> QED BY <3>1, <3>2
  <2>2. k = [s \in SUBSET (1 .. n) |-> k[s]]
    BY <1>4
  <2>3. k = h
    BY <2>1, <2>2
  <2> QED BY <1>1, <2>3
<1> DEFINE q == CHOOSE k_1 : It(k_1)
<1>6. It(q)
  BY <1>5
<1>7. /\ q[{}] = base
      /\ \A s \in SUBSET (1 .. n) :
             s # {} => q[s] = AddWhole(q[s \ {Max(s)}], files[Max(s)])
  <2>1. q = [s \in SUBSET (1 .. n) |->
               IF s = {} THEN base ELSE AddWhole(q[s \ {Max(s)}], files[Max(s)])]
    BY <1>1, <1>6
  <2> HIDE DEF q, n, base, files
  <2> QED BY <2>1
<1>8. Whole(selection) = q[1 .. n]
  BY <1>1, <1>2
<1> HIDE DEF q, It
<1> DEFINE v == [i \in 0 .. n |-> q[1 .. i]]
<1>9. v[0] = base /\ v[n] = q[1 .. n]
  <2>1. 1 .. 0 = {} /\ 0 \in 0 .. n /\ n \in 0 .. n
    BY <1>1
  <2> HIDE DEF base, n
  <2> QED BY <1>7, <2>1
<1>10. ASSUME NEW i \in 1 .. n PROVE v[i] = AddWhole(v[i - 1], files[i])
  <2> HIDE DEF n, files, base
  <2>1. /\ 1 .. i \in SUBSET (1 .. n) /\ 1 .. i # {}
        /\ Max(1 .. i) = i /\ (1 .. i) \ {i} = 1 .. i - 1
    BY <1>1, FoldPrefix
  <2>2. q[1 .. i] = AddWhole(q[1 .. i - 1], files[i])
    BY <1>7, <2>1
  <2>3. i \in 0 .. n /\ i - 1 \in 0 .. n
    BY <1>1
  <2> QED BY <2>2, <2>3
<1> HIDE DEF v
<1>11. WholeRounds(selection, v)
  BY <1>8, <1>9, <1>10 DEF WholeRounds
<1> QED BY <1>11

-----------------------------------------------------------------------------
(* BrowserUI: the length of a source.                                       *)

\* An empty source has no length.
LEMMA TotalLengthOfNothing == TotalLength(<< >>) = 0
<1>1. Len(<< >>) = 0 /\ 1 .. 0 = {}
  OBVIOUS
<1>2. TotalLength(<< >>) = SumFunction([k \in {} |-> 0])
  <2> DEFINE e == [k \in 1 .. Len(<< >>) |-> << >>[k].length + (IF k = 1 THEN FirstHeader ELSE NextHeader)]
  <2>1. e = [k \in {} |-> 0]
    BY <1>1
  <2> QED BY <2>1 DEF TotalLength
<1>3. SumFunction([k \in {} |-> 0]) = Total([k \in {} |-> 0], {})
  BY Zenon DEF SumFunction, Total
<1> QED BY <1>2, <1>3, TotalEmpty

HeaderOf(n) == IF n = 0 THEN FirstHeader ELSE NextHeader

\* A part adds its length and that of its header.
LEMMA TotalLengthOfAppend ==
    ASSUME NEW N, NEW s \in Seq(Parts(N)), NEW part \in Parts(N)
    PROVE  TotalLength(Append(s, part)) = TotalLength(s) + (part.length + HeaderOf(Len(s)))
<1> DEFINE n == Len(s)
           t == Append(s, part)
           f == [k \in 1 .. n + 1 |-> t[k].length + (IF k = 1 THEN FirstHeader ELSE NextHeader)]
<1>1. /\ n \in Nat /\ Len(t) = n + 1 /\ t[n + 1] = part
      /\ \A k \in 1 .. n : t[k] = s[k] /\ s[k] \in Parts(N)
  <2> HIDE DEF Parts
  <2> QED OBVIOUS
<1>2. {FirstHeader, NextHeader} \subseteq Nat
  BY ProjectFilesAssumption
<1>3. TotalLength(t) = SumOver(f, 1, n + 1)
  <2>1. [k \in 1 .. n + 1 |-> f[k]] = f
    OBVIOUS
  <2>2. TotalLength(t) = SumFunction(f)
    <3> HIDE DEF t, n
    <3> QED BY <1>1 DEF TotalLength
  <2> HIDE DEF f
  <2> QED BY <2>1, <2>2 DEF SumOver
<1>4. TotalLength(s) = SumOver(f, 1, n)
  <2> DEFINE e == [k \in 1 .. n |-> s[k].length + (IF k = 1 THEN FirstHeader ELSE NextHeader)]
  <2>1. [k \in 1 .. n |-> f[k]] = e
    <3> HIDE DEF n, t
    <3>1. \A k \in 1 .. n : k \in 1 .. n + 1 /\ t[k] = s[k]
      BY <1>1
    <3>2. \A k \in 1 .. n : f[k] = e[k]
      BY <3>1
    <3> QED BY <3>2
  <2>2. TotalLength(s) = SumFunction(e)
    BY DEF TotalLength
  <2> HIDE DEF f, e
  <2> QED BY <2>1, <2>2 DEF SumOver
<1>5. /\ \A k \in 1 .. n + 1 : f[k] \in Nat
      /\ f[n + 1] = part.length + HeaderOf(n)
  <2>1. \A k \in 1 .. n + 1 : t[k] \in Parts(N)
    <3> HIDE DEF n, t, Parts
    <3> QED BY <1>1
  <2> HIDE DEF t, n
  <2>2. \A k \in 1 .. n + 1 : t[k].length \in Nat
    BY <2>1 DEF Parts
  <2> QED BY <1>1, <1>2, <2>2 DEF HeaderOf
<1> HIDE DEF f, t, n
<1>6. SumOver(f, 1, n + 1) = SumOver(f, 1, (n + 1) - 1) + f[n + 1]
  <2>1. 1 \in Int /\ n + 1 \in Int /\ 1 <= n + 1
    BY <1>1
  <2> QED BY <1>5, <2>1, SumOverLast
<1>7. (n + 1) - 1 = n
  BY <1>1
<1> QED BY <1>3, <1>4, <1>5, <1>6, <1>7 DEF t, n

-----------------------------------------------------------------------------
(* BrowserUI: what is lost of a selection.                                  *)

Begins(s, w) == Len(s) <= Len(w) /\ \A k \in 1 .. Len(s) : s[k] = w[k]
Lacks(s, w) == Len(s) <= Len(w) /\ (Len(s) < Len(w) \/ \E k \in 1 .. Len(s) : s[k] # w[k])

\* The source v, made of files whose whole text is w, is within its bound; until it is
\* full it has everything, and when it is full it is said to be clipped, unless it begins
\* with whole files and has no character to spare.
Accounts(selection, v, w) ==
    LET many == Len(selection) > MaxFiles
    IN  /\ v.used = TotalLength(v.parts) /\ v.used <= MaxSource
        /\ many => v.clipped
        /\ ~ v.full => v.parts = w /\ (v.clipped => many)
        /\ v.full /\ ~ v.clipped => Begins(v.parts, w) /\ v.used = MaxSource
        /\ v.full /\ v.clipped /\ ~ many => Lacks(v.parts, w)

\* What comes behind does not change how a source compares.
LEMMA LongerWhole ==
    ASSUME NEW N, NEW s \in Seq(N), NEW w \in Seq(N), NEW part \in N
    PROVE  /\ Begins(s, w) => Begins(s, Append(w, part))
           /\ Lacks(s, w) => Lacks(s, Append(w, part))
           /\ s = w => Lacks(s, Append(w, part))
<1> DEFINE t == Append(w, part)
<1>1. /\ Len(s) \in Nat /\ Len(w) \in Nat /\ Len(t) = Len(w) + 1
      /\ \A k \in 1 .. Len(w) : t[k] = w[k]
  OBVIOUS
<1> HIDE DEF t
<1>2. Begins(s, w) => Begins(s, t)
  BY <1>1 DEF Begins
<1>3. Len(s) <= Len(w) => Lacks(s, t)
  BY <1>1 DEF Lacks
<1>4. (Lacks(s, w) => Len(s) <= Len(w)) /\ (s = w => Len(s) <= Len(w))
  BY <1>1 DEF Lacks
<1> QED BY <1>2, <1>3, <1>4 DEF t

\* One round of the loop.
LEMMA RoundAccounts ==
    ASSUME NEW selection \in Seq(Files), NEW N, NEW v \in Sources(N), NEW w \in Seq(Parts(N)),
           NEW file, file.name \in N, file.length \in Nat, Accounts(selection, v, w)
    PROVE  Accounts(selection, AddFile(v, file), AddWhole(w, file))
<1> DEFINE header == IF v.parts = << >> THEN FirstHeader ELSE NextHeader
           remaining == MaxSource - v.used - header
           body == shorter(file.length, remaining)
           taken == v.used + header + body
           part == Part(file.name, file.length)
           piece == Part(file.name, body)
           many == Len(selection) > MaxFiles
<1>1. /\ v.parts \in Seq(Parts(N)) /\ v.used \in Nat /\ v.clipped \in BOOLEAN /\ v.full \in BOOLEAN
      /\ header \in Nat /\ MaxSource \in Nat /\ part \in Parts(N)
  BY ProjectFilesAssumption DEF Sources, Part, Parts
<1>2. /\ v.used = TotalLength(v.parts) /\ v.used <= MaxSource
      /\ many => v.clipped
      /\ ~ v.full => v.parts = w /\ (v.clipped => many)
      /\ v.full /\ ~ v.clipped => Begins(v.parts, w) /\ v.used = MaxSource
      /\ v.full /\ v.clipped /\ ~ many => Lacks(v.parts, w)
  BY DEF Accounts
<1>3. /\ Begins(v.parts, w) => Begins(v.parts, Append(w, part))
      /\ Lacks(v.parts, w) => Lacks(v.parts, Append(w, part))
      /\ v.parts = w => Lacks(v.parts, Append(w, part))
  <2> HIDE DEF Parts, part
  <2> QED BY <1>1, LongerWhole
<1>4. CASE file.kind # "text"
  BY <1>4 DEF AddFile, AddWhole
<1>5. CASE file.kind = "text" /\ v.full
  <2>1. AddFile(v, file) = v /\ AddWhole(w, file) = Append(w, part)
    BY <1>5 DEF AddFile, AddWhole
  <2> HIDE DEF part, many
  <2>2. Accounts(selection, v, Append(w, part))
    BY <1>2, <1>3, <1>5 DEF Accounts, many
  <2> QED BY <2>1, <2>2
<1>6. CASE file.kind = "text" /\ ~ v.full /\ remaining <= 0
  <2>1. /\ AddFile(v, file) = [v EXCEPT !.clipped = TRUE, !.full = TRUE]
        /\ AddWhole(w, file) = Append(w, part)
    BY <1>6 DEF AddFile, AddWhole
  <2> DEFINE x == [v EXCEPT !.clipped = TRUE, !.full = TRUE]
  <2>2. x.parts = v.parts /\ x.used = v.used /\ x.clipped = TRUE /\ x.full = TRUE
    BY DEF Sources
  <2> HIDE DEF x, part, many
  <2>3. Accounts(selection, x, Append(w, part))
    BY <1>2, <1>3, <1>6, <2>2 DEF Accounts, many
  <2> QED BY <2>1, <2>3 DEF x
<1>7. CASE file.kind = "text" /\ ~ v.full /\ ~ remaining <= 0
  <2> DEFINE x == [parts   |-> Append(v.parts, piece), used |-> taken,
                   clipped |-> v.clipped \/ body < file.length, full |-> taken >= MaxSource]
  <2>1. AddFile(v, file) = x /\ AddWhole(w, file) = Append(w, part)
    BY <1>7 DEF AddFile, AddWhole
  <2>2. /\ x.parts = Append(v.parts, piece) /\ x.used = taken
        /\ x.clipped = (v.clipped \/ body < file.length) /\ x.full = (taken >= MaxSource)
    OBVIOUS
  <2>3. v.parts = w /\ (v.clipped => many)
    BY <1>2, <1>7
  <2>4. /\ body \in Nat /\ taken <= MaxSource /\ body <= file.length
        /\ body # file.length => body < file.length /\ taken = MaxSource
    <3> HIDE DEF header
    <3>1. body \in Nat /\ body <= remaining /\ body <= file.length
      BY <1>1, <1>7 DEF shorter
    <3>2. body # file.length => body = remaining /\ body < file.length
      BY <1>1, <1>7 DEF shorter
    <3> HIDE DEF body
    <3> QED BY <1>1, <3>1, <3>2
  <2>5. taken = TotalLength(Append(v.parts, piece))
    <3>1. piece \in Parts(N) /\ piece.length = body
      BY <2>4 DEF Part, Parts
    <3>2. header = HeaderOf(Len(v.parts))
      <4>1. v.parts = << >> <=> Len(v.parts) = 0
        <5> HIDE DEF Parts
        <5> QED BY <1>1
      <4> QED BY <4>1 DEF HeaderOf
    <3> HIDE DEF piece, header, body
    <3>3. TotalLength(Append(v.parts, piece))
              = TotalLength(v.parts) + (piece.length + HeaderOf(Len(v.parts)))
      BY <1>1, <3>1, TotalLengthOfAppend
    <3>4. TotalLength(Append(v.parts, piece)) = v.used + (body + header)
      BY <1>2, <3>1, <3>2, <3>3
    <3> QED BY <1>1, <2>4, <3>4
  <2>6. CASE body = file.length
    <3>1. piece = part /\ ~ (body < file.length)
      BY <2>6
    <3> HIDE DEF piece, part, body, taken, many
    <3>2. /\ x.parts = Append(w, part) /\ x.used = taken
          /\ x.clipped = v.clipped /\ x.full = (taken >= MaxSource)
      BY <1>1, <2>2, <2>3, <3>1
    <3>3. Begins(Append(w, part), Append(w, part))
      <4>1. Len(Append(w, part)) \in Nat
        <5> HIDE DEF Parts
        <5> QED BY <1>1
      <4> QED BY <4>1 DEF Begins
    <3>4. taken >= MaxSource => taken = MaxSource
      BY <1>1, <2>4, <2>5 DEF taken, body, header
    <3> HIDE DEF x
    <3>5. Accounts(selection, x, Append(w, part))
      BY <1>2, <2>3, <2>4, <2>5, <3>1, <3>2, <3>3, <3>4 DEF Accounts, many
    <3> QED BY <2>1, <3>5
  <2>7. CASE body # file.length
    <3>1. piece # part
      BY <2>7 DEF Part
    <3>2. piece \in Parts(N)
      BY <2>4 DEF Part, Parts
    <3>3. /\ x.parts = Append(w, piece) /\ x.used = taken
          /\ x.clipped = TRUE /\ x.full = TRUE
      BY <1>1, <2>2, <2>3, <2>4, <2>7
    <3> HIDE DEF piece, part, body, taken, many, x
    <3>4. Lacks(Append(w, piece), Append(w, part))
      <4>1. /\ Len(w) \in Nat /\ Len(Append(w, piece)) = Len(w) + 1
            /\ Len(Append(w, part)) = Len(w) + 1
            /\ Append(w, piece)[Len(w) + 1] = piece /\ Append(w, part)[Len(w) + 1] = part
        <5> HIDE DEF Parts
        <5> QED BY <1>1, <3>2
      <4>2. Len(w) + 1 \in 1 .. Len(w) + 1
        BY <4>1
      <4> QED BY <3>1, <4>1, <4>2 DEF Lacks
    <3>5. Accounts(selection, x, Append(w, part))
      BY <1>2, <2>3, <2>4, <2>5, <3>3, <3>4 DEF Accounts
    <3> QED BY <2>1, <3>5
  <2> QED BY <2>6, <2>7
<1> QED BY <1>1, <1>4, <1>5, <1>6, <1>7

\* The loop over the whole selection: what it makes is accounted for, and of files that
\* are all skipped it makes nothing.
LEMMA AssembleAccounts ==
    ASSUME NEW selection \in Seq(Files)
    PROVE  /\ Assemble(selection) \in Sources(NamesIn(selection))
           /\ Whole(selection) \in Seq(Parts(NamesIn(selection)))
           /\ Accounts(selection, Assemble(selection), Whole(selection))
           /\ NothingToRead(selection) => Assemble(selection).parts = << >>
<1> DEFINE files == Considered(selection)
           n == Len(files)
           N == NamesIn(selection)
<1>1. /\ n \in Nat
      /\ \A i \in 1 .. n : files[i].name \in N /\ files[i].length \in Nat
  BY ConsideredFiles
<1>2. PICK v : Rounds(selection, v)
  BY RoundsExist
<1>3. PICK w : WholeRounds(selection, w)
  BY WholeRoundsExist
<1>4. /\ v[0] = Nothing(selection) /\ Assemble(selection) = v[n]
      /\ \A i \in 1 .. n : v[i] = AddFile(v[i - 1], files[i])
  BY <1>2 DEF Rounds
<1>5. /\ w[0] = << >> /\ Whole(selection) = w[n]
      /\ \A i \in 1 .. n : w[i] = AddWhole(w[i - 1], files[i])
  BY <1>3 DEF WholeRounds
<1> DEFINE Good(i) == /\ v[i] \in Sources(N) /\ w[i] \in Seq(Parts(N))
                      /\ Accounts(selection, v[i], w[i])
           G == { i \in 0 .. n : Good(i) }
           E == { i \in 0 .. n : v[i] = Nothing(selection) }
<1>6. Good(0)
  <2>1. << >> \in Seq(Parts(N))
    <3> HIDE DEF Parts, N
    <3> QED OBVIOUS
  <2>2. Nothing(selection) \in Sources(N)
    BY NothingType
  <2>3. Accounts(selection, Nothing(selection), << >>)
    <3> DEFINE many == Len(selection) > MaxFiles
    <3>1. LET x == Nothing(selection)
          IN  x.parts = << >> /\ x.used = 0 /\ x.clipped = many /\ x.full = FALSE
      BY DEF Nothing
    <3>2. 0 <= MaxSource
      BY ProjectFilesAssumption
    <3> QED BY <3>1, <3>2, TotalLengthOfNothing DEF Accounts
  <2> QED BY <1>4, <1>5, <2>1, <2>2, <2>3
<1>7. ASSUME NEW i \in 1 .. n, Good(i - 1) PROVE Good(i)
  <2> DEFINE x == v[i - 1] y == w[i - 1] file == files[i]
  <2>1. /\ x \in Sources(N) /\ y \in Seq(Parts(N)) /\ Accounts(selection, x, y)
        /\ file.name \in N /\ file.length \in Nat
    BY <1>1, <1>7
  <2>2. v[i] = AddFile(x, file) /\ w[i] = AddWhole(y, file)
    BY <1>4, <1>5
  <2> HIDE DEF x, y, file, N, n, files
  <2>3. AddFile(x, file) \in Sources(N)
    BY <2>1, AddFileType
  <2>4. AddWhole(y, file) \in Seq(Parts(N))
    BY <2>1, AddWholeType
  <2>5. Accounts(selection, AddFile(x, file), AddWhole(y, file))
    BY <2>1, RoundAccounts
  <2> QED BY <2>2, <2>3, <2>4, <2>5
<1>8. Good(n)
  <2> HIDE DEF Good, n
  <2>1. 0 \in G
    BY <1>1, <1>6
  <2>2. ASSUME NEW i \in 1 .. n, i - 1 \in G PROVE i \in G
    BY <1>1, <1>7, <2>2
  <2> HIDE DEF G
  <2>3. \A i \in 0 .. n : i \in G
    BY <1>1, <2>1, <2>2, IntervalInduction
  <2> QED BY <1>1, <2>3 DEF G
<1>9. ASSUME NothingToRead(selection) PROVE v[n] = Nothing(selection)
  <2>1. 0 \in E
    BY <1>1, <1>4
  <2>2. ASSUME NEW i \in 1 .. n, i - 1 \in E PROVE i \in E
    <3>1. files[i].kind # "text"
      BY <1>9 DEF NothingToRead
    <3> DEFINE file == files[i]
    <3>2. v[i] = AddFile(v[i - 1], file) /\ file.kind # "text" /\ v[i - 1] = Nothing(selection)
      BY <1>4, <2>2, <3>1
    <3> HIDE DEF file, n
    <3>3. v[i] = Nothing(selection)
      BY <3>2 DEF AddFile
    <3> QED BY <1>1, <3>3
  <2> HIDE DEF E, n
  <2>3. \A i \in 0 .. n : i \in E
    BY <1>1, <2>1, <2>2, IntervalInduction
  <2> QED BY <1>1, <2>3 DEF E
<1>10. Nothing(selection).parts = << >>
  BY DEF Nothing
<1> HIDE DEF n, N, files
<1> QED BY <1>4, <1>5, <1>8, <1>9, <1>10 DEF N

-----------------------------------------------------------------------------
(* BrowserUI: the invariant.                                                *)

\* While a job runs no tabs are seen, and tabs that are not hidden are those of the
\* latest job, with what is shown behind the active one of them.
TabsOfLatest ==
    /\ job.running => job.number > 0 /\ tabsHidden
    /\ ~ tabsHidden => /\ resultViews \in [Views -> {job.number, Absent}]
                       /\ resultContent = << activeResultView, job.number >>

PageInv == PageTypeOK /\ NamesDescribeSource /\ TabsOfLatest

\* Where the names of the source come from.
AllNames ==
    {SampleFile} \cup UNION { { selection[k].name : k \in 1 .. Len(selection) } :
                              selection \in Selections }

\* Nothing has been done on the page.
LEMMA PageInitInv == PageInit => PageInv
<1> SUFFICES ASSUME PageInit PROVE PageInv
  OBVIOUS
<1> USE DEF PageInit
<1>1. text.typed = FALSE /\ text.parts = << >>
  BY DEF Empty
<1>2. names = NamesOf(text.parts)
  BY <1>1 DEF NamesOf
<1>3. names \in Seq(AllNames)
  OBVIOUS
<1>4. TotalLength(text.parts) <= MaxSource
  BY <1>1, TotalLengthOfNothing, ProjectFilesAssumption
<1>5. /\ job.number = 0 /\ job.running = FALSE
      /\ job \in [number : 0 .. MaxJobs, running : BOOLEAN]
  BY BrowserUIAssumption
<1>6. resultViews \in [Views -> (1 .. MaxJobs) \cup {Absent}]
  BY DEF NoViews
<1>7. loads \in [Loads -> Selections \cup {Absent}]
  OBVIOUS
<1>8. /\ activeResultView \in Views /\ resultContent = Absent /\ tabsHidden = TRUE
      /\ panelHidden = TRUE /\ message = "other"
  BY DEF Views
<1>9. PageTypeOK
  BY <1>1, <1>3, <1>4, <1>5, <1>6, <1>7, <1>8 DEF PageTypeOK, AllNames
<1> QED BY <1>2, <1>5, <1>8, <1>9 DEF PageInv, NamesDescribeSource, TabsOfLatest

\* What the source of the page must satisfy, and the loads.
SourceOK(t, n, m, l) ==
    /\ t.typed \in BOOLEAN /\ TotalLength(t.parts) <= MaxSource
    /\ n \in Seq(AllNames) /\ n = NamesOf(t.parts)
    /\ m \in {"other", "unreadable", "trimmed", "ready"}
    /\ l \in [Loads -> Selections \cup {Absent}]

\* What the job and its result must satisfy.
ResultOK(j, views, view, content, tabs, panel) ==
    /\ j \in [number : 0 .. MaxJobs, running : BOOLEAN]
    /\ views \in [Views -> (1 .. MaxJobs) \cup {Absent}]
    /\ view \in Views
    /\ content \in (Views \X (1 .. MaxJobs)) \cup {Absent}
    /\ tabs \in BOOLEAN /\ panel \in BOOLEAN
    /\ j.running => j.number > 0 /\ tabs
    /\ ~ tabs => /\ views \in [Views -> {j.number, Absent}]
                 /\ content = << view, j.number >>

\* The invariant is about two halves of the page.
LEMMA Halves ==
    PageInv <=> /\ SourceOK(text, names, message, loads)
                /\ ResultOK(job, resultViews, activeResultView, resultContent,
                            tabsHidden, panelHidden)
BY Zenon DEF PageInv, PageTypeOK, NamesDescribeSource, TabsOfLatest, SourceOK, ResultOK, AllNames

\* Text without names.
LEMMA NoNames ==
    /\ NamesOf(<< >>) = << >> /\ << >> \in Seq(AllNames)
    /\ TotalLength(<< >>) <= MaxSource
<1>1. NamesOf(<< >>) = << >>
  BY DEF NamesOf
<1>2. << >> \in Seq(AllNames)
  <2> HIDE DEF AllNames
  <2> QED OBVIOUS
<1>3. TotalLength(<< >>) <= MaxSource
  BY TotalLengthOfNothing, ProjectFilesAssumption
<1> QED BY <1>1, <1>2, <1>3

\* The parts of a load, and their names.
LEMMA LoadedSource ==
    ASSUME NEW selection \in Selections
    PROVE  LET source == Assemble(selection)
           IN  /\ TotalLength(source.parts) <= MaxSource
               /\ NamesOf(source.parts) \in Seq(AllNames)
<1> DEFINE source == Assemble(selection)
           N == NamesIn(selection)
<1>1. selection \in Seq(Files)
  BY BrowserUIAssumption DEF Files
<1>2. source \in Sources(N) /\ Accounts(selection, source, Whole(selection))
  BY <1>1, AssembleAccounts
<1> HIDE DEF source
<1>3. TotalLength(source.parts) <= MaxSource
  BY <1>2 DEF Accounts
<1>4. source.parts \in Seq(Parts(N))
  BY <1>2 DEF Sources
<1>5. N \subseteq AllNames
  BY DEF NamesIn, AllNames
<1>6. /\ Len(source.parts) \in Nat
      /\ \A k \in 1 .. Len(source.parts) : source.parts[k] \in Parts(N)
  <2> HIDE DEF Parts
  <2> QED BY <1>4
<1>7. \A k \in 1 .. Len(source.parts) : source.parts[k].name \in AllNames
  <2> HIDE DEF N, AllNames
  <2> QED BY <1>5, <1>6 DEF Parts
<1>8. NamesOf(source.parts) \in Seq(AllNames)
  <2> HIDE DEF AllNames
  <2> QED BY <1>6, <1>7 DEF NamesOf
<1> QED BY <1>3, <1>8 DEF source

\* A load that ends leaves a good source.
LEMMA LoadedStep ==
    ASSUME PageInv, NEW selection \in Selections, Loaded(selection),
           NEW l \in [Loads -> Selections \cup {Absent}]
    PROVE  SourceOK(text', names', message', l)
<1> DEFINE source == Assemble(selection)
<1>1. SourceOK(text, names, message, loads)
  BY Halves
<1>2. CASE source.parts = << >>
  <2>1. message' = "unreadable" /\ text' = text /\ names' = names
    BY <1>2 DEF Loaded
  <2> HIDE DEF source
  <2> QED BY <1>1, <2>1 DEF SourceOK
<1>3. CASE source.parts # << >>
  <2>1. /\ text' = [typed |-> FALSE, parts |-> source.parts]
        /\ names' = NamesOf(source.parts)
        /\ message' \in {"trimmed", "ready"}
    BY <1>3 DEF Loaded, SetSourceText
  <2>2. TotalLength(source.parts) <= MaxSource /\ NamesOf(source.parts) \in Seq(AllNames)
    BY LoadedSource
  <2> HIDE DEF source
  <2> QED BY <2>1, <2>2 DEF SourceOK
<1> QED BY <1>2, <1>3

\* Steps that are about the source.
LEMMA SourceStep ==
    ASSUME PageInv, UNCHANGED << job, resultVars >>,
           \/ Edit \/ UseSample
           \/ \E l \in Loads : \/ \E selection \in Selections : Choose(l, selection)
                               \/ LoadEnds(l) \/ LoadFails(l)
    PROVE  PageInv'
<1>1. SourceOK(text, names, message, loads)
  BY Halves
<1>2. SourceOK(text, names, message, loads)' => PageInv'
  <2>1. ResultOK(job, resultViews, activeResultView, resultContent, tabsHidden, panelHidden)
    BY Halves
  <2>2. ResultOK(job, resultViews, activeResultView, resultContent, tabsHidden, panelHidden)'
    BY <2>1 DEF resultVars
  <2>3. (PageInv <=> /\ SourceOK(text, names, message, loads)
                     /\ ResultOK(job, resultViews, activeResultView, resultContent,
                                 tabsHidden, panelHidden))'
    BY Halves, PTL
  <2> QED BY <2>2, <2>3
<1>3. CASE Edit
  <2>1. /\ text' \in {Typed, Empty} /\ names' = << >> /\ message' = "other" /\ loads' = loads
    BY <1>3 DEF Edit
  <2>2. text'.typed \in BOOLEAN /\ text'.parts = << >>
    <3>1. CASE text' = Typed
      BY <3>1 DEF Typed
    <3>2. CASE text' = Empty
      BY <3>2 DEF Empty
    <3> QED BY <2>1, <3>1, <3>2
  <2>3. SourceOK(text', names', message', loads')
    BY <1>1, <2>1, <2>2, NoNames DEF SourceOK
  <2> QED BY <1>2, <2>3
<1>4. CASE UseSample
  <2> DEFINE part == Part(SampleFile, 1)
             parts == << part >>
  <2>1. /\ text' = [typed |-> FALSE, parts |-> parts] /\ names' = << SampleFile >>
        /\ message' = "other" /\ loads' = loads
    BY <1>4 DEF UseSample, SetSourceText
  <2>2. TotalLength(parts) <= MaxSource
    <3>1. part \in Parts({SampleFile}) /\ part.length = 1
      BY DEF Part, Parts
    <3>2. << >> \in Seq(Parts({SampleFile})) /\ Append(<< >>, part) = parts /\ Len(<< >>) = 0
      <4>1. part \in Parts({SampleFile})
        BY <3>1
      <4> HIDE DEF Parts, part
      <4> QED BY <4>1
    <3> HIDE DEF part, parts
    <3>3. TotalLength(Append(<< >>, part)) = TotalLength(<< >>) + (part.length + HeaderOf(Len(<< >>)))
      BY <3>1, <3>2, TotalLengthOfAppend
    <3>4. FirstHeader \in Nat /\ MaxSource \in Nat /\ FirstHeader < MaxSource
      BY ProjectFilesAssumption, BrowserUIAssumption
    <3>5. TotalLength(parts) = 0 + (1 + FirstHeader)
      BY <3>1, <3>2, <3>3, TotalLengthOfNothing DEF HeaderOf
    <3> QED BY <3>4, <3>5
  <2>3. NamesOf(parts) = << SampleFile >>
    BY DEF NamesOf, Part
  <2>4. << SampleFile >> \in Seq(AllNames)
    <3>1. SampleFile \in AllNames
      BY DEF AllNames
    <3> HIDE DEF AllNames
    <3> QED BY <3>1
  <2> HIDE DEF parts
  <2>5. SourceOK(text', names', message', loads')
    BY <1>1, <2>1, <2>2, <2>3, <2>4 DEF SourceOK
  <2> QED BY <1>2, <2>5
<1>5. ASSUME NEW l \in Loads, NEW selection \in Selections, Choose(l, selection)
      PROVE  PageInv'
  <2>1. CASE NothingToRead(selection)
    <3>1. Loaded(selection) /\ loads' = loads
      BY <1>5, <2>1 DEF Choose
    <3>2. SourceOK(text', names', message', loads)
      <4>1. loads \in [Loads -> Selections \cup {Absent}]
        BY <1>1 DEF SourceOK
      <4> QED BY <3>1, <4>1, LoadedStep
    <3> QED BY <1>2, <3>1, <3>2
  <2>2. CASE ~ NothingToRead(selection)
    <3>1. /\ loads' = [loads EXCEPT ![l] = selection]
          /\ text' = text /\ names' = names /\ message' = message
      BY <1>5, <2>2 DEF Choose
    <3>2. SourceOK(text', names', message', loads')
      BY <1>1, <3>1 DEF SourceOK
    <3> QED BY <1>2, <3>2
  <2> QED BY <2>1, <2>2
<1>6. ASSUME NEW l \in Loads, LoadEnds(l) PROVE PageInv'
  <2>1. loads[l] # Absent /\ Loaded(loads[l]) /\ loads' = [loads EXCEPT ![l] = Absent]
    BY <1>6 DEF LoadEnds
  <2>2. loads[l] \in Selections /\ loads' \in [Loads -> Selections \cup {Absent}]
    BY <1>1, <2>1 DEF SourceOK
  <2>3. SourceOK(text', names', message', loads')
    BY <2>1, <2>2, LoadedStep
  <2> QED BY <1>2, <2>3
<1>7. ASSUME NEW l \in Loads, LoadFails(l) PROVE PageInv'
  <2>1. /\ loads' = [loads EXCEPT ![l] = Absent]
        /\ text' = text /\ names' = names /\ message' = message
    BY <1>7 DEF LoadFails
  <2>2. SourceOK(text', names', message', loads')
    BY <1>1, <2>1 DEF SourceOK
  <2> QED BY <1>2, <2>2
<1> QED BY <1>3, <1>4, <1>5, <1>6, <1>7

\* Steps that are about the job and its result.
LEMMA ResultStep ==
    ASSUME PageInv,
           Submit \/ Receive \/ JobFails \/ NewJob \/ \E view \in Views : SelectTab(view)
    PROVE  PageInv'
<1>1. /\ SourceOK(text, names, message, loads)
      /\ ResultOK(job, resultViews, activeResultView, resultContent, tabsHidden, panelHidden)
  BY Halves
<1>2. /\ SourceOK(text', names', message', loads')
      /\ ResultOK(job', resultViews', activeResultView', resultContent', tabsHidden', panelHidden')
      => PageInv'
  <2>1. (PageInv <=> /\ SourceOK(text, names, message, loads)
                     /\ ResultOK(job, resultViews, activeResultView, resultContent,
                                 tabsHidden, panelHidden))'
    BY Halves, PTL
  <2> QED BY <2>1
<1>3. UNCHANGED sourceVars => SourceOK(text', names', message', loads')
  BY <1>1 DEF sourceVars
<1>4. /\ job \in [number : 0 .. MaxJobs, running : BOOLEAN]
      /\ resultViews \in [Views -> (1 .. MaxJobs) \cup {Absent}]
      /\ activeResultView \in Views
      /\ resultContent \in (Views \X (1 .. MaxJobs)) \cup {Absent}
      /\ tabsHidden \in BOOLEAN /\ panelHidden \in BOOLEAN
      /\ job.running => job.number > 0 /\ tabsHidden
      /\ ~ tabsHidden => /\ resultViews \in [Views -> {job.number, Absent}]
                         /\ resultContent = << activeResultView, job.number >>
  BY <1>1 DEF ResultOK
<1>5. MaxJobs \in Nat
  BY BrowserUIAssumption
<1>6. /\ "full" \in Views /\ "code" \in Views /\ "notes" \in Views
      /\ job.running => job.number \in 1 .. MaxJobs
  BY <1>4, <1>5 DEF Views
<1>7. CASE Submit
  <2>1. /\ job' = [number |-> job.number + 1, running |-> TRUE]
        /\ resultContent' = Absent /\ panelHidden' = FALSE /\ tabsHidden' = TRUE
        /\ resultViews' = resultViews /\ activeResultView' = activeResultView
        /\ UNCHANGED sourceVars /\ job.number < MaxJobs
    BY <1>7 DEF Submit
  <2>2. job.number + 1 \in 0 .. MaxJobs /\ job.number + 1 > 0
    BY <1>4, <1>5, <2>1
  <2>3. /\ job' \in [number : 0 .. MaxJobs, running : BOOLEAN] /\ job'.number > 0
    BY <2>1, <2>2
  <2>4. ResultOK(job', resultViews', activeResultView', resultContent', tabsHidden', panelHidden')
    BY <1>4, <2>1, <2>3 DEF ResultOK
  <2> QED BY <1>2, <1>3, <2>1, <2>4
<1>8. CASE Receive
  <2>1. PICK views \in Answers :
            /\ resultViews' = views
            /\ tabsHidden' = (views["code"] = Absent /\ views["notes"] = Absent)
            /\ ShowResultView(views, "full")
    BY <1>8 DEF Receive
  <2>2. /\ job.running /\ job' = [job EXCEPT !.running = FALSE]
        /\ UNCHANGED sourceVars /\ panelHidden' = panelHidden
    BY <1>8 DEF Receive, JobEnds
  <2>3. /\ job' \in [number : 0 .. MaxJobs, running : BOOLEAN]
        /\ job'.number = job.number /\ job'.running = FALSE
    BY <1>4, <2>2
  <2>4. /\ views \in [Views -> {job.number, Absent}]
        /\ views["full"] = Absent => views = NoViews
    BY DEF Answers
  <2>5. views \in [Views -> (1 .. MaxJobs) \cup {Absent}]
    BY <1>6, <2>2, <2>4
  <2>6. CASE views["full"] = Absent
    <3>1. /\ activeResultView' = activeResultView /\ resultContent' = resultContent
          /\ tabsHidden' = TRUE
      <4>1. views["code"] = Absent /\ views["notes"] = Absent
        BY <1>6, <2>4, <2>6 DEF NoViews
      <4>2. tabsHidden' = (views["code"] = Absent /\ views["notes"] = Absent)
        BY <2>1
      <4>3. tabsHidden' = TRUE
        BY <4>1, <4>2, Zenon
      <4>4. UNCHANGED << activeResultView, resultContent >>
        BY <2>1, <2>6 DEF ShowResultView
      <4> QED BY <4>3, <4>4
    <3>2. ResultOK(job', resultViews', activeResultView', resultContent', tabsHidden', panelHidden')
      BY <1>4, <2>1, <2>2, <2>3, <2>5, <3>1 DEF ResultOK
    <3> QED BY <1>2, <1>3, <2>2, <3>2
  <2>7. CASE views["full"] # Absent
    <3>1. views["full"] = job.number
      BY <1>6, <2>4, <2>7
    <3>2. activeResultView' = "full" /\ resultContent' = << "full", job.number >>
      BY <2>1, <2>7, <3>1 DEF ShowResultView
    <3>3. tabsHidden' \in BOOLEAN
      BY <2>1
    <3>4. resultContent' \in (Views \X (1 .. MaxJobs)) \cup {Absent}
      BY <1>6, <2>2, <3>2
    <3>5. ResultOK(job', resultViews', activeResultView', resultContent', tabsHidden', panelHidden')
      BY <1>4, <1>6, <2>1, <2>2, <2>3, <2>4, <2>5, <3>2, <3>3, <3>4 DEF ResultOK
    <3> QED BY <1>2, <1>3, <2>2, <3>5
  <2> QED BY <2>6, <2>7
<1>9. CASE JobFails
  <2>1. /\ job.running /\ job' = [job EXCEPT !.running = FALSE]
        /\ resultViews' = [NoViews EXCEPT !["full"] = job.number]
        /\ resultContent' = << "full", job.number >>
        /\ UNCHANGED sourceVars /\ activeResultView' = activeResultView
        /\ tabsHidden' = tabsHidden /\ panelHidden' = panelHidden
    BY <1>9 DEF JobFails, JobEnds
  <2>2. /\ job' \in [number : 0 .. MaxJobs, running : BOOLEAN]
        /\ job'.number = job.number /\ job'.running = FALSE
    BY <1>4, <2>1
  <2>3. resultViews' \in [Views -> (1 .. MaxJobs) \cup {Absent}]
    BY <1>6, <2>1 DEF NoViews
  <2>4. resultContent' \in (Views \X (1 .. MaxJobs)) \cup {Absent}
    BY <1>6, <2>1
  <2>5. ResultOK(job', resultViews', activeResultView', resultContent', tabsHidden', panelHidden')
    BY <1>4, <2>1, <2>2, <2>3, <2>4 DEF ResultOK
  <2> QED BY <1>2, <1>3, <2>1, <2>5
<1>10. CASE NewJob
  <2>1. /\ text' = [typed |-> FALSE, parts |-> << >>] /\ names' = << >>
        /\ message' = "other" /\ loads' = loads /\ panelHidden' = TRUE
        /\ job' = job /\ resultViews' = resultViews /\ activeResultView' = activeResultView
        /\ resultContent' = resultContent /\ tabsHidden' = tabsHidden
    BY <1>10 DEF NewJob, SetSourceText
  <2>2. SourceOK(text', names', message', loads')
    BY <1>1, <2>1, NoNames DEF SourceOK
  <2>3. ResultOK(job', resultViews', activeResultView', resultContent', tabsHidden', panelHidden')
    BY <1>4, <2>1 DEF ResultOK
  <2> QED BY <1>2, <2>2, <2>3
<1>11. ASSUME NEW view \in Views, SelectTab(view) PROVE PageInv'
  <2>1. /\ ~ tabsHidden /\ resultViews[view] # Absent
        /\ activeResultView' = view /\ resultContent' = << view, resultViews[view] >>
        /\ UNCHANGED sourceVars /\ job' = job /\ resultViews' = resultViews
        /\ tabsHidden' = tabsHidden /\ panelHidden' = panelHidden
    BY <1>11 DEF SelectTab, ShowResultView
  <2>2. resultViews[view] = job.number /\ resultViews[view] \in 1 .. MaxJobs
    BY <1>4, <2>1
  <2>3. resultContent' \in (Views \X (1 .. MaxJobs)) \cup {Absent}
    BY <2>1, <2>2
  <2>4. ResultOK(job', resultViews', activeResultView', resultContent', tabsHidden', panelHidden')
    BY <1>4, <2>1, <2>2, <2>3 DEF ResultOK
  <2> QED BY <1>2, <1>3, <2>1, <2>4
<1> QED BY <1>7, <1>8, <1>9, <1>10, <1>11

\* Every step keeps the invariant.
LEMMA PageNextInv == PageInv /\ [PageNext]_pageVars => PageInv'
<1> SUFFICES ASSUME PageInv, [PageNext]_pageVars PROVE PageInv'
  OBVIOUS
<1>1. CASE \/ Edit \/ UseSample
           \/ \E l \in Loads : \/ \E selection \in Selections : Choose(l, selection)
                               \/ LoadEnds(l) \/ LoadFails(l)
  <2>1. UNCHANGED << job, resultVars >>
    BY <1>1 DEF Edit, UseSample, Choose, LoadEnds, LoadFails
  <2> QED BY <1>1, <2>1, SourceStep
<1>2. CASE Submit \/ Receive \/ JobFails \/ NewJob \/ \E view \in Views : SelectTab(view)
  BY <1>2, ResultStep
<1>3. CASE UNCHANGED pageVars
  <2>1. /\ SourceOK(text, names, message, loads)
        /\ ResultOK(job, resultViews, activeResultView, resultContent, tabsHidden, panelHidden)
    BY Halves
  <2>2. /\ SourceOK(text, names, message, loads)'
        /\ ResultOK(job, resultViews, activeResultView, resultContent, tabsHidden, panelHidden)'
    BY <1>3, <2>1 DEF pageVars, sourceVars, resultVars
  <2>3. (PageInv <=> /\ SourceOK(text, names, message, loads)
                     /\ ResultOK(job, resultViews, activeResultView, resultContent,
                                 tabsHidden, panelHidden))'
    BY Halves, PTL
  <2> QED BY <2>2, <2>3
<1> QED BY <1>1, <1>2, <1>3 DEF PageNext

\* The invariant, for every selection of files and any number of loads and jobs.
LEMMA PageKept == PageSpec => []PageInv
BY PageInitInv, PageNextInv, PTL DEF PageSpec

\* Every variable has its type, and a source fits.
THEOREM PageTypeCorrect == PageSpec => []PageTypeOK
<1>1. PageInv => PageTypeOK
  BY DEF PageInv
<1> QED BY <1>1, PageKept, PTL

\* The names are those of the files in the source.
THEOREM NamesAreOfSource == PageSpec => []NamesDescribeSource
<1>1. PageInv => NamesDescribeSource
  BY DEF PageInv
<1> QED BY <1>1, PageKept, PTL

\* Tabs that can be seen are those of the latest answer.
THEOREM TabsAreOfLatestJob == PageSpec => []TabsTellTheTruth
<1>1. PageInv => TabsTellTheTruth
  BY DEF PageInv, TabsOfLatest, TabsTellTheTruth
<1> QED BY <1>1, PageKept, PTL

\* What the property says of a selection whose loop is done.
LEMMA WhatIsLost ==
    ASSUME NEW selection \in Selections
    PROVE  LET source == Assemble(selection)
           IN  /\ ~ source.clipped =>
                      /\ Len(selection) <= MaxFiles
                      /\ \/ source.parts = Whole(selection)
                         \/ /\ IsPrefix(source.parts, Whole(selection))
                            /\ TotalLength(source.parts) = MaxSource
               /\ source.clipped =>
                      Len(selection) > MaxFiles \/ source.parts # Whole(selection)
               /\ NothingToRead(selection) => source.parts = << >>
<1> DEFINE source == Assemble(selection)
           w == Whole(selection)
           N == NamesIn(selection)
           many == Len(selection) > MaxFiles
<1>1. selection \in Seq(Files)
  BY BrowserUIAssumption DEF Files
<1>2. /\ source \in Sources(N) /\ w \in Seq(Parts(N)) /\ Accounts(selection, source, w)
      /\ NothingToRead(selection) => source.parts = << >>
  BY <1>1, AssembleAccounts
<1>3. Len(selection) \in Nat /\ MaxFiles \in Nat
  BY <1>1, ProjectFilesAssumption
<1> HIDE DEF source, w
<1>4. source.parts \in Seq(Parts(N))
  BY <1>2 DEF Sources
<1>5. Begins(source.parts, w) => IsPrefix(source.parts, w)
  <2> DEFINE s == source.parts
  <2>1. /\ Len(s) \in Nat /\ Len(w) \in Nat /\ s \in Seq(Parts(N)) /\ w \in Seq(Parts(N))
    <3> HIDE DEF Parts
    <3> QED BY <1>2, <1>4
  <2> HIDE DEF s
  <2> SUFFICES ASSUME Begins(s, w) PROVE IsPrefix(s, w)
    BY DEF s
  <2>2. Len(s) <= Len(w) /\ \A k \in 1 .. Len(s) : s[k] = w[k]
    BY DEF Begins
  <2>3. SubSeq(s, 1, Len(s)) = SubSeq(w, 1, Len(s))
    <3> HIDE DEF Parts
    <3> QED BY <2>1, <2>2
  <2> QED BY <2>2, <2>3 DEF IsPrefix
<1>6. Lacks(source.parts, w) => source.parts # w
  <2>1. Len(w) \in Nat
    <3> HIDE DEF Parts
    <3> QED BY <1>2
  <2> QED BY <2>1 DEF Lacks
<1>7. /\ source.used = TotalLength(source.parts)
      /\ many => source.clipped
      /\ ~ source.full => source.parts = w /\ (source.clipped => many)
      /\ source.full /\ ~ source.clipped =>
             Begins(source.parts, w) /\ source.used = MaxSource
      /\ source.full /\ source.clipped /\ ~ many => Lacks(source.parts, w)
  BY <1>2 DEF Accounts
<1>8. ~ many => Len(selection) <= MaxFiles
  BY <1>3
<1>9. /\ ~ source.clipped =>
             /\ ~ many
             /\ \/ source.parts = w
                \/ IsPrefix(source.parts, w) /\ TotalLength(source.parts) = MaxSource
      /\ source.clipped => many \/ source.parts # w
  BY <1>5, <1>6, <1>7
<1> QED BY <1>2, <1>8, <1>9 DEF source, w

\* What the page says of a load is true.
THEOREM LossesAreReported == PageSpec => LossIsReported
<1> DEFINE P == text' # text =>
        /\ message' = "ready" =>
               \E l \in Loads :
                   /\ loads[l] # Absent
                   /\ Len(loads[l]) <= MaxFiles
                   /\ \/ text'.parts = Whole(loads[l])
                      \/ /\ IsPrefix(text'.parts, Whole(loads[l]))
                         /\ TotalLength(text'.parts) = MaxSource
        /\ message' = "trimmed" =>
               \E l \in Loads :
                   loads[l] # Absent /\ (Len(loads[l]) > MaxFiles \/ text'.parts # Whole(loads[l]))
<1>1. PageInv /\ [PageNext]_pageVars => P
  <2> SUFFICES ASSUME PageInv, [PageNext]_pageVars, text' # text,
                      message' \in {"ready", "trimmed"}
               PROVE  P
    OBVIOUS
  <2> HIDE DEF P
  <2>1. loads \in [Loads -> Selections \cup {Absent}]
    BY DEF PageInv, PageTypeOK
  <2>2. \/ \E l \in Loads : LoadEnds(l)
        \/ \E l \in Loads : \E selection \in Selections : Choose(l, selection)
    <3>1. ~ UNCHANGED text
      OBVIOUS
    <3>2. ~ (Edit \/ UseSample \/ NewJob)
      BY DEF Edit, UseSample, NewJob
    <3>3. ~ (Submit \/ Receive \/ JobFails \/ \E view \in Views : SelectTab(view))
      BY <3>1 DEF Submit, Receive, JobFails, SelectTab, sourceVars
    <3>4. ~ UNCHANGED pageVars
      BY <3>1 DEF pageVars, sourceVars
    <3>5. ~ \E l \in Loads : LoadFails(l)
      BY <3>1 DEF LoadFails
    <3> QED BY <3>2, <3>3, <3>4, <3>5 DEF PageNext
  <2>3. ASSUME NEW l \in Loads, LoadEnds(l) PROVE P
    <3>1. loads[l] # Absent /\ loads[l] \in Selections /\ Loaded(loads[l])
      BY <2>1, <2>3 DEF LoadEnds
    <3> DEFINE selection == loads[l]
               source == Assemble(selection)
    <3>2. /\ text' = [typed |-> FALSE, parts |-> source.parts]
          /\ message' = IF source.clipped THEN "trimmed" ELSE "ready"
      BY <3>1 DEF Loaded, SetSourceText
    <3>3. /\ ~ source.clipped =>
                 /\ Len(selection) <= MaxFiles
                 /\ \/ source.parts = Whole(selection)
                    \/ /\ IsPrefix(source.parts, Whole(selection))
                       /\ TotalLength(source.parts) = MaxSource
          /\ source.clipped => Len(selection) > MaxFiles \/ source.parts # Whole(selection)
      BY <3>1, WhatIsLost
    <3>4. text'.parts = source.parts
      BY <3>2
    <3> HIDE DEF source
    <3>5. /\ message' = "ready" => ~ source.clipped
          /\ message' = "trimmed" => source.clipped
      BY <3>2
    <3> QED BY <3>1, <3>3, <3>4, <3>5 DEF P
  <2>4. ASSUME NEW l \in Loads, NEW selection \in Selections, Choose(l, selection) PROVE P
    <3>1. NothingToRead(selection) /\ Loaded(selection)
      BY <2>4 DEF Choose
    <3>2. Assemble(selection).parts = << >>
      BY <3>1, WhatIsLost
    <3>3. message' = "unreadable"
      BY <3>1, <3>2 DEF Loaded
    <3> QED BY <3>3
  <2> QED BY <2>2, <2>3, <2>4
<1>2. PageSpec => [][P]_pageVars
  <2> HIDE DEF P
  <2> QED BY <1>1, PageKept, PTL DEF PageSpec
<1> QED BY <1>2 DEF P, LossIsReported
=============================================================================
