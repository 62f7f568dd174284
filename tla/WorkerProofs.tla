---------------------------- MODULE WorkerProofs ----------------------------
(***************************************************************************)
(* The worker that verifies an answer: what a verification that succeeded   *)
(* or timed out means, proved of Execution for any number of workers,       *)
(* pipelines, policies and names, whatever the docker client and the daemon *)
(* do; and what the readers keep of the output and what becomes of it,      *)
(* proved of OutputReader for every limit, chunk size, pipe and number of   *)
(* streams.                                                                *)
(***************************************************************************)
EXTENDS Execution, OutputReader, SequenceTheorems, TLAPS

-----------------------------------------------------------------------------
(* Execution: the inductive invariant.                                      *)

\* Worker w is in phase p at step k, with the results rs, the client c and the
\* removal rm: each step so far was permitted, each success so far is in the history
\* `finished', and there is a result for each step that is over.
Progress(w, p, k, rs, c, rm, finished) ==
    /\ \A i \in 1 .. k : Permitted(Policy, Pipeline[w][i])
    /\ \A i \in 1 .. Len(rs) : Succeeded(rs[i]) => [step |-> << w, i >>, code |-> 0] \in finished
    /\ c.code = 0 => [step |-> << w, k >>, code |-> 0] \in finished
    /\ c.status # "exited" => c.code = NoCode
    /\ c.status \notin {"none", "exited"} => k >= 1
    /\ p = "idle" => Len(rs) = k /\ c.status \in {"none", "exited"} /\ rm # "requested"
    /\ p \in Executing => k >= 1 /\ Len(rs) = k - 1
    /\ p = "waiting" => rm = "none"
    /\ p = "draining" => rm # "requested"
    /\ p = "reported" =>
           /\ Len(rs) = k /\ rm # "requested"
           /\ k = Len(Pipeline[w]) \/ \E i \in 1 .. Len(rs) : ~ Succeeded(rs[i])
    /\ rm # "none" => k >= 1

\* The container x with the name n, if there is one, belongs to the step its owner is
\* at, whose client has had it created and has not seen its end.
Owned(n, x, st, cl) ==
    x.status # "absent" =>
        LET w == x.owner[1]
        IN  /\ x.owner = << w, st[w] >> /\ st[w] >= 1
            /\ n = Pipeline[w][st[w]].name
            /\ cl[w].status \in {"starting", "attached", "killed"}

\* No other worker uses the name n.
OwnName(w, n) ==
    \A v \in Workers \ {w} : \A i \in 1 .. Len(Pipeline[v]) : Pipeline[v][i].name # n

\* What was removed for worker w, when nobody else uses the name, was the container
\* of its step, and there will be no other.
Removed(w, k, c, rm, cont) ==
    rm = "removed" /\ OwnName(w, Pipeline[w][k].name) =>
        /\ c.status \notin {"none", "preparing"}
        /\ \A n \in Names : cont[n].owner # << w, k >>

ProgressOf(w) == Progress(w, phase[w], step[w], results[w], client[w], removal[w], ended)
OwnedAt(n) == Owned(n, container[n], step, client)
RemovedOf(w) == Removed(w, step[w], client[w], removal[w], container)

IInv ==
    /\ TypeOK
    /\ \A w \in Workers : ProgressOf(w)
    /\ \A n \in Names : OwnedAt(n)
    /\ \A w \in Workers : RemovedOf(w)

\* The parts of IInv for one worker, ready to use.
LEMMA WorkerFacts ==
    ASSUME IInv, NEW w \in Workers
    PROVE  /\ phase[w] \in {"idle"} \cup Executing \cup Over
           /\ step[w] \in Nat /\ step[w] <= Len(Pipeline[w]) /\ Len(Pipeline[w]) \in Nat
           /\ results[w] \in Seq(ExecutionResult) /\ Len(results[w]) \in Nat
           /\ Len(results[w]) <= step[w]
           /\ client[w].status \in {"none", "preparing", "starting", "attached"} \cup Dead
           /\ client[w].code \in Int \cup {NoCode}
           /\ removal[w] \in {"none", "requested", "abandoned", "removed", "missed"}
           /\ Progress(w, phase[w], step[w], results[w], client[w], removal[w], ended)
           /\ Removed(w, step[w], client[w], removal[w], container)
           /\ NoCode # 0
BY ExecutionAssumption DEF IInv, TypeOK, ProgressOf, RemovedOf

\* The name of the container of a step that has been launched.
LEMMA NameType ==
    ASSUME IInv, NEW w \in Workers, step[w] >= 1
    PROVE  Name(w) \in Names /\ step[w] \in 1 .. Len(Pipeline[w])
<1>1. step[w] \in 1 .. Len(Pipeline[w])
  BY WorkerFacts
<1> QED BY <1>1, ExecutionAssumption DEF Name

\* The parts of IInv for one container.
LEMMA ContainerFacts ==
    ASSUME IInv, NEW n \in Names, container[n].status # "absent"
    PROVE  LET w == container[n].owner[1]
           IN  /\ w \in Workers /\ step[w] >= 1
               /\ container[n].owner = Step(w) /\ n = Name(w)
               /\ client[w].status \in {"starting", "attached", "killed"}
               /\ container[n].status \in {"created", "running"}
               /\ container[n].owner \in Steps
<1>1. container[n] \in {NoContainer} \cup [status : {"created", "running"}, owner : Steps]
  BY DEF IInv, TypeOK
<1>2. container[n] # NoContainer
  BY DEF NoContainer
<1>3. container[n].owner \in Steps /\ container[n].status \in {"created", "running"}
  BY <1>1, <1>2
<1>4. container[n].owner[1] \in Workers
  BY <1>3 DEF Steps
<1>5. Owned(n, container[n], step, client)
  BY DEF IInv, OwnedAt
<1> QED BY <1>3, <1>4, <1>5 DEF Owned, Step, Name

\* A container that is not there has no owner.
LEMMA AbsentOwner ==
    ASSUME IInv, NEW n \in Names, NEW w, NEW k, container[n].owner = << w, k >>
    PROVE  container[n].status # "absent"
<1>1. container[n] \in {NoContainer} \cup [status : {"created", "running"}, owner : Steps]
  BY DEF IInv, TypeOK
<1>2. << w, k >> # << >>
  OBVIOUS
<1> QED BY <1>1, <1>2 DEF NoContainer

\* What a step leaves alone of worker v.
SameFor(v) ==
    /\ phase'[v] = phase[v] /\ step'[v] = step[v] /\ results'[v] = results[v]
    /\ client'[v] = client[v] /\ removal'[v] = removal[v]

\* Nothing that others do takes the progress of a worker away.
LEMMA ProgressFrame ==
    ASSUME IInv, NEW v \in Workers, SameFor(v), ended \subseteq ended'
    PROVE  Progress(v, phase'[v], step'[v], results'[v], client'[v], removal'[v], ended')
<1>1. Progress(v, phase[v], step[v], results[v], client[v], removal[v], ended)
  BY WorkerFacts
<1> QED BY <1>1 DEF Progress, SameFor

\* A step of worker w that touches no container.
LEMMA LocalStep ==
    ASSUME IInv, NEW w \in Workers, TypeOK', container' = container, ended' = ended,
           \A v \in Workers : v # w => SameFor(v),
           Progress(w, phase'[w], step'[w], results'[w], client'[w], removal'[w], ended),
           Removed(w, step'[w], client'[w], removal'[w], container),
           client[w].status \in {"starting", "attached", "killed"} =>
               /\ step'[w] = step[w]
               /\ client'[w].status \in {"starting", "attached", "killed"}
    PROVE  IInv'
<1>1. ASSUME NEW v \in Workers PROVE ProgressOf(v)'
  <2>1. Progress(v, phase'[v], step'[v], results'[v], client'[v], removal'[v], ended')
    BY ProgressFrame
  <2> QED BY <2>1 DEF ProgressOf
<1>2. ASSUME NEW n \in Names PROVE OwnedAt(n)'
  <2> SUFFICES ASSUME container[n].status # "absent"
               PROVE  Owned(n, container[n], step', client')
    BY DEF OwnedAt, Owned
  <2> DEFINE v == container[n].owner[1]
  <2>1. /\ v \in Workers /\ step[v] >= 1
        /\ container[n].owner = Step(v) /\ n = Name(v)
        /\ client[v].status \in {"starting", "attached", "killed"}
    BY ContainerFacts
  <2>2. step'[v] = step[v] /\ client'[v].status \in {"starting", "attached", "killed"}
    <3>1. CASE v = w
      BY <2>1, <3>1
    <3>2. CASE v # w
      BY <2>1, <3>2 DEF SameFor
    <3> QED BY <3>1, <3>2
  <2> QED BY <2>1, <2>2 DEF Owned, Step, Name
<1>3. ASSUME NEW v \in Workers PROVE RemovedOf(v)'
  <2>1. CASE v = w
    BY <2>1 DEF RemovedOf
  <2>2. CASE v # w
    <3>1. Removed(v, step[v], client[v], removal[v], container) /\ SameFor(v)
      BY <2>2, WorkerFacts
    <3> QED BY <3>1 DEF RemovedOf, SameFor
  <2> QED BY <2>1, <2>2
<1> QED BY <1>1, <1>2, <1>3 DEF IInv

-----------------------------------------------------------------------------
(* The worker and the executor.                                             *)

\* Launch: one more step, which the policy permits.
LEMMA LaunchStep ==
    ASSUME IInv, NEW w \in Workers, Launch(w)
    PROVE  IInv'
<1> DEFINE c == [status |-> "preparing", code |-> NoCode]
           k == step[w] + 1
<1>1. /\ phase[w] = "idle" /\ step[w] < Len(Pipeline[w])
      /\ Permitted(Policy, Pipeline[w][k])
      /\ phase' = [phase EXCEPT ![w] = "waiting"] /\ step' = [step EXCEPT ![w] = k]
      /\ client' = [client EXCEPT ![w] = c] /\ removal' = [removal EXCEPT ![w] = "none"]
      /\ results' = results /\ container' = container /\ ended' = ended
  BY DEF Launch, ClientAt
<1>2. /\ step[w] \in Nat /\ Len(Pipeline[w]) \in Nat /\ Len(results[w]) \in Nat /\ NoCode # 0
      /\ Progress(w, phase[w], step[w], results[w], client[w], removal[w], ended)
  BY WorkerFacts
<1>3. k \in Nat /\ k >= 1 /\ k - 1 = step[w] /\ k <= Len(Pipeline[w])
  BY <1>1, <1>2
<1>4. c.status = "preparing" /\ c.code = NoCode
  OBVIOUS
<1> HIDE DEF k
<1>5. TypeOK'
  BY <1>1, <1>2, <1>3 DEF IInv, TypeOK, Executing
<1>6. /\ phase'[w] = "waiting" /\ step'[w] = k /\ client'[w] = c /\ removal'[w] = "none"
      /\ results'[w] = results[w]
      /\ \A v \in Workers : v # w => SameFor(v)
  BY <1>1 DEF IInv, TypeOK, SameFor
<1> HIDE DEF c
<1>7. Len(results[w]) = step[w] /\ client[w].status \in {"none", "exited"}
  BY <1>1, <1>2 DEF Progress
<1>8. Progress(w, "waiting", k, results[w], c, "none", ended)
  <2>1. \A i \in 1 .. k : i = k \/ i \in 1 .. step[w]
    BY <1>2, <1>3
  <2>2. \A i \in 1 .. k : Permitted(Policy, Pipeline[w][i])
    BY <1>1, <1>2, <2>1 DEF Progress
  <2> QED BY <1>2, <1>3, <1>4, <1>7, <2>2 DEF Progress, Executing
<1>9. Removed(w, k, c, "none", container)
  BY DEF Removed
<1> QED BY <1>1, <1>5, <1>6, <1>7, <1>8, <1>9, LocalStep

\* The steps that only move the worker on, or have a removal requested.
LEMMA MoveOnStep ==
    ASSUME IInv, NEW w \in Workers, Refuse(w) \/ Exited(w) \/ Timeout(w) \/ Complete(w) \/ Cancel(w)
    PROVE  IInv'
<1>1. /\ step' = step /\ results' = results /\ client' = client
      /\ container' = container /\ ended' = ended
      /\ \E p \in {"raised", "draining", "removing", "reported", "cancelled"} :
             phase' = [phase EXCEPT ![w] = p]
      /\ \/ removal' = removal /\ phase'[w] # "removing"
         \/ removal' = [removal EXCEPT ![w] = "requested"] /\ phase'[w] = "removing"
  BY DEF Refuse, Exited, Timeout, Complete, Cancel, IInv, TypeOK
<1>2. /\ phase[w] \in {"idle"} \cup Executing \cup Over
      /\ step[w] \in Nat /\ Len(Pipeline[w]) \in Nat /\ Len(results[w]) \in Nat
      /\ Progress(w, phase[w], step[w], results[w], client[w], removal[w], ended)
      /\ Removed(w, step[w], client[w], removal[w], container)
  BY WorkerFacts
<1>3. TypeOK'
  BY <1>1, ZenonT(60) DEF IInv, TypeOK, Executing, Over
<1>4. \A v \in Workers : v # w => SameFor(v)
  BY <1>1 DEF IInv, TypeOK, SameFor
<1>5. removal'[w] \in {removal[w], "requested"}
  BY <1>1 DEF IInv, TypeOK
<1>6. Removed(w, step[w], client[w], removal'[w], container)
  BY <1>2, <1>5 DEF Removed
<1>7. Progress(w, phase'[w], step[w], results[w], client[w], removal'[w], ended)
  <2>1. CASE Refuse(w)
    <3>1. phase'[w] = "raised" /\ removal'[w] = removal[w]
      BY <2>1 DEF Refuse, IInv, TypeOK
    <3> QED BY <1>2, <3>1 DEF Progress, Executing
  <2>2. CASE Exited(w)
    <3>1. phase[w] = "waiting" /\ phase'[w] = "draining" /\ removal'[w] = removal[w]
      BY <2>2 DEF Exited, IInv, TypeOK
    <3> QED BY <1>2, <3>1 DEF Progress, Executing
  <2>3. CASE Timeout(w)
    <3>1. phase[w] = "waiting"
      BY <2>3 DEF Timeout
    <3>2. \/ phase'[w] = "removing" /\ removal'[w] = "requested"
          \/ phase'[w] = "raised" /\ removal'[w] = removal[w]
      BY <2>3 DEF Timeout, IInv, TypeOK
    <3> QED BY <1>2, <3>1, <3>2 DEF Progress, Executing
  <2>4. CASE Complete(w)
    <3>1. /\ phase[w] = "idle" /\ step[w] = Len(Pipeline[w])
          /\ phase'[w] = "reported" /\ removal'[w] = removal[w]
      BY <2>4 DEF Complete, IInv, TypeOK
    <3> QED BY <1>2, <3>1 DEF Progress, Executing
  <2>5. CASE Cancel(w)
    <3>1. phase'[w] = "cancelled" /\ removal'[w] = removal[w]
      BY <2>5 DEF Cancel, IInv, TypeOK
    <3> QED BY <1>2, <3>1 DEF Progress, Executing
  <2> QED BY <2>1, <2>2, <2>3, <2>4, <2>5
<1>8. step'[w] = step[w] /\ client'[w] = client[w] /\ results'[w] = results[w]
  BY <1>1
<1> QED BY <1>1, <1>3, <1>4, <1>6, <1>7, <1>8, LocalStep

\* AfterRemoval: the removal is answered or abandoned, the client is dead.
LEMMA AfterRemovalStep ==
    ASSUME IInv, NEW w \in Workers, AfterRemoval(w)
    PROVE  IInv'
<1> DEFINE c == IF client[w].status = "exited" THEN client[w]
                ELSE [status |-> "killed", code |-> NoCode]
           rm == IF removal[w] = "requested" THEN "abandoned" ELSE removal[w]
<1>1. /\ phase[w] = "removing" /\ phase' = [phase EXCEPT ![w] = "draining"]
      /\ removal' = [removal EXCEPT ![w] = rm] /\ client' = [client EXCEPT ![w] = c]
      /\ step' = step /\ results' = results /\ container' = container /\ ended' = ended
  BY DEF AfterRemoval, ClientAt, IInv, TypeOK
<1>2. /\ step[w] \in Nat /\ Len(results[w]) \in Nat /\ NoCode # 0
      /\ removal[w] \in {"none", "requested", "abandoned", "removed", "missed"}
      /\ client[w].status \in {"none", "preparing", "starting", "attached"} \cup Dead
      /\ Progress(w, phase[w], step[w], results[w], client[w], removal[w], ended)
      /\ Removed(w, step[w], client[w], removal[w], container)
  BY WorkerFacts
<1>3. /\ \/ c.status = "exited" /\ c = client[w]
         \/ c.status = "killed" /\ c.code = NoCode
      /\ c \in [status : {"none", "preparing", "starting", "attached"} \cup Dead,
                code : Int \cup {NoCode}]
      /\ client[w].status # "exited" => c.status = "killed"
  BY DEF IInv, TypeOK, Dead
<1>4. /\ rm \in {"none", "abandoned", "removed", "missed"} /\ rm # "requested"
      /\ rm = "removed" => removal[w] = "removed"
      /\ rm # "none" => removal[w] # "none"
  BY <1>2
<1> HIDE DEF c, rm
<1>5. TypeOK'
  BY <1>1, <1>3, <1>4 DEF IInv, TypeOK, Executing
<1>6. /\ phase'[w] = "draining" /\ removal'[w] = rm /\ client'[w] = c
      /\ step'[w] = step[w] /\ results'[w] = results[w]
      /\ \A v \in Workers : v # w => SameFor(v)
  BY <1>1 DEF IInv, TypeOK, SameFor
<1>7. Progress(w, "draining", step[w], results[w], c, rm, ended)
  BY <1>1, <1>2, <1>3, <1>4 DEF Progress, Executing
<1>8. Removed(w, step[w], c, rm, container)
  BY <1>2, <1>3, <1>4 DEF Removed
<1>9. client[w].status \in {"starting", "attached", "killed"} =>
          c.status \in {"starting", "attached", "killed"}
  BY <1>3
<1> QED BY <1>1, <1>5, <1>6, <1>7, <1>8, <1>9, LocalStep

\* Finish: the step has its result, and the pipeline goes on only after a success.
LEMMA FinishStep ==
    ASSUME IInv, NEW w \in Workers, Finish(w)
    PROVE  IInv'
<1> DEFINE x == Result(w)
           rs == Append(results[w], x)
           p == IF Succeeded(x) THEN "idle" ELSE "reported"
           n == Len(results[w])
<1>1. /\ phase[w] = "draining" /\ client[w].status \in Dead
      /\ results' = [results EXCEPT ![w] = rs] /\ phase' = [phase EXCEPT ![w] = p]
      /\ step' = step /\ client' = client /\ removal' = removal
      /\ container' = container /\ ended' = ended
  BY DEF Finish
<1>2. /\ step[w] \in Nat /\ n \in Nat /\ NoCode # 0 /\ results[w] \in Seq(ExecutionResult)
      /\ step[w] <= Len(Pipeline[w])
      /\ client[w].code \in Int \cup {NoCode}
      /\ Progress(w, phase[w], step[w], results[w], client[w], removal[w], ended)
      /\ Removed(w, step[w], client[w], removal[w], container)
  BY WorkerFacts
<1>3. step[w] >= 1 /\ n = step[w] - 1 /\ n + 1 = step[w] /\ removal[w] # "requested"
  BY <1>1, <1>2 DEF Progress, Executing
<1>4. /\ x \in ExecutionResult
      /\ Succeeded(x) => client[w].code = 0 /\ removal[w] = "none"
  <2> DEFINE late == removal[w] # "none"
             code == IF late THEN NoCode ELSE client[w].code
  <2>1. x = [timedOut |-> late, code |-> code]
    BY DEF Result
  <2>2. late \in BOOLEAN /\ code \in Int \cup {NoCode}
    BY <1>2
  <2>3. x.timedOut = late /\ x.code = code
    BY <2>1
  <2>4. Succeeded(x) => ~ late /\ code = 0
    BY <2>3 DEF Succeeded
  <2>5. x \in ExecutionResult
    <3> HIDE DEF late, code
    <3> QED BY <2>1, <2>2 DEF ExecutionResult
  <2> QED BY <2>4, <2>5
<1> HIDE DEF x
<1>5. /\ rs \in Seq(ExecutionResult) /\ Len(rs) = n + 1
      /\ \A i \in 1 .. n : rs[i] = results[w][i]
      /\ rs[n + 1] = x
  BY <1>2, <1>4, AppendProperties
<1>6. p \in {"idle", "reported"} /\ (p = "idle" <=> Succeeded(x))
  OBVIOUS
<1> HIDE DEF rs, p, n
<1>7. TypeOK'
  <2>1. Len(rs) <= step[w]
    BY <1>3, <1>5
  <2> QED BY <1>1, <1>5, <1>6, <2>1 DEF IInv, TypeOK, Over
<1>8. /\ phase'[w] = p /\ results'[w] = rs /\ step'[w] = step[w]
      /\ client'[w] = client[w] /\ removal'[w] = removal[w]
      /\ \A v \in Workers : v # w => SameFor(v)
  BY <1>1 DEF IInv, TypeOK, SameFor
<1>9. Progress(w, p, step[w], rs, client[w], removal[w], ended)
  <2>1. ASSUME NEW i \in 1 .. Len(rs), Succeeded(rs[i])
        PROVE  [step |-> << w, i >>, code |-> 0] \in ended
    <3>1. CASE i \in 1 .. n
      <4>1. Succeeded(results[w][i])
        BY <1>5, <2>1, <3>1
      <4> QED BY <1>2, <3>1, <4>1 DEF Progress, n
    <3>2. CASE i = step[w]
      <4>1. Succeeded(x)
        BY <1>3, <1>5, <2>1, <3>2
      <4> QED BY <1>2, <1>4, <3>2, <4>1 DEF Progress
    <3> QED BY <1>2, <1>3, <1>5, <3>1, <3>2
  <2>2. p = "idle" => client[w].status \in {"none", "exited"}
    <3>1. client[w].code = 0 => client[w].status = "exited"
      <4>1. client[w].status = "killed" => client[w].code = NoCode
        BY <1>2 DEF Progress
      <4> QED BY <1>1, <1>2, <4>1 DEF Dead
    <3> QED BY <1>4, <1>6, <3>1
  <2>3. p = "reported" => \E i \in 1 .. Len(rs) : ~ Succeeded(rs[i])
    <3>1. n + 1 \in 1 .. Len(rs)
      BY <1>2, <1>5
    <3> QED BY <1>5, <1>6, <3>1
  <2>4. Len(rs) = step[w]
    BY <1>3, <1>5
  <2> QED BY <1>2, <1>3, <1>6, <2>1, <2>2, <2>3, <2>4 DEF Progress, Executing
<1> QED BY <1>1, <1>2, <1>7, <1>8, <1>9, LocalStep

-----------------------------------------------------------------------------
(* The docker client and the daemon.                                        *)

\* Neither takes the progress of worker v away: its client and its removal become d
\* and rm, and the history grows.
LEMMA DockerProgress ==
    ASSUME IInv, NEW v \in Workers, step[v] >= 1, NEW finished, ended \subseteq finished,
           NEW d, d.status # "exited" => d.code = NoCode,
           phase[v] = "idle" => d.status \in {"none", "exited"},
           d.code = 0 => [step |-> << v, step[v] >>, code |-> 0] \in finished,
           NEW rm, \/ rm = removal[v]
                   \/ removal[v] \in {"requested", "abandoned"} /\ rm \in {"missed", "removed"}
    PROVE  Progress(v, phase[v], step[v], results[v], d, rm, finished)
<1>1. Progress(v, phase[v], step[v], results[v], client[v], removal[v], ended)
  BY WorkerFacts
<1> QED BY <1>1 DEF Progress

\* A step of client or daemon keeps IInv when it keeps these.
LEMMA DockerStep ==
    ASSUME TypeOK', phase' = phase, step' = step, results' = results,
           \A v \in Workers :
               /\ Progress(v, phase[v], step[v], results[v], client'[v], removal'[v], ended')
               /\ Removed(v, step[v], client'[v], removal'[v], container'),
           \A n \in Names : Owned(n, container'[n], step, client')
    PROVE  IInv'
BY DEF IInv, ProgressOf, RemovedOf, OwnedAt

\* Create: the container of the step, or none and the client is gone.
LEMMA CreateStep ==
    ASSUME IInv, NEW w \in Workers, Create(w)
    PROVE  IInv'
<1>1. /\ client[w].status = "preparing"
      /\ phase' = phase /\ step' = step /\ results' = results /\ removal' = removal
      /\ ended' = ended
  BY DEF Create
<1>2. /\ step[w] \in Nat /\ NoCode # 0
      /\ Progress(w, phase[w], step[w], results[w], client[w], removal[w], ended)
      /\ Removed(w, step[w], client[w], removal[w], container)
  BY WorkerFacts
<1>3. step[w] >= 1 /\ phase[w] # "idle"
  BY <1>1, <1>2 DEF Progress
<1>4. Name(w) \in Names
  BY <1>3, NameType
<1>5. CASE /\ container[Name(w)].status = "absent"
           /\ container' = [container EXCEPT ![Name(w)] =
                               [status |-> "created", owner |-> Step(w)]]
           /\ ClientAt(w, "starting", NoCode)
  <2> DEFINE d == [status |-> "starting", code |-> NoCode]
             x == [status |-> "created", owner |-> Step(w)]
             N == Name(w)
  <2>1. /\ client' = [client EXCEPT ![w] = d]
        /\ container' = [container EXCEPT ![N] = x]
    BY <1>5 DEF ClientAt
  <2>2. /\ d.status = "starting" /\ d.code = NoCode
        /\ x.status = "created" /\ x.owner = << w, step[w] >>
        /\ x \in [status : {"created", "running"}, owner : Steps]
    BY <1>2 DEF Step, Steps
  <2> HIDE DEF d, x, N
  <2>3. /\ N \in Names /\ N = Pipeline[w][step[w]].name
    BY <1>4 DEF N, Name
  <2>4. /\ client'[w] = d /\ \A v \in Workers : v # w => client'[v] = client[v]
        /\ container'[N] = x /\ \A n \in Names : n # N => container'[n] = container[n]
    BY <2>1, <2>3 DEF IInv, TypeOK
  <2>5. TypeOK'
    <3>1. d \in [status : {"none", "preparing", "starting", "attached"} \cup Dead,
                 code : Int \cup {NoCode}]
      BY DEF d
    <3>2. client' \in [Workers -> [status : {"none", "preparing", "starting", "attached"}
                                               \cup Dead,
                                   code : Int \cup {NoCode}]]
      BY <2>1, <3>1 DEF IInv, TypeOK
    <3>3. container' \in [Names -> {NoContainer} \cup
                                      [status : {"created", "running"}, owner : Steps]]
      BY <2>1, <2>2 DEF IInv, TypeOK
    <3> QED BY <1>1, <3>2, <3>3 DEF IInv, TypeOK
  <2>6. ASSUME NEW v \in Workers
        PROVE  /\ Progress(v, phase[v], step[v], results[v], client'[v], removal'[v], ended')
               /\ Removed(v, step[v], client'[v], removal'[v], container')
    <3>1. CASE v = w
      <4>1. Progress(w, phase[w], step[w], results[w], d, removal[w], ended)
        BY <1>2, <1>3, <2>2, DockerProgress
      <4>2. ~ (removal[w] = "removed" /\ OwnName(w, Pipeline[w][step[w]].name))
        BY <1>1, <1>2 DEF Removed
      <4> QED BY <1>1, <2>4, <3>1, <4>1, <4>2 DEF Removed
    <3>2. CASE v # w
      <4>1. /\ Progress(v, phase[v], step[v], results[v], client[v], removal[v], ended)
            /\ Removed(v, step[v], client[v], removal[v], container)
        BY WorkerFacts
      <4>2. x.owner # << v, step[v] >>
        BY <2>2, <3>2
      <4>3. \A n \in Names : container[n].owner # << v, step[v] >> =>
                                 container'[n].owner # << v, step[v] >>
        BY <2>4, <4>2
      <4>4. client'[v] = client[v]
        BY <2>4, <3>2
      <4> QED BY <1>1, <4>1, <4>3, <4>4 DEF Removed
    <3> QED BY <3>1, <3>2
  <2>7. ASSUME NEW n \in Names PROVE Owned(n, container'[n], step, client')
    <3>1. CASE n = N
      <4>1. x.owner[1] = w
        BY <2>2
      <4> QED BY <1>3, <2>2, <2>3, <2>4, <3>1, <4>1 DEF Owned
    <3>2. CASE n # N
      <4> SUFFICES ASSUME container[n].status # "absent"
                   PROVE  Owned(n, container[n], step, client')
        BY <2>4, <3>2 DEF Owned
      <4>1. LET v == container[n].owner[1]
            IN  /\ v \in Workers /\ step[v] >= 1
                /\ container[n].owner = Step(v) /\ n = Name(v)
                /\ client[v].status \in {"starting", "attached", "killed"}
        BY ContainerFacts
      <4>2. container[n].owner[1] # w
        BY <1>1, <4>1
      <4> QED BY <2>4, <4>1, <4>2 DEF Owned, Step, Name
    <3> QED BY <3>1, <3>2
  <2> QED BY <1>1, <2>5, <2>6, <2>7, DockerStep
<1>6. CASE ClientAt(w, "exited", 125) /\ UNCHANGED container
  <2> DEFINE d == [status |-> "exited", code |-> 125]
  <2>1. client' = [client EXCEPT ![w] = d]
    BY <1>6 DEF ClientAt
  <2>2. /\ d.status = "exited" /\ d.code = 125
        /\ d \in [status : {"none", "preparing", "starting", "attached"} \cup Dead,
                  code : Int \cup {NoCode}]
    BY DEF Dead
  <2> HIDE DEF d
  <2>3. TypeOK'
    BY <1>1, <1>6, <2>1, <2>2 DEF IInv, TypeOK
  <2>4. /\ client'[w] = d /\ phase'[w] = phase[w] /\ step'[w] = step[w]
        /\ results'[w] = results[w] /\ removal'[w] = removal[w]
        /\ \A v \in Workers : v # w => SameFor(v)
    BY <1>1, <2>1 DEF IInv, TypeOK, SameFor
  <2>5. Progress(w, phase[w], step[w], results[w], d, removal[w], ended)
    <3>1. d.code # 0
      BY <2>2
    <3> QED BY <1>2, <1>3, <2>2, <3>1, DockerProgress
  <2>6. Removed(w, step[w], d, removal[w], container)
    BY <1>2, <2>2 DEF Removed
  <2> QED BY <1>1, <1>6, <2>3, <2>4, <2>5, <2>6, LocalStep
<1> QED BY <1>5, <1>6 DEF Create

\* StartContainer: the container of the step runs, or it was removed before.
LEMMA StartContainerStep ==
    ASSUME IInv, NEW w \in Workers, StartContainer(w)
    PROVE  IInv'
<1>1. /\ client[w].status = "starting"
      /\ phase' = phase /\ step' = step /\ results' = results /\ removal' = removal
      /\ ended' = ended
  BY DEF StartContainer
<1>2. /\ step[w] \in Nat /\ NoCode # 0
      /\ Progress(w, phase[w], step[w], results[w], client[w], removal[w], ended)
      /\ Removed(w, step[w], client[w], removal[w], container)
  BY WorkerFacts
<1>3. step[w] >= 1 /\ phase[w] # "idle"
  BY <1>1, <1>2 DEF Progress
<1> DEFINE N == Name(w)
<1>4. N \in Names
  BY <1>3, NameType
<1>5. PICK d \in [status : {"attached", "exited"}, code : Int \cup {NoCode}] :
          /\ client' = [client EXCEPT ![w] = d]
          /\ d.code # 0 /\ (d.status # "exited" => d.code = NoCode)
          /\ \/ /\ Owns(w, N) /\ d.status = "attached"
                /\ container' = [container EXCEPT ![N].status = "running"]
             \/ ~ Owns(w, N) /\ container' = container
  <2>1. CASE Owns(w, N)
    <3> DEFINE e == [status |-> "attached", code |-> NoCode]
    <3>1. /\ client' = [client EXCEPT ![w] = e]
          /\ container' = [container EXCEPT ![N].status = "running"]
      BY <2>1 DEF StartContainer, ClientAt
    <3>2. /\ e \in [status : {"attached", "exited"}, code : Int \cup {NoCode}]
          /\ e.status = "attached" /\ e.code = NoCode
      OBVIOUS
    <3> HIDE DEF N, e
    <3> QED BY <1>2, <2>1, <3>1, <3>2
  <2>2. CASE ~ Owns(w, N)
    <3> DEFINE e == [status |-> "exited", code |-> 125]
    <3>1. client' = [client EXCEPT ![w] = e] /\ container' = container
      BY <2>2 DEF StartContainer, ClientAt
    <3>2. /\ e \in [status : {"attached", "exited"}, code : Int \cup {NoCode}]
          /\ e.status = "exited" /\ e.code # 0
      OBVIOUS
    <3> HIDE DEF N, e
    <3> QED BY <2>2, <3>1, <3>2
  <2> QED BY <2>1, <2>2
<1> HIDE DEF N
<1>6. client'[w] = d /\ \A v \in Workers : v # w => client'[v] = client[v]
  BY <1>5 DEF IInv, TypeOK
<1>7. ASSUME NEW n \in Names
      PROVE  /\ container'[n].owner = container[n].owner
             /\ container'[n].status # "absent" => container[n].status # "absent"
             /\ container'[n] \in {NoContainer} \cup
                                     [status : {"created", "running"}, owner : Steps]
  <2>0. container[n] \in {NoContainer} \cup [status : {"created", "running"}, owner : Steps]
    BY DEF IInv, TypeOK
  <2>1. CASE container' = container
    BY <2>0, <2>1
  <2>2. CASE n # N /\ Owns(w, N)
    <3>1. container'[n] = container[n]
      BY <1>5, <2>2 DEF IInv, TypeOK
    <3> QED BY <2>0, <3>1
  <2>3. CASE n = N /\ Owns(w, N)
    <3>1. container[N].status # "absent"
      BY <1>4, <2>3, AbsentOwner DEF Owns, Step
    <3>2. container[N] \in [status : {"created", "running"}, owner : Steps]
      BY <2>0, <2>3, <3>1 DEF NoContainer
    <3>3. container'[N] = [container[N] EXCEPT !.status = "running"]
      BY <1>4, <1>5, <2>3 DEF IInv, TypeOK
    <3> QED BY <2>3, <3>1, <3>2, <3>3
  <2> QED BY <1>5, <2>1, <2>2, <2>3
<1>8. TypeOK'
  <2>1. client' \in [Workers -> [status : {"none", "preparing", "starting", "attached"}
                                            \cup Dead,
                                 code : Int \cup {NoCode}]]
    BY <1>5 DEF IInv, TypeOK, Dead
  <2>2. container' \in [Names -> {NoContainer} \cup
                                     [status : {"created", "running"}, owner : Steps]]
    <3>1. container' = [n \in Names |-> container'[n]]
      BY <1>5 DEF IInv, TypeOK
    <3> QED BY <1>7, <3>1
  <2> QED BY <1>1, <2>1, <2>2 DEF IInv, TypeOK
<1>9. ASSUME NEW v \in Workers
      PROVE  /\ Progress(v, phase[v], step[v], results[v], client'[v], removal'[v], ended')
             /\ Removed(v, step[v], client'[v], removal'[v], container')
  <2>1. /\ Progress(v, phase[v], step[v], results[v], client[v], removal[v], ended)
        /\ Removed(v, step[v], client[v], removal[v], container)
    BY WorkerFacts
  <2>2. Progress(v, phase[v], step[v], results[v], client'[v], removal'[v], ended')
    <3>1. CASE v = w
      <4>1. Progress(w, phase[w], step[w], results[w], d, removal[w], ended)
        BY <1>2, <1>3, <1>5, DockerProgress
      <4> QED BY <1>1, <1>6, <3>1, <4>1
    <3>2. CASE v # w
      BY <1>1, <1>6, <2>1, <3>2
    <3> QED BY <3>1, <3>2
  <2>3. client[v].status \notin {"none", "preparing"} =>
            client'[v].status \notin {"none", "preparing"}
    BY <1>5, <1>6
  <2> QED BY <1>1, <1>7, <2>1, <2>2, <2>3 DEF Removed
<1>10. ASSUME NEW n \in Names PROVE Owned(n, container'[n], step, client')
  <2> SUFFICES ASSUME container'[n].status # "absent"
               PROVE  Owned(n, container'[n], step, client')
    BY DEF Owned
  <2>1. LET v == container[n].owner[1]
        IN  /\ v \in Workers /\ step[v] >= 1
            /\ container[n].owner = Step(v) /\ n = Name(v)
            /\ client[v].status \in {"starting", "attached", "killed"}
    BY <1>7, ContainerFacts
  <2>2. container[n].owner[1] = w => Owns(w, N)
    BY <2>1 DEF Owns, N
  <2>3. container[n].owner[1] = w => client'[w].status = "attached"
    BY <1>5, <1>6, <2>2
  <2> QED BY <1>6, <1>7, <2>1, <2>3 DEF Owned, Step, Name
<1> QED BY <1>1, <1>8, <1>9, <1>10, DockerStep

\* The daemon is rid of a container, for which the client of its owner gets code x if
\* it is attached: no container of this step is left.
LEMMA GoneStep ==
    ASSUME IInv, NEW N \in Names, container[N].status # "absent",
           NEW v, v = container[N].owner[1],
           container' = [container EXCEPT ![N] = NoContainer],
           NEW x \in Int, x = 0 => [step |-> container[N].owner, code |-> 0] \in ended',
           IF client[v].status = "attached" THEN ClientAt(v, "exited", x) ELSE UNCHANGED client,
           phase' = phase, step' = step, results' = results,
           ended \subseteq ended', ended' \subseteq [step : Steps, code : Int],
           NEW w \in Workers, NEW rm \in {"none", "requested", "abandoned", "removed", "missed"},
           removal' = [removal EXCEPT ![w] = rm],
           \/ rm = removal[w]
           \/ /\ removal[w] \in {"requested", "abandoned"} /\ rm = "removed"
              /\ N = Name(w)
    PROVE  IInv'
<1>1. /\ v \in Workers /\ step[v] >= 1 /\ step[v] \in Nat
      /\ container[N].owner = << v, step[v] >> /\ N = Name(v)
      /\ client[v].status \in {"starting", "attached", "killed"}
  BY ContainerFacts, WorkerFacts DEF Step
<1>2. PICK d \in [status : {"starting", "attached", "killed", "exited"}, code : Int \cup {NoCode}] :
          /\ client' = [client EXCEPT ![v] = d]
          /\ \/ d = client[v] /\ d.status # "attached"
             \/ d.status = "exited" /\ d.code = x
  <2>1. CASE client[v].status = "attached"
    <3> DEFINE e == [status |-> "exited", code |-> x]
    <3>1. client' = [client EXCEPT ![v] = e]
      BY <2>1 DEF ClientAt
    <3>2. /\ e \in [status : {"starting", "attached", "killed", "exited"},
                    code : Int \cup {NoCode}]
          /\ e.status = "exited" /\ e.code = x
      OBVIOUS
    <3> HIDE DEF e
    <3> QED BY <3>1, <3>2
  <2>2. CASE client[v].status # "attached"
    <3>1. client' = [client EXCEPT ![v] = client[v]]
      BY <2>2 DEF IInv, TypeOK
    <3>2. client[v] \in [status : {"none", "preparing", "starting", "attached"} \cup Dead,
                         code : Int \cup {NoCode}]
      BY <1>1 DEF IInv, TypeOK
    <3>3. client[v] \in [status : {"starting", "attached", "killed", "exited"},
                         code : Int \cup {NoCode}]
      BY <1>1, <3>2
    <3> QED BY <2>2, <3>1, <3>3
  <2> QED BY <2>1, <2>2
<1>3. /\ client'[v] = d /\ \A u \in Workers : u # v => client'[u] = client[u]
      /\ container'[N] = NoContainer /\ \A n \in Names : n # N => container'[n] = container[n]
      /\ removal'[w] = rm /\ \A u \in Workers : u # w => removal'[u] = removal[u]
  BY <1>1, <1>2 DEF IInv, TypeOK
<1>4. TypeOK'
  <2>1. client' \in [Workers -> [status : {"none", "preparing", "starting", "attached"}
                                            \cup Dead,
                                 code : Int \cup {NoCode}]]
    BY <1>2 DEF IInv, TypeOK, Dead
  <2>2. container' \in [Names -> {NoContainer} \cup
                                     [status : {"created", "running"}, owner : Steps]]
    BY DEF IInv, TypeOK
  <2>3. removal' \in [Workers -> {"none", "requested", "abandoned", "removed", "missed"}]
    BY DEF IInv, TypeOK
  <2> QED BY <2>1, <2>2, <2>3 DEF IInv, TypeOK
<1>5. ASSUME NEW u \in Workers
      PROVE  Progress(u, phase[u], step[u], results[u], client'[u], removal'[u], ended')
  <2>1. Progress(u, phase[u], step[u], results[u], client[u], removal[u], ended) /\ NoCode # 0
    BY WorkerFacts
  <2>2. \/ removal'[u] = removal[u]
        \/ removal[u] \in {"requested", "abandoned"} /\ removal'[u] \in {"missed", "removed"}
    BY <1>3
  <2>3. CASE u = v
    <3>1. phase[u] # "idle"
      BY <1>1, <2>1, <2>3 DEF Progress
    <3>2. d.status # "exited" => d.code = NoCode
      BY <1>1, <1>2, <2>1, <2>3 DEF Progress
    <3>3. d.code = 0 => [step |-> << u, step[u] >>, code |-> 0] \in ended'
      BY <1>1, <1>2, <2>1, <2>3 DEF Progress
    <3>4. PICK r : r = removal'[u]
      OBVIOUS
    <3>5. Progress(u, phase[u], step[u], results[u], d, r, ended')
      BY <1>1, <2>2, <2>3, <3>1, <3>2, <3>3, <3>4, DockerProgress
    <3> QED BY <1>3, <2>3, <3>4, <3>5
  <2>4. CASE u # v
    <3>1. client'[u] = client[u]
      BY <1>3, <2>4
    <3> QED BY <2>1, <2>2, <3>1 DEF Progress
  <2> QED BY <2>3, <2>4
<1>6. ASSUME NEW u \in Workers PROVE Removed(u, step[u], client'[u], removal'[u], container')
  <2>1. Removed(u, step[u], client[u], removal[u], container)
    BY WorkerFacts
  <2>2. client[u].status \notin {"none", "preparing"} =>
            client'[u].status \notin {"none", "preparing"}
    BY <1>2, <1>3
  <2>3. \A n \in Names : container'[n].owner = << u, step[u] >> =>
                             n # N /\ container[n].owner = << u, step[u] >>
    <3>1. NoContainer.owner = << >> /\ << >> # << u, step[u] >>
      BY DEF NoContainer
    <3> QED BY <1>3, <3>1
  <2>4. CASE removal'[u] = removal[u]
    BY <2>1, <2>2, <2>3, <2>4 DEF Removed
  <2>5. CASE removal'[u] # removal[u]
    <3>1. u = w /\ N = Name(w) /\ removal[w] # "none"
      BY <1>3, <2>5
    <3> SUFFICES ASSUME OwnName(w, Name(w))
                 PROVE  /\ client'[w].status \notin {"none", "preparing"}
                        /\ \A n \in Names : container'[n].owner # << w, step[w] >>
      BY <3>1 DEF Removed, Name
    <3>2. v = w
      <4> SUFFICES ASSUME v # w PROVE FALSE
        OBVIOUS
      <4>1. step[v] \in 1 .. Len(Pipeline[v]) /\ Pipeline[v][step[v]].name = N
        BY <1>1, NameType DEF Name
      <4> QED BY <1>1, <3>1, <4>1 DEF OwnName
    <3>3. client'[w].status \notin {"none", "preparing"}
      BY <1>2, <1>3, <3>2
    <3>4. ASSUME NEW n \in Names, container'[n].owner = << w, step[w] >> PROVE FALSE
      <4>1. n # N /\ container[n].owner = << w, step[w] >>
        BY <2>3, <3>1, <3>4
      <4>2. container[n].status # "absent"
        BY <4>1, AbsentOwner
      <4>3. n = Name(container[n].owner[1]) /\ container[n].owner[1] = w
        BY <4>1, <4>2, ContainerFacts
      <4> QED BY <3>1, <4>1, <4>3
    <3> QED BY <3>3, <3>4
  <2> QED BY <2>4, <2>5
<1>7. ASSUME NEW n \in Names PROVE Owned(n, container'[n], step, client')
  <2>1. CASE n = N
    BY <1>3, <2>1 DEF Owned, NoContainer
  <2>2. CASE n # N
    <3> SUFFICES ASSUME container[n].status # "absent"
                 PROVE  Owned(n, container[n], step, client')
      BY <1>3, <2>2 DEF Owned
    <3>1. LET u == container[n].owner[1]
          IN  /\ u \in Workers /\ step[u] >= 1
              /\ container[n].owner = Step(u) /\ n = Name(u)
              /\ client[u].status \in {"starting", "attached", "killed"}
      BY ContainerFacts
    <3>2. container[n].owner[1] # v
      BY <1>1, <2>2, <3>1
    <3> QED BY <1>3, <3>1, <3>2 DEF Owned, Step, Name
  <2> QED BY <2>1, <2>2
<1> QED BY <1>4, <1>5, <1>6, <1>7, DockerStep

\* EndContainer: the command has ended, and its end is in the history.
LEMMA EndContainerStep ==
    ASSUME IInv, NEW n \in Names, NEW code \in {0, 1}, EndContainer(n, code)
    PROVE  IInv'
<1> DEFINE o == container[n].owner
           v == o[1]
           new == [step |-> o, code |-> code]
<1>1. /\ container[n].status = "running"
      /\ container' = [container EXCEPT ![n] = NoContainer]
      /\ ended' = ended \cup {new}
      /\ IF client[v].status = "attached" /\ Owns(v, n)
         THEN ClientAt(v, "exited", code) ELSE UNCHANGED client
      /\ phase' = phase /\ step' = step /\ results' = results /\ removal' = removal
  BY DEF EndContainer
<1>2. v \in Workers /\ Owns(v, n) /\ o \in Steps
  BY <1>1, ContainerFacts DEF Owns
<1>3. /\ code \in Int
      /\ code = 0 => [step |-> o, code |-> 0] \in ended'
      /\ ended \subseteq ended' /\ ended' \subseteq [step : Steps, code : Int]
  BY <1>1, <1>2 DEF IInv, TypeOK
<1>4. /\ removal[v] \in {"none", "requested", "abandoned", "removed", "missed"}
      /\ removal' = [removal EXCEPT ![v] = removal[v]]
  BY <1>1, <1>2 DEF IInv, TypeOK
<1>5. container[n].status # "absent"
  BY <1>1
<1>6. IF client[v].status = "attached" THEN ClientAt(v, "exited", code) ELSE UNCHANGED client
  BY <1>1, <1>2
<1>7. PICK u : u = v
  OBVIOUS
<1>8. PICK rm : rm = removal[u]
  OBVIOUS
<1> QED BY <1>1, <1>2, <1>3, <1>4, <1>5, <1>6, <1>7, <1>8, GoneStep

\* ForceRemove: the daemon has removed what had the name, or found nothing.
LEMMA ForceRemoveStep ==
    ASSUME IInv, NEW w \in Workers, ForceRemove(w)
    PROVE  IInv'
<1> DEFINE N == Name(w)
           v == container[N].owner[1]
<1>1. /\ removal[w] \in {"requested", "abandoned"}
      /\ phase' = phase /\ step' = step /\ results' = results /\ ended' = ended
  BY DEF ForceRemove
<1>2. /\ step[w] \in Nat
      /\ Progress(w, phase[w], step[w], results[w], client[w], removal[w], ended)
  BY WorkerFacts
<1>3. step[w] >= 1 /\ N \in Names
  BY <1>1, <1>2, NameType DEF Progress
<1>4. CASE container[N].status = "absent"
  <2>1. removal' = [removal EXCEPT ![w] = "missed"] /\ container' = container /\ client' = client
    BY <1>4 DEF ForceRemove
  <2>2. TypeOK'
    BY <1>1, <2>1 DEF IInv, TypeOK
  <2>3. /\ removal'[w] = "missed" /\ phase'[w] = phase[w] /\ step'[w] = step[w]
        /\ results'[w] = results[w] /\ client'[w] = client[w]
        /\ \A u \in Workers : u # w => SameFor(u)
    BY <1>1, <2>1 DEF IInv, TypeOK, SameFor
  <2>4. Progress(w, phase[w], step[w], results[w], client[w], "missed", ended)
    BY <1>1, <1>2, <1>3 DEF Progress
  <2>5. Removed(w, step[w], client[w], "missed", container)
    BY DEF Removed
  <2> QED BY <1>1, <2>1, <2>2, <2>3, <2>4, <2>5, LocalStep
<1>5. CASE container[N].status # "absent"
  <2>1. /\ removal' = [removal EXCEPT ![w] = "removed"]
        /\ container' = [container EXCEPT ![N] = NoContainer]
        /\ IF client[v].status = "attached" THEN ClientAt(v, "exited", 137) ELSE UNCHANGED client
    BY <1>5 DEF ForceRemove
  <2>2. ended \subseteq ended' /\ ended' \subseteq [step : Steps, code : Int]
    BY <1>1 DEF IInv, TypeOK
  <2>3. PICK u : u = v
    OBVIOUS
  <2>4. PICK n \in Names : n = N
    BY <1>3
  <2>5. /\ container[n].status # "absent" /\ u = container[n].owner[1]
        /\ container' = [container EXCEPT ![n] = NoContainer]
        /\ IF client[u].status = "attached" THEN ClientAt(u, "exited", 137) ELSE UNCHANGED client
    BY <1>5, <2>1, <2>3, <2>4
  <2>6. 137 \in Int /\ (137 = 0 => [step |-> container[n].owner, code |-> 0] \in ended')
    OBVIOUS
  <2> HIDE DEF N, v
  <2> QED BY <1>1, <2>1, <2>2, <2>4, <2>5, <2>6, GoneStep DEF N
<1> QED BY <1>4, <1>5

-----------------------------------------------------------------------------
\* Nothing has been launched yet.
LEMMA InitIInv == Init => IInv
<1> SUFFICES ASSUME Init PROVE IInv
  OBVIOUS
<1>1. TypeOK
  <2>1. << >> \in Seq(ExecutionResult) /\ Len(<< >>) = 0
    OBVIOUS
  <2>2. results \in [Workers -> Seq(ExecutionResult)]
    BY <2>1 DEF Init
  <2>3. \A w \in Workers : step[w] <= Len(Pipeline[w]) /\ Len(results[w]) <= step[w]
    BY <2>1, ExecutionAssumption DEF Init
  <2> QED BY <2>2, <2>3 DEF Init, TypeOK
<1>2. ASSUME NEW w \in Workers PROVE ProgressOf(w)
  <2>1. /\ phase[w] = "idle" /\ step[w] = 0 /\ Len(results[w]) = 0
        /\ client[w].status = "none" /\ client[w].code = NoCode /\ removal[w] = "none"
    BY DEF Init
  <2>2. NoCode # 0
    BY ExecutionAssumption
  <2> QED BY <2>1, <2>2 DEF ProgressOf, Progress, Executing
<1>3. \A n \in Names : OwnedAt(n)
  BY DEF Init, OwnedAt, Owned, NoContainer
<1>4. \A w \in Workers : RemovedOf(w)
  BY DEF Init, RemovedOf, Removed
<1> QED BY <1>1, <1>2, <1>3, <1>4 DEF IInv

\* It is an invariant.
LEMMA NextIInv == IInv /\ [Next]_vars => IInv'
<1> SUFFICES ASSUME IInv, [Next]_vars PROVE IInv'
  OBVIOUS
<1>1. CASE Next
  BY <1>1, LaunchStep, MoveOnStep, AfterRemovalStep, FinishStep, CreateStep,
     StartContainerStep, ForceRemoveStep, EndContainerStep DEF Next
<1>2. CASE UNCHANGED vars
  BY <1>2 DEF vars, IInv, TypeOK, ProgressOf, OwnedAt, RemovedOf
<1> QED BY <1>1, <1>2

\* Every variable of the executors has its type, and no worker leaves its pipeline.
THEOREM ExecutionTypeCorrect == Spec => []TypeOK
<1>1. IInv => TypeOK
  BY DEF IInv
<1> QED BY <1>1, InitIInv, NextIInv, PTL DEF Spec

\* While verify goes on, no container of an earlier step is left.
THEOREM NoStepsOverlap == Spec => []StepsDoNotOverlap
<1>1. IInv => StepsDoNotOverlap
  BY ContainerFacts DEF StepsDoNotOverlap, Owner
<1> QED BY <1>1, InitIInv, NextIInv, PTL DEF Spec

\* A verification that reports success has run every command of its pipeline, each
\* permitted by the policy, to its own end with exit code 0.
THEOREM ReportsAreReal == Spec => []SuccessIsReal
<1>1. IInv => SuccessIsReal
  <2> SUFFICES ASSUME IInv, NEW w \in Workers, phase[w] = "reported", ReportSucceeded(w),
                      NEW k \in 1 .. Len(Pipeline[w])
               PROVE  /\ [step |-> << w, k >>, code |-> 0] \in ended
                      /\ Pipeline[w][k].workspace = "job"
                      /\ 0 < Pipeline[w][k].timeout
                      /\ Pipeline[w][k].timeout <= Policy.maxTimeout
    BY DEF SuccessIsReal
  <2>1. /\ Progress(w, "reported", step[w], results[w], client[w], removal[w], ended)
        /\ Len(results[w]) \in Nat
    BY WorkerFacts
  <2>2. \A i \in 1 .. Len(results[w]) : Succeeded(results[w][i])
    BY DEF ReportSucceeded
  <2>3. Len(results[w]) = step[w] /\ step[w] = Len(Pipeline[w])
    BY <2>1, <2>2 DEF Progress
  <2>4. [step |-> << w, k >>, code |-> 0] \in ended
    BY <2>1, <2>2, <2>3 DEF Progress
  <2>5. Permitted(Policy, Pipeline[w][k])
    BY <2>1, <2>3 DEF Progress
  <2> QED BY <2>4, <2>5 DEF Permitted
<1> QED BY <1>1, InitIInv, NextIInv, PTL DEF Spec

\* When a step that timed out leaves a container and nobody else uses its name, the
\* removal came too early or hung.
THEOREM OrphansWereMissed == Spec => []OrphanOnlyIfMissed
<1>1. IInv => OrphanOnlyIfMissed
  <2> SUFFICES ASSUME IInv, NEW w \in Workers, NEW n \in Names,
                      phase[w] = "reported", removal[w] # "none", Owner(n) = Step(w),
                      \A v \in Workers \ {w} :
                          \A k \in 1 .. Len(Pipeline[v]) : Pipeline[v][k].name # n
               PROVE  removal[w] \in {"missed", "abandoned"}
    BY DEF OrphanOnlyIfMissed
  <2>1. /\ Progress(w, "reported", step[w], results[w], client[w], removal[w], ended)
        /\ Removed(w, step[w], client[w], removal[w], container)
        /\ removal[w] \in {"none", "requested", "abandoned", "removed", "missed"}
    BY WorkerFacts
  <2>2. removal[w] # "requested"
    BY <2>1 DEF Progress
  <2>3. container[n].owner = << w, step[w] >>
    BY DEF Owner, Step
  <2>4. container[n].status # "absent"
    BY <2>3, AbsentOwner
  <2>5. n = Pipeline[w][step[w]].name
    <3>1. container[n].owner[1] = w
      BY <2>3
    <3> QED BY <2>4, <3>1, ContainerFacts DEF Name
  <2>6. OwnName(w, Pipeline[w][step[w]].name)
    BY <2>5 DEF OwnName
  <2>7. removal[w] # "removed"
    BY <2>1, <2>3, <2>6 DEF Removed
  <2> QED BY <2>1, <2>2, <2>7
<1> QED BY <1>1, InitIInv, NextIInv, PTL DEF Spec

-----------------------------------------------------------------------------
(* OutputReader: runs of consecutive bytes.                                 *)

\* How many bytes a run has, and which.
LEMMA BytesProperties ==
    ASSUME NEW x \in Int, NEW y \in Int, y >= x - 1
    PROVE  /\ Bytes(x, y) \in Seq(Int)
           /\ Len(Bytes(x, y)) = y - x + 1
           /\ \A k \in 1 .. y - x + 1 : Bytes(x, y)[k] = x + k - 1
<1>1. y - x + 1 \in Nat
  OBVIOUS
<1>2. \A k \in 1 .. y - x + 1 : x + k - 1 \in Int
  OBVIOUS
<1> QED BY <1>1, <1>2 DEF Bytes

\* A run followed by the next one is one run.
LEMMA BytesJoin ==
    ASSUME NEW x \in Int, NEW y \in Int, NEW z \in Int, y >= x - 1, z >= y
    PROVE  Bytes(x, y) \o Bytes(y + 1, z) = Bytes(x, z)
<1> DEFINE a == Bytes(x, y)
           b == Bytes(y + 1, z)
           c == Bytes(x, z)
<1>1. /\ a \in Seq(Int) /\ Len(a) = y - x + 1
      /\ \A k \in 1 .. y - x + 1 : a[k] = x + k - 1
  BY BytesProperties
<1>2. /\ b \in Seq(Int) /\ Len(b) = z - y
      /\ \A k \in 1 .. z - y : b[k] = y + k
  <2>1. y + 1 \in Int /\ z >= (y + 1) - 1 /\ z - (y + 1) + 1 = z - y
    OBVIOUS
  <2>2. \A k \in Int : (y + 1) + k - 1 = y + k
    OBVIOUS
  <2>3. /\ b \in Seq(Int) /\ Len(b) = z - (y + 1) + 1
        /\ \A k \in 1 .. z - (y + 1) + 1 : b[k] = (y + 1) + k - 1
    BY <2>1, BytesProperties
  <2> HIDE DEF b
  <2> QED BY <2>1, <2>2, <2>3
<1>3. /\ c \in Seq(Int) /\ Len(c) = z - x + 1
      /\ \A k \in 1 .. z - x + 1 : c[k] = x + k - 1
  <2>1. z >= x - 1
    OBVIOUS
  <2> QED BY <2>1, BytesProperties
<1> HIDE DEF a, b, c
<1>4. /\ a \o b \in Seq(Int) /\ Len(a \o b) = z - x + 1
      /\ \A k \in 1 .. z - x + 1 :
             (a \o b)[k] = IF k <= Len(a) THEN a[k] ELSE b[k - Len(a)]
  <2>1. Len(a) + Len(b) = z - x + 1
    BY <1>1, <1>2
  <2>2. /\ a \o b \in Seq(Int) /\ Len(a \o b) = Len(a) + Len(b)
        /\ \A k \in 1 .. Len(a) + Len(b) :
               (a \o b)[k] = IF k <= Len(a) THEN a[k] ELSE b[k - Len(a)]
    BY <1>1, <1>2, ConcatProperties
  <2> QED BY <2>1, <2>2
<1>5. ASSUME NEW k \in 1 .. z - x + 1 PROVE (a \o b)[k] = c[k]
  <2>1. CASE k <= y - x + 1
    <3>1. k \in 1 .. y - x + 1 /\ k <= Len(a)
      BY <1>1, <2>1
    <3>2. (a \o b)[k] = a[k]
      BY <1>4, <3>1
    <3>3. a[k] = x + k - 1 /\ c[k] = x + k - 1
      BY <1>1, <1>3, <3>1
    <3> QED BY <3>2, <3>3
  <2>2. CASE ~ (k <= y - x + 1)
    <3>1. /\ k - Len(a) \in 1 .. z - y /\ ~ (k <= Len(a))
          /\ y + (k - Len(a)) = x + k - 1
      BY <1>1, <2>2
    <3> QED BY <1>2, <1>3, <1>4, <3>1
  <2> QED BY <2>1, <2>2
<1> QED BY <1>3, <1>4, <1>5, SeqEqual DEF a, b, c

\* A part of a run is a run.
LEMMA BytesPart ==
    ASSUME NEW x \in Int, NEW y \in Int, y >= x - 1,
           NEW m \in Int, NEW n \in Int, m >= 1, n >= m - 1, n <= y - x + 1
    PROVE  SubSeq(Bytes(x, y), m, n) = Bytes(x + m - 1, x + n - 1)
<1> DEFINE a == Bytes(x, y)
           b == SubSeq(a, m, n)
           c == Bytes(x + m - 1, x + n - 1)
<1>1. /\ a \in Seq(Int) /\ Len(a) = y - x + 1
      /\ \A k \in 1 .. y - x + 1 : a[k] = x + k - 1
  BY BytesProperties
<1>2. /\ c \in Seq(Int) /\ Len(c) = n - m + 1
      /\ \A k \in 1 .. n - m + 1 : c[k] = x + m + k - 2
  <2>1. /\ x + m - 1 \in Int /\ x + n - 1 \in Int /\ x + n - 1 >= (x + m - 1) - 1
        /\ (x + n - 1) - (x + m - 1) + 1 = n - m + 1
    OBVIOUS
  <2>2. \A k \in Int : (x + m - 1) + k - 1 = x + m + k - 2
    OBVIOUS
  <2>3. /\ c \in Seq(Int) /\ Len(c) = (x + n - 1) - (x + m - 1) + 1
        /\ \A k \in 1 .. (x + n - 1) - (x + m - 1) + 1 : c[k] = (x + m - 1) + k - 1
    BY <2>1, BytesProperties
  <2> HIDE DEF c
  <2> QED BY <2>1, <2>2, <2>3
<1> HIDE DEF a, c
<1>3. /\ b \in Seq(Int) /\ Len(b) = n - m + 1
      /\ \A k \in 1 .. n - m + 1 : b[k] = a[m + k - 1]
  <2>1. \A i \in m .. n : a[i] \in Int
    BY <1>1
  <2>2. n \in Nat /\ m \in 1 .. n + 1 /\ n <= Len(a)
    BY <1>1
  <2> QED BY <1>1, <2>1, <2>2
<1> HIDE DEF b
<1>4. \A k \in 1 .. n - m + 1 : b[k] = c[k]
  BY <1>1, <1>2, <1>3
<1> QED BY <1>2, <1>3, <1>4, SeqEqual DEF a, b, c

-----------------------------------------------------------------------------
(* The inductive invariant.                                                 *)

TypeInv ==
    /\ limit \in Int
    /\ written \in [Streams -> Nat]
    /\ closed \in BOOLEAN
    /\ pipe \in [Streams -> Seq(Int)]
    /\ retained \in [Streams -> Seq(Int)]
    /\ truncated \in [Streams -> BOOLEAN]
    /\ done \in [Streams -> BOOLEAN]

\* Of `total' bytes those up to `received' have been read, the rest is in the pipe p;
\* a reader that has read them holds r, and has dropped something if t.
Exact(total, received, p, r, t) ==
    /\ received \in Nat /\ received <= total
    /\ p = Bytes(received + 1, total)
    /\ r = Bytes(1, Allowed(received))
    /\ t <=> received > Allowed(received)

Received(s) == written[s] - Len(pipe[s])

\* A reader that is done has met the end of its stream, and the result is made of
\* what the readers hold when all of them are done.
ReadersInv ==
    /\ TypeInv
    /\ \A s \in Streams :
           Exact(written[s], Received(s), pipe[s], retained[s], truncated[s])
    /\ \A s \in Streams : done[s] => closed /\ pipe[s] = << >>
    /\ result # NoResult =>
           closed /\ (\A s \in Streams : done[s]) /\ result = Collected

\* What the limit leaves.
LEMMA AllowedProperties ==
    ASSUME limit \in Int, NEW n \in Nat
    PROVE  /\ Allowed(n) \in Nat /\ Allowed(n) <= n
           /\ \A k \in Nat : n <= k => Allowed(n) <= Allowed(k)
BY DEF Allowed, least

\* What a read of n bytes keeps of them is the run of bytes that the limit allows more.
LEMMA KeptIsAllowed ==
    ASSUME ReadersInv, NEW s \in Streams, NEW n \in Nat, n >= 1, n <= Len(pipe[s])
    PROVE  /\ Kept(s, n) = Bytes(Allowed(Received(s)) + 1, Allowed(Received(s) + n))
           /\ truncated[s] \/ Overflows(s, n) <=> Received(s) + n > Allowed(Received(s) + n)
<1> DEFINE R == Received(s)
           L == Len(pipe[s])
           held == Allowed(R)
<1>1. /\ limit \in Int /\ R \in Nat /\ R <= written[s] /\ written[s] \in Nat
      /\ pipe[s] = Bytes(R + 1, written[s]) /\ retained[s] = Bytes(1, held)
      /\ truncated[s] <=> R > held
  BY DEF ReadersInv, TypeInv, Exact
<1>2. L = written[s] - R
  <2>1. R + 1 \in Int /\ written[s] >= (R + 1) - 1 /\ written[s] - (R + 1) + 1 = written[s] - R
    BY <1>1
  <2>2. Len(Bytes(R + 1, written[s])) = written[s] - (R + 1) + 1
    <3> HIDE DEF R
    <3>1. R + 1 \in Int /\ written[s] \in Int
      BY <1>1
    <3> QED BY <2>1, <3>1, BytesProperties
  <2> QED BY <1>1, <2>1, <2>2
<1>3. held \in Nat /\ Len(retained[s]) = held
  <2>1. held \in Nat
    BY <1>1, AllowedProperties
  <2> HIDE DEF held
  <2>2. 1 \in Int /\ held \in Int /\ held >= 1 - 1 /\ held - 1 + 1 = held
    BY <2>1
  <2>3. Len(Bytes(1, held)) = held - 1 + 1
    BY <2>2, BytesProperties
  <2> QED BY <1>1, <2>1, <2>2, <2>3
<1> HIDE DEF R, L
<1>4. Kept(s, n) = IF limit - held > 0
                   THEN SubSeq(Bytes(R + 1, written[s]), 1, least(n, limit - held)) ELSE << >>
  BY <1>1, <1>3 DEF Kept
<1>5. Overflows(s, n) <=> n > limit - held
  BY <1>3 DEF Overflows
<1>6. \A x \in Int : Bytes(x + 1, x) = << >>
  BY DEF Bytes
<1>7. CASE limit <= held
  <2>1. Allowed(R + n) = held
    BY <1>1, <1>7 DEF Allowed, least, held
  <2>2. ~ (limit - held > 0)
    BY <1>1, <1>3, <1>7
  <2>3. Kept(s, n) = Bytes(held + 1, held)
    BY <1>3, <1>4, <1>6, <2>2
  <2>4. Overflows(s, n) /\ R + n > held
    <3>1. held <= R
      BY <1>1, AllowedProperties DEF held
    <3> QED BY <1>1, <1>3, <1>5, <1>7, <3>1
  <2> QED BY <2>1, <2>3, <2>4 DEF R, held
<1>8. CASE limit > held
  <2> DEFINE k == least(n, limit - R)
  <2>1. held = R /\ limit > R
    BY <1>1, <1>8 DEF Allowed, least, held
  <2>2. Allowed(R + n) = R + k
    BY <1>1, <2>1 DEF Allowed, least
  <2>3. k \in Nat /\ k >= 1 /\ k <= n
    BY <1>1, <2>1 DEF least
  <2> HIDE DEF k
  <2>4. SubSeq(Bytes(R + 1, written[s]), 1, k) = Bytes(R + 1, R + k)
    <3>1. /\ R + 1 \in Int /\ written[s] \in Int /\ written[s] >= (R + 1) - 1
          /\ 1 \in Int /\ k \in Int /\ 1 >= 1 /\ k >= 1 - 1 /\ k <= written[s] - (R + 1) + 1
          /\ (R + 1) + 1 - 1 = R + 1 /\ (R + 1) + k - 1 = R + k
      BY <1>1, <1>2, <2>3 DEF L
    <3>2. PICK x \in Int, y \in Int : x = R + 1 /\ y = written[s]
      BY <3>1
    <3>3. y >= x - 1 /\ k <= y - x + 1
      BY <1>1, <3>1, <3>2
    <3>4. SubSeq(Bytes(x, y), 1, k) = Bytes(x + 1 - 1, x + k - 1)
      <4>1. k \in Int /\ 1 \in Int /\ 1 >= 1 /\ k >= 1 - 1
        BY <3>1
      <4> QED BY <3>3, <4>1, BytesPart, ZenonT(60)
    <3> QED BY <3>1, <3>2, <3>4
  <2>5. limit - held > 0 /\ least(n, limit - held) = k
    BY <1>1, <2>1 DEF k
  <2>6. Kept(s, n) = Bytes(held + 1, Allowed(R + n))
    BY <1>4, <2>1, <2>2, <2>4, <2>5
  <2>7. Overflows(s, n) <=> R + n > R + k
    BY <1>1, <1>5, <2>1 DEF least, k
  <2>8. ~ truncated[s]
    BY <1>1, <2>1
  <2>9. truncated[s] \/ Overflows(s, n) <=> R + n > Allowed(R + n)
    BY <2>2, <2>7, <2>8
  <2> QED BY <2>6, <2>9 DEF R, held
<1> QED BY <1>1, <1>3, <1>7, <1>8

\* The facts of one stream.
LEMMA StreamFacts ==
    ASSUME ReadersInv, NEW s \in Streams
    PROVE  /\ limit \in Int /\ written[s] \in Nat /\ pipe[s] \in Seq(Int)
           /\ Len(pipe[s]) = written[s] - Received(s)
           /\ Received(s) \in Nat /\ Received(s) <= written[s]
           /\ pipe[s] = Bytes(Received(s) + 1, written[s])
           /\ retained[s] = Bytes(1, Allowed(Received(s)))
           /\ truncated[s] <=> Received(s) > Allowed(Received(s))
<1> DEFINE R == Received(s)
<1>1. /\ limit \in Int /\ R \in Nat /\ R <= written[s] /\ written[s] \in Nat
      /\ pipe[s] = Bytes(R + 1, written[s]) /\ retained[s] = Bytes(1, Allowed(R))
      /\ truncated[s] <=> R > Allowed(R)
      /\ pipe[s] \in Seq(Int)
  BY DEF ReadersInv, TypeInv, Exact
<1> HIDE DEF R
<1>2. /\ R + 1 \in Int /\ written[s] \in Int /\ written[s] >= (R + 1) - 1
      /\ written[s] - (R + 1) + 1 = written[s] - R
  BY <1>1
<1>3. Len(pipe[s]) = written[s] - R
  BY <1>1, <1>2, BytesProperties
<1> QED BY <1>1, <1>3 DEF R

\* What is left of the pipe after a read of n bytes.
LEMMA RestOfPipe ==
    ASSUME ReadersInv, NEW s \in Streams, NEW n \in Nat, n >= 1, n <= Len(pipe[s])
    PROVE  /\ SubSeq(pipe[s], n + 1, Len(pipe[s])) = Bytes(Received(s) + n + 1, written[s])
           /\ SubSeq(pipe[s], n + 1, Len(pipe[s])) \in Seq(Int)
           /\ Len(SubSeq(pipe[s], n + 1, Len(pipe[s]))) = written[s] - (Received(s) + n)
           /\ Received(s) + n <= written[s]
<1> DEFINE R == Received(s)
           L == Len(pipe[s])
           W == written[s]
<1>1. R \in Nat /\ W \in Nat /\ L = W - R /\ pipe[s] = Bytes(R + 1, W) /\ R + n <= W
  BY StreamFacts
<1> HIDE DEF R, L, W
<1>2. PICK x \in Int : x = R + 1
  BY <1>1
<1>3. PICK m \in Int : m = n + 1
  OBVIOUS
<1>4. W \in Int /\ L \in Int /\ W >= x - 1 /\ m >= 1 /\ L >= m - 1 /\ L <= W - x + 1
  BY <1>1, <1>2, <1>3
<1>5. SubSeq(Bytes(x, W), m, L) = Bytes(x + m - 1, x + L - 1)
  BY <1>4, BytesPart, ZenonT(60)
<1>6. x + m - 1 = R + n + 1 /\ x + L - 1 = W
  BY <1>1, <1>2, <1>3
<1>7. SubSeq(pipe[s], m, L) = Bytes(R + n + 1, W)
  BY <1>1, <1>2, <1>5, <1>6
<1>8. /\ R + n + 1 \in Int /\ W >= (R + n + 1) - 1
      /\ W - (R + n + 1) + 1 = W - (R + n)
  BY <1>1
<1>9. Bytes(R + n + 1, W) \in Seq(Int) /\ Len(Bytes(R + n + 1, W)) = W - (R + n)
  BY <1>4, <1>8, BytesProperties
<1> QED BY <1>1, <1>3, <1>7, <1>9 DEF R, L, W

\* A stream that a step leaves alone stays exact.
LEMMA StreamUntouched ==
    ASSUME ReadersInv, limit' = limit, NEW s \in Streams,
           written'[s] = written[s], pipe'[s] = pipe[s],
           retained'[s] = retained[s], truncated'[s] = truncated[s]
    PROVE  Exact(written[s], Received(s), pipe[s], retained[s], truncated[s])'
BY DEF ReadersInv, Exact, Allowed, Received

\* A command that writes.
LEMMA WriteStep ==
    ASSUME ReadersInv, NEW s \in Streams, NEW n \in 1 .. Capacity, Write(s, n)
    PROVE  ReadersInv'
<1> DEFINE R == Received(s)
           W == written[s]
           b == Bytes(W + 1, W + n)
<1>1. /\ limit \in Int /\ R \in Nat /\ W \in Nat /\ R <= W /\ n \in Nat /\ n >= 1
      /\ Len(pipe[s]) = W - R /\ pipe[s] = Bytes(R + 1, W) /\ pipe[s] \in Seq(Int)
      /\ retained[s] = Bytes(1, Allowed(R)) /\ (truncated[s] <=> R > Allowed(R))
  BY StreamFacts, OutputReaderAssumption
<1>2. /\ ~ closed /\ closed' = closed /\ limit' = limit /\ retained' = retained
      /\ truncated' = truncated /\ done' = done /\ result' = result
      /\ written' = [written EXCEPT ![s] = @ + n]
      /\ pipe' = [pipe EXCEPT ![s] = @ \o b]
  BY DEF Write
<1>3. written \in [Streams -> Nat] /\ pipe \in [Streams -> Seq(Int)]
  BY DEF ReadersInv, TypeInv
<1> HIDE DEF R, W, b
<1>4. b \in Seq(Int) /\ Len(b) = n
  <2>1. /\ W + 1 \in Int /\ W + n \in Int /\ W + n >= (W + 1) - 1
        /\ (W + n) - (W + 1) + 1 = n
    BY <1>1
  <2>2. b \in Seq(Int) /\ Len(b) = (W + n) - (W + 1) + 1
    BY <2>1, BytesProperties DEF b
  <2> QED BY <2>1, <2>2
<1>5. /\ pipe[s] \o b \in Seq(Int) /\ Len(pipe[s] \o b) = (W + n) - R
      /\ pipe[s] \o b = Bytes(R + 1, W + n)
  <2>1. Len(pipe[s] \o b) = (W + n) - R /\ pipe[s] \o b \in Seq(Int)
    <3>1. Len(pipe[s] \o b) = Len(pipe[s]) + Len(b) /\ pipe[s] \o b \in Seq(Int)
      <4>1. pipe[s] \in Seq(Int) /\ b \in Seq(Int)
        BY <1>1, <1>4
      <4> QED BY <4>1, ConcatProperties
    <3> QED BY <1>1, <1>4, <3>1
  <2>2. PICK x \in Int : x = R + 1
    BY <1>1
  <2>3. PICK z \in Int : z = W + n
    BY <1>1
  <2>4. W \in Int /\ W >= x - 1 /\ z >= W
    BY <1>1, <2>2, <2>3
  <2>5. Bytes(x, W) \o Bytes(W + 1, z) = Bytes(x, z)
    BY <2>4, BytesJoin
  <2> QED BY <1>1, <2>1, <2>2, <2>3, <2>5 DEF b
<1>6. TypeInv'
  <2>1. written' \in [Streams -> Nat]
    BY <1>1, <1>2, <1>3 DEF W
  <2>2. pipe' \in [Streams -> Seq(Int)]
    BY <1>2, <1>3, <1>5
  <2> QED BY <1>2, <2>1, <2>2 DEF ReadersInv, TypeInv
<1>7. ASSUME NEW t \in Streams
      PROVE  Exact(written[t], Received(t), pipe[t], retained[t], truncated[t])'
  <2>1. CASE t # s
    BY <1>2, <2>1, <1>3, StreamUntouched
  <2>2. CASE t = s
    <3>1. /\ written'[s] = W + n /\ pipe'[s] = pipe[s] \o b
          /\ retained'[s] = retained[s] /\ truncated'[s] = truncated[s]
      BY <1>2, <1>3 DEF W
    <3>2. Received(s)' = R
      <4>1. Received(s)' = (W + n) - ((W + n) - R)
        BY <1>5, <3>1 DEF Received
      <4> QED BY <1>1, <4>1
    <3> DEFINE p == pipe[s] \o b
               total == W + n
    <3>3. R \in Nat /\ R <= total
      BY <1>1
    <3>4. p = Bytes(R + 1, total) /\ pipe'[s] = p /\ written'[s] = total
      BY <1>5, <3>1
    <3>5. retained'[s] = Bytes(1, Allowed(R)) /\ (truncated'[s] <=> R > Allowed(R))
      <4>1. retained[s] = Bytes(1, Allowed(R)) /\ (truncated[s] <=> R > Allowed(R))
        BY <1>1
      <4>2. retained'[s] = retained[s] /\ truncated'[s] = truncated[s]
        BY <3>1
      <4> QED BY <4>1, <4>2, Zenon
    <3> HIDE DEF p, total
    <3> QED BY <1>2, <2>2, <3>2, <3>3, <3>4, <3>5 DEF Exact, Allowed
  <2> QED BY <2>1, <2>2
<1>8. \A t \in Streams : ~ done[t]
  BY <1>2 DEF ReadersInv
<1>9. result = NoResult
  BY <1>2 DEF ReadersInv
<1> QED BY <1>2, <1>6, <1>7, <1>8, <1>9 DEF ReadersInv

\* A reader that reads.
LEMMA ReadStep ==
    ASSUME ReadersInv, NEW s \in Streams, NEW n \in 1 .. Chunk, Read(s, n)
    PROVE  ReadersInv'
<1> DEFINE R == Received(s)
           W == written[s]
           p == SubSeq(pipe[s], n + 1, Len(pipe[s]))
           r == retained[s] \o Kept(s, n)
           x == truncated[s] \/ Overflows(s, n)
<1>1. /\ n \in Nat /\ n >= 1 /\ n <= Len(pipe[s])
      /\ ~ done[s] /\ closed' = closed /\ limit' = limit /\ written' = written
      /\ done' = done /\ result' = result
      /\ retained' = [retained EXCEPT ![s] = r]
      /\ truncated' = [truncated EXCEPT ![s] = x]
      /\ pipe' = [pipe EXCEPT ![s] = p]
  BY OutputReaderAssumption DEF Read
<1>2. /\ limit \in Int /\ R \in Nat /\ W \in Nat /\ R <= W
      /\ retained[s] = Bytes(1, Allowed(R))
  BY StreamFacts
<1>3. /\ p = Bytes(R + n + 1, W) /\ p \in Seq(Int) /\ Len(p) = W - (R + n) /\ R + n <= W
  BY <1>1, RestOfPipe
<1>4. /\ Kept(s, n) = Bytes(Allowed(R) + 1, Allowed(R + n))
      /\ x <=> R + n > Allowed(R + n)
  BY <1>1, KeptIsAllowed
<1>5. /\ pipe \in [Streams -> Seq(Int)] /\ retained \in [Streams -> Seq(Int)]
      /\ truncated \in [Streams -> BOOLEAN]
  BY DEF ReadersInv, TypeInv
<1>6. x \in BOOLEAN
  BY DEF x
<1> HIDE DEF R, W, p, r, x
<1>7. r = Bytes(1, Allowed(R + n)) /\ r \in Seq(Int)
  <2>1. /\ Allowed(R) \in Nat /\ Allowed(R + n) \in Nat /\ Allowed(R) <= Allowed(R + n)
    <3>1. R + n \in Nat /\ R <= R + n
      BY <1>1, <1>2
    <3> QED BY <1>2, <3>1, AllowedProperties
  <2>2. PICK y \in Int : y = Allowed(R)
    BY <2>1
  <2>3. PICK z \in Int : z = Allowed(R + n)
    BY <2>1
  <2>4. 1 \in Int /\ y >= 1 - 1 /\ z >= y /\ z >= 1 - 1
    BY <2>1, <2>2, <2>3
  <2>5. Bytes(1, y) \o Bytes(y + 1, z) = Bytes(1, z)
    BY <2>4, BytesJoin
  <2>6. Bytes(1, z) \in Seq(Int)
    BY <2>4, BytesProperties
  <2> QED BY <1>2, <1>4, <2>2, <2>3, <2>5, <2>6 DEF r
<1>8. TypeInv'
  <2>1. pipe' \in [Streams -> Seq(Int)] /\ retained' \in [Streams -> Seq(Int)]
    BY <1>1, <1>3, <1>5, <1>7
  <2>2. truncated' \in [Streams -> BOOLEAN]
    BY <1>1, <1>5, <1>6
  <2> QED BY <1>1, <2>1, <2>2 DEF ReadersInv, TypeInv
<1>9. ASSUME NEW t \in Streams
      PROVE  Exact(written[t], Received(t), pipe[t], retained[t], truncated[t])'
  <2>1. CASE t # s
    BY <1>1, <1>5, <2>1, StreamUntouched
  <2>2. CASE t = s
    <3>1. /\ written'[s] = W /\ pipe'[s] = p /\ retained'[s] = r /\ truncated'[s] = x
      BY <1>1, <1>5 DEF W
    <3>2. Received(s)' = R + n
      <4>1. Received(s)' = W - (W - (R + n))
        BY <1>3, <3>1 DEF Received
      <4> QED BY <1>1, <1>2, <4>1
    <3>3. R + n \in Nat
      BY <1>1, <1>2
    <3>4. p = Bytes((R + n) + 1, W)
      BY <1>3
    <3> DEFINE k == R + n
    <3>5. /\ k \in Nat /\ k <= W /\ p = Bytes(k + 1, W) /\ Received(s)' = k
          /\ r = Bytes(1, Allowed(k)) /\ (x <=> k > Allowed(k))
      BY <1>3, <1>4, <1>7, <3>2, <3>3, <3>4
    <3> HIDE DEF k
    <3> QED BY <1>1, <2>2, <3>1, <3>5 DEF Exact, Allowed
  <2> QED BY <2>1, <2>2
<1>10. \A t \in Streams : done'[t] => closed' /\ pipe'[t] = << >>
  BY <1>1, <1>5 DEF ReadersInv
<1>11. result = NoResult
  BY <1>1 DEF ReadersInv
<1> QED BY <1>1, <1>8, <1>9, <1>10, <1>11 DEF ReadersInv

\* The steps that touch no stream.
LEMMA OtherSteps ==
    ASSUME ReadersInv, Close \/ (\E s \in Streams : Eof(s)) \/ Collect \/ UNCHANGED readersVars
    PROVE  ReadersInv'
<1>1. /\ limit' = limit /\ written' = written /\ pipe' = pipe
      /\ retained' = retained /\ truncated' = truncated
  BY DEF Close, Eof, Collect, readersVars
<1>2. \A s \in Streams :
          Exact(written[s], Received(s), pipe[s], retained[s], truncated[s])'
  BY <1>1, StreamUntouched
<1>3. done \in [Streams -> BOOLEAN] /\ closed \in BOOLEAN
  BY DEF ReadersInv, TypeInv
<1>4. Collected' = Collected
  BY <1>1 DEF Collected
<1>5. CASE Close
  <2>1. closed' = TRUE /\ ~ closed /\ done' = done /\ result' = result
    BY <1>5 DEF Close
  <2>2. TypeInv'
    BY <1>1, <2>1 DEF ReadersInv, TypeInv
  <2>3. result = NoResult /\ \A s \in Streams : ~ done[s]
    BY <2>1 DEF ReadersInv
  <2> QED BY <1>2, <2>1, <2>2, <2>3 DEF ReadersInv
<1>6. CASE \E s \in Streams : Eof(s)
  <2>1. PICK s \in Streams : Eof(s)
    BY <1>6
  <2>2. /\ ~ done[s] /\ closed /\ closed' = closed /\ pipe[s] = << >> /\ result' = result
        /\ done' = [done EXCEPT ![s] = TRUE]
    BY <2>1 DEF Eof
  <2>3. TypeInv'
    BY <1>1, <1>3, <2>2 DEF ReadersInv, TypeInv
  <2>4. result = NoResult
    BY <2>2 DEF ReadersInv
  <2>5. \A t \in Streams : done'[t] => closed' /\ pipe'[t] = << >>
    BY <1>1, <1>3, <2>2 DEF ReadersInv
  <2> QED BY <1>2, <2>2, <2>3, <2>4, <2>5 DEF ReadersInv
<1>7. CASE Collect
  <2>1. /\ closed /\ closed' = closed /\ done' = done /\ result' = Collected
        /\ \A s \in Streams : done[s]
    BY <1>7 DEF Collect
  <2>2. TypeInv'
    BY <1>1, <2>1 DEF ReadersInv, TypeInv
  <2>3. \A s \in Streams : done'[s] => closed' /\ pipe'[s] = << >>
    BY <1>1, <2>1 DEF ReadersInv
  <2> QED BY <1>2, <1>4, <2>1, <2>2, <2>3 DEF ReadersInv
<1>8. CASE UNCHANGED readersVars
  <2>1. closed' = closed /\ done' = done /\ result' = result
    BY <1>8 DEF readersVars
  <2>2. TypeInv'
    BY <1>1, <2>1 DEF ReadersInv, TypeInv
  <2> QED BY <1>1, <1>2, <1>4, <2>1, <2>2 DEF ReadersInv
<1> QED BY <1>5, <1>6, <1>7, <1>8

\* Nothing has been written yet.
LEMMA InitReadersInv == ReadersInit => ReadersInv
<1> SUFFICES ASSUME ReadersInit PROVE ReadersInv
  OBVIOUS
<1>1. TypeInv
  <2>1. << >> \in Seq(Int)
    OBVIOUS
  <2> QED BY <2>1, OutputReaderAssumption DEF ReadersInit, TypeInv
<1>2. ASSUME NEW s \in Streams
      PROVE  Exact(written[s], Received(s), pipe[s], retained[s], truncated[s])
  <2>1. /\ written[s] = 0 /\ pipe[s] = << >> /\ retained[s] = << >> /\ truncated[s] = FALSE
    BY DEF ReadersInit
  <2>2. Received(s) = 0
    <3>1. Len(pipe[s]) = 0
      BY <2>1
    <3>2. Received(s) = written[s] - Len(pipe[s])
      BY DEF Received
    <3>3. written[s] = 0
      BY <2>1
    <3> QED BY <3>1, <3>2, <3>3
  <2>3. Allowed(0) = 0
    BY <1>1 DEF Allowed, least, TypeInv
  <2>4. Bytes(1, 0) = << >> /\ Bytes(0 + 1, 0) = << >>
    BY DEF Bytes
  <2> QED BY <2>1, <2>2, <2>3, <2>4 DEF Exact
<1> QED BY <1>1, <1>2 DEF ReadersInv, ReadersInit

\* It is an invariant.
LEMMA NextReadersInv == ReadersInv /\ [ReadersNext]_readersVars => ReadersInv'
<1> SUFFICES ASSUME ReadersInv, [ReadersNext]_readersVars PROVE ReadersInv'
  OBVIOUS
<1>1. CASE ReadersNext
  BY <1>1, WriteStep, ReadStep, OtherSteps DEF ReadersNext
<1>2. CASE UNCHANGED readersVars
  BY <1>2, OtherSteps
<1> QED BY <1>1, <1>2

-----------------------------------------------------------------------------
\* At every moment a reader holds exactly the first bytes of what it has read, up to
\* the limit, and says truncated just when it has dropped any.
THEOREM ReadersAreExact == ReadersSpec => []ReaderExact
<1>1. ReadersInv => ReaderExact
  BY DEF ReadersInv, Exact, Received, ReaderExact
<1> QED BY <1>1, InitReadersInv, NextReadersInv, PTL DEF ReadersSpec

\* The result accounts for every byte the command has written to any stream.
THEOREM ResultIsComplete == ReadersSpec => []ResultComplete
<1>1. ReadersInv => ResultComplete
  <2> SUFFICES ASSUME ReadersInv, result # NoResult PROVE ResultComplete
    BY DEF ResultComplete
  <2>1. /\ result.output = retained
        /\ result.truncated <=> \E s \in Streams : truncated[s]
    <3>1. result = Collected
      BY DEF ReadersInv
    <3>2. Collected.output = retained /\ Collected.truncated = \E s \in Streams : truncated[s]
      BY ZenonT(30) DEF Collected
    <3> QED BY <3>1, <3>2
  <2>2. ASSUME NEW s \in Streams
        PROVE  /\ retained[s] = Bytes(1, Allowed(written[s]))
               /\ truncated[s] <=> written[s] > Allowed(written[s])
    <3>1. pipe[s] = << >>
      BY DEF ReadersInv
    <3>2. Len(pipe[s]) = 0
      BY <3>1
    <3>3. Received(s) = written[s]
      BY <3>2, StreamFacts
    <3> QED BY <3>3, StreamFacts
  <2> QED BY <2>1, <2>2 DEF ResultComplete
<1> QED BY <1>1, InitReadersInv, NextReadersInv, PTL DEF ReadersSpec
=============================================================================
