----------------------------- MODULE Execution -----------------------------
(***************************************************************************)
(* VerificationWorker.verify and DockerSandboxExecutor.execute              *)
(* (execution.py): workers run the commands of their pipelines one after    *)
(* another, each in a container of its own, which three parties handle at   *)
(* once: the executor, the `docker run' client it spawned, and the daemon.  *)
(* On a timeout the executor spawns `docker rm --force', waits for it at    *)
(* most ten seconds and then kills the client.                              *)
(*                                                                         *)
(* Client and daemon are not part of the repository; they are modelled from *)
(* how the executor uses them: `docker run --rm' asks the daemon to create  *)
(* the container, then to start it, and exits once it has ended and been    *)
(* removed; a client that is killed asks for nothing more, and the daemon   *)
(* does not notice.  What the readers of the output do is in OutputReader.  *)
(***************************************************************************)
EXTENDS ExecutionOps

CONSTANTS
    Workers,     \* verify() calls
    Pipeline,    \* the requests of each worker; name is the container name of one
    Policy,      \* the SandboxPolicy
    Names,       \* container names, one for each request_id
    NoCode       \* exit_code None

ASSUME ExecutionAssumption ==
    /\ \A w \in Workers : Len(Pipeline[w]) \in Nat
    /\ \A w \in Workers : \A k \in 1 .. Len(Pipeline[w]) : Pipeline[w][k].name \in Names
    /\ NoCode \notin Int

VARIABLES
    phase,       \* where each worker is
    step,        \* the number of the request it is at
    results,     \* the ExecutionResults of each worker
    client,      \* its docker client: [status, code]
    removal,     \* its docker rm --force
    container,   \* the daemon's container of each name
    ended        \* history: steps whose command ended by itself, with its code

vars == << phase, step, results, client, removal, container, ended >>

Executing == {"waiting", "removing", "draining"}
Over == {"reported", "raised", "cancelled"}
Dead == {"exited", "killed"}

\* The step worker w is at, and its container's name.
Step(w) == << w, step[w] >>
Name(w) == Pipeline[w][step[w]].name

NoContainer == [status |-> "absent", owner |-> << >>]

Owns(w, n) == container[n].owner = Step(w)

ClientAt(w, status, code) ==
    client' = [client EXCEPT ![w] = [status |-> status, code |-> code]]

Init ==
    /\ phase = [w \in Workers |-> "idle"]
    /\ step = [w \in Workers |-> 0]
    /\ results = [w \in Workers |-> << >>]
    /\ client = [w \in Workers |-> [status |-> "none", code |-> NoCode]]
    /\ removal = [w \in Workers |-> "none"]
    /\ container = [n \in Names |-> NoContainer]
    /\ ended = {}

-----------------------------------------------------------------------------
(* The worker and the executor.                                             *)

\* Faulty variant: the loop runs past the last request.
LaunchPast(w) ==
    /\ phase[w] = "idle"
    /\ step[w] <= Len(Pipeline[w])
    /\ phase' = [phase EXCEPT ![w] = "waiting"]
    /\ step' = [step EXCEPT ![w] = @ + 1]
    /\ ClientAt(w, "preparing", NoCode)
    /\ removal' = [removal EXCEPT ![w] = "none"]
    /\ UNCHANGED << results, container, ended >>

\* execute, up to the wait for the client.
Launch(w) ==
    /\ phase[w] = "idle"
    /\ step[w] < Len(Pipeline[w])
    /\ Permitted(Policy, Pipeline[w][step[w] + 1])
    /\ phase' = [phase EXCEPT ![w] = "waiting"]
    /\ step' = [step EXCEPT ![w] = @ + 1]
    /\ ClientAt(w, "preparing", NoCode)
    /\ removal' = [removal EXCEPT ![w] = "none"]
    /\ UNCHANGED << results, container, ended >>

\* The policy refuses the request, or docker cannot be spawned: verify raises.
Refuse(w) ==
    /\ phase[w] = "idle"
    /\ step[w] < Len(Pipeline[w])
    /\ phase' = [phase EXCEPT ![w] = "raised"]
    /\ UNCHANGED << step, results, client, removal, container, ended >>

\* process.wait() returns in time.
Exited(w) ==
    /\ phase[w] = "waiting"
    /\ client[w].status = "exited"
    /\ phase' = [phase EXCEPT ![w] = "draining"]
    /\ UNCHANGED << step, results, client, removal, container, ended >>

\* The request's timeout expires; docker rm is spawned, or cannot be.
Timeout(w) ==
    /\ phase[w] = "waiting"
    /\ \/ /\ phase' = [phase EXCEPT ![w] = "removing"]
          /\ removal' = [removal EXCEPT ![w] = "requested"]
       \/ /\ phase' = [phase EXCEPT ![w] = "raised"]
          /\ UNCHANGED removal
    /\ UNCHANGED << step, results, client, container, ended >>

\* Faulty variant: the removal is thought to be enough.
AfterRemovalUnkilled(w) ==
    /\ phase[w] = "removing"
    /\ phase' = [phase EXCEPT ![w] = "draining"]
    /\ removal' = [removal EXCEPT ![w] = IF @ = "requested" THEN "abandoned" ELSE @]
    /\ UNCHANGED << step, results, client, container, ended >>

\* docker rm has ended, or has taken ten seconds and is killed (the daemon may
\* still act on what it asked); then the client is killed, if it still runs.
AfterRemoval(w) ==
    /\ phase[w] = "removing"
    /\ phase' = [phase EXCEPT ![w] = "draining"]
    /\ removal' = [removal EXCEPT ![w] = IF @ = "requested" THEN "abandoned" ELSE @]
    /\ IF client[w].status = "exited" THEN UNCHANGED client
                                      ELSE ClientAt(w, "killed", NoCode)
    /\ UNCHANGED << step, results, container, ended >>

\* Faulty variant: any command that ends in time has succeeded.
SucceededInTime(result) == ~ result.timedOut

Succeeded(result) == ~ result.timedOut /\ result.code = 0

Result(w) ==
    LET timedOut == removal[w] # "none"
    IN  [timedOut |-> timedOut, code |-> IF timedOut THEN NoCode ELSE client[w].code]

\* VerificationReport.succeeded.
ReportSucceeded(w) ==
    /\ results[w] # << >>
    /\ \A k \in 1 .. Len(results[w]) : Succeeded(results[w][k])

\* Faulty variant: verify goes on after a failure.
FinishAnyway(w) ==
    /\ phase[w] = "draining"
    /\ client[w].status \in Dead
    /\ results' = [results EXCEPT ![w] = Append(@, Result(w))]
    /\ phase' = [phase EXCEPT ![w] = "idle"]
    /\ UNCHANGED << step, client, removal, container, ended >>

\* The client is gone, so its pipes are at their end and both readers return.
\* verify stops at the first failure.
Finish(w) ==
    /\ phase[w] = "draining"
    /\ client[w].status \in Dead
    /\ results' = [results EXCEPT ![w] = Append(@, Result(w))]
    /\ phase' = [phase EXCEPT ![w] = IF Succeeded(Result(w)) THEN "idle" ELSE "reported"]
    /\ UNCHANGED << step, client, removal, container, ended >>

\* The loop over the requests ends.
Complete(w) ==
    /\ phase[w] = "idle"
    /\ step[w] = Len(Pipeline[w])
    /\ phase' = [phase EXCEPT ![w] = "reported"]
    /\ UNCHANGED << step, results, client, removal, container, ended >>

\* The task is cancelled: execute catches nothing and cleans nothing up.
Cancel(w) ==
    /\ phase[w] \in Executing
    /\ phase' = [phase EXCEPT ![w] = "cancelled"]
    /\ UNCHANGED << step, results, client, removal, container, ended >>

-----------------------------------------------------------------------------
(* The docker client and the daemon.                                        *)

\* The container is created, or the client gives up: the name is taken (125),
\* or there is no such image.
Create(w) ==
    /\ client[w].status = "preparing"
    /\ \/ /\ container[Name(w)].status = "absent"
          /\ container' = [container EXCEPT ![Name(w)] =
                              [status |-> "created", owner |-> Step(w)]]
          /\ ClientAt(w, "starting", NoCode)
       \/ /\ ClientAt(w, "exited", 125)
          /\ UNCHANGED container
    /\ UNCHANGED << phase, step, results, removal, ended >>

\* The client has it started, unless it was removed in between.
StartContainer(w) ==
    /\ client[w].status = "starting"
    /\ IF Owns(w, Name(w))
       THEN /\ container' = [container EXCEPT ![Name(w)].status = "running"]
            /\ ClientAt(w, "attached", NoCode)
       ELSE /\ ClientAt(w, "exited", 125)
            /\ UNCHANGED container
    /\ UNCHANGED << phase, step, results, removal, ended >>

\* The command ends with a code; --rm removes the container.  The client, when
\* there still is one, exits with the same code.
EndContainer(n, code) ==
    /\ container[n].status = "running"
    /\ container' = [container EXCEPT ![n] = NoContainer]
    /\ ended' = ended \cup {[step |-> container[n].owner, code |-> code]}
    /\ LET w == container[n].owner[1]
       IN  IF client[w].status = "attached" /\ Owns(w, n)
           THEN ClientAt(w, "exited", code)
           ELSE UNCHANGED client
    /\ UNCHANGED << phase, step, results, removal >>

\* Faulty variant: docker rm without --force does not remove what runs.
RemoveStopped(w) ==
    /\ removal[w] \in {"requested", "abandoned"}
    /\ IF container[Name(w)].status = "absent"
       THEN removal' = [removal EXCEPT ![w] = "missed"]
       ELSE removal' = [removal EXCEPT ![w] = "removed"]
    /\ container' = [container EXCEPT ![Name(w)] =
                        IF @.status = "running" THEN @ ELSE NoContainer]
    /\ UNCHANGED << phase, step, results, client, ended >>

\* The daemon acts on docker rm --force: whatever container has the name is
\* removed, dead or alive, and its client exits with 137.
ForceRemove(w) ==
    /\ removal[w] \in {"requested", "abandoned"}
    /\ IF container[Name(w)].status = "absent"
       THEN removal' = [removal EXCEPT ![w] = "missed"] /\ UNCHANGED << container, client >>
       ELSE /\ removal' = [removal EXCEPT ![w] = "removed"]
            /\ container' = [container EXCEPT ![Name(w)] = NoContainer]
            /\ LET v == container[Name(w)].owner[1]
               IN  IF client[v].status = "attached" THEN ClientAt(v, "exited", 137)
                                                    ELSE UNCHANGED client
    /\ UNCHANGED << phase, step, results, ended >>

-----------------------------------------------------------------------------
Next ==
    \/ \E w \in Workers :
           \/ Launch(w) \/ Refuse(w) \/ Exited(w) \/ Timeout(w) \/ AfterRemoval(w)
           \/ Finish(w) \/ Complete(w) \/ Cancel(w)
           \/ Create(w) \/ StartContainer(w) \/ ForceRemove(w)
    \/ \E n \in Names, code \in {0, 1} : EndContainer(n, code)

Spec == Init /\ [][Next]_vars

\* The event loop runs the worker, wait_for bounds both waits, a killed process
\* dies.  Nothing is assumed of docker: an image may never come, a command may
\* never end, a removal may hang.
FairSpec ==
    /\ Spec
    /\ \A w \in Workers :
           /\ WF_vars(Launch(w) \/ Refuse(w)) /\ WF_vars(Timeout(w)) /\ WF_vars(AfterRemoval(w))
           /\ WF_vars(Finish(w)) /\ WF_vars(Complete(w))

-----------------------------------------------------------------------------
(* Properties.                                                              *)

Steps == Workers \X Nat
ExecutionResult == [timedOut : BOOLEAN, code : Int \cup {NoCode}]

\* Every variable has its type, and a worker is at one of its requests.
TypeOK ==
    /\ phase \in [Workers -> {"idle"} \cup Executing \cup Over]
    /\ step \in [Workers -> Nat]
    /\ \A w \in Workers : step[w] <= Len(Pipeline[w]) /\ Len(results[w]) <= step[w]
    /\ results \in [Workers -> Seq(ExecutionResult)]
    /\ client \in [Workers -> [status : {"none", "preparing", "starting", "attached"} \cup Dead,
                               code : Int \cup {NoCode}]]
    /\ removal \in [Workers -> {"none", "requested", "abandoned", "removed", "missed"}]
    /\ container \in [Names -> {NoContainer} \cup
                                [status : {"created", "running"}, owner : Steps]]
    /\ ended \subseteq [step : Steps, code : Int]

Owner(n) == container[n].owner

\* The steps of a pipeline share a writable workspace: as long as verify goes on,
\* no container of an earlier step is left that could still write to it.
StepsDoNotOverlap ==
    \A w \in Workers, n \in Names :
        (phase[w] \notin Over /\ container[n].status # "absent" /\ Owner(n)[1] = w)
            => Owner(n) = Step(w)

\* A report that says succeeded: every command of the pipeline has run to its own
\* end with exit code 0, none of them cut short, skipped or taken for another; and
\* each ran in the directory of a job, with a timeout that the policy bounds.
SuccessIsReal ==
    \A w \in Workers :
        (phase[w] = "reported" /\ ReportSucceeded(w))
            => \A k \in 1 .. Len(Pipeline[w]) :
                   /\ [step |-> << w, k >>, code |-> 0] \in ended
                   /\ Pipeline[w][k].workspace = "job"
                   /\ 0 < Pipeline[w][k].timeout /\ Pipeline[w][k].timeout <= Policy.maxTimeout

\* A container outlives the timeout of its step only when the removal came before
\* it was there, or hung, or when another pipeline uses the same request_id.
OrphanOnlyIfMissed ==
    \A w \in Workers, n \in Names :
        (/\ phase[w] = "reported"
         /\ removal[w] # "none"
         /\ Owner(n) = Step(w)
         /\ \A v \in Workers \ {w} : \A k \in 1 .. Len(Pipeline[v]) : Pipeline[v][k].name # n)
        => removal[w] \in {"missed", "abandoned"}

\* Every verify ends, whatever docker does or leaves undone.
VerifyEnds == \A w \in Workers : <>(phase[w] \in Over)

-----------------------------------------------------------------------------
(* What the documents say and the code does not do.                         *)

\* README: containers with "forced timeout cleanup"; the test of it is called
\* test_timeout_force_removes_container.  When the daemon has answered the removal
\* and execute has returned, no container of a step that timed out runs.
NoContainerAfterTimeout ==
    \A w \in Workers, n \in Names :
        (phase[w] = "reported" /\ removal[w] \in {"removed", "missed"})
            => ~ (container[n].status = "running" /\ Owner(n) = Step(w))
=============================================================================
