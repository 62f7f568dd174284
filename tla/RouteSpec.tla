----------------------------- MODULE RouteSpec -----------------------------
(***************************************************************************)
(* What ModelRouter.route promises its callers, whatever quotas, circuits   *)
(* and other jobs do to it: a job ends once, with an answer or an error that*)
(* lists the attempts made; an answer is on the usage ledger exactly once   *)
(* and an error never; candidates are tried in their order, a model again   *)
(* only after a transient error and within its retries, and a provider that *)
(* refused the job not at all.  Which candidates are skipped is left open.   *)
(***************************************************************************)
EXTENDS Integers, Sequences

CONSTANTS
    Jobs,         \* route() calls
    Models,       \* model ids
    Providers,    \* provider ids
    ProviderOf,   \* the provider of each model
    MaxRetries,   \* max_retries of each model
    Candidates,   \* the candidates of each job, in order
    Transient,    \* outcomes after which the same model may be tried again
    Refusals,     \* outcomes with which a provider refuses the job
    Permanent     \* failures of neither kind

\* What the theorems about this module (RouteSpecProofs) assume of the constants.
RouteAssumption ==
    /\ ProviderOf \in [Models -> Providers]
    /\ MaxRetries \in [Models -> Int]
    /\ Candidates \in [Jobs -> Seq(Models)]
    /\ "success" \notin Transient \cup Refusals \cup Permanent

VARIABLES
    status,     \* how far each job is
    attempts,   \* its finished calls, as the RouterResult or the error lists them
    billed      \* the usage ledger: the job and the model of each record, in order

vars == << status, attempts, billed >>

Failures == Transient \cup Refusals \cup Permanent
Status == {"asked", "working", "answered", "failed", "ineligible", "cancelled"}
AttemptRecord == [model : Models, number : Nat, outcome : Failures \cup {"success"}]

Init ==
    /\ status = [j \in Jobs |-> "asked"]
    /\ attempts = [j \in Jobs |-> << >>]
    /\ billed = << >>

LastOf(j) == attempts[j][Len(attempts[j])]

PositionOf(j, m) == CHOOSE i \in 1 .. Len(Candidates[j]) : Candidates[j][i] = m

\* The call with this number to model m may come next in job j: it repeats the
\* last one after a transient error, or it is the first to a later candidate.
Follows(j, m, number) ==
    IF attempts[j] = << >> THEN number = 1
    ELSE \/ /\ LastOf(j).model = m
            /\ LastOf(j).outcome \in Transient
            /\ number = LastOf(j).number + 1
         \/ /\ PositionOf(j, LastOf(j).model) < PositionOf(j, m)
            /\ number = 1

Refused(j, p) ==
    \E k \in 1 .. Len(attempts[j]) :
        /\ attempts[j][k].outcome \in Refusals
        /\ ProviderOf[attempts[j][k].model] = p

MayCall(j, m, number) ==
    /\ \E i \in 1 .. Len(Candidates[j]) : Candidates[j][i] = m
    /\ Follows(j, m, number)
    /\ number <= MaxRetries[m] + 1
    /\ ~ Refused(j, ProviderOf[m])

Listed(j, m, number, outcome) ==
    attempts' = [attempts EXCEPT
        ![j] = Append(@, [model |-> m, number |-> number, outcome |-> outcome])]

Begin(j) ==
    /\ status[j] = "asked"
    /\ Candidates[j] # << >>
    /\ status' = [status EXCEPT ![j] = "working"]
    /\ UNCHANGED << attempts, billed >>

\* There is no candidate.
Reject(j) ==
    /\ status[j] = "asked"
    /\ Candidates[j] = << >>
    /\ status' = [status EXCEPT ![j] = "ineligible"]
    /\ UNCHANGED << attempts, billed >>

\* The call that was in flight ends; an error may be the last one of the job.
Succeed(j, m, number) ==
    /\ status[j] = "working"
    /\ MayCall(j, m, number)
    /\ Listed(j, m, number, "success")
    /\ billed' = Append(billed, [job |-> j, model |-> m])
    /\ status' = [status EXCEPT ![j] = "answered"]

Fail(j, m, number, error, next) ==
    /\ status[j] = "working"
    /\ MayCall(j, m, number)
    /\ Listed(j, m, number, error)
    /\ status' = [status EXCEPT ![j] = next]
    /\ UNCHANGED billed

\* No candidate is left that can be called.
GiveUp(j) ==
    /\ status[j] \in {"asked", "working"}
    /\ Candidates[j] # << >>
    /\ status' = [status EXCEPT ![j] = "failed"]
    /\ UNCHANGED << attempts, billed >>

Cancel(j) ==
    /\ status[j] = "working"
    /\ status' = [status EXCEPT ![j] = "cancelled"]
    /\ UNCHANGED << attempts, billed >>

Call(j, m, number) ==
    \/ Succeed(j, m, number)
    \/ \E error \in Failures, next \in {"working", "failed"} : Fail(j, m, number, error, next)

\* The number of a call is one or the next one.
Next ==
    \E j \in Jobs :
        \/ Begin(j) \/ Reject(j) \/ GiveUp(j) \/ Cancel(j)
        \/ \E i \in 1 .. Len(Candidates[j]) :
               \E number \in {1} \cup { attempts[j][k].number + 1 : k \in 1 .. Len(attempts[j]) } :
                   Call(j, Candidates[j][i], number)

Spec == Init /\ [][Next]_vars

-----------------------------------------------------------------------------
(* What follows from it.                                                    *)

RecordsOf(j) == { i \in 1 .. Len(billed) : billed[i].job = j }

\* The ledger has exactly one record for a job that was answered, of the model
\* that answered it, and none for any other job.
OneRecordPerSuccess ==
    \A j \in Jobs :
        IF status[j] = "answered"
        THEN /\ attempts[j] # << >>
             /\ LastOf(j).outcome = "success"
             /\ \E i \in RecordsOf(j) :
                    RecordsOf(j) = {i} /\ billed[i].model = LastOf(j).model
        ELSE RecordsOf(j) = {}

\* A job goes through its candidates in their order and never back; it calls a
\* model again only after a transient error, max_retries times at most; it does
\* not call a provider again that refused it; nothing follows a success.
FailoverDiscipline ==
    \A j \in Jobs : \A k \in 1 .. Len(attempts[j]) :
        LET attempt == attempts[j][k]
        IN  /\ attempt.number \in 1 .. MaxRetries[attempt.model] + 1
            /\ \A l \in k + 1 .. Len(attempts[j]) :
                   LET later == attempts[j][l]
                   IN  /\ PositionOf(j, attempt.model) <= PositionOf(j, later.model)
                       /\ later.model = attempt.model =>
                              /\ attempt.outcome \in Transient
                              /\ attempt.number < later.number
                       /\ attempt.outcome \in Refusals =>
                              ProviderOf[later.model] # ProviderOf[attempt.model]
                       /\ attempt.outcome # "success"
=============================================================================
