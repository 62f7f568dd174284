-------------------------- MODULE RouteSpecProofs --------------------------
(***************************************************************************)
(* What a caller of route() may rely on follows from RouteSpec, for all     *)
(* jobs, models and candidates: a run shows that Router implements it.      *)
(***************************************************************************)
EXTENDS RouteSpec, TLAPS

TypeOK ==
    /\ status \in [Jobs -> Status]
    /\ attempts \in [Jobs -> Seq(AttemptRecord)]
    /\ billed \in Seq([job : Jobs, model : Models])

Offered(j, m) == \E i \in 1 .. Len(Candidates[j]) : Candidates[j][i] = m

\* Only candidates were called, and nothing has succeeded while the job goes on.
Progress ==
    \A j \in Jobs : \A k \in 1 .. Len(attempts[j]) :
        /\ Offered(j, attempts[j][k].model)
        /\ attempts[j][k].outcome = "success" => status[j] = "answered"

IInv == TypeOK /\ Progress /\ OneRecordPerSuccess /\ FailoverDiscipline

\* The position of a candidate is a place in the list.
LEMMA PositionType ==
    ASSUME RouteAssumption, NEW j \in Jobs, NEW m, Offered(j, m)
    PROVE  PositionOf(j, m) \in 1 .. Len(Candidates[j])
  BY DEF RouteAssumption, Offered, PositionOf

\* The attempt behind the last one keeps to the discipline.
LEMMA NextAttempt ==
    ASSUME RouteAssumption, IInv, NEW j \in Jobs, NEW m \in Models, NEW number,
           MayCall(j, m, number), status[j] = "working",
           NEW k \in 1 .. Len(attempts[j])
    PROVE  /\ PositionOf(j, attempts[j][k].model) <= PositionOf(j, m)
           /\ m = attempts[j][k].model =>
                  attempts[j][k].outcome \in Transient /\ attempts[j][k].number < number
           /\ attempts[j][k].outcome \in Refusals =>
                  ProviderOf[m] # ProviderOf[attempts[j][k].model]
           /\ attempts[j][k].outcome # "success"
<1> DEFINE a == attempts[j]
           n == Len(a)
<1>1. a \in Seq(AttemptRecord) /\ n \in Nat /\ a # << >> /\ k \in 1 .. n /\ n \in 1 .. n
  BY DEF IInv, TypeOK
<1>2. a[k] \in AttemptRecord /\ a[n] \in AttemptRecord
  BY <1>1
<1>3. /\ PositionOf(j, a[k].model) \in Int
      /\ PositionOf(j, a[n].model) \in Int
      /\ PositionOf(j, m) \in Int
  <2>1. Offered(j, a[k].model) /\ Offered(j, a[n].model) /\ Offered(j, m)
    BY <1>1 DEF IInv, Progress, MayCall, Offered
  <2>2. Len(Candidates[j]) \in Nat
    BY DEF RouteAssumption
  <2> QED
    BY <2>1, <2>2, PositionType
<1>4. a[k].outcome # "success"
  BY <1>1 DEF IInv, Progress
<1>5. a[k].outcome \in Refusals => ProviderOf[m] # ProviderOf[a[k].model]
  BY <1>1 DEF MayCall, Refused
<1>6. /\ a[k].number \in Nat /\ a[n].number \in Nat
  BY <1>2 DEF AttemptRecord
<1>7. k < n => /\ PositionOf(j, a[k].model) <= PositionOf(j, a[n].model)
               /\ a[n].model = a[k].model =>
                      a[k].outcome \in Transient /\ a[k].number < a[n].number
  BY <1>1 DEF IInv, FailoverDiscipline
<1>8. CASE a[n].model = m /\ a[n].outcome \in Transient /\ number = a[n].number + 1
  BY <1>1, <1>3, <1>4, <1>5, <1>6, <1>7, <1>8
<1>9. CASE PositionOf(j, a[n].model) < PositionOf(j, m) /\ number = 1
  BY <1>1, <1>3, <1>4, <1>5, <1>7, <1>9
<1> QED
  BY <1>1, <1>8, <1>9 DEF MayCall, Follows, LastOf

\* Its number is one of those the model's retries leave.
LEMMA NextNumber ==
    ASSUME RouteAssumption, IInv, NEW j \in Jobs, NEW m \in Models, NEW number,
           MayCall(j, m, number)
    PROVE  number \in Nat /\ number \in 1 .. MaxRetries[m] + 1
<1>1. attempts[j] \in Seq(AttemptRecord)
  BY DEF IInv, TypeOK
<1>2. CASE number = 1
  BY <1>2 DEF MayCall, RouteAssumption
<1>3. CASE attempts[j] # << >> /\ number = LastOf(j).number + 1
  <2>1. LastOf(j) \in AttemptRecord
    BY <1>1, <1>3 DEF LastOf
  <2>2. LastOf(j).number \in Nat
    BY <2>1 DEF AttemptRecord
  <2> QED
    BY <1>3, <2>2 DEF MayCall, RouteAssumption
<1> QED
  BY <1>2, <1>3 DEF MayCall, Follows

\* A step that adds an attempt preserves what concerns the attempts.
LEMMA ListedKeeps ==
    ASSUME RouteAssumption, IInv, NEW j \in Jobs, NEW m \in Models, NEW number,
           NEW outcome \in Failures \cup {"success"},
           status[j] = "working", MayCall(j, m, number), Listed(j, m, number, outcome),
           status' \in [Jobs -> Status],
           outcome = "success" => status'[j] = "answered",
           \A x \in Jobs : x # j => status'[x] = status[x]
    PROVE  /\ attempts' \in [Jobs -> Seq(AttemptRecord)]
           /\ Progress' /\ FailoverDiscipline'
<1> DEFINE a == attempts[j]
           n == Len(a)
           new == [model |-> m, number |-> number, outcome |-> outcome]
<1>1. a \in Seq(AttemptRecord) /\ n \in Nat
  BY DEF IInv, TypeOK
<1>2. number \in Nat /\ number \in 1 .. MaxRetries[m] + 1
  BY NextNumber
<1>3. new \in AttemptRecord
  BY <1>2 DEF AttemptRecord
<1>4. /\ attempts'[j] = Append(a, new)
      /\ \A x \in Jobs : x # j => attempts'[x] = attempts[x]
      /\ attempts' \in [Jobs -> Seq(AttemptRecord)]
  BY <1>1, <1>3 DEF Listed, IInv, TypeOK
<1>5. /\ Len(attempts'[j]) = n + 1
      /\ \A k \in 1 .. n : attempts'[j][k] = a[k]
      /\ attempts'[j][n + 1] = new
  BY <1>1, <1>3, <1>4
<1> HIDE DEF new
<1>6. new.model = m /\ new.number = number /\ new.outcome = outcome
  BY DEF new
<1>7. Progress'
  <2> SUFFICES ASSUME NEW x \in Jobs, NEW k \in 1 .. Len(attempts'[x])
               PROVE  /\ Offered(x, attempts'[x][k].model)
                      /\ attempts'[x][k].outcome = "success" => status'[x] = "answered"
    BY DEF Progress, Offered
  <2>1. CASE x # j
    BY <2>1, <1>4 DEF IInv, Progress
  <2>2. CASE x = j /\ k \in 1 .. n
    BY <2>2, <1>5 DEF IInv, Progress
  <2>3. CASE x = j /\ k = n + 1
    BY <2>3, <1>5, <1>6 DEF MayCall, Offered
  <2> QED
    BY <1>1, <1>5, <2>1, <2>2, <2>3
<1>8. FailoverDiscipline'
  <2> SUFFICES ASSUME NEW x \in Jobs, NEW k \in 1 .. Len(attempts'[x])
               PROVE  /\ attempts'[x][k].number \in 1 .. MaxRetries[attempts'[x][k].model] + 1
                      /\ \A l \in k + 1 .. Len(attempts'[x]) :
                             /\ PositionOf(x, attempts'[x][k].model)
                                    <= PositionOf(x, attempts'[x][l].model)
                             /\ attempts'[x][l].model = attempts'[x][k].model =>
                                    /\ attempts'[x][k].outcome \in Transient
                                    /\ attempts'[x][k].number < attempts'[x][l].number
                             /\ attempts'[x][k].outcome \in Refusals =>
                                    ProviderOf[attempts'[x][l].model]
                                        # ProviderOf[attempts'[x][k].model]
                             /\ attempts'[x][k].outcome # "success"
    BY DEF FailoverDiscipline, PositionOf
  <2>1. CASE x # j
    BY <2>1, <1>4 DEF IInv, FailoverDiscipline
  <2>2. CASE x = j /\ k = n + 1
    BY <2>2, <1>1, <1>2, <1>5, <1>6
  <2>3. CASE x = j /\ k \in 1 .. n
    <3>1. a[k].number \in 1 .. MaxRetries[a[k].model] + 1
      BY <2>3 DEF IInv, FailoverDiscipline
    <3>2. ASSUME NEW l \in k + 1 .. n
          PROVE  /\ PositionOf(j, a[k].model) <= PositionOf(j, a[l].model)
                 /\ a[l].model = a[k].model =>
                        a[k].outcome \in Transient /\ a[k].number < a[l].number
                 /\ a[k].outcome \in Refusals =>
                        ProviderOf[a[l].model] # ProviderOf[a[k].model]
                 /\ a[k].outcome # "success"
      BY <2>3 DEF IInv, FailoverDiscipline
    <3>3. /\ PositionOf(j, a[k].model) <= PositionOf(j, m)
          /\ m = a[k].model => a[k].outcome \in Transient /\ a[k].number < number
          /\ a[k].outcome \in Refusals => ProviderOf[m] # ProviderOf[a[k].model]
          /\ a[k].outcome # "success"
      BY <2>3, NextAttempt
    <3>4. \A l \in k + 1 .. n + 1 : (l \in k + 1 .. n /\ l \in 1 .. n) \/ l = n + 1
      BY <2>3, <1>1
    <3> QED
      BY <2>3, <1>5, <1>6, <3>1, <3>2, <3>3, <3>4
  <2> QED
    BY <1>1, <1>5, <2>1, <2>2, <2>3
<1> QED
  BY <1>4, <1>7, <1>8

\* A step that only changes the status of a job without an answer.
LEMMA StatusKeeps ==
    ASSUME IInv, NEW j \in Jobs, NEW next \in Status \ {"answered"},
           status[j] # "answered", status' = [status EXCEPT ![j] = next],
           UNCHANGED << attempts, billed >>
    PROVE  IInv'
<1>1. TypeOK'
  BY DEF IInv, TypeOK
<1>2. status'[j] = next /\ \A x \in Jobs : x # j => status'[x] = status[x]
  BY DEF IInv, TypeOK
<1>3. Progress'
  BY <1>2 DEF IInv, Progress, Offered
<1>4. OneRecordPerSuccess'
  BY <1>2 DEF IInv, OneRecordPerSuccess, LastOf, RecordsOf
<1>5. FailoverDiscipline'
  BY SMTT(30) DEF IInv, FailoverDiscipline, PositionOf
<1> QED
  BY <1>1, <1>3, <1>4, <1>5 DEF IInv

LEMMA SucceedKeeps ==
    ASSUME RouteAssumption, IInv, NEW j \in Jobs, NEW m \in Models, NEW number,
           Succeed(j, m, number)
    PROVE  IInv'
<1>1. /\ status' \in [Jobs -> Status] /\ status'[j] = "answered"
      /\ \A x \in Jobs : x # j => status'[x] = status[x]
  BY DEF Succeed, IInv, TypeOK, Status
<1>2. /\ attempts' \in [Jobs -> Seq(AttemptRecord)] /\ Progress' /\ FailoverDiscipline'
  BY <1>1, ListedKeeps DEF Succeed
<1> DEFINE n == Len(billed)
           record == [job |-> j, model |-> m]
<1>3. RecordsOf(j) = {}
  BY DEF Succeed, IInv, OneRecordPerSuccess
<1>4. /\ n \in Nat /\ record \in [job : Jobs, model : Models]
      /\ billed \in Seq([job : Jobs, model : Models])
      /\ billed' = Append(billed, record)
  BY DEF Succeed, IInv, TypeOK
<1>5. /\ billed' \in Seq([job : Jobs, model : Models]) /\ Len(billed') = n + 1
      /\ \A i \in 1 .. n : billed'[i] = billed[i]
      /\ billed'[n + 1].job = j /\ billed'[n + 1].model = m
  BY <1>4
<1>6. \A x \in Jobs : RecordsOf(x)' = IF x = j THEN {n + 1} ELSE RecordsOf(x)
  <2> TAKE x \in Jobs
  <2>1. RecordsOf(x)' = { i \in 1 .. n + 1 : billed'[i].job = x }
    BY <1>5 DEF RecordsOf
  <2>2. CASE x = j
    BY <1>3, <1>4, <1>5, <2>1, <2>2 DEF RecordsOf
  <2>3. CASE x # j
    BY <1>4, <1>5, <2>1, <2>3 DEF RecordsOf
  <2> QED
    BY <2>2, <2>3
<1>7. /\ attempts'[j] = Append(attempts[j], [model |-> m, number |-> number,
                                             outcome |-> "success"])
      /\ \A x \in Jobs : x # j => attempts'[x] = attempts[x]
      /\ attempts[j] \in Seq(AttemptRecord)
  BY DEF Succeed, Listed, IInv, TypeOK
<1>8. attempts'[j] # << >> /\ LastOf(j)'.outcome = "success" /\ LastOf(j)'.model = m
  BY <1>7 DEF LastOf
<1>9. OneRecordPerSuccess'
  <2> SUFFICES ASSUME NEW x \in Jobs
               PROVE  IF status'[x] = "answered"
                      THEN /\ attempts'[x] # << >>
                           /\ LastOf(x)'.outcome = "success"
                           /\ \E i \in RecordsOf(x)' :
                                  RecordsOf(x)' = {i} /\ billed'[i].model = LastOf(x)'.model
                      ELSE RecordsOf(x)' = {}
    BY DEF OneRecordPerSuccess, LastOf, RecordsOf
  <2>1. CASE x = j
    BY <2>1, <1>1, <1>5, <1>6, <1>8
  <2>2. CASE x # j
    <3>1. /\ status'[x] = status[x] /\ attempts'[x] = attempts[x]
          /\ LastOf(x)' = LastOf(x) /\ RecordsOf(x)' = RecordsOf(x)
      BY <2>2, <1>1, <1>6, <1>7 DEF LastOf
    <3>2. \A i \in RecordsOf(x) : billed'[i] = billed[i]
      BY <1>5 DEF RecordsOf
    <3> QED
      BY <3>1, <3>2 DEF IInv, OneRecordPerSuccess
  <2> QED
    BY <2>1, <2>2
<1> QED
  BY <1>1, <1>2, <1>5, <1>9 DEF IInv, TypeOK

LEMMA FailKeeps ==
    ASSUME RouteAssumption, IInv, NEW j \in Jobs, NEW m \in Models, NEW number,
           NEW error \in Failures, NEW next \in {"working", "failed"},
           Fail(j, m, number, error, next)
    PROVE  IInv'
<1>1. /\ status' \in [Jobs -> Status] /\ status'[j] = next
      /\ \A x \in Jobs : x # j => status'[x] = status[x]
  BY DEF Fail, IInv, TypeOK, Status
<1>2. error # "success"
  BY DEF RouteAssumption, Failures
<1>3. /\ attempts' \in [Jobs -> Seq(AttemptRecord)] /\ Progress' /\ FailoverDiscipline'
  BY <1>1, <1>2, ListedKeeps DEF Fail
<1>4. \A x \in Jobs : x # j => attempts'[x] = attempts[x]
  BY DEF Fail, Listed, IInv, TypeOK
<1>5. OneRecordPerSuccess'
  BY <1>1, <1>4 DEF Fail, IInv, OneRecordPerSuccess, LastOf, RecordsOf
<1> QED
  BY <1>1, <1>3, <1>5 DEF Fail, IInv, TypeOK

LEMMA InitIInv == RouteAssumption /\ Init => IInv
  BY DEF RouteAssumption, Init, IInv, TypeOK, Status, Progress, OneRecordPerSuccess,
         FailoverDiscipline, RecordsOf

LEMMA NextIInv == RouteAssumption /\ IInv /\ [Next]_vars => IInv'
<1> SUFFICES ASSUME RouteAssumption, IInv, [Next]_vars PROVE IInv'
  OBVIOUS
<1>1. CASE UNCHANGED vars
  <2>1. TypeOK' /\ Progress'
    BY <1>1 DEF vars, IInv, TypeOK, Progress, Offered
  <2>2. OneRecordPerSuccess'
    BY <1>1 DEF vars, IInv, OneRecordPerSuccess, LastOf, RecordsOf
  <2>3. attempts' = attempts
    BY <1>1 DEF vars
  <2>4. FailoverDiscipline'
    BY <2>3, SMTT(30) DEF IInv, FailoverDiscipline, PositionOf
  <2> QED
    BY <2>1, <2>2, <2>4 DEF IInv
<1>2. CASE Next
  <2>1. PICK j \in Jobs :
            \/ Begin(j) \/ Reject(j) \/ GiveUp(j) \/ Cancel(j)
            \/ \E i \in 1 .. Len(Candidates[j]) :
                   \E number \in {1} \cup { attempts[j][k].number + 1 : k \in 1 .. Len(attempts[j]) } :
                       Call(j, Candidates[j][i], number)
    BY <1>2 DEF Next
  <2>2. CASE Begin(j)
    BY <2>2, StatusKeeps DEF Begin, Status
  <2>3. CASE Reject(j)
    BY <2>3, StatusKeeps DEF Reject, Status
  <2>4. CASE GiveUp(j)
    BY <2>4, StatusKeeps DEF GiveUp, Status
  <2>5. CASE Cancel(j)
    BY <2>5, StatusKeeps DEF Cancel, Status
  <2>6. ASSUME NEW i \in 1 .. Len(Candidates[j]), NEW number, Call(j, Candidates[j][i], number)
        PROVE  IInv'
    <3>1. Candidates[j][i] \in Models
      BY DEF RouteAssumption
    <3>2. CASE Succeed(j, Candidates[j][i], number)
      BY <3>1, <3>2, SucceedKeeps
    <3>3. ASSUME NEW error \in Failures, NEW next \in {"working", "failed"},
                 Fail(j, Candidates[j][i], number, error, next)
          PROVE  IInv'
      BY <3>1, <3>3, FailKeeps
    <3> QED
      BY <2>6, <3>2, <3>3 DEF Call
  <2> QED
    BY <2>1, <2>2, <2>3, <2>4, <2>5, <2>6
<1> QED
  BY <1>1, <1>2

\* A job that was answered is on the ledger once, for the model that answered; no
\* other job is on it.
THEOREM AnswersAreBilledOnce ==
    ASSUME RouteAssumption
    PROVE  Spec => []OneRecordPerSuccess
<1>1. IInv => OneRecordPerSuccess
  BY DEF IInv
<1>2. Init => IInv
  BY InitIInv
<1>3. IInv /\ [Next]_vars => IInv'
  BY NextIInv
<1> QED
  BY <1>1, <1>2, <1>3, PTL DEF Spec

\* A job goes through its candidates in order, repeats a call only after a transient
\* error and within the model's retries, and leaves a provider that refused it alone.
THEOREM FailoverIsDisciplined ==
    ASSUME RouteAssumption
    PROVE  Spec => []FailoverDiscipline
<1>1. IInv => FailoverDiscipline
  BY DEF IInv
<1>2. Init => IInv
  BY InitIInv
<1>3. IInv /\ [Next]_vars => IInv'
  BY NextIInv
<1> QED
  BY <1>1, <1>2, <1>3, PTL DEF Spec
=============================================================================
