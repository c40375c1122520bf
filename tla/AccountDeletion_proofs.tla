------------------------ MODULE AccountDeletion_proofs ------------------------
(***************************************************************************)
(* Proofs about AccountDeletion, for every number of requests, users,      *)
(* clients, endpoints, attempts, edits, database failures and crashes: its *)
(* types, that an account goes once, in one step and after its events, and *)
(* that no consenting client is skipped.                                   *)
(***************************************************************************)
EXTENDS AccountDeletion, TLAPS

------------------------------------------------------------------------------
(* Type correctness.                                                       *)

LEMMA InitTypeOK == Init => TypeOK
<1>1. NoTask \in Task
  BY MaxAttemptsAssumption DEF NoTask, Task, TaskPCs
<1> QED
  BY <1>1, BoundsAssumption, FirstGrantsAssumption DEF Init, TypeOK, RequestPCs

LEMMA TaskType ==
  ASSUME TypeOK, NEW r \in Requests, NEW e \in Endpoints, NEW to \in TaskPCs
  PROVE  /\ task[r][e] \in Task
         /\ [task EXCEPT ![r][e].pc = to] \in [Requests -> [Endpoints -> Task]]
<1>1. task[r] \in [Endpoints -> Task] /\ task[r][e] \in Task
  BY DEF TypeOK
<1>2. [task[r][e] EXCEPT !.pc = to] \in Task
  BY <1>1 DEF Task
<1> QED
  BY <1>1, <1>2 DEF TypeOK

LEMMA RequestStepTypeOK ==
  ASSUME TypeOK, NEW r \in Requests, Start(r) \/ RequestStep(r)
  PROVE  TypeOK'
<1> USE DEF Goto, RequestPCs, rows, History, counters, logs
<1>1. CASE Start(r)
  BY <1>1 DEF Start, TypeOK
<1>2. CASE FindConsents(r)
  BY <1>2 DEF FindConsents, TypeOK
<1>3. CASE FindEndpoints(r)
  <2>1. NoTask \in Task /\ [NoTask EXCEPT !.pc = "attempt"] \in Task
    BY MaxAttemptsAssumption DEF NoTask, Task, TaskPCs
  <2> QED
    BY <1>3, <2>1 DEF FindEndpoints, TypeOK
<1>4. CASE DeliveriesReturn(r)
  BY <1>4 DEF DeliveriesReturn, TypeOK
<1>5. CASE Revoke(r)
  BY <1>5 DEF Revoke, TypeOK
<1>6. CASE DeleteRows(r)
  BY <1>6 DEF DeleteRows, TypeOK
<1>7. CASE DeleteUser(r)
  BY <1>7 DEF DeleteUser, TypeOK
<1>8. CASE RollBack(r)
  BY <1>8 DEF RollBack, TypeOK
<1> QED
  BY <1>1, <1>2, <1>3, <1>4, <1>5, <1>6, <1>7, <1>8 DEF RequestStep

\* Storing a delivery row, or failing to, keeps the tables typed.
Tables ==
  /\ users \subseteq Users
  /\ consents \in [Users -> SUBSET Clients]
  /\ references \in [Users -> SUBSET References]
  /\ grants \in [Users -> SUBSET Clients]
  /\ endpoint \in [Endpoints -> {"enabled", "disabled", "deleted"}]
  /\ deliveries \subseteq Delivery
  /\ dbFailures \in 0..MaxDbFailures

LEMMA StoreDeliveryTables ==
  ASSUME TypeOK, NEW r \in Requests, NEW e \in Endpoints,
         \/ \E ok \in BOOLEAN : StoreDelivery(r, e, ok)
         \/ StoreDeliveryThrows(e)
  PROVE  Tables'
<1>1. task[r][e].attempt \in 1..MaxAttempts
  BY DEF TypeOK, Task
<1>2. ASSUME NEW ok \in BOOLEAN, StoreDelivery(r, e, ok)
      PROVE  Tables'
  <2>1. NewDelivery(r, e, ok) \in Delivery
    BY <1>1 DEF NewDelivery, Delivery
  <2> QED
    BY <1>2, <2>1 DEF StoreDelivery, Tables, TypeOK
<1>3. CASE StoreDeliveryThrows(e)
  BY <1>3, BoundsAssumption DEF StoreDeliveryThrows, Tables, TypeOK, rows
<1> QED
  BY <1>2, <1>3

LEMMA TaskStepTypeOK ==
  ASSUME TypeOK, NEW r \in Requests, NEW e \in Endpoints, TaskStep(r, e)
  PROVE  TypeOK'
<1> USE DEF rows, History, counters, logs, TaskFrame
<1>1. task[r][e] \in Task /\ task[r][e].attempt \in 1..MaxAttempts
  BY TaskType DEF TypeOK, Task, TaskPCs
<1>2. ASSUME NEW to \in TaskPCs
      PROVE  [task EXCEPT ![r][e].pc = to] \in [Requests -> [Endpoints -> Task]]
  BY TaskType
<1>3. "logSuccess" \in TaskPCs /\ "logFailure" \in TaskPCs /\ "delivered" \in TaskPCs
        /\ "exhausted" \in TaskPCs /\ "threw" \in TaskPCs /\ "attempt" \in TaskPCs
  BY DEF TaskPCs
<1>4. CASE Attempt(r, e)
  <2>1. received' \subseteq Requests \X Endpoints \X (1..MaxAttempts)
    BY <1>1, <1>4 DEF Attempt, TypeOK
  <2> QED
    BY <1>2, <1>3, <1>4, <2>1 DEF Attempt, TaskGoto, TypeOK
<1>5. CASE LogSuccess(r, e)
  <2>1. Tables'
    BY <1>5, StoreDeliveryTables DEF LogSuccess
  <2> QED
    BY <1>2, <1>3, <1>5, <2>1 DEF LogSuccess, TaskGoto, TypeOK, Tables
<1>6. CASE LogFailure(r, e)
  <2>1. Tables'
    BY <1>6, StoreDeliveryTables DEF LogFailure
  <2>2. task' \in [Requests -> [Endpoints -> Task]]
    <3>1. CASE task[r][e].attempt = MaxAttempts
      BY <1>2, <1>3, <1>6, <3>1 DEF LogFailure, TaskGoto
    <3>2. CASE task[r][e].attempt # MaxAttempts
      <4> DEFINE next == [pc |-> "attempt", attempt |-> task[r][e].attempt + 1]
      <4>1. next \in Task
        BY <1>1, <1>3, <3>2, MaxAttemptsAssumption DEF Task
      <4>2. task' = [task EXCEPT ![r] = [task[r] EXCEPT ![e] = next]]
        BY <1>6, <3>2 DEF LogFailure
      <4>3. [task[r] EXCEPT ![e] = next] \in [Endpoints -> Task]
        BY <4>1 DEF TypeOK
      <4> QED
        BY <4>2, <4>3 DEF TypeOK
    <3> QED
      BY <3>1, <3>2
  <2> QED
    BY <1>6, <2>1, <2>2 DEF LogFailure, TypeOK, Tables
<1>7. CASE Throw(r, e)
  <2>1. Tables'
    BY <1>7, StoreDeliveryTables DEF Throw
  <2> QED
    BY <1>2, <1>3, <1>7, <2>1 DEF Throw, TaskGoto, TypeOK, Tables, RequestPCs
<1> QED
  BY <1>4, <1>5, <1>6, <1>7 DEF TaskStep

LEMMA OutsideTypeOK ==
  ASSUME TypeOK,
         \/ \E r \in Requests : Resend(r)
         \/ \E e \in Endpoints : SetEnabled(e) \/ ClearDeliveries(e) \/ RemoveEndpoint(e)
         \/ \E u \in Users, x \in References : AddReference(u, x)
         \/ Crash
  PROVE  TypeOK'
<1> USE DEF rows, History, counters, logs
<1>1. ASSUME NEW r \in Requests, Resend(r) PROVE TypeOK'
  <2>1. PICK row \in deliveries :
          /\ task' = [task EXCEPT ![r][row.endpoint].pc = "attempt"]
          /\ user' = [user EXCEPT ![r] = user[row.request]]
    BY <1>1 DEF Resend
  <2>2. row.endpoint \in Endpoints /\ row.request \in Requests
    BY DEF TypeOK, Delivery
  <2>3. task' \in [Requests -> [Endpoints -> Task]]
    BY <2>1, <2>2, TaskType DEF TaskPCs
  <2> QED
    BY <1>1, <2>1, <2>2, <2>3 DEF Resend, Goto, RequestPCs, TypeOK
<1>2. ASSUME NEW e \in Endpoints, SetEnabled(e) PROVE TypeOK'
  BY <1>2, BoundsAssumption DEF SetEnabled, Edit, TypeOK
<1>3. ASSUME NEW e \in Endpoints, ClearDeliveries(e) PROVE TypeOK'
  BY <1>3, BoundsAssumption DEF ClearDeliveries, Edit, TypeOK
<1>4. ASSUME NEW e \in Endpoints, RemoveEndpoint(e) PROVE TypeOK'
  BY <1>4 DEF RemoveEndpoint, TypeOK
<1>5. ASSUME NEW u \in Users, NEW x \in References, AddReference(u, x) PROVE TypeOK'
  BY <1>5 DEF AddReference, TypeOK
<1>7. CASE Crash
  <2>1. NoTask \in Task
    BY MaxAttemptsAssumption DEF NoTask, Task, TaskPCs
  <2>2. pc' \in [Requests -> RequestPCs]
    BY <1>7 DEF Crash, TypeOK, RequestPCs
  <2>3. task' \in [Requests -> [Endpoints -> Task]]
    BY <1>7, <2>1 DEF Crash, TypeOK
  <2> QED
    BY <1>7, <2>2, <2>3, BoundsAssumption DEF Crash, TypeOK
<1> QED
  BY <1>1, <1>2, <1>3, <1>4, <1>5, <1>7

LEMMA FailureTypeOK ==
  ASSUME TypeOK, NEW r \in Requests, StatementFails(r) \/ RecordAudit(r)
  PROVE  TypeOK'
<1> USE DEF rows, History, counters, logs, RequestPCs
<1>1. CASE StatementFails(r)
  BY <1>1, BoundsAssumption DEF StatementFails, TypeOK
<1>2. CASE RecordAudit(r)
  BY <1>2, BoundsAssumption DEF RecordAudit, TypeOK
<1> QED
  BY <1>1, <1>2

LEMMA TypeOKStep ==
  ASSUME TypeOK, [Next]_vars
  PROVE  TypeOK'
<1>1. CASE UNCHANGED vars
  BY <1>1 DEF TypeOK, vars, rows, counters, logs
<1> QED
  BY <1>1, FailureTypeOK, RequestStepTypeOK, TaskStepTypeOK, OutsideTypeOK DEF Next, Rest

\* Every table and every handler's local state stays in its type; in particular
\* no delivery ever counts an attempt beyond MaxAttempts.
THEOREM TypeCorrect == Spec => []TypeOK
<1>1. TypeOK /\ [Next]_vars => TypeOK'
  BY TypeOKStep
<1> QED
  BY InitTypeOK, <1>1, PTL DEF Spec

------------------------------------------------------------------------------
(* The inductive invariant.  OneDeletionPerAccount and RemovedAfterDelivery  *)
(* speak of the moment a user is gone; what makes them true happens while   *)
(* deliveries run, request by request:                                      *)
(*   AnswersRecorded    what a task's pc says it has achieved, it has       *)
(*   NothingBeforeStart no task or row precedes findEndpoints               *)
(*   AllSettled         from revoke on, every task is none, done or given up *)
(*   DeletedIsGone      a request that has succeeded has removed its user    *)
(*   GoneWasDeleted     and no user goes without one                         *)

AnswersRecorded ==
  \A r \in Requests, e \in Endpoints :
    /\ task[r][e].pc \in {"logSuccess", "delivered"} =>
         <<r, e, task[r][e].attempt>> \in received
    /\ task[r][e].pc = "exhausted" => task[r][e].attempt = MaxAttempts

NotStarted == {"idle", "findConsents", "findEndpoints"}

NothingBeforeStart ==
  \A r \in Requests :
    pc[r] \in NotStarted =>
      /\ \A e \in Endpoints : task[r][e].pc = "none" /\ task[r][e].attempt = 1
      /\ \A row \in deliveries : row.request # r

Settled == {"revoke", "deleteRows", "deleteUser", "deleted", "done"}

AllSettled ==
  \A r \in Requests, e \in Endpoints :
    pc[r] \in Settled => task[r][e].pc \in {"none", "delivered", "exhausted"}

DeletedIsGone == \A r \in Deleters : user[r] \notin users

GoneWasDeleted == \A u \in Users \ users : \E r \in Deleters : user[r] = u

IInv ==
  /\ TypeOK
  /\ AnswersRecorded
  /\ NothingBeforeStart
  /\ AllSettled
  /\ DeletedIsGone
  /\ GoneWasDeleted
  /\ OneDeletionPerAccount
  /\ LogTellsOfDeletions
  /\ OneRowPerAttempt

LEMMA InitIInv == Init => IInv
<1> SUFFICES ASSUME Init PROVE IInv
  OBVIOUS
<1>1. TypeOK
  BY InitTypeOK
<1>2. \A r \in Requests, e \in Endpoints :
        task[r][e].pc = "none" /\ task[r][e].attempt = 1
  BY DEF Init, NoTask
<1> QED
  BY <1>1, <1>2
     DEF Init, IInv, AnswersRecorded, NothingBeforeStart, AllSettled, DeletedIsGone,
         GoneWasDeleted, OneDeletionPerAccount, LogTellsOfDeletions, Deleters,
         OneRowPerAttempt, NotStarted, Settled

------------------------------------------------------------------------------
(* What a step of deliverToEndpoint does, action by action.                *)

\* Only the task of endpoint e changes: to step "to" of attempt n.
OneTask(r, e, to, n) ==
  \A s \in Requests, d \in Endpoints :
    task'[s][d] = IF s = r /\ d = e THEN [pc |-> to, attempt |-> n] ELSE task[s][d]

LEMMA TaskGotoChanges ==
  ASSUME TypeOK, NEW r \in Requests, NEW e \in Endpoints,
         NEW from, NEW to, TaskGoto(r, e, from, to)
  PROVE  /\ task[r][e].pc = from
         /\ OneTask(r, e, to, task[r][e].attempt)
<1>1. task[r] \in [Endpoints -> Task] /\ task[r][e] \in Task
  BY DEF TypeOK
<1>2. [task[r][e] EXCEPT !.pc = to] = [pc |-> to, attempt |-> task[r][e].attempt]
  BY <1>1 DEF Task
<1>3. task' = [task EXCEPT ![r] =
                 [task[r] EXCEPT ![e] = [task[r][e] EXCEPT !.pc = to]]]
  BY DEF TaskGoto
<1> QED
  BY <1>1, <1>2, <1>3 DEF TaskGoto, OneTask, TypeOK

LEMMA NextAttempt ==
  ASSUME TypeOK, NEW r \in Requests, NEW e \in Endpoints, LogFailure(r, e)
  PROVE  /\ task[r][e].pc = "logFailure"
         /\ \/ /\ task[r][e].attempt = MaxAttempts
               /\ OneTask(r, e, "exhausted", MaxAttempts)
            \/ OneTask(r, e, "attempt", task[r][e].attempt + 1)
<1>1. CASE task[r][e].attempt = MaxAttempts
  BY <1>1, TaskGotoChanges DEF LogFailure
<1>2. CASE task[r][e].attempt # MaxAttempts
  <2> DEFINE next == [pc |-> "attempt", attempt |-> task[r][e].attempt + 1]
  <2>1. task' = [task EXCEPT ![r] = [task[r] EXCEPT ![e] = next]]
    BY <1>2 DEF LogFailure
  <2>2. task[r] \in [Endpoints -> Task]
    BY DEF TypeOK
  <2>3. OneTask(r, e, "attempt", task[r][e].attempt + 1)
    BY <2>1, <2>2 DEF OneTask, TypeOK
  <2> QED
    BY <1>2, <2>3 DEF LogFailure
<1> QED
  BY <1>1, <1>2

\* Tables and requests a delivery does not touch.
LEMMA TaskStepFrame ==
  ASSUME TypeOK, NEW r \in Requests, NEW e \in Endpoints, TaskStep(r, e)
  PROVE  /\ UNCHANGED <<users, user, logs, edited, consents, references, crashes>>
         /\ received \subseteq received'
         /\ dbFailures' = 0 => dbFailures = 0
<1>0. StoreDeliveryThrows(e) => (dbFailures' = 0 => dbFailures = 0)
  BY BoundsAssumption DEF StoreDeliveryThrows, TypeOK
<1> USE DEF rows, History, counters, TaskFrame, StoreDelivery, StoreDeliveryThrows
<1>1. CASE Attempt(r, e)
  BY <1>1 DEF Attempt
<1>2. CASE LogSuccess(r, e)
  BY <1>0, <1>2 DEF LogSuccess
<1>3. CASE LogFailure(r, e)
  BY <1>3 DEF LogFailure
<1>4. CASE Throw(r, e)
  BY <1>0, <1>4 DEF Throw
<1> QED
  BY <1>1, <1>2, <1>3, <1>4 DEF TaskStep

LEMMA TaskStepRunning ==
  ASSUME TypeOK, NEW r \in Requests, NEW e \in Endpoints, TaskStep(r, e)
  PROVE  /\ task[r][e].pc \in {"attempt", "logSuccess", "logFailure"}
         /\ \E to, n : OneTask(r, e, to, n) /\ to # "none"
<1>1. CASE Attempt(r, e)
  BY <1>1, TaskGotoChanges DEF Attempt
<1>2. CASE LogSuccess(r, e)
  <2>1. CASE TaskGoto(r, e, "logSuccess", "delivered")
    BY <2>1, TaskGotoChanges
  <2>2. CASE TaskGoto(r, e, "logSuccess", "logFailure")
    BY <2>2, TaskGotoChanges
  <2> QED
    BY <1>2, <2>1, <2>2 DEF LogSuccess
<1>3. CASE LogFailure(r, e)
  BY <1>3, NextAttempt
<1>4. CASE Throw(r, e)
  BY <1>4, TaskGotoChanges DEF Throw
<1> QED
  BY <1>1, <1>2, <1>3, <1>4 DEF TaskStep

LEMMA OtherTasks ==
  ASSUME TypeOK, NEW r \in Requests, NEW e \in Endpoints, TaskStep(r, e)
  PROVE  \A s \in Requests, d \in Endpoints :
           s # r \/ d # e => task'[s][d] = task[s][d]
<1>1. PICK to, n : OneTask(r, e, to, n)
  BY TaskStepRunning
<1> QED
  BY <1>1 DEF OneTask

LEMMA TaskStepAnswers ==
  ASSUME TypeOK, AnswersRecorded, NEW r \in Requests, NEW e \in Endpoints,
         TaskStep(r, e)
  PROVE  AnswersRecorded'
<1>1. received \subseteq received'
  BY TaskStepFrame
<1> DEFINE n == task[r][e].attempt
<1>2. ASSUME NEW to, NEW k, OneTask(r, e, to, k),
             to \in {"logSuccess", "delivered"} => <<r, e, k>> \in received',
             to = "exhausted" => k = MaxAttempts
      PROVE  AnswersRecorded'
  BY <1>1, <1>2 DEF AnswersRecorded, OneTask
<1>3. CASE Attempt(r, e)
  BY <1>2, <1>3, TaskGotoChanges DEF Attempt
<1>4. CASE LogSuccess(r, e)
  <2>1. task[r][e].pc = "logSuccess"
    BY <1>4, TaskGotoChanges DEF LogSuccess
  <2>2. <<r, e, n>> \in received'
    BY <1>1, <2>1 DEF AnswersRecorded
  <2> QED
    BY <1>2, <1>4, <2>2, TaskGotoChanges DEF LogSuccess
<1>5. CASE LogFailure(r, e)
  BY <1>2, <1>5, NextAttempt
<1>6. CASE Throw(r, e)
  BY <1>2, <1>6, TaskGotoChanges DEF Throw
<1> QED
  BY <1>3, <1>4, <1>5, <1>6 DEF TaskStep

\* A request that waits for its deliveries, or has failed or crashed: the only
\* ones with a task that runs.
LEMMA TaskStepRequest ==
  ASSUME IInv, NEW r \in Requests, NEW e \in Endpoints, TaskStep(r, e)
  PROVE  /\ pc[r] \notin NotStarted \cup Settled
         /\ \A s \in Requests \ {r} : pc'[s] = pc[s]
         /\ pc'[r] \in {pc[r], "failed"}
<1>1. pc[r] \notin NotStarted \cup Settled
  BY TaskStepRunning DEF IInv, NothingBeforeStart, AllSettled
<1>2. UNCHANGED pc \/ Throw(r, e)
  BY DEF TaskStep, Attempt, LogSuccess, LogFailure
<1> QED
  BY <1>1, <1>2 DEF IInv, TypeOK, Throw

\* Only rows of r's own delivery are added.
LEMMA TaskStepRows ==
  ASSUME NEW r \in Requests, NEW e \in Endpoints, TaskStep(r, e)
  PROVE  \/ UNCHANGED deliveries
         \/ \E ok \in BOOLEAN : deliveries' = deliveries \cup {NewDelivery(r, e, ok)}
<1> USE DEF rows, StoreDelivery, StoreDeliveryThrows
<1>1. CASE Attempt(r, e)
  BY <1>1 DEF Attempt
<1>2. CASE LogSuccess(r, e)
  BY <1>2 DEF LogSuccess
<1>3. CASE LogFailure(r, e)
  BY <1>3 DEF LogFailure
<1>4. CASE Throw(r, e)
  BY <1>4 DEF Throw
<1> QED
  BY <1>1, <1>2, <1>3, <1>4 DEF TaskStep

\* Nothing that the properties of the log speak of changes: neither who has
\* succeeded, nor who exists, nor what is logged.
LogKept ==
  /\ UNCHANGED <<users, user, logging, audit>>
  /\ Deleters' = Deleters
  /\ dbFailures' = 0 /\ crashes' = 0 => dbFailures = 0 /\ crashes = 0

LEMMA LogKeptHolds ==
  ASSUME IInv, LogKept
  PROVE  DeletedIsGone' /\ GoneWasDeleted' /\ OneDeletionPerAccount' /\ LogTellsOfDeletions'
BY DEF LogKept, IInv, DeletedIsGone, GoneWasDeleted, OneDeletionPerAccount,
       LogTellsOfDeletions

LEMMA TaskStepSettled ==
  ASSUME IInv, NEW r \in Requests, NEW e \in Endpoints, TaskStep(r, e)
  PROVE  NothingBeforeStart' /\ AllSettled' /\ LogKept
<1>1. /\ pc[r] \notin NotStarted \cup Settled
      /\ \A s \in Requests \ {r} : pc'[s] = pc[s]
      /\ pc'[r] \notin NotStarted \cup Settled
  BY TaskStepRequest DEF NotStarted, Settled
<1>2. \A s \in Requests \ {r}, d \in Endpoints : task'[s][d] = task[s][d]
  BY OtherTasks DEF IInv
<1>4. AllSettled'
  BY <1>1, <1>2 DEF IInv, AllSettled
<1>5. NothingBeforeStart'
  <2>1. \A row \in deliveries' \ deliveries : row.request = r
    BY TaskStepRows DEF NewDelivery
  <2> QED
    BY <1>1, <1>2, <2>1 DEF IInv, NothingBeforeStart
<1>6. LogKept
  <2>1. Deleters' = Deleters
    BY <1>1 DEF Deleters, Settled
  <2> QED
    BY <2>1, TaskStepFrame DEF LogKept, logs, IInv
<1> QED
  BY <1>4, <1>5, <1>6

------------------------------------------------------------------------------
(* Rows of attempts.                                                       *)

\* The attempts of r's event to e that have a row.
StoredAttempts(r, e) ==
  {row.attempt : row \in {d \in deliveries : d.request = r /\ d.endpoint = e}}

LEMMA TaskStepStored ==
  ASSUME IInv, NEW r \in Requests, NEW e \in Endpoints, TaskStep(r, e)
  PROVE  OneRowPerAttempt'
<1> DEFINE n == task[r][e].attempt
<1>1. /\ task[r][e].pc \in {"attempt", "logSuccess", "logFailure"}
      /\ n \in 1..MaxAttempts
  BY TaskStepRunning DEF IInv, TypeOK, Task
<1>2. UNCHANGED edited
  BY TaskStepFrame DEF IInv
<1>3. ASSUME NEW s \in Requests, NEW d \in Endpoints, s # r \/ d # e
      PROVE  StoredAttempts(s, d)' = StoredAttempts(s, d) /\ task'[s][d] = task[s][d]
  <2>1. task'[s][d] = task[s][d]
    BY <1>3, OtherTasks DEF IInv
  <2>2. \A row \in deliveries' \ deliveries : row.request = r /\ row.endpoint = e
    BY TaskStepRows DEF NewDelivery
  <2>3. deliveries \subseteq deliveries'
    BY TaskStepRows
  <2> QED
    BY <1>3, <2>1, <2>2, <2>3 DEF StoredAttempts
<1>4. CASE e \in edited
  BY <1>2, <1>3, <1>4 DEF IInv, OneRowPerAttempt, StoredAttempts
<1>5. CASE e \notin edited
  <2>1. StoredAttempts(r, e) = 1..(n - 1)
    BY <1>1, <1>5 DEF IInv, OneRowPerAttempt, StoredAttempts
  <2>2. ASSUME NEW to, NEW k, OneTask(r, e, to, k), to # "none",
               StoredAttempts(r, e)' = IF to \in {"delivered", "exhausted"}
                                       THEN 1..k ELSE 1..(k - 1)
        PROVE  OneRowPerAttempt'
    BY <1>2, <1>3, <2>2 DEF IInv, OneRowPerAttempt, StoredAttempts, OneTask
  <2>3. ASSUME UNCHANGED deliveries PROVE StoredAttempts(r, e)' = 1..(n - 1)
    BY <2>1, <2>3 DEF StoredAttempts
  <2>4. ASSUME NEW ok \in BOOLEAN, StoreDelivery(r, e, ok)
        PROVE  StoredAttempts(r, e)' = 1..n
    <3> DEFINE new == NewDelivery(r, e, ok)
               Of(rows_) == {d \in rows_ : d.request = r /\ d.endpoint = e}
    <3>1. new.request = r /\ new.endpoint = e /\ new.attempt = n
      BY DEF NewDelivery
    <3>2. deliveries' = deliveries \cup {new}
      BY <2>4 DEF StoreDelivery
    <3>3. Of(deliveries') = Of(deliveries) \cup {new}
      BY <3>1, <3>2
    <3>4. StoredAttempts(r, e)' = StoredAttempts(r, e) \cup {n}
      BY <3>1, <3>3 DEF StoredAttempts
    <3> QED
      BY <1>1, <2>1, <3>4, MaxAttemptsAssumption
  <2>5. CASE Attempt(r, e)
    <3>1. UNCHANGED deliveries
      BY <2>5 DEF Attempt, rows
    <3>2. \E to \in {"logSuccess", "logFailure"} : OneTask(r, e, to, n)
      BY <2>5, TaskGotoChanges DEF Attempt, IInv
    <3> QED
      BY <2>2, <2>3, <3>1, <3>2
  <2>6. CASE LogSuccess(r, e)
    <3>1. CASE TaskGoto(r, e, "logSuccess", "delivered") /\ StoreDelivery(r, e, TRUE)
      <4>1. OneTask(r, e, "delivered", n)
        BY <3>1, TaskGotoChanges DEF IInv
      <4> QED
        BY <2>2, <2>4, <3>1, <4>1
    <3>2. CASE TaskGoto(r, e, "logSuccess", "logFailure") /\ StoreDeliveryThrows(e)
      <4>1. OneTask(r, e, "logFailure", n)
        BY <3>2, TaskGotoChanges DEF IInv
      <4>2. UNCHANGED deliveries
        BY <3>2 DEF StoreDeliveryThrows, rows
      <4> QED
        BY <2>2, <2>3, <4>1, <4>2
    <3> QED
      BY <2>6, <3>1, <3>2 DEF LogSuccess
  <2>7. CASE LogFailure(r, e)
    <3>1. StoredAttempts(r, e)' = 1..n
      BY <2>4, <2>7 DEF LogFailure
    <3>2. CASE OneTask(r, e, "exhausted", n)
      BY <2>2, <3>1, <3>2
    <3>3. CASE OneTask(r, e, "attempt", n + 1)
      <4>1. StoredAttempts(r, e)' = 1..((n + 1) - 1)
        BY <1>1, <3>1, MaxAttemptsAssumption
      <4> QED
        BY <2>2, <3>3, <4>1
    <3> QED
      BY <2>7, <3>2, <3>3, NextAttempt DEF IInv
  <2>8. CASE Throw(r, e)
    <3>1. OneTask(r, e, "threw", n) /\ UNCHANGED deliveries
      BY <2>8, TaskGotoChanges DEF Throw, IInv, StoreDeliveryThrows, rows
    <3> QED
      BY <2>2, <2>3, <3>1
  <2> QED
    BY <2>5, <2>6, <2>7, <2>8 DEF TaskStep
<1> QED
  BY <1>4, <1>5

------------------------------------------------------------------------------
(* A step of the request itself.                                           *)

LEMMA RequestStepFrame ==
  ASSUME TypeOK, NEW r \in Requests, Start(r) \/ RequestStep(r)
  PROVE  /\ UNCHANGED <<deliveries, received, edited, user>>
         /\ \A s \in Requests \ {r} : pc'[s] = pc[s]
<1> USE DEF Goto, rows, History
<1> QED
  BY DEF Start, RequestStep, FindConsents, FindEndpoints, DeliveriesReturn, Revoke,
         DeleteRows, DeleteUser, RollBack, TypeOK

\* Tasks start when the endpoints have been read, and at no other time.
LEMMA RequestStepTasks ==
  ASSUME TypeOK, NEW r \in Requests, Start(r) \/ RequestStep(r)
  PROVE  \/ UNCHANGED task
         \/ /\ FindEndpoints(r)
            /\ \A s \in Requests, e \in Endpoints :
                 task'[s][e] = IF s # r THEN task[s][e]
                               ELSE IF /\ ClientOf[e] \in clients[r]
                                       /\ endpoint[e] = "enabled"
                                    THEN [NoTask EXCEPT !.pc = "attempt"] ELSE NoTask
<1>1. CASE FindEndpoints(r)
  BY <1>1 DEF FindEndpoints, TypeOK
<1>2. CASE ~FindEndpoints(r)
  BY <1>2 DEF Start, RequestStep, FindConsents, DeliveriesReturn, Revoke,
              DeleteRows, DeleteUser, RollBack
<1> QED
  BY <1>1, <1>2

LEMMA RequestStepDeliveries ==
  ASSUME IInv, NEW r \in Requests, Start(r) \/ RequestStep(r)
  PROVE  /\ AnswersRecorded' /\ NothingBeforeStart'
         /\ AllSettled' /\ OneRowPerAttempt'
<1>1. /\ UNCHANGED <<deliveries, received, edited, user>>
      /\ \A s \in Requests \ {r} : pc'[s] = pc[s]
  BY RequestStepFrame DEF IInv
<1>2. CASE UNCHANGED task
  <2>1. AnswersRecorded' /\ OneRowPerAttempt'
    BY <1>1, <1>2 DEF IInv, AnswersRecorded, OneRowPerAttempt
  <2>2. pc'[r] \in NotStarted => pc[r] \in NotStarted
    BY DEF IInv, TypeOK, Start, RequestStep, FindConsents, FindEndpoints,
           DeliveriesReturn, Revoke, DeleteRows, DeleteUser, RollBack, Goto, NotStarted
  <2>3. pc'[r] \in Settled =>
          \A e \in Endpoints : task[r][e].pc \in {"none", "delivered", "exhausted"}
    <3>1. CASE DeliveriesReturn(r)
      BY <3>1 DEF DeliveriesReturn
    <3>2. CASE pc[r] \in NotStarted \cup Settled
      BY <3>2 DEF IInv, NothingBeforeStart, AllSettled
    <3>3. pc[r] \in NotStarted \cup Settled \/ DeliveriesReturn(r)
      BY DEF Start, RequestStep, FindConsents, FindEndpoints, Revoke, DeleteRows,
             DeleteUser, RollBack, Goto, NotStarted, Settled
    <3> QED
      BY <3>1, <3>2, <3>3
  <2> QED
    BY <1>1, <1>2, <2>1, <2>2, <2>3 DEF IInv, NothingBeforeStart, AllSettled
<1>3. CASE ~UNCHANGED task
  <2>1. /\ FindEndpoints(r)
        /\ \A s \in Requests, e \in Endpoints :
             task'[s][e] = IF s # r THEN task[s][e]
                           ELSE IF /\ ClientOf[e] \in clients[r]
                                   /\ endpoint[e] = "enabled"
                                THEN [NoTask EXCEPT !.pc = "attempt"] ELSE NoTask
    BY <1>3, RequestStepTasks DEF IInv
  <2>2. pc[r] = "findEndpoints" /\ pc'[r] \in {"revoke", "delivering"}
    BY <2>1 DEF FindEndpoints, Goto, IInv, TypeOK
  <2>3. /\ \A e \in Endpoints : task[r][e].pc = "none"
        /\ \A row \in deliveries : row.request # r
    BY <2>2 DEF IInv, NothingBeforeStart, NotStarted
  <2>4. \A e \in Endpoints : /\ task'[r][e].pc \in {"none", "attempt"}
                             /\ task'[r][e].attempt = 1
    BY <2>1 DEF NoTask
  <2>5. \A s \in Requests \ {r}, e \in Endpoints : task'[s][e] = task[s][e]
    BY <2>1
  <2>6. AnswersRecorded'
    BY <1>1, <2>4, <2>5 DEF IInv, AnswersRecorded
  <2>7. NothingBeforeStart'
    BY <1>1, <2>2, <2>5 DEF IInv, NothingBeforeStart, NotStarted
  <2>8. AllSettled'
    <3>1. ASSUME pc'[r] = "revoke", NEW e \in Endpoints
          PROVE  task'[r][e].pc = "none"
      <4>1. ~(ClientOf[e] \in clients[r] /\ endpoint[e] = "enabled")
        BY <2>1, <2>2, <3>1 DEF FindEndpoints, Goto, IInv, TypeOK
      <4> QED
        BY <2>1, <4>1 DEF NoTask
    <3>2. ASSUME NEW e \in Endpoints, pc'[r] \in Settled
          PROVE  task'[r][e].pc = "none"
      BY <2>2, <3>1, <3>2 DEF Settled
    <3> QED
      BY <1>1, <2>5, <3>2 DEF IInv, AllSettled
  <2>9. OneRowPerAttempt'
    <3>1. ASSUME NEW e \in Endpoints, task'[r][e].pc # "none"
          PROVE  StoredAttempts(r, e)' = 1..(1 - 1)
      BY <1>1, <2>3 DEF StoredAttempts
    <3> QED
      BY <1>1, <2>4, <2>5, <3>1 DEF IInv, OneRowPerAttempt, StoredAttempts
  <2> QED
    BY <2>6, <2>7, <2>8, <2>9
<1> QED
  BY <1>2, <1>3

\* A request succeeds in the step that removes its user, and starts to log it.
LEMMA RequestStepLog ==
  ASSUME IInv, NEW r \in Requests, Start(r) \/ RequestStep(r)
  PROVE  DeletedIsGone' /\ GoneWasDeleted' /\ OneDeletionPerAccount' /\ LogTellsOfDeletions'
<1>1. UNCHANGED user /\ \A s \in Requests \ {r} : pc'[s] = pc[s]
  BY RequestStepFrame DEF IInv
<1>2. r \notin Deleters
  BY DEF Start, RequestStep, FindConsents, FindEndpoints, DeliveriesReturn, Revoke,
         DeleteRows, DeleteUser, RollBack, Goto, Deleters
<1>3. UNCHANGED <<audit, dbFailures, crashes>>
  BY DEF Start, RequestStep, FindConsents, FindEndpoints, DeliveriesReturn, Revoke,
         DeleteRows, DeleteUser, RollBack, logs, counters
<1>5. CASE DeleteUser(r)
  <2>1. /\ user[r] \in users /\ users' = users \ {user[r]}
        /\ logging' = logging \cup {r} /\ pc'[r] = "deleted"
    BY <1>5 DEF DeleteUser, Goto, IInv, TypeOK
  <2>2. Deleters' = Deleters \cup {r}
    BY <1>1, <2>1 DEF Deleters
  <2>3. \A s \in Deleters : user[s] # user[r]
    BY <2>1 DEF IInv, DeletedIsGone
  <2>4. DeletedIsGone'
    BY <1>1, <2>1, <2>2 DEF IInv, DeletedIsGone
  <2>5. GoneWasDeleted'
    BY <1>1, <2>1, <2>2 DEF IInv, GoneWasDeleted
  <2>6. OneDeletionPerAccount'
    BY <1>1, <2>1, <2>2, <2>3, <2>4 DEF IInv, OneDeletionPerAccount, DeletedIsGone
  <2>7. LogTellsOfDeletions'
    BY <1>3, <2>1, <2>2 DEF IInv, LogTellsOfDeletions
  <2> QED
    BY <2>4, <2>5, <2>6, <2>7
<1>6. CASE ~DeleteUser(r)
  <2>1. UNCHANGED <<users, logging>> /\ pc'[r] # "deleted"
    BY <1>6 DEF Start, RequestStep, FindConsents, FindEndpoints, DeliveriesReturn,
                Revoke, DeleteRows, RollBack, Goto, rows, logs, IInv, TypeOK
  <2>2. Deleters' = Deleters
    BY <1>1, <1>2, <2>1 DEF Deleters
  <2> QED
    BY <1>1, <1>3, <2>1, <2>2, LogKeptHolds DEF LogKept
<1> QED
  BY <1>5, <1>6

\* What the database fails ends the request, and starts nothing; what it fails of
\* the log excuses the log.
LEMMA FailureIInv ==
  ASSUME IInv, TypeOK', NEW r \in Requests, StatementFails(r) \/ RecordAudit(r)
  PROVE  IInv'
<1>1. UNCHANGED <<users, user, task, deliveries, received, edited, crashes>>
  BY DEF StatementFails, RecordAudit, rows, History
<1>2. /\ \A s \in Requests : pc'[s] = pc[s] \/ pc'[s] = "dbFailed"
      /\ Deleters' = Deleters
  <2>1. CASE StatementFails(r)
    <3>1. \A s \in Requests : pc'[s] = IF s = r THEN "dbFailed" ELSE pc[s]
      BY <2>1 DEF StatementFails, IInv, TypeOK
    <3>2. pc[r] # "deleted"
      BY <2>1 DEF StatementFails
    <3> QED
      BY <3>1, <3>2 DEF Deleters
  <2>2. CASE RecordAudit(r)
    BY <2>2 DEF RecordAudit, Deleters
  <2> QED
    BY <2>1, <2>2
<1>3. /\ AnswersRecorded' /\ NothingBeforeStart' /\ AllSettled' /\ OneRowPerAttempt'
      /\ DeletedIsGone' /\ GoneWasDeleted' /\ OneDeletionPerAccount'
  BY <1>1, <1>2 DEF IInv, AnswersRecorded, NothingBeforeStart, AllSettled, NotStarted,
                    Settled, OneRowPerAttempt, DeletedIsGone, GoneWasDeleted,
                    OneDeletionPerAccount
<1>4. LogTellsOfDeletions'
  <2>1. \/ /\ dbFailures' # 0 /\ audit' = audit /\ logging' \subseteq logging
        \/ /\ dbFailures' = dbFailures
           /\ audit' \cup logging' = audit \cup logging
    BY BoundsAssumption
       DEF StatementFails, RecordAudit, IInv, TypeOK, logs
  <2> QED
    BY <1>1, <1>2, <2>1 DEF IInv, LogTellsOfDeletions
<1> QED
  BY <1>3, <1>4 DEF IInv

------------------------------------------------------------------------------
(* Administrators, users and crashes.                                      *)

LEMMA ResendIInv ==
  ASSUME IInv, TypeOK', NEW r \in Requests, Resend(r)
  PROVE  IInv'
<1>1. PICK row \in deliveries :
        /\ task' = [task EXCEPT ![r][row.endpoint].pc = "attempt"]
        /\ user' = [user EXCEPT ![r] = user[row.request]]
  BY DEF Resend
<1>2. /\ pc[r] = "idle" /\ pc'[r] = "resending"
      /\ \A s \in Requests \ {r} : pc'[s] = pc[s]
      /\ UNCHANGED <<users, logging, audit, deliveries, received, edited, counters>>
  BY DEF Resend, Goto, IInv, TypeOK, rows, logs, History
<1>3. \A s \in Requests \ {r} : user'[s] = user[s]
  BY <1>1 DEF IInv, TypeOK
<1>4. r \notin Deleters /\ Deleters' = Deleters
  BY <1>2 DEF Deleters
<1>5. /\ \A e \in Endpoints : task[r][e].pc = "none" /\ task[r][e].attempt = 1
      /\ \A d \in deliveries : d.request # r
  BY <1>2 DEF IInv, NothingBeforeStart, NotStarted
<1>6. row.endpoint \in Endpoints
  BY DEF IInv, TypeOK, Delivery
<1>7. \A s \in Requests, e \in Endpoints :
        s # r \/ e # row.endpoint => task'[s][e] = task[s][e]
  BY <1>1, <1>6 DEF IInv, TypeOK
<1>8. task'[r][row.endpoint].pc = "attempt" /\ task'[r][row.endpoint].attempt = 1
  <2>1. task[r] \in [Endpoints -> Task] /\ task[r][row.endpoint] \in Task
    BY <1>6 DEF IInv, TypeOK
  <2>2. task'[r][row.endpoint] = [task[r][row.endpoint] EXCEPT !.pc = "attempt"]
    BY <1>1, <1>6, <2>1 DEF IInv, TypeOK
  <2> QED
    BY <1>5, <1>6, <2>1, <2>2 DEF Task
<1>9. AnswersRecorded'
  BY <1>2, <1>7, <1>8 DEF IInv, AnswersRecorded
<1>10. NothingBeforeStart'
  BY <1>2, <1>7 DEF IInv, NothingBeforeStart, NotStarted
<1>11. AllSettled'
  BY <1>2, <1>7 DEF IInv, AllSettled, Settled
<1>12. DeletedIsGone' /\ GoneWasDeleted' /\ OneDeletionPerAccount' /\ LogTellsOfDeletions'
  <2>1. \A s \in Deleters : s \in Requests /\ user'[s] = user[s]
    BY <1>3, <1>4 DEF Deleters
  <2> QED
    BY <1>2, <1>4, <2>1 DEF IInv, DeletedIsGone, GoneWasDeleted, OneDeletionPerAccount,
                            LogTellsOfDeletions, counters
<1>13. OneRowPerAttempt'
  <2>1. \A e \in Endpoints : StoredAttempts(r, e)' = 1..(1 - 1)
    BY <1>2, <1>5 DEF StoredAttempts
  <2>2. \A s \in Requests, e \in Endpoints :
          StoredAttempts(s, e)' = StoredAttempts(s, e)
    BY <1>2 DEF StoredAttempts
  <2>3. ASSUME NEW e \in Endpoints, task'[r][e].pc # "none"
        PROVE  task'[r][e].pc = "attempt" /\ task'[r][e].attempt = 1
    BY <1>5, <1>7, <1>8, <2>3
  <2> QED
    BY <1>2, <1>7, <2>1, <2>2, <2>3 DEF IInv, OneRowPerAttempt, StoredAttempts
<1> QED
  BY <1>9, <1>10, <1>11, <1>12, <1>13 DEF IInv

\* Edits of an endpoint exempt its rows; the other operations on endpoints and
\* on users touch neither requests nor rows.
LEMMA EditIInv ==
  ASSUME IInv, TypeOK',
         \/ \E e \in Endpoints : SetEnabled(e) \/ ClearDeliveries(e) \/ RemoveEndpoint(e)
         \/ \E u \in Users, x \in References : AddReference(u, x)
  PROVE  IInv'
<1>1. UNCHANGED <<users, pc, user, task, logging, audit, received, dbFailures, crashes>>
  BY DEF SetEnabled, ClearDeliveries, RemoveEndpoint, AddReference, Edit,
         rows, logs, History, counters
<1>2. /\ edited \subseteq edited'
      /\ deliveries' \subseteq deliveries
      /\ \A row \in deliveries \ deliveries' : row.endpoint \in edited'
  BY DEF SetEnabled, ClearDeliveries, RemoveEndpoint, AddReference, Edit,
         rows, History
<1>3. /\ AnswersRecorded' /\ NothingBeforeStart' /\ AllSettled'
  BY <1>1, <1>2 DEF IInv, AnswersRecorded, NothingBeforeStart, AllSettled
<1>5. LogKept
  BY <1>1 DEF LogKept, Deleters
<1>4. OneRowPerAttempt'
  <2>1. \A r \in Requests, e \in Endpoints \ edited' :
          StoredAttempts(r, e)' = StoredAttempts(r, e)
    BY <1>2 DEF StoredAttempts
  <2> QED
    BY <1>1, <1>2, <2>1 DEF IInv, OneRowPerAttempt, StoredAttempts
<1> QED
  BY <1>3, <1>4, <1>5, LogKeptHolds DEF IInv

LEMMA CrashIInv ==
  ASSUME IInv, TypeOK', Crash
  PROVE  IInv'
<1>1. UNCHANGED <<users, deliveries, user, audit, received, edited>>
  BY DEF Crash, rows, logs, History
<1>2. \A r \in Requests :
        \/ pc'[r] = pc[r] /\ pc[r] \in Finished \cup {"idle"}
        \/ pc'[r] = "crashed" /\ pc[r] # "deleted"
  BY DEF Crash, Finished
<1>3. \A r \in Requests, e \in Endpoints :
        \/ task'[r][e] = task[r][e] /\ task[r][e].pc \in {"delivered", "exhausted"}
        \/ task'[r][e].pc = "none" /\ task'[r][e].attempt = 1
  BY DEF Crash, NoTask
<1>4. AnswersRecorded' /\ OneRowPerAttempt'
  BY <1>1, <1>3 DEF IInv, AnswersRecorded, OneRowPerAttempt
<1>5. NothingBeforeStart'
  BY <1>1, <1>2, <1>3 DEF IInv, NothingBeforeStart, NotStarted, Finished
<1>6. AllSettled'
  BY <1>3 DEF AllSettled
<1>7. Deleters' = Deleters
  BY <1>2 DEF Deleters, Finished
<1>8. DeletedIsGone' /\ GoneWasDeleted' /\ OneDeletionPerAccount'
  BY <1>1, <1>7 DEF IInv, DeletedIsGone, GoneWasDeleted, OneDeletionPerAccount
<1>9. LogTellsOfDeletions'
  <2>1. crashes' # 0 /\ logging' = {}
    BY BoundsAssumption DEF Crash, IInv, TypeOK
  <2> QED
    BY <1>1, <1>7, <2>1 DEF IInv, LogTellsOfDeletions
<1> QED
  BY <1>4, <1>5, <1>6, <1>8, <1>9 DEF IInv

LEMMA InductiveStep ==
  ASSUME IInv, [Next]_vars
  PROVE  IInv'
<1>1. TypeOK'
  BY TypeOKStep DEF IInv
<1>2. CASE UNCHANGED vars
  BY <1>1, <1>2 DEF vars, rows, logs, counters, IInv, AnswersRecorded,
                    NothingBeforeStart, AllSettled, DeletedIsGone, GoneWasDeleted,
                    OneDeletionPerAccount, LogTellsOfDeletions, Deleters,
                    OneRowPerAttempt
<1>3. ASSUME NEW r \in Requests, Start(r) \/ RequestStep(r) PROVE IInv'
  BY <1>1, <1>3, RequestStepDeliveries, RequestStepLog DEF IInv
<1>4. ASSUME NEW r \in Requests, NEW e \in Endpoints, TaskStep(r, e) PROVE IInv'
  BY <1>1, <1>4, TaskStepAnswers, TaskStepSettled, TaskStepStored, LogKeptHolds DEF IInv
<1> QED
  BY <1>1, <1>2, <1>3, <1>4, FailureIInv, ResendIInv, EditIInv, CrashIInv DEF Next, Rest

------------------------------------------------------------------------------
(* Results.                                                                *)

\* The invariant above holds in every behaviour.
THEOREM Inductive == Spec => []IInv
<1>1. IInv /\ [Next]_vars => IInv'
  BY InductiveStep
<1> QED
  BY InitIInv, <1>1, PTL DEF Spec

\* A removed account was removed by a request whose deliveries are all over,
\* whatever fails, crashes or is edited meanwhile (deleteAccount.ts:16).
THEOREM NoRemovalBeforeDelivery == Spec => []RemovedAfterDelivery
<1>1. IInv => RemovedAfterDelivery
  <2> SUFFICES ASSUME IInv, NEW u \in Users \ users
               PROVE  \E r \in Requests :
                        /\ pc[r] = "deleted" /\ user[r] = u
                        /\ \A e \in Endpoints : task[r][e].pc = "none" \/ Over(r, e)
    BY DEF RemovedAfterDelivery
  <2>1. PICK r \in Deleters : user[r] = u
    BY DEF IInv, GoneWasDeleted
  <2>2. r \in Requests /\ pc[r] = "deleted"
    BY DEF Deleters
  <2>3. \A e \in Endpoints : task[r][e].pc \in {"none", "delivered", "exhausted"}
    BY <2>2 DEF IInv, AllSettled, Settled
  <2> QED
    BY <2>1, <2>2, <2>3 DEF IInv, AnswersRecorded, Over
<1> QED
  BY Inductive, <1>1, PTL

\* However many requests delete one account, one of them succeeds
\* (deleteAccount.ts:19-24).
THEOREM DeletedOnce == Spec => []OneDeletionPerAccount
<1>1. IInv => OneDeletionPerAccount
  BY DEF IInv
<1> QED
  BY Inductive, <1>1, PTL

\* Every attempt on an endpoint nobody edits has one row (deliver.ts:22-25).
THEOREM AttemptsAreStored == Spec => []OneRowPerAttempt
<1>1. IInv => OneRowPerAttempt
  BY DEF IInv
<1> QED
  BY Inductive, <1>1, PTL

\* The log tells of each deletion and each attempt once; of a deletion it may be
\* silent when the database or the process failed (deleteAccount.ts:26-35).
THEOREM LogIsExact == Spec => []LoggedOnce
<1>1. IInv => LogTellsOfDeletions
  BY DEF IInv
<1> QED
  BY <1>1, Inductive, DeletedOnce, AttemptsAreStored, PTL DEF LoggedOnce

\* No step removes a part of what the transaction removes: consents and
\* references of a user go with the user (deleteAccount.ts:19-24).
THEOREM RemovalIsOneStep == Spec => RemovalIsAtomic
<1> DEFINE Atomic ==
      \A u \in Users :
        \/ consents'[u] # consents[u]
        \/ ~(references[u] \subseteq references'[u])
        => u \in users \ users' /\ references'[u] = {} /\ consents'[u] = {}
<1>1. TypeOK /\ [Next]_vars => [Atomic]_vars
  <2> SUFFICES ASSUME TypeOK, Next, NEW u \in Users,
                      \/ consents'[u] # consents[u]
                      \/ ~(references[u] \subseteq references'[u])
               PROVE  u \in users \ users' /\ references'[u] = {} /\ consents'[u] = {}
    BY DEF Atomic
  <2> USE DEF rows, History, counters
  <2>1. ASSUME NEW r \in Requests, DeleteUser(r)
        PROVE  u \in users \ users' /\ references'[u] = {} /\ consents'[u] = {}
    BY <2>1 DEF DeleteUser, TypeOK
  <2>2. ASSUME NEW r \in Requests, RequestStep(r) \/ Start(r) \/ Resend(r)
        PROVE  DeleteUser(r)
    BY <2>2 DEF RequestStep, Start, Resend, FindConsents, FindEndpoints,
                DeliveriesReturn, Revoke, DeleteRows, RollBack
  <2>3. ~\E r \in Requests, e \in Endpoints : TaskStep(r, e)
    BY TaskStepFrame
  <2>4. ~\E e \in Endpoints : SetEnabled(e) \/ ClearDeliveries(e) \/ RemoveEndpoint(e)
    BY DEF SetEnabled, ClearDeliveries, RemoveEndpoint
  <2>5. ~\E v \in Users, x \in References : AddReference(v, x)
    BY DEF AddReference, TypeOK
  <2>6. ~Crash /\ ~Rest
    BY DEF Crash, Rest, vars
  <2>7. ~\E r \in Requests : StatementFails(r) \/ RecordAudit(r)
    BY DEF StatementFails, RecordAudit
  <2> QED
    BY <2>1, <2>2, <2>3, <2>4, <2>5, <2>6, <2>7 DEF Next
<1> QED
  BY TypeCorrect, <1>1, PTL DEF Spec, RemovalIsAtomic

------------------------------------------------------------------------------
(* Nobody is skipped.  ConsentingClientsAreTold speaks of the step that      *)
(* removes a user; which endpoints are tried was decided two statements     *)
(* earlier, and holds until then because                                     *)
(*   ClearingIsEdited   an endpoint is deleted only once it counts as edited *)
(*   ConsentsAreRead    what findConsents returned is still so as long as    *)
(*                      the user exists                                      *)
(*   EndpointsAreTried  each endpoint of a consenting client that nobody has *)
(*                      edited has a delivery, from findEndpoints on         *)

ClearingIsEdited == clearing \subseteq edited

ConsentsAreRead ==
  \A r \in Requests :
    pc[r] = "findEndpoints" /\ user[r] \in users => clients[r] = consents[user[r]]

Selected == {"delivering", "revoke", "deleteRows", "deleteUser"}

\* An endpoint that the deletion of u owes its event.
Owed(u, e) == /\ ClientOf[e] \in consents[u]
              /\ endpoint[e] = "enabled" /\ e \notin edited

EndpointsAreTried ==
  \A r \in Requests, e \in Endpoints :
    /\ pc[r] \in Selected
    /\ user[r] \in users
    /\ Owed(user[r], e)
    => task[r][e].pc # "none"

ToldInv == ClearingIsEdited /\ ConsentsAreRead /\ EndpointsAreTried

\* No step brings a user or a consent back, or makes an endpoint that nobody
\* edits owe anything new.
LEMMA OwedLasts ==
  ASSUME TypeOK, ClearingIsEdited, [Next]_vars
  PROVE  /\ users' \subseteq users
         /\ edited \subseteq edited'
         /\ \A u \in users' : consents'[u] = consents[u]
         /\ \A e \in Endpoints \ edited' : endpoint'[e] = endpoint[e]
         /\ ClearingIsEdited'
<1> USE DEF rows, History, counters, ClearingIsEdited
<1>1. ASSUME NEW r \in Requests, Start(r) \/ Resend(r) \/ RequestStep(r)
      PROVE  /\ UNCHANGED <<endpoint, edited, clearing>>
             /\ users' \subseteq users
             /\ \A u \in users' : consents'[u] = consents[u]
  <2>1. CASE DeleteUser(r)
    BY <2>1 DEF DeleteUser, TypeOK
  <2>2. CASE ~DeleteUser(r)
    BY <1>1, <2>2 DEF Start, Resend, RequestStep, FindConsents, FindEndpoints,
                      DeliveriesReturn, Revoke, DeleteRows, RollBack
  <2> QED
    BY <2>1, <2>2
<1>2. ASSUME NEW r \in Requests, NEW e \in Endpoints, TaskStep(r, e)
      PROVE  UNCHANGED <<users, consents, endpoint, edited, clearing>>
  BY <1>2 DEF TaskStep, Attempt, LogSuccess, LogFailure, Throw, TaskFrame,
              StoreDelivery, StoreDeliveryThrows
<1>3. ASSUME NEW e \in Endpoints, SetEnabled(e) \/ ClearDeliveries(e)
      PROVE  /\ UNCHANGED <<users, consents>>
             /\ edited' = edited \cup {e} /\ clearing' \subseteq clearing \cup {e}
             /\ \A d \in Endpoints \ {e} : endpoint'[d] = endpoint[d]
  BY <1>3 DEF SetEnabled, ClearDeliveries, Edit, TypeOK
<1>4. ASSUME NEW e \in Endpoints, RemoveEndpoint(e)
      PROVE  /\ UNCHANGED <<users, consents, edited>>
             /\ e \in edited /\ clearing' \subseteq clearing
             /\ \A d \in Endpoints \ {e} : endpoint'[d] = endpoint[d]
  BY <1>4 DEF RemoveEndpoint, TypeOK
<1>5. ASSUME \/ \E u \in Users, x \in References : AddReference(u, x)
             \/ \E r \in Requests : StatementFails(r) \/ RecordAudit(r)
             \/ Crash
             \/ UNCHANGED vars
      PROVE  /\ UNCHANGED <<users, consents, endpoint, edited>>
             /\ clearing' \subseteq clearing
  BY <1>5 DEF AddReference, StatementFails, RecordAudit, Crash, vars
<1> QED
  BY <1>1, <1>2, <1>3, <1>4, <1>5 DEF Next, Rest

\* Where a request can be after a step, and what it keeps, unless it is the step
\* of FindConsents or FindEndpoints that this step takes.
LEMMA SelectionLasts ==
  ASSUME IInv, [Next]_vars, NEW r \in Requests, pc'[r] \in Selected \cup {"findEndpoints"}
  PROVE  \/ FindConsents(r)
         \/ FindEndpoints(r)
         \/ /\ user'[r] = user[r] /\ clients'[r] = clients[r]
            /\ pc'[r] = "findEndpoints" => pc[r] = "findEndpoints"
            /\ pc'[r] \in Selected => pc[r] \in Selected
            /\ \A e \in Endpoints : task'[r][e].pc = "none" => task[r][e].pc = "none"
<1> DEFINE Kept ==
      /\ user'[r] = user[r] /\ clients'[r] = clients[r]
      /\ pc'[r] = "findEndpoints" => pc[r] = "findEndpoints"
      /\ pc'[r] \in Selected => pc[r] \in Selected
      /\ \A e \in Endpoints : task'[r][e].pc = "none" => task[r][e].pc = "none"
<1> USE DEF rows, History, counters
<1>1. ASSUME NEW s \in Requests, Start(s) \/ RequestStep(s)
      PROVE  Kept \/ FindConsents(r) \/ FindEndpoints(r)
  <2>1. CASE s = r /\ ~FindConsents(r) /\ ~FindEndpoints(r)
    <3>1. UNCHANGED <<user, clients, task>>
      BY <1>1, <2>1 DEF Start, RequestStep, DeliveriesReturn, Revoke, DeleteRows,
                        DeleteUser, RollBack
    <3>2. /\ pc'[r] # "findEndpoints"
          /\ pc'[r] \in Selected => pc[r] \in Selected
      BY <1>1, <2>1 DEF Start, RequestStep, DeliveriesReturn, Revoke, DeleteRows,
                        DeleteUser, RollBack, Goto, Selected, IInv, TypeOK
    <3> QED
      BY <3>1, <3>2
  <2>2. CASE s # r
    <3>1. UNCHANGED user /\ pc'[r] = pc[r]
      BY <1>1, <2>2, RequestStepFrame DEF IInv
    <3>2. \A e \in Endpoints : task'[r][e] = task[r][e]
      BY <1>1, <2>2, RequestStepTasks DEF IInv
    <3>3. clients'[r] = clients[r]
      BY <1>1, <2>2 DEF Start, RequestStep, FindConsents, FindEndpoints,
                        DeliveriesReturn, Revoke, DeleteRows, DeleteUser, RollBack,
                        IInv, TypeOK
    <3> QED
      BY <3>1, <3>2, <3>3
  <2> QED
    BY <2>1, <2>2
<1>2. ASSUME NEW s \in Requests, Resend(s)
      PROVE  Kept
  <2>1. PICK row \in deliveries :
          /\ task' = [task EXCEPT ![s][row.endpoint].pc = "attempt"]
          /\ user' = [user EXCEPT ![s] = user[row.request]]
    BY <1>2 DEF Resend
  <2>2. /\ pc'[s] = "resending" /\ clients' = clients
        /\ \A q \in Requests \ {s} : pc'[q] = pc[q]
    BY <1>2 DEF Resend, Goto, IInv, TypeOK
  <2>3. s # r
    BY <2>2 DEF Selected
  <2>4. user'[r] = user[r] /\ task'[r] = task[r]
    BY <2>1, <2>3 DEF IInv, TypeOK
  <2> QED
    BY <2>2, <2>3, <2>4
<1>3. ASSUME NEW s \in Requests, NEW d \in Endpoints, TaskStep(s, d)
      PROVE  Kept
  <2>1. UNCHANGED <<user, clients>>
    BY <1>3 DEF TaskStep, Attempt, LogSuccess, LogFailure, Throw, TaskFrame
  <2>2. pc'[r] = pc[r]
    <3>1. /\ \A q \in Requests \ {s} : pc'[q] = pc[q]
          /\ pc'[s] \in {pc[s], "failed"}
      BY <1>3, TaskStepRequest
    <3> QED
      BY <3>1 DEF Selected
  <2>3. PICK to, n : OneTask(s, d, to, n) /\ to # "none"
    BY <1>3, TaskStepRunning DEF IInv
  <2>4. \A e \in Endpoints : task'[r][e].pc = "none" => task[r][e].pc = "none"
    BY <2>3 DEF OneTask
  <2> QED
    BY <2>1, <2>2, <2>4
<1>4. ASSUME \/ \E e \in Endpoints :
                  SetEnabled(e) \/ ClearDeliveries(e) \/ RemoveEndpoint(e)
             \/ \E u \in Users, x \in References : AddReference(u, x)
             \/ UNCHANGED vars
      PROVE  Kept
  <2>1. UNCHANGED <<pc, user, clients, task>>
    BY <1>4 DEF SetEnabled, ClearDeliveries, RemoveEndpoint, AddReference, Edit, vars
  <2> QED
    BY <2>1
<1>5. ~Crash
  BY DEF Crash, Finished, Selected
<1>6. ASSUME NEW s \in Requests, StatementFails(s) \/ RecordAudit(s)
      PROVE  Kept
  <2>1. UNCHANGED <<user, clients, task>> /\ pc'[r] \in {pc[r], "dbFailed"}
    BY <1>6 DEF StatementFails, RecordAudit, IInv, TypeOK
  <2> QED
    BY <2>1 DEF Selected
<1> QED
  BY <1>1, <1>2, <1>3, <1>4, <1>5, <1>6 DEF Next, Rest

LEMMA ToldInvStep ==
  ASSUME IInv, ToldInv, [Next]_vars
  PROVE  ToldInv'
<1>1. /\ users' \subseteq users
      /\ edited \subseteq edited'
      /\ \A u \in users' : consents'[u] = consents[u]
      /\ \A e \in Endpoints \ edited' : endpoint'[e] = endpoint[e]
      /\ ClearingIsEdited'
  BY OwedLasts DEF IInv, ToldInv
<1>2. \A u \in users', e \in Endpoints : Owed(u, e)' => Owed(u, e)
  BY <1>1 DEF Owed
<1>3. ConsentsAreRead'
  <2> SUFFICES ASSUME NEW r \in Requests, pc'[r] = "findEndpoints",
                      user'[r] \in users'
               PROVE  clients'[r] = consents'[user'[r]]
    BY DEF ConsentsAreRead
  <2>1. CASE FindConsents(r)
    BY <2>1 DEF FindConsents, IInv, TypeOK, rows
  <2>2. ~FindEndpoints(r)
    BY DEF FindEndpoints, Goto, IInv, TypeOK
  <2>3. CASE /\ user'[r] = user[r] /\ clients'[r] = clients[r]
             /\ pc[r] = "findEndpoints"
    BY <1>1, <2>3 DEF ToldInv, ConsentsAreRead
  <2> QED
    BY <2>1, <2>2, <2>3, SelectionLasts
<1>4. EndpointsAreTried'
  <2> SUFFICES ASSUME NEW r \in Requests, NEW e \in Endpoints, pc'[r] \in Selected,
                      user'[r] \in users', Owed(user[r], e)'
               PROVE  task'[r][e].pc # "none"
    BY DEF EndpointsAreTried
  <2>1. user'[r] = user[r]
    BY SelectionLasts DEF FindConsents, FindEndpoints
  <2>2. user[r] \in users /\ Owed(user[r], e)
    <3>1. user[r] \in users' /\ Owed(user[r], e)'
      BY <2>1 DEF Owed
    <3> QED
      BY <1>1, <1>2, <2>1, <3>1 DEF Owed
  <2>3. CASE FindConsents(r)
    <3>1. consents[user[r]] = {}
      BY <2>3 DEF FindConsents, Goto, Selected, IInv, TypeOK
    <3> QED
      BY <2>2, <3>1 DEF Owed
  <2>4. CASE FindEndpoints(r)
    <3>1. clients[r] = consents[user[r]]
      BY <2>2, <2>4 DEF FindEndpoints, Goto, ToldInv, ConsentsAreRead
    <3>2. task'[r][e] = [NoTask EXCEPT !.pc = "attempt"]
      BY <2>2, <2>4, <3>1 DEF FindEndpoints, Owed, IInv, TypeOK
    <3> QED
      BY <3>2 DEF NoTask
  <2>5. CASE /\ pc[r] \in Selected
             /\ task'[r][e].pc = "none" => task[r][e].pc = "none"
    BY <2>2, <2>5 DEF ToldInv, EndpointsAreTried
  <2> QED
    BY <2>3, <2>4, <2>5, SelectionLasts
<1> QED
  BY <1>1, <1>3, <1>4 DEF ToldInv

\* No consenting client is skipped, whatever crashes, fails or is edited and
\* however many requests delete the account (deliver.ts:95-106).
THEOREM NobodyIsSkipped == Spec => ConsentingClientsAreTold
<1> DEFINE Told ==
      \A u \in users \ users', e \in Endpoints :
        /\ ClientOf[e] \in consents[u]
        /\ endpoint[e] = "enabled" /\ e \notin edited
        => \E r \in Requests : user[r] = u /\ Over(r, e)
<1>1. Init => ToldInv
  BY DEF Init, ToldInv, ClearingIsEdited, ConsentsAreRead, EndpointsAreTried, Selected
<1>2. IInv /\ ToldInv /\ [Next]_vars => ToldInv'
  BY ToldInvStep
<1>3. IInv /\ ToldInv /\ [Next]_vars => [Told]_vars
  <2> SUFFICES ASSUME IInv, ToldInv, [Next]_vars,
                      NEW u \in users \ users', NEW e \in Endpoints, Owed(u, e)
               PROVE  \E r \in Requests : user[r] = u /\ Over(r, e)
    BY DEF Owed
  <2>1. PICK r \in Requests : DeleteUser(r)
    <3>1. ASSUME NEW r \in Requests, RequestStep(r) \/ Start(r) \/ Resend(r)
          PROVE  DeleteUser(r)
      BY <3>1 DEF RequestStep, Start, Resend, FindConsents, FindEndpoints,
                  DeliveriesReturn, Revoke, DeleteRows, RollBack, rows
    <3>2. ~\E r \in Requests, d \in Endpoints : TaskStep(r, d)
      BY TaskStepFrame DEF IInv
    <3>3. ~\/ \E d \in Endpoints :
                SetEnabled(d) \/ ClearDeliveries(d) \/ RemoveEndpoint(d)
           \/ \E v \in Users, x \in References : AddReference(v, x)
           \/ \E q \in Requests : StatementFails(q) \/ RecordAudit(q)
           \/ Crash
           \/ UNCHANGED vars
      BY DEF SetEnabled, ClearDeliveries, RemoveEndpoint, AddReference, StatementFails,
             RecordAudit, Crash, vars, rows
    <3> QED
      BY <3>1, <3>2, <3>3 DEF Next, Rest
  <2>2. user[r] = u /\ pc[r] = "deleteUser" /\ u \in users
    BY <2>1 DEF DeleteUser, Goto
  <2>3. task[r][e].pc # "none"
    BY <2>2 DEF ToldInv, EndpointsAreTried, Selected
  <2>4. task[r][e].pc \in {"delivered", "exhausted"}
    BY <2>2, <2>3 DEF IInv, AllSettled, Settled
  <2> QED
    BY <2>2, <2>4 DEF IInv, AnswersRecorded, Over
<1> QED
  BY Inductive, <1>1, <1>2, <1>3, PTL DEF Spec, ConsentingClientsAreTold
==============================================================================
