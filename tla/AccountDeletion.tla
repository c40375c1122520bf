---------------------------- MODULE AccountDeletion ----------------------------
(***************************************************************************)
(* deleteUserAccount (account/deleteAccount.ts) with the webhook delivery   *)
(* it waits for (webhooks/deliver.ts), while administrators edit and delete *)
(* webhook endpoints, resend deliveries and grant roles, database           *)
(* statements fail and the process crashes.                                 *)
(*                                                                          *)
(* The rows of oidc-provider are reduced to which clients hold a grant of   *)
(* a user: how revokeAllOidcStateForUser removes them statement by          *)
(* statement is the subject of OidcSessions.  A reference is a UserRole or  *)
(* LinkedIdentity row: its foreign key forbids deleting the User row.       *)
(***************************************************************************)
EXTENDS Integers, FiniteSets

CONSTANTS
  Requests,       \* deletion and resend requests of a behaviour (bound)
  Users,
  Clients,
  Endpoints,      \* rows of WebhookEndpoint
  ClientOf,       \* ClientOf[e]: the client that registered endpoint e
  FirstGrants,   \* clients that hold a grant of each user at the start
  References,     \* UserRole and LinkedIdentity rows a user may get (bound)
  MaxAttempts,    \* MAX_ATTEMPTS, deliver.ts:7
  MaxEdits,       \* PATCH and DELETE calls on endpoints (bound)
  MaxDbFailures,  \* statements that the database fails (bound)
  MaxCrashes      \* crashes of the process (bound)

ASSUME ClientOfAssumption == ClientOf \in [Endpoints -> Clients]

ASSUME MaxAttemptsAssumption == MaxAttempts \in Nat \ {0}

ASSUME FirstGrantsAssumption == FirstGrants \in [Users -> SUBSET Clients]

ASSUME BoundsAssumption ==
  MaxEdits \in Nat /\ MaxDbFailures \in Nat /\ MaxCrashes \in Nat

VARIABLES
  users,       \* User rows that exist
  consents,    \* consents[u]: clients with a ClientConsent row of u
  references,  \* references[u]: rows that reference the User row of u
  grants,      \* grants[u]: clients that hold an oidc-provider grant of u
  endpoint,    \* endpoint[e]: state of the WebhookEndpoint row
  clearing,    \* endpoints whose DELETE handler is between its statements
  deliveries,  \* WebhookDelivery rows
  pc,          \* pc[r]: where request r is
  user,        \* user[r]: the user it deletes
  clients,     \* clients[r]: the local clientIds
  task,        \* task[r][e]: the run of deliverToEndpoint for e
  removed,     \* removed[r]: references its open transaction has deleted
  late,        \* requests with a reference added beside their transaction (history)
  logging,     \* requests whose recordAuditEvent("account.deleted") is running
  audit,       \* requests with an account.deleted row
  received,    \* <<r, e, n>>: e got attempt n of r (history)
  edited,      \* endpoints an administrator changed (history)
  edits, dbFailures, crashes

rows == <<users, consents, references, grants, endpoint, deliveries>>
counters == <<edits, dbFailures, crashes>>
logs == <<late, logging, audit>>
vars == <<rows, clearing, pc, user, clients, task, removed, logs, received,
          edited, counters>>

RequestPCs == {"idle", "findConsents", "findEndpoints", "delivering", "resending",
               "revoke", "deleteRows", "deleteUser", "deleted", "done", "failed",
               "dbFailed", "crashed"}

TaskPCs == {"none", "attempt", "logSuccess", "logFailure",
            "delivered", "exhausted", "threw"}

Finished == {"deleted", "done", "failed", "dbFailed", "crashed"}

Task == [pc : TaskPCs, attempt : 1..MaxAttempts]

Delivery == [request : Requests, endpoint : Endpoints,
             attempt : 1..MaxAttempts, ok : BOOLEAN]

NoTask == [pc |-> "none", attempt |-> 1]

TypeOK ==
  /\ users \subseteq Users
  /\ consents \in [Users -> SUBSET Clients]
  /\ references \in [Users -> SUBSET References]
  /\ grants \in [Users -> SUBSET Clients]
  /\ endpoint \in [Endpoints -> {"enabled", "disabled", "deleted"}]
  /\ clearing \subseteq Endpoints
  /\ deliveries \subseteq Delivery
  /\ pc \in [Requests -> RequestPCs]
  /\ user \in [Requests -> Users]
  /\ clients \in [Requests -> SUBSET Clients]
  /\ task \in [Requests -> [Endpoints -> Task]]
  /\ removed \in [Requests -> SUBSET References]
  /\ late \subseteq Requests /\ logging \subseteq Requests /\ audit \subseteq Requests
  /\ received \subseteq Requests \X Endpoints \X (1..MaxAttempts)
  /\ edited \subseteq Endpoints
  /\ edits \in 0..MaxEdits
  /\ dbFailures \in 0..MaxDbFailures
  /\ crashes \in 0..MaxCrashes

\* No statement of the server inserts a ClientConsent row: which ones exist is
\* part of the initial state, whoever wrote them.
Init ==
  /\ users = Users
  /\ consents \in [Users -> SUBSET Clients]
  /\ references = [u \in Users |-> {}]
  /\ grants = FirstGrants
  /\ endpoint \in [Endpoints -> {"enabled", "disabled"}]
  /\ clearing = {}
  /\ deliveries = {}
  /\ pc = [r \in Requests |-> "idle"]
  /\ user \in [Requests -> Users]
  /\ clients = [r \in Requests |-> {}]
  /\ task = [r \in Requests |-> [e \in Endpoints |-> NoTask]]
  /\ removed = [r \in Requests |-> {}]
  /\ late = {} /\ logging = {} /\ audit = {}
  /\ received = {}
  /\ edited = {}
  /\ edits = 0 /\ dbFailures = 0 /\ crashes = 0

------------------------------------------------------------------------------
(* A deletion request, statement by statement.                             *)

Goto(r, from, to) ==
  /\ pc[r] = from
  /\ pc' = [pc EXCEPT ![r] = to]

History == <<received, edited>>

\* POST /account/delete and DELETE /admin/users/:id.
Start(r) ==
  /\ Goto(r, "idle", "findConsents")
  /\ UNCHANGED <<rows, clearing, user, clients, task, removed, logs, History,
                 counters>>

\* deliverUserDeletedWebhook: which clients have a ClientConsent of the user.
FindConsents(r) ==
  LET found == consents[user[r]] IN
  /\ Goto(r, "findConsents", IF found = {} THEN "revoke" ELSE "findEndpoints")
  /\ clients' = [clients EXCEPT ![r] = found]
  /\ UNCHANGED <<rows, clearing, user, task, removed, logs, History, counters>>

\* Mutant: findFirst in the place of findMany.
FindOneEndpoint(r) ==
  LET found == {e \in Endpoints : ClientOf[e] \in clients[r]
                                    /\ endpoint[e] = "enabled"} IN
  /\ Goto(r, "findEndpoints", IF found = {} THEN "revoke" ELSE "delivering")
  /\ \E first \in Endpoints :
       /\ found # {} => first \in found
       /\ task' = IF found = {} THEN task
                  ELSE [task EXCEPT ![r][first].pc = "attempt"]
  /\ UNCHANGED <<rows, clearing, user, clients, removed, logs, History, counters>>

\* The enabled endpoints of those clients; deliverToEndpoint starts for each.
FindEndpoints(r) ==
  LET found == {e \in Endpoints : ClientOf[e] \in clients[r]
                                    /\ endpoint[e] = "enabled"} IN
  /\ Goto(r, "findEndpoints", IF found = {} THEN "revoke" ELSE "delivering")
  /\ task' = [task EXCEPT ![r] =
       [e \in Endpoints |->
          IF e \in found THEN [NoTask EXCEPT !.pc = "attempt"] ELSE NoTask]]
  /\ UNCHANGED <<rows, clearing, user, clients, removed, logs, History, counters>>

\* Mutant: Promise.race, the first delivery to return is enough.
OneDeliveryReturns(r) ==
  /\ \E e \in Endpoints : task[r][e].pc \in {"delivered", "exhausted"}
  /\ \/ Goto(r, "delivering", "revoke")
     \/ Goto(r, "resending", "done")
  /\ UNCHANGED <<rows, clearing, user, clients, task, removed, logs, History,
                 counters>>

\* Promise.all: every delivery has returned.
DeliveriesReturn(r) ==
  /\ \A e \in Endpoints : task[r][e].pc \in {"none", "delivered", "exhausted"}
  /\ \/ Goto(r, "delivering", "revoke")
     \/ Goto(r, "resending", "done")
  /\ UNCHANGED <<rows, clearing, user, clients, task, removed, logs, History,
                 counters>>

Revoke(r) ==
  /\ Goto(r, "revoke", "deleteRows")
  /\ grants' = [grants EXCEPT ![user[r]] = {}]
  /\ UNCHANGED <<users, consents, references, endpoint, deliveries, clearing,
                 user, clients, task, removed, logs, History, counters>>

\* Mutant: no transaction, the first deleteMany commits on its own.
DeleteRowsCommits(r) ==
  /\ Goto(r, "deleteRows", "deleteUser")
  /\ references' = [references EXCEPT ![user[r]] = {}]
  /\ UNCHANGED <<users, consents, grants, endpoint, deliveries, clearing, user,
                 clients, task, removed, logs, History, counters>>

\* Mutant: one deleteMany is missing.
DeleteNoRows(r) ==
  /\ Goto(r, "deleteRows", "deleteUser")
  /\ UNCHANGED <<rows, clearing, user, clients, task, removed, logs, History, counters>>

\* The transaction opens and deletes the rows that reference the user; no other
\* request sees that before it commits.
DeleteRows(r) ==
  /\ Goto(r, "deleteRows", "deleteUser")
  /\ removed' = [removed EXCEPT ![r] = references[user[r]]]
  /\ UNCHANGED <<rows, clearing, user, clients, task, logs, History, counters>>

\* Mutant: deleteMany in the place of delete, which does not mind a missing row.
DeleteUserTwice(r) ==
  LET u == user[r] IN
  /\ references[u] \subseteq removed[r]
  /\ Goto(r, "deleteUser", "deleted")
  /\ users' = users \ {u}
  /\ references' = [references EXCEPT ![u] = {}]
  /\ consents' = [consents EXCEPT ![u] = {}]
  /\ logging' = logging \cup {r}
  /\ UNCHANGED <<grants, endpoint, deliveries, clearing, user, clients, task,
                 removed, late, audit, History, counters>>

\* user.delete finds the row and no reference added meanwhile: commit.  The request
\* is answered now; recordAuditEvent is not awaited.
DeleteUser(r) ==
  LET u == user[r] IN
  /\ u \in users /\ references[u] \subseteq removed[r]
  /\ Goto(r, "deleteUser", "deleted")
  /\ users' = users \ {u}
  /\ references' = [references EXCEPT ![u] = {}]
  /\ consents' = [consents EXCEPT ![u] = {}]
  /\ logging' = logging \cup {r}
  /\ UNCHANGED <<grants, endpoint, deliveries, clearing, user, clients, task,
                 removed, late, audit, History, counters>>

\* user.delete throws: the transaction rolls back and the request fails.
RollBack(r) ==
  /\ user[r] \notin users \/ ~(references[user[r]] \subseteq removed[r])
  /\ Goto(r, "deleteUser", "failed")
  /\ UNCHANGED <<rows, clearing, user, clients, task, removed, logs, History,
                 counters>>

\* Any statement that the request awaits may fail, and with it the request; of
\* the deleteMany calls of revokeAllOidcStateForUser some may have run by then.
StatementFails(r) ==
  /\ pc[r] \in {"findConsents", "findEndpoints", "revoke", "deleteRows", "deleteUser"}
  /\ pc' = [pc EXCEPT ![r] = "dbFailed"]
  /\ dbFailures < MaxDbFailures /\ dbFailures' = dbFailures + 1
  /\ \E kept \in SUBSET grants[user[r]] :
       /\ pc[r] # "revoke" => kept = grants[user[r]]
       /\ grants' = [grants EXCEPT ![user[r]] = kept]
  /\ UNCHANGED <<users, consents, references, endpoint, deliveries, clearing, user,
                 clients, task, removed, logs, History, edits, crashes>>

\* recordAuditEvent inserts its row after the request was answered; a failing
\* INSERT is caught and forgotten.
RecordAudit(r) ==
  /\ r \in logging /\ logging' = logging \ {r}
  /\ \/ audit' = audit \cup {r} /\ UNCHANGED dbFailures
     \/ /\ dbFailures < MaxDbFailures /\ dbFailures' = dbFailures + 1
        /\ UNCHANGED audit
  /\ UNCHANGED <<rows, clearing, pc, user, clients, task, removed, late, History,
                 edits, crashes>>

------------------------------------------------------------------------------
(* deliverToEndpoint.                                                      *)

TaskGoto(r, e, from, to) ==
  /\ pc[r] # "crashed"
  /\ task[r][e].pc = from
  /\ task' = [task EXCEPT ![r][e].pc = to]

\* assertSafeWebhookUrl and fetch: refused, answered 2xx, answered otherwise or
\* not at all; in the last case the receiver may have acted on it or not.
Attempt(r, e) ==
  /\ \/ /\ TaskGoto(r, e, "attempt", "logSuccess")
        /\ received' = received \cup {<<r, e, task[r][e].attempt>>}
     \/ /\ TaskGoto(r, e, "attempt", "logFailure")
        /\ received' \in {received, received \cup {<<r, e, task[r][e].attempt>>}}
  /\ UNCHANGED <<rows, clearing, pc, user, clients, removed, logs,
                 edited, counters>>

NewDelivery(r, e, ok) ==
  [request |-> r, endpoint |-> e, attempt |-> task[r][e].attempt, ok |-> ok]

\* webhookDelivery.create succeeds while the endpoint row it references exists.
StoreDelivery(r, e, ok) ==
  /\ endpoint[e] # "deleted"
  /\ deliveries' = deliveries \cup {NewDelivery(r, e, ok)}
  /\ UNCHANGED <<users, consents, references, grants, endpoint, dbFailures>>

\* It throws when the endpoint is gone, or when the database fails it.
StoreDeliveryThrows(e) ==
  /\ \/ endpoint[e] = "deleted" /\ UNCHANGED dbFailures
     \/ dbFailures < MaxDbFailures /\ dbFailures' = dbFailures + 1
  /\ UNCHANGED rows

TaskFrame == UNCHANGED <<clearing, user, clients, removed, logs, History,
                         edits, crashes>>

\* Mutant: what create throws is dropped and the next attempt follows.
LogSuccessDropped(r, e) ==
  /\ \/ TaskGoto(r, e, "logSuccess", "delivered") /\ StoreDelivery(r, e, TRUE)
     \/ TaskGoto(r, e, "logSuccess", "delivered") /\ StoreDeliveryThrows(e)
  /\ UNCHANGED pc /\ TaskFrame

\* The 2xx branch, inside the try: what create throws is caught and becomes a
\* failed attempt.
LogSuccess(r, e) ==
  /\ \/ TaskGoto(r, e, "logSuccess", "delivered") /\ StoreDelivery(r, e, TRUE)
     \/ TaskGoto(r, e, "logSuccess", "logFailure") /\ StoreDeliveryThrows(e)
  /\ UNCHANGED pc /\ TaskFrame

\* Mutant: one attempt too many.
LogFailureOffByOne(r, e) ==
  /\ StoreDelivery(r, e, FALSE)
  /\ IF task[r][e].attempt > MaxAttempts
     THEN TaskGoto(r, e, "logFailure", "exhausted")
     ELSE /\ pc[r] # "crashed" /\ task[r][e].pc = "logFailure"
          /\ task' = [task EXCEPT ![r][e] =
                        [pc |-> "attempt", attempt |-> @.attempt + 1]]
  /\ UNCHANGED pc /\ TaskFrame

\* The failed attempt is stored; then the next attempt, or the loop is over.
LogFailure(r, e) ==
  /\ StoreDelivery(r, e, FALSE)
  /\ IF task[r][e].attempt = MaxAttempts
     THEN TaskGoto(r, e, "logFailure", "exhausted")
     ELSE /\ pc[r] # "crashed" /\ task[r][e].pc = "logFailure"
          /\ task' = [task EXCEPT ![r][e] =
                        [pc |-> "attempt", attempt |-> @.attempt + 1]]
  /\ UNCHANGED pc /\ TaskFrame

\* create throws outside the try: deliverToEndpoint rejects, Promise.all rejects
\* and the request fails, while the other deliveries keep running.
Throw(r, e) ==
  /\ TaskGoto(r, e, "logFailure", "threw")
  /\ StoreDeliveryThrows(e)
  /\ pc' = [pc EXCEPT ![r] = IF @ \in {"delivering", "resending"}
                              THEN "failed" ELSE @]
  /\ TaskFrame

------------------------------------------------------------------------------
(* Administrators, users and failures around it.                           *)

\* POST /admin/webhooks/:id/deliveries/:deliveryId/resend runs the same loop.
Resend(r) ==
  \E row \in deliveries :
    /\ Goto(r, "idle", "resending")
    /\ task' = [task EXCEPT ![r][row.endpoint].pc = "attempt"]
    /\ user' = [user EXCEPT ![r] = user[row.request]]
    /\ UNCHANGED <<rows, clearing, clients, removed, logs, History, counters>>

Edit(e) ==
  /\ edits < MaxEdits
  /\ edits' = edits + 1
  /\ edited' = edited \cup {e}
  /\ UNCHANGED <<pc, user, clients, task, removed, logs, received,
                 dbFailures, crashes>>

\* PATCH /admin/webhooks/:id
SetEnabled(e) ==
  /\ endpoint[e] # "deleted"
  /\ \E state \in {"enabled", "disabled"} :
        endpoint' = [endpoint EXCEPT ![e] = state]
  /\ Edit(e)
  /\ UNCHANGED <<users, consents, references, grants, deliveries, clearing>>

\* DELETE /admin/webhooks/:id, first statement: the endpoint's deliveries go.
ClearDeliveries(e) ==
  /\ endpoint[e] # "deleted" /\ e \notin clearing
  /\ clearing' = clearing \cup {e}
  /\ deliveries' = {row \in deliveries : row.endpoint # e}
  /\ Edit(e)
  /\ UNCHANGED <<users, consents, references, grants, endpoint>>

\* Second statement: refused when a delivery was stored in between.
RemoveEndpoint(e) ==
  /\ e \in clearing
  /\ clearing' = clearing \ {e}
  /\ endpoint' = IF \E row \in deliveries : row.endpoint = e
                 THEN endpoint ELSE [endpoint EXCEPT ![e] = "deleted"]
  /\ UNCHANGED <<users, consents, references, grants, deliveries, pc, user,
                 clients, task, removed, logs, History, counters>>

\* An administrator grants a role, or the user links an identity.
AddReference(u, x) ==
  /\ u \in users /\ x \notin references[u]
  /\ references' = [references EXCEPT ![u] = @ \cup {x}]
  /\ late' = late \cup {r \in Requests : pc[r] = "deleteUser" /\ user[r] = u}
  /\ UNCHANGED <<users, consents, grants, endpoint, deliveries, clearing, pc,
                 user, clients, task, removed, logging, audit, History, counters>>

\* Everything in memory is lost; an open transaction never commits.
Crash ==
  /\ crashes < MaxCrashes
  /\ crashes' = crashes + 1
  /\ pc' = [r \in Requests |-> IF pc[r] \in Finished \cup {"idle"}
                                THEN pc[r] ELSE "crashed"]
  /\ task' = [r \in Requests |-> [e \in Endpoints |->
       IF task[r][e].pc \in {"delivered", "exhausted"} THEN task[r][e] ELSE NoTask]]
  /\ clearing' = {} /\ logging' = {}
  /\ UNCHANGED <<rows, user, clients, removed, late, audit, History, edits, dbFailures>>

Quiet ==
  /\ \A r \in Requests : pc[r] \in Finished
  /\ \A r \in Requests, e \in Endpoints :
        task[r][e].pc \notin {"attempt", "logSuccess", "logFailure"}
  /\ clearing = {} /\ logging = {}

\* Nothing is left to run: the behaviour may end here.
Rest == Quiet /\ UNCHANGED vars

RequestStep(r) ==
  \/ FindConsents(r) \/ FindEndpoints(r) \/ DeliveriesReturn(r)
  \/ Revoke(r) \/ DeleteRows(r) \/ DeleteUser(r) \/ RollBack(r)

TaskStep(r, e) == Attempt(r, e) \/ LogSuccess(r, e) \/ LogFailure(r, e) \/ Throw(r, e)

Next ==
  \/ \E r \in Requests : Start(r) \/ Resend(r) \/ RequestStep(r)
  \/ \E r \in Requests : StatementFails(r) \/ RecordAudit(r)
  \/ \E r \in Requests, e \in Endpoints : TaskStep(r, e)
  \/ \E e \in Endpoints : SetEnabled(e) \/ ClearDeliveries(e) \/ RemoveEndpoint(e)
  \/ \E u \in Users, x \in References : AddReference(u, x)
  \/ Crash
  \/ Rest

\* Node resumes every handler whose statement, fetch or timer has returned, and
\* each of them returns (fetch gives up after its built-in time limits).
\* Administrators, users and failures owe nothing.
Fairness ==
  /\ \A r \in Requests : WF_vars(RequestStep(r))
  /\ \A r \in Requests, e \in Endpoints : WF_vars(TaskStep(r, e))

Spec == Init /\ [][Next]_vars

FairSpec == Spec /\ Fairness

------------------------------------------------------------------------------
(* Properties.                                                             *)

\* Delivery of r's event to e is over: acknowledged, or tried MaxAttempts times.
Over(r, e) ==
  \/ /\ task[r][e].pc = "delivered"
     /\ <<r, e, task[r][e].attempt>> \in received
  \/ task[r][e].pc = "exhausted" /\ task[r][e].attempt = MaxAttempts

\* The account goes only after its events: the request that deleted a user has
\* no delivery running, thrown or unacknowledged before its last attempt
\* (deleteAccount.ts:16, deliver.ts:106).
RemovedAfterDelivery ==
  \A u \in Users \ users :
    \E r \in Requests :
      /\ pc[r] = "deleted" /\ user[r] = u
      /\ \A e \in Endpoints : task[r][e].pc = "none" \/ Over(r, e)

\* No consenting client is skipped: when a user is removed, an enabled endpoint
\* that no administrator touched, of a client with a ClientConsent row, has been
\* told or given up on (deliver.ts:95-106).
ConsentingClientsAreTold ==
  [][\A u \in users \ users', e \in Endpoints :
       /\ ClientOf[e] \in consents[u]
       /\ endpoint[e] = "enabled" /\ e \notin edited
       => \E r \in Requests : user[r] = u /\ Over(r, e)]_vars

\* The transaction is all or nothing: consents and references of a user are
\* removed in the step that removes the user, whoever adds references meanwhile
\* (deleteAccount.ts:19-24).
RemovalIsAtomic ==
  [][\A u \in Users :
       \/ consents'[u] # consents[u]
       \/ ~(references[u] \subseteq references'[u])
       => u \in users \ users' /\ references'[u] = {} /\ consents'[u] = {}]_vars

Deleters == {r \in Requests : pc[r] = "deleted"}

\* Of all requests to delete one account, one succeeds, and the account is gone
\* then (deleteAccount.ts:19-24).
OneDeletionPerAccount ==
  \A r, s \in Deleters : /\ user[r] \notin users
                         /\ user[r] = user[s] => r = s

\* account.deleted tells of deletions that have happened, and of each of them
\* unless the database or the process failed (deleteAccount.ts:26-35).
LogTellsOfDeletions ==
  /\ audit \cup logging \subseteq Deleters
  /\ dbFailures = 0 /\ crashes = 0 => Deleters \subseteq audit \cup logging

\* Every attempt has its own WebhookDelivery row, also when storing the row of
\* an acknowledged one failed first (deliver.ts:22-25, 50-73).
OneRowPerAttempt ==
  \A r \in Requests, e \in Endpoints \ edited :
    task[r][e].pc # "none" =>
      LET n == task[r][e].attempt
          stored == {row.attempt : row \in {d \in deliveries :
                                     d.request = r /\ d.endpoint = e}}
      IN stored = IF task[r][e].pc \in {"delivered", "exhausted"}
                  THEN 1..n ELSE 1..(n - 1)

\* What is logged has happened, and once: the deletion of an account, and each
\* attempt to deliver its event.
LoggedOnce == OneDeletionPerAccount /\ LogTellsOfDeletions /\ OneRowPerAttempt

\* A deletion that starts removes the account, whatever roles and links it has,
\* unless the process crashes, a delivery row cannot be stored (its endpoint was
\* deleted, or the database failed), a statement of the deletion fails, or a
\* reference is added to the user while the transaction is open
\* (deleteAccount.ts:15-24).
DeletionCompletes ==
  \A r \in Requests :
    pc[r] = "findConsents" ~>
      \/ user[r] \notin users
      \/ pc[r] \in {"crashed", "dbFailed"}
      \/ \E e \in Endpoints : task[r][e].pc = "threw"
      \/ r \in late

------------------------------------------------------------------------------
(* What the documentation promises and the code does not keep.             *)

\* "Notifies every downstream app this user actually has a relationship with"
\* (deliver.ts:87-94): a deletion revokes the grant of a client only after the
\* client has been told.
ApprovedClientsAreTold ==
  [][\A u \in Users, e \in Endpoints :
       /\ ClientOf[e] \in grants[u] \ grants'[u]
       /\ endpoint[e] = "enabled" /\ e \notin edited
       => \E r \in Requests : user[r] = u /\ Over(r, e)]_vars
==============================================================================
