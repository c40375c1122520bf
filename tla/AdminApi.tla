------------------------------- MODULE AdminApi -------------------------------
(***************************************************************************)
(* The administration of roles, their assignments and clients               *)
(* (admin/rolesApi.ts, admin/usersApi.ts, admin/clientsApi.ts) behind the   *)
(* middleware requirePermission (rbac/requirePermission.ts), with           *)
(* administrators acting at the same time.                                  *)
(*                                                                          *)
(* A request is one HTTP call.  It passes the middleware, which reads the   *)
(* database; the handler then looks rows up in one step and writes in a      *)
(* later one.  Removing a role is a transaction of two statements.          *)
(***************************************************************************)
EXTENDS Integers, FiniteSets

CONSTANTS
  Requests,      \* calls of a behaviour (bound)
  Users,         \* User rows, which this module leaves alone
  Clients,       \* Client rows
  Tokens,        \* access tokens: the account and the client of each
  Names,         \* role names
  FirstRoles,    \* Role rows at the start
  FirstGrants,   \* UserRole rows at the start
  FirstSecret,   \* the secret of every client at the start
  Forms          \* the bodies that requests carry

\* What the APIs require (rolesApi.ts:15, usersApi.ts, clientsApi.ts:16).
Permissions == {"manage_users", "manage_clients"}

\* A request that creates a role gives the row its own name as id.
RoleIds == Requests \cup {x.id : x \in FirstRoles}

Rows == [id : RoleIds, client : Clients, name : Names, permissions : SUBSET Permissions]

Operations == {"createRole", "patchRole", "deleteRole", "grant", "revoke",
               "rotateSecret", "patchClient"}

\* A request names a role, a user or a client; the fields that its operation
\* does not have are arbitrary.  A PATCH of a role sets the fields in sets.
Bodies == [op : Operations, role : RoleIds, user : Users, client : Clients,
           name : Names, permissions : SUBSET Permissions, usesSecret : BOOLEAN,
           sets : SUBSET {"name", "permissions"}]

ASSUME FirstRolesAssumption ==
  /\ FirstRoles \subseteq [id : RoleIds \ Requests, client : Clients, name : Names,
                           permissions : SUBSET Permissions]
  /\ \A x, y \in FirstRoles :
       x = y \/ (x.id # y.id /\ <<x.client, x.name>> # <<y.client, y.name>>)

ASSUME FirstGrantsAssumption ==
  FirstGrants \subseteq [user : Users, role : {x.id : x \in FirstRoles}]

ASSUME TokensAssumption == Tokens # {} /\ Tokens \subseteq [user : Users, client : Clients]

ASSUME FormsAssumption == Forms # {} /\ Forms \subseteq Bodies /\ FirstSecret \notin Requests

VARIABLES
  roles,     \* Role rows
  grants,    \* UserRole rows
  clients,   \* clients[c]: the secret of c, and whether c authenticates with one
  pc,        \* pc[r]: the next step of request r
  caller,    \* caller[r]: account and client of r's access token
  body,      \* body[r]: what r asks for
  found,     \* found[r]: the client row that r's handler has looked up
  swept,     \* swept[r]: UserRole rows deleted by r's open transaction
  prior,     \* prior[r]: requests answered when r arrived (history)
  held,      \* requests whose caller was entitled at some time since (history)
  fit,       \* requests whose client used a secret at some time since (history)
  written    \* rotations that have stored their secret (history)

tables == <<roles, grants, clients>>
locals == <<caller, body, found, swept>>
vars == <<tables, pc, locals, prior, held, fit, written>>

PCs == {"idle", "gate", "lookup", "write", "sweep", "remove", "done", "refused", "failed"}

Ended == {"done", "refused", "failed"}

ClientRows == [secret : Requests \cup {FirstSecret}, usesSecret : BOOLEAN]

\* UserRole.role is a foreign key, Role.id a primary key.
TypeOK ==
  /\ roles \subseteq Rows
  /\ \A x, y \in roles : x.id = y.id => x = y
  /\ grants \subseteq [user : Users, role : {x.id : x \in roles}]
  /\ clients \in [Clients -> ClientRows]
  /\ pc \in [Requests -> PCs]
  /\ caller \in [Requests -> Tokens]
  /\ body \in [Requests -> Forms]
  /\ found \in [Requests -> ClientRows]
  /\ swept \in [Requests -> SUBSET [user : Users, role : RoleIds]]
  /\ prior \in [Requests -> SUBSET Requests]
  /\ held \subseteq Requests
  /\ fit \subseteq Requests
  /\ written \subseteq Requests

NewClient == [secret |-> FirstSecret, usesSecret |-> TRUE]

Init ==
  /\ roles = FirstRoles
  /\ grants = FirstGrants
  /\ clients = [c \in Clients |-> NewClient]
  /\ pc = [r \in Requests |-> "idle"]
  /\ caller = [r \in Requests |-> CHOOSE x \in Tokens : TRUE]
  /\ body = [r \in Requests |-> CHOOSE f \in Forms : TRUE]
  /\ found = [r \in Requests |-> NewClient]
  /\ swept = [r \in Requests |-> {}]
  /\ prior = [r \in Requests |-> {}]
  /\ held = {}
  /\ fit = {}
  /\ written = {}

------------------------------------------------------------------------------
(* requirePermission.                                                      *)

Goto(r, from, to) ==
  /\ pc[r] = from
  /\ pc' = [pc EXCEPT ![r] = to]

Needed(r) == IF body[r].op \in {"rotateSecret", "patchClient"}
             THEN "manage_clients" ELSE "manage_users"

\* The roles of r's caller in the client its token was issued to.
HeldRoles(r) ==
  {x \in roles : x.client = caller[r].client /\ [user |-> caller[r].user, role |-> x.id] \in grants}

Entitled(r) == \E x \in HeldRoles(r) : Needed(r) \in x.permissions

\* Every step may end or begin what the histories held and fit record.
Record ==
  /\ held' = held \cup {r \in Requests : pc'[r] = "gate" /\ Entitled(r)'}
  /\ fit' = fit \cup {r \in Requests : pc'[r] \notin {"idle"} \cup Ended
                                       /\ clients'[body'[r].client].usesSecret}

Arrive(r, x, f) ==
  /\ Goto(r, "idle", "gate")
  /\ caller' = [caller EXCEPT ![r] = x]
  /\ body' = [body EXCEPT ![r] = f]
  /\ prior' = [prior EXCEPT ![r] = {s \in Requests : pc[s] \in Ended}]
  /\ UNCHANGED <<tables, found, swept, written>> /\ Record

\* Where a handler starts.
FirstStep(r) == IF body[r].op = "revoke" THEN "write" ELSE "lookup"

\* Mutant: roles of every client count.
GateAnywhere(r) ==
  /\ Goto(r, "gate", IF \E x \in roles : /\ [user |-> caller[r].user, role |-> x.id] \in grants
                                         /\ Needed(r) \in x.permissions
                     THEN FirstStep(r) ELSE "refused")
  /\ UNCHANGED <<tables, locals, prior, written>> /\ Record

\* The token is unknown, expired or revoked, or its client is (401).
Unauthorized(r) ==
  /\ Goto(r, "gate", "refused")
  /\ UNCHANGED <<tables, locals, prior, written>> /\ Record

\* The middleware reads the roles afresh and answers 403 or calls the handler.
Gate(r) ==
  /\ Goto(r, "gate", IF Entitled(r) THEN FirstStep(r) ELSE "refused")
  /\ UNCHANGED <<tables, locals, prior, written>> /\ Record

------------------------------------------------------------------------------
(* What the handlers look up, and when they go no further.                 *)

RoleOf(r) == {x \in roles : x.id = body[r].role}

SameName(c, n) == {x \in roles : x.client = c /\ x.name = n}

\* Mutant: a client is only looked for.
ProceedsIfFound(r) ==
  CASE body[r].op = "createRole" -> SameName(body[r].client, body[r].name) = {}
    [] body[r].op \in {"patchRole", "deleteRole", "grant"} -> RoleOf(r) # {}
    [] OTHER -> TRUE

\* 404, 409 or 400 ends the request.
Proceeds(r) ==
  CASE body[r].op = "createRole" -> SameName(body[r].client, body[r].name) = {}
    [] body[r].op \in {"patchRole", "deleteRole", "grant"} -> RoleOf(r) # {}
    [] body[r].op = "rotateSecret" -> clients[body[r].client].usesSecret
    [] OTHER -> TRUE

Lookup(r) ==
  /\ Goto(r, "lookup", IF ~Proceeds(r) THEN "refused"
                       ELSE IF body[r].op = "deleteRole" THEN "sweep" ELSE "write")
  /\ found' = [found EXCEPT ![r] = clients[body[r].client]]
  /\ UNCHANGED <<tables, caller, body, swept, prior, written>> /\ Record

------------------------------------------------------------------------------
(* What they write.  A statement that the database refuses makes the        *)
(* handler throw; nothing is written.                                      *)

Write(r, op) == pc[r] = "write" /\ body[r].op = op

Ends(r, how) == pc' = [pc EXCEPT ![r] = how]

RoleFrame == UNCHANGED <<clients, locals, prior, written>> /\ Record

NewRole(r) == [id |-> r, client |-> body[r].client, name |-> body[r].name,
               permissions |-> body[r].permissions]

\* Mutant: no unique index on (clientId, name).
CreateRoleAnyway(r) ==
  /\ Write(r, "createRole")
  /\ roles' = roles \cup {NewRole(r)} /\ Ends(r, "done")
  /\ UNCHANGED grants /\ RoleFrame

CreateRole(r) ==
  /\ Write(r, "createRole")
  /\ IF SameName(body[r].client, body[r].name) = {}
     THEN roles' = roles \cup {NewRole(r)} /\ Ends(r, "done")
     ELSE UNCHANGED roles /\ Ends(r, "failed")
  /\ UNCHANGED grants /\ RoleFrame

\* The columns that a PATCH names are set, the others stay.
Patched(x, r) ==
  [x EXCEPT !.name = IF "name" \in body[r].sets THEN body[r].name ELSE @,
            !.permissions = IF "permissions" \in body[r].sets THEN body[r].permissions ELSE @]

\* The unique index leaves room for what r makes of x.
Fits(x, r) == SameName(x.client, Patched(x, r).name) \subseteq {x}

\* role.update: the row may be gone, the name taken.
PatchRole(r) ==
  /\ Write(r, "patchRole")
  /\ \/ \E x \in RoleOf(r) :
          /\ Fits(x, r)
          /\ roles' = (roles \ {x}) \cup {Patched(x, r)}
          /\ Ends(r, "done")
     \/ /\ \A x \in RoleOf(r) : ~Fits(x, r)
        /\ UNCHANGED roles /\ Ends(r, "failed")
  /\ UNCHANGED grants /\ RoleFrame

GrantOf(r) == [user |-> body[r].user, role |-> body[r].role]

\* Mutant: the foreign key is not there.
GrantUnchecked(r) ==
  /\ Write(r, "grant")
  /\ grants' = grants \cup {GrantOf(r)} /\ Ends(r, "done")
  /\ UNCHANGED roles /\ RoleFrame

\* userRole.upsert, under the foreign key.
Grant(r) ==
  /\ Write(r, "grant")
  /\ IF RoleOf(r) # {}
     THEN grants' = grants \cup {GrantOf(r)} /\ Ends(r, "done")
     ELSE UNCHANGED grants /\ Ends(r, "failed")
  /\ UNCHANGED roles /\ RoleFrame

Revoke(r) ==
  /\ Write(r, "revoke")
  /\ grants' = grants \ {GrantOf(r)}
  /\ Ends(r, "done")
  /\ UNCHANGED roles /\ RoleFrame

Assignments(r) == {x \in grants : x.role = body[r].role}

\* Mutant: deleteMany is not part of a transaction.
SweepAtOnce(r) ==
  /\ Goto(r, "sweep", "remove")
  /\ swept' = [swept EXCEPT ![r] = Assignments(r)]
  /\ grants' = grants \ Assignments(r)
  /\ UNCHANGED <<roles, clients, caller, body, found, prior, written>> /\ Record

\* userRole.deleteMany in the transaction; nobody sees it yet.
Sweep(r) ==
  /\ Goto(r, "sweep", "remove")
  /\ swept' = [swept EXCEPT ![r] = Assignments(r)]
  /\ UNCHANGED <<tables, caller, body, found, prior, written>> /\ Record

\* role.delete and the commit.  The row may be gone, or granted once more since:
\* then the transaction is rolled back.
RemoveRole(r) ==
  /\ pc[r] = "remove"
  /\ IF RoleOf(r) # {} /\ Assignments(r) \subseteq swept[r]
     THEN /\ roles' = roles \ RoleOf(r)
          /\ grants' = grants \ swept[r]
          /\ Ends(r, "done")
     ELSE UNCHANGED <<roles, grants>> /\ Ends(r, "failed")
  /\ RoleFrame

ClientFrame == UNCHANGED <<roles, grants, locals, prior>> /\ Record

\* The new secret is stored and shown.
RotateSecret(r) ==
  /\ Write(r, "rotateSecret")
  /\ clients' = [clients EXCEPT ![body[r].client].secret = r]
  /\ written' = written \cup {r}
  /\ Ends(r, "done")
  /\ ClientFrame

\* Mutant: PATCH writes back the row it has looked up.
PatchClientWhole(r) ==
  /\ Write(r, "patchClient")
  /\ clients' = [clients EXCEPT ![body[r].client] =
                   [found[r] EXCEPT !.usesSecret = body[r].usesSecret]]
  /\ Ends(r, "done")
  /\ UNCHANGED written /\ ClientFrame

\* isConfidential and tokenEndpointAuthMethod; the secret stays as it is.
PatchClient(r) ==
  /\ Write(r, "patchClient")
  /\ clients' = [clients EXCEPT ![body[r].client].usesSecret = body[r].usesSecret]
  /\ Ends(r, "done")
  /\ UNCHANGED written /\ ClientFrame

------------------------------------------------------------------------------

\* A statement throws for another reason, and a transaction is rolled back.
Throw(r) ==
  /\ pc[r] \notin {"idle"} \cup Ended
  /\ Ends(r, "failed")
  /\ UNCHANGED tables /\ UNCHANGED <<locals, prior, written>> /\ Record

\* Every request has been answered: the behaviour may stop.
Rest ==
  /\ \A r \in Requests : pc[r] \in Ended
  /\ UNCHANGED vars

Handle(r) ==
  \/ Unauthorized(r) \/ Gate(r) \/ Lookup(r) \/ Throw(r)
  \/ CreateRole(r) \/ PatchRole(r) \/ Sweep(r) \/ RemoveRole(r)
  \/ Grant(r) \/ Revoke(r) \/ RotateSecret(r) \/ PatchClient(r)

Next ==
  \/ \E r \in Requests :
       \/ \E x \in Tokens, f \in Forms : Arrive(r, x, f)
       \/ Handle(r)
  \/ Rest

Spec == Init /\ [][Next]_vars

------------------------------------------------------------------------------
(* Properties.                                                             *)

Admitted == {r \in Requests : pc[r] \notin {"idle", "gate", "refused", "failed"}}

\* A revoked role takes effect immediately: a request acts only when its caller
\* held the permission, in the client of its token, at some time between its
\* arrival and its admission (requirePermission.ts:45-54).
AdmittedWhileEntitled == Admitted \subseteq held

\* One role per client and name, whatever requests interleave between
\* findUnique and create (rolesApi.ts:90-96, 129).
OneRolePerName ==
  \A x, y \in roles : x.client = y.client /\ x.name = y.name => x = y

Did(r, op) == pc[r] = "done" /\ body[r].op = op

\* s was not over when r arrived.
NotBefore(s, r) == s \notin prior[r]

\* An answered grant holds until it is revoked or its role is removed by a request
\* that was not over before it, and an answered revocation until a grant that was
\* not over before it; a removal that fails takes no grant away
\* (usersApi.ts:190-208, rolesApi.ts:149-152).
GrantsAndRevocationsHold ==
  \A r \in Requests :
    /\ Did(r, "grant") => \/ GrantOf(r) \in grants
                          \/ \E s \in Requests :
                               /\ NotBefore(s, r)
                               /\ \/ Did(s, "revoke") /\ GrantOf(s) = GrantOf(r)
                                  \/ Did(s, "deleteRole") /\ body[s].role = body[r].role
    /\ Did(r, "revoke") => \/ GrantOf(r) \notin grants
                           \/ \E s \in Requests : /\ NotBefore(s, r) /\ s # r
                                                  /\ Did(s, "grant") /\ GrantOf(s) = GrantOf(r)

\* The secret that authenticates a client is the one that a last rotation has
\* shown: no PATCH brings an earlier one back, and only a rotation that was not
\* over before it replaces it (clientsApi.ts:170-186, 213-217).
LastRotationStands ==
  \A r \in written :
    LET c == body[r].client IN
      \/ clients[c].secret = r
      \/ \E s \in written : /\ s # r /\ body[s].client = c
                            /\ clients[c].secret = s /\ NotBefore(s, r)

\* What an administrator was told has been done stays done until a later request.
AnswersHold == GrantsAndRevocationsHold /\ LastRotationStands

\* Only a client that authenticates with a secret is given a new one, unless a
\* PATCH ran at the same time (clientsApi.ts:205-217).
RotatedWhileConfidential == written \subseteq fit
==============================================================================
