----------------------------- MODULE OidcSessions -----------------------------
(***************************************************************************)
(* Sign-in, consent, token issue and revocation as concurrent requests     *)
(* over the OidcModel table.                                               *)
(*                                                                         *)
(* A request is one HTTP call.  Node runs one JavaScript turn at a time,   *)
(* so what a handler does between two awaits is one action; every database *)
(* statement is a step of its own and the steps of different requests      *)
(* interleave.  Rows a request mints carry the request's name as their id. *)
(*                                                                         *)
(* The handlers of oidc/sessions.ts and oidc/interactions.ts are this      *)
(* repository's.  The authorization and the token endpoint belong to the   *)
(* oidc-provider library: they are modelled by the adapter calls and the   *)
(* findAccount callback through which this server sees them.               *)
(***************************************************************************)
EXTENDS FiniteSets

CONSTANTS
  Requests,   \* the HTTP requests of a behaviour (bound)
  Accounts,   \* users
  OldGrants,  \* grants given before the behaviour starts (bound)
  Owner,      \* Owner[g]: the account that gave old grant g
  NoGrant,
  Expirable   \* row types whose expiry the behaviour explores (bound)

Ids == Requests \cup OldGrants \cup Accounts

INSTANCE OidcModel

ASSUME OwnerAssumption == Owner \in [OldGrants -> Accounts]

ASSUME AccountsAssumption == Accounts # {}

ASSUME NamesAssumption ==
  /\ Requests \cap (OldGrants \cup Accounts) = {}
  /\ OldGrants \cap Accounts = {}
  /\ NoGrant \notin Ids
  /\ Expirable \subseteq Types

VARIABLES
  oidcModel,  \* the table: a set of rows
  users,      \* ids of the User rows that exist
  pc,         \* pc[r]: the next statement of request r
  call,       \* call[r]: which operation r is, and its arguments
  grants,     \* grants[r]: the local list of revokeAllOidcStateForUser
  todo,       \* todo[r]: the grants its loop has not reached
  prior       \* prior[r]: requests answered before r began (history)

vars == <<oidcModel, users, pc, call, grants, todo, prior>>

Ops == {"none", "login", "confirm", "authorize", "redeem",
        "replay", "revokeGrant", "revokeAll", "deleteAccount"}

PCs == {"idle", "saveSession", "saveGrant", "issueCode", "consumeRead",
        "consumeWrite", "findAccount", "issueAccess", "issueRefresh",
        "deleteTokens", "deleteGrant", "findGrants", "deleteTokensOf",
        "deleteGrants", "deleteSessions", "deleteUser", "done", "failed"}

Answered == {"done", "failed"}

\* The steps that name the grant the request works under.
GrantSteps == {"saveGrant", "issueCode", "consumeRead", "consumeWrite",
               "findAccount", "issueAccess", "issueRefresh",
               "deleteTokens", "deleteGrant"}

\* account: whose request it is.  grantId: the grant it works under.
\* type, id: the code or refresh token redeemed, or the session it runs in.
Call == [op : Ops, account : Accounts, grantId : Ids \cup {NoGrant},
         type : Types, id : Ids]

TypeOK ==
  /\ oidcModel \subseteq Row
  /\ users \subseteq Accounts
  /\ pc \in [Requests -> PCs]
  /\ call \in [Requests -> Call]
  /\ grants \in [Requests -> SUBSET Ids]
  /\ todo \in [Requests -> SUBSET Ids]
  /\ prior \in [Requests -> SUBSET Requests]
  /\ \A r \in Requests : pc[r] \in GrantSteps => call[r].grantId \in Ids

\* Before the behaviour an account signed in (its session is named after it)
\* and gave a set G of grants, each with a refresh token.
SignedIn(G) ==
  {NewRow("Session", u, NoGrant, u) : u \in Accounts}
    \cup {NewRow("Grant", g, NoGrant, Owner[g]) : g \in G}
    \cup {NewRow("RefreshToken", g, g, Owner[g]) : g \in G}

NoCall == [op |-> "none", account |-> CHOOSE u \in Accounts : TRUE,
           grantId |-> NoGrant, type |-> "Session",
           id |-> CHOOSE u \in Accounts : TRUE]

Init ==
  /\ oidcModel \in {SignedIn(G) : G \in SUBSET OldGrants}
  /\ users = Accounts
  /\ pc = [r \in Requests |-> "idle"]
  /\ call = [r \in Requests |-> NoCall]
  /\ grants = [r \in Requests |-> {}]
  /\ todo = [r \in Requests |-> {}]
  /\ prior = [r \in Requests |-> {}]

------------------------------------------------------------------------------

\* Request r arrives, reads what its first statements read, and is at step.
Begin(r, op, u, g, type, id, step) ==
  /\ pc[r] = "idle"
  /\ pc' = [pc EXCEPT ![r] = step]
  /\ call' = [call EXCEPT ![r] = [op |-> op, account |-> u, grantId |-> g,
                                  type |-> type, id |-> id]]
  /\ prior' = [prior EXCEPT ![r] = {x \in Requests : pc[x] \in Answered}]
  /\ UNCHANGED <<oidcModel, users, grants, todo>>

Goto(r, from, to) ==
  /\ pc[r] = from
  /\ pc' = [pc EXCEPT ![r] = to]
  /\ UNCHANGED <<call, prior>>

\* One database statement of r that turns the table into T.
Statement(r, from, to, T) ==
  /\ Goto(r, from, to)
  /\ oidcModel' = T
  /\ UNCHANGED <<users, grants, todo>>

------------------------------------------------------------------------------
(* Sign-in and consent.                                                    *)

\* POST /interaction/:uid/login with the right password.  The session row is
\* written when the browser comes back to the authorization endpoint.
Login(r, u) ==
  /\ u \in users
  /\ Begin(r, "login", u, NoGrant, "Session", r, "saveSession")

\* POST /interaction/:uid/confirm: the session of the interaction is there;
\* the grant is the one already given (Grant.find) or a new one.
ConfirmExisting(r, session, g) ==
  /\ \E grant \in Found(oidcModel, "Grant", g) :
        grant.accountId = session.accountId
  /\ Begin(r, "confirm", session.accountId, g, "Session", session.id, "saveGrant")

ConfirmNew(r, session) ==
  Begin(r, "confirm", session.accountId, r, "Session", session.id, "saveGrant")

Confirm(r) ==
  \E session \in oidcModel :
    /\ session \in Found(oidcModel, "Session", session.id)
    /\ \/ ConfirmNew(r, session)
       \/ \E g \in GrantsOf(oidcModel, session.accountId) :
             ConfirmExisting(r, session, g)

\* grant.save(): an upsert, whatever happened to the row since it was read.
SaveGrant(r) ==
  Statement(r, "saveGrant", "done",
    Upsert(oidcModel, NewRow("Grant", call[r].grantId, NoGrant, call[r].account)))

\* The authorization endpoint (oidc-provider): session, grant and account are
\* found, then the code is stored, then the session is stored again.
Authorize(r) ==
  \E session \in oidcModel, grant \in oidcModel :
    /\ session \in Found(oidcModel, "Session", session.id)
    /\ grant \in Found(oidcModel, "Grant", grant.id)
    /\ grant.accountId = session.accountId
    /\ session.accountId \in users
    /\ Begin(r, "authorize", session.accountId, grant.id,
             "Session", session.id, "issueCode")

IssueCode(r) ==
  Statement(r, "issueCode", "saveSession",
    Upsert(oidcModel,
      NewRow("AuthorizationCode", r, call[r].grantId, call[r].account)))

SaveSession(r) ==
  Statement(r, "saveSession", "done",
    Upsert(oidcModel, NewRow("Session", call[r].id, NoGrant, call[r].account)))

------------------------------------------------------------------------------
(* The token endpoint (oidc-provider): a code or refresh token is found,   *)
(* its grant is found, it is consumed, the account is looked up, and an    *)
(* access and a refresh token are stored.  One that was consumed already   *)
(* revokes the grant instead.                                              *)

Redeem(r) ==
  \E token \in oidcModel :
    /\ token.type \in {"AuthorizationCode", "RefreshToken"}
    /\ token \in Found(oidcModel, token.type, token.id)
    /\ Found(oidcModel, "Grant", token.grantId) # {}
    /\ \/ /\ ~token.consumed
          /\ Begin(r, "redeem", token.accountId, token.grantId,
                   token.type, token.id, "consumeRead")
       \/ /\ token.consumed
          /\ Begin(r, "replay", token.accountId, token.grantId,
                   token.type, token.id, "deleteTokens")

\* consume, first statement: a row that has gone is not an error.
ConsumeRead(r) ==
  LET row == RowAt(oidcModel, call[r].type, call[r].id) IN
  Statement(r, "consumeRead", IF row = {} THEN "findAccount" ELSE "consumeWrite",
            oidcModel)

\* Mutant: an upsert in the place of the update stores the row read before.
ConsumeWriteUpsert(r) ==
  Statement(r, "consumeWrite", "findAccount",
    Upsert(oidcModel,
      [NewRow(call[r].type, call[r].id, call[r].grantId, call[r].account)
         EXCEPT !.consumed = TRUE]))

\* consume, second statement: update throws when the row has gone since.
ConsumeWrite(r) ==
  LET row == RowAt(oidcModel, call[r].type, call[r].id) IN
  Statement(r, "consumeWrite", IF row = {} THEN "failed" ELSE "findAccount",
            MarkConsumed(oidcModel, call[r].type, call[r].id))

FindAccount(r) ==
  Statement(r, "findAccount",
            IF call[r].account \in users THEN "issueAccess" ELSE "failed",
            oidcModel)

IssueAccess(r) ==
  Statement(r, "issueAccess", "issueRefresh",
    Upsert(oidcModel, NewRow("AccessToken", r, call[r].grantId, call[r].account)))

IssueRefresh(r) ==
  Statement(r, "issueRefresh", "done",
    Upsert(oidcModel, NewRow("RefreshToken", r, call[r].grantId, call[r].account)))

------------------------------------------------------------------------------
(* Revocation: oidc/sessions.ts.                                           *)

\* revokeGrantForUser goes on when the grant is there and is u's own.
OwnGrant(u, g) == \E grant \in RowAt(oidcModel, "Grant", g) : grant.accountId = u

\* Mutant: the grant's account is not compared with the caller.
RevokeAnyGrant(r, u, g) ==
  /\ RowAt(oidcModel, "Grant", g) # {}
  /\ Begin(r, "revokeGrant", u, g, "Grant", g, "deleteTokens")

\* An administrator, or u in the portal, revokes one grant of u; 404 otherwise.
RevokeGrant(r, u, g) ==
  /\ OwnGrant(u, g)
  /\ Begin(r, "revokeGrant", u, g, "Grant", g, "deleteTokens")

DeleteTokens(r) ==
  Statement(r, "deleteTokens", "deleteGrant",
            RevokeByGrantId(oidcModel, call[r].grantId))

\* Mutant: the second deleteMany, of the Grant row itself, is missing.
DeleteGrantForgotten(r) == Statement(r, "deleteGrant", "done", oidcModel)

DeleteGrant(r) ==
  Statement(r, "deleteGrant", "done",
            Destroy(oidcModel, "Grant", call[r].grantId))

\* revokeAllOidcStateForUser, called by "log out everywhere" of the portal and
\* of the admin API, and by deleteUserAccount.
RevokeAll(r, u) ==
  \E op \in {"revokeAll", "deleteAccount"} :
    Begin(r, op, u, NoGrant, "Session", u, "findGrants")

\* Mutant: an account without grants returns early, sessions and all.
FindGrantsReturnsEarly(r) ==
  LET found == GrantsOf(oidcModel, call[r].account) IN
  /\ Goto(r, "findGrants", IF found = {} THEN "done" ELSE "deleteTokensOf")
  /\ grants' = [grants EXCEPT ![r] = found]
  /\ todo' = [todo EXCEPT ![r] = found]
  /\ UNCHANGED <<oidcModel, users>>

FindGrants(r) ==
  LET found == GrantsOf(oidcModel, call[r].account) IN
  /\ Goto(r, "findGrants", IF found = {} THEN "deleteSessions" ELSE "deleteTokensOf")
  /\ grants' = [grants EXCEPT ![r] = found]
  /\ todo' = [todo EXCEPT ![r] = found]
  /\ UNCHANGED <<oidcModel, users>>

\* One iteration of the loop; findMany gives the grants in any order.
DeleteTokensOf(r) ==
  \E g \in todo[r] :
    /\ Goto(r, "deleteTokensOf",
            IF todo[r] = {g} THEN "deleteGrants" ELSE "deleteTokensOf")
    /\ oidcModel' = RevokeByGrantId(oidcModel, g)
    /\ todo' = [todo EXCEPT ![r] = @ \ {g}]
    /\ UNCHANGED <<users, grants>>

DeleteGrants(r) ==
  Statement(r, "deleteGrants", "deleteSessions",
            {row \in oidcModel : ~(row.type = "Grant" /\ row.id \in grants[r])})

DeleteSessions(r) ==
  Statement(r, "deleteSessions",
            IF call[r].op = "deleteAccount" THEN "deleteUser" ELSE "done",
            DeleteSessionsOf(oidcModel, call[r].account))

\* user.delete, the last statement of deleteUserAccount's transaction: it
\* throws, and the transaction rolls back, when the row has gone.
DeleteUser(r) ==
  /\ Goto(r, "deleteUser", IF call[r].account \in users THEN "done" ELSE "failed")
  /\ users' = users \ {call[r].account}
  /\ UNCHANGED <<oidcModel, grants, todo>>

------------------------------------------------------------------------------

\* expiresAt passes; nothing deletes the row.
Expire ==
  \E row \in oidcModel :
    /\ row.type \in Expirable
    /\ ~row.expired
    /\ oidcModel' = Upsert(oidcModel, [row EXCEPT !.expired = TRUE])
    /\ UNCHANGED <<users, pc, call, grants, todo, prior>>

\* Every request of the behaviour has been answered.
AllAnswered ==
  /\ \A r \in Requests : pc[r] \in Answered
  /\ UNCHANGED vars

Arrive(r) ==
  \/ Confirm(r)
  \/ Authorize(r)
  \/ Redeem(r)
  \/ \E u \in Accounts :
       \/ Login(r, u)
       \/ RevokeAll(r, u)
       \/ \E g \in Ids : RevokeGrant(r, u, g)

Step(r) ==
  \/ SaveGrant(r)      \/ IssueCode(r)      \/ SaveSession(r)
  \/ ConsumeRead(r)    \/ ConsumeWrite(r)   \/ FindAccount(r)
  \/ IssueAccess(r)    \/ IssueRefresh(r)
  \/ DeleteTokens(r)   \/ DeleteGrant(r)
  \/ FindGrants(r)     \/ DeleteTokensOf(r) \/ DeleteGrants(r)
  \/ DeleteSessions(r) \/ DeleteUser(r)

Next ==
  \/ \E r \in Requests : Arrive(r) \/ Step(r)
  \/ Expire
  \/ AllAnswered

Spec == Init /\ [][Next]_vars

------------------------------------------------------------------------------
(* Properties.                                                             *)

\* Ids of the rows minted by requests that were answered before r began.
EarlierIds(r) == prior[r] \cup OldGrants \cup Accounts

RevokeAllOps == {"revokeAll", "deleteAccount"}

\* The grants whose tokens request r has deleted so far.
Revoked(r) ==
  IF call[r].op \in {"revokeGrant", "replay"}
  THEN IF pc[r] \in {"deleteGrant", "done"} THEN {call[r].grantId} ELSE {}
  ELSE IF call[r].op \in RevokeAllOps THEN grants[r] \ todo[r] ELSE {}

\* Request r has run every statement on the OidcModel table it will run.
FinishedRevoking(r) ==
  /\ call[r].op \in RevokeAllOps \cup {"revokeGrant", "replay"}
  /\ pc[r] \in {"deleteUser", "done", "failed"}

\* Revocation removes every token and code that an already answered request
\* issued under the grant, for good: a consume or a refresh that is still
\* running cannot bring one back (sessions.ts:38-70, oidcModelAdapter.ts:58-79).
NothingEarlierSurvives ==
  \A r \in Requests : \A row \in oidcModel :
    row.grantId \in Revoked(r) => row.id \notin EarlierIds(r)

\* Consents that could write grant g's row after revocation r had begun.
LateConsents(r, g) ==
  {c \in Requests : /\ call[c].op = "confirm"
                    /\ call[c].grantId = g
                    /\ c \notin prior[r]}

\* A request that arrives after a revocation was answered issues nothing under
\* the revoked grant, unless a consent that was not answered when the
\* revocation began saved the Grant row again (interactions.ts:142).
RevokedGrantIssuesNothing ==
  \A r \in Requests : FinishedRevoking(r) =>
    \A row \in oidcModel :
      /\ row.grantId \in Revoked(r)
      /\ row.id \in Requests
      /\ r \in prior[row.id]
      => LateConsents(r, row.grantId) # {}

\* After "log out everywhere" a browser session of the account is in the table
\* only if a sign-in or an authorization not answered when the log-out began
\* stored it (sessions.ts:67-69).
SessionsOutliveOnlyByOverlap ==
  \A r \in Requests : FinishedRevoking(r) /\ call[r].op \in RevokeAllOps =>
    \A row \in oidcModel :
      row.type = "Session" /\ row.accountId = call[r].account =>
        \E x \in Requests : /\ call[x].op \in {"login", "authorize"}
                             /\ call[x].id = row.id
                             /\ pc[x] = "done"
                             /\ x \notin prior[r]

\* A revocation leaves neither a token of a revoked grant nor a session behind that
\* another request was not in the middle of making.
RevocationMissesOnlyOverlap == RevokedGrantIssuesNothing /\ SessionsOutliveOnlyByOverlap

\* One code or refresh token is exchanged twice only by requests that overlap:
\* consume is a read and a later write, so two of them can both pass, but a
\* request that begins after an exchange was answered never passes
\* (oidcModelAdapter.ts:58-71).
ExchangedTwiceOnlyByOverlap ==
  \A x, y \in Requests :
    /\ call[x].op = "redeem" /\ call[y].op = "redeem"
    /\ call[x].type = call[y].type /\ call[x].id = call[y].id
    /\ pc[x] = "done"
    => x \notin prior[y]

\* The types of the codes and tokens with a given id.
TokenKeys(T, id) ==
  {row.type : row \in {x \in T : x.id = id /\ x.type \in TokenTypes}}

\* A token that has been deleted is never stored again: once the request that
\* minted it is answered, no step adds a token of its making, a consume that is
\* between its two statements included (oidcModelAdapter.ts:58-71).
DeletedTokensStayDeleted ==
  [][\A id \in Ids :
       (id \in Requests => pc[id] \in Answered) =>
         TokenKeys(oidcModel', id) \subseteq TokenKeys(oidcModel, id)]_vars

\* A step of a request removes rows of the request's own account only: every
\* token is under a grant of its own account, and revocation checks whose grant
\* it is before it deletes by grantId (sessions.ts:42, 55-57, 68).
OnlyOwnRowsRevoked ==
  [][\A row \in oidcModel :
       RowAt(oidcModel', row.type, row.id) = {} =>
         \E r \in Requests :
           /\ pc'[r] # pc[r] \/ todo'[r] # todo[r]
           /\ call[r].account = row.accountId]_vars
==============================================================================
