---------------------------- MODULE IdentityLinking ----------------------------
(***************************************************************************)
(* Upstream identities and the accounts they sign in to: sign-in through a  *)
(* connector (oidc/interactions.ts), linking from the account portal        *)
(* (account/router.ts) and the continuation of a VRChat verification that   *)
(* runs in the background, while users unlink, change their email address   *)
(* and delete their accounts.                                               *)
(*                                                                          *)
(* An identity is a (provider, providerUserId) pair.  What a request has to  *)
(* remember while the user is at the upstream provider travels in the       *)
(* signed state parameter (connectors/state.ts) and survives a restart.     *)
(***************************************************************************)
EXTENDS Integers

CONSTANTS
  Requests,     \* sign-ins and linkings of a behaviour (bound)
  OldUsers,     \* accounts that exist at the start
  Upstream,     \* identities of OAuth connectors
  VRChat,       \* identities of provider vrchat
  Emails,
  NoEmail,      \* a null primaryEmail
  NoIdentity,   \* nothing proved yet
  Nobody,       \* no account chosen yet
  MaxEvents     \* unlinkings, deletions, email changes, crashes and failing
                \* statements, together (bound)

\* A request that creates a User row gives it its own name as id.
Accounts == OldUsers \cup Requests

Identities == Upstream \cup VRChat

ASSUME NamesAssumption ==
  /\ OldUsers \cap Requests = {}
  /\ Upstream \cap VRChat = {}
  /\ NoEmail \notin Emails
  /\ NoIdentity \notin Identities
  /\ Nobody \notin Accounts

ASSUME MaxEventsAssumption == MaxEvents \in Nat

VARIABLES
  users,      \* ids of the User rows
  email,      \* email[u]: primaryEmail of u
  links,      \* LinkedIdentity rows
  pc,         \* pc[r]: the next statement of request r
  op,         \* op[r]: which flow r runs
  identity,   \* identity[r]: what the provider or the bot has proved
  claimed,    \* claimed[r]: the email address the provider reports
  account,    \* account[r]: the account it links, later the one it answers
  prior,      \* prior[r]: requests that had ended when r started (history)
  fresh,      \* sign-ins that created their link (history)
  unlinked,   \* identities whose link was removed (history)
  freed,      \* addresses that an account gave up (history)
  events

locals == <<op, identity, claimed, account, prior>>
vars == <<users, email, links, pc, locals, fresh, unlinked, freed, events>>

PCs == {"idle", "upstream", "verifying", "findLink", "findUser", "createUser",
        "createLink", "finish", "done", "failed", "faulted", "crashed"}

Ended == {"done", "failed", "faulted", "crashed"}

\* Where a request outlives the process: nothing of it is in memory.
Away == {"idle", "upstream"} \cup Ended

\* The foreign key: a link belongs to an existing account.
TypeOK ==
  /\ users \subseteq Accounts
  /\ email \in [Accounts -> Emails \cup {NoEmail}]
  /\ links \subseteq [identity : Identities, user : users]
  /\ pc \in [Requests -> PCs]
  /\ op \in [Requests -> {"none", "login", "link", "vrchat"}]
  /\ identity \in [Requests -> Identities \cup {NoIdentity}]
  /\ claimed \in [Requests -> Emails \cup {NoEmail}]
  /\ account \in [Requests -> Accounts \cup {Nobody}]
  /\ prior \in [Requests -> SUBSET Requests]
  /\ fresh \subseteq Requests
  /\ unlinked \subseteq Identities
  /\ freed \subseteq Emails
  /\ events \in 0..MaxEvents

Init ==
  /\ users = OldUsers
  /\ email \in [Accounts -> Emails \cup {NoEmail}]
  /\ \A u \in Requests : email[u] = NoEmail
  /\ \A u, v \in OldUsers : email[u] = email[v] => u = v \/ email[u] = NoEmail
  /\ links = {}
  /\ pc = [r \in Requests |-> "idle"]
  /\ op = [r \in Requests |-> "none"]
  /\ identity = [r \in Requests |-> NoIdentity]
  /\ claimed = [r \in Requests |-> NoEmail]
  /\ account = [r \in Requests |-> Nobody]
  /\ prior = [r \in Requests |-> {}]
  /\ fresh = {}
  /\ unlinked = {}
  /\ freed = {}
  /\ events = 0

LinksOf(i) == {x \in links : x.identity = i}

OwnersOf(e) == {u \in users : email[u] = e}

------------------------------------------------------------------------------
(* The way to the provider and back.                                       *)

Goto(r, from, to) ==
  /\ pc[r] = from
  /\ pc' = [pc EXCEPT ![r] = to]

tables == <<users, email, links>>
pasts == <<fresh, unlinked, freed, events>>

Begin(r, operation, step, u) ==
  /\ Goto(r, "idle", step)
  /\ op' = [op EXCEPT ![r] = operation]
  /\ account' = [account EXCEPT ![r] = u]
  /\ prior' = [prior EXCEPT ![r] = {s \in Requests : pc[s] \in Ended}]
  /\ UNCHANGED <<tables, claimed, pasts>>

\* GET /interaction/:uid/upstream/:providerId redirects to the provider.
SignIn(r) == Begin(r, "login", "upstream", Nobody) /\ UNCHANGED identity

\* GET /account/link/:providerId: the state names the signed-in account.
Link(r, u) ==
  /\ u \in users
  /\ Begin(r, "link", "upstream", u)
  /\ UNCHANGED identity

\* POST /account/link/vrchat/bio and /friend start a verification and answer.
LinkVRChat(r, u, i) ==
  /\ u \in users
  /\ Begin(r, "vrchat", "verifying", u)
  /\ identity' = [identity EXCEPT ![r] = i]

\* The callback of either flow: the code is exchanged, and the provider says
\* who the user is, with or without an address; or one of the two throws.
Callback(r, i, e) ==
  /\ Goto(r, "upstream", "findLink")
  /\ identity' = [identity EXCEPT ![r] = i]
  /\ claimed' = [claimed EXCEPT ![r] = e]
  /\ UNCHANGED <<tables, op, account, prior, pasts>>

CallbackFails(r) ==
  /\ Goto(r, "upstream", "failed")
  /\ UNCHANGED <<tables, locals, pasts>>

\* The process ends: what requests hold in memory is lost.
Lost == [s \in Requests |-> IF pc[s] \in Away THEN pc[s] ELSE "crashed"]

\* verifyByBio or verifyByFriendRequest returns true, returns false, or throws;
\* no handler is attached to the promise, so a throw ends the process.
Verify(r) ==
  /\ \/ Goto(r, "verifying", "findLink")
     \/ Goto(r, "verifying", "done")
     \/ pc[r] = "verifying" /\ pc' = Lost
  /\ UNCHANGED <<tables, locals, pasts>>

------------------------------------------------------------------------------
(* Statement by statement.                                                 *)

\* Mutant: the sign-in does not look for a link.
FindLinkSkipped(r) ==
  /\ IF op[r] = "login"
     THEN /\ Goto(r, "findLink", IF claimed[r] = NoEmail THEN "createUser" ELSE "findUser")
          /\ UNCHANGED account
     ELSE /\ Goto(r, "findLink", IF LinksOf(identity[r]) = {} THEN "createLink" ELSE "done")
          /\ UNCHANGED account
  /\ UNCHANGED <<tables, op, identity, claimed, prior, pasts>>

\* linkedIdentity.findUnique finds a row.  A sign-in answers its account; the
\* portal refuses one of another account (409); a verification does nothing.
FindLinkFound(r) ==
  \E x \in LinksOf(identity[r]) :
    \/ /\ op[r] = "login" /\ Goto(r, "findLink", "finish")
       /\ account' = [account EXCEPT ![r] = x.user]
    \/ /\ op[r] = "link" /\ UNCHANGED account
       /\ Goto(r, "findLink", IF x.user = account[r] THEN "done" ELSE "failed")
    \/ op[r] = "vrchat" /\ Goto(r, "findLink", "done") /\ UNCHANGED account

\* It finds none: a sign-in looks for an account with that address, if any.
FindLinkNone(r) ==
  /\ LinksOf(identity[r]) = {}
  /\ Goto(r, "findLink", IF op[r] # "login" THEN "createLink"
                         ELSE IF claimed[r] = NoEmail THEN "createUser" ELSE "findUser")
  /\ UNCHANGED account

FindLink(r) ==
  /\ FindLinkFound(r) \/ FindLinkNone(r)
  /\ UNCHANGED <<tables, op, identity, claimed, prior, pasts>>

\* user.findUnique by primaryEmail.
FindUser(r) ==
  /\ \/ \E u \in OwnersOf(claimed[r]) :
          Goto(r, "findUser", "createLink") /\ account' = [account EXCEPT ![r] = u]
     \/ /\ OwnersOf(claimed[r]) = {}
        /\ Goto(r, "findUser", "createUser") /\ UNCHANGED account
  /\ UNCHANGED <<tables, op, identity, claimed, prior, pasts>>

\* Mutant: no unique index on primaryEmail.
CreateUserAnyway(r) ==
  /\ Goto(r, "createUser", "createLink")
  /\ users' = users \cup {r}
  /\ email' = [email EXCEPT ![r] = claimed[r]]
  /\ account' = [account EXCEPT ![r] = r]
  /\ UNCHANGED <<links, op, identity, claimed, prior, pasts>>

\* user.create; the unique index on primaryEmail makes it throw.
CreateUser(r) ==
  /\ \/ /\ claimed[r] = NoEmail \/ OwnersOf(claimed[r]) = {}
        /\ Goto(r, "createUser", "createLink")
        /\ users' = users \cup {r}
        /\ email' = [email EXCEPT ![r] = claimed[r]]
        /\ account' = [account EXCEPT ![r] = r]
     \/ /\ claimed[r] # NoEmail /\ OwnersOf(claimed[r]) # {}
        /\ Goto(r, "createUser", "failed")
        /\ UNCHANGED <<users, email, account>>
  /\ UNCHANGED <<links, op, identity, claimed, prior, pasts>>

NewLink(r) == [identity |-> identity[r], user |-> account[r]]

\* The unique index and the foreign key of linkedIdentity.create.
Accepts(r) == LinksOf(identity[r]) = {} /\ account[r] \in users

LinkFrame == UNCHANGED <<users, email, locals, unlinked, freed, events>>

\* Mutant: the foreign key is not there.
CreateLinkUnchecked(r) ==
  /\ Goto(r, "createLink", IF op[r] = "login" THEN "finish" ELSE "done")
  /\ LinksOf(identity[r]) = {}
  /\ links' = links \cup {NewLink(r)}
  /\ fresh' = IF op[r] = "login" THEN fresh \cup {r} ELSE fresh
  /\ LinkFrame

\* Mutant: upsert in the place of create.
CreateLinkUpsert(r) ==
  /\ account[r] \in users
  /\ Goto(r, "createLink", IF op[r] = "login" THEN "finish" ELSE "done")
  /\ links' = (links \ LinksOf(identity[r])) \cup {NewLink(r)}
  /\ fresh' = IF op[r] = "login" THEN fresh \cup {r} ELSE fresh
  /\ LinkFrame

CreateLink(r) ==
  /\ Accepts(r)
  /\ Goto(r, "createLink", IF op[r] = "login" THEN "finish" ELSE "done")
  /\ links' = links \cup {NewLink(r)}
  /\ fresh' = IF op[r] = "login" THEN fresh \cup {r} ELSE fresh
  /\ LinkFrame

\* Mutant: a failing INSERT counts as done, the row is there after all.
CreateLinkIgnored(r) ==
  /\ pc[r] = "createLink" /\ ~Accepts(r)
  /\ Goto(r, "createLink", IF op[r] = "login" THEN "finish" ELSE "done")
  /\ UNCHANGED <<links, fresh>> /\ LinkFrame

\* The unique index or the foreign key makes create throw: a handler answers an error, a verification, which nobody
\* awaits, ends the process.
CreateLinkFails(r) ==
  /\ pc[r] = "createLink" /\ ~Accepts(r)
  /\ pc' = IF op[r] = "vrchat" THEN Lost ELSE [pc EXCEPT ![r] = "failed"]
  /\ UNCHANGED <<links, fresh>> /\ LinkFrame

\* interactionFinished: the sign-in is answered with its account.
Finish(r) ==
  /\ Goto(r, "finish", "done")
  /\ UNCHANGED <<tables, locals, pasts>>

------------------------------------------------------------------------------
(* Users and failures.                                                     *)

Event ==
  /\ events < MaxEvents
  /\ events' = events + 1
  /\ UNCHANGED <<locals, fresh>>

\* POST /account/linked-identities/:id/unlink
Unlink(x) ==
  /\ links' = links \ {x}
  /\ unlinked' = unlinked \cup {x.identity}
  /\ UNCHANGED <<users, email, freed, pc>> /\ Event

\* The transaction at the end of deleteUserAccount commits.
DeleteUser(u) ==
  /\ users' = users \ {u}
  /\ links' = {x \in links : x.user # u}
  /\ unlinked' = unlinked \cup {x.identity : x \in links \ links'}
  /\ freed' = freed \cup ({email[u]} \ {NoEmail})
  /\ UNCHANGED <<email, pc>> /\ Event

\* PATCH of the profile API: the unique index refuses an address in use.
ChangeEmail(u, e) ==
  /\ OwnersOf(e) = {}
  /\ email' = [email EXCEPT ![u] = e]
  /\ freed' = freed \cup ({email[u]} \ {NoEmail})
  /\ UNCHANGED <<users, links, unlinked, pc>> /\ Event

\* The database fails the statement that comes next, or interactionFinished throws:
\* what earlier statements of the request have written stays.
StatementFails(r) ==
  /\ pc[r] \in {"findLink", "findUser", "createUser", "createLink", "finish"}
  /\ pc' = IF op[r] = "vrchat" THEN Lost ELSE [pc EXCEPT ![r] = "faulted"]
  /\ UNCHANGED <<tables, unlinked, freed>> /\ Event

Crash ==
  /\ pc' = Lost
  /\ UNCHANGED <<tables, unlinked, freed>> /\ Event

\* Every request has ended: the behaviour may stop.
Rest ==
  /\ \A r \in Requests : pc[r] \in Ended
  /\ UNCHANGED vars

Arrive(r) ==
  \/ SignIn(r)
  \/ \E u \in users : Link(r, u) \/ \E i \in VRChat : LinkVRChat(r, u, i)
  \/ \E i \in Upstream, e \in Emails \cup {NoEmail} : Callback(r, i, e)

Step(r) ==
  \/ CallbackFails(r) \/ Verify(r) \/ FindLink(r) \/ FindUser(r) \/ CreateUser(r)
  \/ CreateLink(r) \/ CreateLinkFails(r) \/ Finish(r)

Next ==
  \/ \E r \in Requests : Arrive(r) \/ Step(r)
  \/ \E x \in links : Unlink(x)
  \/ \E u \in users : DeleteUser(u) \/ \E e \in Emails : ChangeEmail(u, e)
  \/ \E r \in Requests : StatementFails(r)
  \/ Crash
  \/ Rest

Spec == Init /\ [][Next]_vars

------------------------------------------------------------------------------
(* Properties.                                                             *)

\* Whoever signs in with one identity gets one account, however the sign-ins
\* interleave, unless the identity was unlinked or its account deleted
\* (interactions.ts:218-250).
SameAccountEachTime ==
  \A r, s \in Requests :
    /\ op[r] = "login" /\ op[s] = "login"
    /\ pc[r] = "done" /\ pc[s] = "done"
    /\ identity[r] = identity[s] /\ identity[r] \notin unlinked
    => account[r] = account[s]

\* Sign-ins that report one address end up in one account, whichever connector
\* they come from, unless an account gave the address up: reading before the
\* INSERT does not exclude a duplicate, the index does (interactions.ts:226-239).
SameAccountForOneEmail ==
  \A r, s \in fresh :
    /\ pc[r] = "done" /\ pc[s] = "done"
    /\ claimed[r] = claimed[s] /\ claimed[r] \notin freed \cup {NoEmail}
    => account[r] = account[s]

\* Sign-ins that prove one identity or one address agree on the account.
SignInsAgree == SameAccountEachTime /\ SameAccountForOneEmail

\* No step hands a linked identity over to another account: it is unlinked first
\* (router.ts:196-199, 270).
LinkNeverMoves ==
  [][\A x \in links, y \in links' : x.identity = y.identity => x = y]_vars

\* r and s ran at the same time.
Overlap(r, s) == r # s /\ r \notin prior[s] /\ s \notin prior[r]

\* A sign-in leaves an account nobody can sign in to only when a statement of its own
\* failed, the process died under it, its identity was unlinked, or a request that ran
\* at the same time took the identity; an INSERT that a unique index refuses is the
\* last of these and no other: user.create and linkedIdentity.create are not one
\* transaction (interactions.ts:233-254).
EmptyAccountHasAReason ==
  \A r \in users \cap Requests :
    /\ pc[r] \in Ended
    /\ \A x \in links : x.user # r
    => \/ pc[r] \in {"faulted", "crashed"}
       \/ identity[r] \in unlinked
       \/ \E s \in Requests :
            /\ Overlap(r, s) /\ identity[s] = identity[r]
            /\ NewLink(s) \in links
==============================================================================
