----------------------------- MODULE AccountPortal -----------------------------
(***************************************************************************)
(* The account portal (account/router.ts) as its browsers use it: a signed  *)
(* cookie and no session on the server (account/session.ts), pages that     *)
(* stay open, answers that arrive in any order, and the detour to an        *)
(* upstream provider that links an identity (connectors/state.ts,           *)
(* connectors/oauth2Connector.ts, connectors/oidcConnector.ts) while an     *)
(* administrator may change the connector.                                  *)
(*                                                                          *)
(* A request arrives with the cookie its browser holds, runs its statements *)
(* one at a time, and is answered; the answer may set or clear the cookie.  *)
(* A cookie expires, and calls to the database or to a provider may fail.   *)
(***************************************************************************)
EXTENDS Naturals

CONSTANTS
  Requests,    \* HTTP requests to the portal (bound)
  Browsers,
  Accounts,
  Providers,
  People,      \* users of the upstream providers
  OldLinks,    \* LinkedIdentity rows at the start
  OldLink,     \* OldLink[i]: what row i says
  MaxReloads,  \* changes of a connector (bound)
  None

\* A row that a request inserts carries the request's name as its id.
LinkIds == Requests \cup OldLinks

Identity == [provider : Providers, person : People, user : Accounts]

ASSUME NamesAssumption ==
  /\ Requests \cap OldLinks = {}
  /\ None \notin Accounts \cup LinkIds \cup Providers \cup People
  /\ {"keep", "clear"} \cap Accounts = {}
  /\ OldLink \in [OldLinks -> Identity]

ASSUME MaxReloadsAssumption == MaxReloads \in Nat

VARIABLES
  users,    \* ids of the User rows
  links,    \* the LinkedIdentity rows: a partial function from their ids
  pkce,     \* pkce[p]: the connector of p in the registry
  cookie,   \* cookie[b]: whose cookie browser b holds
  listed,   \* listed[b]: ids of the rows that pages open in b have shown
  req,      \* req[r]: the handler of request r
  flow,     \* flow[r]: the state parameter of link request r, and its code
  prior,    \* prior[r]: requests answered before r arrived (history)
  lapsed,   \* requests answered before a cookie of their browser expired (history)
  reloaded, \* link requests whose connector was changed since (history)
  reloads

vars == <<users, links, pkce, cookie, listed, req, flow, prior, lapsed, reloaded, reloads>>

Modes == {"required", "optional", "unsupported", "off"}

Ops == {"login", "logout", "view", "unlink", "revokeAll", "delete", "link", "callback"}

\* target: the row, the connector or the link request that the request names.
\* cookie: what the answer does to the cookie; status: how it went.  An error and a
\* fault look alike to the user: a fault is what a call to the database or to the
\* provider makes of a request when it fails.
Req == [pc : {"idle", "handle", "verify", "info", "find", "create", "answer", "done"},
        op : Ops \cup {None}, browser : Browsers \cup {None}, user : Accounts \cup {None},
        target : LinkIds \cup Providers \cup {None}, ids : SUBSET LinkIds,
        cookie : Accounts \cup {"keep", "clear"},
        status : {"ok", "refused", "error", "fault"}]

\* What the signed state parameter carries, and the code that comes with it.
Flow == [user : Accounts, provider : Providers, verifier : BOOLEAN,
         person : People \cup {None}, code : {"none", "issued", "denied", "used"}]

TypeOK ==
  /\ users \subseteq Accounts
  /\ DOMAIN links \subseteq LinkIds
  /\ \A i \in DOMAIN links : links[i] \in Identity /\ links[i].user \in users
  /\ pkce \in [Providers -> Modes]
  /\ cookie \in [Browsers -> Accounts \cup {None}]
  /\ listed \in [Browsers -> SUBSET LinkIds]
  /\ req \in [Requests -> Req]
  /\ DOMAIN flow \subseteq Requests
  /\ \A r \in DOMAIN flow : flow[r] \in Flow
  /\ prior \in [Requests -> SUBSET Requests]
  /\ lapsed \subseteq Requests
  /\ reloaded \subseteq Requests
  /\ reloads \in 0..MaxReloads

Init ==
  /\ users = Accounts
  /\ links = OldLink
  /\ pkce \in [Providers -> Modes \ {"off"}]
  /\ cookie \in [Browsers -> Accounts]
  /\ listed = [b \in Browsers |-> {}]
  /\ req = [r \in Requests |->
       [pc |-> "idle", op |-> None, browser |-> None, user |-> None,
        target |-> None, ids |-> {}, cookie |-> "keep", status |-> "ok"]]
  /\ flow = [r \in {} |-> None]
  /\ prior = [r \in Requests |-> {}]
  /\ lapsed = {} /\ reloaded = {} /\ reloads = 0

------------------------------------------------------------------------------
(* Arrival and answer.                                                     *)

Done == {x \in Requests : req[x].pc = "done"}

\* A request arrives and its handler runs up to step: its first await, or its
\* answer, which does change to the cookie.
Arrive(r, op, b, u, x, step, status, change) ==
  /\ req[r].pc = "idle"
  /\ req' = [req EXCEPT ![r] =
       [pc |-> step, op |-> op, browser |-> b, user |-> u, target |-> x, ids |-> {},
        status |-> status, cookie |-> change]]
  /\ prior' = [prior EXCEPT ![r] = Done]
  /\ UNCHANGED <<users, links, pkce, cookie, listed, lapsed, reloaded, reloads>>

\* The cookie names an account; its signature is taken for granted.
SignedIn(b) == cookie[b] # None

\* requireSession: the account of the cookie, or a redirect to the login page.
Signed(r, op, b, x) ==
  /\ SignedIn(b)
  /\ Arrive(r, op, b, cookie[b], x, "handle", "ok", "keep") /\ UNCHANGED flow

\* The cookie that the answer of r leaves in a browser that held u's.
CookieAfter(r, u) ==
  CASE req[r].cookie = "keep" -> u
    [] req[r].cookie = "clear" -> None
    [] OTHER -> req[r].cookie

\* The browser takes the answer in: the cookie, and the page.
Answer(r) ==
  LET b == req[r].browser IN
  /\ req[r].pc = "answer"
  /\ req' = [req EXCEPT ![r].pc = "done", ![r].ids = {}]
  /\ cookie' = [cookie EXCEPT ![b] = CookieAfter(r, @)]
  /\ listed' = [listed EXCEPT ![b] = @ \cup req[r].ids]
  /\ UNCHANGED <<users, links, pkce, flow, prior, lapsed, reloaded, reloads>>

\* The cookie of a browser reaches its maxAge.
CookieExpires(b) ==
  /\ SignedIn(b)
  /\ cookie' = [cookie EXCEPT ![b] = None]
  /\ lapsed' = lapsed \cup {r \in Done : req[r].browser = b}
  /\ UNCHANGED <<users, links, pkce, listed, req, flow, prior, reloaded, reloads>>

At(r, op) == req[r].pc = "handle" /\ req[r].op = op

\* The request goes on to step.
Step(r, step, status, change) ==
  req' = [req EXCEPT ![r] = [@ EXCEPT !.pc = step, !.status = status, !.cookie = change]]

Respond(r, status, change) == Step(r, "answer", status, change)

Same == UNCHANGED <<pkce, cookie, listed, prior, lapsed, reloaded, reloads>>

\* A statement of a handler fails: Express answers, and the handler goes no further.
StatementFails(r) ==
  /\ req[r].pc \in {"handle", "find", "create"} /\ Respond(r, "fault", "keep")
  /\ UNCHANGED <<users, links, flow>> /\ Same

------------------------------------------------------------------------------
(* The portal's pages: account/router.ts.                                  *)

\* POST /account/login with the right password, or of an account that is gone.
Login(r) ==
  /\ At(r, "login")
  /\ IF req[r].user \in users THEN Respond(r, "ok", req[r].user) ELSE Respond(r, "refused", "keep")
  /\ UNCHANGED <<users, links, flow>> /\ Same

\* GET /account/logout.
Logout(r, b) == Arrive(r, "logout", b, None, None, "answer", "ok", "clear") /\ UNCHANGED flow

\* Mutant: the cookie stays.
RevokeAllKeeps(r) ==
  /\ At(r, "revokeAll") /\ Respond(r, "ok", "keep")
  /\ UNCHANGED <<users, links, flow>> /\ Same

\* POST /account/sessions/revoke-all; what it does to the OidcModel table is in
\* OidcSessions.
RevokeAll(r) ==
  /\ At(r, "revokeAll") /\ Respond(r, "ok", "clear")
  /\ UNCHANGED <<users, links, flow>> /\ Same

LinksOf(u) == {i \in DOMAIN links : links[i].user = u}

\* GET /account lists the links, or clears the cookie of an account that is gone.
View(r) ==
  /\ At(r, "view")
  /\ req' = [req EXCEPT ![r] =
       [@ EXCEPT !.pc = "answer",
                 !.ids = LinksOf(req[r].user),
                 !.cookie = IF req[r].user \in users THEN "keep" ELSE "clear"]]
  /\ UNCHANGED <<users, links, flow>> /\ Same

Without(I) == [i \in DOMAIN links \ I |-> links[i]]

\* Mutant: the row is not compared with the account.
UnlinkAny(r) ==
  /\ At(r, "unlink") /\ Respond(r, "ok", "keep")
  /\ links' = Without({req[r].target})
  /\ UNCHANGED <<users, flow>> /\ Same

\* POST /account/linked-identities/:id/unlink deletes by id and account.
Unlink(r) ==
  /\ At(r, "unlink") /\ Respond(r, "ok", "keep")
  /\ links' = Without({req[r].target} \cap LinksOf(req[r].user))
  /\ UNCHANGED <<users, flow>> /\ Same

\* POST /account/delete: user.delete throws when the row has gone, and the cookie
\* stays.
Delete(r) ==
  /\ At(r, "delete")
  /\ IF req[r].user \in users THEN Respond(r, "ok", "clear") ELSE Respond(r, "error", "keep")
  /\ users' = users \ {req[r].user}
  /\ links' = Without(LinksOf(req[r].user))
  /\ UNCHANGED flow /\ Same

------------------------------------------------------------------------------
(* Linking.                                                                *)

\* assertPkce of a connector in mode m.
AssertPkce(m, verifier) ==
  /\ m = "required" => verifier
  /\ m = "unsupported" => ~verifier

\* Mutant: the state does not carry the code verifier.
VerifierForgotten(m) == FALSE

\* The verifier that the state carries; the connector, asked for its authorization
\* URI in the same turn, accepts it.
VerifierFor(m) == m # "unsupported"

\* GET /account/link/:providerId signs the state and redirects.
Link(r, b, p) ==
  /\ SignedIn(b)
  /\ \/ /\ pkce[p] = "off"
        /\ Arrive(r, "link", b, cookie[b], p, "answer", "refused", "keep") /\ UNCHANGED flow
     \/ /\ pkce[p] # "off"
        /\ Arrive(r, "link", b, cookie[b], p, "answer", "ok", "keep")
        /\ flow' = [x \in DOMAIN flow \cup {r} |->
             IF x = r THEN [user |-> cookie[b], provider |-> p, person |-> None,
                            verifier |-> VerifierFor(pkce[p]), code |-> "none"]
                      ELSE flow[x]]

\* At the provider the user approves as somebody, or refuses and comes back
\* without a code.
AtProvider(f, x) ==
  /\ req[f].pc = "done" /\ flow[f].code = "none"
  /\ flow' = [flow EXCEPT ![f].person = x, ![f].code = IF x = None THEN "denied" ELSE "issued"]
  /\ UNCHANGED <<users, links, req>> /\ Same

\* exchangeCode of a connector in mode m: a code is redeemed once.
Exchanges(m, f) == AssertPkce(m, flow[f].verifier) /\ flow[f].code = "issued"

\* GET /account/link/:providerId/callback with the state of f: the connector of
\* today exchanges the code, with the verifier of the state.  The exchange may fail
\* for a fault of the provider, whether or not that has redeemed the code.
Callback(r, f) ==
  LET b == req[f].browser
      m == pkce[flow[f].provider]
      accepted == Exchanges(m, f)
  IN /\ flow[f].code # "none"
     /\ \/ /\ m = "off" /\ UNCHANGED flow
           /\ Arrive(r, "callback", b, None, f, "answer", "refused", "keep")
        \/ /\ m # "off" /\ ~accepted
           /\ Arrive(r, "callback", b, None, f, "answer", "error", "keep") /\ UNCHANGED flow
        \/ /\ m # "off" /\ accepted
           /\ Arrive(r, "callback", b, None, f, "verify", "ok", "keep")
           /\ flow' = [flow EXCEPT ![f].code = "used"]
        \/ /\ m # "off" /\ AssertPkce(m, flow[f].verifier)
           /\ Arrive(r, "callback", b, None, f, "answer", "fault", "keep")
           /\ \/ UNCHANGED flow
              \/ accepted /\ flow' = [flow EXCEPT ![f].code = "used"]

\* The id_token of an OIDC connector is verified with the keys of the provider, or
\* this throws.
VerifyIdToken(r) ==
  /\ req[r].pc = "verify"
  /\ Step(r, "info", "ok", "keep") \/ Respond(r, "fault", "keep")
  /\ UNCHANGED <<users, links, flow>> /\ Same

\* The provider says who approved, or getUserInfo throws.
UserInfo(r) ==
  /\ req[r].pc = "info"
  /\ Step(r, "find", "ok", "keep") \/ Respond(r, "fault", "keep")
  /\ UNCHANGED <<users, links, flow>> /\ Same

\* Mutant: the link goes to whoever is signed in when the callback comes.
OwnerByCookie(r) == cookie[req[r].browser]

\* The state says whose link it is, whatever the cookie says by now.
Owner(r) == flow[req[r].target].user

\* The identity that a callback has proved.
Proved(r) == [provider |-> flow[req[r].target].provider,
              person |-> flow[req[r].target].person, user |-> Owner(r)]

SameIdentity(x, y) == x.provider = y.provider /\ x.person = y.person

Taken(r) == {i \in DOMAIN links : SameIdentity(links[i], Proved(r))}

FindLink(r) ==
  /\ req[r].pc = "find"
  /\ \/ Taken(r) = {} /\ Step(r, "create", "ok", "keep")
     \/ Taken(r) # {} /\ Taken(r) \subseteq LinksOf(Owner(r)) /\ Respond(r, "ok", "keep")
     \/ ~(Taken(r) \subseteq LinksOf(Owner(r))) /\ Respond(r, "error", "keep")
  /\ UNCHANGED <<users, links, flow>> /\ Same

\* Mutant: the foreign key is not there.
AcceptsAnyOwner(r) == Taken(r) = {}

\* The unique index and the foreign key of linkedIdentity.create.
Accepts(r) == Taken(r) = {} /\ Owner(r) \in users

CreateLink(r) ==
  /\ req[r].pc = "create"
  /\ \/ /\ Accepts(r)
        /\ Respond(r, "ok", "keep")
        /\ links' = [i \in DOMAIN links \cup {r} |-> IF i = r THEN Proved(r) ELSE links[i]]
     \/ /\ ~Accepts(r)
        /\ Respond(r, "error", "keep") /\ UNCHANGED links
  /\ UNCHANGED <<users, flow>> /\ Same

\* The admin API changes, removes or adds a connector, and the registry reloads.
Reload(p, m) ==
  /\ reloads < MaxReloads /\ reloads' = reloads + 1
  /\ pkce' = [pkce EXCEPT ![p] = m]
  /\ reloaded' = reloaded \cup {r \in DOMAIN flow : flow[r].provider = p}
  /\ UNCHANGED <<users, links, cookie, listed, req, flow, prior, lapsed>>

------------------------------------------------------------------------------

Arrives(r, b) ==
  \/ \E u \in Accounts : Arrive(r, "login", b, u, None, "handle", "ok", "keep") /\ UNCHANGED flow
  \/ Logout(r, b)
  \/ \E op \in {"view", "revokeAll", "delete"} : Signed(r, op, b, None)
  \/ \E i \in listed[b] : Signed(r, "unlink", b, i)
  \/ \E p \in Providers : Link(r, b, p)

Runs(r) ==
  \/ Login(r) \/ RevokeAll(r) \/ View(r) \/ Unlink(r) \/ Delete(r)
  \/ VerifyIdToken(r) \/ UserInfo(r) \/ FindLink(r) \/ CreateLink(r)
  \/ StatementFails(r) \/ Answer(r)

Next ==
  \/ \E r \in Requests : Runs(r) \/ \E b \in Browsers : Arrives(r, b)
  \/ \E f \in DOMAIN flow : \/ \E x \in People \cup {None} : AtProvider(f, x)
                           \/ \E r \in Requests : Callback(r, f)
  \/ \E b \in Browsers : CookieExpires(b)
  \/ \E p \in Providers, m \in Modes : Reload(p, m)

Spec == Init /\ [][Next]_vars

------------------------------------------------------------------------------
(* Properties.                                                             *)

\* A link is made for the account that was signed in where the linking began, also
\* when the browser has changed accounts since, and it goes only in a request of its
\* own account, also when the page that named it belongs to another by now
\* (router.ts:160-183, 222).
LinksFollowTheirAccount ==
  [][/\ \A i \in DOMAIN links' \ DOMAIN links :
          /\ req[i].op = "callback"
          /\ links'[i].user = req[req[i].target].user
     /\ \A i \in DOMAIN links \ DOMAIN links' :
          \E r \in Requests : /\ req[r].pc = "handle" /\ req'[r].pc = "answer"
                              /\ req[r].op \in {"unlink", "delete"}
                              /\ req[r].user = links[i].user]_vars

\* The identity of callback r was another account's at the start, or is proved by a
\* callback for another account, or by one that ran at the same time.
Contested(r) ==
  \/ \E i \in OldLinks : SameIdentity(OldLink[i], Proved(r)) /\ OldLink[i].user # Owner(r)
  \/ \E x \in Requests \ {r} :
       /\ req[x].op = "callback" /\ SameIdentity(Proved(x), Proved(r))
       /\ Owner(x) = Owner(r) => x \notin prior[r] /\ r \notin prior[x]

\* A call that callback r made to the provider or to the database has failed.
Faulted(r) == req[r].status = "fault"

\* A callback whose user approved fails only for a reason: the provider or the
\* database failed it (the exchange, the id_token, the user info, a statement), the
\* connector was changed while the user was away, another callback brought the same
\* state, the account was deleted, or the identity was contested (router.ts:159,
\* 186-215, oauth2Connector.ts:31-38, 91-94, 113-124, oidcConnector.ts:63-77).
CallbackFailsForAReason ==
  \A r \in Requests :
    /\ req[r].op = "callback" /\ req[r].status \in {"error", "fault"}
    /\ flow[req[r].target].person # None
    => LET f == req[r].target IN
       \/ Faulted(r)
       \/ f \in reloaded
       \/ flow[f].user \notin users
       \/ Contested(r)
       \/ \E x \in Requests \ {r} : req[x].op = "callback" /\ req[x].target = f

\* The ops whose answer ends a session, and those whose answer may touch the cookie.
Leaves(r) == req[r].op \in {"logout", "revokeAll", "delete"} /\ req[r].status = "ok"
Touches(r) == \/ req[r].op = "login" \/ Leaves(r)
              \/ req[r].op = "view" /\ req[r].user \notin users

\* A browser that has left the portal is in again only by a sign-in that was not
\* answered before it left.  One that signed in is somebody else only by a request
\* that was not answered before, and out only by such a request or because a cookie
\* has expired since: answers of requests that overlap arrive in any order
\* (router.ts:61-67, 75-79, 144, 321, session.ts:13, 39-49).
CookieFollowsTheUser ==
  \A r \in Requests :
    LET b == req[r].browser
        later == {x \in Requests \ {r} :
                    req[x].browser = b /\ req[x].pc = "done" /\ x \notin prior[r]}
    IN req[r].pc = "done" =>
         /\ Leaves(r) /\ cookie[b] # None => \E x \in later : req[x].op = "login"
         /\ req[r].op = "login" /\ req[r].status = "ok" /\ cookie[b] # req[r].user =>
              (cookie[b] = None /\ r \in lapsed) \/ \E x \in later : Touches(x)
==============================================================================
