----------------------------- MODULE ConsentScopes -----------------------------
(***************************************************************************)
(* What an app may see and change of one account: the scopes a user allows  *)
(* on the consent page (oidc/interactions.ts), the Grant that keeps them,   *)
(* the tokens issued under it, the claims they open (oidc/provider.ts) and   *)
(* the profile fields they let an app write (account/profileApi.ts).        *)
(*                                                                          *)
(* The user works in the tabs of several browser sessions (of another       *)
(* browser, or after signing out and in again): a tab is one visit to the   *)
(* authorization endpoint, a post one submission of "Allow".  That endpoint *)
(* and the token endpoint belong to oidc-provider; they are modelled by     *)
(* what interactions.ts and the storage adapter see of them.                *)
(***************************************************************************)
CONSTANTS
  Sessions, \* the browser sessions of the user (bound)
  Tabs,     \* visits to the authorization endpoint (bound)
  Posts,    \* submissions of the consent form (bound)
  Patches,  \* PATCH requests of the profile API (bound)
  Clients,
  Holders,  \* the clients that may hold a grant at the start
  Scopes,   \* the scopes a client may ask for, besides openid
  Roles,    \* Role rows
  RoleOf,   \* RoleOf[x]: the client that role x belongs to
  None

\* A Grant made by a post carries the post's name; the one that a client may
\* hold at the start carries the client's.
Grants == Posts \cup Clients

\* The fields of a profile, and the scope that covers each.
Fields == {"name", "picture", "email"}
ScopeOf == [f \in Fields |-> IF f = "email" THEN "email" ELSE "profile"]

ASSUME NamesAssumption ==
  /\ Sessions # {} /\ Clients # {} /\ Posts \cap Clients = {}
  /\ Holders \subseteq Clients
  /\ None \notin Grants \cup Tabs
  /\ RoleOf \in [Roles -> Clients] /\ Roles \cap Fields = {}

VARIABLES
  granted,      \* the Grant rows: a partial function from ids to scopes
  expired,      \* the Grant rows past their expiresAt, which stay in the table
  sessionGrant, \* sessionGrant[<<s, c>>]: what the browser session s keeps for c
  tab,          \* tab[t]: the interaction of tab t
  post,         \* post[p]: the handler of POST confirm
  patch,        \* patch[q]: the handler of PATCH /api/account/profile
  tokens,       \* access tokens
  approved,     \* scopes the user allowed to a client (history)
  told,         \* what userinfo answered to a client (history)
  written,      \* the fields a client has written (history)
  ended,        \* grants that were revoked or have expired (history)
  prior         \* prior[p]: posts answered before p arrived (history)

histories == <<approved, told, written, ended, prior>>
vars == <<granted, expired, sessionGrant, tab, post, patch, tokens, histories>>

Tab == [pc : {"idle", "interaction", "page", "answered", "authorized", "done",
              "denied", "failed"},
        session : Sessions, client : Clients,
        requested : SUBSET Scopes, missing : SUBSET Scopes,
        grantId : Grants \cup {None}, result : Grants \cup {None},
        settled : SUBSET Tabs]

Post == [pc : {"idle", "save", "finish", "done", "failed"},
         tab : Tabs \cup {None}, grantId : Grants \cup {None}, copy : SUBSET Scopes,
         settled : SUBSET Tabs]

Token == [client : Clients, grantId : Grants, scopes : SUBSET Scopes]

Patch == [pc : {"idle", "update", "done"}, client : Clients, data : SUBSET Fields]

TypeOK ==
  /\ DOMAIN granted \subseteq Grants
  /\ \A g \in DOMAIN granted : granted[g] \subseteq Scopes
  /\ expired \subseteq DOMAIN granted
  /\ sessionGrant \in [Sessions \X Clients -> Grants \cup {None}]
  /\ tab \in [Tabs -> Tab]
  /\ post \in [Posts -> Post]
  /\ patch \in [Patches -> Patch]
  /\ tokens \subseteq Token
  /\ approved \subseteq Clients \X Scopes
  /\ told \subseteq Clients \X (Fields \cup Roles)
  /\ written \subseteq Clients \X Fields
  /\ ended \subseteq Grants
  /\ prior \in [Posts -> SUBSET Posts]

SomeSession == CHOOSE s \in Sessions : TRUE
SomeClient == CHOOSE c \in Clients : TRUE

\* A client that has a grant at the start has it for openid alone, in one session.
Init ==
  /\ \E C \in SUBSET Holders :
       /\ granted = [c \in C |-> {}]
       /\ sessionGrant = [x \in Sessions \X Clients |->
                            IF x[1] = SomeSession /\ x[2] \in C THEN x[2] ELSE None]
  /\ expired = {}
  /\ tab = [t \in Tabs |-> [pc |-> "idle", session |-> SomeSession, client |-> SomeClient,
                            requested |-> {}, missing |-> {}, grantId |-> None,
                            result |-> None, settled |-> {}]]
  /\ post = [p \in Posts |-> [pc |-> "idle", tab |-> None, grantId |-> None, copy |-> {},
                              settled |-> {}]]
  /\ patch = [q \in Patches |-> [pc |-> "idle", client |-> SomeClient, data |-> {}]]
  /\ tokens = {}
  /\ approved = {} /\ told = {} /\ written = {} /\ ended = {}
  /\ prior = [p \in Posts |-> {}]

------------------------------------------------------------------------------
(* The authorization endpoint (oidc-provider).                             *)

\* The rows that the adapter's find returns.
Live == DOMAIN granted \ expired

\* loadExistingGrant: the grant of the session, if it is found.
Existing(g) == IF g \in Live THEN g ELSE None

ScopesOf(g) == IF g \in DOMAIN granted THEN granted[g] ELSE {}

\* The tabs that have come back with a grant.
Settled == {t \in Tabs : tab[t].pc \in {"authorized", "done"}}

\* Scopes the grant lacks make an interaction, and otherwise a code is issued.
Check(t, s, c, S, g) ==
  LET has == IF g \in Live THEN granted[g] ELSE {} IN
  tab' = [tab EXCEPT ![t] =
    [pc |-> IF g \in Live /\ S \subseteq has THEN "authorized" ELSE "interaction",
     session |-> s, client |-> c, requested |-> S, missing |-> S \ has,
     grantId |-> Existing(g), result |-> None, settled |-> Settled]]

Authorize(t, s, c, S) ==
  /\ tab[t].pc = "idle"
  /\ Check(t, s, c, S, sessionGrant[<<s, c>>])
  /\ UNCHANGED <<granted, expired, sessionGrant, post, patch, tokens, histories>>

\* The browser comes back: the session takes over the grant of a consent that
\* made one, and the request is checked again.
Resume(t) ==
  LET s == tab[t].session
      c == tab[t].client
      g == IF tab[t].result = None THEN sessionGrant[<<s, c>>] ELSE tab[t].result
  IN /\ tab[t].pc = "answered"
     /\ sessionGrant' = [sessionGrant EXCEPT ![<<s, c>>] = g]
     /\ Check(t, s, c, tab[t].requested, g)
     /\ UNCHANGED <<granted, expired, post, patch, tokens, histories>>

\* The token endpoint: a token opens what the grant holds of the request.
IssueToken(t) ==
  LET g == tab[t].grantId IN
  /\ tab[t].pc = "authorized"
  /\ \/ /\ g \in Live
        /\ tokens' = tokens \cup {[client |-> tab[t].client, grantId |-> g,
                                  scopes |-> tab[t].requested \cap granted[g]]}
        /\ tab' = [tab EXCEPT ![t].pc = "done"]
     \/ /\ g \notin Live
        /\ tab' = [tab EXCEPT ![t].pc = "failed"]
        /\ UNCHANGED tokens
  /\ UNCHANGED <<granted, expired, sessionGrant, post, patch, histories>>

------------------------------------------------------------------------------
(* The consent page: oidc/interactions.ts.                                 *)

TabOnly == UNCHANGED <<granted, expired, sessionGrant, post, patch, tokens, histories>>

\* GET /interaction/:uid describes the scopes the grant lacks.
ShowConsent(t) ==
  /\ tab[t].pc = "interaction"
  /\ tab' = [tab EXCEPT ![t].pc = "page"]
  /\ TabOnly

\* GET /interaction/:uid/abort, the link "Deny".
Abort(t) ==
  /\ tab[t].pc = "page"
  /\ tab' = [tab EXCEPT ![t].pc = "denied"]
  /\ TabOnly

\* Mutant: the grant is made anew, with the missing scopes alone.
CopyOfMissing(t) == tab[t].missing

\* Grant.find, or a new Grant, with the missing scopes added to the copy.
CopyFor(t) == ScopesOf(tab[t].grantId) \cup tab[t].missing

\* Mutant: the grant found by the interaction is not used.
GrantForNew(p, t) == p

GrantFor(p, t) == IF tab[t].grantId = None THEN p ELSE tab[t].grantId

\* POST /interaction/:uid/confirm, up to grant.save: the interaction stays until
\* the browser has come back, so "Allow" can be sent twice.  A grant that is
\* no longer found answers an error.
Confirm(p, t) ==
  LET found == tab[t].grantId = None \/ tab[t].grantId \in Live IN
  /\ post[p].pc = "idle"
  /\ tab[t].pc \in {"page", "answered"}
  /\ post' = [post EXCEPT ![p] = [pc |-> IF found THEN "save" ELSE "failed", tab |-> t,
                                  grantId |-> GrantFor(p, t), copy |-> CopyFor(t),
                                  settled |-> tab[t].settled]]
  /\ approved' = approved \cup ({tab[t].client} \X tab[t].missing)
  /\ prior' = [prior EXCEPT ![p] = {x \in Posts : post[x].pc \in {"done", "failed"}}]
  /\ UNCHANGED <<granted, expired, sessionGrant, tab, patch, tokens, told, written,
                 ended>>

\* grant.save is an upsert of the copy and of an expiresAt that oidc-provider
\* chooses: it may put off the expiry of the row or leave it.
SaveGrant(p) ==
  LET g == post[p].grantId IN
  /\ post[p].pc = "save"
  /\ post' = [post EXCEPT ![p].pc = "finish"]
  /\ granted' = [x \in DOMAIN granted \cup {g} |->
                   IF x = g THEN post[p].copy ELSE granted[x]]
  /\ expired' \in {expired, expired \ {g}}
  /\ UNCHANGED <<sessionGrant, tab, patch, tokens, histories>>

\* interactionFinished names the grant when the interaction had none.
FinishConfirm(p) ==
  LET t == post[p].tab IN
  /\ post[p].pc = "finish"
  /\ post' = [post EXCEPT ![p].pc = "done"]
  /\ tab' = IF tab[t].pc \in {"page", "answered"}
            THEN [tab EXCEPT
                    ![t].pc = "answered",
                    ![t].result = IF tab[t].grantId = None THEN post[p].grantId ELSE None]
            ELSE tab
  /\ UNCHANGED <<granted, expired, sessionGrant, patch, tokens, histories>>

\* The expiresAt of a grant passes; the portal still lists it.
Expire(g) ==
  /\ g \in Live
  /\ expired' = expired \cup {g}
  /\ ended' = ended \cup {g}
  /\ UNCHANGED <<granted, sessionGrant, tab, post, patch, tokens, approved, told,
                 written, prior>>

\* The user ends a grant in the portal: its tokens and its row go.
RevokeGrant(g) ==
  /\ g \in DOMAIN granted
  /\ granted' = [x \in DOMAIN granted \ {g} |-> granted[x]]
  /\ expired' = expired \ {g}
  /\ tokens' = {k \in tokens : k.grantId # g}
  /\ ended' = ended \cup {g}
  /\ UNCHANGED <<sessionGrant, tab, post, patch, approved, told, written, prior>>

------------------------------------------------------------------------------
(* Tokens in use.                                                          *)

\* Mutant: the roles the user holds anywhere.
RolesAnywhere(c, held) == held

\* rolesAndPermissionsFor looks only at the client the token belongs to.
RolesFor(c, held) == {x \in held : RoleOf[x] = c}

\* Mutant: the scopes are answered in the place of what they open.
ClaimsAreScopes(k, held) == k.scopes

\* claims: the provider masks the fields by scope; roles are looked up for one.
Claims(k, held) ==
  {f \in Fields : ScopeOf[f] \in k.scopes}
    \cup (IF "roles" \in k.scopes THEN RolesFor(k.client, held) ELSE {})

\* GET /oidc/me, whatever roles the administrators have given the user by then.
UserInfo(k) ==
  /\ \E held \in SUBSET Roles : told' = told \cup ({k.client} \X Claims(k, held))
  /\ UNCHANGED <<granted, expired, sessionGrant, tab, post, patch, tokens, approved,
                 written, ended, prior>>

\* PATCH /api/account/profile with a token that is found: one field without its
\* scope, and the whole request is refused.
PatchProfile(q, k, data) ==
  /\ patch[q].pc = "idle"
  /\ \A f \in data : ScopeOf[f] \in k.scopes
  /\ patch' = [patch EXCEPT ![q] = [pc |-> "update", client |-> k.client, data |-> data]]
  /\ UNCHANGED <<granted, expired, sessionGrant, tab, post, tokens, histories>>

\* user.update, whatever has become of the token.
UpdateProfile(q) ==
  /\ patch[q].pc = "update"
  /\ patch' = [patch EXCEPT ![q].pc = "done"]
  /\ written' = written \cup ({patch[q].client} \X patch[q].data)
  /\ UNCHANGED <<granted, expired, sessionGrant, tab, post, tokens, approved, told,
                 ended, prior>>

------------------------------------------------------------------------------

TabStep(t) ==
  \/ Resume(t) \/ IssueToken(t) \/ ShowConsent(t) \/ Abort(t)
  \/ \E s \in Sessions, c \in Clients, S \in SUBSET Scopes \ {{}} : Authorize(t, s, c, S)

PostStep(p) == SaveGrant(p) \/ FinishConfirm(p) \/ \E t \in Tabs : Confirm(p, t)

TokenStep(k) ==
  UserInfo(k) \/ \E q \in Patches, data \in SUBSET Fields \ {{}} : PatchProfile(q, k, data)

Next ==
  \/ \E t \in Tabs : TabStep(t)
  \/ \E p \in Posts : PostStep(p)
  \/ \E k \in tokens : TokenStep(k)
  \/ \E q \in Patches : UpdateProfile(q)
  \/ \E g \in Grants : RevokeGrant(g) \/ Expire(g)

Spec == Init /\ [][Next]_vars

------------------------------------------------------------------------------
(* Properties.                                                             *)

\* Whatever an app holds, was told or has written of the account, the user allowed
\* that app the scope of it, on a page that named it; and roles reach only the app
\* they belong to (interactions.ts:134, provider.ts:21-27, profileApi.ts:27-54).
OnlyWhatWasApproved ==
  /\ \A k \in tokens : {k.client} \X k.scopes \subseteq approved
  /\ \A w \in written : <<w[1], ScopeOf[w[2]]>> \in approved
  /\ \A c \in Clients :
       /\ \A f \in Fields : <<c, f>> \in told => <<c, ScopeOf[f]>> \in approved
       /\ \A x \in Roles : <<c, x>> \in told => RoleOf[x] = c /\ <<c, "roles">> \in approved

\* p and x were submitted at the same time.
Overlap(p, x) == p # x /\ p \notin prior[x] /\ x \notin prior[p]

\* A scope that was allowed stays in the grant until the grant is revoked or expires,
\* unless a submission that ran at the same time saved a copy without it: the handler
\* reads the grant, adds to it and stores all of it (interactions.ts:127-142).
ApprovalLostOnlyByOverlap ==
  \A p \in Posts :
    LET g == post[p].grantId IN
    post[p].pc = "done" /\ g \notin ended =>
      \/ post[p].copy \subseteq ScopesOf(g)
      \/ \E x \in Posts : post[x].grantId = g /\ Overlap(p, x)

\* The client of a grant.
ClientOf(g) == IF g \in Clients THEN g ELSE tab[post[g].tab].client

\* In one browser session the user finds one entry for an app, and revoking it ends
\* the app: a second Grant row for a client appears only from another session, which
\* knows nothing of the first one, from tabs of one session that were open at the same
\* time (or one form sent twice), or after a grant of the client was revoked or has
\* expired (interactions.ts:127-130, 145; oidcModelAdapter.ts:36; sessions.ts:18-20).
SecondGrantHasAReason ==
  \A g, h \in DOMAIN granted \cap Posts :
    g # h /\ ClientOf(g) = ClientOf(h) =>
      \/ tab[post[g].tab].session # tab[post[h].tab].session
      \/ post[g].tab \notin post[h].settled /\ post[h].tab \notin post[g].settled
      \/ \E x \in ended : ClientOf(x) = ClientOf(g)

\* A session keeps one grant of a client, and it is what the user allowed in it, unless
\* consents of the user ran into each other.
GrantsDivergeForAReason == ApprovalLostOnlyByOverlap /\ SecondGrantHasAReason
==============================================================================
