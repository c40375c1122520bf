------------------------- MODULE ConsentScopes_proofs --------------------------
(***************************************************************************)
(* Proofs about ConsentScopes, for any number of tabs, submissions, clients *)
(* and scopes: its types, that an app holds, reads and writes only what the *)
(* user allowed it, and when consents of one app come to two grants.        *)
(***************************************************************************)
EXTENDS ConsentScopes, TLAPS

------------------------------------------------------------------------------
(* Type correctness.                                                       *)

\* A submission is of a tab, and of a grant.
Posted ==
  \A p \in Posts : post[p].pc # "idle" => post[p].tab \in Tabs /\ post[p].grantId \in Grants

TypeInv == TypeOK /\ Posted

LEMMA InitTypeInv == Init => TypeInv
<1> SUFFICES ASSUME Init PROVE TypeInv
  OBVIOUS
<1>1. SomeClient \in Clients /\ SomeSession \in Sessions
  BY NamesAssumption DEF SomeClient, SomeSession
<1>2. PICK C \in SUBSET Holders :
        /\ granted = [c \in C |-> {}]
        /\ sessionGrant = [x \in Sessions \X Clients |->
                             IF x[1] = SomeSession /\ x[2] \in C THEN x[2] ELSE None]
  BY DEF Init
<1>3. /\ DOMAIN granted \subseteq Grants /\ \A g \in DOMAIN granted : granted[g] \subseteq Scopes
      /\ expired \subseteq DOMAIN granted
      /\ sessionGrant \in [Sessions \X Clients -> Grants \cup {None}]
  BY <1>2, NamesAssumption DEF Grants, Init
<1>4. tab \in [Tabs -> Tab] /\ post \in [Posts -> Post] /\ patch \in [Patches -> Patch]
  BY <1>1 DEF Init, Tab, Post, Patch
<1>5. /\ tokens \subseteq Token /\ approved \subseteq Clients \X Scopes
      /\ told \subseteq Clients \X (Fields \cup Roles) /\ written \subseteq Clients \X Fields
      /\ ended \subseteq Grants /\ prior \in [Posts -> SUBSET Posts]
  BY DEF Init
<1>6. \A p \in Posts : post[p].pc = "idle"
  BY DEF Init
<1> QED
  BY <1>3, <1>4, <1>5, <1>6 DEF TypeInv, TypeOK, Posted

\* A step that changes one tab.
OneTab(t, x) ==
  /\ tab'[t] = x /\ \A u \in Tabs \ {t} : tab'[u] = tab[u]
  /\ tab' \in [Tabs -> Tab]

OnePost(p, x) ==
  /\ post'[p] = x /\ \A y \in Posts \ {p} : post'[y] = post[y]
  /\ post' \in [Posts -> Post]

\* What a request of client c with the scopes S finds.
Checked(t, s, c, g) ==
  \E x \in Tab :
    /\ OneTab(t, x)
    /\ x.pc # "idle" /\ x.session = s /\ x.client = c
    /\ x.grantId \in {None, g} /\ x.result = None
    /\ x.grantId = Existing(g) /\ x.settled = Settled
    /\ x.pc \in {"authorized", "interaction"} /\ (x.pc = "authorized" => g \in DOMAIN granted)

LEMMA CheckEffect ==
  ASSUME TypeOK, NEW t \in Tabs, NEW s \in Sessions, NEW c \in Clients,
         NEW S \in SUBSET Scopes, NEW g \in Grants \cup {None}, Check(t, s, c, S, g)
  PROVE  Checked(t, s, c, g)
<1> DEFINE has == IF g \in Live THEN granted[g] ELSE {}
           x == [pc |-> IF g \in Live /\ S \subseteq has THEN "authorized" ELSE "interaction",
                 session |-> s, client |-> c, requested |-> S, missing |-> S \ has,
                 grantId |-> Existing(g), result |-> None, settled |-> Settled]
<1>1. Existing(g) \in {None, g} /\ Settled \in SUBSET Tabs
  BY DEF Existing, Settled
<1>2. /\ x \in Tab /\ x.session = s /\ x.client = c
      /\ x.grantId \in {None, g} /\ x.result = None
      /\ x.grantId = Existing(g) /\ x.settled = Settled
      /\ x.pc \in {"authorized", "interaction"} /\ (x.pc = "authorized" => g \in DOMAIN granted)
  BY <1>1 DEF Tab, Live
<1>3. tab' = [tab EXCEPT ![t] = x]
  BY DEF Check
<1> HIDE DEF x
<1>4. OneTab(t, x)
  BY <1>2, <1>3 DEF OneTab, TypeOK
<1> QED
  BY <1>2, <1>4 DEF Checked

\* A step of a tab that keeps what it asks for.
Turned(t, p) ==
  \E x \in Tab :
    /\ OneTab(t, x) /\ x.pc = p
    /\ x.client = tab[t].client /\ x.grantId = tab[t].grantId /\ x.result = tab[t].result
    /\ x.settled = tab[t].settled /\ x.session = tab[t].session

LEMMA TurnEffect ==
  ASSUME TypeOK, NEW t \in Tabs, NEW p \in {"page", "denied", "done", "failed"},
         tab' = [tab EXCEPT ![t].pc = p]
  PROVE  Turned(t, p)
<1>1. tab[t] \in Tab
  BY DEF TypeOK
<1> DEFINE x == [tab[t] EXCEPT !.pc = p]
<1>2. /\ x \in Tab /\ x.pc = p
      /\ x.client = tab[t].client /\ x.grantId = tab[t].grantId /\ x.result = tab[t].result
      /\ x.settled = tab[t].settled /\ x.session = tab[t].session
  BY <1>1 DEF Tab
<1>3. tab' = [tab EXCEPT ![t] = x]
  BY DEF TypeOK
<1> HIDE DEF x
<1>4. OneTab(t, x)
  BY <1>2, <1>3 DEF OneTab, TypeOK
<1> QED
  BY <1>2, <1>4 DEF Turned

\* The answer to a submission.
LEMMA FinishEffect ==
  ASSUME TypeInv, NEW p \in Posts, FinishConfirm(p)
  PROVE  /\ post[p].tab \in Tabs
         /\ \/ tab' = tab
            \/ \E x \in Tab :
                 /\ OneTab(post[p].tab, x) /\ x.pc = "answered"
                 /\ tab[post[p].tab].pc \in {"page", "answered"}
                 /\ x.client = tab[post[p].tab].client /\ x.grantId = tab[post[p].tab].grantId
                 /\ x.result \in {None, post[p].grantId}
                 /\ x.settled = tab[post[p].tab].settled
                 /\ x.session = tab[post[p].tab].session
         /\ \E x \in Post :
              /\ OnePost(p, x) /\ x.pc = "done" /\ post[p].pc = "finish"
              /\ x.tab = post[p].tab /\ x.grantId = post[p].grantId /\ x.copy = post[p].copy
              /\ x.settled = post[p].settled
<1>1. /\ TypeOK /\ post[p] \in Post /\ post[p].pc = "finish"
      /\ post[p].tab \in Tabs /\ post[p].grantId \in Grants
  BY DEF TypeInv, TypeOK, Posted, FinishConfirm
<1>t. PICK t \in Tabs : t = post[p].tab
  BY <1>1
<1>2. tab[t] \in Tab
  BY <1>1 DEF TypeOK
<1>3. ASSUME tab[t].pc \in {"page", "answered"}
      PROVE  \E x \in Tab :
               /\ OneTab(t, x) /\ x.pc = "answered"
               /\ x.client = tab[t].client /\ x.grantId = tab[t].grantId
               /\ x.result \in {None, post[p].grantId}
               /\ x.settled = tab[t].settled /\ x.session = tab[t].session
  <2> DEFINE x == [tab[t] EXCEPT !.pc = "answered",
                     !.result = IF tab[t].grantId = None THEN post[p].grantId ELSE None]
  <2>1. /\ x \in Tab /\ x.pc = "answered"
        /\ x.client = tab[t].client /\ x.grantId = tab[t].grantId
        /\ x.result \in {None, post[p].grantId}
        /\ x.settled = tab[t].settled /\ x.session = tab[t].session
    BY <1>1, <1>2 DEF Tab
  <2>2. tab' = [tab EXCEPT ![t] = x]
    BY <1>t, <1>1, <1>3 DEF FinishConfirm, TypeOK
  <2> HIDE DEF x
  <2>3. OneTab(t, x)
    BY <1>1, <2>1, <2>2 DEF OneTab, TypeOK
  <2> QED
    BY <2>1, <2>3
<1>4. tab[t].pc \notin {"page", "answered"} => tab' = tab
  BY <1>t DEF FinishConfirm
<1>5. \E x \in Post :
        /\ OnePost(p, x) /\ x.pc = "done"
        /\ x.tab = post[p].tab /\ x.grantId = post[p].grantId /\ x.copy = post[p].copy
        /\ x.settled = post[p].settled
  <2> DEFINE x == [post[p] EXCEPT !.pc = "done"]
  <2>1. /\ x \in Post /\ x.pc = "done"
        /\ x.tab = post[p].tab /\ x.grantId = post[p].grantId /\ x.copy = post[p].copy
        /\ x.settled = post[p].settled
    BY <1>1 DEF Post
  <2>2. post' = [post EXCEPT ![p] = x]
    BY DEF FinishConfirm
  <2> HIDE DEF x
  <2>3. OnePost(p, x)
    BY <1>1, <2>1, <2>2 DEF OnePost, TypeOK
  <2> QED
    BY <2>1, <2>3
<1> QED
  BY <1>1, <1>t, <1>3, <1>4, <1>5

\* A submission arrives: its grant is the one of the tab, or its own.
LEMMA ConfirmEffect ==
  ASSUME TypeOK, NEW p \in Posts, NEW t \in Tabs, Confirm(p, t)
  PROVE  \E x \in Post :
           /\ OnePost(p, x) /\ post[p].pc = "idle" /\ x.pc # "idle" /\ x.tab = t
           /\ tab[t].pc # "idle"
           /\ x.grantId \in Grants /\ x.grantId \in {p, tab[t].grantId}
           /\ x.copy = ScopesOf(tab[t].grantId) \cup tab[t].missing
           /\ x.pc \in {"save", "failed"} /\ x.settled = tab[t].settled
           /\ x.grantId = IF tab[t].grantId = None THEN p ELSE tab[t].grantId
<1>1. tab[t] \in Tab /\ tab[t].pc \in {"page", "answered"} /\ post[p].pc = "idle"
  BY DEF TypeOK, Confirm
<1>2. GrantFor(p, t) \in Grants /\ GrantFor(p, t) \in {p, tab[t].grantId}
  BY <1>1 DEF GrantFor, Grants, Tab
<1>3. CopyFor(t) \in SUBSET Scopes
  BY <1>1 DEF CopyFor, ScopesOf, TypeOK, Tab
<1> DEFINE x == [pc |-> IF tab[t].grantId = None \/ tab[t].grantId \in Live
                        THEN "save" ELSE "failed",
                 tab |-> t, grantId |-> GrantFor(p, t), copy |-> CopyFor(t),
                 settled |-> tab[t].settled]
<1>4. x \in Post
  BY <1>1, <1>2, <1>3 DEF Post, Tab
<1>5. /\ x.pc # "idle" /\ x.tab = t /\ x.grantId = GrantFor(p, t)
      /\ x.copy = ScopesOf(tab[t].grantId) \cup tab[t].missing
      /\ x.pc \in {"save", "failed"} /\ x.settled = tab[t].settled
      /\ x.grantId = IF tab[t].grantId = None THEN p ELSE tab[t].grantId
  BY DEF CopyFor, GrantFor
<1>6. post' = [post EXCEPT ![p] = x]
  BY DEF Confirm
<1> HIDE DEF x
<1>7. OnePost(p, x)
  BY <1>4, <1>6 DEF OnePost, TypeOK
<1> QED
  BY <1>1, <1>2, <1>4, <1>5, <1>7

LEMMA SaveEffect ==
  ASSUME TypeInv, NEW p \in Posts, SaveGrant(p)
  PROVE  /\ post[p].pc = "save" /\ post[p].grantId \in Grants
         /\ DOMAIN granted' = DOMAIN granted \cup {post[p].grantId}
         /\ expired' \subseteq expired
         /\ \A g \in DOMAIN granted' :
              granted'[g] = IF g = post[p].grantId THEN post[p].copy ELSE granted[g]
         /\ \E x \in Post :
              /\ OnePost(p, x) /\ x.pc = "finish"
              /\ x.tab = post[p].tab /\ x.grantId = post[p].grantId /\ x.copy = post[p].copy
              /\ x.settled = post[p].settled
<1>1. post[p] \in Post /\ post[p].pc = "save" /\ post[p].grantId \in Grants
  BY DEF TypeInv, TypeOK, Posted, SaveGrant
<1> DEFINE x == [post[p] EXCEPT !.pc = "finish"]
<1>2. /\ x \in Post /\ x.pc = "finish"
      /\ x.tab = post[p].tab /\ x.grantId = post[p].grantId /\ x.copy = post[p].copy
      /\ x.settled = post[p].settled
  BY <1>1 DEF Post
<1>3. post' = [post EXCEPT ![p] = x]
  BY DEF SaveGrant
<1> HIDE DEF x
<1>4. OnePost(p, x)
  BY <1>2, <1>3 DEF OnePost, TypeInv, TypeOK
<1> QED
  BY <1>1, <1>2, <1>4 DEF SaveGrant

LEMMA RolesType == ASSUME NEW c, NEW held \in SUBSET Roles PROVE RolesFor(c, held) \subseteq Roles
BY DEF RolesFor

\* Steps of a tab at the authorization endpoint and on the page.
LEMMA TabTypeInv ==
  ASSUME TypeInv, NEW t \in Tabs, TabStep(t)
  PROVE  TypeInv'
<1>1. TypeOK
  BY DEF TypeInv
<1>2. tab' \in [Tabs -> Tab] /\ sessionGrant' \in [Sessions \X Clients -> Grants \cup {None}]
  <2>1. ASSUME NEW s \in Sessions, NEW c \in Clients, NEW S \in SUBSET Scopes \ {{}},
               Authorize(t, s, c, S)
        PROVE  tab' \in [Tabs -> Tab] /\ sessionGrant' = sessionGrant
    <3>1. PICK g \in Grants \cup {None} : g = sessionGrant[<<s, c>>]
      BY <1>1 DEF TypeOK
    <3>2. Checked(t, s, c, g)
      BY <1>1, <2>1, <3>1, CheckEffect DEF Authorize
    <3> QED
      BY <2>1, <3>2 DEF Checked, OneTab, Authorize
  <2>2. CASE Resume(t)
    <3>1. tab[t] \in Tab
      BY <1>1 DEF TypeOK
    <3>2. PICK s \in Sessions, c \in Clients, S \in SUBSET Scopes, g \in Grants \cup {None} :
            /\ s = tab[t].session /\ c = tab[t].client /\ S = tab[t].requested
            /\ g = IF tab[t].result = None THEN sessionGrant[<<s, c>>] ELSE tab[t].result
      BY <1>1, <3>1 DEF TypeOK, Tab
    <3>3. Check(t, s, c, S, g) /\ sessionGrant' = [sessionGrant EXCEPT ![<<s, c>>] = g]
      BY <2>2, <3>2 DEF Resume
    <3>4. Checked(t, s, c, g)
      BY <1>1, <3>3, CheckEffect
    <3> QED
      BY <1>1, <3>3, <3>4 DEF Checked, OneTab, TypeOK
  <2>3. CASE IssueToken(t) \/ ShowConsent(t) \/ Abort(t)
    <3>1. PICK p \in {"page", "denied", "done", "failed"} : tab' = [tab EXCEPT ![t].pc = p]
      BY <2>3 DEF IssueToken, ShowConsent, Abort
    <3>2. Turned(t, p)
      BY <1>1, <3>1, TurnEffect
    <3> QED
      BY <1>1, <2>3, <3>2 DEF Turned, OneTab, IssueToken, ShowConsent, Abort, TabOnly, TypeOK
  <2> QED
    BY <1>1, <2>1, <2>2, <2>3 DEF TabStep, TypeOK
<1>3. tokens' \subseteq Token
  <2>1. CASE IssueToken(t)
    <3>1. tab[t] \in Tab
      BY <1>1 DEF TypeOK
    <3> QED
      BY <1>1, <2>1, <3>1 DEF IssueToken, TypeOK, Tab, Token, Live
  <2>2. CASE tokens' = tokens
    BY <1>1, <2>2 DEF TypeOK
  <2> QED
    BY <2>1, <2>2 DEF TabStep, Authorize, Resume, ShowConsent, Abort, TabOnly
<1>4. UNCHANGED <<granted, expired, post, patch, approved, told, written, ended, prior>>
  BY DEF TabStep, Authorize, Resume, IssueToken, ShowConsent, Abort, TabOnly, histories
<1> QED
  BY <1>1, <1>2, <1>3, <1>4 DEF TypeInv, TypeOK, Posted

LEMMA PostTypeInv ==
  ASSUME TypeInv, NEW p \in Posts, PostStep(p)
  PROVE  TypeInv'
<1>1. TypeOK
  BY DEF TypeInv
<1>2. ASSUME NEW t \in Tabs, Confirm(p, t) PROVE TypeInv'
  <2>1. PICK x \in Post : OnePost(p, x) /\ x.tab = t /\ x.grantId \in Grants
    BY <1>1, <1>2, ConfirmEffect
  <2>2. approved' \subseteq Clients \X Scopes /\ prior' \in [Posts -> SUBSET Posts]
    <3>1. tab[t] \in Tab
      BY <1>1 DEF TypeOK
    <3> QED
      BY <1>1, <1>2, <3>1 DEF Confirm, TypeOK, Tab
  <2>3. UNCHANGED <<granted, expired, sessionGrant, tab, patch, tokens, told, written, ended>>
    BY <1>2 DEF Confirm
  <2>4. Posted'
    BY <2>1 DEF TypeInv, Posted, OnePost
  <2> QED
    BY <1>1, <2>1, <2>2, <2>3, <2>4 DEF TypeInv, TypeOK, OnePost
<1>3. CASE SaveGrant(p)
  <2>1. PICK x \in Post : OnePost(p, x) /\ x.tab = post[p].tab /\ x.grantId = post[p].grantId
    BY <1>3, SaveEffect
  <2>2. /\ post[p].pc = "save" /\ post[p].grantId \in Grants
        /\ DOMAIN granted' = DOMAIN granted \cup {post[p].grantId} /\ expired' \subseteq expired
        /\ \A g \in DOMAIN granted' :
             granted'[g] = IF g = post[p].grantId THEN post[p].copy ELSE granted[g]
    BY <1>3, SaveEffect
  <2>3. post[p].copy \subseteq Scopes
    BY <1>1 DEF TypeOK, Post
  <2>4. /\ DOMAIN granted' \subseteq Grants /\ expired' \subseteq DOMAIN granted'
        /\ \A g \in DOMAIN granted' : granted'[g] \subseteq Scopes
    BY <1>1, <2>2, <2>3 DEF TypeOK
  <2>5. UNCHANGED <<sessionGrant, tab, patch, tokens, histories>>
    BY <1>3 DEF SaveGrant
  <2>6. Posted'
    BY <2>1, <2>2 DEF TypeInv, Posted, OnePost
  <2> QED
    BY <1>1, <2>1, <2>4, <2>5, <2>6 DEF TypeInv, TypeOK, OnePost, histories
<1>4. CASE FinishConfirm(p)
  <2>1. PICK x \in Post : /\ OnePost(p, x) /\ post[p].pc = "finish"
                          /\ x.tab = post[p].tab /\ x.grantId = post[p].grantId
    BY <1>4, FinishEffect
  <2>2. tab' \in [Tabs -> Tab]
    BY <1>1, <1>4, FinishEffect DEF OneTab, TypeOK
  <2>3. UNCHANGED <<granted, expired, sessionGrant, patch, tokens, histories>>
    BY <1>4 DEF FinishConfirm
  <2>4. Posted'
    BY <2>1 DEF TypeInv, Posted, OnePost
  <2> QED
    BY <1>1, <2>1, <2>2, <2>3, <2>4 DEF TypeInv, TypeOK, OnePost, histories
<1> QED
  BY <1>2, <1>3, <1>4 DEF PostStep

LEMMA UseTypeInv ==
  ASSUME TypeInv,
         \/ \E k \in tokens : TokenStep(k)
         \/ \E q \in Patches : UpdateProfile(q)
         \/ \E g \in Grants : RevokeGrant(g) \/ Expire(g)
  PROVE  TypeInv'
<1>1. TypeOK
  BY DEF TypeInv
<1>2. ASSUME NEW k \in tokens, UserInfo(k) PROVE TypeInv'
  <2>1. k \in Token
    BY <1>1 DEF TypeOK
  <2>2. PICK held \in SUBSET Roles : told' = told \cup ({k.client} \X Claims(k, held))
    BY <1>2 DEF UserInfo
  <2>3. Claims(k, held) \subseteq Fields \cup Roles
    BY RolesType DEF Claims
  <2>4. told' \subseteq Clients \X (Fields \cup Roles)
    BY <1>1, <2>1, <2>2, <2>3 DEF TypeOK, Token
  <2> QED
    BY <1>1, <1>2, <2>4 DEF UserInfo, TypeInv, TypeOK, Posted
<1>3. ASSUME NEW k \in tokens, NEW q \in Patches, NEW data \in SUBSET Fields,
             PatchProfile(q, k, data)
      PROVE  TypeInv'
  <2>1. k \in Token
    BY <1>1 DEF TypeOK
  <2>2. patch' \in [Patches -> Patch]
    BY <1>1, <1>3, <2>1 DEF PatchProfile, TypeOK, Patch, Token
  <2> QED
    BY <1>1, <1>3, <2>2 DEF PatchProfile, TypeInv, TypeOK, Posted, histories
<1>4. ASSUME NEW q \in Patches, UpdateProfile(q) PROVE TypeInv'
  <2>1. patch[q] \in Patch
    BY <1>1 DEF TypeOK
  <2>2. patch' \in [Patches -> Patch] /\ written' \subseteq Clients \X Fields
    BY <1>1, <1>4, <2>1 DEF UpdateProfile, TypeOK, Patch
  <2> QED
    BY <1>1, <1>4, <2>2 DEF UpdateProfile, TypeInv, TypeOK, Posted
<1>5. ASSUME NEW g \in Grants, RevokeGrant(g) \/ Expire(g) PROVE TypeInv'
  BY <1>1, <1>5 DEF RevokeGrant, Expire, Live, TypeInv, TypeOK, Posted
<1> QED
  BY <1>2, <1>3, <1>4, <1>5 DEF TokenStep

LEMMA NextTypeInv == TypeInv /\ [Next]_vars => TypeInv'
<1>1. ASSUME TypeInv, Next PROVE TypeInv'
  BY <1>1, TabTypeInv, PostTypeInv, UseTypeInv DEF Next
<1>2. TypeInv /\ UNCHANGED vars => TypeInv'
  BY DEF TypeInv, TypeOK, Posted, vars, histories
<1> QED
  BY <1>1, <1>2

\* Grants, tabs, submissions, tokens and what is kept of the past stay in their types
\* (interactions.ts:127-145).
THEOREM TypeCorrect == Spec => []TypeOK
<1>1. TypeInv => TypeOK
  BY DEF TypeInv
<1> QED
  BY <1>1, InitTypeInv, NextTypeInv, PTL DEF Spec

------------------------------------------------------------------------------
(* A grant has one client, and holds what was approved for it.             *)

\* The grant has been made, and its client can be told.
Known(g) ==
  g \in Clients
    \/ (g \in Posts /\ post[g].pc # "idle" /\ post[g].tab \in Tabs /\ tab[post[g].tab].pc # "idle")

\* What sessions keep grants for.
Keys == Sessions \X Clients

GrantOf(g, c) == g # None => g \in Grants /\ Known(g) /\ ClientOf(g) = c

\* Sessions, interactions and submissions keep grants of their own client.
Owned ==
  /\ \A k \in Keys : GrantOf(sessionGrant[k], k[2])
  /\ \A t \in Tabs : GrantOf(tab[t].grantId, tab[t].client) /\ GrantOf(tab[t].result, tab[t].client)
  /\ \A p \in Posts : post[p].pc # "idle" =>
       /\ tab[post[p].tab].pc # "idle"
       /\ GrantOf(post[p].grantId, tab[post[p].tab].client)

\* Every scope of S was allowed to c.
Allowed(c, S) == {c} \X S \subseteq approved

Grounded ==
  /\ \A g \in DOMAIN granted : Known(g) /\ Allowed(ClientOf(g), granted[g])
  /\ \A p \in Posts : post[p].pc # "idle" => Allowed(tab[post[p].tab].client, post[p].copy)
  /\ \A q \in Patches : \A f \in patch[q].data : <<patch[q].client, ScopeOf[f]>> \in approved

SafeInv == Owned /\ Grounded /\ OnlyWhatWasApproved

\* What every step leaves of tabs and submissions.
GoesOn ==
  /\ approved \subseteq approved'
  /\ \A t \in Tabs : tab[t].pc # "idle" => tab'[t].pc # "idle" /\ tab'[t].client = tab[t].client
  /\ \A p \in Posts : post[p].pc # "idle" =>
       /\ post'[p].pc # "idle" /\ post'[p].tab = post[p].tab
       /\ post'[p].grantId = post[p].grantId /\ post'[p].copy = post[p].copy

LEMMA KnownGoesOn ==
  ASSUME GoesOn, NEW g, Known(g)
  PROVE  Known(g)' /\ ClientOf(g)' = ClientOf(g)
BY DEF GoesOn, Known, ClientOf

LEMMA GrantGoesOn ==
  ASSUME GoesOn, NEW g, NEW c, GrantOf(g, c)
  PROVE  GrantOf(g, c)'
BY KnownGoesOn DEF GrantOf

LEMMA AllowedGoesOn ==
  ASSUME GoesOn, NEW c, NEW S, Allowed(c, S)
  PROVE  Allowed(c, S)'
BY DEF GoesOn, Allowed

LEMMA PostGoesOn ==
  ASSUME TypeInv, GoesOn, Owned, Grounded, NEW p \in Posts, post[p].pc # "idle"
  PROVE  /\ post'[p].tab = post[p].tab /\ post[p].tab \in Tabs
         /\ tab'[post'[p].tab].pc # "idle" /\ tab'[post'[p].tab].client = tab[post[p].tab].client
         /\ GrantOf(post[p].grantId, tab[post[p].tab].client)'
         /\ post'[p].grantId = post[p].grantId
         /\ {tab'[post'[p].tab].client} \X post'[p].copy \subseteq approved'
<1>1. /\ post[p].tab \in Tabs /\ tab[post[p].tab].pc # "idle"
      /\ GrantOf(post[p].grantId, tab[post[p].tab].client)
      /\ Allowed(tab[post[p].tab].client, post[p].copy)
  BY DEF TypeInv, Posted, Owned, Grounded
<1>2. PICK t \in Tabs, c \in {tab[post[p].tab].client}, g \in {post[p].grantId} :
        t = post[p].tab /\ c = tab[t].client /\ g = post[p].grantId
  BY <1>1
<1>3. /\ post'[p].tab = t /\ tab'[t].pc # "idle" /\ tab'[t].client = c
      /\ post'[p].grantId = g /\ post'[p].copy = post[p].copy
  BY <1>1, <1>2 DEF GoesOn
<1>4. GrantOf(g, c)'
  BY <1>1, <1>2, GrantGoesOn
<1>5. {c} \X post[p].copy \subseteq approved'
  BY <1>1, <1>2 DEF Allowed, GoesOn
<1> QED
  BY <1>1, <1>2, <1>3, <1>4, <1>5 DEF GrantOf

\* Rows that stay, and submissions that have arrived, are as they were.
LEMMA KeptGrounded ==
  ASSUME TypeInv, GoesOn, Owned, Grounded, UNCHANGED patch,
         DOMAIN granted' \subseteq DOMAIN granted,
         \A g \in DOMAIN granted' : granted'[g] = granted[g],
         \A p \in Posts : post[p].pc = "idle" => post'[p].pc = "idle"
  PROVE  /\ Grounded'
         /\ (\A p \in Posts : post[p].pc # "idle" =>
              /\ tab[post[p].tab].pc # "idle"
              /\ GrantOf(post[p].grantId, tab[post[p].tab].client))'
<1>1. \A p \in Posts : post'[p].pc # "idle" =>
        /\ tab'[post'[p].tab].pc # "idle"
        /\ GrantOf(post[p].grantId, tab[post[p].tab].client)'
        /\ {tab'[post'[p].tab].client} \X post'[p].copy \subseteq approved'
  BY PostGoesOn
<1>2. ASSUME NEW g \in DOMAIN granted'
      PROVE  Known(g)' /\ {ClientOf(g)'} \X granted'[g] \subseteq approved'
  <2>1. Known(g) /\ {ClientOf(g)} \X granted[g] \subseteq approved
    BY DEF Grounded, Allowed
  <2>2. Known(g)' /\ ClientOf(g)' = ClientOf(g)
    BY <2>1, KnownGoesOn
  <2> QED
    BY <2>1, <2>2 DEF GoesOn
<1>3. \A q \in Patches : \A f \in patch'[q].data : <<patch'[q].client, ScopeOf[f]>> \in approved'
  BY DEF Grounded, GoesOn
<1> QED
  BY <1>1, <1>2, <1>3 DEF Grounded, Allowed

LEMMA KeptApproved ==
  ASSUME OnlyWhatWasApproved, approved \subseteq approved', tokens' \subseteq tokens,
         UNCHANGED <<told, written>>
  PROVE  OnlyWhatWasApproved'
BY DEF OnlyWhatWasApproved

LEMMA TabSafe ==
  ASSUME TypeInv, SafeInv, NEW t \in Tabs, TabStep(t)
  PROVE  SafeInv'
<1>1. TypeOK /\ tab[t] \in Tab
  BY DEF TypeInv, TypeOK
<1>2. UNCHANGED <<granted, post, patch, approved, told, written>>
  BY DEF TabStep, Authorize, Resume, IssueToken, ShowConsent, Abort, TabOnly, histories
<1>3. ASSUME NEW x \in Tab, OneTab(t, x), x.pc # "idle",
             tab[t].pc # "idle" => x.client = tab[t].client,
             GrantOf(x.grantId, x.client), GrantOf(x.result, x.client),
             \A k \in Keys : GrantOf(sessionGrant'[k], k[2])
      PROVE  GoesOn /\ Owned' /\ Grounded'
  <2>1. GoesOn
    BY <1>2, <1>3 DEF GoesOn, OneTab
  <2>2. /\ Grounded'
        /\ (\A p \in Posts : post[p].pc # "idle" =>
             /\ tab[post[p].tab].pc # "idle"
             /\ GrantOf(post[p].grantId, tab[post[p].tab].client))'
    BY <1>2, <2>1, KeptGrounded DEF SafeInv
  <2>3. ASSUME NEW k \in Keys PROVE GrantOf(sessionGrant[k], k[2])'
    <3>1. PICK g \in {sessionGrant'[k]}, c \in {k[2]} : GrantOf(g, c)
      BY <1>3
    <3>2. GrantOf(g, c)'
      BY <2>1, <3>1, GrantGoesOn
    <3> QED
      BY <3>1, <3>2 DEF GrantOf
  <2>4. ASSUME NEW u \in Tabs
        PROVE  (GrantOf(tab[u].grantId, tab[u].client) /\ GrantOf(tab[u].result, tab[u].client))'
    <3>1. PICK g \in {tab'[u].grantId}, h \in {tab'[u].result}, c \in {tab'[u].client} :
            GrantOf(g, c) /\ GrantOf(h, c)
      BY <1>3 DEF OneTab, SafeInv, Owned
    <3>2. GrantOf(g, c)' /\ GrantOf(h, c)'
      BY <2>1, <3>1, GrantGoesOn
    <3> QED
      BY <3>1, <3>2 DEF GrantOf
  <2> QED
    BY <2>1, <2>2, <2>3, <2>4 DEF Owned
<1>4. ASSUME NEW s \in Sessions, NEW c \in Clients, NEW S \in SUBSET Scopes,
             Authorize(t, s, c, S)
      PROVE  SafeInv'
  <2>1. PICK g \in Grants \cup {None} : g = sessionGrant[<<s, c>>] /\ GrantOf(g, c)
    BY <1>1 DEF TypeOK, SafeInv, Owned, Keys
  <2>2. Checked(t, s, c, g) /\ tab[t].pc = "idle" /\ UNCHANGED <<sessionGrant, tokens>>
    BY <1>1, <1>4, <2>1, CheckEffect DEF Authorize
  <2>3. PICK x \in Tab : /\ OneTab(t, x) /\ x.pc # "idle" /\ x.client = c
                         /\ x.grantId \in {None, g} /\ x.result = None
    BY <2>2 DEF Checked
  <2>4. GrantOf(x.grantId, x.client) /\ GrantOf(x.result, x.client)
    BY <2>1, <2>3 DEF GrantOf
  <2>5. GoesOn /\ Owned' /\ Grounded'
    BY <1>3, <2>2, <2>3, <2>4 DEF SafeInv, Owned
  <2> QED
    BY <1>2, <2>2, <2>5, KeptApproved DEF SafeInv
<1>5. CASE Resume(t)
  <2>1. PICK s \in Sessions, c \in Clients, S \in SUBSET Scopes, g \in Grants \cup {None} :
          /\ s = tab[t].session /\ c = tab[t].client /\ S = tab[t].requested
          /\ g = IF tab[t].result = None THEN sessionGrant[<<s, c>>] ELSE tab[t].result
    BY <1>1 DEF TypeOK, Tab
  <2>2. GrantOf(g, c)
    BY <2>1 DEF SafeInv, Owned, Keys
  <2>3. /\ Check(t, s, c, S, g) /\ tokens' = tokens
        /\ sessionGrant' = [sessionGrant EXCEPT ![<<s, c>>] = g]
    BY <1>5, <2>1 DEF Resume
  <2>4. Checked(t, s, c, g)
    BY <1>1, <2>3, CheckEffect
  <2>5. PICK x \in Tab : /\ OneTab(t, x) /\ x.pc # "idle" /\ x.client = c
                         /\ x.grantId \in {None, g} /\ x.result = None
    BY <2>4 DEF Checked
  <2>6. GrantOf(x.grantId, x.client) /\ GrantOf(x.result, x.client)
    BY <2>2, <2>5 DEF GrantOf
  <2>7. \A k \in Keys : GrantOf(sessionGrant'[k], k[2])
    BY <1>1, <2>2, <2>3 DEF SafeInv, Owned, TypeOK, Keys
  <2>8. GoesOn /\ Owned' /\ Grounded'
    BY <1>3, <2>1, <2>5, <2>6, <2>7
  <2> QED
    BY <1>2, <2>3, <2>8, KeptApproved DEF SafeInv
<1>6. CASE IssueToken(t) \/ ShowConsent(t) \/ Abort(t)
  <2>1. PICK p \in {"page", "denied", "done", "failed"} : tab' = [tab EXCEPT ![t].pc = p]
    BY <1>6 DEF IssueToken, ShowConsent, Abort
  <2>2. PICK x \in Tab : /\ OneTab(t, x) /\ x.pc = p /\ x.client = tab[t].client
                         /\ x.grantId = tab[t].grantId /\ x.result = tab[t].result
    BY <1>1, <2>1, TurnEffect DEF Turned
  <2>3. GoesOn /\ Owned' /\ Grounded'
    BY <1>3, <1>6, <2>2 DEF SafeInv, Owned, IssueToken, ShowConsent, Abort, TabOnly
  <2>4. CASE tokens' = tokens
    BY <1>2, <2>3, <2>4, KeptApproved DEF SafeInv
  <2>5. CASE /\ tab[t].grantId \in DOMAIN granted
             /\ tokens' = tokens \cup {[client |-> tab[t].client, grantId |-> tab[t].grantId,
                                       scopes |-> tab[t].requested \cap granted[tab[t].grantId]]}
    <3>1. PICK g \in Grants : g = tab[t].grantId /\ g # None /\ g \in DOMAIN granted
      BY <1>1, <2>5, NamesAssumption DEF TypeOK
    <3>2. {tab[t].client} \X granted[g] \subseteq approved
      BY <3>1 DEF SafeInv, Owned, GrantOf, Grounded, Allowed
    <3>3. \A k \in tokens' : {k.client} \X k.scopes \subseteq approved
      BY <2>5, <3>1, <3>2 DEF SafeInv, OnlyWhatWasApproved
    <3>4. OnlyWhatWasApproved'
      BY <1>2, <3>3 DEF SafeInv, OnlyWhatWasApproved
    <3> QED
      BY <2>3, <3>4 DEF SafeInv
  <2> QED
    BY <1>6, <2>4, <2>5 DEF IssueToken, ShowConsent, Abort, TabOnly, Live
<1> QED
  BY <1>4, <1>5, <1>6 DEF TabStep

LEMMA ConfirmSafe ==
  ASSUME TypeInv, SafeInv, NEW p \in Posts, NEW t \in Tabs, Confirm(p, t)
  PROVE  SafeInv'
<1>1. TypeOK /\ tab[t] \in Tab
  BY DEF TypeInv, TypeOK
<1>2. PICK x \in Post :
        /\ OnePost(p, x) /\ post[p].pc = "idle" /\ x.pc # "idle" /\ x.tab = t
        /\ tab[t].pc # "idle"
        /\ x.grantId \in Grants /\ x.grantId \in {p, tab[t].grantId}
        /\ x.copy = ScopesOf(tab[t].grantId) \cup tab[t].missing
  BY <1>1, ConfirmEffect
<1>3. /\ UNCHANGED <<granted, sessionGrant, tab, patch, tokens, told, written>>
      /\ approved' = approved \cup ({tab[t].client} \X tab[t].missing)
  BY DEF Confirm
<1>4. GoesOn
  BY <1>2, <1>3 DEF GoesOn, OnePost
<1>5. GrantOf(x.grantId, tab[t].client)'
  <2>1. CASE x.grantId = p
    BY <1>2, <1>3, <2>1, NamesAssumption DEF GrantOf, Known, ClientOf, OnePost
  <2>2. CASE x.grantId = tab[t].grantId
    <3>1. PICK g \in {tab[t].grantId}, c \in {tab[t].client} : GrantOf(g, c)
      BY DEF SafeInv, Owned
    <3>2. GrantOf(g, c)'
      BY <1>4, <3>1, GrantGoesOn
    <3> QED
      BY <1>3, <2>2, <3>1, <3>2 DEF GrantOf
  <2> QED
    BY <1>2, <2>1, <2>2
<1>6. {tab[t].client} \X x.copy \subseteq approved'
  <2>1. ASSUME tab[t].grantId \in DOMAIN granted
        PROVE  {tab[t].client} \X granted[tab[t].grantId] \subseteq approved
    <3>1. tab[t].grantId # None
      BY <1>1, <2>1, NamesAssumption DEF TypeOK
    <3> QED
      BY <2>1, <3>1 DEF SafeInv, Owned, GrantOf, Grounded, Allowed
  <2> QED
    BY <1>2, <1>3, <2>1 DEF ScopesOf
<1>7. Owned'
  <2>1. \A k \in Keys : GrantOf(sessionGrant[k], k[2])'
    BY <1>3, <1>4, GrantGoesOn DEF SafeInv, Owned, GrantOf
  <2>2. \A u \in Tabs :
          (GrantOf(tab[u].grantId, tab[u].client) /\ GrantOf(tab[u].result, tab[u].client))'
    <3>1. ASSUME NEW u \in Tabs
          PROVE  (GrantOf(tab[u].grantId, tab[u].client) /\ GrantOf(tab[u].result, tab[u].client))'
      <4>1. PICK g \in {tab[u].grantId}, h \in {tab[u].result}, c \in {tab[u].client} :
              GrantOf(g, c) /\ GrantOf(h, c)
        BY DEF SafeInv, Owned
      <4>2. GrantOf(g, c)' /\ GrantOf(h, c)'
        BY <1>4, <4>1, GrantGoesOn
      <4> QED
        BY <1>3, <4>1, <4>2 DEF GrantOf
    <3> QED
      BY <3>1
  <2>3. ASSUME NEW y \in Posts, post'[y].pc # "idle"
        PROVE  /\ tab'[post'[y].tab].pc # "idle"
               /\ GrantOf(post[y].grantId, tab[post[y].tab].client)'
    <3>1. CASE y = p
      BY <1>2, <1>3, <1>5, <3>1 DEF OnePost, GrantOf
    <3>2. CASE y # p
      BY <1>2, <1>4, <2>3, <3>2, PostGoesOn DEF OnePost, SafeInv
    <3> QED
      BY <3>1, <3>2
  <2> QED
    BY <2>1, <2>2, <2>3 DEF Owned
<1>8. Grounded'
  <2>1. ASSUME NEW g \in DOMAIN granted
        PROVE  Known(g)' /\ {ClientOf(g)'} \X granted'[g] \subseteq approved'
    <3>1. Known(g)' /\ ClientOf(g)' = ClientOf(g)
      BY <1>4, KnownGoesOn DEF SafeInv, Grounded
    <3> QED
      BY <1>3, <3>1 DEF SafeInv, Grounded, Allowed
  <2>2. ASSUME NEW y \in Posts, post'[y].pc # "idle"
        PROVE  {tab'[post'[y].tab].client} \X post'[y].copy \subseteq approved'
    <3>1. CASE y = p
      BY <1>2, <1>3, <1>6, <3>1 DEF OnePost
    <3>2. CASE y # p
      BY <1>2, <1>4, <2>2, <3>2, PostGoesOn DEF OnePost, SafeInv
    <3> QED
      BY <3>1, <3>2
  <2>3. \A q \in Patches : \A f \in patch'[q].data : <<patch'[q].client, ScopeOf[f]>> \in approved'
    BY <1>3 DEF SafeInv, Grounded
  <2> QED
    BY <1>3, <2>1, <2>2, <2>3 DEF Grounded, Allowed
<1> QED
  BY <1>3, <1>7, <1>8, KeptApproved DEF SafeInv

LEMMA SaveSafe ==
  ASSUME TypeInv, SafeInv, NEW p \in Posts, SaveGrant(p)
  PROVE  SafeInv'
<1>1. PICK x \in Post :
        /\ OnePost(p, x) /\ x.pc = "finish"
        /\ x.tab = post[p].tab /\ x.grantId = post[p].grantId /\ x.copy = post[p].copy
  BY SaveEffect
<1>2. /\ post[p].pc = "save" /\ post[p].grantId \in Grants
      /\ DOMAIN granted' = DOMAIN granted \cup {post[p].grantId}
      /\ \A g \in DOMAIN granted' :
           granted'[g] = IF g = post[p].grantId THEN post[p].copy ELSE granted[g]
  BY SaveEffect
<1>3. UNCHANGED <<sessionGrant, tab, patch, tokens, approved, told, written>>
  BY DEF SaveGrant, histories
<1>4. /\ \A y \in Posts : /\ post'[y].pc = "idle" <=> post[y].pc = "idle"
                          /\ post'[y].tab = post[y].tab /\ post'[y].grantId = post[y].grantId
                          /\ post'[y].copy = post[y].copy
      /\ GoesOn
  BY <1>1, <1>2, <1>3 DEF GoesOn, OnePost
<1>5. \A g, c : GrantOf(g, c) => GrantOf(g, c)'
  BY <1>4, GrantGoesOn
<1>6. Owned'
  <2>1. \A k \in Keys : GrantOf(sessionGrant[k], k[2])'
    BY <1>3, <1>4, <1>5 DEF SafeInv, Owned, GrantOf, Known, ClientOf
  <2>2. \A t \in Tabs :
          GrantOf(tab[t].grantId, tab[t].client)' /\ GrantOf(tab[t].result, tab[t].client)'
    BY <1>3, <1>4, <1>5 DEF SafeInv, Owned, GrantOf, Known, ClientOf
  <2>3. ASSUME NEW y \in Posts, post'[y].pc # "idle"
        PROVE  tab'[post'[y].tab].pc # "idle" /\ GrantOf(post[y].grantId, tab[post[y].tab].client)'
    BY <1>4, <2>3, PostGoesOn DEF SafeInv
  <2> QED
    BY <2>1, <2>2, <2>3 DEF Owned
<1>7. ASSUME NEW g \in DOMAIN granted'
      PROVE  Known(g)' /\ {ClientOf(g)'} \X granted'[g] \subseteq approved'
  <2>1. Known(g) /\ {ClientOf(g)} \X granted'[g] \subseteq approved
    <3>1. CASE g = post[p].grantId
      <4>1. g # None
        BY <1>2, <3>1, NamesAssumption
      <4> QED
        BY <1>2, <3>1, <4>1 DEF SafeInv, Owned, GrantOf, Grounded, Allowed
    <3>2. CASE g # post[p].grantId
      BY <1>2, <3>2 DEF SafeInv, Grounded, Allowed
    <3> QED
      BY <3>1, <3>2
  <2>2. Known(g)' /\ ClientOf(g)' = ClientOf(g)
    BY <1>4, <2>1, KnownGoesOn
  <2> QED
    BY <1>3, <2>1, <2>2
<1>8. Grounded'
  BY <1>3, <1>4, <1>7 DEF SafeInv, Grounded, Allowed
<1> QED
  BY <1>3, <1>6, <1>8, KeptApproved DEF SafeInv

LEMMA FinishSafe ==
  ASSUME TypeInv, SafeInv, NEW p \in Posts, FinishConfirm(p)
  PROVE  SafeInv'
<1>1. PICK t \in Tabs : t = post[p].tab
  BY FinishEffect
<1>2. \/ tab' = tab
      \/ \E x \in Tab :
           /\ OneTab(t, x) /\ x.pc = "answered" /\ tab[t].pc \in {"page", "answered"}
           /\ x.client = tab[t].client /\ x.grantId = tab[t].grantId
           /\ x.result \in {None, post[p].grantId}
  BY <1>1, FinishEffect
<1>3. PICK x \in Post :
        /\ OnePost(p, x) /\ x.pc = "done" /\ post[p].pc = "finish"
        /\ x.tab = post[p].tab /\ x.grantId = post[p].grantId /\ x.copy = post[p].copy
  BY FinishEffect
<1>4. UNCHANGED <<granted, sessionGrant, patch, tokens, approved, told, written>>
  BY DEF FinishConfirm, histories
<1>5. ASSUME NEW u \in Tabs
      PROVE  /\ tab[u].pc # "idle" => tab'[u].pc # "idle"
             /\ tab'[u].client = tab[u].client /\ tab'[u].grantId = tab[u].grantId
             /\ tab'[u].result = tab[u].result
                  \/ (u = t /\ tab'[u].result \in {None, post[p].grantId})
  <2>1. CASE tab' = tab
    BY <2>1
  <2>2. CASE tab' # tab
    <3>1. PICK y \in Tab :
            /\ OneTab(t, y) /\ y.pc = "answered"
            /\ y.client = tab[t].client /\ y.grantId = tab[t].grantId
            /\ y.result \in {None, post[p].grantId}
      BY <1>2, <2>2
    <3> QED
      BY <3>1 DEF OneTab
  <2> QED
    BY <2>1, <2>2
<1>6. GoesOn
  <2>1. \A y \in Posts : post[y].pc # "idle" =>
          /\ post'[y].pc # "idle" /\ post'[y].tab = post[y].tab
          /\ post'[y].grantId = post[y].grantId /\ post'[y].copy = post[y].copy
    BY <1>3 DEF OnePost
  <2> QED
    BY <1>4, <1>5, <2>1 DEF GoesOn
<1>7. \A g, c : GrantOf(g, c) => GrantOf(g, c)'
  BY <1>6, GrantGoesOn
<1>8. GrantOf(post[p].grantId, tab[t].client)
  BY <1>1, <1>3 DEF SafeInv, Owned
<1>9. \A y \in Posts : post[y].pc = "idle" => post'[y].pc = "idle"
  BY <1>3 DEF OnePost
<1>10. /\ Grounded'
       /\ (\A y \in Posts : post[y].pc # "idle" =>
            /\ tab[post[y].tab].pc # "idle"
            /\ GrantOf(post[y].grantId, tab[post[y].tab].client))'
  BY <1>4, <1>6, <1>9, KeptGrounded DEF SafeInv
<1>11. \A k \in Keys : GrantOf(sessionGrant[k], k[2])'
  BY <1>4, <1>7 DEF SafeInv, Owned, GrantOf
<1>12. ASSUME NEW u \in Tabs
       PROVE  (GrantOf(tab[u].grantId, tab[u].client) /\ GrantOf(tab[u].result, tab[u].client))'
  <2>1. PICK g \in {tab'[u].grantId}, h \in {tab'[u].result}, c \in {tab'[u].client} :
          GrantOf(g, c) /\ GrantOf(h, c)
    <3>1. GrantOf(tab'[u].grantId, tab'[u].client)
      BY <1>5 DEF SafeInv, Owned, GrantOf
    <3>2. GrantOf(tab[u].result, tab[u].client)
      BY DEF SafeInv, Owned
    <3>3. GrantOf(tab'[u].result, tab'[u].client)
      BY <1>5, <1>8, <3>2 DEF GrantOf
    <3> QED
      BY <3>1, <3>3
  <2>2. GrantOf(g, c)' /\ GrantOf(h, c)'
    BY <1>7, <2>1
  <2> QED
    BY <2>1, <2>2 DEF GrantOf
<1> QED
  BY <1>4, <1>10, <1>11, <1>12, KeptApproved DEF SafeInv, Owned

\* Tabs and submissions stay, and so do the rows that are left.
LEMMA UseKeeps ==
  ASSUME TypeInv, SafeInv, UNCHANGED <<sessionGrant, tab, post, approved, patch>>,
         DOMAIN granted' \subseteq DOMAIN granted,
         \A g \in DOMAIN granted' : granted'[g] = granted[g]
  PROVE  Owned' /\ Grounded'
<1>1. GoesOn
  BY DEF GoesOn
<1>2. Owned'
  BY DEF SafeInv, Owned, GrantOf, Known, ClientOf
<1> QED
  BY <1>1, <1>2, KeptGrounded DEF SafeInv

LEMMA UseSafe ==
  ASSUME TypeInv, SafeInv,
         \/ \E k \in tokens : TokenStep(k)
         \/ \E q \in Patches : UpdateProfile(q)
         \/ \E g \in Grants : RevokeGrant(g) \/ Expire(g)
  PROVE  SafeInv'
<1>1. TypeOK
  BY DEF TypeInv
<1>2. ASSUME NEW k \in tokens, UserInfo(k) PROVE SafeInv'
  <2>1. k \in Token /\ {k.client} \X k.scopes \subseteq approved
    BY <1>1 DEF TypeOK, SafeInv, OnlyWhatWasApproved
  <2>2. UNCHANGED <<granted, sessionGrant, tab, post, patch, tokens, approved, written>>
    BY <1>2 DEF UserInfo
  <2>3. PICK held \in SUBSET Roles : told' = told \cup ({k.client} \X Claims(k, held))
    BY <1>2 DEF UserInfo
  <2>4. /\ \A f \in Fields : f \in Claims(k, held) => <<k.client, ScopeOf[f]>> \in approved
        /\ \A x \in Roles : x \in Claims(k, held) =>
             RoleOf[x] = k.client /\ <<k.client, "roles">> \in approved
    BY <2>1, NamesAssumption DEF Claims, RolesFor
  <2>5. OnlyWhatWasApproved'
    BY <2>2, <2>3, <2>4 DEF SafeInv, OnlyWhatWasApproved
  <2>6. Owned' /\ Grounded'
    BY <2>2, UseKeeps
  <2> QED
    BY <2>5, <2>6 DEF SafeInv
<1>3. ASSUME NEW k \in tokens, NEW q \in Patches, NEW data \in SUBSET Fields,
             PatchProfile(q, k, data)
      PROVE  SafeInv'
  <2>1. k \in Token /\ {k.client} \X k.scopes \subseteq approved
    BY <1>1 DEF TypeOK, SafeInv, OnlyWhatWasApproved
  <2>2. UNCHANGED <<granted, sessionGrant, tab, post, tokens, approved, told, written>>
    BY <1>3 DEF PatchProfile, histories
  <2>3. /\ patch'[q] = [pc |-> "update", client |-> k.client, data |-> data]
        /\ \A y \in Patches \ {q} : patch'[y] = patch[y]
    BY <1>1, <1>3 DEF PatchProfile, TypeOK
  <2>4. \A f \in data : <<k.client, ScopeOf[f]>> \in approved
    BY <1>3, <2>1 DEF PatchProfile
  <2>5. \A y \in Patches : \A f \in patch'[y].data : <<patch'[y].client, ScopeOf[f]>> \in approved'
    BY <2>2, <2>3, <2>4 DEF SafeInv, Grounded
  <2>6. Owned' /\ Grounded'
    BY <2>2, <2>5 DEF SafeInv, Owned, Grounded, GrantOf, Known, ClientOf, Allowed
  <2> QED
    BY <2>2, <2>6, KeptApproved DEF SafeInv
<1>4. ASSUME NEW q \in Patches, UpdateProfile(q) PROVE SafeInv'
  <2>1. /\ UNCHANGED <<granted, sessionGrant, tab, post, tokens, approved, told>>
        /\ written' = written \cup ({patch[q].client} \X patch[q].data)
    BY <1>4 DEF UpdateProfile
  <2>2. patch[q] \in Patch
    BY <1>1 DEF TypeOK
  <2>3. \A y \in Patches : patch'[y].client = patch[y].client /\ patch'[y].data = patch[y].data
    BY <1>1, <1>4, <2>2 DEF UpdateProfile, TypeOK, Patch
  <2>4. Owned' /\ Grounded'
    BY <2>1, <2>3 DEF SafeInv, Owned, Grounded, GrantOf, Known, ClientOf, Allowed
  <2>5. OnlyWhatWasApproved'
    BY <2>1 DEF SafeInv, OnlyWhatWasApproved, Grounded
  <2> QED
    BY <2>4, <2>5 DEF SafeInv
<1>5. ASSUME NEW g \in Grants, RevokeGrant(g) \/ Expire(g) PROVE SafeInv'
  <2>1. /\ UNCHANGED <<sessionGrant, tab, post, patch, approved, told, written>>
        /\ tokens' \subseteq tokens
        /\ DOMAIN granted' \subseteq DOMAIN granted
        /\ \A h \in DOMAIN granted' : granted'[h] = granted[h]
    BY <1>5 DEF RevokeGrant, Expire
  <2>2. Owned' /\ Grounded'
    BY <2>1, UseKeeps
  <2> QED
    BY <2>1, <2>2, KeptApproved DEF SafeInv
<1> QED
  BY <1>2, <1>3, <1>4, <1>5 DEF TokenStep

LEMMA InitSafe == Init => SafeInv
<1> SUFFICES ASSUME Init PROVE SafeInv
  OBVIOUS
<1>1. PICK C \in SUBSET Holders :
        /\ granted = [c \in C |-> {}]
        /\ sessionGrant = [x \in Sessions \X Clients |->
                             IF x[1] = SomeSession /\ x[2] \in C THEN x[2] ELSE None]
  BY DEF Init
<1>2. /\ \A t \in Tabs : tab[t].grantId = None /\ tab[t].result = None
      /\ \A p \in Posts : post[p].pc = "idle"
      /\ \A q \in Patches : patch[q].data = {}
      /\ tokens = {} /\ told = {} /\ written = {}
  BY DEF Init
<1>3. Owned
  BY <1>1, <1>2, NamesAssumption DEF Owned, GrantOf, Known, ClientOf, Grants, Keys
<1>4. Grounded
  BY <1>1, <1>2, NamesAssumption DEF Grounded, Known, Allowed
<1>5. OnlyWhatWasApproved
  BY <1>2 DEF OnlyWhatWasApproved
<1> QED
  BY <1>3, <1>4, <1>5 DEF SafeInv

LEMMA NextSafe == TypeInv /\ SafeInv /\ [Next]_vars => SafeInv'
<1>1. ASSUME TypeInv, SafeInv, Next PROVE SafeInv'
  BY <1>1, TabSafe, ConfirmSafe, SaveSafe, FinishSafe, UseSafe DEF Next, PostStep
<1>2. TypeInv /\ SafeInv /\ UNCHANGED vars => SafeInv'
  <2> SUFFICES ASSUME TypeInv, SafeInv, UNCHANGED vars PROVE SafeInv'
    OBVIOUS
  <2>1. UNCHANGED <<granted, sessionGrant, tab, post, patch, tokens, approved, told, written>>
    BY DEF vars, histories
  <2>2. Owned' /\ Grounded'
    BY <2>1, UseKeeps
  <2> QED
    BY <2>1, <2>2, KeptApproved DEF SafeInv
<1> QED
  BY <1>1, <1>2

\* An app holds, is told and writes of an account only what the user allowed that
\* app, however consents, tokens and revocations interleave (interactions.ts:134,
\* provider.ts:21-27, profileApi.ts:27-54).
THEOREM NothingUnapproved == Spec => []OnlyWhatWasApproved
<1>1. SafeInv => OnlyWhatWasApproved
  BY DEF SafeInv
<1> QED
  BY <1>1, InitTypeInv, InitSafe, NextTypeInv, NextSafe, PTL DEF Spec

------------------------------------------------------------------------------
(* What consents that run into each other alone can do.                    *)

\* What a submission saw answered has been answered, and one that has not arrived
\* has no grant.
PostsRun ==
  \A p \in Posts :
    /\ post[p].pc = "idle" => post[p].grantId = None
    /\ \A x \in prior[p] : post[x].pc \in {"done", "failed"}

Overlapped(p) == \E x \in Posts : post[x].grantId = post[p].grantId /\ Overlap(p, x)

\* What a submission has saved is still in the grant, and in the copies that later
\* submissions took of it.
Kept ==
  \A p \in Posts : post[p].grantId \notin ended =>
    /\ post[p].pc \in {"finish", "done"} =>
         post[p].copy \subseteq ScopesOf(post[p].grantId) \/ Overlapped(p)
    /\ \A x \in Posts :
         /\ p \in prior[x] /\ post[x].grantId = post[p].grantId
         /\ post[p].pc = "done" /\ post[x].pc # "failed"
         => post[p].copy \subseteq post[x].copy \/ Overlapped(p)

\* The grants that were saved.
Stored == DOMAIN granted \cup ended

\* What the session of a tab keeps its grant under.
KeyOf(t) == <<tab[t].session, tab[t].client>>

\* The sessions and the results name grants that were saved, and a client with a
\* settled tab has one in the session of that tab.
SessionKeeps ==
  /\ expired \subseteq ended
  /\ \A k \in Keys : sessionGrant[k] \in Stored \cup {None}
  /\ \A t \in Settled : sessionGrant[KeyOf(t)] # None
  /\ \A t \in Tabs : tab[t].result \in Stored \cup {None}
  /\ \A p \in Posts : post[p].pc \in {"finish", "done"} => post[p].grantId \in Stored

EndedOf(c) == \E g \in ended : ClientOf(g) = c

\* A tab that finds no grant although one of its session and client had settled finds
\* it revoked or expired, and so does a submission that makes a grant.
NewAfterEnd ==
  /\ \A g \in ended : Known(g)
  /\ \A t \in Tabs : \A u \in tab[t].settled :
       /\ tab[u].pc # "idle"
       /\ tab[t].grantId = None /\ KeyOf(u) = KeyOf(t) => EndedOf(tab[t].client)
  /\ \A p \in Posts : post[p].pc # "idle" =>
       \A u \in post[p].settled :
         /\ tab[u].pc # "idle"
         /\ post[p].grantId = p /\ KeyOf(u) = KeyOf(post[p].tab) =>
              EndedOf(tab[post[p].tab].client)

\* A grant with the name of a submission was made by it.
Made(g) == g \in Posts => post[g].grantId = g

GrantsAreMade ==
  /\ \A g \in DOMAIN granted : Made(g)
  /\ \A t \in Tabs : Made(tab[t].grantId)
  /\ \A p \in Posts : Made(post[p].grantId)

OverlapInv == PostsRun /\ Kept /\ SessionKeeps /\ NewAfterEnd /\ GrantsAreMade

LEMMA InitOverlapInv == Init => OverlapInv
<1> SUFFICES ASSUME Init PROVE OverlapInv
  OBVIOUS
<1>1. PICK C \in SUBSET Holders :
        /\ granted = [c \in C |-> {}]
        /\ sessionGrant = [x \in Sessions \X Clients |->
                             IF x[1] = SomeSession /\ x[2] \in C THEN x[2] ELSE None]
  BY DEF Init
<1>2. /\ \A t \in Tabs : /\ tab[t].pc = "idle" /\ tab[t].grantId = None
                         /\ tab[t].result = None /\ tab[t].settled = {}
      /\ \A p \in Posts : post[p].pc = "idle" /\ post[p].grantId = None /\ prior[p] = {}
      /\ ended = {} /\ expired = {}
  BY DEF Init
<1>3. None \notin Posts /\ C \cap Posts = {}
  BY NamesAssumption DEF Grants
<1> QED
  BY <1>1, <1>2, <1>3 DEF OverlapInv, PostsRun, Kept, SessionKeeps, Stored, Settled,
     Keys, NewAfterEnd, GrantsAreMade, Made

\* A submission changes only by its own steps.
LEMMA PostMoves ==
  ASSUME TypeInv, [Next]_vars, NEW p \in Posts
  PROVE  \/ SaveGrant(p) \/ FinishConfirm(p) \/ \E t \in Tabs : Confirm(p, t)
         \/ post'[p] = post[p] /\ prior'[p] = prior[p]
<1> USE DEF TypeInv, TypeOK
<1>1. ASSUME NEW t \in Tabs, TabStep(t) PROVE post' = post /\ prior' = prior
  BY <1>1 DEF TabStep, Authorize, Resume, IssueToken, ShowConsent, Abort, TabOnly, histories
<1>2. ASSUME NEW x \in Posts, PostStep(x), x # p PROVE post'[p] = post[p] /\ prior'[p] = prior[p]
  BY <1>2 DEF PostStep, SaveGrant, FinishConfirm, Confirm, histories
<1>3. ASSUME NEW k, TokenStep(k) PROVE post' = post /\ prior' = prior
  BY <1>3 DEF TokenStep, UserInfo, PatchProfile, histories
<1>4. ASSUME NEW q \in Patches, UpdateProfile(q) PROVE post' = post /\ prior' = prior
  BY <1>4 DEF UpdateProfile
<1>5. ASSUME NEW g \in Grants, RevokeGrant(g) \/ Expire(g)
      PROVE  post' = post /\ prior' = prior
  BY <1>5 DEF RevokeGrant, Expire
<1>6. UNCHANGED vars => post' = post /\ prior' = prior
  BY DEF vars, histories
<1> QED
  BY <1>1, <1>2, <1>3, <1>4, <1>5, <1>6 DEF Next, PostStep

LEMMA PostsAreFixed ==
  ASSUME TypeInv, [Next]_vars, NEW p \in Posts, post[p].pc # "idle"
  PROVE  /\ post'[p].pc # "idle" /\ post'[p].tab = post[p].tab
         /\ post'[p].grantId = post[p].grantId /\ post'[p].copy = post[p].copy
         /\ post'[p].settled = post[p].settled /\ prior'[p] = prior[p]
         /\ post[p].pc \in {"done", "failed"} => post'[p].pc = post[p].pc
         /\ post'[p].pc = "done" => post[p].pc \in {"finish", "done"}
         /\ post'[p].pc = "finish" => post[p].pc \in {"save", "finish"}
         /\ post'[p].pc \in {"save", "failed"} => post[p].pc = post'[p].pc
<1>1. CASE SaveGrant(p)
  <2>1. PICK x \in Post :
          /\ OnePost(p, x) /\ x.pc = "finish"
          /\ x.tab = post[p].tab /\ x.grantId = post[p].grantId /\ x.copy = post[p].copy
          /\ x.settled = post[p].settled
    BY <1>1, SaveEffect
  <2> QED
    BY <1>1, <2>1 DEF OnePost, SaveGrant, histories
<1>2. CASE FinishConfirm(p)
  <2>1. PICK x \in Post :
          /\ OnePost(p, x) /\ x.pc = "done"
          /\ x.tab = post[p].tab /\ x.grantId = post[p].grantId /\ x.copy = post[p].copy
          /\ x.settled = post[p].settled
    BY <1>2, FinishEffect
  <2> QED
    BY <1>2, <2>1 DEF OnePost, FinishConfirm, histories
<1>3. ~\E t \in Tabs : Confirm(p, t)
  BY DEF Confirm
<1> QED
  BY <1>1, <1>2, <1>3, PostMoves

\* A request arrives in tab t.
Asks(t) == \E s \in Sessions, c \in Clients, S \in SUBSET Scopes : Authorize(t, s, c, S)

\* A tab keeps its client once it is open.
LEMMA TabMoves ==
  ASSUME TypeInv, [Next]_vars, NEW t \in Tabs
  PROVE  \/ Asks(t)
         \/ Resume(t)
         \/ \E pc \in {"page", "denied", "done", "failed"} :
              /\ Turned(t, pc) /\ sessionGrant' = sessionGrant
              /\ pc = "done" => tab[t].pc = "authorized"
         \/ \E p \in Posts : FinishConfirm(p) /\ post[p].tab = t
         \/ tab'[t] = tab[t]
<1> USE DEF TypeInv, TypeOK
<1>1. ASSUME NEW u \in Tabs, TabStep(u), u # t PROVE tab'[t] = tab[t]
  BY <1>1 DEF TabStep, Authorize, Resume, Check, IssueToken, ShowConsent, Abort
<1>2. ASSUME IssueToken(t) \/ ShowConsent(t) \/ Abort(t)
      PROVE  \E pc \in {"page", "denied", "done", "failed"} :
               /\ Turned(t, pc) /\ sessionGrant' = sessionGrant
               /\ pc = "done" => tab[t].pc = "authorized"
  <2>1. PICK pc \in {"page", "denied", "done", "failed"} :
          /\ tab' = [tab EXCEPT ![t].pc = pc] /\ sessionGrant' = sessionGrant
          /\ pc = "done" => tab[t].pc = "authorized"
    BY <1>2 DEF IssueToken, ShowConsent, Abort, TabOnly
  <2>2. Turned(t, pc)
    BY <2>1, TurnEffect
  <2> QED
    BY <2>1, <2>2
<1>3. ASSUME NEW p \in Posts, FinishConfirm(p), post[p].tab # t PROVE tab'[t] = tab[t]
  BY <1>3, FinishEffect DEF OneTab
<1>4. ASSUME NEW p \in Posts, PostStep(p), ~FinishConfirm(p) PROVE tab' = tab
  BY <1>4 DEF PostStep, SaveGrant, Confirm
<1>5. ASSUME NEW k, TokenStep(k) PROVE tab' = tab
  BY <1>5 DEF TokenStep, UserInfo, PatchProfile
<1>6. ASSUME NEW q \in Patches, UpdateProfile(q) PROVE tab' = tab
  BY <1>6 DEF UpdateProfile
<1>7. ASSUME NEW g \in Grants, RevokeGrant(g) \/ Expire(g) PROVE tab' = tab
  BY <1>7 DEF RevokeGrant, Expire
<1>8. UNCHANGED vars => tab' = tab
  BY DEF vars
<1>9. CASE \E u \in Tabs : TabStep(u)
  <2>1. PICK u \in Tabs : TabStep(u)
    BY <1>9
  <2>2. CASE u = t
    <3>1. CASE \E s \in Sessions, c \in Clients, S \in SUBSET Scopes \ {{}} : Authorize(t, s, c, S)
      BY <3>1 DEF Asks
    <3> QED
      BY <1>2, <2>1, <2>2, <3>1 DEF TabStep
  <2> QED
    BY <1>1, <2>1, <2>2
<1>10. CASE \E p \in Posts : PostStep(p)
  BY <1>3, <1>4, <1>10
<1> QED
  BY <1>5, <1>6, <1>7, <1>8, <1>9, <1>10 DEF Next

\* Tab t becomes x: a request of session s and client c that finds g.
Found(t, s, c, g, x) ==
  /\ OneTab(t, x) /\ x.session = s /\ x.client = c /\ x.result = None
  /\ x.grantId = Existing(g) /\ x.settled = Settled
  /\ x.pc \in {"authorized", "interaction"}
  /\ x.pc = "authorized" => g \in DOMAIN granted
  /\ sessionGrant' = [sessionGrant EXCEPT ![<<s, c>>] = g]
  /\ tab[t].pc \in {"idle", "answered"}
  /\ tab[t].pc # "idle" => s = tab[t].session /\ c = tab[t].client
  /\ g = sessionGrant[<<s, c>>] \/ (g = tab[t].result /\ g # None /\ c = tab[t].client)

\* What a check of the request of tab t finds, whether it opens or comes back.
LEMMA CheckedTab ==
  ASSUME TypeInv, NEW t \in Tabs,
         Asks(t) \/ Resume(t)
  PROVE  \E s \in Sessions, c \in Clients, g \in Grants \cup {None}, x \in Tab :
           Found(t, s, c, g, x)
<1> USE DEF TypeInv, TypeOK
<1>1. ASSUME NEW s \in Sessions, NEW c \in Clients, NEW S \in SUBSET Scopes,
             NEW g \in Grants \cup {None}, Check(t, s, c, S, g)
      PROVE  \E x \in Tab :
               /\ OneTab(t, x) /\ x.session = s /\ x.client = c /\ x.result = None
               /\ x.grantId = Existing(g) /\ x.settled = Settled
               /\ x.pc \in {"authorized", "interaction"}
               /\ x.pc = "authorized" => g \in DOMAIN granted
  BY <1>1, CheckEffect DEF Checked
<1>2. ASSUME NEW s \in Sessions, NEW c \in Clients, NEW S \in SUBSET Scopes,
             Authorize(t, s, c, S)
      PROVE  \E g \in Grants \cup {None} :
               /\ Check(t, s, c, S, g) /\ tab[t].pc = "idle" /\ g = sessionGrant[<<s, c>>]
               /\ sessionGrant' = [sessionGrant EXCEPT ![<<s, c>>] = g]
  BY <1>2 DEF Authorize
<1>3. CASE Asks(t)
  <2>1. PICK s \in Sessions, c \in Clients, S \in SUBSET Scopes : Authorize(t, s, c, S)
    BY <1>3 DEF Asks
  <2>2. PICK g \in Grants \cup {None} :
          /\ Check(t, s, c, S, g) /\ tab[t].pc = "idle" /\ g = sessionGrant[<<s, c>>]
          /\ sessionGrant' = [sessionGrant EXCEPT ![<<s, c>>] = g]
    BY <1>2, <2>1
  <2>3. PICK x \in Tab :
          /\ OneTab(t, x) /\ x.session = s /\ x.client = c /\ x.result = None
          /\ x.grantId = Existing(g) /\ x.settled = Settled
          /\ x.pc \in {"authorized", "interaction"}
          /\ x.pc = "authorized" => g \in DOMAIN granted
    BY <1>1, <2>2
  <2> HIDE DEF TypeInv, TypeOK
  <2>4. Found(t, s, c, g, x)
    BY <2>2, <2>3 DEF Found
  <2> QED
    BY <2>4
<1>4. CASE Resume(t)
  <2>1. tab[t] \in Tab
    OBVIOUS
  <2>2. PICK s \in Sessions, c \in Clients, S \in SUBSET Scopes, g \in Grants \cup {None} :
          /\ s = tab[t].session /\ c = tab[t].client /\ S = tab[t].requested
          /\ g = IF tab[t].result = None THEN sessionGrant[<<s, c>>] ELSE tab[t].result
    BY <2>1 DEF Tab
  <2>3. /\ Check(t, s, c, S, g) /\ sessionGrant' = [sessionGrant EXCEPT ![<<s, c>>] = g]
        /\ tab[t].pc = "answered"
    BY <1>4, <2>2 DEF Resume
  <2>4. PICK x \in Tab :
          /\ OneTab(t, x) /\ x.session = s /\ x.client = c /\ x.result = None
          /\ x.grantId = Existing(g) /\ x.settled = Settled
          /\ x.pc \in {"authorized", "interaction"}
          /\ x.pc = "authorized" => g \in DOMAIN granted
    BY <1>1, <2>3
  <2>5. g = sessionGrant[<<s, c>>] \/ (g = tab[t].result /\ g # None /\ c = tab[t].client)
    BY <2>2
  <2> HIDE DEF TypeInv, TypeOK
  <2> QED
    BY <2>2, <2>3, <2>4, <2>5 DEF Found
<1> QED
  BY <1>3, <1>4

LEMMA TabsAreFixed ==
  ASSUME TypeInv, [Next]_vars, NEW t \in Tabs
  PROVE  /\ tab[t].pc # "idle" =>
              tab'[t].pc # "idle" /\ tab'[t].client = tab[t].client /\ KeyOf(t)' = KeyOf(t)
         /\ tab'[t].settled \in {tab[t].settled, Settled}
<1>1. CASE Asks(t) \/ Resume(t)
  <2>1. PICK s \in Sessions, c \in Clients, g \in Grants \cup {None}, x \in Tab :
          Found(t, s, c, g, x)
    BY <1>1, CheckedTab
  <2>2. /\ tab'[t] = x /\ x.session = s /\ x.client = c /\ x.settled = Settled
        /\ x.pc \in {"authorized", "interaction"}
        /\ tab[t].pc # "idle" => s = tab[t].session /\ c = tab[t].client
    BY <2>1 DEF Found, OneTab
  <2> QED
    BY <2>2 DEF KeyOf
<1>2. CASE \E p \in Posts : FinishConfirm(p) /\ post[p].tab = t
  BY <1>2, FinishEffect DEF OneTab, KeyOf
<1>3. CASE \E pc \in {"page", "denied", "done", "failed"} : Turned(t, pc)
  BY <1>3 DEF Turned, OneTab, KeyOf
<1> QED
  BY <1>1, <1>2, <1>3, TabMoves DEF KeyOf

\* Rows come only from a submission that saves one, and go only when revoked.
LEMMA RowsMove ==
  ASSUME TypeInv, [Next]_vars
  PROVE  /\ ended \subseteq ended' /\ Stored \subseteq Stored'
         /\ \A g \in DOMAIN granted' :
              g \in DOMAIN granted \/ \E p \in Posts : SaveGrant(p) /\ g = post[p].grantId
         /\ ended' \subseteq Stored
         /\ expired' \subseteq expired \cup ended'
         /\ approved \subseteq approved'
<1>1. ASSUME NEW t \in Tabs, TabStep(t) PROVE UNCHANGED <<granted, expired, ended, approved>>
  BY <1>1 DEF TabStep, Authorize, Resume, IssueToken, ShowConsent, Abort, TabOnly, histories
<1>2. ASSUME NEW p \in Posts, SaveGrant(p)
      PROVE  /\ DOMAIN granted' = DOMAIN granted \cup {post[p].grantId}
             /\ expired' \subseteq expired
             /\ UNCHANGED <<ended, approved>>
  BY <1>2, SaveEffect DEF SaveGrant, histories
<1>3. ASSUME NEW p \in Posts, FinishConfirm(p) \/ \E t \in Tabs : Confirm(p, t)
      PROVE  UNCHANGED <<granted, expired, ended>> /\ approved \subseteq approved'
  BY <1>3 DEF FinishConfirm, Confirm, histories
<1>4. ASSUME NEW k, TokenStep(k) PROVE UNCHANGED <<granted, expired, ended, approved>>
  BY <1>4 DEF TokenStep, UserInfo, PatchProfile, histories
<1>5. ASSUME NEW q \in Patches, UpdateProfile(q) PROVE UNCHANGED <<granted, expired, ended, approved>>
  BY <1>5 DEF UpdateProfile
<1>6. ASSUME NEW g \in Grants, RevokeGrant(g) \/ Expire(g)
      PROVE  /\ g \in DOMAIN granted
             /\ DOMAIN granted' \in {DOMAIN granted, DOMAIN granted \ {g}}
             /\ expired' \subseteq expired \cup {g}
             /\ ended' = ended \cup {g} /\ approved' = approved
  BY <1>6 DEF RevokeGrant, Expire, Live
<1>7. UNCHANGED vars => UNCHANGED <<granted, expired, ended, approved>>
  BY DEF vars, histories
<1>8. CASE \E p \in Posts : SaveGrant(p)
  BY <1>2, <1>8 DEF Stored
<1>9. CASE \E g \in Grants : RevokeGrant(g) \/ Expire(g)
  BY <1>6, <1>9 DEF Stored
<1>10. CASE /\ UNCHANGED <<granted, expired, ended>> /\ approved \subseteq approved'
  BY <1>10 DEF Stored
<1> QED
  BY <1>1, <1>3, <1>4, <1>5, <1>7, <1>8, <1>9, <1>10 DEF Next, PostStep

LEMMA NextGoesOn ==
  ASSUME TypeInv, [Next]_vars
  PROVE  GoesOn
BY PostsAreFixed, TabsAreFixed, RowsMove DEF GoesOn

LEMMA PostsRunStep ==
  ASSUME TypeInv, PostsRun, [Next]_vars
  PROVE  PostsRun'
<1> SUFFICES ASSUME NEW p \in Posts
             PROVE  /\ post'[p].pc = "idle" => post'[p].grantId = None
                    /\ \A x \in prior'[p] : post'[x].pc \in {"done", "failed"}
  BY DEF PostsRun
<1>1. ASSUME NEW x \in Posts, post[x].pc \in {"done", "failed"}
      PROVE  post'[x].pc \in {"done", "failed"}
  BY <1>1, PostsAreFixed
<1>2. prior[p] \subseteq Posts
  BY DEF TypeInv, TypeOK
<1>3. CASE post[p].pc # "idle"
  BY <1>1, <1>2, <1>3, PostsAreFixed DEF PostsRun
<1>4. CASE \E t \in Tabs : Confirm(p, t)
  <2>1. PICK t \in Tabs : Confirm(p, t)
    BY <1>4
  <2>2. prior'[p] = {x \in Posts : post[x].pc \in {"done", "failed"}}
    BY <2>1 DEF Confirm, TypeInv, TypeOK
  <2>3. post'[p].pc # "idle"
    BY <2>1, ConfirmEffect DEF OnePost, TypeInv
  <2> QED
    BY <1>1, <2>2, <2>3
<1>5. CASE post[p].pc = "idle" /\ ~\E t \in Tabs : Confirm(p, t)
  <2>1. ~SaveGrant(p) /\ ~FinishConfirm(p)
    BY <1>5 DEF SaveGrant, FinishConfirm
  <2>2. post'[p] = post[p] /\ prior'[p] = prior[p]
    BY <1>5, <2>1, PostMoves
  <2> QED
    BY <1>1, <1>2, <2>2 DEF PostsRun
<1> QED
  BY <1>3, <1>4, <1>5

LEMMA OverlapStays ==
  ASSUME TypeInv, PostsRun, [Next]_vars, NEW p \in Posts, post[p].pc # "idle", Overlapped(p)
  PROVE  Overlapped(p)'
<1>1. PICK x \in Posts : post[x].grantId = post[p].grantId /\ Overlap(p, x)
  BY DEF Overlapped
<1>2. post[x].pc # "idle"
  BY <1>1, NamesAssumption DEF PostsRun, TypeInv, Posted
<1> QED
  BY <1>1, <1>2, PostsAreFixed DEF Overlapped, Overlap

\* What becomes of the scopes of a grant that is not over.
LEMMA ScopesMove ==
  ASSUME TypeInv, [Next]_vars, NEW g, g \notin ended'
  PROVE  \/ ScopesOf(g)' = ScopesOf(g)
         \/ \E x \in Posts : SaveGrant(x) /\ post[x].grantId = g /\ ScopesOf(g)' = post[x].copy
<1>1. ASSUME NEW x \in Posts, SaveGrant(x)
      PROVE  \/ ScopesOf(g)' = ScopesOf(g)
             \/ post[x].grantId = g /\ ScopesOf(g)' = post[x].copy
  <2>1. PICK h, S : h = post[x].grantId /\ S = post[x].copy
    OBVIOUS
  <2>2. /\ DOMAIN granted' = DOMAIN granted \cup {h}
        /\ \A i \in DOMAIN granted' : granted'[i] = IF i = h THEN S ELSE granted[i]
    BY <1>1, <2>1, SaveEffect
  <2>3. CASE g = h
    BY <2>1, <2>2, <2>3 DEF ScopesOf
  <2>4. CASE g # h
    BY <2>2, <2>4 DEF ScopesOf
  <2> QED
    BY <2>3, <2>4
<1>2. ASSUME NEW h \in Grants, RevokeGrant(h) \/ Expire(h) PROVE ScopesOf(g)' = ScopesOf(g)
  BY <1>2 DEF RevokeGrant, Expire, ScopesOf
<1>3. granted' = granted => ScopesOf(g)' = ScopesOf(g)
  BY DEF ScopesOf
<1>4. \/ \E x \in Posts : SaveGrant(x)
      \/ \E h \in Grants : RevokeGrant(h) \/ Expire(h)
      \/ granted' = granted
  BY DEF Next, TabStep, PostStep, TokenStep, Authorize, Resume, IssueToken, ShowConsent,
     Abort, TabOnly, FinishConfirm, Confirm, UserInfo, PatchProfile, UpdateProfile, vars
<1> QED
  BY <1>1, <1>2, <1>3, <1>4

LEMMA KeptStep ==
  ASSUME TypeInv, SafeInv, PostsRun, Kept, [Next]_vars
  PROVE  Kept'
<1> SUFFICES ASSUME NEW p \in Posts, post'[p].grantId \notin ended'
             PROVE  /\ post'[p].pc \in {"finish", "done"} =>
                         post'[p].copy \subseteq ScopesOf(post[p].grantId)' \/ Overlapped(p)'
                    /\ \A x \in Posts :
                         /\ p \in prior'[x] /\ post'[x].grantId = post'[p].grantId
                         /\ post'[p].pc = "done" /\ post'[x].pc # "failed"
                         => post'[p].copy \subseteq post'[x].copy \/ Overlapped(p)'
  BY DEF Kept, ScopesOf
<1>1. CASE post[p].pc = "idle"
  <2>1. post'[p].pc \in {"idle", "save", "failed"}
    <3>1. ASSUME NEW t \in Tabs, Confirm(p, t) PROVE post'[p].pc \in {"save", "failed"}
      BY <3>1, ConfirmEffect DEF TypeInv, OnePost
    <3> QED
      BY <1>1, <3>1, PostMoves DEF SaveGrant, FinishConfirm
  <2> QED
    BY <2>1
<1>2. CASE post[p].pc # "idle"
  <2>1. PICK g \in Grants : g = post[p].grantId
    BY <1>2 DEF TypeInv, Posted
  <2>2. /\ g \notin ended' /\ g \notin ended /\ post'[p].grantId = g
        /\ post'[p].copy = post[p].copy
    BY <1>2, <2>1, PostsAreFixed, RowsMove
  <2>3. Overlapped(p) => Overlapped(p)'
    BY <1>2, OverlapStays
  <2>4. ASSUME post[p].pc \in {"finish", "done"}
        PROVE  post[p].copy \subseteq ScopesOf(g) \/ Overlapped(p)
    BY <2>1, <2>2, <2>4 DEF Kept
  <2>5. ASSUME NEW x \in Posts, SaveGrant(x), post[x].grantId = g,
               post[p].pc \in {"finish", "done"}
        PROVE  post[p].copy \subseteq post[x].copy \/ Overlapped(p)
    <3>1. post[x].pc = "save"
      BY <2>5 DEF SaveGrant
    <3>2. x # p /\ x \notin prior[p]
      BY <2>5, <3>1 DEF PostsRun
    <3>3. CASE p \in prior[x]
      <4>1. post[p].pc = "done"
        BY <2>5, <3>3 DEF PostsRun
      <4> QED
        BY <2>1, <2>2, <2>5, <3>1, <3>3, <4>1 DEF Kept
    <3>4. CASE p \notin prior[x]
      BY <2>1, <2>5, <3>2, <3>4 DEF Overlapped, Overlap
    <3> QED
      BY <3>3, <3>4
  <2>6. ASSUME post'[p].pc \in {"finish", "done"}
        PROVE  post[p].copy \subseteq ScopesOf(g)' \/ Overlapped(p)'
    <3>1. CASE post[p].pc \in {"finish", "done"}
      BY <2>2, <2>3, <2>4, <2>5, <3>1, ScopesMove
    <3>2. CASE post[p].pc \notin {"finish", "done"}
      <4>1. SaveGrant(p)
        BY <1>2, <2>6, <3>2, PostMoves DEF FinishConfirm, Confirm
      <4> QED
        BY <2>1, <4>1, SaveEffect DEF ScopesOf
    <3> QED
      BY <3>1, <3>2
  <2>7. ASSUME NEW x \in Posts, p \in prior'[x], post'[x].grantId = g,
               post'[p].pc = "done", post'[x].pc # "failed"
        PROVE  post[p].copy \subseteq post'[x].copy \/ Overlapped(p)'
    <3>1. CASE post[x].pc # "idle"
      <4>1. /\ p \in prior[x] /\ post[x].grantId = g /\ post[x].pc # "failed"
            /\ post'[x].copy = post[x].copy
        BY <2>7, <3>1, PostsAreFixed
      <4>2. post[p].pc = "done"
        BY <2>7, <4>1, PostsAreFixed DEF PostsRun
      <4> QED
        BY <2>1, <2>2, <2>3, <4>1, <4>2 DEF Kept
    <3>2. CASE post[x].pc = "idle"
      <4>1. g # None /\ post[x].grantId = None
        BY <3>2, NamesAssumption DEF PostsRun
      <4>2. PICK t \in Tabs : Confirm(x, t)
        BY <2>7, <3>2, <4>1, PostMoves DEF SaveGrant, FinishConfirm
      <4>3. PICK y \in Post :
              /\ OnePost(x, y)
              /\ y.grantId = IF tab[t].grantId = None THEN x ELSE tab[t].grantId
              /\ y.copy = ScopesOf(tab[t].grantId) \cup tab[t].missing
        BY <4>2, ConfirmEffect DEF TypeInv
      <4>4. post'[x] = y /\ prior'[x] = {z \in Posts : post[z].pc \in {"done", "failed"}}
        BY <4>2, <4>3 DEF OnePost, Confirm, TypeInv, TypeOK
      <4>5. post[p].pc = "done"
        BY <1>2, <2>7, <4>4, PostsAreFixed
      <4>6. g # x
        <5>1. Known(g)
          BY <1>2, <2>1, <4>1 DEF SafeInv, Owned, GrantOf
        <5> QED
          BY <3>2, <5>1, NamesAssumption DEF Known
      <4>7. g = tab[t].grantId /\ ScopesOf(g) \subseteq post'[x].copy
        BY <2>7, <4>3, <4>4, <4>6
      <4> QED
        BY <2>3, <2>4, <4>5, <4>7
    <3> QED
      BY <3>1, <3>2
  <2>8. ScopesOf(post[p].grantId)' = ScopesOf(g)'
    BY <2>2 DEF ScopesOf
  <2> QED
    BY <2>2, <2>6, <2>7, <2>8
<1> QED
  BY <1>1, <1>2

\* The session forgets no grant.
LEMMA SessionMoves ==
  ASSUME TypeInv, [Next]_vars
  PROVE  \/ sessionGrant' = sessionGrant
         \/ \E t \in Tabs : Asks(t) \/ Resume(t)
<1>1. ASSUME NEW t \in Tabs, TabStep(t)
      PROVE  sessionGrant' = sessionGrant \/ Asks(t) \/ Resume(t)
  <2>1. CASE \E s \in Sessions, c \in Clients, S \in SUBSET Scopes \ {{}} : Authorize(t, s, c, S)
    BY <2>1 DEF Asks
  <2> QED
    BY <1>1, <2>1 DEF TabStep, IssueToken, ShowConsent, Abort, TabOnly
<1>2. CASE UNCHANGED vars
  BY <1>2 DEF vars
<1>3. CASE Next /\ ~\E t \in Tabs : TabStep(t)
  BY <1>3 DEF Next, PostStep, TokenStep, SaveGrant, FinishConfirm, Confirm, UserInfo,
     PatchProfile, UpdateProfile, RevokeGrant, Expire
<1> QED
  BY <1>1, <1>2, <1>3

LEMMA SessionStays ==
  ASSUME TypeInv, SessionKeeps, [Next]_vars, NEW k \in Keys
  PROVE  /\ sessionGrant'[k] \in Stored \cup {None}
         /\ sessionGrant[k] # None => sessionGrant'[k] # None
<1>1. CASE sessionGrant' = sessionGrant
  BY <1>1 DEF SessionKeeps
<1>2. ASSUME NEW t \in Tabs,
             Asks(t) \/ Resume(t)
      PROVE  /\ sessionGrant'[k] \in Stored \cup {None}
             /\ sessionGrant[k] # None => sessionGrant'[k] # None
  <2>1. PICK d \in Keys, g \in Grants \cup {None} :
          /\ sessionGrant' = [sessionGrant EXCEPT ![d] = g]
          /\ g = sessionGrant[d] \/ (g = tab[t].result /\ g # None)
    <3>1. PICK s \in Sessions, c \in Clients, h \in Grants \cup {None}, x \in Tab :
            Found(t, s, c, h, x)
      BY <1>2, CheckedTab
    <3>2. <<s, c>> \in Keys
      BY DEF Keys
    <3> QED
      BY <3>1, <3>2 DEF Found
  <2>2. g \in Stored \cup {None} /\ (sessionGrant[d] # None => g # None)
    BY <2>1 DEF SessionKeeps
  <2>3. sessionGrant'[k] = IF k = d THEN g ELSE sessionGrant[k]
    BY <2>1 DEF TypeInv, TypeOK, Keys
  <2> QED
    BY <2>2, <2>3 DEF SessionKeeps
<1> QED
  BY <1>1, <1>2, SessionMoves

LEMMA SessionKeepsStep ==
  ASSUME TypeInv, SessionKeeps, [Next]_vars
  PROVE  SessionKeeps'
<1>1. Stored \subseteq Stored'
  BY RowsMove
<1>2. \A k \in Keys : sessionGrant'[k] \in Stored' \cup {None}
  BY <1>1, SessionStays
<1>3. ASSUME NEW p \in Posts, post'[p].pc \in {"finish", "done"}
      PROVE  post'[p].grantId \in Stored'
  <2>1. CASE post[p].pc \in {"finish", "done"}
    BY <1>1, <2>1, PostsAreFixed DEF SessionKeeps
  <2>2. CASE SaveGrant(p)
    BY <2>2, SaveEffect, PostsAreFixed DEF Stored, SaveGrant
  <2>3. CASE \E t \in Tabs : Confirm(p, t)
    BY <1>3, <2>3, ConfirmEffect DEF OnePost, TypeInv
  <2> QED
    BY <1>3, <2>1, <2>2, <2>3, PostMoves DEF FinishConfirm
<1>4. ASSUME NEW t \in Tabs
      PROVE  /\ tab'[t].result \in Stored' \cup {None}
             /\ tab'[t].pc \in {"authorized", "done"} => sessionGrant'[KeyOf(t)'] # None
  <2>0. tab[t] \in Tab /\ KeyOf(t) \in Keys
    BY DEF TypeInv, TypeOK, Tab, KeyOf, Keys
  <2>1. ASSUME tab[t].pc \in {"authorized", "done"}
        PROVE  sessionGrant'[KeyOf(t)] # None
    BY <2>0, <2>1, SessionStays DEF SessionKeeps, Settled
  <2>2. CASE Asks(t) \/ Resume(t)
    <3>1. PICK s \in Sessions, c \in Clients, g \in Grants \cup {None}, x \in Tab :
            Found(t, s, c, g, x)
      BY <2>2, CheckedTab
    <3>2. tab'[t] = x /\ sessionGrant'[<<s, c>>] = g
      BY <3>1 DEF Found, OneTab, TypeInv, TypeOK
    <3>3. None \notin DOMAIN granted
      BY NamesAssumption DEF TypeInv, TypeOK
    <3> QED
      BY <3>1, <3>2, <3>3 DEF Found, KeyOf
  <2>3. ASSUME NEW pc \in {"page", "denied", "done", "failed"}, Turned(t, pc),
               pc = "done" => tab[t].pc = "authorized"
        PROVE  /\ tab'[t].result \in Stored' \cup {None}
               /\ tab'[t].pc \in {"authorized", "done"} => sessionGrant'[KeyOf(t)'] # None
    <3>1. /\ tab'[t].pc = pc /\ KeyOf(t)' = KeyOf(t)
          /\ tab'[t].result = tab[t].result
      BY <2>3 DEF Turned, OneTab, KeyOf
    <3> QED
      BY <1>1, <2>1, <2>3, <3>1 DEF SessionKeeps
  <2>4. CASE tab'[t] = tab[t]
    BY <1>1, <2>1, <2>4 DEF SessionKeeps, KeyOf
  <2>5. ASSUME NEW p \in Posts, FinishConfirm(p), post[p].tab = t, tab'[t] # tab[t]
        PROVE  tab'[t].result \in Stored' \cup {None} /\ tab'[t].pc = "answered"
    <3>1. /\ post[p].pc = "finish" /\ tab'[t].pc = "answered"
          /\ tab'[t].result \in {None, post[p].grantId}
      BY <2>5, FinishEffect DEF OneTab
    <3> QED
      BY <1>1, <3>1 DEF SessionKeeps
  <2> QED
    BY <2>2, <2>3, <2>4, <2>5, TabMoves
<1>5. \A t \in Settled' : sessionGrant'[KeyOf(t)'] # None
  BY <1>4 DEF Settled
<1>6. expired' \subseteq ended'
  BY RowsMove DEF SessionKeeps
<1> QED
  BY <1>2, <1>3, <1>4, <1>5, <1>6 DEF SessionKeeps

LEMMA EndedStays ==
  ASSUME TypeInv, NewAfterEnd, [Next]_vars, NEW c, EndedOf(c)
  PROVE  EndedOf(c)'
<1>1. PICK g \in ended : ClientOf(g) = c
  BY DEF EndedOf
<1>2. g \in ended' /\ ClientOf(g)' = c
  BY <1>1, RowsMove, NextGoesOn, KnownGoesOn DEF NewAfterEnd
<1> QED
  BY <1>2 DEF EndedOf

LEMMA NewAfterEndStep ==
  ASSUME TypeInv, SafeInv, SessionKeeps, NewAfterEnd, [Next]_vars
  PROVE  NewAfterEnd'
<1>1. ASSUME NEW g \in ended' PROVE Known(g)'
  <2>1. Known(g)
    BY RowsMove DEF Stored, NewAfterEnd, SafeInv, Grounded
  <2> QED
    BY <2>1, NextGoesOn, KnownGoesOn
<1>2. ASSUME NEW t \in Tabs, NEW u \in tab'[t].settled
      PROVE  /\ tab'[u].pc # "idle"
             /\ tab'[t].grantId = None /\ KeyOf(u)' = KeyOf(t)' =>
                  EndedOf(tab[t].client)'
  <2>1. u \in Tabs /\ tab[u].pc # "idle" /\ tab'[u].pc # "idle" /\ KeyOf(u)' = KeyOf(u)
    <3>1. u \in Tabs /\ tab[u].pc # "idle"
      BY <1>2, TabsAreFixed DEF Settled, NewAfterEnd, TypeInv, TypeOK, Tab
    <3> QED
      BY <3>1, TabsAreFixed
  <2>2. CASE Asks(t) \/ Resume(t)
    <3>1. PICK s \in Sessions, c \in Clients, g \in Grants \cup {None}, x \in Tab :
            Found(t, s, c, g, x)
      BY <2>2, CheckedTab
    <3>2. /\ tab'[t] = x /\ x.session = s /\ x.client = c
          /\ x.grantId = Existing(g) /\ x.settled = Settled
          /\ g = sessionGrant[<<s, c>>] \/ (g = tab[t].result /\ g # None /\ c = tab[t].client)
      BY <3>1 DEF Found, OneTab
    <3>3. ASSUME x.grantId = None, KeyOf(u) = <<s, c>> PROVE EndedOf(c)
      <4>1. sessionGrant[<<s, c>>] # None
        BY <1>2, <3>2, <3>3 DEF SessionKeeps
      <4>2. g # None /\ g \in Stored
        BY <3>2, <4>1 DEF SessionKeeps, Keys
      <4>3. g \in ended
        BY <3>2, <3>3, <4>2 DEF Existing, Stored, Live, SessionKeeps
      <4>4. ClientOf(g) = c
        BY <3>2, <4>2 DEF SafeInv, Owned, GrantOf, Keys
      <4> QED
        BY <4>3, <4>4 DEF EndedOf
    <3>4. EndedOf(c) => EndedOf(c)'
      BY EndedStays
    <3>5. EndedOf(c)' <=> EndedOf(tab[t].client)'
      BY <3>2 DEF EndedOf
    <3> QED
      BY <2>1, <3>2, <3>3, <3>4, <3>5 DEF KeyOf
  <2>3. CASE /\ KeyOf(t)' = KeyOf(t) /\ tab'[t].client = tab[t].client
             /\ tab'[t].grantId = tab[t].grantId
             /\ tab'[t].settled = tab[t].settled
    <3>1. PICK c : c = tab[t].client
      OBVIOUS
    <3>2. tab[t].grantId = None /\ KeyOf(u) = KeyOf(t) => EndedOf(c)
      BY <1>2, <2>3, <3>1 DEF NewAfterEnd, EndedOf
    <3>3. EndedOf(c) => EndedOf(c)'
      BY EndedStays
    <3>4. EndedOf(c)' <=> EndedOf(tab[t].client)'
      BY <2>3, <3>1 DEF EndedOf
    <3> QED
      BY <2>1, <2>3, <3>1, <3>2, <3>3, <3>4
  <2>4. (\E p \in {"page", "denied", "done", "failed"} : Turned(t, p)) =>
          /\ KeyOf(t)' = KeyOf(t) /\ tab'[t].client = tab[t].client
          /\ tab'[t].grantId = tab[t].grantId /\ tab'[t].settled = tab[t].settled
    BY DEF Turned, OneTab, KeyOf
  <2>5. (\E p \in Posts : FinishConfirm(p) /\ post[p].tab = t) =>
          /\ KeyOf(t)' = KeyOf(t) /\ tab'[t].client = tab[t].client
          /\ tab'[t].grantId = tab[t].grantId /\ tab'[t].settled = tab[t].settled
    BY FinishEffect DEF OneTab, KeyOf
  <2> QED
    BY <2>2, <2>3, <2>4, <2>5, TabMoves DEF KeyOf
<1>3. ASSUME NEW p \in Posts, post'[p].pc # "idle", NEW u \in post'[p].settled
      PROVE  /\ tab'[u].pc # "idle"
             /\ post'[p].grantId = p /\ KeyOf(u)' = KeyOf(post[p].tab)' =>
                  EndedOf(tab[post[p].tab].client)'
  <2>1. ASSUME NEW t \in Tabs, post'[p].tab = t, tab[t].pc # "idle",
               u \in Tabs, tab[u].pc # "idle",
               post'[p].grantId = p /\ KeyOf(u) = KeyOf(t) => EndedOf(tab[t].client)
        PROVE  /\ tab'[u].pc # "idle"
               /\ post'[p].grantId = p /\ KeyOf(u)' = KeyOf(post[p].tab)' =>
                    EndedOf(tab[post[p].tab].client)'
    <3>1. PICK c : c = tab[t].client
      OBVIOUS
    <3>2. /\ tab'[u].pc # "idle" /\ KeyOf(u)' = KeyOf(u) /\ KeyOf(t)' = KeyOf(t)
          /\ tab'[t].client = c /\ KeyOf(post[p].tab)' = KeyOf(t)'
      BY <2>1, <3>1, TabsAreFixed DEF KeyOf
    <3>3. EndedOf(c) => EndedOf(c)'
      BY EndedStays
    <3>4. EndedOf(c)' <=> EndedOf(tab[post[p].tab].client)'
      BY <2>1, <3>2 DEF EndedOf
    <3>5. EndedOf(tab[t].client) => EndedOf(c)
      BY <3>1 DEF EndedOf
    <3> QED
      BY <2>1, <3>1, <3>2, <3>3, <3>4, <3>5
  <2>2. CASE post[p].pc # "idle"
    <3>1. PICK t \in Tabs : t = post[p].tab /\ tab[t].pc # "idle"
      BY <2>2 DEF TypeInv, Posted, SafeInv, Owned
    <3>2. post'[p].tab = t /\ post'[p].grantId = post[p].grantId /\ u \in post[p].settled
      BY <1>3, <2>2, <3>1, PostsAreFixed
    <3>3. u \in Tabs /\ tab[u].pc # "idle"
      BY <2>2, <3>2 DEF NewAfterEnd, TypeInv, TypeOK, Post
    <3>4. post[p].grantId = p /\ KeyOf(u) = KeyOf(t) => EndedOf(tab[t].client)
      BY <2>2, <3>1, <3>2 DEF NewAfterEnd, EndedOf, KeyOf
    <3> QED
      BY <2>1, <3>1, <3>2, <3>3, <3>4
  <2>3. CASE post[p].pc = "idle"
    <3>1. PICK t \in Tabs : Confirm(p, t)
      BY <1>3, <2>3, PostMoves DEF SaveGrant, FinishConfirm
    <3>2. PICK x \in Post :
            /\ OnePost(p, x) /\ x.tab = t /\ tab[t].pc # "idle" /\ x.settled = tab[t].settled
            /\ x.grantId = IF tab[t].grantId = None THEN p ELSE tab[t].grantId
      BY <3>1, ConfirmEffect DEF TypeInv
    <3>3. post'[p] = x
      BY <3>2 DEF OnePost
    <3>4. tab[t].grantId # None => tab[t].grantId # p
      BY <2>3, NamesAssumption DEF SafeInv, Owned, GrantOf, Known
    <3>5. u \in Tabs /\ tab[u].pc # "idle"
      BY <1>3, <3>2, <3>3 DEF NewAfterEnd, Post
    <3>6. post'[p].grantId = p /\ KeyOf(u) = KeyOf(t) => EndedOf(tab[t].client)
      BY <1>3, <3>2, <3>3, <3>4 DEF NewAfterEnd, EndedOf
    <3> QED
      BY <2>1, <3>2, <3>3, <3>5, <3>6
  <2> QED
    BY <2>2, <2>3
<1> QED
  BY <1>1, <1>2, <1>3 DEF NewAfterEnd

LEMMA MadeStays ==
  ASSUME TypeInv, PostsRun, [Next]_vars, NEW g, Made(g)
  PROVE  Made(g)'
<1>1. ASSUME g \in Posts PROVE post[g].pc # "idle"
  BY <1>1, NamesAssumption DEF Made, PostsRun, Grants
<1> QED
  BY <1>1, PostsAreFixed DEF Made

LEMMA GrantsAreMadeStep ==
  ASSUME TypeInv, PostsRun, GrantsAreMade, [Next]_vars
  PROVE  GrantsAreMade'
<1>1. Made(None) /\ Made(None)'
  BY NamesAssumption DEF Made, Grants
<1>2. ASSUME NEW g \in DOMAIN granted' PROVE Made(g)'
  BY MadeStays, RowsMove DEF GrantsAreMade
<1>3. ASSUME NEW t \in Tabs, NEW g, g = tab'[t].grantId PROVE Made(g)'
  <2>1. CASE Asks(t) \/ Resume(t)
    <3>1. g = None \/ g \in DOMAIN granted
      BY <1>3, <2>1, CheckedTab DEF Found, OneTab, Existing, Live
    <3> QED
      BY <1>1, <3>1, MadeStays DEF GrantsAreMade
  <2>2. CASE tab'[t].grantId = tab[t].grantId
    BY <1>3, <2>2, MadeStays DEF GrantsAreMade
  <2>3. (\E p \in {"page", "denied", "done", "failed"} : Turned(t, p)) =>
          tab'[t].grantId = tab[t].grantId
    BY DEF Turned, OneTab
  <2>4. (\E p \in Posts : FinishConfirm(p) /\ post[p].tab = t) =>
          tab'[t].grantId = tab[t].grantId
    BY FinishEffect DEF OneTab
  <2> QED
    BY <2>1, <2>2, <2>3, <2>4, TabMoves
<1>4. ASSUME NEW p \in Posts, NEW g, g = post'[p].grantId PROVE Made(g)'
  <2>1. CASE \E t \in Tabs : Confirm(p, t)
    <3>1. PICK t \in Tabs : Confirm(p, t)
      BY <2>1
    <3>2. g = IF tab[t].grantId = None THEN p ELSE tab[t].grantId
      BY <1>4, <3>1, ConfirmEffect DEF OnePost, TypeInv
    <3>3. CASE g = p
      BY <1>4, <3>3 DEF Made
    <3>4. CASE g = tab[t].grantId
      BY <3>4, MadeStays DEF GrantsAreMade
    <3> QED
      BY <3>2, <3>3, <3>4
  <2>2. CASE post'[p].grantId = post[p].grantId
    BY <1>4, <2>2, MadeStays DEF GrantsAreMade
  <2>3. SaveGrant(p) \/ FinishConfirm(p) => post'[p].grantId = post[p].grantId
    BY PostsAreFixed DEF SaveGrant, FinishConfirm
  <2> QED
    BY <2>1, <2>2, <2>3, PostMoves
<1> QED
  BY <1>2, <1>3, <1>4 DEF GrantsAreMade, Made

LEMMA OverlapStep ==
  ASSUME TypeInv, SafeInv, OverlapInv, [Next]_vars
  PROVE  OverlapInv'
BY PostsRunStep, KeptStep, SessionKeepsStep, NewAfterEndStep, GrantsAreMadeStep
   DEF OverlapInv

LEMMA OverlapsOnly ==
  ASSUME TypeInv, SafeInv, OverlapInv
  PROVE  GrantsDivergeForAReason
<1>1. ApprovalLostOnlyByOverlap
  BY DEF OverlapInv, Kept, ApprovalLostOnlyByOverlap, Overlapped
<1>2. ASSUME NEW g \in DOMAIN granted \cap Posts, NEW h \in DOMAIN granted \cap Posts,
             ClientOf(g) = ClientOf(h), post[g].tab \in post[h].settled,
             tab[post[g].tab].session = tab[post[h].tab].session
      PROVE  \E x \in ended : ClientOf(x) = ClientOf(h)
  <2>1. /\ g \notin Clients /\ h \notin Clients
        /\ post[h].pc # "idle" /\ post[h].grantId = h
    BY NamesAssumption DEF SafeInv, Grounded, Known, OverlapInv, GrantsAreMade, Made
  <2>2. KeyOf(post[g].tab) = KeyOf(post[h].tab)
    BY <1>2, <2>1 DEF ClientOf, KeyOf
  <2>3. EndedOf(tab[post[h].tab].client)
    BY <1>2, <2>1, <2>2 DEF OverlapInv, NewAfterEnd
  <2> QED
    BY <2>1, <2>3 DEF EndedOf, ClientOf
<1>3. SecondGrantHasAReason
  <2> SUFFICES ASSUME NEW g \in DOMAIN granted \cap Posts, NEW h \in DOMAIN granted \cap Posts,
                      ClientOf(g) = ClientOf(h)
               PROVE  \/ tab[post[g].tab].session # tab[post[h].tab].session
                      \/ post[g].tab \notin post[h].settled /\ post[h].tab \notin post[g].settled
                      \/ \E x \in ended : ClientOf(x) = ClientOf(g)
    BY DEF SecondGrantHasAReason
  <2> SUFFICES ASSUME tab[post[g].tab].session = tab[post[h].tab].session
               PROVE  \/ post[g].tab \notin post[h].settled /\ post[h].tab \notin post[g].settled
                      \/ \E x \in ended : ClientOf(x) = ClientOf(g)
    OBVIOUS
  <2>1. post[g].tab \in post[h].settled => \E x \in ended : ClientOf(x) = ClientOf(g)
    BY <1>2
  <2>2. post[h].tab \in post[g].settled => \E x \in ended : ClientOf(x) = ClientOf(g)
    BY <1>2
  <2> QED
    BY <2>1, <2>2
<1> QED
  BY <1>1, <1>3 DEF GrantsDivergeForAReason

\* What the user allowed an app in a browser session stays in its one grant, unless
\* consents of the user run into each other, or the grant is revoked or expires
\* (interactions.ts:127-145, oidcModelAdapter.ts:36).
THEOREM ConsentsStay == Spec => []GrantsDivergeForAReason
<1>1. TypeInv /\ SafeInv /\ OverlapInv /\ [Next]_vars =>
        TypeInv' /\ SafeInv' /\ OverlapInv'
  BY NextTypeInv, NextSafe, OverlapStep
<1>2. TypeInv /\ SafeInv /\ OverlapInv => GrantsDivergeForAReason
  BY OverlapsOnly
<1> QED
  BY <1>1, <1>2, InitTypeInv, InitSafe, InitOverlapInv, PTL DEF Spec
================================================================================
