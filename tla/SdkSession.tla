------------------------------ MODULE SdkSession ------------------------------
(***************************************************************************)
(* createExpressAuth and requireAuth (packages/sdk/src/express.ts) with the  *)
(* calls of NekoAuthClient (client.ts) they make, for one browser session    *)
(* with several requests in flight: tabs, reloads, prefetches.              *)
(*                                                                          *)
(* The session middleware is the host's (express-session, as in                 *)
(* express.integration.test.ts:71): it loads a copy of the session when a    *)
(* request arrives and stores the whole copy when the request is answered,   *)
(* if the handler has changed it.  The authorization server answers each     *)
(* code once.                                                               *)
(***************************************************************************)
EXTENDS Integers

CONSTANTS
  Requests,   \* requests of a behaviour (bound)
  Accounts,   \* accounts of the authorization server
  Nobody      \* no pending login, no user, no answer from the server yet

ASSUME NobodyAssumption == Nobody \notin Requests \cup Accounts

VARIABLES
  stored,    \* the session in the host's store
  copy,      \* copy[r]: the session object of request r
  loaded,    \* loaded[r]: the session as r loaded it
  pc,        \* pc[r]: the next step of request r
  op,        \* op[r]: the route r calls
  login,     \* login[r]: the login whose state the callback r carries
  answer,    \* answer[r]: how r is answered
  account,   \* account[r]: the account the callback r has signed in
  grantedTo, \* grantedTo[s]: the account that authorised the login s
  used,      \* logins whose code has been exchanged
  prior      \* prior[r]: requests answered when r arrived (history)

sdkSession == <<stored, copy, loaded>>
server == <<grantedTo, used>>
sdkVars == <<sdkSession, pc, op, login, answer, account, server, prior>>

\* nekoPending, named after the login that made its state and verifier, and the
\* account of nekoUser.
Sessions == [pending : Requests \cup {Nobody}, user : Accounts \cup {Nobody}]

Routes == {"login", "callback", "logout", "page"}

PCs == {"idle", "handle", "exchange", "userinfo", "hook", "end", "ended"}

SdkTypeOK ==
  /\ stored \in Sessions
  /\ copy \in [Requests -> Sessions]
  /\ loaded \in [Requests -> Sessions]
  /\ pc \in [Requests -> PCs]
  /\ op \in [Requests -> Routes]
  /\ login \in [Requests -> Requests \cup {Nobody}]
  /\ answer \in [Requests -> {"ok", "refused", "failed"}]
  /\ account \in [Requests -> Accounts \cup {Nobody}]
  /\ grantedTo \in [Requests -> Accounts \cup {Nobody}]
  /\ used \subseteq Requests
  /\ \A s \in used : grantedTo[s] # Nobody
  /\ prior \in [Requests -> SUBSET Requests]

Empty == [pending |-> Nobody, user |-> Nobody]

SdkInit ==
  /\ stored = Empty
  /\ copy = [r \in Requests |-> Empty]
  /\ loaded = [r \in Requests |-> Empty]
  /\ pc = [r \in Requests |-> "idle"]
  /\ op = [r \in Requests |-> "page"]
  /\ login = [r \in Requests |-> Nobody]
  /\ answer = [r \in Requests |-> "ok"]
  /\ account = [r \in Requests |-> Nobody]
  /\ grantedTo = [r \in Requests |-> Nobody]
  /\ used = {}
  /\ prior = [r \in Requests |-> {}]

------------------------------------------------------------------------------
(* The host's session middleware.                                          *)

Goto(r, from, to) ==
  /\ pc[r] = from
  /\ pc' = [pc EXCEPT ![r] = to]

Ended == {r \in Requests : pc[r] = "ended"}

\* A login that has been answered sends the browser to the server, and the
\* server sends it back with that login's state.
Arrive(r, route, s) ==
  /\ IF route = "callback" THEN s \in Ended /\ op[s] = "login" /\ answer[s] = "ok"
                           ELSE s = Nobody
  /\ Goto(r, "idle", "handle")
  /\ op' = [op EXCEPT ![r] = route]
  /\ login' = [login EXCEPT ![r] = s]
  /\ copy' = [copy EXCEPT ![r] = stored]
  /\ loaded' = [loaded EXCEPT ![r] = stored]
  /\ prior' = [prior EXCEPT ![r] = Ended]
  /\ UNCHANGED <<stored, answer, account, server>>

\* The answer goes out; a session that the handler has changed is stored.
End(r) ==
  /\ Goto(r, "end", "ended")
  /\ stored' = IF copy[r] # loaded[r] THEN copy[r] ELSE stored
  /\ UNCHANGED <<copy, loaded, op, login, answer, account, server, prior>>

------------------------------------------------------------------------------
(* The handlers.                                                           *)

Handles(r, route) == op[r] = route /\ pc[r] = "handle"

Respond(r, how) == answer' = [answer EXCEPT ![r] = how]

Frame == UNCHANGED <<stored, loaded, op, login, prior>>

\* Mutant: a pending login is kept.
LoginKeepsPending(r) ==
  /\ Handles(r, "login") /\ Goto(r, "handle", "end")
  /\ \/ /\ copy' = [copy EXCEPT ![r].pending = IF @ = Nobody THEN r ELSE @]
        /\ Respond(r, "ok")
     \/ UNCHANGED copy /\ Respond(r, "failed")
  /\ UNCHANGED <<account, server>> /\ Frame

\* GET /auth/login; createAuthorizationRequest may throw, for want of discovery.
Login(r) ==
  /\ Handles(r, "login") /\ Goto(r, "handle", "end")
  /\ \/ copy' = [copy EXCEPT ![r].pending = r] /\ Respond(r, "ok")
     \/ UNCHANGED copy /\ Respond(r, "failed")
  /\ UNCHANGED <<account, server>> /\ Frame

\* Mutant: a callback clears the whole session first.
CallbackClears(r) ==
  /\ Handles(r, "callback") /\ copy[r].pending # login[r]
  /\ Goto(r, "handle", "end") /\ Respond(r, "refused")
  /\ copy' = [copy EXCEPT ![r] = Empty]
  /\ UNCHANGED <<account, server>> /\ Frame

\* GET /auth/callback up to its first await.  Without a pending login it changes
\* nothing; a state that is not the pending one uses the pending login up.
CallbackRefused(r) ==
  /\ Handles(r, "callback") /\ copy[r].pending # login[r]
  /\ Goto(r, "handle", "end") /\ Respond(r, "refused")
  /\ copy' = [copy EXCEPT ![r].pending = Nobody]
  /\ UNCHANGED <<account, server>> /\ Frame

\* The user has denied the request.
CallbackDenied(r) ==
  /\ Handles(r, "callback") /\ copy[r].pending = login[r]
  /\ Goto(r, "handle", "end") /\ Respond(r, "failed")
  /\ copy' = [copy EXCEPT ![r].pending = Nobody]
  /\ UNCHANGED <<account, server>> /\ Frame

Callback(r) ==
  /\ Handles(r, "callback") /\ copy[r].pending = login[r]
  /\ Goto(r, "handle", "exchange") /\ UNCHANGED answer
  /\ copy' = [copy EXCEPT ![r].pending = Nobody]
  /\ UNCHANGED <<account, server>> /\ Frame

\* exchangeCode: the server answers a code once.
Exchange(r) ==
  LET s == login[r] IN
    /\ Goto(r, "exchange", "userinfo") /\ s \notin used
    /\ used' = used \cup {s}
    /\ \E u \in Accounts : /\ grantedTo[s] \in {Nobody, u}
                           /\ grantedTo' = [grantedTo EXCEPT ![s] = u]
    /\ UNCHANGED <<copy, answer, account>> /\ Frame

\* getUserInfo and verifyIdToken.
UserInfo(r) ==
  /\ Goto(r, "userinfo", "hook")
  /\ account' = [account EXCEPT ![r] = grantedTo[login[r]]]
  /\ copy' = [copy EXCEPT ![r].user = grantedTo[login[r]]]
  /\ UNCHANGED <<answer, server>> /\ Frame

\* Any of the three throws; the code is used up or not.
CallFails(r) ==
  /\ pc[r] \in {"exchange", "userinfo"}
  /\ pc' = [pc EXCEPT ![r] = "end"] /\ Respond(r, "failed")
  /\ UNCHANGED <<copy, account, server>> /\ Frame

\* onLoginSuccess of the host, if there is one, returns or throws.
Hook(r) ==
  /\ Goto(r, "hook", "end")
  /\ \E how \in {"ok", "failed"} : Respond(r, how)
  /\ UNCHANGED <<copy, account, server>> /\ Frame

\* Mutant: the wrong key is deleted.
LogOutPending(r) ==
  /\ Handles(r, "logout") /\ Goto(r, "handle", "end")
  /\ copy' = [copy EXCEPT ![r].pending = Nobody]
  /\ Respond(r, "ok")
  /\ UNCHANGED <<account, server>> /\ Frame

\* Mutant: the whole session is dropped.
LogOutDrops(r) ==
  /\ Handles(r, "logout") /\ Goto(r, "handle", "end")
  /\ copy' = [copy EXCEPT ![r] = Nobody]
  /\ Respond(r, "ok")
  /\ UNCHANGED <<account, server>> /\ Frame

\* GET and POST /auth/logout
LogOut(r) ==
  /\ Handles(r, "logout") /\ Goto(r, "handle", "end")
  /\ copy' = [copy EXCEPT ![r].user = Nobody]
  /\ Respond(r, "ok")
  /\ UNCHANGED <<account, server>> /\ Frame

\* requireAuth serves the page or redirects to the login route.
RequireAuth(r) ==
  /\ Handles(r, "page") /\ Goto(r, "handle", "end")
  /\ Respond(r, IF copy[r].user # Nobody THEN "ok" ELSE "refused")
  /\ UNCHANGED <<copy, account, server>> /\ Frame

\* Every request has been answered: the behaviour may stop.
Rest ==
  /\ Ended = Requests
  /\ UNCHANGED sdkVars

SdkStep(r) ==
  \/ Login(r) \/ CallbackRefused(r) \/ CallbackDenied(r) \/ Callback(r)
  \/ Exchange(r) \/ UserInfo(r) \/ CallFails(r) \/ Hook(r)
  \/ LogOut(r) \/ RequireAuth(r) \/ End(r)

SdkNext ==
  \/ \E r \in Requests :
       \/ \E route \in Routes, s \in Requests \cup {Nobody} : Arrive(r, route, s)
       \/ SdkStep(r)
  \/ Rest

SdkSpec == SdkInit /\ [][SdkNext]_sdkVars

------------------------------------------------------------------------------
(* Properties.                                                             *)

Overlap(r, s) == r # s /\ r \notin prior[s] /\ s \notin prior[r]

Done(r, route) == r \in Ended /\ op[r] = route

\* r was over when s arrived.
Before(r, s) == r \in prior[s]

\* Handlers that change the session they have loaded.
Writes(s) == op[s] # "page"

\* A callback that has set nekoUser, whatever its answer.
SignsIn(s) == op[s] = "callback" /\ account[s] # Nobody

\* A logout signs the session out until a later sign-in, unless another request of
\* the session was in flight: one that loaded the session before stores it whole
\* afterwards (express.ts:124-133).
LogOutHolds ==
  \A r \in Requests :
    Done(r, "logout") =>
      \/ stored.user = Nobody
      \/ \E s \in Requests : Before(r, s) /\ SignsIn(s)
      \/ \E s \in Requests : Overlap(r, s) /\ Writes(s)

\* A sign-in that was answered with success stands until a later logout or
\* sign-in; a reloaded or late callback does not undo it (express.ts:80-94, 115).
SignInHolds ==
  \A r \in Requests :
    Done(r, "callback") /\ answer[r] = "ok" =>
      \/ stored.user = account[r]
      \/ \E s \in Requests : Before(r, s) /\ (SignsIn(s) \/ op[s] = "logout")
      \/ \E s \in Requests : Overlap(r, s) /\ Writes(s)

\* The session is what the last logout or sign-in has made it.
SessionFollowsTheBrowser == LogOutHolds /\ SignInHolds

\* The callback of a login is refused only when another request has touched the
\* pending login since the login started (express.ts:70, 80-94).
RefusedForAReason ==
  \A r \in Requests :
    Done(r, "callback") /\ answer[r] = "refused" =>
      \E t \in Requests \ {r, login[r]} : ~Before(t, login[r]) /\ Writes(t)
==============================================================================
