------------------------- MODULE AccountPortal_proofs --------------------------
(***************************************************************************)
(* Proofs about AccountPortal, for any number of requests, browsers,        *)
(* accounts and providers: its types, whose link a request makes or         *)
(* removes, why a linking fails, and whose cookie a browser holds.  At the   *)
(* end, about VRChatVerification: the portal's handlers start the           *)
(* verifications and answer without waiting for them.                       *)
(***************************************************************************)
EXTENDS AccountPortal, VRChatVerification, TLAPS

------------------------------------------------------------------------------
(* Type correctness.                                                       *)

InCallback == {"verify", "info", "find", "create"}

\* A handler serves a browser, and a callback has redeemed the code of its state.
Handlers ==
  \A r \in Requests :
    /\ req[r].pc # "idle" => req[r].browser \in Browsers
    /\ req[r].pc = "handle" =>
         req[r].op \in {"login", "view", "revokeAll", "unlink", "delete"}
    /\ req[r].pc \in InCallback =>
         /\ req[r].op = "callback"
         /\ req[r].target \in DOMAIN flow /\ flow[req[r].target].code = "used"

\* A state was signed for the account of a request that was answered, and a code
\* comes with somebody who approved.
Flows ==
  \A f \in DOMAIN flow :
    /\ req[f].pc # "idle" /\ req[f].user = flow[f].user
    /\ flow[f].code \in {"issued", "used"} => flow[f].person \in People

TypeInv == TypeOK /\ Handlers /\ Flows

LEMMA InitTypeInv == Init => TypeInv
<1> SUFFICES ASSUME Init PROVE TypeInv
  OBVIOUS
<1>1. DOMAIN links = OldLinks /\ \A i \in DOMAIN links : links[i] \in Identity
  BY NamesAssumption DEF Init
<1>2. \A i \in DOMAIN links : links[i].user \in users
  BY <1>1 DEF Init, Identity
<1>3. req \in [Requests -> Req] /\ \A r \in Requests : req[r].pc = "idle"
  BY DEF Init, Req
<1>4. pkce \in [Providers -> Modes] /\ cookie \in [Browsers -> Accounts \cup {None}]
  BY DEF Init
<1>5. /\ listed \in [Browsers -> SUBSET LinkIds] /\ DOMAIN flow = {}
      /\ prior \in [Requests -> SUBSET Requests] /\ lapsed \subseteq Requests
      /\ reloaded \subseteq Requests /\ reloads \in 0..MaxReloads /\ users \subseteq Accounts
  BY MaxReloadsAssumption DEF Init
<1> QED
  BY <1>1, <1>2, <1>3, <1>4, <1>5 DEF TypeInv, TypeOK, Handlers, Flows, LinkIds, InCallback

\* A step that changes one request.
OneReq(r, y) ==
  /\ req'[r] = y /\ \A x \in Requests \ {r} : req'[x] = req[x]
  /\ req' \in [Requests -> Req]

Steps == {"handle", "verify", "info", "find", "create", "answer", "done"}
Targets == LinkIds \cup Providers \cup {None}
Changes == Accounts \cup {"keep", "clear"}

Arrived(r, op, b, u, x, step) ==
  /\ \E y \in Req :
       /\ OneReq(r, y)
       /\ y.pc = step /\ y.op = op /\ y.browser = b /\ y.user = u /\ y.target = x
  /\ req[r].pc = "idle" /\ prior' \in [Requests -> SUBSET Requests]
  /\ UNCHANGED <<users, links, pkce, cookie, listed, lapsed, reloaded, reloads>>

LEMMA ArriveEffect ==
  ASSUME TypeOK, NEW r \in Requests, NEW op \in Ops, NEW b \in Browsers,
         NEW u \in Accounts \cup {None}, NEW x \in Targets, NEW step \in Steps,
         NEW status \in {"ok", "refused", "error", "fault"}, NEW change \in Changes,
         Arrive(r, op, b, u, x, step, status, change)
  PROVE  Arrived(r, op, b, u, x, step)
<1> DEFINE y == [pc |-> step, op |-> op, browser |-> b, user |-> u, target |-> x, ids |-> {},
                 status |-> status, cookie |-> change]
<1>1. /\ y \in Req
      /\ y.pc = step /\ y.op = op /\ y.browser = b /\ y.user = u /\ y.target = x
  BY DEF Req, Steps, Targets, Changes
<1>2. req' = [req EXCEPT ![r] = y]
  BY DEF Arrive
<1> HIDE DEF y
<1>3. OneReq(r, y)
  BY <1>1, <1>2 DEF OneReq, TypeOK
<1>4. prior' \in [Requests -> SUBSET Requests]
  BY DEF Arrive, TypeOK, Done
<1> QED
  BY <1>1, <1>3, <1>4 DEF Arrive, Arrived

\* A request goes on, for the same browser and account.
Stepped(r, step) ==
  \E y \in Req :
    /\ OneReq(r, y)
    /\ y.pc = step /\ y.op = req[r].op /\ y.browser = req[r].browser
    /\ y.user = req[r].user /\ y.target = req[r].target

LEMMA StepEffect ==
  ASSUME TypeOK, NEW r \in Requests, NEW step \in Steps,
         NEW status \in {"ok", "refused", "error", "fault"}, NEW change \in Changes,
         Step(r, step, status, change)
  PROVE  Stepped(r, step)
<1>1. req[r] \in Req
  BY DEF TypeOK
<1> DEFINE y == [req[r] EXCEPT !.pc = step, !.status = status, !.cookie = change]
<1>2. /\ y.pc = step /\ y.op = req[r].op /\ y.browser = req[r].browser
      /\ y.user = req[r].user /\ y.target = req[r].target
  BY <1>1 DEF Req
<1>3. y \in Req
  <2>1. [req[r] EXCEPT !.pc = step] \in Req
    BY <1>1 DEF Req, Steps
  <2>2. [req[r] EXCEPT !.pc = step, !.status = status] \in Req
    BY <2>1 DEF Req
  <2> QED
    BY <2>2 DEF Req, Changes
<1>4. req' = [req EXCEPT ![r] = y]
  BY DEF Step
<1> HIDE DEF y
<1>5. OneReq(r, y)
  BY <1>3, <1>4 DEF OneReq, TypeOK
<1> QED
  BY <1>2, <1>3, <1>5 DEF Stepped

LEMMA ViewEffect ==
  ASSUME TypeOK, NEW r \in Requests, View(r)
  PROVE  Stepped(r, "answer")
<1>1. req[r] \in Req
  BY DEF TypeOK
<1> DEFINE y == [req[r] EXCEPT !.pc = "answer", !.ids = LinksOf(req[r].user),
                               !.cookie = IF req[r].user \in users THEN "keep" ELSE "clear"]
<1>2. LinksOf(req[r].user) \subseteq LinkIds
  BY DEF LinksOf, TypeOK
<1>3. /\ y \in Req
      /\ y.pc = "answer" /\ y.op = req[r].op /\ y.browser = req[r].browser
      /\ y.user = req[r].user /\ y.target = req[r].target
  BY <1>1, <1>2 DEF Req
<1>4. req' = [req EXCEPT ![r] = y]
  BY DEF View
<1> HIDE DEF y
<1>5. OneReq(r, y)
  BY <1>3, <1>4 DEF OneReq, TypeOK
<1> QED
  BY <1>3, <1>5 DEF Stepped

LEMMA AnswerEffect ==
  ASSUME TypeInv, NEW r \in Requests, Answer(r)
  PROVE  /\ Stepped(r, "done")
         /\ cookie' \in [Browsers -> Accounts \cup {None}]
         /\ listed' \in [Browsers -> SUBSET LinkIds]
<1>1. TypeOK /\ req[r] \in Req /\ req[r].pc = "answer" /\ req[r].browser \in Browsers
  BY DEF TypeInv, TypeOK, Handlers, Answer
<1> DEFINE y == [req[r] EXCEPT !.pc = "done", !.ids = {}]
<1>2. /\ y \in Req
      /\ y.pc = "done" /\ y.op = req[r].op /\ y.browser = req[r].browser
      /\ y.user = req[r].user /\ y.target = req[r].target
  BY <1>1 DEF Req
<1>3. req' = [req EXCEPT ![r] = y]
  BY <1>1 DEF Answer, TypeOK, Req
<1> HIDE DEF y
<1>4. OneReq(r, y)
  BY <1>1, <1>2, <1>3 DEF OneReq, TypeOK
<1>5. \A u \in Accounts \cup {None} : CookieAfter(r, u) \in Accounts \cup {None}
  BY <1>1 DEF CookieAfter, Req
<1>6. cookie' \in [Browsers -> Accounts \cup {None}]
  BY <1>1, <1>5 DEF Answer, TypeOK
<1>7. listed' \in [Browsers -> SUBSET LinkIds]
  BY <1>1 DEF Answer, TypeOK, Req
<1> QED
  BY <1>2, <1>4, <1>6, <1>7 DEF Stepped

\* A request that goes on keeps what it knows.
LEMMA SteppedInv ==
  ASSUME TypeInv, NEW r \in Requests, NEW step \in Steps \ {"handle"}, Stepped(r, step),
         req[r].pc # "idle", step \in InCallback => req[r].pc \in InCallback, UNCHANGED flow
  PROVE  req' \in [Requests -> Req] /\ Handlers' /\ Flows'
<1>1. PICK y \in Req :
        /\ OneReq(r, y)
        /\ y.pc = step /\ y.op = req[r].op /\ y.browser = req[r].browser
        /\ y.user = req[r].user /\ y.target = req[r].target
  BY DEF Stepped
<1>2. req' \in [Requests -> Req]
  BY <1>1 DEF OneReq
<1>3. Handlers'
  BY <1>1 DEF TypeInv, Handlers, OneReq
<1>4. Flows'
  <2>1. DOMAIN flow \subseteq Requests
    BY DEF TypeInv, TypeOK
  <2> QED
    BY <1>1, <2>1 DEF TypeInv, Flows, OneReq, Steps
<1> QED
  BY <1>2, <1>3, <1>4

LEMMA RunsTypeInv ==
  ASSUME TypeInv, NEW r \in Requests, Runs(r)
  PROVE  TypeInv'
<1>1. TypeOK /\ req[r] \in Req
  BY DEF TypeInv, TypeOK
<1>2. ASSUME NEW step \in Steps \ {"handle"}, Stepped(r, step), req[r].pc # "idle",
             step \in InCallback => req[r].pc \in InCallback,
             UNCHANGED <<pkce, flow, prior, lapsed, reloaded, reloads>>,
             users' \subseteq Accounts, DOMAIN links' \subseteq LinkIds,
             \A i \in DOMAIN links' : links'[i] \in Identity /\ links'[i].user \in users',
             cookie' \in [Browsers -> Accounts \cup {None}],
             listed' \in [Browsers -> SUBSET LinkIds]
      PROVE  TypeInv'
  <2>1. req' \in [Requests -> Req] /\ Handlers' /\ Flows'
    BY <1>2, SteppedInv
  <2> QED
    BY <1>1, <1>2, <2>1 DEF TypeInv, TypeOK
<1>3. ASSUME NEW step \in Steps \ {"handle"}, Stepped(r, step), req[r].pc # "idle",
             step \in InCallback => req[r].pc \in InCallback, UNCHANGED <<users, links, flow>>, Same
      PROVE  TypeInv'
  BY <1>1, <1>2, <1>3 DEF TypeOK, Same
<1>4. CASE Login(r)
  <2>1. UNCHANGED <<users, links, flow>> /\ Same /\ req[r].pc = "handle"
    BY <1>4 DEF Login, At
  <2>2. CASE req[r].user \in users
    <3>1. PICK u \in Changes : u = req[r].user
      BY <1>1, <2>2 DEF TypeOK, Changes
    <3>2. Step(r, "answer", "ok", u)
      BY <1>4, <2>2, <3>1 DEF Login, Respond
    <3>3. PICK step \in Steps, status \in {"ok", "refused", "error", "fault"} :
            step = "answer" /\ status = "ok"
      BY DEF Steps
    <3>4. Stepped(r, step)
      BY <1>1, <3>2, <3>3, StepEffect
    <3> QED
      BY <1>3, <2>1, <3>3, <3>4 DEF InCallback
  <2>3. CASE req[r].user \notin users
    <3>1. PICK step \in Steps, status \in {"ok", "refused", "error", "fault"}, change \in Changes :
            step = "answer" /\ status = "refused" /\ change = "keep"
      BY DEF Steps, Changes
    <3>2. Stepped(r, step)
      BY <1>1, <1>4, <2>3, <3>1, StepEffect DEF Login, Respond
    <3> QED
      BY <1>3, <2>1, <3>1, <3>2 DEF InCallback
  <2> QED
    BY <2>2, <2>3
<1>5. CASE RevokeAll(r)
  <2>1. PICK step \in Steps, status \in {"ok", "refused", "error", "fault"}, change \in Changes :
          step = "answer" /\ status = "ok" /\ change = "clear"
    BY DEF Steps, Changes
  <2>2. Stepped(r, step)
    BY <1>1, <1>5, <2>1, StepEffect DEF RevokeAll, Respond
  <2> QED
    BY <1>3, <1>5, <2>1, <2>2 DEF InCallback, RevokeAll, At
<1>6. CASE View(r)
  <2>1. PICK step \in Steps : step = "answer" /\ Stepped(r, step)
    BY <1>1, <1>6, ViewEffect DEF Steps
  <2> QED
    BY <1>3, <1>6, <2>1 DEF InCallback, View, At
<1>7. CASE VerifyIdToken(r) \/ UserInfo(r) \/ FindLink(r) \/ StatementFails(r)
  <2>1. PICK step \in {"info", "find", "create", "answer"}, status \in {"ok", "refused", "error", "fault"},
             change \in Changes :
          Step(r, step, status, change) /\ (req[r].pc = "handle" => step = "answer")
    BY <1>7 DEF VerifyIdToken, UserInfo, FindLink, StatementFails, Respond, Changes
  <2>2. Stepped(r, step) /\ step \in Steps \ {"handle"}
    BY <1>1, <2>1, StepEffect DEF Steps
  <2>3. req[r].pc \in InCallback \cup {"handle"} /\ UNCHANGED <<users, links, flow>> /\ Same
    BY <1>7 DEF VerifyIdToken, UserInfo, FindLink, StatementFails, InCallback
  <2> QED
    BY <1>3, <2>1, <2>2, <2>3 DEF InCallback
<1>8. CASE Unlink(r) \/ Delete(r)
  <2>1. PICK step \in Steps, status \in {"ok", "refused", "error", "fault"}, change \in Changes :
          step = "answer" /\ Step(r, step, status, change)
    BY <1>8 DEF Unlink, Delete, Respond, Steps, Changes
  <2>2. Stepped(r, step)
    BY <1>1, <2>1, StepEffect
  <2>3. req[r].pc = "handle" /\ UNCHANGED flow /\ Same
    BY <1>8 DEF Unlink, Delete, At
  <2>4. /\ users' \subseteq Accounts /\ DOMAIN links' \subseteq LinkIds
        /\ \A i \in DOMAIN links' : links'[i] \in Identity /\ links'[i].user \in users'
    <3>1. CASE Unlink(r)
      BY <1>1, <3>1 DEF Unlink, Without, TypeOK
    <3>2. CASE Delete(r)
      BY <1>1, <3>2 DEF Delete, Without, LinksOf, TypeOK
    <3> QED
      BY <1>8, <3>1, <3>2
  <2> QED
    BY <1>1, <1>2, <2>1, <2>2, <2>3, <2>4 DEF InCallback, Same, TypeOK
<1>9. CASE CreateLink(r)
  <2>1. PICK step \in Steps, status \in {"ok", "refused", "error", "fault"}, change \in Changes :
          step = "answer" /\ Step(r, step, status, change)
    BY <1>9 DEF CreateLink, Respond, Steps, Changes
  <2>2. Stepped(r, step)
    BY <1>1, <2>1, StepEffect
  <2>3. req[r].pc = "create" /\ UNCHANGED <<users, flow>> /\ Same
    BY <1>9 DEF CreateLink
  <2>4. Proved(r) \in Identity /\ Proved(r).user = Owner(r)
    <3>1. req[r].target \in DOMAIN flow /\ flow[req[r].target].code = "used"
      BY <2>3 DEF TypeInv, Handlers, InCallback
    <3>2. flow[req[r].target] \in Flow /\ flow[req[r].target].person \in People
      BY <1>1, <3>1 DEF TypeInv, TypeOK, Flows
    <3> QED
      BY <3>2 DEF Proved, Owner, Identity, Flow
  <2>5. /\ DOMAIN links' \subseteq LinkIds
        /\ \A i \in DOMAIN links' : links'[i] \in Identity /\ links'[i].user \in users'
    BY <1>1, <1>9, <2>3, <2>4 DEF CreateLink, Accepts, LinkIds, TypeOK
  <2> QED
    BY <1>1, <1>2, <2>1, <2>2, <2>3, <2>5 DEF InCallback, Same, TypeOK
<1>10. CASE Answer(r)
  <2>1. PICK step \in Steps : step = "done" /\ Stepped(r, step)
    BY <1>10, AnswerEffect DEF Steps
  <2>2. /\ cookie' \in [Browsers -> Accounts \cup {None}]
        /\ listed' \in [Browsers -> SUBSET LinkIds]
    BY <1>10, AnswerEffect
  <2>3. /\ req[r].pc = "answer"
        /\ UNCHANGED <<users, links, pkce, flow, prior, lapsed, reloaded, reloads>>
    BY <1>10 DEF Answer
  <2> QED
    BY <1>1, <1>2, <2>1, <2>2, <2>3 DEF InCallback, TypeOK
<1> QED
  BY <1>4, <1>5, <1>6, <1>7, <1>8, <1>9, <1>10 DEF Runs

\* A request that arrives does not run yet, unless it brings a code.
LEMMA ArrivesTypeInv ==
  ASSUME TypeInv, NEW r \in Requests, NEW b \in Browsers, Arrives(r, b)
  PROVE  TypeInv'
<1>1. TypeOK /\ cookie[b] \in Accounts \cup {None} /\ DOMAIN flow \subseteq Requests
  BY DEF TypeInv, TypeOK
<1>2. ASSUME NEW op, NEW u, NEW x, NEW step \in {"handle", "answer"},
             Arrived(r, op, b, u, x, step),
             step = "handle" => op \in {"login", "view", "revokeAll", "unlink", "delete"},
             \/ UNCHANGED flow
             \/ /\ DOMAIN flow' = DOMAIN flow \cup {r}
                /\ \A f \in DOMAIN flow : f # r => flow'[f] = flow[f]
                /\ flow'[r] \in Flow /\ flow'[r].code = "none" /\ flow'[r].user = u
      PROVE  TypeInv'
  <2>1. PICK y \in Req : /\ OneReq(r, y)
                         /\ y.pc = step /\ y.op = op /\ y.browser = b /\ y.user = u
    BY <1>2 DEF Arrived
  <2>2. req[r].pc = "idle" /\ r \notin DOMAIN flow
    BY <1>2 DEF Arrived, TypeInv, Flows
  <2>3. \A f \in DOMAIN flow : f \in DOMAIN flow' /\ flow'[f] = flow[f]
    BY <1>2, <2>2
  <2>4. DOMAIN flow' \subseteq Requests /\ \A f \in DOMAIN flow' : flow'[f] \in Flow
    BY <1>1, <1>2 DEF TypeOK
  <2>5. Handlers'
    BY <1>2, <2>1, <2>3 DEF TypeInv, Handlers, OneReq, InCallback
  <2>6. Flows'
    BY <1>1, <1>2, <2>1, <2>2, <2>3 DEF TypeInv, Flows, OneReq
  <2> QED
    BY <1>1, <1>2, <2>1, <2>4, <2>5, <2>6 DEF Arrived, OneReq, TypeInv, TypeOK
<1>3. ASSUME NEW u \in Accounts, Arrive(r, "login", b, u, None, "handle", "ok", "keep"),
             UNCHANGED flow
      PROVE  TypeInv'
  <2>1. PICK op \in Ops, x \in Targets, step \in Steps, status \in {"ok", "refused", "error", "fault"},
             change \in Changes :
          op = "login" /\ x = None /\ step = "handle" /\ status = "ok" /\ change = "keep"
    BY DEF Ops, Targets, Steps, Changes
  <2>2. Arrived(r, op, b, u, x, step)
    BY <1>1, <1>3, <2>1, ArriveEffect
  <2> QED
    BY <1>2, <1>3, <2>1, <2>2
<1>4. CASE Logout(r, b)
  <2>1. PICK op \in Ops, x \in Targets, step \in Steps, status \in {"ok", "refused", "error", "fault"},
             change \in Changes, u \in Accounts \cup {None} :
          /\ op = "logout" /\ x = None /\ step = "answer" /\ status = "ok"
          /\ change = "clear" /\ u = None
    BY DEF Ops, Targets, Steps, Changes
  <2>2. Arrive(r, op, b, u, x, step, status, change) /\ UNCHANGED flow
    BY <1>4, <2>1 DEF Logout
  <2>3. Arrived(r, op, b, u, x, step)
    BY <1>1, <2>2, ArriveEffect
  <2> QED
    BY <1>2, <2>1, <2>2, <2>3
<1>5. ASSUME NEW op \in {"view", "revokeAll", "unlink", "delete"}, NEW x \in Targets,
             Signed(r, op, b, x)
      PROVE  TypeInv'
  <2>1. PICK step \in Steps, status \in {"ok", "refused", "error", "fault"},
             change \in Changes, u \in Accounts \cup {None} :
          step = "handle" /\ status = "ok" /\ change = "keep" /\ u = cookie[b]
    BY <1>1 DEF Steps, Changes
  <2>2. Arrive(r, op, b, u, x, step, status, change) /\ UNCHANGED flow
    BY <1>5, <2>1 DEF Signed
  <2>3. Arrived(r, op, b, u, x, step)
    BY <1>1, <2>2, ArriveEffect DEF Ops
  <2> QED
    BY <1>2, <2>1, <2>2, <2>3
<1>6. ASSUME NEW p \in Providers, Link(r, b, p) PROVE TypeInv'
  <2>1. PICK op \in Ops, x \in Targets, step \in Steps, change \in Changes,
             u \in Accounts \cup {None} :
          op = "link" /\ x = p /\ step = "answer" /\ change = "keep" /\ u = cookie[b]
    BY <1>1 DEF Ops, Targets, Steps, Changes
  <2>2. PICK status \in {"ok", "refused", "error", "fault"} : Arrive(r, op, b, u, x, step, status, change)
    BY <1>6, <2>1 DEF Link
  <2>3. Arrived(r, op, b, u, x, step)
    BY <1>1, <2>2, ArriveEffect
  <2>4. \/ UNCHANGED flow
        \/ /\ DOMAIN flow' = DOMAIN flow \cup {r}
           /\ \A f \in DOMAIN flow : f # r => flow'[f] = flow[f]
           /\ flow'[r] \in Flow /\ flow'[r].code = "none" /\ flow'[r].user = u
    <3>1. CASE flow' = [f \in DOMAIN flow \cup {r} |->
                 IF f = r THEN [user |-> cookie[b], provider |-> p, person |-> None,
                                verifier |-> VerifierFor(pkce[p]), code |-> "none"]
                          ELSE flow[f]]
      <4>1. cookie[b] \in Accounts /\ VerifierFor(pkce[p]) \in BOOLEAN
        BY <1>1, <1>6 DEF Link, SignedIn, VerifierFor
      <4> QED
        BY <2>1, <3>1, <4>1 DEF Flow
    <3> QED
      BY <1>6, <3>1 DEF Link
  <2> QED
    BY <1>2, <2>1, <2>3, <2>4
<1>7. \A i \in listed[b] : i \in Targets
  BY <1>1 DEF TypeOK, Targets
<1> QED
  BY <1>3, <1>4, <1>5, <1>6, <1>7 DEF Arrives, Ops, Targets

LEMMA CallbackTypeInv ==
  ASSUME TypeInv, NEW r \in Requests, NEW f \in DOMAIN flow, Callback(r, f)
  PROVE  TypeInv'
<1>1. TypeOK /\ f \in Requests /\ flow[f] \in Flow /\ req[f].browser \in Browsers
  BY DEF TypeInv, TypeOK, Flows, Handlers
<1>2. PICK b \in Browsers, op \in Ops, u \in Accounts \cup {None}, x \in Targets,
           change \in Changes :
        b = req[f].browser /\ op = "callback" /\ u = None /\ x = f /\ change = "keep"
  BY <1>1 DEF Ops, Targets, LinkIds, Changes
<1>3. PICK step \in Steps, status \in {"ok", "refused", "error", "fault"} :
        /\ Arrive(r, op, b, u, x, step, status, change)
        /\ step \in {"answer", "verify"}
        /\ \/ step = "answer" /\ UNCHANGED flow
           \/ flow[f].code = "issued" /\ flow' = [flow EXCEPT ![f].code = "used"]
  BY <1>2 DEF Callback, Exchanges, Steps
<1>4. PICK y \in Req :
        /\ OneReq(r, y)
        /\ y.pc = step /\ y.op = op /\ y.browser = b /\ y.user = u /\ y.target = x
  BY <1>1, <1>3, ArriveEffect DEF Arrived
<1>5. /\ req[r].pc = "idle" /\ prior' \in [Requests -> SUBSET Requests]
      /\ UNCHANGED <<users, links, pkce, cookie, listed, lapsed, reloaded, reloads>>
  BY <1>1, <1>3, ArriveEffect DEF Arrived
<1>6. /\ DOMAIN flow' = DOMAIN flow
      /\ \A g \in DOMAIN flow \ {f} : flow'[g] = flow[g]
      /\ flow'[f] \in Flow /\ flow'[f].user = flow[f].user /\ flow'[f].person = flow[f].person
      /\ flow'[f].code = "used" \/ (flow'[f].code = flow[f].code /\ step = "answer")
      /\ flow[f].code = "used" => flow'[f].code = "used"
      /\ flow'[f].code = "used" => flow[f].code \in {"issued", "used"}
  <2>1. CASE step = "answer" /\ UNCHANGED flow
    BY <1>1, <2>1
  <2>2. CASE flow[f].code = "issued" /\ flow' = [flow EXCEPT ![f].code = "used"]
    <3>1. flow'[f] = [flow[f] EXCEPT !.code = "used"]
      BY <2>2
    <3>2. /\ flow'[f] \in Flow /\ flow'[f].user = flow[f].user
          /\ flow'[f].person = flow[f].person /\ flow'[f].code = "used"
      BY <1>1, <3>1 DEF Flow
    <3> QED
      BY <2>2, <3>2
  <2> QED
    BY <1>3, <2>1, <2>2
<1>7. Handlers'
  <2>1. \A z \in Requests \ {r} : req'[z] = req[z]
    BY <1>4 DEF OneReq
  <2>2. \A g \in DOMAIN flow : flow[g].code = "used" => flow'[g].code = "used"
    BY <1>6
  <2> QED
    BY <1>2, <1>3, <1>4, <1>6, <2>1, <2>2 DEF TypeInv, Handlers, OneReq, InCallback, Steps
<1>8. Flows'
  <2>1. r \notin DOMAIN flow /\ DOMAIN flow \subseteq Requests
    BY <1>1, <1>5 DEF TypeInv, Flows, TypeOK
  <2>2. \A g \in DOMAIN flow : req'[g] = req[g]
    BY <1>4, <2>1 DEF OneReq
  <2>3. \A g \in DOMAIN flow : /\ flow'[g].user = flow[g].user /\ flow'[g].person = flow[g].person
                              /\ flow'[g].code \in {"issued", "used"} =>
                                   flow[g].code \in {"issued", "used"}
    BY <1>6
  <2> QED
    BY <1>6, <2>2, <2>3 DEF TypeInv, Flows
<1> QED
  BY <1>1, <1>4, <1>5, <1>6, <1>7, <1>8 DEF OneReq, TypeInv, TypeOK

LEMMA AtProviderTypeInv ==
  ASSUME TypeInv, NEW f \in DOMAIN flow, NEW x \in People \cup {None}, AtProvider(f, x)
  PROVE  TypeInv'
<1>1. TypeOK /\ flow[f] \in Flow /\ flow[f].code = "none"
  BY DEF TypeInv, TypeOK, AtProvider
<1>2. flow'[f] = [flow[f] EXCEPT !.person = x, !.code = IF x = None THEN "denied" ELSE "issued"]
  BY <1>1 DEF AtProvider, Flow
<1>3. /\ flow'[f] \in Flow /\ flow'[f].user = flow[f].user /\ flow'[f].person = x
      /\ flow'[f].code = IF x = None THEN "denied" ELSE "issued"
  BY <1>1, <1>2 DEF Flow
<1>4. DOMAIN flow' = DOMAIN flow /\ \A g \in DOMAIN flow \ {f} : flow'[g] = flow[g]
  BY DEF AtProvider
<1>5. UNCHANGED <<users, links, req>> /\ Same
  BY DEF AtProvider
<1>6. Handlers'
  BY <1>1, <1>4, <1>5 DEF TypeInv, Handlers
<1>7. Flows'
  BY <1>3, <1>4, <1>5 DEF TypeInv, Flows
<1> QED
  BY <1>1, <1>3, <1>4, <1>5, <1>6, <1>7 DEF TypeInv, TypeOK, Same

LEMMA NextTypeInv == TypeInv /\ [Next]_vars => TypeInv'
<1>1. ASSUME TypeInv, NEW p \in Providers, NEW m \in Modes, Reload(p, m) PROVE TypeInv'
  <2>1. /\ pkce' \in [Providers -> Modes] /\ reloaded' \subseteq Requests
        /\ reloads' \in 0..MaxReloads
    BY <1>1, MaxReloadsAssumption DEF Reload, TypeInv, TypeOK
  <2> QED
    BY <1>1, <2>1 DEF Reload, TypeInv, TypeOK, Handlers, Flows
<1>2. ASSUME TypeInv, NEW b \in Browsers, CookieExpires(b) PROVE TypeInv'
  <2>1. cookie' \in [Browsers -> Accounts \cup {None}] /\ lapsed' \subseteq Requests
    BY <1>2 DEF CookieExpires, Done, TypeInv, TypeOK
  <2> QED
    BY <1>2, <2>1 DEF CookieExpires, TypeInv, TypeOK, Handlers, Flows
<1>4. ASSUME TypeInv, Next PROVE TypeInv'
  BY <1>1, <1>2, <1>4, RunsTypeInv, ArrivesTypeInv, CallbackTypeInv, AtProviderTypeInv DEF Next
<1>3. TypeInv /\ UNCHANGED vars => TypeInv'
  BY DEF TypeInv, TypeOK, Handlers, Flows, vars
<1> QED
  BY <1>3, <1>4

\* Rows, cookies, requests and states stay in their types, and a linked identity has
\* an account (schema.prisma: the foreign key of LinkedIdentity).
THEOREM TypeCorrect == Spec => []TypeOK
<1>1. TypeInv => TypeOK
  BY DEF TypeInv
<1> QED
  BY <1>1, InitTypeInv, NextTypeInv, PTL DEF Spec

------------------------------------------------------------------------------
(* Whose link a request makes or removes.                                  *)

Follows ==
  /\ \A i \in DOMAIN links' \ DOMAIN links :
       /\ req[i].op = "callback"
       /\ links'[i].user = req[req[i].target].user
  /\ \A i \in DOMAIN links \ DOMAIN links' :
       \E r \in Requests : /\ req[r].pc = "handle" /\ req'[r].pc = "answer"
                           /\ req[r].op \in {"unlink", "delete"}
                           /\ req[r].user = links[i].user

LEMMA RunsFollows ==
  ASSUME TypeInv, NEW r \in Requests, Runs(r)
  PROVE  Follows
<1>1. TypeOK /\ req[r] \in Req
  BY DEF TypeInv, TypeOK
<1>2. CASE links' = links
  BY <1>2 DEF Follows
<1>3. CASE Unlink(r) \/ Delete(r)
  <2>1. req[r].pc = "handle" /\ req[r].op \in {"unlink", "delete"}
    BY <1>3 DEF Unlink, Delete, At
  <2>2. req'[r].pc = "answer"
    <3>1. PICK step \in Steps, status \in {"ok", "refused", "error", "fault"}, change \in Changes :
            step = "answer" /\ Step(r, step, status, change)
      BY <1>3 DEF Unlink, Delete, Respond, Steps, Changes
    <3> QED
      BY <1>1, <3>1, StepEffect DEF Stepped, OneReq
  <2>3. \A i \in DOMAIN links \ DOMAIN links' : links[i].user = req[r].user
    BY <1>3 DEF Unlink, Delete, Without, LinksOf
  <2>4. DOMAIN links' \subseteq DOMAIN links
    BY <1>3 DEF Unlink, Delete, Without
  <2> QED
    BY <2>1, <2>2, <2>3, <2>4 DEF Follows
<1>4. CASE CreateLink(r)
  <2>1. req[r].op = "callback" /\ req[r].target \in DOMAIN flow
    BY <1>4 DEF CreateLink, TypeInv, Handlers, InCallback
  <2>2. Proved(r).user = req[req[r].target].user
    BY <2>1 DEF Proved, Owner, TypeInv, Flows
  <2>3. \/ links' = links
        \/ links' = [i \in DOMAIN links \cup {r} |-> IF i = r THEN Proved(r) ELSE links[i]]
    BY <1>4 DEF CreateLink
  <2> QED
    BY <2>1, <2>2, <2>3 DEF Follows
<1> QED
  BY <1>2, <1>3, <1>4
     DEF Runs, Login, RevokeAll, View, VerifyIdToken, UserInfo, FindLink, StatementFails, Answer

\* A link is made for the account that was signed in where the linking began, and
\* goes only in a request of its own account, whatever the browser holds by then
\* (router.ts:160-183, 222).
THEOREM LinksFollow == Spec => LinksFollowTheirAccount
<1>1. TypeInv /\ [Next]_vars => [Follows]_vars
  <2> SUFFICES ASSUME TypeInv, Next PROVE Follows
    OBVIOUS
  <2>1. ASSUME links' = links PROVE Follows
    BY <2>1 DEF Follows
  <2>2. ASSUME NEW r \in Requests, NEW b \in Browsers, Arrives(r, b) PROVE links' = links
    BY <2>2 DEF Arrives, Arrive, Logout, Signed, Link
  <2>3. ASSUME NEW f \in DOMAIN flow, NEW x, AtProvider(f, x) PROVE links' = links
    BY <2>3 DEF AtProvider
  <2>4. ASSUME NEW f \in DOMAIN flow, NEW r \in Requests, Callback(r, f) PROVE links' = links
    BY <2>4 DEF Callback, Arrive
  <2>5. ASSUME NEW p, NEW m, Reload(p, m) PROVE links' = links
    BY <2>5 DEF Reload
  <2>6. ASSUME NEW b, CookieExpires(b) PROVE links' = links
    BY <2>6 DEF CookieExpires
  <2> QED
    BY <2>1, <2>2, <2>3, <2>4, <2>5, <2>6, RunsFollows DEF Next
<1> QED
  BY <1>1, InitTypeInv, NextTypeInv, PTL DEF Spec, LinksFollowTheirAccount, Follows

------------------------------------------------------------------------------
(* What a step does to the requests, for the two invariants below.          *)

\* What an answer does to the cookie, by what the request was for: y is its
\* request, U the accounts there are.
AnswerOf(y, U) ==
  /\ y.op \in Ops
  /\ y.op = "login" => \/ y.status = "ok" /\ y.cookie = y.user /\ y.user \in Accounts
                       \/ y.status \in {"refused", "fault"} /\ y.cookie = "keep"
  /\ y.op = "logout" => y.status = "ok" /\ y.cookie = "clear"
  /\ y.op = "revokeAll" => \/ y.status = "ok" /\ y.cookie = "clear"
                           \/ y.status = "fault" /\ y.cookie = "keep"
  /\ y.op = "delete" => \/ y.status = "ok" /\ y.cookie = "clear"
                        \/ y.status \in {"error", "fault"} /\ y.cookie = "keep"
  /\ y.op = "view" => y.cookie = "keep" \/ (y.cookie = "clear" /\ y.user \notin U)
  /\ y.op \in {"unlink", "link", "callback"} => y.cookie = "keep"

Others(r) == \A x \in Requests \ {r} : req'[x] = req[x]

\* Request r goes on, to its answer or to where the browser has it.
Went(r) ==
  /\ req[r].pc \notin {"idle", "done"} /\ req'[r].pc # "idle" /\ Others(r)
  /\ req'[r].op = req[r].op /\ req'[r].browser = req[r].browser
  /\ req'[r].user = req[r].user /\ req'[r].target = req[r].target
  /\ users' \subseteq users /\ UNCHANGED <<flow, pkce, prior, lapsed, reloaded>>
  /\ \/ /\ req[r].pc # "answer" /\ req'[r].pc # "done" /\ cookie' = cookie
        /\ req'[r].pc = "answer" => AnswerOf(req'[r], users')
     \/ /\ req[r].pc = "answer" /\ req'[r].pc = "done"
        /\ req'[r].status = req[r].status /\ req'[r].cookie = req[r].cookie
        /\ cookie' = [cookie EXCEPT ![req[r].browser] = CookieAfter(r, @)]

\* Request r arrives.
Came(r) ==
  /\ req[r].pc = "idle" /\ req'[r].pc \notin {"idle", "done"} /\ Others(r)
  /\ prior' = [prior EXCEPT ![r] = Done]
  /\ UNCHANGED <<users, links, pkce, cookie, lapsed, reloaded>>
  /\ req'[r].pc = "answer" => AnswerOf(req'[r], users')

LEMMA StepSets ==
  ASSUME TypeOK, NEW r \in Requests, NEW step, NEW status, NEW change,
         Step(r, step, status, change)
  PROVE  /\ Others(r)
         /\ req'[r].pc = step /\ req'[r].status = status /\ req'[r].cookie = change
         /\ req'[r].op = req[r].op /\ req'[r].browser = req[r].browser
         /\ req'[r].user = req[r].user /\ req'[r].target = req[r].target
<1>1. req[r] \in Req /\ req \in [Requests -> Req]
  BY DEF TypeOK
<1>2. req'[r] = [req[r] EXCEPT !.pc = step, !.status = status, !.cookie = change] /\ Others(r)
  BY <1>1 DEF Step, Others
<1> QED
  BY <1>1, <1>2 DEF Req

LEMMA ArriveSets ==
  ASSUME TypeOK, NEW r \in Requests, NEW op, NEW b, NEW u, NEW x, NEW step, NEW status, NEW change,
         Arrive(r, op, b, u, x, step, status, change)
  PROVE  /\ req[r].pc = "idle" /\ Others(r) /\ prior' = [prior EXCEPT ![r] = Done]
         /\ UNCHANGED <<users, links, pkce, cookie, lapsed, reloaded>>
         /\ req'[r].pc = step /\ req'[r].status = status /\ req'[r].cookie = change
         /\ req'[r].op = op /\ req'[r].browser = b /\ req'[r].user = u /\ req'[r].target = x
<1>1. req \in [Requests -> Req]
  BY DEF TypeOK
<1>2. req'[r] = [pc |-> step, op |-> op, browser |-> b, user |-> u, target |-> x, ids |-> {},
                 status |-> status, cookie |-> change] /\ Others(r)
  BY <1>1 DEF Arrive, Others
<1> QED
  BY <1>2 DEF Arrive

LEMMA RunsWent ==
  ASSUME TypeInv, NEW r \in Requests, Runs(r)
  PROVE  Went(r)
<1>1. TypeOK /\ req[r] \in Req /\ users \subseteq Accounts
  BY DEF TypeInv, TypeOK
<1>2. ASSUME NEW step \in {"info", "find", "create", "answer"}, NEW status, NEW change,
             Step(r, step, status, change), req[r].pc \notin {"idle", "answer", "done"},
             users' \subseteq users, UNCHANGED flow, Same,
             step = "answer" => AnswerOf(req'[r], users')
      PROVE  Went(r)
  <2>1. /\ Others(r)
        /\ req'[r].pc = step
        /\ req'[r].op = req[r].op /\ req'[r].browser = req[r].browser
        /\ req'[r].user = req[r].user /\ req'[r].target = req[r].target
    BY <1>1, <1>2, StepSets
  <2> QED
    BY <1>2, <2>1 DEF Went, Same
<1>3. ASSUME NEW op \in {"login", "revokeAll", "unlink", "delete"}, NEW status, NEW change,
             At(r, op), Respond(r, status, change), users' \subseteq users, UNCHANGED flow, Same,
             op = "login" => \/ status = "ok" /\ change = req[r].user /\ req[r].user \in Accounts
                             \/ status = "refused" /\ change = "keep",
             op = "revokeAll" => status = "ok" /\ change = "clear",
             op = "unlink" => change = "keep",
             op = "delete" => \/ status = "ok" /\ change = "clear"
                              \/ status = "error" /\ change = "keep"
      PROVE  Went(r)
  <2>1. Step(r, "answer", status, change)
    BY <1>3 DEF Respond
  <2>2. /\ req'[r].status = status /\ req'[r].cookie = change
        /\ req'[r].op = op /\ req'[r].user = req[r].user
    BY <1>1, <1>3, <2>1, StepSets DEF At
  <2>3. AnswerOf(req'[r], users')
    BY <1>3, <2>2 DEF AnswerOf, Ops
  <2> QED
    BY <1>2, <1>3, <2>1, <2>3 DEF At
<1>4. CASE Login(r)
  <2>1. CASE req[r].user \in users
    <3>1. Respond(r, "ok", req[r].user) /\ req[r].user \in Accounts
      BY <1>1, <1>4, <2>1 DEF Login
    <3> QED
      BY <1>3, <1>4, <3>1 DEF Login
  <2>2. CASE req[r].user \notin users
    BY <1>3, <1>4, <2>2 DEF Login
  <2> QED
    BY <2>1, <2>2
<1>5. CASE RevokeAll(r)
  BY <1>3, <1>5 DEF RevokeAll
<1>6. CASE Unlink(r)
  BY <1>3, <1>6 DEF Unlink
<1>7. CASE Delete(r)
  <2>1. CASE req[r].user \in users
    BY <1>3, <1>7, <2>1 DEF Delete
  <2>2. CASE req[r].user \notin users
    BY <1>3, <1>7, <2>2 DEF Delete
  <2> QED
    BY <2>1, <2>2
<1>8. CASE View(r)
  <2>1. req'[r] = [req[r] EXCEPT !.pc = "answer", !.ids = LinksOf(req[r].user),
                                 !.cookie = IF req[r].user \in users THEN "keep" ELSE "clear"]
    BY <1>1, <1>8 DEF View, TypeOK
  <2>2. /\ req'[r].pc = "answer" /\ req'[r].op = req[r].op /\ req'[r].browser = req[r].browser
        /\ req'[r].user = req[r].user /\ req'[r].target = req[r].target
        /\ req'[r].cookie = IF req[r].user \in users THEN "keep" ELSE "clear"
    BY <1>1, <2>1 DEF Req
  <2>3. /\ Others(r) /\ users' = users /\ UNCHANGED flow /\ Same /\ req[r].pc = "handle"
        /\ req[r].op = "view"
    BY <1>1, <1>8 DEF View, At, Others, TypeOK
  <2>4. AnswerOf(req'[r], users')
    BY <2>2, <2>3 DEF AnswerOf, Ops
  <2> QED
    BY <2>2, <2>3, <2>4 DEF Went, Same
<1>9. CASE VerifyIdToken(r) \/ UserInfo(r) \/ FindLink(r) \/ CreateLink(r)
  <2>1. PICK step \in {"info", "find", "create", "answer"}, status \in {"ok", "refused", "error", "fault"} :
          Step(r, step, status, "keep")
    BY <1>9 DEF VerifyIdToken, UserInfo, FindLink, CreateLink, Respond
  <2>2. req[r].pc \in InCallback /\ users' = users /\ UNCHANGED flow /\ Same
    BY <1>9 DEF VerifyIdToken, UserInfo, FindLink, CreateLink, InCallback
  <2>3. req[r].op = "callback"
    BY <2>2 DEF TypeInv, Handlers
  <2>4. req'[r].op = "callback" /\ req'[r].cookie = "keep"
    BY <1>1, <2>1, <2>3, StepSets
  <2>5. AnswerOf(req'[r], users')
    BY <2>4 DEF AnswerOf, Ops
  <2> QED
    BY <1>2, <2>1, <2>2, <2>5 DEF InCallback
<1>11. CASE StatementFails(r)
  <2>1. Step(r, "answer", "fault", "keep") /\ UNCHANGED flow /\ Same /\ users' = users
    BY <1>11 DEF StatementFails, Respond
  <2>2. /\ req'[r].op = req[r].op /\ req'[r].status = "fault" /\ req'[r].cookie = "keep"
    BY <1>1, <2>1, StepSets
  <2>3. req[r].pc \in {"handle", "find", "create"}
    BY <1>11 DEF StatementFails
  <2>4. CASE req[r].op \in {"login", "view", "revokeAll", "unlink", "delete", "callback"}
    <3>1. AnswerOf(req'[r], users')
      BY <2>2, <2>4 DEF AnswerOf, Ops
    <3> QED
      BY <1>2, <2>1, <2>3, <3>1
  <2>5. req[r].op \in {"login", "view", "revokeAll", "unlink", "delete", "callback"}
    BY <2>3 DEF TypeInv, Handlers, InCallback
  <2> QED
    BY <2>4, <2>5
<1>10. CASE Answer(r)
  <2>1. req'[r] = [req[r] EXCEPT !.pc = "done", !.ids = {}] /\ Others(r)
    BY <1>1, <1>10 DEF Answer, Others, TypeOK, Req
  <2>2. /\ req'[r].pc = "done" /\ req'[r].op = req[r].op /\ req'[r].browser = req[r].browser
        /\ req'[r].user = req[r].user /\ req'[r].target = req[r].target
        /\ req'[r].cookie = req[r].cookie /\ req'[r].status = req[r].status
    BY <1>1, <2>1 DEF Req
  <2> QED
    BY <1>10, <2>1, <2>2 DEF Answer, Went
<1> QED
  BY <1>4, <1>5, <1>6, <1>7, <1>8, <1>9, <1>10, <1>11 DEF Runs

LEMMA ArrivesCame ==
  ASSUME TypeInv, NEW r \in Requests, NEW b \in Browsers, Arrives(r, b)
  PROVE  Came(r)
<1>1. TypeOK
  BY DEF TypeInv
<1>2. ASSUME NEW op, NEW u, NEW x, NEW step \in {"handle", "answer"}, NEW status, NEW change,
             Arrive(r, op, b, u, x, step, status, change),
             step = "answer" => \/ op = "logout" /\ status = "ok" /\ change = "clear"
                                \/ op = "link" /\ change = "keep"
      PROVE  Came(r)
  <2>1. /\ req[r].pc = "idle" /\ Others(r) /\ prior' = [prior EXCEPT ![r] = Done]
        /\ UNCHANGED <<users, links, pkce, cookie, lapsed, reloaded>>
        /\ req'[r].pc = step /\ req'[r].status = status /\ req'[r].cookie = change
        /\ req'[r].op = op
    BY <1>1, <1>2, ArriveSets
  <2>2. req'[r].pc = "answer" => AnswerOf(req'[r], users')
    BY <1>2, <2>1 DEF AnswerOf, Ops
  <2> QED
    BY <2>1, <2>2 DEF Came
<1>3. CASE Logout(r, b)
  BY <1>2, <1>3 DEF Logout
<1>4. ASSUME NEW op, NEW x, Signed(r, op, b, x) PROVE Came(r)
  BY <1>2, <1>4 DEF Signed
<1>5. ASSUME NEW p \in Providers, Link(r, b, p) PROVE Came(r)
  BY <1>2, <1>5 DEF Link
<1>6. ASSUME NEW u, Arrive(r, "login", b, u, None, "handle", "ok", "keep") PROVE Came(r)
  BY <1>2, <1>6
<1> QED
  BY <1>3, <1>4, <1>5, <1>6 DEF Arrives

LEMMA CallbackCame ==
  ASSUME TypeInv, NEW r \in Requests, NEW f \in DOMAIN flow, Callback(r, f)
  PROVE  Came(r) /\ req'[r].op = "callback" /\ req'[r].target = f
<1>1. PICK step \in {"answer", "verify"}, status \in {"ok", "refused", "error", "fault"} :
        Arrive(r, "callback", req[f].browser, None, f, step, status, "keep")
  BY DEF Callback
<1>2. TypeOK
  BY DEF TypeInv
<1>3. /\ req[r].pc = "idle" /\ Others(r) /\ prior' = [prior EXCEPT ![r] = Done]
      /\ UNCHANGED <<users, links, pkce, cookie, lapsed, reloaded>>
      /\ req'[r].pc = step /\ req'[r].cookie = "keep" /\ req'[r].op = "callback"
      /\ req'[r].target = f
  BY <1>1, <1>2, ArriveSets
<1>4. AnswerOf(req'[r], users')
  BY <1>3 DEF AnswerOf, Ops
<1> QED
  BY <1>3, <1>4 DEF Came

LEMMA NextMoves ==
  ASSUME TypeInv, [Next]_vars
  PROVE  \/ \E r \in Requests : Went(r) \/ Came(r)
         \/ \E b \in Browsers : CookieExpires(b)
         \/ UNCHANGED <<users, cookie, req, prior, lapsed>>
<1>1. ASSUME NEW f, NEW x, AtProvider(f, x) PROVE UNCHANGED <<users, cookie, req, prior, lapsed>>
  BY <1>1 DEF AtProvider, Same
<1>2. ASSUME NEW p, NEW m, Reload(p, m) PROVE UNCHANGED <<users, cookie, req, prior, lapsed>>
  BY <1>2 DEF Reload
<1>3. CASE UNCHANGED vars
  BY <1>3 DEF vars
<1> QED
  BY <1>1, <1>2, <1>3, RunsWent, ArrivesCame, CallbackCame DEF Next

\* What is left of it where cookies do not matter.
LEMMA RequestMoves ==
  ASSUME TypeInv, [Next]_vars
  PROVE  \/ \E r \in Requests : Went(r) \/ Came(r)
         \/ UNCHANGED <<users, req, prior>>
BY NextMoves DEF CookieExpires

\* A request that was answered before another arrived stays answered.
PriorDone == \A r \in Requests : \A x \in prior[r] : x \in Requests /\ req[x].pc = "done"

\* What the answer of a request does to the cookie is what the request was for.
AnswersFit ==
  \A r \in Requests : req[r].pc \in {"answer", "done"} => AnswerOf(req[r], users)

CookieInv == PriorDone /\ AnswersFit /\ CookieFollowsTheUser

LEMMA InitCookieInv == Init => CookieInv
BY DEF Init, CookieInv, PriorDone, AnswersFit, CookieFollowsTheUser

LEMMA PriorDoneKept ==
  ASSUME TypeInv, PriorDone, [Next]_vars
  PROVE  PriorDone'
<1>1. prior \in [Requests -> SUBSET Requests]
  BY DEF TypeInv, TypeOK
<1>2. ASSUME NEW r \in Requests, Went(r) PROVE PriorDone'
  BY <1>2 DEF Went, Others, PriorDone
<1>3. ASSUME NEW r \in Requests, Came(r) PROVE PriorDone'
  BY <1>1, <1>3 DEF Came, Others, PriorDone, Done
<1>4. CASE UNCHANGED <<users, req, prior>>
  BY <1>4 DEF PriorDone
<1> QED
  BY <1>2, <1>3, <1>4, RequestMoves

LEMMA AnswersFitKept ==
  ASSUME TypeInv, AnswersFit, [Next]_vars
  PROVE  AnswersFit'
<1>1. ASSUME NEW y, AnswerOf(y, users), users' \subseteq users PROVE AnswerOf(y, users')
  BY <1>1 DEF AnswerOf
<1>2. ASSUME NEW r \in Requests, Went(r) PROVE AnswersFit'
  <2>1. ASSUME NEW x \in Requests, x # r, req'[x].pc \in {"answer", "done"}
        PROVE  AnswerOf(req'[x], users')
    BY <1>1, <1>2, <2>1 DEF Went, Others, AnswersFit
  <2>2. req'[r].pc \in {"answer", "done"} => AnswerOf(req'[r], users')
    <3>1. CASE req[r].pc = "answer" /\ req'[r].pc = "done"
      <4>1. AnswerOf(req[r], users) /\ users' \subseteq users
        BY <1>2, <3>1 DEF Went, AnswersFit
      <4>2. /\ req'[r].op = req[r].op /\ req'[r].user = req[r].user
            /\ req'[r].status = req[r].status /\ req'[r].cookie = req[r].cookie
        BY <1>2, <3>1 DEF Went
      <4> QED
        BY <4>1, <4>2 DEF AnswerOf
    <3> QED
      BY <1>2, <3>1 DEF Went
  <2> QED
    BY <2>1, <2>2 DEF AnswersFit
<1>3. ASSUME NEW r \in Requests, Came(r) PROVE AnswersFit'
  BY <1>1, <1>3 DEF Came, Others, AnswersFit
<1>4. CASE UNCHANGED <<users, req, prior>>
  BY <1>4 DEF AnswersFit
<1> QED
  BY <1>2, <1>3, <1>4, RequestMoves

\* What CookieFollowsTheUser says of one request.
Later(r) == {x \in Requests \ {r} :
               req[x].browser = req[r].browser /\ req[x].pc = "done" /\ x \notin prior[r]}

CookieOf(r) ==
  req[r].pc = "done" =>
    /\ Leaves(r) /\ cookie[req[r].browser] # None => \E x \in Later(r) : req[x].op = "login"
    /\ req[r].op = "login" /\ req[r].status = "ok" /\ cookie[req[r].browser] # req[r].user =>
         \/ cookie[req[r].browser] = None /\ r \in lapsed
         \/ \E x \in Later(r) : Touches(x)

\* While no answer comes in, the cookie of a browser stays, and so does what was
\* answered.
LEMMA CookieStays ==
  ASSUME NEW r \in Requests, CookieOf(r), req'[r] = req[r] \/ req'[r].pc # "done",
         cookie' = cookie, lapsed' = lapsed, users' \subseteq users,
         req[r].pc = "done" => prior'[r] = prior[r],
         \A x \in Requests : req[x].pc = "done" => req'[x] = req[x]
  PROVE  CookieOf(r)'
<1> SUFFICES ASSUME req'[r].pc = "done" PROVE CookieOf(r)'
  BY DEF CookieOf
<1>1. req'[r] = req[r] /\ prior'[r] = prior[r] /\ req[r].pc = "done"
  OBVIOUS
<1>2. Later(r) \subseteq Later(r)' /\ \A x \in Later(r) : x \in Requests /\ req'[x] = req[x]
  BY <1>1 DEF Later
<1>3. \A x \in Later(r) : Touches(x) => Touches(x)'
  BY <1>2 DEF Touches, Leaves
<1>4. Leaves(r)' = Leaves(r)
  BY <1>1 DEF Leaves
<1> QED
  BY <1>1, <1>2, <1>3, <1>4 DEF CookieOf

\* An answer that comes in after that of r, and sets or clears the cookie, is the
\* later one.
LEMMA CookieAnswered ==
  ASSUME TypeInv, PriorDone, AnswersFit, NEW z \in Requests, Went(z), req'[z].pc = "done",
         NEW r \in Requests, CookieOf(r)
  PROVE  CookieOf(r)'
<1> SUFFICES ASSUME req'[r].pc = "done" PROVE CookieOf(r)'
  BY DEF CookieOf
<1>1. /\ req[z].pc = "answer" /\ Others(z) /\ prior' = prior /\ lapsed' = lapsed
      /\ users' \subseteq users
      /\ req'[z].op = req[z].op /\ req'[z].browser = req[z].browser
      /\ req'[z].user = req[z].user
      /\ req'[z].status = req[z].status /\ req'[z].cookie = req[z].cookie
      /\ cookie' = [cookie EXCEPT ![req[z].browser] = CookieAfter(z, @)]
  BY DEF Went
<1>2. AnswerOf(req[z], users)
  BY <1>1 DEF AnswersFit
<1>3. /\ req[z].browser \in Browsers /\ cookie \in [Browsers -> Accounts \cup {None}]
      /\ users \subseteq Accounts
  BY <1>1 DEF TypeInv, TypeOK, Handlers
<1>4. cookie'[req[z].browser] = CookieAfter(z, cookie[req[z].browser])
  BY <1>1, <1>3
<1>5. CASE r = z
  <2>1. Leaves(z)' => cookie'[req[z].browser] = None
    BY <1>1, <1>2, <1>4 DEF Leaves, AnswerOf, CookieAfter
  <2>2. req'[z].op = "login" /\ req'[z].status = "ok" => cookie'[req[z].browser] = req'[z].user
    <3>1. SUFFICES ASSUME req[z].op = "login", req[z].status = "ok"
                   PROVE  cookie'[req[z].browser] = req[z].user
      BY <1>1
    <3>2. req[z].cookie = req[z].user /\ req[z].user \in Accounts
      BY <1>2, <3>1 DEF AnswerOf
    <3>3. req[z].cookie # "keep" /\ req[z].cookie # "clear"
      BY <3>2, NamesAssumption
    <3> QED
      BY <1>4, <3>2, <3>3 DEF CookieAfter
  <2> QED
    BY <1>1, <1>5, <2>1, <2>2 DEF CookieOf
<1>6. CASE r # z
  <2>1. req'[r] = req[r] /\ req[r].pc = "done" /\ z \notin prior[r] /\ prior'[r] = prior[r]
    BY <1>1, <1>6 DEF Others, PriorDone
  <2>2. Later(r) \subseteq Later(r)' /\ \A x \in Later(r) : x \in Requests /\ req'[x] = req[x]
    BY <1>1, <2>1 DEF Later, Others
  <2>3. \A x \in Later(r) : Touches(x) => Touches(x)'
    BY <1>1, <2>2 DEF Touches, Leaves
  <2>4. Leaves(r)' = Leaves(r)
    BY <2>1 DEF Leaves
  <2>5. CASE req[z].browser # req[r].browser
    <3>1. req[r].browser \in Browsers
      BY <2>1 DEF TypeInv, Handlers
    <3>2. cookie'[req[r].browser] = cookie[req[r].browser]
      BY <1>1, <1>3, <2>5, <3>1
    <3> QED
      BY <1>1, <2>1, <2>2, <2>3, <2>4, <3>2 DEF CookieOf
  <2>6. CASE req[z].browser = req[r].browser /\ req[z].cookie = "keep"
    <3>1. cookie'[req[r].browser] = cookie[req[r].browser]
      BY <1>4, <2>6 DEF CookieAfter
    <3> QED
      BY <1>1, <2>1, <2>2, <2>3, <2>4, <3>1 DEF CookieOf
  <2>7. CASE req[z].browser = req[r].browser /\ req[z].cookie # "keep"
    <3>1. z \in Later(r)'
      BY <1>1, <1>6, <2>1, <2>7 DEF Later
    <3>2. Touches(z)'
      BY <1>1, <1>2, <2>7 DEF Touches, Leaves, AnswerOf, Ops
    <3>3. CASE req[z].cookie = "clear"
      <4>1. cookie'[req[r].browser] = None
        BY <1>4, <2>7, <3>3 DEF CookieAfter
      <4> QED
        BY <2>1, <3>1, <3>2, <4>1 DEF CookieOf
    <3>4. CASE req[z].cookie # "clear"
      <4>1. req'[z].op = "login"
        BY <1>1, <1>2, <2>7, <3>4 DEF AnswerOf, Ops
      <4> QED
        BY <3>1, <3>2, <4>1 DEF CookieOf
    <3> QED
      BY <3>3, <3>4
  <2> QED
    BY <2>5, <2>6, <2>7
<1> QED
  BY <1>5, <1>6

\* A cookie that expires takes out who is in, and marks whoever signed in before.
LEMMA CookieLapsed ==
  ASSUME TypeInv, NEW b \in Browsers, CookieExpires(b), NEW r \in Requests, CookieOf(r)
  PROVE  CookieOf(r)'
<1> SUFFICES ASSUME req[r].pc = "done" PROVE CookieOf(r)'
  BY DEF CookieOf, CookieExpires
<1>1. /\ req' = req /\ prior' = prior /\ users' = users
      /\ cookie' = [cookie EXCEPT ![b] = None]
      /\ lapsed' = lapsed \cup {x \in Done : req[x].browser = b}
      /\ cookie \in [Browsers -> Accounts \cup {None}] /\ req[r].browser \in Browsers
  BY DEF CookieExpires, TypeInv, TypeOK, Handlers
<1>2. /\ Later(r)' = Later(r) /\ Leaves(r)' = Leaves(r)
      /\ \A x \in Requests : Touches(x)' = Touches(x)
  BY <1>1 DEF Later, Leaves, Touches
<1>3. CASE req[r].browser = b
  <2>1. cookie'[req[r].browser] = None /\ r \in lapsed'
    BY <1>1, <1>3 DEF Done
  <2> QED
    BY <1>1, <2>1 DEF CookieOf
<1>4. CASE req[r].browser # b
  <2>1. cookie'[req[r].browser] = cookie[req[r].browser] /\ lapsed \subseteq lapsed'
    BY <1>1, <1>4
  <2>2. \A x \in Later(r) : x \in Requests
    BY DEF Later
  <2> QED
    BY <1>1, <1>2, <2>1, <2>2 DEF CookieOf
<1> QED
  BY <1>3, <1>4

LEMMA NextCookieInv == TypeInv /\ CookieInv /\ [Next]_vars => CookieInv'
<1> SUFFICES ASSUME TypeInv, CookieInv, [Next]_vars PROVE CookieInv'
  OBVIOUS
<1>1. PriorDone /\ AnswersFit /\ PriorDone' /\ AnswersFit'
  BY PriorDoneKept, AnswersFitKept DEF CookieInv
<1>2. \A r \in Requests : CookieOf(r)
  BY DEF CookieInv, CookieFollowsTheUser, CookieOf, Later
<1>3. ASSUME NEW r \in Requests PROVE CookieOf(r)'
  <2>1. ASSUME NEW z \in Requests, Went(z) PROVE CookieOf(r)'
    <3>1. CASE req'[z].pc = "done"
      BY <1>1, <1>2, <2>1, <3>1, CookieAnswered
    <3>2. CASE req'[z].pc # "done"
      <4>1. /\ cookie' = cookie /\ lapsed' = lapsed /\ users' \subseteq users /\ prior' = prior
            /\ Others(z) /\ req[z].pc \notin {"idle", "done"}
        BY <2>1, <3>2 DEF Went
      <4>2. \A x \in Requests : req[x].pc = "done" => req'[x] = req[x]
        BY <4>1 DEF Others
      <4>3. req'[r] = req[r] \/ req'[r].pc # "done"
        BY <3>2, <4>1 DEF Others
      <4> QED
        BY <1>1, <1>2, <4>1, <4>2, <4>3, CookieStays
    <3> QED
      BY <3>1, <3>2
  <2>2. ASSUME NEW z \in Requests, Came(z) PROVE CookieOf(r)'
    <3>1. /\ cookie' = cookie /\ lapsed' = lapsed /\ users' = users
          /\ prior' = [prior EXCEPT ![z] = Done]
          /\ Others(z) /\ req[z].pc = "idle" /\ req'[z].pc \notin {"idle", "done"}
      BY <2>2 DEF Came
    <3>2. /\ \A x \in Requests : req[x].pc = "done" => req'[x] = req[x]
          /\ req'[r] = req[r] \/ req'[r].pc # "done"
      BY <3>1 DEF Others
    <3>3. req[r].pc = "done" => prior'[r] = prior[r]
      BY <3>1 DEF TypeInv, TypeOK
    <3> QED
      BY <1>1, <1>2, <3>1, <3>2, <3>3, CookieStays
  <2>3. CASE UNCHANGED <<users, cookie, req, prior, lapsed>>
    BY <1>2, <2>3 DEF CookieOf, Later, Touches, Leaves
  <2>4. ASSUME NEW b \in Browsers, CookieExpires(b) PROVE CookieOf(r)'
    BY <1>2, <2>4, CookieLapsed
  <2> QED
    BY <2>1, <2>2, <2>3, <2>4, NextMoves
<1>4. CookieFollowsTheUser'
  BY <1>3 DEF CookieFollowsTheUser, CookieOf, Later
<1> QED
  BY <1>1, <1>4 DEF CookieInv

\* A browser that has left the portal is in again only by a sign-in that overlapped,
\* one that signed in is somebody else only by a request that was not answered before,
\* and out only by such a request or because a cookie has expired since
\* (router.ts:61-67, 75-79, 144, 321, session.ts:13, 39-49).
THEOREM CookieIsTheUsers == Spec => []CookieFollowsTheUser
<1>1. CookieInv => CookieFollowsTheUser
  BY DEF CookieInv
<1> QED
  BY <1>1, InitTypeInv, NextTypeInv, InitCookieInv, NextCookieInv, PTL DEF Spec

------------------------------------------------------------------------------
(* Why a callback fails.                                                   *)

IsCallback(r) == req[r].pc # "idle" /\ req[r].op = "callback"

\* A callback came with a state that is back from the provider.
CallbacksFit ==
  \A r \in Requests :
    IsCallback(r) => req[r].target \in DOMAIN flow /\ flow[req[r].target].code # "none"

\* Nothing has failed before it arrived.
NotYetFailed == \A r \in Requests : req[r].pc = "idle" => req[r].status = "ok"

\* The connector accepts the verifier of a state unless it was changed since.
VerifierFits ==
  \A f \in DOMAIN flow :
    \/ f \in reloaded
    \/ /\ pkce[flow[f].provider] # "off"
       /\ AssertPkce(pkce[flow[f].provider], flow[f].verifier)

\* A code is with somebody who approved, and a code that was redeemed was redeemed
\* by a callback.
CodesFit ==
  \A f \in DOMAIN flow :
    /\ flow[f].person # None => flow[f].code \in {"issued", "used"}
    /\ flow[f].code = "used" => \E x \in Requests : IsCallback(x) /\ req[x].target = f

\* A link is one of the start, or the identity that the callback of its name has
\* proved.
LinksProved ==
  \A i \in DOMAIN links :
    \/ i \in OldLinks /\ links[i] = OldLink[i]
    \/ /\ i \in Requests /\ IsCallback(i) /\ req[i].pc \in {"answer", "done"}
       /\ links[i] = Proved(i)

\* The identity that a callback found free is taken only by callbacks that run beside
\* it.
TakenByOverlap ==
  \A r \in Requests : req[r].pc = "create" =>
    \A i \in Taken(r) : i \in Requests \ {r} /\ i \notin prior[r] /\ r \notin prior[i]

Opposed(r) ==
  \/ \E i \in OldLinks : SameIdentity(OldLink[i], Proved(r)) /\ OldLink[i].user # Owner(r)
  \/ \E x \in Requests \ {r} :
       /\ IsCallback(x) /\ SameIdentity(Proved(x), Proved(r))
       /\ Owner(x) = Owner(r) => x \notin prior[r] /\ r \notin prior[x]

Reason(r) ==
  \/ req[r].target \in reloaded
  \/ flow[req[r].target].user \notin users
  \/ Opposed(r)
  \/ \E x \in Requests \ {r} : IsCallback(x) /\ req[x].target = req[r].target

Failed(r) ==
  /\ req[r].op = "callback" /\ req[r].status = "error"
  /\ flow[req[r].target].person # None

ErrorsFit == \A r \in Requests : Failed(r) => Reason(r)

ErrorInv ==
  /\ PriorDone /\ CallbacksFit /\ NotYetFailed /\ VerifierFits /\ CodesFit
  /\ LinksProved /\ TakenByOverlap /\ ErrorsFit

LEMMA InitErrorInv == Init => ErrorInv
<1> SUFFICES ASSUME Init PROVE ErrorInv
  OBVIOUS
<1>1. /\ \A r \in Requests : req[r].pc = "idle" /\ req[r].status = "ok"
      /\ DOMAIN flow = {} /\ links = OldLink /\ \A r \in Requests : prior[r] = {}
  BY DEF Init
<1>2. DOMAIN links = OldLinks
  BY <1>1, NamesAssumption
<1> QED
  BY <1>1, <1>2 DEF ErrorInv, PriorDone, CallbacksFit, NotYetFailed, VerifierFits, CodesFit,
                    LinksProved, TakenByOverlap, ErrorsFit, Failed, IsCallback

\* What no step takes back: who a state is for, who approved, that an account has
\* gone, and that a connector was changed.
Lasts ==
  /\ \A f \in DOMAIN flow :
       /\ f \in DOMAIN flow'
       /\ flow'[f].user = flow[f].user /\ flow'[f].provider = flow[f].provider
       /\ flow'[f].verifier = flow[f].verifier
       /\ flow[f].code # "none" => flow'[f].code # "none" /\ flow'[f].person = flow[f].person
  /\ users' \subseteq users /\ reloaded \subseteq reloaded'

LEMMA NextLasts ==
  ASSUME TypeInv, [Next]_vars
  PROVE  Lasts
<1>1. /\ DOMAIN flow \subseteq Requests
      /\ \A f \in DOMAIN flow : flow[f] \in Flow /\ req[f].pc # "idle"
  BY DEF TypeInv, TypeOK, Flows
<1>2. ASSUME NEW r \in Requests, Went(r) PROVE Lasts
  BY <1>2 DEF Went, Lasts
<1>3. ASSUME NEW r \in Requests, NEW b \in Browsers, Arrives(r, b) PROVE Lasts
  <2>1. Came(r)
    BY <1>3, ArrivesCame
  <2>2. UNCHANGED <<users, reloaded>> /\ r \notin DOMAIN flow
    BY <1>1, <2>1 DEF Came
  <2>3. CASE UNCHANGED flow
    BY <2>2, <2>3 DEF Lasts
  <2>4. CASE /\ DOMAIN flow' = DOMAIN flow \cup {r}
             /\ \A f \in DOMAIN flow : f # r => flow'[f] = flow[f]
    BY <2>2, <2>4 DEF Lasts
  <2> QED
    BY <1>3, <2>3, <2>4 DEF Arrives, Logout, Signed, Link
<1>4. ASSUME NEW r \in Requests, NEW f \in DOMAIN flow, Callback(r, f) PROVE Lasts
  <2>1. UNCHANGED <<users, reloaded>>
    BY <1>4, CallbackCame DEF Came
  <2>2. CASE UNCHANGED flow
    BY <2>1, <2>2 DEF Lasts
  <2>3. CASE flow' = [flow EXCEPT ![f].code = "used"]
    <3>1. flow'[f] = [flow[f] EXCEPT !.code = "used"]
      BY <2>3
    <3>2. /\ flow'[f].user = flow[f].user /\ flow'[f].provider = flow[f].provider
          /\ flow'[f].verifier = flow[f].verifier /\ flow'[f].person = flow[f].person
          /\ flow'[f].code = "used"
      BY <1>1, <3>1 DEF Flow
    <3> QED
      BY <2>1, <2>3, <3>2 DEF Lasts
  <2> QED
    BY <1>4, <2>2, <2>3 DEF Callback, Exchanges
<1>5. ASSUME NEW f \in DOMAIN flow, NEW x \in People \cup {None}, AtProvider(f, x) PROVE Lasts
  <2>1. flow'[f] = [flow[f] EXCEPT !.person = x, !.code = IF x = None THEN "denied" ELSE "issued"]
    BY <1>1, <1>5 DEF AtProvider, Flow
  <2>2. /\ flow'[f].user = flow[f].user /\ flow'[f].provider = flow[f].provider
        /\ flow'[f].verifier = flow[f].verifier
    BY <1>1, <2>1 DEF Flow
  <2>3. /\ DOMAIN flow' = DOMAIN flow /\ \A g \in DOMAIN flow \ {f} : flow'[g] = flow[g]
        /\ UNCHANGED <<users, reloaded>> /\ flow[f].code = "none"
    BY <1>5 DEF AtProvider, Same
  <2> QED
    BY <2>2, <2>3 DEF Lasts
<1>6. ASSUME NEW p, NEW m, Reload(p, m) PROVE Lasts
  BY <1>6 DEF Reload, Lasts
<1>7. CASE UNCHANGED vars
  BY <1>7 DEF vars, Lasts
<1>8. ASSUME NEW b, CookieExpires(b) PROVE Lasts
  BY <1>8 DEF CookieExpires, Lasts
<1> QED
  BY <1>2, <1>3, <1>4, <1>5, <1>6, <1>7, <1>8, RunsWent DEF Next

\* A callback goes on for the state it came with, and proves what it proved.
LEMMA CallbackLasts ==
  ASSUME TypeInv, CallbacksFit, [Next]_vars, NEW r \in Requests, IsCallback(r)
  PROVE  /\ IsCallback(r)' /\ req'[r].target = req[r].target /\ prior'[r] = prior[r]
         /\ Proved(r)' = Proved(r) /\ Owner(r)' = Owner(r)
         /\ flow'[req[r].target].person = flow[req[r].target].person
<1> DEFINE GoesOn == /\ req'[r].pc # "idle" /\ req'[r].op = req[r].op
                     /\ req'[r].target = req[r].target /\ prior'[r] = prior[r]
<1>1. GoesOn
  <2>1. ASSUME NEW z \in Requests, Went(z) PROVE GoesOn
    BY <2>1 DEF Went, Others, IsCallback
  <2>2. ASSUME NEW z \in Requests, Came(z) PROVE GoesOn
    <3>1. z # r /\ prior' = [prior EXCEPT ![z] = Done] /\ Others(z)
      BY <2>2 DEF Came, IsCallback
    <3> QED
      BY <3>1 DEF Others, IsCallback, TypeInv, TypeOK
  <2> QED
    BY <2>1, <2>2, RequestMoves DEF IsCallback
<1>2. Lasts /\ req[r].target \in DOMAIN flow /\ flow[req[r].target].code # "none"
  BY NextLasts DEF CallbacksFit
<1> QED
  BY <1>1, <1>2 DEF IsCallback, Proved, Owner, Lasts

\* A reason lasts.
LEMMA ReasonLasts ==
  ASSUME TypeInv, CallbacksFit, [Next]_vars, NEW r \in Requests, IsCallback(r), Reason(r)
  PROVE  Reason(r)'
<1>1. /\ req'[r].target = req[r].target /\ prior'[r] = prior[r]
      /\ Proved(r)' = Proved(r) /\ Owner(r)' = Owner(r)
  BY CallbackLasts
<1>2. Lasts /\ req[r].target \in DOMAIN flow
  BY NextLasts DEF CallbacksFit
<1>3. \A x \in Requests : IsCallback(x) =>
        /\ IsCallback(x)' /\ req'[x].target = req[x].target /\ prior'[x] = prior[x]
        /\ Proved(x)' = Proved(x) /\ Owner(x)' = Owner(x)
  BY CallbackLasts
<1>4. CASE req[r].target \in reloaded
  BY <1>1, <1>2, <1>4 DEF Reason, Lasts
<1>5. CASE flow[req[r].target].user \notin users
  BY <1>1, <1>2, <1>5 DEF Reason, Lasts
<1>6. CASE Opposed(r)
  <2>1. CASE \E i \in OldLinks : SameIdentity(OldLink[i], Proved(r)) /\ OldLink[i].user # Owner(r)
    BY <1>1, <2>1 DEF Reason, Opposed
  <2>2. ASSUME NEW x \in Requests \ {r}, IsCallback(x), SameIdentity(Proved(x), Proved(r)),
               Owner(x) = Owner(r) => x \notin prior[r] /\ r \notin prior[x]
        PROVE  Reason(r)'
    <3>1. /\ IsCallback(x)' /\ prior'[x] = prior[x]
          /\ Proved(x)' = Proved(x) /\ Owner(x)' = Owner(x)
      BY <1>3, <2>2
    <3>2. SameIdentity(Proved(x)', Proved(r)')
      BY <1>1, <2>2, <3>1
    <3>3. Opposed(r)'
      BY <1>1, <2>2, <3>1, <3>2 DEF Opposed, SameIdentity
    <3> QED
      BY <3>3 DEF Reason
  <2> QED
    BY <1>6, <2>1, <2>2 DEF Opposed
<1>7. ASSUME NEW x \in Requests \ {r}, IsCallback(x), req[x].target = req[r].target
      PROVE  Reason(r)'
  BY <1>1, <1>3, <1>7 DEF Reason
<1> QED
  BY <1>4, <1>5, <1>6, <1>7 DEF Reason

LEMMA NotYetFailedKept ==
  ASSUME TypeInv, NotYetFailed, [Next]_vars
  PROVE  NotYetFailed'
<1>1. ASSUME NEW r \in Requests, Went(r) \/ Came(r) PROVE NotYetFailed'
  BY <1>1 DEF Went, Came, Others, NotYetFailed
<1>2. CASE UNCHANGED <<users, req, prior>>
  BY <1>2 DEF NotYetFailed
<1> QED
  BY <1>1, <1>2, RequestMoves

\* Only Callback makes a request a callback.
LEMMA NewCallback ==
  ASSUME TypeInv, [Next]_vars, NEW r \in Requests, ~IsCallback(r), IsCallback(r)'
  PROVE  \E f \in DOMAIN flow : Callback(r, f) /\ req'[r].target = f
<1>1. TypeOK
  BY DEF TypeInv
<1>2. ASSUME NEW z \in Requests, Runs(z) PROVE FALSE
  BY <1>2, RunsWent DEF Went, Others, IsCallback
<1>3. ASSUME NEW z \in Requests, NEW b \in Browsers, Arrives(z, b) PROVE FALSE
  <2>1. Came(z)
    BY <1>3, ArrivesCame
  <2>2. z = r
    BY <2>1 DEF Came, Others, IsCallback
  <2>3. \E op \in {"login", "logout", "view", "revokeAll", "delete", "unlink", "link"} :
          req'[z].op = op
    <3>1. ASSUME NEW op, NEW u, NEW x, NEW step, NEW status, NEW change,
                 Arrive(z, op, b, u, x, step, status, change)
          PROVE  req'[z].op = op
      BY <1>1, <3>1, ArriveSets
    <3>2. ASSUME NEW op, NEW x, Signed(z, op, b, x) PROVE req'[z].op = op
      BY <3>1, <3>2 DEF Signed
    <3>3. CASE Logout(z, b)
      BY <3>1, <3>3 DEF Logout
    <3>4. ASSUME NEW p \in Providers, Link(z, b, p) PROVE req'[z].op = "link"
      BY <3>1, <3>4 DEF Link
    <3> QED
      BY <1>3, <3>1, <3>2, <3>3, <3>4 DEF Arrives
  <2> QED
    BY <2>2, <2>3 DEF IsCallback
<1>4. ASSUME NEW z \in Requests, NEW f \in DOMAIN flow, Callback(z, f)
      PROVE  Callback(r, f) /\ req'[r].target = f
  <2>1. Came(z) /\ req'[z].target = f
    BY <1>4, CallbackCame
  <2>2. z = r
    BY <2>1 DEF Came, Others, IsCallback
  <2> QED
    BY <1>4, <2>1, <2>2
<1>5. ASSUME req' = req PROVE FALSE
  BY <1>5 DEF IsCallback
<1>6. ASSUME NEW f, NEW x, AtProvider(f, x) PROVE req' = req
  BY <1>6 DEF AtProvider
<1>7. ASSUME NEW p, NEW m, Reload(p, m) PROVE req' = req
  BY <1>7 DEF Reload
<1>8. CASE UNCHANGED vars
  BY <1>5, <1>8 DEF vars
<1>9. ASSUME NEW b, CookieExpires(b) PROVE req' = req
  BY <1>9 DEF CookieExpires
<1> QED
  BY <1>2, <1>3, <1>4, <1>5, <1>6, <1>7, <1>8, <1>9 DEF Next

LEMMA CallbacksFitKept ==
  ASSUME TypeInv, CallbacksFit, [Next]_vars
  PROVE  CallbacksFit'
<1>1. Lasts
  BY NextLasts
<1>2. ASSUME NEW r \in Requests, IsCallback(r)'
      PROVE  req'[r].target \in DOMAIN flow' /\ flow'[req'[r].target].code # "none"
  <2>1. CASE IsCallback(r)
    BY <1>1, <2>1, CallbackLasts DEF CallbacksFit, Lasts
  <2>2. CASE ~IsCallback(r)
    <3>1. PICK f \in DOMAIN flow : Callback(r, f) /\ req'[r].target = f
      BY <1>2, <2>2, NewCallback
    <3>2. flow[f].code # "none"
      BY <3>1 DEF Callback
    <3> QED
      BY <1>1, <3>1, <3>2 DEF Lasts
  <2> QED
    BY <2>1, <2>2
<1> QED
  BY <1>2 DEF CallbacksFit, IsCallback

\* A state is signed by Link, and its connector accepts the verifier then.
LEMMA NewState ==
  ASSUME TypeInv, [Next]_vars, NEW f \in DOMAIN flow', f \notin DOMAIN flow
  PROVE  /\ flow'[f].person = None /\ flow'[f].code = "none"
         /\ pkce' = pkce /\ pkce[flow'[f].provider] # "off"
         /\ AssertPkce(pkce[flow'[f].provider], flow'[f].verifier)
<1>1. ASSUME NEW r \in Requests, NEW b \in Browsers, NEW p \in Providers, Link(r, b, p)
      PROVE  /\ flow'[f].person = None /\ flow'[f].code = "none"
             /\ pkce' = pkce /\ pkce[flow'[f].provider] # "off"
             /\ AssertPkce(pkce[flow'[f].provider], flow'[f].verifier)
  <2>1. /\ flow'[f] = [user |-> cookie[b], provider |-> p, person |-> None,
                       verifier |-> VerifierFor(pkce[p]), code |-> "none"]
        /\ pkce[p] # "off" /\ pkce' = pkce
    BY <1>1 DEF Link, Arrive
  <2>2. /\ flow'[f].person = None /\ flow'[f].code = "none" /\ flow'[f].provider = p
        /\ flow'[f].verifier = VerifierFor(pkce[p])
    BY <2>1
  <2>3. AssertPkce(pkce[p], VerifierFor(pkce[p]))
    BY DEF AssertPkce, VerifierFor
  <2> QED
    BY <2>1, <2>2, <2>3
<1>2. ASSUME DOMAIN flow' = DOMAIN flow PROVE FALSE
  BY <1>2
<1>3. ASSUME NEW r \in Requests, Runs(r) PROVE DOMAIN flow' = DOMAIN flow
  BY <1>3, RunsWent DEF Went
<1>4. ASSUME NEW r \in Requests, NEW g \in DOMAIN flow, Callback(r, g)
      PROVE  DOMAIN flow' = DOMAIN flow
  BY <1>4 DEF Callback
<1>5. ASSUME NEW g \in DOMAIN flow, NEW x, AtProvider(g, x) PROVE DOMAIN flow' = DOMAIN flow
  BY <1>5 DEF AtProvider
<1>6. ASSUME NEW p, NEW m, Reload(p, m) PROVE DOMAIN flow' = DOMAIN flow
  BY <1>6 DEF Reload
<1>7. CASE UNCHANGED vars
  BY <1>2, <1>7 DEF vars
<1>8. ASSUME NEW b, CookieExpires(b) PROVE DOMAIN flow' = DOMAIN flow
  BY <1>8 DEF CookieExpires
<1> QED
  BY <1>1, <1>2, <1>3, <1>4, <1>5, <1>6, <1>7, <1>8 DEF Next, Arrives, Logout, Signed

\* A connector changes only where every state of it is marked.
LEMMA PkceMoves ==
  ASSUME [Next]_vars, TypeInv
  PROVE  \A f \in DOMAIN flow : f \in reloaded' \/ pkce'[flow[f].provider] = pkce[flow[f].provider]
<1>1. ASSUME NEW p \in Providers, NEW m \in Modes, Reload(p, m), NEW f \in DOMAIN flow
      PROVE  f \in reloaded' \/ pkce'[flow[f].provider] = pkce[flow[f].provider]
  <2>1. flow[f].provider \in Providers /\ pkce \in [Providers -> Modes]
    BY DEF TypeInv, TypeOK, Flow
  <2> QED
    BY <1>1, <2>1 DEF Reload
<1>2. ASSUME NEW r \in Requests, Runs(r) PROVE pkce' = pkce
  BY <1>2, RunsWent DEF Went
<1>3. ASSUME NEW r \in Requests, NEW b \in Browsers, Arrives(r, b) PROVE pkce' = pkce
  BY <1>3, ArrivesCame DEF Came
<1>4. ASSUME NEW r \in Requests, NEW g \in DOMAIN flow, Callback(r, g) PROVE pkce' = pkce
  BY <1>4, CallbackCame DEF Came
<1>5. ASSUME NEW g, NEW x, AtProvider(g, x) PROVE pkce' = pkce
  BY <1>5 DEF AtProvider, Same
<1>6. CASE UNCHANGED vars
  BY <1>6 DEF vars
<1>7. ASSUME NEW b, CookieExpires(b) PROVE pkce' = pkce
  BY <1>7 DEF CookieExpires
<1> QED
  BY <1>1, <1>2, <1>3, <1>4, <1>5, <1>6, <1>7 DEF Next

LEMMA VerifierFitsKept ==
  ASSUME TypeInv, VerifierFits, [Next]_vars
  PROVE  VerifierFits'
<1>1. ASSUME NEW f \in DOMAIN flow'
      PROVE  \/ f \in reloaded'
             \/ /\ pkce'[flow'[f].provider] # "off"
                /\ AssertPkce(pkce'[flow'[f].provider], flow'[f].verifier)
  <2>1. CASE f \in DOMAIN flow
    <3>1. /\ flow'[f].provider = flow[f].provider /\ flow'[f].verifier = flow[f].verifier
          /\ reloaded \subseteq reloaded'
      BY <2>1, NextLasts DEF Lasts
    <3>2. f \in reloaded' \/ pkce'[flow[f].provider] = pkce[flow[f].provider]
      BY <2>1, PkceMoves
    <3> QED
      BY <2>1, <3>1, <3>2 DEF VerifierFits
  <2>2. CASE f \notin DOMAIN flow
    BY <2>2, NewState
  <2> QED
    BY <2>1, <2>2
<1> QED
  BY <1>1 DEF VerifierFits, AssertPkce

\* Only AtProvider makes a code, and only Callback redeems one.
LEMMA CodeMoves ==
  ASSUME TypeInv, [Next]_vars, NEW f \in DOMAIN flow
  PROVE  \/ flow'[f] = flow[f]
         \/ /\ flow'[f].code \in {"issued", "denied"}
            /\ flow'[f].person # None => flow'[f].code = "issued"
         \/ /\ flow'[f].code = "used" /\ flow[f].code = "issued"
            /\ \E r \in Requests : IsCallback(r)' /\ req'[r].target = f
<1>1. DOMAIN flow \subseteq Requests /\ flow[f] \in Flow /\ req[f].pc # "idle"
  BY DEF TypeInv, TypeOK, Flows
<1>2. ASSUME NEW r \in Requests, Runs(r) PROVE flow'[f] = flow[f]
  BY <1>2, RunsWent DEF Went
<1>3. ASSUME NEW r \in Requests, NEW b \in Browsers, Arrives(r, b) PROVE flow'[f] = flow[f]
  <2>1. r # f
    BY <1>1, <1>3, ArrivesCame DEF Came
  <2> QED
    BY <1>3, <2>1 DEF Arrives, Logout, Signed, Link
<1>4. ASSUME NEW r \in Requests, NEW g \in DOMAIN flow, Callback(r, g)
      PROVE  \/ flow'[f] = flow[f]
             \/ /\ flow'[f].code = "used" /\ flow[f].code = "issued"
                /\ IsCallback(r)' /\ req'[r].target = f
  <2>1. IsCallback(r)' /\ req'[r].target = g
    BY <1>4, CallbackCame DEF Came, IsCallback
  <2>2. \/ UNCHANGED flow
        \/ flow[g].code = "issued" /\ flow' = [flow EXCEPT ![g].code = "used"]
    BY <1>4 DEF Callback, Exchanges
  <2>3. ASSUME flow' = [flow EXCEPT ![f].code = "used"] PROVE flow'[f].code = "used"
    <3>1. flow'[f] = [flow[f] EXCEPT !.code = "used"]
      BY <2>3
    <3> QED
      BY <1>1, <3>1 DEF Flow
  <2> QED
    BY <2>1, <2>2, <2>3
<1>5. ASSUME NEW g \in DOMAIN flow, NEW x \in People \cup {None}, AtProvider(g, x)
      PROVE  \/ flow'[f] = flow[f]
             \/ /\ flow'[f].code \in {"issued", "denied"}
                /\ flow'[f].person # None => flow'[f].code = "issued"
  <2>1. CASE g # f
    BY <1>5, <2>1 DEF AtProvider
  <2>2. CASE g = f
    <3>1. flow'[f] = [flow[f] EXCEPT !.person = x, !.code = IF x = None THEN "denied" ELSE "issued"]
      BY <1>1, <1>5, <2>2 DEF AtProvider, Flow
    <3> QED
      BY <1>1, <3>1 DEF Flow
  <2> QED
    BY <2>1, <2>2
<1>6. ASSUME NEW p, NEW m, Reload(p, m) PROVE flow'[f] = flow[f]
  BY <1>6 DEF Reload
<1>7. CASE UNCHANGED vars
  BY <1>7 DEF vars
<1>8. ASSUME NEW b, CookieExpires(b) PROVE flow'[f] = flow[f]
  BY <1>8 DEF CookieExpires
<1> QED
  BY <1>2, <1>3, <1>4, <1>5, <1>6, <1>7, <1>8 DEF Next

LEMMA CodesFitKept ==
  ASSUME TypeInv, CallbacksFit, CodesFit, [Next]_vars
  PROVE  CodesFit'
<1>1. ASSUME NEW f \in DOMAIN flow'
      PROVE  /\ flow'[f].person # None => flow'[f].code \in {"issued", "used"}
             /\ flow'[f].code = "used" => \E x \in Requests : IsCallback(x)' /\ req'[x].target = f
  <2>1. CASE f \notin DOMAIN flow
    BY <2>1, NewState
  <2>2. CASE f \in DOMAIN flow /\ flow'[f] = flow[f]
    <3>1. flow[f].person # None => flow[f].code \in {"issued", "used"}
      BY <2>2 DEF CodesFit
    <3>2. ASSUME NEW x \in Requests, IsCallback(x), req[x].target = f
          PROVE  IsCallback(x)' /\ req'[x].target = f
      BY <3>2, CallbackLasts
    <3> QED
      BY <2>2, <3>1, <3>2 DEF CodesFit
  <2>3. CASE f \in DOMAIN flow /\ flow'[f] # flow[f]
    BY <2>3, CodeMoves
  <2> QED
    BY <2>1, <2>2, <2>3
<1> QED
  BY <1>1 DEF CodesFit, IsCallback

\* A link is made by CreateLink, and otherwise stays as it is or goes.
LEMMA LinkMoves ==
  ASSUME TypeInv, [Next]_vars, NEW i \in DOMAIN links'
  PROVE  \/ i \in DOMAIN links /\ links'[i] = links[i]
         \/ /\ i \in Requests /\ req[i].pc = "create" /\ req'[i].pc = "answer"
            /\ links'[i] = Proved(i)
<1>1. ASSUME NEW r \in Requests, Runs(r)
      PROVE  \/ i \in DOMAIN links /\ links'[i] = links[i]
             \/ /\ i \in Requests /\ req[i].pc = "create" /\ req'[i].pc = "answer"
                /\ links'[i] = Proved(i)
  <2>1. CASE links' = links
    BY <2>1
  <2>2. CASE Unlink(r) \/ Delete(r)
    BY <2>2 DEF Unlink, Delete, Without
  <2>3. CASE CreateLink(r)
    <3>1. PICK status \in {"ok", "error"} : Step(r, "answer", status, "keep")
      BY <2>3 DEF CreateLink, Respond
    <3>2. req[r].pc = "create" /\ req'[r].pc = "answer"
      BY <2>3, <3>1, StepSets DEF CreateLink, TypeInv
    <3> QED
      BY <2>3, <3>2 DEF CreateLink
  <2> QED
    BY <1>1, <2>1, <2>2, <2>3
       DEF Runs, Login, RevokeAll, View, VerifyIdToken, UserInfo, FindLink, StatementFails, Answer
<1>2. ASSUME NEW r \in Requests, NEW b \in Browsers, Arrives(r, b) PROVE links' = links
  BY <1>2, ArrivesCame DEF Came
<1>3. ASSUME NEW r \in Requests, NEW g \in DOMAIN flow, Callback(r, g) PROVE links' = links
  BY <1>3, CallbackCame DEF Came
<1>4. ASSUME NEW g, NEW x, AtProvider(g, x) PROVE links' = links
  BY <1>4 DEF AtProvider
<1>5. ASSUME NEW p, NEW m, Reload(p, m) PROVE links' = links
  BY <1>5 DEF Reload
<1>6. CASE UNCHANGED vars
  BY <1>6 DEF vars
<1>7. ASSUME NEW b, CookieExpires(b) PROVE links' = links
  BY <1>7 DEF CookieExpires
<1> QED
  BY <1>1, <1>2, <1>3, <1>4, <1>5, <1>6, <1>7 DEF Next

LEMMA LinksProvedKept ==
  ASSUME TypeInv, CallbacksFit, LinksProved, [Next]_vars
  PROVE  LinksProved'
<1>1. ASSUME NEW i \in DOMAIN links'
      PROVE  \/ i \in OldLinks /\ links'[i] = OldLink[i]
             \/ /\ i \in Requests /\ IsCallback(i)' /\ req'[i].pc \in {"answer", "done"}
                /\ links'[i] = Proved(i)'
  <2>1. CASE i \in DOMAIN links /\ links'[i] = links[i] /\ i \in Requests /\ i \notin OldLinks
    <3>1. /\ IsCallback(i) /\ req[i].pc \in {"answer", "done"} /\ links[i] = Proved(i)
      BY <2>1 DEF LinksProved
    <3>2. IsCallback(i)' /\ Proved(i)' = Proved(i)
      BY <2>1, <3>1, CallbackLasts
    <3>3. req'[i].pc \in {"answer", "done"}
      BY <2>1, <3>1, RequestMoves DEF Went, Came, Others
    <3> QED
      BY <2>1, <3>1, <3>2, <3>3
  <2>2. CASE i \in DOMAIN links /\ links'[i] = links[i] /\ ~(i \in Requests /\ i \notin OldLinks)
    BY <2>2, NamesAssumption DEF LinksProved
  <2>3. CASE /\ i \in Requests /\ req[i].pc = "create" /\ req'[i].pc = "answer"
             /\ links'[i] = Proved(i)
    <3>1. IsCallback(i)
      BY <2>3 DEF TypeInv, Handlers, InCallback, IsCallback
    <3>2. IsCallback(i)' /\ Proved(i)' = Proved(i)
      BY <2>3, <3>1, CallbackLasts
    <3> QED
      BY <2>3, <3>2
  <2> QED
    BY <2>1, <2>2, <2>3, LinkMoves
<1> QED
  BY <1>1 DEF LinksProved, IsCallback

\* A callback comes to its INSERT only where it found the identity free.
LEMMA CreateMoves ==
  ASSUME TypeInv, [Next]_vars, NEW r \in Requests, req'[r].pc = "create"
  PROVE  \/ req'[r] = req[r]
         \/ req[r].pc = "find" /\ Taken(r) = {} /\ links' = links
<1>1. TypeOK
  BY DEF TypeInv
<1>2. ASSUME NEW z \in Requests, Runs(z)
      PROVE  \/ req'[r] = req[r]
             \/ req[r].pc = "find" /\ Taken(r) = {} /\ links' = links
  <2>1. CASE z # r
    BY <1>2, <2>1, RunsWent DEF Went, Others
  <2>2. ASSUME NEW step, NEW status, NEW change, Step(z, step, status, change),
               step # "create", z = r
        PROVE  FALSE
    BY <1>1, <2>2, StepSets
  <2>3. CASE z = r /\ (Login(z) \/ RevokeAll(z) \/ Unlink(z) \/ Delete(z) \/ CreateLink(z))
    BY <2>2, <2>3 DEF Login, RevokeAll, Unlink, Delete, CreateLink, Respond
  <2>4. CASE z = r /\ (VerifyIdToken(z) \/ UserInfo(z) \/ StatementFails(z))
    BY <2>2, <2>4 DEF VerifyIdToken, UserInfo, StatementFails, Respond
  <2>5. CASE z = r /\ FindLink(z)
    BY <2>2, <2>5 DEF FindLink, Respond
  <2>6. CASE z = r /\ View(z)
    BY <1>1, <2>6, ViewEffect DEF Stepped, OneReq
  <2>7. CASE z = r /\ Answer(z)
    BY <2>7, AnswerEffect DEF Stepped, OneReq
  <2> QED
    BY <1>2, <2>1, <2>3, <2>4, <2>5, <2>6, <2>7 DEF Runs
<1>3. ASSUME NEW z \in Requests, NEW op, NEW b, NEW u, NEW x, NEW step, NEW status, NEW change,
             Arrive(z, op, b, u, x, step, status, change), step # "create"
      PROVE  req'[r] = req[r]
  BY <1>1, <1>3, ArriveSets DEF Others
<1>4. ASSUME NEW z \in Requests, NEW b \in Browsers, Arrives(z, b) PROVE req'[r] = req[r]
  <2>1. ASSUME NEW op, NEW x, Signed(z, op, b, x) PROVE req'[r] = req[r]
    BY <1>3, <2>1 DEF Signed
  <2>2. CASE Logout(z, b)
    BY <1>3, <2>2 DEF Logout
  <2>3. ASSUME NEW p \in Providers, Link(z, b, p) PROVE req'[r] = req[r]
    BY <1>3, <2>3 DEF Link
  <2>4. ASSUME NEW u, Arrive(z, "login", b, u, None, "handle", "ok", "keep") PROVE req'[r] = req[r]
    BY <1>3, <2>4
  <2> QED
    BY <1>4, <2>1, <2>2, <2>3, <2>4 DEF Arrives
<1>5. ASSUME NEW z \in Requests, NEW g \in DOMAIN flow, Callback(z, g) PROVE req'[r] = req[r]
  BY <1>3, <1>5 DEF Callback
<1>6. ASSUME NEW g, NEW x, AtProvider(g, x) PROVE req'[r] = req[r]
  BY <1>6 DEF AtProvider
<1>7. ASSUME NEW p, NEW m, Reload(p, m) PROVE req'[r] = req[r]
  BY <1>7 DEF Reload
<1>8. CASE UNCHANGED vars
  BY <1>8 DEF vars
<1>9. ASSUME NEW b, CookieExpires(b) PROVE req'[r] = req[r]
  BY <1>9 DEF CookieExpires
<1> QED
  BY <1>2, <1>4, <1>5, <1>6, <1>7, <1>8, <1>9 DEF Next

LEMMA TakenByOverlapKept ==
  ASSUME TypeInv, PriorDone, CallbacksFit, TakenByOverlap, [Next]_vars
  PROVE  TakenByOverlap'
<1>1. ASSUME NEW r \in Requests, req'[r].pc = "create", NEW i \in Taken(r)'
      PROVE  i \in Requests \ {r} /\ i \notin prior'[r] /\ r \notin prior'[i]
  <2>1. IsCallback(r) /\ req[r].pc \in {"find", "create"}
    BY <1>1, CreateMoves DEF TypeInv, Handlers, InCallback, IsCallback
  <2>2. Proved(r)' = Proved(r) /\ prior'[r] = prior[r]
    BY <2>1, CallbackLasts
  <2>3. i \in DOMAIN links' /\ SameIdentity(links'[i], Proved(r))
    BY <1>1, <2>2 DEF Taken, SameIdentity
  <2>4. CASE i \in DOMAIN links /\ links'[i] = links[i]
    <3>1. i \in Taken(r)
      BY <2>3, <2>4 DEF Taken
    <3>2. req[r].pc = "create"
      BY <1>1, <3>1, CreateMoves
    <3>3. i \in Requests \ {r} /\ i \notin prior[r] /\ r \notin prior[i]
      BY <3>1, <3>2 DEF TakenByOverlap
    <3>4. prior'[i] = prior[i] \/ prior'[i] = Done
      BY <3>3, RequestMoves DEF Went, Came, TypeInv, TypeOK
    <3>5. r \notin Done
      BY <2>1 DEF Done
    <3> QED
      BY <2>2, <3>3, <3>4, <3>5
  <2>5. CASE /\ i \in Requests /\ req[i].pc = "create" /\ req'[i].pc = "answer"
             /\ links'[i] = Proved(i)
    <3>1. i # r /\ i \notin prior[r] /\ r \notin prior[i]
      BY <1>1, <2>1, <2>5 DEF PriorDone
    <3>2. IsCallback(i)
      BY <2>5 DEF TypeInv, Handlers, InCallback, IsCallback
    <3>3. prior'[i] = prior[i]
      BY <2>5, <3>2, CallbackLasts
    <3> QED
      BY <2>2, <2>5, <3>1, <3>3
  <2> QED
    BY <2>3, <2>4, <2>5, LinkMoves
<1> QED
  BY <1>1 DEF TakenByOverlap

\* Where the error of a callback comes from.
LEMMA NewError ==
  ASSUME TypeInv, NotYetFailed, [Next]_vars, NEW r \in Requests,
         req'[r].op = "callback", req'[r].status = "error",
         ~(req[r].op = "callback" /\ req[r].status = "error")
  PROVE  \/ \E f \in DOMAIN flow : /\ Callback(r, f) /\ req'[r].target = f /\ flow' = flow
                                  /\ pkce[flow[f].provider] # "off"
                                  /\ ~Exchanges(pkce[flow[f].provider], f)
         \/ /\ req[r].pc = "find" /\ ~(Taken(r) \subseteq LinksOf(Owner(r)))
         \/ req[r].pc = "create" /\ ~Accepts(r)
<1> DEFINE FromCallback(f) == /\ Callback(r, f) /\ req'[r].target = f /\ flow' = flow
                              /\ pkce[flow[f].provider] # "off"
                              /\ ~Exchanges(pkce[flow[f].provider], f)
           FromFind == req[r].pc = "find" /\ ~(Taken(r) \subseteq LinksOf(Owner(r)))
           FromCreate == req[r].pc = "create" /\ ~Accepts(r)
<1>1. TypeOK
  BY DEF TypeInv
<1>2. ASSUME req'[r] = req[r] PROVE FALSE
  BY <1>2
<1>3. ASSUME NEW z \in Requests, Runs(z) PROVE FromFind \/ FromCreate
  <2>1. z = r
    BY <1>2, <1>3, RunsWent DEF Went, Others
  <2>2. req[r].op = "callback" /\ req[r].status # "error"
    BY <1>3, <2>1, RunsWent DEF Went
  <2>3. ASSUME NEW step, NEW status, NEW change, Step(r, step, status, change), status # "error"
        PROVE  FALSE
    BY <1>1, <2>3, StepSets
  <2>4. CASE Login(r) \/ RevokeAll(r) \/ Unlink(r) \/ Delete(r) \/ View(r)
    BY <2>2, <2>4 DEF Login, RevokeAll, Unlink, Delete, View, At
  <2>5. CASE VerifyIdToken(r) \/ UserInfo(r) \/ StatementFails(r)
    BY <2>3, <2>5 DEF VerifyIdToken, UserInfo, StatementFails, Respond
  <2>6. CASE FindLink(r)
    BY <2>3, <2>6 DEF FindLink, Respond
  <2>7. CASE CreateLink(r)
    BY <2>3, <2>7 DEF CreateLink, Respond
  <2>8. CASE Answer(r)
    <3>1. req'[r] = [req[r] EXCEPT !.pc = "done", !.ids = {}]
      BY <1>1, <2>8 DEF Answer, TypeOK, Req
    <3>2. req[r] \in Req
      BY <1>1 DEF TypeOK
    <3>3. req'[r].status = req[r].status
      BY <3>1, <3>2 DEF Req
    <3> QED
      BY <2>2, <3>3
  <2> QED
    BY <1>3, <2>1, <2>4, <2>5, <2>6, <2>7, <2>8 DEF Runs
<1>4. ASSUME NEW z \in Requests, NEW op, NEW b, NEW u, NEW x, NEW step, NEW status, NEW change,
             Arrive(z, op, b, u, x, step, status, change)
      PROVE  z = r /\ status = "error"
  BY <1>1, <1>2, <1>4, ArriveSets DEF Others
<1>5. ASSUME NEW z \in Requests, NEW b \in Browsers, Arrives(z, b) PROVE FALSE
  <2>1. ASSUME NEW op, NEW x, Signed(z, op, b, x) PROVE FALSE
    BY <1>4, <2>1 DEF Signed
  <2>2. CASE Logout(z, b)
    BY <1>4, <2>2 DEF Logout
  <2>3. ASSUME NEW p \in Providers, Link(z, b, p) PROVE FALSE
    BY <1>4, <2>3 DEF Link
  <2>4. ASSUME NEW u, Arrive(z, "login", b, u, None, "handle", "ok", "keep") PROVE FALSE
    BY <1>4, <2>4
  <2> QED
    BY <1>5, <2>1, <2>2, <2>3, <2>4 DEF Arrives
<1>6. ASSUME NEW z \in Requests, NEW f \in DOMAIN flow, Callback(z, f) PROVE FromCallback(f)
  <2>1. z = r /\ req'[r].target = f
    BY <1>2, <1>6, CallbackCame DEF Came, Others
  <2> QED
    BY <1>4, <1>6, <2>1 DEF Callback
<1>7. ASSUME NEW f, NEW x, AtProvider(f, x) PROVE FALSE
  BY <1>2, <1>7 DEF AtProvider
<1>8. ASSUME NEW p, NEW m, Reload(p, m) PROVE FALSE
  BY <1>2, <1>8 DEF Reload
<1>9. CASE UNCHANGED vars
  BY <1>2, <1>9 DEF vars
<1>10. ASSUME NEW b, CookieExpires(b) PROVE FALSE
  BY <1>2, <1>10 DEF CookieExpires
<1> QED
  BY <1>3, <1>5, <1>6, <1>7, <1>8, <1>9, <1>10 DEF Next

\* A row that another identity's callback meets at its SELECT or INSERT belongs to a
\* callback that contests it.
LEMMA TakenOpposes ==
  ASSUME TypeInv, CallbacksFit, LinksProved, NEW r \in Requests, IsCallback(r),
         req[r].pc \in InCallback, NEW i \in Taken(r),
         \/ links[i].user # Owner(r)
         \/ i \in Requests \ {r} /\ i \notin prior[r] /\ r \notin prior[i]
  PROVE  Opposed(r)
<1>1. i \in DOMAIN links /\ SameIdentity(links[i], Proved(r))
  BY DEF Taken
<1>2. CASE i \in OldLinks /\ links[i] = OldLink[i]
  <2>1. i \notin Requests
    BY <1>2, NamesAssumption
  <2> QED
    BY <1>1, <1>2, <2>1 DEF Opposed
<1>3. CASE /\ i \in Requests /\ IsCallback(i) /\ req[i].pc \in {"answer", "done"}
           /\ links[i] = Proved(i)
  <2>1. i # r /\ links[i].user = Owner(i)
    BY <1>3 DEF InCallback, Proved
  <2> QED
    BY <1>1, <1>3, <2>1 DEF Opposed
<1> QED
  BY <1>1, <1>2, <1>3 DEF LinksProved

LEMMA ErrorsFitKept ==
  ASSUME TypeInv, ErrorInv, [Next]_vars
  PROVE  ErrorsFit'
<1> USE DEF ErrorInv
<1>1. ASSUME NEW r \in Requests, IsCallback(r), Reason(r), Failed(r)'
      PROVE  Reason(r)'
  BY <1>1, ReasonLasts
<1>2. ASSUME NEW r \in Requests, Failed(r)' PROVE Reason(r)'
  <2>1. CASE req[r].op = "callback" /\ req[r].status = "error"
    <3>1. IsCallback(r)
      BY <2>1 DEF NotYetFailed, IsCallback
    <3>2. /\ req'[r].target = req[r].target
          /\ flow'[req[r].target].person = flow[req[r].target].person
      BY <3>1, CallbackLasts
    <3>3. Reason(r)
      BY <1>2, <2>1, <3>2 DEF Failed, ErrorsFit
    <3> QED
      BY <1>1, <1>2, <3>1, <3>3
  <2>2. ASSUME NEW f \in DOMAIN flow, Callback(r, f), req'[r].target = f, flow' = flow,
               pkce[flow[f].provider] # "off", ~Exchanges(pkce[flow[f].provider], f)
        PROVE  Reason(r)'
    <3>1. Came(r)
      BY <2>2, CallbackCame
    <3>2. flow[f].person # None
      BY <1>2, <2>2 DEF Failed
    <3>3. CASE f \in reloaded
      BY <2>2, <3>1, <3>3 DEF Came, Reason
    <3>4. CASE f \notin reloaded
      <4>1. AssertPkce(pkce[flow[f].provider], flow[f].verifier)
        BY <3>4 DEF VerifierFits
      <4>2. flow[f].code = "used"
        BY <2>2, <3>2, <4>1 DEF CodesFit, Exchanges
      <4>3. PICK x \in Requests : IsCallback(x) /\ req[x].target = f
        BY <4>2 DEF CodesFit
      <4>4. x # r /\ req'[x] = req[x]
        BY <3>1, <4>3 DEF Came, Others, IsCallback
      <4> QED
        BY <2>2, <4>3, <4>4 DEF Reason, IsCallback
    <3> QED
      BY <3>3, <3>4
  <2>3. CASE req[r].pc = "find" /\ ~(Taken(r) \subseteq LinksOf(Owner(r)))
    <3>1. IsCallback(r) /\ req[r].pc \in InCallback
      BY <2>3 DEF TypeInv, Handlers, InCallback, IsCallback
    <3>2. PICK i \in Taken(r) : links[i].user # Owner(r)
      BY <2>3 DEF Taken, LinksOf
    <3>3. Opposed(r)
      BY <3>1, <3>2, TakenOpposes
    <3> QED
      BY <1>1, <1>2, <3>1, <3>3 DEF Reason
  <2>4. CASE req[r].pc = "create" /\ ~Accepts(r)
    <3>1. IsCallback(r) /\ req[r].pc \in InCallback
      BY <2>4 DEF TypeInv, Handlers, InCallback, IsCallback
    <3>2. CASE Owner(r) \notin users
      BY <1>1, <1>2, <3>1, <3>2 DEF Reason, Owner
    <3>3. CASE Owner(r) \in users
      <4>1. PICK i \in Taken(r) : i \in Requests \ {r} /\ i \notin prior[r] /\ r \notin prior[i]
        BY <2>4, <3>3 DEF Accepts, TakenByOverlap
      <4>2. Opposed(r)
        BY <3>1, <4>1, TakenOpposes
      <4> QED
        BY <1>1, <1>2, <3>1, <4>2 DEF Reason
    <3> QED
      BY <3>2, <3>3
  <2>5. req'[r].op = "callback" /\ req'[r].status = "error"
    BY <1>2 DEF Failed
  <2> QED
    BY <2>1, <2>2, <2>3, <2>4, <2>5, NewError
<1> QED
  BY <1>2 DEF ErrorsFit

LEMMA NextErrorInv == TypeInv /\ ErrorInv /\ [Next]_vars => ErrorInv'
<1> SUFFICES ASSUME TypeInv, ErrorInv, [Next]_vars PROVE ErrorInv'
  OBVIOUS
<1>1. /\ PriorDone /\ CallbacksFit /\ NotYetFailed /\ VerifierFits /\ CodesFit
      /\ LinksProved /\ TakenByOverlap /\ ErrorsFit
  BY DEF ErrorInv
<1> QED
  BY <1>1, PriorDoneKept, CallbacksFitKept, NotYetFailedKept, VerifierFitsKept, CodesFitKept,
     LinksProvedKept, TakenByOverlapKept, ErrorsFitKept DEF ErrorInv

\* A callback whose user approved fails only because the provider or the database
\* failed it, the connector was changed, another callback brought the same state, the
\* account was deleted, or the identity was contested (router.ts:159, 186-215,
\* oauth2Connector.ts:31-38, 91-94, 113-124, oidcConnector.ts:63-77).
THEOREM CallbackFails == Spec => []CallbackFailsForAReason
<1>1. ErrorInv => CallbackFailsForAReason
  BY DEF ErrorInv, ErrorsFit, Failed, Faulted, Reason, Opposed, IsCallback,
         CallbackFailsForAReason, Contested
<1> QED
  BY <1>1, InitTypeInv, NextTypeInv, InitErrorInv, NextErrorInv, PTL DEF Spec

------------------------------------------------------------------------------
(* VRChat verification, which the portal starts and leaves running           *)
(* (router.ts:265, 299): VRChatVerification, for any number of verifications *)
(* and VRChat users, any deadline and any number of failures.                *)

\* The step a verification is at fits its mode, its clock and its polls.
OnTheClock ==
  \A r \in Verifications :
    /\ pc[r] \in {"idle", "send"} => elapsed[r] = 0 /\ polls[r] = 0
    /\ pc[r] = "poll" => elapsed[r] < Deadline /\ polls[r] <= elapsed[r]
    /\ pc[r] = "sleep" => elapsed[r] < Deadline /\ polls[r] <= elapsed[r] + 1
    /\ pc[r] \in {"send", "cleanup"} => mode[r] = "friend"
    /\ r \in verified => pc[r] \in {"cleanup", "done", "crashed"}

\* A friend that a verification can see accepted while it ran, and a code in a bio
\* was pasted there.
SeenIsDone ==
  /\ \A r \in Verifications :
       /\ mode[r] = "friend" /\ pc[r] \in {"poll", "sleep"} /\ relation[target[r]] = "friends"
          => r \in accepted
  /\ \A t \in VRChatUsers : bio[t] # NoCode => bio[t] \in pasted

\* Verification r will take back the bot's request to t, or end the friendship.
Unties(r, t) ==
  /\ target[r] = t
  /\ \/ pc[r] = "crashed"
     \/ /\ relation[t] = "requested" /\ mode[r] = "friend"
        /\ pc[r] \in {"poll", "sleep"} \/ (pc[r] = "cleanup" /\ r \notin verified)
     \/ /\ relation[t] = "friends" /\ mode[r] = "friend"
        /\ \/ pc[r] = "poll"
           \/ pc[r] = "sleep" /\ elapsed[r] + 1 < Deadline
           \/ pc[r] = "cleanup" /\ r \in verified

TiedIsUntied ==
  \A t \in VRChatUsers :
    relation[t] # "none" /\ t \notin late => \E r \in Verifications : Unties(r, t)

VRChatInv ==
  VRChatTypeOK /\ OnTheClock /\ SeenIsDone /\ VerifiedByTheUser /\ TiedIsUntied

LEMMA InitVRChatInv == VRChatInit => VRChatInv
<1> SUFFICES ASSUME VRChatInit PROVE VRChatInv
  OBVIOUS
<1>1. VRChatTypeOK
  BY DeadlineAssumption, MaxFailuresAssumption DEF VRChatInit, VRChatTypeOK, PCs
<1>2. OnTheClock /\ SeenIsDone /\ VerifiedByTheUser /\ TiedIsUntied
  BY DEF VRChatInit, OnTheClock, SeenIsDone, VerifiedByTheUser, TiedIsUntied
<1> QED
  BY <1>1, <1>2 DEF VRChatInv

LEMMA StartInv ==
  ASSUME VRChatInv, NEW r \in Verifications, Start(r)
  PROVE  VRChatInv'
<1>1. /\ VRChatTypeOK /\ OnTheClock /\ SeenIsDone /\ VerifiedByTheUser
      /\ TiedIsUntied
  BY DEF VRChatInv
<1>2. /\ pc[r] = "idle" /\ pc'[r] = IF mode[r] = "friend" THEN "send" ELSE "poll"
      /\ pc' \in [Verifications -> PCs]
      /\ \A x \in Verifications \ {r} : pc'[x] = pc[x]
      /\ UNCHANGED <<relation, bio, mode, target, elapsed, verified, polls, accepted,
                     pasted, late, failures>>
  BY <1>1 DEF Start, Goto, VRChatTypeOK, PCs, vrchat, history
<1>3. VRChatTypeOK'
  BY <1>1, <1>2 DEF VRChatTypeOK
<1>4. OnTheClock'
  BY <1>1, <1>2, DeadlineAssumption DEF OnTheClock, VRChatTypeOK
<1>5. SeenIsDone' /\ VerifiedByTheUser'
  BY <1>1, <1>2 DEF SeenIsDone, VerifiedByTheUser
<1>6. TiedIsUntied'
  BY <1>1, <1>2 DEF TiedIsUntied, Unties
<1> QED
  BY <1>1, <1>3, <1>4, <1>5, <1>6 DEF VRChatInv

LEMMA SendInv ==
  ASSUME VRChatInv, NEW r \in Verifications, Send(r)
  PROVE  VRChatInv'
<1>1. /\ VRChatTypeOK /\ OnTheClock /\ SeenIsDone /\ VerifiedByTheUser
      /\ TiedIsUntied
  BY DEF VRChatInv
<1>2. /\ pc[r] = "send" /\ pc'[r] = "poll" /\ mode[r] = "friend"
      /\ pc' \in [Verifications -> PCs]
      /\ \A x \in Verifications \ {r} : pc'[x] = pc[x]
      /\ relation[target[r]] # "friends"
      /\ relation' \in [VRChatUsers -> {"none", "requested", "friends"}]
      /\ relation'[target[r]] = "requested"
      /\ \A t \in VRChatUsers : t # target[r] => relation'[t] = relation[t]
      /\ UNCHANGED <<bio, mode, target, elapsed, verified, polls, accepted, pasted, late, failures>>
  BY <1>1
     DEF Send, Goto, With, VRChatTypeOK, PCs, history,
         OnTheClock
<1>3. VRChatTypeOK'
  BY <1>1, <1>2 DEF VRChatTypeOK
<1>4. OnTheClock'
  BY <1>1, <1>2, DeadlineAssumption DEF OnTheClock, VRChatTypeOK
<1>5. SeenIsDone' /\ VerifiedByTheUser'
  BY <1>1, <1>2 DEF SeenIsDone, VerifiedByTheUser, VRChatTypeOK
<1>6. TiedIsUntied'
  <2>1. ASSUME NEW t \in VRChatUsers, relation'[t] # "none", t \notin late'
        PROVE  \E x \in Verifications : Unties(x, t)'
    <3>1. CASE t = target[r]
      BY <1>2, <3>1 DEF Unties
    <3>2. CASE t # target[r]
      <4>1. PICK x \in Verifications : Unties(x, t)
        BY <1>1, <1>2, <2>1, <3>2 DEF TiedIsUntied
      <4> QED
        BY <1>2, <3>2, <4>1 DEF Unties
    <3> QED
      BY <3>1, <3>2
  <2> QED
    BY <2>1 DEF TiedIsUntied
<1> QED
  BY <1>1, <1>3, <1>4, <1>5, <1>6 DEF VRChatInv

LEMMA PollInv ==
  ASSUME VRChatInv, NEW r \in Verifications, Poll(r)
  PROVE  VRChatInv'
<1>1. /\ VRChatTypeOK /\ OnTheClock /\ SeenIsDone /\ VerifiedByTheUser
      /\ TiedIsUntied
  BY DEF VRChatInv
<1>2. PICK now \in elapsed[r]..(elapsed[r] + 1) :
        /\ now <= Deadline
        /\ elapsed' = [elapsed EXCEPT ![r] = now]
        /\ \/ /\ Proof(r)
              /\ verified' = verified \cup {r}
              /\ Goto(r, "poll", AfterLoop(r))
           \/ /\ ~Proof(r)
              /\ Goto(r, "poll", IF now >= Deadline THEN AfterLoop(r) ELSE "sleep")
              /\ UNCHANGED verified
        /\ PollFrame(r)
  BY DEF Poll
<1>3. /\ pc[r] = "poll" /\ elapsed[r] \in 0..Deadline /\ polls[r] \in 0..Deadline
      /\ elapsed[r] < Deadline /\ polls[r] <= elapsed[r] /\ r \notin verified
      /\ now \in 0..Deadline /\ elapsed[r] <= now
  BY <1>1, <1>2, DeadlineAssumption DEF Goto, OnTheClock, VRChatTypeOK
<1>4. /\ elapsed' \in [Verifications -> 0..Deadline] /\ polls' \in [Verifications -> 0..Deadline]
      /\ elapsed'[r] = now /\ polls'[r] = polls[r] + 1
      /\ \A x \in Verifications \ {r} : elapsed'[x] = elapsed[x] /\ polls'[x] = polls[x]
      /\ UNCHANGED <<relation, bio, mode, target, accepted, pasted, late, failures>>
  BY <1>1, <1>2, <1>3, DeadlineAssumption
     DEF PollFrame, VRChatTypeOK, vrchat, history
<1>5. /\ pc' \in [Verifications -> PCs]
      /\ \A x \in Verifications \ {r} : pc'[x] = pc[x]
      /\ \/ /\ Proof(r) /\ verified' = verified \cup {r}
            /\ pc'[r] = IF mode[r] = "friend" THEN "cleanup" ELSE "done"
         \/ /\ ~Proof(r) /\ verified' = verified
            /\ \/ pc'[r] = "sleep" /\ now < Deadline
               \/ pc'[r] = IF mode[r] = "friend" THEN "cleanup" ELSE "done"
  BY <1>1, <1>2, <1>3, DeadlineAssumption
     DEF Goto, AfterLoop, VRChatTypeOK, PCs
<1>6. VRChatTypeOK'
  BY <1>1, <1>4, <1>5 DEF VRChatTypeOK
<1>7. OnTheClock'
  <2>1. ASSUME NEW x \in Verifications
        PROVE  /\ pc'[x] \in {"idle", "send"} => elapsed'[x] = 0 /\ polls'[x] = 0
               /\ pc'[x] = "poll" => elapsed'[x] < Deadline /\ polls'[x] <= elapsed'[x]
               /\ pc'[x] = "sleep" => elapsed'[x] < Deadline /\ polls'[x] <= elapsed'[x] + 1
               /\ pc'[x] \in {"send", "cleanup"} => mode'[x] = "friend"
               /\ x \in verified' => pc'[x] \in {"cleanup", "done", "crashed"}
    <3>1. CASE x = r
      BY <1>3, <1>4, <1>5, <3>1
    <3>2. CASE x # r
      BY <1>1, <1>4, <1>5, <3>2 DEF OnTheClock
    <3> QED
      BY <3>1, <3>2
  <2> QED
    BY <2>1 DEF OnTheClock
<1>8. SeenIsDone'
  BY <1>1, <1>3, <1>4, <1>5 DEF SeenIsDone
<1>9. VerifiedByTheUser'
  <2>1. Proof(r) => r \in IF mode[r] = "friend" THEN accepted ELSE pasted
    BY <1>1, <1>3, NoCodeAssumption DEF Proof, With, SeenIsDone, VRChatTypeOK
  <2> QED
    BY <1>1, <1>4, <1>5, <2>1 DEF VerifiedByTheUser
<1>10. TiedIsUntied'
  <2>1. ASSUME NEW t \in VRChatUsers, relation'[t] # "none", t \notin late'
        PROVE  \E x \in Verifications : Unties(x, t)'
    <3>1. PICK x \in Verifications : Unties(x, t)
      BY <1>1, <1>4, <2>1 DEF TiedIsUntied
    <3>2. CASE x # r
      BY <1>4, <1>5, <3>1, <3>2 DEF Unties
    <3>3. CASE x = r
      <4>1. Proof(r) <=> relation[t] = "friends"
        BY <1>3, <3>1, <3>3 DEF Unties, Proof, With
      <4>2. mode[r] = "friend" /\ target[r] = t
        BY <1>3, <3>1, <3>3 DEF Unties
      <4>3. Unties(r, t)'
        BY <1>1, <1>3, <1>4, <1>5, <2>1, <4>1, <4>2 DEF Unties, VRChatTypeOK
      <4> QED
        BY <4>3
    <3> QED
      BY <3>2, <3>3
  <2> QED
    BY <2>1 DEF TiedIsUntied
<1> QED
  BY <1>1, <1>6, <1>7, <1>8, <1>9, <1>10 DEF VRChatInv

LEMMA SleepInv ==
  ASSUME VRChatInv, NEW r \in Verifications, Sleep(r)
  PROVE  VRChatInv'
<1>1. /\ VRChatTypeOK /\ OnTheClock /\ SeenIsDone /\ VerifiedByTheUser
      /\ TiedIsUntied
  BY DEF VRChatInv
<1>2. /\ pc[r] = "sleep" /\ elapsed[r] \in 0..Deadline /\ polls[r] \in 0..Deadline
      /\ elapsed[r] < Deadline /\ polls[r] <= elapsed[r] + 1 /\ r \notin verified
  BY <1>1 DEF Sleep, Goto, OnTheClock, VRChatTypeOK
<1>3. /\ elapsed' \in [Verifications -> 0..Deadline] /\ elapsed'[r] = elapsed[r] + 1
      /\ \A x \in Verifications \ {r} : elapsed'[x] = elapsed[x]
      /\ UNCHANGED <<relation, bio, mode, target, verified, polls, accepted, pasted,
                     late, failures>>
  BY <1>1, <1>2, DeadlineAssumption
     DEF Sleep, SleepFrame, VRChatTypeOK, vrchat, history
<1>4. /\ pc' \in [Verifications -> PCs]
      /\ \A x \in Verifications \ {r} : pc'[x] = pc[x]
      /\ IF elapsed[r] + 1 < Deadline
         THEN pc'[r] = "poll"
         ELSE pc'[r] = IF mode[r] = "friend" THEN "cleanup" ELSE "done"
  BY <1>1, <1>2
     DEF Sleep, Goto, AfterLoop, VRChatTypeOK, PCs
<1>5. VRChatTypeOK'
  BY <1>1, <1>3, <1>4 DEF VRChatTypeOK
<1>6. OnTheClock'
  <2>1. ASSUME NEW x \in Verifications
        PROVE  /\ pc'[x] \in {"idle", "send"} => elapsed'[x] = 0 /\ polls'[x] = 0
               /\ pc'[x] = "poll" => elapsed'[x] < Deadline /\ polls'[x] <= elapsed'[x]
               /\ pc'[x] = "sleep" => elapsed'[x] < Deadline /\ polls'[x] <= elapsed'[x] + 1
               /\ pc'[x] \in {"send", "cleanup"} => mode'[x] = "friend"
               /\ x \in verified' => pc'[x] \in {"cleanup", "done", "crashed"}
    <3>1. CASE x = r
      BY <1>2, <1>3, <1>4, <3>1
    <3>2. CASE x # r
      BY <1>1, <1>3, <1>4, <3>2 DEF OnTheClock
    <3> QED
      BY <3>1, <3>2
  <2> QED
    BY <2>1 DEF OnTheClock
<1>7. SeenIsDone' /\ VerifiedByTheUser'
  BY <1>1, <1>2, <1>3, <1>4 DEF SeenIsDone, VerifiedByTheUser
<1>8. TiedIsUntied'
  <2>1. ASSUME NEW t \in VRChatUsers, relation'[t] # "none", t \notin late'
        PROVE  \E x \in Verifications : Unties(x, t)'
    <3>1. PICK x \in Verifications : Unties(x, t)
      BY <1>1, <1>3, <2>1 DEF TiedIsUntied
    <3>2. CASE x # r
      BY <1>3, <1>4, <3>1, <3>2 DEF Unties
    <3>3. CASE x = r
      BY <1>2, <1>3, <1>4, <3>1, <3>3 DEF Unties
    <3> QED
      BY <3>2, <3>3
  <2> QED
    BY <2>1 DEF TiedIsUntied
<1> QED
  BY <1>1, <1>5, <1>6, <1>7, <1>8 DEF VRChatInv

LEMMA CleanUpInv ==
  ASSUME VRChatInv, NEW r \in Verifications, CleanUp(r)
  PROVE  VRChatInv'
<1>1. /\ VRChatTypeOK /\ OnTheClock /\ SeenIsDone /\ VerifiedByTheUser
      /\ TiedIsUntied
  BY DEF VRChatInv
<1>2. /\ pc[r] = "cleanup" /\ pc'[r] = "done"
      /\ pc' \in [Verifications -> PCs]
      /\ \A x \in Verifications \ {r} : pc'[x] = pc[x]
      /\ UNCHANGED <<bio, mode, target, elapsed, verified, polls, accepted, pasted, late, failures>>
  BY <1>1 DEF CleanUp, Goto, VRChatTypeOK, PCs, history
<1>3. /\ relation' \in [VRChatUsers -> {"none", "requested", "friends"}]
      /\ \A t \in VRChatUsers : t # target[r] => relation'[t] = relation[t]
      /\ \/ relation'[target[r]] = "none"
         \/ /\ r \notin verified /\ relation[target[r]] # "requested"
            /\ relation'[target[r]] = relation[target[r]]
  BY <1>1 DEF CleanUp, VRChatTypeOK
<1>4. VRChatTypeOK'
  BY <1>1, <1>2, <1>3 DEF VRChatTypeOK
<1>5. OnTheClock'
  BY <1>1, <1>2 DEF OnTheClock
<1>6. SeenIsDone' /\ VerifiedByTheUser'
  BY <1>1, <1>2, <1>3 DEF SeenIsDone, VerifiedByTheUser, VRChatTypeOK
<1>7. TiedIsUntied'
  <2>1. ASSUME NEW t \in VRChatUsers, relation'[t] # "none", t \notin late'
        PROVE  \E x \in Verifications : Unties(x, t)'
    <3>1. relation'[t] = relation[t]
      BY <1>3, <2>1
    <3>2. PICK x \in Verifications : Unties(x, t)
      BY <1>1, <1>2, <2>1, <3>1 DEF TiedIsUntied
    <3>3. x # r
      BY <1>2, <1>3, <2>1, <3>1, <3>2 DEF Unties
    <3> QED
      BY <1>2, <3>1, <3>2, <3>3 DEF Unties
  <2> QED
    BY <2>1 DEF TiedIsUntied
<1> QED
  BY <1>1, <1>4, <1>5, <1>6, <1>7 DEF VRChatInv

LEMMA ThrowInv ==
  ASSUME VRChatInv, NEW r \in Verifications, Throw(r)
  PROVE  VRChatInv'
<1>1. /\ VRChatTypeOK /\ OnTheClock /\ SeenIsDone /\ VerifiedByTheUser
      /\ TiedIsUntied
  BY DEF VRChatInv
<1>2. /\ pc' \in [Verifications -> PCs]
      /\ \A x \in Verifications : pc'[x] = IF pc[x] \in Running THEN "crashed" ELSE pc[x]
      /\ failures' \in 0..MaxFailures
      /\ UNCHANGED <<relation, bio, mode, target, elapsed, verified, polls, accepted, pasted, late>>
  BY <1>1, MaxFailuresAssumption
     DEF Throw, VRChatTypeOK, PCs, vrchat, history
<1>3. VRChatTypeOK'
  BY <1>1, <1>2 DEF VRChatTypeOK
<1>4. OnTheClock'
  BY <1>1, <1>2 DEF OnTheClock, Running
<1>5. SeenIsDone' /\ VerifiedByTheUser'
  BY <1>1, <1>2 DEF SeenIsDone, VerifiedByTheUser, Running
<1>6. TiedIsUntied'
  BY <1>1, <1>2 DEF TiedIsUntied, Unties, Running
<1> QED
  BY <1>1, <1>3, <1>4, <1>5, <1>6 DEF VRChatInv

\* The users do not move a verification.
LEMMA UserInv ==
  ASSUME VRChatInv, NEW t \in VRChatUsers,
         \/ Accept(t) \/ Decline(t) \/ \E r \in Verifications : Paste(t, r)
  PROVE  VRChatInv'
<1>1. /\ VRChatTypeOK /\ OnTheClock /\ SeenIsDone /\ VerifiedByTheUser
      /\ TiedIsUntied
  BY DEF VRChatInv
<1>2. UNCHANGED <<pc, mode, target, elapsed, verified, polls, failures>>
  BY DEF Accept, Decline, Paste, UserFrame
<1>3. OnTheClock'
  BY <1>1, <1>2 DEF OnTheClock
<1>4. CASE Accept(t)
  <2>1. /\ relation[t] = "requested" /\ relation'[t] = "friends"
        /\ relation' \in [VRChatUsers -> {"none", "requested", "friends"}]
        /\ \A u \in VRChatUsers : u # t => relation'[u] = relation[u]
        /\ accepted' = accepted \cup {r \in Verifications : /\ target[r] = t
                                                          /\ mode[r] = "friend"
                                                          /\ pc[r] \in Running}
        /\ late \subseteq late' /\ late' \subseteq late \cup {t}
        /\ (\E r \in Verifications : target[r] = t /\ PastLastPoll(r)) => t \in late'
        /\ UNCHANGED <<bio, pasted>>
    BY <1>1, <1>4 DEF Accept, VRChatTypeOK
  <2>2. VRChatTypeOK'
    BY <1>1, <1>2, <2>1 DEF VRChatTypeOK
  <2>3. SeenIsDone' /\ VerifiedByTheUser'
    BY <1>1, <1>2, <2>1 DEF SeenIsDone, VerifiedByTheUser, Running, VRChatTypeOK
  <2>4. TiedIsUntied'
    <3>1. ASSUME NEW u \in VRChatUsers, relation'[u] # "none", u \notin late'
          PROVE  \E x \in Verifications : Unties(x, u)'
      <4>1. PICK x \in Verifications : Unties(x, u)
        BY <1>1, <2>1, <3>1 DEF TiedIsUntied
      <4>2. CASE u # t
        BY <1>2, <2>1, <4>1, <4>2 DEF Unties
      <4>3. CASE u = t
        <5>1. ~PastLastPoll(x)
          BY <2>1, <3>1, <4>1, <4>3 DEF Unties
        <5>2. pc[x] = "sleep" => elapsed[x] \in 0..Deadline /\ x \notin verified
          BY <1>1 DEF OnTheClock, VRChatTypeOK
        <5> QED
          BY <1>1, <1>2, <2>1, <4>1, <4>3, <5>1, <5>2, DeadlineAssumption
             DEF Unties, PastLastPoll
      <4> QED
        BY <4>2, <4>3
    <3> QED
      BY <3>1 DEF TiedIsUntied
  <2> QED
    BY <1>1, <1>3, <2>2, <2>3, <2>4 DEF VRChatInv
<1>5. CASE Decline(t)
  <2>1. /\ relation'[t] = "none" /\ relation' \in [VRChatUsers -> {"none", "requested", "friends"}]
        /\ \A u \in VRChatUsers : u # t => relation'[u] = relation[u]
        /\ UNCHANGED <<bio, accepted, pasted, late>>
    BY <1>1, <1>5 DEF Decline, VRChatTypeOK, history
  <2>2. VRChatTypeOK'
    BY <1>1, <1>2, <2>1 DEF VRChatTypeOK
  <2>3. SeenIsDone' /\ VerifiedByTheUser'
    BY <1>1, <1>2, <2>1 DEF SeenIsDone, VerifiedByTheUser, VRChatTypeOK
  <2>4. TiedIsUntied'
    BY <1>1, <1>2, <2>1 DEF TiedIsUntied, Unties
  <2> QED
    BY <1>1, <1>3, <2>2, <2>3, <2>4 DEF VRChatInv
<1>6. ASSUME NEW r \in Verifications, Paste(t, r) PROVE VRChatInv'
  <2>1. /\ bio' \in [VRChatUsers -> Verifications \cup {NoCode}]
        /\ \A u \in VRChatUsers : bio'[u] = IF u = t THEN r ELSE bio[u]
        /\ pasted' = pasted \cup {r}
        /\ UNCHANGED <<relation, accepted, late>>
    BY <1>1, <1>6 DEF Paste, VRChatTypeOK
  <2>2. VRChatTypeOK'
    BY <1>1, <1>2, <2>1 DEF VRChatTypeOK
  <2>3. SeenIsDone' /\ VerifiedByTheUser'
    BY <1>1, <1>2, <2>1 DEF SeenIsDone, VerifiedByTheUser
  <2>4. TiedIsUntied'
    BY <1>1, <1>2, <2>1 DEF TiedIsUntied, Unties
  <2> QED
    BY <1>1, <1>3, <2>2, <2>3, <2>4 DEF VRChatInv
<1> QED
  BY <1>4, <1>5, <1>6

LEMMA NextVRChatInv == VRChatInv /\ [VRChatNext]_(vrchatVars) => VRChatInv'
<1> SUFFICES ASSUME VRChatInv, [VRChatNext]_(vrchatVars) PROVE VRChatInv'
  OBVIOUS
<1>1. ASSUME UNCHANGED vrchatVars PROVE VRChatInv'
  BY <1>1, NoCodeAssumption
     DEF vrchatVars, vrchat, history, VRChatInv, VRChatTypeOK,
         OnTheClock, SeenIsDone, VerifiedByTheUser, TiedIsUntied, Unties
<1> QED
  BY <1>1, StartInv, SendInv, PollInv, SleepInv, CleanUpInv, ThrowInv, UserInv
     DEF VRChatNext, VerificationStep, Rest

\* A verification polls only before its deadline (verification.ts:56, 62).
THEOREM VerificationTypeCorrect == VRChatSpec => []VRChatTypeOK
<1>1. VRChatInv => VRChatTypeOK
  BY DEF VRChatInv
<1> QED
  BY <1>1, InitVRChatInv, NextVRChatInv, PTL DEF VRChatSpec

\* Nobody is verified without having acted: the user accepted the bot's request while
\* the verification ran, or pasted its code and no other (verification.ts:59, 88-91).
THEOREM UsersVerifyThemselves == VRChatSpec => []VerifiedByTheUser
<1>1. VRChatInv => VerifiedByTheUser
  BY DEF VRChatInv
<1> QED
  BY <1>1, InitVRChatInv, NextVRChatInv, PTL DEF VRChatSpec

\* Once no verification of a user runs and none threw, the bot is tied to the user
\* only by an acceptance after the last poll of one (verification.ts:86-100).
THEOREM TiesAreUndone == VRChatSpec => []TiedOnlyByLateAcceptance
<1>1. VRChatInv => TiedOnlyByLateAcceptance
  BY DEF VRChatInv, TiedIsUntied, Unties, TiedOnlyByLateAcceptance
<1> QED
  BY <1>1, InitVRChatInv, NextVRChatInv, PTL DEF VRChatSpec
================================================================================
