-------------------------- MODULE AdminConsole_proofs --------------------------
(***************************************************************************)
(* Proofs about AdminConsole, for any number of administrators, tabs, forms  *)
(* and clients: its types, what the session says, what a second press of a   *)
(* button does, and what a form undoes.  At the end, about SdkSession, the   *)
(* session of a client that uses the SDK instead.                           *)
(***************************************************************************)
EXTENDS AdminConsole, SdkSession, TLAPS

------------------------------------------------------------------------------
(* Pages and rows.                                                         *)

Shows == ClientIds \cup {"list", "new"}

LEMMA Names ==
  /\ "list" \notin ClientIds /\ "new" \notin ClientIds /\ None \notin Shows
  /\ None \notin Calls
BY NamesAssumption DEF ClientIds, Shows

LEMMA RowType ==
  ASSUME TypeOK, NEW c \in DOMAIN clients
  PROVE  /\ c \in ClientIds
         /\ clients[c].fields \in [Fields -> Values] /\ clients[c].fields \in Forms
         /\ clients[c].secret \in ClientIds \cup {None}
BY DEF TypeOK, Rows, Forms

\* What a rendered page has, and of whom.
LEMMA RenderedPage ==
  ASSUME TypeOK, NEW p \in Page, NEW a \in Admins, NEW x \in Shows \cup {None},
         NEW ok \in BOOLEAN, NEW layout \in BOOLEAN,
         NEW q, q = Rendered(p, a, x, ok, layout)
  PROVE  /\ q \in Page
         /\ q.pending = None /\ q.sent = p.sent /\ q.admin = a
         /\ q.seen \subseteq saved
         /\ q.at \in {x, "list"}
         /\ q.at \in ClientIds =>
              /\ q.at = x /\ x \in DOMAIN clients /\ q.pc = "shown"
              /\ q.fields = clients[x].fields /\ q.seen = saved /\ q.secret = p.secret
         /\ q.usesSecret => q.at = x /\ x \in DOMAIN clients /\ clients[x].secret # None
<1> DEFINE shown == Outcome(a, x, ok, layout) = "shown"
           known == shown /\ x \in DOMAIN clients
<1>1. /\ q.pc = Outcome(a, x, ok, layout) /\ q.admin = a
      /\ q.at = IF shown THEN x ELSE "list"
      /\ q.fields = IF known THEN clients[x].fields ELSE NoFields
      /\ q.usesSecret = (known /\ clients[x].secret # None)
      /\ q.secret = IF known THEN p.secret ELSE None
      /\ q.pending = None /\ q.seen = IF known THEN saved ELSE {}
      /\ q.sent = p.sent
      /\ q = [pc |-> q.pc, admin |-> q.admin, at |-> q.at, fields |-> q.fields,
              usesSecret |-> q.usesSecret, secret |-> q.secret, pending |-> q.pending,
              seen |-> q.seen, sent |-> q.sent]
  BY DEF Rendered, Page
<1>2. /\ Outcome(a, x, ok, layout) \in {"login", "forbidden", "shown", "error", "notFound"}
      /\ shown => x \in {"new", "list"} \/ x \in DOMAIN clients
  BY DEF Outcome
<1>3. p.secret \in ClientIds \cup {None} /\ p.sent \in SUBSET Calls
  BY DEF Page
<1>4. NoFields \in Forms /\ saved \in SUBSET Calls
  BY DEF NoFields, Forms, TypeOK
<1>5. known => clients[x].fields \in Forms
  BY RowType
<1>6. q.at \in Shows
  BY <1>1, <1>2, Names, RowType DEF Shows
<1>7. q \in Page
  BY <1>1, <1>2, <1>3, <1>4, <1>5, <1>6 DEF Page, Shows
<1>8. q.at \in ClientIds => known
  BY <1>1, <1>2, Names
<1> QED
  BY <1>1, <1>7, <1>8

------------------------------------------------------------------------------
(* Type correctness.                                                       *)

\* A call of a form that has fields writes values only.
Filled ==
  \A r \in Calls :
    call[r].pc \in {"gate", "serve"} /\ call[r].op # "rotate" =>
      call[r].fields \in [Fields -> Values]

TypeInv == TypeOK /\ Filled

LEMMA InitTypeInv == Init => TypeInv
<1> SUFFICES ASSUME Init PROVE TypeInv
  OBVIOUS
<1>1. SomeAdmin \in Admins /\ SomeTab \in Tabs
  BY ActorsAssumption DEF SomeAdmin, SomeTab
<1>2. NoFields \in Forms
  BY DEF NoFields, Forms
<1>3. \A c \in DOMAIN clients : clients[c] \in Rows
  <2>1. [f \in Fields |-> First] \in [Fields -> Values]
    BY NamesAssumption
  <2>2. \A c \in FirstClients : clients[c] = [fields |-> [f \in Fields |-> First], secret |-> c]
    BY DEF Init
  <2>3. DOMAIN clients = FirstClients
    BY DEF Init
  <2> QED
    BY <2>1, <2>2, <2>3 DEF Rows, ClientIds
<1>4. page \in [Tabs -> Page]
  BY <1>1, <1>2 DEF Init, Page
<1>5. call \in [Calls -> Call]
  BY <1>1, <1>2 DEF Init, Call
<1>6. \A t \in Tabs : page[t].pending = None
  BY DEF Init
<1>7. \A r \in Calls : call[r].pc = "idle"
  BY DEF Init
<1>8. DOMAIN clients \subseteq ClientIds
  BY DEF Init, ClientIds
<1>9. /\ managers \subseteq Admins /\ saved \subseteq Calls /\ changed \subseteq Admins
      /\ session \in [Admins -> {"none", "user", "manager"}]
      /\ changes \in 0..MaxChanges
  BY MaxChangesAssumption DEF Init
<1> QED
  BY <1>3, <1>4, <1>5, <1>6, <1>7, <1>8, <1>9 DEF TypeInv, TypeOK, Filled

\* The pages and calls that an action leaves behind, one by one.
OnePage(t, q) ==
  /\ page'[t] = q /\ \A u \in Tabs \ {t} : page'[u] = page[u]
  /\ page' \in [Tabs -> Page]

OneCall(r, x) ==
  /\ call'[r] = x /\ \A s \in Calls \ {r} : call'[s] = call[s]
  /\ call' \in [Calls -> Call]

Busy == {"gate", "serve", "answer"}

LEMMA CallType ==
  ASSUME TypeOK, NEW r \in Calls
  PROVE  /\ call[r] \in Call
         /\ call[r].tab \in Tabs /\ call[r].admin \in Admins /\ call[r].client \in Shows
         /\ page[call[r].tab] \in Page
BY DEF TypeOK, Call, Shows

LEMMA VisitEffect ==
  ASSUME TypeOK, NEW t \in Tabs, NEW a \in Admins, NEW x \in Shows \cup {None},
         NEW ok \in BOOLEAN, NEW layout \in BOOLEAN, Visit(t, a, x, ok, layout)
  PROVE  \E q \in Page :
           /\ OnePage(t, q)
           /\ q.pending = None /\ q.sent = {} /\ q.seen \subseteq saved
           /\ q.at \in ClientIds =>
                q.at \in DOMAIN clients /\ q.fields = clients[q.at].fields /\ q.seen = saved
           /\ q.usesSecret => q.at \in DOMAIN clients /\ clients[q.at].secret # None
<1> DEFINE p == Rendered(page[t], a, x, ok, layout)
           q == [p EXCEPT !.secret = None, !.sent = {}]
<1>1. page[t] \in Page
  BY DEF TypeOK
<1>2. /\ p \in Page
      /\ p.pending = None /\ p.seen \subseteq saved
      /\ p.at \in ClientIds =>
           /\ p.at = x /\ x \in DOMAIN clients
           /\ p.fields = clients[x].fields /\ p.seen = saved
      /\ p.usesSecret => p.at = x /\ x \in DOMAIN clients /\ clients[x].secret # None
  BY <1>1, RenderedPage
<1> HIDE DEF p
<1>3. /\ q \in Page /\ q.pending = p.pending /\ q.sent = {} /\ q.seen = p.seen /\ q.at = p.at
      /\ q.fields = p.fields /\ q.usesSecret = p.usesSecret
  BY <1>2 DEF Page
<1>4. page' = [page EXCEPT ![t] = q]
  BY DEF Visit, p
<1>5. OnePage(t, q)
  BY <1>3, <1>4 DEF OnePage, TypeOK
<1> QED
  BY <1>2, <1>3, <1>5

\* The page and the call of a submitted form: it is refused at once, or on its way.
Submitted(r, t, kind, E, v, q, x) ==
  /\ OnePage(t, q) /\ OneCall(r, x)
  /\ call[r].pc = "idle" /\ CanSend(t) /\ HasForm(t, kind)
  /\ q = [page[t] EXCEPT !.pending = q.pending, !.sent = page[t].sent \cup {r}]
  /\ \/ q.pending = None /\ x.pc = "failed"
     \/ /\ q.pending = r /\ x.pc = "gate" /\ x.op = kind /\ x.tab = t
        /\ x.admin = page[t].admin /\ x.client = page[t].at
        /\ x.edited = E /\ x.seen = page[t].seen /\ x.sent = page[t].sent
        /\ x.fields = Sent(t, E, v)
        /\ kind # "rotate" => \A f \in Fields : Sent(t, E, v)[f] # Blank

LEMMA SubmitEffect ==
  ASSUME TypeOK, NEW r \in Calls, NEW t \in Tabs, NEW kind \in {"create", "update", "rotate"},
         NEW E \in SUBSET Fields, NEW v \in Forms, NEW confidential \in BOOLEAN,
         Submit(r, t, kind, E, v, confidential)
  PROVE  \E q \in Page, x \in Call : Submitted(r, t, kind, E, v, q, x)
<1>1. page[t] \in Page /\ call[r] \in Call
  BY DEF TypeOK
<1>2. Sent(t, E, v) \in Forms
  BY <1>1 DEF Sent, Forms, Page
<1> DEFINE refused == session[page[t].admin] = "none"
                        \/ (kind # "rotate" /\ \E f \in Fields : Sent(t, E, v)[f] = Blank)
           q == [page[t] EXCEPT !.pending = IF refused THEN None ELSE r,
                                !.sent = page[t].sent \cup {r}]
           x == IF refused THEN [call[r] EXCEPT !.pc = "failed"]
                ELSE [pc |-> "gate", op |-> kind, tab |-> t, admin |-> page[t].admin,
                      client |-> page[t].at, fields |-> Sent(t, E, v), edited |-> E,
                      confidential |-> confidential, seen |-> page[t].seen, sent |-> page[t].sent]
<1>3. /\ call[r].pc = "idle" /\ CanSend(t) /\ HasForm(t, kind)
      /\ call' = [call EXCEPT ![r] = x]
      /\ page' = [page EXCEPT ![t].pending = IF refused THEN None ELSE r, ![t].sent = @ \cup {r}]
  BY DEF Submit
<1>4. /\ q \in Page /\ q.pending = IF refused THEN None ELSE r
      /\ q = [page[t] EXCEPT !.pending = q.pending, !.sent = page[t].sent \cup {r}]
  BY <1>1 DEF Page
<1>5. page' = [page EXCEPT ![t] = q]
  BY <1>1, <1>3 DEF TypeOK, Page
<1>6. x \in Call
  BY <1>1, <1>2 DEF Call, Page
<1>7. refused => q.pending = None /\ x.pc = "failed"
  BY <1>1, <1>4 DEF Call
<1>8. ~refused =>
        /\ q.pending = r /\ x.pc = "gate" /\ x.op = kind /\ x.tab = t
        /\ x.admin = page[t].admin /\ x.client = page[t].at
        /\ x.edited = E /\ x.seen = page[t].seen /\ x.sent = page[t].sent
        /\ x.fields = Sent(t, E, v)
        /\ kind # "rotate" => \A f \in Fields : Sent(t, E, v)[f] # Blank
  BY <1>4
<1> HIDE DEF refused, q, x
<1>9. OnePage(t, q) /\ OneCall(r, x)
  BY <1>3, <1>4, <1>5, <1>6 DEF OnePage, OneCall, TypeOK
<1> QED
  BY <1>3, <1>4, <1>6, <1>7, <1>8, <1>9 DEF Submitted

\* The end of a call releases the page that waits for it.
LEMMA ReleasedEffect ==
  ASSUME TypeOK, NEW r \in Calls, page' = Released(r)
  PROVE  \E q \in Page :
           /\ OnePage(call[r].tab, q)
           /\ q = [page[call[r].tab] EXCEPT !.pending = q.pending]
           /\ q.pending = IF page[call[r].tab].pending = r THEN None ELSE page[call[r].tab].pending
<1> DEFINE t == call[r].tab
           q == [page[t] EXCEPT !.pending = IF @ = r THEN None ELSE @]
<1>1. t \in Tabs /\ page[t] \in Page
  BY CallType
<1>2. q \in Page /\ q.pending = IF page[t].pending = r THEN None ELSE page[t].pending
  BY <1>1 DEF Page
<1>3. q = [page[t] EXCEPT !.pending = q.pending]
  BY <1>1 DEF Page
<1>4. page' = [page EXCEPT ![t] = q]
  BY <1>1 DEF Released, TypeOK, Page
<1>5. OnePage(t, q)
  BY <1>1, <1>2, <1>4 DEF OnePage, TypeOK
<1> QED
  BY <1>2, <1>3, <1>5

\* A step of a call that keeps what it has sent.
LEMMA PcEffect ==
  ASSUME TypeOK, NEW r \in Calls,
         NEW p \in {"serve", "failed", "done", "lost"}, call' = [call EXCEPT ![r].pc = p]
  PROVE  \E x \in Call : OneCall(r, x) /\ x = [call[r] EXCEPT !.pc = p]
<1>1. call[r] \in Call
  BY CallType
<1>2. [call[r] EXCEPT !.pc = p] \in Call
  BY <1>1 DEF Call
<1> QED
  BY <1>2 DEF OneCall, TypeOK

LEMMA AnswerEffect ==
  ASSUME TypeOK, NEW r \in Calls, NEW ok \in BOOLEAN, Answer(r, ok)
  PROVE  \E q \in Page :
           /\ OnePage(call[r].tab, q)
           /\ q.pending = None /\ q.sent = page[call[r].tab].sent /\ q.seen \subseteq saved
           /\ q.at \in {call[r].client, "list"} /\ (call[r].op = "create" => q.at = "list")
           /\ q.at \in ClientIds =>
                /\ q.at = call[r].client /\ q.at \in DOMAIN clients
                /\ q.fields = clients[q.at].fields /\ q.seen = saved
                /\ q.secret \in {page[call[r].tab].secret, r}
                /\ call[r].op = "rotate" /\ clients[q.at].secret # None => q.secret = r
           /\ q.usesSecret => /\ call[r].client \in DOMAIN clients
                              /\ clients[call[r].client].secret # None
                              /\ call[r].op # "create" => q.at = call[r].client
<1> DEFINE t == call[r].tab
           p == Refreshed(r, ok)
           q == Shown(r, ok)
<1>1. t \in Tabs /\ page[t] \in Page /\ call[r].admin \in Admins /\ call[r].client \in Shows
  BY CallType
<1>0. p = Rendered(page[t], call[r].admin, call[r].client, ok, TRUE)
  BY DEF Refreshed
<1> HIDE DEF p
<1>2. /\ p \in Page
      /\ p.pending = None /\ p.sent = page[t].sent
      /\ p.seen \subseteq saved
      /\ p.at \in {call[r].client, "list"}
      /\ p.at \in ClientIds =>
           /\ p.at = call[r].client /\ call[r].client \in DOMAIN clients /\ p.pc = "shown"
           /\ p.fields = clients[call[r].client].fields /\ p.seen = saved
           /\ p.secret = page[t].secret
      /\ p.usesSecret => /\ p.at = call[r].client /\ call[r].client \in DOMAIN clients
                         /\ clients[call[r].client].secret # None
  <2>1. PICK a \in Admins, x \in Shows \cup {None}, layout \in BOOLEAN :
          a = call[r].admin /\ x = call[r].client /\ layout = TRUE
    BY <1>1
  <2>2. PICK o \in Page : o = page[t]
    BY <1>1
  <2> DEFINE d == Rendered(o, a, x, ok, layout)
  <2>3. p = d
    BY <1>0, <2>1, <2>2
  <2>4. /\ d \in Page
        /\ d.pending = None /\ d.sent = o.sent
        /\ d.seen \subseteq saved
        /\ d.at \in {x, "list"}
        /\ d.at \in ClientIds =>
             /\ d.at = x /\ x \in DOMAIN clients /\ d.pc = "shown"
             /\ d.fields = clients[x].fields /\ d.seen = saved /\ d.secret = o.secret
        /\ d.usesSecret => d.at = x /\ x \in DOMAIN clients /\ clients[x].secret # None
    BY RenderedPage
  <2> HIDE DEF d
  <2> QED
    BY <2>1, <2>2, <2>3, <2>4
<1>3. q = [p EXCEPT !.pending = None,
                    !.at = IF call[r].op = "create" THEN "list" ELSE @,
                    !.secret = IF call[r].op # "update" /\ p.pc = "shown" /\ clients[
                                  IF call[r].op = "create" THEN r ELSE call[r].client].secret # None
                               THEN r ELSE @]
  BY DEF Shown, p
<1> HIDE DEF q
<1>4. r \in ClientIds
  BY DEF ClientIds
<1>5. q \in Page
  BY <1>2, <1>3, <1>4 DEF Page
<1>6. /\ q.pending = None /\ q.sent = p.sent /\ q.seen = p.seen /\ q.fields = p.fields
      /\ q.usesSecret = p.usesSecret
      /\ q.at = IF call[r].op = "create" THEN "list" ELSE p.at
      /\ q.secret \in {p.secret, r}
      /\ call[r].op = "rotate" /\ p.pc = "shown" /\ clients[call[r].client].secret # None
           => q.secret = r
  BY <1>2, <1>3 DEF Page
<1>7. OnePage(t, q)
  BY <1>1, <1>5 DEF Answer, OnePage, TypeOK, q
<1>8. "list" \notin ClientIds
  BY Names
<1> QED
  BY <1>2, <1>5, <1>6, <1>7, <1>8

\* What a served call writes: a row of its own, the fields of a client or its secret.
Wrote(r) ==
  \/ /\ call[r].op = "create"
     /\ DOMAIN clients' = DOMAIN clients \cup {r}
     /\ \A c \in DOMAIN clients \ {r} : clients'[c] = clients[c]
     /\ clients'[r] \in Rows /\ saved' = saved
  \/ /\ call[r].op = "update"
     /\ DOMAIN clients' = DOMAIN clients
     /\ \A c \in DOMAIN clients :
          /\ clients'[c].secret = clients[c].secret
          /\ clients'[c].fields = IF c = call[r].client THEN call[r].fields ELSE clients[c].fields
          /\ clients'[c] \in Rows
     /\ saved' = saved \cup {r}
  \/ /\ call[r].op = "rotate"
     /\ DOMAIN clients' = DOMAIN clients
     /\ \A c \in DOMAIN clients :
          /\ clients'[c].fields = clients[c].fields
          /\ clients'[c].secret = IF c = call[r].client THEN r ELSE clients[c].secret
          /\ clients'[c] \in Rows
     /\ saved' = saved

LEMMA ServeEffect ==
  ASSUME TypeInv, NEW r \in Calls, Serve(r)
  PROVE  /\ Wrote(r)
         /\ call[r].pc = "serve" /\ page' = page
         /\ \E x \in Call : /\ OneCall(r, x)
                            /\ x.pc = "answer" /\ x.op = call[r].op /\ x.tab = call[r].tab
                            /\ x.client = call[r].client
<1> DEFINE c == call[r].client
           x == [call[r] EXCEPT !.pc = "answer", !.fields = NoFields, !.edited = {},
                                !.confidential = FALSE, !.seen = {}, !.sent = {}]
<1>1. TypeOK /\ call[r] \in Call /\ r \in ClientIds
  BY CallType DEF TypeInv, ClientIds
<1>2. NoFields \in Forms
  BY DEF NoFields, Forms
<1>3. /\ x \in Call /\ x.pc = "answer" /\ x.op = call[r].op /\ x.tab = call[r].tab
      /\ x.client = call[r].client
  BY <1>1, <1>2 DEF Call
<1>4. call' = [call EXCEPT ![r] = x] /\ call[r].pc = "serve" /\ page' = page
  BY DEF Serve
<1> HIDE DEF x
<1>5. OneCall(r, x)
  BY <1>1, <1>3, <1>4 DEF OneCall, TypeOK
<1>6. \A y \in DOMAIN clients : clients[y] \in Rows
  BY <1>1 DEF TypeOK
<1>7. call[r].op # "rotate" => call[r].fields \in [Fields -> Values]
  BY <1>4 DEF TypeInv, Filled
<1>8. Wrote(r)
  <2>1. CASE /\ call[r].op = "create"
             /\ clients' = [y \in DOMAIN clients \cup {r} |->
                  IF y = r THEN [fields |-> call[r].fields, secret |-> NewSecret(r)]
                  ELSE clients[y]]
             /\ UNCHANGED saved
    <3>1. NewSecret(r) \in ClientIds \cup {None}
      BY <1>1 DEF NewSecret
    <3>2. clients'[r] \in Rows
      BY <1>7, <2>1, <3>1 DEF Rows
    <3> QED
      BY <2>1, <3>2 DEF Wrote
  <2>2. CASE /\ call[r].op = "update"
             /\ clients' = [clients EXCEPT ![c].fields = call[r].fields]
             /\ saved' = saved \cup {r}
    <3>1. ASSUME NEW y \in DOMAIN clients
          PROVE  /\ clients'[y].secret = clients[y].secret
                 /\ clients'[y].fields = IF y = c THEN call[r].fields ELSE clients[y].fields
                 /\ clients'[y] \in Rows
      <4>1. clients'[y] = IF y = c THEN [clients[y] EXCEPT !.fields = call[r].fields]
                          ELSE clients[y]
        BY <2>2
      <4> QED
        BY <1>6, <1>7, <2>2, <4>1 DEF Rows
    <3> QED
      BY <2>2, <3>1 DEF Wrote
  <2>3. CASE /\ call[r].op = "rotate"
             /\ clients' = [clients EXCEPT ![c].secret = r]
             /\ UNCHANGED saved
    <3>1. ASSUME NEW y \in DOMAIN clients
          PROVE  /\ clients'[y].fields = clients[y].fields
                 /\ clients'[y].secret = IF y = c THEN r ELSE clients[y].secret
                 /\ clients'[y] \in Rows
      <4>1. clients'[y] = IF y = c THEN [clients[y] EXCEPT !.secret = r] ELSE clients[y]
        BY <2>3
      <4> QED
        BY <1>1, <1>6, <4>1 DEF Rows
    <3> QED
      BY <2>3, <3>1 DEF Wrote
  <2> QED
    BY <2>1, <2>2, <2>3 DEF Serve
<1> QED
  BY <1>3, <1>4, <1>5, <1>8

LEMMA WroteType ==
  ASSUME TypeOK, NEW r \in Calls, Wrote(r)
  PROVE  /\ DOMAIN clients' \subseteq ClientIds
         /\ \A c \in DOMAIN clients' : clients'[c] \in Rows
         /\ saved' \subseteq Calls
BY DEF Wrote, TypeOK, ClientIds

\* The pages and calls after a step, together.
Waiting(t, r) == call[r].tab = t /\ call[r].pc \in Busy

LEMMA PendingType == TypeOK => \A t \in Tabs : page[t].pending # None => Waiting(t, page[t].pending)
BY DEF TypeOK, Waiting, Busy

LEMMA StepTypeOK ==
  ASSUME TypeOK, page' \in [Tabs -> Page], call' \in [Calls -> Call],
         managers' \subseteq Admins, changed' \subseteq Admins, changes' \in 0..MaxChanges,
         session' \in [Admins -> {"none", "user", "manager"}],
         saved' \subseteq Calls, DOMAIN clients' \subseteq ClientIds,
         \A c \in DOMAIN clients' : clients'[c] \in Rows,
         \A t \in Tabs : page'[t].pending # None => Waiting(t, page[t].pending)'
  PROVE  TypeOK'
BY DEF TypeOK, Waiting, Busy

LEMMA AdminTypeInv ==
  ASSUME TypeInv, NEW a \in Admins, AdminStep(a)
  PROVE  TypeInv'
<1>1. TypeOK /\ UNCHANGED <<page, call, clients, saved>>
  BY DEF TypeInv, AdminStep, ChangePermission, SignIn, SignOut
<1>2. /\ managers' \subseteq Admins /\ changed' \subseteq Admins /\ changes' \in 0..MaxChanges
      /\ session' \in [Admins -> {"none", "user", "manager"}]
  BY MaxChangesAssumption
     DEF TypeInv, TypeOK, AdminStep, ChangePermission, SignIn, SignOut
<1> QED
  BY <1>1, <1>2 DEF TypeInv, TypeOK, Filled

LEMMA VisitTypeInv ==
  ASSUME TypeInv, NEW t \in Tabs, NEW a \in Admins, NEW x \in Shows \cup {None},
         NEW ok \in BOOLEAN, NEW layout \in BOOLEAN, Visit(t, a, x, ok, layout)
  PROVE  TypeInv'
<1>1. TypeOK
  BY DEF TypeInv
<1>2. PICK q \in Page : OnePage(t, q) /\ q.pending = None
  BY <1>1, VisitEffect
<1>3. UNCHANGED <<managers, clients, session, call, saved, changed, changes>>
  BY DEF Visit, KeepsClaims
<1>4. \A u \in Tabs : page'[u].pending # None => Waiting(u, page[u].pending)'
  BY <1>1, <1>2, <1>3, PendingType DEF OnePage, Waiting
<1>5. TypeOK'
  BY <1>1, <1>2, <1>3, <1>4, StepTypeOK DEF OnePage, TypeOK
<1> QED
  BY <1>3, <1>5 DEF TypeInv, Filled

LEMMA SubmitTypeInv ==
  ASSUME TypeInv, NEW r \in Calls, NEW t \in Tabs, NEW kind \in {"create", "update", "rotate"},
         NEW E \in SUBSET Fields, NEW v \in Forms, NEW confidential \in BOOLEAN,
         Submit(r, t, kind, E, v, confidential)
  PROVE  TypeInv'
<1>1. TypeOK
  BY DEF TypeInv
<1>p. PICK q \in Page, x \in Call : Submitted(r, t, kind, E, v, q, x)
  BY <1>1, SubmitEffect
<1>2. /\ OnePage(t, q) /\ OneCall(r, x) /\ call[r].pc = "idle"
      /\ \/ q.pending = None /\ x.pc = "failed"
         \/ /\ q.pending = r /\ x.pc = "gate" /\ x.op = kind /\ x.tab = t
            /\ x.fields = Sent(t, E, v)
            /\ kind # "rotate" => \A f \in Fields : Sent(t, E, v)[f] # Blank
  BY <1>p DEF Submitted
<1>3. UNCHANGED <<managers, clients, session, saved, changed, changes>>
  BY DEF Submit, KeepsClaims
<1>4. \A u \in Tabs : page'[u].pending # None => Waiting(u, page[u].pending)'
  <2>1. \A u \in Tabs : page[u].pending # r
    BY <1>1, <1>2, PendingType, Names DEF Waiting, Busy
  <2>2. \A u \in Tabs \ {t} : page'[u].pending # None =>
          page[u].pending \in Calls /\ page'[u].pending = page[u].pending
    BY <1>1, <1>2 DEF OnePage, TypeOK, Page
  <2> QED
    BY <1>1, <1>2, <2>1, <2>2, PendingType DEF OnePage, OneCall, Waiting, Busy
<1>5. TypeOK'
  BY <1>1, <1>2, <1>3, <1>4, StepTypeOK DEF OnePage, OneCall, TypeOK
<1>6. Filled'
  <2>1. Sent(t, E, v) \in Forms
    BY <1>1 DEF Sent, Forms, TypeOK, Page
  <2>2. x.pc = "gate" /\ x.op # "rotate" => x.fields \in [Fields -> Values]
    BY <1>2, <2>1 DEF Forms
  <2> QED
    BY <1>2, <2>2 DEF TypeInv, Filled, OneCall
<1> QED
  BY <1>5, <1>6 DEF TypeInv

\* r ends with p, and its page hears of it if it waits.
Ends(r, p) ==
  /\ call[r].pc = IF p = "failed" THEN "gate" ELSE "answer"
  /\ \E x \in Call : OneCall(r, x) /\ x = [call[r] EXCEPT !.pc = p]
  /\ \E q \in Page :
       /\ OnePage(call[r].tab, q)
       /\ q = [page[call[r].tab] EXCEPT !.pending = q.pending]
       /\ q.pending = IF page[call[r].tab].pending = r THEN None ELSE page[call[r].tab].pending
  /\ UNCHANGED <<managers, clients, session, saved, changed, changes>>

\* r passes the permission check of the server.
Passes(r) ==
  /\ call[r].pc = "gate"
  /\ \E x \in Call : OneCall(r, x) /\ x = [call[r] EXCEPT !.pc = "serve"]
  /\ UNCHANGED <<managers, clients, session, page, saved, changed, changes>>

LEMMA GateEffect ==
  ASSUME TypeOK, NEW r \in Calls, NEW ok \in BOOLEAN, Gate(r, ok)
  PROVE  Passes(r) \/ Ends(r, "failed")
<1>1. CASE ok
  <2>1. call' = [call EXCEPT ![r].pc = "serve"] /\ UNCHANGED page
    BY <1>1 DEF Gate
  <2>2. PICK p \in {"serve", "failed", "done", "lost"} : p = "serve"
    OBVIOUS
  <2>3. \E x \in Call : OneCall(r, x) /\ x = [call[r] EXCEPT !.pc = p]
    BY <2>1, <2>2, PcEffect
  <2> QED
    BY <2>1, <2>2, <2>3 DEF Gate, Passes
<1>2. CASE ~ok
  <2>1. call' = [call EXCEPT ![r].pc = "failed"] /\ page' = Released(r)
    BY <1>2 DEF Gate
  <2>2. PICK p \in {"serve", "failed", "done", "lost"} : p = "failed"
    OBVIOUS
  <2>3. \E x \in Call : OneCall(r, x) /\ x = [call[r] EXCEPT !.pc = p]
    BY <2>1, <2>2, PcEffect
  <2> QED
    BY <2>1, <2>2, <2>3, ReleasedEffect DEF Gate, Ends, Busy
<1> QED
  BY <1>1, <1>2

LEMMA LoseEffect ==
  ASSUME TypeOK, NEW r \in Calls, Lose(r)
  PROVE  Ends(r, "lost")
<1>1. call' = [call EXCEPT ![r].pc = "lost"] /\ page' = Released(r)
  BY DEF Lose
<1>2. PICK p \in {"serve", "failed", "done", "lost"} : p = "lost"
  OBVIOUS
<1>3. \E x \in Call : OneCall(r, x) /\ x = [call[r] EXCEPT !.pc = p]
  BY <1>1, <1>2, PcEffect
<1> QED
  BY <1>1, <1>2, <1>3, ReleasedEffect DEF Lose, Ends, Busy

\* The call and the page of an answer.
Answered(r) ==
  /\ call[r].pc = "answer" /\ page[call[r].tab].pending = r
  /\ \E x \in Call : OneCall(r, x) /\ x = [call[r] EXCEPT !.pc = "done"]
  /\ UNCHANGED <<managers, clients, session, saved, changed, changes>>

LEMMA AnsweredEffect ==
  ASSUME TypeOK, NEW r \in Calls, NEW ok \in BOOLEAN, Answer(r, ok)
  PROVE  Answered(r)
<1>1. call' = [call EXCEPT ![r].pc = "done"]
  BY DEF Answer
<1>2. PICK p \in {"serve", "failed", "done", "lost"} : p = "done"
  OBVIOUS
<1>3. \E x \in Call : OneCall(r, x) /\ x = [call[r] EXCEPT !.pc = p]
  BY <1>1, <1>2, PcEffect
<1> QED
  BY <1>2, <1>3 DEF Answer, Answered, KeepsClaims

LEMMA CallTypeInv ==
  ASSUME TypeInv, NEW r \in Calls, CallStep(r)
  PROVE  TypeInv'
<1>1. TypeOK /\ call[r] \in Call /\ call[r].tab \in Tabs
  BY CallType DEF TypeInv
<1>2. ASSUME NEW p \in {"failed", "lost"}, Ends(r, p) PROVE TypeInv'
  <2>1. PICK x \in Call, q \in Page :
          /\ OneCall(r, x) /\ x = [call[r] EXCEPT !.pc = p]
          /\ OnePage(call[r].tab, q)
          /\ q.pending = IF page[call[r].tab].pending = r THEN None ELSE page[call[r].tab].pending
    BY <1>2 DEF Ends
  <2>2. x.pc = p
    BY <1>1, <2>1 DEF Call
  <2>3. \A t \in Tabs : page'[t].pending # None =>
          /\ page'[t].pending = page[t].pending /\ page[t].pending # r
          /\ page[t].pending \in Calls
    BY <1>1, <2>1, PendingType DEF OnePage, Waiting, TypeOK, Page
  <2>4. \A t \in Tabs : page'[t].pending # None => Waiting(t, page[t].pending)'
    BY <1>1, <2>1, <2>3, PendingType DEF OneCall, Waiting
  <2>5. UNCHANGED <<managers, clients, session, saved, changed, changes>>
    BY <1>2 DEF Ends
  <2>6. TypeOK'
    BY <1>1, <2>1, <2>4, <2>5, StepTypeOK DEF OnePage, OneCall, TypeOK
  <2> QED
    BY <2>1, <2>2, <2>6 DEF TypeInv, Filled, OneCall
<1>3. CASE Passes(r)
  <2>1. PICK x \in Call : OneCall(r, x) /\ x = [call[r] EXCEPT !.pc = "serve"]
    BY <1>3 DEF Passes
  <2>2. x.pc = "serve" /\ x.tab = call[r].tab /\ x.op = call[r].op /\ x.fields = call[r].fields
    BY <1>1, <2>1 DEF Call
  <2>3. UNCHANGED <<managers, clients, session, page, saved, changed, changes>>
    BY <1>3 DEF Passes
  <2>4. \A t \in Tabs : page[t].pending # None => page[t].pending \in Calls
    BY <1>1 DEF TypeOK, Page
  <2>5. \A t \in Tabs : page'[t].pending # None => Waiting(t, page[t].pending)'
    BY <1>1, <2>1, <2>2, <2>3, <2>4, PendingType DEF OneCall, Waiting, Busy
  <2>6. TypeOK'
    BY <1>1, <2>1, <2>3, <2>5, StepTypeOK DEF OneCall, TypeOK
  <2>7. call[r].op # "rotate" => call[r].fields \in [Fields -> Values]
    BY <1>3 DEF TypeInv, Filled, Passes
  <2>8. Filled'
    BY <2>1, <2>2, <2>7 DEF TypeInv, Filled, OneCall
  <2> QED
    BY <2>6, <2>8 DEF TypeInv
<1>4. CASE Serve(r)
  <2>1. PICK x \in Call : /\ OneCall(r, x)
                          /\ x.pc = "answer" /\ x.op = call[r].op /\ x.tab = call[r].tab
                          /\ x.client = call[r].client
    BY <1>4, ServeEffect
  <2>2. Wrote(r) /\ page' = page
    BY <1>4, ServeEffect
  <2>3. UNCHANGED <<managers, session, changed, changes>>
    BY <1>4 DEF Serve
  <2>4. \A t \in Tabs : page[t].pending # None => page[t].pending \in Calls
    BY <1>1 DEF TypeOK, Page
  <2>5. \A t \in Tabs : page'[t].pending # None => Waiting(t, page[t].pending)'
    BY <1>1, <2>1, <2>2, <2>4, PendingType DEF OneCall, Waiting, Busy
  <2>6. TypeOK'
    BY <1>1, <2>1, <2>2, <2>3, <2>5, StepTypeOK, WroteType DEF OneCall, TypeOK
  <2> QED
    BY <2>1, <2>6 DEF TypeInv, Filled, OneCall
<1>5. ASSUME NEW ok \in BOOLEAN, Answer(r, ok) PROVE TypeInv'
  <2>1. Answered(r)
    BY <1>1, <1>5, AnsweredEffect
  <2>2. PICK x \in Call : OneCall(r, x) /\ x = [call[r] EXCEPT !.pc = "done"]
    BY <2>1 DEF Answered
  <2>3. PICK q \in Page : OnePage(call[r].tab, q) /\ q.pending = None
    BY <1>1, <1>5, AnswerEffect
  <2>4. \A t \in Tabs : page'[t].pending # None =>
          /\ page'[t].pending = page[t].pending /\ page[t].pending # r
          /\ page[t].pending \in Calls
    BY <1>1, <2>3, PendingType DEF OnePage, Waiting, TypeOK, Page
  <2>5. \A t \in Tabs : page'[t].pending # None => Waiting(t, page[t].pending)'
    BY <1>1, <2>2, <2>4, PendingType DEF OneCall, Waiting
  <2>6. UNCHANGED <<managers, clients, session, saved, changed, changes>>
    BY <2>1 DEF Answered
  <2>7. TypeOK'
    BY <1>1, <2>2, <2>3, <2>5, <2>6, StepTypeOK DEF OnePage, OneCall, TypeOK
  <2>8. x.pc = "done"
    BY <1>1, <2>2 DEF Call
  <2> QED
    BY <2>2, <2>7, <2>8 DEF TypeInv, Filled, OneCall
<1>6. ASSUME NEW ok \in BOOLEAN, Gate(r, ok) PROVE TypeInv'
  BY <1>1, <1>2, <1>3, <1>6, GateEffect
<1>7. CASE Lose(r)
  BY <1>1, <1>2, <1>7, LoseEffect
<1> QED
  BY <1>4, <1>5, <1>6, <1>7 DEF CallStep

\* Next, action by action.
LEMMA NextSteps ==
  ASSUME TypeOK, Next
  PROVE  \/ \E a \in Admins : AdminStep(a)
         \/ \E r \in Calls : CallStep(r)
         \/ \E t \in Tabs, a \in Admins, x \in Shows \cup {None}, ok, layout \in BOOLEAN :
              Visit(t, a, x, ok, layout)
         \/ \E t \in Tabs, r \in Calls, kind \in {"create", "update", "rotate"},
               E \in SUBSET Fields, v \in Forms, confidential \in BOOLEAN :
              Submit(r, t, kind, E, v, confidential)
<1>1. DOMAIN clients \cup {"list", "new", None} \subseteq Shows \cup {None}
  BY DEF TypeOK, Shows
<1> QED
  BY <1>1 DEF Next, TabStep

LEMMA NextTypeInv == TypeInv /\ [Next]_vars => TypeInv'
<1>1. ASSUME TypeInv, Next PROVE TypeInv'
  <2>1. TypeOK
    BY <1>1 DEF TypeInv
  <2> QED
    BY <1>1, <2>1, NextSteps, AdminTypeInv, CallTypeInv, VisitTypeInv, SubmitTypeInv
<1>2. TypeInv /\ UNCHANGED vars => TypeInv'
  BY DEF TypeInv, TypeOK, Filled, vars
<1> QED
  BY <1>1, <1>2

\* The session, the pages, the calls and the rows stay in their types, and a page
\* waits only for a call of its own that is under way (ClientDetail.tsx:18-19).
THEOREM TypeCorrect == Spec => []TypeOK
<1>1. Init => TypeInv
  BY InitTypeInv
<1>2. TypeInv /\ [Next]_vars => TypeInv'
  BY NextTypeInv
<1>3. TypeInv => TypeOK
  BY DEF TypeInv
<1> QED
  BY <1>1, <1>2, <1>3, PTL DEF Spec

\* What the session says of an administrator is right until the permission is given
\* or taken away (auth.ts:37-43).
THEOREM SessionsTellThePast == Spec => []LockedOutOnlyByAChange
<1>1. Init => LockedOutOnlyByAChange
  BY DEF Init, LockedOutOnlyByAChange
<1>2. TypeInv /\ LockedOutOnlyByAChange /\ [Next]_vars => LockedOutOnlyByAChange'
  <2> SUFFICES ASSUME TypeInv, LockedOutOnlyByAChange, [Next]_vars
               PROVE  LockedOutOnlyByAChange'
    OBVIOUS
  <2>1. TypeOK
    BY DEF TypeInv
  <2>2. ASSUME NEW a \in Admins, AdminStep(a) PROVE LockedOutOnlyByAChange'
    <3>1. CASE ChangePermission(a)
      BY <3>1 DEF LockedOutOnlyByAChange, ChangePermission
    <3>2. CASE SignIn(a)
      <4>1. /\ session'[a] = IF a \in managers THEN "manager" ELSE "user"
            /\ \A b \in Admins \ {a} : session'[b] = session[b]
            /\ managers' = managers /\ changed' = changed \ {a}
        BY <2>1, <3>2 DEF TypeOK, SignIn
      <4> QED
        BY <4>1 DEF LockedOutOnlyByAChange
    <3>3. CASE SignOut(a)
      <4>1. /\ session'[a] = "none" /\ \A b \in Admins \ {a} : session'[b] = session[b]
            /\ managers' = managers /\ changed' = changed
        BY <2>1, <3>3 DEF TypeOK, SignOut
      <4> QED
        BY <4>1 DEF LockedOutOnlyByAChange
    <3> QED
      BY <2>2, <3>1, <3>2, <3>3 DEF AdminStep
  <2>3. ASSUME UNCHANGED <<managers, session, changed>> PROVE LockedOutOnlyByAChange'
    BY <2>3 DEF LockedOutOnlyByAChange
  <2>4. ASSUME NEW r \in Calls, CallStep(r) PROVE UNCHANGED <<managers, session, changed>>
    BY <2>4 DEF CallStep, Serve, Lose, Gate, Answer, KeepsClaims
  <2>5. ASSUME NEW t \in Tabs, NEW a \in Admins, NEW x \in Shows \cup {None},
               NEW ok \in BOOLEAN, NEW layout \in BOOLEAN, Visit(t, a, x, ok, layout)
        PROVE  UNCHANGED <<managers, session, changed>>
    BY <2>5 DEF Visit, KeepsClaims
  <2>6. ASSUME NEW t \in Tabs, NEW r \in Calls, NEW kind \in {"create", "update", "rotate"},
               NEW E \in SUBSET Fields, NEW v \in Forms, NEW confidential \in BOOLEAN,
               Submit(r, t, kind, E, v, confidential)
        PROVE  UNCHANGED <<managers, session, changed>>
    BY <2>6 DEF Submit, KeepsClaims
  <2>7. CASE UNCHANGED vars
    BY <2>3, <2>7 DEF vars
  <2> QED
    BY <2>1, <2>2, <2>3, <2>4, <2>5, <2>6, <2>7, NextSteps
<1>3. Init => TypeInv
  BY InitTypeInv
<1>4. TypeInv /\ [Next]_vars => TypeInv'
  BY NextTypeInv
<1> QED
  BY <1>1, <1>2, <1>3, <1>4, PTL DEF Spec

------------------------------------------------------------------------------
(* One registration, one rotation per page.                                *)

Finished == {"done", "failed", "lost"}

\* A form that has been sent has ended or is the one that the page waits for.
SentOnce(t) ==
  /\ page[t].pending # None =>
       /\ page[t].pending \in page[t].sent
       /\ call[page[t].pending].client = page[t].at
  /\ \A x \in page[t].sent : call[x].pc \in Finished \/ page[t].pending = x

\* An answered registration has taken the form away, and an answered rotation its
\* button; what is sent again has had no answer.
AnsweredOnce(t) ==
  /\ page[t].usesSecret =>
       page[t].at \in DOMAIN clients /\ clients[page[t].at].secret # None
  /\ \A x \in page[t].sent : call[x].pc = "done" =>
       /\ call[x].op = "create" => page[t].at # "new"
       /\ call[x].op = "rotate" => page[t].at \notin ClientIds \/ page[t].secret # None
  /\ \A x, y \in page[t].sent : x # y /\ call[x].op = call[y].op /\ call[x].op # "update" =>
       call[x].pc \in {"failed", "lost"} \/ call[y].pc \in {"failed", "lost"}

\* What a call under way knows of its client.
Knows(r) ==
  /\ call[r].pc \in Busy =>
       /\ call[r].op = "create" => call[r].client = "new"
       /\ call[r].op # "create" => call[r].client \in ClientIds
       /\ call[r].op = "rotate" =>
            call[r].client \in DOMAIN clients /\ clients[call[r].client].secret # None
  /\ call[r].pc \in {"idle", "gate", "serve"} => r \notin DOMAIN clients

OnceInv ==
  /\ \A t \in Tabs : SentOnce(t) /\ AnsweredOnce(t)
  /\ \A r \in Calls : Knows(r)

\* What every step leaves of the calls, of the rows and of a page that is not
\* loaded again.
GoesOn ==
  \A x \in Calls :
    /\ call[x].pc \in Finished => call'[x] = call[x]
    /\ call[x].pc # "idle" =>
         call'[x].pc # "idle" /\ call'[x].op = call[x].op /\ call'[x].client = call[x].client

RowsGoOn ==
  \A c \in DOMAIN clients :
    c \in DOMAIN clients' /\ (clients[c].secret # None => clients'[c].secret # None)

Kept(t) ==
  /\ page'[t].sent = page[t].sent /\ page'[t].at = page[t].at
  /\ page'[t].seen = page[t].seen /\ page'[t].fields = page[t].fields
  /\ page'[t].secret = page[t].secret /\ page'[t].usesSecret = page[t].usesSecret
  /\ \/ page'[t].pending = page[t].pending
     \/ /\ page'[t].pending = None /\ page[t].pending # None
        /\ call'[page[t].pending].pc \in {"failed", "lost"}

LEMMA PageSent == TypeOK => \A t \in Tabs : page[t].sent \subseteq Calls
BY DEF TypeOK, Page

LEMMA OneGoesOn ==
  ASSUME TypeOK, NEW r \in Calls, NEW x \in Call, OneCall(r, x),
         call[r].pc \in Busy \cup {"idle"},
         call[r].pc \in Busy => x.pc # "idle" /\ x.op = call[r].op /\ x.client = call[r].client
  PROVE  GoesOn
BY DEF GoesOn, OneCall, Busy, Finished, TypeOK, Call

LEMMA KeptOnce ==
  ASSUME TypeOK, TypeOK', GoesOn, RowsGoOn, NEW t \in Tabs, Kept(t),
         SentOnce(t), AnsweredOnce(t)
  PROVE  SentOnce(t)' /\ AnsweredOnce(t)'
<1>1. page[t].sent \subseteq Calls /\ page'[t].sent = page[t].sent
  BY PageSent DEF Kept
<1>2. page[t].pending # None => page[t].pending \in Calls /\ call[page[t].pending].pc \in Busy
  BY PendingType DEF Waiting, TypeOK, Page
<1>3. page'[t].pending # None => call'[page'[t].pending].pc \in Busy
  BY PendingType' DEF Waiting, Busy, TypeOK
<1>4. \A x \in page[t].sent :
        /\ x # None
        /\ call[x].pc \in Finished \/ page[t].pending = x
        /\ call[x].pc # "idle" /\ call'[x].op = call[x].op
        /\ call[x].pc \in Finished => call'[x].pc = call[x].pc
  BY <1>1, <1>2, Names DEF SentOnce, GoesOn, Finished, Busy
<1>5. SentOnce(t)'
  BY <1>1, <1>2, <1>4 DEF SentOnce, Kept, GoesOn, Finished, Busy
<1>6. \A x \in page[t].sent : call'[x].pc = "done" => call[x].pc = "done"
  BY <1>2, <1>3, <1>4 DEF Kept, Finished, Busy
<1>7. page'[t].usesSecret =>
        page'[t].at \in DOMAIN clients' /\ clients'[page'[t].at].secret # None
  BY DEF Kept, RowsGoOn, AnsweredOnce
<1>8. \A x, y \in page[t].sent : x # y /\ call'[x].op = call'[y].op /\ call'[x].op # "update" =>
        call'[x].pc \in {"failed", "lost"} \/ call'[y].pc \in {"failed", "lost"}
  BY <1>4 DEF AnsweredOnce, Finished
<1> QED
  BY <1>1, <1>4, <1>5, <1>6, <1>7, <1>8 DEF AnsweredOnce, Kept

LEMMA KeptKnows ==
  ASSUME RowsGoOn, NEW x \in Calls, Knows(x),
         call'[x].op = call[x].op, call'[x].client = call[x].client,
         call'[x].pc \in Busy => call[x].pc \in Busy,
         call'[x].pc \in {"idle", "gate", "serve"} =>
           /\ call[x].pc \in {"idle", "gate", "serve"}
           /\ x \in DOMAIN clients' => x \in DOMAIN clients
  PROVE  Knows(x)'
BY DEF Knows, RowsGoOn

\* A page that is loaded, or that has an answer, starts again.
LEMMA VisitOnce ==
  ASSUME TypeInv, TypeOK', OnceInv, NEW t \in Tabs, NEW a \in Admins, NEW x \in Shows \cup {None},
         NEW ok \in BOOLEAN, NEW layout \in BOOLEAN, Visit(t, a, x, ok, layout)
  PROVE  OnceInv'
<1>1. TypeOK
  BY DEF TypeInv
<1>2. PICK q \in Page :
        /\ OnePage(t, q) /\ q.pending = None /\ q.sent = {}
        /\ q.usesSecret => q.at \in DOMAIN clients /\ clients[q.at].secret # None
  BY <1>1, VisitEffect
<1>3. UNCHANGED <<clients, call, saved>>
  BY DEF Visit
<1>4. \A r \in Calls : Knows(r)'
  BY <1>3 DEF OnceInv, Knows
<1>5. SentOnce(t)' /\ AnsweredOnce(t)'
  BY <1>2, <1>3 DEF SentOnce, AnsweredOnce, OnePage
<1>6. \A u \in Tabs \ {t} : SentOnce(u)' /\ AnsweredOnce(u)'
  BY <1>2, <1>3 DEF OnceInv, SentOnce, AnsweredOnce, OnePage
<1> QED
  BY <1>4, <1>5, <1>6 DEF OnceInv

LEMMA SubmitOnce ==
  ASSUME TypeInv, TypeOK', OnceInv, NEW r \in Calls, NEW t \in Tabs,
         NEW kind \in {"create", "update", "rotate"}, NEW E \in SUBSET Fields, NEW v \in Forms,
         NEW confidential \in BOOLEAN, Submit(r, t, kind, E, v, confidential)
  PROVE  OnceInv'
<1>1. TypeOK
  BY DEF TypeInv
<1>2. PICK q \in Page, x \in Call : Submitted(r, t, kind, E, v, q, x)
  BY <1>1, SubmitEffect
<1>3. UNCHANGED <<clients, saved>> /\ OnePage(t, q) /\ OneCall(r, x) /\ call[r].pc = "idle"
  BY <1>2 DEF Submit, Submitted
<1>4. GoesOn /\ RowsGoOn
  BY <1>1, <1>3, OneGoesOn DEF RowsGoOn, Busy
<1>5. page[t].pending = None /\ page[t].pc = "shown" /\ HasForm(t, kind)
  BY <1>2 DEF Submitted, CanSend
<1>6. /\ q.sent = page[t].sent \cup {r} /\ q.at = page[t].at /\ q.secret = page[t].secret
      /\ q.usesSecret = page[t].usesSecret
      /\ \/ q.pending = None /\ x.pc = "failed"
         \/ q.pending = r /\ x.pc = "gate" /\ x.op = kind /\ x.client = page[t].at
  BY <1>1, <1>2 DEF Submitted, TypeOK, Page
<1>7. /\ page[t].sent \subseteq Calls /\ r \notin page[t].sent
      /\ \A y \in page[t].sent : call[y].pc \in Finished /\ call'[y] = call[y]
  <2>1. page[t].sent \subseteq Calls
    BY <1>1, PageSent
  <2>2. \A y \in page[t].sent : call[y].pc \in Finished
    BY <1>5, <2>1, Names DEF OnceInv, SentOnce
  <2> QED
    BY <1>3, <1>4, <2>1, <2>2 DEF GoesOn, Finished
<1>8. SentOnce(t)'
  BY <1>3, <1>6, <1>7 DEF SentOnce, OnePage, OneCall, Finished
<1>9. \A y \in page[t].sent : call[y].op = kind /\ kind # "update" =>
                               call[y].pc \in {"failed", "lost"}
  <2>1. "new" \notin ClientIds /\ "list" \notin ClientIds
    BY Names
  <2> QED
    BY <1>5, <1>7, <2>1 DEF OnceInv, AnsweredOnce, HasForm, Finished
<1>10. AnsweredOnce(t)'
  <2>1. page'[t] = q /\ call'[r] = x
    BY <1>3 DEF OnePage, OneCall
  <2>2. q.usesSecret => q.at \in DOMAIN clients' /\ clients'[q.at].secret # None
    BY <1>3, <1>6 DEF OnceInv, AnsweredOnce
  <2>3. \A y \in q.sent : call'[y].pc = "done" =>
          /\ call'[y].op = "create" => q.at # "new"
          /\ call'[y].op = "rotate" => q.at \notin ClientIds \/ q.secret # None
    BY <1>6, <1>7, <2>1 DEF OnceInv, AnsweredOnce
  <2>4. \A y, z \in q.sent : y # z /\ call'[y].op = call'[z].op /\ call'[y].op # "update" =>
          call'[y].pc \in {"failed", "lost"} \/ call'[z].pc \in {"failed", "lost"}
    BY <1>6, <1>7, <1>9, <2>1 DEF OnceInv, AnsweredOnce
  <2> QED
    BY <2>1, <2>2, <2>3, <2>4 DEF AnsweredOnce
<1>11. \A u \in Tabs \ {t} : SentOnce(u)' /\ AnsweredOnce(u)'
  <2>1. \A u \in Tabs \ {t} : Kept(u)
    BY <1>3 DEF OnePage, Kept
  <2> QED
    BY <1>1, <1>4, <2>1, KeptOnce DEF OnceInv
<1>12. Knows(r)'
  <2>1. CASE x.pc = "failed"
    BY <1>3, <2>1 DEF Knows, OneCall, Busy
  <2>2. CASE x.pc = "gate" /\ x.op = kind /\ x.client = page[t].at
    <3>1. /\ kind = "create" => page[t].at = "new"
          /\ kind # "create" => page[t].at \in ClientIds
          /\ kind = "rotate" => page[t].usesSecret
      BY <1>5 DEF HasForm
    <3>2. kind = "rotate" => page[t].at \in DOMAIN clients /\ clients[page[t].at].secret # None
      BY <3>1 DEF OnceInv, AnsweredOnce
    <3>3. r \notin DOMAIN clients
      BY <1>3 DEF OnceInv, Knows
    <3> QED
      BY <1>3, <2>2, <3>1, <3>2, <3>3 DEF Knows, OneCall
  <2> QED
    BY <1>6, <2>1, <2>2
<1>13. \A y \in Calls \ {r} : Knows(y)'
  BY <1>3 DEF OnceInv, Knows, OneCall
<1> QED
  BY <1>8, <1>10, <1>11, <1>12, <1>13 DEF OnceInv

LEMMA EndsOnce ==
  ASSUME TypeOK, TypeOK', OnceInv, NEW r \in Calls, NEW p \in {"failed", "lost"}, Ends(r, p)
  PROVE  OnceInv' /\ GoesOn /\ \A t \in Tabs : Kept(t)
<1>1. PICK x \in Call, q \in Page :
        /\ OneCall(r, x) /\ x = [call[r] EXCEPT !.pc = p]
        /\ OnePage(call[r].tab, q) /\ q = [page[call[r].tab] EXCEPT !.pending = q.pending]
        /\ q.pending = IF page[call[r].tab].pending = r THEN None ELSE page[call[r].tab].pending
  BY DEF Ends
<1>2. call[r] \in Call /\ call[r].tab \in Tabs /\ page[call[r].tab] \in Page
  BY CallType
<1>3. x.pc = p /\ x.op = call[r].op /\ x.client = call[r].client
  BY <1>1, <1>2 DEF Call
<1>4. /\ q.sent = page[call[r].tab].sent /\ q.at = page[call[r].tab].at
      /\ q.seen = page[call[r].tab].seen /\ q.fields = page[call[r].tab].fields
      /\ q.secret = page[call[r].tab].secret /\ q.usesSecret = page[call[r].tab].usesSecret
  BY <1>1, <1>2 DEF Page
<1>5. call[r].pc \in Busy /\ UNCHANGED <<clients, saved>>
  BY DEF Ends, Busy
<1>6. GoesOn /\ RowsGoOn
  BY <1>1, <1>3, <1>5, OneGoesOn DEF RowsGoOn
<1>7. ASSUME NEW t \in Tabs PROVE Kept(t)
  <2>1. CASE t = call[r].tab
    <3>1. page'[t] = q /\ call'[r].pc = p /\ r # None
      BY <1>1, <1>3, <2>1, Names DEF OnePage, OneCall
    <3> QED
      BY <1>1, <1>4, <2>1, <3>1 DEF Kept
  <2>2. CASE t # call[r].tab
    BY <1>1, <2>2 DEF OnePage, Kept
  <2> QED
    BY <2>1, <2>2
<1>8. \A t \in Tabs : SentOnce(t)' /\ AnsweredOnce(t)'
  BY <1>6, <1>7, KeptOnce DEF OnceInv
<1>9. ASSUME NEW y \in Calls PROVE Knows(y)'
  <2>1. CASE y = r
    BY <1>1, <1>3, <2>1 DEF Knows, OneCall, Busy
  <2>2. CASE y # r
    BY <1>1, <1>5, <2>2 DEF OnceInv, Knows, OneCall
  <2> QED
    BY <2>1, <2>2
<1> QED
  BY <1>6, <1>7, <1>8, <1>9 DEF OnceInv

LEMMA PassesOnce ==
  ASSUME TypeOK, TypeOK', OnceInv, NEW r \in Calls, Passes(r)
  PROVE  OnceInv' /\ GoesOn /\ \A t \in Tabs : Kept(t)
<1>1. PICK x \in Call : OneCall(r, x) /\ x = [call[r] EXCEPT !.pc = "serve"]
  BY DEF Passes
<1>2. x.pc = "serve" /\ x.op = call[r].op /\ x.client = call[r].client
  BY <1>1, CallType DEF Call
<1>3. call[r].pc = "gate" /\ UNCHANGED <<page, clients, saved>>
  BY DEF Passes
<1>4. GoesOn /\ RowsGoOn /\ \A t \in Tabs : Kept(t)
  BY <1>1, <1>2, <1>3, OneGoesOn DEF RowsGoOn, Kept, Busy
<1>5. \A t \in Tabs : SentOnce(t)' /\ AnsweredOnce(t)'
  BY <1>4, KeptOnce DEF OnceInv
<1>6. ASSUME NEW y \in Calls PROVE Knows(y)'
  <2>1. Knows(y) /\ call'[y].op = call[y].op /\ call'[y].client = call[y].client
    BY <1>1, <1>2 DEF OnceInv, OneCall
  <2>2. /\ call'[y].pc \in Busy => call[y].pc \in Busy
        /\ call'[y].pc \in {"idle", "gate", "serve"} => call[y].pc \in {"idle", "gate", "serve"}
    BY <1>1, <1>2, <1>3 DEF OneCall, Busy
  <2> QED
    BY <1>3, <1>4, <2>1, <2>2, KeptKnows
<1> QED
  BY <1>4, <1>5, <1>6 DEF OnceInv

LEMMA ServeOnce ==
  ASSUME TypeInv, TypeOK', OnceInv, NEW r \in Calls, Serve(r)
  PROVE  OnceInv' /\ GoesOn /\ \A t \in Tabs : Kept(t)
<1>1. PICK x \in Call : /\ OneCall(r, x) /\ x.pc = "answer" /\ x.op = call[r].op
                        /\ x.tab = call[r].tab /\ x.client = call[r].client
  BY ServeEffect
<1>2. Wrote(r) /\ page' = page /\ call[r].pc = "serve" /\ TypeOK
  BY ServeEffect DEF TypeInv
<1>3. r \notin DOMAIN clients /\ r # None
  BY <1>2, Names DEF OnceInv, Knows
<1>4. RowsGoOn /\ DOMAIN clients' \subseteq DOMAIN clients \cup {r}
  BY <1>2, <1>3 DEF Wrote, RowsGoOn
<1>5. GoesOn /\ \A t \in Tabs : Kept(t)
  BY <1>1, <1>2, OneGoesOn DEF Kept, Busy
<1>6. \A t \in Tabs : SentOnce(t)' /\ AnsweredOnce(t)'
  BY <1>2, <1>4, <1>5, KeptOnce DEF OnceInv
<1>7. ASSUME NEW y \in Calls PROVE Knows(y)'
  <2>1. call'[y].op = call[y].op /\ call'[y].client = call[y].client
    BY <1>1 DEF OneCall
  <2>2. call'[y].pc \in Busy => call[y].pc \in Busy
    BY <1>1, <1>2 DEF OneCall, Busy
  <2>3. call'[y].pc \in {"idle", "gate", "serve"} => y # r /\ call[y].pc = call'[y].pc
    BY <1>1 DEF OneCall
  <2>4. Knows(y)
    BY DEF OnceInv
  <2> QED
    BY <1>4, <2>1, <2>2, <2>3, <2>4, KeptKnows
<1> QED
  BY <1>5, <1>6, <1>7 DEF OnceInv

LEMMA AnswerOnce ==
  ASSUME TypeInv, TypeOK', OnceInv, NEW r \in Calls, NEW ok \in BOOLEAN, Answer(r, ok)
  PROVE  OnceInv' /\ GoesOn
<1>1. TypeOK /\ Answered(r)
  BY AnsweredEffect DEF TypeInv
<1>t. PICK t \in Tabs : t = call[r].tab
  BY <1>1, CallType
<1>2. PICK x \in Call : OneCall(r, x) /\ x = [call[r] EXCEPT !.pc = "done"]
  BY <1>1 DEF Answered
<1>3. x.pc = "done" /\ x.op = call[r].op /\ x.client = call[r].client
  BY <1>1, <1>2, CallType DEF Call
<1>4. PICK q \in Page :
        /\ OnePage(t, q) /\ q.pending = None /\ q.sent = page[t].sent
        /\ q.at \in {call[r].client, "list"} /\ (call[r].op = "create" => q.at = "list")
        /\ q.at \in ClientIds =>
             /\ q.at = call[r].client
             /\ q.secret \in {page[t].secret, r}
             /\ call[r].op = "rotate" /\ clients[q.at].secret # None => q.secret = r
        /\ q.usesSecret => /\ call[r].client \in DOMAIN clients
                           /\ clients[call[r].client].secret # None
                           /\ call[r].op # "create" => q.at = call[r].client
  BY <1>1, <1>t, AnswerEffect
<1>5. call[r].pc = "answer" /\ page[t].pending = r /\ UNCHANGED <<clients, saved>>
  BY <1>1, <1>t DEF Answered
<1>6. GoesOn /\ RowsGoOn
  BY <1>1, <1>2, <1>3, <1>5, OneGoesOn DEF RowsGoOn, Busy
<1>7. \A u \in Tabs \ {t} : Kept(u)
  BY <1>4 DEF OnePage, Kept
<1>8. \A u \in Tabs \ {t} : SentOnce(u)' /\ AnsweredOnce(u)'
  BY <1>1, <1>6, <1>7, KeptOnce DEF OnceInv
<1>9. /\ r # None /\ "new" \notin ClientIds /\ "list" \notin ClientIds
      /\ DOMAIN clients \subseteq ClientIds
  BY <1>1, Names DEF TypeOK
<1>10. /\ call[r].op = "create" => call[r].client = "new"
       /\ call[r].op # "create" => call[r].client \in ClientIds
       /\ call[r].op = "rotate" => clients[call[r].client].secret # None
       /\ r \in page[t].sent /\ call[r].client = page[t].at
  BY <1>1, <1>5, <1>9 DEF OnceInv, Knows, SentOnce, Busy
<1>11. /\ page[t].sent \subseteq Calls
       /\ \A y \in page[t].sent \ {r} : call[y].pc \in Finished /\ call'[y] = call[y]
  BY <1>1, <1>2, <1>5, PageSent DEF OnceInv, SentOnce, OneCall
<1>12. page'[t] = q /\ call'[r] = x
  BY <1>2, <1>4 DEF OnePage, OneCall
<1>13. SentOnce(t)'
  BY <1>3, <1>4, <1>11, <1>12 DEF SentOnce, Finished
<1>14. AnsweredOnce(t)'
  <2>1. q.usesSecret => q.at \in DOMAIN clients' /\ clients'[q.at].secret # None
    BY <1>4, <1>5, <1>9, <1>10
  <2>2. \A y \in page[t].sent : call'[y].pc = "done" =>
          /\ call'[y].op = "create" => q.at # "new"
          /\ call'[y].op = "rotate" => q.at \notin ClientIds \/ q.secret # None
    <3>1. q.at # "new"
      BY <1>4, <1>9, <1>10
    <3>2. call[r].op = "rotate" /\ q.at \in ClientIds => q.secret # None
      BY <1>4, <1>9, <1>10
    <3>3. ASSUME NEW y \in page[t].sent \ {r}, call[y].pc = "done", call[y].op = "rotate",
                 q.at \in ClientIds
          PROVE  q.secret # None
      BY <1>4, <1>9, <1>10, <3>3 DEF OnceInv, AnsweredOnce
    <3> QED
      BY <1>3, <1>11, <1>12, <3>1, <3>2, <3>3
  <2>3. \A y, z \in page[t].sent : y # z /\ call'[y].op = call'[z].op /\ call'[y].op # "update" =>
          call'[y].pc \in {"failed", "lost"} \/ call'[z].pc \in {"failed", "lost"}
    <3>1. \A y, z \in page[t].sent : y # z /\ call[y].op = call[z].op /\ call[y].op # "update" =>
            call[y].pc \in {"failed", "lost"} \/ call[z].pc \in {"failed", "lost"}
      BY DEF OnceInv, AnsweredOnce
    <3> QED
      BY <1>3, <1>5, <1>11, <1>12, <3>1
  <2> QED
    BY <1>4, <1>12, <2>1, <2>2, <2>3 DEF AnsweredOnce
<1>15. ASSUME NEW y \in Calls PROVE Knows(y)'
  <2>1. Knows(y) /\ call'[y].op = call[y].op /\ call'[y].client = call[y].client
    BY <1>2, <1>3 DEF OnceInv, OneCall
  <2>2. call'[y].pc \in Busy \cup {"idle"} => call[y].pc = call'[y].pc
    BY <1>2, <1>3, <1>5 DEF OneCall, Busy
  <2> QED
    BY <1>5, <1>6, <2>1, <2>2, KeptKnows DEF Busy
<1> QED
  BY <1>6, <1>8, <1>13, <1>14, <1>15 DEF OnceInv

LEMMA InitOnce == Init => OnceInv
<1> SUFFICES ASSUME Init PROVE OnceInv
  OBVIOUS
<1>1. \A t \in Tabs : /\ page[t].pending = None /\ page[t].sent = {} /\ page[t].usesSecret = FALSE
  BY DEF Init
<1>2. (\A r \in Calls : call[r].pc = "idle") /\ DOMAIN clients = FirstClients
  BY DEF Init
<1>3. \A r \in Calls : r \notin DOMAIN clients
  BY <1>2, NamesAssumption
<1> QED
  BY <1>1, <1>2, <1>3 DEF OnceInv, SentOnce, AnsweredOnce, Knows, Busy

LEMMA NextOnce == TypeInv /\ OnceInv /\ [Next]_vars => OnceInv'
<1> SUFFICES ASSUME TypeInv, OnceInv, [Next]_vars PROVE OnceInv'
  OBVIOUS
<1>1. TypeOK /\ TypeOK'
  BY NextTypeInv DEF TypeInv
<1>2. ASSUME UNCHANGED <<page, call, clients>> PROVE OnceInv'
  BY <1>2 DEF OnceInv, SentOnce, AnsweredOnce, Knows
<1>3. ASSUME NEW a \in Admins, AdminStep(a) PROVE OnceInv'
  BY <1>2, <1>3 DEF AdminStep, ChangePermission, SignIn, SignOut
<1>4. ASSUME NEW r \in Calls, CallStep(r) PROVE OnceInv'
  <2>1. CASE Serve(r)
    BY <1>1, <2>1, ServeOnce
  <2>2. CASE Lose(r)
    BY <1>1, <2>2, LoseEffect, EndsOnce
  <2>3. ASSUME NEW ok \in BOOLEAN, Gate(r, ok) PROVE OnceInv'
    BY <1>1, <2>3, GateEffect, EndsOnce, PassesOnce
  <2>4. ASSUME NEW ok \in BOOLEAN, Answer(r, ok) PROVE OnceInv'
    BY <1>1, <2>4, AnswerOnce
  <2> QED
    BY <1>4, <2>1, <2>2, <2>3, <2>4 DEF CallStep
<1>5. CASE UNCHANGED vars
  BY <1>2, <1>5 DEF vars
<1> QED
  BY <1>1, <1>3, <1>4, <1>5, NextSteps, VisitOnce, SubmitOnce

\* A page registers one client, or rotates a secret once, however often its button
\* is pressed and whatever fails, unless the first answer was lost
\* (NewClientForm.tsx:13, 77, ClientDetail.tsx:95-108).
THEOREM OneClientPerPage == Spec => []OncePerPage
<1>1. Init => TypeInv /\ OnceInv
  BY InitTypeInv, InitOnce
<1>2. TypeInv /\ OnceInv /\ [Next]_vars => (TypeInv /\ OnceInv)'
  BY NextTypeInv, NextOnce
<1>3. TypeInv /\ OnceInv => OncePerPage
  BY DEF OnceInv, AnsweredOnce, OncePerPage
<1> QED
  BY <1>1, <1>2, <1>3, PTL DEF Spec

------------------------------------------------------------------------------
(* What a form undoes.                                                     *)

\* An update of the client that page t shows, which the page does not know of, by
\* another page or by a form of its own that has had no answer.
Behind(t) ==
  \E x \in saved \ page[t].seen :
    /\ call[x].client = page[t].at
    /\ x \notin page[t].sent \/ call[x].pc = "lost" \/ page[t].pending = x

\* A page shows the fields of its client unless it is behind.
Reads(t) ==
  /\ page[t].seen \subseteq saved
  /\ page[t].at \in ClientIds =>
       /\ page[t].at \in DOMAIN clients
       /\ \A f \in Fields : page[t].fields[f] # clients[page[t].at].fields[f] => Behind(t)

\* The same for what a form has sent.
SentBehind(r) ==
  \E x \in saved \ call[r].seen :
    /\ call[x].client = call[r].client
    /\ x \notin call[r].sent \/ call[x].pc = "lost"

Brings(r) ==
  call[r].pc \in {"gate", "serve"} =>
    /\ call[r].seen \subseteq saved /\ \A y \in call[r].sent : call[y].pc \in Finished
    /\ call[r].op = "update" =>
         /\ call[r].client \in DOMAIN clients
         /\ \A f \in Fields \ call[r].edited :
              call[r].fields[f] # clients[call[r].client].fields[f] => SentBehind(r)

SavedOnly == \A r \in saved : call[r].pc \in {"answer", "done", "lost"}

SavedInv ==
  /\ SavedOnly
  /\ \A t \in Tabs : Reads(t)
  /\ \A r \in Calls : Brings(r)

\* A step changes the fields of a client only by an update that it saves.
Overwrites ==
  /\ saved \subseteq saved'
  /\ \A c \in DOMAIN clients :
       /\ c \in DOMAIN clients'
       /\ \A f \in Fields : clients'[c].fields[f] # clients[c].fields[f] =>
            \E x \in Calls : /\ x \in saved' \ saved /\ call[x].client = c
                            /\ call[x].pc = "serve" /\ call'[x].pc = "answer"

LEMMA SavedGoesOn ==
  ASSUME TypeOK, GoesOn, Overwrites, SavedOnly, NEW x \in saved
  PROVE  /\ x \in Calls /\ x \in saved' /\ x # None
         /\ call'[x].client = call[x].client
         /\ call[x].pc = "lost" => call'[x].pc = "lost"
<1>1. x \in Calls /\ x \in saved' /\ x # None
  BY Names DEF TypeOK, Overwrites
<1>2. call[x].pc \in {"answer", "done", "lost"}
  BY DEF SavedOnly
<1> QED
  BY <1>1, <1>2 DEF GoesOn, Finished

LEMMA KeptReads ==
  ASSUME TypeOK, GoesOn, Overwrites, SavedOnly, SavedOnly', NEW t \in Tabs, Kept(t),
         SentOnce(t), Reads(t)
  PROVE  Reads(t)'
<1>1. /\ page'[t].sent = page[t].sent /\ page'[t].at = page[t].at
      /\ page'[t].seen = page[t].seen /\ page'[t].fields = page[t].fields
  BY DEF Kept
<1>2. page'[t].seen \subseteq saved'
  BY <1>1 DEF Reads, Overwrites
<1>3. ASSUME Behind(t) PROVE Behind(t)'
  <2>1. PICK x \in saved \ page[t].seen :
          /\ call[x].client = page[t].at
          /\ x \notin page[t].sent \/ call[x].pc = "lost" \/ page[t].pending = x
    BY <1>3 DEF Behind
  <2>2. /\ x \in Calls /\ x \in saved' /\ x # None
        /\ call'[x].client = call[x].client
        /\ call[x].pc = "lost" => call'[x].pc = "lost"
    BY <2>1, SavedGoesOn
  <2>3. page[t].pending = x => page'[t].pending = x \/ call'[x].pc \in {"failed", "lost"}
    BY <2>2 DEF Kept
  <2>4. call'[x].pc # "failed"
    BY <2>2 DEF SavedOnly
  <2> QED
    BY <1>1, <2>1, <2>2, <2>3, <2>4 DEF Behind
<1>4. ASSUME NEW x \in Calls, x \in saved' \ saved, call[x].client = page[t].at,
             call[x].pc = "serve", call'[x].pc = "answer"
      PROVE  Behind(t)'
  <2>1. call'[x].client = call[x].client /\ x \notin page[t].seen /\ x # None
    BY <1>4, Names DEF GoesOn, Reads
  <2>2. x \in page[t].sent => page[t].pending = x
    BY <1>4 DEF SentOnce, Finished
  <2>3. page[t].pending = x => page'[t].pending = x
    BY <1>4, <2>1 DEF Kept
  <2> QED
    BY <1>1, <1>4, <2>1, <2>2, <2>3 DEF Behind
<1>5. ASSUME page[t].at \in ClientIds,
             NEW f \in Fields, page'[t].fields[f] # clients'[page[t].at].fields[f]
      PROVE  Behind(t)'
  <2>1. CASE page[t].fields[f] # clients[page[t].at].fields[f]
    BY <1>3, <1>5, <2>1 DEF Reads
  <2>2. CASE clients'[page[t].at].fields[f] # clients[page[t].at].fields[f]
    BY <1>4, <1>5, <2>2 DEF Reads, Overwrites
  <2> QED
    BY <1>1, <1>5, <2>1, <2>2
<1>6. page[t].at \in ClientIds => page[t].at \in DOMAIN clients'
  BY DEF Reads, Overwrites
<1> QED
  BY <1>1, <1>2, <1>5, <1>6 DEF Reads

LEMMA KeptBrings ==
  ASSUME TypeOK, GoesOn, Overwrites, SavedInv, NEW r \in Calls,
         call'[r].pc \in {"gate", "serve"} =>
           /\ call[r].pc \in {"gate", "serve"}
           /\ call'[r].op = call[r].op /\ call'[r].client = call[r].client
           /\ call'[r].seen = call[r].seen /\ call'[r].sent = call[r].sent
           /\ call'[r].fields = call[r].fields /\ call'[r].edited = call[r].edited
  PROVE  Brings(r)'
<1> SUFFICES ASSUME call'[r].pc \in {"gate", "serve"} PROVE Brings(r)'
  BY DEF Brings
<1>1. /\ call[r].pc \in {"gate", "serve"}
      /\ call'[r].op = call[r].op /\ call'[r].client = call[r].client
      /\ call'[r].seen = call[r].seen /\ call'[r].sent = call[r].sent
      /\ call'[r].fields = call[r].fields /\ call'[r].edited = call[r].edited
  OBVIOUS
<1>2. call[r].seen \subseteq saved /\ call[r].sent \subseteq Calls
  BY <1>1 DEF SavedInv, Brings, TypeOK, Call
<1>3. \A y \in call[r].sent : call[y].pc \in Finished /\ call'[y].pc \in Finished
  BY <1>1, <1>2 DEF SavedInv, Brings, GoesOn
<1>4. ASSUME SentBehind(r) PROVE SentBehind(r)'
  <2>1. PICK x \in saved \ call[r].seen :
          /\ call[x].client = call[r].client
          /\ x \notin call[r].sent \/ call[x].pc = "lost"
    BY <1>4 DEF SentBehind
  <2>2. /\ x \in saved' /\ call'[x].client = call[x].client
        /\ call[x].pc = "lost" => call'[x].pc = "lost"
    BY <2>1, SavedGoesOn DEF SavedInv
  <2> QED
    BY <1>1, <2>1, <2>2 DEF SentBehind
<1>5. ASSUME NEW x \in Calls, x \in saved' \ saved, call[x].client = call[r].client,
             call[x].pc = "serve"
      PROVE  SentBehind(r)'
  <2>1. call'[x].client = call[x].client /\ x \notin call[r].seen /\ x \notin call[r].sent
    BY <1>2, <1>3, <1>5 DEF GoesOn, Finished
  <2> QED
    BY <1>1, <1>5, <2>1 DEF SentBehind
<1>6. call[r].op = "update" => call[r].client \in DOMAIN clients
  BY <1>1 DEF SavedInv, Brings
<1>7. ASSUME call[r].op = "update", NEW f \in Fields \ call[r].edited,
             call[r].fields[f] # clients'[call[r].client].fields[f]
      PROVE  SentBehind(r)'
  <2>1. CASE call[r].fields[f] # clients[call[r].client].fields[f]
    BY <1>1, <1>4, <1>7, <2>1 DEF SavedInv, Brings
  <2>2. CASE clients'[call[r].client].fields[f] # clients[call[r].client].fields[f]
    BY <1>5, <1>6, <1>7, <2>2 DEF Overwrites
  <2> QED
    BY <1>7, <2>1, <2>2
<1>8. call[r].seen \subseteq saved' /\ (call[r].op = "update" => call[r].client \in DOMAIN clients')
  BY <1>2, <1>6 DEF Overwrites
<1> QED
  BY <1>1, <1>3, <1>7, <1>8 DEF Brings

LEMMA SameRows == UNCHANGED <<clients, saved>> => Overwrites
BY DEF Overwrites

LEMMA VisitSaved ==
  ASSUME TypeInv, SavedInv, NEW t \in Tabs, NEW a \in Admins, NEW x \in Shows \cup {None},
         NEW ok \in BOOLEAN, NEW layout \in BOOLEAN, Visit(t, a, x, ok, layout)
  PROVE  SavedInv'
<1>1. PICK q \in Page :
        /\ OnePage(t, q) /\ q.seen \subseteq saved
        /\ q.at \in ClientIds => q.at \in DOMAIN clients /\ q.fields = clients[q.at].fields
  BY VisitEffect DEF TypeInv
<1>2. UNCHANGED <<clients, call, saved>>
  BY DEF Visit
<1>3. Reads(t)'
  BY <1>1, <1>2 DEF Reads, OnePage
<1>4. \A u \in Tabs \ {t} : Reads(u)'
  BY <1>1, <1>2 DEF SavedInv, Reads, Behind, OnePage
<1>5. SavedOnly' /\ \A r \in Calls : Brings(r)'
  BY <1>2 DEF SavedInv, SavedOnly, Brings, SentBehind
<1> QED
  BY <1>3, <1>4, <1>5 DEF SavedInv

LEMMA SubmitSaved ==
  ASSUME TypeInv, OnceInv, SavedInv, NEW r \in Calls, NEW t \in Tabs,
         NEW kind \in {"create", "update", "rotate"}, NEW E \in SUBSET Fields, NEW v \in Forms,
         NEW confidential \in BOOLEAN, Submit(r, t, kind, E, v, confidential)
  PROVE  SavedInv'
<1>1. TypeOK
  BY DEF TypeInv
<1>2. PICK q \in Page, x \in Call : Submitted(r, t, kind, E, v, q, x)
  BY <1>1, SubmitEffect
<1>3. UNCHANGED <<clients, saved>> /\ OnePage(t, q) /\ OneCall(r, x) /\ call[r].pc = "idle"
  BY <1>2 DEF Submit, Submitted
<1>4. GoesOn /\ Overwrites
  BY <1>1, <1>3, OneGoesOn, SameRows DEF Busy
<1>5. page[t].pending = None /\ HasForm(t, kind) /\ page[t].sent \subseteq Calls
  BY <1>1, <1>2, PageSent DEF Submitted, CanSend
<1>6. /\ q.sent = page[t].sent \cup {r} /\ q.at = page[t].at /\ q.seen = page[t].seen
      /\ q.fields = page[t].fields
  BY <1>1, <1>2 DEF Submitted, TypeOK, Page
<1>7. r \notin saved /\ SavedOnly'
  BY <1>1, <1>3 DEF SavedInv, SavedOnly, OneCall, TypeOK
<1>8. ASSUME Behind(t)
      PROVE  \E y \in saved \ page[t].seen :
               /\ call[y].client = page[t].at /\ call'[y] = call[y]
               /\ y \notin page[t].sent \/ call[y].pc = "lost"
  <2>1. PICK y \in saved \ page[t].seen :
          /\ call[y].client = page[t].at
          /\ y \notin page[t].sent \/ call[y].pc = "lost" \/ page[t].pending = y
    BY <1>8 DEF Behind
  <2>2. y # None /\ y # r /\ y \in Calls
    BY <1>1, <1>7, <2>1, Names DEF TypeOK
  <2> QED
    BY <1>3, <1>5, <2>1, <2>2 DEF OneCall
<1>9. Reads(t)'
  <2>1. page'[t] = q
    BY <1>3 DEF OnePage
  <2>2. Behind(t) => Behind(t)'
    BY <1>3, <1>6, <1>7, <1>8, <2>1 DEF Behind
  <2> QED
    BY <1>3, <1>6, <2>1, <2>2 DEF SavedInv, Reads
<1>10. \A u \in Tabs \ {t} : Reads(u)'
  <2>1. \A u \in Tabs \ {t} : Kept(u)
    BY <1>3 DEF OnePage, Kept
  <2> QED
    BY <1>1, <1>4, <1>7, <2>1, KeptReads DEF OnceInv, SavedInv
<1>11. \A y \in Calls \ {r} : Brings(y)'
  <2>1. \A y \in Calls \ {r} : call'[y] = call[y]
    BY <1>3 DEF OneCall
  <2> QED
    BY <1>1, <1>4, <2>1, KeptBrings
<1>12. Brings(r)'
  <2>1. CASE x.pc = "failed"
    BY <1>3, <2>1 DEF Brings, OneCall
  <2>2. CASE /\ x.pc = "gate" /\ x.op = kind /\ x.client = page[t].at
             /\ x.edited = E /\ x.seen = page[t].seen /\ x.sent = page[t].sent
             /\ x.fields = Sent(t, E, v)
    <3>1. call'[r] = x
      BY <1>3 DEF OneCall
    <3>2. x.seen \subseteq saved /\ \A y \in x.sent : call'[y].pc \in Finished
      BY <1>4, <1>5, <2>2, Names DEF SavedInv, Reads, OnceInv, SentOnce, GoesOn
    <3>3. kind = "update" => page[t].at \in ClientIds
      BY <1>5 DEF HasForm
    <3>4. Behind(t) => SentBehind(r)'
      BY <1>3, <1>8, <2>2, <3>1 DEF SentBehind
    <3>5. \A f \in Fields \ E : x.fields[f] = page[t].fields[f]
      BY <2>2 DEF Sent
    <3> QED
      BY <1>3, <2>2, <3>1, <3>2, <3>3, <3>4, <3>5 DEF SavedInv, Reads, Brings
  <2> QED
    BY <1>2, <2>1, <2>2 DEF Submitted
<1> QED
  BY <1>7, <1>9, <1>10, <1>11, <1>12 DEF SavedInv

LEMMA EndsSaved ==
  ASSUME TypeOK, TypeOK', OnceInv, SavedInv, NEW r \in Calls, NEW p \in {"failed", "lost"},
         Ends(r, p)
  PROVE  SavedInv'
<1>1. PICK x \in Call : OneCall(r, x) /\ x.pc = p
  BY CallType DEF Ends, Call
<1>2. UNCHANGED <<clients, saved>> /\ call[r].pc = IF p = "failed" THEN "gate" ELSE "answer"
  BY DEF Ends
<1>3. SavedOnly'
  BY <1>1, <1>2 DEF SavedInv, SavedOnly, OneCall, TypeOK
<1>4. GoesOn /\ Overwrites /\ \A t \in Tabs : Kept(t)
  BY <1>2, EndsOnce, SameRows
<1>5. \A t \in Tabs : Reads(t)'
  BY <1>3, <1>4, KeptReads DEF OnceInv, SavedInv
<1>6. \A y \in Calls : Brings(y)'
  <2>1. \A y \in Calls : call'[y].pc \in {"gate", "serve"} => call'[y] = call[y]
    BY <1>1 DEF OneCall
  <2> QED
    BY <1>4, <2>1, KeptBrings
<1> QED
  BY <1>3, <1>5, <1>6 DEF SavedInv

LEMMA PassesSaved ==
  ASSUME TypeOK, TypeOK', OnceInv, SavedInv, NEW r \in Calls, Passes(r)
  PROVE  SavedInv'
<1>1. PICK x \in Call : OneCall(r, x) /\ x = [call[r] EXCEPT !.pc = "serve"]
  BY DEF Passes
<1>2. /\ x.pc = "serve" /\ x.op = call[r].op /\ x.client = call[r].client
      /\ x.seen = call[r].seen /\ x.sent = call[r].sent
      /\ x.fields = call[r].fields /\ x.edited = call[r].edited
  BY <1>1, CallType DEF Call
<1>3. UNCHANGED <<clients, saved>> /\ call[r].pc = "gate"
  BY DEF Passes
<1>4. SavedOnly'
  BY <1>1, <1>3 DEF SavedInv, SavedOnly, OneCall, TypeOK
<1>5. GoesOn /\ Overwrites /\ \A t \in Tabs : Kept(t)
  BY <1>3, PassesOnce, SameRows
<1>6. \A t \in Tabs : Reads(t)'
  BY <1>4, <1>5, KeptReads DEF OnceInv, SavedInv
<1>7. Brings(r)'
  BY <1>1, <1>2, <1>3, <1>5, KeptBrings DEF OneCall
<1>8. \A y \in Calls \ {r} : Brings(y)'
  <2>1. \A y \in Calls \ {r} : call'[y] = call[y]
    BY <1>1 DEF OneCall
  <2> QED
    BY <1>5, <2>1, KeptBrings
<1> QED
  BY <1>4, <1>6, <1>7, <1>8 DEF SavedInv

LEMMA ServeOverwrites ==
  ASSUME TypeInv, OnceInv, SavedInv, NEW r \in Calls, Serve(r)
  PROVE  Overwrites /\ saved' \subseteq saved \cup {r}
<1>1. PICK x \in Call : OneCall(r, x) /\ x.pc = "answer"
  BY ServeEffect
<1>2. Wrote(r) /\ call[r].pc = "serve" /\ call'[r].pc = "answer"
  BY <1>1, ServeEffect DEF OneCall
<1>3. r \notin DOMAIN clients /\ r \notin saved
  BY <1>2 DEF OnceInv, Knows, SavedInv, SavedOnly
<1> QED
  BY <1>2, <1>3 DEF Wrote, Overwrites

LEMMA ServeSaved ==
  ASSUME TypeInv, TypeOK', OnceInv, SavedInv, NEW r \in Calls, Serve(r)
  PROVE  SavedInv'
<1>1. PICK x \in Call : OneCall(r, x) /\ x.pc = "answer"
  BY ServeEffect
<1>2. TypeOK /\ GoesOn /\ Overwrites /\ \A t \in Tabs : Kept(t)
  BY ServeOnce, ServeOverwrites DEF TypeInv
<1>3. SavedOnly'
  BY <1>1, <1>2, ServeOverwrites DEF SavedInv, SavedOnly, OneCall, TypeOK
<1>4. \A t \in Tabs : Reads(t)'
  BY <1>2, <1>3, KeptReads DEF OnceInv, SavedInv
<1>5. \A y \in Calls : Brings(y)'
  <2>1. \A y \in Calls : call'[y].pc \in {"gate", "serve"} => call'[y] = call[y]
    BY <1>1 DEF OneCall
  <2> QED
    BY <1>2, <2>1, KeptBrings
<1> QED
  BY <1>3, <1>4, <1>5 DEF SavedInv

LEMMA AnswerSaved ==
  ASSUME TypeInv, TypeOK', OnceInv, SavedInv, NEW r \in Calls, NEW ok \in BOOLEAN, Answer(r, ok)
  PROVE  SavedInv'
<1>1. TypeOK /\ Answered(r)
  BY AnsweredEffect DEF TypeInv
<1>t. PICK t \in Tabs : t = call[r].tab
  BY <1>1, CallType
<1>2. PICK x \in Call : OneCall(r, x) /\ x.pc = "done"
  BY <1>1, CallType DEF Answered, Call
<1>3. PICK q \in Page :
        /\ OnePage(t, q) /\ q.seen \subseteq saved
        /\ q.at \in ClientIds => q.at \in DOMAIN clients /\ q.fields = clients[q.at].fields
  BY <1>1, <1>t, AnswerEffect
<1>4. call[r].pc = "answer" /\ UNCHANGED <<clients, saved>>
  BY <1>1 DEF Answered
<1>5. GoesOn /\ Overwrites
  BY <1>4, AnswerOnce, SameRows
<1>6. SavedOnly'
  BY <1>1, <1>2, <1>4 DEF SavedInv, SavedOnly, OneCall, TypeOK
<1>7. Reads(t)'
  BY <1>3, <1>4 DEF Reads, OnePage
<1>8. \A u \in Tabs \ {t} : Reads(u)'
  <2>1. \A u \in Tabs \ {t} : Kept(u)
    BY <1>3 DEF OnePage, Kept
  <2> QED
    BY <1>1, <1>5, <1>6, <2>1, KeptReads DEF OnceInv, SavedInv
<1>9. \A y \in Calls : Brings(y)'
  <2>1. \A y \in Calls : call'[y].pc \in {"gate", "serve"} => call'[y] = call[y]
    BY <1>2 DEF OneCall
  <2> QED
    BY <1>1, <1>5, <2>1, KeptBrings
<1> QED
  BY <1>6, <1>7, <1>8, <1>9 DEF SavedInv

LEMMA InitSaved == Init => SavedInv
<1> SUFFICES ASSUME Init PROVE SavedInv
  OBVIOUS
<1>1. saved = {} /\ (\A t \in Tabs : page[t].at = "list" /\ page[t].seen = {})
  BY DEF Init
<1>2. \A r \in Calls : call[r].pc = "idle"
  BY DEF Init
<1> QED
  BY <1>1, <1>2, Names DEF SavedInv, SavedOnly, Reads, Brings

LEMMA NextSaved == TypeInv /\ OnceInv /\ SavedInv /\ [Next]_vars => SavedInv'
<1> SUFFICES ASSUME TypeInv, OnceInv, SavedInv, [Next]_vars PROVE SavedInv'
  OBVIOUS
<1>1. TypeOK /\ TypeOK'
  BY NextTypeInv DEF TypeInv
<1>2. ASSUME UNCHANGED <<page, call, clients, saved>> PROVE SavedInv'
  BY <1>2 DEF SavedInv, SavedOnly, Reads, Behind, Brings, SentBehind
<1>3. ASSUME NEW a \in Admins, AdminStep(a) PROVE SavedInv'
  BY <1>2, <1>3 DEF AdminStep, ChangePermission, SignIn, SignOut
<1>4. ASSUME NEW r \in Calls, CallStep(r) PROVE SavedInv'
  <2>1. CASE Serve(r)
    BY <1>1, <2>1, ServeSaved
  <2>2. CASE Lose(r)
    BY <1>1, <2>2, LoseEffect, EndsSaved
  <2>3. ASSUME NEW ok \in BOOLEAN, Gate(r, ok) PROVE SavedInv'
    BY <1>1, <2>3, GateEffect, EndsSaved, PassesSaved
  <2>4. ASSUME NEW ok \in BOOLEAN, Answer(r, ok) PROVE SavedInv'
    BY <1>1, <2>4, AnswerSaved
  <2> QED
    BY <1>4, <2>1, <2>2, <2>3, <2>4 DEF CallStep
<1>5. CASE UNCHANGED vars
  BY <1>2, <1>5 DEF vars
<1> QED
  BY <1>1, <1>3, <1>4, <1>5, NextSteps, VisitSaved, SubmitSaved

\* What a step may undo.
Undoes ==
  \A c \in DOMAIN clients, f \in Fields :
    clients'[c].fields[f] # clients[c].fields[f] =>
      \E r \in saved' \ saved :
        /\ call[r].client = c
        /\ \/ f \in call[r].edited
           \/ \E x \in saved \ call[r].seen :
                /\ call[x].client = c
                /\ x \notin call[r].sent \/ call[x].pc # "done"

LEMMA ServeUndoes ==
  ASSUME TypeInv, OnceInv, SavedInv, NEW r \in Calls, Serve(r)
  PROVE  Undoes
<1>1. Wrote(r) /\ call[r].pc = "serve"
  BY ServeEffect
<1>2. r \notin DOMAIN clients /\ r \notin saved
  BY <1>1 DEF OnceInv, Knows, SavedInv, SavedOnly
<1>3. ASSUME NEW c \in DOMAIN clients, NEW f \in Fields,
             clients'[c].fields[f] # clients[c].fields[f]
      PROVE  /\ r \in saved' /\ call[r].client = c
             /\ f \in call[r].edited \/ SentBehind(r)
  <2>1. /\ call[r].op = "update" /\ saved' = saved \cup {r} /\ c = call[r].client
        /\ clients'[c].fields = call[r].fields
    BY <1>1, <1>2, <1>3 DEF Wrote
  <2> QED
    BY <1>1, <1>3, <2>1 DEF SavedInv, Brings
<1> QED
  BY <1>2, <1>3 DEF Undoes, SentBehind

\* A form undoes a saved update only if its page was read before it, and the update
\* came from elsewhere or its answer was lost (actions.ts:100-104,
\* ClientDetail.tsx:60-76).
THEOREM OlderPagesUndo == Spec => UndoneOnlyFromAnOlderPage
<1>1. Init => TypeInv /\ OnceInv /\ SavedInv
  BY InitTypeInv, InitOnce, InitSaved
<1>2. TypeInv /\ OnceInv /\ SavedInv /\ [Next]_vars => (TypeInv /\ OnceInv /\ SavedInv)'
  BY NextTypeInv, NextOnce, NextSaved
<1>3. TypeInv /\ OnceInv /\ SavedInv /\ [Next]_vars => [Undoes]_vars
  <2> SUFFICES ASSUME TypeInv, OnceInv, SavedInv, Next PROVE Undoes
    OBVIOUS
  <2>1. TypeOK
    BY DEF TypeInv
  <2>2. ASSUME clients' = clients PROVE Undoes
    BY <2>2 DEF Undoes
  <2>3. ASSUME NEW a \in Admins, AdminStep(a) PROVE Undoes
    BY <2>2, <2>3 DEF AdminStep, ChangePermission, SignIn, SignOut
  <2>4. ASSUME NEW r \in Calls, CallStep(r) PROVE Undoes
    BY <2>2, <2>4, ServeUndoes DEF CallStep, Lose, Gate, Answer
  <2>5. ASSUME NEW t \in Tabs, NEW a \in Admins, NEW x \in Shows \cup {None},
               NEW ok \in BOOLEAN, NEW layout \in BOOLEAN, Visit(t, a, x, ok, layout)
        PROVE  Undoes
    BY <2>2, <2>5 DEF Visit
  <2>6. ASSUME NEW t \in Tabs, NEW r \in Calls, NEW kind \in {"create", "update", "rotate"},
               NEW E \in SUBSET Fields, NEW v \in Forms, NEW confidential \in BOOLEAN,
               Submit(r, t, kind, E, v, confidential)
        PROVE  Undoes
    BY <2>2, <2>6 DEF Submit
  <2> QED
    BY <2>1, <2>3, <2>4, <2>5, <2>6, NextSteps
<1> QED
  BY <1>1, <1>2, <1>3, PTL DEF Spec, UndoneOnlyFromAnOlderPage, Undoes

------------------------------------------------------------------------------
(* The other client of the server that keeps a session: SdkSession, for any   *)
(* number of requests of a browser session and any number of accounts.       *)

\* A handler has changed its copy of the session as far as it has come.
CopyFits(r) ==
  /\ pc[r] \in {"idle", "handle"} => copy[r] = loaded[r]
  /\ op[r] = "page" => copy[r] = loaded[r]
  /\ account[r] # Nobody => op[r] = "callback" /\ copy[r].user = account[r]
  /\ account[r] = Nobody /\ op[r] # "logout" => copy[r].user = loaded[r].user
  /\ op[r] = "logout" /\ pc[r] # "handle" => copy[r].user = Nobody
  /\ op[r] = "login" /\ pc[r] \in {"end", "ended"} /\ answer[r] = "ok" => copy[r].pending = r

\* Where a request is in its handler, and what it has been told.
PlaceFits(r) ==
  /\ pc[r] = "idle" => op[r] = "page" /\ prior[r] = {}
  /\ pc[r] \in {"idle", "handle"} => account[r] = Nobody /\ answer[r] = "ok"
  /\ pc[r] \in {"exchange", "userinfo", "hook"} => op[r] = "callback"
  /\ pc[r] \in {"exchange", "userinfo"} => account[r] = Nobody
  /\ pc[r] = "userinfo" => login[r] \in used
  /\ pc[r] = "hook" => account[r] # Nobody
  /\ op[r] = "callback" => login[r] \in Requests
  /\ op[r] = "callback" /\ pc[r] \in {"end", "ended"} /\ answer[r] = "ok" => account[r] # Nobody

Fits(r) == CopyFits(r) /\ PlaceFits(r)

\* Requests that were answered before another arrived stay answered.
PriorEnded == \A r \in Requests : \A x \in prior[r] : x \in Requests /\ pc[x] = "ended"

SdkFits ==
  SdkTypeOK /\ PriorEnded /\ \A r \in Requests : Fits(r)

LEMMA InitSdkFits == SdkInit => SdkFits
<1> SUFFICES ASSUME SdkInit PROVE SdkFits
  OBVIOUS
<1>1. SdkTypeOK
  BY DEF SdkInit, SdkTypeOK, Empty, Sessions, PCs, Routes
<1>2. PriorEnded /\ \A r \in Requests : Fits(r)
  BY DEF SdkInit, PriorEnded, Fits, CopyFits, PlaceFits
<1> QED
  BY <1>1, <1>2 DEF SdkFits

\* Only request r moves.
OnlyOf(r) ==
  \A x \in Requests \ {r} :
    /\ pc'[x] = pc[x] /\ copy'[x] = copy[x] /\ loaded'[x] = loaded[x] /\ op'[x] = op[x]
    /\ login'[x] = login[x] /\ answer'[x] = answer[x] /\ account'[x] = account[x]
    /\ prior'[x] = prior[x]

\* Request r arrives with the session of now.
Loads(r) ==
  /\ pc[r] = "idle" /\ pc'[r] = "handle" /\ OnlyOf(r)
  /\ loaded'[r] = stored /\ copy'[r] = stored /\ stored' = stored
  /\ prior'[r] = Ended
  /\ answer'[r] = answer[r] /\ account'[r] = account[r]
  /\ op'[r] = "callback" => /\ login'[r] \in Requests /\ pc[login'[r]] = "ended"
                            /\ op[login'[r]] = "login" /\ answer[login'[r]] = "ok"
  /\ UNCHANGED <<grantedTo, used>>

\* Its handler runs.
Handled(r) ==
  /\ pc[r] \notin {"idle", "end", "ended"} /\ pc'[r] \notin {"idle", "handle", "ended"}
  /\ OnlyOf(r) /\ UNCHANGED <<stored, loaded, op, login, prior>>
  /\ account[r] # Nobody => account'[r] = account[r]
  /\ answer'[r] = "refused" /\ op[r] = "callback" /\ answer[r] # "refused"
     => pc[r] = "handle" /\ copy[r].pending # login[r]
  /\ used \subseteq used'

\* It is answered, and its session is stored if the handler has changed it.
Stores(r) ==
  /\ pc[r] = "end" /\ pc'[r] = "ended" /\ OnlyOf(r)
  /\ stored' = IF copy[r] # loaded[r] THEN copy[r] ELSE stored
  /\ UNCHANGED <<copy, loaded, op, login, answer, account, grantedTo, used, prior>>

LEMMA FitsKept ==
  ASSUME SdkFits, NEW r \in Requests, OnlyOf(r), Fits(r)', SdkTypeOK', used \subseteq used',
         prior'[r] = prior[r] \/ (prior'[r] = Ended /\ pc[r] = "idle"), pc[r] # "ended"
  PROVE  SdkFits'
<1>1. \A x \in Requests : Fits(x)'
  BY DEF SdkFits, OnlyOf, Fits, CopyFits, PlaceFits
<1>2. PriorEnded'
  BY DEF SdkFits, OnlyOf, PriorEnded, Ended
<1> QED
  BY <1>1, <1>2 DEF SdkFits

LEMMA ArriveLoads ==
  ASSUME SdkFits, NEW r \in Requests, NEW route \in Routes,
         NEW s \in Requests \cup {Nobody}, Arrive(r, route, s)
  PROVE  Loads(r) /\ SdkFits'
<1>1. SdkTypeOK /\ Fits(r)
  BY DEF SdkFits
<1>2. Loads(r)
  BY <1>1 DEF Arrive, Goto, Ended, server, Loads, OnlyOf, SdkTypeOK
<1>3. SdkTypeOK'
  BY <1>1 DEF Arrive, Goto, Ended, server, SdkTypeOK, PCs
<1>4. Fits(r)'
  BY <1>1, <1>2 DEF Loads, Fits, CopyFits, PlaceFits
<1> QED
  BY <1>2, <1>3, <1>4, FitsKept DEF Loads

LEMMA EndStores ==
  ASSUME SdkFits, NEW r \in Requests, End(r)
  PROVE  Stores(r) /\ SdkFits'
<1>1. SdkTypeOK /\ Fits(r)
  BY DEF SdkFits
<1>2. Stores(r)
  BY <1>1 DEF End, Goto, server, Stores, OnlyOf, SdkTypeOK
<1>3. SdkTypeOK'
  BY <1>1 DEF End, Goto, server, SdkTypeOK, PCs
<1>4. Fits(r)'
  BY <1>1, <1>2 DEF Stores, Fits, CopyFits, PlaceFits
<1> QED
  BY <1>2, <1>3, <1>4, FitsKept DEF Stores

\* A handler that changes its copy, its answer and its place.
LEMMA HandlerRuns ==
  ASSUME SdkFits, NEW r \in Requests, NEW c \in Sessions,
         NEW how \in {"ok", "refused", "failed"},
         NEW to \in {"exchange", "userinfo", "hook", "end"},
         pc[r] \notin {"idle", "end", "ended"}, pc' = [pc EXCEPT ![r] = to],
         copy' = [copy EXCEPT ![r] = c], answer' = [answer EXCEPT ![r] = how], Frame
  PROVE  /\ \A x \in Requests \ {r} :
              /\ pc'[x] = pc[x] /\ copy'[x] = copy[x] /\ loaded'[x] = loaded[x] /\ op'[x] = op[x]
              /\ login'[x] = login[x] /\ answer'[x] = answer[x] /\ prior'[x] = prior[x]
         /\ pc'[r] = to /\ copy'[r] = c /\ answer'[r] = how
         /\ UNCHANGED <<stored, loaded, op, login, prior>>
         /\ (/\ account' \in [Requests -> Accounts \cup {Nobody}]
             /\ grantedTo' \in [Requests -> Accounts \cup {Nobody}]
             /\ used' \subseteq Requests /\ \A s \in used' : grantedTo'[s] # Nobody)
            => SdkTypeOK'
BY DEF SdkFits, SdkTypeOK, Frame, PCs

LEMMA StaysInHandler ==
  ASSUME SdkFits, NEW r \in Requests, NEW c \in Sessions,
         NEW how \in {"ok", "refused", "failed"},
         NEW to \in {"exchange", "userinfo", "hook", "end"},
         pc[r] \notin {"idle", "end", "ended"}, pc' = [pc EXCEPT ![r] = to],
         copy' = [copy EXCEPT ![r] = c], answer' = [answer EXCEPT ![r] = how], Frame,
         UNCHANGED <<account, grantedTo, used>>,
         how = "refused" /\ op[r] = "callback" => pc[r] = "handle" /\ copy[r].pending # login[r],
         Fits(r)'
  PROVE  Handled(r) /\ SdkFits'
<1>1. SdkTypeOK /\ SdkTypeOK'
  BY HandlerRuns DEF SdkFits, SdkTypeOK
<1>2. Handled(r)
  BY HandlerRuns DEF Handled, OnlyOf
<1> QED
  BY <1>1, <1>2, FitsKept DEF Handled

\* The session with another pending login, or another user.
LEMMA SessionOf ==
  ASSUME SdkFits, NEW r \in Requests
  PROVE  /\ copy[r] \in Sessions
         /\ \A p \in Requests \cup {Nobody} :
              \E c \in Sessions :
                /\ c = [copy[r] EXCEPT !.pending = p] /\ c.pending = p /\ c.user = copy[r].user
         /\ \A u \in Accounts \cup {Nobody} :
              \E c \in Sessions :
                /\ c = [copy[r] EXCEPT !.user = u] /\ c.user = u /\ c.pending = copy[r].pending
<1>1. copy[r] \in Sessions
  BY DEF SdkFits, SdkTypeOK
<1>2. ASSUME NEW p \in Requests \cup {Nobody}
      PROVE  \E c \in Sessions :
               /\ c = [copy[r] EXCEPT !.pending = p] /\ c.pending = p /\ c.user = copy[r].user
  <2> DEFINE c == [copy[r] EXCEPT !.pending = p]
  <2>1. c \in Sessions /\ c.pending = p /\ c.user = copy[r].user
    BY <1>1 DEF Sessions
  <2> QED
    BY <2>1
<1>3. ASSUME NEW u \in Accounts \cup {Nobody}
      PROVE  \E c \in Sessions :
               /\ c = [copy[r] EXCEPT !.user = u] /\ c.user = u /\ c.pending = copy[r].pending
  <2> DEFINE c == [copy[r] EXCEPT !.user = u]
  <2>1. c \in Sessions /\ c.user = u /\ c.pending = copy[r].pending
    BY <1>1 DEF Sessions
  <2> QED
    BY <2>1
<1> QED
  BY <1>1, <1>2, <1>3

LEMMA StepHandled ==
  ASSUME SdkFits, NEW r \in Requests, SdkStep(r), ~End(r)
  PROVE  Handled(r) /\ SdkFits'
<1>1. SdkTypeOK /\ Fits(r)
  BY DEF SdkFits
<1>2. /\ copy \in [Requests -> Sessions]
      /\ answer \in [Requests -> {"ok", "refused", "failed"}]
      /\ answer[r] \in {"ok", "refused", "failed"} /\ copy[r] \in Sessions
      /\ pc \in [Requests -> PCs]
  BY <1>1 DEF SdkTypeOK
<1>3. copy = [copy EXCEPT ![r] = copy[r]] /\ answer = [answer EXCEPT ![r] = answer[r]]
  BY <1>2
<1>4. CASE Login(r)
  <2>1. CASE copy' = [copy EXCEPT ![r].pending = r] /\ Respond(r, "ok")
    <3>1. PICK c \in Sessions : /\ c = [copy[r] EXCEPT !.pending = r]
                                    /\ c.pending = r /\ c.user = copy[r].user
      BY SessionOf
    <3>2. /\ copy' = [copy EXCEPT ![r] = c] /\ answer' = [answer EXCEPT ![r] = "ok"]
          /\ pc[r] = "handle" /\ op[r] = "login" /\ pc' = [pc EXCEPT ![r] = "end"] /\ Frame
          /\ UNCHANGED <<account, grantedTo, used>>
      BY <1>4, <2>1, <3>1 DEF Login, Handles, Goto, Respond, server
    <3>3. /\ pc'[r] = "end" /\ copy'[r] = c /\ answer'[r] = "ok" /\ account'[r] = account[r]
          /\ UNCHANGED <<stored, loaded, op, login, prior, used>>
      BY <1>2, <3>2 DEF Frame
    <3>4. Fits(r)'
      BY <1>1, <3>1, <3>2, <3>3 DEF Fits, CopyFits, PlaceFits
    <3> QED
      BY <1>2, <3>2, <3>4, StaysInHandler
  <2>2. CASE UNCHANGED copy /\ Respond(r, "failed")
    <3>2. /\ copy' = [copy EXCEPT ![r] = copy[r]] /\ answer' = [answer EXCEPT ![r] = "failed"]
          /\ pc[r] = "handle" /\ op[r] = "login" /\ pc' = [pc EXCEPT ![r] = "end"] /\ Frame
          /\ UNCHANGED <<account, grantedTo, used>>
      BY <1>3, <1>4, <2>2 DEF Login, Handles, Goto, Respond, server
    <3>3. /\ pc'[r] = "end" /\ copy'[r] = copy[r] /\ answer'[r] = "failed"
          /\ account'[r] = account[r]
          /\ UNCHANGED <<stored, loaded, op, login, prior, used>>
      BY <1>2, <3>2 DEF Frame
    <3>4. Fits(r)'
      BY <1>1, <3>2, <3>3 DEF Fits, CopyFits, PlaceFits
    <3> QED
      BY <1>2, <3>2, <3>4, StaysInHandler
  <2> QED
    BY <1>4, <2>1, <2>2 DEF Login
<1>5. ASSUME NEW how \in {"ok", "refused", "failed"}, NEW to \in {"exchange", "end"},
             Handles(r, "callback"), pc' = [pc EXCEPT ![r] = to],
             copy' = [copy EXCEPT ![r].pending = Nobody], answer' = [answer EXCEPT ![r] = how],
             Frame, UNCHANGED <<account, grantedTo, used>>,
             how = "refused" => copy[r].pending # login[r], to = "end" => how # "ok"
      PROVE  Handled(r) /\ SdkFits'
  <2>1. PICK c \in Sessions : /\ c = [copy[r] EXCEPT !.pending = Nobody]
                                  /\ c.pending = Nobody /\ c.user = copy[r].user
    BY SessionOf
  <2>2. copy' = [copy EXCEPT ![r] = c] /\ pc[r] = "handle" /\ op[r] = "callback"
    BY <1>5, <2>1 DEF Handles
  <2>3. /\ pc'[r] = to /\ copy'[r] = c /\ answer'[r] = how /\ account'[r] = account[r]
        /\ UNCHANGED <<stored, loaded, op, login, prior, used>>
    BY <1>2, <1>5, <2>2 DEF Frame
  <2>4. Fits(r)'
    BY <1>1, <1>5, <2>1, <2>2, <2>3 DEF Fits, CopyFits, PlaceFits
  <2> QED
    BY <1>2, <1>5, <2>2, <2>4, StaysInHandler
<1>6. CASE CallbackRefused(r)
  BY <1>5, <1>6 DEF CallbackRefused, Handles, Goto, Respond, server
<1>7. CASE CallbackDenied(r)
  BY <1>5, <1>7 DEF CallbackDenied, Handles, Goto, Respond, server
<1>8. CASE Callback(r)
  <2>1. /\ Handles(r, "callback") /\ pc' = [pc EXCEPT ![r] = "exchange"]
        /\ copy' = [copy EXCEPT ![r].pending = Nobody] /\ answer' = [answer EXCEPT ![r] = answer[r]]
        /\ Frame /\ UNCHANGED <<account, grantedTo, used>> /\ pc[r] = "handle"
    BY <1>3, <1>8 DEF Callback, Goto, server
  <2>2. answer[r] = "ok"
    BY <1>1, <2>1 DEF Fits, PlaceFits
  <2> QED
    BY <1>2, <1>5, <2>1, <2>2
<1>9. CASE Exchange(r)
  <2>1. /\ pc[r] = "exchange" /\ pc' = [pc EXCEPT ![r] = "userinfo"]
        /\ copy' = [copy EXCEPT ![r] = copy[r]] /\ answer' = [answer EXCEPT ![r] = answer[r]]
        /\ Frame /\ account' = account /\ used' = used \cup {login[r]}
    BY <1>3, <1>9 DEF Exchange, Goto
  <2>2. op[r] = "callback" /\ login[r] \in Requests
    BY <1>1, <2>1 DEF Fits, PlaceFits
  <2>3. /\ account' \in [Requests -> Accounts \cup {Nobody}]
        /\ grantedTo' \in [Requests -> Accounts \cup {Nobody}]
        /\ used' \subseteq Requests /\ \A s \in used' : grantedTo'[s] # Nobody
    BY <1>1, <1>9, <2>1, <2>2, NobodyAssumption DEF Exchange, SdkTypeOK
  <2>4. SdkTypeOK'
    BY <1>2, <2>1, <2>3, HandlerRuns
  <2>5. /\ pc'[r] = "userinfo" /\ copy'[r] = copy[r] /\ answer'[r] = answer[r]
        /\ account'[r] = account[r]
        /\ UNCHANGED <<stored, loaded, op, login, prior>>
    BY <1>2, <2>1 DEF Frame
  <2>6. Fits(r)'
    BY <1>1, <2>1, <2>2, <2>5 DEF Fits, CopyFits, PlaceFits
  <2>7. Handled(r)
    BY <1>2, <2>1, <2>5, HandlerRuns DEF Handled, OnlyOf
  <2> QED
    BY <2>1, <2>4, <2>6, <2>7, FitsKept DEF Handled
<1>10. CASE UserInfo(r)
  <2>1. /\ pc[r] = "userinfo" /\ pc' = [pc EXCEPT ![r] = "hook"]
        /\ answer' = [answer EXCEPT ![r] = answer[r]] /\ Frame
        /\ account' = [account EXCEPT ![r] = grantedTo[login[r]]]
        /\ copy' = [copy EXCEPT ![r].user = grantedTo[login[r]]]
        /\ UNCHANGED <<grantedTo, used>>
    BY <1>3, <1>10 DEF UserInfo, Goto, server
  <2>2. /\ op[r] = "callback" /\ login[r] \in used /\ account[r] = Nobody
    BY <1>1, <2>1 DEF Fits, PlaceFits
  <2>3. PICK u \in Accounts : u = grantedTo[login[r]]
    BY <1>1, <2>2 DEF SdkTypeOK
  <2>4. PICK c \in Sessions : /\ c = [copy[r] EXCEPT !.user = u]
                                  /\ c.user = u /\ c.pending = copy[r].pending
    BY SessionOf
  <2>5. copy' = [copy EXCEPT ![r] = c] /\ account' = [account EXCEPT ![r] = u]
    BY <2>1, <2>3, <2>4
  <2>6. SdkTypeOK' /\ account'[r] = u /\ \A x \in Requests \ {r} : account'[x] = account[x]
    <3>1. account' \in [Requests -> Accounts \cup {Nobody}] /\ account'[r] = u
      BY <1>1, <2>5 DEF SdkTypeOK
    <3>2. /\ grantedTo' \in [Requests -> Accounts \cup {Nobody}]
          /\ used' \subseteq Requests /\ \A s \in used' : grantedTo'[s] # Nobody
      BY <1>1, <2>1 DEF SdkTypeOK
    <3>3. \A x \in Requests \ {r} : account'[x] = account[x]
      BY <1>1, <2>5 DEF SdkTypeOK
    <3>4. SdkTypeOK'
      BY <1>2, <2>1, <2>5, <3>1, <3>2, HandlerRuns
    <3> QED
      BY <3>1, <3>3, <3>4
  <2>7. /\ pc'[r] = "hook" /\ copy'[r] = c /\ answer'[r] = answer[r]
        /\ UNCHANGED <<stored, loaded, op, login, prior>>
    BY <1>2, <2>1, <2>5 DEF Frame
  <2>8. Fits(r)'
    BY <1>1, <2>1, <2>2, <2>4, <2>6, <2>7, NobodyAssumption DEF Fits, CopyFits, PlaceFits
  <2>9. Handled(r)
    BY <1>2, <2>1, <2>2, <2>5, <2>6, <2>7, HandlerRuns DEF Handled, OnlyOf
  <2> QED
    BY <2>1, <2>6, <2>8, <2>9, FitsKept DEF Handled
<1>11. ASSUME NEW how \in {"ok", "failed"},
              pc[r] \in {"exchange", "userinfo", "hook"}, pc' = [pc EXCEPT ![r] = "end"],
              UNCHANGED copy, answer' = [answer EXCEPT ![r] = how],
              Frame, UNCHANGED <<account, grantedTo, used>>, how = "ok" => pc[r] = "hook"
       PROVE  Handled(r) /\ SdkFits'
  <2>1. copy' = [copy EXCEPT ![r] = copy[r]]
    BY <1>3, <1>11
  <2>2. /\ pc'[r] = "end" /\ copy'[r] = copy[r] /\ answer'[r] = how /\ account'[r] = account[r]
        /\ UNCHANGED <<stored, loaded, op, login, prior, used>>
    BY <1>2, <1>11, <2>1 DEF Frame
  <2>3. Fits(r)'
    BY <1>1, <1>11, <2>2 DEF Fits, CopyFits, PlaceFits
  <2> QED
    BY <1>2, <1>11, <2>1, <2>3, StaysInHandler
<1>12. CASE CallFails(r)
  BY <1>11, <1>12 DEF CallFails, Respond, server
<1>13. CASE Hook(r)
  BY <1>11, <1>13 DEF Hook, Goto, Respond, server
<1>14. CASE LogOut(r)
  <2>1. PICK c \in Sessions : /\ c = [copy[r] EXCEPT !.user = Nobody]
                                  /\ c.user = Nobody /\ c.pending = copy[r].pending
    BY SessionOf
  <2>2. /\ copy' = [copy EXCEPT ![r] = c] /\ answer' = [answer EXCEPT ![r] = "ok"]
        /\ pc[r] = "handle" /\ op[r] = "logout" /\ pc' = [pc EXCEPT ![r] = "end"] /\ Frame
        /\ UNCHANGED <<account, grantedTo, used>>
    BY <1>14, <2>1 DEF LogOut, Handles, Goto, Respond, server
  <2>3. /\ pc'[r] = "end" /\ copy'[r] = c /\ answer'[r] = "ok" /\ account'[r] = account[r]
        /\ UNCHANGED <<stored, loaded, op, login, prior, used>>
    BY <1>2, <2>2 DEF Frame
  <2>4. Fits(r)'
    BY <1>1, <2>1, <2>2, <2>3 DEF Fits, CopyFits, PlaceFits
  <2> QED
    BY <1>2, <2>2, <2>4, StaysInHandler
<1>15. CASE RequireAuth(r)
  <2>1. PICK how \in {"ok", "refused", "failed"} : answer' = [answer EXCEPT ![r] = how]
    BY <1>15 DEF RequireAuth, Respond
  <2>2. /\ copy' = [copy EXCEPT ![r] = copy[r]]
        /\ pc[r] = "handle" /\ op[r] = "page" /\ pc' = [pc EXCEPT ![r] = "end"] /\ Frame
        /\ UNCHANGED <<account, grantedTo, used>>
    BY <1>3, <1>15 DEF RequireAuth, Handles, Goto, server
  <2>3. /\ pc'[r] = "end" /\ copy'[r] = copy[r] /\ answer'[r] = how /\ account'[r] = account[r]
        /\ UNCHANGED <<stored, loaded, op, login, prior, used>>
    BY <1>2, <2>1, <2>2 DEF Frame
  <2>4. Fits(r)'
    BY <1>1, <2>2, <2>3 DEF Fits, CopyFits, PlaceFits
  <2> QED
    BY <1>2, <2>1, <2>2, <2>4, StaysInHandler
<1> QED
  BY <1>4, <1>6, <1>7, <1>8, <1>9, <1>10, <1>12, <1>13, <1>14, <1>15 DEF SdkStep

LEMMA NextSdk ==
  ASSUME SdkFits, [SdkNext]_(sdkVars)
  PROVE  /\ SdkFits'
         /\ \/ \E r \in Requests : Loads(r) \/ Handled(r) \/ Stores(r)
            \/ UNCHANGED <<stored, copy, loaded, pc, op, login, answer, account, grantedTo,
                           used, prior>>
<1>1. CASE UNCHANGED sdkVars
  <2>1. UNCHANGED <<stored, copy, loaded, pc, op, login, answer, account, grantedTo, used, prior>>
    BY <1>1 DEF sdkVars, sdkSession, server
  <2>2. SdkTypeOK'
    BY <2>1 DEF SdkFits, SdkTypeOK
  <2>3. PriorEnded' /\ \A r \in Requests : Fits(r)'
    BY <2>1 DEF SdkFits, PriorEnded, Fits, CopyFits, PlaceFits
  <2> QED
    BY <2>1, <2>2, <2>3 DEF SdkFits
<1>2. ASSUME NEW r \in Requests, SdkStep(r) PROVE SdkFits' /\ (Handled(r) \/ Stores(r))
  BY <1>2, EndStores, StepHandled
<1> QED
  BY <1>1, <1>2, ArriveLoads DEF SdkNext, Rest

\* What the session of a logout or sign-in r is excused by: a later sign-in or logout,
\* or a request that was in flight beside it.
LogOutExcused(r) ==
  \/ \E s \in Requests : Before(r, s) /\ SignsIn(s)
  \/ \E s \in Requests : Overlap(r, s) /\ Writes(s)

SignInExcused(r) ==
  \/ \E s \in Requests : Before(r, s) /\ (SignsIn(s) \/ op[s] = "logout")
  \/ \E s \in Requests : Overlap(r, s) /\ Writes(s)

\* Another request has touched the pending login of l since l arrived.
Meddled(l, t) == t # l /\ ~Before(t, l) /\ Writes(t)

\* A request that runs has loaded the session of now, unless one has stored its own
\* since.
LoadedIsStored ==
  \A r \in Requests : pc[r] \notin {"idle", "ended"} =>
    \/ stored = loaded[r]
    \/ \E s \in Requests : s \notin prior[r] /\ pc[s] = "ended" /\ Writes(s)

\* What a logout or a sign-in has made of the session, later requests have loaded.
LogOutIsLoaded ==
  \A r \in Requests : Done(r, "logout") =>
    /\ stored.user = Nobody \/ LogOutExcused(r)
    /\ \A s \in Requests : Before(r, s) => loaded[s].user = Nobody \/ LogOutExcused(r)

SignInIsLoaded ==
  \A r \in Requests : Done(r, "callback") /\ answer[r] = "ok" =>
    /\ stored.user = account[r] \/ SignInExcused(r)
    /\ \A s \in Requests : Before(r, s) => loaded[s].user = account[r] \/ SignInExcused(r)

\* The pending login is the one that was stored last, unless a request that ran
\* beside it or after it has stored another.
PendingIsStored ==
  \A l \in Requests : Done(l, "login") /\ answer[l] = "ok" =>
    \/ stored.pending = l
    \/ \E t \in Requests : pc[t] = "ended" /\ Meddled(l, t)

PendingIsLoaded ==
  \A r \in Requests : op[r] = "callback" =>
    /\ pc[login[r]] = "ended"
    /\ \/ loaded[r].pending = login[r]
       \/ \E t \in Requests \ {r} : Meddled(login[r], t)

RefusedIsMeddled ==
  \A r \in Requests : op[r] = "callback" /\ answer[r] = "refused" =>
    \E t \in Requests \ {r} : Meddled(login[r], t)

SdkInv ==
  /\ SdkFits /\ LoadedIsStored /\ LogOutIsLoaded /\ SignInIsLoaded
  /\ PendingIsStored /\ PendingIsLoaded /\ RefusedIsMeddled

LEMMA InitSdkInv == SdkInit => SdkInv
<1> SUFFICES ASSUME SdkInit PROVE SdkInv
  OBVIOUS
<1>1. SdkFits
  BY InitSdkFits
<1>2. \A r \in Requests : pc[r] = "idle" /\ op[r] = "page"
  BY DEF SdkInit
<1> QED
  BY <1>1, <1>2
     DEF SdkInv, LoadedIsStored, LogOutIsLoaded, SignInIsLoaded, PendingIsStored, PendingIsLoaded,
         RefusedIsMeddled, Done, Ended

\* What a request that is past its arrival keeps.
LEMMA PastLasts ==
  ASSUME SdkFits, [SdkNext]_(sdkVars), NEW x \in Requests, pc[x] # "idle"
  PROVE  /\ pc'[x] # "idle" /\ op'[x] = op[x] /\ login'[x] = login[x]
         /\ loaded'[x] = loaded[x] /\ prior'[x] = prior[x]
         /\ account[x] # Nobody => account'[x] = account[x]
         /\ pc[x] = "ended" => /\ pc'[x] = "ended" /\ copy'[x] = copy[x]
                               /\ answer'[x] = answer[x] /\ account'[x] = account[x]
<1>1. ASSUME NEW r \in Requests, Loads(r) \/ Handled(r) \/ Stores(r), r # x
      PROVE  /\ pc'[x] = pc[x] /\ op'[x] = op[x] /\ login'[x] = login[x]
             /\ loaded'[x] = loaded[x] /\ prior'[x] = prior[x] /\ account'[x] = account[x]
             /\ copy'[x] = copy[x] /\ answer'[x] = answer[x]
  BY <1>1 DEF Loads, Handled, Stores, OnlyOf
<1>2. CASE Handled(x)
  BY <1>2 DEF Handled
<1>3. CASE Stores(x)
  BY <1>3 DEF Stores
<1>4. ~Loads(x)
  BY DEF Loads
<1> QED
  BY <1>1, <1>2, <1>3, <1>4, NextSdk

\* An excuse lasts, and so does a request that meddles.
LEMMA ExcuseLasts ==
  ASSUME SdkFits, [SdkNext]_(sdkVars), NEW r \in Requests, pc[r] # "idle"
  PROVE  /\ LogOutExcused(r) => LogOutExcused(r)'
         /\ SignInExcused(r) => SignInExcused(r)'
         /\ \A t \in Requests : Meddled(r, t) => Meddled(r, t)' /\ pc[t] # "idle"
<1>1. prior'[r] = prior[r]
  BY PastLasts
<1>2. \A s \in Requests : Writes(s) \/ Before(r, s) => pc[s] # "idle"
  BY DEF SdkFits, Fits, PlaceFits, Writes, Before
<1>3. ASSUME NEW s \in Requests, pc[s] # "idle"
      PROVE  /\ Before(r, s)' <=> Before(r, s)
             /\ Before(s, r)' <=> Before(s, r)
             /\ Overlap(r, s)' <=> Overlap(r, s)
             /\ Writes(s)' <=> Writes(s)
             /\ op'[s] = op[s]
             /\ SignsIn(s) => SignsIn(s)'
  BY <1>1, <1>3, PastLasts DEF Before, Overlap, Writes, SignsIn
<1>4. LogOutExcused(r) => LogOutExcused(r)'
  BY <1>2, <1>3 DEF LogOutExcused
<1>5. SignInExcused(r) => SignInExcused(r)'
  BY <1>2, <1>3 DEF SignInExcused
<1>6. ASSUME NEW t \in Requests, Meddled(r, t) PROVE Meddled(r, t)' /\ pc[t] # "idle"
  BY <1>2, <1>3, <1>6 DEF Meddled
<1> QED
  BY <1>4, <1>5, <1>6

\* A request that stores its session writes, and no answered request came before it
\* in the history of one that it overlaps.
LEMMA StoresWrites ==
  ASSUME SdkFits, NEW z \in Requests, Stores(z)
  PROVE  /\ stored' # stored => stored' = copy[z] /\ Writes(z)
         /\ \A x \in Requests : z \notin prior[x]
BY DEF SdkFits, PriorEnded, Fits, CopyFits, Stores, Writes

LEMMA LoadedIsStoredKept ==
  ASSUME SdkFits, LoadedIsStored, [SdkNext]_(sdkVars)
  PROVE  LoadedIsStored'
<1>1. ASSUME NEW r \in Requests, pc'[r] \notin {"idle", "ended"}
      PROVE  \/ stored' = loaded'[r]
             \/ \E s \in Requests : s \notin prior'[r] /\ pc'[s] = "ended" /\ Writes(s)'
  <2>1. CASE pc[r] = "idle"
    BY <1>1, <2>1, NextSdk DEF Loads, Handled, Stores, OnlyOf
  <2>2. CASE pc[r] # "idle"
    <3>1. pc[r] # "ended" /\ loaded'[r] = loaded[r] /\ prior'[r] = prior[r]
      BY <1>1, <2>2, PastLasts
    <3>2. ASSUME NEW s \in Requests, s \notin prior[r], pc[s] = "ended", Writes(s)
          PROVE  s \notin prior'[r] /\ pc'[s] = "ended" /\ Writes(s)'
      BY <3>1, <3>2, PastLasts DEF Writes
    <3>3. CASE stored' = stored
      BY <2>2, <3>1, <3>2, <3>3 DEF LoadedIsStored
    <3>4. CASE stored' # stored
      <4>1. PICK z \in Requests : Stores(z)
        BY <3>4, NextSdk DEF Loads, Handled
      <4>2. Writes(z) /\ z \notin prior[r] /\ pc'[z] = "ended" /\ op'[z] = op[z]
        BY <3>4, <4>1, StoresWrites DEF Stores
      <4> QED
        BY <3>1, <4>2 DEF Writes
    <3> QED
      BY <3>3, <3>4
  <2> QED
    BY <2>1, <2>2
<1> QED
  BY <1>1 DEF LoadedIsStored, Writes

\* What a request finds stored when its own session is not, is excused.
LEMMA OwnStore ==
  ASSUME SdkFits, LoadedIsStored, NEW r \in Requests, Stores(r), stored' # copy[r]
  PROVE  LogOutExcused(r) /\ SignInExcused(r)
         /\ \E t \in Requests : pc[t] = "ended" /\ Meddled(r, t)
<1>1. pc[r] = "end" /\ copy[r] = loaded[r] /\ stored # loaded[r]
  BY DEF Stores
<1>2. PICK s \in Requests : s \notin prior[r] /\ pc[s] = "ended" /\ Writes(s)
  BY <1>1 DEF LoadedIsStored
<1>3. s # r /\ r \notin prior[s]
  BY <1>1, <1>2 DEF SdkFits, PriorEnded
<1> QED
  BY <1>2, <1>3 DEF LogOutExcused, SignInExcused, Meddled, Overlap, Before

\* Another request stores its session while r is over: it came after r and has kept
\* what it loaded, unless it was a sign-in or a logout, or it overlaps r.
LEMMA OtherStore ==
  ASSUME SdkFits, NEW r \in Requests, pc[r] = "ended", NEW z \in Requests, Stores(z),
         stored' # stored
  PROVE  \/ LogOutExcused(r) /\ SignInExcused(r)
         \/ Before(r, z) /\ SignsIn(z)
         \/ Before(r, z) /\ op[z] = "logout" /\ stored'.user = Nobody
         \/ Before(r, z) /\ stored'.user = loaded[z].user
<1>1. stored' = copy[z] /\ Writes(z) /\ z \notin prior[r] /\ pc[z] = "end"
  BY StoresWrites DEF Stores
<1>2. Fits(z) /\ z # r
  BY <1>1 DEF SdkFits
<1>3. CASE r \notin prior[z]
  BY <1>1, <1>2, <1>3 DEF LogOutExcused, SignInExcused, Overlap
<1>4. CASE r \in prior[z]
  BY <1>1, <1>2, <1>4 DEF Fits, CopyFits, Before, SignsIn
<1> QED
  BY <1>3, <1>4

LEMMA LogOutIsLoadedKept ==
  ASSUME SdkFits, LoadedIsStored, LogOutIsLoaded, [SdkNext]_(sdkVars)
  PROVE  LogOutIsLoaded'
<1>1. ASSUME NEW r \in Requests, pc'[r] = "ended", op'[r] = "logout", ~LogOutExcused(r)'
      PROVE  /\ stored'.user = Nobody
             /\ \A s \in Requests : r \in prior'[s] => loaded'[s].user = Nobody
  <2>1. pc[r] # "idle"
    BY <1>1, NextSdk DEF Loads, Handled, Stores, OnlyOf
  <2>2. op[r] = "logout" /\ ~LogOutExcused(r)
    BY <1>1, <2>1, PastLasts, ExcuseLasts
  <2>3. CASE pc[r] # "ended"
    <3>1. Stores(r)
      BY <1>1, <2>3, NextSdk DEF Loads, Handled, Stores, OnlyOf
    <3>2. stored' = copy[r]
      BY <2>2, <3>1, OwnStore
    <3>3. copy[r].user = Nobody
      BY <2>2, <3>1 DEF SdkFits, Fits, CopyFits, Stores
    <3>4. \A s \in Requests : r \notin prior'[s]
      BY <3>1, StoresWrites DEF Stores
    <3> QED
      BY <3>2, <3>3, <3>4
  <2>4. CASE pc[r] = "ended"
    <3>1. /\ stored.user = Nobody
          /\ \A s \in Requests : r \in prior[s] => loaded[s].user = Nobody
      BY <2>2, <2>4 DEF LogOutIsLoaded, Done, Ended, Before
    <3>2. stored'.user = Nobody
      <4>1. CASE stored' = stored
        BY <3>1, <4>1
      <4>2. CASE stored' # stored
        <5>1. PICK z \in Requests : Stores(z)
          BY <4>2, NextSdk DEF Loads, Handled
        <5>2. ~(Before(r, z) /\ SignsIn(z))
          BY <2>2 DEF LogOutExcused
        <5>3. \/ op[z] = "logout" /\ stored'.user = Nobody
              \/ r \in prior[z] /\ stored'.user = loaded[z].user
          BY <2>2, <2>4, <4>2, <5>1, <5>2, OtherStore DEF Before
        <5> QED
          BY <3>1, <5>3
      <4> QED
        BY <4>1, <4>2
    <3>3. ASSUME NEW s \in Requests, r \in prior'[s] PROVE loaded'[s].user = Nobody
      <4>1. CASE pc[s] = "idle"
        <5>1. Loads(s) \/ (prior'[s] = prior[s] /\ loaded'[s] = loaded[s])
          BY <4>1, NextSdk DEF Loads, Handled, Stores, OnlyOf
        <5> QED
          BY <3>1, <3>3, <5>1 DEF Loads
      <4>2. CASE pc[s] # "idle"
        BY <3>1, <3>3, <4>2, PastLasts
      <4> QED
        BY <4>1, <4>2
    <3> QED
      BY <3>2, <3>3
  <2> QED
    BY <2>3, <2>4
<1> QED
  BY <1>1 DEF LogOutIsLoaded, Done, Ended, Before

LEMMA SignInIsLoadedKept ==
  ASSUME SdkFits, LoadedIsStored, SignInIsLoaded, [SdkNext]_(sdkVars)
  PROVE  SignInIsLoaded'
<1>1. ASSUME NEW r \in Requests, pc'[r] = "ended", op'[r] = "callback", answer'[r] = "ok",
             ~SignInExcused(r)'
      PROVE  /\ stored'.user = account'[r]
             /\ \A s \in Requests : r \in prior'[s] => loaded'[s].user = account'[r]
  <2>1. pc[r] # "idle"
    BY <1>1, NextSdk DEF Loads, Handled, Stores, OnlyOf
  <2>2. op[r] = "callback" /\ ~SignInExcused(r)
    BY <1>1, <2>1, PastLasts, ExcuseLasts
  <2>3. CASE pc[r] # "ended"
    <3>1. Stores(r)
      BY <1>1, <2>3, NextSdk DEF Loads, Handled, Stores, OnlyOf
    <3>2. stored' = copy[r] /\ account'[r] = account[r]
      BY <2>2, <3>1, OwnStore DEF Stores
    <3>3. copy[r].user = account[r]
      BY <1>1, <2>2, <3>1 DEF SdkFits, Fits, CopyFits, PlaceFits, Stores
    <3>4. \A s \in Requests : r \notin prior'[s]
      BY <3>1, StoresWrites DEF Stores
    <3> QED
      BY <3>2, <3>3, <3>4
  <2>4. CASE pc[r] = "ended"
    <3>0. answer[r] = "ok" /\ account'[r] = account[r]
      BY <1>1, <2>1, <2>4, PastLasts
    <3>1. /\ stored.user = account[r]
          /\ \A s \in Requests : r \in prior[s] => loaded[s].user = account[r]
      BY <2>2, <2>4, <3>0 DEF SignInIsLoaded, Done, Ended, Before
    <3>2. stored'.user = account[r]
      <4>1. CASE stored' = stored
        BY <3>1, <4>1
      <4>2. CASE stored' # stored
        <5>1. PICK z \in Requests : Stores(z)
          BY <4>2, NextSdk DEF Loads, Handled
        <5>2. ~(Before(r, z) /\ (SignsIn(z) \/ op[z] = "logout"))
          BY <2>2 DEF SignInExcused
        <5>3. r \in prior[z] /\ stored'.user = loaded[z].user
          BY <2>2, <2>4, <4>2, <5>1, <5>2, OtherStore DEF Before
        <5> QED
          BY <3>1, <5>3
      <4> QED
        BY <4>1, <4>2
    <3>3. ASSUME NEW s \in Requests, r \in prior'[s] PROVE loaded'[s].user = account[r]
      <4>1. CASE pc[s] = "idle"
        <5>1. Loads(s) \/ (prior'[s] = prior[s] /\ loaded'[s] = loaded[s])
          BY <4>1, NextSdk DEF Loads, Handled, Stores, OnlyOf
        <5> QED
          BY <3>1, <3>3, <5>1 DEF Loads
      <4>2. CASE pc[s] # "idle"
        BY <3>1, <3>3, <4>2, PastLasts
      <4> QED
        BY <4>1, <4>2
    <3> QED
      BY <3>0, <3>2, <3>3
  <2> QED
    BY <2>3, <2>4
<1> QED
  BY <1>1 DEF SignInIsLoaded, Done, Ended, Before

LEMMA PendingIsStoredKept ==
  ASSUME SdkFits, LoadedIsStored, PendingIsStored, [SdkNext]_(sdkVars)
  PROVE  PendingIsStored'
<1>1. ASSUME NEW l \in Requests, pc'[l] = "ended", op'[l] = "login", answer'[l] = "ok"
      PROVE  \/ stored'.pending = l
             \/ \E t \in Requests : pc'[t] = "ended" /\ Meddled(l, t)'
  <2>1. pc[l] # "idle"
    BY <1>1, NextSdk DEF Loads, Handled, Stores, OnlyOf
  <2>2. op[l] = "login"
    BY <1>1, <2>1, PastLasts
  <2>3. ASSUME NEW t \in Requests, pc[t] = "ended", Meddled(l, t)
        PROVE  pc'[t] = "ended" /\ Meddled(l, t)'
    BY <2>1, <2>3, PastLasts, ExcuseLasts
  <2>4. CASE pc[l] # "ended"
    <3>1. Stores(l)
      BY <1>1, <2>4, NextSdk DEF Loads, Handled, Stores, OnlyOf
    <3>2. copy[l].pending = l
      BY <1>1, <2>2, <3>1 DEF SdkFits, Fits, CopyFits, Stores
    <3> QED
      BY <2>3, <3>1, <3>2, OwnStore
  <2>5. CASE pc[l] = "ended"
    <3>1. answer[l] = "ok"
      BY <1>1, <2>1, <2>5, PastLasts
    <3>2. \/ stored.pending = l
          \/ \E t \in Requests : pc[t] = "ended" /\ Meddled(l, t)
      BY <2>2, <2>5, <3>1 DEF PendingIsStored, Done, Ended
    <3>3. CASE stored' = stored
      BY <2>3, <3>2, <3>3
    <3>4. CASE stored' # stored
      <4>1. PICK z \in Requests : Stores(z)
        BY <3>4, NextSdk DEF Loads, Handled
      <4>2. Writes(z) /\ z \notin prior[l] /\ z # l /\ pc'[z] = "ended"
        BY <2>5, <3>4, <4>1, StoresWrites DEF Stores
      <4>3. Meddled(l, z)
        BY <4>2 DEF Meddled, Before
      <4> QED
        BY <2>1, <4>2, <4>3, ExcuseLasts
    <3> QED
      BY <3>3, <3>4
  <2> QED
    BY <2>4, <2>5
<1> QED
  BY <1>1 DEF PendingIsStored, Done, Ended, Meddled, Before, Writes

LEMMA PendingIsLoadedKept ==
  ASSUME SdkFits, PendingIsStored, PendingIsLoaded, [SdkNext]_(sdkVars)
  PROVE  PendingIsLoaded'
<1>1. ASSUME NEW r \in Requests, op'[r] = "callback"
      PROVE  /\ pc'[login'[r]] = "ended"
             /\ \/ loaded'[r].pending = login'[r]
                \/ \E t \in Requests \ {r} : Meddled(login[r], t)'
  <2>1. CASE pc[r] = "idle"
    <3>1. op[r] = "page"
      BY <2>1 DEF SdkFits, Fits, PlaceFits
    <3>2. Loads(r)
      BY <1>1, <2>1, <3>1, NextSdk DEF Loads, Handled, Stores, OnlyOf
    <3>3. PICK l \in Requests : /\ l = login'[r] /\ pc[l] = "ended" /\ op[l] = "login"
                                   /\ answer[l] = "ok"
      BY <1>1, <3>2 DEF Loads
    <3>4. \/ stored.pending = l
          \/ \E t \in Requests : pc[t] = "ended" /\ Meddled(l, t)
      BY <3>3 DEF PendingIsStored, Done, Ended
    <3>5. pc'[l] = "ended" /\ loaded'[r] = stored
      BY <3>2, <3>3, PastLasts DEF Loads
    <3>6. ASSUME NEW t \in Requests, pc[t] = "ended", Meddled(l, t)
          PROVE  t # r /\ Meddled(l, t)'
      BY <2>1, <3>3, <3>6, ExcuseLasts
    <3> QED
      BY <3>3, <3>4, <3>5, <3>6 DEF Meddled, Before, Writes
  <2>2. CASE pc[r] # "idle"
    <3>1. op[r] = "callback" /\ login'[r] = login[r] /\ loaded'[r] = loaded[r]
      BY <1>1, <2>2, PastLasts
    <3>2. login[r] \in Requests /\ pc[login[r]] = "ended"
      BY <3>1 DEF SdkFits, Fits, PlaceFits, PendingIsLoaded
    <3>3. PICK l \in Requests : l = login[r] /\ pc[l] = "ended"
      BY <3>2
    <3>4. pc'[l] = "ended" /\ \A t \in Requests : Meddled(l, t) => Meddled(l, t)'
      BY <3>3, PastLasts, ExcuseLasts
    <3>5. loaded[r].pending = l \/ \E t \in Requests \ {r} : Meddled(l, t)
      BY <3>1, <3>3 DEF PendingIsLoaded
    <3> QED
      BY <3>1, <3>3, <3>4, <3>5 DEF Meddled, Before, Writes
  <2> QED
    BY <2>1, <2>2
<1> QED
  BY <1>1 DEF PendingIsLoaded

LEMMA RefusedIsMeddledKept ==
  ASSUME SdkFits, PendingIsLoaded, RefusedIsMeddled, [SdkNext]_(sdkVars)
  PROVE  RefusedIsMeddled'
<1>1. ASSUME NEW r \in Requests, op'[r] = "callback", answer'[r] = "refused"
      PROVE  \E t \in Requests \ {r} : Meddled(login[r], t)'
  <2>1. pc[r] # "idle"
    <3>1. pc[r] = "idle" => op[r] = "page" /\ answer[r] = "ok"
      BY DEF SdkFits, Fits, PlaceFits
    <3> QED
      BY <1>1, <3>1, NextSdk DEF Loads, Handled, Stores, OnlyOf
  <2>2. op[r] = "callback" /\ login'[r] = login[r]
    BY <1>1, <2>1, PastLasts
  <2>3. PICK l \in Requests : l = login[r] /\ pc[l] = "ended"
    BY <2>2 DEF SdkFits, Fits, PlaceFits, PendingIsLoaded
  <2>4. \A t \in Requests : Meddled(l, t) => Meddled(l, t)'
    BY <2>3, ExcuseLasts
  <2>5. \E t \in Requests \ {r} : Meddled(l, t)
    <3>1. CASE answer[r] = "refused"
      BY <2>2, <2>3, <3>1 DEF RefusedIsMeddled
    <3>2. CASE answer[r] # "refused"
      <4>1. Handled(r)
        BY <1>1, <2>1, <3>2, NextSdk DEF Loads, Handled, Stores, OnlyOf
      <4>2. pc[r] = "handle" /\ copy[r].pending # login[r]
        BY <1>1, <2>2, <3>2, <4>1 DEF Handled
      <4>3. copy[r] = loaded[r]
        BY <4>2 DEF SdkFits, Fits, CopyFits
      <4> QED
        BY <2>2, <2>3, <4>2, <4>3 DEF PendingIsLoaded
    <3> QED
      BY <3>1, <3>2
  <2> QED
    BY <2>2, <2>3, <2>4, <2>5 DEF Meddled, Before, Writes
<1> QED
  BY <1>1 DEF RefusedIsMeddled

LEMMA NextSdkInv == SdkInv /\ [SdkNext]_(sdkVars) => SdkInv'
<1> SUFFICES ASSUME SdkInv, [SdkNext]_(sdkVars) PROVE SdkInv'
  OBVIOUS
<1>1. /\ SdkFits /\ LoadedIsStored /\ LogOutIsLoaded /\ SignInIsLoaded
      /\ PendingIsStored /\ PendingIsLoaded /\ RefusedIsMeddled
  BY DEF SdkInv
<1> QED
  BY <1>1, NextSdk, LoadedIsStoredKept, LogOutIsLoadedKept, SignInIsLoadedKept,
     PendingIsStoredKept, PendingIsLoadedKept, RefusedIsMeddledKept DEF SdkInv

\* Sessions, requests and codes of the SDK stay in their types, and a code that was
\* exchanged had been granted (express.ts:61-133).
THEOREM SdkTypeCorrect == SdkSpec => []SdkTypeOK
<1>1. SdkInv => SdkTypeOK
  BY DEF SdkInv, SdkFits
<1> QED
  BY <1>1, InitSdkInv, NextSdkInv, PTL DEF SdkSpec

\* A logout and a sign-in that was answered with success stand until a later one,
\* unless another request that writes the session was in flight
\* (express.ts:80-94, 115, 124-133).
THEOREM SessionFollows == SdkSpec => []SessionFollowsTheBrowser
<1>1. SdkInv => SessionFollowsTheBrowser
  BY DEF SdkInv, LogOutIsLoaded, SignInIsLoaded, LogOutExcused, SignInExcused,
         SessionFollowsTheBrowser, LogOutHolds, SignInHolds
<1> QED
  BY <1>1, InitSdkInv, NextSdkInv, PTL DEF SdkSpec

\* The callback of a login is refused only when another request has touched the
\* pending login since the login arrived (express.ts:70, 80-94).
THEOREM RefusalsHaveAReason == SdkSpec => []RefusedForAReason
<1>1. SdkInv => RefusedForAReason
  BY DEF SdkInv, RefusedIsMeddled, Meddled, RefusedForAReason, Done
<1> QED
  BY <1>1, InitSdkInv, NextSdkInv, PTL DEF SdkSpec
================================================================================
