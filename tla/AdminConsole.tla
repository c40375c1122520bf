----------------------------- MODULE AdminConsole -----------------------------
(***************************************************************************)
(* The admin console (apps/console): pages that show the clients, forms     *)
(* whose server actions call the client administration of the server        *)
(* (admin/clientsApi.ts), and the session of Auth.js, which keeps what the  *)
(* server said of an administrator at sign-in (auth.ts).                    *)
(*                                                                          *)
(* A tab shows one page, read when it was loaded.  A call is one submitted   *)
(* form: it takes its token from the session, the server checks the          *)
(* permission of today and then serves it, and the answer comes back to the *)
(* tab, which the console renders anew, or is lost.  No call of the console *)
(* changes what a handler of the server looks up before it writes (whether  *)
(* the client exists and has a secret), so lookup and write are one step    *)
(* here; AdminApi takes them apart.                                         *)
(***************************************************************************)
EXTENDS Naturals

CONSTANTS
  Tabs,         \* tabs of the administrators' browsers
  Calls,        \* submitted forms (bound)
  Admins,       \* accounts, each with a browser of its own
  FirstClients, \* confidential clients at the start
  Fields,       \* fields of the form: name and redirectUris
  Values,       \* what a field of a client may hold
  First,        \* the value of every field at the start
  Blank,        \* an empty field
  MaxChanges,   \* changes of permissions (bound)
  None

\* A client and a secret that a call makes carry its name; a secret of the
\* start carries its client's.
ClientIds == Calls \cup FirstClients
Forms == [Fields -> Values \cup {Blank}]

ASSUME NamesAssumption ==
  /\ Calls \cap FirstClients = {}
  /\ None \notin ClientIds \cup Admins \cup Tabs
  /\ {"list", "new"} \cap (ClientIds \cup {None}) = {}
  /\ First \in Values /\ Blank \notin Values

ASSUME MaxChangesAssumption == MaxChanges \in Nat

ASSUME ActorsAssumption == Tabs # {} /\ Admins # {}

VARIABLES
  managers, \* who holds admin:manage_clients
  clients,  \* the Client rows: a partial function from their ids
  session,  \* session[a]: the session cookie, with its copy of the permission
  page,     \* page[t]: what tab t shows
  call,     \* call[r]: the server action of form r
  saved,    \* updates that have been written (history)
  changed,  \* whose permission has changed since the sign-in (history)
  changes

vars == <<managers, clients, session, page, call, saved, changed, changes>>

Rows == [fields : [Fields -> Values], secret : ClientIds \cup {None}]

\* fields: the values in the form; secret: what the page has been told;
\* seen: updates it knows of, sent: forms submitted since it was loaded
\* (histories).
Page == [pc : {"idle", "shown", "login", "forbidden", "notFound", "error"},
         admin : Admins, at : ClientIds \cup {"list", "new"},
         fields : Forms, usesSecret : BOOLEAN, secret : ClientIds \cup {None},
         pending : Calls \cup {None}, seen : SUBSET Calls, sent : SUBSET Calls]

Call == [pc : {"idle", "gate", "serve", "answer", "done", "failed", "lost"},
         op : {"create", "update", "rotate"}, tab : Tabs, admin : Admins,
         client : ClientIds \cup {"list", "new"}, fields : Forms, edited : SUBSET Fields,
         confidential : BOOLEAN, seen : SUBSET Calls, sent : SUBSET Calls]

TypeOK ==
  /\ managers \subseteq Admins
  /\ DOMAIN clients \subseteq ClientIds
  /\ \A c \in DOMAIN clients : clients[c] \in Rows
  /\ session \in [Admins -> {"none", "user", "manager"}]
  /\ page \in [Tabs -> Page]
  /\ call \in [Calls -> Call]
  /\ \A t \in Tabs : page[t].pending # None =>
       call[page[t].pending].tab = t /\ call[page[t].pending].pc \in {"gate", "serve", "answer"}
  /\ saved \subseteq Calls
  /\ changed \subseteq Admins
  /\ changes \in 0..MaxChanges

NoFields == [f \in Fields |-> Blank]
SomeAdmin == CHOOSE a \in Admins : TRUE
SomeTab == CHOOSE t \in Tabs : TRUE

Init ==
  /\ managers \in SUBSET Admins
  /\ clients = [c \in FirstClients |-> [fields |-> [f \in Fields |-> First], secret |-> c]]
  /\ session = [a \in Admins |-> "none"]
  /\ page = [t \in Tabs |->
       [pc |-> "idle", admin |-> SomeAdmin, at |-> "list", fields |-> NoFields,
        usesSecret |-> FALSE, secret |-> None, pending |-> None, seen |-> {}, sent |-> {}]]
  /\ call = [r \in Calls |->
       [pc |-> "idle", op |-> "create", tab |-> SomeTab, admin |-> SomeAdmin, client |-> "list",
        fields |-> NoFields, edited |-> {}, confidential |-> FALSE, seen |-> {},
        sent |-> {}]]
  /\ saved = {} /\ changed = {} /\ changes = 0

------------------------------------------------------------------------------
(* Who is in.                                                              *)

\* An administrator's permission is given or taken away at the server.
ChangePermission(a) ==
  /\ changes < MaxChanges /\ changes' = changes + 1
  /\ managers' = IF a \in managers THEN managers \ {a} ELSE managers \cup {a}
  /\ changed' = changed \cup {a}
  /\ UNCHANGED <<clients, session, page, call, saved>>

\* callbacks.jwt keeps the claims of userinfo; the login page signs in only a
\* browser that has no session.
SignIn(a) ==
  /\ session[a] = "none"
  /\ session' = [session EXCEPT ![a] = IF a \in managers THEN "manager" ELSE "user"]
  /\ changed' = changed \ {a}
  /\ UNCHANGED <<managers, clients, page, call, saved, changes>>

\* The header of the dashboard signs out; a session also expires.
SignOut(a) ==
  /\ session' = [session EXCEPT ![a] = "none"]
  /\ UNCHANGED <<managers, clients, page, call, saved, changed, changes>>

\* Mutant: a later call of callbacks.jwt, without the profile, empties the claims.
KeepsClaimsOnce(a) == [session EXCEPT ![a] = IF @ = "none" THEN @ ELSE "user"]

\* callbacks.jwt of every later request returns the token as it is.
KeepsClaims(a) == session

------------------------------------------------------------------------------
(* Pages.                                                                  *)

\* The admin API answers a call of administrator a, who needs a session and whose
\* token may have expired.
Answers(a, ok) == ok => session[a] # "none" /\ a \in managers

\* What a browser is sent for page x: the layout looks at the session, the page calls
\* the admin API (ok tells how that went), except for the form of a new client.  A
\* link inside the dashboard keeps the layout that is there.
Outcome(a, x, ok, layout) ==
  CASE layout /\ session[a] = "none" -> "login"
    [] layout /\ session[a] = "user" -> "forbidden"
    [] x = "new" -> "shown"
    [] ~ok -> "error"
    [] x \notin DOMAIN clients \cup {"list"} -> "notFound"
    [] OTHER -> "shown"

\* The page is rendered from the rows of now; the parts that a form needs are kept
\* of a page that has one.
Rendered(p, a, x, ok, layout) ==
  LET shown == Outcome(a, x, ok, layout) = "shown"
      known == shown /\ x \in DOMAIN clients
  IN [p EXCEPT !.pc = Outcome(a, x, ok, layout), !.admin = a, !.at = IF shown THEN x ELSE "list",
               !.fields = IF known THEN clients[x].fields ELSE NoFields,
               !.usesSecret = known /\ clients[x].secret # None,
               !.secret = IF known THEN @ ELSE None,
               !.pending = None, !.seen = IF known THEN saved ELSE {}]

\* Loading a page drops what the tab has shown; a call in flight goes on without it.
\* For a manager's session it makes no difference whether the layout is kept, and a
\* call that fails shows the same error whatever client was asked for (None stands for
\* an id that no client has).
Visit(t, a, x, ok, layout) ==
  /\ page[t].pc = "idle" \/ page[t].admin = a
  /\ layout \/ (page[t].pc = "shown" /\ session[a] # "manager")
  /\ Answers(a, ok)
  /\ ok \/ x \in {"list", "new"}
  /\ page' = [page EXCEPT ![t] =
       [Rendered(page[t], a, x, ok, layout) EXCEPT !.secret = None, !.sent = {}]]
  /\ session' = KeepsClaims(a)
  /\ UNCHANGED <<managers, clients, call, saved, changed, changes>>

------------------------------------------------------------------------------
(* Server actions: clients/actions.ts.                                     *)

\* Mutant: a page sends a form while another one is pending.
CanSendTwice(t) == page[t].pc = "shown"

\* The button of a pending form is disabled, and the router sends one action after
\* the other.
CanSend(t) == page[t].pc = "shown" /\ page[t].pending = None

\* What the form sends: all its fields, those the administrator has edited and
\* the others as they were shown.
Sent(t, E, v) == [f \in Fields |-> IF f \in E THEN v[f] ELSE page[t].fields[f]]

\* The form that a page has: a registration until it has succeeded, the fields of
\* a client, and its rotation until it has succeeded.
HasForm(t, op) ==
  CASE op = "create" -> page[t].at = "new" /\ page[t].pc = "shown"
    [] op = "update" -> page[t].at \in ClientIds
    [] op = "rotate" -> page[t].at \in ClientIds /\ page[t].usesSecret /\ page[t].secret = None

\* A blank field is refused before the server is called, and so is a call
\* without a session.
Submit(r, t, op, E, v, confidential) ==
  LET p == page[t]
      fields == Sent(t, E, v)
      refused == session[p.admin] = "none" \/ (op # "rotate" /\ \E f \in Fields : fields[f] = Blank)
  IN /\ call[r].pc = "idle" /\ CanSend(t) /\ HasForm(t, op)
     /\ op = "rotate" => E = {}
     /\ \A f \in E : v[f] # p.fields[f]
     /\ confidential => op = "create"
     /\ call' = [call EXCEPT ![r] =
          IF refused THEN [@ EXCEPT !.pc = "failed"]
          ELSE [pc |-> "gate", op |-> op, tab |-> t, admin |-> p.admin, client |-> p.at,
                fields |-> fields, edited |-> E, confidential |-> confidential, seen |-> p.seen,
                sent |-> p.sent]]
     /\ page' = [page EXCEPT ![t].pending = IF refused THEN None ELSE r, ![t].sent = @ \cup {r}]
     /\ session' = KeepsClaims(p.admin)
     /\ UNCHANGED <<managers, clients, saved, changed, changes>>

\* Mutant: a form whose call has failed stays pending.
ReleasedNever(r) == page

\* The tab of r hears of its end, if it still waits.
Released(r) == [page EXCEPT ![call[r].tab].pending = IF @ = r THEN None ELSE @]

\* requirePermission of the server, whatever the session says.
Gate(r, ok) ==
  /\ call[r].pc = "gate" /\ (ok => call[r].admin \in managers)
  /\ call' = [call EXCEPT ![r].pc = IF ok THEN "serve" ELSE "failed"]
  /\ page' = IF ok THEN page ELSE Released(r)
  /\ UNCHANGED <<managers, clients, session, saved, changed, changes>>

\* A public client is given no secret.
NewSecret(r) == IF call[r].confidential THEN r ELSE None

\* The write; what only the write needs of the call is dropped.
Serve(r) ==
  LET c == call[r].client IN
  /\ call[r].pc = "serve"
  /\ call' = [call EXCEPT ![r] = [@ EXCEPT !.pc = "answer", !.fields = NoFields, !.edited = {},
                                          !.confidential = FALSE, !.seen = {}, !.sent = {}]]
  /\ \/ /\ call[r].op = "create"
        /\ clients' = [x \in DOMAIN clients \cup {r} |->
             IF x = r THEN [fields |-> call[r].fields, secret |-> NewSecret(r)] ELSE clients[x]]
        /\ UNCHANGED saved
     \/ /\ call[r].op = "update"
        /\ clients' = [clients EXCEPT ![c].fields = call[r].fields]
        /\ saved' = saved \cup {r}
     \/ /\ call[r].op = "rotate"
        /\ clients' = [clients EXCEPT ![c].secret = r]
        /\ UNCHANGED saved
  /\ UNCHANGED <<managers, session, page, changed, changes>>

\* Mutant: nothing is revalidated, and the page stays as it was read.
RefreshedNot(r, ok) == page[call[r].tab]

\* revalidatePath: the answer brings the page as it is now.
Refreshed(r, ok) == Rendered(page[call[r].tab], call[r].admin, call[r].client, ok, TRUE)

\* A registration replaces its form by the new client's secret.
Shown(r, ok) ==
  LET p == Refreshed(r, ok) IN
  [p EXCEPT !.pending = None,
            !.at = IF call[r].op = "create" THEN "list" ELSE @,
            !.secret = IF call[r].op # "update" /\ p.pc = "shown" /\ clients[
                          IF call[r].op = "create" THEN r ELSE call[r].client].secret # None
                       THEN r ELSE @]

Answer(r, ok) ==
  /\ call[r].pc = "answer" /\ page[call[r].tab].pending = r
  /\ Answers(call[r].admin, ok)
  /\ call' = [call EXCEPT ![r].pc = "done"]
  /\ page' = [page EXCEPT ![call[r].tab] = Shown(r, ok)]
  /\ session' = KeepsClaims(call[r].admin)
  /\ UNCHANGED <<managers, clients, saved, changed, changes>>

\* The answer gets lost on its way to the console or to the tab, or the tab is
\* elsewhere: a form that waits shows an error and what it showed before.
Lose(r) ==
  /\ call[r].pc = "answer"
  /\ call' = [call EXCEPT ![r].pc = "lost"]
  /\ page' = Released(r)
  /\ UNCHANGED <<managers, clients, session, saved, changed, changes>>

------------------------------------------------------------------------------

AdminStep(a) == ChangePermission(a) \/ SignIn(a) \/ SignOut(a)

CallStep(r) ==
  \/ Serve(r) \/ Lose(r)
  \/ \E ok \in BOOLEAN : Gate(r, ok) \/ Answer(r, ok)

TabStep(t) ==
  \/ \E a \in Admins, x \in DOMAIN clients \cup {"list", "new", None}, ok, layout \in BOOLEAN :
       Visit(t, a, x, ok, layout)
  \/ \E r \in Calls, op \in {"create", "update", "rotate"}, E \in SUBSET Fields, v \in Forms,
        confidential \in BOOLEAN : Submit(r, t, op, E, v, confidential)

Next ==
  \/ \E a \in Admins : AdminStep(a)
  \/ \E r \in Calls : CallStep(r)
  \/ \E t \in Tabs : TabStep(t)

Spec == Init /\ [][Next]_vars

------------------------------------------------------------------------------
(* Properties.                                                             *)

\* A form sends every field, and so may undo what another administrator has saved.
\* It undoes only what was saved after its page was read, from another page or by a
\* call of its own whose answer has not come: an answered save refreshes the page
\* (actions.ts:100-104, ClientDetail.tsx:60-76).
UndoneOnlyFromAnOlderPage ==
  [][\A c \in DOMAIN clients, f \in Fields :
       clients'[c].fields[f] # clients[c].fields[f] =>
         \E r \in saved' \ saved :
           /\ call[r].client = c
           /\ \/ f \in call[r].edited
              \/ \E x \in saved \ call[r].seen :
                   /\ call[x].client = c
                   /\ x \notin call[r].sent \/ call[x].pc # "done"]_vars

\* However often an administrator presses the button, a page registers one client,
\* or rotates a secret once, unless the answer of the first call was lost
\* (NewClientForm.tsx:13, 77, ClientDetail.tsx:95-108).
OncePerPage ==
  \A t \in Tabs : \A r, x \in page[t].sent :
    r # x /\ call[r].op = call[x].op /\ call[r].op # "update" =>
      ~({call[r].pc, call[x].pc} \subseteq {"answer", "done"})

\* What the session says of an administrator is wrong only when the permission was
\* given or taken away after the sign-in; until the next one a new manager sees
\* "Access denied", and who has ceased to be one the pages of the console
\* (auth.ts:37-43, layout.tsx:10).
LockedOutOnlyByAChange ==
  \A a \in Admins \ changed : session[a] # "none" => (session[a] = "manager" <=> a \in managers)
===============================================================================
