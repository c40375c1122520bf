------------------------ MODULE IdentityLinking_proofs ------------------------
(***************************************************************************)
(* Proofs about IdentityLinking, for any number of requests, accounts,      *)
(* identities and addresses: its types, what the unique indexes guarantee,   *)
(* who answers a sign-in, and which accounts are left without a link.       *)
(***************************************************************************)
EXTENDS IdentityLinking, TLAPS

------------------------------------------------------------------------------
(* Type correctness.                                                       *)

\* What a request links or answers, it has proved; only the portal verifies, and only
\* a sign-in looks for an account.
Proved ==
  \A r \in Requests :
    /\ pc[r] \in {"verifying", "findLink", "findUser", "createUser", "createLink", "finish"}
         => identity[r] \in Identities
    /\ pc[r] = "verifying" => op[r] = "vrchat"
    /\ pc[r] \in {"findUser", "createUser"} => op[r] = "login"

TypeInv == TypeOK /\ Proved

LEMMA InitTypeInv == Init => TypeInv
<1> SUFFICES ASSUME Init PROVE TypeInv
  OBVIOUS
<1>1. email \in [Accounts -> Emails \cup {NoEmail}] /\ users \subseteq Accounts
  BY DEF Init, Accounts
<1> QED
  BY <1>1, MaxEventsAssumption DEF Init, TypeInv, TypeOK, Proved, PCs

LEMMA LostType ==
  ASSUME TypeOK
  PROVE  /\ Lost \in [Requests -> PCs]
         /\ \A s \in Requests : Lost[s] = pc[s] \/ (Lost[s] = "crashed" /\ pc[s] \notin Away)
BY DEF TypeOK, Lost, PCs

\* The steps of a request that leave the tables alone.
LocalSteps(r) ==
  \/ SignIn(r)
  \/ \E u \in users : Link(r, u) \/ \E i \in VRChat : LinkVRChat(r, u, i)
  \/ \E i \in Upstream, e \in Emails \cup {NoEmail} : Callback(r, i, e)
  \/ CallbackFails(r) \/ Verify(r) \/ FindLink(r) \/ FindUser(r) \/ Finish(r)

LEMMA LocalTypeInv ==
  ASSUME TypeInv, NEW r \in Requests, LocalSteps(r)
  PROVE  TypeInv'
<1> USE DEF TypeInv, tables, pasts, locals, Goto
<1>a. users \subseteq Accounts /\ Nobody \in Accounts \cup {Nobody}
  BY DEF TypeOK
<1>1. CASE SignIn(r)
  BY <1>1, <1>a DEF SignIn, Begin, TypeOK, Proved, PCs, Ended
<1>2. CASE \E u \in users : Link(r, u) \/ \E i \in VRChat : LinkVRChat(r, u, i)
  <2>1. PICK u \in users : Link(r, u) \/ \E i \in VRChat : LinkVRChat(r, u, i)
    BY <1>2
  <2>2. CASE Link(r, u)
    BY <2>2, <1>a DEF Link, Begin, TypeOK, Proved, PCs, Ended
  <2>3. CASE \E i \in VRChat : LinkVRChat(r, u, i)
    <3>1. PICK i \in VRChat : LinkVRChat(r, u, i)
      BY <2>3
    <3> QED
      BY <3>1, <1>a DEF LinkVRChat, Begin, TypeOK, Proved, PCs, Ended, Identities
  <2> QED
    BY <2>1, <2>2, <2>3
<1>3. CASE \E i \in Upstream, e \in Emails \cup {NoEmail} : Callback(r, i, e)
  <2>1. PICK i \in Upstream, e \in Emails \cup {NoEmail} : Callback(r, i, e)
    BY <1>3
  <2> QED
    BY <2>1 DEF Callback, TypeOK, Proved, PCs, Identities
<1>4. CASE CallbackFails(r)
  BY <1>4 DEF CallbackFails, TypeOK, Proved, PCs
<1>5. CASE Verify(r)
  <2>1. CASE pc' = Lost
    BY <1>5, <2>1, LostType DEF Verify, TypeOK, Proved
  <2>2. CASE Goto(r, "verifying", "findLink") \/ Goto(r, "verifying", "done")
    BY <1>5, <2>2 DEF Verify, TypeOK, Proved, PCs
  <2> QED
    BY <1>5, <2>1, <2>2 DEF Verify
<1>6. CASE FindLink(r)
  <2>1. \A x \in LinksOf(identity[r]) : x.user \in Accounts
    BY <1>a DEF LinksOf, TypeOK
  <2>2. CASE FindLinkFound(r)
    BY <1>6, <2>1, <2>2 DEF FindLink, FindLinkFound, TypeOK, Proved, PCs
  <2>3. CASE FindLinkNone(r)
    BY <1>6, <2>3 DEF FindLink, FindLinkNone, TypeOK, Proved, PCs
  <2> QED
    BY <1>6, <2>2, <2>3 DEF FindLink
<1>7. CASE FindUser(r)
  BY <1>7, <1>a DEF FindUser, OwnersOf, TypeOK, Proved, PCs
<1>8. CASE Finish(r)
  BY <1>8 DEF Finish, TypeOK, Proved, PCs
<1> QED
  BY <1>1, <1>2, <1>3, <1>4, <1>5, <1>6, <1>7, <1>8 DEF LocalSteps

LEMMA WriteTypeInv ==
  ASSUME TypeInv, NEW r \in Requests, CreateUser(r) \/ CreateLink(r) \/ CreateLinkFails(r)
  PROVE  TypeInv'
<1> USE DEF TypeInv, tables, pasts, locals, Goto, LinkFrame
<1>1. CASE CreateUser(r)
  <2>1. r \in Accounts
    BY DEF Accounts
  <2> QED
    BY <1>1, <2>1 DEF CreateUser, TypeOK, Proved, PCs
<1>2. CASE CreateLink(r)
  <2>1. NewLink(r) \in [identity : Identities, user : users]
    BY <1>2 DEF CreateLink, Accepts, NewLink, Proved
  <2> QED
    BY <1>2, <2>1 DEF CreateLink, TypeOK, Proved, PCs
<1>3. CASE CreateLinkFails(r)
  BY <1>3, LostType DEF CreateLinkFails, TypeOK, Proved, PCs
<1> QED
  BY <1>1, <1>2, <1>3

LEMMA EventTypeInv ==
  ASSUME TypeInv,
         \/ \E x \in links : Unlink(x)
         \/ \E u \in users : DeleteUser(u) \/ \E e \in Emails : ChangeEmail(u, e)
         \/ \E r \in Requests : StatementFails(r)
         \/ Crash
  PROVE  TypeInv'
<1> USE MaxEventsAssumption DEF TypeInv, tables, pasts, locals
<1>e. ASSUME Event PROVE events' \in 0..MaxEvents
  BY <1>e DEF Event, TypeOK
<1>1. CASE \E x \in links : Unlink(x)
  BY <1>1, <1>e DEF Unlink, Event, TypeOK, Proved
<1>2. ASSUME NEW u \in users, DeleteUser(u) PROVE TypeInv'
  <2>1. links' \subseteq [identity : Identities, user : users']
    BY <1>2 DEF DeleteUser, TypeOK
  <2>2. email[u] \in Emails \cup {NoEmail} /\ freed' \subseteq Emails
    BY <1>2 DEF DeleteUser, TypeOK
  <2>3. unlinked' \subseteq Identities
    BY <1>2 DEF DeleteUser, TypeOK
  <2> QED
    BY <1>2, <1>e, <2>1, <2>2, <2>3 DEF DeleteUser, Event, TypeOK, Proved
<1>3. ASSUME NEW u \in users, NEW e \in Emails, ChangeEmail(u, e) PROVE TypeInv'
  BY <1>3, <1>e DEF ChangeEmail, Event, TypeOK, Proved
<1>4. CASE Crash
  BY <1>4, <1>e, LostType DEF Crash, Event, TypeOK, Proved
<1>5. ASSUME NEW r \in Requests, StatementFails(r) PROVE TypeInv'
  <2>1. UNCHANGED <<tables, locals, fresh, unlinked, freed>> /\ events' \in 0..MaxEvents
    BY <1>5, <1>e DEF StatementFails, Event
  <2>2. CASE pc' = Lost
    BY <2>1, <2>2, LostType DEF TypeOK, Proved
  <2>3. CASE pc' = [pc EXCEPT ![r] = "faulted"]
    BY <2>1, <2>3 DEF TypeOK, Proved, PCs
  <2> QED
    BY <1>5, <2>2, <2>3 DEF StatementFails
<1> QED
  BY <1>1, <1>2, <1>3, <1>4, <1>5

LEMMA RestTypeInv == TypeInv /\ UNCHANGED vars => TypeInv'
BY DEF TypeInv, TypeOK, Proved, vars, locals

\* Next, grouped by what a step may change.
LEMMA NextSteps ==
  ASSUME Next
  PROVE  \/ \E r \in Requests : LocalSteps(r)
         \/ \E r \in Requests : CreateUser(r) \/ CreateLink(r) \/ CreateLinkFails(r)
         \/ \E x \in links : Unlink(x)
         \/ \E u \in users : DeleteUser(u) \/ \E e \in Emails : ChangeEmail(u, e)
         \/ \E r \in Requests : StatementFails(r)
         \/ Crash
         \/ UNCHANGED vars
BY DEF Next, Arrive, Step, LocalSteps, Rest

\* Tables, requests and histories stay in their types; a link belongs to an existing
\* account, whatever deletions run beside the linking (schema.prisma:151-164).
THEOREM TypeCorrect == Spec => []TypeOK
<1>1. Init => TypeInv
  BY InitTypeInv
<1>2. TypeInv /\ [Next]_vars => TypeInv'
  <2> SUFFICES ASSUME TypeInv, [Next]_vars PROVE TypeInv'
    OBVIOUS
  <2>1. CASE Next
    BY <2>1, NextSteps, LocalTypeInv, WriteTypeInv, EventTypeInv, RestTypeInv
  <2> QED
    BY <2>1, RestTypeInv
<1>3. TypeInv => TypeOK
  BY DEF TypeInv
<1> QED
  BY <1>1, <1>2, <1>3, PTL DEF Spec

------------------------------------------------------------------------------
(* The inductive invariant.                                                *)

\* Requests that no longer change what they link or answer.
Settled == {"finish"} \cup Ended

\* The unique indexes of LinkedIdentity and of primaryEmail.
Keys ==
  /\ \A x, y \in links : x.identity = y.identity => x = y
  /\ \A u, v \in users : email[u] = email[v] => u = v \/ email[u] = NoEmail

\* A request that ran beside r has made link x.
Beside(r, x) == \E s \in Requests : Overlap(r, s) /\ NewLink(s) = x /\ pc[s] \in Settled

\* An account made by a sign-in is the one this sign-in links and answers.
Made(r) ==
  r \in users => pc[r] \in {"createLink"} \cup Settled /\ op[r] = "login" /\ account[r] = r

Before(r) == \A s \in prior[r] : pc[s] \in Ended

SignedIn(r) ==
  op[r] = "login" /\ pc[r] \in {"finish", "done"} =>
    identity[r] \in unlinked \/ NewLink(r) \in links

Fresh(r) == r \in fresh => pc[r] \in Settled

\* The account has the reported address, or some account has given that up.
Addressed(r) ==
  (op[r] = "login" /\ pc[r] = "createLink") \/ r \in fresh =>
    claimed[r] \in freed \cup {NoEmail} \/ account[r] \in OwnersOf(claimed[r])

\* A sign-in that has found no link meets only links made beside it.
Met(r) ==
  op[r] = "login" /\ pc[r] \in {"findUser", "createUser", "createLink"} =>
    \A x \in LinksOf(identity[r]) : Beside(r, x)

Left(r) ==
  r \in users /\ pc[r] = "failed" =>
    identity[r] \in unlinked \/ \E x \in LinksOf(identity[r]) : Beside(r, x)

ReqInv(r) ==
  Made(r) /\ Before(r) /\ SignedIn(r) /\ Fresh(r) /\ Addressed(r) /\ Met(r) /\ Left(r)

IInv == TypeInv /\ Keys /\ \A r \in Requests : ReqInv(r)

LEMMA InitIInv == Init => IInv
<1> SUFFICES ASSUME Init PROVE IInv
  OBVIOUS
<1>1. Keys
  BY DEF Init, Keys
<1>2. ASSUME NEW r \in Requests PROVE ReqInv(r)
  <2>1. pc[r] = "idle" /\ r \notin fresh /\ prior[r] = {}
    BY DEF Init
  <2>2. r \notin users
    BY NamesAssumption DEF Init
  <2> QED
    BY <2>1, <2>2 DEF ReqInv, Made, Before, SignedIn, Fresh, Addressed, Met, Left
<1> QED
  BY <1>1, <1>2, InitTypeInv DEF IInv

------------------------------------------------------------------------------
(* Requests beside the one that takes a step.                              *)

Kept(q) ==
  /\ op'[q] = op[q] /\ identity'[q] = identity[q] /\ claimed'[q] = claimed[q]
  /\ account'[q] = account[q] /\ prior'[q] = prior[q]

\* q takes no step, or the process dies under it.
Follows(q) == Kept(q) /\ (pc'[q] = pc[q] \/ (pc[q] \notin Away /\ pc'[q] = "crashed"))

Steady ==
  \A q \in Requests :
    pc[q] \in Settled =>
      Kept(q) /\ pc'[q] \in Settled /\ (pc[q] \in Ended => pc'[q] = pc[q])

\* What a step may do to the tables, seen from request q.
TablesStep(q) ==
  /\ q \in users' => q \in users
  /\ q \in fresh' => q \in fresh
  /\ unlinked \subseteq unlinked' /\ freed \subseteq freed'
  /\ \A x \in links : x \in links' \/ x.identity \in unlinked'
  /\ \A x \in links' : x \in links \/ \E s \in Requests :
       /\ s # q /\ pc[s] = "createLink" /\ pc'[s] \in Settled
       /\ Kept(s) /\ NewLink(s) = x
  /\ \A u \in users : (u \in users' /\ email'[u] = email[u]) \/ email[u] \in freed' \cup {NoEmail}

LEMMA BesideStable ==
  ASSUME Steady, NEW q \in Requests, prior'[q] = prior[q], NEW x, Beside(q, x)
  PROVE  Beside(q, x)'
BY DEF Beside, Overlap, NewLink, Steady, Kept

LEMMA BesideNew ==
  ASSUME NEW q \in Requests, NEW s \in Requests, s # q, pc[s] = "createLink",
         pc[q] \notin Ended, Before(q), Before(s),
         Kept(q), Kept(s), pc'[s] \in Settled, NEW x, NewLink(s) = x
  PROVE  Beside(q, x)'
<1>1. s \notin prior[q] /\ q \notin prior[s]
  BY DEF Before, Ended
<1> QED
  BY <1>1 DEF Beside, Overlap, NewLink, Kept

LEMMA FollowerInv ==
  ASSUME IInv, NEW q \in Requests, Follows(q), Steady, TablesStep(q)
  PROVE  ReqInv(q)'
<1>1. ReqInv(q)
  BY DEF IInv
<1>2. Kept(q)
  BY DEF Follows
<1>3. Made(q)'
  BY <1>1 DEF ReqInv, Made, Follows, Kept, TablesStep, Settled, Ended
<1>4. Before(q)'
  <2>1. \A s \in prior[q] : s \in Requests
    BY DEF IInv, TypeInv, TypeOK
  <2> QED
    BY <1>1, <2>1 DEF ReqInv, Before, Follows, Kept, Steady, Settled
<1>5. SignedIn(q)'
  <2>1. NewLink(q)' = NewLink(q) /\ NewLink(q).identity = identity[q]
    BY <1>2 DEF NewLink, Kept
  <2> QED
    BY <1>1, <2>1 DEF ReqInv, SignedIn, Follows, Kept, TablesStep
<1>6. Fresh(q)'
  BY <1>1 DEF ReqInv, Fresh, Follows, TablesStep, Settled, Ended
<1>7. Addressed(q)'
  <2>1. SUFFICES ASSUME (op'[q] = "login" /\ pc'[q] = "createLink") \/ q \in fresh'
                 PROVE  \/ claimed'[q] \in freed' \cup {NoEmail}
                        \/ account'[q] \in OwnersOf(claimed[q])'
    BY <1>2 DEF Addressed, Kept
  <2>2. claimed[q] \in freed \cup {NoEmail} \/ account[q] \in OwnersOf(claimed[q])
    BY <1>1, <2>1 DEF ReqInv, Addressed, Follows, Kept, TablesStep
  <2> QED
    BY <2>2, <1>2 DEF TablesStep, OwnersOf, Kept
<1>8. Met(q)'
  <2>1. SUFFICES ASSUME op'[q] = "login", pc'[q] \in {"findUser", "createUser", "createLink"},
                        NEW x \in links', x.identity = identity[q]
                 PROVE  Beside(q, x)'
    BY <1>2 DEF Met, LinksOf, Kept
  <2>2. pc[q] = pc'[q] /\ pc[q] \notin Ended
    BY <2>1 DEF Follows, Ended
  <2>3. CASE x \in links
    <3>1. Beside(q, x)
      BY <1>1, <1>2, <2>1, <2>2, <2>3 DEF ReqInv, Met, LinksOf, Kept
    <3> QED
      BY <1>2, <3>1, BesideStable DEF Kept
  <2>4. CASE x \notin links
    <3>1. PICK s \in Requests :
            /\ s # q /\ pc[s] = "createLink" /\ pc'[s] \in Settled
            /\ Kept(s) /\ NewLink(s) = x
      BY <2>1, <2>4 DEF TablesStep
    <3>2. Before(q) /\ Before(s)
      BY DEF IInv, ReqInv
    <3> QED
      BY <1>2, <2>2, <3>1, <3>2, BesideNew
  <2> QED
    BY <2>3, <2>4
<1>9. Left(q)'
  <2>1. SUFFICES ASSUME q \in users', pc'[q] = "failed"
                 PROVE  identity[q] \in unlinked' \/ \E x \in LinksOf(identity[q])' : Beside(q, x)'
    BY <1>2 DEF Left, Kept, LinksOf
  <2>2. identity[q] \in unlinked \/ \E x \in LinksOf(identity[q]) : Beside(q, x)
    BY <1>1, <2>1 DEF ReqInv, Left, Follows, TablesStep
  <2>3. CASE identity[q] \in unlinked
    BY <2>3 DEF TablesStep
  <2>4. ASSUME NEW x \in LinksOf(identity[q]), Beside(q, x)
        PROVE  identity[q] \in unlinked' \/ \E y \in LinksOf(identity[q])' : Beside(q, y)'
    <3>1. Beside(q, x)'
      BY <1>2, <2>4, BesideStable DEF Kept
    <3>2. x \in links /\ x.identity = identity[q]
      BY DEF LinksOf
    <3>3. x \in LinksOf(identity[q])' \/ identity[q] \in unlinked'
      BY <1>2, <3>2 DEF TablesStep, LinksOf, Kept
    <3> QED
      BY <3>1, <3>3
  <2> QED
    BY <2>2, <2>3, <2>4
<1> QED
  BY <1>3, <1>4, <1>5, <1>6, <1>7, <1>8, <1>9 DEF ReqInv

------------------------------------------------------------------------------
(* The request that takes a step.                                          *)

\* Its own part changes only before it has ended, and no longer while it answers.
Acts(r) ==
  /\ pc[r] \notin Ended
  /\ pc[r] = "finish" => Kept(r) /\ pc'[r] \in Ended
  /\ \A q \in Requests \ {r} : Follows(q)

QuietTables == UNCHANGED <<users, email, links, fresh, unlinked, freed>>

LEMMA QuietTablesStep == QuietTables => \A q \in Requests : TablesStep(q)
BY DEF QuietTables, TablesStep

LEMMA QuietKeys == IInv /\ QuietTables => Keys'
BY DEF IInv, Keys, QuietTables

LEMMA ActsSteady ==
  ASSUME NEW r \in Requests, Acts(r)
  PROVE  Steady
BY DEF Acts, Follows, Steady, Settled, Ended, Away

LEMMA FollowSteady ==
  ASSUME \A q \in Requests : Follows(q)
  PROVE  Steady
BY DEF Follows, Steady, Settled, Ended, Away

\* If nothing but the process ends, nothing is left to show.
LEMMA AllFollow ==
  ASSUME IInv, \A q \in Requests : Follows(q), \A q \in Requests : TablesStep(q)
  PROVE  \A q \in Requests : ReqInv(q)'
BY FollowSteady, FollowerInv

LEMMA OneActs ==
  ASSUME IInv, NEW r \in Requests, Acts(r), \A q \in Requests \ {r} : TablesStep(q), ReqInv(r)'
  PROVE  \A q \in Requests : ReqInv(q)'
BY ActsSteady, FollowerInv DEF Acts

LEMMA LostFollows ==
  ASSUME TypeOK, pc' = Lost, UNCHANGED locals
  PROVE  \A q \in Requests : Follows(q)
BY LostType DEF Follows, Kept, locals

\* Before an account is made, there is nothing to say of it.
LEMMA NotMadeYet ==
  ASSUME IInv, NEW r \in Requests, pc[r] \notin {"createLink"} \cup Settled
  PROVE  r \notin users /\ r \notin fresh
BY DEF IInv, ReqInv, Made, Fresh

LEMMA BeginInv ==
  ASSUME IInv, NEW r \in Requests, NEW o \in {"login", "link", "vrchat"},
         NEW p \in {"upstream", "verifying"}, NEW u, Begin(r, o, p, u),
         \A q \in Requests \ {r} : identity'[q] = identity[q]
  PROVE  \A q \in Requests : ReqInv(q)'
<1> USE DEF tables, pasts, Goto, TypeInv, TypeOK
<1>1. pc[r] = "idle" /\ TypeOK
  BY DEF Begin, IInv
<1>2. r \notin users /\ r \notin fresh
  BY <1>1, NotMadeYet DEF Settled, Ended
<1>3. Acts(r)
  BY <1>1 DEF Begin, Acts, Follows, Kept, Ended, IInv
<1>4. \A q \in Requests : TablesStep(q)
  BY QuietTablesStep DEF Begin, QuietTables
<1>5. pc'[r] = p /\ prior'[r] = {s \in Requests : pc[s] \in Ended}
  BY <1>1 DEF Begin
<1>6. Before(r)'
  BY <1>1, <1>3, <1>5, ActsSteady DEF Before, Steady, Settled
<1>7. ReqInv(r)'
  BY <1>2, <1>5, <1>6
     DEF Begin, ReqInv, Made, SignedIn, Fresh, Addressed, Met, Left
<1> QED
  BY <1>3, <1>4, <1>7, OneActs

\* Steps of r that leave the tables and its start alone.
LEMMA QuietActs ==
  ASSUME IInv, NEW r \in Requests, NEW p, pc[r] \notin Ended, pc' = [pc EXCEPT ![r] = p],
         pc[r] = "finish" => Kept(r) /\ p \in Ended,
         \A q \in Requests \ {r} : Kept(q), prior' = prior, QuietTables
  PROVE  /\ Acts(r) /\ pc'[r] = p
         /\ Before(r)'
         /\ \A q \in Requests \ {r} : TablesStep(q)
         /\ \A x : Beside(r, x) => Beside(r, x)'
<1>1. pc'[r] = p /\ \A q \in Requests \ {r} : pc'[q] = pc[q]
  BY DEF IInv, TypeInv, TypeOK
<1>2. Acts(r)
  BY <1>1 DEF Acts, Follows
<1>3. Steady
  BY <1>2, ActsSteady
<1>4. Before(r)'
  <2>1. Before(r) /\ prior[r] \subseteq Requests
    BY DEF IInv, ReqInv, TypeInv, TypeOK
  <2> QED
    BY <2>1, <1>3 DEF Before, Steady, Settled
<1>5. \A q \in Requests \ {r} : TablesStep(q)
  BY QuietTablesStep
<1>6. \A x : Beside(r, x) => Beside(r, x)'
  BY <1>3, BesideStable
<1> QED
  BY <1>1, <1>2, <1>4, <1>5, <1>6

\* A step out of a state before any account is made, in which nothing is promised
\* yet (the callback, its failure, the end of a verification).
LEMMA PlainInv ==
  ASSUME IInv, NEW r \in Requests, pc[r] \in {"upstream", "verifying", "createUser"},
         NEW p \in {"findLink", "done", "failed"}, p = "done" => op[r] # "login",
         pc' = [pc EXCEPT ![r] = p],
         \A q \in Requests \ {r} : Kept(q), prior' = prior, op' = op, QuietTables
  PROVE  \A q \in Requests : ReqInv(q)'
<1>1. r \notin users /\ r \notin fresh
  BY NotMadeYet DEF Settled, Ended
<1>2. /\ Acts(r) /\ pc'[r] = p
      /\ Before(r)'
      /\ \A q \in Requests \ {r} : TablesStep(q)
  BY QuietActs DEF Ended
<1>3. ReqInv(r)'
  BY <1>1, <1>2 DEF QuietTables, ReqInv, Made, SignedIn, Fresh, Addressed, Met, Left
<1> QED
  BY <1>2, <1>3, OneActs

LEMMA LocalInv ==
  ASSUME IInv, NEW r \in Requests, LocalSteps(r)
  PROVE  \A q \in Requests : ReqInv(q)'
<1> USE DEF tables, pasts, locals, Goto
<1>a. TypeOK /\ QuietTables
  BY DEF IInv, TypeInv, QuietTables, LocalSteps, SignIn, Link, LinkVRChat, Begin, Callback,
         CallbackFails, Verify, FindLink, FindUser, Finish
<1>1. CASE SignIn(r)
  BY <1>1, BeginInv DEF SignIn
<1>2. ASSUME NEW u \in users, Link(r, u) PROVE \A q \in Requests : ReqInv(q)'
  BY <1>2, BeginInv DEF Link
<1>3. ASSUME NEW u \in users, NEW i \in VRChat, LinkVRChat(r, u, i)
      PROVE  \A q \in Requests : ReqInv(q)'
  <2>1. \A q \in Requests \ {r} : identity'[q] = identity[q]
    BY <1>3, <1>a DEF LinkVRChat, TypeOK
  <2> QED
    BY <1>3, <2>1, BeginInv DEF LinkVRChat
<1>4. ASSUME NEW i \in Upstream, NEW e \in Emails \cup {NoEmail}, Callback(r, i, e)
      PROVE  \A q \in Requests : ReqInv(q)'
  <2>1. \A q \in Requests \ {r} : Kept(q)
    BY <1>4, <1>a DEF Callback, Kept, TypeOK
  <2>2. pc[r] = "upstream" /\ prior' = prior /\ op' = op
    BY <1>4 DEF Callback
  <2>3. PICK p \in {"findLink"} : pc' = [pc EXCEPT ![r] = p]
    BY <1>4 DEF Callback
  <2> QED
    BY <1>a, <2>1, <2>2, <2>3, PlainInv
<1>5. CASE CallbackFails(r)
  <2>1. \A q \in Requests : Kept(q)
    BY <1>5 DEF CallbackFails, Kept
  <2>2. pc[r] = "upstream" /\ prior' = prior /\ op' = op
    BY <1>5 DEF CallbackFails
  <2>3. PICK p \in {"failed"} : pc' = [pc EXCEPT ![r] = p]
    BY <1>5 DEF CallbackFails
  <2> QED
    BY <1>a, <2>1, <2>2, <2>3, PlainInv
<1>6. CASE Verify(r)
  <2>1. CASE pc' = Lost
    <3>1. \A q \in Requests : Follows(q)
      BY <1>6, <1>a, <2>1, LostFollows DEF Verify
    <3> QED
      BY <1>a, <3>1, AllFollow, QuietTablesStep
  <2>2. CASE Goto(r, "verifying", "findLink") \/ Goto(r, "verifying", "done")
    <3>1. \A q \in Requests : Kept(q)
      BY <1>6 DEF Verify, Kept
    <3>2. pc[r] = "verifying" /\ op[r] # "login"
      BY <2>2 DEF IInv, TypeInv, Proved
    <3> QED
      BY <1>6, <1>a, <2>2, <3>1, <3>2, PlainInv DEF Verify
  <2> QED
    BY <1>6, <2>1, <2>2 DEF Verify
<1>7. CASE FindLink(r)
  <2>1. pc[r] = "findLink" /\ \A q \in Requests \ {r} : Kept(q)
    BY <1>7, <1>a DEF FindLink, FindLinkFound, FindLinkNone, Kept, TypeOK
  <2>2. r \notin users /\ r \notin fresh
    BY <2>1, NotMadeYet DEF Settled, Ended
  <2>3. PICK p : pc' = [pc EXCEPT ![r] = p]
    BY <1>7 DEF FindLink, FindLinkFound, FindLinkNone
  <2>4. /\ Acts(r) /\ pc'[r] = p
        /\ Before(r)'
        /\ \A q \in Requests \ {r} : TablesStep(q)
    BY <1>7, <1>a, <2>1, <2>3, QuietActs DEF FindLink, Ended
  <2>5. op'[r] = op[r] /\ identity'[r] = identity[r]
    BY <1>7 DEF FindLink
  <2>6. CASE FindLinkFound(r)
    <3>1. p \in {"finish", "done", "failed"}
      BY <1>a, <2>3, <2>6 DEF FindLinkFound, TypeOK
    <3>2. PICK x \in LinksOf(identity[r]) :
            \/ op[r] # "login"
            \/ account'[r] = x.user
      BY <1>a, <2>6 DEF FindLinkFound, TypeOK
    <3>3. x = [identity |-> x.identity, user |-> x.user] /\ x.identity = identity[r] /\ x \in links
      BY <1>a DEF LinksOf, TypeOK
    <3>4. SignedIn(r)'
      BY <1>a, <2>5, <3>2, <3>3 DEF SignedIn, NewLink, QuietTables
    <3> QED
      BY <1>a, <2>2, <2>4, <2>5, <3>1, <3>4, OneActs
         DEF QuietTables, ReqInv, Made, Fresh, Addressed, Met, Left
  <2>7. CASE FindLinkNone(r)
    <3>1. /\ p \in {"createLink", "createUser", "findUser"} /\ LinksOf(identity[r]) = {}
          /\ op[r] = "login" => p # "createLink"
      BY <1>a, <2>3, <2>7 DEF FindLinkNone, TypeOK
    <3>2. LinksOf(identity[r])' = {}
      BY <1>a, <2>5, <3>1 DEF LinksOf, QuietTables
    <3> QED
      BY <1>a, <2>2, <2>4, <2>5, <3>1, <3>2, OneActs
         DEF QuietTables, ReqInv, Made, SignedIn, Fresh, Addressed, Met, Left
  <2> QED
    BY <1>7, <2>6, <2>7 DEF FindLink
<1>8. CASE FindUser(r)
  <2>1. pc[r] = "findUser" /\ \A q \in Requests \ {r} : Kept(q)
    BY <1>8, <1>a DEF FindUser, Kept, TypeOK
  <2>2. r \notin users /\ r \notin fresh
    BY <2>1, NotMadeYet DEF Settled, Ended
  <2>3. PICK p \in {"createLink", "createUser"} : pc' = [pc EXCEPT ![r] = p]
    BY <1>8 DEF FindUser
  <2>4. /\ Acts(r) /\ pc'[r] = p
        /\ Before(r)'
        /\ \A q \in Requests \ {r} : TablesStep(q)
        /\ \A x : Beside(r, x) => Beside(r, x)'
    BY <1>8, <1>a, <2>1, <2>3, QuietActs DEF FindUser, Ended
  <2>5. op'[r] = op[r] /\ identity'[r] = identity[r] /\ claimed'[r] = claimed[r]
    BY <1>8 DEF FindUser
  <2>6. p = "createLink" => account'[r] \in OwnersOf(claimed[r])
    BY <1>8, <1>a, <2>4 DEF FindUser, TypeOK
  <2>7. Addressed(r)'
    BY <1>a, <2>2, <2>4, <2>5, <2>6 DEF Addressed, QuietTables, OwnersOf
  <2>8. Met(r)'
    <3>1. Met(r)
      BY DEF IInv, ReqInv
    <3> QED
      BY <1>a, <2>1, <2>4, <2>5, <3>1 DEF Met, LinksOf, QuietTables
  <2> QED
    BY <1>a, <2>2, <2>4, <2>7, <2>8, OneActs
       DEF QuietTables, ReqInv, Made, SignedIn, Fresh, Left
<1>9. CASE Finish(r)
  <2>1. pc[r] = "finish" /\ \A q \in Requests : Kept(q)
    BY <1>9 DEF Finish, Kept
  <2>2. /\ Acts(r) /\ pc'[r] = "done"
        /\ Before(r)'
        /\ \A q \in Requests \ {r} : TablesStep(q)
    BY <1>9, <1>a, <2>1, QuietActs DEF Finish, Ended
  <2>3. ReqInv(r)
    BY DEF IInv
  <2>4. Made(r)' /\ Fresh(r)' /\ Met(r)' /\ Left(r)'
    BY <1>a, <2>1, <2>2, <2>3
       DEF ReqInv, Made, Fresh, Met, Left, QuietTables, Kept, Settled, Ended
  <2>5. SignedIn(r)' /\ Addressed(r)'
    BY <1>a, <2>1, <2>2, <2>3
       DEF ReqInv, SignedIn, Addressed, QuietTables, Kept, NewLink, OwnersOf
  <2> QED
    BY <2>2, <2>4, <2>5, OneActs DEF ReqInv
<1> QED
  BY <1>1, <1>2, <1>3, <1>4, <1>5, <1>6, <1>7, <1>8, <1>9 DEF LocalSteps

LEMMA BeforeStable ==
  ASSUME IInv, NEW r \in Requests, Steady, prior'[r] = prior[r]
  PROVE  Before(r)'
<1>1. Before(r) /\ prior[r] \subseteq Requests
  BY DEF IInv, ReqInv, TypeInv, TypeOK
<1> QED
  BY <1>1 DEF Before, Steady, Settled

LEMMA CreateUserInv ==
  ASSUME IInv, NEW r \in Requests, CreateUser(r)
  PROVE  Keys' /\ \A q \in Requests : ReqInv(q)'
<1> USE DEF tables, pasts, locals, Goto
<1>1. /\ TypeOK /\ Keys /\ pc[r] = "createUser" /\ op[r] = "login"
      /\ op' = op /\ identity' = identity /\ claimed' = claimed /\ prior' = prior
      /\ \A q \in Requests \ {r} : Kept(q)
  BY DEF IInv, TypeInv, Proved, CreateUser, Kept, TypeOK
<1>2. r \notin users /\ r \notin fresh
  BY <1>1, NotMadeYet DEF Settled, Ended
<1>3. CASE UNCHANGED <<users, email, account>>
  <2>1. QuietTables /\ Keys'
    BY <1>1, <1>3 DEF CreateUser, QuietTables, Keys
  <2>2. PICK p \in {"failed"} : pc' = [pc EXCEPT ![r] = p]
    BY <1>2, <1>3 DEF CreateUser
  <2> QED
    BY <1>1, <2>1, <2>2, PlainInv
<1>4. CASE /\ claimed[r] = NoEmail \/ OwnersOf(claimed[r]) = {}
           /\ Goto(r, "createUser", "createLink")
           /\ users' = users \cup {r}
           /\ email' = [email EXCEPT ![r] = claimed[r]]
           /\ account' = [account EXCEPT ![r] = r]
  <2> USE DEF TypeOK
  <2>1. /\ email'[r] = claimed[r] /\ account'[r] = r /\ pc'[r] = "createLink"
        /\ \A u \in users : email'[u] = email[u]
        /\ UNCHANGED <<links, fresh, unlinked, freed>>
    BY <1>1, <1>2, <1>4 DEF Accounts, CreateUser
  <2>2. Keys'
    BY <1>1, <1>2, <1>4, <2>1 DEF Keys, OwnersOf
  <2>3. Acts(r)
    BY <1>1, <1>4 DEF Acts, Follows, Ended
  <2>4. \A q \in Requests \ {r} : TablesStep(q)
    BY <1>4, <2>1 DEF TablesStep
  <2>5. Before(r)' /\ \A x : Beside(r, x) => Beside(r, x)'
    BY <1>1, <2>3, ActsSteady, BeforeStable, BesideStable
  <2>6. Met(r)'
    <3>1. Met(r)
      BY DEF IInv, ReqInv
    <3> QED
      BY <1>1, <2>1, <2>5, <3>1 DEF Met, LinksOf
  <2>7. Made(r)' /\ Addressed(r)'
    BY <1>1, <1>4, <2>1 DEF Made, Addressed, OwnersOf
  <2> QED
    BY <1>2, <2>1, <2>2, <2>3, <2>4, <2>5, <2>6, <2>7, OneActs
       DEF ReqInv, SignedIn, Fresh, Left
<1> QED
  BY <1>3, <1>4 DEF CreateUser

LEMMA CreateLinkInv ==
  ASSUME IInv, NEW r \in Requests, CreateLink(r)
  PROVE  Keys' /\ \A q \in Requests : ReqInv(q)'
<1>1. /\ TypeOK /\ Keys /\ ReqInv(r) /\ pc[r] = "createLink"
      /\ \A q \in Requests : Kept(q)
      /\ UNCHANGED <<users, email, unlinked, freed>>
  BY DEF IInv, TypeInv, CreateLink, Goto, LinkFrame, locals, Kept
<1>2. /\ pc' = [pc EXCEPT ![r] = IF op[r] = "login" THEN "finish" ELSE "done"]
      /\ pc'[r] \in Settled /\ pc'[r] # "failed"
  BY <1>1 DEF CreateLink, Goto, TypeOK, Settled, Ended
<1>3. /\ links' = links \cup {NewLink(r)} /\ NewLink(r).identity = identity[r]
      /\ LinksOf(identity[r]) = {}
      /\ fresh' = IF op[r] = "login" THEN fresh \cup {r} ELSE fresh
  BY DEF CreateLink, NewLink, Accepts
<1>4. Keys'
  BY <1>1, <1>3 DEF Keys, LinksOf
<1>5. Acts(r)
  BY <1>1, <1>2 DEF Acts, Follows, Ended, TypeOK
<1>6. \A q \in Requests \ {r} : TablesStep(q)
  BY <1>1, <1>2, <1>3 DEF TablesStep
<1>7. Before(r)'
  BY <1>1, <1>5, ActsSteady, BeforeStable DEF Kept
<1>8. Addressed(r)'
  <2>1. r \notin fresh
    BY <1>1 DEF ReqInv, Fresh, Settled, Ended
  <2> QED
    BY <1>1, <1>2, <1>3, <2>1 DEF ReqInv, Addressed, Kept, OwnersOf, Settled, Ended
<1>9. Made(r)' /\ SignedIn(r)' /\ Fresh(r)'
  BY <1>1, <1>2, <1>3 DEF ReqInv, Made, SignedIn, Fresh, Kept, NewLink
<1>10. Met(r)' /\ Left(r)'
  BY <1>2 DEF Met, Left, Settled, Ended
<1> QED
  BY <1>4, <1>5, <1>6, <1>7, <1>8, <1>9, <1>10, OneActs DEF ReqInv

LEMMA CreateLinkFailsInv ==
  ASSUME IInv, NEW r \in Requests, CreateLinkFails(r)
  PROVE  \A q \in Requests : ReqInv(q)'
<1>1. /\ TypeOK /\ ReqInv(r) /\ pc[r] = "createLink" /\ ~Accepts(r)
      /\ QuietTables /\ UNCHANGED locals
      /\ \A q \in Requests : Kept(q)
  BY DEF IInv, TypeInv, CreateLinkFails, LinkFrame, locals, Kept, QuietTables
<1>2. CASE pc' = Lost
  BY <1>1, <1>2, LostFollows, AllFollow, QuietTablesStep
<1>3. CASE pc' = [pc EXCEPT ![r] = "failed"]
  <2>1. /\ Acts(r) /\ pc'[r] = "failed"
        /\ Before(r)'
        /\ \A q \in Requests \ {r} : TablesStep(q)
        /\ \A x : Beside(r, x) => Beside(r, x)'
    <3>1. prior' = prior
      BY <1>1 DEF locals
    <3> QED
      BY <1>1, <1>3, <3>1, QuietActs DEF Ended
  <2>2. r \notin fresh
    BY <1>1 DEF ReqInv, Fresh, Settled, Ended
  <2>3. Left(r)'
    <3>1. SUFFICES ASSUME r \in users
                   PROVE  \E x \in LinksOf(identity[r])' : Beside(r, x)'
      BY <1>1 DEF Left, QuietTables, Kept, LinksOf
    <3>2. op[r] = "login" /\ account[r] = r
      BY <1>1, <3>1 DEF ReqInv, Made
    <3>3. PICK x \in LinksOf(identity[r]) : TRUE
      BY <1>1, <3>1, <3>2 DEF Accepts
    <3>4. Beside(r, x)
      BY <1>1, <3>2, <3>3 DEF ReqInv, Met
    <3>5. x \in LinksOf(identity[r])'
      BY <1>1, <3>3 DEF LinksOf, QuietTables, Kept
    <3> QED
      BY <2>1, <3>4, <3>5
  <2>4. Made(r)' /\ SignedIn(r)' /\ Fresh(r)' /\ Addressed(r)' /\ Met(r)'
    BY <1>1, <2>1, <2>2
       DEF ReqInv, Made, SignedIn, Fresh, Addressed, Met, QuietTables, Kept, Settled, Ended
  <2> QED
    BY <2>1, <2>3, <2>4, OneActs DEF ReqInv
<1> QED
  BY <1>2, <1>3 DEF CreateLinkFails

LEMMA EventInv ==
  ASSUME IInv,
         \/ \E x \in links : Unlink(x)
         \/ \E u \in users : DeleteUser(u) \/ \E e \in Emails : ChangeEmail(u, e)
         \/ Crash
  PROVE  Keys' /\ \A q \in Requests : ReqInv(q)'
<1>1. TypeOK /\ Keys /\ UNCHANGED <<locals, fresh>>
  BY DEF IInv, TypeInv, Unlink, DeleteUser, ChangeEmail, Crash, Event
<1>2. \A q \in Requests : Follows(q)
  BY <1>1, LostFollows DEF Unlink, DeleteUser, ChangeEmail, Crash, Follows, Kept, locals
<1>3. ASSUME NEW x \in links, Unlink(x) PROVE Keys' /\ \A q \in Requests : TablesStep(q)
  BY <1>1, <1>3 DEF Unlink, Keys, TablesStep
<1>4. ASSUME NEW u \in users, DeleteUser(u) PROVE Keys' /\ \A q \in Requests : TablesStep(q)
  <2>1. \A x \in links \ links' : x.identity \in unlinked'
    BY <1>4 DEF DeleteUser
  <2>2. \A v \in users : v \in users' \/ email[v] \in freed' \cup {NoEmail}
    BY <1>4 DEF DeleteUser
  <2> QED
    BY <1>1, <1>4, <2>1, <2>2 DEF DeleteUser, Keys, TablesStep
<1>5. ASSUME NEW u \in users, NEW e \in Emails, ChangeEmail(u, e)
      PROVE  Keys' /\ \A q \in Requests : TablesStep(q)
  <2>1. email'[u] = e /\ \A v \in users \ {u} : email'[v] = email[v]
    BY <1>1, <1>5 DEF ChangeEmail, TypeOK
  <2>2. UNCHANGED <<users, links, unlinked, fresh>> /\ OwnersOf(e) = {}
    BY <1>1, <1>5 DEF ChangeEmail
  <2>3. freed \subseteq freed' /\ email[u] \in freed' \cup {NoEmail}
    BY <1>5 DEF ChangeEmail
  <2>4. Keys'
    BY <1>1, <2>1, <2>2 DEF Keys, OwnersOf
  <2>5. \A q \in Requests : TablesStep(q)
    BY <2>1, <2>2, <2>3 DEF TablesStep
  <2> QED
    BY <2>4, <2>5
<1>6. CASE Crash
  <2>1. QuietTables
    BY <1>1, <1>6 DEF Crash, tables, QuietTables
  <2> QED
    BY <1>2, <2>1, AllFollow, QuietKeys, QuietTablesStep
<1> QED
  BY <1>2, <1>3, <1>4, <1>5, <1>6, AllFollow

\* A failing statement ends its request as it is; only the death of the process, by a
\* verification, ends others.
LEMMA FailureInv ==
  ASSUME IInv, NEW r \in Requests, StatementFails(r)
  PROVE  Keys' /\ \A q \in Requests : ReqInv(q)'
<1>1. /\ TypeOK /\ ReqInv(r) /\ QuietTables /\ UNCHANGED locals
      /\ \A q \in Requests : Kept(q)
      /\ pc[r] \in {"findLink", "findUser", "createUser", "createLink", "finish"}
  BY DEF IInv, TypeInv, StatementFails, Event, tables, locals, Kept, QuietTables
<1>2. Keys'
  BY <1>1, QuietKeys
<1>3. CASE pc' = Lost
  BY <1>1, <1>2, <1>3, LostFollows, AllFollow, QuietTablesStep
<1>4. CASE pc' = [pc EXCEPT ![r] = "faulted"]
  <2>1. /\ Acts(r) /\ pc'[r] = "faulted"
        /\ Before(r)'
        /\ \A q \in Requests \ {r} : TablesStep(q)
    <3>1. prior' = prior
      BY <1>1 DEF locals
    <3> QED
      BY <1>1, <1>4, <3>1, QuietActs DEF Ended
  <2>2. Made(r)' /\ SignedIn(r)' /\ Fresh(r)' /\ Addressed(r)' /\ Met(r)' /\ Left(r)'
    BY <1>1, <2>1
       DEF ReqInv, Made, SignedIn, Fresh, Addressed, Met, Left, QuietTables, Kept,
           OwnersOf, Settled, Ended
  <2> QED
    BY <1>2, <2>1, <2>2, OneActs DEF ReqInv
<1> QED
  BY <1>1, <1>3, <1>4 DEF StatementFails

LEMMA RestInv ==
  ASSUME IInv, UNCHANGED vars
  PROVE  Keys' /\ \A q \in Requests : ReqInv(q)'
<1>1. \A q \in Requests : Follows(q) /\ TablesStep(q)
  BY DEF vars, locals, Follows, Kept, TablesStep
<1>2. Keys'
  BY DEF IInv, Keys, vars
<1> QED
  BY <1>1, <1>2, AllFollow

LEMMA StepIInv ==
  ASSUME IInv, [Next]_vars
  PROVE  IInv'
<1>0. TypeInv
  BY DEF IInv
<1>1. ASSUME NEW r \in Requests, LocalSteps(r) PROVE IInv'
  <2>1. QuietTables
    BY <1>1 DEF QuietTables, tables, pasts, LocalSteps, SignIn, Link, LinkVRChat, Begin, Callback,
                CallbackFails, Verify, FindLink, FindUser, Finish
  <2> QED
    BY <1>0, <1>1, <2>1, LocalTypeInv, LocalInv, QuietKeys DEF IInv
<1>2. ASSUME NEW r \in Requests, CreateUser(r) \/ CreateLink(r) \/ CreateLinkFails(r) PROVE IInv'
  <2>1. CreateLinkFails(r) => QuietTables
    BY DEF CreateLinkFails, LinkFrame, QuietTables
  <2> QED
    BY <1>0, <1>2, <2>1, WriteTypeInv, CreateUserInv, CreateLinkInv, CreateLinkFailsInv, QuietKeys
       DEF IInv
<1>3. CASE \/ \E x \in links : Unlink(x)
           \/ \E u \in users : DeleteUser(u) \/ \E e \in Emails : ChangeEmail(u, e)
           \/ Crash
  BY <1>0, <1>3, EventTypeInv, EventInv DEF IInv
<1>5. ASSUME NEW r \in Requests, StatementFails(r) PROVE IInv'
  BY <1>0, <1>5, EventTypeInv, FailureInv DEF IInv
<1>4. CASE UNCHANGED vars
  BY <1>0, <1>4, RestTypeInv, RestInv DEF IInv
<1> QED
  BY <1>1, <1>2, <1>3, <1>4, <1>5, NextSteps

\* The inductive invariant: the unique indexes, what a request that waits for its
\* INSERT knows, and which links were made beside it (interactions.ts:218-257).
THEOREM Inductive == Spec => []IInv
<1>1. Init => IInv
  BY InitIInv
<1>2. IInv /\ [Next]_vars => IInv'
  BY StepIInv
<1> QED
  BY <1>1, <1>2, PTL DEF Spec

------------------------------------------------------------------------------
(* What follows.                                                           *)

\* Sign-ins that prove one identity, or report one address, are answered with one
\* account, however they interleave (interactions.ts:218-250).
THEOREM SignInsMeet == Spec => []SignInsAgree
<1>1. IInv => SignInsAgree
  <2> SUFFICES ASSUME IInv PROVE SignInsAgree
    OBVIOUS
  <2>1. SameAccountEachTime
    BY DEF IInv, Keys, ReqInv, SignedIn, NewLink, SameAccountEachTime
  <2>2. SameAccountForOneEmail
    <3> SUFFICES ASSUME NEW r \in fresh, NEW s \in fresh, claimed[r] = claimed[s],
                        claimed[r] \notin freed \cup {NoEmail}
                 PROVE  account[r] = account[s]
      BY DEF SameAccountForOneEmail
    <3>1. account[r] \in OwnersOf(claimed[r]) /\ account[s] \in OwnersOf(claimed[r])
      BY DEF IInv, ReqInv, Addressed, TypeInv, TypeOK
    <3> QED
      BY <3>1 DEF IInv, Keys, OwnersOf
  <2> QED
    BY <2>1, <2>2 DEF SignInsAgree
<1> QED
  BY <1>1, Inductive, PTL

\* A sign-in leaves an account nobody can sign in to only by a failing statement of its
\* own, a crash, an unlinking, or a request beside it that took the identity
\* (interactions.ts:233-254).
THEOREM EmptyAccountsHaveAReason == Spec => []EmptyAccountHasAReason
<1>1. IInv => EmptyAccountHasAReason
  <2> SUFFICES ASSUME IInv, NEW r \in users \cap Requests, pc[r] \in Ended,
                      \A x \in links : x.user # r,
                      pc[r] \notin {"faulted", "crashed"},
                      identity[r] \notin unlinked
               PROVE  \E s \in Requests :
                        /\ Overlap(r, s) /\ identity[s] = identity[r]
                        /\ NewLink(s) \in links
    BY DEF EmptyAccountHasAReason
  <2>1. ReqInv(r)
    BY DEF IInv
  <2>2. pc[r] # "done"
    BY <2>1 DEF ReqInv, Made, SignedIn, NewLink
  <2>3. PICK x \in LinksOf(identity[r]) : Beside(r, x)
    BY <2>1, <2>2 DEF ReqInv, Left, Ended
  <2> QED
    BY <2>3 DEF Beside, LinksOf, NewLink
<1> QED
  BY <1>1, Inductive, PTL

\* No step hands a linked identity to another account (router.ts:196-199, 270).
THEOREM LinksStay == Spec => LinkNeverMoves
<1>1. IInv /\ [Next]_vars =>
        [\A x \in links, y \in links' : x.identity = y.identity => x = y]_vars
  <2> SUFFICES ASSUME IInv, [Next]_vars,
                      NEW x \in links, NEW y \in links', x.identity = y.identity
               PROVE  x = y
    OBVIOUS
  <2>1. CASE y \in links
    BY <2>1 DEF IInv, Keys
  <2>2. CASE y \notin links
    <3>1. PICK r \in Requests : CreateLink(r)
      <4>1. \/ \E r \in Requests : CreateLink(r)
            \/ links' \subseteq links
        BY NextSteps
           DEF tables, LocalSteps, SignIn, Link, LinkVRChat, Begin, Callback, CallbackFails,
              Verify, FindLink, FindUser, Finish, CreateUser, CreateLinkFails, Unlink, DeleteUser,
              ChangeEmail, StatementFails, Crash, vars
      <4> QED
        BY <2>2, <4>1
    <3> QED
      BY <2>2, <3>1 DEF CreateLink, Accepts, NewLink, LinksOf
  <2> QED
    BY <2>1, <2>2
<1> QED
  BY <1>1, Inductive, PTL DEF Spec, LinkNeverMoves
===============================================================================
