------------------------- MODULE OidcSessions_proofs -------------------------
(***************************************************************************)
(* Proofs about OidcSessions, for every set of requests, accounts, grants  *)
(* and every choice of the row types that expire: its types, what a        *)
(* revocation removes and for good, and that whatever it misses, or a code *)
(* exchanged twice, takes requests that ran at the same time.              *)
(***************************************************************************)
EXTENDS OidcSessions, TLAPS

------------------------------------------------------------------------------
(* Typing of the table operations.                                         *)

LEMMA NewRowType ==
  ASSUME NEW type \in Types, NEW id \in Ids, NEW g \in Ids \cup {NoGrant},
         NEW u \in Accounts
  PROVE  NewRow(type, id, g, u) \in Row
  BY DEF NewRow, Row

LEMMA UpsertType ==
  ASSUME NEW T, T \subseteq Row, NEW row \in Row
  PROVE  Upsert(T, row) \subseteq Row
  BY DEF Upsert

LEMMA MarkConsumedType ==
  ASSUME NEW T, T \subseteq Row, NEW type, NEW id
  PROVE  MarkConsumed(T, type, id) \subseteq Row
<1>1. ASSUME NEW row \in Row
      PROVE  [row EXCEPT !.consumed = TRUE] \in Row
  BY DEF Row
<1> QED
  BY <1>1 DEF MarkConsumed, RowAt

LEMMA GrantsOfType ==
  ASSUME NEW T, T \subseteq Row, NEW u
  PROVE  GrantsOf(T, u) \subseteq Ids
  BY DEF GrantsOf, Row

------------------------------------------------------------------------------
(* Type correctness.  The two schemes every action is built from preserve  *)
(* it; each action then only has to give arguments of the right type.      *)

LEMMA BeginTypeOK ==
  ASSUME TypeOK, NEW r \in Requests, NEW op \in Ops, NEW u \in Accounts,
         NEW g \in Ids \cup {NoGrant}, NEW type \in Types, NEW id \in Ids,
         NEW step \in PCs, step \in GrantSteps => g \in Ids,
         Begin(r, op, u, g, type, id, step)
  PROVE  TypeOK'
<1>1. [op |-> op, account |-> u, grantId |-> g, type |-> type, id |-> id] \in Call
  BY DEF Call
<1> QED
  BY <1>1 DEF TypeOK, Begin, GrantSteps

LEMMA StatementTypeOK ==
  ASSUME TypeOK, NEW r \in Requests, NEW from, NEW to \in PCs,
         to \in GrantSteps => from \in GrantSteps,
         NEW T \in SUBSET Row, Statement(r, from, to, T)
  PROVE  TypeOK'
  BY DEF TypeOK, Statement, Goto

\* Storing a row built from the request's own arguments.
LEMMA StoreTypeOK ==
  ASSUME TypeOK, NEW r \in Requests, NEW type \in Types, NEW id \in Ids,
         NEW g \in Ids \cup {NoGrant}
  PROVE  Upsert(oidcModel, NewRow(type, id, g, call[r].account)) \in SUBSET Row
<1>1. call[r].account \in Accounts
  BY DEF TypeOK, Call
<1> QED
  BY <1>1, NewRowType, UpsertType DEF TypeOK

LEMMA InitTypeOK == Init => TypeOK
<1> SUFFICES ASSUME Init PROVE TypeOK
  OBVIOUS
<1>1. NoCall \in Call
  BY AccountsAssumption DEF NoCall, Call, Ops, Types, Ids
<1>2. ASSUME NEW G \in SUBSET OldGrants
      PROVE  SignedIn(G) \subseteq Row
  <2>1. \A u \in Accounts : NewRow("Session", u, NoGrant, u) \in Row
    BY NewRowType DEF Ids, Types
  <2>2. \A g \in G : NewRow("Grant", g, NoGrant, Owner[g]) \in Row
    BY <1>2, OwnerAssumption, NewRowType DEF Ids, Types
  <2>3. \A g \in G : NewRow("RefreshToken", g, g, Owner[g]) \in Row
    BY <1>2, OwnerAssumption, NewRowType DEF Ids, Types, TokenTypes
  <2> QED
    BY <2>1, <2>2, <2>3 DEF SignedIn
<1> QED
  BY <1>1, <1>2 DEF Init, TypeOK, PCs, GrantSteps

LEMMA ArriveTypeOK ==
  ASSUME TypeOK, NEW r \in Requests, Arrive(r)
  PROVE  TypeOK'
<1> USE DEF Ops, PCs, Types, TokenTypes, GrantSteps
<1>1. ASSUME NEW row \in oidcModel
      PROVE  /\ row.type \in Types /\ row.id \in Ids
             /\ row.grantId \in Ids \cup {NoGrant} /\ row.accountId \in Accounts
  BY DEF TypeOK, Row
<1>2. CASE Confirm(r)
  <2>1. PICK session \in oidcModel :
          \/ ConfirmNew(r, session)
          \/ \E g \in GrantsOf(oidcModel, session.accountId) :
                ConfirmExisting(r, session, g)
    BY <1>2 DEF Confirm
  <2>2. CASE ConfirmNew(r, session)
    BY <1>1, <2>2, BeginTypeOK DEF ConfirmNew, Ids
  <2>3. CASE \E g \in GrantsOf(oidcModel, session.accountId) :
               ConfirmExisting(r, session, g)
    <3>1. PICK g \in Ids : ConfirmExisting(r, session, g)
      BY <2>3, GrantsOfType DEF TypeOK
    <3> QED
      BY <1>1, <3>1, BeginTypeOK DEF ConfirmExisting
  <2> QED
    BY <2>1, <2>2, <2>3
<1>3. CASE Authorize(r)
  BY <1>1, <1>3, BeginTypeOK DEF Authorize
<1>4. CASE Redeem(r)
  <2>1. PICK token \in oidcModel :
          /\ Found(oidcModel, "Grant", token.grantId) # {}
          /\ \/ Begin(r, "redeem", token.accountId, token.grantId,
                      token.type, token.id, "consumeRead")
             \/ Begin(r, "replay", token.accountId, token.grantId,
                      token.type, token.id, "deleteTokens")
    BY <1>4 DEF Redeem
  <2>2. token.grantId \in Ids
    BY <1>1, <2>1 DEF Found, RowAt
  <2> QED
    BY <1>1, <2>1, <2>2, BeginTypeOK
<1>5. ASSUME NEW u \in Accounts, Login(r, u)
      PROVE  TypeOK'
  BY <1>5, BeginTypeOK DEF Login, Ids
<1>6. ASSUME NEW u \in Accounts, RevokeAll(r, u)
      PROVE  TypeOK'
  BY <1>6, BeginTypeOK DEF RevokeAll, Ids
<1>7. ASSUME NEW u \in Accounts, NEW g \in Ids, RevokeGrant(r, u, g)
      PROVE  TypeOK'
  BY <1>7, BeginTypeOK DEF RevokeGrant
<1> QED
  BY <1>2, <1>3, <1>4, <1>5, <1>6, <1>7 DEF Arrive

LEMMA StepTypeOK ==
  ASSUME TypeOK, NEW r \in Requests, Step(r)
  PROVE  TypeOK'
<1> USE DEF PCs, Types, TokenTypes, GrantSteps
<1>1. /\ call[r].id \in Ids
      /\ pc[r] \in GrantSteps => call[r].grantId \in Ids
      /\ r \in Ids
      /\ NoGrant \in Ids \cup {NoGrant}
  BY DEF TypeOK, Call, Ids
<1>2. oidcModel \in SUBSET Row
  BY DEF TypeOK
<1>3. CASE SaveGrant(r)
  <2>1. call[r].grantId \in Ids
    BY <1>1, <1>3 DEF SaveGrant, Statement, Goto
  <2> QED
    BY <1>1, <1>3, <2>1, StoreTypeOK, StatementTypeOK DEF SaveGrant
<1>4. CASE IssueCode(r)
  <2>1. call[r].grantId \in Ids
    BY <1>1, <1>4 DEF IssueCode, Statement, Goto
  <2> QED
    BY <1>1, <1>4, <2>1, StoreTypeOK, StatementTypeOK DEF IssueCode
<1>5. CASE SaveSession(r)
  BY <1>1, <1>5, StoreTypeOK, StatementTypeOK DEF SaveSession
<1>6. CASE ConsumeRead(r)
  BY <1>2, <1>6, StatementTypeOK DEF ConsumeRead
<1>7. CASE ConsumeWrite(r)
  BY <1>2, <1>7, MarkConsumedType, StatementTypeOK DEF ConsumeWrite
<1>8. CASE FindAccount(r)
  BY <1>2, <1>8, StatementTypeOK DEF FindAccount
<1>9. CASE IssueAccess(r)
  <2>1. call[r].grantId \in Ids
    BY <1>1, <1>9 DEF IssueAccess, Statement, Goto
  <2> QED
    BY <1>1, <1>9, <2>1, StoreTypeOK, StatementTypeOK DEF IssueAccess
<1>10. CASE IssueRefresh(r)
  <2>1. call[r].grantId \in Ids
    BY <1>1, <1>10 DEF IssueRefresh, Statement, Goto
  <2> QED
    BY <1>1, <1>10, <2>1, StoreTypeOK, StatementTypeOK DEF IssueRefresh
<1>11. CASE DeleteTokens(r)
  BY <1>2, <1>11, StatementTypeOK DEF DeleteTokens, RevokeByGrantId
<1>12. CASE DeleteGrant(r)
  BY <1>2, <1>12, StatementTypeOK DEF DeleteGrant, Destroy
<1>13. CASE FindGrants(r)
  BY <1>2, <1>13, GrantsOfType DEF FindGrants, Goto, TypeOK
<1>14. CASE DeleteTokensOf(r)
  BY <1>2, <1>14 DEF DeleteTokensOf, Goto, RevokeByGrantId, TypeOK
<1>15. CASE DeleteGrants(r)
  BY <1>2, <1>15, StatementTypeOK DEF DeleteGrants
<1>16. CASE DeleteSessions(r)
  <2>1. DeleteSessionsOf(oidcModel, call[r].account) \in SUBSET Row
    BY <1>2 DEF DeleteSessionsOf
  <2> QED
    BY <1>16, <2>1, StatementTypeOK DEF DeleteSessions
<1>17. CASE DeleteUser(r)
  BY <1>17 DEF DeleteUser, Goto, TypeOK
<1> QED
  BY <1>3, <1>4, <1>5, <1>6, <1>7, <1>8, <1>9, <1>10, <1>11, <1>12, <1>13,
     <1>14, <1>15, <1>16, <1>17 DEF Step

LEMMA TypeOKStep ==
  ASSUME TypeOK, [Next]_vars
  PROVE  TypeOK'
<1>1. ASSUME NEW r \in Requests, Arrive(r) PROVE TypeOK'
  BY <1>1, ArriveTypeOK
<1>2. ASSUME NEW r \in Requests, Step(r) PROVE TypeOK'
  BY <1>2, StepTypeOK
<1>3. CASE Expire
  <2>1. PICK row \in oidcModel :
          oidcModel' = Upsert(oidcModel, [row EXCEPT !.expired = TRUE])
    BY <1>3 DEF Expire
  <2>2. [row EXCEPT !.expired = TRUE] \in Row
    BY DEF TypeOK, Row
  <2> QED
    BY <1>3, <2>1, <2>2, UpsertType DEF Expire, TypeOK
<1>4. CASE UNCHANGED vars
  BY <1>4 DEF TypeOK, vars
<1> QED
  BY <1>1, <1>2, <1>3, <1>4 DEF Next, AllAnswered

\* Every column holds a value of its type and every request at a step that
\* names a grant has one, whatever the requests and their order.
THEOREM TypeCorrect == Spec => []TypeOK
<1>1. TypeOK /\ [Next]_vars => TypeOK'
  BY TypeOKStep
<1> QED
  BY InitTypeOK, <1>1, PTL DEF Spec

------------------------------------------------------------------------------
(* What one step does to the other requests and to the rows of the table.  *)

LEMMA OthersUnchanged ==
  ASSUME TypeOK, NEW x \in Requests, Arrive(x) \/ Step(x),
         NEW r \in Requests, r # x
  PROVE  /\ pc'[r] = pc[r] /\ call'[r] = call[r] /\ prior'[r] = prior[r]
         /\ grants'[r] = grants[r] /\ todo'[r] = todo[r]
<1>1. CASE Arrive(x)
  BY <1>1 DEF Arrive, Confirm, ConfirmNew, ConfirmExisting, Authorize, Redeem,
     Login, RevokeAll, RevokeGrant, Begin, TypeOK
<1>2. CASE Step(x)
  BY <1>2 DEF Step, SaveGrant, IssueCode, SaveSession, ConsumeRead,
     ConsumeWrite, FindAccount, IssueAccess, IssueRefresh, DeleteTokens,
     DeleteGrant, FindGrants, DeleteTokensOf, DeleteGrants, DeleteSessions,
     DeleteUser, Statement, Goto, TypeOK
<1> QED
  BY <1>1, <1>2

MintSteps == {"issueCode", "issueAccess", "issueRefresh"}

\* Rows that carry over: the key and the columns a step never rewrites, and what
\* was consumed remains so.
SameToken(row, old) ==
  /\ old.type = row.type /\ old.id = row.id
  /\ old.grantId = row.grantId /\ old.accountId = row.accountId
  /\ old.consumed => row.consumed

Minted(row, x) ==
  /\ \/ pc[x] = "issueCode" /\ pc'[x] = "saveSession" /\ row.type = "AuthorizationCode"
     \/ pc[x] = "issueAccess" /\ pc'[x] = "issueRefresh" /\ row.type = "AccessToken"
     \/ pc[x] = "issueRefresh" /\ pc'[x] = "done" /\ row.type = "RefreshToken"
  /\ row.id = x
  /\ row.grantId = call[x].grantId /\ row.accountId = call[x].account

Saved(row, x) ==
  \/ /\ pc[x] = "saveGrant" /\ row.type = "Grant" /\ row.id = call[x].grantId
     /\ row.grantId = NoGrant /\ row.accountId = call[x].account
  \/ /\ pc[x] = "saveSession" /\ pc'[x] = "done" /\ row.type = "Session"
     /\ row.id = call[x].id /\ row.grantId = NoGrant /\ row.accountId = call[x].account

LEMMA UpsertRows ==
  ASSUME NEW T, NEW new, NEW row \in Upsert(T, new)
  PROVE  row \in T \/ row = new
  BY DEF Upsert

LEMMA MarkConsumedRows ==
  ASSUME NEW T, T \subseteq Row, NEW type, NEW id,
         NEW row \in MarkConsumed(T, type, id)
  PROVE  \E old \in T : SameToken(row, old)
<1>1. ASSUME NEW old \in T PROVE SameToken([old EXCEPT !.consumed = TRUE], old)
  BY DEF SameToken, Row
<1>2. row \in T => SameToken(row, row)
  BY DEF SameToken
<1> QED
  BY <1>1, <1>2 DEF MarkConsumed, RowAt

\* A row was there before the step, or a request mints it or saves it.
LEMMA StoredRows ==
  ASSUME TypeOK, [Next]_vars, NEW row \in oidcModel'
  PROVE  \/ \E old \in oidcModel : SameToken(row, old)
         \/ \E x \in Requests : Minted(row, x) \/ Saved(row, x)
<1>1. row \in oidcModel => \E old \in oidcModel : SameToken(row, old)
  BY DEF SameToken
<1>2. ASSUME NEW x \in Requests, Arrive(x)
      PROVE  row \in oidcModel
  BY <1>2 DEF Arrive, Confirm, ConfirmNew, ConfirmExisting, Authorize, Redeem,
     Login, RevokeAll, RevokeGrant, Begin
<1>3. ASSUME NEW x \in Requests, Step(x)
      PROVE  \/ \E old \in oidcModel : SameToken(row, old)
             \/ Minted(row, x) \/ Saved(row, x)
  <2>1. CASE SaveGrant(x) \/ SaveSession(x)
    BY <1>1, <2>1, UpsertRows
       DEF SaveGrant, SaveSession, Statement, Goto, NewRow, Saved, TypeOK
  <2>2. CASE IssueCode(x) \/ IssueAccess(x) \/ IssueRefresh(x)
    BY <1>1, <2>2, UpsertRows DEF IssueCode, IssueAccess, IssueRefresh,
       Statement, Goto, NewRow, Minted, MintSteps, TokenTypes, TypeOK
  <2>3. CASE ConsumeWrite(x)
    BY <2>3, MarkConsumedRows DEF ConsumeWrite, Statement, TypeOK
  <2>4. CASE \/ ConsumeRead(x) \/ FindAccount(x) \/ DeleteTokens(x)
             \/ DeleteGrant(x) \/ FindGrants(x) \/ DeleteTokensOf(x)
             \/ DeleteGrants(x) \/ DeleteSessions(x) \/ DeleteUser(x)
    <3>1. row \in oidcModel
      BY <2>4 DEF ConsumeRead, FindAccount, DeleteTokens, DeleteGrant,
         FindGrants, DeleteTokensOf, DeleteGrants, DeleteSessions, DeleteUser,
         Statement, RevokeByGrantId, Destroy, DeleteSessionsOf
    <3> QED
      BY <1>1, <3>1
  <2> QED
    BY <1>3, <2>1, <2>2, <2>3, <2>4 DEF Step
<1>4. CASE Expire
  <2>1. PICK old \in oidcModel :
          oidcModel' = Upsert(oidcModel, [old EXCEPT !.expired = TRUE])
    BY <1>4 DEF Expire
  <2>2. SameToken([old EXCEPT !.expired = TRUE], old)
    BY DEF SameToken, TypeOK, Row
  <2> QED
    BY <1>1, <2>1, <2>2, UpsertRows
<1>5. CASE UNCHANGED vars
  BY <1>1, <1>5 DEF vars
<1> QED
  BY <1>1, <1>2, <1>3, <1>4, <1>5 DEF Next, AllAnswered

------------------------------------------------------------------------------
(* The inductive invariant.                                                *)

\* prior holds answered requests only, and an answered request stays answered.
PriorAnswered == \A r \in Requests : \A x \in prior[r] : pc[x] \in Answered

\* A request that has not arrived has read nothing.
FreshRequests ==
  \A r \in Requests : pc[r] = "idle" => call[r].op = "none" /\ grants[r] = {}

\* A revocation of one grant is at one of its steps and names that grant.
RevocationSteps ==
  \A r \in Requests : call[r].op \in {"revokeGrant", "replay"} =>
    /\ call[r].grantId \in Ids
    /\ pc[r] \in {"deleteTokens", "deleteGrant", "done"}

\* Account u gave grant g: it is an old grant of u, or a request of u minted it.
GaveGrant(g, u) ==
  \/ g \in OldGrants /\ Owner[g] = u
  \/ g \in Requests /\ pc[g] # "idle" /\ call[g].account = u

Ownership ==
  /\ \A row \in oidcModel :
       /\ row.grantId # NoGrant => GaveGrant(row.grantId, row.accountId)
       /\ row.type = "Grant" => GaveGrant(row.id, row.accountId)
       /\ row.type \in TokenTypes => row.grantId # NoGrant
  /\ \A r \in Requests :
       /\ call[r].grantId # NoGrant => GaveGrant(call[r].grantId, call[r].account)
       /\ \A g \in grants[r] : GaveGrant(g, call[r].account)
       /\ todo[r] \subseteq grants[r]

IInv ==
  /\ TypeOK
  /\ PriorAnswered
  /\ FreshRequests
  /\ RevocationSteps
  /\ Ownership
  /\ NothingEarlierSurvives

LEMMA InitIInv == Init => IInv
<1> SUFFICES ASSUME Init PROVE IInv
  OBVIOUS
<1>1. TypeOK
  BY InitTypeOK
<1>2. PriorAnswered /\ FreshRequests /\ RevocationSteps
  BY DEF Init, PriorAnswered, FreshRequests, RevocationSteps, NoCall
<1>3. Ownership
  <2>1. PICK G \in SUBSET OldGrants : oidcModel = SignedIn(G)
    BY DEF Init
  <2>2. ASSUME NEW row \in oidcModel
        PROVE  /\ row.grantId # NoGrant => GaveGrant(row.grantId, row.accountId)
               /\ row.type = "Grant" => GaveGrant(row.id, row.accountId)
               /\ row.type \in TokenTypes => row.grantId # NoGrant
    BY <2>1, <2>2, NamesAssumption DEF SignedIn, NewRow, GaveGrant, TokenTypes, Ids
  <2> QED
    BY <2>2 DEF Init, Ownership, NoCall
<1>4. NothingEarlierSurvives
  BY DEF Init, NothingEarlierSurvives, Revoked, NoCall, RevokeAllOps
<1> QED
  BY <1>1, <1>2, <1>3, <1>4 DEF IInv

\* Steps only move an answered request nowhere and an arrived one forward.
LEMMA CallsAreFixed ==
  ASSUME TypeOK, [Next]_vars, NEW r \in Requests, pc[r] # "idle"
  PROVE  /\ pc'[r] # "idle" /\ call'[r] = call[r] /\ prior'[r] = prior[r]
         /\ pc[r] \in Answered => pc'[r] = pc[r]
<1>1. ASSUME NEW x \in Requests, Arrive(x) \/ Step(x), x # r
      PROVE  pc'[r] = pc[r] /\ call'[r] = call[r] /\ prior'[r] = prior[r]
  BY <1>1, OthersUnchanged
<1>2. ~Arrive(r)
  BY DEF Arrive, Confirm, ConfirmNew, ConfirmExisting, Authorize, Redeem,
     Login, RevokeAll, RevokeGrant, Begin
<1>3. ASSUME Step(r)
      PROVE  /\ pc'[r] # "idle" /\ call'[r] = call[r] /\ prior'[r] = prior[r]
             /\ pc[r] \notin Answered
  BY <1>3 DEF Step, SaveGrant, IssueCode, SaveSession, ConsumeRead,
     ConsumeWrite, FindAccount, IssueAccess, IssueRefresh, DeleteTokens,
     DeleteGrant, FindGrants, DeleteTokensOf, DeleteGrants, DeleteSessions,
     DeleteUser, Statement, Goto, TypeOK, Answered
<1>4. CASE Expire \/ UNCHANGED vars
  BY <1>4 DEF Expire, vars
<1> QED
  BY <1>1, <1>2, <1>3, <1>4 DEF Next, AllAnswered

\* The arguments a request arrives with.
LEMMA NewCalls ==
  ASSUME IInv, NEW r \in Requests, Arrive(r)
  PROVE  /\ pc[r] = "idle" /\ pc'[r] \notin Answered \cup {"idle"}
         /\ oidcModel' = oidcModel /\ grants' = grants /\ todo' = todo
         /\ prior'[r] = {x \in Requests : pc[x] \in Answered}
         /\ call'[r].grantId = r
              \/ (call'[r].grantId # NoGrant
                    => GaveGrant(call'[r].grantId, call'[r].account))
         /\ call'[r].op \in {"revokeGrant", "replay"}
              => call'[r].grantId \in Ids /\ pc'[r] = "deleteTokens"
         /\ call'[r].op # "none"
<1> USE DEF Begin, Answered, IInv, TypeOK
<1>1. CASE Confirm(r)
  BY <1>1 DEF Confirm, ConfirmNew, ConfirmExisting, Found, RowAt, Ownership
<1>2. CASE Authorize(r)
  BY <1>2 DEF Authorize, Found, RowAt, Ownership
<1>3. CASE Redeem(r)
  BY <1>3 DEF Redeem, Found, RowAt, Ownership, Row, TokenTypes
<1>4. CASE \E u \in Accounts : Login(r, u) \/ RevokeAll(r, u)
  BY <1>4 DEF Login, RevokeAll
<1>5. CASE \E u \in Accounts, g \in Ids : RevokeGrant(r, u, g)
  BY <1>5 DEF RevokeGrant, OwnGrant, RowAt, Ownership
<1> QED
  BY <1>1, <1>2, <1>3, <1>4, <1>5 DEF Arrive

LEMMA PriorAnsweredStep ==
  ASSUME IInv, [Next]_vars
  PROVE  PriorAnswered'
<1> SUFFICES ASSUME NEW r \in Requests, NEW x \in prior'[r]
             PROVE  pc'[x] \in Answered
  BY DEF PriorAnswered
<1>1. x \in Requests
  <2>1. TypeOK'
    BY TypeOKStep DEF IInv
  <2> QED
    BY <2>1 DEF TypeOK
<1>2. pc[x] \in Answered
  <2>1. CASE pc[r] # "idle"
    BY <2>1, CallsAreFixed DEF IInv, PriorAnswered
  <2>2. CASE pc[r] = "idle" /\ Arrive(r)
    BY <2>2, NewCalls
  <2>3. CASE pc[r] = "idle" /\ ~Arrive(r)
    <3>1. ~Step(r)
      BY <2>3 DEF Step, SaveGrant, IssueCode, SaveSession, ConsumeRead,
         ConsumeWrite, FindAccount, IssueAccess, IssueRefresh, DeleteTokens,
         DeleteGrant, FindGrants, DeleteTokensOf, DeleteGrants, DeleteSessions,
         DeleteUser, Statement, Goto
    <3>2. prior'[r] = prior[r]
      BY <2>3, <3>1, OthersUnchanged DEF Next, AllAnswered, Expire, vars, IInv
    <3> QED
      BY <3>2 DEF IInv, PriorAnswered
  <2> QED
    BY <2>1, <2>2, <2>3
<1> QED
  BY <1>1, <1>2, CallsAreFixed DEF IInv, Answered

LEMMA FreshRequestsStep ==
  ASSUME IInv, [Next]_vars
  PROVE  FreshRequests' /\ RevocationSteps'
<1> SUFFICES ASSUME NEW r \in Requests
             PROVE  /\ pc'[r] = "idle" => call'[r].op = "none" /\ grants'[r] = {}
                    /\ call'[r].op \in {"revokeGrant", "replay"} =>
                         /\ call'[r].grantId \in Ids
                         /\ pc'[r] \in {"deleteTokens", "deleteGrant", "done"}
  BY DEF FreshRequests, RevocationSteps
<1> USE DEF IInv
<1>1. CASE Arrive(r)
  BY <1>1, NewCalls
<1>2. CASE Step(r)
  <2>1. pc[r] # "idle"
    BY <1>2 DEF Step, SaveGrant, IssueCode, SaveSession, ConsumeRead,
       ConsumeWrite, FindAccount, IssueAccess, IssueRefresh, DeleteTokens,
       DeleteGrant, FindGrants, DeleteTokensOf, DeleteGrants, DeleteSessions,
       DeleteUser, Statement, Goto
  <2>2. pc'[r] # "idle" /\ call'[r] = call[r]
    BY <2>1, CallsAreFixed
  <2>3. ASSUME call[r].op \in {"revokeGrant", "replay"}
        PROVE  pc'[r] \in {"deleteTokens", "deleteGrant", "done"}
    BY <1>2, <2>3 DEF RevocationSteps, Step, SaveGrant, IssueCode, SaveSession,
       ConsumeRead, ConsumeWrite, FindAccount, IssueAccess, IssueRefresh,
       DeleteTokens, DeleteGrant, FindGrants, DeleteTokensOf, DeleteGrants,
       DeleteSessions, DeleteUser, Statement, Goto, TypeOK
  <2> QED
    BY <2>2, <2>3 DEF RevocationSteps
<1>3. CASE \E x \in Requests : x # r /\ (Arrive(x) \/ Step(x))
  BY <1>3, OthersUnchanged DEF FreshRequests, RevocationSteps
<1>4. CASE Expire \/ UNCHANGED vars
  BY <1>4 DEF Expire, vars, FreshRequests, RevocationSteps
<1> QED
  BY <1>1, <1>2, <1>3, <1>4 DEF Next, AllAnswered

\* Who gave a grant never changes.
LEMMA GaveGrantStable ==
  ASSUME TypeOK, [Next]_vars, NEW g, NEW u, GaveGrant(g, u)
  PROVE  GaveGrant(g, u)'
  BY CallsAreFixed DEF GaveGrant

\* A grant is one account's.
LEMMA GaveGrantUnique ==
  ASSUME NEW g, NEW u, NEW v, GaveGrant(g, u), GaveGrant(g, v)
  PROVE  u = v
  BY NamesAssumption DEF GaveGrant

\* The grants a request holds after a step were its own or its account's.
LEMMA GrantsStep ==
  ASSUME TypeOK, [Next]_vars, NEW r \in Requests, NEW g \in grants'[r]
  PROVE  \/ g \in grants[r]
         \/ /\ pc[r] = "findGrants"
            /\ g \in GrantsOf(oidcModel, call[r].account)
            /\ oidcModel' = oidcModel
<1>1. CASE FindGrants(r)
  BY <1>1 DEF FindGrants, Goto, TypeOK
<1>2. CASE Arrive(r)
  BY <1>2 DEF Arrive, Confirm, ConfirmNew, ConfirmExisting, Authorize, Redeem,
     Login, RevokeAll, RevokeGrant, Begin
<1>3. CASE Step(r) /\ ~FindGrants(r)
  BY <1>3 DEF Step, SaveGrant, IssueCode, SaveSession, ConsumeRead,
     ConsumeWrite, FindAccount, IssueAccess, IssueRefresh, DeleteTokens,
     DeleteGrant, DeleteTokensOf, DeleteGrants, DeleteSessions, DeleteUser,
     Statement
<1>4. CASE \E x \in Requests : x # r /\ (Arrive(x) \/ Step(x))
  BY <1>4, OthersUnchanged
<1>5. CASE Expire \/ UNCHANGED vars
  BY <1>5 DEF Expire, vars
<1> QED
  BY <1>1, <1>2, <1>3, <1>4, <1>5 DEF Next, AllAnswered

LEMMA OwnershipStep ==
  ASSUME IInv, [Next]_vars
  PROVE  Ownership'
<1> USE DEF IInv
<1>1. ASSUME NEW row \in oidcModel'
      PROVE  /\ row.grantId # NoGrant => GaveGrant(row.grantId, row.accountId)'
             /\ row.type = "Grant" => GaveGrant(row.id, row.accountId)'
             /\ row.type \in TokenTypes => row.grantId # NoGrant
  <2>1. ASSUME NEW old \in oidcModel, SameToken(row, old)
        PROVE  /\ row.grantId # NoGrant => GaveGrant(row.grantId, row.accountId)
               /\ row.type = "Grant" => GaveGrant(row.id, row.accountId)
               /\ row.type \in TokenTypes => row.grantId # NoGrant
    BY <2>1 DEF SameToken, Ownership
  <2>2. ASSUME NEW x \in Requests, Minted(row, x) \/ Saved(row, x)
        PROVE  /\ row.grantId # NoGrant => GaveGrant(row.grantId, row.accountId)
               /\ row.type = "Grant" => GaveGrant(row.id, row.accountId)
               /\ row.type \in TokenTypes => row.grantId # NoGrant
    <3>1. pc[x] \in GrantSteps => call[x].grantId # NoGrant
      BY NamesAssumption DEF TypeOK
    <3>2. CASE Minted(row, x)
      BY <3>1, <3>2 DEF Minted, MintSteps, GrantSteps, TokenTypes, Ownership
    <3>3. CASE Saved(row, x)
      BY <3>1, <3>3 DEF Saved, GrantSteps, TokenTypes, Ownership
    <3> QED
      BY <2>2, <3>2, <3>3
  <2>3. /\ row.grantId # NoGrant => GaveGrant(row.grantId, row.accountId)
        /\ row.type = "Grant" => GaveGrant(row.id, row.accountId)
        /\ row.type \in TokenTypes => row.grantId # NoGrant
    BY <2>1, <2>2, StoredRows
  <2>4. \A g, u : GaveGrant(g, u) => GaveGrant(g, u)'
    BY GaveGrantStable
  <2> QED
    BY <2>3, <2>4
<1>2. ASSUME NEW r \in Requests
      PROVE  call'[r].grantId # NoGrant
               => GaveGrant(call[r].grantId, call[r].account)'
  <2>1. CASE Arrive(r)
    <3>1. CASE call'[r].grantId = r
      BY <2>1, <3>1, NewCalls DEF GaveGrant
    <3>2. CASE call'[r].grantId # r /\ call'[r].grantId # NoGrant
      <4>1. GaveGrant(call'[r].grantId, call'[r].account)
        BY <2>1, <3>2, NewCalls
      <4>2. \A h, v : GaveGrant(h, v) =>
              \/ h \in OldGrants /\ Owner[h] = v
              \/ h \in Requests /\ pc'[h] # "idle" /\ call'[h].account = v
        BY CallsAreFixed DEF GaveGrant
      <4> QED
        BY <4>1, <4>2 DEF GaveGrant
    <3> QED
      BY <3>1, <3>2
  <2>2. CASE ~Arrive(r)
    <3>1. call'[r] = call[r]
      <4>1. CASE Step(r)
        BY <4>1 DEF Step, SaveGrant, IssueCode, SaveSession, ConsumeRead,
           ConsumeWrite, FindAccount, IssueAccess, IssueRefresh, DeleteTokens,
           DeleteGrant, FindGrants, DeleteTokensOf, DeleteGrants,
           DeleteSessions, DeleteUser, Statement, Goto
      <4> QED
        BY <2>2, <4>1, OthersUnchanged DEF Next, AllAnswered, Expire, vars
    <3>2. call[r].grantId # NoGrant => GaveGrant(call[r].grantId, call[r].account)
      BY DEF Ownership
    <3>3. \A h, v : GaveGrant(h, v) =>
            \/ h \in OldGrants /\ Owner[h] = v
            \/ h \in Requests /\ pc'[h] # "idle" /\ call'[h].account = v
      BY CallsAreFixed DEF GaveGrant
    <3> QED
      BY <3>1, <3>2, <3>3 DEF GaveGrant
  <2> QED
    BY <2>1, <2>2
<1>3. ASSUME NEW r \in Requests, NEW g \in grants'[r]
      PROVE  GaveGrant(g, call[r].account)'
  <2>1. pc[r] # "idle"
    BY GrantsStep DEF FreshRequests
  <2>2. GaveGrant(g, call[r].account)
    BY GrantsStep DEF GrantsOf, Ownership
  <2>3. call'[r] = call[r]
    BY <2>1, CallsAreFixed
  <2>4. \/ g \in OldGrants /\ Owner[g] = call[r].account
        \/ g \in Requests /\ pc'[g] # "idle" /\ call'[g].account = call[r].account
    BY <2>2, CallsAreFixed DEF GaveGrant
  <2> QED
    BY <2>3, <2>4 DEF GaveGrant
<1>4. ASSUME NEW r \in Requests
      PROVE  todo'[r] \subseteq grants'[r]
  <2>1. CASE Arrive(r)
    BY <2>1, NewCalls DEF Ownership
  <2>2. CASE Step(r)
    BY <2>2 DEF Step, SaveGrant, IssueCode, SaveSession, ConsumeRead,
       ConsumeWrite, FindAccount, IssueAccess, IssueRefresh, DeleteTokens,
       DeleteGrant, FindGrants, DeleteTokensOf, DeleteGrants, DeleteSessions,
       DeleteUser, Statement, Goto, Ownership, TypeOK
  <2> QED
    BY <2>1, <2>2, OthersUnchanged
       DEF Next, AllAnswered, Expire, vars, Ownership
<1> QED
  BY <1>1, <1>2, <1>3, <1>4 DEF Ownership

\* A grant becomes revoked in a step that leaves no row under it.
LEMMA RevokedStep ==
  ASSUME IInv, [Next]_vars, NEW r \in Requests, NEW g \in Revoked(r)'
  PROVE  \/ g \in Revoked(r)
         \/ \A row \in oidcModel' : row.grantId # g
<1> USE DEF IInv, Revoked, RevokeAllOps
<1>1. CASE Arrive(r)
  BY <1>1, NewCalls DEF FreshRequests
<1>2. CASE Step(r)
  <2>1. pc[r] # "idle" /\ call'[r] = call[r]
    <3>1. pc[r] # "idle"
      BY <1>2 DEF Step, SaveGrant, IssueCode, SaveSession, ConsumeRead,
         ConsumeWrite, FindAccount, IssueAccess, IssueRefresh, DeleteTokens,
         DeleteGrant, FindGrants, DeleteTokensOf, DeleteGrants, DeleteSessions,
         DeleteUser, Statement, Goto
    <3> QED
      BY <3>1, CallsAreFixed
  <2>2. CASE call[r].op \in {"revokeGrant", "replay"}
    <3>1. CASE DeleteTokens(r)
      BY <2>1, <2>2, <3>1 DEF DeleteTokens, Statement, Goto, RevokeByGrantId
    <3>2. CASE DeleteGrant(r)
      BY <2>1, <2>2, <3>2 DEF DeleteGrant, Statement, Goto
    <3>3. pc[r] \in {"deleteTokens", "deleteGrant", "done"}
      BY <2>2 DEF RevocationSteps
    <3> QED
      BY <1>2, <3>1, <3>2, <3>3 DEF Step, SaveGrant, IssueCode, SaveSession,
         ConsumeRead, ConsumeWrite, FindAccount, IssueAccess, IssueRefresh,
         FindGrants, DeleteTokensOf, DeleteGrants, DeleteSessions, DeleteUser,
         Statement, Goto
  <2>3. CASE call[r].op \in RevokeAllOps
    <3>1. CASE FindGrants(r)
      BY <2>1, <2>3, <3>1 DEF FindGrants, TypeOK
    <3>2. CASE DeleteTokensOf(r)
      BY <2>1, <2>3, <3>2 DEF DeleteTokensOf, RevokeByGrantId, TypeOK
    <3>3. CASE ~FindGrants(r) /\ ~DeleteTokensOf(r)
      <4>1. grants'[r] = grants[r] /\ todo'[r] = todo[r]
        BY <1>2, <3>3 DEF Step, SaveGrant, IssueCode, SaveSession, ConsumeRead,
           ConsumeWrite, FindAccount, IssueAccess, IssueRefresh, DeleteTokens,
           DeleteGrant, DeleteGrants, DeleteSessions, DeleteUser, Statement
      <4> QED
        BY <2>1, <2>3, <4>1
    <3> QED
      BY <3>1, <3>2, <3>3
  <2> QED
    BY <2>1, <2>2, <2>3
<1>3. CASE \E x \in Requests : x # r /\ (Arrive(x) \/ Step(x))
  BY <1>3, OthersUnchanged
<1>4. CASE Expire \/ UNCHANGED vars
  BY <1>4 DEF Expire, vars
<1> QED
  BY <1>1, <1>2, <1>3, <1>4 DEF Next, AllAnswered

LEMMA RevokedAreGrants ==
  ASSUME IInv, NEW r \in Requests, NEW g \in Revoked(r)
  PROVE  g \in Ids /\ pc[r] # "idle"
<1>1. CASE call[r].op \in {"revokeGrant", "replay"}
  BY <1>1 DEF IInv, Revoked, RevocationSteps
<1>2. CASE call[r].op \in RevokeAllOps
  BY <1>2 DEF IInv, Revoked, FreshRequests, TypeOK, RevokeAllOps
<1> QED
  BY <1>1, <1>2 DEF Revoked

LEMMA NothingEarlierStep ==
  ASSUME IInv, [Next]_vars
  PROVE  NothingEarlierSurvives'
<1> SUFFICES ASSUME NEW r \in Requests, NEW row \in oidcModel',
                    row.grantId \in Revoked(r)'
             PROVE  row.id \notin EarlierIds(r)'
  BY DEF NothingEarlierSurvives
<1>1. row.grantId \in Revoked(r)
  BY RevokedStep
<1>2. row.grantId # NoGrant /\ pc[r] # "idle"
  BY <1>1, RevokedAreGrants, NamesAssumption
<1>3. EarlierIds(r)' = EarlierIds(r)
  BY <1>2, CallsAreFixed DEF EarlierIds, IInv
<1>4. ASSUME NEW old \in oidcModel, SameToken(row, old)
      PROVE  row.id \notin EarlierIds(r)
  BY <1>1, <1>4 DEF SameToken, IInv, NothingEarlierSurvives
<1>5. ASSUME NEW x \in Requests, Minted(row, x)
      PROVE  row.id \notin EarlierIds(r)
  BY <1>5, NamesAssumption
     DEF Minted, MintSteps, IInv, PriorAnswered, Answered, EarlierIds
<1>6. ASSUME NEW x \in Requests
      PROVE  ~Saved(row, x)
  BY <1>2 DEF Saved
<1> QED
  BY <1>3, <1>4, <1>5, <1>6, StoredRows DEF IInv

LEMMA InductiveStep ==
  ASSUME IInv, [Next]_vars
  PROVE  IInv'
  BY TypeOKStep, PriorAnsweredStep, FreshRequestsStep, OwnershipStep,
     NothingEarlierStep DEF IInv

THEOREM Inductive == Spec => []IInv
<1>1. IInv /\ [Next]_vars => IInv'
  BY InductiveStep
<1> QED
  BY InitIInv, <1>1, PTL DEF Spec

------------------------------------------------------------------------------
(* The theorems.                                                           *)

\* Revocation is complete with respect to the past: no token or code that an
\* answered request issued under a revoked grant is in the table again, however
\* many refreshes, consents and other revocations are running.
THEOREM RevocationReachesThePast == Spec => []NothingEarlierSurvives
<1>1. IInv => NothingEarlierSurvives
  BY DEF IInv
<1> QED
  BY Inductive, <1>1, PTL

\* A deleted token is never stored again.
THEOREM DeletionIsFinal == Spec => DeletedTokensStayDeleted
<1>1. IInv /\ [Next]_vars =>
        [\A id \in Ids :
           (id \in Requests => pc[id] \in Answered) =>
             TokenKeys(oidcModel', id) \subseteq TokenKeys(oidcModel, id)]_vars
  <2> SUFFICES ASSUME IInv, [Next]_vars, NEW id \in Ids,
                      id \in Requests => pc[id] \in Answered,
                      NEW row \in oidcModel', row.id = id, row.type \in TokenTypes
               PROVE  row.type \in TokenKeys(oidcModel, id)
    BY DEF TokenKeys
  <2>1. ASSUME NEW old \in oidcModel, SameToken(row, old)
        PROVE  row.type \in TokenKeys(oidcModel, id)
    BY <2>1 DEF SameToken, TokenKeys
  <2>2. ASSUME NEW x \in Requests
        PROVE  ~Minted(row, x) /\ ~Saved(row, x)
    BY <2>2 DEF Minted, MintSteps, Saved, Answered, TokenTypes
  <2> QED
    BY <2>1, <2>2, StoredRows DEF IInv
<1> QED
  BY Inductive, <1>1, PTL DEF Spec, DeletedTokensStayDeleted

\* A key stays when the step stores, consumes or expires a row.
LEMMA UpsertKeepsKeys ==
  ASSUME NEW T, NEW new, NEW row \in T
  PROVE  RowAt(Upsert(T, new), row.type, row.id) # {}
<1>1. CASE row.type = new.type /\ row.id = new.id
  BY <1>1 DEF Upsert, RowAt
<1>2. CASE ~(row.type = new.type /\ row.id = new.id)
  BY <1>2 DEF Upsert, RowAt
<1> QED
  BY <1>1, <1>2

LEMMA MarkConsumedKeepsKeys ==
  ASSUME NEW T, T \subseteq Row, NEW type, NEW id, NEW row \in T
  PROVE  RowAt(MarkConsumed(T, type, id), row.type, row.id) # {}
<1>1. CASE row \in RowAt(T, type, id)
  <2> DEFINE new == [row EXCEPT !.consumed = TRUE]
  <2>1. new.type = row.type /\ new.id = row.id
    BY DEF Row
  <2>2. new \in MarkConsumed(T, type, id)
    BY <1>1 DEF MarkConsumed
  <2> QED
    BY <2>1, <2>2 DEF RowAt
<1>2. CASE row \notin RowAt(T, type, id)
  BY <1>2 DEF MarkConsumed, RowAt
<1> QED
  BY <1>1, <1>2

\* Revocation is confined: the rows a step removes are the requester's own.
THEOREM RevocationIsConfined == Spec => OnlyOwnRowsRevoked
<1>1. IInv /\ [Next]_vars =>
        [\A row \in oidcModel :
           RowAt(oidcModel', row.type, row.id) = {} =>
             \E r \in Requests :
               /\ pc'[r] # pc[r] \/ todo'[r] # todo[r]
               /\ call[r].account = row.accountId]_vars
  <2> SUFFICES ASSUME IInv, [Next]_vars, NEW row \in oidcModel,
                      RowAt(oidcModel', row.type, row.id) = {}
               PROVE  \E r \in Requests :
                        /\ pc'[r] # pc[r] \/ todo'[r] # todo[r]
                        /\ call[r].account = row.accountId
    OBVIOUS
  <2> USE DEF IInv
  <2>1. row \notin oidcModel'
    BY DEF RowAt
  <2>2. ASSUME NEW r \in Requests, Step(r)
        PROVE  /\ pc'[r] # pc[r] \/ todo'[r] # todo[r]
               /\ call[r].account = row.accountId
    <3>1. ~(SaveGrant(r) \/ IssueCode(r) \/ SaveSession(r) \/ IssueAccess(r)
              \/ IssueRefresh(r))
      BY UpsertKeepsKeys DEF SaveGrant, IssueCode, SaveSession, IssueAccess,
         IssueRefresh, Statement
    <3>2. ~ConsumeWrite(r)
      BY MarkConsumedKeepsKeys DEF ConsumeWrite, Statement, TypeOK
    <3>3. ~(ConsumeRead(r) \/ FindAccount(r) \/ FindGrants(r) \/ DeleteUser(r))
      BY <2>1 DEF ConsumeRead, FindAccount, FindGrants, DeleteUser, Statement
    <3>4. CASE DeleteTokens(r)
      <4>1. row.grantId = call[r].grantId
        BY <2>1, <3>4 DEF DeleteTokens, Statement, RevokeByGrantId
      <4>2. call[r].grantId # NoGrant
        BY <3>4, NamesAssumption
           DEF DeleteTokens, Statement, Goto, TypeOK, GrantSteps
      <4>3. GaveGrant(row.grantId, row.accountId)
              /\ GaveGrant(row.grantId, call[r].account)
        BY <4>1, <4>2 DEF Ownership
      <4>4. pc'[r] # pc[r]
        BY <3>4 DEF DeleteTokens, Statement, Goto, TypeOK
      <4> QED
        BY <4>3, <4>4, GaveGrantUnique
    <3>5. CASE DeleteGrant(r)
      <4>1. row.type = "Grant" /\ row.id = call[r].grantId
        BY <2>1, <3>5 DEF DeleteGrant, Statement, Destroy, RowAt
      <4>2. call[r].grantId # NoGrant
        BY <3>5, NamesAssumption
           DEF DeleteGrant, Statement, Goto, TypeOK, GrantSteps
      <4>3. GaveGrant(row.id, row.accountId) /\ GaveGrant(row.id, call[r].account)
        BY <4>1, <4>2 DEF Ownership
      <4>4. pc'[r] # pc[r]
        BY <3>5 DEF DeleteGrant, Statement, Goto, TypeOK
      <4> QED
        BY <4>3, <4>4, GaveGrantUnique
    <3>6. CASE DeleteTokensOf(r)
      <4>1. PICK g \in todo[r] : /\ oidcModel' = RevokeByGrantId(oidcModel, g)
                                 /\ todo' = [todo EXCEPT ![r] = @ \ {g}]
        BY <3>6 DEF DeleteTokensOf
      <4>2. g \in Ids /\ row.grantId = g
        BY <2>1, <4>1 DEF RevokeByGrantId, TypeOK
      <4>3. GaveGrant(g, row.accountId) /\ GaveGrant(g, call[r].account)
        BY <4>1, <4>2, NamesAssumption DEF Ownership
      <4>4. todo'[r] # todo[r]
        BY <4>1 DEF TypeOK
      <4> QED
        BY <4>3, <4>4, GaveGrantUnique
    <3>7. CASE DeleteGrants(r)
      <4>1. row.type = "Grant" /\ row.id \in grants[r]
        BY <2>1, <3>7 DEF DeleteGrants, Statement
      <4>2. GaveGrant(row.id, row.accountId) /\ GaveGrant(row.id, call[r].account)
        BY <4>1 DEF Ownership
      <4>3. pc'[r] # pc[r]
        BY <3>7 DEF DeleteGrants, Statement, Goto, TypeOK
      <4> QED
        BY <4>2, <4>3, GaveGrantUnique
    <3>8. CASE DeleteSessions(r)
      BY <2>1, <3>8
         DEF DeleteSessions, DeleteSessionsOf, Statement, Goto, TypeOK
    <3> QED
      BY <2>2, <3>1, <3>2, <3>3, <3>4, <3>5, <3>6, <3>7, <3>8 DEF Step
  <2>3. ASSUME NEW r \in Requests
        PROVE  ~Arrive(r)
    BY <2>1, NewCalls
  <2>4. ~Expire
    BY UpsertKeepsKeys DEF Expire
  <2>5. ~UNCHANGED vars
    BY <2>1 DEF vars
  <2> QED
    BY <2>2, <2>3, <2>4, <2>5 DEF Next, AllAnswered
<1> QED
  BY Inductive, <1>1, PTL DEF Spec, OnlyOwnRowsRevoked

------------------------------------------------------------------------------
(* What is left of a revocation or of an exchange by requests that were at   *)
(* work when it ran.                                                         *)

RedeemSteps == {"consumeRead", "consumeWrite", "findAccount", "issueAccess",
                "issueRefresh", "done", "failed"}

RevokeAllSteps == {"findGrants", "deleteTokensOf", "deleteGrants", "deleteSessions",
                   "deleteUser", "done", "failed"}

Issuers == {"authorize", "redeem"}

\* Which operation a step belongs to.
OpAt(r) ==
  /\ pc[r] = "saveGrant" => call[r].op = "confirm"
  /\ pc[r] = "saveSession" => call[r].op \in {"login", "authorize"}
  /\ pc[r] = "issueCode" => call[r].op = "authorize"
  /\ pc[r] \in RedeemSteps \ Answered => call[r].op = "redeem"
  /\ call[r].op = "redeem" =>
       pc[r] \in RedeemSteps /\ call[r].type \in {"AuthorizationCode", "RefreshToken"}
  /\ call[r].op \in RevokeAllOps => pc[r] \in RevokeAllSteps

\* Request x has stored its row of this type.
Past(type, x) ==
  /\ type = "AuthorizationCode" => pc[x] \in {"saveSession", "done"}
  /\ type = "AccessToken" => pc[x] \in {"issueRefresh", "done"}
  /\ type = "RefreshToken" => pc[x] = "done"

\* A row with a grant is a token, and one that a request has minted names the grant
\* of that request.
Issued(row) ==
  /\ row.grantId # NoGrant => row.type \in TokenTypes
  /\ row.type \in TokenTypes /\ row.id \in Requests =>
       /\ call[row.id].op \in Issuers
       /\ row.grantId = call[row.id].grantId
       /\ Past(row.type, row.id)

\* What a request exchanges is not minted again, and is consumed once the request
\* has got past consume.
Redeemed(x) ==
  call[x].op = "redeem" =>
    /\ call[x].id \in Requests => Past(call[x].type, call[x].id)
    /\ pc[x] \in {"findAccount", "issueAccess", "issueRefresh", "done"} =>
         \A row \in RowAt(oidcModel, call[x].type, call[x].id) : row.consumed

\* Request r has deleted the Grant rows it will delete.
GrantsDeleted(r) ==
  \/ call[r].op \in {"revokeGrant", "replay"} /\ pc[r] = "done"
  \/ /\ call[r].op \in RevokeAllOps
     /\ pc[r] \in {"deleteSessions", "deleteUser", "done", "failed"}

\* A Grant row that is there after that was saved by a consent beside it.
GrantsGone(r) ==
  GrantsDeleted(r) =>
    \A row \in oidcModel :
      row.type = "Grant" /\ row.id \in Revoked(r) => LateConsents(r, row.id) # {}

\* A request that began after revocation r, and found a grant that r has revoked.
FoundRevoked(r, x) ==
  r \in prior[x] /\ FinishedRevoking(r) /\ call[x].op \in Issuers
    /\ call[x].grantId \in Revoked(r)

OverlapInv ==
  /\ \A row \in oidcModel : Issued(row)
  /\ \A r \in Requests : OpAt(r) /\ Redeemed(r) /\ GrantsGone(r)
  /\ \A r, x \in Requests : FoundRevoked(r, x) => LateConsents(r, call[x].grantId) # {}
  /\ SessionsOutliveOnlyByOverlap
  /\ ExchangedTwiceOnlyByOverlap

LEMMA InitOverlapInv == Init => OverlapInv
<1> SUFFICES ASSUME Init PROVE OverlapInv
  OBVIOUS
<1>1. PICK G \in SUBSET OldGrants : oidcModel = SignedIn(G)
  BY DEF Init
<1>2. ASSUME NEW row \in oidcModel PROVE Issued(row)
  BY <1>1, NamesAssumption DEF SignedIn, NewRow, Issued, TokenTypes, Ids
<1>3. ASSUME NEW r \in Requests
      PROVE  /\ pc[r] = "idle" /\ call[r].op = "none" /\ prior[r] = {}
  BY DEF Init, NoCall
<1>4. ASSUME NEW r \in Requests
      PROVE  OpAt(r) /\ Redeemed(r) /\ GrantsGone(r) /\ ~FinishedRevoking(r)
  BY <1>3 DEF OpAt, RedeemSteps, Answered, Redeemed, GrantsGone, GrantsDeleted,
     FinishedRevoking, RevokeAllOps
<1> QED
  BY <1>2, <1>3, <1>4 DEF OverlapInv, FoundRevoked, SessionsOutliveOnlyByOverlap,
     ExchangedTwiceOnlyByOverlap

\* A request whose step changes has taken a step.
LEMMA Moves ==
  ASSUME TypeOK, [Next]_vars, NEW r \in Requests
  PROVE  \/ Arrive(r) \/ Step(r)
         \/ /\ pc'[r] = pc[r] /\ call'[r] = call[r] /\ prior'[r] = prior[r]
            /\ grants'[r] = grants[r] /\ todo'[r] = todo[r]
<1>1. CASE \E x \in Requests : x # r /\ (Arrive(x) \/ Step(x))
  BY <1>1, OthersUnchanged
<1>2. CASE Expire \/ UNCHANGED vars
  BY <1>2 DEF Expire, vars
<1> QED
  BY <1>1, <1>2 DEF Next, AllAnswered

LEMMA NewOpAt ==
  ASSUME TypeOK, NEW r \in Requests, Arrive(r)
  PROVE  OpAt(r)'
<1> USE DEF Begin, TypeOK, OpAt, RedeemSteps, RevokeAllSteps, RevokeAllOps, Answered
<1>1. CASE Confirm(r)
  BY <1>1 DEF Confirm, ConfirmNew, ConfirmExisting
<1>2. CASE Authorize(r)
  BY <1>2 DEF Authorize
<1>3. CASE Redeem(r)
  BY <1>3 DEF Redeem
<1>4. CASE \E u \in Accounts : Login(r, u) \/ RevokeAll(r, u)
  BY <1>4 DEF Login, RevokeAll
<1>5. CASE \E u \in Accounts, g \in Ids : RevokeGrant(r, u, g)
  BY <1>5 DEF RevokeGrant
<1> QED
  BY <1>1, <1>2, <1>3, <1>4, <1>5 DEF Arrive

LEMMA NextOpAt ==
  ASSUME IInv, NEW r \in Requests, OpAt(r), Step(r)
  PROVE  OpAt(r)'
<1> USE DEF OpAt, RedeemSteps, RevokeAllSteps, RevokeAllOps, Answered, Statement, Goto,
            IInv, TypeOK
<1>1. CASE SaveGrant(r) \/ IssueCode(r) \/ SaveSession(r)
  BY <1>1 DEF SaveGrant, IssueCode, SaveSession
<1>2. CASE ConsumeRead(r) \/ ConsumeWrite(r) \/ FindAccount(r)
  BY <1>2 DEF ConsumeRead, ConsumeWrite, FindAccount
<1>3. CASE IssueAccess(r) \/ IssueRefresh(r)
  BY <1>3 DEF IssueAccess, IssueRefresh
<1>4. CASE DeleteTokens(r) \/ DeleteGrant(r)
  BY <1>4 DEF DeleteTokens, DeleteGrant
<1>5. CASE FindGrants(r) \/ DeleteTokensOf(r)
  BY <1>5 DEF FindGrants, DeleteTokensOf
<1>6. CASE DeleteGrants(r) \/ DeleteSessions(r) \/ DeleteUser(r)
  BY <1>6 DEF DeleteGrants, DeleteSessions, DeleteUser
<1> QED
  BY <1>1, <1>2, <1>3, <1>4, <1>5, <1>6 DEF Step

LEMMA OpAtStep ==
  ASSUME IInv, [Next]_vars, NEW r \in Requests, OpAt(r)
  PROVE  OpAt(r)'
<1>1. CASE pc'[r] = pc[r] /\ call'[r] = call[r]
  BY <1>1 DEF OpAt
<1> QED
  BY <1>1, Moves, NewOpAt, NextOpAt DEF IInv

\* What is past stays past.
LEMMA PastStays ==
  ASSUME IInv, [Next]_vars, NEW x \in Requests, NEW type, Past(type, x), type \in TokenTypes
  PROVE  Past(type, x)'
<1>1. pc[x] \in {"saveSession", "done", "issueRefresh"}
  BY DEF Past, TokenTypes
<1>2. ~Arrive(x)
  BY <1>1, NewCalls
<1>3. CASE pc'[x] = pc[x]
  BY <1>3 DEF Past
<1>4. CASE Step(x)
  <2>1. \/ pc[x] = "saveSession" /\ SaveSession(x)
        \/ pc[x] = "issueRefresh" /\ IssueRefresh(x)
    BY <1>1, <1>4 DEF Step, SaveGrant, IssueCode, SaveSession, ConsumeRead,
       ConsumeWrite, FindAccount, IssueAccess, IssueRefresh, DeleteTokens,
       DeleteGrant, FindGrants, DeleteTokensOf, DeleteGrants, DeleteSessions,
       DeleteUser, Statement, Goto
  <2>2. pc'[x] = "done"
    BY <2>1 DEF SaveSession, IssueRefresh, Statement, Goto, IInv, TypeOK
  <2> QED
    BY <2>1, <2>2 DEF Past, TokenTypes
<1> QED
  BY <1>2, <1>3, <1>4, Moves DEF IInv

LEMMA IssuedStep ==
  ASSUME IInv, OverlapInv, [Next]_vars, NEW row \in oidcModel'
  PROVE  Issued(row)'
<1> USE DEF IInv
<1>1. ASSUME NEW old \in oidcModel, SameToken(row, old)
      PROVE  Issued(row)'
  <2>1. Issued(old)
    BY DEF OverlapInv
  <2>2. row.grantId # NoGrant => row.type \in TokenTypes
    BY <1>1, <2>1 DEF Issued, SameToken
  <2>3. ASSUME row.type \in TokenTypes, row.id \in Requests
        PROVE  /\ call'[row.id].op \in Issuers /\ row.grantId = call'[row.id].grantId
               /\ Past(row.type, row.id)'
    <3>1. PICK x \in Requests : x = row.id
      BY <2>3
    <3>2. PICK type \in TokenTypes : type = row.type
      BY <2>3
    <3>3. call[x].op \in Issuers /\ row.grantId = call[x].grantId /\ Past(type, x)
      BY <1>1, <2>1, <3>1, <3>2 DEF Issued, SameToken
    <3>4. Past(type, x)'
      BY <3>3, PastStays
    <3>5. pc[x] # "idle"
      BY <3>3 DEF FreshRequests, Issuers
    <3> QED
      BY <3>1, <3>2, <3>3, <3>4, <3>5, CallsAreFixed
  <2> QED
    BY <2>2, <2>3 DEF Issued
<1>2. ASSUME NEW x \in Requests, Minted(row, x)
      PROVE  Issued(row)'
  <2>1. OpAt(x) /\ pc[x] # "idle"
    BY <1>2 DEF OverlapInv, Minted
  <2>2. call[x].op \in Issuers
    BY <1>2, <2>1 DEF OpAt, Minted, RedeemSteps, Answered, Issuers
  <2>3. row.type \in TokenTypes /\ row.id = x /\ row.grantId = call[x].grantId
    BY <1>2 DEF Minted, TokenTypes
  <2>4. call'[x] = call[x]
    BY <2>1, CallsAreFixed
  <2>5. Past(row.type, x)'
    BY <1>2 DEF Minted, Past
  <2> QED
    BY <2>2, <2>3, <2>4, <2>5 DEF Issued
<1>3. ASSUME NEW x \in Requests, Saved(row, x)
      PROVE  Issued(row)'
  BY <1>3 DEF Saved, Issued, TokenTypes
<1> QED
  BY <1>1, <1>2, <1>3, StoredRows

\* What a request exchanges was found, unconsumed, by an earlier step.
LEMMA NewRedeemed ==
  ASSUME IInv, OverlapInv, NEW r \in Requests, Arrive(r), call'[r].op = "redeem"
  PROVE  /\ pc'[r] = "consumeRead"
         /\ \E token \in oidcModel :
              /\ token.type = call'[r].type /\ token.id = call'[r].id /\ ~token.consumed
              /\ token.type \in TokenTypes
<1> USE DEF IInv, TypeOK, Begin
<1>1. CASE Redeem(r)
  BY <1>1 DEF Redeem, TokenTypes
<1>2. CASE Confirm(r) \/ Authorize(r)
  BY <1>2 DEF Confirm, ConfirmNew, ConfirmExisting, Authorize
<1>3. CASE \E u \in Accounts : Login(r, u) \/ RevokeAll(r, u) \/ \E g \in Ids : RevokeGrant(r, u, g)
  BY <1>3 DEF Login, RevokeAll, RevokeGrant
<1> QED
  BY <1>1, <1>2, <1>3 DEF Arrive

\* The step after which a request is past consume.
LEMMA ConsumedStep ==
  ASSUME IInv, OverlapInv, NEW r \in Requests, Step(r), call[r].op = "redeem",
         pc'[r] \in {"findAccount", "issueAccess", "issueRefresh", "done"}
  PROVE  \/ pc[r] \in {"findAccount", "issueAccess", "issueRefresh", "done"}
         \/ \A row \in RowAt(oidcModel', call[r].type, call[r].id) : row.consumed
<1> USE DEF IInv, TypeOK, Statement, Goto
<1>1. pc[r] \in RedeemSteps
  BY DEF OverlapInv, OpAt
<1>2. CASE ConsumeRead(r)
  BY <1>2 DEF ConsumeRead
<1>3. CASE ConsumeWrite(r)
  <2>1. oidcModel' = MarkConsumed(oidcModel, call[r].type, call[r].id)
    BY <1>3 DEF ConsumeWrite
  <2>2. ASSUME NEW row \in RowAt(oidcModel', call[r].type, call[r].id)
        PROVE  row.consumed
    <3>1. PICK old \in oidcModel : row = [old EXCEPT !.consumed = TRUE]
      BY <2>1, <2>2 DEF MarkConsumed, RowAt
    <3> QED
      BY <3>1 DEF Row
  <2> QED
    BY <2>2
<1> QED
  BY <1>1, <1>2, <1>3 DEF RedeemSteps, Step, SaveGrant, IssueCode, SaveSession,
     FindAccount, IssueAccess, IssueRefresh, DeleteTokens,
     DeleteGrant, FindGrants, DeleteTokensOf, DeleteGrants, DeleteSessions,
     DeleteUser

LEMMA RedeemedStep ==
  ASSUME IInv, OverlapInv, [Next]_vars, NEW r \in Requests
  PROVE  Redeemed(r)'
<1> SUFFICES ASSUME call'[r].op = "redeem" PROVE Redeemed(r)'
  BY DEF Redeemed
<1> USE DEF IInv
<1>1. CASE Arrive(r)
  <2>1. PICK token \in oidcModel :
          /\ token.type = call'[r].type /\ token.id = call'[r].id
          /\ token.type \in TokenTypes
    BY <1>1, NewRedeemed
  <2>2. Issued(token)
    BY DEF OverlapInv
  <2>3. ASSUME call'[r].id \in Requests
        PROVE  Past(call[r].type, call[r].id)'
    <3>1. PICK x \in Requests : x = call'[r].id
      BY <2>3
    <3>2. PICK type \in TokenTypes : type = call'[r].type
      BY <2>1
    <3>3. Past(type, x)
      BY <2>1, <2>2, <3>1, <3>2 DEF Issued
    <3>4. Past(type, x)'
      BY <3>3, PastStays
    <3> QED
      BY <3>1, <3>2, <3>4
  <2>4. pc'[r] = "consumeRead"
    BY <1>1, NewRedeemed
  <2> QED
    BY <2>3, <2>4 DEF Redeemed
<1>2. CASE ~Arrive(r)
  <2>1. call'[r] = call[r] /\ pc[r] # "idle" /\ OpAt(r) /\ Redeemed(r)
    <3>1. call'[r] = call[r]
      BY <1>2, Moves, CallsAreFixed DEF Step, SaveGrant, IssueCode, SaveSession,
         ConsumeRead, ConsumeWrite, FindAccount, IssueAccess, IssueRefresh, DeleteTokens,
         DeleteGrant, FindGrants, DeleteTokensOf, DeleteGrants, DeleteSessions,
         DeleteUser, Statement, Goto
    <3> QED
      BY <3>1 DEF FreshRequests, OverlapInv
  <2>2. PICK type \in {"AuthorizationCode", "RefreshToken"} : type = call[r].type
    BY <2>1 DEF OpAt
  <2>3. ASSUME NEW x \in Requests, x = call[r].id
        PROVE  Past(type, x) /\ Past(type, x)'
    <3>1. Past(type, x)
      BY <2>1, <2>2, <2>3 DEF Redeemed
    <3> QED
      BY <3>1, PastStays DEF TokenTypes
  <2>4. ASSUME pc'[r] \in {"findAccount", "issueAccess", "issueRefresh", "done"},
               NEW row \in RowAt(oidcModel', call[r].type, call[r].id)
        PROVE  row.consumed
    <3>1. row \in oidcModel' /\ row.type = type /\ row.id = call[r].id
      BY <2>2, <2>4 DEF RowAt
    <3>2. CASE pc[r] \in {"findAccount", "issueAccess", "issueRefresh", "done"}
      <4>1. ASSUME NEW old \in oidcModel, SameToken(row, old)
            PROVE  row.consumed
        <5>1. old \in RowAt(oidcModel, call[r].type, call[r].id)
          BY <2>2, <3>1, <4>1 DEF SameToken, RowAt
        <5> QED
          BY <2>1, <3>2, <4>1, <5>1 DEF Redeemed, SameToken
      <4>2. ASSUME NEW x \in Requests
            PROVE  ~Minted(row, x) /\ ~Saved(row, x)
        BY <2>3, <3>1 DEF Minted, Past, Saved
      <4> QED
        BY <3>1, <4>1, <4>2, StoredRows
    <3>3. CASE pc[r] \notin {"findAccount", "issueAccess", "issueRefresh", "done"}
      BY <1>2, <2>1, <2>4, <3>3, Moves, ConsumedStep
    <3> QED
      BY <3>2, <3>3
  <2>5. ASSUME call'[r].id \in Requests
        PROVE  Past(call[r].type, call[r].id)'
    BY <2>1, <2>2, <2>3, <2>5 DEF Past
  <2> QED
    BY <2>1, <2>4, <2>5 DEF Redeemed
<1> QED
  BY <1>1, <1>2

\* A consent beside a revocation stays one.
LEMMA LateStays ==
  ASSUME IInv, [Next]_vars, NEW r \in Requests, pc[r] # "idle", NEW g,
         LateConsents(r, g) # {}
  PROVE  LateConsents(r, g)' # {}
<1>1. PICK c \in Requests : call[c].op = "confirm" /\ call[c].grantId = g /\ c \notin prior[r]
  BY DEF LateConsents
<1>2. call'[c] = call[c] /\ prior'[r] = prior[r]
  BY <1>1, CallsAreFixed DEF IInv, FreshRequests
<1> QED
  BY <1>1, <1>2 DEF LateConsents

\* Who saves a Grant row runs beside every revocation that has begun.
LEMMA SavedIsLate ==
  ASSUME IInv, OverlapInv, [Next]_vars, NEW r \in Requests, pc[r] # "idle",
         NEW x \in Requests, NEW row, Saved(row, x), row.type = "Grant"
  PROVE  LateConsents(r, row.id)' # {}
<1>1. pc[x] = "saveGrant" /\ row.id = call[x].grantId
  BY DEF Saved
<1>2. call[x].op = "confirm" /\ x \notin prior[r]
  BY <1>1 DEF OverlapInv, OpAt, IInv, PriorAnswered, Answered
<1>3. x \in LateConsents(r, row.id)
  BY <1>1, <1>2 DEF LateConsents
<1> QED
  BY <1>3, LateStays

\* A revocation that has deleted its Grant rows revokes nothing more.
LEMMA RevokedIsFixed ==
  ASSUME IInv, [Next]_vars, NEW r \in Requests, GrantsDeleted(r)
  PROVE  GrantsDeleted(r)' /\ Revoked(r)' = Revoked(r) /\ pc[r] # "idle"
<1> USE DEF IInv, TypeOK
<1>1. /\ pc[r] \in {"deleteSessions", "deleteUser", "done", "failed"}
      /\ call[r].op \in {"revokeGrant", "replay"} => pc[r] = "done"
  BY DEF GrantsDeleted, RevokeAllOps
<1>2. call'[r] = call[r]
  BY <1>1, CallsAreFixed
<1>3. ~Arrive(r)
  BY <1>1, NewCalls
<1>4. CASE Step(r)
  <2>1. DeleteSessions(r) \/ DeleteUser(r)
    BY <1>1, <1>4 DEF Step, SaveGrant, IssueCode, SaveSession, ConsumeRead,
       ConsumeWrite, FindAccount, IssueAccess, IssueRefresh, DeleteTokens,
       DeleteGrant, FindGrants, DeleteTokensOf, DeleteGrants, DeleteSessions,
       DeleteUser, Statement, Goto
  <2>2. /\ pc[r] \in {"deleteSessions", "deleteUser"}
        /\ pc'[r] \in {"deleteUser", "done", "failed"} /\ UNCHANGED <<grants, todo>>
    BY <2>1 DEF DeleteSessions, DeleteUser, Statement, Goto
  <2> QED
    BY <1>1, <1>2, <2>2 DEF GrantsDeleted, Revoked, RevokeAllOps
<1>5. CASE UNCHANGED <<pc[r], call[r], grants[r], todo[r]>>
  BY <1>1, <1>5 DEF GrantsDeleted, Revoked
<1> QED
  BY <1>3, <1>4, <1>5, Moves

\* The statement that deletes the Grant rows leaves none of a revoked grant.
LEMMA GrantsDeletedNow ==
  ASSUME IInv, OverlapInv, [Next]_vars, NEW r \in Requests, ~GrantsDeleted(r),
         GrantsDeleted(r)', NEW row \in oidcModel', row.type = "Grant"
  PROVE  row.id \notin Revoked(r)'
<1> USE DEF IInv, TypeOK
<1>1. CASE Arrive(r)
  BY <1>1, NewCalls, NewOpAt DEF GrantsDeleted, RevokeAllOps, Answered, Revoked, FreshRequests
<1>2. CASE Step(r)
  <2>1. pc[r] # "idle"
    BY <1>2 DEF Step, SaveGrant, IssueCode, SaveSession, ConsumeRead,
       ConsumeWrite, FindAccount, IssueAccess, IssueRefresh, DeleteTokens,
       DeleteGrant, FindGrants, DeleteTokensOf, DeleteGrants, DeleteSessions,
       DeleteUser, Statement, Goto
  <2>2. call'[r] = call[r]
    BY <2>1, CallsAreFixed
  <2>3. CASE call[r].op \in {"revokeGrant", "replay"}
    <3>1. pc[r] \in {"deleteTokens", "deleteGrant"} /\ pc'[r] = "done"
      BY <2>2, <2>3 DEF GrantsDeleted, RevocationSteps, RevokeAllOps
    <3>2. CASE DeleteGrant(r)
      BY <2>2, <2>3, <3>2 DEF DeleteGrant, Statement, Destroy, RowAt, Revoked
    <3> QED
      BY <1>2, <3>1, <3>2 DEF Step, SaveGrant, IssueCode, SaveSession, ConsumeRead,
         ConsumeWrite, FindAccount, IssueAccess, IssueRefresh, DeleteTokens,
         FindGrants, DeleteTokensOf, DeleteGrants, DeleteSessions,
         DeleteUser, Statement, Goto
  <2>4. CASE call[r].op \in RevokeAllOps
    <3>1. pc[r] \in RevokeAllSteps
      BY <2>4 DEF OverlapInv, OpAt
    <3>2. /\ pc[r] \in {"findGrants", "deleteTokensOf", "deleteGrants"}
          /\ pc'[r] \in {"deleteSessions", "deleteUser", "done", "failed"}
      BY <2>2, <2>4, <3>1 DEF GrantsDeleted, RevokeAllSteps, RevokeAllOps
    <3>3. CASE FindGrants(r)
      BY <2>2, <2>4, <3>2, <3>3 DEF FindGrants, Goto, Revoked, RevokeAllOps
    <3>4. CASE DeleteGrants(r)
      BY <2>2, <2>4, <3>4 DEF DeleteGrants, Statement, Revoked, RevokeAllOps
    <3> QED
      BY <1>2, <3>2, <3>3, <3>4 DEF Step, SaveGrant, IssueCode, SaveSession, ConsumeRead,
         ConsumeWrite, FindAccount, IssueAccess, IssueRefresh, DeleteTokens,
         DeleteGrant, DeleteTokensOf, DeleteSessions,
         DeleteUser, Statement, Goto
  <2> QED
    BY <2>2, <2>3, <2>4 DEF GrantsDeleted
<1>3. CASE UNCHANGED <<pc[r], call[r]>>
  BY <1>3 DEF GrantsDeleted
<1> QED
  BY <1>1, <1>2, <1>3, Moves

LEMMA GrantsGoneStep ==
  ASSUME IInv, OverlapInv, [Next]_vars, NEW r \in Requests
  PROVE  GrantsGone(r)'
<1> SUFFICES ASSUME GrantsDeleted(r)', NEW row \in oidcModel', row.type = "Grant",
                    row.id \in Revoked(r)'
             PROVE  LateConsents(r, row.id)' # {}
  BY DEF GrantsGone
<1>1. GrantsDeleted(r)
  BY GrantsDeletedNow
<1>2. pc[r] # "idle" /\ row.id \in Revoked(r)
  BY <1>1, RevokedIsFixed
<1>3. ASSUME NEW old \in oidcModel, SameToken(row, old)
      PROVE  LateConsents(r, row.id)' # {}
  <2>1. LateConsents(r, row.id) # {}
    BY <1>1, <1>2, <1>3 DEF OverlapInv, GrantsGone, SameToken
  <2> QED
    BY <1>2, <2>1, LateStays
<1>4. ASSUME NEW x \in Requests
      PROVE  Saved(row, x) => LateConsents(r, row.id)' # {}
  BY <1>2, SavedIsLate
<1>5. ASSUME NEW x \in Requests
      PROVE  ~Minted(row, x)
  BY DEF Minted
<1> QED
  BY <1>3, <1>4, <1>5, StoredRows DEF IInv

\* A request that issues something has found its Grant row.
LEMMA NewIssuer ==
  ASSUME IInv, NEW r \in Requests, Arrive(r), call'[r].op \in Issuers
  PROVE  \E grant \in oidcModel : grant.type = "Grant" /\ grant.id = call'[r].grantId
<1> USE DEF IInv, TypeOK, Begin
<1>1. CASE Redeem(r)
  BY <1>1 DEF Redeem, Found, RowAt
<1>2. CASE Authorize(r)
  BY <1>2 DEF Authorize, Found, RowAt
<1>3. CASE Confirm(r)
  BY <1>3 DEF Confirm, ConfirmNew, ConfirmExisting, Issuers
<1>4. CASE \E u \in Accounts : Login(r, u) \/ RevokeAll(r, u) \/ \E g \in Ids : RevokeGrant(r, u, g)
  BY <1>4 DEF Login, RevokeAll, RevokeGrant, Issuers
<1> QED
  BY <1>1, <1>2, <1>3, <1>4 DEF Arrive

LEMMA FinishedHasDeleted ==
  ASSUME IInv, NEW r \in Requests, FinishedRevoking(r)
  PROVE  GrantsDeleted(r)
  BY DEF IInv, FinishedRevoking, GrantsDeleted, RevocationSteps, RevokeAllOps

LEMMA FoundRevokedStep ==
  ASSUME IInv, OverlapInv, [Next]_vars, NEW r \in Requests, NEW x \in Requests,
         FoundRevoked(r, x)'
  PROVE  LateConsents(r, call[x].grantId)' # {}
<1> USE DEF IInv
<1>1. CASE Arrive(x)
  <2>1. pc[r] \in Answered /\ pc[x] = "idle"
    BY <1>1, NewCalls DEF FoundRevoked
  <2>2. pc'[r] = pc[r] /\ call'[r] = call[r] /\ pc[r] # "idle"
    BY <2>1, CallsAreFixed DEF Answered
  <2>3. FinishedRevoking(r)
    BY <2>2 DEF FoundRevoked, FinishedRevoking
  <2>4. GrantsDeleted(r) /\ Revoked(r)' = Revoked(r)
    BY <2>3, FinishedHasDeleted, RevokedIsFixed
  <2>5. PICK grant \in oidcModel : grant.type = "Grant" /\ grant.id = call'[x].grantId
    BY <1>1, NewIssuer DEF FoundRevoked
  <2>6. LateConsents(r, grant.id) # {}
    BY <2>4, <2>5 DEF OverlapInv, GrantsGone, FoundRevoked
  <2> QED
    BY <2>2, <2>5, <2>6, LateStays
<1>2. CASE ~Arrive(x)
  <2>1. call'[x] = call[x] /\ prior'[x] = prior[x]
    BY <1>2, Moves DEF Step, SaveGrant, IssueCode, SaveSession,
       ConsumeRead, ConsumeWrite, FindAccount, IssueAccess, IssueRefresh, DeleteTokens,
       DeleteGrant, FindGrants, DeleteTokensOf, DeleteGrants, DeleteSessions,
       DeleteUser, Statement, Goto
  <2>2. r \in prior[x] /\ pc[r] \in Answered
    BY <2>1 DEF FoundRevoked, PriorAnswered
  <2>3. pc'[r] = pc[r] /\ call'[r] = call[r] /\ pc[r] # "idle"
    BY <2>2, CallsAreFixed DEF Answered
  <2>4. FinishedRevoking(r)
    BY <2>3 DEF FoundRevoked, FinishedRevoking
  <2>5. Revoked(r)' = Revoked(r)
    BY <2>4, FinishedHasDeleted, RevokedIsFixed
  <2>6. LateConsents(r, call[x].grantId) # {}
    BY <2>1, <2>2, <2>4, <2>5 DEF OverlapInv, FoundRevoked
  <2> QED
    BY <2>1, <2>3, <2>6, LateStays
<1> QED
  BY <1>1, <1>2

LEMMA SessionsStep ==
  ASSUME IInv, OverlapInv, [Next]_vars
  PROVE  SessionsOutliveOnlyByOverlap'
<1> USE DEF IInv, TypeOK
<1> DEFINE Storer(x, r, row) ==
             /\ call[x].op \in {"login", "authorize"}
             /\ call[x].id = row.id
             /\ pc[x] = "done"
             /\ x \notin prior[r]
<1> SUFFICES ASSUME NEW r \in Requests, FinishedRevoking(r)', call'[r].op \in RevokeAllOps,
                    NEW row \in oidcModel', row.type = "Session",
                    row.accountId = call'[r].account
             PROVE  \E x \in Requests : Storer(x, r, row)'
  BY DEF SessionsOutliveOnlyByOverlap
<1>1. ~Arrive(r)
  <2>1. SUFFICES ASSUME Arrive(r) PROVE pc'[r] \notin Answered \cup {"deleteUser"}
    BY DEF FinishedRevoking, Answered
  <2> USE DEF Begin, Answered
  <2>2. CASE Confirm(r)
    BY <2>2 DEF Confirm, ConfirmNew, ConfirmExisting
  <2>3. CASE Authorize(r) \/ Redeem(r)
    BY <2>3 DEF Authorize, Redeem
  <2>4. CASE \E u \in Accounts : Login(r, u) \/ RevokeAll(r, u)
    BY <2>4 DEF Login, RevokeAll
  <2>5. CASE \E u \in Accounts, g \in Ids : RevokeGrant(r, u, g)
    BY <2>5 DEF RevokeGrant
  <2> QED
    BY <2>1, <2>2, <2>3, <2>4, <2>5 DEF Arrive
<1>2. pc[r] # "idle"
  BY <1>1, Moves DEF FinishedRevoking, FreshRequests, RevokeAllOps, Step, SaveGrant,
     IssueCode, SaveSession, ConsumeRead, ConsumeWrite, FindAccount, IssueAccess,
     IssueRefresh, DeleteTokens, DeleteGrant, FindGrants, DeleteTokensOf, DeleteGrants,
     DeleteSessions, DeleteUser, Statement, Goto
<1>3. call'[r] = call[r] /\ prior'[r] = prior[r]
  BY <1>2, CallsAreFixed
<1>4. ASSUME NEW x \in Requests, Saved(row, x)
      PROVE  Storer(x, r, row)'
  <2>1. pc[x] = "saveSession" /\ pc'[x] = "done" /\ row.id = call[x].id
    BY <1>4 DEF Saved
  <2>2. call[x].op \in {"login", "authorize"} /\ x \notin prior[r]
    BY <2>1 DEF OverlapInv, OpAt, PriorAnswered, Answered
  <2>3. call'[x] = call[x]
    BY <2>1, CallsAreFixed
  <2> QED
    BY <1>3, <2>1, <2>2, <2>3
<1>5. CASE FinishedRevoking(r)
  <2>1. ASSUME NEW old \in oidcModel, SameToken(row, old)
        PROVE  \E x \in Requests : Storer(x, r, row)'
    <3>1. PICK x \in Requests : Storer(x, r, row)
      BY <1>3, <1>5, <2>1 DEF OverlapInv, SessionsOutliveOnlyByOverlap, SameToken
    <3>2. call'[x] = call[x] /\ pc'[x] = pc[x]
      BY <3>1, CallsAreFixed DEF Answered
    <3> QED
      BY <1>3, <3>1, <3>2
  <2>2. ASSUME NEW x \in Requests PROVE ~Minted(row, x)
    BY DEF Minted
  <2> QED
    BY <1>4, <2>1, <2>2, StoredRows
<1>6. CASE ~FinishedRevoking(r)
  <2>1. pc'[r] # pc[r] /\ pc[r] \in RevokeAllSteps
    BY <1>3, <1>6 DEF FinishedRevoking, OverlapInv, OpAt
  <2>2. DeleteSessions(r)
    BY <1>1, <1>3, <1>6, <2>1, Moves
       DEF FinishedRevoking, RevokeAllSteps, Step, SaveGrant, IssueCode, SaveSession,
       ConsumeRead, ConsumeWrite, FindAccount, IssueAccess, IssueRefresh, DeleteTokens,
       DeleteGrant, FindGrants, DeleteTokensOf, DeleteGrants, DeleteSessions,
       DeleteUser, Statement, Goto
  <2> QED
    BY <1>3, <2>2 DEF DeleteSessions, DeleteSessionsOf, Statement
<1> QED
  BY <1>5, <1>6

LEMMA ExchangedStep ==
  ASSUME IInv, OverlapInv, [Next]_vars
  PROVE  ExchangedTwiceOnlyByOverlap'
<1> USE DEF IInv
<1> SUFFICES ASSUME NEW x \in Requests, NEW y \in Requests,
                    call'[x].op = "redeem", call'[y].op = "redeem",
                    call'[x].type = call'[y].type, call'[x].id = call'[y].id,
                    pc'[x] = "done", x \in prior'[y]
             PROVE  FALSE
  BY DEF ExchangedTwiceOnlyByOverlap
<1>1. CASE Arrive(y)
  <2>1. pc[x] \in Answered
    BY <1>1, NewCalls
  <2>2. pc'[x] = pc[x] /\ call'[x] = call[x] /\ pc[x] = "done"
    BY <2>1, CallsAreFixed DEF Answered
  <2>3. PICK token \in oidcModel :
          token.type = call'[y].type /\ token.id = call'[y].id /\ ~token.consumed
    BY <1>1, NewRedeemed
  <2>4. token \in RowAt(oidcModel, call[x].type, call[x].id)
    BY <2>2, <2>3 DEF RowAt
  <2> QED
    BY <2>2, <2>3, <2>4 DEF OverlapInv, Redeemed
<1>2. CASE ~Arrive(y)
  <2>1. call'[y] = call[y] /\ prior'[y] = prior[y]
    BY <1>2, Moves DEF Step, SaveGrant, IssueCode, SaveSession,
       ConsumeRead, ConsumeWrite, FindAccount, IssueAccess, IssueRefresh, DeleteTokens,
       DeleteGrant, FindGrants, DeleteTokensOf, DeleteGrants, DeleteSessions,
       DeleteUser, Statement, Goto
  <2>2. pc[x] \in Answered
    BY <2>1 DEF PriorAnswered
  <2>3. pc'[x] = pc[x] /\ call'[x] = call[x]
    BY <2>2, CallsAreFixed DEF Answered
  <2> QED
    BY <2>1, <2>3 DEF OverlapInv, ExchangedTwiceOnlyByOverlap
<1> QED
  BY <1>1, <1>2

LEMMA OverlapStep ==
  ASSUME IInv, OverlapInv, [Next]_vars
  PROVE  OverlapInv'
<1>1. \A row \in oidcModel' : Issued(row)'
  BY IssuedStep
<1>2. \A r \in Requests : OpAt(r)' /\ Redeemed(r)' /\ GrantsGone(r)'
  BY OpAtStep, RedeemedStep, GrantsGoneStep DEF OverlapInv
<1>3. \A r, x \in Requests : FoundRevoked(r, x)' => LateConsents(r, call[x].grantId)' # {}
  BY FoundRevokedStep
<1> QED
  BY <1>1, <1>2, <1>3, SessionsStep, ExchangedStep DEF OverlapInv

LEMMA OverlapsOnly == Spec => [](IInv /\ OverlapInv)
<1>1. IInv /\ OverlapInv /\ [Next]_vars => IInv' /\ OverlapInv'
  BY InductiveStep, OverlapStep
<1> QED
  BY InitIInv, InitOverlapInv, <1>1, PTL DEF Spec

\* A token that a later request stored under a revoked grant.
LEMMA NothingIssuedLater ==
  ASSUME IInv, OverlapInv
  PROVE  RevokedGrantIssuesNothing
<1> SUFFICES ASSUME NEW r \in Requests, FinishedRevoking(r), NEW row \in oidcModel,
                    row.grantId \in Revoked(r), row.id \in Requests, r \in prior[row.id]
             PROVE  LateConsents(r, row.grantId) # {}
  BY DEF RevokedGrantIssuesNothing
<1>1. row.grantId # NoGrant
  BY RevokedAreGrants, NamesAssumption
<1>2. /\ row.type \in TokenTypes
      /\ call[row.id].op \in Issuers /\ row.grantId = call[row.id].grantId
  BY <1>1 DEF OverlapInv, Issued
<1>3. FoundRevoked(r, row.id)
  BY <1>2 DEF FoundRevoked
<1> QED
  BY <1>2, <1>3 DEF OverlapInv

\* What a revocation leaves behind, a token under a revoked grant or a session, was
\* stored by a request that ran beside it, or under a Grant row that such a request
\* saved.
THEOREM RevocationMissesOnlyWhatOverlaps == Spec => []RevocationMissesOnlyOverlap
<1>1. IInv /\ OverlapInv => RevocationMissesOnlyOverlap
  BY NothingIssuedLater DEF OverlapInv, RevocationMissesOnlyOverlap
<1> QED
  BY OverlapsOnly, <1>1, PTL

\* A code or refresh token that has been exchanged is not exchanged again: what goes
\* wrong between the two statements of consume goes wrong for overlapping requests
\* only.
THEOREM ExchangedOnce == Spec => []ExchangedTwiceOnlyByOverlap
<1>1. OverlapInv => ExchangedTwiceOnlyByOverlap
  BY DEF OverlapInv
<1> QED
  BY OverlapsOnly, <1>1, PTL
==============================================================================
