------------------------------ MODULE OidcModel ------------------------------
(***************************************************************************)
(* The OidcModel table (prisma/schema.prisma) and the operations that      *)
(* oidc/oidcModelAdapter.ts and oidc/sessions.ts run on it.                *)
(*                                                                         *)
(* oidc-provider keeps every session, grant, code and token as one row,    *)
(* keyed by (type, id); its payload is reduced to the fields the handlers  *)
(* of this server branch on.  Each operator is the effect of one database  *)
(* statement on the table T, so a handler that runs two statements uses    *)
(* two operators in two steps.                                             *)
(***************************************************************************)
CONSTANTS
  Ids,       \* primary keys of rows
  Accounts,  \* User.id values
  NoGrant    \* the grantId column of a row that has none (NULL)

\* Rows that carry a grantId: what "every token/code issued under it" names.
TokenTypes == {"AuthorizationCode", "AccessToken", "RefreshToken"}

Types == TokenTypes \cup {"Grant", "Session"}

Row == [type : Types, id : Ids, grantId : Ids \cup {NoGrant},
        accountId : Accounts, consumed : BOOLEAN, expired : BOOLEAN]

NewRow(type, id, grantId, account) ==
  [type |-> type, id |-> id, grantId |-> grantId, accountId |-> account,
   consumed |-> FALSE, expired |-> FALSE]

\* findUnique on the primary key: a set of at most one row.
RowAt(T, type, id) == {row \in T : row.type = type /\ row.id = id}

\* What find returns: the adapter hides a row whose expiresAt has passed.
Found(T, type, id) == {row \in RowAt(T, type, id) : ~row.expired}

Upsert(T, row) == (T \ RowAt(T, row.type, row.id)) \cup {row}

\* Mutant: consume leaves the payload as it was.
MarkConsumedLost(T, type, id) == T

\* The update of consume: it rewrites the payload of a row that is there.
MarkConsumed(T, type, id) ==
  (T \ RowAt(T, type, id))
    \cup {[row EXCEPT !.consumed = TRUE] : row \in RowAt(T, type, id)}

Destroy(T, type, id) == T \ RowAt(T, type, id)

\* Mutant: the deletion also filters on one type.
RevokeAccessTokensOnly(T, g) ==
  {row \in T : ~(row.grantId = g /\ row.type = "AccessToken")}

\* deleteMany where grantId = g: rows of every type, but never the Grant
\* itself, whose own grantId column is NULL.
RevokeByGrantId(T, g) == {row \in T : row.grantId # g}

\* Mutant: the list holds the rows, their ids are never selected.
GrantRowsOf(T, account) ==
  {x \in T : x.type = "Grant" /\ x.accountId = account}

\* findMany over the Grant rows of an account; expiresAt is not looked at.
GrantsOf(T, account) ==
  {row.id : row \in {x \in T : x.type = "Grant" /\ x.accountId = account}}

DeleteSessionsOf(T, account) ==
  {row \in T : ~(row.type = "Session" /\ row.accountId = account)}
==============================================================================
