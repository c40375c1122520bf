------------------------------- MODULE MCAdminApi -------------------------------
(* Values of the constants of AdminApi for TLC. *)
EXTENDS AdminApi, TLC

CONSTANTS alice, bob, console, game, r1, r2, r3, admins, players

\* alice administers through the console, bob holds a role of the game that lists
\* the same permissions.
MCFirstRoles ==
  {[id |-> admins, client |-> console, name |-> "admin", permissions |-> Permissions],
   [id |-> players, client |-> game, name |-> "admin", permissions |-> Permissions]}

MCFirstGrants == {[user |-> alice, role |-> admins], [user |-> bob, role |-> players]}

MCNames == {"admin", "helper"}

\* alice's token of the console, and bob's, who holds no role there.
MCTokens == [user : Users, client : {console}]

Form(operation, u, n, ps, b, fields) ==
  [op |-> operation, role |-> admins, user |-> u, client |-> console, name |-> n,
   permissions |-> ps, usesSecret |-> b, sets |-> fields]

MCForms ==
  {Form("createRole", alice, "helper", {}, TRUE, {})}
  \cup {Form("patchRole", alice, "helper", {}, TRUE, fields) :
          fields \in {{"name"}, {"permissions"}}}
  \cup {Form(o, alice, "admin", {}, TRUE, {}) : o \in {"deleteRole", "rotateSecret"}}
  \cup {Form(o, u, "admin", {}, TRUE, {}) : o \in {"grant", "revoke"}, u \in Users}
  \cup {Form("patchClient", alice, "admin", {}, b, {}) : b \in BOOLEAN}

RequestSymmetry == Permutations(Requests)
==============================================================================
