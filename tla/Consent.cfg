\* Two tabs that may belong to two browser sessions, and two clients: one has a role and
\* may hold a grant at the start.  "Allow" is pressed twice at most.  A user may close
\* every tab: the behaviour may stop anywhere.
SPECIFICATION Spec
CONSTANTS
  Sessions = {s1, s2}
  Tabs = {t1, t2}
  Posts = {p1, p2}
  Patches = {q1}
  c1 = c1
  c2 = c2
  Clients = {c1, c2}
  Holders = {c1}
  Scopes = {"email", "roles"}
  Roles = {x1}
  RoleOf <- MCRoleOf
  None = None
SYMMETRY Symmetry
CHECK_DEADLOCK FALSE
INVARIANTS
  TypeOK
  OnlyWhatWasApproved
  GrantsDivergeForAReason
