\* Three requests of one browser that is signed in, two accounts, one provider and one
\* change of its connector.  Users may stop at any point.
SPECIFICATION Spec
CONSTANTS
  Requests = {r1, r2, r3}
  Browsers = {b1}
  a1 = a1
  Accounts = {a1, a2}
  g1 = g1
  Providers = {g1}
  h1 = h1
  People = {h1, h2}
  i1 = i1
  OldLinks = {i1}
  OldLink <- MCOldLink
  MaxReloads = 1
  None = None
SYMMETRY Symmetry
CHECK_DEADLOCK FALSE
INVARIANTS
  TypeOK
  CallbackFailsForAReason
  CookieFollowsTheUser
PROPERTY LinksFollowTheirAccount
