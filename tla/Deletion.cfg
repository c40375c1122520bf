\* Two concurrent requests for one user and one endpoint, one crash.
SPECIFICATION Spec
CONSTANTS
  Requests = {r1, r2}
  Users = {u1}
  c1 = c1
  c2 = c2
  Clients = {c1}
  e1 = e1
  e2 = e2
  Endpoints = {e1}
  ClientOf <- MCClientOf
  FirstGrants <- MCFirstGrants
  References = {x1}
  MaxAttempts = 2
  MaxEdits = 1
  MaxDbFailures = 1
  MaxCrashes = 1
SYMMETRY RequestSymmetry
INVARIANTS
  TypeOK
  LoggedOnce
PROPERTY RemovalIsAtomic
