\* One request under fairness, two endpoints of two clients, one edit of them, a
\* role granted meanwhile, one failing INSERT and one crash.
SPECIFICATION FairSpec
CONSTANTS
  Requests = {r1}
  Users = {u1}
  c1 = c1
  c2 = c2
  Clients = {c1, c2}
  e1 = e1
  e2 = e2
  Endpoints = {e1, e2}
  ClientOf <- MCClientOf
  FirstGrants <- MCFirstGrants
  References = {x1}
  MaxAttempts = 3
  MaxEdits = 1
  MaxDbFailures = 1
  MaxCrashes = 1
INVARIANT RemovedAfterDelivery
PROPERTIES
  ConsentingClientsAreTold
  DeletionCompletes
