\* One request, one approved client, nothing fails.
SPECIFICATION Spec
CONSTANTS
  Requests = {r1}
  Users = {u1}
  c1 = c1
  c2 = c2
  Clients = {c1}
  e1 = e1
  e2 = e2
  Endpoints = {e1}
  ClientOf <- MCClientOf
  FirstGrants <- MCFirstGrants
  References = {}
  MaxAttempts = 2
  MaxEdits = 0
  MaxDbFailures = 0
  MaxCrashes = 0
PROPERTY ApprovedClientsAreTold
