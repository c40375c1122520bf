\* Three concurrent requests, two accounts, one of which has given a grant; grants
\* may expire.
SPECIFICATION Spec
CONSTANTS
  Requests = {r1, r2, r3}
  u1 = u1
  u2 = u2
  g1 = g1
  g2 = g2
  Accounts = {u1, u2}
  OldGrants = {g1}
  Owner <- MCOwner
  NoGrant = NoGrant
  Expirable = {"Grant"}
SYMMETRY RequestSymmetry
INVARIANTS
  TypeOK
  NothingEarlierSurvives
  RevocationMissesOnlyOverlap
  ExchangedTwiceOnlyByOverlap
PROPERTIES
  DeletedTokensStayDeleted
  OnlyOwnRowsRevoked
