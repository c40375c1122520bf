\* Three requests, one account with or without the address, two identities of
\* OAuth connectors and one of VRChat.
SPECIFICATION Spec
CONSTANTS
  Requests = {r1, r2, r3}
  OldUsers = {u1}
  Upstream = {i1, i2}
  VRChat = {v1}
  Emails = {e1}
  NoEmail = NoEmail
  NoIdentity = NoIdentity
  Nobody = Nobody
  MaxEvents = 1
SYMMETRY RequestSymmetry
INVARIANTS
  TypeOK
  SignInsAgree
  EmptyAccountHasAReason
PROPERTY LinkNeverMoves
