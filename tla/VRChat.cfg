\* Two concurrent verifications of one VRChat user by bio or friend request,
\* four intervals long, under fairness, with one failing call.
SPECIFICATION VRChatFairSpec
CONSTANTS
  Verifications = {r1, r2}
  VRChatUsers = {t1}
  NoCode = NoCode
  Deadline = 4
  MaxFailures = 1
INVARIANTS
  VRChatTypeOK
  VerifiedByTheUser
  TiedOnlyByLateAcceptance
PROPERTY VerificationsEnd
