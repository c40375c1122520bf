\* Four requests of one session, two accounts: two logins with a callback each, or a
\* login, its callback, a reload of that callback and a logout.
SPECIFICATION SdkSpec
CONSTANTS
  Requests = {q1, q2, q3, q4}
  Accounts = {alice, bob}
  Nobody = Nobody
SYMMETRY SessionSymmetry
INVARIANTS
  SdkTypeOK
  SessionFollowsTheBrowser
  RefusedForAReason
