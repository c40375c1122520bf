\* Three administrative calls, two users, two clients; see MCAdminApi for the
\* forms of the calls.
SPECIFICATION Spec
CONSTANTS
  alice = alice
  bob = bob
  console = console
  game = game
  r1 = r1
  r2 = r2
  r3 = r3
  admins = admins
  players = players
  Requests = {r1, r2, r3}
  Users = {alice, bob}
  Clients = {console, game}
  Tokens <- MCTokens
  Names <- MCNames
  FirstRoles <- MCFirstRoles
  FirstGrants <- MCFirstGrants
  FirstSecret = FirstSecret
  Forms <- MCForms
SYMMETRY RequestSymmetry
INVARIANTS
  TypeOK
  AdmittedWhileEntitled
  AnswersHold
