\* Two tabs of one administrator, two forms, one client with
\* one field of two values.  Administrators may stop at any point.
SPECIFICATION Spec
CONSTANTS
  Tabs = {t1, t2}
  Calls = {r1, r2}
  Admins = {a1}
  FirstClients = {c1}
  Fields = {"redirectUris"}
  First = v1
  Values = {v1, v2}
  Blank = Blank
  MaxChanges = 1
  None = None
SYMMETRY Symmetry
CHECK_DEADLOCK FALSE
INVARIANTS
  TypeOK
  OncePerPage
  LockedOutOnlyByAChange
PROPERTY UndoneOnlyFromAnOlderPage
