\* Two concurrent requests, two providers, and one failure of any kind.
SPECIFICATION Spec
CONSTANTS
  Requests = {r1, r2}
  Boot = Boot
  Providers = {p1, p2}
  EnvProviders = {p1}
  Configs = {v1, v2, blank}
  Buildable = {v1, v2}
  EnvConfig = v1
  Off = Off
  Absent = Absent
  MaxFailures = 1
SYMMETRY RequestSymmetry
INVARIANTS
  TypeOK
  WrongOnlyByOverlap
PROPERTY LiveIsASnapshot
