CONSTANTS
  r1 = r1
  r2 = r2
  a = a
  b = b
  Base = Base
  Repo = {r1}
  Plan = {a, b}
  Proc = {p1, p2}
  Affected <- MCAffectedOne
  Permitted = {a}
  HasBase = {r1}
  HasRemote = {r1}
  CreatePullRequest = TRUE
  GitHub = TRUE
  Interfere = TRUE
  MaxCrashes = 1
SPECIFICATION Spec
INVARIANTS
  TypeOK
  Bounded
  HeadExists
PROPERTIES
  Implements
