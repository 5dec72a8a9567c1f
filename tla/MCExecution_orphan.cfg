CONSTANTS
  r1 = r1
  r2 = r2
  a = a
  b = b
  Base = Base
  Repo = {r1, r2}
  Plan = {a, b}
  Proc = {p1}
  Affected <- MCAffected
  Permitted = {a, b}
  HasBase = {r1, r2}
  HasRemote = {r1}
  CreatePullRequest = TRUE
  GitHub = TRUE
  Interfere = FALSE
  MaxCrashes = 1
SPECIFICATION Spec
INVARIANT RollbackLeavesNothing
