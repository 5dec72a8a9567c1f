\* A dirty tree is cached under its commit, and served for the clean tree.
SPECIFICATION Spec
CONSTANTS
  r1 = r1
  h1 = h1
  e1 = e1
  Repo = {r1}
  Head = {h1}
  Edit = {e1}
  Names <- MCNames
  Split = {}
  NoEdit = NoEdit
  Gone = Gone
  c1 = c1
  c2 = c2
  f1 = f1
  f2 = f2
  Command = {c1, c2}
  Flush = {f1, f2}
  LegacyState <- MCLegacy
  None = None
  Bounds <- MCBounds
INVARIANT CleanHitIsClean
\* The watch loop alone waits for ever once nothing changes.
CHECK_DEADLOCK FALSE
