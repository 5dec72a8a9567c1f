\* One publisher meeting faults, two that may overlap, a page of two comments.
SPECIFICATION Spec
CONSTANTS
  p1 = p1
  p2 = p2
  s1 = s1
  s2 = s2
  Publisher = {p1, p2}
  Sha = {s1, s2}
  Verdict <- MCVerdict
  Settings <- MCSettings
  PageSize = 2
  MaxComments = 3
  Other = Other
  None = None
  Bounds <- MCBounds
INVARIANTS TypeOK ReviewShown NoLatePublish
PROPERTIES PublishLands
