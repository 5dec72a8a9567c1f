\* A pull request is closed, skipped, reopened, and skipped ever after.
SPECIFICATION Spec
CONSTANTS
  p1 = p1
  p2 = p2
  s1 = s1
  s2 = s2
  Publisher = {p1, p2}
  Sha = {s1, s2}
  Verdict <- MCVerdict
  Settings <- MCGitHub
  PageSize = 2
  MaxComments = 3
  Other = Other
  None = None
  Bounds <- MCReopen
PROPERTY ReopenedIsPublished
