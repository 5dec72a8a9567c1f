CONSTANTS
  clean = clean
  edited = edited
  drifted = drifted
  qa = qa
  NoArtifact = NoArtifact
  Owner = {qa}
  Proc = {p1, p2}
  Tree = {clean, edited, drifted}
  Refs = {fa, fb}
  Configs <- OpenOrStrict
  Facts <- MCFacts
  Sig <- MCSig
  MaxPlans = 3
  MaxCrashes = 1
SPECIFICATION MCSpec
INVARIANTS
  TypeOK
  BlockedNeverApplied
  AppliesRequestedRefs
  SnapshotsFiledRight
  ReviewMatchesPlan
  StoreServesRollback
SYMMETRY ProcSymmetry
CHECK_DEADLOCK FALSE
