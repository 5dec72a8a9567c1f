CONSTANTS
  clean = clean
  edited = edited
  drifted = drifted
  qa = qa
  NoArtifact = NoArtifact
  Owner = {qa}
  Proc = {p1}
  Tree = {clean, drifted}
  Refs = {fa, fb}
  Configs <- OpenOnly
  Facts <- MCFacts
  Sig <- MCSig
  MaxPlans = 2
  MaxCrashes = 0
SPECIFICATION MCSpec
PROPERTIES
  ApplyBlockedWhileDrift
CHECK_DEADLOCK FALSE
