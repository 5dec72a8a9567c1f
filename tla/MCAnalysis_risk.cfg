CONSTANTS
  RepoId = {1, 2, 3}
  File = {"f1", "f2", "f3"}
  FieldName = {"x", "id", "madeAt"}
  TypeName = {"User", "UserDTO", "Account"}
  Concept = {"User", "UserDTO", "Account"}
  conceptNames <- MCconceptNames
  pickConceptName <- MCpickConceptName
  Ecosystem <- MCEcosystem
  Undefined = Undefined
  Procedure = {"task.get", "task.list"}
  DateField = {"madeAt"}
  Workspace <- MCWorkspace
  None = None
  GraphInput <- MCGraphInput
  DigestInput <- MCDigestInput
  TextInput <- MCTextInput
  Proposal <- MCProposal
  Portfolio <- MCPortfolio
  Unknown = Unknown
  NoReport = NoReport
  Evolving <- MCEvolving
  Nowhere = Nowhere
  ConfigFiles <- MCConfigFiles
  ConfigText <- MCConfigText
  Unset = Unset
  Setting <- MCSetting
  Nobody = Nobody
  Unmeasured = Unmeasured
SPECIFICATION Spec
CHECK_DEADLOCK FALSE
INVARIANT SignalsIncreasePriority
