CONSTANTS
  a1 = a1
  b1 = b1
  b2 = b2
  d1 = d1
  t1 = t1
  t2 = t2
  t3 = t3
  n1 = n1
  n2 = n2
  x1 = x1
  x2 = x2
  NoPlugin = NoPlugin
  PluginId = {"a", "b", "d"}
  Plugin = {a1, b1, b2, d1}
  idOf <- MCidOf
  dependencies <- MCdependencies
  versions <- MCversions
  priority <- MCpriority
  coreVersion <- MCcoreVersion
  PluginCall = {1, 2}
  MaxPluginCalls = 4
  NoAgent = NoAgent
  NoWorkflow = NoWorkflow
  AgentId = {"x", "y"}
  AgentType = {"coder", "tester"}
  defaultCapabilities <- MCcapabilities
  Task = {t1, t2, t3, n1, n2, x1, x2}
  taskType <- MCtaskType
  priorityOf <- MCpriorityOf
  Batch <- MCBatch
  MaxSpawns = 2
  MaxReconfigures = 1
  WorkflowId = {"w", "n"}
  tasksOf <- MCtasksOf
  taskDependencies <- MCtaskDependencies
  assignedTo <- MCassignedTo
  nestedIn <- MCnestedIn
  rollbackOnFailure = {"w"}
  hasRollback = {t1, t2}
  MaxControls = 1
  MemoryId = {1, 2, 3}
  Owner <- MCOwner
  Learning = "learning"
  NoMemory = NoMemory
  similarity <- MCsimilarity
  domainOf <- MCdomainOf
  severityOf <- MCseverityOf
  MemoryCall = {1, 2}
  MaxMemoryOps = 3
  K = 1
  Server = {1, 2}
  Recipient = {"r", "q", "all"}
  Broadcast = "all"
  Torn = Torn
  MaxMessages = 2
  MaxKills = 1
SPECIFICATION Spec
CHECK_DEADLOCK FALSE
INVARIANTS
  PluginsLinked
  TasksAccounted
  Connected
  TasksInOrder
  ResultTrue
  MemoryConsistent
  SentIsKept
PROPERTIES
  ShutdownEmpties
  WorkflowsEnd
