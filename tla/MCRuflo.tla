------------------------------ MODULE MCRuflo ------------------------------
(***************************************************************************)
(* Small instances of the parts of ruflo and of the message bus.  They     *)
(* share no state but workflows and the swarm, so that a behaviour takes   *)
(* one part at its start and leaves the others as they are.                *)
(***************************************************************************)
EXTENDS Plugins, Workflow, Memory, MessageBus, TLC

CONSTANTS a1, b1, b2, d1,        \* plugin objects: b1 and b2 carry one id
          t1, t2, t3, n1, n2, x1, x2 \* tasks of workflow w, of the nested n, and others

VARIABLE component

------------------------------------------------------------------------------
(* Values of the constants. *)

MCidOf == a1 :> "a" @@ b1 :> "b" @@ b2 :> "b" @@ d1 :> "d"
MCdependencies == a1 :> {} @@ b1 :> {"a"} @@ b2 :> {} @@ d1 :> {"b"}
MCpriority == [id \in PluginId |-> IF id = "b" THEN 1 ELSE 0]
MCcoreVersion == <<3, 0, 0>>
\* b2 asks for a later patch of the core; b1's bounds enclose it.
MCversions == [p \in Plugin |-> CASE p = b1 -> [min |-> <<2, 9>>, max |-> <<3>>]
                                  [] p = b2 -> [min |-> <<3, 0, 1>>, max |-> NoVersion]
                                  [] OTHER -> [min |-> NoVersion, max |-> NoVersion]]

MCtasksOf == "w" :> <<t1, t2, t3>> @@ "n" :> <<n1, n2>>
MCtaskDependencies == [t \in Task |-> CASE t = t2 -> {t1} [] t = t3 -> {t1, t2} [] OTHER -> {}]
MCassignedTo == [t \in Task |-> IF t = n1 THEN "x" ELSE NoAgent]
MCnestedIn == [t \in Task |-> IF t = t3 THEN "n" ELSE NoWorkflow]
MCtaskType == [t \in Task |-> IF t = x2 THEN "free" ELSE "code"]
MCpriorityOf == [t \in Task |-> IF t = t3 THEN "high" ELSE "low"]
MCcapabilities == [ty \in AgentType |-> IF ty = "coder" THEN {"code"} ELSE {}]
MCBatch == {<<x2, t1, t2>>}

MCsimilarity == [id \in MemoryId |-> id]
MCdomainOf == [id \in MemoryId |-> IF id = 3 THEN "tests" ELSE "api"]
MCseverityOf == [id \in MemoryId |-> IF id = 2 THEN "critical" ELSE "high"]
MCOwner == {"u", "learning"}

------------------------------------------------------------------------------
(* The parts. *)

PluginsPart == component = "plugins" /\ PluginsNext
               /\ UNCHANGED <<workflowVars, memoryVars, busVars>>

\* The swarm alone: batches and single tasks, no workflows.
SwarmPart ==
  /\ component = "swarm"
  /\ Membership \/ TaskStep({x1})
  /\ UNCHANGED <<flowVars, pluginVars, memoryVars, busVars>>

\* Workflows over a swarm whose agents come and go and do other work as well.
WorkflowPart ==
  /\ component = "workflow"
  /\ \/ EngineNext
     \/ /\ \/ \E a \in AgentId : SpawnAgent(a, "coder", "worker") \/ TerminateAgent(a)
           \/ \E t \in Task : TaskEnds(t)
           \/ \E a \in AgentId : ExecuteTask(a, x1)
        /\ UNCHANGED flowVars
  /\ UNCHANGED <<pluginVars, memoryVars, busVars>>

MemoryPart == component = "memory" /\ MemoryNext
              /\ UNCHANGED <<workflowVars, pluginVars, busVars>>

BusPart == component = "bus" /\ BusNext
           /\ UNCHANGED <<workflowVars, pluginVars, memoryVars>>

vars == <<component, pluginVars, workflowVars, memoryVars, busVars>>

Init ==
  /\ component \in {"plugins", "swarm", "workflow", "memory", "bus"}
  /\ PluginsInit /\ WorkflowInit /\ MemoryInit /\ BusInit
  /\ component # "swarm" => topology = "simple"

Next == /\ PluginsPart \/ SwarmPart \/ WorkflowPart \/ MemoryPart \/ BusPart
        /\ UNCHANGED component

Spec == Init /\ [][Next]_vars /\ WorkflowFairness
=============================================================================
