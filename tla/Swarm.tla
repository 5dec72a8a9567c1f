-------------------------------- MODULE Swarm --------------------------------
(***************************************************************************)
(* The swarm coordinator of ruflo and its agents: who is in the swarm, who *)
(* is connected to whom, which tasks run on which agent and what each      *)
(* agent's metrics count.  A task runs asynchronously: agents come, go and *)
(* are replaced under the same id while it does.                           *)
(***************************************************************************)
EXTENDS Integers, Sequences, FiniteSets, Subsequences

CONSTANTS
  AgentId,
  AgentType,       \* kinds of agents; defaultCapabilities[ty] for those scaled up
  defaultCapabilities,
  Task,
  taskType,        \* [Task -> type of the task]
  priorityOf,      \* [Task -> {"high", "medium", "low"}]
  NoAgent,         \* undefined
  Batch,           \* sequences of tasks given to executeTasksConcurrently
  MaxSpawns,       \* bound on the agents ever made
  MaxReconfigures  \* bound on changes of the topology

ASSUME SwarmAssumption ==
  /\ NoAgent \notin AgentId
  /\ NoAgent \notin [completed : Nat, failed : Nat]
  /\ defaultCapabilities \in [AgentType -> SUBSET {taskType[t] : t \in Task}]
  /\ IsFiniteSet(Task)
  /\ priorityOf \in [Task -> {"high", "medium", "low"}]
  /\ Batch \subseteq Seq(Task)
  /\ \A ts \in Batch : \A i, j \in DOMAIN ts : ts[i] = ts[j] => i = j
  /\ MaxSpawns \in Nat /\ MaxReconfigures \in Nat

VARIABLES
  topology,     \* "mesh", "hierarchical" or "simple"
  agents,       \* the Map of agents, as the sequence of its values
  metrics,      \* [AgentId -> record or NoAgent]: agentMetrics
  connections,  \* the set of connections: their order is nobody's input
  exec,         \* [Task -> record]: the execution of each task
  scaling,      \* what a scaleAgents in progress still has to do
  spawned,      \* agents made so far: each object has a number
  reconfigured  \* changes of the topology so far

swarmVars == <<topology, agents, metrics, connections, exec, scaling, spawned,
               reconfigured>>

Topology == {"mesh", "hierarchical", "simple"}
Role == {"leader", "worker"}  \* an agent without a role is treated as a worker

\* An agent object.  `obj` tells objects of one id apart.
AgentRecord ==
  [obj : 1 .. MaxSpawns, id : AgentId, type : AgentType, role : Role,
   capabilities : SUBSET {taskType[t] : t \in Task}, status : {"active", "busy"}]

Metrics == [completed : Nat, failed : Nat] \cup {NoAgent}

Connection == [from : AgentId, to : AgentId, type : {"peer", "leader"}]

noExec == [pc |-> "none", agent |-> NoAgent, obj |-> 0, result |-> "none"]

ExecType == [pc : {"none", "running", "ended"}, agent : AgentId \cup {NoAgent},
             obj : 0 .. MaxSpawns, result : {"none", "completed", "failed"}]

noScaling == [type |-> NoAgent, left |-> 0]

SwarmTypeOK ==
  /\ topology \in Topology
  /\ agents \in Seq(AgentRecord)
  /\ \A i, j \in DOMAIN agents : agents[i].id = agents[j].id => i = j
  /\ metrics \in [AgentId -> Metrics]
  /\ connections \subseteq Connection
  /\ exec \in [Task -> ExecType]
  /\ scaling \in [type : AgentType \cup {NoAgent}, left : Nat]
  /\ scaling.left > 0 => scaling.type \in AgentType
  /\ spawned \in 0 .. MaxSpawns
  /\ reconfigured \in 0 .. MaxReconfigures

------------------------------------------------------------------------------
(* Agents. *)

idsOf(all) == {all[i].id : i \in DOMAIN all}
swarmIds == idsOf(agents)
inSwarm(a) == a \in swarmIds

\* What find gives: the first of some positions.
first(I) == CHOOSE i \in I : \A j \in I : i <= j

\* A type of task that needs no capability is anybody's: only the listed types
\* need one, which is named like the type.
canExecute(agent, t) == taskType[t] = "free" \/ taskType[t] \in agent.capabilities

\* Mutant: the status is not looked at.
availableAlways(agent) == TRUE

\* An agent is idle only after setIdle, which only a test calls.
available(agent) == agent.status = "active"

leadersIn(all) == {i \in DOMAIN all : all[i].role = "leader"}

\* updateConnections: a mesh gets a connection to every other agent, in a
\* hierarchy a follower one to the first leader there is now.
newConnections(agent, all, topo) ==
  IF topo = "mesh"
  THEN {[from |-> agent.id, to |-> other, type |-> "peer"] : other \in idsOf(all) \ {agent.id}}
  ELSE IF topo = "hierarchical" /\ leadersIn(all) # {} /\ agent.role # "leader"
  THEN {[from |-> agent.id, to |-> all[first(leadersIn(all))].id, type |-> "leader"]}
  ELSE {}

\* The Map's set: a known id keeps its place and gets the new object.
withAgent(agent) ==
  IF inSwarm(agent.id)
  THEN [i \in DOMAIN agents |-> IF agents[i].id = agent.id THEN agent ELSE agents[i]]
  ELSE Append(agents, agent)

freshMetrics == [completed |-> 0, failed |-> 0]

\* spawnAgent, up to its await, which only records the event.
spawn(a, ty, role, caps) ==
  LET agent == [obj |-> spawned + 1, id |-> a, type |-> ty, role |-> role,
                capabilities |-> caps, status |-> "active"]
  IN /\ spawned < MaxSpawns
     /\ spawned' = spawned + 1
     /\ agents' = withAgent(agent)
     /\ metrics' = [metrics EXCEPT ![a] = freshMetrics]
     /\ connections' = connections \cup newConnections(agent, withAgent(agent), topology)

SpawnAgent(a, ty, role) ==
  /\ spawn(a, ty, role, defaultCapabilities[ty])
  /\ UNCHANGED <<topology, exec, scaling, reconfigured>>

\* Mutant: connections to the terminated agent stay.
terminateHalf(ids) ==
  /\ agents' = Subsequence(agents, {i \in DOMAIN agents : agents[i].id \notin ids})
  /\ metrics' = [a \in AgentId |-> IF a \in ids THEN NoAgent ELSE metrics[a]]
  /\ connections' = {c \in connections : c.from \notin ids}

\* terminateAgent: the object is marked, leaves the Map, and takes its metrics
\* and connections along.  Its running task goes on.
terminate(ids) ==
  /\ agents' = Subsequence(agents, {i \in DOMAIN agents : agents[i].id \notin ids})
  /\ metrics' = [a \in AgentId |-> IF a \in ids THEN NoAgent ELSE metrics[a]]
  /\ connections' = {c \in connections : c.from \notin ids /\ c.to \notin ids}

TerminateAgent(a) ==
  /\ inSwarm(a)
  /\ terminate({a})
  /\ UNCHANGED <<topology, exec, scaling, spawned, reconfigured>>

ShutdownSwarm ==
  /\ agents # <<>>
  /\ agents' = <<>> /\ connections' = {}
  /\ metrics' = [a \in AgentId |-> NoAgent]
  /\ UNCHANGED <<topology, exec, scaling, spawned, reconfigured>>

\* scaleAgents: down at once, the oldest of the type first; up one agent at a
\* time, awaiting each.
ofType(ty) == {i \in DOMAIN agents : agents[i].type = ty}

ScaleDown(ty, n) ==
  LET oldest == {i \in ofType(ty) : Cardinality({j \in ofType(ty) : j <= i}) <= n}
  IN /\ scaling.left = 0
     /\ ofType(ty) # {}
     /\ terminate({agents[i].id : i \in oldest})
     /\ UNCHANGED <<topology, exec, scaling, spawned, reconfigured>>

ScaleUp(ty, n) ==
  /\ scaling.left = 0
  /\ scaling' = [type |-> ty, left |-> n]
  /\ UNCHANGED <<topology, agents, metrics, connections, exec, spawned, reconfigured>>

\* The id is made of the type, the time and a counter: one not in use, or that
\* of an agent of the type which another call made in the same millisecond.
ScaleStep ==
  /\ scaling.left > 0
  /\ \E a \in {a \in AgentId : \A i \in DOMAIN agents \ ofType(scaling.type) :
                                agents[i].id # a} :
       spawn(a, scaling.type, "worker", defaultCapabilities[scaling.type])
  /\ scaling' = IF scaling.left = 1 THEN noScaling ELSE [scaling EXCEPT !.left = @ - 1]
  /\ UNCHANGED <<topology, exec, reconfigured>>

\* reconfigure: all connections are made anew, agent by agent.
Reconfigure(topo) ==
  /\ reconfigured < MaxReconfigures
  /\ reconfigured' = reconfigured + 1
  /\ topology' = topo
  /\ connections' = UNION {newConnections(agents[i], agents, topo) : i \in DOMAIN agents}
  /\ UNCHANGED <<agents, metrics, exec, scaling, spawned>>

------------------------------------------------------------------------------
(* Tasks. *)

\* The metrics filed under the id, if there are any, count a task.
counted(ms, a, result) ==
  LET m == ms[a]
  IN IF m = NoAgent THEN ms
     ELSE [ms EXCEPT ![a] = IF result = "completed"
                            THEN [m EXCEPT !.completed = m.completed + 1]
                            ELSE [m EXCEPT !.failed = m.failed + 1]]

\* Agent.executeTask up to its await.  `pair` is a task with the id of its agent.
startOne(state, pair) ==
  LET at == {i \in DOMAIN state.agents : state.agents[i].id = pair.agent}
      agent == state.agents[first(at)]
      outcome(pc, obj, result) ==
        [state.exec EXCEPT ![pair.task] =
           [pc |-> pc, agent |-> pair.agent, obj |-> obj, result |-> result]]
  IN IF at = {}
     THEN [state EXCEPT !.exec = outcome("ended", 0, "failed")]
     ELSE IF available(agent)
     THEN [agents |-> [state.agents EXCEPT ![first(at)].status = "busy"],
           metrics |-> state.metrics,
           exec |-> outcome("running", agent.obj, "none")]
     ELSE [agents |-> state.agents,
           metrics |-> counted(state.metrics, pair.agent, "failed"),
           exec |-> outcome("ended", agent.obj, "failed")]

\* Some tasks one after the other: executeTasksConcurrently starts all of its
\* assignments in one go.
startTasks(pairs) ==
  LET now == [agents |-> agents, metrics |-> metrics, exec |-> exec]
      started[k \in 0 .. Len(pairs)] ==
        IF k = 0 THEN now ELSE startOne(started[k - 1], pairs[k])
      after == started[Len(pairs)]
  IN /\ agents' = after.agents
     /\ metrics' = after.metrics
     /\ exec' = after.exec

\* coordinator.executeTask.
ExecuteTask(a, t) ==
  /\ exec[t].pc = "none"
  /\ startTasks(<<[task |-> t, agent |-> a]>>)
  /\ UNCHANGED <<topology, connections, scaling, spawned, reconfigured>>

\* What the task awaits ends well or throws: the object is active again, also
\* when it was terminated meanwhile, and the metrics count the task.
TaskEnds(t) ==
  /\ exec[t].pc = "running"
  /\ \E result \in {"completed", "failed"} :
       /\ exec' = [exec EXCEPT ![t].pc = "ended", ![t].result = result]
       /\ metrics' = counted(metrics, exec[t].agent, result)
  /\ agents' = [i \in DOMAIN agents |->
                  IF agents[i].obj = exec[t].obj THEN [agents[i] EXCEPT !.status = "active"]
                  ELSE agents[i]]
  /\ UNCHANGED <<topology, connections, scaling, spawned, reconfigured>>

------------------------------------------------------------------------------
(* Batches of tasks. *)

\* Task.sortByPriority: a stable sort.
sortByPriority(ts) ==
  LET of(p) == Subsequence(ts, {k \in DOMAIN ts : priorityOf[ts[k]] = p})
  IN of("high") \o of("medium") \o of("low")

\* distributeTasks, one task: the first of the least loaded active agents that
\* can do it; none, and the task is passed over.
assignOne(state, t) ==
  LET suitable == {i \in DOMAIN agents : canExecute(agents[i], t) /\ available(agents[i])}
      load(i) == state.loads[agents[i].id]
      best == agents[first({i \in suitable : \A j \in suitable : load(i) <= load(j)})].id
  IN IF suitable = {} THEN state
     ELSE [loads |-> [state.loads EXCEPT ![best] = @ + 1],
           pairs |-> Append(state.pairs, [task |-> t, agent |-> best])]

distributeTasks(ts) ==
  LET sorted == sortByPriority(ts)
      assigned[k \in 0 .. Len(sorted)] ==
        IF k = 0 THEN [loads |-> [a \in AgentId |-> 0], pairs |-> <<>>]
        ELSE assignOne(assigned[k - 1], sorted[k])
  IN assigned[Len(sorted)].pairs

\* executeTasksConcurrently: every assignment is started before any is awaited,
\* so an agent given two tasks refuses the second.  (distributeTasks is awaited
\* too, but awaits nothing itself.)
ExecuteTasksConcurrently(ts) ==
  /\ \A k \in DOMAIN ts : exec[ts[k]].pc = "none"
  /\ startTasks(distributeTasks(ts))
  /\ UNCHANGED <<topology, connections, scaling, spawned, reconfigured>>

------------------------------------------------------------------------------
SwarmInit ==
  /\ topology \in Topology
  /\ agents = <<>>
  /\ metrics = [a \in AgentId |-> NoAgent]
  /\ connections = {}
  /\ exec = [t \in Task |-> noExec]
  /\ scaling = noScaling
  /\ spawned = 0
  /\ reconfigured = 0

\* What becomes of the swarm itself.
Membership ==
  \/ \E a \in AgentId, ty \in AgentType, role \in Role : SpawnAgent(a, ty, role)
  \/ \E a \in AgentId : TerminateAgent(a)
  \/ ShutdownSwarm
  \/ \E ty \in AgentType, n \in 1 .. 2 : ScaleDown(ty, n) \/ ScaleUp(ty, n)
  \/ ScaleStep
  \/ \E topo \in Topology : Reconfigure(topo)

\* What tasks some callers give it, and what becomes of them.
TaskStep(given) ==
  \/ \E t \in Task : TaskEnds(t)
  \/ \E a \in AgentId, t \in given : ExecuteTask(a, t)
  \/ \E ts \in Batch : ExecuteTasksConcurrently(ts)

SwarmNext == Membership \/ TaskStep(Task)

SwarmSpec == SwarmInit /\ [][SwarmNext]_swarmVars

------------------------------------------------------------------------------
(* Properties. *)

\* An agent object runs one task at a time, also after it was terminated or
\* replaced; one that is in the swarm is busy exactly while it runs one.  Tasks
\* come from workflows, batches and single calls at once.
BusyRunsOne ==
  LET running(o) == {t \in Task : exec[t].pc = "running" /\ exec[t].obj = o}
  IN /\ \A o \in 1 .. spawned : Cardinality(running(o)) <= 1
     /\ \A i \in DOMAIN agents :
          agents[i].status = "busy" <=> running(agents[i].obj) # {}

\* The metrics under an id count the tasks that ended at the agent that has the
\* id, unless tasks of an earlier agent of that id were under way or over: those
\* are counted for its successor, which is why they are excepted.
MetricsCount ==
  \A i \in DOMAIN agents :
    LET a == agents[i]
        at == {t \in Task : exec[t].agent = a.id /\ exec[t].obj # 0}
        ended(r) == Cardinality({t \in at : exec[t].pc = "ended" /\ exec[t].result = r})
    IN (\A t \in at : exec[t].obj = a.obj)
         => metrics[a.id] = [completed |-> ended("completed"), failed |-> ended("failed")]

\* A connection joins two agents of the swarm, and in a mesh any two agents are
\* connected, whatever was spawned, replaced, terminated or reconfigured before.
Connected ==
  /\ \A c \in connections : c.from # c.to /\ {c.from, c.to} \subseteq swarmIds
  /\ topology = "mesh" =>
       \A a, b \in swarmIds : a # b =>
         \E c \in connections : {c.from, c.to} = {a, b}

\* A batch is spread evenly: a task is passed over only if no active agent can
\* do it, an agent gets only what it can do, and of two active agents that can
\* do the same, neither gets two tasks more than the other.
DistributionFair ==
  \A ts \in Batch :
    LET pairs == distributeTasks(ts)
        share(a) == Cardinality({k \in DOMAIN pairs : pairs[k].agent = a})
        able(t) == {i \in DOMAIN agents : canExecute(agents[i], t) /\ available(agents[i])}
    IN /\ \A k \in DOMAIN pairs : \E i \in able(pairs[k].task) : agents[i].id = pairs[k].agent
       /\ \A k \in DOMAIN ts :
            able(ts[k]) # {} => \E j \in DOMAIN pairs : pairs[j].task = ts[k]
       /\ \A i, j \in DOMAIN agents :
            /\ agents[i].capabilities = agents[j].capabilities
            /\ available(agents[i]) /\ available(agents[j])
            => share(agents[i].id) <= share(agents[j].id) + 1

\* What is given out, what runs and what ran adds up: the three above.
TasksAccounted == BusyRunsOne /\ MetricsCount /\ DistributionFair
=============================================================================
