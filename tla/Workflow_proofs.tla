--------------------------- MODULE Workflow_proofs ---------------------------
(***************************************************************************)
(* Theorems about Swarm and about Workflow, which extends it.              *)
(*                                                                         *)
(* The swarm: an agent object runs one task at a time, its metrics count   *)
(* what ended at it, and batches are spread evenly.  Starting tasks and    *)
(* distributing them go through a sequence, so both are treated as so many *)
(* steps from a state, each of which keeps an invariant of the state       *)
(* (StartedOne and StartedAll, AssignedOne and Distributed).               *)
(*                                                                         *)
(* The workflows: with each run, the invariant keeps that what is to do    *)
(* and what was tried are all of its tasks, in an order their dependencies *)
(* allow, and that only the task it awaits, or what is inside it, moves.   *)
(***************************************************************************)
EXTENDS Workflow, Lemmas, FiniteSetTheorems, SequenceTheorems, TLAPS

\* What a task step works on: the agents, their metrics, the executions.
TaskState == [agents : Seq(AgentRecord), metrics : [AgentId -> Metrics], exec : [Task -> ExecType]]

now == [agents |-> agents, metrics |-> metrics, exec |-> exec]

\* Objects have numbers up to n, of which each tells one object and its id.
Objects(st, n) ==
  /\ \A i, j \in DOMAIN st.agents : st.agents[i].id = st.agents[j].id => i = j
  /\ \A i, j \in DOMAIN st.agents : st.agents[i].obj = st.agents[j].obj => i = j
  /\ \A i \in DOMAIN st.agents : st.agents[i].obj <= n /\ st.metrics[st.agents[i].id] # NoAgent
  /\ \A t \in Task : /\ st.exec[t].obj <= n
                     /\ st.exec[t].obj # 0 => st.exec[t].agent \in AgentId
                     /\ st.exec[t].pc = "none" => st.exec[t].obj = 0
                     /\ st.exec[t].pc = "running" => st.exec[t].obj # 0
                     /\ \A i \in DOMAIN st.agents :
                          st.exec[t].obj = st.agents[i].obj => st.exec[t].agent = st.agents[i].id

runsOn(ex, t, o) == ex[t].pc = "running" /\ ex[t].obj = o

\* An object runs one task at most, and who is busy runs one.
OneEach(st) ==
  /\ \A s, t \in Task : \A o \in 1 .. MaxSpawns :
       runsOn(st.exec, s, o) /\ runsOn(st.exec, t, o) => s = t
  /\ \A i \in DOMAIN st.agents :
       st.agents[i].status = "busy" <=> \E t \in Task : runsOn(st.exec, t, st.agents[i].obj)

wasAt(ex, t, a) == ex[t].agent = a /\ ex[t].obj # 0
endedAt(ex, a, r) == {t \in Task : wasAt(ex, t, a) /\ ex[t].pc = "ended" /\ ex[t].result = r}

\* The metrics of an agent that had no predecessor with tasks are right.
Counts(st) ==
  \A i \in DOMAIN st.agents :
    LET a == st.agents[i]
    IN (\A t \in Task : wasAt(st.exec, t, a.id) => st.exec[t].obj = a.obj)
         => st.metrics[a.id] = [completed |-> Cardinality(endedAt(st.exec, a.id, "completed")),
                                failed |-> Cardinality(endedAt(st.exec, a.id, "failed"))]

TaskInv(st, n) == st \in TaskState /\ Objects(st, n) /\ OneEach(st) /\ Counts(st)

------------------------------------------------------------------------------
(* The operators. *)

\* What first gives is one of the positions, and none is before it.
LEMMA FirstOf ==
  ASSUME NEW n \in Nat, NEW I \in SUBSET (1 .. n), I # {}
  PROVE  first(I) \in I /\ \A j \in I : first(I) <= j
<1>1. \E i \in I : \A j \in I : i <= j
  <2>1. I \in SUBSET Nat
    OBVIOUS
  <2> QED
    BY <2>1, LeastElement
<1> QED
  BY <1>1 DEF first

\* What a member of the swarm is.
LEMMA AgentFields ==
  ASSUME NEW all \in Seq(AgentRecord), NEW i \in DOMAIN all
  PROVE  /\ all[i] \in AgentRecord /\ all[i].id \in AgentId /\ all[i].obj \in 1 .. MaxSpawns
         /\ all[i].status \in {"active", "busy"} /\ all[i].role \in Role
<1>1. all[i] \in AgentRecord
  OBVIOUS
<1> QED
  BY <1>1 DEF AgentRecord

oneMore(m, result) ==
  IF result = "completed" THEN [completed |-> m.completed + 1, failed |-> m.failed]
  ELSE [completed |-> m.completed, failed |-> m.failed + 1]

\* The metrics of the id count the task.
LEMMA CountedFor ==
  ASSUME NEW ms \in [AgentId -> Metrics], NEW a \in AgentId, NEW result, ms[a] # NoAgent
  PROVE  /\ counted(ms, a, result) = [ms EXCEPT ![a] = counted(ms, a, result)[a]]
         /\ counted(ms, a, result)[a] \in [completed : Nat, failed : Nat]
         /\ counted(ms, a, result)[a] = oneMore(ms[a], result)
<1> DEFINE m == oneMore(ms[a], result)
<1>1. ms[a] \in [completed : Nat, failed : Nat]
  BY DEF Metrics
<1>2. m \in [completed : Nat, failed : Nat]
  BY <1>1 DEF oneMore
<1>3. m = IF result = "completed" THEN [ms[a] EXCEPT !.completed = ms[a].completed + 1]
          ELSE [ms[a] EXCEPT !.failed = ms[a].failed + 1]
  BY <1>1 DEF oneMore
<1> HIDE DEF m
<1>4. counted(ms, a, result) = [ms EXCEPT ![a] = m]
  BY <1>3 DEF counted
<1>5. counted(ms, a, result)[a] = m
  BY <1>4
<1> QED
  BY <1>2, <1>4, <1>5 DEF m

\* Metrics stay metrics, and those of another id the same.
LEMMA CountedOne ==
  ASSUME NEW ms \in [AgentId -> Metrics], NEW a \in AgentId, NEW result
  PROVE  /\ counted(ms, a, result) \in [AgentId -> Metrics]
         /\ \A b \in AgentId : ms[b] # NoAgent => counted(ms, a, result)[b] # NoAgent
         /\ \A b \in AgentId : b # a => counted(ms, a, result)[b] = ms[b]
<1>1. CASE ms[a] = NoAgent
  BY <1>1 DEF counted
<1>2. CASE ms[a] # NoAgent
  <2>1. PICK m \in [completed : Nat, failed : Nat] : counted(ms, a, result) = [ms EXCEPT ![a] = m]
    BY <1>2, CountedFor
  <2>2. m \in Metrics /\ m # NoAgent
    BY SwarmAssumption DEF Metrics
  <2> QED
    BY <2>1, <2>2
<1> QED
  BY <1>1, <1>2

\* One task more that ended is one more for the agent it was at, and for no other.
LEMMA EndedMore ==
  ASSUME NEW ex \in [Task -> ExecType], NEW t \in Task, NEW e \in ExecType, ex[t].pc # "ended",
         NEW a \in AgentId, NEW r
  PROVE  LET after == endedAt([ex EXCEPT ![t] = e], a, r)
         IN /\ Cardinality(endedAt(ex, a, r)) \in Nat
            /\ IF e.agent = a /\ e.obj # 0 /\ e.pc = "ended" /\ e.result = r
               THEN Cardinality(after) = Cardinality(endedAt(ex, a, r)) + 1
               ELSE after = endedAt(ex, a, r)
<1> DEFINE after == endedAt([ex EXCEPT ![t] = e], a, r)
           before == endedAt(ex, a, r)
           new == e.agent = a /\ e.obj # 0 /\ e.pc = "ended" /\ e.result = r
<1>1. before \in SUBSET Task /\ t \notin before
  BY DEF endedAt
<1>2. IsFiniteSet(before) /\ Cardinality(before) \in Nat
  BY <1>1, SwarmAssumption, FS_Subset, FS_CardinalityType
<1>3. \A s \in Task : [ex EXCEPT ![t] = e][s] = IF s = t THEN e ELSE ex[s]
  OBVIOUS
<1>4. \A s \in Task : s \in after <=> IF s = t THEN new ELSE s \in before
  BY <1>3 DEF endedAt, wasAt
<1>5. after \in SUBSET Task
  BY DEF endedAt
<1> HIDE DEF after, before, new
<1>6. CASE new
  <2>1. after = before \cup {t}
    BY <1>1, <1>4, <1>5, <1>6
  <2>2. Cardinality(after) = Cardinality(before) + 1
    BY <1>1, <1>2, <2>1, FS_AddElement
  <2> QED
    BY <1>2, <1>6, <2>2 DEF after, before, new
<1>7. CASE ~new
  <2>1. after = before
    BY <1>1, <1>4, <1>5, <1>7
  <2> QED
    BY <1>2, <1>7, <2>1 DEF after, before, new
<1> QED
  BY <1>6, <1>7

------------------------------------------------------------------------------
(* A task begins, is refused or ends. *)

\* The same agents, of which some may have another status.
sameAgents(st, after) ==
  /\ DOMAIN after.agents = DOMAIN st.agents
  /\ \A i \in DOMAIN st.agents : /\ after.agents[i].id = st.agents[i].id
                                  /\ after.agents[i].obj = st.agents[i].obj

\* The execution of t becomes e, which the metrics count if it ended at an agent.
ChangedExec(st, after, t, e) ==
  /\ sameAgents(st, after)
  /\ after.exec = [st.exec EXCEPT ![t] = e]
  /\ after.metrics = IF e.obj # 0 /\ e.pc = "ended" THEN counted(st.metrics, e.agent, e.result)
                     ELSE st.metrics

\* Objects and ids stay what they were.
LEMMA ObjectsKept ==
  ASSUME NEW st \in TaskState, NEW after, NEW n \in 0 .. MaxSpawns, NEW t \in Task,
         NEW e \in ExecType, ChangedExec(st, after, t, e), Objects(st, n),
         e.obj <= n, e.pc # "none", e.obj # 0 => e.agent \in AgentId,
         e.pc = "running" => e.obj # 0,
         \A i \in DOMAIN st.agents : e.obj = st.agents[i].obj => e.agent = st.agents[i].id
  PROVE  Objects(after, n) /\ after.exec \in [Task -> ExecType] /\ after.metrics \in [AgentId -> Metrics]
<1>1. /\ st.agents \in Seq(AgentRecord) /\ st.metrics \in [AgentId -> Metrics]
      /\ st.exec \in [Task -> ExecType]
  BY DEF TaskState
<1>2. /\ after.metrics \in [AgentId -> Metrics]
      /\ \A b \in AgentId : st.metrics[b] # NoAgent => after.metrics[b] # NoAgent
  <2>1. CASE e.obj # 0 /\ e.pc = "ended"
    <3>1. after.metrics = counted(st.metrics, e.agent, e.result) /\ e.agent \in AgentId
      BY <2>1 DEF ChangedExec
    <3> QED
      BY <1>1, <3>1, CountedOne
  <2>2. CASE ~(e.obj # 0 /\ e.pc = "ended")
    BY <1>1, <2>2 DEF ChangedExec
  <2> QED
    BY <2>1, <2>2
<1>3. after.exec \in [Task -> ExecType]
      /\ \A s \in Task : after.exec[s] = IF s = t THEN e ELSE st.exec[s]
  BY <1>1 DEF ChangedExec
<1>4. sameAgents(st, after)
  BY DEF ChangedExec
<1>5. \A i \in DOMAIN st.agents : st.agents[i].id \in AgentId
  BY <1>1, AgentFields
<1>6. /\ \A i, j \in DOMAIN after.agents : after.agents[i].id = after.agents[j].id => i = j
      /\ \A i, j \in DOMAIN after.agents : after.agents[i].obj = after.agents[j].obj => i = j
  BY <1>4 DEF sameAgents, Objects
<1>7. \A i \in DOMAIN after.agents :
        after.agents[i].obj <= n /\ after.metrics[after.agents[i].id] # NoAgent
  BY <1>2, <1>4, <1>5 DEF sameAgents, Objects
<1>8. ASSUME NEW s \in Task
      PROVE  /\ after.exec[s].obj <= n
             /\ after.exec[s].obj # 0 => after.exec[s].agent \in AgentId
             /\ after.exec[s].pc = "none" => after.exec[s].obj = 0
             /\ after.exec[s].pc = "running" => after.exec[s].obj # 0
             /\ \A i \in DOMAIN after.agents :
                  after.exec[s].obj = after.agents[i].obj => after.exec[s].agent = after.agents[i].id
  <2>1. CASE s = t
    BY <1>3, <1>4, <2>1 DEF sameAgents
  <2>2. CASE s # t
    BY <1>3, <1>4, <2>2 DEF sameAgents, Objects
  <2> QED
    BY <2>1, <2>2
<1> QED
  BY <1>2, <1>3, <1>6, <1>7, <1>8 DEF Objects

\* The metrics stay right.
LEMMA CountsKept ==
  ASSUME NEW st \in TaskState, NEW after, NEW n \in 0 .. MaxSpawns, NEW t \in Task,
         NEW e \in ExecType, ChangedExec(st, after, t, e), Objects(st, n), Counts(st),
         st.exec[t].pc # "ended", e.pc = "ended" => e.result # "none",
         st.exec[t].obj # 0 => e.obj = st.exec[t].obj /\ e.agent = st.exec[t].agent
  PROVE  Counts(after)
<1>1. /\ st.agents \in Seq(AgentRecord) /\ st.metrics \in [AgentId -> Metrics]
      /\ st.exec \in [Task -> ExecType]
  BY DEF TaskState
<1>2. after.exec = [st.exec EXCEPT ![t] = e]
      /\ \A s \in Task : after.exec[s] = IF s = t THEN e ELSE st.exec[s]
  BY <1>1 DEF ChangedExec
<1> SUFFICES ASSUME NEW i \in DOMAIN after.agents,
                    \A s \in Task : wasAt(after.exec, s, after.agents[i].id)
                                      => after.exec[s].obj = after.agents[i].obj
             PROVE  after.metrics[after.agents[i].id] =
                      [completed |-> Cardinality(endedAt(after.exec, after.agents[i].id, "completed")),
                       failed |-> Cardinality(endedAt(after.exec, after.agents[i].id, "failed"))]
  BY DEF Counts
<1> DEFINE a == after.agents[i].id
           has(r) == Cardinality(endedAt(st.exec, a, r))
           gets(r) == Cardinality(endedAt(after.exec, a, r))
           new(r) == e.agent = a /\ e.obj # 0 /\ e.pc = "ended" /\ e.result = r
<1>3. i \in DOMAIN st.agents /\ a = st.agents[i].id /\ after.agents[i].obj = st.agents[i].obj
      /\ a \in AgentId
  <2>1. i \in DOMAIN st.agents /\ a = st.agents[i].id /\ after.agents[i].obj = st.agents[i].obj
    BY DEF ChangedExec, sameAgents
  <2> QED
    BY <1>1, <2>1, AgentFields
<1>4. \A s \in Task : wasAt(st.exec, s, a) => st.exec[s].obj = st.agents[i].obj
  <2> SUFFICES ASSUME NEW s \in Task, wasAt(st.exec, s, a) PROVE st.exec[s].obj = st.agents[i].obj
    OBVIOUS
  <2>1. wasAt(after.exec, s, a) /\ after.exec[s].obj = st.exec[s].obj
    BY <1>2 DEF wasAt
  <2> QED
    BY <1>3, <2>1
<1>5. st.metrics[a] = [completed |-> has("completed"), failed |-> has("failed")]
  BY <1>3, <1>4 DEF Counts
<1>6. \A r : has(r) \in Nat /\ gets(r) = IF new(r) THEN has(r) + 1 ELSE has(r)
  <2> SUFFICES ASSUME NEW r PROVE has(r) \in Nat /\ gets(r) = IF new(r) THEN has(r) + 1 ELSE has(r)
    OBVIOUS
  <2> QED
    BY <1>1, <1>2, <1>3, EndedMore
<1>7. st.metrics[a] # NoAgent
  BY <1>3 DEF Objects
<1>8. e.pc = "ended" => e.result \in {"completed", "failed"}
  BY DEF ExecType
<1> HIDE DEF has, gets
<1>9. CASE e.agent = a /\ e.obj # 0 /\ e.pc = "ended"
  <2>1. after.metrics[a] = IF e.result = "completed"
                           THEN [completed |-> has("completed") + 1, failed |-> has("failed")]
                           ELSE [completed |-> has("completed"), failed |-> has("failed") + 1]
    <3>1. after.metrics = counted(st.metrics, a, e.result)
      BY <1>9 DEF ChangedExec
    <3> HIDE DEF a
    <3>2. after.metrics[a] = oneMore(st.metrics[a], e.result)
      BY <1>1, <1>3, <1>7, <3>1, CountedFor
    <3> QED
      BY <1>5, <3>2 DEF oneMore
  <2>2. after.metrics[a] = [completed |-> gets("completed"), failed |-> gets("failed")]
    BY <1>6, <1>8, <1>9, <2>1
  <2> QED
    BY <2>2 DEF gets
<1>10. CASE ~(e.agent = a /\ e.obj # 0 /\ e.pc = "ended")
  <2>1. after.metrics[a] = st.metrics[a]
    <3>1. e.obj # 0 => e.agent = a \/ e.agent # a
      OBVIOUS
    <3>2. CASE e.obj # 0 /\ e.pc = "ended"
      <4>1. e.agent # a
        BY <1>10, <3>2
      <4>2. CASE e.agent \in AgentId
        <5>1. after.metrics = counted(st.metrics, e.agent, e.result)
          BY <3>2 DEF ChangedExec
        <5>2. \A b \in AgentId : b # e.agent => counted(st.metrics, e.agent, e.result)[b] = st.metrics[b]
          BY <1>1, <4>2, CountedOne
        <5> HIDE DEF a
        <5> QED
          BY <1>3, <4>1, <5>1, <5>2
      <4>3. CASE e.agent \notin AgentId
        BY <1>1, <1>3, <3>2, <4>3 DEF ChangedExec, counted
      <4> QED
        BY <4>2, <4>3
    <3>3. CASE ~(e.obj # 0 /\ e.pc = "ended")
      BY <3>3 DEF ChangedExec
    <3> QED
      BY <3>2, <3>3
  <2>2. gets("completed") = has("completed") /\ gets("failed") = has("failed")
    BY <1>6, <1>10
  <2> QED
    BY <1>5, <2>1, <2>2 DEF gets
<1> QED
  BY <1>9, <1>10

\* An agent takes the task if it is active, which makes it busy; else the task ends
\* without having run.
LEMMA StartedOne ==
  ASSUME NEW n \in 0 .. MaxSpawns, NEW st, TaskInv(st, n),
         NEW pair \in [task : Task, agent : AgentId], st.exec[pair.task].pc = "none",
         NEW after, after = startOne(st, pair)
  PROVE  /\ TaskInv(after, n)
         /\ sameAgents(st, after)
         /\ \A t \in Task : t # pair.task => after.exec[t] = st.exec[t]
         /\ after.exec[pair.task].pc # "none"
<1> DEFINE at == {i \in DOMAIN st.agents : st.agents[i].id = pair.agent}
           agent == st.agents[first(at)]
           t == pair.task
           e(pc, obj, result) == [pc |-> pc, agent |-> pair.agent, obj |-> obj, result |-> result]
<1>1. /\ st = [agents |-> st.agents, metrics |-> st.metrics, exec |-> st.exec]
      /\ st.agents \in Seq(AgentRecord) /\ st.metrics \in [AgentId -> Metrics]
      /\ st.exec \in [Task -> ExecType] /\ st \in TaskState
  BY DEF TaskInv, TaskState
<1>2. t \in Task /\ pair.agent \in AgentId /\ st.exec[t].pc = "none" /\ st.exec[t].obj = 0
  BY DEF TaskInv, Objects
<1>3. at # {} => first(at) \in at
  <2>1. at \in SUBSET (1 .. Len(st.agents)) /\ Len(st.agents) \in Nat
    BY <1>1
  <2> HIDE DEF at
  <2> QED
    BY <2>1, FirstOf
<1>4. \A i \in DOMAIN st.agents : /\ st.agents[i] \in AgentRecord /\ st.agents[i].id \in AgentId
                                  /\ st.agents[i].obj \in 1 .. MaxSpawns
                                  /\ st.agents[i].status \in {"active", "busy"}
  BY <1>1, AgentFields
<1>5. Objects(st, n) /\ OneEach(st) /\ Counts(st)
  BY DEF TaskInv
<1>6. CASE at = {}
  <2> DEFINE f == e("ended", 0, "failed")
  <2>1. after = [agents |-> st.agents, metrics |-> st.metrics, exec |-> [st.exec EXCEPT ![t] = f]]
    BY <1>1, <1>6 DEF startOne
  <2>2. f \in ExecType /\ f.pc = "ended" /\ f.obj = 0 /\ f.agent = pair.agent /\ f.result = "failed"
    BY <1>2, SwarmAssumption DEF ExecType
  <2> HIDE DEF f
  <2>3. /\ after.agents = st.agents /\ after.metrics = st.metrics
        /\ after.exec = [st.exec EXCEPT ![t] = f]
        /\ \A s \in Task : after.exec[s] = IF s = t THEN f ELSE st.exec[s]
    BY <1>1, <2>1
  <2>4. ChangedExec(st, after, t, f)
    BY <2>2, <2>3 DEF ChangedExec, sameAgents
  <2>5. \A i \in DOMAIN st.agents : f.obj # st.agents[i].obj
    BY <1>4, <2>2
  <2>6. Objects(after, n) /\ after \in TaskState
    BY <1>1, <1>2, <1>5, <2>1, <2>2, <2>3, <2>4, <2>5, ObjectsKept DEF TaskState
  <2>7. Counts(after)
    BY <1>1, <1>2, <1>5, <2>2, <2>4, CountsKept
  <2>8. \A s \in Task : \A o \in 1 .. MaxSpawns : runsOn(after.exec, s, o) = runsOn(st.exec, s, o)
    BY <1>2, <2>2, <2>3 DEF runsOn
  <2>9. OneEach(after)
    BY <1>4, <1>5, <2>3, <2>8 DEF OneEach
  <2> QED
    BY <1>2, <2>2, <2>3, <2>4, <2>6, <2>7, <2>9 DEF TaskInv, ChangedExec
<1>7. CASE at # {} /\ available(agent)
  <2> DEFINE f == e("running", agent.obj, "none")
             i0 == first(at)
  <2>1. after = [agents |-> [st.agents EXCEPT ![i0].status = "busy"], metrics |-> st.metrics,
                 exec |-> [st.exec EXCEPT ![t] = f]]
    BY <1>7 DEF startOne
  <2>2. i0 \in DOMAIN st.agents /\ agent = st.agents[i0] /\ agent.id = pair.agent
        /\ agent.obj \in 1 .. MaxSpawns /\ agent.status = "active" /\ agent.obj <= n
    BY <1>3, <1>4, <1>5, <1>7 DEF available, Objects
  <2>3. f \in ExecType /\ f.pc = "running" /\ f.obj = agent.obj /\ f.agent = pair.agent
    BY <1>2, <2>2, SwarmAssumption DEF ExecType
  <2> HIDE DEF f, i0, agent, at
  <2>4. /\ after.agents \in Seq(AgentRecord) /\ DOMAIN after.agents = DOMAIN st.agents
        /\ after.agents[i0].id = st.agents[i0].id /\ after.agents[i0].obj = st.agents[i0].obj
        /\ after.agents[i0].status = "busy"
        /\ \A i \in DOMAIN st.agents : i # i0 => after.agents[i] = st.agents[i]
    <3>1. after.agents = [st.agents EXCEPT ![i0] = [st.agents[i0] EXCEPT !.status = "busy"]]
      BY <2>1
    <3>2. [st.agents[i0] EXCEPT !.status = "busy"] \in AgentRecord
      BY <1>4, <2>2 DEF AgentRecord
    <3>3. /\ [st.agents[i0] EXCEPT !.status = "busy"].id = st.agents[i0].id
          /\ [st.agents[i0] EXCEPT !.status = "busy"].obj = st.agents[i0].obj
          /\ [st.agents[i0] EXCEPT !.status = "busy"].status = "busy"
      BY <1>4, <2>2 DEF AgentRecord
    <3> QED
      BY <1>1, <2>2, <3>1, <3>2, <3>3
  <2>5. /\ after.metrics = st.metrics
        /\ after.exec = [st.exec EXCEPT ![t] = f]
        /\ \A s \in Task : after.exec[s] = IF s = t THEN f ELSE st.exec[s]
    BY <1>1, <2>1
  <2>6. ChangedExec(st, after, t, f)
    BY <2>3, <2>4, <2>5 DEF ChangedExec, sameAgents
  <2>7. \A i \in DOMAIN st.agents : f.obj = st.agents[i].obj => f.agent = st.agents[i].id
    BY <1>5, <2>2, <2>3 DEF Objects
  <2>8. f.obj <= n /\ f.obj # 0
    BY <2>2, <2>3
  <2>9. Objects(after, n) /\ after.metrics \in [AgentId -> Metrics] /\ after.exec \in [Task -> ExecType]
    BY <1>1, <1>2, <1>5, <2>3, <2>6, <2>7, <2>8, ObjectsKept
  <2>10. after \in TaskState
    BY <2>1, <2>4, <2>9 DEF TaskState
  <2>11. Counts(after)
    BY <1>1, <1>2, <1>5, <2>3, <2>6, CountsKept
  <2>12. \A s \in Task : ~runsOn(st.exec, s, agent.obj)
    BY <1>5, <2>2 DEF OneEach
  <2>13. \A s \in Task : \A o : runsOn(after.exec, s, o) <=> \/ s = t /\ o = agent.obj
                                                            \/ runsOn(st.exec, s, o)
    BY <1>2, <2>3, <2>5 DEF runsOn
  <2>14. \A i \in DOMAIN st.agents : st.agents[i].obj = agent.obj => i = i0
    BY <1>5, <2>2 DEF Objects
  <2>15. OneEach(after)
    <3>1. \A r, s \in Task : \A o \in 1 .. MaxSpawns :
            runsOn(after.exec, r, o) /\ runsOn(after.exec, s, o) => r = s
      BY <1>5, <2>12, <2>13 DEF OneEach
    <3>2. ASSUME NEW i \in DOMAIN after.agents
          PROVE  after.agents[i].status = "busy"
                   <=> \E s \in Task : runsOn(after.exec, s, after.agents[i].obj)
      <4>1. CASE i = i0
        BY <1>2, <2>2, <2>4, <2>13, <4>1
      <4>2. CASE i # i0
        <5>1. after.agents[i] = st.agents[i] /\ st.agents[i].obj # agent.obj
          BY <2>4, <2>14, <4>2
        <5> QED
          BY <1>5, <2>4, <2>13, <5>1 DEF OneEach
      <4> QED
        BY <4>1, <4>2
    <3> QED
      BY <3>1, <3>2 DEF OneEach
  <2> QED
    BY <1>2, <2>3, <2>5, <2>6, <2>9, <2>10, <2>11, <2>15 DEF TaskInv, ChangedExec
<1>8. CASE at # {} /\ ~available(agent)
  <2> DEFINE f == e("ended", agent.obj, "failed")
  <2>1. after = [agents |-> st.agents, metrics |-> counted(st.metrics, pair.agent, "failed"),
                 exec |-> [st.exec EXCEPT ![t] = f]]
    BY <1>8 DEF startOne
  <2>2. first(at) \in DOMAIN st.agents /\ agent.id = pair.agent
        /\ agent.obj \in 1 .. MaxSpawns /\ agent.obj <= n
    BY <1>3, <1>4, <1>5, <1>8 DEF Objects
  <2>3. f \in ExecType /\ f.pc = "ended" /\ f.obj = agent.obj /\ f.agent = pair.agent /\ f.result = "failed"
    BY <1>2, <2>2, SwarmAssumption DEF ExecType
  <2>4. f.obj <= n /\ f.obj # 0 /\ f.obj \in 1 .. MaxSpawns
    BY <2>2, <2>3
  <2>5. \A i \in DOMAIN st.agents : f.obj = st.agents[i].obj => f.agent = st.agents[i].id
    BY <1>5, <2>2, <2>3 DEF Objects
  <2> HIDE DEF f, agent, at
  <2>6. /\ after.agents = st.agents /\ after.metrics = counted(st.metrics, pair.agent, "failed")
        /\ after.exec = [st.exec EXCEPT ![t] = f]
        /\ \A s \in Task : after.exec[s] = IF s = t THEN f ELSE st.exec[s]
    BY <1>1, <2>1
  <2>7. ChangedExec(st, after, t, f)
    BY <2>3, <2>4, <2>6 DEF ChangedExec, sameAgents
  <2>8. Objects(after, n) /\ after.metrics \in [AgentId -> Metrics] /\ after.exec \in [Task -> ExecType]
    BY <1>1, <1>2, <1>5, <2>3, <2>4, <2>5, <2>7, ObjectsKept
  <2>9. after \in TaskState
    BY <1>1, <2>1, <2>8 DEF TaskState
  <2>10. Counts(after)
    BY <1>1, <1>2, <1>5, <2>3, <2>7, CountsKept
  <2>11. \A s \in Task : \A o \in 1 .. MaxSpawns : runsOn(after.exec, s, o) = runsOn(st.exec, s, o)
    BY <1>2, <2>3, <2>6 DEF runsOn
  <2>12. OneEach(after)
    BY <1>4, <1>5, <2>6, <2>11 DEF OneEach
  <2> QED
    BY <1>2, <2>3, <2>6, <2>7, <2>8, <2>9, <2>10, <2>12 DEF TaskInv, ChangedExec
<1> QED
  BY <1>6, <1>7, <1>8

\* Whatever the state is, the start of a task gives another one.
LEMMA StartTyped ==
  ASSUME NEW st \in TaskState, NEW pair \in [task : Task, agent : AgentId]
  PROVE  startOne(st, pair) \in TaskState
<1> DEFINE after == startOne(st, pair)
           at == {i \in DOMAIN st.agents : st.agents[i].id = pair.agent}
           agent == st.agents[first(at)]
           t == pair.task
           e(pc, obj, result) == [pc |-> pc, agent |-> pair.agent, obj |-> obj, result |-> result]
           ex(f) == [st.exec EXCEPT ![t] = f]
<1>1. /\ st = [agents |-> st.agents, metrics |-> st.metrics, exec |-> st.exec]
      /\ st.agents \in Seq(AgentRecord) /\ st.metrics \in [AgentId -> Metrics]
      /\ st.exec \in [Task -> ExecType]
  BY DEF TaskState
<1>2. t \in Task /\ pair.agent \in AgentId
  OBVIOUS
<1>3. at # {} => first(at) \in DOMAIN st.agents
  <2>1. at \in SUBSET (1 .. Len(st.agents)) /\ Len(st.agents) \in Nat
    BY <1>1
  <2> HIDE DEF at
  <2> QED
    BY <1>1, <2>1, FirstOf
<1>4. at # {} => agent \in AgentRecord /\ agent.obj \in 1 .. MaxSpawns
  BY <1>1, <1>3, AgentFields
<1>5. \A f \in ExecType : ex(f) \in [Task -> ExecType]
  BY <1>1, <1>2
<1>6. CASE at = {}
  <2> DEFINE f == e("ended", 0, "failed")
  <2>1. after = [agents |-> st.agents, metrics |-> st.metrics, exec |-> ex(f)]
    BY <1>1, <1>6 DEF startOne
  <2>2. f \in ExecType
    BY <1>2, SwarmAssumption DEF ExecType
  <2> HIDE DEF f, after, ex
  <2> QED
    BY <1>1, <1>5, <2>1, <2>2 DEF TaskState, after
<1>7. CASE at # {} /\ available(agent)
  <2> DEFINE f == e("running", agent.obj, "none")
             all == [st.agents EXCEPT ![first(at)].status = "busy"]
  <2>1. after = [agents |-> all, metrics |-> st.metrics, exec |-> ex(f)]
    BY <1>7 DEF startOne
  <2>2. f \in ExecType
    BY <1>2, <1>4, <1>7, SwarmAssumption DEF ExecType
  <2>3. all \in Seq(AgentRecord)
    <3>1. [agent EXCEPT !.status = "busy"] \in AgentRecord
      BY <1>4, <1>7 DEF AgentRecord
    <3>2. all = [st.agents EXCEPT ![first(at)] = [agent EXCEPT !.status = "busy"]]
      OBVIOUS
    <3> HIDE DEF all, agent, at
    <3> QED
      BY <1>1, <1>3, <1>7, <3>1, <3>2
  <2> HIDE DEF f, after, ex, all
  <2> QED
    BY <1>1, <1>5, <2>1, <2>2, <2>3 DEF TaskState, after
<1>8. CASE at # {} /\ ~available(agent)
  <2> DEFINE f == e("ended", agent.obj, "failed")
             ms == counted(st.metrics, pair.agent, "failed")
  <2>1. after = [agents |-> st.agents, metrics |-> ms, exec |-> ex(f)]
    BY <1>8 DEF startOne
  <2>2. f \in ExecType
    BY <1>2, <1>4, <1>8, SwarmAssumption DEF ExecType
  <2>3. ms \in [AgentId -> Metrics]
    BY <1>1, <1>2, CountedOne
  <2> HIDE DEF f, after, ex, ms
  <2> QED
    BY <1>1, <1>5, <2>1, <2>2, <2>3 DEF TaskState, after
<1> QED
  BY <1>6, <1>7, <1>8

\* Exactly the tasks of some pairs have begun.
others(pairs, s) == \A j \in DOMAIN pairs : pairs[j].task # s
begunOnly(pairs, ex, after) ==
  /\ \A s \in Task : others(pairs, s) => after[s] = ex[s]
  /\ \A j \in DOMAIN pairs : after[pairs[j].task].pc # "none"

\* Tasks that are started one after the other are so as one by one.
LEMMA StartedAll ==
  ASSUME NEW n \in 0 .. MaxSpawns, NEW st, TaskInv(st, n),
         NEW pairs \in Seq([task : Task, agent : AgentId]),
         \A k \in DOMAIN pairs : st.exec[pairs[k].task].pc = "none",
         \A j, k \in DOMAIN pairs : pairs[j].task = pairs[k].task => j = k,
         NEW f,
         f = CHOOSE g : g = [k \in 0 .. Len(pairs) |->
                               IF k = 0 THEN st ELSE startOne(g[k - 1], pairs[k])]
  PROVE  /\ TaskInv(f[Len(pairs)], n) /\ sameAgents(st, f[Len(pairs)])
         /\ begunOnly(pairs, st.exec, f[Len(pairs)].exec)
<1> DEFINE l == Len(pairs)
           Started(g) == g = [k \in 0 .. l |-> IF k = 0 THEN st ELSE startOne(g[k - 1], pairs[k])]
           step == [k \in 1 .. l |-> [x \in TaskState |-> startOne(x, pairs[k])]]
<1>1. l \in Nat /\ DOMAIN pairs = 1 .. l /\ st \in TaskState
      /\ \A k \in 1 .. l : pairs[k] \in [task : Task, agent : AgentId]
  <2>1. \A S : pairs \in Seq(S) => \A k \in 1 .. Len(pairs) : pairs[k] \in S
    OBVIOUS
  <2>2. l \in Nat /\ DOMAIN pairs = 1 .. l
    OBVIOUS
  <2> QED
    BY <2>1, <2>2 DEF TaskInv
<1>2. \E r : Started(r)
  <2>1. step \in [1 .. l -> [TaskState -> TaskState]]
    <3> SUFFICES ASSUME NEW k \in 1 .. l PROVE [x \in TaskState |-> startOne(x, pairs[k])] \in [TaskState -> TaskState]
      OBVIOUS
    <3> QED
      BY <1>1, StartTyped
  <2>2. \A k \in 1 .. l : \A x \in TaskState : step[k][x] = startOne(x, pairs[k])
    OBVIOUS
  <2> HIDE DEF l, step
  <2>3. PICK r \in [0 .. l -> TaskState] : Iterates(r, l, step, st)
    BY <1>1, <2>1, Iteration
  <2>4. ASSUME NEW k \in 0 .. l PROVE r[k] = IF k = 0 THEN st ELSE startOne(r[k - 1], pairs[k])
    <3>1. CASE k = 0
      BY <2>3, <3>1 DEF Iterates
    <3>2. CASE k # 0
      <4>1. k \in 1 .. l /\ r[k - 1] \in TaskState
        BY <1>1, <2>3, <3>2
      <4> QED
        BY <2>2, <2>3, <3>2, <4>1 DEF Iterates
    <3> QED
      BY <3>1, <3>2
  <2>5. Started(r)
    BY <2>3, <2>4
  <2> QED
    BY <2>5
<1>3. Started(f)
  <2>1. f = CHOOSE g : Started(g)
    OBVIOUS
  <2> HIDE DEF Started
  <2> QED
    BY <1>2, <2>1
<1>4. f[0] = st /\ \A k \in 1 .. l : f[k] = startOne(f[k - 1], pairs[k])
  <2> HIDE DEF l
  <2>1. \A k \in 0 .. l : f[k] = IF k = 0 THEN st ELSE startOne(f[k - 1], pairs[k])
    BY <1>3, Zenon DEF Started
  <2>2. 0 \in 0 .. l /\ \A k \in 1 .. l : k \in 0 .. l /\ k # 0
    BY <1>1
  <2> QED
    BY <2>1, <2>2
<1> HIDE DEF Started, l, step
<1> DEFINE Fine(k) == /\ TaskInv(f[k], n) /\ sameAgents(st, f[k])
                      /\ \A j \in 1 .. l : j > k => f[k].exec[pairs[j].task].pc = "none"
                      /\ \A j \in 1 .. l : ~(j > k) => f[k].exec[pairs[j].task].pc # "none"
                      /\ \A s \in Task : others(pairs, s) => f[k].exec[s] = st.exec[s]
           T == {k \in 0 .. l : Fine(k)}
<1>5. Fine(0)
  <2>1. sameAgents(st, st)
    BY DEF sameAgents
  <2>2. TaskInv(f[0], n) /\ sameAgents(st, f[0])
    BY <1>4, <2>1
  <2>3. \A j \in 1 .. l : f[0].exec[pairs[j].task].pc = "none"
    BY <1>1, <1>4
  <2>4. \A j \in 1 .. l : j > 0
    BY <1>1
  <2> QED
    BY <1>4, <2>2, <2>3, <2>4
<1>6. ASSUME NEW k \in 1 .. l, Fine(k - 1) PROVE Fine(k)
  <2> DEFINE x == f[k - 1]
             p == pairs[k]
             y == f[k]
  <2>1. TaskInv(x, n) /\ sameAgents(st, x)
    BY <1>6
  <2>2. \A j \in 1 .. l : j > k - 1 => x.exec[pairs[j].task].pc = "none"
    BY <1>6
  <2>3. k > k - 1 /\ \A j \in 1 .. l : j > k => j > k - 1
    BY <1>1
  <2>4. x.exec[p.task].pc = "none"
    BY <2>2, <2>3
  <2>5. y = startOne(x, p) /\ p \in [task : Task, agent : AgentId]
    BY <1>1, <1>4
  <2> HIDE DEF x, y
  <2>6. /\ TaskInv(y, n) /\ sameAgents(x, y)
        /\ \A s \in Task : s # p.task => y.exec[s] = x.exec[s]
        /\ y.exec[p.task].pc # "none"
    <3> HIDE DEF p
    <3> QED
      BY <2>1, <2>4, <2>5, StartedOne
  <2>7. sameAgents(st, y)
    BY <2>1, <2>6 DEF sameAgents
  <2>8. ASSUME NEW j \in 1 .. l, j > k PROVE y.exec[pairs[j].task].pc = "none"
    <3>1. pairs[j].task # p.task /\ pairs[j].task \in Task /\ j > k - 1
      <4>1. j # k
        BY <1>1, <2>8
      <4>2. pairs[j].task # p.task
        BY <1>1, <4>1
      <4> QED
        BY <1>1, <2>3, <2>8, <4>2
    <3> QED
      BY <2>2, <2>6, <3>1
  <2>9. ASSUME NEW j \in 1 .. l, ~(j > k) PROVE y.exec[pairs[j].task].pc # "none"
    <3>1. CASE j = k
      BY <2>6, <3>1
    <3>2. CASE j # k
      <4>1. ~(j > k - 1)
        BY <1>1, <2>9, <3>2
      <4>2. x.exec[pairs[j].task].pc # "none"
        BY <1>6, <4>1 DEF x
      <4>3. pairs[j].task # p.task /\ pairs[j].task \in Task
        BY <1>1, <3>2
      <4> QED
        BY <2>6, <4>2, <4>3
    <3> QED
      BY <3>1, <3>2
  <2>10. ASSUME NEW s \in Task, others(pairs, s) PROVE y.exec[s] = st.exec[s]
    <3>1. x.exec[s] = st.exec[s]
      BY <1>6, <2>10 DEF x
    <3>2. s # p.task
      BY <1>1, <2>10 DEF others
    <3> QED
      BY <2>6, <3>1, <3>2
  <2> QED
    BY <2>6, <2>7, <2>8, <2>9, <2>10 DEF y
<1> HIDE DEF Fine
<1>7. l \in T
  <2>1. 0 \in T /\ \A k \in 1 .. l : k - 1 \in T => k \in T
    BY <1>1, <1>5, <1>6
  <2>2. l \in 0 .. l
    BY <1>1
  <2> HIDE DEF T
  <2> QED
    BY <1>1, <2>1, <2>2, EachStep
<1>8. \A j \in 1 .. l : ~(j > l)
  BY <1>1
<1>9. \A j \in DOMAIN pairs : j \in 1 .. l
  BY <1>1
<1>10. Fine(l)
  BY <1>7
<1>11. begunOnly(pairs, st.exec, f[l].exec)
  BY <1>8, <1>9, <1>10 DEF Fine, begunOnly
<1> QED
  BY <1>10, <1>11 DEF Fine, l

\* The invariant.
SwarmInv == SwarmTypeOK /\ TaskInv(now, spawned) /\ Connected

\* The tasks are started by the swarm.
LEMMA TasksStarted ==
  ASSUME SwarmInv, NEW pairs \in Seq([task : Task, agent : AgentId]), startTasks(pairs),
         \A k \in DOMAIN pairs : exec[pairs[k].task].pc = "none",
         \A j, k \in DOMAIN pairs : pairs[j].task = pairs[k].task => j = k
  PROVE  /\ TaskInv(now', spawned) /\ sameAgents(now, now')
         /\ begunOnly(pairs, exec, exec')
<1> DEFINE f == CHOOSE g : g = [k \in 0 .. Len(pairs) |->
                                  IF k = 0 THEN now ELSE startOne(g[k - 1], pairs[k])]
           after == f[Len(pairs)]
<1>1. agents' = after.agents /\ metrics' = after.metrics /\ exec' = after.exec
  BY DEF startTasks, now
<1>2. TaskInv(now, spawned) /\ spawned \in 0 .. MaxSpawns /\ now.exec = exec
  BY DEF SwarmInv, SwarmTypeOK, now
<1>3. TaskInv(after, spawned) /\ sameAgents(now, after) /\ begunOnly(pairs, exec, after.exec)
  <2>1. f = CHOOSE g : g = [k \in 0 .. Len(pairs) |->
                              IF k = 0 THEN now ELSE startOne(g[k - 1], pairs[k])]
    OBVIOUS
  <2> HIDE DEF f
  <2> QED
    BY <1>2, <2>1, StartedAll
<1> HIDE DEF f, after
<1>4. now' = after
  <2>1. after \in TaskState
    BY <1>3 DEF TaskInv
  <2>2. after = [agents |-> after.agents, metrics |-> after.metrics, exec |-> after.exec]
    BY <2>1 DEF TaskState
  <2> QED
    BY <1>1, <2>2 DEF now
<1> QED
  BY <1>1, <1>3, <1>4

\* A task that ends leaves its agent, if that is still there, with nothing to run.
LEMMA TaskEnded ==
  ASSUME SwarmInv, NEW t \in Task, TaskEnds(t)
  PROVE  TaskInv(now', spawned) /\ sameAgents(now, now')
<1>1. PICK result \in {"completed", "failed"} :
        /\ exec' = [exec EXCEPT ![t].pc = "ended", ![t].result = result]
        /\ metrics' = counted(metrics, exec[t].agent, result)
  BY DEF TaskEnds
<1> DEFINE e == [exec[t] EXCEPT !.pc = "ended", !.result = result]
<1>2. /\ now \in TaskState /\ Objects(now, spawned) /\ OneEach(now) /\ Counts(now)
      /\ now.agents = agents /\ now.metrics = metrics /\ now.exec = exec
      /\ agents \in Seq(AgentRecord) /\ exec \in [Task -> ExecType]
      /\ spawned \in 0 .. MaxSpawns /\ exec[t].pc = "running"
      /\ now'.agents = agents' /\ now'.metrics = metrics' /\ now'.exec = exec'
  BY DEF SwarmInv, SwarmTypeOK, TaskInv, now, TaskEnds
<1>3. exec[t] \in ExecType
  BY <1>2
<1>4. e \in ExecType /\ e.pc = "ended" /\ e.obj = exec[t].obj /\ e.agent = exec[t].agent /\ e.result = result
  BY <1>3 DEF ExecType
<1>5. exec' = [exec EXCEPT ![t] = e]
  BY <1>1, <1>2
<1>6. /\ exec[t].obj # 0 /\ exec[t].agent \in AgentId /\ exec[t].obj <= spawned
      /\ \A i \in DOMAIN agents : exec[t].obj = agents[i].obj => exec[t].agent = agents[i].id
  BY <1>2 DEF Objects
<1> HIDE DEF e
<1>7. \A i \in DOMAIN agents : /\ agents[i] \in AgentRecord /\ agents[i].obj \in 1 .. MaxSpawns
                               /\ agents[i].status \in {"active", "busy"}
  BY <1>2, AgentFields
<1>8. /\ DOMAIN agents' = DOMAIN agents /\ agents' \in Seq(AgentRecord)
      /\ \A i \in DOMAIN agents :
           /\ agents'[i].id = agents[i].id /\ agents'[i].obj = agents[i].obj
           /\ agents'[i].status = IF agents[i].obj = exec[t].obj THEN "active" ELSE agents[i].status
  <2>1. agents' = [i \in DOMAIN agents |->
                    IF agents[i].obj = exec[t].obj THEN [agents[i] EXCEPT !.status = "active"]
                    ELSE agents[i]]
    BY DEF TaskEnds
  <2>2. \A i \in DOMAIN agents :
          /\ [agents[i] EXCEPT !.status = "active"] \in AgentRecord
          /\ [agents[i] EXCEPT !.status = "active"].id = agents[i].id
          /\ [agents[i] EXCEPT !.status = "active"].obj = agents[i].obj
          /\ [agents[i] EXCEPT !.status = "active"].status = "active"
    BY <1>7 DEF AgentRecord
  <2>3. DOMAIN agents' = DOMAIN agents /\ \A i \in DOMAIN agents : agents'[i] \in AgentRecord
    BY <1>7, <2>1, <2>2
  <2>4. agents' \in Seq(AgentRecord)
    <3>1. DOMAIN agents = 1 .. Len(agents) /\ Len(agents) \in Nat
      BY <1>2
    <3>2. agents' \in [1 .. Len(agents) -> AgentRecord]
      BY <2>1, <2>3, <3>1
    <3> QED
      BY <3>1, <3>2
  <2> QED
    BY <2>1, <2>2, <2>3, <2>4
<1>9. ChangedExec(now, now', t, e)
  BY <1>1, <1>2, <1>4, <1>5, <1>6, <1>8 DEF ChangedExec, sameAgents
<1>10. /\ Objects(now', spawned)
       /\ now'.exec \in [Task -> ExecType] /\ now'.metrics \in [AgentId -> Metrics]
  BY <1>2, <1>4, <1>6, <1>9, ObjectsKept
<1>11. now' \in TaskState
  BY <1>2, <1>8, <1>10 DEF TaskState, now
<1>12. Counts(now')
  BY <1>2, <1>4, <1>9, CountsKept
<1>13. \A s \in Task : \A o : runsOn(exec', s, o) <=> runsOn(exec, s, o) /\ s # t
  <2>1. \A s \in Task : exec'[s] = IF s = t THEN e ELSE exec[s]
    BY <1>2, <1>5
  <2> QED
    BY <1>4, <2>1 DEF runsOn
<1>14. runsOn(exec, t, exec[t].obj) /\ \A o : runsOn(exec, t, o) => o = exec[t].obj
  BY <1>2 DEF runsOn
<1>15. OneEach(now')
  <2>1. \A r, s \in Task : \A o \in 1 .. MaxSpawns :
          runsOn(exec', r, o) /\ runsOn(exec', s, o) => r = s
    BY <1>2, <1>13 DEF OneEach
  <2>2. ASSUME NEW i \in DOMAIN agents
        PROVE  agents'[i].status = "busy" <=> \E s \in Task : runsOn(exec', s, agents'[i].obj)
    <3>1. agents[i].status = "busy" <=> \E s \in Task : runsOn(exec, s, agents[i].obj)
      BY <1>2 DEF OneEach
    <3>2. CASE agents[i].obj = exec[t].obj
      <4>1. \A s \in Task : runsOn(exec, s, agents[i].obj) => s = t
        BY <1>2, <1>7, <1>14, <3>2 DEF OneEach
      <4> QED
        BY <1>8, <1>13, <3>2, <4>1
    <3>3. CASE agents[i].obj # exec[t].obj
      <4>1. \A s \in Task : runsOn(exec', s, agents[i].obj) <=> runsOn(exec, s, agents[i].obj)
        BY <1>13, <1>14, <3>3
      <4> QED
        BY <1>8, <3>1, <3>3, <4>1
    <3> QED
      BY <3>2, <3>3
  <2> QED
    BY <1>2, <1>8, <2>1, <2>2 DEF OneEach
<1> QED
  BY <1>9, <1>10, <1>11, <1>12, <1>15 DEF TaskInv, ChangedExec

\* A step about tasks leaves the members and their connections alone.
LEMMA MembersStay ==
  ASSUME SwarmInv, TaskInv(now', spawned), sameAgents(now, now'),
         UNCHANGED <<topology, connections, scaling, spawned, reconfigured>>
  PROVE  SwarmInv'
<1>1. /\ now'.agents = agents' /\ now'.metrics = metrics' /\ now'.exec = exec'
      /\ now.agents = agents
  BY DEF now
<1>2. /\ agents' \in Seq(AgentRecord) /\ metrics' \in [AgentId -> Metrics]
      /\ exec' \in [Task -> ExecType]
      /\ \A i, j \in DOMAIN agents' : agents'[i].id = agents'[j].id => i = j
  BY <1>1 DEF TaskInv, TaskState, Objects
<1>3. SwarmTypeOK'
  BY <1>2 DEF SwarmInv, SwarmTypeOK
<1>4. swarmIds' = swarmIds
  BY <1>1 DEF swarmIds, idsOf, sameAgents
<1>5. Connected'
  BY <1>4 DEF SwarmInv, Connected
<1>6. TaskInv(now, spawned)'
  OBVIOUS
<1> QED
  BY <1>3, <1>5, <1>6 DEF SwarmInv

------------------------------------------------------------------------------
(* Batches of tasks. *)

\* The sorted tasks are the tasks.
LEMMA SortedTasks ==
  ASSUME NEW ts \in Seq(Task)
  PROVE  /\ sortByPriority(ts) \in Seq(Task) /\ toSet(sortByPriority(ts)) = toSet(ts)
         /\ once(ts) => once(sortByPriority(ts))
<1> DEFINE at(p) == {k \in DOMAIN ts : priorityOf[ts[k]] = p}
           of(p) == Subsequence(ts, at(p))
<1>1. \A p : /\ of(p) \in Seq(Task) /\ toSet(of(p)) = {ts[k] : k \in at(p)}
             /\ once(ts) => once(of(p))
  <2> SUFFICES ASSUME NEW p PROVE /\ of(p) \in Seq(Task) /\ toSet(of(p)) = {ts[k] : k \in at(p)}
                                  /\ once(ts) => once(of(p))
    OBVIOUS
  <2>1. at(p) \in SUBSET DOMAIN ts
    OBVIOUS
  <2> HIDE DEF at
  <2> QED
    BY <2>1, SubsequenceKeeps, SubsequenceSet
<1>2. sortByPriority(ts) = of("high") \o of("medium") \o of("low")
  BY DEF sortByPriority
<1>3. \A p : \A x \in toSet(of(p)) : priorityOf[x] = p /\ x \in toSet(ts)
  <2> SUFFICES ASSUME NEW p, NEW x \in toSet(of(p)) PROVE priorityOf[x] = p /\ x \in toSet(ts)
    OBVIOUS
  <2> HIDE DEF of
  <2>1. PICK k \in at(p) : x = ts[k]
    BY <1>1
  <2> QED
    BY <2>1 DEF toSet
<1>4. \A k \in DOMAIN ts : ts[k] \in Task /\ \E p \in {"high", "medium", "low"} : k \in at(p)
  BY SwarmAssumption
<1>5. toSet(of("high")) \cup toSet(of("medium")) \cup toSet(of("low")) = toSet(ts)
  <2>1. \A x \in toSet(ts) : x \in toSet(of("high")) \cup toSet(of("medium")) \cup toSet(of("low"))
    <3> SUFFICES ASSUME NEW k \in DOMAIN ts
                 PROVE ts[k] \in toSet(of("high")) \cup toSet(of("medium")) \cup toSet(of("low"))
      BY DEF toSet
    <3>1. PICK p \in {"high", "medium", "low"} : k \in at(p)
      BY <1>4
    <3> HIDE DEF of, at
    <3>2. ts[k] \in toSet(of(p))
      BY <1>1, <3>1
    <3> QED
      BY <3>1, <3>2
  <2>2. \A p : \A x \in toSet(of(p)) : x \in toSet(ts)
    BY <1>3
  <2> HIDE DEF of, at
  <2> QED
    BY <2>1, <2>2
<1> HIDE DEF of, at
<1> DEFINE hm == of("high") \o of("medium")
<1>6. /\ hm \in Seq(Task) /\ toSet(hm) = toSet(of("high")) \cup toSet(of("medium"))
      /\ once(ts) => once(hm)
  <2>1. toSet(of("high")) \cap toSet(of("medium")) = {}
    BY <1>3
  <2> QED
    BY <1>1, <2>1, JoinedSets
<1> HIDE DEF hm
<1>7. toSet(hm) \cap toSet(of("low")) = {}
  BY <1>3, <1>6
<1>8. /\ hm \o of("low") \in Seq(Task) /\ toSet(hm \o of("low")) = toSet(hm) \cup toSet(of("low"))
      /\ once(ts) => once(hm \o of("low"))
  BY <1>1, <1>6, <1>7, JoinedSets
<1>9. sortByPriority(ts) = hm \o of("low")
  BY <1>2 DEF hm
<1> QED
  BY <1>5, <1>6, <1>8, <1>9

Pair == [task : Task, agent : AgentId]
Share == [loads : [AgentId -> Nat], pairs : Seq(Pair)]

able(t) == {i \in DOMAIN agents : canExecute(agents[i], t) /\ available(agents[i])}

\* The agent that gets a task is one that can do it and has the least to do.
LEMMA BestAgent ==
  ASSUME agents \in Seq(AgentRecord), NEW x \in Share, NEW t \in Task, able(t) # {}
  PROVE  \E b \in able(t) :
           /\ assignOne(x, t) = [loads |-> [x.loads EXCEPT ![agents[b].id] = @ + 1],
                                 pairs |-> Append(x.pairs, [task |-> t, agent |-> agents[b].id])]
           /\ \A j \in able(t) : x.loads[agents[b].id] <= x.loads[agents[j].id]
<1> DEFINE load(i) == x.loads[agents[i].id]
           least == {i \in able(t) : \A j \in able(t) : load(i) <= load(j)}
<1>1. DOMAIN agents = 1 .. Len(agents) /\ Len(agents) \in Nat /\ able(t) \in SUBSET DOMAIN agents
  BY DEF able
<1>2. \A i \in able(t) : load(i) \in Nat
  <2> SUFFICES ASSUME NEW i \in able(t) PROVE load(i) \in Nat
    OBVIOUS
  <2>1. agents[i].id \in AgentId
    BY <1>1, AgentFields
  <2> QED
    BY <2>1 DEF Share
<1>3. least # {}
  <2> DEFINE L == {load(i) : i \in able(t)}
  <2>1. L \in SUBSET Nat /\ L # {}
    BY <1>2
  <2>2. PICK l \in L : \A m \in L : l <= m
    <3> HIDE DEF L
    <3> QED
      BY <2>1, LeastElement
  <2>3. PICK i \in able(t) : l = load(i)
    BY <2>2
  <2>4. \A j \in able(t) : load(i) <= load(j)
    BY <2>2, <2>3
  <2> QED
    BY <2>4
<1>4. first(least) \in least
  <2>1. least \in SUBSET (1 .. Len(agents))
    BY <1>1
  <2> HIDE DEF least
  <2> QED
    BY <1>1, <1>3, <2>1, FirstOf
<1>5. assignOne(x, t) = [loads |-> [x.loads EXCEPT ![agents[first(least)].id] = @ + 1],
                         pairs |-> Append(x.pairs, [task |-> t, agent |-> agents[first(least)].id])]
  BY DEF assignOne, able
<1> HIDE DEF load, least
<1> QED
  BY <1>4, <1>5 DEF least, load

\* Assignments stay assignments.
LEMMA AssignTyped ==
  ASSUME agents \in Seq(AgentRecord), NEW x \in Share, NEW t \in Task
  PROVE  assignOne(x, t) \in Share
<1>1. CASE able(t) = {}
  BY <1>1 DEF assignOne, able
<1>2. CASE able(t) # {}
  <2>1. PICK b \in able(t) :
          assignOne(x, t) = [loads |-> [x.loads EXCEPT ![agents[b].id] = @ + 1],
                             pairs |-> Append(x.pairs, [task |-> t, agent |-> agents[b].id])]
    BY <1>2, BestAgent
  <2>2. agents[b].id \in AgentId
    <3>1. b \in DOMAIN agents
      BY DEF able
    <3> QED
      BY <3>1, AgentFields
  <2> DEFINE a == agents[b].id
             ls == [x.loads EXCEPT ![a] = @ + 1]
             ps == Append(x.pairs, [task |-> t, agent |-> a])
  <2>3. assignOne(x, t) = [loads |-> ls, pairs |-> ps]
    BY <2>1
  <2> HIDE DEF a
  <2>4. ls \in [AgentId -> Nat] /\ ps \in Seq(Pair)
    BY <2>2 DEF Share, Pair, a
  <2> HIDE DEF ls, ps
  <2> QED
    BY <2>3, <2>4 DEF Share
<1> QED
  BY <1>1, <1>2

share(ps, a) == {p \in DOMAIN ps : ps[p].agent = a}

alike(i, j) == /\ agents[i].capabilities = agents[j].capabilities
               /\ available(agents[i]) /\ available(agents[j])

\* After k of the sorted tasks: each that an agent can do is given to one, once, the loads
\* are the shares, and those of agents that can do the same differ by one at most.
DistInv(sorted, k, x) ==
  /\ x \in Share
  /\ \A p \in DOMAIN x.pairs :
       /\ \E j \in 1 .. k : x.pairs[p].task = sorted[j]
       /\ \E i \in able(x.pairs[p].task) : agents[i].id = x.pairs[p].agent
  /\ \A p, q \in DOMAIN x.pairs : x.pairs[p].task = x.pairs[q].task => p = q
  /\ \A j \in 1 .. k : able(sorted[j]) # {} => \E p \in DOMAIN x.pairs : x.pairs[p].task = sorted[j]
  /\ \A a \in AgentId : /\ IsFiniteSet(share(x.pairs, a))
                         /\ x.loads[a] = Cardinality(share(x.pairs, a))
  /\ \A i, j \in DOMAIN agents :
       alike(i, j) => x.loads[agents[i].id] <= x.loads[agents[j].id] + 1

\* One task more is given out.
LEMMA AssignedOne ==
  ASSUME agents \in Seq(AgentRecord),
         \A i, j \in DOMAIN agents : agents[i].id = agents[j].id => i = j,
         NEW sorted \in Seq(Task), once(sorted), NEW k \in DOMAIN sorted,
         NEW x, DistInv(sorted, k - 1, x), NEW y, y = assignOne(x, sorted[k])
  PROVE  DistInv(sorted, k, y)
<1> DEFINE t == sorted[k]
<1>1. /\ x \in Share /\ t \in Task /\ k \in Nat /\ k \in 1 .. k
      /\ x.pairs \in Seq(Pair) /\ x.loads \in [AgentId -> Nat]
      /\ \A j \in 1 .. k : j \in 1 .. k - 1 \/ j = k
      /\ \A j \in 1 .. k - 1 : j \in 1 .. k /\ j \in DOMAIN sorted /\ j # k
  BY DEF DistInv, Share
<1>2. \A i \in DOMAIN agents : agents[i].id \in AgentId
  BY AgentFields
<1>3. CASE able(t) = {}
  <2>1. y = x
    BY <1>3 DEF assignOne, able
  <2>2. \A p \in DOMAIN x.pairs : \E j \in 1 .. k : x.pairs[p].task = sorted[j]
    BY <1>1 DEF DistInv
  <2>3. \A j \in 1 .. k : able(sorted[j]) # {} => j \in 1 .. k - 1
    BY <1>1, <1>3
  <2>4. \A j \in 1 .. k : able(sorted[j]) # {} => \E p \in DOMAIN x.pairs : x.pairs[p].task = sorted[j]
    BY <2>3 DEF DistInv
  <2>5. /\ x \in Share
        /\ \A p \in DOMAIN x.pairs : \E i \in able(x.pairs[p].task) : agents[i].id = x.pairs[p].agent
        /\ \A p, q \in DOMAIN x.pairs : x.pairs[p].task = x.pairs[q].task => p = q
        /\ \A a \in AgentId : /\ IsFiniteSet(share(x.pairs, a))
                               /\ x.loads[a] = Cardinality(share(x.pairs, a))
        /\ \A i, j \in DOMAIN agents :
             alike(i, j) => x.loads[agents[i].id] <= x.loads[agents[j].id] + 1
    BY Zenon DEF DistInv
  <2> HIDE DEF t
  <2>6. DistInv(sorted, k, x)
    BY <2>2, <2>4, <2>5, Zenon DEF DistInv
  <2> QED
    BY <2>1, <2>6
<1>4. CASE able(t) # {}
  <2>1. PICK b \in able(t) :
          /\ y = [loads |-> [x.loads EXCEPT ![agents[b].id] = @ + 1],
                  pairs |-> Append(x.pairs, [task |-> t, agent |-> agents[b].id])]
          /\ \A j \in able(t) : x.loads[agents[b].id] <= x.loads[agents[j].id]
    BY <1>1, <1>4, BestAgent
  <2> DEFINE a == agents[b].id
             new == [task |-> t, agent |-> a]
             l == Len(x.pairs) + 1
  <2>2. b \in DOMAIN agents /\ a \in AgentId /\ canExecute(agents[b], t) /\ available(agents[b])
    BY <1>2 DEF able
  <2>3. y \in Share
    BY <1>1, AssignTyped
  <2>4. new \in Pair /\ new.task = t /\ new.agent = a
    BY <1>1, <2>2 DEF Pair
  <2>5. y.loads = [x.loads EXCEPT ![a] = @ + 1] /\ y.pairs = Append(x.pairs, new)
    BY <2>1
  <2> HIDE DEF new, a
  <2>6. /\ DOMAIN y.pairs = DOMAIN x.pairs \cup {l} /\ l \notin DOMAIN x.pairs
        /\ y.pairs[l] = new /\ \A p \in DOMAIN x.pairs : y.pairs[p] = x.pairs[p]
    BY <1>1, <2>4, <2>5
  <2>7. /\ y.loads[a] = x.loads[a] + 1 /\ x.loads[a] \in Nat
        /\ \A c \in AgentId : c # a => y.loads[c] = x.loads[c]
        /\ \A c \in AgentId : x.loads[c] \in Nat
    BY <1>1, <2>2, <2>5
  <2> HIDE DEF l, t
  <2>8. \A p \in DOMAIN y.pairs : /\ \E j \in 1 .. k : y.pairs[p].task = sorted[j]
                                 /\ \E i \in able(y.pairs[p].task) : agents[i].id = y.pairs[p].agent
    <3> SUFFICES ASSUME NEW p \in DOMAIN y.pairs
                 PROVE  /\ \E j \in 1 .. k : y.pairs[p].task = sorted[j]
                        /\ \E i \in able(y.pairs[p].task) : agents[i].id = y.pairs[p].agent
      OBVIOUS
    <3>1. CASE p = l
      <4>1. y.pairs[p].task = t /\ y.pairs[p].agent = a
        BY <2>4, <2>6, <3>1
      <4>2. agents[b].id = a /\ b \in able(t)
        BY DEF a
      <4>3. sorted[k] = t /\ k \in 1 .. k
        BY <1>1 DEF t
      <4>4. \E j \in 1 .. k : y.pairs[p].task = sorted[j]
        BY <4>1, <4>3
      <4>5. \E i \in able(y.pairs[p].task) : agents[i].id = y.pairs[p].agent
        BY <4>1, <4>2, Zenon
      <4> QED
        BY <4>4, <4>5
    <3>2. CASE p # l
      <4>1. p \in DOMAIN x.pairs /\ y.pairs[p] = x.pairs[p]
        BY <2>6, <3>2
      <4>2. /\ \E j \in 1 .. k - 1 : x.pairs[p].task = sorted[j]
            /\ \E i \in able(x.pairs[p].task) : agents[i].id = x.pairs[p].agent
        BY <4>1, Zenon DEF DistInv
      <4>3. \E j \in 1 .. k : x.pairs[p].task = sorted[j]
        BY <1>1, <4>2
      <4> QED
        BY <4>1, <4>2, <4>3, Zenon
    <3> QED
      BY <3>1, <3>2
  <2>9. \A p \in DOMAIN x.pairs : x.pairs[p].task # t
    <3> SUFFICES ASSUME NEW p \in DOMAIN x.pairs PROVE x.pairs[p].task # t
      OBVIOUS
    <3>1. PICK j \in 1 .. k - 1 : x.pairs[p].task = sorted[j]
      BY DEF DistInv
    <3> QED
      BY <1>1, <3>1 DEF once, t
  <2>10. \A p, q \in DOMAIN y.pairs : y.pairs[p].task = y.pairs[q].task => p = q
    BY <2>4, <2>6, <2>9 DEF DistInv
  <2>11. \A j \in 1 .. k : able(sorted[j]) # {} => \E p \in DOMAIN y.pairs : y.pairs[p].task = sorted[j]
    <3> SUFFICES ASSUME NEW j \in 1 .. k, able(sorted[j]) # {}
                 PROVE  \E p \in DOMAIN y.pairs : y.pairs[p].task = sorted[j]
      OBVIOUS
    <3>1. CASE j = k
      BY <2>4, <2>6, <3>1 DEF t
    <3>2. CASE j # k
      <4>1. PICK p \in DOMAIN x.pairs : x.pairs[p].task = sorted[j]
        BY <1>1, <3>2 DEF DistInv
      <4> QED
        BY <2>6, <4>1
    <3> QED
      BY <3>1, <3>2
  <2>12. ASSUME NEW c \in AgentId
         PROVE  IsFiniteSet(share(y.pairs, c)) /\ y.loads[c] = Cardinality(share(y.pairs, c))
    <3>1. IsFiniteSet(share(x.pairs, c)) /\ x.loads[c] = Cardinality(share(x.pairs, c))
      BY DEF DistInv
    <3>2. CASE c = a
      <4>1. share(y.pairs, c) = share(x.pairs, c) \cup {l} /\ l \notin share(x.pairs, c)
        BY <2>4, <2>6, <3>2 DEF share
      <4> QED
        BY <2>7, <3>1, <3>2, <4>1, FS_AddElement
    <3>3. CASE c # a
      <4>1. share(y.pairs, c) = share(x.pairs, c)
        BY <2>4, <2>6, <3>3 DEF share
      <4> QED
        BY <2>7, <3>1, <3>3, <4>1
    <3> QED
      BY <3>2, <3>3
  <2>13. ASSUME NEW i \in DOMAIN agents, NEW j \in DOMAIN agents, alike(i, j)
         PROVE  y.loads[agents[i].id] <= y.loads[agents[j].id] + 1
    <3>1. /\ x.loads[agents[i].id] <= x.loads[agents[j].id] + 1
          /\ x.loads[agents[i].id] \in Nat /\ x.loads[agents[j].id] \in Nat
          /\ y.loads[agents[i].id] \in Nat /\ y.loads[agents[j].id] \in Nat
          /\ x.loads[agents[j].id] <= y.loads[agents[j].id]
      <4>1. agents[i].id \in AgentId /\ agents[j].id \in AgentId
        BY <1>2
      <4>2. y.loads[agents[i].id] \in Nat /\ y.loads[agents[j].id] \in Nat
        BY <2>3, <4>1 DEF Share
      <4>3. x.loads[agents[j].id] <= y.loads[agents[j].id]
        BY <2>7, <4>1
      <4> QED
        BY <2>7, <2>13, <4>1, <4>2, <4>3 DEF DistInv
    <3> DEFINE xi == x.loads[agents[i].id]
               xj == x.loads[agents[j].id]
               yi == y.loads[agents[i].id]
               yj == y.loads[agents[j].id]
    <3>4. xi <= xj + 1 /\ xi \in Nat /\ xj \in Nat /\ yi \in Nat /\ yj \in Nat /\ xj <= yj
      BY <3>1
    <3>2. CASE i = b
      <4>1. j \in able(t)
        BY <2>2, <2>13, <3>2 DEF alike, able, canExecute
      <4>2. xi <= xj
        BY <2>1, <3>2, <4>1
      <4>3. yi = xi + 1
        BY <2>7, <3>2 DEF a
      <4> HIDE DEF xi, xj, yi, yj
      <4>4. yi <= yj + 1
        BY <3>4, <4>2, <4>3
      <4> QED
        BY <4>4 DEF yi, yj
    <3>3. CASE i # b
      <4>1. agents[i].id # a /\ agents[i].id \in AgentId
        BY <1>2, <2>2, <3>3 DEF a
      <4>2. yi = xi
        BY <2>7, <4>1
      <4> HIDE DEF xi, xj, yi, yj
      <4>3. yi <= yj + 1
        BY <3>4, <4>2
      <4> QED
        BY <4>3 DEF yi, yj
    <3> QED
      BY <3>2, <3>3
  <2> QED
    BY <2>3, <2>8, <2>10, <2>11, <2>12, <2>13 DEF DistInv
<1> QED
  BY <1>3, <1>4

\* What a batch is distributed to.
LEMMA Distributed ==
  ASSUME agents \in Seq(AgentRecord),
         \A i, j \in DOMAIN agents : agents[i].id = agents[j].id => i = j,
         NEW ts \in Batch
  PROVE  /\ sortByPriority(ts) \in Seq(Task) /\ toSet(sortByPriority(ts)) = toSet(ts)
         /\ \E x : /\ DistInv(sortByPriority(ts), Len(sortByPriority(ts)), x)
                   /\ distributeTasks(ts) = x.pairs
<1> DEFINE sorted == sortByPriority(ts)
           l == Len(sorted)
           st == [loads |-> [a \in AgentId |-> 0], pairs |-> <<>>]
           Assigned(g) == g = [k \in 0 .. l |-> IF k = 0 THEN st ELSE assignOne(g[k - 1], sorted[k])]
           f == CHOOSE g : Assigned(g)
           step == [k \in 1 .. l |-> [x \in Share |-> assignOne(x, sorted[k])]]
<1>0. ts \in Seq(Task) /\ once(ts)
  BY SwarmAssumption DEF once
<1>1. sorted \in Seq(Task) /\ toSet(sorted) = toSet(ts) /\ once(sorted)
  BY <1>0, SortedTasks
<1>2. distributeTasks(ts) = f[l].pairs
  BY DEF distributeTasks
<1> HIDE DEF sorted
<1>3. l \in Nat /\ DOMAIN sorted = 1 .. l /\ \A k \in 1 .. l : sorted[k] \in Task
  BY <1>1
<1>4. /\ st \in Share /\ st.pairs = <<>> /\ DOMAIN st.pairs = {}
      /\ \A a \in AgentId : st.loads[a] = 0
  BY DEF Share
<1> HIDE DEF st
<1>5. \E r : Assigned(r)
  <2>1. step \in [1 .. l -> [Share -> Share]]
    <3> SUFFICES ASSUME NEW k \in 1 .. l PROVE [x \in Share |-> assignOne(x, sorted[k])] \in [Share -> Share]
      OBVIOUS
    <3> QED
      BY <1>3, AssignTyped
  <2>2. \A k \in 1 .. l : \A x \in Share : step[k][x] = assignOne(x, sorted[k])
    OBVIOUS
  <2> HIDE DEF l, step
  <2>3. PICK r \in [0 .. l -> Share] : Iterates(r, l, step, st)
    BY <1>3, <1>4, <2>1, Iteration
  <2>4. ASSUME NEW k \in 0 .. l PROVE r[k] = IF k = 0 THEN st ELSE assignOne(r[k - 1], sorted[k])
    <3>1. CASE k = 0
      BY <2>3, <3>1 DEF Iterates
    <3>2. CASE k # 0
      <4>1. k \in 1 .. l /\ r[k - 1] \in Share
        BY <1>3, <2>3, <3>2
      <4> QED
        BY <2>2, <2>3, <3>2, <4>1 DEF Iterates
    <3> QED
      BY <3>1, <3>2
  <2>5. Assigned(r)
    BY <2>3, <2>4
  <2> QED
    BY <2>5
<1>6. Assigned(f)
  <2> HIDE DEF Assigned
  <2> QED
    BY <1>5
<1> HIDE DEF f
<1>7. f[0] = st /\ \A k \in 1 .. l : f[k] = assignOne(f[k - 1], sorted[k])
  <2> HIDE DEF l
  <2>1. \A k \in 0 .. l : f[k] = IF k = 0 THEN st ELSE assignOne(f[k - 1], sorted[k])
    BY <1>6, Zenon DEF Assigned
  <2>2. 0 \in 0 .. l /\ \A k \in 1 .. l : k \in 0 .. l /\ k # 0
    BY <1>3
  <2> QED
    BY <2>1, <2>2
<1> HIDE DEF Assigned, l, step
<1> DEFINE T == {k \in 0 .. l : DistInv(sorted, k, f[k])}
<1>8. DistInv(sorted, 0, st)
  <2>1. \A a \in AgentId : /\ IsFiniteSet(share(st.pairs, a))
                           /\ st.loads[a] = Cardinality(share(st.pairs, a))
    <3> SUFFICES ASSUME NEW a \in AgentId
                 PROVE  /\ IsFiniteSet(share(st.pairs, a))
                        /\ st.loads[a] = Cardinality(share(st.pairs, a))
      OBVIOUS
    <3>1. share(st.pairs, a) = {}
      BY <1>4 DEF share
    <3> QED
      BY <1>4, <3>1, FS_EmptySet
  <2>2. \A i, j \in DOMAIN agents :
          alike(i, j) => st.loads[agents[i].id] <= st.loads[agents[j].id] + 1
    <3> SUFFICES ASSUME NEW i \in DOMAIN agents, NEW j \in DOMAIN agents
                 PROVE  st.loads[agents[i].id] <= st.loads[agents[j].id] + 1
      OBVIOUS
    <3>1. agents[i].id \in AgentId /\ agents[j].id \in AgentId
      BY AgentFields
    <3>2. st.loads[agents[i].id] = 0 /\ st.loads[agents[j].id] = 0
      BY <1>4, <3>1
    <3> QED
      BY <3>2
  <2>3. \A j \in 1 .. 0 : FALSE
    OBVIOUS
  <2> QED
    BY <1>4, <2>1, <2>2, <2>3 DEF DistInv
<1>9. \A k \in 1 .. l : k - 1 \in T => k \in T
  <2> SUFFICES ASSUME NEW k \in 1 .. l, DistInv(sorted, k - 1, f[k - 1])
               PROVE  k \in 0 .. l /\ DistInv(sorted, k, f[k])
    OBVIOUS
  <2>1. k \in DOMAIN sorted /\ f[k] = assignOne(f[k - 1], sorted[k]) /\ k \in 0 .. l
    BY <1>3, <1>7
  <2> QED
    BY <1>1, <2>1, AssignedOne
<1>10. l \in T
  <2>1. 0 \in T
    BY <1>3, <1>7, <1>8
  <2>2. l \in 0 .. l
    BY <1>3
  <2> HIDE DEF T
  <2> QED
    BY <1>3, <1>9, <2>1, <2>2, EachStep
<1> QED
  BY <1>1, <1>2, <1>10 DEF sorted, l

\* Every batch is spread evenly.
LEMMA SpreadEvenly ==
  ASSUME SwarmInv
  PROVE  DistributionFair
<1>1. /\ agents \in Seq(AgentRecord)
      /\ \A i, j \in DOMAIN agents : agents[i].id = agents[j].id => i = j
  BY DEF SwarmInv, SwarmTypeOK
<1> SUFFICES ASSUME NEW ts \in Batch, NEW pairs, pairs = distributeTasks(ts)
             PROVE  /\ \A k \in DOMAIN pairs : \E i \in able(pairs[k].task) : agents[i].id = pairs[k].agent
                    /\ \A k \in DOMAIN ts :
                         able(ts[k]) # {} => \E j \in DOMAIN pairs : pairs[j].task = ts[k]
                    /\ \A i, j \in DOMAIN agents :
                         alike(i, j) => Cardinality(share(pairs, agents[i].id))
                                          <= Cardinality(share(pairs, agents[j].id)) + 1
  BY DEF DistributionFair, able, share, alike
<1> DEFINE sorted == sortByPriority(ts)
<1>2. /\ sorted \in Seq(Task) /\ toSet(sorted) = toSet(ts)
      /\ \E x : DistInv(sorted, Len(sorted), x) /\ pairs = x.pairs
  BY <1>1, Distributed
<1>3. PICK x : DistInv(sorted, Len(sorted), x) /\ pairs = x.pairs
  BY <1>2
<1>4. \A k \in DOMAIN pairs : \E i \in able(pairs[k].task) : agents[i].id = pairs[k].agent
  <2>1. \A k \in DOMAIN x.pairs : \E i \in able(x.pairs[k].task) : agents[i].id = x.pairs[k].agent
    BY <1>3, Zenon DEF DistInv
  <2> QED
    BY <1>3, <2>1, Zenon
<1> HIDE DEF sorted
<1>5. ASSUME NEW k \in DOMAIN ts, able(ts[k]) # {}
      PROVE  \E j \in DOMAIN pairs : pairs[j].task = ts[k]
  <2>1. PICK j \in DOMAIN sorted : sorted[j] = ts[k]
    <3>1. ts[k] \in toSet(sorted)
      BY <1>2 DEF toSet
    <3> QED
      BY <3>1 DEF toSet
  <2>2. j \in 1 .. Len(sorted)
    BY <1>2
  <2> QED
    BY <1>3, <1>5, <2>1, <2>2 DEF DistInv
<1>6. ASSUME NEW i \in DOMAIN agents, NEW j \in DOMAIN agents, alike(i, j)
      PROVE  Cardinality(share(pairs, agents[i].id)) <= Cardinality(share(pairs, agents[j].id)) + 1
  <2>1. agents[i].id \in AgentId /\ agents[j].id \in AgentId
    BY <1>1, AgentFields
  <2>2. x.loads[agents[i].id] <= x.loads[agents[j].id] + 1
    BY <1>3, <1>6 DEF DistInv
  <2>3. \A a \in AgentId : x.loads[a] = Cardinality(share(pairs, a))
    BY <1>3 DEF DistInv
  <2> QED
    BY <2>1, <2>2, <2>3
<1> QED
  BY <1>4, <1>5, <1>6

------------------------------------------------------------------------------
(* The steps. *)

\* A task given to an agent keeps the invariant.
LEMMA ExecuteTaskKeeps ==
  ASSUME SwarmInv, NEW a \in AgentId, NEW t \in Task, ExecuteTask(a, t)
  PROVE  /\ SwarmInv' /\ exec'[t].pc # "none"
         /\ \A s \in Task : s # t => exec'[s] = exec[s]
<1> DEFINE pairs == <<[task |-> t, agent |-> a]>>
<1>1. /\ pairs \in Seq([task : Task, agent : AgentId]) /\ DOMAIN pairs = {1}
      /\ pairs[1].task = t
  OBVIOUS
<1>2. /\ startTasks(pairs) /\ exec[t].pc = "none"
      /\ UNCHANGED <<topology, connections, scaling, spawned, reconfigured>>
  BY DEF ExecuteTask
<1> HIDE DEF pairs
<1>3. TaskInv(now', spawned) /\ sameAgents(now, now') /\ begunOnly(pairs, exec, exec')
  BY <1>1, <1>2, TasksStarted
<1>4. SwarmInv'
  BY <1>2, <1>3, MembersStay
<1> QED
  BY <1>1, <1>3, <1>4 DEF begunOnly, others

\* So does a batch.
LEMMA ExecuteTasksConcurrentlyKeeps ==
  ASSUME SwarmInv, NEW ts \in Batch, ExecuteTasksConcurrently(ts)
  PROVE  SwarmInv' /\ \A s \in Task : s \notin toSet(ts) => exec'[s] = exec[s]
<1> DEFINE sorted == sortByPriority(ts)
           pairs == distributeTasks(ts)
<1>1. /\ startTasks(pairs) /\ \A k \in DOMAIN ts : exec[ts[k]].pc = "none"
      /\ UNCHANGED <<topology, connections, scaling, spawned, reconfigured>>
  BY DEF ExecuteTasksConcurrently
<1>2. /\ agents \in Seq(AgentRecord)
      /\ \A i, j \in DOMAIN agents : agents[i].id = agents[j].id => i = j
  BY DEF SwarmInv, SwarmTypeOK
<1>3. /\ sorted \in Seq(Task) /\ toSet(sorted) = toSet(ts)
      /\ \E x : DistInv(sorted, Len(sorted), x) /\ pairs = x.pairs
  BY <1>2, Distributed
<1>4. PICK x : DistInv(sorted, Len(sorted), x) /\ pairs = x.pairs
  BY <1>3
<1> HIDE DEF sorted, pairs
<1>5. /\ pairs \in Seq([task : Task, agent : AgentId])
      /\ \A j, k \in DOMAIN pairs : pairs[j].task = pairs[k].task => j = k
  BY <1>4 DEF DistInv, Share, Pair
<1>6. ASSUME NEW k \in DOMAIN pairs PROVE exec[pairs[k].task].pc = "none" /\ pairs[k].task \in toSet(ts)
  <2>1. PICK j \in 1 .. Len(sorted) : pairs[k].task = sorted[j]
    BY <1>4 DEF DistInv
  <2>2. sorted[j] \in toSet(ts)
    <3>1. j \in DOMAIN sorted
      BY <1>3
    <3>2. sorted[j] \in toSet(sorted)
      BY <3>1 DEF toSet
    <3> QED
      BY <1>3, <3>2
  <2>3. PICK i \in DOMAIN ts : sorted[j] = ts[i]
    BY <2>2 DEF toSet
  <2> QED
    BY <1>1, <2>1, <2>2, <2>3
<1>7. TaskInv(now', spawned) /\ sameAgents(now, now') /\ begunOnly(pairs, exec, exec')
  BY <1>1, <1>5, <1>6, TasksStarted
<1>8. SwarmInv'
  BY <1>1, <1>7, MembersStay
<1> QED
  BY <1>6, <1>7, <1>8 DEF begunOnly, others

\* And the end of a task.
LEMMA TaskEndsKeeps ==
  ASSUME SwarmInv, NEW t \in Task, TaskEnds(t)
  PROVE  /\ SwarmInv' /\ exec'[t].pc = "ended"
         /\ \A s \in Task : s # t => exec'[s] = exec[s]
<1>1. TaskInv(now', spawned) /\ sameAgents(now, now')
  BY TaskEnded
<1>2. UNCHANGED <<topology, connections, scaling, spawned, reconfigured>>
  BY DEF TaskEnds
<1>3. exec'[t].pc = "ended" /\ \A s \in Task : s # t => exec'[s] = exec[s]
  <2>1. exec \in [Task -> ExecType]
    BY DEF SwarmInv, SwarmTypeOK
  <2>2. exec[t] \in ExecType
    BY <2>1
  <2> QED
    BY <2>1, <2>2 DEF TaskEnds, ExecType
<1> QED
  BY <1>1, <1>2, <1>3, MembersStay

\* An agent is connected to members of the swarm other than itself, in a mesh to all.
LEMMA NewConnections ==
  ASSUME NEW all \in Seq(AgentRecord),
         \A i, j \in DOMAIN all : all[i].id = all[j].id => i = j,
         NEW m \in DOMAIN all, NEW topo
  PROVE  /\ \A c \in newConnections(all[m], all, topo) :
              /\ c \in Connection /\ c.from # c.to
              /\ c.from \in idsOf(all) /\ c.to \in idsOf(all)
         /\ topo = "mesh" =>
              \A b \in idsOf(all) : b # all[m].id =>
                \E c \in newConnections(all[m], all, topo) : c.from = all[m].id /\ c.to = b
<1> DEFINE a == all[m].id
           new == newConnections(all[m], all, topo)
           peer(b) == [from |-> a, to |-> b, type |-> "peer"]
           lead(b) == [from |-> a, to |-> b, type |-> "leader"]
           l == first(leadersIn(all))
<1>1. \A i \in DOMAIN all : all[i].id \in AgentId /\ all[i].id \in idsOf(all)
  BY AgentFields DEF idsOf
<1>2. \A b \in idsOf(all) : b \in AgentId
  BY <1>1 DEF idsOf
<1>3. \A b \in AgentId : /\ peer(b) \in Connection /\ peer(b).from = a /\ peer(b).to = b
                         /\ lead(b) \in Connection /\ lead(b).from = a /\ lead(b).to = b
  BY <1>1 DEF Connection
<1>4. CASE topo = "mesh"
  <2>1. new = {peer(b) : b \in idsOf(all) \ {a}}
    BY <1>4 DEF newConnections
  <2> HIDE DEF peer, new, a
  <2>2. \A c \in new : \E b \in idsOf(all) : b # a /\ c = peer(b)
    BY <2>1
  <2>3. a \in idsOf(all)
    BY <1>1 DEF a
  <2>4. ASSUME NEW c \in new
        PROVE  c \in Connection /\ c.from # c.to /\ c.from \in idsOf(all) /\ c.to \in idsOf(all)
    <3>1. PICK b \in idsOf(all) : b # a /\ c = peer(b)
      BY <2>2
    <3>2. b \in AgentId
      BY <1>2
    <3>3. peer(b) \in Connection /\ peer(b).from = a /\ peer(b).to = b
      BY <1>3, <3>2
    <3> QED
      BY <2>3, <3>1, <3>3
  <2>5. \A b \in idsOf(all) : b # a => \E c \in new : c.from = a /\ c.to = b
    BY <1>2, <1>3, <2>1
  <2> QED
    BY <2>4, <2>5 DEF new, a
<1>5. CASE topo # "mesh"
  <2> SUFFICES ASSUME NEW c \in new
               PROVE  c \in Connection /\ c.from # c.to /\ c.from \in idsOf(all) /\ c.to \in idsOf(all)
    BY <1>5
  <2>1. topo = "hierarchical" /\ leadersIn(all) # {} /\ all[m].role # "leader" /\ c = lead(all[l].id)
    BY <1>5 DEF newConnections
  <2>2. l \in leadersIn(all)
    <3>1. leadersIn(all) \in SUBSET (1 .. Len(all)) /\ Len(all) \in Nat
      BY DEF leadersIn
    <3> QED
      BY <2>1, <3>1, FirstOf
  <2>3. l \in DOMAIN all /\ l # m
    BY <2>1, <2>2 DEF leadersIn
  <2> HIDE DEF l, lead
  <2>4. all[l].id # a /\ all[l].id \in AgentId /\ all[l].id \in idsOf(all) /\ a \in idsOf(all)
    BY <1>1, <2>3
  <2> HIDE DEF a
  <2> QED
    BY <1>3, <2>1, <2>4
<1> QED
  BY <1>4, <1>5

\* The swarm with one agent more, or one replaced.
LEMMA WithAgent ==
  ASSUME agents \in Seq(AgentRecord),
         \A i, j \in DOMAIN agents : agents[i].id = agents[j].id => i = j,
         NEW agent \in AgentRecord, NEW all, all = withAgent(agent)
  PROVE  /\ all \in Seq(AgentRecord)
         /\ \A i \in DOMAIN all : \/ all[i] = agent
                                  \/ i \in DOMAIN agents /\ all[i] = agents[i] /\ agents[i].id # agent.id
         /\ \A i, j \in DOMAIN all : all[i].id = all[j].id => i = j
         /\ \E i \in DOMAIN all : all[i] = agent
         /\ \A b \in idsOf(all) : b \in swarmIds \/ b = agent.id
         /\ \A b \in swarmIds : b \in idsOf(all)
<1>1. CASE inSwarm(agent.id)
  <2>1. all = [i \in DOMAIN agents |-> IF agents[i].id = agent.id THEN agent ELSE agents[i]]
    BY <1>1 DEF withAgent
  <2>2. DOMAIN all = DOMAIN agents /\ DOMAIN agents = 1 .. Len(agents) /\ Len(agents) \in Nat
    BY <2>1
  <2>3. \A i \in DOMAIN agents : all[i] = IF agents[i].id = agent.id THEN agent ELSE agents[i]
    BY <2>1
  <2>4. all \in Seq(AgentRecord)
    <3>1. \A i \in DOMAIN agents : agents[i] \in AgentRecord
      OBVIOUS
    <3>2. all \in [1 .. Len(agents) -> AgentRecord]
      BY <2>1, <2>2, <3>1
    <3> QED
      BY <2>2, <3>2
  <2>5. PICK i \in DOMAIN agents : agents[i].id = agent.id
    BY <1>1 DEF inSwarm, swarmIds, idsOf
  <2>6. \A j \in DOMAIN agents : all[j].id = agents[j].id
    BY <2>3
  <2> QED
    BY <2>2, <2>3, <2>4, <2>5, <2>6 DEF swarmIds, idsOf
<1>2. CASE ~inSwarm(agent.id)
  <2>1. all = Append(agents, agent)
    BY <1>2 DEF withAgent
  <2>2. \A i \in DOMAIN agents : agents[i].id # agent.id
    BY <1>2 DEF inSwarm, swarmIds, idsOf
  <2> DEFINE l == Len(agents) + 1
  <2>3. /\ all \in Seq(AgentRecord) /\ DOMAIN all = DOMAIN agents \cup {l}
        /\ l \notin DOMAIN agents /\ all[l] = agent
        /\ \A i \in DOMAIN agents : all[i] = agents[i]
    BY <2>1
  <2> HIDE DEF l
  <2> QED
    BY <2>2, <2>3 DEF swarmIds, idsOf
<1> QED
  BY <1>1, <1>2

\* A new agent has no tasks yet, and everybody else has those it had.
LEMMA Spawned ==
  ASSUME SwarmInv, NEW a \in AgentId, NEW ty \in AgentType, NEW role \in Role,
         spawn(a, ty, role, defaultCapabilities[ty]), UNCHANGED <<topology, exec>>
  PROVE  /\ TaskInv(now', spawned') /\ Connected'
         /\ spawned' \in 0 .. MaxSpawns /\ connections' \subseteq Connection
<1> DEFINE agent == [obj |-> spawned + 1, id |-> a, type |-> ty, role |-> role,
                     capabilities |-> defaultCapabilities[ty], status |-> "active"]
           all == withAgent(agent)
           n == spawned + 1
<1>1. /\ spawned \in 0 .. MaxSpawns /\ spawned < MaxSpawns /\ spawned' = n
      /\ agents' = all /\ metrics' = [metrics EXCEPT ![a] = freshMetrics]
      /\ connections' = connections \cup newConnections(agent, all, topology)
  BY DEF spawn, SwarmInv, SwarmTypeOK
<1>2. n \in 1 .. MaxSpawns /\ \A k \in 0 .. MaxSpawns : k <= spawned => k <= n /\ k # n
  BY <1>1, SwarmAssumption
<1>3. /\ agents \in Seq(AgentRecord) /\ metrics \in [AgentId -> Metrics]
      /\ \A i, j \in DOMAIN agents : agents[i].id = agents[j].id => i = j
      /\ exec \in [Task -> ExecType] /\ connections \subseteq Connection
  BY DEF SwarmInv, SwarmTypeOK
<1>4. /\ agent \in AgentRecord /\ agent.id = a /\ agent.obj = n /\ agent.status = "active"
  BY <1>2, SwarmAssumption DEF AgentRecord
<1> HIDE DEF n, agent, all
<1>5. /\ all \in Seq(AgentRecord)
      /\ \A i \in DOMAIN all : \/ all[i] = agent
                               \/ i \in DOMAIN agents /\ all[i] = agents[i] /\ agents[i].id # a
      /\ \A i, j \in DOMAIN all : all[i].id = all[j].id => i = j
      /\ \E i \in DOMAIN all : all[i] = agent
      /\ \A b \in idsOf(all) : b \in swarmIds \/ b = a
      /\ \A b \in swarmIds : b \in idsOf(all)
  <2>1. all = withAgent(agent)
    BY DEF all
  <2>2. /\ all \in Seq(AgentRecord)
        /\ \A i \in DOMAIN all : \/ all[i] = agent
                                 \/ i \in DOMAIN agents /\ all[i] = agents[i] /\ agents[i].id # agent.id
        /\ \A i, j \in DOMAIN all : all[i].id = all[j].id => i = j
        /\ \E i \in DOMAIN all : all[i] = agent
        /\ \A b \in idsOf(all) : b \in swarmIds \/ b = agent.id
        /\ \A b \in swarmIds : b \in idsOf(all)
    <3>1. /\ agents \in Seq(AgentRecord) /\ agent \in AgentRecord
          /\ \A i, j \in DOMAIN agents : agents[i].id = agents[j].id => i = j
      BY <1>3, <1>4
    <3>2. all \in Seq(AgentRecord)
      BY <2>1, <3>1, WithAgent
    <3>3. ASSUME NEW i \in DOMAIN all, all[i] # agent
          PROVE  i \in DOMAIN agents /\ all[i] = agents[i] /\ agents[i].id # agent.id
      BY <2>1, <3>1, <3>3, WithAgent
    <3>4. \A i, j \in DOMAIN all : all[i].id = all[j].id => i = j
      BY <2>1, <3>1, WithAgent
    <3>5. \E i \in DOMAIN all : all[i] = agent
      BY <2>1, <3>1, WithAgent
    <3>6. \A b \in idsOf(all) : b \in swarmIds \/ b = agent.id
      BY <2>1, <3>1, WithAgent
    <3>7. \A b \in swarmIds : b \in idsOf(all)
      BY <2>1, <3>1, WithAgent
    <3> QED
      BY <3>2, <3>3, <3>4, <3>5, <3>6, <3>7
  <2>3. agent.id = a
    BY <1>4
  <2> QED
    BY <2>2, <2>3
<1>6. PICK m \in DOMAIN all : all[m] = agent
  BY <1>5
<1>7. /\ freshMetrics \in Metrics /\ freshMetrics # NoAgent
  BY SwarmAssumption DEF freshMetrics, Metrics
<1>8. /\ metrics' \in [AgentId -> Metrics] /\ metrics'[a] = freshMetrics
      /\ \A b \in AgentId : b # a => metrics'[b] = metrics[b]
  BY <1>1, <1>3, <1>7
<1>9. /\ now'.agents = all /\ now'.metrics = metrics' /\ now'.exec = exec
      /\ now.agents = agents /\ now.metrics = metrics /\ now.exec = exec
  BY <1>1 DEF now
<1>10. now' \in TaskState
  BY <1>1, <1>3, <1>5, <1>8 DEF now, TaskState
<1>11. Objects(now, spawned) /\ OneEach(now) /\ Counts(now)
  BY DEF SwarmInv, TaskInv
<1>12. \A i \in DOMAIN agents : /\ agents[i].id \in AgentId /\ agents[i].obj \in 0 .. MaxSpawns
                                /\ agents[i].obj <= spawned
  <2>1. \A i \in DOMAIN agents : agents[i].id \in AgentId /\ agents[i].obj \in 1 .. MaxSpawns
    BY <1>3, AgentFields
  <2>2. \A k \in 1 .. MaxSpawns : k \in 0 .. MaxSpawns
    BY SwarmAssumption
  <2> QED
    BY <1>9, <1>11, <2>1, <2>2 DEF Objects
<1>13. \A t \in Task : /\ exec[t].obj \in 0 .. MaxSpawns /\ exec[t].obj <= spawned
                       /\ exec[t].obj <= n /\ exec[t].obj # n
  <2>1. \A t \in Task : exec[t].obj \in 0 .. MaxSpawns
    BY <1>3 DEF ExecType
  <2> QED
    BY <1>2, <1>9, <1>11, <2>1 DEF Objects
<1>14. Objects(now', n)
  <2>1. \A i, j \in DOMAIN all : all[i].obj = all[j].obj => i = j
    <3> SUFFICES ASSUME NEW i \in DOMAIN all, NEW j \in DOMAIN all, all[i].obj = all[j].obj
                 PROVE  i = j
      OBVIOUS
    <3>1. CASE all[i] = agent /\ all[j] = agent
      BY <1>5, <3>1
    <3>2. CASE all[i] # agent /\ all[j] # agent
      BY <1>5, <1>9, <1>11, <3>2 DEF Objects
    <3>3. CASE all[i] # agent /\ all[j] = agent
      BY <1>2, <1>4, <1>5, <1>12, <3>3
    <3>4. CASE all[i] = agent /\ all[j] # agent
      BY <1>2, <1>4, <1>5, <1>12, <3>4
    <3> QED
      BY <3>1, <3>2, <3>3, <3>4
  <2>2. ASSUME NEW i \in DOMAIN all PROVE all[i].obj <= n /\ metrics'[all[i].id] # NoAgent
    <3>1. CASE all[i] = agent
      BY <1>2, <1>4, <1>7, <1>8, <3>1
    <3>2. CASE all[i] # agent
      <4>1. i \in DOMAIN agents /\ all[i] = agents[i] /\ agents[i].id # a
        BY <1>5, <3>2
      <4>2. metrics[agents[i].id] # NoAgent
        BY <1>9, <1>11, <4>1 DEF Objects
      <4> QED
        BY <1>2, <1>8, <1>12, <4>1, <4>2
    <3> QED
      BY <3>1, <3>2
  <2>3. ASSUME NEW t \in Task
        PROVE  /\ exec[t].obj <= n
               /\ exec[t].obj # 0 => exec[t].agent \in AgentId
               /\ exec[t].pc = "none" => exec[t].obj = 0
               /\ exec[t].pc = "running" => exec[t].obj # 0
               /\ \A i \in DOMAIN all : exec[t].obj = all[i].obj => exec[t].agent = all[i].id
    <3>1. \A i \in DOMAIN all : exec[t].obj = all[i].obj => exec[t].agent = all[i].id
      BY <1>4, <1>5, <1>9, <1>11, <1>13 DEF Objects
    <3> QED
      BY <1>9, <1>11, <1>13, <3>1 DEF Objects
  <2> QED
    BY <1>5, <1>9, <2>1, <2>2, <2>3 DEF Objects
<1>15. OneEach(now')
  <2>1. ASSUME NEW i \in DOMAIN all
        PROVE  all[i].status = "busy" <=> \E t \in Task : runsOn(exec, t, all[i].obj)
    <3>1. CASE all[i] = agent
      BY <1>4, <1>13, <3>1 DEF runsOn
    <3>2. CASE all[i] # agent
      BY <1>5, <1>9, <1>11, <3>2 DEF OneEach
    <3> QED
      BY <3>1, <3>2
  <2>2. \A r, s \in Task : \A o \in 1 .. MaxSpawns :
          runsOn(exec, r, o) /\ runsOn(exec, s, o) => r = s
    BY <1>9, <1>11 DEF OneEach
  <2> QED
    BY <1>9, <2>1, <2>2 DEF OneEach
<1>16. Counts(now')
  <2> SUFFICES ASSUME NEW i \in DOMAIN all, NEW b, b = all[i],
                      \A t \in Task : wasAt(exec, t, b.id) => exec[t].obj = b.obj
               PROVE  metrics'[b.id] = [completed |-> Cardinality(endedAt(exec, b.id, "completed")),
                                        failed |-> Cardinality(endedAt(exec, b.id, "failed"))]
    BY <1>9 DEF Counts
  <2>1. CASE b = agent
    <3>1. \A t \in Task : ~wasAt(exec, t, a)
      BY <1>4, <1>13, <2>1
    <3>2. endedAt(exec, a, "completed") = {} /\ endedAt(exec, a, "failed") = {}
      BY <3>1 DEF endedAt
    <3> QED
      BY <1>4, <1>8, <2>1, <3>2, FS_EmptySet DEF freshMetrics
  <2>2. CASE b # agent
    <3>1. i \in DOMAIN agents /\ b = agents[i] /\ b.id # a /\ b.id \in AgentId
      BY <1>5, <1>12, <2>2
    <3>2. metrics[b.id] = [completed |-> Cardinality(endedAt(exec, b.id, "completed")),
                           failed |-> Cardinality(endedAt(exec, b.id, "failed"))]
      BY <1>9, <1>11, <3>1 DEF Counts
    <3> QED
      BY <1>8, <3>1, <3>2
  <2> QED
    BY <2>1, <2>2
<1> DEFINE new == newConnections(agent, all, topology)
<1>17. /\ \A c \in new : /\ c \in Connection /\ c.from # c.to
                         /\ c.from \in idsOf(all) /\ c.to \in idsOf(all)
       /\ topology = "mesh" =>
            \A b \in idsOf(all) : b # a => \E c \in new : c.from = a /\ c.to = b
  BY <1>4, <1>5, <1>6, NewConnections
<1>18. connections' = connections \cup new /\ swarmIds' = idsOf(all) /\ topology' = topology
  BY <1>1 DEF swarmIds
<1> HIDE DEF new
<1>19. Connected'
  <2>1. /\ \A c \in connections : c.from # c.to /\ c.from \in swarmIds /\ c.to \in swarmIds
        /\ topology = "mesh" => \A b, c \in swarmIds : b # c =>
                                  \E d \in connections : {d.from, d.to} = {b, c}
    BY DEF SwarmInv, Connected
  <2>2. \A c \in connections' : c.from # c.to /\ {c.from, c.to} \subseteq swarmIds'
    BY <1>5, <1>17, <1>18, <2>1
  <2>3. ASSUME topology = "mesh", NEW b \in swarmIds', NEW c \in swarmIds', b # c
        PROVE  \E d \in connections' : {d.from, d.to} = {b, c}
    <3>1. CASE b = a
      <4>1. PICK d \in new : d.from = a /\ d.to = c
        BY <1>17, <1>18, <2>3, <3>1
      <4> QED
        BY <1>18, <3>1, <4>1
    <3>2. CASE c = a
      <4>1. PICK d \in new : d.from = a /\ d.to = b
        BY <1>17, <1>18, <2>3, <3>2
      <4> QED
        BY <1>18, <3>2, <4>1
    <3>3. CASE b # a /\ c # a
      <4>1. b \in swarmIds /\ c \in swarmIds
        BY <1>5, <1>18, <3>3
      <4>2. PICK d \in connections : {d.from, d.to} = {b, c}
        BY <2>1, <2>3, <4>1
      <4> QED
        BY <1>18, <4>2
    <3> QED
      BY <3>1, <3>2, <3>3
  <2> QED
    BY <1>18, <2>2, <2>3 DEF Connected
<1>20. spawned' \in 0 .. MaxSpawns /\ connections' \subseteq Connection
  <2>1. \A k \in 1 .. MaxSpawns : k \in 0 .. MaxSpawns
    BY SwarmAssumption
  <2> QED
    BY <1>1, <1>2, <1>3, <1>17, <1>18, <2>1
<1> QED
  BY <1>1, <1>10, <1>14, <1>15, <1>16, <1>19, <1>20 DEF TaskInv

\* What leaves the swarm takes its metrics and connections along; who stays keeps all.
LEMMA Fewer ==
  ASSUME SwarmInv, NEW ids, agents' \in Seq(AgentRecord),
         \A k \in DOMAIN agents' : \E i \in DOMAIN agents : agents'[k] = agents[i] /\ agents[i].id \notin ids,
         \A i \in DOMAIN agents : agents[i].id \notin ids => \E k \in DOMAIN agents' : agents'[k] = agents[i],
         \A j, k \in DOMAIN agents' : agents'[j] = agents'[k] => j = k,
         metrics' = [a \in AgentId |-> IF a \in ids THEN NoAgent ELSE metrics[a]],
         connections' = {c \in connections : c.from \notin ids /\ c.to \notin ids},
         UNCHANGED <<topology, exec, scaling, spawned, reconfigured>>
  PROVE  SwarmInv'
<1>1. /\ agents \in Seq(AgentRecord) /\ metrics \in [AgentId -> Metrics]
      /\ \A i, j \in DOMAIN agents : agents[i].id = agents[j].id => i = j
      /\ exec \in [Task -> ExecType] /\ connections \subseteq Connection
  BY DEF SwarmInv, SwarmTypeOK
<1>2. metrics' \in [AgentId -> Metrics] /\ \A a \in AgentId : a \notin ids => metrics'[a] = metrics[a]
  BY <1>1 DEF Metrics
<1>3. /\ now'.agents = agents' /\ now'.metrics = metrics' /\ now'.exec = exec
      /\ now.agents = agents /\ now.metrics = metrics /\ now.exec = exec
      /\ now' = [agents |-> agents', metrics |-> metrics', exec |-> exec]
      /\ Objects(now, spawned) /\ OneEach(now) /\ Counts(now)
  BY DEF now, SwarmInv, TaskInv
<1>4. now' \in TaskState
  BY <1>1, <1>2, <1>3 DEF TaskState
<1>5. \A k \in DOMAIN agents' : \E i \in DOMAIN agents :
        agents'[k] = agents[i] /\ agents[i].id \notin ids /\ agents[i].id \in AgentId
  BY <1>1, AgentFields
<1>6. \A j, k \in DOMAIN agents' : agents'[j].id = agents'[k].id => j = k
  <2> SUFFICES ASSUME NEW j \in DOMAIN agents', NEW k \in DOMAIN agents', agents'[j].id = agents'[k].id
               PROVE  j = k
    OBVIOUS
  <2>1. PICK p \in DOMAIN agents : agents'[j] = agents[p]
    BY <1>5
  <2>2. PICK q \in DOMAIN agents : agents'[k] = agents[q]
    BY <1>5
  <2> QED
    BY <1>1, <2>1, <2>2
<1>7. Objects(now', spawned)
  <2>1. \A j, k \in DOMAIN agents' : agents'[j].obj = agents'[k].obj => j = k
    <3> SUFFICES ASSUME NEW j \in DOMAIN agents', NEW k \in DOMAIN agents', agents'[j].obj = agents'[k].obj
                 PROVE  j = k
      OBVIOUS
    <3>1. PICK p \in DOMAIN agents : agents'[j] = agents[p]
      BY <1>5
    <3>2. PICK q \in DOMAIN agents : agents'[k] = agents[q]
      BY <1>5
    <3> QED
      BY <1>3, <3>1, <3>2 DEF Objects
  <2>2. \A k \in DOMAIN agents' : agents'[k].obj <= spawned /\ metrics'[agents'[k].id] # NoAgent
    BY <1>2, <1>3, <1>5 DEF Objects
  <2>3. \A t \in Task : /\ exec[t].obj <= spawned
                        /\ exec[t].obj # 0 => exec[t].agent \in AgentId
                        /\ exec[t].pc = "none" => exec[t].obj = 0
                        /\ exec[t].pc = "running" => exec[t].obj # 0
                        /\ \A k \in DOMAIN agents' : exec[t].obj = agents'[k].obj => exec[t].agent = agents'[k].id
    BY <1>3, <1>5 DEF Objects
  <2> QED
    BY <1>3, <1>6, <2>1, <2>2, <2>3 DEF Objects
<1>8. OneEach(now')
  BY <1>3, <1>5 DEF OneEach
<1>9. Counts(now')
  <2> SUFFICES ASSUME NEW k \in DOMAIN agents', NEW b, b = agents'[k],
                      \A t \in Task : wasAt(exec, t, b.id) => exec[t].obj = b.obj
               PROVE  metrics'[b.id] = [completed |-> Cardinality(endedAt(exec, b.id, "completed")),
                                        failed |-> Cardinality(endedAt(exec, b.id, "failed"))]
    BY <1>3 DEF Counts
  <2>1. PICK i \in DOMAIN agents : b = agents[i] /\ b.id \notin ids /\ b.id \in AgentId
    BY <1>5
  <2>2. metrics[b.id] = [completed |-> Cardinality(endedAt(exec, b.id, "completed")),
                         failed |-> Cardinality(endedAt(exec, b.id, "failed"))]
    BY <1>3, <2>1 DEF Counts
  <2> QED
    BY <1>2, <2>1, <2>2
<1>10. \A a : a \in swarmIds' <=> a \in swarmIds /\ a \notin ids
  BY <1>5 DEF swarmIds, idsOf
<1>11. Connected'
  <2>1. /\ \A c \in connections : c.from # c.to /\ c.from \in swarmIds /\ c.to \in swarmIds
        /\ topology = "mesh" => \A b, c \in swarmIds : b # c =>
                                  \E d \in connections : {d.from, d.to} = {b, c}
    BY DEF SwarmInv, Connected
  <2>2. \A c \in connections' : c.from # c.to /\ {c.from, c.to} \subseteq swarmIds'
    BY <1>10, <2>1
  <2>3. ASSUME topology = "mesh", NEW b \in swarmIds', NEW c \in swarmIds', b # c
        PROVE  \E d \in connections' : {d.from, d.to} = {b, c}
    <3>1. b \in swarmIds /\ c \in swarmIds /\ b \notin ids /\ c \notin ids
      BY <1>10
    <3>2. PICK d \in connections : {d.from, d.to} = {b, c}
      BY <2>1, <2>3, <3>1
    <3>3. d.from \notin ids /\ d.to \notin ids
      BY <3>1, <3>2
    <3> QED
      BY <3>2, <3>3
  <2>4. topology' = topology
    OBVIOUS
  <2> QED
    BY <2>2, <2>3, <2>4 DEF Connected
<1>12. SwarmTypeOK'
  BY <1>1, <1>2, <1>6 DEF SwarmInv, SwarmTypeOK
<1> QED
  BY <1>4, <1>7, <1>8, <1>9, <1>11, <1>12 DEF SwarmInv, TaskInv

\* Agents are terminated together.
LEMMA Terminated ==
  ASSUME SwarmInv, NEW ids, terminate(ids),
         UNCHANGED <<topology, exec, scaling, spawned, reconfigured>>
  PROVE  SwarmInv'
<1> DEFINE I == {i \in DOMAIN agents : agents[i].id \notin ids}
<1>1. /\ agents \in Seq(AgentRecord)
      /\ \A i, j \in DOMAIN agents : agents[i].id = agents[j].id => i = j
      /\ agents' = Subsequence(agents, I)
      /\ metrics' = [a \in AgentId |-> IF a \in ids THEN NoAgent ELSE metrics[a]]
      /\ connections' = {c \in connections : c.from \notin ids /\ c.to \notin ids}
  BY DEF SwarmInv, SwarmTypeOK, terminate
<1>2. I \in SUBSET DOMAIN agents
  OBVIOUS
<1>3. once(agents)
  BY <1>1 DEF once
<1>4. \A i : i \in I <=> i \in DOMAIN agents /\ agents[i].id \notin ids
  OBVIOUS
<1> HIDE DEF I
<1>5. /\ agents' \in Seq(AgentRecord) /\ once(agents')
      /\ \A k \in DOMAIN agents' : nth(I, k) \in I /\ agents'[k] = agents[nth(I, k)]
      /\ \A i \in I : \E k \in DOMAIN agents' : nth(I, k) = i
  BY <1>1, <1>2, <1>3, SubsequenceKeeps, SubsequenceSet
<1>6. /\ \A k \in DOMAIN agents' : \E i \in DOMAIN agents : agents'[k] = agents[i] /\ agents[i].id \notin ids
      /\ \A i \in DOMAIN agents : agents[i].id \notin ids => \E k \in DOMAIN agents' : agents'[k] = agents[i]
      /\ \A j, k \in DOMAIN agents' : agents'[j] = agents'[k] => j = k
  BY <1>4, <1>5 DEF once
<1> QED
  BY <1>1, <1>5, <1>6, Fewer

\* All agents leave at once.
LEMMA ShutDown ==
  ASSUME SwarmInv, ShutdownSwarm
  PROVE  SwarmInv'
<1>1. /\ agents' = <<>> /\ connections' = {}
      /\ metrics' = [a \in AgentId |-> NoAgent]
      /\ UNCHANGED <<topology, exec, scaling, spawned, reconfigured>>
  BY DEF ShutdownSwarm
<1>2. agents' \in Seq(AgentRecord) /\ DOMAIN agents' = {}
  BY <1>1
<1>3. /\ agents \in Seq(AgentRecord) /\ connections \subseteq Connection
  BY DEF SwarmInv, SwarmTypeOK
<1>4. \A i \in DOMAIN agents : agents[i].id \in AgentId
  BY <1>3, AgentFields
<1>5. metrics' = [a \in AgentId |-> IF a \in AgentId THEN NoAgent ELSE metrics[a]]
  BY <1>1
<1>6. connections' = {c \in connections : c.from \notin AgentId /\ c.to \notin AgentId}
  BY <1>1, <1>3 DEF Connection
<1> QED
  BY <1>1, <1>2, <1>4, <1>5, <1>6, Fewer

\* All connections are made anew.
LEMMA Reconfigured ==
  ASSUME SwarmInv, NEW topo \in Topology, Reconfigure(topo)
  PROVE  SwarmInv'
<1> DEFINE new(i) == newConnections(agents[i], agents, topo)
<1>1. /\ reconfigured' = reconfigured + 1 /\ reconfigured < MaxReconfigures /\ topology' = topo
      /\ connections' = UNION {new(i) : i \in DOMAIN agents}
      /\ UNCHANGED <<agents, metrics, exec, scaling, spawned>>
  BY DEF Reconfigure
<1>2. /\ agents \in Seq(AgentRecord)
      /\ \A i, j \in DOMAIN agents : agents[i].id = agents[j].id => i = j
  BY DEF SwarmInv, SwarmTypeOK
<1>3. \A i \in DOMAIN agents :
        /\ \A c \in new(i) : c \in Connection /\ c.from # c.to /\ c.from \in swarmIds /\ c.to \in swarmIds
        /\ topo = "mesh" =>
             \A b \in swarmIds : b # agents[i].id => \E c \in new(i) : c.from = agents[i].id /\ c.to = b
  BY <1>2, NewConnections DEF swarmIds
<1> HIDE DEF new
<1>4. swarmIds' = swarmIds /\ now' = now
  BY <1>1 DEF swarmIds, now
<1>5. Connected'
  <2>1. \A c \in connections' : c.from # c.to /\ c.from \in swarmIds' /\ c.to \in swarmIds'
    BY <1>1, <1>3, <1>4
  <2>2. ASSUME topo = "mesh", NEW a \in swarmIds', NEW b \in swarmIds', a # b
        PROVE  \E c \in connections' : {c.from, c.to} = {a, b}
    <3>1. PICK i \in DOMAIN agents : a = agents[i].id
      BY <1>4 DEF swarmIds, idsOf
    <3>2. PICK c \in new(i) : c.from = a /\ c.to = b
      BY <1>3, <1>4, <2>2, <3>1
    <3> QED
      BY <1>1, <3>2
  <2> QED
    BY <1>1, <2>1, <2>2 DEF Connected
<1>6. connections' \subseteq Connection
  BY <1>1, <1>3
<1>7. reconfigured' \in 0 .. MaxReconfigures
  BY <1>1, SwarmAssumption DEF SwarmInv, SwarmTypeOK
<1>8. SwarmTypeOK'
  BY <1>1, <1>6, <1>7 DEF SwarmInv, SwarmTypeOK
<1>9. TaskInv(now, spawned)'
  BY <1>1, <1>4 DEF SwarmInv
<1> QED
  BY <1>5, <1>8, <1>9 DEF SwarmInv

\* A new agent, by itself or as one of a scaling.
LEMMA SpawnKeeps ==
  ASSUME SwarmInv, NEW a \in AgentId, NEW ty \in AgentType, NEW role \in Role,
         spawn(a, ty, role, defaultCapabilities[ty]), UNCHANGED <<topology, exec, reconfigured>>,
         scaling' \in [type : AgentType \cup {NoAgent}, left : Nat],
         scaling'.left > 0 => scaling'.type \in AgentType
  PROVE  SwarmInv'
<1>1. /\ TaskInv(now', spawned') /\ Connected'
      /\ spawned' \in 0 .. MaxSpawns /\ connections' \subseteq Connection
  BY Spawned
<1>2. /\ agents' \in Seq(AgentRecord) /\ metrics' \in [AgentId -> Metrics]
      /\ \A i, j \in DOMAIN agents' : agents'[i].id = agents'[j].id => i = j
      /\ exec' \in [Task -> ExecType]
  BY <1>1 DEF TaskInv, TaskState, Objects, now
<1>3. SwarmTypeOK'
  BY <1>1, <1>2 DEF SwarmInv, SwarmTypeOK
<1> QED
  BY <1>1, <1>3 DEF SwarmInv

\* The swarm starts without agents and tasks.
LEMMA SwarmStarts == SwarmInit => SwarmInv
<1> SUFFICES ASSUME SwarmInit PROVE SwarmInv
  OBVIOUS
<1>1. /\ topology \in Topology /\ agents = <<>> /\ connections = {}
      /\ metrics = [a \in AgentId |-> NoAgent] /\ exec = [t \in Task |-> noExec]
      /\ scaling = noScaling /\ spawned = 0 /\ reconfigured = 0
  BY DEF SwarmInit
<1>2. /\ agents \in Seq(AgentRecord) /\ DOMAIN agents = {} /\ metrics \in [AgentId -> Metrics]
      /\ 0 \in 0 .. MaxSpawns /\ 0 \in 0 .. MaxReconfigures
  BY <1>1, SwarmAssumption DEF Metrics
<1>3. noExec \in ExecType /\ noExec.pc = "none" /\ noExec.obj = 0
  BY <1>2 DEF noExec, ExecType
<1>4. exec \in [Task -> ExecType] /\ \A t \in Task : exec[t].pc = "none" /\ exec[t].obj = 0
  BY <1>1, <1>3
<1>5. scaling \in [type : AgentType \cup {NoAgent}, left : Nat] /\ scaling.left = 0
  BY <1>1 DEF noScaling
<1>6. SwarmTypeOK
  BY <1>1, <1>2, <1>4, <1>5 DEF SwarmTypeOK
<1>7. now.agents = agents /\ now.metrics = metrics /\ now.exec = exec /\ now \in TaskState
  BY <1>2, <1>4 DEF now, TaskState
<1>8. Objects(now, spawned) /\ OneEach(now) /\ Counts(now)
  BY <1>1, <1>2, <1>4, <1>7 DEF Objects, OneEach, Counts, runsOn
<1>9. Connected
  BY <1>1, <1>2 DEF Connected, swarmIds, idsOf
<1> QED
  BY <1>6, <1>7, <1>8, <1>9 DEF SwarmInv, TaskInv

\* Every step keeps the invariant.
LEMMA SwarmInductive == SwarmInv /\ [SwarmNext]_swarmVars => SwarmInv'
<1> SUFFICES ASSUME SwarmInv, [SwarmNext]_swarmVars PROVE SwarmInv'
  OBVIOUS
<1>0. /\ scaling \in [type : AgentType \cup {NoAgent}, left : Nat]
      /\ scaling.left > 0 => scaling.type \in AgentType
  BY DEF SwarmInv, SwarmTypeOK
<1>1. ASSUME NEW a \in AgentId, NEW ty \in AgentType, NEW role \in Role, SpawnAgent(a, ty, role)
      PROVE  SwarmInv'
  BY <1>0, <1>1, SpawnKeeps DEF SpawnAgent
<1>2. ASSUME NEW a \in AgentId, TerminateAgent(a) PROVE SwarmInv'
  BY <1>2, Terminated DEF TerminateAgent
<1>3. ASSUME ShutdownSwarm PROVE SwarmInv'
  BY <1>3, ShutDown
<1>4. ASSUME NEW ty \in AgentType, NEW n \in 1 .. 2, ScaleDown(ty, n) PROVE SwarmInv'
  BY <1>4, Terminated DEF ScaleDown
<1>5. ASSUME NEW ty \in AgentType, NEW n \in 1 .. 2, ScaleUp(ty, n) PROVE SwarmInv'
  <2>1. /\ scaling' = [type |-> ty, left |-> n]
        /\ UNCHANGED <<topology, agents, metrics, connections, exec, spawned, reconfigured>>
    BY <1>5 DEF ScaleUp
  <2>2. /\ scaling' \in [type : AgentType \cup {NoAgent}, left : Nat]
        /\ scaling'.left > 0 => scaling'.type \in AgentType
    BY <2>1
  <2>3. SwarmTypeOK'
    BY <2>1, <2>2 DEF SwarmInv, SwarmTypeOK
  <2>4. TaskInv(now, spawned)' /\ Connected'
    BY <2>1 DEF SwarmInv, now, Connected, swarmIds
  <2> QED
    BY <2>3, <2>4 DEF SwarmInv
<1>6. ASSUME ScaleStep PROVE SwarmInv'
  <2>1. PICK a \in AgentId : spawn(a, scaling.type, "worker", defaultCapabilities[scaling.type])
    BY <1>6 DEF ScaleStep
  <2>2. /\ scaling.left > 0 /\ scaling.type \in AgentType /\ UNCHANGED <<topology, exec, reconfigured>>
        /\ scaling' = IF scaling.left = 1 THEN noScaling ELSE [scaling EXCEPT !.left = @ - 1]
    BY <1>0, <1>6 DEF ScaleStep
  <2>3. /\ scaling' \in [type : AgentType \cup {NoAgent}, left : Nat]
        /\ scaling'.left > 0 => scaling'.type \in AgentType
    BY <1>0, <2>2 DEF noScaling
  <2>4. "worker" \in Role
    BY DEF Role
  <2> QED
    BY <2>1, <2>2, <2>3, <2>4, SpawnKeeps
<1>7. ASSUME NEW topo \in Topology, Reconfigure(topo) PROVE SwarmInv'
  BY <1>7, Reconfigured
<1>8. ASSUME Membership PROVE SwarmInv'
  BY <1>1, <1>2, <1>3, <1>4, <1>5, <1>6, <1>7, <1>8 DEF Membership
<1>9. ASSUME TaskStep(Task) PROVE SwarmInv'
  BY <1>9, TaskEndsKeeps, ExecuteTaskKeeps, ExecuteTasksConcurrentlyKeeps DEF TaskStep
<1>10. ASSUME UNCHANGED swarmVars PROVE SwarmInv'
  <2>1. SwarmTypeOK'
    BY <1>10 DEF SwarmInv, SwarmTypeOK, swarmVars
  <2>2. TaskInv(now, spawned)' /\ Connected'
    BY <1>10 DEF SwarmInv, now, Connected, swarmIds, swarmVars
  <2> QED
    BY <2>1, <2>2 DEF SwarmInv
<1> QED
  BY <1>8, <1>9, <1>10 DEF SwarmNext

\* What the invariant says of single objects is what the runs check of sets.
LEMMA Accounted == SwarmInv => TasksAccounted
<1> SUFFICES ASSUME SwarmInv PROVE TasksAccounted
  OBVIOUS
<1>1. /\ now.agents = agents /\ now.metrics = metrics /\ now.exec = exec
      /\ OneEach(now) /\ Counts(now) /\ Objects(now, spawned)
      /\ agents \in Seq(AgentRecord) /\ spawned \in 0 .. MaxSpawns
  BY DEF now, SwarmInv, TaskInv, SwarmTypeOK
<1> DEFINE running(o) == {t \in Task : exec[t].pc = "running" /\ exec[t].obj = o}
<1>2. \A o \in 1 .. spawned : Cardinality(running(o)) <= 1
  <2> SUFFICES ASSUME NEW o \in 1 .. spawned PROVE Cardinality(running(o)) <= 1
    OBVIOUS
  <2>1. \A s, t \in running(o) : s = t
    <3>1. o \in 1 .. MaxSpawns
      BY <1>1, SwarmAssumption
    <3> QED
      BY <1>1, <3>1 DEF OneEach, runsOn
  <2> HIDE DEF running
  <2>2. CASE running(o) = {}
    BY <2>2, FS_EmptySet
  <2>3. CASE running(o) # {}
    <3>1. PICK t \in running(o) : TRUE
      BY <2>3
    <3>2. running(o) = {t}
      BY <2>1, <3>1
    <3>3. Cardinality({t}) = 1
      BY FS_Singleton
    <3> QED
      BY <3>2, <3>3
  <2> QED
    BY <2>2, <2>3
<1>3. \A i \in DOMAIN agents : agents[i].status = "busy" <=> running(agents[i].obj) # {}
  BY <1>1 DEF OneEach, runsOn
<1>4. BusyRunsOne
  BY <1>2, <1>3 DEF BusyRunsOne
<1>5. MetricsCount
  <2> SUFFICES ASSUME NEW i \in DOMAIN agents, NEW a, a = agents[i], NEW at,
                      at = {t \in Task : exec[t].agent = a.id /\ exec[t].obj # 0},
                      \A t \in at : exec[t].obj = a.obj
               PROVE  metrics[a.id] =
                        [completed |-> Cardinality({t \in at : exec[t].pc = "ended" /\ exec[t].result = "completed"}),
                         failed |-> Cardinality({t \in at : exec[t].pc = "ended" /\ exec[t].result = "failed"})]
    BY DEF MetricsCount
  <2>1. \A t \in Task : wasAt(exec, t, a.id) <=> t \in at
    BY DEF wasAt
  <2>2. \A t \in at : t \in Task
    OBVIOUS
  <2>3. \A r : endedAt(exec, a.id, r) = {t \in at : exec[t].pc = "ended" /\ exec[t].result = r}
    BY <2>1, <2>2 DEF endedAt
  <2>4. metrics[a.id] = [completed |-> Cardinality(endedAt(exec, a.id, "completed")),
                         failed |-> Cardinality(endedAt(exec, a.id, "failed"))]
    BY <1>1, <2>1 DEF Counts
  <2> QED
    BY <2>3, <2>4
<1> QED
  BY <1>4, <1>5, SpreadEvenly DEF TasksAccounted

------------------------------------------------------------------------------
(* The theorems. *)

\* The invariant holds, for any agents, tasks and batches.
THEOREM SwarmInvariant == SwarmSpec => []SwarmInv
  BY SwarmStarts, SwarmInductive, PTL DEF SwarmSpec

\* The swarm's state is what the code's declarations say (src/engine/ruflo/coordination/application/SwarmCoordinator.ts).
THEOREM SwarmTypeCorrect == SwarmSpec => []SwarmTypeOK
<1>1. SwarmInv => SwarmTypeOK
  BY DEF SwarmInv
<1> QED
  BY <1>1, SwarmInvariant, PTL

\* An object runs one task at a time and is busy while it does, the metrics of an agent
\* count the tasks that ended at it, and a batch is spread evenly.
THEOREM SwarmAccounts == SwarmSpec => []TasksAccounted
  BY Accounted, SwarmInvariant, PTL

\* Connections join members of the swarm, in a mesh any two of them.
THEOREM SwarmConnected == SwarmSpec => []Connected
<1>1. SwarmInv => Connected
  BY DEF SwarmInv
<1> QED
  BY <1>1, SwarmInvariant, PTL
------------------------------------------------------------------------------

(* The workflow engine: the order of execution. *)

\* What a task depends on is done or comes before it.
Ordered(ts, over) ==
  \A i \in DOMAIN ts : \A d \in taskDependencies[ts[i]] :
    d \in over \/ \E j \in DOMAIN ts : j < i /\ ts[j] = d

\* Some of the tasks, none twice, each after what it depends on.
Resolved(ts, o) == o \in Seq(Task) /\ once(o) /\ toSet(o) \subseteq toSet(ts) /\ Ordered(o, {})

LEMMA RoundResolves ==
  ASSUME NEW ts \in Seq(Task), once(ts), NEW o, Resolved(ts, o)
  PROVE  Resolved(ts, orderRound(ts, o))
<1> DEFINE I == {k \in DOMAIN ts : ts[k] \notin toSet(o) /\ taskDependencies[ts[k]] \subseteq toSet(o)}
           sub == Subsequence(ts, I)
           next == sortByPriority(sub)
           all == o \o next
<1>0. o \in Seq(Task) /\ once(o) /\ toSet(o) \subseteq toSet(ts) /\ Ordered(o, {})
  BY DEF Resolved
<1>1. sub \in Seq(Task) /\ toSet(sub) = {ts[i] : i \in I} /\ once(sub)
  <2>1. I \in SUBSET DOMAIN ts
    OBVIOUS
  <2> HIDE DEF I
  <2> QED
    BY <2>1, SubsequenceKeeps, SubsequenceSet
<1>2. /\ \A t \in toSet(sub) : t \notin toSet(o) /\ taskDependencies[t] \subseteq toSet(o)
      /\ toSet(sub) \subseteq toSet(ts)
  BY <1>1 DEF toSet
<1> HIDE DEF sub
<1>3. next \in Seq(Task) /\ toSet(next) = toSet(sub) /\ once(next)
  BY <1>1, SortedTasks
<1> HIDE DEF next
<1>4. /\ all \in Seq(Task) /\ once(all) /\ toSet(all) = toSet(o) \cup toSet(next)
      /\ DOMAIN all = 1 .. Len(o) + Len(next)
      /\ \A k \in DOMAIN all : IF k <= Len(o) THEN all[k] = o[k] ELSE all[k] \in toSet(next)
  <2>1. toSet(o) \cap toSet(next) = {}
    BY <1>2, <1>3
  <2>2. all \in Seq(Task) /\ once(all) /\ toSet(all) = toSet(o) \cup toSet(next)
        /\ Len(all) = Len(o) + Len(next)
    BY <1>0, <1>3, <2>1, JoinedSets
  <2>3. \A k \in 1 .. Len(o) + Len(next) : all[k] = IF k <= Len(o) THEN o[k] ELSE next[k - Len(o)]
    BY <1>0, <1>3
  <2>4. \A k \in 1 .. Len(o) + Len(next) : ~(k <= Len(o)) => k - Len(o) \in DOMAIN next
    BY <1>0, <1>3
  <2> HIDE DEF all
  <2>5. DOMAIN all = 1 .. Len(o) + Len(next)
    BY <2>2
  <2> QED
    BY <2>2, <2>3, <2>4, <2>5 DEF toSet
<1>5. \A k \in DOMAIN o : k \in DOMAIN all /\ all[k] = o[k] /\ k <= Len(o) /\ k \in Int
  <2> HIDE DEF all
  <2>1. DOMAIN o = 1 .. Len(o) /\ Len(o) \in Nat /\ Len(next) \in Nat
    BY <1>0, <1>3
  <2> QED
    BY <1>4, <2>1
<1>6. \A k \in DOMAIN all : k \in Int /\ Len(o) \in Int /\ (k <= Len(o) => k \in DOMAIN o)
  <2> HIDE DEF all
  <2>1. DOMAIN o = 1 .. Len(o) /\ Len(o) \in Nat /\ Len(next) \in Nat
    BY <1>0, <1>3
  <2> QED
    BY <1>4, <2>1
<1> HIDE DEF all
<1>7. Ordered(all, {})
  <2> SUFFICES ASSUME NEW i \in DOMAIN all, NEW d \in taskDependencies[all[i]]
               PROVE  \E j \in DOMAIN all : j < i /\ all[j] = d
    BY DEF Ordered
  <2>1. CASE i <= Len(o)
    <3>1. i \in DOMAIN o /\ all[i] = o[i]
      BY <1>4, <1>6, <2>1
    <3>2. PICK j \in DOMAIN o : j < i /\ o[j] = d
      BY <1>0, <3>1 DEF Ordered
    <3> QED
      BY <1>5, <3>2
  <2>2. CASE ~(i <= Len(o))
    <3>1. d \in toSet(o)
      BY <1>2, <1>3, <1>4, <2>2
    <3>2. PICK j \in DOMAIN o : o[j] = d
      BY <3>1 DEF toSet
    <3>3. j \in DOMAIN all /\ all[j] = d /\ j < i
      BY <1>5, <1>6, <2>2, <3>2
    <3> QED
      BY <3>3
  <2> QED
    BY <2>1, <2>2
<1>8. toSet(all) \subseteq toSet(ts)
  BY <1>0, <1>2, <1>3, <1>4
<1>9. orderRound(ts, o) = all
  BY DEF orderRound, all, next, sub
<1> QED
  BY <1>4, <1>7, <1>8, <1>9 DEF Resolved

LEMMA RoundTyped ==
  ASSUME NEW ts \in Seq(Task), NEW o \in Seq(Task)
  PROVE  orderRound(ts, o) \in Seq(Task)
<1> DEFINE I == {k \in DOMAIN ts : ts[k] \notin toSet(o) /\ taskDependencies[ts[k]] \subseteq toSet(o)}
           sub == Subsequence(ts, I)
<1>1. sub \in Seq(Task)
  <2>1. I \in SUBSET DOMAIN ts
    OBVIOUS
  <2> HIDE DEF I
  <2> QED
    BY <2>1, SubsequenceKeeps
<1>2. orderRound(ts, o) = o \o sortByPriority(sub)
  BY DEF orderRound
<1> HIDE DEF sub
<1>3. sortByPriority(sub) \in Seq(Task)
  BY <1>1, SortedTasks
<1> QED
  BY <1>2, <1>3, JoinedSets

\* The order of a workflow's tasks.
LEMMA OrderResolves ==
  ASSUME NEW ts \in Seq(Task), once(ts)
  PROVE  Resolved(ts, resolveExecutionOrder(ts))
<1> DEFINE l == Len(ts)
           Rounds(g) == g = [k \in 0 .. l |-> IF k = 0 THEN <<>> ELSE orderRound(ts, g[k - 1])]
           f == CHOOSE g : Rounds(g)
           step == [k \in 1 .. l |-> [o \in Seq(Task) |-> orderRound(ts, o)]]
<1>2. resolveExecutionOrder(ts) = f[l]
  BY DEF resolveExecutionOrder
<1>3. l \in Nat /\ <<>> \in Seq(Task)
  OBVIOUS
<1>5. \E r : Rounds(r)
  <2>1. step \in [1 .. l -> [Seq(Task) -> Seq(Task)]]
    <3>1. [o \in Seq(Task) |-> orderRound(ts, o)] \in [Seq(Task) -> Seq(Task)]
      BY RoundTyped
    <3> QED
      BY <3>1
  <2>2. \A k \in 1 .. l : \A o \in Seq(Task) : step[k][o] = orderRound(ts, o)
    OBVIOUS
  <2> HIDE DEF l, step
  <2>3. PICK r \in [0 .. l -> Seq(Task)] : Iterates(r, l, step, <<>>)
    BY <1>3, <2>1, Iteration
  <2>4. ASSUME NEW k \in 0 .. l PROVE r[k] = IF k = 0 THEN <<>> ELSE orderRound(ts, r[k - 1])
    <3>1. CASE k = 0
      BY <2>3, <3>1 DEF Iterates
    <3>2. CASE k # 0
      <4>1. k \in 1 .. l /\ r[k - 1] \in Seq(Task)
        BY <1>3, <2>3, <3>2
      <4> QED
        BY <2>2, <2>3, <3>2, <4>1 DEF Iterates
    <3> QED
      BY <3>1, <3>2
  <2>5. Rounds(r)
    BY <2>3, <2>4
  <2> QED
    BY <2>5
<1>6. Rounds(f)
  <2> HIDE DEF Rounds
  <2> QED
    BY <1>5
<1> HIDE DEF f
<1>7. f[0] = <<>> /\ \A k \in 1 .. l : f[k] = orderRound(ts, f[k - 1])
  <2> HIDE DEF l
  <2>1. \A k \in 0 .. l : f[k] = IF k = 0 THEN <<>> ELSE orderRound(ts, f[k - 1])
    BY <1>6, Zenon DEF Rounds
  <2>2. 0 \in 0 .. l /\ \A k \in 1 .. l : k \in 0 .. l /\ k # 0
    BY <1>3
  <2> QED
    BY <2>1, <2>2
<1> HIDE DEF Rounds, l, step
<1> DEFINE T == {k \in 0 .. l : Resolved(ts, f[k])}
<1>8. Resolved(ts, <<>>)
  BY <1>3 DEF Resolved, once, toSet, Ordered
<1>9. \A k \in 1 .. l : k - 1 \in T => k \in T
  <2> SUFFICES ASSUME NEW k \in 1 .. l, Resolved(ts, f[k - 1])
               PROVE  k \in 0 .. l /\ Resolved(ts, f[k])
    OBVIOUS
  <2> QED
    BY <1>3, <1>7, RoundResolves
<1>10. l \in T
  <2>1. 0 \in T
    BY <1>3, <1>7, <1>8
  <2>2. l \in 0 .. l
    BY <1>3
  <2> HIDE DEF T
  <2> QED
    BY <1>3, <1>9, <2>1, <2>2, EachStep
<1> QED
  BY <1>2, <1>10 DEF l

\* The first of the tasks to do, and the others.
LEMMA FirstAndRest ==
  ASSUME NEW ts \in Seq(Task), ts # <<>>, once(ts)
  PROVE  /\ Head(ts) \in Task /\ Tail(ts) \in Seq(Task) /\ once(Tail(ts))
         /\ toSet(ts) = {Head(ts)} \cup toSet(Tail(ts)) /\ Head(ts) \notin toSet(Tail(ts))
         /\ \A over : Ordered(ts, over) => /\ taskDependencies[Head(ts)] \subseteq over
                                           /\ Ordered(Tail(ts), over \cup {Head(ts)})
<1> DEFINE h == Head(ts)
           rest == Tail(ts)
<1>1. /\ h \in Task /\ rest \in Seq(Task) /\ Len(ts) \in Nat /\ Len(ts) >= 1 /\ h = ts[1]
      /\ DOMAIN ts = 1 .. Len(ts) /\ DOMAIN rest = 1 .. Len(ts) - 1
      /\ \A k \in 1 .. Len(ts) - 1 : rest[k] = ts[k + 1]
  OBVIOUS
<1> HIDE DEF h, rest
<1>2. /\ 1 \in DOMAIN ts
      /\ \A k \in DOMAIN ts : k = 1 \/ (k - 1 \in DOMAIN rest /\ rest[k - 1] = ts[k])
      /\ \A k \in DOMAIN rest : k + 1 \in DOMAIN ts /\ k + 1 # 1 /\ rest[k] = ts[k + 1]
      /\ \A k \in DOMAIN rest : k \in Int
      /\ \A k \in DOMAIN ts : k \in Int
  BY <1>1
<1>3. once(rest)
  <2> SUFFICES ASSUME NEW i \in DOMAIN rest, NEW j \in DOMAIN rest, rest[i] = rest[j] PROVE i = j
    BY DEF once
  <2>1. i + 1 = j + 1
    BY <1>2 DEF once
  <2> QED
    BY <1>2, <2>1
<1>4. toSet(ts) = {h} \cup toSet(rest)
  <2>1. \A x \in toSet(ts) : x = h \/ x \in toSet(rest)
    BY <1>1, <1>2 DEF toSet
  <2>2. \A x \in toSet(rest) : x \in toSet(ts)
    BY <1>2 DEF toSet
  <2>3. h \in toSet(ts)
    BY <1>1, <1>2 DEF toSet
  <2> QED
    BY <2>1, <2>2, <2>3
<1>5. h \notin toSet(rest)
  <2> SUFFICES ASSUME NEW k \in DOMAIN rest, h = rest[k] PROVE FALSE
    BY DEF toSet
  <2>1. k + 1 \in DOMAIN ts /\ 1 \in DOMAIN ts /\ ts[k + 1] = ts[1] /\ k + 1 # 1
    BY <1>1, <1>2
  <2> QED
    BY <2>1 DEF once
<1>6. ASSUME NEW over, Ordered(ts, over)
      PROVE  taskDependencies[h] \subseteq over /\ Ordered(rest, over \cup {h})
  <2>1. taskDependencies[h] \subseteq over
    <3> SUFFICES ASSUME NEW d \in taskDependencies[h] PROVE d \in over
      OBVIOUS
    <3>1. d \in over \/ \E j \in DOMAIN ts : j < 1 /\ ts[j] = d
      BY <1>1, <1>2, <1>6 DEF Ordered
    <3>2. \A j \in DOMAIN ts : ~(j < 1)
      BY <1>1
    <3> QED
      BY <3>1, <3>2
  <2>2. ASSUME NEW i \in DOMAIN rest, NEW d \in taskDependencies[rest[i]], d \notin over, d # h
        PROVE  \E j \in DOMAIN rest : j < i /\ rest[j] = d
    <3>1. i + 1 \in DOMAIN ts /\ rest[i] = ts[i + 1]
      BY <1>2
    <3>2. PICK j \in DOMAIN ts : j < i + 1 /\ ts[j] = d
      BY <1>6, <2>2, <3>1 DEF Ordered
    <3>3. j - 1 \in DOMAIN rest /\ rest[j - 1] = d
      BY <1>1, <1>2, <2>2, <3>2
    <3>4. j - 1 < i
      BY <1>2, <3>2
    <3> QED
      BY <3>3, <3>4
  <2>3. Ordered(rest, over \cup {h})
    BY <2>2 DEF Ordered
  <2> QED
    BY <2>1, <2>3
<1> QED
  BY <1>1, <1>3, <1>4, <1>5, <1>6 DEF h, rest

LEMMA AppendedSet ==
  ASSUME NEW ts \in Seq(Task), NEW t \in Task
  PROVE  Append(ts, t) \in Seq(Task) /\ toSet(Append(ts, t)) = toSet(ts) \cup {t}
<1> DEFINE all == Append(ts, t)
<1>1. /\ all \in Seq(Task) /\ Len(ts) \in Nat /\ DOMAIN all = 1 .. Len(ts) + 1
      /\ DOMAIN ts = 1 .. Len(ts) /\ all[Len(ts) + 1] = t /\ \A k \in 1 .. Len(ts) : all[k] = ts[k]
  OBVIOUS
<1> HIDE DEF all
<1>2. \A k \in DOMAIN all : k = Len(ts) + 1 \/ k \in DOMAIN ts
  BY <1>1
<1>3. Len(ts) + 1 \in DOMAIN all /\ \A k \in DOMAIN ts : k \in DOMAIN all
  BY <1>1
<1>4. toSet(all) = toSet(ts) \cup {t}
  <2>1. \A x \in toSet(all) : x = t \/ x \in toSet(ts)
    BY <1>1, <1>2 DEF toSet
  <2>2. \A x \in toSet(ts) : x \in toSet(all)
    BY <1>1, <1>3 DEF toSet
  <2>3. t \in toSet(all)
    BY <1>1, <1>3 DEF toSet
  <2> QED
    BY <2>1, <2>2, <2>3
<1> QED
  BY <1>1, <1>4 DEF all

LEMMA EmptySet == toSet(<<>>) = {} /\ \A over : Ordered(<<>>, over)
  BY DEF toSet, Ordered

LEMMA Reversed ==
  ASSUME NEW ts \in Seq(Task)
  PROVE  Reverse(ts) \in Seq(Task)
<1>1. \A i \in 1 .. Len(ts) : (Len(ts) - i) + 1 \in DOMAIN ts
  OBVIOUS
<1>2. \A i \in 1 .. Len(ts) : ts[(Len(ts) - i) + 1] \in Task
  BY <1>1
<1> QED
  BY <1>2 DEF Reverse

------------------------------------------------------------------------------
(* The invariant. *)

tasksIn(w) == toSet(tasksOf[w])

\* What the run has done with, one way or the other.
tried(r) == toSet(r.completed) \cup r.failed

\* What a later task may rely on.
over(w, r) == toSet(r.completed) \cup (IF w \in rollbackOnFailure THEN {} ELSE r.failed)

Blank(r) ==
  /\ r.todo = <<>> /\ r.completed = <<>> /\ r.failed = {} /\ r.rolledBack = <<>>
  /\ r.result = "none"

\* What is to do and what is done are all tasks, each once, in an order that the
\* dependencies allow.
Working(w, r) ==
  /\ once(r.todo) /\ toSet(r.todo) \cap tried(r) = {}
  /\ toSet(r.todo) \cup tried(r) = tasksIn(w)
  /\ Ordered(r.todo, tried(r))
  /\ w \in rollbackOnFailure => r.failed = {}
  /\ r.rolledBack = <<>> /\ r.result = "none"

AtTask(r) ==
  /\ r.todo # <<>>
  /\ r.pc = "chosen" => r.agent \in AgentId
  /\ r.pc = "nested" <=> nestedIn[Head(r.todo)] # NoWorkflow

Ended(w, r) ==
  /\ r.rolledBack = <<>> /\ r.result # "none"
  /\ r.result = "completed" <=> r.failed = {}
  /\ w \in rollbackOnFailure => r.failed = {}
  /\ ~r.cut => tried(r) = tasksIn(w)

\* Some of what completed is undone, the last first.
Undoing(r) ==
  LET rev == Reverse(r.completed)
  IN \E k \in 0 .. Len(rev) :
       /\ r.todo = SubSeq(rev, k + 1, Len(rev))
       /\ r.rolledBack = Subsequence(rev, {i \in 1 .. k : rev[i] \in hasRollback})

GaveUp(w, r) ==
  /\ r.result = "failed"
  /\ r.rolledBack = IF w \in rollbackOnFailure THEN withRollback(Reverse(r.completed)) ELSE <<>>

RunOK(w, r) ==
  /\ tried(r) \subseteq tasksIn(w)
  /\ \A t \in tried(r) : taskDependencies[t] \subseteq over(w, r)
  /\ r.pc \in {"none", "before"} => Blank(r)
  /\ r.pc \in {"loop", "chosen", "task", "nested"} => Working(w, r)
  /\ r.pc \in {"chosen", "task", "nested"} => AtTask(r)
  /\ r.pc = "after" => Ended(w, r)
  /\ r.pc = "rollback" => w \in rollbackOnFailure /\ r.result = "failed" /\ Undoing(r)
  /\ r.pc = "settled" => Ended(w, r) \/ GaveUp(w, r)

\* A task that began is tried or the one that is awaited, which alone may run.
Begun(w, r, ex) ==
  \A t \in tasksIn(w) :
    LET awaited == r.pc = "task" /\ t = Head(r.todo)
    IN /\ ex[t].pc # "none" => nestedIn[t] = NoWorkflow /\ (t \in tried(r) \/ awaited)
       /\ ex[t].pc = "running" => awaited

\* So is a workflow that began inside this one.
Inside(w, r, rs) ==
  \A t \in tasksIn(w) :
    nestedIn[t] # NoWorkflow /\ rs[nestedIn[t]].pc # "none"
      => t \in tried(r) \/ (r.pc = "nested" /\ t = Head(r.todo))

\* What completed did.
Truly(r, ex, rs) ==
  \A t \in toSet(r.completed) :
    IF nestedIn[t] = NoWorkflow THEN ex[t].pc = "ended" /\ ex[t].result = "completed"
    ELSE rs[nestedIn[t]].pc = "settled" /\ rs[nestedIn[t]].result = "completed"

RunsOK(rs, ex) ==
  \A w \in WorkflowId : /\ RunOK(w, rs[w]) /\ Begun(w, rs[w], ex)
                        /\ Inside(w, rs[w], rs) /\ Truly(rs[w], ex, rs)

WorkflowInv == SwarmInv /\ WorkflowTypeOK /\ RunsOK(run, exec)

LEMMA TasksIn ==
  /\ \A w \in WorkflowId : tasksOf[w] \in Seq(Task) /\ once(tasksOf[w]) /\ tasksIn(w) \subseteq Task
  /\ \A v, w \in WorkflowId : v # w => tasksIn(v) \cap tasksIn(w) = {}
<1>1. \A w \in WorkflowId : tasksOf[w] \in Seq(Task) /\ once(tasksOf[w])
  BY WorkflowAssumption DEF once
<1>2. \A w \in WorkflowId : tasksIn(w) \subseteq Task
  BY <1>1 DEF tasksIn, toSet
<1>3. \A v, w \in WorkflowId : v # w => tasksIn(v) \cap tasksIn(w) = {}
  BY WorkflowAssumption DEF tasksIn
<1> QED
  BY <1>1, <1>2, <1>3

\* One run goes on, and perhaps one of its tasks: the other runs stay right.
LEMMA OneRunMoves ==
  ASSUME NEW rs \in [WorkflowId -> RunType], NEW ex, RunsOK(rs, ex),
         NEW w \in WorkflowId, NEW r \in RunType,
         NEW after, after = [rs EXCEPT ![w] = r],
         NEW ex2, \A t \in Task : t \notin tasksIn(w) => ex2[t] = ex[t],
         RunOK(w, r), Begun(w, r, ex2), Inside(w, r, after), Truly(r, ex2, after),
         \/ rs[w].pc # "none"
         \/ \A v \in WorkflowId : \A t \in tasksIn(v) :
              nestedIn[t] = w => v # w /\ rs[v].pc = "nested" /\ t = Head(rs[v].todo),
         rs[w].pc = "settled" => r.pc = "settled" /\ r.result = rs[w].result
  PROVE  after \in [WorkflowId -> RunType] /\ RunsOK(after, ex2)
<1>1. after \in [WorkflowId -> RunType] /\ after[w] = r /\ \A v \in WorkflowId : v # w => after[v] = rs[v]
  OBVIOUS
<1>2. ASSUME NEW v \in WorkflowId, v # w
      PROVE  /\ RunOK(v, rs[v]) /\ Begun(v, rs[v], ex2)
             /\ Inside(v, rs[v], after) /\ Truly(rs[v], ex2, after)
  <2>1. RunOK(v, rs[v]) /\ Begun(v, rs[v], ex) /\ Inside(v, rs[v], rs) /\ Truly(rs[v], ex, rs)
    BY DEF RunsOK
  <2>2. \A t \in tasksIn(v) : ex2[t] = ex[t] /\ t \in Task
    BY <1>2, TasksIn
  <2>3. toSet(rs[v].completed) \subseteq tasksIn(v)
    BY <2>1 DEF RunOK, tried
  <2>4. Begun(v, rs[v], ex2)
    BY <2>1, <2>2 DEF Begun
  <2>5. \A t \in Task : nestedIn[t] # NoWorkflow => nestedIn[t] \in WorkflowId
    BY WorkflowAssumption
  <2>6. Inside(v, rs[v], after)
    <3> SUFFICES ASSUME NEW t \in tasksIn(v), nestedIn[t] # NoWorkflow, after[nestedIn[t]].pc # "none"
                 PROVE  t \in tried(rs[v]) \/ (rs[v].pc = "nested" /\ t = Head(rs[v].todo))
      BY DEF Inside
    <3>1. nestedIn[t] \in WorkflowId
      BY <2>2, <2>5
    <3>2. CASE rs[nestedIn[t]].pc # "none"
      BY <2>1, <3>2 DEF Inside
    <3>3. CASE rs[nestedIn[t]].pc = "none"
      BY <1>1, <3>1, <3>3
    <3> QED
      BY <3>2, <3>3
  <2>7. Truly(rs[v], ex2, after)
    <3> SUFFICES ASSUME NEW t \in toSet(rs[v].completed)
                 PROVE  IF nestedIn[t] = NoWorkflow THEN ex2[t].pc = "ended" /\ ex2[t].result = "completed"
                        ELSE after[nestedIn[t]].pc = "settled" /\ after[nestedIn[t]].result = "completed"
      BY DEF Truly
    <3>1. t \in tasksIn(v) /\ t \in Task /\ ex2[t] = ex[t]
      BY <2>2, <2>3
    <3>2. CASE nestedIn[t] = NoWorkflow
      BY <2>1, <3>1, <3>2 DEF Truly
    <3>3. CASE nestedIn[t] # NoWorkflow
      <4>1. nestedIn[t] \in WorkflowId /\ rs[nestedIn[t]].pc = "settled" /\ rs[nestedIn[t]].result = "completed"
        BY <2>1, <2>5, <3>1, <3>3 DEF Truly
      <4>2. after[nestedIn[t]].pc = "settled" /\ after[nestedIn[t]].result = "completed"
        BY <1>1, <4>1
      <4> QED
        BY <3>3, <4>2
    <3> QED
      BY <3>2, <3>3
  <2> QED
    BY <2>1, <2>4, <2>6, <2>7
<1>3. RunsOK(after, ex2)
  <2> SUFFICES ASSUME NEW v \in WorkflowId
               PROVE  /\ RunOK(v, after[v]) /\ Begun(v, after[v], ex2)
                      /\ Inside(v, after[v], after) /\ Truly(after[v], ex2, after)
    BY DEF RunsOK
  <2>1. CASE v = w
    BY <1>1, <2>1
  <2>2. CASE v # w
    <3>1. after[v] = rs[v]
      BY <1>1, <2>2
    <3> QED
      BY <1>2, <2>2, <3>1
  <2> QED
    BY <2>1, <2>2
<1> QED
  BY <1>1, <1>3

------------------------------------------------------------------------------
(* What becomes of one run. *)

\* The task at the head of a working run.
LEMMA HeadOfRun ==
  ASSUME NEW w \in WorkflowId, NEW r \in RunType, Working(w, r), r.todo # <<>>
  PROVE  /\ Head(r.todo) \in Task /\ Head(r.todo) \in tasksIn(w) /\ Head(r.todo) \notin tried(r)
         /\ taskDependencies[Head(r.todo)] \subseteq tried(r)
<1>1. r.todo \in Seq(Task)
  BY DEF RunType
<1> QED
  BY <1>1, FirstAndRest DEF Working

\* A task that fails is tried; the run goes on or rolls back.
LEMMA FailedOne ==
  ASSUME NEW w \in WorkflowId, NEW r \in RunType, r.todo # <<>>, Head(r.todo) \in Task,
         NEW f, f = taskFailed(w, r)
  PROVE  /\ f \in RunType /\ f.completed = r.completed /\ f.rolledBack = r.rolledBack
         /\ f.failed = r.failed \cup {Head(r.todo)}
         /\ w \notin rollbackOnFailure =>
              f.pc = "loop" /\ f.todo = Tail(r.todo) /\ f.result = r.result
         /\ w \in rollbackOnFailure =>
              f.pc = "rollback" /\ f.todo = Reverse(r.completed) /\ f.result = "failed"
<1> DEFINE t == Head(r.todo)
           noted == [r EXCEPT !.failed = r.failed \cup {t}]
<1>1. /\ noted \in RunType /\ noted.completed = r.completed /\ noted.rolledBack = r.rolledBack
      /\ noted.failed = r.failed \cup {t} /\ noted.result = r.result /\ noted.todo = r.todo
  BY DEF RunType
<1>2. f = IF w \in rollbackOnFailure THEN thrown(w, noted)
          ELSE [noted EXCEPT !.pc = "loop", !.todo = Tail(noted.todo), !.agent = NoAgent]
  BY DEF taskFailed
<1> HIDE DEF noted
<1>3. CASE w \in rollbackOnFailure
  <2>1. f = [noted EXCEPT !.pc = "rollback", !.todo = Reverse(noted.completed),
                          !.agent = NoAgent, !.result = "failed"]
    BY <1>2, <1>3 DEF thrown
  <2>2. Reverse(noted.completed) \in Seq(Task)
    BY <1>1, Reversed DEF RunType
  <2> QED
    BY <1>1, <1>3, <2>1, <2>2 DEF RunType
<1>4. CASE w \notin rollbackOnFailure
  <2>1. Tail(r.todo) \in Seq(Task)
    BY DEF RunType
  <2>2. f = [noted EXCEPT !.pc = "loop", !.todo = Tail(r.todo), !.agent = NoAgent]
    BY <1>1, <1>2, <1>4
  <2> QED
    BY <1>1, <1>4, <2>1, <2>2 DEF RunType
<1> QED
  BY <1>3, <1>4

LEMMA CompletedOne ==
  ASSUME NEW r \in RunType, r.todo # <<>>, Head(r.todo) \in Task, NEW f, f = taskCompleted(r)
  PROVE  /\ f \in RunType /\ f.completed = Append(r.completed, Head(r.todo))
         /\ f.rolledBack = r.rolledBack /\ f.failed = r.failed /\ f.pc = "loop"
         /\ f.todo = Tail(r.todo) /\ f.result = r.result
<1>1. f = [r EXCEPT !.pc = "loop", !.completed = Append(r.completed, Head(r.todo)),
                    !.todo = Tail(r.todo), !.agent = NoAgent]
  BY DEF taskCompleted
<1>2. Tail(r.todo) \in Seq(Task) /\ Append(r.completed, Head(r.todo)) \in Seq(Task)
  BY DEF RunType
<1> QED
  BY <1>1, <1>2 DEF RunType

\* A rollback that begins has nothing undone yet.
LEMMA NothingUndone ==
  ASSUME NEW r, r.completed \in Seq(Task), r.todo = Reverse(r.completed), r.rolledBack = <<>>
  PROVE  Undoing(r)
<1> DEFINE rev == Reverse(r.completed)
<1>1. rev \in Seq(Task)
  BY Reversed
<1> HIDE DEF rev
<1>2. 0 \in 0 .. Len(rev) /\ SubSeq(rev, 0 + 1, Len(rev)) = rev
  BY <1>1
<1>3. Subsequence(rev, {i \in 1 .. 0 : rev[i] \in hasRollback}) = <<>>
  <2>1. {i \in 1 .. 0 : rev[i] \in hasRollback} = {}
    OBVIOUS
  <2>2. Subsequence(rev, {}) \in Seq(Task) /\ Len(Subsequence(rev, {})) = 0
    <3>1. {} \in SUBSET DOMAIN rev
      OBVIOUS
    <3> QED
      BY <1>1, <3>1, SubsequenceKeeps, FS_EmptySet
  <2> QED
    BY <2>1, <2>2
<1>4. \E k \in 0 .. Len(rev) :
        /\ r.todo = SubSeq(rev, k + 1, Len(rev))
        /\ r.rolledBack = Subsequence(rev, {i \in 1 .. k : rev[i] \in hasRollback})
  BY <1>2, <1>3 DEF rev
<1> QED
  BY <1>4 DEF Undoing, rev

LEMMA FailedRunOK ==
  ASSUME NEW w \in WorkflowId, NEW r \in RunType, RunOK(w, r), Working(w, r), r.todo # <<>>,
         NEW f, f = taskFailed(w, r)
  PROVE  RunOK(w, f) /\ tried(f) = tried(r) \cup {Head(r.todo)}
<1> DEFINE t == Head(r.todo)
<1>1. t \in Task /\ t \in tasksIn(w) /\ t \notin tried(r) /\ taskDependencies[t] \subseteq tried(r)
  BY HeadOfRun
<1>2. /\ f \in RunType /\ f.completed = r.completed /\ f.rolledBack = r.rolledBack
      /\ f.failed = r.failed \cup {t}
      /\ w \notin rollbackOnFailure =>
           f.pc = "loop" /\ f.todo = Tail(r.todo) /\ f.result = r.result
      /\ w \in rollbackOnFailure =>
           f.pc = "rollback" /\ f.todo = Reverse(r.completed) /\ f.result = "failed"
  BY <1>1, FailedOne
<1> HIDE DEF t
<1>3. tried(f) = tried(r) \cup {t}
  BY <1>2 DEF tried
<1>4. tried(f) \subseteq tasksIn(w)
  BY <1>1, <1>3 DEF RunOK
<1>5. \A u \in tried(f) : taskDependencies[u] \subseteq over(w, f)
  <2>1. over(w, r) \subseteq over(w, f)
    BY <1>2 DEF over
  <2>2. tried(r) \subseteq over(w, f)
    BY <1>2 DEF over, tried, Working
  <2> QED
    BY <1>1, <1>3, <2>1, <2>2 DEF RunOK
<1>6. CASE w \in rollbackOnFailure
  <2>1. Undoing(f)
    <3>1. f.completed \in Seq(Task) /\ f.todo = Reverse(f.completed) /\ f.rolledBack = <<>>
      BY <1>2, <1>6 DEF Working, RunType
    <3> QED
      BY <3>1, NothingUndone
  <2> QED
    BY <1>2, <1>3, <1>4, <1>5, <1>6, <2>1 DEF RunOK, t
<1>7. CASE w \notin rollbackOnFailure
  <2>1. /\ r.todo \in Seq(Task) /\ once(r.todo) /\ once(f.todo)
        /\ toSet(r.todo) = {t} \cup toSet(f.todo) /\ t \notin toSet(f.todo)
        /\ Ordered(f.todo, tried(r) \cup {t})
    <3>1. r.todo \in Seq(Task) /\ once(r.todo) /\ Ordered(r.todo, tried(r))
      BY DEF RunType, Working
    <3>2. f.todo = Tail(r.todo)
      BY <1>2, <1>7
    <3> QED
      BY <3>1, <3>2, FirstAndRest DEF t
  <2>2. Working(w, f)
    BY <1>2, <1>3, <1>7, <2>1 DEF Working
  <2> QED
    BY <1>2, <1>3, <1>4, <1>5, <1>7, <2>2 DEF RunOK, t
<1> QED
  BY <1>6, <1>7

LEMMA CompletedRunOK ==
  ASSUME NEW w \in WorkflowId, NEW r \in RunType, RunOK(w, r), Working(w, r), r.todo # <<>>,
         NEW f, f = taskCompleted(r)
  PROVE  /\ RunOK(w, f) /\ tried(f) = tried(r) \cup {Head(r.todo)}
         /\ toSet(f.completed) = toSet(r.completed) \cup {Head(r.todo)}
<1> DEFINE t == Head(r.todo)
<1>1. t \in Task /\ t \in tasksIn(w) /\ t \notin tried(r) /\ taskDependencies[t] \subseteq tried(r)
  BY HeadOfRun
<1>2. /\ f \in RunType /\ f.completed = Append(r.completed, t)
      /\ f.rolledBack = r.rolledBack /\ f.failed = r.failed /\ f.pc = "loop"
      /\ f.todo = Tail(r.todo) /\ f.result = r.result
  BY <1>1, CompletedOne
<1>8. r.todo \in Seq(Task) /\ r.completed \in Seq(Task)
  BY DEF RunType
<1>9. t = Head(r.todo)
  OBVIOUS
<1> HIDE DEF t
<1>10. toSet(f.completed) = toSet(r.completed) \cup {t}
  BY <1>1, <1>2, <1>8, AppendedSet
<1>3. tried(f) = tried(r) \cup {t}
  BY <1>2, <1>10 DEF tried
<1>4. tried(f) \subseteq tasksIn(w)
  BY <1>1, <1>3 DEF RunOK
<1>5. \A u \in tried(f) : taskDependencies[u] \subseteq over(w, f)
  <2>1. over(w, r) \subseteq over(w, f)
    BY <1>2, <1>10 DEF over
  <2>2. tried(r) \subseteq over(w, r)
    BY DEF over, tried, Working
  <2> QED
    BY <1>1, <1>3, <2>1, <2>2 DEF RunOK
<1>6. Working(w, f)
  <2>1. /\ once(f.todo)
        /\ toSet(r.todo) = {t} \cup toSet(f.todo) /\ t \notin toSet(f.todo)
        /\ Ordered(f.todo, tried(r) \cup {t})
    <3>1. once(r.todo) /\ Ordered(r.todo, tried(r))
      BY DEF Working
    <3> QED
      BY <1>2, <1>8, <1>9, <3>1, FirstAndRest
  <2> QED
    BY <1>1, <1>2, <1>3, <2>1 DEF Working
<1>7. RunOK(w, f)
  BY <1>2, <1>4, <1>5, <1>6 DEF RunOK
<1> QED
  BY <1>3, <1>7, <1>9, <1>10

------------------------------------------------------------------------------
(* The steps. *)

\* A run goes on while the swarm stands: what it tried and awaits it keeps.
LEMMA RunMoves ==
  ASSUME WorkflowInv, UNCHANGED swarmVars, NEW w \in WorkflowId, NEW q, q = run[w],
         NEW r \in RunType, run' = [run EXCEPT ![w] = r],
         workflows' \subseteq WorkflowId, controls' \in 0 .. MaxControls,
         RunOK(w, r), tried(q) \subseteq tried(r),
         q.pc \in {"task", "nested"} =>
           Head(q.todo) \in tried(r) \/ (r.pc = q.pc /\ Head(r.todo) = Head(q.todo)),
         q.pc = "task" =>
           exec[Head(q.todo)].pc # "running" \/ (r.pc = q.pc /\ Head(r.todo) = Head(q.todo)),
         \A t \in toSet(r.completed) :
           \/ t \in toSet(q.completed)
           \/ IF nestedIn[t] = NoWorkflow THEN exec[t].pc = "ended" /\ exec[t].result = "completed"
              ELSE run[nestedIn[t]].pc = "settled" /\ run[nestedIn[t]].result = "completed",
         q.pc # "none" \/ ~isNested(w),
         q.pc = "settled" => r.pc = "settled" /\ r.result = q.result
  PROVE  WorkflowInv'
<1>1. /\ SwarmInv /\ run \in [WorkflowId -> RunType] /\ RunsOK(run, exec)
      /\ exec' = exec /\ \A t \in Task : t \notin tasksIn(w) => exec'[t] = exec[t]
  BY DEF WorkflowInv, WorkflowTypeOK, swarmVars
<1>2. RunOK(w, q) /\ Begun(w, q, exec) /\ Inside(w, q, run) /\ Truly(q, exec, run)
  BY <1>1 DEF RunsOK
<1>3. run'[w] = r /\ \A v \in WorkflowId : v # w => run'[v] = run[v]
  BY <1>1
<1>4. \A t \in tasksIn(w) : t \in Task
  BY TasksIn
<1>5. \A t \in Task : nestedIn[t] # NoWorkflow => nestedIn[t] \in WorkflowId
  BY WorkflowAssumption
<1>6. Begun(w, r, exec')
  <2> SUFFICES ASSUME NEW t \in tasksIn(w)
               PROVE  /\ exec[t].pc # "none" =>
                           /\ nestedIn[t] = NoWorkflow
                           /\ t \in tried(r) \/ (r.pc = "task" /\ t = Head(r.todo))
                      /\ exec[t].pc = "running" => r.pc = "task" /\ t = Head(r.todo)
    BY <1>1 DEF Begun
  <2>1. /\ exec[t].pc # "none" =>
             /\ nestedIn[t] = NoWorkflow
             /\ t \in tried(q) \/ (q.pc = "task" /\ t = Head(q.todo))
        /\ exec[t].pc = "running" => q.pc = "task" /\ t = Head(q.todo)
    BY <1>2 DEF Begun
  <2> QED
    BY <2>1
<1>7. Inside(w, r, run')
  <2> SUFFICES ASSUME NEW t \in tasksIn(w), nestedIn[t] # NoWorkflow, run'[nestedIn[t]].pc # "none"
               PROVE  t \in tried(r) \/ (r.pc = "nested" /\ t = Head(r.todo))
    BY DEF Inside
  <2>1. nestedIn[t] \in WorkflowId /\ t \in Task
    BY <1>4, <1>5
  <2>2. run[nestedIn[t]].pc # "none"
    <3>1. CASE nestedIn[t] = w
      BY <2>1, <3>1 DEF isNested
    <3>2. CASE nestedIn[t] # w
      BY <1>3, <2>1, <3>2
    <3> QED
      BY <3>1, <3>2
  <2>3. t \in tried(q) \/ (q.pc = "nested" /\ t = Head(q.todo))
    BY <1>2, <2>2 DEF Inside
  <2> QED
    BY <2>3
<1>8. Truly(r, exec', run')
  <2> SUFFICES ASSUME NEW t \in toSet(r.completed)
               PROVE  IF nestedIn[t] = NoWorkflow THEN exec[t].pc = "ended" /\ exec[t].result = "completed"
                      ELSE run'[nestedIn[t]].pc = "settled" /\ run'[nestedIn[t]].result = "completed"
    BY <1>1 DEF Truly
  <2>1. IF nestedIn[t] = NoWorkflow THEN exec[t].pc = "ended" /\ exec[t].result = "completed"
        ELSE run[nestedIn[t]].pc = "settled" /\ run[nestedIn[t]].result = "completed"
    BY <1>2 DEF Truly
  <2>2. t \in Task
    BY <1>4 DEF RunOK, tried
  <2>3. CASE nestedIn[t] = NoWorkflow
    BY <2>1, <2>3
  <2>4. CASE nestedIn[t] # NoWorkflow
    <3>1. nestedIn[t] \in WorkflowId
      BY <1>5, <2>2, <2>4
    <3>2. CASE nestedIn[t] = w
      BY <1>3, <2>1, <2>4, <3>2
    <3>3. CASE nestedIn[t] # w
      BY <1>3, <2>1, <2>4, <3>1, <3>3
    <3> QED
      BY <3>2, <3>3
  <2> QED
    BY <2>3, <2>4
<1>9. \/ run[w].pc # "none"
      \/ \A v \in WorkflowId : \A t \in tasksIn(v) :
           nestedIn[t] = w => v # w /\ run[v].pc = "nested" /\ t = Head(run[v].todo)
  BY TasksIn DEF isNested
<1>10. run' \in [WorkflowId -> RunType] /\ RunsOK(run', exec')
  BY <1>1, <1>6, <1>7, <1>8, <1>9, OneRunMoves
<1>11. SwarmInv'
  BY <1>1, SwarmInductive
<1> QED
  BY <1>10, <1>11 DEF WorkflowInv, WorkflowTypeOK

LEMMA RunFields ==
  ASSUME NEW r \in RunType
  PROVE  /\ r.todo \in Seq(Task) /\ r.completed \in Seq(Task) /\ r.rolledBack \in Seq(Task)
         /\ r.agent \in AgentId \cup {NoAgent} /\ r.failed \subseteq Task
  BY DEF RunType

\* Only where the run is changes.
LEMMA SameWork ==
  ASSUME NEW q, NEW r, r.todo = q.todo, r.completed = q.completed, r.failed = q.failed,
         r.rolledBack = q.rolledBack, r.result = q.result, r.cut = q.cut
  PROVE  /\ tried(r) = tried(q) /\ \A w : over(w, r) = over(w, q)
         /\ Blank(r) <=> Blank(q)
         /\ \A w : /\ Working(w, r) <=> Working(w, q)
                   /\ Ended(w, r) <=> Ended(w, q)
                   /\ GaveUp(w, r) <=> GaveUp(w, q)
         /\ Undoing(r) <=> Undoing(q)
<1>1. tried(r) = tried(q) /\ \A w : over(w, r) = over(w, q)
  BY DEF tried, over
<1>2. Blank(r) <=> Blank(q)
  BY DEF Blank
<1>3. \A w : Working(w, r) <=> Working(w, q)
  BY <1>1 DEF Working
<1>4. \A w : Ended(w, r) <=> Ended(w, q)
  BY <1>1 DEF Ended
<1>5. \A w : GaveUp(w, r) <=> GaveUp(w, q)
  BY DEF GaveUp
<1>6. Undoing(r) <=> Undoing(q)
  BY DEF Undoing
<1> QED
  BY <1>1, <1>2, <1>3, <1>4, <1>5, <1>6

LEMMA Facts ==
  ASSUME WorkflowInv
  PROVE  /\ workflows \subseteq WorkflowId /\ controls \in 0 .. MaxControls
         /\ \A w \in WorkflowId :
              /\ run[w] \in RunType /\ RunOK(w, run[w]) /\ Begun(w, run[w], exec)
              /\ Inside(w, run[w], run) /\ Truly(run[w], exec, run)
  BY DEF WorkflowInv, WorkflowTypeOK, RunsOK

LEMMA FreshRun == freshRun \in RunType /\ Blank(freshRun) /\ freshRun.pc = "none"
<1>1. <<>> \in Seq(Task)
  OBVIOUS
<1> QED
  BY <1>1 DEF freshRun, RunType, Blank

LEMMA StartWorkflowKeeps ==
  ASSUME WorkflowInv, NEW w \in WorkflowId, StartWorkflow(w)
  PROVE  WorkflowInv'
<1> DEFINE q == run[w]
<1>1. q.pc = "none" /\ ~isNested(w) /\ run' = [run EXCEPT ![w] = begun]
      /\ UNCHANGED swarmVars /\ workflows' = workflows \cup {w} /\ controls' = controls
  BY DEF StartWorkflow
<1>2. /\ begun \in RunType /\ Blank(begun) /\ begun.pc = "before"
  <2>1. freshRun \in RunType /\ Blank(freshRun)
    BY FreshRun
  <2> QED
    BY <2>1 DEF begun, RunType, Blank
<1>3. Blank(q)
  BY <1>1, Facts DEF RunOK
<1>4. tried(begun) = {} /\ tried(q) = {} /\ toSet(begun.completed) = {}
  BY <1>2, <1>3, EmptySet DEF tried, Blank
<1>5. RunOK(w, begun)
  BY <1>2, <1>4 DEF RunOK
<1> HIDE DEF q
<1>6. q = run[w]
  BY DEF q
<1>7. workflows' \subseteq WorkflowId /\ controls' \in 0 .. MaxControls
  BY <1>1, Facts
<1> QED
  BY <1>1, <1>2, <1>4, <1>5, <1>6, <1>7, RunMoves

LEMMA AfterHooksKeeps ==
  ASSUME WorkflowInv, NEW w \in WorkflowId, AfterHooks(w)
  PROVE  WorkflowInv'
<1> DEFINE q == run[w]
           order == executionOrder[w]
           r == IF circular(w) THEN thrown(w, q) ELSE [q EXCEPT !.pc = "loop", !.todo = order]
<1>1. q.pc = "before" /\ run' = [run EXCEPT ![w] = r]
      /\ UNCHANGED swarmVars /\ workflows' = workflows /\ controls' = controls
  BY DEF AfterHooks
<1>2. q \in RunType /\ Blank(q)
  BY <1>1, Facts DEF RunOK
<1>3. tried(q) = {} /\ toSet(q.completed) = {}
  BY <1>2, EmptySet DEF tried, Blank
<1>4. order \in Seq(Task) /\ once(order) /\ Ordered(order, {}) /\ (~circular(w) => toSet(order) = tasksIn(w))
  <2>1. Resolved(tasksOf[w], order)
    BY TasksIn, OrderResolves DEF executionOrder
  <2> QED
    BY <2>1 DEF Resolved, circular, tasksIn
<1> HIDE DEF q, order
<1>5. /\ r \in RunType /\ tried(r) = {} /\ toSet(r.completed) = {} /\ RunOK(w, r)
  <2>1. CASE circular(w)
    <3>1. r = thrown(w, q)
      BY <2>1
    <3>2. q.completed = <<>> /\ Reverse(<<>>) \in Seq(Task) /\ q.failed = {} /\ q.rolledBack = <<>>
      <4>1. <<>> \in Seq(Task)
        OBVIOUS
      <4> QED
        BY <1>2, <4>1, Reversed DEF Blank
    <3> HIDE DEF r
    <3>3. CASE w \in rollbackOnFailure
      <4>1. r = [q EXCEPT !.pc = "rollback", !.todo = Reverse(q.completed),
                          !.agent = NoAgent, !.result = "failed"]
        BY <3>1, <3>3 DEF thrown
      <4>2. /\ r \in RunType /\ r.completed = q.completed /\ r.failed = {} /\ r.rolledBack = <<>>
            /\ r.pc = "rollback" /\ r.result = "failed" /\ r.todo = Reverse(r.completed)
        BY <1>2, <3>2, <4>1 DEF RunType
      <4>3. tried(r) = {} /\ toSet(r.completed) = {}
        BY <1>3, <4>2 DEF tried
      <4>4. Undoing(r)
        BY <4>2, RunFields, NothingUndone
      <4> QED
        BY <3>3, <4>2, <4>3, <4>4 DEF RunOK
    <3>4. CASE w \notin rollbackOnFailure
      <4>1. r = [q EXCEPT !.pc = "settled", !.todo = <<>>, !.agent = NoAgent, !.result = "failed"]
        BY <3>1, <3>4 DEF thrown
      <4>2. /\ r \in RunType /\ r.completed = q.completed /\ r.failed = {} /\ r.rolledBack = <<>>
            /\ r.pc = "settled" /\ r.result = "failed"
        BY <1>2, <3>2, <4>1 DEF RunType
      <4>3. tried(r) = {} /\ toSet(r.completed) = {}
        BY <1>3, <4>2 DEF tried
      <4>4. GaveUp(w, r)
        BY <3>4, <4>2 DEF GaveUp
      <4> QED
        BY <4>2, <4>3, <4>4 DEF RunOK
    <3> QED
      BY <3>3, <3>4
  <2>2. CASE ~circular(w)
    <3>1. r = [q EXCEPT !.pc = "loop", !.todo = order]
      BY <2>2
    <3> HIDE DEF r
    <3>2. /\ r \in RunType /\ r.completed = q.completed /\ r.failed = q.failed
          /\ r.rolledBack = q.rolledBack /\ r.pc = "loop" /\ r.result = q.result /\ r.todo = order
      BY <1>2, <1>4, <3>1 DEF RunType
    <3>3. tried(r) = {} /\ toSet(r.completed) = {}
      BY <1>3, <3>2 DEF tried
    <3>4. Working(w, r)
      BY <1>2, <1>4, <2>2, <3>2, <3>3 DEF Working, Blank
    <3> QED
      BY <3>2, <3>3, <3>4 DEF RunOK
  <2> QED
    BY <2>1, <2>2
<1> HIDE DEF r
<1>6. workflows' \subseteq WorkflowId /\ controls' \in 0 .. MaxControls
  BY <1>1, Facts
<1>7. q = run[w]
  BY DEF q
<1> QED
  BY <1>1, <1>3, <1>5, <1>6, <1>7, RunMoves

LEMMA FinishRunKeeps ==
  ASSUME WorkflowInv, NEW w \in WorkflowId, FinishRun(w)
  PROVE  WorkflowInv'
<1> DEFINE q == run[w]
           how == IF q.failed # {} THEN "failed" ELSE "completed"
           cut == q.todo # <<>>
           r == [q EXCEPT !.pc = "after", !.status = how, !.result = how, !.cut = cut, !.todo = <<>>]
<1>1. q.pc = "loop" /\ run' = [run EXCEPT ![w] = r]
      /\ UNCHANGED swarmVars /\ workflows' = workflows /\ controls' = controls
  BY DEF FinishRun
<1>2. q \in RunType /\ RunOK(w, q) /\ Working(w, q)
  BY <1>1, Facts DEF RunOK
<1>7. q = run[w]
  OBVIOUS
<1> HIDE DEF q
<1>3. /\ r \in RunType /\ r.pc = "after" /\ r.result = how /\ r.cut = cut
      /\ r.todo = <<>> /\ r.completed = q.completed /\ r.failed = q.failed
      /\ r.rolledBack = q.rolledBack
  <2>1. how \in {"completed", "failed"} /\ cut \in BOOLEAN /\ <<>> \in Seq(Task)
    OBVIOUS
  <2> HIDE DEF how, cut
  <2> QED
    BY <1>2, <2>1 DEF RunType
<1> HIDE DEF r
<1>4. tried(r) = tried(q) /\ over(w, r) = over(w, q)
  BY <1>3 DEF tried, over
<1>5. Ended(w, r)
  <2>1. ~r.cut => tried(r) = tasksIn(w)
    BY <1>2, <1>3, <1>4, EmptySet DEF Working
  <2> QED
    BY <1>2, <1>3, <2>1 DEF Ended, Working
<1>6. RunOK(w, r)
  BY <1>2, <1>3, <1>4, <1>5 DEF RunOK
<1>8. workflows' \subseteq WorkflowId /\ controls' \in 0 .. MaxControls
  BY <1>1, Facts
<1> QED
  BY <1>1, <1>3, <1>4, <1>6, <1>7, <1>8, RunMoves

LEMMA SettleRunKeeps ==
  ASSUME WorkflowInv, NEW w \in WorkflowId, SettleRun(w)
  PROVE  WorkflowInv'
<1> DEFINE q == run[w]
           r == [q EXCEPT !.pc = "settled"]
<1>1. q.pc = "after" /\ run' = [run EXCEPT ![w] = r]
      /\ UNCHANGED swarmVars /\ workflows' = workflows /\ controls' = controls
  BY DEF SettleRun
<1>2. q \in RunType /\ RunOK(w, q) /\ Ended(w, q)
  BY <1>1, Facts DEF RunOK
<1>3. q = run[w]
  OBVIOUS
<1> HIDE DEF q
<1>4. /\ r \in RunType /\ r.pc = "settled" /\ r.result = q.result /\ r.cut = q.cut
      /\ r.todo = q.todo /\ r.completed = q.completed /\ r.failed = q.failed
      /\ r.rolledBack = q.rolledBack
  BY <1>2 DEF RunType
<1> HIDE DEF r
<1>5. tried(r) = tried(q) /\ over(w, r) = over(w, q) /\ Ended(w, r)
  BY <1>2, <1>4, SameWork
<1>6. RunOK(w, r)
  BY <1>2, <1>4, <1>5 DEF RunOK
<1>7. workflows' \subseteq WorkflowId /\ controls' \in 0 .. MaxControls
  BY <1>1, Facts
<1> QED
  BY <1>1, <1>3, <1>4, <1>5, <1>6, <1>7, RunMoves

\* The task in hand fails, or completes as it says, and the run has tried it.
LEMMA TriedOne ==
  ASSUME WorkflowInv, UNCHANGED <<workflows, controls, swarmVars>>, NEW w \in WorkflowId,
         Working(w, run[w]), run[w].todo # <<>>, run[w].pc # "none", run[w].pc # "settled",
         NEW t, t = Head(run[w].todo),
         run[w].pc = "task" => exec[t].pc # "running",
         \/ run' = [run EXCEPT ![w] = taskFailed(w, run[w])]
         \/ /\ run' = [run EXCEPT ![w] = taskCompleted(run[w])]
            /\ IF nestedIn[t] = NoWorkflow THEN exec[t].pc = "ended" /\ exec[t].result = "completed"
               ELSE run[nestedIn[t]].pc = "settled" /\ run[nestedIn[t]].result = "completed"
  PROVE  WorkflowInv'
<1> DEFINE q == run[w]
           f == taskFailed(w, q)
           c == taskCompleted(q)
<1>1. q \in RunType /\ RunOK(w, q) /\ workflows' \subseteq WorkflowId /\ controls' \in 0 .. MaxControls
  BY Facts
<1>2. t \in Task
  BY <1>1, HeadOfRun
<1>3. CASE run' = [run EXCEPT ![w] = f]
  <2>1. /\ f \in RunType /\ f.completed = q.completed /\ RunOK(w, f)
        /\ tried(f) = tried(q) \cup {t}
    BY <1>1, <1>2, FailedOne, FailedRunOK
  <2> HIDE DEF f
  <2> QED
    BY <1>1, <1>3, <2>1, RunMoves
<1>4. CASE run' # [run EXCEPT ![w] = f]
  <2>1. /\ c \in RunType /\ toSet(c.completed) = toSet(q.completed) \cup {t} /\ RunOK(w, c)
        /\ tried(c) = tried(q) \cup {t}
    BY <1>1, <1>2, CompletedOne, CompletedRunOK
  <2>2. run' = [run EXCEPT ![w] = c]
    BY <1>4
  <2> HIDE DEF c
  <2>3. \A u \in toSet(c.completed) :
          \/ u \in toSet(q.completed)
          \/ IF nestedIn[u] = NoWorkflow THEN exec[u].pc = "ended" /\ exec[u].result = "completed"
             ELSE run[nestedIn[u]].pc = "settled" /\ run[nestedIn[u]].result = "completed"
    BY <1>4, <2>1
  <2> QED
    BY <1>1, <2>1, <2>2, <2>3, RunMoves
<1> QED
  BY <1>3, <1>4

LEMMA ChooseAgentKeeps ==
  ASSUME WorkflowInv, NEW w \in WorkflowId, ChooseAgent(w)
  PROVE  WorkflowInv'
<1> DEFINE q == run[w]
           t == Head(q.todo)
           suitable == {i \in DOMAIN agents : canExecute(agents[i], t)}
           agent == IF assignedTo[t] # NoAgent THEN assignedTo[t]
                    ELSE IF suitable # {} THEN agents[first(suitable)].id ELSE NoAgent
           r == [q EXCEPT !.pc = "chosen", !.agent = agent]
<1>1. /\ q.pc = "loop" /\ q.todo # <<>> /\ nestedIn[t] = NoWorkflow
      /\ run' = [run EXCEPT ![w] = IF agent = NoAgent THEN taskFailed(w, q) ELSE r]
      /\ UNCHANGED swarmVars /\ workflows' = workflows /\ controls' = controls
  BY DEF ChooseAgent, mayTake
<1>2. q \in RunType /\ RunOK(w, q) /\ Working(w, q)
  BY <1>1, Facts DEF RunOK
<1>3. CASE agent = NoAgent
  <2>1. run' = [run EXCEPT ![w] = taskFailed(w, q)]
    BY <1>1, <1>3
  <2>2. UNCHANGED <<workflows, controls, swarmVars>>
    BY <1>1
  <2> HIDE DEF agent
  <2> QED
    BY <1>1, <1>2, <2>1, <2>2, TriedOne
<1>4. CASE agent # NoAgent
  <2>1. t \in Task
    BY <1>1, <1>2, HeadOfRun
  <2>2. agent \in AgentId
    <3>1. assignedTo[t] \in AgentId \cup {NoAgent}
      BY <2>1, WorkflowAssumption
    <3>2. suitable # {} => agents[first(suitable)].id \in AgentId
      <4> SUFFICES ASSUME suitable # {} PROVE agents[first(suitable)].id \in AgentId
        OBVIOUS
      <4>1. agents \in Seq(AgentRecord)
        BY DEF WorkflowInv, SwarmInv, SwarmTypeOK
      <4>2. suitable \in SUBSET (1 .. Len(agents)) /\ Len(agents) \in Nat
        BY <4>1
      <4>3. first(suitable) \in suitable
        BY <4>2, FirstOf
      <4>4. first(suitable) \in DOMAIN agents
        BY <4>3
      <4> HIDE DEF suitable
      <4> QED
        BY <4>1, <4>4, AgentFields
    <3> QED
      BY <1>4, <3>1, <3>2
  <2>3. run' = [run EXCEPT ![w] = r]
    BY <1>1, <1>4
  <2> HIDE DEF agent, q
  <2>4. /\ r \in RunType /\ r.pc = "chosen" /\ r.result = q.result /\ r.cut = q.cut
        /\ r.todo = q.todo /\ r.completed = q.completed /\ r.failed = q.failed
        /\ r.rolledBack = q.rolledBack /\ r.agent = agent
    BY <1>2, <2>2 DEF RunType
  <2> HIDE DEF r
  <2>5. tried(r) = tried(q) /\ over(w, r) = over(w, q) /\ Working(w, r)
    BY <1>2, <2>4, SameWork
  <2>6. AtTask(r)
    BY <1>1, <2>2, <2>4 DEF AtTask
  <2>7. RunOK(w, r)
    BY <1>2, <2>4, <2>5, <2>6 DEF RunOK
  <2>8. workflows' \subseteq WorkflowId /\ controls' \in 0 .. MaxControls
    BY <1>1, Facts
  <2>9. q = run[w]
    BY DEF q
  <2> QED
    BY <1>1, <2>3, <2>4, <2>5, <2>7, <2>8, <2>9, RunMoves
<1> QED
  BY <1>3, <1>4

LEMMA DispatchTaskKeeps ==
  ASSUME WorkflowInv, NEW w \in WorkflowId, DispatchTask(w)
  PROVE  WorkflowInv'
<1> DEFINE q == run[w]
           t == Head(q.todo)
           r == [q EXCEPT !.pc = "task"]
<1>1. /\ q.pc = "chosen" /\ run' = [run EXCEPT ![w] = r] /\ ExecuteTask(q.agent, t)
      /\ workflows' = workflows /\ controls' = controls
  BY DEF DispatchTask
<1>2. /\ q \in RunType /\ RunOK(w, q) /\ Begun(w, q, exec) /\ Inside(w, q, run)
      /\ Truly(q, exec, run) /\ Working(w, q) /\ AtTask(q)
  BY <1>1, Facts DEF RunOK
<1>3. t \in Task /\ t \in tasksIn(w) /\ t \notin tried(q) /\ q.agent \in AgentId /\ nestedIn[t] = NoWorkflow
  BY <1>1, <1>2, HeadOfRun DEF AtTask
<1>4. /\ SwarmInv' /\ \A s \in Task : s # t => exec'[s] = exec[s]
  <2>1. SwarmInv
    BY DEF WorkflowInv
  <2> QED
    BY <1>1, <1>3, <2>1, ExecuteTaskKeeps
<1>5. q = run[w] /\ t = Head(q.todo)
  OBVIOUS
<1> HIDE DEF q, t
<1>6. /\ r \in RunType /\ r.pc = "task" /\ r.result = q.result /\ r.cut = q.cut
      /\ r.todo = q.todo /\ r.completed = q.completed /\ r.failed = q.failed
      /\ r.rolledBack = q.rolledBack /\ r.agent = q.agent
  BY <1>2 DEF RunType
<1> HIDE DEF r
<1>7. tried(r) = tried(q) /\ over(w, r) = over(w, q) /\ Working(w, r)
  BY <1>2, <1>6, SameWork
<1>8. RunOK(w, r)
  <2>1. AtTask(r)
    BY <1>1, <1>2, <1>6 DEF AtTask
  <2> QED
    BY <1>2, <1>6, <1>7, <2>1 DEF RunOK
<1>9. \A u \in tasksIn(w) : u \in Task
  BY TasksIn
<1>10. Begun(w, r, exec')
  <2> SUFFICES ASSUME NEW u \in tasksIn(w)
               PROVE  /\ exec'[u].pc # "none" =>
                           /\ nestedIn[u] = NoWorkflow
                           /\ u \in tried(r) \/ (r.pc = "task" /\ u = Head(r.todo))
                      /\ exec'[u].pc = "running" => r.pc = "task" /\ u = Head(r.todo)
    BY DEF Begun
  <2>1. CASE u = t
    BY <1>3, <1>5, <1>6, <2>1
  <2>2. CASE u # t
    <3>1. exec'[u] = exec[u]
      BY <1>4, <1>9, <2>2
    <3> QED
      BY <1>1, <1>2, <1>7, <3>1 DEF Begun
  <2> QED
    BY <2>1, <2>2
<1>11. run \in [WorkflowId -> RunType] /\ RunsOK(run, exec)
       /\ workflows' \subseteq WorkflowId /\ controls' \in 0 .. MaxControls
  BY <1>1 DEF WorkflowInv, WorkflowTypeOK
<1>12. run'[w] = r /\ \A v \in WorkflowId : v # w => run'[v] = run[v]
  BY <1>1, <1>11
<1>13. Inside(w, r, run')
  <2> SUFFICES ASSUME NEW u \in tasksIn(w), nestedIn[u] # NoWorkflow, run'[nestedIn[u]].pc # "none"
               PROVE  u \in tried(r)
    BY DEF Inside
  <2>1. nestedIn[u] \in WorkflowId
    BY <1>9, WorkflowAssumption
  <2>2. run[nestedIn[u]].pc # "none"
    BY <1>1, <1>5, <1>12, <2>1
  <2> QED
    BY <1>1, <1>2, <1>7, <2>2 DEF Inside
<1>14. Truly(r, exec', run')
  <2> SUFFICES ASSUME NEW u \in toSet(r.completed)
               PROVE  IF nestedIn[u] = NoWorkflow THEN exec'[u].pc = "ended" /\ exec'[u].result = "completed"
                      ELSE run'[nestedIn[u]].pc = "settled" /\ run'[nestedIn[u]].result = "completed"
    BY DEF Truly
  <2>1. u \in toSet(q.completed) /\ u # t /\ u \in tasksIn(w)
    BY <1>2, <1>3, <1>6 DEF tried, RunOK
  <2>2. exec'[u] = exec[u]
    BY <1>4, <1>9, <2>1
  <2>3. nestedIn[u] # NoWorkflow => nestedIn[u] \in WorkflowId
    BY <1>9, <2>1, WorkflowAssumption
  <2> QED
    BY <1>1, <1>2, <1>5, <1>12, <2>1, <2>2, <2>3 DEF Truly
<1>15. run' \in [WorkflowId -> RunType] /\ RunsOK(run', exec')
  <2>1. \A u \in Task : u \notin tasksIn(w) => exec'[u] = exec[u]
    BY <1>3, <1>4
  <2>2. run[w].pc # "none" /\ run[w].pc # "settled" /\ run' = [run EXCEPT ![w] = r]
    BY <1>1, <1>5
  <2>3. r \in RunType
    BY <1>6
  <2> QED
    BY <1>8, <1>10, <1>11, <1>13, <1>14, <2>1, <2>2, <2>3, OneRunMoves
<1> QED
  BY <1>4, <1>11, <1>15 DEF WorkflowInv, WorkflowTypeOK

LEMMA TaskReportedKeeps ==
  ASSUME WorkflowInv, NEW w \in WorkflowId, TaskReported(w)
  PROVE  WorkflowInv'
<1> DEFINE q == run[w]
           t == Head(q.todo)
<1>1. /\ q.pc = "task" /\ exec[t].pc = "ended" /\ UNCHANGED <<workflows, controls, swarmVars>>
      /\ run' = [run EXCEPT ![w] = IF exec[t].result = "completed" THEN taskCompleted(q)
                                   ELSE taskFailed(w, q)]
  BY DEF TaskReported
<1>2. Working(w, q) /\ q.todo # <<>> /\ nestedIn[t] = NoWorkflow
  BY <1>1, Facts DEF RunOK, AtTask
<1>3. \/ run' = [run EXCEPT ![w] = taskFailed(w, q)]
      \/ run' = [run EXCEPT ![w] = taskCompleted(q)] /\ exec[t].result = "completed"
  BY <1>1
<1> QED
  BY <1>1, <1>2, <1>3, TriedOne

LEMMA NestedReportedKeeps ==
  ASSUME WorkflowInv, NEW w \in WorkflowId, NestedReported(w)
  PROVE  WorkflowInv'
<1> DEFINE q == run[w]
           t == Head(q.todo)
           n == nestedIn[t]
<1>1. /\ q.pc = "nested" /\ run[n].pc = "settled" /\ UNCHANGED <<workflows, controls, swarmVars>>
      /\ run' = [run EXCEPT ![w] = IF run[n].result = "failed" THEN taskFailed(w, q)
                                   ELSE taskCompleted(q)]
  BY DEF NestedReported
<1>2. Working(w, q) /\ q.todo # <<>> /\ n # NoWorkflow
  BY <1>1, Facts DEF RunOK, AtTask
<1>3. run[n].result # "failed" => run[n].result = "completed"
  <2>1. t \in Task
    BY <1>2, Facts, HeadOfRun
  <2>2. n \in WorkflowId
    BY <1>2, <2>1, WorkflowAssumption
  <2>3. run[n] \in RunType /\ RunOK(n, run[n])
    BY <2>2, Facts
  <2>4. run[n].result # "none"
    BY <1>1, <2>3 DEF RunOK, Ended, GaveUp
  <2> QED
    BY <2>3, <2>4 DEF RunType
<1>4. \/ run' = [run EXCEPT ![w] = taskFailed(w, q)]
      \/ run' = [run EXCEPT ![w] = taskCompleted(q)] /\ run[n].result = "completed"
  BY <1>1, <1>3
<1> QED
  BY <1>1, <1>2, <1>4, TriedOne

LEMMA StartNestedKeeps ==
  ASSUME WorkflowInv, NEW w \in WorkflowId, StartNested(w)
  PROVE  WorkflowInv'
<1> DEFINE q == run[w]
           t == Head(q.todo)
           n == nestedIn[t]
           r == [q EXCEPT !.pc = "nested"]
           between == [run EXCEPT ![w] = r]
           after == [between EXCEPT ![n] = begun]
<1>1. /\ q.pc = "loop" /\ q.todo # <<>> /\ n # NoWorkflow
      /\ run' = [run EXCEPT ![w].pc = "nested", ![n] = begun]
      /\ UNCHANGED swarmVars /\ workflows' = workflows \cup {n} /\ controls' = controls
  BY DEF StartNested, mayTake
<1>2. /\ run \in [WorkflowId -> RunType] /\ RunsOK(run, exec)
      /\ q \in RunType /\ RunOK(w, q) /\ Begun(w, q, exec) /\ Inside(w, q, run)
      /\ Truly(q, exec, run) /\ Working(w, q)
  BY <1>1, Facts DEF RunOK, WorkflowInv, WorkflowTypeOK
<1>3. t \in Task /\ t \in tasksIn(w) /\ t \notin tried(q)
  BY <1>1, <1>2, HeadOfRun
<1>4. n \in WorkflowId /\ run[n].pc = "none" /\ n # w
  <2>1. n \in WorkflowId
    BY <1>1, <1>3, WorkflowAssumption
  <2>2. run[n].pc = "none"
    BY <1>1, <1>2, <1>3 DEF Inside
  <2> QED
    BY <1>1, <2>1, <2>2
<1>5. run' = after
  <2>1. [run EXCEPT ![w].pc = "nested", ![n] = begun] = [[run EXCEPT ![w].pc = "nested"] EXCEPT ![n] = begun]
    OBVIOUS
  <2>2. [run EXCEPT ![w].pc = "nested"] = between
    OBVIOUS
  <2> QED
    BY <1>1, <2>1, <2>2, Zenon
<1>6. q = run[w] /\ t = Head(q.todo) /\ n = nestedIn[t]
  OBVIOUS
<1> HIDE DEF q, t, n
<1>7. /\ r \in RunType /\ r.pc = "nested" /\ r.result = q.result /\ r.cut = q.cut
      /\ r.todo = q.todo /\ r.completed = q.completed /\ r.failed = q.failed
      /\ r.rolledBack = q.rolledBack
  BY <1>2 DEF RunType
<1> HIDE DEF r
<1>8. tried(r) = tried(q) /\ over(w, r) = over(w, q) /\ Working(w, r)
  BY <1>2, <1>7, SameWork
<1>9. RunOK(w, r)
  <2>1. AtTask(r)
    BY <1>1, <1>6, <1>7 DEF AtTask
  <2> QED
    BY <1>2, <1>7, <1>8, <2>1 DEF RunOK
<1>10. between[w] = r /\ \A v \in WorkflowId : v # w => between[v] = run[v]
  BY <1>2
<1>11. \A u \in tasksIn(w) : u \in Task /\ (nestedIn[u] # NoWorkflow => nestedIn[u] \in WorkflowId)
  BY TasksIn, WorkflowAssumption
<1>12. between \in [WorkflowId -> RunType] /\ RunsOK(between, exec)
  <2>1. Begun(w, r, exec)
    BY <1>1, <1>2, <1>7, <1>8 DEF Begun
  <2>2. Inside(w, r, between)
    <3> SUFFICES ASSUME NEW u \in tasksIn(w), nestedIn[u] # NoWorkflow, between[nestedIn[u]].pc # "none"
                 PROVE  u \in tried(r)
      BY DEF Inside
    <3>1. run[nestedIn[u]].pc # "none"
      BY <1>1, <1>6, <1>10, <1>11
    <3> QED
      BY <1>1, <1>2, <1>8, <3>1 DEF Inside
  <2>3. Truly(r, exec, between)
    <3> SUFFICES ASSUME NEW u \in toSet(q.completed)
                 PROVE  IF nestedIn[u] = NoWorkflow THEN exec[u].pc = "ended" /\ exec[u].result = "completed"
                        ELSE between[nestedIn[u]].pc = "settled" /\ between[nestedIn[u]].result = "completed"
      BY <1>7 DEF Truly
    <3>1. u \in tasksIn(w)
      BY <1>2 DEF RunOK, tried
    <3> QED
      BY <1>1, <1>2, <1>6, <1>10, <1>11, <3>1 DEF Truly
  <2>4. run[w].pc # "none" /\ run[w].pc # "settled" /\ r \in RunType
    BY <1>1, <1>6, <1>7
  <2>5. \A u \in Task : u \notin tasksIn(w) => exec[u] = exec[u]
    OBVIOUS
  <2> QED
    BY <1>2, <1>9, <2>1, <2>2, <2>3, <2>4, <2>5, OneRunMoves
<1>13. between[n].pc = "none" /\ between[w].pc = "nested" /\ t = Head(between[w].todo)
  BY <1>4, <1>6, <1>7, <1>10
<1>18. after[n] = begun /\ \A v \in WorkflowId : v # n => after[v] = between[v]
  BY <1>4, <1>12
<1> HIDE DEF between
<1>14. /\ begun \in RunType /\ begun.pc = "before" /\ tried(begun) = {}
       /\ toSet(begun.completed) = {} /\ RunOK(n, begun)
  <2>1. begun \in RunType /\ Blank(begun) /\ begun.pc = "before"
    BY FreshRun DEF begun, RunType, Blank
  <2>2. tried(begun) = {} /\ toSet(begun.completed) = {}
    BY <2>1, EmptySet DEF tried, Blank
  <2> QED
    BY <2>1, <2>2 DEF RunOK
<1>15. /\ Begun(n, between[n], exec) /\ Inside(n, between[n], between) /\ tried(between[n]) = {}
  <2>1. RunOK(n, between[n]) /\ Begun(n, between[n], exec) /\ Inside(n, between[n], between)
    BY <1>4, <1>12 DEF RunsOK
  <2>2. Blank(between[n])
    BY <1>13, <2>1 DEF RunOK
  <2> QED
    BY <2>1, <2>2, EmptySet DEF tried, Blank
<1>16. \A u \in Task : nestedIn[u] = n => u = t
  BY <1>1, <1>3, <1>6, WorkflowAssumption
<1>17. after \in [WorkflowId -> RunType] /\ RunsOK(after, exec)
  <2>1. Begun(n, begun, exec)
    BY <1>13, <1>14, <1>15 DEF Begun
  <2>2. Inside(n, begun, after)
    <3> SUFFICES ASSUME NEW u \in tasksIn(n), nestedIn[u] # NoWorkflow, after[nestedIn[u]].pc # "none"
                 PROVE  FALSE
      BY DEF Inside
    <3>1. u \in Task /\ nestedIn[u] \in WorkflowId
      BY <1>4, TasksIn, WorkflowAssumption
    <3>2. between[nestedIn[u]].pc = "none"
      BY <1>13, <1>15 DEF Inside
    <3>3. nestedIn[u] = n
      BY <1>18, <3>1, <3>2
    <3>4. u = t
      BY <1>16, <3>1, <3>3
    <3> QED
      BY <1>3, <1>4, <3>4, TasksIn
  <2>3. Truly(begun, exec, after)
    BY <1>14 DEF Truly
  <2>4. \A v \in WorkflowId : \A u \in tasksIn(v) :
          nestedIn[u] = n => v # n /\ between[v].pc = "nested" /\ u = Head(between[v].todo)
    <3> SUFFICES ASSUME NEW v \in WorkflowId, NEW u \in tasksIn(v), nestedIn[u] = n
                 PROVE  v # n /\ between[v].pc = "nested" /\ u = Head(between[v].todo)
      OBVIOUS
    <3>1. u = t
      BY <1>16, TasksIn
    <3>2. v = w
      BY <1>3, <3>1, TasksIn
    <3> QED
      BY <1>4, <1>13, <3>1, <3>2
  <2>5. \A u \in Task : u \notin tasksIn(n) => exec[u] = exec[u]
    OBVIOUS
  <2>6. between[n].pc # "settled"
    BY <1>13
  <2> HIDE DEF after
  <2>7. after = [between EXCEPT ![n] = begun]
    BY DEF after
  <2> QED
    BY <1>4, <1>12, <1>14, <2>1, <2>2, <2>3, <2>4, <2>5, <2>6, <2>7, OneRunMoves
<1> HIDE DEF after
<1>19. SwarmInv'
  BY <1>1, SwarmInductive DEF WorkflowInv
<1>20. workflows' \subseteq WorkflowId /\ controls' \in 0 .. MaxControls /\ exec' = exec
  BY <1>1, <1>4, Facts DEF swarmVars
<1> QED
  BY <1>5, <1>17, <1>19, <1>20 DEF WorkflowInv, WorkflowTypeOK

\* One more of what completed is undone, or has nothing to undo.
LEMMA UndoneOne ==
  ASSUME NEW q, NEW r, q.completed \in Seq(Task), Undoing(q), q.todo # <<>>,
         r.completed = q.completed, r.todo = Tail(q.todo),
         r.rolledBack = IF Head(q.todo) \in hasRollback THEN Append(q.rolledBack, Head(q.todo))
                        ELSE q.rolledBack
  PROVE  Undoing(r)
<1> DEFINE rev == Reverse(q.completed)
           undone(k) == {i \in 1 .. k : rev[i] \in hasRollback}
<1>1. rev \in Seq(Task) /\ Len(rev) \in Nat /\ DOMAIN rev = 1 .. Len(rev)
  BY Reversed
<1>2. PICK k \in 0 .. Len(rev) : q.todo = SubSeq(rev, k + 1, Len(rev))
                                 /\ q.rolledBack = Subsequence(rev, undone(k))
  BY DEF Undoing
<1>9. rev = Reverse(r.completed)
  OBVIOUS
<1> HIDE DEF rev
<1>3. /\ k \in Nat /\ k + 1 \in 0 .. Len(rev) /\ k + 1 \in DOMAIN rev
      /\ Head(q.todo) = rev[k + 1] /\ Tail(q.todo) = SubSeq(rev, (k + 1) + 1, Len(rev))
  <2>1. k < Len(rev)
    <3> SUFFICES ASSUME ~(k < Len(rev)) PROVE FALSE
      OBVIOUS
    <3>1. k \in Int /\ Len(rev) \in Int /\ k + 1 \in Int /\ Len(rev) < k + 1
      BY <1>1, <1>2
    <3>2. SubSeq(rev, k + 1, Len(rev)) = <<>>
      BY <3>1, SubSeqEmpty
    <3> QED
      BY <1>2, <3>2
  <2>2. k + 1 \in 1 .. Len(rev) /\ Len(rev) \in k + 1 .. Len(rev)
    BY <1>1, <1>2, <2>1
  <2>3. Head(q.todo) = rev[k + 1] /\ Tail(q.todo) = SubSeq(rev, (k + 1) + 1, Len(rev))
    BY <1>1, <1>2, <2>2, HeadTailOfSubSeq
  <2> QED
    BY <1>1, <1>2, <2>1, <2>2, <2>3
<1>4. r.rolledBack = Subsequence(rev, undone(k + 1))
  <2>1. undone(k) \in SUBSET (1 .. (k + 1) - 1)
    BY <1>3
  <2>2. CASE rev[k + 1] \in hasRollback
    <3>1. undone(k + 1) = undone(k) \cup {k + 1}
      BY <1>3, <2>2
    <3> HIDE DEF undone
    <3>2. Subsequence(rev, undone(k) \cup {k + 1}) = Append(Subsequence(rev, undone(k)), rev[k + 1])
      BY <1>1, <1>3, <2>1, SubsequenceGrows
    <3> QED
      BY <1>2, <1>3, <2>2, <3>1, <3>2
  <2>3. CASE rev[k + 1] \notin hasRollback
    <3>1. undone(k + 1) = undone(k)
      BY <1>3, <2>3
    <3> HIDE DEF undone
    <3> QED
      BY <1>2, <1>3, <2>3, <3>1
  <2> QED
    BY <2>2, <2>3
<1>5. \E j \in 0 .. Len(rev) : r.todo = SubSeq(rev, j + 1, Len(rev))
                               /\ r.rolledBack = Subsequence(rev, undone(j))
  BY <1>3, <1>4
<1> QED
  BY <1>5, <1>9 DEF Undoing

LEMMA RollbackTaskKeeps ==
  ASSUME WorkflowInv, NEW w \in WorkflowId, RollbackTask(w)
  PROVE  WorkflowInv'
<1> DEFINE q == run[w]
           t == Head(q.todo)
           undone == IF t \in hasRollback THEN Append(q.rolledBack, t) ELSE q.rolledBack
           r == [q EXCEPT !.todo = Tail(q.todo), !.rolledBack = undone]
<1>1. /\ q.pc = "rollback" /\ q.todo # <<>>
      /\ UNCHANGED swarmVars /\ workflows' = workflows /\ controls' = controls
  BY DEF RollbackTask
<1>2. q \in RunType /\ RunOK(w, q) /\ w \in rollbackOnFailure /\ q.result = "failed" /\ Undoing(q)
  BY <1>1, Facts DEF RunOK
<1>3. run' = [run EXCEPT ![w] = r]
  <2>1. run' = [run EXCEPT ![w].todo = Tail(@),
                           ![w].rolledBack = IF t \in hasRollback THEN Append(@, t) ELSE @]
    BY DEF RollbackTask
  <2> QED
    BY <2>1
<1>4. q = run[w] /\ t = Head(q.todo)
  OBVIOUS
<1>5. q.todo \in Seq(Task) /\ q.rolledBack \in Seq(Task) /\ t \in Task /\ Tail(q.todo) \in Seq(Task)
      /\ undone \in Seq(Task) /\ q.completed \in Seq(Task)
  <2>1. q.todo \in Seq(Task) /\ q.rolledBack \in Seq(Task) /\ q.completed \in Seq(Task)
    BY <1>2, RunFields
  <2> HIDE DEF q
  <2>2. t \in Task /\ Tail(q.todo) \in Seq(Task)
    BY <1>1, <2>1
  <2> QED
    BY <2>1, <2>2
<1> HIDE DEF q, undone
<1>6. /\ r \in RunType /\ r.pc = "rollback" /\ r.result = q.result /\ r.cut = q.cut
      /\ r.todo = Tail(q.todo) /\ r.completed = q.completed /\ r.failed = q.failed
      /\ r.rolledBack = undone
  BY <1>1, <1>2, <1>5 DEF RunType
<1> HIDE DEF r
<1>7. Undoing(r)
  BY <1>1, <1>2, <1>4, <1>5, <1>6, UndoneOne DEF undone
<1>8. tried(r) = tried(q) /\ over(w, r) = over(w, q)
  BY <1>6 DEF tried, over
<1>9. RunOK(w, r)
  BY <1>2, <1>6, <1>7, <1>8 DEF RunOK
<1>10. workflows' \subseteq WorkflowId /\ controls' \in 0 .. MaxControls
  BY <1>1, Facts
<1> QED
  BY <1>1, <1>3, <1>4, <1>6, <1>8, <1>9, <1>10, RunMoves

LEMMA RolledBackKeeps ==
  ASSUME WorkflowInv, NEW w \in WorkflowId, RolledBack(w)
  PROVE  WorkflowInv'
<1> DEFINE q == run[w]
           r == [q EXCEPT !.pc = "settled"]
<1>1. q.pc = "rollback" /\ q.todo = <<>> /\ run' = [run EXCEPT ![w] = r]
      /\ UNCHANGED swarmVars /\ workflows' = workflows /\ controls' = controls
  BY DEF RolledBack
<1>2. q \in RunType /\ RunOK(w, q) /\ w \in rollbackOnFailure /\ q.result = "failed" /\ Undoing(q)
  BY <1>1, Facts DEF RunOK
<1>3. q = run[w]
  OBVIOUS
<1> HIDE DEF q
<1>4. /\ r \in RunType /\ r.pc = "settled" /\ r.result = q.result /\ r.cut = q.cut
      /\ r.todo = q.todo /\ r.completed = q.completed /\ r.failed = q.failed
      /\ r.rolledBack = q.rolledBack
  BY <1>2 DEF RunType
<1> HIDE DEF r
<1>5. q.rolledBack = withRollback(Reverse(q.completed))
  <2> DEFINE rev == Reverse(q.completed)
  <2>1. rev \in Seq(Task)
    BY <1>2, RunFields, Reversed
  <2>2. PICK k \in 0 .. Len(rev) :
          /\ q.todo = SubSeq(rev, k + 1, Len(rev))
          /\ q.rolledBack = Subsequence(rev, {i \in 1 .. k : rev[i] \in hasRollback})
    BY <1>2 DEF Undoing
  <2>4. withRollback(rev) = Subsequence(rev, {i \in DOMAIN rev : rev[i] \in hasRollback})
    BY DEF withRollback
  <2> HIDE DEF rev
  <2>3. k = Len(rev)
    <3>1. Len(SubSeq(rev, k + 1, Len(rev))) = Len(rev) - k
      BY <2>1, <2>2
    <3>2. Len(q.todo) = 0
      BY <1>1
    <3> QED
      BY <2>1, <2>2, <3>1, <3>2
  <2>5. DOMAIN rev = 1 .. k
    BY <2>1, <2>3
  <2> QED
    BY <2>2, <2>4, <2>5 DEF rev
<1>6. tried(r) = tried(q) /\ over(w, r) = over(w, q) /\ GaveUp(w, r)
  <2>1. GaveUp(w, q)
    BY <1>2, <1>5 DEF GaveUp
  <2> QED
    BY <1>4, <2>1, SameWork
<1>7. RunOK(w, r)
  BY <1>2, <1>4, <1>6 DEF RunOK
<1>8. workflows' \subseteq WorkflowId /\ controls' \in 0 .. MaxControls
  BY <1>1, Facts
<1> QED
  BY <1>1, <1>3, <1>4, <1>6, <1>7, <1>8, RunMoves

\* Control reaches the status of runs only.
LEMMA StatusOnly ==
  ASSUME WorkflowInv, UNCHANGED swarmVars, workflows' \subseteq WorkflowId,
         controls' \in 0 .. MaxControls, run' \in [WorkflowId -> RunType],
         \A w \in WorkflowId :
           /\ run'[w].pc = run[w].pc /\ run'[w].todo = run[w].todo /\ run'[w].agent = run[w].agent
           /\ run'[w].completed = run[w].completed /\ run'[w].failed = run[w].failed
           /\ run'[w].rolledBack = run[w].rolledBack /\ run'[w].result = run[w].result
           /\ run'[w].cut = run[w].cut
  PROVE  WorkflowInv'
<1>1. SwarmInv' /\ exec' = exec
  BY SwarmInductive DEF WorkflowInv, swarmVars
<1>2. ASSUME NEW w \in WorkflowId
      PROVE  /\ RunOK(w, run'[w]) /\ Begun(w, run'[w], exec)
             /\ Inside(w, run'[w], run') /\ Truly(run'[w], exec, run')
  <2> DEFINE q == run[w]
             r == run'[w]
  <2>1. /\ RunOK(w, q) /\ Begun(w, q, exec) /\ Inside(w, q, run) /\ Truly(q, exec, run)
    BY Facts
  <2>2. /\ r.pc = q.pc /\ r.todo = q.todo /\ r.agent = q.agent /\ r.completed = q.completed
        /\ r.failed = q.failed /\ r.rolledBack = q.rolledBack /\ r.result = q.result
        /\ r.cut = q.cut
    OBVIOUS
  <2> HIDE DEF q, r
  <2>3. /\ tried(r) = tried(q) /\ over(w, r) = over(w, q) /\ Blank(r) = Blank(q)
        /\ Working(w, r) = Working(w, q) /\ Ended(w, r) = Ended(w, q)
        /\ GaveUp(w, r) = GaveUp(w, q) /\ Undoing(r) = Undoing(q)
    BY <2>2 DEF tried, over, Blank, Working, Ended, GaveUp, Undoing
  <2>4. AtTask(q) => AtTask(r)
    BY <2>2 DEF AtTask
  <2>5. RunOK(w, r)
    BY <2>1, <2>2, <2>3, <2>4 DEF RunOK
  <2>6. Begun(w, r, exec)
    BY <2>1, <2>2, <2>3 DEF Begun
  <2>7. \A t \in tasksIn(w) : nestedIn[t] # NoWorkflow => nestedIn[t] \in WorkflowId
    BY TasksIn, WorkflowAssumption
  <2>8. Inside(w, r, run')
    BY <2>1, <2>2, <2>3, <2>7 DEF Inside
  <2>9. toSet(q.completed) \subseteq tasksIn(w)
    BY <2>1 DEF RunOK, tried
  <2>10. Truly(r, exec, run')
    BY <2>1, <2>2, <2>7, <2>9 DEF Truly
  <2> QED
    BY <2>5, <2>6, <2>8, <2>10 DEF r
<1>3. RunsOK(run', exec')
  BY <1>1, <1>2 DEF RunsOK
<1> QED
  BY <1>1, <1>3 DEF WorkflowInv, WorkflowTypeOK

LEMMA StatusSet ==
  ASSUME WorkflowInv, NEW w \in WorkflowId, NEW from, NEW to \in {"in-progress", "paused", "cancelled"},
         setStatus(w, from, to), UNCHANGED <<workflows, swarmVars>>, controls' \in 0 .. MaxControls
  PROVE  WorkflowInv'
<1> DEFINE q == run[w]
           r == [q EXCEPT !.status = to]
<1>1. run \in [WorkflowId -> RunType] /\ workflows' \subseteq WorkflowId /\ UNCHANGED swarmVars
  BY DEF WorkflowInv, WorkflowTypeOK
<1>2. run' = [run EXCEPT ![w] = r]
  BY DEF setStatus
<1>3. q \in RunType
  BY <1>1
<1>4. /\ r \in RunType /\ r.pc = q.pc /\ r.result = q.result /\ r.cut = q.cut /\ r.agent = q.agent
      /\ r.todo = q.todo /\ r.completed = q.completed /\ r.failed = q.failed
      /\ r.rolledBack = q.rolledBack
  <2> HIDE DEF q
  <2> QED
    BY <1>3 DEF RunType
<1> HIDE DEF r
<1>5. run' \in [WorkflowId -> RunType] /\ run'[w] = r /\ \A v \in WorkflowId : v # w => run'[v] = run[v]
  BY <1>1, <1>2, <1>4
<1>6. \A v \in WorkflowId :
        /\ run'[v].pc = run[v].pc /\ run'[v].todo = run[v].todo /\ run'[v].agent = run[v].agent
        /\ run'[v].completed = run[v].completed /\ run'[v].failed = run[v].failed
        /\ run'[v].rolledBack = run[v].rolledBack /\ run'[v].result = run[v].result
        /\ run'[v].cut = run[v].cut
  <2> SUFFICES ASSUME NEW v \in WorkflowId
               PROVE  /\ run'[v].pc = run[v].pc /\ run'[v].todo = run[v].todo /\ run'[v].agent = run[v].agent
                      /\ run'[v].completed = run[v].completed /\ run'[v].failed = run[v].failed
                      /\ run'[v].rolledBack = run[v].rolledBack /\ run'[v].result = run[v].result
                      /\ run'[v].cut = run[v].cut
    OBVIOUS
  <2>1. CASE v = w
    BY <1>4, <1>5, <2>1
  <2>2. CASE v # w
    <3>1. run'[v] = run[v]
      BY <1>5, <2>2
    <3> QED
      BY <3>1
  <2> QED
    BY <2>1, <2>2
<1> QED
  BY <1>1, <1>5, <1>6, StatusOnly

LEMMA ShutdownKeeps ==
  ASSUME WorkflowInv, ShutdownEngine
  PROVE  WorkflowInv'
<1> DEFINE cancelled(w) == [run[w] EXCEPT !.status = "cancelled"]
<1>1. /\ controls < MaxControls /\ controls' = controls + 1 /\ workflows' = {} /\ UNCHANGED swarmVars
      /\ run' = [w \in WorkflowId |-> IF w \in workflows /\ run[w].status = "in-progress"
                                      THEN cancelled(w) ELSE run[w]]
  BY DEF ShutdownEngine
<1>2. controls' \in 0 .. MaxControls /\ workflows' \subseteq WorkflowId
  BY <1>1, Facts, WorkflowAssumption
<1>3. ASSUME NEW w \in WorkflowId
      PROVE  /\ run'[w] \in RunType
             /\ run'[w].pc = run[w].pc /\ run'[w].todo = run[w].todo /\ run'[w].agent = run[w].agent
             /\ run'[w].completed = run[w].completed /\ run'[w].failed = run[w].failed
             /\ run'[w].rolledBack = run[w].rolledBack /\ run'[w].result = run[w].result
             /\ run'[w].cut = run[w].cut
  <2> DEFINE q == run[w]
  <2>1. q \in RunType
    BY Facts
  <2>2. run'[w] = [q EXCEPT !.status = "cancelled"] \/ run'[w] = q
    BY <1>1
  <2> HIDE DEF q
  <2>3. /\ run'[w] \in RunType
        /\ run'[w].pc = q.pc /\ run'[w].todo = q.todo /\ run'[w].agent = q.agent
        /\ run'[w].completed = q.completed /\ run'[w].failed = q.failed
        /\ run'[w].rolledBack = q.rolledBack /\ run'[w].result = q.result
        /\ run'[w].cut = q.cut
    BY <2>1, <2>2 DEF RunType
  <2> QED
    BY <2>3 DEF q
<1>4. run' \in [WorkflowId -> RunType]
  BY <1>1, <1>3
<1> HIDE DEF cancelled
<1> QED
  BY <1>1, <1>2, <1>3, <1>4, StatusOnly

\* The others' tasks: what a run relies on does not move.
LEMMA OthersKeep ==
  ASSUME WorkflowInv, OthersNext, UNCHANGED flowVars
  PROVE  WorkflowInv'
<1>1. SwarmInv /\ run' = run /\ workflows' = workflows /\ controls' = controls
  BY DEF WorkflowInv, flowVars
<1>2. \A w \in WorkflowId : \A t \in tasksIn(w) : t \in Task /\ t \in WorkflowTasks
  BY TasksIn DEF tasksIn, WorkflowTasks
<1>3. ASSUME \A t \in WorkflowTasks : exec'[t] = exec[t], SwarmInv'
      PROVE  WorkflowInv'
  <2>1. ASSUME NEW w \in WorkflowId
        PROVE  /\ RunOK(w, run[w]) /\ Begun(w, run[w], exec') /\ Inside(w, run[w], run)
               /\ Truly(run[w], exec', run)
    <3>1. /\ RunOK(w, run[w]) /\ Begun(w, run[w], exec) /\ Inside(w, run[w], run)
          /\ Truly(run[w], exec, run)
      BY Facts
    <3>2. \A t \in tasksIn(w) : exec'[t] = exec[t]
      BY <1>2, <1>3
    <3>3. toSet(run[w].completed) \subseteq tasksIn(w)
      BY <3>1 DEF RunOK, tried
    <3>4. Begun(w, run[w], exec')
      BY <3>1, <3>2 DEF Begun
    <3>5. Truly(run[w], exec', run)
      BY <3>1, <3>2, <3>3 DEF Truly
    <3> QED
      BY <3>1, <3>4, <3>5
  <2> QED
    BY <1>1, <1>3, <2>1 DEF WorkflowInv, WorkflowTypeOK, RunsOK
<1>4. CASE Membership
  <2>1. exec' = exec
    BY <1>4 DEF Membership, SpawnAgent, TerminateAgent, ShutdownSwarm, ScaleDown, ScaleUp, ScaleStep,
               Reconfigure
  <2>2. SwarmInv'
    BY <1>1, <1>4, SwarmInductive DEF SwarmNext
  <2> QED
    BY <1>3, <2>1, <2>2
<1>5. ASSUME NEW t \in Task, TaskEnds(t)
      PROVE  WorkflowInv'
  <2>1. /\ SwarmInv' /\ exec'[t].pc = "ended" /\ \A s \in Task : s # t => exec'[s] = exec[s]
    BY <1>1, <1>5, TaskEndsKeeps
  <2>2. exec[t].pc = "running"
    BY <1>5 DEF TaskEnds
  <2>3. ASSUME NEW w \in WorkflowId
        PROVE  /\ RunOK(w, run[w]) /\ Begun(w, run[w], exec') /\ Inside(w, run[w], run)
               /\ Truly(run[w], exec', run)
    <3>1. /\ RunOK(w, run[w]) /\ Begun(w, run[w], exec) /\ Inside(w, run[w], run)
          /\ Truly(run[w], exec, run)
      BY Facts
    <3>2. \A s \in tasksIn(w) : /\ exec'[s].pc # "none" => exec[s].pc # "none"
                                /\ exec'[s].pc = "running" => exec[s].pc = "running"
                                /\ exec[s].pc = "ended" => exec'[s] = exec[s]
      BY <1>2, <2>1, <2>2
    <3>3. toSet(run[w].completed) \subseteq tasksIn(w)
      BY <3>1 DEF RunOK, tried
    <3>4. Begun(w, run[w], exec')
      BY <3>1, <3>2 DEF Begun
    <3>5. Truly(run[w], exec', run)
      BY <3>1, <3>2, <3>3 DEF Truly
    <3> QED
      BY <3>1, <3>4, <3>5
  <2> QED
    BY <1>1, <2>1, <2>3 DEF WorkflowInv, WorkflowTypeOK, RunsOK
<1>6. ASSUME NEW a \in AgentId, NEW t \in Task \ WorkflowTasks, ExecuteTask(a, t)
      PROVE  WorkflowInv'
  <2>1. SwarmInv' /\ \A s \in Task : s # t => exec'[s] = exec[s]
    BY <1>1, <1>6, ExecuteTaskKeeps
  <2>2. WorkflowTasks \subseteq Task
    BY WorkflowAssumption DEF WorkflowTasks, toSet
  <2> QED
    BY <1>3, <2>1, <2>2
<1>7. ASSUME NEW ts \in Batch, toSet(ts) \cap WorkflowTasks = {}, ExecuteTasksConcurrently(ts)
      PROVE  WorkflowInv'
  <2>1. SwarmInv' /\ \A s \in Task : s \notin toSet(ts) => exec'[s] = exec[s]
    BY <1>1, <1>7, ExecuteTasksConcurrentlyKeeps
  <2>2. WorkflowTasks \subseteq Task
    BY WorkflowAssumption DEF WorkflowTasks, toSet
  <2>3. \A s \in WorkflowTasks : exec'[s] = exec[s]
    BY <1>7, <2>1, <2>2
  <2> QED
    BY <1>3, <2>1, <2>3
<1> QED
  BY <1>4, <1>5, <1>6, <1>7 DEF OthersNext

LEMMA WorkflowInductive == WorkflowInv /\ [WorkflowNext]_workflowVars => WorkflowInv'
<1> SUFFICES ASSUME WorkflowInv, [WorkflowNext]_workflowVars PROVE WorkflowInv'
  OBVIOUS
<1>1. ASSUME NEW w \in WorkflowId, StartWorkflow(w) PROVE WorkflowInv'
  BY <1>1, StartWorkflowKeeps
<1>2. ASSUME NEW w \in WorkflowId, RunStep(w) PROVE WorkflowInv'
  <2>1. CASE AfterHooks(w)
    BY <2>1, AfterHooksKeeps
  <2>2. CASE FinishRun(w)
    BY <2>2, FinishRunKeeps
  <2>3. CASE SettleRun(w)
    BY <2>3, SettleRunKeeps
  <2>4. CASE ChooseAgent(w)
    BY <2>4, ChooseAgentKeeps
  <2>5. CASE DispatchTask(w)
    BY <2>5, DispatchTaskKeeps
  <2>6. CASE TaskReported(w)
    BY <2>6, TaskReportedKeeps
  <2>7. CASE StartNested(w)
    BY <2>7, StartNestedKeeps
  <2>8. CASE NestedReported(w)
    BY <2>8, NestedReportedKeeps
  <2>9. CASE RollbackTask(w)
    BY <2>9, RollbackTaskKeeps
  <2>10. CASE RolledBack(w)
    BY <2>10, RolledBackKeeps
  <2> QED
    BY <1>2, <2>1, <2>2, <2>3, <2>4, <2>5, <2>6, <2>7, <2>8, <2>9, <2>10 DEF RunStep
<1>3. ASSUME NEW w \in WorkflowId, PauseWorkflow(w) PROVE WorkflowInv'
  <2>1. controls' \in 0 .. MaxControls
    BY <1>3, Facts, WorkflowAssumption DEF PauseWorkflow
  <2>2. setStatus(w, "in-progress", "paused") /\ UNCHANGED <<workflows, swarmVars>>
    BY <1>3 DEF PauseWorkflow
  <2> QED
    BY <2>1, <2>2, StatusSet
<1>4. ASSUME NEW w \in WorkflowId, ResumeWorkflow(w) PROVE WorkflowInv'
  <2>1. controls' \in 0 .. MaxControls
    BY <1>4, Facts DEF ResumeWorkflow
  <2>2. setStatus(w, "paused", "in-progress") /\ UNCHANGED <<workflows, swarmVars>>
    BY <1>4 DEF ResumeWorkflow
  <2> QED
    BY <2>1, <2>2, StatusSet
<1>5. CASE ShutdownEngine
  BY <1>5, ShutdownKeeps
<1>6. CASE OthersNext /\ UNCHANGED flowVars
  BY <1>6, OthersKeep
<1>7. CASE UNCHANGED workflowVars
  <2>1. SwarmInv' /\ run' = run /\ workflows' = workflows /\ controls' = controls /\ exec' = exec
    BY <1>7, SwarmInductive DEF WorkflowInv, workflowVars, flowVars, swarmVars
  <2> QED
    BY <2>1 DEF WorkflowInv, WorkflowTypeOK, RunsOK
<1> QED
  BY <1>1, <1>2, <1>3, <1>4, <1>5, <1>6, <1>7 DEF WorkflowNext, EngineNext

LEMMA WorkflowStarts == WorkflowInit => WorkflowInv
<1> SUFFICES ASSUME WorkflowInit PROVE WorkflowInv
  OBVIOUS
<1>1. SwarmInv /\ exec = [t \in Task |-> noExec]
  BY SwarmStarts DEF WorkflowInit, SwarmInit
<1>2. run = [w \in WorkflowId |-> freshRun] /\ workflows = {} /\ controls = 0
  BY DEF WorkflowInit
<1>3. tried(freshRun) = {} /\ toSet(freshRun.completed) = {}
  BY FreshRun, EmptySet DEF tried, Blank
<1>4. ASSUME NEW w \in WorkflowId
      PROVE  /\ RunOK(w, freshRun) /\ Begun(w, freshRun, exec) /\ Inside(w, freshRun, run)
             /\ Truly(freshRun, exec, run)
  <2>1. RunOK(w, freshRun)
    BY <1>3, FreshRun DEF RunOK
  <2>2. \A t \in tasksIn(w) : t \in Task /\ exec[t].pc = "none"
    BY <1>1, TasksIn DEF noExec
  <2>3. Begun(w, freshRun, exec)
    BY <2>2 DEF Begun
  <2>4. \A t \in tasksIn(w) : nestedIn[t] # NoWorkflow => run[nestedIn[t]].pc = "none"
    BY <1>2, <2>2, FreshRun, WorkflowAssumption
  <2>5. Inside(w, freshRun, run)
    BY <2>4 DEF Inside
  <2> QED
    BY <1>3, <2>1, <2>3, <2>5 DEF Truly
<1>5. WorkflowTypeOK
  BY <1>2, FreshRun, WorkflowAssumption DEF WorkflowTypeOK
<1>6. RunsOK(run, exec)
  BY <1>2, <1>4 DEF RunsOK
<1> QED
  BY <1>1, <1>5, <1>6 DEF WorkflowInv

------------------------------------------------------------------------------
(* What follows. *)

LEMMA InOrder == WorkflowInv => TasksInOrder
<1> SUFFICES ASSUME WorkflowInv, NEW w \in WorkflowId
             PROVE  \A t \in tried(run[w]) \cup
                           (IF run[w].pc \in {"chosen", "task", "nested"} THEN {Head(run[w].todo)} ELSE {}) :
                      taskDependencies[t] \subseteq over(w, run[w])
  BY DEF TasksInOrder, tried, over
<1> DEFINE q == run[w]
<1>1. q \in RunType /\ RunOK(w, q)
  BY Facts
<1>2. ASSUME NEW t \in tried(q) PROVE taskDependencies[t] \subseteq over(w, q)
  BY <1>1 DEF RunOK
<1>3. ASSUME q.pc \in {"chosen", "task", "nested"}
      PROVE  taskDependencies[Head(q.todo)] \subseteq over(w, q)
  <2>1. Working(w, q) /\ q.todo # <<>>
    BY <1>1, <1>3 DEF RunOK, AtTask
  <2>2. taskDependencies[Head(q.todo)] \subseteq tried(q)
    BY <1>1, <2>1, HeadOfRun
  <2> QED
    BY <2>1, <2>2 DEF Working, tried, over
<1> QED
  BY <1>2, <1>3

LEMMA ResultIsTrue == WorkflowInv => ResultTrue
<1> SUFFICES ASSUME WorkflowInv, NEW w \in WorkflowId
             PROVE  LET q == run[w]
                        all == withRollback(Reverse(q.completed))
                    IN /\ \A t \in toSet(q.completed) :
                            IF nestedIn[t] = NoWorkflow THEN exec[t].result = "completed"
                            ELSE run[nestedIn[t]].result = "completed"
                       /\ q.result = "completed" /\ ~q.cut => toSet(q.completed) = toSet(tasksOf[w])
                       /\ IsPrefix(q.rolledBack, all)
                       /\ q.pc = "rollback" => \A t \in toSet(tasksOf[w]) : exec[t].pc # "running"
                       /\ q.pc = "settled" /\ q.result = "failed" /\ w \in rollbackOnFailure
                            => q.rolledBack = all
  BY DEF ResultTrue
<1> DEFINE q == run[w]
           rev == Reverse(q.completed)
           all == withRollback(rev)
<1>1. q \in RunType /\ RunOK(w, q) /\ Begun(w, q, exec) /\ Truly(q, exec, run)
  BY Facts
<1>2. \A t \in toSet(q.completed) :
        IF nestedIn[t] = NoWorkflow THEN exec[t].result = "completed"
        ELSE run[nestedIn[t]].result = "completed"
  BY <1>1 DEF Truly
<1>3. rev \in Seq(Task) /\ q.completed \in Seq(Task)
  BY <1>1, RunFields, Reversed
<1>4. all = Subsequence(rev, {i \in DOMAIN rev : rev[i] \in hasRollback})
  BY DEF withRollback
<1> HIDE DEF q
<1>5. q.pc \in {"none", "before", "loop", "chosen", "task", "nested", "after", "rollback", "settled"}
  BY <1>1 DEF RunType
<1>6. q.result = "completed" /\ ~q.cut => toSet(q.completed) = toSet(tasksOf[w])
  <2> SUFFICES ASSUME q.result = "completed", ~q.cut PROVE toSet(q.completed) = toSet(tasksOf[w])
    OBVIOUS
  <2>1. Ended(w, q)
    BY <1>1, <1>5 DEF RunOK, Blank, Working, GaveUp
  <2>2. q.failed = {} /\ tried(q) = tasksIn(w)
    BY <2>1 DEF Ended
  <2> QED
    BY <2>2 DEF tried, tasksIn
<1>7. q.pc = "rollback" => \A t \in toSet(tasksOf[w]) : exec[t].pc # "running"
  BY <1>1 DEF Begun, tasksIn
<1>8. q.pc = "settled" /\ q.result = "failed" /\ w \in rollbackOnFailure => q.rolledBack = all
  BY <1>1 DEF RunOK, GaveUp, Ended
<1> HIDE DEF rev
<1>9. IsPrefix(q.rolledBack, all)
  <2>1. all \in Seq(Task)
    <3>1. {i \in DOMAIN rev : rev[i] \in hasRollback} \in SUBSET DOMAIN rev
      OBVIOUS
    <3> QED
      BY <1>3, <1>4, <3>1, SubsequenceKeeps
  <2> HIDE DEF all
  <2>2. CASE q.rolledBack = <<>>
    <3>1. Len(<<>>) = 0 /\ Len(all) \in Nat
      BY <2>1
    <3>2. SubSeq(<<>>, 1, 0) = <<>> /\ SubSeq(all, 1, 0) = <<>>
      BY SubSeqEmpty
    <3> QED
      BY <2>2, <3>1, <3>2 DEF IsPrefix
  <2>3. CASE q.rolledBack = all
    BY <2>1, <2>3 DEF IsPrefix
  <2>4. CASE Undoing(q)
    <3>1. PICK k \in 0 .. Len(rev) :
            q.rolledBack = Subsequence(rev, {i \in 1 .. k : rev[i] \in hasRollback})
      BY <2>4 DEF Undoing, rev
    <3> DEFINE I == {i \in 1 .. k : rev[i] \in hasRollback}
               J == {i \in DOMAIN rev : rev[i] \in hasRollback}
               p == q.rolledBack
    <3>2. I \in SUBSET J /\ J \in SUBSET DOMAIN rev /\ \A x \in J : \A i \in I : x <= i => x \in I
      <4>1. Len(rev) \in Nat /\ DOMAIN rev = 1 .. Len(rev) /\ k \in 0 .. Len(rev)
        BY <1>3, <3>1
      <4>2. \A i \in 1 .. k : i \in DOMAIN rev
        BY <4>1
      <4>3. \A x \in DOMAIN rev : \A i \in 1 .. k : x <= i => x \in 1 .. k
        BY <4>1
      <4> QED
        BY <4>2, <4>3
    <3> HIDE DEF I, J
    <3>3. p = Subsequence(rev, I) /\ all = Subsequence(rev, J)
      BY <1>4, <3>1 DEF I, J
    <3>4. Len(p) <= Len(all) /\ \A i \in 1 .. Len(p) : p[i] = all[i]
      BY <1>3, <3>2, <3>3, SubsequenceBegins
    <3>5. p \in Seq(Task)
      BY <1>1, RunFields
    <3> HIDE DEF p
    <3>6. SubSeq(p, 1, Len(p)) = SubSeq(all, 1, Len(p))
      <4> DEFINE n == Len(p)
                 a == SubSeq(p, 1, n)
                 b == SubSeq(all, 1, n)
      <4>1. n \in Nat /\ n <= Len(all) /\ Len(all) \in Nat
        BY <2>1, <3>4, <3>5
      <4>2. a \in Seq(Task) /\ Len(a) = n /\ \A i \in 1 .. n : a[i] = p[i]
        BY <3>5
      <4>3. b \in Seq(Task) /\ Len(b) = n /\ \A i \in 1 .. n : b[i] = all[i]
        <5> HIDE DEF n
        <5> QED
          BY <2>1, <4>1
      <4> HIDE DEF a, b
      <4>4. \A i \in 1 .. n : a[i] = b[i]
        BY <3>4, <4>2, <4>3
      <4> HIDE DEF n
      <4>5. a = b
        BY <4>2, <4>3, <4>4, SeqEqual
      <4> QED
        BY <4>5 DEF a, b, n
    <3> QED
      BY <3>4, <3>6 DEF IsPrefix, p
  <2>5. q.rolledBack = <<>> \/ q.rolledBack = all \/ Undoing(q)
    BY <1>1, <1>5 DEF RunOK, Blank, Working, Ended, GaveUp, all, rev
  <2> QED
    BY <2>2, <2>3, <2>4, <2>5
<1> QED
  BY <1>2, <1>6, <1>7, <1>8, <1>9 DEF q, rev

\* Every reachable state of the engine satisfies the invariant.
THEOREM WorkflowInvariant == WorkflowSpec => []WorkflowInv
  BY WorkflowStarts, WorkflowInductive, PTL DEF WorkflowSpec

\* The runs of the engine are what its declarations say (src/engine/ruflo/task-execution/application/WorkflowEngine.ts).
THEOREM WorkflowTypeCorrect == WorkflowSpec => []WorkflowTypeOK
<1>1. WorkflowInv => WorkflowTypeOK
  BY DEF WorkflowInv
<1> QED
  BY <1>1, WorkflowInvariant, PTL

\* A task is taken up only after what it depends on is over, through pauses, nested runs,
\* shutdowns and agents that come and go.
THEOREM OrderCorrect == WorkflowSpec => []TasksInOrder
  BY InOrder, WorkflowInvariant, PTL

\* The result of a run is true, and what a failed one undoes is what completed, last first.
THEOREM ResultCorrect == WorkflowSpec => []ResultTrue
  BY ResultIsTrue, WorkflowInvariant, PTL
=============================================================================
