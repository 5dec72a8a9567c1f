------------------------------ MODULE Workflow ------------------------------
(***************************************************************************)
(* The workflow engine of ruflo on top of the swarm coordinator.  Every    *)
(* executeWorkflow is an asynchronous run of its own; pauseWorkflow,       *)
(* resumeWorkflow and shutdown reach the run registered under the          *)
(* workflow's id while it awaits a hook, a task or a rollback.             *)
(***************************************************************************)
EXTENDS Swarm, SequencesExt

CONSTANTS
  WorkflowId,
  NoWorkflow,      \* the task is not a nested workflow
  tasksOf,         \* [WorkflowId -> sequence of tasks]
  taskDependencies,\* [Task -> SUBSET Task]
  assignedTo,      \* [Task -> AgentId \cup {NoAgent}]
  nestedIn,        \* [Task -> WorkflowId \cup {NoWorkflow}]
  rollbackOnFailure, \* SUBSET WorkflowId
  hasRollback,     \* tasks with an onRollback
  MaxControls      \* bound on pauses, resumes and shutdowns

\* A task is in one workflow, once, and a workflow is nested in one task at most.
ASSUME WorkflowAssumption ==
  /\ NoWorkflow \notin WorkflowId
  /\ tasksOf \in [WorkflowId -> Seq(Task)]
  /\ \A w \in WorkflowId : \A j, k \in DOMAIN tasksOf[w] : tasksOf[w][j] = tasksOf[w][k] => j = k
  /\ \A v, w \in WorkflowId : v # w => toSet(tasksOf[v]) \cap toSet(tasksOf[w]) = {}
  /\ assignedTo \in [Task -> AgentId \cup {NoAgent}]
  /\ nestedIn \in [Task -> WorkflowId \cup {NoWorkflow}]
  /\ \A s, t \in Task : nestedIn[s] = nestedIn[t] /\ nestedIn[s] # NoWorkflow => s = t
  /\ MaxControls \in Nat

VARIABLES
  run,        \* [WorkflowId -> record]: the execution of each, once started
  workflows,  \* the ids in the engine's Map
  controls    \* pauses, resumes and shutdowns so far

flowVars == <<run, workflows, controls>>
workflowVars == <<swarmVars, flowVars>>

freshRun == [pc |-> "none", status |-> "none", todo |-> <<>>, agent |-> NoAgent,
             completed |-> <<>>, failed |-> {}, rolledBack |-> <<>>, result |-> "none",
             cut |-> FALSE]

RunType ==
  [pc : {"none", "before", "loop", "chosen", "task", "nested", "after", "rollback", "settled"},
   status : {"none", "in-progress", "paused", "cancelled", "completed", "failed"},
   todo : Seq(Task),                 \* tasks to do, then ids to roll back
   agent : AgentId \cup {NoAgent},   \* chosen for the task at the head
   completed : Seq(Task),            \* state.completedTasks
   failed : SUBSET Task,             \* tasks behind the errors
   rolledBack : Seq(Task),           \* history: rollbacks run
   result : {"none", "completed", "failed"},
   cut : BOOLEAN]                    \* history: the loop broke off as cancelled

WorkflowTypeOK ==
  /\ run \in [WorkflowId -> RunType]
  /\ workflows \subseteq WorkflowId
  /\ controls \in 0 .. MaxControls

------------------------------------------------------------------------------
(* The order of execution. *)

\* Mutant: a task is ready as soon as one dependency is resolved.
orderRoundEager(ts, resolved) ==
  resolved \o sortByPriority(Subsequence(ts, {k \in DOMAIN ts :
    /\ ts[k] \notin toSet(resolved)
    /\ \/ taskDependencies[ts[k]] = {}
       \/ taskDependencies[ts[k]] \cap toSet(resolved) # {}}))

\* Task.resolveExecutionOrder: rounds of what is ready among what remains, by
\* priority; no task ready while some remain, and it throws.
orderRound(ts, resolved) ==
  resolved \o sortByPriority(Subsequence(ts, {k \in DOMAIN ts :
    /\ ts[k] \notin toSet(resolved)
    /\ taskDependencies[ts[k]] \subseteq toSet(resolved)}))

\* Every round takes a task away, so as many rounds as tasks are enough.
resolveExecutionOrder(ts) ==
  LET resolved[k \in 0 .. Len(ts)] ==
        IF k = 0 THEN <<>> ELSE orderRound(ts, resolved[k - 1])
  IN resolved[Len(ts)]

\* Of each workflow's tasks, which stay the same.
executionOrder == [w \in WorkflowId |-> resolveExecutionOrder(tasksOf[w])]

circular(w) == toSet(executionOrder[w]) # toSet(tasksOf[w])

------------------------------------------------------------------------------
(* A run. *)

unchangedSwarm == UNCHANGED swarmVars

\* executeWorkflow, up to its first await: the run is registered under the id.
begun == [freshRun EXCEPT !.pc = "before", !.status = "in-progress"]

isNested(w) == \E t \in Task : nestedIn[t] = w

StartWorkflow(w) ==
  /\ run[w].pc = "none" /\ ~isNested(w)
  /\ run' = [run EXCEPT ![w] = begun]
  /\ workflows' = workflows \cup {w}
  /\ UNCHANGED <<controls, swarmVars>>

\* The run gives up: the error is caught in executeWorkflow.
thrown(w, rec) ==
  [rec EXCEPT !.pc = IF w \in rollbackOnFailure THEN "rollback" ELSE "settled",
              !.todo = IF w \in rollbackOnFailure THEN Reverse(rec.completed) ELSE <<>>,
              !.agent = NoAgent, !.result = "failed"]

\* The hooks are over, whatever they returned; runWorkflow orders the tasks.
AfterHooks(w) ==
  /\ run[w].pc = "before"
  /\ run' = [run EXCEPT ![w] =
               IF circular(w) THEN thrown(w, @)
               ELSE [@ EXCEPT !.pc = "loop", !.todo = executionOrder[w]]]
  /\ UNCHANGED <<workflows, controls, swarmVars>>

\* The end of runWorkflow: the status is set whatever it was.
FinishRun(w) ==
  /\ run[w].pc = "loop"
  /\ run[w].todo = <<>> \/ run[w].status = "cancelled"
  /\ LET how == IF run[w].failed # {} THEN "failed" ELSE "completed"
     IN run' = [run EXCEPT ![w] = [@ EXCEPT !.pc = "after", !.status = how, !.result = how,
                                            !.cut = run[w].todo # <<>>, !.todo = <<>>]]
  /\ UNCHANGED <<workflows, controls, swarmVars>>

\* The hooks after the run are over, and the promise is resolved.
SettleRun(w) ==
  /\ run[w].pc = "after"
  /\ run' = [run EXCEPT ![w].pc = "settled"]
  /\ UNCHANGED <<workflows, controls, swarmVars>>

\* A task failed: the run throws or notes the error and goes on.
taskFailed(w, rec) ==
  LET noted == [rec EXCEPT !.failed = @ \cup {Head(rec.todo)}]
  IN IF w \in rollbackOnFailure THEN thrown(w, noted)
     ELSE [noted EXCEPT !.pc = "loop", !.todo = Tail(@), !.agent = NoAgent]

taskCompleted(rec) ==
  [rec EXCEPT !.pc = "loop", !.completed = Append(@, Head(rec.todo)), !.todo = Tail(@),
              !.agent = NoAgent]

\* Mutant: after a failure the loop waits instead of going on.
mayTakeUnfailed(rec) == /\ rec.pc = "loop" /\ rec.todo # <<>>
                        /\ rec.status = "in-progress" /\ rec.failed = {}

\* The loop takes the next task, unless it finds the run paused or cancelled.
mayTake(rec) == rec.pc = "loop" /\ rec.todo # <<>> /\ rec.status \notin {"paused", "cancelled"}

\* Its agent is the assigned one or the first that can do the task, free or not.
ChooseAgent(w) ==
  LET t == Head(run[w].todo)
      suitable == {i \in DOMAIN agents : canExecute(agents[i], t)}
      agent == IF assignedTo[t] # NoAgent THEN assignedTo[t]
               ELSE IF suitable # {} THEN agents[first(suitable)].id ELSE NoAgent
  IN /\ mayTake(run[w])
     /\ nestedIn[t] = NoWorkflow
     /\ run' = [run EXCEPT ![w] = IF agent = NoAgent THEN taskFailed(w, @)
                                  ELSE [@ EXCEPT !.pc = "chosen", !.agent = agent]]
     /\ UNCHANGED <<workflows, controls, swarmVars>>

\* The event is stored; only now the coordinator is asked, which may have lost
\* the agent or find it busy.
DispatchTask(w) ==
  /\ run[w].pc = "chosen"
  /\ ExecuteTask(run[w].agent, Head(run[w].todo))
  /\ run' = [run EXCEPT ![w].pc = "task"]
  /\ UNCHANGED <<workflows, controls>>

\* Mutant: a task reported as failed counts as completed.
TaskReportedBlind(w) ==
  /\ run[w].pc = "task"
  /\ exec[Head(run[w].todo)].pc = "ended"
  /\ run' = [run EXCEPT ![w] = taskCompleted(@)]
  /\ UNCHANGED <<workflows, controls, swarmVars>>

TaskReported(w) ==
  LET outcome == exec[Head(run[w].todo)]
  IN /\ run[w].pc = "task"
     /\ outcome.pc = "ended"
     /\ run' = [run EXCEPT ![w] = IF outcome.result = "completed" THEN taskCompleted(@)
                                  ELSE taskFailed(w, @)]
     /\ UNCHANGED <<workflows, controls, swarmVars>>

\* A nested workflow is an executeWorkflow of its own, registered like any other.
StartNested(w) ==
  LET n == nestedIn[Head(run[w].todo)]
  IN /\ mayTake(run[w])
     /\ n # NoWorkflow
     /\ run' = [run EXCEPT ![w].pc = "nested", ![n] = begun]
     /\ workflows' = workflows \cup {n}
     /\ UNCHANGED <<controls, swarmVars>>

NestedReported(w) ==
  LET n == nestedIn[Head(run[w].todo)]
  IN /\ run[w].pc = "nested"
     /\ run[n].pc = "settled"
     /\ run' = [run EXCEPT ![w] = IF run[n].result = "failed" THEN taskFailed(w, @)
                                  ELSE taskCompleted(@)]
     /\ UNCHANGED <<workflows, controls, swarmVars>>

\* rollbackWorkflow: an onRollback that throws is noted, and the next is run.
RollbackTask(w) ==
  /\ run[w].pc = "rollback" /\ run[w].todo # <<>>
  /\ LET t == Head(run[w].todo)
     IN run' = [run EXCEPT ![w].todo = Tail(@),
                           ![w].rolledBack = IF t \in hasRollback THEN Append(@, t) ELSE @]
  /\ UNCHANGED <<workflows, controls, swarmVars>>

\* Those of the tasks that have an onRollback.
withRollback(ts) == Subsequence(ts, {k \in DOMAIN ts : ts[k] \in hasRollback})

RolledBack(w) ==
  /\ run[w].pc = "rollback" /\ run[w].todo = <<>>
  /\ run' = [run EXCEPT ![w].pc = "settled"]
  /\ UNCHANGED <<workflows, controls, swarmVars>>

------------------------------------------------------------------------------
(* Control. *)

setStatus(w, from, to) ==
  /\ w \in workflows
  /\ run[w].status = from
  /\ run' = [run EXCEPT ![w].status = to]

PauseWorkflow(w) ==
  /\ controls < MaxControls /\ controls' = controls + 1
  /\ setStatus(w, "in-progress", "paused")
  /\ UNCHANGED <<workflows, swarmVars>>

ResumeWorkflow(w) ==
  /\ setStatus(w, "paused", "in-progress")
  /\ UNCHANGED <<workflows, controls, swarmVars>>

\* shutdown: what is in progress is cancelled, what is paused is not; the Map is
\* emptied, and no control reaches these runs any more.
ShutdownEngine ==
  /\ controls < MaxControls /\ controls' = controls + 1
  /\ run' = [w \in WorkflowId |-> IF w \in workflows /\ run[w].status = "in-progress"
                                  THEN [run[w] EXCEPT !.status = "cancelled"] ELSE run[w]]
  /\ workflows' = {}
  /\ UNCHANGED swarmVars

------------------------------------------------------------------------------
WorkflowInit ==
  /\ SwarmInit
  /\ run = [w \in WorkflowId |-> freshRun]
  /\ workflows = {}
  /\ controls = 0

\* What a started run does by itself.
RunStep(w) ==
  \/ AfterHooks(w) \/ FinishRun(w) \/ SettleRun(w)
  \/ ChooseAgent(w) \/ DispatchTask(w) \/ TaskReported(w)
  \/ StartNested(w) \/ NestedReported(w)
  \/ RollbackTask(w) \/ RolledBack(w)

\* What the engine's methods and runs do; the rest of the system is the swarm's.
EngineNext ==
  \/ \E w \in WorkflowId : \/ StartWorkflow(w) \/ RunStep(w)
                           \/ PauseWorkflow(w) \/ ResumeWorkflow(w)
  \/ ShutdownEngine

WorkflowTasks == UNION {toSet(tasksOf[w]) : w \in WorkflowId}

\* What others do with the swarm: a workflow's tasks are the engine's alone.
OthersNext ==
  \/ Membership
  \/ \E t \in Task : TaskEnds(t)
  \/ \E a \in AgentId, t \in Task \ WorkflowTasks : ExecuteTask(a, t)
  \/ \E ts \in Batch : toSet(ts) \cap WorkflowTasks = {} /\ ExecuteTasksConcurrently(ts)

WorkflowNext == EngineNext \/ (OthersNext /\ UNCHANGED flowVars)

WorkflowSpec == WorkflowInit /\ [][WorkflowNext]_workflowVars

\* A started run goes on by itself, and what a task awaits comes to an end.
WorkflowFairness ==
  /\ \A w \in WorkflowId : WF_workflowVars(RunStep(w))
  /\ \A t \in Task : WF_workflowVars(TaskEnds(t) /\ UNCHANGED flowVars)

------------------------------------------------------------------------------
(* Properties. *)

\* A task is taken up only after each of its dependencies has completed, or has
\* failed in a run that goes on after failures: with rollbackOnFailure, only
\* after all have completed.  Pauses, nested runs and lost agents included.
TasksInOrder ==
  \A w \in WorkflowId :
    LET taken == toSet(run[w].completed) \cup run[w].failed
                 \cup (IF run[w].pc \in {"chosen", "task", "nested"} THEN {Head(run[w].todo)}
                       ELSE {})
        over == toSet(run[w].completed)
                \cup (IF w \in rollbackOnFailure THEN {} ELSE run[w].failed)
    IN \A t \in taken : taskDependencies[t] \subseteq over

\* The result of a run is true: completed means that every task completed at its
\* agent, unless shutdown cut the run off; and a run that rolls back undoes what
\* completed, each task once, the last one first, while none of its tasks runs.
ResultTrue ==
  \A w \in WorkflowId :
    LET undone == withRollback(Reverse(run[w].completed))
    IN /\ \A t \in toSet(run[w].completed) :
            IF nestedIn[t] = NoWorkflow THEN exec[t].result = "completed"
            ELSE run[nestedIn[t]].result = "completed"
       /\ run[w].result = "completed" /\ ~run[w].cut
            => toSet(run[w].completed) = toSet(tasksOf[w])
       /\ IsPrefix(run[w].rolledBack, undone)
       /\ run[w].pc = "rollback" => \A t \in toSet(tasksOf[w]) : exec[t].pc # "running"
       /\ run[w].pc = "settled" /\ run[w].result = "failed" /\ w \in rollbackOnFailure
            => run[w].rolledBack = undone

\* A workflow that is started ends, whatever becomes of its agents, if no run is
\* left paused for ever; a run paused when the engine shuts down is.
WorkflowsEnd ==
  (\A w \in WorkflowId : <>[](run[w].status # "paused"))
    => \A w \in WorkflowId : run[w].pc = "before" ~> run[w].pc = "settled"
=============================================================================
