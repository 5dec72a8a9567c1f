# Verification of omni-link-hustlexp

TLA+ models of omni-link (`src/engine`, `src/mcp`), the TLC configurations that
check them on small instances, and TLAPS proofs of the most important results for
all instances. Paths below are relative to `src/` unless
they name a module.

## 1. The system

omni-link is a command line (and library) that scans a set of local git
repositories, builds one graph of them, reviews a pair of git refs under
policies, stores the review, publishes it on a pull request and, when every gate
is open, creates branches for a generated plan. Each invocation is one process;
processes share only files, git repositories and the hosting service. A second,
in-process part ("ruflo") coordinates plugins, workflows and agents.

| Component | State it keeps | Operations | Talks to | What is hard | What makes it correct |
|---|---|---|---|---|---|
| Bounded execution (`engine/execution`) | branches of the affected repositories, local and at origin; pull requests | apply, rollback | git, GitHub; shares repositories with the developer and other commands | every git command may fail or meet another process's half-done work; kills; retries | branches only for permitted plans in affected repositories; reports are true; a worktree never loses its branch; every command ends |
| Policy gates (`engine/policy`, parts of `review` and `execution`) | none | evaluatePolicies, risk merging, pre-flight conditions | called by review and apply | evaluated twice with different options, at another time than used | what is shown agrees with the verdict; a blocked plan is never executed |
| Control plane (`engine/index.ts`, `engine/review`) | latest artifact, snapshots by (configuration, branch signature, refs) | review-pr, apply, rollback, publish-review | scanner/daemon, git, execution, publishing | files rewritten in place by several processes; stale reuse | apply executes a plan for the refs asked for; snapshots are filed under what they were computed from; applied plans stay known |
| Review publishing (`engine/providers`) | metadata snapshots on disk; comments, check runs and statuses at the host | negotiate, publish | GitHub, GitLab | list-then-write at a remote service; lost answers; fallbacks; freshness | one marked comment, which says what the last publish said; nothing published on a pull request known to be over |
| Warm state (`engine/daemon`) | SQLite file: the state row and snapshots | watch, update, save, load | scanner, file system events | overlapping asynchronous flushes; whole-file rewrites; kills; torn files | what is served has the commits and changed files the command saw; every change is followed by a scan |
| Scanner and manifest cache (`engine/scanner`, `engine/context/cache-manager.ts`) | cached manifests by (repository, branch, commit) | scanRepo, pruneOld, invalidate | git, file system | files and git state are read at different times | a cached manifest describes the commit it is filed under |
| Graph and impact (`engine/grapher`, `engine/graph`) | none | buildEcosystemGraph, analyzeImpact | scanner output | cycles, fan-out | the impact set is the reachable set |
| Authority and bridges (`engine/authority`, `engine/bridges`) | none | extract, compare | docs, Swift and TypeScript text | text processing | drift is found |
| Configuration (`engine/config*.ts`, `engine/workflows`) | none | loadConfig, the profile, parseConfig | read once by every command | three layers of defaults | the file's values win but for what the profile forces; applying the profile again changes nothing but the ownership rules it appends |
| Quality gate and health scores (`engine/quality`) | none | qualityCheck, scoreEcosystemHealth | manifests | paths between repositories, line scans, arithmetic | what is reported is there; a repository that is no worse does not score lower |
| Evolution (`engine/evolution`) | none | analyzeEvolution | manifests | merging, limits, two judges of one manifest | no finding is lost; the two judges agree |
| Context (`engine/context`, `engine/ruflo/context`) | none | prune, format, optimize | the graph | running totals under a budget | the result fits; what has value goes last |
| Ownership and signals (`engine/ownership`, `engine/runtime`) | none | resolve owners, collect and attach signals, rank | artifacts of test runs, coverage, telemetry | absent and unreadable artifacts; overwritten scores | a matching rule's owner is an owner; risk follows severity |
| Plugins (`engine/ruflo/infrastructure/plugins`) | loaded plugins, extension points | load, unload, reload, shutdown, invoke | plugin code, awaited | interleaving at awaits | dependencies of a loaded plugin are loaded |
| Workflows (`engine/ruflo/task-execution`) | running workflows, task states | start, pause, resume, shutdown, rollback | coordinator, agents | control calls during an awaited task | dependencies first; results are true; every run ends |
| Swarm and agents (`engine/ruflo/coordination`, `agent-lifecycle`) | agents, connections, loads | spawn, terminate, distribute, execute, scale | memory, plugins | termination during a task | one task at a time per agent, counted once; connections join agents |
| Memory and learning (`engine/ruflo/memory`, `coordination/SelfLearningLoop.ts`) | two in-memory stores | store, update, delete, clear, search, record and mark findings | each other | two writes one after the other, read-modify-write | both stores agree; a search finds what is there |
| Message bus (`mcp/communication-bus/server.py`) | one JSON-lines file | send, read, clear | several server processes | read-modify-write of a shared file | what is sent and not cleared is kept, in order |

## 2. The modules

| Module | What it is |
|---|---|
| `Policy` | the gates as operators over a configuration record; no state |
| `Execution` | apply and rollback, one action per git command, several processes, the developer, the network, kills |
| `PlanBranches` | what a command promises of the repositories it deals with and of its report, which `Execution` implements |
| `ControlPlane` | review / apply / rollback over the artifact store, one action per file access |
| `Manifests` | what a scan knows of a repository, and the two branch signatures, as operators |
| `WarmState` | watch loop, loads, saves and scans over the one SQLite file and the manifest cache, one action per await |
| `Publish` | publishing a review on one pull request at GitHub or GitLab, one action per request |
| `Plugins` | the plugin manager, split where plugin code is awaited |
| `Swarm` | agents, connections, metrics and tasks in flight |
| `Workflow` | workflow runs over `Swarm`, one action per await of the run loop |
| `Memory` | the hybrid backend, its searches and the learning loop |
| `MessageBus` | the message file and its server processes |
| `Grapher`, `Bridge`, `Context`, `Quality`, `Health`, `Evolution`, `Config`, `Signals` | what the analysis computes of manifests and files, as operators, with an action that runs it |
| `MCExecution`, `MCControlPlane`, `MCWarmState`, `MCPublish`, `MCRuflo`, `MCAnalysis` | the instances TLC checks |
| `Subsequences`, `Reductions` | what `filter` does to an array, by the positions it keeps, and what `reduce` and `flatMap` make of one |
| `Execution_proofs`, `ControlPlane_proofs`, `Publish_proofs`, `WarmState_proofs` | theorems with TLAPS proofs about the module they extend; `ControlPlane_proofs` also about `Config` and `Bridge`, whose results the control plane goes by |
| `Ruflo_proofs` | the same for `Plugins`, `Memory` and `MessageBus` |
| `Workflow_proofs` | the same for `Swarm` and, over it, `Workflow` |
| `Analysis_proofs` | the same for `Grapher`, `Context`, `Signals`, `Health`, `Evolution` and `Quality` |
| `Lemmas` | a set of naturals has a least element, a bounded one a greatest; what holds of the first round and passes from one to the next holds of the last; a subsequence keeps its members and their order: what the proofs use in place of induction |

### Execution

`local`, `remote`, `head`, `dirty`, `online` and `prs` are the repositories, their
origins and the host; `run[p]` is one invocation: its program counter, the
repository in hand, those still to do (`affectedRepos`, taken in any order:
the code takes configuration order, so the model allows more), and the result
object (`report` is what `branches` and `ledger` say, `warned` stands for
`warnings`). Every `execFileSync('git', ...)` whose outcome another process can
change between it and the next is one action; the two questions that decide an
early `continue` (`worktreeDirty`, `baseBranchExists`) are one, `Inspect`, and
so is the check of the current branch with the checkout it decides, `LeaveBranch`.
The checks and the command are separate where the race matters: `BranchExists`
and `CreateBranch`, `FindBranch` and `DeleteBranch`. A failing git command goes
where the code's `catch` goes. git itself (branch refuses an existing name,
`branch -D` refuses a checked-out branch, checkout may refuse a dirty tree, push
needs the remote) is modelled from how the code uses it. `gh pr create` runs in
the current directory; the model takes that to be the plan's only repository.

`PlanBranches` leaves out the git commands, the checks, the worktrees, the network
and the queue of repositories. A command has one repository in hand and is in one of
five phases; `Branch` and `Withdraw` change the local branch, `Publish` and
`Unpublish` the origin's together with the telling of it, `GiveUp` tells of a
repository in which nothing was changed, and `End` asks that every affected
repository was told of. `phaseOf` and `workOf` map a run to it. It would not
allow a loop that breaks off at the first failure, a report without the change or a
change without the report, an origin's branch deleted although the local deletion was
refused, or a failed push without a warning.

### ControlPlane

`latest` and `snapshots` are the artifact files; `fs.writeFileSync` truncates and
then writes, two actions, so that a reader or a kill in between finds a file
that does not parse (`NoArtifact`). `proc[p]` is an invocation with what it has
read so far: the configuration (read once, at the start), what its scan saw, the
artifact in hand. `Compute` is the rest of `reviewPr` between the snapshot lookup
and the save; it takes the findings and owners from the scan and the risk from
the git refs as they are at that moment, as the code does. `Develop` is
everything the developer does to the workspace and the configuration. Execution
and undoing are one step here; module `Execution` has their git commands. The
plan id is `Date.now()` in the code and a counter here: two plans generated in
one millisecond are not modelled. `disturbed` is history: whether two commands were
ever under way at once, or one was killed.

A tree's findings (`Facts`) and its branch signature (`Sig`) are constants. Two
trees may share a signature, because `branchSignatureFromManifests` covers head
commits and the names of dirty files, not their contents.

### Policy

`evaluatePolicies` is the set of its decisions. Owner lists, levels and switches
are configuration fields; the number behind a risk level (`scoreRisk`) is an
input. `PlanKind` are the kinds `changePlansFromGraph` can produce; the only
kind the code counts as destructive is not among them, so the destructive gate
can never fire: a reading of the code that the proofs of `ControlPlane` use.

### Manifests and WarmState

A repository is a commit (`Head`: branch and sha) with an uncommitted edit, or
`Gone`. A manifest is a pair: what the files were when they were walked, and
what git said afterwards; the two can differ, since a scan awaits in between.
`branchSignature` is computed from manifests and `currentBranchSignature` from
the repositories, by different code: the first gives an unavailable repository
empty fields and lists a file once, the second says `unknown` and lists a partly
staged file twice (`Split`). One configuration, so its hash is left out of keys.

`task[t]` is an asynchronous activity with its program counter and what it read:
a command (`load` for loadScanResult, `once` for `watch --once`, `refresh` for
refreshDaemonState) or, in the watching process, the `initial` scan and each
`flush`, whose second save comes under kind `marked`. A scan takes each
repository through `ResolveRoot`, `AskCache`, `Walk` and `ReadGit`; the awaits
within one of these are taken together. `db` is the file: `Open` reads it whole
and changes the copy, `Truncate` and `Write` put the copy back. `watching`,
`pending`, `dirtyRepos` and `timers` are the variables of watchEcosystem and its
outstanding timeouts; `unseen` is history, for `EveryChangeScanned` only. A
failing scan does three different things: `loadScanResult` saves what the other
repositories gave (allSettled), a refresh fails whole (Promise.all), and a flush,
called with `void`, takes the process down. The legacy state is the JSON file
beside the store; a JSON file under the store's own name is migrated by the same
writes and is left out, as are commands with `preferDaemon` off, which start at
their scan.

### Publish

`pr`, `known`, `comments`, `checks` and `statuses` are the host; a comment is
`Other` or the review it shows, and a review is known by the commit that was
checked out when it was made (`Verdict` gives its conclusion). `pub[p]` is an
invocation of publish-review: the review, the target's sha and the branch
signature (`key`), both taken after the review, the metadata negotiated, the
comment found and the two records of its result. `snapshots` are the metadata
files by signature; the code keeps the time of the fetch, the model whether it
is less than a minute ago, and `Minute` ends the minute. `setting` is the
configuration with what the token may do. A request fails without effect
(`Unreachable`), succeeds, or takes effect and loses its answer; a failing write
rejects the whole command, a failing fetch of metadata only leaves it unknown.
GitLab differs in the order of its listing, in its status names and in having no
check runs. Closed and locked pull requests are skipped alike, so `closed` stands
for both; the answer to a fetch is saved as soon as it is given.
`late`, `overSince` and `overlap` are history for the properties. A setting names
its provider and three switches; a bound is one of the records `Left`.

### Plugins, Swarm, Workflow, Memory, MessageBus

In-process asynchronous code runs from one `await` to the next without anything
in between, so an action is such a stretch. `Plugins` has calls (`pluginCall[c]`)
that wait for a plugin's `shutdown` (`stopping`), for its own next microtask
(`unloaded`) or for `initialize` (`starting`); `plugins` is the Map in insertion
order and `handlers` counts what is registered under each id. The plugin objects
keep their extension points in `ownPoints`, which a repeated `initialize` extends.
An invocation has in `left` the handlers it has still to run, as it copied them; it
takes one of the highest priority, any of those that tie (the code takes the one
registered first, so the model allows more).
In `Swarm` an agent object has a number, `obj`, because an id can be spawned again
while a task of its first holder is still running; `exec[t]` is the execution of a
task. Batches are assigned in the code's order (`sortByPriority`, least loaded
agent first). `connections` is a set: the code keeps a list, of which nothing reads
the order and only a state report the length. `Workflow` EXTENDS `Swarm`: `run[w]` is an execution, nested
workflows included, and `RunStep` its loop, from the choice of an agent through
the task's report to the rollback; `PauseWorkflow`, `ResumeWorkflow` and
`ShutdownEngine` change the status meanwhile. The order of a workflow's tasks is
found in rounds, as in `Task.resolveExecutionOrder`; a task that is in no round
makes it `circular`. `WorkflowAssumption` says that a task is in one workflow, once,
and that a workflow is nested in one task at most (an execution is known by its
workflow), and `OthersNext` that the tasks of workflows are given to the coordinator by the
engine alone. `Memory` has the two stores and the
calls between their writes; `similarity` orders the memories for a search, and a
version number tells contents apart. A deletion and a clearing remove from each store
what that store has: `clearAgent` goes by the owner each copy names, so a copy may
outlive the other, and `unembedded` keeps such an id until neither store has it.
`MessageBus` is processes over one file:
appending is one write, a rewrite reads, truncates on opening and writes on
closing, at the start of the file, over what others appended since. Memories of
equal similarity stay in insertion order in the code; `similarity` orders all
memories, so that a tie is one of its orders.
`crossed`, `mixed`, `unembedded`, `kept` and `collided` are history.

### Grapher, Bridge, Context, Quality, Health, Evolution, Config, Signals

These parts are functions. Their module translates them operator by operator
under the code's names, and has one variable that goes from the input to the
result: in one step where nothing can be observed in between, in several where
the code loops and the loop has an invariant of its own (`TrimItem` and
`NextPhase` of the pruner, the reductions of the digest, the stages of
`Signals`). What is text in the code is reduced to what the functions tell apart:
a manifest has files, types and mentions; a line of source is a record of the
tokens the regular expressions look for, its net braces and its text as a value
to compare (`Quality`); a router's line has a key, whether a handler follows and
its brackets of three kinds (`Bridge`); sections and lines have costs in tokens (`Context`); a
pattern is the set of names it matches, and weights are in thousandths
(`Signals`); a section of the configuration is a switch and one further value, the
ownership rules are a list of their own (`Config`), with one of the texts `ConfigText` for a value; what the schema refuses
is `"bad"`. Regular expressions are not modelled.

The properties do not repeat the functions. They state what the result means in
other terms: impact against the least set of files that a chain of dependencies leads from (`Grapher`),
the reported differences against the sets of what is called, served and
documented (`Bridge`), the budget and the order of loss (`Context`), module
resolution against the list of files (`Quality`), repositories against each other
(`Health`), every finding against the suggestions (`Evolution`), the file's values against the configuration
(`Config`), the matching rules against the owners (`Signals`).

## 3. The runs

| Run | Instance | Shows |
|---|---|---|
| `execution_seq` | one command at a time, two repositories (one without a remote), two plans, one kill, network failures | reports are true until the next command (`ReportTrue`), a rollback fails only on a dirty tree or a missing base (`RollbackFailsOnlyDirty`), a failed push is made up for by retries (`RetryPublishes`), and so is the pull request it kept from being opened (`RetryOpens`), every command ends (`CommandsEnd`) |
| `execution_race` | two commands, two plans of which one is permitted, one repository, an interfering developer, one kill | `Bounded`, `HeadExists`, and that each command deals with every affected repository once, as a whole or not at all, and tells of it (`Implements`) |
| `execution_orphan` | as `execution_seq` | VIOLATED: after a kill between the two deletions, the repeated rollback leaves the remote branch and says nothing |
| `control` | two modes, chosen at the start: one command at a time, two trees of one signature, two configurations (strict and reconciliation); or two commands (symmetric) and a kill, a clean and a drifted tree. Two pairs of refs, three plans | applied plans can be found in the store and rollback acts on the newest plan (`StoreServesRollback`, until commands overlap or one is killed), the decisions shown agree with the verdict (`ReviewMatchesPlan`), `BlockedNeverApplied`, `AppliesRequestedRefs`, `SnapshotsFiledRight` |
| `control_drift` | one command, clean and drifted trees | VIOLATED: apply reuses the latest artifact by its ref names while there is drift |
| `warm_state` | one repository, clean, edited or gone; three scenarios in one run: the watch loop alone with two flushes, two changes and a fault; a command beside it with one change, or one fault; two commands with a fault. It starts from a legacy file | what is served has every repository, at the commit and with the changed files the command saw (`ServedComplete`), a change the loop was told of is scanned (`EveryChangeScanned`), commands come to be served whatever the file went through (`EventuallyWarm`) |
| `warm_cache` | as `warm_state` | VIOLATED: the manifest of a dirty tree is served for the clean one |
| `publish_host` | one pull request, two commits, five settings over both providers, a page of two comments; one publisher with a fault and two events around it, or two that may overlap with one event | there is one comment and it and the check say what the command reported (`ReviewShown`: `OneComment` and `PublishedAgrees`), `NoLatePublish`, and that the review of the present head lands (`PublishLands`) |
| `publish_reopened` | one publisher, a pull request closed and reopened | VIOLATED: the stored metadata of the closed pull request is used for ever |
| `ruflo` | one of five parts, chosen at the start. Plugins: four objects, two of one id, versions and dependencies, two overlapping calls, four in all. Swarm: two ids, two kinds of agent, three tasks in a batch and one alone, two spawns, one change of topology. Workflow: a workflow of three tasks with rollback whose last is a nested workflow of two, over such a swarm, one control call. Memory: three memories, two owners, two overlapping calls, three in all. Bus: two servers, two recipients and broadcast, two messages, one kill | a handler belongs to a loaded plugin and dependencies are loaded first (`PluginsLinked`), shutdown leaves nothing (`ShutdownEmpties`); an agent runs one task, the metrics count it, batches are spread (`TasksAccounted`); connections join agents (`Connected`); tasks follow their dependencies (`TasksInOrder`), results are true (`ResultTrue`), workflows end (`WorkflowsEnd`); stores agree, searches find, the report is monotone (`MemoryConsistent`); messages are kept in order (`SentIsKept`) |
| `analysis` | one of eight parts and one input of it, chosen at the start: some 90,000 inputs, described in `MCAnalysis` | `GraphExplained`, `BridgeReconciled`, `ContextFits`, `QualityTrue`, `HealthFair`, `EvolutionSound`, `ConfigSound`, `SignalsSound` |
| `risk` | the inputs of `analysis` | VIOLATED: the review says that signals increased the priority of a mismatch whose score they lowered (`SignalsIncreasePriority`) |

Bounds: two repositories are enough for one to succeed and one to fail; two
plans for one to be refused and for a single- and a multi-repository plan; two
processes for every pairwise race; one kill for every point at which a command
can be cut off, since a second kill starts from a state the first or a refused
command can produce. `MaxPlans` bounds how many reviews generate a plan (three
let a plan be applied, replaced and found again); `MaxCrashes` bounds kills.
In `WarmState` the bounds are scenarios (`Bounds`: how many changes and faults,
which commands and flushes): the full product does not fit, and the scenarios
keep each pair of writers. Two changes let one come while a flush of the other
runs; one repository is enough for a scan that fails to leave a state that lacks
it. Commands are not bounded: they start again and again. One commit is enough,
since a signature separates commits and dirty trees alike. The watch loop alone
may wait for ever, so deadlock is not checked there.
In `Publish`, `PageSize` stands for the code's 100 and `MaxComments` keeps the
list finite beyond it: a page of two holds another's comment and the marked one,
and three comments overflow it. Two events let a pull request be closed and
reopened, or a commit be followed by its push.
In `MCRuflo`, the parts share no state (but workflows and the swarm), so nothing
is lost by running one at a time. Two overlapping calls meet at every await; four
plugin calls load two plugins that depend on each other, and take one away in the
middle of another's load. Two spawns replace an agent under a running task. Three
memories are one more than the 2k a search fetches for k = 1. Two messages and two
servers let a send, a read and a clear meet in any pair.
In `MCAnalysis` the inputs are complete over small universes where that fits (all
dependency relations of three files, all types of up to two fields, all sets of
called, served and documented procedures, all sequences of a few kinds of lines)
and chosen at the limits of the code's numbers elsewhere.
`control*`, `ruflo`, `analysis` and `risk` may stop: at the bound of plans or of
calls, or with the result. Deadlock is not checked there.

### Fairness

`CommandsEnd`, `RetryPublishes` and `RetryOpens` use weak fairness of each process's `Step`:
the loops are synchronous code that does not wait for another process, and the
`execFileSync` calls return. Nothing is assumed of the developer, the network or
of commands being started: `RetryPublishes` and `RetryOpens` take "apply is run again and
again" and "the origin stays reachable" as hypotheses. That a request stays open once
opened is the host's doing, which closes one only when its head is deleted.

`EveryChangeScanned` and `EventuallyWarm` use weak fairness of each task's steps
and of the timeouts: the event loop runs what is ready, and the file and git
calls of a scan return (git has a timeout). `EventuallyWarm` takes as hypotheses
that the repositories come to rest in a state with a findable signature
(`Reusable`) and that no one else keeps writing the store: while another process
is between truncating and writing, a load finds nothing, and two commands can in
principle do that to each other for ever.

`PublishLands` uses weak fairness of a started command's steps; that commands are
run, the host is reachable and the pull request stays open are its hypotheses.

`WorkflowsEnd` uses weak fairness of each run's steps and of the end of each
task: the event loop runs what is ready, and an agent's work returns. A paused
run that nobody resumes is excepted, by its hypothesis and not by fairness.

## 4. What is proved

The proofs hold for every value of the constants that satisfies the assumptions of
their module, which TLC also evaluates. The assumptions type the constants and keep
the markers (`None`, `NoArtifact`, `NoMemory`, `Unset`, ...) apart from what they
mark; nothing is assumed of sizes, bounds or inputs beyond what is said below.

| Theorem | States | Under |
|---|---|---|
| `Execution_proofs`: `TypeCorrect`, `BoundedCorrect`, `HeadCorrect`, `ImplementsCorrect` | `TypeOK`, `Bounded`, `HeadExists`, the refinement of `PlanBranches` | nothing: any interleaving, any faults and kills |
| `ReportCorrect`, `OneReportCorrect` | `ReportTrue` | `[]Apart`: commands that are not idle have different plans; or one process |
| `RollbackCorrect` | `RollbackFailsOnlyDirty` | `[]Apart`, and no interfering developer |
| `ControlPlane_proofs`: `TypeCorrect`, `BlockedCorrect`, `FiledCorrect`, `RefsCorrect`, `ShownCorrect` | `TypeOK`, `BlockedNeverApplied`, `SnapshotsFiledRight`, `AppliesRequestedRefs`, `ReviewMatchesPlan` | nothing |
| `ServesCorrect` | `StoreServesRollback` | nothing; the property says `~disturbed` itself |
| `Publish_proofs`: `TypeCorrect`, `NoLateCorrect`, `ShownCorrect` | `TypeOK`, `NoLatePublish`, `ReviewShown` | nothing; `ReviewShown` speaks of commands that do not overlap and of one page of comments itself |
| `WarmState_proofs`: `TypeCorrect`, `ServedCorrect`, `NoChangeLostCorrect` | `TypeOK`, `ServedComplete`, `NoChangeLost` | nothing |
| `Ruflo_proofs`: `PluginsTypeCorrect`, `LinkedCorrect`, `ShutdownCorrect` | `PluginsTypeOK`, `PluginsLinked`, the action property `ShutdownEmpties` | nothing; order and shutdown say `~crossed` themselves |
| `MemoryTypeCorrect`, `ConsistentCorrect` | `MemoryTypeOK`, `MemoryConsistent` | nothing; the property says `~mixed` itself |
| `BusTypeCorrect`, `BusKeeps` | `BusTypeOK`, `SentIsKept` | nothing; the property says `~collided` itself |
| `Workflow_proofs`: `SwarmTypeCorrect`, `SwarmAccounts`, `SwarmConnected` | `SwarmTypeOK`, `TasksAccounted`, `Connected` | nothing; a batch has no task twice |
| `WorkflowTypeCorrect`, `OrderCorrect`, `ResultCorrect` | `WorkflowTypeOK`, `TasksInOrder`, `ResultTrue` | nothing beyond `WorkflowAssumption`: any dependencies, circular ones too, any control calls, any swarm beside it |
| `ControlPlane_proofs`: `SoundCorrect` | `ConfigSound` | nothing: any file of the shape `isConfigFile` |
| `ReconciledCorrect` | `BridgeReconciled` | nothing: any routers, calls and documents |
| `Analysis_proofs`: `SearchFindsDependents`, `GraphCorrect` | the search for dependents, `GraphExplained` | nothing: any finite set of files, any manifests |
| `ContextCorrect` | `ContextFits` | nothing: any costs, budgets, parts and texts; a label tells one text from another |
| `SignalsCorrect` | `SignalsSound` | `SettingAssumption`: repositories have different ids, what refers to one refers to a known one, and test and operation counts are not negative; any rules, artifacts, risks and suggestions |
| `HealthCorrect` | `HealthFair` | `PortfolioType`: counts are natural numbers and a reported coverage is a percentage |
| `EvolutionCorrect` | `EvolutionSound` | `EvolvingType`: a manifest lists what it holds, the limit is a number |
| `QualityCorrect` | `QualityTrue` | `ProposalType`: the lines of a text are in order, there is a repository, paths in manifests have no `.` for a directory, and the parts of a name are set off by nothing or an underscore |

`Execution_proofs`: the inductive invariant is type correctness with, for each
process, what it knows at its program counter (`RunOK`): an apply past the gates
has a permitted plan, and its repository is affected. `Bounded` and `HeadExists` are
not inductive by themselves: `CreateBranch` relies on the gate checked at the start of
the command. Each step's effect on the repositories is first classified (created,
published, deleted, unpublished, opened, switched, untouched; lemma `EveryChange`).
The refinement of `PlanBranches` needs in addition `AllTold`: a repository has no report
exactly while it is still to do or in hand, so that a run at the end of its loop
has told of all of them, and `Begin`, `Take` and `GiveUp` can be shown step by step.
For reports the invariant is `ReportInv`: besides that what is reported is true, that
a repository still to do or in hand has no report and no warning yet, that the plan's branch is
local from its creation or finding until it is pushed or deleted, that it is gone before it
is deleted at the origin, and that no repository without an origin has anything
there. `Apart` is all the theorem needs of concurrency, since a step touches only the
branches of its own plan (`StepTouches`): two commands on one plan do make each other's reports
untrue. `OneReportCorrect` has no hypothesis on the behaviour.

`ControlPlane_proofs`: typing needs that an artifact in hand at `execute` exists,
so the first inductive invariant is `TypeOK`, what a command holds at each step
(`HoldsOK`) and `SnapshotsFiledRight` together: a snapshot hit gives apply an
artifact for the right refs only because snapshots are filed right, and they are
filed right only because of what a saving command holds. The second
(`Verdicts`) adds that a plan id names one artifact wherever it was copied
(`PlanIdsUnique`): without it, executing one artifact could create the branches
of another that is blocked. Lemma `StepCopies` shows that every step but
`Compute` only copies artifacts. Lemma `ShownDecisions` relates the two
evaluations of the policies for every configuration. The third (`ServesOK`) says what
holds of the store while nothing disturbed it: one command at a time, nothing filed yet
under the key it computes and saves for, the latest artifact the newest plan and filed whenever no save is under way.

`Publish_proofs`: the invariant has what a run holds at its step (`HoldsOK`), that
commands which never overlapped leave one run that is not idle (`OneRun`), how old a
snapshot can be when the pull request has been over for a minute (`OverOK`), and what
a run about to write knows of the comments and the checks (`CommentsOK`, `ChecksOK`): the
existing comment it found is still the only one with the marker. `NoLatePublish` rests on `OverOK`: a fresh
snapshot of an open pull request cannot outlive the minute.

`WarmState_proofs`: the invariant is what a task holds at its step (`HoldsOK`). That
a served state answers the command rests on `SignatureAnswers`, a fact about the two
functions that compute a signature: the one of the repositories as they were seen is
equalled by no state that lacks a repository, has one without git, or has one at another
commit or with other changed files, so whatever was saved of failing scans is never
found. What the walk found is not part of it: a directory that goes missing
during the walk gives a manifest without files (`scanner/index.ts:458-461`), and if its git
answers again by the end, that manifest is saved and served like any other. `NoChangeLost` is the safety core of
`EveryChangeScanned`: a change the loop was told of is pending with a timeout
outstanding, or a flush has yet to turn to the repository, through overlapping
flushes and changes during them. That the timeout fires and the flush goes on is
fairness and stays with TLC.

`Memory`: the invariant says, for calls that never overlapped (`MemorySerial`), that
one call at most is under way, that the first store has what its second write will
bring, and that the stores differ in that memory only; with the finiteness of what is
stored, which the search needs to have a best. This invariant failed at first,
and TLC then confirmed it with one more call than the run allows: `unembedded`
forgot an id as soon as one store lost it, while `clearAgent`, going by the owner each
store has, can leave the other's copy. The history variable is corrected (see
`Memory` above). `FixLowers` is proved for every set of findings.

`Plugins`: with each call that waits, the invariant keeps what it checked
before it waited (`RecordOK`): nobody depends on the plugin whose shutdown is awaited,
what a starting plugin depends on is loaded, and a shutdown has in front of it exactly
the ids of what is left of the Map, last first (`Backwards`). `PluginsLinked` needs the ids in the Map to be
different (`Unique`), since one is found by its id; handlers belong to loaded plugins
under any overlap, the rest holds until calls overlap.

`Config`: a command reads its files once, so the invariant is the property
itself with what is known before (`Asked`), and the work is in the functions. They
are treated section by section: `OverlaidAgain` (laying a section over another is
idempotent, also through two layers of defaults), `NamedStays` (the profile leaves
what the file gives, but for what it forces), `SilentSection`, `ProfileSaysGood` and
`BadIsTheFiles` (neither the profile nor a default is refused by the schema),
`SectionSettles` and `LoadedSettles` (the profile and the schema applied to their own
result change nothing in a section). The list of ownership rules does not settle: `unique`
compares by identity, a parsed rule is a new object, and so the profile's rules are
appended once more at each application, which is what `ProfileSettles` says. `infer` finds the first repository by
`LeastElement`.

`MessageBus`: until something collided, at most one server is in a rewrite, what
it read and will write back are exactly the messages kept (`Holds`), and the file is
empty just between its truncation and its write. That a message is in the file once
rests on messages being numbered as they are sent. Reading rewrites the lines
with their flags, clearing and the history take the same subsequence (`ClearMessages`).

`Swarm`: `BusyRunsOne` is not inductive. What makes it so (`TaskInv`) is that object
numbers are given once, that a running task belongs to an object given out, and that the objects
in the swarm are different, so that a task that ends frees the right one: an agent that was
replaced under its id while it worked keeps its number. `MetricsCount` needs in
addition that no task of the present object is counted before it ends. A batch is
a loop over its assignments; `StartedAll` carries the invariant through it.
`DistributionFair` is about the loop of `distributeTasks`: the loads of two agents able
to do the same never differ by more than one, because the least loaded one is taken
(`SpreadEvenly`).

`Workflow`: `TasksInOrder` and `ResultTrue` follow from an invariant over all runs at once
(`RunsOK`). Per run (`RunOK`): what has been tried and what is still to do are all its tasks, each
once, in an order in which whatever the next task depends on was tried before it; and what each program counter means for the rest. Between a
run and the swarm (`Begun`): only the task a run awaits may be running, so nothing
runs during a rollback. Between runs (`Inside`): a nested run is under way only while its
task is awaited. `Truly` ties what a run calls completed to what became of it: it is stable
because an ended task never begins again, and that in turn is where the assumption
that a task is in one workflow is needed. `OrderResolves` is the one fact about the order: it has no
task twice and each after what it depends on, for any relation; it goes
round by round (`Iteration` and `EachStep`).

`Bridge`: `enrichGraphForConfig` is one step, so the work is in the functions: what the comparison of one call gives
(`KnownCall`), what all of them give together, and that the findings keep the
severities they were made with (`KnownFindings`). A router's entries are taken as
`nesting` leaves them, whatever its brackets are.

`Grapher`: the search works off a queue; it ends because a file enters it once, and the
visited set is then the least set closed under dependents
(`SearchFindsDependents`), by sets and `FiniteSetTheorems`, not by induction over paths. The
first form of `ImpactIsReach` was true of the checked instance only: it said that whoever mentions an endpoint is known to
depend on the repository, while `crossRepo` is derived from routes; the property now
says so. `CASE` with overlapping guards in `compareFieldDefinitions` and `status` gave the
prover nothing to decide with; they are nested conditions now, as in the code.
`Metrics` of an agent that has none failed the type proof of `Swarm`: `startOne` counted a refused task
for it, where the code asks first whether there are metrics (`counted`).

`Context`: a sum is the last of its partial sums, so facts about sums go from one
partial sum to the next (`Iteration`), not by induction over the list: a list without its last
cost sums to that much less (`SumOfFront`), what a strategy kept and what it dropped make
up the whole (`SumOfKept`), shares rounded down never exceed what is shared (`SumOfShares`). The
pruner's properties are not inductive. `PrunerOK` adds that the sections before
the phase are empty while the total is above the budget, and those after it untouched. The digest's invariant (`DigestOK`) gives what was left out
its one possible shape (`ByTurns`: commits first, then suggestions, parts, layout), so that the step before it is
determined (`putBack`), and it was too long. The optimizer runs in one step and the work is in its functions:
`distinct` keeps one of each set of near duplicates whatever their order, although being
close is not transitive (lemma `DistinctOnes`). The properties were stated over again for the proof, and are stronger
than before: the digest's says that the whole was too long, not only its predecessor, and that what goes later is whole while something earlier is left.

`Signals`: two steps of functions, and the inductive invariant (`SignalsInv`) says just that each result is
what its function gives of the setting. The lemmas are about the functions. Owners: keeping
the first of each key loses none of them (`FirstOnes`), so what the graph has of a repository is what the repository
was given, because ids differ (`OwnersFollow`). Weights: every signal has a weight from nothing to all, whatever the
numbers in its artifact, an artifact has one place in the list (`CountedOnce`), and a quotient of a bounded sum is
bounded (`SumBounds`, `Quotient`). Risks: percentages grow with the severity (`Percents`), and if every risk
were above the score, so would be their rounded mean (`MeanBetween`). Ranking: in a strict total order each place
is that of the one member with so many ahead of it (`Ranked`), so `sort` loses and repeats none (`Sorted`). To be proved about,
the folds of the module became sums and subsequences, and `sort` says by position what the array method does.
`scoreRisk` adds four lists up one by one, as the code does.

`Health`: one step again, and monotony of each of the four scores, of which the root is the one with
something to it: `CHOOSE` finds it because the least number whose next odd square exceeds the coverage is one
(`Root`, by `LeastElement`), and it grows because squares do (`RootGrows`). Rounding keeps bounds and order
(`Rounded`), so the weighted sum stays between 0 and 100: the clamp at the end of
`scoreHealth` never acts, and the model leaves it out. The assumption on the portfolio (`PortfolioType`) is
that counts are natural numbers and a reported coverage a percentage.

`Evolution`: one step, and its functions one after the other. Findings: what a list of lists gives is what they
give (`SequencesJoined`), each detector makes findings of its kind at the places it is about, and the severities that occur
are known (`AllSevere`). Suggestions: sorting is by position, as in `Signals` (`SortedByRank`, by `Ranked`);
merging leaves the first of each category and title with the evidence of all (`Deduplicated`), and that first one ranks
no lower than the others because the list was sorted before (`RankingKept`); dropping evidence without a place alters
neither order nor titles (`RankingAltered`, `Cleaned`). A limit that is reached leaves out only what ranks no
higher than what stays (`Limited`), whence `NothingLost`. The judges agree (`Agreed`) because the benchmark counts, of the list routes
alone, what the finder reports. `unpaged`, `somewhere`, the sort and the merge were rewritten by
position for this, and give what they gave before on all inputs of the run.

`Quality`: one step, and four kinds of things it says. Awaits: the scan, line by line, keeps what `ScanOK` says:
every async function that began before the one that is open is in an outermost one that has ended, and the
scan has found just those (`ScanKept`). It starts a function only where none is open, so what is found are
outermost functions: one that begins inside another ends no later (`Nested`), and in a balanced text one that is
open has an end (`Closes`). Imports: `Candidates` says what a list of candidates holds, `CandidatesMeant` that a
path is in it just when the import may mean it; from a file at the top every candidate has `.` in its
directory, so none is known (`NothingMeant`). Blocks: what a block is reported with is the first line of the same text
(`FirstLine`), and a message that already says its number stands for it (`RepeatsKept`). Names: a rename follows
its convention, part by part (`RenameFollows`). The scans became functions of the number of lines read,
candidates lists that are joined, and a block the set of its lines; on all 13,851 inputs of the run references,
conventions and slop come out as before.

Only proved: the type invariants of the five Ruflo parts (`PluginsTypeOK`, `SwarmTypeOK`,
`WorkflowTypeOK`, `MemoryTypeOK`, `BusTypeOK`). The inductive invariants start from them, and run `ruflo`
checks the properties built on them.

Only model-checked, and why:

- The liveness properties (`CommandsEnd`, `RetryPublishes`, `RetryOpens`, `EveryChangeScanned`,
  `EventuallyWarm`, `PublishLands`, `WorkflowsEnd`): outside the prover.

Every invariant the passing runs check is stated by a theorem.

## 5. Where documents and code disagree

Refuted by a run:

- `engine/execution/index.ts:161` promises to delete the branch in each affected
  repository; a remote branch whose local one is gone stays (`execution_orphan`).
- `README.md:90` says apply is blocked while authority drift is unresolved; the
  stored verdict is reused (`control_drift`).
- `engine/scanner/index.ts:126` says a cached manifest is only used for a clean
  tree because that of a dirty one would be stale; the manifest of a dirty tree
  is stored all the same and found when the tree is clean again (`warm_cache`).
- `commands/publish-review.md:23` says metadata is fetched before publish; a
  snapshot of a closed pull request is reused instead, also after it was reopened
  (`publish_reopened`).
- `engine/review/index.ts:64` gives "runtime-weighted signals increased priority"
  as a reason; the signals replace the builder's risk score by a lower one (`risk`).

Met while modelling, without a run: `README.md:33` calls comment updates
idempotent, which they are within one page of comments and one command at a time
(`Simple`); a verdict of medium risk is a neutral check run but, through the
fallback, a pending status; `commands/watch.md:9` speaks of the latest
state kept warm, while of two overlapping flushes the older scan may be saved
last; a partly staged tree never finds its warm state (`Split`); `commands/apply.md:44` says apply evaluates
policy and risk gates, while it only reads the stored verdict; the drift gate is
not evaluated at all when policies are disabled (`engine/policy/index.ts:30`);
moving the base ref does not change the snapshot key (`engine/index.ts:442`);
`commands/rollback.md:9` and `:15` say rollback follows an apply and deletes its
branches, while it acts on the latest artifact, which after an apply that hit a
snapshot (`engine/index.ts:448`) is another plan's.

In the parts of ruflo and the bus:

- Plugins: reloading one object registers its extension point once more each
  time; an invocation under way when a plugin is unloaded still runs its handlers;
  overlapping loads and unloads can leave a plugin without its dependency, so
  `DependenciesFirst` and `ShutdownEmpties` are stated for calls that do not overlap.
- Workflows: a run that is paused when the engine is shut down waits for ever; a
  cancelled one reports `completed`; with `rollbackOnFailure` the status stays
  in progress after the failure; without it, tasks run although a dependency
  failed; a second task for a busy agent is refused and so fails its workflow.
  The results of the before-hooks are ignored, so that the authority gate of
  `skills/swarm-orchestration` (rule 5) cannot stop a workflow.
- Swarm: the task of a terminated agent is counted for its successor of the same
  id; a replaced agent leaves doubled mesh connections; a leader spawned after
  its workers stays unconnected.
- Memory: a store without an embedding leaves the older vector copy; a store that
  races a deletion leaves a copy in one store; hybrid search filters after
  cutting to 2k; marking as fixed writes back what was read before.
- Bus: the read flag is written and never looked at; rewrites that overlap other
  writes lose, restore or double messages, and a kill between truncating and
  writing loses them all. `SentIsKept` says what holds without these.

In the analysis:

- Graph: the result of `detectCrossRepoDeps` is dropped (`grapher/index.ts:36` says it
  informs the analysis); a type that cannot be resolved is taken as compatible by the contract map and reported
  as a breaking difference by `findContractMismatches`.
- Bridge: without authority documents there is no drift; a router file that
  cannot be read drops its procedures, so that calls to them are called obsolete.
- Context: the pruner's header says lowest priority first, while impact paths go
  before routes; conventions of all repositories go at once; the last suggestion
  of the digest's minimal layout and the count of its compact one are never shown,
  since suggestions are gone by then; cutting by characters does not keep the
  token budget.
- Quality: every relative import of a file at the top of its repository is
  reported missing; `duplicate-block` reports are suppressed by a common prefix of
  line numbers; the comment on TODO scores (`health-scorer.ts:82`) gives other
  values than the code; a repository is chosen by a prefix of the path (`app` for
  `app-api`); a camelCase suggestion may not be camelCase.
- Evolution: the comment's example of merged suggestions has different categories,
  so it does not merge; finder and benchmark know different limiter packages; the
  limit is applied before the ranking by risk.
- Configuration: to name a section without `enabled` switches it off, although
  the profile would switch it on. What the file says is overridden in three places,
  although a test's title has it that the profile does not override user settings
  (`tests/workflows/hustlexp.test.ts`): the switches of `ownership` and `maxTier`
  and the default owner are the profile's, and a `changed-files-first` the file asks for
  explicitly becomes `api-surface-first`. The profile's ownership rules are appended again
  to a list that has them (`hustlexp.ts:245`), since `unique` compares objects.
- Warm state: a manifest whose files are those of a directory that was away during the
  walk is served as the manifest of its commit; pruning goes by age below the cache
  directory and takes the store's own file with it (`cache-manager.ts:118`).
- Signals: the `repo` of a path rule is ignored; telemetry of zeros weighs more
  than a little traffic; a mean lets one more low risk lower the level.

## 6. Not modelled, and what is left

Not modelled:

- The semantic analyzers (`engine/analyzers`), the parsers of the scanner
  (`engine/scanner/*-extractor.ts`, `tree-sitter.ts`) and the text extraction of
  the Swift bridge: functions of program text without state. What they
  extract is the input of `Grapher`, `Bridge` and `Quality`, in small samples.
- Layout: the digest's Markdown, diagrams, review comments and their truncation,
  dry-run and replay publishing, the command line and the scripts.
- Of the swarm coordinator, its message list, consensus count and state report,
  and of the plugin manager, plugins that throw while they are initialized.
- The pruning of a legacy JSON state file that lies below the cache directory; a single
  git command that fails or times out while the others of its repository answer; what the
  host does to a pull request on its own.
- Of the type registry, that schemas and models are listed in two places
  (`type-flow.ts:58-76`): `Grapher` has one list of types.
- The per-file cache and `invalidateRepo`, which no command calls; embedding
  processes that use the session cache more than once.

Left to do:

1. A refinement of one abstract message queue by `MessageBus`, and of one memory
   by the two stores of `Memory`, while calls do not overlap.
