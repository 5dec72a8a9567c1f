----------------------------- MODULE WarmState -----------------------------
(***************************************************************************)
(* The warm graph state: engine/daemon (watch loop, load and save, the      *)
(* SQLite store) with the scans and the manifest cache they go through      *)
(* (engine/scanner scanRepo, engine/context/cache-manager.ts), and the      *)
(* commands that load or refresh it (engine/index.ts loadScanResult,        *)
(* watch --once, refreshDaemonState).                                       *)
(*                                                                          *)
(* A task is an asynchronous activity that yields at its awaits: a command, *)
(* or a flush of the watching process, of which several overlap.  The store *)
(* is one file that every save reads, changes in memory and writes whole.   *)
(* One configuration, with the daemon enabled and preferred: its hash is    *)
(* part of every key.                                                       *)
(***************************************************************************)
EXTENDS Manifests

CONSTANTS Command,      \* processes of the command line
          Flush,        \* concurrent flushes of the watching process
          LegacyState,  \* the state of a legacy JSON file, or None
          None,
          Bounds        \* what may happen in a run: how many changes of the
                        \* repositories, how many faults (killed processes,
                        \* failing scans), which commands and flushes

Task == Command \cup Flush
Left == [changes : Nat, faults : Nat, commands : SUBSET Command,
         flushes : SUBSET Flush]
State == [man : UNION {[R -> Manifest] : R \in SUBSET Repo}, dirty : SUBSET Repo]

ASSUME WarmAssumption ==
  /\ Command \cap Flush = {}
  /\ LegacyState \in State \cup {None}
  /\ None \notin State \cup Manifest \cup Work \cup Head
  /\ Bounds # {} /\ Bounds \subseteq Left

VARIABLES work,        \* the repositories
          cached,      \* cached[r][h]: manifest-<branch>-<sha>.json, or None
          db,          \* the store's file
          task,        \* task[t]
          watching,    \* the repositories with an fs.watch callback
          pending, dirtyRepos, timers,   \* its variables, its timeouts
          unseen,      \* history: changed since a flush last turned to them
          left         \* what may still happen, of Bounds

watcher == <<watching, pending, dirtyRepos, timers, unseen>>
vars == <<work, cached, db, task, watcher, left>>

\* row: the one row of daemon_state; snaps: daemon_snapshots, keyed by the
\* signature of the state.
Database(is, row, snaps) == [is |-> is, row |-> row, snaps |-> snaps]
Unreadable == {Database("absent", None, {}), Database("torn", None, {})}

\* Where a task is, and where its scan of a repository is.
Pc == {"idle", "sign", "snapshot", "row", "served", "scan", "save", "trunc",
       "write", "freshTrunc", "freshWrite", "mark"}
Step == {"start", "status", "walk", "git", "done", "hit", "failed"}

DatabaseType == Unreadable \cup [is : {"sound"}, row : State \cup {None},
                                 snaps : SUBSET State]

\* kind: what the task was started for; then: where a migration goes on; sig:
\* the signature it looks for, of the repositories it saw; got: the state it was
\* served; rootless: the repositories without a git root of their own when the
\* scan turned to them.
TaskType == [kind : {"load", "once", "refresh", "initial", "flush", "marked"},
             pc : Pc, then : Pc,
             sig : Signature \cup {None}, saw : [Repo -> Work] \cup {None},
             got : State \cup {None},
             rootless : SUBSET Repo, dirty : SUBSET Repo,
             copy : DatabaseType \cup {None},
             step : [Repo -> Step],
             head : [Repo -> Head \cup {None}],
             files : [Repo -> Work \cup {None}],
             man : [Repo -> Manifest \cup {None}]]

NoTask == [kind |-> "load", pc |-> "idle", then |-> "idle", sig |-> None,
           saw |-> None, got |-> None,
           rootless |-> {}, dirty |-> {}, copy |-> None,
           step |-> [r \in Repo |-> "start"], head |-> [r \in Repo |-> None],
           files |-> [r \in Repo |-> None], man |-> [r \in Repo |-> None]]

Init == /\ work \in [Repo -> Tree]
        /\ cached = [r \in Repo |-> [h \in Head |-> None]]
        /\ db = Database("absent", None, {})
        /\ task = [t \in Task |-> NoTask]
        /\ watching = {} /\ pending = FALSE
        /\ dirtyRepos = {} /\ timers = 0 /\ unseen = {}
        /\ left \in Bounds

at(t, pc) == task[t].pc = pc
goto(t, pc) == task' = [task EXCEPT ![t].pc = pc]
exit(t) == task' = [task EXCEPT ![t] = NoTask]
begin(t, kind, pc) == task' = [task EXCEPT ![t] = [NoTask EXCEPT !.kind = kind,
                                                                 !.pc = pc]]

------------------------------------------------------------------------------
(* Loading. *)

\* loadScanResult and watch --once load first; refreshDaemonState only scans
\* and saves.
StartCommand(c) ==
  /\ c \in left.commands
  /\ at(c, "idle")
  /\ \/ begin(c, "load", "sign")
     \/ begin(c, "once", "sign")
     \/ begin(c, "refresh", "scan")
  /\ UNCHANGED <<work, cached, db, watcher, left>>

Sign(t) ==
  /\ at(t, "sign")
  /\ task' = [task EXCEPT ![t].sig = currentBranchSignature(work),
                          ![t].saw = work, ![t].pc = "snapshot"]
  /\ UNCHANGED <<work, cached, db, watcher, left>>

\* The scan is over, and a save begins; or the second save of a flush does.
saves(t) == \/ at(t, "save")
            \/ /\ at(t, "scan")
               /\ \A r \in Repo : task[t].step[r] \in {"done", "hit", "failed"}

\* ensureMigrated, which every load and save calls first: no file yet, and a
\* legacy one to start from.
mustMigrate == db.is = "absent" /\ LegacyState # None

Migrate(t) ==
  /\ task[t].pc \in {"snapshot", "row"} \/ saves(t)
  /\ mustMigrate
  /\ task' = [task EXCEPT ![t].then = task[t].pc, ![t].pc = "freshTrunc"]
  /\ UNCHANGED <<work, cached, db, watcher, left>>

\* writeFreshDatabase: the legacy state is filed under no signature, so only
\* its row can be found.  The file is truncated, then written.
WriteFresh(t) ==
  /\ \/ /\ at(t, "freshTrunc")
        /\ db' = Database("torn", None, {})
        /\ goto(t, "freshWrite")
     \/ /\ at(t, "freshWrite")
        /\ db' = Database("sound", LegacyState, {})
        /\ goto(t, task[t].then)
  /\ UNCHANGED <<work, cached, watcher, left>>

serve(t, state) ==
  task' = [task EXCEPT ![t].got = state, ![t].pc = "served"]

\* loadSnapshot; a file that is absent or torn has none.
LookupSnapshot(t) ==
  LET found == {s \in db.snaps : branchSignature(s.man) = task[t].sig}
  IN  /\ at(t, "snapshot")
      /\ ~mustMigrate
      /\ \/ \E s \in found : serve(t, s)
         \/ found = {} /\ goto(t, "row")
      /\ UNCHANGED <<work, cached, db, watcher, left>>

\* pruneOld: scanConfiguredRepos first drops every file below the cache
\* directory that has grown too old, the store's among them (a relative
\* statePath, or none, puts it there); how old a file is the model leaves open,
\* but one that is being written is not.
pruned(old) == [r \in Repo |-> [h \in Head |->
                  IF <<r, h>> \in old THEN None ELSE cached[r][h]]]

pruneOld ==
  /\ \E old \in SUBSET (Repo \X Head) : cached' = pruned(old)
  /\ \/ UNCHANGED db
     \/ /\ \A u \in Task : task[u].pc \notin {"write", "freshWrite"}
        /\ db' = Database("absent", None, {})

\* load: the latest state, if it is the one for the signature computed before.
LookupRow(t) ==
  LET found == /\ db.row # None
               /\ branchSignature(db.row.man) = task[t].sig
  IN  /\ at(t, "row")
      /\ ~mustMigrate
      /\ \/ found /\ serve(t, db.row) /\ UNCHANGED <<cached, db>>
         \/ /\ ~found
            /\ task' = [task EXCEPT ![t].sig = None, ![t].saw = None,
                                    ![t].pc = "scan"]
            /\ IF task[t].kind = "load" THEN pruneOld
               ELSE UNCHANGED <<cached, db>>
      /\ UNCHANGED <<work, watcher, left>>

UseServed(t) ==
  /\ at(t, "served")
  /\ exit(t)
  /\ UNCHANGED <<work, cached, db, watcher, left>>
------------------------------------------------------------------------------
(* Scanning: scanRepo of repository r by task t.  Repositories are scanned   *)
(* concurrently, and each awaits between its steps.                          *)

inScan(t, r, step) == at(t, "scan") /\ task[t].step[r] = step


\* resolveOwnedGitRoot and rev-parse: without a root, or without a commit, the
\* cache is not asked.
ResolveRoot(t, r) ==
  /\ inScan(t, r, "start")
  /\ task' = IF work[r] = Gone
             THEN [task EXCEPT ![t].rootless = @ \cup {r},
                               ![t].step[r] = "walk"]
             ELSE [task EXCEPT ![t].head[r] = work[r].head,
                               ![t].step[r] = "status"]
  /\ unseen' = IF t \in Flush THEN unseen \ {r} ELSE unseen
  /\ UNCHANGED <<work, cached, db, watching, pending, dirtyRepos, timers, left>>

\* git status: a command that fails prints nothing, which reads as clean.
isClean(w) == w = Gone \/ w.edit = NoEdit

AskCache(t, r) ==
  LET hit == cached[r][task[t].head[r]]
  IN  /\ inScan(t, r, "status")
      /\ task' = IF isClean(work[r]) /\ hit # None
                 THEN [task EXCEPT ![t].man[r] = hit, ![t].step[r] = "hit"]
                 ELSE [task EXCEPT ![t].step[r] = "walk"]
      /\ UNCHANGED <<work, cached, db, watcher, left>>

\* walkDirectory and the files' parsing; a directory that cannot be read has no
\* files.
Walk(t, r) ==
  /\ inScan(t, r, "walk")
  /\ task' = [task EXCEPT ![t].files[r] = work[r], ![t].step[r] = "git"]
  /\ UNCHANGED <<work, cached, db, watcher, left>>

\* The git state as the scan sees it now.
gitState(t, r) == IF r \in task[t].rootless THEN Gone ELSE work[r]

\* extractGitState, and the manifest filed under the head it names.
ReadGit(t, r) ==
  LET git == gitState(t, r)
      m   == [files |-> task[t].files[r], git |-> git]
  IN  /\ inScan(t, r, "git")
      /\ task' = [task EXCEPT ![t].man[r] = m, ![t].step[r] = "done",
                              ![t].files[r] = None, ![t].head[r] = None]
      /\ cached' = IF git = Gone THEN cached
                   ELSE [cached EXCEPT ![r][git.head] = m]
      /\ UNCHANGED <<work, db, watcher, left>>

\* The process of the watch loop ends: its tasks and its variables are gone.
stopWatching ==
  /\ task' = [t \in Task |-> IF t \in Flush THEN NoTask ELSE task[t]]
  /\ watching' = {} /\ pending' = FALSE
  /\ dirtyRepos' = {} /\ timers' = 0 /\ unseen' = {}

\* scanRepo throws, say for want of a parser.  loadScanResult goes on without
\* the repository (allSettled), a refresh fails as a whole (Promise.all), and in
\* the watch loop the rejection is nobody's and ends the process.
FailScan(t, r) ==
  /\ at(t, "scan")
  /\ task[t].step[r] \in {"walk", "git"}
  /\ left.faults > 0
  /\ left' = [left EXCEPT !.faults = @ - 1]
  /\ \/ t \in Flush /\ stopWatching
     \/ /\ t \notin Flush /\ UNCHANGED watcher
        /\ IF task[t].kind = "load"
           THEN task' = [task EXCEPT ![t].step[r] = "failed"]
           ELSE exit(t)
  /\ UNCHANGED <<work, cached, db>>

------------------------------------------------------------------------------
(* Saving. *)

\* Mutant: the slot of a repository that failed is saved empty.
savedEmpty(t) == [man |-> task[t].man, dirty |-> task[t].dirty]

\* The state a task saves.
saved(t) == [man   |-> [r \in {r \in Repo : task[t].step[r] # "failed"} |->
                          task[t].man[r]],
             dirty |-> task[t].dirty]

\* The INSERTs of save: the one row, and the snapshot of the state's signature.
upsert(d, state) ==
  Database("sound", state,
           {s \in d.snaps : branchSignature(s.man) # branchSignature(state.man)}
             \cup {state})

\* Mutant: save opens the file as load does, and fails when it is torn.
OpenStrict(t) ==
  /\ saves(t)
  /\ ~mustMigrate
  /\ IF db.is = "torn" THEN exit(t)
     ELSE task' = [task EXCEPT ![t].copy = upsert(db, saved(t)),
                               ![t].pc = "trunc"]
  /\ UNCHANGED <<work, cached, db, watcher, left>>

\* save reads the whole file, or starts an empty one over a file it cannot read
\* (overwriteCorrupt), and changes it in memory.
Open(t) ==
  /\ saves(t)
  /\ ~mustMigrate
  /\ task' = [task EXCEPT ![t].copy = upsert(db, saved(t)), ![t].pc = "trunc"]
  /\ UNCHANGED <<work, cached, db, watcher, left>>

\* persistDatabase, in two steps: writeFile truncates, then writes.
Truncate(t) ==
  /\ at(t, "trunc")
  /\ db' = Database("torn", None, {})
  /\ goto(t, "write")
  /\ UNCHANGED <<work, cached, watcher, left>>

\* The file is written.  The initial scan of the watch loop starts the watch; a
\* flush goes on to mark the dirty repositories, and saves again.
Write(t) ==
  /\ at(t, "write")
  /\ db' = task[t].copy
  /\ IF task[t].kind = "flush" THEN goto(t, "mark") ELSE exit(t)
  /\ watching' = IF task[t].kind = "initial" THEN {r \in Repo : work[r] # Gone}
                 ELSE watching
  /\ UNCHANGED <<work, cached, pending, dirtyRepos, timers, unseen, left>>

\* Mutant: the pending flag is cleared when the flush ends.
MarkLate(t) ==
  /\ at(t, "mark")
  /\ task' = [task EXCEPT ![t].dirty = dirtyRepos, ![t].kind = "marked",
                          ![t].pc = "save"]
  /\ dirtyRepos' = {} /\ pending' = FALSE
  /\ UNCHANGED <<work, cached, db, watching, timers, unseen, left>>

Mark(t) ==
  /\ at(t, "mark")
  /\ task' = [task EXCEPT ![t].dirty = dirtyRepos, ![t].kind = "marked",
                          ![t].pc = "save"]
  /\ dirtyRepos' = {}
  /\ UNCHANGED <<work, cached, db, watching, pending, timers, unseen, left>>
------------------------------------------------------------------------------
(* The watch loop, the repositories, and what goes wrong.                    *)

idleFlushes == {f \in left.flushes : at(f, "idle")}

\* watchEcosystem: one process; it runs while it watches, waits or flushes.
watchRuns == \/ watching # {} \/ timers > 0
             \/ \E f \in Flush : ~at(f, "idle")

StartWatch ==
  /\ ~watchRuns
  /\ idleFlushes # {}
  /\ begin(CHOOSE f \in idleFlushes : TRUE, "initial", "scan")
  /\ pending' = FALSE /\ dirtyRepos' = {}
  /\ UNCHANGED <<work, cached, db, watching, timers, unseen, left>>

\* A timeout calls flush, which does nothing unless a change is pending.  The
\* code has no limit on flushes; here one waits for a task of Flush.
TimerFires ==
  /\ timers > 0
  /\ timers' = timers - 1
  /\ IF pending
     THEN idleFlushes # {} /\ begin(CHOOSE f \in idleFlushes : TRUE, "flush", "scan")
     ELSE UNCHANGED task
  /\ pending' = FALSE
  /\ UNCHANGED <<work, cached, db, watching, dirtyRepos, unseen, left>>

\* A developer edits, commits, switches branches, removes or restores the
\* directory, and the watch callback runs.  Whether a callback outlives its
\* directory depends on the platform.
Change(r) ==
  /\ left.changes > 0
  /\ left' = [left EXCEPT !.changes = @ - 1]
  /\ \E w \in Work \ {work[r]} :
       /\ work' = [work EXCEPT ![r] = w]
       /\ \/ UNCHANGED watching
          \/ w = Gone /\ watching' = watching \ {r}
  /\ IF r \in watching
     THEN /\ dirtyRepos' = dirtyRepos \cup {r}
          /\ pending' = TRUE /\ timers' = timers + 1
          /\ unseen' = unseen \cup {r}
     ELSE UNCHANGED <<pending, dirtyRepos, timers, unseen>>
  /\ UNCHANGED <<cached, db, task>>

\* The process of a command, or of the watch loop, is killed.
Kill ==
  /\ left.faults > 0
  /\ left' = [left EXCEPT !.faults = @ - 1]
  /\ \/ /\ \E c \in Command : ~at(c, "idle") /\ exit(c)
        /\ UNCHANGED watcher
     \/ watchRuns /\ stopWatching
  /\ UNCHANGED <<work, cached, db>>

scanStep(t) == \E r \in Repo : \/ ResolveRoot(t, r) \/ AskCache(t, r)
                               \/ Walk(t, r) \/ ReadGit(t, r)

TaskStep(t) == \/ Sign(t) \/ Migrate(t) \/ WriteFresh(t) \/ LookupSnapshot(t)
               \/ LookupRow(t) \/ UseServed(t) \/ scanStep(t) \/ Open(t)
               \/ Truncate(t) \/ Write(t) \/ Mark(t)

Next == \/ \E c \in Command : StartCommand(c)
        \/ \E t \in Task : TaskStep(t)
        \/ \E t \in Task, r \in Repo : FailScan(t, r)
        \/ StartWatch \/ TimerFires \/ Kill
        \/ \E r \in Repo : Change(r)

\* The event loop runs what is ready: a task takes its next step, a timeout
\* fires.  Nobody has to start a command or a watch.
Spec == /\ Init /\ [][Next]_vars
        /\ \A t \in Task : WF_vars(TaskStep(t))
        /\ WF_vars(TimerFires)

------------------------------------------------------------------------------
(* Properties. *)

\* Every variable stays in its type: the store holds states of configured
\* repositories, and so does what tasks were served or are about to write.
TypeOK == /\ work \in [Repo -> Work]
          /\ cached \in [Repo -> [Head -> Manifest \cup {None}]]
          /\ db \in DatabaseType
          /\ task \in [Task -> TaskType]
          /\ watching \subseteq Repo /\ pending \in BOOLEAN
          /\ dirtyRepos \subseteq Repo /\ unseen \subseteq Repo
          /\ timers \in Nat
          /\ left \in Left

\* State holds every configured repository, none without git, each with the
\* commit and the names of the changed files that it has in saw.
Answers(state, saw) ==
  /\ DOMAIN state.man = Repo
  /\ \A r \in Repo :
       LET git == state.man[r].git
       IN  /\ git # Gone /\ saw[r] # Gone
           /\ git.head = saw[r].head
           /\ namesOf(git.edit) = namesOf(saw[r].edit)

\* A command that is served warm state is served the state of every configured
\* repository, with the branch, the commit and the changed files that it saw
\* when it computed the signature, whatever scans failed, whatever they saved
\* and whatever was saved or pruned between its two lookups (loadDaemonState).
\* The files in it are those that the scan found, a moment before it asked git:
\* that they are those of the commit is not so in the code.
ServedComplete ==
  \A t \in Task : at(t, "served") => Answers(task[t].got, task[t].saw)

\* A change the watch loop was told of is followed by a scan that turns to the
\* repository after it, also when the change came during a flush, or the
\* process ends (watchEcosystem, the flag pending).
EveryChangeScanned == \A r \in Repo : (r \in unseen) ~> (r \notin unseen)

\* The scan of r would give the signature that commands look for.
Reusable(r) ==
  /\ work[r] # Gone
  /\ work[r].edit \notin Split
  /\ LET hit == cached[r][work[r].head]
     IN  isClean(work[r]) /\ hit # None =>
           manifestEntry(hit) = currentEntry(work[r])

\* Nobody else writes the store.
Alone(c) == \A t \in Task \ {c} : task[t].pc \in {"idle", "sign", "snapshot",
                                                  "row", "served"}

\* Repeated commands come to reuse the warm state, whatever killed processes
\* and racing saves left in the file, once the repositories rest in a state
\* whose signature can be found again (loadScanResult, save's overwriteCorrupt).
EventuallyWarm ==
  \A c \in Command :
    <>[](/\ Alone(c) /\ task[c].kind # "refresh"
         /\ \A r \in Repo : Reusable(r))
      => <>[](~at(c, "scan"))

\* A manifest the cache serves for a clean tree was read from the clean tree of
\* a commit (scanner/index.ts:126).
CleanHitIsClean ==
  \A t \in Task, r \in Repo : task[t].step[r] = "hit" =>
    /\ task[t].man[r].files = task[t].man[r].git
    /\ isClean(task[t].man[r].git)
=============================================================================
