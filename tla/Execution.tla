------------------------------ MODULE Execution ------------------------------
(***************************************************************************)
(* engine/execution/index.ts: applyExecutionPlan and rollbackExecutionPlan  *)
(* as the sequence of git commands they run, repository by repository.      *)
(* Each process is one run of the command line (`apply` or `rollback`);     *)
(* between two of its git commands the other processes, the developer and   *)
(* the network act.                                                         *)
(*                                                                          *)
(* A plan is a model value; its branch has its name.  Permitted are the     *)
(* plans mayExecute (module Policy) lets through.  Every plan branch is     *)
(* distinct from the base branch: branchNameFor always adds a prefix.       *)
(***************************************************************************)
EXTENDS Integers, FiniteSets

CONSTANTS Repo, Plan, Proc,
          Base,               \* the base branch (not a plan)
          Affected,           \* affectedRepos: plan -> configured repositories
          Permitted,          \* plans that pass the pre-flight gates
          HasBase,            \* repositories in which the base branch exists
          HasRemote,          \* repositories with an origin remote
          CreatePullRequest,  \* automation.createPullRequest: push, open a PR
          GitHub,             \* github.enabled, with gh or a token to reach it
          Interfere,          \* the developer may act during a command
          MaxCrashes          \* bound on killed commands

ASSUME ConstantsAssumption ==
  /\ Repo # {}
  /\ Plan # {}
  /\ Base \notin Plan
  /\ Affected \in [Plan -> SUBSET Repo]
  /\ Permitted \subseteq Plan
  /\ HasBase \subseteq Repo
  /\ HasRemote \subseteq Repo
  /\ CreatePullRequest \in BOOLEAN
  /\ GitHub \in BOOLEAN
  /\ Interfere \in BOOLEAN
  /\ MaxCrashes \in Nat

VARIABLES local,    \* local[r]: plans whose branch exists in r
          remote,   \* remote[r]: plans whose branch exists at r's origin
          head,     \* head[r]: the checked-out branch of r
          dirty,    \* repositories with uncommitted changes
          online,   \* whether the remotes can be reached
          prs,      \* plans with an open pull request
          run,      \* run[p]: the progress and the report of process p
          crashes   \* commands killed so far

gitVars == <<local, remote, head, dirty, online, prs>>
vars == <<local, remote, head, dirty, online, prs, run, crashes>>

Pc == {"idle", "next", "inspect", "exists", "create", "push", "pr",
       "find", "leave", "delete", "unpublish", "done"}

\* report[r]: what `branches` and `ledger` say of r; warned: repositories with
\* a warning (a failed push, a failed remote deletion).
Outcome == {"none", "created", "deleted", "skipped", "failed"}

RunType == [cmd    : {"apply", "rollback"},
            plan   : Plan,
            todo   : SUBSET Repo,
            repo   : Repo,
            pc     : Pc,
            report : [Repo -> Outcome],
            warned : SUBSET Repo]

TypeOK == /\ local \in [Repo -> SUBSET Plan]
          /\ remote \in [Repo -> SUBSET Plan]
          /\ head \in [Repo -> Plan \cup {Base}]
          /\ dirty \in SUBSET Repo
          /\ online \in BOOLEAN
          /\ prs \in SUBSET Plan
          /\ run \in [Proc -> RunType]
          /\ crashes \in Nat

Idle(p) == run[p].pc \in {"idle", "done"}

freshRun(cmd, plan, pc) ==
  [cmd |-> cmd, plan |-> plan, todo |-> Affected[plan],
   repo |-> CHOOSE r \in Repo : TRUE, pc |-> pc,
   report |-> [r \in Repo |-> "none"], warned |-> {}]

Init == /\ local = [r \in Repo |-> {}]
        /\ remote = [r \in Repo |-> {}]
        /\ head = [r \in Repo |-> Base]
        /\ dirty \in SUBSET Repo
        /\ online \in BOOLEAN
        /\ prs = {}
        /\ run = [p \in Proc |->
                    freshRun("apply", CHOOSE q \in Plan : TRUE, "idle")]
        /\ crashes = 0

------------------------------------------------------------------------------
(* How one process moves on.                                                *)

goto(p, pc) == run' = [run EXCEPT ![p].pc = pc]

\* Push the outcome of the current repository and go to the next one.
settle(p, outcome, warn) ==
  run' = [run EXCEPT ![p].pc = "next",
                     ![p].report[run[p].repo] = outcome,
                     ![p].warned = IF warn THEN @ \cup {run[p].repo} ELSE @]

at(p, pc) == run[p].pc = pc

------------------------------------------------------------------------------
(* apply *)

\* Mutant: the gates are not looked at.
StartApplyUngated(p, plan) ==
  /\ Idle(p)
  /\ run' = [run EXCEPT ![p] = freshRun("apply", plan, "next")]
  /\ UNCHANGED <<gitVars, crashes>>

\* A plan the gates refuse returns before any repository is touched.
StartApply(p, plan) ==
  /\ Idle(p)
  /\ run' = [run EXCEPT ![p] =
               freshRun("apply", plan, IF plan \in Permitted THEN "next"
                                                             ELSE "done")]
  /\ UNCHANGED <<gitVars, crashes>>

\* The head of the for loop, in both commands.
NextRepo(p) ==
  /\ at(p, "next")
  /\ \/ \E r \in run[p].todo :
          run' = [run EXCEPT
                    ![p].todo = @ \ {r},
                    ![p].repo = r,
                    ![p].pc = IF run[p].cmd = "apply" THEN "inspect"
                                                      ELSE "find"]
     \/ /\ run[p].todo = {}
        /\ goto(p, IF run[p].cmd = "apply" THEN "pr" ELSE "done")
  /\ UNCHANGED <<gitVars, crashes>>

\* worktreeDirty and baseBranchExists.
Inspect(p) ==
  /\ at(p, "inspect")
  /\ IF run[p].repo \in dirty \/ run[p].repo \notin HasBase
     THEN settle(p, "failed", FALSE)
     ELSE goto(p, "exists")
  /\ UNCHANGED <<gitVars, crashes>>

\* Mutant: a branch that is there counts as done.
BranchExistsIsDone(p) ==
  /\ at(p, "exists")
  /\ IF run[p].plan \in local[run[p].repo]
     THEN settle(p, "created", FALSE)
     ELSE goto(p, "create")
  /\ UNCHANGED <<gitVars, crashes>>

\* Mutant: the branch is created without asking whether it is there.
BranchExistsUnasked(p) ==
  /\ at(p, "exists")
  /\ goto(p, "create")
  /\ UNCHANGED <<gitVars, crashes>>

BranchExists(p) ==
  /\ at(p, "exists")
  /\ goto(p, IF run[p].plan \in local[run[p].repo] THEN "push" ELSE "create")
  /\ UNCHANGED <<gitVars, crashes>>

\* git branch <plan> <base>: refused when another process got there first.
CreateBranch(p) ==
  LET r == run[p].repo
      plan == run[p].plan
  IN  /\ at(p, "create")
      /\ IF plan \in local[r]
         THEN settle(p, "failed", FALSE) /\ UNCHANGED local
         ELSE /\ local' = [local EXCEPT ![r] = @ \cup {plan}]
              /\ goto(p, "push")
      /\ UNCHANGED <<remote, head, dirty, online, prs, crashes>>

\* Mutant: a failed push goes unreported.
PushBranchSilently(p) ==
  LET r == run[p].repo
      pushed == CreatePullRequest /\ r \in HasRemote /\ online
                  /\ run[p].plan \in local[r]
  IN  /\ at(p, "push")
      /\ remote' = IF pushed THEN [remote EXCEPT ![r] = @ \cup {run[p].plan}]
                             ELSE remote
      /\ settle(p, "created", FALSE)
      /\ UNCHANGED <<local, head, dirty, online, prs, crashes>>

\* pushBranch: a failed push is a warning, the branch still counts as created.
PushBranch(p) ==
  LET r == run[p].repo
      plan == run[p].plan
      pushed == /\ CreatePullRequest
                /\ r \in HasRemote
                /\ online
                /\ plan \in local[r]
  IN  /\ at(p, "push")
      /\ remote' = IF pushed THEN [remote EXCEPT ![r] = @ \cup {plan}]
                             ELSE remote
      /\ settle(p, "created", CreatePullRequest /\ ~pushed)
      /\ UNCHANGED <<local, head, dirty, online, prs, crashes>>

\* Mutant: the pull request is filed under the repository.
OpenPullRequestOfRepo(p) ==
  /\ at(p, "pr")
  /\ prs' = prs \cup {run[p].repo}
  /\ goto(p, "done")
  /\ UNCHANGED <<local, remote, head, dirty, online, crashes>>

\* One pull request, for single-repository plans with a created branch only.
\* GitHub accepts it when it can be reached and the head branch is there.
OpenPullRequest(p) ==
  LET plan == run[p].plan
      wanted == /\ CreatePullRequest /\ GitHub
                /\ \E r \in Repo : run[p].report[r] = "created"
                /\ Cardinality(Affected[plan]) = 1
      accepted == /\ online
                  /\ plan \notin prs
                  /\ \E r \in Affected[plan] : plan \in remote[r]
  IN  /\ at(p, "pr")
      /\ prs' = IF wanted /\ accepted THEN prs \cup {plan} ELSE prs
      /\ goto(p, "done")
      /\ UNCHANGED <<local, remote, head, dirty, online, crashes>>

------------------------------------------------------------------------------
(* rollback *)

StartRollback(p, plan) ==
  /\ Idle(p)
  /\ run' = [run EXCEPT ![p] = freshRun("rollback", plan, "next")]
  /\ UNCHANGED <<gitVars, crashes>>

FindBranch(p) ==
  /\ at(p, "find")
  /\ IF run[p].plan \in local[run[p].repo]
     THEN goto(p, "leave")
     ELSE settle(p, "skipped", FALSE)
  /\ UNCHANGED <<gitVars, crashes>>

\* Mutant: the checked-out branch is not left.
LeaveBranchNot(p) ==
  /\ at(p, "leave")
  /\ goto(p, "delete")
  /\ UNCHANGED <<gitVars, crashes>>

\* Mutant: a checkout git refuses is tried again.
LeaveBranchRetry(p) ==
  LET r == run[p].repo
      refused == head[r] = run[p].plan /\ (r \in dirty \/ r \notin HasBase)
  IN  /\ at(p, "leave")
      /\ goto(p, IF refused THEN "leave" ELSE "delete")
      /\ head' = IF head[r] = run[p].plan /\ ~refused
                 THEN [head EXCEPT ![r] = Base] ELSE head
      /\ UNCHANGED <<local, remote, dirty, online, prs, crashes>>

\* Check the base branch out first when the plan's branch is checked out (the
\* question and the checkout are one step).  git may refuse to leave a dirty
\* tree, and cannot when the base is missing.
LeaveBranch(p) ==
  LET r == run[p].repo
  IN  /\ at(p, "leave")
      /\ \/ /\ head[r] # run[p].plan
            /\ goto(p, "delete")
            /\ UNCHANGED head
         \/ /\ head[r] = run[p].plan
            /\ r \in HasBase
            /\ head' = [head EXCEPT ![r] = Base]
            /\ goto(p, "delete")
         \/ /\ head[r] = run[p].plan
            /\ r \in dirty \/ r \notin HasBase
            /\ settle(p, "failed", FALSE)
            /\ UNCHANGED head
      /\ UNCHANGED <<local, remote, dirty, online, prs, crashes>>

\* Mutant: the branch is deleted under a worktree that has it checked out.
DeleteBranchForced(p) ==
  /\ at(p, "delete")
  /\ local' = [local EXCEPT ![run[p].repo] = @ \ {run[p].plan}]
  /\ goto(p, "unpublish")
  /\ UNCHANGED <<remote, head, dirty, online, prs, crashes>>

\* Mutant: a refusal of git is passed over, as that of the remote deletion is.
DeleteBranchIgnored(p) ==
  LET r == run[p].repo
      plan == run[p].plan
  IN  /\ at(p, "delete")
      /\ local' = IF head[r] # plan THEN [local EXCEPT ![r] = @ \ {plan}]
                                    ELSE local
      /\ goto(p, "unpublish")
      /\ UNCHANGED <<remote, head, dirty, online, prs, crashes>>

\* git branch -D: refused when the branch is gone or checked out (again).
DeleteBranch(p) ==
  LET r == run[p].repo
      plan == run[p].plan
  IN  /\ at(p, "delete")
      /\ IF plan \in local[r] /\ head[r] # plan
         THEN /\ local' = [local EXCEPT ![r] = @ \ {plan}]
              /\ goto(p, "unpublish")
         ELSE settle(p, "failed", FALSE) /\ UNCHANGED local
      /\ UNCHANGED <<remote, head, dirty, online, prs, crashes>>

\* git push origin --delete, tried only after the local deletion; a failure is
\* a warning.  The host closes a pull request whose head branch is deleted.
UnpublishBranch(p) ==
  LET r == run[p].repo
      plan == run[p].plan
      deleted == online /\ plan \in remote[r]
  IN  /\ at(p, "unpublish")
      /\ IF r \in HasRemote /\ deleted
         THEN /\ remote' = [remote EXCEPT ![r] = @ \ {plan}]
              /\ prs' = prs \ {plan}
         ELSE UNCHANGED <<remote, prs>>
      /\ settle(p, "deleted", r \in HasRemote /\ ~deleted)
      /\ UNCHANGED <<local, head, dirty, online, crashes>>

------------------------------------------------------------------------------
(* The world around the commands. *)

Quiet == \A p \in Proc : Idle(p)

UserCheckout(r, b) ==
  /\ Interfere \/ Quiet
  /\ b \in local[r] \/ (b = Base /\ r \in HasBase)
  /\ head' = [head EXCEPT ![r] = b]
  /\ UNCHANGED <<local, remote, dirty, online, prs, run, crashes>>

UserEdit(r) ==
  /\ Interfere \/ Quiet
  /\ dirty' = IF r \in dirty THEN dirty \ {r} ELSE dirty \cup {r}
  /\ UNCHANGED <<local, remote, head, online, prs, run, crashes>>

Network ==
  /\ online' = ~online
  /\ UNCHANGED <<local, remote, head, dirty, prs, run, crashes>>

\* The process is killed between two git commands and reports nothing.
Crash(p) ==
  /\ ~Idle(p)
  /\ crashes < MaxCrashes
  /\ crashes' = crashes + 1
  /\ run' = [run EXCEPT ![p] = freshRun(@.cmd, @.plan, "idle")]
  /\ UNCHANGED gitVars

------------------------------------------------------------------------------
Step(p) ==
  \/ NextRepo(p)
  \/ Inspect(p) \/ BranchExists(p) \/ CreateBranch(p) \/ PushBranch(p)
  \/ OpenPullRequest(p)
  \/ FindBranch(p) \/ LeaveBranch(p) \/ DeleteBranch(p) \/ UnpublishBranch(p)

Start(p) == \E plan \in Plan : StartApply(p, plan) \/ StartRollback(p, plan)

Environment ==
  \/ \E r \in Repo : UserEdit(r)
  \/ \E r \in Repo : \E b \in Plan \cup {Base} : UserCheckout(r, b)
  \/ Network

Next == \/ \E p \in Proc : Start(p) \/ Step(p) \/ Crash(p)
        \/ Environment

Spec == Init /\ [][Next]_vars

\* A command that was started keeps executing: the loops are synchronous.
FairSpec == Spec /\ \A p \in Proc : WF_vars(Step(p))

------------------------------------------------------------------------------
(* Properties *)

\* What a command is about, by the step it is at.
phaseOf(pc) ==
  CASE pc \in {"idle", "done"} -> "rest"
    [] pc \in {"next", "pr"} -> "between"
    [] pc = "push" -> "branched"
    [] pc = "unpublish" -> "withdrawn"
    [] OTHER -> "working"

workOf(progress) ==
  [cmd |-> progress.cmd, plan |-> progress.plan, repo |-> progress.repo,
   phase |-> phaseOf(progress.pc),
   told |-> progress.report, warned |-> progress.warned]

PB == INSTANCE PlanBranches
        WITH Publishing <- CreatePullRequest,
             work <- [p \in Proc |-> workOf(run[p])]

\* Whatever the interleaving with another command, the developer, the network
\* and kills, a command changes the affected repositories one at a time, each
\* as a whole or not at all, and reports on each what it did there: no origin
\* is touched after a local step that failed, nothing changes unreported, and
\* no affected repository is left out of a result.
Implements == PB!Spec

\* Automation stays bounded (README "branch oriented, policy gated"): a branch
\* of a plan exists, locally or at the origin, only if the gates permitted the
\* plan and only in the repositories it affects.
Bounded == \A r \in Repo : \A q \in local[r] \cup remote[r] :
              q \in Permitted /\ r \in Affected[q]

\* rollbackExecutionPlan switches away before it deletes: whatever the developer
\* checks out meanwhile, no worktree is left on a branch that is gone.
HeadExists == \A r \in Repo : head[r] \in local[r] \cup {Base}

\* What one command reports of a repository is so when it reports it and stays
\* so until the next command: created means the branch exists, and is pushed
\* unless a warning says otherwise; deleted means it is gone, at the origin too
\* unless a warning says otherwise; skipped means there was no local branch.
ReportTrue ==
  \A p \in Proc, r \in Repo :
    LET q == run[p].plan
        quietly == r \notin run[p].warned
    IN  CASE run[p].report[r] = "created" ->
               q \in local[r] /\ (CreatePullRequest /\ quietly => q \in remote[r])
          [] run[p].report[r] = "deleted" ->
               q \notin local[r] /\ (quietly => q \notin remote[r])
          [] run[p].report[r] = "skipped" -> q \notin local[r]
          [] OTHER -> TRUE

\* A rollback undoes what the developer has checked out as well: left alone, it
\* fails in a repository only when the tree is dirty or the base is missing.
RollbackFailsOnlyDirty ==
  [][\A p \in Proc, r \in Repo :
       /\ run[p].cmd = "rollback"
       /\ run[p].report[r] # "failed"
       /\ run'[p].report[r] = "failed"
       => r \in dirty \/ r \notin HasBase]_vars

\* Both commands end, whatever fails in whichever repository: every error path
\* of the loops goes on with the next repository.
CommandsEnd == \A p \in Proc : ~Idle(p) ~> Idle(p)

\* A push that failed is made up for: if apply of a plan is run again and again
\* with the origins reachable and the trees clean, and nobody rolls it back,
\* the branch ends up at the origin of every affected repository that has one,
\* although every retry finds the local branch there already.
Calm(q) == /\ online
           /\ dirty = {}
           /\ \A p \in Proc : run[p].plan = q /\ run[p].cmd = "apply"

Retried(q) == /\ <>[]Calm(q)
              /\ \E p \in Proc : []<>(at(p, "next") /\ run[p].todo = Affected[q])

RetryPublishes ==
  \A q \in Permitted :
    Retried(q) => <>[](\A r \in Affected[q] \cap HasRemote \cap HasBase :
                         CreatePullRequest => q \in remote[r])

\* So is a pull request that was refused because its head was not pushed, or
\* that a failed or killed apply never came to: retried in the same way, a plan
\* of one repository gets its request, from the outcome of a loop that creates
\* no branch any more.
RetryOpens ==
  \A q \in Permitted :
    /\ CreatePullRequest /\ GitHub
    /\ Cardinality(Affected[q]) = 1
    /\ Affected[q] \subseteq HasRemote \cap HasBase
    /\ Retried(q)
    => <>[](q \in prs)

\* The rollback of a plan promises to "Delete generated branch ... in each
\* affected repo" (the first of the plan's rollback steps): when it ends with
\* nothing failed and nothing warned of, no affected repository has the branch.
RollbackLeavesNothing ==
  \A p \in Proc :
    /\ at(p, "done")
    /\ run[p].cmd = "rollback"
    /\ run[p].warned = {}
    /\ \A r \in Repo : run[p].report[r] # "failed"
    => \A r \in Affected[run[p].plan] :
          run[p].plan \notin local[r] \cup remote[r]
=============================================================================
