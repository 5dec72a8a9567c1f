-------------------------- MODULE Execution_proofs --------------------------
(***************************************************************************)
(* Proofs about Execution, for any repositories, plans, processes and       *)
(* bounds: type correctness, that automation stays bounded, that no         *)
(* worktree is left on a deleted branch, that Execution implements           *)
(* PlanBranches, and, for commands that work on different plans, that       *)
(* reports are true and why a rollback fails.                               *)
(*                                                                          *)
(* None of these is inductive alone: what a command may do to a branch      *)
(* depends on how it came to where it is.  RunOK says that: a command in    *)
(* the middle of apply passed the gates, and the repository in hand is one  *)
(* its plan affects.  For the refinement, AllTold says which repositories    *)
(* were reported on.  For reports, ReportInv says what each step has found  *)
(* or done about the repository in hand and nobody else has undone.         *)
(***************************************************************************)
EXTENDS Execution, TLAPS

\* The steps only apply takes, and the steps about one repository.
ApplyPc == {"inspect", "exists", "create", "push", "pr"}
RepoPc == {"inspect", "exists", "create", "push",
           "find", "leave", "delete", "unpublish"}

\* How a command came to where it is.
ProcOK(p) ==
  /\ run[p].todo \subseteq Affected[run[p].plan]
  /\ run[p].pc \in ApplyPc => run[p].cmd = "apply"
  /\ ~Idle(p) /\ run[p].cmd = "apply" => run[p].plan \in Permitted
  /\ run[p].pc \in RepoPc => run[p].repo \in Affected[run[p].plan]

RunOK == \A p \in Proc : ProcOK(p)

Inv == TypeOK /\ RunOK /\ Bounded /\ HeadExists

------------------------------------------------------------------------------
(* Typing. *)

\* A command just started is well typed (the loop has not chosen a repository).
LEMMA FreshRunType ==
  ASSUME NEW cmd \in {"apply", "rollback"}, NEW plan \in Plan, NEW pc \in Pc
  PROVE  freshRun(cmd, plan, pc) \in RunType
BY ConstantsAssumption DEF freshRun, RunType, Outcome

LEMMA TypeInit == Init => TypeOK
<1> SUFFICES ASSUME Init PROVE TypeOK
  OBVIOUS
<1>1. (CHOOSE q \in Plan : TRUE) \in Plan
  BY ConstantsAssumption
<1>2. run \in [Proc -> RunType]
  BY <1>1, FreshRunType DEF Init, Pc
<1> QED
  BY <1>2 DEF Init, TypeOK

\* The fields of a progress record.
LEMMA RunFields ==
  ASSUME TypeOK, NEW p \in Proc
  PROVE  /\ run[p].plan \in Plan
         /\ run[p].repo \in Repo
         /\ run[p].todo \in SUBSET Repo
         /\ run[p].cmd \in {"apply", "rollback"}
         /\ run[p].pc \in Pc
         /\ Affected[run[p].plan] \in SUBSET Repo
BY ConstantsAssumption DEF TypeOK, RunType

\* Only process p moves on, to step pc, with the same command, plan and
\* repository.
Moves(p, pc) ==
  /\ run' \in [Proc -> RunType]
  /\ \A q \in Proc \ {p} : run'[q] = run[q]
  /\ run'[p].pc = pc
  /\ run'[p].cmd = run[p].cmd
  /\ run'[p].plan = run[p].plan
  /\ run'[p].repo = run[p].repo
  /\ run'[p].todo = run[p].todo

LEMMA GotoMoves ==
  ASSUME TypeOK, NEW p \in Proc, NEW pc \in Pc, goto(p, pc)
  PROVE  Moves(p, pc)
BY DEF TypeOK, goto, RunType, Moves

\* Settling the repository in hand goes on with the next one.
LEMMA SettleMoves ==
  ASSUME TypeOK, NEW p \in Proc, NEW outcome \in Outcome, NEW warn \in BOOLEAN,
         settle(p, outcome, warn)
  PROVE  Moves(p, "next")
<1> DEFINE r == run[p].repo
           report == [run[p].report EXCEPT ![r] = outcome]
           warned == IF warn THEN run[p].warned \cup {r} ELSE run[p].warned
<1>1. run[p] \in RunType
  BY DEF TypeOK
<1>2. r \in Repo /\ report \in [Repo -> Outcome] /\ warned \in SUBSET Repo
  BY <1>1 DEF RunType
<1>3. run' = [run EXCEPT ![p] = [run[p] EXCEPT !.pc = "next",
                                              !.report = report,
                                              !.warned = warned]]
  BY <1>1 DEF settle, TypeOK, RunType
<1> HIDE DEF report, warned
<1>4. [run[p] EXCEPT !.pc = "next", !.report = report, !.warned = warned]
        \in RunType
  BY <1>1, <1>2 DEF RunType, Pc
<1> QED
  BY <1>1, <1>3, <1>4 DEF TypeOK, Moves, RunType

\* What each step of a command does to its progress record.
LEMMA StepMoves ==
  ASSUME TypeOK, NEW p \in Proc
  PROVE  /\ Inspect(p) => Moves(p, "next") \/ Moves(p, "exists")
         /\ BranchExists(p) => Moves(p, "push") \/ Moves(p, "create")
         /\ CreateBranch(p) => Moves(p, "next") \/ Moves(p, "push")
         /\ PushBranch(p) => Moves(p, "next")
         /\ OpenPullRequest(p) => Moves(p, "done")
         /\ FindBranch(p) => Moves(p, "next") \/ Moves(p, "leave")
         /\ LeaveBranch(p) => Moves(p, "next") \/ Moves(p, "delete")
         /\ DeleteBranch(p) => Moves(p, "next") \/ Moves(p, "unpublish")
         /\ UnpublishBranch(p) => Moves(p, "next")
<1>1. \A pc \in Pc : goto(p, pc) => Moves(p, pc)
  BY GotoMoves
<1>2. \A outcome \in Outcome, warn \in BOOLEAN :
         settle(p, outcome, warn) => Moves(p, "next")
  BY SettleMoves
<1>3. Inspect(p) => Moves(p, "next") \/ Moves(p, "exists")
  BY <1>1, <1>2 DEF Inspect, Pc, Outcome
<1>4. BranchExists(p) => Moves(p, "push") \/ Moves(p, "create")
  BY <1>1 DEF BranchExists, Pc
<1>5. CreateBranch(p) => Moves(p, "next") \/ Moves(p, "push")
  BY <1>1, <1>2 DEF CreateBranch, Pc, Outcome
<1>6. PushBranch(p) => Moves(p, "next")
  <2> DEFINE pushed == /\ CreatePullRequest
                       /\ run[p].repo \in HasRemote
                       /\ online
                       /\ run[p].plan \in local[run[p].repo]
             warn == CreatePullRequest /\ ~pushed
  <2>1. PushBranch(p) => settle(p, "created", warn)
    BY DEF PushBranch
  <2>2. warn \in BOOLEAN
    OBVIOUS
  <2> HIDE DEF warn
  <2> QED
    BY <1>2, <2>1, <2>2 DEF Outcome
<1>7. OpenPullRequest(p) => Moves(p, "done")
  BY <1>1 DEF OpenPullRequest, Pc
<1>8. FindBranch(p) => Moves(p, "next") \/ Moves(p, "leave")
  BY <1>1, <1>2 DEF FindBranch, Pc, Outcome
<1>9. LeaveBranch(p) => Moves(p, "next") \/ Moves(p, "delete")
  BY <1>1, <1>2 DEF LeaveBranch, Pc, Outcome
<1>10. DeleteBranch(p) => Moves(p, "next") \/ Moves(p, "unpublish")
  BY <1>1, <1>2 DEF DeleteBranch, Pc, Outcome
<1>11. UnpublishBranch(p) => Moves(p, "next")
  <2> DEFINE warn == run[p].repo \in HasRemote
                       /\ ~(online /\ run[p].plan \in remote[run[p].repo])
  <2>1. UnpublishBranch(p) => settle(p, "deleted", warn)
    BY DEF UnpublishBranch
  <2>2. warn \in BOOLEAN
    OBVIOUS
  <2> HIDE DEF warn
  <2> QED
    BY <1>2, <2>1, <2>2 DEF Outcome
<1> QED
  BY <1>3, <1>4, <1>5, <1>6, <1>7, <1>8, <1>9, <1>10, <1>11

\* Process p takes repository r out of its list, and nothing else moves.
Takes(p, r) ==
  /\ run' \in [Proc -> RunType]
  /\ \A q \in Proc \ {p} : run'[q] = run[q]
  /\ run'[p].pc = IF run[p].cmd = "apply" THEN "inspect" ELSE "find"
  /\ run'[p].cmd = run[p].cmd
  /\ run'[p].plan = run[p].plan
  /\ run'[p].repo = r
  /\ run'[p].todo = run[p].todo \ {r}

\* The head of the loop takes a repository or leaves the loop.
LEMMA NextRepoMoves ==
  ASSUME TypeOK, NEW p \in Proc, NextRepo(p)
  PROVE  \/ \E r \in run[p].todo : Takes(p, r)
         \/ run[p].cmd = "apply" /\ Moves(p, "pr")
         \/ Moves(p, "done")
<1> DEFINE pc == IF run[p].cmd = "apply" THEN "inspect" ELSE "find"
           out == IF run[p].cmd = "apply" THEN "pr" ELSE "done"
<1>1. pc \in Pc /\ out \in Pc
  BY DEF Pc
<1>2. CASE goto(p, out)
  BY <1>1, <1>2, GotoMoves
<1>3. ASSUME NEW r \in run[p].todo,
             run' = [run EXCEPT ![p].todo = @ \ {r}, ![p].repo = r,
                                ![p].pc = pc]
      PROVE  Takes(p, r)
  <2>1. run[p] \in RunType /\ r \in Repo
    BY <1>3, RunFields DEF TypeOK
  <2>2. run' = [run EXCEPT ![p] = [run[p] EXCEPT !.todo = @ \ {r},
                                                 !.repo = r, !.pc = pc]]
    BY <1>3, <2>1 DEF RunType, TypeOK
  <2>3. [run[p] EXCEPT !.todo = @ \ {r}, !.repo = r, !.pc = pc] \in RunType
    BY <1>1, <2>1 DEF RunType
  <2> QED
    BY <2>1, <2>2, <2>3 DEF TypeOK, RunType, Takes
<1>4. \/ goto(p, out)
      \/ \E r \in run[p].todo :
           run' = [run EXCEPT ![p].todo = @ \ {r}, ![p].repo = r,
                              ![p].pc = pc]
  BY DEF NextRepo
<1>5. CASE \E r \in run[p].todo :
             run' = [run EXCEPT ![p].todo = @ \ {r}, ![p].repo = r,
                                ![p].pc = pc]
  <2> HIDE DEF pc
  <2> QED
    BY <1>3, <1>5
<1> QED
  BY <1>2, <1>4, <1>5

LEMMA TypeNext == TypeOK /\ [Next]_vars => TypeOK'
<1> SUFFICES ASSUME TypeOK, [Next]_vars PROVE TypeOK'
  OBVIOUS
<1> USE DEF TypeOK
<1>1. ASSUME NEW p \in Proc, NEW plan \in Plan,
             StartApply(p, plan) \/ StartRollback(p, plan)
      PROVE  TypeOK'
  <2>1. \A cmd \in {"apply", "rollback"}, pc \in Pc :
          freshRun(cmd, plan, pc) \in RunType
    BY FreshRunType
  <2>2. PICK cmd \in {"apply", "rollback"}, pc \in Pc :
          run' = [run EXCEPT ![p] = freshRun(cmd, plan, pc)]
    <3>1. CASE StartApply(p, plan)
      <4> DEFINE pc == IF plan \in Permitted THEN "next" ELSE "done"
      <4>2. pc \in Pc
        BY DEF Pc
      <4>3. run' = [run EXCEPT ![p] = freshRun("apply", plan, pc)]
        BY <3>1 DEF StartApply
      <4> QED
        BY <4>2, <4>3, Zenon
    <3>2. CASE StartRollback(p, plan)
      BY <3>2 DEF StartRollback, Pc
    <3> QED
      BY <1>1, <3>1, <3>2
  <2>3. run' \in [Proc -> RunType]
    BY <2>1, <2>2
  <2> QED
    BY <1>1, <2>3 DEF StartApply, StartRollback, gitVars
<1>2. ASSUME NEW p \in Proc, NextRepo(p) PROVE TypeOK'
  <2>1. run' \in [Proc -> RunType]
    BY <1>2, NextRepoMoves DEF Moves, Takes
  <2> QED
    BY <1>2, <2>1 DEF NextRepo, gitVars
<1>3. ASSUME NEW p \in Proc, Step(p), ~NextRepo(p) PROVE TypeOK'
  <2>1. run' \in [Proc -> RunType]
    BY <1>3, StepMoves DEF Step, Moves
  <2>2. run[p].plan \in Plan /\ run[p].repo \in Repo
    BY RunFields
  <2>3. CASE Inspect(p) \/ BranchExists(p) \/ FindBranch(p)
    BY <2>1, <2>3 DEF Inspect, BranchExists, FindBranch, gitVars
  <2>4. CASE CreateBranch(p)
    <3>1. \/ local' = local
          \/ local' = [local EXCEPT ![run[p].repo] = @ \cup {run[p].plan}]
      BY <2>4 DEF CreateBranch
    <3>2. local' \in [Repo -> SUBSET Plan]
      BY <2>2, <3>1
    <3> QED
      BY <2>1, <2>4, <3>2 DEF CreateBranch
  <2>5. CASE PushBranch(p)
    BY <2>1, <2>2, <2>5 DEF PushBranch
  <2>6. CASE OpenPullRequest(p)
    BY <2>1, <2>2, <2>6 DEF OpenPullRequest
  <2>7. CASE LeaveBranch(p)
    <3>1. \/ head' = head
          \/ head' = [head EXCEPT ![run[p].repo] = Base]
      BY <2>7 DEF LeaveBranch
    <3>2. head' \in [Repo -> Plan \cup {Base}]
      BY <2>2, <3>1
    <3> QED
      BY <2>1, <2>7, <3>2 DEF LeaveBranch
  <2>8. CASE DeleteBranch(p)
    <3>1. \/ local' = local
          \/ local' = [local EXCEPT ![run[p].repo] = @ \ {run[p].plan}]
      BY <2>8 DEF DeleteBranch
    <3>2. local' \in [Repo -> SUBSET Plan]
      BY <2>2, <3>1
    <3> QED
      BY <2>1, <2>8, <3>2 DEF DeleteBranch
  <2>9. CASE UnpublishBranch(p)
    BY <2>1, <2>2, <2>9 DEF UnpublishBranch
  <2> QED
    BY <1>3, <2>3, <2>4, <2>5, <2>6, <2>7, <2>8, <2>9 DEF Step
<1>4. ASSUME NEW p \in Proc, Crash(p) PROVE TypeOK'
  <2>1. freshRun(run[p].cmd, run[p].plan, "idle") \in RunType
    BY RunFields, FreshRunType DEF Pc
  <2>2. run' \in [Proc -> RunType]
    BY <1>4, <2>1 DEF Crash
  <2> QED
    BY <1>4, <2>2 DEF Crash, gitVars
<1>5. ASSUME Environment PROVE TypeOK'
  BY <1>5 DEF Environment, UserEdit, UserCheckout, Network
<1>6. CASE UNCHANGED vars
  BY <1>6 DEF vars
<1> QED
  BY <1>1, <1>2, <1>3, <1>4, <1>5, <1>6 DEF Next, Start

\* Every variable of Execution keeps its type.
THEOREM TypeCorrect == Spec => []TypeOK
<1> QED
  BY TypeInit, TypeNext, PTL DEF Spec

------------------------------------------------------------------------------
(* How a command came to where it is. *)

LEMMA RunInit == Init => RunOK
<1> SUFFICES ASSUME Init, NEW p \in Proc PROVE ProcOK(p)
  BY DEF RunOK
<1> DEFINE q == CHOOSE q \in Plan : TRUE
<1>1. run[p] = freshRun("apply", q, "idle")
  BY DEF Init
<1> HIDE DEF q
<1> QED
  BY <1>1 DEF freshRun, ProcOK, Idle, ApplyPc, RepoPc

\* A step inside a command keeps what is known of it.
LEMMA MovesOK ==
  ASSUME TypeOK, RunOK, NEW p \in Proc, NEW pc \in Pc, Moves(p, pc),
         pc \in ApplyPc => run[p].cmd = "apply",
         ~Idle(p) \/ pc \in {"idle", "done"},
         pc \in RepoPc => run[p].pc \in RepoPc
  PROVE  RunOK'
<1> SUFFICES ASSUME NEW q \in Proc PROVE ProcOK(q)'
  BY DEF RunOK
<1>1. CASE q = p
  BY <1>1 DEF RunOK, ProcOK, Moves, Idle
<1>2. CASE q # p
  BY <1>2 DEF RunOK, ProcOK, Moves, Idle
<1> QED
  BY <1>1, <1>2

\* A command that starts, or starts over after a kill, is as it should be.
LEMMA FreshOK ==
  ASSUME TypeOK, RunOK, NEW p \in Proc,
         NEW cmd \in {"apply", "rollback"}, NEW plan \in Plan,
         NEW pc \in {"idle", "next", "done"},
         run' = [run EXCEPT ![p] = freshRun(cmd, plan, pc)],
         pc = "next" /\ cmd = "apply" => plan \in Permitted
  PROVE  RunOK'
<1> SUFFICES ASSUME NEW q \in Proc PROVE ProcOK(q)'
  BY DEF RunOK
<1>1. CASE q = p
  <2>1. run'[q] = freshRun(cmd, plan, pc)
    BY <1>1 DEF TypeOK
  <2> QED
    BY <2>1 DEF freshRun, ProcOK, Idle, ApplyPc, RepoPc
<1>2. CASE q # p
  BY <1>2 DEF TypeOK, RunOK, ProcOK, Idle
<1> QED
  BY <1>1, <1>2

LEMMA RunNext == TypeOK /\ RunOK /\ [Next]_vars => RunOK'
<1> SUFFICES ASSUME TypeOK, RunOK, [Next]_vars PROVE RunOK'
  OBVIOUS
<1>1. ASSUME NEW p \in Proc, NEW plan \in Plan, StartApply(p, plan)
      PROVE  RunOK'
  <2>1. CASE plan \in Permitted
    BY <1>1, <2>1, FreshOK DEF StartApply
  <2>2. CASE plan \notin Permitted
    BY <1>1, <2>2, FreshOK DEF StartApply
  <2> QED
    BY <2>1, <2>2
<1>2. ASSUME NEW p \in Proc, NEW plan \in Plan, StartRollback(p, plan)
      PROVE  RunOK'
  BY <1>2, FreshOK DEF StartRollback
<1>3. ASSUME NEW p \in Proc, NextRepo(p) PROVE RunOK'
  <2>1. ASSUME NEW r \in run[p].todo, Takes(p, r) PROVE RunOK'
    <3> SUFFICES ASSUME NEW q \in Proc PROVE ProcOK(q)'
      BY DEF RunOK
    <3>1. CASE q = p
      BY <1>3, <2>1, <3>1 DEF RunOK, ProcOK, Takes, Idle, ApplyPc, RepoPc,
                              NextRepo, at
    <3>2. CASE q # p
      BY <2>1, <3>2 DEF RunOK, ProcOK, Takes, Idle
    <3> QED
      BY <3>1, <3>2
  <2>2. CASE run[p].cmd = "apply" /\ Moves(p, "pr")
    BY <1>3, <2>2, MovesOK DEF NextRepo, at, Idle, Pc, ApplyPc, RepoPc
  <2>3. CASE Moves(p, "done")
    BY <2>3, MovesOK DEF Pc, ApplyPc, RepoPc
  <2> QED
    BY <1>3, <2>1, <2>2, <2>3, NextRepoMoves
<1>4. ASSUME NEW p \in Proc, Step(p), ~NextRepo(p) PROVE RunOK'
  <2>1. ASSUME NEW pc \in {"exists", "create", "push"}, Moves(p, pc),
               Inspect(p) \/ BranchExists(p) \/ CreateBranch(p)
        PROVE  RunOK'
    <3>1. run[p].pc \in {"inspect", "exists", "create"}
      BY <2>1 DEF Inspect, BranchExists, CreateBranch, at
    <3>2. run[p].cmd = "apply"
      BY <3>1 DEF RunOK, ProcOK, ApplyPc
    <3> QED
      BY <2>1, <3>1, <3>2, MovesOK DEF Pc, RepoPc, Idle
  <2>2. ASSUME NEW pc \in {"leave", "delete", "unpublish"}, Moves(p, pc),
               FindBranch(p) \/ LeaveBranch(p) \/ DeleteBranch(p)
        PROVE  RunOK'
    <3>1. run[p].pc \in {"find", "leave", "delete"}
      BY <2>2 DEF FindBranch, LeaveBranch, DeleteBranch, at
    <3> QED
      BY <2>2, <3>1, MovesOK DEF Pc, ApplyPc, RepoPc, Idle
  <2>3. ASSUME NEW pc \in {"next", "done"}, Moves(p, pc) PROVE RunOK'
    <3>1. ~Idle(p)
      BY <1>4 DEF Step, Inspect, BranchExists, CreateBranch, PushBranch,
                  OpenPullRequest, FindBranch, LeaveBranch, DeleteBranch,
                  UnpublishBranch, at, Idle
    <3> QED
      BY <2>3, <3>1, MovesOK DEF Pc, ApplyPc, RepoPc
  <2> QED
    BY <1>4, <2>1, <2>2, <2>3, StepMoves DEF Step
<1>5. ASSUME NEW p \in Proc, Crash(p) PROVE RunOK'
  BY <1>5, FreshOK, RunFields DEF Crash
<1>6. CASE Environment
  BY <1>6 DEF Environment, UserEdit, UserCheckout, Network, RunOK, ProcOK, Idle
<1>7. CASE UNCHANGED vars
  BY <1>7 DEF vars, RunOK, ProcOK, Idle
<1> QED
  BY <1>1, <1>2, <1>3, <1>4, <1>5, <1>6, <1>7 DEF Next, Start

------------------------------------------------------------------------------
(* What a step of the system can do to branches and worktrees: every action *)
(* is one of these five changes or none.                                    *)

Created(q, r) ==
  /\ q \in Permitted /\ r \in Affected[q] /\ q \notin local[r]
  /\ local' = [local EXCEPT ![r] = @ \cup {q}]
  /\ UNCHANGED <<remote, head>>

Published(q, r) ==
  /\ q \in local[r]
  /\ remote' = [remote EXCEPT ![r] = @ \cup {q}]
  /\ UNCHANGED <<local, head>>

Deleted(q, r) ==
  /\ q \in local[r] /\ head[r] # q
  /\ local' = [local EXCEPT ![r] = @ \ {q}]
  /\ UNCHANGED <<remote, head>>

Unpublished(q, r) ==
  /\ q \in remote[r]
  /\ remote' = [remote EXCEPT ![r] = @ \ {q}]
  /\ UNCHANGED <<local, head>>

Switched(b, r) ==
  /\ b \in local[r] \cup {Base}
  /\ head' = [head EXCEPT ![r] = b]
  /\ UNCHANGED <<local, remote>>

Untouched == UNCHANGED <<local, remote, head>>

Change ==
  \/ \E q \in Plan, r \in Repo : \/ Created(q, r) \/ Published(q, r)
                                 \/ Deleted(q, r) \/ Unpublished(q, r)
  \/ \E b \in Plan \cup {Base}, r \in Repo : Switched(b, r)
  \/ Untouched

LEMMA EveryChange == TypeOK /\ RunOK /\ [Next]_vars => Change
<1> SUFFICES ASSUME TypeOK, RunOK, [Next]_vars PROVE Change
  OBVIOUS
<1>1. ASSUME NEW p \in Proc, Start(p) \/ NextRepo(p) \/ Crash(p) PROVE Change
  BY <1>1 DEF Start, StartApply, StartRollback, NextRepo, Crash, gitVars,
              Change, Untouched
<1>2. ASSUME NEW p \in Proc, Inspect(p) \/ BranchExists(p) \/ FindBranch(p)
      PROVE  Change
  BY <1>2 DEF Inspect, BranchExists, FindBranch, gitVars, Change, Untouched
<1>3. ASSUME NEW p \in Proc, CreateBranch(p) PROVE Change
  <2> DEFINE q == run[p].plan
             r == run[p].repo
  <2>1. q \in Plan /\ r \in Repo
    BY RunFields
  <2>2. q \in Permitted /\ r \in Affected[q]
    BY <1>3 DEF CreateBranch, at, RunOK, ProcOK, Idle, ApplyPc, RepoPc
  <2>3. CASE q \in local[r]
    BY <1>3, <2>3 DEF CreateBranch, Change, Untouched
  <2>4. CASE q \notin local[r]
    <3>1. Created(q, r)
      BY <1>3, <2>2, <2>4 DEF CreateBranch, Created
    <3> QED
      BY <2>1, <3>1 DEF Change
  <2> QED
    BY <2>3, <2>4
<1>4. ASSUME NEW p \in Proc, PushBranch(p) PROVE Change
  <2> DEFINE q == run[p].plan
             r == run[p].repo
  <2>1. q \in Plan /\ r \in Repo
    BY RunFields
  <2>2. Published(q, r) \/ Untouched
    BY <1>4 DEF PushBranch, Published, Untouched
  <2> QED
    BY <2>1, <2>2 DEF Change
<1>5. ASSUME NEW p \in Proc, OpenPullRequest(p) PROVE Change
  BY <1>5 DEF OpenPullRequest, Change, Untouched
<1>6. ASSUME NEW p \in Proc, LeaveBranch(p) PROVE Change
  <2> DEFINE r == run[p].repo
  <2>1. r \in Repo
    BY RunFields
  <2>2. Untouched \/ Switched(Base, r)
    BY <1>6 DEF LeaveBranch, Switched, Untouched
  <2> QED
    BY <2>1, <2>2 DEF Change
<1>7. ASSUME NEW p \in Proc, DeleteBranch(p) PROVE Change
  <2> DEFINE q == run[p].plan
             r == run[p].repo
  <2>1. q \in Plan /\ r \in Repo
    BY RunFields
  <2>2. CASE q \in local[r] /\ head[r] # q
    <3>1. Deleted(q, r)
      BY <1>7, <2>2 DEF DeleteBranch, Deleted
    <3> QED
      BY <2>1, <3>1 DEF Change
  <2>3. CASE ~(q \in local[r] /\ head[r] # q)
    BY <1>7, <2>3 DEF DeleteBranch, Change, Untouched
  <2> QED
    BY <2>2, <2>3
<1>8. ASSUME NEW p \in Proc, UnpublishBranch(p) PROVE Change
  <2> DEFINE q == run[p].plan
             r == run[p].repo
  <2>1. q \in Plan /\ r \in Repo
    BY RunFields
  <2>2. Unpublished(q, r) \/ Untouched
    BY <1>8 DEF UnpublishBranch, Unpublished, Untouched
  <2> QED
    BY <2>1, <2>2 DEF Change
<1>9. ASSUME NEW b \in Plan \cup {Base}, NEW r \in Repo, UserCheckout(r, b)
      PROVE  Change
  <2>1. Switched(b, r)
    BY <1>9 DEF UserCheckout, Switched
  <2> QED
    BY <2>1 DEF Change
<1>10. CASE (\E r \in Repo : UserEdit(r)) \/ Network \/ UNCHANGED vars
  BY <1>10 DEF UserEdit, Network, vars, Change, Untouched
<1> QED
  BY <1>1, <1>2, <1>3, <1>4, <1>5, <1>6, <1>7, <1>8, <1>9, <1>10
     DEF Next, Step, Environment

------------------------------------------------------------------------------
(* The invariants. *)

LEMMA BoundedNext == TypeOK /\ Bounded /\ Change => Bounded'
BY ConstantsAssumption
   DEF TypeOK, Bounded, Change, Created, Published, Deleted, Unpublished,
       Switched, Untouched

LEMMA HeadNext == TypeOK /\ HeadExists /\ Change => HeadExists'
BY DEF TypeOK, HeadExists, Change, Created, Published, Deleted, Unpublished,
       Switched, Untouched

LEMMA InvInit == Init => Inv
<1>1. Init => Bounded /\ HeadExists
  BY DEF Init, Bounded, HeadExists
<1> QED
  BY <1>1, TypeInit, RunInit DEF Inv

LEMMA InvNext == Inv /\ [Next]_vars => Inv'
BY TypeNext, RunNext, EveryChange, BoundedNext, HeadNext DEF Inv

\* Types, what a command holds, and the two properties, all along.
THEOREM Invariant == Spec => []Inv
BY InvInit, InvNext, PTL DEF Spec

\* Automation stays within the plans the gates let through and the repositories
\* they affect.
THEOREM BoundedCorrect == Spec => []Bounded
BY Invariant, PTL DEF Inv

\* No worktree is on a branch that is gone.
THEOREM HeadCorrect == Spec => []HeadExists
BY Invariant, PTL DEF Inv

------------------------------------------------------------------------------
(* Refinement. *)

\* What the commands at work are about, as PlanBranches sees them.
Work == [p \in Proc |-> workOf(run[p])]

\* The steps of a rollback about one repository.
UndoPc == {"find", "leave", "delete", "unpublish"}

\* What a command has told of: every affected repository but those to come and
\* the one in hand; nothing is to come when the loop is over.
Told(p) ==
  /\ run[p].pc \in UndoPc => run[p].cmd = "rollback"
  /\ run[p].pc \in RepoPc => run[p].repo \notin run[p].todo
  /\ at(p, "pr") => run[p].todo = {}
  /\ ~Idle(p) =>
       \A r \in Affected[run[p].plan] :
         run[p].report[r] = "none" <=>
           r \in run[p].todo \/ (run[p].pc \in RepoPc /\ r = run[p].repo)

AllTold == \A p \in Proc : Told(p)

\* Process p goes to its next step, and its report stays.
Goes(p, pc) == /\ Moves(p, pc)
               /\ run'[p].report = run[p].report
               /\ run'[p].warned = run[p].warned

\* It settles the repository in hand.
Settles(p, outcome, warn) ==
  /\ Moves(p, "next")
  /\ run'[p].report = [run[p].report EXCEPT ![run[p].repo] = outcome]
  /\ run'[p].warned = IF warn THEN run[p].warned \cup {run[p].repo}
                              ELSE run[p].warned

LEMMA GotoReports ==
  ASSUME TypeOK, NEW p \in Proc, NEW pc \in Pc, goto(p, pc)
  PROVE  Goes(p, pc)
BY GotoMoves DEF TypeOK, goto, RunType, Goes

LEMMA SettleReports ==
  ASSUME TypeOK, NEW p \in Proc, NEW outcome \in Outcome, NEW warn \in BOOLEAN,
         settle(p, outcome, warn)
  PROVE  Settles(p, outcome, warn)
<1>1. run[p] \in RunType
  BY DEF TypeOK
<1>2. run'[p] = [run[p] EXCEPT !.pc = "next", !.report[run[p].repo] = outcome,
                               !.warned = IF warn THEN @ \cup {run[p].repo}
                                                  ELSE @]
  BY DEF settle, TypeOK
<1> QED
  BY <1>1, <1>2, SettleMoves DEF Settles, RunType

\* The loop takes a repository, and its report stays.
LEMMA NextRepoReports ==
  ASSUME TypeOK, NEW p \in Proc, NextRepo(p)
  PROVE  \/ /\ \E r \in run[p].todo : Takes(p, r)
            /\ run'[p].report = run[p].report /\ run'[p].warned = run[p].warned
         \/ /\ run[p].todo = {}
            /\ Goes(p, IF run[p].cmd = "apply" THEN "pr" ELSE "done")
<1> DEFINE out == IF run[p].cmd = "apply" THEN "pr" ELSE "done"
           in == IF run[p].cmd = "apply" THEN "inspect" ELSE "find"
<1>1. CASE run[p].todo = {} /\ goto(p, out)
  <2>1. out \in Pc
    BY DEF Pc
  <2> QED
    BY <1>1, <2>1, GotoReports
<1>2. ASSUME NEW r \in run[p].todo,
             run' = [run EXCEPT ![p].todo = @ \ {r}, ![p].repo = r, ![p].pc = in]
      PROVE  Takes(p, r) /\ run'[p].report = run[p].report
                         /\ run'[p].warned = run[p].warned
  <2>1. run[p] \in RunType /\ r \in Repo /\ in \in Pc
    BY <1>2, RunFields DEF TypeOK, Pc
  <2>2. run' = [run EXCEPT ![p] = [run[p] EXCEPT !.todo = @ \ {r},
                                                 !.repo = r, !.pc = in]]
    BY <1>2, <2>1 DEF RunType, TypeOK
  <2>3. [run[p] EXCEPT !.todo = @ \ {r}, !.repo = r, !.pc = in] \in RunType
    BY <2>1 DEF RunType
  <2> QED
    BY <2>1, <2>2, <2>3 DEF TypeOK, RunType, Takes
<1> HIDE DEF in
<1>3. \/ \E r \in run[p].todo :
           run' = [run EXCEPT ![p].todo = @ \ {r}, ![p].repo = r, ![p].pc = in]
      \/ run[p].todo = {} /\ goto(p, out)
  BY DEF NextRepo, in
<1> HIDE DEF out
<1>4. CASE \E r \in run[p].todo :
             run' = [run EXCEPT ![p].todo = @ \ {r}, ![p].repo = r, ![p].pc = in]
  BY <1>2, <1>4
<1> QED
  BY <1>1, <1>3, <1>4 DEF out

\* What a command has told of, step by step.
LEMMA GoesTold ==
  ASSUME TypeOK, AllTold, NEW p \in Proc, NEW pc \in RepoPc, Goes(p, pc),
         run[p].pc \in RepoPc,
         pc \in UndoPc => run[p].pc \in UndoPc
  PROVE  Told(p)'
BY DEF AllTold, Told, Goes, Moves, Idle, at, RepoPc, UndoPc

LEMMA SettlesTold ==
  ASSUME TypeOK, AllTold, NEW p \in Proc, NEW outcome \in Outcome \ {"none"},
         NEW warn, Settles(p, outcome, warn), run[p].pc \in RepoPc
  PROVE  Told(p)'
<1>1. run[p] \in RunType /\ Affected[run[p].plan] \in SUBSET Repo /\ Told(p)
  BY RunFields DEF TypeOK, AllTold
<1>2. \A r \in Repo : run'[p].report[r] = IF r = run[p].repo THEN outcome
                                          ELSE run[p].report[r]
  BY <1>1 DEF Settles, RunType
<1> QED
  BY <1>1, <1>2 DEF Settles, Moves, Told, Idle, at, RepoPc, UndoPc

LEMMA TakesTold ==
  ASSUME TypeOK, RunOK, AllTold, NEW p \in Proc, NextRepo(p)
  PROVE  Told(p)'
<1>1. Told(p) /\ at(p, "next") /\ run[p].cmd \in {"apply", "rollback"}
  BY RunFields DEF AllTold, NextRepo
<1>2. ASSUME NEW r \in run[p].todo, Takes(p, r), run'[p].report = run[p].report
      PROVE  Told(p)'
  BY <1>1, <1>2 DEF Told, Takes, Idle, at, RepoPc, UndoPc
<1>3. CASE run[p].todo = {} /\ Goes(p, IF run[p].cmd = "apply" THEN "pr"
                                                              ELSE "done")
  BY <1>1, <1>3 DEF Told, Goes, Moves, Idle, at, RepoPc, UndoPc
<1> QED
  BY <1>2, <1>3, NextRepoReports

LEMMA FreshTold ==
  ASSUME TypeOK, NEW p \in Proc, NEW cmd, NEW plan \in Plan,
         NEW pc \in {"idle", "next", "done"},
         run'[p] = freshRun(cmd, plan, pc)
  PROVE  Told(p)'
<1>1. Affected[plan] \subseteq Repo
  BY ConstantsAssumption
<1> QED
  BY <1>1 DEF freshRun, Told, Idle, at, RepoPc, UndoPc

LEMMA ToldInit == Init => AllTold
<1> SUFFICES ASSUME Init, NEW p \in Proc PROVE Told(p)
  BY DEF AllTold
<1> DEFINE q == CHOOSE q \in Plan : TRUE
<1>1. run[p] = freshRun("apply", q, "idle")
  BY DEF Init
<1> HIDE DEF q
<1> QED
  BY <1>1 DEF freshRun, Told, Idle, at, RepoPc, UndoPc

\* A step of a process, but the head of the loop: where it goes, and with what
\* report.
LEMMA StepGoes ==
  ASSUME TypeOK, NEW p \in Proc
  PROVE  /\ Inspect(p) => settle(p, "failed", FALSE) \/ Goes(p, "exists")
         /\ BranchExists(p) =>
              \/ Goes(p, "push") /\ run[p].plan \in local[run[p].repo]
              \/ Goes(p, "create")
         /\ CreateBranch(p) => settle(p, "failed", FALSE) \/ Goes(p, "push")
         /\ OpenPullRequest(p) => Goes(p, "done")
         /\ FindBranch(p) => settle(p, "skipped", FALSE) \/ Goes(p, "leave")
         /\ LeaveBranch(p) => settle(p, "failed", FALSE) \/ Goes(p, "delete")
         /\ DeleteBranch(p) => settle(p, "failed", FALSE) \/ Goes(p, "unpublish")
<1>1. \A pc \in Pc : goto(p, pc) => Goes(p, pc)
  BY GotoReports
<1> QED
  BY <1>1 DEF Inspect, BranchExists, CreateBranch, OpenPullRequest, FindBranch,
     LeaveBranch, DeleteBranch, Pc

LEMMA ToldNext == TypeOK /\ RunOK /\ AllTold /\ [Next]_vars => AllTold'
<1> SUFFICES ASSUME TypeOK, RunOK, AllTold, [Next]_vars PROVE AllTold'
  OBVIOUS
\* A process whose record stays has told of the same.
<1>1. ASSUME NEW p \in Proc, run'[p] = run[p] PROVE Told(p)'
  BY <1>1 DEF AllTold, Told, Idle, at
<1>2. ASSUME NEW p \in Proc, NEW cmd, NEW plan \in Plan,
             NEW pc \in {"idle", "next", "done"},
             run' = [run EXCEPT ![p] = freshRun(cmd, plan, pc)]
      PROVE  AllTold'
  <2>1. run'[p] = freshRun(cmd, plan, pc) /\ \A o \in Proc \ {p} : run'[o] = run[o]
    BY <1>2 DEF TypeOK
  <2> QED
    BY <1>1, <2>1, FreshTold DEF AllTold
<1>3. ASSUME NEW p \in Proc, Start(p) \/ Crash(p) PROVE AllTold'
  BY <1>2, <1>3, RunFields DEF Start, StartApply, StartRollback, Crash
<1>4. ASSUME NEW p \in Proc, Step(p), NEW i \in Proc PROVE Told(i)'
  <2>1. \A o \in Proc \ {p} : run'[o] = run[o]
    <3>1. CASE NextRepo(p)
      BY <3>1, NextRepoMoves DEF Moves, Takes
    <3>2. CASE ~NextRepo(p)
      BY <1>4, <3>2, StepMoves DEF Step, Moves
    <3> QED
      BY <3>1, <3>2
  <2>2. \A outcome \in Outcome \ {"none"}, warn \in BOOLEAN :
          settle(p, outcome, warn) /\ run[p].pc \in RepoPc => Told(p)'
    BY SettleReports, SettlesTold
  <2>3. \A pc \in RepoPc :
          Goes(p, pc) /\ run[p].pc \in RepoPc /\ (pc \in UndoPc => run[p].pc \in UndoPc)
          => Told(p)'
    BY GoesTold
  <2> SUFFICES Told(p)'
    BY <1>1, <2>1
  <2>4. CASE NextRepo(p)
    BY <2>4, TakesTold
  <2>5. CASE Inspect(p) \/ BranchExists(p) \/ CreateBranch(p)
    BY <2>2, <2>3, <2>5, StepGoes
       DEF Inspect, BranchExists, CreateBranch, at, RepoPc, UndoPc, Outcome
  <2>6. CASE PushBranch(p)
    <3> DEFINE pushed == /\ CreatePullRequest
                         /\ run[p].repo \in HasRemote
                         /\ online
                         /\ run[p].plan \in local[run[p].repo]
               warn == CreatePullRequest /\ ~pushed
    <3>1. settle(p, "created", warn) /\ warn \in BOOLEAN /\ run[p].pc \in RepoPc
      BY <2>6 DEF PushBranch, at, RepoPc
    <3> HIDE DEF warn
    <3> QED
      BY <2>2, <3>1 DEF Outcome
  <2>7. CASE OpenPullRequest(p)
    <3>1. Goes(p, "done")
      BY <2>7, StepGoes
    <3> QED
      BY <2>7, <3>1 DEF OpenPullRequest, AllTold, Told, Goes, Moves, Idle, at,
                        RepoPc, UndoPc
  <2>8. CASE FindBranch(p) \/ LeaveBranch(p) \/ DeleteBranch(p)
    BY <2>2, <2>3, <2>8, StepGoes
       DEF FindBranch, LeaveBranch, DeleteBranch, at, RepoPc, UndoPc, Outcome
  <2>9. CASE UnpublishBranch(p)
    <3> DEFINE warn == run[p].repo \in HasRemote
                         /\ ~(online /\ run[p].plan \in remote[run[p].repo])
    <3>1. settle(p, "deleted", warn) /\ warn \in BOOLEAN /\ run[p].pc \in RepoPc
      BY <2>9 DEF UnpublishBranch, at, RepoPc
    <3> HIDE DEF warn
    <3> QED
      BY <2>2, <3>1 DEF Outcome
  <2> QED
    BY <1>4, <2>4, <2>5, <2>6, <2>7, <2>8, <2>9 DEF Step
<1>5. CASE Environment \/ UNCHANGED vars
  BY <1>1, <1>5 DEF Environment, UserEdit, UserCheckout, Network, vars, AllTold
<1> QED
  BY <1>3, <1>4, <1>5 DEF Next, AllTold

\* The record of a process as PlanBranches sees it.
LEMMA WorkChanges ==
  ASSUME TypeOK, NEW p \in Proc, NEW w,
         \A o \in Proc \ {p} : run'[o] = run[o],
         workOf(run'[p]) = w
  PROVE  Work' = [Work EXCEPT ![p] = w]
BY DEF Work

LEMMA GoesWork ==
  ASSUME TypeOK, NEW p \in Proc, NEW pc \in Pc, Goes(p, pc)
  PROVE  PB!turn(p, phaseOf(pc))
<1>1. workOf(run'[p]) = [workOf(run[p]) EXCEPT !.phase = phaseOf(pc)]
  BY DEF Goes, Moves, workOf
<1> QED
  BY <1>1, WorkChanges DEF PB!turn, Work, Goes, Moves

\* A step within a phase is no step of PlanBranches.
LEMMA GoesOn ==
  ASSUME TypeOK, NEW p \in Proc, NEW pc \in Pc, Goes(p, pc),
         phaseOf(pc) = phaseOf(run[p].pc)
  PROVE  Work' = Work
<1>1. workOf(run'[p]) = workOf(run[p])
  BY DEF Goes, Moves, workOf
<1> QED
  BY <1>1 DEF Work, Goes, Moves

\* The record of a process that tells.
LEMMA TellsRecord ==
  ASSUME NEW q, NEW phase, NEW told, NEW warned
  PROVE  [workOf(q) EXCEPT !.phase = phase, !.told = told, !.warned = warned] =
         [cmd |-> q.cmd, plan |-> q.plan, repo |-> q.repo,
          phase |-> phase, told |-> told, warned |-> warned]
<1> DEFINE w0 == workOf(q)
           w1 == [cmd |-> q.cmd, plan |-> q.plan, repo |-> q.repo,
                  phase |-> phase, told |-> q.report, warned |-> q.warned]
           w2 == [cmd |-> q.cmd, plan |-> q.plan, repo |-> q.repo,
                  phase |-> phase, told |-> told, warned |-> q.warned]
           w3 == [cmd |-> q.cmd, plan |-> q.plan, repo |-> q.repo,
                  phase |-> phase, told |-> told, warned |-> warned]
<1>1. [w0 EXCEPT !.phase = phase] = w1
  BY DEF workOf
<1>2. [w1 EXCEPT !.told = told] = w2
  OBVIOUS
<1>3. [w2 EXCEPT !.warned = warned] = w3
  OBVIOUS
<1>4. [w0 EXCEPT !.phase = phase, !.told = told, !.warned = warned] = w3
  <2>1. [w0 EXCEPT !.phase = phase, !.told = told, !.warned = warned] =
        [[[w0 EXCEPT !.phase = phase] EXCEPT !.told = told]
           EXCEPT !.warned = warned]
    OBVIOUS
  <2> HIDE DEF w0, w1, w2, w3
  <2> QED
    BY <1>1, <1>2, <1>3, <2>1
<1> HIDE DEF w3
<1> QED
  BY <1>4 DEF w0, w3

LEMMA SettlesWork ==
  ASSUME TypeOK, NEW p \in Proc, NEW outcome \in Outcome, NEW warn \in BOOLEAN,
         settle(p, outcome, warn)
  PROVE  PB!tell(p, outcome, warn)
<1>1. Settles(p, outcome, warn)
  BY SettleReports
<1> DEFINE told == [run[p].report EXCEPT ![run[p].repo] = outcome]
           warned == IF warn THEN run[p].warned \cup {run[p].repo}
                             ELSE run[p].warned
           w == [workOf(run[p]) EXCEPT !.phase = "between", !.told = told,
                                       !.warned = warned]
<1>2. /\ run'[p].pc = "next" /\ run'[p].cmd = run[p].cmd
      /\ run'[p].plan = run[p].plan /\ run'[p].repo = run[p].repo
      /\ run'[p].report = told /\ run'[p].warned = warned
      /\ \A o \in Proc \ {p} : run'[o] = run[o]
  BY <1>1 DEF Settles, Moves
<1>3. PB!tell(p, outcome, warn) <=> Work' = [Work EXCEPT ![p] = w]
  <2>1. /\ Work[p] = workOf(run[p]) /\ Work[p].repo = run[p].repo
        /\ Work[p].told = run[p].report /\ Work[p].warned = run[p].warned
    BY DEF Work, workOf
  <2>2. PB!tell(p, outcome, warn) <=>
          Work' = [Work EXCEPT ![p] =
                     [Work[p] EXCEPT
                        !.phase = "between",
                        !.told = [Work[p].told EXCEPT ![Work[p].repo] = outcome],
                        !.warned = IF warn
                                   THEN Work[p].warned \cup {Work[p].repo}
                                   ELSE Work[p].warned]]
    BY DEF PB!tell, Work
  <2> QED
    BY <2>1, <2>2
<1> HIDE DEF told, warned
<1>4. workOf(run'[p]) = w
  <2>1. phaseOf("next") = "between"
    BY DEF phaseOf
  <2>2. w = [cmd |-> run[p].cmd, plan |-> run[p].plan, repo |-> run[p].repo,
             phase |-> "between", told |-> told, warned |-> warned]
    BY TellsRecord
  <2> QED
    BY <1>2, <2>1, <2>2 DEF workOf
<1> HIDE DEF w
<1> QED
  BY <1>2, <1>3, <1>4, WorkChanges

\* Process p has told nothing and is in a phase.
Fresh(p, cmd, plan, phase) ==
  \E r \in Repo : Work' = [Work EXCEPT ![p] = PB!Untold(cmd, plan, r, phase)]

LEMMA FreshWork ==
  ASSUME TypeOK, NEW p \in Proc, NEW cmd, NEW plan, NEW pc,
         run' = [run EXCEPT ![p] = freshRun(cmd, plan, pc)]
  PROVE  Fresh(p, cmd, plan, phaseOf(pc))
<1> DEFINE r == CHOOSE r \in Repo : TRUE
<1>1. r \in Repo
  BY ConstantsAssumption
<1>2. run'[p] = freshRun(cmd, plan, pc) /\ \A o \in Proc \ {p} : run'[o] = run[o]
  BY DEF TypeOK
<1> DEFINE none == [s \in Repo |-> "none"]
<1>3. /\ run'[p].cmd = cmd /\ run'[p].plan = plan /\ run'[p].repo = r
      /\ run'[p].pc = pc /\ run'[p].report = none /\ run'[p].warned = {}
  BY <1>2 DEF freshRun
<1>4. PB!Untold(cmd, plan, r, phaseOf(pc)) =
        [cmd |-> cmd, plan |-> plan, repo |-> r, phase |-> phaseOf(pc),
         told |-> none, warned |-> {}]
  BY DEF PB!Untold
<1> HIDE DEF r, none
<1>5. workOf(run'[p]) = PB!Untold(cmd, plan, r, phaseOf(pc))
  BY <1>3, <1>4 DEF workOf
<1> QED
  BY <1>1, <1>2, <1>5, WorkChanges DEF Fresh

\* What PlanBranches sees of a process.
LEMMA WorkFields ==
  ASSUME NEW p \in Proc
  PROVE  /\ Work[p].cmd = run[p].cmd
         /\ Work[p].plan = run[p].plan
         /\ Work[p].repo = run[p].repo
         /\ Work[p].told = run[p].report
         /\ \A phase : PB!in(p, phase) <=> phaseOf(run[p].pc) = phase
BY DEF Work, workOf, PB!in

\* Each step of a command is one of PlanBranches, or none.
LEMMA StepImplements ==
  ASSUME Inv, AllTold, NEW p \in Proc, Step(p)
  PROVE  PB!Next \/ UNCHANGED <<local, remote, Work>>
<1> DEFINE r == run[p].repo
           q == run[p].plan
<1>1. TypeOK /\ ProcOK(p) /\ Told(p) /\ r \in Repo /\ q \in Plan
      /\ Affected[q] \in SUBSET Repo
  BY RunFields DEF Inv, RunOK, AllTold
<1>2. /\ Work[p].cmd = run[p].cmd
      /\ Work[p].plan = q
      /\ Work[p].repo = r
      /\ Work[p].told = run[p].report
      /\ \A phase : PB!in(p, phase) <=> phaseOf(run[p].pc) = phase
  BY WorkFields
<1>3. \A pc \in Pc : Goes(p, pc) => PB!turn(p, phaseOf(pc))
  BY <1>1, GoesWork
<1>4. \A pc \in Pc : Goes(p, pc) /\ phaseOf(pc) = phaseOf(run[p].pc)
                     => Work' = Work
  BY <1>1, GoesOn
<1>5. \A outcome \in Outcome, warn \in BOOLEAN :
        settle(p, outcome, warn) => PB!tell(p, outcome, warn)
  BY <1>1, SettlesWork
<1>6. ASSUME \/ PB!Branch(p) \/ PB!Publish(p) \/ PB!Withdraw(p)
             \/ PB!Unpublish(p) \/ PB!GiveUp(p) \/ PB!End(p)
      PROVE  PB!Next
  BY <1>6 DEF PB!Next
\* A repository given up, and a step within the phase.
<1>7. ASSUME settle(p, "failed", FALSE), UNCHANGED <<local, remote>>,
             phaseOf(run[p].pc) = "working"
      PROVE  PB!Next
  <2>1. PB!tell(p, "failed", FALSE)
    BY <1>5, <1>7 DEF Outcome
  <2> QED
    BY <1>2, <1>6, <1>7, <2>1 DEF PB!GiveUp
<1>8. ASSUME NEW pc \in {"exists", "create", "leave", "delete"}, Goes(p, pc),
             UNCHANGED <<local, remote>>, phaseOf(run[p].pc) = "working"
      PROVE  UNCHANGED <<local, remote, Work>>
  BY <1>4, <1>8 DEF phaseOf, Pc
<1>9. CASE NextRepo(p)
  <2>1. UNCHANGED <<local, remote>> /\ run[p].pc = "next"
    BY <1>9 DEF NextRepo, gitVars, at
  <2>2. CASE run[p].todo = {} /\ Goes(p, "pr")
    BY <1>4, <2>1, <2>2 DEF phaseOf, Pc
  <2>3. CASE run[p].todo = {} /\ Goes(p, "done")
    <3>1. PB!turn(p, "rest")
      BY <1>3, <2>3 DEF phaseOf, Pc
    <3>2. \A s \in Affected[q] : run[p].report[s] # "none"
      BY <1>1, <2>1, <2>3 DEF Told, Idle, RepoPc
    <3>3. PB!in(p, "between")
      BY <1>2, <2>1 DEF phaseOf
    <3>4. PB!End(p)
      BY <1>2, <2>1, <3>1, <3>2, <3>3, WorkFields DEF PB!End, Work
    <3> QED
      BY <1>6, <3>4
  <2>4. ASSUME NEW s \in run[p].todo, Takes(p, s),
               run'[p].report = run[p].report, run'[p].warned = run[p].warned
        PROVE  PB!Next
    <3>1. s \in Affected[q] /\ s \in Repo /\ run[p].report[s] = "none"
      BY <1>1, <2>1 DEF Told, ProcOK, Idle, RepoPc
    <3>2. PB!in(p, "between")
      BY <1>2, <2>1 DEF phaseOf
    <3>3. workOf(run'[p]) = [workOf(run[p]) EXCEPT !.repo = s, !.phase = "working"]
      <4>1. phaseOf(run'[p].pc) = "working"
        BY <2>4 DEF Takes, phaseOf
      <4> DEFINE w1 == [cmd |-> run[p].cmd, plan |-> run[p].plan, repo |-> s,
                        phase |-> phaseOf(run[p].pc),
                        told |-> run[p].report, warned |-> run[p].warned]
                 w2 == [cmd |-> run[p].cmd, plan |-> run[p].plan, repo |-> s,
                        phase |-> "working",
                        told |-> run[p].report, warned |-> run[p].warned]
      <4>2. [workOf(run[p]) EXCEPT !.repo = s] = w1
        BY DEF workOf
      <4>3. [w1 EXCEPT !.phase = "working"] = w2
        OBVIOUS
      <4>4. workOf(run'[p]) = w2
        BY <2>4, <4>1 DEF workOf, Takes
      <4>5. [workOf(run[p]) EXCEPT !.repo = s, !.phase = "working"] =
              [[workOf(run[p]) EXCEPT !.repo = s] EXCEPT !.phase = "working"]
        OBVIOUS
      <4> HIDE DEF w1, w2
      <4> QED
        BY <4>2, <4>3, <4>4, <4>5
    <3>4. Work' = [Work EXCEPT ![p] = [@ EXCEPT !.repo = s, !.phase = "working"]]
      <4>1. Work[p] = workOf(run[p]) /\ \A o \in Proc \ {p} : run'[o] = run[o]
        BY <2>4 DEF Work, Takes
      <4> QED
        BY <1>1, <3>3, <4>1, WorkChanges
    <3>5. PB!Take(p, s)
      BY <1>2, <2>1, <3>1, <3>2, <3>4 DEF PB!Take, Work
    <3> QED
      BY <3>1, <3>5 DEF PB!Next
  <2> QED
    BY <1>1, <1>9, <2>2, <2>3, <2>4, NextRepoReports
<1>10. CASE Inspect(p)
  BY <1>1, <1>7, <1>8, <1>10, StepGoes DEF Inspect, gitVars, at, phaseOf
<1>11. ASSUME run[p].pc \in {"exists", "create"}, Goes(p, "push"),
              local' = [local EXCEPT ![r] = @ \cup {q}], remote' = remote
       PROVE  PB!Next
  <2>1. PB!turn(p, "branched") /\ PB!in(p, "working") /\ run[p].cmd = "apply"
    BY <1>1, <1>2, <1>3, <1>11 DEF phaseOf, Pc, ProcOK, ApplyPc
  <2>2. PB!Branch(p)
    BY <1>2, <1>11, <2>1 DEF PB!Branch, Work
  <2> QED
    BY <1>6, <2>2
<1>12. CASE BranchExists(p)
  <2>1. UNCHANGED <<local, remote>> /\ run[p].pc = "exists"
    BY <1>12 DEF BranchExists, gitVars, at
  <2>2. CASE Goes(p, "push") /\ q \in local[r]
    <3>1. local' = [local EXCEPT ![r] = @ \cup {q}]
      BY <1>1, <2>1, <2>2 DEF TypeOK
    <3> QED
      BY <1>11, <2>1, <2>2, <3>1
  <2>3. CASE Goes(p, "create")
    BY <1>8, <2>1, <2>3 DEF phaseOf
  <2> QED
    BY <1>1, <1>12, <2>2, <2>3, StepGoes
<1>13. CASE CreateBranch(p)
  <2>1. CASE q \in local[r]
    BY <1>7, <1>13, <2>1 DEF CreateBranch, phaseOf, at
  <2>2. CASE q \notin local[r]
    BY <1>1, <1>11, <1>13, <2>2, GotoReports DEF CreateBranch, at, Pc
  <2> QED
    BY <2>1, <2>2
<1>14. CASE PushBranch(p)
  <2> DEFINE pushed == /\ CreatePullRequest
                       /\ r \in HasRemote
                       /\ online
                       /\ q \in local[r]
             warn == CreatePullRequest /\ ~pushed
  <2>1. /\ PB!in(p, "branched") /\ UNCHANGED local
        /\ settle(p, "created", warn)
        /\ remote' = IF pushed THEN [remote EXCEPT ![r] = @ \cup {q}] ELSE remote
    BY <1>2, <1>14 DEF PushBranch, at, phaseOf
  <2>2. CASE pushed
    <3>1. warn = FALSE
      BY <2>2
    <3> HIDE DEF warn
    <3>2. PB!tell(p, "created", FALSE)
      BY <1>5, <2>1, <3>1 DEF Outcome
    <3>3. PB!Publish(p)
      BY <1>2, <2>1, <2>2, <3>2 DEF PB!Publish, Work
    <3> QED
      BY <1>6, <3>3
  <2>3. CASE ~pushed
    <3>1. warn = CreatePullRequest /\ warn \in BOOLEAN /\ remote' = remote
      BY <2>1, <2>3, ConstantsAssumption
    <3> HIDE DEF warn, pushed
    <3>2. PB!tell(p, "created", CreatePullRequest)
      BY <1>5, <2>1, <3>1 DEF Outcome
    <3>3. PB!Publish(p)
      BY <2>1, <3>1, <3>2 DEF PB!Publish
    <3> QED
      BY <1>6, <3>3
  <2> QED
    BY <2>2, <2>3
<1>15. CASE OpenPullRequest(p)
  <2>1. PB!turn(p, "rest") /\ UNCHANGED <<local, remote>> /\ run[p].pc = "pr"
    BY <1>1, <1>3, <1>15, StepGoes DEF OpenPullRequest, at, phaseOf, Pc
  <2>2. \A s \in Affected[q] : run[p].report[s] # "none"
    BY <1>1, <2>1 DEF Told, Idle, RepoPc, at
  <2>3. PB!in(p, "between")
    BY <1>2, <2>1 DEF phaseOf
  <2>4. PB!End(p)
    BY <1>2, <2>1, <2>2, <2>3 DEF PB!End, Work
  <2> QED
    BY <1>6, <2>4
<1>16. CASE FindBranch(p)
  <2>1. UNCHANGED <<local, remote>> /\ run[p].pc = "find"
    BY <1>16 DEF FindBranch, gitVars, at
  <2>2. CASE q \in local[r]
    <3>1. Goes(p, "leave")
      BY <1>1, <1>16, <2>2, GotoReports DEF FindBranch, Pc
    <3> QED
      BY <1>8, <2>1, <3>1 DEF phaseOf
  <2>3. CASE q \notin local[r]
    <3>1. PB!tell(p, "skipped", FALSE) /\ PB!in(p, "working")
      BY <1>2, <1>5, <1>16, <2>1, <2>3 DEF FindBranch, Outcome, phaseOf
    <3>2. PB!GiveUp(p)
      BY <1>1, <1>2, <2>1, <2>3, <3>1 DEF PB!GiveUp, Told, UndoPc, Work
    <3> QED
      BY <1>6, <3>2
  <2> QED
    BY <2>2, <2>3
<1>17. CASE LeaveBranch(p)
  BY <1>1, <1>7, <1>8, <1>17, StepGoes DEF LeaveBranch, at, phaseOf
<1>18. CASE DeleteBranch(p)
  <2>1. run[p].pc = "delete" /\ UNCHANGED remote
    BY <1>18 DEF DeleteBranch, at
  <2>2. CASE q \in local[r] /\ head[r] # q
    <3>1. Goes(p, "unpublish") /\ local' = [local EXCEPT ![r] = @ \ {q}]
      BY <1>1, <1>18, <2>2, GotoReports DEF DeleteBranch, Pc
    <3>2. PB!turn(p, "withdrawn") /\ PB!in(p, "working")
      BY <1>2, <1>3, <2>1, <3>1 DEF phaseOf, Pc
    <3>3. PB!Withdraw(p)
      BY <1>1, <1>2, <2>1, <2>2, <3>1, <3>2 DEF PB!Withdraw, Told, UndoPc, Work
    <3> QED
      BY <1>6, <3>3
  <2>3. CASE ~(q \in local[r] /\ head[r] # q)
    BY <1>7, <1>18, <2>1, <2>3 DEF DeleteBranch, phaseOf
  <2> QED
    BY <2>2, <2>3
<1>19. CASE UnpublishBranch(p)
  <2> DEFINE deleted == r \in HasRemote /\ online /\ q \in remote[r]
             warn == r \in HasRemote /\ ~(online /\ q \in remote[r])
  <2>1. /\ PB!in(p, "withdrawn") /\ UNCHANGED local
        /\ settle(p, "deleted", warn)
        /\ remote' = IF deleted THEN [remote EXCEPT ![r] = @ \ {q}] ELSE remote
    BY <1>2, <1>19 DEF UnpublishBranch, at, phaseOf
  <2>2. CASE deleted
    <3>1. warn = FALSE
      BY <2>2
    <3> HIDE DEF warn
    <3>2. PB!tell(p, "deleted", FALSE)
      BY <1>5, <2>1, <3>1 DEF Outcome
    <3>3. PB!Unpublish(p)
      BY <1>2, <2>1, <2>2, <3>2 DEF PB!Unpublish, Work
    <3> QED
      BY <1>6, <3>3
  <2>3. CASE ~deleted
    <3>1. warn = (r \in HasRemote) /\ warn \in BOOLEAN /\ remote' = remote
      BY <2>1, <2>3
    <3> HIDE DEF warn, deleted
    <3>2. PB!tell(p, "deleted", r \in HasRemote)
      BY <1>5, <2>1, <3>1 DEF Outcome
    <3>3. PB!Unpublish(p)
      BY <1>2, <2>1, <3>1, <3>2 DEF PB!Unpublish, Work
    <3> QED
      BY <1>6, <3>3
  <2> QED
    BY <2>2, <2>3
<1> QED
  BY <1>9, <1>10, <1>12, <1>13, <1>14, <1>15, <1>16, <1>17, <1>18, <1>19 DEF Step

\* So is a start and a kill.
LEMMA FreshImplements ==
  ASSUME Inv, NEW p \in Proc, Start(p) \/ Crash(p)
  PROVE  PB!Next
<1>1. TypeOK /\ UNCHANGED <<local, remote>>
  BY DEF Start, StartApply, StartRollback, Crash, gitVars, Inv
<1>2. \A phase : PB!in(p, phase) <=> phaseOf(run[p].pc) = phase
  BY WorkFields
<1>3. ASSUME NEW cmd \in {"apply", "rollback"}, NEW q \in Plan,
             NEW pc \in {"next", "done"}, Idle(p),
             run' = [run EXCEPT ![p] = freshRun(cmd, q, pc)],
             pc = "done" <=> cmd = "apply" /\ q \notin Permitted
      PROVE  PB!Next
  <2>1. Fresh(p, cmd, q, phaseOf(pc))
    BY <1>1, <1>3, FreshWork
  <2>2. phaseOf(pc) = IF cmd = "apply" /\ q \notin Permitted THEN "rest"
                                                            ELSE "between"
    BY <1>3 DEF phaseOf
  <2>3. PB!in(p, "rest")
    BY <1>2, <1>3 DEF Idle, phaseOf
  <2>4. Fresh(p, cmd, q, IF cmd = "apply" /\ q \notin Permitted
                        THEN "rest" ELSE "between")
    BY <2>1, <2>2
  <2>5. PB!Begin(p, cmd, q)
    BY <1>1, <2>3, <2>4 DEF PB!Begin, Fresh, Work
  <2> QED
    BY <2>5 DEF PB!Next
<1>4. ASSUME NEW q \in Plan, StartApply(p, q) PROVE PB!Next
  <2>1. CASE q \in Permitted
    BY <1>3, <1>4, <2>1 DEF StartApply
  <2>2. CASE q \notin Permitted
    BY <1>3, <1>4, <2>2 DEF StartApply
  <2> QED
    BY <2>1, <2>2
<1>5. ASSUME NEW q \in Plan, StartRollback(p, q) PROVE PB!Next
  BY <1>3, <1>5 DEF StartRollback
<1>6. CASE Crash(p)
  <2>1. Fresh(p, run[p].cmd, run[p].plan, phaseOf("idle"))
    BY <1>1, <1>6, FreshWork DEF Crash
  <2>2. phaseOf("idle") = "rest" /\ ~PB!in(p, "rest")
    BY <1>1, <1>2, <1>6, RunFields DEF Crash, Idle, phaseOf, Pc
  <2>3. Fresh(p, Work[p].cmd, Work[p].plan, "rest")
    BY <2>1, <2>2, WorkFields
  <2>4. PB!Kill(p)
    BY <1>1, <2>2, <2>3 DEF PB!Kill, Fresh, Work
  <2> QED
    BY <2>4 DEF PB!Next
<1> QED
  BY <1>4, <1>5, <1>6 DEF Start

LEMMA ImplementsInit == Init => PB!Init
<1> SUFFICES ASSUME Init PROVE PB!Init
  OBVIOUS
<1> DEFINE q == CHOOSE q \in Plan : TRUE
           r == CHOOSE r \in Repo : TRUE
           w == PB!Untold("apply", q, r, "rest")
<1>1. q \in Plan /\ r \in Repo
  BY ConstantsAssumption
<1>2. \A p \in Proc : workOf(run[p]) = w
  BY DEF Init, freshRun, workOf, phaseOf, PB!Untold
<1> HIDE DEF w
<1>3. Work \in [Proc -> {w}]
  BY <1>2 DEF Work
<1> HIDE DEF q, r
<1>4. w \in {PB!Untold("apply", s, t, "rest") : s \in Plan, t \in Repo}
  BY <1>1 DEF w
<1> QED
  BY <1>3, <1>4 DEF PB!Init, Init, Work

LEMMA ImplementsNext == Inv /\ AllTold /\ [Next]_vars => [PB!Next]_(PB!branchVars)
<1> SUFFICES ASSUME Inv, AllTold, [Next]_vars
             PROVE  PB!Next \/ UNCHANGED <<local, remote, Work>>
  BY DEF PB!branchVars, Work
<1>1. CASE Environment \/ UNCHANGED vars
  BY <1>1 DEF Environment, UserEdit, UserCheckout, Network, vars, Work
<1> QED
  BY <1>1, StepImplements, FreshImplements DEF Next

\* Every behaviour of the commands, the developer, the network and kills is
\* one that PlanBranches allows: each affected repository is dealt with as a
\* whole or left as it was, and told of.
THEOREM ImplementsCorrect == Spec => Implements
<1>1. Spec => []AllTold
  <2>1. Inv /\ AllTold /\ [Next]_vars => AllTold'
    BY ToldNext DEF Inv
  <2> QED
    BY <2>1, ToldInit, Invariant, PTL DEF Spec
<1> QED
  BY <1>1, ImplementsInit, ImplementsNext, Invariant, PTL
     DEF Spec, Implements, PB!Spec

------------------------------------------------------------------------------
(* What a command reports. *)

\* Commands work on different plans: no two of them, still at work or done, have
\* the same.  One command at a time does, and so do commands started for
\* different plans.  A killed or waiting process has reported nothing.
Apart == \A p, o \in Proc :
           p # o /\ ~at(p, "idle") /\ ~at(o, "idle") => run[p].plan # run[o].plan

\* What process p has reported is so (ReportTrue for one process).
Truthful(p) ==
  \A r \in Repo :
    LET q == run[p].plan
        quietly == r \notin run[p].warned
    IN  /\ run[p].report[r] = "created" =>
             q \in local[r] /\ (CreatePullRequest /\ quietly => q \in remote[r])
        /\ run[p].report[r] = "deleted" =>
             q \notin local[r] /\ (quietly => q \notin remote[r])
        /\ run[p].report[r] = "skipped" => q \notin local[r]

\* Nothing is reported yet, nor warned of, in a repository.
Unreported(p, r) == run[p].report[r] = "none" /\ r \notin run[p].warned

\* What process p knows of the repository in hand, and of those to come.
KnowsOK(p) ==
  /\ at(p, "idle") => \A r \in Repo : Unreported(p, r)
  /\ ~Idle(p) => \A r \in run[p].todo : Unreported(p, r)
  /\ run[p].pc \in RepoPc =>
       Unreported(p, run[p].repo) /\ run[p].repo \notin run[p].todo
  /\ run[p].pc \in {"push", "leave", "delete"} =>
       run[p].plan \in local[run[p].repo]
  /\ at(p, "unpublish") => run[p].plan \notin local[run[p].repo]
  /\ at(p, "delete") /\ ~Interfere => head[run[p].repo] # run[p].plan

\* Nothing is ever pushed to a repository without an origin.
NoRemote == \A r \in Repo \ HasRemote : remote[r] = {}

ReportInv == NoRemote /\ \A p \in Proc : KnowsOK(p) /\ Truthful(p)

\* A step of a process touches no branch of another plan, and checks out
\* nothing but the base branch.
TouchesOnly(q) ==
  \A r \in Repo : /\ \A o \in Plan \ {q} : /\ o \in local'[r] <=> o \in local[r]
                                           /\ o \in remote'[r] <=> o \in remote[r]
                  /\ head'[r] \in {head[r], Base}

LEMMA StepTouches ==
  ASSUME TypeOK, NEW p \in Proc, Step(p)
  PROVE  TouchesOnly(run[p].plan)
<1>1. run[p].repo \in Repo
  BY RunFields
<1>2. CASE NextRepo(p) \/ Inspect(p) \/ BranchExists(p) \/ FindBranch(p)
  BY <1>2 DEF NextRepo, Inspect, BranchExists, FindBranch, gitVars, TouchesOnly
<1>3. CASE CreateBranch(p)
  BY <1>1, <1>3 DEF CreateBranch, TouchesOnly, TypeOK
<1>4. CASE PushBranch(p)
  BY <1>1, <1>4 DEF PushBranch, TouchesOnly, TypeOK
<1>5. CASE OpenPullRequest(p)
  BY <1>5 DEF OpenPullRequest, TouchesOnly
<1>6. CASE LeaveBranch(p)
  BY <1>1, <1>6 DEF LeaveBranch, TouchesOnly, TypeOK
<1>7. CASE DeleteBranch(p)
  BY <1>1, <1>7 DEF DeleteBranch, TouchesOnly, TypeOK
<1>8. CASE UnpublishBranch(p)
  BY <1>1, <1>8 DEF UnpublishBranch, TouchesOnly, TypeOK
<1> QED
  BY <1>2, <1>3, <1>4, <1>5, <1>6, <1>7, <1>8 DEF Step

\* So what the others know and have reported stays.
LEMMA OthersKept ==
  ASSUME TypeOK, ReportInv, Apart, NEW p \in Proc, NEW o \in Proc \ {p},
         ~at(p, "idle"), TouchesOnly(run[p].plan), run'[o] = run[o]
  PROVE  KnowsOK(o)' /\ Truthful(o)'
<1>1. /\ run[o].plan \in Plan /\ run[o].repo \in Repo /\ KnowsOK(o) /\ Truthful(o)
      /\ run[o].plan # Base
  BY RunFields, ConstantsAssumption DEF ReportInv
<1>2. CASE at(o, "idle")
  BY <1>1, <1>2 DEF KnowsOK, Truthful, Unreported, at, Idle, RepoPc
<1>3. CASE ~at(o, "idle")
  <2>1. run[o].plan \in Plan \ {run[p].plan}
    BY <1>1, <1>3 DEF Apart
  <2>2. \A r \in Repo :
          /\ run[o].plan \in local'[r] <=> run[o].plan \in local[r]
          /\ run[o].plan \in remote'[r] <=> run[o].plan \in remote[r]
          /\ head'[r] \in {head[r], Base}
    BY <2>1 DEF TouchesOnly
  <2>3. KnowsOK(o)'
    BY <1>1, <2>2 DEF KnowsOK, Unreported, at, Idle
  <2>4. Truthful(o)'
    BY <1>1, <2>2 DEF Truthful
  <2> QED
    BY <2>3, <2>4
<1> QED
  BY <1>2, <1>3

\* A process that goes on without touching a branch keeps its report true.
LEMMA GoesTrue ==
  ASSUME NEW p \in Proc, NEW pc, Truthful(p), Goes(p, pc),
         UNCHANGED <<local, remote>>
  PROVE  Truthful(p)'
BY DEF Truthful, Goes, Moves

\* One that settles the repository in hand, whose branch alone it may have
\* touched, does when the new outcome is so.
LEMMA SettlesTrue ==
  ASSUME TypeOK, NEW p \in Proc, NEW outcome \in Outcome, NEW warn \in BOOLEAN,
         ReportInv, Settles(p, outcome, warn), run[p].pc \in RepoPc,
         \A r \in Repo \ {run[p].repo} : local'[r] = local[r] /\ remote'[r] = remote[r],
         LET q == run[p].plan
             r == run[p].repo
         IN  /\ outcome = "created" =>
                  /\ q \in local'[r]
                  /\ CreatePullRequest /\ ~warn => q \in remote'[r]
             /\ outcome = "deleted" =>
                  q \notin local'[r] /\ (~warn => q \notin remote'[r])
             /\ outcome = "skipped" => q \notin local'[r]
  PROVE  KnowsOK(p)' /\ Truthful(p)'
<1>1. run[p] \in RunType /\ KnowsOK(p) /\ Truthful(p)
  BY DEF TypeOK, ReportInv
<1>2. /\ run'[p].plan = run[p].plan /\ run'[p].todo = run[p].todo
      /\ run'[p].pc = "next"
      /\ run'[p].report = [run[p].report EXCEPT ![run[p].repo] = outcome]
      /\ run'[p].warned = IF warn THEN run[p].warned \cup {run[p].repo}
                                  ELSE run[p].warned
  BY DEF Settles, Moves
<1>3. \A r \in Repo : run'[p].report[r] = IF r = run[p].repo THEN outcome
                                          ELSE run[p].report[r]
  BY <1>1, <1>2 DEF RunType
<1>4. Truthful(p)'
  <2> SUFFICES ASSUME NEW r \in Repo
               PROVE  LET q == run'[p].plan
                          quietly == r \notin run'[p].warned
                      IN  /\ run'[p].report[r] = "created" =>
                               /\ q \in local'[r]
                               /\ CreatePullRequest /\ quietly => q \in remote'[r]
                          /\ run'[p].report[r] = "deleted" =>
                               q \notin local'[r] /\ (quietly => q \notin remote'[r])
                          /\ run'[p].report[r] = "skipped" => q \notin local'[r]
    BY DEF Truthful
  <2>1. CASE r = run[p].repo
    BY <1>2, <1>3, <2>1
  <2>2. CASE r # run[p].repo
    BY <1>1, <1>2, <1>3, <2>2 DEF Truthful
  <2> QED
    BY <2>1, <2>2
<1>5. KnowsOK(p)'
  <2>1. /\ run[p].repo \notin run[p].todo /\ run[p].todo \subseteq Repo
        /\ \A r \in run[p].todo : Unreported(p, r)
    BY <1>1 DEF KnowsOK, Idle, RepoPc, RunType
  <2>2. \A r \in run[p].todo : Unreported(p, r)'
    BY <1>2, <1>3, <2>1 DEF Unreported
  <2> QED
    BY <1>2, <2>2 DEF KnowsOK, Idle, at, RepoPc
<1> QED
  BY <1>4, <1>5

\* Each step of a command.
LEMMA StepReports ==
  ASSUME TypeOK, RunOK, ReportInv, NEW p \in Proc, Step(p)
  PROVE  KnowsOK(p)' /\ Truthful(p)' /\ NoRemote'
<1> DEFINE r == run[p].repo
           q == run[p].plan
<1>1. /\ q \in Plan /\ r \in Repo /\ run[p].todo \subseteq Repo
      /\ KnowsOK(p) /\ Truthful(p) /\ NoRemote
  BY RunFields DEF ReportInv
<1>2. \A pc \in Pc : goto(p, pc) => Goes(p, pc)
  BY GotoReports
<1>3. \A outcome \in Outcome, warn \in BOOLEAN :
         settle(p, outcome, warn) => Settles(p, outcome, warn)
  BY SettleReports
<1>4. CASE NextRepo(p)
  <2>1. /\ run'[p].report = run[p].report /\ run'[p].warned = run[p].warned
        /\ run'[p].plan = run[p].plan
        /\ UNCHANGED <<local, remote, head>>
    BY <1>4, NextRepoReports DEF NextRepo, Goes, Moves, Takes, gitVars
  <2>2. Truthful(p)' /\ NoRemote'
    BY <1>1, <2>1 DEF Truthful, NoRemote
  <2>3. ASSUME NEW s \in run[p].todo, Takes(p, s) PROVE KnowsOK(p)'
    <3>1. \A t \in run[p].todo : Unreported(p, t)
      BY <1>1, <1>4 DEF KnowsOK, NextRepo, at, Idle
    <3> QED
      BY <2>1, <2>3, <3>1 DEF KnowsOK, Takes, Unreported, Idle, at, RepoPc
  <2>4. ASSUME NEW pc \in {"pr", "done"}, Moves(p, pc) PROVE KnowsOK(p)'
    <3>1. \A t \in run[p].todo : Unreported(p, t)
      BY <1>1, <1>4 DEF KnowsOK, NextRepo, at, Idle
    <3> QED
      BY <2>1, <2>4, <3>1 DEF KnowsOK, Moves, Unreported, Idle, at, RepoPc
  <2> QED
    BY <1>4, <2>2, <2>3, <2>4, NextRepoMoves
\* A step that goes on with the repository in hand.
<1>5. ASSUME NEW pc \in Pc, Goes(p, pc), UNCHANGED <<local, remote>>,
             run[p].pc \in RepoPc,
             pc \in RepoPc \ {"unpublish"},
             pc \in {"push", "leave", "delete"} => q \in local[r],
             pc = "delete" => head'[r] # q
      PROVE  KnowsOK(p)' /\ Truthful(p)' /\ NoRemote'
  <2>1. Truthful(p)' /\ NoRemote'
    BY <1>1, <1>5, GoesTrue DEF NoRemote
  <2>2. KnowsOK(p)'
    BY <1>1, <1>5 DEF KnowsOK, Goes, Moves, Unreported, Idle, at, RepoPc
  <2> QED
    BY <2>1, <2>2
\* One that settles it without touching a branch.
<1>6. ASSUME NEW outcome \in {"failed", "skipped"},
             settle(p, outcome, FALSE), UNCHANGED <<local, remote>>,
             run[p].pc \in RepoPc,
             outcome = "skipped" => q \notin local[r]
      PROVE  KnowsOK(p)' /\ Truthful(p)' /\ NoRemote'
  <2>1. Settles(p, outcome, FALSE) /\ outcome \in Outcome
    BY <1>3, <1>6 DEF Outcome
  <2> QED
    BY <1>1, <1>6, <2>1, SettlesTrue DEF NoRemote
<1>7. CASE Inspect(p)
  BY <1>2, <1>5, <1>6, <1>7 DEF Inspect, Pc, RepoPc, at, gitVars
<1>8. CASE BranchExists(p)
  BY <1>2, <1>5, <1>8 DEF BranchExists, Pc, RepoPc, at, gitVars
<1>9. CASE CreateBranch(p)
  <2>1. CASE q \in local[r]
    BY <1>6, <1>9, <2>1 DEF CreateBranch, RepoPc, at
  <2>2. CASE q \notin local[r]
    <3>1. /\ Goes(p, "push") /\ remote' = remote /\ run[p].pc = "create"
          /\ local' = [local EXCEPT ![r] = @ \cup {q}]
      BY <1>2, <1>9, <2>2 DEF CreateBranch, Pc, at
    <3>2. q \in local'[r] /\ \A s \in Repo \ {r} : local'[s] = local[s]
      BY <1>1, <3>1 DEF TypeOK
    <3>3. Unreported(p, r)
      BY <1>1, <3>1 DEF KnowsOK, RepoPc
    <3>4. Truthful(p)'
      BY <1>1, <3>1, <3>2, <3>3 DEF Truthful, Goes, Moves, Unreported
    <3>5. KnowsOK(p)'
      BY <1>1, <3>1, <3>2 DEF KnowsOK, Goes, Moves, Unreported, Idle, at, RepoPc
    <3> QED
      BY <1>1, <3>1, <3>4, <3>5 DEF NoRemote
  <2> QED
    BY <2>1, <2>2
<1>10. CASE PushBranch(p)
  <2> DEFINE pushed == /\ CreatePullRequest
                       /\ r \in HasRemote
                       /\ online
                       /\ q \in local[r]
             warn == CreatePullRequest /\ ~pushed
  <2>1. /\ run[p].pc = "push" /\ UNCHANGED local /\ settle(p, "created", warn)
        /\ remote' = IF pushed THEN [remote EXCEPT ![r] = @ \cup {q}] ELSE remote
        /\ warn \in BOOLEAN
    BY <1>10 DEF PushBranch, at
  <2>2. /\ \A s \in Repo \ {r} : remote'[s] = remote[s]
        /\ CreatePullRequest /\ ~warn => q \in remote'[r]
        /\ r \notin HasRemote => remote'[r] = remote[r]
    BY <1>1, <2>1 DEF TypeOK
  <2>3. q \in local[r]
    BY <1>1, <2>1 DEF KnowsOK
  <2> HIDE DEF warn, pushed
  <2>4. Settles(p, "created", warn)
    BY <1>3, <2>1 DEF Outcome
  <2>5. KnowsOK(p)' /\ Truthful(p)'
    BY <2>1, <2>2, <2>3, <2>4, SettlesTrue DEF Outcome, RepoPc
  <2> QED
    BY <1>1, <2>2, <2>5 DEF NoRemote
<1>11. CASE OpenPullRequest(p)
  <2>1. Goes(p, "done") /\ UNCHANGED <<local, remote>>
    BY <1>2, <1>11 DEF OpenPullRequest, Pc
  <2>2. Truthful(p)'
    BY <1>1, <2>1, GoesTrue
  <2> QED
    BY <1>1, <2>1, <2>2 DEF NoRemote, KnowsOK, Goes, Moves, Idle, at, RepoPc
<1>12. CASE FindBranch(p)
  BY <1>2, <1>5, <1>6, <1>12 DEF FindBranch, Pc, RepoPc, at, gitVars
<1>13. CASE LeaveBranch(p)
  <2>1. q \in local[r] /\ q # Base /\ run[p].pc = "leave"
    BY <1>1, <1>13, ConstantsAssumption DEF KnowsOK, LeaveBranch, at
  <2>2. CASE settle(p, "failed", FALSE)
    BY <1>6, <1>13, <2>1, <2>2 DEF LeaveBranch, RepoPc
  <2>3. CASE goto(p, "delete") /\ head'[r] # q
    BY <1>2, <1>5, <1>13, <2>1, <2>3 DEF LeaveBranch, RepoPc, Pc
  <2>4. head[r] = q /\ head' = [head EXCEPT ![r] = Base] => head'[r] # q
    BY <1>1, <2>1 DEF TypeOK
  <2> QED
    BY <1>13, <2>2, <2>3, <2>4 DEF LeaveBranch
<1>14. CASE DeleteBranch(p)
  <2>1. CASE q \in local[r] /\ head[r] # q
    <3>1. /\ Goes(p, "unpublish") /\ remote' = remote /\ run[p].pc = "delete"
          /\ local' = [local EXCEPT ![r] = @ \ {q}]
      BY <1>2, <1>14, <2>1 DEF DeleteBranch, Pc, at
    <3>2. q \notin local'[r] /\ \A s \in Repo \ {r} : local'[s] = local[s]
      BY <1>1, <3>1 DEF TypeOK
    <3>3. Unreported(p, r)
      BY <1>1, <3>1 DEF KnowsOK, RepoPc
    <3>4. Truthful(p)'
      BY <1>1, <3>1, <3>2, <3>3 DEF Truthful, Goes, Moves, Unreported
    <3>5. KnowsOK(p)'
      BY <1>1, <3>1, <3>2 DEF KnowsOK, Goes, Moves, Unreported, Idle, at, RepoPc
    <3> QED
      BY <1>1, <3>1, <3>4, <3>5 DEF NoRemote
  <2>2. CASE ~(q \in local[r] /\ head[r] # q)
    BY <1>6, <1>14, <2>2 DEF DeleteBranch, RepoPc, at
  <2> QED
    BY <2>1, <2>2
<1>15. CASE UnpublishBranch(p)
  <2> DEFINE deleted == online /\ q \in remote[r]
             warn == r \in HasRemote /\ ~deleted
  <2>1. /\ run[p].pc = "unpublish" /\ UNCHANGED local
        /\ settle(p, "deleted", warn) /\ warn \in BOOLEAN
        /\ remote' = IF r \in HasRemote /\ deleted
                     THEN [remote EXCEPT ![r] = @ \ {q}] ELSE remote
    BY <1>15 DEF UnpublishBranch, at
  <2>2. /\ \A s \in Repo \ {r} : remote'[s] = remote[s]
        /\ ~warn => q \notin remote'[r]
        /\ r \notin HasRemote => remote'[r] = remote[r]
    BY <1>1, <2>1 DEF TypeOK, NoRemote
  <2>3. q \notin local[r]
    BY <1>1, <2>1 DEF KnowsOK, at
  <2> HIDE DEF warn, deleted
  <2>4. Settles(p, "deleted", warn)
    BY <1>3, <2>1 DEF Outcome
  <2>5. KnowsOK(p)' /\ Truthful(p)'
    BY <2>1, <2>2, <2>3, <2>4, SettlesTrue DEF Outcome, RepoPc
  <2> QED
    BY <1>1, <2>2, <2>5 DEF NoRemote
<1> QED
  BY <1>4, <1>7, <1>8, <1>9, <1>10, <1>11, <1>12, <1>13, <1>14, <1>15 DEF Step

\* A command that starts, or was killed, has reported nothing.
LEMMA FreshReports ==
  ASSUME TypeOK, ReportInv, NEW p \in Proc,
         NEW cmd \in {"apply", "rollback"}, NEW plan \in Plan,
         NEW pc \in {"idle", "next", "done"},
         run' = [run EXCEPT ![p] = freshRun(cmd, plan, pc)],
         UNCHANGED gitVars
  PROVE  ReportInv'
<1>1. run'[p] = freshRun(cmd, plan, pc)
  BY DEF TypeOK
<1>2. \A o \in Proc \ {p} : run'[o] = run[o]
  BY DEF TypeOK
<1>3. KnowsOK(p)' /\ Truthful(p)'
  <2>1. Affected[plan] \subseteq Repo
    BY ConstantsAssumption
  <2> QED
    BY <1>1, <2>1 DEF freshRun, KnowsOK, Truthful, Unreported, Idle, at, RepoPc
<1>4. \A o \in Proc \ {p} : KnowsOK(o)' /\ Truthful(o)'
  BY <1>2 DEF ReportInv, KnowsOK, Truthful, Unreported, Idle, at, gitVars
<1> QED
  BY <1>3, <1>4 DEF ReportInv, NoRemote, gitVars

LEMMA ReportInit == Init => ReportInv
<1> SUFFICES ASSUME Init, NEW p \in Proc PROVE KnowsOK(p) /\ Truthful(p)
  BY DEF ReportInv, NoRemote, Init
<1> DEFINE q == CHOOSE q \in Plan : TRUE
<1>1. run[p] = freshRun("apply", q, "idle")
  BY DEF Init
<1> HIDE DEF q
<1> QED
  BY <1>1 DEF freshRun, KnowsOK, Truthful, Unreported, Idle, at, RepoPc

LEMMA ReportNext ==
  TypeOK /\ RunOK /\ ReportInv /\ Apart /\ [Next]_vars => ReportInv'
<1> SUFFICES ASSUME TypeOK, RunOK, ReportInv, Apart, [Next]_vars
             PROVE  ReportInv'
  OBVIOUS
<1>1. ASSUME NEW p \in Proc, NEW plan \in Plan,
             StartApply(p, plan) \/ StartRollback(p, plan)
      PROVE  ReportInv'
  BY <1>1, FreshReports DEF StartApply, StartRollback
<1>2. ASSUME NEW p \in Proc, Crash(p) PROVE ReportInv'
  BY <1>2, FreshReports, RunFields DEF Crash
<1>3. ASSUME NEW p \in Proc, Step(p) PROVE ReportInv'
  <2>1. KnowsOK(p)' /\ Truthful(p)' /\ NoRemote'
    BY <1>3, StepReports
  <2>2. ~at(p, "idle")
    BY <1>3 DEF Step, NextRepo, Inspect, BranchExists, CreateBranch, PushBranch,
                OpenPullRequest, FindBranch, LeaveBranch, DeleteBranch,
                UnpublishBranch, at
  <2>3. \A o \in Proc \ {p} : run'[o] = run[o]
    <3>1. CASE NextRepo(p)
      BY <3>1, NextRepoMoves DEF Moves, Takes
    <3>2. CASE ~NextRepo(p)
      BY <1>3, <3>2, StepMoves DEF Step, Moves
    <3> QED
      BY <3>1, <3>2
  <2>4. \A o \in Proc \ {p} : KnowsOK(o)' /\ Truthful(o)'
    BY <1>3, <2>2, <2>3, StepTouches, OthersKept
  <2> QED
    BY <2>1, <2>4 DEF ReportInv
\* A developer who does not interfere leaves the worktrees of a command alone.
<1>4. ASSUME NEW r \in Repo, NEW b, UserCheckout(r, b) PROVE ReportInv'
  <2>1. ASSUME NEW p \in Proc PROVE KnowsOK(p)' /\ Truthful(p)'
    <3>1. at(p, "delete") => Interfere
      BY <1>4 DEF UserCheckout, Quiet, Idle, at
    <3> QED
      BY <1>4, <3>1 DEF UserCheckout, ReportInv, KnowsOK, Truthful, Unreported,
                        Idle, at
  <2> QED
    BY <1>4, <2>1 DEF UserCheckout, ReportInv, NoRemote
<1>5. CASE (\E r \in Repo : UserEdit(r)) \/ Network \/ UNCHANGED vars
  BY <1>5 DEF UserEdit, Network, vars, ReportInv, KnowsOK, Truthful, Unreported,
              NoRemote, Idle, at
<1> QED
  BY <1>1, <1>2, <1>3, <1>4, <1>5 DEF Next, Start, Environment

LEMMA ReportInvariant == Spec /\ []Apart => []ReportInv
BY Invariant, ReportInit, ReportNext, PTL DEF Spec, Inv

LEMMA TruthfulReport == (\A p \in Proc : Truthful(p)) <=> ReportTrue
BY DEF ReportTrue, Truthful

\* Commands that work on different plans, however they interleave with each
\* other, with the developer, the network and kills, report the truth.
THEOREM ReportCorrect == Spec /\ []Apart => []ReportTrue
<1>1. ReportInv => ReportTrue
  BY TruthfulReport DEF ReportInv
<1> QED
  BY <1>1, ReportInvariant, PTL

\* One command at a time does, whatever plans it works on.
THEOREM OneReportCorrect ==
  ASSUME \A p, o \in Proc : p = o
  PROVE  Spec => []ReportTrue
<1>1. Apart
  BY DEF Apart
<1>2. []Apart
  BY <1>1, PTL
<1> QED
  BY <1>2, ReportCorrect, PTL

\* A step that reports a failure of a rollback is one of LeaveBranch, as the
\* branch is there and not checked out when it comes to be deleted.
LEMMA FailsOnlyDirty ==
  ASSUME TypeOK, RunOK, ReportInv, ~Interfere, [Next]_vars,
         NEW p \in Proc, NEW r \in Repo, run[p].cmd = "rollback",
         run[p].report[r] # "failed", run'[p].report[r] = "failed"
  PROVE  r \in dirty \/ r \notin HasBase
<1>1. ASSUME NEW o \in Proc, NEW cmd, NEW plan, NEW pc,
             run' = [run EXCEPT ![o] = freshRun(cmd, plan, pc)]
      PROVE  FALSE
  BY <1>1 DEF TypeOK, freshRun
<1>2. ~(\E o \in Proc : Start(o) \/ Crash(o))
  BY <1>1 DEF Start, StartApply, StartRollback, Crash
<1>3. run' # run
  OBVIOUS
<1>4. PICK o \in Proc : Step(o)
  BY <1>2, <1>3 DEF Next, Environment, UserEdit, UserCheckout, Network, vars
<1>5. o = p
  <2>1. \A i \in Proc \ {o} : run'[i] = run[i]
    <3>1. CASE NextRepo(o)
      BY <3>1, NextRepoMoves DEF Moves, Takes
    <3>2. CASE ~NextRepo(o)
      BY <1>4, <3>2, StepMoves DEF Step, Moves
    <3> QED
      BY <3>1, <3>2
  <2> QED
    BY <2>1
<1>6. ~(\E pc \in Pc : goto(p, pc))
  BY GotoReports DEF Goes
<1>7. ~(\E warn \in BOOLEAN, outcome \in Outcome \ {"failed"} :
           settle(p, outcome, warn))
  <2> SUFFICES ASSUME NEW warn \in BOOLEAN, NEW outcome \in Outcome \ {"failed"},
                      settle(p, outcome, warn)
               PROVE  FALSE
    OBVIOUS
  <2>1. run'[p].report = [run[p].report EXCEPT ![run[p].repo] = outcome]
    BY SettleReports DEF Settles
  <2>2. run[p].report \in [Repo -> Outcome]
    BY DEF TypeOK, RunType
  <2> QED
    BY <2>1, <2>2
<1>8. ~NextRepo(p)
  <2>1. NextRepo(p) => run'[p].report = run[p].report
    BY DEF NextRepo, goto, TypeOK, RunType
  <2> QED
    BY <2>1
<1>9. settle(p, "failed", FALSE) => r = run[p].repo
  <2> SUFFICES ASSUME settle(p, "failed", FALSE) PROVE r = run[p].repo
    OBVIOUS
  <2>1. run'[p].report = [run[p].report EXCEPT ![run[p].repo] = "failed"]
    BY SettleReports DEF Settles, Outcome
  <2>2. run[p].report \in [Repo -> Outcome]
    BY DEF TypeOK, RunType
  <2> QED
    BY <2>1, <2>2
<1>10. KnowsOK(p) /\ run[p].pc \notin ApplyPc
  BY DEF ReportInv, RunOK, ProcOK
<1>11. LeaveBranch(p) \/ DeleteBranch(p) \/ FindBranch(p) \/ UnpublishBranch(p)
  BY <1>4, <1>5, <1>8, <1>10 DEF Step, Inspect, BranchExists, CreateBranch,
     PushBranch, OpenPullRequest, at, ApplyPc
<1>12. LeaveBranch(p)
  <2>1. ~DeleteBranch(p)
    BY <1>6, <1>10 DEF DeleteBranch, KnowsOK, at, Pc
  <2>2. ~FindBranch(p)
    BY <1>6, <1>7 DEF FindBranch, Pc, Outcome
  <2>3. ~UnpublishBranch(p)
    <3> DEFINE warn == run[p].repo \in HasRemote
                         /\ ~(online /\ run[p].plan \in remote[run[p].repo])
    <3>1. UnpublishBranch(p) => settle(p, "deleted", warn)
      BY DEF UnpublishBranch
    <3>2. warn \in BOOLEAN
      OBVIOUS
    <3> HIDE DEF warn
    <3> QED
      BY <1>7, <3>1, <3>2 DEF Outcome
  <2> QED
    BY <1>11, <2>1, <2>2, <2>3
<1> QED
  BY <1>6, <1>9, <1>12 DEF LeaveBranch, Pc

\* Rollbacks of different plans that the developer leaves alone fail in a
\* repository only when the tree is dirty or the base is missing.
THEOREM RollbackCorrect ==
  ASSUME ~Interfere
  PROVE  Spec /\ []Apart => RollbackFailsOnlyDirty
<1>1. TypeOK /\ RunOK /\ ReportInv /\ [Next]_vars =>
        [\A p \in Proc, r \in Repo :
           /\ run[p].cmd = "rollback"
           /\ run[p].report[r] # "failed"
           /\ run'[p].report[r] = "failed"
           => r \in dirty \/ r \notin HasBase]_vars
  BY FailsOnlyDirty
<1> QED
  BY <1>1, ReportInvariant, Invariant, PTL DEF Spec, Inv, RollbackFailsOnlyDirty
=============================================================================
