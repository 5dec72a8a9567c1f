---------------------------- MODULE PlanBranches ----------------------------
(***************************************************************************)
(* What bounded execution promises of the repositories and of its reports,  *)
(* without the git commands it takes, the checks before them, the worktrees *)
(* or the network.                                                          *)
(*                                                                          *)
(* A command works on one plan and deals with each affected repository just *)
(* once: apply branches it and then tells of it, rollback withdraws the     *)
(* branch and then tells of it, and either may give a repository up, having *)
(* changed nothing there.  The origin's branch changes only between the     *)
(* local change and the telling; if it stays as it was, a warning says so.  *)
(* A command ends when every affected repository has been told of.          *)
(***************************************************************************)
CONSTANTS Repo, Plan, Proc, Affected, Permitted,
          HasRemote,    \* repositories with an origin
          Publishing    \* whether apply publishes the branches

VARIABLES local,    \* local[r]: the plans whose branch exists in r
          remote,   \* remote[r]: the plans whose branch exists at r's origin
          work      \* work[p]: what command p is doing and has told

branchVars == <<local, remote, work>>

\* A command that has told nothing yet.
Untold(cmd, plan, repo, phase) ==
  [cmd |-> cmd, plan |-> plan, repo |-> repo, phase |-> phase,
   told |-> [r \in Repo |-> "none"], warned |-> {}]

Init == /\ local  = [r \in Repo |-> {}]
        /\ remote = [r \in Repo |-> {}]
        /\ work \in [Proc -> {Untold("apply", q, r, "rest") :
                                q \in Plan, r \in Repo}]

in(p, phase) == work[p].phase = phase

\* Command p goes on to another phase, or tells of the repository in hand.
turn(p, phase) == work' = [work EXCEPT ![p].phase = phase]

tell(p, outcome, warn) ==
  LET w == work[p]
      r == w.repo
  IN  work' = [work EXCEPT ![p] =
                 [w EXCEPT !.phase = "between",
                           !.told = [w.told EXCEPT ![r] = outcome],
                           !.warned = IF warn THEN w.warned \cup {r}
                                              ELSE w.warned]]

\* An apply the gates refuse is over before it began.
Begin(p, cmd, q) ==
  /\ in(p, "rest")
  /\ \E r \in Repo :
       work' = [work EXCEPT ![p] =
                  Untold(cmd, q, r, IF cmd = "apply" /\ q \notin Permitted
                                    THEN "rest" ELSE "between")]
  /\ UNCHANGED <<local, remote>>

\* An affected repository that was not told of yet.
Take(p, r) ==
  /\ in(p, "between")
  /\ r \in Affected[work[p].plan] /\ work[p].told[r] = "none"
  /\ work' = [work EXCEPT ![p] = [@ EXCEPT !.repo = r, !.phase = "working"]]
  /\ UNCHANGED <<local, remote>>

Branch(p) ==
  /\ in(p, "working") /\ work[p].cmd = "apply"
  /\ local' = [local EXCEPT ![work[p].repo] = @ \cup {work[p].plan}]
  /\ turn(p, "branched")
  /\ UNCHANGED remote

\* Published, or left unpublished with a warning if that was not intended.
Publish(p) ==
  LET r == work[p].repo
      q == work[p].plan
  IN  /\ in(p, "branched")
      /\ \/ /\ Publishing /\ r \in HasRemote /\ q \in local[r]
            /\ remote' = [remote EXCEPT ![r] = @ \cup {q}]
            /\ tell(p, "created", FALSE)
         \/ /\ tell(p, "created", Publishing)
            /\ UNCHANGED remote
      /\ UNCHANGED local

Withdraw(p) ==
  LET r == work[p].repo
      q == work[p].plan
  IN  /\ in(p, "working") /\ work[p].cmd = "rollback"
      /\ q \in local[r]
      /\ local' = [local EXCEPT ![r] = @ \ {q}]
      /\ turn(p, "withdrawn")
      /\ UNCHANGED remote

\* Unpublished, or left at an origin with a warning.
Unpublish(p) ==
  LET r == work[p].repo
      q == work[p].plan
  IN  /\ in(p, "withdrawn")
      /\ \/ /\ r \in HasRemote /\ q \in remote[r]
            /\ remote' = [remote EXCEPT ![r] = @ \ {q}]
            /\ tell(p, "deleted", FALSE)
         \/ /\ tell(p, "deleted", r \in HasRemote)
            /\ UNCHANGED remote
      /\ UNCHANGED local

\* A repository that is given up is as it was; a rollback skips one without
\* the branch.
GiveUp(p) ==
  /\ in(p, "working")
  /\ \/ tell(p, "failed", FALSE)
     \/ /\ work[p].cmd = "rollback"
        /\ work[p].plan \notin local[work[p].repo]
        /\ tell(p, "skipped", FALSE)
  /\ UNCHANGED <<local, remote>>

End(p) ==
  /\ in(p, "between")
  /\ \A r \in Affected[work[p].plan] : work[p].told[r] # "none"
  /\ turn(p, "rest")
  /\ UNCHANGED <<local, remote>>

\* A killed command tells nothing.
Kill(p) ==
  /\ ~in(p, "rest")
  /\ \E r \in Repo :
       work' = [work EXCEPT ![p] = Untold(@.cmd, @.plan, r, "rest")]
  /\ UNCHANGED <<local, remote>>

Next == \E p \in Proc :
          \/ \E cmd \in {"apply", "rollback"}, q \in Plan : Begin(p, cmd, q)
          \/ \E r \in Repo : Take(p, r)
          \/ Branch(p) \/ Publish(p)
          \/ Withdraw(p) \/ Unpublish(p)
          \/ GiveUp(p) \/ End(p) \/ Kill(p)

Spec == Init /\ [][Next]_branchVars
=============================================================================
