---------------------------- MODULE ControlPlane ----------------------------
(***************************************************************************)
(* The review / apply / rollback life cycle of engine/index.ts with the     *)
(* artifact store of engine/review/index.ts: the latest artifact, which     *)
(* apply and rollback read, and the snapshots keyed by (configuration,      *)
(* branch signature, refs), which review reads.  Each process is one run of *)
(* the command line; files are rewritten in place (truncate, then write),   *)
(* so a reader or a kill in between finds no parsable artifact.             *)
(*                                                                          *)
(* The workspace is one value of Tree.  What a scan and git say of it are   *)
(* the constants Facts and Sig: two trees may have the same signature,      *)
(* since branchSignatureFromManifests covers the head commit and the NAMES  *)
(* of the dirty files but neither their contents nor where the base ref     *)
(* points.  Scans are fresh here (no daemon); executing a plan is one step  *)
(* (module Execution has its git commands).                                 *)
(***************************************************************************)
EXTENDS Policy

CONSTANTS Proc, Tree,
          Refs,        \* the (base ref, head ref) pairs asked for
          Configs,     \* the configuration files the developer uses
          Facts,       \* tree -> what scanning it finds
          Sig,         \* tree -> its branch signature
          NoArtifact,  \* no file, or one that does not parse
          MaxPlans,    \* bound on generated plans
          MaxCrashes   \* bound on killed commands

ASSUME ConstantsAssumption ==
  /\ Configs \subseteq ConfigType
  /\ Facts \in [Tree -> WorldType]
  /\ DOMAIN Sig = Tree
  /\ Configs # {} /\ Tree # {} /\ Refs # {}
  /\ MaxPlans \in Nat
  /\ MaxCrashes \in Nat

Signature == {Sig[t] : t \in Tree}
Key == [config : Configs, sig : Signature, refs : Refs]

\* A stored artifact with its execution plan.  config and seen are what it was
\* computed from; planId stands for the clock value in the branch name.
Artifact == [planId  : 1..MaxPlans,
             config  : Configs,
             seen    : Tree,
             refs    : Refs,
             drift   : BOOLEAN,
             rawRisk : RiskLevel,
             blocked : BOOLEAN,
             decided : BOOLEAN,   \* some policyDecision shown is "blocked"
             risk    : RiskLevel]

ASSUME NoArtifactAssumption == NoArtifact \notin Artifact

VARIABLES config,      \* the configuration file on disk
          tree,        \* the workspace
          latest,      \* the artifact at resolveArtifactPath
          snapshots,   \* review-snapshots/<provider>-<hash>.json
          proc,        \* proc[p]: progress of one command
          nextPlan,    \* the clock
          branches,    \* plans whose branches exist in the repositories
          crashes,
          disturbed    \* history: two commands ran at once, or one was killed

store == <<latest, snapshots>>
vars == <<config, tree, store, proc, nextPlan, branches, crashes, disturbed>>

Pc == {"idle", "scan", "lookup", "compute", "truncLatest", "writeLatest",
       "truncSnapshot", "writeSnapshot", "load", "execute", "loadForRollback",
       "undo"}

ProcType == [cmd    : {"review", "apply", "rollback"},
             refs   : Refs,
             config : Configs,
             seen   : Tree,
             art    : Artifact \cup {NoArtifact},
             pc     : Pc]

TypeOK == /\ config \in Configs
          /\ tree \in Tree
          /\ latest \in Artifact \cup {NoArtifact}
          /\ snapshots \in [Key -> Artifact \cup {NoArtifact}]
          /\ proc \in [Proc -> ProcType]
          /\ nextPlan \in 1..(MaxPlans + 1)
          /\ branches \in SUBSET (1..MaxPlans)
          /\ crashes \in Nat
          /\ disturbed \in BOOLEAN

\* A process that has not started or has exited: nothing of it is kept.
NoProcess == [cmd |-> "review", refs |-> CHOOSE r \in Refs : TRUE,
              config |-> CHOOSE c \in Configs : TRUE,
              seen |-> CHOOSE t \in Tree : TRUE,
              art |-> NoArtifact, pc |-> "idle"]

Init == /\ config \in Configs
        /\ tree \in Tree
        /\ latest = NoArtifact
        /\ snapshots = [k \in Key |-> NoArtifact]
        /\ proc = [p \in Proc |-> NoProcess]
        /\ nextPlan = 1
        /\ branches = {}
        /\ crashes = 0
        /\ disturbed = FALSE

Idle(p) == proc[p].pc = "idle"
at(p, pc) == proc[p].pc = pc
goto(p, pc) == proc' = [proc EXCEPT ![p].pc = pc]

exit(p) == proc' = [proc EXCEPT ![p] = NoProcess]

\* What a command does with the artifact in hand once review is over: apply
\* executes it, review returns it.
afterReview(p, art) ==
  IF proc[p].cmd = "apply"
  THEN proc' = [proc EXCEPT ![p].art = art, ![p].pc = "execute"]
  ELSE exit(p)

\* Mutant: the key is computed when it is used.
snapshotKeyNow(p) == [config |-> proc[p].config, sig |-> Sig[tree],
                      refs |-> proc[p].refs]

snapshotKey(p) == [config |-> proc[p].config, sig |-> Sig[proc[p].seen],
                   refs |-> proc[p].refs]

------------------------------------------------------------------------------
\* The command line reads the configuration once, when it starts.
Start(p) ==
  /\ Idle(p)
  /\ \E cmd \in {"review", "apply", "rollback"}, r \in Refs :
       /\ proc' = [proc EXCEPT ![p] =
                     [cmd |-> cmd, refs |-> r, config |-> config,
                      seen |-> tree, art |-> NoArtifact,
                      pc |-> CASE cmd = "review"   -> "scan"
                               [] cmd = "apply"    -> "load"
                               [] cmd = "rollback" -> "loadForRollback"]]
  /\ UNCHANGED <<config, tree, store, nextPlan, branches, crashes>>

\* Mutant: whatever its refs.
LoadAny(p) ==
  /\ at(p, "load")
  /\ IF latest # NoArtifact
     THEN proc' = [proc EXCEPT ![p].art = latest, ![p].pc = "execute"]
     ELSE goto(p, "scan")
  /\ UNCHANGED <<config, tree, store, nextPlan, branches, crashes>>

\* apply reuses the latest artifact whenever its two refs are the ones asked
\* for, and reviews otherwise.
Load(p) ==
  /\ at(p, "load")
  /\ IF latest # NoArtifact /\ latest.refs = proc[p].refs
     THEN proc' = [proc EXCEPT ![p].art = latest, ![p].pc = "execute"]
     ELSE goto(p, "scan")
  /\ UNCHANGED <<config, tree, store, nextPlan, branches, crashes>>

Scan(p) ==
  /\ at(p, "scan")
  /\ proc' = [proc EXCEPT ![p].seen = tree, ![p].pc = "lookup"]
  /\ UNCHANGED <<config, tree, store, nextPlan, branches, crashes>>

\* A snapshot hit returns the stored artifact and leaves the latest one alone.
Lookup(p) ==
  LET found == snapshots[snapshotKey(p)]
  IN  /\ at(p, "lookup")
      /\ IF found # NoArtifact
         THEN afterReview(p, found)
         ELSE goto(p, "compute")
      /\ UNCHANGED <<config, tree, store, nextPlan, branches,
                     crashes>>

\* The findings and owners come from the scan, the changed files (and with them
\* the risk) from the git refs as they are now.
createArtifact(p) ==
  LET world == [Facts[proc[p].seen] EXCEPT !.risk = Facts[tree].risk]
      blocked == planBlocked(proc[p].config, world)
  IN  [planId  |-> nextPlan,
       config  |-> proc[p].config,
       seen    |-> proc[p].seen,
       refs    |-> proc[p].refs,
       drift   |-> world.drift,
       rawRisk |-> world.risk,
       blocked |-> blocked,
       decided |-> policiesBlock(reviewDecisions(proc[p].config, world)),
       risk    |-> mergeRiskReports(world.risk, blocked)]

Compute(p) ==
  /\ at(p, "compute")
  /\ nextPlan <= MaxPlans
  /\ proc' = [proc EXCEPT ![p].art = createArtifact(p), ![p].pc = "truncLatest"]
  /\ nextPlan' = nextPlan + 1
  /\ UNCHANGED <<config, tree, store, branches, crashes>>

\* saveReviewArtifact: the latest artifact, then the snapshot.
SaveLatest(p) ==
  /\ \/ /\ at(p, "truncLatest")
        /\ latest' = NoArtifact
        /\ goto(p, "writeLatest")
     \/ /\ at(p, "writeLatest")
        /\ latest' = proc[p].art
        /\ goto(p, "truncSnapshot")
  /\ UNCHANGED <<config, tree, snapshots, nextPlan, branches,
                 crashes>>

\* Mutant: an apply saves the latest artifact only.
SaveSnapshotReviewOnly(p) ==
  /\ IF proc[p].cmd = "apply"
     THEN /\ at(p, "truncSnapshot")
          /\ afterReview(p, proc[p].art)
          /\ UNCHANGED snapshots
     ELSE \/ /\ at(p, "truncSnapshot")
             /\ goto(p, "writeSnapshot")
             /\ UNCHANGED snapshots
          \/ /\ at(p, "writeSnapshot")
             /\ snapshots' = [snapshots EXCEPT ![snapshotKey(p)] = proc[p].art]
             /\ afterReview(p, proc[p].art)
  /\ UNCHANGED <<config, tree, latest, nextPlan, branches, crashes>>

SaveSnapshot(p) ==
  /\ \/ /\ at(p, "truncSnapshot")
        /\ snapshots' = [snapshots EXCEPT ![snapshotKey(p)] = NoArtifact]
        /\ goto(p, "writeSnapshot")
     \/ /\ at(p, "writeSnapshot")
        /\ snapshots' = [snapshots EXCEPT ![snapshotKey(p)] = proc[p].art]
        /\ afterReview(p, proc[p].art)
  /\ UNCHANGED <<config, tree, latest, nextPlan, branches, crashes>>

\* applyExecutionPlan with the configuration the command started with and the
\* verdict and risk stored in the artifact.
Execute(p) ==
  LET art == proc[p].art
      go == mayExecute(proc[p].config, art.blocked, art.risk)
  IN  /\ at(p, "execute")
      /\ branches' = IF go THEN branches \cup {art.planId} ELSE branches
      /\ exit(p)
      /\ UNCHANGED <<config, tree, store, nextPlan, crashes>>

\* rollback knows the latest artifact only, and fails without one.
LoadForRollback(p) ==
  /\ at(p, "loadForRollback")
  /\ IF latest = NoArtifact
     THEN exit(p)
     ELSE proc' = [proc EXCEPT ![p].art = latest, ![p].pc = "undo"]
  /\ UNCHANGED <<config, tree, store, nextPlan, branches, crashes>>

Undo(p) ==
  /\ at(p, "undo")
  /\ branches' = branches \ {proc[p].art.planId}
  /\ exit(p)
  /\ UNCHANGED <<config, tree, store, nextPlan, crashes>>

------------------------------------------------------------------------------
\* The developer edits, commits, moves refs or changes the configuration.
Develop ==
  /\ \/ tree' \in Tree \ {tree} /\ UNCHANGED config
     \/ config' \in Configs \ {config} /\ UNCHANGED tree
  /\ UNCHANGED <<store, proc, nextPlan, branches, crashes>>

Crash(p) ==
  /\ ~Idle(p)
  /\ crashes < MaxCrashes
  /\ crashes' = crashes + 1
  /\ exit(p)
  /\ UNCHANGED <<config, tree, store, nextPlan, branches>>

Step(p) == \/ Load(p) \/ Scan(p) \/ Lookup(p) \/ Compute(p)
           \/ SaveLatest(p) \/ SaveSnapshot(p) \/ Execute(p)
           \/ LoadForRollback(p) \/ Undo(p)

\* What the history variable records of a step.
Record == disturbed' = \/ disturbed
                       \/ \E p \in Proc : Crash(p)
                       \/ \E p, q \in Proc : p # q /\ ~Idle(p)' /\ ~Idle(q)'

Next == /\ \/ \E p \in Proc : Start(p) \/ Step(p) \/ Crash(p)
           \/ Develop
        /\ Record

Spec == Init /\ [][Next]_vars

------------------------------------------------------------------------------
(* Properties *)

\* Every artifact somebody may still act on.
Stored == ({latest} \cup {snapshots[k] : k \in Key}
             \cup {proc[p].art : p \in Proc}) \ {NoArtifact}

\* A plan id names one plan, wherever the artifact was copied.
PlanIdsUnique ==
  /\ \A x, y \in Stored : x.planId = y.planId => x = y
  /\ \A x \in Stored : x.planId < nextPlan

\* "aborts on blocked decisions" (commands/apply.md): no plan that a gate
\* blocked when it was generated, and none whose artifact shows a blocked policy
\* decision (a second evaluation with other options), has branches, by whatever
\* route the artifact reached apply.
BlockedNeverApplied ==
  \A x \in Stored : x.planId \in branches => ~x.blocked /\ ~x.decided

\* apply executes a plan generated for the refs it was asked for, whether it
\* reuses the latest artifact, hits a snapshot or reviews anew.
AppliesRequestedRefs ==
  \A p \in Proc : at(p, "execute") =>
     proc[p].art # NoArtifact /\ proc[p].art.refs = proc[p].refs

\* A snapshot was computed under the configuration, for the branch signature
\* and for the refs it is filed under, though the workspace moves on between
\* the scan and the two writes.
SnapshotsFiledRight ==
  \A k \in Key : snapshots[k] # NoArtifact =>
     /\ snapshots[k].config = k.config
     /\ Sig[snapshots[k].seen] = k.sig
     /\ snapshots[k].refs = k.refs

\* README: in strict mode drift "should also block review approval".  Under a
\* strict configuration the decisions the review shows block exactly when the
\* plan is blocked; in reconciliation mode they never block more.
ReviewMatchesPlan ==
  \A x \in Stored : /\ x.decided => x.blocked
                    /\ x.config.phaseMode = "strict" => (x.blocked => x.decided)

\* Every applied plan can be found in the store, so that its branches are
\* accounted for.
AppliedPlansAreKept ==
  branches \subseteq {snapshots[k].planId :
                        k \in {j \in Key : snapshots[j] # NoArtifact}}

\* README "Roll back the last generated execution plan": rollback acts on the
\* newest plan, whatever snapshots hit.
RollsBackLastGenerated ==
  \A p \in Proc : at(p, "undo") => proc[p].art.planId = nextPlan - 1

\* As long as one command ran at a time and none was killed, the store keeps
\* what rollback needs: the plan of every apply is in it, and rollback acts on
\* the plan that was generated last (saveReviewArtifact's two files).
StoreServesRollback ==
  ~disturbed => AppliedPlansAreKept /\ RollsBackLastGenerated

(* What the documents say and the code does not do; each is refuted by a run. *)

\* README: "apply blocked while authority drift is unresolved": nothing is
\* executed by a command in whose workspace, as it started or as it scanned it,
\* there is drift.
ApplyBlockedWhileDrift ==
  [][\A p \in Proc : at(p, "execute") /\ branches' \ branches # {}
                     => ~Facts[proc[p].seen].drift]_vars

=============================================================================
