------------------------- MODULE ControlPlane_proofs -------------------------
(***************************************************************************)
(* Proofs about ControlPlane, for any processes, trees, references,         *)
(* configurations and bounds: type correctness, that a blocked plan is      *)
(* never executed, that apply executes a plan for the references it was     *)
(* asked for, that snapshots are filed under what they were computed from,  *)
(* that the decisions shown agree with the verdict, and that the store      *)
(* keeps what rollback needs while commands neither overlap nor are killed. *)
(*                                                                          *)
(* The strengthening: what a command holds in each of its steps (HoldsOK),  *)
(* and that a plan id names one artifact wherever it was copied             *)
(* (PlanIdsUnique); without the latter, executing one artifact could        *)
(* create the branches of another that is blocked.                          *)
(*                                                                          *)
(* Below, of what the control plane goes by: whatever a file holds, what a *)
(* command gets is the user's, completed (ConfigSound; sections are        *)
(* treated one by one, for laying one over another is idempotent), and what*)
(* the bridge reports of calls, procedures and authority, by which apply is*)
(* held up, is what the two sides say, call by call (BridgeReconciled).    *)
(***************************************************************************)
EXTENDS ControlPlane, Config, Bridge, Lemmas, FiniteSetTheorems, SequenceTheorems, TLAPS

SavePc == {"truncLatest", "writeLatest", "truncSnapshot", "writeSnapshot"}

\* What a command holds in its hands, by the step it is at.
RecordOK(rec) ==
  /\ rec.pc \in SavePc => /\ rec.art # NoArtifact
                          /\ rec.art.config = rec.config
                          /\ rec.art.seen = rec.seen
                          /\ rec.art.refs = rec.refs
  /\ rec.pc = "execute" => rec.art # NoArtifact /\ rec.art.refs = rec.refs
  /\ rec.pc = "undo" => rec.art # NoArtifact

HoldsOK == \A p \in Proc : RecordOK(proc[p])

------------------------------------------------------------------------------
(* The gates. *)

\* When a set of decisions blocks: policies are enabled and one of the four
\* blocking conditions holds; missing owners only warn.
LEMMA WhenBlocked ==
  ASSUME NEW c, NEW risk, NEW owners, NEW destructive, NEW drifted
  PROVE  policiesBlock(evaluatePolicies(c, risk, owners, destructive, drifted))
           <=> /\ c.policiesEnabled
               /\ \/ c.forbidDirectMainMutation /\ c.baseProtected
                  \/ /\ c.maxAllowedRisk # "none"
                     /\ RISK_ORDER[risk] > RISK_ORDER[c.maxAllowedRisk]
                  \/ c.forbidDestructiveChanges /\ destructive
                  \/ drifted
<1> DEFINE D == evaluatePolicies(c, risk, owners, destructive, drifted)
           blocked(id) == [policyId |-> id, status |-> "blocked"]
<1>1. \A id \in PolicyId : blocked(id) \in Decision
  BY DEF Decision
<1>2. \A d \in D : d.status = "blocked" =>
        d \in Decision /\ d = blocked(d.policyId) /\ d.policyId \in PolicyId
  BY DEF Decision, evaluatePolicies
<1>3. policiesBlock(D) <=> \E id \in PolicyId : blocked(id) \in D
  BY <1>2 DEF policiesBlock
<1> QED
  BY <1>1, <1>3 DEF evaluatePolicies, PolicyId

\* The decisions shown block only when the plan is blocked, and in strict mode
\* exactly then: no plan kind that can be generated is destructive.
LEMMA ShownDecisions ==
  ASSUME NEW c \in ConfigType, NEW world \in WorldType
  PROVE  LET shown == policiesBlock(reviewDecisions(c, world))
         IN  /\ shown => planBlocked(c, world)
             /\ c.phaseMode = "strict" => (planBlocked(c, world) => shown)
<1> DEFINE cond(destructive, drifted) ==
             /\ c.policiesEnabled
             /\ \/ c.forbidDirectMainMutation /\ c.baseProtected
                \/ /\ c.maxAllowedRisk # "none"
                   /\ RISK_ORDER[world.risk] > RISK_ORDER[c.maxAllowedRisk]
                \/ c.forbidDestructiveChanges /\ destructive
                \/ drifted
           strict == c.phaseMode = "strict"
<1>1. policiesBlock(reviewDecisions(c, world))
        <=> cond(FALSE, strict /\ world.drift)
  BY WhenBlocked DEF reviewDecisions
<1>2. planBlocked(c, world) <=> cond(destructiveChange(PlanKind), world.drift)
  BY WhenBlocked DEF planBlocked
<1>3. destructiveChange(PlanKind) = FALSE
  BY DEF destructiveChange, PlanKind
<1> QED
  BY <1>1, <1>2, <1>3

------------------------------------------------------------------------------
(* Typing. *)

LEMMA NewArtifactType ==
  ASSUME TypeOK, NEW p \in Proc, nextPlan <= MaxPlans
  PROVE  createArtifact(p) \in Artifact
<1> DEFINE world == [Facts[proc[p].seen] EXCEPT !.risk = Facts[tree].risk]
           blocked == planBlocked(proc[p].config, world)
           decided == policiesBlock(reviewDecisions(proc[p].config, world))
           risk == mergeRiskReports(world.risk, blocked)
<1>1. /\ proc[p] \in ProcType /\ Facts[proc[p].seen] \in WorldType
      /\ Facts[tree] \in WorldType
  BY ConstantsAssumption DEF TypeOK, ProcType
<1>2. world.drift \in BOOLEAN /\ world.risk \in RiskLevel
  BY <1>1 DEF WorldType
<1>3. blocked \in BOOLEAN /\ decided \in BOOLEAN
  BY DEF planBlocked, policiesBlock
<1>4. risk \in RiskLevel
  BY <1>2 DEF mergeRiskReports, RiskLevel
<1>5. nextPlan \in 1..MaxPlans
  BY ConstantsAssumption DEF TypeOK
<1>6. createArtifact(p) =
        [planId |-> nextPlan, config |-> proc[p].config, seen |-> proc[p].seen,
         refs |-> proc[p].refs, drift |-> world.drift, rawRisk |-> world.risk,
         blocked |-> blocked, decided |-> decided, risk |-> risk]
  BY DEF createArtifact
<1> HIDE DEF world, blocked, decided, risk
<1> QED
  BY <1>1, <1>2, <1>3, <1>4, <1>5, <1>6 DEF Artifact, ProcType

LEMMA KeyType == ASSUME TypeOK, NEW p \in Proc PROVE snapshotKey(p) \in Key
BY DEF TypeOK, ProcType, snapshotKey, Key, Signature

LEMMA NoProcessType == NoProcess \in ProcType
<1>1. /\ (CHOOSE r \in Refs : TRUE) \in Refs
      /\ (CHOOSE c \in Configs : TRUE) \in Configs
      /\ (CHOOSE t \in Tree : TRUE) \in Tree
  BY ConstantsAssumption
<1> QED
  BY <1>1 DEF NoProcess, ProcType, Pc

\* Only process p moves on: to step pc with artifact art in hand, everything
\* else it holds as before.
Moves(p, pc, art) ==
  /\ proc' \in [Proc -> ProcType]
  /\ \A q \in Proc \ {p} : proc'[q] = proc[q]
  /\ proc'[p].pc = pc
  /\ proc'[p].art = art
  /\ proc'[p].refs = proc[p].refs
  /\ proc'[p].config = proc[p].config
  /\ proc'[p].seen = proc[p].seen

\* Process p is at a step of a command where it holds no artifact yet.
Begins(p) ==
  /\ proc' \in [Proc -> ProcType]
  /\ \A q \in Proc \ {p} : proc'[q] = proc[q]
  /\ proc'[p].pc \in {"idle", "scan", "lookup", "load", "loadForRollback"}
  /\ proc'[p].art \in {NoArtifact, proc[p].art}

LEMMA GotoMoves ==
  ASSUME TypeOK, NEW p \in Proc, NEW pc \in Pc, goto(p, pc)
  PROVE  Moves(p, pc, proc[p].art)
BY DEF TypeOK, goto, ProcType, Moves

LEMMA TakeMoves ==
  ASSUME TypeOK, NEW p \in Proc, NEW pc \in Pc,
         NEW art \in Artifact \cup {NoArtifact},
         proc' = [proc EXCEPT ![p].art = art, ![p].pc = pc]
  PROVE  Moves(p, pc, art)
BY DEF TypeOK, ProcType, Moves

LEMMA ExitBegins ==
  ASSUME TypeOK, NEW p \in Proc, exit(p)
  PROVE  Begins(p)
BY NoProcessType DEF TypeOK, exit, Begins, NoProcess

LEMMA StartBegins ==
  ASSUME TypeOK, NEW p \in Proc, Start(p)
  PROVE  Begins(p)
<1>1. PICK cmd \in {"review", "apply", "rollback"}, r \in Refs :
        proc' = [proc EXCEPT ![p] =
                   [cmd |-> cmd, refs |-> r, config |-> config,
                    seen |-> tree, art |-> NoArtifact,
                    pc |-> CASE cmd = "review"   -> "scan"
                             [] cmd = "apply"    -> "load"
                             [] cmd = "rollback" -> "loadForRollback"]]
  BY DEF Start
<1> DEFINE pc == CASE cmd = "review"   -> "scan"
                   [] cmd = "apply"    -> "load"
                   [] cmd = "rollback" -> "loadForRollback"
           rec == [cmd |-> cmd, refs |-> r, config |-> config,
                   seen |-> tree, art |-> NoArtifact, pc |-> pc]
<1>2. pc \in {"scan", "load", "loadForRollback"}
  OBVIOUS
<1>3. proc' = [proc EXCEPT ![p] = rec]
  BY <1>1
<1> HIDE DEF pc
<1>4. rec \in ProcType
  BY <1>2 DEF TypeOK, ProcType, Pc
<1> QED
  BY <1>2, <1>3, <1>4 DEF TypeOK, Begins

LEMMA ScanBegins ==
  ASSUME TypeOK, NEW p \in Proc, Scan(p)
  PROVE  Begins(p)
<1>1. /\ proc' = [proc EXCEPT ![p].seen = tree, ![p].pc = "lookup"]
      /\ proc \in [Proc -> ProcType] /\ tree \in Tree
  BY DEF TypeOK, Scan
<1>2. /\ proc'[p] = [proc[p] EXCEPT !.seen = tree, !.pc = "lookup"]
      /\ \A q \in Proc \ {p} : proc'[q] = proc[q]
  BY <1>1
<1>3. proc'[p] \in ProcType /\ proc'[p].art = proc[p].art /\ proc'[p].pc = "lookup"
  <2> DEFINE r == proc[p]
             n == [r EXCEPT !.seen = tree]
  <2>1. r \in ProcType
    BY <1>1
  <2>2. n \in ProcType /\ n.art = r.art
    BY <1>1, <2>1 DEF ProcType
  <2>3. proc'[p] = [n EXCEPT !.pc = "lookup"]
    BY <1>2
  <2> HIDE DEF n
  <2> QED
    BY <2>2, <2>3 DEF ProcType, Pc
<1>4. proc' \in [Proc -> ProcType]
  BY <1>1, <1>2, <1>3
<1> QED
  BY <1>2, <1>3, <1>4 DEF Begins

\* Review is over with artifact art in hand.
LEMMA AfterReviewMoves ==
  ASSUME TypeOK, NEW p \in Proc, NEW art \in Artifact \cup {NoArtifact},
         afterReview(p, art)
  PROVE  Begins(p) \/ Moves(p, "execute", art)
BY ExitBegins, TakeMoves DEF afterReview, Pc

\* What each step makes of the command's record.
LEMMA StepMoves ==
  ASSUME TypeOK, NEW p \in Proc
  PROVE  /\ Load(p) => \/ /\ Moves(p, "execute", latest)
                          /\ latest # NoArtifact /\ latest.refs = proc[p].refs
                       \/ Moves(p, "scan", proc[p].art)
         /\ Lookup(p) => \/ Begins(p)
                         \/ /\ Moves(p, "execute", snapshots[snapshotKey(p)])
                            /\ snapshots[snapshotKey(p)] # NoArtifact
                         \/ Moves(p, "compute", proc[p].art)
         /\ Compute(p) => Moves(p, "truncLatest", createArtifact(p))
         /\ SaveLatest(p) => \/ Moves(p, "writeLatest", proc[p].art)
                             \/ Moves(p, "truncSnapshot", proc[p].art)
         /\ SaveSnapshot(p) => \/ Moves(p, "writeSnapshot", proc[p].art)
                               \/ Begins(p)
                               \/ Moves(p, "execute", proc[p].art)
         /\ LoadForRollback(p) => \/ Begins(p)
                                  \/ Moves(p, "undo", latest) /\ latest # NoArtifact
<1>1. \A pc \in Pc : goto(p, pc) => Moves(p, pc, proc[p].art)
  BY GotoMoves
<1>2. proc[p].art \in Artifact \cup {NoArtifact}
  BY DEF TypeOK, ProcType
<1>3. Load(p) => \/ /\ Moves(p, "execute", latest)
                    /\ latest # NoArtifact /\ latest.refs = proc[p].refs
                 \/ Moves(p, "scan", proc[p].art)
  BY <1>1, TakeMoves DEF Load, Pc, TypeOK
<1>4. Lookup(p) => \/ Begins(p)
                   \/ /\ Moves(p, "execute", snapshots[snapshotKey(p)])
                      /\ snapshots[snapshotKey(p)] # NoArtifact
                   \/ Moves(p, "compute", proc[p].art)
  <2>1. snapshots[snapshotKey(p)] \in Artifact \cup {NoArtifact}
    BY KeyType DEF TypeOK
  <2> QED
    BY <1>1, <2>1, AfterReviewMoves DEF Lookup, Pc
<1>5. Compute(p) => Moves(p, "truncLatest", createArtifact(p))
  BY NewArtifactType, TakeMoves DEF Compute, Pc
<1>6. SaveLatest(p) => \/ Moves(p, "writeLatest", proc[p].art)
                       \/ Moves(p, "truncSnapshot", proc[p].art)
  BY <1>1 DEF SaveLatest, Pc
<1>7. SaveSnapshot(p) => \/ Moves(p, "writeSnapshot", proc[p].art)
                         \/ Begins(p)
                         \/ Moves(p, "execute", proc[p].art)
  BY <1>1, <1>2, AfterReviewMoves DEF SaveSnapshot, Pc
<1>8. LoadForRollback(p) => \/ Begins(p)
                            \/ Moves(p, "undo", latest) /\ latest # NoArtifact
  BY ExitBegins, TakeMoves DEF LoadForRollback, Pc, TypeOK
<1> QED
  BY <1>3, <1>4, <1>5, <1>6, <1>7, <1>8

\* Every step of a command keeps the records typed and the other commands'.
LEMMA OnlyOwnRecord ==
  ASSUME TypeOK, NEW p \in Proc, Start(p) \/ Step(p) \/ Crash(p)
  PROVE  /\ proc' \in [Proc -> ProcType]
         /\ \A q \in Proc \ {p} : proc'[q] = proc[q]
<1>1. Execute(p) \/ Undo(p) \/ Crash(p) => Begins(p)
  BY ExitBegins DEF Execute, Undo, Crash
<1> QED
  BY <1>1, StepMoves, StartBegins, ScanBegins DEF Step, Moves, Begins

LEMMA TypeInit == Init => TypeOK
<1> SUFFICES ASSUME Init PROVE TypeOK
  OBVIOUS
<1>1. proc \in [Proc -> ProcType]
  BY NoProcessType DEF Init
<1>2. nextPlan \in 1..(MaxPlans + 1)
  BY ConstantsAssumption DEF Init
<1>3. crashes \in Nat /\ branches \in SUBSET (1..MaxPlans)
  BY ConstantsAssumption DEF Init
<1> QED
  BY <1>1, <1>2, <1>3 DEF Init, TypeOK

\* Not inductive alone: executing adds the id of the artifact in hand, which
\* must be one.
LEMMA TypeNext == TypeOK /\ HoldsOK /\ [Next]_vars => TypeOK'
<1> SUFFICES ASSUME TypeOK, HoldsOK, [Next]_vars PROVE TypeOK'
  OBVIOUS
<1>0. disturbed' \in BOOLEAN
  BY DEF TypeOK, Next, Record, vars
<1>1. ASSUME NEW p \in Proc, Start(p) \/ Step(p) \/ Crash(p)
      PROVE  TypeOK'
  <2>1. proc' \in [Proc -> ProcType]
    BY <1>1, OnlyOwnRecord
  <2>2. proc[p].art \in Artifact \cup {NoArtifact}
    BY DEF TypeOK, ProcType
  <2>3. UNCHANGED <<config, tree>>
    BY <1>1 DEF Start, Step, Crash, Load, Scan, Lookup, Compute, SaveLatest,
                SaveSnapshot, Execute, LoadForRollback, Undo
  <2>4. latest' \in Artifact \cup {NoArtifact}
    BY <1>1, <2>2 DEF TypeOK, Start, Step, Crash, Load, Scan, Lookup, Compute,
         SaveLatest, SaveSnapshot, Execute, LoadForRollback, Undo, store
  <2>5. snapshots' \in [Key -> Artifact \cup {NoArtifact}]
    BY <1>1, <2>2 DEF TypeOK, Start, Step, Crash, Load, Scan, Lookup, Compute,
         SaveLatest, SaveSnapshot, Execute, LoadForRollback, Undo, store
  <2>6. nextPlan' \in 1..(MaxPlans + 1) /\ crashes' \in Nat
    BY <1>1, ConstantsAssumption
       DEF TypeOK, Start, Step, Crash, Load, Scan, Lookup, Compute,
           SaveLatest, SaveSnapshot, Execute, LoadForRollback, Undo
  <2>7. branches' \in SUBSET (1..MaxPlans)
    <3>1. CASE Execute(p)
      <4>1. proc[p].art \in Artifact
        BY <2>2, <3>1 DEF Execute, at, HoldsOK, RecordOK
      <4>2. proc[p].art.planId \in 1..MaxPlans
        BY <4>1 DEF Artifact
      <4>3. branches' \in {branches, branches \cup {proc[p].art.planId}}
        BY <3>1 DEF Execute
      <4> QED
        BY <4>2, <4>3 DEF TypeOK
    <3>2. CASE ~Execute(p)
      BY <1>1, <3>2, ConstantsAssumption
         DEF TypeOK, Start, Step, Crash, Load, Scan, Lookup, Compute,
             SaveLatest, SaveSnapshot, LoadForRollback, Undo
    <3> QED
      BY <3>1, <3>2
  <2> QED
    BY <1>0, <2>1, <2>3, <2>4, <2>5, <2>6, <2>7 DEF TypeOK
<1>2. CASE Develop
  BY <1>0, <1>2 DEF Develop, TypeOK, store
<1>3. CASE UNCHANGED vars
  BY <1>3 DEF vars, store, TypeOK
<1> QED
  BY <1>1, <1>2, <1>3 DEF Next

------------------------------------------------------------------------------
(* What a command holds, and what the snapshots were computed from. *)

IInv == TypeOK /\ HoldsOK /\ SnapshotsFiledRight

LEMMA CommandHolds ==
  ASSUME IInv, NEW p \in Proc, Start(p) \/ Step(p) \/ Crash(p)
  PROVE  HoldsOK'
<1>1. TypeOK
  BY DEF IInv
<1>2. /\ proc' \in [Proc -> ProcType]
      /\ \A q \in Proc \ {p} : proc'[q] = proc[q]
  BY <1>1, OnlyOwnRecord
<1>3. \A q \in Proc : RecordOK(proc[q])
  BY DEF IInv, HoldsOK
<1>4. SUFFICES RecordOK(proc'[p])
  BY <1>2, <1>3 DEF HoldsOK
<1>5. Begins(p) => RecordOK(proc'[p])
  BY DEF Begins, RecordOK, SavePc
<1>6. CASE Start(p) \/ Scan(p) \/ Execute(p) \/ Undo(p) \/ Crash(p)
  BY <1>1, <1>5, <1>6, StartBegins, ScanBegins, ExitBegins
     DEF Execute, Undo, Crash
<1>7. CASE Load(p) \/ LoadForRollback(p)
  BY <1>1, <1>5, <1>7, StepMoves DEF Moves, RecordOK, SavePc
<1>8. CASE Lookup(p)
  <2>1. snapshotKey(p) \in Key /\ snapshotKey(p).refs = proc[p].refs
    BY <1>1, KeyType DEF snapshotKey
  <2>2. snapshots[snapshotKey(p)] # NoArtifact =>
          snapshots[snapshotKey(p)].refs = proc[p].refs
    BY <2>1 DEF IInv, SnapshotsFiledRight
  <2> QED
    BY <1>1, <1>5, <1>8, <2>2, StepMoves DEF Moves, RecordOK, SavePc
<1>9. CASE Compute(p)
  <2>1. createArtifact(p) \in Artifact
    BY <1>1, <1>9, NewArtifactType DEF Compute
  <2>2. /\ createArtifact(p) # NoArtifact
        /\ createArtifact(p).config = proc[p].config
        /\ createArtifact(p).seen = proc[p].seen
        /\ createArtifact(p).refs = proc[p].refs
    BY <2>1, NoArtifactAssumption DEF createArtifact
  <2> QED
    BY <1>1, <1>9, <2>2, StepMoves DEF Moves, RecordOK, SavePc
<1>10. CASE SaveLatest(p) \/ SaveSnapshot(p)
  <2>1. proc[p].pc \in SavePc
    BY <1>10 DEF SaveLatest, SaveSnapshot, at, SavePc
  <2> QED
    BY <1>1, <1>3, <1>5, <1>10, <2>1, StepMoves DEF Moves, RecordOK, SavePc
<1> QED
  BY <1>6, <1>7, <1>8, <1>9, <1>10 DEF Step

LEMMA CommandFiles ==
  ASSUME IInv, NEW p \in Proc, Start(p) \/ Step(p) \/ Crash(p)
  PROVE  SnapshotsFiledRight'
<1>1. CASE SaveSnapshot(p)
  <2> DEFINE key == snapshotKey(p)
  <2>1. key \in Key /\ snapshots \in [Key -> Artifact \cup {NoArtifact}]
    BY KeyType DEF IInv, TypeOK
  <2>2. RecordOK(proc[p]) /\ proc[p].pc \in SavePc
    BY <1>1 DEF IInv, HoldsOK, SaveSnapshot, at, SavePc
  <2>3. /\ proc[p].art.config = key.config
        /\ Sig[proc[p].art.seen] = key.sig
        /\ proc[p].art.refs = key.refs
    BY <2>2 DEF RecordOK, snapshotKey
  <2>4. \/ snapshots' = [snapshots EXCEPT ![key] = NoArtifact]
        \/ snapshots' = [snapshots EXCEPT ![key] = proc[p].art]
    BY <1>1 DEF SaveSnapshot
  <2> HIDE DEF key
  <2> QED
    BY <2>1, <2>3, <2>4 DEF IInv, SnapshotsFiledRight
<1>2. CASE ~SaveSnapshot(p)
  <2>1. UNCHANGED snapshots
    BY <1>2 DEF Start, Step, Crash, Load, Scan, Lookup, Compute, SaveLatest,
                Execute, LoadForRollback, Undo, store
  <2> QED
    BY <2>1 DEF IInv, SnapshotsFiledRight
<1> QED
  BY <1>1, <1>2

LEMMA InvInit == Init => IInv
<1> SUFFICES ASSUME Init PROVE IInv
  OBVIOUS
<1>1. HoldsOK
  BY DEF Init, HoldsOK, RecordOK, SavePc, NoProcess
<1>2. SnapshotsFiledRight
  BY DEF Init, SnapshotsFiledRight
<1> QED
  BY <1>1, <1>2, TypeInit DEF IInv

LEMMA InvNext == IInv /\ [Next]_vars => IInv'
<1> SUFFICES ASSUME IInv, [Next]_vars PROVE IInv'
  OBVIOUS
<1>1. TypeOK'
  BY TypeNext DEF IInv
<1>2. CASE \E p \in Proc : Start(p) \/ Step(p) \/ Crash(p)
  BY <1>1, <1>2, CommandHolds, CommandFiles DEF IInv
<1>3. CASE Develop \/ UNCHANGED vars
  BY <1>1, <1>3 DEF Develop, vars, store, IInv, HoldsOK, SnapshotsFiledRight
<1> QED
  BY <1>2, <1>3 DEF Next

\* Every reachable state is well typed.
THEOREM TypeCorrect == Spec => []TypeOK
<1>1. IInv => TypeOK
  BY DEF IInv
<1> QED
  BY <1>1, InvInit, InvNext, PTL DEF Spec

\* Snapshots are filed under the configuration, the branch signature and the
\* refs they were computed from, though the workspace moves during a review.
THEOREM FiledCorrect == Spec => []SnapshotsFiledRight
<1>1. IInv => SnapshotsFiledRight
  BY DEF IInv
<1> QED
  BY <1>1, InvInit, InvNext, PTL DEF Spec

\* By whichever of its three routes an artifact reaches apply, it was generated
\* for the refs apply was asked for.
THEOREM RefsCorrect == Spec => []AppliesRequestedRefs
<1>1. IInv => AppliesRequestedRefs
  BY DEF IInv, HoldsOK, RecordOK, AppliesRequestedRefs, at
<1> QED
  BY <1>1, InvInit, InvNext, PTL DEF Spec

------------------------------------------------------------------------------
(* Plan ids and verdicts. *)

\* A plan id names one artifact wherever it was copied, branches belong to
\* plans already generated, and no stored artifact shows more than its verdict.
Verdicts == /\ PlanIdsUnique
            /\ \A id \in branches : id < nextPlan
            /\ ReviewMatchesPlan
            /\ BlockedNeverApplied

LEMMA StoredHas ==
  /\ \A x \in Stored : \/ x = latest
                       \/ \E k \in Key : x = snapshots[k]
                       \/ \E p \in Proc : x = proc[p].art
  /\ latest \in Stored \cup {NoArtifact}
  /\ \A k \in Key : snapshots[k] \in Stored \cup {NoArtifact}
  /\ \A p \in Proc : proc[p].art \in Stored \cup {NoArtifact}
BY DEF Stored

\* The steps copy artifacts about; only Compute makes a new one.
LEMMA StepCopies ==
  ASSUME IInv, NEW p \in Proc, Start(p) \/ Step(p) \/ Crash(p)
  PROVE  IF Compute(p) THEN Stored' \subseteq Stored \cup {createArtifact(p)}
                       ELSE Stored' \subseteq Stored
<1> DEFINE S == Stored \cup {NoArtifact}
<1>1. TypeOK
  BY DEF IInv
<1>2. /\ latest \in S /\ proc[p].art \in S
      /\ \A k \in Key : snapshots[k] \in S
      /\ \A q \in Proc : proc[q].art \in S
      /\ NoArtifact \in S
  BY StoredHas
<1>3. snapshotKey(p) \in Key /\ snapshots[snapshotKey(p)] \in S
  BY <1>1, <1>2, KeyType
<1> HIDE DEF S
<1>4. latest' \in S
  BY <1>2 DEF Start, Step, Crash, Load, Scan, Lookup, Compute, SaveLatest,
              SaveSnapshot, Execute, LoadForRollback, Undo, store
<1>5. \A k \in Key : snapshots'[k] \in S
  <2>1. CASE SaveSnapshot(p)
    <3> DEFINE key == snapshotKey(p)
    <3>1. snapshots \in [Key -> Artifact \cup {NoArtifact}]
      BY <1>1 DEF TypeOK
    <3>2. \/ snapshots' = [snapshots EXCEPT ![key] = NoArtifact]
          \/ snapshots' = [snapshots EXCEPT ![key] = proc[p].art]
      BY <2>1 DEF SaveSnapshot
    <3> HIDE DEF key
    <3> QED
      BY <1>2, <3>1, <3>2
  <2>2. CASE ~SaveSnapshot(p)
    <3>1. UNCHANGED snapshots
      BY <2>2 DEF Start, Step, Crash, Load, Scan, Lookup, Compute, SaveLatest,
                  Execute, LoadForRollback, Undo, store
    <3> QED
      BY <1>2, <3>1
  <2> QED
    BY <2>1, <2>2
<1>6. \A q \in Proc \ {p} : proc'[q].art \in S
  BY <1>1, <1>2, OnlyOwnRecord
<1>7. IF Compute(p) THEN proc'[p].art = createArtifact(p) ELSE proc'[p].art \in S
  <2>1. Begins(p) => proc'[p].art \in S
    BY <1>2 DEF Begins
  <2>2. CASE Compute(p)
    BY <1>1, <2>2, StepMoves DEF Moves
  <2>3. CASE ~Compute(p)
    BY <1>1, <1>2, <1>3, <2>1, <2>3, StepMoves, StartBegins, ScanBegins,
       ExitBegins DEF Step, Moves, Execute, Undo, Crash
  <2> QED
    BY <2>2, <2>3
<1>8. \A x \in Stored' : \/ x = latest'
                         \/ \E k \in Key : x = snapshots'[k]
                         \/ \E q \in Proc : x = proc'[q].art
  BY DEF Stored
<1>9. NoArtifact \notin Stored'
  BY DEF Stored
<1> QED
  BY <1>4, <1>5, <1>6, <1>7, <1>8, <1>9 DEF S

\* What generating, executing and undoing a plan do to the branches.
LEMMA StepBranches ==
  ASSUME IInv, NEW p \in Proc, Start(p) \/ Step(p) \/ Crash(p)
  PROVE  \/ branches' \subseteq branches
         \/ /\ branches' = branches \cup {proc[p].art.planId}
            /\ ~proc[p].art.blocked
            /\ proc[p].art \in Stored
            /\ ~Compute(p)
<1>1. CASE Execute(p)
  <2>1. proc[p].art # NoArtifact /\ proc[p].art \in Stored
    BY <1>1, StoredHas DEF IInv, HoldsOK, RecordOK, Execute, at
  <2>2. \/ branches' = branches
        \/ /\ mayExecute(proc[p].config, proc[p].art.blocked, proc[p].art.risk)
           /\ branches' = branches \cup {proc[p].art.planId}
    BY <1>1 DEF Execute
  <2>3. ~Compute(p)
    BY <1>1 DEF Execute, Compute, at
  <2> QED
    BY <2>1, <2>2, <2>3 DEF mayExecute
<1>2. CASE ~Execute(p)
  BY <1>2 DEF Start, Step, Crash, Load, Scan, Lookup, Compute, SaveLatest,
              SaveSnapshot, LoadForRollback, Undo
<1> QED
  BY <1>1, <1>2

LEMMA NewVerdict ==
  ASSUME TypeOK, NEW p \in Proc, nextPlan <= MaxPlans
  PROVE  LET x == createArtifact(p)
         IN  /\ x.planId = nextPlan
             /\ x.decided => x.blocked
             /\ x.config.phaseMode = "strict" => (x.blocked => x.decided)
<1> DEFINE world == [Facts[proc[p].seen] EXCEPT !.risk = Facts[tree].risk]
           c == proc[p].config
           shown == policiesBlock(reviewDecisions(c, world))
<1>1. /\ c \in ConfigType /\ Facts[proc[p].seen] \in WorldType
      /\ Facts[tree] \in WorldType
  BY ConstantsAssumption DEF TypeOK, ProcType
<1>2. world \in WorldType
  BY <1>1 DEF WorldType
<1>3. /\ createArtifact(p).planId = nextPlan
      /\ createArtifact(p).config = c
      /\ createArtifact(p).blocked = planBlocked(c, world)
      /\ createArtifact(p).decided = shown
  BY DEF createArtifact
<1> HIDE DEF world, c
<1>4. /\ shown => planBlocked(c, world)
      /\ c.phaseMode = "strict" => (planBlocked(c, world) => shown)
  BY <1>1, <1>2, ShownDecisions
<1> QED
  BY <1>3, <1>4

LEMMA CommandVerdicts ==
  ASSUME IInv, Verdicts, NEW p \in Proc, Start(p) \/ Step(p) \/ Crash(p)
  PROVE  Verdicts'
<1>1. TypeOK /\ nextPlan \in Int
  BY ConstantsAssumption DEF IInv, TypeOK
<1>2. CASE Compute(p)
  <2> DEFINE new == createArtifact(p)
  <2>1. nextPlan <= MaxPlans /\ nextPlan' = nextPlan + 1 /\ branches' = branches
    BY <1>2 DEF Compute
  <2>2. /\ new.planId = nextPlan
        /\ new.decided => new.blocked
        /\ new.config.phaseMode = "strict" => (new.blocked => new.decided)
    BY <1>1, <2>1, NewVerdict
  <2>3. Stored' \subseteq Stored \cup {new}
    BY <1>2, StepCopies
  <2> HIDE DEF new
  <2>4. \A x \in Stored : x.planId < nextPlan /\ x.planId < nextPlan + 1
    <3>1. Stored \subseteq Artifact
      BY <1>1, StoredHas DEF TypeOK, ProcType, Stored
    <3>2. \A x \in Stored : x.planId \in Int
      BY <3>1 DEF Artifact
    <3> QED
      BY <1>1, <3>2 DEF Verdicts, PlanIdsUnique
  <2>5. \A x \in Stored' : x.planId < nextPlan'
    BY <1>1, <2>1, <2>2, <2>3, <2>4
  <2>6. \A x, y \in Stored' : x.planId = y.planId => x = y
    BY <1>1, <2>2, <2>3, <2>4 DEF Verdicts, PlanIdsUnique
  <2>7. \A id \in branches' : id < nextPlan'
    <3>1. branches \subseteq Int
      BY ConstantsAssumption, <1>1 DEF TypeOK
    <3> QED
      BY <1>1, <2>1, <3>1 DEF Verdicts
  <2>8. ReviewMatchesPlan'
    BY <2>2, <2>3 DEF Verdicts, ReviewMatchesPlan
  <2>9. BlockedNeverApplied'
    <3>1. new.planId \notin branches
      BY <1>1, <2>2 DEF Verdicts
    <3> QED
      BY <2>1, <2>3, <3>1 DEF Verdicts, BlockedNeverApplied
  <2> QED
    BY <2>5, <2>6, <2>7, <2>8, <2>9 DEF Verdicts, PlanIdsUnique
<1>3. CASE ~Compute(p)
  <2>1. Stored' \subseteq Stored /\ nextPlan' = nextPlan
    <3>1. nextPlan' = nextPlan
      BY <1>3 DEF Start, Step, Crash, Load, Scan, Lookup, SaveLatest,
                  SaveSnapshot, Execute, LoadForRollback, Undo
    <3> QED
      BY <1>3, <3>1, StepCopies
  <2>2. PlanIdsUnique' /\ ReviewMatchesPlan'
    BY <2>1 DEF Verdicts, PlanIdsUnique, ReviewMatchesPlan
  <2>3. CASE branches' \subseteq branches
    BY <2>1, <2>2, <2>3 DEF Verdicts, BlockedNeverApplied
  <2>4. CASE /\ branches' = branches \cup {proc[p].art.planId}
             /\ ~proc[p].art.blocked
             /\ proc[p].art \in Stored
    <3> DEFINE done == proc[p].art
    <3>1. done.planId < nextPlan /\ ~done.decided
      BY <2>4 DEF Verdicts, PlanIdsUnique, ReviewMatchesPlan
    <3>2. \A id \in branches' : id < nextPlan'
      BY <2>1, <2>4, <3>1 DEF Verdicts
    <3>3. \A x \in Stored : x.planId = done.planId => x = done
      BY <2>4 DEF Verdicts, PlanIdsUnique
    <3>4. BlockedNeverApplied'
      BY <2>1, <2>4, <3>1, <3>3 DEF Verdicts, BlockedNeverApplied
    <3> QED
      BY <2>2, <3>2, <3>4 DEF Verdicts
  <2> QED
    BY <2>3, <2>4, StepBranches
<1> QED
  BY <1>2, <1>3

LEMMA VerdictsInit == Init => Verdicts
<1> SUFFICES ASSUME Init PROVE Verdicts
  OBVIOUS
<1>1. Stored = {}
  BY DEF Init, Stored, NoProcess
<1> QED
  BY <1>1 DEF Init, Verdicts, PlanIdsUnique, ReviewMatchesPlan,
              BlockedNeverApplied

LEMMA VerdictsNext == IInv /\ Verdicts /\ [Next]_vars => Verdicts'
<1> SUFFICES ASSUME IInv, Verdicts, [Next]_vars PROVE Verdicts'
  OBVIOUS
<1>1. CASE \E p \in Proc : Start(p) \/ Step(p) \/ Crash(p)
  BY <1>1, CommandVerdicts
<1>2. CASE Develop \/ UNCHANGED vars
  <2>1. UNCHANGED <<latest, snapshots, proc, branches, nextPlan>>
    BY <1>2 DEF Develop, vars, store
  <2>2. Stored' = Stored
    BY <2>1 DEF Stored
  <2> QED
    BY <2>1, <2>2 DEF Verdicts, PlanIdsUnique, ReviewMatchesPlan,
                      BlockedNeverApplied
<1> QED
  BY <1>1, <1>2 DEF Next

\* No plan that was blocked when it was generated, or whose artifact shows a
\* blocked policy decision, ever has branches, whatever commands interleave.
THEOREM BlockedCorrect == Spec => []BlockedNeverApplied
<1>1. IInv /\ Verdicts => BlockedNeverApplied
  BY DEF Verdicts
<1> QED
  BY <1>1, InvInit, InvNext, VerdictsInit, VerdictsNext, PTL DEF Spec

\* The decisions a review shows block only when the plan is blocked, and under
\* a strict configuration exactly then.
THEOREM ShownCorrect == Spec => []ReviewMatchesPlan
<1>1. IInv /\ Verdicts => ReviewMatchesPlan
  BY DEF Verdicts
<1> QED
  BY <1>1, InvInit, InvNext, VerdictsInit, VerdictsNext, PTL DEF Spec

\* A plan id names one plan.
THEOREM IdsCorrect == Spec => []PlanIdsUnique
<1>1. IInv /\ Verdicts => PlanIdsUnique
  BY DEF Verdicts
<1> QED
  BY <1>1, InvInit, InvNext, VerdictsInit, VerdictsNext, PTL DEF Spec

------------------------------------------------------------------------------
(* One command at a time. *)

\* Artifact x can be found under some key.
Kept(x) == \E k \in Key : snapshots[k] = x

\* The two writes of the latest artifact and its snapshot are under way.
Saving == \E p \in Proc : proc[p].pc \in SavePc

\* What a command knows of the store when no other command runs: nothing is
\* filed under its key while it computes and saves, what it saves is newest,
\* what it executes is filed, and what it undoes is newest.
CommandKnows(p) ==
  /\ proc[p].pc \in {"compute"} \cup SavePc =>
       snapshots[snapshotKey(p)] = NoArtifact
  /\ proc[p].pc \in SavePc => proc[p].art.planId = nextPlan - 1
  /\ proc[p].pc \in {"truncSnapshot", "writeSnapshot"} => latest = proc[p].art
  /\ proc[p].pc = "execute" => Kept(proc[p].art)
  /\ proc[p].pc = "undo" => proc[p].art.planId = nextPlan - 1

OneCommand == \A p, q \in Proc : ~Idle(p) /\ ~Idle(q) => p = q

Undisturbed ==
  /\ OneCommand
  /\ \A p \in Proc : CommandKnows(p)
  /\ ~Saving /\ latest # NoArtifact =>
       latest.planId = nextPlan - 1 /\ Kept(latest)
  /\ AppliedPlansAreKept

ServesOK == ~disturbed => Undisturbed

\* The other commands are idle, and stay so.
OthersIdle(p) == \A q \in Proc \ {p} : Idle(q) /\ Idle(q)'

LEMMA StepAlone ==
  ASSUME IInv, OneCommand, OneCommand', NEW p \in Proc, Start(p) \/ Step(p)
  PROVE  OthersIdle(p)
<1>1. \A q \in Proc \ {p} : proc'[q] = proc[q]
  BY OnlyOwnRecord DEF IInv
<1>2. CASE Start(p)
  <2>1. ~Idle(p)'
    BY <1>2 DEF Start, Idle, IInv, TypeOK
  <2> QED
    BY <1>1, <2>1 DEF OneCommand, OthersIdle, Idle
<1>3. CASE Step(p)
  <2>1. ~Idle(p)
    BY <1>3 DEF Step, Load, Scan, Lookup, Compute, SaveLatest, SaveSnapshot,
                Execute, LoadForRollback, Undo, at, Idle
  <2> QED
    BY <1>1, <2>1 DEF OneCommand, OthersIdle, Idle
<1> QED
  BY <1>2, <1>3

\* What is left to show of a step of p.
LEMMA OthersKnow ==
  ASSUME OneCommand', NEW p \in Proc, OthersIdle(p),
         CommandKnows(p)', AppliedPlansAreKept',
         proc'[p].pc \notin SavePc /\ latest' # NoArtifact =>
           latest'.planId = nextPlan' - 1 /\ Kept(latest)'
  PROVE  Undisturbed'
<1>1. \A q \in Proc \ {p} : CommandKnows(q)'
  BY DEF OthersIdle, Idle, CommandKnows, SavePc
<1>2. ~Saving' => proc'[p].pc \notin SavePc
  BY DEF Saving
<1> QED
  BY <1>1, <1>2 DEF Undisturbed

\* When the store does not change.
LEMMA SameStore ==
  ASSUME UNCHANGED snapshots
  PROVE  /\ \A x : Kept(x)' <=> Kept(x)
         /\ AppliedPlansAreKept /\ branches' \subseteq branches
              => AppliedPlansAreKept'
BY DEF Kept, AppliedPlansAreKept

\* Filing an artifact where there was none keeps all the others.
LEMMA FilesNew ==
  ASSUME TypeOK, NEW key \in Key, NEW x,
         snapshots[key] = NoArtifact \/ snapshots[key] = x,
         snapshots' = [snapshots EXCEPT ![key] = x]
  PROVE  /\ \E k \in Key : snapshots'[k] = x
         /\ AppliedPlansAreKept /\ branches' = branches => AppliedPlansAreKept'
<1>1. snapshots'[key] = x
  BY DEF TypeOK
<1>2. \A k \in Key : snapshots[k] # NoArtifact => snapshots'[k] = snapshots[k]
  BY <1>1 DEF TypeOK
<1>3. AppliedPlansAreKept /\ branches' = branches => AppliedPlansAreKept'
  BY <1>2 DEF AppliedPlansAreKept
<1> QED
  BY <1>1, <1>3

LEMMA AloneStep ==
  ASSUME IInv, Undisturbed, OneCommand', NEW p \in Proc, Start(p) \/ Step(p)
  PROVE  Undisturbed'
<1>1. TypeOK /\ RecordOK(proc[p]) /\ OthersIdle(p) /\ CommandKnows(p)
  BY StepAlone DEF IInv, HoldsOK, Undisturbed
<1>2. /\ latest # NoArtifact /\ proc[p].pc \notin SavePc =>
           latest.planId = nextPlan - 1 /\ Kept(latest)
      /\ AppliedPlansAreKept
  BY <1>1 DEF Undisturbed, Saving, OthersIdle, Idle, SavePc
<1>3. SUFFICES /\ CommandKnows(p)' /\ AppliedPlansAreKept'
               /\ proc'[p].pc \notin SavePc /\ latest' # NoArtifact =>
                    latest'.planId = nextPlan' - 1 /\ Kept(latest)'
  BY <1>1, OthersKnow
\* A step that neither plans nor saves, and ends where nothing is asked of it.
<1>4. ASSUME UNCHANGED <<store, nextPlan>>, branches' \subseteq branches,
             proc[p].pc \notin SavePc,
             proc'[p].pc \in {"idle", "scan", "lookup", "load", "loadForRollback"}
      PROVE  /\ CommandKnows(p)' /\ AppliedPlansAreKept'
             /\ latest' # NoArtifact =>
                  latest'.planId = nextPlan' - 1 /\ Kept(latest)'
  BY <1>2, <1>4, SameStore DEF CommandKnows, SavePc, store
<1>5. Begins(p) => proc'[p].pc \in {"idle", "scan", "lookup", "load",
                                    "loadForRollback"}
  BY DEF Begins
<1>6. CASE Start(p) \/ Scan(p)
  BY <1>1, <1>4, <1>5, <1>6, StartBegins, ScanBegins
     DEF Start, Scan, at, Idle, SavePc
<1>7. CASE Load(p)
  <2>1. UNCHANGED <<store, nextPlan, branches>> /\ proc[p].pc = "load"
    BY <1>7 DEF Load, at
  <2>2. CASE Moves(p, "scan", proc[p].art)
    BY <1>4, <2>1, <2>2 DEF Moves, SavePc
  <2>3. CASE Moves(p, "execute", latest) /\ latest # NoArtifact
    BY <1>2, <2>1, <2>3, SameStore DEF Moves, CommandKnows, SavePc, store
  <2> QED
    BY <1>1, <1>7, <2>2, <2>3, StepMoves
<1>8. CASE Lookup(p)
  <2>1. UNCHANGED <<store, nextPlan, branches>> /\ proc[p].pc = "lookup"
    BY <1>8 DEF Lookup, at
  <2>2. CASE snapshots[snapshotKey(p)] # NoArtifact
    <3>1. \/ Begins(p)
          \/ Moves(p, "execute", snapshots[snapshotKey(p)])
      <4>1. afterReview(p, snapshots[snapshotKey(p)])
        BY <1>8, <2>2 DEF Lookup
      <4> QED
        BY <1>1, <4>1, KeyType, AfterReviewMoves DEF TypeOK
    <3>2. CASE Begins(p)
      BY <1>4, <1>5, <2>1, <3>2 DEF SavePc
    <3>3. CASE Moves(p, "execute", snapshots[snapshotKey(p)])
      <4>1. Kept(snapshots[snapshotKey(p)])
        BY <1>1, KeyType DEF Kept
      <4> QED
        BY <1>2, <2>1, <3>3, <4>1, SameStore
           DEF Moves, CommandKnows, SavePc, store
    <3> QED
      BY <3>1, <3>2, <3>3
  <2>3. CASE snapshots[snapshotKey(p)] = NoArtifact
    <3>1. Moves(p, "compute", proc[p].art)
      BY <1>1, <1>8, <2>3, GotoMoves DEF Lookup, Pc
    <3>2. snapshotKey(p)' = snapshotKey(p)
      BY <3>1 DEF Moves, snapshotKey
    <3> QED
      BY <1>2, <2>1, <2>3, <3>1, <3>2, SameStore
         DEF Moves, CommandKnows, SavePc, store
  <2> QED
    BY <2>2, <2>3
<1>9. CASE Compute(p)
  <2>1. /\ UNCHANGED <<store, branches>> /\ proc[p].pc = "compute"
        /\ nextPlan' = nextPlan + 1 /\ nextPlan \in Int
    BY <1>1, <1>9, ConstantsAssumption DEF Compute, at, TypeOK
  <2>2. Moves(p, "truncLatest", createArtifact(p))
    BY <1>1, <1>9, StepMoves
  <2>3. snapshotKey(p)' = snapshotKey(p)
    BY <2>2 DEF Moves, snapshotKey
  <2>4. createArtifact(p).planId = nextPlan' - 1
    BY <2>1 DEF createArtifact
  <2> QED
    BY <1>1, <1>2, <2>1, <2>2, <2>3, <2>4, SameStore
       DEF Moves, CommandKnows, SavePc, store
<1>10. CASE SaveLatest(p)
  <2>1. UNCHANGED <<snapshots, branches, nextPlan>> /\ proc[p].pc \in SavePc
    BY <1>10 DEF SaveLatest, at, SavePc
  <2>2. \/ Moves(p, "writeLatest", proc[p].art)
        \/ Moves(p, "truncSnapshot", proc[p].art) /\ latest' = proc[p].art
    BY <1>1, <1>10, GotoMoves DEF SaveLatest, Pc
  <2>3. snapshotKey(p)' = snapshotKey(p)
    BY <2>2 DEF Moves, snapshotKey
  <2> QED
    BY <1>1, <1>2, <2>1, <2>2, <2>3, SameStore DEF Moves, CommandKnows, SavePc
<1>11. CASE SaveSnapshot(p)
  <2> DEFINE key == snapshotKey(p)
             art == proc[p].art
  <2>1. /\ UNCHANGED <<latest, branches, nextPlan>>
        /\ proc[p].pc \in {"truncSnapshot", "writeSnapshot"}
        /\ key \in Key
    BY <1>1, <1>11, KeyType DEF SaveSnapshot, at
  <2>2. /\ snapshots[key] = NoArtifact /\ art.planId = nextPlan - 1
        /\ latest = art /\ art # NoArtifact
    BY <1>1, <2>1 DEF CommandKnows, RecordOK, SavePc
  <2>3. CASE /\ snapshots' = [snapshots EXCEPT ![key] = NoArtifact]
             /\ goto(p, "writeSnapshot")
    <3>1. Moves(p, "writeSnapshot", art)
      BY <1>1, <2>3, GotoMoves DEF Pc
    <3>2. snapshotKey(p)' = key
      BY <3>1 DEF Moves, snapshotKey
    <3>3. snapshots'[key] = NoArtifact
      BY <1>1, <2>1, <2>3 DEF TypeOK
    <3>4. AppliedPlansAreKept'
      BY <1>1, <1>2, <2>1, <2>2, <2>3, FilesNew
    <3>5. CommandKnows(p)'
      BY <2>1, <2>2, <3>1, <3>2, <3>3 DEF Moves, CommandKnows, SavePc
    <3> QED
      BY <3>1, <3>4, <3>5 DEF Moves, SavePc
  <2>4. CASE /\ snapshots' = [snapshots EXCEPT ![key] = art]
             /\ afterReview(p, art)
    <3>1. Begins(p) \/ Moves(p, "execute", art)
      BY <1>1, <2>4, AfterReviewMoves DEF TypeOK, ProcType
    <3>2. (\E k \in Key : snapshots'[k] = art) /\ AppliedPlansAreKept'
      BY <1>1, <1>2, <2>1, <2>2, <2>4, FilesNew
    <3>3. CommandKnows(p)'
      BY <1>5, <3>1, <3>2 DEF Moves, CommandKnows, SavePc, Kept
    <3>4. latest'.planId = nextPlan' - 1 /\ Kept(latest)'
      BY <2>1, <2>2, <3>2 DEF Kept
    <3> QED
      BY <3>2, <3>3, <3>4
  <2> QED
    BY <1>11, <2>3, <2>4 DEF SaveSnapshot
<1>12. CASE Execute(p)
  <2>1. /\ UNCHANGED <<store, nextPlan>> /\ proc[p].pc = "execute"
        /\ branches' \subseteq branches \cup {proc[p].art.planId}
        /\ Begins(p)
    BY <1>1, <1>12, ExitBegins DEF Execute, at
  <2>2. \E k \in Key : snapshots[k] # NoArtifact
                        /\ snapshots[k].planId = proc[p].art.planId
    BY <1>1, <2>1 DEF CommandKnows, Kept, RecordOK
  <2>3. AppliedPlansAreKept'
    BY <1>2, <2>1, <2>2 DEF AppliedPlansAreKept, store
  <2> QED
    BY <1>2, <1>5, <2>1, <2>3, SameStore DEF CommandKnows, SavePc, store
<1>13. CASE LoadForRollback(p)
  <2>1. UNCHANGED <<store, nextPlan, branches>> /\ proc[p].pc = "loadForRollback"
    BY <1>13 DEF LoadForRollback, at
  <2>2. CASE Begins(p)
    BY <1>4, <1>5, <2>1, <2>2 DEF SavePc
  <2>3. CASE Moves(p, "undo", latest) /\ latest # NoArtifact
    BY <1>2, <2>1, <2>3, SameStore DEF Moves, CommandKnows, SavePc, store
  <2> QED
    BY <1>1, <1>13, <2>2, <2>3, StepMoves
<1>14. CASE Undo(p)
  BY <1>1, <1>4, <1>5, <1>14, ExitBegins DEF Undo, at, SavePc
<1> QED
  BY <1>6, <1>7, <1>8, <1>9, <1>10, <1>11, <1>12, <1>13, <1>14 DEF Step

LEMMA ServesInit == Init => ServesOK
BY DEF Init, ServesOK, Undisturbed, OneCommand, CommandKnows, Idle, SavePc,
       NoProcess, AppliedPlansAreKept

LEMMA ServesNext == IInv /\ ServesOK /\ [Next]_vars => ServesOK'
<1> SUFFICES ASSUME IInv, ServesOK, [Next]_vars, ~disturbed'
             PROVE  Undisturbed'
  BY DEF ServesOK
<1>1. Undisturbed
  BY DEF ServesOK, Next, Record, vars
<1>2. CASE Next /\ \E p \in Proc : Start(p) \/ Step(p) \/ Crash(p)
  <2>1. OneCommand' /\ ~(\E p \in Proc : Crash(p))
    BY <1>2 DEF Next, Record, OneCommand
  <2> QED
    BY <1>1, <1>2, <2>1, AloneStep
<1>3. CASE Develop \/ UNCHANGED vars
  <2>1. UNCHANGED <<latest, snapshots, proc, branches, nextPlan>>
    BY <1>3 DEF Develop, vars, store
  <2> QED
    BY <1>1, <2>1 DEF Undisturbed, OneCommand, CommandKnows, Idle, Saving, Kept,
                      AppliedPlansAreKept, snapshotKey
<1> QED
  BY <1>2, <1>3 DEF Next

\* As long as commands run one at a time and none is killed, every applied plan
\* is in the store and rollback acts on the plan that was generated last,
\* whatever the developer changes in between and whichever snapshots hit.
THEOREM ServesCorrect == Spec => []StoreServesRollback
<1>1. ServesOK => StoreServesRollback
  BY DEF ServesOK, Undisturbed, StoreServesRollback, CommandKnows,
         RollsBackLastGenerated, at
<1> QED
  BY <1>1, InvInit, InvNext, ServesInit, ServesNext, PTL DEF Spec

------------------------------------------------------------------------------
(* Configuration. *)


(* Laying one section over another. *)

LEMMA FirstAgain ==
  ASSUME NEW a, NEW b, NEW d
  PROVE  /\ first(first(a, b), b) = first(a, b)
         /\ first(first(first(first(a, b), d), b), d) = first(first(a, b), d)
  BY DEF first

\* What is laid over the same default twice is as laid over it once, and so is what
\* is laid over two defaults.
LEMMA OverlaidAgain ==
  ASSUME NEW x, NEW p, NEW d
  PROVE  /\ overlaid(overlaid(x, d), d) = overlaid(x, d)
         /\ overlaid(overlaid(overlaid(overlaid(x, p), d), p), d) = overlaid(overlaid(x, p), d)
<1>1. \A y, z : overlaid(y, z).enabled = first(y.enabled, z.enabled)
             /\ overlaid(y, z).detail = first(y.detail, z.detail)
  BY DEF overlaid
<1>2. overlaid(overlaid(x, d), d).enabled = overlaid(x, d).enabled
   /\ overlaid(overlaid(x, d), d).detail = overlaid(x, d).detail
  BY <1>1, FirstAgain
<1>3. overlaid(overlaid(overlaid(overlaid(x, p), d), p), d).enabled = overlaid(overlaid(x, p), d).enabled
   /\ overlaid(overlaid(overlaid(overlaid(x, p), d), p), d).detail = overlaid(overlaid(x, p), d).detail
  BY <1>1, FirstAgain
<1>4. \A y, z, v, w : overlaid(y, z).enabled = overlaid(v, w).enabled
                   /\ overlaid(y, z).detail = overlaid(v, w).detail
                   => overlaid(y, z) = overlaid(v, w)
  BY <1>1 DEF overlaid
<1> QED
  BY <1>2, <1>3, <1>4

------------------------------------------------------------------------------
(* The fields of a configuration as the profile and the schema leave them. *)

Configuration ==
  [sections : [ConfigSection -> SectionText], profile : BOOLEAN,
   simulateOnly : BOOLEAN \cup {Unset}, prioritize : ConfigText, focus : ConfigText \cup {Unset},
   categories : SUBSET ConfigText, checks : SUBSET ConfigText, repos : Seq(Repository),
   rules : Seq(ConfigText)]

\* Configurations that agree on every field are one.
LEMMA SameFields ==
  ASSUME NEW c \in Configuration, NEW e \in Configuration,
         c.sections = e.sections, c.profile = e.profile, c.simulateOnly = e.simulateOnly,
         c.prioritize = e.prioritize, c.focus = e.focus, c.categories = e.categories,
         c.checks = e.checks, c.repos = e.repos, c.rules = e.rules
  PROVE  c = e
  BY DEF Configuration

\* What the profile makes of what comes first in a context.
raised(prioritize) == IF prioritize = "changed-files-first" THEN "api-surface-first" ELSE prioritize

\* The profile changes every field but the categories.
LEMMA AppliedFields ==
  ASSUME NEW c \in Configuration, c.profile = TRUE
  PROVE  LET a == applyHustleXpWorkflowProfile(c)
         IN /\ a.sections = [s \in ConfigSection |-> applySection(s, c)]
            /\ a.profile = c.profile
            /\ a.simulateOnly = first(c.simulateOnly, TRUE)
            /\ a.prioritize = raised(c.prioritize)
            /\ a.focus = first(c.focus, "mismatches")
            /\ a.categories = c.categories
            /\ a.checks = c.checks \cup HUSTLEXP_REQUIRED_CHECKS
            /\ a.repos = [i \in DOMAIN c.repos |-> mergeRepoExcludes(c.repos[i])]
            /\ a.rules = c.rules \o HUSTLEXP_OWNERSHIP_RULES
<1> DEFINE sections == [s \in ConfigSection |-> applySection(s, c)]
           checks == c.checks \cup HUSTLEXP_REQUIRED_CHECKS
           repos == [i \in DOMAIN c.repos |-> mergeRepoExcludes(c.repos[i])]
           simulateOnly == first(c.simulateOnly, TRUE)
           focus == first(c.focus, "mismatches")
           prioritize == raised(c.prioritize)
           rules == c.rules \o HUSTLEXP_OWNERSHIP_RULES
           a == [c EXCEPT !.sections = sections, !.prioritize = prioritize,
                          !.focus = focus, !.simulateOnly = simulateOnly,
                          !.checks = checks, !.repos = repos, !.rules = rules]
<1>1. applyHustleXpWorkflowProfile(c) = a
  BY DEF applyHustleXpWorkflowProfile, uniqueRules, raised
<1> HIDE DEF sections, checks, repos, simulateOnly, focus, prioritize, rules
<1>2. /\ a.sections = sections /\ a.profile = c.profile /\ a.simulateOnly = simulateOnly
      /\ a.prioritize = prioritize /\ a.focus = focus /\ a.categories = c.categories
      /\ a.checks = checks /\ a.repos = repos /\ a.rules = rules
  BY DEF Configuration
<1> HIDE DEF a
<1> QED
  BY <1>1, <1>2 DEF sections, checks, repos, simulateOnly, focus, prioritize, rules

\* The schema changes the sections and the categories.
LEMMA CompletedFields ==
  ASSUME NEW c \in Configuration
  PROVE  LET l == omniLinkConfigSchema(c)
         IN /\ l.sections = [s \in ConfigSection |-> completed(s, c.sections[s])]
            /\ l.profile = c.profile
            /\ l.simulateOnly = c.simulateOnly
            /\ l.prioritize = c.prioritize
            /\ l.focus = c.focus
            /\ l.categories = {normalizeCategory(k) : k \in c.categories}
            /\ l.checks = c.checks
            /\ l.repos = c.repos
            /\ l.rules = c.rules
<1> DEFINE sections == [s \in ConfigSection |-> completed(s, c.sections[s])]
           categories == {normalizeCategory(k) : k \in c.categories}
           l == [c EXCEPT !.categories = categories, !.sections = sections]
<1>1. omniLinkConfigSchema(c) = l
  BY DEF omniLinkConfigSchema
<1> HIDE DEF sections, categories
<1>2. /\ l.sections = sections /\ l.profile = c.profile /\ l.simulateOnly = c.simulateOnly
      /\ l.prioritize = c.prioritize /\ l.focus = c.focus /\ l.categories = categories
      /\ l.checks = c.checks /\ l.repos = c.repos /\ l.rules = c.rules
  BY DEF Configuration
<1> HIDE DEF l
<1> QED
  BY <1>1, <1>2 DEF sections, categories

------------------------------------------------------------------------------
(* They make a configuration of a configuration. *)

LEMMA WrittenText ==
  /\ \A t \in Written : t \in ConfigText /\ t # Unset
  /\ TRUE # Unset /\ FALSE # Unset
  BY ConfigAssumption

\* An inferred path is that of a repository.
LEMMA InferPath ==
  ASSUME NEW repos \in Seq(Repository), NEW role, NEW name
  PROVE  infer(repos, role, name) \in (ConfigText \ {"bad"}) \cup {Unset}
<1> DEFINE like == {i \in DOMAIN repos : repos[i].role = role \/ name \in repos[i].nameHas}
<1>1. CASE like = {}
  BY <1>1 DEF infer
<1>2. CASE like # {}
  <2>1. like \in SUBSET Nat
    OBVIOUS
  <2>2. \E i \in like : \A j \in like : i <= j
    BY <1>2, <2>1, LeastElement
  <2> DEFINE least == CHOOSE i \in like : \A j \in like : i <= j
  <2>3. least \in like
    BY <2>2
  <2>4. infer(repos, role, name) = repos[least].path
    BY <1>2 DEF infer
  <2> HIDE DEF least
  <2>5. repos[least] \in Repository
    BY <2>3
  <2> QED
    BY <2>4, <2>5 DEF Repository
<1> QED
  BY <1>1, <1>2

LEMMA OverlaidType ==
  ASSUME NEW x \in SectionText, NEW y \in SectionText
  PROVE  overlaid(x, y) \in SectionText
  BY DEF SectionText, overlaid, first

LEMMA ProfileType ==
  ASSUME NEW s \in ConfigSection \ {"gitlab", "ownership", "maxTier"}, NEW repos \in Seq(Repository)
  PROVE  /\ profileOf(s, repos) \in SectionText
         /\ profileOf(s, repos).detail # "bad"
         /\ profileOf(s, repos).enabled = (s # "runtime")
<1>1. infer(repos, "docs", "docs") \in (ConfigText \ {"bad"}) \cup {Unset}
   /\ infer(repos, "backend", "backend") \in (ConfigText \ {"bad"}) \cup {Unset}
  BY InferPath
<1>2. CASE s \in {"daemon", "policies"}
  BY <1>2, WrittenText DEF profileOf, SectionText, Written
<1>3. CASE s = "authority"
  BY <1>1, <1>3, WrittenText DEF profileOf, SectionText, Written
<1>4. CASE s = "bridges"
  BY <1>1, <1>4, WrittenText DEF profileOf, SectionText, Written
<1>5. CASE s = "runtime"
  BY <1>5, WrittenText DEF profileOf, SectionText, Written
<1>6. CASE s \in {"github", "automation"}
  BY <1>6, WrittenText DEF profileOf, SectionText, Written
<1> QED
  BY <1>2, <1>3, <1>4, <1>5, <1>6 DEF ConfigSection

LEMMA SectionType ==
  ASSUME NEW s \in ConfigSection, NEW c \in Configuration
  PROVE  applySection(s, c) \in SectionText
<1>1. c.sections[s] \in SectionText /\ c.repos \in Seq(Repository)
  BY DEF Configuration
<1>2. CASE s = "gitlab"
  BY <1>1, <1>2 DEF applySection
<1>3. CASE s = "ownership"
  BY <1>3, WrittenText DEF applySection, SectionText, Written
<1>4. CASE s = "maxTier"
  BY <1>1, <1>4, WrittenText DEF applySection, SectionText, first, Written
<1>5. CASE s \notin {"gitlab", "ownership", "maxTier"}
  BY <1>1, <1>5, ProfileType, OverlaidType DEF applySection
<1> QED
  BY <1>2, <1>3, <1>4, <1>5

LEMMA RepositoryType ==
  ASSUME NEW r \in Repository
  PROVE  /\ mergeRepoExcludes(r) \in Repository
         /\ mergeRepoExcludes(r).role = r.role /\ mergeRepoExcludes(r).path = r.path
         /\ mergeRepoExcludes(r).nameHas = r.nameHas
         /\ r.exclude \subseteq mergeRepoExcludes(r).exclude
         /\ mergeRepoExcludes(mergeRepoExcludes(r)) = mergeRepoExcludes(r)
<1> DEFINE m == mergeRepoExcludes(r)
<1>1. DEFAULT_EXCLUDES(r.role) \in SUBSET ConfigText
  BY WrittenText DEF DEFAULT_EXCLUDES, Written
<1>2. /\ m \in Repository
      /\ m.role = r.role /\ m.path = r.path /\ m.nameHas = r.nameHas
      /\ m.exclude = r.exclude \cup DEFAULT_EXCLUDES(r.role)
  BY <1>1 DEF Repository, mergeRepoExcludes
<1> HIDE DEF m
<1>3. m.exclude \cup DEFAULT_EXCLUDES(m.role) = m.exclude
  BY <1>2
<1>4. mergeRepoExcludes(m) = m
  BY <1>2, <1>3 DEF Repository, mergeRepoExcludes
<1> QED
  BY <1>2, <1>4 DEF m

LEMMA ReposType ==
  ASSUME NEW repos \in Seq(Repository)
  PROVE  LET merge == [i \in DOMAIN repos |-> mergeRepoExcludes(repos[i])]
         IN merge \in Seq(Repository) /\ Len(merge) = Len(repos)
<1>1. \A i \in 1 .. Len(repos) : mergeRepoExcludes(repos[i]) \in Repository
  BY RepositoryType
<1> QED
  BY <1>1

\* The profile's rules come after those that are there.
LEMMA RulesType ==
  ASSUME NEW rules \in Seq(ConfigText)
  PROVE  LET more == rules \o HUSTLEXP_OWNERSHIP_RULES
         IN /\ more \in Seq(ConfigText) /\ Len(rules) <= Len(more)
            /\ \A i \in DOMAIN rules : more[i] = rules[i]
            /\ \A i \in DOMAIN more : more[i] = "bad" => i \in DOMAIN rules
<1>1. "profile" \in ConfigText /\ "profile" # "bad"
  BY WrittenText DEF Written
<1>2. HUSTLEXP_OWNERSHIP_RULES \in Seq(ConfigText) /\ Len(HUSTLEXP_OWNERSHIP_RULES) = 1
   /\ HUSTLEXP_OWNERSHIP_RULES[1] = "profile"
  BY <1>1 DEF HUSTLEXP_OWNERSHIP_RULES
<1> QED
  BY <1>1, <1>2

LEMMA AppliedType ==
  ASSUME NEW c \in Configuration, c.profile = TRUE
  PROVE  applyHustleXpWorkflowProfile(c) \in Configuration
<1> DEFINE sections == [s \in ConfigSection |-> applySection(s, c)]
           checks == c.checks \cup HUSTLEXP_REQUIRED_CHECKS
           repos == [i \in DOMAIN c.repos |-> mergeRepoExcludes(c.repos[i])]
           simulateOnly == first(c.simulateOnly, TRUE)
           focus == first(c.focus, "mismatches")
           prioritize == raised(c.prioritize)
           rules == c.rules \o HUSTLEXP_OWNERSHIP_RULES
           a == [c EXCEPT !.sections = sections, !.prioritize = prioritize,
                          !.focus = focus, !.simulateOnly = simulateOnly,
                          !.checks = checks, !.repos = repos, !.rules = rules]
<1>1. applyHustleXpWorkflowProfile(c) = a
  BY DEF applyHustleXpWorkflowProfile, uniqueRules, raised
<1>2. sections \in [ConfigSection -> SectionText]
  BY SectionType
<1>3. checks \in SUBSET ConfigText
  BY WrittenText DEF Configuration, HUSTLEXP_REQUIRED_CHECKS, Written
<1>4. repos \in Seq(Repository)
  BY ReposType DEF Configuration
<1>5. /\ simulateOnly \in BOOLEAN \cup {Unset} /\ focus \in ConfigText \cup {Unset}
      /\ prioritize \in ConfigText
  BY WrittenText DEF Configuration, first, Written, raised
<1>6. rules \in Seq(ConfigText)
  BY RulesType DEF Configuration
<1> HIDE DEF sections, checks, repos, simulateOnly, focus, prioritize, rules
<1>7. a \in Configuration
  BY <1>2, <1>3, <1>4, <1>5, <1>6 DEF Configuration
<1> QED
  BY <1>1, <1>7

LEMMA CompletedType ==
  ASSUME NEW c \in Configuration
  PROVE  omniLinkConfigSchema(c) \in Configuration
<1> DEFINE sections == [s \in ConfigSection |-> completed(s, c.sections[s])]
           categories == {normalizeCategory(k) : k \in c.categories}
           l == [c EXCEPT !.categories = categories, !.sections = sections]
<1>1. omniLinkConfigSchema(c) = l
  BY DEF omniLinkConfigSchema
<1>2. \A s \in ConfigSection : schemaDefault(s) \in SectionText
  BY WrittenText DEF schemaDefault, SectionText, Written
<1>3. Absent \in SectionText
  BY DEF Absent, SectionText
<1>4. sections \in [ConfigSection -> SectionText]
  BY <1>2, <1>3, OverlaidType DEF completed, Configuration
<1>5. \A k \in ConfigText : normalizeCategory(k) \in ConfigText
  BY WrittenText DEF normalizeCategory, Written
<1>6. c.categories \in SUBSET ConfigText
  BY DEF Configuration
<1>7. categories \in SUBSET ConfigText
  BY <1>5, <1>6
<1> HIDE DEF sections, categories
<1>8. l \in Configuration
  BY <1>4, <1>7 DEF Configuration
<1> QED
  BY <1>1, <1>8
------------------------------------------------------------------------------
(* What a file holds is a configuration once it is laid over the defaults. *)

LEMMA DefaultType ==
  ASSUME NEW s \in ConfigSection
  PROVE  /\ DEFAULT_CONFIG(s) \in SectionText /\ DEFAULT_CONFIG(s).enabled = FALSE
         /\ DEFAULT_CONFIG(s).detail # "bad"
         /\ schemaDefault(s) \in SectionText /\ schemaDefault(s).enabled = FALSE
         /\ schemaDefault(s).detail # "bad"
  BY WrittenText DEF DEFAULT_CONFIG, schemaDefault, SectionText, Written

LEMMA MergedType ==
  ASSUME NEW raw, isConfigFile(raw)
  PROVE  merged(raw) \in [ConfigSection -> SectionText]
<1>1. Absent \in SectionText
  BY DEF Absent, SectionText
<1>2. \A s \in raw.named : raw.sections[s] \in SectionText
  BY DEF isConfigFile
<1>3. \A s \in ConfigSection : DEFAULT_CONFIG(s) \in SectionText
  BY DefaultType
<1> QED
  BY <1>1, <1>2, <1>3, OverlaidType DEF merged

LEMMA LoadedFields ==
  ASSUME NEW raw, isConfigFile(raw)
  PROVE  LET c == asLoaded(raw)
         IN /\ c \in Configuration
            /\ c.sections = merged(raw)
            /\ c.profile = raw.profile
            /\ c.simulateOnly = raw.simulateOnly
            /\ c.categories \subseteq {"features", "feature", "scale", "bad"}
            /\ "bad" \in c.categories => "bad" \in first(raw.categories, {})
            /\ first(raw.checks, {}) \subseteq c.checks
            /\ c.repos = raw.repos /\ c.rules = raw.rules /\ c.focus = raw.focus
            /\ c.prioritize = first(raw.prioritize, "changed-files-first")
<1> DEFINE c == asLoaded(raw)
           sections == merged(raw)
           prioritize == first(raw.prioritize, "changed-files-first")
           categories == first(raw.categories, {"feature", "scale"})
           checks == first(raw.checks, IF "policies" \in raw.named THEN {"lint"} ELSE {})
<1>1. sections \in [ConfigSection -> SectionText]
  BY MergedType
<1>2. prioritize \in ConfigText /\ raw.focus \in ConfigText \cup {Unset}
  BY WrittenText DEF isConfigFile, first, Written, Priority, Focus
<1>3. /\ categories \subseteq {"features", "feature", "scale", "bad"}
      /\ "bad" \in categories => "bad" \in first(raw.categories, {})
  BY DEF isConfigFile, first
<1>4. checks \in SUBSET ConfigText /\ first(raw.checks, {}) \subseteq checks
  BY WrittenText DEF isConfigFile, first, Written
<1>5. categories \in SUBSET ConfigText
  BY <1>3, WrittenText DEF Written
<1>6. c = [sections |-> sections, profile |-> raw.profile, simulateOnly |-> raw.simulateOnly,
           prioritize |-> prioritize, focus |-> raw.focus, categories |-> categories,
           checks |-> checks, repos |-> raw.repos, rules |-> raw.rules]
  BY DEF asLoaded
<1> HIDE DEF sections, prioritize, categories, checks, c
<1>7. c \in Configuration
  BY <1>1, <1>2, <1>4, <1>5, <1>6 DEF Configuration, isConfigFile
<1>8. /\ c.sections = sections /\ c.profile = raw.profile /\ c.simulateOnly = raw.simulateOnly
      /\ c.categories = categories /\ c.checks = checks /\ c.repos = raw.repos
      /\ c.rules = raw.rules /\ c.focus = raw.focus /\ c.prioritize = prioritize
  BY <1>6
<1> QED
  BY <1>3, <1>4, <1>7, <1>8 DEF c, sections, prioritize

------------------------------------------------------------------------------
(* A section of the result. *)

\* What a file says of a section.
own(raw, s) == IF s \in raw.named THEN raw.sections[s] ELSE Absent

\* The section with the profile, if the file asks for it, and then with the schema.
profiled(raw, s) ==
  IF raw.profile THEN applySection(s, asLoaded(raw)) ELSE merged(raw)[s]

\* A section that the file names has a switch, the file's or the default.
LEMMA NamedSection ==
  ASSUME NEW raw, isConfigFile(raw), NEW s \in raw.named
  PROVE  /\ merged(raw)[s].enabled = first(own(raw, s).enabled, FALSE)
         /\ merged(raw)[s].detail = first(own(raw, s).detail, DEFAULT_CONFIG(s).detail)
         /\ merged(raw)[s].enabled # Unset
<1>1. s \in ConfigSection
  BY DEF isConfigFile
<1>2. merged(raw)[s] = overlaid(own(raw, s), DEFAULT_CONFIG(s))
  BY <1>1 DEF merged, own
<1>3. DEFAULT_CONFIG(s).enabled = FALSE
  BY <1>1, DefaultType
<1>4. /\ merged(raw)[s].enabled = first(own(raw, s).enabled, DEFAULT_CONFIG(s).enabled)
      /\ merged(raw)[s].detail = first(own(raw, s).detail, DEFAULT_CONFIG(s).detail)
  BY <1>2 DEF overlaid
<1>5. first(own(raw, s).enabled, FALSE) # Unset
  BY WrittenText, Zenon DEF first
<1> QED
  BY <1>3, <1>4, <1>5, Zenon

\* The profile leaves what a section has, but for those it forces.
LEMMA NamedStays ==
  ASSUME NEW raw, isConfigFile(raw), NEW s \in raw.named, ~forced(raw, s)
  PROVE  /\ profiled(raw, s).enabled = merged(raw)[s].enabled
         /\ merged(raw)[s].detail # Unset => profiled(raw, s).detail = merged(raw)[s].detail
<1>1. merged(raw)[s].enabled # Unset
  BY NamedSection
<1>2. asLoaded(raw).sections = merged(raw)
  BY LoadedFields
<1>3. CASE ~raw.profile \/ s = "gitlab"
  BY <1>2, <1>3 DEF profiled, applySection
<1>4. CASE raw.profile /\ s # "gitlab"
  <2>1. s \notin {"gitlab", "ownership", "maxTier"}
    BY <1>4 DEF forced
  <2>2. profiled(raw, s) = overlaid(merged(raw)[s], profileOf(s, asLoaded(raw).repos))
    BY <1>2, <1>4, <2>1 DEF profiled, applySection
  <2> QED
    BY <1>1, <2>2 DEF overlaid, first
<1> QED
  BY <1>3, <1>4

\* The profile switches on a section the file is silent about, but for runtime.
LEMMA SilentSection ==
  ASSUME NEW raw, isConfigFile(raw), NEW s \in ConfigSection, s \notin raw.named
  PROVE  IF ~raw.profile \/ s = "gitlab" THEN profiled(raw, s) = Absent
         ELSE profiled(raw, s).enabled = (s # "runtime")
<1>1. asLoaded(raw).sections = merged(raw) /\ asLoaded(raw).repos \in Seq(Repository)
  BY LoadedFields DEF isConfigFile
<1>2. merged(raw)[s] = Absent
  BY DEF merged
<1>3. CASE ~raw.profile \/ s = "gitlab"
  BY <1>1, <1>2, <1>3 DEF profiled, applySection
<1>4. CASE raw.profile /\ s \in {"ownership", "maxTier"}
  BY <1>4 DEF profiled, applySection
<1>5. CASE raw.profile /\ s \notin {"gitlab", "ownership", "maxTier"}
  <2>1. profiled(raw, s) = overlaid(Absent, profileOf(s, asLoaded(raw).repos))
    BY <1>1, <1>2, <1>5 DEF profiled, applySection
  <2>2. profileOf(s, asLoaded(raw).repos).enabled = (s # "runtime")
    BY <1>1, <1>5, ProfileType
  <2>3. overlaid(Absent, profileOf(s, asLoaded(raw).repos)).enabled
          = profileOf(s, asLoaded(raw).repos).enabled
    BY DEF overlaid, first, Absent
  <2> QED
    BY <1>5, <2>1, <2>2, <2>3
<1> QED
  BY <1>3, <1>4, <1>5

\* What the profile forces.
LEMMA ForcedSection ==
  ASSUME NEW raw, isConfigFile(raw), NEW s \in ConfigSection, forced(raw, s)
  PROVE  /\ profiled(raw, s).enabled = TRUE
         /\ s = "ownership" => profiled(raw, s).detail = "profile"
         /\ s = "maxTier" => profiled(raw, s).detail = first(merged(raw)[s].detail, "profile")
<1>1. asLoaded(raw).sections = merged(raw)
  BY LoadedFields
<1> QED
  BY <1>1 DEF forced, profiled, applySection

\* The schema leaves what a section has.
LEMMA CompletedStays ==
  ASSUME NEW s, NEW section \in SectionText
  PROVE  /\ section.enabled # Unset => completed(s, section).enabled = section.enabled
         /\ section.detail # Unset => completed(s, section).detail = section.detail
         /\ section = Absent => completed(s, section) = Absent
  BY DEF completed, overlaid, first, Absent

\* What the file says of a section, and what it leaves open, in the result.
LEMMA UserWinsOf ==
  ASSUME NEW raw, isConfigFile(raw), NEW s \in ConfigSection
  PROVE  LET l == completed(s, profiled(raw, s))
         IN /\ own(raw, s).enabled # Unset /\ ~forced(raw, s) => l.enabled = own(raw, s).enabled
            /\ own(raw, s).detail # Unset /\ ~(forced(raw, s) /\ s = "ownership") =>
                 l.detail = own(raw, s).detail
            /\ s \in raw.named /\ own(raw, s).enabled = Unset /\ ~forced(raw, s) => ~l.enabled
            /\ s \notin raw.named =>
                 IF ~raw.profile \/ s = "gitlab" THEN l = Absent ELSE l.enabled = (s # "runtime")
<1> DEFINE a == profiled(raw, s)
           l == completed(s, a)
<1>1. a \in SectionText
  BY MergedType, LoadedFields, SectionType DEF profiled
<1>2. /\ a.enabled # Unset => l.enabled = a.enabled
      /\ a.detail # Unset => l.detail = a.detail
      /\ a = Absent => l = Absent
  BY <1>1, CompletedStays
<1> HIDE DEF l
<1>3. ASSUME s \in raw.named
      PROVE  /\ merged(raw)[s].enabled = first(own(raw, s).enabled, FALSE)
             /\ merged(raw)[s].detail = first(own(raw, s).detail, DEFAULT_CONFIG(s).detail)
             /\ merged(raw)[s].enabled # Unset
  BY <1>3, NamedSection
<1>4. s \notin raw.named => own(raw, s).enabled = Unset /\ own(raw, s).detail = Unset
  BY DEF own, Absent
<1>5. ASSUME s \in raw.named, ~forced(raw, s)
      PROVE  /\ l.enabled = first(own(raw, s).enabled, FALSE)
             /\ own(raw, s).detail # Unset => l.detail = own(raw, s).detail
  BY <1>2, <1>3, <1>5, NamedStays DEF first
<1>6. own(raw, s).enabled # Unset /\ ~forced(raw, s) => l.enabled = own(raw, s).enabled
  BY <1>4, <1>5, Zenon DEF first
<1>7. ASSUME own(raw, s).detail # Unset, ~(forced(raw, s) /\ s = "ownership")
      PROVE  l.detail = own(raw, s).detail
  <2>1. s \in raw.named
    BY <1>4, <1>7
  <2>2. CASE ~forced(raw, s)
    BY <1>5, <1>7, <2>1, <2>2
  <2>3. CASE forced(raw, s)
    <3>1. s = "maxTier"
      BY <1>7, <2>3 DEF forced
    <3>2. a.detail = first(merged(raw)[s].detail, "profile")
      BY <2>3, <3>1, ForcedSection
    <3> QED
      BY <1>2, <1>3, <1>7, <2>1, <3>2 DEF first
  <2> QED
    BY <2>2, <2>3
<1>8. s \in raw.named /\ own(raw, s).enabled = Unset /\ ~forced(raw, s) => ~l.enabled
  BY <1>5, Zenon DEF first
<1>9. ASSUME s \notin raw.named
      PROVE  IF ~raw.profile \/ s = "gitlab" THEN l = Absent ELSE l.enabled = (s # "runtime")
  <2>1. IF ~raw.profile \/ s = "gitlab" THEN a = Absent ELSE a.enabled = (s # "runtime")
    BY <1>9, SilentSection
  <2> HIDE DEF a
  <2>2. CASE ~raw.profile \/ s = "gitlab"
    BY <1>2, <2>1, <2>2
  <2>3. CASE ~(~raw.profile \/ s = "gitlab")
    <3>1. a.enabled = (s # "runtime")
      BY <2>1, <2>3
    <3>2. a.enabled # Unset
      BY <3>1, WrittenText
    <3> QED
      BY <1>2, <2>3, <3>1, <3>2
  <2> QED
    BY <2>2, <2>3
<1> QED
  BY <1>6, <1>7, <1>8, <1>9 DEF l

\* The profile says nothing the schema refuses.
LEMMA ProfileSaysGood ==
  ASSUME NEW s \in ConfigSection, NEW c \in Configuration, applySection(s, c).detail = "bad"
  PROVE  c.sections[s].detail = "bad"
<1>1. c.sections[s] \in SectionText /\ c.repos \in Seq(Repository) /\ "profile" # "bad"
  BY DEF Configuration
<1>2. CASE s = "gitlab"
  BY <1>2 DEF applySection
<1>3. CASE s \in {"ownership", "maxTier"}
  BY <1>1, <1>3 DEF applySection, first
<1>4. CASE s \notin {"gitlab", "ownership", "maxTier"}
  <2>1. applySection(s, c) = overlaid(c.sections[s], profileOf(s, c.repos))
    BY <1>4 DEF applySection
  <2>2. profileOf(s, c.repos).detail # "bad"
    BY <1>1, <1>4, ProfileType
  <2> QED
    BY <2>1, <2>2 DEF overlaid, first
<1> QED
  BY <1>2, <1>3, <1>4

\* A detail the schema refuses comes from the file.
LEMMA BadIsTheFiles ==
  ASSUME NEW raw, isConfigFile(raw), NEW s \in ConfigSection, profiled(raw, s).detail = "bad"
  PROVE  s \in raw.named /\ raw.sections[s].detail = "bad"
<1>1. DEFAULT_CONFIG(s).detail # "bad" /\ "bad" # Unset
  BY DefaultType, WrittenText DEF Written
<1>2. merged(raw)[s].detail = "bad"
  BY LoadedFields, ProfileSaysGood DEF profiled
<1>3. s \in raw.named
  BY <1>1, <1>2 DEF merged, Absent
<1>4. first(own(raw, s).detail, DEFAULT_CONFIG(s).detail) = "bad"
  BY <1>2, <1>3, NamedSection
<1> QED
  BY <1>1, <1>3, <1>4 DEF first, own

------------------------------------------------------------------------------
(* Applied again. *)

\* The repositories are the same to who looks for one, whatever they exclude.
LEMMA InferAgain ==
  ASSUME NEW repos \in Seq(Repository), NEW role, NEW name
  PROVE  infer([i \in DOMAIN repos |-> mergeRepoExcludes(repos[i])], role, name)
           = infer(repos, role, name)
<1> DEFINE merge == [i \in DOMAIN repos |-> mergeRepoExcludes(repos[i])]
           like == {i \in DOMAIN repos : repos[i].role = role \/ name \in repos[i].nameHas}
           least == CHOOSE i \in like : \A j \in like : i <= j
           fitting == {i \in DOMAIN merge : merge[i].role = role \/ name \in merge[i].nameHas}
<1>1. DOMAIN merge = DOMAIN repos
  OBVIOUS
<1>2. \A i \in DOMAIN repos : /\ merge[i].role = repos[i].role
                              /\ merge[i].nameHas = repos[i].nameHas
                              /\ merge[i].path = repos[i].path
  BY RepositoryType
<1> HIDE DEF merge
<1>3. fitting = like
  BY <1>1, <1>2
<1>4. like # {} => least \in like
  <2>1. like \in SUBSET Nat
    OBVIOUS
  <2> QED
    BY <2>1, LeastElement
<1>5. infer(repos, role, name) = IF like = {} THEN Unset ELSE repos[least].path
  BY DEF infer
<1>6. infer(merge, role, name) = IF like = {} THEN Unset ELSE merge[least].path
  <2>1. infer(merge, role, name) =
          IF fitting = {} THEN Unset ELSE merge[CHOOSE i \in fitting : \A j \in fitting : i <= j].path
    BY DEF infer
  <2> HIDE DEF fitting, like
  <2> QED
    BY <1>3, <2>1
<1>7. like # {} => merge[least].path = repos[least].path
  BY <1>2, <1>4
<1> HIDE DEF like, least
<1> QED
  BY <1>5, <1>6, <1>7 DEF merge

\* The profile says of every section what it said.
LEMMA ProfileAgain ==
  ASSUME NEW repos \in Seq(Repository), NEW s
  PROVE  profileOf(s, [i \in DOMAIN repos |-> mergeRepoExcludes(repos[i])]) = profileOf(s, repos)
  BY InferAgain DEF profileOf

LEMMA CompletedAgain ==
  ASSUME NEW s, NEW section
  PROVE  completed(s, completed(s, section)) = completed(s, section)
  BY OverlaidAgain DEF completed

\* A section of a configuration that is loaded is as it would be, loaded again.
LEMMA SectionSettles ==
  ASSUME NEW raw, isConfigFile(raw), NEW s \in ConfigSection, NEW l \in Configuration,
         l.profile = raw.profile,
         l.sections[s] = completed(s, profiled(raw, s)),
         raw.profile => l.repos = [i \in DOMAIN raw.repos |-> mergeRepoExcludes(raw.repos[i])]
  PROVE  completed(s, IF raw.profile THEN applySection(s, l) ELSE l.sections[s]) = l.sections[s]
<1>1. asLoaded(raw).sections = merged(raw) /\ asLoaded(raw).repos = raw.repos
  BY LoadedFields
<1>2. CASE ~raw.profile \/ s = "gitlab"
  BY <1>2, CompletedAgain DEF applySection
<1>3. CASE raw.profile /\ s = "ownership"
  BY <1>3 DEF applySection, profiled
<1>4. CASE raw.profile /\ s = "maxTier"
  <2> DEFINE a == profiled(raw, s)
  <2>1. a = [enabled |-> TRUE, detail |-> first(merged(raw)[s].detail, "profile")]
    BY <1>1, <1>4 DEF profiled, applySection
  <2>2. a \in SectionText
    BY LoadedFields, SectionType, <1>4 DEF profiled
  <2>3. a.detail # Unset
    BY <2>1, WrittenText DEF first, Written
  <2>4. l.sections[s].detail = a.detail
    BY <2>2, <2>3, CompletedStays
  <2>5. applySection(s, l) = [enabled |-> TRUE, detail |-> first(l.sections[s].detail, "profile")]
    BY <1>4 DEF applySection
  <2>6. first(l.sections[s].detail, "profile") = first(merged(raw)[s].detail, "profile")
    BY <2>1, <2>3, <2>4 DEF first
  <2>7. applySection(s, l) = a
    BY <2>1, <2>5, <2>6
  <2> QED
    BY <1>4, <2>7
<1>5. CASE raw.profile /\ s \notin {"gitlab", "ownership", "maxTier"}
  <2> DEFINE m == merged(raw)[s]
             p == profileOf(s, raw.repos)
             d == schemaDefault(s)
  <2>1. profiled(raw, s) = overlaid(m, p)
    BY <1>1, <1>5 DEF profiled, applySection
  <2>2. profileOf(s, l.repos) = p
    BY <1>5, ProfileAgain DEF isConfigFile
  <2>3. applySection(s, l) = overlaid(l.sections[s], p)
    BY <1>5, <2>2 DEF applySection
  <2>4. p.enabled # Unset
    <3>1. p.enabled = (s # "runtime")
      BY <1>5, ProfileType DEF isConfigFile
    <3> QED
      BY <3>1, WrittenText
  <2> HIDE DEF p, m, d
  <2>5. \A x : overlaid(x, p) # Absent
    BY <2>4 DEF overlaid, first, Absent
  <2>6. l.sections[s] = overlaid(overlaid(m, p), d)
    BY <2>1, <2>5 DEF completed, d
  <2>7. completed(s, applySection(s, l)) = overlaid(overlaid(l.sections[s], p), d)
    BY <2>3, <2>5 DEF completed, d
  <2> QED
    BY <1>5, <2>6, <2>7, OverlaidAgain
<1> QED
  BY <1>2, <1>3, <1>4, <1>5
------------------------------------------------------------------------------
(* A whole configuration. *)

\* What a file holds, with the profile.
applied(raw) == applyHustleXpWorkflowProfile(asLoaded(raw))

LEMMA AppliedConfig ==
  ASSUME NEW raw, isConfigFile(raw)
  PROVE  /\ applied(raw) \in Configuration
         /\ \A s \in ConfigSection : applied(raw).sections[s] = profiled(raw, s)
         /\ applied(raw).profile = raw.profile
         /\ applied(raw).categories = asLoaded(raw).categories
         /\ first(raw.checks, {}) \subseteq applied(raw).checks
         /\ raw.profile => HUSTLEXP_REQUIRED_CHECKS \subseteq applied(raw).checks
         /\ raw.profile => applied(raw).simulateOnly = (raw.simulateOnly # FALSE)
         /\ Len(applied(raw).repos) = Len(raw.repos)
         /\ \A i \in DOMAIN raw.repos : raw.repos[i].exclude \subseteq applied(raw).repos[i].exclude
         /\ applied(raw).repos =
              IF raw.profile THEN [i \in DOMAIN raw.repos |-> mergeRepoExcludes(raw.repos[i])]
              ELSE raw.repos
         /\ applied(raw).rules =
              IF raw.profile THEN raw.rules \o HUSTLEXP_OWNERSHIP_RULES ELSE raw.rules
         /\ applied(raw).prioritize = LET p == first(raw.prioritize, "changed-files-first")
                                      IN IF raw.profile THEN raised(p) ELSE p
         /\ applied(raw).focus = IF raw.profile THEN first(raw.focus, "mismatches") ELSE raw.focus
<1> DEFINE c == asLoaded(raw)
<1>1. /\ c \in Configuration /\ c.sections = merged(raw) /\ c.profile = raw.profile
      /\ c.simulateOnly = raw.simulateOnly /\ c.repos = raw.repos
      /\ first(raw.checks, {}) \subseteq c.checks
      /\ c.rules = raw.rules /\ c.focus = raw.focus
      /\ c.prioritize = first(raw.prioritize, "changed-files-first")
  BY LoadedFields
<1>2. raw.profile \in BOOLEAN /\ raw.simulateOnly \in BOOLEAN \cup {Unset} /\ raw.repos \in Seq(Repository)
  BY DEF isConfigFile
<1>3. CASE ~raw.profile
  <2>1. applied(raw) = c
    BY <1>1, <1>3 DEF applied, applyHustleXpWorkflowProfile
  <2>2. \A s \in ConfigSection : profiled(raw, s) = merged(raw)[s]
    BY <1>3 DEF profiled
  <2> HIDE DEF c
  <2> QED
    BY <1>1, <1>3, <2>1, <2>2 DEF c
<1>4. CASE raw.profile
  <2> HIDE DEF c
  <2>1. c.profile = TRUE
    BY <1>1, <1>2, <1>4
  <2> DEFINE a == applyHustleXpWorkflowProfile(c)
  <2>2. a \in Configuration
    BY <1>1, <2>1, AppliedType
  <2>3. /\ a.sections = [s \in ConfigSection |-> applySection(s, c)]
        /\ a.profile = c.profile
        /\ a.simulateOnly = first(c.simulateOnly, TRUE)
        /\ a.categories = c.categories
        /\ a.checks = c.checks \cup HUSTLEXP_REQUIRED_CHECKS
        /\ a.repos = [i \in DOMAIN c.repos |-> mergeRepoExcludes(c.repos[i])]
        /\ a.rules = c.rules \o HUSTLEXP_OWNERSHIP_RULES
        /\ a.prioritize = raised(c.prioritize) /\ a.focus = first(c.focus, "mismatches")
    BY <1>1, <2>1, AppliedFields
  <2> HIDE DEF a
  <2>4. applied(raw) = a
    BY DEF applied, a, c
  <2>5. \A s \in ConfigSection : a.sections[s] = profiled(raw, s)
    BY <1>4, <2>3 DEF profiled, c
  <2>6. a.simulateOnly = (raw.simulateOnly # FALSE)
    <3>1. a.simulateOnly = first(raw.simulateOnly, TRUE)
      BY <1>1, <2>3
    <3>2. CASE raw.simulateOnly = Unset
      BY <3>1, <3>2, WrittenText DEF first
    <3>3. CASE raw.simulateOnly \in BOOLEAN /\ raw.simulateOnly # Unset
      BY <3>1, <3>3 DEF first
    <3> QED
      BY <1>2, <3>2, <3>3
  <2>7. Len(a.repos) = Len(raw.repos)
    BY <1>1, <1>2, <2>3, ReposType
  <2>8. \A i \in DOMAIN raw.repos : raw.repos[i].exclude \subseteq a.repos[i].exclude
    <3>1. \A i \in DOMAIN raw.repos : raw.repos[i] \in Repository
      BY <1>2
    <3>2. \A i \in DOMAIN raw.repos : raw.repos[i].exclude \subseteq mergeRepoExcludes(raw.repos[i]).exclude
      BY <3>1, RepositoryType
    <3> QED
      BY <1>1, <2>3, <3>2
  <2>9. a.repos = [i \in DOMAIN raw.repos |-> mergeRepoExcludes(raw.repos[i])]
    BY <1>1, <2>3
  <2>10. a.profile = raw.profile /\ a.categories = c.categories
         /\ first(raw.checks, {}) \subseteq a.checks /\ HUSTLEXP_REQUIRED_CHECKS \subseteq a.checks
         /\ a.rules = raw.rules \o HUSTLEXP_OWNERSHIP_RULES
         /\ a.prioritize = raised(first(raw.prioritize, "changed-files-first"))
         /\ a.focus = first(raw.focus, "mismatches")
    BY <1>1, <2>3
  <2> QED
    BY <1>4, <2>2, <2>4, <2>5, <2>6, <2>7, <2>8, <2>9, <2>10 DEF c
<1> QED
  BY <1>2, <1>3, <1>4

\* What is rejected has a bad value in the file.
LEMMA RejectedConfig ==
  ASSUME NEW raw, isConfigFile(raw), ~valid(applied(raw))
  PROVE  \/ \E s \in raw.named : raw.sections[s].detail = "bad"
         \/ \E i \in DOMAIN raw.rules : raw.rules[i] = "bad"
         \/ raw.prioritize = "bad" \/ raw.focus = "bad"
         \/ "bad" \in first(raw.categories, {})
         \/ Len(raw.repos) \notin 1 .. 10
<1> DEFINE a == applied(raw)
<1>1. /\ \A s \in ConfigSection : a.sections[s] = profiled(raw, s)
      /\ a.categories = asLoaded(raw).categories
      /\ Len(a.repos) = Len(raw.repos)
      /\ a.rules = IF raw.profile THEN raw.rules \o HUSTLEXP_OWNERSHIP_RULES ELSE raw.rules
      /\ a.prioritize = LET p == first(raw.prioritize, "changed-files-first")
                        IN IF raw.profile THEN raised(p) ELSE p
      /\ a.focus = IF raw.profile THEN first(raw.focus, "mismatches") ELSE raw.focus
  BY AppliedConfig
<1>2. CASE \E s \in ConfigSection : a.sections[s].detail = "bad"
  BY <1>1, <1>2, BadIsTheFiles
<1>3. CASE ~({normalizeCategory(k) : k \in a.categories} \subseteq {"feature", "scale"})
  <2>1. PICK k \in a.categories : normalizeCategory(k) \notin {"feature", "scale"}
    BY <1>3
  <2>2. k \in {"features", "feature", "scale", "bad"}
    BY <1>1, LoadedFields
  <2>3. k = "bad"
    BY <2>1, <2>2 DEF normalizeCategory
  <2> QED
    BY <1>1, <2>3, LoadedFields
<1>4. CASE Len(a.repos) \notin 1 .. 10
  BY <1>1, <1>4
<1>5. CASE \E i \in DOMAIN a.rules : a.rules[i] = "bad"
  <2>1. raw.rules \in Seq(ConfigText)
    BY DEF isConfigFile
  <2> QED
    BY <1>1, <1>5, <2>1, RulesType
<1>6. CASE a.prioritize \notin Priority
  <2>1. raw.prioritize \in Priority \cup {"bad", Unset}
    BY DEF isConfigFile
  <2> QED
    BY <1>1, <1>6, <2>1 DEF first, raised, Priority
<1>7. CASE a.focus \notin Focus \cup {Unset}
  <2>1. raw.focus \in Focus \cup {"bad", Unset}
    BY DEF isConfigFile
  <2> QED
    BY <1>1, <1>7, <2>1 DEF first, Focus
<1> HIDE DEF a
<1>8. ~valid(a)
  BY DEF a
<1> QED
  BY <1>2, <1>3, <1>4, <1>5, <1>6, <1>7, <1>8 DEF valid

\* What is loaded is as it would be, loaded again, but for the profile's rules; and it
\* passes again.
LEMMA LoadedSettles ==
  ASSUME NEW raw, isConfigFile(raw), valid(applied(raw))
  PROVE  LET l == omniLinkConfigSchema(applied(raw))
             again == omniLinkConfigSchema(applyHustleXpWorkflowProfile(l))
         IN /\ again = [l EXCEPT !.rules = l.rules \o
                                   (IF raw.profile THEN HUSTLEXP_OWNERSHIP_RULES ELSE <<>>)]
            /\ valid(applyHustleXpWorkflowProfile(l))
<1> DEFINE a == applied(raw)
           l == omniLinkConfigSchema(a)
           b == applyHustleXpWorkflowProfile(l)
           again == omniLinkConfigSchema(b)
           rules == l.rules \o (IF raw.profile THEN HUSTLEXP_OWNERSHIP_RULES ELSE <<>>)
<1>1. /\ a \in Configuration /\ a.profile = raw.profile
      /\ \A s \in ConfigSection : a.sections[s] = profiled(raw, s)
      /\ raw.profile => HUSTLEXP_REQUIRED_CHECKS \subseteq a.checks
      /\ a.repos = IF raw.profile THEN [i \in DOMAIN raw.repos |-> mergeRepoExcludes(raw.repos[i])]
                   ELSE raw.repos
      /\ valid(a)
  BY AppliedConfig
<1>2. raw.profile \in BOOLEAN /\ raw.repos \in Seq(Repository)
  BY DEF isConfigFile
<1> HIDE DEF a
<1>3. l \in Configuration
  BY <1>1, CompletedType
<1>4. /\ l.sections = [s \in ConfigSection |-> completed(s, a.sections[s])]
      /\ l.profile = a.profile /\ l.simulateOnly = a.simulateOnly
      /\ l.prioritize = a.prioritize /\ l.focus = a.focus
      /\ l.categories = {normalizeCategory(k) : k \in a.categories}
      /\ l.checks = a.checks /\ l.repos = a.repos /\ l.rules = a.rules
  BY <1>1, CompletedFields
<1> HIDE DEF l, rules
<1>5. b \in Configuration
  BY <1>3, AppliedType DEF applyHustleXpWorkflowProfile, Configuration
<1>6. /\ again \in Configuration
      /\ again.sections = [s \in ConfigSection |-> completed(s, b.sections[s])]
      /\ again.profile = b.profile /\ again.simulateOnly = b.simulateOnly
      /\ again.prioritize = b.prioritize /\ again.focus = b.focus
      /\ again.categories = {normalizeCategory(k) : k \in b.categories}
      /\ again.checks = b.checks /\ again.repos = b.repos /\ again.rules = b.rules
  BY <1>5, CompletedType, CompletedFields
<1>7. \A s \in ConfigSection :
        completed(s, IF raw.profile THEN applySection(s, l) ELSE l.sections[s]) = l.sections[s]
  <2> SUFFICES ASSUME NEW s \in ConfigSection
               PROVE  completed(s, IF raw.profile THEN applySection(s, l) ELSE l.sections[s])
                        = l.sections[s]
    OBVIOUS
  <2>1. l.sections[s] = completed(s, profiled(raw, s)) /\ l.profile = raw.profile
    BY <1>1, <1>4
  <2>2. raw.profile => l.repos = [i \in DOMAIN raw.repos |-> mergeRepoExcludes(raw.repos[i])]
    BY <1>1, <1>4
  <2> QED
    BY <1>3, <2>1, <2>2, SectionSettles
<1>8. /\ b.sections = [s \in ConfigSection |-> IF raw.profile THEN applySection(s, l) ELSE l.sections[s]]
      /\ b.profile = l.profile /\ b.simulateOnly = l.simulateOnly /\ b.prioritize = l.prioritize
      /\ b.focus = l.focus /\ b.categories = l.categories /\ b.checks = l.checks /\ b.repos = l.repos
      /\ b.rules = rules
  <2>1. CASE ~raw.profile
    <3>1. b = l
      BY <1>1, <1>4, <2>1 DEF applyHustleXpWorkflowProfile
    <3>2. l.sections = [s \in ConfigSection |-> l.sections[s]]
      BY <1>4
    <3>3. l.rules = rules
      BY <1>3, <2>1 DEF Configuration, rules
    <3> HIDE DEF b
    <3> QED
      BY <2>1, <3>1, <3>2, <3>3
  <2>2. CASE raw.profile
    <3>1. l.profile = TRUE
      BY <1>1, <1>2, <1>4, <2>2
    <3>2. /\ b.sections = [s \in ConfigSection |-> applySection(s, l)]
          /\ b.profile = l.profile /\ b.simulateOnly = first(l.simulateOnly, TRUE)
          /\ b.prioritize = raised(l.prioritize) /\ b.focus = first(l.focus, "mismatches")
          /\ b.categories = l.categories
          /\ b.checks = l.checks \cup HUSTLEXP_REQUIRED_CHECKS
          /\ b.repos = [i \in DOMAIN l.repos |-> mergeRepoExcludes(l.repos[i])]
          /\ b.rules = l.rules \o HUSTLEXP_OWNERSHIP_RULES
      BY <1>3, <3>1, AppliedFields
    <3> HIDE DEF b
    <3> DEFINE c == asLoaded(raw)
    <3>3. c \in Configuration /\ c.profile = TRUE
      BY <1>2, <2>2, LoadedFields
    <3>4. /\ a.simulateOnly = first(c.simulateOnly, TRUE) /\ a.prioritize = raised(c.prioritize)
          /\ a.focus = first(c.focus, "mismatches")
      BY <3>3, AppliedFields DEF a, applied
    <3> HIDE DEF c
    <3>5. b.simulateOnly = l.simulateOnly
      BY <1>4, <3>2, <3>4, Zenon DEF first
    <3>6. b.focus = l.focus
      BY <1>4, <3>2, <3>4 DEF first
    <3>7. b.prioritize = l.prioritize /\ b.checks = l.checks
      BY <1>1, <1>4, <2>2, <3>2, <3>4 DEF raised
    <3>8. b.repos = l.repos
      <4>1. l.repos = [i \in DOMAIN raw.repos |-> mergeRepoExcludes(raw.repos[i])]
        BY <1>1, <1>4, <2>2
      <4>2. \A i \in DOMAIN raw.repos :
              mergeRepoExcludes(mergeRepoExcludes(raw.repos[i])) = mergeRepoExcludes(raw.repos[i])
        BY <1>2, RepositoryType
      <4> QED
        BY <3>2, <4>1, <4>2
    <3>9. b.rules = rules
      BY <2>2, <3>2 DEF rules
    <3> QED
      BY <2>2, <3>2, <3>5, <3>6, <3>7, <3>8, <3>9
  <2> QED
    BY <2>1, <2>2
<1> HIDE DEF b
<1>9. again.sections = l.sections
  <2>1. \A s \in ConfigSection : again.sections[s] = l.sections[s]
    BY <1>6, <1>7, <1>8
  <2>2. /\ again.sections = [s \in ConfigSection |-> again.sections[s]]
        /\ l.sections = [s \in ConfigSection |-> l.sections[s]]
    BY <1>4, <1>6
  <2> QED
    BY <2>1, <2>2
<1>10. again.categories = l.categories
  <2>1. \A k : normalizeCategory(normalizeCategory(k)) = normalizeCategory(k)
    BY DEF normalizeCategory
  <2>2. {normalizeCategory(k) : k \in l.categories} = l.categories
    BY <1>4, <2>1
  <2> QED
    BY <1>6, <1>8, <2>2
<1> HIDE DEF again
<1>11. again = [l EXCEPT !.rules = rules]
  <2> DEFINE e == [l EXCEPT !.rules = rules]
  <2>1. rules \in Seq(ConfigText)
    BY <1>6, <1>8 DEF Configuration
  <2>2. /\ e \in Configuration /\ e.rules = rules
        /\ e.sections = l.sections /\ e.profile = l.profile /\ e.simulateOnly = l.simulateOnly
        /\ e.prioritize = l.prioritize /\ e.focus = l.focus /\ e.categories = l.categories
        /\ e.checks = l.checks /\ e.repos = l.repos
    BY <1>3, <2>1 DEF Configuration
  <2> HIDE DEF e
  <2>3. again = e
    BY <1>6, <1>8, <1>9, <1>10, <2>2, SameFields
  <2> QED
    BY <2>3 DEF e
<1>12. valid(b)
  <2>1. \A s \in ConfigSection : l.sections[s].detail # "bad"
    <3> SUFFICES ASSUME NEW s \in ConfigSection PROVE l.sections[s].detail # "bad"
      OBVIOUS
    <3>1. a.sections[s].detail # "bad"
      BY <1>1 DEF valid
    <3>2. l.sections[s] = completed(s, a.sections[s]) /\ schemaDefault(s).detail # "bad"
      BY <1>4, DefaultType
    <3> QED
      BY <3>1, <3>2 DEF completed, overlaid, first, Absent
  <2>2. \A s \in ConfigSection : b.sections[s].detail # "bad"
    BY <1>3, <1>8, <2>1, ProfileSaysGood
  <2>3. {normalizeCategory(k) : k \in b.categories} \subseteq {"feature", "scale"}
    <3>1. {normalizeCategory(k) : k \in b.categories} = l.categories
      BY <1>6, <1>10
    <3> QED
      BY <1>1, <1>4, <3>1 DEF valid
  <2>4. \A i \in DOMAIN b.rules : b.rules[i] # "bad"
    <3>1. \A i \in DOMAIN l.rules : l.rules[i] # "bad"
      BY <1>1, <1>4 DEF valid
    <3>2. l.rules \in Seq(ConfigText)
      BY <1>3 DEF Configuration
    <3>3. CASE raw.profile
      BY <1>8, <3>1, <3>2, <3>3, RulesType DEF rules
    <3>4. CASE ~raw.profile
      BY <1>8, <3>1, <3>2, <3>4 DEF rules
    <3> QED
      BY <3>3, <3>4
  <2>5. b.prioritize \in Priority /\ b.focus \in Focus \cup {Unset} /\ Len(b.repos) \in 1 .. 10
    BY <1>1, <1>4, <1>8 DEF valid
  <2> QED
    BY <2>2, <2>3, <2>4, <2>5 DEF valid
<1> QED
  BY <1>11, <1>12 DEF again, b, l, a, rules

------------------------------------------------------------------------------
(* The theorem. *)

\* A command that has not read the configuration yet has only its files.
Asked ==
  /\ configuration.files \in ConfigFiles
  /\ configuration.pc = "asked" =>
       configuration \in [pc : {"asked"}, files : ConfigFiles, raw : {Unset}, config : {Unset}]

ConfigInv == Asked /\ ConfigSound

LEMMA ConfigStep ==
  ASSUME ConfigInv, loadConfig
  PROVE  ConfigInv'
<1> DEFINE raw == resolveConfigPath(configuration.files)
           l == omniLinkConfigSchema(applied(raw))
<1>1. configuration \in [pc : {"asked"}, files : ConfigFiles, raw : {Unset}, config : {Unset}]
  BY DEF ConfigInv, Asked, loadConfig
<1>2. raw = Unset \/ isConfigFile(raw)
  BY <1>1, ConfigAssumption DEF resolveConfigPath, first
<1> HIDE DEF raw
<1>3. CASE raw = Unset
  <2>1. configuration' = [configuration EXCEPT !.pc = "none"]
    BY <1>3 DEF loadConfig, raw
  <2>2. configuration'.pc = "none" /\ configuration'.files = configuration.files
    BY <1>1, <2>1
  <2> QED
    BY <1>1, <2>2 DEF ConfigInv, Asked, ConfigSound
<1>4. CASE raw # Unset /\ ~valid(applied(raw))
  <2>1. configuration' = [configuration EXCEPT !.pc = "rejected", !.raw = raw]
    BY <1>4 DEF loadConfig, raw, applied
  <2>2. configuration'.pc = "rejected" /\ configuration'.files = configuration.files
    BY <1>1, <2>1
  <2>3. resolveConfigPath(configuration'.files) = raw
    BY <2>2 DEF raw
  <2>4. \/ \E s \in raw.named : raw.sections[s].detail = "bad"
        \/ \E i \in DOMAIN raw.rules : raw.rules[i] = "bad"
        \/ raw.prioritize = "bad" \/ raw.focus = "bad"
        \/ "bad" \in first(raw.categories, {})
        \/ Len(raw.repos) \notin 1 .. 10
    BY <1>2, <1>4, RejectedConfig
  <2>5. ProfileSettles'
    BY <2>2, <2>3, <2>4 DEF ProfileSettles
  <2> QED
    BY <1>1, <2>2, <2>5 DEF ConfigInv, Asked, ConfigSound
<1>5. CASE raw # Unset /\ valid(applied(raw))
  <2>1. configuration' = [configuration EXCEPT !.pc = "loaded", !.raw = raw, !.config = l]
    BY <1>5 DEF loadConfig, raw, applied
  <2> HIDE DEF l
  <2>2. /\ configuration'.pc = "loaded" /\ configuration'.files = configuration.files
        /\ configuration'.raw = raw /\ configuration'.config = l
    BY <1>1, <2>1
  <2>3. isConfigFile(raw) /\ resolveConfigPath(configuration'.files) = raw
    BY <1>2, <1>5, <2>2 DEF raw
  <2>4. /\ applied(raw) \in Configuration
        /\ \A s \in ConfigSection : applied(raw).sections[s] = profiled(raw, s)
        /\ first(raw.checks, {}) \subseteq applied(raw).checks
        /\ raw.profile => HUSTLEXP_REQUIRED_CHECKS \subseteq applied(raw).checks
        /\ raw.profile => applied(raw).simulateOnly = (raw.simulateOnly # FALSE)
        /\ \A i \in DOMAIN raw.repos : raw.repos[i].exclude \subseteq applied(raw).repos[i].exclude
        /\ applied(raw).rules =
             IF raw.profile THEN raw.rules \o HUSTLEXP_OWNERSHIP_RULES ELSE raw.rules
        /\ applied(raw).prioritize = LET p == first(raw.prioritize, "changed-files-first")
                                     IN IF raw.profile THEN raised(p) ELSE p
        /\ applied(raw).focus = IF raw.profile THEN first(raw.focus, "mismatches") ELSE raw.focus
    BY <2>3, AppliedConfig
  <2>5. /\ l.sections = [s \in ConfigSection |-> completed(s, applied(raw).sections[s])]
        /\ l.checks = applied(raw).checks /\ l.simulateOnly = applied(raw).simulateOnly
        /\ l.repos = applied(raw).repos /\ l.rules = applied(raw).rules
        /\ l.prioritize = applied(raw).prioritize /\ l.focus = applied(raw).focus
    BY <2>4, CompletedFields DEF l
  <2>6. /\ omniLinkConfigSchema(applyHustleXpWorkflowProfile(l)) =
             [l EXCEPT !.rules = l.rules \o (IF raw.profile THEN HUSTLEXP_OWNERSHIP_RULES ELSE <<>>)]
        /\ valid(applyHustleXpWorkflowProfile(l))
    BY <1>5, <2>3, LoadedSettles DEF l
  <2>7. ProfileSettles'
    BY <2>2, <2>3, <2>4, <2>5, <2>6 DEF ProfileSettles
  <2>8. UserWins'
    <3>1. \A s \in ConfigSection : l.sections[s] = completed(s, profiled(raw, s))
      BY <2>4, <2>5
    <3>2. \A s \in ConfigSection :
            /\ own(raw, s).enabled # Unset /\ ~forced(raw, s) => l.sections[s].enabled = own(raw, s).enabled
            /\ own(raw, s).detail # Unset /\ ~(forced(raw, s) /\ s = "ownership") =>
                 l.sections[s].detail = own(raw, s).detail
            /\ s \in raw.named /\ own(raw, s).enabled = Unset /\ ~forced(raw, s) => ~l.sections[s].enabled
            /\ s \notin raw.named =>
                 IF ~raw.profile \/ s = "gitlab" THEN l.sections[s] = Absent
                 ELSE l.sections[s].enabled = (s # "runtime")
      BY <2>3, <3>1, UserWinsOf
    <3>3. l.prioritize = IF raw.profile THEN "api-surface-first"
                         ELSE first(raw.prioritize, "changed-files-first")
      <4>1. applied(raw).prioritize \in Priority
        BY <1>5 DEF valid
      <4> QED
        BY <2>4, <2>5, <4>1 DEF raised, Priority
    <3>4. raw.focus # Unset => l.focus = raw.focus
      BY <2>4, <2>5 DEF first
    <3>5. Len(raw.rules) <= Len(l.rules) /\ \A i \in DOMAIN raw.rules : l.rules[i] = raw.rules[i]
      <4>1. raw.rules \in Seq(ConfigText)
        BY <2>3 DEF isConfigFile
      <4> QED
        BY <2>4, <2>5, <4>1, RulesType
    <3> QED
      BY <2>2, <3>2, <3>3, <3>4, <3>5, Zenon DEF UserWins, own
  <2> QED
    BY <1>1, <2>2, <2>7, <2>8 DEF ConfigInv, Asked, ConfigSound
<1> QED
  BY <1>3, <1>4, <1>5

\* Whatever the files hold, the configuration a command gets is the user's, completed:
\* what a file says holds in the end, save the switches, the default owner and the
\* priority that the profile decides (UserWins); the result may be loaded again and is
\* then the same but for the profile's rules of ownership, which are appended once more;
\* and only a bad value of the file makes it rejected (ProfileSettles).
THEOREM SoundCorrect == ConfigSpec => []ConfigSound
<1>1. ConfigInit => ConfigInv
  <2> SUFFICES ASSUME ConfigInit PROVE ConfigInv
    OBVIOUS
  <2>1. PICK files \in ConfigFiles :
          configuration = [pc |-> "asked", files |-> files, raw |-> Unset, config |-> Unset]
    BY DEF ConfigInit
  <2> QED
    BY <2>1 DEF ConfigInv, Asked, ConfigSound
<1>2. ConfigInv /\ [loadConfig]_configuration => ConfigInv'
  <2> SUFFICES ASSUME ConfigInv, [loadConfig]_configuration PROVE ConfigInv'
    OBVIOUS
  <2>1. CASE loadConfig
    BY <2>1, ConfigStep
  <2>2. CASE UNCHANGED configuration
    BY <2>2 DEF ConfigInv, Asked, ConfigSound, UserWins, ProfileSettles
  <2> QED
    BY <2>1, <2>2
<1>3. ConfigInv => ConfigSound
  BY DEF ConfigInv
<1> QED
  BY <1>1, <1>2, <1>3, PTL DEF ConfigSpec

------------------------------------------------------------------------------
(* The Swift/tRPC bridge. *)

\* Where every property of a router is a procedure, its entries are its keys.
LEMMA EntriesAreKeys ==
  ASSUME NEW lines,
         \A i \in DOMAIN lines : lines[i].key # None => nesting(lines)[i] = outside /\ lines[i].handler,
         DOMAIN lines \subseteq Int
  PROVE  extractTopLevelRouterEntries(lines) = {lines[i].key : i \in DOMAIN lines} \ {None}
<1> DEFINE n == nesting(lines)
<1>1. extractTopLevelRouterEntries(lines)
        = {lines[i].key : i \in
             {s \in {i \in DOMAIN lines : lines[i].key # None /\ n[i] = outside} :
                \E h \in DOMAIN lines :
                  /\ h >= s /\ lines[h].handler
                  /\ \A j \in {k \in {i \in DOMAIN lines : lines[i].key # None /\ n[i] = outside} : k > s} : h < j}}
  BY DEF extractTopLevelRouterEntries
<1>2. \A i \in DOMAIN lines : lines[i].key # None => n[i] = outside /\ lines[i].handler
  OBVIOUS
<1> HIDE DEF n
<1>3. \A i \in DOMAIN lines : i >= i /\ \A j \in DOMAIN lines : j > i => i < j
  OBVIOUS
<1> QED
  BY <1>1, <1>2, <1>3

LEMMA LegibleBackend ==
  ASSUME workspace \in Workspace, legible, served # {}
  PROVE  extractBackendProcedureRefs(workspace) = served
<1>1. \A r \in workspace.routers : r.lines \in Seq(RouterLine) /\ r.readable
  BY BridgeAssumption DEF legible
<1>2. ASSUME NEW r \in workspace.routers
      PROVE  extractTopLevelRouterEntries(r.lines)
               = {l.key : l \in {r.lines[i] : i \in DOMAIN r.lines}} \ {None}
  <2>1. DOMAIN r.lines \subseteq Int
    BY <1>1
  <2>2. \A i \in DOMAIN r.lines : r.lines[i].key # None => nesting(r.lines)[i] = outside /\ r.lines[i].handler
    BY DEF legible
  <2> DEFINE lines == r.lines
  <2> HIDE DEF lines
  <2>3. extractTopLevelRouterEntries(lines) = {lines[i].key : i \in DOMAIN lines} \ {None}
    BY <2>1, <2>2, EntriesAreKeys DEF lines
  <2>4. {l.key : l \in {lines[i] : i \in DOMAIN lines}} = {lines[i].key : i \in DOMAIN lines}
    OBVIOUS
  <2> QED
    BY <2>3, <2>4 DEF lines
<1> DEFINE keys(r) == {l.key : l \in {r.lines[i] : i \in DOMAIN r.lines}}
<1>3. UNION {extractTopLevelRouterEntries(r.lines) : r \in {x \in workspace.routers : x.readable}}
        = UNION {extractTopLevelRouterEntries(r.lines) : r \in workspace.routers}
  BY <1>1
<1>4. served = (UNION {keys(r) : r \in workspace.routers}) \ {None}
  BY DEF served
<1>5. \A r \in workspace.routers : extractTopLevelRouterEntries(r.lines) = keys(r) \ {None}
  BY <1>2
<1> HIDE DEF keys
<1>6. UNION {extractTopLevelRouterEntries(r.lines) : r \in workspace.routers} = served
  <2> DEFINE entries(r) == extractTopLevelRouterEntries(r.lines)
  <2>0. \A r \in workspace.routers : entries(r) = keys(r) \ {None}
    BY <1>5
  <2> HIDE DEF entries
  <2>1. \A k : k \in UNION {entries(r) : r \in workspace.routers}
               <=> \E r \in workspace.routers : k \in keys(r) \ {None}
    BY <2>0
  <2>2. \A k : k \in served <=> \E r \in workspace.routers : k \in keys(r) \ {None}
    <3>1. \A k : k \in UNION {keys(r) : r \in workspace.routers}
                  <=> \E r \in workspace.routers : k \in keys(r)
      OBVIOUS
    <3> DEFINE all == UNION {keys(r) : r \in workspace.routers}
    <3> HIDE DEF all
    <3>2. served = all \ {None}
      BY <1>4 DEF all
    <3>3. \A k : k \in all <=> \E r \in workspace.routers : k \in keys(r)
      BY <3>1 DEF all
    <3> QED
      BY <3>2, <3>3
  <2>3. UNION {entries(r) : r \in workspace.routers} = served
    BY <2>1, <2>2
  <2> QED
    BY <2>3 DEF entries
<1>7. workspace.index
  BY DEF legible
<1> QED
  BY <1>3, <1>6, <1>7 DEF extractBackendProcedureRefs

\* The entries about payloads are of these kinds and never breaking.
LEMMA PayloadEntries ==
  ASSUME NEW call, NEW authority, NEW m \in payloadMismatches(call, authority)
  PROVE  /\ m.key = call.key
         /\ m.severity \in {"warning", "info"}
         /\ m.kind \in {"missing-field", "type-mismatch", "extra-field"}
         /\ m.kind \in {"missing-field", "type-mismatch"} => m.severity = "warning"
         /\ m.about[Len(m.about)] = call.file
<1>1. \A label, expected, actual : \A x \in compareFields(call.key, label, expected, actual, call.file) :
        \E f : \/ x = mismatch("missing-field", "warning", call.key, <<label, f, call.file>>)
               \/ x = mismatch("type-mismatch", "warning", call.key, <<label, f, call.file>>)
               \/ x = mismatch("extra-field", "info", call.key, <<label, f, call.file>>)
  BY DEF compareFields
<1>2. \E label, f : \/ m = mismatch("missing-field", "warning", call.key, <<label, f, call.file>>)
                    \/ m = mismatch("type-mismatch", "warning", call.key, <<label, f, call.file>>)
                    \/ m = mismatch("extra-field", "info", call.key, <<label, f, call.file>>)
  <2>1. \E label, expected, actual : m \in compareFields(call.key, label, expected, actual, call.file)
    <3> DEFINE contract == authority.contracts[call.key]
    <3>1. \/ m \in compareFields(call.key, "input", contract.input, orEmpty(call.input), call.file)
          \/ m \in compareFields(call.key, "output", contract.output, orEmpty(call.output), call.file)
      BY DEF payloadMismatches
    <3> QED
      BY <3>1, Zenon
  <2>2. PICK label, expected, actual :
               m \in compareFields(call.key, label, expected, actual, call.file)
    BY <2>1
  <2>3. \E f : \/ m = mismatch("missing-field", "warning", call.key, <<label, f, call.file>>)
               \/ m = mismatch("type-mismatch", "warning", call.key, <<label, f, call.file>>)
               \/ m = mismatch("extra-field", "info", call.key, <<label, f, call.file>>)
    BY <1>1, <2>2
  <2> QED
    BY <2>3
<1> QED
  BY <1>2, SMTT(30) DEF mismatch

\* What one call adds, when the backend has its procedure and when it has not.
LEMMA ObsoleteCall ==
  ASSUME NEW call, NEW backend, NEW authority, call.key \notin backend
  PROVE  LET a == analyzeCall(call, backend, authority)
         IN /\ a.bridges = {}
            /\ a.mismatches = {mismatch("obsolete-call", "breaking", call.key, <<call.file>>)}
            /\ a.findings = {finding("bridge_obsolete_call", "breaking", "obsolete", call)}
  BY DEF analyzeCall

LEMMA KnownCall ==
  ASSUME NEW call, NEW backend, NEW authority, call.key \in backend
  PROVE  LET a == analyzeCall(call, backend, authority)
             undeclared == mismatch("missing-procedure", "warning", call.key, <<"both", call.file>>)
         IN /\ \A b \in a.bridges :
                 /\ b.route = call.key /\ b.file = call.file
                 /\ b.status = "exact" => call.key \in authority.procedures
                 /\ b.status # "exact" => \E m \in a.mismatches :
                      m.key = call.key /\ m.severity = "warning" /\ m.about[Len(m.about)] = call.file
            /\ a.bridges # {}
            /\ a.mismatches = payloadMismatches(call, authority) \cup
                 (IF call.key \in authority.procedures THEN {} ELSE {undeclared})
            /\ \A f \in a.findings : f.severity = "warning" /\ f.file = call.file /\ f.line = call.line
<1> DEFINE a == analyzeCall(call, backend, authority)
           payload == payloadMismatches(call, authority)
           undeclared == mismatch("missing-procedure", "warning", call.key, <<"both", call.file>>)
           status == IF \E m \in payload : m.kind \in {"type-mismatch", "missing-field"}
                     THEN "mismatch"
                     ELSE IF call.key \in authority.procedures THEN "exact" ELSE "compatible"
           bridge == [file |-> call.file, line |-> call.line, route |-> call.key, status |-> status]
<1>1. /\ a.bridges = {bridge}
      /\ a.mismatches = payload \cup (IF call.key \in authority.procedures THEN {} ELSE {undeclared})
      /\ a.findings = (IF payload = {} THEN {} ELSE {finding("bridge_mismatch", "warning", "payload", call)})
             \cup (IF call.key \in authority.procedures THEN {}
                   ELSE {finding("bridge_mismatch", "warning", "undeclared", call)})
  BY DEF analyzeCall
<1>2. \A m \in payload : m.key = call.key /\ m.about[Len(m.about)] = call.file
                         /\ (m.kind \in {"missing-field", "type-mismatch"} => m.severity = "warning")
  BY PayloadEntries
<1>3. undeclared.key = call.key /\ undeclared.severity = "warning"
      /\ undeclared.about[Len(undeclared.about)] = call.file
  BY DEF mismatch
<1> HIDE DEF payload, undeclared, a
<1>4. /\ status = "exact" => call.key \in authority.procedures
      /\ status = "mismatch" => \E m \in payload : m.kind \in {"type-mismatch", "missing-field"}
      /\ status = "compatible" => call.key \notin authority.procedures
      /\ status \in {"exact", "mismatch", "compatible"}
  OBVIOUS
<1> HIDE DEF status
<1>5. bridge.route = call.key /\ bridge.file = call.file /\ bridge.status = status
  OBVIOUS
<1> HIDE DEF bridge
<1>6. status # "exact" => \E m \in a.mismatches :
        m.key = call.key /\ m.severity = "warning" /\ m.about[Len(m.about)] = call.file
  BY <1>1, <1>2, <1>3, <1>4
<1>7. \A f \in a.findings : f.severity = "warning" /\ f.file = call.file /\ f.line = call.line
  BY <1>1 DEF finding
<1> QED
  BY <1>1, <1>4, <1>5, <1>6, <1>7 DEF a, payload, undeclared

------------------------------------------------------------------------------
(* All calls. *)

\* So a bridge that is not exact has a warning in its file.
LEMMA KnownBridges ==
  ASSUME NEW call, NEW backend, NEW authority, call.key \in backend,
         NEW b \in analyzeCall(call, backend, authority).bridges
  PROVE  /\ b.route = call.key /\ b.file = call.file
         /\ b.status = "exact" => call.key \in authority.procedures
         /\ b.status # "exact" => \E m \in analyzeCall(call, backend, authority).mismatches :
              m.key = call.key /\ m.severity = "warning" /\ m.about[Len(m.about)] = call.file
<1> DEFINE a == analyzeCall(call, backend, authority)
           undeclared == mismatch("missing-procedure", "warning", call.key, <<"both", call.file>>)
<1>1. /\ \A x \in a.bridges :
           /\ x.route = call.key /\ x.file = call.file
           /\ x.status = "exact" => call.key \in authority.procedures
           /\ x.status # "exact" => \E m \in a.mismatches :
                m.key = call.key /\ m.severity = "warning" /\ m.about[Len(m.about)] = call.file
      /\ a.bridges # {}
      /\ a.mismatches = payloadMismatches(call, authority) \cup
           (IF call.key \in authority.procedures THEN {} ELSE {undeclared})
      /\ \A f \in a.findings : f.severity = "warning" /\ f.file = call.file /\ f.line = call.line
  BY KnownCall
<1> HIDE DEF a, undeclared
<1>2. b \in a.bridges
  BY DEF a
<1> QED
  BY <1>1, <1>2 DEF a

LEMMA KnownFindings ==
  ASSUME NEW call, NEW backend, NEW authority, call.key \in backend,
         NEW f \in analyzeCall(call, backend, authority).findings
  PROVE  f.severity = "warning" /\ f.file = call.file /\ f.line = call.line
BY DEF analyzeCall, finding

\* The analysis in terms of the single calls.
LEMMA BridgeParts ==
  ASSUME NEW w, NEW authority, "bridge" \in w.enabled
  PROVE  LET calls == extractSwiftTrpcCalls(w.candidates)
             backend == extractBackendProcedureRefs(w)
             bridge == analyzeSwiftTrpcBridge(w, authority)
             add(c) == analyzeCall(c, backend, authority)
         IN /\ bridge.calls = calls /\ bridge.backend = backend
            /\ \A b : b \in bridge.bridges <=> \E c \in calls : b \in add(c).bridges
            /\ \A f : f \in bridge.findings <=> \E c \in calls : f \in add(c).findings
            /\ \A m : m \in bridge.mismatches <=>
                 \/ \E c \in calls : m \in add(c).mismatches
                 \/ \E k \in backend \ authority.procedures :
                      m = mismatch("missing-procedure", "warning", k, <<"backend">>)
                 \/ \E k \in authority.procedures \ backend :
                      m = mismatch("missing-procedure", "breaking", k, <<"docs">>)
<1> DEFINE calls == extractSwiftTrpcCalls(w.candidates)
           backend == extractBackendProcedureRefs(w)
           add(c) == analyzeCall(c, backend, authority)
           per == {add(c) : c \in calls}
           bs == UNION {r.bridges : r \in per}
           fs == UNION {r.findings : r \in per}
           ms == UNION {r.mismatches : r \in per}
           unread == {mismatch("missing-procedure", "warning", k, <<"backend">>) :
                        k \in backend \ authority.procedures}
           ahead == {mismatch("missing-procedure", "breaking", k, <<"docs">>) :
                       k \in authority.procedures \ backend}
<1>1. analyzeSwiftTrpcBridge(w, authority)
        = [calls |-> calls, backend |-> backend, bridges |-> bs, findings |-> fs,
           mismatches |-> ms \cup unread \cup ahead]
  BY Zenon DEF analyzeSwiftTrpcBridge
<1> HIDE DEF add, calls, backend
<1>2. \A b : b \in bs <=> \E c \in calls : b \in add(c).bridges
  OBVIOUS
<1>3. \A f : f \in fs <=> \E c \in calls : f \in add(c).findings
  OBVIOUS
<1>4. \A m : m \in ms <=> \E c \in calls : m \in add(c).mismatches
  OBVIOUS
<1>5. \A m : m \in unread <=> \E k \in backend \ authority.procedures :
                                m = mismatch("missing-procedure", "warning", k, <<"backend">>)
  OBVIOUS
<1>6. \A m : m \in ahead <=> \E k \in authority.procedures \ backend :
                               m = mismatch("missing-procedure", "breaking", k, <<"docs">>)
  OBVIOUS
<1> HIDE DEF per, bs, fs, ms, unread, ahead
<1>7. \A m : m \in ms \cup unread \cup ahead <=> m \in ms \/ m \in unread \/ m \in ahead
  OBVIOUS
<1> QED
  BY <1>1, <1>2, <1>3, <1>4, <1>5, <1>6, <1>7 DEF add, calls, backend

\* A procedure has a breaking entry just if somebody calls or documents it and the
\* backend lacks it; one that is called and served is bridged.
LEMMA BreakingEntries ==
  ASSUME NEW w, NEW authority, "bridge" \in w.enabled
  PROVE  LET calls == extractSwiftTrpcCalls(w.candidates)
             called == {c.key : c \in calls}
             backend == extractBackendProcedureRefs(w)
             bridge == analyzeSwiftTrpcBridge(w, authority)
         IN /\ {m.key : m \in {x \in bridge.mismatches : x.severity = "breaking"}}
                 = (called \cup authority.procedures) \ backend
            /\ {b.route : b \in bridge.bridges} = called \cap backend
            /\ {m.key : m \in {x \in bridge.mismatches :
                                 x.kind = "missing-procedure" /\ x.severity = "warning"}}
                 = backend \ authority.procedures
            /\ \A m \in bridge.mismatches : m.severity = "breaking" =>
                 m.kind = "obsolete-call" \/ m.key \in authority.procedures \ backend
<1> DEFINE calls == extractSwiftTrpcCalls(w.candidates)
           called == {c.key : c \in calls}
           backend == extractBackendProcedureRefs(w)
           bridge == analyzeSwiftTrpcBridge(w, authority)
           add(c) == analyzeCall(c, backend, authority)
           docs == authority.procedures
           Unserved(m) == \E k \in backend \ docs :
                            m = mismatch("missing-procedure", "warning", k, <<"backend">>)
           Ahead(m) == \E k \in docs \ backend :
                            m = mismatch("missing-procedure", "breaking", k, <<"docs">>)
<1>1. /\ \A b : b \in bridge.bridges <=> \E c \in calls : b \in add(c).bridges
      /\ \A m : m \in bridge.mismatches <=> (\E c \in calls : m \in add(c).mismatches) \/ Unserved(m) \/ Ahead(m)
  BY BridgeParts
<1>2. \A c : c.key \notin backend =>
        /\ add(c).bridges = {}
        /\ add(c).mismatches = {mismatch("obsolete-call", "breaking", c.key, <<c.file>>)}
  BY ObsoleteCall
<1>3. \A c : c.key \in backend =>
        /\ add(c).bridges # {}
        /\ \A b \in add(c).bridges : b.route = c.key
        /\ add(c).mismatches = payloadMismatches(c, authority) \cup
             (IF c.key \in docs THEN {}
              ELSE {mismatch("missing-procedure", "warning", c.key, <<"both", c.file>>)})
  <2> SUFFICES ASSUME NEW c, c.key \in backend
               PROVE  /\ add(c).bridges # {}
                      /\ \A b \in add(c).bridges : b.route = c.key
                      /\ add(c).mismatches = payloadMismatches(c, authority) \cup
                           (IF c.key \in docs THEN {}
                            ELSE {mismatch("missing-procedure", "warning", c.key, <<"both", c.file>>)})
    OBVIOUS
  <2> HIDE DEF backend
  <2> QED
    BY KnownCall
<1>4. \A c : \A m \in payloadMismatches(c, authority) :
        m.severity # "breaking" /\ m.kind # "missing-procedure"
  BY PayloadEntries
<1>5. \A k, about, kind, level : /\ mismatch(kind, level, k, about).key = k
                                     /\ mismatch(kind, level, k, about).kind = kind
                                     /\ mismatch(kind, level, k, about).severity = level
  BY DEF mismatch
<1> HIDE DEF calls, backend, add, bridge, docs
<1>6. \A c : \A m \in add(c).mismatches :
        /\ m.severity = "breaking" => c.key \notin backend /\ m.key = c.key /\ m.kind = "obsolete-call"
        /\ m.kind = "missing-procedure" /\ m.severity = "warning" => c.key \in backend \ docs /\ m.key = c.key
  <2> SUFFICES ASSUME NEW c, NEW m \in add(c).mismatches
               PROVE  /\ m.severity = "breaking" => c.key \notin backend /\ m.key = c.key /\ m.kind = "obsolete-call"
                      /\ m.kind = "missing-procedure" /\ m.severity = "warning" =>
                           c.key \in backend \ docs /\ m.key = c.key
    OBVIOUS
  <2>1. CASE c.key \notin backend
    <3> DEFINE e == mismatch("obsolete-call", "breaking", c.key, <<c.file>>)
    <3>1. e.severity = "breaking" /\ e.key = c.key /\ e.kind = "obsolete-call"
      BY <1>5
    <3> HIDE DEF e
    <3>2. m = e
      BY <1>2, <2>1 DEF e
    <3> QED
      BY <2>1, <3>1, <3>2
  <2>2. CASE c.key \in backend
    <3> DEFINE e == mismatch("missing-procedure", "warning", c.key, <<"both", c.file>>)
    <3>1. e.severity = "warning" /\ e.key = c.key
      BY <1>5
    <3> HIDE DEF e
    <3>2. m \in payloadMismatches(c, authority) \/ (c.key \notin docs /\ m = e)
      BY <1>3, <2>2 DEF e
    <3> QED
      BY <1>4, <2>2, <3>1, <3>2
  <2> QED
    BY <2>1, <2>2
<1>7. \A c : c.key \notin backend => \E m \in add(c).mismatches : m.severity = "breaking" /\ m.key = c.key
  <2> SUFFICES ASSUME NEW c, c.key \notin backend
               PROVE  \E m \in add(c).mismatches : m.severity = "breaking" /\ m.key = c.key
    OBVIOUS
  <2> DEFINE m == mismatch("obsolete-call", "breaking", c.key, <<c.file>>)
  <2>1. m.severity = "breaking" /\ m.key = c.key
    BY <1>5
  <2> HIDE DEF m
  <2>2. m \in add(c).mismatches
    BY <1>2 DEF m
  <2> QED
    BY <2>1, <2>2
<1>8. \A m : Unserved(m) => m.key \in backend \ docs /\ m.kind = "missing-procedure" /\ m.severity = "warning"
  BY <1>5
<1>9. \A m : Ahead(m) => m.key \in docs \ backend /\ m.severity = "breaking"
  BY <1>5
<1>10. \A k \in backend \ docs : \E m : Unserved(m) /\ m.key = k /\ m.kind = "missing-procedure" /\ m.severity = "warning"
  <2> SUFFICES ASSUME NEW k \in backend \ docs
               PROVE  \E m : Unserved(m) /\ m.key = k /\ m.kind = "missing-procedure" /\ m.severity = "warning"
    OBVIOUS
  <2> WITNESS mismatch("missing-procedure", "warning", k, <<"backend">>)
  <2> QED
    BY <1>5
<1>11. \A k \in docs \ backend : \E m : Ahead(m) /\ m.key = k /\ m.severity = "breaking"
  <2> SUFFICES ASSUME NEW k \in docs \ backend
               PROVE  \E m : Ahead(m) /\ m.key = k /\ m.severity = "breaking"
    OBVIOUS
  <2> WITNESS mismatch("missing-procedure", "breaking", k, <<"docs">>)
  <2> QED
    BY <1>5
<1> HIDE DEF Unserved, Ahead
<1>12. {m.key : m \in {x \in bridge.mismatches : x.severity = "breaking"}} = (called \cup docs) \ backend
  <2>1. \A m \in bridge.mismatches : m.severity = "breaking" => m.key \in (called \cup docs) \ backend
    BY <1>1, <1>6, <1>8, <1>9
  <2>2. \A k \in (called \cup docs) \ backend : \E m \in bridge.mismatches : m.severity = "breaking" /\ m.key = k
    BY <1>1, <1>7, <1>11
  <2> QED
    BY <2>1, <2>2
<1>13. {b.route : b \in bridge.bridges} = called \cap backend
  <2>1. \A b \in bridge.bridges : b.route \in called \cap backend
    <3> SUFFICES ASSUME NEW b \in bridge.bridges PROVE b.route \in called \cap backend
      OBVIOUS
    <3>1. PICK c \in calls : b \in add(c).bridges
      BY <1>1
    <3>2. c.key \in backend
      BY <1>2, <3>1
    <3> QED
      BY <1>3, <3>1, <3>2
  <2>2. \A k \in called \cap backend : \E b \in bridge.bridges : b.route = k
    BY <1>1, <1>3
  <2> QED
    BY <2>1, <2>2
<1>14. {m.key : m \in {x \in bridge.mismatches : x.kind = "missing-procedure" /\ x.severity = "warning"}}
         = backend \ docs
  <2>1. \A m \in bridge.mismatches :
          m.kind = "missing-procedure" /\ m.severity = "warning" => m.key \in backend \ docs
    BY <1>1, <1>6, <1>8, <1>9
  <2>2. \A k \in backend \ docs : \E m \in bridge.mismatches :
          m.kind = "missing-procedure" /\ m.severity = "warning" /\ m.key = k
    BY <1>1, <1>10
  <2> QED
    BY <2>1, <2>2
<1>15. \A m \in bridge.mismatches : m.severity = "breaking" =>
         m.kind = "obsolete-call" \/ m.key \in docs \ backend
  BY <1>1, <1>6, <1>8, <1>9
<1> QED
  BY <1>12, <1>13, <1>14, <1>15 DEF calls, backend, bridge, docs

\* A procedure that is only to be found in the manifest is not called obsolete when
\* the router index cannot be read.
LEMMA FallbackServes ==
  ASSUME NEW w, ~w.index
  PROVE  extractBackendProcedureRefs(w) = {m.key : m \in {x \in w.manifest : x.inRoot}}
  BY DEF extractBackendProcedureRefs

\* What the docs authority declares is what its files say, once they are loaded.
LEMMA LoadedAuthority ==
  ASSUME NEW w, loadAuthorityState(w).loaded
  PROVE  /\ loadAuthorityState(w).procedures = w.docs.procedures
         /\ loadAuthorityState(w).bootstrap = w.docs.bootstrap
         /\ loadAuthorityState(w).blocked = w.docs.blocked
<1>1. NoAuthority.loaded = FALSE
  BY DEF NoAuthority
<1> QED
  BY <1>1 DEF loadAuthorityState

\* Without drift the surfaces agree, and nothing blocked is in use.
LEMMA NoDrift ==
  ASSUME NEW w, NEW authority, NEW backend, NEW calls, authority.loaded,
         analyzeAuthorityDrift(w, authority, backend, calls) = {}
  PROVE  /\ authority.procedures \ backend = {} /\ backend \ authority.procedures = {}
         /\ calls # {} => ~authority.bootstrap /\ "backend calls" \notin authority.blocked
<1> DEFINE
      phase == IF ~authority.bootstrap THEN {}
               ELSE (IF w.manyExports \/ calls # {} THEN {drift("breaking", "phase lags iOS")} ELSE {})
                    \cup (IF w.manifest # {} THEN {drift("breaking", "phase lags backend")} ELSE {})
      blocks ==
        (IF "backend calls" \in authority.blocked /\ calls # {}
         THEN {drift("breaking", "iOS calls are blocked")} ELSE {})
        \cup (IF {"integration work", "api endpoints"} \cap authority.blocked # {} /\ backend # {}
              THEN {drift("breaking", "backend integration is blocked")} ELSE {})
      surface ==
        (IF authority.procedures \ backend # {} THEN {drift("warning", "docs ahead")} ELSE {})
        \cup (IF backend \ authority.procedures # {} THEN {drift("warning", "backend exceeds")} ELSE {})
<1>1. phase \cup blocks \cup surface = {}
  BY DEF analyzeAuthorityDrift
<1>2. phase = {} /\ blocks = {} /\ surface = {}
  <2> HIDE DEF phase, blocks, surface
  <2> QED
    BY <1>1
<1>3. calls # {} => ~authority.bootstrap
  BY <1>2
<1>4. calls # {} => "backend calls" \notin authority.blocked
  BY <1>2
<1>5. authority.procedures \ backend = {} /\ backend \ authority.procedures = {}
  BY <1>2
<1> QED
  BY <1>3, <1>4, <1>5

------------------------------------------------------------------------------
(* Enrichment. *)

\* The bridges and the findings of the calls, each next to what speaks against it.
LEMMA BridgesExplained ==
  ASSUME NEW w, NEW authority, "bridge" \in w.enabled
  PROVE  LET calls == extractSwiftTrpcCalls(w.candidates)
             backend == extractBackendProcedureRefs(w)
             bridge == analyzeSwiftTrpcBridge(w, authority)
         IN /\ \A b \in bridge.bridges :
                 /\ b.status = "exact" => b.route \in authority.procedures
                 /\ b.status # "exact" => \E m \in bridge.mismatches :
                      m.key = b.route /\ m.severity = "warning" /\ m.about[Len(m.about)] = b.file
            /\ \A f \in bridge.findings : \E c \in calls :
                 c.line = f.line /\ c.file = f.file /\ (f.severity = "breaking" <=> c.key \notin backend)
<1> DEFINE calls == extractSwiftTrpcCalls(w.candidates)
           backend == extractBackendProcedureRefs(w)
           bridge == analyzeSwiftTrpcBridge(w, authority)
           add(c) == analyzeCall(c, backend, authority)
<1>1. /\ \A b : b \in bridge.bridges <=> \E c \in calls : b \in add(c).bridges
      /\ \A f : f \in bridge.findings <=> \E c \in calls : f \in add(c).findings
      /\ \A c \in calls : \A m \in add(c).mismatches : m \in bridge.mismatches
  <2>1. /\ \A b : b \in bridge.bridges <=> \E c \in calls : b \in add(c).bridges
        /\ \A f : f \in bridge.findings <=> \E c \in calls : f \in add(c).findings
        /\ \A m : m \in bridge.mismatches <=>
                 \/ \E c \in calls : m \in add(c).mismatches
                 \/ \E k \in backend \ authority.procedures :
                      m = mismatch("missing-procedure", "warning", k, <<"backend">>)
                 \/ \E k \in authority.procedures \ backend :
                      m = mismatch("missing-procedure", "breaking", k, <<"docs">>)
    BY BridgeParts
  <2> HIDE DEF calls, backend, bridge, add
  <2> QED
    BY <2>1
<1> HIDE DEF calls, backend, bridge
<1>2. \A c : c.key \in backend =>
        /\ \A b \in add(c).bridges :
             /\ b.route = c.key /\ b.file = c.file
             /\ b.status = "exact" => c.key \in authority.procedures
             /\ b.status # "exact" => \E m \in add(c).mismatches :
                  m.key = c.key /\ m.severity = "warning" /\ m.about[Len(m.about)] = c.file
        /\ \A f \in add(c).findings : f.severity = "warning" /\ f.file = c.file /\ f.line = c.line
  <2> SUFFICES ASSUME NEW c, c.key \in backend
               PROVE  /\ \A b \in add(c).bridges :
                           /\ b.route = c.key /\ b.file = c.file
                           /\ b.status = "exact" => c.key \in authority.procedures
                           /\ b.status # "exact" => \E m \in add(c).mismatches :
                                m.key = c.key /\ m.severity = "warning" /\ m.about[Len(m.about)] = c.file
                      /\ \A f \in add(c).findings :
                           f.severity = "warning" /\ f.file = c.file /\ f.line = c.line
    OBVIOUS
  <2> DEFINE a == analyzeCall(c, backend, authority)
  <2>1. \A b \in a.bridges :
             /\ b.route = c.key /\ b.file = c.file
             /\ b.status = "exact" => c.key \in authority.procedures
             /\ b.status # "exact" => \E m \in a.mismatches :
                  m.key = c.key /\ m.severity = "warning" /\ m.about[Len(m.about)] = c.file
    BY KnownBridges
  <2>2. \A f \in a.findings : f.severity = "warning" /\ f.file = c.file /\ f.line = c.line
    BY KnownFindings
  <2> QED
    BY <2>1, <2>2
<1>3. \A c : c.key \notin backend =>
        /\ add(c).bridges = {}
        /\ \A f \in add(c).findings : f.severity = "breaking" /\ f.file = c.file /\ f.line = c.line
  <2> SUFFICES ASSUME NEW c, c.key \notin backend
               PROVE  /\ add(c).bridges = {}
                      /\ \A f \in add(c).findings :
                           f.severity = "breaking" /\ f.file = c.file /\ f.line = c.line
    OBVIOUS
  <2>1. /\ add(c).bridges = {}
        /\ add(c).findings = {finding("bridge_obsolete_call", "breaking", "obsolete", c)}
    BY ObsoleteCall
  <2> QED
    BY <2>1 DEF finding
<1> HIDE DEF add
<1>4. ASSUME NEW b \in bridge.bridges
      PROVE  /\ b.status = "exact" => b.route \in authority.procedures
             /\ b.status # "exact" => \E m \in bridge.mismatches :
                  m.key = b.route /\ m.severity = "warning" /\ m.about[Len(m.about)] = b.file
  <2>1. PICK c \in calls : b \in add(c).bridges
    BY <1>1
  <2>2. c.key \in backend
    BY <1>3, <2>1
  <2> QED
    BY <1>1, <1>2, <2>1, <2>2
<1>5. ASSUME NEW f \in bridge.findings
      PROVE  \E c \in calls :
               c.line = f.line /\ c.file = f.file /\ (f.severity = "breaking" <=> c.key \notin backend)
  <2>1. PICK c \in calls : f \in add(c).findings
    BY <1>1
  <2> QED
    BY <1>2, <1>3, <2>1
<1> QED
  BY <1>4, <1>5 DEF calls, backend, bridge

\* What enrichGraphForConfig leaves in the graph.
Enriched(w) ==
  LET authority == loadAuthorityState(w)
      bridge == analyzeSwiftTrpcBridge(w, authority)
  IN /\ enriched.done
     /\ enriched.authority = authority
     /\ enriched.bridges = bridge.bridges
     /\ enriched.mismatches = bridge.mismatches
     /\ enriched.findings = analyzeAuthorityDrift(w, authority, bridge.backend, bridge.calls)
     /\ enriched.calls = bridge.findings

LEMMA EnrichedReconciles ==
  ASSUME workspace \in Workspace, Enriched(workspace)
  PROVE  SurfacesReconciled
<1> SUFFICES ASSUME "bridge" \in workspace.enabled PROVE SurfacesReconciled
  BY DEF SurfacesReconciled
<1> DEFINE authority == loadAuthorityState(workspace)
           calls == extractSwiftTrpcCalls(workspace.candidates)
           called == {c.key : c \in calls}
           backend == extractBackendProcedureRefs(workspace)
           bridge == analyzeSwiftTrpcBridge(workspace, authority)
           documented == enriched.authority.procedures
           breaking == {m.key : m \in {x \in enriched.mismatches : x.severity = "breaking"}}
           against(b) == {m \in enriched.mismatches :
                            m.key = b.route /\ m.severity = "warning" /\ m.about[Len(m.about)] = b.file}
           bridged == {b.route : b \in enriched.bridges}
           warned == {m.key : m \in {x \in enriched.mismatches :
                                       x.kind = "missing-procedure" /\ x.severity = "warning"}}
           inManifest == {m.key : m \in {x \in workspace.manifest : x.inRoot}}
<1>1. /\ enriched.authority = authority /\ enriched.bridges = bridge.bridges
      /\ enriched.mismatches = bridge.mismatches /\ enriched.calls = bridge.findings
  BY DEF Enriched
<1>2. /\ breaking = (called \cup documented) \ backend
      /\ bridged = called \cap backend
      /\ warned = backend \ documented
  BY <1>1, BreakingEntries
<1>3. legible /\ served # {} => backend = served
  BY LegibleBackend
<1>4. ~workspace.index => backend = inManifest
  BY FallbackServes
<1>5. /\ \A b \in enriched.bridges :
           /\ b.status = "exact" => b.route \in documented
           /\ b.status # "exact" => \E m \in enriched.mismatches :
                m.key = b.route /\ m.severity = "warning" /\ m.about[Len(m.about)] = b.file
      /\ \A f \in enriched.calls : \E c \in calls :
           c.line = f.line /\ c.file = f.file /\ (f.severity = "breaking" <=> c.key \notin backend)
  BY <1>1, BridgesExplained
<1>6. \A c \in calls : c.key \in called
  OBVIOUS
<1> HIDE DEF calls, called, backend, documented, breaking, bridged, warned, inManifest, authority, bridge
<1>7. \A b \in enriched.bridges : /\ b.status = "exact" => b.route \in documented
                                  /\ against(b) = {} => b.status = "exact"
                                  /\ b.status = "mismatch" => against(b) # {}
  <2> SUFFICES ASSUME NEW b \in enriched.bridges
               PROVE  /\ b.status = "exact" => b.route \in documented
                      /\ against(b) = {} => b.status = "exact"
                      /\ b.status = "mismatch" => against(b) # {}
    OBVIOUS
  <2>1. b.status # "exact" => against(b) # {}
    BY <1>5
  <2> QED
    BY <1>5, <2>1
<1> HIDE DEF against
<1>8. \A f \in enriched.calls : \E c \in calls :
        c.line = f.line /\ c.file = f.file /\ (f.severity = "breaking" <=> c.key \in breaking)
  BY <1>2, <1>5, <1>6
<1>9. /\ legible /\ served # {} => /\ breaking = (called \cup documented) \ served
                                   /\ bridged = called \cap served
                                   /\ served \ documented = warned
      /\ ~workspace.index => breaking \cap inManifest = {}
      /\ breaking \cap bridged = {}
  BY <1>2, <1>3, <1>4
<1> QED
  BY <1>7, <1>8, <1>9
  DEF SurfacesReconciled, calls, called, documented, breaking, bridged, warned, inManifest, against

LEMMA EnrichedFindsDrift ==
  ASSUME Enriched(workspace)
  PROVE  DriftIsFound
<1> SUFFICES ASSUME enriched.authority.loaded, enriched.findings = {} PROVE DriftIsFound
  BY DEF DriftIsFound
<1> DEFINE authority == loadAuthorityState(workspace)
           bridge == analyzeSwiftTrpcBridge(workspace, authority)
           backend == extractBackendProcedureRefs(workspace)
           on == "bridge" \in workspace.enabled
           calls == IF on THEN extractSwiftTrpcCalls(workspace.candidates) ELSE {}
<1>1. /\ authority.loaded /\ enriched.mismatches = bridge.mismatches
      /\ analyzeAuthorityDrift(workspace, authority, bridge.backend, bridge.calls) = {}
  BY DEF Enriched
<1>2. /\ authority.procedures = workspace.docs.procedures
      /\ authority.bootstrap = workspace.docs.bootstrap
      /\ authority.blocked = workspace.docs.blocked
  BY <1>1, LoadedAuthority
<1>3. /\ on => bridge.backend = backend
      /\ bridge.calls = calls
  <2>1. CASE on
    BY <2>1, BridgeParts
  <2>2. CASE ~on
    BY <2>2 DEF analyzeSwiftTrpcBridge, nothing
  <2> QED
    BY <2>1, <2>2, SMTT(30)
<1>4. /\ authority.procedures \ bridge.backend = {} /\ bridge.backend \ authority.procedures = {}
      /\ bridge.calls # {} => ~authority.bootstrap /\ "backend calls" \notin authority.blocked
  <2> HIDE DEF authority, bridge, backend
  <2> QED
    BY <1>1, NoDrift
<1>5. \A m \in bridge.mismatches : m.severity = "breaking" => m.kind = "obsolete-call"
  <2>1. CASE on
    <3>1. \A m \in bridge.mismatches : m.severity = "breaking" =>
            m.kind = "obsolete-call" \/ m.key \in authority.procedures \ backend
      BY <2>1, BreakingEntries
    <3> HIDE DEF authority, bridge, backend
    <3> QED
      BY <1>3, <1>4, <2>1, <3>1
  <2>2. CASE ~on
    BY <2>2 DEF analyzeSwiftTrpcBridge, nothing
  <2> QED
    BY <2>1, <2>2
<1> HIDE DEF authority, bridge, backend
<1> HIDE DEF on
<1>6. on => backend = workspace.docs.procedures
  <2>1. bridge.backend = authority.procedures
    BY <1>4
  <2> QED
    BY <1>2, <1>3, <2>1
<1>7. calls # {} => ~workspace.docs.bootstrap /\ "backend calls" \notin workspace.docs.blocked
  BY <1>2, <1>3, <1>4
<1> QED
  BY <1>1, <1>5, <1>6, <1>7 DEF DriftIsFound, backend, on

ReconciledInv == workspace \in Workspace /\ BridgeReconciled

\* Client, backend and docs are reconciled whatever the workspace contains: every
\* procedure that is called or documented and not served has a breaking entry and no
\* other has, and drift that gates the application of plans is found.
THEOREM ReconciledCorrect == BridgeSpec => []BridgeReconciled
<1>1. BridgeInit => ReconciledInv
  <2> SUFFICES ASSUME BridgeInit PROVE ReconciledInv
    OBVIOUS
  <2>1. ~enriched.done
    BY DEF BridgeInit, NotYet
  <2> QED
    BY <2>1 DEF BridgeInit, ReconciledInv, BridgeReconciled, SurfacesReconciled, DriftIsFound
<1>2. ReconciledInv /\ [enrichGraphForConfig]_bridgeVars => ReconciledInv'
  <2> SUFFICES ASSUME ReconciledInv, [enrichGraphForConfig]_bridgeVars PROVE ReconciledInv'
    OBVIOUS
  <2>1. CASE enrichGraphForConfig
    <3>1. workspace' = workspace
      BY <2>1 DEF enrichGraphForConfig
    <3>2. Enriched(workspace)'
      BY <2>1, <3>1 DEF enrichGraphForConfig, Enriched
    <3>3. (workspace \in Workspace)'
      BY <3>1 DEF ReconciledInv
    <3>4. SurfacesReconciled'
      BY <3>2, <3>3, EnrichedReconciles, PTL
    <3>5. DriftIsFound'
      BY <3>2, EnrichedFindsDrift, PTL
    <3> QED
      BY <3>3, <3>4, <3>5 DEF ReconciledInv, BridgeReconciled
  <2>2. CASE UNCHANGED bridgeVars
    BY <2>2 DEF bridgeVars, ReconciledInv, BridgeReconciled, SurfacesReconciled, DriftIsFound,
                served, legible
  <2> QED
    BY <2>1, <2>2
<1>3. ReconciledInv => BridgeReconciled
  BY DEF ReconciledInv
<1> QED
  BY <1>1, <1>2, <1>3, PTL DEF BridgeSpec
=============================================================================
