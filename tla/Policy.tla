------------------------------- MODULE Policy -------------------------------
(***************************************************************************)
(* The gates of the control plane, as operators over a configuration        *)
(* record: engine/policy/index.ts, the risk helpers of engine/review and    *)
(* the pre-flight conditions of engine/execution.  No state: ControlPlane   *)
(* evaluates them when a plan is generated and when it is applied.          *)
(*                                                                          *)
(* A configuration keeps the fields the gates read:                         *)
(*   policiesEnabled, forbidDirectMainMutation, baseProtected (the base     *)
(*   branch is listed in protectedBranches), maxAllowedRisk (or "none"),    *)
(*   requiredOwners, forbidDestructiveChanges, phaseMode, simulateOnly,     *)
(*   dryRunByDefault (FALSE only when the field is literally false),        *)
(*   automationEnabled, allowedRiskTiers, createPullRequest.                *)
(* What a scan says of the world keeps: drift (some authority_drift         *)
(* finding), risk (the level scoreRisk computes) and owners.                *)
(***************************************************************************)
EXTENDS Integers, FiniteSets

CONSTANT Owner

RiskLevel == {"low", "medium", "high", "critical"}

RISK_ORDER == [level \in RiskLevel |->
                 CASE level = "low"      -> 0
                   [] level = "medium"   -> 1
                   [] level = "high"     -> 2
                   [] level = "critical" -> 3]

PhaseMode == {"reconciliation", "strict"}

ConfigType ==
  [policiesEnabled          : BOOLEAN,
   forbidDirectMainMutation : BOOLEAN,
   baseProtected            : BOOLEAN,
   maxAllowedRisk           : RiskLevel \cup {"none"},
   requiredOwners           : SUBSET Owner,
   forbidDestructiveChanges : BOOLEAN,
   phaseMode                : PhaseMode,
   simulateOnly             : BOOLEAN,
   dryRunByDefault          : BOOLEAN,
   automationEnabled        : BOOLEAN,
   allowedRiskTiers         : SUBSET RiskLevel,
   createPullRequest        : BOOLEAN]

WorldType == [drift : BOOLEAN, risk : RiskLevel, owners : SUBSET Owner]

PolicyId == {"protected-branch", "risk-threshold", "required-owners",
             "destructive-change", "authority-drift", "policy-default"}

Decision == [policyId : PolicyId, status : {"passed", "warning", "blocked"}]

(***************************************************************************)
(* evaluatePolicies: the decisions as a set (their order carries nothing).  *)
(* Nothing at all is decided unless policies are enabled.                   *)
(***************************************************************************)
evaluatePolicies(config, risk, owners, destructive, authorityDrift) ==
  LET blocks(id) ==
        CASE id = "protected-branch" ->
               config.forbidDirectMainMutation /\ config.baseProtected
          [] id = "risk-threshold" ->
               /\ config.maxAllowedRisk # "none"
               /\ RISK_ORDER[risk] > RISK_ORDER[config.maxAllowedRisk]
          [] id = "destructive-change" ->
               config.forbidDestructiveChanges /\ destructive
          [] id = "authority-drift" -> authorityDrift
          [] OTHER -> FALSE
      warns(id) == id = "required-owners" /\ config.requiredOwners \ owners # {}
      quiet == \A id \in PolicyId : ~blocks(id) /\ ~warns(id)
  IN  {d \in Decision :
         /\ config.policiesEnabled
         /\ CASE d.status = "blocked" -> blocks(d.policyId)
              [] d.status = "warning" -> warns(d.policyId)
              [] d.status = "passed"  -> d.policyId = "policy-default" /\ quiet}

policiesBlock(decisions) == \E d \in decisions : d.status = "blocked"

\* Mutant: the name of a status instead of a level.
mergeRiskReportsStatus(risk, blocked) ==
  IF blocked /\ RISK_ORDER[risk] < RISK_ORDER["high"] THEN "blocked" ELSE risk

\* A blocked review never reports less than high risk.
mergeRiskReports(risk, blocked) ==
  IF blocked /\ RISK_ORDER[risk] < RISK_ORDER["high"] THEN "high" ELSE risk

\* The plan kinds changePlansFromGraph can produce; "provider-migration", the
\* only kind createExecutionPlan counts as destructive, is not among them.
PlanKind == {"schema-sync", "consumer-update", "docs-update", "config-update"}

destructiveChange(kinds) == "provider-migration" \in kinds

\* createExecutionPlan's verdict: drift is passed whatever the phase mode.
planBlocked(config, world) ==
  policiesBlock(evaluatePolicies(config, world.risk, world.owners,
                                 destructiveChange(PlanKind), world.drift))

\* Mutant: the phase modes swapped.
reviewDecisionsSwapped(config, world) ==
  evaluatePolicies(config, world.risk, world.owners, FALSE,
                   config.phaseMode = "reconciliation" /\ world.drift)

\* reviewPr's own evaluation: drift is passed in strict mode only.
reviewDecisions(config, world) ==
  evaluatePolicies(config, world.risk, world.owners, FALSE,
                   config.phaseMode = "strict" /\ world.drift)

riskTierAllowed(tiers, risk) ==
  tiers = {} \/ \E t \in tiers : RISK_ORDER[risk] <= RISK_ORDER[t]

\* Mutant: the plan's verdict is not looked at.
mayExecuteBlocked(config, blocked, risk) ==
  /\ ~config.simulateOnly
  /\ ~config.dryRunByDefault
  /\ config.automationEnabled
  /\ riskTierAllowed(config.allowedRiskTiers, risk)

\* The conditions applyExecutionPlan checks before it touches a repository.
mayExecute(config, blocked, risk) ==
  /\ ~config.simulateOnly
  /\ ~config.dryRunByDefault
  /\ ~blocked
  /\ config.automationEnabled
  /\ riskTierAllowed(config.allowedRiskTiers, risk)
=============================================================================
