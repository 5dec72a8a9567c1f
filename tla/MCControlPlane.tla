--------------------------- MODULE MCControlPlane ---------------------------
(* Small instances of ControlPlane.  A behaviour of MCSpec is in one of two *)
(* modes from its start: one command at a time and none killed, over two     *)
(* configurations and two trees with one signature, or two racing commands   *)
(* with a kill, over one configuration and two trees that differ.            *)
EXTENDS ControlPlane, TLC

CONSTANTS clean, edited, drifted, qa

\* Automation on and dry-run off, policies on, the base branch not protected.
Open == [policiesEnabled |-> TRUE, forbidDirectMainMutation |-> TRUE,
         baseProtected |-> FALSE, maxAllowedRisk |-> "medium",
         requiredOwners |-> {qa}, forbidDestructiveChanges |-> TRUE,
         phaseMode |-> "reconciliation", simulateOnly |-> FALSE,
         dryRunByDefault |-> FALSE, automationEnabled |-> TRUE,
         allowedRiskTiers |-> {"low", "high"}, createPullRequest |-> FALSE]

Strict == [Open EXCEPT !.phaseMode = "strict"]

OpenOnly == {Open}
OpenOrStrict == {Open, Strict}

\* The commands are interchangeable.
ProcSymmetry == Permutations(Proc)

\* clean: no drift.  drifted: a new commit brought drift.  edited: a file that
\* is dirty in clean edited once more (and drifting): the same signature.
MCFacts ==
  [t \in Tree |->
     CASE t = clean   -> [drift |-> FALSE, risk |-> "low", owners |-> {qa}]
       [] t = edited  -> [drift |-> TRUE, risk |-> "low", owners |-> {}]
       [] t = drifted -> [drift |-> TRUE, risk |-> "high", owners |-> {qa}]]

MCSig == [t \in Tree |-> IF t = drifted THEN "s2" ELSE "s1"]

VARIABLE mode

alone == mode = "alone"

MCInit == /\ Init
          /\ mode \in {"alone", "race"}
          /\ IF alone THEN tree # drifted ELSE config = Open /\ tree # edited

MCNext == /\ Next
          /\ UNCHANGED mode
          /\ IF alone THEN ~disturbed' /\ tree' # drifted
                      ELSE config' = Open /\ tree' # edited /\ nextPlan' <= MaxPlans

MCSpec == MCInit /\ [][MCNext]_<<vars, mode>>
=============================================================================
