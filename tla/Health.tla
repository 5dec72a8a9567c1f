------------------------------- MODULE Health -------------------------------
(***************************************************************************)
(* The health scores of repositories and of their ecosystem, in percent.   *)
(***************************************************************************)
EXTENDS Integers, Sequences, Reductions

CONSTANTS
  Portfolio,  \* sequences of repositories
  NoReport    \* no coverage is known

VARIABLE health

Role == {"backend-api", "ios-client", "product-governance", "default"}

\* What a scan counts in a repository, and the percentage its coverage report gives.
ScannedRepo == [role : Role, todo : Nat, dead : Nat, exports : Nat,
                test : (0 .. 100) \cup {NoReport}, lint : Nat, types : Nat]

ASSUME PortfolioType == Portfolio \subseteq Seq(ScannedRepo)

NoHealth == [pc |-> "idle"]

------------------------------------------------------------------------------
ROLE_WEIGHTS == [role \in Role |->
  CASE role = "backend-api"        -> [test |-> 25, quality |-> 35, dead |-> 25, todo |-> 15]
    [] role = "ios-client"         -> [test |-> 25, quality |-> 30, dead |-> 25, todo |-> 20]
    [] role = "product-governance" -> [test |-> 0, quality |-> 20, dead |-> 30, todo |-> 50]
    [] role = "default"            -> [test |-> 30, quality |-> 25, dead |-> 25, todo |-> 20]]

\* round(30 * log2(n + 1)) for n = 1, 2, ...
TodoPenalty == <<30, 48, 60, 70, 78, 84, 90, 95, 100>>

scoreTodos(n) == IF n = 0 THEN 100 ELSE IF n > Len(TodoPenalty) THEN 0 ELSE 100 - TodoPenalty[n]

\* The nearest integer of a / b, halves up.
rounded(a, b) == (2 * a + b) \div (2 * b)

scoreDeadCode(dead, exports) ==
  IF exports = 0 \/ dead = 0 THEN 100
  ELSE IF dead >= exports THEN 0 ELSE rounded(100 * (exports - dead), exports)

unreported(role) == IF role \in {"ios-client", "product-governance"} THEN 100 ELSE 60

\* round(100 * sqrt(coverage / 100)).
scaled(coverage) ==
  CHOOSE s \in 0 .. 100 : /\ s = 0 \/ (2 * s - 1) * (2 * s - 1) <= 400 * coverage
                          /\ 400 * coverage < (2 * s + 1) * (2 * s + 1)

\* Mutant: nothing covered is taken for nothing reported.
scoreTestsUnlessZero(coverage, role) ==
  IF coverage \in {NoReport, 0} THEN unreported(role) ELSE scaled(coverage)

scoreTests(coverage, role) ==
  IF coverage = NoReport THEN unreported(role) ELSE scaled(coverage)

scoreQuality(lint, types) == IF 2 * lint + 4 * types >= 100 THEN 0 ELSE 100 - 2 * lint - 4 * types

\* What the code does to keep this between 0 and 100 is never needed: see HealthFair.
scoreHealth(r) ==
  LET w == ROLE_WEIGHTS[r.role]
  IN rounded(scoreTodos(r.todo) * w.todo + scoreDeadCode(r.dead, r.exports) * w.dead
             + scoreTests(r.test, r.role) * w.test + scoreQuality(r.lint, r.types) * w.quality, 100)

HealthInit == \E p \in Portfolio : health = [pc |-> "asked", repos |-> p, perRepo |-> <<>>, overall |-> 0]

scoreEcosystemHealth ==
  /\ health.pc = "asked"
  /\ LET scores == [i \in DOMAIN health.repos |-> scoreHealth(health.repos[i])]
     IN health' = [health EXCEPT !.pc = "scored", !.perRepo = scores,
                     !.overall = IF scores = <<>> THEN 0 ELSE rounded(sum(scores), Len(scores))]

HealthSpec == HealthInit /\ [][scoreEcosystemHealth]_health

------------------------------------------------------------------------------
(* Properties. *)

\* One repository is no worse than another of its role and size in anything.
noWorse(a, b) ==
  /\ a.role = b.role /\ a.exports = b.exports
  /\ \/ a.test = b.test
     \/ NoReport \notin {a.test, b.test} /\ a.test >= b.test
  /\ a.todo <= b.todo /\ a.dead <= b.dead /\ a.lint <= b.lint /\ a.types <= b.types

\* A repository that is no worse than another of its role in anything does not
\* score lower (scoreHealth, for all that is rounded, capped and weighted on the way),
\* scores are percentages, and the ecosystem lies between its repositories
\* (scoreEcosystemHealth).
HealthFair ==
  health.pc = "scored" =>
    /\ \A i, j \in DOMAIN health.repos :
         noWorse(health.repos[i], health.repos[j]) => health.perRepo[i] >= health.perRepo[j]
    /\ \A i \in DOMAIN health.repos : health.perRepo[i] \in 0 .. 100
    /\ health.repos # <<>> =>
         \E i, j \in DOMAIN health.repos :
           health.perRepo[i] <= health.overall /\ health.overall <= health.perRepo[j]
=============================================================================
