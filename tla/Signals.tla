------------------------------ MODULE Signals ------------------------------
(***************************************************************************)
(* Ownership and runtime signals: who owns the repositories of a graph, how *)
(* much the artifacts of their runs weigh, and what risk follows for the   *)
(* graph and for its suggestions.                                          *)
(*                                                                         *)
(* Weights are in thousandths.  A rule is [owner, scope, repo, pattern]:    *)
(* an owner is a name with its kind (team or person), the pattern the set   *)
(* of the names it matches.  An artifact is [form,                          *)
(* of]: missing, unread (there, but nothing can be read from it), json or   *)
(* text, with the numbers found in it.  A title is a number, in the order   *)
(* of the alphabet.                                                        *)
(***************************************************************************)
EXTENDS Integers, Sequences, FiniteSets, Subsequences, Reductions

CONSTANTS
  Setting,  \* [repos, rules, ownership, runtime, bridges, mismatches, impacts, findings, suggestions]
  Nobody,   \* no owner
  Unmeasured

VARIABLE weighed

NotWeighed == [pc |-> "idle"]

------------------------------------------------------------------------------
(* Ownership. *)

\* The files, paths, procedures and packages that a rule of this scope looks at.  A
\* rule of scope "path" looks at every repository, whichever it names.
ruleMatchesManifest(rule, m) ==
  \/ rule.scope = "repo" /\ (rule.repo = m.id \/ m.id \in rule.pattern)
  \/ rule.scope = "path" /\ m.files \cap rule.pattern # {}
  \/ rule.scope = "api" /\ (m.routes \cup m.procedures) \cap rule.pattern # {}
  \/ rule.scope = "package" /\ m.packages \cap rule.pattern # {}

\* Mutant: one rule, one owner, whatever the repository.
dedupeOwnersByRule(owners) ==
  LET key(o) == <<o.owner, o.scope, o.pattern>>
  IN Subsequence(owners, {i \in DOMAIN owners : \A j \in 1 .. i - 1 : key(owners[j]) # key(owners[i])})

dedupeOwners(owners) ==
  LET key(o) == <<o.owner, o.scope, o.repo, o.pattern>>
  IN Subsequence(owners, {i \in DOMAIN owners : \A j \in 1 .. i - 1 : key(owners[j]) # key(owners[i])})

resolveManifestOwners(m, ownership, rules) ==
  LET assigned(rule) == [owner |-> rule.owner, scope |-> rule.scope, repo |-> m.id,
                         pattern |-> rule.pattern]
      matched == Subsequence(rules, {k \in DOMAIN rules :
                                       ownership.enabled /\ ruleMatchesManifest(rules[k], m)})
      default == [owner |-> ownership.defaultOwner, scope |-> "repo", repo |-> m.id,
                  pattern |-> {}]
  IN IF matched # <<>> THEN dedupeOwners([i \in DOMAIN matched |-> assigned(matched[i])])
     ELSE IF ownership.defaultOwner = Nobody THEN <<>> ELSE <<default>>

attachOwnersToGraph(s) ==
  LET owned == [i \in DOMAIN s.repos |-> resolveManifestOwners(s.repos[i], s.ownership, s.rules)]
  IN [byRepo |-> owned, owners |-> dedupeOwners(joined(owned))]

------------------------------------------------------------------------------
(* Signals. *)

capped(n, most) == IF n < 0 THEN 0 ELSE IF n > most THEN most ELSE n

clamp01(n) == capped(n, 1000)

\* What part of `worth` x is of `full`, and no more than all of it.
share(x, full, worth) == (worth * capped(x, full)) \div full

atLeast(n, least) == IF n < least THEN least ELSE n

signal(kind, weight) == [kind |-> kind, weight |-> weight]

null == signal("null", 0)

\* The configured file if it is there, else a known place.
resolveRuntimeArtifactPath(artifact) ==
  IF artifact.configured.form # "missing" THEN artifact.configured ELSE artifact.discovered

coverageSignal(m) ==
  IF m.coverage = Unmeasured THEN null ELSE signal("coverage", clamp01(10 * m.coverage))

externalCoverageSignal(a) ==
  IF a.form = "json" THEN signal("coverage", clamp01(10 * a.of.pct)) ELSE null

testResultsSignal(a) ==
  IF a.form = "json" /\ a.of.passed + a.of.failed > 0
  THEN signal("tests", (1000 * a.of.passed) \div (a.of.passed + a.of.failed)) ELSE null

openApiSignal(a) ==
  IF a.form = "json" THEN signal("openapi", clamp01(300 + 20 * a.of.operations))
  ELSE IF a.form = "text" /\ a.of.operations > 0
  THEN signal("openapi", clamp01(250 + (1000 * a.of.operations) \div 60)) ELSE null

graphQlSignal(a) ==
  IF a.form = "json" /\ a.of.types > 0 THEN signal("graphql", clamp01(250 + 10 * a.of.types))
  ELSE IF a.form = "text" /\ a.of.types > 0
  THEN signal("graphql", clamp01(250 + (1000 * a.of.types) \div 80)) ELSE null

telemetrySignal(a) ==
  LET errorShare == IF a.of.requests > 0 THEN share(5 * a.of.errors, a.of.requests, 250)
                    ELSE share(a.of.errors, 2, 250)
  IN IF a.form = "json" /\ \E n \in DOMAIN a.of : a.of[n] # 0
     THEN signal("telemetry", clamp01(200 + share(a.of.requests, 10000, 400) + errorShare
                                      + share(a.of.incidents, 10, 100) + share(a.of.p95Ms, 2000, 50)))
     ELSE null

traceSignal(a) ==
  IF a.form = "json" /\ \E n \in DOMAIN a.of : a.of[n] # 0
  THEN signal("trace", clamp01(200 + share(a.of.spans, 20000, 350)
                               + share(10 * a.of.slowSpans, atLeast(a.of.spans, 10), 250)
                               + share(20 * a.of.errors, atLeast(a.of.spans, 20), 100)
                               + share(a.of.p95Ms, 2500, 100)))
  ELSE null

\* A file that says nothing still counts as present.
artifactPresenceSignal(a, kind, weight) ==
  IF a.form # "missing" THEN signal(kind, weight) ELSE null

collectRuntimeSignals(m, runtime) ==
  LET a(key) == resolveRuntimeArtifactPath(m.artifacts[key])
      enabled(found) == IF runtime THEN found ELSE null
      orPresent(found, key, weight) ==
        enabled(IF found # null THEN found ELSE artifactPresenceSignal(a(key), key, weight))
      entries == <<coverageSignal(m),
                   enabled(externalCoverageSignal(a("coverage"))),
                   enabled(testResultsSignal(a("tests"))),
                   orPresent(openApiSignal(a("openapi")), "openapi", 650),
                   orPresent(graphQlSignal(a("graphql")), "graphql", 650),
                   orPresent(telemetrySignal(a("telemetry")), "telemetry", 750),
                   orPresent(traceSignal(a("trace")), "trace", 700)>>
  IN Subsequence(entries, {k \in DOMAIN entries : entries[k] # null})

repoRuntimeWeight(signals) ==
  IF signals = <<>> THEN 0
  ELSE sum([k \in DOMAIN signals |-> signals[k].weight]) \div Len(signals)

------------------------------------------------------------------------------
(* Risk. *)

severityWeight == [breaking |-> 100, warning |-> 65, info |-> 25]

percent(weight, severity) == (2 * weight * severityWeight[severity] + 1000) \div 2000

highestSeverity(affected) ==
  IF "breaking" \in affected THEN "breaking" ELSE IF "warning" \in affected THEN "warning" ELSE "info"

\* The risk that the builder of the graph and the bridge gave is replaced.
attachRuntimeSignals(s) ==
  LET signals == [i \in DOMAIN s.repos |-> collectRuntimeSignals(s.repos[i], s.runtime)]
      weight == [i \in DOMAIN s.repos |-> repoRuntimeWeight(signals[i])]
      between(x) == (weight[x.provider] + weight[x.consumer]) \div 2
  IN [signals |-> signals, weight |-> weight,
      bridges |-> [i \in DOMAIN s.bridges |->
                     [s.bridges[i] EXCEPT !.risk = percent(between(s.bridges[i]), "breaking")]],
      mismatches |-> [i \in DOMAIN s.mismatches |->
                        [s.mismatches[i] EXCEPT !.risk = percent(between(s.mismatches[i]),
                                                                 s.mismatches[i].severity)]],
      impacts |-> [i \in DOMAIN s.impacts |->
                     [s.impacts[i] EXCEPT !.risk = percent(weight[s.impacts[i].trigger],
                                                           highestSeverity(s.impacts[i].affected))]],
      findings |-> s.findings]

toRiskLevel(score) == IF score >= 85 THEN "critical" ELSE IF score >= 65 THEN "high"
                      ELSE IF score >= 35 THEN "medium" ELSE "low"

risksOf(items) == [i \in DOMAIN items |-> items[i].risk]

\* The mean over everything there is.
scoreRisk(g) ==
  LET total == sum(risksOf(g.mismatches)) + sum(risksOf(g.impacts))
               + sum(risksOf(g.bridges)) + sum(risksOf(g.findings))
      count == atLeast(Len(g.mismatches) + Len(g.impacts) + Len(g.bridges) + Len(g.findings), 1)
      average == (2 * total + count) \div (2 * count)
  IN [score |-> average, level |-> toRiskLevel(average),
      increased |-> \E i \in DOMAIN g.signals : g.signals[i] # <<>>]

queueForSuggestion(suggestion) ==
  IF suggestion.category \in {"feature", "monetization"} THEN "business-opportunity"
  ELSE IF suggestion.category = "security" THEN "risk-reduction" ELSE "engineering-debt"

\* The greater risk first, then the later title.
comesFirst(x, y) == x.risk > y.risk \/ (x.risk = y.risk /\ x.title > y.title)

\* What sort does: what comes before a member goes before it, and among equals the
\* first stays the first.
sort(items) ==
  LET ahead(i) == {j \in DOMAIN items : comesFirst(items[j], items[i])
                                       \/ (~comesFirst(items[i], items[j]) /\ j < i)}
  IN [k \in DOMAIN items |-> items[CHOOSE i \in DOMAIN items : Cardinality(ahead(i)) = k - 1]]

rankEvolutionSuggestions(suggestions, g) ==
  LET risk(x) == LET count == atLeast(Cardinality(x.repos), 1)
                 IN (sum(Subsequence(g.weight, x.repos)) + 5 * count) \div (10 * count)
  IN sort([i \in DOMAIN suggestions |->
             [title |-> suggestions[i].title, risk |-> risk(suggestions[i]),
              queue |-> queueForSuggestion(suggestions[i])]])

------------------------------------------------------------------------------
(* Settings. *)

\* The numbers that are found in an artifact.  Tests and operations are counted.
Numbers ==
  [coverage |-> [pct : Int], tests |-> [passed : Nat, failed : Nat],
   openapi |-> [operations : Nat], graphql |-> [types : Nat],
   telemetry |-> [requests : Int, errors : Int, incidents : Int, p95Ms : Int],
   trace |-> [spans : Int, slowSpans : Int, errors : Int, p95Ms : Int]]

isReadable(a, key) == a.form \in {"json", "text"} => a.of \in Numbers[key]

\* Repositories have different ids.
ASSUME SettingAssumption ==
  \A s \in Setting :
    /\ isSequence(s.repos) /\ isSequence(s.rules) /\ isSequence(s.bridges) /\ isSequence(s.mismatches)
    /\ isSequence(s.impacts) /\ isSequence(s.findings) /\ isSequence(s.suggestions)
    /\ \A i, j \in DOMAIN s.repos : s.repos[i].id = s.repos[j].id => i = j
    /\ \A i \in DOMAIN s.repos :
         /\ s.repos[i].coverage \in Int \cup {Unmeasured}
         /\ \A key \in DOMAIN Numbers : /\ isReadable(s.repos[i].artifacts[key].configured, key)
                                       /\ isReadable(s.repos[i].artifacts[key].discovered, key)
    /\ \A i \in DOMAIN s.bridges :
         s.bridges[i] \in [provider : DOMAIN s.repos, consumer : DOMAIN s.repos, risk : Int]
    /\ \A i \in DOMAIN s.mismatches :
         s.mismatches[i] \in [provider : DOMAIN s.repos, consumer : DOMAIN s.repos,
                              severity : DOMAIN severityWeight, risk : Int]
    /\ \A i \in DOMAIN s.impacts :
         s.impacts[i] \in [trigger : DOMAIN s.repos, affected : SUBSET DOMAIN severityWeight, risk : Int]
    /\ \A i \in DOMAIN s.findings : s.findings[i].risk \in Int
    /\ \A i \in DOMAIN s.suggestions :
         s.suggestions[i].title \in Int /\ s.suggestions[i].repos \subseteq DOMAIN s.repos

------------------------------------------------------------------------------

SignalsInit == \E s \in Setting : weighed = [pc |-> "asked", setting |-> s]

\* The last step of a scan.
enrich ==
  LET s == weighed.setting
  IN /\ weighed.pc = "asked"
     /\ weighed' = [pc |-> "enriched", setting |-> s, owned |-> attachOwnersToGraph(s),
                    graph |-> attachRuntimeSignals(s)]

\* What review-pr and evolve then say of it.
judge ==
  LET s == weighed.setting
  IN /\ weighed.pc = "enriched"
     /\ weighed' = [pc |-> "judged", setting |-> s, owned |-> weighed.owned,
                    graph |-> weighed.graph, risk |-> scoreRisk(weighed.graph),
                    ranked |-> rankEvolutionSuggestions(s.suggestions, weighed.graph)]

SignalsNext == enrich \/ judge

SignalsSpec == SignalsInit /\ [][SignalsNext]_weighed

------------------------------------------------------------------------------
(* Properties. *)

\* A rule that matches a repository makes its owner an owner of that repository, in
\* the graph too, once; the default owner steps in exactly where no rule matches.
OwnersAccounted ==
  LET s == weighed.setting
      owners == weighed.owned.owners
      of(m) == {owners[i] : i \in {j \in DOMAIN owners : owners[j].repo = m.id}}
      matching(m) == {s.rules[i] : i \in {j \in DOMAIN s.rules :
                                            s.ownership.enabled /\ ruleMatchesManifest(s.rules[j], m)}}
  IN /\ \A i, j \in DOMAIN owners : owners[i] = owners[j] => i = j
     /\ \A i \in DOMAIN s.repos :
          LET m == s.repos[i] IN
          /\ of(m) = toSet(weighed.owned.byRepo[i])
          /\ IF matching(m) = {}
             THEN {o.owner : o \in of(m)} = {s.ownership.defaultOwner} \ {Nobody}
             ELSE {<<o.owner, o.scope>> : o \in of(m)} = {<<r.owner, r.scope>> : r \in matching(m)}

\* No signal weighs more than all, and each of the four artifacts counts exactly once
\* when it is there, by what it says or else by being there.
WeightsFair ==
  LET s == weighed.setting
      signals == weighed.graph.signals
      of(i, kind) == {k \in DOMAIN signals[i] : signals[i][k].kind = kind}
  IN \A i \in DOMAIN s.repos :
       /\ \A k \in DOMAIN signals[i] : signals[i][k].weight \in 0 .. 1000
       /\ weighed.graph.weight[i] \in 0 .. 1000
       /\ \A kind \in {"openapi", "graphql", "telemetry", "trace"} :
            LET a == resolveRuntimeArtifactPath(s.repos[i].artifacts[kind])
            IN Cardinality(of(i, kind)) = (IF s.runtime /\ a.form # "missing" THEN 1 ELSE 0)

\* The more severe of two mismatches between the same repositories never has the
\* smaller risk; the score lies between the risks it is the mean of; and the ranking
\* keeps every suggestion and puts the greater risk first.
RiskFollows ==
  LET s == weighed.setting
      g == weighed.graph
      ms == g.mismatches
      risks == toSet(risksOf(ms)) \cup toSet(risksOf(g.impacts))
               \cup toSet(risksOf(g.bridges)) \cup toSet(risksOf(g.findings))
      ranked == weighed.ranked
  IN /\ \A i, j \in DOMAIN ms :
          /\ {ms[i].provider, ms[i].consumer} = {ms[j].provider, ms[j].consumer}
          /\ severityWeight[ms[i].severity] >= severityWeight[ms[j].severity]
          => ms[i].risk >= ms[j].risk
     /\ risks # {} => \E x, y \in risks : x <= weighed.risk.score /\ weighed.risk.score <= y
     /\ {ranked[i].title : i \in DOMAIN ranked} = {s.suggestions[i].title : i \in DOMAIN s.suggestions}
     /\ Len(ranked) = Len(s.suggestions)
     /\ \A i, j \in DOMAIN ranked : i < j => ranked[i].risk >= ranked[j].risk

\* Owners, weights and risks follow from the rules, the artifacts and the findings.
SignalsSound ==
  /\ weighed.pc \in {"enriched", "judged"} => OwnersAccounted /\ WeightsFair
  /\ weighed.pc = "judged" => RiskFollows

builtGraph(s) == [signals |-> <<>>, mismatches |-> s.mismatches, impacts |-> s.impacts,
                  bridges |-> s.bridges, findings |-> s.findings]

\* Where a review says that runtime signals increased the priority, they did: the
\* score is not below that of the graph as it was built.
SignalsIncreasePriority ==
  weighed.pc = "judged" /\ weighed.risk.increased =>
    weighed.risk.score >= scoreRisk(builtGraph(weighed.setting)).score
=============================================================================
