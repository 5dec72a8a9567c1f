----------------------------- MODULE Evolution -----------------------------
(***************************************************************************)
(* The evolution engine: gaps, bottlenecks and practices that are missing, *)
(* found in the manifests, become suggestions, which are ranked, merged,   *)
(* anchored in the code, filtered and limited.                             *)
(*                                                                         *)
(* A route is [method, resource, base, list, paged, input, output, marks,  *)
(* handler, file, at], a procedure [name, kind, list, paged, input,        *)
(* output, at]: whether the last segment or the name says list, and a name *)
(* or type says pagination, is given with them.  A place in the code,      *)
(* `at`, is unknown if its file is.                                        *)
(***************************************************************************)
EXTENDS Integers, Sequences, FiniteSets, Subsequences, Reductions

CONSTANTS
  Evolving,  \* [repos, categories, limit]: the manifests and the configuration
  Nowhere    \* a place that is not known

VARIABLE evolution

NoEvolution == [pc |-> "idle"]

Mutating == {"POST", "PUT", "PATCH", "DELETE"}

\* Packages of limiters, as the finder and as the benchmark know them.
FinderLimiters == {"express-rate-limit", "p-limit"}
BenchmarkLimiters == {"express-rate-limit", "@hono/rate-limiter"}

isServer(m) == m.language \notin {"swift", "markdown"}

findingOf(kind, m, at, severity) ==
  [kind |-> kind, practice |-> "", repo |-> m.repo, at |-> at, severity |-> severity]

------------------------------------------------------------------------------
(* Gaps. *)

\* A resource with two methods or more that can be created or read should have
\* them all; the finding is at its first route.
detectIncompleteCrud(m) ==
  LET routes == Subsequence(m.routes, {i \in DOMAIN m.routes :
                                         m.routes[i].method \in Mutating \cup {"GET"}})
      methods(r) == {s.method : s \in {t \in toSet(routes) : t.resource = r.resource}}
      lacks(r) == \/ ~{"GET", "POST", "DELETE"} \subseteq methods(r)
                  \/ {"PUT", "PATCH"} \cap methods(r) = {}
      bad == Subsequence(routes,
               {i \in DOMAIN routes : /\ \A j \in 1 .. i - 1 : routes[j].resource # routes[i].resource
                                      /\ Cardinality(methods(routes[i])) >= 2
                                      /\ {"GET", "POST"} \cap methods(routes[i]) # {}
                                      /\ lacks(routes[i])})
  IN [i \in DOMAIN bad |-> findingOf("incomplete-crud", m, bad[i].at, "medium")]

\* Names, not modules, are compared.
detectDeadExports(m) ==
  LET used == m.imported \cup {r.handler : r \in toSet(m.routes)}
              \cup {p.name : p \in toSet(m.procedures)}
      dead == Subsequence(m.exports, {i \in DOMAIN m.exports : ~m.exports[i].isType
                                                               /\ m.exports[i].name \notin used})
  IN [i \in DOMAIN dead |-> findingOf("dead-export", m, dead[i].at, "low")]

detectOrphanedSchemas(m) ==
  LET referenced == UNION {{x.input, x.output} : x \in toSet(m.routes) \cup toSet(m.procedures)}
      orphans == Subsequence(m.schemas, {i \in DOMAIN m.schemas : m.schemas[i].name \notin referenced})
  IN [i \in DOMAIN orphans |-> findingOf("orphaned-schema", m, orphans[i].at, "low")]

analyzeGaps(m) ==
  IF isServer(m) THEN detectIncompleteCrud(m) \o detectDeadExports(m) \o detectOrphanedSchemas(m)
  ELSE <<>>

------------------------------------------------------------------------------
(* Bottlenecks. *)

isListRoute(r) == r.method = "GET" /\ r.list
isListProcedure(p) == p.kind = "query" /\ p.list

unpaged(procedures) ==
  Subsequence(procedures, {i \in DOMAIN procedures : isListProcedure(procedures[i]) /\ ~procedures[i].paged})

detectMissingPagination(m) ==
  LET bad == Subsequence(m.routes, {i \in DOMAIN m.routes : isListRoute(m.routes[i]) /\ ~m.routes[i].paged})
             \o unpaged(m.procedures)
  IN [i \in DOMAIN bad |-> findingOf("missing-pagination", m, bad[i].at, "high")]

\* Two reads or more below one base, and nothing that caches.
detectNoCaching(m) ==
  LET reads == Subsequence(m.routes, {i \in DOMAIN m.routes : m.routes[i].method = "GET"})
      group(i) == {j \in DOMAIN reads : reads[j].base = reads[i].base}
      bad == Subsequence(reads, {i \in DOMAIN reads : Cardinality(group(i)) >= 2
                                                     /\ \A j \in group(i) : i <= j})
  IN IF "redis" \in m.packages THEN <<>>
     ELSE [i \in DOMAIN bad |-> findingOf("no-caching", m, bad[i].at, "medium")]

mutatingRoutes(m) == Subsequence(m.routes, {i \in DOMAIN m.routes : m.routes[i].method \in Mutating})
mutations(m) ==
  Subsequence(m.procedures, {i \in DOMAIN m.procedures : m.procedures[i].kind = "mutation"})

\* At the first route that changes something, or procedure if there is none.
detectMissingRateLimiting(m) ==
  LET all == mutatingRoutes(m) \o mutations(m)
  IN IF FinderLimiters \cap m.packages # {} \/ all = <<>> THEN <<>>
     ELSE <<findingOf("no-rate-limiting", m, Head(all).at, "high")>>

QueueFrom == 2   \* 20 in the code

detectNoQueue(m) ==
  IF Len(mutations(m)) < QueueFrom \/ "bullmq" \in m.packages THEN <<>>
  ELSE <<findingOf("no-queue", m, Head(m.procedures).at, "medium")>>

findBottlenecks(m) ==
  IF isServer(m) THEN detectMissingPagination(m) \o detectNoCaching(m)
                      \o detectMissingRateLimiting(m) \o detectNoQueue(m)
  ELSE <<>>

------------------------------------------------------------------------------
(* Practices, each with its category. *)

ifAll(n, all) == CASE n = all -> "present" [] n > 0 /\ n # all -> "partial" [] OTHER -> "missing"
ifSo(b) == IF b THEN "present" ELSE "missing"

checkRateLimiting(m) == ifSo(BenchmarkLimiters \cap m.packages # {})

\* Hono brings its own.
checkCors(m) == ifSo({"hono", "cors"} \cap m.packages # {})
checkSecurityHeaders(m) == ifSo({"hono", "helmet"} \cap m.packages # {})

checkErrorHandlingMiddleware(m) ==
  ifSo(m.errorHandling = "middleware" \/ \E e \in toSet(m.exports) : e.name = "errorHandler")

checkRequestValidation(m) ==
  IF "zod" \notin m.packages /\ m.schemas = <<>> THEN "missing"
  ELSE IF \E r \in toSet(m.routes) : r.method \notin {"GET", "DELETE"} /\ r.input = ""
  THEN "partial" ELSE "present"

checkLogging(m) == ifSo("pino" \in m.packages)

bearing(m, mark) == {i \in DOMAIN m.routes : mark \in m.routes[i].marks}

checkHealthEndpoint(m) == ifSo(bearing(m, "health") # {})

checkPagination(m) ==
  LET lists == {i \in DOMAIN m.routes : isListRoute(m.routes[i])}
  IN IF lists = {} THEN "none"
     ELSE ifAll(Cardinality({i \in lists : m.routes[i].paged}), Cardinality(lists))

checkApiVersioning(m) == ifAll(Cardinality(bearing(m, "version")), Len(m.routes))

checkTrpcValidation(m) ==
  LET all == mutations(m)
  IN IF all = <<>> THEN "none" ELSE ifAll(Cardinality({i \in DOMAIN all : all[i].input # ""}), Len(all))

\* Nothing is asked of a repository that serves nothing, and only the last of one
\* without routes.
benchmarkAgainstBestPractices(m) ==
  LET result(practice, category, status) ==
        [practice |-> practice, category |-> category, status |-> status]
      all == <<result("rate limiting", "security", checkRateLimiting(m)),
               result("CORS", "security", checkCors(m)),
               result("security headers", "security", checkSecurityHeaders(m)),
               result("error handling", "reliability", checkErrorHandlingMiddleware(m)),
               result("request validation", "security", checkRequestValidation(m)),
               result("structured logging", "observability", checkLogging(m)),
               result("health endpoint", "reliability", checkHealthEndpoint(m)),
               result("pagination", "performance", checkPagination(m)),
               result("API versioning", "maintainability", checkApiVersioning(m)),
               result("tRPC validation", "security", checkTrpcValidation(m))>>
      asked(r) == isServer(m) /\ (m.routes # <<>> \/ r.practice = "tRPC validation")
  IN Subsequence(all, {k \in DOMAIN all : asked(all[k]) /\ all[k].status # "none"})

somewhere(places) == Subsequence(places, {i \in DOMAIN places : places[i].at # Nowhere})

firstPerFile(routes) ==
  Subsequence(routes, {i \in DOMAIN routes : \A j \in 1 .. i - 1 : routes[j].file # routes[i].file})

\* The places that lack a practice.
findAffectedLocations(m, practice) ==
  LET files == somewhere(firstPerFile(m.routes)) IN
  IF practice \in {"request validation", "tRPC validation"} THEN somewhere(mutations(m))
  ELSE IF practice = "rate limiting" THEN somewhere(mutations(m) \o mutatingRoutes(m))
  ELSE IF practice = "pagination" THEN somewhere(unpaged(m.procedures))
  ELSE IF practice \in {"API versioning", "error handling"} THEN files
  ELSE IF practice = "structured logging" THEN Subsequence(files, {1} \cap DOMAIN files)
  ELSE <<>>

\* What is not present becomes findings at those places, or one at the first
\* procedure or route.
benchmarkToBottleneckFindings(results, m) ==
  LET kind(r) == CASE r.category = "security" -> "unbounded-query"
                   [] r.category = "performance" -> "missing-pagination"
                   [] r.category = "reliability" -> "sync-in-async"
                   [] OTHER -> "no-caching"
      of(r, at) == [findingOf(kind(r), m, at, IF r.status = "missing" THEN "high" ELSE "medium")
                    EXCEPT !.practice = r.practice]
      all == m.procedures \o m.routes
      fallback == somewhere(Subsequence(all, {1} \cap DOMAIN all))
      places(r) == LET there == findAffectedLocations(m, r.practice)
                   IN IF there = <<>> THEN fallback ELSE there
      found(r) == [i \in DOMAIN places(r) |-> of(r, places(r)[i].at)]
      lacking == Subsequence(results, {k \in DOMAIN results : results[k].status # "present"})
  IN joined([i \in DOMAIN lacking |-> found(lacking[i])])

------------------------------------------------------------------------------
(* Suggestions. *)

Gap == {"incomplete-crud", "dead-export", "orphaned-schema"}

\* The kind says less than the practice: limiters and queues are performance.
category(f) ==
  CASE f.kind \in Gap -> "feature"
    [] f.kind = "missing-pagination" /\ f.practice = "" -> "scale"
    [] f.kind = "unbounded-query" -> "security"
    [] OTHER -> "performance"

effort(f) == IF f.kind \in {"dead-export", "orphaned-schema", "unbounded-query"} THEN "small" ELSE "medium"

\* What a title says but for the repository, which the one about caching keeps.
title(f) ==
  CASE f.practice # "" -> <<f.practice>>
    [] f.practice = "" /\ f.kind = "no-caching" -> <<f.kind, f.repo>>
    [] f.practice = "" /\ f.kind \in {"no-rate-limiting", "no-queue"} -> <<"bottleneck">>
    [] f.practice = "" /\ f.kind = "missing-pagination" -> <<"pagination">>
    [] OTHER -> <<f.kind>>

toSuggestion(f, id) ==
  [id |-> id, category |-> category(f), title |-> title(f), impact |-> f.severity, effort |-> effort(f),
   repos |-> {f.repo}, evidence |-> {[repo |-> f.repo, at |-> f.at]}]

IMPACT_ORDER == [high |-> 1, medium |-> 2, low |-> 3]
EFFORT_ORDER == [small |-> 0, medium |-> 1]

\* By impact, then by effort.
rank(s) == 3 * IMPACT_ORDER[s.impact] + EFFORT_ORDER[s.effort]

\* What sort does: among equals the one found first stays the first.
sortSuggestions(ss) ==
  LET ahead(i) == {j \in DOMAIN ss : \/ rank(ss[j]) < rank(ss[i])
                                     \/ rank(ss[j]) = rank(ss[i]) /\ j < i}
  IN [k \in DOMAIN ss |-> ss[CHOOSE i \in DOMAIN ss : Cardinality(ahead(i)) = k - 1]]

\* The first of each category and title stays, with the repositories and evidence of all.
deduplicateSuggestions(ss) ==
  LET like(i) == {j \in DOMAIN ss : ss[j].category = ss[i].category /\ ss[j].title = ss[i].title}
      merged == [i \in DOMAIN ss |-> [ss[i] EXCEPT !.repos = UNION {ss[j].repos : j \in like(i)},
                                                  !.evidence = UNION {ss[j].evidence : j \in like(i)}]]
  IN Subsequence(merged, {i \in DOMAIN ss : \A j \in like(i) : i <= j})

\* Evidence that is nowhere is dropped, and what has no other.
cleanSuggestionEvidence(ss) ==
  LET cleaned == [i \in DOMAIN ss |-> [ss[i] EXCEPT !.evidence = {e \in @ : e.at # Nowhere}]]
  IN Subsequence(cleaned, {i \in DOMAIN ss : cleaned[i].evidence # {}})

proposeUpgrades(findings) ==
  LET suggestions == [i \in DOMAIN findings |-> toSuggestion(findings[i], i)]
  IN cleanSuggestionEvidence(deduplicateSuggestions(sortSuggestions(suggestions)))

findings(repos) ==
  joined([i \in DOMAIN repos |-> analyzeGaps(repos[i])])
  \o joined([i \in DOMAIN repos |-> findBottlenecks(repos[i])])
  \o joined([i \in DOMAIN repos |->
               benchmarkToBottleneckFindings(benchmarkAgainstBestPractices(repos[i]), repos[i])])

atMost(ss, n) == Subsequence(ss, {i \in DOMAIN ss : i <= n})

ofCategories(ss, categories) == Subsequence(ss, {i \in DOMAIN ss : ss[i].category \in categories})

\* Mutant: the limit is applied before the categories.
suggestLimitFirst(input) ==
  ofCategories(atMost(proposeUpgrades(findings(input.repos)), input.limit), input.categories)

suggest(input) ==
  atMost(ofCategories(proposeUpgrades(findings(input.repos)), input.categories), input.limit)

\* Manifests list what they hold, and the limit is a number.
ASSUME EvolvingType ==
  \A e \in Evolving :
    /\ isSequence(e.repos) /\ e.limit \in Nat
    /\ \A i \in DOMAIN e.repos :
         LET m == e.repos[i]
         IN /\ isSequence(m.routes) /\ isSequence(m.procedures)
            /\ isSequence(m.exports) /\ isSequence(m.schemas)

EvolutionInit == \E e \in Evolving : evolution = [pc |-> "asked", input |-> e, result |-> <<>>]

analyzeEvolution ==
  /\ evolution.pc = "asked"
  /\ evolution' = [evolution EXCEPT !.pc = "done", !.result = suggest(evolution.input)]

EvolutionSpec == EvolutionInit /\ [][analyzeEvolution]_evolution

------------------------------------------------------------------------------
(* Properties. *)

\* What is found is suggested: each finding of a wanted category that has a place
\* is evidence of a suggestion that ranks no lower, unless the limit is reached and
\* everything that is suggested ranks no lower.
NothingLost ==
  LET input == evolution.input
      result == evolution.result
      all == findings(input.repos)
  IN \A i \in DOMAIN all :
       LET f == all[i]
           own == toSuggestion(f, i)
       IN category(f) \in input.categories /\ f.at # Nowhere =>
            \/ \E k \in DOMAIN result : /\ own.evidence \subseteq result[k].evidence
                                        /\ result[k].category = own.category
                                        /\ rank(result[k]) <= rank(own)
            \/ /\ Len(result) = input.limit
               /\ \A k \in DOMAIN result : rank(result[k]) <= rank(own)

\* Suggestions are ordered, distinct, and each stands in the code of a repository
\* it is about.
Anchored ==
  LET result == evolution.result
  IN \A k \in DOMAIN result :
       /\ result[k].evidence # {}
       /\ \A e \in result[k].evidence : e.at # Nowhere /\ e.repo \in result[k].repos
       /\ \A l \in DOMAIN result : k < l =>
            /\ rank(result[k]) <= rank(result[l])
            /\ result[k].id # result[l].id
            /\ <<result[k].category, result[k].title>> # <<result[l].category, result[l].title>>

\* The finder and the benchmark, which judge the same manifest by rules of
\* their own, agree on the pagination of routes, and on limiters of routes for the packages
\* both know.
JudgesAgree ==
  \A i \in DOMAIN evolution.input.repos :
    LET m == evolution.input.repos[i]
        results == benchmarkAgainstBestPractices(m)
        bottlenecks == findBottlenecks(m)
        says(practice, status) == \E k \in DOMAIN results : /\ results[k].practice = practice
                                                            /\ results[k].status = status
        found(kind) == {bottlenecks[k].at :
                          k \in {l \in DOMAIN bottlenecks : bottlenecks[l].kind = kind}}
        onlyRoutes == m.procedures = <<>>
    IN /\ says("pagination", "present") /\ onlyRoutes => found("missing-pagination") = {}
       /\ says("pagination", "missing") \/ says("pagination", "partial") =>
            found("missing-pagination") # {}
       /\ (FinderLimiters \cup BenchmarkLimiters) \cap m.packages
            \subseteq FinderLimiters \cap BenchmarkLimiters =>
              /\ found("no-rate-limiting") # {} /\ m.routes # <<>> => says("rate limiting", "missing")
              /\ says("rate limiting", "missing") =>
                   found("no-rate-limiting") # {} \/ mutatingRoutes(m) \o mutations(m) = <<>>

\* What the evolution engine suggests follows from what it found: the three above.
EvolutionSound == evolution.pc = "done" => NothingLost /\ Anchored /\ JudgesAgree
=============================================================================
