--------------------------- MODULE Analysis_proofs ---------------------------
(***************************************************************************)
(* Proofs about the analysis of a workspace.  Graph: a path that impact     *)
(* analysis gives follows the dependencies, a breadth-first search that ends*)
(* within as many rounds as there are files (GraphExplained).              *)
(* Context: what the pruner, the digest and the optimizer give fits its    *)
(* budget, or all that could go has gone, and no count is off (ContextFits).*)
(* Signals: owners, weights, scores and the ranking follow from the rules, *)
(* the artifacts and the findings they are computed of (SignalsSound).     *)
(* Health: a repository that is no worse than another scores no lower      *)
(* (HealthFair).  Evolution: what is suggested follows from what is found, *)
(* whatever the manifests, the categories and the limit (EvolutionSound).  *)
(* Quality: what the gate says of the imports, the repeated blocks, the    *)
(* awaits and the names of a text is so (QualityTrue).                     *)
(***************************************************************************)
EXTENDS Grapher, Evolution, Context, Signals, Health, Quality, Lemmas, FiniteSetTheorems, SequenceTheorems, TLAPS

------------------------------------------------------------------------------
(* The ecosystem graph. *)


(* The search. *)

\* One round of the search finds the dependents of the queue that are new.
Reached == [queue : SUBSET File, visited : SUBSET File]
dependents(deps, queue) == {d[1] : d \in {e \in deps : e[2] \in queue}}
searchStep(deps) ==
  [before \in Reached |->
     [queue |-> dependents(deps, before.queue) \ before.visited,
      visited |-> before.visited \cup (dependents(deps, before.queue) \ before.visited)]]
searchSteps(deps) == [k \in 1 .. Cardinality(File) |-> searchStep(deps)]
searchStart(from) == [queue |-> {from}, visited |-> {from}]

\* The rounds of the search, as the iteration of its step.
LEMMA SearchRounds ==
  ASSUME NEW deps \in SUBSET (File \X File), NEW from \in File
  PROVE  \E r \in [0 .. Cardinality(File) -> Reached] :
           /\ Iterates(r, Cardinality(File), searchSteps(deps), searchStart(from))
           /\ searched(deps, from) = r[Cardinality(File)].visited \ {from}
<1> DEFINE n == Cardinality(File)
           Rounds(f) == f = [k \in 0 .. n |->
                        IF k = 0 THEN [queue |-> {from}, visited |-> {from}]
                        ELSE LET before == f[k - 1]
                                 found == {d[1] : d \in {e \in deps : e[2] \in before.queue}}
                                            \ before.visited
                             IN [queue |-> found, visited |-> before.visited \cup found]]
<1>1. n \in Nat
  BY GrapherAssumption, FS_CardinalityType
<1>2. searchStep(deps) \in [Reached -> Reached]
  <2> SUFFICES ASSUME NEW b \in Reached
               PROVE [queue |-> dependents(deps, b.queue) \ b.visited,
                      visited |-> b.visited \cup (dependents(deps, b.queue) \ b.visited)] \in Reached
    BY DEF searchStep
  <2>1. dependents(deps, b.queue) \subseteq File
    BY DEF dependents
  <2> QED
    BY <2>1 DEF Reached
<1>3. searchStart(from) \in Reached
  BY DEF searchStart, Reached
<1>4. PICK r \in [0 .. n -> Reached] : Iterates(r, n, searchSteps(deps), searchStart(from))
  <2>1. searchSteps(deps) \in [1 .. n -> [Reached -> Reached]]
    BY <1>2 DEF searchSteps
  <2> HIDE DEF n
  <2> QED
    BY <1>1, <1>3, <2>1, Iteration
<1>5. ASSUME NEW f, Rounds(f)
      PROVE  f[n] = r[n]
  <2> DEFINE Bad == {k \in 0 .. n : f[k] # r[k]}
  <2> SUFFICES ASSUME Bad # {} PROVE FALSE
    BY <1>1
  <2>1. PICK k \in Bad : \A j \in Bad : k <= j
    <3>1. Bad \in SUBSET Nat
      BY <1>1
    <3> HIDE DEF Bad
    <3> QED
      BY <3>1, LeastElement
  <2>2. f[0] = searchStart(from)
    BY <1>1, <1>5 DEF searchStart
  <2>3. k # 0
    BY <1>4, <2>1, <2>2 DEF Iterates
  <2>4. k \in 1 .. n /\ k - 1 \in 0 .. n /\ k - 1 \notin Bad
    BY <1>1, <2>1, <2>3
  <2>5. f[k - 1] = r[k - 1] /\ r[k - 1] \in Reached
    BY <1>4, <2>4
  <2>6. f[k] = searchStep(deps)[f[k - 1]]
    <3> DEFINE b == f[k - 1]
               next == [queue |-> dependents(deps, b.queue) \ b.visited,
                        visited |-> b.visited \cup (dependents(deps, b.queue) \ b.visited)]
    <3>1. f[k] = next
      BY <1>5, <2>3, <2>4 DEF dependents
    <3>2. searchStep(deps)[b] = next
      BY <2>5 DEF searchStep
    <3> QED
      BY <3>1, <3>2
  <2>7. r[k] = searchStep(deps)[r[k - 1]]
    BY <1>4, <2>4 DEF Iterates, searchSteps
  <2> QED
    BY <2>1, <2>5, <2>6, <2>7
<1>6. Rounds(r)
  <2>1. ASSUME NEW k \in 0 .. n
        PROVE  r[k] = IF k = 0 THEN [queue |-> {from}, visited |-> {from}]
                      ELSE LET before == r[k - 1]
                               found == {d[1] : d \in {e \in deps : e[2] \in before.queue}}
                                          \ before.visited
                           IN [queue |-> found, visited |-> before.visited \cup found]
    <3>1. CASE k = 0
      BY <1>4, <3>1 DEF Iterates, searchStart
    <3>2. CASE k # 0
      <4>1. k \in 1 .. n /\ r[k - 1] \in Reached
        BY <1>1, <1>4, <3>2
      <4>2. r[k] = searchStep(deps)[r[k - 1]]
        BY <1>4, <4>1 DEF Iterates, searchSteps
      <4> QED
        BY <3>2, <4>1, <4>2 DEF searchStep, dependents
    <3> QED
      BY <3>1, <3>2
  <2> QED
    BY <1>4, <2>1
<1>7. searched(deps, from) = (CHOOSE f : Rounds(f))[n].visited \ {from}
  BY DEF searched
<1> HIDE DEF Rounds
<1>8. Rounds(CHOOSE f : Rounds(f))
  BY <1>6
<1>9. searched(deps, from) = r[n].visited \ {from}
  BY <1>5, <1>7, <1>8
<1> QED
  BY <1>4, <1>9

\* After k rounds: everything found leads to the file, the dependents of all but the
\* queue are found, and the search is over or has found a file in every round.
SearchInv(deps, from, k, b) ==
  /\ b \in Reached
  /\ from \in b.visited /\ b.queue \subseteq b.visited
  /\ b.visited \subseteq leadTo(deps, from)
  /\ \A d \in deps : d[2] \in b.visited \ b.queue => d[1] \in b.visited
  /\ b.queue = {} \/ Cardinality(b.visited) > k

\* The start of the search.
LEMMA SearchStarts ==
  ASSUME NEW deps \in SUBSET (File \X File), NEW from \in File
  PROVE  SearchInv(deps, from, 0, searchStart(from))
<1> DEFINE b == searchStart(from)
<1>1. b.visited = {from} /\ b.queue = {from} /\ b \in Reached
  BY DEF searchStart, Reached
<1>2. from \in leadTo(deps, from)
  BY DEF leadTo
<1>3. Cardinality({from}) > 0
  BY FS_Singleton
<1> QED
  BY <1>1, <1>2, <1>3 DEF SearchInv

\* Every round of the search.
LEMMA SearchContinues ==
  ASSUME NEW deps \in SUBSET (File \X File), NEW from \in File, NEW k \in Nat,
         NEW b \in Reached, SearchInv(deps, from, k, b)
  PROVE  SearchInv(deps, from, k + 1, searchStep(deps)[b])
<1> DEFINE found == dependents(deps, b.queue) \ b.visited
           c == searchStep(deps)[b]
<1>1. c.queue = found /\ c.visited = b.visited \cup found
  BY DEF searchStep
<1>2. \A x : x \in dependents(deps, b.queue) <=> \E d \in deps : d[2] \in b.queue /\ d[1] = x
  BY DEF dependents
<1>3. dependents(deps, b.queue) \subseteq File
  BY <1>2
<1>4. c \in Reached
  BY <1>3 DEF searchStep, Reached
<1>5. \A d \in deps : d[2] \in leadTo(deps, from) => d[1] \in leadTo(deps, from)
  <2> SUFFICES ASSUME NEW d \in deps, d[2] \in leadTo(deps, from),
                      NEW S \in SUBSET File, from \in S,
                      \A e \in deps : e[2] \in S => e[1] \in S
               PROVE  d[1] \in S
    BY DEF leadTo
  <2>1. d[2] \in S
    BY DEF leadTo
  <2> QED
    BY <2>1
<1>6. found \subseteq leadTo(deps, from)
  BY <1>2, <1>5 DEF SearchInv
<1>7. \A d \in deps : d[2] \in c.visited \ c.queue => d[1] \in c.visited
  <2> SUFFICES ASSUME NEW d \in deps, d[2] \in b.visited PROVE d[1] \in b.visited \cup found
    BY <1>1
  <2>1. d[2] \in b.queue => d[1] \in dependents(deps, b.queue)
    BY <1>2
  <2> QED
    BY <2>1 DEF SearchInv
<1>8. c.queue = {} \/ Cardinality(c.visited) > k + 1
  <2> SUFFICES ASSUME found # {} PROVE Cardinality(c.visited) > k + 1
    BY <1>1
  <2>1. b.queue # {}
    BY <1>2
  <2>2. Cardinality(b.visited) > k
    BY <2>1 DEF SearchInv
  <2>3. IsFiniteSet(c.visited) /\ c.visited \in SUBSET File
    BY <1>4, GrapherAssumption, FS_Subset DEF Reached
  <2>4. /\ b.visited \in SUBSET c.visited /\ b.visited # c.visited
    BY <1>1
  <2>5. IsFiniteSet(b.visited) /\ Cardinality(b.visited) <= Cardinality(c.visited)
        /\ Cardinality(b.visited) # Cardinality(c.visited)
    BY <2>3, <2>4, FS_Subset
  <2>6. Cardinality(b.visited) \in Nat /\ Cardinality(c.visited) \in Nat
    BY <2>3, <2>5, FS_CardinalityType
  <2> QED
    BY <2>2, <2>5, <2>6
<1> QED
  BY <1>1, <1>4, <1>6, <1>7, <1>8 DEF SearchInv

\* The search finds just the files that lead to the one it starts from.
THEOREM SearchFindsDependents ==
  ASSUME NEW deps \in SUBSET (File \X File), NEW from \in File
  PROVE  searched(deps, from) = leadTo(deps, from) \ {from}
<1> DEFINE n == Cardinality(File)
<1>1. PICK r \in [0 .. n -> Reached] :
        /\ Iterates(r, n, searchSteps(deps), searchStart(from))
        /\ searched(deps, from) = r[n].visited \ {from}
  BY SearchRounds
<1>2. n \in Nat
  BY GrapherAssumption, FS_CardinalityType
<1> HIDE DEF n
<1>3. \A k \in 0 .. n : SearchInv(deps, from, k, r[k])
  <2> DEFINE Bad == {k \in 0 .. n : ~SearchInv(deps, from, k, r[k])}
  <2> SUFFICES ASSUME Bad # {} PROVE FALSE
    OBVIOUS
  <2>1. PICK k \in Bad : \A j \in Bad : k <= j
    <3>1. Bad \in SUBSET Nat
      BY <1>2
    <3> HIDE DEF Bad
    <3> QED
      BY <3>1, LeastElement
  <2>2. k # 0
    BY <1>1, <2>1, SearchStarts DEF Iterates
  <2>3. k \in 1 .. n /\ k - 1 \in 0 .. n /\ k - 1 \notin Bad /\ k - 1 \in Nat
    BY <1>2, <2>1, <2>2
  <2>4. SearchInv(deps, from, k - 1, r[k - 1]) /\ r[k - 1] \in Reached
    BY <1>1, <2>3
  <2>5. SearchInv(deps, from, (k - 1) + 1, searchStep(deps)[r[k - 1]])
    BY <2>3, <2>4, SearchContinues
  <2>6. (k - 1) + 1 = k /\ r[k] = searchStep(deps)[r[k - 1]]
    BY <1>1, <2>3 DEF Iterates, searchSteps, n
  <2> QED
    BY <2>1, <2>5, <2>6
<1>4. SearchInv(deps, from, n, r[n])
  BY <1>2, <1>3
<1>5. r[n].queue = {}
  <2>1. r[n].visited \in SUBSET File
    BY <1>4 DEF SearchInv, Reached
  <2>2. Cardinality(r[n].visited) <= n /\ Cardinality(r[n].visited) \in Nat
    BY <2>1, GrapherAssumption, FS_Subset, FS_CardinalityType DEF n
  <2> QED
    BY <1>2, <1>4, <2>2 DEF SearchInv
<1>6. leadTo(deps, from) \subseteq r[n].visited
  <2>1. r[n].visited \in SUBSET File /\ from \in r[n].visited
        /\ \A d \in deps : d[2] \in r[n].visited => d[1] \in r[n].visited
    BY <1>4, <1>5 DEF SearchInv, Reached
  <2> QED
    BY <2>1 DEF leadTo
<1> QED
  BY <1>1, <1>4, <1>6 DEF SearchInv

------------------------------------------------------------------------------
(* Impact. *)

\* The dependencies of a repository are pairs of files.
LEMMA DepsArePairs ==
  ASSUME NEW m \in RepoManifest
  PROVE  buildInternalDeps(m) \in SUBSET (File \X File)
<1>1. \A d \in inferDepsFromSignatures(m) : d \in File \X File
  BY DEF inferDepsFromSignatures, RepoManifest
<1> QED
  BY <1>1 DEF buildInternalDeps, RepoManifest

\* A bridge by its two ends.
LEMMA BridgeEnds ==
  ASSUME NEW ms, NEW p, NEW e, NEW c, NEW x
  PROVE  LET b == bridgeOf(ms, p, e, c, x)
         IN /\ b.consumer = [repo |-> c, file |-> x.file]
            /\ b.provider = [repo |-> p, route |-> e]
  BY DEF bridgeOf

\* The bridges are those between exports and the endpoints they mention.
LEMMA BridgesOf ==
  ASSUME NEW ms, NEW b
  PROVE  b \in mapApiContracts(ms) <=>
           \E p, c \in RepoId : \E e \in ms[p].endpoints, x \in ms[c].exports :
             p # c /\ e.name \in x.mentions /\ b = bridgeOf(ms, p, e, c, x)
<1>1. b \in mapApiContracts(ms) <=>
        \E q \in RepoId \X RepoId : q[1] # q[2] /\
          \E m \in mentioned(ms[q[1]], ms[q[2]]) : b = bridgeOf(ms, q[1], m[1], q[2], m[2])
  BY DEF mapApiContracts
<1>2. \A p, c : \A m : m \in mentioned(ms[p], ms[c]) <=>
        \E e \in ms[p].endpoints, x \in ms[c].exports : m = <<e, x>> /\ e.name \in x.mentions
  BY DEF mentioned
<1>3. ASSUME b \in mapApiContracts(ms)
      PROVE  \E p, c \in RepoId : \E e \in ms[p].endpoints, x \in ms[c].exports :
               p # c /\ e.name \in x.mentions /\ b = bridgeOf(ms, p, e, c, x)
  <2>1. PICK q \in RepoId \X RepoId : q[1] # q[2] /\
          \E m \in mentioned(ms[q[1]], ms[q[2]]) : b = bridgeOf(ms, q[1], m[1], q[2], m[2])
    BY <1>1, <1>3
  <2>2. PICK m \in mentioned(ms[q[1]], ms[q[2]]) : b = bridgeOf(ms, q[1], m[1], q[2], m[2])
    BY <2>1
  <2>3. PICK e \in ms[q[1]].endpoints, x \in ms[q[2]].exports : m = <<e, x>> /\ e.name \in x.mentions
    BY <1>2, <2>2
  <2>4. m[1] = e /\ m[2] = x
    BY <2>3
  <2> QED
    BY <2>1, <2>2, <2>3, <2>4
<1>4. ASSUME NEW p \in RepoId, NEW c \in RepoId, NEW e \in ms[p].endpoints, NEW x \in ms[c].exports,
             p # c, e.name \in x.mentions, b = bridgeOf(ms, p, e, c, x)
      PROVE  b \in mapApiContracts(ms)
  <2>1. <<e, x>> \in mentioned(ms[p], ms[c])
    BY <1>2, <1>4
  <2>2. <<e, x>>[1] = e /\ <<e, x>>[2] = x /\ <<p, c>>[1] = p /\ <<p, c>>[2] = c
        /\ <<p, c>> \in RepoId \X RepoId
    OBVIOUS
  <2> QED
    BY <1>1, <1>4, <2>1, <2>2
<1> QED
  BY <1>3, <1>4

LEMMA ImpactOf ==
  ASSUME manifests \in [RepoId -> RepoManifest], graph = buildEcosystemGraph(manifests)
  PROVE  ImpactIsReach
<1> SUFFICES ASSUME NEW path \in graph.impactPaths
             PROVE
    LET r == path.trigger.repo
        f == path.trigger.file
        there == {a \in path.affected : a.repo # r}
        routes == {e \in manifests[r].endpoints : e.isRoute}
    IN /\ {a.file : a \in path.affected \ there} = leadTo(buildInternalDeps(manifests[r]), f) \ {f}
       /\ there = mentioning(r, f, manifests[r].endpoints)
       /\ \A a \in mentioning(r, f, routes) : <<a.repo, r>> \in graph.crossRepo
  BY DEF ImpactIsReach
<1> DEFINE bridges == mapApiContracts(manifests)
<1>1. graph.impactPaths = analyzeImpact(manifests, bridges)
      /\ graph.crossRepo = detectCrossRepoDeps(manifests)
  BY DEF buildEcosystemGraph
<1>15. PICK r \in RepoId :
         \E d \in manifests[r].dirty : path = pathOf(manifests, bridges, r, d[1], d[2])
  BY <1>1 DEF analyzeImpact
<1>2. PICK d \in manifests[r].dirty : path = pathOf(manifests, bridges, r, d[1], d[2])
  BY <1>15
<1> DEFINE f == d[1]
           deps == buildInternalDeps(manifests[r])
           here == {[repo |-> r, file |-> g] : g \in leadTo(deps, f) \ {f}}
           there == {a \in path.affected : a.repo # r}
           consumers == {b.consumer : b \in findCrossRepoBridgeConsumers(manifests, bridges, r, f)}
           routes == {e \in manifests[r].endpoints : e.isRoute}
<1>3. manifests[r] \in RepoManifest /\ f \in File
  BY <1>2 DEF RepoManifest
<1>4. path.trigger.repo = r /\ path.trigger.file = f
  BY <1>2 DEF pathOf
<1>5. path.affected = here \cup consumers
  <2>1. findInternalDependents(deps, f) = leadTo(deps, f) \ {f}
    BY <1>3, DepsArePairs, SearchFindsDependents DEF findInternalDependents
  <2> QED
    BY <1>2, <2>1 DEF pathOf
<1>6. \A a : a \in consumers <=>
        \E c \in RepoId : \E e \in manifests[r].endpoints, x \in manifests[c].exports :
          r # c /\ e.name \in x.mentions /\ e.file = f /\ a = [repo |-> c, file |-> x.file]
  <2>1. \A a : a \in consumers <=>
          \E b \in bridges : \E e \in manifests[r].endpoints :
            /\ b.provider.repo = r /\ a = b.consumer
            /\ e.file = f /\ routeLabel(e) = routeLabel(b.provider.route)
    BY DEF findCrossRepoBridgeConsumers
  <2>2. \A p, c, e, x : /\ bridgeOf(manifests, p, e, c, x).consumer = [repo |-> c, file |-> x.file]
                       /\ bridgeOf(manifests, p, e, c, x).provider.repo = p
                       /\ bridgeOf(manifests, p, e, c, x).provider.route = e
    BY DEF bridgeOf
  <2>3. \A b : b \in bridges <=>
           \E p, c \in RepoId : \E e \in manifests[p].endpoints, x \in manifests[c].exports :
             p # c /\ e.name \in x.mentions /\ b = bridgeOf(manifests, p, e, c, x)
    BY BridgesOf
  <2> HIDE DEF consumers, bridges
  <2>4. ASSUME NEW a \in consumers
        PROVE  \E c \in RepoId : \E e \in manifests[r].endpoints, x \in manifests[c].exports :
                 r # c /\ e.name \in x.mentions /\ e.file = f /\ a = [repo |-> c, file |-> x.file]
    <3>1. PICK b \in bridges, o \in manifests[r].endpoints :
            /\ b.provider.repo = r /\ a = b.consumer
            /\ o.file = f /\ routeLabel(o) = routeLabel(b.provider.route)
      BY <2>1
    <3>2. PICK p \in RepoId, c \in RepoId : \E e \in manifests[p].endpoints, x \in manifests[c].exports :
             p # c /\ e.name \in x.mentions /\ b = bridgeOf(manifests, p, e, c, x)
      BY <2>3, <3>1
    <3>3. PICK e \in manifests[p].endpoints, x \in manifests[c].exports :
             p # c /\ e.name \in x.mentions /\ b = bridgeOf(manifests, p, e, c, x)
      BY <3>2
    <3>4. p = r /\ b.provider.route = e /\ b.consumer = [repo |-> c, file |-> x.file]
      BY <2>2, <3>1, <3>3
    <3>5. o.name = e.name
      BY <3>1, <3>4 DEF routeLabel
    <3> QED
      BY <3>1, <3>3, <3>4, <3>5
  <2>5. ASSUME NEW a, NEW c \in RepoId, NEW e \in manifests[r].endpoints, NEW x \in manifests[c].exports,
               r # c, e.name \in x.mentions, e.file = f, a = [repo |-> c, file |-> x.file]
        PROVE  a \in consumers
    <3> DEFINE b == bridgeOf(manifests, r, e, c, x)
    <3>1. b \in bridges
      BY <2>3, <2>5
    <3>2. b.provider.repo = r /\ b.provider.route = e /\ b.consumer = a
      BY <2>2, <2>5
    <3> HIDE DEF b
    <3> QED
      BY <2>1, <2>5, <3>1, <3>2
  <2> QED
    BY <2>4, <2>5
<1>7. \A es, a : a \in mentioning(r, f, es) <=>
        \E c \in RepoId \ {r} : \E g \in File : \E x \in manifests[c].exports, e \in es :
          a = [repo |-> c, file |-> g] /\ x.file = g /\ e.file = f /\ e.name \in x.mentions
  <2> SUFFICES ASSUME NEW es, NEW a
               PROVE  a \in mentioning(r, f, es) <=>
                 \E c \in RepoId \ {r} : \E g \in File : \E x \in manifests[c].exports, e \in es :
                   a = [repo |-> c, file |-> g] /\ x.file = g /\ e.file = f /\ e.name \in x.mentions
    OBVIOUS
  <2>1. a \in mentioning(r, f, es) <=>
          \E q \in (RepoId \ {r}) \X File : a = [repo |-> q[1], file |-> q[2]]
            /\ \E x \in manifests[q[1]].exports, e \in es :
                 x.file = q[2] /\ e.file = f /\ e.name \in x.mentions
    BY DEF mentioning
  <2>2. ASSUME a \in mentioning(r, f, es)
        PROVE  \E c \in RepoId \ {r} : \E g \in File : \E x \in manifests[c].exports, e \in es :
                 a = [repo |-> c, file |-> g] /\ x.file = g /\ e.file = f /\ e.name \in x.mentions
    BY <2>1, <2>2
  <2>3. ASSUME NEW c \in RepoId \ {r}, NEW g \in File, NEW x \in manifests[c].exports, NEW e \in es,
               a = [repo |-> c, file |-> g], x.file = g, e.file = f, e.name \in x.mentions
        PROVE  a \in mentioning(r, f, es)
    <3>1. <<c, g>> \in (RepoId \ {r}) \X File /\ <<c, g>>[1] = c /\ <<c, g>>[2] = g
      OBVIOUS
    <3> QED
      BY <2>1, <2>3, <3>1
  <2> QED
    BY <2>2, <2>3
<1>8. \A c \in RepoId : \A x \in manifests[c].exports : x.file \in File
  BY DEF RepoManifest
<1> HIDE DEF f, deps, consumers, bridges, routes
<1>9. \A a \in here : a.repo = r
  OBVIOUS
<1>10. \A a \in consumers : a.repo # r
  BY <1>6
<1>11. there = consumers
  BY <1>5, <1>9, <1>10
<1>12. {a.file : a \in path.affected \ there} = leadTo(deps, f) \ {f}
  <2>1. path.affected \ there = here
    BY <1>5, <1>9, <1>10
  <2>2. /\ \A a \in here : a.file \in leadTo(deps, f) \ {f}
        /\ \A g \in leadTo(deps, f) \ {f} : \E a \in here : a.file = g
    <3>1. \A a \in here : \E g \in leadTo(deps, f) \ {f} : a = [repo |-> r, file |-> g]
      OBVIOUS
    <3>2. \A g \in leadTo(deps, f) \ {f} : [repo |-> r, file |-> g] \in here
      OBVIOUS
    <3>3. \A g : [repo |-> r, file |-> g].file = g
      OBVIOUS
    <3> HIDE DEF here
    <3> QED
      BY <3>1, <3>2, <3>3
  <2> HIDE DEF here, there
  <2> QED
    BY <2>1, <2>2
<1>13. there = mentioning(r, f, manifests[r].endpoints)
  BY <1>6, <1>7, <1>8, <1>11
<1>14. \A a \in mentioning(r, f, routes) : <<a.repo, r>> \in graph.crossRepo
  <2> SUFFICES ASSUME NEW a \in mentioning(r, f, routes)
               PROVE  <<a.repo, r>> \in detectCrossRepoDeps(manifests)
    BY <1>1
  <2>4. PICK c \in RepoId \ {r} : \E x \in manifests[c].exports, e \in routes :
          a.repo = c /\ e.name \in x.mentions
    BY <1>7
  <2>1. PICK x \in manifests[c].exports, e \in routes : a.repo = c /\ e.name \in x.mentions
    BY <2>4
  <2>2. e \in manifests[r].endpoints /\ e.isRoute /\ {e.name, e.handler} \cap x.mentions # {}
    BY <2>1 DEF routes
  <2>3. <<c, r>>[1] = c /\ <<c, r>>[2] = r /\ <<c, r>> \in RepoId \X RepoId /\ c # r
    OBVIOUS
  <2> QED
    BY <2>1, <2>2, <2>3 DEF detectCrossRepoDeps
<1> QED
  BY <1>4, <1>12, <1>13, <1>14 DEF deps, routes

------------------------------------------------------------------------------
(* Contracts. *)

\* Two definitions of a field.
LEMMA FieldsCompared ==
  ASSUME NEW p \in Field, NEW c \in Field
  PROVE  /\ compareFieldDefinitions(p, c) = "mismatch" <=>
              p.type # c.type \/ (isOptionalField(p) /\ ~isOptionalField(c))
         /\ compareFieldDefinitions(p, c) = "exact" <=>
              p.type = c.type /\ isOptionalField(p) = isOptionalField(c)
<1>1. isOptionalField(p) = isOptionalField(c) <=> (isOptionalField(p) <=> isOptionalField(c))
  <2>1. isOptionalField(p) \in BOOLEAN /\ isOptionalField(c) \in BOOLEAN
    BY DEF isOptionalField
  <2> QED
    BY <2>1, Zenon
<1>2. /\ compareFieldDefinitions(p, c) = "mismatch" <=>
           p.type # c.type \/ (isOptionalField(p) /\ ~isOptionalField(c))
      /\ compareFieldDefinitions(p, c) = "exact" <=>
           p.type = c.type /\ (isOptionalField(p) <=> isOptionalField(c))
  BY DEF compareFieldDefinitions
<1> QED
  BY <1>1, <1>2, Zenon

\* The fields of a type are finitely many, and have definitions.
LEMMA FieldsTyped ==
  ASSUME NEW t \in Fields
  PROVE  /\ DOMAIN t \in SUBSET FieldName /\ IsFiniteSet(DOMAIN t)
         /\ \A n \in DOMAIN t : t[n] \in Field
<1>1. PICK S \in SUBSET FieldName : t \in [S -> Field]
  BY DEF Fields
<1> QED
  BY <1>1, GrapherAssumption, FS_Subset

\* Two definitions of a type: the names of fields are compared by their number.
LEMMA TypesCompared ==
  ASSUME NEW ours \in Fields, NEW theirs \in Fields
  PROVE  LET how(n) == compareFieldDefinitions(ours[n], theirs[n])
         IN /\ compareTypes(ours, theirs) = "mismatch" <=>
                 \E n \in DOMAIN theirs : n \notin DOMAIN ours \/ how(n) = "mismatch"
            /\ compareTypes(ours, theirs) = "exact" <=>
                 DOMAIN ours = DOMAIN theirs /\ \A n \in DOMAIN ours : how(n) = "exact"
<1> DEFINE how(n) == IF n \in DOMAIN ours THEN compareFieldDefinitions(ours[n], theirs[n]) ELSE "mismatch"
           all == {how(n) : n \in DOMAIN theirs}
           sameSize == Cardinality(DOMAIN theirs) = Cardinality(DOMAIN ours)
<1>1. compareTypes(ours, theirs) =
        CASE "mismatch" \in all -> "mismatch"
          [] all \subseteq {"exact"} /\ sameSize -> "exact"
          [] OTHER -> "compatible"
  BY DEF compareTypes
<1>2. "mismatch" \in all <=>
        \E n \in DOMAIN theirs : n \notin DOMAIN ours \/ compareFieldDefinitions(ours[n], theirs[n]) = "mismatch"
  OBVIOUS
<1>3. all \subseteq {"exact"} <=>
        DOMAIN theirs \subseteq DOMAIN ours
          /\ \A n \in DOMAIN theirs : compareFieldDefinitions(ours[n], theirs[n]) = "exact"
  <2>1. all \subseteq {"exact"} <=> \A n \in DOMAIN theirs : how(n) = "exact"
    OBVIOUS
  <2>2. \A n : how(n) = "exact" <=>
          n \in DOMAIN ours /\ compareFieldDefinitions(ours[n], theirs[n]) = "exact"
    OBVIOUS
  <2> HIDE DEF all, how
  <2> QED
    BY <2>1, <2>2
<1>4. DOMAIN theirs \subseteq DOMAIN ours => (sameSize <=> DOMAIN theirs = DOMAIN ours)
  BY FieldsTyped, FS_Subset
<1>5. "mismatch" \in all => ~(all \subseteq {"exact"})
  OBVIOUS
<1> HIDE DEF all, sameSize
<1>6. /\ compareTypes(ours, theirs) = "mismatch" <=> "mismatch" \in all
      /\ compareTypes(ours, theirs) = "exact" <=> all \subseteq {"exact"} /\ sameSize
  BY <1>1, <1>5
<1> QED
  BY <1>2, <1>3, <1>4, <1>6

\* The severities of the entries of a bridge that is not exact.
LEMMA SeveritiesOf ==
  ASSUME NEW ms, NEW b,
         LET theirs == ms[b.consumer.repo].types[b.provider.route.output]
         IN theirs # Undefined
  PROVE  LET theirs == ms[b.consumer.repo].types[b.provider.route.output]
             ours == b.output
         IN (\E e \in findContractMismatches(b, ms) : e.severity = "breaking") <=>
              b.status # "exact" /\ \E n \in DOMAIN theirs :
                n \notin DOMAIN ours \/ compareFieldDefinitions(ours[n], theirs[n]) = "mismatch"
<1> DEFINE theirs == ms[b.consumer.repo].types[b.provider.route.output]
           ours == b.output
           both == DOMAIN ours \cap DOMAIN theirs
           how(n) == compareFieldDefinitions(ours[n], theirs[n])
           changed == {[kind |-> "type-mismatch", field |-> n,
                        severity |-> IF how(n) = "mismatch" THEN "breaking" ELSE "warning"]
                         : n \in {x \in both : how(x) # "exact"}}
           extra == {[kind |-> "extra-field", field |-> n, severity |-> "breaking"]
                       : n \in DOMAIN theirs \ DOMAIN ours}
           missing == {[kind |-> "missing-field", field |-> n, severity |-> "info"]
                  : n \in IF b.status = "mismatch" THEN DOMAIN ours \ DOMAIN theirs ELSE {}}
<1>1. findContractMismatches(b, ms) = IF b.status = "exact" THEN {} ELSE changed \cup extra \cup missing
  BY DEF findContractMismatches
<1>2. (\E e \in changed : e.severity = "breaking") <=> \E n \in both : how(n) = "mismatch"
  <2>1. \A e : e \in changed <=> \E n \in both : how(n) # "exact" /\
          e = [kind |-> "type-mismatch", field |-> n,
               severity |-> IF how(n) = "mismatch" THEN "breaking" ELSE "warning"]
    OBVIOUS
  <2> HIDE DEF changed, how, both
  <2>2. ASSUME NEW e \in changed, e.severity = "breaking" PROVE \E n \in both : how(n) = "mismatch"
    BY <2>1, <2>2
  <2>3. ASSUME NEW n \in both, how(n) = "mismatch" PROVE \E e \in changed : e.severity = "breaking"
    <3> DEFINE e == [kind |-> "type-mismatch", field |-> n,
                     severity |-> IF how(n) = "mismatch" THEN "breaking" ELSE "warning"]
    <3>1. e \in changed /\ e.severity = "breaking"
      BY <2>1, <2>3
    <3> QED
      BY <3>1
  <2> QED
    BY <2>2, <2>3
<1>3. (\E e \in extra : e.severity = "breaking") <=> \E n \in DOMAIN theirs : n \notin DOMAIN ours
  <2>1. \A e \in extra : e.severity = "breaking"
    OBVIOUS
  <2>2. extra # {} <=> \E n \in DOMAIN theirs : n \notin DOMAIN ours
    OBVIOUS
  <2> QED
    BY <2>1, <2>2
<1>4. \A e \in missing : e.severity = "info"
  OBVIOUS
<1> HIDE DEF changed, extra, missing, how
<1>5. (\E e \in findContractMismatches(b, ms) : e.severity = "breaking") <=>
        b.status # "exact" /\ ((\E n \in both : how(n) = "mismatch")
                              \/ \E n \in DOMAIN theirs : n \notin DOMAIN ours)
  BY <1>1, <1>2, <1>3, <1>4
<1> HIDE DEF theirs, ours
<1>6. ((\E n \in both : how(n) = "mismatch") \/ \E n \in DOMAIN theirs : n \notin DOMAIN ours)
        <=> \E n \in DOMAIN theirs : n \notin DOMAIN ours \/ how(n) = "mismatch"
  OBVIOUS
<1> QED
  BY <1>5, <1>6 DEF theirs, ours, how

LEMMA StatusOf ==
  ASSUME manifests \in [RepoId -> RepoManifest], graph = buildEcosystemGraph(manifests)
  PROVE  StatusExplained
<1> SUFFICES ASSUME NEW m \in graph.mismatches
             PROVE
    LET b == m.bridge
        ours == manifests[b.provider.repo].types[b.provider.route.output]
        theirs == manifests[b.consumer.repo].types[b.provider.route.output]
        severities == {e.severity : e \in m.entries}
    IN ours # Undefined /\ theirs # Undefined =>
         /\ b.status = "mismatch" <=> "breaking" \in severities
         /\ b.status = "exact" <=>
              /\ DOMAIN ours = DOMAIN theirs
              /\ \A n \in DOMAIN ours : /\ ours[n].type = theirs[n].type
                                        /\ isOptionalField(ours[n]) = isOptionalField(theirs[n])
         /\ b.status = "mismatch" <=>
              \E n \in DOMAIN theirs :
                \/ n \notin DOMAIN ours
                \/ ours[n].type # theirs[n].type
                \/ isOptionalField(ours[n]) /\ ~isOptionalField(theirs[n])
  BY DEF StatusExplained
<1> DEFINE b == m.bridge
           ours == manifests[b.provider.repo].types[b.provider.route.output]
           theirs == manifests[b.consumer.repo].types[b.provider.route.output]
           how(n) == compareFieldDefinitions(ours[n], theirs[n])
<1>1. b \in mapApiContracts(manifests) /\ m.entries = findContractMismatches(b, manifests)
  <2>1. graph.mismatches = {[bridge |-> x, entries |-> findContractMismatches(x, manifests)]
                              : x \in mapApiContracts(manifests)}
    BY DEF buildEcosystemGraph
  <2> QED
    BY <2>1
<1>2. PICK p \in RepoId, c \in RepoId :
        \E e \in manifests[p].endpoints, x \in manifests[c].exports : b = bridgeOf(manifests, p, e, c, x)
  BY <1>1, BridgesOf
<1>3. PICK e \in manifests[p].endpoints, x \in manifests[c].exports : b = bridgeOf(manifests, p, e, c, x)
  BY <1>2
<1>4. b.provider.repo = p /\ b.provider.route = e /\ b.consumer.repo = c
  BY <1>3 DEF bridgeOf
<1> SUFFICES ASSUME ours # Undefined, theirs # Undefined
             PROVE
         /\ b.status = "mismatch" <=> "breaking" \in {y.severity : y \in m.entries}
         /\ b.status = "exact" <=>
              /\ DOMAIN ours = DOMAIN theirs
              /\ \A n \in DOMAIN ours : /\ ours[n].type = theirs[n].type
                                        /\ isOptionalField(ours[n]) = isOptionalField(theirs[n])
         /\ b.status = "mismatch" <=>
              \E n \in DOMAIN theirs :
                \/ n \notin DOMAIN ours
                \/ ours[n].type # theirs[n].type
                \/ isOptionalField(ours[n]) /\ ~isOptionalField(theirs[n])
  OBVIOUS
<1>5. ours = manifests[p].types[e.output] /\ theirs = manifests[c].types[e.output]
  BY <1>4
<1>6. ours \in Fields /\ theirs \in Fields
  <2>1. e.output \in TypeName
    BY <1>3 DEF RepoManifest
  <2>2. manifests[p].types \in [TypeName -> Fields \cup {Undefined}]
        /\ manifests[c].types \in [TypeName -> Fields \cup {Undefined}]
    BY DEF RepoManifest
  <2> QED
    BY <1>5, <2>1, <2>2
<1>7. b.status = compareTypes(ours, theirs) /\ b.output = ours
  BY <1>3, <1>5 DEF bridgeOf
<1>8. (\E y \in m.entries : y.severity = "breaking") <=>
        b.status # "exact" /\ \E n \in DOMAIN theirs : n \notin DOMAIN ours \/ how(n) = "mismatch"
  <2>1. theirs # Undefined
    OBVIOUS
  <2>2. b.output = ours /\ m.entries = findContractMismatches(b, manifests)
    BY <1>1, <1>7
  <2>3. theirs = manifests[b.consumer.repo].types[b.provider.route.output]
    OBVIOUS
  <2> HIDE DEF b, ours, theirs
  <2>4. (\E y \in findContractMismatches(b, manifests) : y.severity = "breaking") <=>
          b.status # "exact" /\ \E n \in DOMAIN theirs :
            n \notin DOMAIN b.output \/ compareFieldDefinitions(b.output[n], theirs[n]) = "mismatch"
    BY <2>1, <2>3, SeveritiesOf
  <2> QED
    BY <2>2, <2>4
<1>9. \A n \in DOMAIN ours : n \in DOMAIN theirs =>
        /\ how(n) = "mismatch" <=>
             ours[n].type # theirs[n].type \/ (isOptionalField(ours[n]) /\ ~isOptionalField(theirs[n]))
        /\ how(n) = "exact" <=> /\ ours[n].type = theirs[n].type
                                /\ isOptionalField(ours[n]) = isOptionalField(theirs[n])
  BY <1>6, FieldsTyped, FieldsCompared
<1>10. /\ b.status = "mismatch" <=> \E n \in DOMAIN theirs : n \notin DOMAIN ours \/ how(n) = "mismatch"
       /\ b.status = "exact" <=> DOMAIN ours = DOMAIN theirs /\ \A n \in DOMAIN ours : how(n) = "exact"
  <2> HIDE DEF b, ours, theirs
  <2> QED
    BY <1>6, <1>7, TypesCompared
<1>14. "breaking" \in {y.severity : y \in m.entries} <=> \E y \in m.entries : y.severity = "breaking"
  OBVIOUS
<1> HIDE DEF b, ours, theirs, how
<1>11. b.status = "mismatch" <=> "breaking" \in {y.severity : y \in m.entries}
  BY <1>8, <1>10, <1>14
<1>12. b.status = "exact" <=>
         /\ DOMAIN ours = DOMAIN theirs
         /\ \A n \in DOMAIN ours : /\ ours[n].type = theirs[n].type
                                   /\ isOptionalField(ours[n]) = isOptionalField(theirs[n])
  BY <1>9, <1>10
<1>13. b.status = "mismatch" <=>
         \E n \in DOMAIN theirs :
           \/ n \notin DOMAIN ours
           \/ ours[n].type # theirs[n].type
           \/ isOptionalField(ours[n]) /\ ~isOptionalField(theirs[n])
  BY <1>9, <1>10
<1> QED
  BY <1>11, <1>12, <1>13

------------------------------------------------------------------------------
(* Lineages. *)

\* A set spans repositories if it has instances of two.
LEMMA SpansTwo ==
  ASSUME NEW is \in SUBSET (RepoId \X TypeName)
  PROVE  /\ \A i, j \in is : i[1] # j[1] => spans(is)
         /\ spans(is) => is # {}
<1> DEFINE repos == {i[1] : i \in is}
<1>1. repos \in SUBSET RepoId
  OBVIOUS
<1>2. IsFiniteSet(repos) /\ Cardinality(repos) \in Nat
  <2> HIDE DEF repos
  <2> QED
    BY <1>1, GrapherAssumption, FS_Subset, FS_CardinalityType
<1>3. repos = {} => Cardinality(repos) = 0
  BY FS_EmptySet
<1>4. ASSUME NEW i \in is, NEW j \in is, i[1] # j[1] PROVE Cardinality(repos) > 1
  <2>1. i[1] \in repos /\ j[1] \in repos
    OBVIOUS
  <2> HIDE DEF repos
  <2>2. Cardinality(repos) # 0
    BY <1>2, <2>1, FS_EmptySet
  <2>3. Cardinality(repos) # 1
    <3> SUFFICES ASSUME Cardinality(repos) = 1 PROVE FALSE
      OBVIOUS
    <3>1. PICK x : repos = {x}
      BY <1>2, FS_Singleton
    <3> QED
      BY <1>4, <2>1, <3>1
  <2> QED
    BY <1>2, <2>2, <2>3
<1>5. spans(is) <=> Cardinality(repos) > 1
  BY DEF spans
<1>6. is = {} => repos = {}
  OBVIOUS
<1> HIDE DEF repos
<1> QED
  BY <1>3, <1>4, <1>5, <1>6

\* Aligned means that there is one set of fields.
LEMMA AlignedOne ==
  ASSUME NEW sets, IsFiniteSet(sets), sets # {}
  PROVE  determineAlignment(sets) = "aligned" <=> \A s, t \in sets : s = t
<1>1. determineAlignment(sets) = "aligned" <=> Cardinality(sets) = 1
  BY DEF determineAlignment
<1>2. Cardinality(sets) = 1 <=> \E x : sets = {x}
  BY FS_Singleton
<1> QED
  BY <1>1, <1>2

\* Which types a lineage joins.
LEMMA Joined ==
  ASSUME NEW ms, NEW c
  PROVE  /\ named(ms, c) \in SUBSET instances(ms) /\ alike(ms, c) \in SUBSET instances(ms)
         /\ \A i, j \in ungrouped(ms) :
              /\ i[1] < j[1]
              /\ similar(ms[i[1]].types[i[2]], ms[j[1]].types[j[2]])
              /\ pickConceptName[<<i[2], j[2]>>] = c
              => i \in alike(ms, c) /\ j \in alike(ms, c)
<1> DEFINE pairs == {p \in ungrouped(ms) \X ungrouped(ms) :
                       /\ p[1][1] < p[2][1]
                       /\ similar(ms[p[1][1]].types[p[1][2]], ms[p[2][1]].types[p[2][2]])
                       /\ pickConceptName[<<p[1][2], p[2][2]>>] = c}
<1>1. named(ms, c) \in SUBSET instances(ms)
  BY DEF named
<1>2. ungrouped(ms) \in SUBSET instances(ms)
  BY DEF ungrouped
<1>3. alike(ms, c) = UNION {{q[1], q[2]} : q \in pairs}
  BY DEF alike
<1>4. \A q \in pairs : q[1] \in ungrouped(ms) /\ q[2] \in ungrouped(ms)
  OBVIOUS
<1>5. alike(ms, c) \in SUBSET instances(ms)
  <2> HIDE DEF pairs
  <2> QED
    BY <1>2, <1>3, <1>4
<1>6. ASSUME NEW i \in ungrouped(ms), NEW j \in ungrouped(ms), i[1] < j[1],
             similar(ms[i[1]].types[i[2]], ms[j[1]].types[j[2]]), pickConceptName[<<i[2], j[2]>>] = c
      PROVE  i \in alike(ms, c) /\ j \in alike(ms, c)
  <2> DEFINE q == <<i, j>>
  <2>1. q[1] = i /\ q[2] = j /\ q \in ungrouped(ms) \X ungrouped(ms)
    OBVIOUS
  <2> HIDE DEF q
  <2>2. q \in pairs
    BY <1>6, <2>1
  <2> HIDE DEF pairs
  <2> QED
    BY <1>3, <2>1, <2>2
<1> QED
  BY <1>1, <1>5, <1>6

LEMMA LineagesOf ==
  ASSUME manifests \in [RepoId -> RepoManifest], graph = buildEcosystemGraph(manifests)
  PROVE  LineagesJoin
<1> DEFINE ms == manifests
           gathered(c) == named(ms, c) \cup alike(ms, c)
           fields(i) == ms[i[1]].types[i[2]]
<1>1. instances(ms) \in SUBSET (RepoId \X TypeName)
  BY DEF instances
<1>2. graph.sharedTypes = {flowOf(ms, c) : c \in {d \in Concept : spans(gathered(d))}}
  BY DEF buildEcosystemGraph, mapTypeFlows
<1>3. \A c : gathered(c) \in SUBSET instances(ms) /\ gathered(c) \in SUBSET (RepoId \X TypeName)
  BY <1>1, Joined
<1>4. \A c : flowOf(ms, c).instances = gathered(c)
             /\ flowOf(ms, c).alignment = determineAlignment({DOMAIN fields(i) : i \in gathered(c)})
  BY DEF flowOf
<1>5. \A i, j : similar(fields(i), fields(j)) => similar(fields(j), fields(i))
  <2> SUFFICES ASSUME NEW i, NEW j, similar(fields(i), fields(j)) PROVE similar(fields(j), fields(i))
    OBVIOUS
  <2>1. /\ DOMAIN fields(i) \cap DOMAIN fields(j) = DOMAIN fields(j) \cap DOMAIN fields(i)
        /\ DOMAIN fields(i) \cup DOMAIN fields(j) = DOMAIN fields(j) \cup DOMAIN fields(i)
    OBVIOUS
  <2> QED
    BY <2>1 DEF similar
<1>6. ASSUME NEW i \in instances(ms), NEW j \in instances(ms), i[1] # j[1],
             \/ i[2] = j[2]
             \/ {i, j} \subseteq ungrouped(ms) /\ similar(fields(i), fields(j))
      PROVE  \E c \in Concept : i \in gathered(c) /\ j \in gathered(c)
  <2>1. i[1] \in RepoId /\ j[1] \in RepoId /\ i[2] \in TypeName /\ j[2] \in TypeName
        /\ i[1] \in Int /\ j[1] \in Int
    BY <1>1, GrapherAssumption
  <2>2. CASE i[2] = j[2]
    <3>1. PICK c \in Concept : c \in conceptNames[i[2]]
      BY <2>1, GrapherAssumption
    <3>2. i \in named(ms, c) /\ j \in named(ms, c)
      BY <2>2, <3>1 DEF named
    <3> QED
      BY <3>2
  <2>3. CASE {i, j} \subseteq ungrouped(ms) /\ similar(fields(i), fields(j))
    <3>1. CASE i[1] < j[1]
      <4> DEFINE c == pickConceptName[<<i[2], j[2]>>]
      <4>1. c \in Concept
        BY <2>1, GrapherAssumption
      <4>2. i \in alike(ms, c) /\ j \in alike(ms, c)
        BY <2>3, <3>1, Joined
      <4> QED
        BY <4>1, <4>2
    <3>2. CASE j[1] < i[1]
      <4> DEFINE c == pickConceptName[<<j[2], i[2]>>]
      <4>1. c \in Concept
        BY <2>1, GrapherAssumption
      <4>2. similar(fields(j), fields(i))
        BY <1>5, <2>3
      <4>3. i \in alike(ms, c) /\ j \in alike(ms, c)
        BY <2>3, <3>2, <4>2, Joined
      <4> QED
        BY <4>1, <4>3
    <3> QED
      BY <1>6, <2>1, <3>1, <3>2
  <2> QED
    BY <1>6, <2>2, <2>3
<1>7. \A i, j \in instances(ms) :
        /\ i[1] # j[1]
        /\ \/ i[2] = j[2]
           \/ {i, j} \subseteq ungrouped(ms) /\ similar(fields(i), fields(j))
        => \E l \in graph.sharedTypes : {i, j} \subseteq l.instances
  <2> SUFFICES ASSUME NEW i \in instances(ms), NEW j \in instances(ms), i[1] # j[1],
                      \/ i[2] = j[2]
                      \/ {i, j} \subseteq ungrouped(ms) /\ similar(fields(i), fields(j))
               PROVE  \E l \in graph.sharedTypes : {i, j} \subseteq l.instances
    OBVIOUS
  <2>1. PICK c \in Concept : i \in gathered(c) /\ j \in gathered(c)
    BY <1>6
  <2> HIDE DEF gathered
  <2>2. spans(gathered(c))
    BY <1>3, <2>1, SpansTwo
  <2>3. flowOf(ms, c) \in graph.sharedTypes /\ {i, j} \subseteq flowOf(ms, c).instances
    BY <1>2, <1>4, <2>1, <2>2
  <2> QED
    BY <2>3
<1>8. ASSUME NEW l \in graph.sharedTypes
      PROVE  /\ spans(l.instances)
             /\ l.alignment = "aligned" <=>
                  \A i, j \in l.instances : DOMAIN fields(i) = DOMAIN fields(j)
  <2>1. PICK c \in Concept : spans(gathered(c)) /\ l = flowOf(ms, c)
    BY <1>2
  <2> DEFINE sets == {DOMAIN fields(i) : i \in gathered(c)}
  <2>2. l.instances = gathered(c) /\ l.alignment = determineAlignment(sets)
    BY <1>4, <2>1
  <2>3. gathered(c) # {}
    <3> HIDE DEF gathered
    <3> QED
      BY <1>3, <2>1, SpansTwo
  <2>4. \A i \in instances(ms) : DOMAIN fields(i) \in SUBSET FieldName
    <3> SUFFICES ASSUME NEW i \in instances(ms) PROVE DOMAIN fields(i) \in SUBSET FieldName
      OBVIOUS
    <3>1. i[1] \in RepoId /\ i[2] \in TypeName /\ fields(i) # Undefined
      BY <1>1 DEF instances
    <3>2. ms[i[1]].types \in [TypeName -> Fields \cup {Undefined}]
      BY <3>1 DEF RepoManifest
    <3>3. fields(i) \in Fields
      BY <3>1, <3>2
    <3> QED
      BY <3>3, FieldsTyped
  <2> HIDE DEF gathered, fields
  <2>5. sets \in SUBSET (SUBSET FieldName) /\ sets # {}
    BY <1>3, <2>3, <2>4
  <2>6. IsFiniteSet(sets)
    <3> HIDE DEF sets
    <3> QED
      BY <2>5, GrapherAssumption, FS_SUBSET, FS_Subset
  <2>7. (\A s, t \in sets : s = t) <=> \A i, j \in gathered(c) : DOMAIN fields(i) = DOMAIN fields(j)
    OBVIOUS
  <2>8. determineAlignment(sets) = "aligned" <=> \A s, t \in sets : s = t
    <3> HIDE DEF sets
    <3> QED
      BY <2>5, <2>6, AlignedOne
  <2> HIDE DEF sets
  <2> QED
    BY <2>1, <2>2, <2>7, <2>8
<1> QED
  BY <1>7, <1>8 DEF LineagesJoin

------------------------------------------------------------------------------

GraphInv ==
  /\ manifests \in Ecosystem
  /\ graph = NoGraph \/ graph = buildEcosystemGraph(manifests)
  /\ GraphExplained

\* What the graph says is so whatever the manifests are: an impact is just what leads to
\* the change, a status agrees with the entries of its mismatches, and a lineage joins
\* just the types that belong together.
THEOREM GraphCorrect == GrapherSpec => []GraphExplained
<1>1. GrapherInit => GraphInv
  <2> SUFFICES ASSUME GrapherInit PROVE GraphInv
    OBVIOUS
  <2>1. ~graph.built
    BY DEF GrapherInit, NoGraph
  <2> QED
    BY <2>1 DEF GrapherInit, GraphInv, GraphExplained, ImpactIsReach, StatusExplained, LineagesJoin
<1>2. GraphInv /\ [BuildGraph]_graphVars => GraphInv'
  <2> SUFFICES ASSUME GraphInv, [BuildGraph]_graphVars PROVE GraphInv'
    OBVIOUS
  <2>1. CASE BuildGraph
    <3>1. manifests' = manifests /\ graph' = buildEcosystemGraph(manifests)
      BY <2>1 DEF BuildGraph
    <3>2. (manifests \in [RepoId -> RepoManifest])' /\ (graph = buildEcosystemGraph(manifests))'
      BY <3>1, GrapherAssumption DEF GraphInv
    <3>3. ImpactIsReach' /\ StatusExplained' /\ LineagesJoin'
      BY <3>2, ImpactOf, StatusOf, LineagesOf, PTL
    <3> QED
      BY <3>1, <3>3 DEF GraphInv, GraphExplained
  <2>2. CASE UNCHANGED graphVars
    <3>1. manifests' = manifests /\ graph' = graph
      BY <2>2 DEF graphVars
    <3>2. CASE graph = buildEcosystemGraph(manifests)
      <4>1. (manifests \in [RepoId -> RepoManifest])' /\ (graph = buildEcosystemGraph(manifests))'
        BY <3>1, <3>2, GrapherAssumption DEF GraphInv
      <4>2. ImpactIsReach' /\ StatusExplained' /\ LineagesJoin'
        BY <4>1, ImpactOf, StatusOf, LineagesOf, PTL
      <4> QED
        BY <3>1, <4>2 DEF GraphInv, GraphExplained
    <3>3. CASE graph = NoGraph
      <4>1. ~graph'.built
        BY <3>1, <3>3 DEF NoGraph
      <4> QED
        BY <3>1, <4>1 DEF GraphInv, GraphExplained, ImpactIsReach, StatusExplained, LineagesJoin
    <3> QED
      BY <3>2, <3>3 DEF GraphInv
  <2> QED
    BY <2>1, <2>2
<1>3. GraphInv => GraphExplained
  BY DEF GraphInv
<1> QED
  BY <1>1, <1>2, <1>3, PTL DEF GrapherSpec

------------------------------------------------------------------------------
(* Context. *)

(* Sums. *)

\* The sum of the first k costs, for every k.
Sums(c, p) ==
  /\ p \in [0 .. Len(c) -> Int]
  /\ p[0] = 0
  /\ \A k \in 1 .. Len(c) : p[k] = p[k - 1] + c[k]

\* Two series of sums of the same costs are the same as far as both go.
LEMMA SameSums ==
  ASSUME NEW c \in Seq(Int), NEW d \in Seq(Int), NEW p, NEW q, Sums(c, p), Sums(d, q),
         NEW m \in Nat, m <= Len(c), m <= Len(d), \A k \in 1 .. m : c[k] = d[k]
  PROVE  p[m] = q[m]
<1> DEFINE T == {k \in 0 .. m : p[k] = q[k]}
<1>1. 0 \in T
  BY DEF Sums
<1>2. ASSUME NEW k \in 1 .. m, k - 1 \in T PROVE k \in T
  <2>1. p[k - 1] = q[k - 1] /\ k \in 1 .. Len(c) /\ k \in 1 .. Len(d) /\ c[k] = d[k]
    BY <1>2
  <2>2. p[k] = p[k - 1] + c[k] /\ q[k] = q[k - 1] + d[k]
    BY <2>1 DEF Sums
  <2> QED
    BY <2>1, <2>2
<1> HIDE DEF T
<1>3. \A k \in 0 .. m : k \in T
  BY <1>1, <1>2, EachStep
<1> QED
  BY <1>3 DEF T

\* The sum is the last of the sums.
LEMMA SummedUp ==
  ASSUME NEW c \in Seq(Int)
  PROVE  \E p : Sums(c, p) /\ sum(c) = p[Len(c)]
<1> DEFINE l == Len(c)
           Upto(g) == g = [n \in 0 .. l |-> IF n = 0 THEN 0 ELSE g[n - 1] + c[n]]
           step == [k \in 1 .. l |-> [x \in Int |-> x + c[k]]]
<1>1. l \in Nat /\ \A k \in 1 .. l : c[k] \in Int
  OBVIOUS
<1>2. step \in [1 .. l -> [Int -> Int]] /\ \A k \in 1 .. l : \A x \in Int : step[k][x] = x + c[k]
  <2>1. ASSUME NEW k \in 1 .. l PROVE [x \in Int |-> x + c[k]] \in [Int -> Int]
    BY <1>1
  <2> QED
    BY <2>1
<1> HIDE DEF l, step
<1>3. PICK r \in [0 .. l -> Int] : Iterates(r, l, step, 0)
  <2>1. 0 \in Int
    OBVIOUS
  <2> QED
    BY <1>1, <1>2, <2>1, Iteration
<1>4. Upto(r)
  <2>1. ASSUME NEW k \in 0 .. l PROVE r[k] = IF k = 0 THEN 0 ELSE r[k - 1] + c[k]
    <3>1. CASE k = 0
      BY <1>3, <3>1 DEF Iterates
    <3>2. CASE k # 0
      <4>1. k \in 1 .. l /\ r[k - 1] \in Int
        BY <1>1, <1>3, <3>2
      <4> QED
        BY <1>2, <1>3, <3>2, <4>1 DEF Iterates
    <3> QED
      BY <3>1, <3>2
  <2> QED
    BY <1>3, <2>1
<1> DEFINE f == CHOOSE g : Upto(g)
<1>5. Upto(f)
  <2> HIDE DEF Upto
  <2> QED
    BY <1>4
<1>6. sum(c) = f[l]
  BY DEF sum, l
<1> HIDE DEF f
<1>7. \A k \in 0 .. l : f[k] = IF k = 0 THEN 0 ELSE f[k - 1] + c[k]
  BY <1>5, Zenon
<1>8. f[0] = 0 /\ \A k \in 1 .. l : f[k] = f[k - 1] + c[k]
  <2>1. 0 \in 0 .. l /\ \A k \in 1 .. l : k \in 0 .. l /\ k # 0
    BY <1>1
  <2> QED
    BY <1>7, <2>1
<1>9. \A k \in 0 .. l : f[k] \in Int
  <2> DEFINE T == {k \in 0 .. l : f[k] \in Int}
  <2>1. 0 \in T
    BY <1>1, <1>8
  <2>2. ASSUME NEW k \in 1 .. l, k - 1 \in T PROVE k \in T
    <3>1. f[k - 1] \in Int /\ c[k] \in Int /\ k \in 0 .. l
      BY <1>1, <2>2
    <3>2. f[k] = f[k - 1] + c[k]
      BY <1>8
    <3>3. f[k] \in Int
      BY <3>1, <3>2
    <3> QED
      BY <3>1, <3>3
  <2> HIDE DEF T
  <2>3. \A k \in 0 .. l : k \in T
    BY <1>1, <2>1, <2>2, EachStep
  <2> QED
    BY <2>3 DEF T
<1>10. f \in [0 .. l -> Int]
  <2>1. f = [n \in 0 .. l |-> IF n = 0 THEN 0 ELSE f[n - 1] + c[n]]
    BY <1>5
  <2> QED
    BY <1>9, <2>1
<1>11. Sums(c, f)
  BY <1>8, <1>10 DEF Sums, l
<1> QED
  BY <1>6, <1>11 DEF l

\* One more cost; and nothing costs nothing.
LEMMA SumOfAppend ==
  ASSUME NEW c \in Seq(Int), NEW x \in Int
  PROVE  /\ sum(c) \in Int
         /\ sum(<<>>) = 0
         /\ sum(Append(c, x)) = sum(c) + x
<1> DEFINE d == Append(c, x)
<1>1. d \in Seq(Int) /\ Len(d) = Len(c) + 1 /\ d[Len(d)] = x /\ \A k \in 1 .. Len(c) : d[k] = c[k]
  OBVIOUS
<1> HIDE DEF d
<1>2. PICK p : Sums(c, p) /\ sum(c) = p[Len(c)]
  BY SummedUp
<1>3. PICK q : Sums(d, q) /\ sum(d) = q[Len(d)]
  BY <1>1, SummedUp
<1>4. p[Len(c)] = q[Len(c)]
  BY <1>1, <1>2, <1>3, SameSums, SMTT(30)
<1>5. sum(c) \in Int
  BY <1>2 DEF Sums
<1>6. sum(d) = sum(c) + x
  BY <1>1, <1>2, <1>3, <1>4 DEF Sums
<1>7. sum(<<>>) = 0
  <2>1. <<>> \in Seq(Int) /\ Len(<<>>) = 0
    OBVIOUS
  <2>2. PICK e : Sums(<<>>, e) /\ sum(<<>>) = e[Len(<<>>)]
    BY <2>1, SummedUp
  <2> QED
    BY <2>1, <2>2 DEF Sums
<1> QED
  BY <1>5, <1>6, <1>7 DEF d

\* The last cost taken off.
LEMMA SumOfFront ==
  ASSUME NEW c \in Seq(Nat), c # <<>>
  PROVE  /\ SubSeq(c, 1, Len(c) - 1) \in Seq(Nat)
         /\ sum(c) = sum(SubSeq(c, 1, Len(c) - 1)) + c[Len(c)]
<1> DEFINE d == SubSeq(c, 1, Len(c) - 1)
           x == c[Len(c)]
<1>1. d \in Seq(Nat) /\ c = Append(d, x) /\ x \in Nat
  OBVIOUS
<1>2. d \in Seq(Int) /\ x \in Int
  BY <1>1
<1> HIDE DEF d, x
<1>3. sum(c) = sum(d) + x
  BY <1>1, <1>2, SumOfAppend
<1> QED
  BY <1>1, <1>3 DEF d, x

\* Term by term: the difference of two series, and a series no term of which is above
\* one of another.
LEMMA SumOfDifference ==
  ASSUME NEW c \in Seq(Int), NEW d \in Seq(Int), NEW e \in Seq(Int),
         Len(d) = Len(c), Len(e) = Len(c), \A k \in 1 .. Len(c) : e[k] = c[k] - d[k]
  PROVE  sum(e) = sum(c) - sum(d)
<1>1. PICK p : Sums(c, p) /\ sum(c) = p[Len(c)]
  BY SummedUp
<1>2. PICK q : Sums(d, q) /\ sum(d) = q[Len(d)]
  BY SummedUp
<1>3. PICK r : Sums(e, r) /\ sum(e) = r[Len(e)]
  BY SummedUp
<1> DEFINE l == Len(c)
           T == {k \in 0 .. l : r[k] = p[k] - q[k]}
<1>4. l \in Nat /\ \A k \in 1 .. l : c[k] \in Int /\ d[k] \in Int
  OBVIOUS
<1>5. /\ p[0] = 0 /\ q[0] = 0 /\ r[0] = 0
      /\ \A k \in 1 .. l : p[k] = p[k - 1] + c[k] /\ q[k] = q[k - 1] + d[k] /\ r[k] = r[k - 1] + e[k]
      /\ \A k \in 0 .. l : p[k] \in Int /\ q[k] \in Int /\ r[k] \in Int
  BY <1>1, <1>2, <1>3 DEF Sums
<1>6. \A k \in 1 .. l : e[k] = c[k] - d[k]
  OBVIOUS
<1>7. sum(c) = p[l] /\ sum(d) = q[l] /\ sum(e) = r[l]
  BY <1>1, <1>2, <1>3
<1> HIDE DEF l
<1>8. 0 \in T
  BY <1>4, <1>5
<1>9. ASSUME NEW k \in 1 .. l, k - 1 \in T PROVE k \in T
  <2>1. k \in 0 .. l /\ k - 1 \in 0 .. l
    BY <1>4
  <2>2. r[k - 1] = p[k - 1] - q[k - 1]
    BY <1>9
  <2>3. p[k] = p[k - 1] + c[k] /\ q[k] = q[k - 1] + d[k] /\ r[k] = r[k - 1] + e[k]
    BY <1>5
  <2>4. p[k - 1] \in Int /\ q[k - 1] \in Int /\ c[k] \in Int /\ d[k] \in Int /\ e[k] = c[k] - d[k]
    BY <1>4, <1>5, <1>6, <2>1
  <2>5. \A a, b, x, y \in Int : (a - b) + (x - y) = (a + x) - (b + y)
    OBVIOUS
  <2>6. r[k] = p[k] - q[k]
    BY <2>2, <2>3, <2>4, <2>5, SMTT(30)
  <2> QED
    BY <2>1, <2>6
<1> HIDE DEF T
<1>10. \A k \in 0 .. l : k \in T
  BY <1>4, <1>8, <1>9, EachStep
<1> QED
  BY <1>4, <1>7, <1>10 DEF T

\* Terms are no less than those of another series: neither is the sum.
LEMMA SumOfMore ==
  ASSUME NEW c \in Seq(Int), NEW d \in Seq(Int), Len(d) = Len(c), \A k \in 1 .. Len(c) : c[k] <= d[k]
  PROVE  sum(c) <= sum(d)
<1>1. PICK p : Sums(c, p) /\ sum(c) = p[Len(c)]
  BY SummedUp
<1>2. PICK q : Sums(d, q) /\ sum(d) = q[Len(d)]
  BY SummedUp
<1> DEFINE l == Len(c)
           T == {k \in 0 .. l : p[k] <= q[k]}
<1>3. l \in Nat /\ \A k \in 1 .. l : c[k] \in Int /\ d[k] \in Int /\ c[k] <= d[k]
  OBVIOUS
<1>4. /\ p[0] = 0 /\ q[0] = 0
      /\ \A k \in 1 .. l : p[k] = p[k - 1] + c[k] /\ q[k] = q[k - 1] + d[k]
      /\ \A k \in 0 .. l : p[k] \in Int /\ q[k] \in Int
  BY <1>1, <1>2 DEF Sums
<1>5. sum(c) = p[l] /\ sum(d) = q[l]
  BY <1>1, <1>2
<1> HIDE DEF l
<1>6. 0 \in T
  BY <1>3, <1>4
<1>7. ASSUME NEW k \in 1 .. l, k - 1 \in T PROVE k \in T
  <2>1. k \in 0 .. l /\ k - 1 \in 0 .. l
    BY <1>3
  <2>2. p[k - 1] <= q[k - 1]
    BY <1>7
  <2>3. p[k] = p[k - 1] + c[k] /\ q[k] = q[k - 1] + d[k]
    BY <1>4
  <2>4. p[k - 1] \in Int /\ q[k - 1] \in Int /\ c[k] \in Int /\ d[k] \in Int /\ c[k] <= d[k]
    BY <1>3, <1>4, <2>1
  <2>5. \A a, b, x, y \in Int : a <= b /\ x <= y => a + x <= b + y
    OBVIOUS
  <2>6. p[k] <= q[k]
    BY <2>2, <2>3, <2>4, <2>5
  <2> QED
    BY <2>1, <2>6
<1> HIDE DEF T
<1>8. \A k \in 0 .. l : k \in T
  BY <1>3, <1>6, <1>7, EachStep
<1> QED
  BY <1>3, <1>5, <1>8 DEF T

(* Pruning. *)

Costs == [Section -> Seq(Nat)]
\* A section without its last item, and the sections when one of them loses it.
frontOf(c) == SubSeq(c, 1, Len(c) - 1)
less(sections, s) == [sections EXCEPT ![s] = frontOf(sections[s])]

Dropped == [section : Section \cup {"conventions"}, cost : Int]

\* Every section has one phase, whatever the order; the conventions are not the last.
LEMMA PhaseOrder ==
  ASSUME NEW prioritize, NEW focus, NEW order, order = phases(prioritize, focus)
  PROVE  /\ DOMAIN order = 1 .. 7 /\ Len(order) = 7
         /\ \A i \in 1 .. 7 : order[i] \in Section \cup {"conventions"}
         /\ \A i, j \in 1 .. 7 : order[i] = order[j] => i = j
         /\ \A s \in Section : s # "conventions" /\ \E i \in 1 .. 7 : order[i] = s
         /\ order[7] # "conventions"
<1> DEFINE Ordered(p) == /\ DOMAIN p = 1 .. 7 /\ Len(p) = 7
                         /\ \A i \in 1 .. 7 : p[i] \in Section \cup {"conventions"}
                         /\ \A i, j \in 1 .. 7 : p[i] = p[j] => i = j
                         /\ \A s \in Section : s # "conventions" /\ \E i \in 1 .. 7 : p[i] = s
                         /\ p[7] # "conventions"
<1>1. CASE focus = "commits" /\ prioritize = "changed-files-first"
  <2> DEFINE p == <<"conventions", "sharedTypes", "types", "bridges", "impactPaths", "routes", "commits">>
  <2>1. order = p
    BY <1>1 DEF phases
  <2>2. Ordered(p)
    BY DEF Section
  <2> QED
    BY <2>1, <2>2
<1>2. CASE focus = "commits" /\ prioritize # "changed-files-first"
  <2> DEFINE p == <<"conventions", "types", "bridges", "sharedTypes", "impactPaths", "routes", "commits">>
  <2>1. order = p
    BY <1>2 DEF phases
  <2>2. Ordered(p)
    BY DEF Section
  <2> QED
    BY <2>1, <2>2
<1>3. CASE focus # "commits" /\ prioritize = "changed-files-first"
  <2> DEFINE p == <<"commits", "conventions", "sharedTypes", "types", "bridges", "impactPaths", "routes">>
  <2>1. order = p
    BY <1>3 DEF phases
  <2>2. Ordered(p)
    BY DEF Section
  <2> QED
    BY <2>1, <2>2
<1>4. CASE focus # "commits" /\ prioritize # "changed-files-first"
  <2> DEFINE p == <<"commits", "conventions", "types", "bridges", "sharedTypes", "impactPaths", "routes">>
  <2>1. order = p
    BY <1>4 DEF phases
  <2>2. Ordered(p)
    BY DEF Section
  <2> QED
    BY <2>1, <2>2
<1> QED
  BY <1>1, <1>2, <1>3, <1>4

\* The total of typed sections is a number.
LEMMA TotalType ==
  ASSUME NEW sections \in Costs, NEW c \in Nat, NEW k \in Nat
  PROVE  computeTotalTokens(sections, c, k) \in Int
<1>1. \A s \in Section : sum(sections[s]) \in Int
  <2> SUFFICES ASSUME NEW s \in Section PROVE sum(sections[s]) \in Int
    OBVIOUS
  <2>1. sections[s] \in Seq(Int)
    BY DEF Costs
  <2>2. 0 \in Int
    OBVIOUS
  <2> QED
    BY <2>1, <2>2, SumOfAppend
<1> QED
  BY <1>1 DEF computeTotalTokens, Section

\* The total of sections one of which costs less.
LEMMA OneTermLess ==
  ASSUME NEW sections, NEW rest, NEW c \in Nat, NEW k \in Nat, NEW x \in Int, NEW s \in Section,
         \A r \in Section : sum(sections[r]) \in Int,
         sum(rest[s]) = sum(sections[s]) - x,
         \A r \in Section : r # s => sum(rest[r]) = sum(sections[r])
  PROVE  computeTotalTokens(rest, c, k) = computeTotalTokens(sections, c, k) - x
<1> DEFINE a(r) == sum(sections[r])
           b(r) == sum(rest[r])
<1>1. b(s) = a(s) - x /\ \A r \in Section : r # s => b(r) = a(r)
  OBVIOUS
<1>2. \A r \in Section : a(r) \in Int
  OBVIOUS
<1>3. /\ computeTotalTokens(rest, c, k) = b("commits") + b("sharedTypes") + b("types") + b("bridges")
                                          + b("impactPaths") + b("routes") + c + k
      /\ computeTotalTokens(sections, c, k) = a("commits") + a("sharedTypes") + a("types") + a("bridges")
                                              + a("impactPaths") + a("routes") + c + k
  BY DEF computeTotalTokens
<1> HIDE DEF a, b
<1>4. s \in {"commits", "sharedTypes", "types", "bridges", "impactPaths", "routes"}
  BY DEF Section
<1>5. CASE s = "commits"
  <2>1. b("commits") = a("commits") - x /\ b("sharedTypes") = a("sharedTypes") /\ b("types") = a("types")
        /\ b("bridges") = a("bridges") /\ b("impactPaths") = a("impactPaths") /\ b("routes") = a("routes")
    BY <1>1, <1>5 DEF Section
  <2> QED
    BY <1>2, <1>3, <2>1 DEF Section
<1>6. CASE s = "sharedTypes"
  <2>1. b("sharedTypes") = a("sharedTypes") - x /\ b("commits") = a("commits") /\ b("types") = a("types")
        /\ b("bridges") = a("bridges") /\ b("impactPaths") = a("impactPaths") /\ b("routes") = a("routes")
    BY <1>1, <1>6 DEF Section
  <2> QED
    BY <1>2, <1>3, <2>1 DEF Section
<1>7. CASE s = "types"
  <2>1. b("types") = a("types") - x /\ b("commits") = a("commits") /\ b("sharedTypes") = a("sharedTypes")
        /\ b("bridges") = a("bridges") /\ b("impactPaths") = a("impactPaths") /\ b("routes") = a("routes")
    BY <1>1, <1>7 DEF Section
  <2> QED
    BY <1>2, <1>3, <2>1 DEF Section
<1>8. CASE s = "bridges"
  <2>1. b("bridges") = a("bridges") - x /\ b("commits") = a("commits") /\ b("sharedTypes") = a("sharedTypes")
        /\ b("types") = a("types") /\ b("impactPaths") = a("impactPaths") /\ b("routes") = a("routes")
    BY <1>1, <1>8 DEF Section
  <2> QED
    BY <1>2, <1>3, <2>1 DEF Section
<1>9. CASE s = "impactPaths"
  <2>1. b("impactPaths") = a("impactPaths") - x /\ b("commits") = a("commits") /\ b("sharedTypes") = a("sharedTypes")
        /\ b("types") = a("types") /\ b("bridges") = a("bridges") /\ b("routes") = a("routes")
    BY <1>1, <1>9 DEF Section
  <2> QED
    BY <1>2, <1>3, <2>1 DEF Section
<1>10. CASE s = "routes"
  <2>1. b("routes") = a("routes") - x /\ b("commits") = a("commits") /\ b("sharedTypes") = a("sharedTypes")
        /\ b("types") = a("types") /\ b("bridges") = a("bridges") /\ b("impactPaths") = a("impactPaths")
    BY <1>1, <1>10 DEF Section
  <2> QED
    BY <1>2, <1>3, <2>1 DEF Section
<1> QED
  BY <1>4, <1>5, <1>6, <1>7, <1>8, <1>9, <1>10

\* The total goes down by the cost of the item that goes, and by what the conventions
\* save.
LEMMA TotalDrops ==
  ASSUME NEW sections \in Costs, NEW c \in Nat, NEW k \in Nat, NEW s \in Section, sections[s] # <<>>
  PROVE  /\ less(sections, s) \in Costs /\ lastOf(sections[s]) \in Nat
         /\ less(sections, s)[s] = frontOf(sections[s])
         /\ \A r \in Section : r # s => less(sections, s)[r] = sections[r]
         /\ computeTotalTokens(less(sections, s), c, k)
            = computeTotalTokens(sections, c, k) - lastOf(sections[s])
<1> DEFINE rest == less(sections, s)
           front == frontOf(sections[s])
           x == lastOf(sections[s])
<1>1. sections[s] \in Seq(Nat)
  BY DEF Costs
<1>2. front \in Seq(Nat) /\ sum(sections[s]) = sum(front) + x
  BY <1>1, SumOfFront DEF lastOf, frontOf
<1>3. x \in Nat
  BY <1>1 DEF lastOf
<1>4. rest \in Costs /\ rest[s] = front /\ \A r \in Section : r # s => rest[r] = sections[r]
  BY <1>2 DEF Costs, less
<1>5. \A r \in Section : sum(sections[r]) \in Int
  <2> SUFFICES ASSUME NEW r \in Section PROVE sum(sections[r]) \in Int
    OBVIOUS
  <2>1. sections[r] \in Seq(Int) /\ 0 \in Int
    BY DEF Costs
  <2> QED
    BY <2>1, SumOfAppend
<1>6. sum(front) \in Int
  <2>1. front \in Seq(Int) /\ 0 \in Int
    BY <1>2
  <2> HIDE DEF front
  <2> QED
    BY <2>1, SumOfAppend
<1> HIDE DEF rest, front, x
<1>7. sum(rest[s]) = sum(sections[s]) - x /\ \A r \in Section : r # s => sum(rest[r]) = sum(sections[r])
  BY <1>2, <1>3, <1>4, <1>5, <1>6
<1>8. computeTotalTokens(rest, c, k) = computeTotalTokens(sections, c, k) - x
  <2>1. x \in Int
    BY <1>3
  <2> QED
    BY <1>5, <1>7, <2>1, OneTermLess
<1> QED
  BY <1>3, <1>4, <1>8 DEF rest, front, x

\* Conventions that shrink take as much from the total.
LEMMA TotalSaves ==
  ASSUME NEW sections \in Costs, NEW c \in Nat, NEW b \in Nat, NEW k \in Nat
  PROVE  computeTotalTokens(sections, b, k) = computeTotalTokens(sections, c, k) - (c - b)
<1> DEFINE a == sum(sections["commits"]) + sum(sections["sharedTypes"]) + sum(sections["types"])
                + sum(sections["bridges"]) + sum(sections["impactPaths"]) + sum(sections["routes"])
<1>1. a \in Int
  <2>1. \A s \in Section : sum(sections[s]) \in Int
    <3> SUFFICES ASSUME NEW s \in Section PROVE sum(sections[s]) \in Int
      OBVIOUS
    <3>1. sections[s] \in Seq(Int) /\ 0 \in Int
      BY DEF Costs
    <3> QED
      BY <3>1, SumOfAppend
  <2> QED
    BY <2>1 DEF Section
<1>2. computeTotalTokens(sections, b, k) = a + b + k /\ computeTotalTokens(sections, c, k) = a + c + k
  BY DEF computeTotalTokens
<1> HIDE DEF a
<1> QED
  BY <1>1, <1>2

(* The invariant of the pruner.  While it trims, what a section had before its phase is
   all there, and what it has after its phase is nothing or enough was trimmed. *)

order(p) == phases(p.graph.prioritize, p.graph.focus)
trimmed(p) == {i \in 1 .. 7 : order(p)[i] # "conventions"}
left(p, i) == p.sections[order(p)[i]]
whole(p, i) == p.graph.sections[order(p)[i]]
above(p) == p.total > p.graph.budget
present(p) == p.graph.hasRepos \/ p.graph.sections["bridges"] # <<>>

PrunerState ==
  [graph : GraphInput, pc : {"start", "trim", "done"}, phase : 1 .. 7, sections : Costs,
   conventions : Nat, total : Int, dropped : Seq(Dropped)]

Unpruned(p) ==
  /\ p.phase = 1 /\ p.sections = p.graph.sections
  /\ p.conventions = p.graph.conventions.full /\ p.dropped = <<>>

Counted(p) == present(p) => p.total = computeTotalTokens(p.sections, p.conventions, p.graph.kept)

Headed(p) ==
  \A i \in trimmed(p) :
    Len(left(p, i)) <= Len(whole(p, i)) /\ left(p, i) = SubSeq(whole(p, i), 1, Len(left(p, i)))

InTurn(p) ==
  \A i, j \in trimmed(p) : left(p, i) # whole(p, i) /\ j < i => left(p, j) = <<>>

AtPhase(p) ==
  \A i \in trimmed(p) : /\ i > p.phase => left(p, i) = whole(p, i)
                        /\ i < p.phase /\ above(p) => left(p, i) = <<>>

HadToGo(p) ==
  p.dropped # <<>> /\ lastOf(p.dropped).section # "conventions" =>
    p.total + lastOf(p.dropped).cost > p.graph.budget

PrunerOK(p) ==
  /\ p \in PrunerState
  /\ p.pc = "start" => Unpruned(p)
  /\ p.pc # "start" => Counted(p)
  /\ p.pc = "trim" => present(p) /\ AtPhase(p)
  /\ p.pc = "done" => (above(p) => \A s \in Section : p.sections[s] = <<>>)
  /\ Headed(p) /\ InTurn(p) /\ HadToGo(p)

PrunerInv == pruner = Idle \/ PrunerOK(pruner)

\* What a graph to prune holds.
LEMMA InputTyped ==
  ASSUME NEW g \in GraphInput
  PROVE  /\ g.sections \in Costs /\ g.conventions.full \in Nat /\ g.conventions.bare \in Nat
         /\ g.kept \in Nat /\ g.budget \in Nat /\ g.hasRepos \in BOOLEAN
  BY GraphAssumption DEF Costs

\* All of a sequence is its beginning of the same length.
LEMMA AllOfIt ==
  ASSUME NEW S, NEW s \in Seq(S)
  PROVE  Len(s) <= Len(s) /\ s = SubSeq(s, 1, Len(s))
  OBVIOUS

\* A beginning has as many members as it is told, the first ones.
LEMMA BeginningOf ==
  ASSUME NEW s \in Seq(Nat), NEW m \in Nat, m <= Len(s)
  PROVE  /\ SubSeq(s, 1, m) \in Seq(Nat) /\ Len(SubSeq(s, 1, m)) = m
         /\ \A k \in 1 .. m : SubSeq(s, 1, m)[k] = s[k]
  OBVIOUS

\* A beginning without its last member is a beginning.
LEMMA ShorterBeginning ==
  ASSUME NEW s \in Seq(Nat), NEW t \in Seq(Nat), t # <<>>, Len(t) <= Len(s), t = SubSeq(s, 1, Len(t))
  PROVE  Len(frontOf(t)) <= Len(s) /\ frontOf(t) = SubSeq(s, 1, Len(frontOf(t))) /\ frontOf(t) # s
<1> DEFINE u == frontOf(t)
<1>1. Len(t) \in Nat /\ Len(t) >= 1 /\ Len(s) \in Nat /\ Len(t) <= Len(s)
  OBVIOUS
<1>2. /\ u \in Seq(Nat) /\ Len(u) = Len(t) - 1 /\ Len(u) \in Nat /\ Len(u) <= Len(s)
      /\ \A k \in 1 .. Len(u) : u[k] = t[k]
  BY <1>1 DEF frontOf
<1> HIDE DEF u
<1> DEFINE v == SubSeq(s, 1, Len(u))
<1>3. v \in Seq(Nat) /\ Len(v) = Len(u) /\ \A k \in 1 .. Len(u) : v[k] = s[k]
  BY <1>1, <1>2, BeginningOf, Zenon
<1>4. \A k \in 1 .. Len(t) : t[k] = s[k]
  <2>1. \A k \in 1 .. Len(t) : SubSeq(s, 1, Len(t))[k] = s[k]
    BY <1>1, BeginningOf, Zenon
  <2> QED
    BY <2>1, Zenon
<1>5. \A k \in 1 .. Len(u) : u[k] = v[k]
  <2>1. \A k \in 1 .. Len(u) : k \in 1 .. Len(t)
    BY <1>1, <1>2
  <2> QED
    BY <1>2, <1>3, <1>4, <2>1, Zenon
<1> HIDE DEF v
<1>6. u = v
  BY <1>2, <1>3, <1>5, SeqEqual
<1> QED
  BY <1>1, <1>2, <1>6 DEF u, v

\* What the parts of the invariant say depends on the graph, the sections and the total.
LEMMA OrderFacts ==
  ASSUME NEW p \in PrunerState
  PROVE  /\ \A i \in trimmed(p) : i \in 1 .. 7 /\ order(p)[i] \in Section
         /\ \A i \in 1 .. 7 : i \notin trimmed(p) => order(p)[i] = "conventions"
         /\ \A i, j \in 1 .. 7 : order(p)[i] = order(p)[j] => i = j
         /\ \A s \in Section : \E i \in trimmed(p) : order(p)[i] = s
         /\ 7 \in trimmed(p)
         /\ DOMAIN order(p) = 1 .. 7 /\ Len(order(p)) = 7
         /\ \A i \in trimmed(p) : left(p, i) \in Seq(Nat) /\ whole(p, i) \in Seq(Nat)
<1> DEFINE o == order(p)
<1>1. /\ DOMAIN o = 1 .. 7 /\ Len(o) = 7
      /\ \A i \in 1 .. 7 : o[i] \in Section \cup {"conventions"}
      /\ \A i, j \in 1 .. 7 : o[i] = o[j] => i = j
      /\ \A s \in Section : s # "conventions" /\ \E i \in 1 .. 7 : o[i] = s
      /\ o[7] # "conventions"
  BY PhaseOrder DEF order
<1>2. p.sections \in Costs /\ p.graph.sections \in Costs
  BY InputTyped DEF PrunerState
<1> HIDE DEF o
<1>3. trimmed(p) = {i \in 1 .. 7 : o[i] # "conventions"}
  BY DEF trimmed, o
<1>4. \A i \in trimmed(p) : o[i] \in Section
  BY <1>1, <1>3
<1>5. \A i \in trimmed(p) : left(p, i) = p.sections[o[i]] /\ whole(p, i) = p.graph.sections[o[i]]
  BY DEF left, whole, o
<1>6. \A i \in trimmed(p) : left(p, i) \in Seq(Nat) /\ whole(p, i) \in Seq(Nat)
  BY <1>2, <1>4, <1>5 DEF Costs
<1>7. \A s \in Section : \E i \in trimmed(p) : o[i] = s
  BY <1>1, <1>3
<1>8. \A i \in trimmed(p) : i \in 1 .. 7
  BY <1>3
<1>9. \A i \in 1 .. 7 : i \notin trimmed(p) => o[i] = "conventions"
  BY <1>3
<1>10. 7 \in trimmed(p)
  BY <1>1, <1>3
<1> QED
  BY <1>1, <1>4, <1>6, <1>7, <1>8, <1>9, <1>10 DEF o

\* Pruning begins.
LEMMA StartKeeps ==
  ASSUME NEW p, PrunerOK(p), p.pc = "start", NEW total, NEW empty \in BOOLEAN,
         total = computeTotalTokens(p.graph.sections, p.graph.conventions.full, p.graph.kept),
         empty = (~p.graph.hasRepos /\ p.graph.sections["bridges"] = <<>>),
         NEW q, q = [p EXCEPT !.total = IF empty THEN 0 ELSE total,
                              !.pc = IF empty \/ total <= p.graph.budget THEN "done" ELSE "trim"]
  PROVE  PrunerOK(q)
<1>1. p \in PrunerState /\ Unpruned(p) /\ Headed(p) /\ InTurn(p)
  BY DEF PrunerOK
<1>2. p.graph \in GraphInput
  BY <1>1 DEF PrunerState
<1>3. total \in Int /\ p.graph.budget \in Nat
  BY <1>2, InputTyped, TotalType
<1> DEFINE t == IF empty THEN 0 ELSE total
           pc == IF empty \/ total <= p.graph.budget THEN "done" ELSE "trim"
<1>4. /\ t \in Int /\ pc \in {"trim", "done"}
      /\ empty => t = 0 /\ pc = "done"
      /\ ~empty => t = total /\ (pc = "done" => ~(t > p.graph.budget)) /\ (pc = "trim" => t > p.graph.budget)
  BY <1>3
<1>5. q = [p EXCEPT !.total = t, !.pc = pc]
  OBVIOUS
<1> HIDE DEF t, pc
<1>6. /\ q \in PrunerState /\ q.total = t /\ q.pc = pc /\ q.graph = p.graph /\ q.sections = p.sections
      /\ q.conventions = p.conventions /\ q.dropped = p.dropped /\ q.phase = p.phase
  BY <1>1, <1>4, <1>5 DEF PrunerState
<1>7. order(q) = order(p) /\ trimmed(q) = trimmed(p) /\ \A i : left(q, i) = left(p, i) /\ whole(q, i) = whole(p, i)
  BY <1>6 DEF order, trimmed, left, whole
<1>8. Headed(q) /\ InTurn(q)
  BY <1>1, <1>7 DEF Headed, InTurn
<1>9. HadToGo(q)
  BY <1>1, <1>6 DEF HadToGo, Unpruned
<1>10. present(q) <=> ~empty
  BY <1>6 DEF present
<1>11. Counted(q)
  BY <1>1, <1>4, <1>6, <1>10 DEF Counted, Unpruned
<1>12. q.pc = "done" => ~above(q)
  BY <1>3, <1>4, <1>6 DEF above
<1>13. q.pc = "trim" => present(q) /\ AtPhase(q)
  <2> SUFFICES ASSUME q.pc = "trim" PROVE present(q) /\ AtPhase(q)
    OBVIOUS
  <2>1. present(q)
    BY <1>4, <1>6, <1>10
  <2>2. \A i : left(q, i) = whole(q, i)
    BY <1>1, <1>7, SMTT(30) DEF left, whole, Unpruned
  <2>3. q.phase = 1
    BY <1>1, <1>6 DEF Unpruned
  <2>4. \A i \in trimmed(q) : ~(i < 1)
    BY DEF trimmed
  <2> QED
    BY <2>1, <2>2, <2>3, <2>4 DEF AtPhase
<1>14. q.pc # "start"
  BY <1>4, <1>6
<1> QED
  BY <1>6, <1>8, <1>9, <1>11, <1>12, <1>13, <1>14 DEF PrunerOK

\* An item goes.
withoutItem(p, s) ==
  [p EXCEPT !.sections = less(p.sections, s), !.total = p.total - lastOf(p.sections[s]),
            !.dropped = Append(p.dropped, [section |-> s, cost |-> lastOf(p.sections[s])])]

\* The last item of a section goes when its phase has come and the total is above.
LEMMA TrimItemKeeps ==
  ASSUME NEW p, PrunerOK(p), p.pc = "trim", above(p), order(p)[p.phase] # "conventions",
         p.sections[order(p)[p.phase]] # <<>>
  PROVE  PrunerOK(withoutItem(p, order(p)[p.phase]))
<1> DEFINE k == p.phase
           s == order(p)[k]
           removed == lastOf(p.sections[s])
           rest == less(p.sections, s)
           q == withoutItem(p, s)
<1>1. p \in PrunerState /\ Counted(p) /\ present(p) /\ AtPhase(p) /\ Headed(p) /\ InTurn(p)
  BY DEF PrunerOK
<1>2. /\ p.graph \in GraphInput /\ p.sections \in Costs /\ p.conventions \in Nat /\ p.total \in Int
      /\ p.dropped \in Seq(Dropped) /\ k \in 1 .. 7
  BY <1>1 DEF PrunerState
<1>3. p.graph.budget \in Nat /\ p.graph.kept \in Nat
  BY <1>2, InputTyped
<1>4. k \in trimmed(p) /\ s \in Section
  <2>1. k \in trimmed(p)
    BY <1>2 DEF trimmed
  <2> QED
    BY <1>1, <2>1, OrderFacts
<1> HIDE DEF q
<1>5. /\ rest \in Costs /\ removed \in Nat
      /\ rest[s] = frontOf(p.sections[s]) /\ \A r \in Section : r # s => rest[r] = p.sections[r]
      /\ computeTotalTokens(rest, p.conventions, p.graph.kept)
         = computeTotalTokens(p.sections, p.conventions, p.graph.kept) - removed
  <2> HIDE DEF s
  <2>1. p.sections[s] # <<>>
    BY DEF s
  <2> QED
    BY <1>2, <1>3, <1>4, <2>1, TotalDrops
<1> DEFINE item == [section |-> s, cost |-> removed]
           gone == Append(p.dropped, item)
<1>6. gone \in Seq(Dropped) /\ gone # <<>> /\ lastOf(gone) = item
  <2>2. item \in Dropped
    BY <1>4, <1>5 DEF Dropped
  <2> HIDE DEF item
  <2> QED
    BY <1>2, <2>2 DEF lastOf
<1> DEFINE t == p.total - removed
<1>7. q = [p EXCEPT !.sections = rest, !.total = t, !.dropped = gone] /\ t \in Int
  BY <1>1, <1>2, <1>5 DEF PrunerState, q, withoutItem
<1> HIDE DEF rest, gone, t, removed, s
<1>8. /\ q \in PrunerState /\ q.total = t /\ q.pc = "trim" /\ q.graph = p.graph
      /\ q.sections = rest /\ q.conventions = p.conventions /\ q.dropped = gone /\ q.phase = k
  BY <1>1, <1>2, <1>5, <1>6, <1>7 DEF PrunerState
<1> HIDE DEF k
<1>9. /\ order(q) = order(p) /\ trimmed(q) = trimmed(p) /\ \A i : whole(q, i) = whole(p, i)
  BY <1>8 DEF order, trimmed, whole
<1>10. left(q, k) = frontOf(left(p, k)) /\ left(p, k) = p.sections[s]
  BY <1>5, <1>8, <1>9 DEF left, k, s
<1>11. ASSUME NEW i \in trimmed(p), i # k PROVE left(q, i) = left(p, i)
  <2>1. order(p)[i] # s /\ order(p)[i] \in Section
    BY <1>1, <1>2, <1>4, <1>11, OrderFacts DEF k, s
  <2> QED
    BY <1>5, <1>8, <1>9, <2>1 DEF left
<1>12. /\ left(p, k) \in Seq(Nat) /\ whole(p, k) \in Seq(Nat) /\ Len(left(p, k)) <= Len(whole(p, k))
       /\ left(p, k) = SubSeq(whole(p, k), 1, Len(left(p, k))) /\ left(p, k) # <<>>
  BY <1>1, <1>4, <1>10, OrderFacts DEF Headed, s, k
<1>13. /\ Len(left(q, k)) <= Len(whole(p, k)) /\ left(q, k) = SubSeq(whole(p, k), 1, Len(left(q, k)))
       /\ left(q, k) # whole(p, k)
  BY <1>10, <1>12, ShorterBeginning
<1>14. Headed(q)
  <2> SUFFICES ASSUME NEW i \in trimmed(p)
               PROVE  Len(left(q, i)) <= Len(whole(q, i)) /\ left(q, i) = SubSeq(whole(q, i), 1, Len(left(q, i)))
    BY <1>9 DEF Headed
  <2>1. CASE i = k
    BY <1>9, <1>13, <2>1
  <2>2. CASE i # k
    BY <1>1, <1>9, <1>11, <2>2 DEF Headed
  <2> QED
    BY <2>1, <2>2
<1>15. \A i \in trimmed(p) : /\ i > k => left(p, i) = whole(p, i)
                             /\ i < k => left(p, i) = <<>>
  BY <1>1 DEF AtPhase, k
<1>16. \A i \in trimmed(p) : i \in 1 .. 7
  BY DEF trimmed
<1>17. InTurn(q)
  <2> SUFFICES ASSUME NEW i \in trimmed(p), NEW j \in trimmed(p), left(q, i) # whole(q, i), j < i
               PROVE  left(q, j) = <<>>
    BY <1>9 DEF InTurn
  <2>1. ~(i > k)
    BY <1>2, <1>9, <1>11, <1>15, <1>16
  <2>2. j < k
    <3>1. i \in Int /\ j \in Int /\ k \in Int
      BY <1>2, <1>16 DEF k
    <3> QED
      BY <2>1, <3>1
  <2> QED
    BY <1>2, <1>11, <1>15, <1>16, <2>2 DEF k
<1>18. AtPhase(q)
  <2> SUFFICES ASSUME NEW i \in trimmed(p)
               PROVE  (i > k => left(q, i) = whole(q, i)) /\ (i < k => left(q, i) = <<>>)
    BY <1>8, <1>9 DEF AtPhase
  <2> QED
    BY <1>2, <1>9, <1>11, <1>15, <1>16 DEF k
<1>19. Counted(q) /\ present(q)
  BY <1>1, <1>5, <1>8 DEF Counted, present, t
<1>20. HadToGo(q)
  <2>1. lastOf(q.dropped) = item /\ item.cost = removed
    BY <1>6, <1>8
  <2>2. p.total > p.graph.budget
    BY DEF above
  <2>3. p.total - removed + removed = p.total
    BY <1>2, <1>5
  <2> QED
    BY <1>8, <2>1, <2>2, <2>3 DEF HadToGo, t
<1>21. PrunerOK(q)
  BY <1>8, <1>14, <1>17, <1>18, <1>19, <1>20 DEF PrunerOK
<1> QED
  BY <1>21 DEF q, s, k

\* All conventions go.
LEMMA TrimConventionsKeeps ==
  ASSUME NEW p, PrunerOK(p), p.pc = "trim", order(p)[p.phase] = "conventions",
         NEW q,
         q = [p EXCEPT !.phase = p.phase + 1,
                !.conventions = IF above(p) THEN p.graph.conventions.bare ELSE p.conventions,
                !.total = IF above(p) THEN p.total - (p.conventions - p.graph.conventions.bare) ELSE p.total,
                !.dropped = IF above(p)
                            THEN Append(p.dropped, [section |-> "conventions",
                                                    cost |-> p.conventions - p.graph.conventions.bare])
                            ELSE p.dropped]
  PROVE  PrunerOK(q)
<1> DEFINE k == p.phase
           bare == p.graph.conventions.bare
           item == [section |-> "conventions", cost |-> p.conventions - bare]
           c == IF above(p) THEN bare ELSE p.conventions
           t == IF above(p) THEN p.total - (p.conventions - bare) ELSE p.total
           gone == IF above(p) THEN Append(p.dropped, item) ELSE p.dropped
<1>1. p \in PrunerState /\ Counted(p) /\ present(p) /\ AtPhase(p) /\ Headed(p) /\ InTurn(p) /\ HadToGo(p)
  BY DEF PrunerOK
<1>2. /\ p.graph \in GraphInput /\ p.sections \in Costs /\ p.conventions \in Nat /\ p.total \in Int
      /\ p.dropped \in Seq(Dropped) /\ k \in 1 .. 7
  BY <1>1 DEF PrunerState
<1>3. p.graph.budget \in Nat /\ p.graph.kept \in Nat /\ bare \in Nat
  BY <1>2, InputTyped
<1>4. q = [p EXCEPT !.phase = k + 1, !.conventions = c, !.total = t, !.dropped = gone]
  BY Zenon
<1>5. /\ above(p) => c = bare /\ t = p.total - (p.conventions - bare) /\ gone = Append(p.dropped, item)
      /\ ~above(p) => c = p.conventions /\ t = p.total /\ gone = p.dropped
  OBVIOUS
<1>6. item \in Dropped /\ item.section = "conventions"
  BY <1>2, <1>3 DEF Dropped
<1> HIDE DEF c, t, gone, item, bare
<1>7. c \in Nat /\ t \in Int /\ gone \in Seq(Dropped)
  <2>1. CASE above(p)
    <3>1. Append(p.dropped, item) \in Seq(Dropped)
      BY <1>2, <1>6
    <3>2. \A x, y, z \in Int : x - (y - z) \in Int
      OBVIOUS
    <3>3. p.total - (p.conventions - bare) \in Int
      BY <1>2, <1>3, <3>2
    <3>4. c = bare /\ t = p.total - (p.conventions - bare) /\ gone = Append(p.dropped, item)
      BY <1>5, <2>1
    <3> QED
      BY <1>3, <3>1, <3>3, <3>4, Zenon
  <2>2. CASE ~above(p)
    BY <1>2, <1>5, <2>2
  <2> QED
    BY <2>1, <2>2
<1>8. k + 1 \in 1 .. 7
  <2>1. k # 7
    BY <1>1, OrderFacts DEF trimmed
  <2> QED
    BY <1>2, <2>1
<1> DEFINE n == k + 1
<1> HIDE DEF n
<1>9. /\ q \in PrunerState /\ q.total = t /\ q.pc = "trim" /\ q.graph = p.graph
      /\ q.sections = p.sections /\ q.conventions = c /\ q.dropped = gone /\ q.phase = n
  <2>1. q = [p EXCEPT !.phase = n, !.conventions = c, !.total = t, !.dropped = gone] /\ n \in 1 .. 7
    BY <1>4, <1>8 DEF n
  <2> HIDE DEF k
  <2> QED
    BY <1>1, <1>7, <2>1 DEF PrunerState
<1>10. /\ order(q) = order(p) /\ trimmed(q) = trimmed(p)
       /\ \A i : left(q, i) = left(p, i) /\ whole(q, i) = whole(p, i)
  BY <1>9 DEF order, trimmed, left, whole
<1>11. Headed(q) /\ InTurn(q)
  BY <1>1, <1>10 DEF Headed, InTurn
<1>12. present(q)
  BY <1>1, <1>9 DEF present
<1>13. Counted(q)
  <2>1. p.total = computeTotalTokens(p.sections, p.conventions, p.graph.kept)
    BY <1>1 DEF Counted
  <2>2. CASE above(p)
    <3>1. computeTotalTokens(p.sections, bare, p.graph.kept)
          = computeTotalTokens(p.sections, p.conventions, p.graph.kept) - (p.conventions - bare)
      BY <1>2, <1>3, TotalSaves
    <3> QED
      BY <1>5, <1>9, <2>1, <2>2, <3>1 DEF Counted
  <2>3. CASE ~above(p)
    BY <1>5, <1>9, <2>1, <2>3 DEF Counted
  <2> QED
    BY <2>2, <2>3
<1>14. above(q) => above(p)
  BY <1>5, <1>9 DEF above
<1>15. AtPhase(q)
  <2>1. ASSUME NEW i \in trimmed(p) PROVE i \in 1 .. 7 /\ i # k
    BY <2>1 DEF trimmed
  <2>2. \A i \in trimmed(p) : /\ i > k => left(p, i) = whole(p, i)
                              /\ i < k /\ above(p) => left(p, i) = <<>>
    BY <1>1 DEF AtPhase
  <2>3. \A i \in trimmed(p) : (i > n => i > k) /\ (i < n => i < k)
    BY <1>2, <2>1 DEF n
  <2> QED
    BY <1>9, <1>10, <1>14, <2>2, <2>3 DEF AtPhase
<1>16. HadToGo(q)
  <2>1. CASE above(p)
    <3>1. lastOf(gone) = item
      BY <1>2, <1>5, <1>6, <2>1 DEF lastOf
    <3> QED
      BY <1>6, <1>9, <3>1 DEF HadToGo
  <2>2. CASE ~above(p)
    BY <1>1, <1>5, <1>9, <2>2 DEF HadToGo
  <2> QED
    BY <2>1, <2>2
<1> QED
  BY <1>9, <1>11, <1>12, <1>13, <1>15, <1>16 DEF PrunerOK

\* A phase that is over is followed by the next one.
LEMMA NextPhaseKeeps ==
  ASSUME NEW p, PrunerOK(p), p.pc = "trim", order(p)[p.phase] # "conventions", p.phase # 7,
         ~above(p) \/ p.sections[order(p)[p.phase]] = <<>>,
         NEW q, q = [p EXCEPT !.phase = p.phase + 1]
  PROVE  PrunerOK(q)
<1> DEFINE k == p.phase
           n == k + 1
<1>1. /\ p \in PrunerState /\ Counted(p) /\ present(p) /\ AtPhase(p) /\ Headed(p) /\ InTurn(p) /\ HadToGo(p)
      /\ p.phase \in 1 .. 7
  BY DEF PrunerOK, PrunerState
<1>2. n \in 1 .. 7
  BY <1>1
<1> HIDE DEF n
<1>3. /\ q \in PrunerState /\ q.total = p.total /\ q.pc = "trim" /\ q.graph = p.graph
      /\ q.sections = p.sections /\ q.conventions = p.conventions /\ q.dropped = p.dropped /\ q.phase = n
  <2>1. q = [p EXCEPT !.phase = n]
    BY DEF n
  <2> QED
    BY <1>1, <1>2, <2>1 DEF PrunerState
<1>4. /\ order(q) = order(p) /\ trimmed(q) = trimmed(p)
      /\ \A i : left(q, i) = left(p, i) /\ whole(q, i) = whole(p, i)
  BY <1>3 DEF order, trimmed, left, whole
<1>5. Headed(q) /\ InTurn(q)
  BY <1>1, <1>4 DEF Headed, InTurn
<1>6. Counted(q) /\ present(q) /\ HadToGo(q)
  BY <1>1, <1>3 DEF Counted, present, HadToGo
<1>7. AtPhase(q)
  <2>1. \A i \in trimmed(p) : i \in 1 .. 7
    BY DEF trimmed
  <2>2. \A i \in trimmed(p) : /\ i > k => left(p, i) = whole(p, i)
                              /\ i < k /\ above(p) => left(p, i) = <<>>
    BY <1>1 DEF AtPhase
  <2>3. \A i \in trimmed(p) : (i > n => i > k) /\ (i < n => i < k \/ i = k)
    BY <1>1, <2>1 DEF n
  <2>4. above(p) => left(p, k) = <<>>
    BY DEF left
  <2>5. above(q) <=> above(p)
    BY <1>3 DEF above
  <2> HIDE DEF k
  <2> QED
    BY <1>3, <1>4, <2>2, <2>3, <2>4, <2>5 DEF AtPhase
<1> QED
  BY <1>3, <1>5, <1>6, <1>7 DEF PrunerOK

\* After the last phase nothing is left, or enough has gone.
LEMMA LastPhaseKeeps ==
  ASSUME NEW p, PrunerOK(p), p.pc = "trim", order(p)[p.phase] # "conventions", p.phase = 7,
         ~above(p) \/ p.sections[order(p)[p.phase]] = <<>>,
         NEW q, q = [p EXCEPT !.pc = "done",
                              !.total = computeTotalTokens(p.sections, p.conventions, p.graph.kept)]
  PROVE  PrunerOK(q)
<1>1. /\ p \in PrunerState /\ Counted(p) /\ present(p) /\ AtPhase(p) /\ Headed(p) /\ InTurn(p) /\ HadToGo(p)
      /\ p.total \in Int
  BY DEF PrunerOK, PrunerState
<1>2. p.total = computeTotalTokens(p.sections, p.conventions, p.graph.kept)
  BY <1>1 DEF Counted
<1> DEFINE t == computeTotalTokens(p.sections, p.conventions, p.graph.kept)
<1>3. q = [p EXCEPT !.pc = "done", !.total = t] /\ t = p.total
  BY <1>2
<1> HIDE DEF t
<1>4. /\ q \in PrunerState /\ q.total = p.total /\ q.pc = "done" /\ q.graph = p.graph
      /\ q.sections = p.sections /\ q.conventions = p.conventions /\ q.dropped = p.dropped
  BY <1>1, <1>3 DEF PrunerState
<1>5. /\ order(q) = order(p) /\ trimmed(q) = trimmed(p)
      /\ \A i : left(q, i) = left(p, i) /\ whole(q, i) = whole(p, i)
  BY <1>4 DEF order, trimmed, left, whole
<1>6. Headed(q) /\ InTurn(q)
  BY <1>1, <1>5 DEF Headed, InTurn
<1>7. Counted(q) /\ HadToGo(q)
  BY <1>1, <1>4 DEF Counted, present, HadToGo
<1>8. ASSUME above(q), NEW s \in Section PROVE q.sections[s] = <<>>
  <2>1. above(p)
    BY <1>4, <1>8 DEF above
  <2>2. PICK i \in trimmed(p) : order(p)[i] = s
    BY <1>1, OrderFacts
  <2>3. i \in 1 .. 7
    BY DEF trimmed
  <2>4. CASE i = 7
    BY <1>4, <2>1, <2>2, <2>4
  <2>5. CASE i # 7
    <3>1. i < p.phase
      BY <2>3, <2>5
    <3>2. left(p, i) = <<>>
      BY <1>1, <2>1, <3>1 DEF AtPhase
    <3> QED
      BY <1>4, <2>2, <3>2 DEF left
  <2> QED
    BY <2>4, <2>5
<1> QED
  BY <1>4, <1>6, <1>7, <1>8 DEF PrunerOK

\* Every step of the pruner keeps the invariant.
LEMMA PrunerStep ==
  ASSUME PrunerInv, [ContextNext]_contextVars
  PROVE  PrunerInv'
<1>1. CASE pruner' = pruner
  BY <1>1, Zenon DEF PrunerInv
<1>2. CASE pruneToTokenBudget
  <2>1. pruner # Idle
    BY <1>2 DEF pruneToTokenBudget, StartPruning, TrimItem, TrimConventions, NextPhase, Idle
  <2>2. PrunerOK(pruner)
    BY <2>1 DEF PrunerInv
  <2>3. phaseNow = order(pruner)[pruner.phase] /\ (over <=> above(pruner))
    BY DEF phaseNow, order, over, above
  <2>4. CASE StartPruning
    <3> DEFINE total == computeTotalTokens(pruner.graph.sections, pruner.graph.conventions.full, pruner.graph.kept)
               empty == ~pruner.graph.hasRepos /\ pruner.graph.sections["bridges"] = <<>>
    <3>1. pruner.pc = "start" /\ empty \in BOOLEAN
      BY <2>4 DEF StartPruning
    <3>2. pruner' = [pruner EXCEPT !.total = IF empty THEN 0 ELSE total,
                                   !.pc = IF empty \/ total <= pruner.graph.budget THEN "done" ELSE "trim"]
      BY <2>4 DEF StartPruning
    <3>3. empty = (~pruner.graph.hasRepos /\ pruner.graph.sections["bridges"] = <<>>)
      OBVIOUS
    <3> HIDE DEF empty
    <3>4. PrunerOK(pruner')
      BY <2>2, <3>1, <3>2, <3>3, StartKeeps
    <3> QED
      BY <3>4 DEF PrunerInv
  <2>5. CASE TrimItem
    <3>1. /\ pruner.pc = "trim" /\ above(pruner) /\ phaseNow # "conventions" /\ pruner.sections[phaseNow] # <<>>
          /\ pruner \in PrunerState
      BY <2>2, <2>3, <2>5 DEF TrimItem, PrunerOK
    <3>2. pruner' = withoutItem(pruner, phaseNow)
      BY <2>5, <3>1 DEF TrimItem, withoutItem, less, frontOf, PrunerState
    <3>3. PrunerOK(pruner')
      BY <2>2, <2>3, <3>1, <3>2, TrimItemKeeps
    <3> QED
      BY <3>3 DEF PrunerInv
  <2>6. CASE TrimConventions
    <3> DEFINE saved == pruner.conventions - pruner.graph.conventions.bare
               q == [pruner EXCEPT !.phase = pruner.phase + 1,
                       !.conventions = IF above(pruner) THEN pruner.graph.conventions.bare ELSE pruner.conventions,
                       !.total = IF above(pruner) THEN pruner.total - saved ELSE pruner.total,
                       !.dropped = IF above(pruner)
                                   THEN Append(pruner.dropped, [section |-> "conventions", cost |-> saved])
                                   ELSE pruner.dropped]
    <3>1. pruner' = q /\ pruner.pc = "trim" /\ phaseNow = "conventions"
      BY <2>3, <2>6 DEF TrimConventions
    <3>2. PrunerOK(pruner')
      BY <2>2, <2>3, <3>1, TrimConventionsKeeps
    <3> QED
      BY <3>2 DEF PrunerInv
  <2>7. CASE NextPhase
    <3>1. /\ pruner.pc = "trim" /\ phaseNow # "conventions"
          /\ ~above(pruner) \/ pruner.sections[phaseNow] = <<>>
          /\ pruner \in PrunerState
      BY <2>2, <2>3, <2>7 DEF NextPhase, PrunerOK
    <3>2. Len(order(pruner)) = 7
      BY <3>1, OrderFacts
    <3>3. CASE pruner.phase = 7
      <4>1. pruner' = [pruner EXCEPT !.pc = "done",
                         !.total = computeTotalTokens(pruner.sections, pruner.conventions, pruner.graph.kept)]
        BY <2>7, <3>2, <3>3 DEF NextPhase, order
      <4>2. PrunerOK(pruner')
        BY <2>2, <2>3, <3>1, <3>3, <4>1, LastPhaseKeeps
      <4> QED
        BY <4>2 DEF PrunerInv
    <3>4. CASE pruner.phase # 7
      <4>1. pruner' = [pruner EXCEPT !.phase = pruner.phase + 1]
        BY <2>7, <3>2, <3>4 DEF NextPhase, order
      <4>2. PrunerOK(pruner')
        BY <2>2, <2>3, <3>1, <3>4, <4>1, NextPhaseKeeps
      <4> QED
        BY <4>2 DEF PrunerInv
    <3> QED
      BY <3>3, <3>4
  <2> QED
    BY <1>2, <2>4, <2>5, <2>6, <2>7 DEF pruneToTokenBudget
<1>3. CASE formatDigest \/ Optimize
  BY <1>1, <1>3 DEF formatDigest, Optimize
<1>4. CASE UNCHANGED contextVars
  BY <1>1, <1>4 DEF contextVars
<1> QED
  BY <1>2, <1>3, <1>4 DEF ContextNext

\* A graph that is not pruned yet.
LEMMA PrunerBegins ==
  ASSUME ContextInit
  PROVE  PrunerInv
<1>1. CASE PrunerInit
  <2>1. PICK g \in GraphInput :
          pruner = [graph |-> g, pc |-> "start", phase |-> 1, sections |-> g.sections,
                    conventions |-> g.conventions.full, total |-> 0, dropped |-> <<>>]
    BY <1>1 DEF PrunerInit
  <2>2. g.sections \in Costs /\ g.conventions.full \in Nat
    BY InputTyped
  <2>3. pruner \in PrunerState
    <3>1. <<>> \in Seq(Dropped) /\ 0 \in Int /\ 1 \in 1 .. 7
      OBVIOUS
    <3> QED
      BY <2>1, <2>2, <3>1 DEF PrunerState
  <2>4. /\ pruner.graph = g /\ pruner.pc = "start" /\ pruner.phase = 1 /\ pruner.sections = g.sections
        /\ pruner.conventions = g.conventions.full /\ pruner.dropped = <<>>
    BY <2>1
  <2>5. Unpruned(pruner) /\ HadToGo(pruner)
    BY <2>4 DEF Unpruned, HadToGo
  <2>6. \A i : left(pruner, i) = whole(pruner, i)
    BY <2>4 DEF left, whole
  <2>7. Headed(pruner)
    <3> SUFFICES ASSUME NEW i \in trimmed(pruner)
                 PROVE  /\ Len(left(pruner, i)) <= Len(whole(pruner, i))
                        /\ left(pruner, i) = SubSeq(whole(pruner, i), 1, Len(left(pruner, i)))
      BY DEF Headed
    <3>1. whole(pruner, i) \in Seq(Nat)
      BY <2>3, OrderFacts
    <3> QED
      BY <2>6, <3>1, AllOfIt
  <2>8. InTurn(pruner)
    BY <2>6 DEF InTurn
  <2> QED
    BY <2>3, <2>4, <2>5, <2>7, <2>8 DEF PrunerInv, PrunerOK
<1>2. CASE pruner = Idle
  BY <1>2 DEF PrunerInv
<1> QED
  BY <1>1, <1>2 DEF ContextInit

\* The invariant of the pruner gives its property.
LEMMA PrunerFits ==
  ASSUME PrunerInv
  PROVE  PrunedFits
<1>1. CASE pruner = Idle
  BY <1>1 DEF PrunedFits, Idle
<1>2. CASE PrunerOK(pruner)
  <2>1. pruner \in PrunerState
    BY <1>2 DEF PrunerOK
  <2>2. DOMAIN order(pruner) = 1 .. 7
    BY <2>1, OrderFacts
  <2>3. {i \in DOMAIN order(pruner) : order(pruner)[i] # "conventions"} = trimmed(pruner)
    BY <2>2 DEF trimmed
  <2>4. above(pruner) <=> over
    BY DEF above, over
  <2>5. pruner.pc \in {"trim", "done"} /\ present(pruner) =>
          pruner.total = computeTotalTokens(pruner.sections, pruner.conventions, pruner.graph.kept)
    BY <1>2 DEF PrunerOK, Counted
  <2>6. \A i \in trimmed(pruner) :
          /\ Len(left(pruner, i)) <= Len(whole(pruner, i))
          /\ left(pruner, i) = SubSeq(whole(pruner, i), 1, Len(left(pruner, i)))
          /\ left(pruner, i) # whole(pruner, i) =>
               \A j \in trimmed(pruner) : j < i => left(pruner, j) = <<>>
    BY <1>2 DEF PrunerOK, Headed, InTurn
  <2>7. pruner.pc = "done" =>
          /\ over => \A s \in Section : pruner.sections[s] = <<>>
          /\ pruner.dropped # <<>> /\ lastOf(pruner.dropped).section # "conventions" =>
               pruner.total + lastOf(pruner.dropped).cost > pruner.graph.budget
    BY <1>2, <2>4 DEF PrunerOK, HadToGo
  <2>8. PrunedFits <=>
          LET g == pruner.graph
              o == order(pruner)
              t == {i \in DOMAIN o : o[i] # "conventions"}
          IN pruner.pc # "idle" =>
             /\ pruner.pc \in {"trim", "done"} /\ present(pruner) =>
                  pruner.total = computeTotalTokens(pruner.sections, pruner.conventions, g.kept)
             /\ \A i \in t :
                  /\ Len(left(pruner, i)) <= Len(whole(pruner, i))
                  /\ left(pruner, i) = SubSeq(whole(pruner, i), 1, Len(left(pruner, i)))
                  /\ left(pruner, i) # whole(pruner, i) => \A j \in t : j < i => left(pruner, j) = <<>>
             /\ pruner.pc = "done" =>
                  /\ over => \A s \in Section : pruner.sections[s] = <<>>
                  /\ pruner.dropped # <<>> /\ lastOf(pruner.dropped).section # "conventions" =>
                       pruner.total + lastOf(pruner.dropped).cost > g.budget
    BY DEF PrunedFits, left, whole, order, present
  <2> QED
    BY <2>3, <2>5, <2>6, <2>7, <2>8
<1> QED
  BY <1>1, <1>2 DEF PrunerInv

(* The digest. *)

PartName == {Part[i] : i \in 1 .. 4}

DigestState ==
  [input : DigestInput, pc : {"loop", "done"}, commits : Nat, evolution : Nat, parts : Seq(PartName),
   mode : {"full", "compact", "minimal"}, cut : BOOLEAN]

\* What the text of a digest depends on.
SameText(d, e) ==
  /\ d.input = e.input /\ d.commits = e.commits /\ d.evolution = e.evolution
  /\ d.parts = e.parts /\ d.mode = e.mode

complete(d) == d.commits = d.input.commits /\ d.evolution = d.input.evolution
               /\ d.parts = d.input.parts /\ d.mode = "full"

wholeOf(d) == [d EXCEPT !.commits = d.input.commits, !.evolution = d.input.evolution,
                        !.parts = d.input.parts, !.mode = "full"]

\* The last parts, as many as there are.
Ending(d) ==
  /\ Len(d.parts) <= Len(d.input.parts)
  /\ d.parts = SubSeq(d.input.parts, Len(d.input.parts) - Len(d.parts) + 1, Len(d.input.parts))

\* What comes first goes first.
ByTurns(d) ==
  /\ d.commits <= d.input.commits /\ d.evolution <= d.input.evolution /\ Ending(d)
  /\ d.evolution # d.input.evolution => d.commits = 0
  /\ d.parts # d.input.parts => d.evolution = 0 /\ d.commits = 0
  /\ d.mode # "full" => d.parts = <<>> /\ d.evolution = 0 /\ d.commits = 0

WasTooLong(d) == ~complete(d) => tooLong(putBack(d)) /\ tooLong(wholeOf(d))

DigestOK(d) ==
  /\ d \in DigestState /\ ByTurns(d) /\ WasTooLong(d)
  /\ d.pc = "loop" => ~d.cut
  /\ d.pc = "done" => IF d.cut THEN d.mode = "minimal" ELSE ~tooLong(d)

DigestInv == digest = Idle \/ DigestOK(digest)

\* What a digest is made from.
LEMMA DigestTyped ==
  ASSUME NEW i \in DigestInput
  PROVE  i.commits \in Nat /\ i.evolution \in Nat /\ i.parts \in Seq(PartName)
  BY DigestAssumption DEF PartName

\* Two digests with the same text are both too long, or neither is.
LEMMA TextDepends ==
  ASSUME NEW d, NEW e, SameText(d, e)
  PROVE  tooLong(d) <=> tooLong(e)
<1>1. renderMarkdown(d) = renderMarkdown(e)
  BY Zenon DEF SameText, renderMarkdown
<1> QED
  BY <1>1 DEF SameText, tooLong

\* What a digest was before is told by what its text depends on.
LEMMA BeforeDepends ==
  ASSUME NEW d \in DigestState, NEW e \in DigestState, SameText(d, e)
  PROVE  SameText(putBack(d), putBack(e)) /\ SameText(wholeOf(d), wholeOf(e)) /\ (complete(d) <=> complete(e))
<1> DEFINE longer(x) == SubSeq(x.input.parts, Len(x.input.parts) - Len(x.parts), Len(x.input.parts))
           more(x) == x.evolution + 1
           earlier(x) == x.commits + 1
<1>1. /\ d.input = e.input /\ d.commits = e.commits /\ d.evolution = e.evolution
      /\ d.parts = e.parts /\ d.mode = e.mode
      /\ longer(d) = longer(e) /\ more(d) = more(e) /\ earlier(d) = earlier(e)
  BY DEF SameText
<1>2. \A x \in DigestState :
        putBack(x) = IF x.mode = "minimal" THEN [x EXCEPT !.mode = "compact"]
                     ELSE IF x.mode = "compact" THEN [x EXCEPT !.mode = "full"]
                     ELSE IF x.parts # x.input.parts THEN [x EXCEPT !.parts = longer(x)]
                     ELSE IF x.evolution < x.input.evolution THEN [x EXCEPT !.evolution = more(x)]
                     ELSE [x EXCEPT !.commits = earlier(x)]
  BY DEF putBack
<1> HIDE DEF longer, more, earlier
<1>3. SameText(putBack(d), putBack(e))
  BY <1>1, <1>2 DEF SameText, DigestState
<1>4. SameText(wholeOf(d), wholeOf(e))
  BY <1>1 DEF SameText, wholeOf, DigestState
<1>5. complete(d) <=> complete(e)
  BY <1>1 DEF complete
<1> QED
  BY <1>3, <1>4, <1>5

\* An ending without its first member is an ending.
LEMMA ShorterEnding ==
  ASSUME NEW S, NEW all \in Seq(S), NEW s \in Seq(S), s # <<>>, Len(s) <= Len(all),
         s = SubSeq(all, Len(all) - Len(s) + 1, Len(all))
  PROVE  /\ Tail(s) \in Seq(S) /\ Len(Tail(s)) = Len(s) - 1
         /\ Tail(s) = SubSeq(all, Len(all) - Len(Tail(s)) + 1, Len(all))
         /\ s = SubSeq(all, Len(all) - Len(Tail(s)), Len(all))
<1> DEFINE m == Len(all) - Len(s) + 1
           n == Len(all)
           t == Tail(s)
<1>1. Len(s) \in Nat /\ Len(s) >= 1 /\ n \in Nat /\ m \in 1 .. n
  OBVIOUS
<1>2. t \in Seq(S) /\ Len(t) = Len(s) - 1
  <2>1. \A r \in Seq(S) : r # <<>> => Tail(r) \in Seq(S) /\ Len(Tail(r)) = Len(r) - 1
    OBVIOUS
  <2> QED
    BY <2>1
<1>3. n - Len(t) = m /\ n - Len(t) + 1 = m + 1
  BY <1>1, <1>2
<1>4. s = SubSeq(all, m, n)
  OBVIOUS
<1> HIDE DEF m, n, t
<1>5. Tail(SubSeq(all, m, n)) = SubSeq(all, m + 1, n)
  <2>1. n = Len(all)
    BY DEF n
  <2> QED
    BY <1>1, <2>1, HeadTailOfSubSeq
<1>6. t = SubSeq(all, m + 1, n)
  BY <1>4, <1>5 DEF t
<1> QED
  BY <1>2, <1>3, <1>4, <1>6 DEF n, t

\* One thing less: before that there was what there was.
LEMMA ShrinkKeeps ==
  ASSUME NEW d, DigestOK(d), d.pc = "loop", tooLong(d), d.mode # "minimal"
  PROVE  DigestOK(shrink(d))
<1> DEFINE e == shrink(d)
           i == d.input
<1>1. /\ d \in DigestState /\ ByTurns(d) /\ WasTooLong(d)
      /\ i \in DigestInput /\ d.commits \in Nat /\ d.evolution \in Nat /\ d.parts \in Seq(PartName)
      /\ d.mode \in {"full", "compact", "minimal"} /\ d.cut = FALSE
  BY DEF DigestOK, DigestState
<1>2. i.commits \in Nat /\ i.evolution \in Nat /\ i.parts \in Seq(PartName)
  BY <1>1, DigestTyped
<1>3. /\ d.commits <= i.commits /\ d.evolution <= i.evolution
      /\ d.evolution # i.evolution => d.commits = 0
      /\ d.parts # i.parts => d.evolution = 0 /\ d.commits = 0
      /\ d.mode # "full" => d.parts = <<>> /\ d.evolution = 0 /\ d.commits = 0
      /\ Len(d.parts) <= Len(i.parts)
      /\ d.parts = SubSeq(i.parts, Len(i.parts) - Len(d.parts) + 1, Len(i.parts))
  BY <1>1 DEF ByTurns, Ending
<1> DEFINE Stepped == /\ e \in DigestState /\ e.pc = "loop" /\ e.input = i /\ ~e.cut
                      /\ ByTurns(e) /\ SameText(putBack(e), d) /\ SameText(wholeOf(e), wholeOf(d))
<1> HIDE DEF i
<1>4. ASSUME d.commits > 0 PROVE Stepped
  <2> DEFINE c == d.commits - 1
  <2>1. e = [d EXCEPT !.commits = c] /\ c \in Nat /\ c + 1 = d.commits /\ c <= i.commits
    BY <1>1, <1>2, <1>3, <1>4 DEF shrink
  <2> HIDE DEF c, e
  <2>2. /\ e \in DigestState /\ e.pc = "loop" /\ ~e.cut /\ e.input = i /\ e.commits = c
        /\ e.evolution = d.evolution /\ e.parts = d.parts /\ e.mode = d.mode
    BY <1>1, <2>1 DEF DigestState, i
  <2>3. d.mode = "full" /\ d.parts = i.parts /\ d.evolution = i.evolution
    BY <1>3, <1>4
  <2>4. ByTurns(e)
    BY <1>3, <2>1, <2>2, <2>3 DEF ByTurns, Ending
  <2>5. putBack(e) = [e EXCEPT !.commits = e.commits + 1]
    BY <1>2, <2>2, <2>3 DEF putBack
  <2>6. SameText(putBack(e), d)
    BY <2>1, <2>2, <2>5 DEF SameText, DigestState, i
  <2>7. SameText(wholeOf(e), wholeOf(d))
    BY <1>1, <2>2 DEF SameText, wholeOf, DigestState, i
  <2> QED
    BY <2>2, <2>4, <2>6, <2>7
<1>5. ASSUME ~(d.commits > 0) /\ d.evolution > 0 PROVE Stepped
  <2> DEFINE c == d.evolution - 1
  <2>1. e = [d EXCEPT !.evolution = c] /\ c \in Nat /\ c + 1 = d.evolution /\ c < i.evolution
    BY <1>1, <1>2, <1>3, <1>5 DEF shrink
  <2> HIDE DEF c, e
  <2>2. /\ e \in DigestState /\ e.pc = "loop" /\ ~e.cut /\ e.input = i /\ e.commits = d.commits /\ e.evolution = c
        /\ e.parts = d.parts /\ e.mode = d.mode
    BY <1>1, <2>1 DEF DigestState, i
  <2>3. d.mode = "full" /\ d.parts = i.parts /\ d.commits = 0
    BY <1>1, <1>3, <1>5
  <2>4. ByTurns(e)
    <3>1. c <= i.evolution
      BY <1>2, <2>1
    <3>2. Ending(e)
      BY <1>3, <2>2 DEF Ending
    <3> QED
      BY <1>3, <2>2, <2>3, <3>1, <3>2 DEF ByTurns
  <2>5. putBack(e) = [e EXCEPT !.evolution = e.evolution + 1]
    BY <1>2, <2>1, <2>2, <2>3 DEF putBack
  <2>6. SameText(putBack(e), d)
    BY <2>1, <2>2, <2>5 DEF SameText, DigestState, i
  <2>7. SameText(wholeOf(e), wholeOf(d))
    BY <1>1, <2>2 DEF SameText, wholeOf, DigestState, i
  <2> QED
    BY <2>2, <2>4, <2>6, <2>7
<1>6. ASSUME ~(d.commits > 0) /\ ~(d.evolution > 0) /\ d.parts # <<>> PROVE Stepped
  <2> DEFINE t == Tail(d.parts)
  <2>1. e = [d EXCEPT !.parts = t]
    BY <1>6 DEF shrink
  <2>2. /\ t \in Seq(PartName) /\ Len(t) = Len(d.parts) - 1
        /\ t = SubSeq(i.parts, Len(i.parts) - Len(t) + 1, Len(i.parts))
        /\ d.parts = SubSeq(i.parts, Len(i.parts) - Len(t), Len(i.parts))
    BY <1>1, <1>2, <1>3, <1>6, ShorterEnding
  <2>3. Len(t) < Len(i.parts) /\ t # i.parts
    <3>1. Len(d.parts) \in Nat /\ Len(i.parts) \in Nat
      BY <1>1, <1>2
    <3> HIDE DEF t
    <3>2. Len(t) = Len(d.parts) - 1 /\ Len(d.parts) <= Len(i.parts)
      BY <1>3, <2>2, Zenon
    <3>3. Len(t) < Len(i.parts)
      BY <3>1, <3>2
    <3> QED
      BY <3>1, <3>3
  <2> HIDE DEF t, e
  <2>4. /\ e \in DigestState /\ e.pc = "loop" /\ ~e.cut /\ e.input = i /\ e.commits = d.commits
        /\ e.evolution = d.evolution /\ e.parts = t /\ e.mode = d.mode
    BY <1>1, <2>1, <2>2 DEF DigestState, i
  <2>5. d.mode = "full" /\ d.commits = 0 /\ d.evolution = 0
    BY <1>1, <1>3, <1>6
  <2>6. ByTurns(e)
    <3>1. Len(t) <= Len(i.parts)
      <4>1. Len(t) \in Nat /\ Len(i.parts) \in Nat
        <5>1. t \in Seq(PartName)
          BY <2>2
        <5> QED
          BY <1>2, <5>1
      <4> QED
        BY <2>3, <4>1
    <3>2. Ending(e)
      BY <2>2, <2>4, <3>1, Zenon DEF Ending
    <3> QED
      BY <1>2, <1>3, <2>4, <2>5, <3>2 DEF ByTurns
  <2>7. putBack(e) = [e EXCEPT !.parts = SubSeq(i.parts, Len(i.parts) - Len(t), Len(i.parts))]
    BY <2>3, <2>4, <2>5 DEF putBack
  <2>8. SameText(putBack(e), d)
    <3>1. putBack(e) = [e EXCEPT !.parts = d.parts]
      BY <2>2, <2>7, Zenon
    <3> QED
      BY <2>4, <3>1 DEF SameText, DigestState, i
  <2>9. SameText(wholeOf(e), wholeOf(d))
    BY <1>1, <2>4 DEF SameText, wholeOf, DigestState, i
  <2> QED
    BY <2>4, <2>6, <2>8, <2>9
<1>7. ASSUME ~(d.commits > 0) /\ ~(d.evolution > 0) /\ d.parts = <<>> PROVE Stepped
  <2> DEFINE m == IF d.mode = "full" THEN "compact" ELSE "minimal"
  <2>1. e = [d EXCEPT !.mode = m] /\ m \in {"compact", "minimal"}
        /\ (m = "compact" => d.mode = "full") /\ (m = "minimal" => d.mode = "compact")
    BY <1>1, <1>7 DEF shrink
  <2> HIDE DEF m, e
  <2>2. /\ e \in DigestState /\ e.pc = "loop" /\ ~e.cut /\ e.input = i /\ e.commits = d.commits
        /\ e.evolution = d.evolution /\ e.parts = d.parts /\ e.mode = m
    BY <1>1, <2>1 DEF DigestState, i
  <2>3. d.commits = 0 /\ d.evolution = 0
    BY <1>1, <1>7
  <2>4. ByTurns(e)
    BY <1>3, <1>7, <2>2, <2>3 DEF ByTurns, Ending
  <2>5. putBack(e) = [e EXCEPT !.mode = d.mode]
    BY <2>1, <2>2 DEF putBack
  <2>6. SameText(putBack(e), d)
    BY <2>2, <2>5 DEF SameText, DigestState, i
  <2>7. SameText(wholeOf(e), wholeOf(d))
    BY <1>1, <2>2 DEF SameText, wholeOf, DigestState, i
  <2> QED
    BY <2>2, <2>4, <2>6, <2>7
<1>8. Stepped
  BY <1>4, <1>5, <1>6, <1>7, Zenon
<1> HIDE DEF e
<1>9. tooLong(putBack(e))
  BY <1>8, TextDepends
<1>10. tooLong(wholeOf(d))
  <2>1. CASE complete(d)
    <3>1. SameText(d, wholeOf(d))
      BY <1>1, <2>1 DEF complete, SameText, wholeOf, DigestState
    <3> QED
      BY <3>1, TextDepends
  <2>2. CASE ~complete(d)
    BY <1>1, <2>2 DEF WasTooLong
  <2> QED
    BY <2>1, <2>2
<1>11. tooLong(wholeOf(e))
  BY <1>8, <1>10, TextDepends
<1>12. DigestOK(e)
  BY <1>8, <1>9, <1>11 DEF DigestOK, WasTooLong
<1> QED
  BY <1>12 DEF e

\* The loop ends.
LEMMA LoopEnds ==
  ASSUME NEW d, DigestOK(d), d.pc = "loop", NEW e,
         \/ ~tooLong(d) /\ e = [d EXCEPT !.pc = "done"]
         \/ d.mode = "minimal" /\ e = [d EXCEPT !.pc = "done", !.cut = TRUE]
  PROVE  DigestOK(e)
<1>1. d \in DigestState /\ ByTurns(d) /\ WasTooLong(d) /\ ~d.cut
  BY DEF DigestOK
<1>2. e \in DigestState /\ SameText(d, e)
  BY <1>1 DEF DigestState, SameText
<1>3. ByTurns(e)
  BY <1>1, <1>2 DEF ByTurns, Ending, SameText
<1>4. WasTooLong(e)
  <2>1. SameText(putBack(d), putBack(e)) /\ SameText(wholeOf(d), wholeOf(e)) /\ (complete(d) <=> complete(e))
    BY <1>1, <1>2, BeforeDepends
  <2>2. (tooLong(putBack(d)) <=> tooLong(putBack(e))) /\ (tooLong(wholeOf(d)) <=> tooLong(wholeOf(e)))
    BY <2>1, TextDepends
  <2> QED
    BY <1>1, <2>1, <2>2 DEF WasTooLong
<1>5. IF e.cut THEN e.mode = "minimal" ELSE ~tooLong(e)
  <2>1. tooLong(d) <=> tooLong(e)
    BY <1>2, TextDepends
  <2>2. CASE ~tooLong(d) /\ e = [d EXCEPT !.pc = "done"]
    BY <1>1, <2>1, <2>2 DEF DigestState
  <2>3. CASE d.mode = "minimal" /\ e = [d EXCEPT !.pc = "done", !.cut = TRUE]
    BY <1>1, <2>3 DEF DigestState
  <2> QED
    BY <2>2, <2>3
<1>6. e.pc # "loop"
  BY <1>1 DEF DigestState
<1> QED
  BY <1>2, <1>3, <1>4, <1>5, <1>6 DEF DigestOK

\* Every step of the digest keeps its invariant.
LEMMA DigestStep ==
  ASSUME DigestInv, [ContextNext]_contextVars
  PROVE  DigestInv'
<1>1. CASE digest' = digest
  BY <1>1, Zenon DEF DigestInv
<1>2. CASE formatDigest
  <2>1. DigestOK(digest) /\ digest.pc = "loop" /\ digest \in DigestState
    BY <1>2 DEF DigestInv, DigestOK, formatDigest, Idle
  <2>2. CASE ~tooLong(digest)
    <3>1. digest' = [digest EXCEPT !.pc = "done"]
      BY <1>2, <2>2 DEF formatDigest
    <3>2. DigestOK(digest')
      BY <2>1, <2>2, <3>1, LoopEnds
    <3> QED
      BY <3>2 DEF DigestInv
  <2>3. CASE tooLong(digest) /\ digest.mode # "minimal"
    <3>1. digest' = shrink(digest)
      BY <1>2, <2>3 DEF formatDigest
    <3>2. DigestOK(digest')
      BY <2>1, <2>3, <3>1, ShrinkKeeps
    <3> QED
      BY <3>2 DEF DigestInv
  <2>4. CASE tooLong(digest) /\ digest.mode = "minimal"
    <3>1. digest' = [digest EXCEPT !.pc = "done", !.cut = TRUE]
      BY <1>2, <2>4 DEF formatDigest
    <3>2. DigestOK(digest')
      BY <2>1, <2>4, <3>1, LoopEnds
    <3> QED
      BY <3>2 DEF DigestInv
  <2> QED
    BY <2>2, <2>3, <2>4
<1>3. CASE pruneToTokenBudget \/ Optimize
  BY <1>1, <1>3 DEF pruneToTokenBudget, StartPruning, TrimItem, TrimConventions, NextPhase, Optimize
<1>4. CASE UNCHANGED contextVars
  BY <1>1, <1>4 DEF contextVars
<1> QED
  BY <1>2, <1>3, <1>4 DEF ContextNext

\* A digest from which nothing is left out yet.
LEMMA DigestBegins ==
  ASSUME ContextInit
  PROVE  DigestInv
<1>1. CASE DigestInit
  <2>1. PICK d \in DigestInput :
          digest = [input |-> d, pc |-> "loop", commits |-> d.commits, evolution |-> d.evolution,
                    parts |-> d.parts, mode |-> "full", cut |-> FALSE]
    BY <1>1 DEF DigestInit
  <2>2. d.commits \in Nat /\ d.evolution \in Nat /\ d.parts \in Seq(PartName)
    BY DigestTyped
  <2>3. /\ digest \in DigestState /\ digest.pc = "loop" /\ ~digest.cut /\ complete(digest)
        /\ digest.input = d /\ digest.commits = d.commits /\ digest.evolution = d.evolution
        /\ digest.parts = d.parts /\ digest.mode = "full"
    BY <2>1, <2>2 DEF DigestState, complete
  <2>4. Ending(digest)
    <3>1. \A s \in Seq(PartName) : Len(s) <= Len(s) /\ s = SubSeq(s, Len(s) - Len(s) + 1, Len(s))
      <4> SUFFICES ASSUME NEW s \in Seq(PartName)
                   PROVE  Len(s) <= Len(s) /\ s = SubSeq(s, Len(s) - Len(s) + 1, Len(s))
        OBVIOUS
      <4>1. Len(s) \in Nat /\ Len(s) - Len(s) + 1 = 1
        OBVIOUS
      <4>2. s = SubSeq(s, 1, Len(s))
        BY AllOfIt
      <4> QED
        BY <4>1, <4>2
    <3> QED
      BY <2>2, <2>3, <3>1 DEF Ending
  <2>5. ByTurns(digest)
    BY <2>2, <2>3, <2>4 DEF ByTurns
  <2> QED
    BY <2>3, <2>5 DEF DigestInv, DigestOK, WasTooLong
<1>2. CASE digest = Idle
  BY <1>2 DEF DigestInv
<1> QED
  BY <1>1, <1>2 DEF ContextInit

\* The invariant of the digest gives its property.
LEMMA DigestFitsOf ==
  ASSUME DigestInv
  PROVE  DigestFits
<1>1. CASE digest = Idle
  BY <1>1 DEF DigestFits, Idle
<1>2. CASE DigestOK(digest)
  <2>1. /\ ByTurns(digest) /\ WasTooLong(digest)
        /\ digest.pc = "done" => IF digest.cut THEN digest.mode = "minimal" ELSE ~tooLong(digest)
    BY <1>2 DEF DigestOK
  <2> DEFINE w == [digest EXCEPT !.commits = digest.input.commits, !.evolution = digest.input.evolution,
                                 !.parts = digest.input.parts, !.mode = "full"]
             c == digest.commits = digest.input.commits /\ digest.evolution = digest.input.evolution
                  /\ digest.parts = digest.input.parts /\ digest.mode = "full"
  <2>2. ~c => tooLong(putBack(digest)) /\ tooLong(w)
    BY <2>1, Zenon DEF WasTooLong, complete, wholeOf
  <2>3. /\ digest.mode # "full" => digest.parts = <<>>
        /\ digest.parts # digest.input.parts \/ digest.mode # "full" =>
             digest.evolution = 0 /\ digest.commits = 0
        /\ digest.evolution # digest.input.evolution => digest.commits = 0
    BY <2>1 DEF ByTurns
  <2> QED
    BY <2>1, <2>2, <2>3, Zenon DEF DigestFits
<1> QED
  BY <1>1, <1>2 DEF DigestInv

(* The optimizer. *)

\* What is kept and what is not make up the whole.
LEMMA SumOfKept ==
  ASSUME NEW c \in Seq(Int), NEW I \in SUBSET DOMAIN c,
         NEW d \in Seq(Int), Len(d) = Len(c), \A k \in 1 .. Len(c) : d[k] = IF k \in I THEN 0 ELSE c[k]
  PROVE  sum(Subsequence(c, I)) + sum(d) = sum(c)
<1> DEFINE l == Len(c)
           upTo(k) == I \cap (1 .. k)
           of(k) == sum(Subsequence(c, upTo(k)))
<1>1. l \in Nat /\ DOMAIN c = 1 .. l /\ \A k \in 1 .. l : c[k] \in Int
  OBVIOUS
<1>2. PICK p : Sums(c, p) /\ sum(c) = p[Len(c)]
  BY SummedUp
<1>3. PICK q : Sums(d, q) /\ sum(d) = q[Len(d)]
  BY SummedUp
<1>4. /\ p[0] = 0 /\ q[0] = 0
      /\ \A k \in 1 .. l : p[k] = p[k - 1] + c[k] /\ q[k] = q[k - 1] + d[k]
      /\ \A k \in 0 .. l : p[k] \in Int /\ q[k] \in Int
  BY <1>2, <1>3 DEF Sums
<1>5. sum(c) = p[l] /\ sum(d) = q[l]
  BY <1>2, <1>3
<1>6. \A k \in 1 .. l : d[k] = IF k \in I THEN 0 ELSE c[k]
  OBVIOUS
<1>7. upTo(0) = {} /\ upTo(l) = I /\ \A k \in 0 .. l : upTo(k) \in SUBSET DOMAIN c
  BY <1>1
<1> HIDE DEF l
<1>8. ASSUME NEW k \in 0 .. l PROVE of(k) \in Int /\ Subsequence(c, upTo(k)) \in Seq(Int)
  <2>1. Subsequence(c, upTo(k)) \in Seq(Int)
    <3>1. upTo(k) \in SUBSET DOMAIN c
      BY <1>7
    <3> HIDE DEF upTo
    <3> QED
      BY <3>1, SubsequenceKeeps
  <2>2. 0 \in Int
    OBVIOUS
  <2> HIDE DEF upTo
  <2>3. sum(Subsequence(c, upTo(k))) \in Int
    BY <2>1, <2>2, SumOfAppend
  <2> QED
    BY <2>1, <2>3
<1> DEFINE T == {k \in 0 .. l : of(k) + q[k] = p[k]}
<1>9. 0 \in T
  <2>1. Subsequence(c, {}) = <<>>
    <3>1. Cardinality({}) = 0
      BY FS_EmptySet
    <3> QED
      BY <3>1 DEF Subsequence
  <2>2. sum(<<>>) = 0
    <3>1. <<>> \in Seq(Int) /\ 0 \in Int
      OBVIOUS
    <3> QED
      BY <3>1, SumOfAppend
  <2>3. of(0) = 0
    BY <1>7, <2>1, <2>2
  <2> HIDE DEF of
  <2>4. of(0) + q[0] = p[0]
    BY <1>4, <2>3
  <2>5. 0 \in 0 .. l
    BY <1>1
  <2> QED
    BY <2>4, <2>5
<1>10. ASSUME NEW k \in 1 .. l, k - 1 \in T PROVE k \in T
  <2>1. k \in 0 .. l /\ k - 1 \in 0 .. l /\ of(k - 1) + q[k - 1] = p[k - 1]
    BY <1>1, <1>10
  <2>2. of(k) \in Int /\ of(k - 1) \in Int
    BY <1>8, <2>1
  <2>3. p[k] = p[k - 1] + c[k] /\ q[k] = q[k - 1] + d[k] /\ p[k - 1] \in Int /\ q[k - 1] \in Int /\ c[k] \in Int
    BY <1>1, <1>4, <2>1
  <2>4. CASE k \in I
    <3>1. upTo(k) = upTo(k - 1) \cup {k} /\ upTo(k - 1) \in SUBSET (1 .. k - 1)
      BY <1>1, <2>4
    <3>2. k \in DOMAIN c
      BY <1>1
    <3> DEFINE J == upTo(k - 1)
               s == Subsequence(c, J)
    <3>3. s \in Seq(Int)
      BY <1>8, <2>1
    <3>4. Subsequence(c, J \cup {k}) = Append(s, c[k])
      <4>1. J \in SUBSET (1 .. k - 1)
        BY <3>1
      <4> HIDE DEF J
      <4> QED
        BY <3>2, <4>1, SubsequenceGrows
    <3>5. of(k) = sum(Append(s, c[k])) /\ of(k - 1) = sum(s)
      BY <3>1, <3>4
    <3> HIDE DEF s, J
    <3>6. sum(Append(s, c[k])) = sum(s) + c[k]
      BY <2>3, <3>3, SumOfAppend
    <3>7. d[k] = 0
      BY <1>6, <2>4
    <3> HIDE DEF of
    <3>8. of(k) + q[k] = p[k]
      BY <2>1, <2>2, <2>3, <3>5, <3>6, <3>7
    <3> QED
      BY <2>1, <3>8
  <2>5. CASE k \notin I
    <3>1. upTo(k) = upTo(k - 1)
      <4>1. \A j \in I : j \in 1 .. k => j \in 1 .. k - 1
        BY <1>1, <2>5
      <4>2. \A j \in 1 .. k - 1 : j \in 1 .. k
        BY <1>1
      <4> QED
        BY <4>1, <4>2
    <3>2. of(k) = of(k - 1)
      BY <3>1
    <3>3. d[k] = c[k]
      BY <1>6, <2>5
    <3> HIDE DEF of
    <3>4. of(k) + q[k] = p[k]
      BY <2>1, <2>2, <2>3, <3>2, <3>3
    <3> QED
      BY <2>1, <3>4
  <2> QED
    BY <2>4, <2>5
<1> HIDE DEF T
<1>11. \A k \in 0 .. l : k \in T
  BY <1>1, <1>9, <1>10, EachStep
<1>12. of(l) + q[l] = p[l]
  BY <1>1, <1>11 DEF T
<1>13. of(l) = sum(Subsequence(c, I))
  BY <1>7
<1> HIDE DEF of
<1> QED
  BY <1>5, <1>12, <1>13

\* A share of what there is to share, for each by what it costs, and one more: the shares
\* are no more than there is.
LEMMA SumOfShares ==
  ASSUME NEW c \in Seq(Nat), NEW b \in Nat, NEW t \in Nat, t > 0, t = sum(c),
         NEW e \in Seq(Int), Len(e) = Len(c),
         \A k \in 1 .. Len(c) : e[k] <= (c[k] * b) \div t + 1
  PROVE  sum(e) <= b + Len(c)
<1> DEFINE l == Len(c)
<1>1. l \in Nat /\ c \in Seq(Int) /\ \A k \in 1 .. l : c[k] \in Nat /\ e[k] \in Int
  OBVIOUS
<1>2. PICK p : Sums(c, p) /\ sum(c) = p[Len(c)]
  BY <1>1, SummedUp
<1>3. PICK r : Sums(e, r) /\ sum(e) = r[Len(e)]
  BY SummedUp
<1>4. /\ p[0] = 0 /\ r[0] = 0
      /\ \A k \in 1 .. l : p[k] = p[k - 1] + c[k] /\ r[k] = r[k - 1] + e[k]
      /\ \A k \in 0 .. l : p[k] \in Int /\ r[k] \in Int
  BY <1>2, <1>3 DEF Sums
<1>5. t = p[l] /\ sum(e) = r[l]
  BY <1>2, <1>3
<1>6. \A k \in 1 .. l : e[k] <= (c[k] * b) \div t + 1
  OBVIOUS
<1> HIDE DEF l
<1>7. ASSUME NEW k \in 1 .. l PROVE t * (e[k] - 1) <= b * c[k]
  <2> DEFINE a == c[k] * b
             d == a \div t
  <2>1. a \in Nat /\ a = b * c[k]
    <3>1. \A x, y \in Nat : x * y \in Nat /\ x * y = y * x
      OBVIOUS
    <3> QED
      BY <1>1, <3>1
  <2>2. d \in Int /\ t * d <= a
    <3>1. \A x \in Nat : \A m \in Nat : m > 0 => x \div m \in Int /\ m * (x \div m) <= x
      OBVIOUS
    <3> HIDE DEF a
    <3> QED
      BY <2>1, <3>1
  <2>3. e[k] - 1 <= d
    <3>1. e[k] <= d + 1
      BY <1>6
    <3> HIDE DEF d
    <3> QED
      BY <1>1, <2>2, <3>1
  <2> HIDE DEF d, a
  <2>4. t * (e[k] - 1) <= t * d
    <3>1. \A x, y \in Int : \A m \in Nat : x <= y => m * x <= m * y
      OBVIOUS
    <3> QED
      BY <1>1, <2>2, <2>3, <3>1
  <2>5. t * (e[k] - 1) \in Int /\ t * d \in Int
    BY <1>1, <2>2
  <2> QED
    BY <2>1, <2>2, <2>4, <2>5
<1> DEFINE T == {k \in 0 .. l : t * (r[k] - k) <= b * p[k]}
<1>8. 0 \in T
  <2>1. r[0] - 0 = 0 /\ p[0] = 0 /\ t * 0 = 0 /\ b * 0 = 0
    BY <1>4
  <2>2. t * (r[0] - 0) <= b * p[0]
    BY <2>1
  <2> QED
    BY <1>1, <2>2
<1>9. ASSUME NEW k \in 1 .. l, k - 1 \in T PROVE k \in T
  <2>1. k \in 0 .. l /\ k - 1 \in 0 .. l /\ t * (r[k - 1] - (k - 1)) <= b * p[k - 1]
    BY <1>1, <1>9
  <2>2. /\ p[k] = p[k - 1] + c[k] /\ r[k] = r[k - 1] + e[k]
        /\ p[k - 1] \in Int /\ r[k - 1] \in Int /\ c[k] \in Int /\ e[k] \in Int /\ k \in Int
    BY <1>1, <1>4, <2>1
  <2> DEFINE x == r[k - 1] - (k - 1)
             y == e[k] - 1
  <2>3. x \in Int /\ y \in Int /\ r[k] - k = x + y
    <3>1. \A u, v, z \in Int : (u - (z - 1)) + (v - 1) = (u + v) - z /\ u - (z - 1) \in Int /\ v - 1 \in Int
      OBVIOUS
    <3> DEFINE u == r[k - 1]
               v == e[k]
    <3>2. u \in Int /\ v \in Int /\ k \in Int /\ r[k] = u + v
      BY <2>2
    <3> HIDE DEF u, v
    <3>3. (u - (k - 1)) + (v - 1) = (u + v) - k /\ u - (k - 1) \in Int /\ v - 1 \in Int
      BY <3>1, <3>2
    <3>4. x = u - (k - 1) /\ y = v - 1
      BY DEF u, v
    <3> HIDE DEF x, y
    <3> QED
      BY <3>2, <3>3, <3>4
  <2>4. t * x <= b * p[k - 1] /\ t * y <= b * c[k]
    BY <1>7, <2>1
  <2> HIDE DEF x, y
  <2>5. \A m, u, v \in Int : m * (u + v) = m * u + m * v /\ m * u \in Int /\ m * v \in Int
    OBVIOUS
  <2>6. t * (x + y) = t * x + t * y /\ t * x \in Int /\ t * y \in Int
    BY <2>3, <2>5
  <2>7. /\ b * (p[k - 1] + c[k]) = b * p[k - 1] + b * c[k]
        /\ b * p[k - 1] \in Int /\ b * c[k] \in Int
    <3> DEFINE u == p[k - 1]
               v == c[k]
    <3>1. u \in Int /\ v \in Int /\ b \in Int
      BY <2>2
    <3> HIDE DEF u, v
    <3>2. b * (u + v) = b * u + b * v /\ b * u \in Int /\ b * v \in Int
      BY <2>5, <3>1
    <3> QED
      BY <3>2 DEF u, v
  <2>9. t * (x + y) <= b * (p[k - 1] + c[k])
    <3>1. \A u, v, g, h \in Int : u <= g /\ v <= h => u + v <= g + h
      OBVIOUS
    <3> QED
      BY <2>4, <2>6, <2>7, <3>1
  <2>8. t * (r[k] - k) <= b * p[k]
    BY <2>2, <2>3, <2>9
  <2> QED
    BY <2>1, <2>8
<1> HIDE DEF T
<1>10. \A k \in 0 .. l : k \in T
  BY <1>1, <1>8, <1>9, EachStep
<1>11. t * (r[l] - l) <= b * t
  BY <1>1, <1>5, <1>10 DEF T
<1>12. r[l] \in Int
  BY <1>1, <1>4
<1>13. r[l] <= b + l
  <2>1. \A x \in Int : \A m \in Nat : m > 0 /\ m * x <= b * m => x <= b
    OBVIOUS
  <2>2. r[l] - l <= b
    BY <1>1, <1>11, <1>12, <2>1
  <2> QED
    BY <1>1, <1>12, <2>2
<1> QED
  BY <1>5, <1>13 DEF l

\* Texts that can be told apart.
Texts(x) ==
  /\ x \in Seq(TextRecord)
  /\ \A i, j \in DOMAIN x : x[i].label = x[j].label => i = j

costsOf(x) == [i \in DOMAIN x |-> estimateTokens(x[i].chars)]

\* An estimate is a number of tokens.
LEMMA EstimateType ==
  ASSUME NEW n \in Nat
  PROVE  estimateTokens(n) \in Nat
  BY DEF estimateTokens

\* What texts cost, one by one, and that their tokens are the sum.
LEMMA CostsType ==
  ASSUME NEW x \in Seq(TextRecord)
  PROVE  /\ costsOf(x) \in Seq(Nat) /\ costsOf(x) \in Seq(Int) /\ Len(costsOf(x)) = Len(x)
         /\ DOMAIN costsOf(x) = DOMAIN x
         /\ \A i \in 1 .. Len(x) : costsOf(x)[i] = estimateTokens(x[i].chars) /\ costsOf(x)[i] \in Nat
         /\ tokensOf(x) = sum(costsOf(x)) /\ tokensOf(x) \in Int
<1>1. Len(x) \in Nat /\ DOMAIN x = 1 .. Len(x) /\ \A i \in 1 .. Len(x) : x[i] \in TextRecord
  OBVIOUS
<1>2. ASSUME NEW i \in 1 .. Len(x) PROVE estimateTokens(x[i].chars) \in Nat
  <2>1. x[i].chars \in Nat
    BY <1>1 DEF TextRecord
  <2> QED
    BY <2>1, EstimateType
<1> DEFINE c == costsOf(x)
<1>3. DOMAIN c = 1 .. Len(x) /\ \A i \in 1 .. Len(x) : c[i] = estimateTokens(x[i].chars) /\ c[i] \in Nat
  BY <1>1, <1>2 DEF costsOf
<1>4. c = [i \in 1 .. Len(x) |-> c[i]]
  BY <1>1 DEF costsOf
<1> HIDE DEF c
<1>5. c \in Seq(Nat) /\ Len(c) = Len(x)
  BY <1>1, <1>3, <1>4
<1>6. c \in Seq(Int)
  BY <1>5
<1>7. tokensOf(x) = sum(c)
  BY DEF tokensOf, costsOf, c
<1>8. sum(c) \in Int
  <2>1. 0 \in Int
    OBVIOUS
  <2> QED
    BY <1>6, <2>1, SumOfAppend
<1> QED
  BY <1>1, <1>3, <1>5, <1>6, <1>7, <1>8 DEF c

\* What is saved where nothing is dropped.
LEMMA SavedOnEach ==
  ASSUME NEW x \in Seq(TextRecord), NEW y \in Seq(TextRecord), Len(x) = Len(y)
  PROVE  savedBy(x, y) = tokensOf(x) - tokensOf(y)
<1> DEFINE e == [i \in DOMAIN x |-> estimateTokens(x[i].chars) - estimateTokens(y[i].chars)]
           c == costsOf(x)
           d == costsOf(y)
<1>1. Len(x) \in Nat /\ DOMAIN x = 1 .. Len(x)
  OBVIOUS
<1>2. /\ c \in Seq(Int) /\ Len(c) = Len(x) /\ tokensOf(x) = sum(c)
      /\ d \in Seq(Int) /\ Len(d) = Len(x) /\ tokensOf(y) = sum(d)
      /\ \A i \in 1 .. Len(x) : c[i] = estimateTokens(x[i].chars) /\ c[i] \in Nat
      /\ \A i \in 1 .. Len(x) : d[i] = estimateTokens(y[i].chars) /\ d[i] \in Nat
  BY CostsType
<1> HIDE DEF c, d
<1>3. \A i \in 1 .. Len(x) : e[i] = c[i] - d[i] /\ e[i] \in Int
  BY <1>1, <1>2
<1>4. e \in Seq(Int) /\ Len(e) = Len(x)
  <2>1. e = [i \in 1 .. Len(x) |-> e[i]]
    BY <1>1
  <2> HIDE DEF e
  <2> QED
    BY <1>1, <1>3, <2>1
<1>5. savedBy(x, y) = sum(e)
  BY DEF savedBy
<1> HIDE DEF e
<1>6. sum(e) = sum(c) - sum(d)
  BY <1>2, <1>3, <1>4, SumOfDifference
<1> QED
  BY <1>2, <1>5, <1>6

\* What is saved where some are dropped.
LEMMA SavedOnDropped ==
  ASSUME NEW x, Texts(x), NEW I \in SUBSET DOMAIN x
  PROVE  /\ Texts(Subsequence(x, I))
         /\ savedBy(x, Subsequence(x, I)) = tokensOf(x) - tokensOf(Subsequence(x, I))
<1> DEFINE y == Subsequence(x, I)
           c == costsOf(x)
           e == [i \in DOMAIN x |-> IF \E j \in DOMAIN y : y[j].label = x[i].label
                                    THEN 0 ELSE estimateTokens(x[i].chars)]
<1>1. x \in Seq(TextRecord) /\ \A i, j \in DOMAIN x : x[i].label = x[j].label => i = j
  BY DEF Texts
<1>2. Len(x) \in Nat /\ DOMAIN x = 1 .. Len(x)
  BY <1>1
<1>3. /\ y \in Seq(TextRecord) /\ Len(y) = Cardinality(I) /\ Cardinality(I) \in Nat
      /\ \A k \in DOMAIN y : nth(I, k) \in I /\ y[k] = x[nth(I, k)]
      /\ \A i \in I : \E k \in DOMAIN y : nth(I, k) = i
  BY <1>1, SubsequenceKeeps
<1>4. DOMAIN y = 1 .. Cardinality(I)
  BY <1>3
<1>5. \A k, l \in 1 .. Cardinality(I) : k < l => nth(I, k) < nth(I, l)
  BY <1>2, CountedOff
<1>6. /\ c \in Seq(Int) /\ Len(c) = Len(x) /\ tokensOf(x) = sum(c) /\ DOMAIN c = DOMAIN x
      /\ \A i \in 1 .. Len(x) : c[i] = estimateTokens(x[i].chars) /\ c[i] \in Nat
  BY <1>1, CostsType
<1>7. tokensOf(y) \in Int /\ tokensOf(y) = sum(costsOf(y)) /\ DOMAIN costsOf(y) = DOMAIN y
      /\ \A k \in 1 .. Len(y) : costsOf(y)[k] = estimateTokens(y[k].chars)
  <2> HIDE DEF y
  <2> QED
    BY <1>3, CostsType
<1> HIDE DEF y, c
<1>8. \A i \in DOMAIN x : (\E j \in DOMAIN y : y[j].label = x[i].label) <=> i \in I
  BY <1>1, <1>3
<1>9. \A i, j \in DOMAIN y : y[i].label = y[j].label => i = j
  <2> SUFFICES ASSUME NEW i \in DOMAIN y, NEW j \in DOMAIN y, y[i].label = y[j].label PROVE i = j
    OBVIOUS
  <2>1. nth(I, i) = nth(I, j) /\ nth(I, i) \in Nat
    BY <1>1, <1>2, <1>3
  <2>2. i \in Nat /\ j \in Nat
    BY <1>3, <1>4
  <2>3. ~(i < j) /\ ~(j < i)
    BY <1>4, <1>5, <2>1
  <2> QED
    BY <2>2, <2>3
<1>10. \A i \in 1 .. Len(x) : e[i] = (IF i \in I THEN 0 ELSE c[i]) /\ e[i] \in Int
  BY <1>2, <1>6, <1>8
<1>11. e \in Seq(Int) /\ Len(e) = Len(x)
  <2>1. e = [i \in 1 .. Len(x) |-> e[i]]
    BY <1>2
  <2> HIDE DEF e
  <2> QED
    BY <1>2, <1>10, <2>1
<1>12. Len(x) # Len(y) => savedBy(x, y) = sum(e)
  BY DEF savedBy
<1> HIDE DEF e
<1>13. sum(Subsequence(c, I)) + sum(e) = sum(c)
  BY <1>2, <1>6, <1>10, <1>11, SumOfKept
<1>14. Subsequence(c, I) = costsOf(y)
  <2>1. Subsequence(c, I) = [k \in 1 .. Cardinality(I) |-> c[nth(I, k)]]
    BY DEF Subsequence
  <2>2. costsOf(y) = [k \in 1 .. Cardinality(I) |-> estimateTokens(y[k].chars)]
    BY <1>4 DEF costsOf
  <2>3. \A k \in 1 .. Cardinality(I) : c[nth(I, k)] = estimateTokens(y[k].chars)
    BY <1>2, <1>3, <1>4, <1>6
  <2> QED
    BY <2>1, <2>2, <2>3
<1>15. sum(e) \in Int /\ sum(c) \in Int
  <2>1. 0 \in Int
    OBVIOUS
  <2> QED
    BY <1>6, <1>11, <2>1, SumOfAppend
<1>16. savedBy(x, y) = tokensOf(x) - tokensOf(y)
  <2>1. CASE Len(x) = Len(y)
    BY <1>1, <1>3, <2>1, SavedOnEach
  <2>2. CASE Len(x) # Len(y)
    BY <1>6, <1>7, <1>12, <1>13, <1>14, <1>15, <2>2
  <2> QED
    BY <2>1, <2>2
<1>17. Texts(y)
  BY <1>3, <1>9 DEF Texts
<1> QED
  BY <1>16, <1>17 DEF y

\* Texts with other lengths.
shortenedTo(x, n) == [i \in DOMAIN x |-> [x[i] EXCEPT !.chars = n[i]]]

\* Texts that are shortened remain what they are.
LEMMA ShortenedTexts ==
  ASSUME NEW x, Texts(x), NEW n \in [DOMAIN x -> Nat]
  PROVE  /\ Texts(shortenedTo(x, n)) /\ Len(shortenedTo(x, n)) = Len(x)
         /\ DOMAIN shortenedTo(x, n) = DOMAIN x
         /\ \A i \in DOMAIN x : /\ shortenedTo(x, n)[i].chars = n[i]
                               /\ shortenedTo(x, n)[i].label = x[i].label
<1> DEFINE y == shortenedTo(x, n)
<1>1. /\ x \in Seq(TextRecord) /\ Len(x) \in Nat /\ DOMAIN x = 1 .. Len(x)
      /\ \A i, j \in DOMAIN x : x[i].label = x[j].label => i = j
  BY DEF Texts
<1>2. \A i \in DOMAIN x : x[i] \in TextRecord
  BY <1>1
<1>3. \A i \in DOMAIN x : [x[i] EXCEPT !.chars = n[i]] \in TextRecord
                          /\ [x[i] EXCEPT !.chars = n[i]].chars = n[i]
                          /\ [x[i] EXCEPT !.chars = n[i]].label = x[i].label
  BY <1>2 DEF TextRecord
<1>4. DOMAIN y = 1 .. Len(x)
      /\ \A i \in 1 .. Len(x) : y[i] \in TextRecord /\ y[i].chars = n[i] /\ y[i].label = x[i].label
  BY <1>1, <1>3 DEF shortenedTo
<1>5. y = [i \in 1 .. Len(x) |-> y[i]]
  BY <1>1 DEF shortenedTo
<1> HIDE DEF y
<1>6. y \in Seq(TextRecord) /\ Len(y) = Len(x)
  BY <1>1, <1>4, <1>5
<1>7. Texts(y)
  BY <1>1, <1>4, <1>6 DEF Texts
<1> QED
  BY <1>1, <1>4, <1>6, <1>7 DEF y

\* Every text is close to itself, and as close to another as the other to it.
LEMMA NearItself ==
  ASSUME NEW s, NEW t, IsFiniteSet(s.words)
  PROVE  nearDuplicate(s, s) /\ (nearDuplicate(s, t) <=> nearDuplicate(t, s))
<1>1. s.words \cap s.words = s.words /\ s.words \cup s.words = s.words
  OBVIOUS
<1>2. Cardinality(s.words) \in Nat
  BY FS_CardinalityType
<1>3. nearDuplicate(s, s)
  <2>1. \A n \in Nat : 20 * n >= 17 * n
    OBVIOUS
  <2>2. 20 * Cardinality(s.words) >= 17 * Cardinality(s.words)
    BY <1>2, <2>1
  <2> QED
    BY <1>1, <2>2 DEF nearDuplicate
<1>4. s.words \cap t.words = t.words \cap s.words /\ s.words \cup t.words = t.words \cup s.words
  OBVIOUS
<1> QED
  BY <1>3, <1>4, Zenon DEF nearDuplicate

\* The positions kept: no two close to one another, one close to each.
LEMMA DistinctOnes ==
  ASSUME NEW x, Texts(x), \A i \in DOMAIN x : IsFiniteSet(x[i].words)
  PROVE  /\ distinct(x) \in SUBSET DOMAIN x
         /\ \A i \in DOMAIN x : \E j \in distinct(x) : nearDuplicate(x[j], x[i])
         /\ \A i, j \in distinct(x) : i < j => ~nearDuplicate(x[i], x[j])
<1> DEFINE l == Len(x)
           S == SUBSET DOMAIN x
           next(K, n) == IF \E i \in K : nearDuplicate(x[i], x[n]) THEN K ELSE K \cup {n}
           Upto(g) == g = [n \in 0 .. l |->
                             IF n = 0 THEN {}
                             ELSE IF \E i \in g[n - 1] : nearDuplicate(x[i], x[n]) THEN g[n - 1]
                             ELSE g[n - 1] \cup {n}]
           step == [n \in 1 .. l |-> [K \in S |-> next(K, n)]]
<1>1. l \in Nat /\ DOMAIN x = 1 .. l
  BY DEF Texts
<1>2. distinct(x) = (CHOOSE g : Upto(g))[l]
  BY DEF distinct
<1>3. \E r : Upto(r)
  <2>1. step \in [1 .. l -> [S -> S]] /\ \A n \in 1 .. l : \A K \in S : step[n][K] = next(K, n)
    <3>1. ASSUME NEW n \in 1 .. l PROVE [K \in S |-> next(K, n)] \in [S -> S]
      <4>1. n \in DOMAIN x
        BY <1>1
      <4>2. \A K \in S : next(K, n) \in S
        BY <4>1
      <4> HIDE DEF S, next
      <4> QED
        BY <4>2
    <3> HIDE DEF S, next, l
    <3> QED
      BY <3>1
  <2> HIDE DEF l, step
  <2>2. {} \in S
    OBVIOUS
  <2> HIDE DEF S
  <2>3. PICK r \in [0 .. l -> S] : Iterates(r, l, step, {})
    BY <1>1, <2>1, <2>2, Iteration
  <2>4. ASSUME NEW n \in 0 .. l PROVE r[n] = IF n = 0 THEN {} ELSE next(r[n - 1], n)
    <3>1. CASE n = 0
      BY <2>3, <3>1 DEF Iterates
    <3>2. CASE n # 0
      <4>1. n \in 1 .. l /\ r[n - 1] \in S
        BY <1>1, <2>3, <3>2
      <4> HIDE DEF next
      <4>2. r[n] = step[n][r[n - 1]]
        BY <2>3, <4>1 DEF Iterates
      <4> QED
        BY <2>1, <3>2, <4>1, <4>2
    <3> QED
      BY <3>1, <3>2
  <2>5. Upto(r)
    BY <2>3, <2>4
  <2> QED
    BY <2>5
<1> DEFINE f == CHOOSE g : Upto(g)
<1>4. Upto(f)
  <2> HIDE DEF Upto
  <2> QED
    BY <1>3
<1> HIDE DEF f, l
<1>5. \A n \in 0 .. l : f[n] = IF n = 0 THEN {} ELSE next(f[n - 1], n)
  BY <1>4, Zenon
<1>6. f[0] = {} /\ \A n \in 1 .. l : f[n] = next(f[n - 1], n)
  <2>1. 0 \in 0 .. l /\ \A n \in 1 .. l : n \in 0 .. l /\ n # 0
    BY <1>1
  <2> HIDE DEF next
  <2> QED
    BY <1>5, <2>1
<1> HIDE DEF Upto, S, step
<1> DEFINE Apart(n) == /\ f[n] \in SUBSET (1 .. n)
                       /\ \A i \in 1 .. n : \E j \in f[n] : nearDuplicate(x[j], x[i])
                       /\ \A i, j \in f[n] : i < j => ~nearDuplicate(x[i], x[j])
           T == {n \in 0 .. l : Apart(n)}
<1>7. 0 \in T
  <2>1. \A i \in 1 .. 0 : FALSE
    OBVIOUS
  <2>2. Apart(0)
    BY <1>6, <2>1
  <2> HIDE DEF Apart
  <2> QED
    BY <1>1, <2>2
<1>8. ASSUME NEW n \in 1 .. l, n - 1 \in T PROVE n \in T
  <2> DEFINE K == f[n - 1]
             m == n - 1
  <2>1. Apart(m) /\ n \in 0 .. l /\ n \in Nat /\ m \in Nat
    BY <1>1, <1>8
  <2>2. \A i : i \in 1 .. n <=> i \in 1 .. m \/ i = n
    BY <1>1
  <2>3. /\ K \in SUBSET (1 .. m) /\ \A i \in 1 .. m : \E j \in K : nearDuplicate(x[j], x[i])
        /\ \A i, j \in K : i < j => ~nearDuplicate(x[i], x[j])
    BY <2>1
  <2>4. nearDuplicate(x[n], x[n])
    <3>1. n \in DOMAIN x
      BY <1>1
    <3> QED
      BY <3>1, NearItself
  <2>5. \A i \in K : i < n /\ ~(n < i)
    BY <1>1, <2>3
  <2>6. f[n] = IF \E i \in K : nearDuplicate(x[i], x[n]) THEN K ELSE K \cup {n}
    BY <1>6
  <2> HIDE DEF K, m
  <2>7. CASE \E i \in K : nearDuplicate(x[i], x[n])
    <3>1. f[n] = K
      BY <2>6, <2>7
    <3>2. Apart(n)
      BY <2>2, <2>3, <2>7, <3>1
    <3> HIDE DEF Apart
    <3> QED
      BY <2>1, <3>2
  <2>8. CASE ~\E i \in K : nearDuplicate(x[i], x[n])
    <3>1. f[n] = K \cup {n}
      BY <2>6, <2>8
    <3>2. f[n] \in SUBSET (1 .. n)
      BY <2>2, <2>3, <3>1
    <3>3. \A i \in 1 .. n : \E j \in f[n] : nearDuplicate(x[j], x[i])
      BY <2>2, <2>3, <2>4, <3>1
    <3>4. \A i, j \in f[n] : i < j => ~nearDuplicate(x[i], x[j])
      <4> SUFFICES ASSUME NEW i \in f[n], NEW j \in f[n], i < j PROVE ~nearDuplicate(x[i], x[j])
        OBVIOUS
      <4>1. ~(n < n)
        BY <2>1
      <4>2. i \in K
        BY <2>5, <3>1, <4>1
      <4> QED
        BY <2>3, <2>8, <3>1, <4>2
    <3>5. Apart(n)
      BY <3>2, <3>3, <3>4
    <3> HIDE DEF Apart
    <3> QED
      BY <2>1, <3>5
  <2> QED
    BY <2>7, <2>8
<1> HIDE DEF T
<1>9. \A n \in 0 .. l : n \in T
  BY <1>1, <1>7, <1>8, EachStep
<1>10. Apart(l)
  BY <1>1, <1>9 DEF T
<1>11. distinct(x) = f[l]
  BY <1>2 DEF f, l
<1> QED
  BY <1>1, <1>10, <1>11

\* The four strategies one after the other save what each does.
LEMMA SumOfFour ==
  ASSUME NEW a \in Int, NEW b \in Int, NEW c \in Int, NEW d \in Int
  PROVE  sum(<<a, b, c, d>>) = a + b + c + d
<1> DEFINE s == <<a, b, c, d>>
<1>1. s \in Seq(Int) /\ Len(s) = 4 /\ s[1] = a /\ s[2] = b /\ s[3] = c /\ s[4] = d
  OBVIOUS
<1> HIDE DEF s
<1>2. PICK p : Sums(s, p) /\ sum(s) = p[Len(s)]
  BY <1>1, SummedUp
<1>3. p[0] = 0 /\ \A k \in 1 .. 4 : p[k] = p[k - 1] + s[k]
  BY <1>1, <1>2 DEF Sums
<1>4. p[1] = a /\ p[2] = p[1] + b /\ p[3] = p[2] + c /\ p[4] = p[3] + d
  BY <1>1, <1>3
<1> QED
  BY <1>1, <1>2, <1>4 DEF s

\* The strategies one after the other.
LEMMA Optimized ==
  ASSUME NEW x, Texts(x), \A i \in DOMAIN x : IsFiniteSet(x[i].words)
  PROVE  /\ Texts(optimize(x).content)
         /\ optimize(x).original - optimize(x).optimized = sum(optimize(x).saved)
<1> DEFINE deduped == deduplicate(x)
           compressed == compress(deduped)
           filtered == filterByRelevance(compressed)
           truncated == truncateLong(filtered)
           most(n) == IF n <= MaxContentLength THEN n ELSE MaxContentLength + Mark
<1>1. Texts(deduped) /\ savedBy(x, deduped) = tokensOf(x) - tokensOf(deduped)
  <2>1. distinct(x) \in SUBSET DOMAIN x
    BY DistinctOnes
  <2> QED
    BY <2>1, SavedOnDropped DEF deduplicate
<1> HIDE DEF deduped
<1>2. Texts(compressed) /\ savedBy(deduped, compressed) = tokensOf(deduped) - tokensOf(compressed)
  <2> DEFINE n == [i \in DOMAIN deduped |-> deduped[i].squeezed]
  <2>1. n \in [DOMAIN deduped -> Nat]
    <3>1. \A i \in DOMAIN deduped : deduped[i] \in TextRecord
      BY <1>1 DEF Texts
    <3> QED
      BY <3>1 DEF TextRecord
  <2>2. compressed = shortenedTo(deduped, n)
    BY DEF compress, shortenedTo
  <2> HIDE DEF n, compressed
  <2>3. Texts(compressed) /\ Len(compressed) = Len(deduped)
    BY <1>1, <2>1, <2>2, ShortenedTexts
  <2> QED
    BY <1>1, <2>3, SavedOnEach DEF Texts
<1> HIDE DEF compressed
<1>3. Texts(filtered) /\ savedBy(compressed, filtered) = tokensOf(compressed) - tokensOf(filtered)
  <2>1. {i \in DOMAIN compressed : compressed[i].score >= 1} \in SUBSET DOMAIN compressed
    OBVIOUS
  <2> QED
    BY <1>2, <2>1, SavedOnDropped DEF filterByRelevance
<1> HIDE DEF filtered
<1>4. Texts(truncated) /\ savedBy(filtered, truncated) = tokensOf(filtered) - tokensOf(truncated)
  <2> DEFINE n == [i \in DOMAIN filtered |-> most(filtered[i].chars)]
  <2>1. n \in [DOMAIN filtered -> Nat]
    <3>1. \A i \in DOMAIN filtered : filtered[i] \in TextRecord
      BY <1>3 DEF Texts
    <3>2. \A k \in Nat : most(k) \in Nat
      BY DEF MaxContentLength, Mark
    <3> QED
      BY <3>1, <3>2 DEF TextRecord
  <2>2. truncated = shortenedTo(filtered, n)
    <3>1. truncated = [i \in DOMAIN filtered |-> [filtered[i] EXCEPT !.chars = most(filtered[i].chars)]]
      <4>1. \A i \in DOMAIN filtered :
              [filtered[i] EXCEPT !.chars = IF @ <= MaxContentLength THEN @ ELSE MaxContentLength + Mark]
              = [filtered[i] EXCEPT !.chars = most(filtered[i].chars)]
        OBVIOUS
      <4> QED
        BY <4>1 DEF truncateLong
    <3> HIDE DEF truncated, most
    <3> QED
      BY <3>1 DEF shortenedTo
  <2> HIDE DEF n, truncated
  <2>3. Texts(truncated) /\ Len(truncated) = Len(filtered)
    BY <1>3, <2>1, <2>2, ShortenedTexts
  <2> QED
    BY <1>3, <2>3, SavedOnEach DEF Texts
<1>5. /\ optimize(x).content = truncated /\ optimize(x).original = tokensOf(x)
      /\ optimize(x).optimized = tokensOf(truncated)
      /\ optimize(x).saved = <<savedBy(x, deduped), savedBy(deduped, compressed),
                               savedBy(compressed, filtered), savedBy(filtered, truncated)>>
  BY DEF optimize, deduped, compressed, filtered
<1> HIDE DEF truncated
<1> DEFINE a == tokensOf(x)
           b == tokensOf(deduped)
           c == tokensOf(compressed)
           d == tokensOf(filtered)
           e == tokensOf(truncated)
<1>6. a \in Int /\ b \in Int /\ c \in Int /\ d \in Int /\ e \in Int
  BY <1>1, <1>2, <1>3, <1>4, CostsType DEF Texts
<1>7. optimize(x).saved = <<a - b, b - c, c - d, d - e>>
  BY <1>1, <1>2, <1>3, <1>4, <1>5
<1> HIDE DEF a, b, c, d, e
<1>8. sum(<<a - b, b - c, c - d, d - e>>) = (a - b) + (b - c) + (c - d) + (d - e)
  BY <1>6, SumOfFour
<1>9. optimize(x).original - optimize(x).optimized = a - e
  BY <1>5 DEF a, e
<1> QED
  BY <1>4, <1>5, <1>6, <1>7, <1>8, <1>9

\* A section within its share, shortened to it, or cut at it and marked.
LEMMA SharedOut ==
  ASSUME NEW x, Texts(x), \A i \in DOMAIN x : IsFiniteSet(x[i].words), NEW b \in Nat
  PROVE  /\ [i \in DOMAIN x |-> optimizeForDigest(x, b)[i].label] = [i \in DOMAIN x |-> x[i].label]
         /\ tokensOf(optimizeForDigest(x, b)) <= b + Len(x)
<1> DEFINE total == tokensOf(x)
           allowed(s) == (estimateTokens(s.chars) * b) \div total
           brief(s) == LET o == optimize(<<s>>).content IN IF o = <<>> THEN 0 ELSE o[1].chars
           cut(s) == LET most == 4 * allowed(s)
                     IN 1 + (IF brief(s) < most THEN brief(s) ELSE most)
           n == [i \in DOMAIN x |-> IF estimateTokens(x[i].chars) <= allowed(x[i]) THEN x[i].chars
                                    ELSE IF estimateTokens(brief(x[i])) <= allowed(x[i]) THEN brief(x[i])
                                    ELSE cut(x[i])]
           y == optimizeForDigest(x, b)
           c == costsOf(x)
<1>1. x \in Seq(TextRecord) /\ Len(x) \in Nat /\ DOMAIN x = 1 .. Len(x)
  BY DEF Texts
<1>2. /\ c \in Seq(Nat) /\ Len(c) = Len(x) /\ total = sum(c) /\ total \in Int
      /\ \A i \in 1 .. Len(x) : c[i] = estimateTokens(x[i].chars) /\ c[i] \in Nat
  BY <1>1, CostsType
<1>3. CASE total <= b
  <2>1. y = x
    BY <1>3 DEF optimizeForDigest
  <2>2. tokensOf(y) <= b + Len(x)
    <3> HIDE DEF y, total
    <3>1. \A u \in Int : \A k, m \in Nat : u <= k => u <= k + m
      OBVIOUS
    <3>2. tokensOf(y) = total
      BY <2>1 DEF total
    <3> QED
      BY <1>1, <1>2, <1>3, <3>1, <3>2
  <2> QED
    BY <2>1, <2>2
<1>4. CASE ~(total <= b)
  <2>1. y = shortenedTo(x, n)
    <3>1. y = [i \in DOMAIN x |-> [x[i] EXCEPT !.chars = n[i]]]
      BY <1>4, Zenon DEF optimizeForDigest
    <3> QED
      BY <3>1, Zenon DEF shortenedTo
  <2> HIDE DEF c, total, y
  <2>2. total \in Nat /\ total > 0
    BY <1>2, <1>4
  <2>3. ASSUME NEW i \in DOMAIN x PROVE brief(x[i]) \in Nat
    <3> DEFINE s == x[i]
               o == optimize(<<s>>).content
    <3>1. s \in TextRecord /\ IsFiniteSet(s.words)
      BY <1>1
    <3> HIDE DEF s
    <3>2. Texts(<<s>>) /\ \A k \in DOMAIN <<s>> : IsFiniteSet(<<s>>[k].words)
      BY <3>1 DEF Texts
    <3>3. Texts(o)
      BY <3>2, Optimized
    <3> HIDE DEF o
    <3>4. o # <<>> => o[1] \in TextRecord
      BY <3>3 DEF Texts
    <3>5. (IF o = <<>> THEN 0 ELSE o[1].chars) \in Nat
      BY <3>4 DEF TextRecord
    <3> QED
      BY <3>5 DEF o, s
  <2> DEFINE q(i) == (c[i] * b) \div total
  <2>4. ASSUME NEW i \in DOMAIN x PROVE allowed(x[i]) = q(i) /\ q(i) \in Nat
    <3>1. c[i] = estimateTokens(x[i].chars) /\ c[i] \in Nat
      BY <1>1, <1>2
    <3>2. \A u, v \in Nat : u * v \in Nat
      OBVIOUS
    <3>3. \A u, v \in Nat : v > 0 => u \div v \in Nat
      OBVIOUS
    <3>4. q(i) \in Nat
      BY <2>2, <3>1, <3>2, <3>3
    <3> QED
      BY <3>1, <3>4
  <2> HIDE DEF q, allowed, brief
  <2>5. ASSUME NEW i \in DOMAIN x PROVE n[i] \in Nat /\ estimateTokens(n[i]) <= q(i) + 1
    <3> DEFINE w == brief(x[i])
               m == q(i)
    <3>1. w \in Nat /\ m \in Nat /\ allowed(x[i]) = m /\ x[i].chars \in Nat
      <4>1. x[i] \in TextRecord
        BY <1>1
      <4> QED
        BY <2>3, <2>4, <4>1 DEF TextRecord
    <3>2. n[i] = IF estimateTokens(x[i].chars) <= m THEN x[i].chars
                 ELSE IF estimateTokens(w) <= m THEN w
                 ELSE 1 + (IF w < 4 * m THEN w ELSE 4 * m)
      BY <3>1, Zenon
    <3> DEFINE v == n[i]
    <3>3. v = IF estimateTokens(x[i].chars) <= m THEN x[i].chars
              ELSE IF estimateTokens(w) <= m THEN w
              ELSE 1 + (IF w < 4 * m THEN w ELSE 4 * m)
      BY <3>2
    <3> HIDE DEF w, m, v
    <3>4. CASE estimateTokens(x[i].chars) <= m
      <4>1. v \in Nat /\ estimateTokens(v) <= m + 1
        BY <3>1, <3>3, <3>4, EstimateType
      <4> QED
        BY <4>1 DEF v, m
    <3>5. CASE ~(estimateTokens(x[i].chars) <= m) /\ estimateTokens(w) <= m
      <4>1. v \in Nat /\ estimateTokens(v) <= m + 1
        BY <3>1, <3>3, <3>5, EstimateType
      <4> QED
        BY <4>1 DEF v, m
    <3>6. CASE ~(estimateTokens(x[i].chars) <= m) /\ ~(estimateTokens(w) <= m)
      <4>1. v = 1 + (IF w < 4 * m THEN w ELSE 4 * m)
        BY <3>3, <3>6
      <4>2. v \in Nat /\ v <= 1 + 4 * m
        BY <3>1, <4>1
      <4>3. estimateTokens(v) <= m + 1
        BY <3>1, <4>2 DEF estimateTokens
      <4> QED
        BY <4>2, <4>3 DEF v, m
    <3> QED
      BY <3>4, <3>5, <3>6
  <2>6. n \in [DOMAIN x -> Nat]
    <3>1. \A i \in DOMAIN x : n[i] \in Nat
      BY <2>5
    <3>2. n = [i \in DOMAIN x |-> n[i]]
      OBVIOUS
    <3> HIDE DEF n
    <3> QED
      BY <3>1, <3>2
  <2> HIDE DEF n
  <2>7. /\ Texts(y) /\ Len(y) = Len(x) /\ DOMAIN y = DOMAIN x
        /\ \A i \in DOMAIN x : y[i].chars = n[i] /\ y[i].label = x[i].label
    BY <2>1, <2>6, ShortenedTexts
  <2>8. [i \in DOMAIN x |-> y[i].label] = [i \in DOMAIN x |-> x[i].label]
    BY <2>7
  <2> DEFINE e == costsOf(y)
  <2>9. /\ e \in Seq(Int) /\ Len(e) = Len(c) /\ tokensOf(y) = sum(e)
        /\ \A i \in 1 .. Len(c) : e[i] = estimateTokens(y[i].chars)
    BY <1>2, <2>7, CostsType DEF Texts
  <2> HIDE DEF e
  <2>10. \A i \in 1 .. Len(c) : e[i] <= (c[i] * b) \div total + 1
    BY <1>1, <1>2, <2>5, <2>7, <2>9 DEF q
  <2>11. sum(e) <= b + Len(c)
    BY <1>2, <2>2, <2>9, <2>10, SumOfShares
  <2> QED
    BY <1>2, <2>8, <2>9, <2>11 DEF y
<1> QED
  BY <1>3, <1>4

\* The invariant of the optimizer: it has not begun, or it is done with its input.
OptimizerInv ==
  optimizer = Idle \/
  /\ optimizer.input \in TextInput
  /\ optimizer \in [input : TextInput, pc : {"start"}, result : {<<>>}, sections : {<<>>}]
     \/ /\ optimizer.result = optimize(optimizer.input.sections)
        /\ optimizer.sections = optimizeForDigest(optimizer.input.sections, optimizer.input.budget)
        /\ optimizer.pc = "done"

\* The one step of the optimizer keeps its invariant.
LEMMA OptimizerStep ==
  ASSUME OptimizerInv, [ContextNext]_contextVars
  PROVE  OptimizerInv'
<1>1. CASE optimizer' = optimizer
  BY <1>1, Zenon DEF OptimizerInv
<1>2. CASE Optimize
  <2>1. /\ optimizer.pc = "start"
        /\ optimizer' = [optimizer EXCEPT
             !.pc = "done", !.result = optimize(optimizer.input.sections),
             !.sections = optimizeForDigest(optimizer.input.sections, optimizer.input.budget)]
    BY <1>2 DEF Optimize
  <2>2. optimizer \in [input : TextInput, pc : {"start"}, result : {<<>>}, sections : {<<>>}]
    BY <2>1 DEF OptimizerInv, Idle
  <2> DEFINE r == optimize(optimizer.input.sections)
             s == optimizeForDigest(optimizer.input.sections, optimizer.input.budget)
  <2>3. optimizer' = [optimizer EXCEPT !.pc = "done", !.result = r, !.sections = s]
    BY <2>1
  <2> HIDE DEF r, s
  <2>4. /\ optimizer'.input = optimizer.input /\ optimizer'.result = r /\ optimizer'.sections = s
        /\ optimizer'.pc = "done" /\ optimizer.input \in TextInput
    BY <2>2, <2>3
  <2> QED
    BY <2>4 DEF OptimizerInv, r, s
<1>3. CASE pruneToTokenBudget \/ formatDigest
  BY <1>1, <1>3 DEF pruneToTokenBudget, StartPruning, TrimItem, TrimConventions, NextPhase, formatDigest
<1>4. CASE UNCHANGED contextVars
  BY <1>1, <1>4 DEF contextVars
<1> QED
  BY <1>2, <1>3, <1>4 DEF ContextNext

\* An optimizer that has not run.
LEMMA OptimizerBegins ==
  ASSUME ContextInit
  PROVE  OptimizerInv
<1>1. CASE OptimizerInit
  BY <1>1 DEF OptimizerInit, OptimizerInv
<1>2. CASE optimizer = Idle
  BY <1>2 DEF OptimizerInv
<1> QED
  BY <1>1, <1>2 DEF ContextInit

\* What the optimizer computes has its property.
LEMMA OptimizerFits ==
  ASSUME OptimizerInv
  PROVE  OptimizerAddsUp
<1> SUFFICES ASSUME optimizer.pc = "done" PROVE OptimizerAddsUp
  BY DEF OptimizerAddsUp
<1> DEFINE x == optimizer.input.sections
           b == optimizer.input.budget
           y == deduplicate(x)
           D == distinct(x)
<1>1. /\ optimizer.input \in TextInput /\ optimizer.result = optimize(x)
      /\ optimizer.sections = optimizeForDigest(x, b)
  BY DEF OptimizerInv, Idle
<1>2. Texts(x) /\ b \in Nat /\ \A i \in DOMAIN x : IsFiniteSet(x[i].words)
  BY <1>1, TextAssumption DEF Texts
<1> HIDE DEF x, b
<1>3. optimizer.result.original - optimizer.result.optimized = sum(optimizer.result.saved)
  BY <1>1, <1>2, Optimized
<1>4. /\ [i \in DOMAIN x |-> optimizer.sections[i].label] = [i \in DOMAIN x |-> x[i].label]
      /\ tokensOf(optimizer.sections) <= b + Len(x)
  BY <1>1, <1>2, SharedOut
<1>5. /\ D \in SUBSET DOMAIN x
      /\ \A i \in DOMAIN x : \E j \in D : nearDuplicate(x[j], x[i])
      /\ \A i, j \in D : i < j => ~nearDuplicate(x[i], x[j])
  BY <1>2, DistinctOnes
<1>6. y = Subsequence(x, D)
  BY DEF deduplicate
<1>7. Len(x) \in Nat /\ DOMAIN x = 1 .. Len(x) /\ x \in Seq(TextRecord)
  BY <1>2 DEF Texts
<1> HIDE DEF y, D
<1>8. /\ Len(y) = Cardinality(D) /\ Cardinality(D) \in Nat /\ DOMAIN y = 1 .. Cardinality(D)
      /\ \A k \in DOMAIN y : nth(D, k) \in D /\ y[k] = x[nth(D, k)]
      /\ \A i \in D : \E k \in DOMAIN y : nth(D, k) = i
  <2>1. /\ y \in Seq(TextRecord) /\ Len(y) = Cardinality(D) /\ Cardinality(D) \in Nat
        /\ \A k \in DOMAIN y : nth(D, k) \in D /\ y[k] = x[nth(D, k)]
        /\ \A i \in D : \E k \in DOMAIN y : nth(D, k) = i
    BY <1>5, <1>6, <1>7, SubsequenceKeeps
  <2>2. DOMAIN y = 1 .. Cardinality(D)
    BY <2>1
  <2> QED
    BY <2>1, <2>2
<1>9. \A k, l \in 1 .. Cardinality(D) : k < l => nth(D, k) < nth(D, l)
  BY <1>5, <1>7, CountedOff
<1>10. \A i \in DOMAIN x : \E j \in DOMAIN y : nearDuplicate(y[j], x[i])
  BY <1>5, <1>8
<1>11. \A i, j \in DOMAIN y : i # j => ~nearDuplicate(y[i], y[j])
  <2>1. ASSUME NEW i \in DOMAIN y, NEW j \in DOMAIN y, i < j
        PROVE  ~nearDuplicate(y[i], y[j]) /\ ~nearDuplicate(y[j], y[i])
    <3>1. nth(D, i) \in D /\ nth(D, j) \in D /\ nth(D, i) < nth(D, j)
      BY <1>8, <1>9, <2>1
    <3>2. y[i] = x[nth(D, i)] /\ y[j] = x[nth(D, j)]
      BY <1>8
    <3>3. IsFiniteSet(y[i].words)
      BY <1>2, <1>5, <3>1, <3>2
    <3>4. ~nearDuplicate(y[i], y[j])
      BY <1>5, <3>1, <3>2
    <3> QED
      BY <3>3, <3>4, NearItself
  <2>2. \A i, j \in DOMAIN y : i # j => i < j \/ j < i
    BY <1>8
  <2> QED
    BY <2>1, <2>2
<1> QED
  BY <1>3, <1>4, <1>10, <1>11, Zenon DEF OptimizerAddsUp, x, b, y

(* The theorem. *)

\* For all graphs, digests and texts: what the pruner gives fits its budget or has nothing
\* left to trim, and nothing went before its turn or without need; so with the digest;
\* and the optimizer counts what it saves, drops only what is close to what it keeps,
\* and exceeds its budget by no more than a token for each text.
THEOREM ContextCorrect == ContextSpec => []ContextFits
<1> DEFINE I == PrunerInv /\ DigestInv /\ OptimizerInv
<1>1. ContextInit => I
  BY PrunerBegins, DigestBegins, OptimizerBegins
<1>2. I /\ [ContextNext]_contextVars => I'
  BY PrunerStep, DigestStep, OptimizerStep
<1>3. I => ContextFits
  BY PrunerFits, DigestFitsOf, OptimizerFits DEF ContextFits
<1> QED
  BY <1>1, <1>2, <1>3, PTL DEF ContextSpec

------------------------------------------------------------------------------
(* Ownership and runtime signals. *)

(* Lists that were joined, and the first of each kind. *)

\* The lists joined so far, for every number of them.
JoinedSoFar(ls, p) ==
  /\ p[0] = <<>>
  /\ \A k \in 1 .. Len(ls) : p[k] = p[k - 1] \o ls[k]

\* What lists joined hold is what each of them holds.
LEMMA JoinedLists ==
  ASSUME NEW S, NEW ls \in Seq(Seq(S))
  PROVE  joined(ls) \in Seq(S) /\ toSet(joined(ls)) = UNION {toSet(ls[i]) : i \in DOMAIN ls}
<1> DEFINE l == Len(ls)
           Q == Seq(S)
           Upto(g) == g = [n \in 0 .. l |-> IF n = 0 THEN <<>> ELSE g[n - 1] \o ls[n]]
           step == [k \in 1 .. l |-> [x \in Q |-> x \o ls[k]]]
<1>1. l \in Nat /\ DOMAIN ls = 1 .. l /\ (\A k \in 1 .. l : ls[k] \in Q) /\ <<>> \in Q
  <2>1. <<>> \in Q
    OBVIOUS
  <2>2. l \in Nat /\ DOMAIN ls = 1 .. l /\ \A k \in 1 .. l : ls[k] \in Q
    OBVIOUS
  <2> QED
    BY <2>1, <2>2, Zenon
<1>2. \A x, y \in Q : x \o y \in Q /\ toSet(x \o y) = toSet(x) \cup toSet(y)
  BY JoinedSets
<1> HIDE DEF Q
<1>3. step \in [1 .. l -> [Q -> Q]] /\ \A k \in 1 .. l : \A x \in Q : step[k][x] = x \o ls[k]
  <2>1. ASSUME NEW k \in 1 .. l PROVE [x \in Q |-> x \o ls[k]] \in [Q -> Q]
    BY <1>1, <1>2
  <2> QED
    BY <2>1
<1> HIDE DEF l, step
<1>4. PICK r \in [0 .. l -> Q] : Iterates(r, l, step, <<>>)
  BY <1>1, <1>3, Iteration
<1>5. Upto(r)
  <2>1. ASSUME NEW k \in 0 .. l PROVE r[k] = IF k = 0 THEN <<>> ELSE r[k - 1] \o ls[k]
    <3>1. CASE k = 0
      BY <1>4, <3>1 DEF Iterates
    <3>2. CASE k # 0
      <4>1. k \in 1 .. l /\ k - 1 \in 0 .. l
        BY <1>1, <3>2
      <4>2. r[k - 1] \in Q
        BY <1>4, <4>1
      <4>3. r[k] = step[k][r[k - 1]]
        BY <1>4, <4>1 DEF Iterates
      <4> QED
        BY <1>3, <3>2, <4>1, <4>2, <4>3
    <3> QED
      BY <3>1, <3>2
  <2> QED
    BY <1>4, <2>1
<1> DEFINE f == CHOOSE g : Upto(g)
<1>6. Upto(f)
  <2> HIDE DEF Upto
  <2> QED
    BY <1>5
<1>7. joined(ls) = f[l]
  BY DEF joined, l
<1> HIDE DEF f
<1>8. \A k \in 0 .. l : f[k] = IF k = 0 THEN <<>> ELSE f[k - 1] \o ls[k]
  BY <1>6, Zenon
<1>9. f[0] = <<>> /\ \A k \in 1 .. l : f[k] = f[k - 1] \o ls[k]
  <2>1. 0 \in 0 .. l /\ \A k \in 1 .. l : k \in 0 .. l /\ k # 0
    BY <1>1
  <2> QED
    BY <1>8, <2>1
<1> DEFINE Member(k) == UNION {toSet(ls[i]) : i \in 1 .. k}
           T == {k \in 0 .. l : f[k] \in Q /\ toSet(f[k]) = Member(k)}
<1>10. 0 \in T
  <2>1. toSet(<<>>) = {}
    BY DEF toSet
  <2>2. Member(0) = {}
    OBVIOUS
  <2>3. 0 \in 0 .. l
    BY <1>1
  <2> HIDE DEF Member
  <2> QED
    BY <1>1, <1>9, <2>1, <2>2, <2>3
<1>11. ASSUME NEW k \in 1 .. l, k - 1 \in T PROVE k \in T
  <2>1. 1 .. k = (1 .. k - 1) \cup {k}
    BY <1>1
  <2>2. Member(k) = Member(k - 1) \cup toSet(ls[k])
    BY <2>1
  <2>3. f[k - 1] \in Q /\ toSet(f[k - 1]) = Member(k - 1) /\ ls[k] \in Q /\ k \in 0 .. l
    BY <1>1, <1>11
  <2>4. f[k] = f[k - 1] \o ls[k]
    BY <1>9
  <2> HIDE DEF Member
  <2> QED
    BY <1>2, <2>2, <2>3, <2>4
<1> HIDE DEF T
<1>12. l \in T
  <2>1. \A k \in 0 .. l : k \in T
    BY <1>1, <1>10, <1>11, EachStep
  <2> QED
    BY <1>1, <2>1
<1> QED
  BY <1>1, <1>7, <1>12 DEF T, Q

\* Each first of its kind is kept: what there was is there, and nothing twice.
LEMMA FirstOnes ==
  ASSUME NEW S, NEW s \in Seq(S),
         NEW I \in SUBSET DOMAIN s,
         \A i \in DOMAIN s : i \in I <=> \A j \in 1 .. i - 1 : s[j] # s[i]
  PROVE  /\ Subsequence(s, I) \in Seq(S) /\ toSet(Subsequence(s, I)) = toSet(s)
         /\ once(Subsequence(s, I))
<1> DEFINE sub == Subsequence(s, I)
<1>1. Len(s) \in Nat /\ DOMAIN s = 1 .. Len(s)
  OBVIOUS
<1>2. /\ sub \in Seq(S) /\ toSet(sub) = {s[i] : i \in I} /\ Len(sub) = Cardinality(I)
      /\ \A k \in DOMAIN sub : nth(I, k) \in I /\ sub[k] = s[nth(I, k)]
  <2>1. /\ sub \in Seq(S) /\ Len(sub) = Cardinality(I)
        /\ \A k \in DOMAIN sub : nth(I, k) \in I /\ sub[k] = s[nth(I, k)]
    BY SubsequenceKeeps
  <2>2. toSet(sub) = {s[i] : i \in I}
    BY SubsequenceSet, Zenon
  <2> QED
    BY <2>1, <2>2
<1> HIDE DEF sub
<1>3. \A k, m \in 1 .. Cardinality(I) : k < m => nth(I, k) < nth(I, m)
  BY <1>1, CountedOff
<1>4. ASSUME NEW i \in DOMAIN s PROVE \E j \in I : s[j] = s[i]
  <2> DEFINE J == {j \in 1 .. Len(s) : s[j] = s[i]}
  <2>1. J \in SUBSET Nat /\ J # {}
    BY <1>1
  <2>2. PICK j \in J : \A k \in J : j <= k
    BY <2>1, LeastElement
  <2>3. \A k \in 1 .. j - 1 : s[k] # s[j]
    BY <1>1, <2>2
  <2> QED
    BY <1>1, <2>2, <2>3
<1>5. toSet(sub) = toSet(s)
  <2>1. toSet(s) = {s[i] : i \in I}
    BY <1>4 DEF toSet
  <2> QED
    BY <1>2, <2>1
<1>6. \A i, j \in I : s[i] = s[j] => i = j
  <2> SUFFICES ASSUME NEW i \in I, NEW j \in I, s[i] = s[j], i # j PROVE FALSE
    OBVIOUS
  <2>1. i \in 1 .. Len(s) /\ j \in 1 .. Len(s)
    BY <1>1
  <2>2. i \in 1 .. j - 1 \/ j \in 1 .. i - 1
    BY <1>1, <2>1
  <2> QED
    BY <2>2
<1>7. once(sub)
  <2> SUFFICES ASSUME NEW k \in DOMAIN sub, NEW m \in DOMAIN sub, sub[k] = sub[m], k # m PROVE FALSE
    BY DEF once
  <2>1. nth(I, k) = nth(I, m)
    <3>1. /\ nth(I, k) \in I /\ sub[k] = s[nth(I, k)]
          /\ nth(I, m) \in I /\ sub[m] = s[nth(I, m)]
      BY <1>2
    <3> QED
      BY <1>6, <3>1
  <2>2. k \in 1 .. Cardinality(I) /\ m \in 1 .. Cardinality(I) /\ Cardinality(I) \in Nat
    BY <1>1, <1>2, CountedOff
  <2>3. k < m \/ m < k
    BY <2>2
  <2>4. nth(I, k) \in Int /\ nth(I, m) \in Int
    BY <1>1, <1>2
  <2> QED
    BY <1>3, <2>1, <2>2, <2>3, <2>4
<1> QED
  BY <1>2, <1>5, <1>7 DEF sub

(* Sorting. *)

\* Where the members of a list come one before the other in a strict total order, each
\* place has a member that as many come before, and that order is the one of the places.
LEMMA Ranked ==
  ASSUME NEW n \in Nat, NEW A \in [1 .. n -> SUBSET (1 .. n)],
         \A i \in 1 .. n : i \notin A[i],
         \A i, j \in 1 .. n : i # j => i \in A[j] \/ j \in A[i],
         \A i, j \in 1 .. n : j \in A[i] => A[j] \subseteq A[i]
  PROVE  /\ \A k \in 1 .. n : \E i \in 1 .. n : Cardinality(A[i]) = k - 1
         /\ \A i \in 1 .. n : Cardinality(A[i]) + 1 \in 1 .. n
         /\ \A i, j \in 1 .. n : Cardinality(A[i]) < Cardinality(A[j]) => i \in A[j]
         /\ \A i, j \in 1 .. n : Cardinality(A[i]) = Cardinality(A[j]) => i = j
<1> DEFINE c(i) == Cardinality(A[i])
           place == [i \in 1 .. n |-> c(i) + 1]
<1>1. IsFiniteSet(1 .. n) /\ Cardinality(1 .. n) = n
  <2>1. 1 \in Int /\ n \in Int /\ (1 > n => n = 0)
    OBVIOUS
  <2> QED
    BY <2>1, FS_Interval
<1>2. ASSUME NEW i \in 1 .. n
      PROVE  IsFiniteSet(A[i]) /\ c(i) \in Nat /\ c(i) < n
  <2>1. A[i] \in SUBSET (1 .. n) /\ A[i] # 1 .. n
    OBVIOUS
  <2>2. IsFiniteSet(A[i]) /\ Cardinality(A[i]) <= n /\ Cardinality(A[i]) # n
    BY <1>1, <2>1, FS_Subset
  <2>3. Cardinality(A[i]) \in Nat
    BY <2>2, FS_CardinalityType
  <2> QED
    BY <2>2, <2>3
<1>3. ASSUME NEW i \in 1 .. n, NEW j \in 1 .. n, j \in A[i]
      PROVE  c(j) < c(i)
  <2>1. A[j] \in SUBSET A[i] /\ A[j] # A[i]
    BY <1>3
  <2>2. c(j) <= c(i) /\ c(j) # c(i)
    BY <1>2, <2>1, FS_Subset
  <2> QED
    BY <1>2, <2>2
<1>4. \A i, j \in 1 .. n : i # j => c(i) # c(j)
  BY <1>2, <1>3
<1>5. \A i, j \in 1 .. n : c(i) < c(j) => i \in A[j]
  <2> SUFFICES ASSUME NEW i \in 1 .. n, NEW j \in 1 .. n, c(i) < c(j), i \notin A[j] PROVE FALSE
    OBVIOUS
  <2>1. CASE i = j
    BY <1>2, <2>1
  <2>2. CASE j \in A[i]
    BY <1>2, <1>3, <2>2
  <2> QED
    BY <2>1, <2>2
<1>6. place \in Injection(1 .. n, 1 .. n)
  <2>1. \A i \in 1 .. n : c(i) + 1 \in 1 .. n
    BY <1>2
  <2>2. \A i, j \in 1 .. n : c(i) + 1 = c(j) + 1 => i = j
    <3> HIDE DEF c
    <3> QED
      BY <1>2, <1>4
  <2>3. place \in [1 .. n -> 1 .. n]
    BY <2>1
  <2>4. \A i, j \in 1 .. n : place[i] = place[j] => i = j
    BY <2>2
  <2> HIDE DEF place
  <2> QED
    BY <2>3, <2>4 DEF Injection, IsInjective
<1>7. place \in Surjection(1 .. n, 1 .. n)
  <2> HIDE DEF place
  <2> QED
    BY <1>1, <1>6, FS_Injection
<1>8. ASSUME NEW k \in 1 .. n PROVE \E i \in 1 .. n : c(i) = k - 1
  <2>1. PICK i \in 1 .. n : place[i] = k
    BY <1>7 DEF Surjection
  <2>2. c(i) + 1 = k /\ c(i) \in Nat
    BY <1>2, <2>1
  <2> HIDE DEF c
  <2>3. c(i) = k - 1
    BY <2>2
  <2> QED
    BY <2>3
<1>9. \A i \in 1 .. n : c(i) + 1 \in 1 .. n
  BY <1>2
<1>10. \A i, j \in 1 .. n : c(i) = c(j) => i = j
  BY <1>4
<1> QED
  BY <1>5, <1>8, <1>9, <1>10

\* Sorting keeps all there is, and puts the greater risk first.
LEMMA Sorted ==
  ASSUME NEW S, NEW items \in Seq(S), \A x \in S : x.risk \in Int /\ x.title \in Int
  PROVE  /\ sort(items) \in Seq(S) /\ Len(sort(items)) = Len(items)
         /\ toSet(sort(items)) = toSet(items)
         /\ \A i, j \in DOMAIN sort(items) : i < j => sort(items)[i].risk >= sort(items)[j].risk
<1> DEFINE n == Len(items)
           risk == [i \in 1 .. n |-> items[i].risk]
           word == [i \in 1 .. n |-> items[i].title]
           A == [i \in 1 .. n |-> {j \in 1 .. n : comesFirst(items[j], items[i])
                                                  \/ (~comesFirst(items[i], items[j]) /\ j < i)}]
           at == [k \in 1 .. n |-> CHOOSE i \in 1 .. n : Cardinality(A[i]) = k - 1]
<1>1. n \in Nat /\ DOMAIN items = 1 .. n /\ \A i \in 1 .. n : items[i] \in S
  OBVIOUS
<1>2. \A i \in 1 .. n : /\ risk[i] \in Int /\ word[i] \in Int
                        /\ risk[i] = items[i].risk /\ word[i] = items[i].title
  BY <1>1
<1>3. sort(items) = [k \in 1 .. n |-> items[at[k]]]
  <2> DEFINE ahead(i) == {j \in DOMAIN items : comesFirst(items[j], items[i])
                                               \/ (~comesFirst(items[i], items[j]) /\ j < i)}
             which(k) == CHOOSE i \in DOMAIN items : Cardinality(ahead(i)) = k - 1
  <2>1. sort(items) = [k \in DOMAIN items |-> items[which(k)]]
    BY DEF sort
  <2>2. \A i \in 1 .. n : A[i] = ahead(i)
    BY <1>1
  <2>3. \A k \in 1 .. n : at[k] = which(k)
    <3> HIDE DEF ahead, A
    <3>1. \A k \in 1 .. n : at[k] = CHOOSE i \in 1 .. n : Cardinality(A[i]) = k - 1
      OBVIOUS
    <3>2. \A k \in 1 .. n : which(k) = CHOOSE i \in 1 .. n : Cardinality(ahead(i)) = k - 1
      BY <1>1
    <3>3. ASSUME NEW k \in 1 .. n
          PROVE  (CHOOSE i \in 1 .. n : Cardinality(A[i]) = k - 1)
                 = CHOOSE i \in 1 .. n : Cardinality(ahead(i)) = k - 1
      BY <2>2
    <3> QED
      BY <3>1, <3>2, <3>3
  <2> HIDE DEF which, at
  <2> QED
    BY <1>1, <2>1, <2>3
<1>4. \A i, j \in 1 .. n : comesFirst(items[j], items[i]) <=>
                             risk[j] > risk[i] \/ (risk[j] = risk[i] /\ word[j] > word[i])
  BY <1>2, Zenon DEF comesFirst
<1>5. A \in [1 .. n -> SUBSET (1 .. n)]
      /\ \A i, j \in 1 .. n :
           j \in A[i] <=> \/ risk[j] > risk[i]
                          \/ risk[j] = risk[i] /\ word[j] > word[i]
                          \/ risk[j] = risk[i] /\ word[j] = word[i] /\ j < i
  <2>1. A \in [1 .. n -> SUBSET (1 .. n)]
    OBVIOUS
  <2>2. \A i, j \in 1 .. n :
           j \in A[i] <=> comesFirst(items[j], items[i])
                          \/ (~comesFirst(items[i], items[j]) /\ j < i)
    OBVIOUS
  <2> HIDE DEF A, risk, word
  <2>3. \A i, j \in 1 .. n : i \in Int /\ j \in Int
    OBVIOUS
  <2> HIDE DEF n
  <2>4. ASSUME NEW i \in 1 .. n, NEW j \in 1 .. n
        PROVE  j \in A[i] <=> \/ risk[j] > risk[i]
                              \/ risk[j] = risk[i] /\ word[j] > word[i]
                              \/ risk[j] = risk[i] /\ word[j] = word[i] /\ j < i
    BY <1>2, <1>4, <2>2, <2>3
  <2> QED
    BY <2>1, <2>4
<1> HIDE DEF A, risk, word
<1>6. /\ \A i \in 1 .. n : i \notin A[i]
      /\ \A i, j \in 1 .. n : i # j => i \in A[j] \/ j \in A[i]
  <2>1. ASSUME NEW i \in 1 .. n PROVE i \notin A[i]
    <3>1. risk[i] \in Int /\ word[i] \in Int /\ i \in Int
      BY <1>1, <1>2
    <3> QED
      BY <1>5, <3>1
  <2>2. ASSUME NEW i \in 1 .. n, NEW j \in 1 .. n, i # j PROVE i \in A[j] \/ j \in A[i]
    <3>1. /\ risk[i] \in Int /\ word[i] \in Int /\ i \in Int
          /\ risk[j] \in Int /\ word[j] \in Int /\ j \in Int
      BY <1>1, <1>2
    <3>2. risk[i] > risk[j] \/ risk[j] > risk[i] \/ risk[i] = risk[j]
      BY <3>1
    <3>3. word[i] > word[j] \/ word[j] > word[i] \/ word[i] = word[j]
      BY <3>1
    <3>4. i < j \/ j < i
      BY <2>2, <3>1
    <3> QED
      BY <1>5, <3>2, <3>3, <3>4
  <2> QED
    BY <2>1, <2>2
<1>7. \A i, j \in 1 .. n : j \in A[i] => A[j] \subseteq A[i]
  <2> SUFFICES ASSUME NEW i \in 1 .. n, NEW j \in 1 .. n, j \in A[i], NEW k \in A[j] PROVE k \in A[i]
    OBVIOUS
  <2>1. k \in 1 .. n
    BY <1>5
  <2>2. /\ risk[i] \in Int /\ risk[j] \in Int /\ risk[k] \in Int
        /\ word[i] \in Int /\ word[j] \in Int /\ word[k] \in Int
        /\ i \in Int /\ j \in Int /\ k \in Int
    BY <1>1, <1>2, <2>1
  <2>3. \/ risk[j] > risk[i]
        \/ risk[j] = risk[i] /\ word[j] > word[i]
        \/ risk[j] = risk[i] /\ word[j] = word[i] /\ j < i
    BY <1>5
  <2>4. \/ risk[k] > risk[j]
        \/ risk[k] = risk[j] /\ word[k] > word[j]
        \/ risk[k] = risk[j] /\ word[k] = word[j] /\ k < j
    BY <1>5, <2>1
  <2>5. \/ risk[k] > risk[i]
        \/ risk[k] = risk[i] /\ word[k] > word[i]
        \/ risk[k] = risk[i] /\ word[k] = word[i] /\ k < i
    BY <2>2, <2>3, <2>4
  <2> QED
    BY <1>5, <2>1, <2>5
<1>8. /\ \A k \in 1 .. n : \E i \in 1 .. n : Cardinality(A[i]) = k - 1
      /\ \A i \in 1 .. n : Cardinality(A[i]) + 1 \in 1 .. n
      /\ \A i, j \in 1 .. n : Cardinality(A[i]) < Cardinality(A[j]) => i \in A[j]
      /\ \A i, j \in 1 .. n : Cardinality(A[i]) = Cardinality(A[j]) => i = j
  <2> HIDE DEF n
  <2> QED
    BY <1>1, <1>5, <1>6, <1>7, Ranked
<1>9. \A k \in 1 .. n : at[k] \in 1 .. n /\ Cardinality(A[at[k]]) = k - 1
  BY <1>8
<1> HIDE DEF at
<1>10. /\ sort(items) \in Seq(S) /\ Len(sort(items)) = n /\ DOMAIN sort(items) = 1 .. n
       /\ \A k \in 1 .. n : sort(items)[k] = items[at[k]]
  BY <1>1, <1>3, <1>9
<1>11. toSet(sort(items)) = toSet(items)
  <2>1. \A i \in 1 .. n : \E k \in 1 .. n : at[k] = i
    <3> SUFFICES ASSUME NEW i \in 1 .. n PROVE \E k \in 1 .. n : at[k] = i
      OBVIOUS
    <3> DEFINE c == Cardinality(A[i])
               k == c + 1
    <3>1. k \in 1 .. n
      BY <1>8
    <3>2. Cardinality(A[at[k]]) = k - 1 /\ at[k] \in 1 .. n
      BY <1>9, <3>1
    <3>3. c \in Int
      <4>1. IsFiniteSet(A[i])
        <5>1. A[i] \in SUBSET (1 .. n)
          BY <1>5
        <5>2. 1 \in Int /\ n \in Int
          BY <1>1
        <5>3. IsFiniteSet(1 .. n)
          BY <5>2, FS_Interval
        <5> QED
          BY <5>1, <5>3, FS_Subset
      <4> QED
        BY <4>1, FS_CardinalityType
    <3>4. k - 1 = c
      <4> HIDE DEF c
      <4> QED
        BY <3>3
    <3> HIDE DEF k
    <3>5. at[k] = i
      BY <1>8, <3>2, <3>4
    <3> QED
      BY <3>1, <3>5
  <2>2. ASSUME NEW x \in toSet(items) PROVE x \in toSet(sort(items))
    <3>1. PICK i \in 1 .. n : x = items[i]
      BY <1>1 DEF toSet
    <3>2. PICK k \in 1 .. n : at[k] = i
      BY <2>1
    <3>3. k \in DOMAIN sort(items) /\ sort(items)[k] = x
      BY <1>10, <3>1, <3>2
    <3> QED
      BY <3>3 DEF toSet
  <2>3. \A x \in toSet(sort(items)) : x \in toSet(items)
    BY <1>1, <1>9, <1>10 DEF toSet
  <2> QED
    BY <2>2, <2>3
<1>12. ASSUME NEW i \in 1 .. n, NEW j \in 1 .. n, i < j
       PROVE  sort(items)[i].risk >= sort(items)[j].risk
  <2>1. /\ at[i] \in 1 .. n /\ Cardinality(A[at[i]]) = i - 1
        /\ at[j] \in 1 .. n /\ Cardinality(A[at[j]]) = j - 1
    BY <1>9
  <2>2. i - 1 < j - 1
    BY <1>1, <1>12
  <2>3. at[i] \in A[at[j]]
    BY <1>8, <2>1, <2>2
  <2>4. risk[at[i]] > risk[at[j]] \/ risk[at[i]] = risk[at[j]]
    BY <1>5, <2>1, <2>3
  <2>5. risk[at[i]] >= risk[at[j]]
    <3>1. risk[at[i]] \in Int /\ risk[at[j]] \in Int
      BY <1>2, <2>1
    <3> QED
      BY <2>4, <3>1
  <2> QED
    BY <1>2, <1>10, <2>1, <2>5
<1> QED
  BY <1>10, <1>11, <1>12

(* Owners. *)

\* Keeping the first of each key is keeping the first of each owner.
LEMMA DedupedOwners ==
  ASSUME NEW S, NEW owners \in Seq(S),
         \A o, p \in S : o.owner = p.owner /\ o.scope = p.scope /\ o.repo = p.repo /\ o.pattern = p.pattern => o = p
  PROVE  /\ dedupeOwners(owners) \in Seq(S) /\ toSet(dedupeOwners(owners)) = toSet(owners)
         /\ once(dedupeOwners(owners))
<1> DEFINE key(o) == <<o.owner, o.scope, o.repo, o.pattern>>
           I == {i \in DOMAIN owners : \A j \in 1 .. i - 1 : key(owners[j]) # key(owners[i])}
<1>1. dedupeOwners(owners) = Subsequence(owners, I)
  BY DEF dedupeOwners
<1>2. DOMAIN owners = 1 .. Len(owners) /\ Len(owners) \in Nat /\ \A i \in DOMAIN owners : owners[i] \in S
  OBVIOUS
<1>3. \A o, p \in S : key(o) = key(p) <=> o = p
  OBVIOUS
<1>4. I \in SUBSET DOMAIN owners
      /\ \A i \in DOMAIN owners : i \in I <=> \A j \in 1 .. i - 1 : owners[j] # owners[i]
  <2> HIDE DEF key
  <2>1. ASSUME NEW i \in DOMAIN owners, NEW j \in 1 .. i - 1
        PROVE  key(owners[j]) = key(owners[i]) <=> owners[j] = owners[i]
    <3>1. j \in DOMAIN owners
      BY <1>2
    <3> QED
      BY <1>2, <1>3, <3>1
  <2> QED
    BY <2>1
<1> HIDE DEF I
<1> QED
  BY <1>1, <1>4, FirstOnes

\* What an owner of a repository can be.
Assigned(s) ==
  [owner : {s.rules[k].owner : k \in DOMAIN s.rules} \cup {s.ownership.defaultOwner},
   scope : {s.rules[k].scope : k \in DOMAIN s.rules} \cup {"repo"},
   repo : {s.repos[i].id : i \in DOMAIN s.repos},
   pattern : {s.rules[k].pattern : k \in DOMAIN s.rules} \cup {{}}]

\* The rules of a setting that match a repository, and the owners it gets.
matchingRules(s, m) ==
  {s.rules[k] : k \in {j \in DOMAIN s.rules : s.ownership.enabled /\ ruleMatchesManifest(s.rules[j], m)}}

ownersOf(s, m) == resolveManifestOwners(m, s.ownership, s.rules)

\* Owners with the same fields are the same.
LEMMA SameOwner ==
  ASSUME NEW s
  PROVE  \A o, p \in Assigned(s) :
           o.owner = p.owner /\ o.scope = p.scope /\ o.repo = p.repo /\ o.pattern = p.pattern => o = p
  BY DEF Assigned

\* A sequence of what it holds.
LEMMA IsSequence ==
  ASSUME NEW x, isSequence(x)
  PROVE  x \in Seq(toSet(x)) /\ Len(x) \in Nat /\ DOMAIN x = 1 .. Len(x)
<1>1. x \in Seq(toSet(x))
  BY DEF isSequence, toSet
<1> QED
  BY <1>1

\* The owners of one repository: those of the rules that match it, or the default.
LEMMA ResolvedOwners ==
  ASSUME NEW s \in Setting, NEW i \in DOMAIN s.repos
  PROVE  LET m == s.repos[i]
             owners == ownersOf(s, m)
         IN /\ owners \in Seq(Assigned(s)) /\ \A o \in toSet(owners) : o.repo = m.id
            /\ IF matchingRules(s, m) = {}
               THEN {o.owner : o \in toSet(owners)} = {s.ownership.defaultOwner} \ {Nobody}
               ELSE {<<o.owner, o.scope>> : o \in toSet(owners)}
                    = {<<r.owner, r.scope>> : r \in matchingRules(s, m)}
<1> DEFINE m == s.repos[i]
           rules == s.rules
           owners == ownersOf(s, m)
           assigned(rule) == [owner |-> rule.owner, scope |-> rule.scope, repo |-> m.id, pattern |-> rule.pattern]
           K == {k \in DOMAIN rules : s.ownership.enabled /\ ruleMatchesManifest(rules[k], m)}
           matched == Subsequence(rules, K)
           given == [k \in DOMAIN matched |-> assigned(matched[k])]
           default == [owner |-> s.ownership.defaultOwner, scope |-> "repo", repo |-> m.id, pattern |-> {}]
<1>1. rules \in Seq(toSet(rules)) /\ K \in SUBSET DOMAIN rules
  BY SettingAssumption, IsSequence
<1>2. owners = IF matched # <<>> THEN dedupeOwners(given)
               ELSE IF s.ownership.defaultOwner = Nobody THEN <<>> ELSE <<default>>
  BY Zenon DEF ownersOf, resolveManifestOwners
<1>3. matchingRules(s, m) = {rules[k] : k \in K}
  BY DEF matchingRules
<1>4. /\ matched \in Seq(toSet(rules)) /\ toSet(matched) = {rules[k] : k \in K}
      /\ Len(matched) = Cardinality(K)
  <2> HIDE DEF K
  <2> QED
    BY <1>1, SubsequenceKeeps, SubsequenceSet
<1> HIDE DEF K, matched
<1>5. matched = <<>> <=> matchingRules(s, m) = {}
  <2>1. matched = <<>> <=> toSet(matched) = {}
    BY <1>4 DEF toSet
  <2> QED
    BY <1>3, <1>4, <2>1
<1>6. \A r \in toSet(rules) : assigned(r) \in Assigned(s)
  <2> SUFFICES ASSUME NEW k \in DOMAIN rules PROVE assigned(rules[k]) \in Assigned(s)
    BY DEF toSet
  <2> QED
    BY DEF Assigned
<1>7. default \in Assigned(s)
  BY DEF Assigned
<1>8. CASE matched # <<>>
  <2>1. \A k \in DOMAIN matched : matched[k] \in toSet(rules)
    BY <1>4
  <2>2. given \in Seq(Assigned(s)) /\ DOMAIN given = DOMAIN matched
    <3>1. DOMAIN matched = 1 .. Len(matched) /\ Len(matched) \in Nat
      BY <1>4
    <3>2. \A k \in DOMAIN matched : assigned(matched[k]) \in Assigned(s)
      BY <1>6, <2>1
    <3> HIDE DEF assigned
    <3> QED
      BY <3>1, <3>2
  <2>3. toSet(given) = {assigned(r) : r \in toSet(matched)}
    BY DEF toSet
  <2>4. owners = dedupeOwners(given)
    BY <1>2, <1>8
  <2> HIDE DEF given, owners
  <2>5. owners \in Seq(Assigned(s)) /\ toSet(owners) = toSet(given)
    BY <2>2, <2>4, SameOwner, DedupedOwners
  <2>6. \A o \in toSet(owners) : o.repo = m.id
    BY <2>3, <2>5
  <2>7. toSet(matched) = matchingRules(s, m) /\ matchingRules(s, m) # {}
    BY <1>3, <1>4, <1>5, <1>8
  <2>8. {<<o.owner, o.scope>> : o \in toSet(owners)} = {<<r.owner, r.scope>> : r \in matchingRules(s, m)}
    <3>1. toSet(owners) = {assigned(r) : r \in matchingRules(s, m)}
      BY <2>3, <2>5, <2>7
    <3>2. \A r : assigned(r).owner = r.owner /\ assigned(r).scope = r.scope
      OBVIOUS
    <3> HIDE DEF assigned
    <3> QED
      BY <3>1, <3>2
  <2> QED
    BY <2>5, <2>6, <2>7, <2>8 DEF owners
<1>9. CASE matched = <<>> /\ s.ownership.defaultOwner = Nobody
  <2>1. owners = <<>> /\ matchingRules(s, m) = {}
    BY <1>2, <1>5, <1>9
  <2>2. toSet(<<>>) = {} /\ <<>> \in Seq(Assigned(s))
    BY DEF toSet
  <2> HIDE DEF owners
  <2>3. {o.owner : o \in toSet(owners)} = {} /\ {s.ownership.defaultOwner} \ {Nobody} = {}
    BY <1>9, <2>1, <2>2
  <2> QED
    BY <2>1, <2>2, <2>3 DEF owners
<1>10. CASE matched = <<>> /\ s.ownership.defaultOwner # Nobody
  <2>1. owners = <<default>> /\ matchingRules(s, m) = {}
    BY <1>2, <1>5, <1>10
  <2> HIDE DEF owners
  <2>2. toSet(owners) = {default} /\ owners \in Seq(Assigned(s))
    <3> HIDE DEF default
    <3> QED
      BY <1>7, <2>1 DEF toSet
  <2>3. {o.owner : o \in toSet(owners)} = {s.ownership.defaultOwner}
    BY <2>2
  <2>4. {s.ownership.defaultOwner} \ {Nobody} = {s.ownership.defaultOwner}
    BY <1>10
  <2>5. \A o \in toSet(owners) : o.repo = m.id
    BY <2>2
  <2> HIDE DEF default
  <2> QED
    BY <2>1, <2>2, <2>3, <2>4, <2>5 DEF owners
<1> QED
  BY <1>8, <1>9, <1>10

\* The owners of the graph are those of its repositories, each once.
LEMMA OwnersFollow ==
  ASSUME weighed.setting \in Setting, weighed.owned = attachOwnersToGraph(weighed.setting)
  PROVE  OwnersAccounted
<1> DEFINE s == weighed.setting
           owned == [i \in DOMAIN s.repos |-> ownersOf(s, s.repos[i])]
           all == joined(owned)
           owners == dedupeOwners(all)
           A == Assigned(s)
<1>1. weighed.owned = [byRepo |-> owned, owners |-> owners]
  <2>1. weighed.owned = LET o == [i \in DOMAIN s.repos |-> resolveManifestOwners(s.repos[i], s.ownership, s.rules)]
                        IN [byRepo |-> o, owners |-> dedupeOwners(joined(o))]
    BY DEF attachOwnersToGraph
  <2>2. owned = [i \in DOMAIN s.repos |-> resolveManifestOwners(s.repos[i], s.ownership, s.rules)]
    BY Zenon DEF ownersOf
  <2> HIDE DEF owned
  <2> QED
    BY <2>1, <2>2
<1>2. weighed.owned.byRepo = owned /\ weighed.owned.owners = owners
  <2> HIDE DEF owned, owners
  <2> QED
    BY <1>1
<1>3. /\ DOMAIN s.repos = 1 .. Len(s.repos) /\ Len(s.repos) \in Nat
      /\ \A i, j \in DOMAIN s.repos : s.repos[i].id = s.repos[j].id => i = j
  <2>1. isSequence(s.repos) /\ \A i, j \in DOMAIN s.repos : s.repos[i].id = s.repos[j].id => i = j
    BY SettingAssumption
  <2> QED
    BY <2>1, IsSequence
<1>4. \A i \in DOMAIN s.repos :
        /\ ownersOf(s, s.repos[i]) \in Seq(A)
        /\ \A o \in toSet(ownersOf(s, s.repos[i])) : o.repo = s.repos[i].id
        /\ IF matchingRules(s, s.repos[i]) = {}
           THEN {o.owner : o \in toSet(ownersOf(s, s.repos[i]))} = {s.ownership.defaultOwner} \ {Nobody}
           ELSE {<<o.owner, o.scope>> : o \in toSet(ownersOf(s, s.repos[i]))}
                = {<<r.owner, r.scope>> : r \in matchingRules(s, s.repos[i])}
  <2> HIDE DEF s
  <2> QED
    BY ResolvedOwners DEF s
<1> HIDE DEF s, A
<1>5. owned \in Seq(Seq(A)) /\ DOMAIN owned = DOMAIN s.repos
      /\ \A i \in DOMAIN s.repos : owned[i] = ownersOf(s, s.repos[i])
  BY <1>3, <1>4
<1> HIDE DEF owned
<1>6. all \in Seq(A) /\ toSet(all) = UNION {toSet(owned[i]) : i \in DOMAIN owned}
  BY <1>5, JoinedLists
<1> HIDE DEF all
<1>7. toSet(owners) = toSet(all) /\ once(owners)
  BY <1>6, SameOwner, DedupedOwners DEF A
<1> HIDE DEF owners
<1> DEFINE of(m) == {owners[i] : i \in {j \in DOMAIN owners : owners[j].repo = m.id}}
<1>8. ASSUME NEW i \in DOMAIN s.repos PROVE of(s.repos[i]) = toSet(owned[i])
  <2>1. of(s.repos[i]) = {o \in toSet(owners) : o.repo = s.repos[i].id}
    BY DEF toSet
  <2>2. \A j \in DOMAIN s.repos : \A o \in toSet(owned[j]) : o.repo = s.repos[j].id
    BY <1>4, <1>5
  <2>3. \A o \in toSet(owned[i]) : o \in toSet(owners) /\ o.repo = s.repos[i].id
    BY <1>5, <1>6, <1>7, <2>2
  <2>4. ASSUME NEW o \in toSet(owners), o.repo = s.repos[i].id PROVE o \in toSet(owned[i])
    <3>1. PICK j \in DOMAIN s.repos : o \in toSet(owned[j])
      BY <1>5, <1>6, <1>7
    <3>2. s.repos[j].id = s.repos[i].id
      BY <2>2, <2>4, <3>1
    <3> QED
      BY <1>3, <3>1, <3>2
  <2> HIDE DEF of
  <2> QED
    BY <2>1, <2>3, <2>4
<1> HIDE DEF of
<1> DEFINE matching(m) == {s.rules[i] : i \in {j \in DOMAIN s.rules :
                                                 s.ownership.enabled /\ ruleMatchesManifest(s.rules[j], m)}}
<1>9. \A m : matching(m) = matchingRules(s, m)
  BY DEF matchingRules
<1> HIDE DEF matching
<1>10. ASSUME NEW i \in DOMAIN s.repos
       PROVE  /\ of(s.repos[i]) = toSet(owned[i])
              /\ IF matching(s.repos[i]) = {}
                 THEN {o.owner : o \in of(s.repos[i])} = {s.ownership.defaultOwner} \ {Nobody}
                 ELSE {<<o.owner, o.scope>> : o \in of(s.repos[i])}
                      = {<<r.owner, r.scope>> : r \in matching(s.repos[i])}
  BY <1>4, <1>5, <1>8, <1>9
<1>11. \A i, j \in DOMAIN owners : owners[i] = owners[j] => i = j
  BY <1>7 DEF once
<1> QED
  <2> DEFINE w == weighed.owned.owners
             ow(m) == {w[i] : i \in {j \in DOMAIN w : w[j].repo = m.id}}
  <2>1. w = owners /\ weighed.owned.byRepo = owned
    BY <1>2
  <2>2. \A m : ow(m) = of(m)
    BY <2>1 DEF of
  <2>3. \A i, j \in DOMAIN w : w[i] = w[j] => i = j
    BY <1>11, <2>1
  <2> HIDE DEF ow
  <2>4. ASSUME NEW i \in DOMAIN s.repos
        PROVE  /\ ow(s.repos[i]) = toSet(weighed.owned.byRepo[i])
               /\ IF matching(s.repos[i]) = {}
                  THEN {o.owner : o \in ow(s.repos[i])} = {s.ownership.defaultOwner} \ {Nobody}
                  ELSE {<<o.owner, o.scope>> : o \in ow(s.repos[i])}
                       = {<<r.owner, r.scope>> : r \in matching(s.repos[i])}
    BY <1>10, <2>1, <2>2
  <2> QED
    BY <2>3, <2>4 DEF OwnersAccounted, s, ow, matching

(* Quotients. *)

\* A quotient is at least what fits that often, and at most what does not fit once more.
LEMMA Quotient ==
  ASSUME NEW t \in Int, NEW n \in Int, n > 0, NEW h \in Int
  PROVE  /\ t \div n \in Int
         /\ h * n <= t => h <= t \div n
         /\ t < (h + 1) * n => t \div n <= h
<1> DEFINE q == t \div n
           r == t % n
<1>1. q \in Int /\ r \in 0 .. n - 1 /\ t = q * n + r
  OBVIOUS
<1> HIDE DEF q, r
<1>2. ASSUME h * n <= t PROVE h <= q
  <2> SUFFICES ASSUME q + 1 <= h PROVE FALSE
    BY <1>1
  <2>1. (q + 1) * n <= h * n
    BY <1>1
  <2>2. (q + 1) * n = q * n + n
    BY <1>1
  <2>3. q * n \in Int /\ h * n \in Int
    BY <1>1
  <2> QED
    BY <1>1, <1>2, <2>1, <2>2, <2>3
<1>3. ASSUME t < (h + 1) * n PROVE q <= h
  <2> SUFFICES ASSUME h + 1 <= q PROVE FALSE
    BY <1>1
  <2>1. (h + 1) * n <= q * n
    BY <1>1
  <2>2. q * n \in Int /\ (h + 1) * n \in Int
    BY <1>1
  <2> QED
    BY <1>1, <1>3, <2>1, <2>2
<1> QED
  BY <1>1, <1>2, <1>3 DEF q

\* Of more there is more.
LEMMA QuotientGrows ==
  ASSUME NEW t \in Int, NEW u \in Int, t <= u, NEW n \in Int, n > 0
  PROVE  t \div n <= u \div n
<1> DEFINE q == t \div n
           r == t % n
<1>1. q \in Int /\ r \in 0 .. n - 1 /\ t = q * n + r
  OBVIOUS
<1> HIDE DEF q, r
<1>2. q * n <= u
  <2>1. q * n \in Int
    BY <1>1
  <2> QED
    BY <1>1, <2>1
<1>3. q <= u \div n
  BY <1>1, <1>2, Quotient
<1> QED
  BY <1>3 DEF q

(* Weights. *)

\* Weights, and the signals of a kind.
Weight == 0 .. 1000
Weighing(kind) == [kind : {kind}, weight : Weight]
Kind == {"coverage", "tests", "openapi", "graphql", "telemetry", "trace"}
Present == {"openapi", "graphql", "telemetry", "trace"}

\* What is clamped is a weight.
LEMMA Clamped ==
  ASSUME NEW n \in Int
  PROVE  clamp01(n) \in Weight
  BY DEF clamp01, capped, Weight

\* A share is a number, whatever it is of.
LEMMA ShareType ==
  ASSUME NEW x \in Int, NEW full \in Int, full > 0, NEW worth \in Int
  PROVE  share(x, full, worth) \in Int
<1>1. capped(x, full) \in Int
  BY DEF capped
<1>2. \A u, v \in Int : u * v \in Int
  OBVIOUS
<1>3. \A u, v \in Int : v > 0 => u \div v \in Int
  OBVIOUS
<1>4. worth * capped(x, full) \in Int
  BY <1>1, <1>2
<1> QED
  BY <1>3, <1>4 DEF share

\* A signal of a weight.
LEMMA SignalType ==
  ASSUME NEW kind, NEW w \in Weight
  PROVE  signal(kind, w) \in Weighing(kind)
  BY DEF signal, Weighing

\* A signal of what is clamped.
LEMMA ClampedSignal ==
  ASSUME NEW kind, NEW n \in Int
  PROVE  signal(kind, clamp01(n)) \in Weighing(kind)
<1> DEFINE w == clamp01(n)
<1>1. w \in Weight
  BY Clamped
<1> HIDE DEF w
<1>2. signal(kind, w) \in Weighing(kind)
  BY <1>1, SignalType
<1> QED
  BY <1>2 DEF w

\* A signal that an artifact gives has the kind of the artifact, which is there.
Gives(found, a, kind) == found = null \/ (found \in Weighing(kind) /\ a.form # "missing")

\* What a coverage report gives.
LEMMA CoverageGiven ==
  ASSUME NEW a, isReadable(a, "coverage")
  PROVE  Gives(externalCoverageSignal(a), a, "coverage")
<1>1. CASE a.form = "json"
  <2>1. a.of \in [pct : Int]
    BY <1>1 DEF isReadable, Numbers
  <2>2. 10 * a.of.pct \in Int
    BY <2>1
  <2>3. clamp01(10 * a.of.pct) \in Weight
    BY <2>2, Clamped
  <2>4. externalCoverageSignal(a) \in Weighing("coverage")
    BY <1>1, <2>3, SignalType DEF externalCoverageSignal
  <2> QED
    BY <1>1, <2>4 DEF Gives
<1>2. CASE a.form # "json"
  BY <1>2 DEF externalCoverageSignal, Gives
<1> QED
  BY <1>1, <1>2

\* What test results give: the share of those that passed.
LEMMA TestsGiven ==
  ASSUME NEW a, isReadable(a, "tests")
  PROVE  Gives(testResultsSignal(a), a, "tests")
<1>1. CASE a.form = "json" /\ a.of.passed + a.of.failed > 0
  <2>1. a.of \in [passed : Nat, failed : Nat]
    BY <1>1 DEF isReadable, Numbers
  <2>2. ASSUME NEW p \in Nat, NEW t \in Nat, t > 0, p <= t PROVE (1000 * p) \div t \in Weight
    <3> DEFINE u == 1000 * p
    <3>1. u \in Int /\ 0 * t <= u /\ u < (1000 + 1) * t /\ t \in Int /\ 0 \in Int /\ 1000 \in Int
      BY <2>2
    <3> HIDE DEF u
    <3>2. u \div t \in Int /\ 0 <= u \div t /\ u \div t <= 1000
      BY <2>2, <3>1, Quotient
    <3> DEFINE q == u \div t
    <3> HIDE DEF q
    <3>3. q \in Weight
      BY <3>2 DEF q, Weight
    <3> QED
      BY <3>3 DEF q, u
  <2>3. (1000 * a.of.passed) \div (a.of.passed + a.of.failed) \in Weight
    <3> DEFINE p == a.of.passed
               f == a.of.failed
               t == p + f
    <3>1. p \in Nat /\ f \in Nat /\ p + f > 0
      BY <1>1, <2>1
    <3>2. t \in Nat /\ t > 0 /\ p <= t
      <4> HIDE DEF p, f
      <4> QED
        BY <3>1
    <3> HIDE DEF p, f, t
    <3>3. (1000 * p) \div t \in Weight
      BY <2>2, <3>1, <3>2
    <3> QED
      BY <3>3, Zenon DEF p, f, t
  <2>4. testResultsSignal(a) \in Weighing("tests")
    <3> DEFINE w == (1000 * a.of.passed) \div (a.of.passed + a.of.failed)
    <3>1. testResultsSignal(a) = signal("tests", w)
      BY <1>1 DEF testResultsSignal
    <3> HIDE DEF w
    <3>2. w \in Weight
      BY <2>3 DEF w
    <3> QED
      BY <3>1, <3>2, SignalType
  <2> QED
    BY <1>1, <2>4 DEF Gives
<1>2. CASE ~(a.form = "json" /\ a.of.passed + a.of.failed > 0)
  BY <1>2 DEF testResultsSignal, Gives
<1> QED
  BY <1>1, <1>2

\* What an OpenAPI document gives, parsed or as text.
LEMMA OpenApiGiven ==
  ASSUME NEW a, isReadable(a, "openapi")
  PROVE  Gives(openApiSignal(a), a, "openapi")
<1> DEFINE n == a.of.operations
<1>1. a.form \in {"json", "text"} => n \in Nat
  BY DEF isReadable, Numbers
<1>2. CASE a.form = "json"
  <2> DEFINE v == 300 + 20 * n
  <2>1. v \in Int
    BY <1>1, <1>2
  <2>2. openApiSignal(a) = signal("openapi", clamp01(v))
    BY <1>2 DEF openApiSignal
  <2> HIDE DEF v
  <2>3. openApiSignal(a) \in Weighing("openapi")
    BY <2>1, <2>2, ClampedSignal
  <2> QED
    BY <1>2, <2>3 DEF Gives
<1>3. CASE a.form = "text" /\ n > 0
  <2> DEFINE w == 250 + (1000 * n) \div 60
  <2>1. w \in Int
    BY <1>1, <1>3
  <2>2. openApiSignal(a) = signal("openapi", clamp01(w))
    BY <1>3 DEF openApiSignal
  <2> HIDE DEF n, w
  <2>3. openApiSignal(a) \in Weighing("openapi")
    BY <2>1, <2>2, ClampedSignal
  <2> QED
    BY <1>3, <2>3 DEF Gives
<1>4. CASE a.form # "json" /\ ~(a.form = "text" /\ n > 0)
  BY <1>4 DEF openApiSignal, Gives
<1> QED
  BY <1>2, <1>3, <1>4

\* What a GraphQL schema gives, parsed or as text.
LEMMA GraphQlGiven ==
  ASSUME NEW a, isReadable(a, "graphql")
  PROVE  Gives(graphQlSignal(a), a, "graphql")
<1> DEFINE n == a.of.types
<1>1. a.form \in {"json", "text"} => n \in Nat
  BY DEF isReadable, Numbers
<1>2. CASE a.form = "json" /\ n > 0
  <2> DEFINE v == 250 + 10 * n
  <2>1. v \in Int
    BY <1>1, <1>2
  <2>2. graphQlSignal(a) = signal("graphql", clamp01(v))
    BY <1>2 DEF graphQlSignal
  <2> HIDE DEF v
  <2>3. graphQlSignal(a) \in Weighing("graphql")
    BY <2>1, <2>2, ClampedSignal
  <2> QED
    BY <1>2, <2>3 DEF Gives
<1>3. CASE a.form = "text" /\ n > 0
  <2> DEFINE w == 250 + (1000 * n) \div 80
  <2>1. w \in Int
    BY <1>1, <1>3
  <2>2. graphQlSignal(a) = signal("graphql", clamp01(w))
    BY <1>3 DEF graphQlSignal
  <2> HIDE DEF n, w
  <2>3. graphQlSignal(a) \in Weighing("graphql")
    BY <2>1, <2>2, ClampedSignal
  <2> QED
    BY <1>3, <2>3 DEF Gives
<1>4. CASE ~(a.form = "json" /\ n > 0) /\ ~(a.form = "text" /\ n > 0)
  BY <1>4 DEF graphQlSignal, Gives
<1> QED
  BY <1>2, <1>3, <1>4

\* What a telemetry summary gives.
LEMMA TelemetryGiven ==
  ASSUME NEW a, isReadable(a, "telemetry")
  PROVE  Gives(telemetrySignal(a), a, "telemetry")
<1> DEFINE r == a.of.requests
           e == a.of.errors
           errorShare == IF r > 0 THEN share(5 * e, r, 250) ELSE share(e, 2, 250)
           w == 200 + share(r, 10000, 400) + errorShare
                + share(a.of.incidents, 10, 100) + share(a.of.p95Ms, 2000, 50)
           Says == a.form = "json" /\ \E n \in DOMAIN a.of : a.of[n] # 0
<1>0. telemetrySignal(a) = IF Says THEN signal("telemetry", clamp01(w)) ELSE null
  BY DEF telemetrySignal
<1> HIDE DEF w
<1>1. CASE Says
  <2>1. a.of \in [requests : Int, errors : Int, incidents : Int, p95Ms : Int]
    BY <1>1 DEF isReadable, Numbers
  <2>2. r \in Int /\ e \in Int /\ 5 * e \in Int /\ a.of.incidents \in Int /\ a.of.p95Ms \in Int
    BY <2>1
  <2>3. telemetrySignal(a) = signal("telemetry", clamp01(w))
    BY <1>0, <1>1
  <2> HIDE DEF r, e
  <2>9. \A x, full, worth \in Int : full > 0 => share(x, full, worth) \in Int
    BY ShareType
  <2>4. errorShare \in Int
    <3>1. CASE r > 0
      BY <2>2, <2>9, <3>1
    <3>2. CASE ~(r > 0)
      BY <2>2, <2>9, <3>2
    <3> QED
      BY <3>1, <3>2
  <2>5. share(r, 10000, 400) \in Int /\ share(a.of.incidents, 10, 100) \in Int /\ share(a.of.p95Ms, 2000, 50) \in Int
    <3>1. \A x \in Int : share(x, 10000, 400) \in Int
      BY <2>9
    <3>2. \A x \in Int : share(x, 10, 100) \in Int
      BY <2>9
    <3>3. \A x \in Int : share(x, 2000, 50) \in Int
      BY <2>9
    <3> QED
      BY <2>2, <3>1, <3>2, <3>3
  <2> HIDE DEF errorShare
  <2>6. w \in Int
    BY <2>4, <2>5 DEF w
  <2> HIDE DEF w
  <2>7. telemetrySignal(a) \in Weighing("telemetry")
    BY <2>3, <2>6, ClampedSignal
  <2> QED
    BY <1>1, <2>7 DEF Gives
<1>2. CASE ~Says
  BY <1>0, <1>2 DEF Gives
<1> QED
  BY <1>1, <1>2

\* What a trace summary gives.
LEMMA TraceGiven ==
  ASSUME NEW a, isReadable(a, "trace")
  PROVE  Gives(traceSignal(a), a, "trace")
<1> DEFINE n == a.of.spans
           slow == 10 * a.of.slowSpans
           e == 20 * a.of.errors
           w == 200 + share(n, 20000, 350) + share(slow, atLeast(n, 10), 250)
                + share(e, atLeast(n, 20), 100) + share(a.of.p95Ms, 2500, 100)
           Says == a.form = "json" /\ \E k \in DOMAIN a.of : a.of[k] # 0
<1>0. traceSignal(a) = IF Says THEN signal("trace", clamp01(w)) ELSE null
  BY DEF traceSignal
<1> HIDE DEF w
<1>1. CASE Says
  <2>1. a.of \in [spans : Int, slowSpans : Int, errors : Int, p95Ms : Int]
    BY <1>1 DEF isReadable, Numbers
  <2>2. n \in Int /\ slow \in Int /\ e \in Int /\ a.of.p95Ms \in Int
    BY <2>1
  <2>3. traceSignal(a) = signal("trace", clamp01(w))
    BY <1>0, <1>1
  <2> HIDE DEF n, slow, e
  <2>4. /\ atLeast(n, 10) \in Int /\ atLeast(n, 10) > 0
        /\ atLeast(n, 20) \in Int /\ atLeast(n, 20) > 0
    BY <2>2 DEF atLeast
  <2>9. \A x, full, worth \in Int : full > 0 => share(x, full, worth) \in Int
    BY ShareType
  <2>5. /\ share(n, 20000, 350) \in Int /\ share(slow, atLeast(n, 10), 250) \in Int
        /\ share(e, atLeast(n, 20), 100) \in Int /\ share(a.of.p95Ms, 2500, 100) \in Int
    <3>1. \A x \in Int : share(x, 20000, 350) \in Int
      BY <2>9
    <3>2. \A x \in Int : share(x, 2500, 100) \in Int
      BY <2>9
    <3>3. \A x, y \in Int : y > 0 => share(x, y, 250) \in Int /\ share(x, y, 100) \in Int
      BY <2>9
    <3>4. share(n, 20000, 350) \in Int /\ share(a.of.p95Ms, 2500, 100) \in Int
      BY <2>2, <3>1, <3>2
    <3>5. share(slow, atLeast(n, 10), 250) \in Int
      BY <2>2, <2>4, <3>3
    <3>6. share(e, atLeast(n, 20), 100) \in Int
      BY <2>2, <2>4, <3>3
    <3> QED
      BY <3>4, <3>5, <3>6
  <2>6. w \in Int
    BY <2>5 DEF w
  <2> HIDE DEF w
  <2>7. traceSignal(a) \in Weighing("trace")
    BY <2>3, <2>6, ClampedSignal
  <2> QED
    BY <1>1, <2>7 DEF Gives
<1>2. CASE ~Says
  BY <1>0, <1>2 DEF Gives
<1> QED
  BY <1>1, <1>2

\* What was found in an artifact, or else that it is there: nothing only if it is not.
orThere(found, a, kind, weight) ==
  IF found # null THEN found ELSE artifactPresenceSignal(a, kind, weight)

\* An artifact that may be present only gives one signal of its kind, exactly if it is there.
LEMMA OneSignal ==
  ASSUME NEW a, NEW kind \in Present, NEW found, Gives(found, a, kind), NEW weight \in Weight
  PROVE  /\ orThere(found, a, kind, weight) = null <=> a.form = "missing"
         /\ a.form # "missing" => orThere(found, a, kind, weight) \in Weighing(kind)
<1>1. null.kind = "null" /\ kind # "null"
  BY DEF null, signal, Present
<1>2. \A x \in Weighing(kind) : x.kind = kind
  BY DEF Weighing
<1>3. null \notin Weighing(kind)
  BY <1>1, <1>2
<1>4. signal(kind, weight) \in Weighing(kind)
  BY SignalType
<1> QED
  BY <1>3, <1>4 DEF Gives, orThere, artifactPresenceSignal

\* How many signals have a kind.
counted(signals, kind) == Cardinality({k \in DOMAIN signals : signals[k].kind = kind})

\* What I leaves out of entries is nothing, and what has the kind is at p.
OneEntry(es, I, kind, p) ==
  /\ \A k \in DOMAIN es : k \in I <=> es[k] # null
  /\ kind # "null"
  /\ \A k \in DOMAIN es : es[k].kind = kind => k = p
  /\ es[p] # null => es[p].kind = kind

\* Of entries of which one at most has a kind, that one is counted if it is there.
LEMMA CountedOnce ==
  ASSUME NEW S, NEW es \in Seq(S), NEW I \in SUBSET DOMAIN es,
         NEW kind, NEW p \in DOMAIN es, OneEntry(es, I, kind, p)
  PROVE  counted(Subsequence(es, I), kind) = IF es[p] # null THEN 1 ELSE 0
<1> DEFINE sub == Subsequence(es, I)
           C == {k \in DOMAIN sub : sub[k].kind = kind}
<1>a. /\ \A k \in DOMAIN es : k \in I <=> es[k] # null
      /\ kind # "null"
      /\ \A k \in DOMAIN es : es[k].kind = kind => k = p
      /\ es[p] # null => es[p].kind = kind
  BY DEF OneEntry
<1>b. counted(Subsequence(es, I), kind) = Cardinality(C)
  BY DEF counted
<1>1. /\ DOMAIN sub = 1 .. Cardinality(I) /\ Cardinality(I) \in Nat
      /\ \A k \in DOMAIN sub : nth(I, k) \in I /\ sub[k] = es[nth(I, k)]
      /\ \A i \in I : \E k \in DOMAIN sub : nth(I, k) = i
  <2>1. /\ sub \in Seq(S) /\ Len(sub) = Cardinality(I) /\ Cardinality(I) \in Nat
        /\ \A k \in DOMAIN sub : nth(I, k) \in I /\ sub[k] = es[nth(I, k)]
        /\ \A i \in I : \E k \in DOMAIN sub : nth(I, k) = i
    BY SubsequenceKeeps
  <2> HIDE DEF sub
  <2> QED
    BY <2>1
<1>2. \A k, m \in 1 .. Cardinality(I) : k < m => nth(I, k) < nth(I, m)
  <2>1. Len(es) \in Nat /\ I \in SUBSET (1 .. Len(es))
    OBVIOUS
  <2> QED
    BY <2>1, CountedOff
<1> HIDE DEF sub
<1>3. \A k \in C : k \in 1 .. Cardinality(I) /\ nth(I, k) = p
  BY <1>a, <1>1
<1>4. CASE es[p] = null
  <2>1. p \notin I
    BY <1>a, <1>4
  <2>2. C = {}
    BY <1>1, <1>3, <2>1
  <2> HIDE DEF C
  <2>3. Cardinality(C) = 0
    BY <2>2, FS_EmptySet
  <2> QED
    BY <1>b, <1>4, <2>3
<1>5. CASE es[p] # null
  <2>1. PICK k \in DOMAIN sub : nth(I, k) = p
    BY <1>a, <1>1, <1>5
  <2>2. k \in C
    BY <1>a, <1>1, <1>5, <2>1
  <2>3. ASSUME NEW m \in C, m # k PROVE FALSE
    <3>1. /\ k \in 1 .. Cardinality(I) /\ m \in 1 .. Cardinality(I) /\ nth(I, k) = p /\ nth(I, m) = p
      BY <1>3, <2>2
    <3>2. k < m \/ m < k
      BY <1>1, <2>3, <3>1
    <3>3. p \in Int
      <4>1. DOMAIN es = 1 .. Len(es)
        OBVIOUS
      <4> QED
        BY <4>1
    <3> QED
      BY <1>2, <3>1, <3>2, <3>3
  <2> HIDE DEF C
  <2>4. C = {k}
    BY <2>2, <2>3
  <2>5. Cardinality(C) = 1
    BY <2>4, FS_Singleton
  <2> QED
    BY <1>b, <1>5, <2>5
<1> QED
  BY <1>4, <1>5

\* Where collectRuntimeSignals puts the signal of a kind.
place == [openapi |-> 4, graphql |-> 5, telemetry |-> 6, trace |-> 7]

\* The signals of a repository.
LEMMA Collected ==
  ASSUME NEW s \in Setting, NEW i \in DOMAIN s.repos
  PROVE  LET m == s.repos[i]
             signals == collectRuntimeSignals(m, s.runtime)
         IN /\ signals \in Seq(UNION {Weighing(kind) : kind \in Kind})
            /\ \A kind \in Present :
                 counted(signals, kind)
                 = IF s.runtime /\ resolveRuntimeArtifactPath(m.artifacts[kind]).form # "missing" THEN 1 ELSE 0
<1> DEFINE m == s.repos[i]
           a(key) == resolveRuntimeArtifactPath(m.artifacts[key])
           enabled(found) == IF s.runtime THEN found ELSE null
           e1 == coverageSignal(m)
           e2 == enabled(externalCoverageSignal(a("coverage")))
           e3 == enabled(testResultsSignal(a("tests")))
           e4 == enabled(orThere(openApiSignal(a("openapi")), a("openapi"), "openapi", 650))
           e5 == enabled(orThere(graphQlSignal(a("graphql")), a("graphql"), "graphql", 650))
           e6 == enabled(orThere(telemetrySignal(a("telemetry")), a("telemetry"), "telemetry", 750))
           e7 == enabled(orThere(traceSignal(a("trace")), a("trace"), "trace", 700))
           es == <<e1, e2, e3, e4, e5, e6, e7>>
           I == {k \in DOMAIN es : es[k] # null}
           there(kind) == s.runtime /\ a(kind).form # "missing"
           signals == collectRuntimeSignals(m, s.runtime)
           Signal == UNION {Weighing(kind) : kind \in Kind}
<1>1. signals = Subsequence(es, I)
  BY DEF collectRuntimeSignals, orThere
<1>2. m.coverage \in Int \cup {Unmeasured} /\ \A key \in DOMAIN Numbers : isReadable(a(key), key)
  <2>1. /\ m.coverage \in Int \cup {Unmeasured}
        /\ \A key \in DOMAIN Numbers : /\ isReadable(m.artifacts[key].configured, key)
                                       /\ isReadable(m.artifacts[key].discovered, key)
    BY SettingAssumption
  <2> HIDE DEF m
  <2> QED
    BY <2>1 DEF resolveRuntimeArtifactPath
<1>3. DOMAIN Numbers = Kind
  BY DEF Numbers, Kind
<1>4. \A key \in Kind : isReadable(a(key), key)
  BY <1>2, <1>3
<1>5. e1 = null \/ e1 \in Weighing("coverage")
  <2>1. CASE m.coverage = Unmeasured
    BY <2>1 DEF coverageSignal
  <2>2. CASE m.coverage # Unmeasured
    <3>1. 10 * m.coverage \in Int
      BY <1>2, <2>2
    <3> DEFINE w == clamp01(10 * m.coverage)
    <3>2. w \in Weight
      BY <3>1, Clamped
    <3>3. e1 = signal("coverage", w)
      BY <2>2 DEF coverageSignal
    <3> HIDE DEF w, e1
    <3> QED
      BY <3>2, <3>3, SignalType
  <2> QED
    BY <2>1, <2>2
<1> HIDE DEF a
<1>6. e2 = null \/ e2 \in Weighing("coverage")
  <2>1. Gives(externalCoverageSignal(a("coverage")), a("coverage"), "coverage")
    BY <1>4, CoverageGiven DEF Kind
  <2> QED
    BY <2>1 DEF Gives
<1>7. e3 = null \/ e3 \in Weighing("tests")
  <2>1. Gives(testResultsSignal(a("tests")), a("tests"), "tests")
    BY <1>4, TestsGiven DEF Kind
  <2> QED
    BY <2>1 DEF Gives
<1> DEFINE For(e, kind) == /\ e # null <=> there(kind)
                           /\ e # null => e \in Weighing(kind)
<1>8. For(e4, "openapi")
  <2>1. Gives(openApiSignal(a("openapi")), a("openapi"), "openapi")
    BY <1>4, OpenApiGiven DEF Kind
  <2> DEFINE x == orThere(openApiSignal(a("openapi")), a("openapi"), "openapi", 650)
  <2>2. /\ x = null <=> a("openapi").form = "missing"
        /\ a("openapi").form # "missing" => x \in Weighing("openapi")
    <3> DEFINE kind == "openapi"
               w == 650
               found == openApiSignal(a("openapi"))
    <3>1. w \in Weight /\ kind \in Present /\ Gives(found, a(kind), kind)
      BY <2>1 DEF Weight, Present
    <3> HIDE DEF kind, w, found
    <3>2. /\ orThere(found, a(kind), kind, w) = null <=> a(kind).form = "missing"
          /\ a(kind).form # "missing" => orThere(found, a(kind), kind, w) \in Weighing(kind)
      BY <3>1, OneSignal
    <3> QED
      BY <3>2 DEF kind, w, found
  <2> HIDE DEF x
  <2>3. For(enabled(x), "openapi")
    BY <2>2
  <2> QED
    BY <2>3 DEF x
<1>9. For(e5, "graphql")
  <2>1. Gives(graphQlSignal(a("graphql")), a("graphql"), "graphql")
    BY <1>4, GraphQlGiven DEF Kind
  <2> DEFINE x == orThere(graphQlSignal(a("graphql")), a("graphql"), "graphql", 650)
  <2>2. /\ x = null <=> a("graphql").form = "missing"
        /\ a("graphql").form # "missing" => x \in Weighing("graphql")
    <3> DEFINE kind == "graphql"
               w == 650
               found == graphQlSignal(a("graphql"))
    <3>1. w \in Weight /\ kind \in Present /\ Gives(found, a(kind), kind)
      BY <2>1 DEF Weight, Present
    <3> HIDE DEF kind, w, found
    <3>2. /\ orThere(found, a(kind), kind, w) = null <=> a(kind).form = "missing"
          /\ a(kind).form # "missing" => orThere(found, a(kind), kind, w) \in Weighing(kind)
      BY <3>1, OneSignal
    <3> QED
      BY <3>2 DEF kind, w, found
  <2> HIDE DEF x
  <2>3. For(enabled(x), "graphql")
    BY <2>2
  <2> QED
    BY <2>3 DEF x
<1>10. For(e6, "telemetry")
  <2>1. Gives(telemetrySignal(a("telemetry")), a("telemetry"), "telemetry")
    BY <1>4, TelemetryGiven DEF Kind
  <2> DEFINE x == orThere(telemetrySignal(a("telemetry")), a("telemetry"), "telemetry", 750)
  <2>2. /\ x = null <=> a("telemetry").form = "missing"
        /\ a("telemetry").form # "missing" => x \in Weighing("telemetry")
    <3> DEFINE kind == "telemetry"
               w == 750
               found == telemetrySignal(a("telemetry"))
    <3>1. w \in Weight /\ kind \in Present /\ Gives(found, a(kind), kind)
      BY <2>1 DEF Weight, Present
    <3> HIDE DEF kind, w, found
    <3>2. /\ orThere(found, a(kind), kind, w) = null <=> a(kind).form = "missing"
          /\ a(kind).form # "missing" => orThere(found, a(kind), kind, w) \in Weighing(kind)
      BY <3>1, OneSignal
    <3> QED
      BY <3>2 DEF kind, w, found
  <2> HIDE DEF x
  <2>3. For(enabled(x), "telemetry")
    BY <2>2
  <2> QED
    BY <2>3 DEF x
<1>11. For(e7, "trace")
  <2>1. Gives(traceSignal(a("trace")), a("trace"), "trace")
    BY <1>4, TraceGiven DEF Kind
  <2> DEFINE x == orThere(traceSignal(a("trace")), a("trace"), "trace", 700)
  <2>2. /\ x = null <=> a("trace").form = "missing"
        /\ a("trace").form # "missing" => x \in Weighing("trace")
    <3> DEFINE kind == "trace"
               w == 700
               found == traceSignal(a("trace"))
    <3>1. w \in Weight /\ kind \in Present /\ Gives(found, a(kind), kind)
      BY <2>1 DEF Weight, Present
    <3> HIDE DEF kind, w, found
    <3>2. /\ orThere(found, a(kind), kind, w) = null <=> a(kind).form = "missing"
          /\ a(kind).form # "missing" => orThere(found, a(kind), kind, w) \in Weighing(kind)
      BY <3>1, OneSignal
    <3> QED
      BY <3>2 DEF kind, w, found
  <2> HIDE DEF x
  <2>3. For(enabled(x), "trace")
    BY <2>2
  <2> QED
    BY <2>3 DEF x
<1> DEFINE kindAt == <<"coverage", "coverage", "tests", "openapi", "graphql", "telemetry", "trace">>
           All == Signal \cup {null}
<1> HIDE DEF e1, e2, e3, e4, e5, e6, e7, there, enabled
<1>12. DOMAIN es = 1 .. 7 /\ \A k \in 1 .. 7 : es[k] = null \/ es[k] \in Weighing(kindAt[k])
  <2>1. \A k \in 1 .. 7 : k = 1 \/ k = 2 \/ k = 3 \/ k = 4 \/ k = 5 \/ k = 6 \/ k = 7
    OBVIOUS
  <2> QED
    BY <1>5, <1>6, <1>7, <1>8, <1>9, <1>10, <1>11, <2>1
<1>13. \A kind \in Present : place[kind] \in 1 .. 7 /\ (es[place[kind]] # null <=> there(kind))
  <2>1. /\ place["openapi"] = 4 /\ place["graphql"] = 5 /\ place["telemetry"] = 6 /\ place["trace"] = 7
    BY DEF place
  <2>2. es[4] = e4 /\ es[5] = e5 /\ es[6] = e6 /\ es[7] = e7
    OBVIOUS
  <2> HIDE DEF es
  <2> QED
    BY <1>8, <1>9, <1>10, <1>11, <2>1, <2>2 DEF Present
<1>14. \A kind \in Present : \A k \in 1 .. 7 : kindAt[k] = kind <=> k = place[kind]
  <2>1. \A k \in 1 .. 7 : k = 1 \/ k = 2 \/ k = 3 \/ k = 4 \/ k = 5 \/ k = 6 \/ k = 7
    OBVIOUS
  <2> QED
    BY <2>1 DEF Present, place
<1>15. Len(es) = 7
  OBVIOUS
<1> HIDE DEF es
<1>16. \A k \in 1 .. 7 : kindAt[k] \in Kind /\ kindAt[k] # "null"
  <2>1. \A k \in 1 .. 7 : k = 1 \/ k = 2 \/ k = 3 \/ k = 4 \/ k = 5 \/ k = 6 \/ k = 7
    OBVIOUS
  <2> QED
    BY <2>1 DEF Kind
<1> HIDE DEF kindAt
<1>17. null.kind = "null" /\ \A kind : \A x \in Weighing(kind) : x.kind = kind
  BY DEF null, signal, Weighing
<1>18. \A k \in 1 .. 7 : es[k] \in All
  BY <1>12, <1>16
<1>19. es \in Seq(All)
  <2>1. es = [k \in 1 .. 7 |-> es[k]]
    BY DEF es
  <2> HIDE DEF All
  <2> QED
    BY <1>18, <2>1
<1>20. \A k \in DOMAIN es : k \in I <=> es[k] # null
  OBVIOUS
<1>21. I \in SUBSET DOMAIN es
  OBVIOUS
<1> HIDE DEF I, signals
<1>22. signals \in Seq(Signal)
  <2> HIDE DEF All, Signal
  <2>1. /\ signals \in Seq(All) /\ DOMAIN signals = 1 .. Len(signals) /\ Len(signals) \in Nat
        /\ \A k \in DOMAIN signals : nth(I, k) \in I /\ signals[k] = es[nth(I, k)]
    BY <1>1, <1>19, <1>21, SubsequenceKeeps
  <2>2. \A k \in DOMAIN signals : signals[k] \in Signal
    BY <1>20, <1>21, <2>1 DEF All
  <2>3. signals = [k \in 1 .. Len(signals) |-> signals[k]]
    BY <2>1
  <2> QED
    BY <2>1, <2>2, <2>3
<1>23. ASSUME NEW kind \in Present
       PROVE  counted(signals, kind) = IF there(kind) THEN 1 ELSE 0
  <2> HIDE DEF All
  <2> DEFINE p == place[kind]
  <2>1. p \in DOMAIN es /\ (es[p] # null <=> there(kind))
    BY <1>12, <1>13
  <2>2. kind # "null"
    BY DEF Present
  <2>3. \A k \in DOMAIN es : es[k].kind = kind => k = p
    BY <1>12, <1>14, <1>17, <2>2
  <2>4. es[p] # null => es[p].kind = kind
    BY <1>12, <1>14, <1>17, <2>1
  <2> HIDE DEF p
  <2>5. OneEntry(es, I, kind, p)
    BY <1>20, <2>2, <2>3, <2>4 DEF OneEntry
  <2>6. counted(Subsequence(es, I), kind) = IF es[p] # null THEN 1 ELSE 0
    BY <1>19, <1>21, <2>1, <2>5, CountedOnce
  <2> QED
    BY <1>1, <2>1, <2>6
<1> QED
  BY <1>22, <1>23 DEF signals, there, a

(* Means. *)

\* Terms that none is below lo or above hi.
LEMMA SumBounds ==
  ASSUME NEW c \in Seq(Int), NEW lo \in Int, NEW hi \in Int
  PROVE  /\ sum(c) \in Int
         /\ (\A k \in 1 .. Len(c) : lo <= c[k]) => Len(c) * lo <= sum(c)
         /\ (\A k \in 1 .. Len(c) : c[k] <= hi) => sum(c) <= Len(c) * hi
<1>1. PICK p : Sums(c, p) /\ sum(c) = p[Len(c)]
  BY SummedUp
<1> DEFINE l == Len(c)
<1>2. l \in Nat /\ \A k \in 1 .. l : c[k] \in Int
  OBVIOUS
<1>3. /\ p[0] = 0 /\ \A k \in 1 .. l : p[k] = p[k - 1] + c[k]
      /\ \A k \in 0 .. l : p[k] \in Int
  BY <1>1 DEF Sums
<1>4. sum(c) = p[l]
  BY <1>1
<1>5. \A k \in Int : \A x \in Int : (k - 1) * x + x = k * x /\ 0 * x = 0 /\ k * x \in Int /\ (k - 1) * x \in Int
  OBVIOUS
<1> HIDE DEF l
<1>6. ASSUME \A k \in 1 .. l : lo <= c[k] PROVE l * lo <= sum(c)
  <2> DEFINE T == {k \in 0 .. l : k * lo <= p[k]}
  <2>1. 0 \in T
    <3>1. 0 \in 0 .. l /\ 0 * lo = 0
      BY <1>2, <1>5
    <3> QED
      BY <1>3, <3>1
  <2>2. ASSUME NEW k \in 1 .. l, k - 1 \in T PROVE k \in T
    <3>1. k \in Int /\ k \in 0 .. l /\ k - 1 \in 0 .. l
      BY <1>2
    <3>2. (k - 1) * lo <= p[k - 1] /\ lo <= c[k] /\ p[k] = p[k - 1] + c[k]
      BY <1>3, <1>6, <2>2
    <3>3. (k - 1) * lo + lo = k * lo /\ (k - 1) * lo \in Int
      BY <1>5, <3>1
    <3>4. p[k - 1] \in Int /\ c[k] \in Int
      BY <1>2, <1>3, <3>1
    <3>5. \A a, b, x, y \in Int : a <= b /\ x <= y => a + x <= b + y
      OBVIOUS
    <3>6. k * lo <= p[k]
      BY <3>2, <3>3, <3>4, <3>5
    <3> QED
      BY <3>1, <3>6
  <2> HIDE DEF T
  <2>3. \A k \in 0 .. l : k \in T
    BY <1>2, <2>1, <2>2, EachStep
  <2> QED
    BY <1>2, <1>4, <2>3 DEF T
<1>7. ASSUME \A k \in 1 .. l : c[k] <= hi PROVE sum(c) <= l * hi
  <2> DEFINE T == {k \in 0 .. l : p[k] <= k * hi}
  <2>1. 0 \in T
    <3>1. 0 \in 0 .. l /\ 0 * hi = 0
      BY <1>2, <1>5
    <3> QED
      BY <1>3, <3>1
  <2>2. ASSUME NEW k \in 1 .. l, k - 1 \in T PROVE k \in T
    <3>1. k \in Int /\ k \in 0 .. l /\ k - 1 \in 0 .. l
      BY <1>2
    <3>2. p[k - 1] <= (k - 1) * hi /\ c[k] <= hi /\ p[k] = p[k - 1] + c[k]
      BY <1>3, <1>7, <2>2
    <3>3. (k - 1) * hi + hi = k * hi /\ (k - 1) * hi \in Int
      BY <1>5, <3>1
    <3>4. p[k - 1] \in Int /\ c[k] \in Int
      BY <1>2, <1>3, <3>1
    <3>5. \A a, b, x, y \in Int : a <= b /\ x <= y => a + x <= b + y
      OBVIOUS
    <3>6. p[k] <= k * hi
      BY <3>2, <3>3, <3>4, <3>5
    <3> QED
      BY <3>1, <3>6
  <2> HIDE DEF T
  <2>3. \A k \in 0 .. l : k \in T
    BY <1>2, <2>1, <2>2, EachStep
  <2> QED
    BY <1>2, <1>4, <2>3 DEF T
<1>8. sum(c) \in Int
  BY <1>2, <1>3, <1>4
<1> QED
  BY <1>6, <1>7, <1>8 DEF l

\* The weight of a repository is the mean of the weights of its signals.
LEMMA RepositoryWeight ==
  ASSUME NEW signals \in Seq(UNION {Weighing(kind) : kind \in Kind})
  PROVE  repoRuntimeWeight(signals) \in Weight
<1> DEFINE w == [k \in DOMAIN signals |-> signals[k].weight]
           n == Len(signals)
<1>1. CASE signals = <<>>
  BY <1>1 DEF repoRuntimeWeight, Weight
<1>2. CASE signals # <<>>
  <2>1. n \in Nat /\ n > 0 /\ DOMAIN signals = 1 .. n
    BY <1>2
  <2>2. \A k \in 1 .. n : signals[k].weight \in Weight
    <3>1. \A kind : \A x \in Weighing(kind) : x.weight \in Weight
      BY DEF Weighing
    <3>2. \A x \in UNION {Weighing(kind) : kind \in Kind} : x.weight \in Weight
      <4> TAKE x \in UNION {Weighing(kind) : kind \in Kind}
      <4>1. PICK kind \in Kind : x \in Weighing(kind)
        OBVIOUS
      <4> QED
        BY <3>1, <4>1
    <3>3. \A k \in 1 .. n : signals[k] \in UNION {Weighing(kind) : kind \in Kind}
      BY <2>1
    <3> QED
      BY <3>2, <3>3
  <2>3. w \in Seq(Int) /\ Len(w) = n /\ \A k \in 1 .. n : 0 <= w[k] /\ w[k] <= 1000
    <3>1. w = [k \in 1 .. n |-> signals[k].weight]
      BY <2>1
    <3>2. \A k \in 1 .. n : w[k] = signals[k].weight
      BY <3>1
    <3>3. \A k \in 1 .. n : w[k] \in Int /\ 0 <= w[k] /\ w[k] <= 1000
      <4> TAKE k \in 1 .. n
      <4> DEFINE x == signals[k].weight
      <4>1. x \in Weight /\ w[k] = x
        BY <2>2, <3>2
      <4> HIDE DEF x, w
      <4> QED
        BY <4>1 DEF Weight
    <3> HIDE DEF w, n
    <3> QED
      BY <2>1, <3>1, <3>3
  <2>4. repoRuntimeWeight(signals) = sum(w) \div n
    BY <1>2 DEF repoRuntimeWeight
  <2> HIDE DEF w, n
  <2>5. sum(w) \in Int /\ n * 0 <= sum(w) /\ sum(w) <= n * 1000
    <3> DEFINE lo == 0
               hi == 1000
    <3>1. w \in Seq(Int) /\ lo \in Int /\ hi \in Int
      BY <2>3
    <3>2. (\A k \in 1 .. Len(w) : lo <= w[k]) /\ (\A k \in 1 .. Len(w) : w[k] <= hi)
      BY <2>3
    <3> HIDE DEF lo, hi
    <3>3. sum(w) \in Int /\ Len(w) * lo <= sum(w) /\ sum(w) <= Len(w) * hi
      BY <3>1, <3>2, SumBounds
    <3> QED
      BY <2>3, <3>3 DEF lo, hi
  <2>6. 0 * n <= sum(w) /\ sum(w) < (1000 + 1) * n
    BY <2>1, <2>5
  <2>7. n \in Int /\ 0 \in Int /\ 1000 \in Int
    BY <2>1
  <2>8. 0 <= sum(w) \div n /\ sum(w) \div n <= 1000 /\ sum(w) \div n \in Int
    BY <2>1, <2>5, <2>6, <2>7, Quotient
  <2> QED
    <3> DEFINE x == sum(w) \div n
    <3>1. repoRuntimeWeight(signals) = x /\ 0 <= x /\ x <= 1000 /\ x \in Int
      BY <2>4, <2>8
    <3> HIDE DEF x
    <3> QED
      BY <3>1 DEF Weight
<1> QED
  BY <1>1, <1>2

\* The weights of the repositories of a graph.
LEMMA Weights ==
  ASSUME NEW s \in Setting
  PROVE  LET g == attachRuntimeSignals(s)
         IN /\ DOMAIN s.repos = 1 .. Len(s.repos) /\ Len(s.repos) \in Nat
            /\ g.signals = [i \in DOMAIN s.repos |-> collectRuntimeSignals(s.repos[i], s.runtime)]
            /\ g.weight \in [DOMAIN s.repos -> Weight]
<1> DEFINE g == attachRuntimeSignals(s)
           D == DOMAIN s.repos
           signals == [i \in D |-> collectRuntimeSignals(s.repos[i], s.runtime)]
<1>1. g.signals = signals /\ g.weight = [i \in D |-> repoRuntimeWeight(signals[i])]
  BY DEF attachRuntimeSignals
<1>2. ASSUME NEW i \in D PROVE repoRuntimeWeight(signals[i]) \in Weight
  <2> DEFINE x == collectRuntimeSignals(s.repos[i], s.runtime)
  <2>1. x \in Seq(UNION {Weighing(kind) : kind \in Kind})
    BY Collected
  <2>2. signals[i] = x
    OBVIOUS
  <2> HIDE DEF x, signals
  <2>3. repoRuntimeWeight(x) \in Weight
    BY <2>1, RepositoryWeight
  <2> QED
    BY <2>2, <2>3
<1>3. DOMAIN s.repos = 1 .. Len(s.repos) /\ Len(s.repos) \in Nat
  <2>1. isSequence(s.repos)
    BY SettingAssumption
  <2> QED
    BY <2>1, IsSequence
<1> HIDE DEF signals, D
<1>4. g.weight \in [D -> Weight]
  BY <1>1, <1>2
<1> QED
  BY <1>1, <1>3, <1>4 DEF signals, D

\* The weights are fair in an enriched graph.
LEMMA WeightsFollow ==
  ASSUME weighed.setting \in Setting, weighed.graph = attachRuntimeSignals(weighed.setting)
  PROVE  WeightsFair
<1> DEFINE s == weighed.setting
           signals == weighed.graph.signals
           of(i, kind) == {k \in DOMAIN signals[i] : signals[i][k].kind = kind}
           a(i, kind) == resolveRuntimeArtifactPath(s.repos[i].artifacts[kind])
<1>1. /\ signals = [i \in DOMAIN s.repos |-> collectRuntimeSignals(s.repos[i], s.runtime)]
      /\ weighed.graph.weight \in [DOMAIN s.repos -> Weight]
  <2> HIDE DEF s
  <2>1. s \in Setting /\ weighed.graph = attachRuntimeSignals(s)
    BY DEF s
  <2> DEFINE g == attachRuntimeSignals(s)
  <2>2. g.signals = [i \in DOMAIN s.repos |-> collectRuntimeSignals(s.repos[i], s.runtime)]
    BY <2>1, Weights
  <2>3. g.weight \in [DOMAIN s.repos -> Weight]
    BY <2>1, Weights
  <2> HIDE DEF g
  <2> QED
    BY <2>1, <2>2, <2>3 DEF g
<1>2. ASSUME NEW i \in DOMAIN s.repos
      PROVE  /\ \A k \in DOMAIN signals[i] : signals[i][k].weight \in Weight
             /\ weighed.graph.weight[i] \in Weight
             /\ \A kind \in Present :
                  Cardinality(of(i, kind)) = IF s.runtime /\ a(i, kind).form # "missing" THEN 1 ELSE 0
  <2> DEFINE x == collectRuntimeSignals(s.repos[i], s.runtime)
  <2>1. /\ x \in Seq(UNION {Weighing(kind) : kind \in Kind})
        /\ \A kind \in Present :
             counted(x, kind) = IF s.runtime /\ a(i, kind).form # "missing" THEN 1 ELSE 0
    BY Collected
  <2>2. signals[i] = x
    BY <1>1
  <2> HIDE DEF x, signals, a
  <2>3. ASSUME NEW k \in DOMAIN x PROVE x[k].weight \in Weight
    <3>1. x[k] \in UNION {Weighing(kind) : kind \in Kind}
      BY <2>1
    <3>2. PICK kind \in Kind : x[k] \in Weighing(kind)
      BY <3>1
    <3> QED
      BY <3>2 DEF Weighing
  <2>4. weighed.graph.weight[i] \in Weight
    BY <1>1
  <2>5. \A kind : counted(signals[i], kind) = Cardinality(of(i, kind))
    BY DEF counted
  <2> HIDE DEF of
  <2> QED
    BY <2>1, <2>2, <2>3, <2>4, <2>5
<1> HIDE DEF of, a
<1> QED
  BY <1>2 DEF WeightsFair, of, a, Present, Weight

\* The rounded mean.
meanOf(total, count) == (2 * total + count) \div (2 * count)

\* The rounded mean of what is not below lo or not above hi is neither.
LEMMA MeanBounds ==
  ASSUME NEW total \in Int, NEW n \in Int, n > 0, NEW h \in Int
  PROVE  /\ meanOf(total, n) \in Int
         /\ n * h <= total => h <= meanOf(total, n)
         /\ total <= n * h => meanOf(total, n) <= h
<1> DEFINE t == 2 * total + n
           m == 2 * n
<1>1. t \in Int /\ m \in Int /\ m > 0
  OBVIOUS
<1>2. ASSUME n * h <= total PROVE h * m <= t
  <2>1. h * m = 2 * (n * h) /\ n * h \in Int
    OBVIOUS
  <2> QED
    BY <1>2, <2>1
<1>3. ASSUME total <= n * h PROVE t < (h + 1) * m
  <2>1. (h + 1) * m = 2 * (n * h) + 2 * n /\ n * h \in Int
    OBVIOUS
  <2> QED
    BY <1>3, <2>1
<1>4. meanOf(total, n) = t \div m
  BY DEF meanOf
<1> HIDE DEF t, m
<1>5. t \div m \in Int /\ (h * m <= t => h <= t \div m) /\ (t < (h + 1) * m => t \div m <= h)
  BY <1>1, Quotient
<1> QED
  BY <1>2, <1>3, <1>4, <1>5

\* The mean of four lists lies between two of their members.
LEMMA MeanBetween ==
  ASSUME NEW a \in Seq(Int), NEW b \in Seq(Int), NEW c \in Seq(Int), NEW d \in Seq(Int),
         toSet(a) \cup toSet(b) \cup toSet(c) \cup toSet(d) # {}
  PROVE  LET score == meanOf(sum(a) + sum(b) + sum(c) + sum(d),
                             atLeast(Len(a) + Len(b) + Len(c) + Len(d), 1))
         IN \E x, y \in toSet(a) \cup toSet(b) \cup toSet(c) \cup toSet(d) : x <= score /\ score <= y
<1> DEFINE All == toSet(a) \cup toSet(b) \cup toSet(c) \cup toSet(d)
           total == sum(a) + sum(b) + sum(c) + sum(d)
           n == Len(a) + Len(b) + Len(c) + Len(d)
           score == meanOf(total, n)
<1>1. /\ Len(a) \in Nat /\ Len(b) \in Nat /\ Len(c) \in Nat /\ Len(d) \in Nat
      /\ DOMAIN a = 1 .. Len(a) /\ DOMAIN b = 1 .. Len(b) /\ DOMAIN c = 1 .. Len(c) /\ DOMAIN d = 1 .. Len(d)
      /\ \A k \in DOMAIN a : a[k] \in Int
      /\ \A k \in DOMAIN b : b[k] \in Int
      /\ \A k \in DOMAIN c : c[k] \in Int
      /\ \A k \in DOMAIN d : d[k] \in Int
  OBVIOUS
<1>2. n \in Int /\ n > 0
  <2>1. Len(a) > 0 \/ Len(b) > 0 \/ Len(c) > 0 \/ Len(d) > 0
    <3>1. DOMAIN a # {} \/ DOMAIN b # {} \/ DOMAIN c # {} \/ DOMAIN d # {}
      BY DEF toSet
    <3> QED
      BY <1>1, <3>1
  <2> QED
    BY <1>1, <2>1
<1>3. atLeast(n, 1) = n
  BY <1>2 DEF atLeast
<1>4. sum(a) \in Int /\ sum(b) \in Int /\ sum(c) \in Int /\ sum(d) \in Int /\ 0 \in Int
  BY SumBounds
<1>5. total \in Int
  BY <1>4
<1>6. All \subseteq Int
  BY <1>1 DEF toSet
<1>7. /\ \A k \in 1 .. Len(a) : a[k] \in All
      /\ \A k \in 1 .. Len(b) : b[k] \in All
      /\ \A k \in 1 .. Len(c) : c[k] \in All
      /\ \A k \in 1 .. Len(d) : d[k] \in All
  BY <1>1 DEF toSet
<1>8. score \in Int
  <2> HIDE DEF total, n
  <2> QED
    BY <1>2, <1>5, MeanBounds
<1>9. \A h \in Int : (Len(a) + Len(b) + Len(c) + Len(d)) * h
                     = Len(a) * h + Len(b) * h + Len(c) * h + Len(d) * h
  BY <1>1
<1>10. \A h \in Int : Len(a) * h \in Int /\ Len(b) * h \in Int /\ Len(c) * h \in Int /\ Len(d) * h \in Int
  BY <1>1
<1>11. \A u, v, w, z, p, q, r, o \in Int : u <= p /\ v <= q /\ w <= r /\ z <= o => u + v + w + z <= p + q + r + o
  OBVIOUS
<1>12. \E x \in All : x <= score
  <2> SUFFICES ASSUME \A x \in All : ~(x <= score) PROVE FALSE
    OBVIOUS
  <2> DEFINE h == score + 1
  <2>1. h \in Int
    BY <1>8
  <2>2. \A x \in All : h <= x
    BY <1>6, <1>8
  <2> HIDE DEF h, All, score
  <2>3. Len(a) * h <= sum(a) /\ Len(b) * h <= sum(b) /\ Len(c) * h <= sum(c) /\ Len(d) * h <= sum(d)
    BY <1>7, <2>1, <2>2, SumBounds
  <2>4. n * h <= total
    BY <1>4, <1>9, <1>10, <1>11, <2>1, <2>3
  <2> HIDE DEF n, total
  <2>5. h <= score
    BY <1>2, <1>5, <2>1, <2>4, MeanBounds DEF score
  <2> QED
    BY <1>8, <2>5 DEF h
<1>13. \E y \in All : score <= y
  <2> SUFFICES ASSUME \A y \in All : ~(score <= y) PROVE FALSE
    OBVIOUS
  <2> DEFINE h == score - 1
  <2>1. h \in Int
    BY <1>8
  <2>2. \A x \in All : x <= h
    BY <1>6, <1>8
  <2> HIDE DEF h, All, score
  <2>3. sum(a) <= Len(a) * h /\ sum(b) <= Len(b) * h /\ sum(c) <= Len(c) * h /\ sum(d) <= Len(d) * h
    BY <1>7, <2>1, <2>2, SumBounds
  <2>4. total <= n * h
    BY <1>4, <1>9, <1>10, <1>11, <2>1, <2>3
  <2> HIDE DEF n, total
  <2>5. score <= h
    BY <1>2, <1>5, <2>1, <2>4, MeanBounds DEF score
  <2> QED
    BY <1>8, <2>5 DEF h
<1> HIDE DEF All
<1>14. \E x, y \in All : x <= score /\ score <= y
  BY <1>12, <1>13
<1> QED
  BY <1>3, <1>14 DEF All

\* At the same weight the greater of two severities has no smaller risk.
LEMMA Percents ==
  ASSUME NEW w \in Nat, NEW x \in DOMAIN severityWeight
  PROVE  /\ percent(w, x) \in Int
         /\ \A y \in DOMAIN severityWeight :
              severityWeight[x] <= severityWeight[y] => percent(w, x) <= percent(w, y)
<1>1. \A y \in DOMAIN severityWeight : severityWeight[y] \in Int
  BY DEF severityWeight
<1> DEFINE t(y) == 2 * w * severityWeight[y] + 1000
<1>2. \A y \in DOMAIN severityWeight : t(y) \in Int /\ percent(w, y) = t(y) \div 2000
  BY <1>1 DEF percent
<1>3. ASSUME NEW y \in DOMAIN severityWeight, severityWeight[x] <= severityWeight[y] PROVE t(x) <= t(y)
  <2>1. \A p, q \in Int : p <= q => 2 * w * p + 1000 <= 2 * w * q + 1000
    OBVIOUS
  <2> QED
    BY <1>1, <1>3, <2>1
<1>4. 2000 \in Int /\ 2000 > 0 /\ 0 \in Int
  OBVIOUS
<1> HIDE DEF t
<1>5. t(x) \div 2000 \in Int
  BY <1>2
<1>6. ASSUME NEW y \in DOMAIN severityWeight, severityWeight[x] <= severityWeight[y]
      PROVE  percent(w, x) <= percent(w, y)
  <2>1. t(x) <= t(y) /\ t(x) \in Int /\ t(y) \in Int
    BY <1>2, <1>3, <1>6
  <2>2. t(x) \div 2000 <= t(y) \div 2000
    BY <1>4, <2>1, QuotientGrows
  <2> QED
    BY <1>2, <2>2
<1> QED
  BY <1>2, <1>5, <1>6

(* Risks. *)

\* The risks of a list of items, each of which has one.
LEMMA RiskList ==
  ASSUME NEW n \in Nat, NEW x, x = [i \in 1 .. n |-> x[i]], \A i \in 1 .. n : x[i].risk \in Int
  PROVE  risksOf(x) \in Seq(Int) /\ Len(risksOf(x)) = Len(x)
<1>1. DOMAIN x = 1 .. n
  BY Zenon
<1>2. Len(x) = n
  BY <1>1
<1>3. risksOf(x) = [i \in 1 .. n |-> x[i].risk]
  BY <1>1 DEF risksOf
<1> QED
  BY <1>2, <1>3

\* The risk between two repositories.
betweenOf(g, x) == (g.weight[x.provider] + g.weight[x.consumer]) \div 2

\* It is a number, and not a negative one.
LEMMA Between ==
  ASSUME NEW s \in Setting, NEW p \in DOMAIN s.repos, NEW c \in DOMAIN s.repos,
         NEW x, x.provider = p, x.consumer = c
  PROVE  betweenOf(attachRuntimeSignals(s), x) \in Nat
<1> DEFINE w == attachRuntimeSignals(s).weight
           u == w[p] + w[c]
<1>1. w[p] \in Nat /\ w[c] \in Nat
  <2>1. w \in [DOMAIN s.repos -> Weight]
    BY Weights
  <2> DEFINE a == w[p]
             b == w[c]
  <2>2. a \in Weight /\ b \in Weight
    BY <2>1
  <2> HIDE DEF a, b
  <2>3. a \in Nat /\ b \in Nat
    BY <2>2 DEF Weight
  <2> QED
    BY <2>3 DEF a, b
<1>2. u \in Int /\ 0 * 2 <= u /\ 2 \in Int /\ 0 \in Int /\ 2 > 0
  BY <1>1
<1>3. betweenOf(attachRuntimeSignals(s), x) = u \div 2
  BY DEF betweenOf
<1> HIDE DEF u
<1>4. u \div 2 \in Int /\ 0 <= u \div 2
  BY <1>2, Quotient
<1> QED
  BY <1>3, <1>4

\* What is attached to a setting: every list keeps its items, and each has a risk.
LEMMA Attached ==
  ASSUME NEW s \in Setting
  PROVE  LET g == attachRuntimeSignals(s)
         IN /\ risksOf(g.mismatches) \in Seq(Int) /\ Len(risksOf(g.mismatches)) = Len(g.mismatches)
            /\ risksOf(g.impacts) \in Seq(Int) /\ Len(risksOf(g.impacts)) = Len(g.impacts)
            /\ risksOf(g.bridges) \in Seq(Int) /\ Len(risksOf(g.bridges)) = Len(g.bridges)
            /\ risksOf(g.findings) \in Seq(Int) /\ Len(risksOf(g.findings)) = Len(g.findings)
            /\ DOMAIN g.mismatches = DOMAIN s.mismatches
            /\ \A i \in DOMAIN g.mismatches :
                 LET x == s.mismatches[i]
                     y == g.mismatches[i]
                 IN /\ y.provider = x.provider /\ y.consumer = x.consumer /\ y.severity = x.severity
                    /\ x.provider \in DOMAIN s.repos /\ x.consumer \in DOMAIN s.repos
                    /\ x.severity \in DOMAIN severityWeight
                    /\ y.risk = percent(betweenOf(g, x), x.severity)
<1> DEFINE g == attachRuntimeSignals(s)
           D == DOMAIN s.repos
           S == DOMAIN severityWeight
<1>1. /\ g.bridges = [i \in DOMAIN s.bridges |->
                        [s.bridges[i] EXCEPT !.risk = percent(betweenOf(g, s.bridges[i]), "breaking")]]
      /\ g.mismatches = [i \in DOMAIN s.mismatches |->
                           [s.mismatches[i] EXCEPT !.risk = percent(betweenOf(g, s.mismatches[i]),
                                                                    s.mismatches[i].severity)]]
      /\ g.impacts = [i \in DOMAIN s.impacts |->
                        [s.impacts[i] EXCEPT !.risk = percent(g.weight[s.impacts[i].trigger],
                                                              highestSeverity(s.impacts[i].affected))]]
      /\ g.findings = s.findings
  BY DEF attachRuntimeSignals, betweenOf
<1>2. /\ isSequence(s.bridges) /\ isSequence(s.mismatches) /\ isSequence(s.impacts) /\ isSequence(s.findings)
      /\ \A i \in DOMAIN s.bridges : s.bridges[i] \in [provider : D, consumer : D, risk : Int]
      /\ \A i \in DOMAIN s.mismatches :
           s.mismatches[i] \in [provider : D, consumer : D, severity : S, risk : Int]
      /\ \A i \in DOMAIN s.impacts : s.impacts[i] \in [trigger : D, affected : SUBSET S, risk : Int]
      /\ \A i \in DOMAIN s.findings : s.findings[i].risk \in Int
  BY SettingAssumption
<1>3. /\ DOMAIN s.bridges = 1 .. Len(s.bridges) /\ Len(s.bridges) \in Nat
      /\ DOMAIN s.mismatches = 1 .. Len(s.mismatches) /\ Len(s.mismatches) \in Nat
      /\ DOMAIN s.impacts = 1 .. Len(s.impacts) /\ Len(s.impacts) \in Nat
      /\ DOMAIN s.findings = 1 .. Len(s.findings) /\ Len(s.findings) \in Nat
  BY <1>2, IsSequence
<1>4. g.weight \in [D -> Weight]
  BY Weights
<1>5. \A x, p, c : p \in D /\ c \in D /\ x.provider = p /\ x.consumer = c => betweenOf(g, x) \in Nat
  BY Between
<1> HIDE DEF g, D
<1>6. "breaking" \in S /\ \A affected : highestSeverity(affected) \in S
  BY DEF severityWeight, highestSeverity
<1> HIDE DEF S
<1>7. \A w \in Nat : \A x \in S : percent(w, x) \in Int
  BY Percents DEF S
<1>8. ASSUME NEW i \in DOMAIN s.bridges PROVE g.bridges[i].risk \in Int
  <2> DEFINE x == s.bridges[i]
             r == percent(betweenOf(g, x), "breaking")
  <2>1. x \in [provider : D, consumer : D, risk : Int]
    BY <1>2
  <2>2. g.bridges[i] = [x EXCEPT !.risk = r]
    BY <1>1
  <2> HIDE DEF x
  <2>3. r \in Int
    BY <1>5, <1>6, <1>7, <2>1
  <2> HIDE DEF r
  <2> QED
    BY <2>1, <2>2, <2>3
<1>9. ASSUME NEW i \in DOMAIN s.mismatches
      PROVE  LET x == s.mismatches[i]
                 y == g.mismatches[i]
             IN /\ y.provider = x.provider /\ y.consumer = x.consumer /\ y.severity = x.severity
                /\ x.provider \in D /\ x.consumer \in D /\ x.severity \in S
                /\ y.risk = percent(betweenOf(g, x), x.severity) /\ y.risk \in Int
  <2> DEFINE x == s.mismatches[i]
             y == g.mismatches[i]
             r == percent(betweenOf(g, x), x.severity)
  <2>1. x \in [provider : D, consumer : D, severity : S, risk : Int]
    BY <1>2
  <2>2. y = [x EXCEPT !.risk = r]
    BY <1>1
  <2> HIDE DEF x, y
  <2>3. r \in Int
    BY <1>5, <1>7, <2>1
  <2> HIDE DEF r
  <2>4. /\ y.provider = x.provider /\ y.consumer = x.consumer /\ y.severity = x.severity
        /\ x.provider \in D /\ x.consumer \in D /\ x.severity \in S /\ y.risk = r
    BY <2>1, <2>2
  <2> QED
    BY <2>3, <2>4 DEF r, x, y
<1>10. ASSUME NEW i \in DOMAIN s.impacts PROVE g.impacts[i].risk \in Int
  <2> DEFINE x == s.impacts[i]
             r == percent(g.weight[x.trigger], highestSeverity(x.affected))
  <2>1. x \in [trigger : D, affected : SUBSET S, risk : Int]
    BY <1>2
  <2>2. g.impacts[i] = [x EXCEPT !.risk = r]
    BY <1>1
  <2> HIDE DEF x
  <2>3. g.weight[x.trigger] \in Nat
    <3>1. x.trigger \in D
      BY <2>1
    <3> DEFINE v == g.weight[x.trigger]
    <3>2. v \in Weight
      BY <1>4, <3>1
    <3> HIDE DEF v
    <3>3. v \in Nat
      BY <3>2 DEF Weight
    <3> QED
      BY <3>3 DEF v
  <2>4. r \in Int
    BY <1>6, <1>7, <2>3
  <2> HIDE DEF r
  <2> QED
    BY <2>1, <2>2, <2>4
<1>11. /\ g.bridges = [i \in 1 .. Len(s.bridges) |-> g.bridges[i]]
       /\ g.mismatches = [i \in 1 .. Len(s.mismatches) |-> g.mismatches[i]]
       /\ g.impacts = [i \in 1 .. Len(s.impacts) |-> g.impacts[i]]
  BY <1>1, <1>3
<1>12. g.findings = [i \in 1 .. Len(s.findings) |-> g.findings[i]]
  <2>1. s.findings \in Seq(toSet(s.findings))
    BY <1>2, IsSequence
  <2> DEFINE f == s.findings
             T == toSet(s.findings)
  <2>2. g.findings = f /\ f \in Seq(T)
    BY <1>1, <2>1
  <2> HIDE DEF f, T
  <2>3. f = [i \in 1 .. Len(f) |-> f[i]]
    BY <2>2
  <2> QED
    BY <2>2, <2>3 DEF f
<1>13. /\ risksOf(g.mismatches) \in Seq(Int) /\ Len(risksOf(g.mismatches)) = Len(g.mismatches)
       /\ risksOf(g.impacts) \in Seq(Int) /\ Len(risksOf(g.impacts)) = Len(g.impacts)
       /\ risksOf(g.bridges) \in Seq(Int) /\ Len(risksOf(g.bridges)) = Len(g.bridges)
       /\ risksOf(g.findings) \in Seq(Int) /\ Len(risksOf(g.findings)) = Len(g.findings)
  <2>1. risksOf(g.mismatches) \in Seq(Int) /\ Len(risksOf(g.mismatches)) = Len(g.mismatches)
    BY <1>3, <1>9, <1>11, RiskList
  <2>2. risksOf(g.impacts) \in Seq(Int) /\ Len(risksOf(g.impacts)) = Len(g.impacts)
    BY <1>3, <1>10, <1>11, RiskList
  <2>3. risksOf(g.bridges) \in Seq(Int) /\ Len(risksOf(g.bridges)) = Len(g.bridges)
    BY <1>3, <1>8, <1>11, RiskList
  <2>4. risksOf(g.findings) \in Seq(Int) /\ Len(risksOf(g.findings)) = Len(g.findings)
    <3>1. \A i \in 1 .. Len(s.findings) : g.findings[i].risk \in Int
      BY <1>1, <1>2, <1>3
    <3> QED
      BY <1>3, <1>12, <3>1, RiskList
  <2> QED
    BY <2>1, <2>2, <2>3, <2>4
<1>14. DOMAIN g.mismatches = DOMAIN s.mismatches
  BY <1>1
<1> QED
  BY <1>9, <1>13, <1>14 DEF g, D, S

\* The ranking of the suggestions of a setting.
LEMMA RankedSuggestions ==
  ASSUME NEW s \in Setting
  PROVE  LET ranked == rankEvolutionSuggestions(s.suggestions, attachRuntimeSignals(s))
         IN /\ Len(ranked) = Len(s.suggestions)
            /\ {ranked[i].title : i \in DOMAIN ranked} = {s.suggestions[i].title : i \in DOMAIN s.suggestions}
            /\ \A i, j \in DOMAIN ranked : i < j => ranked[i].risk >= ranked[j].risk
<1> DEFINE g == attachRuntimeSignals(s)
           suggestions == s.suggestions
           n == Len(suggestions)
           risk(x) == LET count == atLeast(Cardinality(x.repos), 1)
                      IN (sum(Subsequence(g.weight, x.repos)) + 5 * count) \div (10 * count)
           items == [i \in DOMAIN suggestions |->
                       [title |-> suggestions[i].title, risk |-> risk(suggestions[i]),
                        queue |-> queueForSuggestion(suggestions[i])]]
           S == {items[i] : i \in DOMAIN items}
           ranked == sort(items)
<1>1. rankEvolutionSuggestions(suggestions, g) = ranked
  BY DEF rankEvolutionSuggestions
<1>2. /\ isSequence(suggestions)
      /\ \A i \in DOMAIN suggestions :
           suggestions[i].title \in Int /\ suggestions[i].repos \subseteq DOMAIN s.repos
  BY SettingAssumption
<1>3. DOMAIN suggestions = 1 .. n /\ n \in Nat
  BY <1>2, IsSequence
<1>4. g.weight \in Seq(Int) /\ DOMAIN g.weight = DOMAIN s.repos
  <2>1. DOMAIN s.repos = 1 .. Len(s.repos) /\ Len(s.repos) \in Nat /\ g.weight \in [DOMAIN s.repos -> Weight]
    <3>1. DOMAIN s.repos = 1 .. Len(s.repos) /\ Len(s.repos) \in Nat
      BY Weights
    <3>2. g.weight \in [DOMAIN s.repos -> Weight]
      BY Weights
    <3> QED
      BY <3>1, <3>2
  <2> DEFINE w == g.weight
             l == Len(s.repos)
  <2> HIDE DEF w, l
  <2>2. l \in Nat /\ w \in [1 .. l -> Weight]
    BY <2>1 DEF w, l
  <2>3. \A i \in 1 .. l : w[i] \in Weight
    BY <2>2
  <2>4. w \in [1 .. l -> Int]
    <3>1. \A i \in Weight : i \in Int
      BY DEF Weight
    <3>2. \A i \in 1 .. l : w[i] \in Int
      BY <2>3, <3>1
    <3> QED
      BY <2>2, <3>2
  <2>5. w \in Seq(Int)
    BY <2>2, <2>4
  <2> QED
    BY <2>1, <2>5 DEF w
<1> HIDE DEF g
<1>5. ASSUME NEW x, x.repos \subseteq DOMAIN s.repos PROVE risk(x) \in Int
  <2> DEFINE R == x.repos
             count == atLeast(Cardinality(R), 1)
             sub == Subsequence(g.weight, R)
             t == sum(sub) + 5 * count
             m == 10 * count
  <2>1. risk(x) = t \div m
    OBVIOUS
  <2> HIDE DEF risk
  <2>2. R \in SUBSET DOMAIN g.weight
    BY <1>4, <1>5
  <2>3. sub \in Seq(Int) /\ Cardinality(R) \in Nat
    <3> HIDE DEF R
    <3> QED
      BY <1>4, <2>2, SubsequenceKeeps
  <2>4. count \in Int /\ count > 0
    <3> HIDE DEF R
    <3> QED
      BY <2>3 DEF atLeast
  <2>5. sum(sub) \in Int
    <3>1. 0 \in Int
      OBVIOUS
    <3> HIDE DEF sub
    <3> QED
      BY <2>3, <3>1, SumBounds
  <2> HIDE DEF sub, count
  <2>6. t \in Int /\ m \in Int /\ m > 0 /\ 0 \in Int
    BY <2>4, <2>5
  <2> HIDE DEF t, m
  <2>7. t \div m \in Int
    BY <2>6, Quotient
  <2> QED
    BY <2>1, <2>7
<1> HIDE DEF risk
<1>6. \A i \in DOMAIN suggestions :
        items[i].title = suggestions[i].title /\ items[i].title \in Int /\ items[i].risk \in Int
  <2> TAKE i \in DOMAIN suggestions
  <2>1. risk(suggestions[i]) \in Int
    BY <1>2, <1>5
  <2>2. items[i].title = suggestions[i].title /\ items[i].risk = risk(suggestions[i])
    OBVIOUS
  <2> HIDE DEF items
  <2> QED
    BY <1>2, <2>1, <2>2
<1>7. items \in Seq(S) /\ Len(items) = n /\ DOMAIN items = DOMAIN suggestions
  <2>1. items = [i \in 1 .. n |-> items[i]] /\ DOMAIN items = DOMAIN suggestions
    BY <1>3
  <2> HIDE DEF items, n
  <2>2. \A i \in 1 .. n : items[i] \in S
    BY <1>3, <2>1
  <2>3. DOMAIN items = 1 .. n
    BY <1>3, <2>1
  <2> HIDE DEF S
  <2> QED
    BY <1>3, <2>1, <2>2, <2>3
<1> HIDE DEF items
<1>8. \A x \in S : x.risk \in Int /\ x.title \in Int
  BY <1>6, <1>7
<1>9. S = toSet(items)
  BY DEF toSet
<1> HIDE DEF S
<1>10. /\ ranked \in Seq(S) /\ Len(ranked) = n /\ toSet(ranked) = toSet(items)
       /\ \A i, j \in DOMAIN ranked : i < j => ranked[i].risk >= ranked[j].risk
  BY <1>7, <1>8, Sorted
<1> HIDE DEF ranked
<1>11. {ranked[i].title : i \in DOMAIN ranked} = {x.title : x \in toSet(ranked)}
  BY DEF toSet
<1>12. {items[i].title : i \in DOMAIN items} = {x.title : x \in toSet(items)}
  BY DEF toSet
<1>13. {items[i].title : i \in DOMAIN items} = {suggestions[i].title : i \in DOMAIN suggestions}
  BY <1>6, <1>7
<1> QED
  BY <1>1, <1>10, <1>11, <1>12, <1>13 DEF g

\* Two mismatches between the same repositories.
LEMMA MismatchRisks ==
  ASSUME NEW s \in Setting
  PROVE  LET ms == attachRuntimeSignals(s).mismatches
         IN \A i, j \in DOMAIN ms :
              /\ {ms[i].provider, ms[i].consumer} = {ms[j].provider, ms[j].consumer}
              /\ severityWeight[ms[i].severity] >= severityWeight[ms[j].severity]
              => ms[i].risk >= ms[j].risk
<1> DEFINE g == attachRuntimeSignals(s)
           ms == g.mismatches
           S == DOMAIN severityWeight
<1> SUFFICES ASSUME NEW i \in DOMAIN ms, NEW j \in DOMAIN ms,
                    {ms[i].provider, ms[i].consumer} = {ms[j].provider, ms[j].consumer},
                    severityWeight[ms[i].severity] >= severityWeight[ms[j].severity]
             PROVE  ms[i].risk >= ms[j].risk
  OBVIOUS
<1> DEFINE x == s.mismatches[i]
           y == s.mismatches[j]
           v == betweenOf(g, x)
           w == betweenOf(g, y)
<1>1. /\ ms[i].provider = x.provider /\ ms[i].consumer = x.consumer /\ ms[i].severity = x.severity
      /\ x.provider \in DOMAIN s.repos /\ x.consumer \in DOMAIN s.repos /\ x.severity \in S
      /\ ms[i].risk = percent(v, x.severity)
  BY Attached
<1>2. /\ ms[j].provider = y.provider /\ ms[j].consumer = y.consumer /\ ms[j].severity = y.severity
      /\ y.provider \in DOMAIN s.repos /\ y.consumer \in DOMAIN s.repos /\ y.severity \in S
      /\ ms[j].risk = percent(w, y.severity)
  BY Attached
<1>3. g.weight \in [DOMAIN s.repos -> Weight]
  BY Weights
<1>4. v \in Nat
  BY <1>1, Between
<1> HIDE DEF g, x, y
<1>5. v = w
  <2> DEFINE a == g.weight[x.provider]
             b == g.weight[x.consumer]
  <2>1. a \in Int /\ b \in Int
    <3>1. a \in Weight /\ b \in Weight
      BY <1>1, <1>3
    <3> HIDE DEF a, b
    <3> QED
      BY <3>1 DEF Weight
  <2>2. \/ y.provider = x.provider /\ y.consumer = x.consumer
        \/ y.provider = x.consumer /\ y.consumer = x.provider
    BY <1>1, <1>2
  <2>3. \/ w = (a + b) \div 2
        \/ w = (b + a) \div 2
    BY <2>2 DEF betweenOf
  <2>4. v = (a + b) \div 2
    BY DEF betweenOf
  <2> HIDE DEF a, b, v, w
  <2>5. a + b = b + a
    BY <2>1
  <2> QED
    BY <2>3, <2>4, <2>5
<1> HIDE DEF v, w, ms
<1>6. severityWeight[y.severity] <= severityWeight[x.severity]
  <2>1. \A z \in S : severityWeight[z] \in Int
    BY DEF severityWeight
  <2> HIDE DEF S
  <2>2. severityWeight[x.severity] >= severityWeight[y.severity]
    BY <1>1, <1>2
  <2> QED
    BY <1>1, <1>2, <2>1, <2>2
<1>7. percent(v, y.severity) <= percent(v, x.severity) /\ percent(v, y.severity) \in Int
  BY <1>1, <1>2, <1>4, <1>6, Percents
<1>8. percent(v, x.severity) \in Int
  BY <1>1, <1>4, Percents
<1> QED
  <2> DEFINE p == percent(v, x.severity)
             q == percent(v, y.severity)
  <2>1. ms[i].risk = p /\ ms[j].risk = q /\ q <= p /\ p \in Int /\ q \in Int
    BY <1>1, <1>2, <1>5, <1>7, <1>8
  <2> HIDE DEF p, q
  <2> QED
    BY <2>1

(* The theorem. *)

\* The score and the ranking of a judged graph follow from its risks.
LEMMA RisksFollow ==
  ASSUME weighed.setting \in Setting, weighed.graph = attachRuntimeSignals(weighed.setting),
         weighed.risk = scoreRisk(weighed.graph),
         weighed.ranked = rankEvolutionSuggestions(weighed.setting.suggestions, weighed.graph)
  PROVE  RiskFollows
<1> DEFINE s == weighed.setting
           g == weighed.graph
           ms == g.mismatches
           risks == toSet(risksOf(ms)) \cup toSet(risksOf(g.impacts))
                    \cup toSet(risksOf(g.bridges)) \cup toSet(risksOf(g.findings))
           ranked == weighed.ranked
<1>1. \A i, j \in DOMAIN ms :
        /\ {ms[i].provider, ms[i].consumer} = {ms[j].provider, ms[j].consumer}
        /\ severityWeight[ms[i].severity] >= severityWeight[ms[j].severity]
        => ms[i].risk >= ms[j].risk
  BY MismatchRisks
<1>2. ASSUME risks # {} PROVE \E x, y \in risks : x <= weighed.risk.score /\ weighed.risk.score <= y
  <2> DEFINE a == risksOf(g.mismatches)
             b == risksOf(g.impacts)
             c == risksOf(g.bridges)
             d == risksOf(g.findings)
             score == meanOf(sum(a) + sum(b) + sum(c) + sum(d),
                             atLeast(Len(a) + Len(b) + Len(c) + Len(d), 1))
  <2>1. /\ a \in Seq(Int) /\ Len(a) = Len(g.mismatches) /\ b \in Seq(Int) /\ Len(b) = Len(g.impacts)
        /\ c \in Seq(Int) /\ Len(c) = Len(g.bridges) /\ d \in Seq(Int) /\ Len(d) = Len(g.findings)
    BY Attached
  <2>2. weighed.risk.score = meanOf(sum(a) + sum(b) + sum(c) + sum(d),
                                    atLeast(Len(g.mismatches) + Len(g.impacts) + Len(g.bridges)
                                            + Len(g.findings), 1))
    BY DEF scoreRisk, meanOf
  <2>3. risks = toSet(a) \cup toSet(b) \cup toSet(c) \cup toSet(d)
    OBVIOUS
  <2> HIDE DEF a, b, c, d, risks
  <2>4. weighed.risk.score = score
    BY <2>1, <2>2
  <2>5. \E x, y \in toSet(a) \cup toSet(b) \cup toSet(c) \cup toSet(d) : x <= score /\ score <= y
    BY <1>2, <2>1, <2>3, MeanBetween
  <2> HIDE DEF score
  <2> QED
    BY <2>3, <2>4, <2>5
<1>3. /\ Len(ranked) = Len(s.suggestions)
      /\ {ranked[i].title : i \in DOMAIN ranked} = {s.suggestions[i].title : i \in DOMAIN s.suggestions}
      /\ \A i, j \in DOMAIN ranked : i < j => ranked[i].risk >= ranked[j].risk
  BY RankedSuggestions
<1> HIDE DEF risks
<1> QED
  BY <1>1, <1>2, <1>3 DEF RiskFollows, risks

\* What was computed is what the functions give of the setting.
SignalsInv ==
  /\ weighed.setting \in Setting
  /\ weighed.pc \in {"asked", "enriched", "judged"}
  /\ weighed.pc \in {"enriched", "judged"} =>
       /\ weighed.owned = attachOwnersToGraph(weighed.setting)
       /\ weighed.graph = attachRuntimeSignals(weighed.setting)
  /\ weighed.pc = "judged" =>
       /\ weighed.risk = scoreRisk(weighed.graph)
       /\ weighed.ranked = rankEvolutionSuggestions(weighed.setting.suggestions, weighed.graph)

\* Whatever the rules, artifacts and findings of a workspace: owners are those of the
\* rules that match, weights are in range and count each artifact once, and the score
\* and the ranking follow from the risks (attachOwnersToGraph, attachRuntimeSignals,
\* scoreRisk, rankEvolutionSuggestions).
THEOREM SignalsCorrect == SignalsSpec => []SignalsSound
<1>1. SignalsInit => SignalsInv
  BY DEF SignalsInit, SignalsInv
<1>2. SignalsInv /\ [SignalsNext]_weighed => SignalsInv'
  <2> SUFFICES ASSUME SignalsInv, [SignalsNext]_weighed PROVE SignalsInv'
    OBVIOUS
  <2>1. CASE enrich
    BY <2>1 DEF SignalsInv, enrich
  <2>2. CASE judge
    BY <2>2 DEF SignalsInv, judge
  <2>3. CASE UNCHANGED weighed
    BY <2>3 DEF SignalsInv
  <2> QED
    BY <2>1, <2>2, <2>3 DEF SignalsNext
<1>3. SignalsInv => SignalsSound
  <2> SUFFICES ASSUME SignalsInv PROVE SignalsSound
    OBVIOUS
  <2>1. weighed.pc \in {"enriched", "judged"} => OwnersAccounted /\ WeightsFair
    BY OwnersFollow, WeightsFollow DEF SignalsInv
  <2>2. weighed.pc = "judged" => RiskFollows
    BY RisksFollow DEF SignalsInv
  <2> QED
    BY <2>1, <2>2 DEF SignalsSound
<1> QED
  BY <1>1, <1>2, <1>3, PTL DEF SignalsSpec

------------------------------------------------------------------------------
(* Health. *)

Percentage == 0 .. 100

\* What is rounded keeps its bounds, and of more there is no less.
LEMMA Rounded ==
  ASSUME NEW a \in Int, NEW b \in Int, b > 0
  PROVE  /\ rounded(a, b) \in Int
         /\ \A h \in Int : (b * h <= a => h <= rounded(a, b)) /\ (a <= b * h => rounded(a, b) <= h)
         /\ \A c \in Int : a <= c => rounded(a, b) <= rounded(c, b)
<1>1. rounded(a, b) = meanOf(a, b)
  BY DEF rounded, meanOf
<1>2. ASSUME NEW c \in Int, a <= c PROVE rounded(a, b) <= rounded(c, b)
  <2> DEFINE t == 2 * a + b
             u == 2 * c + b
             n == 2 * b
  <2>1. t \in Int /\ u \in Int /\ n \in Int /\ t <= u /\ n > 0
    BY <1>2
  <2>2. rounded(a, b) = t \div n /\ rounded(c, b) = u \div n
    BY DEF rounded
  <2> HIDE DEF t, u, n
  <2> QED
    BY <2>1, <2>2, QuotientGrows
<1>3. meanOf(a, b) \in Int
  BY 0 \in Int, MeanBounds
<1>4. \A h \in Int : (b * h <= a => h <= meanOf(a, b)) /\ (a <= b * h => meanOf(a, b) <= h)
  BY MeanBounds
<1> QED
  BY <1>1, <1>2, <1>3, <1>4

\* Of more TODOs the score is no higher.
LEMMA TodosScored ==
  ASSUME NEW n \in Nat
  PROVE  /\ scoreTodos(n) \in Percentage
         /\ \A m \in Nat : n <= m => scoreTodos(m) <= scoreTodos(n)
<1> DEFINE P == TodoPenalty
<1>1. Len(P) = 9 /\ P[1] = 30 /\ P[2] = 48 /\ P[3] = 60 /\ P[4] = 70 /\ P[5] = 78 /\ P[6] = 84
      /\ P[7] = 90 /\ P[8] = 95 /\ P[9] = 100
  BY DEF TodoPenalty
<1>2. \A k \in Nat : k = 0 \/ k > 9 \/ k = 1 \/ k = 2 \/ k = 3 \/ k = 4 \/ k = 5 \/ k = 6 \/ k = 7
                     \/ k = 8 \/ k = 9
  OBVIOUS
<1> HIDE DEF P
<1>3. \A k \in Nat : scoreTodos(k) = IF k = 0 THEN 100 ELSE IF k > 9 THEN 0 ELSE 100 - P[k]
  BY <1>1 DEF scoreTodos, P
<1>4. \A k \in Nat : k = 0 \/ k > 9 \/ P[k] \in Percentage
  BY <1>1, <1>2 DEF Percentage
<1>5. \A k, m \in 1 .. 9 : k <= m => P[k] <= P[m]
  <2>1. \A k \in 1 .. 8 : P[k] <= P[k + 1]
    <3> SUFFICES ASSUME NEW k \in 1 .. 8 PROVE P[k] <= P[k + 1]
      OBVIOUS
    <3>1. k = 1 \/ k = 2 \/ k = 3 \/ k = 4 \/ k = 5 \/ k = 6 \/ k = 7 \/ k = 8
      OBVIOUS
    <3> QED
      BY <1>1, <3>1
  <2> SUFFICES ASSUME NEW k \in 1 .. 9, NEW m \in 1 .. 9, k <= m PROVE P[k] <= P[m]
    OBVIOUS
  <2>2. \A l \in 1 .. 9 : P[l] \in Int
    BY <1>4 DEF Percentage
  <2> DEFINE T == {d \in 0 .. 9 : k + d \in 1 .. 9 => P[k] <= P[k + d]}
  <2>3. 0 \in T
    BY <2>2
  <2>4. \A d \in 1 .. 9 : d - 1 \in T => d \in T
    <3> SUFFICES ASSUME NEW d \in 1 .. 9, d - 1 \in T, k + d \in 1 .. 9 PROVE P[k] <= P[k + d]
      OBVIOUS
    <3>1. k + (d - 1) \in 1 .. 8 /\ k + (d - 1) \in 1 .. 9 /\ (k + (d - 1)) + 1 = k + d
      OBVIOUS
    <3>2. P[k] <= P[k + (d - 1)] /\ P[k + (d - 1)] <= P[k + d]
      BY <2>1, <3>1
    <3> QED
      BY <2>2, <3>1, <3>2
  <2> HIDE DEF T
  <2>5. \A d \in 0 .. 9 : d \in T
    BY <2>3, <2>4, EachStep
  <2>6. m - k \in 0 .. 9 /\ k + (m - k) = m
    OBVIOUS
  <2> QED
    BY <2>5, <2>6 DEF T
<1>6. scoreTodos(n) \in Percentage
  BY <1>3, <1>4 DEF Percentage
<1>7. ASSUME NEW m \in Nat, n <= m PROVE scoreTodos(m) <= scoreTodos(n)
  <2>1. scoreTodos(m) \in Percentage
    BY <1>3, <1>4 DEF Percentage
  <2>2. CASE n = 0 \/ m > 9
    BY <1>3, <1>6, <1>7, <2>1, <2>2 DEF Percentage
  <2>3. CASE n # 0 /\ ~(m > 9)
    <3>1. n \in 1 .. 9 /\ m \in 1 .. 9
      BY <1>7, <2>3
    <3>2. P[n] <= P[m] /\ P[n] \in Int /\ P[m] \in Int
      BY <1>4, <1>5, <1>7, <3>1 DEF Percentage
    <3> QED
      BY <1>3, <1>7, <3>1, <3>2
  <2> QED
    BY <2>2, <2>3
<1> QED
  BY <1>6, <1>7

\* Of more dead exports, of as many, the score is no higher.
LEMMA DeadCodeScored ==
  ASSUME NEW d \in Nat, NEW x \in Nat
  PROVE  /\ scoreDeadCode(d, x) \in Percentage
         /\ \A e \in Nat : d <= e => scoreDeadCode(e, x) <= scoreDeadCode(d, x)
<1> DEFINE part(k) == rounded(100 * (x - k), x)
<1>1. CASE x = 0
  BY <1>1 DEF scoreDeadCode, Percentage
<1>2. CASE x # 0
  <2>1. \A k \in Nat : scoreDeadCode(k, x) = IF k = 0 THEN 100 ELSE IF k >= x THEN 0 ELSE part(k)
    BY <1>2 DEF scoreDeadCode
  <2>2. ASSUME NEW k \in Nat, k < x PROVE part(k) \in Percentage
    <3> DEFINE a == 100 * (x - k)
    <3>1. a \in Int /\ x \in Int /\ x > 0 /\ x * 0 <= a /\ a <= x * 100 /\ 0 \in Int /\ 100 \in Int
      BY <1>2, <2>2
    <3> HIDE DEF a
    <3>2. rounded(a, x) \in Int /\ 0 <= rounded(a, x) /\ rounded(a, x) <= 100
      BY <3>1, Rounded
    <3> QED
      BY <3>2 DEF a, Percentage
  <2>3. ASSUME NEW k \in Nat, NEW l \in Nat, k <= l PROVE part(l) <= part(k)
    <3> DEFINE a == 100 * (x - l)
               c == 100 * (x - k)
    <3>1. a \in Int /\ c \in Int /\ a <= c /\ x \in Int /\ x > 0
      BY <1>2, <2>3
    <3> HIDE DEF a, c
    <3>2. rounded(a, x) <= rounded(c, x)
      BY <3>1, Rounded
    <3> QED
      BY <3>2 DEF a, c
  <2> HIDE DEF part
  <2>4. \A k \in Nat : scoreDeadCode(k, x) \in Percentage
    BY <2>1, <2>2 DEF Percentage
  <2>5. ASSUME NEW e \in Nat, d <= e PROVE scoreDeadCode(e, x) <= scoreDeadCode(d, x)
    <3>1. scoreDeadCode(e, x) \in Percentage /\ scoreDeadCode(d, x) \in Percentage
      BY <2>4
    <3>2. CASE d = 0 \/ e >= x
      BY <2>1, <2>5, <3>1, <3>2 DEF Percentage
    <3>3. CASE d # 0 /\ ~(e >= x)
      BY <2>1, <2>3, <2>5, <3>3
    <3> QED
      BY <3>2, <3>3
  <2> QED
    BY <2>4, <2>5
<1> QED
  BY <1>1, <1>2

\* A number that is no smaller has a square that is no smaller.
LEMMA Squares ==
  ASSUME NEW x \in Nat, NEW y \in Nat, x <= y
  PROVE  x * x \in Nat /\ y * y \in Nat /\ x * x <= y * y
<1>1. x * x <= y * x /\ y * x <= y * y
  <2>1. \A u, v, w \in Nat : u <= v => u * w <= v * w
    OBVIOUS
  <2>2. y * x = x * y
    OBVIOUS
  <2> QED
    BY <2>1, <2>2
<1>2. x * x \in Nat /\ y * x \in Nat /\ y * y \in Nat
  OBVIOUS
<1> QED
  BY <1>1, <1>2

\* The square root of a percentage is found, and is a percentage.
LEMMA Root ==
  ASSUME NEW c \in Percentage
  PROVE  /\ scaled(c) \in Percentage
         /\ scaled(c) = 0 \/ (2 * scaled(c) - 1) * (2 * scaled(c) - 1) <= 400 * c
         /\ 400 * c < (2 * scaled(c) + 1) * (2 * scaled(c) + 1)
<1> DEFINE S == {s \in Percentage : 400 * c < (2 * s + 1) * (2 * s + 1)}
<1>1. 100 \in S /\ S \in SUBSET Nat
  BY DEF Percentage
<1>2. PICK s \in S : \A t \in S : s <= t
  <2> HIDE DEF S
  <2> QED
    BY <1>1, LeastElement
<1>3. s = 0 \/ (2 * s - 1) * (2 * s - 1) <= 400 * c
  <2> SUFFICES ASSUME s # 0 PROVE (2 * s - 1) * (2 * s - 1) <= 400 * c
    OBVIOUS
  <2>1. s - 1 \in Percentage /\ ~(s <= s - 1)
    BY DEF Percentage
  <2>2. s - 1 \notin S
    BY <1>2, <2>1
  <2>3. ~(400 * c < (2 * (s - 1) + 1) * (2 * (s - 1) + 1))
    BY <2>1, <2>2
  <2>4. 2 * (s - 1) + 1 = 2 * s - 1 /\ 2 * s - 1 \in Int
    BY DEF Percentage
  <2> DEFINE q == 2 * s - 1
  <2>5. ~(400 * c < q * q) /\ q \in Int /\ c \in Int
    BY <2>3, <2>4 DEF Percentage
  <2> HIDE DEF q
  <2>6. q * q \in Int
    BY <2>5
  <2>7. q * q <= 400 * c
    BY <2>5, <2>6
  <2> QED
    BY <2>7 DEF q
<1>4. \E r \in 0 .. 100 : /\ r = 0 \/ (2 * r - 1) * (2 * r - 1) <= 400 * c
                          /\ 400 * c < (2 * r + 1) * (2 * r + 1)
  BY <1>3 DEF Percentage
<1> QED
  BY <1>4 DEF scaled, Percentage

\* Of more coverage the root is no smaller.
LEMMA RootGrows ==
  ASSUME NEW c \in Percentage, NEW e \in Percentage, c <= e
  PROVE  scaled(c) <= scaled(e)
<1> DEFINE s == scaled(c)
           t == scaled(e)
<1>1. /\ s \in Percentage /\ t \in Percentage
      /\ s = 0 \/ (2 * s - 1) * (2 * s - 1) <= 400 * c
      /\ 400 * e < (2 * t + 1) * (2 * t + 1)
  BY Root
<1> HIDE DEF s, t
<1>2. ASSUME ~(s <= t) PROVE FALSE
  <2> DEFINE p == 2 * s - 1
             q == 2 * t + 1
  <2>1. s # 0 /\ p \in Nat /\ q \in Nat /\ q <= p
    BY <1>1, <1>2 DEF Percentage
  <2>2. p * p <= 400 * c /\ 400 * e < q * q
    BY <1>1, <2>1
  <2>3. c \in Int /\ e \in Int
    BY DEF Percentage
  <2> HIDE DEF p, q
  <2>4. p * p \in Nat /\ q * q \in Nat /\ q * q <= p * p
    BY <2>1, Squares
  <2> QED
    BY <2>2, <2>3, <2>4
<1>3. s <= t
  BY <1>2
<1> QED
  BY <1>3 DEF s, t

LEMMA TestsScored ==
  ASSUME NEW c \in Percentage \cup {NoReport}, NEW role \in Role
  PROVE  /\ scoreTests(c, role) \in Percentage
         /\ \A e \in Percentage \cup {NoReport} :
              c = e \/ (NoReport \notin {c, e} /\ c >= e) => scoreTests(e, role) <= scoreTests(c, role)
<1>1. \A x \in Percentage \cup {NoReport} : scoreTests(x, role) \in Percentage
  <2> SUFFICES ASSUME NEW x \in Percentage \cup {NoReport} PROVE scoreTests(x, role) \in Percentage
    OBVIOUS
  <2>1. CASE x = NoReport
    BY <2>1 DEF scoreTests, unreported, Percentage
  <2>2. CASE x # NoReport
    BY <2>2, Root DEF scoreTests
  <2> QED
    BY <2>1, <2>2
<1>2. ASSUME NEW e \in Percentage \cup {NoReport}, c = e \/ (NoReport \notin {c, e} /\ c >= e)
      PROVE  scoreTests(e, role) <= scoreTests(c, role)
  <2>1. CASE c = e
    <3>1. \A x \in Percentage : x <= x
      BY DEF Percentage
    <3> QED
      BY <1>1, <2>1, <3>1
  <2>2. CASE NoReport \notin {c, e} /\ c >= e
    <3>1. e \in Percentage /\ c \in Percentage /\ e <= c
      BY <2>2 DEF Percentage
    <3>2. scaled(e) <= scaled(c)
      BY <3>1, RootGrows
    <3>3. scoreTests(e, role) = scaled(e) /\ scoreTests(c, role) = scaled(c)
      BY <2>2 DEF scoreTests
    <3> QED
      BY <3>2, <3>3
  <2> QED
    BY <1>2, <2>1, <2>2
<1> QED
  BY <1>1, <1>2

LEMMA QualityScored ==
  ASSUME NEW l \in Nat, NEW t \in Nat
  PROVE  /\ scoreQuality(l, t) \in Percentage
         /\ \A m, u \in Nat : l <= m /\ t <= u => scoreQuality(m, u) <= scoreQuality(l, t)
  BY DEF scoreQuality, Percentage

\* The weights of a role are shares of a whole.
LEMMA WeightsOf ==
  ASSUME NEW role \in Role
  PROVE  LET w == ROLE_WEIGHTS[role]
         IN /\ w.todo \in Nat /\ w.dead \in Nat /\ w.test \in Nat /\ w.quality \in Nat
            /\ w.todo + w.dead + w.test + w.quality = 100
  BY DEF ROLE_WEIGHTS, Role

\* What four scores make under four weights grows with them.
LEMMA Weighted ==
  ASSUME NEW w1 \in Nat, NEW w2 \in Nat, NEW w3 \in Nat, NEW w4 \in Nat,
         NEW a1 \in Nat, NEW a2 \in Nat, NEW a3 \in Nat, NEW a4 \in Nat,
         NEW b1 \in Nat, NEW b2 \in Nat, NEW b3 \in Nat, NEW b4 \in Nat,
         b1 <= a1, b2 <= a2, b3 <= a3, b4 <= a4
  PROVE  /\ a1 * w1 + a2 * w2 + a3 * w3 + a4 * w4 \in Nat
         /\ b1 * w1 + b2 * w2 + b3 * w3 + b4 * w4 <= a1 * w1 + a2 * w2 + a3 * w3 + a4 * w4
<1>1. \A u, v, w \in Nat : u <= v => u * w \in Nat /\ v * w \in Nat /\ u * w <= v * w
  OBVIOUS
<1>2. /\ b1 * w1 \in Nat /\ a1 * w1 \in Nat /\ b1 * w1 <= a1 * w1
      /\ b2 * w2 \in Nat /\ a2 * w2 \in Nat /\ b2 * w2 <= a2 * w2
      /\ b3 * w3 \in Nat /\ a3 * w3 \in Nat /\ b3 * w3 <= a3 * w3
      /\ b4 * w4 \in Nat /\ a4 * w4 \in Nat /\ b4 * w4 <= a4 * w4
  BY <1>1
<1>3. \A p, q, r, o, x, y, z, u \in Nat : p <= x /\ q <= y /\ r <= z /\ o <= u
                                          => x + y + z + u \in Nat /\ p + q + r + o <= x + y + z + u
  OBVIOUS
<1> QED
  BY <1>2, <1>3

LEMMA HealthScored ==
  ASSUME NEW r \in ScannedRepo
  PROVE  /\ scoreHealth(r) \in Percentage
         /\ \A o \in ScannedRepo : noWorse(r, o) => scoreHealth(o) <= scoreHealth(r)
<1> DEFINE w == ROLE_WEIGHTS[r.role]
           total(a, b, c, d) == a * w.todo + b * w.dead + c * w.test + d * w.quality
           a1 == scoreTodos(r.todo)
           a2 == scoreDeadCode(r.dead, r.exports)
           a3 == scoreTests(r.test, r.role)
           a4 == scoreQuality(r.lint, r.types)
<1>1. /\ r.role \in Role /\ r.todo \in Nat /\ r.dead \in Nat /\ r.exports \in Nat
      /\ r.test \in Percentage \cup {NoReport} /\ r.lint \in Nat /\ r.types \in Nat
  BY DEF ScannedRepo, Percentage
<1>2. /\ w.todo \in Nat /\ w.dead \in Nat /\ w.test \in Nat /\ w.quality \in Nat
      /\ w.todo + w.dead + w.test + w.quality = 100
  BY <1>1, WeightsOf
<1>3. a1 \in Percentage /\ a2 \in Percentage /\ a3 \in Percentage /\ a4 \in Percentage
  BY <1>1, TodosScored, DeadCodeScored, TestsScored, QualityScored
<1>4. scoreHealth(r) = rounded(total(a1, a2, a3, a4), 100)
  BY DEF scoreHealth
<1>5. \A x \in Percentage : x \in Nat /\ 0 <= x /\ x <= 100
  BY DEF Percentage
<1>6. 100 \in Int /\ 0 \in Int /\ 100 > 0 /\ 0 \in Nat /\ 100 \in Nat /\ 100 * 0 = 0 /\ 100 * 100 = 10000
  OBVIOUS
<1>7. ASSUME NEW x1 \in Percentage, NEW x2 \in Percentage, NEW x3 \in Percentage, NEW x4 \in Percentage
      PROVE  total(x1, x2, x3, x4) \in Nat /\ total(x1, x2, x3, x4) <= 10000
  <2> DEFINE w1 == w.todo
             w2 == w.dead
             w3 == w.test
             w4 == w.quality
  <2>1. w1 \in Nat /\ w2 \in Nat /\ w3 \in Nat /\ w4 \in Nat /\ w1 + w2 + w3 + w4 = 100
    BY <1>2
  <2>2. x1 \in Nat /\ x2 \in Nat /\ x3 \in Nat /\ x4 \in Nat /\ x1 <= 100 /\ x2 <= 100 /\ x3 <= 100 /\ x4 <= 100
    BY <1>5
  <2> HIDE DEF w, w1, w2, w3, w4
  <2>3. x1 * w1 + x2 * w2 + x3 * w3 + x4 * w4 \in Nat
    BY <2>1, <2>2
  <2>4. x1 * w1 + x2 * w2 + x3 * w3 + x4 * w4 <= 100 * w1 + 100 * w2 + 100 * w3 + 100 * w4
    BY <1>6, <2>1, <2>2, Weighted
  <2>5. 100 * w1 + 100 * w2 + 100 * w3 + 100 * w4 = 10000
    BY <2>1
  <2>6. x1 * w1 + x2 * w2 + x3 * w3 + x4 * w4 <= 10000
    BY <2>4, <2>5
  <2> QED
    BY <2>3, <2>6 DEF w1, w2, w3, w4
<1>8. scoreHealth(r) \in Percentage
  <2> DEFINE t == total(a1, a2, a3, a4)
  <2>1. t \in Nat /\ t <= 10000
    <3> HIDE DEF w, a1, a2, a3, a4
    <3> QED
      BY <1>3, <1>7
  <2>2. scoreHealth(r) = rounded(t, 100)
    BY <1>4
  <2> HIDE DEF t
  <2>3. t \in Int /\ 100 * 0 <= t /\ t <= 100 * 100
    BY <2>1
  <2>4. rounded(t, 100) \in Int /\ 0 <= rounded(t, 100) /\ rounded(t, 100) <= 100
    BY <1>6, <2>3, Rounded
  <2> QED
    BY <2>2, <2>4 DEF Percentage
<1>9. ASSUME NEW o \in ScannedRepo, noWorse(r, o) PROVE scoreHealth(o) <= scoreHealth(r)
  <2> DEFINE b1 == scoreTodos(o.todo)
             b2 == scoreDeadCode(o.dead, o.exports)
             b3 == scoreTests(o.test, o.role)
             b4 == scoreQuality(o.lint, o.types)
             t == total(a1, a2, a3, a4)
             u == total(b1, b2, b3, b4)
  <2>1. /\ o.role = r.role /\ o.exports = r.exports /\ r.todo <= o.todo /\ r.dead <= o.dead
        /\ r.lint <= o.lint /\ r.types <= o.types
        /\ \/ r.test = o.test
           \/ NoReport \notin {r.test, o.test} /\ r.test >= o.test
    BY <1>9 DEF noWorse
  <2>2. /\ o.todo \in Nat /\ o.dead \in Nat /\ o.test \in Percentage \cup {NoReport}
        /\ o.lint \in Nat /\ o.types \in Nat
    BY DEF ScannedRepo, Percentage
  <2>3. b1 <= a1 /\ b1 \in Percentage
    BY <1>1, <2>1, <2>2, TodosScored
  <2>4. b2 <= a2 /\ b2 \in Percentage
    BY <1>1, <2>1, <2>2, DeadCodeScored
  <2>5. b3 <= a3 /\ b3 \in Percentage
    BY <1>1, <2>1, <2>2, TestsScored
  <2>6. b4 <= a4 /\ b4 \in Percentage
    BY <1>1, <2>1, <2>2, QualityScored
  <2>7. scoreHealth(o) = rounded(u, 100) /\ scoreHealth(r) = rounded(t, 100)
    BY <1>4, <2>1 DEF scoreHealth
  <2> HIDE DEF a1, a2, a3, a4, b1, b2, b3, b4, w
  <2>8. t \in Nat /\ u \in Nat
    BY <1>3, <1>7, <2>3, <2>4, <2>5, <2>6
  <2>9. u <= t
    <3> DEFINE w1 == w.todo
               w2 == w.dead
               w3 == w.test
               w4 == w.quality
    <3>1. w1 \in Nat /\ w2 \in Nat /\ w3 \in Nat /\ w4 \in Nat
      BY <1>2
    <3>2. /\ a1 \in Nat /\ a2 \in Nat /\ a3 \in Nat /\ a4 \in Nat
          /\ b1 \in Nat /\ b2 \in Nat /\ b3 \in Nat /\ b4 \in Nat
      BY <1>3, <1>5, <2>3, <2>4, <2>5, <2>6
    <3> HIDE DEF w1, w2, w3, w4
    <3>3. b1 * w1 + b2 * w2 + b3 * w3 + b4 * w4 <= a1 * w1 + a2 * w2 + a3 * w3 + a4 * w4
      BY <2>3, <2>4, <2>5, <2>6, <3>1, <3>2, Weighted
    <3> QED
      BY <3>3 DEF w1, w2, w3, w4
  <2> HIDE DEF t, u
  <2>10. rounded(u, 100) <= rounded(t, 100)
    BY <1>6, <2>8, <2>9, Rounded
  <2> QED
    BY <2>7, <2>10
<1> QED
  BY <1>8, <1>9

\* The rounded mean of a list lies between two of its members.
LEMMA RoundedMean ==
  ASSUME NEW s \in Seq(Percentage), s # <<>>
  PROVE  \E i, j \in DOMAIN s : s[i] <= rounded(sum(s), Len(s)) /\ rounded(sum(s), Len(s)) <= s[j]
<1> DEFINE n == Len(s)
           m == rounded(sum(s), n)
<1>1. s \in Seq(Int) /\ n \in Int /\ n > 0 /\ DOMAIN s = 1 .. n /\ \A k \in 1 .. n : s[k] \in Int
  <2>1. \A k \in 1 .. Len(s) : s[k] \in Int
    <3>1. \A k \in 1 .. Len(s) : s[k] \in Percentage
      OBVIOUS
    <3>2. \A x \in Percentage : x \in Int
      BY DEF Percentage
    <3> QED
      BY <3>1, <3>2
  <2>2. s \in [1 .. Len(s) -> Int] /\ Len(s) \in Nat
    BY <2>1
  <2> QED
    BY <2>1, <2>2
<1>2. sum(s) \in Int
  BY <1>1, 0 \in Int, SumBounds
<1>3. m \in Int /\ \A h \in Int : (n * h <= sum(s) => h <= m) /\ (sum(s) <= n * h => m <= h)
  <2> HIDE DEF n
  <2> QED
    BY <1>1, <1>2, Rounded
<1> HIDE DEF m
<1>4. \E i \in DOMAIN s : s[i] <= m
  <2> SUFFICES ASSUME \A i \in DOMAIN s : ~(s[i] <= m) PROVE FALSE
    OBVIOUS
  <2> DEFINE h == m + 1
  <2>1. h \in Int /\ \A k \in 1 .. Len(s) : h <= s[k]
    BY <1>1, <1>3
  <2> HIDE DEF h
  <2>2. n * h <= sum(s)
    BY <1>1, <2>1, SumBounds
  <2>3. h <= m
    BY <1>3, <2>1, <2>2
  <2> QED
    BY <1>3, <2>3 DEF h
<1>5. \E j \in DOMAIN s : m <= s[j]
  <2> SUFFICES ASSUME \A j \in DOMAIN s : ~(m <= s[j]) PROVE FALSE
    OBVIOUS
  <2> DEFINE h == m - 1
  <2>1. h \in Int /\ \A k \in 1 .. Len(s) : s[k] <= h
    BY <1>1, <1>3
  <2> HIDE DEF h
  <2>2. sum(s) <= n * h
    BY <1>1, <2>1, SumBounds
  <2>3. m <= h
    BY <1>3, <2>1, <2>2
  <2> QED
    BY <1>3, <2>3 DEF h
<1> QED
  BY <1>4, <1>5 DEF m

\* The scores are those of the repositories of the portfolio.
HealthInv ==
  /\ health.repos \in Portfolio
  /\ health \in [pc : {"asked", "scored"}, repos : Portfolio, perRepo : Seq(Percentage), overall : Int]
  /\ health.pc = "scored" =>
       /\ health.perRepo = [i \in DOMAIN health.repos |-> scoreHealth(health.repos[i])]
       /\ health.repos # <<>> => health.overall = rounded(sum(health.perRepo), Len(health.perRepo))

\* Whatever is scanned in the repositories: none that is no worse than another scores
\* lower, scores are percentages, and that of the ecosystem lies between them
\* (scoreHealth, scoreEcosystemHealth).
THEOREM HealthCorrect == HealthSpec => []HealthFair
<1>1. HealthInit => HealthInv
  <2> SUFFICES ASSUME HealthInit PROVE HealthInv
    OBVIOUS
  <2>1. PICK p \in Portfolio : health = [pc |-> "asked", repos |-> p, perRepo |-> <<>>, overall |-> 0]
    BY DEF HealthInit
  <2>2. <<>> \in Seq(Percentage) /\ 0 \in Int
    OBVIOUS
  <2> QED
    BY <2>1, <2>2 DEF HealthInv
<1>2. HealthInv /\ [scoreEcosystemHealth]_health => HealthInv'
  <2> SUFFICES ASSUME HealthInv, [scoreEcosystemHealth]_health PROVE HealthInv'
    OBVIOUS
  <2>1. CASE scoreEcosystemHealth
    <3> DEFINE s == [i \in DOMAIN health.repos |-> scoreHealth(health.repos[i])]
               o == IF s = <<>> THEN 0 ELSE rounded(sum(s), Len(s))
    <3>1. health.repos \in Seq(ScannedRepo)
      BY PortfolioType DEF HealthInv
    <3>2. \A i \in DOMAIN health.repos : scoreHealth(health.repos[i]) \in Percentage
      BY <3>1, HealthScored
    <3>3. s \in Seq(Percentage) /\ (health.repos # <<>> => s # <<>>)
      <4>1. DOMAIN health.repos = 1 .. Len(health.repos) /\ Len(health.repos) \in Nat
        BY <3>1
      <4>2. s \in [1 .. Len(health.repos) -> Percentage]
        BY <3>2, <4>1
      <4>3. s \in Seq(Percentage) /\ Len(s) = Len(health.repos)
        BY <4>1, <4>2
      <4>4. health.repos # <<>> => Len(health.repos) # 0
        BY <3>1
      <4> HIDE DEF s
      <4> QED
        BY <4>3, <4>4
    <3>4. o \in Int
      <4>1. CASE s = <<>>
        BY <4>1
      <4>2. CASE s # <<>>
        <5> HIDE DEF s
        <5>1. s \in [1 .. Len(s) -> Percentage] /\ Len(s) \in Nat
          BY <3>3
        <5>2. s \in Seq(Int)
          <6>1. \A x \in Percentage : x \in Int
            BY DEF Percentage
          <6>2. s \in [1 .. Len(s) -> Int]
            BY <5>1, <6>1
          <6> QED
            BY <5>1, <6>2
        <5>3. sum(s) \in Int /\ Len(s) \in Int /\ Len(s) > 0
          BY <4>2, <5>2, 0 \in Int, SumBounds
        <5> QED
          BY <4>2, <5>3, Rounded
      <4> QED
        BY <4>1, <4>2
    <3>5. health' = [health EXCEPT !.pc = "scored", !.perRepo = s, !.overall = o]
      BY <2>1 DEF scoreEcosystemHealth
    <3>6. /\ health'.pc = "scored" /\ health'.repos = health.repos /\ health'.perRepo = s /\ health'.overall = o
          /\ health' \in [pc : {"asked", "scored"}, repos : Portfolio, perRepo : Seq(Percentage), overall : Int]
      <4> HIDE DEF s, o
      <4> QED
        BY <3>3, <3>4, <3>5 DEF HealthInv
    <3>7. health.repos # <<>> => o = rounded(sum(s), Len(s))
      BY <3>3
    <3> QED
      BY <3>6, <3>7 DEF HealthInv
  <2>2. CASE UNCHANGED health
    BY <2>2 DEF HealthInv
  <2> QED
    BY <2>1, <2>2
<1>3. HealthInv => HealthFair
  <2> SUFFICES ASSUME HealthInv, health.pc = "scored"
               PROVE  /\ \A i, j \in DOMAIN health.repos :
                           noWorse(health.repos[i], health.repos[j]) => health.perRepo[i] >= health.perRepo[j]
                      /\ \A i \in DOMAIN health.repos : health.perRepo[i] \in 0 .. 100
                      /\ health.repos # <<>> =>
                           \E i, j \in DOMAIN health.repos :
                             health.perRepo[i] <= health.overall /\ health.overall <= health.perRepo[j]
    BY DEF HealthFair
  <2>1. /\ health.repos \in Seq(ScannedRepo) /\ health.perRepo \in Seq(Percentage)
        /\ DOMAIN health.perRepo = DOMAIN health.repos
        /\ \A i \in DOMAIN health.repos : /\ health.repos[i] \in ScannedRepo
                                          /\ health.perRepo[i] = scoreHealth(health.repos[i])
    BY PortfolioType DEF HealthInv
  <2>2. \A i \in DOMAIN health.repos : health.perRepo[i] \in 0 .. 100
    BY <2>1, HealthScored DEF Percentage
  <2>3. ASSUME NEW i \in DOMAIN health.repos, NEW j \in DOMAIN health.repos,
               noWorse(health.repos[i], health.repos[j])
        PROVE  health.perRepo[i] >= health.perRepo[j]
    <3>1. health.perRepo[j] <= health.perRepo[i]
      BY <2>1, <2>3, HealthScored
    <3> QED
      BY <2>2, <3>1
  <2>4. ASSUME health.repos # <<>>
        PROVE  \E i, j \in DOMAIN health.repos :
                 health.perRepo[i] <= health.overall /\ health.overall <= health.perRepo[j]
    <3>1. health.perRepo # <<>>
      BY <2>1, <2>4
    <3> QED
      BY <2>1, <2>4, <3>1, RoundedMean DEF HealthInv
  <2> QED
    BY <2>2, <2>3, <2>4
<1> QED
  BY <1>1, <1>2, <1>3, PTL DEF HealthSpec

------------------------------------------------------------------------------
(* Evolution: lists. *)

\* A sequence holds what it holds.
LEMMA SequenceOf ==
  ASSUME NEW S, NEW s \in Seq(S)
  PROVE  isSequence(s) /\ toSet(s) \in SUBSET S
<1>1. Len(s) \in Nat /\ DOMAIN s = 1 .. Len(s) /\ \A i \in 1 .. Len(s) : s[i] \in S
  OBVIOUS
<1>2. toSet(s) \in SUBSET S
  BY <1>1 DEF toSet
<1>3. \A i \in 1 .. Len(s) : s[i] \in toSet(s)
  BY <1>1 DEF toSet
<1>4. s \in [1 .. Len(s) -> toSet(s)]
  BY <1>1, <1>3
<1>5. s \in Seq(toSet(s))
  BY <1>1, <1>4
<1> QED
  BY <1>2, <1>5 DEF isSequence

\* What map makes of an array has a member at each of its positions.
Mapped(f, s) == DOMAIN f = DOMAIN s /\ f = [i \in DOMAIN f |-> f[i]]

\* What is made of the positions of a sequence, and what is taken from it.
LEMMA SequenceMade ==
  ASSUME NEW s, isSequence(s)
  PROVE  /\ \A f : Mapped(f, s) => isSequence(f)
         /\ \A I \in SUBSET DOMAIN s : /\ isSequence(Subsequence(s, I))
                                      /\ toSet(Subsequence(s, I)) = {s[i] : i \in I}
<1>1. s \in Seq(toSet(s)) /\ Len(s) \in Nat /\ DOMAIN s = 1 .. Len(s)
  BY IsSequence
<1>2. ASSUME NEW f, Mapped(f, s) PROVE isSequence(f)
  <2>1. \A i \in DOMAIN f : f[i] \in toSet(f)
    BY DEF toSet
  <2>2. f \in [1 .. Len(s) -> toSet(f)]
    BY <1>1, <1>2, <2>1 DEF Mapped
  <2> QED
    BY <1>1, <2>2 DEF isSequence
<1>3. ASSUME NEW I \in SUBSET DOMAIN s
      PROVE  isSequence(Subsequence(s, I)) /\ toSet(Subsequence(s, I)) = {s[i] : i \in I}
  <2>1. toSet(Subsequence(s, I)) = {s[i] : i \in I}
    BY <1>1, SubsequenceSet
  <2>2. Subsequence(s, I) \in Seq(toSet(s))
    BY <1>1, SubsequenceKeeps
  <2> QED
    BY <2>1, <2>2, SequenceOf
<1> QED
  BY <1>2, <1>3

\* Two sequences, one after the other.
LEMMA SequenceJoined ==
  ASSUME NEW a, NEW b, isSequence(a), isSequence(b)
  PROVE  isSequence(a \o b) /\ toSet(a \o b) = toSet(a) \cup toSet(b)
<1> DEFINE S == toSet(a) \cup toSet(b)
<1>1. a \in Seq(S) /\ b \in Seq(S)
  <2>1. a \in Seq(toSet(a)) /\ b \in Seq(toSet(b))
    BY IsSequence
  <2>2. toSet(a) \in SUBSET S /\ toSet(b) \in SUBSET S
    OBVIOUS
  <2>3. \A A, B : A \subseteq B => \A s \in Seq(A) : s \in Seq(B)
    OBVIOUS
  <2> HIDE DEF S
  <2> QED
    BY <2>1, <2>2, <2>3
<1>2. a \o b \in Seq(S) /\ toSet(a \o b) = toSet(a) \cup toSet(b)
  BY <1>1, JoinedSets
<1> HIDE DEF S
<1> QED
  BY <1>2, SequenceOf

\* Several, one after the other.
LEMMA SequencesJoined ==
  ASSUME NEW ls, isSequence(ls), \A i \in DOMAIN ls : isSequence(ls[i])
  PROVE  isSequence(joined(ls)) /\ toSet(joined(ls)) = UNION {toSet(ls[i]) : i \in DOMAIN ls}
<1> DEFINE S == UNION {toSet(ls[i]) : i \in DOMAIN ls}
<1>1. Len(ls) \in Nat /\ DOMAIN ls = 1 .. Len(ls) /\ ls = [i \in 1 .. Len(ls) |-> ls[i]]
  BY IsSequence
<1>2. ASSUME NEW i \in DOMAIN ls PROVE ls[i] \in Seq(S)
  <2>1. ls[i] \in Seq(toSet(ls[i]))
    BY IsSequence
  <2>2. toSet(ls[i]) \in SUBSET S
    OBVIOUS
  <2>3. \A A, B : A \subseteq B => \A s \in Seq(A) : s \in Seq(B)
    OBVIOUS
  <2> HIDE DEF S
  <2> QED
    BY <2>1, <2>2, <2>3
<1> HIDE DEF S
<1>3. ls \in Seq(Seq(S))
  BY <1>1, <1>2
<1>4. joined(ls) \in Seq(S) /\ toSet(joined(ls)) = UNION {toSet(ls[i]) : i \in DOMAIN ls}
  BY <1>3, JoinedLists
<1> QED
  BY <1>4, SequenceOf

------------------------------------------------------------------------------
(* Findings. *)

\* Findings, each of a severity that is an impact.
Severe(s) == isSequence(s) /\ \A x \in toSet(s) : x.severity \in {"high", "medium", "low"}

LEMMA NothingSevere == Severe(<<>>) /\ toSet(<<>>) = {}
<1>1. <<>> \in Seq({})
  OBVIOUS
<1>2. isSequence(<<>>) /\ toSet(<<>>) \in SUBSET {}
  BY <1>1, SequenceOf
<1> QED
  BY <1>2 DEF Severe

LEMMA SevereJoined ==
  ASSUME NEW a, NEW b, Severe(a), Severe(b)
  PROVE  Severe(a \o b) /\ toSet(a \o b) = toSet(a) \cup toSet(b)
<1>1. isSequence(a \o b) /\ toSet(a \o b) = toSet(a) \cup toSet(b)
  BY SequenceJoined DEF Severe
<1> QED
  BY <1>1 DEF Severe

LEMMA SevereEach ==
  ASSUME NEW ls, isSequence(ls), \A i \in DOMAIN ls : Severe(ls[i])
  PROVE  Severe(joined(ls))
<1>1. isSequence(joined(ls)) /\ toSet(joined(ls)) = UNION {toSet(ls[i]) : i \in DOMAIN ls}
  BY SequencesJoined DEF Severe
<1> QED
  BY <1>1 DEF Severe

\* What a place is found to be.
LEMMA FindingOf ==
  \A kind, m, at, level :
    /\ findingOf(kind, m, at, level).kind = kind
    /\ findingOf(kind, m, at, level).at = at
    /\ findingOf(kind, m, at, level).severity = level
  BY DEF findingOf

\* One finding of a kind for each member of a sequence.
foundAt(kind, m, places, level) == {findingOf(kind, m, x.at, level) : x \in places}

Finds(fs, kind, m, bad, level) ==
  Mapped(fs, bad) /\ \A i \in DOMAIN bad : fs[i] = findingOf(kind, m, bad[i].at, level)

LEMMA FoundAt ==
  ASSUME NEW bad, isSequence(bad), NEW kind, NEW m, NEW level \in {"high", "medium", "low"},
         NEW fs, Finds(fs, kind, m, bad, level)
  PROVE  Severe(fs) /\ toSet(fs) = foundAt(kind, m, toSet(bad), level)
<1>2. toSet(fs) = foundAt(kind, m, toSet(bad), level)
  <2>1. \A i \in DOMAIN bad : bad[i] \in toSet(bad) /\ fs[i] = findingOf(kind, m, bad[i].at, level)
    BY DEF toSet, Mapped, Finds
  <2>2. \A y \in toSet(fs) : y \in foundAt(kind, m, toSet(bad), level)
    BY <2>1 DEF foundAt, toSet, Mapped, Finds
  <2>3. \A x \in toSet(bad) : findingOf(kind, m, x.at, level) \in toSet(fs)
    BY DEF toSet, Mapped, Finds
  <2> QED
    BY <2>2, <2>3 DEF foundAt
<1>3. isSequence(fs)
  BY SequenceMade DEF Finds
<1>4. \A x : findingOf(kind, m, x.at, level).severity = level
  BY FindingOf
<1> QED
  BY <1>2, <1>3, <1>4 DEF Severe, foundAt

\* One finding.
LEMMA OneFound ==
  ASSUME NEW f, f.severity \in {"high", "medium", "low"}
  PROVE  Severe(<<f>>) /\ toSet(<<f>>) = {f}
<1>1. <<f>> \in Seq({f}) /\ DOMAIN <<f>> = {1} /\ <<f>>[1] = f
  OBVIOUS
<1>2. isSequence(<<f>>)
  BY <1>1, SequenceOf
<1>3. toSet(<<f>>) = {f}
  BY <1>1 DEF toSet
<1> QED
  BY <1>2, <1>3 DEF Severe

\* A manifest: what it lists are lists.
Manifest(m) ==
  isSequence(m.routes) /\ isSequence(m.procedures) /\ isSequence(m.exports) /\ isSequence(m.schemas)

LEMMA GapsFound ==
  ASSUME NEW m, Manifest(m)
  PROVE  Severe(analyzeGaps(m))
<1>1. Severe(detectIncompleteCrud(m))
  <2> DEFINE routes == Subsequence(m.routes, {i \in DOMAIN m.routes :
                                                m.routes[i].method \in Mutating \cup {"GET"}})
             methods(r) == {s.method : s \in {t \in toSet(routes) : t.resource = r.resource}}
             lacks(r) == \/ ~{"GET", "POST", "DELETE"} \subseteq methods(r)
                         \/ {"PUT", "PATCH"} \cap methods(r) = {}
             I == {i \in DOMAIN routes : /\ \A j \in 1 .. i - 1 : routes[j].resource # routes[i].resource
                                         /\ Cardinality(methods(routes[i])) >= 2
                                         /\ {"GET", "POST"} \cap methods(routes[i]) # {}
                                         /\ lacks(routes[i])}
             bad == Subsequence(routes, I)
             fs == [i \in DOMAIN bad |-> findingOf("incomplete-crud", m, bad[i].at, "medium")]
  <2>1. detectIncompleteCrud(m) = fs
    BY DEF detectIncompleteCrud
  <2>2. isSequence(routes)
    <3>1. {i \in DOMAIN m.routes : m.routes[i].method \in Mutating \cup {"GET"}} \in SUBSET DOMAIN m.routes
      OBVIOUS
    <3> QED
      BY <3>1, SequenceMade DEF Manifest
  <2> HIDE DEF routes
  <2>3. I \in SUBSET DOMAIN routes
    OBVIOUS
  <2> HIDE DEF I
  <2>4. isSequence(bad)
    BY <2>2, <2>3, SequenceMade
  <2> HIDE DEF bad
  <2>5. Finds(fs, "incomplete-crud", m, bad, "medium")
    BY DEF Finds, Mapped
  <2> HIDE DEF fs
  <2> QED
    BY <2>1, <2>4, <2>5, FoundAt
<1>2. Severe(detectDeadExports(m))
  <2> DEFINE used == m.imported \cup {r.handler : r \in toSet(m.routes)}
                     \cup {p.name : p \in toSet(m.procedures)}
             I == {i \in DOMAIN m.exports : ~m.exports[i].isType /\ m.exports[i].name \notin used}
             bad == Subsequence(m.exports, I)
             fs == [i \in DOMAIN bad |-> findingOf("dead-export", m, bad[i].at, "low")]
  <2>1. detectDeadExports(m) = fs
    BY DEF detectDeadExports
  <2>2. I \in SUBSET DOMAIN m.exports
    OBVIOUS
  <2> HIDE DEF I
  <2>3. isSequence(bad)
    BY <2>2, SequenceMade DEF Manifest
  <2> HIDE DEF bad
  <2>5. Finds(fs, "dead-export", m, bad, "low")
    BY DEF Finds, Mapped
  <2> HIDE DEF fs
  <2> QED
    BY <2>1, <2>3, <2>5, FoundAt
<1>3. Severe(detectOrphanedSchemas(m))
  <2> DEFINE referenced == UNION {{x.input, x.output} : x \in toSet(m.routes) \cup toSet(m.procedures)}
             I == {i \in DOMAIN m.schemas : m.schemas[i].name \notin referenced}
             bad == Subsequence(m.schemas, I)
             fs == [i \in DOMAIN bad |-> findingOf("orphaned-schema", m, bad[i].at, "low")]
  <2>1. detectOrphanedSchemas(m) = fs
    BY DEF detectOrphanedSchemas
  <2>2. I \in SUBSET DOMAIN m.schemas
    OBVIOUS
  <2> HIDE DEF I
  <2>3. isSequence(bad)
    BY <2>2, SequenceMade DEF Manifest
  <2> HIDE DEF bad
  <2>5. Finds(fs, "orphaned-schema", m, bad, "low")
    BY DEF Finds, Mapped
  <2> HIDE DEF fs
  <2> QED
    BY <2>1, <2>3, <2>5, FoundAt
<1>4. Severe(detectIncompleteCrud(m) \o detectDeadExports(m) \o detectOrphanedSchemas(m))
  BY <1>1, <1>2, <1>3, SevereJoined
<1> QED
  BY <1>4, NothingSevere DEF analyzeGaps

\* The four finders of bottlenecks, each with a kind of its own.
LEMMA PaginationFound ==
  ASSUME NEW m, Manifest(m)
  PROVE  /\ Severe(detectMissingPagination(m))
         /\ toSet(detectMissingPagination(m)) =
              foundAt("missing-pagination", m,
                      {r \in toSet(m.routes) : isListRoute(r) /\ ~r.paged}
                      \cup {p \in toSet(m.procedures) : isListProcedure(p) /\ ~p.paged}, "high")
         /\ isSequence(unpaged(m.procedures))
<1> DEFINE I == {i \in DOMAIN m.routes : isListRoute(m.routes[i]) /\ ~m.routes[i].paged}
           J == {i \in DOMAIN m.procedures : isListProcedure(m.procedures[i]) /\ ~m.procedures[i].paged}
           bad == Subsequence(m.routes, I) \o unpaged(m.procedures)
           fs == [i \in DOMAIN bad |-> findingOf("missing-pagination", m, bad[i].at, "high")]
<1>1. detectMissingPagination(m) = fs
  BY DEF detectMissingPagination
<1>2. isSequence(Subsequence(m.routes, I)) /\ toSet(Subsequence(m.routes, I)) = {m.routes[i] : i \in I}
  <2>1. I \in SUBSET DOMAIN m.routes
    OBVIOUS
  <2> QED
    BY <2>1, SequenceMade DEF Manifest
<1>3. isSequence(unpaged(m.procedures)) /\ toSet(unpaged(m.procedures)) = {m.procedures[i] : i \in J}
  <2>1. J \in SUBSET DOMAIN m.procedures
    OBVIOUS
  <2>2. unpaged(m.procedures) = Subsequence(m.procedures, J)
    BY DEF unpaged
  <2> HIDE DEF J
  <2> QED
    BY <2>1, <2>2, SequenceMade DEF Manifest
<1>4. isSequence(bad) /\ toSet(bad) = {m.routes[i] : i \in I} \cup {m.procedures[i] : i \in J}
  <2> HIDE DEF I, J
  <2> QED
    BY <1>2, <1>3, SequenceJoined
<1>5. {m.routes[i] : i \in I} = {r \in toSet(m.routes) : isListRoute(r) /\ ~r.paged}
  BY DEF toSet
<1>6. {m.procedures[i] : i \in J} = {p \in toSet(m.procedures) : isListProcedure(p) /\ ~p.paged}
  BY DEF toSet
<1> HIDE DEF bad, I, J
<1>7. Severe(detectMissingPagination(m))
      /\ toSet(detectMissingPagination(m)) =
           foundAt("missing-pagination", m, toSet(bad), "high")
  <2>1. Finds(fs, "missing-pagination", m, bad, "high")
    BY DEF Finds, Mapped
  <2> HIDE DEF fs
  <2> QED
    BY <1>1, <1>4, <2>1, FoundAt
<1> QED
  BY <1>3, <1>4, <1>5, <1>6, <1>7

LEMMA CachingFound ==
  ASSUME NEW m, Manifest(m)
  PROVE  Severe(detectNoCaching(m)) /\ \A x \in toSet(detectNoCaching(m)) : x.kind = "no-caching"
<1> DEFINE reads == Subsequence(m.routes, {i \in DOMAIN m.routes : m.routes[i].method = "GET"})
           group(i) == {j \in DOMAIN reads : reads[j].base = reads[i].base}
           I == {i \in DOMAIN reads : Cardinality(group(i)) >= 2 /\ \A j \in group(i) : i <= j}
           bad == Subsequence(reads, I)
           fs == [i \in DOMAIN bad |-> findingOf("no-caching", m, bad[i].at, "medium")]
<1>1. detectNoCaching(m) = IF "redis" \in m.packages THEN <<>> ELSE fs
  BY DEF detectNoCaching
<1>2. isSequence(reads)
  <2>1. {i \in DOMAIN m.routes : m.routes[i].method = "GET"} \in SUBSET DOMAIN m.routes
    OBVIOUS
  <2> QED
    BY <2>1, SequenceMade DEF Manifest
<1> HIDE DEF reads
<1>3. I \in SUBSET DOMAIN reads
  OBVIOUS
<1> HIDE DEF I
<1>4. isSequence(bad)
  BY <1>2, <1>3, SequenceMade
<1> HIDE DEF bad
<1>7. Finds(fs, "no-caching", m, bad, "medium")
  BY DEF Finds, Mapped
<1> HIDE DEF fs
<1>5. Severe(fs) /\ toSet(fs) = foundAt("no-caching", m, toSet(bad), "medium")
  BY <1>4, <1>7, FoundAt
<1>6. \A x \in toSet(fs) : x.kind = "no-caching"
  BY <1>5, FindingOf DEF foundAt
<1> QED
  BY <1>1, <1>5, <1>6, NothingSevere

\* What changes something is listed.
LEMMA Changing ==
  ASSUME NEW m, Manifest(m)
  PROVE  isSequence(mutatingRoutes(m)) /\ isSequence(mutations(m))
<1>1. {i \in DOMAIN m.routes : m.routes[i].method \in Mutating} \in SUBSET DOMAIN m.routes
      /\ {i \in DOMAIN m.procedures : m.procedures[i].kind = "mutation"} \in SUBSET DOMAIN m.procedures
  OBVIOUS
<1> QED
  BY <1>1, SequenceMade DEF Manifest, mutatingRoutes, mutations

LEMMA LimitsFound ==
  ASSUME NEW m, Manifest(m)
  PROVE  /\ Severe(detectMissingRateLimiting(m))
         /\ \A x \in toSet(detectMissingRateLimiting(m)) : x.kind = "no-rate-limiting"
         /\ toSet(detectMissingRateLimiting(m)) = {} <=>
              FinderLimiters \cap m.packages # {} \/ mutatingRoutes(m) \o mutations(m) = <<>>
<1> DEFINE f == findingOf("no-rate-limiting", m, Head(mutatingRoutes(m) \o mutations(m)).at, "high")
<1>1. detectMissingRateLimiting(m) =
        IF FinderLimiters \cap m.packages # {} \/ mutatingRoutes(m) \o mutations(m) = <<>>
        THEN <<>> ELSE <<f>>
  BY DEF detectMissingRateLimiting
<1>2. f.kind = "no-rate-limiting" /\ f.severity = "high"
  BY FindingOf
<1> HIDE DEF f
<1> QED
  BY <1>1, <1>2, OneFound, NothingSevere

LEMMA QueueFound ==
  ASSUME NEW m
  PROVE  Severe(detectNoQueue(m)) /\ \A x \in toSet(detectNoQueue(m)) : x.kind = "no-queue"
<1> DEFINE f == findingOf("no-queue", m, Head(m.procedures).at, "medium")
<1>1. detectNoQueue(m) = <<>> \/ detectNoQueue(m) = <<f>>
  BY DEF detectNoQueue
<1>2. f.kind = "no-queue" /\ f.severity = "medium"
  BY FindingOf
<1> HIDE DEF f
<1> QED
  BY <1>1, <1>2, OneFound, NothingSevere

LEMMA BottlenecksFound ==
  ASSUME NEW m, Manifest(m)
  PROVE  /\ Severe(findBottlenecks(m))
         /\ isServer(m) => toSet(findBottlenecks(m)) =
              toSet(detectMissingPagination(m)) \cup toSet(detectNoCaching(m))
              \cup toSet(detectMissingRateLimiting(m)) \cup toSet(detectNoQueue(m))
         /\ ~isServer(m) => toSet(findBottlenecks(m)) = {}
<1> DEFINE a == detectMissingPagination(m)
           b == detectNoCaching(m)
           c == detectMissingRateLimiting(m)
           d == detectNoQueue(m)
<1>1. Severe(a) /\ Severe(b) /\ Severe(c) /\ Severe(d)
  BY PaginationFound, CachingFound, LimitsFound, QueueFound
<1>2. findBottlenecks(m) = IF isServer(m) THEN a \o b \o c \o d ELSE <<>>
  BY DEF findBottlenecks
<1> HIDE DEF a, b, c, d
<1>3. Severe(a \o b) /\ toSet(a \o b) = toSet(a) \cup toSet(b)
  BY <1>1, SevereJoined
<1>4. Severe(a \o b \o c) /\ toSet(a \o b \o c) = toSet(a \o b) \cup toSet(c)
  BY <1>1, <1>3, SevereJoined
<1>5. Severe(a \o b \o c \o d) /\ toSet(a \o b \o c \o d) = toSet(a \o b \o c) \cup toSet(d)
  BY <1>1, <1>4, SevereJoined
<1> QED
  BY <1>2, <1>3, <1>4, <1>5, NothingSevere DEF a, b, c, d

LEMMA Somewhere ==
  ASSUME NEW places, isSequence(places)
  PROVE  isSequence(somewhere(places))
<1>1. {i \in DOMAIN places : places[i].at # Nowhere} \in SUBSET DOMAIN places
  OBVIOUS
<1> QED
  BY <1>1, SequenceMade DEF somewhere

\* The first, if there is one.
LEMMA FirstMember ==
  ASSUME NEW s, isSequence(s)
  PROVE  isSequence(Subsequence(s, {1} \cap DOMAIN s))
<1>1. {1} \cap DOMAIN s \in SUBSET DOMAIN s
  OBVIOUS
<1> QED
  BY <1>1, SequenceMade

LEMMA AffectedPlaces ==
  ASSUME NEW m, Manifest(m), NEW practice
  PROVE  isSequence(findAffectedLocations(m, practice))
<1> DEFINE files == somewhere(firstPerFile(m.routes))
           I == {i \in DOMAIN m.routes : \A j \in 1 .. i - 1 : m.routes[j].file # m.routes[i].file}
           earliest == Subsequence(files, {1} \cap DOMAIN files)
<1>1. isSequence(files)
  <2>1. firstPerFile(m.routes) = Subsequence(m.routes, I) /\ I \in SUBSET DOMAIN m.routes
    BY DEF firstPerFile
  <2> HIDE DEF I
  <2> QED
    BY <2>1, SequenceMade, Somewhere DEF Manifest
<1>2. isSequence(mutations(m)) /\ isSequence(mutatingRoutes(m)) /\ isSequence(unpaged(m.procedures))
  BY Changing, PaginationFound
<1>3. isSequence(somewhere(mutations(m))) /\ isSequence(somewhere(unpaged(m.procedures)))
      /\ isSequence(somewhere(mutations(m) \o mutatingRoutes(m)))
  BY <1>2, SequenceJoined, Somewhere
<1>4. isSequence(earliest) /\ isSequence(<<>>)
  <2> HIDE DEF files
  <2> QED
    BY <1>1, FirstMember, NothingSevere DEF Severe
<1>5. findAffectedLocations(m, practice) \in
        {somewhere(mutations(m)), somewhere(mutations(m) \o mutatingRoutes(m)),
         somewhere(unpaged(m.procedures)), files, earliest, <<>>}
  BY DEF findAffectedLocations
<1> HIDE DEF earliest, files
<1> QED
  BY <1>1, <1>3, <1>4, <1>5

LEMMA PracticesFound ==
  ASSUME NEW m, Manifest(m), NEW results, isSequence(results)
  PROVE  Severe(benchmarkToBottleneckFindings(results, m))
<1> DEFINE kind(r) == CASE r.category = "security" -> "unbounded-query"
                        [] r.category = "performance" -> "missing-pagination"
                        [] r.category = "reliability" -> "sync-in-async"
                        [] OTHER -> "no-caching"
           of(r, at) == [findingOf(kind(r), m, at, IF r.status = "missing" THEN "high" ELSE "medium")
                         EXCEPT !.practice = r.practice]
           all == m.procedures \o m.routes
           fallback == somewhere(Subsequence(all, {1} \cap DOMAIN all))
           places(r) == LET there == findAffectedLocations(m, r.practice)
                        IN IF there = <<>> THEN fallback ELSE there
           found(r) == [i \in DOMAIN places(r) |-> of(r, places(r)[i].at)]
           lacking == Subsequence(results, {k \in DOMAIN results : results[k].status # "present"})
           lists == [i \in DOMAIN lacking |-> found(lacking[i])]
<1>1. benchmarkToBottleneckFindings(results, m) = joined(lists)
  BY DEF benchmarkToBottleneckFindings
<1>2. isSequence(lacking)
  <2>1. {k \in DOMAIN results : results[k].status # "present"} \in SUBSET DOMAIN results
    OBVIOUS
  <2> QED
    BY <2>1, SequenceMade
<1>3. isSequence(fallback)
  <2>1. isSequence(all)
    BY SequenceJoined DEF Manifest
  <2> HIDE DEF all
  <2> QED
    BY <2>1, FirstMember, Somewhere
<1> HIDE DEF fallback, lacking
<1>4. ASSUME NEW r PROVE isSequence(places(r))
  BY <1>3, AffectedPlaces
<1>5. ASSUME NEW r, NEW at PROVE of(r, at).severity \in {"high", "medium", "low"}
  BY DEF findingOf
<1> HIDE DEF of, places
<1>6. ASSUME NEW r PROVE Severe(found(r))
  <2>1. Mapped(found(r), places(r)) /\ \A i \in DOMAIN found(r) : found(r)[i] = of(r, places(r)[i].at)
    BY DEF Mapped
  <2> HIDE DEF found
  <2>2. isSequence(found(r))
    BY <1>4, <2>1, SequenceMade
  <2>3. \A x \in toSet(found(r)) : x.severity \in {"high", "medium", "low"}
    BY <1>5, <2>1 DEF toSet
  <2> QED
    BY <2>2, <2>3 DEF Severe
<1> HIDE DEF found
<1>7. Mapped(lists, lacking) /\ \A i \in DOMAIN lists : lists[i] = found(lacking[i])
  BY DEF Mapped
<1> HIDE DEF lists
<1>8. isSequence(lists)
  BY <1>2, <1>7, SequenceMade
<1> QED
  BY <1>1, <1>6, <1>7, <1>8, SevereEach

(* Practices. *)

\* What the results of a benchmark say of a practice.
said(results, practice) ==
  {results[k].status : k \in {l \in DOMAIN results : results[l].practice = practice}}

\* The benchmark's results for pagination and for limiters, and when there are any.
LEMMA Benchmarked ==
  ASSUME NEW m
  PROVE  /\ isSequence(benchmarkAgainstBestPractices(m))
         /\ said(benchmarkAgainstBestPractices(m), "pagination") =
              IF isServer(m) /\ m.routes # <<>> THEN {checkPagination(m)} \ {"none"} ELSE {}
         /\ said(benchmarkAgainstBestPractices(m), "rate limiting") =
              IF isServer(m) /\ m.routes # <<>> THEN {checkRateLimiting(m)} \ {"none"} ELSE {}
<1> DEFINE result(practice, area, status) ==
             [practice |-> practice, category |-> area, status |-> status]
           r1 == result("rate limiting", "security", checkRateLimiting(m))
           r2 == result("CORS", "security", checkCors(m))
           r3 == result("security headers", "security", checkSecurityHeaders(m))
           r4 == result("error handling", "reliability", checkErrorHandlingMiddleware(m))
           r5 == result("request validation", "security", checkRequestValidation(m))
           r6 == result("structured logging", "observability", checkLogging(m))
           r7 == result("health endpoint", "reliability", checkHealthEndpoint(m))
           r8 == result("pagination", "performance", checkPagination(m))
           r9 == result("API versioning", "maintainability", checkApiVersioning(m))
           r10 == result("tRPC validation", "security", checkTrpcValidation(m))
           all == <<r1, r2, r3, r4, r5, r6, r7, r8, r9, r10>>
           asked(r) == isServer(m) /\ (m.routes # <<>> \/ r.practice = "tRPC validation")
           I == {k \in DOMAIN all : asked(all[k]) /\ all[k].status # "none"}
           results == Subsequence(all, I)
<1>1. benchmarkAgainstBestPractices(m) = results
  BY DEF benchmarkAgainstBestPractices
<1>2. /\ r1.practice = "rate limiting" /\ r1.status = checkRateLimiting(m)
      /\ r8.practice = "pagination" /\ r8.status = checkPagination(m)
      /\ r2.practice = "CORS" /\ r3.practice = "security headers" /\ r4.practice = "error handling"
      /\ r5.practice = "request validation" /\ r6.practice = "structured logging"
      /\ r7.practice = "health endpoint" /\ r9.practice = "API versioning"
      /\ r10.practice = "tRPC validation"
  OBVIOUS
<1> HIDE DEF r1, r2, r3, r4, r5, r6, r7, r8, r9, r10
<1>3. /\ isSequence(all) /\ DOMAIN all = 1 .. 10
      /\ all[1] = r1 /\ all[2] = r2 /\ all[3] = r3 /\ all[4] = r4 /\ all[5] = r5
      /\ all[6] = r6 /\ all[7] = r7 /\ all[8] = r8 /\ all[9] = r9 /\ all[10] = r10
  <2>1. all \in Seq({r1, r2, r3, r4, r5, r6, r7, r8, r9, r10})
    OBVIOUS
  <2>2. isSequence(all)
    <3> HIDE DEF all
    <3> QED
      BY <2>1, SequenceOf
  <2> QED
    BY <2>2
<1> HIDE DEF all
<1>4. I \in SUBSET DOMAIN all
  OBVIOUS
<1>5. isSequence(results) /\ toSet(results) = {all[k] : k \in I}
  <2> HIDE DEF I
  <2> QED
    BY <1>3, <1>4, SequenceMade
<1>6. \A k \in 1 .. 10 : /\ all[k].practice = "pagination" => k = 8
                         /\ all[k].practice = "rate limiting" => k = 1
  <2>1. \A k \in 1 .. 10 : k \in {1, 2, 3, 4, 5, 6, 7, 8, 9, 10}
    OBVIOUS
  <2> QED
    BY <1>2, <1>3, <2>1
<1> HIDE DEF results
<1>7. ASSUME NEW practice PROVE said(results, practice) = {all[k].status : k \in {l \in I : all[l].practice = practice}}
  <2>1. ASSUME NEW s \in said(results, practice) PROVE s \in {all[k].status : k \in {l \in I : all[l].practice = practice}}
    <3>1. PICK k \in DOMAIN results : results[k].practice = practice /\ s = results[k].status
      BY <2>1 DEF said
    <3>2. PICK l \in I : results[k] = all[l]
      BY <1>5 DEF toSet
    <3> QED
      BY <3>1, <3>2
  <2>2. ASSUME NEW l \in I, all[l].practice = practice PROVE all[l].status \in said(results, practice)
    <3>1. PICK k \in DOMAIN results : results[k] = all[l]
      BY <1>5 DEF toSet
    <3> QED
      BY <2>2, <3>1 DEF said
  <2> QED
    BY <2>1, <2>2
<1>8. said(results, "pagination") = IF isServer(m) /\ m.routes # <<>> THEN {checkPagination(m)} \ {"none"} ELSE {}
  <2>1. \A l \in I : all[l].practice = "pagination" => l = 8
    BY <1>3, <1>4, <1>6
  <2>2. 8 \in I <=> isServer(m) /\ m.routes # <<>> /\ checkPagination(m) # "none"
    <3>1. 8 \in DOMAIN all /\ all[8] = r8
      BY <1>3
    <3>2. r8.practice # "tRPC validation"
      <4>1. r8.practice = "pagination"
        BY <1>2
      <4> QED
        BY <4>1
    <3> QED
      BY <1>2, <3>1, <3>2
  <2>3. all[8].practice = "pagination" /\ all[8].status = checkPagination(m)
    BY <1>2, <1>3
  <2>4. said(results, "pagination") = {all[k].status : k \in {l \in I : all[l].practice = "pagination"}}
    BY <1>7
  <2> HIDE DEF I
  <2> QED
    BY <2>1, <2>2, <2>3, <2>4
<1>9. said(results, "rate limiting") = IF isServer(m) /\ m.routes # <<>> THEN {checkRateLimiting(m)} \ {"none"} ELSE {}
  <2>1. \A l \in I : all[l].practice = "rate limiting" => l = 1
    BY <1>3, <1>4, <1>6
  <2>2. 1 \in I <=> isServer(m) /\ m.routes # <<>> /\ checkRateLimiting(m) # "none"
    <3>1. 1 \in DOMAIN all /\ all[1] = r1
      BY <1>3
    <3>2. r1.practice # "tRPC validation"
      <4>1. r1.practice = "rate limiting"
        BY <1>2
      <4> QED
        BY <4>1
    <3> QED
      BY <1>2, <3>1, <3>2
  <2>3. all[1].practice = "rate limiting" /\ all[1].status = checkRateLimiting(m)
    BY <1>2, <1>3
  <2>4. said(results, "rate limiting") = {all[k].status : k \in {l \in I : all[l].practice = "rate limiting"}}
    BY <1>7
  <2> HIDE DEF I
  <2> QED
    BY <2>1, <2>2, <2>3, <2>4
<1> QED
  BY <1>1, <1>5, <1>8, <1>9

\* All of it is some of it only if nothing is missing.
LEMMA PaginationChecked ==
  ASSUME NEW m, Manifest(m)
  PROVE  /\ checkPagination(m) = "present" => \A r \in toSet(m.routes) : isListRoute(r) => r.paged
         /\ checkPagination(m) \in {"partial", "missing"} =>
              \E r \in toSet(m.routes) : isListRoute(r) /\ ~r.paged
<1> DEFINE lists == {i \in DOMAIN m.routes : isListRoute(m.routes[i])}
           paged == {i \in lists : m.routes[i].paged}
<1>1. checkPagination(m) = IF lists = {} THEN "none" ELSE ifAll(Cardinality(paged), Cardinality(lists))
  BY DEF checkPagination
<1>2. IsFiniteSet(lists)
  <2>1. Len(m.routes) \in Nat /\ DOMAIN m.routes = 1 .. Len(m.routes)
    BY IsSequence DEF Manifest
  <2>2. lists \in SUBSET (1 .. Len(m.routes))
    BY <2>1
  <2> HIDE DEF lists
  <2>3. IsFiniteSet(1 .. Len(m.routes))
    <3>1. 1 \in Int /\ Len(m.routes) \in Int
      BY <2>1
    <3> QED
      BY <3>1, FS_Interval
  <2> QED
    BY <2>2, <2>3, FS_Subset
<1>3. paged \in SUBSET lists
  OBVIOUS
<1>4. \A i \in DOMAIN m.routes : i \in lists <=> isListRoute(m.routes[i])
  OBVIOUS
<1>5. \A i \in lists : i \in DOMAIN m.routes /\ (i \in paged <=> m.routes[i].paged)
  OBVIOUS
<1> HIDE DEF lists, paged
<1>6. Cardinality(lists) \in Nat /\ Cardinality(paged) \in Nat
      /\ (Cardinality(paged) = Cardinality(lists) => paged = lists)
  <2>1. IsFiniteSet(paged)
    BY <1>2, <1>3, FS_Subset
  <2> QED
    BY <1>2, <1>3, <2>1, FS_Subset, FS_CardinalityType
<1>7. ifAll(Cardinality(paged), Cardinality(lists)) =
        IF Cardinality(paged) = Cardinality(lists) THEN "present"
        ELSE IF Cardinality(paged) > 0 THEN "partial" ELSE "missing"
  BY <1>6 DEF ifAll
<1>8. ASSUME checkPagination(m) = "present", NEW r \in toSet(m.routes), isListRoute(r) PROVE r.paged
  <2>1. PICK i \in DOMAIN m.routes : r = m.routes[i]
    BY DEF toSet
  <2>2. i \in lists
    BY <1>4, <1>8, <2>1
  <2>3. Cardinality(paged) = Cardinality(lists)
    <3>1. ifAll(Cardinality(paged), Cardinality(lists)) = "present"
      BY <1>1, <1>8, <2>2
    <3> QED
      BY <1>7, <3>1
  <2> QED
    BY <1>5, <1>6, <2>1, <2>2, <2>3
<1>9. ASSUME checkPagination(m) \in {"partial", "missing"}
      PROVE  \E r \in toSet(m.routes) : isListRoute(r) /\ ~r.paged
  <2>1. lists # {} /\ ifAll(Cardinality(paged), Cardinality(lists)) \in {"partial", "missing"}
    BY <1>1, <1>9
  <2>2. paged # lists
    BY <1>7, <2>1
  <2>3. PICK i \in lists : i \notin paged
    BY <1>3, <2>2
  <2>4. i \in DOMAIN m.routes /\ m.routes[i] \in toSet(m.routes)
    BY <1>5, <2>3 DEF toSet
  <2> QED
    BY <1>4, <1>5, <2>3, <2>4
<1> QED
  BY <1>8, <1>9

\* Where a sequence of findings has those of a kind.
placesOf(fs, kind) == {fs[k].at : k \in {l \in DOMAIN fs : fs[l].kind = kind}}

LEMMA PlacesOf ==
  ASSUME NEW fs, NEW kind
  PROVE  /\ placesOf(fs, kind) = {} <=> \A x \in toSet(fs) : x.kind # kind
         /\ (\E x \in toSet(fs) : x.kind = kind) => placesOf(fs, kind) # {}
  BY DEF placesOf, toSet

\* The finder and the benchmark agree on one manifest.
LEMMA Agreed ==
  ASSUME NEW m, Manifest(m)
  PROVE  /\ "present" \in said(benchmarkAgainstBestPractices(m), "pagination") /\ m.procedures = <<>> =>
              placesOf(findBottlenecks(m), "missing-pagination") = {}
         /\ said(benchmarkAgainstBestPractices(m), "pagination") \cap {"missing", "partial"} # {} =>
              placesOf(findBottlenecks(m), "missing-pagination") # {}
         /\ (FinderLimiters \cup BenchmarkLimiters) \cap m.packages
               \subseteq FinderLimiters \cap BenchmarkLimiters =>
              /\ placesOf(findBottlenecks(m), "no-rate-limiting") # {} /\ m.routes # <<>> =>
                   "missing" \in said(benchmarkAgainstBestPractices(m), "rate limiting")
              /\ "missing" \in said(benchmarkAgainstBestPractices(m), "rate limiting") =>
                   \/ placesOf(findBottlenecks(m), "no-rate-limiting") # {}
                   \/ mutatingRoutes(m) \o mutations(m) = <<>>
<1> DEFINE bottlenecks == findBottlenecks(m)
           results == benchmarkAgainstBestPractices(m)
           bad == {r \in toSet(m.routes) : isListRoute(r) /\ ~r.paged}
                  \cup {p \in toSet(m.procedures) : isListProcedure(p) /\ ~p.paged}
<1>1. isServer(m) => toSet(bottlenecks) =
              toSet(detectMissingPagination(m)) \cup toSet(detectNoCaching(m))
              \cup toSet(detectMissingRateLimiting(m)) \cup toSet(detectNoQueue(m))
  BY BottlenecksFound
<1>2. ~isServer(m) => toSet(bottlenecks) = {}
  BY BottlenecksFound
<1>3. toSet(detectMissingPagination(m)) = foundAt("missing-pagination", m, bad, "high")
  BY PaginationFound
<1>4. \A x \in toSet(detectNoCaching(m)) : x.kind = "no-caching"
  BY CachingFound
<1>5. \A x \in toSet(detectMissingRateLimiting(m)) : x.kind = "no-rate-limiting"
  BY LimitsFound
<1>6. \A x \in toSet(detectNoQueue(m)) : x.kind = "no-queue"
  BY QueueFound
<1>7. said(results, "pagination") =
        IF isServer(m) /\ m.routes # <<>> THEN {checkPagination(m)} \ {"none"} ELSE {}
  BY Benchmarked
<1>8. said(results, "rate limiting") =
        IF isServer(m) /\ m.routes # <<>> THEN {checkRateLimiting(m)} \ {"none"} ELSE {}
  BY Benchmarked
<1>9. \A x \in foundAt("missing-pagination", m, bad, "high") : x.kind = "missing-pagination"
  BY FindingOf DEF foundAt
<1>10. bad # {} => foundAt("missing-pagination", m, bad, "high") # {}
  BY DEF foundAt
<1>11. bad = {} => foundAt("missing-pagination", m, bad, "high") = {}
  BY DEF foundAt
<1>12. m.procedures = <<>> => bad = {r \in toSet(m.routes) : isListRoute(r) /\ ~r.paged}
  BY NothingSevere
<1>13. \A r \in toSet(m.routes) : isListRoute(r) /\ ~r.paged => r \in bad
  OBVIOUS
<1>14. m.procedures = <<>> /\ bad # {} => \E r \in toSet(m.routes) : isListRoute(r) /\ ~r.paged
  BY <1>12
<1>15. toSet(detectMissingRateLimiting(m)) = {} <=>
              FinderLimiters \cap m.packages # {} \/ mutatingRoutes(m) \o mutations(m) = <<>>
  BY LimitsFound
<1>16. checkRateLimiting(m) = IF BenchmarkLimiters \cap m.packages # {} THEN "present" ELSE "missing"
  BY DEF checkRateLimiting, ifSo
<1> HIDE DEF bottlenecks, results, bad
<1>17. ASSUME "present" \in said(results, "pagination"), m.procedures = <<>>
       PROVE  placesOf(bottlenecks, "missing-pagination") = {}
  <2>1. isServer(m) /\ checkPagination(m) = "present"
    BY <1>7, <1>17
  <2>2. bad = {}
    BY <1>14, <1>17, <2>1, PaginationChecked
  <2>3. \A x \in toSet(bottlenecks) : x.kind # "missing-pagination"
    <3>1. \A x \in toSet(bottlenecks) : x.kind \in {"no-caching", "no-rate-limiting", "no-queue"}
      BY <1>1, <1>3, <1>4, <1>5, <1>6, <1>11, <2>1, <2>2
    <3> QED
      BY <3>1
  <2> QED
    BY <2>3, PlacesOf
<1>18. ASSUME said(results, "pagination") \cap {"missing", "partial"} # {}
       PROVE  placesOf(bottlenecks, "missing-pagination") # {}
  <2>1. isServer(m) /\ checkPagination(m) \in {"missing", "partial"}
    BY <1>7, <1>18
  <2>2. bad # {}
    BY <1>13, <2>1, PaginationChecked
  <2>3. \E x \in toSet(bottlenecks) : x.kind = "missing-pagination"
    BY <1>1, <1>3, <1>9, <1>10, <2>1, <2>2
  <2> QED
    BY <2>3, PlacesOf
<1>19. ASSUME (FinderLimiters \cup BenchmarkLimiters) \cap m.packages
                \subseteq FinderLimiters \cap BenchmarkLimiters
       PROVE  /\ placesOf(bottlenecks, "no-rate-limiting") # {} /\ m.routes # <<>> =>
                   "missing" \in said(results, "rate limiting")
              /\ "missing" \in said(results, "rate limiting") =>
                   \/ placesOf(bottlenecks, "no-rate-limiting") # {}
                   \/ mutatingRoutes(m) \o mutations(m) = <<>>
  <2>1. FinderLimiters \cap m.packages = {} <=> BenchmarkLimiters \cap m.packages = {}
    BY <1>19
  <2>2. ASSUME placesOf(bottlenecks, "no-rate-limiting") # {}, m.routes # <<>>
        PROVE  "missing" \in said(results, "rate limiting")
    <3>1. PICK x \in toSet(bottlenecks) : x.kind = "no-rate-limiting"
      BY <2>2, PlacesOf
    <3>2. isServer(m)
      BY <1>2, <3>1
    <3>3. x \in toSet(detectMissingRateLimiting(m))
      <4>1. \A y \in toSet(bottlenecks) \ toSet(detectMissingRateLimiting(m)) :
              y.kind \in {"missing-pagination", "no-caching", "no-queue"}
        BY <1>1, <1>3, <1>4, <1>6, <1>9, <3>2
      <4>2. x.kind \notin {"missing-pagination", "no-caching", "no-queue"}
        BY <3>1
      <4> QED
        BY <4>1, <4>2
    <3>4. BenchmarkLimiters \cap m.packages = {}
      BY <1>15, <2>1, <3>3
    <3>5. checkRateLimiting(m) = "missing"
      BY <1>16, <3>4
    <3> QED
      BY <1>8, <2>2, <3>2, <3>5
  <2>3. ASSUME "missing" \in said(results, "rate limiting"), mutatingRoutes(m) \o mutations(m) # <<>>
        PROVE  placesOf(bottlenecks, "no-rate-limiting") # {}
    <3>1. isServer(m) /\ checkRateLimiting(m) = "missing"
      BY <1>8, <2>3
    <3>2. toSet(detectMissingRateLimiting(m)) # {}
      <4>1. BenchmarkLimiters \cap m.packages = {}
        BY <1>16, <3>1
      <4> QED
        BY <1>15, <2>1, <2>3, <4>1
    <3>3. \E x \in toSet(bottlenecks) : x.kind = "no-rate-limiting"
      BY <1>1, <1>5, <3>1, <3>2
    <3> QED
      BY <3>3, PlacesOf
  <2> QED
    BY <2>2, <2>3
<1> QED
  BY <1>17, <1>18, <1>19 DEF bottlenecks, results

\* Everything that is found has a severity.
LEMMA AllSevere ==
  ASSUME NEW e \in Evolving
  PROVE  /\ Severe(findings(e.repos))
         /\ \A i \in DOMAIN e.repos : Manifest(e.repos[i])
<1> DEFINE repos == e.repos
           gaps == [i \in DOMAIN repos |-> analyzeGaps(repos[i])]
           bottlenecks == [i \in DOMAIN repos |-> findBottlenecks(repos[i])]
           practices == [i \in DOMAIN repos |->
                           benchmarkToBottleneckFindings(benchmarkAgainstBestPractices(repos[i]), repos[i])]
<1>1. isSequence(repos) /\ \A i \in DOMAIN repos : Manifest(repos[i])
  BY EvolvingType DEF Manifest
<1>2. findings(repos) = joined(gaps) \o joined(bottlenecks) \o joined(practices)
  BY DEF findings
<1>3. Mapped(gaps, repos) /\ \A i \in DOMAIN gaps : i \in DOMAIN repos /\ gaps[i] = analyzeGaps(repos[i])
  BY DEF Mapped
<1>4. Mapped(bottlenecks, repos)
      /\ \A i \in DOMAIN bottlenecks : i \in DOMAIN repos /\ bottlenecks[i] = findBottlenecks(repos[i])
  BY DEF Mapped
<1>5. Mapped(practices, repos)
      /\ \A i \in DOMAIN practices : /\ i \in DOMAIN repos
           /\ practices[i] = benchmarkToBottleneckFindings(benchmarkAgainstBestPractices(repos[i]), repos[i])
  BY DEF Mapped
<1> HIDE DEF gaps, bottlenecks, practices
<1>6. Severe(joined(gaps))
  <2>1. isSequence(gaps) /\ \A i \in DOMAIN gaps : Severe(gaps[i])
    BY <1>1, <1>3, SequenceMade, GapsFound
  <2> QED
    BY <2>1, SevereEach
<1>7. Severe(joined(bottlenecks))
  <2>1. isSequence(bottlenecks) /\ \A i \in DOMAIN bottlenecks : Severe(bottlenecks[i])
    BY <1>1, <1>4, SequenceMade, BottlenecksFound
  <2> QED
    BY <2>1, SevereEach
<1>8. Severe(joined(practices))
  <2>1. isSequence(practices) /\ \A i \in DOMAIN practices : Severe(practices[i])
    BY <1>1, <1>5, SequenceMade, PracticesFound, Benchmarked
  <2> QED
    BY <2>1, SevereEach
<1> QED
  BY <1>1, <1>2, <1>6, <1>7, <1>8, SevereJoined

------------------------------------------------------------------------------
(* Suggestions. *)

Parts(x) == [id |-> x.id, category |-> x.category, title |-> x.title, impact |-> x.impact,
              effort |-> x.effort, repos |-> x.repos, evidence |-> x.evidence]

\* A suggestion whose evidence lies in the repositories it is about.
IsSuggestion(x) ==
  /\ x = Parts(x)
  /\ x.impact \in {"high", "medium", "low"} /\ x.effort \in {"small", "medium"}
  /\ \A e \in x.evidence : e.repo \in x.repos

LEMMA RankType ==
  ASSUME NEW x, IsSuggestion(x)
  PROVE  rank(x) \in Int
<1>1. IMPACT_ORDER[x.impact] \in {1, 2, 3}
  BY DEF IsSuggestion, IMPACT_ORDER
<1>2. EFFORT_ORDER[x.effort] \in {0, 1}
  BY DEF IsSuggestion, EFFORT_ORDER
<1> QED
  BY <1>1, <1>2 DEF rank

\* Other repositories or evidence make a suggestion of the same rank.
Alike(y, x) ==
  /\ y.id = x.id /\ y.category = x.category /\ y.title = x.title
  /\ y.impact = x.impact /\ y.effort = x.effort

LEMMA AlikeRank ==
  ASSUME NEW x, NEW y, Alike(y, x)
  PROVE  rank(y) = rank(x)
  BY DEF Alike, rank

about(x, R, E) == [x EXCEPT !.repos = R, !.evidence = E]

LEMMA Merging ==
  ASSUME NEW x, IsSuggestion(x), NEW R, NEW E, \A e \in E : e.repo \in R,
         NEW y, y = about(x, R, E)
  PROVE  IsSuggestion(y) /\ Alike(y, x) /\ y.repos = R /\ y.evidence = E
<1> DEFINE z == Parts(x)
<1>1. y = [z EXCEPT !.repos = R, !.evidence = E]
  BY DEF IsSuggestion, about
<1>2. y = [id |-> x.id, category |-> x.category, title |-> x.title, impact |-> x.impact,
           effort |-> x.effort, repos |-> R, evidence |-> E]
  BY <1>1 DEF Parts
<1> HIDE DEF z
<1>3. Alike(y, x) /\ y.repos = R /\ y.evidence = E
  BY <1>2 DEF Alike
<1>4. y = Parts(y)
  BY <1>2, <1>3 DEF Parts, Alike
<1> QED
  BY <1>3, <1>4 DEF IsSuggestion, Alike

LEMMA Cleaning ==
  ASSUME NEW x, IsSuggestion(x), NEW y,
         y = [x EXCEPT !.evidence = {e \in x.evidence : e.at # Nowhere}]
  PROVE  IsSuggestion(y) /\ Alike(y, x) /\ y.repos = x.repos
         /\ y.evidence = {e \in x.evidence : e.at # Nowhere}
<1> DEFINE z == Parts(x)
           E == {e \in x.evidence : e.at # Nowhere}
<1>1. y = [z EXCEPT !.evidence = E]
  BY DEF IsSuggestion
<1>5. \A e \in E : e \in x.evidence
  OBVIOUS
<1> HIDE DEF E
<1>2. y = [id |-> x.id, category |-> x.category, title |-> x.title, impact |-> x.impact,
           effort |-> x.effort, repos |-> x.repos, evidence |-> E]
  BY <1>1 DEF Parts
<1> HIDE DEF z
<1>3. Alike(y, x) /\ y.repos = x.repos /\ y.evidence = E
  BY <1>2 DEF Alike
<1>4. y = Parts(y)
  BY <1>2, <1>3 DEF Parts, Alike
<1> QED
  BY <1>3, <1>4, <1>5 DEF IsSuggestion, Alike, E

LEMMA Suggested ==
  ASSUME NEW f, f.severity \in {"high", "medium", "low"}, NEW id
  PROVE  /\ IsSuggestion(toSuggestion(f, id)) /\ toSuggestion(f, id).id = id
         /\ toSuggestion(f, id).category = category(f)
         /\ toSuggestion(f, id).evidence = {[repo |-> f.repo, at |-> f.at]}
<1> DEFINE x == toSuggestion(f, id)
           E == {[repo |-> f.repo, at |-> f.at]}
<1>5. \A e \in E : e.repo \in {f.repo}
  OBVIOUS
<1> HIDE DEF E
<1>1. x = [id |-> id, category |-> category(f), title |-> title(f), impact |-> f.severity,
           effort |-> effort(f), repos |-> {f.repo}, evidence |-> E]
  BY DEF toSuggestion, E
<1> HIDE DEF x
<1>2. /\ x.id = id /\ x.category = category(f) /\ x.title = title(f) /\ x.impact = f.severity
      /\ x.effort = effort(f) /\ x.repos = {f.repo} /\ x.evidence = E
  BY <1>1
<1>3. x = Parts(x)
  BY <1>1, <1>2 DEF Parts
<1>4. effort(f) \in {"small", "medium"}
  BY DEF effort
<1> QED
  BY <1>2, <1>3, <1>4, <1>5 DEF IsSuggestion, x, E

\* A list of suggestions, the greater rank first.
Ranking(ss) ==
  /\ isSequence(ss)
  /\ \A k \in DOMAIN ss : IsSuggestion(ss[k])
  /\ \A k, l \in DOMAIN ss : k < l => rank(ss[k]) <= rank(ss[l]) /\ ss[k].id # ss[l].id

Different(ss) ==
  \A k, l \in DOMAIN ss : k < l => ss[k].category # ss[l].category \/ ss[k].title # ss[l].title

\* A part of it is one.
LEMMA RankingKept ==
  ASSUME NEW ss, Ranking(ss), NEW I \in SUBSET DOMAIN ss
  PROVE  /\ Ranking(Subsequence(ss, I)) /\ (Different(ss) => Different(Subsequence(ss, I)))
         /\ Len(Subsequence(ss, I)) = Cardinality(I)
         /\ \A k \in DOMAIN Subsequence(ss, I) : nth(I, k) \in I /\ Subsequence(ss, I)[k] = ss[nth(I, k)]
         /\ \A i \in I : \E k \in DOMAIN Subsequence(ss, I) : nth(I, k) = i
         /\ \A k, l \in DOMAIN Subsequence(ss, I) : k < l => nth(I, k) < nth(I, l)
<1> DEFINE sub == Subsequence(ss, I)
<1>1. ss \in Seq(toSet(ss)) /\ Len(ss) \in Nat /\ DOMAIN ss = 1 .. Len(ss)
  BY IsSequence DEF Ranking
<1>2. isSequence(sub)
  BY SequenceMade DEF Ranking
<1>3. /\ sub \in Seq(toSet(ss)) /\ Len(sub) = Cardinality(I)
      /\ \A k \in DOMAIN sub : nth(I, k) \in I /\ sub[k] = ss[nth(I, k)]
      /\ \A i \in I : \E k \in DOMAIN sub : nth(I, k) = i
  BY <1>1, SubsequenceKeeps
<1> HIDE DEF sub
<1>4. \A k, l \in DOMAIN sub : k < l => nth(I, k) < nth(I, l)
  <2>1. \A k, l \in 1 .. Cardinality(I) : k < l => nth(I, k) < nth(I, l)
    BY <1>1, CountedOff
  <2>2. DOMAIN sub = 1 .. Len(sub)
    BY <1>3
  <2> QED
    BY <1>3, <2>1, <2>2
<1>5. \A k \in DOMAIN sub : IsSuggestion(sub[k])
  BY <1>3 DEF Ranking
<1>6. \A k, l \in DOMAIN sub : k < l => rank(sub[k]) <= rank(sub[l]) /\ sub[k].id # sub[l].id
  BY <1>3, <1>4 DEF Ranking
<1>7. Different(ss) => Different(sub)
  BY <1>3, <1>4 DEF Different
<1> QED
  BY <1>2, <1>3, <1>4, <1>5, <1>6, <1>7 DEF Ranking, sub

\* So is what has other repositories and evidence.
LEMMA RankingAltered ==
  ASSUME NEW ss, Ranking(ss), NEW ts, Mapped(ts, ss),
         \A k \in DOMAIN ss : IsSuggestion(ts[k]) /\ Alike(ts[k], ss[k])
  PROVE  Ranking(ts) /\ (Different(ss) => Different(ts))
<1>1. isSequence(ts) /\ DOMAIN ts = DOMAIN ss
  BY SequenceMade DEF Ranking, Mapped
<1>2. \A k \in DOMAIN ss : /\ rank(ts[k]) = rank(ss[k]) /\ ts[k].id = ss[k].id
                           /\ ts[k].category = ss[k].category /\ ts[k].title = ss[k].title
  BY AlikeRank DEF Alike
<1>3. \A k, l \in DOMAIN ts : k < l => rank(ts[k]) <= rank(ts[l]) /\ ts[k].id # ts[l].id
  BY <1>1, <1>2 DEF Ranking
<1>4. Different(ss) => Different(ts)
  BY <1>1, <1>2 DEF Different
<1> QED
  BY <1>1, <1>3, <1>4 DEF Ranking

\* Merging: every suggestion has one of its kind, no lower, that has its evidence.
LEMMA Deduplicated ==
  ASSUME NEW ss, Ranking(ss)
  PROVE  LET ds == deduplicateSuggestions(ss)
         IN /\ Ranking(ds) /\ Different(ds)
            /\ \A i \in DOMAIN ss : \E k \in DOMAIN ds :
                 /\ ds[k].category = ss[i].category /\ rank(ds[k]) <= rank(ss[i])
                 /\ ss[i].evidence \subseteq ds[k].evidence
<1> DEFINE like(i) == {j \in DOMAIN ss : ss[j].category = ss[i].category /\ ss[j].title = ss[i].title}
           united == [i \in DOMAIN ss |-> [ss[i] EXCEPT !.repos = UNION {ss[j].repos : j \in like(i)},
                                                       !.evidence = UNION {ss[j].evidence : j \in like(i)}]]
           I == {i \in DOMAIN ss : \A j \in like(i) : i <= j}
           ds == Subsequence(united, I)
<1>1. deduplicateSuggestions(ss) = ds
  BY DEF deduplicateSuggestions
<1>2. Len(ss) \in Nat /\ DOMAIN ss = 1 .. Len(ss)
  BY IsSequence DEF Ranking
<1>3. \A i, j \in DOMAIN ss :
        j \in like(i) <=> ss[j].category = ss[i].category /\ ss[j].title = ss[i].title
  OBVIOUS
<1>4. \A i : like(i) \in SUBSET DOMAIN ss
  OBVIOUS
<1> HIDE DEF like
<1>5. ASSUME NEW i \in DOMAIN ss
      PROVE  /\ IsSuggestion(united[i]) /\ Alike(united[i], ss[i])
             /\ united[i].evidence = UNION {ss[j].evidence : j \in like(i)}
  <2> DEFINE R == UNION {ss[j].repos : j \in like(i)}
             E == UNION {ss[j].evidence : j \in like(i)}
  <2>1. united[i] = about(ss[i], R, E)
    BY DEF about
  <2>2. \A e \in E : e.repo \in R
    BY <1>4 DEF Ranking, IsSuggestion
  <2>3. IsSuggestion(ss[i])
    BY DEF Ranking
  <2> HIDE DEF united, R, E
  <2>4. IsSuggestion(united[i]) /\ Alike(united[i], ss[i]) /\ united[i].evidence = E
    BY <2>1, <2>2, <2>3, Merging
  <2> QED
    BY <2>4 DEF E
<1>6. Mapped(united, ss)
  BY DEF Mapped
<1> HIDE DEF united
<1>7. Ranking(united) /\ DOMAIN united = DOMAIN ss
  BY <1>5, <1>6, RankingAltered DEF Mapped
<1>8. I \in SUBSET DOMAIN united /\ \A i \in I : i \in DOMAIN ss /\ \A j \in like(i) : i <= j
  BY <1>7
<1>9. \A i \in DOMAIN ss : (\A j \in like(i) : i <= j) => i \in I
  OBVIOUS
<1> HIDE DEF I
<1>10. /\ Ranking(ds)
       /\ \A k \in DOMAIN ds : nth(I, k) \in I /\ ds[k] = united[nth(I, k)]
       /\ \A i \in I : \E k \in DOMAIN ds : nth(I, k) = i
       /\ \A k, l \in DOMAIN ds : k < l => nth(I, k) < nth(I, l)
  BY <1>7, <1>8, RankingKept
<1> HIDE DEF ds
<1>11. Different(ds)
  <2> SUFFICES ASSUME NEW k \in DOMAIN ds, NEW l \in DOMAIN ds, k < l,
                      ds[k].category = ds[l].category, ds[k].title = ds[l].title
               PROVE  FALSE
    BY DEF Different
  <2> DEFINE i == nth(I, k)
             j == nth(I, l)
  <2>1. i \in I /\ j \in I /\ i < j /\ ds[k] = united[i] /\ ds[l] = united[j]
    BY <1>10
  <2> HIDE DEF i, j
  <2>2. i \in DOMAIN ss /\ j \in DOMAIN ss
    BY <1>8, <2>1
  <2>3. ss[i].category = ss[j].category /\ ss[i].title = ss[j].title
    BY <1>5, <2>1, <2>2 DEF Alike
  <2>4. i \in like(j)
    BY <1>3, <2>2, <2>3
  <2>5. j <= i
    BY <1>8, <2>1, <2>4
  <2>6. i \in Int /\ j \in Int
    BY <1>2, <2>2
  <2> QED
    BY <2>1, <2>5, <2>6
<1>12. ASSUME NEW i \in DOMAIN ss
       PROVE  \E k \in DOMAIN ds : /\ ds[k].category = ss[i].category /\ rank(ds[k]) <= rank(ss[i])
                                   /\ ss[i].evidence \subseteq ds[k].evidence
  <2>1. i \in like(i)
    BY <1>3
  <2>2. PICK f \in like(i) : \A j \in like(i) : f <= j
    <3>1. like(i) \in SUBSET Nat
      BY <1>2, <1>4
    <3> QED
      BY <2>1, <3>1, LeastElement
  <2>3. f \in DOMAIN ss /\ ss[f].category = ss[i].category /\ ss[f].title = ss[i].title
    BY <1>3, <1>4, <2>2
  <2>4. \A j \in like(f) : j \in like(i)
    BY <1>3, <1>4, <2>3
  <2>5. f \in I
    BY <1>9, <2>2, <2>3, <2>4
  <2>6. PICK k \in DOMAIN ds : ds[k] = united[f]
    BY <1>10, <2>5
  <2>7. ds[k].category = ss[i].category /\ rank(ds[k]) = rank(ss[f])
    BY <1>5, <2>3, <2>6, AlikeRank DEF Alike
  <2>8. rank(ss[f]) <= rank(ss[i])
    <3>1. f <= i /\ f \in Int /\ i \in Int
      BY <1>2, <2>1, <2>2, <2>3
    <3>2. rank(ss[i]) \in Int
      BY RankType DEF Ranking
    <3>3. CASE f = i
      BY <3>2, <3>3
    <3>4. CASE f < i
      BY <2>3, <3>4 DEF Ranking
    <3> QED
      BY <3>1, <3>3, <3>4
  <2>9. i \in like(f)
    BY <1>3, <2>3
  <2>10. ss[i].evidence \subseteq ds[k].evidence
    BY <1>5, <2>3, <2>6, <2>9
  <2> QED
    BY <2>7, <2>8, <2>10
<1> QED
  BY <1>1, <1>10, <1>11, <1>12

\* Cleaning: evidence that is somewhere stays.
LEMMA Cleaned ==
  ASSUME NEW ss, Ranking(ss), Different(ss)
  PROVE  LET cs == cleanSuggestionEvidence(ss)
         IN /\ Ranking(cs) /\ Different(cs)
            /\ \A k \in DOMAIN cs : cs[k].evidence # {} /\ \A e \in cs[k].evidence : e.at # Nowhere
            /\ \A i \in DOMAIN ss : \A e \in ss[i].evidence : e.at # Nowhere =>
                 \E k \in DOMAIN cs : /\ cs[k].category = ss[i].category /\ rank(cs[k]) = rank(ss[i])
                                      /\ e \in cs[k].evidence
<1> DEFINE cleaned == [i \in DOMAIN ss |-> [ss[i] EXCEPT !.evidence = {e \in @ : e.at # Nowhere}]]
           I == {i \in DOMAIN ss : cleaned[i].evidence # {}}
           cs == Subsequence(cleaned, I)
<1>1. cleanSuggestionEvidence(ss) = cs
  BY DEF cleanSuggestionEvidence
<1>2. ASSUME NEW i \in DOMAIN ss
      PROVE  /\ IsSuggestion(cleaned[i]) /\ Alike(cleaned[i], ss[i])
             /\ cleaned[i].evidence = {e \in ss[i].evidence : e.at # Nowhere}
  <2>1. cleaned[i] = [ss[i] EXCEPT !.evidence = {e \in ss[i].evidence : e.at # Nowhere}]
    OBVIOUS
  <2>2. IsSuggestion(ss[i])
    BY DEF Ranking
  <2> HIDE DEF cleaned
  <2> QED
    BY <2>1, <2>2, Cleaning
<1>3. Mapped(cleaned, ss)
  BY DEF Mapped
<1> HIDE DEF cleaned
<1>4. Ranking(cleaned) /\ Different(cleaned) /\ DOMAIN cleaned = DOMAIN ss
  BY <1>2, <1>3, RankingAltered DEF Mapped
<1>5. I \in SUBSET DOMAIN cleaned /\ \A i \in DOMAIN ss : i \in I <=> cleaned[i].evidence # {}
  BY <1>4
<1> HIDE DEF I
<1>6. /\ Ranking(cs) /\ Different(cs)
      /\ \A k \in DOMAIN cs : nth(I, k) \in I /\ cs[k] = cleaned[nth(I, k)]
      /\ \A i \in I : \E k \in DOMAIN cs : nth(I, k) = i
  BY <1>4, <1>5, RankingKept
<1> HIDE DEF cs
<1>7. ASSUME NEW k \in DOMAIN cs
      PROVE  cs[k].evidence # {} /\ \A e \in cs[k].evidence : e.at # Nowhere
  <2>1. PICK i \in DOMAIN ss : i \in I /\ cs[k] = cleaned[i]
    BY <1>4, <1>5, <1>6
  <2> QED
    BY <1>2, <1>5, <2>1
<1>8. ASSUME NEW i \in DOMAIN ss, NEW e \in ss[i].evidence, e.at # Nowhere
      PROVE  \E k \in DOMAIN cs : /\ cs[k].category = ss[i].category /\ rank(cs[k]) = rank(ss[i])
                                  /\ e \in cs[k].evidence
  <2>1. e \in cleaned[i].evidence
    BY <1>2, <1>8
  <2>2. PICK k \in DOMAIN cs : cs[k] = cleaned[i]
    BY <1>5, <1>6, <2>1
  <2> QED
    BY <1>2, <2>1, <2>2, AlikeRank DEF Alike
<1> QED
  BY <1>1, <1>6, <1>7, <1>8

\* Sorting keeps every suggestion and makes a ranking of them.
LEMMA SortedByRank ==
  ASSUME NEW ss, isSequence(ss), \A k \in DOMAIN ss : IsSuggestion(ss[k]),
         \A k, l \in DOMAIN ss : k # l => ss[k].id # ss[l].id
  PROVE  /\ Ranking(sortSuggestions(ss))
         /\ \A i \in DOMAIN ss : \E k \in DOMAIN sortSuggestions(ss) : sortSuggestions(ss)[k] = ss[i]
<1> DEFINE n == Len(ss)
           r == [i \in 1 .. n |-> rank(ss[i])]
           A == [i \in 1 .. n |-> {j \in 1 .. n : r[j] < r[i] \/ (r[j] = r[i] /\ j < i)}]
           at == [k \in 1 .. n |-> CHOOSE i \in 1 .. n : Cardinality(A[i]) = k - 1]
           sorted == sortSuggestions(ss)
<1>1. n \in Nat /\ DOMAIN ss = 1 .. n
  BY IsSequence
<1>2. \A i \in 1 .. n : r[i] \in Int /\ r[i] = rank(ss[i])
  BY <1>1, RankType
<1>3. sorted = [k \in 1 .. n |-> ss[at[k]]]
  <2> DEFINE ahead(i) == {j \in DOMAIN ss : rank(ss[j]) < rank(ss[i]) \/ (rank(ss[j]) = rank(ss[i]) /\ j < i)}
             which(k) == CHOOSE i \in DOMAIN ss : Cardinality(ahead(i)) = k - 1
  <2>1. sorted = [k \in DOMAIN ss |-> ss[which(k)]]
    BY DEF sortSuggestions
  <2> HIDE DEF r
  <2>2. \A i \in 1 .. n : A[i] = ahead(i)
    BY <1>1, <1>2
  <2>3. \A k \in 1 .. n : at[k] = which(k)
    <3> HIDE DEF ahead, A
    <3>1. \A k \in 1 .. n : at[k] = CHOOSE i \in 1 .. n : Cardinality(A[i]) = k - 1
      OBVIOUS
    <3>2. \A k \in 1 .. n : which(k) = CHOOSE i \in 1 .. n : Cardinality(ahead(i)) = k - 1
      BY <1>1
    <3>3. ASSUME NEW k \in 1 .. n
          PROVE  (CHOOSE i \in 1 .. n : Cardinality(A[i]) = k - 1)
                 = CHOOSE i \in 1 .. n : Cardinality(ahead(i)) = k - 1
      BY <2>2
    <3> QED
      BY <3>1, <3>2, <3>3
  <2> HIDE DEF which, at
  <2> QED
    BY <1>1, <2>1, <2>3
<1>4. /\ A \in [1 .. n -> SUBSET (1 .. n)]
      /\ \A i, j \in 1 .. n : j \in A[i] <=> r[j] < r[i] \/ (r[j] = r[i] /\ j < i)
  OBVIOUS
<1> HIDE DEF A, r, sorted
<1>5. /\ \A i \in 1 .. n : i \notin A[i]
      /\ \A i, j \in 1 .. n : i # j => i \in A[j] \/ j \in A[i]
      /\ \A i, j \in 1 .. n : j \in A[i] => A[j] \subseteq A[i]
  <2>1. ASSUME NEW i \in 1 .. n PROVE i \notin A[i]
    BY <1>1, <1>2, <1>4
  <2>2. ASSUME NEW i \in 1 .. n, NEW j \in 1 .. n, i # j PROVE i \in A[j] \/ j \in A[i]
    BY <1>1, <1>2, <1>4, <2>2
  <2>3. ASSUME NEW i \in 1 .. n, NEW j \in 1 .. n, j \in A[i], NEW k \in A[j] PROVE k \in A[i]
    <3>1. k \in 1 .. n
      BY <1>4
    <3>2. /\ r[i] \in Int /\ r[j] \in Int /\ r[k] \in Int /\ i \in Int /\ j \in Int /\ k \in Int
      BY <1>1, <1>2, <3>1
    <3>3. r[j] < r[i] \/ (r[j] = r[i] /\ j < i)
      BY <1>4, <2>3
    <3>4. r[k] < r[j] \/ (r[k] = r[j] /\ k < j)
      BY <1>4, <3>1
    <3>5. r[k] < r[i] \/ (r[k] = r[i] /\ k < i)
      BY <3>2, <3>3, <3>4
    <3> QED
      BY <1>4, <3>1, <3>5
  <2> QED
    BY <2>1, <2>2, <2>3
<1>6. /\ \A k \in 1 .. n : \E i \in 1 .. n : Cardinality(A[i]) = k - 1
      /\ \A i \in 1 .. n : Cardinality(A[i]) + 1 \in 1 .. n
      /\ \A i, j \in 1 .. n : Cardinality(A[i]) < Cardinality(A[j]) => i \in A[j]
      /\ \A i, j \in 1 .. n : Cardinality(A[i]) = Cardinality(A[j]) => i = j
  <2> HIDE DEF n
  <2> QED
    BY <1>1, <1>4, <1>5, Ranked
<1>7. \A k \in 1 .. n : at[k] \in 1 .. n /\ Cardinality(A[at[k]]) = k - 1
  BY <1>6
<1> HIDE DEF at
<1>8. DOMAIN sorted = 1 .. n /\ \A k \in 1 .. n : sorted[k] = ss[at[k]]
  BY <1>3
<1>9. Mapped(sorted, ss)
  BY <1>1, <1>3, <1>8 DEF Mapped
<1>10. isSequence(sorted)
  BY <1>9, SequenceMade
<1>11. ASSUME NEW i \in 1 .. n PROVE \E k \in DOMAIN sorted : sorted[k] = ss[i]
  <2> DEFINE c == Cardinality(A[i])
             k == c + 1
  <2>1. k \in 1 .. n
    BY <1>6
  <2>2. Cardinality(A[at[k]]) = k - 1 /\ at[k] \in 1 .. n
    BY <1>7, <2>1
  <2>3. c \in Int
    <3>1. A[i] \in SUBSET (1 .. n) /\ 1 \in Int /\ n \in Int
      BY <1>1, <1>4
    <3>2. IsFiniteSet(1 .. n)
      BY <3>1, FS_Interval
    <3> QED
      BY <3>1, <3>2, FS_Subset, FS_CardinalityType
  <2>4. k - 1 = c
    <3> HIDE DEF c
    <3> QED
      BY <2>3
  <2> HIDE DEF k
  <2>5. at[k] = i
    BY <1>6, <2>2, <2>4
  <2> QED
    BY <1>8, <2>1, <2>5
<1>12. ASSUME NEW k \in DOMAIN sorted, NEW l \in DOMAIN sorted, k < l
       PROVE  rank(sorted[k]) <= rank(sorted[l]) /\ sorted[k].id # sorted[l].id
  <2>1. /\ k \in 1 .. n /\ at[k] \in 1 .. n /\ Cardinality(A[at[k]]) = k - 1
        /\ l \in 1 .. n /\ at[l] \in 1 .. n /\ Cardinality(A[at[l]]) = l - 1
    BY <1>7, <1>8
  <2>2. k - 1 < l - 1
    BY <1>1, <1>12, <2>1
  <2>3. at[k] \in A[at[l]]
    BY <1>6, <2>1, <2>2
  <2>4. r[at[k]] <= r[at[l]]
    <3>1. r[at[k]] \in Int /\ r[at[l]] \in Int
      BY <1>2, <2>1
    <3>2. r[at[k]] < r[at[l]] \/ r[at[k]] = r[at[l]]
      BY <1>4, <2>1, <2>3
    <3> QED
      BY <3>1, <3>2
  <2>5. at[k] # at[l]
    BY <1>5, <2>1, <2>3
  <2>6. ss[at[k]].id # ss[at[l]].id
    BY <1>1, <2>1, <2>5
  <2> QED
    BY <1>2, <1>8, <2>1, <2>4, <2>6
<1>13. \A k \in DOMAIN sorted : IsSuggestion(sorted[k])
  BY <1>1, <1>7, <1>8
<1> QED
  BY <1>1, <1>10, <1>11, <1>12, <1>13 DEF Ranking, sorted

\* The limit: what is left out ranks no higher than all that is left.
LEMMA Limited ==
  ASSUME NEW ss, Ranking(ss), NEW n \in Nat
  PROVE  /\ Ranking(atMost(ss, n)) /\ (Different(ss) => Different(atMost(ss, n)))
         /\ \A k \in DOMAIN atMost(ss, n) : \E i \in DOMAIN ss : atMost(ss, n)[k] = ss[i]
         /\ \A i \in DOMAIN ss :
              \/ \E k \in DOMAIN atMost(ss, n) : atMost(ss, n)[k] = ss[i]
              \/ /\ Len(atMost(ss, n)) = n
                 /\ \A k \in DOMAIN atMost(ss, n) : rank(atMost(ss, n)[k]) <= rank(ss[i])
<1> DEFINE I == {i \in DOMAIN ss : i <= n}
           ls == atMost(ss, n)
<1>1. Len(ss) \in Nat /\ DOMAIN ss = 1 .. Len(ss)
  BY IsSequence DEF Ranking
<1>2. I \in SUBSET DOMAIN ss /\ ls = Subsequence(ss, I)
  BY DEF atMost
<1>3. \A i \in DOMAIN ss : i \in I <=> i <= n
  OBVIOUS
<1> HIDE DEF I, ls
<1>4. /\ Ranking(ls) /\ (Different(ss) => Different(ls)) /\ Len(ls) = Cardinality(I)
      /\ \A k \in DOMAIN ls : nth(I, k) \in I /\ ls[k] = ss[nth(I, k)]
      /\ \A i \in I : \E k \in DOMAIN ls : nth(I, k) = i
  BY <1>2, RankingKept
<1>5. ASSUME NEW i \in DOMAIN ss
      PROVE  \/ \E k \in DOMAIN ls : ls[k] = ss[i]
             \/ Len(ls) = n /\ \A k \in DOMAIN ls : rank(ls[k]) <= rank(ss[i])
  <2>1. CASE i <= n
    BY <1>3, <1>4, <2>1
  <2>2. CASE ~(i <= n)
    <3>1. I = 1 .. n
      <4>1. ASSUME NEW j \in 1 .. n PROVE j \in I
        <5>1. j \in DOMAIN ss
          BY <1>1, <2>2
        <5> QED
          BY <1>3, <5>1
      <4>2. ASSUME NEW j \in I PROVE j \in 1 .. n
        BY <1>1, <1>2, <1>3
      <4> QED
        BY <4>1, <4>2
    <3>2. Len(ls) = n
      <4>1. 1 \in Int /\ n \in Int /\ (1 > n => n = 0)
        OBVIOUS
      <4>2. Cardinality(1 .. n) = n
        BY <4>1, FS_Interval
      <4> QED
        BY <1>4, <3>1, <4>2
    <3>3. ASSUME NEW k \in DOMAIN ls PROVE rank(ls[k]) <= rank(ss[i])
      <4>1. PICK j \in I : ls[k] = ss[j]
        BY <1>4
      <4>2. j \in DOMAIN ss /\ j < i
        BY <1>1, <1>2, <1>3, <2>2, <4>1
      <4> QED
        BY <4>1, <4>2 DEF Ranking
    <3> QED
      BY <3>2, <3>3
  <2> QED
    BY <2>1, <2>2
<1>6. \A k \in DOMAIN ls : \E i \in DOMAIN ss : ls[k] = ss[i]
  BY <1>2, <1>4
<1> QED
  BY <1>4, <1>5, <1>6 DEF ls

\* What is proposed, of findings that have a severity.
LEMMA Proposed ==
  ASSUME NEW fs, Severe(fs)
  PROVE  /\ Ranking(proposeUpgrades(fs)) /\ Different(proposeUpgrades(fs))
         /\ \A k \in DOMAIN proposeUpgrades(fs) :
              /\ proposeUpgrades(fs)[k].evidence # {}
              /\ \A e \in proposeUpgrades(fs)[k].evidence : e.at # Nowhere
         /\ \A i \in DOMAIN fs : fs[i].at # Nowhere =>
              \E k \in DOMAIN proposeUpgrades(fs) :
                 /\ proposeUpgrades(fs)[k].category = category(fs[i])
                 /\ rank(proposeUpgrades(fs)[k]) <= rank(toSuggestion(fs[i], i))
                 /\ toSuggestion(fs[i], i).evidence \subseteq proposeUpgrades(fs)[k].evidence
<1> DEFINE suggestions == [i \in DOMAIN fs |-> toSuggestion(fs[i], i)]
           ss == sortSuggestions(suggestions)
           ds == deduplicateSuggestions(ss)
           cs == cleanSuggestionEvidence(ds)
<1>1. proposeUpgrades(fs) = cs
  BY DEF proposeUpgrades
<1>2. Mapped(suggestions, fs) /\ \A i \in DOMAIN fs : suggestions[i] = toSuggestion(fs[i], i)
  BY DEF Mapped
<1> HIDE DEF suggestions
<1>3. \A i \in DOMAIN fs : fs[i].severity \in {"high", "medium", "low"}
  BY DEF Severe, toSet
<1>4. ASSUME NEW i \in DOMAIN fs
      PROVE  /\ IsSuggestion(suggestions[i]) /\ suggestions[i].id = i
             /\ suggestions[i].category = category(fs[i])
             /\ suggestions[i].evidence = {[repo |-> fs[i].repo, at |-> fs[i].at]}
  BY <1>2, <1>3, Suggested
<1>5. isSequence(suggestions) /\ DOMAIN suggestions = DOMAIN fs
  BY <1>2, SequenceMade DEF Severe, Mapped
<1>6. /\ Ranking(ss)
      /\ \A i \in DOMAIN fs : \E k \in DOMAIN ss : ss[k] = suggestions[i]
  BY <1>4, <1>5, SortedByRank
<1> HIDE DEF ss
<1>7. /\ Ranking(ds) /\ Different(ds)
      /\ \A i \in DOMAIN ss : \E k \in DOMAIN ds :
            /\ ds[k].category = ss[i].category /\ rank(ds[k]) <= rank(ss[i])
            /\ ss[i].evidence \subseteq ds[k].evidence
  BY <1>6, Deduplicated
<1> HIDE DEF ds
<1>8. /\ Ranking(cs) /\ Different(cs)
      /\ \A k \in DOMAIN cs : cs[k].evidence # {} /\ \A e \in cs[k].evidence : e.at # Nowhere
      /\ \A i \in DOMAIN ds : \A e \in ds[i].evidence : e.at # Nowhere =>
            \E k \in DOMAIN cs : /\ cs[k].category = ds[i].category /\ rank(cs[k]) = rank(ds[i])
                                 /\ e \in cs[k].evidence
  BY <1>7, Cleaned
<1> HIDE DEF cs
<1>9. ASSUME NEW i \in DOMAIN fs, fs[i].at # Nowhere
      PROVE  \E k \in DOMAIN cs : /\ cs[k].category = category(fs[i])
                                  /\ rank(cs[k]) <= rank(suggestions[i])
                                  /\ suggestions[i].evidence \subseteq cs[k].evidence
  <2> DEFINE e == [repo |-> fs[i].repo, at |-> fs[i].at]
  <2>1. e.at # Nowhere
    BY <1>9
  <2>2. suggestions[i].evidence = {e} /\ suggestions[i].category = category(fs[i])
    BY <1>4
  <2> HIDE DEF e
  <2>3. PICK j \in DOMAIN ss : ss[j] = suggestions[i]
    BY <1>6
  <2>4. PICK d \in DOMAIN ds : /\ ds[d].category = ss[j].category /\ rank(ds[d]) <= rank(ss[j])
                               /\ ss[j].evidence \subseteq ds[d].evidence
    BY <1>7
  <2>5. e \in ds[d].evidence
    BY <2>2, <2>3, <2>4
  <2>6. PICK k \in DOMAIN cs : /\ cs[k].category = ds[d].category /\ rank(cs[k]) = rank(ds[d])
                               /\ e \in cs[k].evidence
    BY <1>8, <2>1, <2>5
  <2> QED
    BY <2>2, <2>3, <2>4, <2>6
<1> QED
  BY <1>1, <1>2, <1>8, <1>9

\* What is suggested is a part of what is proposed, and nothing that is wanted is left
\* out but for the limit.
LEMMA SuggestedOf ==
  ASSUME NEW e \in Evolving
  PROVE  LET all == findings(e.repos)
             result == suggest(e)
         IN /\ Ranking(result) /\ Different(result)
            /\ \A k \in DOMAIN result : result[k].evidence # {}
                                        /\ \A x \in result[k].evidence : x.at # Nowhere
            /\ \A i \in DOMAIN all : category(all[i]) \in e.categories /\ all[i].at # Nowhere =>
                 \/ \E k \in DOMAIN result :
                      /\ toSuggestion(all[i], i).evidence \subseteq result[k].evidence
                      /\ result[k].category = category(all[i])
                      /\ rank(result[k]) <= rank(toSuggestion(all[i], i))
                 \/ /\ Len(result) = e.limit
                    /\ \A k \in DOMAIN result : rank(result[k]) <= rank(toSuggestion(all[i], i))
<1> DEFINE all == findings(e.repos)
           ps == proposeUpgrades(all)
           I == {i \in DOMAIN ps : ps[i].category \in e.categories}
           ws == ofCategories(ps, e.categories)
           result == suggest(e)
<1>1. Severe(all) /\ e.limit \in Nat
  BY AllSevere, EvolvingType
<1>2. result = atMost(ws, e.limit)
  BY DEF suggest
<1> HIDE DEF all, result
<1>3. /\ Ranking(ps) /\ Different(ps)
      /\ \A k \in DOMAIN ps : ps[k].evidence # {} /\ \A x \in ps[k].evidence : x.at # Nowhere
      /\ \A i \in DOMAIN all : all[i].at # Nowhere =>
           \E k \in DOMAIN ps : /\ ps[k].category = category(all[i])
                                /\ rank(ps[k]) <= rank(toSuggestion(all[i], i))
                                /\ toSuggestion(all[i], i).evidence \subseteq ps[k].evidence
  BY <1>1, Proposed
<1> HIDE DEF ps
<1>4. /\ Ranking(ws) /\ Different(ws)
      /\ \A k \in DOMAIN ws : \E i \in DOMAIN ps : ws[k] = ps[i]
      /\ \A i \in DOMAIN ps : ps[i].category \in e.categories => \E k \in DOMAIN ws : ws[k] = ps[i]
  <2>1. ws = Subsequence(ps, I) /\ I \in SUBSET DOMAIN ps
    BY DEF ofCategories
  <2>2. \A i \in DOMAIN ps : ps[i].category \in e.categories => i \in I
    OBVIOUS
  <2> HIDE DEF I, ws
  <2>3. /\ Ranking(ws) /\ (Different(ps) => Different(ws))
        /\ \A k \in DOMAIN ws : nth(I, k) \in I /\ ws[k] = ps[nth(I, k)]
        /\ \A i \in I : \E k \in DOMAIN ws : nth(I, k) = i
    BY <1>3, <2>1, RankingKept
  <2> QED
    BY <1>3, <2>1, <2>2, <2>3
<1> HIDE DEF ws
<1>5. /\ Ranking(result) /\ Different(result)
      /\ \A k \in DOMAIN result : \E i \in DOMAIN ws : result[k] = ws[i]
      /\ \A i \in DOMAIN ws :
           \/ \E k \in DOMAIN result : result[k] = ws[i]
           \/ Len(result) = e.limit /\ \A k \in DOMAIN result : rank(result[k]) <= rank(ws[i])
  BY <1>1, <1>2, <1>4, Limited
<1>6. \A k \in DOMAIN result : result[k].evidence # {} /\ \A x \in result[k].evidence : x.at # Nowhere
  BY <1>3, <1>4, <1>5
<1>7. ASSUME NEW i \in DOMAIN all, category(all[i]) \in e.categories, all[i].at # Nowhere
      PROVE  \/ \E k \in DOMAIN result :
                  /\ toSuggestion(all[i], i).evidence \subseteq result[k].evidence
                  /\ result[k].category = category(all[i])
                  /\ rank(result[k]) <= rank(toSuggestion(all[i], i))
             \/ /\ Len(result) = e.limit
                /\ \A k \in DOMAIN result : rank(result[k]) <= rank(toSuggestion(all[i], i))
  <2> DEFINE mine == toSuggestion(all[i], i)
  <2>1. PICK p \in DOMAIN ps : /\ ps[p].category = category(all[i]) /\ rank(ps[p]) <= rank(mine)
                               /\ mine.evidence \subseteq ps[p].evidence
    BY <1>3, <1>7
  <2>2. PICK w \in DOMAIN ws : ws[w] = ps[p]
    BY <1>4, <1>7, <2>1
  <2>3. rank(mine) \in Int
    <3>1. all[i].severity \in {"high", "medium", "low"}
      BY <1>1 DEF Severe, toSet
    <3> QED
      BY <3>1, Suggested, RankType
  <2> HIDE DEF mine
  <2>4. CASE \E k \in DOMAIN result : result[k] = ws[w]
    BY <2>1, <2>2, <2>4 DEF mine
  <2>5. CASE Len(result) = e.limit /\ \A k \in DOMAIN result : rank(result[k]) <= rank(ws[w])
    <3>1. \A k \in DOMAIN result : rank(result[k]) \in Int
      BY <1>5, RankType DEF Ranking
    <3>2. rank(ws[w]) \in Int /\ rank(ws[w]) <= rank(mine)
      BY <1>4, <2>1, <2>2, RankType DEF Ranking
    <3>3. \A k \in DOMAIN result : rank(result[k]) <= rank(mine)
      BY <2>3, <2>5, <3>1, <3>2
    <3> QED
      BY <2>5, <3>3 DEF mine
  <2> QED
    BY <1>5, <2>4, <2>5
<1> QED
  BY <1>5, <1>6, <1>7 DEF all, result

\* What is suggested follows from what is found, whatever the manifests, the categories
\* and the limit.
THEOREM EvolutionCorrect == EvolutionSpec => []EvolutionSound
<1> DEFINE Suggests == /\ evolution.input \in Evolving
                       /\ evolution.pc \in {"asked", "done"}
                       /\ evolution.pc = "done" => evolution.result = suggest(evolution.input)
                       /\ evolution = [pc |-> evolution.pc, input |-> evolution.input, result |-> evolution.result]
<1>1. EvolutionInit => Suggests
  BY DEF EvolutionInit
<1>2. Suggests /\ [analyzeEvolution]_evolution => Suggests'
  <2>1. ASSUME Suggests, analyzeEvolution PROVE Suggests'
    <3>1. evolution' = [pc |-> "done", input |-> evolution.input, result |-> suggest(evolution.input)]
      BY <2>1 DEF analyzeEvolution
    <3> QED
      BY <2>1, <3>1
  <2>2. Suggests /\ UNCHANGED evolution => Suggests'
    OBVIOUS
  <2> QED
    BY <2>1, <2>2
<1>3. Suggests => EvolutionSound
  <2> SUFFICES ASSUME Suggests, evolution.pc = "done" PROVE NothingLost /\ Anchored /\ JudgesAgree
    BY DEF EvolutionSound
  <2> DEFINE e == evolution.input
             result == evolution.result
  <2>1. e \in Evolving /\ result = suggest(e)
    OBVIOUS
  <2>2. NothingLost
    <3>1. \A f : \A i : f.severity \in {"high", "medium", "low"} => toSuggestion(f, i).category = category(f)
      BY Suggested
    <3>2. \A i \in DOMAIN findings(e.repos) : findings(e.repos)[i].severity \in {"high", "medium", "low"}
      BY <2>1, AllSevere DEF Severe, toSet
    <3> QED
      BY <2>1, <3>1, <3>2, SuggestedOf DEF NothingLost
  <2>3. Anchored
    <3>1. /\ Ranking(result) /\ Different(result)
          /\ \A k \in DOMAIN result : result[k].evidence # {} /\ \A x \in result[k].evidence : x.at # Nowhere
      BY <2>1, SuggestedOf
    <3> HIDE DEF result
    <3>2. \A k \in DOMAIN result : \A x \in result[k].evidence : x.repo \in result[k].repos
      BY <3>1 DEF Ranking, IsSuggestion
    <3>3. \A k, l \in DOMAIN result : k < l =>
            /\ rank(result[k]) <= rank(result[l]) /\ result[k].id # result[l].id
            /\ <<result[k].category, result[k].title>> # <<result[l].category, result[l].title>>
      BY <3>1 DEF Ranking, Different
    <3> QED
      BY <3>1, <3>2, <3>3 DEF Anchored, result
  <2>4. JudgesAgree
    <3> SUFFICES ASSUME NEW i \in DOMAIN e.repos
                 PROVE  LET m == e.repos[i]
                            results == benchmarkAgainstBestPractices(m)
                            bottlenecks == findBottlenecks(m)
                            says(practice, status) == \E k \in DOMAIN results :
                              results[k].practice = practice /\ results[k].status = status
                            found(kind) == {bottlenecks[k].at :
                                              k \in {l \in DOMAIN bottlenecks : bottlenecks[l].kind = kind}}
                            onlyRoutes == m.procedures = <<>>
                        IN /\ says("pagination", "present") /\ onlyRoutes => found("missing-pagination") = {}
                           /\ says("pagination", "missing") \/ says("pagination", "partial") =>
                                found("missing-pagination") # {}
                           /\ (FinderLimiters \cup BenchmarkLimiters) \cap m.packages
                                 \subseteq FinderLimiters \cap BenchmarkLimiters =>
                                /\ found("no-rate-limiting") # {} /\ m.routes # <<>> =>
                                     says("rate limiting", "missing")
                                /\ says("rate limiting", "missing") =>
                                     found("no-rate-limiting") # {} \/ mutatingRoutes(m) \o mutations(m) = <<>>
      BY DEF JudgesAgree
    <3> DEFINE m == e.repos[i]
               results == benchmarkAgainstBestPractices(m)
               bottlenecks == findBottlenecks(m)
               says(practice, status) == \E k \in DOMAIN results :
                 results[k].practice = practice /\ results[k].status = status
               found(kind) == {bottlenecks[k].at : k \in {l \in DOMAIN bottlenecks : bottlenecks[l].kind = kind}}
               onlyRoutes == m.procedures = <<>>
    <3>1. Manifest(m)
      BY <2>1, AllSevere
    <3>2. \A practice, status : says(practice, status) <=> status \in said(results, practice)
      BY DEF said
    <3>3. \A kind : found(kind) = placesOf(bottlenecks, kind)
      BY DEF placesOf
    <3>4. said(results, "pagination") \cap {"missing", "partial"} # {}
          <=> "missing" \in said(results, "pagination") \/ "partial" \in said(results, "pagination")
      OBVIOUS
    <3> HIDE DEF m
    <3>5. /\ "present" \in said(results, "pagination") /\ m.procedures = <<>> =>
               placesOf(bottlenecks, "missing-pagination") = {}
          /\ said(results, "pagination") \cap {"missing", "partial"} # {} =>
               placesOf(bottlenecks, "missing-pagination") # {}
          /\ (FinderLimiters \cup BenchmarkLimiters) \cap m.packages
                \subseteq FinderLimiters \cap BenchmarkLimiters =>
               /\ placesOf(bottlenecks, "no-rate-limiting") # {} /\ m.routes # <<>> =>
                    "missing" \in said(results, "rate limiting")
               /\ "missing" \in said(results, "rate limiting") =>
                    \/ placesOf(bottlenecks, "no-rate-limiting") # {}
                    \/ mutatingRoutes(m) \o mutations(m) = <<>>
      BY <3>1, Agreed
    <3> HIDE DEF results, bottlenecks, says, found
    <3>6. /\ says("pagination", "present") /\ onlyRoutes => found("missing-pagination") = {}
          /\ says("pagination", "missing") \/ says("pagination", "partial") => found("missing-pagination") # {}
      BY <3>2, <3>3, <3>4, <3>5
    <3>7. (FinderLimiters \cup BenchmarkLimiters) \cap m.packages
             \subseteq FinderLimiters \cap BenchmarkLimiters =>
            /\ found("no-rate-limiting") # {} /\ m.routes # <<>> => says("rate limiting", "missing")
            /\ says("rate limiting", "missing") =>
                 found("no-rate-limiting") # {} \/ mutatingRoutes(m) \o mutations(m) = <<>>
      BY <3>2, <3>3, <3>5
    <3> QED
      BY <3>6, <3>7 DEF m, results, bottlenecks, says, found
  <2> QED
    BY <2>2, <2>3, <2>4
<1> QED
  BY <1>1, <1>2, <1>3, PTL DEF EvolutionSpec
------------------------------------------------------------------------------
(* Quality: the scan for async functions. *)

ScanStates ==
  [line : Nat, depth : Int, start : Int, open : Nat, await : BOOLEAN, try : BOOLEAN,
   found : SUBSET [line : Nat, await : BOOLEAN, try : BOOLEAN]]

\* Whether a function begins at a line, goes on in it, where it began and at what depth.
begins(s, line) == s.open = 0 /\ "async" \in line.marks
inside(s, line) == s.open > 0 \/ begins(s, line)
origin(s, line) == IF begins(s, line) THEN s.line ELSE s.open
ground(s, line) == IF begins(s, line) THEN s.depth ELSE s.start
awaits(s, line) == (~begins(s, line) /\ s.await) \/ "await" \in line.marks
tries(s, line) == (~begins(s, line) /\ s.try) \/ {"try", "catch"} \cap line.marks # {}
ends(s, line) == inside(s, line) /\ s.depth + line.net <= ground(s, line)

LEMMA ScanLine ==
  ASSUME NEW s \in ScanStates, NEW line, line.net \in Int
  PROVE  /\ scanLine(s, line) \in ScanStates
         /\ scanLine(s, line).line = s.line + 1
         /\ scanLine(s, line).depth = s.depth + line.net
         /\ scanLine(s, line).start = ground(s, line)
         /\ inside(s, line) /\ ~ends(s, line) =>
              /\ scanLine(s, line).open = origin(s, line)
              /\ scanLine(s, line).await <=> awaits(s, line)
              /\ scanLine(s, line).try <=> tries(s, line)
         /\ ~inside(s, line) \/ ends(s, line) => scanLine(s, line).open = 0
         /\ ~ends(s, line) => scanLine(s, line).found = s.found
         /\ ends(s, line) => \E x : /\ scanLine(s, line).found = s.found \cup {x}
                                    /\ x.line = origin(s, line)
                                    /\ x.await <=> awaits(s, line)
                                    /\ x.try <=> tries(s, line)
<1> DEFINE t == scanLine(s, line)
           x == [line |-> origin(s, line), await |-> awaits(s, line), try |-> tries(s, line)]
<1>1. t = [line |-> s.line + 1, depth |-> s.depth + line.net, start |-> ground(s, line),
           open |-> IF inside(s, line) /\ ~ends(s, line) THEN origin(s, line) ELSE 0,
           await |-> inside(s, line) /\ awaits(s, line), try |-> inside(s, line) /\ tries(s, line),
           found |-> IF ends(s, line) THEN s.found \cup {x} ELSE s.found]
  BY DEF scanLine, begins, inside, origin, ground, awaits, tries, ends
<1>2. /\ s.line \in Nat /\ s.depth \in Int /\ s.start \in Int /\ s.open \in Nat
      /\ s.found \in SUBSET [line : Nat, await : BOOLEAN, try : BOOLEAN]
  BY DEF ScanStates
<1>3. origin(s, line) \in Nat /\ ground(s, line) \in Int
  BY <1>2 DEF origin, ground
<1>4. awaits(s, line) \in BOOLEAN /\ tries(s, line) \in BOOLEAN /\ inside(s, line) \in BOOLEAN
  BY DEF awaits, tries, inside
<1>5. x \in [line : Nat, await : BOOLEAN, try : BOOLEAN]
  BY <1>3, <1>4
<1>6. t \in ScanStates
  <2>1. (IF inside(s, line) /\ ~ends(s, line) THEN origin(s, line) ELSE 0) \in Nat
    BY <1>3
  <2>2. (IF ends(s, line) THEN s.found \cup {x} ELSE s.found)
           \in SUBSET [line : Nat, await : BOOLEAN, try : BOOLEAN]
    <3> HIDE DEF x
    <3> QED
      BY <1>2, <1>5
  <2>3. (inside(s, line) /\ awaits(s, line)) \in BOOLEAN /\ (inside(s, line) /\ tries(s, line)) \in BOOLEAN
    OBVIOUS
  <2>4. s.line + 1 \in Nat /\ s.depth + line.net \in Int
    BY <1>2
  <2> HIDE DEF t, x
  <2> QED
    BY <1>1, <1>3, <2>1, <2>2, <2>3, <2>4, Zenon DEF ScanStates
<1>7. x.line = origin(s, line) /\ (x.await <=> awaits(s, line)) /\ (x.try <=> tries(s, line))
  OBVIOUS
<1> HIDE DEF t, x
<1>8. /\ t.line = s.line + 1 /\ t.depth = s.depth + line.net /\ t.start = ground(s, line)
      /\ t.open = IF inside(s, line) /\ ~ends(s, line) THEN origin(s, line) ELSE 0
      /\ t.await = (inside(s, line) /\ awaits(s, line)) /\ t.try = (inside(s, line) /\ tries(s, line))
      /\ t.found = IF ends(s, line) THEN s.found \cup {x} ELSE s.found
  BY <1>1, Zenon
<1>9. (t.await <=> inside(s, line) /\ awaits(s, line)) /\ (t.try <=> inside(s, line) /\ tries(s, line))
  BY <1>8, Zenon
<1>10. ~inside(s, line) \/ ends(s, line) => t.open = 0
  BY <1>8
<1>11. inside(s, line) /\ ~ends(s, line) => t.open = origin(s, line)
  BY <1>8
<1>12. (~ends(s, line) => t.found = s.found) /\ (ends(s, line) => t.found = s.found \cup {x})
  BY <1>8
<1> QED
  BY <1>6, <1>7, <1>8, <1>9, <1>10, <1>11, <1>12, Zenon DEF t

\* The states of the scan after each line.
Scan(code, r) ==
  /\ r \in [0 .. Len(code) -> ScanStates]
  /\ r[0] = NothingOpen
  /\ \A n \in 1 .. Len(code) : r[n] = scanLine(r[n - 1], code[n])

LEMMA Scanned ==
  ASSUME NEW code, isSequence(code), \A i \in DOMAIN code : code[i].net \in Int
  PROVE  \E r : /\ Scan(code, r)
                /\ findAsyncFunctions(code)
                   = r[Len(code)].found \cup {[line |-> l, await |-> r[Len(code)].await, try |-> r[Len(code)].try]
                                                : l \in {r[Len(code)].open} \ {0}}
<1> DEFINE l == Len(code)
           Upto(g) == g = [n \in 0 .. l |-> IF n = 0 THEN NothingOpen ELSE scanLine(g[n - 1], code[n])]
           step == [k \in 1 .. l |-> [x \in ScanStates |-> scanLine(x, code[k])]]
<1>1. l \in Nat /\ DOMAIN code = 1 .. l
  BY IsSequence
<1>2. NothingOpen \in ScanStates
  BY DEF NothingOpen, ScanStates
<1>3. /\ step \in [1 .. l -> [ScanStates -> ScanStates]]
      /\ \A k \in 1 .. l : \A x \in ScanStates : step[k][x] = scanLine(x, code[k])
  <2>1. \A k \in 1 .. l : \A x \in ScanStates : scanLine(x, code[k]) \in ScanStates
    BY <1>1, ScanLine
  <2> QED
    BY <2>1
<1> HIDE DEF l, step
<1>4. PICK r \in [0 .. l -> ScanStates] : Iterates(r, l, step, NothingOpen)
  BY <1>1, <1>2, <1>3, Iteration
<1>5. r[0] = NothingOpen /\ \A k \in 1 .. l : r[k] = scanLine(r[k - 1], code[k])
  <2>1. \A k \in 1 .. l : k - 1 \in 0 .. l
    BY <1>1
  <2> QED
    BY <1>3, <1>4, <2>1 DEF Iterates
<1>6. Upto(r)
  <2>1. ASSUME NEW k \in 0 .. l PROVE r[k] = IF k = 0 THEN NothingOpen ELSE scanLine(r[k - 1], code[k])
    BY <1>1, <1>5
  <2> QED
    BY <1>4, <2>1
<1> DEFINE f == CHOOSE g : Upto(g)
<1>7. Upto(f)
  <2> HIDE DEF Upto
  <2> QED
    BY <1>6
<1>8. findAsyncFunctions(code) = f[l].found \cup {[line |-> i, await |-> f[l].await, try |-> f[l].try]
                                                    : i \in {f[l].open} \ {0}}
  BY DEF findAsyncFunctions, l
<1> HIDE DEF f
<1>9. \A k \in 0 .. l : f[k] = IF k = 0 THEN NothingOpen ELSE scanLine(f[k - 1], code[k])
  BY <1>7, Zenon
<1>10. f[l] = r[l]
  <2> DEFINE T == {k \in 0 .. l : f[k] = r[k]}
  <2>1. 0 \in T
    <3>1. 0 \in 0 .. l
      BY <1>1
    <3>2. f[0] = NothingOpen
      BY <1>9, <3>1
    <3> QED
      BY <1>5, <3>1, <3>2
  <2>2. ASSUME NEW k \in 1 .. l, k - 1 \in T PROVE k \in T
    <3>1. k \in 0 .. l /\ k # 0 /\ f[k - 1] = r[k - 1]
      BY <1>1, <2>2
    <3> QED
      BY <1>5, <1>9, <3>1
  <2> HIDE DEF T
  <2>3. \A k \in 0 .. l : k \in T
    BY <1>1, <2>1, <2>2, EachStep
  <2>4. l \in T
    BY <1>1, <2>3
  <2> QED
    BY <2>4 DEF T
<1>11. Scan(code, r)
  BY <1>4, <1>5 DEF Scan, l
<1> QED
  BY <1>8, <1>10, <1>11 DEF l

\* How deep the braces are after each line.
Depths(code, d) ==
  /\ d \in [0 .. Len(code) -> Int]
  /\ d[0] = 0
  /\ \A k \in 1 .. Len(code) : d[k] = d[k - 1] + code[k].net

\* An async function from its first to its last line, one in no other, and what
\* lines have.
lasts(code, d, a, b) ==
  /\ a \in 1 .. Len(code) /\ b \in 1 .. Len(code) /\ "async" \in code[a].marks
  /\ a <= b /\ d[b] <= d[a - 1]
  /\ \A k \in a .. b - 1 : d[k] > d[a - 1]
outermost(code, d, a, b) ==
  lasts(code, d, a, b) /\ \A x, y \in 1 .. Len(code) : lasts(code, d, x, y) => ~(x < a /\ a <= y)
within(code, a, b, marks) == \E k \in a .. b : marks \cap code[k].marks # {}

\* A line is in an outermost function that has ended.
covered(code, d, a, m) == \E b, e \in 1 .. m : outermost(code, d, b, e) /\ b <= a /\ a <= e

\* A function ends once, and one that begins in another ends no later.
LEMMA Nested ==
  ASSUME NEW code, NEW d, isSequence(code), Depths(code, d),
         NEW a, NEW b, NEW x, NEW y, lasts(code, d, a, b), lasts(code, d, x, y), x <= a, a <= y
  PROVE  b <= y /\ (x = a => b = y)
<1>1. /\ Len(code) \in Nat /\ a \in 1 .. Len(code) /\ b \in 1 .. Len(code)
      /\ x \in 1 .. Len(code) /\ y \in 1 .. Len(code)
  BY IsSequence DEF lasts
<1>2. /\ d[a - 1] \in Int /\ d[b] \in Int /\ d[x - 1] \in Int /\ d[y] \in Int
  <2>1. /\ a - 1 \in 0 .. Len(code) /\ b \in 0 .. Len(code)
        /\ x - 1 \in 0 .. Len(code) /\ y \in 0 .. Len(code)
    BY <1>1
  <2>2. \A k \in 0 .. Len(code) : d[k] \in Int
    BY DEF Depths
  <2> QED
    BY <2>1, <2>2
<1>3. /\ a <= b /\ d[b] <= d[a - 1] /\ \A k \in a .. b - 1 : d[k] > d[a - 1]
      /\ x <= y /\ d[y] <= d[x - 1] /\ \A k \in x .. y - 1 : d[k] > d[x - 1]
  BY DEF lasts
<1>4. d[a - 1] >= d[x - 1]
  <2>1. CASE a = x
    BY <1>2, <2>1
  <2>2. CASE a # x
    <3>1. a - 1 \in x .. y - 1
      BY <1>1, <2>2
    <3> QED
      BY <1>2, <1>3, <3>1
  <2> QED
    BY <2>1, <2>2
<1>5. ~(y < b)
  <2> SUFFICES ASSUME y < b PROVE FALSE
    OBVIOUS
  <2>1. y \in a .. b - 1
    BY <1>1
  <2>2. d[y] > d[a - 1]
    BY <1>3, <2>1
  <2> QED
    BY <1>2, <1>3, <1>4, <2>2
<1>6. ASSUME x = a, b < y PROVE FALSE
  <2>1. b \in x .. y - 1
    BY <1>1, <1>3, <1>6
  <2>2. d[b] > d[x - 1]
    BY <1>3, <2>1
  <2> QED
    BY <1>2, <1>3, <1>6, <2>2
<1> QED
  BY <1>1, <1>5, <1>6

\* A function that begins where one has ended already ends there as well, and is
\* outermost only if it is that one.
LEMMA EndsCovered ==
  ASSUME NEW code, NEW d, isSequence(code), Depths(code, d), NEW m \in Nat,
         NEW a, NEW b, covered(code, d, a, m), lasts(code, d, a, b)
  PROVE  b <= m
<1>1. PICK x, y \in 1 .. m : outermost(code, d, x, y) /\ x <= a /\ a <= y
  BY DEF covered
<1>2. lasts(code, d, x, y)
  BY <1>1 DEF outermost
<1>3. b <= y
  BY <1>1, <1>2, Nested
<1>4. b \in Int
  BY IsSequence DEF lasts
<1> QED
  BY <1>1, <1>3, <1>4

\* In a balanced text a function that is open has an end.
LEMMA Closes ==
  ASSUME NEW code, NEW d, isSequence(code), Depths(code, d),
         \A k \in 0 .. Len(code) : d[k] >= 0, d[Len(code)] = 0,
         NEW o \in 1 .. Len(code), "async" \in code[o].marks,
         NEW k \in 0 .. Len(code), o <= k, \A i \in o .. k : d[i] > d[o - 1]
  PROVE  \E e \in k + 1 .. Len(code) : lasts(code, d, o, e)
<1> DEFINE S == {e \in k + 1 .. Len(code) : d[e] <= d[o - 1]}
<1>1. Len(code) \in Nat /\ \A i \in 0 .. Len(code) : d[i] \in Int
  BY IsSequence DEF Depths
<1>2. o - 1 \in 0 .. Len(code) /\ d[o - 1] >= 0 /\ d[k] > d[o - 1]
  BY <1>1
<1>3. k # Len(code)
  BY <1>1, <1>2
<1>4. Len(code) \in S /\ S \in SUBSET Nat
  BY <1>1, <1>2, <1>3
<1>5. PICK e \in S : \A x \in S : e <= x
  <2> HIDE DEF S
  <2> QED
    BY <1>4, LeastElement
<1>6. e \in k + 1 .. Len(code) /\ d[e] <= d[o - 1]
  OBVIOUS
<1>7. ASSUME NEW i \in o .. e - 1 PROVE d[i] > d[o - 1]
  <2>1. i \in 0 .. Len(code) /\ d[i] \in Int /\ d[o - 1] \in Int
    BY <1>1, <1>2, <1>6
  <2>2. CASE i <= k
    <3>1. i \in o .. k
      BY <2>2
    <3> QED
      BY <3>1
  <2>3. CASE i > k
    <3>1. i \in k + 1 .. Len(code) /\ ~(e <= i)
      BY <1>1, <1>6, <2>3
    <3> QED
      BY <1>5, <2>1, <3>1
  <2> QED
    BY <2>2, <2>3
<1>8. lasts(code, d, o, e)
  BY <1>1, <1>6, <1>7 DEF lasts
<1> QED
  BY <1>6, <1>8

\* What the scan knows after k lines: of the function that is open, that all that began
\* before it are in outermost ones that have ended, and which those are.
Flags(code, x, a, b) ==
  /\ x.line = a
  /\ x.await <=> within(code, a, b, {"await"})
  /\ x.try <=> within(code, a, b, {"try", "catch"})
opened(code, d, o, k) ==
  /\ o \in 1 .. k /\ "async" \in code[o].marks
  /\ \A i \in o .. k : d[i] > d[o - 1]
AllCovered(code, d, m) == \A a \in 1 .. m : "async" \in code[a].marks => covered(code, d, a, m)
Found(code, d, found, k) ==
  /\ \A x \in found : \E a, b \in 1 .. k : outermost(code, d, a, b) /\ Flags(code, x, a, b)
  /\ \A a, b \in 1 .. k : outermost(code, d, a, b) => \E x \in found : Flags(code, x, a, b)
ScanOK(code, d, s, k) ==
  /\ s.line = k + 1 /\ s.depth = d[k]
  /\ s.open # 0 => /\ opened(code, d, s.open, k) /\ s.start = d[s.open - 1]
                   /\ s.await <=> within(code, s.open, k, {"await"})
                   /\ s.try <=> within(code, s.open, k, {"try", "catch"})
  /\ AllCovered(code, d, IF s.open = 0 THEN k ELSE s.open - 1)
  /\ Found(code, d, s.found, k)

Balanced(code, d) == (\A k \in 0 .. Len(code) : d[k] >= 0) /\ d[Len(code)] = 0

\* What is covered stays so.
LEMMA CoveredLater ==
  ASSUME NEW code, NEW d, NEW m \in Int, NEW n \in Int, m <= n, NEW a, covered(code, d, a, m)
  PROVE  covered(code, d, a, n)
<1>1. PICK b, e \in 1 .. m : outermost(code, d, b, e) /\ b <= a /\ a <= e
  BY DEF covered
<1>2. b \in 1 .. n /\ e \in 1 .. n
  OBVIOUS
<1> QED
  BY <1>1, <1>2 DEF covered

\* What a line adds to what lines have.
LEMMA WithinNext ==
  ASSUME NEW code, NEW k \in Nat, NEW a \in 1 .. k, NEW marks
  PROVE  within(code, a, k, marks) <=> \/ a < k /\ within(code, a, k - 1, marks)
                                       \/ marks \cap code[k].marks # {}
<1>1. \A i : i \in a .. k <=> (a < k /\ i \in a .. k - 1) \/ i = k
  OBVIOUS
<1> QED
  BY <1>1 DEF within

\* The function that a line is in.
LEMMA Origin ==
  ASSUME NEW code, NEW d, isSequence(code), Depths(code, d),
         NEW k \in 1 .. Len(code), NEW s \in ScanStates, ScanOK(code, d, s, k - 1),
         inside(s, code[k])
  PROVE  LET o == origin(s, code[k])
         IN /\ o \in 1 .. k /\ "async" \in code[o].marks /\ ground(s, code[k]) = d[o - 1]
            /\ \A i \in o .. k - 1 : d[i] > d[o - 1]
            /\ awaits(s, code[k]) <=> within(code, o, k, {"await"})
            /\ tries(s, code[k]) <=> within(code, o, k, {"try", "catch"})
            /\ AllCovered(code, d, o - 1)
<1> DEFINE line == code[k]
           o == origin(s, line)
<1>1. k \in Nat /\ s.open \in Nat /\ s.line = k - 1 + 1 /\ s.depth = d[k - 1]
  BY IsSequence DEF ScanOK, ScanStates
<1>2. ({"await"} \cap line.marks # {} <=> "await" \in line.marks)
  OBVIOUS
<1>3. CASE begins(s, line)
  <2>1. s.open = 0 /\ "async" \in line.marks /\ o = k /\ ground(s, line) = d[k - 1]
    BY <1>1, <1>3 DEF begins, origin, ground
  <2>2. AllCovered(code, d, k - 1)
    BY <2>1 DEF ScanOK
  <2>3. k \in 1 .. k /\ \A marks : within(code, k, k, marks) <=> marks \cap code[k].marks # {}
    <3>1. \A i : i \in k .. k <=> i = k
      BY <1>1
    <3>2. k \in 1 .. k
      BY IsSequence
    <3> QED
      BY <3>1, <3>2 DEF within
  <2>4. /\ awaits(s, line) <=> "await" \in line.marks
        /\ tries(s, line) <=> {"try", "catch"} \cap line.marks # {}
    BY <1>3 DEF awaits, tries
  <2>5. \A i \in k .. k - 1 : FALSE
    BY <1>1
  <2> HIDE DEF o
  <2> QED
    BY <1>2, <2>1, <2>2, <2>3, <2>4, <2>5 DEF o
<1>4. CASE ~begins(s, line)
  <2>1. s.open # 0 /\ o = s.open /\ ground(s, line) = s.start
    BY <1>1, <1>4 DEF inside, origin, ground
  <2>2. /\ opened(code, d, o, k - 1) /\ s.start = d[o - 1]
        /\ s.await <=> within(code, o, k - 1, {"await"})
        /\ s.try <=> within(code, o, k - 1, {"try", "catch"})
        /\ AllCovered(code, d, o - 1)
    BY <2>1 DEF ScanOK
  <2> HIDE DEF o
  <2>3. o \in 1 .. k - 1 /\ "async" \in code[o].marks /\ \A i \in o .. k - 1 : d[i] > d[o - 1]
    BY <2>2 DEF opened
  <2>4. o \in 1 .. k /\ o < k
    BY <1>1, <2>3
  <2>5. \A marks : within(code, o, k, marks) <=> \/ within(code, o, k - 1, marks)
                                                  \/ marks \cap code[k].marks # {}
    BY <1>1, <2>4, WithinNext
  <2>6. /\ awaits(s, line) <=> s.await \/ "await" \in line.marks
        /\ tries(s, line) <=> s.try \/ {"try", "catch"} \cap line.marks # {}
    BY <1>4 DEF awaits, tries
  <2>7. awaits(s, line) <=> within(code, o, k, {"await"})
    BY <1>2, <2>2, <2>5, <2>6
  <2>8. tries(s, line) <=> within(code, o, k, {"try", "catch"})
    BY <2>2, <2>5, <2>6
  <2> QED
    BY <2>1, <2>2, <2>3, <2>4, <2>7, <2>8 DEF o
<1> QED
  BY <1>3, <1>4

\* No outermost function ends at a line unless it is the one the line is in.
LEMMA EndsHere ==
  ASSUME NEW code, NEW d, isSequence(code), Depths(code, d), NEW o \in 1 .. Len(code),
         AllCovered(code, d, o - 1),
         NEW a, NEW k \in 1 .. Len(code), o <= k, lasts(code, d, a, k)
  PROVE  a >= o
<1>1. a \in 1 .. Len(code) /\ "async" \in code[a].marks /\ Len(code) \in Nat
  BY IsSequence DEF lasts
<1> SUFFICES ASSUME a < o PROVE FALSE
  BY <1>1
<1>2. a \in 1 .. o - 1 /\ o - 1 \in Nat
  BY <1>1
<1>3. covered(code, d, a, o - 1)
  BY <1>1, <1>2 DEF AllCovered
<1>4. k <= o - 1
  BY <1>2, <1>3, EndsCovered
<1> QED
  BY <1>1, <1>4

LEMMA ScanKept ==
  ASSUME NEW code, NEW d, isSequence(code), Depths(code, d), Balanced(code, d),
         \A i \in DOMAIN code : code[i].net \in Int,
         NEW k \in 1 .. Len(code), NEW s \in ScanStates, ScanOK(code, d, s, k - 1)
  PROVE  ScanOK(code, d, scanLine(s, code[k]), k)
<1> DEFINE line == code[k]
           t == scanLine(s, line)
           o == origin(s, line)
<1>1. Len(code) \in Nat /\ DOMAIN code = 1 .. Len(code) /\ k \in Nat /\ k - 1 \in Nat /\ line.net \in Int
  BY IsSequence
<1>2. s.line = k - 1 + 1 /\ s.depth = d[k - 1] /\ Found(code, d, s.found, k - 1)
  BY DEF ScanOK
<1>3. t.line = k + 1 /\ t.depth = d[k] /\ d[k] = s.depth + line.net
  BY <1>1, <1>2, ScanLine DEF Depths
<1>4. \A a, b : outermost(code, d, a, b) => a \in 1 .. Len(code) /\ b \in 1 .. Len(code) /\ a <= b /\ lasts(code, d, a, b)
  BY DEF outermost, lasts
<1>5. \A x \in s.found : \E a, b \in 1 .. k : outermost(code, d, a, b) /\ Flags(code, x, a, b)
  <2>1. \A a \in 1 .. k - 1 : a \in 1 .. k
    BY <1>1
  <2> QED
    BY <1>2, <2>1 DEF Found
<1>6. \A a, b \in 1 .. k : outermost(code, d, a, b) /\ b # k => \E x \in s.found : Flags(code, x, a, b)
  <2>1. \A a, b \in 1 .. k : a <= b /\ b # k => a \in 1 .. k - 1 /\ b \in 1 .. k - 1
    BY <1>1
  <2> QED
    BY <1>2, <1>4, <2>1 DEF Found
<1> HIDE DEF t
<1>7. CASE ~inside(s, line)
  <2>1. s.open = 0 /\ "async" \notin line.marks
    BY <1>7 DEF inside, begins, ScanStates
  <2>2. t.open = 0 /\ t.found = s.found
    BY <1>1, <1>7, ScanLine DEF t, ends
  <2>3. AllCovered(code, d, k - 1)
    BY <2>1 DEF ScanOK
  <2>4. AllCovered(code, d, k)
    <3> SUFFICES ASSUME NEW a \in 1 .. k, "async" \in code[a].marks PROVE covered(code, d, a, k)
      BY DEF AllCovered
    <3>1. a \in 1 .. k - 1
      BY <1>1, <2>1
    <3>2. covered(code, d, a, k - 1)
      BY <2>3, <3>1 DEF AllCovered
    <3> QED
      BY <1>1, <3>2, CoveredLater
  <2>5. \A a, b \in 1 .. k : outermost(code, d, a, b) => b # k
    <3> SUFFICES ASSUME NEW a \in 1 .. k, outermost(code, d, a, k) PROVE FALSE
      OBVIOUS
    <3>1. a >= k
      BY <1>1, <1>4, <2>3, EndsHere
    <3>2. a = k
      BY <1>1, <3>1
    <3> QED
      BY <2>1, <3>2 DEF outermost, lasts
  <2>6. Found(code, d, t.found, k)
    BY <1>5, <1>6, <2>2, <2>5 DEF Found
  <2> QED
    BY <1>3, <2>2, <2>4, <2>6 DEF ScanOK, t
<1>8. ASSUME inside(s, line)
      PROVE  /\ o \in 1 .. k /\ o \in 1 .. Len(code) /\ "async" \in code[o].marks /\ ground(s, line) = d[o - 1]
             /\ \A i \in o .. k - 1 : d[i] > d[o - 1]
             /\ awaits(s, line) <=> within(code, o, k, {"await"})
             /\ tries(s, line) <=> within(code, o, k, {"try", "catch"})
             /\ AllCovered(code, d, o - 1)
             /\ \A a, b \in 1 .. k : outermost(code, d, a, b) /\ b = k => a >= o
  <2> HIDE DEF o
  <2>1. /\ o \in 1 .. k /\ "async" \in code[o].marks /\ ground(s, line) = d[o - 1]
        /\ \A i \in o .. k - 1 : d[i] > d[o - 1]
        /\ awaits(s, line) <=> within(code, o, k, {"await"})
        /\ tries(s, line) <=> within(code, o, k, {"try", "catch"})
        /\ AllCovered(code, d, o - 1)
    BY <1>8, Origin DEF o
  <2>2. o \in 1 .. Len(code) /\ o <= k
    BY <1>1, <2>1
  <2>3. \A a, b \in 1 .. k : outermost(code, d, a, b) /\ b = k => a >= o
    BY <1>1, <1>4, <2>1, <2>2, EndsHere
  <2> QED
    BY <2>1, <2>2, <2>3
<1> HIDE DEF o
<1>9. inside(s, line) => d[o - 1] \in Int /\ d[k] \in Int
  <2>1. inside(s, line) => o - 1 \in 0 .. Len(code)
    BY <1>1, <1>8
  <2> QED
    BY <1>1, <2>1 DEF Depths
<1>10. CASE inside(s, line) /\ ~ends(s, line)
  <2>1. t.open = o /\ t.start = d[o - 1] /\ t.found = s.found /\ o # 0
        /\ (t.await <=> awaits(s, line)) /\ (t.try <=> tries(s, line))
    BY <1>1, <1>8, <1>10, ScanLine DEF t, o
  <2>2. d[k] > d[o - 1]
    BY <1>3, <1>8, <1>9, <1>10 DEF ends
  <2>3. \A i \in o .. k : d[i] > d[o - 1]
    <3>1. \A i \in o .. k : i = k \/ i \in o .. k - 1
      BY <1>1, <1>8, <1>10
    <3> QED
      BY <1>8, <1>10, <2>2, <3>1
  <2>4. opened(code, d, o, k)
    BY <1>8, <1>10, <2>3 DEF opened
  <2>5. PICK e \in k + 1 .. Len(code) : lasts(code, d, o, e)
    <3>1. k \in 0 .. Len(code) /\ o <= k
      BY <1>1, <1>8, <1>10
    <3> QED
      BY <1>8, <1>10, <2>3, <3>1, Closes DEF Balanced
  <2>6. \A a, b \in 1 .. k : outermost(code, d, a, b) => b # k
    <3> SUFFICES ASSUME NEW a \in 1 .. k, outermost(code, d, a, k) PROVE FALSE
      OBVIOUS
    <3>1. a >= o /\ a <= k /\ k < e /\ o \in 1 .. Len(code) /\ e \in 1 .. Len(code)
      BY <1>1, <1>8, <1>10, <2>5
    <3>2. a # o
      BY <1>4, <1>9, <1>10, <2>2 DEF lasts
    <3>3. o < a /\ a <= e
      BY <1>1, <3>1, <3>2
    <3> QED
      BY <2>5, <3>1, <3>3 DEF outermost
  <2>7. Found(code, d, t.found, k)
    BY <1>5, <1>6, <2>1, <2>6 DEF Found
  <2>8. AllCovered(code, d, IF t.open = 0 THEN k ELSE t.open - 1)
    BY <1>8, <1>10, <2>1
  <2> QED
    BY <1>3, <1>8, <1>10, <2>1, <2>4, <2>7, <2>8 DEF ScanOK, t
<1>11. CASE inside(s, line) /\ ends(s, line)
  <2>1. PICK z : t.found = s.found \cup {z} /\ z.line = o
                 /\ (z.await <=> awaits(s, line)) /\ (z.try <=> tries(s, line))
    BY <1>1, <1>11, ScanLine DEF t, o
  <2>2. t.open = 0
    BY <1>1, <1>11, ScanLine DEF t
  <2>3. Flags(code, z, o, k)
    BY <1>8, <1>11, <2>1 DEF Flags
  <2>4. lasts(code, d, o, k)
    <3>1. d[k] <= d[o - 1]
      BY <1>3, <1>8, <1>11 DEF ends
    <3>2. o <= k /\ o \in 1 .. Len(code)
      BY <1>1, <1>8, <1>11
    <3> QED
      BY <1>8, <1>11, <3>1, <3>2 DEF lasts
  <2>5. outermost(code, d, o, k)
    <3> SUFFICES ASSUME NEW x \in 1 .. Len(code), NEW y \in 1 .. Len(code), lasts(code, d, x, y),
                        x < o, o <= y
                 PROVE  FALSE
      BY <2>4 DEF outermost
    <3>1. x >= o
      BY <1>8, <1>11, EndsHere
    <3> QED
      BY <1>1, <1>8, <1>11, <3>1
  <2>6. \A a, b \in 1 .. k : outermost(code, d, a, b) /\ b = k => a = o
    <3> SUFFICES ASSUME NEW a \in 1 .. k, outermost(code, d, a, k), a # o PROVE FALSE
      OBVIOUS
    <3>1. o < a /\ a <= k /\ o \in 1 .. Len(code)
      BY <1>1, <1>8, <1>11
    <3> QED
      BY <2>4, <3>1 DEF outermost
  <2>7. Found(code, d, t.found, k)
    <3>1. \A x \in t.found : \E a, b \in 1 .. k : outermost(code, d, a, b) /\ Flags(code, x, a, b)
      <4>1. k \in 1 .. k
        BY <1>1
      <4> QED
        BY <1>5, <1>8, <1>11, <2>1, <2>3, <2>5, <4>1
    <3>2. \A a, b \in 1 .. k : outermost(code, d, a, b) => \E x \in t.found : Flags(code, x, a, b)
      BY <1>6, <2>1, <2>3, <2>6
    <3> QED
      BY <3>1, <3>2 DEF Found
  <2>8. AllCovered(code, d, k)
    <3> SUFFICES ASSUME NEW a \in 1 .. k, "async" \in code[a].marks PROVE covered(code, d, a, k)
      BY DEF AllCovered
    <3>1. CASE a < o
      <4>1. a \in 1 .. o - 1 /\ o - 1 \in Int /\ k \in Int /\ o - 1 <= k
        BY <1>1, <1>8, <1>11, <3>1
      <4>2. covered(code, d, a, o - 1)
        BY <1>8, <1>11, <4>1 DEF AllCovered
      <4> QED
        BY <4>1, <4>2, CoveredLater
    <3>2. CASE o <= a
      <4>1. o \in 1 .. k /\ k \in 1 .. k /\ a <= k
        BY <1>1, <1>8, <1>11
      <4> QED
        BY <2>5, <3>2, <4>1 DEF covered
    <3> QED
      BY <1>1, <1>8, <1>11, <3>1, <3>2
  <2> QED
    BY <1>3, <2>2, <2>7, <2>8 DEF ScanOK, t
<1> QED
  BY <1>7, <1>10, <1>11

\* An await is reported if it is in an outermost function without a handler.
LEMMA AwaitsReported ==
  ASSUME NEW code, NEW d, isSequence(code), Depths(code, d), Balanced(code, d),
         \A i \in DOMAIN code : code[i].net \in Int,
         NEW manifest, manifest.errorHandling = "try-catch"
  PROVE  checkErrorHandling(code, manifest)
         = {a \in DOMAIN code : \E b \in DOMAIN code :
              /\ outermost(code, d, a, b) /\ within(code, a, b, {"await"})
              /\ ~within(code, a, b, {"try", "catch"})}
<1> DEFINE l == Len(code)
<1>1. l \in Nat /\ DOMAIN code = 1 .. l
  BY IsSequence
<1>2. PICK r : /\ Scan(code, r)
               /\ findAsyncFunctions(code)
                  = r[l].found \cup {[line |-> i, await |-> r[l].await, try |-> r[l].try] : i \in {r[l].open} \ {0}}
  BY Scanned
<1> HIDE DEF l
<1>3. ScanOK(code, d, r[0], 0)
  <2>1. /\ r[0].line = 1 /\ r[0].depth = 0 /\ r[0].open = 0 /\ r[0].found = {}
    BY <1>2 DEF Scan, NothingOpen
  <2>2. d[0] = 0
    BY DEF Depths
  <2>3. \A a \in 1 .. 0 : FALSE
    OBVIOUS
  <2> QED
    BY <2>1, <2>2, <2>3 DEF ScanOK, AllCovered, Found
<1>4. ScanOK(code, d, r[l], l) /\ r[l] \in ScanStates
  <2> DEFINE T == {k \in 0 .. l : ScanOK(code, d, r[k], k)}
  <2>1. 0 \in T
    BY <1>1, <1>3
  <2>2. ASSUME NEW k \in 1 .. l, k - 1 \in T PROVE k \in T
    <3>1. r[k] = scanLine(r[k - 1], code[k]) /\ r[k - 1] \in ScanStates
      BY <1>1, <1>2 DEF Scan, l
    <3>2. ScanOK(code, d, r[k - 1], k - 1)
      BY <2>2
    <3>3. ScanOK(code, d, r[k], k)
      BY <3>1, <3>2, ScanKept DEF l
    <3> QED
      BY <1>1, <3>3
  <2> HIDE DEF T
  <2>3. \A k \in 0 .. l : k \in T
    BY <1>1, <2>1, <2>2, EachStep
  <2>4. l \in T
    BY <1>1, <2>3
  <2> QED
    BY <1>1, <1>2, <2>4 DEF T, Scan, l
<1>5. r[l].open = 0
  <2> DEFINE o == r[l].open
  <2> SUFFICES ASSUME o # 0 PROVE FALSE
    OBVIOUS
  <2>1. o \in 1 .. l /\ "async" \in code[o].marks /\ \A i \in o .. l : d[i] > d[o - 1]
    BY <1>4 DEF ScanOK, opened
  <2> HIDE DEF o
  <2>2. \E e \in l + 1 .. Len(code) : lasts(code, d, o, e)
    <3>1. o <= l /\ l \in 0 .. Len(code) /\ o \in 1 .. Len(code)
      BY <1>1, <2>1 DEF l
    <3> QED
      BY <2>1, <3>1, Closes DEF Balanced
  <2> QED
    BY <1>1, <2>2 DEF l
<1>6. findAsyncFunctions(code) = r[l].found
  BY <1>2, <1>5
<1>7. checkErrorHandling(code, manifest) = {f.line : f \in {g \in r[l].found : g.await /\ ~g.try}}
  BY <1>6 DEF checkErrorHandling
<1>8. \A x \in r[l].found : \E a, b \in 1 .. l : outermost(code, d, a, b) /\ Flags(code, x, a, b)
  BY <1>4 DEF ScanOK, Found
<1>9. \A a, b \in 1 .. l : outermost(code, d, a, b) => \E x \in r[l].found : Flags(code, x, a, b)
  BY <1>4 DEF ScanOK, Found
<1> DEFINE bad == {a \in DOMAIN code : \E b \in DOMAIN code :
                     /\ outermost(code, d, a, b) /\ within(code, a, b, {"await"})
                     /\ ~within(code, a, b, {"try", "catch"})}
<1>10. ASSUME NEW i \in checkErrorHandling(code, manifest) PROVE i \in bad
  <2>1. PICK x \in r[l].found : x.await /\ ~x.try /\ i = x.line
    BY <1>7
  <2>2. PICK a, b \in 1 .. l : outermost(code, d, a, b) /\ Flags(code, x, a, b)
    BY <1>8
  <2> QED
    BY <1>1, <2>1, <2>2 DEF Flags
<1>11. ASSUME NEW a \in bad PROVE a \in checkErrorHandling(code, manifest)
  <2>1. PICK b \in DOMAIN code : /\ outermost(code, d, a, b) /\ within(code, a, b, {"await"})
                                 /\ ~within(code, a, b, {"try", "catch"})
    OBVIOUS
  <2>2. PICK x \in r[l].found : Flags(code, x, a, b)
    BY <1>1, <1>9, <2>1
  <2>3. x.line = a /\ x.await /\ ~x.try
    BY <2>1, <2>2 DEF Flags
  <2> QED
    BY <1>7, <2>3
<1> QED
  BY <1>10, <1>11

\* The sums of the braces up to each line are how deep they are.
LEMMA DepthsSummed ==
  ASSUME NEW code, isSequence(code), \A i \in DOMAIN code : code[i].net \in Int
  PROVE  Depths(code, [i \in 0 .. Len(code) |-> sum(SubSeq([k \in DOMAIN code |-> code[k].net], 1, i))])
<1> DEFINE l == Len(code)
           nets == [k \in DOMAIN code |-> code[k].net]
           d == [i \in 0 .. l |-> sum(SubSeq(nets, 1, i))]
<1>1. l \in Nat /\ DOMAIN code = 1 .. l
  BY IsSequence
<1>2. nets \in Seq(Int) /\ Len(nets) = l /\ \A k \in 1 .. l : nets[k] = code[k].net
  <2>1. nets = [k \in 1 .. l |-> code[k].net] /\ \A k \in 1 .. l : code[k].net \in Int
    BY <1>1
  <2> HIDE DEF nets, l
  <2> QED
    BY <1>1, <2>1
<1> HIDE DEF nets, l
<1>3. PICK q : Sums(nets, q)
  BY <1>2, SummedUp
<1>4. ASSUME NEW i \in 0 .. l PROVE sum(SubSeq(nets, 1, i)) = q[i]
  <2> DEFINE c == SubSeq(nets, 1, i)
  <2>1. c \in Seq(Int) /\ Len(c) = i /\ i \in Nat /\ \A k \in 1 .. i : c[k] = nets[k]
    BY <1>1, <1>2
  <2> HIDE DEF c
  <2>2. PICK p : Sums(c, p) /\ sum(c) = p[Len(c)]
    BY <2>1, SummedUp
  <2>3. p[i] = q[i]
    BY <1>1, <1>2, <1>3, <2>1, <2>2, SameSums
  <2> QED
    BY <2>1, <2>2, <2>3 DEF c
<1>5. d = q
  <2>1. q \in [0 .. l -> Int]
    BY <1>2, <1>3 DEF Sums
  <2> QED
    BY <1>4, <2>1
<1>6. Depths(code, q)
  BY <1>2, <1>3 DEF Sums, Depths, l
<1> QED
  BY <1>5, <1>6 DEF d, nets, l
------------------------------------------------------------------------------
(* Quality: repeated blocks. *)

\* The first line that begins the same block.
LEMMA FirstLine ==
  ASSUME NEW code, NEW i \in Nat, i >= 1
  PROVE  /\ firstOf(code, i) \in 1 .. i
         /\ blockKey(code, firstOf(code, i)) = blockKey(code, i)
         /\ \A g \in 1 .. i : blockKey(code, g) = blockKey(code, i) => firstOf(code, i) <= g
<1> DEFINE S == {f \in 1 .. i : blockKey(code, f) = blockKey(code, i)}
<1>1. i \in S /\ S \in SUBSET Nat
  OBVIOUS
<1>2. PICK f \in S : \A g \in S : f <= g
  <2> HIDE DEF S
  <2> QED
    BY <1>1, LeastElement
<1>3. f \in 1 .. i /\ blockKey(code, f) = blockKey(code, i)
  OBVIOUS
<1>4. \A g \in 1 .. f - 1 : blockKey(code, g) # blockKey(code, i)
  <2> SUFFICES ASSUME NEW g \in 1 .. f - 1, blockKey(code, g) = blockKey(code, i) PROVE FALSE
    OBVIOUS
  <2>1. g \in S /\ g < f
    BY <1>3
  <2> HIDE DEF S
  <2> QED
    BY <1>1, <1>2, <2>1
<1>5. /\ firstOf(code, i) \in 1 .. i
      /\ blockKey(code, firstOf(code, i)) = blockKey(code, i)
      /\ \A g \in 1 .. firstOf(code, i) - 1 : blockKey(code, g) # blockKey(code, i)
  <2>1. \E h \in 1 .. i : /\ blockKey(code, h) = blockKey(code, i)
                          /\ \A g \in 1 .. h - 1 : blockKey(code, g) # blockKey(code, i)
    BY <1>3, <1>4
  <2> QED
    BY <2>1, Zenon DEF firstOf
<1> HIDE DEF S
<1>6. ASSUME NEW g \in 1 .. i, blockKey(code, g) = blockKey(code, i) PROVE firstOf(code, i) <= g
  <2>1. ~(g \in 1 .. firstOf(code, i) - 1)
    BY <1>5, <1>6
  <2> QED
    BY <1>5, <2>1
<1> QED
  BY <1>5, <1>6

\* Where the same block begins, it begins first.
LEMMA SameFirst ==
  ASSUME NEW code, NEW i \in Nat, NEW j \in Nat, 1 <= i, i < j, blockKey(code, i) = blockKey(code, j)
  PROVE  firstOf(code, i) = firstOf(code, j) /\ firstOf(code, j) # j
<1>1. /\ firstOf(code, i) \in 1 .. i /\ blockKey(code, firstOf(code, i)) = blockKey(code, i)
      /\ \A g \in 1 .. i : blockKey(code, g) = blockKey(code, i) => firstOf(code, i) <= g
  BY FirstLine
<1>2. /\ firstOf(code, j) \in 1 .. j /\ blockKey(code, firstOf(code, j)) = blockKey(code, j)
      /\ \A g \in 1 .. j : blockKey(code, g) = blockKey(code, j) => firstOf(code, j) <= g
  BY FirstLine
<1>3. firstOf(code, i) \in 1 .. j
  BY <1>1
<1>4. firstOf(code, j) <= firstOf(code, i)
  BY <1>1, <1>2, <1>3
<1>5. firstOf(code, j) \in 1 .. i
  BY <1>1, <1>2, <1>4
<1>6. firstOf(code, i) <= firstOf(code, j)
  BY <1>1, <1>2, <1>5
<1> QED
  BY <1>1, <1>2, <1>4, <1>6

\* What is reported of the lines up to one.
Repeats(code, issues, k) ==
  /\ \A x \in issues : /\ x.first \in 1 .. k /\ x.line \in 1 .. k /\ x.first < x.line
                       /\ blockKey(code, x.first) # <<>> /\ blockKey(code, x.first) = blockKey(code, x.line)
  /\ \A j \in 1 .. k : blockKey(code, j) # <<>> /\ firstOf(code, j) # j =>
       \E x \in issues : beginsWith(x.first, firstOf(code, j)) \/ beginsWith(x.line, firstOf(code, j))

Issues == SUBSET [line : Nat, first : Nat]

LEMMA RepeatsKept ==
  ASSUME NEW code, NEW k \in Nat, k >= 1, NEW issues \in Issues
  PROVE  /\ reportBlock(code, issues, k) \in Issues
         /\ Repeats(code, issues, k - 1) => Repeats(code, reportBlock(code, issues, k), k)
<1> DEFINE f == firstOf(code, k)
           told == \E x \in issues : beginsWith(x.line, f) \/ beginsWith(x.first, f)
           x0 == [line |-> k, first |-> f]
<1>1. f \in 1 .. k /\ blockKey(code, f) = blockKey(code, k)
  BY FirstLine
<1>2. reportBlock(code, issues, k) = IF blockKey(code, k) = <<>> \/ f = k \/ told THEN issues ELSE issues \cup {x0}
  BY DEF reportBlock
<1>3. x0 \in [line : Nat, first : Nat] /\ x0.line = k /\ x0.first = f
  BY <1>1
<1>4. beginsWith(f, f)
  BY DEF beginsWith
<1> HIDE DEF x0, f
<1>5. reportBlock(code, issues, k) \in Issues
  BY <1>2, <1>3 DEF Issues
<1>6. ASSUME Repeats(code, issues, k - 1) PROVE Repeats(code, reportBlock(code, issues, k), k)
  <2> DEFINE after == reportBlock(code, issues, k)
  <2>1. \A j \in 1 .. k - 1 : j \in 1 .. k
    OBVIOUS
  <2>2. \A x \in issues : /\ x.first \in 1 .. k /\ x.line \in 1 .. k /\ x.first < x.line
                          /\ blockKey(code, x.first) # <<>> /\ blockKey(code, x.first) = blockKey(code, x.line)
    BY <1>6, <2>1 DEF Repeats
  <2>3. \A j \in 1 .. k - 1 : blockKey(code, j) # <<>> /\ firstOf(code, j) # j =>
          \E x \in issues : beginsWith(x.first, firstOf(code, j)) \/ beginsWith(x.line, firstOf(code, j))
    BY <1>6 DEF Repeats
  <2>4. CASE blockKey(code, k) = <<>> \/ f = k \/ told
    <3>1. after = issues
      BY <1>2, <2>4
    <3>2. \A j \in 1 .. k : j = k \/ j \in 1 .. k - 1
      OBVIOUS
    <3>3. blockKey(code, k) # <<>> /\ f # k => \E x \in issues : beginsWith(x.first, f) \/ beginsWith(x.line, f)
      BY <2>4
    <3> QED
      BY <2>2, <2>3, <3>1, <3>2, <3>3 DEF Repeats, f
  <2>5. CASE ~(blockKey(code, k) = <<>> \/ f = k \/ told)
    <3>1. after = issues \cup {x0}
      BY <1>2, <2>5
    <3>2. \A j \in 1 .. k : j = k \/ j \in 1 .. k - 1
      OBVIOUS
    <3>3. f < k /\ k \in 1 .. k
      BY <1>1, <2>5
    <3>4. \A x \in after : /\ x.first \in 1 .. k /\ x.line \in 1 .. k /\ x.first < x.line
                           /\ blockKey(code, x.first) # <<>> /\ blockKey(code, x.first) = blockKey(code, x.line)
      BY <1>1, <1>3, <2>2, <2>5, <3>1, <3>3
    <3>5. \E x \in after : beginsWith(x.first, f) \/ beginsWith(x.line, f)
      BY <1>3, <1>4, <3>1
    <3>6. \A j \in 1 .. k : blockKey(code, j) # <<>> /\ firstOf(code, j) # j =>
            \E x \in after : beginsWith(x.first, firstOf(code, j)) \/ beginsWith(x.line, firstOf(code, j))
      BY <2>3, <3>1, <3>2, <3>5 DEF f
    <3> HIDE DEF after
    <3> QED
      BY <3>4, <3>6 DEF Repeats, after
  <2> QED
    BY <2>4, <2>5
<1> QED
  BY <1>5, <1>6

\* Line by line.
LEMMA RepeatsDetected ==
  ASSUME NEW code, isSequence(code)
  PROVE  Repeats(code, detectDuplicateBlocks(code), Len(code))
<1> DEFINE l == Len(code)
           Upto(g) == g = [n \in 0 .. l |-> IF n = 0 THEN {} ELSE reportBlock(code, g[n - 1], n)]
           step == [k \in 1 .. l |-> [x \in Issues |-> reportBlock(code, x, k)]]
<1>1. l \in Nat
  BY IsSequence
<1>2. {} \in Issues
  BY DEF Issues
<1>3. /\ step \in [1 .. l -> [Issues -> Issues]]
      /\ \A k \in 1 .. l : \A x \in Issues : step[k][x] = reportBlock(code, x, k)
  <2>1. \A k \in 1 .. l : \A x \in Issues : reportBlock(code, x, k) \in Issues
    BY <1>1, RepeatsKept
  <2> QED
    BY <2>1
<1> HIDE DEF l, step
<1>4. PICK r \in [0 .. l -> Issues] : Iterates(r, l, step, {})
  BY <1>1, <1>2, <1>3, Iteration
<1>5. r[0] = {} /\ \A k \in 1 .. l : r[k] = reportBlock(code, r[k - 1], k)
  <2>1. \A k \in 1 .. l : k - 1 \in 0 .. l
    BY <1>1
  <2> QED
    BY <1>3, <1>4, <2>1 DEF Iterates
<1>6. Upto(r)
  <2>1. ASSUME NEW k \in 0 .. l PROVE r[k] = IF k = 0 THEN {} ELSE reportBlock(code, r[k - 1], k)
    BY <1>1, <1>5
  <2> QED
    BY <1>4, <2>1
<1> DEFINE f == CHOOSE g : Upto(g)
<1>7. Upto(f)
  <2> HIDE DEF Upto
  <2> QED
    BY <1>6
<1>8. detectDuplicateBlocks(code) = f[l]
  BY DEF detectDuplicateBlocks, l
<1> HIDE DEF f
<1>9. \A k \in 0 .. l : f[k] = IF k = 0 THEN {} ELSE reportBlock(code, f[k - 1], k)
  BY <1>7, Zenon
<1> DEFINE T == {k \in 0 .. l : f[k] \in Issues /\ Repeats(code, f[k], k)}
<1>10. 0 \in T
  <2>1. f[0] = {}
    BY <1>1, <1>9
  <2>2. Repeats(code, {}, 0)
    BY DEF Repeats
  <2>3. 0 \in 0 .. l /\ f[0] \in Issues /\ Repeats(code, f[0], 0)
    BY <1>1, <1>2, <2>1, <2>2
  <2> QED
    BY <2>3
<1>11. ASSUME NEW k \in 1 .. l, k - 1 \in T PROVE k \in T
  <2>1. k \in 0 .. l /\ k # 0 /\ k \in Nat /\ k >= 1 /\ f[k - 1] \in Issues /\ Repeats(code, f[k - 1], k - 1)
    BY <1>1, <1>11
  <2>2. f[k] = reportBlock(code, f[k - 1], k)
    BY <1>9, <2>1
  <2> QED
    BY <2>1, <2>2, RepeatsKept
<1> HIDE DEF T
<1>12. \A k \in 0 .. l : k \in T
  BY <1>1, <1>10, <1>11, EachStep
<1>13. l \in T
  BY <1>1, <1>12
<1> QED
  BY <1>8, <1>13 DEF T, l

\* A text without a line that says something repeats nothing.
LEMMA BlankRepeats ==
  ASSUME NEW code, blank(code), isSequence(code), NEW i \in DOMAIN code
  PROVE  blockKey(code, i) = <<>>
<1>1. code[i].text = ""
  <2>1. code[i] = Plain
    BY DEF blank
  <2>2. \A text, chars, net, import, calls, names, comment, closes, marks :
          [text |-> text, chars |-> chars, net |-> net, import |-> import, calls |-> calls, names |-> names,
           comment |-> comment, closes |-> closes, marks |-> marks].text = text
    OBVIOUS
  <2>3. Plain.text = ""
    BY <2>2 DEF Plain
  <2> QED
    BY <2>1, <2>3
<1>2. block(code, i) = {}
  BY <1>1 DEF block
<1>3. Subsequence(code, {}) = <<>>
  <2>1. Cardinality({}) = 0
    BY FS_EmptySet
  <2> QED
    BY <2>1 DEF Subsequence
<1>4. Len(<<>>) # BlockLines
  BY DEF BlockLines
<1> QED
  BY <1>2, <1>3, <1>4 DEF blockKey
------------------------------------------------------------------------------
(* Quality: imports. *)

LEMMA Singles ==
  /\ isSequence(<<>>) /\ toSet(<<>>) = {}
  /\ \A x : isSequence(<<x>>) /\ toSet(<<x>>) = {x}
  /\ \A x, y : isSequence(<<x, y>>) /\ toSet(<<x, y>>) = {x, y}
<1>1. isSequence(<<>>) /\ toSet(<<>>) = {}
  BY DEF isSequence, toSet
<1>2. ASSUME NEW x PROVE isSequence(<<x>>) /\ toSet(<<x>>) = {x}
  <2>1. <<x>> \in Seq({x}) /\ DOMAIN <<x>> = 1 .. 1 /\ <<x>>[1] = x
    OBVIOUS
  <2>2. toSet(<<x>>) = {x}
    BY <2>1 DEF toSet
  <2> QED
    BY <2>1, <2>2 DEF isSequence
<1>3. ASSUME NEW x, NEW y PROVE isSequence(<<x, y>>) /\ toSet(<<x, y>>) = {x, y}
  <2>1. <<x, y>> \in Seq({x, y}) /\ DOMAIN <<x, y>> = 1 .. 2 /\ <<x, y>>[1] = x /\ <<x, y>>[2] = y
    OBVIOUS
  <2>2. \A k : k \in 1 .. 2 <=> k = 1 \/ k = 2
    OBVIOUS
  <2>3. toSet(<<x, y>>) = {x, y}
    BY <2>1, <2>2 DEF toSet
  <2> QED
    BY <2>1, <2>3 DEF isSequence
<1> QED
  BY <1>1, <1>2, <1>3

\* The same path with another extension, and the index of the directory it names.
withExt(q, e) == [dir |-> q.dir, stem |-> q.stem, ext |-> e]
indexOf(q, e) == [dir |-> Append(q.dir, q.stem), stem |-> "index", ext |-> e]

LEMMA ExtensionsListed == isSequence(Extensions) /\ DOMAIN Extensions = 1 .. 9
<1>1. Extensions \in Seq({".ts", ".tsx", ".js", ".jsx", ".swift", ".py", ".go", ".rs", ".java"})
      /\ DOMAIN Extensions = 1 .. 9
  BY DEF Extensions
<1> QED
  BY <1>1, SequenceOf

LEMMA Candidates ==
  ASSUME NEW q
  PROVE  /\ isSequence(getImportCandidates(q))
         /\ \A c : c \in toSet(getImportCandidates(q)) <=>
              \/ c = q
              \/ q.ext = ".js" /\ c = withExt(q, ".ts")
              \/ q.ext = ".jsx" /\ c = withExt(q, ".tsx")
              \/ q.ext = "" /\ \E e \in toSet(Extensions) : c = withExt(q, e) \/ c = indexOf(q, e)
              \/ q.ext # "" /\ c = indexOf(q, q.ext)
<1> DEFINE tried(k) == <<withExt(q, Extensions[k]), indexOf(q, Extensions[k])>>
           lists == [k \in DOMAIN Extensions |-> tried(k)]
           a1 == <<q>>
           a2 == IF q.ext = ".js" THEN <<withExt(q, ".ts")>> ELSE <<>>
           a3 == IF q.ext = ".jsx" THEN <<withExt(q, ".tsx")>> ELSE <<>>
           a4 == IF q.ext = "" THEN joined(lists) ELSE <<indexOf(q, q.ext)>>
<1>1. getImportCandidates(q) = a1 \o a2 \o a3 \o a4
  BY DEF getImportCandidates, withExt, indexOf
<1>2. isSequence(a1) /\ toSet(a1) = {q}
  BY Singles
<1>3. isSequence(a2) /\ toSet(a2) = IF q.ext = ".js" THEN {withExt(q, ".ts")} ELSE {}
  BY Singles
<1>4. isSequence(a3) /\ toSet(a3) = IF q.ext = ".jsx" THEN {withExt(q, ".tsx")} ELSE {}
  BY Singles
<1>5. isSequence(joined(lists))
      /\ toSet(joined(lists)) = UNION {{withExt(q, Extensions[k]), indexOf(q, Extensions[k])} : k \in DOMAIN Extensions}
  <2>1. \A k \in DOMAIN Extensions : isSequence(lists[k])
                                     /\ toSet(lists[k]) = {withExt(q, Extensions[k]), indexOf(q, Extensions[k])}
    BY Singles
  <2>2. Mapped(lists, Extensions)
    BY DEF Mapped
  <2>3. isSequence(lists) /\ DOMAIN lists = DOMAIN Extensions
    BY <2>2, ExtensionsListed, SequenceMade
  <2> HIDE DEF lists
  <2> QED
    BY <2>1, <2>3, SequencesJoined
<1>6. isSequence(a4) /\ toSet(a4) = IF q.ext = "" THEN UNION {{withExt(q, Extensions[k]), indexOf(q, Extensions[k])} : k \in DOMAIN Extensions}
                                    ELSE {indexOf(q, q.ext)}
  <2> HIDE DEF lists
  <2> QED
    BY <1>5, Singles
<1> HIDE DEF a1, a2, a3, a4
<1>7. isSequence(a1 \o a2) /\ toSet(a1 \o a2) = toSet(a1) \cup toSet(a2)
  BY <1>2, <1>3, SequenceJoined
<1>8. isSequence(a1 \o a2 \o a3) /\ toSet(a1 \o a2 \o a3) = toSet(a1) \cup toSet(a2) \cup toSet(a3)
  BY <1>4, <1>7, SequenceJoined
<1>9. /\ isSequence(a1 \o a2 \o a3 \o a4)
      /\ toSet(a1 \o a2 \o a3 \o a4) = toSet(a1) \cup toSet(a2) \cup toSet(a3) \cup toSet(a4)
  BY <1>6, <1>8, SequenceJoined
<1>10. \A c : c \in toSet(getImportCandidates(q)) <=> c \in toSet(a1) \/ c \in toSet(a2) \/ c \in toSet(a3) \/ c \in toSet(a4)
  BY <1>1, <1>9
<1>11. \A c : c \in UNION {{withExt(q, Extensions[k]), indexOf(q, Extensions[k])} : k \in DOMAIN Extensions}
              <=> \E e \in toSet(Extensions) : c = withExt(q, e) \/ c = indexOf(q, e)
  BY DEF toSet
<1> QED
  BY <1>1, <1>2, <1>3, <1>4, <1>6, <1>9, <1>10, <1>11

\* What the check of one import says.
LEMMA ImportChecked ==
  ASSUME NEW import, NEW file, NEW manifest, NEW q, q = resolveRelativeImport(import.spec, file)
  PROVE  LET cs == toSet(getImportCandidates(q)) \cap getKnownFiles(manifest)
             told == checkImport(import, file, manifest)
         IN /\ <<"missing-file">> \in told <=> cs = {}
            /\ \A v \in told : v[1] = "missing-export" =>
                 \E c \in cs : v[2] \notin getExportsForFile(manifest, c)
<1> DEFINE list == getImportCandidates(q)
           known == {n \in DOMAIN list : list[n] \in getKnownFiles(manifest)}
           least == CHOOSE n \in known : \A k \in known : n <= k
           matched == list[least]
           cs == toSet(list) \cap getKnownFiles(manifest)
           told == checkImport(import, file, manifest)
<1>1. isSequence(list)
  BY Candidates
<1> HIDE DEF list
<1>2. known = {} <=> cs = {}
  BY DEF toSet
<1>3. told = IF known = {} THEN {<<"missing-file">>}
             ELSE IF import.whole THEN {}
             ELSE {<<"missing-export", n>> : n \in import.names \ getExportsForFile(manifest, matched)}
  BY DEF checkImport, list
<1>4. known # {} => matched \in cs
  <2> SUFFICES ASSUME known # {} PROVE matched \in cs
    OBVIOUS
  <2>1. known \in SUBSET Nat
    BY <1>1, IsSequence
  <2>2. \E n \in known : \A k \in known : n <= k
    <3> HIDE DEF known
    <3> QED
      BY <2>1, LeastElement
  <2>3. least \in known
    <3> HIDE DEF known
    <3> QED
      BY <2>2
  <2> QED
    BY <2>3 DEF toSet
<1> HIDE DEF known, least, matched, cs
<1>5. \A n : <<"missing-file">> # <<"missing-export", n>>
  BY Zenon
<1> QED
  BY <1>2, <1>3, <1>4, <1>5 DEF cs, told, list

\* Where an import leads, from a file in a directory and from one at the top.
LEMMA Resolved ==
  ASSUME NEW file, NEW spec, isSequence(file.dir), spec.up \in Nat, isSequence(spec.down)
  PROVE  LET q == resolveRelativeImport(spec, file)
         IN /\ q = [dir |-> q.dir, stem |-> spec.stem, ext |-> spec.ext]
            /\ file.dir # <<>> /\ Len(file.dir) >= spec.up =>
                 q.dir = SubSeq(file.dir, 1, Len(file.dir) - spec.up) \o spec.down
            /\ file.dir = <<>> /\ spec.up = 0 => q.dir = <<".">> \o spec.down
<1> DEFINE q == resolveRelativeImport(spec, file)
           from == IF file.dir = <<>> THEN <<".">> ELSE file.dir
           n == IF Len(from) > spec.up THEN Len(from) - spec.up ELSE 0
<1>1. q = [dir |-> SubSeq(from, 1, n) \o spec.down, stem |-> spec.stem, ext |-> spec.ext]
  BY DEF resolveRelativeImport
<1>2. ASSUME file.dir # <<>>, Len(file.dir) >= spec.up
      PROVE  q.dir = SubSeq(file.dir, 1, Len(file.dir) - spec.up) \o spec.down
  <2>1. Len(file.dir) \in Nat
    BY IsSequence
  <2>2. n = Len(file.dir) - spec.up
    BY <1>2, <2>1
  <2>3. from = file.dir
    BY <1>2
  <2> HIDE DEF from, n, q
  <2>4. q.dir = SubSeq(from, 1, n) \o spec.down
    BY <1>1
  <2> QED
    BY <2>2, <2>3, <2>4
<1>3. ASSUME file.dir = <<>>, spec.up = 0
      PROVE  q.dir = <<".">> \o spec.down
  <2>1. n = 1
    BY <1>3
  <2>2. SubSeq(<<".">>, 1, 1) = <<".">>
    <3>1. <<".">> \in Seq({"."}) /\ Len(<<".">>) = 1
      OBVIOUS
    <3> QED
      BY <3>1, SubSeqFull
  <2>3. from = <<".">>
    BY <1>3
  <2> HIDE DEF from, n, q
  <2>4. q.dir = SubSeq(from, 1, n) \o spec.down
    BY <1>1
  <2> QED
    BY <2>1, <2>2, <2>3, <2>4
<1>4. q = [dir |-> q.dir, stem |-> spec.stem, ext |-> spec.ext]
  <2> HIDE DEF from, n, q
  <2> QED
    BY <1>1
<1> HIDE DEF q
<1>5. /\ q = [dir |-> q.dir, stem |-> spec.stem, ext |-> spec.ext]
      /\ file.dir # <<>> /\ Len(file.dir) >= spec.up =>
           q.dir = SubSeq(file.dir, 1, Len(file.dir) - spec.up) \o spec.down
      /\ file.dir = <<>> /\ spec.up = 0 => q.dir = <<".">> \o spec.down
  BY <1>2, <1>3, <1>4
<1> QED
  BY <1>5 DEF q

\* A path is what an import that leads to a directory and a name may mean.
meant(f, dir, spec) ==
  \/ /\ f.dir = dir /\ f.stem = spec.stem
     /\ \/ f.ext = spec.ext
        \/ spec.ext = "" /\ f.ext \in toSet(Extensions)
        \/ <<spec.ext, f.ext>> \in {<<".js", ".ts">>, <<".jsx", ".tsx">>}
  \/ /\ f.dir = Append(dir, spec.stem) /\ f.stem = "index"
     /\ IF spec.ext = "" THEN f.ext \in toSet(Extensions) ELSE f.ext = spec.ext

LEMMA CandidatesMeant ==
  ASSUME NEW q, NEW spec, q = [dir |-> q.dir, stem |-> spec.stem, ext |-> spec.ext],
         NEW f, isPath(f)
  PROVE  f \in toSet(getImportCandidates(q)) <=> meant(f, q.dir, spec)
<1> DEFINE E == toSet(Extensions)
<1>1. f = [dir |-> f.dir, stem |-> f.stem, ext |-> f.ext] /\ q.stem = spec.stem /\ q.ext = spec.ext
  BY DEF isPath
<1>2. f = q <=> f.dir = q.dir /\ f.stem = spec.stem /\ f.ext = spec.ext
  BY <1>1
<1>3. \A e : f = withExt(q, e) <=> f.dir = q.dir /\ f.stem = spec.stem /\ f.ext = e
  BY <1>1 DEF withExt
<1>4. \A e : f = indexOf(q, e) <=> f.dir = Append(q.dir, spec.stem) /\ f.stem = "index" /\ f.ext = e
  BY <1>1 DEF indexOf
<1>5. f \in toSet(getImportCandidates(q)) <=>
        \/ f = q
        \/ q.ext = ".js" /\ f = withExt(q, ".ts")
        \/ q.ext = ".jsx" /\ f = withExt(q, ".tsx")
        \/ q.ext = "" /\ \E e \in E : f = withExt(q, e) \/ f = indexOf(q, e)
        \/ q.ext # "" /\ f = indexOf(q, q.ext)
  BY Candidates
<1>6. <<spec.ext, f.ext>> \in {<<".js", ".ts">>, <<".jsx", ".tsx">>}
      <=> (spec.ext = ".js" /\ f.ext = ".ts") \/ (spec.ext = ".jsx" /\ f.ext = ".tsx")
  OBVIOUS
<1> HIDE DEF E
<1>7. (q.ext = "" /\ \E e \in E : f = withExt(q, e) \/ f = indexOf(q, e))
      <=> /\ spec.ext = "" /\ f.ext \in E
          /\ \/ f.dir = q.dir /\ f.stem = spec.stem
             \/ f.dir = Append(q.dir, spec.stem) /\ f.stem = "index"
  BY <1>1, <1>3, <1>4
<1>8. (q.ext # "" /\ f = indexOf(q, q.ext))
      <=> spec.ext # "" /\ f.dir = Append(q.dir, spec.stem) /\ f.stem = "index" /\ f.ext = spec.ext
  BY <1>1, <1>4
<1>9. (q.ext = ".js" /\ f = withExt(q, ".ts")) \/ (q.ext = ".jsx" /\ f = withExt(q, ".tsx"))
      <=> /\ f.dir = q.dir /\ f.stem = spec.stem
          /\ <<spec.ext, f.ext>> \in {<<".js", ".ts">>, <<".jsx", ".tsx">>}
  BY <1>1, <1>3, <1>6
<1> DEFINE J == <<spec.ext, f.ext>> \in {<<".js", ".ts">>, <<".jsx", ".tsx">>}
           P == f.dir = q.dir /\ f.stem = spec.stem
           I == f.dir = Append(q.dir, spec.stem) /\ f.stem = "index"
<1>10. f \in toSet(getImportCandidates(q)) <=>
         \/ P /\ f.ext = spec.ext
         \/ P /\ J
         \/ spec.ext = "" /\ f.ext \in E /\ (P \/ I)
         \/ spec.ext # "" /\ I /\ f.ext = spec.ext
  BY <1>2, <1>5, <1>7, <1>8, <1>9
<1>11. meant(f, q.dir, spec) <=>
         \/ P /\ (f.ext = spec.ext \/ (spec.ext = "" /\ f.ext \in E) \/ J)
         \/ I /\ IF spec.ext = "" THEN f.ext \in E ELSE f.ext = spec.ext
  BY DEF meant, E
<1> HIDE DEF J, P, I
<1> QED
  BY <1>10, <1>11

\* What an import from a file at the top may mean is no path that a manifest has.
LEMMA NothingMeant ==
  ASSUME NEW down, isSequence(down), NEW spec, NEW f, isPath(f)
  PROVE  ~meant(f, <<".">> \o down, spec)
<1> DEFINE dir == <<".">> \o down
<1>1. isSequence(dir) /\ "." \in toSet(dir)
  BY Singles, SequenceJoined
<1>2. "." \in toSet(Append(dir, spec.stem))
  <2> HIDE DEF dir
  <2>1. dir \in Seq(toSet(dir))
    BY <1>1, IsSequence
  <2>2. dir \in Seq(toSet(dir) \cup {spec.stem})
    BY <2>1
  <2>3. DOMAIN Append(dir, spec.stem) = 1 .. Len(dir) + 1 /\ \A i \in 1 .. Len(dir) : Append(dir, spec.stem)[i] = dir[i]
    BY <2>2
  <2>4. DOMAIN dir = 1 .. Len(dir) /\ Len(dir) \in Nat
    BY <2>1
  <2>5. \A i \in DOMAIN dir : i \in DOMAIN Append(dir, spec.stem) /\ Append(dir, spec.stem)[i] = dir[i]
    BY <2>3, <2>4
  <2> QED
    BY <1>1, <2>5 DEF toSet
<1>3. "." \notin toSet(f.dir)
  BY DEF isPath
<1> HIDE DEF dir
<1>4. f.dir # dir /\ f.dir # Append(dir, spec.stem)
  BY <1>1, <1>2, <1>3
<1> QED
  BY <1>4 DEF meant, dir

\* What the check of all references says.
unresolved(code, ecosystem) ==
  {c \in parseApiCalls(code) :
     ~(IF c.kind = "route" THEN ~c.host /\ \E r \in UNION {m.routes : m \in ecosystem} : routeMatches(r, c.path)
       ELSE c.path \in UNION {m.procedures : m \in ecosystem})}

LEMMA ReferencesListed ==
  ASSUME NEW code, NEW file, NEW manifest, NEW ecosystem, NEW w
  PROVE  w \in checkReferences(code, file, manifest, ecosystem) <=>
           \/ \E i \in {j \in parseImports(code) : code[j].import.package = Unknown} :
                \E v \in checkImport(code[i].import, file, manifest) : w = <<i, v>>
           \/ \E c \in unresolved(code, ecosystem) : w = <<c.line, <<"unknown", c.kind>>>>
<1> DEFINE one(i) == checkImport(code[i].import, file, manifest)
           local == {j \in parseImports(code) : code[j].import.package = Unknown}
           U == UNION {{<<i, v>> : v \in one(i)} : i \in local}
           V == {<<c.line, <<"unknown", c.kind>>>> : c \in unresolved(code, ecosystem)}
<1>1. checkReferences(code, file, manifest, ecosystem) = U \cup V
  BY DEF checkReferences, unresolved
<1>2. w \in U <=> \E i \in local : \E v \in one(i) : w = <<i, v>>
  OBVIOUS
<1>3. w \in V <=> \E c \in unresolved(code, ecosystem) : w = <<c.line, <<"unknown", c.kind>>>>
  OBVIOUS
<1> HIDE DEF U, V
<1> QED
  BY <1>1, <1>2, <1>3

\* What it says of one import.
LEMMA ReferencesOf ==
  ASSUME NEW code, NEW file, NEW manifest, NEW ecosystem,
         NEW l \in DOMAIN code, code[l].import # Unknown, code[l].import.package = Unknown
  PROVE  LET all == checkReferences(code, file, manifest, ecosystem)
             one == checkImport(code[l].import, file, manifest)
         IN /\ <<l, <<"missing-file">>>> \in all <=> <<"missing-file">> \in one
            /\ \A v \in all : v[1] = l /\ v[2][1] = "missing-export" => v[2] \in one
<1> DEFINE all == checkReferences(code, file, manifest, ecosystem)
           one(i) == checkImport(code[i].import, file, manifest)
           local == {j \in parseImports(code) : code[j].import.package = Unknown}
           unknown == unresolved(code, ecosystem)
<1>2. l \in local
  BY DEF parseImports
<1>3. \A w : w \in all <=> \/ \E i \in local : \E v \in one(i) : w = <<i, v>>
                           \/ \E c \in unknown : w = <<c.line, <<"unknown", c.kind>>>>
  BY ReferencesListed
<1> HIDE DEF all, local, unknown, one
<1>4. \A k : <<"missing-file">> # <<"unknown", k>>
  BY Zenon
<1>5. <<l, <<"missing-file">>>> \in all <=> <<"missing-file">> \in one(l)
  <2>1. ASSUME <<"missing-file">> \in one(l) PROVE <<l, <<"missing-file">>>> \in all
    BY <1>2, <1>3, <2>1
  <2>2. ASSUME <<l, <<"missing-file">>>> \in all PROVE <<"missing-file">> \in one(l)
    <3>1. CASE \E i \in local : \E v \in one(i) : <<l, <<"missing-file">>>> = <<i, v>>
      BY <3>1
    <3>2. CASE \E c \in unknown : <<l, <<"missing-file">>>> = <<c.line, <<"unknown", c.kind>>>>
      <4>1. PICK c \in unknown : <<l, <<"missing-file">>>> = <<c.line, <<"unknown", c.kind>>>>
        BY <3>2
      <4>2. <<"missing-file">> = <<"unknown", c.kind>>
        BY <4>1, Zenon
      <4> QED
        BY <1>4, <4>2
    <3> QED
      BY <1>3, <2>2, <3>1, <3>2
  <2> QED
    BY <2>1, <2>2
<1>6. ASSUME NEW w \in all, w[1] = l, w[2][1] = "missing-export" PROVE w[2] \in one(l)
  <2>1. CASE \E i \in local : \E v \in one(i) : w = <<i, v>>
    BY <1>6, <2>1
  <2>2. CASE \E c \in unknown : w = <<c.line, <<"unknown", c.kind>>>>
    <3>1. PICK c \in unknown : w = <<c.line, <<"unknown", c.kind>>>>
      BY <2>2
    <3>2. w[2] = <<"unknown", c.kind>>
      BY <3>1
    <3>3. w[2][1] = "unknown"
      BY <3>2
    <3> QED
      BY <1>6, <3>3
  <2> QED
    BY <1>3, <2>1, <2>2
<1> QED
  BY <1>5, <1>6 DEF all, one
------------------------------------------------------------------------------
(* Quality: names. *)

Conventions == {"camelCase", "PascalCase", "snake_case", "kebab-case"}

\* A part that keeps a camelCase rename from following the convention.
odd(name) == \E i \in DOMAIN name : (i = 1 \/ name[i].sep = "_") /\ name[i].case # "low"

LEMMA RenameFollows ==
  ASSUME NEW name, isName(name), NEW convention \in Conventions
  PROVE  LET new == suggestRename(name, convention)
         IN \/ matchesConvention(new, convention) \/ matchesConvention(new, "PascalCase")
            \/ convention = "camelCase" /\ odd(name)
<1> DEFINE new == suggestRename(name, convention)
           follows(c) == matchesConvention(new, c)
<1>1. 1 \in DOMAIN name
  <2>1. Len(name) \in Nat /\ DOMAIN name = 1 .. Len(name) /\ name # <<>> /\ name \in Seq(toSet(name))
    BY IsSequence DEF isName
  <2>2. Len(name) # 0
    BY <2>1, EmptySeq
  <2> QED
    BY <2>1, <2>2
<1>2. ASSUME NEW i \in DOMAIN name PROVE name[i].sep \in {"", "_"}
  BY DEF isName
<1>3. CASE convention = "camelCase"
  <2>1. new = [i \in DOMAIN name |-> IF name[i].sep = "_" /\ name[i].case = "low"
                                    THEN [sep |-> "", case |-> "Cap"] ELSE name[i]]
    BY <1>3 DEF suggestRename
  <2> HIDE DEF new
  <2>2. ASSUME ~odd(name), NEW i \in DOMAIN name PROVE i = 1 \/ new[i].sep = ""
    <3>1. CASE name[i].sep = "_" /\ name[i].case = "low"
      <4>1. new[i] = [sep |-> "", case |-> "Cap"]
        BY <2>1, <3>1
      <4>2. [sep |-> "", case |-> "Cap"].sep = ""
        OBVIOUS
      <4> QED
        BY <4>1, <4>2, Zenon
    <3>2. CASE ~(name[i].sep = "_" /\ name[i].case = "low")
      <4>1. new[i] = name[i]
        BY <2>1, <3>2
      <4>2. i = 1 \/ name[i].sep # "_"
        BY <2>2, <3>2 DEF odd
      <4> QED
        BY <1>2, <4>1, <4>2
    <3> QED
      BY <3>1, <3>2
  <2>3. ASSUME ~odd(name) PROVE \A i \in DOMAIN new : i = 1 \/ new[i].sep = ""
    BY <2>1, <2>2, <2>3
  <2>4. ASSUME ~odd(name) PROVE follows("camelCase") \/ follows("PascalCase")
    BY <2>3, <2>4 DEF matchesConvention
  <2> QED
    BY <1>3, <2>4 DEF new
<1>4. CASE convention = "PascalCase"
  <2>1. new = [i \in DOMAIN name |-> [sep |-> "", case |-> "Cap"]]
    BY <1>4 DEF suggestRename
  <2> HIDE DEF new
  <2>2. \A i \in DOMAIN name : new[i] = [sep |-> "", case |-> "Cap"]
    BY <2>1
  <2>3. DOMAIN new = DOMAIN name
    BY <2>1
  <2> DEFINE part == [sep |-> "", case |-> "Cap"]
  <2>0. part.sep = "" /\ part.case = "Cap"
    OBVIOUS
  <2> HIDE DEF part
  <2>4. new[1].case = "Cap" /\ \A i \in DOMAIN new : new[i].sep = ""
    BY <1>1, <2>0, <2>2, <2>3 DEF part
  <2>5. follows("PascalCase")
    BY <2>4 DEF matchesConvention
  <2> QED
    BY <2>5 DEF new
<1>5. CASE convention = "snake_case"
  <2> DEFINE sep(i) == IF i = 1 THEN "" ELSE IF name[i].case = "low" THEN name[i].sep ELSE "_"
  <2>1. new = [i \in DOMAIN name |-> [sep |-> sep(i), case |-> "low"]]
    BY <1>5 DEF suggestRename
  <2>2. ASSUME NEW i \in DOMAIN name PROVE sep(i) # "-"
    BY <1>2
  <2> HIDE DEF new, sep
  <2>3. \A i \in DOMAIN name : new[i] = [sep |-> sep(i), case |-> "low"]
    BY <2>1
  <2>4. DOMAIN new = DOMAIN name
    BY <2>1
  <2>5. \A i \in DOMAIN new : new[i].case = "low" /\ new[i].sep # "-"
    BY <2>2, <2>3, <2>4
  <2>6. follows("snake_case")
    BY <2>5 DEF matchesConvention
  <2> QED
    BY <1>5, <2>6 DEF new
<1>6. CASE convention = "kebab-case"
  <2> DEFINE sep(i) == IF i = 1 THEN "" ELSE "-"
  <2>1. new = [i \in DOMAIN name |-> [sep |-> sep(i), case |-> "low"]]
    BY <1>6 DEF suggestRename
  <2>2. \A i : i = 1 \/ sep(i) = "-"
    OBVIOUS
  <2> HIDE DEF new, sep
  <2>3. \A i \in DOMAIN name : new[i] = [sep |-> sep(i), case |-> "low"]
    BY <2>1
  <2>4. DOMAIN new = DOMAIN name
    BY <2>1
  <2>5. \A i \in DOMAIN new : new[i].case = "low" /\ (i = 1 \/ new[i].sep = "-")
    BY <2>2, <2>3, <2>4
  <2>6. follows("kebab-case")
    BY <2>5 DEF matchesConvention
  <2> QED
    BY <1>6, <2>6 DEF new
<1> QED
  BY <1>3, <1>4, <1>5, <1>6 DEF Conventions

\* Every rename that is suggested for a text.
LEMMA NamesFollow ==
  ASSUME NEW code, \A i \in DOMAIN code : \A n \in toSet(code[i].names) : isName(n.name),
         NEW naming \in Conventions \cup {"mixed"},
         NEW v \in checkNamingConventions(code, naming)
  PROVE  \/ matchesConvention(v.suggestion, naming) \/ matchesConvention(v.suggestion, "PascalCase")
         \/ naming = "camelCase" /\ odd(v.name)
<1>1. naming # "mixed"
  BY DEF checkNamingConventions
<1>2. \E n \in extractIdentifiers(code) :
        v = [name |-> n.name, suggestion |-> suggestRename(n.name, IF n.class THEN "PascalCase" ELSE naming)]
  BY <1>1 DEF checkNamingConventions
<1>3. PICK n \in extractIdentifiers(code) :
        v = [name |-> n.name, suggestion |-> suggestRename(n.name, IF n.class THEN "PascalCase" ELSE naming)]
  BY <1>2
<1>4. isName(n.name)
  BY DEF extractIdentifiers
<1>5. v.name = n.name /\ v.suggestion = suggestRename(n.name, IF n.class THEN "PascalCase" ELSE naming)
  BY <1>3
<1>6. CASE n.class
  <2>1. v.suggestion = suggestRename(n.name, "PascalCase") /\ "PascalCase" \in Conventions
    BY <1>5, <1>6 DEF Conventions
  <2>2. matchesConvention(v.suggestion, "PascalCase")
    BY <1>4, <2>1, RenameFollows
  <2> QED
    BY <2>2
<1>7. CASE ~n.class
  <2>1. v.suggestion = suggestRename(n.name, naming) /\ naming \in Conventions
    BY <1>1, <1>5, <1>7
  <2> QED
    BY <1>4, <1>5, <2>1, RenameFollows
<1> QED
  BY <1>6, <1>7

\* What the conventions and the slop say, by what they are about.
LEMMA ConventionsSaid ==
  ASSUME NEW code, NEW file, NEW manifest, NEW w \in validateConventions(code, file, manifest)
  PROVE  /\ ~blank(code)
         /\ w[1] = "naming" => w[2] \in checkNamingConventions(code, manifest.naming)
         /\ w[1] = "error-handling" => w[2] \in checkErrorHandling(code, manifest)
<1>1. ~blank(code)
  BY DEF validateConventions
<1>2. \/ \E v \in checkNamingConventions(code, manifest.naming) : w = <<"naming", v>>
      \/ \E v \in checkFileLocation(code, file, manifest) : w = <<"file-location", v>>
      \/ \E v \in checkErrorHandling(code, manifest) : w = <<"error-handling", v>>
  BY DEF validateConventions
<1> QED
  BY <1>1, <1>2

LEMMA ErrorsSaid ==
  ASSUME NEW code, NEW file, NEW manifest, ~blank(code), NEW v \in checkErrorHandling(code, manifest)
  PROVE  <<"error-handling", v>> \in validateConventions(code, file, manifest)
  BY DEF validateConventions

LEMMA SlopSaid ==
  ASSUME NEW code, NEW manifest
  PROVE  /\ \A w \in detectSlop(code, manifest) :
              w[1] = "duplicate-block" => w[2] \in detectDuplicateBlocks(code)
         /\ ~blank(code) => \A v \in detectDuplicateBlocks(code) :
              <<"duplicate-block", v>> \in detectSlop(code, manifest)
<1>1. ASSUME NEW w \in detectSlop(code, manifest), w[1] = "duplicate-block"
      PROVE  w[2] \in detectDuplicateBlocks(code)
  <2>1. \/ \E i \in detectPlaceholders(code) : w = <<"placeholder", i>>
        \/ \E i \in detectPhantomImports(code, manifest) : w = <<"phantom-import", i>>
        \/ \E i \in detectDuplicateBlocks(code) : w = <<"duplicate-block", i>>
        \/ w = <<"over-commenting", 1>>
        \/ \E x \in detectOverAbstraction(code) : w = <<"over-abstraction", x>>
    BY DEF detectSlop
  <2> QED
    BY <1>1, <2>1
<1>2. ASSUME ~blank(code), NEW v \in detectDuplicateBlocks(code)
      PROVE  <<"duplicate-block", v>> \in detectSlop(code, manifest)
  BY <1>2 DEF detectSlop
<1> QED
  BY <1>1, <1>2
------------------------------------------------------------------------------
(* Quality: what the gate says. *)

manifestOf(p) == p.repos[repoOf(p)].manifest
fileOf(p) == relativeTo(p, repoOf(p))

\* What has been said of the proposal.
Said ==
  LET p == gate.input
  IN /\ gate.references = checkReferences(p.code, fileOf(p), manifestOf(p), {p.repos[j].manifest : j \in DOMAIN p.repos})
     /\ gate.conventions = validateConventions(p.code, fileOf(p), manifestOf(p))
     /\ gate.slop = detectSlop(p.code, manifestOf(p))

\* The repository and the path in it.
LEMMA RepoOf ==
  ASSUME NEW p \in Proposal
  PROVE  /\ repoOf(p) \in DOMAIN p.repos
         /\ isSequence(fileOf(p).dir)
<1> DEFINE in == {i \in DOMAIN p.repos : p.file.repo \in p.repos[i].prefixOf}
<1>1. isSequence(p.repos) /\ p.repos # <<>> /\ isSequence(p.file.dir)
  BY ProposalType
<1>2. repoOf(p) \in DOMAIN p.repos
  <2>1. Len(p.repos) \in Nat /\ DOMAIN p.repos = 1 .. Len(p.repos) /\ p.repos \in Seq(toSet(p.repos))
    BY <1>1, IsSequence
  <2>2. Len(p.repos) # 0
    BY <1>1, <2>1, EmptySeq
  <2>3. CASE in = {}
    <3>1. repoOf(p) = 1
      BY <2>3 DEF repoOf
    <3> QED
      BY <2>1, <2>2, <3>1
  <2>4. CASE in # {}
    <3>1. repoOf(p) = CHOOSE i \in in : \A j \in in : i <= j
      BY <2>4 DEF repoOf
    <3>2. in \in SUBSET Nat /\ in \in SUBSET DOMAIN p.repos
      BY <2>1
    <3> HIDE DEF in
    <3>3. \E i \in in : \A j \in in : i <= j
      BY <2>4, <3>2, LeastElement
    <3> QED
      BY <3>1, <3>2, <3>3
  <2> QED
    BY <2>3, <2>4
<1>3. isSequence(<<"rest of the name">> \o p.file.dir)
  BY <1>1, Singles, SequenceJoined
<1>4. fileOf(p).dir = p.file.dir \/ fileOf(p).dir = <<"rest of the name">> \o p.file.dir
  BY DEF fileOf, relativeTo
<1> QED
  BY <1>1, <1>2, <1>3, <1>4

\* One import, in terms of what it may mean.
LEMMA ImportMeant ==
  ASSUME NEW p \in Proposal, NEW l \in DOMAIN p.code,
         p.code[l].import # Unknown, p.code[l].import.package = Unknown
  PROVE  LET import == p.code[l].import
             dir == fileOf(p).dir
             leads == SubSeq(dir, 1, Len(dir) - import.spec.up) \o import.spec.down
             told == checkImport(import, fileOf(p), manifestOf(p))
         IN /\ dir = <<>> /\ import.spec.up = 0 => <<"missing-file">> \in told
            /\ dir # <<>> /\ Len(dir) >= import.spec.up =>
                 LET there == {s \in manifestOf(p).surface : meant(s.file, leads, import.spec)}
                 IN /\ <<"missing-file">> \in told <=> there = {}
                    /\ \A v \in told : v[1] = "missing-export" =>
                         \E s \in there : v[2] \notin getExportsForFile(manifestOf(p), s.file)
<1> DEFINE import == p.code[l].import
           spec == import.spec
           file == fileOf(p)
           manifest == manifestOf(p)
           leads == SubSeq(file.dir, 1, Len(file.dir) - spec.up) \o spec.down
           q == resolveRelativeImport(spec, file)
           cs == toSet(getImportCandidates(q)) \cap getKnownFiles(manifest)
           told == checkImport(import, file, manifest)
           there == {s \in manifest.surface : meant(s.file, leads, spec)}
<1>1. spec.up \in Nat /\ isSequence(spec.down)
  BY ProposalType
<1>2. isSequence(file.dir) /\ \A s \in manifest.surface : isPath(s.file)
  BY RepoOf, ProposalType DEF manifestOf
<1> HIDE DEF file, manifest, spec, import
<1>3. /\ q = [dir |-> q.dir, stem |-> spec.stem, ext |-> spec.ext]
      /\ file.dir # <<>> /\ Len(file.dir) >= spec.up => q.dir = leads
      /\ file.dir = <<>> /\ spec.up = 0 => q.dir = <<".">> \o spec.down
  BY <1>1, <1>2, Resolved
<1>4. /\ <<"missing-file">> \in told <=> cs = {}
      /\ \A v \in told : v[1] = "missing-export" =>
           \E c \in cs : v[2] \notin getExportsForFile(manifest, c)
  BY ImportChecked DEF spec
<1> HIDE DEF q, told, leads
<1>5. \A s \in manifest.surface :
        s.file \in toSet(getImportCandidates(q)) <=> meant(s.file, q.dir, spec)
  BY <1>2, <1>3, CandidatesMeant
<1>6. \A c : c \in cs <=> \E s \in manifest.surface : c = s.file /\ meant(s.file, q.dir, spec)
  BY <1>5 DEF getKnownFiles
<1> HIDE DEF cs
<1>7. ASSUME file.dir = <<>>, spec.up = 0 PROVE <<"missing-file">> \in told
  <2>1. \A s \in manifest.surface : ~meant(s.file, q.dir, spec)
    BY <1>1, <1>2, <1>3, <1>7, NothingMeant
  <2> QED
    BY <1>4, <1>6, <2>1
<1>8. ASSUME file.dir # <<>>, Len(file.dir) >= spec.up
      PROVE  /\ <<"missing-file">> \in told <=> there = {}
             /\ \A v \in told : v[1] = "missing-export" =>
                  \E s \in there : v[2] \notin getExportsForFile(manifest, s.file)
  <2>1. \A c : c \in cs <=> \E s \in there : c = s.file
    BY <1>3, <1>6, <1>8
  <2> HIDE DEF there
  <2> QED
    BY <1>4, <2>1
<1> QED
  BY <1>7, <1>8 DEF file, manifest, spec, import, leads, told

LEMMA ImportsSaid ==
  ASSUME gate.input \in Proposal, Said
  PROVE  ImportsResolve
<1> DEFINE p == gate.input
           i == repoOf(p)
           manifest == manifestOf(p)
           surface == manifest.surface
           dir == fileOf(p).dir
           leads(spec) == SubSeq(dir, 1, Len(dir) - spec.up) \o spec.down
           there(spec) == {s \in surface : meant(s.file, leads(spec), spec)}
           exports(f) == getExportsForFile(manifest, f)
           locals == {m \in DOMAIN p.code : p.code[m].import # Unknown /\ p.code[m].import.package = Unknown}
           names(l) == {v[2][2] : v \in {w \in gate.references : w[1] = l /\ w[2][1] = "missing-export"}}
<1>1. ASSUME NEW l \in locals
      PROVE  LET import == p.code[l].import
             IN IF dir = <<>> THEN import.spec.up = 0 => <<l, <<"missing-file">>>> \in gate.references
                ELSE Len(dir) >= import.spec.up =>
                       /\ <<l, <<"missing-file">>>> \in gate.references <=> there(import.spec) = {}
                       /\ \A n \in names(l) : \E s \in there(import.spec) : n \notin exports(s.file)
  <2> DEFINE import == p.code[l].import
             spec == import.spec
             told == checkImport(import, fileOf(p), manifest)
  <2>1. /\ <<l, <<"missing-file">>>> \in gate.references <=> <<"missing-file">> \in told
        /\ \A v \in gate.references : v[1] = l /\ v[2][1] = "missing-export" => v[2] \in told
    <3> DEFINE ecosystem == {p.repos[j].manifest : j \in DOMAIN p.repos}
    <3>1. l \in DOMAIN p.code /\ p.code[l].import # Unknown /\ p.code[l].import.package = Unknown
      OBVIOUS
    <3>2. gate.references = checkReferences(p.code, fileOf(p), manifest, ecosystem)
      BY DEF Said
    <3> HIDE DEF ecosystem
    <3> QED
      BY <3>1, <3>2, ReferencesOf
  <2>2. /\ dir = <<>> /\ spec.up = 0 => <<"missing-file">> \in told
        /\ dir # <<>> /\ Len(dir) >= spec.up =>
             /\ <<"missing-file">> \in told <=> there(spec) = {}
             /\ \A v \in told : v[1] = "missing-export" =>
                  \E s \in there(spec) : v[2] \notin exports(s.file)
    BY ImportMeant
  <2> HIDE DEF told, there, exports, dir, manifest, locals
  <2>3. ASSUME dir # <<>>, Len(dir) >= spec.up, NEW n \in names(l)
        PROVE  \E s \in there(spec) : n \notin exports(s.file)
    <3>1. PICK v \in gate.references : v[1] = l /\ v[2][1] = "missing-export" /\ n = v[2][2]
      OBVIOUS
    <3> QED
      BY <2>1, <2>2, <2>3, <3>1
  <2> QED
    BY <2>1, <2>2, <2>3
<1> DEFINE same(spec) ==
             {s \in surface :
                \/ /\ s.file.dir = leads(spec) /\ s.file.stem = spec.stem
                   /\ \/ s.file.ext = spec.ext
                      \/ spec.ext = "" /\ s.file.ext \in toSet(Extensions)
                      \/ <<spec.ext, s.file.ext>> \in {<<".js", ".ts">>, <<".jsx", ".tsx">>}
                \/ /\ s.file.dir = Append(leads(spec), spec.stem) /\ s.file.stem = "index"
                   /\ IF spec.ext = "" THEN s.file.ext \in toSet(Extensions) ELSE s.file.ext = spec.ext}
           hidden(f, n) == ~\E t \in surface : t.file = f /\ t.name = n /\ t.kind \in {"export", "type"}
<1>2. ASSUME NEW spec PROVE there(spec) = same(spec)
  BY DEF meant
<1>3. \A f, n : n \notin exports(f) <=> hidden(f, n)
  BY DEF getExportsForFile
<1>4. ImportsResolve <=>
        \A l \in locals :
          LET import == p.code[l].import
          IN IF dir = <<>> THEN import.spec.up = 0 => <<l, <<"missing-file">>>> \in gate.references
             ELSE Len(dir) >= import.spec.up =>
                    /\ <<l, <<"missing-file">>>> \in gate.references <=> same(import.spec) = {}
                    /\ \A n \in names(l) : \E s \in same(import.spec) : hidden(s.file, n)
  BY DEF ImportsResolve, manifestOf, fileOf
<1> HIDE DEF there, same, hidden, exports, names, locals, dir
<1> QED
  BY <1>1, <1>2, <1>3, <1>4

LEMMA CodeOf ==
  ASSUME NEW p \in Proposal
  PROVE  /\ isSequence(p.code) /\ Len(p.code) \in Nat /\ DOMAIN p.code = 1 .. Len(p.code)
         /\ \A i \in DOMAIN p.code : p.code[i].net \in Int
         /\ \A i \in DOMAIN p.code : \A n \in toSet(p.code[i].names) : isName(n.name)
         /\ manifestOf(p).naming \in Conventions \cup {"mixed"}
<1>1. isSequence(p.code)
  BY ProposalType
<1>2. \A i \in DOMAIN p.code : p.code[i].net \in Int /\ \A n \in toSet(p.code[i].names) : isName(n.name)
  BY ProposalType
<1>3. manifestOf(p).naming \in Conventions \cup {"mixed"}
  BY ProposalType, RepoOf DEF manifestOf, Conventions
<1> QED
  BY <1>1, <1>2, <1>3, IsSequence

LEMMA RepeatsSaid ==
  ASSUME gate.input \in Proposal, Said
  PROVE  RepeatsReported
<1> DEFINE code == gate.input.code
           found == detectDuplicateBlocks(code)
           issues == {v[2] : v \in {w \in gate.slop : w[1] = "duplicate-block"}}
           again(i, j) == i < j /\ blockKey(code, i) # <<>> /\ blockKey(code, i) = blockKey(code, j)
<1>1. isSequence(code) /\ DOMAIN code = 1 .. Len(code) /\ Len(code) \in Nat
  BY CodeOf
<1>2. gate.slop = detectSlop(code, manifestOf(gate.input))
  BY DEF Said
<1> HIDE DEF code
<1>3. Repeats(code, found, Len(code))
  BY <1>1, RepeatsDetected
<1>4. issues \in SUBSET found
  BY <1>2, SlopSaid
<1>5. ~blank(code) => found \in SUBSET issues
  <2> SUFFICES ASSUME ~blank(code), NEW x \in found PROVE x \in issues
    OBVIOUS
  <2>1. <<"duplicate-block", x>> \in gate.slop
    BY <1>2, SlopSaid
  <2>2. <<"duplicate-block", x>>[1] = "duplicate-block" /\ <<"duplicate-block", x>>[2] = x
    OBVIOUS
  <2> QED
    BY <2>1, <2>2
<1> HIDE DEF found, issues
<1>6. \A x \in issues : x.first \in DOMAIN code /\ x.line \in DOMAIN code /\ again(x.first, x.line)
  BY <1>1, <1>3, <1>4 DEF Repeats
<1>7. ASSUME NEW i \in DOMAIN code, NEW j \in DOMAIN code, again(i, j)
      PROVE  \E x \in issues : beginsWith(x.first, firstOf(code, i)) \/ beginsWith(x.line, firstOf(code, i))
  <2>1. ~blank(code)
    BY <1>1, <1>7, BlankRepeats
  <2>2. firstOf(code, i) = firstOf(code, j) /\ firstOf(code, j) # j /\ blockKey(code, j) # <<>>
    BY <1>1, <1>7, SameFirst
  <2>3. \E x \in found : beginsWith(x.first, firstOf(code, j)) \/ beginsWith(x.line, firstOf(code, j))
    BY <1>1, <1>3, <2>2 DEF Repeats
  <2> QED
    BY <1>5, <2>1, <2>2, <2>3
<1> QED
  BY <1>6, <1>7 DEF RepeatsReported, issues, code

LEMMA AwaitsSaid ==
  ASSUME gate.input \in Proposal, Said
  PROVE  AwaitsGuarded
<1> DEFINE p == gate.input
           code == p.code
           manifest == manifestOf(p)
           nets == [i \in DOMAIN code |-> code[i].net]
           depth == [i \in 0 .. Len(code) |-> sum(SubSeq(nets, 1, i))]
           span(a, b) == /\ "async" \in code[a].marks
                         /\ a <= b /\ depth[b] <= depth[a - 1]
                         /\ \A k \in a .. b - 1 : depth[k] > depth[a - 1]
           outer(a, b) == /\ span(a, b)
                          /\ ~\E c, d \in DOMAIN code : span(c, d) /\ c < a /\ a <= d
           has(a, b, marks) == \E k \in a .. b : marks \cap code[k].marks # {}
           bad == {a \in DOMAIN code : \E b \in DOMAIN code :
                     outer(a, b) /\ has(a, b, {"await"}) /\ ~has(a, b, {"try", "catch"})}
           reported == {v[2] : v \in {w \in gate.conventions : w[1] = "error-handling"}}
<1>1. AwaitsGuarded <=>
        (manifest.errorHandling = "try-catch" /\ (\A i \in DOMAIN depth : depth[i] >= 0) /\ depth[Len(code)] = 0
           => reported = bad)
  BY DEF AwaitsGuarded, manifestOf
<1>2. /\ isSequence(code) /\ DOMAIN code = 1 .. Len(code) /\ Len(code) \in Nat
      /\ \A i \in DOMAIN code : code[i].net \in Int
  BY CodeOf
<1>3. Depths(code, depth)
  BY <1>2, DepthsSummed
<1>4. gate.conventions = validateConventions(code, fileOf(p), manifest)
  BY DEF Said
<1>5. DOMAIN depth = 0 .. Len(code)
  OBVIOUS
<1> HIDE DEF code, depth, manifest, p
<1> SUFFICES ASSUME manifest.errorHandling = "try-catch", \A i \in DOMAIN depth : depth[i] >= 0, depth[Len(code)] = 0
             PROVE  reported = bad
  BY <1>1
<1> DEFINE errors == checkErrorHandling(code, manifest)
<1>6. errors = {a \in DOMAIN code : \E b \in DOMAIN code :
                  /\ outermost(code, depth, a, b) /\ within(code, a, b, {"await"})
                  /\ ~within(code, a, b, {"try", "catch"})}
  BY <1>2, <1>3, <1>5, AwaitsReported DEF Balanced
<1>7. \A a, b \in DOMAIN code : lasts(code, depth, a, b) <=> span(a, b)
  BY <1>2 DEF lasts
<1>8. \A a, b \in DOMAIN code : outermost(code, depth, a, b) <=> outer(a, b)
  <2> HIDE DEF span
  <2>1. \A x, y : lasts(code, depth, x, y) => x \in DOMAIN code /\ y \in DOMAIN code
    BY <1>2 DEF lasts
  <2> QED
    BY <1>2, <1>7, <2>1 DEF outermost
<1>9. \A a, b, marks : within(code, a, b, marks) <=> has(a, b, marks)
  BY DEF within
<1> HIDE DEF outer, has, errors
<1>10. errors = bad
  BY <1>6, <1>8, <1>9
<1>11. CASE blank(code)
  <2>1. gate.conventions = {}
    BY <1>4, <1>11 DEF validateConventions
  <2>2. \A a \in DOMAIN code : code[a].marks = {}
    <3>1. Plain.marks = {}
      BY DEF Plain
    <3> QED
      BY <1>11, <3>1 DEF blank
  <2>3. \A a, b : ~outer(a, b) \/ a \notin DOMAIN code
    BY <2>2 DEF outer
  <2> QED
    BY <2>1, <2>3
<1>12. CASE ~blank(code)
  <2>1. reported \in SUBSET errors
    BY <1>4, ConventionsSaid DEF errors
  <2>2. ASSUME NEW v \in errors PROVE v \in reported
    <3>1. <<"error-handling", v>> \in gate.conventions
      BY <1>4, <1>12, ErrorsSaid DEF errors
    <3>2. <<"error-handling", v>>[1] = "error-handling" /\ <<"error-handling", v>>[2] = v
      OBVIOUS
    <3> QED
      BY <3>1, <3>2
  <2> HIDE DEF reported, bad
  <2> QED
    BY <1>10, <2>1, <2>2
<1> QED
  BY <1>11, <1>12

LEMMA RenamesSaid ==
  ASSUME gate.input \in Proposal, Said
  PROVE  RenamesFollow
<1> DEFINE p == gate.input
           naming == manifestOf(p).naming
<1>1. \A v \in {w[2] : w \in {x \in gate.conventions : x[1] = "naming"}} :
        v \in checkNamingConventions(p.code, naming)
  BY ConventionsSaid DEF Said
<1>2. ASSUME NEW v \in checkNamingConventions(p.code, naming)
      PROVE  \/ matchesConvention(v.suggestion, naming) \/ matchesConvention(v.suggestion, "PascalCase")
             \/ naming = "camelCase" /\ odd(v.name)
  BY CodeOf, NamesFollow
<1> QED
  BY <1>1, <1>2 DEF RenamesFollow, manifestOf, odd

\* The check of the gate ends with what is so: see QualityTrue.
QualityInv ==
  /\ gate.pc \in {"asked", "checked"} /\ gate.input \in Proposal
  /\ gate.pc = "checked" => Said

\* What the quality gate says of a text is so: of its imports, its repeated blocks,
\* its awaits and the renames it suggests.
THEOREM QualityCorrect == QualitySpec => []QualityTrue
<1>1. GateInit => QualityInv
  <2> SUFFICES ASSUME NEW p \in Proposal, gate = [pc |-> "asked", input |-> p] PROVE QualityInv
    BY DEF GateInit
  <2>1. gate.pc = "asked" /\ gate.input = p
    OBVIOUS
  <2> QED
    BY <2>1 DEF QualityInv
<1>2. QualityInv /\ [qualityCheck]_gate => QualityInv'
  <2> SUFFICES ASSUME QualityInv, [qualityCheck]_gate PROVE QualityInv'
    OBVIOUS
  <2>1. CASE qualityCheck
    <3> DEFINE p == gate.input
    <3>1. /\ gate'.pc = "checked" /\ gate'.input = p
          /\ gate'.references = checkReferences(p.code, fileOf(p), manifestOf(p), {p.repos[j].manifest : j \in DOMAIN p.repos})
          /\ gate'.conventions = validateConventions(p.code, fileOf(p), manifestOf(p))
          /\ gate'.slop = detectSlop(p.code, manifestOf(p))
      BY <2>1 DEF qualityCheck, fileOf, manifestOf
    <3> QED
      BY <3>1 DEF QualityInv, Said
  <2>2. CASE UNCHANGED gate
    BY <2>2 DEF QualityInv, Said
  <2> QED
    BY <2>1, <2>2
<1>3. QualityInv => QualityTrue
  BY ImportsSaid, RepeatsSaid, AwaitsSaid, RenamesSaid DEF QualityInv, QualityTrue
<1> QED
  BY <1>1, <1>2, <1>3, PTL DEF QualitySpec
==============================================================================
