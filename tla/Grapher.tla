------------------------------ MODULE Grapher ------------------------------
(***************************************************************************)
(* The ecosystem graph: what the repositories of a workspace have to do    *)
(* with each other, computed from their manifests.  Text is given by what  *)
(* is found in it: an export by the names and routes its signature         *)
(* mentions, a type by its fields, a field by its canonical type and       *)
(* whether it may be absent.  Lists whose order nothing depends on are     *)
(* sets.                                                                   *)
(***************************************************************************)
EXTENDS Integers, FiniteSets

CONSTANTS
  RepoId,          \* numbers: the order of the configuration
  File, FieldName, TypeName,
  Concept,         \* names of concepts
  conceptNames,    \* [TypeName -> SUBSET Concept]: the name, and stripped of suffixes
  pickConceptName, \* [TypeName \X TypeName -> Concept]
  Ecosystem,       \* the sets of manifests to look at
  Undefined

VARIABLES
  manifests,  \* [RepoId -> manifest]
  graph       \* the graph computed from them, once it is

graphVars == <<manifests, graph>>

Field == [type : {"string", "number"}, wrapped : BOOLEAN, optional : BOOLEAN]
Fields == UNION {[S -> Field] : S \in SUBSET FieldName}

\* imports are the explicit internal dependencies <<from, to>>, endpoints routes and
\* procedures, dirty the uncommitted files with the change their name suggests.
RepoManifest ==
  [exports : SUBSET [name : STRING, file : File, isType : BOOLEAN, mentions : SUBSET STRING],
   endpoints : SUBSET [name : STRING, handler : STRING, file : File, isRoute : BOOLEAN,
                       output : TypeName],
   imports : SUBSET (File \X File),
   types : [TypeName -> Fields \cup {Undefined}],
   dirty : SUBSET (File \X STRING)]

\* A concept a type is named after is one of Concept; every type has its own name.
ASSUME GrapherAssumption ==
  /\ RepoId \subseteq Int
  /\ IsFiniteSet(RepoId) /\ IsFiniteSet(File)
  /\ IsFiniteSet(FieldName) /\ IsFiniteSet(TypeName)
  /\ conceptNames \in [TypeName -> (SUBSET Concept) \ {{}}]
  /\ pickConceptName \in [TypeName \X TypeName -> Concept]
  /\ Undefined \notin Fields
  /\ Ecosystem \subseteq [RepoId -> RepoManifest]

------------------------------------------------------------------------------
(* Internal and cross-repository dependencies. *)

\* An export that is not a type depends on the files that define what its
\* signature mentions.
inferDepsFromSignatures(m) ==
  {<<p[1].file, p[2].file>> : p \in
     {pair \in m.exports \X m.exports :
        /\ ~pair[1].isType
        /\ pair[2].name \in pair[1].mentions \ {pair[1].name}
        /\ pair[2].file # pair[1].file}}

buildInternalDeps(m) == m.imports \cup inferDepsFromSignatures(m)

\* The types of the registry and the exported ones.
typeNames(m) == {t \in TypeName : m.types[t] # Undefined}
                  \cup {e.name : e \in {x \in m.exports : x.isType}}

\* Both ways for a type both have, from consumer to provider for a route whose
\* path or handler is mentioned.
detectCrossRepoDeps(ms) ==
  {d \in RepoId \X RepoId :
     /\ d[1] # d[2]
     /\ \/ typeNames(ms[d[1]]) \cap typeNames(ms[d[2]]) # {}
        \/ \E e \in ms[d[1]].exports, p \in ms[d[2]].endpoints :
             p.isRoute /\ {p.name, p.handler} \cap e.mentions # {}}

------------------------------------------------------------------------------
(* Contracts. *)

isOptionalField(f) == f.optional \/ f.wrapped

\* What the provider may leave out, the consumer must be able to miss.
compareFieldDefinitions(p, c) ==
  IF p.type # c.type \/ (isOptionalField(p) /\ ~isOptionalField(c)) THEN "mismatch"
  ELSE IF isOptionalField(p) <=> isOptionalField(c) THEN "exact"
  ELSE "compatible"

compareTypes(provider, consumer) ==
  LET how(n) == IF n \in DOMAIN provider
                THEN compareFieldDefinitions(provider[n], consumer[n]) ELSE "mismatch"
      all == {how(n) : n \in DOMAIN consumer}
  IN CASE "mismatch" \in all -> "mismatch"
       [] all \subseteq {"exact"} /\ Cardinality(DOMAIN consumer) = Cardinality(DOMAIN provider)
            -> "exact"
       [] OTHER -> "compatible"

emptyType == [n \in {} |-> Undefined]

\* The bridge between export x of repository c and endpoint e of repository p; a type
\* that one of them does not have counts as compatible.
bridgeOf(ms, p, e, c, x) ==
  LET ours == ms[p].types[e.output]
      theirs == ms[c].types[e.output]
  IN [consumer |-> [repo |-> c, file |-> x.file], provider |-> [repo |-> p, route |-> e],
      output |-> IF ours = Undefined THEN emptyType ELSE ours,
      status |-> IF ours # Undefined /\ theirs # Undefined THEN compareTypes(ours, theirs)
                 ELSE "compatible"]

mentioned(provider, consumer) ==
  {m \in provider.endpoints \X consumer.exports : m[1].name \in m[2].mentions}

\* One for every export of another repository that mentions an endpoint.
mapApiContracts(ms) ==
  UNION {{bridgeOf(ms, q[1], m[1], q[2], m[2]) : m \in mentioned(ms[q[1]], ms[q[2]])}
           : q \in {pair \in RepoId \X RepoId : pair[1] # pair[2]}}

\* Entries for the fields of one bridge that is not exact.
findContractMismatches(bridge, ms) ==
  LET theirs == ms[bridge.consumer.repo].types[bridge.provider.route.output]
      ours == bridge.output
      both == DOMAIN ours \cap DOMAIN theirs
      how(n) == compareFieldDefinitions(ours[n], theirs[n])
  IN IF bridge.status = "exact" \/ theirs = Undefined THEN {}
     ELSE {[kind |-> "type-mismatch", field |-> n,
            severity |-> IF how(n) = "mismatch" THEN "breaking" ELSE "warning"]
             : n \in {b \in both : how(b) # "exact"}}
          \cup {[kind |-> "extra-field", field |-> n, severity |-> "breaking"]
                  : n \in DOMAIN theirs \ DOMAIN ours}
          \cup {[kind |-> "missing-field", field |-> n, severity |-> "info"]
                  : n \in IF bridge.status = "mismatch" THEN DOMAIN ours \ DOMAIN theirs ELSE {}}

------------------------------------------------------------------------------
(* Types that mean the same. *)

\* All types with their repositories.
instances(ms) == {i \in RepoId \X TypeName : ms[i[1]].types[i[2]] # Undefined}
spans(is) == Cardinality({i[1] : i \in is}) > 1

\* By name, with and without suffixes.
named(ms, c) == {i \in instances(ms) : c \in conceptNames[i[2]]}

\* More than half of the fields in common.
similar(f, g) == 2 * Cardinality(DOMAIN f \cap DOMAIN g) > Cardinality(DOMAIN f \cup DOMAIN g)

ungrouped(ms) == {i \in instances(ms) : \A c \in conceptNames[i[2]] : ~spans(named(ms, c))}

\* What no name groups is paired by its fields, under a name of the pair.
alike(ms, c) ==
  UNION {{q[1], q[2]} : q \in
    {p \in ungrouped(ms) \X ungrouped(ms) :
       /\ p[1][1] < p[2][1]
       /\ similar(ms[p[1][1]].types[p[1][2]], ms[p[2][1]].types[p[2][2]])
       /\ pickConceptName[<<p[1][2], p[2][2]>>] = c}}

determineAlignment(sets) ==
  IF Cardinality(sets) = 1 THEN "aligned"
  ELSE IF \E s, t \in sets : s # t /\ s \subseteq t THEN "subset" ELSE "diverged"

flowOf(ms, c) ==
  LET is == named(ms, c) \cup alike(ms, c)
  IN [concept |-> c, instances |-> is,
      alignment |-> determineAlignment({DOMAIN ms[i[1]].types[i[2]] : i \in is})]

mapTypeFlows(ms) ==
  {flowOf(ms, c) : c \in {d \in Concept : spans(named(ms, d) \cup alike(ms, d))}}

------------------------------------------------------------------------------
(* Impact of a change. *)

\* Mutant: only direct dependents.
searchedDirect(deps, from) == {d[1] : d \in {e \in deps : e[2] = from}} \ {from}

\* The breadth-first search: `queue` is what was reached in the last round.
\* Every round but the last finds a file, so as many rounds as files do.
searched(deps, from) ==
  LET round[k \in 0 .. Cardinality(File)] ==
        IF k = 0 THEN [queue |-> {from}, visited |-> {from}]
        ELSE LET before == round[k - 1]
                 found == {d[1] : d \in {e \in deps : e[2] \in before.queue}} \ before.visited
             IN [queue |-> found, visited |-> before.visited \cup found]
  IN round[Cardinality(File)].visited \ {from}

findInternalDependents(deps, from) == searched(deps, from)

\* Method and path, or kind and name.
routeLabel(e) == <<e.isRoute, e.name>>

\* The consumers of what the changed file itself provides, found again by the
\* label: it may be declared in another file, too.
findCrossRepoBridgeConsumers(ms, bridges, r, f) ==
  {b \in bridges :
     /\ b.provider.repo = r
     /\ \E e \in ms[r].endpoints : e.file = f /\ routeLabel(e) = routeLabel(b.provider.route)}

assessSeverity(change) == IF change = "implementation-change" THEN "warning" ELSE "breaking"

pathOf(ms, bridges, r, file, change) ==
  [trigger |-> [repo |-> r, file |-> file, change |-> change],
   affected |-> {[repo |-> r, file |-> f] :
                   f \in findInternalDependents(buildInternalDeps(ms[r]), file)}
                \cup {b.consumer : b \in findCrossRepoBridgeConsumers(ms, bridges, r, file)},
   severity |-> assessSeverity(change)]

analyzeImpact(ms, bridges) ==
  UNION {{pathOf(ms, bridges, r, d[1], d[2]) : d \in ms[r].dirty} : r \in RepoId}

------------------------------------------------------------------------------
(* The graph. *)

NoGraph == [built |-> FALSE]

buildEcosystemGraph(ms) ==
  LET bridges == mapApiContracts(ms)
  IN [built |-> TRUE,
      crossRepo |-> detectCrossRepoDeps(ms),
      bridges |-> bridges,
      sharedTypes |-> mapTypeFlows(ms),
      mismatches |-> {[bridge |-> b, entries |-> findContractMismatches(b, ms)] : b \in bridges},
      impactPaths |-> analyzeImpact(ms, bridges)]

GrapherInit == manifests \in Ecosystem /\ graph = NoGraph

BuildGraph == ~graph.built /\ graph' = buildEcosystemGraph(manifests) /\ UNCHANGED manifests

GrapherSpec == GrapherInit /\ [][BuildGraph]_graphVars

------------------------------------------------------------------------------
(* Properties. *)

\* The files from which a chain of dependencies leads to f: the least set that holds
\* f and the dependents of its members.
leadTo(deps, f) ==
  {g \in File : \A S \in SUBSET File :
     f \in S /\ (\A d \in deps : d[2] \in S => d[1] \in S) => g \in S}

\* The files of other repositories that mention an endpoint of file f, or a route.
mentioning(r, f, endpoints) ==
  {[repo |-> p[1], file |-> p[2]] : p \in
     {q \in (RepoId \ {r}) \X File : \E x \in manifests[q[1]].exports, e \in endpoints :
        x.file = q[2] /\ e.file = f /\ e.name \in x.mentions}}

\* Impact is complete and minimal: a changed file affects, in its repository,
\* just the files from which a chain of imports or mentions leads to it, cycles
\* included, and elsewhere just the files that mention an endpoint it defines; those
\* that mention a route are also known to depend on the repository.
ImpactIsReach ==
  graph.built => \A path \in graph.impactPaths :
    LET r == path.trigger.repo
        f == path.trigger.file
        there == {a \in path.affected : a.repo # r}
        routes == {e \in manifests[r].endpoints : e.isRoute}
    IN /\ {a.file : a \in path.affected \ there} = leadTo(buildInternalDeps(manifests[r]), f) \ {f}
       /\ there = mentioning(r, f, manifests[r].endpoints)
       /\ \A a \in mentioning(r, f, routes) : <<a.repo, r>> \in graph.crossRepo

\* The status of a bridge and its mismatches tell one story: where both types
\* are known, a mismatch has a breaking entry and only a mismatch has, and exact
\* means the same fields with the same types, as optional on both sides.
StatusExplained ==
  graph.built => \A m \in graph.mismatches :
    LET b == m.bridge
        ours == manifests[b.provider.repo].types[b.provider.route.output]
        theirs == manifests[b.consumer.repo].types[b.provider.route.output]
        severities == {e.severity : e \in m.entries}
    IN ours # Undefined /\ theirs # Undefined =>
         /\ b.status = "mismatch" <=> "breaking" \in severities
         /\ b.status = "exact" <=>
              /\ DOMAIN ours = DOMAIN theirs
              /\ \A n \in DOMAIN ours : /\ ours[n].type = theirs[n].type
                                        /\ isOptionalField(ours[n]) = isOptionalField(theirs[n])
         /\ b.status = "mismatch" <=>
              \E n \in DOMAIN theirs :
                \/ n \notin DOMAIN ours
                \/ ours[n].type # theirs[n].type
                \/ isOptionalField(ours[n]) /\ ~isOptionalField(theirs[n])

\* Types of one name in two repositories are always in one lineage, similar ones
\* are when nothing else groups either, every lineage spans repositories, and
\* aligned means that all of its types have the same fields.
LineagesJoin ==
  graph.built =>
    /\ \A i, j \in instances(manifests) :
         /\ i[1] # j[1]
         /\ \/ i[2] = j[2]
            \/ {i, j} \subseteq ungrouped(manifests)
               /\ similar(manifests[i[1]].types[i[2]], manifests[j[1]].types[j[2]])
         => \E l \in graph.sharedTypes : {i, j} \subseteq l.instances
    /\ \A l \in graph.sharedTypes :
         /\ spans(l.instances)
         /\ l.alignment = "aligned" <=>
              \A i, j \in l.instances :
                DOMAIN manifests[i[1]].types[i[2]] = DOMAIN manifests[j[1]].types[j[2]]

\* What the graph says of changes, contracts and lineages is so.
GraphExplained == ImpactIsReach /\ StatusExplained /\ LineagesJoin
=============================================================================
