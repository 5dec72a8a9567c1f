------------------------------- MODULE Bridge -------------------------------
(***************************************************************************)
(* What a hustlexp workspace adds to the graph: the docs authority, the    *)
(* calls of the Swift client, the procedures of the backend, and where the *)
(* three do not agree.  A procedure is named by its key, router.procedure. *)
(* A text is given by what the patterns find in it.  Findings and entries  *)
(* are sets of what dedupeFindings and uniqueBy compare, so that what they *)
(* drop is one member.                                                     *)
(***************************************************************************)
EXTENDS Integers, Sequences, FiniteSets

CONSTANTS
  Procedure,   \* keys
  DateField,   \* fields named like a date: ...At, ...Date, ...Until
  Workspace,   \* the workspaces to look at
  None

\* The lines of a router are text in its order.
Bracket == [kind : {"brace", "paren", "bracket"}, opens : BOOLEAN]
RouterLine == [key : Procedure \cup {None}, handler : BOOLEAN, brackets : Seq(Bracket)]

ASSUME BridgeAssumption ==
  /\ None \notin Procedure
  /\ \A w \in Workspace : \A r \in w.routers : r.lines \in Seq(RouterLine)

VARIABLES
  workspace,   \* what the three repositories contain
  enriched     \* what enrichGraphForConfig adds to the graph, once it has

bridgeVars == <<workspace, enriched>>

\* A workspace has
\*   enabled      the switches that are on: "authority", "bridge"
\*   docs         [present, bootstrap, blocked, procedures, contracts]: whether some
\*                authority file has text; contracts of some of the procedures, with
\*                an input and an output type
\*   candidates   what each call pattern finds in the Swift services, in the order
\*                they are tried: calls [key, file, line, input, output], types of
\*                which no definition is found being None
\*   manyExports  whether the iOS repository has more than 25 exports
\*   index        whether the router index can be read
\*   routers      [route, file, readable, lines] for every router it mounts
\*   manifest     procedures [key, inRoot] the scanner found in the backend
\* A type is a function from field names to [type, array, optional];
\* a nullable spelling is compared without its mark.

------------------------------------------------------------------------------
(* The client: the first pattern that finds a call. *)

extractSwiftTrpcCalls(candidates) ==
  LET hits == {i \in DOMAIN candidates : candidates[i] # {}}
  IN IF hits = {} THEN {} ELSE candidates[CHOOSE i \in hits : \A j \in hits : i <= j]

------------------------------------------------------------------------------
(* The backend: from the sources of its routers, or else from the manifest. *)

\* A line of a router's body: the key it would start, whether it mentions a
\* handler, and its brackets.  What is open of each kind: a bracket closed that
\* was not opened counts for nothing.
outside == [kind \in {"brace", "paren", "bracket"} |-> 0]

turned(depth, brackets) ==
  LET after[k \in 0 .. Len(brackets)] ==
        IF k = 0 THEN depth
        ELSE LET b == brackets[k]
             IN [after[k - 1] EXCEPT ![b.kind] = IF b.opens THEN @ + 1
                                                 ELSE IF @ = 0 THEN 0 ELSE @ - 1]
  IN after[Len(brackets)]

\* What is open before each line.
nesting(lines) ==
  LET before[i \in 1 .. Len(lines) + 1] ==
        IF i = 1 THEN outside ELSE turned(before[i - 1], lines[i - 1].brackets)
  IN before

\* A property at the top level is a procedure if a handler occurs before the next.
extractTopLevelRouterEntries(lines) ==
  LET starts == {i \in DOMAIN lines : lines[i].key # None /\ nesting(lines)[i] = outside}
      next(i) == {j \in starts : j > i}
  IN {lines[i].key : i \in
       {s \in starts : \E h \in DOMAIN lines :
          h >= s /\ lines[h].handler /\ \A j \in next(s) : h < j}}

\* Mutant: nothing to fall back on.
extractBackendProcedureRefsOfSource(w) ==
  IF w.index THEN UNION {extractTopLevelRouterEntries(r.lines) : r \in {x \in w.routers : x.readable}}
  ELSE {}

\* A router that cannot be read adds nothing.
extractBackendProcedureRefs(w) ==
  LET found == IF w.index
               THEN UNION {extractTopLevelRouterEntries(r.lines) :
                             r \in {x \in w.routers : x.readable}}
               ELSE {}
  IN IF found # {} THEN found ELSE {m.key : m \in {x \in w.manifest : x.inRoot}}

------------------------------------------------------------------------------
(* The docs authority. *)

NoAuthority == [loaded |-> FALSE, bootstrap |-> FALSE, blocked |-> {}, procedures |-> {},
                contracts |-> [k \in {} |-> None]]

loadAuthorityState(w) ==
  IF "authority" \notin w.enabled \/ ~w.docs.present THEN NoAuthority
  ELSE [loaded |-> TRUE, bootstrap |-> w.docs.bootstrap, blocked |-> w.docs.blocked,
        procedures |-> w.docs.procedures, contracts |-> w.docs.contracts]

drift(severity, title) == [kind |-> "authority_drift", severity |-> severity, title |-> title]

\* Both repositories are in the workspace.
analyzeAuthorityDrift(w, authority, backend, calls) ==
  LET phase ==
        IF ~authority.bootstrap THEN {}
        ELSE (IF w.manyExports \/ calls # {} THEN {drift("breaking", "phase lags iOS")} ELSE {})
             \cup (IF w.manifest # {} THEN {drift("breaking", "phase lags backend")} ELSE {})
      blocks ==
        (IF "backend calls" \in authority.blocked /\ calls # {}
         THEN {drift("breaking", "iOS calls are blocked")} ELSE {})
        \cup (IF {"integration work", "api endpoints"} \cap authority.blocked # {} /\ backend # {}
              THEN {drift("breaking", "backend integration is blocked")} ELSE {})
      surface ==
        (IF authority.procedures \ backend # {} THEN {drift("warning", "docs ahead")} ELSE {})
        \cup (IF backend \ authority.procedures # {} THEN {drift("warning", "backend exceeds")} ELSE {})
  IN IF authority.loaded THEN phase \cup blocks \cup surface ELSE {}

------------------------------------------------------------------------------
(* The bridge. *)

\* Swift, TypeScript and documentation spell the same type differently.
normalizeComparableType(t, field) ==
  LET name == CASE t.type \in {"string", "String", "UUID", "Date"} -> "string"
                [] t.type \in {"number", "Int", "Double"} -> "number"
                [] t.type \in {"'open'|'done'", "TaskStatus"} -> "string-enum"
                [] t.type = "Timestamp" /\ field \in DateField -> "string"
                [] OTHER -> t.type
  IN <<name, t.array>>

mismatch(kind, severity, key, about) ==
  [kind |-> kind, severity |-> severity, key |-> key, about |-> about]

\* A contract without fields, or a payload without, is not compared.
compareFields(key, label, expected, actual, file) ==
  LET entry(kind, severity, f) == mismatch(kind, severity, key, <<label, f, file>>)
      both == DOMAIN expected \cap DOMAIN actual
  IN IF DOMAIN expected = {} \/ DOMAIN actual = {} THEN {}
     ELSE {entry("missing-field", "warning", f) :
             f \in {g \in DOMAIN expected \ DOMAIN actual : ~expected[g].optional}}
          \cup {entry("type-mismatch", "warning", f) :
             f \in {g \in both : normalizeComparableType(expected[g], g)
                                   # normalizeComparableType(actual[g], g)}}
          \cup {entry("extra-field", "info", f) : f \in DOMAIN actual \ DOMAIN expected}

NoFields == [f \in {} |-> None]
orEmpty(type) == IF type = None THEN NoFields ELSE type

payloadMismatches(call, authority) ==
  IF call.key \notin DOMAIN authority.contracts THEN {}
  ELSE LET contract == authority.contracts[call.key]
       IN compareFields(call.key, "input", contract.input, orEmpty(call.input), call.file)
          \cup compareFields(call.key, "output", contract.output, orEmpty(call.output), call.file)

finding(kind, severity, title, call) ==
  [kind |-> kind, severity |-> severity, title |-> title, file |-> call.file, line |-> call.line]

\* What one call adds.
analyzeCall(call, backend, authority) ==
  LET payload == payloadMismatches(call, authority)
      declared == call.key \in authority.procedures
  IN IF call.key \notin backend
     THEN [bridges |-> {},
           mismatches |-> {mismatch("obsolete-call", "breaking", call.key, <<call.file>>)},
           findings |-> {finding("bridge_obsolete_call", "breaking", "obsolete", call)}]
     ELSE [bridges |->
             {[file |-> call.file, line |-> call.line, route |-> call.key,
               status |-> IF \E m \in payload : m.kind \in {"type-mismatch", "missing-field"}
                          THEN "mismatch"
                          ELSE IF declared THEN "exact" ELSE "compatible"]},
           mismatches |-> payload \cup
             (IF declared THEN {}
              ELSE {mismatch("missing-procedure", "warning", call.key, <<"both", call.file>>)}),
           findings |->
             (IF payload = {} THEN {} ELSE {finding("bridge_mismatch", "warning", "payload", call)})
             \cup (IF declared THEN {}
                   ELSE {finding("bridge_mismatch", "warning", "undeclared", call)})]

nothing == [bridges |-> {}, mismatches |-> {}, findings |-> {}, calls |-> {}, backend |-> {}]

analyzeSwiftTrpcBridge(w, authority) ==
  LET calls == extractSwiftTrpcCalls(w.candidates)
      backend == extractBackendProcedureRefs(w)
      per == {analyzeCall(c, backend, authority) : c \in calls}
  IN IF "bridge" \notin w.enabled THEN nothing
     ELSE [calls |-> calls, backend |-> backend,
           bridges |-> UNION {r.bridges : r \in per},
           findings |-> UNION {r.findings : r \in per},
           mismatches |->
             (UNION {r.mismatches : r \in per})
             \cup {mismatch("missing-procedure", "warning", k, <<"backend">>) :
                     k \in backend \ authority.procedures}
             \cup {mismatch("missing-procedure", "breaking", k, <<"docs">>) :
                     k \in authority.procedures \ backend}]

------------------------------------------------------------------------------
(* Enrichment. *)

NotYet == [done |-> FALSE]

BridgeInit == workspace \in Workspace /\ enriched = NotYet

enrichGraphForConfig ==
  /\ ~enriched.done
  /\ LET authority == loadAuthorityState(workspace)
         bridge == analyzeSwiftTrpcBridge(workspace, authority)
     IN enriched' = [done |-> TRUE, authority |-> authority,
                     bridges |-> bridge.bridges, mismatches |-> bridge.mismatches,
                     findings |-> analyzeAuthorityDrift(workspace, authority, bridge.backend,
                                                        bridge.calls),
                     calls |-> bridge.findings]
  /\ UNCHANGED workspace

BridgeSpec == BridgeInit /\ [][enrichGraphForConfig]_bridgeVars

------------------------------------------------------------------------------
(* Properties. *)

\* The procedures the routers serve: what any of them mounts at its top level, read
\* off the workspace, when every source can be read and none is without procedures.
served ==
  (UNION {{l.key : l \in {r.lines[i] : i \in DOMAIN r.lines}} : r \in workspace.routers}) \ {None}
legible == workspace.index /\ \A r \in workspace.routers :
             /\ r.readable
             /\ \A i \in DOMAIN r.lines : r.lines[i].key # None =>
                  nesting(r.lines)[i] = outside /\ r.lines[i].handler

\* Client, backend and docs are reconciled: whatever is read twice, dropped as a
\* duplicate or fallen back on, a procedure somebody calls or documents and the
\* backend lacks has a breaking entry and nothing else has; one it serves
\* without documentation has a warning; a call is bridged unless it is obsolete; and a
\* bridge is exact only if the docs declare it and no entry speaks against it.
SurfacesReconciled ==
  enriched.done /\ "bridge" \in workspace.enabled =>
    LET called == {c.key : c \in extractSwiftTrpcCalls(workspace.candidates)}
        documented == enriched.authority.procedures
        breaking == {m.key : m \in {x \in enriched.mismatches : x.severity = "breaking"}}
        against(b) == {m \in enriched.mismatches :
                         m.key = b.route /\ m.severity = "warning" /\ m.about[Len(m.about)] = b.file}
    IN /\ legible /\ served # {} =>
            /\ breaking = (called \cup documented) \ served
            /\ {b.route : b \in enriched.bridges} = called \cap served
            /\ served \ documented =
                 {m.key : m \in {x \in enriched.mismatches :
                                   x.kind = "missing-procedure" /\ x.severity = "warning"}}
       /\ ~workspace.index =>
            breaking \cap {m.key : m \in {x \in workspace.manifest : x.inRoot}} = {}
       /\ breaking \cap {b.route : b \in enriched.bridges} = {}
       /\ \A b \in enriched.bridges :
            /\ b.status = "exact" => b.route \in documented
            /\ against(b) = {} => b.status = "exact"
            /\ b.status = "mismatch" => against(b) # {}
       /\ \A f \in enriched.calls : \E c \in extractSwiftTrpcCalls(workspace.candidates) :
            c.line = f.line /\ c.file = f.file
              /\ (f.severity = "breaking" <=> c.key \in breaking)

\* Drift gates the application of plans, so it has to be found: with docs loaded,
\* no drift means that the code serves what the docs declare, and that nothing is
\* called or served that the phase blocks.
DriftIsFound ==
  enriched.done /\ enriched.authority.loaded /\ enriched.findings = {} =>
    LET calls == IF "bridge" \in workspace.enabled
                 THEN extractSwiftTrpcCalls(workspace.candidates) ELSE {}
    IN /\ "bridge" \in workspace.enabled =>
            extractBackendProcedureRefs(workspace) = workspace.docs.procedures
       /\ calls # {} => ~workspace.docs.bootstrap
                        /\ "backend calls" \notin workspace.docs.blocked
       /\ \A m \in enriched.mismatches : m.severity = "breaking" => m.kind = "obsolete-call"

\* What the comparison of client, backend and docs says is so.
BridgeReconciled == SurfacesReconciled /\ DriftIsFound
=============================================================================
