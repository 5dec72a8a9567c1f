------------------------------ MODULE Quality ------------------------------
(***************************************************************************)
(* The quality gate: a text proposed for a file is checked against the     *)
(* manifest of the repository it lies in (references, conventions, slop    *)
(* and hard rules).                                                        *)
(*                                                                         *)
(* The text is a sequence of lines; a line is given by what the patterns   *)
(* of the checks find in it, and a name by its parts, each with the        *)
(* separator before it and its case.                                       *)
(***************************************************************************)
EXTENDS Integers, Sequences, FiniteSets, Subsequences, Reductions

CONSTANTS
  Proposal,  \* [file, repos, code]: what is looked at
  Unknown    \* no import in a line

VARIABLE gate  \* the proposal and what the check says of it

NoQuality == [pc |-> "idle"]

\* A line in which nothing is found.
Plain == [text |-> "", chars |-> 0, net |-> 0, import |-> Unknown, calls |-> {}, names |-> <<>>,
          comment |-> "none", closes |-> FALSE, marks |-> {}]

------------------------------------------------------------------------------
(* References.  A path is its directories, its stem and its extension; an
   import of another file goes up and then down; a manifest lists what it has
   found as [file, name, kind]. *)

\* The imports of a text: [spec, package, names, whole].
parseImports(code) == {i \in DOMAIN code : code[i].import # Unknown}

\* A call of a route is found by the pattern of the client, which keeps the host,
\* and by the string it is in, which does not.
parseApiCalls(code) ==
  UNION {UNION {(IF c.fetched THEN {[line |-> i, kind |-> c.kind, host |-> c.host, path |-> c.path]}
                 ELSE {})
                \cup {[line |-> i, kind |-> c.kind, host |-> FALSE, path |-> c.path]}
                  : c \in code[i].calls} : i \in DOMAIN code}

\* Mutant: a step up is ignored.
resolveInPlace(spec, file) ==
  [dir |-> file.dir \o spec.down, stem |-> spec.stem, ext |-> spec.ext]

\* The directory of a file at the top is ".", and stays in what is resolved.
resolveRelativeImport(spec, file) ==
  LET from == IF file.dir = <<>> THEN <<".">> ELSE file.dir
      kept == SubSeq(from, 1, IF Len(from) > spec.up THEN Len(from) - spec.up ELSE 0)
  IN [dir |-> kept \o spec.down, stem |-> spec.stem, ext |-> spec.ext]

Extensions == <<".ts", ".tsx", ".js", ".jsx", ".swift", ".py", ".go", ".rs", ".java">>

\* The file itself, the TypeScript file of a JavaScript name, the index of a
\* directory, in this order.
getImportCandidates(p) ==
  LET index(ext) == [dir |-> Append(p.dir, p.stem), stem |-> "index", ext |-> ext]
      with(ext) == [dir |-> p.dir, stem |-> p.stem, ext |-> ext]
      tried(k) == <<with(Extensions[k]), index(Extensions[k])>>
  IN <<p>> \o (IF p.ext = ".js" THEN <<with(".ts")>> ELSE <<>>)
     \o (IF p.ext = ".jsx" THEN <<with(".tsx")>> ELSE <<>>)
     \o (IF p.ext = "" THEN joined([k \in DOMAIN Extensions |-> tried(k)]) ELSE <<index(p.ext)>>)

getKnownFiles(manifest) == {s.file : s \in manifest.surface}

getExportsForFile(manifest, file) ==
  {s.name : s \in {t \in manifest.surface : t.file = file /\ t.kind \in {"export", "type"}}}

\* A segment of a route that is a parameter stands for any.
routeMatches(route, path) ==
  Len(route) = Len(path) /\ \A i \in DOMAIN route : route[i] \in {":", path[i]}

checkImport(import, file, manifest) ==
  LET candidates == getImportCandidates(resolveRelativeImport(import.spec, file))
      known == {n \in DOMAIN candidates : candidates[n] \in getKnownFiles(manifest)}
      matched == candidates[CHOOSE n \in known : \A k \in known : n <= k]
  IN IF known = {} THEN {<<"missing-file">>}
     ELSE IF import.whole THEN {}
     ELSE {<<"missing-export", n>> : n \in import.names \ getExportsForFile(manifest, matched)}

\* Imports of packages are not looked at here, and calls in all repositories.
checkReferences(code, file, manifest, ecosystem) ==
  LET routes == UNION {m.routes : m \in ecosystem}
      procedures == UNION {m.procedures : m \in ecosystem}
      known(c) == IF c.kind = "route" THEN ~c.host /\ \E r \in routes : routeMatches(r, c.path)
                  ELSE c.path \in procedures
  IN (UNION {{<<i, v>> : v \in checkImport(code[i].import, file, manifest)}
               : i \in {j \in parseImports(code) : code[j].import.package = Unknown}})
     \cup {<<c.line, <<"unknown", c.kind>>>> : c \in {d \in parseApiCalls(code) : ~known(d)}}

------------------------------------------------------------------------------
(* Conventions.  A part of a name is low, Cap or UPPER. *)

matchesConvention(name, convention) ==
  LET low == \A i \in DOMAIN name : name[i].case = "low"
      together == \A i \in DOMAIN name : i = 1 \/ name[i].sep = ""
  IN CASE convention = "camelCase" -> name[1].case = "low" /\ together
       [] convention = "PascalCase" -> name[1].case # "low" /\ together
       [] convention = "snake_case" -> low /\ \A i \in DOMAIN name : name[i].sep # "-"
       [] convention = "kebab-case" -> low /\ \A i \in DOMAIN name : i = 1 \/ name[i].sep = "-"
       [] convention = "mixed" -> TRUE

\* An UPPER part comes apart into letters, which makes no difference here.
suggestRename(name, convention) ==
  CASE convention = "camelCase" ->
         [i \in DOMAIN name |-> IF name[i].sep = "_" /\ name[i].case = "low"
                                THEN [sep |-> "", case |-> "Cap"] ELSE name[i]]
    [] convention = "snake_case" ->
         [i \in DOMAIN name |-> [sep |-> IF i = 1 THEN "" ELSE IF name[i].case = "low"
                                         THEN name[i].sep ELSE "_", case |-> "low"]]
    [] convention = "kebab-case" ->
         [i \in DOMAIN name |-> [sep |-> IF i = 1 THEN "" ELSE "-", case |-> "low"]]
    [] convention = "PascalCase" -> [i \in DOMAIN name |-> [sep |-> "", case |-> "Cap"]]

\* A name is declared as a class or as something else: [name, class, short].  What
\* is a class somewhere is no variable elsewhere.
extractIdentifiers(code) ==
  LET all == UNION {toSet(code[i].names) : i \in DOMAIN code}
      classes == {n.name : n \in {m \in all : m.class}}
  IN {n \in all : n.class \/ n.name \notin classes}

constant(name) == \A i \in DOMAIN name : name[i].case = "UPPER"

checkNamingConventions(code, convention) ==
  LET bad(n) == IF n.class THEN ~matchesConvention(n.name, "PascalCase")
                ELSE /\ ~matchesConvention(n.name, convention)
                     /\ ~(convention = "camelCase" /\ matchesConvention(n.name, "PascalCase"))
                     /\ ~constant(n.name)
                     /\ ~n.short
  IN IF convention = "mixed" THEN {}
     ELSE {[name |-> n.name,
            suggestion |-> suggestRename(n.name, IF n.class THEN "PascalCase" ELSE convention)]
             : n \in {m \in extractIdentifiers(code) : bad(m)}}

marked(code, mark) == {i \in DOMAIN code : mark \in code[i].marks}

inTests(dir) == \E i \in DOMAIN dir : dir[i] = "__tests__"

isTestFile(code, file) ==
  \/ file.stem = "a.test" \/ inTests(file.dir)
  \/ marked(code, "test import") # {}
  \/ marked(code, "test") # {} /\ marked(code, "expect") # {}

isRouteHandler(code) == marked(code, "route handler") # {}

checkFileLocation(code, file, manifest) ==
  {k \in {"test", "route"} :
     \/ /\ k = "test" /\ isTestFile(code, file) /\ manifest.testsApart
        /\ ~inTests(file.dir) /\ (file.dir = <<>> \/ Head(file.dir) \notin {"tests", "test"})
     \/ /\ k = "route" /\ isRouteHandler(code)
        /\ \E d \in manifest.routesIn : ~\E i \in DOMAIN file.dir : file.dir[i] = d}

\* The scan: braces are counted by lines, and while one function is open no other
\* begins, so an inner one belongs to the outer.
scanLine(s, line) ==
  LET begins == s.open = 0 /\ "async" \in line.marks
      depth == s.depth + line.net
      inside == s.open > 0 \/ begins
      start == IF begins THEN s.depth ELSE s.start
      await == (~begins /\ s.await) \/ "await" \in line.marks
      try == (~begins /\ s.try) \/ {"try", "catch"} \cap line.marks # {}
      at == IF begins THEN s.line ELSE s.open
      ends == inside /\ depth <= start
  IN [line |-> s.line + 1, depth |-> depth, start |-> start,
      open |-> IF inside /\ ~ends THEN at ELSE 0, await |-> inside /\ await, try |-> inside /\ try,
      found |-> IF ends THEN s.found \cup {[line |-> at, await |-> await, try |-> try]} ELSE s.found]

NothingOpen ==
  [line |-> 1, depth |-> 0, start |-> 0, open |-> 0, await |-> FALSE, try |-> FALSE, found |-> {}]

findAsyncFunctions(code) ==
  LET scan[n \in 0 .. Len(code)] == IF n = 0 THEN NothingOpen ELSE scanLine(scan[n - 1], code[n])
      s == scan[Len(code)]
  IN s.found \cup {[line |-> l, await |-> s.await, try |-> s.try] : l \in {s.open} \ {0}}

checkErrorHandling(code, manifest) ==
  IF manifest.errorHandling # "try-catch" THEN {}
  ELSE {f.line : f \in {g \in findAsyncFunctions(code) : g.await /\ ~g.try}}

blank(code) == \A i \in DOMAIN code : code[i] = Plain

validateConventions(code, file, manifest) ==
  IF blank(code) THEN {}
  ELSE {<<"naming", v>> : v \in checkNamingConventions(code, manifest.naming)}
       \cup {<<"file-location", v>> : v \in checkFileLocation(code, file, manifest)}
       \cup {<<"error-handling", v>> : v \in checkErrorHandling(code, manifest)}

------------------------------------------------------------------------------
(* Slop. *)

detectPlaceholders(code) == marked(code, "placeholder")

\* Packages; what the runtime brings along is not looked up.
extractExternalImports(code) ==
  {i \in parseImports(code) : code[i].import.package \notin {Unknown, "builtin"}}

detectPhantomImports(code, manifest) ==
  {i \in extractExternalImports(code) : code[i].import.package \notin manifest.packages}

BlockLines == 3
BlockChars == 60

\* The lines of the block that begins at a line: the next ones that say something,
\* as long as no more than two that do not come between.
block(code, i) ==
  LET says(j) == code[j].text # ""
      near == {j \in i .. Len(code) : says(j) /\ \A k \in i .. j : k + 2 < j => \E l \in k .. k + 2 : says(l)}
  IN {j \in near : says(i) /\ Cardinality({k \in near : k < j}) < BlockLines}

\* What the text has at those lines, if it is long enough to count.
blockKey(code, i) ==
  LET lines == Subsequence(code, block(code, i))
      chars == sum([n \in DOMAIN lines |-> lines[n].chars])
  IN IF Len(lines) = BlockLines /\ chars >= BlockChars
     THEN [n \in DOMAIN lines |-> lines[n].text] ELSE <<>>

firstOf(code, i) ==
  CHOOSE f \in 1 .. i : /\ blockKey(code, f) = blockKey(code, i)
                        /\ \A g \in 1 .. f - 1 : blockKey(code, g) # blockKey(code, i)

\* A number whose digits begin with those of another.
beginsWith(n, m) == n = m \/ \E k \in 1 .. 9 : n \div 10 ^ k = m

\* A block is not reported when a message already says its first line, or a line
\* whose number begins like it.
reportBlock(code, issues, i) ==
  LET f == firstOf(code, i)
      said == \E x \in issues : beginsWith(x.line, f) \/ beginsWith(x.first, f)
  IN IF blockKey(code, i) = <<>> \/ f = i \/ said THEN issues
     ELSE issues \cup {[line |-> i, first |-> f]}

detectDuplicateBlocks(code) ==
  LET upto[n \in 0 .. Len(code)] == IF n = 0 THEN {} ELSE reportBlock(code, upto[n - 1], n)
  IN upto[Len(code)]

\* More than half of the lines that say something are comments.
detectOverCommenting(code) ==
  LET next(s, line) ==
        CASE line = Plain -> s
          [] line # Plain /\ s.inside -> [s EXCEPT !.comments = @ + 1, !.inside = ~line.closes]
          [] line # Plain /\ ~s.inside /\ line.comment = "block" ->
               [s EXCEPT !.comments = @ + 1, !.inside = ~line.closes]
          [] line # Plain /\ ~s.inside /\ line.comment = "line" -> [s EXCEPT !.comments = @ + 1]
          [] OTHER -> [s EXCEPT !.lines = @ + 1]
      upto[n \in 0 .. Len(code)] == IF n = 0 THEN [comments |-> 0, lines |-> 0, inside |-> FALSE]
                                     ELSE next(upto[n - 1], code[n])
      s == upto[Len(code)]
  IN s.comments > s.lines

detectOverAbstraction(code) ==
  LET n(mark) == Cardinality(marked(code, mark))
      concrete == n("class") - n("abstract")
  IN {x \in {"extends", "abstract", "wrapper"} :
        \/ x # "abstract" /\ n(x) >= 3
        \/ x = "abstract" /\ concrete > 0 /\ n("abstract") + n("interface") >= 2 * concrete}

detectSlop(code, manifest) ==
  IF blank(code) THEN {}
  ELSE {<<"placeholder", i>> : i \in detectPlaceholders(code)}
       \cup {<<"phantom-import", i>> : i \in detectPhantomImports(code, manifest)}
       \cup {<<"duplicate-block", i>> : i \in detectDuplicateBlocks(code)}
       \cup {<<"over-commenting", 1>> : x \in {y \in {1} : detectOverCommenting(code)}}
       \cup {<<"over-abstraction", x>> : x \in detectOverAbstraction(code)}

------------------------------------------------------------------------------
(* Hard rules: <<rule, line>>. *)

\* Directories of tests below the top.
isExempt(file) ==
  file.stem = "a.test" \/ \E i \in 2 .. Len(file.dir) : file.dir[i] \in {"tests", "__tests__"}

\* A handler within three lines before and five after.
noFetchWithoutCatch(code) ==
  {i \in marked(code, "fetch") :
     /\ code[i].comment # "line"
     /\ ~\E j \in DOMAIN code : j \in i - 3 .. i + 5 /\ {"try", "catch"} \cap code[j].marks # {}}

noRawEnvAccess(code) == marked(code, "env") \ marked(code, "fallback")

checkRules(code, file) ==
  {<<"no-fetch-without-catch", i>> : i \in noFetchWithoutCatch(code)}
  \cup {<<"no-raw-env-access", i>> : i \in noRawEnvAccess(code)}
  \cup (IF isExempt(file) THEN {}
        ELSE {<<"no-any-cast", i>> : i \in marked(code, "any")}
             \cup {<<"no-hardcoded-secret", i>> : i \in marked(code, "secret")})

severity(rule) ==
  IF rule \in {"no-fetch-without-catch", "no-hardcoded-secret"} THEN "error" ELSE "warning"

------------------------------------------------------------------------------
(* The gate.  A file lies in the first repository whose path its own begins
   with, as a string: in app-api, it lies in app when that comes first. *)

\* A path as a manifest has it, and a name as code has it.
isPath(f) ==
  f = [dir |-> f.dir, stem |-> f.stem, ext |-> f.ext] /\ isSequence(f.dir) /\ "." \notin toSet(f.dir)
isName(n) == isSequence(n) /\ n # <<>> /\ \A i \in DOMAIN n : n[i].sep \in {"", "_"}

\* The lines are in order, and there is a repository.
ASSUME ProposalType ==
  \A p \in Proposal :
    /\ isSequence(p.code) /\ isSequence(p.file.dir)
    /\ \A i \in DOMAIN p.code :
         LET line == p.code[i]
         IN /\ line.net \in Int /\ \A n \in toSet(line.names) : isName(n.name)
            /\ line.import # Unknown =>
                 (line.import.package = Unknown =>
                    line.import.spec.up \in Nat /\ isSequence(line.import.spec.down))
    /\ isSequence(p.repos) /\ p.repos # <<>>
    /\ \A i \in DOMAIN p.repos : \A s \in p.repos[i].manifest.surface : isPath(s.file)
    /\ \A i \in DOMAIN p.repos : p.repos[i].manifest.naming
         \in {"camelCase", "PascalCase", "snake_case", "kebab-case", "mixed"}

GateInit == \E p \in Proposal : gate = [pc |-> "asked", input |-> p]

repoOf(p) ==
  LET in == {i \in DOMAIN p.repos : p.file.repo \in p.repos[i].prefixOf}
  IN IF in = {} THEN 1 ELSE CHOOSE i \in in : \A j \in in : i <= j

\* What is left of the path when that of the repository is cut off.
relativeTo(p, i) ==
  LET f == p.file IN
  [dir |-> IF p.repos[i].name = f.repo THEN f.dir ELSE <<"rest of the name">> \o f.dir,
   stem |-> f.stem, ext |-> f.ext]

qualityCheck ==
  /\ gate.pc = "asked"
  /\ LET p == gate.input
         i == repoOf(p)
         manifest == p.repos[i].manifest
         file == relativeTo(p, i)
         rules == checkRules(p.code, file)
     IN gate' = [pc |-> "checked", input |-> p,
                 references |-> checkReferences(p.code, file, manifest,
                                                {p.repos[j].manifest : j \in DOMAIN p.repos}),
                 conventions |-> validateConventions(p.code, file, manifest),
                 slop |-> detectSlop(p.code, manifest),
                 rules |-> rules,
                 passed |-> \A v \in rules : severity(v[1]) # "error"]

QualitySpec == GateInit /\ [][qualityCheck]_gate

------------------------------------------------------------------------------
(* Properties. *)

\* An import of another file is reported missing just when no file is where it
\* leads, by its own name, as TypeScript or as the index of a directory, and never
\* for a name the file exports; a file at the top of its repository is the
\* exception, for which every such import is.
ImportsResolve ==
  LET p == gate.input
      i == repoOf(p)
      surface == p.repos[i].manifest.surface
      dir == relativeTo(p, i).dir
      leads(spec) == SubSeq(dir, 1, Len(dir) - spec.up) \o spec.down
      there(spec) ==
        {s \in surface :
           \/ /\ s.file.dir = leads(spec) /\ s.file.stem = spec.stem
              /\ \/ s.file.ext = spec.ext
                 \/ spec.ext = "" /\ s.file.ext \in toSet(Extensions)
                 \/ <<spec.ext, s.file.ext>> \in {<<".js", ".ts">>, <<".jsx", ".tsx">>}
           \/ /\ s.file.dir = Append(leads(spec), spec.stem) /\ s.file.stem = "index"
              /\ IF spec.ext = "" THEN s.file.ext \in toSet(Extensions) ELSE s.file.ext = spec.ext}
  IN \A l \in {m \in DOMAIN p.code : p.code[m].import # Unknown
                                     /\ p.code[m].import.package = Unknown} :
       LET import == p.code[l].import
           names == {v[2][2] : v \in {w \in gate.references : w[1] = l /\ w[2][1] = "missing-export"}}
       IN IF dir = <<>> THEN import.spec.up = 0 => <<l, <<"missing-file">>>> \in gate.references
          ELSE Len(dir) >= import.spec.up =>
               /\ <<l, <<"missing-file">>>> \in gate.references <=> there(import.spec) = {}
               /\ \A n \in names : \E s \in there(import.spec) :
                    ~\E t \in surface : t.file = s.file /\ t.name = n /\ t.kind \in {"export", "type"}

\* Only what repeats is reported, and what repeats is: a block that comes again
\* has its first line, or one whose number begins like it, in some report.
RepeatsReported ==
  LET code == gate.input.code
      issues == {v[2] : v \in {w \in gate.slop : w[1] = "duplicate-block"}}
      again(i, j) == i < j /\ blockKey(code, i) # <<>> /\ blockKey(code, i) = blockKey(code, j)
  IN /\ \A x \in issues : x.first \in DOMAIN code /\ x.line \in DOMAIN code /\ again(x.first, x.line)
     /\ \A i, j \in DOMAIN code : again(i, j) =>
          \E x \in issues : beginsWith(x.first, firstOf(code, i)) \/ beginsWith(x.line, firstOf(code, i))

\* In a text whose braces are balanced, an await is reported just when it stands
\* in an outermost async function without any handler.
AwaitsGuarded ==
  LET code == gate.input.code
      nets == [i \in DOMAIN code |-> code[i].net]
      depth == [i \in 0 .. Len(code) |-> sum(SubSeq(nets, 1, i))]
      span(a, b) == /\ "async" \in code[a].marks
                    /\ a <= b /\ depth[b] <= depth[a - 1]
                    /\ \A k \in a .. b - 1 : depth[k] > depth[a - 1]
      outer(a, b) == /\ span(a, b)
                     /\ ~\E c, d \in DOMAIN code : span(c, d) /\ c < a /\ a <= d
      has(a, b, marks) == \E k \in a .. b : marks \cap code[k].marks # {}
      bad == {a \in DOMAIN code : \E b \in DOMAIN code :
                outer(a, b) /\ has(a, b, {"await"}) /\ ~has(a, b, {"try", "catch"})}
      p == gate.input
  IN p.repos[repoOf(p)].manifest.errorHandling = "try-catch"
     /\ (\A i \in DOMAIN depth : depth[i] >= 0) /\ depth[Len(code)] = 0 =>
       {v[2] : v \in {w \in gate.conventions : w[1] = "error-handling"}} = bad

\* A rename that is suggested follows the convention, but for camelCase when an
\* underscore is before a letter that is not low or the name does not begin low.
RenamesFollow ==
  LET p == gate.input
      naming == p.repos[repoOf(p)].manifest.naming
  IN \A v \in {w[2] : w \in {x \in gate.conventions : x[1] = "naming"}} :
       \/ matchesConvention(v.suggestion, naming) \/ matchesConvention(v.suggestion, "PascalCase")
       \/ naming = "camelCase"
          /\ \E i \in DOMAIN v.name : (i = 1 \/ v.name[i].sep = "_") /\ v.name[i].case # "low"

\* What the gate says is so.
QualityTrue ==
  gate.pc = "checked" => ImportsResolve /\ RepeatsReported /\ AwaitsGuarded /\ RenamesFollow
=============================================================================
