----------------------------- MODULE MCAnalysis -----------------------------
(***************************************************************************)
(* Small instances of the parts that compute an analysis from their input  *)
(* in one step.  A behaviour takes one part and one input at its start.    *)
(***************************************************************************)
EXTENDS Grapher, Bridge, Context, Quality, Health, Evolution, Config, Signals, SequencesExt, TLC

VARIABLE component

------------------------------------------------------------------------------
(* Grapher: changes in three files under every dependency relation, with a route and
   a procedure that another repository mentions or does not, contracts
   between every two small types, types of one concept in three repositories. *)

MCEcosystem ==
  LET none == [t \in TypeName |-> Undefined]
      Export(file, mentions) == [name |-> "use", file |-> file, isType |-> FALSE,
                                 mentions |-> mentions]
      Endpoint(file) == [name |-> "GET /u", handler |-> "getU", file |-> file,
                         isRoute |-> TRUE, output |-> "User"]
      Manifest(imports, exports, endpoints, types, dirty) ==
        [imports |-> imports, exports |-> exports, endpoints |-> endpoints,
         types |-> types, dirty |-> dirty]
      procedure == [Endpoint("f2") EXCEPT !.name = "task.get", !.isRoute = FALSE]
      consumer(types) == Manifest({}, {Export("f1", {"GET /u"})}, {}, types, {})
      idle == Manifest({}, {}, {}, none, {})
      helper == [name |-> "help", file |-> "f3", isType |-> FALSE, mentions |-> {}]
      impact ==
        {<<Manifest(i, x, {Endpoint(g) : g \in f} \cup {procedure}, none,
                    {<<"f1", "implementation-change">>, <<"f2", "type-change">>}),
           [consumer(none) EXCEPT !.exports = @ \cup u], idle>> :
           i \in SUBSET {e \in File \X File : e[1] # e[2]}, f \in {{"f1"}, {"f3"}, {"f1", "f3"}},
           x \in {{}, {helper, Export("f2", {"help"})}},
           u \in {{}, {Export("f3", {"task.get"})}, {Export("f1", {"GET /u", "task.get"})}}}
      OneType(fields) == [t \in TypeName |-> IF t = "User" THEN fields ELSE Undefined]
      id == [n \in {"id"} |-> [type |-> "string", wrapped |-> FALSE, optional |-> FALSE]]
      Small == UNION {[{"x"} -> Field], {f @@ id : f \in [{"x"} -> Field]},
                      {id, Undefined}}
      contract ==
        {<<Manifest({}, {}, {Endpoint("f1")}, OneType(p), {}), consumer(OneType(c)), idle>> :
           p, c \in Small}
      Shape == {Undefined, [n \in {"x"} |-> id["id"]], [n \in {"x", "id"} |-> id["id"]]}
      Types(u, d, a) == [t \in TypeName |-> CASE t = "User" -> u [] t = "UserDTO" -> d
                                              [] t = "Account" -> a]
      holder(types) == Manifest({}, {}, {}, types, {})
      lineage ==
        {<<holder(Types(u, d, Undefined)), holder(Types(v, Undefined, a)),
           holder(Types(Undefined, Undefined, b))>> : u, d, v, a, b \in Shape}
  IN impact \cup contract \cup lineage

MCconceptNames == [t \in TypeName |-> IF t = "UserDTO" THEN {"UserDTO", "User"} ELSE {t}]
MCpickConceptName == [p \in TypeName \X TypeName |->
                        IF p[1] = "Account" /\ p[2] # "User" THEN "Account" ELSE "User"]

------------------------------------------------------------------------------
(* Bridge: which of two procedures is called, served and documented under every
   switch; payloads against contracts; the text of a router. *)

MCWorkspace ==
  LET Call(k, line, input) == [key |-> k, file |-> "A.swift", line |-> line, input |-> input,
                               output |-> None]
      calls(ks, input) == {Call(k, IF k = "task.get" THEN 1 ELSE 2, input) : k \in ks}
      Line(k, handler, brackets) == [key |-> k, handler |-> handler, brackets |-> brackets]
      plain(ks) == SetToSeq({Line(k, TRUE, <<>>) : k \in ks})
      brace(opens) == [kind |-> "brace", opens |-> opens]
      paren(opens) == [kind |-> "paren", opens |-> opens]
      Router(lines, readable) ==
        [route |-> "task", file |-> "task.ts", readable |-> readable, lines |-> lines]
      contract(ks, type) == [k \in ks |-> [input |-> type, output |-> NoFields]]
      Docs(ks, type, blocked, boot) ==
        [present |-> TRUE, bootstrap |-> boot, blocked |-> blocked, procedures |-> ks,
         contracts |-> contract(ks \ {"task.list"}, type)]
      Space(enabled, docs, candidates, index, routers, manifest) ==
        [enabled |-> enabled, docs |-> docs, candidates |-> candidates, manyExports |-> FALSE,
         index |-> index, routers |-> routers, manifest |-> manifest]
      both == {"authority", "bridge"}
      inRoot(ks) == {[key |-> k, inRoot |-> k = "task.get"] : k \in ks}
      surfaces ==
        {Space(e, [Docs(d, NoFields, b, boot) EXCEPT !.present = d # {}],
               <<{}, calls(c, None)>>, index, {Router(plain(s), readable)}, inRoot(s)) :
           e \in SUBSET both, c, d, s \in SUBSET Procedure, index, readable, boot \in BOOLEAN,
           b \in {{}, {"backend calls"}, {"api endpoints"}}}
      Spelled == [type : {"string", "UUID", "Int", "Timestamp"}, array : {0, 1},
                  optional : BOOLEAN]
      Payload == {NoFields} \cup [{"id"} -> Spelled]
                 \cup {f @@ [n \in {"madeAt"} |-> [type |-> ty, array |-> 0,
                                                     optional |-> TRUE]] :
                          f \in [{"id"} -> Spelled], ty \in {"Timestamp", "string"}}
      payload ==
        {Space(both, Docs({"task.get"}, doc, {}, FALSE),
               <<calls({"task.get"}, swift)>>, TRUE, {Router(plain({"task.get"}), TRUE)}, {}) :
           doc \in Payload, swift \in Payload \cup {None}}
      Brackets == {<<>>, <<brace(TRUE)>>, <<paren(FALSE), brace(FALSE), paren(TRUE)>>}
      Text == [1 .. 3 -> {Line(k, handler, b) : k \in Procedure \cup {None},
                          handler \in BOOLEAN, b \in Brackets}]
      text == {Space(both, Docs(Procedure, NoFields, {}, FALSE),
                     <<calls({"task.get"}, None), calls(Procedure, None)>>,
                     TRUE, {Router(l, TRUE)}, {}) : l \in Text}
  IN surfaces \cup payload \cup text

------------------------------------------------------------------------------
(* Context: budgets from nothing to enough, for graphs with and without each
   section, for digests and for pairs of texts. *)

MCGraphInput ==
  LET full == [commits |-> <<2, 1>>, sharedTypes |-> <<3>>, types |-> <<1, 1>>,
               bridges |-> <<1, 2>>, impactPaths |-> <<2>>, routes |-> <<1, 3>>]
      choice(s) == [x \in DOMAIN full |-> IF x \in s THEN full[x] ELSE <<>>]
  IN [sections : {choice(s) : s \in SUBSET DOMAIN full}, conventions : {[full |-> 3, bare |-> 1]},
      kept : {2}, prioritize : {"changed-files-first", "api-surface-first"},
      focus : {"auto", "commits", "api-surface"}, budget : {1, 4, 7, 10, 13, 16}, hasRepos : BOOLEAN]

MCDigestInput ==
  [costs : {[full |-> 5, commit |-> 2, suggestion |-> 3, compact |-> 4, minimal |-> 2,
             part |-> [diagram |-> 4, types |-> 3, routes |-> 2, details |-> 1]]},
   commits : 0 .. 2, evolution : 0 .. 2, parts : {Part, Tail(Part)}, budget : 1 .. 24]

MCTextInput ==
  LET Text(label) == {[label |-> label, words |-> w, chars |-> n[1], squeezed |-> n[2], score |-> s] :
                        w \in {{"a"}, {"a", "b"}, {"c"}},
                        n \in {<<3, 3>>, <<17, 9>>, <<45, 45>>, <<60, 48>>, <<60, 20>>},
                        s \in {0, 5}}
      third == [label |-> "z", words |-> {"a"}, chars |-> 9, squeezed |-> 9, score |-> 5]
  IN {[sections |-> <<x, y, third>>, budget |-> b] : x \in Text("x"), y \in Text("y"), b \in {1, 6, 20}}

------------------------------------------------------------------------------
(* Quality: imports from three directories to five files in two repositories, one
   named after the other; calls; sequences of lines for each scan. *)

MCProposal ==
  LET At(dir, stem, ext) == [dir |-> dir, stem |-> stem, ext |-> ext]
      Spec(up, down, stem, ext) == [up |-> up, down |-> down, stem |-> stem, ext |-> ext]
      Found(file, name, kind) == [file |-> file, name |-> name, kind |-> kind]
      Manifest(surface, naming) ==
        [surface |-> surface, routes |-> {<<"api", "users", ":">>}, procedures |-> {<<"user.get">>},
         packages |-> {"zod"}, naming |-> naming, testsApart |-> TRUE, routesIn |-> {"routes"},
         errorHandling |-> "try-catch"]
      Repo(name, prefixOf, manifest) == [name |-> name, prefixOf |-> prefixOf, manifest |-> manifest]
      Asked(repo, file, manifest, code) ==
        [file |-> [repo |-> repo, dir |-> file.dir, stem |-> file.stem, ext |-> file.ext],
         repos |-> <<Repo("app", {"app", "app-api"}, manifest),
                     Repo("app-api", {"app-api"}, Manifest({}, "mixed"))>>,
         code |-> code]
      Import(spec, package, names, whole) ==
        [Plain EXCEPT !.text = "import", !.chars = 20,
           !.import = [spec |-> spec, package |-> package, names |-> names, whole |-> whole]]
      here == At(<<"src">>, "m", ".ts")
      Surface == SUBSET {Found(At(<<"src">>, "a", ".ts"), "x", "export"),
                         Found(At(<<"src">>, "a", ".js"), "y", "type"),
                         Found(At(<<"src", "a">>, "index", ".ts"), "x", "route"),
                         Found(At(<<>>, "a", ".ts"), "y", "export")}
      imports ==
        {Asked(repo, At(dir, "m", ".ts"), Manifest(s, "mixed"),
               <<Import(Spec(up, down, "a", ext), Unknown, names, FALSE)>>) :
           repo \in {"app", "app-api"}, dir \in {<<>>, <<"src">>, <<"src", "a">>}, s \in Surface,
           up \in 0 .. 1, down \in {<<>>, <<"a">>}, ext \in {"", ".js", ".ts"},
           names \in {{}, {"x"}, {"x", "y"}}}
      packages == {Asked("app", here, Manifest({}, "mixed"),
                         <<Import(Unknown, package, {"x"}, whole)>>) :
                     package \in {"zod", "left-pad", "builtin"}, whole \in BOOLEAN}
      Call(kind, path, host, fetched) ==
        [Plain EXCEPT !.text = "call", !.marks = {"fetch"},
           !.calls = {[kind |-> kind, path |-> path, host |-> host, fetched |-> fetched]}]
      calls == {Asked("app", here, Manifest({}, "mixed"), <<Call(c[1], c[2], host, fetched)>>) :
                  c \in {<<"route", <<"api", "users", "1">>>>, <<"route", <<"api">>>>,
                         <<"procedure", <<"user.get">>>>, <<"procedure", <<"user.drop">>>>},
                  host, fetched \in BOOLEAN}
      Says(text) == [Plain EXCEPT !.text = text, !.chars = IF text = "short" THEN 5 ELSE 30]
      Has(marks, net) == [Plain EXCEPT !.text = "code", !.chars = 9, !.marks = marks, !.net = net]
      filler(n) == <<Says("e"), Says("f"), Says("g"), Says("h"), Says("i"), Says("j"), Says("k"),
                     Says("l"), Says("m"), Says("n")>>[n]
      fill(a, b) == [n \in 1 .. b - a + 1 |-> filler(a + n - 1)]
      abc == <<Says("a"), Says("b"), Says("c")>>
      xyz == <<Says("x"), Says("y"), Says("z")>>
      long == {abc \o xyz \o fill(1, 5) \o between \o xyz \o after :
                 between \in {<<>>, <<Says("o")>>}, after \in {<<>>, abc, <<Says("p")>> \o abc}}
      repeats == {Asked("app", here, Manifest({}, "mixed"), code) :
                    code \in long \cup [1 .. 7 -> {Says("a"), Says("b"), Plain}]
                             \cup {abc \o gap \o abc : gap \in SeqOf({Says("short"), Plain}, 3)}}
      awaits == {Asked("app", here, Manifest({}, "mixed"), code) :
                   code \in [1 .. 5 -> {Has({"async"}, 1), Has({"async", "await"}, 0),
                                        Has({"await"}, 0), Has({"try"}, 1), Has({}, -1)}]}
      Comment(kind, closes) == [Plain EXCEPT !.text = kind, !.comment = kind, !.closes = closes]
      slop == {Asked("app", At(dir, stem, ".ts"), Manifest({}, "mixed"), code) :
                 dir \in {<<"src">>, <<"tests">>, <<"src", "tests">>, <<"__tests__">>},
                 stem \in {"m", "a.test"},
                 code \in [1 .. 2 -> {Comment("line", FALSE), Comment("block", TRUE),
                                      Comment("block", FALSE), Says("a"), Plain,
                                      Has({"test", "expect"}, 0), Has({"route handler"}, 0),
                                      Has({"class", "placeholder"}, 0), Has({"abstract", "class"}, 0),
                                      Has({"interface"}, 0), Has({"env"}, 0), Has({"any"}, 0),
                                      Has({"secret"}, 0), Has({"fetch"}, 0), Has({"catch"}, 0)}]}
      Name == {<<f>> \o rest :
                 f \in {[sep |-> "", case |-> c] : c \in {"low", "Cap", "UPPER"}},
                 rest \in {<<>>} \cup {<<[sep |-> s, case |-> c]>> : s \in {"", "_"},
                                                                  c \in {"Cap", "UPPER"}}
                          \cup {<<[sep |-> "_", case |-> "low"]>>}}
      Declares(n, class) == [Plain EXCEPT !.text = "let",
                               !.names = <<[name |-> n, class |-> class, short |-> FALSE]>>]
      names == {Asked("app", here, Manifest({}, naming), <<Declares(n, class), Declares(m, FALSE)>>) :
                  n, m \in Name, class \in BOOLEAN,
                  naming \in {"camelCase", "snake_case", "PascalCase", "kebab-case", "mixed"}}
  IN imports \cup packages \cup calls \cup repeats \cup awaits \cup slop \cup names

------------------------------------------------------------------------------
(* Health: no, one or two repositories, good and bad in everything. *)

MCPortfolio ==
  LET Repo == [role : {"backend-api", "ios-client", "product-governance", "default"},
               todo : {0, 1}, dead : {0, 1}, exports : {3}, test : {NoReport, 50},
               lint : {0}, types : {0, 2}]
      Scored == [role : {"default"}, todo : {0, 2, 3, 12}, dead : {0, 5}, exports : {0, 2}, test : {0, 30, 100},
                 lint : {0, 60}, types : {1}]
  IN {<<>>} \cup [1 .. 2 -> Repo] \cup [1 .. 2 -> Scored]

------------------------------------------------------------------------------
(* Evolution: a server with some of five routes and three procedures, alone or
   with a second one that serves little; few suggestions wanted, or many. *)

MCEvolving ==
  LET fileOf(at) == CASE at \in {"r1", "r2"} -> "users" [] at \in {"r3", "r4"} -> "forms" [] OTHER -> Nowhere
      Route(method, resource, list, paged, types, marks, handler, at) ==
        [method |-> method, resource |-> resource, base |-> "/api", list |-> list, paged |-> paged,
         input |-> types[1], output |-> types[2], marks |-> marks, handler |-> handler,
         file |-> fileOf(at), at |-> at]
      Proc(name, kind, paged, types, at) ==
        [name |-> name, kind |-> kind, list |-> kind = "query", paged |-> paged, input |-> types[1],
         output |-> types[2], at |-> at]
      routes == <<Route("GET", "users", TRUE, FALSE, <<"", "">>, {"version"}, "list", "r1"),
                  Route("GET", "users", FALSE, FALSE, <<"", "User">>, {}, "get", "r2"),
                  Route("POST", "users", TRUE, FALSE, <<"User", "">>, {}, "add", "r3"),
                  Route("DELETE", "posts", FALSE, FALSE, <<"", "">>, {}, "drop", Nowhere),
                  Route("GET", "posts", TRUE, TRUE, <<"", "Post">>, {"health"}, "posts", "r4")>>
      procedures == <<Proc("tasks", "query", FALSE, <<"", "Task">>, "p1"),
                      Proc("add", "mutation", FALSE, <<"", "">>, Nowhere),
                      Proc("drop", "mutation", FALSE, <<"Task", "">>, "p2")>>
      some(seq, s) == SelectSeq(seq, LAMBDA x : \E i \in s : seq[i] = x)
      Server(rs, ps, packages) ==
        [repo |-> "api", language |-> "typescript", routes |-> some(routes, rs),
         procedures |-> some(procedures, ps), packages |-> packages, imported |-> {"used"},
         exports |-> <<[name |-> "unused", isType |-> FALSE, at |-> "e"],
                       [name |-> "used", isType |-> FALSE, at |-> "e"]>>,
         schemas |-> <<[name |-> "Task", at |-> "s"]>>, errorHandling |-> "try-catch"]
      other == [Server({1}, {}, {"hono", "pino"}) EXCEPT !.repo = "jobs"]
      app == [Server({1, 3}, {}, {}) EXCEPT !.repo = "app", !.language = "swift"]
      all == {"feature", "scale", "security", "performance"}
  IN {[repos |-> repos, categories |-> c, limit |-> l] :
        repos \in {<<Server(rs, ps, packages)>> \o rest :
                     rs \in SUBSET (1 .. 5), ps \in SUBSET (1 .. 3),
                     packages \in {{}, {"express-rate-limit", "zod"}, {"p-limit", "redis", "bullmq"},
                                   {"@hono/rate-limiter", "hono"}},
                     rest \in {<<>>, <<other, app>>}},
        c \in {all, {"scale", "feature"}, {"security"}}, l \in {2, 20}}

------------------------------------------------------------------------------
(* Config: files that name up to two sections with every switch and detail, with
   and without the profile; files with every other value and none named; files with
   rules of ownership, good and bad, the profile's own among them; each as the
   workspace's file, the home directory's, both or none. *)

MCConfigText ==
  Written \cup {"user", "backend", "other", "docs", "api", "manuals", "dist/"}

MCConfigFiles ==
  LET Says == [enabled : {Unset, TRUE, FALSE}, detail : {Unset, "user", "bad"}]
      Repo(role, nameHas, path) == [role |-> role, nameHas |-> nameHas, path |-> path, exclude |-> {"dist/"}]
      two == <<Repo("backend", {}, "api"), Repo("other", {"docs"}, "manuals")>>
      plain == [named |-> {}, sections |-> <<>>, profile |-> FALSE, simulateOnly |-> Unset,
                prioritize |-> Unset, focus |-> Unset, categories |-> Unset, checks |-> Unset,
                repos |-> two, rules |-> <<>>]
      sections == UNION {{[plain EXCEPT !.named = n, !.sections = s, !.profile = p] :
                         s \in [n -> Says], p \in BOOLEAN} :
                        n \in {{a, b} : a, b \in ConfigSection}}
      others == {[plain EXCEPT !.named = n, !.sections = [s \in n |-> [enabled |-> TRUE, detail |-> Unset]],
                               !.profile = p, !.simulateOnly = o, !.prioritize = "changed-files-first",
                               !.focus = f, !.categories = c, !.checks = k, !.repos = r] :
                   n \in {{}, {"policies"}}, p \in BOOLEAN, o \in {Unset, TRUE, FALSE},
                   f \in {Unset, "commits"},
                   c \in {Unset, {"features"}, {"feature", "features", "scale"}, {"scale", "bad"}},
                   k \in {Unset, {}, {"lint", "contract-sync"}}, r \in {<<>>, two}}
      ruled == {[plain EXCEPT !.named = {"ownership"}, !.sections = [s \in {"ownership"} |-> Absent],
                              !.profile = p, !.prioritize = o, !.focus = f, !.rules = r] :
                  p \in BOOLEAN, o \in Priority \cup {"bad", Unset}, f \in {Unset, "types", "bad"},
                  r \in {<<>>, <<"user", "user">>, <<"profile", "user">>, <<"user", "bad">>}}
  IN {[local |-> f, global |-> Unset] : f \in sections \cup others \cup ruled}
     \cup {[local |-> l, global |-> g] :
             l \in {Unset, [plain EXCEPT !.profile = TRUE]}, g \in {Unset, plain}}

------------------------------------------------------------------------------
(* Signals: rules of every scope over two repositories, one of them owned by a rule
   or by none; each artifact absent, unreadable, poor and rich; mismatches of every
   severity between the two. *)

MCSetting ==
  LET Lies(form, of) == [form |-> form, of |-> of]
      missing == Lies("missing", <<>>)
      unread == Lies("unread", <<>>)
      traffic(r, e, i, p) == Lies("json", [requests |-> r, errors |-> e, incidents |-> i, p95Ms |-> p])
      timed(n, slow, e, p) == Lies("json", [spans |-> n, slowSpans |-> slow, errors |-> e, p95Ms |-> p])
      readable ==
        [coverage |-> {Lies("json", [pct |-> n]) : n \in {0, 40, 120}},
         tests |-> {Lies("json", [passed |-> n, failed |-> f]) : n, f \in {0, 3}},
         openapi |-> {Lies(form, [operations |-> n]) : form \in {"json", "text"}, n \in {0, 6, 90}},
         graphql |-> {Lies(form, [types |-> n]) : form \in {"json", "text"}, n \in {0, 8, 90}},
         telemetry |-> {traffic(r, e, i, p) : r \in {0, 100, 20000}, e \in {0, 1, 50},
                                              i \in {0, 20}, p \in {0, 400}},
         trace |-> {timed(n, slow, e, p) : n \in {0, 100, 40000}, slow \in {0, 5}, e \in {0, 2, 50},
                                           p \in {0, 5000}}]
      none == [key \in DOMAIN readable |-> [configured |-> missing, discovered |-> missing]]
      Repo(id, coverage, artifacts) ==
        [id |-> id, coverage |-> coverage, artifacts |-> artifacts,
         files |-> {"src/" \o id, "api.ts"}, routes |-> IF id = "api" THEN {"/tasks"} ELSE {},
         procedures |-> {}, packages |-> IF id = "app" THEN {"swift-nio"} ELSE {"hono"}]
      Between(p, c, s, risk) == [provider |-> p, consumer |-> c, severity |-> s, risk |-> risk]
      Suggests(n, c, repos) == [title |-> n, category |-> c, repos |-> repos]
      plain == [repos |-> <<Repo("api", Unmeasured, none), Repo("app", Unmeasured, none)>>,
                rules |-> <<>>, ownership |-> [enabled |-> TRUE, defaultOwner |-> "all"],
                runtime |-> TRUE, bridges |-> <<[provider |-> 1, consumer |-> 2, risk |-> 0]>>,
                mismatches |-> <<Between(1, 2, "warning", 63)>>, impacts |-> <<>>, findings |-> <<>>,
                suggestions |-> <<Suggests(2, "security", {1}), Suggests(1, "scale", {1, 2}),
                                  Suggests(3, "feature", {2})>>]
      Rule(owner, scope, repo, pattern) == [owner |-> owner, scope |-> scope, repo |-> repo, pattern |-> pattern]
      Rules == {Rule("ada", "repo", "api", {}), Rule("bob", "repo", Nobody, {"api", "app"}),
                Rule("ada", "path", "api", {"api.ts"}), Rule("bob", "path", Nobody, {"src/app"}),
                Rule("ada", "api", Nobody, {"/tasks"}), Rule("bob", "package", Nobody, {"hono", "zod"})}
      ownership == {[plain EXCEPT !.rules = r, !.ownership = [enabled |-> e, defaultOwner |-> d]] :
                      r \in SeqOf(Rules, 3), e \in BOOLEAN, d \in {Nobody, "all"}}
      Set(key, configured, discovered) ==
        [none EXCEPT ![key] = [configured |-> configured, discovered |-> discovered]]
      artifacts == UNION {{[plain EXCEPT !.runtime = on,
                              !.repos = <<Repo("api", coverage, Set(key, c, d)), @[2]>>] :
                             on \in BOOLEAN, coverage \in {Unmeasured, 70},
                             c \in {missing, unread} \cup readable[key],
                             d \in {missing, unread, CHOOSE x \in readable[key] : TRUE}} :
                            key \in DOMAIN readable}
      BuiltRisk == [breaking |-> 92, warning |-> 63, info |-> 28]
      risks == {[plain EXCEPT !.repos = <<Repo("api", x, none), Repo("app", y, none)>>,
                   !.mismatches = <<Between(1, 2, a, BuiltRisk[a]), Between(2, 1, b, BuiltRisk[b])>>,
                   !.impacts = <<[trigger |-> 2, affected |-> f, risk |-> 55]>>, !.findings = found] :
                  x, y \in {Unmeasured, 0, 55, 100}, a, b \in DOMAIN BuiltRisk,
                  f \in SUBSET DOMAIN BuiltRisk, found \in {<<>>, <<[risk |-> 95]>>}}
  IN ownership \cup artifacts \cup risks

------------------------------------------------------------------------------
vars == <<component, graphVars, bridgeVars, contextVars, gate, health, evolution,
          configuration, weighed>>

\* The parts that a behaviour does not take stay idle.
NoGrapher == manifests = None /\ graph = NoGraph
NoBridge == workspace = None /\ enriched = NotYet
NoContext == pruner = Idle /\ digest = Idle /\ optimizer = Idle

Init ==
  /\ component \in {"grapher", "bridge", "context", "quality", "health", "evolution", "config", "signals"}
  /\ IF component = "grapher" THEN GrapherInit ELSE NoGrapher
  /\ IF component = "bridge" THEN BridgeInit ELSE NoBridge
  /\ IF component = "context" THEN ContextInit ELSE NoContext
  /\ IF component = "quality" THEN GateInit ELSE gate = NoQuality
  /\ IF component = "health" THEN HealthInit ELSE health = NoHealth
  /\ IF component = "evolution" THEN EvolutionInit ELSE evolution = NoEvolution
  /\ IF component = "config" THEN ConfigInit ELSE configuration = NoConfiguration
  /\ IF component = "signals" THEN SignalsInit ELSE weighed = NotWeighed

Next ==
  /\ \/ /\ component = "grapher" /\ BuildGraph
        /\ UNCHANGED <<bridgeVars, contextVars, gate, health, evolution, configuration, weighed>>
     \/ /\ component = "bridge" /\ enrichGraphForConfig
        /\ UNCHANGED <<graphVars, contextVars, gate, health, evolution, configuration, weighed>>
     \/ ContextNext /\ UNCHANGED <<graphVars, bridgeVars, gate, health, evolution, configuration, weighed>>
     \/ /\ qualityCheck
        /\ UNCHANGED <<graphVars, bridgeVars, contextVars, health, evolution, configuration, weighed>>
     \/ /\ scoreEcosystemHealth
        /\ UNCHANGED <<graphVars, bridgeVars, contextVars, gate, evolution, configuration, weighed>>
     \/ /\ analyzeEvolution
        /\ UNCHANGED <<graphVars, bridgeVars, contextVars, gate, health, configuration, weighed>>
     \/ loadConfig /\ UNCHANGED <<graphVars, bridgeVars, contextVars, gate, health, evolution, weighed>>
     \/ /\ SignalsNext
        /\ UNCHANGED <<graphVars, bridgeVars, contextVars, gate, health, evolution, configuration>>
  /\ UNCHANGED component

Spec == Init /\ [][Next]_vars
=============================================================================
