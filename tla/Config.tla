------------------------------- MODULE Config -------------------------------
(***************************************************************************)
(* The configuration: the file of the workspace or of the home directory   *)
(* is laid over the defaults, the HustleXP profile over both, and the      *)
(* result is validated, which fills what is still missing.                 *)
(*                                                                         *)
(* A section has its switch and one more value, `detail`; what is Unset is *)
(* not there.  The detail of daemon is the path of its state, that of      *)
(* authority and of bridges a repository, that of runtime a path, that of  *)
(* ownership the default owner, whose rules are a field of their own.      *)
(***************************************************************************)
EXTENDS Integers, Sequences, FiniteSets

CONSTANTS
  ConfigFiles,  \* [local, global]: what the file of each place holds, or Unset
  ConfigText,   \* what a value of a configuration may say
  Unset

VARIABLE configuration

NoConfiguration == [pc |-> "idle"]

ConfigSection == {"daemon", "github", "gitlab", "authority", "bridges", "automation", "ownership",
            "runtime", "policies", "maxTier"}

Absent == [enabled |-> Unset, detail |-> Unset]

\* The values the code itself knows, and "bad", what the schema refuses.
Written ==
  {"default", "home", "cwd", "profile", "bad", "features", "feature", "scale", "lint", "backend-tests",
   "contract-sync", "node_modules/", "changed-files-first", "api-surface-first", "commits", "types",
   "api-surface", "mismatches", "auto"}

\* What the schema takes for what comes first in a context, and for its focus.
Priority == {"changed-files-first", "api-surface-first"}
Focus == {"commits", "types", "api-surface", "mismatches", "auto"}

SectionText == [enabled : BOOLEAN \cup {Unset}, detail : ConfigText \cup {Unset}]
Repository ==
  [role : ConfigText, nameHas : SUBSET ConfigText, path : ConfigText \ {"bad"},
   exclude : SUBSET ConfigText]

isConfigFile(raw) ==
  /\ raw.named \subseteq ConfigSection
  /\ raw.sections \in [raw.named -> SectionText]
  /\ raw.profile \in BOOLEAN
  /\ raw.simulateOnly \in BOOLEAN \cup {Unset}
  /\ raw.prioritize \in Priority \cup {"bad", Unset} /\ raw.focus \in Focus \cup {"bad", Unset}
  /\ raw.categories = Unset \/ raw.categories \subseteq {"features", "feature", "scale", "bad"}
  /\ raw.checks = Unset \/ raw.checks \subseteq ConfigText
  /\ raw.repos \in Seq(Repository)
  /\ raw.rules \in Seq(ConfigText) /\ ("ownership" \notin raw.named => raw.rules = <<>>)

ASSUME ConfigAssumption ==
  /\ Written \subseteq ConfigText
  /\ Unset \notin BOOLEAN /\ Unset \notin ConfigText
  /\ \A files \in ConfigFiles :
       \A raw \in {files.local, files.global} : raw = Unset \/ isConfigFile(raw)

\* The first value that is there.
first(a, b) == IF a # Unset THEN a ELSE b
overlaid(a, b) == [enabled |-> first(a.enabled, b.enabled), detail |-> first(a.detail, b.detail)]

------------------------------------------------------------------------------
(* Loading.  A file is [named, sections, profile, simulateOnly, prioritize,
   focus, categories, checks, repos, rules]. *)

resolveConfigPath(files) == first(files.local, files.global)

\* Everything is off by default; the state lies in the home directory, and no
\* repository or path is known.
DEFAULT_CONFIG(s) == [enabled |-> FALSE, detail |-> CASE s = "daemon" -> "home"
                                                      [] s \in {"authority", "bridges", "runtime"} -> Unset
                                                      [] OTHER -> "default"]

\* Mutant: the defaults go over what the file says.
mergedUnder(raw) ==
  [s \in ConfigSection |-> IF s \in raw.named THEN overlaid(DEFAULT_CONFIG(s), raw.sections[s]) ELSE Absent]

\* Sections that the file names get their defaults, and others stay absent.
merged(raw) ==
  [s \in ConfigSection |-> IF s \in raw.named THEN overlaid(raw.sections[s], DEFAULT_CONFIG(s)) ELSE Absent]

------------------------------------------------------------------------------
(* The profile. *)

HUSTLEXP_REQUIRED_CHECKS == {"backend-tests", "contract-sync"}

\* Its seven rules, as one.
HUSTLEXP_OWNERSHIP_RULES == <<"profile">>

\* The first repository that looks like it, by its role or else its name.
infer(repos, role, name) ==
  LET like == {i \in DOMAIN repos : repos[i].role = role \/ name \in repos[i].nameHas}
  IN IF like = {} THEN Unset ELSE repos[CHOOSE i \in like : \A j \in like : i <= j].path

DEFAULT_EXCLUDES(role) == IF role = "other" THEN {} ELSE {"node_modules/"}
mergeRepoExcludes(repo) == [repo EXCEPT !.exclude = @ \cup DEFAULT_EXCLUDES(repo.role)]

\* What the profile says of a section, when the file leaves it open.
profileOf(s, repos) ==
  CASE s \in {"daemon", "policies"} -> [enabled |-> TRUE, detail |-> Unset]
    [] s = "authority" -> [enabled |-> TRUE, detail |-> infer(repos, "docs", "docs")]
    [] s = "bridges" -> [enabled |-> TRUE, detail |-> infer(repos, "backend", "backend")]
    [] s = "runtime" -> [enabled |-> FALSE, detail |-> "profile"]
    [] s \in {"github", "automation"} -> [enabled |-> TRUE, detail |-> "profile"]

\* Ownership and the maximum tier are switched on whatever the file says.
applySection(s, c) ==
  CASE s = "gitlab" -> c.sections[s]
    [] s = "ownership" -> [enabled |-> TRUE, detail |-> "profile"]
    [] s = "maxTier" -> [enabled |-> TRUE, detail |-> first(c.sections[s].detail, "profile")]
    [] OTHER -> overlaid(c.sections[s], profileOf(s, c.repos))

\* A list of rules, the file's first.  Rules are told apart by identity, so that none
\* of those parsed from the file is one of the profile's, whatever it says.
uniqueRules(rules) == rules \o HUSTLEXP_OWNERSHIP_RULES

applyHustleXpWorkflowProfile(c) ==
  IF ~c.profile THEN c
  ELSE [c EXCEPT
          !.sections = [s \in ConfigSection |-> applySection(s, c)],
          !.prioritize = IF @ = "changed-files-first" THEN "api-surface-first" ELSE @,
          !.focus = first(c.focus, "mismatches"),
          !.simulateOnly = first(c.simulateOnly, TRUE),
          !.checks = c.checks \cup HUSTLEXP_REQUIRED_CHECKS,
          !.repos = [i \in DOMAIN c.repos |-> mergeRepoExcludes(c.repos[i])],
          !.rules = uniqueRules(c.rules)]

------------------------------------------------------------------------------
(* Validation. *)

normalizeCategory(category) == IF category = "features" THEN "feature" ELSE category

\* What the schema puts in for what is missing: the state below the working directory.
schemaDefault(s) == [enabled |-> FALSE, detail |-> CASE s = "daemon" -> "cwd"
                                                     [] s \in {"authority", "bridges", "runtime"} -> Unset
                                                     [] OTHER -> "default"]

completed(s, section) == IF section = Absent THEN Absent ELSE overlaid(section, schemaDefault(s))

valid(c) ==
  /\ \A s \in ConfigSection : c.sections[s].detail # "bad"
  /\ \A i \in DOMAIN c.rules : c.rules[i] # "bad"
  /\ c.prioritize \in Priority /\ c.focus \in Focus \cup {Unset}
  /\ {normalizeCategory(k) : k \in c.categories} \subseteq {"feature", "scale"}
  /\ Len(c.repos) \in 1 .. 10

omniLinkConfigSchema(c) ==
  [c EXCEPT !.categories = {normalizeCategory(k) : k \in c.categories},
            !.sections = [s \in ConfigSection |-> completed(s, c.sections[s])]]

asLoaded(raw) ==
  [sections |-> merged(raw), profile |-> raw.profile, simulateOnly |-> raw.simulateOnly,
   prioritize |-> first(raw.prioritize, "changed-files-first"), focus |-> raw.focus,
   categories |-> first(raw.categories, {"feature", "scale"}),
   \* the default when the section is there, and what the schema puts in
   checks |-> first(raw.checks, IF "policies" \in raw.named THEN {"lint"} ELSE {}),
   repos |-> raw.repos, rules |-> raw.rules]

ConfigInit ==
  \E files \in ConfigFiles :
    configuration = [pc |-> "asked", files |-> files, raw |-> Unset, config |-> Unset]

\* One command reads the configuration.
loadConfig ==
  LET raw == resolveConfigPath(configuration.files)
      c == applyHustleXpWorkflowProfile(asLoaded(raw))
  IN /\ configuration.pc = "asked"
     /\ configuration' =
          CASE raw = Unset -> [configuration EXCEPT !.pc = "none"]
            [] raw # Unset /\ ~valid(c) -> [configuration EXCEPT !.pc = "rejected", !.raw = raw]
            [] OTHER -> [configuration EXCEPT !.pc = "loaded", !.raw = raw,
                                              !.config = omniLinkConfigSchema(c)]

ConfigSpec == ConfigInit /\ [][loadConfig]_configuration

------------------------------------------------------------------------------
(* Properties. *)

forced(raw, s) == raw.profile /\ s \in {"ownership", "maxTier"}

\* What the file says holds in the end, but for what the profile decides whatever the
\* file says: the switches of ownership and of maxTier, the default owner, and what
\* comes first in a context.  A switch that the file leaves open in a section it names
\* is off, so that to name a section for one value switches off what the profile would
\* switch on; the profile decides about the sections it does not name.  The file's
\* rules of ownership all stay, before the profile's.
UserWins ==
  LET raw == configuration.raw
      c == configuration.config
      own(s) == IF s \in raw.named THEN raw.sections[s] ELSE Absent
  IN /\ \A s \in ConfigSection :
          /\ own(s).enabled # Unset /\ ~forced(raw, s) => c.sections[s].enabled = own(s).enabled
          /\ own(s).detail # Unset /\ ~(forced(raw, s) /\ s = "ownership") =>
               c.sections[s].detail = own(s).detail
          /\ s \in raw.named /\ own(s).enabled = Unset /\ ~forced(raw, s) => ~c.sections[s].enabled
          /\ s \notin raw.named =>
               IF ~raw.profile \/ s = "gitlab" THEN c.sections[s] = Absent
               ELSE c.sections[s].enabled = (s # "runtime")
     /\ c.prioritize = IF raw.profile THEN "api-surface-first"
                       ELSE first(raw.prioritize, "changed-files-first")
     /\ raw.focus # Unset => c.focus = raw.focus
     /\ Len(raw.rules) <= Len(c.rules) /\ \A i \in DOMAIN raw.rules : c.rules[i] = raw.rules[i]

\* A configuration that is loaded, given the profile and validated again is what it
\* was, but for the profile's rules of ownership, which stand in it once more each
\* time; only a bad value of the file makes it invalid; and a workspace of the profile
\* is simulated unless the file says otherwise, and checks what both ask for.
ProfileSettles ==
  LET raw == resolveConfigPath(configuration.files)
      c == configuration.config
      again == omniLinkConfigSchema(applyHustleXpWorkflowProfile(c))
  IN /\ configuration.pc = "loaded" =>
          /\ valid(applyHustleXpWorkflowProfile(c))
          /\ again = [c EXCEPT !.rules = @ \o (IF raw.profile THEN HUSTLEXP_OWNERSHIP_RULES ELSE <<>>)]
          /\ raw.profile => /\ c.simulateOnly = (raw.simulateOnly # FALSE)
                            /\ HUSTLEXP_REQUIRED_CHECKS \subseteq c.checks
          /\ first(raw.checks, {}) \subseteq c.checks
          /\ \A i \in DOMAIN raw.repos : raw.repos[i].exclude \subseteq c.repos[i].exclude
     /\ configuration.pc = "rejected" =>
          \/ \E s \in raw.named : raw.sections[s].detail = "bad"
          \/ \E i \in DOMAIN raw.rules : raw.rules[i] = "bad"
          \/ raw.prioritize = "bad" \/ raw.focus = "bad"
          \/ "bad" \in first(raw.categories, {})
          \/ Len(raw.repos) \notin 1 .. 10

\* The configuration a command gets is the user's, completed: the two above.
ConfigSound ==
  /\ configuration.pc = "loaded" => UserWins
  /\ configuration.pc \in {"loaded", "rejected"} => ProfileSettles
=============================================================================
