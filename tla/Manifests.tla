----------------------------- MODULE Manifests -----------------------------
(***************************************************************************)
(* What a scan of the repositories knows, and the branch signatures that    *)
(* key it: engine/scanner (scanRepo's result) and the two signature         *)
(* functions of engine/daemon/index.ts, one over manifests, one over the    *)
(* repositories as they are now.                                            *)
(*                                                                          *)
(* A repository is a commit with uncommitted edits, or Gone (its directory  *)
(* cannot be read, its git commands fail).  An edit has file names; of two  *)
(* edits with the same names git and both signatures see the same.          *)
(***************************************************************************)
EXTENDS Integers, FiniteSets

CONSTANTS Repo,
          Head,    \* (branch, commit) pairs
          Edit,    \* uncommitted edits
          Names,   \* edit -> the names of the files it touches
          Split,   \* edits partly staged: git diff lists their files twice
          NoEdit, Gone

Tree == [head : Head, edit : Edit \cup {NoEdit}]
Work == Tree \cup {Gone}

ASSUME ManifestsAssumption ==
  /\ Repo # {}
  /\ NoEdit \notin Edit
  /\ Gone \notin Tree
  /\ \A h \in Head : h # "" /\ h # "unknown"
  /\ DOMAIN Names = Edit
  /\ Split \subseteq Edit

\* What scanRepo returns: the files it read, and the git state it asked for
\* after it had read them.
Manifest == [files : Work, git : Work]

namesOf(edit) == IF edit = NoEdit THEN {} ELSE Names[edit]

\* currentBranchSignature: one entry of the signature, from the repository as
\* it is.  A file listed by both git diff and git diff --cached counts twice.
currentEntry(w) ==
  IF w = Gone
  THEN [head |-> "unknown", names |-> {}, twice |-> FALSE]
  ELSE [head |-> w.head, names |-> namesOf(w.edit), twice |-> w.edit \in Split]

currentBranchSignature(work) == [r \in Repo |-> currentEntry(work[r])]

\* Mutant: an unavailable repository looks the same in both signatures.
manifestEntryUnknown(m) ==
  IF m.git = Gone
  THEN [head |-> "unknown", names |-> {}, twice |-> FALSE]
  ELSE [head |-> m.git.head, names |-> namesOf(m.git.edit), twice |-> FALSE]

\* branchSignatureFromManifests: one entry.  Every git command of a repository
\* that is gone returned the empty string; extractGitState collects the changed
\* files in a Set.
manifestEntry(m) ==
  IF m.git = Gone
  THEN [head |-> "", names |-> {}, twice |-> FALSE]
  ELSE [head |-> m.git.head, names |-> namesOf(m.git.edit), twice |-> FALSE]

\* A scan in which a repository failed has no manifest, so no entry, of it.
branchSignature(man) == [r \in DOMAIN man |-> manifestEntry(man[r])]

Signature == [Repo -> {currentEntry(w) : w \in Work}]
=============================================================================
