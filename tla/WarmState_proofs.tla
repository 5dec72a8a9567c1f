-------------------------- MODULE WarmState_proofs --------------------------
(***************************************************************************)
(* Proofs about WarmState, for any repositories, edits, commands, number of *)
(* overlapping flushes, legacy file and bounds: type correctness, that a    *)
(* command is only served states of the commits and changed files it saw,   *)
(* and that no change the watch loop was told of gets lost.                 *)
(*                                                                          *)
(* The strengthening is what a task holds at each of its steps (HoldsOK).   *)
(* That a served state answers the command rests on one fact about the two  *)
(* branch signatures (SignatureAnswers): one that was computed from the     *)
(* repositories is matched by no state with a repository missing or without *)
(* git, nor by one with another commit or other changed files.              *)
(***************************************************************************)
EXTENDS WarmState, TLAPS

Fresh == {"freshTrunc", "freshWrite"}
Ended == {"done", "hit", "failed"}

\* Where the task is, or goes on once the migration is over.
target(k) == IF k.pc \in Fresh THEN k.then ELSE k.pc

\* What a task holds, by its step and by the step of each of its scans.
Holds(k) ==
  /\ k.pc \in Fresh => k.then \in {"snapshot", "row", "scan", "save"}
  /\ target(k) \in {"snapshot", "row"} =>
       k.saw \in [Repo -> Work] /\ k.sig = currentBranchSignature(k.saw)
  /\ k.pc = "served" => Answers(k.got, k.saw)
  /\ target(k) \in {"save", "trunc", "write", "mark"} =>
       \A r \in Repo : k.step[r] \in Ended
  /\ k.pc \in {"trunc", "write"} => k.copy \in DatabaseType
  /\ \A r \in Repo : /\ k.step[r] = "status" => k.head[r] \in Head
                     /\ k.step[r] = "git" => k.files[r] \in Work
                     /\ k.step[r] \in {"done", "hit"} => k.man[r] \in Manifest

HoldsOK == \A t \in Task : Holds(task[t])

\* A change the watch loop was told of is waiting for a timeout that will
\* start a flush, or a flush has yet to turn to the repository: nothing the
\* watch loop does, or that happens to it, loses a change
\* (daemon/index.ts watchEcosystem, the flag pending and the overlapping
\* flushes).
Due(r) == \/ pending /\ timers > 0
          \/ \E f \in Flush : at(f, "scan") /\ task[f].step[r] = "start"
NoChangeLost == \A r \in unseen : Due(r)
------------------------------------------------------------------------------
(* Signatures. *)

\* A state with the signature of the repositories as they were seen answers for
\* them: the head of a repository that was gone is "" in the one signature and
\* "unknown" in the other.
LEMMA SignatureAnswers ==
  ASSUME NEW state \in State, NEW saw \in [Repo -> Work],
         branchSignature(state.man) = currentBranchSignature(saw)
  PROVE  Answers(state, saw)
<1>1. PICK R \in SUBSET Repo : state.man \in [R -> Manifest]
  BY DEF State
<1>2. branchSignature(state.man) = [r \in R |-> manifestEntry(state.man[r])]
  BY <1>1 DEF branchSignature
<1>3. R = Repo
  BY <1>2 DEF currentBranchSignature
<1>4. ASSUME NEW r \in Repo
      PROVE  LET git == state.man[r].git
             IN  /\ git # Gone /\ saw[r] # Gone
                 /\ git.head = saw[r].head
                 /\ namesOf(git.edit) = namesOf(saw[r].edit)
  <2> DEFINE git == state.man[r].git
             w == saw[r]
  <2>1. manifestEntry(state.man[r]) = currentEntry(w) /\ git \in Work /\ w \in Work
    BY <1>1, <1>2, <1>3 DEF currentBranchSignature, Manifest
  <2>2. \A v \in Work : v # Gone => v.head \in Head
    BY DEF Work, Tree
  <2>3. git # Gone
    BY <2>1, <2>2, ManifestsAssumption DEF manifestEntry, currentEntry
  <2>4. w # Gone
    BY <2>1, <2>2, <2>3, ManifestsAssumption DEF manifestEntry, currentEntry
  <2> QED
    BY <2>1, <2>3, <2>4 DEF manifestEntry, currentEntry
<1> QED
  BY <1>1, <1>3, <1>4 DEF Answers

LEMMA CurrentSignature ==
  ASSUME TypeOK
  PROVE  currentBranchSignature(work) \in Signature
BY DEF TypeOK, currentBranchSignature, Signature

LEMMA DatabaseTypes ==
  /\ Database("absent", None, {}) \in DatabaseType
  /\ Database("torn", None, {}) \in DatabaseType
  /\ Database("sound", LegacyState, {}) \in DatabaseType
BY WarmAssumption DEF DatabaseType, Unreadable, Database

LEMMA SnapsAreStates ==
  ASSUME NEW d \in DatabaseType
  PROVE  d.snaps \subseteq State /\ d.row \in State \cup {None}
BY DEF DatabaseType, Unreadable, Database

LEMMA UpsertType ==
  ASSUME NEW d \in DatabaseType, NEW state \in State
  PROVE  upsert(d, state) \in DatabaseType
BY SnapsAreStates DEF DatabaseType, upsert, Database

------------------------------------------------------------------------------
(* Tasks. *)

LEMMA NoTaskHolds ==
  /\ NoTask \in TaskType
  /\ Holds(NoTask)
BY DEF NoTask, TaskType, Holds, target, Fresh, Pc, Step

\* Task t becomes k, and no other task changes.
Becomes(t, k) == /\ k \in TaskType /\ Holds(k)
                 /\ task' = [task EXCEPT ![t] = k]

LEMMA OneTask ==
  ASSUME TypeOK, HoldsOK, NEW t \in Task, NEW k, Becomes(t, k)
  PROVE  /\ task' \in [Task -> TaskType]
         /\ HoldsOK'
         /\ task'[t] = k
         /\ \A u \in Task \ {t} : task'[u] = task[u]
BY DEF TypeOK, HoldsOK, Becomes

LEMMA SameTasks ==
  ASSUME TypeOK, HoldsOK, UNCHANGED task
  PROVE  task' \in [Task -> TaskType] /\ HoldsOK'
BY DEF TypeOK, HoldsOK

LEMMA ExitChanges ==
  ASSUME NEW t \in Task, exit(t)
  PROVE  Becomes(t, NoTask)
BY NoTaskHolds DEF exit, Becomes

LEMMA BeginChanges ==
  ASSUME NEW t \in Task,
         NEW kind \in {"load", "once", "refresh", "initial", "flush"},
         NEW pc \in {"sign", "scan"},
         begin(t, kind, pc)
  PROVE  \E k : /\ Becomes(t, k) /\ k.pc = pc
                /\ \A r \in Repo : k.step[r] = "start"
<1> DEFINE k == [NoTask EXCEPT !.kind = kind, !.pc = pc]
<1>1. k \in TaskType /\ k.pc = pc /\ \A r \in Repo : k.step[r] = "start"
  BY DEF NoTask, TaskType, Pc, Step
<1>2. Holds(k)
  BY DEF NoTask, Holds, target, Fresh
<1> QED
  BY <1>1, <1>2 DEF begin, Becomes

\* A task that only moves on has what the step it moves to asks for.
LEMMA GotoChanges ==
  ASSUME TypeOK, NEW t \in Task, NEW pc \in Pc, goto(t, pc),
         Holds([task[t] EXCEPT !.pc = pc])
  PROVE  Becomes(t, [task[t] EXCEPT !.pc = pc])
<1>1. task[t] \in TaskType
  BY DEF TypeOK
<1>2. [task[t] EXCEPT !.pc = pc] \in TaskType
  BY <1>1 DEF TaskType
<1> QED
  BY <1>2 DEF goto, Becomes

LEMMA SignChanges ==
  ASSUME TypeOK, HoldsOK, NEW t \in Task, Sign(t)
  PROVE  \E k : Becomes(t, k) /\ k.pc = "snapshot" /\ at(t, "sign")
<1> DEFINE sig == currentBranchSignature(work)
           k == [task[t] EXCEPT !.sig = sig, !.saw = work, !.pc = "snapshot"]
<1>1. /\ task[t] \in TaskType /\ Holds(task[t]) /\ sig \in Signature
      /\ work \in [Repo -> Work]
  BY CurrentSignature DEF TypeOK, HoldsOK
<1>2. task' = [task EXCEPT ![t] = k] /\ at(t, "sign")
  BY DEF Sign
<1>3. sig = currentBranchSignature(work)
  OBVIOUS
<1> HIDE DEF sig
<1>4. /\ k \in TaskType /\ k.pc = "snapshot" /\ k.sig = sig /\ k.saw = work
      /\ k.step = task[t].step /\ k.head = task[t].head
      /\ k.files = task[t].files /\ k.man = task[t].man
  BY <1>1 DEF TaskType, Pc
<1> HIDE DEF k
<1>5. Holds(k)
  BY <1>1, <1>3, <1>4 DEF Holds, target, Fresh
<1> QED
  BY <1>2, <1>4, <1>5 DEF Becomes

LEMMA MigrateChanges ==
  ASSUME TypeOK, HoldsOK, NEW t \in Task, Migrate(t)
  PROVE  \E k : /\ Becomes(t, k) /\ k.pc = "freshTrunc"
                /\ \/ task[t].pc \in {"snapshot", "row"}
                   \/ saves(t)
<1> DEFINE k == [task[t] EXCEPT !.then = task[t].pc, !.pc = "freshTrunc"]
<1>1. task[t] \in TaskType /\ Holds(task[t])
  BY DEF TypeOK, HoldsOK
<1>2. /\ task' = [task EXCEPT ![t] = k]
      /\ task[t].pc \in {"snapshot", "row"} \/ saves(t)
  BY DEF Migrate
<1>3. k \in TaskType /\ k.pc = "freshTrunc"
  BY <1>1 DEF TaskType, Pc
<1>4. Holds(k)
  BY <1>1, <1>2 DEF TaskType, Holds, target, Fresh, at, saves
<1> QED
  BY <1>2, <1>3, <1>4 DEF Becomes

LEMMA WriteFreshChanges ==
  ASSUME TypeOK, HoldsOK, NEW t \in Task, WriteFresh(t)
  PROVE  /\ \E k : Becomes(t, k) /\ task[t].pc \in Fresh
         /\ db' \in DatabaseType
<1>1. task[t] \in TaskType /\ Holds(task[t])
  BY DEF TypeOK, HoldsOK
<1>2. CASE at(t, "freshTrunc")
  <2> DEFINE k == [task[t] EXCEPT !.pc = "freshWrite"]
  <2>1. goto(t, "freshWrite") /\ db' \in DatabaseType /\ task[t].pc \in Fresh
    BY <1>2, DatabaseTypes DEF WriteFresh, at, Fresh
  <2>2. Holds(k)
    BY <1>1, <1>2 DEF TaskType, Holds, target, Fresh, at
  <2> QED
    BY <2>1, <2>2, GotoChanges DEF Pc
<1>3. CASE at(t, "freshWrite")
  <2> DEFINE k == [task[t] EXCEPT !.pc = task[t].then]
  <2>1. /\ goto(t, task[t].then) /\ db' \in DatabaseType
        /\ task[t].pc \in Fresh /\ task[t].then \in Pc
    BY <1>1, <1>3, DatabaseTypes DEF WriteFresh, at, Fresh, TaskType
  <2>2. Holds(k)
    BY <1>1, <1>3 DEF TaskType, Holds, target, Fresh, at
  <2> QED
    BY <2>1, <2>2, GotoChanges
<1> QED
  BY <1>2, <1>3 DEF WriteFresh

LEMMA ServeChanges ==
  ASSUME TypeOK, HoldsOK, NEW t \in Task, NEW state \in State,
         task[t].pc \in {"snapshot", "row"},
         branchSignature(state.man) = task[t].sig,
         serve(t, state)
  PROVE  \E k : Becomes(t, k) /\ k.pc = "served"
<1> DEFINE k == [task[t] EXCEPT !.got = state, !.pc = "served"]
<1>1. task[t] \in TaskType /\ Holds(task[t])
  BY DEF TypeOK, HoldsOK
<1>2. task' = [task EXCEPT ![t] = k]
  BY DEF serve
<1>3. Answers(state, task[t].saw)
  <2>1. /\ task[t].saw \in [Repo -> Work]
        /\ task[t].sig = currentBranchSignature(task[t].saw)
    BY <1>1 DEF Holds, target, Fresh
  <2> QED
    BY <2>1, SignatureAnswers
<1>4. /\ k \in TaskType /\ k.pc = "served" /\ k.got = state
      /\ k.saw = task[t].saw /\ k.step = task[t].step
      /\ k.head = task[t].head /\ k.files = task[t].files
      /\ k.man = task[t].man
  BY <1>1 DEF TaskType, Pc
<1> HIDE DEF k
<1>5. Holds(k)
  BY <1>1, <1>3, <1>4 DEF Holds, target, Fresh
<1> QED
  BY <1>2, <1>4, <1>5 DEF Becomes

LEMMA LookupSnapshotChanges ==
  ASSUME TypeOK, HoldsOK, NEW t \in Task, LookupSnapshot(t)
  PROVE  \E k : Becomes(t, k) /\ at(t, "snapshot")
<1> DEFINE found == {s \in db.snaps : branchSignature(s.man) = task[t].sig}
<1>1. at(t, "snapshot")
  BY DEF LookupSnapshot
<1>2. CASE \E s \in found : serve(t, s)
  <2>1. db.snaps \subseteq State
    BY SnapsAreStates DEF TypeOK
  <2> QED
    BY <1>1, <1>2, <2>1, ServeChanges DEF at
<1>3. CASE goto(t, "row")
  <2> DEFINE k == [task[t] EXCEPT !.pc = "row"]
  <2>1. task[t] \in TaskType /\ Holds(task[t])
    BY DEF TypeOK, HoldsOK
  <2>2. Holds(k)
    BY <1>1, <2>1 DEF TaskType, Holds, target, Fresh, at
  <2> QED
    BY <1>1, <1>3, <2>2, GotoChanges DEF Pc
<1> QED
  BY <1>2, <1>3 DEF LookupSnapshot

LEMMA LookupRowChanges ==
  ASSUME TypeOK, HoldsOK, NEW t \in Task, LookupRow(t)
  PROVE  /\ \E k : Becomes(t, k) /\ at(t, "row")
         /\ cached' \in [Repo -> [Head -> Manifest \cup {None}]]
         /\ db' \in DatabaseType
<1>1. at(t, "row")
  BY DEF LookupRow
<1>2. CASE /\ db.row # None /\ branchSignature(db.row.man) = task[t].sig
           /\ serve(t, db.row) /\ UNCHANGED <<cached, db>>
  <2>1. db.row \in State
    BY <1>2, SnapsAreStates DEF TypeOK
  <2>2. cached' \in [Repo -> [Head -> Manifest \cup {None}]] /\ db' \in DatabaseType
    BY <1>2 DEF TypeOK
  <2> QED
    BY <1>1, <1>2, <2>1, <2>2, ServeChanges DEF at
<1>3. CASE /\ task' = [task EXCEPT ![t].sig = None, ![t].saw = None,
                                   ![t].pc = "scan"]
           /\ pruneOld \/ UNCHANGED <<cached, db>>
  <2> DEFINE k == [task[t] EXCEPT !.sig = None, !.saw = None, !.pc = "scan"]
  <2>1. task[t] \in TaskType /\ Holds(task[t])
    BY DEF TypeOK, HoldsOK
  <2>2. k \in TaskType
    BY <2>1 DEF TaskType, Pc
  <2>3. Holds(k)
    BY <1>1, <2>1 DEF TaskType, Holds, target, Fresh, at
  <2>4. cached' \in [Repo -> [Head -> Manifest \cup {None}]]
    <3>1. \A old : pruned(old) \in [Repo -> [Head -> Manifest \cup {None}]]
      <4>1. \A r \in Repo, h \in Head : cached[r][h] \in Manifest \cup {None}
        BY DEF TypeOK
      <4> QED
        BY <4>1, Zenon DEF pruned
    <3> QED
      BY <1>3, <3>1 DEF TypeOK, pruneOld
  <2>5. db' \in DatabaseType
    BY <1>3, DatabaseTypes DEF TypeOK, pruneOld
  <2> QED
    BY <1>1, <1>3, <2>2, <2>3, <2>4, <2>5 DEF Becomes
<1> QED
  BY <1>2, <1>3 DEF LookupRow

\* A step of the scan of r leaves the task in the scan; only r's step changes,
\* and none is "start" that was not.
Scans(t, r, k) == /\ Becomes(t, k) /\ at(t, "scan") /\ k.pc = "scan"
                  /\ k.step[r] # "start"
                  /\ \A q \in Repo \ {r} : k.step[q] = task[t].step[q]

LEMMA ResolveRootChanges ==
  ASSUME TypeOK, HoldsOK, NEW t \in Task, NEW r \in Repo, ResolveRoot(t, r)
  PROVE  \E k : Scans(t, r, k)
<1>1. task[t] \in TaskType /\ Holds(task[t]) /\ at(t, "scan")
  BY DEF TypeOK, HoldsOK, ResolveRoot, inScan
<1>2. CASE work[r] = Gone
  <2> DEFINE k == [task[t] EXCEPT !.rootless = @ \cup {r}, !.step[r] = "walk"]
  <2>1. task' = [task EXCEPT ![t] = k]
    BY <1>2 DEF ResolveRoot
  <2>2. /\ k \in TaskType /\ k.pc = "scan" /\ k.step[r] = "walk"
        /\ \A q \in Repo \ {r} : k.step[q] = task[t].step[q]
        /\ k.files = task[t].files /\ k.head = task[t].head
        /\ k.man = task[t].man
    BY <1>1 DEF TaskType, Step, at
  <2> HIDE DEF k
  <2>3. Holds(k)
    BY <1>1, <2>2 DEF Holds, target, Fresh
  <2> QED
    BY <1>1, <2>1, <2>2, <2>3 DEF Scans, Becomes
<1>3. CASE work[r] # Gone
  <2> DEFINE k == [task[t] EXCEPT !.head[r] = work[r].head,
                                  !.step[r] = "status"]
  <2>1. task' = [task EXCEPT ![t] = k]
    BY <1>3 DEF ResolveRoot
  <2>2. work[r].head \in Head
    BY <1>3 DEF TypeOK, Work, Tree
  <2>3. /\ k \in TaskType /\ k.pc = "scan" /\ k.step[r] = "status"
        /\ \A q \in Repo \ {r} : k.step[q] = task[t].step[q]
        /\ k.files = task[t].files /\ k.man = task[t].man
        /\ k.head = [task[t].head EXCEPT ![r] = work[r].head]
    BY <1>1, <2>2 DEF TaskType, Step, at
  <2> HIDE DEF k
  <2>4. Holds(k)
    BY <1>1, <2>2, <2>3 DEF Holds, target, Fresh, TaskType
  <2> QED
    BY <1>1, <2>1, <2>3, <2>4 DEF Scans, Becomes
<1> QED
  BY <1>2, <1>3

LEMMA AskCacheChanges ==
  ASSUME TypeOK, HoldsOK, NEW t \in Task, NEW r \in Repo, AskCache(t, r)
  PROVE  \E k : Scans(t, r, k)
<1> DEFINE hit == cached[r][task[t].head[r]]
<1>1. /\ task[t] \in TaskType /\ Holds(task[t]) /\ at(t, "scan")
      /\ task[t].step[r] = "status"
  BY DEF TypeOK, HoldsOK, AskCache, inScan
<1>2. hit \in Manifest \cup {None}
  <2>1. task[t].head[r] \in Head
    BY <1>1 DEF Holds
  <2> QED
    BY <2>1 DEF TypeOK
<1>3. CASE isClean(work[r]) /\ hit # None
  <2> DEFINE k == [task[t] EXCEPT !.man[r] = hit, !.step[r] = "hit"]
  <2>1. task' = [task EXCEPT ![t] = k] /\ hit \in Manifest
    BY <1>2, <1>3 DEF AskCache
  <2> HIDE DEF hit
  <2>2. /\ k \in TaskType /\ k.pc = "scan" /\ k.step[r] = "hit"
        /\ \A q \in Repo \ {r} : k.step[q] = task[t].step[q]
        /\ k.files = task[t].files /\ k.head = task[t].head
        /\ k.man = [task[t].man EXCEPT ![r] = hit]
    BY <1>1, <2>1 DEF TaskType, Step, at
  <2> HIDE DEF k
  <2>3. Holds(k)
    BY <1>1, <2>1, <2>2 DEF Holds, target, Fresh, TaskType
  <2> QED
    BY <1>1, <2>1, <2>2, <2>3 DEF Scans, Becomes
<1>4. CASE ~(isClean(work[r]) /\ hit # None)
  <2> DEFINE k == [task[t] EXCEPT !.step[r] = "walk"]
  <2>1. task' = [task EXCEPT ![t] = k]
    BY <1>4 DEF AskCache
  <2> HIDE DEF hit
  <2>2. /\ k \in TaskType /\ k.pc = "scan" /\ k.step[r] = "walk"
        /\ \A q \in Repo \ {r} : k.step[q] = task[t].step[q]
        /\ k.files = task[t].files /\ k.head = task[t].head
        /\ k.man = task[t].man
    BY <1>1 DEF TaskType, Step, at
  <2> HIDE DEF k
  <2>3. Holds(k)
    BY <1>1, <2>2 DEF Holds, target, Fresh
  <2> QED
    BY <1>1, <2>1, <2>2, <2>3 DEF Scans, Becomes
<1> QED
  BY <1>3, <1>4

LEMMA WalkChanges ==
  ASSUME TypeOK, HoldsOK, NEW t \in Task, NEW r \in Repo, Walk(t, r)
  PROVE  \E k : Scans(t, r, k)
<1> DEFINE k == [task[t] EXCEPT !.files[r] = work[r], !.step[r] = "git"]
<1>1. /\ task[t] \in TaskType /\ Holds(task[t]) /\ at(t, "scan")
      /\ work[r] \in Work
  BY DEF TypeOK, HoldsOK, Walk, inScan
<1>2. task' = [task EXCEPT ![t] = k]
  BY DEF Walk
<1>3. /\ k \in TaskType /\ k.pc = "scan" /\ k.step[r] = "git"
      /\ \A q \in Repo \ {r} : k.step[q] = task[t].step[q]
      /\ k.head = task[t].head /\ k.man = task[t].man
      /\ k.files = [task[t].files EXCEPT ![r] = work[r]]
  BY <1>1 DEF TaskType, Step, at
<1> HIDE DEF k
<1>4. Holds(k)
  BY <1>1, <1>3 DEF Holds, target, Fresh, TaskType
<1> QED
  BY <1>1, <1>2, <1>3, <1>4 DEF Scans, Becomes

LEMMA ReadGitChanges ==
  ASSUME TypeOK, HoldsOK, NEW t \in Task, NEW r \in Repo, ReadGit(t, r)
  PROVE  /\ \E k : Scans(t, r, k)
         /\ cached' \in [Repo -> [Head -> Manifest \cup {None}]]
<1> DEFINE git == gitState(t, r)
           m == [files |-> task[t].files[r], git |-> git]
           k == [task[t] EXCEPT !.man[r] = m, !.step[r] = "done",
                                !.files[r] = None, !.head[r] = None]
<1>1. /\ task[t] \in TaskType /\ Holds(task[t]) /\ at(t, "scan")
      /\ task[t].step[r] = "git"
  BY DEF TypeOK, HoldsOK, ReadGit, inScan
<1>2. m \in Manifest
  <2>1. git \in Work
    BY DEF gitState, TypeOK, Work
  <2>2. task[t].files[r] \in Work
    BY <1>1 DEF Holds
  <2> QED
    BY <2>1, <2>2 DEF Manifest
<1>3. /\ task' = [task EXCEPT ![t] = k]
      /\ cached' = IF git = Gone THEN cached
                   ELSE [cached EXCEPT ![r][git.head] = m]
  BY DEF ReadGit
<1>4. cached' \in [Repo -> [Head -> Manifest \cup {None}]]
  <2> HIDE DEF m
  <2> QED
    BY <1>2, <1>3 DEF TypeOK
<1> HIDE DEF m
<1>5. /\ k \in TaskType /\ k.pc = "scan" /\ k.step[r] = "done"
      /\ \A q \in Repo \ {r} : k.step[q] = task[t].step[q]
      /\ k.head = [task[t].head EXCEPT ![r] = None]
      /\ k.files = [task[t].files EXCEPT ![r] = None]
      /\ k.man = [task[t].man EXCEPT ![r] = m]
  BY <1>1, <1>2 DEF TaskType, Step, at
<1> HIDE DEF k
<1>6. Holds(k)
  BY <1>1, <1>2, <1>5 DEF Holds, target, Fresh, TaskType
<1> QED
  BY <1>1, <1>3, <1>4, <1>5, <1>6 DEF Scans, Becomes

\* What a task saves is a state: the scans that did not fail have a manifest.
LEMMA SavedType ==
  ASSUME TypeOK, HoldsOK, NEW t \in Task, saves(t)
  PROVE  /\ saved(t) \in State
         /\ \A r \in Repo : task[t].step[r] \in Ended
<1> DEFINE R == {r \in Repo : task[t].step[r] # "failed"}
<1>1. task[t] \in TaskType /\ Holds(task[t])
  BY DEF TypeOK, HoldsOK
<1>2. \A r \in Repo : task[t].step[r] \in Ended
  BY <1>1 DEF saves, at, Holds, target, Fresh, Ended
<1>3. \A r \in R : task[t].man[r] \in Manifest
  BY <1>1, <1>2 DEF Holds, Ended
<1>4. [r \in R |-> task[t].man[r]] \in UNION {[S -> Manifest] : S \in SUBSET Repo}
  <2>1. R \in SUBSET Repo
    OBVIOUS
  <2> HIDE DEF R
  <2>2. [r \in R |-> task[t].man[r]] \in [R -> Manifest]
    BY <1>3
  <2> QED
    BY <2>1, <2>2
<1>5. task[t].dirty \in SUBSET Repo
  BY <1>1 DEF TaskType
<1> QED
  BY <1>2, <1>4, <1>5 DEF saved, State

LEMMA OpenChanges ==
  ASSUME TypeOK, HoldsOK, NEW t \in Task, Open(t)
  PROVE  /\ \E k : Becomes(t, k)
         /\ \A r \in Repo : task[t].step[r] # "start"
<1> DEFINE copy == upsert(db, saved(t))
           k == [task[t] EXCEPT !.copy = copy, !.pc = "trunc"]
<1>1. task[t] \in TaskType /\ Holds(task[t])
  BY DEF TypeOK, HoldsOK
<1>2. task' = [task EXCEPT ![t] = k] /\ saves(t)
  BY DEF Open
<1>3. saved(t) \in State /\ \A r \in Repo : task[t].step[r] \in Ended
  BY <1>2, SavedType
<1>4. copy \in DatabaseType
  BY <1>3, UpsertType DEF TypeOK
<1> HIDE DEF copy
<1>5. /\ k \in TaskType /\ k.pc = "trunc" /\ k.copy = copy
      /\ k.step = task[t].step /\ k.head = task[t].head
      /\ k.files = task[t].files /\ k.man = task[t].man
  BY <1>1, <1>4 DEF TaskType, Pc
<1> HIDE DEF k
<1>6. Holds(k)
  BY <1>1, <1>3, <1>4, <1>5 DEF Holds, target, Fresh
<1> QED
  BY <1>2, <1>3, <1>5, <1>6 DEF Becomes, Ended

LEMMA TruncateChanges ==
  ASSUME TypeOK, HoldsOK, NEW t \in Task, Truncate(t)
  PROVE  /\ \E k : Becomes(t, k)
         /\ at(t, "trunc")
         /\ db' \in DatabaseType
<1> DEFINE k == [task[t] EXCEPT !.pc = "write"]
<1>1. task[t] \in TaskType /\ Holds(task[t])
  BY DEF TypeOK, HoldsOK
<1>2. goto(t, "write") /\ db' \in DatabaseType /\ at(t, "trunc")
  BY DatabaseTypes DEF Truncate
<1>3. Holds(k)
  BY <1>1, <1>2 DEF TaskType, Holds, target, Fresh, at
<1> QED
  BY <1>2, <1>3, GotoChanges DEF Pc

LEMMA WriteChanges ==
  ASSUME TypeOK, HoldsOK, NEW t \in Task, Write(t)
  PROVE  /\ \E k : Becomes(t, k)
         /\ at(t, "write")
         /\ db' \in DatabaseType
<1> DEFINE k == [task[t] EXCEPT !.pc = "mark"]
<1>1. task[t] \in TaskType /\ Holds(task[t])
  BY DEF TypeOK, HoldsOK
<1>2. /\ at(t, "write") /\ db' = task[t].copy
      /\ goto(t, "mark") \/ exit(t)
  BY DEF Write
<1>3. db' \in DatabaseType
  BY <1>1, <1>2 DEF Holds, at
<1>4. Holds(k)
  BY <1>1, <1>2 DEF TaskType, Holds, target, Fresh, at
<1> QED
  BY <1>2, <1>3, <1>4, GotoChanges, ExitChanges DEF Pc

LEMMA MarkChanges ==
  ASSUME TypeOK, HoldsOK, NEW t \in Task, Mark(t)
  PROVE  \E k : Becomes(t, k) /\ at(t, "mark")
<1> DEFINE k == [task[t] EXCEPT !.dirty = dirtyRepos, !.kind = "marked",
                                !.pc = "save"]
<1>1. task[t] \in TaskType /\ Holds(task[t])
  BY DEF TypeOK, HoldsOK
<1>2. task' = [task EXCEPT ![t] = k] /\ at(t, "mark")
  BY DEF Mark
<1>3. k \in TaskType
  BY <1>1 DEF TaskType, Pc, TypeOK
<1>4. Holds(k)
  BY <1>1, <1>2 DEF TaskType, Holds, target, Fresh, at
<1> QED
  BY <1>2, <1>3, <1>4 DEF Becomes

LEMMA StopChanges ==
  ASSUME TypeOK, HoldsOK, stopWatching
  PROVE  task' \in [Task -> TaskType] /\ HoldsOK'
BY NoTaskHolds DEF TypeOK, HoldsOK, stopWatching

\* A scan fails: the process of a command skips the repository or ends, and the
\* watch loop ends.
LEMMA FailChanges ==
  ASSUME TypeOK, HoldsOK, NEW t \in Task, NEW r \in Repo, FailScan(t, r)
  PROVE  \/ t \in Flush /\ stopWatching
         \/ t \notin Flush /\ UNCHANGED watcher /\ \E k : Becomes(t, k)
<1>1. CASE t \in Flush
  BY <1>1 DEF FailScan
<1>2. CASE t \notin Flush /\ task[t].kind = "load"
  <2> DEFINE k == [task[t] EXCEPT !.step[r] = "failed"]
  <2>1. task[t] \in TaskType /\ Holds(task[t])
    BY DEF TypeOK, HoldsOK
  <2>2. /\ task' = [task EXCEPT ![t] = k] /\ UNCHANGED watcher
        /\ at(t, "scan")
    BY <1>2 DEF FailScan
  <2>3. /\ k \in TaskType /\ k.pc = "scan" /\ k.step[r] = "failed"
        /\ \A q \in Repo \ {r} : k.step[q] = task[t].step[q]
        /\ k.files = task[t].files /\ k.head = task[t].head
        /\ k.man = task[t].man
    BY <2>1, <2>2 DEF TaskType, Step, at
  <2> HIDE DEF k
  <2>4. Holds(k)
    BY <2>1, <2>3 DEF Holds, target, Fresh
  <2> QED
    BY <1>2, <2>2, <2>3, <2>4 DEF Becomes
<1>3. CASE t \notin Flush /\ task[t].kind # "load"
  <2>1. exit(t) /\ UNCHANGED watcher
    BY <1>3 DEF FailScan
  <2> QED
    BY <1>3, <2>1, ExitChanges
<1> QED
  BY <1>1, <1>2, <1>3

------------------------------------------------------------------------------
(* Typing, and what tasks hold. *)

CachedType == cached \in [Repo -> [Head -> Manifest \cup {None}]]
WatcherType == /\ watching \subseteq Repo /\ pending \in BOOLEAN
               /\ dirtyRepos \subseteq Repo /\ unseen \subseteq Repo
               /\ timers \in Nat

IInv == TypeOK /\ HoldsOK

LEMMA InvInit == Init => IInv
<1> SUFFICES ASSUME Init PROVE IInv
  OBVIOUS
<1>1. task \in [Task -> TaskType] /\ HoldsOK
  BY NoTaskHolds DEF Init, HoldsOK
<1>2. db \in DatabaseType
  BY DatabaseTypes DEF Init
<1>3. left \in Left
  BY WarmAssumption DEF Init
<1>4. work \in [Repo -> Work]
  BY DEF Init, Work
<1> QED
  BY <1>1, <1>2, <1>3, <1>4 DEF Init, IInv, TypeOK

\* A task's step changes no repository and no bound.
LEMMA TaskStepType ==
  ASSUME IInv, NEW t \in Task, TaskStep(t)
  PROVE  IInv'
<1> USE DEF IInv
<1>1. SUFFICES /\ UNCHANGED work /\ UNCHANGED left
               /\ CachedType' /\ db' \in DatabaseType /\ WatcherType'
               /\ \E k : Becomes(t, k)
  BY OneTask DEF TypeOK, CachedType, WatcherType
<1> USE DEF CachedType, WatcherType, watcher
<1>2. CASE Sign(t)
  BY <1>2, SignChanges DEF Sign, TypeOK
<1>3. CASE Migrate(t)
  BY <1>3, MigrateChanges DEF Migrate, TypeOK
<1>4. CASE WriteFresh(t)
  BY <1>4, WriteFreshChanges DEF WriteFresh, TypeOK
<1>5. CASE LookupSnapshot(t)
  BY <1>5, LookupSnapshotChanges DEF LookupSnapshot, TypeOK
<1>6. CASE LookupRow(t)
  BY <1>6, LookupRowChanges DEF LookupRow, TypeOK
<1>7. CASE UseServed(t)
  BY <1>7, ExitChanges DEF UseServed, TypeOK
<1>8. CASE scanStep(t)
  <2>1. PICK r \in Repo : \/ ResolveRoot(t, r) \/ AskCache(t, r)
                          \/ Walk(t, r) \/ ReadGit(t, r)
    BY <1>8 DEF scanStep
  <2>2. CASE ResolveRoot(t, r)
    BY <2>2, ResolveRootChanges DEF ResolveRoot, TypeOK, Scans
  <2>3. CASE AskCache(t, r)
    BY <2>3, AskCacheChanges DEF AskCache, TypeOK, Scans
  <2>4. CASE Walk(t, r)
    BY <2>4, WalkChanges DEF Walk, TypeOK, Scans
  <2>5. CASE ReadGit(t, r)
    BY <2>5, ReadGitChanges DEF ReadGit, TypeOK, Scans
  <2> QED
    BY <2>1, <2>2, <2>3, <2>4, <2>5
<1>9. CASE Open(t)
  BY <1>9, OpenChanges DEF Open, TypeOK
<1>10. CASE Truncate(t)
  BY <1>10, TruncateChanges DEF Truncate, TypeOK
<1>11. CASE Write(t)
  BY <1>11, WriteChanges DEF Write, TypeOK
<1>12. CASE Mark(t)
  BY <1>12, MarkChanges DEF Mark, TypeOK
<1> QED
  BY <1>2, <1>3, <1>4, <1>5, <1>6, <1>7, <1>8, <1>9, <1>10, <1>11, <1>12
     DEF TaskStep

\* A flush begins, as the initial scan or on a timeout, when one is idle.
LEMMA FlushBegins ==
  ASSUME IInv, idleFlushes # {}, NEW kind \in {"initial", "flush"},
         begin(CHOOSE f \in idleFlushes : TRUE, kind, "scan")
  PROVE  \E f \in Flush : \E k : /\ Becomes(f, k) /\ k.pc = "scan" /\ at(f, "idle")
                                 /\ \A r \in Repo : k.step[r] = "start"
<1> DEFINE f == CHOOSE f \in idleFlushes : TRUE
<1>1. f \in idleFlushes
  OBVIOUS
<1>2. f \in Flush /\ f \in Task /\ at(f, "idle")
  BY <1>1 DEF idleFlushes, Task, IInv, TypeOK, Left
<1> HIDE DEF f
<1>3. begin(f, kind, "scan")
  BY DEF f
<1>4. \E k : /\ Becomes(f, k) /\ k.pc = "scan"
             /\ \A r \in Repo : k.step[r] = "start"
  BY <1>2, <1>3, BeginChanges
<1> QED
  BY <1>2, <1>4

LEMMA InvNext == IInv /\ [Next]_vars => IInv'
<1> SUFFICES ASSUME IInv, [Next]_vars PROVE IInv'
  OBVIOUS
<1> USE DEF IInv
<1>1. ASSUME NEW c \in Command, StartCommand(c) PROVE IInv'
  <2>1. c \in Task
    BY DEF Task
  <2>2. \E k : Becomes(c, k)
    BY <1>1, <2>1, BeginChanges DEF StartCommand
  <2> QED
    BY <1>1, <2>1, <2>2, OneTask DEF StartCommand, watcher, TypeOK
<1>2. ASSUME NEW t \in Task, TaskStep(t) PROVE IInv'
  BY <1>2, TaskStepType
<1>3. ASSUME NEW t \in Task, NEW r \in Repo, FailScan(t, r) PROVE IInv'
  <2>1. task' \in [Task -> TaskType] /\ HoldsOK'
    BY <1>3, FailChanges, StopChanges, OneTask
  <2>2. WatcherType'
    <3>1. stopWatching \/ UNCHANGED watcher
      BY <1>3, FailChanges
    <3>2. CASE stopWatching
      BY <3>2 DEF stopWatching, WatcherType
    <3>3. CASE UNCHANGED watcher
      BY <3>3 DEF watcher, TypeOK, WatcherType
    <3> QED
      BY <3>1, <3>2, <3>3
  <2>3. left' \in Left
    BY <1>3 DEF FailScan, TypeOK, Left
  <2> QED
    BY <1>3, <2>1, <2>2, <2>3 DEF FailScan, TypeOK, WatcherType
<1>4. CASE StartWatch
  <2>1. \E f \in Task : \E k : Becomes(f, k)
    BY <1>4, FlushBegins DEF StartWatch, Task
  <2> QED
    BY <1>4, <2>1, OneTask DEF StartWatch, TypeOK
<1>5. CASE TimerFires
  <2>1. task' \in [Task -> TaskType] /\ HoldsOK'
    <3>1. CASE pending
      <4>1. \E f \in Task : \E k : Becomes(f, k)
        BY <1>5, <3>1, FlushBegins DEF TimerFires, Task
      <4> QED
        BY <4>1, OneTask
    <3>2. CASE ~pending
      BY <1>5, <3>2, SameTasks DEF TimerFires
    <3> QED
      BY <3>1, <3>2
  <2>2. timers' \in Nat
    BY <1>5 DEF TimerFires, TypeOK
  <2> QED
    BY <1>5, <2>1, <2>2 DEF TimerFires, TypeOK
<1>6. CASE Kill
  <2>1. left' \in Left
    BY <1>6 DEF Kill, TypeOK, Left
  <2>2. CASE stopWatching
    BY <1>6, <2>1, <2>2, StopChanges DEF Kill, stopWatching, TypeOK
  <2>3. CASE /\ \E c \in Command : exit(c)
             /\ UNCHANGED watcher
    <3>1. \E t \in Task : \E k : Becomes(t, k)
      BY <2>3, ExitChanges DEF Task
    <3> QED
      BY <1>6, <2>1, <2>3, <3>1, OneTask DEF Kill, watcher, TypeOK
  <2> QED
    BY <1>6, <2>2, <2>3 DEF Kill
<1>7. ASSUME NEW r \in Repo, Change(r) PROVE IInv'
  <2>1. left' \in Left
    BY <1>7 DEF Change, TypeOK, Left
  <2>2. work' \in [Repo -> Work] /\ watching' \subseteq Repo
    BY <1>7 DEF Change, TypeOK
  <2>3. /\ pending' \in BOOLEAN /\ dirtyRepos' \subseteq Repo
        /\ unseen' \subseteq Repo /\ timers' \in Nat
    <3>1. CASE r \in watching
      BY <1>7, <3>1 DEF Change, TypeOK
    <3>2. CASE r \notin watching
      BY <1>7, <3>2 DEF Change, TypeOK
    <3> QED
      BY <3>1, <3>2
  <2> QED
    BY <1>7, <2>1, <2>2, <2>3, SameTasks DEF Change, TypeOK
<1>8. CASE UNCHANGED vars
  BY <1>8, SameTasks DEF vars, watcher, TypeOK
<1> QED
  BY <1>1, <1>2, <1>3, <1>4, <1>5, <1>6, <1>7, <1>8 DEF Next

\* Type correctness: the store's file holds only states of configured
\* repositories, however saves race or are killed half way
\* (daemon/store.ts, persistDatabase).
THEOREM TypeCorrect == Spec => []TypeOK
<1>1. IInv => TypeOK
  BY DEF IInv
<1> QED
  BY <1>1, InvInit, InvNext, PTL DEF Spec

\* A command that is served warm state is served every configured repository,
\* with the branch, commit and changed files it saw when it computed the
\* signature: the two signature functions of engine/daemon/index.ts tell apart
\* what must not be served, whatever failed, raced or was pruned.
THEOREM ServedCorrect == Spec => []ServedComplete
<1>1. IInv => ServedComplete
  BY DEF IInv, HoldsOK, Holds, ServedComplete, at
<1> QED
  BY <1>1, InvInit, InvNext, PTL DEF Spec

------------------------------------------------------------------------------
(* No change is lost. *)

\* Only the scan of a repository ends its being due, and that is when the flush
\* turns to it.
LEMMA DueStep ==
  ASSUME IInv, NoChangeLost, NEW t \in Task, TaskStep(t)
  PROVE  NoChangeLost'
<1> USE DEF IInv
<1>1. CASE scanStep(t)
  <2>1. PICK q \in Repo : \/ ResolveRoot(t, q) \/ AskCache(t, q)
                          \/ Walk(t, q) \/ ReadGit(t, q)
    BY <1>1 DEF scanStep
  <2>2. PICK k : Scans(t, q, k)
    BY <2>1, ResolveRootChanges, AskCacheChanges, WalkChanges, ReadGitChanges
  <2>3. /\ task'[t] = k
        /\ \A u \in Task \ {t} : task'[u] = task[u]
    BY <2>2, OneTask DEF Scans
  <2>4. /\ pending' = pending /\ timers' = timers /\ unseen' \subseteq unseen
        /\ q \in unseen' => t \notin Flush \/ task[t].step[q] # "start"
    BY <2>1 DEF ResolveRoot, AskCache, Walk, ReadGit, inScan, watcher
  <2>5. ASSUME NEW r \in unseen', NEW f \in Flush,
               at(f, "scan"), task[f].step[r] = "start"
        PROVE  at(f, "scan")' /\ task'[f].step[r] = "start"
    <3>1. r \in Repo /\ f \in Task
      BY <2>4 DEF TypeOK, Task
    <3>2. CASE f # t
      BY <2>3, <2>5, <3>1, <3>2 DEF at
    <3>3. CASE f = t
      <4>1. r # q
        BY <2>4, <2>5, <3>3
      <4> QED
        BY <2>2, <2>3, <2>5, <3>1, <3>3, <4>1 DEF Scans, at
    <3> QED
      BY <3>2, <3>3
  <2> QED
    BY <2>4, <2>5 DEF NoChangeLost, Due
<1>2. CASE ~scanStep(t)
  <2>1. PICK k : Becomes(t, k)
    BY <1>2, SignChanges, MigrateChanges, WriteFreshChanges, OpenChanges,
       LookupSnapshotChanges, LookupRowChanges, ExitChanges, TruncateChanges,
       WriteChanges, MarkChanges DEF TaskStep, UseServed
  <2>2. /\ task'[t] = k
        /\ \A u \in Task \ {t} : task'[u] = task[u]
    BY <2>1, OneTask
  <2>3. pending' = pending /\ timers' = timers /\ unseen' = unseen
    BY <1>2 DEF TaskStep, Sign, Migrate, WriteFresh, LookupSnapshot, LookupRow,
                UseServed, Open, Truncate, Write, Mark, watcher
  <2>4. ASSUME at(t, "scan"), NEW r \in Repo PROVE task[t].step[r] # "start"
    <3>1. saves(t)
      BY <1>2, <2>4 DEF TaskStep, Sign, Migrate, WriteFresh, LookupSnapshot,
         LookupRow, UseServed, Open, Truncate, Write, Mark, at
    <3> QED
      BY <3>1, SavedType DEF Ended
  <2>5. \A r \in unseen, f \in Flush :
          at(f, "scan") /\ task[f].step[r] = "start" => f # t /\ f \in Task
    BY <2>4 DEF TypeOK, Task
  <2> QED
    BY <2>2, <2>3, <2>5 DEF NoChangeLost, Due, at
<1> QED
  BY <1>1, <1>2

LEMMA DueNext == IInv /\ NoChangeLost /\ [Next]_vars => NoChangeLost'
<1> SUFFICES ASSUME IInv, NoChangeLost, [Next]_vars PROVE NoChangeLost'
  OBVIOUS
<1> USE DEF IInv
\* A command's tasks are none of the flushes.
<1>1. ASSUME NEW c \in Task \ Flush, NEW k, Becomes(c, k), UNCHANGED watcher
      PROVE  NoChangeLost'
  <2>1. \A f \in Flush : task'[f] = task[f]
    BY <1>1, OneTask DEF Task
  <2> QED
    BY <1>1, <2>1 DEF NoChangeLost, Due, at, watcher
<1>2. ASSUME NEW c \in Command, StartCommand(c) PROVE NoChangeLost'
  <2>1. c \in Task \ Flush
    BY WarmAssumption DEF Task
  <2>2. \E k : Becomes(c, k)
    BY <1>2, <2>1, BeginChanges DEF StartCommand
  <2> QED
    BY <1>1, <1>2, <2>1, <2>2 DEF StartCommand
<1>3. ASSUME NEW t \in Task, TaskStep(t) PROVE NoChangeLost'
  BY <1>3, DueStep
<1>4. CASE stopWatching
  BY <1>4 DEF stopWatching, NoChangeLost
<1>5. ASSUME NEW t \in Task, NEW r \in Repo, FailScan(t, r) PROVE NoChangeLost'
  BY <1>1, <1>4, <1>5, FailChanges
\* The watch starts when nothing is left of an earlier one, changes included.
<1>6. CASE StartWatch
  <2>1. unseen = {}
    BY <1>6 DEF StartWatch, watchRuns, NoChangeLost, Due, TypeOK, at
  <2> QED
    BY <1>6, <2>1 DEF StartWatch, NoChangeLost
<1>7. CASE TimerFires
  <2>1. CASE pending
    <3>1. PICK f \in Flush : \E k : /\ Becomes(f, k) /\ k.pc = "scan"
                                    /\ \A r \in Repo : k.step[r] = "start"
      BY <1>7, <2>1, FlushBegins DEF TimerFires
    <3>2. task'[f].pc = "scan" /\ \A r \in Repo : task'[f].step[r] = "start"
      BY <3>1, OneTask DEF Task
    <3>3. unseen' \subseteq Repo
      BY <1>7 DEF TimerFires, TypeOK
    <3> QED
      BY <3>1, <3>2, <3>3 DEF NoChangeLost, Due, at
  <2>2. CASE ~pending
    BY <1>7, <2>2 DEF TimerFires, NoChangeLost, Due, at
  <2> QED
    BY <2>1, <2>2
<1>8. CASE Kill
  <2>1. ASSUME NEW c \in Command, exit(c), UNCHANGED watcher PROVE NoChangeLost'
    <3>1. c \in Task \ Flush
      BY WarmAssumption DEF Task
    <3> QED
      BY <1>1, <2>1, <3>1, ExitChanges
  <2> QED
    BY <1>4, <1>8, <2>1 DEF Kill
<1>9. ASSUME NEW r \in Repo, Change(r) PROVE NoChangeLost'
  <2>1. CASE r \in watching
    BY <1>9, <2>1 DEF Change, NoChangeLost, Due, TypeOK
  <2>2. CASE r \notin watching
    BY <1>9, <2>2 DEF Change, NoChangeLost, Due, at
  <2> QED
    BY <2>1, <2>2
<1>10. CASE UNCHANGED vars
  BY <1>10 DEF vars, watcher, NoChangeLost, Due, at
<1> QED
  BY <1>2, <1>3, <1>5, <1>6, <1>7, <1>8, <1>9, <1>10 DEF Next

\* No change the watch loop was told of is lost, for any number of overlapping
\* flushes, timeouts, commands beside it and faults: as long as no flush has
\* turned to the repository since, a pending timeout or a running flush will.
\* (That they do so in the end, EveryChangeScanned, is the fairness's part.)
THEOREM NoChangeLostCorrect == Spec => []NoChangeLost
<1>1. Init => NoChangeLost
  BY DEF Init, NoChangeLost
<1> QED
  BY <1>1, InvInit, InvNext, DueNext, PTL DEF Spec
=============================================================================
