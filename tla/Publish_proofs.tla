--------------------------- MODULE Publish_proofs ---------------------------
(***************************************************************************)
(* Proofs about Publish, for any commits, settings, page sizes and bounds:  *)
(* type correctness, that nothing is written late on a pull request that is *)
(* over, that there is one comment, and that what a command reported as     *)
(* published is shown.                                                      *)
(*                                                                          *)
(* The strengthening: what a run holds at each of its steps (HoldsOK), that *)
(* commands that do not overlap leave at most one run that is not idle      *)
(* (OneRun), how old a snapshot may be once the pull request is long over   *)
(* (OverOK), and what a run that is about to write a comment knows of the   *)
(* comments (CommentsOK).                                                   *)
(***************************************************************************)
EXTENDS Publish, Lemmas, FiniteSetTheorems

\* What a run holds, by the step it is at.
HoldsOK ==
  \A p \in Publisher :
    /\ running(p) => pub[p].review \in Sha
    /\ pub[p].pc \in {"load", "fetch"} => pub[p].key \in Sha
    /\ at(p, "fallback") => pub[p].sha \in Sha
    /\ pub[p].check = "published" =>
         at(p, "done") /\ pub[p].sha \in Sha /\ pub[p].review \in Sha
    /\ pub[p].comment = "published" =>
         pub[p].pc \in {"check", "fallback", "done"} /\ pub[p].review \in Sha

\* Commands that never overlapped leave one run that is not idle.
OneRun == ~overlap =>
  \A p, q \in Publisher : ~at(p, "idle") /\ ~at(q, "idle") => p = q

------------------------------------------------------------------------------
(* Typing. *)

LEMMA NoRunType == NoRun \in Run
BY DEF NoRun, Run, Pc, Record

LEMMA FailType ==
  ASSUME TypeOK, NEW p \in Publisher, fail(p)
  PROVE  pub' \in [Publisher -> Run]
BY DEF TypeOK, fail, NoRun, Run, Pc, Record

\* The comment found is one with the marker on the page, if there is one.
LEMMA ExistingComment ==
  ASSUME TypeOK
  PROVE  IF page \cap marked = {} THEN existingComment = 0
         ELSE existingComment \in page \cap marked
<1> DEFINE found == page \cap marked
           first(i, j) == IF setting.provider = "github" THEN i <= j ELSE i >= j
<1>1. Len(comments) \in Nat /\ found \subseteq 0 .. Len(comments)
  BY DEF page, marked, TypeOK
<1>2. ASSUME found # {} PROVE \E i \in found : \A j \in found : first(i, j)
  <2> HIDE DEF found
  <2>1. \E i \in found : \A j \in found : i <= j
    BY <1>1, <1>2, LeastElement
  <2>2. \E i \in found : \A j \in found : i >= j
    BY <1>1, <1>2, GreatestElement
  <2> QED
    BY <2>1, <2>2
<1>3. existingComment = IF found = {} THEN 0
                        ELSE CHOOSE i \in found : \A j \in found : first(i, j)
  BY DEF existingComment
<1> HIDE DEF found, first
<1>4. found # {} => existingComment \in found
  BY <1>2, <1>3
<1> QED
  BY <1>3, <1>4 DEF found

LEMMA ExistingType == TypeOK => existingComment \in Nat
BY ExistingComment DEF page, marked, TypeOK

LEMMA CommentType ==
  ASSUME TypeOK, NEW existing \in Nat, NEW review \in Sha
  PROVE  withComment(existing, review) \in Seq(Sha \cup {Other})
BY DEF withComment, TypeOK

LEMMA TypeInit == Init => TypeOK
<1> SUFFICES ASSUME Init PROVE TypeOK
  OBVIOUS
<1>1. pub \in [Publisher -> Run]
  BY NoRunType DEF Init
<1>2. comments \in Seq(Sha \cup {Other})
  <2>1. <<>> \in Seq(Sha \cup {Other})
    OBVIOUS
  <2>2. <<Other>> \in Seq(Sha \cup {Other})
    OBVIOUS
  <2> QED
    BY <2>1, <2>2 DEF Init
<1>3. pr \in Metadata
  BY DEF Init, Metadata, PrState
<1>4. left \in Left
  BY PublishAssumption DEF Init
<1> QED
  BY <1>1, <1>2, <1>3, <1>4 DEF Init, TypeOK

\* Only the run of p changes.
Only(p) == /\ pub' \in [Publisher -> Run]
           /\ \A q \in Publisher \ {p} : pub'[q] = pub[q]

\* Its review and what it reports stay.
Keeps(p) == /\ pub'[p].review = pub[p].review /\ pub'[p].late = pub[p].late
            /\ pub'[p].comment = pub[p].comment /\ pub'[p].check = pub[p].check

LEMMA OneRunChanges ==
  ASSUME TypeOK, NEW p \in Publisher, NEW run \in Run,
         pub' = [pub EXCEPT ![p] = run]
  PROVE  Only(p) /\ pub'[p] = run
BY DEF TypeOK, Only

LEMMA FailChanges ==
  ASSUME TypeOK, NEW p \in Publisher, fail(p)
  PROVE  /\ Only(p)
         /\ pub'[p].pc = "done" /\ pub'[p].late = FALSE
         /\ pub'[p].comment = "none" /\ pub'[p].check = "none"
BY DEF TypeOK, fail, Only, NoRun, Run, Pc, Record

LEMMA ResolveChanges ==
  ASSUME TypeOK, NEW p \in Publisher, Resolve(p)
  PROVE  Only(p) /\ Keeps(p) /\ pub'[p].pc = "load" /\ pub'[p].key \in Sha
<1>1. PICK sha \in {local, None} :
        pub' = [pub EXCEPT ![p].sha = sha, ![p].key = local, ![p].pc = "load"]
  BY DEF Resolve
<1> DEFINE run == [pub[p] EXCEPT !.sha = sha, !.key = local, !.pc = "load"]
<1>2. pub[p] \in Run /\ sha \in Sha \cup {None} /\ local \in Sha
  BY DEF TypeOK
<1>3. /\ run \in Run /\ run.pc = "load" /\ run.key = local
      /\ run.review = pub[p].review /\ run.late = pub[p].late
      /\ run.comment = pub[p].comment /\ run.check = pub[p].check
  BY <1>2 DEF Run, Pc
<1>4. pub' = [pub EXCEPT ![p] = run]
  BY <1>1
<1> HIDE DEF run
<1> QED
  BY <1>2, <1>3, <1>4, OneRunChanges DEF Keeps

\* What a run that has asked for metadata, or found it, goes on with.
LEMMA NegotiatedRun ==
  ASSUME NEW run \in Run, NEW meta \in Metadata \cup {None},
         run.comment # "published", run.check # "published"
  PROVE  LET next == negotiated(run, meta)
         IN  /\ next \in Run
             /\ next.review = run.review /\ next.late = run.late
             /\ next.pc \in {"list", "check", "done"} /\ next.meta = meta
             /\ meta # None => (meta.state \in Over <=> next.pc = "done")
             /\ next.comment # "published" /\ next.check # "published"
<1> DEFINE sha  == IF run.sha = None /\ meta # None THEN meta.head ELSE run.sha
           over == meta # None /\ meta.state \in Over
           pc == CASE over -> "done"
                   [] ~over /\ setting.comments -> "list"
                   [] OTHER -> "check"
           skip == IF over THEN "skipped" ELSE "none"
           comment == IF pc = "check" THEN "skipped" ELSE skip
<1>1. sha \in Sha \cup {None}
  BY DEF Run, Metadata
<1>2. /\ pc \in {"list", "check", "done"} /\ (over <=> pc = "done")
      /\ skip \in {"skipped", "none"} /\ comment \in {"skipped", "none"}
  OBVIOUS
<1>3. negotiated(run, meta) = [run EXCEPT !.meta = meta, !.sha = sha, !.pc = pc,
                                          !.comment = comment, !.check = skip]
  BY DEF negotiated
<1> HIDE DEF sha, pc, skip, comment
<1> QED
  BY <1>1, <1>2, <1>3 DEF Run, Pc, Record

LEMMA FindChanges ==
  ASSUME TypeOK, NEW p \in Publisher, FindComment(p)
  PROVE  /\ Only(p) /\ Keeps(p) /\ pub'[p].pc = "comment"
         /\ pub'[p].existing = existingComment /\ pub'[p].meta = pub[p].meta
<1> DEFINE run == [pub[p] EXCEPT !.existing = existingComment, !.pc = "comment"]
<1>1. pub[p] \in Run /\ existingComment \in Nat
  BY ExistingType DEF TypeOK
<1>2. /\ run \in Run /\ run.pc = "comment" /\ run.existing = existingComment
      /\ run.review = pub[p].review /\ run.late = pub[p].late
      /\ run.comment = pub[p].comment /\ run.check = pub[p].check
      /\ run.meta = pub[p].meta
  BY <1>1 DEF Run, Pc
<1>3. pub' = [pub EXCEPT ![p] = run]
  BY DEF FindComment
<1> HIDE DEF run
<1> QED
  BY <1>2, <1>3, OneRunChanges DEF Keeps

LEMMA NegotiationChanges ==
  ASSUME TypeOK, HoldsOK, NEW p \in Publisher, LoadSnapshot(p) \/ FetchMetadata(p)
  PROVE  \/ /\ LoadSnapshot(p) /\ ~mayReuse(snapshots[pub[p].key])
            /\ Only(p) /\ Keeps(p) /\ pub'[p].pc = "fetch" /\ pub'[p].key \in Sha
         \/ \E meta \in Metadata \cup {None} :
              /\ LoadSnapshot(p) => /\ mayReuse(snapshots[pub[p].key])
                                    /\ meta = snapshots[pub[p].key].meta
              /\ FetchMetadata(p) => meta \in {pr, None}
              /\ Only(p) /\ pub'[p].review = pub[p].review
              /\ pub'[p].late = pub[p].late
              /\ pub'[p].pc \in {"list", "check", "done"}
              /\ meta # None => (meta.state \in Over <=> pub'[p].pc = "done")
              /\ pub'[p].meta = meta
              /\ pub'[p].comment # "published" /\ pub'[p].check # "published"
<1>1. /\ pub[p] \in Run /\ pub[p].key \in Sha
      /\ pub[p].comment # "published" /\ pub[p].check # "published"
      /\ snapshots[pub[p].key] \in Snapshot \cup {None} /\ pr \in Metadata
  BY DEF TypeOK, HoldsOK, LoadSnapshot, FetchMetadata, at
<1>2. ASSUME NEW meta \in Metadata \cup {None},
             pub' = [pub EXCEPT ![p] = negotiated(pub[p], meta)]
      PROVE  /\ Only(p) /\ pub'[p].review = pub[p].review
             /\ pub'[p].late = pub[p].late
             /\ pub'[p].pc \in {"list", "check", "done"} /\ pub'[p].meta = meta
             /\ meta # None => (meta.state \in Over <=> pub'[p].pc = "done")
             /\ pub'[p].comment # "published" /\ pub'[p].check # "published"
  <2> DEFINE next == negotiated(pub[p], meta)
  <2>1. /\ next \in Run
        /\ next.review = pub[p].review /\ next.late = pub[p].late
        /\ next.pc \in {"list", "check", "done"} /\ next.meta = meta
        /\ meta # None => (meta.state \in Over <=> next.pc = "done")
        /\ next.comment # "published" /\ next.check # "published"
    BY <1>1, NegotiatedRun
  <2>2. Only(p) /\ pub'[p] = next
    BY <1>2, <2>1, OneRunChanges
  <2> HIDE DEF next
  <2> QED
    BY <2>1, <2>2
<1>3. CASE LoadSnapshot(p) /\ mayReuse(snapshots[pub[p].key])
  <2>1. pub' = [pub EXCEPT ![p] = negotiated(pub[p], snapshots[pub[p].key].meta)]
    BY <1>3 DEF LoadSnapshot
  <2>2. snapshots[pub[p].key].meta \in Metadata
    BY <1>1, <1>3 DEF mayReuse, Snapshot
  <2>3. ~FetchMetadata(p)
    BY <1>3 DEF LoadSnapshot, FetchMetadata, at
  <2> QED
    BY <1>2, <1>3, <2>1, <2>2, <2>3
<1>4. CASE LoadSnapshot(p) /\ ~mayReuse(snapshots[pub[p].key])
  <2> DEFINE run == [pub[p] EXCEPT !.pc = "fetch"]
  <2>1. /\ run \in Run /\ run.pc = "fetch" /\ run.key = pub[p].key
        /\ run.review = pub[p].review /\ run.late = pub[p].late
        /\ run.comment = pub[p].comment /\ run.check = pub[p].check
    BY <1>1 DEF Run, Pc
  <2>2. pub' = [pub EXCEPT ![p] = run]
    BY <1>4 DEF LoadSnapshot
  <2> HIDE DEF run
  <2> QED
    BY <1>1, <1>4, <2>1, <2>2, OneRunChanges DEF Keeps
<1>5. CASE FetchMetadata(p)
  <2>1. \E meta \in {pr, None} : pub' = [pub EXCEPT ![p] = negotiated(pub[p], meta)]
    BY <1>5 DEF FetchMetadata
  <2>2. ~LoadSnapshot(p)
    BY <1>5 DEF LoadSnapshot, FetchMetadata, at
  <2> QED
    BY <1>1, <1>2, <1>5, <2>1, <2>2
<1> QED
  BY <1>3, <1>4, <1>5

LEMMA WriteCommentChanges ==
  ASSUME TypeOK, NEW p \in Publisher, WriteComment(p)
  PROVE  /\ Only(p)
         /\ \/ fail(p)
            \/ /\ pub'[p].pc = "check" /\ pub'[p].comment = "published"
               /\ pub'[p].review = pub[p].review /\ pub'[p].late = pub[p].late
               /\ pub'[p].check = pub[p].check /\ pub'[p].meta = pub[p].meta
<1> DEFINE run == [pub[p] EXCEPT !.comment = "published", !.pc = "check"]
<1>1. pub[p] \in Run
  BY DEF TypeOK
<1>2. /\ run \in Run /\ run.pc = "check" /\ run.comment = "published"
      /\ run.review = pub[p].review /\ run.late = pub[p].late
      /\ run.check = pub[p].check /\ run.meta = pub[p].meta
  BY <1>1 DEF Run, Pc, Record
<1>3. pub' = [pub EXCEPT ![p] = run] \/ fail(p)
  BY DEF WriteComment
<1> HIDE DEF run
<1> QED
  BY <1>2, <1>3, OneRunChanges, FailChanges

LEMMA CheckedChanges ==
  ASSUME TypeOK, NEW p \in Publisher, NEW record \in Record, checked(p, record)
  PROVE  /\ Only(p) /\ pub'[p].pc = "done" /\ pub'[p].check = record
         /\ pub'[p].review = pub[p].review /\ pub'[p].late = pub[p].late
         /\ pub'[p].comment = pub[p].comment /\ pub'[p].sha = pub[p].sha
<1> DEFINE run == [pub[p] EXCEPT !.check = record, !.pc = "done"]
<1>1. pub[p] \in Run
  BY DEF TypeOK
<1>2. /\ run \in Run /\ run.pc = "done" /\ run.check = record
      /\ run.review = pub[p].review /\ run.late = pub[p].late
      /\ run.comment = pub[p].comment /\ run.sha = pub[p].sha
  BY <1>1 DEF Run, Pc, Record
<1>3. pub' = [pub EXCEPT ![p] = run]
  BY DEF checked
<1> HIDE DEF run
<1> QED
  BY <1>2, <1>3, OneRunChanges

LEMMA CheckChanges ==
  ASSUME TypeOK, NEW p \in Publisher,
         SkipCheck(p) \/ WriteCheckRun(p) \/ WriteStatus(p) \/ Unreachable(p)
  PROVE  \/ fail(p)
         \/ SkipCheck(p) /\ checked(p, "skipped")
         \/ (WriteCheckRun(p) \/ WriteStatus(p)) /\ checked(p, "published")
         \/ /\ WriteCheckRun(p) /\ Only(p) /\ Keeps(p)
            /\ pub'[p].pc = "fallback" /\ pub'[p].sha = pub[p].sha
            /\ pub'[p].meta = pub[p].meta
            /\ UNCHANGED checks
<1>1. CASE WriteCheckRun(p) /\ refused(p)
  <2> DEFINE run == [pub[p] EXCEPT !.pc = "fallback"]
  <2>1. pub[p] \in Run
    BY DEF TypeOK
  <2>2. /\ run \in Run /\ run.pc = "fallback" /\ run.sha = pub[p].sha
        /\ run.review = pub[p].review /\ run.late = pub[p].late
        /\ run.comment = pub[p].comment /\ run.check = pub[p].check
        /\ run.meta = pub[p].meta
    BY <2>1 DEF Run, Pc
  <2>3. pub' = [pub EXCEPT ![p] = run] /\ UNCHANGED checks
    BY <1>1 DEF WriteCheckRun
  <2> HIDE DEF run
  <2> QED
    BY <1>1, <2>2, <2>3, OneRunChanges DEF Keeps
<1>2. CASE ~(WriteCheckRun(p) /\ refused(p))
  BY <1>2 DEF SkipCheck, WriteCheckRun, WriteStatus, Unreachable
<1> QED
  BY <1>1, <1>2

\* A command that starts forgets the runs that are over.
LEMMA StartChanges ==
  ASSUME TypeOK, NEW p \in Publisher, Start(p)
  PROVE  /\ pub' \in [Publisher -> Run]
         /\ pub'[p].pc = "resolve" /\ pub'[p].review = local
         /\ pub'[p].late <=> overSince = "long"
         /\ pub'[p].comment = "none" /\ pub'[p].check = "none"
         /\ \A q \in Publisher \ {p} :
              pub'[q] = IF at(q, "done") THEN NoRun ELSE pub[q]
<1> DEFINE run == [NoRun EXCEPT !.pc = "resolve", !.review = local,
                                !.late = overSince = "long"]
<1>1. run \in Run
  BY DEF NoRun, Run, Pc, Record, TypeOK
<1>2. pub' = [q \in Publisher |-> IF q = p THEN run
                                  ELSE IF at(q, "done") THEN NoRun ELSE pub[q]]
  BY DEF Start
<1> HIDE DEF run
<1>3. pub' \in [Publisher -> Run]
  BY <1>1, <1>2, NoRunType DEF TypeOK
<1>4. pub'[p] = run
  BY <1>2
<1>5. /\ run.pc = "resolve" /\ run.review = local
      /\ run.late <=> overSince = "long"
      /\ run.comment = "none" /\ run.check = "none"
  BY DEF run, NoRun
<1> QED
  BY <1>2, <1>3, <1>4, <1>5

\* Every step of a command types the runs and spends at most one fault.
LEMMA CommandSteps ==
  ASSUME TypeOK, HoldsOK, NEW p \in Publisher, Start(p) \/ Step(p)
  PROVE  pub' \in [Publisher -> Run] /\ left' \in Left
<1>1. pub' \in [Publisher -> Run]
  <2>1. \A record \in Record : checked(p, record) => Only(p)
    BY CheckedChanges
  <2>2. SkipCheck(p) \/ WriteCheckRun(p) \/ WriteStatus(p) \/ Unreachable(p) => Only(p)
    BY <2>1, CheckChanges, FailChanges DEF Record
  <2> QED
    BY <2>2, StartChanges, ResolveChanges, NegotiationChanges, FindChanges,
       WriteCommentChanges DEF Step, Only
<1>2. lost => left' \in Left
  BY DEF lost, TypeOK, Left
<1>3. answered => left' = left
  BY DEF answered
<1>4. left' = left \/ lost \/ answered
  BY DEF Start, Step, Resolve, LoadSnapshot, FetchMetadata, FindComment, WriteComment,
         SkipCheck, WriteCheckRun, WriteStatus, Unreachable
<1> QED
  BY <1>1, <1>2, <1>3, <1>4 DEF TypeOK

LEMMA TypeNext == TypeOK /\ HoldsOK /\ [Next]_vars => TypeOK'
<1> SUFFICES ASSUME TypeOK, HoldsOK, [Next]_vars PROVE TypeOK'
  OBVIOUS
<1>1. ASSUME NEW p \in Publisher, Start(p) \/ Step(p)
      PROVE  TypeOK'
  <2>1. pub' \in [Publisher -> Run] /\ left' \in Left
    BY <1>1, CommandSteps
  <2>2. UNCHANGED <<setting, local, pr, known, up, overSince>>
    BY <1>1 DEF Start, Step, Resolve, LoadSnapshot, FetchMetadata, FindComment,
         WriteComment, SkipCheck, WriteCheckRun, WriteStatus, Unreachable, host, world
  <2>3. overlap' \in BOOLEAN
    BY <1>1 DEF Start, Step, Resolve, LoadSnapshot, FetchMetadata, FindComment, TypeOK,
         WriteComment, SkipCheck, WriteCheckRun, WriteStatus, Unreachable, host, world
  <2>4. comments' \in Seq(Sha \cup {Other})
    <3>1. CASE WriteComment(p)
      <4>1. pub[p].existing \in Nat /\ pub[p].review \in Sha
        BY <3>1 DEF TypeOK, HoldsOK, Run, running, WriteComment, at
      <4> QED
        BY <3>1, <4>1, CommentType DEF WriteComment
    <3>2. CASE ~WriteComment(p)
      BY <1>1, <3>2 DEF Start, Step, Resolve, LoadSnapshot, FetchMetadata, FindComment,
           SkipCheck, WriteCheckRun, WriteStatus, Unreachable, host, TypeOK
    <3> QED
      BY <3>1, <3>2
  <2>5. checks' \in [Sha -> Conclusion \cup {None}]
    <3>1. CASE WriteCheckRun(p)
      <4>1. conclusionOf(p) \in Conclusion
        BY <3>1, PublishAssumption
           DEF TypeOK, HoldsOK, running, WriteCheckRun, wantsCheck, at, conclusionOf
      <4> QED
        BY <3>1, <4>1 DEF WriteCheckRun, TypeOK
    <3>2. CASE ~WriteCheckRun(p)
      BY <1>1, <3>2 DEF Start, Step, Resolve, LoadSnapshot, FetchMetadata, FindComment,
           SkipCheck, WriteComment, WriteStatus, Unreachable, host, TypeOK
    <3> QED
      BY <3>1, <3>2
  <2>6. statuses' \in [Sha -> {"success", "pending", "failure", "failed", None}]
    <3>1. CASE WriteStatus(p)
      <4>1. statusFor(conclusionOf(p)) \in {"success", "pending", "failure", "failed"}
        BY DEF statusFor
      <4> QED
        BY <3>1, <4>1 DEF WriteStatus, TypeOK
    <3>2. CASE ~WriteStatus(p)
      BY <1>1, <3>2 DEF Start, Step, Resolve, LoadSnapshot, FetchMetadata, FindComment,
           SkipCheck, WriteComment, WriteCheckRun, Unreachable, host, TypeOK
    <3> QED
      BY <3>1, <3>2
  <2>7. snapshots' \in [Sha -> Snapshot \cup {None}]
    <3>1. CASE FetchMetadata(p)
      <4>1. [meta |-> pr, fresh |-> TRUE] \in Snapshot
        BY DEF Snapshot, TypeOK
      <4> QED
        BY <3>1, <4>1 DEF FetchMetadata, TypeOK
    <3>2. CASE ~FetchMetadata(p)
      BY <1>1, <3>2 DEF Start, Step, Resolve, LoadSnapshot, FindComment,
           SkipCheck, WriteComment, WriteCheckRun, WriteStatus, Unreachable, TypeOK
    <3> QED
      BY <3>1, <3>2
  <2> QED
    BY <2>1, <2>2, <2>3, <2>4, <2>5, <2>6, <2>7 DEF TypeOK
<1>2. CASE Develop
  <2>1. left' \in Left
    BY <1>2 DEF Develop, spend, TypeOK, Left
  <2>2. pr' \in Metadata /\ known' \subseteq Sha /\ pr'.head \in known' /\ local' \in Sha
    BY <1>2 DEF Develop, TypeOK, Metadata
  <2> QED
    BY <1>2, <2>1, <2>2 DEF Develop, TypeOK
<1>3. CASE Discuss
  <2>1. left' \in Left
    BY <1>3 DEF Discuss, spend, TypeOK, Left
  <2>2. pr' \in Metadata /\ pr'.head = pr.head
    BY <1>3 DEF Discuss, TypeOK, Metadata, PrState, Over
  <2>3. comments' \in Seq(Sha \cup {Other})
    BY <1>3 DEF Discuss, TypeOK
  <2>4. pub' \in [Publisher -> Run]
    <3>1. \A p \in Publisher : [pub[p] EXCEPT !.late = FALSE] \in Run
      BY DEF TypeOK, Run
    <3> QED
      BY <1>3, <3>1 DEF Discuss, TypeOK
  <2> QED
    BY <1>3, <2>1, <2>2, <2>3, <2>4 DEF Discuss, TypeOK
<1>4. CASE Minute
  <2>1. \A s \in Sha : snapshots[s] # None =>
          [snapshots[s] EXCEPT !.fresh = FALSE] \in Snapshot
    BY DEF TypeOK, Snapshot
  <2>2. snapshots' \in [Sha -> Snapshot \cup {None}]
    BY <1>4, <2>1 DEF Minute
  <2> QED
    BY <1>4, <2>2 DEF Minute, TypeOK, host
<1>5. CASE Network
  <2>1. left' \in Left
    BY <1>5 DEF Network, TypeOK, Left
  <2> QED
    BY <1>5, <2>1 DEF Network, TypeOK, host
<1>6. CASE UNCHANGED vars
  BY <1>6 DEF TypeOK, vars, host, world
<1> QED
  BY <1>1, <1>2, <1>3, <1>4, <1>5, <1>6 DEF Next

------------------------------------------------------------------------------
(* What runs hold. *)

\* Steps of a command leave the other runs alone.
LEMMA OthersStay ==
  ASSUME TypeOK, HoldsOK, NEW p \in Publisher, Step(p)
  PROVE  Only(p)
<1>1. \A record \in Record : checked(p, record) => Only(p)
  BY CheckedChanges
<1>2. SkipCheck(p) \/ WriteCheckRun(p) \/ WriteStatus(p) \/ Unreachable(p) => Only(p)
  BY <1>1, CheckChanges, FailChanges DEF Record
<1> QED
  BY <1>2, ResolveChanges, NegotiationChanges, FindChanges, WriteCommentChanges DEF Step

\* Where each step is taken.
LEMMA StepsFrom ==
  ASSUME NEW p \in Publisher
  PROVE  /\ Resolve(p) => pub[p].pc = "resolve"
         /\ LoadSnapshot(p) => pub[p].pc = "load"
         /\ FetchMetadata(p) => pub[p].pc = "fetch"
         /\ FindComment(p) => pub[p].pc = "list"
         /\ WriteComment(p) => pub[p].pc = "comment"
         /\ SkipCheck(p) => pub[p].pc = "check"
         /\ WriteCheckRun(p) => pub[p].pc = "check" /\ pub[p].sha # None
         /\ WriteStatus(p) => \/ pub[p].pc = "check" /\ pub[p].sha # None
                              \/ pub[p].pc = "fallback"
         /\ Unreachable(p) => pub[p].pc \in {"list", "comment", "check", "fallback"}
BY DEF Resolve, LoadSnapshot, FetchMetadata, FindComment, WriteComment, SkipCheck,
       WriteCheckRun, WriteStatus, Unreachable, wantsCheck, posts, at

\* One run's part of HoldsOK.
RunOK(run) ==
  /\ run.pc \notin {"idle", "done"} => run.review \in Sha
  /\ run.pc \in {"load", "fetch"} => run.key \in Sha
  /\ run.pc = "fallback" => run.sha \in Sha
  /\ run.check = "published" => run.pc = "done" /\ run.sha \in Sha /\ run.review \in Sha
  /\ run.comment = "published" =>
       run.pc \in {"check", "fallback", "done"} /\ run.review \in Sha

LEMMA HoldsRun == HoldsOK <=> \A p \in Publisher : RunOK(pub[p])
BY DEF HoldsOK, RunOK, at, running

LEMMA NoRunOK == RunOK(NoRun)
BY DEF RunOK, NoRun

LEMMA HoldsInit == Init => HoldsOK
BY NoRunOK, HoldsRun DEF Init

LEMMA HoldsNext == TypeOK /\ HoldsOK /\ [Next]_vars => HoldsOK'
<1> SUFFICES ASSUME TypeOK, HoldsOK, [Next]_vars,
                    NEW q \in Publisher
             PROVE  RunOK(pub'[q])
  BY DEF HoldsOK, RunOK, at, running
<1>1. RunOK(pub[q])
  BY HoldsRun
<1>2. ASSUME NEW p \in Publisher, Start(p) PROVE RunOK(pub'[q])
  <2>1. RunOK(pub'[p])
    BY <1>2, StartChanges DEF RunOK, TypeOK
  <2> QED
    BY <1>1, <1>2, <2>1, StartChanges, NoRunOK
<1>3. ASSUME NEW p \in Publisher, Step(p) PROVE RunOK(pub'[q])
  <2>1. RunOK(pub[p])
    BY HoldsRun
  <2>2. RunOK(pub'[p])
    <3>1. CASE Resolve(p)
      BY <2>1, <3>1, ResolveChanges, StepsFrom DEF RunOK, Keeps
    <3>2. CASE LoadSnapshot(p) \/ FetchMetadata(p)
      BY <2>1, <3>2, NegotiationChanges, StepsFrom DEF RunOK, Keeps
    <3>3. CASE FindComment(p)
      BY <2>1, <3>3, FindChanges, StepsFrom DEF RunOK, Keeps
    <3>4. fail(p) => RunOK(pub'[p])
      BY FailChanges DEF RunOK
    <3>5. CASE WriteComment(p)
      BY <2>1, <3>4, <3>5, WriteCommentChanges, StepsFrom DEF RunOK
    <3>6. CASE SkipCheck(p) /\ checked(p, "skipped")
      BY <2>1, <3>6, CheckedChanges, StepsFrom DEF RunOK, Record
    <3>7. CASE (WriteCheckRun(p) \/ WriteStatus(p)) /\ checked(p, "published")
      <4>1. pub[p].sha \in Sha /\ pub[p].pc \in {"check", "fallback"}
        BY <2>1, <3>7, StepsFrom DEF RunOK, TypeOK, Run
      <4> QED
        BY <2>1, <3>7, <4>1, CheckedChanges DEF RunOK, Record
    <3>8. CASE /\ WriteCheckRun(p) /\ Only(p) /\ Keeps(p)
               /\ pub'[p].pc = "fallback" /\ pub'[p].sha = pub[p].sha
      <4>1. pub[p].sha \in Sha /\ pub[p].pc = "check"
        BY <3>8, StepsFrom DEF TypeOK, Run
      <4> QED
        BY <2>1, <3>8, <4>1 DEF RunOK, Keeps
    <3> QED
      BY <1>3, <3>1, <3>2, <3>3, <3>4, <3>5, <3>6, <3>7, <3>8, CheckChanges DEF Step
  <2> QED
    BY <1>1, <1>3, <2>2, OthersStay DEF Only
<1>4. CASE Discuss
  <2>1. pub'[q] \in {pub[q], [pub[q] EXCEPT !.late = FALSE]}
    BY <1>4 DEF Discuss
  <2>2. pub[q] \in Run
    BY DEF TypeOK
  <2> QED
    BY <1>1, <2>1, <2>2 DEF RunOK, Run
<1>5. CASE Develop \/ Minute \/ Network \/ UNCHANGED vars
  BY <1>1, <1>5 DEF Develop, Minute, Network, vars
<1> QED
  BY <1>2, <1>3, <1>4, <1>5 DEF Next

LEMMA OneRunNext == TypeOK /\ HoldsOK /\ OneRun /\ [Next]_vars => OneRun'
<1> SUFFICES ASSUME TypeOK, HoldsOK, OneRun, [Next]_vars, ~overlap',
                    NEW q \in Publisher, NEW r \in Publisher,
                    ~at(q, "idle")', ~at(r, "idle")'
             PROVE  q = r
  BY DEF OneRun
<1>1. ASSUME NEW p \in Publisher, Start(p) PROVE q = r
  <2>1. \A s \in Publisher \ {p} : at(s, "idle")'
    BY <1>1, StartChanges DEF Start, running, at, NoRun
  <2> QED
    BY <2>1
<1>2. ASSUME NEW p \in Publisher, Step(p) PROVE q = r
  <2>1. ~overlap
    BY <1>2 DEF Step, Resolve, LoadSnapshot, FetchMetadata, FindComment, WriteComment,
         SkipCheck, WriteCheckRun, WriteStatus, Unreachable, world
  <2>2. ~at(p, "idle")
    BY <1>2 DEF Step, Resolve, LoadSnapshot, FetchMetadata, FindComment, WriteComment,
         SkipCheck, WriteCheckRun, WriteStatus, Unreachable, at, wantsCheck, posts
  <2>3. \A s \in Publisher \ {p} : at(s, "idle")'
    BY <1>2, <2>1, <2>2, OthersStay DEF OneRun, Only, at
  <2> QED
    BY <2>3
<1>3. CASE Discuss
  <2>1. \A s \in Publisher : pub'[s].pc = pub[s].pc
    BY <1>3 DEF Discuss, TypeOK, Run
  <2> QED
    BY <1>3, <2>1 DEF Discuss, OneRun, at
<1>4. CASE Develop \/ Minute \/ Network \/ UNCHANGED vars
  BY <1>4 DEF Develop, Minute, Network, vars, world, OneRun, at
<1> QED
  BY <1>1, <1>2, <1>3, <1>4 DEF Next

------------------------------------------------------------------------------
(* Nothing is written late. *)

\* A command that is late started when the pull request had been over for more
\* than a minute, and it is over still: every snapshot that may be reused says so.
OverOK ==
  /\ pr.state = "open" <=> overSince = "no"
  /\ \A p \in Publisher : pub[p].late => overSince = "long"
  /\ overSince = "long" =>
       \A s \in Sha : mayReuse(snapshots[s]) => snapshots[s].meta.state \in Over

LEMMA OverInit == Init => OverOK
BY DEF Init, OverOK, NoRun

LEMMA OverNext == TypeOK /\ HoldsOK /\ OverOK /\ [Next]_vars => OverOK'
<1> SUFFICES ASSUME TypeOK, HoldsOK, OverOK, [Next]_vars PROVE OverOK'
  OBVIOUS
<1>1. pr \in Metadata /\ (pr.state # "open" <=> pr.state \in Over)
  BY DEF TypeOK, Metadata, PrState, Over
<1>2. ASSUME NEW p \in Publisher, Start(p) \/ Step(p) PROVE OverOK'
  <2>1. UNCHANGED <<pr, overSince>>
    BY <1>2 DEF Start, Step, Resolve, LoadSnapshot, FetchMetadata, FindComment,
         WriteComment, SkipCheck, WriteCheckRun, WriteStatus, Unreachable, host, world
  <2>2. ASSUME NEW q \in Publisher, pub'[q].late PROVE overSince = "long"
    <3>1. CASE Start(p)
      BY <2>2, <3>1, StartChanges DEF OverOK, NoRun
    <3>2. CASE Step(p)
      <4>1. pub'[p].late => pub[p].late
        <5>1. \A record \in Record : checked(p, record) => (pub'[p].late <=> pub[p].late)
          BY CheckedChanges
        <5> QED
          BY <3>2, <5>1, ResolveChanges, NegotiationChanges, FindChanges,
             WriteCommentChanges, CheckChanges, FailChanges DEF Step, Keeps, Record
      <4> QED
        BY <2>2, <3>2, <4>1, OthersStay DEF OverOK, Only
    <3> QED
      BY <1>2, <3>1, <3>2
  <2>3. ASSUME overSince = "long", NEW s \in Sha, mayReuse(snapshots'[s])
        PROVE  snapshots'[s].meta.state \in Over
    <3>1. snapshots'[s] \in {snapshots[s], [meta |-> pr, fresh |-> TRUE]}
      BY <1>2 DEF Start, Step, Resolve, LoadSnapshot, FetchMetadata, FindComment,
           WriteComment, SkipCheck, WriteCheckRun, WriteStatus, Unreachable, TypeOK
    <3> QED
      BY <1>1, <2>3, <3>1 DEF OverOK
  <2> QED
    BY <2>1, <2>2, <2>3 DEF OverOK, mayReuse
<1>3. CASE Develop
  BY <1>3 DEF Develop, OverOK, mayReuse, TypeOK, Metadata
<1>4. CASE Discuss
  <2>1. CASE /\ pr.state = "open" /\ overSince' = "recent"
             /\ \E state \in Over : pr' = [pr EXCEPT !.state = state]
             /\ UNCHANGED pub
    <3>1. pr'.state # "open"
      BY <1>1, <2>1 DEF Over, Metadata
    <3>2. \A p \in Publisher : ~pub'[p].late
      BY <2>1 DEF OverOK
    <3> QED
      BY <2>1, <3>1, <3>2 DEF OverOK
  <2>2. CASE /\ pr.state = "closed" /\ overSince' = "no"
             /\ pr' = [pr EXCEPT !.state = "open"]
             /\ pub' = [p \in Publisher |-> [pub[p] EXCEPT !.late = FALSE]]
    <3>1. pr'.state = "open"
      BY <1>1, <2>2 DEF Metadata
    <3>2. \A p \in Publisher : ~pub'[p].late
      BY <2>2 DEF TypeOK, Run
    <3> QED
      BY <2>2, <3>1, <3>2 DEF OverOK
  <2>3. CASE UNCHANGED <<pr, overSince, pub>>
    BY <1>4, <2>3 DEF Discuss, OverOK, mayReuse
  <2> QED
    BY <1>4, <2>1, <2>2, <2>3 DEF Discuss
<1>5. CASE Minute
  <2>1. \A p \in Publisher : pub'[p].late => overSince' = "long"
    BY <1>5 DEF Minute, OverOK
  <2>2. \A s \in Sha : mayReuse(snapshots'[s]) => snapshots'[s].meta.state \in Over
    BY <1>5 DEF Minute, mayReuse, TypeOK, Snapshot
  <2> QED
    BY <1>5, <2>1, <2>2 DEF Minute, OverOK, host
<1>6. CASE Network \/ UNCHANGED vars
  BY <1>6 DEF Network, vars, host, world, OverOK, mayReuse
<1> QED
  BY <1>2, <1>3, <1>4, <1>5, <1>6 DEF Next

LEMMA NoLateInit == Init => NoLatePublish
BY DEF Init, NoLatePublish, NoRun

LEMMA NoLateNext ==
  TypeOK /\ HoldsOK /\ OverOK /\ NoLatePublish /\ [Next]_vars => NoLatePublish'
<1> SUFFICES ASSUME TypeOK, HoldsOK, OverOK, NoLatePublish, [Next]_vars,
                    NEW q \in Publisher, pub'[q].late, pub'[q].pc \in Writing
             PROVE  pub'[q].meta = None
  BY DEF NoLatePublish
<1>1. pub[q].late /\ pub[q].pc \in Writing => pub[q].meta = None
  BY DEF NoLatePublish
<1>2. ASSUME NEW p \in Publisher, Start(p) PROVE pub'[q].meta = None
  BY <1>1, <1>2, StartChanges DEF Writing, NoRun
<1>3. ASSUME NEW p \in Publisher, Step(p) PROVE pub'[q].meta = None
  <2>1. CASE p # q
    BY <1>1, <1>3, <2>1, OthersStay DEF Only
  <2>2. CASE p = q
    <3>1. CASE Resolve(p)
      BY <2>2, <3>1, ResolveChanges DEF Writing
    <3>2. CASE LoadSnapshot(p) \/ FetchMetadata(p)
      <4>1. pub[p].key \in Sha
        BY <3>2, StepsFrom DEF HoldsOK
      <4>2. ASSUME NEW meta \in Metadata \cup {None}, meta # None,
                   LoadSnapshot(p) => /\ mayReuse(snapshots[pub[p].key])
                                      /\ meta = snapshots[pub[p].key].meta,
                   FetchMetadata(p) => meta \in {pr, None},
                   pub'[p].late <=> pub[p].late
            PROVE  meta.state \in Over
        <5>1. overSince = "long" /\ pr.state \in Over
          BY <2>2, <4>2 DEF OverOK, TypeOK, Metadata, PrState, Over
        <5> QED
          BY <3>2, <4>1, <4>2, <5>1 DEF OverOK
      <4> QED
        BY <2>2, <3>2, <4>2, NegotiationChanges DEF Writing
    <3>3. CASE FindComment(p)
      BY <1>1, <2>2, <3>3, FindChanges, StepsFrom DEF Writing, Keeps
    <3>4. CASE WriteComment(p)
      BY <1>1, <2>2, <3>4, WriteCommentChanges, FailChanges, StepsFrom DEF Writing
    <3>5. CASE SkipCheck(p) \/ WriteCheckRun(p) \/ WriteStatus(p) \/ Unreachable(p)
      <4>1. \A record \in Record : ~checked(p, record)
        BY <2>2, CheckedChanges DEF Writing
      <4> QED
        BY <1>1, <2>2, <3>5, <4>1, CheckChanges, FailChanges, StepsFrom
           DEF Writing, Keeps, Record
    <3> QED
      BY <1>3, <2>2, <3>1, <3>2, <3>3, <3>4, <3>5 DEF Step
  <2> QED
    BY <2>1, <2>2
<1>4. CASE Discuss
  <2>1. pub'[q] \in {pub[q], [pub[q] EXCEPT !.late = FALSE]} /\ pub[q] \in Run
    BY <1>4 DEF Discuss, TypeOK
  <2> QED
    BY <1>1, <2>1 DEF Run
<1>5. CASE Develop \/ Minute \/ Network \/ UNCHANGED vars
  BY <1>1, <1>5 DEF Develop, Minute, Network, vars
<1> QED
  BY <1>2, <1>3, <1>4, <1>5 DEF Next

------------------------------------------------------------------------------
(* There is one comment, and what was published is shown. *)

\* As long as commands do not overlap and one page has all comments: one comment
\* has the marker, a run about to write knows it, and a run that has written it
\* finds its review in it.
CommentsOK ==
  Simple =>
    /\ \A i, j \in marked : i = j
    /\ \A p \in Publisher :
         /\ at(p, "comment") => IF pub[p].existing = 0 THEN marked = {}
                                ELSE pub[p].existing \in marked
         /\ pub[p].comment = "published" =>
              \A i \in marked : comments[i] = pub[p].review

LEMMA WithoutMarker ==
  ASSUME TypeOK, comments' = Append(comments, Other)
  PROVE  /\ marked' = marked /\ \A i \in marked : comments'[i] = comments[i]
         /\ Len(comments') >= Len(comments)
<1>1. Len(comments) \in Nat /\ Len(comments') = Len(comments) + 1
  BY DEF TypeOK
<1>2. \A i \in 1 .. Len(comments) : comments'[i] = comments[i]
  BY DEF TypeOK
<1>3. comments'[Len(comments) + 1] = Other
  BY DEF TypeOK
<1> QED
  BY <1>1, <1>2, <1>3 DEF marked

LEMMA WithReview ==
  ASSUME TypeOK, NEW review \in Sha, NEW existing \in marked \cup {0},
         comments' = withComment(existing, review)
  PROVE  /\ existing = 0 => marked' = marked \cup {Len(comments) + 1}
         /\ existing # 0 => marked' = marked
         /\ comments'[IF existing = 0 THEN Len(comments) + 1 ELSE existing] = review
         /\ Len(comments') >= Len(comments)
<1>1. Len(comments) \in Nat /\ review # Other
  BY PublishAssumption DEF TypeOK
<1>2. CASE existing = 0
  <2>1. comments' = Append(comments, review)
    BY <1>2 DEF withComment
  <2>2. /\ Len(comments') = Len(comments) + 1
        /\ \A i \in 1 .. Len(comments) : comments'[i] = comments[i]
        /\ comments'[Len(comments) + 1] = review
    BY <2>1 DEF TypeOK
  <2> QED
    BY <1>1, <1>2, <2>2 DEF marked
<1>3. CASE existing # 0
  <2>1. comments' = [comments EXCEPT ![existing] = review] /\ existing \in 1 .. Len(comments)
    BY <1>3 DEF withComment, marked
  <2>2. /\ Len(comments') = Len(comments) /\ comments'[existing] = review
        /\ \A i \in 1 .. Len(comments) : i # existing => comments'[i] = comments[i]
    BY <2>1 DEF TypeOK
  <2> QED
    BY <1>1, <1>3, <2>1, <2>2 DEF marked
<1> QED
  BY <1>2, <1>3

\* A step of a command that never overlapped another is one of the only run.
LEMMA OthersIdle ==
  ASSUME TypeOK, HoldsOK, OneRun, NEW p \in Publisher, Step(p), ~overlap
  PROVE  \A q \in Publisher \ {p} : /\ pub'[q] = pub[q] /\ pub[q].pc = "idle"
                                    /\ pub[q].comment # "published"
                                    /\ pub[q].check # "published"
<1>1. ~at(p, "idle")
  BY StepsFrom DEF Step, at
<1> QED
  BY <1>1, OthersStay DEF Only, OneRun, HoldsOK, at

LEMMA CommentsInit == Init => CommentsOK
<1> SUFFICES ASSUME Init PROVE CommentsOK
  OBVIOUS
<1>1. marked = {}
  BY DEF Init, marked
<1> QED
  BY <1>1 DEF Init, CommentsOK, NoRun, at

LEMMA CommentsNext ==
  TypeOK /\ HoldsOK /\ OneRun /\ CommentsOK /\ [Next]_vars => CommentsOK'
<1> SUFFICES ASSUME TypeOK, HoldsOK, OneRun, CommentsOK, [Next]_vars, Simple'
             PROVE  CommentsOK'
  BY DEF CommentsOK
<1>1. Len(comments) \in Nat /\ PageSize \in Nat
  BY PublishAssumption DEF TypeOK
<1>2. ASSUME NEW p \in Publisher, Start(p) PROVE CommentsOK'
  <2>1. UNCHANGED comments /\ Simple
    BY <1>2 DEF Start, Simple, host
  <2>2. marked' = marked
    BY <2>1 DEF marked
  <2> QED
    BY <1>2, <2>1, <2>2, StartChanges DEF CommentsOK, at, NoRun
<1>3. ASSUME NEW p \in Publisher, Step(p) PROVE CommentsOK'
  <2>1. overlap' = overlap
    BY <1>3 DEF Step, Resolve, LoadSnapshot, FetchMetadata, FindComment, WriteComment,
         SkipCheck, WriteCheckRun, WriteStatus, Unreachable, world
  <2>2. \A q \in Publisher \ {p} : pub'[q].pc = "idle" /\ pub'[q].comment # "published"
    BY <1>3, <2>1, OthersIdle DEF Simple
  <2>3. CASE WriteComment(p)
    <3>1. pub[p].review \in Sha /\ pub[p].existing \in Nat /\ at(p, "comment")
      BY <2>3, StepsFrom DEF TypeOK, HoldsOK, Run, running, at
    <3>2. /\ pub[p].existing \in marked \cup {0} => Len(comments') >= Len(comments)
          /\ comments' = withComment(pub[p].existing, pub[p].review)
      BY <2>3, <3>1, WithReview DEF WriteComment
    <3>3. Len(comments') >= Len(comments)
      BY <1>1, <3>1, <3>2 DEF withComment, TypeOK
    <3>4. Simple
      BY <1>1, <2>1, <3>1, <3>2, <3>3, CommentType DEF Simple
    <3>5. IF pub[p].existing = 0 THEN marked = {} ELSE pub[p].existing \in marked
      BY <3>1, <3>4 DEF CommentsOK
    <3> DEFINE i == IF pub[p].existing = 0 THEN Len(comments) + 1 ELSE pub[p].existing
    <3>6. marked' = {i} /\ comments'[i] = pub[p].review
      BY <3>1, <3>2, <3>4, <3>5, WithReview DEF CommentsOK
    <3>7. pub'[p].pc # "comment" /\ (pub'[p].comment = "published" => pub'[p].review = pub[p].review)
      BY <2>3, WriteCommentChanges, FailChanges
    <3> HIDE DEF i
    <3> QED
      BY <2>2, <3>6, <3>7 DEF CommentsOK, at
  <2>4. CASE ~WriteComment(p)
    <3>1. UNCHANGED comments
      BY <1>3, <2>4 DEF Step, Resolve, LoadSnapshot, FetchMetadata, FindComment,
           SkipCheck, WriteCheckRun, WriteStatus, Unreachable, host
    <3>2. Simple /\ marked' = marked
      BY <2>1, <3>1 DEF Simple, marked
    <3>3. CASE FindComment(p)
      <4>1. page = 1 .. Len(comments)
        BY <1>1, <3>2 DEF page, Simple
      <4>2. page \cap marked = marked /\ 0 \notin marked
        BY <4>1 DEF marked
      <4>3. IF pub'[p].existing = 0 THEN marked = {} ELSE pub'[p].existing \in marked
        BY <3>3, <4>2, ExistingComment, FindChanges
      <4>4. pub'[p].comment # "published"
        BY <3>3, FindChanges, StepsFrom DEF HoldsOK, Keeps, at
      <4> QED
        BY <2>2, <3>1, <3>2, <4>3, <4>4 DEF CommentsOK, at
    <3>4. CASE ~FindComment(p)
      <4>1. \A record \in Record : checked(p, record) =>
              /\ pub'[p].pc # "comment" /\ pub'[p].comment = pub[p].comment
              /\ pub'[p].review = pub[p].review
        BY CheckedChanges
      <4>2. /\ pub'[p].pc # "comment"
            /\ pub'[p].comment = "published" =>
                 pub[p].comment = "published" /\ pub'[p].review = pub[p].review
        BY <1>3, <2>4, <3>4, <4>1, ResolveChanges, NegotiationChanges, CheckChanges,
           FailChanges DEF Step, Keeps, Record
      <4> QED
        BY <2>2, <3>1, <3>2, <4>2 DEF CommentsOK, at
    <3> QED
      BY <3>3, <3>4
  <2> QED
    BY <2>3, <2>4
<1>4. CASE Discuss
  <2>1. \A p \in Publisher : /\ pub'[p].pc = pub[p].pc
                             /\ pub'[p].existing = pub[p].existing
                             /\ pub'[p].comment = pub[p].comment
                             /\ pub'[p].review = pub[p].review
    BY <1>4 DEF Discuss, TypeOK, Run
  <2>2. /\ marked' = marked /\ \A i \in marked : comments'[i] = comments[i]
        /\ Len(comments') >= Len(comments)
    <3>1. CASE UNCHANGED comments
      BY <1>1, <3>1 DEF marked
    <3> QED
      BY <1>4, <3>1, WithoutMarker DEF Discuss
  <2>3. Len(comments') \in Nat
    BY <1>4, <1>1 DEF Discuss, TypeOK
  <2>4. Simple
    BY <1>1, <1>4, <2>2, <2>3 DEF Discuss, Simple
  <2> QED
    BY <2>1, <2>2, <2>4 DEF CommentsOK, at
<1>5. CASE Develop \/ Minute \/ Network \/ UNCHANGED vars
  <2>1. UNCHANGED <<comments, overlap, pub>>
    BY <1>5 DEF Develop, Minute, Network, vars, host, world
  <2>2. marked' = marked /\ Simple
    BY <2>1 DEF marked, Simple
  <2> QED
    BY <2>1, <2>2 DEF CommentsOK, at
<1> QED
  BY <1>2, <1>3, <1>4, <1>5 DEF Next

\* As long as commands do not overlap, a published check is the verdict on the
\* commit, as a check run or as a status.
ChecksOK ==
  ~overlap => \A p \in Publisher : pub[p].check = "published" =>
    \/ checks[pub[p].sha] = conclusionOf(p)
    \/ statuses[pub[p].sha] = statusFor(conclusionOf(p))

LEMMA ChecksInit == Init => ChecksOK
BY DEF Init, ChecksOK, NoRun

LEMMA ChecksNext ==
  TypeOK /\ HoldsOK /\ OneRun /\ ChecksOK /\ [Next]_vars => ChecksOK'
<1> SUFFICES ASSUME TypeOK, HoldsOK, OneRun, ChecksOK, [Next]_vars, ~overlap',
                    NEW q \in Publisher, pub'[q].check = "published"
             PROVE  \/ checks'[pub'[q].sha] = conclusionOf(q)'
                    \/ statuses'[pub'[q].sha] = statusFor(conclusionOf(q))'
  BY DEF ChecksOK
<1>1. ASSUME NEW p \in Publisher, Start(p) PROVE FALSE
  <2>1. pub'[q] = pub[q] /\ ~at(q, "done")
    BY <1>1, StartChanges DEF NoRun
  <2> QED
    BY <2>1 DEF HoldsOK
<1>2. ASSUME NEW p \in Publisher, Step(p)
      PROVE  \/ checks'[pub'[q].sha] = conclusionOf(q)'
             \/ statuses'[pub'[q].sha] = statusFor(conclusionOf(q))'
  <2>1. ~overlap
    BY <1>2 DEF Step, Resolve, LoadSnapshot, FetchMetadata, FindComment, WriteComment,
         SkipCheck, WriteCheckRun, WriteStatus, Unreachable, world
  <2>2. p = q
    BY <1>2, <2>1, OthersIdle
  <2>3. pub[p].check # "published"
    BY <1>2, StepsFrom DEF HoldsOK, Step, at
  <2>4. (WriteCheckRun(p) \/ WriteStatus(p)) /\ checked(p, "published")
    <3>1. ~fail(p)
      BY <2>2, FailChanges
    <3>2. ~checked(p, "skipped")
      BY <2>2, CheckedChanges DEF Record
    <3> QED
      BY <1>2, <2>2, <2>3, <3>1, <3>2, ResolveChanges, NegotiationChanges, FindChanges,
         WriteCommentChanges, CheckChanges DEF Step, Keeps
  <2>5. pub'[p].sha = pub[p].sha /\ pub'[p].review = pub[p].review
    BY <2>4, CheckedChanges DEF Record
  <2>6. pub[p].sha \in Sha
    BY <2>4, StepsFrom DEF TypeOK, Run, HoldsOK, at
  <2>7. conclusionOf(p)' = conclusionOf(p)
    BY <2>5 DEF conclusionOf
  <2>8. CASE WriteCheckRun(p)
    <3>1. ~refused(p)
      BY <2>4, <2>8, CheckedChanges DEF WriteCheckRun, Record, TypeOK, Run
    <3>2. checks' = [checks EXCEPT ![pub[p].sha] = conclusionOf(p)]
      BY <2>8, <3>1 DEF WriteCheckRun
    <3> QED
      BY <2>2, <2>5, <2>6, <2>7, <3>2 DEF TypeOK
  <2>9. CASE WriteStatus(p)
    <3>1. ~fail(p)
      BY <2>2, FailChanges
    <3>2. statuses' = [statuses EXCEPT ![pub[p].sha] = statusFor(conclusionOf(p))]
      BY <2>9, <3>1 DEF WriteStatus
    <3>3. setting' = setting
      BY <2>9 DEF WriteStatus, world
    <3>4. statusFor(conclusionOf(p))' = statusFor(conclusionOf(p))
      BY <2>7, <3>3 DEF statusFor
    <3> QED
      BY <2>2, <2>5, <2>6, <3>2, <3>4 DEF TypeOK
  <2> QED
    BY <2>4, <2>8, <2>9
<1>3. CASE Develop \/ Discuss \/ Minute \/ Network \/ UNCHANGED vars
  <2>1. UNCHANGED <<checks, statuses, setting, overlap>>
    BY <1>3 DEF Develop, Discuss, Minute, Network, vars, host, world
  <2>2. /\ pub'[q].check = pub[q].check /\ pub'[q].sha = pub[q].sha
        /\ pub'[q].review = pub[q].review
    BY <1>3 DEF Develop, Discuss, Minute, Network, vars, TypeOK, Run
  <2>3. conclusionOf(q)' = conclusionOf(q)
    BY <2>2 DEF conclusionOf
  <2>4. statusFor(conclusionOf(q))' = statusFor(conclusionOf(q))
    BY <2>1, <2>3 DEF statusFor
  <2> QED
    BY <2>1, <2>2, <2>3, <2>4 DEF ChecksOK
<1> QED
  BY <1>1, <1>2, <1>3 DEF Next

------------------------------------------------------------------------------
(* Theorems. *)

IInv == /\ TypeOK /\ HoldsOK /\ OneRun
        /\ OverOK /\ NoLatePublish /\ CommentsOK /\ ChecksOK

LEMMA InvInit == Init => IInv
<1>1. Init => OneRun
  BY DEF Init, OneRun, at, NoRun
<1> QED
  BY <1>1, TypeInit, HoldsInit, OverInit, NoLateInit, CommentsInit, ChecksInit DEF IInv

LEMMA InvNext == IInv /\ [Next]_vars => IInv'
BY TypeNext, HoldsNext, OneRunNext, OverNext, NoLateNext, CommentsNext, ChecksNext
   DEF IInv

LEMMA Invariant == Spec => []IInv
BY InvInit, InvNext, PTL DEF Spec

\* Every variable of a publication stays in its type, for any number of commands.
THEOREM TypeCorrect == Spec => []TypeOK
BY Invariant, PTL DEF IInv

\* Nothing is written on a pull request that was over for more than a minute when
\* the command started, unless the command could not ask.
THEOREM NoLateCorrect == Spec => []NoLatePublish
BY Invariant, PTL DEF IInv

\* One comment of omni-link, and what a command reported as published is what the
\* host shows, for any number of commands that do not overlap.
THEOREM ShownCorrect == Spec => []ReviewShown
<1>1. IInv => OneComment
  <2> SUFFICES ASSUME IInv, Simple PROVE Cardinality(marked) <= 1
    BY DEF OneComment
  <2>1. marked = {} \/ \E i \in marked : marked = {i}
    BY DEF IInv, CommentsOK
  <2> QED
    BY <2>1, FS_EmptySet, FS_Singleton
<1>2. IInv => PublishedAgrees
  BY DEF IInv, CommentsOK, ChecksOK, PublishedAgrees, Simple
<1> QED
  BY <1>1, <1>2, Invariant, PTL DEF ReviewShown
=============================================================================
