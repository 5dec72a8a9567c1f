------------------------------ MODULE Publish ------------------------------
(***************************************************************************)
(* Publishing a review on a pull request: engine/index.ts publishReview,    *)
(* engine/providers (negotiation with its metadata snapshots, the GitHub    *)
(* and GitLab transports in their live modes).                              *)
(*                                                                          *)
(* Several invocations publish on one pull request, under one               *)
(* configuration, for one pair of ref names.  A review is known by the      *)
(* commit that was checked out when it was made.                            *)
(***************************************************************************)
EXTENDS Integers, Sequences, FiniteSets

CONSTANTS Publisher,  \* invocations of publish-review
          Sha,        \* commits
          Verdict,    \* commit -> the conclusion of its review
          Settings,   \* configurations with what the token may do
          PageSize,   \* comments on the one page that is asked for
          MaxComments,  \* bound: no command starts with this many comments
          Other,      \* a comment without the marker
          None,
          Bounds      \* what may happen: events around, faults, publishers

\* What may still happen.
Left == [events : Nat, faults : Nat, publishers : SUBSET Publisher]

Conclusion == {"success", "neutral", "action_required"}
Provider == {"github", "gitlab"}

ASSUME PublishAssumption ==
  /\ Verdict \in [Sha -> Conclusion]
  /\ Settings \subseteq [provider : Provider, comments : BOOLEAN,
                         checks : BOOLEAN, mayCheck : BOOLEAN]
  /\ PageSize \in Nat \ {0} /\ MaxComments \in Nat
  /\ {None, Other} \cap Sha = {} /\ None # Other
  /\ Bounds \subseteq Left

VARIABLES setting,
          local,      \* what the head ref names in the workspace
          pr,         \* the pull request at the host: state, head
          known,      \* commits the host knows
          comments,   \* its comments, oldest first: Other, or the review in it
          checks, statuses,   \* commit -> what the host shows of it, or None
          up,         \* the host answers
          snapshots,  \* commit in the signature -> metadata snapshot, or None
          pub,        \* pub[p]
          overSince,  \* history: how long the pull request has been over
          overlap,    \* history: two invocations have run at once
          left        \* what may still happen, of Bounds

host == <<pr, known, comments, checks, statuses>>
world == <<setting, local, up, overSince, overlap>>
vars == <<host, world, snapshots, pub, left>>

PrState == {"open", "closed", "merged"}
Over == {"closed", "merged"}
Metadata == [state : PrState, head : Sha]
Snapshot == [meta : Metadata, fresh : BOOLEAN]

Pc == {"idle", "resolve", "load", "fetch", "list", "comment", "check",
       "fallback", "done"}
Writing == {"list", "comment", "check", "fallback"}
Record == {"none", "published", "skipped"}
Run == [pc : Pc, review : Sha \cup {None}, sha : Sha \cup {None},
        key : Sha \cup {None}, meta : Metadata \cup {None},
        existing : Nat, comment : Record, check : Record, late : BOOLEAN]

NoRun == [pc |-> "idle", review |-> None, sha |-> None, key |-> None,
          meta |-> None, existing |-> 0, comment |-> "none", check |-> "none",
          late |-> FALSE]

Init == /\ setting \in Settings
        /\ local \in Sha
        /\ pr = [state |-> "open", head |-> local] /\ known = {local}
        /\ comments \in {<<>>, <<Other>>}
        /\ checks = [s \in Sha |-> None] /\ statuses = [s \in Sha |-> None]
        /\ up = TRUE
        /\ snapshots = [s \in Sha |-> None]
        /\ pub = [p \in Publisher |-> NoRun]
        /\ overSince = "no" /\ overlap = FALSE
        /\ left \in Bounds

at(p, pc) == pub[p].pc = pc
running(p) == pub[p].pc \notin {"idle", "done"}

\* A request fails without effect, takes effect, or takes effect and its answer
\* is lost; a failure ends the command (the promise rejects).
answered == up /\ UNCHANGED left
lost == up /\ left.faults > 0 /\ left' = [left EXCEPT !.faults = @ - 1]
fail(p) == pub' = [pub EXCEPT ![p] = [NoRun EXCEPT !.pc = "done"]]

------------------------------------------------------------------------------
(* Negotiation. *)

\* publishReview reviews the workspace as it is.  Results of ended commands are
\* forgotten.
Start(p) ==
  /\ p \in left.publishers
  /\ Len(comments) < MaxComments
  /\ ~running(p)
  /\ pub' = [q \in Publisher |->
               IF q = p THEN [NoRun EXCEPT !.pc = "resolve", !.review = local,
                                           !.late = overSince = "long"]
               ELSE IF at(q, "done") THEN NoRun ELSE pub[q]]
  /\ overlap' = (overlap \/ \E q \in Publisher \ {p} : running(q))
  /\ UNCHANGED <<host, setting, local, up, overSince, snapshots, left>>

\* The head's sha, which no repository may be able to resolve, and the branch
\* signature, both after the review.
Resolve(p) ==
  /\ at(p, "resolve")
  /\ \E sha \in {local, None} :
       pub' = [pub EXCEPT ![p].sha = sha, ![p].key = local, ![p].pc = "load"]
  /\ UNCHANGED <<host, world, snapshots, left>>

\* Mutant: a snapshot is reused whatever its age.
mayReuseAny(snapshot) == snapshot # None

\* shouldReuseProviderMetadataSnapshot: at any age when the pull request was
\* over, else for a minute.
mayReuse(snapshot) ==
  snapshot # None /\ (snapshot.meta.state \in Over \/ snapshot.fresh)

\* Where a run goes with what it knows of the pull request: nothing is written
\* on one that is over, or when the configuration wants nothing written.
\* Without metadata it goes on.  The first sha known is the target.
negotiated(run, meta) ==
  LET sha  == IF run.sha = None /\ meta # None THEN meta.head ELSE run.sha
      over == meta # None /\ meta.state \in Over
      next == CASE over -> "done"
                [] ~over /\ setting.comments -> "list"
                [] OTHER -> "check"
      skip == IF over THEN "skipped" ELSE "none"
  IN  [run EXCEPT !.meta = meta, !.sha = sha, !.pc = next,
                  !.comment = IF next = "check" THEN "skipped" ELSE skip,
                  !.check = skip]

LoadSnapshot(p) ==
  LET snapshot == snapshots[pub[p].key]
  IN  /\ at(p, "load")
      /\ pub' = [pub EXCEPT ![p] =
                   IF mayReuse(snapshot) THEN negotiated(@, snapshot.meta)
                   ELSE [@ EXCEPT !.pc = "fetch"]]
      /\ UNCHANGED <<host, world, snapshots, left>>

\* fetchLiveMetadata, which turns every failure into null, and the snapshot.
FetchMetadata(p) ==
  /\ at(p, "fetch")
  /\ IF up
     THEN /\ pub' = [pub EXCEPT ![p] = negotiated(@, pr)]
          /\ snapshots' = [snapshots EXCEPT ![pub[p].key] =
                             [meta |-> pr, fresh |-> TRUE]]
     ELSE /\ pub' = [pub EXCEPT ![p] = negotiated(@, None)]
          /\ UNCHANGED snapshots
  /\ UNCHANGED <<host, world, left>>
------------------------------------------------------------------------------
(* The comment. *)

\* The one page of comments the transport reads: GitHub lists the oldest first,
\* GitLab the newest, and the first with the marker on it is taken.
page == LET n == Len(comments)
        IN  {i \in 1..n : IF setting.provider = "github" THEN i <= PageSize
                          ELSE i > n - PageSize}
marked == {i \in 1..Len(comments) : comments[i] # Other}

existingComment ==
  LET found == page \cap marked
      first(i, j) == IF setting.provider = "github" THEN i <= j ELSE i >= j
  IN  IF found = {} THEN 0
      ELSE CHOOSE i \in found : \A j \in found : first(i, j)

\* Mutant: a listing that finds nothing ends the comment's publication.
FindCommentOnly(p) ==
  /\ at(p, "list") /\ up
  /\ pub' = [pub EXCEPT ![p].existing = existingComment,
                        ![p].pc = IF existingComment = 0 THEN "check"
                                  ELSE "comment"]
  /\ UNCHANGED <<host, world, snapshots, left>>

FindComment(p) ==
  /\ at(p, "list") /\ up
  /\ pub' = [pub EXCEPT ![p].existing = existingComment, ![p].pc = "comment"]
  /\ UNCHANGED <<host, world, snapshots, left>>

withComment(existing, review) ==
  IF existing = 0 THEN Append(comments, review)
  ELSE [comments EXCEPT ![existing] = review]

\* Mutant: every publish posts a comment of its own.
PostComment(p) ==
  /\ at(p, "comment")
  /\ comments' = withComment(0, pub[p].review)
  /\ \/ /\ answered
        /\ pub' = [pub EXCEPT ![p].comment = "published", ![p].pc = "check"]
     \/ lost /\ fail(p)
  /\ UNCHANGED <<pr, known, checks, statuses, world, snapshots>>

\* POST, or PATCH of the comment found.
WriteComment(p) ==
  /\ at(p, "comment")
  /\ comments' = withComment(pub[p].existing, pub[p].review)
  /\ \/ /\ answered
        /\ pub' = [pub EXCEPT ![p].comment = "published", ![p].pc = "check"]
     \/ lost /\ fail(p)
  /\ UNCHANGED <<pr, known, checks, statuses, world, snapshots>>

------------------------------------------------------------------------------
(* The check. *)

\* Mutant: the conclusion is posted as it is.
statusAsIs(conclusion) == conclusion

\* gitHubStatusForConclusion, gitLabStatusForConclusion
statusFor(conclusion) ==
  CASE conclusion = "success" -> "success"
    [] conclusion = "neutral" -> "pending"
    [] OTHER -> IF setting.provider = "github" THEN "failure" ELSE "failed"

conclusionOf(p) == Verdict[pub[p].review]

checked(p, record) ==
  pub' = [pub EXCEPT ![p].check = record, ![p].pc = "done"]

SkipCheck(p) ==
  /\ at(p, "check")
  /\ ~setting.checks \/ pub[p].sha = None
  /\ checked(p, "skipped")
  /\ UNCHANGED <<host, world, snapshots, left>>

wantsCheck(p) == at(p, "check") /\ setting.checks /\ pub[p].sha # None

Unreachable(p) ==
  /\ ~up
  /\ pub[p].pc \in {"list", "comment", "fallback"} \/ wantsCheck(p)
  /\ fail(p)
  /\ UNCHANGED <<host, world, snapshots, left>>

\* The check-runs endpoint refuses a token that may not write checks (403) and
\* a commit it does not know (422).
refused(p) == ~setting.mayCheck \/ pub[p].sha \notin known

WriteCheckRun(p) ==
  /\ wantsCheck(p) /\ setting.provider = "github"
  /\ IF refused(p)
     THEN /\ answered
          /\ pub' = [pub EXCEPT ![p].pc = "fallback"]
          /\ UNCHANGED checks
     ELSE /\ checks' = [checks EXCEPT ![pub[p].sha] = conclusionOf(p)]
          /\ (answered /\ checked(p, "published")) \/ (lost /\ fail(p))
  /\ UNCHANGED <<pr, known, comments, statuses, world, snapshots>>

\* GitLab's only way, and the fallback at GitHub.
posts(p) == \/ wantsCheck(p) /\ setting.provider = "gitlab"
            \/ at(p, "fallback")

WriteStatus(p) ==
  /\ posts(p) /\ up
  /\ IF pub[p].sha \in known
     THEN /\ statuses' = [statuses EXCEPT
                            ![pub[p].sha] = statusFor(conclusionOf(p))]
          /\ (answered /\ checked(p, "published")) \/ (lost /\ fail(p))
     ELSE answered /\ fail(p) /\ UNCHANGED statuses
  /\ UNCHANGED <<pr, known, comments, checks, world, snapshots>>

------------------------------------------------------------------------------
(* Around the commands. *)

spend == left.events > 0 /\ left' = [left EXCEPT !.events = @ - 1]

\* The developer commits or checks something out, and pushes.
Develop ==
  /\ spend
  /\ \/ /\ local' \in Sha \ {local}
        /\ UNCHANGED <<pr, known>>
     \/ /\ pr.state = "open" /\ pr.head # local
        /\ pr' = [pr EXCEPT !.head = local] /\ known' = known \cup {local}
        /\ UNCHANGED local
  /\ UNCHANGED <<comments, checks, statuses, setting, up, overSince, overlap,
                 snapshots, pub>>

\* Others close, merge or reopen the pull request, or comment on it.
Discuss ==
  /\ spend
  /\ \/ /\ pr.state = "open"
        /\ \E state \in Over : pr' = [pr EXCEPT !.state = state]
        /\ overSince' = "recent"
        /\ UNCHANGED <<comments, pub>>
     \/ /\ pr.state = "closed"
        /\ pr' = [pr EXCEPT !.state = "open"]
        /\ overSince' = "no"
        /\ pub' = [p \in Publisher |-> [pub[p] EXCEPT !.late = FALSE]]
        /\ UNCHANGED comments
     \/ /\ comments' = Append(comments, Other)
        /\ UNCHANGED <<pr, overSince, pub>>
  /\ UNCHANGED <<known, checks, statuses, setting, local, up, overlap, snapshots>>

\* More than the minute of freshness passes.
Minute ==
  /\ snapshots' = [s \in Sha |-> IF snapshots[s] = None THEN None
                                 ELSE [snapshots[s] EXCEPT !.fresh = FALSE]]
  /\ overSince' = IF overSince = "recent" THEN "long" ELSE overSince
  /\ UNCHANGED <<host, setting, local, up, overlap, pub, left>>

\* The host, or the way to it, fails and comes back.
Network ==
  /\ up' = ~up
  /\ left' = IF up THEN [left EXCEPT !.faults = @ - 1] ELSE left
  /\ up => left.faults > 0
  /\ UNCHANGED <<host, setting, local, overSince, overlap, snapshots, pub>>

Step(p) == \/ Resolve(p) \/ LoadSnapshot(p) \/ FetchMetadata(p)
           \/ FindComment(p) \/ WriteComment(p)
           \/ SkipCheck(p) \/ WriteCheckRun(p) \/ WriteStatus(p)
           \/ Unreachable(p)

Next == \/ \E p \in Publisher : Start(p) \/ Step(p)
        \/ Develop \/ Discuss \/ Minute \/ Network

\* A command that was started goes on.  Nobody has to start one.
Spec == Init /\ [][Next]_vars /\ \A p \in Publisher : WF_vars(Step(p))

------------------------------------------------------------------------------
(* Properties. *)

\* Every variable stays in its type.
TypeOK == /\ setting \in Settings /\ local \in Sha
          /\ pr \in Metadata /\ known \subseteq Sha /\ pr.head \in known
          /\ comments \in Seq(Sha \cup {Other})
          /\ checks \in [Sha -> Conclusion \cup {None}]
          /\ statuses \in [Sha -> {"success", "pending", "failure", "failed",
                                   None}]
          /\ up \in BOOLEAN /\ overlap \in BOOLEAN
          /\ snapshots \in [Sha -> Snapshot \cup {None}]
          /\ pub \in [Publisher -> Run]
          /\ overSince \in {"no", "recent", "long"}
          /\ left \in Left

\* What one page covers, and no two commands at once.
Simple == ~overlap /\ Len(comments) <= PageSize

\* However often a review is published, retries after lost answers included,
\* the pull request has one comment of omni-link (README.md:33, idempotent
\* comment updates), if commands do not overlap and one page has all comments.
OneComment == Simple => Cardinality(marked) <= 1

\* What a command reports as published is what the host shows until another
\* command starts: its comment and the verdict on its commit, as a check run or
\* as a status.  (A push between the two attempts leaves a status where the next
\* command writes a check run.)
PublishedAgrees ==
  \A p \in Publisher : at(p, "done") /\ Simple =>
    /\ pub[p].comment = "published" =>
         \A i \in marked : comments[i] = pub[p].review
    /\ pub[p].check = "published" =>
         \/ checks[pub[p].sha] = conclusionOf(p)
         \/ statuses[pub[p].sha] = statusFor(conclusionOf(p))

\* The review is shown, once: both of the above.
ReviewShown == OneComment /\ PublishedAgrees

\* Nothing is written on a pull request that was over a minute before the
\* command started, unless the command could not ask (commands/publish-review.md,
\* skip closed, merged, or locked review targets; the freshness of snapshots).
NoLatePublish ==
  \A p \in Publisher : pub[p].late /\ pub[p].pc \in Writing =>
    pub[p].meta = None

\* Nothing stands in the way of a publish: no snapshot from when the pull request
\* was over is kept for this commit, which is the pull request's head.
Clear == /\ up /\ pr.state = "open" /\ pr.head = local
         /\ setting.comments
         /\ snapshots[local] # None => snapshots[local].meta.state \notin Over

\* When commands keep being run and nothing stands in the way, the comment comes
\* to be that of the present head, whatever failed before.
PublishLands ==
  \A p \in Publisher :
    (/\ <>[](Simple /\ Clear)
     /\ []<>at(p, "resolve"))
    => <>[](\E i \in marked : comments[i] = local)

\* The same whatever snapshots are kept: an open pull request is published on
\* (commands/publish-review.md:23, metadata is fetched before publish).
ReopenedIsPublished ==
  \A p \in Publisher :
    (/\ <>[](Simple /\ up /\ pr.state = "open" /\ pr.head = local
             /\ setting.comments)
     /\ []<>at(p, "resolve"))
    => <>[](\E i \in marked : comments[i] = local)
=============================================================================
