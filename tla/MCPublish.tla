----------------------------- MODULE MCPublish -----------------------------
(* One pull request, two commits, at both providers. *)
EXTENDS Publish

CONSTANTS p1, p2, s1, s2
MCVerdict == [s \in Sha |-> IF s = s1 THEN "neutral" ELSE "action_required"]

setting_(provider, cs, ch, mayCheck) ==
  [provider |-> provider, comments |-> cs, checks |-> ch, mayCheck |-> mayCheck]
\* A token for checks, one without, GitLab, and each half switched off.
MCSettings == {setting_("github", TRUE, TRUE, TRUE),
               setting_("github", TRUE, TRUE, FALSE),
               setting_("gitlab", TRUE, TRUE, FALSE),
               setting_("github", FALSE, TRUE, TRUE),
               setting_("gitlab", TRUE, FALSE, FALSE)}

\* One publisher with faults; two that may overlap.
MCBounds == {[events |-> 2, faults |-> 1, publishers |-> {p1}],
             [events |-> 1, faults |-> 0, publishers |-> {p1, p2}]}

\* One publisher, and somebody who closes the pull request and reopens it.
MCReopen == {[events |-> 2, faults |-> 0, publishers |-> {p1}]}
MCGitHub == {setting_("github", TRUE, TRUE, TRUE)}
=============================================================================
