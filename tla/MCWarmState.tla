---------------------------- MODULE MCWarmState ----------------------------
(* One repository whose directory, branch and worktree change. *)
EXTENDS WarmState

CONSTANTS e1, r1, h1, c1, c2, f1, f2
MCNames == [e \in Edit |-> {e}]
MCClean == [head |-> h1, edit |-> NoEdit]
\* The legacy file holds a state of the clean first commit.
MCLegacy == [man   |-> [r \in Repo |-> [files |-> MCClean, git |-> MCClean]],
             dirty |-> {}]
bounds(changes, faults, commands, flushes) ==
  [changes |-> changes, faults |-> faults,
   commands |-> commands, flushes |-> flushes]
\* The watch loop alone, with overlapping flushes; a command beside it; two
\* commands that race.
MCBounds == {bounds(2, 1, {}, {f1, f2}),
             bounds(1, 0, {c1}, {f1}), bounds(0, 1, {c1}, {f1}),
             bounds(0, 1, {c1, c2}, {})}
=============================================================================
