------------------------------ MODULE Context ------------------------------
(***************************************************************************)
(* From a graph to the digest that is injected into a session: the graph   *)
(* is pruned to the token budget, then the digest is rendered again and    *)
(* again with less in it until it fits.  And the optimizer of ruflo, which *)
(* thins a list of texts.  An item is given by its cost in tokens, a text  *)
(* by its words, its length and what its patterns score.                   *)
(***************************************************************************)
EXTENDS Integers, Sequences, FiniteSets, Subsequences, Reductions

CONSTANTS
  GraphInput,   \* [sections, conventions, kept, prioritize, focus, budget, hasRepos]
  DigestInput,  \* [costs, commits, evolution, parts, budget]
  TextInput     \* [sections, budget]: texts [label, words, chars, squeezed, score]

VARIABLES
  pruner,    \* pruneToTokenBudget: where it is, what is left of each section, the total
  digest,    \* formatDigest: what the markdown shows
  optimizer  \* the texts and the result

Idle == [pc |-> "idle"]   \* a variable of a part that a behaviour is not about

contextVars == <<pruner, digest, optimizer>>

lastOf(s) == s[Len(s)]

------------------------------------------------------------------------------
(* Pruning.  A section is the list of its costs in the order of the list; a
   section that every repository has is the list of the last repository first,
   so that the item trimmed next is at its end. *)

Section == {"commits", "sharedTypes", "types", "bridges", "impactPaths", "routes"}

\* The order of the phases; focus defers what the caller cares about.  Routes it need
\* not defer: without it they are the last as well.
phases(prioritize, focus) ==
  LET third == IF prioritize = "changed-files-first" THEN <<"sharedTypes", "types", "bridges">>
               ELSE <<"types", "bridges", "sharedTypes">>
  IN IF focus = "commits"
     THEN <<"conventions", third[1], third[2], third[3], "impactPaths", "routes", "commits">>
     ELSE <<"commits", "conventions", third[1], third[2], third[3], "impactPaths", "routes">>

\* Authority, findings and mismatches are counted and never trimmed.
computeTotalTokens(sections, conventions, kept) ==
  sum(sections["commits"]) + sum(sections["sharedTypes"]) + sum(sections["types"])
  + sum(sections["bridges"]) + sum(sections["impactPaths"]) + sum(sections["routes"])
  + conventions + kept

ASSUME GraphAssumption ==
  \A g \in GraphInput :
    /\ g.sections \in [Section -> Seq(Nat)]
    /\ g.conventions \in [full : Nat, bare : Nat]
    /\ g.kept \in Nat /\ g.budget \in Nat /\ g.hasRepos \in BOOLEAN

PrunerInit ==
  \E g \in GraphInput :
    pruner = [graph |-> g, pc |-> "start", phase |-> 1, sections |-> g.sections,
              conventions |-> g.conventions.full, total |-> 0, dropped |-> <<>>]

StartPruning ==
  LET g == pruner.graph
      total == computeTotalTokens(g.sections, g.conventions.full, g.kept)
      empty == ~g.hasRepos /\ g.sections["bridges"] = <<>>
  IN /\ pruner.pc = "start"
     /\ pruner' = [pruner EXCEPT !.total = IF empty THEN 0 ELSE total,
                                 !.pc = IF empty \/ total <= g.budget THEN "done" ELSE "trim"]
     /\ UNCHANGED <<digest, optimizer>>

phaseNow == phases(pruner.graph.prioritize, pruner.graph.focus)[pruner.phase]
over == pruner.total > pruner.graph.budget

\* Mutant: the item at the front is taken, its cost is that of the last.
TrimFirst ==
  /\ pruner.pc = "trim" /\ over /\ phaseNow # "conventions" /\ pruner.sections[phaseNow] # <<>>
  /\ LET removed == lastOf(pruner.sections[phaseNow])
     IN pruner' = [pruner EXCEPT !.sections[phaseNow] = Tail(@), !.total = @ - removed,
                                 !.dropped = Append(@, [section |-> phaseNow, cost |-> removed])]
  /\ UNCHANGED <<digest, optimizer>>

\* One turn of a section's loop.
TrimItem ==
  /\ pruner.pc = "trim" /\ over /\ phaseNow # "conventions" /\ pruner.sections[phaseNow] # <<>>
  /\ LET left == pruner.sections[phaseNow]
         removed == lastOf(left)
         front == SubSeq(left, 1, Len(left) - 1)
     IN pruner' = [pruner EXCEPT !.sections[phaseNow] = front, !.total = @ - removed,
                                 !.dropped = Append(@, [section |-> phaseNow, cost |-> removed])]
  /\ UNCHANGED <<digest, optimizer>>

\* The conventions of all repositories at once, and only if still over.
TrimConventions ==
  /\ pruner.pc = "trim" /\ phaseNow = "conventions"
  /\ LET saved == pruner.conventions - pruner.graph.conventions.bare IN
     pruner' = [pruner EXCEPT !.phase = @ + 1,
                 !.conventions = IF over THEN pruner.graph.conventions.bare ELSE @,
                 !.total = IF over THEN @ - saved ELSE @,
                 !.dropped = IF over THEN Append(@, [section |-> "conventions", cost |-> saved])
                             ELSE @]
  /\ UNCHANGED <<digest, optimizer>>

\* The phase is over; after the last one the total is computed again.
NextPhase ==
  LET last == pruner.phase = Len(phases(pruner.graph.prioritize, pruner.graph.focus))
  IN /\ pruner.pc = "trim" /\ phaseNow # "conventions"
     /\ ~over \/ pruner.sections[phaseNow] = <<>>
     /\ pruner' =
          IF last THEN [pruner EXCEPT !.pc = "done",
                         !.total = computeTotalTokens(pruner.sections, pruner.conventions,
                                                      pruner.graph.kept)]
          ELSE [pruner EXCEPT !.phase = @ + 1]
     /\ UNCHANGED <<digest, optimizer>>

pruneToTokenBudget == StartPruning \/ TrimItem \/ TrimConventions \/ NextPhase

------------------------------------------------------------------------------
(* The digest.  Commits are those of the graph before it was pruned. *)

\* The parts that may be left out, in that order; an empty diagram is none.
Part == <<"diagram", "types", "routes", "details">>

ASSUME DigestAssumption ==
  \A d \in DigestInput : d.commits \in Nat /\ d.evolution \in Nat /\ d.parts \in Seq({Part[i] : i \in 1 .. 4})

DigestInit ==
  \E d \in DigestInput :
    digest = [input |-> d, pc |-> "loop", commits |-> d.commits, evolution |-> d.evolution,
              parts |-> d.parts, mode |-> "full", cut |-> FALSE]

\* Tokens of the markdown.
renderMarkdown(d) ==
  LET c == d.input.costs
  IN IF d.mode = "full" THEN c.full + c.commit * d.commits + c.suggestion * d.evolution
                             + sum([i \in DOMAIN d.parts |-> c.part[d.parts[i]]])
     ELSE IF d.mode = "compact" THEN c.compact
     ELSE c.minimal + (IF d.evolution > 0 THEN c.suggestion ELSE 0)

\* What goes next: the oldest commit, the last suggestion, a part, the layout.
shrink(d) ==
  IF d.commits > 0 THEN [d EXCEPT !.commits = @ - 1]
  ELSE IF d.evolution > 0 THEN [d EXCEPT !.evolution = @ - 1]
  ELSE IF d.parts # <<>> THEN [d EXCEPT !.parts = Tail(@)]
  ELSE [d EXCEPT !.mode = IF @ = "full" THEN "compact" ELSE "minimal"]

tooLong(d) == renderMarkdown(d) > d.input.budget

\* One turn of the loop; what is too long in the end is cut by its length.
formatDigest ==
  /\ digest.pc = "loop"
  /\ digest' = IF ~tooLong(digest) THEN [digest EXCEPT !.pc = "done"]
               ELSE IF digest.mode # "minimal" THEN shrink(digest)
               ELSE [digest EXCEPT !.pc = "done", !.cut = TRUE]
  /\ UNCHANGED <<pruner, optimizer>>

------------------------------------------------------------------------------
(* The optimizer. *)

estimateTokens(chars) == (chars + 3) \div 4

TextRecord == [label : STRING, words : SUBSET STRING, chars : Nat, squeezed : Nat, score : Nat]

\* At least 0.85 of the words in common.
nearDuplicate(s, t) ==
  20 * Cardinality(s.words \cap t.words) >= 17 * Cardinality(s.words \cup t.words)

\* One text after the other: its position is kept unless one kept before is close to it.
distinct(texts) ==
  LET upto[n \in 0 .. Len(texts)] ==
        IF n = 0 THEN {}
        ELSE IF \E i \in upto[n - 1] : nearDuplicate(texts[i], texts[n]) THEN upto[n - 1]
        ELSE upto[n - 1] \cup {n}
  IN upto[Len(texts)]

deduplicate(texts) == Subsequence(texts, distinct(texts))

compress(texts) == [i \in DOMAIN texts |-> [texts[i] EXCEPT !.chars = texts[i].squeezed]]

\* A score below 0.1, in tenths.
filterByRelevance(texts) == Subsequence(texts, {i \in DOMAIN texts : texts[i].score >= 1})

MaxContentLength == 40   \* 50000
Mark == 13               \* the length of the truncation mark

truncateLong(texts) ==
  [i \in DOMAIN texts |->
     [texts[i] EXCEPT !.chars = IF @ <= MaxContentLength THEN @ ELSE MaxContentLength + Mark]]

tokensOf(texts) == sum([i \in DOMAIN texts |-> estimateTokens(texts[i].chars)])

\* What a strategy says it saved: the tokens of what it dropped, and the
\* difference for what it shortened.
savedBy(before, after) ==
  IF Len(before) = Len(after)
  THEN sum([i \in DOMAIN before |->
              estimateTokens(before[i].chars) - estimateTokens(after[i].chars)])
  ELSE sum([i \in DOMAIN before |->
              IF \E j \in DOMAIN after : after[j].label = before[i].label
              THEN 0 ELSE estimateTokens(before[i].chars)])

optimize(texts) ==
  LET deduped == deduplicate(texts)
      compressed == compress(deduped)
      filtered == filterByRelevance(compressed)
      truncated == truncateLong(filtered)
  IN [content |-> truncated, original |-> tokensOf(texts), optimized |-> tokensOf(truncated),
      saved |-> <<savedBy(texts, deduped), savedBy(deduped, compressed),
                  savedBy(compressed, filtered), savedBy(filtered, truncated)>>]

\* A section gets its share of the budget; one that stays too long is cut to it
\* and marked.
optimizeForDigest(sections, budget) ==
  LET total == tokensOf(sections)
      share(s) == (estimateTokens(s.chars) * budget) \div total
      shorter(s) == LET o == optimize(<<s>>).content
                    IN IF o = <<>> THEN 0 ELSE o[1].chars
      cut(s) == LET most == 4 * share(s)
                IN 1 + (IF shorter(s) < most THEN shorter(s) ELSE most)
  IN IF total <= budget THEN sections
     ELSE [i \in DOMAIN sections |->
             LET s == sections[i]
             IN [s EXCEPT !.chars =
                   IF estimateTokens(s.chars) <= share(s) THEN s.chars
                   ELSE IF estimateTokens(shorter(s)) <= share(s) THEN shorter(s)
                   ELSE cut(s)]]

\* A label tells a text from the others.
ASSUME TextAssumption ==
  \A t \in TextInput :
    /\ t.budget \in Nat /\ t.sections \in Seq(TextRecord)
    /\ \A i, j \in DOMAIN t.sections : t.sections[i].label = t.sections[j].label => i = j
    /\ \A i \in DOMAIN t.sections : IsFiniteSet(t.sections[i].words)

OptimizerInit ==
  \E t \in TextInput : optimizer = [input |-> t, pc |-> "start", result |-> <<>>, sections |-> <<>>]

Optimize ==
  /\ optimizer.pc = "start"
  /\ optimizer' = [optimizer EXCEPT
       !.pc = "done", !.result = optimize(optimizer.input.sections),
       !.sections = optimizeForDigest(optimizer.input.sections, optimizer.input.budget)]
  /\ UNCHANGED <<pruner, digest>>

\* A behaviour is about one of the three.
ContextInit ==
  \/ PrunerInit /\ digest = Idle /\ optimizer = Idle
  \/ DigestInit /\ pruner = Idle /\ optimizer = Idle
  \/ OptimizerInit /\ pruner = Idle /\ digest = Idle

ContextNext == pruneToTokenBudget \/ formatDigest \/ Optimize

ContextSpec == ContextInit /\ [][ContextNext]_contextVars

------------------------------------------------------------------------------
(* Properties. *)

\* What pruning gives fits or has nothing left to trim; the running total was
\* the true one all along; a section keeps its head, and is only touched when all that
\* go before it are gone; and the last item trimmed had to go.
PrunedFits ==
  LET g == pruner.graph
      order == phases(g.prioritize, g.focus)
      trimmed == {i \in DOMAIN order : order[i] # "conventions"}
      all(i) == g.sections[order[i]]
      left(i) == pruner.sections[order[i]]
  IN pruner.pc # "idle" =>
     /\ pruner.pc \in {"trim", "done"} /\ (g.hasRepos \/ g.sections["bridges"] # <<>>) =>
          pruner.total = computeTotalTokens(pruner.sections, pruner.conventions, g.kept)
     /\ \A i \in trimmed :
          /\ Len(left(i)) <= Len(all(i)) /\ left(i) = SubSeq(all(i), 1, Len(left(i)))
          /\ left(i) # all(i) => \A j \in trimmed : j < i => left(j) = <<>>
     /\ pruner.pc = "done" =>
          /\ over => \A s \in Section : pruner.sections[s] = <<>>
          /\ pruner.dropped # <<>> /\ lastOf(pruner.dropped).section # "conventions" =>
               pruner.total + lastOf(pruner.dropped).cost > g.budget

\* The digest with what was left out last put back.
putBack(d) ==
  IF d.mode = "minimal" THEN [d EXCEPT !.mode = "compact"]
  ELSE IF d.mode = "compact" THEN [d EXCEPT !.mode = "full"]
  ELSE IF d.parts # d.input.parts
  THEN LET all == d.input.parts
       IN [d EXCEPT !.parts = SubSeq(all, Len(all) - Len(d.parts), Len(all))]
  ELSE IF d.evolution < d.input.evolution THEN [d EXCEPT !.evolution = @ + 1]
  ELSE [d EXCEPT !.commits = @ + 1]

\* The digest that comes out fits, or is the smallest there is, cut by length; with
\* what was left out last it was too long, and so was the whole; a part goes
\* only when nothing of what goes before it is left.
DigestFits ==
  LET d == digest
      whole == [d EXCEPT !.commits = d.input.commits, !.evolution = d.input.evolution,
                         !.parts = d.input.parts, !.mode = "full"]
      complete == d.commits = d.input.commits /\ d.evolution = d.input.evolution
                  /\ d.parts = d.input.parts /\ d.mode = "full"
  IN d.pc = "done" =>
       /\ IF d.cut THEN d.mode = "minimal" ELSE ~tooLong(d)
       /\ ~complete => tooLong(putBack(d)) /\ tooLong(whole)
       /\ d.mode # "full" => d.parts = <<>>
       /\ d.parts # d.input.parts \/ d.mode # "full" => d.evolution = 0 /\ d.commits = 0
       /\ d.evolution # d.input.evolution => d.commits = 0

\* The strategies account for every token saved; what deduplication drops has a
\* near duplicate among what it keeps, which holds no two; and sections keep
\* their place and exceed the budget by no more than their marks.
OptimizerAddsUp ==
  LET r == optimizer.result
      texts == optimizer.input.sections
      deduped == deduplicate(texts)
  IN optimizer.pc = "done" =>
       /\ r.original - r.optimized = sum(r.saved)
       /\ \A i \in DOMAIN texts : \E j \in DOMAIN deduped : nearDuplicate(deduped[j], texts[i])
       /\ \A i, j \in DOMAIN deduped : i # j => ~nearDuplicate(deduped[i], deduped[j])
       /\ [i \in DOMAIN texts |-> optimizer.sections[i].label] = [i \in DOMAIN texts |-> texts[i].label]
       /\ tokensOf(optimizer.sections) <= optimizer.input.budget + Len(texts)

\* The pruner, the digest and the optimizer keep to their budget and give up no
\* more than it takes, in the order they promise: the three above.
ContextFits == PrunedFits /\ DigestFits /\ OptimizerAddsUp
=============================================================================
