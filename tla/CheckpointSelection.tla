-------------------------- MODULE CheckpointSelection --------------------------
(***************************************************************************)
(* Which checkpoint of a training run is selected: the frozen early        *)
(* stopping (python/junctionlens/model/selection.py) as the loop it is,    *)
(* one score at a time, and the choice among the epochs it leaves          *)
(* (select_e0_checkpoint, select_e1_checkpoint).                           *)
(*                                                                         *)
(* The loop keeps a best score and a counter; what the recipe declares is  *)
(* a window over the whole series.  The properties relate the two.         *)
(***************************************************************************)
EXTENDS Integers, FiniteSets

CONSTANTS
    MaxEpoch,      \* bound: epochs with a score
    MinimumEpoch,  \* minimum_epoch of the recipe
    Patience,      \* patience of the recipe
    Topology, Official, Nll  \* the values the three metrics take

Epoch == 1..MaxEpoch
Score == [topology : Topology, official : Official, nll : Nll]

ASSUME SelectionConstants ==
    /\ MaxEpoch \in Nat \ {0}
    /\ MinimumEpoch \in Nat \ {0} /\ Patience \in Nat \ {0}
    /\ Topology \subseteq Int /\ Official \subseteq Int /\ Nll \subseteq Int

VARIABLES
    scored,    \* the epochs in scores.json
    score,     \* their scores
    pc,        \* "loop", "choose", "done" or "raised"
    index,     \* scores the loop has seen
    best,      \* the epoch of best_key, 0 before the first score
    stale,     \* consecutive scores without improvement
    eligible,  \* eligible_count
    selected   \* the epoch in the selection receipt

vars == <<scored, score, pc, index, best, stale, eligible, selected>>

\* score_order: the key of epoch e is less than that of epoch d.
Better(e, d) ==
    \/ score[e].topology > score[d].topology
    \/ /\ score[e].topology = score[d].topology
       /\ \/ score[e].official > score[d].official
          \/ /\ score[e].official = score[d].official
             /\ \/ score[e].nll < score[d].nll
                \/ score[e].nll = score[d].nll /\ e < d

Init ==
    /\ scored \in (SUBSET Epoch) \ {{}}
    /\ score \in [scored -> Score]
    /\ pc = "loop"
    /\ index = 0 /\ best = 0 /\ stale = 0
    /\ eligible = Cardinality(scored)
    /\ selected = 0

Consecutive == scored = 1..Cardinality(scored)

\* "checkpoint selection scores must be consecutive from epoch one"
Raise ==
    /\ pc = "loop" /\ index = 0
    /\ ~Consecutive
    /\ pc' = "raised"
    /\ UNCHANGED <<scored, score, index, best, stale, eligible, selected>>

Improved(e) == best = 0 \/ Better(e, best)

\* Seeded bug: the loop goes one epoch too far.
SeeOneMore ==
    /\ pc = "loop" /\ Consecutive
    /\ index < Cardinality(scored)
    /\ index' = index + 1
    /\ best' = IF Improved(index') THEN index' ELSE best
    /\ stale' = IF index' < MinimumEpoch THEN stale ELSE IF Improved(index') THEN 0 ELSE stale + 1
    /\ IF index' >= MinimumEpoch /\ stale' > Patience
       THEN eligible' = index' /\ pc' = "choose"
       ELSE UNCHANGED <<eligible, pc>>
    /\ UNCHANGED <<scored, score, selected>>

\* One round of the loop.
See ==
    /\ pc = "loop" /\ Consecutive
    /\ index < Cardinality(scored)
    /\ index' = index + 1
    /\ best' = IF Improved(index') THEN index' ELSE best
    /\ stale' = IF index' < MinimumEpoch THEN stale ELSE IF Improved(index') THEN 0 ELSE stale + 1
    /\ IF index' >= MinimumEpoch /\ stale' >= Patience
       THEN eligible' = index' /\ pc' = "choose"
       ELSE UNCHANGED <<eligible, pc>>
    /\ UNCHANGED <<scored, score, selected>>

EndOfScores ==
    /\ pc = "loop" /\ Consecutive
    /\ index = Cardinality(scored)
    /\ pc' = "choose"
    /\ UNCHANGED <<scored, score, index, best, stale, eligible, selected>>

\* Seeded bug: the choice is made among all scores.
ChooseOfAll ==
    /\ pc = "choose"
    /\ \E e \in scored :
         /\ \A d \in scored : d = e \/ Better(e, d)
         /\ selected' = e
    /\ pc' = "done"
    /\ UNCHANGED <<scored, score, index, best, stale, eligible>>

\* min(eligible, key=score_order)
Choose ==
    /\ pc = "choose"
    /\ \E e \in 1..eligible :
         /\ \A d \in 1..eligible : d = e \/ Better(e, d)
         /\ selected' = e
    /\ pc' = "done"
    /\ UNCHANGED <<scored, score, index, best, stale, eligible>>

Next == Raise \/ See \/ EndOfScores \/ Choose

Spec == Init /\ [][Next]_vars

-----------------------------------------------------------------------------

TypeOK ==
    /\ scored \in (SUBSET Epoch) \ {{}} /\ score \in [scored -> Score]
    /\ pc \in {"loop", "choose", "done", "raised"}
    /\ index \in 0..MaxEpoch /\ best \in 0..index /\ stale \in 0..Patience
    /\ eligible \in Epoch /\ selected \in 0..MaxEpoch

\* BUILD_PLAN.md:969: patience is exhausted at epoch e when the last Patience epochs,
\* none of them before the minimum, all fall short of some epoch before them.
Exhausted(e) ==
    /\ e >= MinimumEpoch + Patience - 1
    /\ \E b \in 1..(e - Patience) : \A d \in (e - Patience + 1)..e : Better(b, d)

\* The loop stops at the first epoch at which patience is exhausted, or sees all.
StopsAtFirstExhaustion ==
    pc \in {"choose", "done"} =>
        /\ \A e \in 1..(eligible - 1) : ~Exhausted(e)
        /\ Exhausted(eligible) \/ eligible = Cardinality(scored)

\* The receipt's epoch is the best of the eligible ones, the earliest of equals.
SelectsBest ==
    pc = "done" => /\ selected \in 1..eligible
                   /\ \A d \in 1..eligible : d = selected \/ Better(selected, d)

\* The loop invariant: best is the best so far, stale counts the epochs since it, or
\* since the minimum epoch where that is later, and no epoch seen exhausted patience
\* but the one the loop stopped at.
SelectionInv ==
    /\ TypeOK
    /\ index > 0 \/ pc \notin {"loop", "raised"} => Consecutive
    /\ index <= Cardinality(scored)
    /\ index > 0 => best > 0
    /\ \A d \in 1..index : d = best \/ Better(best, d)
    /\ stale = IF index < MinimumEpoch THEN 0
               ELSE IF best < MinimumEpoch THEN index - MinimumEpoch + 1 ELSE index - best
    /\ pc = "loop" => /\ eligible = Cardinality(scored) /\ stale < Patience
                      /\ \A e \in 1..index : ~Exhausted(e)
    /\ pc \in {"choose", "done"} => index = eligible
    /\ StopsAtFirstExhaustion
    /\ SelectsBest
=============================================================================
