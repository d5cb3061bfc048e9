--------------------------- MODULE DerivationProofs ---------------------------
(***************************************************************************)
(* Theorems about what the system derives from documents it is given:      *)
(* CheckpointSelection derives the selected epoch from every series of     *)
(* scores, EvidencePublication what it hands out from every store,         *)
(* CustomEvaluator the association and the metrics from every request,     *)
(* frame and segment, GraphContract a graph from every model output, and   *)
(* SourceTransfer a workspace from every checkout.                         *)
(***************************************************************************)
EXTENDS CheckpointSelection, Derivations, FiniteSetTheorems, TLAPS

\* What is absent is no function, and so no record and no sequence.
NoneIsNoFunction == \A f : f = [x \in DOMAIN f |-> f[x]] => f # None

-----------------------------------------------------------------------------
(* The selection of a checkpoint. *)

\* The number of scores of a series.
LEMMA CountType ==
    ASSUME scored \in (SUBSET Epoch) \ {{}}
    PROVE  Cardinality(scored) \in Epoch
<1>1. IsFiniteSet(Epoch) /\ Cardinality(Epoch) = MaxEpoch
  BY FS_Interval, SelectionConstants DEF Epoch
<1>2. IsFiniteSet(scored) /\ Cardinality(scored) <= MaxEpoch
  BY <1>1, FS_Subset
<1>3. Cardinality(scored) \in Nat /\ Cardinality(scored) # 0
  BY <1>2, FS_CardinalityType, FS_EmptySet
<1> QED
  BY <1>2, <1>3, SelectionConstants DEF Epoch

\* The keys of the epochs are strictly ordered: one of two is better, not both, and
\* what is better than a better one is better.
LEMMA BetterIsTotal ==
    ASSUME NEW d \in Int, NEW e \in Int, score[d] \in Score, score[e] \in Score
    PROVE  (d = e \/ Better(d, e) \/ Better(e, d)) /\ ~(Better(d, e) /\ Better(e, d))
<1>1. /\ score[d].topology \in Int /\ score[d].official \in Int /\ score[d].nll \in Int
      /\ score[e].topology \in Int /\ score[e].official \in Int /\ score[e].nll \in Int
  BY SelectionConstants DEF Score
<1>2. d = e \/ Better(d, e) \/ Better(e, d)
  BY <1>1 DEF Better
<1>3. ~(Better(d, e) /\ Better(e, d))
  BY <1>1 DEF Better
<1> QED
  BY <1>2, <1>3

\* What is better than a better one is better.
LEMMA BetterIsTransitive ==
    ASSUME NEW d \in Int, NEW e \in Int, NEW f \in Int,
           score[d] \in Score, score[e] \in Score, score[f] \in Score,
           Better(d, e), Better(e, f)
    PROVE  Better(d, f)
<1>1. /\ score[d].topology \in Int /\ score[d].official \in Int /\ score[d].nll \in Int
      /\ score[e].topology \in Int /\ score[e].official \in Int /\ score[e].nll \in Int
      /\ score[f].topology \in Int /\ score[f].official \in Int /\ score[f].nll \in Int
  BY SelectionConstants DEF Score
<1> QED
  BY <1>1 DEF Better

\* Nothing is seen, stopped at or selected at first.
LEMMA InitInv == Init => SelectionInv
<1> SUFFICES ASSUME Init PROVE SelectionInv
  OBVIOUS
<1>1. Cardinality(scored) \in Epoch
  BY CountType DEF Init
<1>2. TypeOK
  BY <1>1, SelectionConstants DEF Init, TypeOK, Epoch
<1> QED
  BY <1>1, <1>2, SelectionConstants
     DEF Init, SelectionInv, StopsAtFirstExhaustion, SelectsBest, Epoch

\* Whether patience is exhausted at epoch i is what the counter says, when b is the
\* best epoch up to i and n is the counter.
LEMMA StaleIsWindow ==
    ASSUME NEW i \in Nat \ {0}, NEW b \in 1..i, NEW n \in Int,
           \A e \in 1..i : score[e] \in Score,
           \A d \in 1..i : d = b \/ Better(b, d),
           i >= MinimumEpoch,
           n = IF b < MinimumEpoch THEN i - MinimumEpoch + 1 ELSE i - b
    PROVE  Exhausted(i) <=> n >= Patience
<1> USE SelectionConstants
<1>1. ASSUME n >= Patience PROVE Exhausted(i)
  <2>1. b \in 1..(i - Patience) /\ i >= MinimumEpoch + Patience - 1
    BY <1>1
  <2>2. \A d \in (i - Patience + 1)..i : Better(b, d)
    BY <2>1
  <2> QED
    BY <2>1, <2>2 DEF Exhausted
<1>2. ASSUME Exhausted(i) PROVE n >= Patience
  <2>1. PICK c \in 1..(i - Patience) : \A d \in (i - Patience + 1)..i : Better(c, d)
    BY <1>2 DEF Exhausted
  <2>2. b <= i - Patience
    <3>1. SUFFICES ASSUME b > i - Patience PROVE FALSE
      OBVIOUS
    <3>2. Better(c, b) /\ c # b
      BY <2>1, <3>1
    <3>3. Better(b, c)
      BY <2>1, <3>2
    <3>4. c \in 1..i /\ b \in Int /\ c \in Int
      OBVIOUS
    <3> QED
      BY <3>2, <3>3, <3>4, BetterIsTotal
  <2>3. i >= MinimumEpoch + Patience - 1
    BY <1>2 DEF Exhausted
  <2> QED
    BY <2>2, <2>3
<1> QED
  BY <1>1, <1>2

\* One round keeps the best so far, and the counter that goes with it.
LEMMA SeeInv == SelectionInv /\ See => SelectionInv'
<1> SUFFICES ASSUME SelectionInv, See PROVE SelectionInv'
  OBVIOUS
<1> USE SelectionConstants
<1> DEFINE N == Cardinality(scored)
<1>0. N \in Epoch /\ N \in Nat
  BY CountType DEF SelectionInv, TypeOK, Epoch
<1> HIDE DEF N
<1>1. N \in Epoch /\ index \in Nat /\ index' = index + 1 /\ index' <= N /\ scored = 1..N
  <2>1. index \in 0..MaxEpoch
    BY DEF SelectionInv, TypeOK
  <2>2. index' = index + 1 /\ index < N /\ scored = 1..N
    BY DEF See, Consecutive, N
  <2> QED
    BY <1>0, <2>1, <2>2
<1>2. \A e \in 1..index' : score[e] \in Score
  <2>1. score \in [scored -> Score] /\ 1..index' \subseteq scored
    BY <1>1, <1>0 DEF SelectionInv, TypeOK
  <2> QED
    BY <2>1
<1>3. UNCHANGED <<scored, score, selected>> /\ pc = "loop"
  BY DEF See
<1>4. best' \in 1..index' /\ best' = IF Improved(index') THEN index' ELSE best
  BY <1>1 DEF SelectionInv, TypeOK, See, Improved
<1>5. \A d \in 1..index' : d = best' \/ Better(best', d)
  <2>1. CASE best = 0
    BY <1>1, <1>4, <2>1 DEF SelectionInv, Improved
  <2>2. CASE best # 0 /\ Better(index', best)
    <3>1. best' = index' /\ best \in 1..index
      BY <1>1, <1>4, <2>2 DEF SelectionInv, TypeOK, Improved
    <3>2. ASSUME NEW d \in 1..index PROVE Better(index', d)
      <4>1. d = best \/ Better(best, d)
        BY DEF SelectionInv
      <4>2. d \in 1..index' /\ best \in 1..index' /\ index' \in 1..index'
        BY <1>1, <3>1
      <4>3. Better(best, d) => Better(index', d)
        BY <1>2, <2>2, <4>2, BetterIsTransitive
      <4> QED
        BY <2>2, <4>1, <4>3
    <3> QED
      BY <1>1, <3>1, <3>2
  <2>3. CASE best # 0 /\ ~Better(index', best)
    <3>1. best' = best /\ best \in 1..index
      BY <1>1, <1>4, <2>3 DEF SelectionInv, TypeOK, Improved
    <3>2. best \in 1..index' /\ index' \in 1..index'
      BY <1>1, <3>1
    <3>3. Better(best, index')
      BY <1>1, <1>2, <2>3, <3>1, <3>2, BetterIsTotal
    <3>4. \A d \in 1..index : d = best \/ Better(best, d)
      BY DEF SelectionInv
    <3> QED
      BY <1>1, <3>1, <3>3, <3>4
  <2> QED
    BY <2>1, <2>2, <2>3
<1>6. stale' = IF index' < MinimumEpoch THEN 0
               ELSE IF best' < MinimumEpoch THEN index' - MinimumEpoch + 1 ELSE index' - best'
  <2>1. stale = IF index < MinimumEpoch THEN 0
                ELSE IF best < MinimumEpoch THEN index - MinimumEpoch + 1 ELSE index - best
    BY DEF SelectionInv
  <2>2. stale' = IF index' < MinimumEpoch THEN stale
                 ELSE IF Improved(index') THEN 0 ELSE stale + 1
    BY DEF See
  <2>3. best \in 0..index /\ (index > 0 => best > 0) /\ (best = 0 => Improved(index'))
    BY DEF SelectionInv, TypeOK, Improved
  <2> QED
    BY <1>1, <1>4, <2>1, <2>2, <2>3
<1>7. index' >= MinimumEpoch => (Exhausted(index') <=> stale' >= Patience)
  <2> SUFFICES ASSUME index' >= MinimumEpoch
               PROVE  Exhausted(index') <=> stale' >= Patience
    OBVIOUS
  <2>1. stale' \in Int /\ index' \in Nat \ {0} /\ best' \in 1..index'
    <3>1. best' \in 1..index'
      BY <1>4
    <3> QED
      BY <1>1, <1>6, <3>1
  <2>2. stale' = IF best' < MinimumEpoch THEN index' - MinimumEpoch + 1 ELSE index' - best'
    BY <1>1, <1>6
  <2>3. ASSUME NEW i \in Nat \ {0}, NEW b \in 1..i, NEW n \in Int,
               i = index', b = best', n = stale'
        PROVE  Exhausted(i) <=> n >= Patience
    <3>1. \A e \in 1..i : score[e] \in Score
      BY <1>2, <2>3
    <3>2. \A d \in 1..i : d = b \/ Better(b, d)
      BY <1>5, <2>3
    <3>3. i >= MinimumEpoch /\ n = IF b < MinimumEpoch THEN i - MinimumEpoch + 1 ELSE i - b
      BY <2>2, <2>3
    <3> QED
      BY <3>1, <3>2, <3>3, StaleIsWindow
  <2> QED
    BY <2>1, <2>3
<1>8. index' < MinimumEpoch => ~Exhausted(index') /\ stale' = 0
  BY <1>1, <1>6 DEF Exhausted
<1>9. /\ eligible = N /\ stale < Patience /\ \A e \in 1..index : ~Exhausted(e)
  BY <1>3 DEF SelectionInv, N
<1>10. \A e : Exhausted(e)' <=> Exhausted(e)
  BY <1>3 DEF Exhausted, Better
<1>11. stale' \in 0..Patience
  <2>1. stale' <= stale + 1 /\ stale' \in Nat
    BY <1>1, <1>4, <1>6 DEF See, SelectionInv, TypeOK
  <2> QED
    BY <1>9, <2>1 DEF SelectionInv, TypeOK
<1>12. CASE index' >= MinimumEpoch /\ stale' >= Patience
  <2>1. eligible' = index' /\ pc' = "choose"
    BY <1>12 DEF See
  <2>2. TypeOK'
    BY <1>1, <1>3, <1>4, <1>11, <2>1 DEF SelectionInv, TypeOK, Epoch
  <2>3. StopsAtFirstExhaustion'
    BY <1>1, <1>7, <1>9, <1>10, <1>12, <2>1 DEF StopsAtFirstExhaustion
  <2>4. SelectsBest'
    BY <2>1 DEF SelectsBest
  <2>5. \A d \in (1..index)' : d = best' \/ Better(best, d)'
    BY <1>3, <1>5 DEF Better
  <2> QED
    BY <1>1, <1>3, <1>4, <1>6, <2>1, <2>2, <2>3, <2>4, <2>5 DEF SelectionInv, Consecutive, N
<1>13. CASE ~(index' >= MinimumEpoch /\ stale' >= Patience)
  <2>1. eligible' = eligible /\ pc' = "loop"
    BY <1>3, <1>13 DEF See
  <2>2. TypeOK'
    BY <1>1, <1>3, <1>4, <1>11, <2>1 DEF SelectionInv, TypeOK, Epoch
  <2>3. stale' < Patience /\ ~Exhausted(index')
    BY <1>1, <1>7, <1>8, <1>11, <1>13
  <2>4. \A e \in 1..index' : ~Exhausted(e)'
    BY <1>1, <1>9, <1>10, <2>3
  <2>5. \A d \in (1..index)' : d = best' \/ Better(best, d)'
    BY <1>3, <1>5 DEF Better
  <2>6. StopsAtFirstExhaustion' /\ SelectsBest'
    BY <2>1 DEF StopsAtFirstExhaustion, SelectsBest
  <2>7. best' \in 1..index'
    BY <1>4
  <2>8. Consecutive' /\ index' <= Cardinality(scored') /\ eligible' = Cardinality(scored')
    BY <1>1, <1>3, <1>9, <2>1 DEF Consecutive, N
  <2>9. \A e \in (1..index)' : ~Exhausted(e)'
    BY <2>4
  <2>10. index' > 0 => best' > 0
    BY <1>1, <2>7
  <2> QED
    BY <1>6, <2>1, <2>2, <2>3, <2>5, <2>6, <2>8, <2>9, <2>10 DEF SelectionInv
<1> QED
  BY <1>12, <1>13

\* The other steps see nothing new.
LEMMA OtherInv == SelectionInv /\ (Raise \/ EndOfScores \/ Choose) => SelectionInv'
<1> SUFFICES ASSUME SelectionInv, Raise \/ EndOfScores \/ Choose PROVE SelectionInv'
  OBVIOUS
<1> USE SelectionConstants
<1>1. /\ UNCHANGED <<scored, score, index, best, stale, eligible>>
      /\ pc' \in {"raised", "choose", "done"}
  BY DEF Raise, EndOfScores, Choose
<1>2. \A e : Exhausted(e)' <=> Exhausted(e)
  BY <1>1 DEF Exhausted, Better
<1>3. \A d, e : Better(d, e)' <=> Better(d, e)
  BY <1>1 DEF Better
<1>4. CASE Raise
  <2>1. pc' = "raised" /\ index = 0 /\ UNCHANGED selected
    BY <1>4 DEF Raise
  <2>2. TypeOK' /\ StopsAtFirstExhaustion' /\ SelectsBest'
    BY <1>1, <2>1 DEF SelectionInv, TypeOK, StopsAtFirstExhaustion, SelectsBest
  <2> QED
    BY <1>1, <1>3, <2>1, <2>2 DEF SelectionInv, Consecutive
<1>5. CASE EndOfScores
  <2>1. pc' = "choose" /\ pc = "loop" /\ Consecutive /\ UNCHANGED selected
        /\ index = Cardinality(scored)
    BY <1>5 DEF EndOfScores
  <2>2. eligible = index /\ \A e \in 1..index : ~Exhausted(e)
    BY <2>1 DEF SelectionInv
  <2>3. StopsAtFirstExhaustion'
    BY <1>1, <1>2, <2>1, <2>2 DEF StopsAtFirstExhaustion, SelectionInv, TypeOK
  <2>4. TypeOK' /\ SelectsBest'
    BY <1>1, <2>1 DEF SelectionInv, TypeOK, SelectsBest
  <2> QED
    BY <1>1, <1>3, <2>1, <2>2, <2>3, <2>4 DEF SelectionInv, Consecutive
<1>6. CASE Choose
  <2>1. pc = "choose" /\ pc' = "done"
    BY <1>6 DEF Choose
  <2>2. PICK e \in 1..eligible :
          selected' = e /\ \A d \in 1..eligible : d = e \/ Better(e, d)
    BY <1>6 DEF Choose
  <2>3. SelectsBest'
    BY <1>1, <1>3, <2>2 DEF SelectsBest
  <2>4. StopsAtFirstExhaustion'
    BY <1>1, <1>2, <2>1 DEF SelectionInv, StopsAtFirstExhaustion
  <2>5. TypeOK'
    BY <1>1, <2>1, <2>2 DEF SelectionInv, TypeOK, Epoch
  <2> QED
    BY <1>1, <1>3, <2>1, <2>3, <2>4, <2>5 DEF SelectionInv, Consecutive
<1> QED
  BY <1>4, <1>5, <1>6

\* The loop invariant holds of every series of scores.
THEOREM SelectionInvariant == Spec => []SelectionInv
<1>1. SelectionInv /\ [Next]_vars => SelectionInv'
  <2>1. SelectionInv /\ UNCHANGED vars => SelectionInv'
    BY DEF vars, SelectionInv, TypeOK, Consecutive, StopsAtFirstExhaustion, SelectsBest,
           Exhausted, Better
  <2> QED
    BY <2>1, SeeInv, OtherInv DEF Next
<1> QED
  BY <1>1, InitInv, PTL DEF Spec

\* Every reachable state of the selection has its declared types.
THEOREM SelectionTypeCorrect == Spec => []TypeOK
<1>1. SelectionInv => TypeOK
  BY DEF SelectionInv
<1> QED
  BY <1>1, SelectionInvariant, PTL

\* The loop of apply_frozen_early_stopping implements the declared patience.
THEOREM StoppingIsDeclared == Spec => []StopsAtFirstExhaustion
<1>1. SelectionInv => StopsAtFirstExhaustion
  BY DEF SelectionInv
<1> QED
  BY <1>1, SelectionInvariant, PTL

\* The receipt names the best eligible epoch, the earliest of equals.
THEOREM SelectionIsBest == Spec => []SelectsBest
<1>1. SelectionInv => SelectsBest
  BY DEF SelectionInv
<1> QED
  BY <1>1, SelectionInvariant, PTL

-----------------------------------------------------------------------------
(* The evidence service and the report. *)

\* What is read is registered and undamaged, and what is in it is what is returned.
LEMMA ReadIsSound ==
    ASSUME NEW store, NEW i, Pub!Read(store, i) # None
    PROVE  /\ Pub!Found(store, i) /\ store[i].indexed /\ store[i].sound
           /\ Pub!Read(store, i) = store[i]
BY DEF Pub!Read, Pub!Found

\* The payload that is opened, and the decision, are those of an artifact that was read.
LEMMA PayloadIsRead ==
    ASSUME NEW store, NEW i, NEW limit, Pub!OpenPayload(store, i, limit) # None
    PROVE  /\ Pub!Read(store, i) # None
           /\ Pub!OpenPayload(store, i, limit) = store[i].payload
BY ReadIsSound DEF Pub!OpenPayload

\* A decision is the payload of an artifact that was read.
LEMMA DecisionIsRead ==
    ASSUME NEW store, NEW i, Pub!DecisionOf(store, i) # None
    PROVE  /\ Pub!Read(store, i) # None
           /\ Pub!DecisionOf(store, i) = store[i].payload
BY ReadIsSound DEF Pub!DecisionOf

\* A scene is read with its decision and with every image it shows, all among its parents.
LEMMA SceneIsRead ==
    ASSUME NEW store, NEW i, Pub!SceneOf(store, i) # None
    PROVE  /\ Pub!Read(store, i) # None
           /\ Pub!SceneOf(store, i) = store[i].payload
           /\ Pub!DecisionOf(store, store[i].payload.decision) # None
           /\ \A image \in Pub!ImagesOf(store[i].payload) :
                image \in store[i].parents /\ Pub!Read(store, image) # None
                /\ store[image].media \in Pub!ImageMedia
BY ReadIsSound DEF Pub!SceneOf

\* Whatever is stored, and on every route of the service (api/app.py, api/repository.py), an
\* answer is the payload of an artifact that is registered and undamaged, and the decision
\* and the images of a scene that is served are found as well.
THEOREM ServiceIsFaithful ==
    ASSUME NEW store, NEW route \in {"content", "decision", "image", "scene", "metrics"}, NEW i
    PROVE  Pub!ServedIsRegistered(store, route, i)
<1> DEFINE answer == CASE route = "content" -> Pub!OpenPayload(store, i, ServiceLimit)
                       [] route = "decision" -> Pub!DecisionOf(store, i)
                       [] route = "image" -> Pub!ImageOf(store, i)
                       [] route = "scene" -> Pub!SceneOf(store, i)
                       [] route = "metrics" -> Pub!TableOf(store, i)
           r == Pub!Respond(store, route, i)
<1>1. r.status = 200 => answer # None /\ r.body = answer
  BY DEF Pub!Respond
<1>2. answer # None => Pub!Read(store, i) # None /\ answer = store[i].payload
  <2>1. CASE route = "content"
    BY <2>1, PayloadIsRead
  <2>2. CASE route = "decision"
    BY <2>2, DecisionIsRead
  <2>3. CASE route = "image"
    BY <2>3, ReadIsSound DEF Pub!ImageOf
  <2>4. CASE route = "scene"
    BY <2>4, SceneIsRead
  <2>5. CASE route = "metrics"
    BY <2>5, ReadIsSound DEF Pub!TableOf
  <2> QED
    BY <2>1, <2>2, <2>3, <2>4, <2>5
<1> SUFFICES ASSUME r.status = 200
             PROVE  /\ store[i].indexed /\ store[i].sound /\ r.body = store[i].payload
                    /\ route = "scene" =>
                         /\ Pub!Respond(store, "decision", r.body.decision).status = 200
                         /\ \A image \in Pub!ImagesOf(r.body) :
                              Pub!Respond(store, "image", image).status # 404
  BY DEF Pub!ServedIsRegistered
<1>3. /\ store[i].indexed /\ store[i].sound /\ r.body = store[i].payload
  BY <1>1, <1>2, ReadIsSound
<1>4. ASSUME route = "scene"
      PROVE  Pub!Respond(store, "decision", r.body.decision).status = 200
  <2>1. Pub!DecisionOf(store, r.body.decision) # None
    BY <1>1, <1>3, <1>4, SceneIsRead
  <2>2. Pub!Found(store, r.body.decision)
    BY <2>1, DecisionIsRead, ReadIsSound
  <2> QED
    BY <2>1, <2>2 DEF Pub!Respond
<1>5. ASSUME route = "scene", NEW image \in Pub!ImagesOf(r.body)
      PROVE  Pub!Respond(store, "image", image).status # 404
  <2>1. Pub!Found(store, image)
    BY <1>1, <1>3, <1>5, SceneIsRead, ReadIsSound
  <2> QED
    BY <2>1 DEF Pub!Respond
<1> QED
  BY <1>3, <1>4, <1>5

\* Of every store, decision, scene and mode, a bundle that the report (report/export.py) makes
\* is of one decision, copies only what is among its parents, none of them damaged, and has
\* images in private, acknowledged, new bundles alone.
THEOREM BundlesAreFaithful ==
    ASSUME NEW store, NEW comparison, NEW mode \in {"public", "private"}, NEW scene,
           NEW acknowledged \in BOOLEAN, NEW reply
    PROVE  Pub!BundleIsFaithful(store, comparison, mode, scene, acknowledged, reply)
<1> DEFINE report == Pub!ReportData(store, comparison)
           decision == Pub!DecisionOf(store, report.decision)
           shown == Pub!Counterexamples(store, report, mode, scene, acknowledged)
           bundle == Pub!Bundle(store, comparison, mode, scene, acknowledged, reply)
<1> SUFFICES ASSUME bundle # None
             PROVE  /\ bundle.copies \subseteq bundle.parents
                    /\ \A i \in bundle.parents : store[i].indexed /\ store[i].sound
                    /\ bundle.status = store[store[comparison].payload.decision].payload.status
                    /\ bundle.images # {} => mode = "private" /\ acknowledged /\ reply = "new"
                    /\ scene # None =>
                         Pub!SceneOf(store, scene).decision = store[comparison].payload.decision
                    /\ \A i \in bundle.images : i \in store[scene].parents
  BY DEF Pub!BundleIsFaithful
<1>1. /\ Pub!OutputIsSafe(reply, mode) /\ report # None
      /\ Pub!AgreesWith(report, decision)
      /\ Pub!VerifiedTable(store, report.metrics, "comparison", report.decision)
      /\ Pub!VerifiedTable(store, report.slices, "slice_table", report.decision)
      /\ shown # None
  BY DEF Pub!Bundle
<1>2. /\ bundle.copies = {report.decision, report.metrics, report.slices} \union shown.images
      /\ bundle.images = shown.images /\ bundle.status = report.status
      /\ bundle.parents = {comparison, report.decision, report.metrics, report.slices}
                            \union shown.parents
  BY DEF Pub!Bundle
<1>3. Pub!Read(store, comparison) # None /\ report = store[comparison].payload
  BY <1>1, ReadIsSound DEF Pub!ReportData
<1>4. decision # None /\ decision.status = report.status
  BY <1>1 DEF Pub!AgreesWith
<1>5. \A i \in {comparison, report.decision, report.metrics, report.slices} :
        store[i].indexed /\ store[i].sound
  BY <1>1, <1>3, <1>4, DecisionIsRead, ReadIsSound DEF Pub!VerifiedTable
<1>6. CASE scene = None
  <2>1. shown.images = {} /\ shown.parents = {}
    BY <1>6 DEF Pub!Counterexamples
  <2> QED
    BY <1>2, <1>3, <1>4, <1>5, <1>6, <2>1, DecisionIsRead
<1>7. CASE scene # None
  <2> DEFINE shot == Pub!SceneOf(store, scene)
             images == IF mode = "private" THEN Pub!ImagesOf(shot) ELSE {}
  <2>1. /\ shot # None /\ shot.decision = report.decision
        /\ mode = "private" => acknowledged
        /\ \A i \in images : Pub!OpenPayload(store, i, OwnLimit) # None
        /\ shown.images = images /\ shown.parents = {scene} \union images
    BY <1>1, <1>7 DEF Pub!Counterexamples
  <2>2. \A i \in {scene} \union images : store[i].indexed /\ store[i].sound
    BY <2>1, PayloadIsRead, SceneIsRead, ReadIsSound
  <2>3. \A i \in images : i \in store[scene].parents
    BY <2>1, SceneIsRead
  <2>4. images # {} => mode = "private" /\ acknowledged /\ reply = "new"
    BY <1>1, <2>1 DEF Pub!OutputIsSafe
  <2> QED
    BY <1>2, <1>3, <1>4, <1>5, <2>1, <2>2, <2>3, <2>4, DecisionIsRead
<1> QED
  BY <1>6, <1>7

-----------------------------------------------------------------------------
(* Ascending orders, and the association of predictions with truths. *)

\* What is smaller has less below it.
LEMMA RankOfOrder ==
    ASSUME NEW S, IsFiniteSet(S), NEW less, IsStrictOrder(S, less)
    PROVE  /\ \A x \in S : Cardinality(Below(S, less, x)) \in 0..(Cardinality(S) - 1)
           /\ \A x, y \in S : <<x, y>> \in less <=>
                Cardinality(Below(S, less, x)) < Cardinality(Below(S, less, y))
<1>1. \A x \in S : /\ IsFiniteSet(Below(S, less, x))
                   /\ Cardinality(Below(S, less, x)) \in Nat
  <2> TAKE x \in S
  <2>1. Below(S, less, x) \in SUBSET S
    BY DEF Below
  <2> QED
    BY <2>1, FS_Subset, FS_CardinalityType
<1>2. Cardinality(S) \in Nat
  BY FS_CardinalityType
<1>3. ASSUME NEW x \in S PROVE Cardinality(Below(S, less, x)) <= Cardinality(S) - 1
  <2>1. Below(S, less, x) \in SUBSET (S \ {x})
    BY DEF Below, IsStrictOrder
  <2>2. IsFiniteSet(S \ {x}) /\ Cardinality(S \ {x}) = Cardinality(S) - 1
    BY FS_RemoveElement
  <2> QED
    BY <2>1, <2>2, FS_Subset
<1>4. ASSUME NEW x \in S, NEW y \in S, <<x, y>> \in less
      PROVE  Cardinality(Below(S, less, x)) < Cardinality(Below(S, less, y))
  <2>1. Below(S, less, x) \in SUBSET Below(S, less, y)
    BY <1>4 DEF Below, IsStrictOrder
  <2>2. x \in Below(S, less, y) /\ x \notin Below(S, less, x)
    BY <1>4 DEF Below, IsStrictOrder
  <2>3. Cardinality(Below(S, less, x)) # Cardinality(Below(S, less, y))
    BY <1>1, <2>1, <2>2, FS_Subset
  <2>4. Cardinality(Below(S, less, x)) <= Cardinality(Below(S, less, y))
    BY <1>1, <2>1, FS_Subset
  <2> QED
    BY <1>1, <2>3, <2>4
<1>5. ASSUME NEW x \in S, NEW y \in S,
             Cardinality(Below(S, less, x)) < Cardinality(Below(S, less, y))
      PROVE  <<x, y>> \in less
  <2>1. x # y
    BY <1>1, <1>5
  <2>2. ~(<<y, x>> \in less)
    <3>1. SUFFICES ASSUME <<y, x>> \in less PROVE FALSE
      OBVIOUS
    <3>2. Cardinality(Below(S, less, y)) < Cardinality(Below(S, less, x))
      BY <3>1, <1>4
    <3> QED
      BY <1>1, <1>5, <3>2
  <2> QED
    BY <2>1, <2>2 DEF IsStrictOrder
<1> QED
  BY <1>1, <1>2, <1>3, <1>4, <1>5

\* The order of a set holds every element of it once, each before those it is less than.
LEMMA OrderIsSorted ==
    ASSUME NEW S, IsFiniteSet(S), NEW less, IsStrictOrder(S, less), NEW n, n = Cardinality(S)
    PROVE  /\ InOrder(S, less) \in [1..n -> S]
           /\ \A x \in S : \E k \in 1..n : InOrder(S, less)[k] = x
           /\ \A j, k \in 1..n :
                /\ j < k <=> <<InOrder(S, less)[j], InOrder(S, less)[k]>> \in less
                /\ j = k <=> InOrder(S, less)[j] = InOrder(S, less)[k]
<1> DEFINE rank == [x \in S |-> Cardinality(Below(S, less, x))]
           place == [x \in S |-> rank[x] + 1]
           order == InOrder(S, less)
<1>1. n \in Nat /\ IsFiniteSet(1..n) /\ Cardinality(1..n) = n
  <2>1. n \in Nat
    BY FS_CardinalityType
  <2> QED
    BY <2>1, FS_Interval
<1>2. /\ \A x \in S : rank[x] \in 0..(n - 1)
      /\ \A x, y \in S : <<x, y>> \in less <=> rank[x] < rank[y]
  BY RankOfOrder
<1>3. \A x, y \in S : rank[x] = rank[y] => x = y
  BY <1>1, <1>2 DEF IsStrictOrder
<1>4. place \in Injection(S, 1..n)
  <2> HIDE DEF rank
  <2>1. place \in [S -> 1..n]
    BY <1>1, <1>2
  <2>2. \A x, y \in S : place[x] = place[y] => x = y
    BY <1>1, <1>2, <1>3
  <2> QED
    BY <2>1, <2>2 DEF Injection, IsInjective
<1>5. place \in Surjection(S, 1..n)
  BY <1>1, <1>4, FS_Injection
<1>6. \A k \in 1..n : \E x \in S : rank[x] = k - 1
  <2> TAKE k \in 1..n
  <2>1. PICK x \in S : place[x] = k
    BY <1>5 DEF Surjection
  <2>2. rank[x] \in Int /\ place[x] = rank[x] + 1
    BY <1>1, <1>2
  <2> QED
    BY <2>1, <2>2
<1>7. \A k \in 1..n : order[k] \in S /\ rank[order[k]] = k - 1
  <2> TAKE k \in 1..n
  <2>1. order[k] = CHOOSE x \in S : Cardinality(Below(S, less, x)) = k - 1
    BY DEF InOrder
  <2>2. \E x \in S : Cardinality(Below(S, less, x)) = k - 1
    BY <1>6
  <2> QED
    BY <2>1, <2>2
<1>8. order \in [1..n -> S]
  BY <1>7 DEF InOrder
<1>9. \A x \in S : \E k \in 1..n : order[k] = x
  <2> TAKE x \in S
  <2> HIDE DEF rank
  <2>1. rank[x] + 1 \in 1..n
    BY <1>1, <1>2
  <2>2. rank[order[rank[x] + 1]] = rank[x] /\ order[rank[x] + 1] \in S
    BY <1>1, <1>2, <1>7, <2>1
  <2> QED
    BY <1>3, <2>1, <2>2
<1>10. \A j, k \in 1..n : /\ j < k <=> <<order[j], order[k]>> \in less
                          /\ j = k <=> order[j] = order[k]
  <2> TAKE j, k \in 1..n
  <2> HIDE DEF rank
  <2> QED
    BY <1>1, <1>2, <1>7
<1> QED
  BY <1>8, <1>9, <1>10

\* A nonempty set of naturals has a least element.
LEMMA Least ==
    ASSUME NEW T, T \subseteq Nat, T # {}
    PROVE  \E x \in T : \A y \in T : x <= y
<1>1. IsWellFoundedOn(OpToRel(<, Nat), Nat)
  BY NatLessThanWellFounded
<1>2. \E x \in T : \A y \in T : ~ (<<y, x>> \in OpToRel(<, Nat))
  BY <1>1, WFMin
<1>3. \A x, y \in Nat : <<y, x>> \in OpToRel(<, Nat) \/ x <= y
  BY DEF OpToRel
<1> QED
  BY <1>2, <1>3, Zenon

\* Min of a nonempty set of naturals is that element.
LEMMA LeastIsMin ==
    ASSUME NEW T, T \subseteq Nat, T # {}
    PROVE  Min(T) \in T /\ \A y \in T : Min(T) <= y
BY Least DEF Min

\* An accepted record selects the first of the open truths.
LEMMA RecordSelects ==
    ASSUME NEW record, NEW truth, NEW taken, truth \subseteq Int, None \notin truth,
           RecordOk(record, truth, taken),
           \E n \in Nat : DOMAIN record.candidates = 1..n,
           record.prediction.cost \in [truth -> Int],
           \A i \in DOMAIN record.candidates :
             record.candidates[i].cost = record.prediction.cost[record.candidates[i].truth]
    PROVE  LET p == record.prediction
               s == record.selected
           IN  /\ s # None => s \in Inside(p, truth) /\ s \notin taken
               /\ \A t \in Inside(p, truth) :
                    t \notin taken => /\ s # None
                                      /\ p.cost[s] < p.cost[t] \/ (p.cost[s] = p.cost[t] /\ s <= t)
<1> DEFINE p == record.prediction
           s == record.selected
           cs == record.candidates
           open == {i \in DOMAIN cs : cs[i].passes /\ cs[i].truth \notin taken}
<1>1. /\ {cs[i].truth : i \in DOMAIN cs} = truth
      /\ \A i \in DOMAIN cs : cs[i].passes = (cs[i].cost < Threshold)
      /\ \A i, j \in DOMAIN cs : i < j =>
           \/ cs[i].cost < cs[j].cost
           \/ cs[i].cost = cs[j].cost /\ cs[i].truth <= cs[j].truth
      /\ s = IF open = {} THEN None ELSE cs[Min(open)].truth
  BY DEF RecordOk
<1>2. open \subseteq Nat /\ open \subseteq DOMAIN cs
  OBVIOUS
<1>3. \A i \in DOMAIN cs : cs[i].truth \in truth /\ cs[i].cost = p.cost[cs[i].truth]
  BY <1>1
<1>4. \A i \in open : cs[i].truth \in Inside(p, truth) /\ cs[i].truth \notin taken
  BY <1>1, <1>3 DEF Inside
<1>5. open # {} => Min(open) \in open /\ \A i \in open : Min(open) <= i
  <2> HIDE DEF open
  <2> QED
    BY <1>2, LeastIsMin
<1>6. ASSUME NEW t \in Inside(p, truth), t \notin taken
      PROVE  s # None /\ (p.cost[s] < p.cost[t] \/ (p.cost[s] = p.cost[t] /\ s <= t))
  <2>1. PICK i \in DOMAIN cs : cs[i].truth = t
    BY <1>1, <1>6 DEF Inside
  <2>2. i \in open
    BY <1>1, <1>3, <1>6, <2>1 DEF Inside
  <2>3. PICK m \in DOMAIN cs : s = cs[m].truth /\ m <= i /\ m \in open
    BY <1>1, <1>2, <1>5, <2>2
  <2>4. s # None /\ s \in truth /\ p.cost[s] = cs[m].cost /\ p.cost[t] = cs[i].cost
    BY <1>3, <2>1, <2>3
  <2>5. m \in Nat /\ i \in Nat /\ t \in truth /\ p.cost[s] \in Int /\ p.cost[t] \in Int
    BY <1>2, <1>3, <2>1, <2>2, <2>3, <2>4
  <2>6. cs[m].cost < cs[i].cost \/ (cs[m].cost = cs[i].cost /\ s <= t)
    <3>1. ASSUME m = i PROVE cs[m].cost = cs[i].cost /\ s <= t
      <4>1. s = t /\ t \in Int
        BY <2>1, <2>3, <2>5, <3>1
      <4> QED
        BY <3>1, <4>1
    <3>2. CASE m < i
      BY <1>1, <2>1, <2>3, <3>2
    <3> QED
      BY <2>3, <2>5, <3>1, <3>2
  <2> QED
    BY <2>4, <2>6
<1>7. s # None => s \in Inside(p, truth) /\ s \notin taken
  BY <1>1, <1>4, <1>5
<1> QED
  BY <1>6, <1>7

\* Whatever a container sends, for any truths and any records whose costs are those of their
\* predictions, an output that the host (evaluator/custom.py) accepts is a greedy association.
THEOREM AcceptedAssociationIsGreedy ==
    ASSUME NEW request, NEW reply, NEW n \in Nat,
           request.truth \subseteq Int, None \notin request.truth,
           DOMAIN reply.records = 1..n,
           \A k \in 1..n :
             LET r == reply.records[k]
             IN  /\ \E m \in Nat : DOMAIN r.candidates = 1..m
                 /\ r.prediction.cost \in [request.truth -> Int]
                 /\ \A i \in DOMAIN r.candidates :
                      r.candidates[i].cost = r.prediction.cost[r.candidates[i].truth],
           Accepts(request, reply)
    PROVE  IsGreedyAssociation(request, reply)
<1> DEFINE rs == reply.records
           truth == request.truth
           takes == [k \in DOMAIN rs |-> rs[k].selected]
           taken(k) == TakenBefore(takes, k) \ {None}
<1>1. /\ \A k \in 1..n : RecordOk(rs[k], truth, taken(k))
      /\ \A j, k \in 1..n : j < k => ~Before(rs[k].prediction, rs[j].prediction)
  BY DEF Accepts
<1>2. ASSUME NEW k \in 1..n
      PROVE  LET p == rs[k].prediction
                 s == rs[k].selected
             IN  /\ s # None => s \in Inside(p, truth) /\ s \notin taken(k)
                 /\ \A t \in Inside(p, truth) :
                      t \notin taken(k) => /\ s # None
                                           /\ p.cost[s] < p.cost[t] \/ (p.cost[s] = p.cost[t] /\ s <= t)
  <2>1. RecordOk(rs[k], truth, taken(k))
    BY <1>1
  <2> HIDE DEF taken
  <2> QED
    BY <2>1, RecordSelects
<1>3. \A k \in 1..n : \A j \in 1..(k - 1) : rs[j].selected # None => rs[j].selected \in taken(k)
  BY DEF TakenBefore
<1>4. ASSUME NEW k \in 1..n, NEW t \in taken(k)
      PROVE  \E j \in 1..(k - 1) : rs[j].selected = t
  <2>1. PICK j \in 1..(k - 1) : takes[j] = t
    BY DEF TakenBefore
  <2>2. j \in DOMAIN rs
    OBVIOUS
  <2> QED
    BY <2>1, <2>2
<1> HIDE DEF taken
<1>5. ASSUME NEW k \in 1..n, NEW t \in Inside(rs[k].prediction, truth),
             LET p == rs[k].prediction
                 s == rs[k].selected
             IN  s = None \/ p.cost[t] < p.cost[s] \/ (p.cost[t] = p.cost[s] /\ t < s)
      PROVE  \E j \in 1..n : rs[j].selected = t /\ j < k /\ ~Before(rs[k].prediction, rs[j].prediction)
  <2> DEFINE p == rs[k].prediction
             s == rs[k].selected
  <2>1. t \in truth /\ t \in Int /\ p.cost[t] \in Int
    BY DEF Inside
  <2>2. s # None => s \in truth /\ s \in Int /\ p.cost[s] \in Int
    BY <1>2 DEF Inside
  <2>3. t \in taken(k)
    BY <1>2, <1>5, <2>1, <2>2
  <2>4. PICK j \in 1..(k - 1) : rs[j].selected = t
    BY <1>4, <2>3
  <2>5. j \in 1..n /\ j < k
    OBVIOUS
  <2> QED
    BY <1>1, <2>4, <2>5
<1>6. ASSUME NEW j \in 1..n, NEW k \in 1..n, j < k, rs[k].selected # None
      PROVE  rs[j].selected # rs[k].selected
  <2>1. rs[k].selected \notin taken(k)
    BY <1>2, <1>6
  <2>2. j \in 1..(k - 1)
    BY <1>6
  <2> QED
    BY <1>3, <1>6, <2>1, <2>2
<1>7. \A j, k \in 1..n : j # k /\ rs[k].selected # None => rs[j].selected # rs[k].selected
  BY <1>6
<1> QED
  BY <1>5, <1>7 DEF IsGreedyAssociation

\* What a prediction picks when pick holds what those before it picked.
Pick(order, truth, pick, k) ==
    Nearest(order[k], Inside(order[k], truth) \ TakenBefore(pick, k))

\* The recursion of Greedy has a solution.
LEMMA GreedyIsDefined ==
    ASSUME NEW n \in Nat, NEW order, DOMAIN order = 1..n, NEW truth
    PROVE  /\ Greedy(order, truth) = [k \in 1..n |-> Greedy(order, truth)[k]]
           /\ DOMAIN Greedy(order, truth) = 1..n
           /\ \A k \in 1..n : Greedy(order, truth)[k] = Pick(order, truth, Greedy(order, truth), k)
<1> DEFINE Solves(g, m) == g = [k \in 1..m |-> Pick(order, truth, g, k)]
           Missing == {m \in 0..n : ~\E g : Solves(g, m)}
<1>1. \E g : Solves(g, 0)
  <2> DEFINE g == [k \in 1..0 |-> None]
  <2>1. g = [k \in 1..0 |-> Pick(order, truth, g, k)]
    OBVIOUS
  <2> QED
    BY <2>1
<1>2. ASSUME NEW m \in Nat, \E g : Solves(g, m)
      PROVE  \E g : Solves(g, m + 1)
  <2>1. PICK g : Solves(g, m)
    BY <1>2
  <2> DEFINE h == [k \in 1..(m + 1) |-> IF k = m + 1 THEN Pick(order, truth, g, m + 1) ELSE g[k]]
  <2>2. ASSUME NEW k \in 1..(m + 1) PROVE TakenBefore(h, k) = TakenBefore(g, k)
    <3>1. \A j \in 1..(k - 1) : h[j] = g[j]
      OBVIOUS
    <3> HIDE DEF h
    <3> QED
      BY <3>1 DEF TakenBefore
  <2>3. ASSUME NEW k \in 1..(m + 1) PROVE h[k] = Pick(order, truth, h, k)
    <3>1. Pick(order, truth, h, k) = Pick(order, truth, g, k)
      BY <2>2 DEF Pick
    <3>2. k # m + 1 => k \in 1..m /\ g[k] = Pick(order, truth, g, k)
      BY <2>1
    <3> QED
      BY <3>1, <3>2
  <2>4. Solves(h, m + 1)
    BY <2>3
  <2> QED
    BY <2>4
<1>3. Missing = {}
  <2>1. SUFFICES ASSUME Missing # {} PROVE FALSE
    OBVIOUS
  <2>2. PICK m \in Missing : \A y \in Missing : m <= y
    <3>1. Missing \subseteq Nat
      OBVIOUS
    <3> HIDE DEF Missing
    <3> QED
      BY <2>1, <3>1, Least
  <2>3. m \in 0..n /\ ~\E g : Solves(g, m)
    BY <2>2
  <2>4. m # 0
    BY <1>1, <2>3
  <2>5. m - 1 \in Nat /\ m - 1 \notin Missing
    BY <2>2, <2>3, <2>4
  <2>6. \E g : Solves(g, m - 1)
    BY <2>3, <2>5
  <2>7. \E g : Solves(g, (m - 1) + 1)
    <3> HIDE DEF Solves
    <3> QED
      BY <1>2, <2>5, <2>6
  <2>8. (m - 1) + 1 = m
    BY <2>3
  <2> QED
    BY <2>3, <2>7, <2>8
<1>4. \E g : g = [k \in 1..n |-> Pick(order, truth, g, k)]
  <2>1. n \in 0..n
    OBVIOUS
  <2>2. \E g : Solves(g, n)
    BY <1>3, <2>1
  <2> QED
    BY <2>2
<1>5. Greedy(order, truth) = CHOOSE g : g = [k \in 1..n |-> Pick(order, truth, g, k)]
  BY Zenon DEF Greedy, Pick
<1>6. Greedy(order, truth) = [k \in 1..n |-> Pick(order, truth, Greedy(order, truth), k)]
  BY <1>4, <1>5, Zenon
<1> HIDE DEF Solves, Missing
<1>7. DOMAIN Greedy(order, truth) = 1..n
  BY <1>6, Zenon
<1>8. ASSUME NEW k \in 1..n
      PROVE  Greedy(order, truth)[k] = Pick(order, truth, Greedy(order, truth), k)
  <2> DEFINE G == Greedy(order, truth)
  <2> HIDE DEF G
  <2>1. G = [j \in 1..n |-> Pick(order, truth, G, j)]
    BY <1>6 DEF G
  <2>2. G[k] = [j \in 1..n |-> Pick(order, truth, G, j)][k]
    BY <2>1, Zenon
  <2> QED
    BY <2>2, Zenon DEF G
<1>9. Greedy(order, truth) = [k \in 1..n |-> Greedy(order, truth)[k]]
  BY <1>6, <1>8
<1> QED
  BY <1>7, <1>8, <1>9

\* Before is a weak order of predictions.
LEMMA BeforeIsWeakOrder ==
    ASSUME NEW p, NEW q, NEW r,
           p.confidence \in Int, p.key \in Int, p.query \in Int,
           q.confidence \in Int, q.key \in Int, q.query \in Int,
           r.confidence \in Int, r.key \in Int, r.query \in Int
    PROVE  /\ ~(Before(p, q) /\ Before(q, p))
           /\ Before(p, q) => Before(p, r) \/ Before(r, q)
BY DEF Before

\* The places of a list of predictions are strictly ordered.
LEMMA PlacesAreOrdered ==
    ASSUME NEW n \in Nat, NEW predictions, DOMAIN predictions = 1..n,
           \A k \in 1..n : /\ predictions[k].confidence \in Int
                           /\ predictions[k].key \in Int /\ predictions[k].query \in Int
    PROVE  IsStrictOrder(1..n, PlaceOrder(predictions))
<1> DEFINE Less(i, j) == \/ Before(predictions[i], predictions[j])
                         \/ ~Before(predictions[j], predictions[i]) /\ i < j
<1>1. \A i, j \in 1..n : <<i, j>> \in PlaceOrder(predictions) <=> Less(i, j)
  BY DEF PlaceOrder
<1>2. \A i, j, k \in 1..n :
        /\ ~(Before(predictions[i], predictions[j]) /\ Before(predictions[j], predictions[i]))
        /\ Before(predictions[i], predictions[j]) =>
             Before(predictions[i], predictions[k]) \/ Before(predictions[k], predictions[j])
  BY BeforeIsWeakOrder
<1>3. \A i, j \in 1..n : ~Less(i, i) /\ (i = j \/ Less(i, j) \/ Less(j, i))
  BY <1>2
<1>4. \A i, j, k \in 1..n : Less(i, j) /\ Less(j, k) => Less(i, k)
  BY <1>2
<1> HIDE DEF Less
<1> QED
  BY <1>1, <1>3, <1>4 DEF IsStrictOrder

\* The truths are strictly ordered by cost and source id.
LEMMA CostsAreOrdered ==
    ASSUME NEW truth, truth \subseteq Int, NEW p, p.cost \in [truth -> Int], NEW some \in SUBSET truth
    PROVE  IsStrictOrder(some, CostOrder(p, some))
<1> DEFINE Less(s, t) == p.cost[s] < p.cost[t] \/ (p.cost[s] = p.cost[t] /\ s < t)
<1>1. \A s, t \in some : <<s, t>> \in CostOrder(p, some) <=> Less(s, t)
  BY DEF CostOrder
<1>2. \A s \in some : s \in Int /\ p.cost[s] \in Int
  OBVIOUS
<1>3. \A s, t \in some : /\ ~Less(s, s) /\ (s = t \/ Less(s, t) \/ Less(t, s))
                         /\ \A u \in some : Less(s, t) /\ Less(t, u) => Less(s, u)
  BY <1>2
<1> HIDE DEF Less
<1> QED
  BY <1>1, <1>3 DEF IsStrictOrder

\* The order of the predictions is a rearrangement, in which nothing is before what precedes it.
LEMMA PredictionsAreSorted ==
    ASSUME NEW n \in Nat, NEW predictions, DOMAIN predictions = 1..n,
           \A k \in 1..n : /\ predictions[k].confidence \in Int
                           /\ predictions[k].key \in Int /\ predictions[k].query \in Int
    PROVE  LET order == InPredictionOrder(predictions)
           IN  /\ DOMAIN order = 1..n
               /\ \A k \in 1..n : \E j \in 1..n : order[k] = predictions[j]
               /\ \A j \in 1..n : \E k \in 1..n : order[k] = predictions[j]
               /\ \A j, k \in 1..n : j < k => ~Before(order[k], order[j])
<1> DEFINE less == PlaceOrder(predictions)
           place == InOrder(1..n, less)
           order == InPredictionOrder(predictions)
<1>1. IsFiniteSet(1..n) /\ Cardinality(1..n) = n
  BY FS_Interval
<1>2. /\ place \in [1..n -> 1..n]
      /\ \A x \in 1..n : \E k \in 1..n : place[k] = x
      /\ \A j, k \in 1..n : j < k <=> <<place[j], place[k]>> \in less
  <2>1. IsStrictOrder(1..n, less)
    BY PlacesAreOrdered
  <2> HIDE DEF less
  <2> QED
    BY <1>1, <2>1, OrderIsSorted
<1>3. order = [k \in 1..n |-> predictions[place[k]]]
  BY DEF InPredictionOrder
<1> HIDE DEF place, order
<1>4. ASSUME NEW j \in 1..n, NEW k \in 1..n, j < k PROVE ~Before(order[k], order[j])
  <2>1. <<place[j], place[k]>> \in less /\ place[j] \in 1..n /\ place[k] \in 1..n
    BY <1>2, <1>4
  <2>2. ~Before(predictions[place[k]], predictions[place[j]])
    BY <2>1, BeforeIsWeakOrder DEF PlaceOrder
  <2> QED
    BY <1>3, <2>2
<1>5. \A k \in 1..n : \E j \in 1..n : order[k] = predictions[j]
  BY <1>2, <1>3
<1>6. \A j \in 1..n : \E k \in 1..n : order[k] = predictions[j]
  BY <1>2, <1>3
<1> QED
  BY <1>3, <1>4, <1>5, <1>6 DEF order

\* The nearest of some truths is the first by cost.
LEMMA NearestIsFirst ==
    ASSUME NEW truth, truth \subseteq Int, IsFiniteSet(truth), NEW p, p.cost \in [truth -> Int],
           NEW some \in SUBSET truth, some # {}
    PROVE  /\ Nearest(p, some) \in some
           /\ \A t \in some : \/ p.cost[Nearest(p, some)] < p.cost[t]
                              \/ p.cost[Nearest(p, some)] = p.cost[t] /\ Nearest(p, some) <= t
<1> DEFINE less == CostOrder(p, some)
           m == Cardinality(some)
           order == InOrder(some, less)
<1>1. IsFiniteSet(some) /\ m \in Nat /\ m # 0
  BY FS_Subset, FS_CardinalityType, FS_EmptySet
<1>2. /\ order \in [1..m -> some]
      /\ \A x \in some : \E k \in 1..m : order[k] = x
      /\ \A j, k \in 1..m : j < k <=> <<order[j], order[k]>> \in less
  <2>1. IsStrictOrder(some, less)
    BY CostsAreOrdered
  <2> HIDE DEF less
  <2> QED
    BY <1>1, <2>1, OrderIsSorted
<1>3. Nearest(p, some) = order[1]
  BY DEF Nearest, ByCost
<1> HIDE DEF order, m
<1>4. 1 \in 1..m /\ order[1] \in some
  BY <1>1, <1>2
<1>5. ASSUME NEW t \in some
      PROVE  p.cost[order[1]] < p.cost[t] \/ (p.cost[order[1]] = p.cost[t] /\ order[1] <= t)
  <2>1. PICK k \in 1..m : order[k] = t
    BY <1>2
  <2>2. CASE k = 1
    <3>1. order[1] = t /\ t \in Int
      BY <2>1, <2>2
    <3> QED
      BY <3>1
  <2>3. CASE k # 1
    <3>1. <<order[1], t>> \in less
      BY <1>1, <1>2, <1>4, <2>1, <2>3
    <3>2. \/ p.cost[order[1]] < p.cost[t]
          \/ p.cost[order[1]] = p.cost[t] /\ order[1] < t
      BY <3>1 DEF CostOrder
    <3>3. order[1] \in Int /\ t \in Int
      BY <1>4
    <3> QED
      BY <3>2, <3>3
  <2> QED
    BY <2>2, <2>3
<1> QED
  BY <1>3, <1>4, <1>5

\* A record of what a prediction picks passes the checks of the host.
LEMMA RecordIsAccepted ==
    ASSUME NEW truth, truth \subseteq Int, IsFiniteSet(truth), None \notin truth,
           NEW order, NEW chosen, NEW n \in Nat, DOMAIN order = 1..n, NEW k \in 1..n,
           order[k].cost \in [truth -> Int],
           chosen[k] = Pick(order, truth, chosen, k)
    PROVE  RecordOk(Records(order, truth, chosen)[k], truth, TakenBefore(chosen, k) \ {None})
<1> DEFINE p == order[k]
           m == Cardinality(truth)
           before == TakenBefore(chosen, k)
           taken == before \ {None}
           by == ByCost(p, truth)
           record == Records(order, truth, chosen)[k]
           cs == record.candidates
           open == {i \in DOMAIN cs : cs[i].passes /\ cs[i].truth \notin taken}
           expected == IF open = {} THEN None ELSE cs[Min(open)].truth
<1>1. /\ record.prediction = p
      /\ record.selected = chosen[k]
      /\ record.unmatched = IF chosen[k] # None THEN None
                            ELSE IF Inside(p, truth) = {} THEN "NO_CANDIDATE_INSIDE_THRESHOLD"
                            ELSE "ALL_ELIGIBLE_GROUND_TRUTH_TAKEN"
      /\ cs = [i \in 1..m |-> [truth |-> by[i], cost |-> p.cost[by[i]],
                               passes |-> p.cost[by[i]] < Threshold,
                               reason |-> Reason(p, by[i], chosen[k], before)]]
  BY DEF Records
<1>2. /\ m \in Nat /\ by \in [1..m -> truth]
      /\ \A x \in truth : \E i \in 1..m : by[i] = x
      /\ \A i, j \in 1..m : i < j <=> <<by[i], by[j]>> \in CostOrder(p, truth)
  <2>1. IsStrictOrder(truth, CostOrder(p, truth))
    BY CostsAreOrdered
  <2>2. m \in Nat
    BY FS_CardinalityType
  <2> HIDE DEF m
  <2> QED
    BY <2>1, <2>2, OrderIsSorted DEF ByCost, m
<1> HIDE DEF record, by, m, before, p
<1> HIDE DEF cs
<1>3. /\ DOMAIN cs = 1..m
      /\ \A i \in 1..m : /\ cs[i].truth = by[i] /\ by[i] \in truth /\ by[i] \in Int
                         /\ cs[i].cost = p.cost[by[i]] /\ p.cost[by[i]] \in Int
                         /\ cs[i].passes = (p.cost[by[i]] < Threshold)
                         /\ cs[i].reason = Reason(p, by[i], chosen[k], before)
  <2>1. \A i \in 1..m : by[i] \in truth /\ by[i] \in Int
    BY <1>2
  <2>2. \A t \in truth : p.cost[t] \in Int
    BY DEF p
  <2>3. DOMAIN cs = 1..m
    BY <1>1 DEF cs
  <2>4. \A i \in 1..m : cs[i] = [truth |-> by[i], cost |-> p.cost[by[i]],
                                 passes |-> p.cost[by[i]] < Threshold,
                                 reason |-> Reason(p, by[i], chosen[k], before)]
    BY <1>1 DEF cs
  <2> QED
    BY <2>1, <2>2, <2>3, <2>4
<1>4. {cs[i].truth : i \in DOMAIN cs} = truth
  <2>1. \A x \in truth : \E i \in DOMAIN cs : cs[i].truth = x
    BY <1>2, <1>3
  <2>2. \A i \in DOMAIN cs : cs[i].truth \in truth
    BY <1>3
  <2> QED
    BY <2>1, <2>2
<1>5. \A i, j \in DOMAIN cs : i < j =>
        \/ cs[i].cost < cs[j].cost
        \/ cs[i].cost = cs[j].cost /\ cs[i].truth <= cs[j].truth
  <2> SUFFICES ASSUME NEW i \in 1..m, NEW j \in 1..m, i < j
               PROVE  \/ p.cost[by[i]] < p.cost[by[j]]
                      \/ p.cost[by[i]] = p.cost[by[j]] /\ by[i] <= by[j]
    BY <1>3
  <2>1. <<by[i], by[j]>> \in CostOrder(p, truth)
    BY <1>2
  <2>2. p.cost[by[i]] < p.cost[by[j]] \/ (p.cost[by[i]] = p.cost[by[j]] /\ by[i] < by[j])
    BY <2>1 DEF CostOrder
  <2> QED
    BY <1>3, <2>2
<1> DEFINE free == Inside(p, truth) \ before
<1>6. free \subseteq truth /\ \A i \in 1..m : i \in open <=> by[i] \in free
  <2>1. \A i \in 1..m : i \in open <=> (p.cost[by[i]] < Threshold /\ by[i] \notin taken)
    BY <1>3
  <2>2. \A i \in 1..m : by[i] \in taken <=> by[i] \in before
    BY <1>3
  <2>3. \A i \in 1..m : by[i] \in Inside(p, truth) <=> p.cost[by[i]] < Threshold
    BY <1>3 DEF Inside
  <2>4. Inside(p, truth) \subseteq truth
    BY DEF Inside
  <2> HIDE DEF open, taken, before
  <2> QED
    BY <2>1, <2>2, <2>3, <2>4
<1>7. chosen[k] = Nearest(p, free)
  BY DEF Pick, p, before
<1>8. chosen[k] = expected
  <2>1. CASE free = {}
    <3>1. open = {}
      BY <1>3, <1>6, <2>1
    <3>2. Nearest(p, free) = None
      BY <2>1 DEF Nearest
    <3> QED
      BY <1>7, <3>1, <3>2
  <2>2. CASE free # {}
    <3> DEFINE s == Nearest(p, free)
    <3>1. s \in free /\ \A t \in free : p.cost[s] < p.cost[t] \/ (p.cost[s] = p.cost[t] /\ s <= t)
      <4> HIDE DEF free
      <4> QED
        BY <1>6, <2>2, NearestIsFirst DEF p
    <3> HIDE DEF s
    <3>2. PICK l \in 1..m : by[l] = s
      BY <1>2, <1>6, <3>1
    <3>3. l \in open /\ open # {} /\ open \subseteq Nat
      BY <1>3, <1>6, <3>1, <3>2
    <3>4. PICK i \in open : i = Min(open) /\ \A j \in open : i <= j
      <4> HIDE DEF open
      <4> QED
        BY <3>3, LeastIsMin
    <3>5. i \in 1..m /\ by[i] \in free /\ i <= l
      BY <1>3, <1>6, <3>3, <3>4
    <3>6. ~(i < l)
      <4>1. SUFFICES ASSUME i < l PROVE FALSE
        OBVIOUS
      <4>2. <<by[i], s>> \in CostOrder(p, truth)
        BY <1>2, <3>2, <3>5, <4>1
      <4>3. p.cost[by[i]] < p.cost[s] \/ (p.cost[by[i]] = p.cost[s] /\ by[i] < s)
        BY <4>2 DEF CostOrder
      <4>4. p.cost[s] < p.cost[by[i]] \/ (p.cost[s] = p.cost[by[i]] /\ s <= by[i])
        BY <3>1, <3>5
      <4>5. p.cost[s] \in Int /\ p.cost[by[i]] \in Int /\ s \in Int /\ by[i] \in Int
        BY <1>3, <3>2, <3>5
      <4> QED
        BY <4>3, <4>4, <4>5
    <3>7. cs[i].truth = s
      BY <1>2, <1>3, <3>2, <3>5, <3>6
    <3> QED
      BY <1>7, <3>3, <3>4, <3>7 DEF s
  <2> QED
    BY <2>1, <2>2
<1>9. \A i \in DOMAIN cs : cs[i].reason = Reason(p, cs[i].truth, expected, taken)
  <2>1. \A i \in 1..m : by[i] \in taken <=> by[i] \in before
    BY <1>3
  <2> HIDE DEF expected, taken, cs
  <2> QED
    BY <1>3, <1>8, <2>1 DEF Reason
<1>10. (\E i \in DOMAIN cs : cs[i].passes) <=> Inside(p, truth) # {}
  <2>1. \A i \in 1..m : cs[i].passes <=> by[i] \in Inside(p, truth)
    BY <1>3 DEF Inside
  <2>2. \A t \in Inside(p, truth) : \E i \in 1..m : by[i] = t
    BY <1>2 DEF Inside
  <2> QED
    BY <1>3, <2>1, <2>2
<1>11. record.unmatched = (IF expected # None THEN None
                           ELSE IF \E i \in DOMAIN cs : cs[i].passes THEN "ALL_ELIGIBLE_GROUND_TRUTH_TAKEN"
                           ELSE "NO_CANDIDATE_INSIDE_THRESHOLD")
  <2> HIDE DEF expected
  <2> QED
    BY <1>1, <1>8, <1>10
<1>12. \A i \in DOMAIN cs : cs[i].passes = (cs[i].cost < Threshold)
  BY <1>3
<1>13. record.prediction = p /\ record.selected = expected
  BY <1>1, <1>8
<1> QED
  BY <1>4, <1>5, <1>9, <1>11, <1>12, <1>13 DEF RecordOk, record, taken, before, cs

\* The container computes a greedy association, and the host accepts it.
THEOREM ContainerIsAccepted ==
    ASSUME NEW request,
           request.truth \subseteq Int, IsFiniteSet(request.truth), None \notin request.truth,
           request.predictions \in
             Seq([id : Int, confidence : Int, key : Int, query : Int, cost : [request.truth -> Int]])
    PROVE  /\ Accepts(request, MatchType(request))
           /\ IsGreedyAssociation(request, MatchType(request))
<1> DEFINE predictions == request.predictions
           truth == request.truth
           n == Len(predictions)
           order == InPredictionOrder(predictions)
           chosen == Greedy(order, truth)
           rs == Records(order, truth, chosen)
           reply == MatchType(request)
<1>1. /\ n \in Nat /\ DOMAIN predictions = 1..n
      /\ \A k \in 1..n : /\ predictions[k].confidence \in Int /\ predictions[k].key \in Int
                         /\ predictions[k].query \in Int /\ predictions[k].cost \in [truth -> Int]
  <2> DEFINE Prediction == [id : Int, confidence : Int, key : Int, query : Int, cost : [truth -> Int]]
  <2>1. predictions \in Seq(Prediction)
    OBVIOUS
  <2>2. \A x \in Prediction : /\ x.confidence \in Int /\ x.key \in Int
                              /\ x.query \in Int /\ x.cost \in [truth -> Int]
    OBVIOUS
  <2> HIDE DEF Prediction, predictions
  <2>3. n \in Nat /\ DOMAIN predictions = 1..n /\ \A k \in 1..n : predictions[k] \in Prediction
    BY <2>1
  <2> QED
    BY <2>2, <2>3
<1>0. truth \subseteq Int /\ IsFiniteSet(truth) /\ None \notin truth
  OBVIOUS
<1>2. reply.records = rs /\ reply.matchedTruth = ToSet(chosen) \ {None}
  BY DEF MatchType, OutputOf
<1> HIDE DEF n, predictions, order, reply, truth
<1>3. /\ DOMAIN order = 1..n
      /\ \A k \in 1..n : \E j \in 1..n : order[k] = predictions[j]
      /\ \A j \in 1..n : \E k \in 1..n : order[k] = predictions[j]
      /\ \A j, k \in 1..n : j < k => ~Before(order[k], order[j])
  BY <1>1, PredictionsAreSorted DEF order
<1> HIDE DEF chosen
<1>4. DOMAIN chosen = 1..n /\ \A k \in 1..n : chosen[k] = Pick(order, truth, chosen, k)
  <2>1. n \in Nat /\ DOMAIN order = 1..n
    BY <1>1, <1>3
  <2> QED
    BY <2>1, GreedyIsDefined DEF chosen
<1> HIDE DEF rs
<1>5. /\ DOMAIN rs = 1..n
      /\ \A k \in 1..n : rs[k].prediction = order[k] /\ rs[k].selected = chosen[k]
  BY <1>3 DEF rs, Records
<1>6. Len(rs) = n
  <2>1. rs = [k \in 1..n |-> rs[k]]
    BY <1>3, <1>5 DEF rs, Records
  <2>2. Len([k \in 1..n |-> rs[k]]) = n
    BY <1>1
  <2> QED
    BY <2>1, <2>2
<1>7. {rs[k].prediction : k \in DOMAIN rs} = ToSet(predictions)
  <2>1. {rs[k].prediction : k \in DOMAIN rs} = {predictions[j] : j \in 1..n}
    <3>1. ASSUME NEW k \in DOMAIN rs PROVE rs[k].prediction \in {predictions[j] : j \in 1..n}
      <4>1. PICK j \in 1..n : order[k] = predictions[j]
        BY <1>3, <1>5
      <4> QED
        BY <1>5, <4>1
    <3>2. ASSUME NEW j \in 1..n PROVE \E k \in DOMAIN rs : predictions[j] = rs[k].prediction
      <4>1. PICK k \in 1..n : order[k] = predictions[j]
        BY <1>3
      <4>2. k \in DOMAIN rs /\ rs[k].prediction = order[k]
        BY <1>5
      <4> QED
        BY <4>1, <4>2
    <3> QED
      BY <3>1, <3>2
  <2> QED
    BY <1>1, <2>1 DEF ToSet
<1> DEFINE picked == [k \in DOMAIN rs |-> rs[k].selected]
<1>8. DOMAIN picked = 1..n /\ \A k \in 1..n : picked[k] = chosen[k]
  BY <1>5
<1> HIDE DEF picked
<1>9. ASSUME NEW k \in 1..n
      PROVE  RecordOk(rs[k], truth, TakenBefore(picked, k) \ {None})
  <2>1. \A j \in 1..(k - 1) : picked[j] = chosen[j]
    BY <1>1, <1>8
  <2>2. order[k].cost \in [truth -> Int]
    BY <1>1, <1>3
  <2>3. RecordOk(rs[k], truth, TakenBefore(chosen, k) \ {None})
    <3>1. chosen[k] = Pick(order, truth, chosen, k) /\ n \in Nat /\ DOMAIN order = 1..n
      BY <1>1, <1>3, <1>4
    <3> QED
      BY <1>0, <2>2, <3>1, RecordIsAccepted DEF rs
  <2>4. TakenBefore(picked, k) = TakenBefore(chosen, k)
    BY <2>1 DEF TakenBefore
  <2> QED
    BY <2>3, <2>4
<1>10. reply.matchedTruth = ToSet(picked) \ {None}
  BY <1>2, <1>4, <1>8 DEF ToSet
<1>11. Accepts(request, reply)
  <2>1. ASSUME NEW j \in DOMAIN rs, NEW k \in DOMAIN rs, j < k
        PROVE  ~Before(rs[k].prediction, rs[j].prediction)
    <3>1. j \in 1..n /\ k \in 1..n /\ ~Before(order[k], order[j])
      BY <1>3, <1>5, <2>1
    <3>2. rs[k].prediction = order[k] /\ rs[j].prediction = order[j]
      BY <1>5, <3>1
    <3> QED
      BY <3>1, <3>2
  <2>2. \A k \in DOMAIN rs : RecordOk(rs[k], request.truth, TakenBefore(picked, k) \ {None})
    BY <1>5, <1>9 DEF truth
  <2>3. Len(rs) = Len(request.predictions)
    BY <1>6 DEF n, predictions
  <2>4. {rs[k].prediction : k \in DOMAIN rs} = ToSet(request.predictions)
    BY <1>7 DEF predictions
  <2>5. \A j, k \in DOMAIN rs : j < k => ~Before(rs[k].prediction, rs[j].prediction)
    BY <2>1
  <2> QED
    BY <1>2, <1>10, <2>2, <2>3, <2>4, <2>5, Zenon DEF Accepts, picked
<1>12. \A k \in 1..n :
         LET r == reply.records[k]
         IN  /\ \E m \in Nat : DOMAIN r.candidates = 1..m
             /\ r.prediction.cost \in [truth -> Int]
             /\ \A i \in DOMAIN r.candidates :
                  r.candidates[i].cost = r.prediction.cost[r.candidates[i].truth]
  <2> TAKE k \in 1..n
  <2> DEFINE by == ByCost(order[k], truth)
  <2> HIDE DEF by
  <2>1. rs[k].candidates = [i \in 1..Cardinality(truth) |->
           [truth |-> by[i], cost |-> order[k].cost[by[i]],
            passes |-> order[k].cost[by[i]] < Threshold,
            reason |-> Reason(order[k], by[i], chosen[k], TakenBefore(chosen, k))]]
    BY <1>3 DEF rs, Records, by
  <2>2. Cardinality(truth) \in Nat
    BY <1>0, FS_CardinalityType
  <2>3. order[k].cost \in [truth -> Int]
    BY <1>1, <1>3
  <2> QED
    BY <1>2, <1>5, <2>1, <2>2, <2>3
<1>13. IsGreedyAssociation(request, reply)
  <2>1. DOMAIN reply.records = 1..n
    BY <1>2, <1>5
  <2> QED
    BY <1>0, <1>1, <1>11, <1>12, <2>1, AcceptedAssociationIsGreedy DEF truth
<1> QED
  BY <1>11, <1>13 DEF reply

\* There is one way to write a finite set in a strict order.
LEMMA OrderIsUnique ==
    ASSUME NEW S, IsFiniteSet(S), NEW less, IsStrictOrder(S, less), NEW n, n = Cardinality(S),
           NEW g \in [1..n -> S],
           \A j, k \in 1..n : j < k => <<g[j], g[k]>> \in less
    PROVE  g = InOrder(S, less)
<1> DEFINE order == InOrder(S, less)
<1>1. n \in Nat /\ IsFiniteSet(1..n) /\ Cardinality(1..n) = n
  <2>1. n \in Nat
    BY FS_CardinalityType
  <2> QED
    BY <2>1, FS_Interval
<1>0. \A j, k \in 1..n : g[j] = g[k] => j = k
  <2>1. ASSUME NEW j \in 1..n, NEW k \in 1..n, j < k PROVE g[j] # g[k]
    <3>1. <<g[j], g[k]>> \in less /\ g[j] \in S
      BY <2>1
    <3> QED
      BY <3>1 DEF IsStrictOrder
  <2> QED
    BY <1>1, <2>1
<1>2. g \in Surjection(1..n, S)
  <2>1. \A j, k \in 1..n : g[j] = g[k] => j = k
    BY <1>0
  <2>2. g \in Injection(1..n, S)
    BY <2>1 DEF Injection, IsInjective
  <2> QED
    BY <1>1, <2>2, FS_Injection
<1>3. \A x \in S : \E k \in 1..n : g[k] = x
  BY <1>2 DEF Surjection
<1>4. ASSUME NEW k \in 1..n
      PROVE  Cardinality(Below(S, less, g[k])) = k - 1
  <2> DEFINE B == Below(S, less, g[k])
             h == [j \in 1..(k - 1) |-> g[j]]
  <2>1. \A j \in 1..(k - 1) : g[j] \in B
    BY <1>1 DEF Below
  <2>2. \A x \in B : \E j \in 1..(k - 1) : g[j] = x
    <3> TAKE x \in B
    <3>1. x \in S /\ <<x, g[k]>> \in less
      BY DEF Below
    <3>2. PICK j \in 1..n : g[j] = x
      BY <1>3, <3>1
    <3>3. ~(<<g[k], g[j]>> \in less) /\ j # k
      BY <3>1, <3>2 DEF IsStrictOrder
    <3>4. j < k
      BY <1>1, <3>3
    <3> QED
      BY <3>2, <3>4
  <2>3. \A i, j \in 1..(k - 1) : g[i] = g[j] => i = j
    BY <1>0, <1>1
  <2> HIDE DEF B
  <2>4. h \in Bijection(1..(k - 1), B)
    <3>1. h \in [1..(k - 1) -> B]
      BY <2>1
    <3>2. \A x \in B : \E j \in 1..(k - 1) : h[j] = x
      BY <2>2
    <3>3. \A i, j \in 1..(k - 1) : h[i] = h[j] => i = j
      BY <2>3
    <3> HIDE DEF h
    <3> QED
      BY <3>1, <3>2, <3>3 DEF Bijection, Injection, Surjection, IsInjective
  <2>5. k - 1 \in Nat /\ ExistsBijection(1..(k - 1), B)
    BY <2>4 DEF ExistsBijection
  <2> QED
    BY <2>5, FS_CountingElements DEF B
<1>5. /\ order \in [1..n -> S]
      /\ \A x \in S : \E k \in 1..n : order[k] = x
      /\ \A j, k \in 1..n : j < k <=> <<order[j], order[k]>> \in less
  BY OrderIsSorted
<1>6. ASSUME NEW k \in 1..n PROVE g[k] = order[k]
  <2>1. order[k] = CHOOSE x \in S : Cardinality(Below(S, less, x)) = k - 1
    BY DEF InOrder
  <2>2. Cardinality(Below(S, less, order[k])) = k - 1 /\ order[k] \in S
    BY <1>4, <2>1
  <2>3. /\ Cardinality(Below(S, less, g[k])) = k - 1
        /\ \A x, y \in S : <<x, y>> \in less <=>
             Cardinality(Below(S, less, x)) < Cardinality(Below(S, less, y))
    BY <1>4, RankOfOrder
  <2>4. ~(<<g[k], order[k]>> \in less) /\ ~(<<order[k], g[k]>> \in less)
    BY <2>2, <2>3
  <2> QED
    BY <2>2, <2>4 DEF IsStrictOrder
<1>7. order \in [1..n -> S]
  BY <1>5
<1> HIDE DEF order
<1>8. g = order
  <2>1. g = [k \in 1..n |-> g[k]] /\ order = [k \in 1..n |-> order[k]]
    BY <1>7
  <2> QED
    BY <1>6, <2>1
<1> QED
  BY <1>8 DEF order

\* The record of the prediction at place k is one the host accepts.
RightRecord(order, truth, chosen, k) ==
    RecordOk(Records(order, truth, chosen)[k], truth, TakenBefore(chosen, k) \ {None})

\* Every prediction has the cost of every truth.
HasCosts(order, truth) == \A k \in DOMAIN order : order[k].cost \in [truth -> Int]

\* The choice the host demands of a record is the one the container makes.
LEMMA AcceptedIsPicked ==
    ASSUME NEW truth, truth \subseteq Int, IsFiniteSet(truth), None \notin truth,
           NEW order, HasCosts(order, truth), NEW chosen, NEW k \in DOMAIN order,
           RightRecord(order, truth, chosen, k)
    PROVE  chosen[k] = Pick(order, truth, chosen, k)
<1> SUFFICES ASSUME order[k].cost \in [truth -> Int]
             PROVE  chosen[k] = Pick(order, truth, chosen, k)
  BY DEF HasCosts
<1> DEFINE p == order[k]
           m == Cardinality(truth)
           taken == TakenBefore(chosen, k) \ {None}
           by == ByCost(p, truth)
           record == Records(order, truth, chosen)[k]
           s == chosen[k]
           free == Inside(p, truth) \ TakenBefore(chosen, k)
           t == Nearest(p, free)
<1>1. /\ record.prediction = p /\ record.selected = s
      /\ record.candidates = [i \in 1..m |->
           [truth |-> by[i], cost |-> p.cost[by[i]], passes |-> p.cost[by[i]] < Threshold,
            reason |-> Reason(p, by[i], chosen[k], TakenBefore(chosen, k))]]
  BY DEF Records
<1>2. m \in Nat
  BY FS_CardinalityType
<1> HIDE DEF record, by, m, taken
<1>3. /\ \E l \in Nat : DOMAIN record.candidates = 1..l
      /\ record.prediction.cost \in [truth -> Int]
      /\ \A i \in DOMAIN record.candidates :
           record.candidates[i].cost = record.prediction.cost[record.candidates[i].truth]
  BY <1>1, <1>2
<1>4. /\ s # None => s \in Inside(p, truth) /\ s \notin taken
      /\ \A u \in Inside(p, truth) :
           u \notin taken => s # None /\ (p.cost[s] < p.cost[u] \/ (p.cost[s] = p.cost[u] /\ s <= u))
  <2>1. RecordOk(record, truth, taken)
    BY DEF record, taken, RightRecord
  <2>2. LET q == record.prediction
            r == record.selected
        IN  /\ r # None => r \in Inside(q, truth) /\ r \notin taken
            /\ \A u \in Inside(q, truth) :
                 u \notin taken => r # None /\ (q.cost[r] < q.cost[u] \/ (q.cost[r] = q.cost[u] /\ r <= u))
    BY <1>3, <2>1, RecordSelects
  <2> QED
    BY <1>1, <2>2
<1>5. free \subseteq truth /\ free \subseteq Int /\ \A u \in free : p.cost[u] \in Int
  BY DEF Inside
<1>6. \A u \in Inside(p, truth) : u \in free <=> u \notin taken
  BY DEF Inside, taken
<1>7. CASE free = {}
  <2>1. s = None
    BY <1>4, <1>6, <1>7
  <2> QED
    BY <1>7, <2>1 DEF Nearest, Pick
<1>8. CASE free # {}
  <2>1. /\ t \in free
        /\ \A u \in free : p.cost[t] < p.cost[u] \/ (p.cost[t] = p.cost[u] /\ t <= u)
    <3> HIDE DEF free
    <3> QED
      BY <1>5, <1>8, NearestIsFirst
  <2> HIDE DEF t, s
  <2>2. s \in free /\ t \in Inside(p, truth)
    BY <1>4, <1>6, <2>1
  <2>3. p.cost[s] < p.cost[t] \/ (p.cost[s] = p.cost[t] /\ s <= t)
    BY <1>4, <1>6, <2>1, <2>2
  <2>4. p.cost[t] < p.cost[s] \/ (p.cost[t] = p.cost[s] /\ t <= s)
    BY <2>1, <2>2
  <2>5. s = t
    BY <1>5, <2>1, <2>2, <2>3, <2>4
  <2> QED
    BY <2>5 DEF Pick, s, t
<1> QED
  BY <1>7, <1>8

\* Only Greedy solves the recursion of Greedy.
LEMMA GreedyIsUnique ==
    ASSUME NEW n \in Nat, NEW order, DOMAIN order = 1..n, NEW truth, NEW chosen,
           chosen = [k \in 1..n |-> chosen[k]],
           \A k \in 1..n : chosen[k] = Pick(order, truth, chosen, k)
    PROVE  chosen = Greedy(order, truth)
<1> DEFINE G == Greedy(order, truth)
           Differs == {k \in 1..n : chosen[k] # G[k]}
<1>1. /\ DOMAIN G = 1..n /\ \A k \in 1..n : G[k] = Pick(order, truth, G, k)
  BY GreedyIsDefined
<1> HIDE DEF G
<1>2. Differs = {}
  <2>1. SUFFICES ASSUME Differs # {} PROVE FALSE
    OBVIOUS
  <2>2. PICK k \in Differs : \A j \in Differs : k <= j
    <3>1. Differs \subseteq Nat
      OBVIOUS
    <3> HIDE DEF Differs
    <3> QED
      BY <2>1, <3>1, Least
  <2>3. \A j \in 1..(k - 1) : chosen[j] = G[j]
    BY <2>2
  <2>4. TakenBefore(chosen, k) = TakenBefore(G, k)
    BY <2>3 DEF TakenBefore
  <2>5. k \in 1..n /\ chosen[k] # G[k]
    BY <2>2
  <2> QED
    BY <1>1, <2>4, <2>5 DEF Pick
<1>3. \A k \in 1..n : chosen[k] = G[k]
  BY <1>2
<1>4. G = [k \in 1..n |-> G[k]]
  BY GreedyIsDefined DEF G
<1> QED
  BY <1>3, <1>4 DEF G

\* What a prediction picks is a truth, or none.
LEMMA PickType ==
    ASSUME NEW truth, truth \subseteq Int, IsFiniteSet(truth), NEW order, NEW chosen, NEW k,
           order[k].cost \in [truth -> Int]
    PROVE  Pick(order, truth, chosen, k) \in truth \union {None}
<1> DEFINE free == Inside(order[k], truth) \ TakenBefore(chosen, k)
<1>1. free \in SUBSET truth
  BY DEF Inside
<1>2. CASE free = {}
  BY <1>2 DEF Pick, Nearest
<1>3. CASE free # {}
  <2>1. Nearest(order[k], free) \in free
    <3> HIDE DEF free
    <3> QED
      BY <1>1, <1>3, NearestIsFirst
  <2> QED
    BY <1>1, <2>1 DEF Pick
<1> QED
  BY <1>2, <1>3

\* The types of the predictions of a request.
WellTyped(predictions, n, truth) ==
    /\ DOMAIN predictions = 1..n
    /\ \A k \in 1..n : /\ predictions[k].confidence \in Int
                       /\ predictions[k].key \in Int /\ predictions[k].query \in Int
                       /\ predictions[k].cost \in [truth -> Int]

\* They are the greedy ones.
LEMMA RightRecordsAreGreedy ==
    ASSUME NEW truth, truth \subseteq Int, IsFiniteSet(truth), None \notin truth,
           NEW n \in Nat, NEW order, DOMAIN order = 1..n, NEW c \in Selections(n, truth),
           HasCosts(order, truth), \A k \in DOMAIN order : RightRecord(order, truth, c, k)
    PROVE  c = Greedy(order, truth)
<1>1. ASSUME NEW k \in DOMAIN order
      PROVE  c[k] = Pick(order, truth, c, k)
  BY AcceptedIsPicked
<1>2. c = [k \in 1..n |-> c[k]]
  BY DEF Selections
<1> QED
  BY <1>1, <1>2, GreedyIsUnique

\* There is one way to write the first n numbers in a strict order.
LEMMA PlacesAreUnique ==
    ASSUME NEW n \in Nat, NEW less, IsStrictOrder(1..n, less), NEW o \in [1..n -> 1..n],
           \A j, k \in 1..n : j < k => <<o[j], o[k]>> \in less
    PROVE  o = InOrder(1..n, less)
<1>1. IsFiniteSet(1..n) /\ n = Cardinality(1..n)
  BY FS_Interval
<1> QED
  BY <1>1, OrderIsUnique

\* Where no two predictions tie, a rearrangement of them in which none is before what
\* precedes it is the container's.
LEMMA SortedIsUnique ==
    ASSUME NEW n \in Nat, NEW predictions, NEW truth, WellTyped(predictions, n, truth),
           NoneTie(predictions), NEW o \in Rearrangements(n),
           \A j, k \in 1..n : j < k =>
             ~Before(Rearranged(predictions, o)[k], Rearranged(predictions, o)[j])
    PROVE  o = InOrder(1..n, PlaceOrder(predictions))
<1> DEFINE less == PlaceOrder(predictions)
<1>1. DOMAIN predictions = 1..n
  BY DEF WellTyped
<1>2. o \in [1..n -> 1..n] /\ \A i, j \in 1..n : i # j => o[i] # o[j]
  BY DEF Rearrangements
<1>3. ASSUME NEW j \in 1..n, NEW k \in 1..n, j < k PROVE <<o[j], o[k]>> \in less
  <2>1. o[j] \in 1..n /\ o[k] \in 1..n /\ o[j] # o[k]
    BY <1>2, <1>3
  <2>2. ~Before(predictions[o[k]], predictions[o[j]])
    BY <1>1, <1>3 DEF Rearranged
  <2>3. Before(predictions[o[j]], predictions[o[k]])
    BY <1>1, <2>1, <2>2 DEF NoneTie
  <2> QED
    BY <1>1, <2>1, <2>3 DEF PlaceOrder
<1>4. IsStrictOrder(1..n, less)
  BY <1>1, PlacesAreOrdered DEF WellTyped
<1> HIDE DEF less
<1>5. \A j, k \in 1..n : j < k => <<o[j], o[k]>> \in less
  BY <1>3
<1>6. o = InOrder(1..n, less)
  BY <1>2, <1>4, <1>5, PlacesAreUnique
<1> QED
  BY <1>6 DEF less

\* The order of the container is one of the rearrangements.
LEMMA PlacesAreRearranged ==
    ASSUME NEW n \in Nat, NEW less, IsStrictOrder(1..n, less)
    PROVE  InOrder(1..n, less) \in Rearrangements(n)
<1>1. IsFiniteSet(1..n) /\ n = Cardinality(1..n)
  BY FS_Interval
<1>2. /\ InOrder(1..n, less) \in [1..n -> 1..n]
      /\ \A j, k \in 1..n :
           /\ j < k <=> <<InOrder(1..n, less)[j], InOrder(1..n, less)[k]>> \in less
           /\ j = k <=> InOrder(1..n, less)[j] = InOrder(1..n, less)[k]
  BY <1>1, OrderIsSorted
<1> QED
  BY <1>2 DEF Rearrangements

\* The container's choices are each a truth or none.
LEMMA GreedyType ==
    ASSUME NEW truth, truth \subseteq Int, IsFiniteSet(truth),
           NEW n \in Nat, NEW order, DOMAIN order = 1..n,
           \A k \in DOMAIN order : order[k].cost \in [truth -> Int]
    PROVE  Greedy(order, truth) \in Selections(n, truth)
<1> DEFINE G == Greedy(order, truth)
<1>1. G = [k \in 1..n |-> G[k]] /\ \A k \in 1..n : G[k] = Pick(order, truth, G, k)
  BY GreedyIsDefined
<1> HIDE DEF G
<1>2. ASSUME NEW k \in 1..n PROVE G[k] \in truth \union {None}
  <2>1. order[k].cost \in [truth -> Int]
    OBVIOUS
  <2>2. Pick(order, truth, G, k) \in truth \union {None}
    BY <2>1, PickType
  <2> QED
    BY <1>1, <2>2
<1> QED
  BY <1>1, <1>2 DEF G, Selections

\* A rearrangement of well typed predictions has their types.
LEMMA RearrangedType ==
    ASSUME NEW n \in Nat, NEW predictions, NEW truth, WellTyped(predictions, n, truth),
           NEW o \in Rearrangements(n)
    PROVE  /\ DOMAIN Rearranged(predictions, o) = 1..n
           /\ \A k \in DOMAIN Rearranged(predictions, o) :
                Rearranged(predictions, o)[k].cost \in [truth -> Int]
BY DEF WellTyped, Rearranged, Rearrangements

\* What it takes the host to accept an output.
LEMMA AcceptedRecords ==
    ASSUME NEW request, NEW n \in Nat, NEW order, DOMAIN order = 1..n,
           NEW c \in Selections(n, request.truth),
           Accepts(request, OutputOf(order, request.truth, c))
    PROVE  /\ \A k \in 1..n : RightRecord(order, request.truth, c, k)
           /\ \A j, k \in 1..n : j < k => ~Before(order[k], order[j])
<1> DEFINE rs == Records(order, request.truth, c)
           picked == [k \in DOMAIN rs |-> rs[k].selected]
           reply == OutputOf(order, request.truth, c)
<1>1. /\ DOMAIN rs = 1..n
      /\ \A k \in 1..n : rs[k].prediction = order[k] /\ rs[k].selected = c[k]
  BY DEF Records
<1>2. reply.records = rs
  BY DEF OutputOf
<1>0. c = [k \in 1..n |-> c[k]]
  BY DEF Selections
<1> HIDE DEF rs, reply
<1>3. picked = c
  BY <1>0, <1>1
<1>4. /\ \A k \in DOMAIN rs : RecordOk(rs[k], request.truth, TakenBefore(picked, k) \ {None})
      /\ \A j, k \in DOMAIN rs : j < k => ~Before(rs[k].prediction, rs[j].prediction)
  <2>1. Accepts(request, reply)
    BY DEF reply
  <2> QED
    BY <1>2, <2>1, Zenon DEF Accepts
<1> HIDE DEF picked
<1>5. \A k \in 1..n : RecordOk(rs[k], request.truth, TakenBefore(c, k) \ {None})
  BY <1>1, <1>3, <1>4
<1>6. \A j, k \in 1..n : j < k => ~Before(order[k], order[j])
  BY <1>1, <1>4
<1> QED
  BY <1>5, <1>6 DEF RightRecord, rs

\* An accepted output of a rearrangement is the container's, where no two predictions tie.
LEMMA RearrangedIsGreedy ==
    ASSUME NEW request, NEW truth, truth = request.truth,
           truth \subseteq Int, IsFiniteSet(truth), None \notin truth,
           NEW n \in Nat, NEW predictions, WellTyped(predictions, n, truth), NoneTie(predictions),
           NEW o \in Rearrangements(n), NEW c \in Selections(n, truth),
           Accepts(request, OutputOf(Rearranged(predictions, o), truth, c))
    PROVE  /\ o = InOrder(1..n, PlaceOrder(predictions))
           /\ c = Greedy(Rearranged(predictions, o), truth)
<1> DEFINE order == Rearranged(predictions, o)
<1>1. DOMAIN order = 1..n /\ \A k \in DOMAIN order : order[k].cost \in [truth -> Int]
  BY RearrangedType
<1>2. /\ \A k \in 1..n : RightRecord(order, truth, c, k)
      /\ \A j, k \in 1..n : j < k => ~Before(order[k], order[j])
  <2> HIDE DEF order
  <2>1. Accepts(request, OutputOf(order, request.truth, c))
    BY DEF order
  <2> QED
    BY <1>1, <2>1, AcceptedRecords
<1>3. o = InOrder(1..n, PlaceOrder(predictions))
  BY <1>2, SortedIsUnique
<1>4. c = Greedy(order, truth)
  <2> HIDE DEF order
  <2>1. HasCosts(order, truth) /\ \A k \in DOMAIN order : RightRecord(order, truth, c, k)
    BY <1>1, <1>2 DEF HasCosts
  <2> QED
    BY <1>1, <2>1, RightRecordsAreGreedy
<1> QED
  BY <1>3, <1>4

\* An output some rearrangement and choice of n places gives.
IsOutput(x, predictions, n, truth) ==
    \E o \in Rearrangements(n), c \in Selections(n, truth) :
      x = OutputOf(Rearranged(predictions, o), truth, c)

\* The outputs of a request, and the container's among them.
LEMMA OutputsAreRearranged ==
    ASSUME NEW request, NEW n, n = Len(request.predictions), DOMAIN request.predictions = 1..n
    PROVE  /\ \A x : x \in Outputs(request) <=> IsOutput(x, request.predictions, n, request.truth)
           /\ MatchType(request) =
                LET order == Rearranged(request.predictions, InOrder(1..n, PlaceOrder(request.predictions)))
                IN  OutputOf(order, request.truth, Greedy(order, request.truth))
<1> DEFINE predictions == request.predictions
           truth == request.truth
           place == InOrder(1..n, PlaceOrder(predictions))
<1>1. Outputs(request) = {OutputOf(Rearranged(predictions, o), truth, c) :
                          o \in Rearrangements(n), c \in Selections(n, truth)}
  BY DEF Outputs
<1>2. InPredictionOrder(predictions) = Rearranged(predictions, place)
  BY DEF InPredictionOrder, Rearranged
<1>3. MatchType(request) =
        OutputOf(Rearranged(predictions, place), truth, Greedy(Rearranged(predictions, place), truth))
  BY <1>2, Zenon DEF MatchType
<1>4. \A x : x \in Outputs(request) <=> IsOutput(x, predictions, n, truth)
  BY <1>1 DEF IsOutput
<1> QED
  BY <1>3, <1>4

\* The container's output is one of them.
LEMMA ContainerIsOutput ==
    ASSUME NEW truth, truth \subseteq Int, IsFiniteSet(truth),
           NEW n \in Nat, NEW predictions, WellTyped(predictions, n, truth),
           NEW place, place = InOrder(1..n, PlaceOrder(predictions)),
           NEW order, order = Rearranged(predictions, place)
    PROVE  IsOutput(OutputOf(order, truth, Greedy(order, truth)), predictions, n, truth)
<1>1. place \in Rearrangements(n)
  <2>1. IsStrictOrder(1..n, PlaceOrder(predictions))
    BY PlacesAreOrdered DEF WellTyped
  <2> QED
    BY <2>1, PlacesAreRearranged
<1>2. Greedy(order, truth) \in Selections(n, truth)
  <2>1. DOMAIN order = 1..n /\ \A k \in DOMAIN order : order[k].cost \in [truth -> Int]
    BY <1>1, RearrangedType
  <2> QED
    BY <2>1, GreedyType
<1> QED
  BY <1>1, <1>2 DEF IsOutput

\* Where no two predictions tie, each of them the host accepts is the container's.
LEMMA AcceptedIsContainers ==
    ASSUME NEW request, NEW truth, truth = request.truth,
           truth \subseteq Int, IsFiniteSet(truth), None \notin truth,
           NEW n \in Nat, NEW predictions, WellTyped(predictions, n, truth), NoneTie(predictions),
           NEW place, place = InOrder(1..n, PlaceOrder(predictions)),
           NEW order, order = Rearranged(predictions, place),
           NEW x, IsOutput(x, predictions, n, truth), Accepts(request, x)
    PROVE  x = OutputOf(order, truth, Greedy(order, truth))
<1>1. PICK o \in Rearrangements(n), c \in Selections(n, truth) :
        x = OutputOf(Rearranged(predictions, o), truth, c)
  BY DEF IsOutput
<1>2. o = InOrder(1..n, PlaceOrder(predictions)) /\ c = Greedy(Rearranged(predictions, o), truth)
  BY <1>1, RearrangedIsGreedy
<1> QED
  BY <1>1, <1>2

\* Whatever order and choice a container reports, with the true costs and consistent
\* reasons, the host accepts the output of custom_match.py, and where no two
\* predictions tie it accepts no other.
THEOREM HostAcceptsOnlyGreedy ==
    ASSUME NEW request,
           request.truth \subseteq Int, IsFiniteSet(request.truth), None \notin request.truth,
           request.predictions \in
             Seq([id : Int, confidence : Int, key : Int, query : Int, cost : [request.truth -> Int]])
    PROVE  AcceptedIsGreedy(request, {o \in Outputs(request) : Accepts(request, o)})
<1> DEFINE predictions == request.predictions
           truth == request.truth
           n == Len(predictions)
           Prediction == [id : Int, confidence : Int, key : Int, query : Int, cost : [truth -> Int]]
           accepted == {o \in Outputs(request) : Accepts(request, o)}
<1>1. predictions \in Seq(Prediction)
  OBVIOUS
<1>2. \A x \in Prediction : /\ x.confidence \in Int /\ x.key \in Int
                            /\ x.query \in Int /\ x.cost \in [truth -> Int]
  OBVIOUS
<1>3. truth \subseteq Int /\ IsFiniteSet(truth) /\ None \notin truth
  OBVIOUS
<1>4. Accepts(request, MatchType(request))
  BY ContainerIsAccepted
<1> HIDE DEF Prediction
<1>5. n \in Nat /\ WellTyped(predictions, n, truth)
  <2>1. n \in Nat /\ DOMAIN predictions = 1..n /\ \A k \in 1..n : predictions[k] \in Prediction
    BY <1>1
  <2> QED
    BY <1>2, <2>1 DEF WellTyped
<1>6. DOMAIN predictions = 1..n
  BY <1>5 DEF WellTyped
<1> DEFINE place == InOrder(1..n, PlaceOrder(predictions))
           order == Rearranged(predictions, place)
           container == OutputOf(order, truth, Greedy(order, truth))
<1>7. /\ \A x : x \in Outputs(request) <=> IsOutput(x, predictions, n, truth)
      /\ MatchType(request) = container
  BY <1>6, OutputsAreRearranged
<1>8. MatchType(request) \in accepted
  <2>1. IsOutput(container, predictions, n, truth)
    BY <1>3, <1>5, ContainerIsOutput
  <2> HIDE DEF container
  <2> QED
    BY <1>4, <1>7, <2>1
<1>9. NoneTie(request.predictions) => accepted = {MatchType(request)}
  <2> SUFFICES ASSUME NoneTie(predictions), NEW x \in accepted PROVE x = container
    BY <1>7, <1>8
  <2>1. IsOutput(x, predictions, n, truth) /\ Accepts(request, x)
    BY <1>7
  <2> HIDE DEF predictions, truth, n, accepted
  <2>2. truth = request.truth
    BY DEF truth
  <2> QED
    BY <1>3, <1>5, <2>1, <2>2, AcceptedIsContainers
<1> QED
  BY <1>8, <1>9, Zenon DEF AcceptedIsGreedy

-----------------------------------------------------------------------------
(* The metrics of a frame. *)

\* custom.py and metrics.cpp reach the same nodes by up to three edges, of any edges.
THEOREM ReachabilityIsShared == \A edges : ReachabilitiesAgree(edges)
<1> SUFFICES ASSUME NEW edges PROVE ReachabilitiesAgree(edges)
  OBVIOUS
<1> DEFINE nodes == UNION {{e[1], e[2]} : e \in edges}
           Step(front) == {e[2] : e \in {d \in edges : d[1] \in front}}
<1> SUFFICES ASSUME NEW s \in nodes, NEW t
             PROVE  t \in Reachability(edges, s) <=> t \in nodes \ {s} /\ NativeReachable(edges, s, t)
  BY DEF ReachabilitiesAgree
<1> DEFINE one == Step({s})
           two == Step(one) \ one
           three == Step(two) \ (one \union two)
           first == Step({s}) \ {s}
           second == Step(first) \ ({s} \union first)
<1>1. Reachability(edges, s) = (one \union two \union three) \ {s}
  BY DEF Reachability
<1>2. NativeReachable(edges, s, t) <=> \E e \in edges : e[2] = t /\ e[1] \in {s} \union first \union second
  BY DEF NativeReachable
<1>3. \A front, x : x \in Step(front) <=> \E e \in edges : e[1] \in front /\ e[2] = x
  OBVIOUS
<1>4. \A e \in edges : e[2] \in nodes
  OBVIOUS
<1> HIDE DEF Step, nodes
<1>5. ASSUME t \in (one \union two \union three) \ {s}
      PROVE  t \in nodes \ {s} /\ \E e \in edges : e[2] = t /\ e[1] \in {s} \union first \union second
  <2>1. t \in Step({s}) \/ t \in Step(one) \/ t \in Step(two)
    BY <1>5
  <2>2. \A x : x \in one => x \in {s} \union first
    OBVIOUS
  <2>3. \A x : x \in two => x \in {s} \union first \union second
    <3> TAKE x
    <3> SUFFICES ASSUME x \in two PROVE x \in {s} \union first \union second
      OBVIOUS
    <3>1. PICK e \in edges : e[1] \in one /\ e[2] = x
      BY <1>3
    <3>2. CASE e[1] = s
      BY <1>3, <3>1, <3>2
    <3>3. CASE e[1] # s
      BY <1>3, <3>1, <3>3
    <3> QED
      BY <3>2, <3>3
  <2>4. \E e \in edges : e[2] = t /\ e[1] \in {s} \union one \union two
    BY <1>3, <2>1
  <2> QED
    BY <1>4, <1>5, <2>2, <2>3, <2>4
<1>6. ASSUME t \in nodes \ {s}, NEW e \in edges, e[2] = t, e[1] \in {s} \union first \union second
      PROVE  t \in (one \union two \union three) \ {s}
  <2>1. CASE e[1] = s
    BY <1>3, <1>6, <2>1
  <2>2. CASE e[1] \in first
    BY <1>3, <1>6, <2>2
  <2>3. CASE e[1] \in second
    <3>1. PICK d \in edges : d[1] \in first /\ d[2] = e[1]
      BY <1>3, <2>3
    <3>2. e[1] \in Step(one)
      BY <1>3, <3>1
    <3>3. CASE e[1] \in one
      BY <1>3, <1>6, <3>3
    <3>4. CASE e[1] \in two
      BY <1>3, <1>6, <3>4
    <3> QED
      BY <3>2, <3>3, <3>4
  <2> QED
    BY <1>6, <2>1, <2>2, <2>3
<1> QED
  BY <1>1, <1>2, <1>5, <1>6

\* A function's image is no larger than its domain, and as large where it is one to one.
LEMMA ImageIsNotLarger ==
    ASSUME NEW S, IsFiniteSet(S), NEW g, g = [x \in S |-> g[x]],
           NEW T, \A x \in S : g[x] \in T, \A y \in T : \E x \in S : y = g[x]
    PROVE  /\ IsFiniteSet(T) /\ Cardinality(T) <= Cardinality(S)
           /\ (\A x, y \in S : g[x] = g[y] => x = y) => Cardinality(T) = Cardinality(S)
<1>1. g \in Surjection(S, T)
  BY DEF Surjection
<1>2. (\A x, y \in S : g[x] = g[y] => x = y) => g \in Injection(S, T)
  BY <1>1 DEF Injection, IsInjective, Surjection
<1> QED
  BY <1>1, <1>2, FS_Surjection

\* pairs are reached by b, kept of them by a, and no path of a leaves a blocked source for
\* what b reaches.
PathSets(a, b, pairs, kept, sources, blocked) ==
    /\ \A e \in pairs : e[2] \in Reachability(b, e[1])
    /\ \A e : e \in kept <=> e \in pairs /\ e[2] \in Reachability(a, e[1])
    /\ \A s : s \in sources <=> \E e \in pairs : s = e[1]
    /\ \A s : s \in blocked <=>
         s \in sources /\ Reachability(a, s) \intersect Reachability(b, s) = {}

\* A source whose every path is blocked misses at least one of the pairs of the recall.
LEMMA BlockedAreMissing ==
    ASSUME NEW a, NEW b, NEW pairs, IsFiniteSet(pairs), NEW kept, NEW sources, NEW blocked,
           PathSets(a, b, pairs, kept, sources, blocked)
    PROVE  /\ Cardinality(kept) \in Nat /\ Cardinality(pairs) \in Nat
           /\ Cardinality(kept) <= Cardinality(pairs)
           /\ Cardinality(blocked) \in Nat /\ Cardinality(sources) \in Nat
           /\ Cardinality(blocked) <= Cardinality(sources)
           /\ Cardinality(blocked) <= Cardinality(pairs) - Cardinality(kept)
<1> DEFINE missing == {e \in pairs \ kept : e[1] \in blocked}
           first == [e \in missing |-> e[1]]
           all == [e \in pairs |-> e[1]]
<1> USE DEF PathSets
<1>1. /\ IsFiniteSet(kept) /\ Cardinality(kept) <= Cardinality(pairs)
      /\ IsFiniteSet(pairs \ kept)
      /\ Cardinality(pairs \ kept) = Cardinality(pairs) - Cardinality(kept)
  <2>1. pairs \intersect kept = kept /\ kept \in SUBSET pairs
    OBVIOUS
  <2>2. IsFiniteSet(kept) /\ Cardinality(kept) <= Cardinality(pairs)
    BY <2>1, FS_Subset
  <2>3. /\ IsFiniteSet(pairs \ kept)
        /\ Cardinality(pairs \ kept) = Cardinality(pairs) - Cardinality(pairs \intersect kept)
    BY FS_Difference
  <2> QED
    BY <2>1, <2>2, <2>3
<1>2. IsFiniteSet(missing) /\ Cardinality(missing) <= Cardinality(pairs \ kept)
  <2>1. missing \in SUBSET (pairs \ kept)
    OBVIOUS
  <2> HIDE DEF missing
  <2> QED
    BY <1>1, <2>1, FS_Subset
<1>3. /\ \A s \in blocked : \E e \in missing : s = first[e]
      /\ \A e \in missing : first[e] \in blocked
  <2>1. ASSUME NEW s \in blocked PROVE \E e \in missing : s = e[1]
    <3>1. PICK e \in pairs : s = e[1]
      OBVIOUS
    <3>2. e[2] \in Reachability(b, s) /\ e[2] \notin Reachability(a, s)
      BY <3>1
    <3> QED
      BY <3>1, <3>2
  <2>2. \A e \in missing : first[e] = e[1] /\ first[e] \in blocked
    OBVIOUS
  <2> HIDE DEF missing, first
  <2> QED
    BY <2>1, <2>2
<1>4. IsFiniteSet(blocked) /\ Cardinality(blocked) <= Cardinality(missing)
  <2>1. first = [e \in missing |-> first[e]]
    OBVIOUS
  <2> HIDE DEF missing, first
  <2> QED
    BY <1>2, <1>3, <2>1, ImageIsNotLarger
<1>5. IsFiniteSet(sources)
  <2>1. /\ all = [e \in pairs |-> all[e]] /\ \A e \in pairs : all[e] \in sources
        /\ \A s \in sources : \E e \in pairs : s = all[e]
    OBVIOUS
  <2> HIDE DEF all
  <2> QED
    BY <2>1, ImageIsNotLarger
<1>6. Cardinality(blocked) <= Cardinality(sources)
  <2>1. blocked \in SUBSET sources
    OBVIOUS
  <2> QED
    BY <1>5, <2>1, FS_Subset
<1>7. /\ Cardinality(kept) \in Nat /\ Cardinality(pairs) \in Nat /\ Cardinality(missing) \in Nat
      /\ Cardinality(blocked) \in Nat /\ Cardinality(sources) \in Nat
  BY <1>1, <1>2, <1>4, <1>5, FS_CardinalityType
<1> HIDE DEF missing
<1> QED
  BY <1>1, <1>2, <1>4, <1>6, <1>7

\* The answers of controls by the lane g gives them, those of them that are no true edge, and
\* the edges they predict.
AnswerSets(answered, g, edges, wrong, predicted) ==
    /\ \A c : c \in wrong <=> c \in answered /\ <<c, g[c]>> \notin edges
    /\ \A e : e \in predicted <=> \E c \in answered : e = <<c, g[c]>>

\* Where each of some controls is answered by the one lane g gives it, the wrong answers are
\* the predicted edges that are not true.
LEMMA WrongAreImprecise ==
    ASSUME NEW answered, IsFiniteSet(answered), NEW g, NEW edges, NEW wrong, NEW predicted,
           AnswerSets(answered, g, edges, wrong, predicted)
    PROVE  /\ Cardinality(predicted) = Cardinality(answered)
           /\ Cardinality(wrong) = Cardinality(predicted) - Cardinality(predicted \intersect edges)
<1> DEFINE h == [c \in answered |-> <<c, g[c]>>]
           w == [c \in wrong |-> <<c, g[c]>>]
<1>0. /\ \A c : c \in wrong <=> c \in answered /\ <<c, g[c]>> \notin edges
      /\ \A e : e \in predicted <=> \E c \in answered : e = <<c, g[c]>>
  BY DEF AnswerSets
<1>1. IsFiniteSet(predicted) /\ Cardinality(predicted) = Cardinality(answered)
  <2>1. /\ h = [c \in answered |-> h[c]] /\ \A c \in answered : h[c] \in predicted
        /\ \A e \in predicted : \E c \in answered : e = h[c]
        /\ \A c, d \in answered : h[c] = h[d] => c = d
    BY <1>0
  <2> HIDE DEF h
  <2> QED
    BY <2>1, ImageIsNotLarger
<1>2. Cardinality(predicted \ edges) = Cardinality(wrong)
  <2> DEFINE missed == predicted \ edges
  <2>1. /\ w = [c \in wrong |-> w[c]] /\ \A c, d \in wrong : w[c] = w[d] => c = d
    OBVIOUS
  <2>2. /\ \A e \in missed : \E c \in wrong : e = w[c]
        /\ \A c \in wrong : w[c] \in missed
    BY <1>0
  <2>3. IsFiniteSet(wrong)
    <3>1. wrong \in SUBSET answered
      BY <1>0
    <3> QED
      BY <3>1, FS_Subset
  <2> HIDE DEF w, missed
  <2>4. Cardinality(missed) = Cardinality(wrong)
    BY <2>1, <2>2, <2>3, ImageIsNotLarger
  <2> QED
    BY <2>4 DEF missed
<1> QED
  BY <1>1, <1>2, FS_Difference

\* The images of an association and of edges between associated nodes are finite.
LEMMA AssociatedIsFinite ==
    ASSUME NEW g, IsFiniteSet(DOMAIN g), NEW S, S = {g[p] : p \in Matched(g)}
    PROVE  IsFiniteSet(S)
<1> DEFINE M == Matched(g)
           h == [p \in M |-> g[p]]
<1>1. IsFiniteSet(M)
  <2>1. M \in SUBSET DOMAIN g
    BY DEF Matched
  <2> QED
    BY <2>1, FS_Subset
<1>2. h = [p \in M |-> h[p]] /\ (\A p \in M : h[p] \in S) /\ (\A t \in S : \E p \in M : t = h[p])
  OBVIOUS
<1> HIDE DEF h, M
<1> QED
  BY <1>1, <1>2, ImageIsNotLarger

\* What they predicted as the answers to the association are finitely many edges.
LEMMA MappedIsFinite ==
    ASSUME NEW edges, IsFiniteSet(edges), NEW from, NEW to
    PROVE  IsFiniteSet(Mapped(edges, from, to))
<1> DEFINE M == {d \in edges : d[1] \in Matched(from) /\ d[2] \in Matched(to)}
           h == [e \in M |-> <<from[e[1]], to[e[2]]>>]
           T == Mapped(edges, from, to)
<1>1. IsFiniteSet(M)
  <2>1. M \in SUBSET edges
    OBVIOUS
  <2> HIDE DEF M
  <2> QED
    BY <2>1, FS_Subset
<1>2. h = [e \in M |-> h[e]] /\ (\A e \in M : h[e] \in T) /\ (\A t \in T : \E e \in M : t = h[e])
  BY DEF Mapped
<1> HIDE DEF h, M, T
<1>3. IsFiniteSet(T)
  BY <1>1, <1>2, ImageIsNotLarger
<1> QED
  BY <1>3 DEF T

\* Where every control has one edge, and that leads to an associated lane, the edges of the
\* answered controls are those the answers name.
LEMMA AnswersArePredicted ==
    ASSUME NEW f, IsAssociated(f), NEW lanes, NEW controls,
           \A c : c \in controls <=> \E p \in Matched(f.controlOf) : c = f.controlOf[p],
           NEW entitled, entitled = Eligible(f, lanes, controls),
           NEW edges, edges = Retained(f.control),
           \A d \in edges : Cardinality({e \in edges : e[1] = d[1]}) = 1,
           \A e \in edges : e[2] \in Matched(f.laneOf),
           NEW answered,
           \A c : c \in answered <=>
             c \in entitled /\ \E e \in edges : e[1] = PredictionOf(f.controlOf, c),
           NEW predicted,
           \A e : e \in predicted <=> e \in Mapped(edges, f.controlOf, f.laneOf) /\ e[1] \in entitled
    PROVE  \A x : x \in predicted <=> \E c \in answered :
             x = <<c, f.laneOf[TopEdge(f.control, PredictionOf(f.controlOf, c))[2]]>>
<1> DEFINE of(c) == PredictionOf(f.controlOf, c)
           top(c) == TopEdge(f.control, of(c))
<1>1. ASSUME NEW c \in entitled PROVE of(c) \in Matched(f.controlOf) /\ f.controlOf[of(c)] = c
  <2>1. \E p \in Matched(f.controlOf) : f.controlOf[p] = c
    BY DEF Eligible
  <2> QED
    BY <2>1 DEF PredictionOf
<1>2. \A e \in edges : e \in Int \X Int /\ e = <<e[1], e[2]>>
  BY DEF Retained, IsAssociated
<1>3. IsFiniteSet(edges)
  <2>1. edges \in SUBSET DOMAIN f.control
    BY DEF Retained
  <2> QED
    BY <2>1, FS_Subset DEF IsAssociated
<1>4. ASSUME NEW d \in edges, NEW e \in edges, d[1] = e[1] PROVE d = e
  <2> DEFINE same == {x \in edges : x[1] = d[1]}
  <2>1. same \in SUBSET edges
    OBVIOUS
  <2>2. Cardinality(same) = 1
    OBVIOUS
  <2>3. d \in same /\ e \in same
    BY <1>4
  <2> HIDE DEF same
  <2>4. IsFiniteSet(same)
    BY <1>3, <2>1, FS_Subset
  <2>5. \E x : same = {x}
    BY <2>2, <2>4, FS_Singleton
  <2> QED
    BY <2>3, <2>5
<1>5. ASSUME NEW c \in entitled, NEW e \in edges, e[1] = of(c) PROVE top(c) = e
  <2>1. \A d \in edges : d[1] = of(c) => d = e
    BY <1>4, <1>5
  <2>2. f.control[e] = f.control[e] /\ e[2] <= e[2]
    BY <1>2
  <2> HIDE DEF of
  <2>3. \A x : (/\ x \in Retained(f.control) /\ x[1] = of(c)
                /\ \A d \in Retained(f.control) : d[1] = of(c) =>
                     f.control[d] < f.control[x] \/ (f.control[d] = f.control[x] /\ x[2] <= d[2]))
               <=> x = e
    BY <1>5, <2>1, <2>2
  <2> QED
    BY <2>3 DEF TopEdge
<1>6. ASSUME NEW x \in predicted PROVE \E c \in answered : x = <<c, f.laneOf[top(c)[2]]>>
  <2>1. PICK e \in edges : /\ e[1] \in Matched(f.controlOf) /\ e[2] \in Matched(f.laneOf)
                           /\ x = <<f.controlOf[e[1]], f.laneOf[e[2]]>>
    BY DEF Mapped
  <2>2. x[1] \in entitled /\ x[1] = f.controlOf[e[1]]
    BY <2>1
  <2>3. e[1] = of(x[1])
    BY <1>1, <2>1, <2>2 DEF IsAssociated
  <2>4. top(x[1]) = e /\ x[1] \in answered
    BY <1>5, <2>2, <2>3
  <2> QED
    BY <2>1, <2>2, <2>4
<1>7. ASSUME NEW c \in answered PROVE <<c, f.laneOf[top(c)[2]]>> \in predicted
  <2>1. PICK e \in edges : e[1] = of(c)
    OBVIOUS
  <2>2. top(c) = e
    BY <1>5, <2>1
  <2>3. f.controlOf[e[1]] = c /\ e[1] \in Matched(f.controlOf) /\ e[2] \in Matched(f.laneOf)
    BY <1>1, <2>1
  <2>4. <<f.controlOf[e[1]], f.laneOf[e[2]]>> \in Mapped(edges, f.controlOf, f.laneOf)
    BY <2>3 DEF Mapped
  <2> QED
    BY <2>2, <2>3, <2>4
<1> QED
  BY <1>6, <1>7

\* The ratios of any frame whose association is one are rates that agree with one another:
\* the wrong controls are those the precision misses, and a blocked path is missing from the
\* recall of reachability.
THEOREM FrameMetricsAgree ==
    ASSUME NEW f, IsAssociated(f)
    PROVE  MetricsAgree(f)
<1> DEFINE lanes    == {f.laneOf[p] : p \in Matched(f.laneOf)}
           controls == {f.controlOf[p] : p \in Matched(f.controlOf)}
           entitled == Eligible(f, lanes, controls)
           edges == Retained(f.control)
           predicted == {e \in Mapped(edges, f.controlOf, f.laneOf) : e[1] \in entitled}
           population == {e \in f.trueControl : e[1] \in controls /\ e[2] \in lanes}
           answered == {c \in entitled : \E e \in edges : e[1] = PredictionOf(f.controlOf, c)}
           top(c)   == TopEdge(f.control, PredictionOf(f.controlOf, c))
           wrong    == {c \in answered : <<c, f.laneOf[top(c)[2]]>> \notin f.trueControl}
           sure     == {c \in wrong : f.calibrated[top(c)] >= Confident}
           successors == Mapped(Retained(f.successor), f.laneOf, f.laneOf)
           pairs    == {e \in lanes \X lanes : e[2] \in Reachability(f.trueSuccessor, e[1])}
           kept     == {e \in pairs : e[2] \in Reachability(successors, e[1])}
           sources  == {e[1] : e \in pairs}
           blocked  == {s \in sources :
                          Reachability(successors, s) \intersect Reachability(f.trueSuccessor, s) = {}}
           m == FrameMetrics(f)
           single == \A c \in {e[1] : e \in edges} : Cardinality({e \in edges : e[1] = c}) = 1
           onLanes == \A e \in edges : e[2] \in Matched(f.laneOf)
<1>1. m = [controlPrecision |-> Ratio(predicted \intersect f.trueControl, predicted),
           controlRecall    |-> Ratio(predicted \intersect population, population),
           wrongControl     |-> Ratio(wrong, answered),
           confidentWrong   |-> Ratio(sure, answered),
           reachability     |-> Ratio(kept, pairs),
           pathBlocking     |-> Ratio(blocked, sources),
           spurious         |-> Ratio(successors \ f.trueSuccessor, successors)]
  BY DEF FrameMetrics
<1>2. /\ IsFiniteSet(lanes) /\ IsFiniteSet(controls)
      /\ IsFiniteSet(edges) /\ IsFiniteSet(Retained(f.successor))
  <2>1. IsFiniteSet(lanes)
    BY AssociatedIsFinite DEF IsAssociated
  <2>2. IsFiniteSet(controls)
    BY AssociatedIsFinite DEF IsAssociated
  <2>3. edges \in SUBSET DOMAIN f.control /\ Retained(f.successor) \in SUBSET DOMAIN f.successor
    BY DEF Retained
  <2>4. IsFiniteSet(edges) /\ IsFiniteSet(Retained(f.successor))
    <3> HIDE DEF edges
    <3> QED
      BY <2>3, FS_Subset DEF IsAssociated
  <2> QED
    BY <2>1, <2>2, <2>4
<1>3. single /\ onLanes =>
        \A x : x \in predicted <=> \E c \in answered : x = <<c, f.laneOf[top(c)[2]]>>
  <2> SUFFICES ASSUME single, onLanes
               PROVE  \A x : x \in predicted <=> \E c \in answered : x = <<c, f.laneOf[top(c)[2]]>>
    OBVIOUS
  <2>1. /\ \A d \in edges : Cardinality({e \in edges : e[1] = d[1]}) = 1
        /\ \A e \in edges : e[2] \in Matched(f.laneOf)
    OBVIOUS
  <2>2. /\ \A c : c \in controls <=> \E p \in Matched(f.controlOf) : c = f.controlOf[p]
        /\ \A c : c \in answered <=>
             c \in entitled /\ \E e \in edges : e[1] = PredictionOf(f.controlOf, c)
        /\ \A e : e \in predicted <=> e \in Mapped(edges, f.controlOf, f.laneOf) /\ e[1] \in entitled
    OBVIOUS
  <2>3. entitled = Eligible(f, lanes, controls) /\ edges = Retained(f.control)
    OBVIOUS
  <2> HIDE DEF lanes, controls, entitled, edges, predicted, answered, single, onLanes
  <2> QED
    BY <2>1, <2>2, <2>3, AnswersArePredicted
<1>4. \A e \in predicted : e[1] \in entitled /\ e[1] \in controls /\ e[2] \in lanes
  <2>1. \A e \in Mapped(edges, f.controlOf, f.laneOf) : e[2] \in lanes
    BY DEF Mapped
  <2> QED
    BY <2>1 DEF Eligible
<1>5. predicted \intersect population = predicted \intersect f.trueControl
  BY <1>4
<1>6. /\ entitled \in SUBSET controls /\ answered \in SUBSET entitled
      /\ wrong \in SUBSET answered /\ sure \in SUBSET wrong
      /\ population \in SUBSET f.trueControl
      /\ predicted \in SUBSET Mapped(edges, f.controlOf, f.laneOf)
      /\ pairs \in SUBSET (lanes \X lanes)
  BY DEF Eligible
<1>7. IsFiniteSet(Mapped(edges, f.controlOf, f.laneOf)) /\ IsFiniteSet(successors)
  <2> HIDE DEF edges
  <2> QED
    BY <1>2, MappedIsFinite
<1>8. IsFiniteSet(f.trueControl)
  BY DEF IsAssociated
<1>10. IsFiniteSet(lanes \X lanes)
  <2> HIDE DEF lanes
  <2> QED
    BY <1>2, FS_Product
<1> HIDE DEF lanes, controls, m
<1>11. IsFiniteSet(pairs)
  <2> HIDE DEF pairs
  <2> QED
    BY <1>6, <1>10, FS_Subset
<1>12. /\ Cardinality(kept) \in Nat /\ Cardinality(pairs) \in Nat
       /\ Cardinality(kept) <= Cardinality(pairs)
       /\ Cardinality(blocked) \in Nat /\ Cardinality(sources) \in Nat
       /\ Cardinality(blocked) <= Cardinality(sources)
       /\ Cardinality(blocked) <= Cardinality(pairs) - Cardinality(kept)
  <2>1. PathSets(successors, f.trueSuccessor, pairs, kept, sources, blocked)
    BY DEF PathSets
  <2> HIDE DEF pairs, kept, sources, blocked, successors
  <2> QED
    BY <1>11, <2>1, BlockedAreMissing
<1>13. single /\ onLanes =>
         /\ Cardinality(predicted) = Cardinality(answered)
         /\ Cardinality(wrong) = Cardinality(predicted) - Cardinality(predicted \intersect f.trueControl)
  <2> SUFFICES ASSUME single, onLanes
               PROVE /\ Cardinality(predicted) = Cardinality(answered)
                     /\ Cardinality(wrong) =
                          Cardinality(predicted) - Cardinality(predicted \intersect f.trueControl)
    OBVIOUS
  <2> DEFINE g == [c \in answered |-> f.laneOf[top(c)[2]]]
  <2>1. AnswerSets(answered, g, f.trueControl, wrong, predicted)
    BY <1>3 DEF AnswerSets
  <2>2. IsFiniteSet(answered)
    <3> HIDE DEF entitled, answered
    <3>1. IsFiniteSet(entitled)
      BY <1>2, <1>6, FS_Subset
    <3> QED
      BY <1>6, <3>1, FS_Subset
  <2> HIDE DEF g, answered, predicted, wrong, single, onLanes
  <2> QED
    BY <2>1, <2>2, WrongAreImprecise
<1> HIDE DEF entitled, edges, predicted, population, answered, top, wrong, sure, successors, pairs,
             kept, sources, blocked, single, onLanes
<1>14. /\ IsFiniteSet(predicted) /\ IsFiniteSet(population) /\ IsFiniteSet(answered)
       /\ IsFiniteSet(wrong) /\ IsFiniteSet(sure)
  <2>1. IsFiniteSet(predicted)
    BY <1>6, <1>7, FS_Subset
  <2>2. IsFiniteSet(population)
    BY <1>6, <1>8, FS_Subset
  <2>3. IsFiniteSet(entitled)
    BY <1>2, <1>6, FS_Subset
  <2>4. IsFiniteSet(answered)
    BY <1>6, <2>3, FS_Subset
  <2>5. IsFiniteSet(wrong)
    BY <1>6, <2>4, FS_Subset
  <2>6. IsFiniteSet(sure)
    BY <1>6, <2>5, FS_Subset
  <2> QED
    BY <2>1, <2>2, <2>4, <2>5, <2>6
<1>15. \A S, T : IsFiniteSet(T) /\ S \subseteq T => /\ Cardinality(S) \in Nat /\ Cardinality(T) \in Nat
                                                   /\ Cardinality(S) <= Cardinality(T)
  <2> TAKE S, T
  <2> SUFFICES ASSUME IsFiniteSet(T), S \subseteq T
               PROVE  /\ Cardinality(S) \in Nat /\ Cardinality(T) \in Nat
                      /\ Cardinality(S) <= Cardinality(T)
    OBVIOUS
  <2>1. IsFiniteSet(S) /\ Cardinality(S) <= Cardinality(T)
    BY FS_Subset
  <2> QED
    BY <2>1, FS_CardinalityType
<1>16. /\ Cardinality(predicted \intersect f.trueControl) <= Cardinality(predicted)
       /\ Cardinality(predicted \intersect population) <= Cardinality(population)
       /\ Cardinality(wrong) <= Cardinality(answered)
       /\ Cardinality(sure) <= Cardinality(answered)
       /\ Cardinality(sure) <= Cardinality(wrong)
       /\ Cardinality(successors \ f.trueSuccessor) <= Cardinality(successors)
  <2>1. /\ predicted \intersect f.trueControl \subseteq predicted
        /\ predicted \intersect population \subseteq population
        /\ wrong \subseteq answered /\ sure \subseteq answered /\ sure \subseteq wrong
        /\ successors \ f.trueSuccessor \subseteq successors
    BY <1>6
  <2> QED
    BY <1>7, <1>14, <1>15, <2>1
<1>17. /\ m.controlPrecision.num = Cardinality(predicted \intersect f.trueControl)
       /\ m.controlPrecision.den = Cardinality(predicted)
       /\ m.controlRecall.num = Cardinality(predicted \intersect population)
       /\ m.controlRecall.den = Cardinality(population)
       /\ m.wrongControl.num = Cardinality(wrong) /\ m.wrongControl.den = Cardinality(answered)
       /\ m.confidentWrong.num = Cardinality(sure) /\ m.confidentWrong.den = Cardinality(answered)
       /\ m.reachability.num = Cardinality(kept) /\ m.reachability.den = Cardinality(pairs)
       /\ m.pathBlocking.num = Cardinality(blocked) /\ m.pathBlocking.den = Cardinality(sources)
       /\ m.spurious.num = Cardinality(successors \ f.trueSuccessor)
       /\ m.spurious.den = Cardinality(successors)
       /\ DOMAIN m = {"controlPrecision", "controlRecall", "wrongControl", "confidentWrong",
                      "reachability", "pathBlocking", "spurious"}
  BY <1>1 DEF Ratio
<1>18. \A name \in DOMAIN m : m[name].num <= m[name].den
  BY <1>12, <1>16, <1>17
<1>19. ReachabilitiesAgree(f.trueSuccessor)
  BY ReachabilityIsShared
<1>20. /\ m.confidentWrong.num <= m.wrongControl.num
       /\ m.pathBlocking.num <= m.reachability.den - m.reachability.num
       /\ m.controlRecall.num = m.controlPrecision.num
  BY <1>5, <1>12, <1>16, <1>17
<1>21. single /\ onLanes => /\ m.wrongControl.num = m.controlPrecision.den - m.controlPrecision.num
                            /\ m.wrongControl.den = m.controlPrecision.den
  BY <1>13, <1>17
<1> QED
  BY <1>18, <1>19, <1>20, <1>21 DEF MetricsAgree, m, single, onLanes, edges

-----------------------------------------------------------------------------
(* The metrics of a segment. *)

\* The frames a..b are a maximal run of frames a truth is present in.
IsRun(frames, t, a, b) ==
    /\ a \in DOMAIN frames /\ b \in DOMAIN frames /\ a <= b
    /\ \A k \in a..b : t \in frames[k].present
    /\ a - 1 \in DOMAIN frames => t \notin frames[a - 1].present
    /\ b + 1 \in DOMAIN frames => t \notin frames[b + 1].present

\* The runs are those from one frame to another.
LEMMA RunsAreIntervals ==
    ASSUME NEW frames, NEW t, NEW run
    PROVE  run \in Runs(frames, t) <=> \E a, b : IsRun(frames, t, a, b) /\ run = a..b
<1> DEFINE D == {d \in (DOMAIN frames) \X (DOMAIN frames) :
                  /\ d[1] <= d[2]
                  /\ \A k \in d[1]..d[2] : t \in frames[k].present
                  /\ d[1] - 1 \in DOMAIN frames => t \notin frames[d[1] - 1].present
                  /\ d[2] + 1 \in DOMAIN frames => t \notin frames[d[2] + 1].present}
<1>1. Runs(frames, t) = {e[1]..e[2] : e \in D}
  BY DEF Runs
<1>2. \A d : d \in D => IsRun(frames, t, d[1], d[2])
  BY DEF IsRun
<1>3. \A a, b : IsRun(frames, t, a, b) => <<a, b>> \in D
  BY DEF IsRun
<1>4. \A a, b : <<a, b>>[1] = a /\ <<a, b>>[2] = b
  OBVIOUS
<1> HIDE DEF D
<1>5. ASSUME run \in Runs(frames, t) PROVE \E a, b : IsRun(frames, t, a, b) /\ run = a..b
  <2>1. PICK e \in D : run = e[1]..e[2]
    BY <1>1, <1>5
  <2> QED
    BY <1>2, <2>1
<1>6. ASSUME NEW a, NEW b, IsRun(frames, t, a, b), run = a..b PROVE run \in Runs(frames, t)
  BY <1>1, <1>3, <1>4, <1>6
<1> QED
  BY <1>5, <1>6

\* A frame a truth is present in lies in a run.
LEMMA FrameIsInRun ==
    ASSUME NEW n \in Nat, NEW frames, DOMAIN frames = 1..n, NEW t, NEW k \in 1..n,
           t \in frames[k].present
    PROVE  \E a \in 1..k, b \in k..n : IsRun(frames, t, a, b)
<1> DEFINE Starts == {a \in 1..k : \A i \in a..k : t \in frames[i].present}
           Rests == {r \in 0..(n - k) : \A i \in k..(n - r) : t \in frames[i].present}
<1>1. Starts \subseteq Nat /\ k \in Starts
  OBVIOUS
<1>2. Rests \subseteq Nat /\ n - k \in Rests
  OBVIOUS
<1>3. PICK a \in Starts : \A y \in Starts : a <= y
  BY <1>1, Least
<1>4. PICK r \in Rests : \A y \in Rests : r <= y
  BY <1>2, Least
<1> DEFINE b == n - r
<1>5. a \in 1..k /\ b \in k..n
  BY <1>4
<1>6. \A i \in a..b : t \in frames[i].present
  <2>1. \A i \in a..k : t \in frames[i].present
    OBVIOUS
  <2>2. \A i \in k..b : t \in frames[i].present
    OBVIOUS
  <2> HIDE DEF b
  <2> QED
    BY <1>5, <2>1, <2>2
<1>7. ASSUME a - 1 \in 1..n, t \in frames[a - 1].present PROVE FALSE
  <2>1. \A i \in (a - 1)..k : i = a - 1 \/ i \in a..k
    BY <1>5
  <2>2. a - 1 \in Starts
    BY <1>5, <1>7, <2>1
  <2> QED
    BY <1>3, <1>5, <2>2
<1>8. ASSUME b + 1 \in 1..n, t \in frames[b + 1].present PROVE FALSE
  <2>1. \A i \in k..(n - (r - 1)) : i = b + 1 \/ i \in k..(n - r)
    BY <1>5
  <2>2. r - 1 \in 0..(n - k)
    BY <1>5, <1>8
  <2>3. r - 1 \in Rests
    BY <1>5, <1>8, <2>1, <2>2
  <2> QED
    BY <1>4, <1>5, <2>3
<1>9. IsRun(frames, t, a, b)
  <2>1. a \in DOMAIN frames /\ b \in DOMAIN frames /\ a <= b
    BY <1>5
  <2> HIDE DEF b
  <2> QED
    BY <1>6, <1>7, <1>8, <2>1 DEF IsRun
<1> QED
  BY <1>5, <1>9

\* The frames of a run but its first, for runs of three frames or more.
LEMMA LongRunFrames ==
    ASSUME NEW n \in Nat, NEW frames, DOMAIN frames = 1..n, NEW t, NEW a, NEW b,
           IsRun(frames, t, a, b)
    PROVE  /\ a \in 1..n /\ b \in 1..n /\ a <= b
           /\ LongEnough(a..b) <=> a + 2 <= b
           /\ \A k : k \in (a..b) \ {Min(a..b)} <=> k \in (a + 1)..b
<1>1. a \in 1..n /\ b \in 1..n /\ a <= b
  BY DEF IsRun
<1>2. Cardinality(a..b) = b - a + 1
  BY <1>1, FS_Interval
<1>3. Min(a..b) = a
  <2>1. a..b \subseteq Nat /\ a \in a..b
    BY <1>1
  <2>2. Min(a..b) \in a..b /\ \A y \in a..b : Min(a..b) <= y
    BY <2>1, LeastIsMin
  <2> QED
    BY <1>1, <2>1, <2>2
<1> QED
  BY <1>1, <1>2, <1>3 DEF LongEnough

\* Frame k is measured for a truth: it is in a long run, and not its first.
IsMeasured(frames, t, k) ==
    \E run \in Runs(frames, t) : LongEnough(run) /\ k \in run \ {Min(run)}

\* Flicker is measured at the frames that follow another with the same truth, where a third
\* is beside them.
LEMMA TransitionsAreThose ==
    ASSUME NEW n \in Nat, NEW frames, DOMAIN frames = 1..n, NEW t,
           t \in UNION {frames[k].present : k \in DOMAIN frames}, NEW k \in 1..n
    PROVE  LET held(j) == j \in 1..n /\ t \in frames[j].present
           IN  IsMeasured(frames, t, k) <=>
                 held(k) /\ held(k - 1) /\ (held(k - 2) \/ held(k + 1))
<1> DEFINE held(j) == j \in 1..n /\ t \in frames[j].present
<1>1. ASSUME NEW run \in Runs(frames, t), LongEnough(run), k \in run \ {Min(run)}
      PROVE  held(k) /\ held(k - 1) /\ (held(k - 2) \/ held(k + 1))
  <2>1. PICK a, b : IsRun(frames, t, a, b) /\ run = a..b
    BY RunsAreIntervals
  <2>2. a \in 1..n /\ b \in 1..n /\ a + 2 <= b /\ k \in (a + 1)..b
    BY <1>1, <2>1, LongRunFrames
  <2>3. \A j \in a..b : held(j)
    BY <2>1, <2>2 DEF IsRun
  <2>4. k \in a..b /\ k - 1 \in a..b /\ (k - 2 \in a..b \/ k + 1 \in a..b)
    BY <2>2
  <2> HIDE DEF held
  <2> QED
    BY <2>3, <2>4
<1>2. ASSUME held(k), held(k - 1), held(k - 2) \/ held(k + 1)
      PROVE  \E run \in Runs(frames, t) : LongEnough(run) /\ k \in run \ {Min(run)}
  <2>1. PICK a \in 1..k, b \in k..n : IsRun(frames, t, a, b)
    BY <1>2, FrameIsInRun
  <2>2. ~held(a - 1) /\ ~held(b + 1)
    BY <2>1 DEF IsRun
  <2>3. a # k
    BY <1>2, <2>2
  <2>4. a # k - 1 \/ b # k
    BY <1>2, <2>2
  <2> HIDE DEF held
  <2>5. a + 2 <= b /\ k \in (a + 1)..b
    BY <2>1, <2>3, <2>4
  <2>6. LongEnough(a..b) /\ k \in (a..b) \ {Min(a..b)}
    BY <2>1, <2>5, LongRunFrames
  <2>7. a..b \in Runs(frames, t)
    BY <2>1, RunsAreIntervals
  <2> QED
    BY <2>6, <2>7
<1> QED
  BY <1>1, <1>2 DEF IsMeasured

\* The temporal metrics of any segment: flicker is measured where three frames in a row hold
\* the truth, what reproduces the truth neither flickers nor flips, and a truth whose track
\* stays switches none.
THEOREM SegmentMetricsAgree ==
    ASSUME NEW n \in Nat, NEW frames, DOMAIN frames = 1..n
    PROVE  TemporalMetricsAgree(frames)
<1> DEFINE held(t, k) == k \in DOMAIN frames /\ t \in frames[k].present
           truths == UNION {frames[k].present : k \in DOMAIN frames}
           exact == \A k \in DOMAIN frames :
                      /\ frames[k].mapped = frames[k].edges
                      /\ \A t \in truths : (frames[k].match[t] # None) = (t \in frames[k].present)
           Measured(t) == UNION {run \ {Min(run)} : run \in {r \in Runs(frames, t) : LongEnough(r)}}
           Beside(x) == /\ held(x[1], x[2]) /\ held(x[1], x[2] - 1)
                        /\ held(x[1], x[2] - 2) \/ held(x[1], x[2] + 1)
<1>1. Transitions(frames) = UNION {{<<t, k>> : k \in Measured(t)} : t \in truths}
  BY DEF Transitions
<1>2. \A t, k : k \in Measured(t) <=> IsMeasured(frames, t, k)
  BY DEF IsMeasured
<1>3. \A t, k : k \in Measured(t) => k \in 1..n
  <2> SUFFICES ASSUME NEW t, NEW k, NEW run \in Runs(frames, t), k \in run PROVE k \in 1..n
    BY <1>2 DEF IsMeasured
  <2>1. PICK a, b : IsRun(frames, t, a, b) /\ run = a..b
    BY RunsAreIntervals
  <2> QED
    BY <2>1 DEF IsRun
<1>4. \A t \in truths, k \in 1..n : k \in Measured(t) <=> Beside(<<t, k>>)
  <2> TAKE t \in truths, k \in 1..n
  <2>1. IsMeasured(frames, t, k) <=>
          held(t, k) /\ held(t, k - 1) /\ (held(t, k - 2) \/ held(t, k + 1))
    BY TransitionsAreThose
  <2> QED
    BY <1>2, <2>1
<1>5. Transitions(frames) = {x \in truths \X (DOMAIN frames) : Beside(x)}
  <2> HIDE DEF Measured, truths, Beside
  <2>1. \A x : x \in Transitions(frames) <=> \E t \in truths : \E k \in Measured(t) : x = <<t, k>>
    BY <1>1
  <2>2. ASSUME NEW x \in Transitions(frames) PROVE x \in truths \X (1..n) /\ Beside(x)
    BY <1>3, <1>4, <2>1
  <2>3. ASSUME NEW x \in truths \X (1..n), Beside(x) PROVE x \in Transitions(frames)
    <3>1. x[1] \in truths /\ x[2] \in 1..n /\ x = <<x[1], x[2]>>
      OBVIOUS
    <3> QED
      BY <1>4, <2>1, <2>3, <3>1
  <2> QED
    BY <2>2, <2>3
<1>6. exact => Flicker(frames).num = 0
  <2> SUFFICES ASSUME exact PROVE Flicker(frames).num = 0
    OBVIOUS
  <2> DEFINE seen(t, k) == frames[k].match[t] # None
             changed == {x \in Transitions(frames) : seen(x[1], x[2]) # seen(x[1], x[2] - 1)}
  <2>1. ASSUME NEW x \in Transitions(frames) PROVE seen(x[1], x[2]) = seen(x[1], x[2] - 1)
    <3>1. x[1] \in truths /\ held(x[1], x[2]) /\ held(x[1], x[2] - 1)
      BY <1>5
    <3>2. \A t \in truths, k \in DOMAIN frames : seen(t, k) = (t \in frames[k].present)
      OBVIOUS
    <3> HIDE DEF truths, exact
    <3> QED
      BY <3>1, <3>2
  <2>2. changed = {}
    BY <2>1
  <2>3. Flicker(frames).num = Cardinality(changed)
    BY DEF Flicker, Ratio
  <2> HIDE DEF changed
  <2> QED
    BY <2>2, <2>3, FS_EmptySet
<1>7. ASSUME NEW k \in DOMAIN frames \ {1}, exact
      PROVE  Flips(frames, k).num = Cardinality(PersistentEdges(frames, k) \ frames[k].edges)
  <2> DEFINE flipped == {e \in PersistentEdges(frames, k) :
                           (e \in frames[k - 1].mapped) # (e \in frames[k].mapped)}
  <2>1. k \in DOMAIN frames /\ k - 1 \in DOMAIN frames
    OBVIOUS
  <2>2. frames[k].mapped = frames[k].edges /\ frames[k - 1].mapped = frames[k - 1].edges
    BY <1>7, <2>1
  <2>3. flipped = PersistentEdges(frames, k) \ frames[k].edges
    BY <2>2 DEF PersistentEdges
  <2> QED
    BY <2>3 DEF Flips, Ratio
<1>8. ASSUME NEW k \in DOMAIN frames \ {1},
             \A t \in truths : frames[k].track[t] \in {None, t} /\ LastTrack(frames, t, k) \in {None, t}
      PROVE  Switches(frames, k).num = 0
  <2> DEFINE tracked == {t \in frames[k].present :
                           /\ frames[k].match[t] # None /\ frames[k].track[t] # None
                           /\ LastTrack(frames, t, k) # None}
             switched == {t \in tracked : /\ frames[k].track[t] # LastTrack(frames, t, k)
                                          /\ LastTrack(frames, t, k) \in frames[k].live}
  <2>1. \A t \in frames[k].present : t \in truths
    OBVIOUS
  <2>2. switched = {}
    BY <1>8, <2>1
  <2>3. Switches(frames, k).num = Cardinality(switched)
    BY DEF Switches, Ratio
  <2> HIDE DEF switched
  <2> QED
    BY <2>2, <2>3, FS_EmptySet
<1> QED
  BY <1>5, <1>6, <1>7, <1>8 DEF TemporalMetricsAgree

-----------------------------------------------------------------------------
(* The contract of the graphs, and the graph decoded from a model output. *)

\* What Python accepts the native runtime reads: NativeReadsPython of every envelope, as an
\* identity of an edge is never absent.
THEOREM WhatPythonAcceptsIsRead ==
    ASSUME NEW g, \A key, type, s, t : Contract!EdgeId(key, type, s, t) # None
    PROVE  Contract!NativeReadsPython(g)
<1> SUFFICES ASSUME Contract!PythonAccepts(g), Contract!WithinNativeLimits(g)
             PROVE  Contract!NativeAccepts(g)
  BY DEF Contract!NativeReadsPython
<1>1. g.sensor # None => /\ Contract!NativeRigid(g.sensor.world)
                         /\ \A k \in DOMAIN g.sensor.cameras : Contract!NativeRigid(g.sensor.cameras[k].pose)
  BY DEF Contract!PythonAccepts, Contract!SensorOk, Contract!Rigid, Contract!NativeRigid
<1>2. Contract!NativeNodesOk(g)
  BY DEF Contract!PythonAccepts, Contract!NodesOk, Contract!NativeNodesOk
<1>3. Contract!NativeEdgesOk(g)
  <2>1. /\ Contract!Injective([k \in DOMAIN g.edges |-> g.edges[k].id])
        /\ \A k \in DOMAIN g.edges :
             /\ g.edges[k].type \in DOMAIN Contract!EdgeEnds
             /\ <<Contract!TypeOf(g, g.edges[k].source), Contract!TypeOf(g, g.edges[k].target)>>
                  = Contract!EdgeEnds[g.edges[k].type]
             /\ g.edges[k].id # None
    BY DEF Contract!PythonAccepts, Contract!EdgesOk
  <2>2. /\ DOMAIN Contract!EdgeEnds = {"successor", "applies"}
        /\ Contract!EdgeEnds["successor"] = <<Contract!Lane, Contract!Lane>>
        /\ Contract!EdgeEnds["applies"] = <<Contract!Control, Contract!Lane>>
    BY DEF Contract!EdgeEnds
  <2>3. \A a, b, c, d : <<a, b>> = <<c, d>> => a = c /\ b = d
    OBVIOUS
  <2> HIDE DEF Contract!EdgeEnds
  <2>4. ASSUME NEW k \in DOMAIN g.edges
        PROVE  \/ /\ g.edges[k].type = "successor"
                  /\ Contract!TypeOf(g, g.edges[k].source) = Contract!Lane
                  /\ Contract!TypeOf(g, g.edges[k].target) = Contract!Lane
               \/ /\ g.edges[k].type = "applies"
                  /\ Contract!TypeOf(g, g.edges[k].source) = Contract!Control
                  /\ Contract!TypeOf(g, g.edges[k].target) = Contract!Lane
    <3>1. CASE g.edges[k].type = "successor"
      BY <2>1, <2>2, <2>3, <3>1
    <3>2. CASE g.edges[k].type = "applies"
      BY <2>1, <2>2, <2>3, <3>2
    <3> QED
      BY <2>1, <2>2, <3>1, <3>2
  <2> QED
    BY <2>1, <2>4 DEF Contract!NativeEdgesOk
<1> QED
  BY <1>1, <1>2, <1>3 DEF Contract!PythonAccepts, Contract!NativeAccepts

\* Two sequences, one after the other, as an operator the provers do not look into.
Joined(s, t) == s \o t

\* What two sequences concatenate to.
LEMMA Concatenation ==
    ASSUME NEW m \in Nat, NEW n \in Nat, NEW s, NEW t, IsList(s, m), IsList(t, n)
    PROVE  /\ IsList(Joined(s, t), m + n) /\ Len(Joined(s, t)) = m + n
           /\ \A k \in 1..m : Joined(s, t)[k] = s[k]
           /\ \A k \in 1..n : Joined(s, t)[m + k] = t[k]
<1> DEFINE S == {s[k] : k \in 1..m} \union {t[k] : k \in 1..n}
<1>1. s \in [1..m -> S] /\ t \in [1..n -> S]
  BY DEF IsList
<1> HIDE DEF S
<1>2. s \in Seq(S) /\ t \in Seq(S) /\ Len(s) = m /\ Len(t) = n
  BY <1>1
<1>3. /\ Len(s \o t) = m + n
      /\ \A k \in 1..m : (s \o t)[k] = s[k]
      /\ \A k \in 1..n : (s \o t)[m + k] = t[k]
  BY <1>1, <1>2
<1>4. s \o t \in [1..(m + n) -> S]
  <2>1. s \o t \in Seq(S)
    BY <1>2
  <2>2. \A q \in Seq(S) : q \in [1..Len(q) -> S]
    OBVIOUS
  <2>3. s \o t \in [1..Len(s \o t) -> S]
    BY <2>1, <2>2
  <2> QED
    BY <1>3, <2>3
<1>5. IsList(s \o t, m + n)
  BY <1>4 DEF IsList
<1> QED
  BY <1>3, <1>5 DEF Joined

\* What three of them concatenate to.
LEMMA Concatenations ==
    ASSUME NEW a \in Nat, NEW b \in Nat, NEW c \in Nat, NEW s, NEW t, NEW u,
           IsList(s, a), IsList(t, b), IsList(u, c), NEW ab, ab = a + b
    PROVE  LET all == Joined(Joined(s, t), u)
           IN  /\ IsList(all, ab + c)
               /\ \A k \in 1..a : all[k] = s[k]
               /\ \A k \in 1..b : all[a + k] = t[k]
               /\ \A k \in 1..c : all[ab + k] = u[k]
<1> DEFINE both == Joined(s, t)
<1>1. /\ IsList(both, ab)
      /\ \A k \in 1..a : both[k] = s[k]
      /\ \A k \in 1..b : both[a + k] = t[k]
  BY Concatenation
<1>2. ab \in Nat
  OBVIOUS
<1> HIDE DEF both
<1>3. /\ IsList(Joined(both, u), ab + c)
      /\ \A k \in 1..ab : Joined(both, u)[k] = both[k]
      /\ \A k \in 1..c : Joined(both, u)[ab + k] = u[k]
  BY <1>1, <1>2, Concatenation
<1>4. /\ \A k \in 1..a : k \in 1..ab
      /\ \A k \in 1..b : a + k \in 1..ab
  OBVIOUS
<1>5. /\ \A k \in 1..a : Joined(both, u)[k] = s[k]
      /\ \A k \in 1..b : Joined(both, u)[a + k] = t[k]
  BY <1>1, <1>3, <1>4
<1> QED
  BY <1>3, <1>5 DEF both

\* The sizes of the contract are those of FiniteSets.
LEMMA CardinalityIsShared == \A S : Contract!Cardinality(S) = Cardinality(S)
BY DEF Contract!Cardinality, Cardinality

\* The orders of the contract are those of Orders.
LEMMA OrdersAreShared ==
    ASSUME NEW S, NEW less
    PROVE  Contract!InOrder(S, less) = InOrder(S, less)
<1>1. \A x : Contract!Below(S, less, x) = Below(S, less, x)
  BY DEF Contract!Below, Below
<1> QED
  BY <1>1, CardinalityIsShared DEF Contract!InOrder, InOrder

\* The nodes decoded of a type are all the queries that exist, each once.
LEMMA DecodedIsExisting ==
    ASSUME NEW queries, IsQueries(queries), Likely \in Int
    PROVE  LET kept == Contract!Existing(queries)
           IN  /\ IsFiniteSet(kept) /\ Cardinality(kept) \in Nat
               /\ Cardinality(kept) <= Cardinality(DOMAIN queries)
               /\ Contract!Decoded(queries) \in [1..Cardinality(kept) -> kept]
               /\ \A q \in kept : \E k \in 1..Cardinality(kept) : Contract!Decoded(queries)[k] = q
               /\ \A j, k \in 1..Cardinality(kept) :
                    Contract!Decoded(queries)[j] = Contract!Decoded(queries)[k] => j = k
<1> DEFINE kept == Contract!Existing(queries)
           less == Contract!NodeOrder(queries)
           Less(p, q) ==
             \/ queries[p].rank > queries[q].rank
             \/ /\ queries[p].rank = queries[q].rank
                /\ \/ queries[p].key < queries[q].key
                   \/ queries[p].key = queries[q].key /\ p < q
<1>1. kept \in SUBSET DOMAIN queries
  BY DEF Contract!Existing
<1>2. IsFiniteSet(kept) /\ Cardinality(kept) \in Nat /\ Cardinality(kept) <= Cardinality(DOMAIN queries)
  BY <1>1, FS_Subset, FS_CardinalityType DEF IsQueries
<1>3. \A p, q \in kept : <<p, q>> \in less <=> Less(p, q)
  BY DEF Contract!NodeOrder
<1>4. \A p \in kept : p \in Int /\ queries[p].rank \in Int /\ queries[p].key \in Int
  BY <1>1 DEF IsQueries
<1>5. \A p, q \in kept : /\ ~Less(p, p) /\ (p = q \/ Less(p, q) \/ Less(q, p))
                         /\ \A u \in kept : Less(p, q) /\ Less(q, u) => Less(p, u)
  BY <1>4
<1> HIDE DEF Less
<1>6. IsStrictOrder(kept, less)
  BY <1>3, <1>5 DEF IsStrictOrder
<1>7. Contract!InOrder(kept, less) = InOrder(kept, less)
  BY OrdersAreShared
<1> DEFINE n == Cardinality(kept)
           order == Contract!Decoded(queries)
<1>8. order = InOrder(kept, less)
  BY <1>7 DEF Contract!Decoded
<1> HIDE DEF kept, less, order
<1>9. /\ order \in [1..n -> kept]
      /\ \A q \in kept : \E k \in 1..n : order[k] = q
      /\ \A j, k \in 1..n : order[j] = order[k] => j = k
  <2>1. n = Cardinality(kept)
    OBVIOUS
  <2> HIDE DEF n
  <2>3. IsFiniteSet(kept)
    BY <1>2
  <2>4. IsStrictOrder(kept, less)
    BY <1>6
  <2>2. /\ InOrder(kept, less) \in [1..n -> kept]
        /\ \A q \in kept : \E k \in 1..n : InOrder(kept, less)[k] = q
        /\ \A j, k \in 1..n :
             /\ j < k <=> <<InOrder(kept, less)[j], InOrder(kept, less)[k]>> \in less
             /\ j = k <=> InOrder(kept, less)[j] = InOrder(kept, less)[k]
    BY <2>3, <2>4, <2>1, OrderIsSorted
  <2> QED
    BY <1>8, <2>2
<1> QED
  BY <1>2, <1>9 DEF kept, order

\* The nodes of the queries of a type.
NodesOf(type, order, queries) ==
    [q \in DOMAIN queries |-> Contract!DecodedId(type, order, q)]

\* The node of a query that exists has the place the query is decoded at.
LEMMA NodesAreDecoded ==
    ASSUME NEW queries, IsQueries(queries), Likely \in Int, NEW type,
           \A k \in Nat : <<type, k>> # None
    PROVE  LET node == NodesOf(type, Contract!Decoded(queries), queries)
               n == Cardinality(Contract!Existing(queries))
           IN  \A q \in DOMAIN queries :
                 /\ q \notin Contract!Existing(queries) => node[q] = None
                 /\ q \in Contract!Existing(queries) =>
                      \E k \in 1..n : Contract!Decoded(queries)[k] = q /\ node[q] = <<type, k>>
<1> DEFINE kept == Contract!Existing(queries)
           n == Cardinality(kept)
           order == Contract!Decoded(queries)
<1>1. /\ n \in Nat /\ order \in [1..n -> kept]
      /\ \A q \in kept : \E k \in 1..n : order[k] = q
  BY DecodedIsExisting
<1> HIDE DEF kept, n, order
<1>2. Contract!ToSet(order) = kept
  BY <1>1 DEF Contract!ToSet
<1> SUFFICES ASSUME NEW q \in DOMAIN queries
             PROVE  /\ q \notin kept => Contract!DecodedId(type, order, q) = None
                    /\ q \in kept => \E k \in 1..n :
                         order[k] = q /\ Contract!DecodedId(type, order, q) = <<type, k>>
  BY DEF NodesOf, order, kept, n
<1>3. ASSUME q \in kept
      PROVE  \E k \in 1..n : order[k] = q /\ Contract!DecodedId(type, order, q) = <<type, k>>
  <2> DEFINE k == CHOOSE j \in DOMAIN order : order[j] = q
  <2>1. k \in 1..n /\ order[k] = q
    BY <1>1, <1>3
  <2>2. Contract!DecodedId(type, order, q) = <<type, (k - 1) + 1>>
    BY <1>2, <1>3 DEF Contract!DecodedId, Contract!NodeId
  <2> HIDE DEF k
  <2>3. (k - 1) + 1 = k
    BY <1>1, <2>1
  <2> QED
    BY <2>1, <2>2, <2>3
<1> QED
  BY <1>2, <1>3 DEF Contract!DecodedId

\* A query has a node if it exists, that of a place, and no other has the same.
LEMMA NodesAreDistinct ==
    ASSUME NEW queries, IsQueries(queries), Likely \in Int, NEW type,
           \A k \in Nat : <<type, k>> # None
    PROVE  LET node == NodesOf(type, Contract!Decoded(queries), queries)
               n == Cardinality(Contract!Existing(queries))
           IN  /\ \A q \in DOMAIN queries : /\ q \in Contract!Existing(queries) <=> node[q] # None
                                            /\ node[q] # None => \E k \in 1..n : node[q] = <<type, k>>
               /\ \A q, r \in DOMAIN queries : node[q] # None /\ node[q] = node[r] => q = r
<1> DEFINE kept == Contract!Existing(queries)
           n == Cardinality(kept)
           order == Contract!Decoded(queries)
           node == NodesOf(type, order, queries)
<1>1. \A q \in DOMAIN queries :
        /\ q \notin kept => node[q] = None
        /\ q \in kept => \E k \in 1..n : order[k] = q /\ node[q] = <<type, k>>
  BY NodesAreDecoded
<1>2. n \in Nat
  BY DecodedIsExisting
<1> HIDE DEF kept, n, order, node
<1>3. \A k \in 1..n : <<type, k>> # None
  BY <1>2
<1>4. \A q \in DOMAIN queries : q \in kept <=> node[q] # None
  BY <1>1, <1>3
<1>5. ASSUME NEW q \in DOMAIN queries, NEW r \in DOMAIN queries, node[q] # None, node[q] = node[r]
      PROVE  q = r
  <2>1. PICK k \in 1..n : order[k] = q /\ node[q] = <<type, k>>
    BY <1>1, <1>5
  <2>2. PICK j \in 1..n : order[j] = r /\ node[r] = <<type, j>>
    BY <1>1, <1>5
  <2>3. <<type, k>> = <<type, j>>
    BY <1>5, <2>1, <2>2
  <2>4. k = j
    BY <2>3
  <2> QED
    BY <2>1, <2>2, <2>4
<1> QED
  BY <1>1, <1>4, <1>5 DEF kept, n, order, node

\* The least and the greatest of two numbers.
LEMMA LeastOfTwo ==
    ASSUME NEW a \in Int, NEW b \in Int
    PROVE  /\ Contract!Min({a, b}) = IF a <= b THEN a ELSE b
           /\ Contract!Max({a, b}) = IF a >= b THEN a ELSE b
<1>1. Contract!Min({a, b}) = IF a <= b THEN a ELSE b
  BY DEF Contract!Min
<1>2. Contract!Max({a, b}) = IF a >= b THEN a ELSE b
  BY DEF Contract!Max
<1> QED
  BY <1>1, <1>2

\* A box the decoder makes is half open, with an area, whatever the corners.
LEMMA BoxesHaveAnArea ==
    ASSUME NEW a, \A k \in 1..4 : a[k] \in Int, Unit \in Nat \ {0}
    PROVE  Contract!BoxOk(Contract!OrderedBox(a))
<1> DEFINE clamp(x) == Contract!Min({Unit, Contract!Max({0, x})})
           widen(lo, hi) == IF lo = hi THEN <<Contract!Max({0, lo - 1}), Contract!Min({Unit, hi + 1})>>
                            ELSE <<lo, hi>>
           xlo == clamp(Contract!Min({a[1], a[3]}))
           xhi == clamp(Contract!Max({a[1], a[3]}))
           ylo == clamp(Contract!Min({a[2], a[4]}))
           yhi == clamp(Contract!Max({a[2], a[4]}))
<1>1. ASSUME NEW x \in Int
      PROVE  clamp(x) = IF x <= 0 THEN 0 ELSE IF x >= Unit THEN Unit ELSE x
  <2>1. Contract!Max({0, x}) = IF 0 >= x THEN 0 ELSE x
    BY LeastOfTwo
  <2> DEFINE m == Contract!Max({0, x})
  <2>2. m \in Int
    BY <2>1
  <2> HIDE DEF m
  <2>3. Contract!Min({Unit, m}) = IF Unit <= m THEN Unit ELSE m
    BY <2>2, LeastOfTwo
  <2> QED
    BY <2>1, <2>3 DEF m
<1>2. ASSUME NEW x \in Int, NEW y \in Int
      PROVE  /\ Contract!Min({x, y}) \in Int /\ Contract!Max({x, y}) \in Int
             /\ Contract!Min({x, y}) <= Contract!Max({x, y})
  BY LeastOfTwo
<1> HIDE DEF clamp
<1>3. ASSUME NEW x \in Int, NEW y \in Int
      PROVE  LET lo == clamp(Contract!Min({x, y}))
                 hi == clamp(Contract!Max({x, y}))
             IN  lo \in 0..Unit /\ hi \in 0..Unit /\ lo <= hi
  <2> DEFINE lo == Contract!Min({x, y})
             hi == Contract!Max({x, y})
  <2>1. lo \in Int /\ hi \in Int /\ lo <= hi
    BY <1>2
  <2> HIDE DEF lo, hi
  <2>2. /\ clamp(lo) = IF lo <= 0 THEN 0 ELSE IF lo >= Unit THEN Unit ELSE lo
        /\ clamp(hi) = IF hi <= 0 THEN 0 ELSE IF hi >= Unit THEN Unit ELSE hi
    BY <1>1, <2>1
  <2>3. clamp(lo) \in 0..Unit /\ clamp(hi) \in 0..Unit /\ clamp(lo) <= clamp(hi)
    BY <2>1, <2>2
  <2> QED
    BY <2>3 DEF lo, hi
<1>4. xlo \in 0..Unit /\ xhi \in 0..Unit /\ ylo \in 0..Unit /\ yhi \in 0..Unit /\ xlo <= xhi /\ ylo <= yhi
  BY <1>3
<1>5. Contract!OrderedBox(a) = [x0 |-> widen(xlo, xhi)[1], x1 |-> widen(xlo, xhi)[2],
                                y0 |-> widen(ylo, yhi)[1], y1 |-> widen(ylo, yhi)[2]]
  BY DEF Contract!OrderedBox, clamp
<1>6. \A x \in Int : Contract!Max({0, x}) = IF 0 >= x THEN 0 ELSE x
  BY LeastOfTwo
<1>7. ASSUME NEW lo \in 0..Unit, NEW hi \in 0..Unit, lo <= hi
      PROVE  0 <= widen(lo, hi)[1] /\ widen(lo, hi)[1] < widen(lo, hi)[2] /\ widen(lo, hi)[2] <= Unit
  <2> DEFINE a1 == lo - 1
             b1 == hi + 1
  <2>1. a1 \in Int /\ b1 \in Int /\ a1 = lo - 1 /\ b1 = hi + 1
    OBVIOUS
  <2> HIDE DEF a1, b1
  <2>6. Contract!Max({0, a1}) = IF 0 >= a1 THEN 0 ELSE a1
    BY <1>6, <2>1
  <2>7. Contract!Min({Unit, b1}) = IF Unit <= b1 THEN Unit ELSE b1
    BY <2>1, LeastOfTwo
  <2>3. /\ Contract!Max({0, lo - 1}) = Contract!Max({0, a1})
        /\ Contract!Min({Unit, hi + 1}) = Contract!Min({Unit, b1})
    BY DEF a1, b1
  <2>4. CASE lo = hi
    <3>1. widen(lo, hi) = <<Contract!Max({0, a1}), Contract!Min({Unit, b1})>>
      BY <2>3, <2>4
    <3> HIDE DEF widen
    <3> QED
      BY <1>7, <2>1, <2>6, <2>7, <3>1
  <2>5. CASE lo # hi
    <3>1. widen(lo, hi) = <<lo, hi>>
      BY <2>5
    <3> HIDE DEF widen
    <3> QED
      BY <1>7, <2>5, <3>1
  <2> QED
    BY <2>4, <2>5
<1> HIDE DEF widen, xlo, xhi, ylo, yhi
<1> QED
  BY <1>4, <1>5, <1>7 DEF Contract!BoxOk

\* The nodes of the ends are places, no two ends have the same one, and pairs are pairs.
AreEnds(ranks, from, to, t, u) ==
    /\ \A p \in DOMAIN ranks :
         /\ from[p[1]] # None => \E k \in Nat : from[p[1]] = <<t, k>>
         /\ to[p[2]] # None => \E k \in Nat : to[p[2]] = <<u, k>>
    /\ \A p, q \in DOMAIN ranks :
         /\ from[p[1]] # None /\ from[p[1]] = from[q[1]] => p[1] = q[1]
         /\ to[p[2]] # None /\ to[p[2]] = to[q[2]] => p[2] = q[2]
    /\ \A p \in DOMAIN ranks : p = <<p[1], p[2]>>

\* The pairs whose ends have nodes and whose edge is likely.
LikelyNamed(ranks, from, to) ==
    {p \in DOMAIN ranks : from[p[1]] # None /\ to[p[2]] # None /\ ranks[p] >= Likely}

\* So many edges of a type, each named by its ends, no two of the same ends.
AreEdges(edges, n, key, type) ==
    /\ IsList(edges, n)
    /\ \A k \in 1..n : /\ edges[k].type = type /\ edges[k].sound
                       /\ edges[k].id = Contract!EdgeId(key, type, edges[k].source, edges[k].target)
    /\ \A j, k \in 1..n : edges[j].source = edges[k].source /\ edges[j].target = edges[k].target => j = k

\* Their ends are places of a type.
EndAt(edges, n, t, a, u, b) ==
    \A k \in 1..n : /\ \E i \in 1..a : edges[k].source = <<t, i>>
                    /\ \E i \in 1..b : edges[k].target = <<u, i>>

\* The edges decoded between the nodes of two types are the likely ones, each once.
LEMMA EdgesAreLikely ==
    ASSUME NEW ranks, IsFiniteSet(DOMAIN ranks), NEW t, NEW u, NEW from, NEW to,
           AreEnds(ranks, from, to, t, u), NEW key, NEW type
    PROVE  LET kept == LikelyNamed(ranks, from, to)
               edges == Contract!DecodedEdges(key, type, ranks, from, to)
               n == Cardinality(kept)
           IN  /\ n \in Nat /\ n <= Cardinality(DOMAIN ranks)
               /\ AreEdges(edges, n, key, type)
               /\ \A k \in 1..n : \E p \in kept : /\ edges[k].source = from[p[1]]
                                                  /\ edges[k].target = to[p[2]]
<1> DEFINE kept == LikelyNamed(ranks, from, to)
           pairs == Contract!LikelyPairs(ranks, from, to)
           less == Contract!EndOrder(pairs)
           n == Cardinality(kept)
           order == InOrder(pairs, less)
           Less(f, h) == f[1][2] < h[1][2] \/ (f[1] = h[1] /\ f[2][2] < h[2][2])
<1>1. kept \in SUBSET DOMAIN ranks
  BY DEF LikelyNamed
<1>2. pairs = {<<from[p[1]], to[p[2]]>> : p \in kept}
  BY DEF Contract!LikelyPairs, LikelyNamed
<1>3. \A p \in DOMAIN ranks : p \in kept <=> from[p[1]] # None /\ to[p[2]] # None /\ ranks[p] >= Likely
  BY DEF LikelyNamed
<1> HIDE DEF kept
<1>4. IsFiniteSet(kept)
  BY <1>1, FS_Subset
<1>5. n \in Nat /\ n <= Cardinality(DOMAIN ranks)
  BY <1>1, FS_Subset, FS_CardinalityType
<1>6. IsFiniteSet(pairs) /\ Cardinality(pairs) = n
  <2> DEFINE pair == [p \in kept |-> <<from[p[1]], to[p[2]]>>]
  <2>1. \A p, q \in kept : pair[p] = pair[q] => p = q
    BY <1>1, <1>3 DEF AreEnds
  <2>2. pair \in [kept -> pairs] /\ \A e \in pairs : \E p \in kept : pair[p] = e
    BY <1>2
  <2> HIDE DEF pair, pairs
  <2>3. pair \in Bijection(kept, pairs)
    BY <2>1, <2>2 DEF Bijection, Injection, Surjection, IsInjective
  <2>4. ExistsBijection(kept, pairs)
    BY <2>3 DEF ExistsBijection
  <2> QED
    BY <1>4, <2>4, FS_Bijection
<1>7. \A e \in pairs : \E j, k \in Nat : e = <<<<t, j>>, <<u, k>>>>
  <2> TAKE e \in pairs
  <2>1. PICK p \in kept : e = <<from[p[1]], to[p[2]]>>
    BY <1>2
  <2>2. p \in DOMAIN ranks /\ from[p[1]] # None /\ to[p[2]] # None
    BY <1>1, <1>3
  <2>3. PICK j \in Nat : from[p[1]] = <<t, j>>
    BY <2>2 DEF AreEnds
  <2>4. PICK k \in Nat : to[p[2]] = <<u, k>>
    BY <2>2 DEF AreEnds
  <2> QED
    BY <2>1, <2>3, <2>4
<1>8. \A e, f \in pairs : <<e, f>> \in less <=> Less(e, f)
  BY DEF Contract!EndOrder
<1> HIDE DEF pairs, less, n
<1>9. \A e, f \in pairs : /\ ~Less(e, e) /\ (e = f \/ Less(e, f) \/ Less(f, e))
                          /\ \A h \in pairs : Less(e, f) /\ Less(f, h) => Less(e, h)
  <2>1. ASSUME NEW e \in pairs, NEW f \in pairs
        PROVE  ~Less(e, e) /\ (e = f \/ Less(e, f) \/ Less(f, e))
    <3>1. PICK a, b \in Nat : e = <<<<t, a>>, <<u, b>>>>
      BY <1>7
    <3>2. PICK c, d \in Nat : f = <<<<t, c>>, <<u, d>>>>
      BY <1>7
    <3> QED
      BY <3>1, <3>2
  <2>2. ASSUME NEW e \in pairs, NEW f \in pairs, NEW h \in pairs, Less(e, f), Less(f, h)
        PROVE  Less(e, h)
    <3>1. PICK a, b \in Nat : e = <<<<t, a>>, <<u, b>>>>
      BY <1>7
    <3>2. PICK c, d \in Nat : f = <<<<t, c>>, <<u, d>>>>
      BY <1>7
    <3>3. PICK i, j \in Nat : h = <<<<t, i>>, <<u, j>>>>
      BY <1>7
    <3> QED
      BY <2>2, <3>1, <3>2, <3>3
  <2> QED
    BY <2>1, <2>2
<1> HIDE DEF Less
<1>10. IsStrictOrder(pairs, less)
  BY <1>8, <1>9 DEF IsStrictOrder
<1>11. IsFiniteSet(pairs) /\ n = Cardinality(pairs)
  BY <1>6
<1>12. /\ order \in [1..n -> pairs]
       /\ \A j, k \in 1..n : order[j] = order[k] => j = k
  <2>1. IsFiniteSet(pairs)
    BY <1>6
  <2>2. n = Cardinality(pairs)
    BY <1>6
  <2>3. /\ InOrder(pairs, less) \in [1..n -> pairs]
        /\ \A j, k \in 1..n :
             /\ j < k <=> <<InOrder(pairs, less)[j], InOrder(pairs, less)[k]>> \in less
             /\ j = k <=> InOrder(pairs, less)[j] = InOrder(pairs, less)[k]
    BY <1>10, <2>1, <2>2, OrderIsSorted
  <2> QED
    BY <2>3
<1> DEFINE edges == Contract!DecodedEdges(key, type, ranks, from, to)
           edge(e) == [id |-> Contract!EdgeId(key, type, e[1], e[2]), type |-> type, source |-> e[1],
                       target |-> e[2], sound |-> TRUE]
<1>13. edges = [k \in DOMAIN order |-> edge(order[k])]
  <2>1. Contract!InOrder(pairs, less) = order
    BY OrdersAreShared
  <2> QED
    BY <2>1 DEF Contract!DecodedEdges, pairs, less
<1> HIDE DEF edges, order
<1>14. edges = [k \in 1..n |-> edge(order[k])]
  BY <1>12, <1>13
<1>15. \A k \in 1..n : order[k] \in pairs /\ edges[k] = edge(order[k])
  BY <1>12, <1>14
<1>16. \A k \in 1..n : /\ edges[k].type = type /\ edges[k].sound
                       /\ edges[k].id = Contract!EdgeId(key, type, edges[k].source, edges[k].target)
                       /\ \E p \in kept : edges[k].source = from[p[1]] /\ edges[k].target = to[p[2]]
  <2> TAKE k \in 1..n
  <2>1. PICK p \in kept : order[k] = <<from[p[1]], to[p[2]]>>
    BY <1>2, <1>15
  <2>2. edges[k] = edge(order[k])
    BY <1>15
  <2>3. order[k][1] = from[p[1]] /\ order[k][2] = to[p[2]]
    BY <2>1
  <2> QED
    BY <2>2, <2>3
<1>17. \A j, k \in 1..n : edges[j].source = edges[k].source /\ edges[j].target = edges[k].target => j = k
  <2>1. \A e, f \in pairs : e[1] = f[1] /\ e[2] = f[2] => e = f
    BY <1>7
  <2>2. ASSUME NEW k \in 1..n
        PROVE  edges[k].source = order[k][1] /\ edges[k].target = order[k][2]
    <3>1. edges[k] = edge(order[k])
      BY <1>15
    <3> QED
      BY <3>1
  <2> QED
    BY <1>12, <1>15, <2>1, <2>2
<1>18. IsList(edges, n)
  BY <1>14 DEF IsList
<1> QED
  BY <1>5, <1>16, <1>17, <1>18 DEF kept, n, edges, AreEdges

\* The nodes of a graph whose identities are the places of its collections, and their types.
LEMMA NodesArePlaces ==
    ASSUME NEW g, NEW a \in Nat, NEW b \in Nat, NEW c \in Nat,
           IsList(g.lanes, a), IsList(g.controls, b), IsList(g.areas, c),
           \A k \in 1..a : g.lanes[k].id = <<1, k>>,
           \A k \in 1..b : g.controls[k].id = <<2, k>>,
           \A k \in 1..c : g.areas[k].id = <<3, k>>
    PROVE  LET nodes == Contract!TypedNodes(g)
           IN  /\ \A j \in DOMAIN nodes :
                    \/ \E k \in 1..a : nodes[j][1] = g.lanes[k] /\ nodes[j][2] = 1
                    \/ \E k \in 1..b : nodes[j][1] = g.controls[k] /\ nodes[j][2] = 2
                    \/ \E k \in 1..c : nodes[j][1] = g.areas[k] /\ nodes[j][2] = 3
               /\ Contract!Injective([j \in DOMAIN nodes |-> nodes[j][1].id])
               /\ \A k \in 1..a : Contract!TypeOf(g, <<1, k>>) = 1
               /\ \A k \in 1..b : Contract!TypeOf(g, <<2, k>>) = 2
<1> DEFINE lanes == [k \in 1..a |-> <<g.lanes[k], 1>>]
           controls == [k \in 1..b |-> <<g.controls[k], 2>>]
           areas == [k \in 1..c |-> <<g.areas[k], 3>>]
           nodes == Joined(Joined(lanes, controls), areas)
           ab == a + b
<1>1. Contract!TypedNodes(g) = nodes
  <2>1. DOMAIN g.lanes = 1..a /\ DOMAIN g.controls = 1..b /\ DOMAIN g.areas = 1..c
    BY DEF IsList
  <2> QED
    BY <2>1 DEF Contract!TypedNodes, Contract!Lane, Contract!Control, Contract!Area, Joined
<1>2. ab \in Nat /\ ab = a + b
  OBVIOUS
<1> HIDE DEF ab
<1>3. IsList(lanes, a) /\ IsList(controls, b) /\ IsList(areas, c)
  BY DEF IsList
<1> HIDE DEF lanes, controls, areas
<1>4. /\ IsList(nodes, ab + c)
      /\ \A k \in 1..a : nodes[k] = lanes[k]
      /\ \A k \in 1..b : nodes[a + k] = controls[k]
      /\ \A k \in 1..c : nodes[ab + k] = areas[k]
  BY <1>2, <1>3, Concatenations
<1>5. /\ \A k \in 1..a : lanes[k] = <<g.lanes[k], 1>>
      /\ \A k \in 1..b : controls[k] = <<g.controls[k], 2>>
      /\ \A k \in 1..c : areas[k] = <<g.areas[k], 3>>
  BY DEF lanes, controls, areas
<1> HIDE DEF nodes
<1>6. DOMAIN nodes = 1..(ab + c)
  BY <1>4 DEF IsList
\* The node at place j of the list is the one at place k of its collection.
<1> DEFINE LaneAt(j, k) == k \in 1..a /\ j = k /\ nodes[j] = <<g.lanes[k], 1>>
           ControlAt(j, k) == k \in 1..b /\ j = a + k /\ nodes[j] = <<g.controls[k], 2>>
           AreaAt(j, k) == k \in 1..c /\ j = ab + k /\ nodes[j] = <<g.areas[k], 3>>
           Place(j, type, k) ==
             /\ nodes[j][1].id = <<type, k>> /\ nodes[j][2] = type
             /\ \/ type = 1 /\ LaneAt(j, k)
                \/ type = 2 /\ ControlAt(j, k)
                \/ type = 3 /\ AreaAt(j, k)
<1>7. ASSUME NEW k \in 1..a PROVE k \in DOMAIN nodes /\ LaneAt(k, k) /\ Place(k, 1, k)
  <2>1. k \in 1..ab /\ k \in 1..(ab + c)
    BY <1>2
  <2>2. nodes[k] = <<g.lanes[k], 1>>
    BY <1>4, <1>5
  <2>3. nodes[k][1].id = <<1, k>> /\ nodes[k][2] = 1
    BY <2>2
  <2> QED
    BY <1>6, <2>1, <2>2, <2>3
<1>8. ASSUME NEW k \in 1..b PROVE a + k \in DOMAIN nodes /\ ControlAt(a + k, k) /\ Place(a + k, 2, k)
  <2>1. a + k \in 1..ab /\ a + k \in 1..(ab + c)
    BY <1>2
  <2>2. nodes[a + k] = <<g.controls[k], 2>>
    BY <1>4, <1>5
  <2>3. nodes[a + k][1].id = <<2, k>> /\ nodes[a + k][2] = 2
    BY <2>2
  <2> QED
    BY <1>6, <2>1, <2>2, <2>3
<1>9. ASSUME NEW k \in 1..c PROVE ab + k \in DOMAIN nodes /\ AreaAt(ab + k, k) /\ Place(ab + k, 3, k)
  <2>1. ab + k \in 1..(ab + c)
    BY <1>2
  <2>2. nodes[ab + k] = <<g.areas[k], 3>>
    BY <1>4, <1>5
  <2>3. nodes[ab + k][1].id = <<3, k>> /\ nodes[ab + k][2] = 3
    BY <2>2
  <2> QED
    BY <1>6, <2>1, <2>2, <2>3
<1>10. \A i, j, type, k : Place(i, type, k) /\ Place(j, type, k) => i = j
  OBVIOUS
<1>11. ASSUME NEW j \in DOMAIN nodes PROVE \E type, k : Place(j, type, k)
  <2> HIDE DEF Place, LaneAt, ControlAt, AreaAt
  <2>1. j \in Int /\ 1 <= j /\ j <= ab + c
    BY <1>2, <1>6
  <2>2. CASE j <= a
    <3>1. j \in 1..a
      BY <2>1, <2>2
    <3> QED
      BY <1>7, <3>1
  <2>3. CASE a < j /\ j <= ab
    <3> DEFINE k == j - a
    <3>1. k \in 1..b /\ j = a + k
      BY <1>2, <2>1, <2>3
    <3> HIDE DEF k
    <3> QED
      BY <1>8, <3>1
  <2>4. CASE ab < j
    <3> DEFINE k == j - ab
    <3>1. k \in 1..c /\ j = ab + k
      BY <1>2, <2>1, <2>4
    <3> HIDE DEF k
    <3> QED
      BY <1>9, <3>1
  <2> QED
    BY <1>2, <2>1, <2>2, <2>3, <2>4
<1>12. \A i, j \in DOMAIN nodes : nodes[i][1].id = nodes[j][1].id => i = j
  <2> TAKE i, j \in DOMAIN nodes
  <2> HAVE nodes[i][1].id = nodes[j][1].id
  <2>1. PICK t, k : Place(i, t, k)
    BY <1>11
  <2>2. PICK u, l : Place(j, u, l)
    BY <1>11
  <2>3. t = u /\ k = l
    <3>1. <<t, k>> = <<u, l>>
      BY <2>1, <2>2
    <3> QED
      BY <3>1
  <2> HIDE DEF Place
  <2> QED
    BY <1>10, <2>1, <2>2, <2>3
<1>13. \A type, k, j : j \in DOMAIN nodes /\ Place(j, type, k) => Contract!TypeOf(g, <<type, k>>) = type
  <2> TAKE type, k, j
  <2> HAVE j \in DOMAIN nodes /\ Place(j, type, k)
  <2> DEFINE at == {i \in DOMAIN nodes : nodes[i][1].id = <<type, k>>}
  <2>1. at = {j}
    BY <1>12
  <2>2. j \in Int
    BY <1>2, <1>6
  <2>3. Contract!Max(at) = j
    <3>1. Contract!Max({j}) = j
      BY <2>2 DEF Contract!Max
    <3> QED
      BY <2>1, <3>1
  <2>4. at # {}
    BY <2>1
  <2>5. Contract!TypeOf(g, <<type, k>>) = IF at = {} THEN None ELSE nodes[Contract!Max(at)][2]
    BY <1>1 DEF Contract!TypeOf
  <2> QED
    BY <2>3, <2>4, <2>5
<1>14. Contract!Injective([j \in DOMAIN nodes |-> nodes[j][1].id])
  BY <1>12 DEF Contract!Injective
<1>15. ASSUME NEW j \in DOMAIN nodes
       PROVE  \/ \E k \in 1..a : nodes[j][1] = g.lanes[k] /\ nodes[j][2] = 1
              \/ \E k \in 1..b : nodes[j][1] = g.controls[k] /\ nodes[j][2] = 2
              \/ \E k \in 1..c : nodes[j][1] = g.areas[k] /\ nodes[j][2] = 3
  <2>1. PICK type, k : Place(j, type, k)
    BY <1>11
  <2> QED
    BY <2>1
<1> HIDE DEF Place, LaneAt, ControlAt, AreaAt
<1>16. /\ \A k \in 1..a : Contract!TypeOf(g, <<1, k>>) = 1
       /\ \A k \in 1..b : Contract!TypeOf(g, <<2, k>>) = 2
  BY <1>7, <1>8, <1>13
<1> QED
  BY <1>1, <1>14, <1>15, <1>16

\* The graph has so many lanes, controls and areas, named by their places, each with the
\* numbers of a query that exists.
HasNodes(g, out, a, b, c) ==
    /\ g.role = "prediction"
    /\ IsList(g.lanes, a) /\ IsList(g.controls, b) /\ IsList(g.areas, c)
    /\ \A k \in 1..a : /\ g.lanes[k].id = <<1, k>> /\ g.lanes[k].track = None
                       /\ \E q \in Contract!Existing(out.lanes) : g.lanes[k].sound = out.lanes[q].sound
    /\ \A k \in 1..b : /\ g.controls[k].id = <<2, k>> /\ g.controls[k].track = None
                       /\ g.controls[k].camera = 1 /\ Contract!BoxOk(g.controls[k].box)
                       /\ \E q \in Contract!Existing(out.controls) :
                            g.controls[k].sound = out.controls[q].sound
    /\ \A k \in 1..c : /\ g.areas[k].id = <<3, k>> /\ g.areas[k].track = None
                       /\ \E q \in Contract!Existing(out.areas) : g.areas[k].sound = out.areas[q].sound

\* The decoder makes such nodes, as many as there are queries that exist.
LEMMA NodesAreThoseOfQueries ==
    ASSUME NEW sensed, NEW out, IsModelOutput(out), Likely \in Int, Unit \in Nat \ {0}
    PROVE  HasNodes(Contract!Postprocess(sensed, out), out, Cardinality(Contract!Existing(out.lanes)),
                    Cardinality(Contract!Existing(out.controls)), Cardinality(Contract!Existing(out.areas)))
<1> DEFINE g == Contract!Postprocess(sensed, out)
           lanes == Contract!Decoded(out.lanes)
           controls == Contract!Decoded(out.controls)
           areas == Contract!Decoded(out.areas)
           a == Cardinality(Contract!Existing(out.lanes))
           b == Cardinality(Contract!Existing(out.controls))
           c == Cardinality(Contract!Existing(out.areas))
           node(type, k, query) == [id |-> Contract!NodeId(type, k - 1), sound |-> query.sound, track |-> None]
<1>1. a \in Nat /\ lanes \in [1..a -> Contract!Existing(out.lanes)]
  BY DecodedIsExisting DEF IsModelOutput
<1>2. b \in Nat /\ controls \in [1..b -> Contract!Existing(out.controls)]
  BY DecodedIsExisting DEF IsModelOutput
<1>3. c \in Nat /\ areas \in [1..c -> Contract!Existing(out.areas)]
  BY DecodedIsExisting DEF IsModelOutput
<1>4. /\ g.role = "prediction"
      /\ g.lanes = [k \in DOMAIN lanes |-> node(1, k, out.lanes[lanes[k]])]
      /\ g.controls = [k \in DOMAIN controls |->
           [id |-> Contract!NodeId(2, k - 1), sound |-> out.controls[controls[k]].sound, track |-> None,
            camera |-> 1, box |-> Contract!OrderedBox(out.controls[controls[k]].corners)]]
      /\ g.areas = [k \in DOMAIN areas |-> node(3, k, out.areas[areas[k]])]
  BY DEF Contract!Postprocess, Contract!Lane, Contract!Control, Contract!Area
<1> HIDE DEF g, lanes, controls, areas, a, b, c
<1>5. \A type, n, k : k \in 1..n /\ n \in Nat => Contract!NodeId(type, k - 1) = <<type, k>>
  BY DEF Contract!NodeId
<1>6. ASSUME NEW k \in 1..a
      PROVE  /\ g.lanes[k].id = <<1, k>> /\ g.lanes[k].track = None
             /\ \E q \in Contract!Existing(out.lanes) : g.lanes[k].sound = out.lanes[q].sound
  <2>1. lanes[k] \in Contract!Existing(out.lanes)
    BY <1>1
  <2>2. g.lanes[k] = node(1, k, out.lanes[lanes[k]])
    BY <1>1, <1>4
  <2>3. Contract!NodeId(1, k - 1) = <<1, k>>
    BY <1>1, <1>5
  <2>4. /\ g.lanes[k].id = <<1, k>> /\ g.lanes[k].track = None
        /\ g.lanes[k].sound = out.lanes[lanes[k]].sound
    BY <2>2, <2>3
  <2> QED
    BY <2>1, <2>4
<1>7. ASSUME NEW k \in 1..b
      PROVE  /\ g.controls[k].id = <<2, k>> /\ g.controls[k].track = None
             /\ g.controls[k].camera = 1 /\ Contract!BoxOk(g.controls[k].box)
             /\ \E q \in Contract!Existing(out.controls) : g.controls[k].sound = out.controls[q].sound
  <2> DEFINE query == out.controls[controls[k]]
  <2>1. controls[k] \in Contract!Existing(out.controls)
    BY <1>2
  <2>2. g.controls[k] = [id |-> Contract!NodeId(2, k - 1), sound |-> query.sound, track |-> None,
                         camera |-> 1, box |-> Contract!OrderedBox(query.corners)]
    BY <1>2, <1>4
  <2>3. \A i \in 1..4 : query.corners[i] \in Int
    BY <2>1 DEF IsModelOutput, Contract!Existing
  <2> DEFINE corners == query.corners
  <2> HIDE DEF query
  <2>4. Contract!BoxOk(Contract!OrderedBox(corners))
    <3>1. \A i \in 1..4 : corners[i] \in Int
      BY <2>3
    <3> HIDE DEF corners
    <3> QED
      BY <3>1, BoxesHaveAnArea
  <2>5. g.controls[k].sound = out.controls[controls[k]].sound
    BY <2>2 DEF query
  <2>6. Contract!NodeId(2, k - 1) = <<2, k>>
    BY <1>2, <1>5
  <2>7. /\ g.controls[k].id = <<2, k>> /\ g.controls[k].track = None
        /\ g.controls[k].camera = 1 /\ g.controls[k].box = Contract!OrderedBox(corners)
    BY <2>2, <2>6
  <2> HIDE DEF corners
  <2> QED
    BY <2>1, <2>4, <2>5, <2>7
<1>8. ASSUME NEW k \in 1..c
      PROVE  /\ g.areas[k].id = <<3, k>> /\ g.areas[k].track = None
             /\ \E q \in Contract!Existing(out.areas) : g.areas[k].sound = out.areas[q].sound
  <2>1. areas[k] \in Contract!Existing(out.areas)
    BY <1>3
  <2>2. g.areas[k] = node(3, k, out.areas[areas[k]])
    BY <1>3, <1>4
  <2>3. Contract!NodeId(3, k - 1) = <<3, k>>
    BY <1>3, <1>5
  <2>4. /\ g.areas[k].id = <<3, k>> /\ g.areas[k].track = None
        /\ g.areas[k].sound = out.areas[areas[k]].sound
    BY <2>2, <2>3
  <2> QED
    BY <2>1, <2>4
<1>9. IsList(g.lanes, a) /\ IsList(g.controls, b) /\ IsList(g.areas, c)
  <2>1. DOMAIN lanes = 1..a /\ DOMAIN controls = 1..b /\ DOMAIN areas = 1..c
    BY <1>1, <1>2, <1>3
  <2> QED
    BY <1>4, <2>1 DEF IsList
<1> QED
  BY <1>4, <1>6, <1>7, <1>8, <1>9 DEF HasNodes, g, a, b, c

\* The graph has so many edges, each sound, named by its ends, from a lane to a lane or from a
\* control to a lane, and no two of one name.
HasEdges(g, a, b, n) ==
    /\ IsList(g.edges, n) /\ Len(g.edges) = n
    /\ \A k \in 1..n :
         LET e == g.edges[k]
         IN  /\ e.sound /\ e.id = Contract!EdgeId(g.key, e.type, e.source, e.target)
             /\ \/ e.type = "successor" /\ \E i \in 1..a : e.source = <<1, i>>
                \/ e.type = "applies" /\ \E i \in 1..b : e.source = <<2, i>>
             /\ \E j \in 1..a : e.target = <<1, j>>
    /\ \A j, k \in 1..n : g.edges[j].id = g.edges[k].id => j = k

\* The pairs of nodes of existing queries whose edge is likely.
LikelyEnds(ranks, from, to) ==
    {p \in DOMAIN ranks : /\ p[1] \in Contract!Existing(from) /\ p[2] \in Contract!Existing(to)
                          /\ ranks[p] >= Likely}

\* Of two types of query the decoder makes an edge for each such pair.
LEMMA EdgesOfTypes ==
    ASSUME NEW from, NEW to, IsQueries(from), IsQueries(to), Likely \in Int, NEW t, NEW u,
           \A k \in Nat : <<t, k>> # None, \A k \in Nat : <<u, k>> # None,
           NEW ranks, DOMAIN ranks = (DOMAIN from) \X (DOMAIN to), NEW key, NEW type
    PROVE  LET edges == Contract!DecodedEdges(key, type, ranks, NodesOf(t, Contract!Decoded(from), from),
                                              NodesOf(u, Contract!Decoded(to), to))
               n == Cardinality(LikelyEnds(ranks, from, to))
           IN  /\ n \in Nat /\ n <= Cardinality(DOMAIN ranks) /\ Cardinality(DOMAIN ranks) \in Nat
               /\ AreEdges(edges, n, key, type)
               /\ EndAt(edges, n, t, Cardinality(Contract!Existing(from)),
                        u, Cardinality(Contract!Existing(to)))
<1> DEFINE source == NodesOf(t, Contract!Decoded(from), from)
           target == NodesOf(u, Contract!Decoded(to), to)
           a == Cardinality(Contract!Existing(from))
           b == Cardinality(Contract!Existing(to))
           edges == Contract!DecodedEdges(key, type, ranks, source, target)
           kept == LikelyNamed(ranks, source, target)
           n == Cardinality(kept)
<1>1. /\ \A q \in DOMAIN from : /\ q \in Contract!Existing(from) <=> source[q] # None
                                /\ source[q] # None => \E k \in 1..a : source[q] = <<t, k>>
      /\ \A q, r \in DOMAIN from : source[q] # None /\ source[q] = source[r] => q = r
  BY NodesAreDistinct
<1>2. /\ \A q \in DOMAIN to : /\ q \in Contract!Existing(to) <=> target[q] # None
                              /\ target[q] # None => \E k \in 1..b : target[q] = <<u, k>>
      /\ \A q, r \in DOMAIN to : target[q] # None /\ target[q] = target[r] => q = r
  BY NodesAreDistinct
<1>3. a \in Nat /\ b \in Nat
  BY DecodedIsExisting
<1>4. \A p \in DOMAIN ranks : p[1] \in DOMAIN from /\ p[2] \in DOMAIN to /\ p = <<p[1], p[2]>>
  OBVIOUS
<1> HIDE DEF source, target, a, b
<1>5. kept = LikelyEnds(ranks, from, to)
  BY <1>1, <1>2, <1>4 DEF LikelyEnds, LikelyNamed
<1>6. IsFiniteSet(DOMAIN ranks)
  BY FS_Product DEF IsQueries
<1>7. Cardinality(DOMAIN ranks) \in Nat
  BY <1>6, FS_CardinalityType
<1>8. AreEnds(ranks, source, target, t, u)
  <2>1. ASSUME NEW p \in DOMAIN ranks
        PROVE  /\ source[p[1]] # None => \E k \in Nat : source[p[1]] = <<t, k>>
               /\ target[p[2]] # None => \E k \in Nat : target[p[2]] = <<u, k>>
    BY <1>1, <1>2, <1>3, <1>4
  <2>2. ASSUME NEW p \in DOMAIN ranks, NEW q \in DOMAIN ranks
        PROVE  /\ source[p[1]] # None /\ source[p[1]] = source[q[1]] => p[1] = q[1]
               /\ target[p[2]] # None /\ target[p[2]] = target[q[2]] => p[2] = q[2]
    BY <1>1, <1>2, <1>4
  <2> QED
    BY <1>4, <2>1, <2>2 DEF AreEnds
<1> HIDE DEF edges
<1>10. /\ n \in Nat /\ n <= Cardinality(DOMAIN ranks)
       /\ AreEdges(edges, n, key, type)
       /\ \A k \in 1..n : \E p \in kept : edges[k].source = source[p[1]] /\ edges[k].target = target[p[2]]
  BY <1>6, <1>8, EdgesAreLikely DEF edges
<1>11. ASSUME NEW k \in 1..n
       PROVE  /\ \E i \in 1..a : edges[k].source = <<t, i>>
              /\ \E i \in 1..b : edges[k].target = <<u, i>>
  <2>1. PICK p \in kept : edges[k].source = source[p[1]] /\ edges[k].target = target[p[2]]
    BY <1>10
  <2>2. p \in DOMAIN ranks /\ source[p[1]] # None /\ target[p[2]] # None
    BY <2>1 DEF LikelyNamed
  <2> QED
    BY <1>1, <1>2, <1>4, <2>1, <2>2
<1> QED
  BY <1>5, <1>7, <1>10, <1>11 DEF a, b, edges, source, target, EndAt

\* The edges of the graph are those of lanes and then those of controls.
LEMMA EdgesAreThoseOfPairs ==
    ASSUME NEW sensed, NEW out, IsModelOutput(out), Likely \in Int, \A type, k : <<type, k>> # None
    PROVE  LET m == Cardinality(LikelyEnds(out.successor, out.lanes, out.lanes))
               n == Cardinality(LikelyEnds(out.applies, out.controls, out.lanes))
           IN  /\ HasEdges(Contract!Postprocess(sensed, out), Cardinality(Contract!Existing(out.lanes)),
                           Cardinality(Contract!Existing(out.controls)), m + n)
               /\ m + n \in Nat
               /\ m + n <= Cardinality(DOMAIN out.successor) + Cardinality(DOMAIN out.applies)
<1> DEFINE g == Contract!Postprocess(sensed, out)
           lane == NodesOf(1, Contract!Decoded(out.lanes), out.lanes)
           control == NodesOf(2, Contract!Decoded(out.controls), out.controls)
           first == Contract!DecodedEdges(sensed.key, "successor", out.successor, lane, lane)
           second == Contract!DecodedEdges(sensed.key, "applies", out.applies, control, lane)
           a == Cardinality(Contract!Existing(out.lanes))
           b == Cardinality(Contract!Existing(out.controls))
           m == Cardinality(LikelyEnds(out.successor, out.lanes, out.lanes))
           n == Cardinality(LikelyEnds(out.applies, out.controls, out.lanes))
<1>1. g.edges = Joined(first, second) /\ g.key = sensed.key
  BY DEF Contract!Postprocess, Contract!Lane, Contract!Control, Joined, NodesOf
<1>2. /\ m \in Nat /\ m <= Cardinality(DOMAIN out.successor) /\ Cardinality(DOMAIN out.successor) \in Nat
      /\ AreEdges(first, m, sensed.key, "successor") /\ EndAt(first, m, 1, a, 1, a)
  <2>1. IsQueries(out.lanes)
    BY DEF IsModelOutput
  <2>2. DOMAIN out.successor = (DOMAIN out.lanes) \X (DOMAIN out.lanes)
    BY DEF IsModelOutput
  <2>3. \A k \in Nat : <<1, k>> # None
    OBVIOUS
  <2> QED
    BY <2>1, <2>2, <2>3, EdgesOfTypes
<1>3. /\ n \in Nat /\ n <= Cardinality(DOMAIN out.applies) /\ Cardinality(DOMAIN out.applies) \in Nat
      /\ AreEdges(second, n, sensed.key, "applies") /\ EndAt(second, n, 2, b, 1, a)
  <2>1. IsQueries(out.lanes)
    BY DEF IsModelOutput
  <2>2. IsQueries(out.controls)
    BY DEF IsModelOutput
  <2>3. DOMAIN out.applies = (DOMAIN out.controls) \X (DOMAIN out.lanes)
    BY DEF IsModelOutput
  <2>4. \A k \in Nat : <<1, k>> # None
    OBVIOUS
  <2>5. \A k \in Nat : <<2, k>> # None
    OBVIOUS
  <2> QED
    BY <2>1, <2>2, <2>3, <2>4, <2>5, EdgesOfTypes
<1> HIDE DEF g, first, second, a, b, m, n
<1>4. /\ IsList(g.edges, m + n) /\ Len(g.edges) = m + n
      /\ \A k \in 1..m : g.edges[k] = first[k]
      /\ \A k \in 1..n : g.edges[m + k] = second[k]
  <2>1. IsList(first, m)
    BY <1>2 DEF AreEdges
  <2>2. IsList(second, n)
    BY <1>3 DEF AreEdges
  <2>3. m \in Nat /\ n \in Nat
    BY <1>2, <1>3
  <2>4. /\ IsList(Joined(first, second), m + n) /\ Len(Joined(first, second)) = m + n
        /\ \A k \in 1..m : Joined(first, second)[k] = first[k]
        /\ \A k \in 1..n : Joined(first, second)[m + k] = second[k]
    BY <2>1, <2>2, <2>3, Concatenation
  <2> QED
    BY <1>1, <2>4
<1>5. \A k \in 1..(m + n) : k \in 1..m \/ \E i \in 1..n : k = m + i
  <2> TAKE k \in 1..(m + n)
  <2>1. CASE k \in (m + 1)..(m + n)
    <3> DEFINE i == k - m
    <3>1. i \in 1..n /\ k = m + i
      BY <1>2, <1>3, <2>1
    <3> HIDE DEF i
    <3> QED
      BY <3>1
  <2> QED
    BY <1>2, <1>3, <2>1
<1>6. ASSUME NEW k \in 1..(m + n)
      PROVE  LET e == g.edges[k]
             IN  /\ e.sound /\ e.id = Contract!EdgeId(g.key, e.type, e.source, e.target)
                 /\ \/ e.type = "successor" /\ \E i \in 1..a : e.source = <<1, i>>
                    \/ e.type = "applies" /\ \E i \in 1..b : e.source = <<2, i>>
                 /\ \E j \in 1..a : e.target = <<1, j>>
  <2>1. CASE k \in 1..m
    <3>1. g.edges[k] = first[k]
      BY <1>4, <2>1
    <3> QED
      BY <1>1, <1>2, <2>1, <3>1 DEF AreEdges, EndAt
  <2>2. ASSUME NEW i \in 1..n, k = m + i
        PROVE  LET e == g.edges[k]
               IN  /\ e.sound /\ e.id = Contract!EdgeId(g.key, e.type, e.source, e.target)
                   /\ e.type = "applies" /\ \E h \in 1..b : e.source = <<2, h>>
                   /\ \E j \in 1..a : e.target = <<1, j>>
    <3>1. g.edges[k] = second[i]
      BY <1>4, <2>2
    <3> QED
      BY <1>1, <1>3, <3>1 DEF AreEdges, EndAt
  <2> QED
    BY <1>5, <2>1, <2>2
<1>7. ASSUME NEW j \in 1..(m + n), NEW k \in 1..(m + n), g.edges[j].id = g.edges[k].id
      PROVE  j = k
  <2>1. /\ g.edges[j].id = <<g.key.name, g.edges[j].type, g.edges[j].source, g.edges[j].target>>
        /\ g.edges[k].id = <<g.key.name, g.edges[k].type, g.edges[k].source, g.edges[k].target>>
    BY <1>6 DEF Contract!EdgeId
  <2>2. /\ g.edges[j].type = g.edges[k].type /\ g.edges[j].source = g.edges[k].source
        /\ g.edges[j].target = g.edges[k].target
    <3>1. \A x1, x2, x3, x4, y1, y2, y3, y4 :
            <<x1, x2, x3, x4>> = <<y1, y2, y3, y4>> => x2 = y2 /\ x3 = y3 /\ x4 = y4
      OBVIOUS
    <3>2. <<g.key.name, g.edges[j].type, g.edges[j].source, g.edges[j].target>>
            = <<g.key.name, g.edges[k].type, g.edges[k].source, g.edges[k].target>>
      BY <1>7, <2>1
    <3> QED
      BY <3>1, <3>2, Zenon
  <2>3. CASE j \in 1..m /\ k \in 1..m
    BY <1>2, <1>4, <2>2, <2>3 DEF AreEdges
  <2>4. ASSUME NEW h \in 1..n, NEW i \in 1..n, j = m + h, k = m + i
        PROVE  j = k
    <3>1. g.edges[j] = second[h] /\ g.edges[k] = second[i]
      BY <1>4, <2>4
    <3>2. h = i
      BY <1>3, <2>2, <3>1 DEF AreEdges
    <3> QED
      BY <2>4, <3>2
  <2>5. ASSUME NEW i \in 1..n, NEW h \in 1..m
        PROVE  g.edges[m + i].type # g.edges[h].type
    <3>1. g.edges[m + i].type = "applies"
      BY <1>3, <1>4 DEF AreEdges
    <3>2. g.edges[h].type = "successor"
      BY <1>2, <1>4 DEF AreEdges
    <3> QED
      BY <3>1, <3>2
  <2> QED
    BY <1>5, <2>2, <2>3, <2>4, <2>5
<1>8. HasEdges(g, a, b, m + n)
  BY <1>4, <1>6, <1>7 DEF HasEdges
<1>9. /\ m + n \in Nat
      /\ m + n <= Cardinality(DOMAIN out.successor) + Cardinality(DOMAIN out.applies)
  BY <1>2, <1>3
<1> QED
  BY <1>8, <1>9 DEF g, a, b, m, n

\* No identity is absent.
NoneIsNoIdentity ==
    /\ \A type, k : <<type, k>> # None
    /\ \A key, type, s, t : Contract!EdgeId(key, type, s, t) # None

\* Of such nodes and edges the names are distinct and every edge is between nodes of its type.
LEMMA GraphIsTyped ==
    ASSUME NEW g, NEW out, NEW a \in Nat, NEW b \in Nat, NEW c \in Nat, NEW n \in Nat,
           HasNodes(g, out, a, b, c), HasEdges(g, a, b, n), NoneIsNoIdentity
    PROVE  /\ LET nodes == Contract!TypedNodes(g)
              IN  /\ Contract!Injective([j \in DOMAIN nodes |-> nodes[j][1].id])
                  /\ \A j \in DOMAIN nodes : /\ nodes[j][1].id # None /\ nodes[j][1].track = None
                                             /\ nodes[j][1].id[1] = nodes[j][2]
                  /\ (\A t \in {"lanes", "controls", "areas"} :
                        \A q \in Contract!Existing(out[t]) : out[t][q].sound)
                     => \A j \in DOMAIN nodes : nodes[j][1].sound
           /\ Contract!Injective([k \in DOMAIN g.edges |-> g.edges[k].id])
           /\ \A k \in DOMAIN g.edges :
                /\ g.edges[k].sound /\ g.edges[k].id # None
                /\ g.edges[k].id = Contract!EdgeId(g.key, g.edges[k].type, g.edges[k].source, g.edges[k].target)
                /\ Contract!TypeOf(g, g.edges[k].target) = 1
                /\ \/ g.edges[k].type = "successor" /\ Contract!TypeOf(g, g.edges[k].source) = 1
                   \/ g.edges[k].type = "applies" /\ Contract!TypeOf(g, g.edges[k].source) = 2
<1> DEFINE nodes == Contract!TypedNodes(g)
<1>1. IsList(g.lanes, a)
  BY DEF HasNodes
<1>2. IsList(g.controls, b)
  BY DEF HasNodes
<1>3. IsList(g.areas, c)
  BY DEF HasNodes
<1>4. \A k \in 1..a : g.lanes[k].id = <<1, k>>
  BY DEF HasNodes
<1>5. \A k \in 1..b : g.controls[k].id = <<2, k>>
  BY DEF HasNodes
<1>6. \A k \in 1..c : g.areas[k].id = <<3, k>>
  BY DEF HasNodes
<1>7. /\ \A j \in DOMAIN nodes :
           \/ \E k \in 1..a : nodes[j][1] = g.lanes[k] /\ nodes[j][2] = 1
           \/ \E k \in 1..b : nodes[j][1] = g.controls[k] /\ nodes[j][2] = 2
           \/ \E k \in 1..c : nodes[j][1] = g.areas[k] /\ nodes[j][2] = 3
      /\ Contract!Injective([j \in DOMAIN nodes |-> nodes[j][1].id])
      /\ \A k \in 1..a : Contract!TypeOf(g, <<1, k>>) = 1
      /\ \A k \in 1..b : Contract!TypeOf(g, <<2, k>>) = 2
  BY <1>1, <1>2, <1>3, <1>4, <1>5, <1>6, NodesArePlaces
<1> HIDE DEF nodes
<1>8. ASSUME NEW j \in DOMAIN nodes
      PROVE  /\ nodes[j][1].id # None /\ nodes[j][1].track = None /\ nodes[j][1].id[1] = nodes[j][2]
             /\ \/ \E q \in Contract!Existing(out.lanes) : nodes[j][1].sound = out.lanes[q].sound
                \/ \E q \in Contract!Existing(out.controls) : nodes[j][1].sound = out.controls[q].sound
                \/ \E q \in Contract!Existing(out.areas) : nodes[j][1].sound = out.areas[q].sound
  <2>1. CASE \E k \in 1..a : nodes[j][1] = g.lanes[k] /\ nodes[j][2] = 1
    <3>1. PICK k \in 1..a : nodes[j][1] = g.lanes[k] /\ nodes[j][2] = 1
      BY <2>1
    <3>2. /\ g.lanes[k].id = <<1, k>> /\ g.lanes[k].track = None
          /\ \E q \in Contract!Existing(out.lanes) : g.lanes[k].sound = out.lanes[q].sound
      BY DEF HasNodes
    <3> QED
      BY <3>1, <3>2 DEF NoneIsNoIdentity
  <2>2. CASE \E k \in 1..b : nodes[j][1] = g.controls[k] /\ nodes[j][2] = 2
    <3>1. PICK k \in 1..b : nodes[j][1] = g.controls[k] /\ nodes[j][2] = 2
      BY <2>2
    <3>2. /\ g.controls[k].id = <<2, k>> /\ g.controls[k].track = None
          /\ \E q \in Contract!Existing(out.controls) : g.controls[k].sound = out.controls[q].sound
      BY DEF HasNodes
    <3> QED
      BY <3>1, <3>2 DEF NoneIsNoIdentity
  <2>3. CASE \E k \in 1..c : nodes[j][1] = g.areas[k] /\ nodes[j][2] = 3
    <3>1. PICK k \in 1..c : nodes[j][1] = g.areas[k] /\ nodes[j][2] = 3
      BY <2>3
    <3>2. /\ g.areas[k].id = <<3, k>> /\ g.areas[k].track = None
          /\ \E q \in Contract!Existing(out.areas) : g.areas[k].sound = out.areas[q].sound
      BY DEF HasNodes
    <3> QED
      BY <3>1, <3>2 DEF NoneIsNoIdentity
  <2> QED
    BY <1>7, <2>1, <2>2, <2>3
<1>9. ASSUME \A t \in {"lanes", "controls", "areas"} : \A q \in Contract!Existing(out[t]) : out[t][q].sound,
             NEW j \in DOMAIN nodes
      PROVE  nodes[j][1].sound
  <2>1. /\ \A q \in Contract!Existing(out.lanes) : out.lanes[q].sound
        /\ \A q \in Contract!Existing(out.controls) : out.controls[q].sound
        /\ \A q \in Contract!Existing(out.areas) : out.areas[q].sound
    BY <1>9
  <2> QED
    BY <1>8, <2>1
<1>10. DOMAIN g.edges = 1..n
  BY DEF HasEdges, IsList
<1>11. Contract!Injective([k \in DOMAIN g.edges |-> g.edges[k].id])
  BY <1>10 DEF HasEdges, Contract!Injective
<1>12. ASSUME NEW k \in 1..n
       PROVE  /\ g.edges[k].sound /\ g.edges[k].id # None
              /\ g.edges[k].id = Contract!EdgeId(g.key, g.edges[k].type, g.edges[k].source, g.edges[k].target)
              /\ Contract!TypeOf(g, g.edges[k].target) = 1
              /\ \/ g.edges[k].type = "successor" /\ Contract!TypeOf(g, g.edges[k].source) = 1
                 \/ g.edges[k].type = "applies" /\ Contract!TypeOf(g, g.edges[k].source) = 2
  <2> DEFINE e == g.edges[k]
  <2>1. /\ e.sound /\ e.id = Contract!EdgeId(g.key, e.type, e.source, e.target)
        /\ \/ e.type = "successor" /\ \E i \in 1..a : e.source = <<1, i>>
           \/ e.type = "applies" /\ \E i \in 1..b : e.source = <<2, i>>
        /\ \E j \in 1..a : e.target = <<1, j>>
    BY DEF HasEdges
  <2>2. e.id # None
    BY <2>1 DEF NoneIsNoIdentity
  <2> QED
    BY <1>7, <2>1, <2>2
<1> QED
  BY <1>7, <1>8, <1>9, <1>10, <1>11, <1>12 DEF nodes

\* The sensor frame that is passed on stays one both sides accept.
LEMMA SensorIsPassedOn ==
    ASSUME NEW sensed, NEW g, Contract!SensorOk(sensed), sensed.sensor # None,
           g.sensor = Contract!PassedOn(sensed.sensor), g.key = sensed.key
    PROVE  /\ Contract!SensorOk(g)
           /\ Contract!NativeRigid(g.sensor.world)
           /\ \A k \in DOMAIN g.sensor.cameras : Contract!NativeRigid(g.sensor.cameras[k].pose)
<1> DEFINE cameras == sensed.sensor.cameras
           camera(c) == [slot |-> c.slot, pose |-> c.pose, affine |-> c.affine \/ c.valid,
                         valid |-> c.valid, image |-> c.image]
<1>1. /\ sensed.sensor.key = sensed.key
      /\ [k \in DOMAIN cameras |-> cameras[k].slot] = [k \in 1..Slots |-> k]
      /\ Contract!Rigid(sensed.sensor.world)
      /\ \A k \in DOMAIN cameras : /\ Contract!Rigid(cameras[k].pose) /\ cameras[k].affine
                                   /\ cameras[k].valid => cameras[k].image
  BY DEF Contract!SensorOk
<1>2. /\ g.sensor.key = sensed.sensor.key /\ g.sensor.world = sensed.sensor.world
      /\ g.sensor.cameras = [k \in DOMAIN cameras |-> camera(cameras[k])]
  BY DEF Contract!PassedOn
<1>3. DOMAIN g.sensor.cameras = DOMAIN cameras
  BY <1>2
<1>4. \A k \in DOMAIN cameras :
        /\ g.sensor.cameras[k].slot = cameras[k].slot /\ g.sensor.cameras[k].pose = cameras[k].pose
        /\ g.sensor.cameras[k].affine = (cameras[k].affine \/ cameras[k].valid)
        /\ g.sensor.cameras[k].valid = cameras[k].valid /\ g.sensor.cameras[k].image = cameras[k].image
  <2> TAKE k \in DOMAIN cameras
  <2>1. g.sensor.cameras[k] = camera(cameras[k])
    BY <1>2
  <2> QED
    BY <2>1
<1> HIDE DEF cameras
<1>5. [k \in DOMAIN g.sensor.cameras |-> g.sensor.cameras[k].slot] = [k \in 1..Slots |-> k]
  BY <1>1, <1>3, <1>4
<1>6. Contract!SensorOk(g)
  BY <1>1, <1>2, <1>3, <1>4, <1>5 DEF Contract!SensorOk
<1> QED
  BY <1>1, <1>2, <1>3, <1>4, <1>6 DEF Contract!Rigid, Contract!NativeRigid

\* For every frame that Python accepts and every output of the model, whatever its ties, its
\* boxes and the number of its queries, the graph that runtime.cpp decodes is one the native
\* validator accepts up to its limits and Python accepts if the numbers of the model are in
\* range, with a node for every existing query and an edge for every likely pair of them.
THEOREM DecodedGraphIsReadable ==
    ASSUME NEW sensed, NEW out, Contract!PythonAccepts(sensed), sensed.sensor # None,
           IsModelOutput(out), LimitsAllow(out), NoneIsNoIdentity,
           Likely \in Int, Unit \in Nat \ {0}, Slots \in Nat \ {0}
    PROVE  Contract!GraphIsReadable(sensed, out)
<1> DEFINE g == Contract!Postprocess(sensed, out)
           a == Cardinality(Contract!Existing(out.lanes))
           b == Cardinality(Contract!Existing(out.controls))
           c == Cardinality(Contract!Existing(out.areas))
           m == Cardinality(LikelyEnds(out.successor, out.lanes, out.lanes))
           n == Cardinality(LikelyEnds(out.applies, out.controls, out.lanes))
           nodes == Contract!TypedNodes(g)
           sound == \A t \in {"lanes", "controls", "areas"} :
                      \A q \in Contract!Existing(out[t]) : out[t][q].sound
<1>1. /\ g.schema = 1 /\ g.finite /\ g.producer /\ g.role = "prediction" /\ g.key = sensed.key
      /\ g.sensor = Contract!PassedOn(sensed.sensor) /\ g.tracks = <<>> /\ g.artifacts = 0
  BY DEF Contract!Postprocess
<1>2. HasNodes(g, out, a, b, c)
  BY NodesAreThoseOfQueries
<1>3. /\ a \in Nat /\ a <= Cardinality(DOMAIN out.lanes)
      /\ b \in Nat /\ b <= Cardinality(DOMAIN out.controls)
      /\ c \in Nat /\ c <= Cardinality(DOMAIN out.areas)
  BY DecodedIsExisting DEF IsModelOutput
<1>4. /\ HasEdges(g, a, b, m + n) /\ m + n \in Nat
      /\ m + n <= Cardinality(DOMAIN out.successor) + Cardinality(DOMAIN out.applies)
  <2>1. \A type, k : <<type, k>> # None
    BY DEF NoneIsNoIdentity
  <2> QED
    BY <2>1, EdgesAreThoseOfPairs
<1>5. /\ Contract!SensorOk(g) /\ Contract!NativeRigid(g.sensor.world)
      /\ \A k \in DOMAIN g.sensor.cameras : Contract!NativeRigid(g.sensor.cameras[k].pose)
  <2>1. Contract!SensorOk(sensed)
    BY DEF Contract!PythonAccepts
  <2> QED
    BY <1>1, <2>1, SensorIsPassedOn
<1> HIDE DEF g, a, b, c, m, n
<1>6. /\ Contract!Injective([j \in DOMAIN nodes |-> nodes[j][1].id])
      /\ \A j \in DOMAIN nodes : /\ nodes[j][1].id # None /\ nodes[j][1].track = None
                                 /\ nodes[j][1].id[1] = nodes[j][2]
      /\ sound => \A j \in DOMAIN nodes : nodes[j][1].sound
      /\ Contract!Injective([k \in DOMAIN g.edges |-> g.edges[k].id])
      /\ \A k \in DOMAIN g.edges :
           /\ g.edges[k].sound /\ g.edges[k].id # None
           /\ g.edges[k].id = Contract!EdgeId(g.key, g.edges[k].type, g.edges[k].source, g.edges[k].target)
           /\ Contract!TypeOf(g, g.edges[k].target) = 1
           /\ \/ g.edges[k].type = "successor" /\ Contract!TypeOf(g, g.edges[k].source) = 1
              \/ g.edges[k].type = "applies" /\ Contract!TypeOf(g, g.edges[k].source) = 2
  BY <1>2, <1>3, <1>4, GraphIsTyped
<1> HIDE DEF nodes, sound
<1>7. Len(g.lanes) = a /\ Len(g.controls) = b /\ Len(g.areas) = c /\ Len(g.edges) = m + n
  <2>1. \A l, k : k \in Nat /\ IsList(l, k) => Len(l) = k
    BY DEF IsList
  <2> QED
    BY <1>2, <1>3, <1>4, <2>1 DEF HasNodes, HasEdges
<1>8. DOMAIN g.controls = 1..b /\ \A k \in 1..b : g.controls[k].camera = 1 /\ Contract!BoxOk(g.controls[k].box)
  BY <1>2 DEF HasNodes, IsList
<1>9. Contract!NativeNodesOk(g)
  BY <1>6, <1>8 DEF Contract!NativeNodesOk, Contract!EncodedType, nodes
<1>10. Contract!NativeEdgesOk(g)
  BY <1>6 DEF Contract!NativeEdgesOk, Contract!Lane, Contract!Control
<1>11. Contract!NativeAccepts(g) <=> Contract!WithinNativeLimits(g)
  BY <1>1, <1>5, <1>9, <1>10 DEF Contract!NativeAccepts
<1>12. ASSUME sound PROVE Contract!NodesOk(g)
  <2>1. \A t \in {"lanes", "controls", "areas"} : Contract!Counts(g)[t] <= PythonLimit[t]
    <3>1. /\ Contract!Counts(g)["lanes"] = a /\ Contract!Counts(g)["controls"] = b
          /\ Contract!Counts(g)["areas"] = c
      BY <1>7 DEF Contract!Counts
    <3>2. a <= PythonLimit.lanes /\ b <= PythonLimit.controls /\ c <= PythonLimit.areas
      <4>1. /\ Cardinality(DOMAIN out.lanes) \in Nat /\ Cardinality(DOMAIN out.controls) \in Nat
            /\ Cardinality(DOMAIN out.areas) \in Nat
        BY FS_CardinalityType DEF IsModelOutput, IsQueries
      <4> QED
        BY <1>3, <4>1 DEF LimitsAllow
    <3> QED
      BY <3>1, <3>2
  <2>2. \A k \in DOMAIN g.controls : g.controls[k].camera \in 1..Slots /\ Contract!BoxOk(g.controls[k].box)
    BY <1>8
  <2> QED
    BY <1>6, <1>12, <2>1, <2>2 DEF Contract!NodesOk, Contract!EncodedType, nodes
<1>13. Contract!EdgesOk(g)
  <2>1. Len(g.edges) <= PythonLimit.edges
    <3>1. /\ Cardinality(DOMAIN out.successor) \in Nat /\ Cardinality(DOMAIN out.applies) \in Nat
      BY FS_Product, FS_CardinalityType DEF IsModelOutput, IsQueries
    <3> QED
      BY <1>4, <1>7, <3>1 DEF LimitsAllow
  <2>2. /\ DOMAIN Contract!EdgeEnds = {"successor", "applies"}
        /\ Contract!EdgeEnds["successor"] = <<1, 1>> /\ Contract!EdgeEnds["applies"] = <<2, 1>>
    BY DEF Contract!EdgeEnds, Contract!Lane, Contract!Control
  <2> HIDE DEF Contract!EdgeEnds
  <2>3. ASSUME NEW k \in DOMAIN g.edges
        PROVE  /\ g.edges[k].type \in DOMAIN Contract!EdgeEnds
               /\ <<Contract!TypeOf(g, g.edges[k].source), Contract!TypeOf(g, g.edges[k].target)>>
                    = Contract!EdgeEnds[g.edges[k].type]
    <3>1. CASE g.edges[k].type = "successor" /\ Contract!TypeOf(g, g.edges[k].source) = 1
      BY <1>6, <2>2, <3>1
    <3>2. CASE g.edges[k].type = "applies" /\ Contract!TypeOf(g, g.edges[k].source) = 2
      BY <1>6, <2>2, <3>2
    <3> QED
      BY <1>6, <3>1, <3>2
  <2> QED
    BY <1>6, <2>1, <2>3 DEF Contract!EdgesOk
<1>14. Contract!TracksOk(g)
  <2>1. Len(g.tracks) <= PythonLimit.tracks
    BY <1>1 DEF LimitsAllow
  <2>2. DOMAIN g.tracks = {}
    BY <1>1
  <2> QED
    BY <1>6, <2>1, <2>2 DEF Contract!TracksOk, Contract!Injective, nodes
<1>15. ASSUME sound PROVE Contract!PythonAccepts(g)
  <2>1. g.key.sound /\ g.artifacts <= PythonLimit.artifacts
    BY <1>1 DEF Contract!PythonAccepts, LimitsAllow
  <2> QED
    BY <1>1, <1>5, <1>12, <1>13, <1>14, <1>15, <2>1 DEF Contract!PythonAccepts
<1> QED
  BY <1>7, <1>11, <1>15, CardinalityIsShared
  DEF Contract!GraphIsReadable, LikelyEnds, a, m, n, g, sound

-----------------------------------------------------------------------------
(* The transfer of the sources. *)

\* An entry is a file of some bytes, or a link.
LEMMA EntryIsFileOrLink ==
    ASSUME NEW e, IsEntry(e)
    PROVE  \/ e.type = "file" /\ \E n \in Nat : \E b : IsList(b, n) /\ e = Transfer!File(b)
           \/ e.type = "link" /\ \E t : e = Transfer!Link(t)
BY DEF IsEntry

\* What is a file of a tree has bytes, and what is a link has a target.
LEMMA EntriesOfTrees ==
    ASSUME NEW tree, IsTree(tree), NEW p
    PROVE  /\ Transfer!IsFile(Transfer!At(tree, p)) =>
                /\ p \in DOMAIN tree /\ tree[p] = Transfer!File(tree[p].bytes)
                /\ \E n \in Nat : IsList(tree[p].bytes, n)
           /\ Transfer!IsLink(Transfer!At(tree, p)) =>
                p \in DOMAIN tree /\ tree[p] = Transfer!Link(tree[p].target)
<1>1. ASSUME p \in DOMAIN tree, NEW n \in Nat, NEW b, IsList(b, n), tree[p] = Transfer!File(b)
      PROVE  tree[p].bytes = b /\ tree[p].type = "file"
  BY <1>1 DEF Transfer!File
<1>2. ASSUME p \in DOMAIN tree, NEW t, tree[p] = Transfer!Link(t)
      PROVE  tree[p].target = t /\ tree[p].type = "link"
  BY <1>2 DEF Transfer!Link
<1>3. CASE p \notin DOMAIN tree
  BY <1>3 DEF Transfer!At, Transfer!IsFile, Transfer!IsLink
<1>4. CASE p \in DOMAIN tree /\ \E n \in Nat : \E b : IsList(b, n) /\ tree[p] = Transfer!File(b)
  BY <1>1, <1>4 DEF Transfer!At, Transfer!IsFile, Transfer!IsLink
<1>5. CASE p \in DOMAIN tree /\ \E t : tree[p] = Transfer!Link(t)
  BY <1>2, <1>5 DEF Transfer!At, Transfer!IsFile, Transfer!IsLink
<1>6. p \in DOMAIN tree => IsEntry(tree[p])
  BY DEF IsTree
<1> QED
  BY <1>3, <1>4, <1>5, <1>6, EntryIsFileOrLink

\* A manifest is of a clean checkout, all of whose paths are what the index says.
LEMMA ManifestIsOfCheckout ==
    ASSUME NEW c, Transfer!BuildManifest(c) # None
    PROVE  LET m == Transfer!BuildManifest(c)
           IN  /\ Transfer!Clean(c) /\ \A p \in DOMAIN c.index : Transfer!Declarable(c, p)
               /\ m.commit = c.head /\ DOMAIN m.entries = DOMAIN c.index
               /\ \A p \in DOMAIN c.index : m.entries[p] = Transfer!Declared(c, p)
               /\ \A p \in DOMAIN c.index : m.entries[p].mode = c.index[p].mode
               /\ Transfer!Bundled(m.entries) = Transfer!Bundled(c.index)
<1> DEFINE m == Transfer!BuildManifest(c)
<1>1. /\ Transfer!Clean(c) /\ \A p \in DOMAIN c.index : Transfer!Declarable(c, p)
      /\ m = [commit |-> c.head, entries |-> [p \in DOMAIN c.index |-> Transfer!Declared(c, p)]]
  BY DEF Transfer!BuildManifest
<1> HIDE DEF m
<1>2. /\ m.commit = c.head /\ DOMAIN m.entries = DOMAIN c.index
      /\ \A p \in DOMAIN c.index : m.entries[p] = Transfer!Declared(c, p)
  BY <1>1
<1>3. \A p \in DOMAIN c.index : Transfer!Declared(c, p).mode = c.index[p].mode
  BY DEF Transfer!Declared
<1>4. \A p \in DOMAIN c.index : m.entries[p].mode = c.index[p].mode
  BY <1>2, <1>3
<1>5. Transfer!Bundled(m.entries) = Transfer!Bundled(c.index)
  BY <1>2, <1>4 DEF Transfer!Bundled
<1> QED
  BY <1>1, <1>2, <1>4, <1>5 DEF m

\* Whatever archive is verified against a manifest, what is extracted are the files and links
\* that were hashed.
LEMMA ExtractedIsHashed ==
    ASSUME NEW c, IsCheckout(c), Transfer!BuildManifest(c) # None, NEW archive, NEW manifest,
           manifest.content = Transfer!BuildManifest(c),
           Transfer!VerifyAndExtract(archive, manifest) # None
    PROVE  Transfer!VerifyAndExtract(archive, manifest) = Transfer!AsHashed(c)
<1> DEFINE m == Transfer!BuildManifest(c)
           entries == m.entries
           member(p) == archive[CHOOSE k \in DOMAIN archive : archive[k].path = p]
           paths == Transfer!Bundled(c.index)
           extracted(p) == [mode |-> entries[p].mode,
                            of |-> IF entries[p].mode = "link" THEN Transfer!Link(member(p).target)
                                   ELSE Transfer!File(member(p).bytes)]
<1>1. /\ \A p \in DOMAIN c.index : Transfer!Declarable(c, p)
      /\ \A p \in DOMAIN c.index : entries[p] = Transfer!Declared(c, p)
      /\ \A p \in DOMAIN c.index : entries[p].mode = c.index[p].mode
      /\ Transfer!Bundled(entries) = paths
  BY ManifestIsOfCheckout
<1>2. /\ \A k \in DOMAIN archive : Transfer!MemberOk(entries, archive, k)
      /\ {archive[k].path : k \in DOMAIN archive} = Transfer!Bundled(entries)
      /\ \A p \in Transfer!Bundled(entries) : entries[p].mode # "link" => member(p).bytes = entries[p].digest
      /\ Transfer!VerifyAndExtract(archive, manifest) = [p \in Transfer!Bundled(entries) |-> extracted(p)]
  BY DEF Transfer!VerifyAndExtract
<1> HIDE DEF m
<1>3. ASSUME NEW p \in paths
      PROVE  extracted(p) = [mode |-> c.index[p].mode, of |-> c.hashed[p]]
  <2>1. p \in DOMAIN c.index /\ c.index[p].mode # "gitlink"
    BY DEF Transfer!Bundled
  <2>2. \E k \in DOMAIN archive : archive[k].path = p
    BY <1>1, <1>2
  <2> DEFINE k == CHOOSE i \in DOMAIN archive : archive[i].path = p
  <2>3. k \in DOMAIN archive /\ archive[k].path = p /\ member(p) = archive[k]
    BY <2>2
  <2> HIDE DEF k
  <2>4. entries[p].mode = c.index[p].mode /\ entries[p] = Transfer!Declared(c, p)
    BY <1>1, <2>1
  <2>5. CASE c.index[p].mode = "link"
    <3>1. member(p).target = entries[p].target
      BY <1>2, <2>3, <2>4, <2>5 DEF Transfer!MemberOk
    <3>2. Transfer!IsLink(Transfer!At(c.hashed, p))
      BY <1>1, <2>1, <2>5 DEF Transfer!Declarable
    <3>3. entries[p].target = c.hashed[p].target
      BY <2>4, <2>5 DEF Transfer!Declared
    <3>4. c.hashed[p] = Transfer!Link(c.hashed[p].target)
      BY <3>2, EntriesOfTrees DEF IsCheckout
    <3> QED
      BY <2>4, <2>5, <3>1, <3>3, <3>4
  <2>6. CASE c.index[p].mode # "link"
    <3>1. member(p).bytes = entries[p].digest
      BY <1>1, <1>2, <2>4, <2>6
    <3>2. Transfer!IsFile(Transfer!At(c.hashed, p))
      BY <1>1, <2>1, <2>6 DEF Transfer!Declarable
    <3>3. entries[p].digest = c.hashed[p].bytes
      BY <2>1, <2>4, <2>6 DEF Transfer!Declared
    <3>4. c.hashed[p] = Transfer!File(c.hashed[p].bytes)
      BY <3>2, EntriesOfTrees DEF IsCheckout
    <3> QED
      BY <2>4, <2>6, <3>1, <3>3, <3>4
  <2> QED
    BY <2>5, <2>6
<1>4. [p \in paths |-> extracted(p)] = [p \in paths |-> [mode |-> c.index[p].mode, of |-> c.hashed[p]]]
  BY <1>3, Zenon
<1> QED
  BY <1>1, <1>2, <1>4 DEF Transfer!AsHashed

\* A bundle, its manifest and the entries of a tree are records, and so are not absent.
LEMMA RecordsAreThere ==
    ASSUME NoneIsNoFunction
    PROVE  /\ \A a, b : [commit |-> a, entries |-> b] # None
           /\ \A a, b : [archive |-> a, manifest |-> b] # None
           /\ \A a : Transfer!Link(a) # None /\ Transfer!File(a) # None
<1>1. ASSUME NEW a, NEW b
      PROVE  [commit |-> a, entries |-> b] # None
  <2> DEFINE f == [commit |-> a, entries |-> b]
  <2>1. f = [x \in DOMAIN f |-> f[x]]
    OBVIOUS
  <2> HIDE DEF f
  <2>2. f # None
    BY <2>1 DEF NoneIsNoFunction
  <2> QED
    BY <2>2 DEF f
<1>2. ASSUME NEW a, NEW b
      PROVE  [archive |-> a, manifest |-> b] # None
  <2> DEFINE f == [archive |-> a, manifest |-> b]
  <2>1. f = [x \in DOMAIN f |-> f[x]]
    OBVIOUS
  <2> HIDE DEF f
  <2>2. f # None
    BY <2>1 DEF NoneIsNoFunction
  <2> QED
    BY <2>2 DEF f
<1>3. ASSUME NEW a
      PROVE  Transfer!Link(a) # None
  <2> DEFINE f == [type |-> "link", target |-> a]
  <2>1. f = [x \in DOMAIN f |-> f[x]]
    OBVIOUS
  <2> HIDE DEF f
  <2>2. f # None
    BY <2>1 DEF NoneIsNoFunction
  <2> QED
    BY <2>2 DEF f, Transfer!Link
<1>4. ASSUME NEW a
      PROVE  Transfer!File(a) # None
  <2> DEFINE f == [type |-> "file", bytes |-> a]
  <2>1. f = [x \in DOMAIN f |-> f[x]]
    OBVIOUS
  <2> HIDE DEF f
  <2>2. f # None
    BY <2>1 DEF NoneIsNoFunction
  <2> QED
    BY <2>2 DEF f, Transfer!File
<1> QED
  BY <1>1, <1>2, <1>3, <1>4

\* All the bytes of a file are its bytes.
LEMMA AllBytes ==
    ASSUME NEW n \in Nat, NEW b, IsList(b, n)
    PROVE  Len(b) = n /\ SubSeq(b, 1, Len(b)) = b
<1> DEFINE S == {b[k] : k \in 1..n}
<1>1. b \in [1..n -> S]
  BY DEF IsList
<1> HIDE DEF S
<1>2. b \in Seq(S) /\ Len(b) = n
  BY <1>1
<1>3. SubSeq(b, 1, n) = [k \in 1..n |-> b[k]]
  BY <1>2
<1> QED
  BY <1>2, <1>3 DEF IsList

\* The paths that are archived are each archived once.
LEMMA PathsAreListed ==
    ASSUME NEW S, IsFiniteSet(S), S \subseteq Int
    PROVE  LET paths == Transfer!Ascending(S)
           IN  \E n \in Nat : /\ paths \in [1..n -> S]
                              /\ \A p \in S : \E k \in 1..n : paths[k] = p
                              /\ \A j, k \in 1..n : j # k => paths[j] # paths[k]
<1> DEFINE less == {e \in S \X S : e[1] < e[2]}
           n == Cardinality(S)
<1>1. IsStrictOrder(S, less)
  <2>1. \A x, y \in S : <<x, y>> \in less <=> x < y
    OBVIOUS
  <2> HIDE DEF less
  <2> QED
    BY <2>1 DEF IsStrictOrder
<1>2. n \in Nat
  BY FS_CardinalityType
<1>3. \A X : Transfer!Cardinality(X) = Cardinality(X)
  BY DEF Transfer!Cardinality, Cardinality
<1>4. \A l, x : Transfer!Below(S, l, x) = Below(S, l, x)
  BY DEF Transfer!Below, Below
<1>5. Transfer!Ascending(S) = InOrder(S, less)
  <2>1. Transfer!Ascending(S) = Transfer!InOrder(S, less)
    BY DEF Transfer!Ascending
  <2> HIDE DEF less
  <2>2. Transfer!InOrder(S, less) = InOrder(S, less)
    BY <1>3, <1>4 DEF Transfer!InOrder, InOrder
  <2> QED
    BY <2>1, <2>2
<1> HIDE DEF less, n
<1>6. /\ InOrder(S, less) \in [1..n -> S]
      /\ \A x \in S : \E k \in 1..n : InOrder(S, less)[k] = x
      /\ \A j, k \in 1..n :
           /\ j < k <=> <<InOrder(S, less)[j], InOrder(S, less)[k]>> \in less
           /\ j = k <=> InOrder(S, less)[j] = InOrder(S, less)[k]
  BY <1>1, OrderIsSorted DEF n
<1>7. \A j, k \in 1..n : j # k => InOrder(S, less)[j] # InOrder(S, less)[k]
  BY <1>6
<1> DEFINE paths == Transfer!Ascending(S)
<1>8. /\ paths \in [1..n -> S]
      /\ \A p \in S : \E k \in 1..n : paths[k] = p
      /\ \A j, k \in 1..n : j # k => paths[j] # paths[k]
  BY <1>5, <1>6, <1>7, Zenon
<1> HIDE DEF paths
<1>9. \E i \in Nat : /\ paths \in [1..i -> S]
                     /\ \A p \in S : \E k \in 1..i : paths[k] = p
                     /\ \A j, k \in 1..i : j # k => paths[j] # paths[k]
  BY <1>2, <1>8
<1> QED
  BY <1>9 DEF paths

\* What is bundled is the manifest, the archive it names, and one member of each path.
LEMMA BundleHolds ==
    ASSUME NEW c, Transfer!CreateBundle(c, {}) # None
    PROVE  LET made == Transfer!CreateBundle(c, {})
               m == Transfer!BuildManifest(c)
               paths == Transfer!Ascending(Transfer!Bundled(m.entries))
           IN  /\ m # None
               /\ made.manifest.content = m /\ made.manifest.digest = m
               /\ made.manifest.archive = made.archive
               /\ made.archive = [k \in DOMAIN paths |-> Transfer!Member(m, c.read, paths[k])]
<1> DEFINE m == Transfer!BuildManifest(c)
           paths == Transfer!Ascending(Transfer!Bundled(m.entries))
           archive == [k \in DOMAIN paths |-> Transfer!Member(m, c.read, paths[k])]
           made == Transfer!CreateBundle(c, {})
<1>1. m # None /\ made = [archive |-> archive, manifest |-> [content |-> m, digest |-> m, archive |-> archive]]
  BY DEF Transfer!CreateBundle
<1> HIDE DEF m, archive, made
<1>2. /\ made.manifest.content = m /\ made.manifest.digest = m
      /\ made.manifest.archive = archive /\ made.archive = archive
  BY <1>1
<1> QED
  BY <1>1, <1>2 DEF m, archive, made

\* Nothing changes in the checkout while it is bundled.
Unchanged(c) == c.hashed = c.status /\ c.read = c.status

\* In a checkout in which nothing changes, what is read of a path is what was hashed.
LEMMA ReadIsHashed ==
    ASSUME NEW c, IsCheckout(c), Unchanged(c), NEW p, Transfer!IsFile(Transfer!At(c.hashed, p))
    PROVE  /\ Transfer!Opened(c.read, p) = c.hashed[p]
           /\ Transfer!IsFile(Transfer!Opened(c.read, p))
           /\ c.hashed[p] = Transfer!File(c.hashed[p].bytes)
           /\ Len(c.hashed[p].bytes) \in Nat
           /\ SubSeq(c.hashed[p].bytes, 1, Len(c.hashed[p].bytes)) = c.hashed[p].bytes
<1>1. c.read = c.hashed
  BY DEF Unchanged
<1>2. /\ p \in DOMAIN c.hashed /\ c.hashed[p] = Transfer!File(c.hashed[p].bytes)
      /\ \E n \in Nat : IsList(c.hashed[p].bytes, n)
  BY EntriesOfTrees DEF IsCheckout
<1>3. c.hashed[p].type = "file"
  BY DEF Transfer!IsFile, Transfer!At
<1>4. Transfer!Opened(c.read, p) = c.hashed[p] /\ Transfer!IsFile(Transfer!Opened(c.read, p))
  BY <1>1, <1>2, <1>3 DEF Transfer!Opened, Transfer!At, Transfer!IsLink
<1> QED
  BY <1>2, <1>4, AllBytes

\* The member of a path is what its manifest declares, when nothing changes.
LEMMA MemberIsDeclared ==
    ASSUME NEW c, IsCheckout(c), Unchanged(c), Transfer!BuildManifest(c) # None,
           NEW p \in Transfer!Bundled(c.index)
    PROVE  LET m == Transfer!BuildManifest(c)
               member == Transfer!Member(m, c.read, p)
           IN  /\ member.path = p
               /\ m.entries[p].mode = "link" =>
                    /\ member.type = "link" /\ member.target = m.entries[p].target
                    /\ Transfer!Inside(member.target)
               /\ m.entries[p].mode # "link" =>
                    /\ member.type = "file" /\ Len(member.bytes) = m.entries[p].size
                    /\ member.bytes = m.entries[p].digest
                    /\ Transfer!Archivable(m, c.read, p)
<1> DEFINE m == Transfer!BuildManifest(c)
           entry == m.entries[p]
           member == Transfer!Member(m, c.read, p)
<1>1. p \in DOMAIN c.index /\ c.index[p].mode # "gitlink"
  BY DEF Transfer!Bundled
<1>2. entry = Transfer!Declared(c, p) /\ entry.mode = c.index[p].mode /\ Transfer!Declarable(c, p)
  BY <1>1, ManifestIsOfCheckout
<1> HIDE DEF m
<1>3. CASE c.index[p].mode = "link"
  <2>1. entry.target = c.hashed[p].target /\ Transfer!Inside(c.hashed[p].target)
    <3>1. entry.target = c.hashed[p].target
      BY <1>2, <1>3 DEF Transfer!Declared
    <3>2. Transfer!IsLink(Transfer!At(c.hashed, p)) /\ Transfer!Inside(Transfer!At(c.hashed, p).target)
      BY <1>2, <1>3 DEF Transfer!Declarable
    <3>3. p \in DOMAIN c.hashed
      BY <3>2, EntriesOfTrees DEF IsCheckout
    <3> QED
      BY <3>1, <3>2, <3>3 DEF Transfer!At
  <2>2. member = [path |-> p, type |-> "link", target |-> entry.target]
    BY <1>2, <1>3 DEF Transfer!Member
  <2> QED
    BY <1>2, <1>3, <2>1, <2>2 DEF m
<1>4. CASE c.index[p].mode # "link"
  <2>1. Transfer!IsFile(Transfer!At(c.hashed, p))
    BY <1>1, <1>2, <1>4 DEF Transfer!Declarable
  <2>2. entry.size = Len(c.hashed[p].bytes) /\ entry.digest = c.hashed[p].bytes
    BY <1>1, <1>2, <1>4 DEF Transfer!Declared
  <2> DEFINE opened == Transfer!Opened(c.read, p)
  <2>3. /\ opened = c.hashed[p] /\ Transfer!IsFile(opened) /\ Len(c.hashed[p].bytes) \in Nat
        /\ SubSeq(c.hashed[p].bytes, 1, Len(c.hashed[p].bytes)) = c.hashed[p].bytes
    BY <2>1, ReadIsHashed
  <2>4. member = [path |-> p, type |-> "file", bytes |-> SubSeq(opened.bytes, 1, entry.size)]
    BY <1>2, <1>4 DEF Transfer!Member
  <2>5. Transfer!Archivable(m, c.read, p)
    BY <2>2, <2>3 DEF Transfer!Archivable
  <2> HIDE DEF opened
  <2>6. SubSeq(opened.bytes, 1, entry.size) = entry.digest
    BY <2>2, <2>3
  <2>7. member.path = p /\ member.type = "file" /\ member.bytes = entry.digest
    BY <2>4, <2>6
  <2> HIDE DEF member, entry
  <2>8. Len(member.bytes) = entry.size
    BY <2>2, <2>7
  <2> QED
    BY <1>2, <1>4, <2>5, <2>7, <2>8 DEF m, member, entry
<1> QED
  BY <1>3, <1>4

\* The bundle of a checkout in which nothing changes is extracted.
LEMMA BundleIsExtracted ==
    ASSUME NoneIsNoFunction, NEW c, IsCheckout(c), Unchanged(c), Transfer!CreateBundle(c, {}) # None
    PROVE  LET made == Transfer!CreateBundle(c, {})
           IN  Transfer!VerifyAndExtract(made.archive, made.manifest) # None
<1> DEFINE made == Transfer!CreateBundle(c, {})
           m == Transfer!BuildManifest(c)
           entries == m.entries
           bundled == Transfer!Bundled(c.index)
           paths == Transfer!Ascending(bundled)
           archive == made.archive
           member(p) == archive[CHOOSE k \in DOMAIN archive : archive[k].path = p]
<1>1. m # None /\ Transfer!Bundled(entries) = bundled
  <2>1. m # None
    BY BundleHolds
  <2> QED
    BY <2>1, ManifestIsOfCheckout
<1>2. /\ made.manifest.content = m /\ made.manifest.digest = m /\ made.manifest.archive = archive
      /\ archive = [k \in DOMAIN paths |-> Transfer!Member(m, c.read, paths[k])]
  BY <1>1, BundleHolds
<1>3. IsFiniteSet(bundled) /\ bundled \subseteq Int
  <2>1. bundled \subseteq DOMAIN c.index
    BY DEF Transfer!Bundled
  <2> QED
    BY <2>1, FS_Subset DEF IsCheckout
<1>4. PICK n \in Nat : /\ paths \in [1..n -> bundled]
                       /\ \A p \in bundled : \E k \in 1..n : paths[k] = p
                       /\ \A j, k \in 1..n : j # k => paths[j] # paths[k]
  BY <1>3, PathsAreListed
<1> DEFINE IsMember(e, p) ==
             /\ e.path = p
             /\ entries[p].mode = "link" => /\ e.type = "link" /\ e.target = entries[p].target
                                            /\ Transfer!Inside(e.target)
             /\ entries[p].mode # "link" => /\ e.type = "file" /\ Len(e.bytes) = entries[p].size
                                            /\ e.bytes = entries[p].digest
<1>5. \A p \in bundled : IsMember(Transfer!Member(m, c.read, p), p)
  BY <1>1, MemberIsDeclared
<1> HIDE DEF m, made, paths, bundled
<1>6. DOMAIN archive = 1..n /\ \A k \in 1..n : IsMember(archive[k], paths[k]) /\ paths[k] \in bundled
  <2> HIDE DEF IsMember
  <2>1. DOMAIN paths = 1..n /\ \A k \in 1..n : paths[k] \in bundled
    BY <1>4
  <2>2. DOMAIN archive = 1..n /\ \A k \in 1..n : archive[k] = Transfer!Member(m, c.read, paths[k])
    BY <1>2, <2>1
  <2> QED
    BY <1>5, <2>1, <2>2
<1>7. \A k \in 1..n : archive[k].path = paths[k]
  BY <1>6
<1>8. ASSUME NEW k \in DOMAIN archive
      PROVE  Transfer!MemberOk(entries, archive, k)
  <2>1. k \in 1..n /\ archive[k].path \in bundled /\ IsMember(archive[k], archive[k].path)
    BY <1>6, <1>7
  <2>2. \A j \in 1..(k - 1) : archive[j].path # archive[k].path
    BY <1>4, <1>7, <2>1
  <2> QED
    BY <1>1, <2>1, <2>2 DEF Transfer!MemberOk
<1>9. {archive[k].path : k \in DOMAIN archive} = bundled
  BY <1>4, <1>6, <1>7
<1>10. ASSUME NEW p \in bundled, entries[p].mode # "link"
       PROVE  member(p).bytes = entries[p].digest
  <2>1. \E k \in DOMAIN archive : archive[k].path = p
    BY <1>9
  <2> DEFINE k == CHOOSE i \in DOMAIN archive : archive[i].path = p
  <2>2. k \in DOMAIN archive /\ archive[k].path = p
    BY <2>1
  <2> HIDE DEF k
  <2>3. IsMember(archive[k], p)
    BY <1>6, <1>7, <2>2
  <2>4. archive[k].bytes = entries[p].digest
    BY <1>10, <2>3
  <2> QED
    BY <2>4 DEF k
<1> HIDE DEF IsMember
<1> DEFINE manifest == made.manifest
           given == manifest.content.entries
           extracted(p) == [mode |-> given[p].mode,
                            of |-> IF given[p].mode = "link" THEN Transfer!Link(member(p).target)
                                   ELSE Transfer!File(member(p).bytes)]
           out == [p \in Transfer!Bundled(given) |-> extracted(p)]
<1>11. Transfer!ManifestOk(manifest) /\ manifest.archive = archive /\ given = entries
  BY <1>2 DEF Transfer!ManifestOk
<1> HIDE DEF archive, manifest
<1>12. /\ \A k \in DOMAIN archive : Transfer!MemberOk(given, archive, k)
       /\ {archive[k].path : k \in DOMAIN archive} = Transfer!Bundled(given)
       /\ \A p \in Transfer!Bundled(given) : given[p].mode # "link" => member(p).bytes = given[p].digest
  <2>1. \A k \in DOMAIN archive : Transfer!MemberOk(given, archive, k)
    BY <1>8, <1>11
  <2>2. Transfer!Bundled(given) = bundled
    BY <1>1, <1>11
  <2> HIDE DEF member
  <2>3. \A p \in Transfer!Bundled(given) : given[p].mode # "link" => member(p).bytes = given[p].digest
    BY <1>10, <1>11, <2>2
  <2> QED
    BY <1>9, <2>1, <2>2, <2>3
<1>13. Transfer!VerifyAndExtract(archive, manifest) = out
  BY <1>11, <1>12 DEF Transfer!VerifyAndExtract
<1>14. out # None
  <2>1. out = [x \in DOMAIN out |-> out[x]]
    OBVIOUS
  <2> HIDE DEF out
  <2> QED
    BY <2>1 DEF NoneIsNoFunction
<1> QED
  BY <1>13, <1>14 DEF made, archive, manifest

\* A clean checkout in which nothing changes, and whose links stay inside, is bundled.
LEMMA CleanIsBundled ==
    ASSUME NoneIsNoFunction, NEW c, IsCheckout(c), Unchanged(c), Transfer!Clean(c),
           \A p \in Transfer!Bundled(c.index) : c.index[p].of # Transfer!Link(Outside)
    PROVE  Transfer!CreateBundle(c, {}) # None
<1>1. c.hashed = [p \in Transfer!Bundled(c.index) |-> c.index[p].of]
  BY DEF Unchanged, Transfer!Clean
<1>2. ASSUME NEW p \in DOMAIN c.index
      PROVE  Transfer!Declarable(c, p)
  <2>1. CASE c.index[p].mode = "gitlink"
    BY <2>1 DEF Transfer!Declarable
  <2>2. ASSUME c.index[p].mode # "gitlink"
        PROVE  Transfer!At(c.hashed, p) = c.index[p].of /\ p \in Transfer!Bundled(c.index)
    <3>1. p \in Transfer!Bundled(c.index)
      BY <2>2 DEF Transfer!Bundled
    <3> QED
      BY <1>1, <3>1 DEF Transfer!At
  <2>3. CASE c.index[p].mode = "link"
    <3>1. PICK t : c.index[p].of = Transfer!Link(t)
      <4>1. IsEntry(c.index[p].of) /\ c.index[p].of.type = "link"
        BY <2>3 DEF IsCheckout
      <4> QED
        BY <4>1, EntryIsFileOrLink
    <3>2. t # Outside
      BY <2>2, <2>3, <3>1
    <3>3. Transfer!Link(t) # None
      BY RecordsAreThere
    <3>4. Transfer!IsLink(Transfer!Link(t)) /\ Transfer!Inside(Transfer!Link(t).target)
      BY <3>2, <3>3 DEF Transfer!IsLink, Transfer!Inside, Transfer!Link
    <3> QED
      BY <2>2, <2>3, <3>1, <3>4 DEF Transfer!Declarable
  <2>4. CASE c.index[p].mode # "gitlink" /\ c.index[p].mode # "link"
    <3>1. PICK b : c.index[p].of = Transfer!File(b)
      <4>1. IsEntry(c.index[p].of) /\ c.index[p].of.type = "file"
        BY <2>4 DEF IsCheckout
      <4> QED
        BY <4>1, EntryIsFileOrLink
    <3>2. Transfer!File(b) # None
      BY RecordsAreThere
    <3>3. Transfer!IsFile(Transfer!File(b))
      BY <3>2 DEF Transfer!IsFile, Transfer!File
    <3> QED
      BY <2>2, <2>4, <3>1, <3>3 DEF Transfer!Declarable
  <2> QED
    BY <2>1, <2>3, <2>4
<1> DEFINE m == Transfer!BuildManifest(c)
<1>3. m # None
  BY <1>2, RecordsAreThere DEF Transfer!BuildManifest
<1>4. /\ Transfer!Bundled(m.entries) = Transfer!Bundled(c.index)
      /\ \A p \in DOMAIN c.index : m.entries[p].mode = c.index[p].mode
  BY <1>3, ManifestIsOfCheckout
<1>5. \A p \in Transfer!Bundled(m.entries) : Transfer!Archivable(m, c.read, p)
  <2> SUFFICES ASSUME NEW p \in Transfer!Bundled(c.index)
               PROVE  Transfer!Archivable(m, c.read, p)
    BY <1>4
  <2>1. m.entries[p].mode # "link" => Transfer!Archivable(m, c.read, p)
    BY <1>3, MemberIsDeclared
  <2> HIDE DEF m
  <2>2. m.entries[p].mode = "link" => Transfer!Archivable(m, c.read, p)
    BY DEF Transfer!Archivable
  <2> QED
    BY <2>1, <2>2
<1> HIDE DEF m
<1> DEFINE paths == Transfer!Ascending(Transfer!Bundled(m.entries))
           archive == [k \in DOMAIN paths |-> Transfer!Member(m, c.read, paths[k])]
<1>6. Transfer!CreateBundle(c, {})
        = [archive |-> archive, manifest |-> [content |-> m, digest |-> m, archive |-> archive]]
  BY <1>3, <1>5 DEF Transfer!CreateBundle, m
<1> HIDE DEF archive
<1> QED
  BY <1>6, RecordsAreThere

\* An empty host is left empty, or has one workspace: what was hashed, whatever archive is given.
LEMMA DeliveredIsHashed ==
    ASSUME NEW c, IsCheckout(c), Transfer!CreateBundle(c, {}) # None, NEW archive
    PROVE  LET manifest == Transfer!CreateBundle(c, {}).manifest
           IN  /\ Transfer!Deliver(<<>>, archive, manifest)
                    \in {<<>>, [d \in {manifest.digest} |-> Transfer!AsHashed(c)]}
               /\ Transfer!VerifyAndExtract(archive, manifest) # None =>
                    Transfer!Deliver(<<>>, archive, manifest)
                      = [d \in {manifest.digest} |-> Transfer!AsHashed(c)]
<1> DEFINE manifest == Transfer!CreateBundle(c, {}).manifest
           extracted == Transfer!VerifyAndExtract(archive, manifest)
           host == [d \in {manifest.digest} |-> Transfer!AsHashed(c)]
<1>1. Transfer!BuildManifest(c) # None /\ manifest.content = Transfer!BuildManifest(c)
  BY BundleHolds
<1>2. extracted # None => extracted = Transfer!AsHashed(c)
  BY <1>1, ExtractedIsHashed
<1> HIDE DEF manifest, extracted
<1>3. CASE extracted = None
  BY <1>3 DEF Transfer!Deliver, extracted, manifest
<1>4. CASE extracted # None
  <2>1. DOMAIN <<>> = {}
    OBVIOUS
  <2>2. Transfer!Deliver(<<>>, archive, manifest)
          = [d \in {manifest.digest} |-> extracted]
    BY <1>4, <2>1 DEF Transfer!Deliver, extracted
  <2>3. Transfer!Deliver(<<>>, archive, manifest) = host
    BY <1>2, <1>4, <2>2
  <2> QED
    BY <2>3 DEF manifest, extracted
<1> QED
  BY <1>3, <1>4

\* A workspace that is there stays what it is.
LEMMA WorkspacesStay ==
    ASSUME NEW host, NEW archive, NEW manifest, NEW d \in DOMAIN host
    PROVE  Transfer!Deliver(host, archive, manifest)[d] = host[d]
<1> DEFINE extracted == Transfer!VerifyAndExtract(archive, manifest)
<1> HIDE DEF extracted
<1> QED
  BY DEF Transfer!Deliver, extracted

\* source_bundle.py, qualify_remote.sh: of all checkouts, what is delivered are the files of the
\* manifest the workspace is named by, no two commits share a workspace, and a clean checkout in
\* which nothing changes is delivered, is the commit, and stays.
THEOREM TransferOfCheckoutsIsExact ==
    ASSUME NoneIsNoFunction, NEW c, IsCheckout(c), NEW other, IsCheckout(other)
    PROVE  Transfer!TransferIsExact(c, other)
<1> DEFINE made == Transfer!CreateBundle(c, {})
           theirs == Transfer!CreateBundle(other, {})
           uploads == {made, theirs} \ {None}
           Of(b) == IF b = made THEN c ELSE other
           still == c.hashed = c.status /\ c.read = c.status
           contained == \A p \in Transfer!Bundled(c.index) : c.index[p].of # Transfer!Link(Outside)
           first == Transfer!Deliver(<<>>, made.archive, made.manifest)
<1>1. ASSUME NEW a \in uploads, NEW b \in uploads
      PROVE  Transfer!Deliver(<<>>, a.archive, b.manifest)
               \in {<<>>, [d \in {b.manifest.digest} |-> Transfer!AsHashed(Of(b))]}
  <2>1. b # None /\ Transfer!CreateBundle(Of(b), {}) = b /\ IsCheckout(Of(b))
    OBVIOUS
  <2> HIDE DEF uploads, made, theirs, Of
  <2> QED
    BY <2>1, DeliveredIsHashed
<1>2. ASSUME made # None, theirs # None, c.head # other.head
      PROVE  made.manifest.digest # theirs.manifest.digest
  <2>1. made.manifest.digest.commit = c.head
    BY <1>2, BundleHolds, ManifestIsOfCheckout
  <2>2. theirs.manifest.digest.commit = other.head
    BY <1>2, BundleHolds, ManifestIsOfCheckout
  <2> QED
    BY <1>2, <2>1, <2>2
<1>3. ASSUME made # None, still
      PROVE  /\ first[made.manifest.digest]
                  = [p \in Transfer!Bundled(c.index) |-> [mode |-> c.index[p].mode, of |-> c.index[p].of]]
             /\ \A b \in uploads :
                  Transfer!Deliver(first, b.archive, b.manifest)[made.manifest.digest]
                    = first[made.manifest.digest]
  <2>1. Unchanged(c)
    BY <1>3 DEF Unchanged
  <2>2. Transfer!VerifyAndExtract(made.archive, made.manifest) # None
    BY <1>3, <2>1, BundleIsExtracted
  <2>3. first = [d \in {made.manifest.digest} |-> Transfer!AsHashed(c)]
    BY <1>3, <2>2, DeliveredIsHashed
  <2>4. made.manifest.digest \in DOMAIN first /\ first[made.manifest.digest] = Transfer!AsHashed(c)
    BY <2>3
  <2>5. Transfer!AsHashed(c)
          = [p \in Transfer!Bundled(c.index) |-> [mode |-> c.index[p].mode, of |-> c.index[p].of]]
    <3>1. Transfer!BuildManifest(c) # None
      BY <1>3, BundleHolds
    <3>2. c.hashed = [p \in Transfer!Bundled(c.index) |-> c.index[p].of]
      BY <2>1, <3>1, ManifestIsOfCheckout DEF Unchanged, Transfer!Clean
    <3> QED
      BY <3>2 DEF Transfer!AsHashed
  <2> HIDE DEF first, made, theirs
  <2> QED
    BY <2>4, <2>5, WorkspacesStay
<1>4. ASSUME still, Transfer!Clean(c), contained
      PROVE  made # None
  <2>1. Unchanged(c)
    BY <1>4 DEF Unchanged
  <2> QED
    BY <1>4, <2>1, CleanIsBundled
<1> QED
  BY <1>1, <1>2, <1>3, <1>4 DEF Transfer!TransferIsExact

-----------------------------------------------------------------------------
(* The receipts of the licensed data. *)

\* The sizes of the receipts are those of FiniteSets.
LEMMA ReceiptSizes == \A S : Receipts!Cardinality(S) = Cardinality(S)
BY DEF Receipts!Cardinality, Cardinality

\* The terms of a contract are those of the lock, in their order.
LEMMA SortedTerms ==
    ASSUME NEW terms, NEW n \in Nat, DOMAIN terms = 1..n, \A k \in 1..n : terms[k] \in Int
    PROVE  Receipts!ToSet(Receipts!Sorted(terms)) = Receipts!ToSet(terms)
<1> DEFINE places == DOMAIN terms
           before == {e \in places \X places : \/ terms[e[1]] < terms[e[2]]
                                               \/ terms[e[1]] = terms[e[2]] /\ e[1] < e[2]}
           Precedes(j, k) == terms[j] < terms[k] \/ (terms[j] = terms[k] /\ j < k)
           order == InOrder(places, before)
<1>1. IsFiniteSet(places) /\ Cardinality(places) = n
  BY FS_Interval
<1>2. \A j, k \in places : <<j, k>> \in before <=> Precedes(j, k)
  OBVIOUS
<1>3. \A j, k \in places : /\ ~Precedes(j, j) /\ (j = k \/ Precedes(j, k) \/ Precedes(k, j))
                           /\ \A l \in places : Precedes(j, k) /\ Precedes(k, l) => Precedes(j, l)
  OBVIOUS
<1> HIDE DEF before, Precedes, places
<1>4. IsStrictOrder(places, before)
  BY <1>2, <1>3 DEF IsStrictOrder
<1>5. Receipts!InOrder(places, before) = order
  <2>1. \A x : Receipts!Below(places, before, x) = Below(places, before, x)
    BY DEF Receipts!Below, Below
  <2> QED
    BY <2>1, ReceiptSizes DEF Receipts!InOrder, InOrder
<1>6. order \in [1..n -> places] /\ \A x \in places : \E k \in 1..n : order[k] = x
  BY <1>1, <1>4, OrderIsSorted
<1> HIDE DEF order
<1>7. Receipts!Sorted(terms) = [k \in 1..n |-> terms[order[k]]]
  <2>1. DOMAIN order = 1..n
    BY <1>6
  <2> QED
    BY <1>5, <2>1 DEF Receipts!Sorted, places, before
<1> DEFINE sorted == Receipts!Sorted(terms)
<1>8. DOMAIN sorted = 1..n /\ \A k \in 1..n : sorted[k] = terms[order[k]]
  BY <1>7
<1> HIDE DEF sorted
<1>9. \A x \in {sorted[k] : k \in DOMAIN sorted} : x \in {terms[k] : k \in places}
  BY <1>6, <1>8
<1>10. ASSUME NEW k \in places
       PROVE  terms[k] \in {sorted[j] : j \in DOMAIN sorted}
  <2>1. PICK j \in 1..n : order[j] = k
    BY <1>6
  <2>2. j \in DOMAIN sorted /\ sorted[j] = terms[k]
    BY <1>8, <2>1
  <2> QED
    BY <2>2
<1>11. {sorted[k] : k \in DOMAIN sorted} = {terms[k] : k \in places}
  BY <1>9, <1>10
<1>12. Receipts!ToSet(terms) = {terms[k] : k \in places}
  BY DEF Receipts!ToSet, places
<1>13. Receipts!ToSet(sorted) = {sorted[k] : k \in DOMAIN sorted}
  BY DEF Receipts!ToSet
<1> QED
  BY <1>11, <1>12, <1>13 DEF sorted

\* The steps that leave an acknowledgment.
Accepting(history, at) == {k \in DOMAIN history : Receipts!Accepts(history, at, k)}

\* What the acceptance of a lock leaves.
ReceiptOf(lock) ==
    [dataset |-> lock.dataset, contract |-> Receipts!Contract(lock),
     terms |-> Receipts!Ascending(Receipts!ToSet(lock.terms)), confirmed |-> TRUE, redistribution |-> FALSE]

\* The receipt of the checkout before step k is that of the last acceptance.
ReceiptIsOfLast(history, at, k) ==
    \/ at[k].receipt = None /\ \A i \in Accepting(history, at) : ~(i < k)
    \/ \E j \in Accepting(history, at) :
         /\ j < k /\ at[k].receipt = ReceiptOf(at[j].lock)
         /\ \A i \in Accepting(history, at) : i < k => i <= j

\* A root that is registered before step k is one that an earlier step registered.
RootsAreRegistered(history, at, k) ==
    \A e \in DOMAIN at[k].registered :
      \E j \in DOMAIN history :
        Receipts!Registers(history, at, Accepting(history, at), j, at[k].registered[e].root, e[2])

\* The inductive invariant of a history.
Holds(history, at, k) ==
    /\ DOMAIN at[k] = {"lock", "receipt", "registered", "disk"} /\ IsLock(at[k].lock)
    /\ None \notin DOMAIN at[k].disk
    /\ ReceiptIsOfLast(history, at, k)
    /\ RootsAreRegistered(history, at, k)

\* A root is registered from the published archive alone, after the contract was accepted.
LEMMA RegistrationIsLicensed ==
    ASSUME NEW history, NEW at, NEW k \in DOMAIN history, history[k].op = "register",
           ReceiptIsOfLast(history, at, k),
           NEW root, NEW profile, NEW given, history[k].root = root, history[k].profile = profile,
           history[k].archive = given, Receipts!Registration(at[k], root, profile, given) # None
    PROVE  /\ Receipts!Registration(at[k], root, profile, given).root = root
           /\ Receipts!Registers(history, at, Accepting(history, at), k, root, profile)
<1> DEFINE lock == at[k].lock
           archives == lock.archives
           archive == IF given # None THEN given ELSE at[k].disk[root].archive[profile]
           published == {i \in DOMAIN archives : archives[i].profile = profile}
<1>1. /\ Receipts!Acknowledgment(at[k]) # None
      /\ \E i \in published : published = {i} /\ archives[i].digest = archive
      /\ Receipts!Registration(at[k], root, profile, given).root = root
  <2>1. /\ Receipts!Acknowledgment(at[k]) # None
        /\ \E i \in published : published = {i} /\ archives[i].digest = archive
    BY DEF Receipts!Registration
  <2>2. Receipts!Registration(at[k], root, profile, given)
          = [dataset |-> lock.dataset, profile |-> profile, root |-> root, archive |-> archive,
             manifest |-> at[k].disk[root].manifest[profile], receipt |-> Receipts!Acknowledgment(at[k])]
    BY DEF Receipts!Registration
  <2> HIDE DEF archive
  <2> QED
    BY <2>1, <2>2
<1>2. at[k].receipt # None /\ at[k].receipt.contract = Receipts!Contract(lock)
  BY <1>1 DEF Receipts!Acknowledgment, Receipts!Valid
<1>3. PICK j \in Accepting(history, at) : j < k /\ at[k].receipt = ReceiptOf(at[j].lock)
  BY <1>2 DEF ReceiptIsOfLast
<1>4. Receipts!Contract(at[j].lock) = Receipts!Contract(lock)
  BY <1>2, <1>3 DEF ReceiptOf
<1>5. {a.digest : a \in {b \in Receipts!ToSet(archives) : b.profile = profile}} = {archive}
  <2>1. Receipts!ToSet(archives) = {archives[i] : i \in DOMAIN archives}
    BY DEF Receipts!ToSet
  <2> DEFINE chosen == {b \in Receipts!ToSet(archives) : b.profile = profile}
  <2>2. \A b \in chosen : b.digest = archive
    BY <1>1, <2>1
  <2>3. \E b \in chosen : b.digest = archive
    BY <1>1, <2>1
  <2> HIDE DEF chosen, archive
  <2> QED
    BY <2>2, <2>3 DEF chosen
<1> QED
  BY <1>1, <1>3, <1>4, <1>5 DEF Receipts!Registers

\* What a registration does, and what it leaves.
LEMMA RegisterSets ==
    ASSUME NEW c, DOMAIN c = {"lock", "receipt", "registered", "disk"}, NEW root, NEW profile, NEW given,
           NEW registration, registration = Receipts!Registration(c, root, profile, given)
    PROVE  LET next == Receipts!Register(c, root, profile, given)
           IN  /\ DOMAIN next = DOMAIN c /\ next.lock = c.lock /\ next.disk = c.disk /\ next.receipt = c.receipt
               /\ registration = None => next = c
               /\ registration # None =>
                    \A e \in DOMAIN next.registered :
                      \/ e = <<c.lock.dataset, profile>> /\ next.registered[e] = registration
                      \/ e \in DOMAIN c.registered /\ next.registered[e] = c.registered[e]
<1> DEFINE all == [e \in DOMAIN c.registered \union {<<c.lock.dataset, profile>>} |->
                     IF e = <<c.lock.dataset, profile>> THEN registration ELSE c.registered[e]]
           next == Receipts!Register(c, root, profile, given)
<1>1. CASE registration = None
  BY <1>1 DEF Receipts!Register
<1>2. CASE registration # None
  <2>1. next = [c EXCEPT !.registered = all]
    BY <1>2 DEF Receipts!Register
  <2>2. \A e \in DOMAIN all : \/ e = <<c.lock.dataset, profile>> /\ all[e] = registration
                              \/ e \in DOMAIN c.registered /\ all[e] = c.registered[e]
    OBVIOUS
  <2> HIDE DEF all, next
  <2>3. /\ DOMAIN next = DOMAIN c /\ next.lock = c.lock /\ next.disk = c.disk /\ next.receipt = c.receipt
        /\ next.registered = all
    BY <2>1
  <2> QED
    BY <1>2, <2>2, <2>3 DEF next
<1> QED
  BY <1>1, <1>2

\* An acceptance leaves its receipt, and whatever else is tried leaves the checkout as it is.
LEMMA AcknowledgeSets ==
    ASSUME NoneIsNoFunction, NEW c, DOMAIN c = {"lock", "receipt", "registered", "disk"},
           NEW accepted, NEW confirmed
    PROVE  LET next == Receipts!Acknowledge(c, accepted, confirmed)
           IN  IF confirmed /\ accepted = Receipts!ToSet(c.lock.terms)
               THEN /\ DOMAIN next = DOMAIN c /\ next.lock = c.lock /\ next.disk = c.disk
                    /\ next.registered = c.registered /\ next.receipt = ReceiptOf(c.lock)
               ELSE next = c
<1> DEFINE next == Receipts!Acknowledge(c, accepted, confirmed)
<1>1. CASE confirmed /\ accepted = Receipts!ToSet(c.lock.terms)
  <2> DEFINE receipt == ReceiptOf(c.lock)
  <2>1. receipt = [x \in DOMAIN receipt |-> receipt[x]]
    BY DEF ReceiptOf
  <2>2. Receipts!Acknowledged(c.lock, accepted, confirmed) = receipt
    BY <1>1 DEF Receipts!Acknowledged, ReceiptOf
  <2> HIDE DEF receipt
  <2>3. receipt # None
    BY <2>1 DEF NoneIsNoFunction
  <2>4. next = [c EXCEPT !.receipt = receipt]
    BY <2>2, <2>3 DEF Receipts!Acknowledge
  <2> HIDE DEF next
  <2>5. /\ DOMAIN next = DOMAIN c /\ next.lock = c.lock /\ next.disk = c.disk
        /\ next.registered = c.registered /\ next.receipt = receipt
    BY <2>4
  <2> QED
    BY <1>1, <2>5 DEF next, receipt
<1>2. CASE ~(confirmed /\ accepted = Receipts!ToSet(c.lock.terms))
  BY <1>2 DEF Receipts!Acknowledge, Receipts!Acknowledged
<1> QED
  BY <1>1, <1>2

\* Every command keeps the invariant.
LEMMA CommandsKeep ==
    ASSUME NoneIsNoFunction, NEW n \in Nat, NEW history, NEW at, IsHistory(history, at, n),
           NEW k \in 1..n, Holds(history, at, k)
    PROVE  Holds(history, at, k + 1)
<1> DEFINE c == at[k]
           next == at[k + 1]
           accepting == Accepting(history, at)
<1>1. /\ k \in DOMAIN history /\ next = Receipts!Command(c, history[k])
      /\ history[k].op \in {"acknowledge", "register", "pull"}
      /\ history[k].op = "pull" => IsLock(history[k].lock)
  BY DEF IsHistory, IsCommand
<1>2. accepting \subseteq 1..n
  BY DEF Accepting, IsHistory
<1>3. /\ DOMAIN c = {"lock", "receipt", "registered", "disk"} /\ IsLock(c.lock) /\ None \notin DOMAIN c.disk
      /\ ReceiptIsOfLast(history, at, k) /\ RootsAreRegistered(history, at, k)
  BY DEF Holds
<1>4. ASSUME k \notin accepting, next.receipt = c.receipt
      PROVE  ReceiptIsOfLast(history, at, k + 1)
  <2>1. \A i \in accepting : i < k + 1 <=> i < k
    BY <1>2, <1>4
  <2>2. \A i \in accepting : i < k => i < k + 1
    BY <1>2
  <2> HIDE DEF accepting
  <2> QED
    BY <1>3, <1>4, <2>1, <2>2 DEF ReceiptIsOfLast, accepting
<1>5. ASSUME next.registered = c.registered
      PROVE  RootsAreRegistered(history, at, k + 1)
  BY <1>3, <1>5 DEF RootsAreRegistered
<1>6. CASE history[k].op = "acknowledge"
  <2> DEFINE accepts == history[k].confirmed /\ history[k].accepted = Receipts!ToSet(c.lock.terms)
  <2>1. next = Receipts!Acknowledge(c, history[k].accepted, history[k].confirmed)
    BY <1>1, <1>6 DEF Receipts!Command
  <2>2. k \in accepting <=> accepts
    BY <1>1, <1>6 DEF Accepting, Receipts!Accepts
  <2>3. CASE accepts
    <3>1. /\ DOMAIN next = DOMAIN c /\ next.lock = c.lock /\ next.disk = c.disk
          /\ next.registered = c.registered /\ next.receipt = ReceiptOf(c.lock)
      <4> DEFINE left == Receipts!Acknowledge(c, history[k].accepted, history[k].confirmed)
      <4>1. /\ DOMAIN left = DOMAIN c /\ left.lock = c.lock /\ left.disk = c.disk
            /\ left.registered = c.registered /\ left.receipt = ReceiptOf(c.lock)
        BY <1>3, <2>3, AcknowledgeSets
      <4>2. next = left
        BY <2>1
      <4> HIDE DEF left, next
      <4> QED
        BY <4>1, <4>2
    <3>2. \A i \in accepting : i < k + 1 => i <= k
      BY <1>2
    <3>3. ReceiptIsOfLast(history, at, k + 1)
      BY <2>2, <2>3, <3>1, <3>2 DEF ReceiptIsOfLast
    <3> QED
      BY <1>3, <1>5, <3>1, <3>3 DEF Holds
  <2>4. CASE ~accepts
    <3>1. next = c
      BY <1>3, <2>1, <2>4, AcknowledgeSets
    <3> QED
      BY <1>3, <1>4, <1>5, <2>2, <2>4, <3>1 DEF Holds
  <2> QED
    BY <2>3, <2>4
<1>7. CASE history[k].op = "register"
  <2> DEFINE root == history[k].root
             profile == history[k].profile
             registration == Receipts!Registration(c, root, profile, history[k].archive)
  <2>1. next = Receipts!Register(c, root, profile, history[k].archive)
    BY <1>1, <1>7 DEF Receipts!Command
  <2>2. k \notin accepting
    BY <1>7 DEF Accepting, Receipts!Accepts
  <2>3. registration # None => /\ registration.root = root
                               /\ Receipts!Registers(history, at, accepting, k, root, profile)
    BY <1>1, <1>3, <1>7, RegistrationIsLicensed
  <2> HIDE DEF registration, root, profile
  <2>4. /\ DOMAIN next = DOMAIN c /\ next.lock = c.lock /\ next.disk = c.disk /\ next.receipt = c.receipt
        /\ registration = None => next = c
        /\ registration # None =>
             \A e \in DOMAIN next.registered :
               \/ e = <<c.lock.dataset, profile>> /\ next.registered[e] = registration
               \/ e \in DOMAIN c.registered /\ next.registered[e] = c.registered[e]
    BY <1>3, <2>1, RegisterSets DEF registration
  <2>5. RootsAreRegistered(history, at, k + 1)
    <3>1. CASE registration = None
      BY <1>5, <2>4, <3>1
    <3>2. CASE registration # None
      <4> SUFFICES ASSUME NEW e \in DOMAIN next.registered
                   PROVE  \E j \in DOMAIN history :
                            Receipts!Registers(history, at, accepting, j, next.registered[e].root, e[2])
        BY DEF RootsAreRegistered
      <4>1. CASE e = <<c.lock.dataset, profile>> /\ next.registered[e] = registration
        <5>1. e[2] = profile /\ next.registered[e].root = root
          BY <2>3, <3>2, <4>1
        <5> QED
          BY <1>1, <2>3, <3>2, <5>1
      <4>2. CASE e \in DOMAIN c.registered /\ next.registered[e] = c.registered[e]
        BY <1>3, <4>2 DEF RootsAreRegistered
      <4> QED
        BY <2>4, <3>2, <4>1, <4>2
    <3> QED
      BY <3>1, <3>2
  <2> QED
    BY <1>3, <1>4, <2>2, <2>4, <2>5 DEF Holds
<1>8. CASE history[k].op = "pull"
  <2>1. next = [c EXCEPT !.lock = history[k].lock]
    BY <1>1, <1>8 DEF Receipts!Command
  <2>2. k \notin accepting
    BY <1>8 DEF Accepting, Receipts!Accepts
  <2> HIDE DEF next
  <2>3. /\ DOMAIN next = DOMAIN c /\ next.lock = history[k].lock /\ next.disk = c.disk
        /\ next.receipt = c.receipt /\ next.registered = c.registered
    BY <1>3, <2>1
  <2> QED
    BY <1>1, <1>3, <1>4, <1>5, <1>8, <2>2, <2>3 DEF Holds, next
<1> QED
  BY <1>1, <1>6, <1>7, <1>8

\* And so it holds before every step of every history, and after the last.
LEMMA HistoriesHold ==
    ASSUME NoneIsNoFunction, NEW n \in Nat, NEW history, NEW at, IsHistory(history, at, n)
    PROVE  \A k \in 1..(n + 1) : Holds(history, at, k)
<1> DEFINE Broken == {k \in 1..(n + 1) : ~Holds(history, at, k)}
<1>1. Holds(history, at, 1)
  <2>1. IsClone(at[1])
    BY DEF IsHistory
  <2>2. \A i \in Accepting(history, at) : ~(i < 1)
    BY DEF Accepting, IsHistory
  <2> QED
    BY <2>1, <2>2 DEF Holds, IsClone, ReceiptIsOfLast, RootsAreRegistered
<1>2. ASSUME Broken # {}
      PROVE  FALSE
  <2>1. Broken \subseteq Nat
    OBVIOUS
  <2> HIDE DEF Broken
  <2>2. PICK k \in Broken : \A j \in Broken : k <= j
    BY <1>2, <2>1, Least
  <2>3. k \in 1..(n + 1) /\ ~Holds(history, at, k) /\ k # 1
    BY <1>1 DEF Broken
  <2> DEFINE j == k - 1
  <2>4. j \in 1..n /\ j + 1 = k /\ j < k
    BY <2>3
  <2> HIDE DEF j
  <2>5. j \notin Broken /\ j \in 1..(n + 1)
    BY <2>1, <2>2, <2>4
  <2>6. Holds(history, at, j)
    BY <2>5 DEF Broken
  <2>7. Holds(history, at, j + 1)
    BY <2>4, <2>6, CommandsKeep
  <2> QED
    BY <2>3, <2>4, <2>7
<1> QED
  BY <1>2

\* The acknowledgment that is there passes where the last acceptance was of this lock.
LEMMA InstalledIsAccepted ==
    ASSUME Terms = Receipts!Ascending(Receipts!ToSet(Terms)),
           NEW lock, IsLock(lock), NEW accepted, IsLock(accepted), ReceiptOf(accepted) # None
    PROVE  Receipts!InstallPhase(lock, ReceiptOf(accepted)) = "PASSED"
             <=> /\ Receipts!Contract(accepted) = Receipts!Contract(lock)
                 /\ lock.dataset = Dataset /\ Receipts!Sorted(lock.terms) = Terms
<1> DEFINE receipt == ReceiptOf(accepted)
           listed == Receipts!Ascending(Receipts!ToSet(accepted.terms))
<1>1. /\ receipt.dataset = accepted.dataset /\ receipt.contract = Receipts!Contract(accepted)
      /\ receipt.terms = listed /\ receipt.confirmed /\ ~receipt.redistribution
  <2> HIDE DEF listed
  <2> QED
    BY DEF ReceiptOf, listed
<1>2. \A l : Receipts!Contract(l).dataset = l.dataset /\ Receipts!Contract(l).terms = Receipts!Sorted(l.terms)
  BY DEF Receipts!Contract
<1>3. Receipts!ToSet(Receipts!Sorted(accepted.terms)) = Receipts!ToSet(accepted.terms)
  BY SortedTerms DEF IsLock
<1> HIDE DEF receipt
<1>4. Receipts!InstallPhase(lock, receipt) = "PASSED"
        <=> Receipts!Sendable(receipt) /\ Receipts!Valid(lock, receipt)
  BY DEF Receipts!InstallPhase
<1>5. Receipts!Sendable(receipt) <=> accepted.dataset = Dataset /\ listed = Terms
  BY <1>1 DEF Receipts!Sendable, receipt
<1>6. Receipts!Valid(lock, receipt)
        <=> /\ accepted.dataset = lock.dataset /\ Receipts!Contract(accepted) = Receipts!Contract(lock)
            /\ listed = Receipts!Sorted(lock.terms)
  BY <1>1, <1>2 DEF Receipts!Valid, receipt
<1>7. ASSUME Receipts!Contract(accepted) = Receipts!Contract(lock)
      PROVE  accepted.dataset = lock.dataset /\ Receipts!Sorted(accepted.terms) = Receipts!Sorted(lock.terms)
  BY <1>2, <1>7
<1>8. ASSUME Receipts!Sorted(accepted.terms) = Terms
      PROVE  listed = Terms
  BY <1>3, <1>8
<1> HIDE DEF listed
<1> QED
  BY <1>4, <1>5, <1>6, <1>7, <1>8 DEF receipt

\* data/license.py, cli/data.py: after every history of commands on a clone, a command gets a root
\* only if it was registered with the published archive, after exactly the contract the lock then
\* had was accepted; and the acknowledgment passes on the host exactly when its last acceptance was
\* of this lock, and of the terms source_bundle.py knows.
THEOREM HistoriesAreLicensed ==
    ASSUME NoneIsNoFunction, Terms = Receipts!Ascending(Receipts!ToSet(Terms)),
           NEW n \in Nat, NEW history, NEW at, IsHistory(history, at, n)
    PROVE  Receipts!LicensedAt(history, at)
<1> DEFINE accepting == Accepting(history, at)
           final == at[n + 1]
           licensed(root, profile) ==
             {j \in DOMAIN history : Receipts!Registers(history, at, accepting, j, root, profile)}
<1>1. /\ IsLock(final.lock) /\ None \notin DOMAIN final.disk
      /\ ReceiptIsOfLast(history, at, n + 1) /\ RootsAreRegistered(history, at, n + 1)
  <2>1. n + 1 \in 1..(n + 1)
    OBVIOUS
  <2> QED
    BY <2>1, HistoriesHold DEF Holds
<1>2. \A i \in accepting : i \in 1..n /\ i < n + 1
  BY DEF Accepting, IsHistory
<1>3. ASSUME NEW root \in DOMAIN final.disk, NEW profile \in {"sample", "full"}
      PROVE  Receipts!RegisteredRoot(final, Dataset, profile, root)
               \in {root : k \in licensed(root, profile)} \union {None}
  <2> DEFINE e == <<Dataset, profile>>
  <2>1. CASE Receipts!RegisteredRoot(final, Dataset, profile, root) = None
    BY <2>1
  <2>2. CASE Receipts!RegisteredRoot(final, Dataset, profile, root) # None
    <3>1. /\ e \in DOMAIN final.registered /\ final.registered[e].root = root
          /\ Receipts!RegisteredRoot(final, Dataset, profile, root) = root
      BY <1>1, <2>2 DEF Receipts!RegisteredRoot, Receipts!LoadRegistration
    <3>2. e[2] = profile
      OBVIOUS
    <3> HIDE DEF e
    <3>3. \E j \in DOMAIN history : Receipts!Registers(history, at, accepting, j, root, profile)
      BY <1>1, <3>1, <3>2 DEF RootsAreRegistered
    <3> QED
      BY <3>1, <3>3
  <2> QED
    BY <2>1, <2>2
<1> DEFINE passes == Receipts!InstallPhase(final.lock, final.receipt) = "PASSED"
           ofThis(j) == Receipts!Contract(at[j].lock) = Receipts!Contract(final.lock)
           known == final.lock.dataset = Dataset /\ Receipts!Sorted(final.lock.terms) = Terms
           last(j) == \A k \in accepting : k <= j
<1>4. passes <=> accepting # {} /\ (\E j \in accepting : last(j) /\ ofThis(j)) /\ known
  <2>1. CASE final.receipt = None /\ \A i \in accepting : ~(i < n + 1)
    <3>1. accepting = {}
      BY <1>2, <2>1
    <3>2. ~passes
      BY <2>1 DEF Receipts!InstallPhase, Receipts!Sendable
    <3> QED
      BY <3>1, <3>2
  <2>2. ASSUME NEW j \in accepting, final.receipt = ReceiptOf(at[j].lock),
               \A i \in accepting : i < n + 1 => i <= j
        PROVE  passes <=> accepting # {} /\ (\E i \in accepting : last(i) /\ ofThis(i)) /\ known
    <3>1. j \in 1..(n + 1) /\ IsLock(at[j].lock)
      <4>1. j \in 1..(n + 1)
        BY <1>2
      <4> QED
        BY <4>1, HistoriesHold DEF Holds
    <3>2. ReceiptOf(at[j].lock) # None
      <4> DEFINE receipt == ReceiptOf(at[j].lock)
      <4>1. receipt = [x \in DOMAIN receipt |-> receipt[x]]
        BY DEF ReceiptOf
      <4> HIDE DEF receipt
      <4>2. receipt # None
        BY <4>1 DEF NoneIsNoFunction
      <4> QED
        BY <4>2 DEF receipt
    <3>3. passes <=> ofThis(j) /\ known
      <4>1. Receipts!InstallPhase(final.lock, ReceiptOf(at[j].lock)) = "PASSED"
              <=> /\ Receipts!Contract(at[j].lock) = Receipts!Contract(final.lock)
                  /\ final.lock.dataset = Dataset /\ Receipts!Sorted(final.lock.terms) = Terms
        BY <1>1, <3>1, <3>2, InstalledIsAccepted
      <4> QED
        BY <2>2, <4>1
    <3>4. last(j)
      BY <1>2, <2>2
    <3>5. \A i \in accepting : last(i) => i = j
      <4> SUFFICES ASSUME NEW i \in accepting, last(i)
                   PROVE  i = j
        OBVIOUS
      <4>1. i <= j /\ j <= i
        BY <3>4
      <4> HIDE DEF accepting, last
      <4> QED
        BY <1>2, <4>1
    <3> HIDE DEF passes, ofThis, known, last, accepting
    <3> QED
      BY <3>3, <3>4, <3>5
  <2> HIDE DEF passes, ofThis, known, last
  <2> QED
    BY <1>1, <2>1, <2>2 DEF ReceiptIsOfLast
<1>5. Receipts!Licensed(history, at, accepting, final)
  BY <1>3, <1>4 DEF Receipts!Licensed
<1>6. Len(history) = n
  BY DEF IsHistory
<1> QED
  BY <1>5, <1>6 DEF Receipts!LicensedAt, Accepting

-----------------------------------------------------------------------------
(* The derivations. *)

\* A list with one more value.
LEMMA AppendIsList ==
    ASSUME NEW n \in Nat, NEW s, IsList(s, n), NEW e
    PROVE  LET t == Append(s, e)
           IN  /\ Len(s) = n /\ IsList(t, n + 1) /\ Len(t) = n + 1 /\ DOMAIN t = 1..(n + 1)
               /\ t[n + 1] = e /\ \A k \in 1..n : t[k] = s[k]
<1> DEFINE S == {s[k] : k \in 1..n} \union {e}
           t == Append(s, e)
<1>1. s \in [1..n -> S] /\ e \in S
  BY DEF IsList
<1> HIDE DEF S
<1>2. s \in Seq(S) /\ Len(s) = n
  BY <1>1
<1>3. t \in Seq(S) /\ Len(t) = n + 1 /\ t[n + 1] = e /\ \A k \in 1..n : t[k] = s[k]
  BY <1>1, <1>2
<1> HIDE DEF t
<1>4. t \in [1..(n + 1) -> S]
  BY <1>3
<1>5. DOMAIN t = 1..(n + 1) /\ IsList(t, n + 1)
  BY <1>4 DEF IsList
<1> QED
  BY <1>2, <1>3, <1>5 DEF t

\* One more command makes a longer history.
LEMMA HistoryGoesOn ==
    ASSUME NEW n \in Nat, NEW history, NEW at, IsList(history, n), IsList(at, n + 1),
           IsHistory(history, at, n), NEW command, IsCommand(command)
    PROVE  LET longer == Append(history, command)
               after == Append(at, Receipts!Command(at[Len(at)], command))
           IN  /\ Len(longer) = n + 1 /\ IsList(longer, n + 1) /\ IsList(after, n + 2)
               /\ IsHistory(longer, after, n + 1)
<1> DEFINE last == Receipts!Command(at[Len(at)], command)
           longer == Append(history, command)
           after == Append(at, last)
<1>1. /\ IsList(longer, n + 1) /\ Len(longer) = n + 1 /\ DOMAIN longer = 1..(n + 1)
      /\ longer[n + 1] = command /\ \A k \in 1..n : longer[k] = history[k]
  BY AppendIsList
<1> HIDE DEF longer, last
<1>2. n + 1 \in Nat /\ (n + 1) + 1 = n + 2
  OBVIOUS
<1>3. /\ Len(at) = n + 1 /\ IsList(after, (n + 1) + 1) /\ after[(n + 1) + 1] = last
      /\ \A k \in 1..(n + 1) : after[k] = at[k]
  BY <1>2, AppendIsList
<1> HIDE DEF after
<1>4. last = Receipts!Command(at[n + 1], command)
  BY <1>3 DEF last
<1>5. ASSUME NEW k \in 1..(n + 1)
      PROVE  IsCommand(longer[k]) /\ after[k + 1] = Receipts!Command(after[k], longer[k])
  <2>1. CASE k = n + 1
    BY <1>1, <1>3, <1>4, <2>1
  <2>2. CASE k \in 1..n
    <3>1. IsCommand(history[k]) /\ at[k + 1] = Receipts!Command(at[k], history[k])
      BY <2>2 DEF IsHistory
    <3>2. k + 1 \in 1..(n + 1) /\ after[k + 1] = at[k + 1] /\ after[k] = at[k] /\ longer[k] = history[k]
      BY <1>1, <1>3, <2>2
    <3> QED
      BY <3>1, <3>2
  <2> QED
    BY <2>1, <2>2
<1>6. IsClone(after[1])
  <2>1. 1 \in 1..(n + 1) /\ IsClone(at[1])
    BY DEF IsHistory
  <2> QED
    BY <1>3, <2>1
<1>7. IsHistory(longer, after, n + 1)
  BY <1>1, <1>5, <1>6 DEF IsHistory
<1> QED
  BY <1>1, <1>2, <1>3, <1>7 DEF longer, after, last

\* Nothing is derived at first.
LEMMA GivenInv == Given => DerivationInv
BY DEF Given, DerivationInv

\* A derivation leaves a result of its document, and only the history of a clone goes on.
LEMMA DeriveInv == DerivationInv /\ [Derive]_derivation => DerivationInv'
<1> SUFFICES ASSUME DerivationInv, [Derive]_derivation PROVE DerivationInv'
  OBVIOUS
<1>1. CASE UNCHANGED derivation
  BY <1>1 DEF derivation, DerivationInv, Documented
<1>2. ASSUME NEW t, NEW result, Deriving(t, result),
             t = "associate" => result = MatchType(input),
             t = "distrust" => result = {o \in Outputs(input) : Accepts(input, o)},
             t # "history"
      PROVE  DerivationInv'
  BY <1>2 DEF Deriving, DerivationInv, Documented
<1>3. CASE Associate
  BY <1>2, <1>3 DEF Associate
<1>4. CASE Distrust
  BY <1>2, <1>4 DEF Distrust
<1>5. CASE MeasureFrame
  BY <1>2, <1>5 DEF MeasureFrame
<1>6. CASE MeasureSegment
  BY <1>2, <1>6 DEF MeasureSegment
<1>7. CASE Validate
  BY <1>2, <1>7 DEF Validate
<1>8. CASE Decode
  BY <1>2, <1>8 DEF Decode
<1>9. CASE Deliver
  BY <1>2, <1>9 DEF Deliver
<1>10. CASE Publish
  BY <1>2, <1>10 DEF Publish
<1>11. CASE Clone
  <2>1. /\ task = "history" /\ UNCHANGED <<task, input>>
        /\ output'.history = <<>> /\ output'.at = <<input>>
    BY <1>11 DEF Clone, Deriving
  <2>2. IsClone(input)
    BY <2>1, Documents DEF DerivationInv, Documented
  <2>3. IsList(<<>>, 0) /\ IsList(<<input>>, 0 + 1) /\ Len(<<>>) = 0
    BY DEF IsList
  <2>4. IsHistory(<<>>, <<input>>, 0)
    BY <2>2 DEF IsHistory
  <2> QED
    BY <2>1, <2>3, <2>4 DEF DerivationInv, Documented
<1>12. CASE UseData
  <2> DEFINE n == Len(output.history)
             history == output.history
             at == output.at
  <2>1. PICK command \in Commands :
           /\ output'.history = Append(history, command)
           /\ output'.at = Append(at, Receipts!Command(at[Len(at)], command))
    BY <1>12 DEF UseData
  <2>2. IsCommand(command)
    BY Documents
  <2>3. /\ task = "history" /\ UNCHANGED <<task, input>>
        /\ n \in Nat /\ IsList(history, n) /\ IsList(at, n + 1) /\ IsHistory(history, at, n)
    BY <1>12 DEF UseData, DerivationInv
  <2> HIDE DEF n, history, at
  <2>4. /\ Len(output'.history) = n + 1 /\ IsList(output'.history, n + 1)
        /\ IsList(output'.at, n + 2) /\ IsHistory(output'.history, output'.at, n + 1)
    <3> DEFINE longer == Append(history, command)
               after == Append(at, Receipts!Command(at[Len(at)], command))
    <3>1. /\ Len(longer) = n + 1 /\ IsList(longer, n + 1)
          /\ IsList(after, n + 2) /\ IsHistory(longer, after, n + 1)
      BY <2>2, <2>3, HistoryGoesOn
    <3>2. output'.history = longer /\ output'.at = after
      BY <2>1
    <3> HIDE DEF longer, after
    <3> QED
      BY <3>1, <3>2
  <2>5. n + 1 \in Nat /\ (n + 1) + 1 = n + 2
    BY <2>3
  <2> QED
    BY <2>3, <2>4, <2>5 DEF DerivationInv, Documented
<1> QED
  BY <1>1, <1>3, <1>4, <1>5, <1>6, <1>7, <1>8, <1>9, <1>10, <1>11, <1>12 DEF Derive

\* The inductive invariant: what is derived stays what the code derives of the document, and a
\* checkout is what the commands so far made of a clone.
THEOREM DerivationInvariant == Derivations => []DerivationInv
<1> QED
  BY GivenInv, DeriveInv, PTL DEF Derivations

\* The association and the metrics of the custom KPIs (custom_match.py, custom.py) are those
\* defined, of every request, frame and sequence of frames.
THEOREM KpisAreDefinedAndAgree == Derivations => []KpisAreThoseDefined
<1>1. DerivationInv => KpisAreThoseDefined
  <2> SUFFICES ASSUME DerivationInv PROVE KpisAreThoseDefined
    OBVIOUS
  <2>1. ASSUME Derives("associate") PROVE IsGreedyAssociation(input, output) /\ Accepts(input, output)
    <3>1. IsRequest(input) /\ output = MatchType(input)
      BY <2>1, Documents DEF Derives, DerivationInv, Documented
    <3> QED
      BY <3>1, ContainerIsAccepted DEF IsRequest
  <2>2. ASSUME Derives("distrust") PROVE AcceptedIsGreedy(input, output)
    <3>1. IsRequest(input) /\ output = {o \in Outputs(input) : Accepts(input, o)}
      BY <2>2, Documents DEF Derives, DerivationInv, Documented
    <3>2. AcceptedIsGreedy(input, {o \in Outputs(input) : Accepts(input, o)})
      BY <3>1, HostAcceptsOnlyGreedy DEF IsRequest
    <3> QED
      BY <3>1, <3>2
  <2>3. ASSUME Derives("frame") PROVE MetricsAgree(input)
    <3>1. IsAssociated(input)
      BY <2>3, Documents DEF Derives, DerivationInv, Documented
    <3> QED
      BY <3>1, FrameMetricsAgree
  <2>4. ASSUME Derives("segment") PROVE TemporalMetricsAgree(input)
    <3>1. Len(input) \in Nat /\ DOMAIN input = 1..Len(input)
      BY <2>4, Documents DEF Derives, DerivationInv, Documented
    <3> QED
      BY <3>1, SegmentMetricsAgree
  <2> QED
    BY <2>1, <2>2, <2>3, <2>4 DEF KpisAreThoseDefined
<1> QED
  BY <1>1, DerivationInvariant, PTL

\* Of every envelope and every output of the model, Python and the native runtime agree on what
\* passes between them, and what the runtime decodes both can read.
THEOREM ContractsAlwaysAgree ==
    ASSUME NoneIsNoFunction
    PROVE  Derivations => []ContractsAgree
<1>1. NoneIsNoIdentity
  <2>1. \A type, k : <<type, k>> # None
    BY DEF NoneIsNoFunction
  <2>2. \A a, b, c, d : <<a, b, c, d>> # None
    BY DEF NoneIsNoFunction
  <2> QED
    BY <2>1, <2>2 DEF NoneIsNoIdentity, Contract!EdgeId
<1>2. DerivationInv => ContractsAgree
  <2> SUFFICES ASSUME DerivationInv PROVE ContractsAgree
    OBVIOUS
  <2>1. Contract!NativeReadsPython(input)
    BY <1>1, WhatPythonAcceptsIsRead DEF NoneIsNoIdentity
  <2>2. ASSUME Derives("decode") PROVE Contract!GraphIsReadable(input[1], input[2])
    <3>1. /\ Contract!PythonAccepts(input[1]) /\ input[1].sensor # None
          /\ IsModelOutput(input[2]) /\ LimitsAllow(input[2])
      BY <2>2, Documents DEF Derives, DerivationInv, Documented
    <3> QED
      BY <1>1, <3>1, Knowledge, DecodedGraphIsReadable
  <2> QED
    BY <2>1, <2>2 DEF ContractsAgree
<1> QED
  BY <1>2, DerivationInvariant, PTL

\* Of every pair of checkouts, every sequence of commands after a clone and every store, what is
\* handed over is the commit, is licensed, is registered.
THEOREM CustodyIsAlwaysKept ==
    ASSUME NoneIsNoFunction
    PROVE  Derivations => []CustodyIsKept
<1>1. DerivationInv => CustodyIsKept
  <2> SUFFICES ASSUME DerivationInv PROVE CustodyIsKept
    OBVIOUS
  <2>1. ASSUME Derives("transfer") PROVE Transfer!TransferIsExact(input.c, input.other)
    <3>1. IsCheckout(input.c) /\ IsCheckout(input.other)
      BY <2>1, Documents DEF Derives, DerivationInv, Documented
    <3> QED
      BY <3>1, TransferOfCheckoutsIsExact
  <2>2. ASSUME Derives("history") PROVE Receipts!LicensedAt(output.history, output.at)
    <3> DEFINE n == Len(output.history)
    <3>1. n \in Nat /\ IsHistory(output.history, output.at, n)
      BY <2>2 DEF Derives, DerivationInv
    <3> HIDE DEF n
    <3>2. Terms = Receipts!Ascending(Receipts!ToSet(Terms))
      BY Knowledge
    <3> QED
      BY <3>1, <3>2, HistoriesAreLicensed
  <2>3. ASSUME NEW route \in {"content", "decision", "image", "scene", "metrics"}, NEW i \in Asked
        PROVE  Pub!ServedIsRegistered(input, route, i)
    BY ServiceIsFaithful
  <2>4. ASSUME NEW mode \in {"public", "private"}, NEW scene \in Offered, NEW acknowledged \in BOOLEAN,
               NEW place \in {"new", "outside", "there"}
        PROVE  Pub!BundleIsFaithful(input, Comparison, mode, scene, acknowledged, place)
    BY BundlesAreFaithful
  <2> QED
    BY <2>1, <2>2, <2>3, <2>4 DEF CustodyIsKept
<1> QED
  BY <1>1, DerivationInvariant, PTL
=============================================================================
