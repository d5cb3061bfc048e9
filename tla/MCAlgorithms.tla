------------------------------ MODULE MCAlgorithms ------------------------------
(***************************************************************************)
(* The pure derivations of the system on small inputs: one behaviour takes *)
(* one document, derives what the code derives from it, and stops.  Those  *)
(* of Derivations, whose promises are proved of every document, are run    *)
(* beside those that are only checked on these.                            *)
(***************************************************************************)
EXTENDS Derivations

CONSTANTS PythonCount, NativeCount, NaN

Collections == {"cameras", "lanes", "controls", "areas", "edges", "tracks", "artifacts"}
PythonLimits == [c \in Collections |-> PythonCount]
NativeLimits == [c \in Collections |-> NativeCount]

Lab == INSTANCE FaultLab WITH
    Saturated <- 4, Gain <- 2, Inflated <- 3, DelayBudget <- 1, Delay <- 2,
    GrowthBudget <- 2, Buffer <- 1

Splits == INSTANCE DatasetSplits WITH TrainSplit <- 2

Data == INSTANCE MCDataFlow

Custody == INSTANCE MCDataCustody

-----------------------------------------------------------------------------
(* Association requests. *)

Prediction(k, confidence, key, cost) ==
    [id |-> k, confidence |-> confidence, key |-> key, query |-> k, cost |-> cost]

\* Two predictions that may tie in confidence and in geometry.
TwoPredictions ==
    {[truth |-> 1..2, predictions |-> <<Prediction(1, c[1], g[1], a), Prediction(2, c[2], g[2], b)>>] :
     c \in [1..2 -> 0..1], g \in [1..2 -> 0..1], a \in [1..2 -> 0..2], b \in [1..2 -> 0..2]}

\* Three of them, told apart by their query alone.
ThreePredictions ==
    {[truth |-> 1..2,
      predictions |-> [k \in 1..3 |-> Prediction(k, c[k], 0, [t \in 1..2 |-> m[<<k, t>>]])]] :
     c \in [1..3 -> 0..1], m \in [(1..3) \X (1..2) -> 0..2]}

SmallRequests == TwoPredictions \union ThreePredictions

(* Frames of the graph metrics. *)

Identity(S) == [p \in S |-> p]

SuccessorFrames ==
    LET pairs == {<<1, 2>>, <<2, 3>>, <<3, 4>>, <<4, 1>>, <<1, 3>>}
    IN  {[trueSuccessor |-> true, trueControl |-> {}, laneOf |-> lanes, controlOf |-> Identity({}),
          successor |-> [e \in predicted |-> EdgeThreshold], control |-> Identity({}),
          calibrated |-> Identity({})] :
         true \in SUBSET pairs, predicted \in SUBSET pairs,
         lanes \in {Identity(1..4), [Identity(1..4) EXCEPT ![2] = None]}}

ControlFrames ==
    LET pairs == {11, 12} \X {1, 2}
    IN  {[trueSuccessor |-> {}, trueControl |-> true, laneOf |-> lanes, controlOf |-> controls,
          successor |-> Identity({}), control |-> raw, calibrated |-> calibrated] :
         true \in SUBSET pairs,
         lanes \in {Identity({1, 2}), [p \in {1, 2} |-> 3 - p], [p \in {1, 2} |-> IF p = 1 THEN 1 ELSE None]},
         controls \in {Identity({11, 12}), [p \in {11, 12} |-> IF p = 12 THEN 11 ELSE None]},
         raw \in [pairs -> 0..2],
         calibrated \in {[e \in pairs |-> 0], [e \in pairs |-> Confident * e[2]]}}

SmallFrames == SuccessorFrames \union ControlFrames

(* Segments of the temporal metrics. *)

\* One truth, absent, unmatched, or matched with a track.
PresenceSegments ==
    LET absent == [present |-> {}, match |-> [t \in {1} |-> None], track |-> [t \in {1} |-> None]]
        seen(m, k) == [present |-> {1}, match |-> [t \in {1} |-> m], track |-> [t \in {1} |-> k]]
        rest(live) == [live |-> live, edges |-> {}, mapped |-> {}]
        frames == {o @@ rest(live) : o \in {absent, seen(None, None), seen(7, 1), seen(7, 2)},
                                     live \in {{1}, {1, 2}}}
    IN  [1..4 -> frames]

\* Two truths and the edge between them, three frames.
EdgeSegments ==
    LET frame(present, edges, mapped) ==
            [present |-> present, match |-> [t \in 1..2 |-> IF t \in present THEN t ELSE None],
             track |-> [t \in 1..2 |-> None], live |-> {}, edges |-> edges, mapped |-> mapped]
        edge == {<<1, 2>>}
    IN  [1..3 -> {frame(1..2, e, m) : e \in SUBSET edge, m \in SUBSET edge}
                 \union {frame({1}, {}, m) : m \in SUBSET edge}]

SmallSegments == PresenceSegments \union EdgeSegments

-----------------------------------------------------------------------------
(* Envelopes of the graph contract: a frame of one camera with two lanes, a control and
   what may be wrong with each. *)

Key == [name |-> "frame", sound |-> TRUE]
LaneNode(k, track) == [id |-> Contract!NodeId(1, k), sound |-> TRUE, track |-> track]
ControlNode(id, box) == [id |-> id, sound |-> TRUE, track |-> None, camera |-> 1, box |-> box]
WholeBox == [x0 |-> 0, x1 |-> 2, y0 |-> 0, y1 |-> 2]
FlatBox == [x0 |-> 1, x1 |-> 1, y0 |-> 0, y1 |-> 2]

Cameras == {[slot |-> slot, pose |-> pose, affine |-> affine, valid |-> valid, image |-> image] :
            slot \in 1..2, pose \in {"rotation", "reflection", "shear"}, affine \in BOOLEAN,
            valid \in BOOLEAN, image \in BOOLEAN}

GoodCamera == [slot |-> 1, pose |-> "rotation", affine |-> TRUE, valid |-> TRUE, image |-> TRUE]

Sensors ==
    {[key |-> Key, world |-> world, cameras |-> <<camera>>] :
     world \in {"rotation", "reflection"}, camera \in Cameras}
    \union {[key |-> Key, world |-> "rotation", cameras |-> <<GoodCamera, GoodCamera>>],
            [key |-> [Key EXCEPT !.name = "other"], world |-> "rotation", cameras |-> <<GoodCamera>>]}

GoodSensor == [key |-> Key, world |-> "rotation", cameras |-> <<GoodCamera>>]

Edge(id, type, source, target) ==
    [id |-> id, type |-> type, source |-> source, target |-> target, sound |-> TRUE]

\* The edges over some ends, each with its own identity or another's.
EdgeLists ==
    LET ends == {Contract!NodeId(1, 0), Contract!NodeId(1, 1), Contract!NodeId(2, 0), Contract!NodeId(3, 9)}
        own(type, s, t) == Edge(Contract!EdgeId(Key, type, s, t), type, s, t)
        one == {own(type, s, t) : type \in {"successor", "applies", "unspecified"}, s \in ends, t \in ends}
               \union {Edge(<<"frame", "other">>, "successor", Contract!NodeId(1, 0), Contract!NodeId(1, 1))}
    IN  {<<>>} \union {<<e>> : e \in one} \union {<<e, e>> : e \in one}
        \union {<<e, own("successor", Contract!NodeId(1, 1), Contract!NodeId(1, 0))>> : e \in one}

TrackLists ==
    {<<>>} \union
    {<<[id |-> id, node |-> node, type |-> type, first |-> first, last |-> 1, age |-> age]>> :
     id \in 0..1, node \in {Contract!NodeId(1, 0), Contract!NodeId(1, 1)}, type \in 1..2,
     first \in {1, 2}, age \in 0..1}

Envelope(role, sensor, lanes, controls, edges, tracks) ==
    [schema |-> 1, finite |-> TRUE, producer |-> TRUE, role |-> role, key |-> Key, sensor |-> sensor,
     lanes |-> lanes, controls |-> controls, areas |-> <<>>, edges |-> edges, tracks |-> tracks,
     artifacts |-> 0]

Nodes == {<<lanes, controls>> \in
            {<<LaneNode(0, None), LaneNode(1, None)>>, <<LaneNode(0, 1), LaneNode(1, None)>>,
             <<LaneNode(0, None), LaneNode(0, None)>>,
             <<LaneNode(0, None), LaneNode(1, None), LaneNode(2, None)>>}
            \X {<<>>, <<ControlNode(Contract!NodeId(2, 0), WholeBox)>>,
                <<ControlNode(Contract!NodeId(1, 5), WholeBox)>>,
                <<ControlNode(Contract!NodeId(2, 0), FlatBox)>>} : TRUE}

SmallEnvelopes ==
    {Envelope("prediction", sensor, <<LaneNode(0, None)>>, <<>>, <<>>, <<>>) : sensor \in Sensors}
    \union {Envelope(role, None, nodes[1], nodes[2], edges, <<>>) :
            role \in {"prediction", "truth", "unspecified"}, nodes \in Nodes, edges \in EdgeLists}
    \union {Envelope(role, GoodSensor, nodes[1], nodes[2], <<>>, tracks) :
            role \in {"prediction", "truth"}, nodes \in Nodes, tracks \in TrackLists}

\* Outputs of the model for two lane queries, one or two control queries and one area.
Outputs2 ==
    {[lanes |-> [q \in 1..2 |-> [rank |-> r[q], key |-> 0, sound |-> q # unsound]],
      controls |-> [q \in 1..1 |-> [rank |-> 1, key |-> 0, sound |-> TRUE, corners |-> corners]],
      areas |-> [q \in 1..1 |-> [rank |-> r[1], key |-> 0, sound |-> TRUE]],
      successor |-> s, applies |-> a] :
     r \in [1..2 -> 0..2], unsound \in {0, 2},
     corners \in {<<0, 0, 2, 2>>, <<2, 2, 1, 0>>, <<2, 3, 2, 3>>, <<0, -1, 0, -1>>, <<1, 0, 1, 3>>},
     s \in [(1..2) \X (1..2) -> 0..1], a \in [{1} \X (1..2) -> 0..1]}

SmallModelOutputs ==
    {<<Envelope("truth", s, <<>>, <<>>, <<>>, <<>>), out>> : s \in {GoodSensor,
       [GoodSensor EXCEPT !.cameras[1].valid = FALSE, !.cameras[1].image = FALSE]},
     out \in Outputs2}

(* Bundles of the fault laboratory. *)

LabLane(k, track, scales, p) ==
    [id |-> k, track |-> track, center |-> 3 * k, left |-> 0, right |-> 1, scales |-> scales, p |-> p]

LabControl(k) == [id |-> 10 + k, track |-> None, p |-> 1]

LabFrame(segment, time, lanes, controls, areas, tracks) ==
    [segment |-> segment, time |-> time, sensor |-> None, lanes |-> lanes, controls |-> controls,
     areas |-> areas, edges |-> <<>>, tracks |-> tracks]

\* The frame with the edges ends gives, some of them decided.
WithEdges(g, ends, type, decision) ==
    LET present == SelectSeq(ends, LAMBDA e : decision[e] # None)
        edge(e) == [id |-> Lab!EdgeId(g, type, e[1], e[2]), type |-> type, source |-> e[1],
                    target |-> e[2], p |-> 1, decided |-> decision[e]]
    IN  [g EXCEPT !.edges = [k \in DOMAIN present |-> edge(present[k])] \o @]

GoodFixture == [cpu |-> 0, latency |-> <<0, 1>>, memory |-> <<1, 2, 1, 2>>]

Bundle(frames) == [frames |-> frames, runtime |-> GoodFixture, history |-> None]

Decisions(ends) == [ToSet(ends) -> {TRUE, FALSE, None}]

FourLanes == LabFrame(1, 1, [k \in 1..4 |-> LabLane(k, None, <<1>>, 1)], <<>>, <<>>, <<>>)

ControlLab ==
    LET ends == <<<<11, 1>>, <<11, 2>>, <<12, 1>>, <<12, 2>>>>
        g == LabFrame(1, 1, <<LabLane(1, None, <<1>>, 1), LabLane(2, None, <<1>>, 1)>>,
                      <<LabControl(1), LabControl(2)>>, <<>>, <<>>)
    IN  {Bundle(<<WithEdges(g, ends, "applies", d)>>) : d \in Decisions(ends)}
        \union {Bundle(<<WithEdges(g, <<<<11, 1>>>>, "applies", d),
                         WithEdges([g EXCEPT !.time = 2], <<<<12, 1>>, <<11, 2>>>>, "applies", e)>>) :
                d \in Decisions(<<<<11, 1>>>>), e \in Decisions(<<<<12, 1>>, <<11, 2>>>>)}

SuccessorLab ==
    LET ends == <<<<3, 4>>, <<2, 3>>, <<1, 2>>, <<3, 1>>, <<4, 2>>>>
    IN  {Bundle(<<WithEdges(FourLanes, ends, "successor", d)>>) : d \in Decisions(ends)}

\* One frame of nodes whose contents differ, or not, with or without tracks.
NodeLab ==
    LET track(k) == [id |-> 5, node |-> k, reason |-> "active"]
        lane(k, t, s, p, same) == [LabLane(k, t, s, p) EXCEPT !.center = IF same THEN 0 ELSE @,
                                                             !.right = IF same THEN 0 ELSE @]
    IN  {Bundle(<<[LabFrame(1, 1, SubSeq(<<lane(1, t, s, p[1], same), lane(2, None, s, p[2], same)>>, 1, n),
                            [k \in 1..c |-> LabControl(k)],
                            [k \in 1..a |-> [id |-> 20 + k, track |-> None, scales |-> s, p |-> 0]],
                            IF t # None /\ n > 0 THEN <<track(1)>> ELSE <<>>)
                   EXCEPT !.sensor = IF same THEN <<[valid |-> FALSE, pose |-> 0], [valid |-> TRUE, pose |-> 0]>>
                                     ELSE None]>>) :
         t \in {None, 5}, s \in {<<>>, <<1>>, <<1, 3>>}, p \in [1..2 -> {-3, 0, 1, 3, 4}], n \in 0..2,
         c \in 0..1, a \in 0..1, same \in BOOLEAN}

\* Three or four frames of one segment, and one of another that is too short.
TemporalLab ==
    LET ends == <<<<1, 2>>>>
        frame(time, two, d, reason) ==
            LET g == LabFrame(1, time, IF two THEN <<LabLane(1, 7, <<1>>, 1), LabLane(2, None, <<1>>, 1)>>
                                       ELSE <<LabLane(1, 7, <<1>>, 1)>>, <<>>, <<>>,
                              <<[id |-> 7, node |-> 1, reason |-> reason]>>)
            IN  WithEdges(g, IF two THEN ends ELSE <<>>, "successor", [e \in ToSet(ends) |-> d])
        other == [FourLanes EXCEPT !.segment = 0]
        at(time) == {frame(time, two, d, reason) : two \in BOOLEAN, d \in BOOLEAN,
                                                   reason \in {"active", "misses", "segment end"}}
    IN  {Bundle(<<g, other, f, h>>) : f \in at(1), g \in at(2), h \in at(3)}
        \union {Bundle(<<f, g>>) : f \in at(1), g \in at(2)}

RuntimeLab ==
    {[Bundle(<<FourLanes>>) EXCEPT !.runtime = [cpu |-> cpu, latency |-> <<0, late>>, memory |-> memory]] :
     cpu \in 0..1, late \in 0..2, memory \in UNION {[1..n -> 1..4] : n \in 2..4}}

LabCases ==
    (ControlLab \X {"swap-control-edges", "drop-control-edges", "dangling-edge", "permute-nodes-correctly"})
    \union (SuccessorLab \X {"drop-successor-chain", "add-spurious-successors"})
    \union (NodeLab \X {"permute-nodes-correctly", "permute-nodes-without-edges", "duplicate-node-id",
                        "jitter-lanes", "flip-boundaries", "corrupt-extrinsic", "zero-uncertainty",
                        "inflate-uncertainty", "temperature-collapse", "inject-nan"})
    \union (TemporalLab \X {"alternate-edge-confidence", "alternate-node-presence", "reuse-track-id"})
    \union (RuntimeLab \X {"force-provider-fallback", "delay-postprocess", "leak-buffer"})

(* The data pipeline. *)

Allocation(a, b, c, d) ==
    [p \in ToSet(Splits!Partitions) |->
        CASE p = "model_training" -> a [] p = "model_selection" -> b
          [] p = "calibration" -> c [] p = "internal_holdout" -> d]

\* The policy of V1 over two domains of any size, and small policies over up to three.
Apportionments ==
    {[counts |-> <<n, 700 - n>>, allocation |-> Allocation(350, 80, 70, 200)] : n \in 1..699}
    \union UNION {{[counts |-> counts, allocation |-> Allocation(a[1], a[2], a[3], a[4])] :
                   counts \in {c \in UNION {[1..n -> 1..6] : n \in 1..3} :
                                 SumFunction(c) = SumFunction(a)}} :
                  a \in {x \in [1..4 -> 0..3] : SumFunction(x) \in 1..7}}

\* Manifests of three segments, right and wrong.
Manifests ==
    LET catalog == {[segment |-> 1, domain |-> 1], [segment |-> 2, domain |-> 2], [segment |-> 3, domain |-> 1]}
        domainOf(s) == IF s = 2 THEN 2 ELSE 1
        part(segments, extra, honest) ==
            [segments |-> segments, count |-> Len(segments) + extra,
             domains |-> LET known == ToSet(segments) \ {4}
                         IN  IF honest THEN [d \in {domainOf(s) : s \in known} |->
                                               Cardinality({s \in known : domainOf(s) = d})]
                             ELSE <<1>>]
        lists == {<<>>, <<1>>, <<2>>, <<3>>, <<4>>, <<1, 2>>, <<1, 1>>}
    IN  {[catalog |-> catalog,
          partitions |-> <<part(a, extra, honest), part(b, 0, TRUE), part(c, 0, TRUE), part(d, 0, TRUE)>>] :
         a \in lists, b \in lists, c \in {<<>>, <<3>>}, d \in lists, extra \in 0..1, honest \in BOOLEAN}

\* Indices of three segments to train on and one of another split, with timestamps out of
\* order, with a leading zero, or none.
Indices ==
    LET time(n) == [number |-> n, zeros |-> 0]
        times == {<<time(5)>>, <<time(6), time(5)>>, <<time(5), [number |-> 5, zeros |-> 1]>>}
        of(split, segment, timestamps) == [split |-> split, segment |-> segment, timestamps |-> timestamps]
    IN  {{of(1, 1, <<time(5)>>), of(2, 1, t[1]), of(2, 2, t[2]), of(2, 3, t[3])} : t \in [1..3 -> times]}
        \union {{of(2, 1, <<time(5), time(5)>>)}, {of(2, 1, <<>>), of(2, 2, <<time(5)>>)}}

Metadatas ==
    {[k \in (1..2) \X (1..3) \X (5..6) |->
        [domain |-> d[k[2]], source |-> IF stable THEN k[2] ELSE k[2] * k[3]]] :
     d \in [1..3 -> 1..2], stable \in BOOLEAN}

Pipelines ==
    {[index |-> index, metadata |-> metadata, allocation |-> allocation, score |-> score] :
     index \in Indices, metadata \in Metadatas, score \in {f \in [1..3 -> 1..3] : IsInjective(f)},
     allocation \in {Allocation(1, 1, 0, 1), Allocation(2, 1, 0, 0), Allocation(1, 0, 1, 0)}}

\* Frames whose objects keep, change and share their identities.
Streams ==
    LET object(id, signature, at) == [id |-> id, signature |-> signature, at |-> at]
        frame(key, objects) == [split |-> key[1], segment |-> key[2], time |-> key[3], objects |-> objects]
        some == {<<>>, <<object(2, 0, 0)>>, <<object(1, 0, 0), object(2, 0, 5)>>,
                 <<object(1, 0, 0), object(1, 1, 5)>>}
                \union {<<object(1, signature, at)>> : signature \in 0..1, at \in {0, 1, 5, None}}
    IN  {<<frame(k[1], o[1]), frame(k[2], o[2]), frame(k[3], o[3]), frame(k[4], o[4])>> :
         k \in {<<<<1, 1, 1>>, <<1, 1, 2>>, <<1, 1, 3>>, <<1, 1, 4>>>>,
                <<<<1, 1, 1>>, <<1, 1, 2>>, <<1, 2, 1>>, <<2, 1, 1>>>>,
                <<<<1, 1, 1>>, <<1, 2, 1>>, <<1, 1, 2>>, <<1, 1, 3>>>>},
         o \in [1..4 -> some]}

(* The publication. *)

\* Tables of up to five batches, cut where a page of so many rows asks for it or at the end
\* of a row group.
Pages ==
    UNION {{[batches |-> batches, limit |-> limit] :
            batches \in UNION {[1..n -> 1..Pub!BatchSize(limit)] : n \in 0..5}} : limit \in 1..4}

Verdict(status, cells, reasons, identified) ==
    [type |-> "decision", status |-> status, cells |-> cells, hypotheses |-> <<>>, reasons |-> reasons,
     identified |-> identified]

Verdicts ==
    LET cell(id, status, reason) == [id |-> id, status |-> status, reason |-> reason]
    IN  {Verdict("PASS", <<cell(1, "PASS", "ok")>>, {}, TRUE),
         Verdict("FAIL", <<cell(1, "PASS", "ok"), cell(2, "FAIL", "worse")>>, {"missing"}, TRUE)}

Scenes ==
    LET camera(slot, image) == [slot |-> slot, image |-> image]
        scene(decision, frames) == [type |-> "scene", decision |-> decision, frames |-> frames]
        frame(id, cameras) == [id |-> id, cameras |-> cameras]
    IN  {scene(decision, frames) : decision \in {5, 4, 11},
         frames \in {<<frame(1, <<camera(1, None)>>)>>, <<frame(1, <<camera(1, 9), camera(2, 10)>>)>>,
                     <<frame(1, <<camera(1, 9), camera(1, None)>>)>>,
                     <<frame(1, <<camera(1, 9)>>), frame(2, <<camera(1, 9)>>)>>,
                     <<frame(1, <<camera(1, None)>>), frame(1, <<camera(1, None)>>)>>, <<>>}}

\* A registry with a comparison, a scene with two images, the decision of another comparison,
\* and one artifact that is not what it was.
Registry(c) ==
    LET image(media) == Pub!Artifact("image", media, "licensed", {}, [type |-> "image", format |-> "image/png"])
        arm == Pub!Artifact("prediction_bundle", "arm", "derived", {}, [type |-> "arm"])
        store == Pub!RunComparison(
            (1 :> arm) @@ (2 :> arm) @@ (9 :> image("image/png")) @@ (10 :> image(c.media))
            @@ (11 :> Pub!Artifact("release_decision", "gate-decision", "derived", {},
                                   Verdict("PASS", <<>>, {}, TRUE)))
            @@ (8 :> Pub!Artifact("counterexample_bundle", "scene-bundle", "restricted",
                                  IF c.orphan THEN {5, 9} ELSE {5, 9, 10, 11}, c.scene)),
            c.verdict, 3)
    IN  CASE c.damage = "none" -> store
          [] c.damage = "unindexed" -> [store EXCEPT ![c.of].indexed = FALSE]
          [] c.damage = "unsound" -> [store EXCEPT ![c.of].sound = FALSE]
          [] c.damage = "large" -> [store EXCEPT ![c.of].size = 2]
          [] c.damage = "huge" -> [store EXCEPT ![c.of].size = 3]
          [] c.damage = "kind" -> [store EXCEPT ![c.of].kind = "benchmark"]
          [] c.damage = "parents" -> [store EXCEPT ![c.of].parents = {}]

Registries ==
    {[verdict |-> verdict, scene |-> scene, damage |-> d[1], of |-> d[2], orphan |-> orphan, media |-> media] :
     verdict \in Verdicts, scene \in Scenes, orphan \in BOOLEAN, media \in {"image/png", "image/jpeg", "text"},
     d \in {<<"none", 1>>} \union ({"unindexed", "unsound", "large", "huge", "kind", "parents"} \X (3..11))}

SmallStores == {Registry(c) : c \in Registries}

\* What the service lists, where nothing is damaged the report exports too.
Listings == {[store |-> Registry(c), damaged |-> c.damage # "none"] : c \in Registries}

SmallOffers == {None, 8, 9}

-----------------------------------------------------------------------------
(* The custody. *)

KnownTerms == <<1, 2>>
SmallTransfers == Custody!CheckoutPairs
SmallClones == {Custody!Cloned}
SmallCommands == Custody!DataCommands

-----------------------------------------------------------------------------
Init ==
    \/ Given
    \/ /\ output = None
       /\ \/ task = "fault" /\ input \in LabCases
          \/ task = "apportion" /\ input \in Apportionments
          \/ task = "manifest" /\ input \in Manifests
          \/ task = "pipeline" /\ input \in Pipelines
          \/ task = "stream" /\ input \in Streams
          \/ task = "motion" /\ input \in Data!Matrices
          \/ task = "pose" /\ input \in Data!Poses
          \/ task = "box" /\ input \in Data!BoxPairs
          \/ task = "image" /\ input \in Data!Images
          \/ task = "curve" /\ input \in Data!Curves
          \/ task = "pair" /\ input \in Data!CurvePairs
          \/ task = "sides" /\ input \in Data!LanesWithSides
          \/ task = "assign" /\ input \in Data!Costs
          \/ task = "adapt" /\ input \in Data!RawFrames
          \/ task = "learn" /\ input \in Data!Learnings
          \/ task = "rules" /\ input \in Data!Fittings
          \/ task = "calibrate" /\ input \in Data!BinaryPopulations
          \/ task = "classify" /\ input \in Data!MulticlassPopulations
          \/ task = "cover" /\ input \in Data!Residuals
          \/ task = "time" /\ input \in Data!SampleLists
          \/ task = "statistics" /\ input \in Custody!Datasets
          \/ task = "review" /\ input \in Custody!Reviews
          \/ task = "page" /\ input \in Pages
          \/ task = "list" /\ input \in Listings

InjectFault == Deriving("fault", Lab!Injected(input[1], input[2]))
Apportion == Deriving("apportion", Splits!HamiltonCounts(input.counts, input.allocation))
AuditManifest == Deriving("manifest", Splits!AuditAccepts(input, Allocation(1, 1, 0, 1)))
OrderFrames == Deriving("pipeline", Splits!Pipeline(input.index, input.metadata, input.allocation, input.score))
AuditStream == Deriving("stream", <<Splits!StreamedEvidence(input, 2)>>)
Turn == Deriving("motion", <<Data!Geo!RigidTransform(input, <<0, 0, 0>>)>>)
Align == Deriving("pose", Data!Geo!Align(input.p, input.a, input.b))
Overlap == Deriving("box", Data!Geo!Iou(input.a, input.b))
Fit == Deriving("image", Data!Geo!Letterbox(input.w, input.h, input.model))
Resample == Deriving("curve", <<Data!Geo!Resample(input.p, input.n)>>)
CompareCurves == Deriving("pair", <<Data!Geo!EndpointFeatures(input.p, input.q)>>)
Orient == Deriving("sides", Data!Geo!Oriented(input.center, input.left, input.right))
Assign == Deriving("assign", Data!Geo!Hungarian(input.cost, input.rows, input.columns))
Adapt == Deriving("adapt", <<Data!Adapter!LoadFrame(Data!FrameKey, input)>>)
Learn == Deriving("learn", <<Data!Topology!E1Targets(input.frame)>>)
FitRules == Deriving("rules", Data!Topology!Observations(input))
Calibrate == Deriving("calibrate", Data!Evidence!BinaryEvidence(input))
Classify == Deriving("classify", Data!Evidence!MulticlassEvidence(input))
Cover == Deriving("cover", Data!Evidence!Uncertainty(input))
Time == Deriving("time", IF Data!Evidence!RuntimeAccepts(input)
                         THEN {Data!Evidence!RuntimeDistributions(input)} ELSE {})
Survey == Deriving("statistics", <<Custody!Qualification!AuditDataset(input, Custody!Good, Custody!Capacity)>>)
Review == Deriving("review", Custody!Reviewed(input))
ListArtifacts == Deriving("list", <<Pub!ListPage(input.store, {"image"}, 0, 1)>>)
ReadPage == Deriving("page", Pub!PageRows(input.batches, 0, input.limit))

Next ==
    \/ Derive
    \/ Calibrate \/ Classify \/ Cover \/ Time
    \/ Learn \/ FitRules
    \/ InjectFault
    \/ Apportion \/ AuditManifest \/ OrderFrames \/ AuditStream \/ Adapt
    \/ Survey \/ Review
    \/ ReadPage \/ ListArtifacts
    \/ Turn \/ Align \/ Overlap \/ Fit \/ Resample \/ CompareCurves \/ Orient \/ Assign

Spec == Init /\ [][Next]_derivation

-----------------------------------------------------------------------------
(***************************************************************************)
(* Properties, beside those of Derivations.                                *)
(***************************************************************************)

\* The coordinates, images, curves and assignments of data/geometry.py, geometry/*.py and
\* cpp/src/geometry: a motion stays a motion, a point is seen where it is in every frame, and
\* Python and C++ resample, letterbox and assign alike.
GeometryIsShared ==
    /\ Derives("motion") => Data!Geo!RigidIsAMotion(input)
    /\ Derives("pose") => Data!Geo!FramesAgree(input.a, input.b, input.p, input.k)
    /\ Derives("box") => Data!Geo!BoxesArePixels(input.a, input.b, input.m, 3, 3)
    /\ Derives("image") => Data!Geo!LetterboxesAgree(input.w, input.h, input.model)
    /\ Derives("curve") => Data!Geo!ResamplesAgree(input.p, input.n)
    /\ Derives("pair") => Data!Geo!DistancesAgree(input.p, input.q) /\ Data!Geo!FeaturesReverse(input.p, input.q, output[1])
    /\ Derives("sides") => Data!Geo!OrientationIsOfTravel(input.center, input.left, input.right)
    /\ Derives("assign") => Data!Geo!AssignmentIsOptimal(input.cost, input.rows, input.columns)

\* What is said of the model, the runtime and the registry is what their evidence says: the
\* calibration and runtime evidence (evaluator/evidence.py) is that of its population, whatever
\* its order, and no warmup enters it; the analysis of faults/analysis.py finds every fault that
\* faults/transforms.py puts into a clean bundle, but for its known blind spots, and accuses no
\* bundle without one; and a client that asks for page after page (api/repository.py) gets every
\* row and artifact once, and the report (report/export.py) of an undamaged comparison.
EvidenceIsSound ==
    /\ Derives("calibrate") => Data!Evidence!BinaryIsSound(input)
    /\ Derives("classify") => Data!Evidence!MulticlassIsSound(input)
    /\ Derives("cover") => Data!Evidence!CoverageAgrees(input)
    /\ Derives("time") => Data!Evidence!RuntimeIsSound(input)
    /\ Derives("fault") => Lab!LabIsSound(input[1], input[2], output)
    /\ Derives("page") => Pub!PagesAreTheTable(input.batches, input.limit)
    /\ Derives("list") =>
         /\ \A kinds \in {Pub!Tables, {"image"}}, limit \in 1..2 :
              Pub!ListingIsComplete(input.store, kinds, limit)
         /\ ~ input.damaged =>
              \A mode \in {"public", "private"} : Pub!ComparisonIsExportable(input.store, mode)

\* The split of data/manifests.py is exact and disjoint from the index of the dataset to the
\* frames a reader gets, the audit of data/audit.py forgets nothing by streaming, a frame
\* data/openlane.py adapts is, seen from the source, the one the official devkit reads, and the
\* topology of a frame's annotations comes out of a model that learned it as it went in, in the
\* graph of the runtime and in the tables of the evaluator (model/e1_data.py to
\* evaluator/payload.py).  The statistics of visual_audit.py are of one population, and the
\* review passes only for the data that was seen.
DatasetIsFaithful ==
    /\ Derives("apportion") => Splits!ApportionmentIsExact(input.counts, input.allocation, output)
    /\ Derives("manifest") => Splits!AuditIsExact(input, Allocation(1, 1, 0, 1))
    /\ Derives("pipeline") =>
         Splits!PipelineIsSound(output.frames, output.written, output.manifest, input.allocation)
    /\ Derives("stream") => Splits!StreamingLosesNothing(input, 2)
    /\ Derives("adapt") =>
         Data!Adapter!ParityHolds(Data!FrameKey, input, output[1]) /\ Data!Adapter!ViewsAgree(input, output[1])
    /\ Derives("learn") =>
         Data!Topology!LearnedIsTruth(Data!Key, Data!Sensor, input.frame, input.lane, input.control,
                                      input.area, input.geometry, input.noise)
    /\ Derives("rules") => Data!Topology!RulesAreFitted(input, Data!Grid)
    /\ Derives("statistics") =>
         Custody!Qualification!StatisticsAgree(input, Custody!Good, output[1])
    /\ Derives("review") =>
         Custody!Qualification!ReviewIsOfThisData(input.host, input.receipt, input.seen, input.passed)
=============================================================================
