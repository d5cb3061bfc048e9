------------------------------ MODULE VisualAudit ------------------------------
(***************************************************************************)
(* The private audit of the licensed data                                  *)
(* (python/junctionlens/data/visual_audit.py): statistics of all frames, a *)
(* bundle of pictures of some frozen frames, and the signoff of a human    *)
(* who has looked at them.                                                 *)
(*                                                                         *)
(* A frame is a record of its key, domain, lanes, controls, areas, the two *)
(* topology matrices, which cameras are valid, and its luminance.  Lengths *)
(* are integers, a digest is the value it is taken of, and a picture is    *)
(* what it is drawn from.                                                  *)
(***************************************************************************)
EXTENDS Integers, Sequences, FiniteSetsExt, SequencesExt, Functions

CONSTANTS None, PolicyId, AttributeGroup   \* _TRAFFIC_ATTRIBUTE_GROUPS: attribute -> group

Increasing(pair) == pair[1] < pair[2]

\* load_audit_policy: of V1, with the slice registry it names, every frozen frame once.
PolicyOk(policy, registry) ==
    /\ policy.id = PolicyId
    /\ policy.registry = registry
    /\ Len(policy.frozen) \in 1..32 /\ IsInjective(policy.frozen)
    /\ Increasing(policy.curvature) /\ Increasing(policy.area)
    /\ policy.lanes[1] > 0 /\ Increasing(policy.lanes)
    /\ \A axis \in 1..3 : Increasing(policy.hard[axis])
    /\ \A axis \in 1..2 : Increasing(policy.bev[axis])
    /\ policy.far > 0

Bucket(value, bounds) ==
    IF value < bounds[1] THEN "low" ELSE IF value < bounds[2] THEN "medium" ELSE "high"

Present(condition) == IF condition THEN "present" ELSE "absent"

\* The numbers of edges out of a lane and into it.
OutDegree(frame, lane) == Cardinality({t \in DOMAIN frame.lanes : frame.successor[lane][t] = 1})
InDegree(frame, lane) == Cardinality({s \in DOMAIN frame.lanes : frame.successor[s][lane] = 1})

\* slice_values: the value of a frame in every slice of the registry.
SliceValues(frame, policy) ==
    LET lanes == DOMAIN frame.lanes
        merge == \E k \in lanes : InDegree(frame, k) >= 2
        split == \E k \in lanes : OutDegree(frame, k) >= 2
        degree == Max({0} \union {OutDegree(frame, k) : k \in lanes} \union {InDegree(frame, k) : k \in lanes})
        areas == {frame.controls[k].area : k \in DOMAIN frame.controls}
    IN  [domain |-> frame.domain,
         connector |-> Present(\E k \in lanes : frame.lanes[k].connector),
         topology |-> <<merge, split>>,
         degree |-> CASE degree <= 1 -> 1 [] degree = 2 -> 2 [] OTHER -> 3,
         curvature |-> Bucket(Max({0} \union {frame.lanes[k].curvature : k \in lanes}), policy.curvature),
         area |-> IF areas = {} THEN "none" ELSE Bucket(Max(areas), policy.area),
         far |-> Present(\E k \in lanes : \E p \in ToSet(frame.lanes[k].points) : p[1] >= policy.far),
         crosswalk |-> Present(\E k \in DOMAIN frame.areas : frame.areas[k].category = 1),
         attributes |-> {AttributeGroup[frame.controls[k].attribute] : k \in DOMAIN frame.controls},
         luminance |-> IF ~frame.cameras[1] THEN "unavailable"
                       ELSE IF frame.luminance < policy.dark THEN "low" ELSE "not-low",
         cameras |-> frame.cameras,
         count |-> Bucket(Len(frame.lanes), policy.lanes)]

Slices == {"domain", "connector", "topology", "degree", "curvature", "area", "far", "crosswalk",
           "attributes", "luminance", "cameras", "count"}

\* All points of a frame, of its lanes and of its areas, one after the other.
FramePoints(frame) ==
    FlattenSeq([k \in DOMAIN frame.lanes |-> frame.lanes[k].points])
    \o FlattenSeq([k \in DOMAIN frame.areas |-> frame.areas[k].points])

Within(point, range, axes) == \A k \in axes : point[k] >= range[k][1] /\ point[k] <= range[k][2]

\* The half-open range of the bird's-eye view.
InView(point, range) == \A k \in 1..2 : point[k] >= range[k][1] /\ point[k] < range[k][2]

\* What one frame adds to the counts of the topology.
Support(frame) ==
    LET lanes == DOMAIN frame.lanes
        controls == DOMAIN frame.controls
    IN  [possible |-> Len(frame.lanes) * (IF lanes = {} THEN 0 ELSE Len(frame.lanes) - 1),
         positive |-> MapThenSumSet(LAMBDA i : OutDegree(frame, i), lanes),
         self |-> Cardinality({i \in lanes : frame.successor[i][i] = 1}),
         controlPossible |-> Len(frame.lanes) * Len(frame.controls),
         controlPositive |-> Cardinality({e \in lanes \X controls : frame.control[e[1]][e[2]] = 1})]

\* audit_dataset: one pass over the frames; nothing of a dataset without frames or geometry.
RangeStatistics(points, policy) ==
    LET axis(k) == {p[k] : p \in ToSet(points)}
        outside == SelectSeq(points, LAMBDA p : ~Within(p, policy.hard, 1..3))
    IN  [ranges |-> [k \in 1..3 |-> <<Min(axis(k)), Max(axis(k))>>],
         points |-> Len(points), outside |-> Len(outside),
         inView |-> Len(SelectSeq(points, LAMBDA p : InView(p, policy.bev))),
         accepted |-> outside = <<>>]

SliceStatistics(frames, values) ==
    LET having(slice, value) == {k \in DOMAIN frames : values[k][slice] = value}
    IN  [slice \in Slices |->
           [value \in {values[k][slice] : k \in DOMAIN frames} |->
              [frames |-> Cardinality(having(slice, value)),
               segments |-> Cardinality({frames[k].segment : k \in having(slice, value)})]]]

Exceeding(frames, capacity) ==
    LET size(k) == [lanes |-> Len(frames[k].lanes), controls |-> Len(frames[k].controls),
                    areas |-> Len(frames[k].areas)]
    IN  [type \in DOMAIN capacity |-> Cardinality({k \in DOMAIN frames : size(k)[type] > capacity[type]})]

Statistics(frames, points, values, support, policy, capacity) ==
    IF frames = <<>> \/ points = <<>> THEN None
    ELSE [count |-> Len(frames), exceeding |-> Exceeding(frames, capacity),
          slices |-> SliceStatistics(frames, values),
          support |-> [name \in {"possible", "positive", "self", "controlPossible", "controlPositive"} |->
                         MapThenSumSet(LAMBDA k : support[k][name], DOMAIN frames)]]
         @@ RangeStatistics(points, policy)

AuditDataset(frames, policy, capacity) ==
    Statistics(frames, FlattenSeq([k \in DOMAIN frames |-> FramePoints(frames[k])]),
               [k \in DOMAIN frames |-> SliceValues(frames[k], policy)],
               [k \in DOMAIN frames |-> Support(frames[k])], policy, capacity)

-----------------------------------------------------------------------------
(* The bundle: a function of the paths of its files, of which a picture's is its frame and 0, for
   the bird's-eye view, or its camera. *)

Summary == <<0, 0, 0>>
Index == <<0, 0, 1>>

\* render_bev_svg: the geometry, every positive edge between lanes, and how many controls a
\* lane has.
Drawn(frame) ==
    [lanes |-> [k \in DOMAIN frame.lanes |-> frame.lanes[k].points],
     areas |-> [k \in DOMAIN frame.areas |-> frame.areas[k].points],
     successor |-> frame.successor,
     control |-> [k \in DOMAIN frame.lanes |-> Cardinality({c \in DOMAIN frame.controls : frame.control[k][c] = 1})]]

\* render_camera_overlay: the geometry over the image, and the boxes of the front camera.
Overlay(frame, camera) ==
    [camera |-> camera, image |-> frame.luminance,
     lanes |-> [k \in DOMAIN frame.lanes |-> frame.lanes[k].points],
     areas |-> [k \in DOMAIN frame.areas |-> frame.areas[k].points],
     controls |-> [k \in DOMAIN frame.controls |-> IF camera = 1 THEN frame.controls[k].area ELSE None]]

Pictures(frame) ==
    (<<frame.segment, frame.time, 0>> :> Drawn(frame))
    @@ [p \in {<<frame.segment, frame.time, k>> : k \in {c \in DOMAIN frame.cameras : frame.cameras[c]}} |->
          Overlay(frame, p[3])]

Manifest(policy, profile, files) ==
    [policy |-> policy.id, config |-> policy, profile |-> profile, frozen |-> policy.frozen,
     files |-> files, state |-> "PENDING_HUMAN_INSPECTION"]

\* write_audit_bundle: statistics, the pictures of every frozen frame and an index of them,
\* installed with a manifest in one rename; nothing when a frozen frame cannot be loaded.
Bundle(policy, profile, summary, files) ==
    IF summary = None THEN None
    ELSE [files |-> files, manifest |-> Manifest(policy, profile, files), accepted |-> summary.accepted]

AuditFiles(summary, pictures) == pictures @@ (Summary :> summary) @@ (Index :> DOMAIN pictures)

BundleOf(policy, profile, summary, drawn) ==
    Bundle(policy, profile, summary,
           AuditFiles(summary, FoldSet(LAMBDA frame, files : Pictures(frame) @@ files, <<>>, drawn)))

WriteAuditBundle(frames, policy, profile, capacity) ==
    LET key(k) == <<frames[k].segment, frames[k].time>>
        frozen == {k \in DOMAIN frames : key(k) \in ToSet(policy.frozen)}
    IN  IF ToSet(policy.frozen) \subseteq {key(k) : k \in DOMAIN frames}
        THEN BundleOf(policy, profile, AuditDataset(frames, policy, capacity), {frames[k] : k \in frozen})
        ELSE None

\* write_visual_audit_signoff: of a bundle of the full profile whose files are the declared ones.
Signoff(bundle, confirmed) ==
    IF ~confirmed \/ bundle = None THEN None
    ELSE IF \/ bundle.manifest.profile # "full" \/ bundle.manifest.state # "PENDING_HUMAN_INSPECTION"
            \/ bundle.manifest.files = <<>>
            \/ DOMAIN bundle.files # DOMAIN bundle.manifest.files
            \/ \E p \in DOMAIN bundle.files : bundle.files[p] # bundle.manifest.files[p] THEN None
    ELSE [policy |-> bundle.manifest.policy, bundle |-> bundle.manifest,
          reviewed |-> Cardinality(DOMAIN bundle.files)]

-----------------------------------------------------------------------------
(* What the audit promises. *)

\* The counts of the statistics (visual_audit.py:679-735) are those of one population: a frame and
\* a segment are counted once for their value in every slice, no more edges are positive than are
\* possible, a lane has two edges of a kind exactly where a merge or a split is seen, and the range
\* gate, the ranges and the number of points outside agree.
StatisticsAgree(frames, policy, audit) ==
    LET segments == {frames[k].segment : k \in DOMAIN frames}
        counts(slice) == audit.slices[slice]
    IN  audit # None =>
          /\ \A slice \in Slices :
               /\ MapThenSumSet(LAMBDA v : counts(slice)[v].frames, DOMAIN counts(slice)) = audit.count
               /\ MapThenSumSet(LAMBDA v : counts(slice)[v].segments, DOMAIN counts(slice))
                    \in Cardinality(segments)..audit.count
               /\ \A v \in DOMAIN counts(slice) : counts(slice)[v].segments <= Cardinality(segments)
          /\ audit.support.positive <= audit.support.possible + audit.support.self
          /\ audit.support.controlPositive <= audit.support.controlPossible
          /\ (DOMAIN counts("degree") = {1}) <=> (DOMAIN counts("topology") = {<<FALSE, FALSE>>})
          /\ audit.accepted <=> \A k \in 1..3 : /\ audit.ranges[k][1] >= policy.hard[k][1]
                                                /\ audit.ranges[k][2] <= policy.hard[k][2]
=============================================================================
