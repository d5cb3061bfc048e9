------------------------------ MODULE GraphContract ------------------------------
(***************************************************************************)
(* The V1 graph contract as its two implementations enforce it: the Python *)
(* validator (python/junctionlens/contract) and the native one             *)
(* (cpp/contract), and the graph the native runtime derives from the       *)
(* outputs of the model (cpp/src/infer/runtime.cpp).                       *)
(*                                                                         *)
(* An envelope is a record.  Numbers the validators only test against a    *)
(* range (a probability, a scale, a distribution, a digest) are abstracted *)
(* to whether they pass (sound); identities, references, counts, slots,    *)
(* poses and boxes are kept.  A hash is an injective tuple.                *)
(***************************************************************************)
EXTENDS Integers, SequencesExt, FiniteSetsExt, Orders

CONSTANTS
    PythonLimit,    \* contract/limits.py: collection -> its largest count
    NativeLimit,    \* ValidateGraphCounts: the same, of the native runtime
    Slots,          \* the canonical camera slots are 1..Slots
    Unit,           \* the value 1.0 of a normalized coordinate
    Likely,         \* node_threshold and edge_threshold, as a rank
    None

Lane == 1
Control == 2
Area == 3

\* predicted_node_id and PredictedNodeId: the type in the high bits, the zero-based
\* ordinal plus one in the low.  The identity 0 is None.
NodeId(type, ordinal) == <<type, ordinal + 1>>

\* predicted_node_type.
EncodedType(id) == id[1]

\* edge_id: a hash of the frame, the type and the two ends.
EdgeId(key, type, source, target) == <<key.name, type, source, target>>

\* The nodes of a graph with the type of the collection each is in.
TypedNodes(g) ==
    [k \in DOMAIN g.lanes |-> <<g.lanes[k], Lane>>]
    \o [k \in DOMAIN g.controls |-> <<g.controls[k], Control>>]
    \o [k \in DOMAIN g.areas |-> <<g.areas[k], Area>>]

TypeOf(g, id) ==
    LET nodes == TypedNodes(g)
        at == {k \in DOMAIN nodes : nodes[k][1].id = id}
    IN  IF at = {} THEN None ELSE nodes[Max(at)][2]

Injective(f) == \A i, j \in DOMAIN f : f[i] = f[j] => i = j

Counts(g) ==
    [cameras |-> IF g.sensor = None THEN 0 ELSE Len(g.sensor.cameras),
     lanes |-> Len(g.lanes), controls |-> Len(g.controls), areas |-> Len(g.areas),
     edges |-> Len(g.edges), tracks |-> Len(g.tracks), artifacts |-> g.artifacts]

-----------------------------------------------------------------------------
(***************************************************************************)
(* Python.                                                                 *)
(***************************************************************************)

\* _rigid_transform: orthonormal, and not a reflection.
Rigid(pose) == pose = "rotation"

\* _sensor_frame.
SensorOk(g) ==
    \/ g.sensor = None
    \/ /\ g.sensor.key = g.key
       /\ [k \in DOMAIN g.sensor.cameras |-> g.sensor.cameras[k].slot] = [k \in 1..Slots |-> k]
       /\ Rigid(g.sensor.world)
       /\ \A k \in DOMAIN g.sensor.cameras :
            LET c == g.sensor.cameras[k]
            IN  Rigid(c.pose) /\ c.affine /\ (c.valid => c.image)

\* _normalized_box: half open, with an area.
BoxOk(b) == 0 <= b.x0 /\ b.x0 < b.x1 /\ b.x1 <= Unit /\ 0 <= b.y0 /\ b.y0 < b.y1 /\ b.y1 <= Unit

\* _validate_nodes.
NodesOk(g) ==
    LET nodes == TypedNodes(g)
    IN  /\ \A c \in {"lanes", "controls", "areas"} : Counts(g)[c] <= PythonLimit[c]
        /\ \A k \in DOMAIN nodes : nodes[k][1].id # None /\ nodes[k][1].sound
        /\ Injective([k \in DOMAIN nodes |-> nodes[k][1].id])
        /\ g.role = "prediction" =>
             \A k \in DOMAIN nodes : EncodedType(nodes[k][1].id) = nodes[k][2]
        /\ \A k \in DOMAIN g.controls : g.controls[k].camera \in 1..Slots /\ BoxOk(g.controls[k].box)

EdgeEnds == [successor |-> <<Lane, Lane>>, applies |-> <<Control, Lane>>]

\* _validate_edges: the identity of an edge is the one its ends determine.
EdgesOk(g) ==
    /\ Len(g.edges) <= PythonLimit.edges
    /\ Injective([k \in DOMAIN g.edges |-> g.edges[k].id])
    /\ \A k \in DOMAIN g.edges :
         LET e == g.edges[k]
         IN  /\ e.type \in DOMAIN EdgeEnds
             /\ <<TypeOf(g, e.source), TypeOf(g, e.target)>> = EdgeEnds[e.type]
             /\ e.id = EdgeId(g.key, e.type, e.source, e.target)
             /\ e.sound

\* _validate_tracks: tracks name nodes, and the nodes that name a track are the ones
\* it names.
TracksOk(g) ==
    LET tracks == g.tracks
        nodes == TypedNodes(g)
    IN  /\ Len(tracks) <= PythonLimit.tracks
        /\ Injective([k \in DOMAIN tracks |-> tracks[k].id])
        /\ \A k \in DOMAIN tracks :
             /\ tracks[k].id # 0
             /\ TypeOf(g, tracks[k].node) = tracks[k].type /\ tracks[k].type # None
             /\ tracks[k].first <= tracks[k].last /\ tracks[k].age > 0
        /\ \A k \in DOMAIN nodes : nodes[k][1].track # None =>
             \E j \in DOMAIN tracks :
                 tracks[j].id = nodes[k][1].track /\ tracks[j].node = nodes[k][1].id

\* validate_envelope.
PythonAccepts(g) ==
    /\ g.finite /\ g.schema = 1 /\ g.producer /\ g.role # "unspecified"
    /\ g.key.sound /\ g.artifacts <= PythonLimit.artifacts
    /\ SensorOk(g) /\ NodesOk(g) /\ EdgesOk(g) /\ TracksOk(g)

-----------------------------------------------------------------------------
(***************************************************************************)
(* The native runtime.                                                     *)
(***************************************************************************)

\* ValidateTransform: orthonormal, a reflection included.
NativeRigid(pose) == pose \in {"rotation", "reflection"}

\* ValidateNodes.
NativeNodesOk(g) ==
    LET nodes == TypedNodes(g)
    IN  /\ \A k \in DOMAIN nodes : nodes[k][1].id # None
        /\ Injective([k \in DOMAIN nodes |-> nodes[k][1].id])
        /\ g.role = "prediction" =>
             \A k \in DOMAIN nodes : EncodedType(nodes[k][1].id) = nodes[k][2]
        /\ \A k \in DOMAIN g.controls : BoxOk(g.controls[k].box)

\* ValidateEdges: unique identities and typed ends.
NativeEdgesOk(g) ==
    /\ Injective([k \in DOMAIN g.edges |-> g.edges[k].id])
    /\ \A k \in DOMAIN g.edges :
         LET e == g.edges[k]
         IN  /\ e.id # None
             /\ \/ /\ e.type = "successor"
                   /\ TypeOf(g, e.source) = Lane /\ TypeOf(g, e.target) = Lane
                \/ /\ e.type = "applies"
                   /\ TypeOf(g, e.source) = Control /\ TypeOf(g, e.target) = Lane

\* ValidateGraphCounts.
WithinNativeLimits(g) == \A c \in DOMAIN Counts(g) : Counts(g)[c] <= NativeLimit[c]

\* Validate.
NativeAccepts(g) ==
    /\ g.finite /\ g.schema = 1 /\ WithinNativeLimits(g) /\ g.role # "unspecified"
    /\ g.sensor # None =>
         /\ NativeRigid(g.sensor.world)
         /\ \A k \in DOMAIN g.sensor.cameras : NativeRigid(g.sensor.cameras[k].pose)
    /\ NativeNodesOk(g) /\ NativeEdgesOk(g)

-----------------------------------------------------------------------------
(***************************************************************************)
(* Postprocess: the graph of one frame from the outputs of the model, for  *)
(* each decoder query the rank of its existence, its geometry key and, for *)
(* a control, the corners of its box; for each pair of queries the rank of *)
(* the edge between them.                                                  *)
(***************************************************************************)

\* The queries of a type that exist, and the order of SortNodes: the most likely first,
\* those that tie by their geometry and then as they are.
Existing(queries) == {q \in DOMAIN queries : queries[q].rank >= Likely}

NodeOrder(queries) ==
    {e \in Existing(queries) \X Existing(queries) :
        LET p == queries[e[1]]
            q == queries[e[2]]
        IN  \/ p.rank > q.rank
            \/ p.rank = q.rank /\ (p.key < q.key \/ (p.key = q.key /\ e[1] < e[2]))}

Decoded(queries) == InOrder(Existing(queries), NodeOrder(queries))

\* OrderedBox: corners in order, clamped to the image, and never without an area.
OrderedBox(a) ==
    LET clamp(x) == Min({Unit, Max({0, x})})
        widen(lo, hi) == IF lo = hi THEN <<Max({0, lo - 1}), Min({Unit, hi + 1})>> ELSE <<lo, hi>>
        xs == widen(clamp(Min({a[1], a[3]})), clamp(Max({a[1], a[3]})))
        ys == widen(clamp(Min({a[2], a[4]})), clamp(Max({a[2], a[4]})))
    IN  [x0 |-> xs[1], x1 |-> xs[2], y0 |-> ys[1], y1 |-> ys[2]]

\* maps.lane and maps.traffic: the node of a query, or None.
DecodedId(type, order, q) ==
    IF q \in ToSet(order) THEN NodeId(type, (CHOOSE k \in DOMAIN order : order[k] = q) - 1) ELSE None

\* Seeded bug: a query exists from the threshold on, and an edge above it.
LikelyPairsAbove(ranks, from, to) ==
    {<<from[p[1]], to[p[2]]>> : p \in {q \in DOMAIN ranks : /\ from[q[1]] # None /\ to[q[2]] # None
                                                          /\ ranks[q] > Likely}}

\* AddEdges: the pairs of nodes an edge is likely between, in the order of their ends.
LikelyPairs(ranks, from, to) ==
    {<<from[p[1]], to[p[2]]>> : p \in {q \in DOMAIN ranks : /\ from[q[1]] # None /\ to[q[2]] # None
                                                          /\ ranks[q] >= Likely}}

EndOrder(pairs) ==
    {e \in pairs \X pairs : LET f == e[1]
                               h == e[2]
                           IN  f[1][2] < h[1][2] \/ (f[1] = h[1] /\ f[2][2] < h[2][2])}

DecodedEdges(key, type, ranks, from, to) ==
    LET pairs == LikelyPairs(ranks, from, to)
        order == InOrder(pairs, EndOrder(pairs))
        edge(e) == [id |-> EdgeId(key, type, e[1], e[2]), type |-> type, source |-> e[1],
                    target |-> e[2], sound |-> TRUE]
    IN  [k \in DOMAIN order |-> edge(order[k])]

\* The sensor frame Preprocess passed on: the transform of a valid camera is written anew.
PassedOn(sensor) ==
    LET camera(c) == [slot |-> c.slot, pose |-> c.pose, affine |-> c.affine \/ c.valid,
                      valid |-> c.valid, image |-> c.image]
    IN  [key |-> sensor.key, world |-> sensor.world,
         cameras |-> [k \in DOMAIN sensor.cameras |-> camera(sensor.cameras[k])]]

\* AddNodes and AddEdges.
Postprocess(input, out) ==
    LET lanes == Decoded(out.lanes)
        controls == Decoded(out.controls)
        areas == Decoded(out.areas)
        lane == [q \in DOMAIN out.lanes |-> DecodedId(Lane, lanes, q)]
        control == [q \in DOMAIN out.controls |-> DecodedId(Control, controls, q)]
        node(type, k, query) == [id |-> NodeId(type, k - 1), sound |-> query.sound, track |-> None]
    IN  [schema |-> 1, finite |-> TRUE, producer |-> TRUE, role |-> "prediction", key |-> input.key,
         sensor |-> PassedOn(input.sensor),
         lanes |-> [k \in DOMAIN lanes |-> node(Lane, k, out.lanes[lanes[k]])],
         controls |-> [k \in DOMAIN controls |->
             LET query == out.controls[controls[k]]
             IN  [id |-> NodeId(Control, k - 1), sound |-> query.sound, track |-> None, camera |-> 1,
                  box |-> OrderedBox(query.corners)]],
         areas |-> [k \in DOMAIN areas |-> node(Area, k, out.areas[areas[k]])],
         edges |-> DecodedEdges(input.key, "successor", out.successor, lane, lane)
                   \o DecodedEdges(input.key, "applies", out.applies, control, lane),
         tracks |-> <<>>, artifacts |-> 0]

-----------------------------------------------------------------------------
(***************************************************************************)
(* What the two sides promise each other.                                  *)
(***************************************************************************)

\* What Python accepts the native runtime reads, as long as it is within its limits.
NativeReadsPython(g) == PythonAccepts(g) /\ WithinNativeLimits(g) => NativeAccepts(g)

\* The graph the runtime derives for a frame Python accepts is one both accept, unless
\* it is too large or the model's own numbers are out of range: a node per query above
\* the threshold, most likely first, and the likely edges between those.
GraphIsReadable(input, out) ==
    LET g == Postprocess(input, out)
        sound == \A t \in {"lanes", "controls", "areas"} : \A q \in Existing(out[t]) : out[t][q].sound
        likely(ranks, from, to) ==
            {p \in DOMAIN ranks : p[1] \in Existing(from) /\ p[2] \in Existing(to) /\ ranks[p] >= Likely}
    IN  /\ NativeAccepts(g) <=> WithinNativeLimits(g)
        /\ sound => PythonAccepts(g)
        /\ Len(g.lanes) = Cardinality(Existing(out.lanes))
        /\ Len(g.edges) = Cardinality(likely(out.successor, out.lanes, out.lanes))
                          + Cardinality(likely(out.applies, out.controls, out.lanes))
=============================================================================
