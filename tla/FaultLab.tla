-------------------------------- MODULE FaultLab --------------------------------
(***************************************************************************)
(* The fault laboratory (python/junctionlens/faults): a transform per kind *)
(* of fault, applied to a clean bundle of predictions, and the analysis    *)
(* that must find it by comparing the two bundles.                         *)
(*                                                                         *)
(* A bundle is its frames in order, its runtime fixture and the faults     *)
(* applied to it.  Geometry, scales and probabilities are small integers:  *)
(* a probability is its logit, 0 for one half.  A track of a node is None, *)
(* 0 or the identity of a track.                                           *)
(***************************************************************************)
EXTENDS Integers, SequencesExt, FiniteSetsExt

CONSTANTS
    Saturated,      \* the logit from which a sharpened probability is 1.0
    Gain,           \* _temperature_probability: 1 / temperature
    Inflated,       \* the scale inflate-uncertainty sets
    DelayBudget,    \* the 100 ms of verify_clean_bundle and analyze_fault
    Delay,          \* the 120 ms delay-postprocess adds
    GrowthBudget,   \* the 1 MiB of the same
    Buffer,         \* the bytes leak-buffer keeps per frame
    NaN, None

Kinds == {"swap-control-edges", "drop-control-edges", "drop-successor-chain",
          "add-spurious-successors", "permute-nodes-correctly", "permute-nodes-without-edges",
          "duplicate-node-id", "dangling-edge", "jitter-lanes", "flip-boundaries",
          "corrupt-extrinsic", "zero-uncertainty", "inflate-uncertainty", "temperature-collapse",
          "inject-nan", "alternate-edge-confidence", "alternate-node-presence", "reuse-track-id",
          "force-provider-fallback", "delay-postprocess", "leak-buffer"}

\* The kinds the contract itself must reject, and with which reason.
ContractReason == [k \in {"duplicate-node-id", "dangling-edge", "zero-uncertainty", "inject-nan"} |->
    CASE k = "duplicate-node-id" -> "node-duplicate" [] k = "dangling-edge" -> "edge-dangling"
      [] k = "zero-uncertainty" -> "scale" [] k = "inject-nan" -> "nonfinite"]

EdgeId(g, type, source, target) == <<g.segment, g.time, type, source, target>>

Nodes(g) == g.lanes \o g.controls \o g.areas

NodeIds(g) == {Nodes(g)[k].id : k \in DOMAIN Nodes(g)}

Distinct(s) == \A i, j \in DOMAIN s : s[i] = s[j] => i = j

\* The frames of a bundle that satisfy a test.
Where(b, Test(_)) == {f \in DOMAIN b.frames : Test(b.frames[f])}

\* validate_envelope, in the order of its tests: the reason of its first rejection.
Violation(g) ==
    LET lanes == {g.lanes[k] : k \in DOMAIN g.lanes}
        nodes == {Nodes(g)[k] : k \in DOMAIN Nodes(g)}
        laneIds == {l.id : l \in lanes}
        tracks == {g.tracks[k] : k \in DOMAIN g.tracks}
        edges == {g.edges[k] : k \in DOMAIN g.edges}
        scales == UNION {ToSet(n.scales) : n \in lanes \union ToSet(g.areas)}
        checks ==
            <<<<\A l \in lanes : l.center # NaN, "nonfinite">>,
              <<Distinct([k \in DOMAIN Nodes(g) |-> Nodes(g)[k].id]), "node-duplicate">>,
              <<\A s \in scales : s > 0, "scale">>,
              <<Distinct([k \in DOMAIN g.edges |-> g.edges[k].id]), "edge-duplicate">>,
              <<\A e \in edges : {e.source, e.target} \subseteq NodeIds(g), "edge-dangling">>,
              <<\A e \in edges :
                    /\ e.target \in laneIds
                    /\ e.source \in IF e.type = "successor" THEN laneIds
                                    ELSE {g.controls[k].id : k \in DOMAIN g.controls}, "edge-types">>,
              <<\A e \in edges : e.id = EdgeId(g, e.type, e.source, e.target), "edge-id">>,
              <<Distinct([k \in DOMAIN g.tracks |-> g.tracks[k].id]), "track-duplicate">>,
              <<\A t \in tracks : t.node \in NodeIds(g), "track-dangling">>,
              <<\A n \in nodes : n.track # None =>
                    \E t \in tracks : t.id = n.track /\ t.node = n.id, "track-reference">>>>
        failed == SelectInSeq(checks, LAMBDA c : ~c[1])
    IN  IF failed = 0 THEN None ELSE checks[failed][2]

FirstOf(reasons) ==
    LET bad == {f \in DOMAIN reasons : reasons[f] # None}
    IN  IF bad = {} THEN None ELSE reasons[Min(bad)]

FirstViolation(b) == FirstOf([f \in DOMAIN b.frames |-> Violation(b.frames[f])])

\* verify_clean_bundle; its p95 is the largest sample here.
Clean(b) ==
    /\ FirstViolation(b) = None /\ b.history = None /\ b.runtime.cpu = 0
    /\ Max(ToSet(b.runtime.latency)) <= DelayBudget
    /\ Max(ToSet(b.runtime.memory)) - Min(ToSet(b.runtime.memory)) <= GrowthBudget

-----------------------------------------------------------------------------
(***************************************************************************)
(* The transforms: the bundle with the fault in it, or None when it has *)
(* nothing the fault could be put in.                                      *)
(***************************************************************************)

\* Puts a fault into the first frame that satisfies Test.
InFirst(b, Test(_), Change(_)) ==
    LET at == Where(b, Test)
    IN  IF at = {} THEN None
        ELSE [b EXCEPT !.frames[Min(at)] = Change(@)]

EverywhereIf(b, possible, Change(_)) ==
    IF possible THEN [b EXCEPT !.frames = [f \in DOMAIN @ |-> Change(@[f])]] ELSE None

Retarget(g, k, target) ==
    [g.edges[k] EXCEPT !.target = target, !.id = EdgeId(g, g.edges[k].type, g.edges[k].source, target)]

\* The pairs of control edges with no end in common.
SwapPairs(g) ==
    {<<i, j>> \in (DOMAIN g.edges) \X (DOMAIN g.edges) :
        /\ i < j /\ g.edges[i].type = "applies" /\ g.edges[j].type = "applies"
        /\ g.edges[i].source # g.edges[j].source /\ g.edges[i].target # g.edges[j].target}

FirstPair(pairs) ==
    CHOOSE p \in pairs : \A q \in pairs : p[1] < q[1] \/ (p[1] = q[1] /\ p[2] <= q[2])

SwapControlEdges(b) ==
    InFirst(b, LAMBDA g : SwapPairs(g) # {},
            LAMBDA g : LET p == FirstPair(SwapPairs(g))
                       IN  [g EXCEPT !.edges[p[1]] = Retarget(g, p[1], g.edges[p[2]].target),
                                     !.edges[p[2]] = Retarget(g, p[2], g.edges[p[1]].target)])

Applies(g) == SelectSeq(g.edges, LAMBDA e : e.type = "applies")

\* _drop_control_edges for fraction one half: at least one edge, rounded up, the first ones
\* over the frames.
DropControlEdges(b) ==
    LET all == FlattenSeq([f \in DOMAIN b.frames |-> Applies(b.frames[f])])
        dropped == {all[k].id : k \in 1..((Len(all) + 1) \div 2)}
    IN  EverywhereIf(b, all # <<>>, LAMBDA g :
            [g EXCEPT !.edges = SelectSeq(@, LAMBDA e : e.id \notin dropped)])

Successors(g) == {<<e.source, e.target>> : e \in {x \in ToSet(g.edges) : x.type = "successor"}}

\* The first path over four lanes that _find_successor_path's depth-first search finds:
\* the least one, lane by lane.
Paths(g) ==
    LET S == Successors(g)
        lanes == {p[1] : p \in S} \union {p[2] : p \in S}
    IN  {p \in [1..4 -> lanes] : /\ \A k \in 1..3 : <<p[k], p[k + 1]>> \in S
                                 /\ Distinct(p)}

FirstPath(paths) ==
    CHOOSE p \in paths : \A q \in paths :
        p = q \/ \E k \in 1..4 : p[k] < q[k] /\ \A j \in 1..(k - 1) : p[j] = q[j]

DropSuccessorChain(b) ==
    InFirst(b, LAMBDA g : Paths(g) # {},
            LAMBDA g : LET p == FirstPath(Paths(g))
                       IN  [g EXCEPT !.edges = SelectSeq(@, LAMBDA e :
                                ~(e.type = "successor" /\ e.source = p[2] /\ e.target = p[3]))])

\* The pairs of lanes without an edge, whatever its decision.
Unlinked(g) ==
    {<<i, j>> \in (DOMAIN g.lanes) \X (DOMAIN g.lanes) :
        g.lanes[i].id # g.lanes[j].id /\ <<g.lanes[i].id, g.lanes[j].id>> \notin Successors(g)}

Magnitude(x) == IF x < 0 THEN -x ELSE x

\* _add_spurious_successor: between the nearest of them, then by identity.
AddSpuriousSuccessor(b) ==
    LET rank(g, p) == <<Magnitude(g.lanes[p[1]].center - g.lanes[p[2]].center),
                        g.lanes[p[1]].id, g.lanes[p[2]].id>>
        first(g) == CHOOSE p \in Unlinked(g) : \A q \in Unlinked(g) :
                        p = q \/ \E k \in 1..3 : /\ rank(g, p)[k] < rank(g, q)[k]
                                                 /\ \A j \in 1..(k - 1) : rank(g, p)[j] = rank(g, q)[j]
        edge(g, s, t) == [id |-> EdgeId(g, "successor", s, t), type |-> "successor", source |-> s,
                          target |-> t, p |-> Saturated, decided |-> TRUE]
    IN  InFirst(b, LAMBDA g : Unlinked(g) # {},
                LAMBDA g : [g EXCEPT !.edges = Append(@, edge(g, g.lanes[first(g)[1]].id,
                                                              g.lanes[first(g)[2]].id))])

PermuteCorrectly(b) ==
    InFirst(b, LAMBDA g : Len(g.lanes) >= 2,
            LAMBDA g : [g EXCEPT !.lanes = Reverse(@), !.controls = Reverse(@), !.areas = Reverse(@),
                                 !.edges = Reverse(@), !.tracks = Reverse(@)])

\* _permute_without_edges: the first two lanes change places but for their identities.
\* Reading the unset track of a lane gives 0, and assigning it sets the field.
PermuteWithoutEdges(b) ==
    LET track(l) == IF l.track = None THEN 0 ELSE l.track
        as(l, identity) == [l EXCEPT !.id = identity.id, !.track = track(identity)]
    IN  InFirst(b, LAMBDA g : Len(g.lanes) >= 2,
                LAMBDA g : [g EXCEPT !.lanes[1] = as(g.lanes[2], g.lanes[1]),
                                     !.lanes[2] = as(g.lanes[1], g.lanes[2])])

\* The second node of the graph, over its three collections, takes the first one's identity.
DuplicateNodeId(b) ==
    LET first(g) == Nodes(g)[1].id
    IN  InFirst(b, LAMBDA g : Len(Nodes(g)) >= 2,
                LAMBDA g : IF Len(g.lanes) >= 2 THEN [g EXCEPT !.lanes[2].id = first(g)]
                           ELSE IF Len(g.lanes) + Len(g.controls) >= 2
                           THEN [g EXCEPT !.controls[2 - Len(g.lanes)].id = first(g)]
                           ELSE [g EXCEPT !.areas[2 - Len(g.lanes) - Len(g.controls)].id = first(g)])

DanglingEdge(b) ==
    InFirst(b, LAMBDA g : g.edges # <<>>,
            LAMBDA g : [g EXCEPT !.edges[1].target = Max(NodeIds(g)) + 1])

HasLanes(b) == Where(b, LAMBDA g : g.lanes # <<>>) # {}

JitterLanes(b) ==
    EverywhereIf(b, HasLanes(b),
        LAMBDA g : [g EXCEPT !.lanes = [k \in DOMAIN @ |-> [@[k] EXCEPT !.center = @ + 1]]])

FlipBoundaries(b) ==
    InFirst(b, LAMBDA g : g.lanes # <<>>,
            LAMBDA g : [g EXCEPT !.lanes[1].left = g.lanes[1].right, !.lanes[1].right = g.lanes[1].left])

\* The first valid camera of the first frame that has one.
CorruptExtrinsic(b) ==
    LET cameras(g) == IF g.sensor = None THEN <<>> ELSE g.sensor
        valid(g) == {k \in DOMAIN cameras(g) : cameras(g)[k].valid}
    IN  InFirst(b, LAMBDA g : valid(g) # {},
                LAMBDA g : [g EXCEPT !.sensor[Min(valid(g))].pose = @ + 1])

Scales(g) == FlattenSeq([k \in DOMAIN g.lanes |-> g.lanes[k].scales]
                        \o [k \in DOMAIN g.areas |-> g.areas[k].scales])

SetUncertainty(b, value) ==
    LET set(n) == [n EXCEPT !.scales = [k \in DOMAIN @ |-> value]]
    IN  EverywhereIf(b, \E f \in DOMAIN b.frames : Scales(b.frames[f]) # <<>>,
            LAMBDA g : [g EXCEPT !.lanes = [k \in DOMAIN @ |-> set(@[k])],
                                 !.areas = [k \in DOMAIN @ |-> set(@[k])]])

\* _temperature_probability: certain probabilities become equal.
Sharpened(p) == Max({-Saturated, Min({Saturated, Gain * p})})

CollapseTemperature(b) ==
    LET sharp(s) == [k \in DOMAIN s |-> [s[k] EXCEPT !.p = Sharpened(@)]]
    IN  EverywhereIf(b, \E f \in DOMAIN b.frames : Nodes(b.frames[f]) \o b.frames[f].edges # <<>>,
            LAMBDA g : [g EXCEPT !.lanes = sharp(@), !.controls = sharp(@), !.areas = sharp(@),
                                 !.edges = sharp(@)])

InjectNan(b) ==
    InFirst(b, LAMBDA g : g.lanes # <<>>, LAMBDA g : [g EXCEPT !.lanes[1].center = NaN])

\* The frames of a segment, by time.
Segment(b, s) ==
    SetToSortSeq(Where(b, LAMBDA g : g.segment = s), LAMBDA f, h : b.frames[f].time < b.frames[h].time)

Segments(b) == {b.frames[f].segment : f \in DOMAIN b.frames}

\* _temporal_group: the least segment of three frames.
Lasting(b) == {s \in Segments(b) : Len(Segment(b, s)) >= 3}

\* What every frame of a group has, by Of.
Common(b, group, Of(_)) ==
    {x \in Of(b.frames[group[1]]) : \A k \in DOMAIN group : x \in Of(b.frames[group[k]])}

\* Changes the frames of the temporal group, given their place in it.
InGroup(b, Possible(_), Change(_, _, _)) ==
    IF Lasting(b) = {} THEN None
    ELSE LET group == Segment(b, Min(Lasting(b)))
         IN  IF ~Possible(group) THEN None
             ELSE [b EXCEPT !.frames = [f \in DOMAIN @ |->
                     IF f \in ToSet(group)
                     THEN Change(@[f], group, CHOOSE k \in DOMAIN group : group[k] = f) ELSE @[f]]]

\* edge_type as its number.
TypeNumber(type) == IF type = "successor" THEN 1 ELSE 2

EdgeKeys(g) == {<<TypeNumber(e.type), e.source, e.target>> : e \in ToSet(g.edges)}

Least(keys) ==
    CHOOSE x \in keys : \A y \in keys :
        x = y \/ \E k \in 1..3 : x[k] < y[k] /\ \A j \in 1..(k - 1) : x[j] = y[j]

\* _alternate_edge_confidence: the index counts from zero.
AlternateEdgeConfidence(b) ==
    LET persistent(group) == Common(b, group, EdgeKeys)
        is(e, key) == <<TypeNumber(e.type), e.source, e.target>> = key
        alternate(g, key, on) ==
            [g EXCEPT !.edges = [k \in DOMAIN @ |->
                IF is(@[k], key) THEN [@[k] EXCEPT !.decided = on, !.p = IF on THEN 1 ELSE -1] ELSE @[k]]]
    IN  InGroup(b, LAMBDA group : persistent(group) # {},
                LAMBDA g, group, k : alternate(g, Least(persistent(group)), k % 2 = 1))

LaneIds(g) == {g.lanes[k].id : k \in DOMAIN g.lanes}

\* _remove_node: with its edges and its tracks.
RemoveNode(g, id) ==
    [g EXCEPT !.lanes = SelectSeq(@, LAMBDA l : l.id # id),
              !.edges = SelectSeq(@, LAMBDA e : id \notin {e.source, e.target}),
              !.tracks = SelectSeq(@, LAMBDA t : t.node # id)]

AlternateNodePresence(b) ==
    LET persistent(group) == Common(b, group, LaneIds)
    IN  InGroup(b, LAMBDA group : persistent(group) # {},
                LAMBDA g, group, k : IF k % 2 = 0 THEN RemoveNode(g, Min(persistent(group))) ELSE g)

TrackIds(g) == {g.tracks[k].id : k \in DOMAIN g.tracks}

ReuseTrackId(b) ==
    LET persistent(group) == Common(b, group, TrackIds)
        end(g, id, reason) ==
            [g EXCEPT !.tracks = [k \in DOMAIN @ |-> IF @[k].id = id THEN [@[k] EXCEPT !.reason = reason]
                                                     ELSE @[k]]]
    IN  InGroup(b, LAMBDA group : persistent(group) # {},
                LAMBDA g, group, k :
                    end(g, Min(persistent(group)), IF k = 1 THEN "misses" ELSE "active"))

\* _runtime_transform.
Leaked(memory) == [k \in DOMAIN memory |-> memory[1] + k * Buffer]

Transformed(b, kind) ==
    CASE kind = "swap-control-edges" -> SwapControlEdges(b)
      [] kind = "drop-control-edges" -> DropControlEdges(b)
      [] kind = "drop-successor-chain" -> DropSuccessorChain(b)
      [] kind = "add-spurious-successors" -> AddSpuriousSuccessor(b)
      [] kind = "permute-nodes-correctly" -> PermuteCorrectly(b)
      [] kind = "permute-nodes-without-edges" -> PermuteWithoutEdges(b)
      [] kind = "duplicate-node-id" -> DuplicateNodeId(b)
      [] kind = "dangling-edge" -> DanglingEdge(b)
      [] kind = "jitter-lanes" -> JitterLanes(b)
      [] kind = "flip-boundaries" -> FlipBoundaries(b)
      [] kind = "corrupt-extrinsic" -> CorruptExtrinsic(b)
      [] kind = "zero-uncertainty" -> SetUncertainty(b, 0)
      [] kind = "inflate-uncertainty" -> SetUncertainty(b, Inflated)
      [] kind = "temperature-collapse" -> CollapseTemperature(b)
      [] kind = "inject-nan" -> InjectNan(b)
      [] kind = "alternate-edge-confidence" -> AlternateEdgeConfidence(b)
      [] kind = "alternate-node-presence" -> AlternateNodePresence(b)
      [] kind = "reuse-track-id" -> ReuseTrackId(b)
      [] kind = "force-provider-fallback" -> [b EXCEPT !.runtime.cpu = 1]
      [] kind = "delay-postprocess" ->
            [b EXCEPT !.runtime.latency = [k \in DOMAIN @ |-> @[k] + Delay]]
      [] kind = "leak-buffer" -> [b EXCEPT !.runtime.memory = Leaked(@)]

\* apply_fault: what a transform makes is validated unless it is meant to be rejected.
Validated(child, kind) ==
    IF child = None THEN None
    ELSE IF kind \notin DOMAIN ContractReason /\ FirstViolation(child) # None THEN None
    ELSE [child EXCEPT !.history = kind]

ApplyFault(b, kind) == IF b.history # None THEN None ELSE Validated(Transformed(b, kind), kind)

-----------------------------------------------------------------------------
(***************************************************************************)
(* The analysis.                                                           *)
(***************************************************************************)

\* _edges: the decided edges of a type, over all frames.
Decided(b, type) ==
    UNION {{<<f, e.source, e.target>> : e \in {x \in ToSet(b.frames[f].edges) : x.type = type /\ x.decided}} :
           f \in DOMAIN b.frames}

\* _node_signature, over all frames.
NodeContents(b) == [f \in DOMAIN b.frames |-> ToSet(Nodes(b.frames[f]))]

SameMultiset(s, t) ==
    /\ Len(s) = Len(t)
    /\ \A x \in ToSet(s) \union ToSet(t) :
         Cardinality({k \in DOMAIN s : s[k] = x}) = Cardinality({k \in DOMAIN t : t[k] = x})

\* _normalized_graph_bytes: the graph with its collections in the order of their identities.
SameGraph(g, h) ==
    /\ g.sensor = h.sensor
    /\ \A c \in {"lanes", "controls", "areas", "edges", "tracks"} : SameMultiset(g[c], h[c])

AllScales(b) == FlattenSeq([f \in DOMAIN b.frames |-> Scales(b.frames[f])])

\* _probabilities: by what they are the probability of.
Probabilities(b) ==
    UNION {{[of |-> <<f, "node", n.id>>, p |-> n.p] : n \in ToSet(Nodes(b.frames[f]))}
           \union {[of |-> <<f, "edge", e.id>>, p |-> e.p] : e \in ToSet(b.frames[f].edges)} :
           f \in DOMAIN b.frames}

Extremity(P) == MapThenSumSet(LAMBDA x : Magnitude(x.p), P)

\* _strict_order_preserved.
OrderPreserved(P, Q) ==
    \A x, y \in P : x.p < y.p =>
        \A u, v \in Q : u.of = x.of /\ v.of = y.of => u.p < v.p

\* _transition_count: pairs of consecutive frames of a segment that differ in what seen has of them.
Transitions(b, seen) ==
    MapThenSumSet(LAMBDA s :
        LET group == Segment(b, s)
        IN  Cardinality({k \in 1..(Len(group) - 1) : seen[group[k]] # seen[group[k + 1]]}),
        Segments(b))

ActiveEdges(g) == {<<e.type, e.source, e.target>> : e \in {x \in ToSet(g.edges) : x.decided}}

\* _track_reuse_count: a track that is active after it ended for another reason than the
\* end of its segment.
TrackReuse(b) ==
    MapThenSumSet(LAMBDA s :
        LET group == Segment(b, s)
            at(k) == ToSet(b.frames[group[k]].tracks)
        IN  Cardinality({<<k, t>> \in UNION {{k} \X at(k) : k \in DOMAIN group} :
                /\ t.reason = "active"
                /\ \E j \in 1..(k - 1) : \E u \in at(j) : u.id = t.id /\ u.reason = "misses"}),
        Segments(b))

\* Seeded bug: an analysis that counts edges and does not look at their ends.
ControlsCounted(b, c) ==
    /\ NodeContents(b) = NodeContents(c)
    /\ Cardinality(Decided(c, "applies")) = Cardinality(Decided(b, "applies"))

\* A swap keeps how many edges there are and changes which.
ControlsSwapped(b, c) ==
    LET parent == Decided(b, "applies")
        child == Decided(c, "applies")
    IN  /\ NodeContents(b) = NodeContents(c)
        /\ Cardinality(child) = Cardinality(parent) /\ Cardinality(parent) >= 2
        /\ ~(parent \subseteq child)

Growth(b) == Max(ToSet(b.runtime.memory)) - Min(ToSet(b.runtime.memory))

Slowest(b) == Max(ToSet(b.runtime.latency))

StrictSubset(S, T) == S \subseteq T /\ S # T

\* The checks of analyze_fault for a kind the contract does not reject.
Shows(b, c, kind) ==
    CASE kind = "swap-control-edges" -> ControlsSwapped(b, c)
      [] kind = "drop-control-edges" ->
            /\ NodeContents(b) = NodeContents(c)
            /\ StrictSubset(Decided(c, "applies"), Decided(b, "applies"))
      [] kind = "drop-successor-chain" ->
            /\ NodeContents(b) = NodeContents(c)
            /\ StrictSubset(Decided(c, "successor"), Decided(b, "successor"))
      [] kind = "add-spurious-successors" ->
            /\ NodeContents(b) = NodeContents(c)
            /\ StrictSubset(Decided(b, "successor"), Decided(c, "successor"))
      [] kind = "permute-nodes-correctly" ->
            /\ \A f \in DOMAIN b.frames : SameGraph(b.frames[f], c.frames[f])
            /\ b.frames # c.frames
      [] kind = "permute-nodes-without-edges" ->
            /\ \A f \in DOMAIN b.frames : NodeIds(b.frames[f]) = NodeIds(c.frames[f])
            /\ NodeContents(b) # NodeContents(c)
            /\ Decided(b, "successor") = Decided(c, "successor")
      [] kind = "jitter-lanes" ->
            /\ \E f \in DOMAIN b.frames : {<<l.id, l.center>> : l \in ToSet(b.frames[f].lanes)}
                                          # {<<l.id, l.center>> : l \in ToSet(c.frames[f].lanes)}
            /\ Decided(b, "successor") = Decided(c, "successor")
      [] kind = "flip-boundaries" ->
            \E f \in DOMAIN b.frames : \E l \in ToSet(b.frames[f].lanes), m \in ToSet(c.frames[f].lanes) :
                l.id = m.id /\ l.left = m.right /\ l.right = m.left
      [] kind = "corrupt-extrinsic" ->
            /\ [f \in DOMAIN b.frames |-> b.frames[f].sensor] # [f \in DOMAIN c.frames |-> c.frames[f].sensor]
            /\ NodeContents(b) = NodeContents(c)
      [] kind = "inflate-uncertainty" ->
            LET before == AllScales(b)
                after == AllScales(c)
            IN  Len(before) = Len(after) /\ before # <<>> /\ \A k \in DOMAIN before : after[k] > before[k]
      [] kind = "temperature-collapse" ->
            LET before == Probabilities(b)
                after == Probabilities(c)
            IN  /\ {x.of : x \in before} = {x.of : x \in after}
                /\ OrderPreserved(before, after) /\ before # after
                /\ Extremity(after) > Extremity(before)
      [] kind = "alternate-edge-confidence" ->
            LET active(x) == [f \in DOMAIN x.frames |-> ActiveEdges(x.frames[f])]
            IN  Transitions(c, active(c)) > Transitions(b, active(b))
      [] kind = "alternate-node-presence" ->
            LET present(x) == [f \in DOMAIN x.frames |-> LaneIds(x.frames[f])]
            IN  Transitions(c, present(c)) > Transitions(b, present(b))
      [] kind = "reuse-track-id" -> TrackReuse(c) > TrackReuse(b)
      [] kind = "force-provider-fallback" -> b.runtime.cpu = 0 /\ c.runtime.cpu > 0
      [] kind = "delay-postprocess" -> Slowest(b) <= DelayBudget /\ Slowest(c) > DelayBudget
      [] kind = "leak-buffer" -> Growth(b) <= GrowthBudget /\ Growth(c) > GrowthBudget

\* analyze_fault.
Detected(b, c) ==
    /\ DOMAIN b.frames = DOMAIN c.frames
    /\ IF c.history \in DOMAIN ContractReason
       THEN FirstViolation(c) = ContractReason[c.history]
       ELSE FirstViolation(c) = None /\ Shows(b, c, c.history)

\* inject_fault: what is derived from a bundle, and whether it is stored with its report.
Report(b, child) ==
    [state |-> IF child = None THEN "no target" ELSE IF Detected(b, child) THEN "detected" ELSE "missed",
     child |-> child]

Injected(b, kind) ==
    IF Clean(b) THEN Report(b, ApplyFault(b, kind)) ELSE [state |-> "not clean", child |-> None]

-----------------------------------------------------------------------------
(***************************************************************************)
(* What the laboratory promises: a fault it puts into a bundle is found,   *)
(* but for the blind spots below, and one it did not put there is not.     *)
(***************************************************************************)

\* The faults the analysis cannot see, although they are there: edges without a decision
\* do not count, and neither do scales beyond the inflated one, two probabilities so
\* certain that they collapse into one, a bundle without any certainty, a segment that
\* already changes at every frame, two lanes with one content, and a leak over few frames.
BlindTo(b, child, kind) ==
    LET group == Segment(b, Min(Lasting(b)))
        changesAll(Of(_)) == \A k \in 1..(Len(group) - 1) : Of(b.frames[group[k]]) # Of(b.frames[group[k + 1]])
    IN  CASE kind = "swap-control-edges" ->
                Decided(child, "applies") = Decided(b, "applies") \/ Cardinality(Decided(b, "applies")) < 2
          [] kind = "drop-control-edges" -> Decided(child, "applies") = Decided(b, "applies")
          [] kind = "drop-successor-chain" -> Decided(child, "successor") = Decided(b, "successor")
          [] kind = "permute-nodes-without-edges" -> NodeContents(child) = NodeContents(b)
          [] kind = "inflate-uncertainty" -> \E s \in ToSet(AllScales(b)) : s >= Inflated
          [] kind = "temperature-collapse" ->
                LET ps == {x.p : x \in Probabilities(b)}
                IN  \/ ps \subseteq {-Saturated, 0, Saturated}
                    \/ \E p, q \in ps : p < q /\ Sharpened(p) = Sharpened(q)
          [] kind = "alternate-edge-confidence" -> changesAll(ActiveEdges)
          [] kind = "alternate-node-presence" -> changesAll(LaneIds)
          [] kind = "reuse-track-id" -> TrackReuse(child) = TrackReuse(b)
          [] kind = "leak-buffer" -> (Len(b.runtime.memory) - 1) * Buffer <= GrowthBudget
          [] OTHER -> FALSE

\* A derived bundle is missed exactly when the analysis is blind to its fault, and the
\* clean bundle itself, declared to have a fault, is accused of none, unless a lane looks
\* the same from both sides.
LabIsSound(b, kind, result) ==
    LET symmetric == \E f \in DOMAIN b.frames : \E l \in ToSet(b.frames[f].lanes) : l.left = l.right
    IN  /\ result.state \in {"detected", "missed"} => (result.state = "missed" <=> BlindTo(b, result.child, kind))
        /\ Clean(b) /\ Detected(b, [b EXCEPT !.history = kind]) =>
             kind = "flip-boundaries" /\ symmetric
        /\ result.state = "detected" => result.child.frames # b.frames \/ result.child.runtime # b.runtime
                                        \/ (kind = "flip-boundaries" /\ symmetric)
=============================================================================
