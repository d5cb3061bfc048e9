----------------------------- MODULE TopologyTargets -----------------------------
(***************************************************************************)
(* The way of the topology through the experiments: from the annotations   *)
(* of a frame, lane by lane, to the labels of pairs of decoder queries     *)
(* (model/e1_data.py, model/e1_losses.py), out of the model's outputs into *)
(* the graph of the runtime and the tables of the official evaluator       *)
(* (model/selection_evaluation.py, evaluator/payload.py), and into the     *)
(* graph of the truth (model/evaluation_graphs.py).  Every one of these    *)
(* has its own order of nodes, and some are transposed.                    *)
(*                                                                         *)
(* A frame has lanes, controls and areas, the matrix successor[i][j] of    *)
(* lanes and the matrix control[i][c] of lanes and controls.  Geometry is  *)
(* abstracted: fit says whether the curve of a lane can be resampled.      *)
(***************************************************************************)
EXTENDS GraphContract

CONSTANTS LaneQueries, ControlQueries, AreaQueries, MostLanes, MostControls, MostAreas

Indices(n) == 1..n

\* frame_targets and E1Targets.validate: the labels of a frame, control major, or None.
E1Targets(frame) ==
    LET lanes == Indices(Len(frame.lanes))
        controls == Indices(Len(frame.controls))
    IN  IF /\ \A k \in DOMAIN frame.lanes : frame.lanes[k].fit
           /\ \A k \in DOMAIN frame.areas : frame.areas[k].points >= 3
           /\ Len(frame.lanes) <= LaneQueries /\ Len(frame.controls) <= ControlQueries
           /\ Len(frame.areas) <= AreaQueries
           /\ \A i \in lanes : frame.successor[i][i] = 0
        THEN [successor |-> [i \in lanes |-> [j \in lanes |-> frame.successor[i][j] = 1]],
              control |-> [c \in controls |-> [i \in lanes |-> frame.control[i][c] = 1]]]
        ELSE None

\* match_e0: a query for every node, by the assignment of least cost.
Matchings(nodes, queries) == {f \in [1..nodes -> 1..queries] : IsInjective(f)}

\* Seeded bug: the labels of a control are read lane major.
LabelsTransposed(targets, lane, control) ==
    LET nodeOf(f, q) == CHOOSE i \in DOMAIN f : f[i] = q
        matched(f) == {f[i] : i \in DOMAIN f}
    IN  [successor |-> [p \in (1..LaneQueries) \X (1..LaneQueries) |->
            IF {p[1], p[2]} \subseteq matched(lane) /\ p[1] # p[2]
            THEN targets.successor[nodeOf(lane, p[2])][nodeOf(lane, p[1])] ELSE None],
         control |-> [p \in (1..ControlQueries) \X (1..LaneQueries) |->
            IF p[1] \in matched(control) /\ p[2] \in matched(lane)
            THEN targets.control[nodeOf(control, p[1])][nodeOf(lane, p[2])] ELSE None]]

\* topology_assignments: the label of every pair of queries with nodes, None where masked.
Labels(targets, lane, control) ==
    LET nodeOf(f, q) == CHOOSE i \in DOMAIN f : f[i] = q
        matched(f) == {f[i] : i \in DOMAIN f}
    IN  [successor |-> [p \in (1..LaneQueries) \X (1..LaneQueries) |->
            IF {p[1], p[2]} \subseteq matched(lane) /\ p[1] # p[2]
            THEN targets.successor[nodeOf(lane, p[1])][nodeOf(lane, p[2])] ELSE None],
         control |-> [p \in (1..ControlQueries) \X (1..LaneQueries) |->
            IF p[1] \in matched(control) /\ p[2] \in matched(lane)
            THEN targets.control[nodeOf(control, p[1])][nodeOf(lane, p[2])] ELSE None]]

\* LearnedTopologyHeads.forward: a lane never succeeds itself.
Masked(ranks) == [p \in DOMAIN ranks |-> IF p[1] = p[2] THEN 0 ELSE ranks[p]]

\* The outputs of a model that learned its labels: a node where one is matched, an edge where
\* one is labelled, and any rank (noise) where nothing was ever asked of it.
Learned(labels, lane, control, area, key, noise) ==
    LET rank(label) == IF label = None THEN noise ELSE IF label THEN Likely ELSE Likely - 1
        exists(f, q) == IF \E i \in DOMAIN f : f[i] = q THEN Likely ELSE Likely - 1
        query(f, q) == [rank |-> exists(f, q), key |-> key[q], sound |-> TRUE]
    IN  [lanes |-> [q \in 1..LaneQueries |-> query(lane, q)],
         controls |-> [q \in 1..ControlQueries |-> query(control, q) @@ [corners |-> <<0, 0, Unit, Unit>>]],
         areas |-> [q \in 1..AreaQueries |-> query(area, q)],
         successor |-> Masked([p \in DOMAIN labels.successor |-> rank(labels.successor[p])]),
         applies |-> [p \in DOMAIN labels.control |-> rank(labels.control[p])]]

\* The queries above the threshold, in their own order.
Kept(queries) == SelectSeq([q \in DOMAIN queries |-> q], LAMBDA q : queries[q].rank >= Likely)

\* official_annotations, of E1: nodes in the order of queries, the controls of a lane in its row.
OfficialPrediction(out) ==
    LET lanes == Kept(out.lanes)
        controls == Kept(out.controls)
    IN  [lanes |-> lanes, controls |-> controls, areas |-> Kept(out.areas),
         successor |-> [i \in DOMAIN lanes |-> [j \in DOMAIN lanes |-> out.successor[<<lanes[i], lanes[j]>>]]],
         control |-> [i \in DOMAIN lanes |-> [c \in DOMAIN controls |-> out.applies[<<controls[c], lanes[i]>>]]]]

\* _truth_annotation.
TruthAnnotation(frame) ==
    [lanes |-> [k \in DOMAIN frame.lanes |-> k], controls |-> [k \in DOMAIN frame.controls |-> k],
     areas |-> [k \in DOMAIN frame.areas |-> k], points |-> [k \in DOMAIN frame.areas |-> frame.areas[k].points],
     successor |-> frame.successor, control |-> frame.control]

\* _annotation of evaluator/payload.py.
PayloadAccepts(a) ==
    LET square(matrix, rows, columns) ==
            Len(matrix) = rows /\ \A k \in DOMAIN matrix : Len(matrix[k]) = columns
    IN  /\ Len(a.lanes) <= MostLanes /\ Len(a.controls) <= MostControls /\ Len(a.areas) <= MostAreas
        /\ Injective(a.lanes) /\ Injective(a.controls) /\ Injective(a.areas)
        /\ \A k \in DOMAIN a.points : a.points[k] >= 3
        /\ square(a.successor, Len(a.lanes), Len(a.lanes))
        /\ square(a.control, Len(a.lanes), Len(a.controls))

\* _source_node_id: a hash of the frame, the type and the identity of the source.
SourceNodeId(type, id) == <<type, id>>

\* ground_truth_envelope: the nodes of the source and an edge per one of the matrices, applied
\* controls from the control to the lane.
TruthGraph(key, sensor, frame) ==
    LET node(type, n) == [id |-> SourceNodeId(type, n.id), sound |-> TRUE, track |-> None]
        lane(k) == SourceNodeId(Lane, frame.lanes[k].id)
        control(k) == SourceNodeId(Control, frame.controls[k].id)
        edge(type, s, t) == [id |-> EdgeId(key, type, s, t), type |-> type, source |-> s, target |-> t, sound |-> TRUE]
        edges == {edge("successor", lane(p[1]), lane(p[2])) : p \in
                    {q \in (DOMAIN frame.lanes) \X (DOMAIN frame.lanes) : frame.successor[q[1]][q[2]] = 1}}
                 \union {edge("applies", control(p[2]), lane(p[1])) : p \in
                    {q \in (DOMAIN frame.lanes) \X (DOMAIN frame.controls) : frame.control[q[1]][q[2]] = 1}}
    IN  [schema |-> 1, finite |-> TRUE, producer |-> TRUE, role |-> "truth", key |-> key, sensor |-> sensor,
         lanes |-> [k \in DOMAIN frame.lanes |-> node(Lane, frame.lanes[k])],
         controls |-> [k \in DOMAIN frame.controls |->
                         node(Control, frame.controls[k]) @@ [camera |-> 1, box |-> frame.controls[k].box]],
         areas |-> [k \in DOMAIN frame.areas |-> node(Area, frame.areas[k])],
         edges |-> FoldSet(LAMBDA e, all : Append(all, e), <<>>, edges), tracks |-> <<>>, artifacts |-> 0]

-----------------------------------------------------------------------------
(* The geometric rules of E0 (model/independent_linker.py): a frame gives the distance and
   the heading of each pair of lanes (successorFeature) and of each control and lane
   (controlFeature), or None where there are none. *)

\* frame_rule_observations: one per pair with features, and its outcome in the annotations.
Observations(frame) ==
    LET lanes == DOMAIN frame.lanes
        controls == DOMAIN frame.controls
    IN  [successor |-> {<<p, frame.successorFeature[p], frame.successor[p[1]][p[2]]>> :
                        p \in {q \in lanes \X lanes : q[1] # q[2]}},
         control |-> {<<p, frame.controlFeature[p], frame.control[p[2]][p[1]]>> :
                        p \in {q \in controls \X lanes : frame.controlFeature[q] # None}}]

Within(feature, threshold) == feature.distance <= threshold.distance /\ feature.heading <= threshold.heading

Hits(observations, t, outcome) == Cardinality({o \in observations : Within(o[2], t) /\ o[3] = outcome})

\* _fit: the thresholds of the grid with the best F1 (2 TP over 2 TP + FP + FN), the smallest of
\* several, or None where there is nothing to find.
Fit(observations, grid) ==
    LET tp(t) == Hits(observations, t, 1)
        all == Cardinality({o \in observations : o[3] = 1})
        f1(t) == <<2 * tp(t), tp(t) + Hits(observations, t, 0) + all>>
        better(s, t) == f1(s)[1] * f1(t)[2] > f1(t)[1] * f1(s)[2]
        best == {t \in grid : \A s \in grid : ~better(s, t)}
    IN  IF all = 0 THEN None
        ELSE CHOOSE t \in best : \A s \in best :
               t.distance < s.distance \/ (t.distance = s.distance /\ t.heading <= s.heading)

\* _safe_rule_probabilities and official_annotations, of E0: the rules applied to the kept
\* queries, control major first and then turned.
RulePrediction(frame, kept, rules) ==
    LET row(c) == [i \in DOMAIN kept.lanes |->
                     LET f == frame.controlFeature[<<kept.controls[c], kept.lanes[i]>>]
                     IN  IF f # None /\ Within(f, rules.control) THEN 1 ELSE 0]
        rows == [c \in DOMAIN kept.controls |-> row(c)]
    IN  [successor |-> [i \in DOMAIN kept.lanes |-> [j \in DOMAIN kept.lanes |->
            LET f == frame.successorFeature[<<kept.lanes[i], kept.lanes[j]>>]
            IN  IF i # j /\ f # None /\ Within(f, rules.successor) THEN 1 ELSE 0]],
         control |-> [i \in DOMAIN kept.lanes |-> [c \in DOMAIN kept.controls |-> rows[c][i]]]]

-----------------------------------------------------------------------------
(***************************************************************************)
(* What this way promises.                                                 *)
(***************************************************************************)

\* A model that learned the labels of a frame reproduces its topology, in the tables of the
\* evaluator and in the graph of the runtime, whichever queries were matched and whatever it
\* says of the others; and both evaluators can read it.
LearnedIsTruth(key, sensor, frame, lane, control, area, geometry, noise) ==
    LET targets == E1Targets(frame)
        out == Learned(Labels(targets, lane, control), lane, control, area, geometry, noise)
        tables == OfficialPrediction(out)
        truth == TruthGraph(key, sensor, frame)
        graph == Postprocess([truth EXCEPT !.edges = <<>>], out)
        row(f, kept, i) == CHOOSE k \in DOMAIN kept : kept[k] = f[i]
        decoded(f, type, queries, i) == DecodedId(type, Decoded(queries), f[i])
        drawn == {<<e.type, e.source, e.target>> : e \in ToSet(graph.edges)}
        expected ==
            {<<"successor", decoded(lane, Lane, out.lanes, p[1]), decoded(lane, Lane, out.lanes, p[2])>> :
             p \in {q \in (DOMAIN frame.lanes) \X (DOMAIN frame.lanes) : frame.successor[q[1]][q[2]] = 1}}
            \union
            {<<"applies", decoded(control, Control, out.controls, p[2]), decoded(lane, Lane, out.lanes, p[1])>> :
             p \in {q \in (DOMAIN frame.lanes) \X (DOMAIN frame.controls) : frame.control[q[1]][q[2]] = 1}}
    IN  targets # None =>
          /\ \A i, j \in DOMAIN frame.lanes :
               (tables.successor[row(lane, tables.lanes, i)][row(lane, tables.lanes, j)] >= Likely)
                 <=> (frame.successor[i][j] = 1)
          /\ \A i \in DOMAIN frame.lanes, c \in DOMAIN frame.controls :
               (tables.control[row(lane, tables.lanes, i)][row(control, tables.controls, c)] >= Likely)
                 <=> (frame.control[i][c] = 1)
          /\ drawn = expected
          /\ PythonAccepts(graph) /\ PythonAccepts(truth)
          /\ PayloadAccepts(TruthAnnotation(frame))
          /\ PayloadAccepts(tables @@ [points |-> <<>>])

\* The rules find in a perfect model's frame exactly the edges they were fitted to find, and
\* no rules of the grid find more of the truth at the same price.
RulesAreFitted(frame, grid) ==
    LET seen == Observations(frame)
        rules == [successor |-> Fit(seen.successor, grid), control |-> Fit(seen.control, grid)]
        all == [lanes |-> [k \in DOMAIN frame.lanes |-> k], controls |-> [k \in DOMAIN frame.controls |-> k]]
        tables == RulePrediction(frame, all, rules)
        hits(observations, t) == <<Hits(observations, t, 1), Hits(observations, t, 0)>>
        found(matrix, truth) ==
            LET at(v) == {<<i, j>> \in (1..Len(matrix)) \X (1..Max({Len(truth[k]) : k \in DOMAIN truth} \union {0})) :
                            matrix[i][j] = 1 /\ truth[i][j] = v}
            IN  <<Cardinality(at(1)), Cardinality(at(0))>>
    IN  None \notin {rules.successor, rules.control} =>
          /\ found(tables.successor, frame.successor) = hits(seen.successor, rules.successor)
          /\ found(tables.control, frame.control) = hits(seen.control, rules.control)
          /\ \A t \in grid : LET mine == hits(seen.successor, rules.successor)
                                 other == hits(seen.successor, t)
                             IN  ~(other[1] >= mine[1] /\ other[2] <= mine[2] /\ other # mine)
=============================================================================
