---------------------------- MODULE CustomEvaluator ----------------------------
(***************************************************************************)
(* The custom evaluation of one model: the greedy association of           *)
(* predictions and ground truth that the evaluator container computes      *)
(* (containers/custom_match.py) and the host checks again                  *)
(* (python/junctionlens/evaluator/custom.py), and the graph and temporal   *)
(* metrics the host derives from it.                                       *)
(*                                                                         *)
(* Geometry is abstracted to its quantized key and to the cost against     *)
(* each truth, confidences and probabilities to ranks.  Identifiers are    *)
(* numbers, ordered as the code orders them.                               *)
(***************************************************************************)
EXTENDS Integers, SequencesExt, FiniteSetsExt, Orders

CONSTANTS
    Threshold,      \* _THRESHOLDS: a cost below it is a candidate
    EdgeThreshold,  \* EDGE_THRESHOLD, as a rank of raw probabilities
    Confident,      \* CONFIDENT_WRONG_THRESHOLD, as a rank of calibrated ones
    None

ASSUME EvaluatorConstants ==
    Threshold \in Nat /\ EdgeThreshold \in Nat /\ Confident \in Nat

-----------------------------------------------------------------------------
(***************************************************************************)
(* Association.  A request has the truths of one object type and its       *)
(* predictions: [id, confidence, key, query, cost].                        *)
(***************************************************************************)

\* Descending confidence, then quantized geometry, then decoder query.
Before(p, q) ==
    \/ p.confidence > q.confidence
    \/ p.confidence = q.confidence /\ p.key < q.key
    \/ p.confidence = q.confidence /\ p.key = q.key /\ p.query < q.query

\* The places of two predictions: those that tie stay as they are.
PlaceOrder(predictions) ==
    {e \in (DOMAIN predictions) \X (DOMAIN predictions) :
        \/ Before(predictions[e[1]], predictions[e[2]])
        \/ ~Before(predictions[e[2]], predictions[e[1]]) /\ e[1] < e[2]}

\* sorted(): stable.
InPredictionOrder(predictions) ==
    LET place == InOrder(DOMAIN predictions, PlaceOrder(predictions))
    IN  [k \in DOMAIN predictions |-> predictions[place[k]]]

\* The truths of a request by their cost for p, and then by source id.
CostOrder(p, truth) ==
    {e \in truth \X truth : \/ p.cost[e[1]] < p.cost[e[2]]
                            \/ p.cost[e[1]] = p.cost[e[2]] /\ e[1] < e[2]}

ByCost(p, truth) == InOrder(truth, CostOrder(p, truth))

Inside(p, truth) == {t \in truth : p.cost[t] < Threshold}

\* The first of some truths by cost, or None.
Nearest(p, truth) ==
    IF truth = {} THEN None ELSE ByCost(p, truth)[1]

\* What the predictions before the one at place k selected.
TakenBefore(chosen, k) == {chosen[j] : j \in 1..(k - 1)}

\* What each prediction of the order selects of the truths still available.
Greedy(order, truth) ==
    LET pick[k \in DOMAIN order] ==
            Nearest(order[k], Inside(order[k], truth) \ TakenBefore(pick, k))
    IN  pick

\* Why a candidate was not selected, when taken are the truths of the predictions
\* before.
Reason(p, t, chosen, taken) ==
    IF t = chosen THEN "SELECTED"
    ELSE IF p.cost[t] >= Threshold THEN "OUTSIDE_THRESHOLD"
    ELSE IF t \in taken THEN "GROUND_TRUTH_ALREADY_MATCHED"
    ELSE "HIGHER_COST_THAN_SELECTED"

\* The records of an order and what its predictions selected.
Records(order, truth, chosen) ==
    [k \in DOMAIN order |->
        LET p == order[k]
            taken == TakenBefore(chosen, k)
        IN  [prediction |-> p,
             candidates |-> [i \in 1..Cardinality(truth) |->
                LET t == ByCost(p, truth)[i]
                IN  [truth |-> t, cost |-> p.cost[t], passes |-> p.cost[t] < Threshold,
                     reason |-> Reason(p, t, chosen[k], taken)]],
             selected |-> chosen[k],
             unmatched |-> IF chosen[k] # None THEN None
                           ELSE IF Inside(p, truth) = {} THEN "NO_CANDIDATE_INSIDE_THRESHOLD"
                           ELSE "ALL_ELIGIBLE_GROUND_TRUTH_TAKEN"]]

\* The output that reports that order and those choices.
OutputOf(order, truth, chosen) ==
    [records |-> Records(order, truth, chosen), matchedTruth |-> ToSet(chosen) \ {None}]

\* The container's output for one object type of one frame.
MatchType(request) ==
    LET order == InPredictionOrder(request.predictions)
    IN  OutputOf(order, request.truth, Greedy(order, request.truth))

\* Seeded bug: the greedy choice is not derived again.
RecordOkUnchecked(record, truth, taken) ==
    record.selected \in Inside(record.prediction, truth) \union {None}

\* One record of the output against the request and the truths already selected.
RecordOk(record, truth, taken) ==
    LET p == record.prediction
        cs == record.candidates
        open == {i \in DOMAIN cs : cs[i].passes /\ cs[i].truth \notin taken}
        expected == IF open = {} THEN None ELSE cs[Min(open)].truth
    IN  /\ {cs[i].truth : i \in DOMAIN cs} = truth
        /\ \A i \in DOMAIN cs : cs[i].passes = (cs[i].cost < Threshold)
        /\ \A i, j \in DOMAIN cs : i < j =>
             \/ cs[i].cost < cs[j].cost
             \/ cs[i].cost = cs[j].cost /\ cs[i].truth <= cs[j].truth
        /\ record.selected = expected
        /\ \A i \in DOMAIN cs : cs[i].reason = Reason(p, cs[i].truth, expected, taken)
        /\ record.unmatched =
             (IF expected # None THEN None
              ELSE IF \E i \in DOMAIN cs : cs[i].passes THEN "ALL_ELIGIBLE_GROUND_TRUTH_TAKEN"
              ELSE "NO_CANDIDATE_INSIDE_THRESHOLD")

\* validate_custom_match_output: the host checks every decision of the container.
Accepts(request, output) ==
    LET rs == output.records
        selected == [k \in DOMAIN rs |-> rs[k].selected]
    IN  /\ Len(rs) = Len(request.predictions)
        /\ {rs[k].prediction : k \in DOMAIN rs} = ToSet(request.predictions)
        /\ \A k \in DOMAIN rs :
             RecordOk(rs[k], request.truth, TakenBefore(selected, k) \ {None})
        /\ \A j, k \in DOMAIN rs : j < k => ~Before(rs[k].prediction, rs[j].prediction)
        /\ output.matchedTruth = ToSet(selected) \ {None}

-----------------------------------------------------------------------------
(***************************************************************************)
(* Graph metrics of one frame: numerator and denominator of each ratio.    *)
(* A frame has the true successor and control edges, of source ids, the    *)
(* associations lane and control of prediction ids to source ids, and the  *)
(* predicted edges with the rank of their probability.                     *)
(***************************************************************************)

Ratio(numerators, denominators) ==
    [num |-> Cardinality(numerators), den |-> Cardinality(denominators)]

\* _associations, from prediction to truth.
Matched(association) == {p \in DOMAIN association : association[p] # None}

\* _edge_sets of a prediction.
Retained(edges) == {e \in DOMAIN edges : edges[e] >= EdgeThreshold}

\* The edges whose two ends are associated, as pairs of source ids.
Mapped(edges, from, to) ==
    {<<from[e[1]], to[e[2]]>> : e \in {d \in edges : d[1] \in Matched(from) /\ d[2] \in Matched(to)}}

\* _reachability: what up to three edges lead to, the node itself left out.
Reachability(edges, node) ==
    LET step(front) == {e[2] : e \in {d \in edges : d[1] \in front}}
        one == step({node})
        two == step(one) \ one
        three == step(two) \ (one \union two)
    IN  (one \union two \union three) \ {node}

\* ReachableWithinHops of cpp/src/eval/metrics.cpp, with three hops: the frontier is what no
\* hop met before, and a node reaches itself where a cycle leads back to it.
NativeReachable(edges, source, target) ==
    LET next(front, visited) == {e[2] : e \in {d \in edges : d[1] \in front}} \ visited
        one == next({source}, {source})
        two == next(one, {source} \union one)
    IN  \E e \in edges : e[2] = target /\ e[1] \in {source} \union one \union two

\* _associations, from truth to prediction.
PredictionOf(association, t) == CHOOSE p \in Matched(association) : association[p] = t

\* The predicted control edge that speaks for a control: the most probable one,
\* and of equals the one to the lane of the lowest id.
TopEdge(edges, control) ==
    CHOOSE e \in Retained(edges) :
        /\ e[1] = control
        /\ \A d \in Retained(edges) : d[1] = control =>
             edges[d] < edges[e] \/ (edges[d] = edges[e] /\ e[2] <= d[2])

\* The matched controls that truly apply to a matched lane.
Eligible(f, lanes, controls) ==
    {c \in controls : \E l \in lanes : <<c, l>> \in f.trueControl}

\* _frame_graph_metrics.
FrameMetrics(f) ==
    LET lanes    == {f.laneOf[p] : p \in Matched(f.laneOf)}
        controls == {f.controlOf[p] : p \in Matched(f.controlOf)}
        eligible == Eligible(f, lanes, controls)
        predicted == {e \in Mapped(Retained(f.control), f.controlOf, f.laneOf) : e[1] \in eligible}
        population == {e \in f.trueControl : e[1] \in controls /\ e[2] \in lanes}
        answered == {c \in eligible : \E e \in Retained(f.control) :
                       e[1] = PredictionOf(f.controlOf, c)}
        top(c)   == TopEdge(f.control, PredictionOf(f.controlOf, c))
        wrong    == {c \in answered : <<c, f.laneOf[top(c)[2]]>> \notin f.trueControl}
        sure     == {c \in wrong : f.calibrated[top(c)] >= Confident}
        successors == Mapped(Retained(f.successor), f.laneOf, f.laneOf)
        pairs    == {e \in lanes \X lanes : e[2] \in Reachability(f.trueSuccessor, e[1])}
        kept     == {e \in pairs : e[2] \in Reachability(successors, e[1])}
        sources  == {e[1] : e \in pairs}
        blocked  == {s \in sources :
                       Reachability(successors, s) \intersect Reachability(f.trueSuccessor, s) = {}}
    IN  [controlPrecision |-> Ratio(predicted \intersect f.trueControl, predicted),
         controlRecall    |-> Ratio(predicted \intersect population, population),
         wrongControl     |-> Ratio(wrong, answered),
         confidentWrong   |-> Ratio(sure, answered),
         reachability     |-> Ratio(kept, pairs),
         pathBlocking     |-> Ratio(blocked, sources),
         spurious         |-> Ratio(successors \ f.trueSuccessor, successors)]

-----------------------------------------------------------------------------
(***************************************************************************)
(* Temporal metrics of one segment: its frames in time, each with the      *)
(* truths present, the prediction and the track each is matched with, the  *)
(* live tracks, the true edges, and the predicted ones on source ids.      *)
(***************************************************************************)

\* _consecutive_runs: the maximal runs of frames a truth is present in.
Runs(frames, t) ==
    {e[1]..e[2] : e \in {d \in (DOMAIN frames) \X (DOMAIN frames) :
        /\ d[1] <= d[2]
        /\ \A k \in d[1]..d[2] : t \in frames[k].present
        /\ d[1] - 1 \in DOMAIN frames => t \notin frames[d[1] - 1].present
        /\ d[2] + 1 \in DOMAIN frames => t \notin frames[d[2] + 1].present}}

LongEnough(run) == Cardinality(run) >= 3

\* The transitions presence flicker is measured on, as <<truth, current frame>>.
Transitions(frames) ==
    UNION {{<<t, k>> : k \in UNION {run \ {Min(run)} :
                                     run \in {r \in Runs(frames, t) : LongEnough(r)}}} :
           t \in UNION {frames[k].present : k \in DOMAIN frames}}

\* presence_flicker_rate.
Flicker(frames) ==
    LET seen(t, k) == frames[k].match[t] # None
    IN  Ratio({x \in Transitions(frames) : seen(x[1], x[2]) # seen(x[1], x[2] - 1)},
              Transitions(frames))

\* The edges a flip rate is measured on from frame k - 1 to frame k.
PersistentEdges(frames, k) ==
    {e \in frames[k - 1].edges : {e[1], e[2]} \subseteq frames[k].present}

\* successor_edge_flip_rate and control_edge_flip_rate of the transition to frame k.
Flips(frames, k) ==
    Ratio({e \in PersistentEdges(frames, k) :
             (e \in frames[k - 1].mapped) # (e \in frames[k].mapped)},
          PersistentEdges(frames, k))

\* last_match: the track t was matched with last, before frame k, or None.
LastTrack(frames, t, k) ==
    LET earlier == {j \in 1..(k - 1) : frames[j].match[t] # None /\ frames[j].track[t] # None}
    IN  IF earlier = {} THEN None ELSE frames[Max(earlier)].track[t]

\* id_switches_per_100_tracks of frame k: a track replaced while it lives on.
Switches(frames, k) ==
    LET tracked == {t \in frames[k].present :
                      /\ frames[k].match[t] # None /\ frames[k].track[t] # None
                      /\ LastTrack(frames, t, k) # None}
    IN  Ratio({t \in tracked : /\ frames[k].track[t] # LastTrack(frames, t, k)
                               /\ LastTrack(frames, t, k) \in frames[k].live},
              tracked)

-----------------------------------------------------------------------------
(***************************************************************************)
(* What the association and the metrics promise.                           *)
(***************************************************************************)

\* docs/custom-kpis.md: the association is the greedy one.  A prediction without a
\* truth, or with a more distant one, lost every nearer truth inside the threshold
\* to a prediction that comes before it; no truth has two predictions.
IsGreedyAssociation(request, output) ==
    LET rs == output.records
    IN  \A k \in DOMAIN rs : \A t \in Inside(rs[k].prediction, request.truth) :
          LET p == rs[k].prediction
              s == rs[k].selected
              nearer == s = None \/ p.cost[t] < p.cost[s] \/ (p.cost[t] = p.cost[s] /\ t < s)
          IN  /\ nearer => \E j \in DOMAIN rs : rs[j].selected = t /\ j < k
                                               /\ ~Before(p, rs[j].prediction)
              /\ \A j \in DOMAIN rs : j # k /\ s # None => rs[j].selected # s

\* The rearrangements of n places, what n predictions may select, and rearranged predictions.
Rearrangements(n) == {o \in [1..n -> 1..n] : \A i, j \in 1..n : i # j => o[i] # o[j]}

Selections(n, truth) == [1..n -> truth \union {None}]

Rearranged(predictions, o) == [k \in DOMAIN predictions |-> predictions[o[k]]]

\* Outputs a faulty container may send: any order and any choice of each prediction,
\* its reasons consistent with them.
Outputs(request) ==
    LET n == Len(request.predictions)
    IN  {OutputOf(Rearranged(request.predictions, o), request.truth, c) :
         o \in Rearrangements(n), c \in Selections(n, request.truth)}

NoneTie(predictions) ==
    \A i, j \in DOMAIN predictions : i # j =>
      \/ Before(predictions[i], predictions[j])
      \/ Before(predictions[j], predictions[i])

\* Of the outputs a faulty container may send the host accepts those the container
\* would compute, and, where no two predictions tie, no other.
AcceptedIsGreedy(request, accepted) ==
    /\ MatchType(request) \in accepted
    /\ NoneTie(request.predictions) => accepted = {MatchType(request)}

\* Python and C++ reach the same nodes, the node itself aside.
ReachabilitiesAgree(edges) ==
    LET nodes == UNION {{e[1], e[2]} : e \in edges}
    IN  \A s \in nodes : Reachability(edges, s) = {t \in nodes \ {s} : NativeReachable(edges, s, t)}

\* The ratios of a frame are rates, and agree with one another: a blocked source is
\* missing from the recall, and where every matched control is answered by one edge
\* to a matched lane, the wrong ones are those the precision misses.
MetricsAgree(f) ==
    LET m == FrameMetrics(f)
        single == \A c \in {e[1] : e \in Retained(f.control)} :
                    Cardinality({e \in Retained(f.control) : e[1] = c}) = 1
        onLanes == \A e \in Retained(f.control) : e[2] \in Matched(f.laneOf)
    IN  /\ \A name \in DOMAIN m : m[name].num <= m[name].den
        /\ ReachabilitiesAgree(f.trueSuccessor)
        /\ m.confidentWrong.num <= m.wrongControl.num
        /\ m.pathBlocking.num <= m.reachability.den - m.reachability.num
        /\ m.controlRecall.num = m.controlPrecision.num
        /\ single /\ onLanes =>
             /\ m.wrongControl.num = m.controlPrecision.den - m.controlPrecision.num
             /\ m.wrongControl.den = m.controlPrecision.den

\* Flicker is measured where three frames in a row, one of them on each side or both
\* on one, hold the truth; a prediction that reproduces the truth flips only the edges
\* the truth changed, and switches no track.
TemporalMetricsAgree(frames) ==
    LET held(t, k) == k \in DOMAIN frames /\ t \in frames[k].present
        truths == UNION {frames[k].present : k \in DOMAIN frames}
        exact == \A k \in DOMAIN frames :
                   /\ frames[k].mapped = frames[k].edges
                   /\ \A t \in truths : (frames[k].match[t] # None) = (t \in frames[k].present)
    IN  /\ Transitions(frames) =
             {x \in truths \X (DOMAIN frames) :
                /\ held(x[1], x[2]) /\ held(x[1], x[2] - 1)
                /\ held(x[1], x[2] - 2) \/ held(x[1], x[2] + 1)}
        /\ exact => Flicker(frames).num = 0
        /\ \A k \in DOMAIN frames \ {1} :
             exact => Flips(frames, k).num = Cardinality(PersistentEdges(frames, k) \ frames[k].edges)
        /\ \A k \in DOMAIN frames \ {1} :
             (\A t \in truths : frames[k].track[t] \in {None, t}
                               /\ LastTrack(frames, t, k) \in {None, t}) => Switches(frames, k).num = 0
=============================================================================
