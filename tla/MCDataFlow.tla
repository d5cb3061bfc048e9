------------------------------- MODULE MCDataFlow -------------------------------
(***************************************************************************)
(* Small inputs for the conventions of geometry, the dataset adapter,      *)
(* the topology targets and the calibration evidence.                      *)
(***************************************************************************)
EXTENDS Integers, Sequences, TLC

CONSTANT None

Geo == INSTANCE Geometry

Adapter == INSTANCE DatasetAdapter WITH
    Mapping <- [one |-> [fa |-> 1, la |-> 2], two |-> [fb |-> 1, lb |-> 2, xb |-> 1]],
    Pinned <- [one |-> [fa |-> <<8, 4>>, la |-> <<8, 4>>]],
    Prefix <- [fa |-> "one", la |-> "one", fb |-> "two", lb |-> "two", xb |-> "two", zz |-> "none"],
    Alias <- [One |-> "one", Two |-> "two", Three |-> "three"],
    Slots <- 2, Model <- [w |-> 5, h |-> 3]

Topology == INSTANCE TopologyTargets WITH
    PythonLimit <- [c \in {"cameras", "lanes", "controls", "areas", "edges", "tracks", "artifacts"} |-> 9],
    NativeLimit <- [c \in {"cameras", "lanes", "controls", "areas", "edges", "tracks", "artifacts"} |-> 9],
    Slots <- 1, Unit <- 2, Likely <- 1,
    LaneQueries <- 3, ControlQueries <- 2, AreaQueries <- 1,
    MostLanes <- 3, MostControls <- 2, MostAreas <- 1

Evidence == INSTANCE CalibrationEvidence WITH One <- 4, Half <- 2, Bins <- 2, Common <- 12, Log10 <- 2

-----------------------------------------------------------------------------
(* Geometry. *)

\* Every matrix of -1, 0 and 1, and those of them that are rotations.
Matrices == [1..3 -> [1..3 -> -1..1]]
Rotations == {<<<<1, 0, 0>>, <<0, 1, 0>>, <<0, 0, 1>>>>, <<<<0, 1, 0>>, <<-1, 0, 0>>, <<0, 0, 1>>>>,
              <<<<0, 0, 1>>, <<0, 1, 0>>, <<-1, 0, 0>>>>, <<<<-1, 0, 0>>, <<0, 0, 1>>, <<0, 1, 0>>>>,
              <<<<0, 1, 0>>, <<0, 0, 1>>, <<1, 0, 0>>>>, <<<<0, -1, 0>>, <<0, 0, -1>>, <<1, 0, 0>>>>}

Poses ==
    {[a |-> [r |-> r, t |-> t], b |-> [r |-> s, t |-> <<1, -1, 2>>], p |-> p, k |-> [f |-> 2, u |-> 1, v |-> 3]] :
     r \in Rotations, s \in Rotations, t \in {<<0, 0, 0>>, <<2, 1, -3>>}, p \in [1..3 -> {-1, 0, 2}]}

Boxes == {<<b[1], b[2], b[3], b[4]>> : b \in {c \in [1..4 -> 0..2] : c[1] <= c[3] /\ c[2] <= c[4]}}

BoxPairs ==
    {[a |-> a, b |-> b, m |-> m] : a \in Boxes, b \in Boxes, m \in {<<2, 3, 1, 0>>, <<-1, 2, 4, 1>>}}

Images ==
    {[w |-> w, h |-> h, model |-> model] : w \in 1..20, h \in 1..20,
     model \in {[w |-> 5, h |-> 3], [w |-> 4, h |-> 4], [w |-> 3, h |-> 7]}}
    \union {[w |-> size[1], h |-> size[2], model |-> [w |-> 640, h |-> 384]] :
            size \in {<<1600, 900>>, <<2048, 1550>>, <<1550, 2048>>, <<1, 5000>>}}

Steps == {<<1, 0, 0>>, <<0, 1, 0>>, <<0, 0, -1>>, <<-2, 0, 0>>, <<0, 0, 0>>}

\* The curves of up to so many steps from a point.
From(p, most) ==
    LET walk(s) == [k \in 1..(Len(s) + 1) |->
                      [i \in 1..3 |-> p[i] + Geo!Sum([j \in 1..(k - 1) |-> s[j][i]])]]
    IN  {walk(s) : s \in UNION {[1..n -> Steps] : n \in 1..most}}

Curves == {[p |-> p, n |-> n] : p \in From(<<0, 0, 0>>, 3), n \in 2..4}
CurvePairs == {[p |-> p, q |-> q] : p \in From(<<0, 0, 0>>, 2), q \in From(<<1, 0, 0>>, 2)}

LanesWithSides ==
    LET offsets == {<<0, 1, 0>>, <<0, -1, 0>>, <<1, 0, 0>>, <<0, 0, 0>>}
        side(center, o) == [k \in DOMAIN center |-> [i \in 1..3 |-> center[k][i] + o[k][i]]]
    IN  {[center |-> center, left |-> side(center, l), right |-> side(center, [k \in 1..3 |-> r])] :
         center \in From(<<0, 0, 0>>, 2), l \in [1..3 -> offsets], r \in offsets}

Costs ==
    LET of(rows, columns, most) ==
            {[cost |-> c, rows |-> rows, columns |-> columns] : c \in [1..rows -> [1..columns -> 0..most]]}
    IN  of(2, 2, 3) \union of(2, 3, 2) \union of(3, 2, 2) \union of(3, 3, 1) \union of(1, 4, 2)

-----------------------------------------------------------------------------
(* Raw frames of the dataset: some cameras, a pose, lanes, a control and an area, each of
   them right or wrong. *)

Reflection == <<<<1, 0, 0>>, <<0, 1, 0>>, <<0, 0, -1>>>>

SensorLists ==
    LET facing == <<<<1, 0, 0>>, <<0, 0, 1>>, <<0, -1, 0>>>>
        sensor(name, rotation, size, image) ==
            [name |-> name, rotation |-> rotation, translation |-> <<1, 0, 2>>, size |-> size,
             k |-> [f |-> 2, u |-> 1, v |-> 3], image |-> image]
        good(name) == sensor(name, facing, <<6, 4>>, TRUE)
    IN  {[k \in DOMAIN names |-> good(names[k])] :
         names \in {<<>>, <<"fa">>, <<"la">>, <<"la", "fa">>, <<"fb", "lb">>, <<"fb", "xb">>, <<"fa", "fb">>, <<"zz">>}}
        \union {<<sensor("fa", rotation, size, image)>> : rotation \in {facing, Reflection},
                size \in {None, <<3, 4>>}, image \in BOOLEAN}
        \union {<<sensor("fb", facing, None, TRUE)>>}

Annotations ==
    LET lane(id, n) == [id |-> id, points |-> [k \in 1..n |-> <<k, 4 - k, 0>>]]
        control(box) == [id |-> 1, box |-> box]
        area(category, n) == [id |-> 1, category |-> category, points |-> [k \in 1..n |-> <<k, k, 1>>]]
        zeros(rows, columns) == [i \in 1..rows |-> [j \in 1..columns |-> 0]]
        annotation(lanes, controls, areas, extra) ==
            [lanes |-> lanes, controls |-> controls, areas |-> areas,
             successor |-> [zeros(Len(lanes) + extra, Len(lanes)) EXCEPT ![1] = [@ EXCEPT ![1] = 1]],
             control |-> zeros(Len(lanes), Len(controls))]
    IN  {None} \union
        {annotation(lanes, controls, areas, extra) :
         lanes \in {<<lane(1, 2)>>, <<lane(1, 2), lane(2, 3)>>, <<lane(1, 2), lane(1, 2)>>, <<lane(1, 1)>>},
         controls \in {<<>>, <<control(<<1, 0, 3, 4>>)>>, <<control(<<1, 1, 1, 2>>)>>, <<control(<<4, 0, 7, 1>>)>>},
         areas \in {<<>>, <<area(1, 3)>>, <<area(1, 2)>>, <<area(2, 2)>>}, extra \in 0..1}

FrameKey == [segment |-> 1, timestamp |-> 1]

RawFrames ==
    LET identity == Geo!Unit3
        frame(source, identifier, sensors, pose, annotation) ==
            [source |-> source, segment |-> identifier[1], timestamp |-> identifier[2],
             sensors |-> sensors, pose |-> pose, annotation |-> annotation]
        turned == [r |-> <<<<0, 1, 0>>, <<-1, 0, 0>>, <<0, 0, 1>>>>, t |-> <<3, 1, 0>>]
    IN  {frame(source, <<1, 1>>, sensors, turned, annotation) :
         source \in {"One", "Two", "Three"}, sensors \in SensorLists, annotation \in Annotations}
        \union {frame("One", identifier, sensors, pose, None) :
                identifier \in {1, 2, None} \X {1, 2, None}, sensors \in SensorLists,
                pose \in {None, turned, [r |-> Reflection, t |-> <<0, 0, 0>>]}}

-----------------------------------------------------------------------------
(* Annotated frames and the queries their nodes are matched with. *)

Key == [name |-> "frame", sound |-> TRUE]
Sensor == [key |-> Key, world |-> "rotation",
           cameras |-> <<[slot |-> 1, pose |-> "rotation", affine |-> TRUE, valid |-> TRUE, image |-> TRUE]>>]

Annotated(successor, control, areas, fit) ==
    [lanes |-> [k \in DOMAIN successor |-> [id |-> 5 - k, fit |-> fit]],
     controls |-> [k \in DOMAIN control[1] |-> [id |-> k, box |-> [x0 |-> 0, x1 |-> 2, y0 |-> 0, y1 |-> 2]]],
     areas |-> [k \in 1..areas |-> [id |-> k, points |-> 3]],
     successor |-> successor, control |-> control]

Learnings ==
    LET matrices(rows, columns) == [1..rows -> [1..columns -> 0..1]]
    IN  {[frame |-> Annotated(s, a, areas, TRUE), lane |-> lane, control |-> control,
          area |-> [k \in 1..areas |-> k], geometry |-> geometry, noise |-> noise] :
         s \in matrices(2, 2), a \in matrices(2, 1), lane \in Topology!Matchings(2, 3),
         control \in Topology!Matchings(1, 2), areas \in 0..1, geometry \in {<<0, 0, 0>>, <<2, 1, 0>>},
         noise \in 0..1}
        \union
        {[frame |-> Annotated(s, a, 0, TRUE), lane |-> lane, control |-> control, area |-> <<>>,
          geometry |-> <<0, 1, 0>>, noise |-> 1] :
         s \in {<<<<0, 1, 0>>, <<0, 0, 1>>, <<1, 0, 0>>>>, <<<<0, 1, 1>>, <<0, 0, 0>>, <<0, 1, 0>>>>},
         a \in matrices(3, 2), lane \in Topology!Matchings(3, 3), control \in Topology!Matchings(2, 2)}
        \union
        {[frame |-> Annotated(<<<<0, 1>>, <<0, 0>>>>, <<<<1>>, <<0>>>>, areas, fit), lane |-> <<1, 2>>,
          control |-> <<1>>, area |-> [k \in 1..areas |-> k], geometry |-> <<0, 0, 0>>, noise |-> 0] :
         areas \in 0..2, fit \in BOOLEAN}

Grid == {[distance |-> d, heading |-> h] : d \in 0..1, h \in 0..1}

Fittings ==
    LET features == {[distance |-> d, heading |-> h] : d \in 0..2, h \in 0..1}
        lanes == (1..2) \X (1..2)
        rule(s, a, f, g) ==
            Annotated(s, a, 0, TRUE)
            @@ [successorFeature |-> [p \in lanes |-> IF p[1] < p[2] THEN f[1] ELSE f[2]],
                controlFeature |-> [p \in lanes |-> g[p]]]
        \* The features of two controls and two lanes, some of them none.
        seen == {[p \in lanes |-> IF p[1] = p[2] THEN h[1] ELSE IF p[1] = 1 THEN h[2] ELSE None] :
                 h \in [1..2 -> features \union {None}]}
    IN  {rule(s, a, f, g) : s \in {<<<<0, 1>>, <<0, 0>>>>, <<<<0, 0>>, <<1, 0>>>>, <<<<0, 1>>, <<1, 0>>>>},
         a \in {<<<<1, 0>>, <<0, 0>>>>, <<<<1, 1>>, <<0, 0>>>>, <<<<0, 1>>, <<1, 1>>>>},
         f \in [1..2 -> features], g \in seen}

-----------------------------------------------------------------------------
(* Evidence: up to three or four items, equal and unequal, in order of their ids or not. *)

BinaryPopulations ==
    UNION {{[k \in 1..n |-> [id |-> ids[k], p |-> p[k], outcome |-> o[k]]] :
            p \in [1..n -> IF n = 3 THEN {0, 2, 3} ELSE 0..4], o \in [1..n -> 0..1],
            ids \in {[k \in 1..n |-> k], [k \in 1..n |-> n - k]}} : n \in 1..3}

MulticlassPopulations ==
    UNION {{[k \in 1..n |-> [id |-> k, row |-> r[k], outcome |-> o[k]]] :
            r \in [1..n -> rows], o \in [1..n -> 1..2]} :
           <<n, rows>> \in {<<3, {<<4, 0, 0>>, <<1, 1, 2>>, <<2, 2, 0>>, <<0, 1, 3>>}>>,
                           <<4, {<<3, 1>>, <<2, 2>>}>>}}

Residuals ==
    {[k \in 1..2 |-> [residual |-> r[k], scale |-> s[k], factor |-> f]] :
     r \in [1..2 -> {-5, -4, 3, 4}], s \in [1..2 -> 1..2], f \in 1..2}

SampleLists ==
    UNION {[1..n -> [phase : {"infer", "decode"}, kind : {"warmup", "measured"}, iteration : 0..1,
                     ms : {1, 4}]] : n \in 0..3}
=============================================================================
