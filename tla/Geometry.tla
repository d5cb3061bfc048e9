-------------------------------- MODULE Geometry --------------------------------
(***************************************************************************)
(* The coordinate, image and curve conventions of V1, which exist twice:   *)
(* in Python (python/junctionlens/data/geometry.py, python/junctionlens/   *)
(* geometry) and in C++ (cpp/src/geometry).                                *)
(*                                                                         *)
(* Matrices, points and boxes are of integers: the rotations are the ones  *)
(* that map axes to axes, curves follow the axes, and a quotient is a pair *)
(* <<numerator, denominator>>.  Tolerances are zero.  A refusal is None.   *)
(***************************************************************************)
EXTENDS Integers, SequencesExt, FiniteSetsExt

CONSTANT None

Axes == 1..3
Plus(u, v) == [i \in DOMAIN u |-> u[i] + v[i]]
Minus(u, v) == [i \in DOMAIN u |-> u[i] - v[i]]
Times(k, v) == [i \in DOMAIN v |-> k * v[i]]
Dot(u, v) == u[1] * v[1] + u[2] * v[2] + u[3] * v[3]
Size(n) == IF n < 0 THEN -n ELSE n
Sum(s) == FoldLeft(+, 0, s)

-----------------------------------------------------------------------------
(* Rigid transforms. *)

Transposed(a) == [i \in Axes |-> [j \in Axes |-> a[j][i]]]
Apply(a, v) == [i \in Axes |-> Dot(a[i], v)]
Product(a, b) == [i \in Axes |-> [j \in Axes |-> Dot(a[i], Transposed(b)[j])]]
Determinant(a) ==
    a[1][1] * (a[2][2] * a[3][3] - a[2][3] * a[3][2])
    - a[1][2] * (a[2][1] * a[3][3] - a[2][3] * a[3][1])
    + a[1][3] * (a[2][1] * a[3][2] - a[2][2] * a[3][1])
Unit3 == [i \in Axes |-> [j \in Axes |-> IF i = j THEN 1 ELSE 0]]

\* rigid_transform: orthonormal and right handed.
RigidTransform(rotation, translation) ==
    IF Product(Transposed(rotation), rotation) = Unit3 /\ Determinant(rotation) = 1
    THEN [r |-> rotation, t |-> translation] ELSE None

Inverted(m) == [r |-> Transposed(m.r), t |-> Times(-1, Apply(Transposed(m.r), m.t))]
Composed(m, n) == [r |-> Product(m.r, n.r), t |-> Plus(Apply(m.r, n.t), m.t)]
TransformPoint(m, p) == Plus(Apply(m.r, p), m.t)

\* OPENLANE_TO_JUNCTIONLENS: from x right, y forward to x forward, y left.
Basis == [r |-> <<<<0, 1, 0>>, <<-1, 0, 0>>, <<0, 0, 1>>>>, t |-> <<0, 0, 0>>]

CameraToVehicle(rotation, translation) ==
    LET m == RigidTransform(rotation, translation) IN IF m = None THEN None ELSE Composed(Basis, m)

PoseToWorld(rotation, translation) ==
    LET m == RigidTransform(rotation, translation)
    IN  IF m = None THEN None ELSE Composed(Basis, Composed(m, Inverted(Basis)))

\* align_points_between_vehicle_frames.
Align(p, previous, current) == TransformPoint(Composed(Inverted(current), previous), p)

\* ego_motion_previous_to_current of the native preprocessing.
EgoMotion(previous, current) == Composed(Inverted(current), previous)

\* project_vehicle_points, with the intrinsic matrix of a focal length and a center: the
\* pixel as <<u * depth, v * depth, depth>>, if the point is in front of the camera.
Project(k, camera, p) ==
    LET c == TransformPoint(Inverted(camera), p)
    IN  IF c[3] > 0 THEN <<k.f * c[1] + k.u * c[3], k.f * c[2] + k.v * c[3], c[3]>> ELSE None

\* backproject_pixels_to_plane: the point as <<point * w, w>>.
Backproject(k, camera, pixel, plane) ==
    LET ray == Apply(camera.r, <<pixel[1] - k.u * pixel[3], pixel[2] - k.v * pixel[3], k.f * pixel[3]>>)
        height == plane - camera.t[3]
    IN  IF ray[3] = 0 \/ height * ray[3] <= 0 THEN None
        ELSE <<Plus(Times(ray[3], camera.t), Times(height, ray)), ray[3]>>

-----------------------------------------------------------------------------
(* Images and boxes <<u_min, v_min, u_max, v_max>>. *)

\* OpenLaneAdapter._letterbox_plan: floor(x + 0.5), clamped to the model's image.
Letterbox(w, h, model) ==
    LET scale == IF model.w * h <= model.h * w THEN <<model.w, w>> ELSE <<model.h, h>>
        fit(n, most) == Max({1, Min({most, (2 * n * scale[1] + scale[2]) \div (2 * scale[2])})})
        rw == fit(w, model.w)
        rh == fit(h, model.h)
    IN  [w |-> rw, h |-> rh, left |-> (model.w - rw) \div 2, top |-> (model.h - rh) \div 2]

\* Seeded bug: the rest of a division is dropped.
NativeLetterboxTruncated(w, h, model) ==
    LET wide == model.w * h <= model.h * w
        rw == IF wide THEN model.w ELSE Max({1, (w * model.h) \div h})
        rh == IF wide THEN Max({1, (h * model.w) \div w}) ELSE model.h
    IN  [w |-> rw, h |-> rh, left |-> (model.w - rw) \div 2, top |-> (model.h - rh) \div 2]

\* ComputeLetterbox: lround, half away from zero, and clamp.
NativeLetterbox(w, h, model) ==
    LET ratios == {<<model.w, w>>, <<model.h, h>>}
        scale == CHOOSE s \in ratios : \A t \in ratios : s[1] * t[2] <= t[1] * s[2]
        round(n, d) == n \div d + (IF 2 * (n % d) >= d THEN 1 ELSE 0)
        clamp(n, most) == IF n < 1 THEN 1 ELSE IF n > most THEN most ELSE n
        rw == clamp(round(w * scale[1], scale[2]), model.w)
        rh == clamp(round(h * scale[1], scale[2]), model.h)
    IN  [w |-> rw, h |-> rh, left |-> (model.w - rw) \div 2, top |-> (model.h - rh) \div 2]

\* image_transform: resize, then crop, then pad; of quotients over the size of the source.
ImageTransform(plan, w, h) == [x |-> <<plan.w, w, plan.left>>, y |-> <<plan.h, h, plan.top>>]

\* _fill_camera: the plan, found again from the transform.
PlanOf(transform, w, h) ==
    LET round(n, d) == (2 * n + d) \div (2 * d)
    IN  [w |-> Max({1, round(w * transform.x[1], transform.x[2])}),
         h |-> Max({1, round(h * transform.y[1], transform.y[2])}),
         left |-> Max({0, transform.x[3]}), top |-> Max({0, transform.y[3]})]

\* transform_box, under <<scale_x, scale_y, offset_x, offset_y>>.
TransformBox(b, m) ==
    LET corners == {<<m[1] * b[i] + m[3], m[2] * b[j] + m[4]>> : <<i, j>> \in {1, 3} \X {2, 4}}
        us == {c[1] : c \in corners}
        vs == {c[2] : c \in corners}
    IN  IF b[1] > b[3] \/ b[2] > b[4] THEN None ELSE <<Min(us), Min(vs), Max(us), Max(vs)>>

\* TransformBox of the native library: one corner after the other.
NativeTransformBox(b, m) ==
    LET corners == <<<<b[1], b[2]>>, <<b[1], b[4]>>, <<b[3], b[2]>>, <<b[3], b[4]>>>>
        wider(box, c) ==
            LET u == m[1] * c[1] + m[3]
                v == m[2] * c[2] + m[4]
            IN  IF box = <<>> THEN <<u, v, u, v>>
                ELSE <<Min({box[1], u}), Min({box[2], v}), Max({box[3], u}), Max({box[4], v})>>
    IN  IF b[1] > b[3] \/ b[2] > b[4] THEN None ELSE FoldLeft(wider, <<>>, corners)

\* normalize_half_open_box: each coordinate over the width or the height.
Normalize(b, w, h) ==
    IF w > 0 /\ h > 0 /\ 0 <= b[1] /\ b[1] <= b[3] /\ b[3] <= w /\ 0 <= b[2] /\ b[2] <= b[4] /\ b[4] <= h
    THEN <<<<b[1], w>>, <<b[2], h>>, <<b[3], w>>, <<b[4], h>>>> ELSE None

\* denormalize_half_open_box: coordinates again, each a quotient.
Denormalize(n, w, h) ==
    IF \A i \in 1..4 : 0 <= n[i][1] /\ n[i][1] <= n[i][2]
    THEN [i \in 1..4 |-> <<n[i][1] * (IF i \in {1, 3} THEN w ELSE h), n[i][2]>>] ELSE None

\* half_open_iou.
Iou(a, b) ==
    LET inside(i, j) == Max({0, Min({a[j], b[j]}) - Max({a[i], b[i]})})
        area(c) == (c[3] - c[1]) * (c[4] - c[2])
        intersection == inside(1, 3) * inside(2, 4)
        union == area(a) + area(b) - intersection
    IN  IF union > 0 THEN <<intersection, union>> ELSE <<0, 1>>

-----------------------------------------------------------------------------
(* Curves along the axes. *)

Lengths(p) == [k \in 1..(Len(p) - 1) |-> Sum([i \in DOMAIN p[k] |-> Size(p[k + 1][i] - p[k][i])])]
Cumulative(p) == [k \in DOMAIN p |-> Sum(SubSeq(Lengths(p), 1, k - 1))]

\* The point at distance d on segment k.
On(p, k, d) ==
    LET length == Lengths(p)[k]
        along == Max({0, Min({length, d - Cumulative(p)[k]})})
    IN  Plus(p[k], [i \in DOMAIN p[k] |-> ((p[k + 1][i] - p[k][i]) * along) \div length])

\* The first segment from k on that does not end before d.
Advance(p, k, d) ==
    IF k > Len(p) - 1 THEN k
    ELSE Min({j \in k..(Len(p) - 1) : j = Len(p) - 1 \/ d <= Cumulative(p)[j + 1]})

\* The first segment from k on with a length.
Lasting(p, k) == {j \in k..(Len(p) - 1) : Lengths(p)[j] > 0}

\* Samples of a curve (stretched so that distances are integers), by a step that finds
\* the next sample from the segment of the last.
Sampled(points, n, step(_, _, _)) ==
    LET p == [k \in DOMAIN points |-> Times(n - 1, points[k])]
        total == Sum(Lengths(points))
        all == FoldLeft(LAMBDA s, i : step(p, s, (i - 1) * total), [segment |-> 1, samples |-> <<>>],
                        [i \in 1..n |-> i])
    IN  IF total = 0 THEN None
        ELSE [all.samples EXCEPT ![1] = p[1], ![n] = p[Len(p)]]

\* resample_polyline: the segment stays where it is when only empty ones are left.
Resample(points, n) ==
    Sampled(points, n, LAMBDA p, s, d :
        LET at == Advance(p, s.segment, d)
            on == Lasting(p, at)
        IN  IF on = {} THEN [segment |-> at, samples |-> Append(s.samples, p[Len(p)])]
            ELSE [segment |-> Min(on), samples |-> Append(s.samples, On(p, Min(on), d))])

\* ResamplePolyline: it moves behind them.
NativeResample(points, n) ==
    Sampled(points, n, LAMBDA p, s, d :
        LET at == Min(Lasting(p, Advance(p, s.segment, d)) \union {Len(p)})
        IN  [segment |-> at,
             samples |-> Append(s.samples, IF at = Len(p) THEN p[Len(p)] ELSE On(p, at, d))])

\* _resample_curve of model/e0_data.py: the points that advance, interpolated.
TargetResample(points, n) ==
    Sampled(points, n, LAMBDA p, s, d :
        LET kept == {k \in DOMAIN p : k = 1 \/ Lengths(p)[k - 1] > 0}
            before == Max({k \in kept : Cumulative(p)[k] <= d})
            after == {k \in kept : k > before}
        IN  [segment |-> s.segment,
             samples |-> Append(s.samples, IF after = {} THEN p[before]
                                           ELSE On(<<p[before], p[Min(after)]>>, 1, d - Cumulative(p)[before]))])

\* The distance of two points on one line, or its square.
Apart(p, q) == LET d == Minus(p, q) IN Dot(d, d)

\* discrete_frechet_distance, of squares.
Frechet(first, second) ==
    LET d[i \in DOMAIN first, j \in DOMAIN second] ==
            LET here == Apart(first[i], second[j])
            IN  IF i = 1 /\ j = 1 THEN here
                ELSE IF i = 1 THEN Max({here, d[i, j - 1]})
                ELSE IF j = 1 THEN Max({here, d[i - 1, j]})
                ELSE Max({here, Min({d[i - 1, j], d[i - 1, j - 1], d[i, j - 1]})})
    IN  d[Len(first), Len(second)]

\* ChamferDistance, of squares: the quotient of the two means.
Chamfer(first, second) ==
    LET nearest(p, s) == Min({Apart(p, q) : q \in ToSet(s)})
        left == Sum([i \in DOMAIN first |-> nearest(first[i], second)])
        right == Sum([j \in DOMAIN second |-> nearest(second[j], first)])
    IN  <<left * Len(second) + right * Len(first), 2 * Len(first) * Len(second)>>

\* EndpointTangent: of the first segment from the end, or from the start, with a length.
Tangent(p, fromEnd) ==
    LET some == Lasting(p, 1)
        k == IF fromEnd THEN Max(some) ELSE Min(some)
    IN  IF some = {} THEN None
        ELSE [i \in DOMAIN p[k] |-> (p[k + 1][i] - p[k][i]) \div Lengths(p)[k]]

Features(leaving, entering, displacement) ==
    LET same == \A i \in DOMAIN displacement : displacement[i] = 0
        direction == IF same THEN leaving ELSE displacement
    IN  IF None \in {leaving, entering} THEN None
        ELSE [displacement |-> displacement, tangent |-> Dot(leaving, entering),
              source |-> Dot(leaving, direction), target |-> Dot(entering, direction)]

\* ComputeEndpointFeatures: the cosines with the direction are of the length forward.
EndpointFeatures(source, target) ==
    Features(Tangent(source, TRUE), Tangent(target, FALSE), Minus(target[1], source[Len(source)]))

\* validate_lane_boundary_orientation.
Oriented(center, left, right) ==
    /\ Len(center) >= 2 /\ Len(center) = Len(left) /\ Len(center) = Len(right)
    /\ \A k \in 1..(Len(center) - 1) :
         LET along == Minus(center[k + 1], center[k])
             offset(side) == Minus(Plus(side[k], side[k + 1]), Plus(center[k], center[k + 1]))
             cross(v) == along[1] * v[2] - along[2] * v[1]
         IN  (along[1] # 0 \/ along[2] # 0) /\ cross(offset(left)) > 0 /\ cross(offset(right)) < 0

-----------------------------------------------------------------------------
(* The rectangular assignment of least cost, by shortest augmenting paths. *)

Infinite == 10000

\* One step of a search: the column reached is used, the others come nearer, and the
\* nearest is next, the first of several.
SearchStep(cost, columns, s) ==
    LET used == s.used \union {s.at}
        active == s.owner[s.at]
        reduced(c) == cost[active][c] - s.row[active] - s.column[c]
        better(c) == c \notin used /\ reduced(c) < s.minimum[c]
        minimum == [c \in 0..columns |-> IF better(c) THEN reduced(c) ELSE s.minimum[c]]
        delta == Min({minimum[c] : c \in (0..columns) \ used})
        next == Min({c \in (0..columns) \ used : minimum[c] = delta})
    IN  [s EXCEPT !.used = used, !.at = next, !.done = s.owner[next] = 0,
                  !.from = [c \in 0..columns |-> IF better(c) THEN s.at ELSE @[c]],
                  !.row = [r \in DOMAIN @ |-> IF \E c \in used : s.owner[c] = r THEN @[r] + delta ELSE @[r]],
                  !.column = [c \in 0..columns |-> IF c \in used THEN @[c] - delta ELSE @[c]],
                  !.minimum = [c \in 0..columns |-> IF c \in used THEN minimum[c] ELSE minimum[c] - delta]]

\* The columns between the start of a search and the column c.
Path(s, c) ==
    LET path[d \in DOMAIN s.from] == IF d = 0 THEN {} ELSE {d} \union path[s.from[d]] IN path[c]

\* One row is assigned: every column on the path takes the row of its predecessor.
AssignRow(cost, columns, s, row) ==
    LET start == [s EXCEPT !.owner[0] = row, !.at = 0, !.done = FALSE, !.used = {},
                           !.from = [c \in 0..columns |-> 0],
                           !.minimum = [c \in 0..columns |-> Infinite]]
        found == FoldLeft(LAMBDA t, k : IF t.done THEN t ELSE SearchStep(cost, columns, t), start,
                          [k \in 1..columns |-> k])
    IN  [found EXCEPT !.owner = [c \in 0..columns |->
            IF c \in Path(found, found.at) THEN @[found.from[c]] ELSE @[c]]]

\* RowsToColumns: the pairs of a row and its column.
RowsToColumns(cost, rows, columns) ==
    LET none == [c \in 0..columns |-> 0]
        start == [row |-> [r \in 0..rows |-> 0], column |-> none, owner |-> none, from |-> none,
                  minimum |-> none, used |-> {}, at |-> 0, done |-> FALSE]
        owner == FoldLeft(LAMBDA s, row : AssignRow(cost, columns, s, row), start, [r \in 1..rows |-> r]).owner
    IN  {<<owner[c], c>> : c \in {d \in 1..columns : owner[d] # 0}}

\* DeterministicHungarian.
Hungarian(cost, rows, columns) ==
    IF rows = 0 \/ columns = 0 THEN {}
    ELSE IF rows <= columns THEN RowsToColumns(cost, rows, columns)
    ELSE LET swapped == [c \in 1..columns |-> [r \in 1..rows |-> cost[r][c]]]
         IN  {<<pair[2], pair[1]>> : pair \in RowsToColumns(swapped, columns, rows)}

-----------------------------------------------------------------------------
(***************************************************************************)
(* What the conventions promise.                                           *)
(***************************************************************************)

\* Exactly the matrices that keep lengths, angles and handedness are accepted.
RigidIsAMotion(a) ==
    LET e == Unit3
        cross(u, v) == <<u[2] * v[3] - u[3] * v[2], u[3] * v[1] - u[1] * v[3], u[1] * v[2] - u[2] * v[1]>>
        motion == \A i, j \in Axes : /\ Dot(Apply(a, e[i]), Apply(a, e[j])) = Dot(e[i], e[j])
                                     /\ cross(Apply(a, e[i]), Apply(a, e[j])) = Apply(a, cross(e[i], e[j]))
    IN  (RigidTransform(a, <<0, 0, 0>>) # None) <=> motion

\* Poses compose and invert; a change of basis changes nothing that is seen; a point on a
\* plane is found again from its pixel, unless the camera is in the plane.
FramesAgree(a, b, p, k) ==
    LET m == RigidTransform(a.r, a.t)
        n == RigidTransform(b.r, b.t)
        q == TransformPoint(Basis, p)
        pixel == Project(k, m, p)
    IN  /\ Composed(Inverted(m), m) = RigidTransform(Unit3, <<0, 0, 0>>)
        /\ TransformPoint(Composed(m, n), p) = TransformPoint(m, TransformPoint(n, p))
        /\ TransformPoint(n, Align(p, m, n)) = TransformPoint(m, p)
        /\ Align(p, m, n) = TransformPoint(EgoMotion(m, n), p)
        /\ TransformPoint(PoseToWorld(a.r, a.t), q) = TransformPoint(Basis, TransformPoint(m, p))
        /\ Project(k, CameraToVehicle(a.r, a.t), q) = pixel
        /\ pixel # None /\ p[3] # m.t[3] =>
             LET back == Backproject(k, m, pixel, p[3])
             IN  back # None /\ back[1] = Times(back[2], p)

\* A box is the set of its pixels, half open, in both libraries and under every transform.
BoxesArePixels(a, b, m, w, h) ==
    LET pixels(c) == {<<x, y>> \in (0..w) \X (0..h) : c[1] <= x /\ x < c[3] /\ c[2] <= y /\ y < c[4]}
        both == Cardinality(pixels(a) \intersect pixels(b))
        either == Cardinality(pixels(a) \union pixels(b))
        iou == Iou(a, b)
        moved == Iou(TransformBox(a, m), TransformBox(b, m))
        n == Normalize(a, w, h)
    IN  /\ TransformBox(a, m) = NativeTransformBox(a, m)
        /\ iou = IF either = 0 THEN <<0, 1>> ELSE <<both, either>>
        /\ moved[1] * iou[2] = iou[1] * moved[2]
        /\ n # None /\ \A i \in 1..4 : Denormalize(n, w, h)[i][1] = a[i] * Denormalize(n, w, h)[i][2]

\* The Python and the native letterbox are one: inside the model's image, filling it one
\* way, centered, of the source's shape to half a pixel, and found again from the transform.
LetterboxesAgree(w, h, model) ==
    LET plan == Letterbox(w, h, model)
    IN  /\ plan = NativeLetterbox(w, h, model)
        /\ plan.w \in 1..model.w /\ plan.h \in 1..model.h
        /\ plan.w = model.w \/ plan.h = model.h
        /\ (model.w - plan.w - 2 * plan.left) \in 0..1 /\ (model.h - plan.h - 2 * plan.top) \in 0..1
        /\ plan.w > 1 /\ plan.h > 1 => Size(2 * (plan.w * h - plan.h * w)) <= Max({w, h})
        /\ PlanOf(ImageTransform(plan, w, h), w, h) = plan

\* The three ways to resample a curve find the points at equal distances along it.
ResamplesAgree(p, n) ==
    LET samples == Resample(p, n)
        stretched == [k \in DOMAIN p |-> Times(n - 1, p[k])]
        total == Sum(Lengths(p))
        at(d, q) == \E k \in Lasting(stretched, 1) :
                       /\ Cumulative(stretched)[k] <= d /\ d <= Cumulative(stretched)[k + 1]
                       /\ q = On(stretched, k, d)
    IN  /\ NativeResample(p, n) = samples /\ TargetResample(p, n) = samples
        /\ (samples = None) <=> (\A k \in DOMAIN p : p[k] = p[1])
        /\ samples # None => Len(samples) = n /\ \A i \in 1..n : at((i - 1) * total, samples[i])

\* The discrete Frechet distance is the least leash of a walk along both curves, and the
\* Chamfer distance is no longer.
DistancesAgree(p, q) ==
    LET walks[i \in DOMAIN p, j \in DOMAIN q] ==
            IF i = 1 /\ j = 1 THEN {{<<1, 1>>}}
            ELSE {w \union {<<i, j>>} : w \in UNION {walks[c[1], c[2]] :
                    c \in {<<i - 1, j>>, <<i, j - 1>>, <<i - 1, j - 1>>} \intersect ((DOMAIN p) \X (DOMAIN q))}}
        leash(w) == Max({Apart(p[c[1]], q[c[2]]) : c \in w})
        chamfer == Chamfer(p, q)
    IN  /\ Frechet(p, q) = Min({leash(w) : w \in walks[Len(p), Len(q)]})
        /\ chamfer[1] <= Frechet(p, q) * chamfer[2]
        /\ chamfer = LET back == Chamfer(q, p) IN <<back[1], back[2]>>

\* The features of two lanes driven backwards are those of the lanes, seen from behind.
FeaturesReverse(p, q, forward) ==
    \A backward \in {EndpointFeatures(Reverse(q), Reverse(p))} :
        IF forward = None THEN backward = None
        ELSE /\ backward.displacement = Times(-1, forward.displacement)
             /\ backward.tangent = forward.tangent
             /\ p[Len(p)] # q[1] => backward.source = forward.target /\ backward.target = forward.source

\* A lane with sides is a lane driven backwards with its sides exchanged, and never the
\* same lane with its sides exchanged.
OrientationIsOfTravel(center, left, right) ==
    Oriented(center, left, right) =>
        /\ ~Oriented(center, right, left)
        /\ Oriented(Reverse(center), Reverse(right), Reverse(left))

\* The assignment gives every row, or every column, a partner of its own, at least cost.
AssignmentIsOptimal(cost, rows, columns) ==
    LET pairs == Hungarian(cost, rows, columns)
        price(f) == Sum([k \in DOMAIN f |-> cost[f[k][1]][f[k][2]]])
        least == Min({rows, columns})
        matchings == {[k \in 1..least |-> IF rows <= columns THEN <<k, g[k]>> ELSE <<g[k], k>>] :
                      g \in {f \in [1..least -> 1..Max({rows, columns})] : IsInjective(f)}}
    IN  \E m \in matchings : pairs = ToSet(m) /\ \A o \in matchings : price(m) <= price(o)
=============================================================================
