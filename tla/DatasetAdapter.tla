----------------------------- MODULE DatasetAdapter -----------------------------
(***************************************************************************)
(* The OpenLane-V2 adapter (python/junctionlens/data/openlane.py): one raw *)
(* frame becomes a frame in the axes, camera slots and boxes of V1, or is  *)
(* refused.  data/parity.py takes the frame back to the source and         *)
(* compares it with what the official devkit reads.                        *)
(*                                                                         *)
(* A raw frame is a record: its sensors in order, a pose, and annotations. *)
(* A number that is only tested to be finite is left out.                  *)
(***************************************************************************)
EXTENDS Geometry

CONSTANTS
    Mapping,    \* source_camera_mappings: domain -> (source camera -> slot)
    Pinned,     \* source_image_dimensions: domain -> (source camera -> <<width, height>>)
    Prefix,     \* the domain the prefix of a camera's name tells
    Alias,      \* _domain_key: source name -> domain
    Slots,      \* the slots are 1..Slots, the first is FRONT_CENTER
    Model       \* the model's image [w, h]

FrontCenter == 1

Distinct(s) == \A i, j \in DOMAIN s : s[i] = s[j] => i = j

\* _domain_mapping: of the domain, or else of the prefix all cameras share.
DomainMapping(domain, cameras) ==
    LET shared == {d \in DOMAIN Mapping : \A c \in cameras : Prefix[c] = d}
    IN  IF domain \in DOMAIN Mapping THEN Mapping[domain]
        ELSE IF shared = {} THEN None ELSE Mapping[CHOOSE d \in shared : TRUE]

\* _source_dimensions: declared, or pinned for the domain.
Dimensions(domain, sensor) ==
    IF sensor.size # None THEN sensor.size
    ELSE IF domain \in DOMAIN Pinned /\ sensor.name \in DOMAIN Pinned[domain]
    THEN Pinned[domain][sensor.name] ELSE None

\* One sensor as the camera of a slot.
Camera(domain, sensor) ==
    LET size == Dimensions(domain, sensor)
        pose == CameraToVehicle(sensor.rotation, sensor.translation)
    IN  IF size = None \/ pose = None \/ ~sensor.image THEN None
        ELSE [valid |-> TRUE, source |-> sensor.name, size |-> size, k |-> sensor.k, pose |-> pose,
              transform |-> ImageTransform(Letterbox(size[1], size[2], Model), size[1], size[2])]

NoCamera ==
    [valid |-> FALSE, source |-> None, size |-> <<0, 0>>, k |-> [f |-> 1, u |-> 0, v |-> 0],
     pose |-> [r |-> Unit3, t |-> <<0, 0, 0>>], transform |-> [x |-> <<1, 1, 0>>, y |-> <<1, 1, 0>>]]

\* Seeded bug: of two cameras of a slot the last one wins.
CamerasLastWins(m) ==
    LET domain == Alias[m.source]
        mapping == DomainMapping(domain, {m.sensors[k].name : k \in DOMAIN m.sensors})
        at(slot) == {k \in DOMAIN m.sensors : mapping[m.sensors[k].name] = slot}
    IN  IF mapping = None THEN None
        ELSE IF \E k \in DOMAIN m.sensors : \/ m.sensors[k].name \notin DOMAIN mapping
                                            \/ Camera(domain, m.sensors[k]) = None THEN None
        ELSE [slot \in 1..Slots |-> IF at(slot) = {} THEN NoCamera ELSE Camera(domain, m.sensors[Max(at(slot))])]

\* _adapt_cameras: every source camera has a slot of its own, and every slot a camera.
Cameras(m) ==
    LET domain == Alias[m.source]
        mapping == DomainMapping(domain, {m.sensors[k].name : k \in DOMAIN m.sensors})
        slots == [k \in DOMAIN m.sensors |-> mapping[m.sensors[k].name]]
        at(slot) == CHOOSE k \in DOMAIN m.sensors : slots[k] = slot
    IN  IF mapping = None THEN None
        ELSE IF \E k \in DOMAIN m.sensors : \/ m.sensors[k].name \notin DOMAIN mapping
                                            \/ Camera(domain, m.sensors[k]) = None THEN None
        ELSE IF ~Distinct(slots) THEN None
        ELSE [slot \in 1..Slots |-> IF \E k \in DOMAIN slots : slots[k] = slot
                                    THEN Camera(domain, m.sensors[at(slot)]) ELSE NoCamera]

\* _adapt_pose: a frame without a pose gets the identity, and is marked.
Pose(m) ==
    IF m.pose = None THEN [valid |-> FALSE, world |-> [r |-> Unit3, t |-> <<0, 0, 0>>]]
    ELSE [valid |-> TRUE, world |-> PoseToWorld(m.pose.r, m.pose.t)]

\* _point3_tuple: the points in the axes of V1, so many at least.
Points(points, least) ==
    IF Len(points) < least THEN None ELSE [k \in DOMAIN points |-> TransformPoint(Basis, points[k])]

\* _topology: a matrix of rows and columns.
TopologyOk(matrix, rows, columns) ==
    Len(matrix) = rows /\ \A k \in DOMAIN matrix : Len(matrix[k]) = columns

\* _adapt_lane.
AdaptLane(lane) == [id |-> lane.id, points |-> Points(lane.points, 2)]

\* _adapt_control: a box with an area, inside the image of the front camera.
AdaptControl(control, front) ==
    LET b == control.box
    IN  [id |-> control.id, camera |-> FrontCenter, box |-> b,
         normalized |-> IF b[3] <= b[1] \/ b[4] <= b[2] THEN None
                        ELSE Normalize(b, front.size[1], front.size[2])]

\* _adapt_area: a crossing is a polygon, a boundary a line.
AdaptArea(area) ==
    [id |-> area.id, category |-> area.category, points |-> Points(area.points, IF area.category = 1 THEN 3 ELSE 2)]

\* _adapt_annotations, or None.
Annotations(a, cameras) ==
    LET front == cameras[FrontCenter]
        lanes == [k \in DOMAIN a.lanes |-> AdaptLane(a.lanes[k])]
        controls == [k \in DOMAIN a.controls |-> AdaptControl(a.controls[k], front)]
        areas == [k \in DOMAIN a.areas |-> AdaptArea(a.areas[k])]
        ids(s) == [k \in DOMAIN s |-> s[k].id]
    IN  IF /\ controls # <<>> => front.valid
           /\ \A k \in DOMAIN lanes : lanes[k].points # None
           /\ \A k \in DOMAIN controls : controls[k].normalized # None
           /\ \A k \in DOMAIN areas : areas[k].points # None
           /\ Distinct(ids(lanes)) /\ Distinct(ids(controls)) /\ Distinct(ids(areas))
           /\ TopologyOk(a.successor, Len(lanes), Len(lanes))
           /\ TopologyOk(a.control, Len(lanes), Len(controls))
        THEN [lanes |-> lanes, controls |-> controls, areas |-> areas,
              successor |-> a.successor, control |-> a.control]
        ELSE None

NoAnnotations == [lanes |-> <<>>, controls |-> <<>>, areas |-> <<>>, successor |-> <<>>, control |-> <<>>]

\* load_frame: the frame the manifest names, or None.
LoadFrame(key, m) ==
    LET cameras == Cameras(m)
        pose == Pose(m)
        annotations == IF m.annotation = None THEN NoAnnotations ELSE Annotations(m.annotation, cameras)
    IN  IF ~(m.segment \in {None, key.segment} /\ m.timestamp \in {None, key.timestamp}) THEN None
        ELSE IF cameras = None THEN None
        ELSE IF pose.world = None \/ annotations = None THEN None
        ELSE [key |-> key,
              calibration |-> [slot \in 1..Slots |-> <<cameras[slot].valid, cameras[slot].k, cameras[slot].pose>>],
              source |-> m.source, domain |-> Alias[m.source], cameras |-> cameras,
              pose |-> pose.world, posed |-> pose.valid, annotated |-> m.annotation # None]
             @@ annotations

\* model_camera_inputs: per slot, whether there is an image, the letterbox it went through
\* and the intrinsic matrix that goes with it (scale, focal length and centers over the size).
ModelInputs(frame) ==
    [slot \in 1..Slots |->
        LET c == frame.cameras[slot]
        IN  IF ~c.valid THEN None
            ELSE [plan |-> Letterbox(c.size[1], c.size[2], Model), pose |-> c.pose,
                  x |-> <<c.transform.x[1] * c.k.f, c.transform.x[1] * c.k.u + c.transform.x[3] * c.size[1], c.size[1]>>,
                  y |-> <<c.transform.y[1] * c.k.f, c.transform.y[1] * c.k.v + c.transform.y[3] * c.size[2], c.size[2]>>]]

\* sensor_frame of model/evaluation_graphs.py: the canonical cameras, the plan read off the
\* transform.
SensorFrame(frame) ==
    [slot \in 1..Slots |->
        LET c == frame.cameras[slot]
        IN  [slot |-> slot, valid |-> c.valid, image |-> c.valid, pose |-> c.pose,
             plan |-> PlanOf(c.transform, c.size[1], c.size[2])]]

-----------------------------------------------------------------------------
(* Parity with the official devkit. *)

Back(points) == [k \in DOMAIN points |-> TransformPoint(Inverted(Basis), points[k])]

\* adapted_source_projection.
SourceProjection(frame) ==
    LET valid == {slot \in 1..Slots : frame.cameras[slot].valid}
        pose == Composed(Inverted(Basis), Composed(frame.pose, Basis))
    IN  [identifier |-> frame.key, source |-> frame.source,
         cameras |-> {LET c == frame.cameras[slot]
                      IN  [name |-> c.source, k |-> c.k, extrinsic |-> Composed(Inverted(Basis), c.pose)] :
                      slot \in valid},
         pose |-> pose,
         annotation |->
            IF ~frame.annotated THEN None
            ELSE [lanes |-> [k \in DOMAIN frame.lanes |->
                                [id |-> frame.lanes[k].id, points |-> Back(frame.lanes[k].points)]],
                  controls |-> [k \in DOMAIN frame.controls |->
                                [id |-> frame.controls[k].id, box |-> frame.controls[k].box]],
                  areas |-> [k \in DOMAIN frame.areas |->
                                [id |-> frame.areas[k].id, category |-> frame.areas[k].category,
                                 points |-> Back(frame.areas[k].points)]],
                  successor |-> frame.successor, control |-> frame.control]]

\* The projection of the official devkit (containers/adapter_parity_runner.py), or None: a
\* frame it reads has a segment, a timestamp and a pose.
OfficialProjection(key, m) ==
    IF None \in {m.segment, m.timestamp} \/ m.pose = None THEN None
    ELSE [identifier |-> key, source |-> m.source,
          cameras |-> {[name |-> m.sensors[k].name, k |-> m.sensors[k].k,
                        extrinsic |-> [r |-> m.sensors[k].rotation, t |-> m.sensors[k].translation]] :
                       k \in DOMAIN m.sensors},
          pose |-> m.pose, annotation |-> m.annotation]

-----------------------------------------------------------------------------
(***************************************************************************)
(* What the adapter promises.                                              *)
(***************************************************************************)

\* A frame it accepts is, seen from the source, what the devkit reads: nothing is lost,
\* moved or renamed on the way.
ParityHolds(key, m, frame) ==
    LET official == OfficialProjection(key, m)
    IN  frame # None /\ official # None => SourceProjection(frame) = official

\* A point of a lane is seen by a camera where the source saw it; the box of a control is
\* that part of the front image; and what goes to the model and into the contract is in the
\* order of the slots and of one letterbox.
ViewsAgree(m, frame) ==
    LET slotOf(sensor) == CHOOSE slot \in 1..Slots : frame.cameras[slot].source = sensor.name
    IN  frame # None =>
          /\ \A s \in ToSet(m.sensors) :
               LET c == frame.cameras[slotOf(s)]
                   seen == RigidTransform(s.rotation, s.translation)
               IN  \A k \in DOMAIN frame.lanes : \A j \in DOMAIN frame.lanes[k].points :
                     Project(c.k, c.pose, frame.lanes[k].points[j])
                       = Project(s.k, seen, m.annotation.lanes[k].points[j])
          /\ \A k \in DOMAIN frame.controls :
               LET front == frame.cameras[frame.controls[k].camera]
                   pixels == Denormalize(frame.controls[k].normalized, front.size[1], front.size[2])
               IN  front.valid /\ \A i \in 1..4 : pixels[i][1] = m.annotation.controls[k].box[i] * pixels[i][2]
          /\ \A slot \in 1..Slots :
               LET c == SensorFrame(frame)[slot]
                   input == ModelInputs(frame)[slot]
               IN  /\ c.valid <=> input # None
                   /\ c.valid => input.plan = c.plan /\ input.pose = c.pose
                   /\ c.valid <=> \E s \in ToSet(m.sensors) : frame.cameras[slot].source = s.name
=============================================================================
