-------------------------- MODULE EvidencePublication --------------------------
(***************************************************************************)
(* What leaves the registry: the artifacts a comparison puts into it       *)
(* (gate/comparison.py), the integrity-checked reads of the evidence       *)
(* service (api/repository.py, api/app.py), and the evidence bundle of     *)
(* `junctionlens report` (report/export.py, cli/report.py).                *)
(*                                                                         *)
(* A registry is a function from manifests to what is known of them: the   *)
(* row of the index, the manifest, the payload by its content.             *)
(***************************************************************************)
EXTENDS Integers, SequencesExt, FiniteSetsExt

CONSTANTS
    Batch,        \* rows of a Parquet batch at most, 1024
    OwnLimit,     \* the sizes that readers of one kind of payload allow, ...
    ServiceLimit, \* ... and max_artifact_bytes, the limit of whoever downloads anything
    Derived,      \* the license of everything a comparison derives
    None

Tables == {"comparison", "frame_kpi_table", "segment_kpi_table", "slice_table", "benchmark"}
ImageMedia == {"image/jpeg", "image/png", "image/webp"}

-----------------------------------------------------------------------------
(***************************************************************************)
(* What a comparison registers.                                            *)
(***************************************************************************)

Artifact(kind, media, license, parents, payload) ==
    [kind |-> kind, media |-> media, license |-> license, parents |-> parents, payload |-> payload,
     size |-> OwnLimit, indexed |-> TRUE, sound |-> TRUE]

\* Why a decision is not a PASS, as run_comparison and the report command both collect it.
ReasonCodes(decision) ==
    decision.reasons \union {c.reason : c \in {x \in ToSet(decision.cells) : x.status # "PASS"}}

\* run_comparison, from its decision on: five artifacts, each a child of those before it that
\* it was made from.  The arms are 1 and 2.
RunComparison(store, decision, rows) ==
    LET slices == Artifact("slice_table", "parquet", Derived, {1, 2}, [type |-> "table", rows |-> rows])
        evidence == Artifact("comparison", "gate-evidence", Derived, {1, 2, 3}, [type |-> "evidence"])
        decided == Artifact("release_decision", "gate-decision", Derived, {4}, decision)
        metrics == Artifact("comparison", "parquet", Derived, {5},
                            [type |-> "table", rows |-> Len(decision.cells)])
        report == Artifact("comparison", "report-data", Derived, {5, 6, 3},
            [type |-> "report", status |-> decision.status, cells |-> decision.cells,
             hypotheses |-> decision.hypotheses, reasons |-> ReasonCodes(decision),
             decision |-> 5, metrics |-> 6, slices |-> 3])
    IN  (3 :> slices) @@ (4 :> evidence) @@ (5 :> decided) @@ (6 :> metrics) @@ (7 :> report) @@ store

-----------------------------------------------------------------------------
(***************************************************************************)
(* EvidenceRepository.  A read that raises gives None.                     *)
(***************************************************************************)

\* artifact: the row of the index, whose manifest and payload are hashed again.
Found(store, i) == i \in DOMAIN store /\ store[i].indexed
Read(store, i) == IF Found(store, i) /\ store[i].sound THEN store[i] ELSE None

\* open_payload: the bytes that were hashed, within the limit of the reader.
OpenPayload(store, i, limit) ==
    LET a == Read(store, i) IN IF a = None \/ a.size > limit THEN None ELSE a.payload

\* decision: kind, media type, version and its own hash.
DecisionOf(store, i) ==
    LET a == Read(store, i)
    IN  IF \/ a = None \/ OpenPayload(store, i, OwnLimit) = None
           \/ a.kind # "release_decision" \/ a.media # "gate-decision" \/ a.payload.type # "decision"
        THEN None
        ELSE IF a.payload.identified THEN a.payload ELSE None

\* image_payload: its bytes are of the registered format.
ImageOf(store, i) ==
    LET a == Read(store, i)
    IN  IF a = None \/ OpenPayload(store, i, OwnLimit) = None \/ a.media \notin ImageMedia THEN None
        ELSE IF a.payload.type = "image" /\ a.payload.format = a.media THEN a.payload ELSE None

\* SceneBundle.model_validate: frames and the slots of their cameras are unique.
SceneIsValid(scene) ==
    /\ scene.type = "scene" /\ scene.frames # <<>>
    /\ \A j, k \in DOMAIN scene.frames : scene.frames[j].id = scene.frames[k].id => j = k
    /\ \A f \in ToSet(scene.frames) : \A j, k \in DOMAIN f.cameras :
         f.cameras[j].slot = f.cameras[k].slot => j = k

ImagesOf(scene) ==
    UNION {{c.image : c \in ToSet(f.cameras)} : f \in ToSet(scene.frames)} \ {None}

\* scene_bundle: its decision and its images are its parents, and can be read.
SceneOf(store, i) ==
    LET a == Read(store, i)
    IN  IF a = None \/ OpenPayload(store, i, OwnLimit) = None THEN None
        ELSE IF /\ a.kind = "counterexample_bundle" /\ a.media = "scene-bundle"
                /\ SceneIsValid(a.payload)
                /\ a.payload.decision \in a.parents /\ DecisionOf(store, a.payload.decision) # None
                /\ \A image \in ImagesOf(a.payload) :
                     /\ image \in a.parents /\ Read(store, image) # None
                     /\ store[image].media \in ImageMedia
             THEN a.payload ELSE None

\* The rows that a batch, after start rows before it, has for a page.
BatchRows(start, length, offset, limit) ==
    LET from == Max({offset - start, 0})
        count == Min({length - from, offset + limit - (start + from)})
    IN  IF start + length > offset /\ start < offset + limit
        THEN [j \in 1..count |-> start + from + j] ELSE <<>>

\* The rows of metric_rows for one page, batch by batch.
PageRows(batches, offset, limit) ==
    LET start(k) == SumFunction(SubSeq(batches, 1, k - 1))
    IN  FlattenSeq([k \in DOMAIN batches |-> BatchRows(start(k), batches[k], offset, limit)])

\* The size of the batches that metric_rows asks for.
BatchSize(limit) == Min({Batch, Max({limit, 1})})

\* metric_rows up to its rows: a table of a kind that has any.
TableOf(store, i) ==
    LET a == Read(store, i)
    IN  IF a = None \/ OpenPayload(store, i, OwnLimit) = None THEN None
        ELSE IF a.media = "parquet" /\ a.kind \in Tables /\ a.payload.type = "table"
             THEN a.payload ELSE None

\* list_artifacts: a page of the indexed manifests of these kinds, in their order.
ListPage(store, kinds, offset, limit) ==
    LET listed == {i \in DOMAIN store : store[i].indexed /\ store[i].kind \in kinds}
        nth(k) == CHOOSE i \in listed : Cardinality({j \in listed : j < i}) = k - 1
    IN  [k \in 1..Max({Min({limit, Cardinality(listed) - offset}), 0}) |-> nth(offset + k)]

\* The handlers of create_app: a status and the body.
Respond(store, route, i) ==
    LET answer == CASE route = "content" -> OpenPayload(store, i, ServiceLimit)
                    [] route = "decision" -> DecisionOf(store, i)
                    [] route = "image" -> ImageOf(store, i)
                    [] route = "scene" -> SceneOf(store, i)
                    [] route = "metrics" -> TableOf(store, i)
    IN  CASE ~Found(store, i) -> [status |-> 404, body |-> None]
          [] route = "image" /\ Read(store, i) # None /\ store[i].media \notin ImageMedia ->
               [status |-> 415, body |-> None]
          [] OTHER -> [status |-> IF answer = None THEN 409 ELSE 200, body |-> answer]

-----------------------------------------------------------------------------
(***************************************************************************)
(* export_evidence_bundle.                                                 *)
(***************************************************************************)

\* _load_report_data: the report data of a comparison, its cells unique, its tables parents.
ReportData(store, comparison) ==
    LET a == Read(store, comparison)
    IN  IF a = None \/ OpenPayload(store, comparison, OwnLimit) = None THEN None
        ELSE IF /\ a.kind = "comparison" /\ a.media = "report-data" /\ a.payload.type = "report"
                /\ \A j, k \in DOMAIN a.payload.cells :
                     a.payload.cells[j].id = a.payload.cells[k].id => j = k
                /\ {a.payload.decision, a.payload.metrics, a.payload.slices} \subseteq a.parents
             THEN a.payload ELSE None

\* _decision_bytes: the decision the report repeats.
AgreesWith(report, decision) ==
    /\ decision # None
    /\ decision.status = report.status /\ decision.cells = report.cells
    /\ decision.hypotheses = report.hypotheses

\* _verified_parquet: a metrics table is a child of the decision.
VerifiedTable(store, i, kind, decision) ==
    LET a == Read(store, i)
    IN  /\ a # None /\ OpenPayload(store, i, OwnLimit) # None
        /\ a.kind = kind /\ a.media = "parquet"
        /\ kind = "comparison" => decision \in a.parents

\* Seeded bug: the scene may be of another decision.
CounterexamplesOfAny(store, report, mode, scene, acknowledged) ==
    LET bundle == SceneOf(store, scene)
        images == IF mode = "private" THEN ImagesOf(bundle) ELSE {}
    IN  IF scene = None THEN [scene |-> None, images |-> {}, parents |-> {}]
        ELSE IF \/ bundle = None
                \/ mode = "private" /\ ~acknowledged
                \/ \E i \in images : OpenPayload(store, i, OwnLimit) = None
             THEN None
             ELSE [scene |-> scene, images |-> images, parents |-> {scene} \union images]

\* _counterexamples: a scene of this decision, and in private mode the images it shows.
Counterexamples(store, report, mode, scene, acknowledged) ==
    LET bundle == SceneOf(store, scene)
        images == IF mode = "private" THEN ImagesOf(bundle) ELSE {}
    IN  IF scene = None THEN [scene |-> None, images |-> {}, parents |-> {}]
        ELSE IF \/ bundle = None
                \/ bundle.decision # report.decision
                \/ mode = "private" /\ ~acknowledged
                \/ \E i \in images : OpenPayload(store, i, OwnLimit) = None
             THEN None
             ELSE [scene |-> scene, images |-> images, parents |-> {scene} \union images]

\* _safe_output_directory: a new directory, below the artifact root in private mode.
OutputIsSafe(output, mode) == output = "new" \/ (output = "outside" /\ mode = "public")

\* The bundle, None when the export raises before it registers one.
Bundle(store, comparison, mode, scene, acknowledged, output) ==
    LET report == ReportData(store, comparison)
        decision == DecisionOf(store, report.decision)
        shown == Counterexamples(store, report, mode, scene, acknowledged)
    IN  IF \/ mode = "public" /\ acknowledged
           \/ ~OutputIsSafe(output, mode)
           \/ report = None
        THEN None
        ELSE IF \/ ~AgreesWith(report, decision)
                \/ ~VerifiedTable(store, report.metrics, "comparison", report.decision)
                \/ ~VerifiedTable(store, report.slices, "slice_table", report.decision)
                \/ shown = None
             THEN None
             ELSE [mode |-> mode, status |-> report.status, reasons |-> report.reasons,
                   license |-> store[comparison].license,
                   copies |-> {report.decision, report.metrics, report.slices} \union shown.images,
                   images |-> shown.images,
                   parents |-> {comparison, report.decision, report.metrics, report.slices}
                                 \union shown.parents]

\* `report --decision`: a snapshot of the decision alone.
Snapshot(store, i) ==
    LET decision == DecisionOf(store, i)
    IN  IF decision = None THEN None
        ELSE [status |-> decision.status, reasons |-> ReasonCodes(decision),
              license |-> store[i].license, parents |-> {i}]

-----------------------------------------------------------------------------
(***************************************************************************)
(* What the publication promises.                                          *)
(***************************************************************************)

\* Page after page, a reader gets every row once and in order, however the file is cut
\* into batches.
PagesAreTheTable(batches, limit) ==
    LET total == SumFunction(batches)
        page(k) == PageRows(batches, (k - 1) * limit, limit)
        pages == (total + limit - 1) \div limit
    IN  /\ \A k \in 1..pages : Len(page(k)) <= limit
        /\ FlattenSeq([k \in 1..pages |-> page(k)]) = [r \in 1..total |-> r]
        /\ page(pages + 1) = <<>>

\* A damaged or unregistered artifact is never served, a decision and a table only as what
\* they are, and a scene only with a decision and images that can be served as well.
ServedIsRegistered(store, route, i) ==
    LET r == Respond(store, route, i)
    IN  r.status = 200 =>
          /\ store[i].indexed /\ store[i].sound /\ r.body = store[i].payload
          /\ route = "scene" =>
               /\ Respond(store, "decision", r.body.decision).status = 200
               /\ \A image \in ImagesOf(r.body) : Respond(store, "image", image).status # 404

\* Page after page, whoever lists a kind finds all of it that can be found by its manifest.
ListingIsComplete(store, kinds, limit) ==
    LET page(k) == ListPage(store, kinds, (k - 1) * limit, limit)
        all == FlattenSeq([k \in 1..Cardinality(DOMAIN store) |-> page(k)])
    IN  /\ IsInjective(all)
        /\ ToSet(all) = {i \in DOMAIN store : Found(store, i) /\ store[i].kind \in kinds}

\* A bundle copies nothing that is damaged or not among its parents, says what its decision
\* says, shows images only in private mode and only those of a scene of that decision.
BundleIsFaithful(store, comparison, mode, scene, acknowledged, output) ==
    LET bundle == Bundle(store, comparison, mode, scene, acknowledged, output)
        report == store[comparison].payload
    IN  bundle # None =>
          /\ bundle.copies \subseteq bundle.parents
          /\ \A i \in bundle.parents : store[i].indexed /\ store[i].sound
          /\ bundle.status = store[report.decision].payload.status
          /\ bundle.images # {} => mode = "private" /\ acknowledged /\ output = "new"
          /\ scene # None => SceneOf(store, scene).decision = report.decision
          /\ \A i \in bundle.images : i \in store[scene].parents

\* What a comparison registers can be exported as it is, alone and with a scene of its
\* decision, and the snapshot of its decision gives the same reasons.
ComparisonIsExportable(store, mode) ==
    LET bundle == Bundle(store, 7, mode, None, FALSE, "new")
    IN  /\ bundle # None
        /\ bundle.status = Snapshot(store, 5).status /\ bundle.reasons = Snapshot(store, 5).reasons
        /\ SceneOf(store, 8) # None /\ store[8].payload.decision = 5 =>
             (Bundle(store, 7, mode, 8, mode = "private", "new") # None
                <=> (mode = "public" \/ \A i \in ImagesOf(store[8].payload) : OpenPayload(store, i, OwnLimit) # None))
=============================================================================
