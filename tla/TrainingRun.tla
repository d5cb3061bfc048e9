------------------------------ MODULE TrainingRun ------------------------------
(***************************************************************************)
(* One training run of the model study: the trainer that writes its run    *)
(* root (python/junctionlens/model/e0_training.py, e1_training.py), the    *)
(* selector that scores its checkpoints and writes the selection receipt   *)
(* (selection_evaluation.py, select_*_checkpoint), and the qualification   *)
(* phase that starts both again after a failure (scripts/gpu/              *)
(* qualify_models.py).  Each of them may die between any two steps; one    *)
(* trainer runs at a time.                                                 *)
(*                                                                         *)
(* Weights are abstracted to what they were computed from: how many epochs *)
(* and updates, by trainers of which source, and after which failure the   *)
(* last epoch was trained.  An epoch that is trained again, on another     *)
(* device or without the loss scale of fp16, need not give the same bytes. *)
(***************************************************************************)
EXTENDS Integers, FiniteSets

CONSTANTS
    MaxEpoch,        \* recipe.maximum_epochs
    Frames,          \* frames of the training partition
    Accumulation,    \* recipe.gradient_accumulation_steps
    Source,          \* run identities: source commit, profile, split, dataset
    ByHand,          \* whether people start the trainer too, with or without --resume
    SelectEarly,     \* whether people score and select whenever they like
    ReadyFirst,      \* E1's selector demands a complete run, E0's does not
    MaxFaults,       \* bound: deaths and exceptions
    None

Epoch == 1..MaxEpoch
Weights == [epoch : 0..MaxEpoch, steps : Nat, by : SUBSET Source, after : Nat]
Untrained == [epoch |-> 0, steps |-> 0, by |-> {}, after |-> 0]

Manifest == [state : {"RUNNING", "COMPLETE"}, source : Source,
             metrics : SUBSET (Epoch \X (1..Frames))]

ASSUME TrainingConstants ==
    /\ MaxEpoch \in Nat \ {0} /\ Frames \in Nat \ {0} /\ Accumulation \in Nat \ {0}
    /\ ByHand \in BOOLEAN /\ SelectEarly \in BOOLEAN /\ ReadyFirst \in BOOLEAN
    /\ MaxFaults \in Nat
    /\ None \notin Manifest \union Weights \union Source

VARIABLES
    root,       \* the directories made: "absent", "bare", or "ready" with checkpoints/
    manifest,   \* run-manifest.json
    pt,         \* pt[e]: checkpoints/epoch-<e>.pt
    receipt,    \* receipt[e]: what the hash in checkpoints/epoch-<e>.json is of
    logged,     \* <<epoch, frame>> with a readable line in training-metrics.jsonl
    torn,       \* the last line of that file has no end
    selection,  \* selection-receipt.json: how many epochs it selects from
    pc,         \* where the trainer is
    who,        \* its source: commit, profile, split, dataset
    resume,     \* its --resume flag
    model,      \* the weights it holds
    epoch,      \* the epoch it trains
    frame,      \* frames trained in this epoch, whose records are buffered
    grads,      \* frames whose gradients wait for the next update
    spc,        \* where the selector is
    scored,     \* the epochs it has scores of
    faults      \* failures so far

files   == <<root, manifest, pt, receipt, logged, torn>>
trainer == <<pc, who, resume, model, epoch, frame, grads>>
chooser == <<selection, spc, scored>>
vars    == <<files, trainer, chooser, faults>>

Init ==
    /\ root = "absent" /\ manifest = None
    /\ pt = [e \in Epoch |-> None] /\ receipt = [e \in Epoch |-> None]
    /\ logged = {} /\ torn = FALSE
    /\ pc = "idle" /\ who = None /\ resume = FALSE
    /\ model = Untrained /\ epoch = 1 /\ frame = 0 /\ grads = 0
    /\ selection = 0 /\ spc = "idle" /\ scored = {}
    /\ faults = 0

Complete == manifest # None /\ manifest.state = "COMPLETE"

\* The process is gone, and what it held in memory with it.
TrainerGone ==
    /\ pc' = "idle"
    /\ model' = Untrained /\ epoch' = 1 /\ frame' = 0 /\ grads' = 0
    /\ resume' = FALSE /\ who' = None

-----------------------------------------------------------------------------
(***************************************************************************)
(* Starting: fresh, or from the last receipt                               *)
(***************************************************************************)

\* qualify_models: a run that is not complete is trained, with --resume when
\* its root exists.
Start ==
    /\ pc = "idle"
    /\ ~Complete \/ ByHand
    /\ who' \in Source
    /\ resume' \in (IF ByHand THEN BOOLEAN ELSE {root # "absent"})
    /\ pc' = "open"
    /\ UNCHANGED <<files, model, epoch, frame, grads, chooser, faults>>

\* Seeded bug: an existing root is reused without --resume.
OpenRootReuses ==
    /\ pc = "open"
    /\ root' = IF root = "absent" THEN "bare" ELSE root
    /\ pc' = "mkdir"
    /\ UNCHANGED <<manifest, pt, receipt, logged, torn, who, resume, model, epoch, frame,
                   grads, chooser, faults>>

\* The run root is made, entered with --resume, or refused.
OpenRoot ==
    /\ pc = "open"
    /\ IF root # "absent" /\ ~resume
       THEN TrainerGone /\ UNCHANGED files
       ELSE /\ root' = IF root = "absent" THEN "bare" ELSE root
            /\ pc' = "mkdir"
            /\ UNCHANGED <<manifest, pt, receipt, logged, torn, who, resume, model, epoch,
                           frame, grads>>
    /\ UNCHANGED <<chooser, faults>>

MakeCheckpointRoot ==
    /\ pc = "mkdir"
    /\ root' = "ready"
    /\ pc' = IF resume THEN "verify" ELSE "fresh"
    /\ UNCHANGED <<manifest, pt, receipt, logged, torn, who, resume, model, epoch, frame,
                   grads, chooser, faults>>

WriteRunManifest ==
    /\ pc = "fresh"
    /\ manifest' = [state |-> "RUNNING", source |-> who, metrics |-> {}]
    /\ pc' = "train"
    /\ UNCHANGED <<root, pt, receipt, logged, torn, who, resume, model, epoch, frame, grads,
                   chooser, faults>>

Last == CHOOSE e \in Epoch : receipt[e] # None /\ \A d \in Epoch : d > e => receipt[d] = None

\* Seeded bug: the source of the run is not compared.
ResumableNoIdentity ==
    /\ manifest # None /\ ~Complete
    /\ \E e \in Epoch : receipt[e] # None
    /\ pt[Last] = receipt[Last]

\* Seeded bug: the newest checkpoint is what must have a receipt.
ResumableNewestCheckpoint ==
    /\ manifest # None /\ ~Complete
    /\ manifest.source = who
    /\ \E e \in Epoch : receipt[e] # None
    /\ \A e \in Epoch : pt[e] = receipt[e]

\* The checks of a resume before it restores anything.
Resumable ==
    /\ manifest # None /\ ~Complete
    /\ manifest.source = who
    /\ \E e \in Epoch : receipt[e] # None
    /\ pt[Last] = receipt[Last]

\* A complete run is returned as it is; every other run that fails a check raises.
ResumeEnds ==
    /\ pc = "verify"
    /\ ~Resumable
    /\ TrainerGone
    /\ UNCHANGED <<files, chooser, faults>>

\* Seeded bug: the optimizer step is not restored.
RestoreWithoutSteps ==
    /\ pc = "verify"
    /\ Resumable
    /\ model' = [pt[Last] EXCEPT !.steps = 0]
    /\ epoch' = Last + 1
    /\ pc' = "train"
    /\ UNCHANGED <<files, who, resume, frame, grads, chooser, faults>>

\* Seeded bug: the metrics file is opened for writing, not for appending.
RestoreTruncates ==
    /\ pc = "verify"
    /\ Resumable
    /\ model' = pt[Last]
    /\ epoch' = Last + 1
    /\ logged' = {} /\ torn' = FALSE
    /\ pc' = "train"
    /\ UNCHANGED <<root, manifest, pt, receipt, who, resume, frame, grads, chooser, faults>>

\* Weights, optimizer and random state come back; an fp16 loss scale does not.
Restore ==
    /\ pc = "verify"
    /\ Resumable
    /\ model' = pt[Last]
    /\ epoch' = Last + 1
    /\ pc' = "train"
    /\ UNCHANGED <<files, who, resume, frame, grads, chooser, faults>>

-----------------------------------------------------------------------------
(***************************************************************************)
(* An epoch: frames, the log, the checkpoint, its receipt                  *)
(***************************************************************************)

\* Seeded bug: every group counts as a full one.
GroupSizeAlwaysFull(f) == Accumulation

\* group_size: by how much the loss of frame f of an epoch is divided.
GroupSize(f) ==
    LET before == ((f - 1) \div Accumulation) * Accumulation
    IN  IF Frames - before < Accumulation THEN Frames - before ELSE Accumulation

EndGroup(f) == f % Accumulation = 0 \/ f = Frames

TrainFrame ==
    /\ pc = "train" /\ epoch <= MaxEpoch /\ frame < Frames
    /\ frame' = frame + 1
    /\ IF EndGroup(frame')
       THEN model' = [model EXCEPT !.steps = @ + 1] /\ grads' = 0
       ELSE grads' = grads + 1 /\ UNCHANGED model
    /\ UNCHANGED <<files, pc, who, resume, epoch, chooser, faults>>

\* Records of frames 1..n of this epoch reach the file.  The first one is appended
\* to a torn line if there is one, and is lost with it.
Records(n) == {epoch} \X {f \in 1..n : f # 1 \/ ~torn}

\* flush and fsync: the epoch is trained and logged.
FlushMetrics ==
    /\ pc = "train" /\ epoch <= MaxEpoch /\ frame = Frames
    /\ logged' = logged \union Records(Frames) /\ torn' = FALSE
    /\ model' = [epoch |-> epoch, steps |-> model.steps, by |-> model.by \union {who},
                 after |-> faults]
    /\ pc' = "save"
    /\ UNCHANGED <<root, manifest, pt, receipt, who, resume, epoch, frame, grads, chooser,
                   faults>>

\* torch.save to a temporary file, replace, rehash.
InstallCheckpoint ==
    /\ pc = "save"
    /\ pt' = [pt EXCEPT ![epoch] = model]
    /\ pc' = "receipt"
    /\ UNCHANGED <<root, manifest, receipt, logged, torn, who, resume, model, epoch, frame,
                   grads, chooser, faults>>

InstallReceipt ==
    /\ pc = "receipt"
    /\ receipt' = [receipt EXCEPT ![epoch] = model]
    /\ pc' = "train"
    /\ epoch' = epoch + 1 /\ frame' = 0 /\ grads' = 0
    /\ UNCHANGED <<root, manifest, pt, logged, torn, who, resume, model, chooser, faults>>

\* Seeded bug: the range of epochs ends one too early.
FinishTrainingEarly ==
    /\ pc = "train" /\ epoch >= MaxEpoch /\ frame = 0
    /\ manifest' = [manifest EXCEPT !.state = "COMPLETE", !.metrics = logged]
    /\ TrainerGone
    /\ UNCHANGED <<root, pt, receipt, logged, torn, chooser, faults>>

FinishTraining ==
    /\ pc = "train" /\ epoch > MaxEpoch
    /\ manifest' = [manifest EXCEPT !.state = "COMPLETE", !.metrics = logged]
    /\ TrainerGone
    /\ UNCHANGED <<root, pt, receipt, logged, torn, chooser, faults>>

\* An exception: a dirty checkout, a nonfinite loss, a full disk.  The with
\* statement still writes the buffered records.
TrainerRaises ==
    /\ pc # "idle" /\ faults < MaxFaults
    /\ faults' = faults + 1
    /\ IF pc = "train" /\ frame > 0
       THEN logged' = logged \union Records(frame) /\ torn' = FALSE
       ELSE UNCHANGED <<logged, torn>>
    /\ TrainerGone
    /\ UNCHANGED <<root, manifest, pt, receipt, chooser>>

\* The process is killed: of the buffered records any first part is in the file,
\* and the last line of it may be half a record.
TrainerDies ==
    /\ pc # "idle" /\ faults < MaxFaults
    /\ faults' = faults + 1
    /\ \/ UNCHANGED <<logged, torn>>
       \/ /\ pc = "train"
          /\ \E n \in 0..frame, half \in BOOLEAN :
               /\ half => n < frame
               /\ logged' = logged \union Records(n)
               /\ torn' = (half \/ (torn /\ n = 0))
    /\ TrainerGone
    /\ UNCHANGED <<root, manifest, pt, receipt, chooser>>

-----------------------------------------------------------------------------
(***************************************************************************)
(* Scoring and selection                                                   *)
(***************************************************************************)

\* score_checkpoints scores every checkpoint that is there; the phase runs it
\* on a complete run.
Score ==
    /\ spc = "idle"
    /\ SelectEarly \/ Complete
    /\ SelectEarly \/ selection # MaxEpoch
    /\ scored' = {e \in Epoch : pt[e] # None}
    /\ scored' # {}
    /\ spc' = "select"
    /\ UNCHANGED <<files, trainer, selection, faults>>

\* The run is not complete and the selector demands it.
Unready == ReadyFirst /\ ~Complete

\* A receipt that is there must be the one about to be written: a different one,
\* or the beginning of one (-1), raises.
SelectEnds ==
    /\ spc = "select"
    /\ Unready \/ selection # 0
    /\ spc' = "idle" /\ scored' = {}
    /\ UNCHANGED <<files, trainer, selection, faults>>

\* write_bytes creates the file ...
CreateSelection ==
    /\ spc = "select"
    /\ ~Unready /\ selection = 0
    /\ selection' = -1
    /\ spc' = "write"
    /\ UNCHANGED <<files, trainer, scored, faults>>

\* ... and fills it.
WriteSelection ==
    /\ spc = "write"
    /\ selection' = Cardinality(scored)
    /\ spc' = "idle" /\ scored' = {}
    /\ UNCHANGED <<files, trainer, faults>>

SelectorDies ==
    /\ spc # "idle" /\ faults < MaxFaults
    /\ faults' = faults + 1
    /\ spc' = "idle" /\ scored' = {}
    /\ UNCHANGED <<files, trainer, selection>>

-----------------------------------------------------------------------------

TrainerStep ==
    \/ OpenRoot \/ MakeCheckpointRoot \/ WriteRunManifest \/ ResumeEnds \/ Restore
    \/ TrainFrame \/ FlushMetrics \/ InstallCheckpoint \/ InstallReceipt \/ FinishTraining

SelectorStep == SelectEnds \/ CreateSelection \/ WriteSelection

Next ==
    \/ Start \/ TrainerStep \/ TrainerRaises \/ TrainerDies
    \/ Score \/ SelectorStep \/ SelectorDies

Spec == Init /\ [][Next]_vars

\* qualify_models.py:215: the phase resumes a root that exists, from the checkout
\* that the study froze.
PhaseStart ==
    /\ Start
    /\ resume' = (root # "absent")
    /\ manifest # None => who' = manifest.source

\* Processes run on, and the phase is started again until it is done, whatever
\* people start in between.
FairSpec ==
    /\ Spec
    /\ SF_vars(PhaseStart) /\ WF_vars(TrainerStep)
    /\ WF_vars(Score) /\ WF_vars(SelectorStep)

-----------------------------------------------------------------------------

\* The type invariant of a run.
TypeOK ==
    /\ root \in {"absent", "bare", "ready"}
    /\ manifest \in Manifest \union {None}
    /\ pt \in [Epoch -> Weights \union {None}]
    /\ receipt \in [Epoch -> Weights \union {None}]
    /\ logged \in SUBSET (Epoch \X (1..Frames)) /\ torn \in BOOLEAN
    /\ pc \in {"idle", "open", "mkdir", "fresh", "verify", "train", "save", "receipt"}
    /\ who \in Source \union {None} /\ resume \in BOOLEAN
    /\ model \in Weights /\ epoch \in 1..(MaxEpoch + 1)
    /\ frame \in 0..Frames /\ grads \in 0..Frames
    /\ selection \in -1..MaxEpoch
    /\ spc \in {"idle", "select", "write"} /\ scored \in SUBSET Epoch
    /\ faults \in Nat

\* "latest E0 checkpoint failed hash verification" (e0_training.py:459) is for
\* damaged files: no crash of the trainer leaves a receipt of other bytes.
ReceiptsVerify == \A e \in Epoch : receipt[e] # None => pt[e] = receipt[e]

\* The log is on disk before the checkpoint: what has a receipt has its frames
\* logged, except for a first frame that a torn line swallowed.
LoggedBeforeReceipt ==
    \A e \in Epoch : receipt[e] # None => \A f \in 2..Frames : <<e, f>> \in logged

\* A resume never continues a run from another source: all that is retained
\* was computed from the commit, profile, split and dataset of the manifest.
OneSource ==
    \A e \in Epoch : pt[e] # None =>
        manifest # None /\ pt[e].by \subseteq {manifest.source}

\* The updates of one epoch.
Updates == (Frames + Accumulation - 1) \div Accumulation

\* The schedule: epoch e has seen e times the updates of one epoch, over
\* however many trainers.
StepsAreScheduled ==
    \A e \in Epoch : pt[e] # None => pt[e].epoch = e /\ pt[e].steps = e * Updates

\* An update averages its group: the number of gradients it adds up is the one
\* each loss was divided by, also in the last group of an epoch.
UpdatesAreMeans ==
    [][frame' = frame + 1 /\ model'.steps = model.steps + 1 => grads + 1 = GroupSize(frame')]_vars

\* docs/e1-experiment.md:23: every frame is logged.  A torn line swallows the record
\* appended to it, so a failure costs the sealed log at most one.
OneRecordPerFailure ==
    Complete => Cardinality((Epoch \X (1..Frames)) \ manifest.metrics) <= faults

\* Nobody can change a complete run, by whatever command.
CompleteIsFinal ==
    [][Complete => UNCHANGED <<manifest, pt, receipt, logged>>]_vars

\* A selection takes all epochs of a complete run into account.
SelectionSawEveryEpoch == selection > 0 => Complete /\ selection = MaxEpoch

\* Every epoch between the first receipt and the last can be selected: receipts
\* have no gap ("consecutive from epoch one", selection.py:49), and at most the
\* checkpoint of the epoch under way has none.
NoGap ==
    \A e \in Epoch :
        /\ receipt[e] # None => \A d \in 1..e : receipt[d] # None
        /\ pt[e] # None => \A d \in 1..(e - 1) : receipt[d] # None

\* A directory in which training has not begun.
Blank == manifest = None /\ \A e \in Epoch : pt[e] = None /\ receipt[e] = None

\* What a trainer at work relies on: the manifest is its own, it holds the epochs
\* before the one it trains, and nothing is retained beyond that one.
AtWorkOK ==
    /\ manifest # None /\ ~Complete /\ manifest.source = who
    /\ model.by \subseteq {who}
    /\ \A e \in Epoch : receipt[e] # None <=> e < epoch
    /\ \A e \in Epoch : e > epoch => pt[e] = None
    /\ pc \in {"save", "receipt"} =>
         epoch \in Epoch /\ \A f \in 2..Frames : <<epoch, f>> \in logged
    /\ pc = "receipt" => pt[epoch] = model

\* The inductive invariant of training.
TrainingInv ==
    /\ TypeOK
    /\ ReceiptsVerify
    /\ LoggedBeforeReceipt
    /\ OneSource
    /\ NoGap
    /\ pc # "idle" => who \in Source
    /\ root = "absent" => Blank /\ pc \in {"idle", "open"}
    /\ grads <= frame
    /\ pc \in {"idle", "open", "mkdir", "fresh", "verify"} =>
         model.by = {} /\ epoch = 1 /\ frame = 0
    /\ epoch > MaxEpoch => frame = 0
    /\ pc = "mkdir" /\ ~resume => Blank
    /\ pc = "fresh" => Blank
    /\ pc \in {"train", "save", "receipt"} => AtWorkOK
    /\ Complete => \A e \in Epoch : receipt[e] # None

\* Why steps are scheduled and updates are means: in the middle of an epoch as many groups
\* are done as fit into its frames, and the gradients of the rest are waiting.
ScheduleInv ==
    /\ StepsAreScheduled
    /\ pc \in {"idle", "open", "mkdir", "fresh", "verify"} => model.steps = 0 /\ grads = 0
    /\ pc = "train" =>
         /\ model.steps = (epoch - 1) * Updates
                           + IF frame = Frames THEN Updates ELSE frame \div Accumulation
         /\ grads = IF frame = Frames THEN 0 ELSE frame % Accumulation
    /\ pc \in {"save", "receipt"} => model.epoch = epoch /\ model.steps = epoch * Updates

\* The epochs whose log is closed, and those of them that lost their first record.
Sealed == {e \in Epoch : receipt[e] # None \/ (pc \in {"save", "receipt"} /\ e = epoch)}
Lost == {e \in Sealed : <<e, 1>> \notin logged}

\* Why a failure costs one record: each has torn at most one line, which a later epoch
\* appended its first record to, or will.
RecordInv ==
    /\ Cardinality(Lost) + (IF torn THEN 1 ELSE 0) <= faults
    /\ Complete => manifest.metrics = logged

\* qualify_models.py:141: "with resume".  Once an epoch has its receipt, a phase
\* that is started again after its last failure completes the training.
TrainingResumes == (\E e \in Epoch : receipt[e] # None) ~> Complete

\* qualify_models.py:141: the same from the beginning.
TrainingCompletes == <>Complete

\* A complete run gets its selection receipt, unless a selector died while it
\* wrote one: what is left of it then can neither be accepted nor replaced.
SelectionIsReached == Complete ~> selection = MaxEpoch \/ (selection = -1 /\ spc # "write")
=============================================================================
