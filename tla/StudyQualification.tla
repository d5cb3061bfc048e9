------------------------- MODULE StudyQualification -------------------------
(***************************************************************************)
(* The two qualification phases that turn trained runs into the evidence   *)
(* a release is decided on (scripts/gpu/qualify_models.py after training,  *)
(* scripts/gpu/qualify_study.py), with the steps of the CLI they call      *)
(* (model/selection_evaluation.py, e0_training.py, e0_artifacts.py,        *)
(* e1_study.py, gate/charter.py).                                          *)
(*                                                                         *)
(* A phase runs its steps in order; a step whose output exists is skipped  *)
(* or must reproduce it.  A phase that fails or is killed is run again     *)
(* from its first step.  Inference on a GPU need not repeat itself: each   *)
(* one draws its metrics from Draws.                                       *)
(*                                                                         *)
(* An arm is a trained run: the E0 seeds in order, the primary one first,  *)
(* and the E1 run last.  The split, the datasets and the checkpoints are   *)
(* those of one workspace and do not change; TrainingRun covers training.  *)
(***************************************************************************)
EXTENDS Integers, SequencesExt, FiniteSetsExt

CONSTANTS
    ArmOrder,   \* the arms, in the order of the phases
    Epochs,     \* retained checkpoints of an arm
    Draws,      \* the metrics an inference may give: [top, detL, detT, wrong], in percent
    MaxKills,   \* bound: times a phase is killed
    Partial,    \* a file whose writing was cut off
    None

\* The greatest metric.
Whole == 100

\* What the evaluation of a checkpoint may be.
Evaluations == [epoch : 1..Epochs, metrics : Draws]

ASSUME StudyConstants ==
    /\ ArmOrder \in Seq(ToSet(ArmOrder)) /\ Len(ArmOrder) >= 2 /\ IsInjective(ArmOrder)
    /\ Epochs \in Nat \ {0} /\ MaxKills \in Nat
    /\ Draws # {}
    /\ Draws \subseteq [top : 0..Whole, detL : 0..Whole, detT : 0..Whole, wrong : 0..Whole]
    /\ None # Partial /\ {None, Partial} \intersect (1..Epochs) = {} /\ None \notin Draws
    /\ None \notin Evaluations

VARIABLES
    disk,      \* the files of the two output roots
    process,   \* the phase at work
    orphan,    \* an evaluation whose driver was killed: None or [arm, found]
    kills

vars == <<disk, process, orphan, kills>>

Arms == ToSet(ArmOrder)
Baselines == ToSet(Front(ArmOrder))
Primary == ArmOrder[1]
Joint == Last(ArmOrder)
Blank == [a \in Arms |-> None]

Init ==
    /\ disk = [linker |-> FALSE,
               request |-> [a \in Arms |-> [e \in 1..Epochs |-> None]],
               result |-> [a \in Arms |-> [e \in 1..Epochs |-> None]],
               scores |-> Blank, receipt |-> Blank, models |-> None,
               evaluation |-> Blank, measured |-> None, final |-> None, card |-> FALSE,
               finalReceipt |-> FALSE, evidence |-> None, report |-> None, charter |-> None,
               study |-> None]
    /\ process = [pc |-> "idle", k |-> 1, epoch |-> 1]
    /\ orphan = None
    /\ kills = 0

At(pc) == process.pc = pc
Arm == ArmOrder[process.k]
Goto(pc) == process' = [process EXCEPT !.pc = pc]
Write(file, value) == disk' = [disk EXCEPT ![file] = value]
Keep == UNCHANGED <<orphan, kills>>

\* Seeded bug: what is there is overwritten.
RefusesNothing(old, new) == FALSE

\* _atomic_bytes, _atomic_json: a file is written whole, once; an equal one is kept.
Refuses(old, new) == old # None /\ old # new

Fails == Goto("idle") /\ UNCHANGED disk /\ Keep

-----------------------------------------------------------------------------
(* Phase "models". *)

\* The files of the phase that is begun; "models" is not run again once accepted.
Start ==
    /\ At("idle") /\ disk.study = None
    /\ process' = [pc |-> IF disk.models \in {None, Partial} THEN "prepare" ELSE "evaluate",
                   k |-> 1, epoch |-> 1]
    /\ UNCHANGED disk /\ Keep

\* The topology diagnostic and the linker, each unless it exists.
Prepare ==
    /\ At("prepare")
    /\ Write("linker", TRUE)
    /\ Goto("score")
    /\ Keep

\* Seeded bug: results are not looked up.
CachedNever(arm, epoch) == FALSE

\* score_checkpoints: an epoch with a result is not inferred again.
Cached(arm, epoch) == disk.result[arm][epoch] # None

UseCached ==
    /\ At("score") /\ process.epoch <= Epochs /\ Cached(Arm, process.epoch)
    /\ process' = [process EXCEPT !.epoch = @ + 1]
    /\ UNCHANGED disk /\ Keep

Infer ==
    /\ At("score") /\ process.epoch <= Epochs /\ ~Cached(Arm, process.epoch)
    /\ \E found \in Draws :
         IF Refuses(disk.request[Arm][process.epoch], found)
         THEN Fails
         ELSE /\ disk' = [disk EXCEPT !.request[Arm][process.epoch] = found]
              /\ Goto("official")
              /\ Keep

\* evaluate_official on the request, and the result of the epoch.
Record ==
    /\ At("official")
    /\ disk' = [disk EXCEPT !.result[Arm][process.epoch] = disk.request[Arm][process.epoch]]
    /\ process' = [process EXCEPT !.pc = "score", !.epoch = @ + 1]
    /\ Keep

WriteScores ==
    /\ At("score") /\ process.epoch = Epochs + 1
    /\ IF Refuses(disk.scores[Arm], disk.result[Arm])
       THEN Fails
       ELSE /\ disk' = [disk EXCEPT !.scores[Arm] = disk.result[Arm]]
            /\ Goto("select") /\ Keep

\* Seeded bug: the order is the wrong way round.
SelectedWorst(scores) ==
    CHOOSE e \in 1..Epochs : \A f \in 1..Epochs :
       scores[e].top < scores[f].top \/ (scores[f].top = scores[e].top /\ e <= f)

\* score_order on the scores that differ in their topology; the earlier epoch of two equals.
Selected(scores) ==
    CHOOSE e \in 1..Epochs : \A f \in 1..Epochs :
       scores[f].top < scores[e].top \/ (scores[f].top = scores[e].top /\ e <= f)

\* select_e0_checkpoint, select_e1_checkpoint: the receipt is written in place.
Select ==
    /\ At("select")
    /\ IF Refuses(disk.receipt[Arm], Selected(disk.scores[Arm]))
       THEN Fails
       ELSE /\ disk' = [disk EXCEPT !.receipt[Arm] = IF @ = None THEN Partial ELSE @]
            /\ Goto("selected") /\ Keep

EndSelect ==
    /\ At("selected")
    /\ disk' = [disk EXCEPT !.receipt[Arm] = Selected(disk.scores[Arm])]
    /\ process' = IF Arm = Joint THEN [process EXCEPT !.pc = "qualify"]
                  ELSE [process EXCEPT !.pc = "score", !.k = @ + 1, !.epoch = 1]
    /\ Keep

\* qualification.json of the models, in place: [receipts].
QualifyModels ==
    /\ At("qualify")
    /\ IF Refuses(disk.models, disk.receipt)
       THEN Fails
       ELSE Write("models", Partial) /\ Goto("qualified") /\ Keep

EndModels ==
    /\ At("qualified")
    /\ Write("models", disk.receipt)
    /\ Goto("idle")
    /\ Keep

-----------------------------------------------------------------------------
(* Phase "study". *)

\* evaluate_selected_checkpoint builds a staging directory and renames it, so an evaluation
\* is there whole or not at all; one that is there is not made again.
Evaluation(arm, found) == [epoch |-> disk.receipt[arm], metrics |-> found]

NextArm ==
    process' = IF Arm = Joint THEN [process EXCEPT !.pc = "measure"]
               ELSE [process EXCEPT !.k = @ + 1]

Evaluate ==
    /\ At("evaluate") /\ disk.evaluation[Arm] = None
    /\ \E found \in Draws : disk' = [disk EXCEPT !.evaluation[Arm] = Evaluation(Arm, found)]
    /\ NextArm
    /\ Keep

UseEvaluation ==
    /\ At("evaluate") /\ disk.evaluation[Arm] # None
    /\ NextArm
    /\ UNCHANGED disk /\ Keep

\* The driver is killed and the evaluation it had started goes on: it installs its own
\* directory, unless another one is there by then.
Orphaned ==
    /\ At("evaluate") /\ kills < MaxKills /\ orphan = None /\ disk.evaluation[Arm] = None
    /\ \E found \in Draws : orphan' = [arm |-> Arm, found |-> found]
    /\ Goto("idle")
    /\ kills' = kills + 1
    /\ UNCHANGED disk

OrphanEnds ==
    /\ orphan # None
    /\ disk' = IF disk.evaluation[orphan.arm] = None
               THEN [disk EXCEPT !.evaluation[orphan.arm] = Evaluation(orphan.arm, orphan.found)]
               ELSE disk
    /\ orphan' = None
    /\ UNCHANGED <<process, kills>>

\* e0-measured-evidence.json: the metrics of the baselines.
Variability == [a \in Baselines |-> disk.evaluation[a].metrics]

Measure ==
    /\ At("measure")
    /\ IF Refuses(disk.measured, Variability)
       THEN Fails
       ELSE Write("measured", Variability)
            /\ Goto(IF disk.final = None THEN "finalize" ELSE "verify") /\ Keep

\* finalize_e0_artifacts writes the model manifest, then the model card.
Finalize ==
    /\ At("finalize")
    /\ Write("final", [receipts |-> [a \in Baselines |-> disk.receipt[a]],
                       measured |-> disk.measured])
    /\ Goto("card") /\ Keep

WriteCard == At("card") /\ Write("card", TRUE) /\ Goto("receive") /\ Keep

\* The receipt the CLI printed is kept by the driver, after the CLI has ended.
Receive == At("receive") /\ Write("finalReceipt", TRUE) /\ Goto("verify") /\ Keep

VerifyFinal ==
    /\ At("verify")
    /\ IF disk.card /\ disk.finalReceipt /\ disk.final.measured = disk.measured
       THEN Goto("evidence") /\ UNCHANGED disk /\ Keep
       ELSE Fails

\* e1-study-evidence.json: the primary baseline against the joint model, seed by seed.
StudyEvidence == [baseline |-> disk.evaluation[Primary], candidate |-> disk.evaluation[Joint]]

WriteEvidence ==
    /\ At("evidence")
    /\ IF Refuses(disk.evidence, StudyEvidence)
       THEN Fails
       ELSE Write("evidence", StudyEvidence) /\ Goto("report") /\ Keep

\* The keep gates of finalize_e1_study.
Promotes(b, c) ==
    /\ c.top - b.top >= 2
    /\ c.detL - b.detL >= -1 /\ c.detT - b.detT >= -1
    /\ c.wrong < b.wrong

\* _validate_run: both arms are the checkpoints their runs selected.
ArmIsSelected(arm, evidence) == evidence.epoch = disk.receipt[arm]

Report(evidence) ==
    [evidence |-> evidence,
     selected |-> IF Promotes(evidence.baseline.metrics, evidence.candidate.metrics)
                  THEN Joint ELSE Primary]

WriteReport ==
    /\ At("report")
    /\ IF disk.report = None
       THEN IF /\ ArmIsSelected(Primary, disk.evidence.baseline)
               /\ ArmIsSelected(Joint, disk.evidence.candidate)
            THEN Write("report", Report(disk.evidence)) /\ Goto("report") /\ Keep
            ELSE Fails
       ELSE IF disk.report.evidence = disk.evidence
            THEN Goto("freeze") /\ UNCHANGED disk /\ Keep
            ELSE Fails

\* The power simulation and the freeze evidence: the baselines alone, on model_selection.
FreezeEvidence == [variability |-> Variability,
                   checkpoints |-> [a \in Baselines |-> disk.evaluation[a].epoch]]

FreezeCharter ==
    /\ At("freeze")
    /\ IF disk.charter = None
       THEN Write("charter", FreezeEvidence) /\ Goto("freeze") /\ Keep
       ELSE IF disk.charter = FreezeEvidence
            THEN Goto("conclude") /\ UNCHANGED disk /\ Keep
            ELSE Fails

Conclude ==
    /\ At("conclude")
    /\ Write("study", [selected |-> disk.report.selected, charter |-> disk.charter])
    /\ Goto("idle")
    /\ Keep

Kill ==
    /\ ~At("idle") /\ kills < MaxKills
    /\ Goto("idle")
    /\ kills' = kills + 1
    /\ UNCHANGED <<disk, orphan>>

-----------------------------------------------------------------------------
Step ==
    \/ Start \/ Prepare \/ UseCached \/ Infer \/ Record \/ WriteScores \/ Select \/ EndSelect
    \/ QualifyModels \/ EndModels \/ Evaluate \/ UseEvaluation \/ Measure \/ Finalize
    \/ WriteCard \/ Receive \/ VerifyFinal \/ WriteEvidence \/ WriteReport \/ FreezeCharter
    \/ Conclude

Next == Step \/ Orphaned \/ OrphanEnds \/ Kill

Spec == Init /\ [][Next]_vars

\* A phase goes on by itself and is run again after a failure; an orphan ends.
FairSpec == Spec /\ WF_vars(Step) /\ WF_vars(OrphanEnds)

-----------------------------------------------------------------------------
(* Properties. *)

Complete(file) == disk[file] \notin {None, Partial}

Receipts == {None, Partial} \union 1..Epochs

TypeOK ==
    /\ disk.linker \in BOOLEAN /\ disk.card \in BOOLEAN /\ disk.finalReceipt \in BOOLEAN
    /\ disk.request \in [Arms -> [1..Epochs -> Draws \union {None}]]
    /\ disk.result \in [Arms -> [1..Epochs -> Draws \union {None}]]
    /\ disk.receipt \in [Arms -> Receipts]
    /\ process.k \in DOMAIN ArmOrder /\ process.epoch \in 1..(Epochs + 1)
    /\ kills \in 0..MaxKills

\* What the release is decided on is one chain, whatever was killed, drawn anew or left to an
\* orphan on the way: each evaluation is of the checkpoint its arm's receipt selected, that
\* receipt is the best of scores that are the recorded results; the study compares these very
\* evaluations; and the charter rests on the baselines' evaluations alone.
StudyIsOneChain ==
    /\ TypeOK
    /\ \A a \in Arms : disk.evaluation[a] # None =>
          /\ disk.receipt[a] \in 1..Epochs
          /\ disk.evaluation[a].epoch = disk.receipt[a]
          /\ disk.scores[a] = disk.result[a]
          /\ \A e \in 1..Epochs : disk.result[a][e].top <= disk.result[a][disk.receipt[a]].top
    /\ disk.study # None =>
          LET b == disk.evaluation[Primary].metrics
              c == disk.evaluation[Joint].metrics
          IN  /\ disk.study.charter.variability = Variability
              /\ disk.final = [receipts |-> [a \in Baselines |-> disk.receipt[a]],
                               measured |-> Variability]
              /\ disk.study.selected = Joint =>
                    /\ c.top >= b.top + 2 /\ b.wrong > c.wrong
                    /\ b.detL <= c.detL + 1 /\ b.detT <= c.detT + 1

\* A step leaves a file other evidence may refer to by its hash as it is, once it is whole.
KeepsEvidence ==
    /\ \A a \in Arms, e \in 1..Epochs, f \in {"request", "result"} :
         disk[f][a][e] # None => disk'[f][a][e] = disk[f][a][e]
    /\ \A a \in Arms, f \in {"scores", "receipt", "evaluation"} :
         disk[f][a] \notin {None, Partial} => disk'[f][a] = disk[f][a]
    /\ \A f \in {"models", "measured", "final", "evidence", "report", "charter", "study"} :
         Complete(f) => disk'[f] = disk[f]

\* Evidence is never replaced: whatever is killed, retried or finished late by an orphan,
\* nothing that later evidence rests on changes under it.
EvidenceIsKept == [][KeepsEvidence]_vars

\* A kill leaves the workspace in a state no run of the phase gets out of by itself: between a
\* request and its result (the next inference draws other metrics), in the middle of a receipt
\* written in place, or between the final E0 artifacts and the driver's receipt for them.
Caught ==
    /\ At("idle")
    /\ \/ \E a \in Arms, e \in 1..Epochs : disk.request[a][e] # None /\ disk.result[a][e] = None
       \/ \E a \in Arms : disk.receipt[a] = Partial
       \/ disk.models = Partial
       \/ disk.final # None /\ ~disk.finalReceipt

\* The phases are accepted in the end, by running them again, unless a kill fell into one of
\* these windows.
StudyResumesUnlessCaught == <>(disk.study # None) \/ <>Caught

-----------------------------------------------------------------------------
(* The inductive invariant of StudyQualificationProofs. *)

ModelsPhase == {"prepare", "score", "official", "select", "selected", "qualify", "qualified"}
StudyPhase == {"evaluate", "measure", "finalize", "card", "receive", "verify", "evidence",
               "report", "freeze", "conclude"}

\* What the scores and the receipt of an arm are once they are whole.
Scored(a) == disk.scores[a] = disk.result[a] /\ disk.result[a] \in [1..Epochs -> Draws]
IsSelected(a) == Scored(a) /\ disk.receipt[a] = Selected(disk.scores[a])

\* Files and variables have their shapes.
Shapes ==
    /\ DOMAIN disk = {"linker", "request", "result", "scores", "receipt", "models", "evaluation",
                      "measured", "final", "card", "finalReceipt", "evidence", "report",
                      "charter", "study"}
    /\ DOMAIN process = {"pc", "k", "epoch"}
    /\ process.pc \in {"idle"} \union ModelsPhase \union StudyPhase
    /\ TypeOK
    /\ disk.scores \in [Arms -> {None} \union [1..Epochs -> Draws]]
    /\ disk.evaluation \in [Arms -> {None} \union Evaluations]
    /\ orphan \in {None} \union [arm : Arms, found : Draws]

\* The files of the first phase follow from each other, and it is complete before an arm is
\* evaluated.
FilesFollow ==
    /\ \A a \in Arms :
         /\ \A e \in 1..Epochs : disk.result[a][e] # None => disk.result[a][e] = disk.request[a][e]
         /\ disk.scores[a] # None => Scored(a)
         /\ disk.receipt[a] \notin {None, Partial} => IsSelected(a)
         /\ disk.evaluation[a] # None =>
               Complete("models") /\ disk.evaluation[a].epoch = disk.receipt[a]
    /\ Complete("models") => \A a \in Arms : IsSelected(a)

\* The first phase is done in order, and before the second.
InOrder ==
    /\ process.pc \in StudyPhase \/ orphan # None => Complete("models")
    /\ process.pc \in ModelsPhase => disk.models \in {None, Partial}
    /\ At("prepare") => process.k = 1 /\ process.epoch = 1
    /\ process.pc \in {"score", "official", "select", "selected"} =>
          \A i \in 1..(process.k - 1) : IsSelected(ArmOrder[i])
    /\ process.pc \in {"score", "official"} =>
          \A e \in 1..(process.epoch - 1) : disk.result[Arm][e] \in Draws
    /\ At("official") => process.epoch <= Epochs /\ disk.request[Arm][process.epoch] \in Draws
    /\ process.pc \in {"select", "selected"} => Scored(Arm)
    /\ At("qualify") \/ At("qualified") => \A a \in Arms : IsSelected(a)
    /\ At("qualified") => disk.models = Partial

ModelsInv == Shapes /\ FilesFollow /\ InOrder

AllEvaluated == \A a \in Arms : disk.evaluation[a] # None

FinalArtifacts == [receipts |-> [a \in Baselines |-> disk.receipt[a]], measured |-> Variability]

Outcome == [selected |-> Report(StudyEvidence).selected, charter |-> FreezeEvidence]

\* A file of the second phase is what its step derives from the evaluations there are now.
Derived(file, value) == disk[file] # None => AllEvaluated /\ disk[file] = value

\* The files of the second phase follow from each other.
ChainFollows ==
    /\ Derived("measured", Variability)
    /\ Derived("final", FinalArtifacts)
    /\ Derived("evidence", StudyEvidence)
    /\ Derived("report", Report(StudyEvidence))
    /\ Derived("charter", FreezeEvidence)
    /\ Derived("study", Outcome)
    /\ disk.study # None => disk.final = FinalArtifacts

\* What a step of the second phase relies on has been written before it.
StudyInOrder ==
    /\ ~At("idle") => disk.study = None
    /\ At("evaluate") => \A i \in 1..(process.k - 1) : disk.evaluation[ArmOrder[i]] # None
    /\ process.pc \in StudyPhase \ {"evaluate"} => AllEvaluated
    /\ process.pc \in StudyPhase \ {"evaluate", "measure"} => disk.measured = Variability
    /\ At("finalize") => disk.final = None
    /\ process.pc \in StudyPhase \ {"evaluate", "measure", "finalize"} => disk.final = FinalArtifacts
    /\ process.pc \in {"report", "freeze", "conclude"} => disk.evidence = StudyEvidence
    /\ process.pc \in {"freeze", "conclude"} => disk.report = Report(StudyEvidence)
    /\ At("conclude") => disk.charter = FreezeEvidence

StudyInv == ChainFollows /\ StudyInOrder
=====
