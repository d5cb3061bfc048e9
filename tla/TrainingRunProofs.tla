--------------------------- MODULE TrainingRunProofs ---------------------------
(***************************************************************************)
(* Theorems about TrainingRun: TrainingInv is inductive, so the safety of  *)
(* resuming holds for any number of epochs, frames, sources and failures;  *)
(* and a complete run is final.                                            *)
(***************************************************************************)
EXTENDS TrainingRun, FiniteSetTheorems, TLAPS

\* A nonempty set of naturals has a least element.
LEMMA Least ==
    ASSUME NEW T, T \subseteq Nat, T # {}
    PROVE  \E x \in T : \A y \in T : x <= y
<1>1. IsWellFoundedOn(OpToRel(<, Nat), Nat)
  BY NatLessThanWellFounded
<1>2. \E x \in T : \A y \in T : ~ (<<y, x>> \in OpToRel(<, Nat))
  BY <1>1, WFMin
<1>3. \A x, y \in Nat : <<y, x>> \in OpToRel(<, Nat) \/ x <= y
  BY DEF OpToRel
<1> QED
  BY <1>2, <1>3, Zenon

\* A nonempty set of naturals up to m has a greatest element.
LEMMA Greatest ==
    ASSUME NEW m \in Nat, NEW S, S \subseteq 0..m, S # {}
    PROVE  \E x \in S : \A y \in S : y <= x
<1> DEFINE T == {n \in Nat : m - n \in S}
<1>1. \A y \in S : y \in 0..m /\ m - y \in T
  OBVIOUS
<1>2. PICK x \in T : \A y \in T : x <= y
  <2>1. T \subseteq Nat /\ T # {}
    BY <1>1
  <2> HIDE DEF T
  <2> QED
    BY <2>1, Least
<1>3. x \in Nat /\ m - x \in S
  BY <1>2
<1>4. ASSUME NEW y \in S PROVE y <= m - x
  <2>1. y \in 0..m /\ m - y \in T
    BY <1>1
  <2>2. x <= m - y
    BY <1>2, <2>1
  <2> QED
    BY <1>3, <2>1, <2>2
<1> QED
  BY <1>3, <1>4

\* Weights nobody has trained are weights.
LEMMA UntrainedType == Untrained \in Weights
BY TrainingConstants DEF Untrained, Weights

\* A run starts in TrainingInv.
THEOREM InitInv == Init => TrainingInv
<1> SUFFICES ASSUME Init PROVE TrainingInv
  OBVIOUS
<1>1. TypeOK
  <2>1. root \in {"absent", "bare", "ready"} /\ manifest \in Manifest \union {None}
    BY DEF Init
  <2>2. pt \in [Epoch -> Weights \union {None}] /\ receipt \in [Epoch -> Weights \union {None}]
    BY DEF Init
  <2>3. logged \in SUBSET (Epoch \X (1..Frames)) /\ torn \in BOOLEAN
    BY DEF Init
  <2>4. /\ pc \in {"idle", "open", "mkdir", "fresh", "verify", "train", "save", "receipt"}
        /\ who \in Source \union {None} /\ resume \in BOOLEAN
    BY DEF Init
  <2>5. model \in Weights /\ epoch \in 1..(MaxEpoch + 1)
    BY TrainingConstants, UntrainedType DEF Init
  <2>6. frame \in 0..Frames /\ grads \in 0..Frames
    BY TrainingConstants DEF Init
  <2>7. /\ selection \in -1..MaxEpoch
        /\ spc \in {"idle", "select", "write"} /\ scored \in SUBSET Epoch
        /\ faults \in Nat
    BY TrainingConstants DEF Init
  <2> QED
    BY <2>1, <2>2, <2>3, <2>4, <2>5, <2>6, <2>7 DEF TypeOK
<1>2. Blank /\ ~Complete
  BY DEF Init, Blank, Complete
<1>3. ReceiptsVerify /\ LoggedBeforeReceipt /\ OneSource /\ NoGap
  BY <1>2 DEF Blank, ReceiptsVerify, LoggedBeforeReceipt, OneSource, NoGap
<1> QED
  BY <1>1, <1>2, <1>3 DEF Init, TrainingInv, Untrained

-----------------------------------------------------------------------------
(***************************************************************************)
(* What the trainer's death leaves behind                                  *)
(***************************************************************************)

\* A trainer that is gone owes nothing: the invariant is then one about files.
LEMMA GoneInv ==
    ASSUME TrainingInv, TrainerGone, UNCHANGED <<root, pt, receipt>>,
           manifest' = manifest \/ (manifest' \in Manifest /\ manifest # None
              /\ manifest'.source = manifest.source /\ root # "absent"
              /\ \A e \in Epoch : receipt[e] # None),
           logged \subseteq logged', logged' \subseteq Epoch \X (1..Frames), torn' \in BOOLEAN,
           selection' = selection, spc' = spc, scored' = scored, faults' \in Nat
    PROVE  TrainingInv'
<1>1. TypeOK'
  <2>1. /\ root' \in {"absent", "bare", "ready"} /\ manifest' \in Manifest \union {None}
        /\ pt' \in [Epoch -> Weights \union {None}]
        /\ receipt' \in [Epoch -> Weights \union {None}]
    BY DEF TrainingInv, TypeOK
  <2>2. /\ pc' \in {"idle", "open", "mkdir", "fresh", "verify", "train", "save", "receipt"}
        /\ who' \in Source \union {None} /\ resume' \in BOOLEAN
    BY DEF TrainerGone
  <2>3. model' \in Weights /\ epoch' \in 1..(MaxEpoch + 1)
    BY TrainingConstants, UntrainedType DEF TrainerGone
  <2>4. frame' \in 0..Frames /\ grads' \in 0..Frames
    BY TrainingConstants DEF TrainerGone
  <2>5. /\ selection' \in -1..MaxEpoch
        /\ spc' \in {"idle", "select", "write"} /\ scored' \in SUBSET Epoch
    BY DEF TrainingInv, TypeOK
  <2> QED
    BY <2>1, <2>2, <2>3, <2>4, <2>5 DEF TypeOK
<1>2. ReceiptsVerify' /\ LoggedBeforeReceipt' /\ NoGap'
  BY DEF TrainingInv, ReceiptsVerify, LoggedBeforeReceipt, NoGap
<1>3. OneSource'
  BY TrainingConstants DEF TrainingInv, OneSource, Manifest
<1>4. Complete' => \A e \in Epoch : receipt'[e] # None
  BY DEF TrainingInv, Complete
<1>5. root' = "absent" => Blank'
  BY DEF TrainingInv, Blank
<1> QED
  BY <1>1, <1>2, <1>3, <1>4, <1>5 DEF TrainingInv, TrainerGone, Untrained

\* What is retained stays as it was while neither files nor selection change.
LEMMA FilesKept ==
    ASSUME TrainingInv, UNCHANGED files
    PROVE  /\ ReceiptsVerify' /\ LoggedBeforeReceipt' /\ OneSource' /\ NoGap'
           /\ (Complete <=> Complete') /\ (Blank <=> Blank')
           /\ (root' = "absent" => Blank')
           /\ (Complete' => \A e \in Epoch : receipt'[e] # None)
BY DEF TrainingInv, files, ReceiptsVerify, LoggedBeforeReceipt, OneSource, NoGap, Complete, Blank

\* The records a trainer can write are of its epoch.
LEMMA RecordsType ==
    ASSUME TypeOK, epoch \in Epoch, NEW n \in 0..Frames
    PROVE  Records(n) \subseteq Epoch \X (1..Frames)
BY TrainingConstants DEF Records, TypeOK

\* A resume finds the newest receipt, and nothing is retained beyond the next epoch.
LEMMA LastReceipt ==
    ASSUME TrainingInv, Resumable
    PROVE  /\ Last \in Epoch
           /\ \A e \in Epoch : receipt[e] # None <=> e < Last + 1
           /\ \A e \in Epoch : e > Last + 1 => pt[e] = None
           /\ pt[Last] \in Weights
<1> DEFINE Kept == {e \in Epoch : receipt[e] # None}
<1>1. PICK x \in Kept : \A y \in Kept : y <= x
  <2>1. Kept \subseteq 0..MaxEpoch /\ Kept # {} /\ MaxEpoch \in Nat
    BY TrainingConstants DEF Resumable, Epoch
  <2> HIDE DEF Kept
  <2> QED
    BY <2>1, Greatest
<1>2. x \in Epoch /\ receipt[x] # None /\ \A d \in Epoch : d > x => receipt[d] = None
  BY <1>1 DEF Epoch
<1>3. Last \in Epoch /\ receipt[Last] # None /\ \A d \in Epoch : d > Last => receipt[d] = None
  BY <1>2 DEF Last
<1>4. \A e \in Epoch : receipt[e] # None <=> e < Last + 1
  BY <1>3, TrainingConstants DEF TrainingInv, NoGap, Epoch
<1>5. \A e \in Epoch : e > Last + 1 => pt[e] = None
  <2> SUFFICES ASSUME NEW e \in Epoch, e > Last + 1, pt[e] # None PROVE FALSE
    OBVIOUS
  <2>1. e - 1 \in Epoch /\ e - 1 \in 1..(e - 1) /\ e - 1 > Last
    BY <1>3, TrainingConstants DEF Epoch
  <2>2. receipt[e - 1] # None
    BY <2>1 DEF TrainingInv, NoGap
  <2> QED
    BY <1>3, <2>1, <2>2
<1>6. pt[Last] \in Weights
  BY <1>3, TrainingConstants DEF TrainingInv, TypeOK, ReceiptsVerify
<1> QED
  BY <1>3, <1>4, <1>5, <1>6

-----------------------------------------------------------------------------
(***************************************************************************)
(* One lemma per kind of step                                              *)
(***************************************************************************)

\* Starting a trainer, opening its root and making its directories.
LEMMA StartInv == TrainingInv /\ Start => TrainingInv'
<1> SUFFICES ASSUME TrainingInv, Start PROVE TrainingInv'
  OBVIOUS
<1>1. TypeOK'
  BY DEF TrainingInv, TypeOK, Start, files, chooser
<1> QED
  BY <1>1, FilesKept DEF TrainingInv, Start

LEMMA OpenRootInv == TrainingInv /\ OpenRoot => TrainingInv'
<1> SUFFICES ASSUME TrainingInv, OpenRoot PROVE TrainingInv'
  OBVIOUS
<1>1. CASE root # "absent" /\ ~resume
  BY <1>1, GoneInv DEF OpenRoot, TrainingInv, TypeOK, files, chooser
<1>2. CASE ~(root # "absent" /\ ~resume)
  <2>1. TypeOK'
    BY <1>2 DEF TrainingInv, TypeOK, OpenRoot, chooser
  <2>2. ReceiptsVerify' /\ LoggedBeforeReceipt' /\ OneSource' /\ NoGap' /\ (Complete <=> Complete')
    BY <1>2 DEF TrainingInv, OpenRoot, ReceiptsVerify, LoggedBeforeReceipt, OneSource, NoGap, Complete
  <2>3. (root' = "absent" => Blank') /\ (~resume' => Blank')
    BY <1>2 DEF TrainingInv, OpenRoot, Blank
  <2> QED
    BY <1>2, <2>1, <2>2, <2>3 DEF TrainingInv, OpenRoot
<1> QED
  BY <1>1, <1>2

LEMMA MakeCheckpointRootInv == TrainingInv /\ MakeCheckpointRoot => TrainingInv'
<1> SUFFICES ASSUME TrainingInv, MakeCheckpointRoot PROVE TrainingInv'
  OBVIOUS
<1>1. TypeOK'
  BY DEF TrainingInv, TypeOK, MakeCheckpointRoot, chooser
<1>2. ReceiptsVerify' /\ LoggedBeforeReceipt' /\ OneSource' /\ NoGap' /\ (Complete <=> Complete')
  BY DEF TrainingInv, MakeCheckpointRoot, ReceiptsVerify, LoggedBeforeReceipt, OneSource, NoGap, Complete
<1>3. pc' = "fresh" => Blank'
  BY DEF TrainingInv, MakeCheckpointRoot, Blank
<1> QED
  BY <1>1, <1>2, <1>3 DEF TrainingInv, MakeCheckpointRoot

LEMMA WriteRunManifestInv == TrainingInv /\ WriteRunManifest => TrainingInv'
<1> SUFFICES ASSUME TrainingInv, WriteRunManifest PROVE TrainingInv'
  OBVIOUS
<1>1. who \in Source /\ manifest' \in Manifest /\ manifest'.source = who /\ manifest'.state = "RUNNING"
  BY DEF TrainingInv, WriteRunManifest, Manifest
<1>2. TypeOK'
  BY <1>1 DEF TrainingInv, TypeOK, WriteRunManifest, chooser
<1>3. \A e \in Epoch : pt'[e] = None /\ receipt'[e] = None
  BY DEF TrainingInv, WriteRunManifest, Blank
<1>4. ReceiptsVerify' /\ LoggedBeforeReceipt' /\ OneSource' /\ NoGap' /\ ~Complete'
  BY <1>1, <1>3 DEF ReceiptsVerify, LoggedBeforeReceipt, OneSource, NoGap, Complete
<1>5. AtWorkOK'
  BY <1>1, <1>3, <1>4, TrainingConstants DEF TrainingInv, WriteRunManifest, AtWorkOK, Epoch
<1>6. root' # "absent"
  BY DEF TrainingInv, WriteRunManifest
<1> QED
  BY <1>1, <1>2, <1>4, <1>5, <1>6 DEF TrainingInv, WriteRunManifest

\* A resume that ends, and one that goes on.
LEMMA ResumeEndsInv == TrainingInv /\ ResumeEnds => TrainingInv'
BY GoneInv DEF ResumeEnds, TrainingInv, TypeOK, files, chooser

LEMMA RestoreInv == TrainingInv /\ Restore => TrainingInv'
<1> SUFFICES ASSUME TrainingInv, Restore PROVE TrainingInv'
  OBVIOUS
<1>1. /\ Last \in Epoch
      /\ \A e \in Epoch : receipt[e] # None <=> e < Last + 1
      /\ \A e \in Epoch : e > Last + 1 => pt[e] = None
      /\ pt[Last] \in Weights
  BY LastReceipt DEF Restore
<1>2. model' \in Weights /\ epoch' \in 1..(MaxEpoch + 1)
  BY <1>1, TrainingConstants DEF Restore, Epoch
<1>3. TypeOK'
  BY <1>2 DEF TrainingInv, TypeOK, Restore, files, chooser
<1>4. ~Complete /\ manifest # None /\ manifest.source = who
  BY DEF Restore, Resumable
<1>5. model'.by \subseteq {who}
  BY <1>1, <1>4, TrainingConstants DEF TrainingInv, OneSource, Restore
<1>6. AtWorkOK'
  BY <1>1, <1>4, <1>5 DEF AtWorkOK, Restore, files, Complete
<1>7. UNCHANGED files
  BY DEF Restore
<1>8. frame' = 0 /\ grads' <= frame' /\ pc' = "train" /\ who' \in Source /\ root' # "absent"
  BY DEF TrainingInv, Restore, files
<1> QED
  BY <1>3, <1>6, <1>7, <1>8, FilesKept DEF TrainingInv

LEMMA TrainFrameInv == TrainingInv /\ TrainFrame => TrainingInv'
<1> SUFFICES ASSUME TrainingInv, TrainFrame PROVE TrainingInv'
  OBVIOUS
<1>1. model' \in Weights /\ model'.by = model.by
  BY DEF TrainingInv, TypeOK, TrainFrame, Weights
<1>2. frame' \in 0..Frames
  BY TrainingConstants DEF TrainingInv, TypeOK, TrainFrame
<1>3. grads' \in 0..Frames /\ grads' <= frame'
  <2>1. /\ grads \in 0..Frames /\ frame \in 0..Frames /\ frame' = frame + 1 /\ frame' \in 0..Frames
        /\ grads <= frame /\ (grads' = 0 \/ grads' = grads + 1)
    BY <1>2 DEF TrainingInv, TypeOK, TrainFrame
  <2> QED
    BY <2>1, TrainingConstants
<1>4. TypeOK'
  BY <1>1, <1>2, <1>3 DEF TrainingInv, TypeOK, TrainFrame, files, chooser
<1>5. AtWorkOK'
  BY <1>1 DEF TrainingInv, TrainFrame, AtWorkOK, files, Complete
<1>6. UNCHANGED files
  BY DEF TrainFrame
<1>7. pc' = "train" /\ who' \in Source /\ root' # "absent"
  BY DEF TrainingInv, TrainFrame, files
<1>8. ~ (epoch' > MaxEpoch)
  BY TrainingConstants DEF TrainingInv, TypeOK, TrainFrame
<1> QED
  BY <1>3, <1>4, <1>5, <1>6, <1>7, <1>8, FilesKept DEF TrainingInv

\* The log, the checkpoint and the receipt of an epoch.
LEMMA FlushMetricsInv == TrainingInv /\ FlushMetrics => TrainingInv'
<1> SUFFICES ASSUME TrainingInv, FlushMetrics PROVE TrainingInv'
  OBVIOUS
<1>1. epoch \in Epoch /\ who \in Source /\ frame = Frames /\ model \in Weights
  BY TrainingConstants DEF TrainingInv, TypeOK, FlushMetrics, Epoch
<1>2. /\ model'.by = model.by \union {who} /\ model'.epoch = epoch
     /\ model'.steps = model.steps /\ model'.after = faults
  BY DEF FlushMetrics
<1>3. model' \in Weights
  <2>1. /\ model'.epoch \in 0..MaxEpoch /\ model'.steps \in Nat
        /\ model'.by \in SUBSET Source /\ model'.after \in Nat
    BY <1>1, <1>2, TrainingConstants DEF Weights, Epoch, TrainingInv, TypeOK
  <2>2. model' = [epoch |-> model'.epoch, steps |-> model'.steps, by |-> model'.by,
                  after |-> model'.after]
    BY DEF FlushMetrics
  <2> QED
    BY <2>1, <2>2 DEF Weights
<1>4. Records(Frames) \subseteq Epoch \X (1..Frames) /\ logged \subseteq logged'
  BY <1>1, RecordsType, TrainingConstants DEF TrainingInv, FlushMetrics
<1>5. \A f \in 2..Frames : <<epoch, f>> \in logged'
  BY TrainingConstants DEF FlushMetrics, Records
<1>6. TypeOK'
  BY <1>3, <1>4 DEF TrainingInv, TypeOK, FlushMetrics, chooser
<1>7. ReceiptsVerify' /\ LoggedBeforeReceipt' /\ OneSource' /\ NoGap' /\ (Complete <=> Complete')
  BY <1>4 DEF TrainingInv, FlushMetrics, ReceiptsVerify, LoggedBeforeReceipt, OneSource, NoGap, Complete
<1>8. AtWorkOK'
  <2>1. AtWorkOK
    BY DEF TrainingInv, FlushMetrics
  <2>2. model'.by \subseteq {who'}
    BY <1>2, <2>1 DEF AtWorkOK, FlushMetrics
  <2> QED
    BY <1>1, <1>5, <1>7, <2>1, <2>2 DEF AtWorkOK, FlushMetrics
<1> QED
  BY <1>1, <1>6, <1>7, <1>8 DEF TrainingInv, FlushMetrics

LEMMA InstallCheckpointInv == TrainingInv /\ InstallCheckpoint => TrainingInv'
<1> SUFFICES ASSUME TrainingInv, InstallCheckpoint PROVE TrainingInv'
  OBVIOUS
<1>1. AtWorkOK /\ epoch \in Epoch /\ model \in Weights /\ pt \in [Epoch -> Weights \union {None}]
  BY DEF TrainingInv, TypeOK, InstallCheckpoint, AtWorkOK
<1>2. pt' \in [Epoch -> Weights \union {None}] /\ pt'[epoch] = model
      /\ \A e \in Epoch : e # epoch => pt'[e] = pt[e]
  BY <1>1 DEF InstallCheckpoint
<1>3. receipt[epoch] = None /\ \A d \in 1..(epoch - 1) : receipt[d] # None
  BY <1>1, TrainingConstants DEF AtWorkOK, Epoch
<1>4. TypeOK'
  BY <1>2 DEF TrainingInv, TypeOK, InstallCheckpoint, chooser
<1>5. ReceiptsVerify' /\ LoggedBeforeReceipt' /\ (Complete <=> Complete')
  BY <1>2, <1>3 DEF TrainingInv, InstallCheckpoint, ReceiptsVerify, LoggedBeforeReceipt, Complete
<1>6. OneSource'
  BY <1>1, <1>2 DEF TrainingInv, InstallCheckpoint, OneSource, AtWorkOK
<1>7. NoGap'
  BY <1>2, <1>3 DEF TrainingInv, InstallCheckpoint, NoGap
<1>8. AtWorkOK'
  BY <1>1, <1>2, <1>5, TrainingConstants DEF AtWorkOK, InstallCheckpoint, Epoch
<1> QED
  BY <1>1, <1>4, <1>5, <1>6, <1>7, <1>8 DEF TrainingInv, InstallCheckpoint

LEMMA InstallReceiptInv == TrainingInv /\ InstallReceipt => TrainingInv'
<1> SUFFICES ASSUME TrainingInv, InstallReceipt PROVE TrainingInv'
  OBVIOUS
<1>1. /\ AtWorkOK /\ epoch \in Epoch /\ model \in Weights /\ pt[epoch] = model
      /\ receipt \in [Epoch -> Weights \union {None}]
  BY DEF TrainingInv, TypeOK, InstallReceipt, AtWorkOK
<1>2. /\ receipt' \in [Epoch -> Weights \union {None}] /\ receipt'[epoch] = model
      /\ model # None /\ \A e \in Epoch : e # epoch => receipt'[e] = receipt[e]
  BY <1>1, TrainingConstants DEF InstallReceipt
<1>3. epoch' = epoch + 1 /\ epoch' \in 1..(MaxEpoch + 1)
  BY <1>1, TrainingConstants DEF InstallReceipt, Epoch
<1>4. TypeOK'
  <2>1. frame' \in 0..Frames /\ grads' \in 0..Frames
    BY TrainingConstants DEF InstallReceipt
  <2> QED
    BY <1>2, <1>3, <2>1 DEF TrainingInv, TypeOK, InstallReceipt, chooser
<1>5. ReceiptsVerify' /\ LoggedBeforeReceipt' /\ (Complete <=> Complete') /\ OneSource'
  BY <1>1, <1>2 DEF TrainingInv, InstallReceipt, ReceiptsVerify, LoggedBeforeReceipt, Complete,
                    OneSource, AtWorkOK
<1>6. \A e \in Epoch : receipt'[e] # None <=> e < epoch'
  BY <1>1, <1>2, <1>3, TrainingConstants DEF AtWorkOK, Epoch
<1>7. \A e \in Epoch : pt'[e] # None => e < epoch'
  BY <1>1, <1>3, TrainingConstants DEF AtWorkOK, InstallReceipt, Epoch
<1>8. NoGap'
  BY <1>3, <1>6, <1>7, TrainingConstants DEF NoGap, Epoch
<1>9. AtWorkOK'
  BY <1>1, <1>3, <1>5, <1>6, <1>7, TrainingConstants DEF AtWorkOK, InstallReceipt, Epoch
<1> QED
  BY <1>1, <1>3, <1>4, <1>5, <1>8, <1>9, TrainingConstants DEF TrainingInv, InstallReceipt, AtWorkOK

LEMMA FinishTrainingInv == TrainingInv /\ FinishTraining => TrainingInv'
<1> SUFFICES ASSUME TrainingInv, FinishTraining PROVE TrainingInv'
  OBVIOUS
<1>1. AtWorkOK /\ epoch > MaxEpoch /\ manifest \in Manifest
  BY DEF TrainingInv, TypeOK, FinishTraining, AtWorkOK
<1>2. \A e \in Epoch : receipt[e] # None
  BY <1>1, TrainingConstants DEF TrainingInv, TypeOK, AtWorkOK, Epoch
<1>3. manifest' \in Manifest /\ manifest'.source = manifest.source
  <2>1. logged \subseteq Epoch \X (1..Frames)
    BY DEF TrainingInv, TypeOK
  <2> QED
    BY <1>1, <2>1 DEF FinishTraining, Manifest
<1>4. root # "absent"
  BY DEF TrainingInv, FinishTraining
<1> QED
  BY <1>1, <1>2, <1>3, <1>4, GoneInv DEF FinishTraining, TrainingInv, TypeOK, AtWorkOK, chooser

\* The trainer raises or dies; its buffered records are written, or some of them.
LEMMA FailureInv == TrainingInv /\ (TrainerRaises \/ TrainerDies) => TrainingInv'
<1> SUFFICES ASSUME TrainingInv, TrainerRaises \/ TrainerDies PROVE TrainingInv'
  OBVIOUS
<1>1. faults' \in Nat /\ TrainerGone /\ UNCHANGED <<root, manifest, pt, receipt, chooser>>
  BY DEF TrainerRaises, TrainerDies, TrainingInv, TypeOK
<1>2. ASSUME NEW n \in 0..frame, logged' = logged \union Records(n), torn' \in BOOLEAN
      PROVE  logged \subseteq logged' /\ logged' \subseteq Epoch \X (1..Frames)
  <2>1. logged \subseteq Epoch \X (1..Frames) /\ frame \in 0..Frames /\ n \in 0..Frames
    BY <1>2, TrainingConstants DEF TrainingInv, TypeOK
  <2>2. CASE n = 0
    BY <1>2, <2>1, <2>2 DEF Records
  <2>3. CASE n # 0
    <3>1. epoch \in Epoch
      BY <2>1, <2>3, TrainingConstants DEF TrainingInv, TypeOK, Epoch
    <3> QED
      BY <1>2, <2>1, <3>1, RecordsType DEF TrainingInv
  <2> QED
    BY <2>2, <2>3
<1>3. \/ logged' = logged /\ torn' = torn
      \/ torn' \in BOOLEAN /\ \E n \in 0..frame : logged' = logged \union Records(n)
  <2>1. CASE TrainerRaises
    <3>1. frame \in 0..frame
      BY TrainingConstants DEF TrainingInv, TypeOK
    <3> QED
      BY <2>1, <3>1 DEF TrainerRaises
  <2>2. CASE TrainerDies
    BY <2>2 DEF TrainerDies, TrainingInv, TypeOK
  <2> QED
    BY <2>1, <2>2
<1>4. /\ logged \subseteq logged' /\ logged' \subseteq Epoch \X (1..Frames)
      /\ torn' \in BOOLEAN
  BY <1>2, <1>3 DEF TrainingInv, TypeOK
<1> QED
  BY <1>1, <1>4, GoneInv DEF TrainingInv, TypeOK, chooser

\* Epochs counted, and a set of epochs counted.
LEMMA EpochCount ==
    /\ IsFiniteSet(Epoch) /\ Cardinality(Epoch) = MaxEpoch
    /\ \A S \in SUBSET Epoch : Cardinality(S) \in 0..MaxEpoch
<1>1. IsFiniteSet(Epoch) /\ Cardinality(Epoch) = MaxEpoch
  BY FS_Interval, TrainingConstants DEF Epoch
<1>2. ASSUME NEW S \in SUBSET Epoch PROVE Cardinality(S) \in 0..MaxEpoch
  <2>1. IsFiniteSet(S) /\ Cardinality(S) <= Cardinality(Epoch)
    BY <1>1, FS_Subset
  <2>2. Cardinality(S) \in Nat
    BY <2>1, FS_CardinalityType
  <2> QED
    BY <1>1, <2>1, <2>2, TrainingConstants
<1> QED
  BY <1>1, <1>2

\* The selector reads and writes nothing of the trainer's.
LEMMA SelectorInv ==
    TrainingInv /\ (Score \/ SelectorStep \/ SelectorDies) => TrainingInv'
<1> SUFFICES ASSUME TrainingInv, Score \/ SelectorStep \/ SelectorDies PROVE TrainingInv'
  OBVIOUS
<1>1. UNCHANGED files /\ UNCHANGED trainer
  BY DEF Score, SelectorStep, SelectEnds, CreateSelection, WriteSelection, SelectorDies
<1>2. selection \in -1..MaxEpoch /\ scored \in SUBSET Epoch /\ faults \in Nat
  BY DEF TrainingInv, TypeOK
<1>3. selection' \in -1..MaxEpoch
  <2>1. selection' = selection \/ selection' = -1 \/ selection' = Cardinality(scored)
    BY DEF Score, SelectorStep, SelectEnds, CreateSelection, WriteSelection, SelectorDies
  <2> QED
    BY <1>2, <2>1, EpochCount, TrainingConstants
<1>4. spc' \in {"idle", "select", "write"} /\ scored' \in SUBSET Epoch
  BY <1>2 DEF Score, SelectorStep, SelectEnds, CreateSelection, WriteSelection, SelectorDies
<1>5. faults' \in Nat
  BY <1>2 DEF Score, SelectorStep, SelectEnds, CreateSelection, WriteSelection, SelectorDies
<1>6. TypeOK'
  BY <1>1, <1>3, <1>4, <1>5 DEF TrainingInv, TypeOK, files, trainer
<1>7. AtWorkOK <=> AtWorkOK'
  BY <1>1 DEF files, trainer, AtWorkOK, Complete
<1> QED
  BY <1>1, <1>6, <1>7, FilesKept DEF TrainingInv, files, trainer

-----------------------------------------------------------------------------
(***************************************************************************)
(* The theorems                                                            *)
(***************************************************************************)

\* Every step preserves TrainingInv.
THEOREM NextInv == TrainingInv /\ [Next]_vars => TrainingInv'
<1> SUFFICES ASSUME TrainingInv, [Next]_vars PROVE TrainingInv'
  OBVIOUS
<1>1. CASE UNCHANGED vars
  <2>1. UNCHANGED files /\ UNCHANGED trainer /\ UNCHANGED chooser /\ faults' = faults
    BY <1>1 DEF vars
  <2>2. TypeOK' /\ (AtWorkOK <=> AtWorkOK')
    BY <2>1 DEF TrainingInv, TypeOK, AtWorkOK, Complete, files, trainer, chooser
  <2> QED
    BY <2>1, <2>2, FilesKept DEF TrainingInv, files, trainer
<1>2. CASE TrainerStep
  BY <1>2, OpenRootInv, MakeCheckpointRootInv, WriteRunManifestInv, ResumeEndsInv, RestoreInv,
     TrainFrameInv, FlushMetricsInv, InstallCheckpointInv, InstallReceiptInv, FinishTrainingInv
     DEF TrainerStep
<1>3. CASE Start \/ TrainerRaises \/ TrainerDies
  BY <1>3, StartInv, FailureInv
<1>4. CASE Score \/ SelectorStep \/ SelectorDies
  BY <1>4, SelectorInv
<1> QED
  BY <1>1, <1>2, <1>3, <1>4 DEF Next

\* The invariant of training holds in every reachable state.
THEOREM Invariant == Spec => []TrainingInv
BY InitInv, NextInv, PTL DEF Spec

\* Every reachable state of a run has its declared types.
THEOREM TypeCorrect == Spec => []TypeOK
<1>1. TrainingInv => TypeOK
  BY DEF TrainingInv
<1> QED
  BY <1>1, Invariant, PTL

\* No crash of the trainer leaves a receipt for other bytes than its checkpoint's.
THEOREM ReceiptsHold == Spec => []ReceiptsVerify
<1>1. TrainingInv => ReceiptsVerify
  BY DEF TrainingInv
<1> QED
  BY <1>1, Invariant, PTL

\* What has a receipt is logged, but for a first frame lost in a torn line.
THEOREM ReceiptsAreLogged == Spec => []LoggedBeforeReceipt
<1>1. TrainingInv => LoggedBeforeReceipt
  BY DEF TrainingInv
<1> QED
  BY <1>1, Invariant, PTL

\* All that a run retains comes from the source its manifest names.
THEOREM RunsHaveOneSource == Spec => []OneSource
<1>1. TrainingInv => OneSource
  BY DEF TrainingInv
<1> QED
  BY <1>1, Invariant, PTL

\* Receipts have no gap.
THEOREM ReceiptsAreConsecutive == Spec => []NoGap
<1>1. TrainingInv => NoGap
  BY DEF TrainingInv
<1> QED
  BY <1>1, Invariant, PTL

\* No step changes what a complete run consists of.
LEMMA CompleteStep ==
    TrainingInv /\ [Next]_vars => (Complete => UNCHANGED <<manifest, pt, receipt, logged>>)
<1> SUFFICES ASSUME TrainingInv, [Next]_vars, Complete
             PROVE  UNCHANGED <<manifest, pt, receipt, logged>>
  OBVIOUS
<1>1. pc \notin {"fresh", "train", "save", "receipt"}
  BY DEF TrainingInv, AtWorkOK, Blank, Complete
<1> QED
  BY <1>1 DEF Next, vars, files, Start, TrainerStep, OpenRoot, MakeCheckpointRoot, ResumeEnds,
     Restore, WriteRunManifest, TrainFrame, FlushMetrics, InstallCheckpoint, InstallReceipt,
     FinishTraining, TrainerRaises, TrainerDies, Score, SelectorStep, SelectEnds,
     CreateSelection, WriteSelection, SelectorDies

\* A complete run is final, whoever starts whatever.
THEOREM CompleteRunsAreFinal == Spec => CompleteIsFinal
BY Invariant, CompleteStep, PTL DEF Spec, CompleteIsFinal

-----------------------------------------------------------------------------
(***************************************************************************)
(* The schedule: groups of frames, updates and epochs                      *)
(***************************************************************************)

\* A frame count is its full groups and the frames of the group under way.
LEMMA Division ==
    ASSUME NEW f \in Nat
    PROVE  /\ f = Accumulation * (f \div Accumulation) + (f % Accumulation)
           /\ f % Accumulation \in 0..(Accumulation - 1) /\ f \div Accumulation \in Nat
<1>1. Accumulation \in Nat \ {0}
  BY TrainingConstants
<1> QED
  BY <1>1

\* There is one such division.
LEMMA DivisionIsUnique ==
    ASSUME NEW f \in Nat, NEW q \in Int, NEW r \in 0..(Accumulation - 1), f = Accumulation * q + r
    PROVE  f \div Accumulation = q /\ f % Accumulation = r
<1>1. Accumulation \in Nat \ {0}
  BY TrainingConstants
<1> QED
  BY <1>1

\* One more frame ends the group or joins it.
LEMMA NextDivision ==
    ASSUME NEW f \in Nat
    PROVE  /\ (f + 1) % Accumulation = 0 =>
                /\ (f + 1) \div Accumulation = (f \div Accumulation) + 1
                /\ f % Accumulation = Accumulation - 1
           /\ (f + 1) % Accumulation # 0 =>
                /\ (f + 1) \div Accumulation = f \div Accumulation
                /\ (f + 1) % Accumulation = (f % Accumulation) + 1
                /\ (f % Accumulation) + 1 < Accumulation
<1> DEFINE q == f \div Accumulation
           r == f % Accumulation
<1>1. f = Accumulation * q + r /\ r \in 0..(Accumulation - 1) /\ q \in Nat
  BY Division
<1>2. Accumulation \in Nat \ {0}
  BY TrainingConstants
<1> HIDE DEF q, r
<1>3. CASE r + 1 < Accumulation
  <2>1. f + 1 = Accumulation * q + (r + 1) /\ r + 1 \in 0..(Accumulation - 1)
    BY <1>1, <1>2, <1>3
  <2>2. (f + 1) \div Accumulation = q /\ (f + 1) % Accumulation = r + 1
    BY <1>1, <2>1, DivisionIsUnique
  <2> QED
    BY <1>1, <1>3, <2>2 DEF q, r
<1>4. CASE ~(r + 1 < Accumulation)
  <2>1. r = Accumulation - 1
    BY <1>1, <1>2, <1>4
  <2>2. f + 1 = Accumulation * (q + 1) + 0 /\ 0 \in 0..(Accumulation - 1)
    BY <1>1, <1>2, <2>1
  <2>3. (f + 1) \div Accumulation = q + 1 /\ (f + 1) % Accumulation = 0
    BY <1>1, <2>2, DivisionIsUnique
  <2> QED
    BY <2>1, <2>3 DEF q, r
<1> QED
  BY <1>3, <1>4

\* The updates of an epoch are the groups before its last frame, and one.
LEMMA LastUpdate == Updates \in Nat /\ Updates = ((Frames - 1) \div Accumulation) + 1
<1>1. Accumulation \in Nat \ {0} /\ Frames \in Nat \ {0} /\ Frames - 1 \in Nat
  BY TrainingConstants
<1> DEFINE q == (Frames - 1) \div Accumulation
           r == (Frames - 1) % Accumulation
<1>2. Frames - 1 = Accumulation * q + r /\ r \in 0..(Accumulation - 1) /\ q \in Nat
  BY <1>1, Division
<1> HIDE DEF q, r
<1>3. Frames + Accumulation - 1 \in Nat /\ Frames + Accumulation - 1 = Accumulation * (q + 1) + r
  BY <1>1, <1>2
<1>4. (Frames + Accumulation - 1) \div Accumulation = q + 1
  BY <1>2, <1>3, DivisionIsUnique
<1> QED
  BY <1>2, <1>4 DEF Updates, q

\* No frame, no group.
LEMMA NoDivision == 0 \div Accumulation = 0 /\ 0 % Accumulation = 0
<1>1. Accumulation \in Nat \ {0} /\ 0 = Accumulation * 0 + 0 /\ 0 \in 0..(Accumulation - 1)
  BY TrainingConstants
<1> QED
  BY <1>1, DivisionIsUnique

\* A run starts on schedule.
LEMMA InitSchedule == Init => ScheduleInv
BY DEF Init, ScheduleInv, StepsAreScheduled, Untrained

\* Training a frame keeps to the schedule, and the gradients of an update are of its group.
LEMMA FrameSchedule ==
    ASSUME TrainingInv, ScheduleInv, TrainFrame
    PROVE  /\ ScheduleInv'
           /\ model'.steps = model.steps + 1 => grads + 1 = GroupSize(frame')
<1>1. frame \in Nat /\ frame < Frames /\ frame' = frame + 1 /\ model.steps \in Nat
      /\ Frames \in Nat \ {0} /\ Accumulation \in Nat \ {0}
  BY TrainingConstants DEF TrainingInv, TypeOK, TrainFrame, Weights
<1> DEFINE before == (epoch - 1) * Updates
           q == frame \div Accumulation
           r == frame % Accumulation
<1>2. model.steps = before + q /\ grads = r
  BY <1>1 DEF ScheduleInv, TrainFrame
<1>3. before \in Int
  BY LastUpdate DEF TrainingInv, TypeOK
<1>4. frame = Accumulation * q + r /\ r \in 0..(Accumulation - 1) /\ q \in Nat
  BY <1>1, Division
<1>5. pc' = "train" /\ epoch' = epoch /\ pt' = pt
  BY DEF TrainFrame, files
<1>6. StepsAreScheduled'
  BY <1>5 DEF ScheduleInv, StepsAreScheduled
<1>7. CASE EndGroup(frame')
  <2>1. model'.steps = before + (q + 1) /\ grads' = 0
    <3>1. model'.steps = model.steps + 1 /\ grads' = 0
      BY <1>7 DEF TrainFrame, TrainingInv, TypeOK, Weights
    <3> HIDE DEF before, q
    <3> QED
      BY <1>2, <1>3, <1>4, <3>1
  <2>2. CASE frame' = Frames
    <3>1. Updates = q + 1
      <4>1. frame = Frames - 1
        BY <1>1, <2>2
      <4> QED
        BY <4>1, LastUpdate
    <3>2. ScheduleInv'
      BY <1>5, <1>6, <2>1, <2>2, <3>1 DEF ScheduleInv
    <3>3. grads + 1 = GroupSize(frame')
      <4>1. frame' - 1 = frame
        BY <1>1
      <4>2. r + 1 < Accumulation \/ r + 1 = Accumulation
        BY <1>1, <1>4
      <4>3. q * Accumulation = frame - r /\ Frames - (q * Accumulation) = r + 1
        <5> HIDE DEF q, r
        <5> QED
          BY <1>1, <1>4, <2>2
      <4>4. GroupSize(frame') = IF Frames - (q * Accumulation) < Accumulation
                                THEN Frames - (q * Accumulation) ELSE Accumulation
        BY <4>1 DEF GroupSize
      <4> HIDE DEF q, r
      <4> QED
        BY <1>1, <1>2, <1>4, <4>2, <4>3, <4>4
    <3> QED
      BY <3>2, <3>3
  <2>3. CASE frame' # Frames
    <3>1. (frame + 1) % Accumulation = 0
      BY <1>1, <1>7, <2>3 DEF EndGroup
    <3>2. (frame + 1) \div Accumulation = q + 1 /\ r = Accumulation - 1
      BY <1>1, <3>1, NextDivision
    <3>3. ScheduleInv'
      BY <1>1, <1>5, <1>6, <2>1, <2>3, <3>1, <3>2 DEF ScheduleInv
    <3>4. grads + 1 = GroupSize(frame')
      <4>1. frame' - 1 = frame
        BY <1>1
      <4>2. ~(Frames - (q * Accumulation) < Accumulation)
        <5> HIDE DEF q, r
        <5> QED
          BY <1>1, <1>4, <2>3, <3>2
      <4>3. GroupSize(frame') = IF Frames - (q * Accumulation) < Accumulation
                                THEN Frames - (q * Accumulation) ELSE Accumulation
        BY <4>1 DEF GroupSize
      <4> HIDE DEF q, r
      <4> QED
        BY <1>1, <1>2, <3>2, <4>2, <4>3
    <3> QED
      BY <3>3, <3>4
  <2> QED
    BY <2>2, <2>3
<1>8. CASE ~EndGroup(frame')
  <2>1. frame' # Frames /\ (frame + 1) % Accumulation # 0
    BY <1>1, <1>8 DEF EndGroup
  <2>2. (frame + 1) \div Accumulation = q /\ (frame + 1) % Accumulation = r + 1
    BY <1>1, <2>1, NextDivision
  <2>3. model' = model /\ grads' = grads + 1
    BY <1>8 DEF TrainFrame
  <2>4. ScheduleInv'
    BY <1>1, <1>2, <1>5, <1>6, <2>1, <2>2, <2>3 DEF ScheduleInv
  <2>5. model'.steps # model.steps + 1
    BY <1>1, <2>3
  <2> QED
    BY <2>4, <2>5
<1> QED
  BY <1>7, <1>8

\* Every step keeps to the schedule.
LEMMA NextSchedule == TrainingInv /\ ScheduleInv /\ [Next]_vars => ScheduleInv'
<1> SUFFICES ASSUME TrainingInv, ScheduleInv, [Next]_vars PROVE ScheduleInv'
  OBVIOUS
<1>1. TypeOK /\ Updates \in Nat /\ MaxEpoch \in Nat \ {0} /\ Frames \in Nat \ {0}
  BY LastUpdate, TrainingConstants DEF TrainingInv
<1>2. ASSUME UNCHANGED <<pt, pc, model, epoch, frame, grads>> PROVE ScheduleInv'
  BY <1>2 DEF ScheduleInv, StepsAreScheduled
<1>3. ASSUME TrainerGone, pt' = pt PROVE ScheduleInv'
  BY <1>3 DEF TrainerGone, Untrained, ScheduleInv, StepsAreScheduled
<1>4. CASE UNCHANGED vars
  BY <1>2, <1>4 DEF vars, files, trainer
<1>5. CASE Start
  BY <1>5 DEF Start, files, ScheduleInv, StepsAreScheduled
<1>6. CASE OpenRoot
  BY <1>3, <1>6 DEF OpenRoot, files, ScheduleInv, StepsAreScheduled
<1>7. CASE MakeCheckpointRoot
  BY <1>7 DEF MakeCheckpointRoot, ScheduleInv, StepsAreScheduled
<1>8. CASE WriteRunManifest
  <2>1. epoch' = 1 /\ frame' = 0 /\ model'.steps = 0 /\ grads' = 0 /\ pc' = "train" /\ pt' = pt
    BY <1>8 DEF WriteRunManifest, TrainingInv, ScheduleInv
  <2>2. (1 - 1) * Updates = 0
    BY <1>1
  <2> QED
    BY <1>1, <2>1, <2>2, NoDivision DEF ScheduleInv, StepsAreScheduled
<1>9. CASE ResumeEnds
  BY <1>3, <1>9 DEF ResumeEnds, files
<1>10. CASE Restore
  <2>1. Last \in Epoch /\ pt[Last] \in Weights
    BY <1>10, LastReceipt DEF Restore
  <2>2. pt[Last] # None
    BY <2>1, TrainingConstants
  <2>3. pt[Last].steps = Last * Updates
    BY <2>1, <2>2 DEF ScheduleInv, StepsAreScheduled
  <2>4. epoch' = Last + 1 /\ frame' = 0 /\ grads' = 0 /\ pc' = "train" /\ pt' = pt /\ model' = pt[Last]
    BY <1>10 DEF Restore, files, TrainingInv, ScheduleInv
  <2>5. epoch' - 1 = Last
    BY <2>1, <2>4 DEF Epoch
  <2>6. model'.steps = (epoch' - 1) * Updates + 0
    <3>1. Last * Updates \in Int
      BY <1>1, <2>1 DEF Epoch
    <3> QED
      BY <2>3, <2>4, <2>5, <3>1
  <2> QED
    BY <1>1, <2>4, <2>6, NoDivision DEF ScheduleInv, StepsAreScheduled
<1>11. CASE TrainFrame
  BY <1>11, FrameSchedule
<1>12. CASE FlushMetrics
  <2>1. model.steps = (epoch - 1) * Updates + Updates
    BY <1>12 DEF FlushMetrics, ScheduleInv
  <2>2. (epoch - 1) * Updates + Updates = epoch * Updates
    BY <1>1 DEF TypeOK
  <2>3. model'.epoch = epoch /\ model'.steps = model.steps /\ epoch' = epoch /\ pc' = "save" /\ pt' = pt
    BY <1>12 DEF FlushMetrics
  <2> QED
    BY <2>1, <2>2, <2>3 DEF ScheduleInv, StepsAreScheduled
<1>13. CASE InstallCheckpoint
  <2>1. model.epoch = epoch /\ model.steps = epoch * Updates
    BY <1>13 DEF InstallCheckpoint, ScheduleInv
  <2>2. \A e \in Epoch : pt'[e] = IF e = epoch THEN model ELSE pt[e]
    BY <1>1, <1>13 DEF InstallCheckpoint, TypeOK
  <2>3. StepsAreScheduled'
    BY <2>1, <2>2 DEF ScheduleInv, StepsAreScheduled
  <2> QED
    BY <1>13, <2>1, <2>3 DEF InstallCheckpoint, ScheduleInv
<1>14. CASE InstallReceipt
  <2>1. model.steps = epoch * Updates
    BY <1>14 DEF InstallReceipt, ScheduleInv
  <2>2. /\ epoch' = epoch + 1 /\ frame' = 0 /\ grads' = 0 /\ pc' = "train" /\ pt' = pt
        /\ model' = model
    BY <1>14 DEF InstallReceipt
  <2>3. model'.steps = (epoch' - 1) * Updates + 0
    <3>1. epoch' - 1 = epoch /\ epoch * Updates \in Int
      BY <1>1, <2>2 DEF TypeOK
    <3> QED
      BY <2>1, <2>2, <3>1
  <2> QED
    BY <1>1, <2>2, <2>3, NoDivision DEF ScheduleInv, StepsAreScheduled
<1>15. CASE FinishTraining
  BY <1>3, <1>15 DEF FinishTraining
<1>16. CASE TrainerRaises \/ TrainerDies
  BY <1>3, <1>16 DEF TrainerRaises, TrainerDies
<1>17. CASE Score \/ SelectorStep \/ SelectorDies
  <2>1. UNCHANGED files /\ UNCHANGED trainer
    BY <1>17 DEF Score, SelectorStep, SelectEnds, CreateSelection, WriteSelection, SelectorDies
  <2> QED
    BY <1>2, <2>1 DEF files, trainer
<1> QED
  BY <1>4, <1>5, <1>6, <1>7, <1>8, <1>9, <1>10, <1>11, <1>12, <1>13, <1>14, <1>15, <1>16, <1>17
     DEF Next, TrainerStep

\* Every retained checkpoint has the updates of its epochs, whoever trained them, and
\* however often the training was interrupted.
THEOREM TrainingIsScheduled == Spec => []StepsAreScheduled
<1>1. ScheduleInv => StepsAreScheduled
  BY DEF ScheduleInv
<1> QED
  BY <1>1, InitSchedule, NextSchedule, Invariant, PTL DEF Spec

\* A step that trains a frame is TrainFrame.
LEMMA OnlyFramesAreTrained ==
    TrainingInv /\ [Next]_vars /\ frame' = frame + 1 => TrainFrame
<1> SUFFICES ASSUME TrainingInv, [Next]_vars, frame' = frame + 1, ~TrainFrame PROVE FALSE
  OBVIOUS
<1>1. frame \in Nat
  BY TrainingConstants DEF TrainingInv, TypeOK
<1>2. frame' = frame \/ frame' = 0
  BY DEF Next, vars, files, trainer, TrainerGone, Start, TrainerStep, OpenRoot, MakeCheckpointRoot,
     ResumeEnds, Restore, WriteRunManifest, FlushMetrics, InstallCheckpoint, InstallReceipt,
     FinishTraining, TrainerRaises, TrainerDies, Score, SelectorStep, SelectEnds,
     CreateSelection, WriteSelection, SelectorDies
<1> QED
  BY <1>1, <1>2

\* An update adds up as many gradients as each of them was divided by, for every number
\* of frames and every accumulation.
THEOREM UpdatesAverage == Spec => UpdatesAreMeans
<1>1. TrainingInv /\ ScheduleInv /\ [Next]_vars =>
        (frame' = frame + 1 /\ model'.steps = model.steps + 1 => grads + 1 = GroupSize(frame'))
  BY OnlyFramesAreTrained, FrameSchedule
<1> QED
  BY <1>1, InitSchedule, NextSchedule, Invariant, PTL DEF Spec, UpdatesAreMeans

-----------------------------------------------------------------------------
(***************************************************************************)
(* The log                                                                 *)
(***************************************************************************)

\* The epochs whose log lost its first record are counted by a number.
LEMMA LostCount ==
    /\ IsFiniteSet(Lost) /\ Cardinality(Lost) \in Nat
    /\ IsFiniteSet(Lost)' /\ Cardinality(Lost)' \in Nat
<1>1. \A S \in SUBSET Epoch : IsFiniteSet(S) /\ Cardinality(S) \in Nat
  <2>1. ASSUME NEW S \in SUBSET Epoch PROVE IsFiniteSet(S)
    BY <2>1, EpochCount, FS_Subset
  <2> QED
    BY <2>1, FS_CardinalityType
<1>2. Lost \in SUBSET Epoch /\ Lost' \in SUBSET Epoch
  BY DEF Lost, Sealed
<1> QED
  BY <1>1, <1>2

\* Onto a log whose last line is whole, the first record of an epoch is appended too.
LEMMA RecordsHold == ~torn => <<epoch, 1>> \in Records(Frames)
BY TrainingConstants DEF Records

LEMMA InitRecords == Init => RecordInv
<1> SUFFICES ASSUME Init PROVE RecordInv
  OBVIOUS
<1>1. Lost = {}
  BY DEF Init, Lost, Sealed
<1>2. Cardinality({}) = 0
  BY FS_EmptySet
<1> QED
  BY <1>1, <1>2, TrainingConstants DEF Init, RecordInv, Complete

\* What loses no record and tears no line keeps the account.
LEMMA NothingLost ==
    ASSUME TrainingInv, RecordInv, Lost' \subseteq Lost, torn' = torn \/ torn' = FALSE,
           faults' = faults, Complete' => manifest'.metrics = logged'
    PROVE  RecordInv'
<1>1. Cardinality(Lost)' <= Cardinality(Lost)
  BY LostCount, FS_Subset
<1>2. faults \in Nat /\ Cardinality(Lost) \in Nat /\ Cardinality(Lost)' \in Nat
  BY LostCount DEF TrainingInv, TypeOK
<1>3. Cardinality(Lost) + (IF torn THEN 1 ELSE 0) <= faults
  BY DEF RecordInv
<1>4. Cardinality(Lost)' + (IF torn' THEN 1 ELSE 0) <= faults'
  BY <1>1, <1>2, <1>3
<1> QED
  BY <1>4 DEF RecordInv

\* A failure may tear a line.
LEMMA FailureRecords ==
    TrainingInv /\ RecordInv /\ (TrainerRaises \/ TrainerDies) => RecordInv'
<1> SUFFICES ASSUME TrainingInv, RecordInv, TrainerRaises \/ TrainerDies PROVE RecordInv'
  OBVIOUS
<1>1. /\ logged \subseteq logged' /\ receipt' = receipt /\ manifest' = manifest
      /\ pc' = "idle" /\ faults' = faults + 1
  BY DEF TrainerRaises, TrainerDies, TrainerGone
<1>2. Lost' \subseteq Lost
  BY <1>1 DEF Lost, Sealed
<1>3. Cardinality(Lost)' <= Cardinality(Lost)
  BY <1>2, LostCount, FS_Subset
<1>4. faults \in Nat /\ Cardinality(Lost) \in Nat /\ Cardinality(Lost)' \in Nat
  BY LostCount DEF TrainingInv, TypeOK
<1>5. Cardinality(Lost) + (IF torn THEN 1 ELSE 0) <= faults
  BY DEF RecordInv
<1>6. Cardinality(Lost)' + (IF torn' THEN 1 ELSE 0) <= faults'
  BY <1>1, <1>3, <1>4, <1>5
<1>7. ASSUME Complete' PROVE manifest'.metrics = logged'
  <2>1. Complete /\ pc # "train"
    BY <1>1, <1>7 DEF Complete, TrainingInv, AtWorkOK
  <2>2. logged' = logged
    BY <2>1 DEF TrainerRaises, TrainerDies
  <2> QED
    BY <1>1, <2>1, <2>2 DEF RecordInv
<1> QED
  BY <1>6, <1>7 DEF RecordInv

\* An epoch appends its first record to a torn line once, and the line is torn no more.
LEMMA FlushRecords == TrainingInv /\ RecordInv /\ FlushMetrics => RecordInv'
<1> SUFFICES ASSUME TrainingInv, RecordInv, FlushMetrics PROVE RecordInv'
  OBVIOUS
<1>1. /\ logged' = logged \union Records(Frames) /\ receipt' = receipt
      /\ manifest' = manifest /\ epoch' = epoch /\ faults' = faults /\ torn' = FALSE
      /\ pc = "train" /\ epoch <= MaxEpoch
  BY DEF FlushMetrics
<1>2. epoch \in Epoch
  BY <1>1, TrainingConstants DEF TrainingInv, TypeOK, Epoch
<1>3. ~Complete'
  BY <1>1 DEF TrainingInv, AtWorkOK, Complete
<1>4. Lost' \subseteq Lost \union {epoch}
  BY <1>1 DEF Lost, Sealed
<1>5. CASE ~torn
  <2>1. <<epoch, 1>> \in logged'
    BY <1>1, <1>2, <1>5, RecordsHold
  <2>2. Lost' \subseteq Lost
    BY <1>4, <2>1 DEF Lost
  <2> QED
    BY <1>1, <1>3, <2>2, NothingLost
<1>6. CASE torn
  <2>1. /\ IsFiniteSet(Lost \union {epoch})
        /\ Cardinality(Lost \union {epoch}) <= Cardinality(Lost) + 1
    <3>1. /\ IsFiniteSet(Lost \union {epoch})
          /\ Cardinality(Lost \union {epoch})
               = IF epoch \in Lost THEN Cardinality(Lost) ELSE Cardinality(Lost) + 1
      BY LostCount, FS_AddElement
    <3> QED
      BY <3>1, LostCount
  <2>2. Cardinality(Lost \union {epoch}) \in Nat
    BY <2>1, FS_CardinalityType
  <2>3. Cardinality(Lost)' <= Cardinality(Lost \union {epoch})
    BY <1>4, <2>1, FS_Subset
  <2>4. Cardinality(Lost) + 1 <= faults
    BY <1>6 DEF RecordInv
  <2>5. Cardinality(Lost)' + 0 <= faults'
    <3>1. faults \in Nat /\ Cardinality(Lost) \in Nat /\ Cardinality(Lost)' \in Nat
      BY LostCount DEF TrainingInv, TypeOK
    <3> QED
      BY <1>1, <2>1, <2>2, <2>3, <2>4, <3>1
  <2> QED
    BY <1>1, <1>3, <2>5 DEF RecordInv
<1> QED
  BY <1>5, <1>6

LEMMA NextRecords == TrainingInv /\ RecordInv /\ [Next]_vars => RecordInv'
<1> SUFFICES ASSUME TrainingInv, RecordInv, [Next]_vars PROVE RecordInv'
  OBVIOUS
<1>1. Complete => manifest.metrics = logged
  BY DEF RecordInv
<1>2. ASSUME UNCHANGED <<receipt, logged, torn, faults>>,
             pc \notin {"save", "receipt"}, pc' \notin {"save", "receipt"},
             Complete' => Complete, Complete' => manifest'.metrics = manifest.metrics
      PROVE  RecordInv'
  <2>1. Lost' = Lost
    BY <1>2 DEF Lost, Sealed
  <2> QED
    BY <1>1, <1>2, <2>1, NothingLost
<1>3. CASE Start \/ OpenRoot \/ MakeCheckpointRoot \/ ResumeEnds \/ Restore \/ TrainFrame
  <2>1. /\ UNCHANGED <<receipt, logged, torn, faults, manifest>>
        /\ pc \notin {"save", "receipt"} /\ pc' \notin {"save", "receipt"}
    BY <1>3 DEF Start, OpenRoot, MakeCheckpointRoot, ResumeEnds, Restore, TrainFrame,
         TrainerGone, files
  <2> QED
    BY <1>2, <2>1 DEF Complete
<1>4. CASE WriteRunManifest
  <2>1. ~Complete'
    BY <1>4 DEF WriteRunManifest, Complete
  <2> QED
    BY <1>2, <1>4, <2>1 DEF WriteRunManifest
<1>5. CASE FlushMetrics
  BY <1>5, FlushRecords
<1>6. CASE InstallCheckpoint
  <2>1. /\ UNCHANGED <<receipt, logged, torn, faults, manifest, epoch>>
        /\ pc = "save" /\ pc' = "receipt"
    BY <1>6 DEF InstallCheckpoint
  <2>2. Lost' = Lost /\ (Complete' <=> Complete)
    BY <2>1 DEF Lost, Sealed, Complete
  <2> QED
    BY <1>1, <2>1, <2>2, NothingLost
<1>7. CASE InstallReceipt
  <2>1. /\ UNCHANGED <<logged, torn, faults, manifest>>
        /\ receipt' = [receipt EXCEPT ![epoch] = model]
        /\ pc = "receipt" /\ pc' = "train"
    BY <1>7 DEF InstallReceipt
  <2>2. \A e \in Epoch : receipt'[e] # None => receipt[e] # None \/ e = epoch
    BY <2>1 DEF TrainingInv, TypeOK
  <2>3. Lost' \subseteq Lost
    BY <2>1, <2>2 DEF Lost, Sealed
  <2>4. Complete' <=> Complete
    BY <2>1 DEF Complete
  <2> QED
    BY <1>1, <2>1, <2>3, <2>4, NothingLost
<1>8. CASE FinishTraining
  <2>1. /\ UNCHANGED <<receipt, logged, torn, faults>>
        /\ manifest' = [manifest EXCEPT !.state = "COMPLETE", !.metrics = logged]
        /\ pc = "train" /\ pc' = "idle"
    BY <1>8 DEF FinishTraining, TrainerGone
  <2>2. manifest \in Manifest
    BY <2>1 DEF TrainingInv, TypeOK, AtWorkOK
  <2>3. manifest'.metrics = logged'
    BY <2>1, <2>2 DEF Manifest
  <2>4. Lost' = Lost
    BY <2>1 DEF Lost, Sealed
  <2> QED
    BY <2>1, <2>3, <2>4, NothingLost
<1>9. CASE TrainerRaises \/ TrainerDies
  BY <1>9, FailureRecords
<1>10. ASSUME UNCHANGED <<receipt, logged, torn, manifest, pc, epoch>>,
              faults' = faults \/ faults' = faults + 1
       PROVE  RecordInv'
  <2>1. Lost' = Lost /\ (Complete' <=> Complete)
    BY <1>10 DEF Lost, Sealed, Complete
  <2>2. Cardinality(Lost) \in Nat /\ faults \in Nat
    BY LostCount DEF TrainingInv, TypeOK
  <2>3. Cardinality(Lost) + (IF torn THEN 1 ELSE 0) <= faults
    BY DEF RecordInv
  <2>4. Cardinality(Lost)' + (IF torn' THEN 1 ELSE 0) <= faults'
    BY <1>10, <2>1, <2>2, <2>3
  <2> QED
    BY <1>1, <1>10, <2>1, <2>4 DEF RecordInv
<1>11. CASE Score \/ SelectorStep \/ SelectorDies \/ UNCHANGED vars
  BY <1>10, <1>11 DEF Score, SelectorStep, SelectEnds, CreateSelection, WriteSelection,
       SelectorDies, vars, files, trainer, chooser
<1> QED
  BY <1>3, <1>4, <1>5, <1>6, <1>7, <1>8, <1>9, <1>11 DEF Next, TrainerStep

\* What the sealed log of a complete run lacks are the first records of lost epochs.
LEMMA MissingAreLost == TrainingInv /\ RecordInv => OneRecordPerFailure
<1> SUFFICES ASSUME TrainingInv, RecordInv, Complete
             PROVE  Cardinality((Epoch \X (1..Frames)) \ manifest.metrics) <= faults
  BY DEF OneRecordPerFailure
<1> DEFINE Missing == (Epoch \X (1..Frames)) \ manifest.metrics
           f == [x \in Missing |-> x[1]]
<1>1. manifest.metrics = logged /\ \A e \in Epoch : receipt[e] # None
  BY DEF RecordInv, TrainingInv
<1>2. \A e \in Epoch : \A n \in 2..Frames : <<e, n>> \in logged
  BY <1>1 DEF TrainingInv, LoggedBeforeReceipt
<1>3. ASSUME NEW x \in Missing PROVE x = <<x[1], 1>> /\ x[1] \in Lost
  <2>1. PICK e \in Epoch, n \in 1..Frames : x = <<e, n>>
    BY DEF Missing
  <2>2. x \notin logged
    BY <1>1 DEF Missing
  <2>3. n = 1
    <3>1. n \notin 2..Frames
      BY <1>2, <2>1, <2>2
    <3> QED
      BY <3>1, TrainingConstants
  <2> QED
    BY <1>1, <2>1, <2>2, <2>3 DEF Lost, Sealed
<1>4. f \in Injection(Missing, Lost)
  <2>1. f \in [Missing -> Lost]
    BY <1>3
  <2>2. ASSUME NEW x \in Missing, NEW y \in Missing, f[x] = f[y] PROVE x = y
    <3>1. x[1] = y[1]
      BY <2>2
    <3> QED
      BY <1>3, <3>1
  <2> QED
    BY <2>1, <2>2 DEF Injection, IsInjective
<1>5. IsFiniteSet(Missing) /\ Cardinality(Missing) <= Cardinality(Lost)
  <2> HIDE DEF Missing, f
  <2> QED
    BY <1>4, LostCount, FS_Injection
<1>6. Cardinality(Missing) \in Nat
  <2> HIDE DEF Missing
  <2> QED
    BY <1>5, FS_CardinalityType
<1>7. Cardinality(Lost) + (IF torn THEN 1 ELSE 0) <= faults /\ faults \in Nat
  BY DEF RecordInv, TrainingInv, TypeOK
<1>8. Cardinality(Missing) <= faults
  <2> HIDE DEF Missing
  <2> QED
    BY <1>5, <1>6, <1>7, LostCount
<1> QED
  BY <1>8

\* The sealed log of a complete run lacks at most one record for each failure, for any
\* number of frames, epochs and failures.
THEOREM FailuresLoseOneRecord == Spec => []OneRecordPerFailure
BY InitRecords, NextRecords, MissingAreLost, Invariant, PTL DEF Spec

-----------------------------------------------------------------------------
(***************************************************************************)
(* Selection in the order of the qualification phase                       *)
(***************************************************************************)

\* What a selector that starts on complete runs relies on.
SelectionInv ==
    /\ spc # "idle" => Complete /\ scored = Epoch
    /\ SelectionSawEveryEpoch

\* Selectors that start on complete runs preserve SelectionInv.
LEMMA SelectionStep ==
    ASSUME ~SelectEarly
    PROVE  TrainingInv /\ SelectionInv /\ [Next]_vars => SelectionInv'
<1> SUFFICES ASSUME TrainingInv, SelectionInv, [Next]_vars PROVE SelectionInv'
  OBVIOUS
<1>1. Complete => Complete'
  BY CompleteStep DEF Complete
<1>2. CASE Score
  <2>1. Complete /\ \A e \in Epoch : pt[e] # None
    BY <1>2 DEF Score, TrainingInv, ReceiptsVerify
  <2> QED
    BY <1>1, <1>2, <2>1 DEF Score, SelectionInv, SelectionSawEveryEpoch
<1>3. CASE CreateSelection
  BY <1>1, <1>3 DEF CreateSelection, SelectionInv, SelectionSawEveryEpoch
<1>4. CASE WriteSelection
  BY <1>1, <1>4, EpochCount DEF WriteSelection, SelectionInv, SelectionSawEveryEpoch
<1>5. CASE SelectEnds \/ SelectorDies
  BY <1>1, <1>5 DEF SelectEnds, SelectorDies, SelectionInv, SelectionSawEveryEpoch
<1>6. CASE UNCHANGED chooser
  BY <1>1, <1>6 DEF chooser, SelectionInv, SelectionSawEveryEpoch
<1>7. CASE Start \/ TrainerStep \/ TrainerRaises \/ TrainerDies
  <2>1. UNCHANGED chooser
    BY <1>7 DEF Start, TrainerStep, OpenRoot, MakeCheckpointRoot, ResumeEnds, Restore,
       WriteRunManifest, TrainFrame, FlushMetrics, InstallCheckpoint, InstallReceipt,
       FinishTraining, TrainerRaises, TrainerDies, chooser
  <2> QED
    BY <1>6, <2>1
<1> QED
  BY <1>2, <1>3, <1>4, <1>5, <1>6, <1>7 DEF Next, SelectorStep, vars

\* A selection made in the order of the phase, scores after training, takes every
\* epoch into account, for E0 and for E1.
THEOREM SelectionIsOfAll ==
    ASSUME ~SelectEarly
    PROVE  Spec => []SelectionSawEveryEpoch
<1>1. Init => SelectionInv
  BY DEF Init, SelectionInv, SelectionSawEveryEpoch
<1>2. TrainingInv /\ SelectionInv /\ [Next]_vars => SelectionInv'
  BY SelectionStep
<1>3. SelectionInv => SelectionSawEveryEpoch
  BY DEF SelectionInv
<1> QED
  BY <1>1, <1>2, <1>3, Invariant, PTL DEF Spec
=============================================================================
