------------------------ MODULE StudyQualificationProofs ------------------------
(***************************************************************************)
(* Theorems about StudyQualification: for every number of seeds, epochs,   *)
(* kills and possible metrics, what the release is decided on is one chain *)
(* of evidence, and evidence once written whole is never replaced.         *)
(***************************************************************************)
EXTENDS StudyQualification, WellFoundedInduction, TLAPS

\* A nonempty set of naturals has a least element.
LEMMA Least ==
    ASSUME NEW T, T \subseteq Nat, T # {}
    PROVE  \E x \in T : \A y \in T : x <= y
<1>1. IsWellFoundedOn(OpToRel(<, Nat), Nat)
  BY NatLessThanWellFounded
<1>2. \E x \in T : \A y \in T : ~ (<<y, x>> \in OpToRel(<, Nat))
  BY <1>1, WFMin
<1>3. \A x, y \in Nat : <<y, x>> \in OpToRel(<, Nat) \/ x <= y
  BY DEF OpToRel
<1> QED
  BY <1>2, <1>3, Zenon

\* A nonempty set of naturals up to m has a greatest element.
LEMMA Greatest ==
    ASSUME NEW m \in Nat, NEW S, S \subseteq 0..m, S # {}
    PROVE  \E x \in S : \A y \in S : y <= x
<1> DEFINE T == {n \in Nat : m - n \in S}
<1>1. \A y \in S : y \in 0..m /\ m - y \in T
  OBVIOUS
<1>2. PICK x \in T : \A y \in T : x <= y
  <2>1. T \subseteq Nat /\ T # {}
    BY <1>1
  <2> HIDE DEF T
  <2> QED
    BY <2>1, Least
<1>3. x \in Nat /\ m - x \in S
  BY <1>2
<1>4. ASSUME NEW y \in S PROVE y <= m - x
  <2>1. y \in 0..m /\ m - y \in T
    BY <1>1
  <2>2. x <= m - y
    BY <1>2, <2>1
  <2> QED
    BY <1>3, <2>1, <2>2
<1> QED
  BY <1>3, <1>4

-----------------------------------------------------------------------------
(* The arms and the selection. *)

\* The order of the arms names each arm once; the joint model is none of the baselines.
LEMMA ArmsOK ==
    /\ DOMAIN ArmOrder = 1..Len(ArmOrder) /\ Len(ArmOrder) \in Nat /\ Len(ArmOrder) >= 2
    /\ \A i \in 1..Len(ArmOrder) : ArmOrder[i] \in Arms
    /\ \A a \in Arms : \E i \in 1..Len(ArmOrder) : a = ArmOrder[i]
    /\ \A i, j \in 1..Len(ArmOrder) : ArmOrder[i] = ArmOrder[j] => i = j
    /\ Joint = ArmOrder[Len(ArmOrder)] /\ Joint \in Arms /\ Primary \in Arms /\ Primary # Joint
    /\ Primary \in Baselines /\ Baselines \subseteq Arms
<1>1. ArmOrder \in Seq(ToSet(ArmOrder)) /\ Len(ArmOrder) >= 2 /\ IsInjective(ArmOrder)
  BY StudyConstants
<1>2. DOMAIN ArmOrder = 1..Len(ArmOrder) /\ Len(ArmOrder) \in Nat
  BY <1>1
<1>3. \A a : a \in Arms <=> \E i \in 1..Len(ArmOrder) : a = ArmOrder[i]
  BY <1>2 DEF Arms, ToSet
<1>4. \A i, j \in 1..Len(ArmOrder) : ArmOrder[i] = ArmOrder[j] => i = j
  BY <1>1, <1>2 DEF IsInjective
<1>5. Joint = ArmOrder[Len(ArmOrder)] /\ Primary = ArmOrder[1]
  BY DEF Joint, Primary, Last
<1>6. 1 \in 1..Len(ArmOrder) /\ Len(ArmOrder) \in 1..Len(ArmOrder) /\ 1 # Len(ArmOrder)
  BY <1>1, <1>2
<1>7. Primary # Joint /\ Primary \in Arms /\ Joint \in Arms
  BY <1>3, <1>4, <1>5, <1>6
<1>8. Front(ArmOrder) = [i \in 1..(Len(ArmOrder) - 1) |-> ArmOrder[i]]
  BY <1>1, <1>2 DEF Front
<1>9. Baselines = {ArmOrder[i] : i \in 1..(Len(ArmOrder) - 1)}
  BY <1>8 DEF Baselines, ToSet
<1>10. 1 \in 1..(Len(ArmOrder) - 1) /\ 1..(Len(ArmOrder) - 1) \subseteq 1..Len(ArmOrder)
  BY <1>1, <1>2
<1>11. Primary \in Baselines
  BY <1>5, <1>9, <1>10
<1>12. Baselines \subseteq Arms
  BY <1>3, <1>9, <1>10
<1> QED
  BY <1>1, <1>2, <1>3, <1>4, <1>5, <1>7, <1>11, <1>12

\* The marks are neither metrics nor epochs nor evaluations.
LEMMA MarksOK ==
    /\ Epochs \in Nat /\ Epochs >= 1 /\ MaxKills \in Nat
    /\ None \notin Draws /\ None # Partial /\ None \notin 1..Epochs /\ Partial \notin 1..Epochs
    /\ None \notin Evaluations
BY StudyConstants

\* Among the epochs with the greatest score there is a first one.
LEMMA FirstBest ==
    ASSUME NEW E \in Nat, E >= 1, NEW m \in Nat, NEW top \in [1..E -> 0..m]
    PROVE  \E e \in 1..E : \A f \in 1..E : top[f] < top[e] \/ (top[f] = top[e] /\ e <= f)
<1> DEFINE Tops == {top[e] : e \in 1..E}
<1>1. Tops \subseteq 0..m
  OBVIOUS
<1>2. 1 \in 1..E
  OBVIOUS
<1>3. Tops # {}
  BY <1>2
<1>4. PICK t \in Tops : \A u \in Tops : u <= t
  BY <1>1, <1>3, Greatest
<1> DEFINE Best == {e \in 1..E : top[e] = t}
<1>5. Best \subseteq Nat /\ Best # {}
  BY <1>4
<1>6. PICK e \in Best : \A f \in Best : e <= f
  BY <1>5, Least
<1>7. ASSUME NEW f \in 1..E PROVE top[f] < top[e] \/ (top[f] = top[e] /\ e <= f)
  <2>1. e \in 1..E /\ top[e] = t
    BY <1>6
  <2>2. top[f] \in Tops
    OBVIOUS
  <2>3. top[f] <= top[e]
    BY <1>4, <2>1, <2>2
  <2>5. top[f] \in Int /\ top[e] \in Int
    BY <2>1
  <2>4. top[f] = top[e] => e <= f
    BY <1>6, <2>1
  <2> HIDE DEF Tops, Best
  <2> QED
    BY <2>3, <2>4, <2>5
<1> QED
  BY <1>6, <1>7

\* The selected epoch is an epoch, and no epoch has a better topology score.
LEMMA SelectedIsBest ==
    ASSUME NEW scores \in [1..Epochs -> Draws]
    PROVE  /\ Selected(scores) \in 1..Epochs
           /\ \A f \in 1..Epochs : scores[f].top <= scores[Selected(scores)].top
<1> DEFINE top == [e \in 1..Epochs |-> scores[e].top]
<1>1. Epochs \in Nat /\ Epochs >= 1 /\ \A e \in 1..Epochs : scores[e] \in Draws
  BY StudyConstants
<1>2. Whole \in Nat
  BY DEF Whole
<1>3. top \in [1..Epochs -> 0..Whole]
  BY <1>1, StudyConstants
<1>4. \A e \in 1..Epochs : scores[e].top = top[e]
  OBVIOUS
<1> HIDE DEF top
<1>5. \E g \in 1..Epochs : \A f \in 1..Epochs :
         top[f] < top[g] \/ (top[f] = top[g] /\ g <= f)
  BY <1>1, <1>2, <1>3, FirstBest
<1>6. \E g \in 1..Epochs : \A f \in 1..Epochs :
         scores[f].top < scores[g].top \/ (scores[f].top = scores[g].top /\ g <= f)
  BY <1>4, <1>5
<1>7. /\ Selected(scores) \in 1..Epochs
      /\ \A f \in 1..Epochs : \/ scores[f].top < scores[Selected(scores)].top
                              \/ scores[f].top = scores[Selected(scores)].top
  <2> DEFINE Is(g) == g \in 1..Epochs /\ \A f \in 1..Epochs :
         scores[f].top < scores[g].top \/ (scores[f].top = scores[g].top /\ g <= f)
  <2>1. Selected(scores) = CHOOSE g \in 1..Epochs : \A f \in 1..Epochs :
         scores[f].top < scores[g].top \/ (scores[f].top = scores[g].top /\ g <= f)
    BY DEF Selected
  <2>2. Is(Selected(scores))
    BY <1>6, <2>1, Zenon
  <2>3. \A f \in 1..Epochs : \/ scores[f].top < scores[Selected(scores)].top
                             \/ scores[f].top = scores[Selected(scores)].top
    BY <2>2, Zenon
  <2> QED
    BY <2>2, <2>3, Zenon
<1>8. ASSUME NEW f \in 1..Epochs PROVE scores[f].top <= scores[Selected(scores)].top
  <2> DEFINE g == Selected(scores)
  <2>0. g \in 1..Epochs
    BY <1>7
  <2>2. top[f] < top[g] \/ top[f] = top[g]
    BY <1>4, <1>7
  <2> HIDE DEF g
  <2>1. top[f] \in Int /\ top[g] \in Int
    BY <1>3, <2>0
  <2>3. top[f] <= top[g]
    BY <2>1, <2>2
  <2>4. scores[f].top <= scores[g].top
    BY <1>4, <2>0, <2>3
  <2> QED
    BY <2>4 DEF g
<1> QED
  BY <1>7, <1>8

-----------------------------------------------------------------------------
(* The first phase. *)

\* Nothing is there at first.
LEMMA ModelsInit == Init => ModelsInv
<1> SUFFICES ASSUME Init PROVE ModelsInv
  OBVIOUS
<1>1. TypeOK
  BY StudyConstants, ArmsOK DEF Init, TypeOK, Blank, Receipts
<1>2. Shapes
  BY <1>1 DEF Init, Shapes, Blank
<1> QED
  BY <1>2 DEF Init, ModelsInv, FilesFollow, InOrder, Blank, At, ModelsPhase, StudyPhase, Complete

\* The parts of the invariant every step needs.
LEMMA Shaped ==
    ASSUME ModelsInv
    PROVE  /\ process.k \in 1..Len(ArmOrder) /\ process.epoch \in 1..(Epochs + 1) /\ Arm \in Arms
           /\ DOMAIN process = {"pc", "k", "epoch"} /\ kills \in 0..MaxKills
           /\ {"linker", "request", "result", "scores", "receipt", "models", "evaluation", "measured",
               "final", "card", "finalReceipt", "evidence", "report", "charter", "study"} = DOMAIN disk
BY ArmsOK DEF ModelsInv, Shapes, TypeOK, Arm

\* Moving on changes the program counter alone.
LEMMA GotoOK ==
    ASSUME ModelsInv, NEW pc, Goto(pc)
    PROVE  process'.pc = pc /\ process'.k = process.k /\ process'.epoch = process.epoch
           /\ DOMAIN process' = {"pc", "k", "epoch"} /\ Arm' = Arm
BY Shaped DEF Goto, Arm

\* What the first phase wrote is left alone.
ModelsKept ==
    /\ disk'.linker \in BOOLEAN /\ disk'.card \in BOOLEAN /\ disk'.finalReceipt \in BOOLEAN
    /\ DOMAIN disk' = DOMAIN disk
    /\ disk'.request = disk.request /\ disk'.result = disk.result /\ disk'.scores = disk.scores
    /\ disk'.receipt = disk.receipt /\ disk'.models = disk.models

\* The process is within its bounds and at one of these places.
ProcessOK(pcs) ==
    /\ DOMAIN process' = {"pc", "k", "epoch"} /\ process'.pc \in pcs
    /\ process'.k \in DOMAIN ArmOrder /\ process'.epoch \in 1..(Epochs + 1) /\ kills' \in 0..MaxKills

\* Shapes of what a step leaves alone.
LEMMA KeptShapes ==
    ASSUME ModelsInv, ModelsKept, disk'.evaluation = disk.evaluation,
           orphan' \in {None} \union [arm : Arms, found : Draws],
           ProcessOK({"idle"} \union ModelsPhase \union StudyPhase)
    PROVE  Shapes'
<1>1. TypeOK'
  BY DEF ModelsInv, Shapes, TypeOK, ModelsKept, ProcessOK
<1> QED
  BY <1>1 DEF ModelsInv, Shapes, ModelsKept, ProcessOK

\* The files of the first phase follow from each other as long as they are left alone.
LEMMA KeptFiles ==
    ASSUME ModelsInv, ModelsKept, disk'.evaluation = disk.evaluation
    PROVE  /\ FilesFollow'
           /\ \A a : (Scored(a) <=> Scored(a)') /\ (IsSelected(a) <=> IsSelected(a)')
           /\ Complete("models")' <=> Complete("models")
<1>1. \A a : (Scored(a) <=> Scored(a)') /\ (IsSelected(a) <=> IsSelected(a)')
  BY DEF Scored, IsSelected, ModelsKept
<1>2. Complete("models")' <=> Complete("models")
  BY DEF Complete, ModelsKept
<1>3. ASSUME NEW a \in Arms
      PROVE  /\ \A e \in 1..Epochs : disk'.result[a][e] # None => disk'.result[a][e] = disk'.request[a][e]
             /\ disk'.scores[a] # None => Scored(a)'
             /\ disk'.receipt[a] \notin {None, Partial} => IsSelected(a)'
             /\ disk'.evaluation[a] # None => Complete("models")' /\ disk'.evaluation[a].epoch = disk'.receipt[a]
  BY <1>1, <1>2 DEF ModelsInv, FilesFollow, ModelsKept
<1>4. Complete("models")' => \A a \in Arms : IsSelected(a)'
  BY <1>1, <1>2 DEF ModelsInv, FilesFollow
<1> QED
  BY <1>1, <1>2, <1>3, <1>4 DEF FilesFollow

\* A step of the second phase, a failure or a kill disturbs nothing of the first.
LEMMA KeptModels ==
    ASSUME ModelsInv, ModelsKept, disk'.evaluation = disk.evaluation, orphan' = orphan,
           \/ ProcessOK({"idle"})
           \/ ProcessOK(StudyPhase) /\ Complete("models")
    PROVE  ModelsInv'
<1>1. ProcessOK({"idle"} \union ModelsPhase \union StudyPhase)
  BY DEF ProcessOK
<1>2. Shapes' /\ FilesFollow'
  BY <1>1, KeptShapes, KeptFiles DEF ModelsInv, Shapes
<1>3. /\ process'.pc \notin {"prepare", "score", "official", "select", "selected", "qualify", "qualified"}
      /\ process'.pc \in StudyPhase => Complete("models")
  BY DEF ProcessOK, StudyPhase
<1>4. InOrder'
  BY <1>3, KeptFiles DEF InOrder, ModelsInv, ModelsPhase, At
<1> QED
  BY <1>2, <1>4 DEF ModelsInv

\* A step of the first phase that only moves the process.
LEMMA MovedModels ==
    ASSUME ModelsInv, ModelsKept, disk'.evaluation = disk.evaluation, orphan' = orphan,
           ProcessOK(ModelsPhase), InOrder'
    PROVE  ModelsInv'
<1>1. ProcessOK({"idle"} \union ModelsPhase \union StudyPhase)
  BY DEF ProcessOK
<1> QED
  BY <1>1, KeptShapes, KeptFiles DEF ModelsInv, Shapes

\* A failure ends the phase and writes nothing.
LEMMA FailsOK == ASSUME ModelsInv, Fails PROVE ModelsInv'
<1>1. ModelsKept /\ disk'.evaluation = disk.evaluation /\ orphan' = orphan
  BY DEF Fails, ModelsKept, Keep, ModelsInv, Shapes, TypeOK
<1>2. Goto("idle") /\ kills' = kills
  BY DEF Fails, Keep
<1>3. ProcessOK({"idle"})
  BY <1>2, GotoOK, Shaped, ArmsOK DEF ProcessOK
<1> QED
  BY <1>1, <1>3, KeptModels

\* Writing a file of the second phase.
LEMMA WriteOK ==
    ASSUME ModelsInv, NEW v, NEW file \in {"measured", "final", "evidence", "report", "charter", "study"},
           Write(file, v)
    PROVE  /\ ModelsKept /\ disk'.evaluation = disk.evaluation /\ disk'[file] = v
           /\ \A f \in DOMAIN disk : f # file => disk'[f] = disk[f]
<1>1. disk' = [disk EXCEPT ![file] = v] /\ DOMAIN disk' = DOMAIN disk
  BY DEF Write
<1>2. disk'[file] = v /\ \A f \in DOMAIN disk : f # file => disk'[f] = disk[f]
  BY <1>1, Shaped
<1>3. disk.linker \in BOOLEAN /\ disk.card \in BOOLEAN /\ disk.finalReceipt \in BOOLEAN
  BY DEF ModelsInv, Shapes, TypeOK
<1> QED
  BY <1>1, <1>2, <1>3, Shaped DEF ModelsKept

\* While the first phase runs, nothing of the second is there.
LEMMA InModels ==
    ASSUME ModelsInv, process.pc \in ModelsPhase
    PROVE  /\ disk.models \in {None, Partial} /\ ~Complete("models") /\ orphan = None
           /\ \A a \in Arms : disk.evaluation[a] = None
BY DEF ModelsInv, FilesFollow, InOrder, Complete

\* Recording a result again changes nothing of an arm that is scored.
LEMMA RecordKeeps ==
    ASSUME ModelsInv, At("official"), disk'.scores = disk.scores, disk'.receipt = disk.receipt,
           disk'.result = [disk.result EXCEPT ![Arm][process.epoch] = disk.request[Arm][process.epoch]]
    PROVE  \A a \in Arms : (Scored(a) => Scored(a)') /\ (IsSelected(a) => IsSelected(a)')
<1>1. disk.result \in [Arms -> [1..Epochs -> Draws \union {None}]] /\ Arm \in Arms
  BY Shaped DEF ModelsInv, Shapes, TypeOK
<1>2. ASSUME NEW a \in Arms, Scored(a) PROVE disk'.result[a] = disk.result[a]
  <2>1. \A e \in 1..Epochs : disk.result[a][e] # None
    BY <1>1, <1>2, MarksOK DEF Scored
  <2>2. \A e \in 1..Epochs : disk.result[a][e] = disk.request[a][e]
    BY <2>1 DEF ModelsInv, FilesFollow
  <2>3. process.epoch \in 1..Epochs
    BY Shaped DEF ModelsInv, InOrder
  <2> QED
    BY <1>1, <2>2, <2>3
<1> QED
  BY <1>2 DEF Scored, IsSelected

\* Once the first phase is complete it is not at work.
LEMMA AfterModels ==
    ASSUME ModelsInv, Complete("models")
    PROVE  /\ process.pc \notin ModelsPhase /\ process.pc \in {"idle"} \union StudyPhase
           /\ \A a \in Arms : IsSelected(a) /\ disk.receipt[a] \in 1..Epochs
<1>1. process.pc \notin ModelsPhase /\ process.pc \in {"idle"} \union StudyPhase
  BY DEF ModelsInv, InOrder, Complete, Shapes
<1>2. \A a \in Arms : IsSelected(a)
  BY DEF ModelsInv, FilesFollow
<1>3. ASSUME NEW a \in Arms PROVE disk.receipt[a] \in 1..Epochs
  <2>1. disk.scores[a] \in [1..Epochs -> Draws] /\ disk.receipt[a] = Selected(disk.scores[a])
    BY <1>2 DEF IsSelected, Scored
  <2> QED
    BY <2>1, SelectedIsBest
<1> QED
  BY <1>1, <1>2, <1>3

\* An evaluation of a selected checkpoint is added.
LEMMA EvaluatedModels ==
    ASSUME ModelsInv, Complete("models"), NEW a \in Arms, NEW found \in Draws,
           disk' = [disk EXCEPT !.evaluation[a] = Evaluation(a, found)],
           orphan' \in {None} \union [arm : Arms, found : Draws],
           ProcessOK({"idle"} \union StudyPhase)
    PROVE  /\ ModelsInv' /\ disk'.evaluation = [disk.evaluation EXCEPT ![a] = Evaluation(a, found)]
           /\ \A f \in DOMAIN disk : f # "evaluation" => disk'[f] = disk[f]
<1>1. /\ \A f \in DOMAIN disk : f # "evaluation" => disk'[f] = disk[f]
      /\ DOMAIN disk' = DOMAIN disk
      /\ disk'.evaluation = [disk.evaluation EXCEPT ![a] = Evaluation(a, found)]
  BY Shaped
<1>2. /\ disk'.request = disk.request /\ disk'.result = disk.result /\ disk'.scores = disk.scores
      /\ disk'.receipt = disk.receipt /\ disk'.models = disk.models
      /\ disk'.linker = disk.linker /\ disk'.card = disk.card /\ disk'.finalReceipt = disk.finalReceipt
  BY <1>1, Shaped
<1>3. disk.evaluation \in [Arms -> {None} \union Evaluations]
  BY DEF ModelsInv, Shapes
<1>4. Evaluation(a, found) \in Evaluations
      /\ Evaluation(a, found).epoch = disk.receipt[a]
  BY AfterModels DEF Evaluation, Evaluations
<1>5. disk'.evaluation \in [Arms -> {None} \union Evaluations]
  BY <1>1, <1>3, <1>4
<1>6. TypeOK'
  BY <1>2 DEF ModelsInv, Shapes, TypeOK, ProcessOK
<1>7. Shapes'
  BY <1>1, <1>2, <1>5, <1>6 DEF ModelsInv, Shapes, ProcessOK
<1>8. \A b : (Scored(b) <=> Scored(b)') /\ (IsSelected(b) <=> IsSelected(b)')
  BY <1>2 DEF Scored, IsSelected
<1>9. Complete("models")'
  BY <1>2 DEF Complete
<1>10. \A b \in Arms : disk'.evaluation[b] # None => disk'.evaluation[b].epoch = disk'.receipt[b]
  BY <1>1, <1>2, <1>3, <1>4 DEF ModelsInv, FilesFollow
<1>11. \A b \in Arms :
         /\ \A e \in 1..Epochs : disk'.result[b][e] # None => disk'.result[b][e] = disk'.request[b][e]
         /\ disk'.scores[b] # None => Scored(b)'
         /\ IsSelected(b)'
  BY <1>2, <1>8, AfterModels DEF ModelsInv, FilesFollow
<1>12. FilesFollow'
  BY <1>9, <1>10, <1>11 DEF FilesFollow
<1>13. InOrder'
  BY <1>9 DEF InOrder, ProcessOK, StudyPhase, ModelsPhase, At
<1> QED
  BY <1>1, <1>7, <1>12, <1>13 DEF ModelsInv

\* The last arm is the joint model; after it every arm is done.
LEMMA NextArmOK ==
    ASSUME ModelsInv, At("evaluate"), NextArm
    PROVE  /\ process'.epoch = process.epoch /\ DOMAIN process' = {"pc", "k", "epoch"}
           /\ process'.k \in DOMAIN ArmOrder /\ process'.pc \in {"evaluate", "measure"}
           /\ process'.pc = "measure" => process.k = Len(ArmOrder)
           /\ process'.pc = "evaluate" => process'.k = process.k + 1
<1>1. process.k \in 1..Len(ArmOrder) /\ Arm = ArmOrder[process.k] /\ Len(ArmOrder) \in Nat
      /\ Len(ArmOrder) \in 1..Len(ArmOrder) /\ DOMAIN ArmOrder = 1..Len(ArmOrder)
  BY Shaped, ArmsOK DEF Arm
<1>2. CASE Arm = Joint
  <2>1. process.k = Len(ArmOrder)
    BY <1>1, <1>2, ArmsOK
  <2> QED
    BY <1>1, <1>2, <2>1, Shaped DEF NextArm
<1>3. CASE Arm # Joint
  <2>1. process.k + 1 \in 1..Len(ArmOrder)
    BY <1>1, <1>3, ArmsOK
  <2> QED
    BY <1>1, <1>3, <2>1, Shaped DEF NextArm, At
<1> QED
  BY <1>2, <1>3

\* A step of the second phase leaves the first as it is.
LEMMA StudyStep ==
    ASSUME ModelsInv, process.pc \in StudyPhase, NEW pc \in {"idle"} \union StudyPhase, Goto(pc), Keep,
           ModelsKept, disk'.evaluation = disk.evaluation
    PROVE  ModelsInv'
<1>1. Complete("models")
  BY DEF ModelsInv, InOrder
<1>2. ProcessOK({"idle"}) \/ ProcessOK(StudyPhase)
  BY GotoOK, Shaped, ArmsOK DEF Keep, ProcessOK
<1> QED
  BY <1>1, <1>2, KeptModels DEF Keep

\* A step of the second phase that writes nothing.
LEMMA MovedStudy ==
    ASSUME ModelsInv, process.pc \in StudyPhase, NEW pc \in {"idle"} \union StudyPhase, Goto(pc), Keep,
           UNCHANGED disk
    PROVE  ModelsInv'
BY StudyStep DEF ModelsKept, ModelsInv, Shapes, TypeOK

\* A step of the second phase that writes a file of its chain.
LEMMA WroteStudy ==
    ASSUME ModelsInv, process.pc \in StudyPhase, NEW pc \in {"idle"} \union StudyPhase, Goto(pc), Keep,
           NEW v, NEW file \in {"measured", "final", "evidence", "report", "charter", "study"}, Write(file, v)
    PROVE  ModelsInv'
BY StudyStep, WriteOK

\* A step of the second phase that writes the card or the driver's receipt.
LEMMA MarkedStudy ==
    ASSUME ModelsInv, process.pc \in StudyPhase, NEW pc \in {"idle"} \union StudyPhase, Goto(pc), Keep,
           NEW file \in {"card", "finalReceipt"}, Write(file, TRUE)
    PROVE  ModelsInv' /\ \A f \in DOMAIN disk : f # file => disk'[f] = disk[f]
<1>1. DOMAIN disk' = DOMAIN disk /\ disk'[file] = TRUE
      /\ \A f \in DOMAIN disk : f # file => disk'[f] = disk[f]
  BY Shaped DEF Write
<1>2. disk.linker \in BOOLEAN /\ disk.card \in BOOLEAN /\ disk.finalReceipt \in BOOLEAN
  BY DEF ModelsInv, Shapes, TypeOK
<1>3. ModelsKept /\ disk'.evaluation = disk.evaluation
  BY <1>1, <1>2, Shaped DEF ModelsKept
<1> QED
  BY <1>1, <1>3, StudyStep

\* Every step keeps the first phase consistent.
LEMMA ModelsNext == ModelsInv /\ [Next]_vars => ModelsInv'
<1> SUFFICES ASSUME ModelsInv, [Next]_vars PROVE ModelsInv'
  OBVIOUS
<1> USE MarksOK
<1>0. /\ disk.linker \in BOOLEAN /\ disk.card \in BOOLEAN /\ disk.finalReceipt \in BOOLEAN
      /\ process.pc \in {"idle"} \union ModelsPhase \union StudyPhase
      /\ disk.request \in [Arms -> [1..Epochs -> Draws \union {None}]]
      /\ disk.result \in [Arms -> [1..Epochs -> Draws \union {None}]]
      /\ disk.receipt \in [Arms -> Receipts]
      /\ disk.scores \in [Arms -> {None} \union [1..Epochs -> Draws]]
      /\ disk.evaluation \in [Arms -> {None} \union Evaluations]
      /\ orphan \in {None} \union [arm : Arms, found : Draws]
  BY DEF ModelsInv, Shapes, TypeOK
<1>same. UNCHANGED disk => ModelsKept /\ disk'.evaluation = disk.evaluation
  BY <1>0 DEF ModelsKept
<1>1. CASE Start
  <2>1. process'.pc = (IF disk.models \in {None, Partial} THEN "prepare" ELSE "evaluate")
        /\ process'.k = 1 /\ process'.epoch = 1 /\ DOMAIN process' = {"pc", "k", "epoch"}
        /\ UNCHANGED <<disk, orphan, kills>>
    BY <1>1 DEF Start, Keep
  <2>2. 1 \in DOMAIN ArmOrder /\ 1 \in 1..(Epochs + 1)
    BY ArmsOK
  <2>3. CASE disk.models \in {None, Partial}
    <3>1. ProcessOK(ModelsPhase)
      BY <2>1, <2>2, <2>3, Shaped DEF ProcessOK, ModelsPhase
    <3>2. InOrder'
      BY <2>1, <2>3 DEF InOrder, ModelsInv, At, StudyPhase, Complete
    <3> QED
      BY <1>same, <2>1, <3>1, <3>2, MovedModels
  <2>4. CASE disk.models \notin {None, Partial}
    <3>1. ProcessOK(StudyPhase) /\ Complete("models")
      BY <2>1, <2>2, <2>4, Shaped DEF ProcessOK, StudyPhase, Complete
    <3> QED
      BY <1>same, <2>1, <3>1, KeptModels
  <2> QED
    BY <2>3, <2>4
<1>2. CASE Prepare
  <2>1. At("prepare") /\ disk' = [disk EXCEPT !["linker"] = TRUE] /\ Goto("score") /\ Keep
    BY <1>2 DEF Prepare, Write
  <2>2. ModelsKept /\ disk'.evaluation = disk.evaluation
    BY <1>0, <2>1, Shaped DEF ModelsKept
  <2>3. process'.pc = "score" /\ process'.k = 1 /\ process'.epoch = 1 /\ orphan' = orphan
        /\ ProcessOK(ModelsPhase)
    BY <2>1, GotoOK, Shaped, ArmsOK DEF Keep, ProcessOK, ModelsPhase, ModelsInv, InOrder
  <2>4. InOrder'
    BY <2>1, <2>2, <2>3 DEF InOrder, ModelsInv, At, StudyPhase, ModelsPhase, Complete, ModelsKept
  <2> QED
    BY <2>2, <2>3, <2>4, MovedModels
<1>3. CASE UseCached
  <2>1. /\ At("score") /\ process.epoch <= Epochs /\ disk.result[Arm][process.epoch] # None
        /\ process'.pc = "score" /\ process'.k = process.k /\ process'.epoch = process.epoch + 1
        /\ DOMAIN process' = {"pc", "k", "epoch"} /\ UNCHANGED <<disk, orphan, kills>>
    BY <1>3, Shaped DEF UseCached, Keep, Cached, At
  <2>2. Arm' = Arm /\ Arm \in Arms /\ process.epoch \in 1..Epochs /\ process.epoch + 1 \in 1..(Epochs + 1)
    BY <2>1, Shaped DEF Arm
  <2>3. disk.result[Arm][process.epoch] \in Draws
    BY <1>0, <2>1, <2>2
  <2>4. \A e \in 1..((process.epoch + 1) - 1) : disk.result[Arm][e] \in Draws
    <3> SUFFICES ASSUME NEW e \in 1..process.epoch PROVE disk.result[Arm][e] \in Draws
      BY <2>2
    <3>1. e = process.epoch \/ e \in 1..(process.epoch - 1)
      BY <2>2
    <3>2. \A g \in 1..(process.epoch - 1) : disk.result[Arm][g] \in Draws
      BY <2>1 DEF ModelsInv, InOrder, At
    <3> QED
      BY <2>3, <3>1, <3>2
  <2>5. ProcessOK(ModelsPhase)
    BY <2>1, <2>2, Shaped, ArmsOK DEF ProcessOK, ModelsPhase
  <2>6. InOrder'
    BY <2>1, <2>2, <2>4, <1>same, KeptFiles DEF InOrder, ModelsInv, At, StudyPhase, ModelsPhase
  <2> QED
    BY <1>same, <2>1, <2>5, <2>6, MovedModels
<1>4. ASSUME NEW found \in Draws, Infer,
             IF Refuses(disk.request[Arm][process.epoch], found)
             THEN Fails
             ELSE /\ disk' = [disk EXCEPT !.request[Arm][process.epoch] = found]
                  /\ Goto("official")
                  /\ Keep
      PROVE  ModelsInv'
  <2>1. CASE Refuses(disk.request[Arm][process.epoch], found)
    BY <1>4, <2>1, FailsOK
  <2>2. CASE ~Refuses(disk.request[Arm][process.epoch], found)
    <3>1. /\ At("score") /\ process.epoch \in 1..Epochs /\ disk.result[Arm][process.epoch] = None
          /\ disk' = [disk EXCEPT !.request[Arm][process.epoch] = found] /\ Goto("official") /\ Keep
      BY <1>4, <2>2, Shaped DEF Infer, Cached
    <3>2. /\ disk'.request = [disk.request EXCEPT ![Arm][process.epoch] = found]
          /\ disk'.request \in [Arms -> [1..Epochs -> Draws \union {None}]]
          /\ disk'.request[Arm][process.epoch] = found
      BY <1>0, <3>1, Shaped
    <3>3. /\ \A f \in DOMAIN disk : f # "request" => disk'[f] = disk[f]
          /\ DOMAIN disk' = DOMAIN disk
      BY <3>1
    <3>4. /\ disk'.result = disk.result /\ disk'.scores = disk.scores /\ disk'.receipt = disk.receipt
          /\ disk'.models = disk.models /\ disk'.evaluation = disk.evaluation /\ disk'.linker = disk.linker
          /\ disk'.card = disk.card /\ disk'.finalReceipt = disk.finalReceipt
      BY <3>3, Shaped
    <3>5. ProcessOK(ModelsPhase) /\ process'.pc = "official" /\ process'.k = process.k
          /\ process'.epoch = process.epoch /\ Arm' = Arm /\ orphan' = orphan
      BY <3>1, GotoOK, Shaped, ArmsOK DEF Keep, ProcessOK, ModelsPhase
    <3>6. Shapes'
      BY <1>0, <3>2, <3>3, <3>4, <3>5, Shaped DEF Shapes, TypeOK, ProcessOK
    <3>7. \A a : (Scored(a) <=> Scored(a)') /\ (IsSelected(a) <=> IsSelected(a)')
      BY <3>4 DEF Scored, IsSelected
    <3>8. Complete("models")' <=> Complete("models")
      BY <3>4 DEF Complete
    <3>9. ASSUME NEW a \in Arms, NEW e \in 1..Epochs, disk'.result[a][e] # None
          PROVE  disk'.result[a][e] = disk'.request[a][e]
      <4>1. disk.result[a][e] # None /\ disk.result[a][e] = disk.request[a][e]
        BY <3>4, <3>9 DEF ModelsInv, FilesFollow
      <4>2. disk'.request[a][e] = disk.request[a][e]
        BY <1>0, <3>1, <3>2, <4>1, Shaped
      <4> QED
        BY <3>4, <4>1, <4>2
    <3>10. FilesFollow'
      BY <3>4, <3>7, <3>8, <3>9 DEF ModelsInv, FilesFollow
    <3>11. InOrder'
      BY <3>1, <3>2, <3>4, <3>5, <3>7, <3>8, InModels DEF InOrder, ModelsInv, At, StudyPhase, ModelsPhase
    <3> QED
      BY <3>6, <3>10, <3>11 DEF ModelsInv
  <2> QED
    BY <2>1, <2>2
<1>5. CASE Record
  <2>1. /\ At("official") /\ process.pc \in ModelsPhase
        /\ disk' = [disk EXCEPT !.result[Arm][process.epoch] = disk.request[Arm][process.epoch]]
        /\ process' = [process EXCEPT !.pc = "score", !.epoch = @ + 1] /\ Keep
    BY <1>5 DEF Record, At, ModelsPhase
  <2>2. /\ \A f \in DOMAIN disk : f # "result" => disk'[f] = disk[f]
        /\ DOMAIN disk' = DOMAIN disk
        /\ disk'.result = [disk.result EXCEPT ![Arm][process.epoch] = disk.request[Arm][process.epoch]]
    BY <2>1, Shaped
  <2>3. process.epoch \in 1..Epochs /\ disk.request[Arm][process.epoch] \in Draws /\ Arm \in Arms
    BY <2>1, Shaped DEF ModelsInv, InOrder
  <2>4. /\ disk'.request = disk.request /\ disk'.scores = disk.scores /\ disk'.receipt = disk.receipt
        /\ disk'.models = disk.models /\ disk'.evaluation = disk.evaluation /\ disk'.linker = disk.linker
        /\ disk'.card = disk.card /\ disk'.finalReceipt = disk.finalReceipt
    BY <2>2, Shaped
  <2>5. /\ process'.pc = "score" /\ process'.k = process.k /\ process'.epoch = process.epoch + 1
        /\ DOMAIN process' = {"pc", "k", "epoch"} /\ Arm' = Arm
    BY <2>1, Shaped DEF Arm
  <2>6. ProcessOK(ModelsPhase) /\ orphan' = orphan
    <3>1. process.epoch + 1 \in 1..(Epochs + 1)
      BY <2>3
    <3> QED
      BY <2>1, <2>5, <3>1, Shaped, ArmsOK DEF Keep, ProcessOK, ModelsPhase
  <2>7. disk'.result \in [Arms -> [1..Epochs -> Draws \union {None}]]
    BY <1>0, <2>2, <2>3
  <2>8. Shapes'
    BY <1>0, <2>2, <2>4, <2>6, <2>7, Shaped DEF Shapes, TypeOK, ProcessOK
  <2>9. \A a \in Arms : (Scored(a) => Scored(a)') /\ (IsSelected(a) => IsSelected(a)')
    BY <2>1, <2>2, <2>4, RecordKeeps
  <2>10. \A a \in Arms, e \in 1..Epochs : disk'.result[a][e] # None => disk'.result[a][e] = disk'.request[a][e]
    <3> SUFFICES ASSUME NEW a \in Arms, NEW e \in 1..Epochs, disk'.result[a][e] # None
                 PROVE  disk'.result[a][e] = disk'.request[a][e]
      OBVIOUS
    <3>1. CASE a = Arm /\ e = process.epoch
      BY <1>0, <2>2, <2>3, <2>4, <3>1
    <3>2. CASE ~(a = Arm /\ e = process.epoch)
      <4>1. disk'.result[a][e] = disk.result[a][e]
        BY <1>0, <2>2, <2>3, <3>2
      <4> QED
        BY <2>4, <4>1 DEF ModelsInv, FilesFollow
    <3> QED
      BY <3>1, <3>2
  <2>11. ~Complete("models")'
    BY <2>1, <2>4, InModels DEF Complete
  <2>12. FilesFollow'
    BY <2>1, <2>4, <2>9, <2>10, <2>11, InModels DEF ModelsInv, FilesFollow
  <2>13. \A e \in 1..((process.epoch + 1) - 1) : disk'.result[Arm][e] \in Draws
    <3> SUFFICES ASSUME NEW e \in 1..process.epoch PROVE disk'.result[Arm][e] \in Draws
      BY <2>3
    <3>1. e \in 1..Epochs
      BY <2>3
    <3>2. CASE e = process.epoch
      BY <1>0, <2>2, <2>3, <3>2
    <3>3. CASE e # process.epoch
      <4>1. e \in 1..(process.epoch - 1)
        BY <2>3, <3>3
      <4>2. disk.result[Arm][e] \in Draws
        BY <2>1, <4>1 DEF ModelsInv, InOrder, At
      <4> QED
        BY <1>0, <2>2, <2>3, <3>1, <3>3, <4>2
    <3> QED
      BY <3>2, <3>3
  <2>14. \A i \in 1..(process.k - 1) : IsSelected(ArmOrder[i])'
    BY <2>1, <2>9, Shaped, ArmsOK DEF ModelsInv, InOrder, At
  <2>15. InOrder'
    BY <2>1, <2>4, <2>5, <2>6, <2>13, <2>14, InModels DEF InOrder, At, StudyPhase
  <2> QED
    BY <2>8, <2>12, <2>15 DEF ModelsInv
<1>6. CASE WriteScores
  <2>1. CASE Refuses(disk.scores[Arm], disk.result[Arm])
    BY <1>6, <2>1, FailsOK DEF WriteScores
  <2>2. CASE ~Refuses(disk.scores[Arm], disk.result[Arm])
    <3>1. /\ At("score") /\ process.epoch = Epochs + 1 /\ process.pc \in ModelsPhase /\ Arm \in Arms
          /\ disk' = [disk EXCEPT !.scores[Arm] = disk.result[Arm]] /\ Goto("select") /\ Keep
      BY <1>6, <2>2, Shaped DEF WriteScores, At, ModelsPhase
    <3>2. /\ \A f \in DOMAIN disk : f # "scores" => disk'[f] = disk[f]
          /\ DOMAIN disk' = DOMAIN disk
          /\ disk'.scores = [disk.scores EXCEPT ![Arm] = disk.result[Arm]]
      BY <3>1, Shaped
    <3>3. /\ disk'.request = disk.request /\ disk'.result = disk.result /\ disk'.receipt = disk.receipt
          /\ disk'.models = disk.models /\ disk'.evaluation = disk.evaluation /\ disk'.linker = disk.linker
          /\ disk'.card = disk.card /\ disk'.finalReceipt = disk.finalReceipt
      BY <3>2, Shaped
    <3>4. ProcessOK(ModelsPhase) /\ process'.pc = "select" /\ process'.k = process.k
          /\ process'.epoch = process.epoch /\ Arm' = Arm /\ orphan' = orphan
      BY <3>1, GotoOK, Shaped, ArmsOK DEF Keep, ProcessOK, ModelsPhase
    <3>5. disk.result[Arm] \in [1..Epochs -> Draws]
      <4>1. \A e \in 1..Epochs : disk.result[Arm][e] \in Draws
        BY <3>1 DEF ModelsInv, InOrder, At
      <4> QED
        BY <1>0, <3>1, <4>1
    <3>6. disk'.scores \in [Arms -> {None} \union [1..Epochs -> Draws]]
      BY <1>0, <3>1, <3>2, <3>5
    <3>7. Shapes'
      BY <1>0, <3>2, <3>3, <3>4, <3>6, Shaped DEF Shapes, TypeOK, ProcessOK
    <3>8. Scored(Arm)'
      BY <1>0, <3>1, <3>2, <3>3, <3>4, <3>5 DEF Scored
    <3>9. \A a \in Arms : (Scored(a) => Scored(a)') /\ (IsSelected(a) => IsSelected(a)')
      <4> SUFFICES ASSUME NEW a \in Arms, Scored(a)
                   PROVE  disk'.scores[a] = disk.scores[a]
        BY <3>3 DEF Scored, IsSelected
      <4> QED
        BY <1>0, <3>1, <3>2 DEF Scored
    <3>10. \A a \in Arms : disk'.scores[a] # None => Scored(a)'
      BY <1>0, <3>1, <3>2, <3>4, <3>8, <3>9 DEF ModelsInv, FilesFollow
    <3>11. ~Complete("models")'
      BY <3>1, <3>3, InModels DEF Complete
    <3>12. FilesFollow'
      BY <3>1, <3>3, <3>9, <3>10, <3>11, InModels DEF ModelsInv, FilesFollow
    <3>13. \A i \in 1..(process.k - 1) : IsSelected(ArmOrder[i])'
      BY <3>1, <3>9, Shaped, ArmsOK DEF ModelsInv, InOrder, At
    <3>14. InOrder'
      BY <3>1, <3>3, <3>4, <3>8, <3>13, InModels DEF InOrder, At, StudyPhase
    <3> QED
      BY <3>7, <3>12, <3>14 DEF ModelsInv
  <2> QED
    BY <2>1, <2>2
<1>7. CASE Select
  <2>1. CASE Refuses(disk.receipt[Arm], Selected(disk.scores[Arm]))
    BY <1>7, <2>1, FailsOK DEF Select
  <2>2. CASE ~Refuses(disk.receipt[Arm], Selected(disk.scores[Arm]))
    <3>1. /\ At("select") /\ process.pc \in ModelsPhase /\ Arm \in Arms
          /\ disk' = [disk EXCEPT !.receipt[Arm] = IF @ = None THEN Partial ELSE @]
          /\ Goto("selected") /\ Keep
      BY <1>7, <2>2, Shaped DEF Select, At, ModelsPhase
    <3>2. /\ \A f \in DOMAIN disk : f # "receipt" => disk'[f] = disk[f]
          /\ DOMAIN disk' = DOMAIN disk
          /\ disk'.receipt = [disk.receipt EXCEPT ![Arm] = IF @ = None THEN Partial ELSE @]
      BY <3>1, Shaped
    <3>3. /\ disk'.request = disk.request /\ disk'.result = disk.result /\ disk'.scores = disk.scores
          /\ disk'.models = disk.models /\ disk'.evaluation = disk.evaluation /\ disk'.linker = disk.linker
          /\ disk'.card = disk.card /\ disk'.finalReceipt = disk.finalReceipt
      BY <3>2, Shaped
    <3>4. ProcessOK(ModelsPhase) /\ process'.pc = "selected" /\ process'.k = process.k
          /\ process'.epoch = process.epoch /\ Arm' = Arm /\ orphan' = orphan
      BY <3>1, GotoOK, Shaped, ArmsOK DEF Keep, ProcessOK, ModelsPhase
    <3>5. disk'.receipt \in [Arms -> Receipts] /\ \A a \in Arms : disk.receipt[a] # None => disk'.receipt[a] = disk.receipt[a]
      BY <1>0, <3>1, <3>2 DEF Receipts
    <3>6. Shapes'
      BY <1>0, <3>2, <3>3, <3>4, <3>5, Shaped DEF Shapes, TypeOK, ProcessOK
    <3>7. \A a \in Arms : (Scored(a) => Scored(a)') /\ (IsSelected(a) => IsSelected(a)')
      <4> SUFFICES ASSUME NEW a \in Arms, IsSelected(a) PROVE disk'.receipt[a] = disk.receipt[a]
        BY <3>3 DEF Scored, IsSelected
      <4>1. disk.scores[a] \in [1..Epochs -> Draws]
        BY DEF IsSelected, Scored
      <4>2. disk.receipt[a] \in 1..Epochs
        BY <4>1, SelectedIsBest DEF IsSelected
      <4> QED
        BY <3>5, <4>2
    <3>8. \A a \in Arms : disk'.receipt[a] \notin {None, Partial} => IsSelected(a)'
      BY <1>0, <3>1, <3>2, <3>7 DEF ModelsInv, FilesFollow
    <3>9. ~Complete("models")'
      BY <3>1, <3>3, InModels DEF Complete
    <3>10. FilesFollow'
      BY <3>1, <3>3, <3>7, <3>8, <3>9, InModels DEF ModelsInv, FilesFollow
    <3>11. \A i \in 1..(process.k - 1) : IsSelected(ArmOrder[i])'
      BY <3>1, <3>7, Shaped, ArmsOK DEF ModelsInv, InOrder, At
    <3>12. Scored(Arm)'
      BY <3>1, <3>4, <3>7 DEF ModelsInv, InOrder, At, Scored
    <3>13. InOrder'
      BY <3>1, <3>3, <3>4, <3>11, <3>12, InModels DEF InOrder, At, StudyPhase
    <3> QED
      BY <3>6, <3>10, <3>13 DEF ModelsInv
  <2> QED
    BY <2>1, <2>2
<1>8. CASE EndSelect
  <2>1. /\ At("selected") /\ process.pc \in ModelsPhase /\ Arm \in Arms
        /\ disk' = [disk EXCEPT !.receipt[Arm] = Selected(disk.scores[Arm])] /\ Keep
        /\ process' = IF Arm = Joint THEN [process EXCEPT !.pc = "qualify"]
                      ELSE [process EXCEPT !.pc = "score", !.k = @ + 1, !.epoch = 1]
    BY <1>8, Shaped DEF EndSelect, At, ModelsPhase
  <2>2. /\ \A f \in DOMAIN disk : f # "receipt" => disk'[f] = disk[f]
        /\ DOMAIN disk' = DOMAIN disk
        /\ disk'.receipt = [disk.receipt EXCEPT ![Arm] = Selected(disk.scores[Arm])]
    BY <2>1, Shaped
  <2>3. /\ disk'.request = disk.request /\ disk'.result = disk.result /\ disk'.scores = disk.scores
        /\ disk'.models = disk.models /\ disk'.evaluation = disk.evaluation /\ disk'.linker = disk.linker
        /\ disk'.card = disk.card /\ disk'.finalReceipt = disk.finalReceipt
    BY <2>2, Shaped
  <2>4. Scored(Arm) /\ disk.scores[Arm] \in [1..Epochs -> Draws]
    BY <2>1 DEF ModelsInv, InOrder, Scored, At
  <2>5. Selected(disk.scores[Arm]) \in 1..Epochs
    BY <2>4, SelectedIsBest
  <2>6. disk'.receipt \in [Arms -> Receipts] /\ disk'.receipt[Arm] = Selected(disk.scores[Arm])
        /\ \A a \in Arms : a # Arm => disk'.receipt[a] = disk.receipt[a]
    BY <1>0, <2>1, <2>2, <2>5 DEF Receipts
  <2>7. \A a \in Arms : (Scored(a) => Scored(a)') /\ (IsSelected(a) \/ a = Arm => IsSelected(a)')
    BY <2>3, <2>4, <2>6 DEF Scored, IsSelected
  <2>8. ~Complete("models")'
    BY <2>1, <2>3, InModels DEF Complete
  <2>9. \A a \in Arms : disk'.receipt[a] \notin {None, Partial} => IsSelected(a)'
    BY <2>6, <2>7 DEF ModelsInv, FilesFollow
  <2>10. FilesFollow'
    BY <2>1, <2>3, <2>7, <2>8, <2>9, InModels DEF ModelsInv, FilesFollow
  <2>11. process.k \in 1..Len(ArmOrder) /\ Arm = ArmOrder[process.k] /\ Len(ArmOrder) \in Nat
    BY Shaped, ArmsOK DEF Arm
  <2>12. \A i \in 1..process.k : IsSelected(ArmOrder[i])'
    <3> SUFFICES ASSUME NEW i \in 1..process.k PROVE IsSelected(ArmOrder[i])'
      OBVIOUS
    <3>1. i = process.k \/ i \in 1..(process.k - 1)
      BY <2>11
    <3>2. ArmOrder[i] \in Arms
      BY <2>11, ArmsOK
    <3>3. i \in 1..(process.k - 1) => IsSelected(ArmOrder[i])
      BY <2>1 DEF ModelsInv, InOrder, At
    <3> QED
      BY <2>7, <2>11, <3>1, <3>2, <3>3
  <2>13. CASE Arm = Joint
    <3>1. process.k = Len(ArmOrder)
      <4>1. Len(ArmOrder) \in 1..Len(ArmOrder) /\ ArmOrder[process.k] = ArmOrder[Len(ArmOrder)]
        BY <2>11, <2>13, ArmsOK
      <4> QED
        BY <2>11, <4>1, ArmsOK
    <3>2. \A a \in Arms : IsSelected(a)'
      BY <2>12, <3>1, ArmsOK
    <3>3. process'.pc = "qualify" /\ process'.k = process.k /\ process'.epoch = process.epoch
          /\ DOMAIN process' = {"pc", "k", "epoch"} /\ orphan' = orphan /\ kills' = kills
      BY <2>1, <2>13, Shaped DEF Keep
    <3>4. ProcessOK(ModelsPhase)
      BY <2>11, <3>3, Shaped, ArmsOK DEF ProcessOK, ModelsPhase
    <3>5. Shapes'
      BY <1>0, <2>2, <2>3, <2>6, <3>3, <3>4, Shaped DEF Shapes, TypeOK, ProcessOK
    <3>6. InOrder'
      BY <2>1, <2>3, <3>2, <3>3, InModels DEF InOrder, At, StudyPhase
    <3> QED
      BY <2>10, <3>5, <3>6 DEF ModelsInv
  <2>14. CASE Arm # Joint
    <3>1. process.k + 1 \in 1..Len(ArmOrder) /\ (process.k + 1) - 1 = process.k
      BY <2>11, <2>14, ArmsOK
    <3>2. process'.pc = "score" /\ process'.k = process.k + 1 /\ process'.epoch = 1
          /\ DOMAIN process' = {"pc", "k", "epoch"} /\ orphan' = orphan /\ kills' = kills
      BY <2>1, <2>14, Shaped DEF Keep
    <3>3. ProcessOK(ModelsPhase)
      BY <3>1, <3>2, Shaped, ArmsOK DEF ProcessOK, ModelsPhase
    <3>4. Shapes'
      BY <1>0, <2>2, <2>3, <2>6, <3>2, <3>3, Shaped DEF Shapes, TypeOK, ProcessOK
    <3>5. \A i \in 1..(process'.k - 1) : IsSelected(ArmOrder[i])'
      BY <2>12, <3>1, <3>2
    <3>6. \A e \in 1..(process'.epoch - 1) : FALSE
      BY <3>2
    <3>7. InOrder'
      BY <2>1, <2>3, <3>2, <3>5, <3>6, InModels DEF InOrder, At, StudyPhase
    <3> QED
      BY <2>10, <3>4, <3>7 DEF ModelsInv
  <2> QED
    BY <2>13, <2>14
<1>9. CASE QualifyModels
  <2>1. CASE Refuses(disk.models, disk.receipt)
    BY <1>9, <2>1, FailsOK DEF QualifyModels
  <2>2. CASE ~Refuses(disk.models, disk.receipt)
    <3>1. /\ At("qualify") /\ process.pc \in ModelsPhase
          /\ disk' = [disk EXCEPT !["models"] = Partial] /\ Goto("qualified") /\ Keep
      BY <1>9, <2>2 DEF QualifyModels, At, ModelsPhase, Write
    <3>2. /\ \A f \in DOMAIN disk : f # "models" => disk'[f] = disk[f]
          /\ DOMAIN disk' = DOMAIN disk /\ disk'.models = Partial
      BY <3>1, Shaped
    <3>3. /\ disk'.request = disk.request /\ disk'.result = disk.result /\ disk'.scores = disk.scores
          /\ disk'.receipt = disk.receipt /\ disk'.evaluation = disk.evaluation
          /\ disk'.linker = disk.linker /\ disk'.card = disk.card /\ disk'.finalReceipt = disk.finalReceipt
      BY <3>2, Shaped
    <3>4. ProcessOK(ModelsPhase) /\ process'.pc = "qualified" /\ process'.k = process.k
          /\ process'.epoch = process.epoch /\ orphan' = orphan
      BY <3>1, GotoOK, Shaped, ArmsOK DEF Keep, ProcessOK, ModelsPhase
    <3>5. Shapes'
      BY <1>0, <3>2, <3>3, <3>4, Shaped DEF Shapes, TypeOK, ProcessOK
    <3>6. \A a : (Scored(a) <=> Scored(a)') /\ (IsSelected(a) <=> IsSelected(a)')
      BY <3>3 DEF Scored, IsSelected
    <3>7. ~Complete("models")'
      BY <3>2 DEF Complete
    <3>8. FilesFollow'
      BY <3>1, <3>3, <3>6, <3>7, InModels DEF ModelsInv, FilesFollow
    <3>9. InOrder'
      BY <3>1, <3>2, <3>4, <3>6, InModels DEF ModelsInv, InOrder, At, StudyPhase
    <3> QED
      BY <3>5, <3>8, <3>9 DEF ModelsInv
  <2> QED
    BY <2>1, <2>2
<1>10. CASE EndModels
  <2>1. /\ At("qualified") /\ process.pc \in ModelsPhase
        /\ disk' = [disk EXCEPT !["models"] = disk.receipt] /\ Goto("idle") /\ Keep
    BY <1>10 DEF EndModels, At, ModelsPhase, Write
  <2>2. /\ \A f \in DOMAIN disk : f # "models" => disk'[f] = disk[f]
        /\ DOMAIN disk' = DOMAIN disk
    BY <2>1, Shaped
  <2>3. /\ disk'.request = disk.request /\ disk'.result = disk.result /\ disk'.scores = disk.scores
        /\ disk'.receipt = disk.receipt /\ disk'.evaluation = disk.evaluation
        /\ disk'.linker = disk.linker /\ disk'.card = disk.card /\ disk'.finalReceipt = disk.finalReceipt
    BY <2>2, Shaped
  <2>4. ProcessOK({"idle"}) /\ process'.pc = "idle" /\ process'.k = process.k
        /\ process'.epoch = process.epoch /\ orphan' = orphan
    BY <2>1, GotoOK, Shaped, ArmsOK DEF Keep, ProcessOK
  <2>5. Shapes'
    BY <1>0, <2>2, <2>3, <2>4, Shaped DEF Shapes, TypeOK, ProcessOK
  <2>6. \A a : (Scored(a) <=> Scored(a)') /\ (IsSelected(a) <=> IsSelected(a)')
    BY <2>3 DEF Scored, IsSelected
  <2>7. \A a \in Arms : IsSelected(a)'
    BY <2>1, <2>6 DEF ModelsInv, InOrder
  <2>8. FilesFollow'
    BY <2>1, <2>3, <2>6, <2>7, InModels DEF ModelsInv, FilesFollow
  <2>9. InOrder'
    BY <2>1, <2>4, InModels DEF InOrder, At, StudyPhase, ModelsPhase
  <2> QED
    BY <2>5, <2>8, <2>9 DEF ModelsInv
<1>11. ASSUME NEW found \in Draws, Evaluate,
              disk' = [disk EXCEPT !.evaluation[Arm] = Evaluation(Arm, found)]
       PROVE  ModelsInv'
  <2>1. At("evaluate") /\ NextArm /\ orphan' = orphan /\ kills' = kills
    BY <1>11 DEF Evaluate, Keep
  <2>2. Complete("models")
    BY <2>1 DEF ModelsInv, InOrder, At, StudyPhase
  <2>3. ProcessOK({"idle"} \union StudyPhase)
    BY <2>1, NextArmOK, Shaped DEF ProcessOK, StudyPhase
  <2> QED
    BY <1>0, <1>11, <2>1, <2>2, <2>3, EvaluatedModels, Shaped
<1>12. CASE UseEvaluation
  <2>1. At("evaluate") /\ NextArm /\ UNCHANGED <<disk, orphan, kills>>
    BY <1>12 DEF UseEvaluation, Keep
  <2>2. Complete("models")
    BY <2>1 DEF ModelsInv, InOrder, At, StudyPhase
  <2>3. ProcessOK(StudyPhase)
    BY <2>1, NextArmOK, Shaped DEF ProcessOK, StudyPhase
  <2> QED
    BY <1>same, <2>1, <2>2, <2>3, KeptModels
<1>13. CASE Orphaned
  <2>1. At("evaluate") /\ kills < MaxKills /\ Goto("idle") /\ kills' = kills + 1 /\ UNCHANGED disk
        /\ \E found \in Draws : orphan' = [arm |-> Arm, found |-> found]
    BY <1>13 DEF Orphaned
  <2>2. Complete("models")
    BY <2>1 DEF ModelsInv, InOrder, At, StudyPhase
  <2>3. orphan' \in [arm : Arms, found : Draws]
    BY <2>1, Shaped
  <2>4. kills' \in 0..MaxKills
    BY <2>1, Shaped
  <2>5. ProcessOK({"idle"}) /\ process'.pc = "idle"
    BY <2>1, <2>4, GotoOK, Shaped, ArmsOK DEF ProcessOK
  <2>6. Shapes' /\ FilesFollow' /\ (Complete("models")' <=> Complete("models"))
    <3>1. ProcessOK({"idle"} \union ModelsPhase \union StudyPhase)
      BY <2>5 DEF ProcessOK
    <3> QED
      BY <1>same, <2>1, <2>3, <3>1, KeptShapes, KeptFiles
  <2>7. InOrder'
    BY <2>2, <2>5, <2>6 DEF InOrder, At, StudyPhase, ModelsPhase
  <2> QED
    BY <2>6, <2>7 DEF ModelsInv
<1>14. CASE OrphanEnds
  <2>1. orphan \in [arm : Arms, found : Draws] /\ orphan' = None /\ UNCHANGED <<process, kills>>
        /\ disk' = IF disk.evaluation[orphan.arm] = None
                   THEN [disk EXCEPT !.evaluation[orphan.arm] = Evaluation(orphan.arm, orphan.found)]
                   ELSE disk
    BY <1>0, <1>14 DEF OrphanEnds
  <2>2. Complete("models")
    BY <1>14 DEF ModelsInv, InOrder, OrphanEnds
  <2>3. ProcessOK({"idle"} \union StudyPhase)
    BY <2>1, <2>2, AfterModels, Shaped, ArmsOK DEF ProcessOK
  <2>4. CASE disk.evaluation[orphan.arm] = None
    BY <2>1, <2>2, <2>3, <2>4, EvaluatedModels
  <2>5. CASE disk.evaluation[orphan.arm] # None
    <3>1. UNCHANGED <<disk, process, kills>> /\ orphan' = None
      BY <2>1, <2>5
    <3>2. Shapes' /\ FilesFollow' /\ InOrder'
      BY <1>0, <2>2, <3>1 DEF ModelsInv, Shapes, TypeOK, FilesFollow, InOrder, At, Arm, Scored, IsSelected, Complete
    <3> QED
      BY <3>2 DEF ModelsInv
  <2> QED
    BY <2>4, <2>5
<1>15. CASE Measure
  <2>1. process.pc \in StudyPhase
    BY <1>15 DEF Measure, At, StudyPhase
  <2>2. CASE Refuses(disk.measured, Variability)
    BY <1>15, <2>2, FailsOK DEF Measure
  <2>3. CASE ~Refuses(disk.measured, Variability)
    <3>1. Write("measured", Variability) /\ Keep
          /\ Goto(IF disk.final = None THEN "finalize" ELSE "verify")
      BY <1>15, <2>3 DEF Measure
    <3>2. (IF disk.final = None THEN "finalize" ELSE "verify") \in {"idle"} \union StudyPhase
      BY DEF StudyPhase
    <3> QED
      BY <2>1, <3>1, <3>2, WroteStudy
  <2> QED
    BY <2>2, <2>3
<1>16. CASE Finalize
  <2>1. process.pc \in StudyPhase
    BY <1>16 DEF Finalize, At, StudyPhase
  <2>2. "card" \in StudyPhase
    BY DEF StudyPhase
  <2> QED
    BY <1>16, <2>1, <2>2, WroteStudy DEF Finalize
<1>17. CASE WriteCard
  <2>1. process.pc \in StudyPhase
    BY <1>17 DEF WriteCard, At, StudyPhase
  <2>2. "receive" \in StudyPhase
    BY DEF StudyPhase
  <2> QED
    BY <1>17, <2>1, <2>2, MarkedStudy DEF WriteCard
<1>18. CASE Receive
  <2>1. process.pc \in StudyPhase
    BY <1>18 DEF Receive, At, StudyPhase
  <2>2. "verify" \in StudyPhase
    BY DEF StudyPhase
  <2> QED
    BY <1>18, <2>1, <2>2, MarkedStudy DEF Receive
<1>19. CASE VerifyFinal
  <2>1. process.pc \in StudyPhase
    BY <1>19 DEF VerifyFinal, At, StudyPhase
  <2>2. Fails \/ (Goto("evidence") /\ UNCHANGED disk /\ Keep)
    BY <1>19 DEF VerifyFinal
  <2>3. "evidence" \in StudyPhase
    BY DEF StudyPhase
  <2> QED
    BY <2>1, <2>2, <2>3, FailsOK, MovedStudy
<1>20. CASE WriteEvidence
  <2>1. process.pc \in StudyPhase
    BY <1>20 DEF WriteEvidence, At, StudyPhase
  <2>2. Fails \/ (Write("evidence", StudyEvidence) /\ Goto("report") /\ Keep)
    BY <1>20 DEF WriteEvidence
  <2>3. "report" \in StudyPhase
    BY DEF StudyPhase
  <2> QED
    BY <2>1, <2>2, <2>3, FailsOK, WroteStudy
<1>21. CASE WriteReport
  <2>1. process.pc \in StudyPhase
    BY <1>21 DEF WriteReport, At, StudyPhase
  <2>2. \/ Fails
        \/ Write("report", Report(disk.evidence)) /\ Goto("report") /\ Keep
        \/ Goto("freeze") /\ UNCHANGED disk /\ Keep
    BY <1>21 DEF WriteReport
  <2>3. "report" \in StudyPhase /\ "freeze" \in StudyPhase
    BY DEF StudyPhase
  <2> QED
    BY <2>1, <2>2, <2>3, FailsOK, WroteStudy, MovedStudy
<1>22. CASE FreezeCharter
  <2>1. process.pc \in StudyPhase
    BY <1>22 DEF FreezeCharter, At, StudyPhase
  <2>2. \/ Fails
        \/ Write("charter", FreezeEvidence) /\ Goto("freeze") /\ Keep
        \/ Goto("conclude") /\ UNCHANGED disk /\ Keep
    BY <1>22 DEF FreezeCharter
  <2>3. "freeze" \in StudyPhase /\ "conclude" \in StudyPhase
    BY DEF StudyPhase
  <2> QED
    BY <2>1, <2>2, <2>3, FailsOK, WroteStudy, MovedStudy
<1>23. CASE Conclude
  <2>1. process.pc \in StudyPhase
    BY <1>23 DEF Conclude, At, StudyPhase
  <2> QED
    BY <1>23, <2>1, WroteStudy DEF Conclude
<1>24. CASE Kill
  <2>1. Goto("idle") /\ kills' \in 0..MaxKills /\ UNCHANGED <<disk, orphan>>
    BY <1>24, Shaped DEF Kill
  <2>2. ProcessOK({"idle"})
    BY <2>1, GotoOK, Shaped, ArmsOK DEF ProcessOK
  <2> QED
    BY <1>same, <2>1, <2>2, KeptModels
<1>25. CASE UNCHANGED vars
  <2>1. UNCHANGED <<disk, process, orphan, kills>>
    BY <1>25 DEF vars
  <2>2. Shapes'
    BY <2>1 DEF ModelsInv, Shapes, TypeOK
  <2>3. FilesFollow' /\ InOrder'
    BY <2>1 DEF ModelsInv, FilesFollow, InOrder, At, Arm, Scored, IsSelected, Complete
  <2> QED
    BY <2>2, <2>3 DEF ModelsInv
<1> QED
  BY <1>1, <1>2, <1>3, <1>4, <1>5, <1>6, <1>7, <1>8, <1>9, <1>10, <1>11, <1>12, <1>13, <1>14, <1>15, <1>16, <1>17, <1>18, <1>19, <1>20, <1>21, <1>22, <1>23, <1>24, <1>25 DEF Next, Step, Infer, Evaluate

-----------------------------------------------------------------------------
(* The second phase. *)

\* Nothing is derived at first.
LEMMA StudyInit == Init => StudyInv
BY DEF Init, StudyInv, ChainFollows, StudyInOrder, Derived, At, StudyPhase

\* What the files are derived from depends on the evaluations and the receipts alone.
LEMMA SameValues ==
    ASSUME disk'.evaluation = disk.evaluation, disk'.receipt = disk.receipt
    PROVE  /\ Variability' = Variability /\ FinalArtifacts' = FinalArtifacts
           /\ StudyEvidence' = StudyEvidence /\ (Report(StudyEvidence))' = Report(StudyEvidence)
           /\ FreezeEvidence' = FreezeEvidence /\ Outcome' = Outcome /\ (AllEvaluated' <=> AllEvaluated)
BY DEF Variability, FinalArtifacts, StudyEvidence, Report, FreezeEvidence, Outcome, AllEvaluated

\* The files of the chain the second phase writes.
Second == {"measured", "final", "evidence", "report", "charter", "study"}

\* While an arm is not evaluated, the second phase has written nothing.
LEMMA NothingYet ==
    ASSUME StudyInv, ~AllEvaluated
    PROVE  \A f \in Second : disk[f] = None
BY DEF StudyInv, ChainFollows, Derived, Second

\* The files stay derived when nothing is written, or when nothing was there to derive them from.
LEMMA ChainKept ==
    ASSUME ModelsInv, StudyInv, \A f \in Second : disk'[f] = disk[f],
           \/ disk'.evaluation = disk.evaluation /\ disk'.receipt = disk.receipt
           \/ ~AllEvaluated
    PROVE  ChainFollows'
<1>1. CASE ~AllEvaluated
  BY <1>1, NothingYet DEF ChainFollows, Derived, Second
<1>2. CASE disk'.evaluation = disk.evaluation /\ disk'.receipt = disk.receipt
  BY <1>2, SameValues DEF StudyInv, ChainFollows, Derived, Second
<1> QED
  BY <1>1, <1>2

\* A step outside the second phase keeps its files.
LEMMA OutsideStudy ==
    ASSUME ModelsInv, StudyInv, \A f \in Second : disk'[f] = disk[f],
           \/ disk'.evaluation = disk.evaluation /\ disk'.receipt = disk.receipt
           \/ ~AllEvaluated,
           process'.pc \in {"idle"} \union ModelsPhase,
           process'.pc = "idle" \/ disk.study = None
    PROVE  StudyInv'
<1>1. process'.pc \notin StudyPhase
  BY DEF StudyPhase, ModelsPhase
<1>2. StudyInOrder'
  BY <1>1 DEF StudyInOrder, At, StudyPhase, Second
<1> QED
  BY <1>2, ChainKept DEF StudyInv

\* A failure leaves the chain as it is.
LEMMA FailsStudy == ASSUME ModelsInv, StudyInv, Fails PROVE StudyInv'
BY GotoOK, OutsideStudy DEF Fails

\* The models are not evaluated while their phase runs.
LEMMA NotEvaluated == ASSUME ModelsInv, process.pc \in ModelsPhase PROVE ~AllEvaluated
BY InModels, ArmsOK DEF AllEvaluated

\* An evaluation is added while the second phase is at its beginning, or not at work.
LEMMA EvaluatedStudy ==
    ASSUME ModelsInv, StudyInv, NEW a \in Arms, NEW found \in Draws, Complete("models"),
           disk.evaluation[a] = None,
           disk'.evaluation = [disk.evaluation EXCEPT ![a] = Evaluation(a, found)],
           \A f \in DOMAIN disk : f # "evaluation" => disk'[f] = disk[f]
    PROVE  /\ ChainFollows' /\ disk'.study = disk.study /\ disk'.evaluation[a] # None
           /\ \A b \in Arms : disk.evaluation[b] # None => disk'.evaluation[b] # None
<1>1. ~AllEvaluated
  BY DEF AllEvaluated
<1>2. \A f \in Second : disk'[f] = disk[f]
  BY Shaped DEF Second
<1>3. ChainFollows'
  BY <1>1, <1>2, ChainKept
<1>4. Evaluation(a, found) \in Evaluations
  BY AfterModels DEF Evaluation, Evaluations
<1>5. disk.evaluation \in [Arms -> {None} \union Evaluations]
  BY DEF ModelsInv, Shapes
<1>6. disk'.evaluation[a] # None /\ \A b \in Arms : disk.evaluation[b] # None => disk'.evaluation[b] # None
  BY <1>4, <1>5, MarksOK
<1> QED
  BY <1>2, <1>3, <1>6 DEF Second

\* A file of the second phase is written from what is there.
LEMMA WrittenStudy ==
    ASSUME ModelsInv, StudyInv, AllEvaluated, NEW v, NEW file \in Second, Write(file, v),
           \/ file = "measured" /\ v = Variability
           \/ file = "final" /\ v = FinalArtifacts /\ disk.study = None
           \/ file = "evidence" /\ v = StudyEvidence
           \/ file = "report" /\ v = Report(StudyEvidence)
           \/ file = "charter" /\ v = FreezeEvidence
           \/ file = "study" /\ v = Outcome /\ disk.final = FinalArtifacts
    PROVE  /\ ChainFollows' /\ AllEvaluated' /\ disk'[file] = v
           /\ \A f \in Second \ {file} : disk'[f] = disk[f]
           /\ Variability' = Variability /\ FinalArtifacts' = FinalArtifacts
           /\ StudyEvidence' = StudyEvidence /\ (Report(StudyEvidence))' = Report(StudyEvidence)
           /\ FreezeEvidence' = FreezeEvidence /\ Outcome' = Outcome
<1>1. /\ disk'.evaluation = disk.evaluation /\ disk'.receipt = disk.receipt /\ disk'[file] = v
      /\ \A f \in DOMAIN disk : f # file => disk'[f] = disk[f]
  BY WriteOK DEF Second, ModelsKept
<1>2. \A f \in Second \ {file} : disk'[f] = disk[f]
  BY <1>1, Shaped DEF Second
<1>3. AllEvaluated'
  BY <1>1, SameValues
<1>4. ChainFollows'
  BY <1>1, <1>2, <1>3, SameValues DEF StudyInv, ChainFollows, Derived, Second
<1> QED
  BY <1>1, <1>2, <1>3, <1>4, SameValues

\* The second phase moves on without writing a file of its chain.
LEMMA UnwrittenStudy ==
    ASSUME ModelsInv, StudyInv, disk'.evaluation = disk.evaluation, disk'.receipt = disk.receipt,
           \A f \in Second : disk'[f] = disk[f]
    PROVE  /\ ChainFollows' /\ (AllEvaluated' <=> AllEvaluated)
           /\ Variability' = Variability /\ FinalArtifacts' = FinalArtifacts
           /\ StudyEvidence' = StudyEvidence /\ (Report(StudyEvidence))' = Report(StudyEvidence)
           /\ FreezeEvidence' = FreezeEvidence
BY SameValues, ChainKept

\* Every step keeps the second phase consistent.
LEMMA StudyNext == ModelsInv /\ StudyInv /\ [Next]_vars => StudyInv'
<1> SUFFICES ASSUME ModelsInv, StudyInv, [Next]_vars PROVE StudyInv'
  OBVIOUS
<1>0. disk' = disk => /\ disk'.evaluation = disk.evaluation /\ disk'.receipt = disk.receipt
                      /\ \A f \in Second : disk'[f] = disk[f]
  OBVIOUS
<1>1. CASE Start
  <2>1. /\ disk.study = None /\ UNCHANGED disk /\ process'.k = 1
        /\ process'.pc = (IF disk.models \in {None, Partial} THEN "prepare" ELSE "evaluate")
    BY <1>1 DEF Start
  <2>2. CASE process'.pc = "prepare"
    BY <1>0, <2>1, <2>2, OutsideStudy DEF ModelsPhase
  <2>3. CASE process'.pc = "evaluate"
    <3>1. StudyInOrder'
      BY <2>1, <2>3 DEF StudyInOrder, At
    <3> QED
      BY <1>0, <2>1, <3>1, ChainKept DEF StudyInv
  <2> QED
    BY <2>1, <2>2, <2>3
<1>2. CASE Prepare
  <2>1. At("prepare") /\ process.pc \in ModelsPhase /\ ~AllEvaluated /\ disk.study = None
    BY <1>2, NotEvaluated DEF Prepare, At, ModelsPhase, StudyInv, StudyInOrder
  <2>2. Fails \/ process'.pc \in {"idle"} \union ModelsPhase
    BY <1>2, Shaped DEF Prepare, Goto, ModelsPhase, At
  <2>3. \A f \in Second : disk'[f] = disk[f]
    BY <1>2, Shaped DEF Prepare, Fails, Second, Write
  <2> QED
    BY <2>1, <2>2, <2>3, FailsStudy, OutsideStudy
<1>3. CASE UseCached
  <2>1. At("score") /\ process.pc \in ModelsPhase /\ ~AllEvaluated /\ disk.study = None
    BY <1>3, NotEvaluated DEF UseCached, At, ModelsPhase, StudyInv, StudyInOrder
  <2>2. Fails \/ process'.pc \in {"idle"} \union ModelsPhase
    BY <1>3, Shaped DEF UseCached, Goto, ModelsPhase, At
  <2>3. \A f \in Second : disk'[f] = disk[f]
    BY <1>3, Shaped DEF UseCached, Fails, Second, Write
  <2> QED
    BY <2>1, <2>2, <2>3, FailsStudy, OutsideStudy
<1>4. CASE Infer
  <2>1. At("score") /\ process.pc \in ModelsPhase /\ ~AllEvaluated /\ disk.study = None
    BY <1>4, NotEvaluated DEF Infer, At, ModelsPhase, StudyInv, StudyInOrder
  <2>2. Fails \/ process'.pc \in {"idle"} \union ModelsPhase
    BY <1>4, Shaped DEF Infer, Goto, ModelsPhase, At
  <2>3. \A f \in Second : disk'[f] = disk[f]
    BY <1>4, Shaped DEF Infer, Fails, Second, Write
  <2> QED
    BY <2>1, <2>2, <2>3, FailsStudy, OutsideStudy
<1>5. CASE Record
  <2>1. At("official") /\ process.pc \in ModelsPhase /\ ~AllEvaluated /\ disk.study = None
    BY <1>5, NotEvaluated DEF Record, At, ModelsPhase, StudyInv, StudyInOrder
  <2>2. Fails \/ process'.pc \in {"idle"} \union ModelsPhase
    BY <1>5, Shaped DEF Record, Goto, ModelsPhase, At
  <2>3. \A f \in Second : disk'[f] = disk[f]
    BY <1>5, Shaped DEF Record, Fails, Second, Write
  <2> QED
    BY <2>1, <2>2, <2>3, FailsStudy, OutsideStudy
<1>6. CASE WriteScores
  <2>1. At("score") /\ process.pc \in ModelsPhase /\ ~AllEvaluated /\ disk.study = None
    BY <1>6, NotEvaluated DEF WriteScores, At, ModelsPhase, StudyInv, StudyInOrder
  <2>2. Fails \/ process'.pc \in {"idle"} \union ModelsPhase
    BY <1>6, Shaped DEF WriteScores, Goto, ModelsPhase, At
  <2>3. \A f \in Second : disk'[f] = disk[f]
    BY <1>6, Shaped DEF WriteScores, Fails, Second, Write
  <2> QED
    BY <2>1, <2>2, <2>3, FailsStudy, OutsideStudy
<1>7. CASE Select
  <2>1. At("select") /\ process.pc \in ModelsPhase /\ ~AllEvaluated /\ disk.study = None
    BY <1>7, NotEvaluated DEF Select, At, ModelsPhase, StudyInv, StudyInOrder
  <2>2. Fails \/ process'.pc \in {"idle"} \union ModelsPhase
    BY <1>7, Shaped DEF Select, Goto, ModelsPhase, At
  <2>3. \A f \in Second : disk'[f] = disk[f]
    BY <1>7, Shaped DEF Select, Fails, Second, Write
  <2> QED
    BY <2>1, <2>2, <2>3, FailsStudy, OutsideStudy
<1>8. CASE EndSelect
  <2>1. At("selected") /\ process.pc \in ModelsPhase /\ ~AllEvaluated /\ disk.study = None
    BY <1>8, NotEvaluated DEF EndSelect, At, ModelsPhase, StudyInv, StudyInOrder
  <2>2. Fails \/ process'.pc \in {"idle"} \union ModelsPhase
    BY <1>8, Shaped DEF EndSelect, Goto, ModelsPhase, At
  <2>3. \A f \in Second : disk'[f] = disk[f]
    BY <1>8, Shaped DEF EndSelect, Fails, Second, Write
  <2> QED
    BY <2>1, <2>2, <2>3, FailsStudy, OutsideStudy
<1>9. CASE QualifyModels
  <2>1. At("qualify") /\ process.pc \in ModelsPhase /\ ~AllEvaluated /\ disk.study = None
    BY <1>9, NotEvaluated DEF QualifyModels, At, ModelsPhase, StudyInv, StudyInOrder
  <2>2. Fails \/ process'.pc \in {"idle"} \union ModelsPhase
    BY <1>9, Shaped DEF QualifyModels, Goto, ModelsPhase, At
  <2>3. \A f \in Second : disk'[f] = disk[f]
    BY <1>9, Shaped DEF QualifyModels, Fails, Second, Write
  <2> QED
    BY <2>1, <2>2, <2>3, FailsStudy, OutsideStudy
<1>10. CASE EndModels
  <2>1. At("qualified") /\ process.pc \in ModelsPhase /\ ~AllEvaluated /\ disk.study = None
    BY <1>10, NotEvaluated DEF EndModels, At, ModelsPhase, StudyInv, StudyInOrder
  <2>2. Fails \/ process'.pc \in {"idle"} \union ModelsPhase
    BY <1>10, Shaped DEF EndModels, Goto, ModelsPhase, At
  <2>3. \A f \in Second : disk'[f] = disk[f]
    BY <1>10, Shaped DEF EndModels, Fails, Second, Write
  <2> QED
    BY <2>1, <2>2, <2>3, FailsStudy, OutsideStudy
<1>11. ASSUME NEW found \in Draws, Evaluate,
              disk' = [disk EXCEPT !.evaluation[Arm] = Evaluation(Arm, found)]
       PROVE  StudyInv'
  <2>1. At("evaluate") /\ NextArm /\ disk.evaluation[Arm] = None /\ disk.study = None
    BY <1>11 DEF Evaluate, StudyInv, StudyInOrder, At
  <2>2. Complete("models") /\ Arm \in Arms
    BY <2>1, Shaped DEF ModelsInv, InOrder, At, StudyPhase
  <2>3. /\ disk'.evaluation = [disk.evaluation EXCEPT ![Arm] = Evaluation(Arm, found)]
        /\ \A f \in DOMAIN disk : f # "evaluation" => disk'[f] = disk[f]
    BY <1>11, Shaped
  <2>4. /\ ChainFollows' /\ disk'.study = None /\ disk'.evaluation[Arm] # None
        /\ \A b \in Arms : disk.evaluation[b] # None => disk'.evaluation[b] # None
    BY <2>1, <2>2, <2>3, EvaluatedStudy
  <2>5. \A i \in 1..process.k : disk'.evaluation[ArmOrder[i]] # None
    <3> SUFFICES ASSUME NEW i \in 1..process.k PROVE disk'.evaluation[ArmOrder[i]] # None
      OBVIOUS
    <3>1. process.k \in 1..Len(ArmOrder) /\ Arm = ArmOrder[process.k] /\ Len(ArmOrder) \in Nat
      BY Shaped, ArmsOK DEF Arm
    <3>2. ArmOrder[i] \in Arms /\ (i = process.k \/ i \in 1..(process.k - 1))
      BY <3>1, ArmsOK
    <3>3. i \in 1..(process.k - 1) => disk.evaluation[ArmOrder[i]] # None
      BY <2>1 DEF StudyInv, StudyInOrder
    <3> QED
      BY <2>4, <3>1, <3>2, <3>3
  <2>6. process.k \in Nat /\ (process.k + 1) - 1 = process.k
    BY Shaped, ArmsOK
  <2>7. process'.pc = "evaluate" => \A i \in 1..(process'.k - 1) : disk'.evaluation[ArmOrder[i]] # None
    BY <2>1, <2>5, <2>6, NextArmOK
  <2>8. process'.pc = "measure" => AllEvaluated'
    BY <2>1, <2>5, NextArmOK, ArmsOK DEF AllEvaluated
  <2>9. StudyInOrder'
    BY <2>1, <2>4, <2>7, <2>8, NextArmOK DEF StudyInOrder, At
  <2> QED
    BY <2>4, <2>9 DEF StudyInv
<1>12. CASE UseEvaluation
  <2>1. At("evaluate") /\ NextArm /\ disk.evaluation[Arm] # None /\ disk.study = None /\ UNCHANGED disk
    BY <1>12 DEF UseEvaluation, StudyInv, StudyInOrder, At
  <2>2. ChainFollows'
    BY <1>0, <2>1, UnwrittenStudy
  <2>3. \A i \in 1..process.k : disk.evaluation[ArmOrder[i]] # None
    <3> SUFFICES ASSUME NEW i \in 1..process.k PROVE disk.evaluation[ArmOrder[i]] # None
      OBVIOUS
    <3>1. process.k \in 1..Len(ArmOrder) /\ Arm = ArmOrder[process.k] /\ Len(ArmOrder) \in Nat
      BY Shaped, ArmsOK DEF Arm
    <3>2. i = process.k \/ i \in 1..(process.k - 1)
      BY <3>1
    <3>3. i \in 1..(process.k - 1) => disk.evaluation[ArmOrder[i]] # None
      BY <2>1 DEF StudyInv, StudyInOrder
    <3> QED
      BY <2>1, <3>1, <3>2, <3>3
  <2>4. process.k \in Nat /\ (process.k + 1) - 1 = process.k
    BY Shaped, ArmsOK
  <2>5. process'.pc = "evaluate" => \A i \in 1..(process'.k - 1) : disk'.evaluation[ArmOrder[i]] # None
    BY <2>1, <2>3, <2>4, NextArmOK
  <2>6. process'.pc = "measure" => AllEvaluated'
    BY <2>1, <2>3, NextArmOK, ArmsOK DEF AllEvaluated
  <2>7. StudyInOrder'
    BY <2>1, <2>5, <2>6, NextArmOK DEF StudyInOrder, At
  <2> QED
    BY <2>2, <2>7 DEF StudyInv
<1>13. CASE Orphaned
  <2>1. UNCHANGED disk /\ process'.pc = "idle"
    BY <1>13, GotoOK DEF Orphaned
  <2> QED
    BY <1>0, <2>1, OutsideStudy
<1>14. CASE OrphanEnds
  <2>1. orphan \in [arm : Arms, found : Draws] /\ UNCHANGED process
        /\ disk' = IF disk.evaluation[orphan.arm] = None
                   THEN [disk EXCEPT !.evaluation[orphan.arm] = Evaluation(orphan.arm, orphan.found)]
                   ELSE disk
    BY <1>14 DEF OrphanEnds, ModelsInv, Shapes
  <2>2. Complete("models")
    BY <1>14 DEF ModelsInv, InOrder, OrphanEnds
  <2>3. CASE disk.evaluation[orphan.arm] = None
    <3>1. /\ disk'.evaluation = [disk.evaluation EXCEPT ![orphan.arm] = Evaluation(orphan.arm, orphan.found)]
          /\ \A f \in DOMAIN disk : f # "evaluation" => disk'[f] = disk[f]
      BY <2>1, <2>3, Shaped
    <3>2. orphan.arm \in Arms /\ orphan.found \in Draws
      BY <2>1
    <3>3. /\ ChainFollows' /\ disk'.study = disk.study
          /\ \A b \in Arms : disk.evaluation[b] # None => disk'.evaluation[b] # None
      BY <2>2, <2>3, <3>1, <3>2, EvaluatedStudy
    <3>4. process.pc \notin StudyPhase \ {"evaluate"}
      BY <2>3, <3>2 DEF StudyInv, StudyInOrder, AllEvaluated
    <3>5. At("evaluate")' => \A i \in 1..(process'.k - 1) : disk'.evaluation[ArmOrder[i]] # None
      <4> SUFFICES ASSUME At("evaluate"), NEW i \in 1..(process.k - 1) PROVE disk'.evaluation[ArmOrder[i]] # None
        BY <2>1 DEF At
      <4>1. i \in 1..Len(ArmOrder)
        BY Shaped, ArmsOK
      <4> QED
        BY <3>3, <4>1, ArmsOK DEF StudyInv, StudyInOrder
    <3>6. StudyInOrder'
      BY <2>1, <3>3, <3>4, <3>5 DEF StudyInv, StudyInOrder, At, StudyPhase
    <3> QED
      BY <3>3, <3>6 DEF StudyInv
  <2>4. CASE disk.evaluation[orphan.arm] # None
    <3>1. UNCHANGED <<disk, process>>
      BY <2>1, <2>4
    <3> QED
      BY <1>0, <3>1, UnwrittenStudy DEF StudyInv, StudyInOrder, At, StudyPhase
  <2> QED
    BY <2>3, <2>4
<1>15. CASE Measure
  <2>1. /\ At("measure") /\ process.pc \in StudyPhase \ {"evaluate"} /\ disk.study = None /\ AllEvaluated
        /\ process.pc \notin {"idle"}
    BY <1>15 DEF Measure, At, StudyPhase, StudyInv, StudyInOrder
  <2>2. Fails \/ (Write("measured", Variability) /\ Goto(IF disk.final = None THEN "finalize" ELSE "verify"))
    BY <1>15 DEF Measure
  <2>3. CASE Write("measured", Variability) /\ Goto(IF disk.final = None THEN "finalize" ELSE "verify")
    <3>1. process'.pc = (IF disk.final = None THEN "finalize" ELSE "verify")
      BY <2>3, GotoOK
    <3>2. /\ ChainFollows' /\ AllEvaluated' /\ disk'.measured = Variability' /\ FinalArtifacts' = FinalArtifacts
          /\ disk'.final = disk.final /\ disk'.study = None
      BY <2>1, <2>3, WrittenStudy DEF Second
    <3>3. disk.final # None => disk.final = FinalArtifacts
      BY DEF StudyInv, ChainFollows, Derived
    <3>4. StudyInOrder'
      BY <3>1, <3>2, <3>3 DEF StudyInOrder, At
    <3> QED
      BY <3>2, <3>4 DEF StudyInv
  <2> QED
    BY <2>2, <2>3, FailsStudy
<1>16. CASE Finalize
  <2>1. /\ At("finalize") /\ process.pc \in StudyPhase \ {"evaluate"} /\ disk.study = None /\ AllEvaluated
        /\ process.pc \notin {"idle"}
    BY <1>16 DEF Finalize, At, StudyPhase, StudyInv, StudyInOrder
  <2>2. disk.measured = Variability
    BY <2>1 DEF StudyInv, StudyInOrder, At
  <2>3. Write("final", FinalArtifacts) /\ process'.pc = "card"
    BY <1>16, <2>2, GotoOK DEF Finalize, FinalArtifacts
  <2>4. /\ ChainFollows' /\ AllEvaluated' /\ disk'.final = FinalArtifacts' /\ Variability' = Variability
        /\ disk'.measured = disk.measured /\ disk'.study = None
    BY <2>1, <2>3, WrittenStudy DEF Second
  <2>5. StudyInOrder'
    BY <2>2, <2>3, <2>4 DEF StudyInOrder, At
  <2> QED
    BY <2>4, <2>5 DEF StudyInv
<1>17. CASE WriteCard
  <2>1. /\ At("card") /\ process.pc \in StudyPhase \ {"evaluate"} /\ disk.study = None /\ AllEvaluated
        /\ process.pc \notin {"idle"}
    BY <1>17 DEF WriteCard, At, StudyPhase, StudyInv, StudyInOrder
  <2>2. process'.pc = "receive" /\ Write("card", TRUE)
    BY <1>17, GotoOK DEF WriteCard
  <2>3. /\ disk'.evaluation = disk.evaluation /\ disk'.receipt = disk.receipt
        /\ \A f \in Second : disk'[f] = disk[f]
    BY <2>2, Shaped DEF Write, Second
  <2>4. /\ ChainFollows' /\ AllEvaluated' /\ Variability' = Variability /\ FinalArtifacts' = FinalArtifacts
        /\ disk'.measured = disk.measured /\ disk'.final = disk.final /\ disk'.study = None
    BY <2>1, <2>3, UnwrittenStudy DEF Second
  <2>5. disk.measured = Variability /\ disk.final = FinalArtifacts
    BY <2>1 DEF StudyInv, StudyInOrder, At
  <2>6. StudyInOrder'
    BY <2>2, <2>4, <2>5 DEF StudyInOrder, At
  <2> QED
    BY <2>4, <2>6 DEF StudyInv
<1>18. CASE Receive
  <2>1. /\ At("receive") /\ process.pc \in StudyPhase \ {"evaluate"} /\ disk.study = None /\ AllEvaluated
        /\ process.pc \notin {"idle"}
    BY <1>18 DEF Receive, At, StudyPhase, StudyInv, StudyInOrder
  <2>2. process'.pc = "verify" /\ Write("finalReceipt", TRUE)
    BY <1>18, GotoOK DEF Receive
  <2>3. /\ disk'.evaluation = disk.evaluation /\ disk'.receipt = disk.receipt
        /\ \A f \in Second : disk'[f] = disk[f]
    BY <2>2, Shaped DEF Write, Second
  <2>4. /\ ChainFollows' /\ AllEvaluated' /\ Variability' = Variability /\ FinalArtifacts' = FinalArtifacts
        /\ disk'.measured = disk.measured /\ disk'.final = disk.final /\ disk'.study = None
    BY <2>1, <2>3, UnwrittenStudy DEF Second
  <2>5. disk.measured = Variability /\ disk.final = FinalArtifacts
    BY <2>1 DEF StudyInv, StudyInOrder, At
  <2>6. StudyInOrder'
    BY <2>2, <2>4, <2>5 DEF StudyInOrder, At
  <2> QED
    BY <2>4, <2>6 DEF StudyInv
<1>19. CASE VerifyFinal
  <2>1. /\ At("verify") /\ process.pc \in StudyPhase \ {"evaluate"} /\ disk.study = None /\ AllEvaluated
        /\ process.pc \notin {"idle"}
    BY <1>19 DEF VerifyFinal, At, StudyPhase, StudyInv, StudyInOrder
  <2>2. Fails \/ (Goto("evidence") /\ UNCHANGED disk)
    BY <1>19 DEF VerifyFinal
  <2>3. CASE Goto("evidence") /\ UNCHANGED disk
    <3>1. process'.pc = "evidence"
      BY <2>3, GotoOK
    <3>2. /\ ChainFollows' /\ AllEvaluated' /\ Variability' = Variability /\ FinalArtifacts' = FinalArtifacts
      BY <1>0, <2>1, <2>3, UnwrittenStudy
    <3>3. disk.measured = Variability /\ disk.final = FinalArtifacts
      BY <2>1 DEF StudyInv, StudyInOrder, At
    <3>4. StudyInOrder'
      BY <2>1, <2>3, <3>1, <3>2, <3>3 DEF StudyInOrder, At
    <3> QED
      BY <3>2, <3>4 DEF StudyInv
  <2> QED
    BY <2>2, <2>3, FailsStudy
<1>20. CASE WriteEvidence
  <2>1. /\ At("evidence") /\ process.pc \in StudyPhase \ {"evaluate"} /\ disk.study = None /\ AllEvaluated
        /\ process.pc \notin {"idle"}
    BY <1>20 DEF WriteEvidence, At, StudyPhase, StudyInv, StudyInOrder
  <2>2. Fails \/ (Write("evidence", StudyEvidence) /\ Goto("report"))
    BY <1>20 DEF WriteEvidence
  <2>3. CASE Write("evidence", StudyEvidence) /\ Goto("report")
    <3>1. process'.pc = "report"
      BY <2>3, GotoOK
    <3>2. /\ ChainFollows' /\ AllEvaluated' /\ Variability' = Variability /\ FinalArtifacts' = FinalArtifacts
          /\ disk'.evidence = StudyEvidence' /\ disk'.measured = disk.measured /\ disk'.final = disk.final
          /\ disk'.study = None
      BY <2>1, <2>3, WrittenStudy DEF Second
    <3>3. disk.measured = Variability /\ disk.final = FinalArtifacts
      BY <2>1 DEF StudyInv, StudyInOrder, At
    <3>4. StudyInOrder'
      BY <3>1, <3>2, <3>3 DEF StudyInOrder, At
    <3> QED
      BY <3>2, <3>4 DEF StudyInv
  <2> QED
    BY <2>2, <2>3, FailsStudy
<1>21. CASE WriteReport
  <2>1. /\ At("report") /\ process.pc \in StudyPhase \ {"evaluate"} /\ disk.study = None /\ AllEvaluated
        /\ process.pc \notin {"idle"}
    BY <1>21 DEF WriteReport, At, StudyPhase, StudyInv, StudyInOrder
  <2>2. disk.measured = Variability /\ disk.final = FinalArtifacts /\ disk.evidence = StudyEvidence
    BY <2>1 DEF StudyInv, StudyInOrder, At
  <2>3. \/ Fails
        \/ Write("report", Report(StudyEvidence)) /\ Goto("report")
        \/ Goto("freeze") /\ UNCHANGED disk /\ disk.report # None
    BY <1>21, <2>2 DEF WriteReport
  <2>4. CASE Write("report", Report(StudyEvidence)) /\ Goto("report")
    <3>1. process'.pc = "report"
      BY <2>4, GotoOK
    <3>2. /\ ChainFollows' /\ AllEvaluated' /\ Variability' = Variability /\ FinalArtifacts' = FinalArtifacts
          /\ StudyEvidence' = StudyEvidence /\ disk'.measured = disk.measured /\ disk'.final = disk.final
          /\ disk'.evidence = disk.evidence /\ disk'.study = None
      BY <2>1, <2>4, WrittenStudy DEF Second
    <3>3. StudyInOrder'
      BY <2>2, <3>1, <3>2 DEF StudyInOrder, At
    <3> QED
      BY <3>2, <3>3 DEF StudyInv
  <2>5. CASE Goto("freeze") /\ UNCHANGED disk /\ disk.report # None
    <3>1. process'.pc = "freeze"
      BY <2>5, GotoOK
    <3>2. /\ ChainFollows' /\ AllEvaluated' /\ Variability' = Variability /\ FinalArtifacts' = FinalArtifacts
          /\ StudyEvidence' = StudyEvidence /\ (Report(StudyEvidence))' = Report(StudyEvidence)
      BY <1>0, <2>1, <2>5, UnwrittenStudy
    <3>3. disk.report = Report(StudyEvidence)
      BY <2>5 DEF StudyInv, ChainFollows, Derived
    <3>4. StudyInOrder'
      BY <2>1, <2>2, <2>5, <3>1, <3>2, <3>3 DEF StudyInOrder, At
    <3> QED
      BY <3>2, <3>4 DEF StudyInv
  <2> QED
    BY <2>3, <2>4, <2>5, FailsStudy
<1>22. CASE FreezeCharter
  <2>1. /\ At("freeze") /\ process.pc \in StudyPhase \ {"evaluate"} /\ disk.study = None /\ AllEvaluated
        /\ process.pc \notin {"idle"}
    BY <1>22 DEF FreezeCharter, At, StudyPhase, StudyInv, StudyInOrder
  <2>2. /\ disk.measured = Variability /\ disk.final = FinalArtifacts /\ disk.evidence = StudyEvidence
        /\ disk.report = Report(StudyEvidence)
    BY <2>1 DEF StudyInv, StudyInOrder, At
  <2>3. \/ Fails
        \/ Write("charter", FreezeEvidence) /\ Goto("freeze")
        \/ Goto("conclude") /\ UNCHANGED disk /\ disk.charter = FreezeEvidence
    BY <1>22 DEF FreezeCharter
  <2>4. CASE Write("charter", FreezeEvidence) /\ Goto("freeze")
    <3>1. process'.pc = "freeze"
      BY <2>4, GotoOK
    <3>2. /\ ChainFollows' /\ AllEvaluated' /\ Variability' = Variability /\ FinalArtifacts' = FinalArtifacts
          /\ StudyEvidence' = StudyEvidence /\ (Report(StudyEvidence))' = Report(StudyEvidence)
          /\ disk'.measured = disk.measured /\ disk'.final = disk.final
          /\ disk'.evidence = disk.evidence /\ disk'.report = disk.report /\ disk'.study = None
      BY <2>1, <2>4, WrittenStudy DEF Second
    <3>3. StudyInOrder'
      BY <2>2, <3>1, <3>2 DEF StudyInOrder, At
    <3> QED
      BY <3>2, <3>3 DEF StudyInv
  <2>5. CASE Goto("conclude") /\ UNCHANGED disk /\ disk.charter = FreezeEvidence
    <3>1. process'.pc = "conclude"
      BY <2>5, GotoOK
    <3>2. /\ ChainFollows' /\ AllEvaluated' /\ Variability' = Variability /\ FinalArtifacts' = FinalArtifacts
          /\ StudyEvidence' = StudyEvidence /\ (Report(StudyEvidence))' = Report(StudyEvidence)
          /\ FreezeEvidence' = FreezeEvidence
      BY <1>0, <2>1, <2>5, UnwrittenStudy
    <3>3. StudyInOrder'
      BY <2>1, <2>2, <2>5, <3>1, <3>2 DEF StudyInOrder, At
    <3> QED
      BY <3>2, <3>3 DEF StudyInv
  <2> QED
    BY <2>3, <2>4, <2>5, FailsStudy
<1>23. CASE Conclude
  <2>1. /\ At("conclude") /\ process.pc \in StudyPhase \ {"evaluate"} /\ disk.study = None /\ AllEvaluated
        /\ process.pc \notin {"idle"}
    BY <1>23 DEF Conclude, At, StudyPhase, StudyInv, StudyInOrder
  <2>2. disk.final = FinalArtifacts /\ disk.report = Report(StudyEvidence) /\ disk.charter = FreezeEvidence
    BY <2>1 DEF StudyInv, StudyInOrder, At
  <2>3. Write("study", Outcome) /\ process'.pc = "idle"
    BY <1>23, <2>2, GotoOK DEF Conclude, Outcome
  <2>4. ChainFollows'
    BY <2>1, <2>2, <2>3, WrittenStudy DEF Second
  <2>5. StudyInOrder'
    BY <2>3 DEF StudyInOrder, At, StudyPhase
  <2> QED
    BY <2>4, <2>5 DEF StudyInv
<1>24. CASE Kill
  <2>1. UNCHANGED disk /\ process'.pc = "idle"
    BY <1>24, GotoOK DEF Kill
  <2> QED
    BY <1>0, <2>1, OutsideStudy
<1>25. CASE UNCHANGED vars
  <2>1. UNCHANGED <<disk, process>>
    BY <1>25 DEF vars
  <2> QED
    BY <1>0, <2>1, UnwrittenStudy DEF StudyInv, StudyInOrder, At, StudyPhase
<1> QED
  BY <1>1, <1>2, <1>3, <1>4, <1>5, <1>6, <1>7, <1>8, <1>9, <1>10, <1>11, <1>12, <1>13, <1>14, <1>15, <1>16, <1>17, <1>18, <1>19, <1>20, <1>21, <1>22, <1>23, <1>24, <1>25 DEF Next, Step, Evaluate

-----------------------------------------------------------------------------
(* Nothing is replaced. *)

\* A step that writes at most one file of the second phase keeps evidence if the file was not
\* whole, or stays the same.
LEMMA OneFileKept ==
    ASSUME ModelsInv, NEW file \in DOMAIN disk,
           file \notin {"request", "result", "scores", "receipt", "evaluation"},
           \A f \in DOMAIN disk : f # file => disk'[f] = disk[f],
           Complete(file) => disk'[file] = disk[file]
    PROVE  KeepsEvidence
<1>1. DOMAIN disk = {"linker", "request", "result", "scores", "receipt", "models", "evaluation",
                     "measured", "final", "card", "finalReceipt", "evidence", "report", "charter", "study"}
  BY Shaped
<1>2. \A f \in {"request", "result", "scores", "receipt", "evaluation"} : disk'[f] = disk[f]
  BY <1>1
<1>3. \A f \in {"models", "measured", "final", "evidence", "report", "charter", "study"} :
        Complete(f) => disk'[f] = disk[f]
  BY <1>1
<1> QED
  BY <1>2, <1>3 DEF KeepsEvidence

\* The same for the one entry of an arm.
LEMMA OneArmKept ==
    ASSUME ModelsInv, NEW file \in {"scores", "receipt", "evaluation"}, NEW a \in Arms, NEW v,
           \A f \in DOMAIN disk : f # file => disk'[f] = disk[f],
           disk'[file] = [disk[file] EXCEPT ![a] = v],
           disk[file][a] \notin {None, Partial} => v = disk[file][a]
    PROVE  KeepsEvidence
<1>1. DOMAIN disk = {"linker", "request", "result", "scores", "receipt", "models", "evaluation",
                     "measured", "final", "card", "finalReceipt", "evidence", "report", "charter", "study"}
  BY Shaped
<1>2. \A f \in {"scores", "receipt", "evaluation"} : f # file => disk'[f] = disk[f]
  BY <1>1
<1>3. \A f \in {"request", "result", "models", "measured", "final", "evidence", "report", "charter", "study"} :
        disk'[f] = disk[f]
  BY <1>1
<1>4. DOMAIN disk[file] = Arms
  BY DEF ModelsInv, Shapes, TypeOK
<1>5. \A b \in Arms : disk[file][b] \notin {None, Partial} => disk'[file][b] = disk[file][b]
  BY <1>4
<1> QED
  BY <1>2, <1>3, <1>5 DEF KeepsEvidence

\* The same for the one entry of an epoch.
LEMMA OneEpochKept ==
    ASSUME ModelsInv, NEW file \in {"request", "result"}, NEW a \in Arms, NEW e \in 1..Epochs, NEW v,
           \A f \in DOMAIN disk : f # file => disk'[f] = disk[f],
           disk'[file] = [disk[file] EXCEPT ![a][e] = v],
           disk[file][a][e] # None => v = disk[file][a][e]
    PROVE  KeepsEvidence
<1>1. DOMAIN disk = {"linker", "request", "result", "scores", "receipt", "models", "evaluation",
                     "measured", "final", "card", "finalReceipt", "evidence", "report", "charter", "study"}
  BY Shaped
<1>2. \A f \in {"request", "result"} : f # file => disk'[f] = disk[f]
  BY <1>1
<1>3. \A f \in {"scores", "receipt", "evaluation", "models", "measured", "final", "evidence", "report", "charter", "study"} :
        disk'[f] = disk[f]
  BY <1>1
<1>4. disk[file] \in [Arms -> [1..Epochs -> Draws \union {None}]]
  BY DEF ModelsInv, Shapes, TypeOK
<1>5. ASSUME NEW b \in Arms, NEW g \in 1..Epochs, disk[file][b][g] # None
      PROVE  disk'[file][b][g] = disk[file][b][g]
  BY <1>4, <1>5
<1>6. \A b \in Arms, g \in 1..Epochs, f \in {"request", "result"} :
        disk[f][b][g] # None => disk'[f][b][g] = disk[f][b][g]
  <2> SUFFICES ASSUME NEW b \in Arms, NEW g \in 1..Epochs, NEW f \in {"request", "result"},
                      disk[f][b][g] # None
               PROVE  disk'[f][b][g] = disk[f][b][g]
    OBVIOUS
  <2>1. CASE f = file
    BY <1>5, <2>1
  <2>2. CASE f # file
    BY <1>2, <2>2
  <2> QED
    BY <2>1, <2>2
<1>7. \A b \in Arms, f \in {"scores", "receipt", "evaluation"} :
        disk[f][b] \notin {None, Partial} => disk'[f][b] = disk[f][b]
  BY <1>3
<1>8. \A f \in {"models", "measured", "final", "evidence", "report", "charter", "study"} :
        Complete(f) => disk'[f] = disk[f]
  BY <1>3
<1> QED
  BY <1>6, <1>7, <1>8 DEF KeepsEvidence

\* No step replaces what is whole.
LEMMA KeepsStep == ModelsInv /\ StudyInv /\ [Next]_vars => KeepsEvidence \/ UNCHANGED vars
<1> SUFFICES ASSUME ModelsInv, StudyInv, Next PROVE KeepsEvidence
  OBVIOUS
<1>0. UNCHANGED disk => KeepsEvidence
  BY DEF KeepsEvidence
<1>same. Fails => KeepsEvidence
  BY <1>0 DEF Fails
<1>1. CASE Start
  BY <1>0, <1>1 DEF Start
<1>2. CASE Prepare
  <2>1. \A f \in DOMAIN disk : f # "linker" => disk'[f] = disk[f]
    BY <1>2, Shaped DEF Prepare, Write
  <2> QED
    BY <2>1, Shaped DEF KeepsEvidence
<1>3. CASE UseCached
  BY <1>0, <1>3 DEF UseCached
<1>4. CASE Infer
  <2>1. CASE Fails
    BY <1>same, <2>1
  <2>2. CASE ~Fails
    <3>1. PICK found \in Draws :
             /\ ~Refuses(disk.request[Arm][process.epoch], found)
             /\ disk' = [disk EXCEPT !.request[Arm][process.epoch] = found]
      BY <1>4, <2>2 DEF Infer
    <3>2. process.epoch \in 1..Epochs /\ Arm \in Arms
      BY <1>4, Shaped DEF Infer
    <3>3. /\ \A f \in DOMAIN disk : f # "request" => disk'[f] = disk[f]
          /\ disk'["request"] = [disk["request"] EXCEPT ![Arm][process.epoch] = found]
          /\ disk["request"][Arm][process.epoch] # None => found = disk["request"][Arm][process.epoch]
      BY <3>1, Shaped DEF Refuses
    <3> QED
      BY <3>2, <3>3, OneEpochKept
  <2> QED
    BY <2>1, <2>2
<1>5. CASE Record
  <2>1. process.epoch \in 1..Epochs /\ Arm \in Arms
    BY <1>5, Shaped DEF Record, ModelsInv, InOrder
  <2>2. /\ \A f \in DOMAIN disk : f # "result" => disk'[f] = disk[f]
        /\ disk'["result"] = [disk["result"] EXCEPT ![Arm][process.epoch] = disk.request[Arm][process.epoch]]
    BY <1>5, Shaped DEF Record
  <2>3. disk["result"][Arm][process.epoch] # None =>
          disk.request[Arm][process.epoch] = disk["result"][Arm][process.epoch]
    BY <2>1 DEF ModelsInv, FilesFollow
  <2> QED
    BY SMTT(40), <2>1, <2>2, <2>3, OneEpochKept
<1>6. CASE WriteScores
  <2>1. CASE Fails
    BY <1>same, <2>1
  <2>2. CASE ~Fails
    <3>1. /\ \A f \in DOMAIN disk : f # "scores" => disk'[f] = disk[f]
          /\ disk'["scores"] = [disk["scores"] EXCEPT ![Arm] = disk.result[Arm]]
          /\ disk["scores"][Arm] \notin {None, Partial} => disk.result[Arm] = disk["scores"][Arm]
      BY <1>6, <2>2, Shaped DEF WriteScores, Refuses
    <3> QED
      BY <3>1, Shaped, OneArmKept
  <2> QED
    BY <2>1, <2>2
<1>7. CASE Select
  <2>1. CASE Fails
    BY <1>same, <2>1
  <2>2. CASE ~Fails
    <3> DEFINE v == IF disk.receipt[Arm] = None THEN Partial ELSE disk.receipt[Arm]
    <3>1. /\ \A f \in DOMAIN disk : f # "receipt" => disk'[f] = disk[f]
          /\ disk'["receipt"] = [disk["receipt"] EXCEPT ![Arm] = v]
      BY <1>7, <2>2, Shaped DEF Select
    <3>2. disk["receipt"][Arm] \notin {None, Partial} => v = disk["receipt"][Arm]
      OBVIOUS
    <3> HIDE DEF v
    <3> QED
      BY <3>1, <3>2, Shaped, OneArmKept
  <2> QED
    BY <2>1, <2>2
<1>8. CASE EndSelect
  <2>1. /\ \A f \in DOMAIN disk : f # "receipt" => disk'[f] = disk[f]
        /\ disk'["receipt"] = [disk["receipt"] EXCEPT ![Arm] = Selected(disk.scores[Arm])]
    BY <1>8, Shaped DEF EndSelect
  <2>2. disk["receipt"][Arm] \notin {None, Partial} => Selected(disk.scores[Arm]) = disk["receipt"][Arm]
    BY Shaped DEF ModelsInv, FilesFollow, IsSelected
  <2> QED
    BY <2>1, <2>2, Shaped, OneArmKept
<1>9. CASE QualifyModels
  <2>1. CASE Fails
    BY <1>same, <2>1
  <2>2. CASE ~Fails
    <3>1. \A f \in DOMAIN disk : f # "models" => disk'[f] = disk[f]
      BY <1>9, <2>2, Shaped DEF QualifyModels, Write
    <3>2. ~Complete("models")
      BY <1>9, InModels DEF QualifyModels, At, ModelsPhase
    <3> QED
      BY <3>1, <3>2, Shaped, OneFileKept
  <2> QED
    BY <2>1, <2>2
<1>10. CASE EndModels
  <2>1. CASE Fails
    BY <1>same, <2>1
  <2>2. CASE ~Fails
    <3>1. \A f \in DOMAIN disk : f # "models" => disk'[f] = disk[f]
      BY <1>10, <2>2, Shaped DEF EndModels, Write
    <3>2. ~Complete("models")
      BY <1>10, InModels DEF EndModels, At, ModelsPhase
    <3> QED
      BY <3>1, <3>2, Shaped, OneFileKept
  <2> QED
    BY <2>1, <2>2
<1>11. CASE Evaluate
  <2>1. PICK found \in Draws : disk' = [disk EXCEPT !.evaluation[Arm] = Evaluation(Arm, found)]
    BY <1>11 DEF Evaluate
  <2>2. /\ \A f \in DOMAIN disk : f # "evaluation" => disk'[f] = disk[f]
        /\ disk'["evaluation"] = [disk["evaluation"] EXCEPT ![Arm] = Evaluation(Arm, found)]
        /\ disk["evaluation"][Arm] = None
    BY <1>11, <2>1, Shaped DEF Evaluate
  <2> QED
    BY <2>2, Shaped, OneArmKept
<1>12. CASE UseEvaluation
  BY <1>0, <1>12 DEF UseEvaluation
<1>13. CASE Orphaned
  BY <1>0, <1>13 DEF Orphaned
<1>14. CASE OrphanEnds
  <2>1. CASE disk.evaluation[orphan.arm] # None
    BY <1>0, <1>14, <2>1 DEF OrphanEnds
  <2>2. CASE disk.evaluation[orphan.arm] = None
    <3>1. orphan.arm \in Arms
      BY <1>14 DEF OrphanEnds, ModelsInv, Shapes
    <3>2. disk' = [disk EXCEPT !.evaluation[orphan.arm] = Evaluation(orphan.arm, orphan.found)]
      BY <1>14, <2>2 DEF OrphanEnds
    <3>3. /\ \A f \in DOMAIN disk : f # "evaluation" => disk'[f] = disk[f]
          /\ disk'["evaluation"] = [disk["evaluation"] EXCEPT ![orphan.arm] = Evaluation(orphan.arm, orphan.found)]
      BY <3>2, Shaped
    <3> QED
      BY <2>2, <3>1, <3>3, OneArmKept
  <2> QED
    BY <2>1, <2>2
<1>15. CASE Measure
  <2>1. CASE UNCHANGED disk
    BY <1>0, <2>1
  <2>2. CASE ~UNCHANGED disk
    <3>1. \A f \in DOMAIN disk : f # "measured" => disk'[f] = disk[f]
      BY <1>15, <2>2, Shaped DEF Measure, Write, Fails
    <3>2. Complete("measured") => disk'["measured"] = disk["measured"]
      BY <1>15, <2>2, Shaped DEF Measure, Write, Fails, Complete, Refuses
    <3> QED
      BY <3>1, <3>2, Shaped, OneFileKept
  <2> QED
    BY <2>1, <2>2
<1>16. CASE Finalize
  <2>1. CASE UNCHANGED disk
    BY <1>0, <2>1
  <2>2. CASE ~UNCHANGED disk
    <3>1. \A f \in DOMAIN disk : f # "final" => disk'[f] = disk[f]
      BY <1>16, <2>2, Shaped DEF Finalize, Write, Fails
    <3>2. Complete("final") => disk'["final"] = disk["final"]
      BY <1>16, <2>2, Shaped DEF Finalize, Write, Fails, Complete, StudyInv, StudyInOrder, At
    <3> QED
      BY <3>1, <3>2, Shaped, OneFileKept
  <2> QED
    BY <2>1, <2>2
<1>17. CASE WriteCard
  <2>1. \A f \in DOMAIN disk : f # "card" => disk'[f] = disk[f]
    BY <1>17, Shaped DEF WriteCard, Write
  <2> QED
    BY <2>1, Shaped DEF KeepsEvidence
<1>18. CASE Receive
  <2>1. \A f \in DOMAIN disk : f # "finalReceipt" => disk'[f] = disk[f]
    BY <1>18, Shaped DEF Receive, Write
  <2> QED
    BY <2>1, Shaped DEF KeepsEvidence
<1>19. CASE WriteEvidence
  <2>1. CASE UNCHANGED disk
    BY <1>0, <2>1
  <2>2. CASE ~UNCHANGED disk
    <3>1. \A f \in DOMAIN disk : f # "evidence" => disk'[f] = disk[f]
      BY <1>19, <2>2, Shaped DEF WriteEvidence, Write, Fails
    <3>2. Complete("evidence") => disk'["evidence"] = disk["evidence"]
      BY <1>19, <2>2, Shaped DEF WriteEvidence, Write, Fails, Complete, Refuses
    <3> QED
      BY <3>1, <3>2, Shaped, OneFileKept
  <2> QED
    BY <2>1, <2>2
<1>20. CASE WriteReport
  <2>1. CASE UNCHANGED disk
    BY <1>0, <2>1
  <2>2. CASE ~UNCHANGED disk
    <3>1. \A f \in DOMAIN disk : f # "report" => disk'[f] = disk[f]
      BY <1>20, <2>2, Shaped DEF WriteReport, Write, Fails
    <3>2. Complete("report") => disk'["report"] = disk["report"]
      BY <1>20, <2>2, Shaped DEF WriteReport, Write, Fails, Complete
    <3> QED
      BY <3>1, <3>2, Shaped, OneFileKept
  <2> QED
    BY <2>1, <2>2
<1>21. CASE FreezeCharter
  <2>1. CASE UNCHANGED disk
    BY <1>0, <2>1
  <2>2. CASE ~UNCHANGED disk
    <3>1. \A f \in DOMAIN disk : f # "charter" => disk'[f] = disk[f]
      BY <1>21, <2>2, Shaped DEF FreezeCharter, Write, Fails
    <3>2. Complete("charter") => disk'["charter"] = disk["charter"]
      BY <1>21, <2>2, Shaped DEF FreezeCharter, Write, Fails, Complete
    <3> QED
      BY <3>1, <3>2, Shaped, OneFileKept
  <2> QED
    BY <2>1, <2>2
<1>22. CASE Conclude
  <2>1. CASE UNCHANGED disk
    BY <1>0, <2>1
  <2>2. CASE ~UNCHANGED disk
    <3>1. \A f \in DOMAIN disk : f # "study" => disk'[f] = disk[f]
      BY <1>22, <2>2, Shaped DEF Conclude, Write, Fails
    <3>2. Complete("study") => disk'["study"] = disk["study"]
      BY <1>22, <2>2, Shaped DEF Conclude, Write, Fails, Complete, StudyInv, StudyInOrder, At
    <3> QED
      BY <3>1, <3>2, Shaped, OneFileKept
  <2> QED
    BY <2>1, <2>2
<1>23. CASE VerifyFinal
  BY <1>0, <1>same, <1>23 DEF VerifyFinal
<1>24. CASE Kill
  BY <1>0, <1>24 DEF Kill
<1> QED
  BY <1>1, <1>2, <1>3, <1>4, <1>5, <1>6, <1>7, <1>8, <1>9, <1>10, <1>11, <1>12, <1>13, <1>14, <1>15, <1>16, <1>17, <1>18, <1>19, <1>20, <1>21, <1>22, <1>23, <1>24 DEF Next, Step

-----------------------------------------------------------------------------

\* At every moment the files of both phases follow from each other, each from what its step
\* read, and what a step relies on is whole before it.
THEOREM EvidenceFollows == Spec => [](ModelsInv /\ StudyInv)
<1>1. Init => ModelsInv /\ StudyInv
  BY ModelsInit, StudyInit
<1>2. ModelsInv /\ StudyInv /\ [Next]_vars => (ModelsInv /\ StudyInv)'
  BY ModelsNext, StudyNext
<1> QED
  BY <1>1, <1>2, PTL DEF Spec

\* What the release is decided on is one chain of evidence (StudyIsOneChain).
THEOREM StudyChain == Spec => []StudyIsOneChain
<1>1. ASSUME ModelsInv, StudyInv PROVE StudyIsOneChain
  <2>1. TypeOK
    BY <1>1 DEF ModelsInv, Shapes
  <2>2. ASSUME NEW a \in Arms, disk.evaluation[a] # None
        PROVE  /\ disk.receipt[a] \in 1..Epochs
               /\ disk.evaluation[a].epoch = disk.receipt[a]
               /\ disk.scores[a] = disk.result[a]
               /\ \A e \in 1..Epochs : disk.result[a][e].top <= disk.result[a][disk.receipt[a]].top
    <3>1. Complete("models") /\ disk.evaluation[a].epoch = disk.receipt[a]
      BY <1>1, <2>2 DEF ModelsInv, FilesFollow
    <3>2. IsSelected(a) /\ disk.receipt[a] \in 1..Epochs
      BY <1>1, <3>1, AfterModels
    <3>3. /\ disk.result[a] \in [1..Epochs -> Draws] /\ disk.scores[a] = disk.result[a]
          /\ disk.receipt[a] = Selected(disk.result[a])
      BY <3>2 DEF IsSelected, Scored
    <3> QED
      BY <3>1, <3>2, <3>3, SelectedIsBest
  <2>3. ASSUME disk.study # None
        PROVE  LET b == disk.evaluation[Primary].metrics
                   c == disk.evaluation[Joint].metrics
               IN  /\ disk.study.charter.variability = Variability
                   /\ disk.final = [receipts |-> [a \in Baselines |-> disk.receipt[a]],
                                    measured |-> Variability]
                   /\ disk.study.selected = Joint =>
                         /\ c.top >= b.top + 2 /\ b.wrong > c.wrong
                         /\ b.detL <= c.detL + 1 /\ b.detT <= c.detT + 1
    <3> DEFINE b == disk.evaluation[Primary].metrics
               c == disk.evaluation[Joint].metrics
    <3>1. AllEvaluated /\ disk.study = Outcome /\ disk.final = FinalArtifacts
      BY <1>1, <2>3 DEF StudyInv, ChainFollows, Derived
    <3>2. disk.study.charter.variability = Variability
      BY <3>1 DEF Outcome, FreezeEvidence
    <3>3. disk.study.selected = IF Promotes(b, c) THEN Joint ELSE Primary
      BY <3>1 DEF Outcome, Report, StudyEvidence
    <3>4. b \in Draws /\ c \in Draws
      BY <1>1, <3>1, ArmsOK DEF AllEvaluated, ModelsInv, Shapes, Evaluations
    <3>5. \A d \in Draws : d.top \in Int /\ d.detL \in Int /\ d.detT \in Int /\ d.wrong \in Int
      <4>1. Draws \subseteq [top : 0..Whole, detL : 0..Whole, detT : 0..Whole, wrong : 0..Whole]
        BY StudyConstants
      <4>2. 0..Whole \subseteq Int
        BY DEF Whole
      <4> QED
        BY <4>1, <4>2
    <3>6. b.top \in Int /\ b.detL \in Int /\ b.detT \in Int /\ b.wrong \in Int
          /\ c.top \in Int /\ c.detL \in Int /\ c.detT \in Int /\ c.wrong \in Int
      BY <3>4, <3>5
    <3>7. Promotes(b, c) => /\ c.top >= b.top + 2 /\ b.wrong > c.wrong
                            /\ b.detL <= c.detL + 1 /\ b.detT <= c.detT + 1
      <4> HIDE DEF b, c
      <4> QED
        BY <3>6 DEF Promotes
    <3>8. disk.study.selected = Joint => Promotes(b, c)
      BY <3>3, ArmsOK
    <3> QED
      BY <3>1, <3>2, <3>7, <3>8 DEF FinalArtifacts
  <2> QED
    BY <2>1, <2>2, <2>3 DEF StudyIsOneChain
<1> QED
  BY <1>1, EvidenceFollows, PTL

\* Evidence once whole is never replaced (EvidenceIsKept).
THEOREM EvidenceStays == Spec => EvidenceIsKept
<1>1. ModelsInv /\ StudyInv /\ [Next]_vars => [KeepsEvidence]_vars
  BY KeepsStep
<1> QED
  BY <1>1, EvidenceFollows, PTL DEF Spec, EvidenceIsKept
=============================================================================
