--------------------------- MODULE ReleaseGateProofs ---------------------------
(***************************************************************************)
(* Theorems about ReleaseGate: whatever the charter's cells, the arms and  *)
(* the interleaving of commands, every decision is derived from gate       *)
(* evidence of its own charter, PASS is given only where it is deserved,   *)
(* and a rejection has a ground in the candidate.                          *)
(***************************************************************************)
EXTENDS ReleaseGate, FiniteSetTheorems, TLAPS

\* A nonempty set of naturals has a least element.
LEMMA Least ==
    ASSUME NEW T, T \subseteq Nat, T # {}
    PROVE  \E x \in T : \A y \in T : x <= y
<1>1. IsWellFoundedOn(OpToRel(<, Nat), Nat)
  BY NatLessThanWellFounded
<1>2. \E x \in T : \A y \in T : ~ (<<y, x>> \in OpToRel(<, Nat))
  BY <1>1, WFMin
<1>3. \A x, y \in Nat : <<y, x>> \in OpToRel(<, Nat) \/ x <= y
  BY DEF OpToRel
<1> QED
  BY <1>2, <1>3, Zenon

-----------------------------------------------------------------------------
(* The state: what is written is derived. *)

\* Nothing is written and nobody holds anything at first.
LEMMA InitInv == Init => GateInv
<1> SUFFICES ASSUME Init PROVE GateInv
  OBVIOUS
<1>1. arms \subseteq UNION Pairs
  BY DEF Init
<1>2. runs \in 0..MaxRuns
  BY GateConstants DEF Init
<1>3. \A p \in Proc : local[p] \in Holds(pc[p])
  BY DEF Init, Holds
<1> QED
  BY <1>1, <1>2, <1>3 DEF Init, GateInv

\* A command that moves on keeps the invariant of commands, if it holds what it must.
LEMMA CommandMoves ==
    ASSUME GateInv, NEW p \in Proc, NEW what,
           NEW where \in {"idle", "freeze", "evidence", "decide", "load", "report", "install"},
           what \in Holds(where),
           pc' = [pc EXCEPT ![p] = where], local' = [local EXCEPT ![p] = what]
    PROVE  /\ pc' \in [Proc -> {"idle", "freeze", "evidence", "decide", "load", "report", "install"}]
           /\ DOMAIN local' = Proc /\ \A q \in Proc : local'[q] \in Holds(pc'[q])
<1>1. pc \in [Proc -> {"idle", "freeze", "evidence", "decide", "load", "report", "install"}]
  BY DEF GateInv
<1>2. pc' \in [Proc -> {"idle", "freeze", "evidence", "decide", "load", "report", "install"}]
  BY <1>1
<1>3. DOMAIN local = Proc /\ \A q \in Proc : local[q] \in Holds(pc[q])
  BY DEF GateInv
<1>4. DOMAIN local' = Proc
  BY <1>3
<1>5. ASSUME NEW q \in Proc PROVE local'[q] \in Holds(pc'[q])
  <2>1. CASE q = p
    <3>1. local'[q] = what /\ pc'[q] = where
      BY <1>1, <1>3, <2>1
    <3> QED
      BY <3>1
  <2>2. CASE q # p
    <3>1. local'[q] = local[q] /\ pc'[q] = pc[q]
      BY <1>1, <1>3, <2>2
    <3> QED
      BY <1>3, <3>1
  <2> QED
    BY <2>1, <2>2
<1> QED
  BY <1>2, <1>4, <1>5

\* A command that begins has its turn counted.
LEMMA BeginInv ==
    ASSUME GateInv, NEW p \in Proc, NEW what, NEW where \in {"freeze", "evidence", "load"},
           what \in Holds(where), Begin(p, where, what),
           UNCHANGED <<arms, charter, stored, decision>>
    PROVE  GateInv'
<1>1. /\ pc' \in [Proc -> {"idle", "freeze", "evidence", "decide", "load", "report", "install"}]
      /\ DOMAIN local' = Proc /\ \A q \in Proc : local'[q] \in Holds(pc'[q])
  BY CommandMoves DEF Begin
<1>2. runs' \in 0..MaxRuns
  BY GateConstants DEF GateInv, Begin
<1> QED
  BY <1>1, <1>2 DEF GateInv

\* A command that moves on, or ends, with what it wrote.
LEMMA StepInv ==
    ASSUME GateInv, NEW p \in Proc, NEW what,
           NEW where \in {"idle", "decide", "report", "install"},
           what \in Holds(where), Step(p, where, what), arms' = arms,
           charter' \in Charters \union {None}, decision' \in Verdicts \union {None},
           \A s \in stored' : s.kind \in DOMAIN Documents /\ s.of \in Documents[s.kind]
    PROVE  GateInv'
<1>1. /\ pc' \in [Proc -> {"idle", "freeze", "evidence", "decide", "load", "report", "install"}]
      /\ DOMAIN local' = Proc /\ \A q \in Proc : local'[q] \in Holds(pc'[q])
  BY CommandMoves DEF Step
<1>2. runs' \in 0..MaxRuns
  BY DEF GateInv, Step
<1> QED
  BY <1>1, <1>2 DEF GateInv

\* What compare and gate decide make of evidence is a verdict.
LEMMA DecisionIsVerdict ==
    ASSUME NEW ch, NEW e \in Evidences, Decidable(ch, e)
    PROVE  Decision(ch, e) \in Verdicts
BY DEF Decidable, Verdicts

LEMMA NextInv == GateInv /\ [Next]_vars => GateInv'
<1> SUFFICES ASSUME GateInv, [Next]_vars PROVE GateInv'
  OBVIOUS
<1>0. CASE UNCHANGED vars
  BY <1>0 DEF GateInv, vars
<1>1. ASSUME NEW p \in Proc, StartFreeze(p) PROVE GateInv'
  <2>1. PICK b \in Baseline, r \in Registries : Freezable(b) /\ Begin(p, "freeze", Charter(b, r))
    BY <1>1 DEF StartFreeze
  <2>2. Charter(b, r) \in Holds("freeze")
    BY <2>1 DEF Holds, Charters
  <2> QED
    BY <1>1, <2>1, <2>2, BeginInv DEF StartFreeze
<1>2. ASSUME NEW p \in Proc, InstallCharter(p) PROVE GateInv'
  <2>1. local[p] \in Charters
    BY <1>2 DEF InstallCharter, GateInv, Holds
  <2>2. None \in Holds("idle")
    BY DEF Holds
  <2> QED
    BY <1>2, <2>1, <2>2, StepInv DEF InstallCharter, Ends, GateInv
<1>3. ASSUME NEW p \in Proc, StartCompare(p) PROVE GateInv'
  <2>1. PICK pair \in arms : Begin(p, "evidence", Evidence(charter, pair))
    BY <1>3 DEF StartCompare
  <2>2. charter \in Charters /\ pair \in UNION Pairs
    BY <1>3 DEF StartCompare, GateInv
  <2>3. Evidence(charter, pair) \in Holds("evidence")
    BY <2>2 DEF Holds, Evidences
  <2> QED
    BY <1>3, <2>1, <2>3, BeginInv DEF StartCompare
<1>4. ASSUME NEW p \in Proc, PutEvidence(p) PROVE GateInv'
  <2>1. local[p] \in Evidences
    BY <1>4 DEF PutEvidence, GateInv, Holds
  <2>2. local[p] \in Holds("decide")
    BY <2>1 DEF Holds
  <2>3. \A s \in stored' : s.kind \in DOMAIN Documents /\ s.of \in Documents[s.kind]
    BY <1>4, <2>1 DEF PutEvidence, GateInv, Documents
  <2> QED
    BY <1>4, <2>2, <2>3, StepInv DEF PutEvidence, GateInv
<1>5. ASSUME NEW p \in Proc, PutDecision(p) PROVE GateInv'
  <2> DEFINE d == Decision(charter, local[p])
  <2>1. local[p] \in Evidences
    BY <1>5 DEF PutDecision, GateInv, Holds
  <2>2. d \in Verdicts
    BY <1>5, <2>1, DecisionIsVerdict DEF PutDecision
  <2>3. stored' = stored \union {[kind |-> "decision", of |-> d]} /\ Step(p, "report", d)
    BY <1>5 DEF PutDecision
  <2> HIDE DEF d
  <2>4. d \in Holds("report")
    BY <2>2 DEF Holds
  <2>5. \A s \in stored' : s.kind \in DOMAIN Documents /\ s.of \in Documents[s.kind]
    BY <2>2, <2>3 DEF GateInv, Documents
  <2> QED
    BY <1>5, <2>3, <2>4, <2>5, StepInv DEF PutDecision, GateInv
<1>6. ASSUME NEW p \in Proc, PutReport(p) PROVE GateInv'
  <2>1. local[p] \in Verdicts
    BY <1>6 DEF PutReport, GateInv, Holds
  <2>2. None \in Holds("idle")
    BY DEF Holds
  <2>3. \A s \in stored' : s.kind \in DOMAIN Documents /\ s.of \in Documents[s.kind]
    BY <1>6, <2>1 DEF PutReport, GateInv, Documents
  <2> QED
    BY <1>6, <2>2, <2>3, StepInv DEF PutReport, Ends, GateInv
<1>7. ASSUME NEW p \in Proc, StartDecide(p) PROVE GateInv'
  <2>1. PICK s \in stored : s.kind = "evidence" /\ Begin(p, "load", s.of)
    BY <1>7 DEF StartDecide
  <2>2. s.of \in Holds("load")
    BY <2>1 DEF GateInv, Documents, Holds
  <2> QED
    BY <1>7, <2>1, <2>2, BeginInv DEF StartDecide
<1>8. ASSUME NEW p \in Proc, Decide(p) PROVE GateInv'
  <2> DEFINE d == Decision(charter, local[p])
  <2>1. local[p] \in Evidences
    BY <1>8 DEF Decide, GateInv, Holds
  <2>2. d \in Verdicts
    BY <1>8, <2>1, DecisionIsVerdict DEF Decide
  <2>3. Step(p, "install", d)
    BY <1>8 DEF Decide
  <2> HIDE DEF d
  <2>4. d \in Holds("install")
    BY <2>2 DEF Holds
  <2> QED
    BY <1>8, <2>3, <2>4, StepInv DEF Decide, GateInv
<1>9. ASSUME NEW p \in Proc, InstallDecision(p) PROVE GateInv'
  <2>1. local[p] \in Verdicts
    BY <1>9 DEF InstallDecision, GateInv, Holds
  <2>2. None \in Holds("idle")
    BY DEF Holds
  <2> QED
    BY <1>9, <2>1, <2>2, StepInv DEF InstallDecision, Ends, GateInv
<1>10. ASSUME NEW p \in Proc, Fail(p) PROVE GateInv'
  <2>1. None \in Holds("idle")
    BY DEF Holds
  <2> QED
    BY <1>10, <2>1, StepInv DEF Fail, Ends, GateInv
<1> QED
  BY <1>0, <1>1, <1>2, <1>3, <1>4, <1>5, <1>6, <1>7, <1>8, <1>9, <1>10 DEF Next

\* Every document in the registry, every command's memory and every file is derived from
\* the last one: charters from good freeze evidence, evidence under a charter, decisions from
\* evidence of their own charter (gate/charter.py, gate/comparison.py, gate/decision.py).
THEOREM GateIsDerived == Spec => []GateInv
BY InitInv, NextInv, PTL DEF Spec

-----------------------------------------------------------------------------
(* From a status to what was found. *)

\* No check of a set failed means that each holds.
LEMMA NoneFailed ==
    ASSUME NEW S, Failed(S) = {}, NEW name, NEW holds, <<name, holds>> \in S
    PROVE  holds
<1>1. ASSUME ~holds PROVE name \in Failed(S)
  <2>1. ~(<<name, holds>>[2])
    BY <1>1
  <2> QED
    BY <2>1 DEF Failed
<1> QED
  BY <1>1

\* Every cell has a status.
LEMMA CellStatusType ==
    ASSUME NEW ch, NEW pair, NEW c \in Cell
    PROVE  CellStatus(ch, pair, c) \in Status
<1>1. IntervalStatus(pair.bounds[c], ch.margin[c]) \in Status
  BY DEF IntervalStatus, Status
<1>2. TimedStatus(ch, pair, c) \in Status
  BY <1>1 DEF TimedStatus, Status
<1> QED
  BY <1>1, <1>2 DEF CellStatus, Status

\* What is found are statuses, one at least.
LEMMA FindingsType ==
    ASSUME NEW ch, NEW pair
    PROVE  Findings(ch, pair) \subseteq Status /\ Findings(ch, pair) # {}
<1>1. \A c \in Cell : CellStatus(ch, pair, c) \in Status
  BY CellStatusType
<1>2. \A c \in DOMAIN Goal : HypothesisStatus(ch, pair, c) \in Status
  BY DEF HypothesisStatus, Status
<1>3. {"FAIL_INTEGRITY", "BLOCKED_INFRASTRUCTURE", "FAIL_PERFORMANCE"} \subseteq Status
  BY DEF Status
<1>4. Findings(ch, pair) \subseteq Status
  BY <1>1, <1>2, <1>3 DEF Findings
<1>5. PICK c \in Cell : TRUE
  BY GateConstants
<1>6. CellStatus(ch, pair, c) \in Findings(ch, pair)
  BY DEF Findings
<1> QED
  BY <1>4, <1>6

\* The overall status is one of those found, and none found comes before it.
LEMMA OverallIsFirst ==
    ASSUME NEW S, S \subseteq Status, S # {}
    PROVE  Overall(S) \in S /\ \A t \in S : Rank[Overall(S)] <= Rank[t]
<1> DEFINE T == {Rank[t] : t \in S}
<1>1. \A t \in S : Rank[t] \in Nat
  BY DEF Rank, Status
<1>2. T \subseteq Nat /\ T # {}
  BY <1>1
<1>3. PICK x \in T : \A y \in T : x <= y
  BY <1>2, Least
<1>4. PICK s \in S : Rank[s] = x
  BY <1>3
<1>5. \E r \in S : \A t \in S : Rank[r] <= Rank[t]
  BY <1>3, <1>4
<1> QED
  BY <1>5 DEF Overall

\* The ranks, spelled out.
LEMMA Ranks ==
    /\ Rank["FAIL_INTEGRITY"] = 1 /\ Rank["BLOCKED_INFRASTRUCTURE"] = 2
    /\ Rank["FAIL_PERFORMANCE"] = 3 /\ Rank["FAIL_REGRESSION"] = 4
    /\ Rank["INSUFFICIENT_EVIDENCE"] = 5 /\ Rank["PASS"] = 6
BY DEF Rank, Status

\* An integrity or an infrastructure failure is found first.
LEMMA NothingBroke ==
    ASSUME NEW ch, NEW pair,
           Overall(Findings(ch, pair)) \in {"PASS", "FAIL_REGRESSION", "FAIL_PERFORMANCE"}
    PROVE  IntegrityFailures(ch, pair) = {} /\ InfrastructureFailures(ch, pair) = {}
<1> DEFINE S == Findings(ch, pair)
<1>1. "FAIL_INTEGRITY" \notin S /\ "BLOCKED_INFRASTRUCTURE" \notin S
  BY FindingsType, OverallIsFirst, Ranks
<1>2. ASSUME NEW r \in IntegrityFailures(ch, pair) PROVE FALSE
  BY <1>1, <1>2 DEF Findings
<1>3. ASSUME NEW r \in InfrastructureFailures(ch, pair) PROVE FALSE
  BY <1>1, <1>3 DEF Findings
<1> QED
  BY <1>2, <1>3

\* Where nothing broke, a budget that is not kept is found before a regression.
LEMMA BudgetIsKept ==
    ASSUME NEW ch, NEW pair,
           Overall(Findings(ch, pair)) \in {"PASS", "FAIL_REGRESSION"}
    PROVE  pair.candidate.runtime.budget
<1> DEFINE S == Findings(ch, pair)
<1>1. IntegrityFailures(ch, pair) = {} /\ InfrastructureFailures(ch, pair) = {}
  BY NothingBroke
<1>2. "FAIL_PERFORMANCE" \notin S
  BY FindingsType, OverallIsFirst, Ranks
<1>3. PerformanceFailures(pair) = {}
  BY <1>1, <1>2 DEF Findings
<1> DEFINE checks == {<<"budget", RuntimePayload(pair).candidate.budget>>}
<1>4. Failed(checks) = {} /\ <<"budget", RuntimePayload(pair).candidate.budget>> \in checks
  BY <1>3 DEF PerformanceFailures
<1> HIDE DEF checks
<1>5. RuntimePayload(pair).candidate.budget
  BY <1>4, NoneFailed
<1> QED
  BY <1>5 DEF RuntimePayload

\* The number of pairs of valid blocks is a number.
LEMMA ValidPairsType ==
    ASSUME NEW pair \in UNION Pairs, NEW c \in Timed
    PROVE  ValidPairs(pair, c) \in Nat
<1>1. IsFiniteSet(pair.baseline.blocks[c].valid)
  BY GateConstants
<1>2. IsFiniteSet(pair.baseline.blocks[c].valid \intersect pair.candidate.blocks[c].valid)
  BY <1>1, FS_Subset
<1> QED
  BY <1>2, FS_CardinalityType DEF ValidPairs

-----------------------------------------------------------------------------
(* PASS is earned. *)

\* A pair without an integrity failure, said of its arms.
LEMMA Integrity ==
    ASSUME NEW ch, NEW pair, IntegrityFailures(ch, pair) = {}
    PROVE  /\ pair.baseline.sound /\ pair.candidate.sound
           /\ pair.baseline.identity = pair.candidate.identity /\ ~pair.candidate.holdout
           /\ pair.baseline.registry = ch.registry /\ pair.candidate.registry = ch.registry
           /\ DOMAIN pair.baseline.frames = DOMAIN pair.candidate.frames
           /\ \A t \in DOMAIN pair.baseline.frames :
                pair.baseline.frames[t].segment = pair.candidate.frames[t].segment
<1> DEFINE e == IntegrityPayload(pair)
           checks == {<<"claims", e.claims>>, <<"identity", e.identities[1] = e.identities[2]>>,
                      <<"registry", Registry = ch.registry>>, <<"holdout", ~e.holdout>>,
                      <<"frames", e.frames>>, <<"support", e.support>>, <<"inputs", e.inputs>>}
<1>1. Failed(checks) = {}
  BY DEF IntegrityFailures
<1>2. /\ <<"claims", e.claims>> \in checks
      /\ <<"identity", e.identities[1] = e.identities[2]>> \in checks
      /\ <<"registry", Registry = ch.registry>> \in checks /\ <<"holdout", ~e.holdout>> \in checks
      /\ <<"frames", e.frames>> \in checks /\ <<"inputs", e.inputs>> \in checks
  OBVIOUS
<1> HIDE DEF checks
<1>3. /\ e.claims /\ e.identities[1] = e.identities[2] /\ Registry = ch.registry
      /\ ~e.holdout /\ e.frames /\ e.inputs
  <2>1. e.claims
    BY <1>1, <1>2, NoneFailed
  <2>2. e.identities[1] = e.identities[2]
    BY <1>1, <1>2, NoneFailed
  <2>3. Registry = ch.registry
    BY <1>1, <1>2, NoneFailed
  <2>4. ~e.holdout
    BY <1>1, <1>2, NoneFailed
  <2>5. e.frames
    BY <1>1, <1>2, NoneFailed
  <2>6. e.inputs
    BY <1>1, <1>2, NoneFailed
  <2> QED
    BY <2>1, <2>2, <2>3, <2>4, <2>5, <2>6
<1>4. /\ pair.baseline.sound /\ pair.candidate.sound
      /\ pair.baseline.identity = pair.candidate.identity /\ ~pair.candidate.holdout
      /\ pair.baseline.registry = Registry /\ pair.candidate.registry = Registry
      /\ FramesMatch(pair)
  BY <1>3 DEF IntegrityPayload
<1> QED
  BY <1>3, <1>4 DEF FramesMatch

\* A pair without an infrastructure failure.
LEMMA Infrastructure ==
    ASSUME NEW ch, NEW pair, InfrastructureFailures(ch, pair) = {}
    PROVE  /\ {pair.baseline.runtime.hardware, pair.candidate.runtime.hardware} = {ch.hardware}
           /\ pair.baseline.runtime.environment /\ pair.candidate.runtime.environment
<1> DEFINE b == RuntimePayload(pair).baseline
           d == RuntimePayload(pair).candidate
           checks == {<<"hardware", b.hardware = ch.hardware /\ d.hardware = ch.hardware>>,
                      <<"environment", b.environment /\ d.environment>>,
                      <<"provider", b.gpu /\ d.gpu>>, <<"protocol", b.protocol /\ d.protocol>>,
                      <<"order", b.order = Schedule /\ d.order = Schedule>>,
                      <<"trials", RuntimePayload(pair).trials>>}
<1>1. Failed(checks) = {}
  BY DEF InfrastructureFailures
<1>2. /\ <<"hardware", b.hardware = ch.hardware /\ d.hardware = ch.hardware>> \in checks
      /\ <<"environment", b.environment /\ d.environment>> \in checks
  OBVIOUS
<1> HIDE DEF checks
<1>3. b.hardware = ch.hardware /\ d.hardware = ch.hardware
  BY <1>1, <1>2, NoneFailed
<1>4. b.environment /\ d.environment
  BY <1>1, <1>2, NoneFailed
<1> QED
  BY <1>3, <1>4 DEF RuntimePayload

\* A cell that passes is supported and its interval stays within the margin.
LEMMA CellPasses ==
    ASSUME NEW ch, NEW pair \in UNION Pairs, NEW c \in Cell, CellStatus(ch, pair, c) = "PASS"
    PROVE  /\ Supported(pair, c) /\ pair.bounds[c].valid
           /\ pair.bounds[c].lower >= -ch.margin[c]
           /\ c \in Timed => ValidPairs(pair, c) >= MinPairs
<1>1. Estimated(ch, pair, c)
  BY DEF CellStatus
<1>2. /\ c \in Timed => TimedStatus(ch, pair, c) = "PASS"
      /\ c \notin Timed => IntervalStatus(pair.bounds[c], ch.margin[c]) = "PASS"
  BY <1>1 DEF CellStatus, Estimated
<1>3. c \in Timed => /\ IntervalStatus(pair.bounds[c], ch.margin[c]) = "PASS"
                     /\ ~(ValidPairs(pair, c) < MinPairs)
  BY <1>2 DEF TimedStatus
<1>4. pair.bounds[c].valid /\ pair.bounds[c].lower >= -ch.margin[c]
  BY <1>2, <1>3 DEF IntervalStatus
<1>5. c \in Timed => ValidPairs(pair, c) >= MinPairs
  BY <1>3, ValidPairsType, GateConstants
<1> QED
  BY <1>1, <1>4, <1>5 DEF Estimated

\* A verdict that passes deserves it.
LEMMA VerdictIsDeserved ==
    ASSUME NEW d \in Verdicts, d.status = "PASS"
    PROVE  Deserved(d)
<1>1. PICK ch \in Charters, pair \in UNION Pairs : d = Decision(ch, Evidence(ch, pair))
  BY DEF Verdicts, Evidences, Evidence
<1>2. PICK b \in Baseline : ch.margin = b.margin /\ Freezable(b)
  BY DEF Charters, Charter
<1>3. /\ d.charter = ch /\ d.evidence.pair = pair
      /\ Overall(Findings(ch, pair)) = "PASS"
  BY <1>1 DEF Decision, Evidence
<1>4. /\ IntegrityFailures(ch, pair) = {} /\ InfrastructureFailures(ch, pair) = {}
      /\ pair.candidate.runtime.budget
  BY <1>3, NothingBroke, BudgetIsKept
<1>5. \A s \in Findings(ch, pair) : s = "PASS"
  <2>1. \A s \in Findings(ch, pair) : s \in Status /\ 6 <= Rank[s]
    BY <1>3, FindingsType, OverallIsFirst, Ranks
  <2> QED
    BY <2>1, Ranks DEF Status
<1>6. ASSUME NEW c \in Cell
      PROVE  /\ Supported(pair, c) /\ pair.bounds[c].valid
             /\ pair.bounds[c].lower >= -DraftMargin[c]
             /\ c \in Timed => ValidPairs(pair, c) >= MinPairs
  <2>1. CellStatus(ch, pair, c) = "PASS"
    BY <1>5 DEF Findings
  <2>2. pair.bounds[c].lower >= -ch.margin[c] /\ ch.margin[c] <= DraftMargin[c]
    BY <1>2, <2>1, CellPasses DEF Freezable
  <2>3. pair.bounds[c].lower \in Int /\ ch.margin[c] \in Nat /\ DraftMargin[c] \in Nat
    BY <1>2, GateConstants
  <2>4. pair.bounds[c].lower >= -DraftMargin[c]
    BY <2>2, <2>3
  <2> QED
    BY <2>1, <2>4, CellPasses
<1>7. ASSUME NEW c \in DOMAIN Goal PROVE pair.bounds[c].lower >= Goal[c]
  <2>1. HypothesisStatus(ch, pair, c) = "PASS"
    BY <1>5 DEF Findings
  <2> QED
    BY <2>1 DEF HypothesisStatus
<1>8. \A c \in Timed : c \in Cell
  BY GateConstants
<1>9. /\ pair.baseline.sound /\ pair.candidate.sound
      /\ pair.baseline.identity = pair.candidate.identity /\ ~pair.candidate.holdout
      /\ pair.baseline.registry = ch.registry /\ pair.candidate.registry = ch.registry
      /\ DOMAIN pair.baseline.frames = DOMAIN pair.candidate.frames
      /\ \A t \in DOMAIN pair.baseline.frames :
           pair.baseline.frames[t].segment = pair.candidate.frames[t].segment
  BY <1>4, Integrity
<1>10. /\ {pair.baseline.runtime.hardware, pair.candidate.runtime.hardware} = {ch.hardware}
       /\ pair.baseline.runtime.environment /\ pair.candidate.runtime.environment
  BY <1>4, Infrastructure
<1>11. \A c \in Timed : ValidPairs(pair, c) >= MinPairs
  BY <1>6, <1>8
<1> QED
  BY <1>3, <1>4, <1>6, <1>7, <1>9, <1>10, <1>11, Zenon DEF Deserved

\* Every decision there is is a verdict.
LEMMA DecisionsAreVerdicts == GateInv => Decisions \subseteq Verdicts
<1> SUFFICES ASSUME GateInv PROVE Decisions \subseteq Verdicts
  OBVIOUS
<1>1. \A s \in stored : s.kind \in {"decision", "report"} => s.of \in Verdicts
  BY DEF GateInv, Documents
<1>2. ASSUME NEW p \in Proc, pc[p] \in {"report", "install"} PROVE local[p] \in Verdicts
  BY <1>2 DEF GateInv, Holds
<1> QED
  BY <1>1, <1>2 DEF Decisions, GateInv

\* Through every interleaving of freezes, comparisons and decisions, PASS is given only to
\* two arms that deserve it under a charter no wider than the draft (docs/acceptance-charter.md).
THEOREM GatePassIsEarned == Spec => []PassIsEarned
<1>1. GateInv => PassIsEarned
  BY DecisionsAreVerdicts, VerdictIsDeserved DEF PassIsEarned
<1> QED
  BY <1>1, GateIsDerived, PTL

\* Every decision is one of the charter its evidence was derived under.
THEOREM GateDecidesUnderItsCharter == Spec => []DecidedUnderItsCharter
<1>1. ASSUME NEW d \in Verdicts PROVE d.charter = d.evidence.charter
  BY DEF Verdicts, Decision
<1>2. GateInv => DecidedUnderItsCharter
  BY <1>1, DecisionsAreVerdicts DEF DecidedUnderItsCharter
<1> QED
  BY <1>2, GateIsDerived, PTL

-----------------------------------------------------------------------------
(* A rejection is founded. *)

\* A cell that regresses is no runtime cell, is supported, and lies below its margin.
LEMMA CellRegresses ==
    ASSUME NEW ch, NEW pair, NEW c \in Cell, CellStatus(ch, pair, c) = "FAIL_REGRESSION"
    PROVE  /\ c \notin Timed /\ Supported(pair, c)
           /\ pair.bounds[c].valid /\ pair.bounds[c].upper < -ch.margin[c]
<1>1. Estimated(ch, pair, c)
  BY DEF CellStatus
<1>2. /\ c \in Timed => TimedStatus(ch, pair, c) = "FAIL_REGRESSION"
      /\ c \notin Timed => IntervalStatus(pair.bounds[c], ch.margin[c]) = "FAIL_REGRESSION"
  BY <1>1 DEF CellStatus, Estimated
<1>3. TimedStatus(ch, pair, c) # "FAIL_REGRESSION"
  BY DEF TimedStatus
<1>4. c \notin Timed /\ IntervalStatus(pair.bounds[c], ch.margin[c]) = "FAIL_REGRESSION"
  BY <1>2, <1>3
<1>5. pair.bounds[c].valid /\ pair.bounds[c].upper < -ch.margin[c]
  BY <1>4 DEF IntervalStatus
<1> QED
  BY <1>1, <1>4, <1>5 DEF Estimated

\* A cell that fails as a runtime cell is one, of enough pairs, and lies below its margin.
LEMMA CellFailsPerformance ==
    ASSUME NEW ch, NEW pair \in UNION Pairs, NEW c \in Cell,
           CellStatus(ch, pair, c) = "FAIL_PERFORMANCE"
    PROVE  /\ c \in Timed /\ ValidPairs(pair, c) >= MinPairs
           /\ pair.bounds[c].valid /\ pair.bounds[c].upper < -ch.margin[c]
<1>1. Estimated(ch, pair, c)
  BY DEF CellStatus
<1>2. /\ c \in Timed => TimedStatus(ch, pair, c) = "FAIL_PERFORMANCE"
      /\ c \notin Timed => IntervalStatus(pair.bounds[c], ch.margin[c]) = "FAIL_PERFORMANCE"
  BY <1>1 DEF CellStatus, Estimated
<1>3. IntervalStatus(pair.bounds[c], ch.margin[c]) # "FAIL_PERFORMANCE"
  BY DEF IntervalStatus
<1>4. c \in Timed /\ TimedStatus(ch, pair, c) = "FAIL_PERFORMANCE"
  BY <1>2, <1>3
<1>5. /\ ~(ValidPairs(pair, c) < MinPairs)
      /\ IntervalStatus(pair.bounds[c], ch.margin[c]) = "FAIL_REGRESSION"
  BY <1>3, <1>4 DEF TimedStatus
<1>6. pair.bounds[c].valid /\ pair.bounds[c].upper < -ch.margin[c]
  BY <1>5 DEF IntervalStatus
<1>7. ValidPairs(pair, c) >= MinPairs
  BY <1>4, <1>5, ValidPairsType, GateConstants
<1> QED
  BY <1>4, <1>6, <1>7

\* No release is rejected for what broke around it, and none without an interval below its
\* margin or goal, or a budget that was not kept.
THEOREM GateRejectionIsFounded == Spec => []RejectionIsFounded
<1>1. ASSUME NEW ch \in Charters, NEW pair \in UNION Pairs,
             Overall(Findings(ch, pair)) = "FAIL_REGRESSION"
      PROVE  /\ IntegrityFailures(ch, pair) = {} /\ InfrastructureFailures(ch, pair) = {}
             /\ pair.candidate.runtime.budget
             /\ \/ \E c \in Cell \ Timed : /\ pair.bounds[c].valid
                                           /\ pair.bounds[c].upper < -ch.margin[c]
                                           /\ Supported(pair, c)
                \/ \E c \in DOMAIN Goal : pair.bounds[c].valid /\ pair.bounds[c].upper < Goal[c]
  <2>1. /\ IntegrityFailures(ch, pair) = {} /\ InfrastructureFailures(ch, pair) = {}
        /\ pair.candidate.runtime.budget
    BY <1>1, NothingBroke, BudgetIsKept
  <2>2. "FAIL_REGRESSION" \in Findings(ch, pair)
    BY <1>1, FindingsType, OverallIsFirst
  <2>3. \/ \E c \in Cell : CellStatus(ch, pair, c) = "FAIL_REGRESSION"
        \/ \E c \in DOMAIN Goal : HypothesisStatus(ch, pair, c) = "FAIL_REGRESSION"
    BY <2>2 DEF Findings
  <2>4. CASE \E c \in Cell : CellStatus(ch, pair, c) = "FAIL_REGRESSION"
    BY <2>1, <2>4, CellRegresses
  <2>5. CASE \E c \in DOMAIN Goal : HypothesisStatus(ch, pair, c) = "FAIL_REGRESSION"
    <3>1. PICK c \in DOMAIN Goal : HypothesisStatus(ch, pair, c) = "FAIL_REGRESSION"
      BY <2>5
    <3>2. Judged(ch, pair, c) /\ pair.bounds[c].upper < Goal[c]
      BY <3>1 DEF HypothesisStatus
    <3> QED
      BY <2>1, <3>2 DEF Judged
  <2> QED
    BY <2>3, <2>4, <2>5
<1>2. ASSUME NEW ch \in Charters, NEW pair \in UNION Pairs,
             Overall(Findings(ch, pair)) = "FAIL_PERFORMANCE"
      PROVE  /\ IntegrityFailures(ch, pair) = {} /\ InfrastructureFailures(ch, pair) = {}
             /\ \/ ~pair.candidate.runtime.budget
                \/ \E c \in Timed : /\ pair.bounds[c].valid
                                    /\ pair.bounds[c].upper < -ch.margin[c]
                                    /\ ValidPairs(pair, c) >= MinPairs
  <2>1. IntegrityFailures(ch, pair) = {} /\ InfrastructureFailures(ch, pair) = {}
    BY <1>2, NothingBroke
  <2>2. "FAIL_PERFORMANCE" \in Findings(ch, pair)
    BY <1>2, FindingsType, OverallIsFirst
  <2>3. \/ \E c \in Cell : CellStatus(ch, pair, c) = "FAIL_PERFORMANCE"
        \/ \E c \in DOMAIN Goal : HypothesisStatus(ch, pair, c) = "FAIL_PERFORMANCE"
        \/ PerformanceFailures(pair) # {}
    BY <2>2 DEF Findings
  <2>4. CASE \E c \in Cell : CellStatus(ch, pair, c) = "FAIL_PERFORMANCE"
    BY <2>1, <2>4, CellFailsPerformance
  <2>5. \A c \in DOMAIN Goal : HypothesisStatus(ch, pair, c) # "FAIL_PERFORMANCE"
    BY DEF HypothesisStatus
  <2>6. CASE PerformanceFailures(pair) # {}
    <3>1. ~RuntimePayload(pair).candidate.budget
      BY <2>6 DEF PerformanceFailures, Failed
    <3> QED
      BY <2>1, <3>1 DEF RuntimePayload
  <2> QED
    BY <2>3, <2>4, <2>5, <2>6
<1>3. ASSUME GateInv, NEW d \in Decisions
      PROVE  \E ch \in Charters, pair \in UNION Pairs :
                /\ d.charter = ch /\ d.evidence.pair = pair
                /\ d.status = Overall(Findings(ch, pair))
  <2>1. PICK ch \in Charters, pair \in UNION Pairs : d = Decision(ch, Evidence(ch, pair))
    BY <1>3, DecisionsAreVerdicts DEF Verdicts, Evidences, Evidence
  <2>2. /\ d.charter = ch /\ d.evidence.pair = pair
        /\ d.status = Overall(Findings(ch, pair))
    BY <2>1 DEF Decision, Evidence
  <2> QED
    BY <2>2
<1>4. GateInv => RejectionIsFounded
  BY <1>1, <1>2, <1>3 DEF RejectionIsFounded, Incomparable
<1> QED
  BY <1>4, GateIsDerived, PTL
=============================================================================
