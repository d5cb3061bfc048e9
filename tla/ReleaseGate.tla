----------------------------- MODULE ReleaseGate -----------------------------
(***************************************************************************)
(* The release gate (python/junctionlens/gate): `gate freeze` turns a      *)
(* draft and the baseline's freeze evidence into the frozen charter,       *)
(* `compare` turns two arms into gate evidence, a decision and a report in *)
(* the registry, and `gate decide` writes one decision file.  All of them  *)
(* are commands that people may run at the same time on the same files.    *)
(*                                                                         *)
(* Metric primitives are abstracted to which frames carry a metric, how    *)
(* much support they give and what interval the bootstrap (deterministic   *)
(* in arms and seed) gives a cell: bounds[c] of a pair of arms.  A hash is *)
(* the thing it is of.                                                     *)
(***************************************************************************)
EXTENDS Integers, FiniteSets, FiniteSetsExt

CONSTANTS
    Proc,        \* running commands
    Cell,        \* the cells of the charter
    Metric, Slice, Support,  \* of a cell: metric, slice or "overall", support class
    Ranked,      \* the cells of average precision
    Timed,       \* the cells that are estimated from paired runtime trials
    DraftMargin, \* DraftMargin[c]: the margin of the draft
    Goal,        \* Goal[c]: minimum improvement of the hypotheses about c
    Baseline,    \* freeze evidence: [clean, margin, hardware]
    Pairs,       \* sets of comparisons: [baseline, candidate : arms, bounds : Cell -> interval]
    Registry,    \* the metric and slice registries that compare is given
    Registries,  \* those that a freeze may have been given
    KnownSlices, \* the dimensions in its slice registry
    Floor,       \* support minimums: [segments, sliceSegments, edges, transitions, temporal]
    MinPairs,    \* runtime_bootstrap.minimum_valid_pairs
    Schedule,    \* runtime_bootstrap.balanced_order_schedule
    MaxRuns,     \* bound: commands started
    None

Status == {"FAIL_INTEGRITY", "BLOCKED_INFRASTRUCTURE", "FAIL_PERFORMANCE",
           "FAIL_REGRESSION", "INSUFFICIENT_EVIDENCE", "PASS"}

\* _overall_status: the precedence of the statuses.
Rank == [s \in Status |->
            CASE s = "FAIL_INTEGRITY" -> 1        [] s = "BLOCKED_INFRASTRUCTURE" -> 2
              [] s = "FAIL_PERFORMANCE" -> 3      [] s = "FAIL_REGRESSION" -> 4
              [] s = "INSUFFICIENT_EVIDENCE" -> 5 [] s = "PASS" -> 6]

\* Seeded bug: a regression is looked for first.
OverallRegressionFirst(S) ==
    IF "FAIL_REGRESSION" \in S THEN "FAIL_REGRESSION"
    ELSE CHOOSE s \in S : \A t \in S : Rank[s] <= Rank[t]

Overall(S) == CHOOSE s \in S : \A t \in S : Rank[s] <= Rank[t]

ASSUME GateConstants ==
    /\ DraftMargin \in [Cell -> Nat]
    /\ Timed \subseteq Cell /\ Ranked \subseteq Cell \ Timed /\ IsFiniteSet(Cell) /\ Cell # {}
    /\ MaxRuns \in Nat /\ MinPairs \in Nat
    /\ \A p \in UNION Pairs : p.bounds \in [Cell -> [valid : BOOLEAN, lower : Int, upper : Int]]
    /\ \A p \in UNION Pairs : \A c \in Timed : IsFiniteSet(p.baseline.blocks[c].valid)
    /\ \A b \in Baseline : b.margin \in [Cell -> Nat]
    /\ DOMAIN Goal \subseteq Cell

VARIABLES
    arms,       \* the pairs that are registered for comparison
    charter,    \* the frozen charter file
    stored,     \* what comparisons have put into the registry
    decision,   \* the file of gate decide
    pc,         \* where a command is
    local,      \* what it holds in memory
    runs        \* commands started

vars == <<arms, charter, stored, decision, pc, local, runs>>

Init ==
    /\ arms \in Pairs
    /\ charter = None /\ stored = {} /\ decision = None
    /\ pc = [p \in Proc |-> "idle"] /\ local = [p \in Proc |-> None]
    /\ runs = 0

-----------------------------------------------------------------------------
(***************************************************************************)
(* From two arms to gate evidence                                          *)
(***************************************************************************)

\* _slice_match and the metric that a frame must carry.
Selected(arm, c) ==
    {t \in DOMAIN arm.frames : /\ Metric[c] \in arm.frames[t].metrics
                               /\ Slice[c] \in {"overall", arm.frames[t].slice}}

Eligible(pair, c) == Selected(pair.baseline, c) \intersect Selected(pair.candidate, c)

\* _aggregate_segments: the support that the eligible frames of an arm give.
ArmSupport(arm, tokens) ==
    LET segments(ts) == {arm.frames[t].segment : t \in ts}
    IN  [segments    |-> Cardinality(segments(tokens)),
         edges       |-> MapThenSumSet(LAMBDA t : arm.frames[t].edges, tokens),
         transitions |-> MapThenSumSet(LAMBDA t : arm.frames[t].transitions, tokens),
         temporal    |-> Cardinality(segments({t \in tokens : arm.frames[t].transitions > 0}))]

Lesser(a, b) == IF a < b THEN a ELSE b

CellSupport(pair, c) ==
    LET b == ArmSupport(pair.baseline, Eligible(pair, c))
        d == ArmSupport(pair.candidate, Eligible(pair, c))
    IN  [segments    |-> b.segments,
         edges       |-> Lesser(b.edges, d.edges),
         transitions |-> Lesser(b.transitions, d.transitions),
         temporal    |-> Lesser(b.temporal, d.temporal)]

\* Seeded bug: only frames that both arms have are compared.
FramesMatchCommon(pair) ==
    LET b == pair.baseline.frames
        d == pair.candidate.frames
    IN  \A t \in DOMAIN b \intersect DOMAIN d :
          <<b[t].segment, b[t].slice>> = <<d[t].segment, d[t].slice>>

\* The same frames with the same metadata, and the same frames of every cell.
FramesMatch(pair) ==
    LET b == pair.baseline.frames
        d == pair.candidate.frames
    IN  /\ DOMAIN b = DOMAIN d
        /\ \A t \in DOMAIN b : <<b[t].segment, b[t].slice>> = <<d[t].segment, d[t].slice>>
        /\ \A c \in Cell \ Timed : Selected(pair.baseline, c) = Selected(pair.candidate, c)

\* Ground truth of an average precision, per segment.
Truth(arm, tokens) ==
    [g \in {arm.frames[t].segment : t \in tokens} |->
        MapThenSumSet(LAMBDA t : arm.frames[t].truth, {t \in tokens : arm.frames[t].segment = g})]

SupportMatches(pair) ==
    \A c \in Cell \ Timed :
        LET e == Eligible(pair, c)
            b == ArmSupport(pair.baseline, e)
            d == ArmSupport(pair.candidate, e)
        IN  /\ <<b.edges, b.transitions, b.temporal>> = <<d.edges, d.transitions, d.temporal>>
            /\ c \in Ranked => Truth(pair.baseline, e) = Truth(pair.candidate, e)

\* The frames of a cell fall into as many segments in one arm as in the other; for
\* cells where they do not, comparing (a strict zip) or deciding raises.
SameSegmentCount(pair, c) ==
    LET e == Eligible(pair, c)
    IN  ArmSupport(pair.baseline, e).segments = ArmSupport(pair.candidate, e).segments

TrialsMatch(pair) ==
    \A c \in Timed : pair.baseline.blocks[c].all = pair.candidate.blocks[c].all

\* Pairs of valid blocks; an arm without blocks, or without common ones, counts as
\* ten invalid blocks.
ValidPairs(pair, c) ==
    Cardinality(pair.baseline.blocks[c].valid \intersect pair.candidate.blocks[c].valid)

\* A slice dimension that the registry does not know, on a frame of both arms.
UnknownSlice(pair) ==
    \E t \in DOMAIN pair.baseline.frames \intersect DOMAIN pair.candidate.frames :
        pair.baseline.frames[t].dimension \notin KnownSlices

Evidence(ch, pair) == [charter |-> ch, pair |-> pair]

-----------------------------------------------------------------------------
(***************************************************************************)
(* From gate evidence to a decision                                        *)
(***************************************************************************)

\* Reasons of failure: the checks that do not hold.
Failed(checks) == {k[1] : k \in {j \in checks : ~j[2]}}

\* What both arms claim of themselves is conjoined, their identities are kept apart,
\* and training on the holdout is asked of the candidate only.
IntegrityPayload(pair) ==
    LET b == pair.baseline
        d == pair.candidate
    IN  [claims |-> b.sound /\ d.sound, identities |-> <<b.identity, d.identity>>,
         holdout |-> d.holdout, frames |-> FramesMatch(pair),
         support |-> SupportMatches(pair),
         inputs |-> b.registry = Registry /\ d.registry = Registry]

IntegrityFailures(ch, pair) ==
    LET e == IntegrityPayload(pair)
    IN  Failed({<<"claims", e.claims>>, <<"identity", e.identities[1] = e.identities[2]>>,
                <<"registry", Registry = ch.registry>>, <<"holdout", ~e.holdout>>,
                <<"frames", e.frames>>, <<"support", e.support>>, <<"inputs", e.inputs>>})

\* Both arms' environments are kept, the budgets of the candidate.
RuntimePayload(pair) ==
    [baseline |-> pair.baseline.runtime, candidate |-> pair.candidate.runtime,
     trials |-> TrialsMatch(pair)]

InfrastructureFailures(ch, pair) ==
    LET e == RuntimePayload(pair)
        b == e.baseline
        d == e.candidate
    IN  Failed({<<"hardware", b.hardware = ch.hardware /\ d.hardware = ch.hardware>>,
                <<"environment", b.environment /\ d.environment>>,
                <<"provider", b.gpu /\ d.gpu>>,
                <<"protocol", b.protocol /\ d.protocol>>,
                <<"order", b.order = Schedule /\ d.order = Schedule>>,
                <<"trials", e.trials>>})

\* The absolute budgets are the candidate's: throughput, latencies, memory, long run.
PerformanceFailures(pair) == Failed({<<"budget", RuntimePayload(pair).candidate.budget>>})

\* _support_failure, for each class of cells.
Supported(pair, c) ==
    LET s == CellSupport(pair, c)
    IN  CASE Support[c] = "overall"      -> s.segments >= Floor.segments
          [] Support[c] = "slice"        -> s.segments >= Floor.sliceSegments
          [] Support[c] = "lane_control" -> s.segments >= Floor.segments /\ s.edges >= Floor.edges
          [] Support[c] = "temporal"     -> /\ s.transitions >= Floor.transitions
                                            /\ s.temporal >= Floor.temporal
          [] OTHER                       -> TRUE

\* _decision_from_interval.
IntervalStatus(i, margin) ==
    IF i.valid /\ i.lower >= -margin THEN "PASS"
    ELSE IF i.valid /\ i.upper < -margin THEN "FAIL_REGRESSION"
    ELSE "INSUFFICIENT_EVIDENCE"

\* paired_trial_bootstrap refuses too few valid pairs; what is a regression of an
\* accuracy is a performance failure of a runtime cell.
TimedStatus(ch, pair, c) ==
    LET s == IntervalStatus(pair.bounds[c], ch.margin[c])
    IN  IF ValidPairs(pair, c) < MinPairs THEN "BLOCKED_INFRASTRUCTURE"
        ELSE IF s = "FAIL_REGRESSION" THEN "FAIL_PERFORMANCE" ELSE s

\* A cell is estimated unless something before it stands against it.
Estimated(ch, pair, c) ==
    /\ IntegrityFailures(ch, pair) = {}
    /\ Support[c] = "runtime" => InfrastructureFailures(ch, pair) = {}
    /\ Supported(pair, c)

CellStatus(ch, pair, c) ==
    CASE IntegrityFailures(ch, pair) # {} -> "FAIL_INTEGRITY"
      [] IntegrityFailures(ch, pair) = {} /\ Support[c] = "runtime"
         /\ InfrastructureFailures(ch, pair) # {} -> "BLOCKED_INFRASTRUCTURE"
      [] Estimated(ch, pair, c) ->
           IF c \in Timed THEN TimedStatus(ch, pair, c)
           ELSE IntervalStatus(pair.bounds[c], ch.margin[c])
      [] OTHER -> "INSUFFICIENT_EVIDENCE"

\* Whether a hypothesis has an interval to be judged by.
Judged(ch, pair, c) ==
    /\ Estimated(ch, pair, c)
    /\ c \in Timed => ValidPairs(pair, c) >= MinPairs
    /\ pair.bounds[c].valid

HypothesisStatus(ch, pair, c) ==
    IF Judged(ch, pair, c) /\ pair.bounds[c].lower >= Goal[c] THEN "PASS"
    ELSE IF Judged(ch, pair, c) /\ pair.bounds[c].upper < Goal[c] THEN "FAIL_REGRESSION"
    ELSE "INSUFFICIENT_EVIDENCE"

\* decide_release: the statuses that the overall one is chosen from.
Findings(ch, pair) ==
    {CellStatus(ch, pair, c) : c \in Cell}
    \union {HypothesisStatus(ch, pair, c) : c \in DOMAIN Goal}
    \union {"FAIL_INTEGRITY" : r \in IntegrityFailures(ch, pair)}
    \union {"BLOCKED_INFRASTRUCTURE" : r \in InfrastructureFailures(ch, pair)}
    \union {"FAIL_PERFORMANCE" : r \in {q \in PerformanceFailures(pair) :
                IntegrityFailures(ch, pair) = {} /\ InfrastructureFailures(ch, pair) = {}}}

\* Seeded bug: the charter of the evidence is not compared.
DecidableAnyCharter(ch, e) == \A c \in Cell \ Timed : SameSegmentCount(e.pair, c)

\* decide_release refuses evidence of another charter and unpaired segments.
Decidable(ch, e) ==
    /\ e.charter = ch
    /\ \A c \in Cell \ Timed : SameSegmentCount(e.pair, c)

Decision(ch, e) ==
    [charter |-> ch, evidence |-> e, status |-> Overall(Findings(ch, e.pair))]

-----------------------------------------------------------------------------
(***************************************************************************)
(* gate freeze                                                             *)
(***************************************************************************)

Charter(b, r) == [margin |-> b.margin, registry |-> r, hardware |-> b.hardware]

\* _validate_freeze_evidence: E0, no holdout or candidate results, and no margin that
\* is wider than the draft's.
Freezable(b) == b.clean /\ \A c \in Cell : b.margin[c] <= DraftMargin[c]

Begin(p, where, what) ==
    /\ pc[p] = "idle" /\ runs < MaxRuns
    /\ runs' = runs + 1
    /\ pc' = [pc EXCEPT ![p] = where]
    /\ local' = [local EXCEPT ![p] = what]

Step(p, where, what) ==
    /\ pc' = [pc EXCEPT ![p] = where]
    /\ local' = [local EXCEPT ![p] = what]
    /\ UNCHANGED runs

\* The command is over, by its end, an exception or a kill.
Ends(p) == Step(p, "idle", None)

\* The output must not exist and the evidence must be good.
StartFreeze(p) ==
    /\ charter = None
    /\ \E b \in Baseline, r \in Registries : Freezable(b) /\ Begin(p, "freeze", Charter(b, r))
    /\ UNCHANGED <<arms, charter, stored, decision>>

\* A temporary file of mode 0444 takes the name of the output.
InstallCharter(p) ==
    /\ pc[p] = "freeze"
    /\ charter' = local[p]
    /\ Ends(p)
    /\ UNCHANGED <<arms, stored, decision>>

-----------------------------------------------------------------------------
(***************************************************************************)
(* compare                                                                 *)
(***************************************************************************)

\* The charter and both arms are loaded; a frame with an unknown slice raises.
StartCompare(p) ==
    /\ charter # None
    /\ \E pair \in arms :
         /\ ~UnknownSlice(pair)
         /\ \A c \in Ranked : SameSegmentCount(pair, c)
         /\ Begin(p, "evidence", Evidence(charter, pair))
    /\ UNCHANGED <<arms, charter, stored, decision>>

\* Slice table and evidence are put into the registry.
PutEvidence(p) ==
    /\ pc[p] = "evidence"
    /\ stored' = stored \union {[kind |-> "evidence", of |-> local[p]]}
    /\ Step(p, "decide", local[p])
    /\ UNCHANGED <<arms, charter, decision>>

\* decide_release loads the charter file again; the decision is put.
PutDecision(p) ==
    /\ pc[p] = "decide"
    /\ Decidable(charter, local[p])
    /\ LET d == Decision(charter, local[p])
       IN  /\ stored' = stored \union {[kind |-> "decision", of |-> d]}
           /\ Step(p, "report", d)
    /\ UNCHANGED <<arms, charter, decision>>

\* The metrics table and the report data name the status of the decision.
PutReport(p) ==
    /\ pc[p] = "report"
    /\ stored' = stored \union {[kind |-> "report", of |-> local[p]]}
    /\ Ends(p)
    /\ UNCHANGED <<arms, charter, decision>>

-----------------------------------------------------------------------------
(***************************************************************************)
(* gate decide                                                             *)
(***************************************************************************)

\* persist_decision: there must be no output yet.
StartDecide(p) ==
    /\ decision = None /\ charter # None
    /\ \E s \in stored : s.kind = "evidence" /\ Begin(p, "load", s.of)
    /\ UNCHANGED <<arms, charter, stored, decision>>

\* Charter and evidence are loaded and ten thousand replicates are drawn per cell.
Decide(p) ==
    /\ pc[p] = "load"
    /\ Decidable(charter, local[p])
    /\ Step(p, "install", Decision(charter, local[p]))
    /\ UNCHANGED <<arms, charter, stored, decision>>

\* The temporary file takes the name of the output, whatever is there by now.
InstallDecision(p) ==
    /\ pc[p] = "install"
    /\ decision' = local[p]
    /\ Ends(p)
    /\ UNCHANGED <<arms, charter, stored>>

\* A kill, a failing put, or evidence of another charter.
Fail(p) ==
    /\ pc[p] # "idle"
    /\ Ends(p)
    /\ UNCHANGED <<arms, charter, stored, decision>>

Next ==
    \E p \in Proc :
        \/ StartFreeze(p) \/ InstallCharter(p)
        \/ StartCompare(p) \/ PutEvidence(p) \/ PutDecision(p) \/ PutReport(p)
        \/ StartDecide(p) \/ Decide(p) \/ InstallDecision(p)
        \/ Fail(p)

Spec == Init /\ [][Next]_vars

-----------------------------------------------------------------------------

\* Every decision there is: in the registry, in the output file and on its way.
Decisions ==
    {s.of : s \in {r \in stored : r.kind \in {"decision", "report"}}}
    \union ({decision} \ {None})
    \union {local[p] : p \in {q \in Proc : pc[q] \in {"report", "install"}}}

\* What a PASS must mean, said of the arms and of the draft's policy: two arms of one
\* evaluator, data set and registry, neither trained on the holdout nor short of frames,
\* timed alike on the charter's hardware, whose every interval stays within a margin
\* that is no wider than the draft's and reaches the goals, with the support it needs.
Deserved(d) ==
    LET b  == d.evidence.pair.baseline
        k  == d.evidence.pair.candidate
        in == d.evidence.pair.bounds
    IN  /\ b.sound /\ k.sound /\ b.identity = k.identity /\ ~k.holdout
        /\ b.registry = d.charter.registry /\ k.registry = d.charter.registry
        /\ DOMAIN b.frames = DOMAIN k.frames
        /\ \A t \in DOMAIN b.frames : b.frames[t].segment = k.frames[t].segment
        /\ {b.runtime.hardware, k.runtime.hardware} = {d.charter.hardware}
        /\ b.runtime.environment /\ k.runtime.environment /\ k.runtime.budget
        /\ \A c \in Cell : in[c].valid /\ in[c].lower >= -DraftMargin[c]
        /\ \A c \in DOMAIN Goal : in[c].lower >= Goal[c]
        /\ \A c \in Timed : ValidPairs(d.evidence.pair, c) >= MinPairs
        /\ \A c \in Cell : Supported(d.evidence.pair, c)

\* The promise of the gate (docs/acceptance-charter.md): through the freeze, two loads
\* of the charter, the comparison and the decision, PASS is never given to a pair of
\* arms that does not deserve it.
PassIsEarned == \A d \in Decisions : d.status = "PASS" => Deserved(d)

\* Where the two arms do not allow a verdict.
Incomparable(d) ==
    \/ IntegrityFailures(d.charter, d.evidence.pair) # {}
    \/ InfrastructureFailures(d.charter, d.evidence.pair) # {}

\* A candidate is rejected for what it does, never for what broke around it: a
\* regression or a performance failure is an interval below its margin or goal, or a
\* budget, of two arms that can be compared (decision.py:331-341, 367-395).
RejectionIsFounded ==
    \A d \in Decisions :
        LET in == d.evidence.pair.bounds
            below(c) == in[c].valid /\ in[c].upper < -d.charter.margin[c]
        IN  /\ d.status = "FAIL_REGRESSION" =>
                 /\ ~Incomparable(d) /\ d.evidence.pair.candidate.runtime.budget
                 /\ \/ \E c \in Cell \ Timed : below(c) /\ Supported(d.evidence.pair, c)
                    \/ \E c \in DOMAIN Goal : in[c].valid /\ in[c].upper < Goal[c]
            /\ d.status = "FAIL_PERFORMANCE" =>
                 /\ ~Incomparable(d)
                 /\ \/ ~d.evidence.pair.candidate.runtime.budget
                    \/ \E c \in Timed : below(c) /\ ValidPairs(d.evidence.pair, c) >= MinPairs

\* A decision is one of the charter its evidence was derived under, whatever charter
\* was installed between the two loads (comparison.py:827, decision.py:345).
DecidedUnderItsCharter == \A d \in Decisions : d.charter = d.evidence.charter

-----------------------------------------------------------------------------
(* What is written and what commands hold in memory is derived, each from the last. *)

Charters == {Charter(b, r) : b \in {x \in Baseline : Freezable(x)}, r \in Registries}

Evidences == {Evidence(ch, pair) : ch \in Charters, pair \in UNION Pairs}

Verdicts == {Decision(e.charter, e) : e \in Evidences}

\* Kinds of documents, and what a document of a kind is.
Documents == [evidence |-> Evidences, decision |-> Verdicts, report |-> Verdicts]

\* What a command that has come so far holds.
Holds(where) ==
    CASE where = "freeze"                        -> Charters
      [] where \in {"evidence", "decide", "load"} -> Evidences
      [] where \in {"report", "install"}          -> Verdicts
      [] OTHER                                   -> {None}

GateInv ==
    /\ arms \subseteq UNION Pairs
    /\ charter \in Charters \union {None}
    /\ \A s \in stored : s.kind \in DOMAIN Documents /\ s.of \in Documents[s.kind]
    /\ decision \in Verdicts \union {None}
    /\ pc \in [Proc -> {"idle", "freeze", "evidence", "decide", "load", "report", "install"}]
    /\ DOMAIN local = Proc /\ \A p \in Proc : local[p] \in Holds(pc[p])
    /\ runs \in 0..MaxRuns
=============================================================================
