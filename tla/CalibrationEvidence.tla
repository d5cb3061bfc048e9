-------------------------- MODULE CalibrationEvidence --------------------------
(***************************************************************************)
(* The calibration, uncertainty and runtime evidence of                    *)
(* python/junctionlens/evaluator/evidence.py, in whole numbers: a          *)
(* probability is one of 0..One, a mean is a sum beside its count, and a   *)
(* loss is the probability it is the logarithm of.                         *)
(***************************************************************************)
EXTENDS Integers, Sequences, FiniteSets, Functions, FiniteSetsExt

CONSTANTS
    One,        \* the probability one; every other is far from the clips of the loss
    Half,       \* the probability one half
    Bins,       \* the default of adaptive_ece, 15
    Common,     \* a multiple of every population's size
    Log10       \* the logarithm of ten

Abs(x) == IF x < 0 THEN -x ELSE x

Total(f) == SumFunction(f)

\* sorted: the indices of a population in the order Before gives, which is total.
Sorted(n, Before(_, _)) ==
    [k \in 1..n |-> CHOOSE i \in 1..n : Cardinality({j \in 1..n : Before(j, i)}) = k - 1]

\* _quantile, times a hundred: linear between the two values around the position.
Quantile(values, percent) ==
    LET n == Len(values)
        ordered == Sorted(n, LAMBDA i, j : values[i] < values[j] \/ (values[i] = values[j] /\ i < j))
        position == (n - 1) * percent
        lower == position \div 100
        upper == (position + 99) \div 100
        fraction == position % 100
    IN  values[ordered[lower + 1]] * (100 - fraction) + values[ordered[upper + 1]] * fraction

-----------------------------------------------------------------------------
(***************************************************************************)
(* Populations: items with an id, a confidence, and whether it was right;  *)
(* binary ones with a probability and an outcome, 0 or 1; ones of many     *)
(* classes with a row of probabilities and the class that came out.        *)
(***************************************************************************)

\* binary_brier: the squares, summed.
BinaryBrier(items) == Total([k \in DOMAIN items |-> (items[k].p - One * items[k].outcome) ^ 2])

\* multiclass_brier.
MulticlassBrier(items) ==
    Total([k \in DOMAIN items |->
             Total([c \in DOMAIN items[k].row |->
                      (items[k].row[c] - IF c = items[k].outcome THEN One ELSE 0) ^ 2])])

Saturates(p) == p \in {0, One}

\* binary_nll: the probabilities whose logarithm is averaged, and how many were clipped.
BinaryNll(items) ==
    [of |-> [k \in DOMAIN items |-> IF items[k].outcome = 1 THEN items[k].p ELSE One - items[k].p],
     saturated |-> Cardinality({k \in DOMAIN items : Saturates(items[k].p)})]

\* multiclass_nll.
MulticlassNll(items) ==
    LET target == [k \in DOMAIN items |-> items[k].row[items[k].outcome]]
    IN  [of |-> target, saturated |-> Cardinality({k \in DOMAIN items : Saturates(target[k])})]

\* adaptive_ece: the ranks of one bin after another, equal in number, the first ones with
\* one more; as the sets of items.
CalibrationBins(items, most) ==
    LET n == Len(items)
        ordered == Sorted(n, LAMBDA i, j : \/ items[i].confidence < items[j].confidence
                                           \/ /\ items[i].confidence = items[j].confidence
                                              /\ items[i].id < items[j].id)
        count == Min({most, n})
        offset(b) == (b - 1) * (n \div count) + Min({b - 1, n % count})
    IN  [b \in 1..count |-> {ordered[k] : k \in (offset(b) + 1)..offset(b + 1)}]

\* How far confidence and correctness are apart over some items.
Gap(items, S) ==
    Abs(Total([k \in S |-> items[k].confidence]) - One * Total([k \in S |-> items[k].correct]))

\* The error of adaptive_ece, times One and the number of items.
AdaptiveEce(items, most) ==
    LET bins == CalibrationBins(items, most)
    IN  Total([b \in DOMAIN bins |-> Gap(items, bins[b])])

\* aurc of errors in an order, times 2 n Common: the trapezoids from the origin.
AreaOf(errors) ==
    LET n == Len(errors)
        risk == [k \in 0..n |-> IF k = 0 THEN 0
                                ELSE Total([i \in 1..k |-> errors[i]]) * (Common \div k)]
    IN  Total([k \in 1..n |-> risk[k] + risk[k - 1]])

\* The items by confidence, the highest first.
Ranked(items) ==
    Sorted(Len(items), LAMBDA i, j : \/ items[i].confidence > items[j].confidence
                                     \/ /\ items[i].confidence = items[j].confidence
                                        /\ items[i].id < items[j].id)

Aurc(items) == AreaOf([k \in DOMAIN items |-> 1 - items[Ranked(items)[k]].correct])

\* The binary population of evaluate_calibration_file, as the error and as the area see it:
\* the probability of the outcome 1 is the confidence of both.
OfOutcome(items) ==
    [k \in DOMAIN items |-> [id |-> items[k].id, confidence |-> items[k].p, correct |-> items[k].outcome]]
OfDecision(items) ==
    [k \in DOMAIN items |->
       [id |-> items[k].id, confidence |-> items[k].p,
        correct |-> IF (items[k].p >= Half) = (items[k].outcome = 1) THEN 1 ELSE 0]]

\* The first of the most probable classes.
Argmax(row) ==
    CHOOSE c \in DOMAIN row : \A d \in DOMAIN row : row[d] < row[c] \/ (row[d] = row[c] /\ c <= d)

OfClass(items) ==
    [k \in DOMAIN items |->
       LET row == items[k].row
       IN  [id |-> items[k].id, confidence |-> row[Argmax(row)],
            correct |-> IF Argmax(row) = items[k].outcome THEN 1 ELSE 0]]

\* evaluate_calibration_file on the two kinds of outcomes; the ids of each are distinct.
BinaryEvidence(items) ==
    [ece |-> AdaptiveEce(OfOutcome(items), Bins), aurc |-> Aurc(OfDecision(items)),
     brier |-> BinaryBrier(items), saturated |-> BinaryNll(items).saturated]

MulticlassEvidence(items) ==
    [ece |-> AdaptiveEce(OfClass(items), Bins), aurc |-> Aurc(OfClass(items)),
     brier |-> MulticlassBrier(items), saturated |-> MulticlassNll(items).saturated]

\* geometry_uncertainty.
Uncertainty(items) ==
    LET width == [k \in DOMAIN items |-> 2 * items[k].scale * items[k].factor * Log10]
    IN  [covered |-> Cardinality({k \in DOMAIN items : 2 * Abs(items[k].residual) <= width[k]}),
         median |-> Quantile(width, 50), p90 |-> Quantile(width, 90)]

\* MarginalLaplaceCoverage90 of cpp/src/eval/metrics.cpp.
NativeCovered(items) ==
    Cardinality({k \in DOMAIN items :
                   Abs(items[k].residual) <= items[k].scale * items[k].factor * Log10})

-----------------------------------------------------------------------------
(***************************************************************************)
(* Samples of the runtime: a phase, a kind, an iteration, a duration.      *)
(***************************************************************************)

Durations(samples, phase, kind) ==
    LET of == SelectSeq(samples, LAMBDA s : s.phase = phase /\ s.kind = kind)
    IN  [k \in DOMAIN of |-> of[k].ms]

Summary(values) ==
    [count |-> Len(values), sum |-> Total(values),
     minimum |-> Min({values[k] : k \in DOMAIN values}), median |-> Quantile(values, 50),
     p90 |-> Quantile(values, 90), p95 |-> Quantile(values, 95), p99 |-> Quantile(values, 99),
     maximum |-> Max({values[k] : k \in DOMAIN values})]

Phases(samples) == {samples[k].phase : k \in DOMAIN samples}

\* What runtime_distributions refuses: a sample twice, a phase that was never measured.
RuntimeAccepts(samples) ==
    /\ samples # <<>>
    /\ \A i, j \in DOMAIN samples :
         samples[i].phase = samples[j].phase /\ samples[i].kind = samples[j].kind
         /\ samples[i].iteration = samples[j].iteration => i = j
    /\ \A phase \in Phases(samples) : Durations(samples, phase, "measured") # <<>>

\* runtime_distributions of each phase; the throughput is the count over the sum.
RuntimeDistributions(samples) ==
    [phase \in Phases(samples) |->
       LET warmup == Durations(samples, phase, "warmup")
       IN  [measured |-> Summary(Durations(samples, phase, "measured")),
            warmup |-> IF warmup = <<>> THEN {} ELSE {Summary(warmup)}]]

-----------------------------------------------------------------------------
(***************************************************************************)
(* What the evidence promises.                                             *)
(***************************************************************************)

Orders(n) == {o \in [1..n -> 1..n] : IsInjective(o)}

\* docs/calibration-runtime-evidence.md: the order of the input changes nothing.
OrderIsIrrelevant(items, Evidence(_)) ==
    \A o \in Orders(Len(items)) : Evidence([k \in DOMAIN items |-> items[o[k]]]) = Evidence(items)

\* The bins hold every item once, differ by one in number at most, and rise in confidence;
\* their error lies between that of one bin and that of a bin for every item.
BinsAreHonest(items) ==
    \A most \in 1..Len(items) :
        LET bins == CalibrationBins(items, most)
            size == [b \in DOMAIN bins |-> Cardinality(bins[b])]
        IN  /\ UNION {bins[b] : b \in DOMAIN bins} = DOMAIN items /\ Total(size) = Len(items)
            /\ \A b, c \in DOMAIN bins : b < c =>
                 /\ size[b] - size[c] \in 0..1
                 /\ \A i \in bins[b], j \in bins[c] : items[i].confidence <= items[j].confidence
            /\ Gap(items, DOMAIN items) <= AdaptiveEce(items, most)
            /\ AdaptiveEce(items, most) <= Total([k \in DOMAIN items |-> Gap(items, {k})])

\* The area is least when no error is more confident than a right answer, and greatest
\* when no right answer is more confident than an error; ties aside.
AreaRewardsRanking(items) ==
    LET wrong == {k \in DOMAIN items : items[k].correct = 0}
        areas == {AreaOf([k \in DOMAIN items |-> 1 - items[o[k]].correct]) : o \in Orders(Len(items))}
        above(S, T) == \A i \in S, j \in T : items[i].confidence > items[j].confidence
    IN  /\ above((DOMAIN items) \ wrong, wrong) => Aurc(items) = Min(areas)
        /\ above(wrong, (DOMAIN items) \ wrong) => Aurc(items) = Max(areas)

\* A binary population and the same one written with two classes, the outcome 1 first: twice
\* the squares, the same losses, clipped as often, and the same decisions, for at one half the
\* first class is the one both take.
TwoClassesAgree(binary) ==
    LET two == [k \in DOMAIN binary |->
                  [id |-> binary[k].id, row |-> <<binary[k].p, One - binary[k].p>>,
                   outcome |-> 2 - binary[k].outcome]]
    IN  /\ MulticlassBrier(two) = 2 * BinaryBrier(binary)
        /\ BinaryNll(binary) = MulticlassNll(two)
        /\ \A k \in DOMAIN binary : OfDecision(binary)[k].correct = OfClass(two)[k].correct
        /\ (\A k \in DOMAIN binary : binary[k].p >= Half) =>
             /\ Aurc(OfDecision(binary)) = Aurc(OfClass(two))
             /\ AdaptiveEce(OfOutcome(binary), Bins) = AdaptiveEce(OfClass(two), Bins)

\* Python and C++ count the same residuals as covered, the boundary among them; a wider
\* interval covers no fewer.
CoverageAgrees(items) ==
    LET wider == [k \in DOMAIN items |-> [items[k] EXCEPT !.factor = @ + 1]]
    IN  /\ Uncertainty(items).covered = NativeCovered(items)
        /\ Uncertainty(items).covered <= Uncertainty(wider).covered
        /\ Uncertainty(items).median <= Uncertainty(items).p90
        /\ Uncertainty(items).p90 <= Uncertainty(wider).p90

BinaryIsSound(items) ==
    /\ OrderIsIrrelevant(items, BinaryEvidence)
    /\ BinsAreHonest(OfOutcome(items)) /\ AreaRewardsRanking(OfDecision(items))
    /\ TwoClassesAgree(items)

MulticlassIsSound(items) ==
    /\ OrderIsIrrelevant(items, MulticlassEvidence)
    /\ BinsAreHonest(OfClass(items)) /\ AreaRewardsRanking(OfClass(items))

\* No warmup enters what was measured, no order of the samples changes the evidence, and the
\* quantiles of a summary rise from its minimum to its maximum.
RuntimeIsSound(samples) ==
    RuntimeAccepts(samples) =>
        LET evidence == RuntimeDistributions(samples)
            cold == SelectSeq(samples, LAMBDA s : s.kind = "measured")
        IN  /\ \A phase \in DOMAIN evidence :
                 /\ RuntimeDistributions(cold)[phase].measured = evidence[phase].measured
                 /\ \A s \in {evidence[phase].measured} \union evidence[phase].warmup :
                      /\ 100 * s.minimum <= s.median /\ s.median <= s.p90 /\ s.p90 <= s.p95
                      /\ s.p95 <= s.p99 /\ s.p99 <= 100 * s.maximum
                      /\ s.count * s.minimum <= s.sum /\ s.sum <= s.count * s.maximum
            /\ RuntimeAccepts(cold)
            /\ \A o \in Orders(Len(samples)) :
                 RuntimeDistributions([k \in DOMAIN samples |-> samples[o[k]]]) = evidence
=============================================================================
