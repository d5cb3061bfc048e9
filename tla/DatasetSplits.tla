------------------------------ MODULE DatasetSplits ------------------------------
(***************************************************************************)
(* From the index of the dataset to the frames a training run may read:    *)
(* the order of the frames (data/openlane.py), the frame manifest and the  *)
(* frozen split of its segments (data/manifests.py), the frames of one     *)
(* partition (model/e0_data.py) and the audit of their capacities and      *)
(* source identities (data/audit.py).                                      *)
(*                                                                         *)
(* Names of splits, segments and domains are numbers in their order; a     *)
(* hash is what it is the hash of.                                         *)
(***************************************************************************)
EXTENDS Integers, SequencesExt, FiniteSetsExt

CONSTANTS
    TrainSplit,     \* source_split
    None

\* _REQUIRED_PARTITIONS in the order of the policy, and where their names come in the alphabet.
Partitions == <<"model_training", "model_selection", "calibration", "internal_holdout">>
Alphabetical == [p \in ToSet(Partitions) |->
    CASE p = "calibration" -> 1 [] p = "internal_holdout" -> 2
      [] p = "model_selection" -> 3 [] p = "model_training" -> 4]

\* The elements of a set in the order of Before.
Sorted(S, Before(_, _)) ==
    [k \in 1..Cardinality(S) |-> CHOOSE x \in S : Cardinality({y \in S : Before(y, x)}) = k - 1]

-----------------------------------------------------------------------------
(***************************************************************************)
(* The frames of the dataset.                                              *)
(***************************************************************************)

\* A lexical order on tuples of numbers.
Precedes(a, b) ==
    \E k \in DOMAIN a : a[k] < b[k] /\ \A j \in 1..(k - 1) : a[j] = b[j]

\* iter_identifiers: by split, by segment, by the number a timestamp's name reads as; two
\* names of one number (a leading zero) are not duplicates.  None when it raises.
Identifiers(index) ==
    LET names == {<<s.split, s.segment, t.number, t.zeros>> : <<s, t>> \in
                    UNION {{s} \X ToSet(s.timestamps) : s \in index}}
    IN  IF \E s \in index : ~IsInjective(s.timestamps) THEN None
        ELSE Sorted(names, Precedes)

Key(frame) == <<frame.split, frame.segment, frame.time>>

\* iter_frames: what the metadata of each of them says.
FramesOf(index, metadata) ==
    LET ids == Identifiers(index)
    IN  IF ids = None THEN None
        ELSE [k \in DOMAIN ids |->
                [split |-> ids[k][1], segment |-> ids[k][2], time |-> ids[k][3],
                 domain |-> metadata[SubSeq(ids[k], 1, 3)].domain,
                 source |-> metadata[SubSeq(ids[k], 1, 3)].source]]

StrictlyOrdered(frames) == \A k \in 1..(Len(frames) - 1) : Precedes(Key(frames[k]), Key(frames[k + 1]))

Identity(frame) == <<frame.domain, frame.source>>

\* The identity of a segment must not change within it.
OneIdentityPerSegment(frames) ==
    \A j, k \in DOMAIN frames :
        frames[j].split = frames[k].split /\ frames[j].segment = frames[k].segment =>
            Identity(frames[j]) = Identity(frames[k])

Catalog(frames) ==
    {[split |-> f.split, segment |-> f.segment, domain |-> f.domain, source |-> f.source] :
     f \in ToSet(frames)}

\* write_frame_records: the records and the metadata of their artifact, or None.
WriteFrameRecords(frames) ==
    IF frames = <<>> \/ ~OneIdentityPerSegment(frames) THEN None
    ELSE [records |-> frames, count |-> Len(frames), catalog |-> Catalog(frames),
          segments |-> Cardinality(Catalog(frames))]

\* verify_frame_records: the records again, against the metadata.
VerifyFrameRecords(records, metadata) ==
    /\ StrictlyOrdered(records) /\ OneIdentityPerSegment(records)
    /\ metadata.count = Len(records) /\ metadata.catalog = Catalog(records)

\* split_records_from_frame_metadata: the segments of the split the policy takes.
SplitRecords(metadata) ==
    IF metadata.segments # Cardinality(metadata.catalog) THEN None
    ELSE {[segment |-> r.segment, domain |-> r.domain] :
          r \in {c \in metadata.catalog : c.split = TrainSplit}}

-----------------------------------------------------------------------------
(***************************************************************************)
(* Apportionment.                                                          *)
(***************************************************************************)

\* The share of one domain in what remains of every partition: its floor, and what is left.
Shares(count, remaining, total) ==
    [p \in DOMAIN remaining |-> [floor |-> (count * remaining[p]) \div total,
                                 left |-> (count * remaining[p]) % total]]

\* One more where the most is left, then by name, among the partitions that have room.
RoundedUp(shares, open, unassigned) ==
    LET before(q, p) == \/ shares[q].left > shares[p].left
                        \/ shares[q].left = shares[p].left /\ Alphabetical[q] < Alphabetical[p]
    IN  [p \in DOMAIN shares |->
            IF p \in open /\ Cardinality({q \in open : before(q, p)}) < unassigned
            THEN shares[p].floor + 1 ELSE shares[p].floor]

Rounded(shares, count, remaining) ==
    RoundedUp(shares, {p \in DOMAIN remaining : shares[p].floor < remaining[p]},
              count - MapThenSumSet(LAMBDA p : shares[p].floor, DOMAIN remaining))

\* The row of one domain.
Shared(count, remaining) == Rounded(Shares(count, remaining, SumFunction(remaining)), count, remaining)

Minus(before, row) == [p \in DOMAIN before |-> before[p] - row[p]]

\* The capacities the d-th domain finds.
Remaining(counts, allocation) ==
    LET remaining[d \in DOMAIN counts] ==
            IF d = 1 THEN allocation
            ELSE Minus(remaining[d - 1], Shared(counts[d - 1], remaining[d - 1]))
    IN  remaining

\* The rows of the domains: the last one takes what remains.
Rows(counts, remaining) ==
    [d \in DOMAIN counts |-> IF d = Len(counts) THEN remaining[d] ELSE Shared(counts[d], remaining[d])]

Exact(rows, counts, remaining) ==
    \A d \in DOMAIN counts : /\ SumFunction(rows[d]) = counts[d]
                             /\ \A p \in DOMAIN rows[d] : rows[d][p] <= remaining[d][p]

Apportioned(counts, remaining) ==
    IF Exact(Rows(counts, remaining), counts, remaining) THEN Rows(counts, remaining) ELSE None

\* _hamilton_counts over the domains in order; None when a row does not add up.
HamiltonCounts(counts, allocation) == Apportioned(counts, Remaining(counts, allocation))

\* _segment_score is a hash: any order of the segments of a domain.
ByScore(segments, score) == Sorted(segments, LAMBDA s, t : score[s] < score[t])

\* The segments of a domain a partition gets: a slice of them in the order of their scores.
Slice(ordered, row, k) ==
    LET offset == MapThenSumSet(LAMBDA j : row[Partitions[j]], 1..(k - 1))
    IN  ToSet(SubSeq(ordered, offset + 1, offset + row[Partitions[k]]))

\* freeze_split_manifest up to its own audit: partitions of whole segments.
Frozen(records, allocation, score) ==
    LET domains == Sorted({r.domain : r \in records}, <)
        of(d) == {r.segment : r \in {x \in records : x.domain = domains[d]}}
        rows == HamiltonCounts([d \in DOMAIN domains |-> Cardinality(of(d))], allocation)
        segments(k) == UNION {Slice(ByScore(of(d), score), rows[d], k) : d \in DOMAIN domains}
        domainOf(s) == (CHOOSE r \in records : r.segment = s).domain
        counts(S) == [d \in {domainOf(s) : s \in S} |-> Cardinality({s \in S : domainOf(s) = d})]
    IN  IF \/ Cardinality(records) # SumFunction(allocation) \/ records = {}
           \/ Cardinality({r.segment : r \in records}) # Cardinality(records)
           \/ rows = None
        THEN None
        ELSE [catalog |-> records,
              partitions |-> [k \in DOMAIN Partitions |->
                 [segments |-> ByScore(segments(k), score), count |-> Cardinality(segments(k)),
                  domains |-> counts(segments(k))]]]

\* freeze-splits: the records are verified before they are frozen.
WithManifest(frames, written, allocation, score) ==
    [frames |-> frames, written |-> written,
     manifest |-> IF written = None THEN None
                  ELSE IF VerifyFrameRecords(written.records, written)
                  THEN Frozen(SplitRecords(written), allocation, score)
                  ELSE None]

\* The index of the dataset, written as records and frozen into a manifest.
WithRecords(frames, allocation, score) ==
    WithManifest(frames, IF frames = None THEN None ELSE WriteFrameRecords(frames), allocation, score)

Pipeline(index, metadata, allocation, score) ==
    WithRecords(FramesOf(index, metadata), allocation, score)

\* audit_split_manifest: exact sizes, known segments, honest counts, no overlap, all covered.
AuditAccepts(manifest, allocation) ==
    LET ids == {r.segment : r \in manifest.catalog}
        domainOf(s) == (CHOOSE r \in manifest.catalog : r.segment = s).domain
        part(k) == manifest.partitions[k]
        counts(k) == [d \in {domainOf(s) : s \in ToSet(part(k).segments)} |->
                        Cardinality({s \in ToSet(part(k).segments) : domainOf(s) = d})]
    IN  /\ Cardinality(manifest.catalog) = SumFunction(allocation)
        /\ Cardinality(ids) = Cardinality(manifest.catalog)
        /\ \A k \in DOMAIN Partitions :
             /\ IsInjective(part(k).segments)
             /\ Len(part(k).segments) = allocation[Partitions[k]]
             /\ part(k).count = Len(part(k).segments)
             /\ ToSet(part(k).segments) \subseteq ids
             /\ part(k).domains = counts(k)
        /\ \A j, k \in DOMAIN Partitions : j # k =>
             ToSet(part(j).segments) \cap ToSet(part(k).segments) = {}
        /\ UNION {ToSet(part(k).segments) : k \in DOMAIN Partitions} = ids

\* load_partition_isolation: what a reader of the partition may read and must not.
Isolation(manifest, allocation, partition, statistics) ==
    LET k == CHOOSE j \in DOMAIN Partitions : Partitions[j] = partition
    IN  IF \/ ~AuditAccepts(manifest, allocation)
           \/ partition \notin {"model_training", "model_selection"}
           \/ statistics /\ partition # "model_training"
        THEN None
        ELSE [segments |-> ToSet(manifest.partitions[k].segments),
              forbidden |-> UNION {ToSet(manifest.partitions[j].segments) : j \in DOMAIN Partitions \ {k}}]

\* iter_partition_frames: the frames of the partition, or None when a segment has none.
PartitionFrames(frames, isolation) ==
    LET mine == SelectSeq(frames, LAMBDA f : f.split = TrainSplit /\ f.segment \in isolation.segments)
    IN  IF {f.segment : f \in ToSet(mine)} # isolation.segments THEN None ELSE mine

-----------------------------------------------------------------------------
(***************************************************************************)
(* The audit of one type of object over the frames: each frame has its     *)
(* objects in order, with a source identity, a signature and a centroid.   *)
(***************************************************************************)

\* A delta is too large; a centroid that is not finite is None.
Breaks(a, b, threshold) ==
    IF a = None \/ b = None THEN TRUE ELSE a - b > threshold \/ b - a > threshold

State(evidence) ==
    IF evidence.collisions > 0 \/ evidence.reuse > 0 THEN "contract failure"
    ELSE IF evidence.breaks > 0 THEN "discontinuity"
    ELSE IF evidence.persistent = 0 THEN "no persistent ids" ELSE "enabled"

Repeats(frame) ==
    Len(frame.objects) - Cardinality({frame.objects[k].id : k \in DOMAIN frame.objects})

\* audit_identities: with all frames at hand, the occurrences of every source identity in
\* its segment, by time.
IdentityEvidence(frames, threshold) ==
    LET all == FlattenSeq([f \in DOMAIN frames |->
                  [k \in DOMAIN frames[f].objects |->
                     [of |-> <<frames[f].split, frames[f].segment, frames[f].objects[k].id>>,
                      object |-> frames[f].objects[k]]]])
        ids == {all[k].of : k \in DOMAIN all}
        history(i) == SelectSeq(all, LAMBDA o : o.of = i)
        breaks(i) == Cardinality({k \in 1..(Len(history(i)) - 1) :
                        Breaks(history(i)[k].object.at, history(i)[k + 1].object.at, threshold)})
    IN  [objects |-> Len(all), unique |-> Cardinality(ids),
         persistent |-> Cardinality({i \in ids : Len(history(i)) > 1}),
         collisions |-> MapThenSumSet(LAMBDA f : Repeats(frames[f]), DOMAIN frames),
         reuse |-> Cardinality({i \in ids :
                      Cardinality({o.object.signature : o \in ToSet(history(i))}) > 1}),
         breaks |-> MapThenSumSet(breaks, ids)]

\* _StreamingIdentityState.consume, one object of a frame.
ConsumeObject(state, o, threshold) ==
    IF o.id \notin DOMAIN state.history
    THEN [state EXCEPT !.objects = @ + 1, !.unique = @ + 1,
                       !.history = (o.id :> [seen |-> 1, signature |-> o.signature, at |-> o.at,
                                             reused |-> FALSE]) @@ @]
    ELSE LET h == state.history[o.id]
             changed == o.signature # h.signature
         IN  [state EXCEPT !.objects = @ + 1,
                           !.persistent = IF h.seen = 1 THEN @ + 1 ELSE @,
                           !.reuse = IF changed /\ ~h.reused THEN @ + 1 ELSE @,
                           !.breaks = IF Breaks(h.at, o.at, threshold) THEN @ + 1 ELSE @,
                           !.history[o.id] = [seen |-> h.seen + 1, signature |-> o.signature,
                                              at |-> o.at, reused |-> h.reused \/ changed]]

\* The rest of consume: a new segment forgets the history of the one before.
ConsumeFrame(state, frame, threshold) ==
    LET group == <<frame.split, frame.segment>>
        fresh == IF state.group = group THEN state
                 ELSE [state EXCEPT !.group = group, !.history = <<>>]
        seen == FoldLeft(LAMBDA s, o : ConsumeObject(s, o, threshold), fresh, frame.objects)
    IN  [seen EXCEPT !.collisions = @ + Repeats(frame)]

\* audit_report: in one pass, over frames in strict order; None when they are not.
StreamedEvidence(frames, threshold) ==
    LET start == [objects |-> 0, unique |-> 0, persistent |-> 0, collisions |-> 0, reuse |-> 0,
                  breaks |-> 0, group |-> <<0, 0>>, history |-> <<>>]
        end == FoldLeft(LAMBDA s, f : ConsumeFrame(s, f, threshold), start, frames)
    IN  IF frames = <<>> \/ ~StrictlyOrdered(frames) THEN None
        ELSE [k \in DOMAIN end \ {"group", "history"} |-> end[k]]

-----------------------------------------------------------------------------
(***************************************************************************)
(* What the data pipeline promises.                                        *)
(***************************************************************************)

\* What the domains before the d-th left of every partition.
LeftBefore(rows, allocation, d) ==
    [p \in DOMAIN allocation |-> allocation[p] - SumFunction([e \in 1..(d - 1) |-> rows[e][p]])]

IsProportional(row, count, left) ==
    \A total \in {SumFunction(left)} : \A p \in DOMAIN row :
        /\ row[p] * total > count * left[p] - total
        /\ row[p] * total < count * left[p] + total

\* Every domain is spread over the partitions exactly, each of its shares within one of
\* what is proportional to what the domains before it left, and never more than that.
ApportionmentIsExact(counts, allocation, rows) ==
    /\ rows # None
    /\ \A d \in DOMAIN counts : SumFunction(rows[d]) = counts[d]
    /\ \A p \in DOMAIN allocation : SumFunction([d \in DOMAIN counts |-> rows[d][p]]) = allocation[p]
    /\ \A d \in DOMAIN counts : IsProportional(rows[d], counts[d], LeftBefore(rows, allocation, d))

\* The audit accepts the manifests that are an exact, disjoint and complete partition
\* with honest counts, and whoever reads one of its partitions reads no other.
AuditIsExact(manifest, allocation) ==
    LET segments(k) == ToSet(manifest.partitions[k].segments)
        read(p) == Isolation(manifest, allocation, p, FALSE)
    IN  AuditAccepts(manifest, allocation) =>
          /\ \A r \in manifest.catalog :
               Cardinality({k \in DOMAIN Partitions : r.segment \in segments(k)}) = 1
          /\ \A k \in DOMAIN Partitions : Cardinality(segments(k)) = allocation[Partitions[k]]
          /\ read("calibration") = None /\ read("internal_holdout") = None
          /\ read("model_training").segments \cap read("model_selection").segments = {}
          /\ read("model_training").segments \cap read("model_training").forbidden = {}

\* From the index to the readers: the records verify unless two names read as one time,
\* the split that is frozen passes its audit, training and selection read whole segments
\* of the right split, and no frame is read by both.
PipelineIsSound(frames, written, manifest, allocation) ==
    LET read(p) == PartitionFrames(frames, Isolation(manifest, allocation, p, FALSE))
    IN  written # None =>
          /\ VerifyFrameRecords(written.records, written) <=>
               (\A j, k \in DOMAIN frames : Key(frames[j]) = Key(frames[k]) => j = k)
          /\ manifest # None <=> /\ VerifyFrameRecords(written.records, written)
                                 /\ Cardinality(SplitRecords(written)) = SumFunction(allocation)
                                 /\ SplitRecords(written) # {}
          /\ manifest # None =>
               /\ AuditAccepts(manifest, allocation)
               /\ \A p \in {"model_training", "model_selection"} :
                    /\ read(p) # None
                    /\ \A f \in ToSet(read(p)) : f.split = TrainSplit
                    /\ \A f \in ToSet(frames) : \A g \in ToSet(read(p)) :
                         f.split = TrainSplit /\ f.segment = g.segment => f \in ToSet(read(p))
               /\ ToSet(read("model_training")) \cap ToSet(read("model_selection")) = {}

\* The report made in one pass, forgetting every segment behind it, is the one made with
\* all frames at hand.
StreamingLosesNothing(frames, threshold) ==
    LET streamed == StreamedEvidence(frames, threshold)
        whole == IdentityEvidence(frames, threshold)
    IN  streamed # None => streamed = whole /\ State(streamed) = State(whole)
=============================================================================
