------------------------------ MODULE NativeRuntime ------------------------------
(***************************************************************************)
(* The native runtime (cpp/runtime/main.cpp, cpp/src/infer) and the Python *)
(* sides that start it and read what it leaves behind                      *)
(* (python/junctionlens/runtime/launcher.py and benchmark.py).             *)
(*                                                                         *)
(* A process loads a model, checks where ONNX Runtime placed its nodes,    *)
(* and takes the frames of an input list one by one through a slot of its  *)
(* buffer pool: decoded together with the frame before it, preprocessed,   *)
(* inferred, and written to the output directory under a name of its own.  *)
(* A benchmark repeats the list and samples what it measures instead.  A   *)
(* process may fail at any step, or be killed, and be launched again on    *)
(* the same directory.                                                     *)
(*                                                                         *)
(* A frame is [segment, ts, pose]: its sequence, its timestamp and whether *)
(* its pose is valid.  The graph of an output is the pair of frames it was *)
(* inferred from.  One process runs at a time.                             *)
(***************************************************************************)
EXTENDS Integers, SequencesExt, FiniteSetsExt

CONSTANTS
    Jobs,        \* what may be launched: [mode, list, profile, messages, protocol]
    Capacity,    \* --buffer-slots
    MaxLaunches, \* bound: processes launched
    None

ASSUME RuntimeConstants ==
    /\ Capacity \in Nat \ {0} /\ MaxLaunches \in Nat
    /\ None \notin 1..Capacity /\ None \notin Jobs
    /\ \A j \in Jobs : j.list \in Seq(ToSet(j.list)) /\ None \notin ToSet(j.list)
                      /\ j.messages \in Seq(ToSet(j.messages))

\* A benchmark's protocol, as benchmark.py declares it.
ASSUME ProtocolConstants ==
    \A j \in Jobs : j.mode = "benchmark" =>
       /\ j.protocol.warmup \in Nat /\ j.protocol.measured \in Nat \ {0}
       /\ j.protocol.stability \in Nat \ {0} /\ j.protocol.period \in Nat \ {0}

VARIABLES
    disk,     \* what outlives a process: [outputs, temporary, log, report]
    process,  \* the process launched last
    pool,     \* its buffer pool: [states, depth, high]
    accepted  \* the batches and the benchmarks the Python side accepted

vars == <<disk, process, pool, accepted>>

-----------------------------------------------------------------------------
(* BufferPool. *)

Slots == 1..Capacity

\* ExpectedNext.
Successor == [DECODING |-> "PREPROCESSING", PREPROCESSING |-> "INFERENCE",
              INFERENCE |-> "POSTPROCESSING", POSTPROCESSING |-> "SERIALIZING"]

States == {"FREE", "SERIALIZING"} \union DOMAIN Successor

EmptyPool == [states |-> [s \in Slots |-> "FREE"], depth |-> 0, high |-> 0]

FreeSlots == {s \in Slots : pool.states[s] = "FREE"}

Larger(a, b) == IF a < b THEN b ELSE a

\* Acquire, by the first free slot.
Acquired(s) == [states |-> [pool.states EXCEPT ![s] = "DECODING"],
                depth |-> pool.depth + 1, high |-> Larger(pool.high, pool.depth + 1)]

MayAdvance(s, next) ==
    pool.states[s] \in DOMAIN Successor /\ Successor[pool.states[s]] = next

Advanced(s, next) == [pool EXCEPT !.states[s] = next]

\* Seeded bug: a slot is given back and the depth is not.
ReleasedDepthKept(s) ==
    IF s # None /\ pool.states[s] # "FREE" THEN [pool EXCEPT !.states[s] = "FREE"] ELSE pool

\* Release, of a lease or of none.
Released(s) ==
    IF s # None /\ pool.states[s] # "FREE"
    THEN [pool EXCEPT !.states[s] = "FREE", !.depth = @ - 1]
    ELSE pool

AllFree == pool.depth = 0 /\ FreeSlots = Slots

-----------------------------------------------------------------------------
(***************************************************************************)
(* Provider assignment.  A message is [kind, provider, nodes]: the heading *)
(* of the placements, a provider with the number of its nodes, the name of *)
(* a node, or another message.                                             *)
(***************************************************************************)

Providers == {"cpu", "cuda", "tensorrt"}

\* ProviderLogCollector::Capture: what follows a heading, up to any other message, each
\* message at the place where it was sent.
Collected(messages) ==
    LET isKept(k) == \E h \in 1..k :
            /\ messages[h].kind = "heading"
            /\ \A j \in h..k : messages[j].kind # "other"
    IN  Restrict(messages, {k \in DOMAIN messages : isKept(k)})

\* ParseProviderAssignmentLog: each provider once, and with nodes.
IsAssignment(log) ==
    LET counts == {k \in DOMAIN log : log[k].kind = "provider"}
    IN  /\ counts # {}
        /\ \A k \in counts : log[k].nodes > 0
        /\ \A j, k \in counts : log[j].provider = log[k].provider => j = k

Assigned(log) == {log[k].provider : k \in {j \in DOMAIN log : log[j].kind = "provider"}}

\* ValidateProfileAssignment.
FitsProfile(used, profile) ==
    \/ profile = "cpu" /\ used = {"cpu"}
    \/ profile = "cuda" /\ used = {"cuda"}
    \/ profile = "tensorrt" /\ "tensorrt" \in used /\ used \subseteq {"tensorrt", "cuda"}

Loads(j) ==
    LET log == Collected(j.messages)
    IN  IsAssignment(log) /\ FitsProfile(Assigned(log), j.profile)

-----------------------------------------------------------------------------
(* Frames. *)

\* Seeded bug: any later frame continues the sequence.
SameSequenceLater(f, g) == f.ts < g.ts

\* SameSequence.
SameSequence(f, g) == f.segment = g.segment /\ f.ts < g.ts

\* TemporalPairIsValid: what Preprocess makes of the frame before.
PairWith(f, g) ==
    IF f # None /\ SameSequence(f, g) /\ f.pose /\ g.pose THEN f ELSE None

\* The name of an output: its place in the list and the timestamp of its frame.
Path(k, f) == <<k, f.ts>>

\* RunBenchmark: the frames of all phases, and the phase and number of a sample.
Total(protocol) == protocol.warmup + protocol.measured + protocol.stability

\* Seeded bug: the last frame of the stability phase is not sampled.
SampledStabilityNotLast(protocol, processed) ==
    processed = 1 \/ processed % protocol.period = 0

SampledStability(protocol, processed) ==
    processed = 1 \/ processed % protocol.period = 0 \/ processed = protocol.stability

Sample(protocol, n, pair) ==
    IF n < protocol.warmup THEN {<<"warmup", n, pair>>}
    ELSE IF n < protocol.warmup + protocol.measured
         THEN {<<"measured", n - protocol.warmup, pair>>}
    ELSE LET processed == n - protocol.warmup - protocol.measured + 1
         IN  IF SampledStability(protocol, processed)
             THEN {<<"stability", processed - 1, pair>>} ELSE {}

-----------------------------------------------------------------------------
Idle == [id |-> 0, pc |-> "ended", job |-> None, n |-> 0, lease |-> None, previous |-> None,
         current |-> None, pair |-> None, cache |-> <<>>, samples |-> {}]

Init ==
    /\ disk = [outputs |-> <<>>, temporary |-> {}, log |-> FALSE, report |-> FALSE]
    /\ process = Idle
    /\ pool = EmptyPool
    /\ accepted = {}

job == process.job
list == process.job.list
IsBenchmark == job.mode = "benchmark"
IsPredecoded == IsBenchmark /\ job.protocol.profile = "predecoded"
Frame(n) == list[(n % Len(list)) + 1]

At(pc) == process.pc = pc
Goto(pc) == process' = [process EXCEPT !.pc = pc]

\* run_batch and benchmark_runtime.run: a new process, on the directory of the last.
Launch(j) ==
    /\ At("ended") /\ process.id < MaxLaunches
    /\ process' = [Idle EXCEPT !.id = process.id + 1, !.pc = "load", !.job = j]
    /\ pool' = EmptyPool
    /\ UNCHANGED <<disk, accepted>>

\* ReadInputList, LoadRuntime and WriteProviderLog; the accelerated profiles have a log,
\* which must be new.  The doctor does no more than this.
Load ==
    /\ At("load") /\ Loads(job)
    /\ job.mode # "doctor" => list # <<>>
    /\ job.profile # "cpu" => ~disk.log
    /\ disk' = [disk EXCEPT !.log = @ \/ job.profile # "cpu"]
    /\ Goto(CASE job.mode = "doctor" -> "ended" [] IsPredecoded -> "predecode" [] OTHER -> "acquire")
    /\ UNCHANGED <<pool, accepted>>

\* Predecoding an input takes a slot, and gives it back at once.
Predecode ==
    /\ At("predecode") /\ FreeSlots # {}
    /\ LET n == Len(process.cache)
           f == list[n + 1]
       IN  process' = [process EXCEPT
             !.cache = Append(@, PairWith(process.previous, f)),
             !.previous = IF n + 1 = Len(list) THEN None ELSE f,
             !.pc = IF n + 1 = Len(list) THEN "acquire" ELSE @]
    /\ pool' = [pool EXCEPT !.high = Larger(@, pool.depth + 1)]
    /\ UNCHANGED <<disk, accepted>>

\* The next frame of the list, or the next iteration of the benchmark.
Acquire ==
    /\ At("acquire")
    /\ process.n < (IF IsBenchmark THEN Total(job.protocol) ELSE Len(list))
    /\ FreeSlots # {}
    /\ process' = [process EXCEPT !.pc = "decode", !.lease = Min(FreeSlots)]
    /\ pool' = Acquired(Min(FreeSlots))
    /\ UNCHANGED <<disk, accepted>>

\* ParseSensorFrame and Preprocess.
Decode ==
    /\ At("decode") /\ MayAdvance(process.lease, "PREPROCESSING")
    /\ LET f == Frame(process.n)
       IN  process' = [process EXCEPT
             !.pc = "infer", !.current = f,
             !.pair = IF IsPredecoded THEN process.cache[(process.n % Len(list)) + 1]
                      ELSE PairWith(process.previous, f)]
    /\ pool' = Advanced(process.lease, "PREPROCESSING")
    /\ UNCHANGED <<disk, accepted>>

StartInference ==
    /\ At("infer") /\ MayAdvance(process.lease, "INFERENCE")
    /\ pool' = Advanced(process.lease, "INFERENCE")
    /\ Goto("inferring")
    /\ UNCHANGED <<disk, accepted>>

\* CpuRuntime::Infer, up to the validated graph.
Infer ==
    /\ At("inferring") /\ MayAdvance(process.lease, "POSTPROCESSING")
    /\ pool' = Advanced(process.lease, "POSTPROCESSING")
    /\ Goto(IF IsBenchmark THEN "measured" ELSE "inferred")
    /\ UNCHANGED <<disk, accepted>>

\* The tests WriteAtomically makes before it writes.
Refuses(path) == path \in DOMAIN disk.outputs \/ path \in disk.temporary

WriteTemporary ==
    /\ At("inferred") /\ MayAdvance(process.lease, "SERIALIZING")
    /\ ~Refuses(Path(process.n, process.current))
    /\ disk' = [disk EXCEPT !.temporary = @ \union {Path(process.n, process.current)}]
    /\ pool' = Advanced(process.lease, "SERIALIZING")
    /\ Goto("rename")
    /\ UNCHANGED accepted

Install ==
    /\ At("rename")
    /\ LET path == Path(process.n, process.current)
           graph == [by |-> process.id, frame |-> process.current, pair |-> process.pair]
       IN  disk' = [disk EXCEPT
             !.temporary = @ \ {path},
             !.outputs = [q \in {path} \union DOMAIN @ |-> IF q = path THEN graph ELSE @[q]]]
    /\ Goto("written")
    /\ UNCHANGED <<pool, accepted>>

NextFrame ==
    /\ At("written")
    /\ pool' = Released(process.lease)
    /\ process' = [process EXCEPT !.pc = "acquire", !.lease = None, !.n = @ + 1,
                                  !.previous = process.current]
    /\ UNCHANGED <<disk, accepted>>

\* The end of an iteration: a frame read again from its file becomes the previous one.
Measure ==
    /\ At("measured")
    /\ pool' = Released(process.lease)
    /\ process' = [process EXCEPT
         !.pc = "acquire", !.lease = None, !.n = @ + 1,
         !.previous = IF IsPredecoded THEN @ ELSE process.current,
         !.samples = @ \union Sample(job.protocol, process.n, process.pair)]
    /\ UNCHANGED <<disk, accepted>>

\* The clean end of a batch, and the launcher's checks of its receipt.
FinishBatch ==
    /\ At("acquire") /\ ~IsBenchmark /\ process.n = Len(list) /\ AllFree
    /\ accepted' =
         IF pool.high \in 1..Capacity
         THEN accepted \union {[id |-> process.id, job |-> job]} ELSE accepted
    /\ Goto("ended")
    /\ UNCHANGED <<disk, pool>>

\* The clean end of a benchmark: the report must be new.
FinishBenchmark ==
    /\ At("acquire") /\ IsBenchmark /\ process.n = Total(job.protocol) /\ AllFree
    /\ ~disk.report
    /\ disk' = [disk EXCEPT !.report = TRUE]
    /\ Goto("report")
    /\ UNCHANGED <<pool, accepted>>

\* analyze_native_benchmark: the samples a report must have.
Scheduled(protocol) ==
    {<<"warmup", k>> : k \in 0..(protocol.warmup - 1)}
    \union {<<"measured", k>> : k \in 0..(protocol.measured - 1)}
    \union {<<"stability", k>> : k \in
              {0, protocol.stability - 1}
              \union {j \in 0..(protocol.stability - 1) : (j + 1) % protocol.period = 0}}

Analyzable(samples, protocol) ==
    /\ {<<s[1], s[2]>> : s \in samples} = Scheduled(protocol)
    /\ Cardinality({s \in samples : s[1] = "stability"}) >= 2

Analyze ==
    /\ At("report")
    /\ accepted' =
         IF Analyzable(process.samples, job.protocol)
         THEN accepted \union {[id |-> process.id, job |-> job]} ELSE accepted
    /\ Goto("ended")
    /\ UNCHANGED <<disk, pool>>

\* An exception at any step: the lease is given back, a temporary of its own removed.
Fail ==
    /\ ~At("ended") /\ ~At("report")
    /\ disk' = [disk EXCEPT !.temporary =
                  IF At("rename") THEN @ \ {Path(process.n, process.current)} ELSE @]
    /\ pool' = Released(process.lease)
    /\ process' = [process EXCEPT !.pc = "ended", !.lease = None]
    /\ UNCHANGED accepted

\* The process is killed, by the timeout of the launcher for one.
Crash ==
    /\ ~At("ended") /\ ~At("report")
    /\ pool' = EmptyPool
    /\ process' = [process EXCEPT !.pc = "ended", !.lease = None]
    /\ UNCHANGED <<disk, accepted>>

Step ==
    \/ Load \/ Predecode \/ Acquire \/ Decode \/ StartInference \/ Infer
    \/ WriteTemporary \/ Install \/ NextFrame \/ Measure
    \/ FinishBatch \/ FinishBenchmark \/ Analyze

Next == (\E j \in Jobs : Launch(j)) \/ Step \/ Fail \/ Crash

Spec == Init /\ [][Next]_vars

-----------------------------------------------------------------------------
(* Properties. *)

TypeOK ==
    /\ disk.log \in BOOLEAN /\ disk.report \in BOOLEAN
    /\ pool.states \in [Slots -> States]
    /\ pool.depth \in 0..Capacity /\ pool.high \in 0..Capacity
    /\ process.id \in 0..MaxLaunches /\ process.job \in Jobs \union {None}
    /\ process.lease \in Slots \union {None}
    /\ accepted \subseteq [id : 1..MaxLaunches, job : Jobs]

\* The leases account for the pool: the slot of the process's one lease is the only one in
\* use, the depth counts it, a process that has ended holds none (whatever ended it), and no
\* name is both installed and in progress.
RuntimeInv ==
    /\ TypeOK
    /\ FreeSlots = IF process.lease = None THEN Slots ELSE Slots \ {process.lease}
    /\ pool.depth = Cardinality(Slots \ FreeSlots) /\ pool.depth <= pool.high
    /\ At("ended") => process.lease = None
    /\ disk.temporary \intersect DOMAIN disk.outputs = {}

\* The frame an output must be paired with: the one before it in the list of the batch, when
\* that comes earlier in the same sequence and both poses are valid.
PairInList(l, k) ==
    IF /\ k > 1 /\ l[k - 1].segment = l[k].segment /\ l[k - 1].ts < l[k].ts
       /\ l[k - 1].pose /\ l[k].pose
    THEN l[k - 1] ELSE None

\* A heading, the placements, and nothing else before the last of them.
IsWholeLog(messages) ==
    \E h \in DOMAIN messages :
       /\ messages[h].kind = "heading"
       /\ \A k \in DOMAIN messages : messages[k].kind = "provider" =>
             k > h /\ \A j \in h..k : messages[j].kind # "other"

\* The output a process owes the k-th frame of a list is installed.
Installed(id, l, k) ==
    LET path == Path(k - 1, l[k])
    IN  /\ path \in DOMAIN disk.outputs
        /\ disk.outputs[path] = [by |-> id, frame |-> l[k], pair |-> PairInList(l, k)]

BatchIsComplete ==
    \A a \in accepted : a.job.mode = "infer" =>
        \A k \in DOMAIN a.job.list : Installed(a.id, a.job.list, k)

\* A batch the launcher accepted is complete and stays so: each frame of its list has an
\* output, inferred by that very process from that frame and the right frame before it,
\* whatever earlier or later processes failed, were killed, or were launched again on the
\* same directory.  And it ran where it says: no node of an accelerated batch was placed on
\* the CPU, if the log of the placements came whole.
PassedIsComplete ==
    /\ BatchIsComplete
    /\ \A a \in accepted : a.job.profile # "cpu" /\ IsWholeLog(a.job.messages) =>
         \A k \in DOMAIN a.job.messages :
            a.job.messages[k].kind = "provider" => a.job.messages[k].provider # "cpu"

\* A benchmark that ends clean has the samples its analysis demands (two samples of the
\* stability phase, so not a phase of one frame), and the two input profiles measure the same
\* pairs, but for the first frame of a list whose last one precedes it: read again from its
\* file that frame is paired across the wrap, predecoded it is not.
MeasurementsAreWhole ==
    At("report") =>
       /\ job.protocol.stability # 1 => Analyzable(process.samples, job.protocol)
       /\ \A s \in process.samples : s[1] = "measured" =>
             LET k == ((s[2] + job.protocol.warmup) % Len(list)) + 1
                 isWrap == ~IsPredecoded /\ k = 1 /\ SameSequence(list[Len(list)], list[1])
             IN  ~isWrap => s[3] = PairInList(list, k)

-----------------------------------------------------------------------------
(* Why the leases account for the pool, a batch is complete and a benchmark has its samples: *)
(* what holds in between. *)

Active == {"acquire", "decode", "infer", "inferring", "inferred", "rename", "written"}

LeaseInv ==
    /\ DOMAIN disk = {"outputs", "temporary", "log", "report"}
    /\ DOMAIN process = {"id", "pc", "job", "n", "lease", "previous", "current", "pair", "cache", "samples"}
    /\ DOMAIN pool = {"states", "depth", "high"}
    /\ disk.log \in BOOLEAN /\ disk.report \in BOOLEAN
    /\ process.id \in 0..MaxLaunches
    /\ IF At("ended") THEN process.job \in Jobs \union {None} ELSE process.id > 0 /\ process.job \in Jobs
    /\ process.lease \in IF process.pc \in {"ended", "load", "predecode", "acquire", "report"}
                         THEN {None} ELSE Slots
    /\ pool.states \in [Slots -> States]
    /\ \A s \in Slots : pool.states[s] = "FREE" <=> s # process.lease
    /\ pool.depth = IF process.lease = None THEN 0 ELSE 1
    /\ pool.high \in 0..Capacity /\ pool.depth <= pool.high
    /\ accepted \subseteq [id : 1..MaxLaunches, job : Jobs]
    /\ disk.temporary \intersect DOMAIN disk.outputs = {}
    /\ At("rename") => Path(process.n, process.current) \in disk.temporary
    /\ At("report") => job.mode = "benchmark"
    /\ At("load") => /\ process.n = 0 /\ process.previous = None
                     /\ process.cache = <<>> /\ process.samples = {}

BatchInv ==
    ~At("ended") /\ ~At("load") /\ job.mode = "infer" =>
        /\ process.pc \in Active
        /\ process.n \in 0..Len(list)
        /\ \A k \in 1..process.n : Installed(process.id, list, k)
        /\ ~At("acquire") => process.n < Len(list)
        /\ process.pc \in {"acquire", "decode"} =>
             process.previous = IF process.n = 0 THEN None ELSE list[process.n]
        /\ ~At("acquire") /\ ~At("decode") =>
             /\ process.current = list[process.n + 1]
             /\ process.pair = PairInList(list, process.n + 1)
        /\ At("written") => Installed(process.id, list, process.n + 1)

\* What runs was placed where its profile says, and what was accepted ran.
PlacedInv ==
    /\ ~At("ended") /\ ~At("load") => Loads(job)
    /\ \A a \in accepted : Loads(a.job)

\* The pair of the n-th frame of a benchmark.  Only what is read from its file again is
\* paired across the end of the list.
PairAt(n) ==
    IF IsPredecoded THEN PairInList(list, (n % Len(list)) + 1)
    ELSE IF n = 0 THEN None ELSE PairWith(Frame(n - 1), Frame(n))

BenchmarkInv ==
    ~At("ended") /\ ~At("load") /\ IsBenchmark =>
        /\ list # <<>>
        /\ process.pc \in {"predecode", "acquire", "decode", "infer", "inferring", "measured", "report"}
        /\ process.n \in 0..Total(job.protocol)
        /\ process.pc \in {"decode", "infer", "inferring", "measured"} =>
             process.n < Total(job.protocol)
        /\ At("report") => process.n = Total(job.protocol)
        /\ At("predecode") =>
             /\ IsPredecoded /\ process.n = 0 /\ Len(process.cache) < Len(list)
             /\ process.previous =
                  IF process.cache = <<>> THEN None ELSE list[Len(process.cache)]
        /\ IsPredecoded =>
             /\ process.cache \in Seq(ToSet(list) \union {None})
             /\ \A k \in DOMAIN process.cache : process.cache[k] = PairInList(list, k)
             /\ ~At("predecode") => Len(process.cache) = Len(list)
        /\ ~IsPredecoded /\ process.pc \in {"acquire", "decode"} =>
             process.previous = IF process.n = 0 THEN None ELSE Frame(process.n - 1)
        /\ process.pc \in {"infer", "inferring", "measured"} =>
             process.current = Frame(process.n) /\ process.pair = PairAt(process.n)
        /\ IsFiniteSet(process.samples)
        /\ process.samples = UNION {Sample(job.protocol, m, PairAt(m)) : m \in 0..(process.n - 1)}
=============================================================================
