-------------------------- MODULE NativeRuntimeProofs --------------------------
(***************************************************************************)
(* Theorems about NativeRuntime: for every pool, list and number of        *)
(* launches, the leases account for the buffer pool whatever ended a       *)
(* process, and a batch the launcher accepted is complete and stays so.    *)
(***************************************************************************)
EXTENDS NativeRuntime, FiniteSetTheorems, TLAPS

\* A nonempty set of naturals has a least element.
LEMMA Least ==
    ASSUME NEW T, T \subseteq Nat, T # {}
    PROVE  \E x \in T : \A y \in T : x <= y
<1>1. IsWellFoundedOn(OpToRel(<, Nat), Nat)
  BY NatLessThanWellFounded
<1>2. \E x \in T : \A y \in T : ~ (<<y, x>> \in OpToRel(<, Nat))
  BY <1>1, WFMin
<1>3. \A x, y \in Nat : <<y, x>> \in OpToRel(<, Nat) \/ x <= y
  BY DEF OpToRel
<1> QED
  BY <1>2, <1>3, Zenon

-----------------------------------------------------------------------------
(* The pool and its one lease. *)

\* The first free slot is free.
LEMMA FirstFree ==
    ASSUME LeaseInv, FreeSlots # {}
    PROVE  Min(FreeSlots) \in FreeSlots
<1>1. FreeSlots \subseteq Nat
  BY DEF FreeSlots, Slots
<1>2. PICK x \in FreeSlots : \A y \in FreeSlots : x <= y
  BY <1>1, Least
<1> QED
  BY <1>2 DEF Min

\* A pool without a lease is free.
LEMMA EmptyPoolOK ==
    /\ EmptyPool.states \in [Slots -> States] /\ \A s \in Slots : EmptyPool.states[s] = "FREE"
    /\ EmptyPool.depth = 0 /\ EmptyPool.high = 0 /\ DOMAIN EmptyPool = {"states", "depth", "high"}
BY DEF EmptyPool, States

\* Giving the lease back frees the pool.
LEMMA ReleasedOK ==
    ASSUME LeaseInv
    PROVE  /\ Released(process.lease).states \in [Slots -> States]
           /\ \A s \in Slots : Released(process.lease).states[s] = "FREE"
           /\ Released(process.lease).depth = 0 /\ Released(process.lease).high = pool.high
           /\ DOMAIN Released(process.lease) = {"states", "depth", "high"}
<1>0. /\ DOMAIN pool = {"states", "depth", "high"} /\ pool.states \in [Slots -> States]
      /\ \A s \in Slots : pool.states[s] = "FREE" <=> s # process.lease
      /\ pool.depth = IF process.lease = None THEN 0 ELSE 1
      /\ None \notin Slots /\ process.lease \in Slots \union {None}
  BY RuntimeConstants DEF LeaseInv, Slots
<1>1. CASE process.lease = None
  BY <1>0, <1>1 DEF Released
<1>2. CASE process.lease # None
  <2>1. process.lease \in Slots /\ pool.states[process.lease] # "FREE" /\ pool.depth = 1
    BY <1>0, <1>2
  <2>2. Released(process.lease) = [pool EXCEPT !.states[process.lease] = "FREE", !.depth = @ - 1]
    BY <1>2, <2>1 DEF Released
  <2>3. "FREE" \in States
    BY DEF States
  <2> QED
    BY <1>0, <2>1, <2>2, <2>3
<1> QED
  BY <1>1, <1>2

\* A slot moves on with its lease.
LEMMA AdvancedOK ==
    ASSUME LeaseInv, NEW next \in States \ {"FREE"}, process.lease \in Slots
    PROVE  LET p == Advanced(process.lease, next)
           IN  /\ p.states \in [Slots -> States]
               /\ \A s \in Slots : p.states[s] = "FREE" <=> s # process.lease
               /\ p.depth = pool.depth /\ p.high = pool.high /\ DOMAIN p = {"states", "depth", "high"}
BY DEF LeaseInv, Advanced

LEMMA LeaseInit == Init => LeaseInv
<1> SUFFICES ASSUME Init PROVE LeaseInv
  OBVIOUS
<1> USE RuntimeConstants
<1>1. process.lease = None /\ process.pc = "ended" /\ process.id = 0 /\ process.job = None
  BY DEF Init, Idle
<1>2. /\ pool.states \in [Slots -> States] /\ \A s \in Slots : pool.states[s] = "FREE"
      /\ pool.depth = 0 /\ pool.high = 0 /\ DOMAIN pool = {"states", "depth", "high"}
  BY EmptyPoolOK DEF Init
<1>3. \A s \in Slots : s # None
  BY DEF Slots
<1>4. DOMAIN process = {"id", "pc", "job", "n", "lease", "previous", "current", "pair", "cache", "samples"}
  BY DEF Init, Idle
<1>5. /\ DOMAIN disk = {"outputs", "temporary", "log", "report"} /\ disk.log \in BOOLEAN
      /\ disk.report \in BOOLEAN /\ disk.temporary \intersect DOMAIN disk.outputs = {}
  BY DEF Init
<1> QED
  BY <1>1, <1>2, <1>3, <1>4, <1>5 DEF Init, LeaseInv, At

LEMMA LeaseNext == LeaseInv /\ [Next]_vars => LeaseInv'
<1> SUFFICES ASSUME LeaseInv, [Next]_vars PROVE LeaseInv'
  OBVIOUS
<1> USE RuntimeConstants
<1>0. CASE UNCHANGED vars
  BY <1>0 DEF LeaseInv, vars, At, job
<1>1. ASSUME NEW j \in Jobs, Launch(j) PROVE LeaseInv'
  BY <1>1, EmptyPoolOK DEF Launch, LeaseInv, At, Idle, Slots
<1>2. CASE Load
  BY <1>2 DEF Load, LeaseInv, At, Goto
<1>3. CASE Predecode
  BY <1>3 DEF Predecode, LeaseInv, At, Larger, Slots
<1>4. CASE Acquire
  <2> DEFINE s == Min(FreeSlots)
  <2>1. s \in Slots /\ process.lease = None /\ pool.depth = 0
    BY <1>4, FirstFree DEF Acquire, LeaseInv, At, FreeSlots
  <2>2. pool' = Acquired(s) /\ process' = [process EXCEPT !.pc = "decode", !.lease = s]
    BY <1>4 DEF Acquire
  <2> HIDE DEF s
  <2>3. \A t \in Slots : pool.states[t] = "FREE"
    BY <2>1 DEF LeaseInv, Slots
  <2>4. /\ pool'.states \in [Slots -> States] /\ \A t \in Slots : pool'.states[t] = "FREE" <=> t # s
        /\ pool'.depth = 1 /\ pool'.high \in 0..Capacity /\ 1 <= pool'.high
        /\ DOMAIN pool' = {"states", "depth", "high"}
    BY <2>1, <2>2, <2>3 DEF Acquired, Larger, LeaseInv, States, Successor
  <2>5. /\ process'.pc = "decode" /\ process'.lease = s /\ process'.id = process.id
        /\ process'.job = process.job /\ DOMAIN process' = DOMAIN process
    BY <2>2 DEF LeaseInv
  <2>6. s # None /\ UNCHANGED <<disk, accepted>> /\ At("acquire")
    BY <1>4, <2>1 DEF Slots, Acquire
  <2> QED
    BY <2>1, <2>4, <2>5, <2>6 DEF LeaseInv, At
<1>5. CASE Decode
  BY <1>5, AdvancedOK DEF Decode, LeaseInv, At, States, Successor
<1>6. CASE StartInference
  BY <1>6, AdvancedOK DEF StartInference, LeaseInv, At, States, Successor, Goto
<1>7. CASE Infer
  BY <1>7, AdvancedOK DEF Infer, LeaseInv, At, States, Successor, Goto
<1>8. CASE WriteTemporary
  BY <1>8, AdvancedOK DEF WriteTemporary, LeaseInv, At, States, Successor, Goto, Refuses
<1>9. CASE Install
  BY <1>9 DEF Install, LeaseInv, At, Goto
<1>10. CASE NextFrame
  BY <1>10, ReleasedOK DEF NextFrame, LeaseInv, At, Slots
<1>11. CASE Measure
  BY <1>11, ReleasedOK DEF Measure, LeaseInv, At, Slots
<1>12. CASE FinishBatch
  <2>1. [id |-> process.id, job |-> job] \in [id : 1..MaxLaunches, job : Jobs]
    BY <1>12 DEF FinishBatch, LeaseInv, At, job
  <2>2. accepted' \subseteq [id : 1..MaxLaunches, job : Jobs]
    BY <1>12, <2>1 DEF FinishBatch, LeaseInv
  <2> QED
    BY <1>12, <2>2 DEF FinishBatch, LeaseInv, At, Goto
<1>13. CASE FinishBenchmark
  BY <1>13 DEF FinishBenchmark, LeaseInv, At, Goto, IsBenchmark, job
<1>14. CASE Analyze
  <2>1. [id |-> process.id, job |-> job] \in [id : 1..MaxLaunches, job : Jobs]
    BY <1>14 DEF Analyze, LeaseInv, At, job
  <2>2. accepted' \subseteq [id : 1..MaxLaunches, job : Jobs]
    BY <1>14, <2>1 DEF Analyze, LeaseInv
  <2> QED
    BY <1>14, <2>2 DEF Analyze, LeaseInv, At, Goto
<1>15. CASE Fail
  BY <1>15, ReleasedOK DEF Fail, LeaseInv, At, Slots
<1>16. CASE Crash
  BY <1>16, EmptyPoolOK DEF Crash, LeaseInv, At, Slots
<1> QED
  BY <1>0, <1>1, <1>2, <1>3, <1>4, <1>5, <1>6, <1>7, <1>8, <1>9, <1>10, <1>11, <1>12, <1>13, <1>14,
     <1>15, <1>16 DEF Next, Step

\* The leases account for the pool: whatever a process does, and whatever ends it, the slot of
\* its one lease is the only one in use and the depth counts it (cpp/src/infer/buffer_pool.cpp).
THEOREM LeasesAccountForThePool == Spec => []RuntimeInv
<1>1. ASSUME LeaseInv PROVE RuntimeInv
  <2> USE RuntimeConstants
  <2>1. TypeOK
    BY <1>1 DEF LeaseInv, TypeOK, At
  <2>2. FreeSlots = IF process.lease = None THEN Slots ELSE Slots \ {process.lease}
    BY <1>1 DEF LeaseInv, FreeSlots, Slots
  <2>3. pool.depth = Cardinality(Slots \ FreeSlots)
    <3>1. CASE process.lease = None
      <4>1. Slots \ FreeSlots = {} /\ pool.depth = 0
        BY <1>1, <2>2, <3>1 DEF LeaseInv
      <4> QED
        BY <4>1, FS_EmptySet
    <3>2. CASE process.lease # None
      <4>1. Slots \ FreeSlots = {process.lease} /\ pool.depth = 1
        BY <1>1, <2>2, <3>2 DEF LeaseInv
      <4> QED
        BY <4>1, FS_Singleton
    <3> QED
      BY <3>1, <3>2
  <2> QED
    BY <1>1, <2>1, <2>2, <2>3 DEF RuntimeInv, LeaseInv, At
<1> QED
  BY <1>1, LeaseInit, LeaseNext, PTL DEF Spec

-----------------------------------------------------------------------------
(* Batches. *)

\* What is known of a job's list.
LEMMA ListType ==
    ASSUME NEW j \in Jobs
    PROVE  /\ Len(j.list) \in Nat /\ DOMAIN j.list = 1..Len(j.list)
           /\ \A k \in 1..Len(j.list) : j.list[k] # None
<1>1. j.list \in Seq(ToSet(j.list)) /\ None \notin ToSet(j.list)
  BY RuntimeConstants
<1>2. Len(j.list) \in Nat /\ DOMAIN j.list = 1..Len(j.list)
  BY <1>1
<1>3. \A k \in DOMAIN j.list : j.list[k] \in ToSet(j.list)
  BY DEF ToSet
<1> QED
  BY <1>1, <1>2, <1>3

LEMMA Remainder == ASSUME NEW L \in Nat, NEW n \in Nat, n < L PROVE n % L = n
OBVIOUS

\* The frame after the first n of a list is not read across its end.
LEMMA FrameOfList ==
    ASSUME NEW j \in Jobs, process.job = j, NEW n \in Nat, n < Len(j.list)
    PROVE  Frame(n) = j.list[n + 1]
<1>1. n % Len(j.list) = n
  BY ListType, Remainder
<1> QED
  BY <1>1 DEF Frame, list, job

\* The frame before, where there is one, makes the pair that the list demands.
LEMMA PairOfList ==
    ASSUME NEW j \in Jobs, NEW n \in Nat, n < Len(j.list), NEW f,
           f = IF n = 0 THEN None ELSE j.list[n]
    PROVE  PairWith(f, j.list[n + 1]) = PairInList(j.list, n + 1)
<1>1. CASE n = 0
  BY <1>1 DEF PairWith, PairInList
<1>2. CASE n # 0
  <2>1. f = j.list[n] /\ f # None /\ n + 1 > 1 /\ (n + 1) - 1 = n
    BY <1>2, ListType
  <2> QED
    BY <2>1 DEF PairWith, PairInList, SameSequence
<1> QED
  BY <1>1, <1>2

\* What is installed stays installed where outputs are only added under new names.
LEMMA InstalledStays ==
    ASSUME NEW id, NEW l, NEW k, Installed(id, l, k),
           \A q \in DOMAIN disk.outputs : q \in DOMAIN disk'.outputs /\ disk'.outputs[q] = disk.outputs[q]
    PROVE  Installed(id, l, k)'
BY DEF Installed

\* Every step only adds outputs, for a temporary file never has the name of one.
LEMMA OutputsOnlyGrow ==
    ASSUME LeaseInv, [Next]_vars
    PROVE  \A q \in DOMAIN disk.outputs : q \in DOMAIN disk'.outputs /\ disk'.outputs[q] = disk.outputs[q]
<1>1. CASE disk' = disk
  BY <1>1
<1>2. CASE Load \/ WriteTemporary \/ FinishBenchmark \/ Fail
  BY <1>2 DEF Load, WriteTemporary, FinishBenchmark, Fail, LeaseInv
<1>3. CASE Install
  <2>1. Path(process.n, process.current) \notin DOMAIN disk.outputs
    BY <1>3 DEF Install, LeaseInv
  <2> DEFINE path == Path(process.n, process.current)
             graph == [by |-> process.id, frame |-> process.current, pair |-> process.pair]
  <2>2. disk'.outputs = [q \in {path} \union DOMAIN disk.outputs |->
                           IF q = path THEN graph ELSE disk.outputs[q]]
    BY <1>3 DEF Install, LeaseInv
  <2> HIDE DEF path, graph
  <2> QED
    BY <2>1, <2>2 DEF path
<1>4. disk' = disk \/ Load \/ WriteTemporary \/ FinishBenchmark \/ Fail \/ Install
  BY DEF Next, Step, vars, Launch, Predecode, Acquire, Decode, StartInference, Infer, NextFrame,
         Measure, FinishBatch, Analyze, Crash
<1> QED
  BY <1>1, <1>2, <1>3, <1>4

\* A process whose job infers is at work on a job of Jobs.
LEMMA InferringJob ==
    ASSUME LeaseInv, ~At("ended")
    PROVE  job \in Jobs /\ process.id \in 1..MaxLaunches
BY DEF LeaseInv, job, At

LEMMA BatchNext == LeaseInv /\ BatchInv /\ [Next]_vars => BatchInv'
<1> SUFFICES ASSUME LeaseInv, BatchInv, [Next]_vars, (~At("ended") /\ ~At("load") /\ job.mode = "infer")'
             PROVE  BatchInv'
  BY DEF BatchInv
<1> USE DEF Active
<1>a. \A q \in DOMAIN disk.outputs : q \in DOMAIN disk'.outputs /\ disk'.outputs[q] = disk.outputs[q]
  BY OutputsOnlyGrow
<1>b. DOMAIN process = {"id", "pc", "job", "n", "lease", "previous", "current", "pair", "cache", "samples"}
  BY DEF LeaseInv
<1>0. CASE UNCHANGED vars
  BY <1>0 DEF BatchInv, vars, At, job, list, Installed
<1>1. ASSUME NEW j \in Jobs, Launch(j) PROVE FALSE
  BY <1>1 DEF Launch, Idle, At
<1>c. ASSUME ~At("ended"), ~At("load"), process'.job = process.job
      PROVE  /\ job \in Jobs /\ job.mode = "infer" /\ process.pc \in Active
             /\ process.n \in 0..Len(list) /\ Len(list) \in Nat
             /\ ~At("acquire") => process.n < Len(list)
             /\ ~IsBenchmark /\ ~IsPredecoded
  <2>1. job \in Jobs /\ job.mode = "infer"
    BY <1>c, InferringJob DEF job
  <2> QED
    BY <1>c, <2>1, ListType DEF BatchInv, IsBenchmark, IsPredecoded, list, job
<1>d. ASSUME NEW k \in 1..process.n, Installed(process.id, list, k),
             process'.id = process.id, process'.job = process.job
      PROVE  Installed(process.id, list, k)'
  BY <1>a, <1>d, InstalledStays DEF list, Installed
<1>2. CASE Load
  <2>1. /\ process' = [process EXCEPT !.pc = "acquire"] /\ process.n = 0 /\ process.previous = None
        /\ job \in Jobs
    BY <1>2, <1>b, InferringJob DEF Load, At, Goto, job, IsPredecoded, IsBenchmark, LeaseInv
  <2>2. Len(list) \in Nat
    BY <2>1, ListType DEF list, job
  <2> QED
    BY <1>b, <2>1, <2>2 DEF BatchInv, At, list, job
<1>3. ASSUME Predecode PROVE FALSE
  BY <1>3, <1>b, <1>c DEF Predecode, At
<1>4. CASE Acquire
  <2>1. /\ process'.pc = "decode" /\ process'.n = process.n /\ process'.previous = process.previous
        /\ process'.id = process.id /\ process'.job = process.job /\ At("acquire")
    BY <1>4, <1>b DEF Acquire
  <2>2. process.n < Len(list)
    BY <1>4, <1>c, <2>1 DEF Acquire, At
  <2> QED
    BY <1>c, <1>d, <2>1, <2>2 DEF BatchInv, At, list, job
<1>5. CASE Decode
  <2>1. /\ process'.pc = "infer" /\ process'.n = process.n /\ process'.id = process.id
        /\ process'.job = process.job /\ process'.current = Frame(process.n) /\ At("decode")
    BY <1>5, <1>b DEF Decode
  <2>2. process'.pair = PairWith(process.previous, Frame(process.n))
    BY <1>5, <1>b, <1>c, <2>1 DEF Decode, At
  <2>3. job \in Jobs /\ process.n \in Nat /\ process.n < Len(list)
    BY <1>c, <2>1 DEF At
  <2>4. Frame(process.n) = list[process.n + 1]
    BY <2>3, FrameOfList DEF list, job
  <2>5. process.previous = IF process.n = 0 THEN None ELSE list[process.n]
    BY <1>c, <2>1 DEF BatchInv, At
  <2>6. process'.pair = PairInList(list, process.n + 1)
    BY <2>2, <2>3, <2>4, <2>5, PairOfList DEF list, job
  <2> QED
    BY <1>c, <1>d, <2>1, <2>3, <2>4, <2>6 DEF BatchInv, At, list, job
<1>6. CASE StartInference \/ WriteTemporary
  <2>1. /\ process'.pc \in {"inferring", "rename"} /\ process.pc \in {"infer", "inferred"}
        /\ process' = [process EXCEPT !.pc = process'.pc]
    BY <1>6, <1>b DEF StartInference, WriteTemporary, Goto, At
  <2> QED
    BY <1>b, <1>c, <1>d, <2>1 DEF BatchInv, At, list, job
<1>7. CASE Infer
  <2>1. process' = [process EXCEPT !.pc = "inferred"] /\ At("inferring")
    BY <1>7, <1>b, <1>c DEF Infer, Goto, At
  <2> QED
    BY <1>b, <1>c, <1>d, <2>1 DEF BatchInv, At, list, job
<1>8. CASE Install
  <2>1. process' = [process EXCEPT !.pc = "written"] /\ At("rename")
    BY <1>8, <1>b DEF Install, Goto, At
  <2>2. /\ process.current = list[process.n + 1] /\ process.pair = PairInList(list, process.n + 1)
        /\ process.n \in Nat
    BY <1>b, <1>c, <2>1 DEF BatchInv, At
  <2> DEFINE path == Path(process.n, process.current)
             graph == [by |-> process.id, frame |-> process.current, pair |-> process.pair]
  <2>3. disk'.outputs = [q \in {path} \union DOMAIN disk.outputs |->
                           IF q = path THEN graph ELSE disk.outputs[q]]
    BY <1>8 DEF Install, LeaseInv
  <2>4. path = Path((process.n + 1) - 1, list[process.n + 1])
    BY <2>2
  <2>5. path \in DOMAIN disk'.outputs /\ disk'.outputs[path] = graph
    <3> HIDE DEF path, graph
    <3> QED
      BY <2>3
  <2>6. Installed(process.id, list, process.n + 1)'
    <3>1. process'.n = process.n /\ process'.id = process.id /\ list' = list
      BY <1>b, <2>1 DEF list
    <3> QED
      BY <2>2, <2>4, <2>5, <3>1 DEF Installed
  <2> QED
    BY <1>b, <1>c, <1>d, <2>1, <2>6 DEF BatchInv, At, list, job
<1>9. CASE NextFrame
  <2>1. /\ process'.pc = "acquire" /\ process'.n = process.n + 1 /\ process'.previous = process.current
        /\ process'.id = process.id /\ process'.job = process.job /\ At("written")
    BY <1>9, <1>b DEF NextFrame
  <2>2. /\ Installed(process.id, list, process.n + 1) /\ process.current = list[process.n + 1]
        /\ process.n \in Nat /\ process.n < Len(list) /\ Len(list) \in Nat
        /\ \A k \in 1..process.n : Installed(process.id, list, k)
    BY <1>c, <2>1 DEF BatchInv, At
  <2>3. \A k \in 1..(process.n + 1) : Installed(process.id, list, k)
    BY <2>2
  <2>4. \A k \in 1..(process.n + 1) : Installed(process.id, list, k)'
    BY <1>a, <2>1, <2>3, InstalledStays DEF list, Installed
  <2>5. /\ process'.n \in 0..Len(list) /\ process'.n # 0
        /\ process'.previous = list[process'.n] /\ list' = list
    BY <2>1, <2>2 DEF list, job
  <2> QED
    BY <2>1, <2>4, <2>5 DEF BatchInv, At
<1>10. ASSUME Measure PROVE FALSE
  BY <1>10, <1>b, <1>c DEF Measure, At
<1>11. ASSUME FinishBenchmark PROVE FALSE
  BY <1>11, <1>b, <1>c DEF FinishBenchmark, Goto, At
<1>12. ASSUME FinishBatch \/ Analyze \/ Fail \/ Crash PROVE FALSE
  BY <1>12, <1>b DEF FinishBatch, Analyze, Fail, Crash, Goto, At
<1> QED
  BY <1>0, <1>1, <1>2, <1>3, <1>4, <1>5, <1>6, <1>7, <1>8, <1>9, <1>10, <1>11, <1>12 DEF Next, Step

\* A batch is accepted at the end of its list, when all of it is installed.
LEMMA AcceptedNext == LeaseInv /\ BatchInv /\ BatchIsComplete /\ [Next]_vars => BatchIsComplete'
<1> SUFFICES ASSUME LeaseInv, BatchInv, BatchIsComplete, [Next]_vars,
                    NEW a \in accepted', a.job.mode = "infer", NEW k \in DOMAIN a.job.list
             PROVE  Installed(a.id, a.job.list, k)'
  BY DEF BatchIsComplete
<1>1. Installed(a.id, a.job.list, k)
  <2>1. CASE a \in accepted
    BY <2>1 DEF BatchIsComplete
  <2>2. CASE a \notin accepted
    <3>1. CASE FinishBatch
      <4>1. a = [id |-> process.id, job |-> job]
        BY <2>2, <3>1 DEF FinishBatch
      <4>2. At("acquire") /\ process.n = Len(list) /\ job \in Jobs
        BY <3>1, InferringJob DEF FinishBatch, At
      <4>3. \A i \in 1..process.n : Installed(process.id, list, i)
        BY <4>1, <4>2 DEF BatchInv, At
      <4>4. k \in 1..process.n /\ list = a.job.list /\ a.id = process.id
        BY <4>1, <4>2, ListType DEF list, job
      <4> QED
        BY <4>3, <4>4
    <3>2. CASE Analyze
      <4>1. a = [id |-> process.id, job |-> job] /\ At("report")
        BY <2>2, <3>2 DEF Analyze
      <4> QED
        BY <4>1 DEF BatchInv, At, Active
    <3>3. FinishBatch \/ Analyze
      BY <2>2 DEF Next, Step, vars, Launch, Load, Predecode, Acquire, Decode, StartInference, Infer,
         WriteTemporary, Install, NextFrame, Measure, FinishBenchmark, Fail, Crash
    <3> QED
      BY <3>1, <3>2, <3>3
  <2> QED
    BY <2>1, <2>2
<1>2. \A q \in DOMAIN disk.outputs : q \in DOMAIN disk'.outputs /\ disk'.outputs[q] = disk.outputs[q]
  BY OutputsOnlyGrow
<1> QED
  BY <1>1, <1>2 DEF Installed

\* A batch the launcher accepted is complete and stays so: each frame of its list has the output
\* that very process inferred from it and the right frame before it, whatever other launches on
\* the directory do (cpp/runtime/main.cpp, python/junctionlens/runtime/launcher.py).
THEOREM AcceptedBatchesAreComplete == Spec => []BatchIsComplete
<1>1. Init => BatchInv /\ BatchIsComplete
  BY DEF Init, Idle, BatchInv, BatchIsComplete, At
<1> QED
  BY <1>1, LeaseInit, LeaseNext, BatchNext, AcceptedNext, PTL DEF Spec

-----------------------------------------------------------------------------
(* Placements. *)

LEMMA PlacedNext == LeaseInv /\ PlacedInv /\ [Next]_vars => PlacedInv'
<1> SUFFICES ASSUME LeaseInv, PlacedInv, [Next]_vars PROVE PlacedInv'
  OBVIOUS
<1>b. DOMAIN process = {"id", "pc", "job", "n", "lease", "previous", "current", "pair", "cache", "samples"}
  BY DEF LeaseInv
<1>1. ASSUME ~At("ended")', ~At("load")' PROVE Loads(job)'
  <2>1. CASE ~At("ended") /\ ~At("load") /\ job' = job
    BY <2>1 DEF PlacedInv
  <2>2. CASE Load
    <3>1. job' = job /\ Loads(job)
      BY <1>b, <2>2 DEF Load, Goto, job
    <3> QED
      BY <3>1
  <2>3. ASSUME NEW j \in Jobs, Launch(j) PROVE FALSE
    BY <1>1, <2>3 DEF Launch, Idle, At
  <2>4. CASE UNCHANGED vars
    BY <1>1, <2>4 DEF PlacedInv, vars, At, job
  <2>5. CASE Next /\ ~Load /\ ~\E j \in Jobs : Launch(j)
    <3>1. process'.job = process.job /\ ~At("load") /\ ~At("ended")
      BY <1>1, <1>b, <2>5 DEF Next, Step, Predecode, Acquire, Decode, StartInference, Infer,
         WriteTemporary, Install, NextFrame, Measure, FinishBatch, FinishBenchmark, Analyze, Fail,
         Crash, Goto, At
    <3> QED
      BY <2>1, <3>1 DEF job
  <2> QED
    BY <2>2, <2>3, <2>4, <2>5
<1>2. ASSUME NEW a \in accepted' PROVE Loads(a.job)
  <2>1. CASE a \in accepted
    BY <2>1 DEF PlacedInv
  <2>2. CASE a \notin accepted
    <3>1. FinishBatch \/ Analyze
      BY <1>2, <2>2 DEF Next, Step, vars, Launch, Load, Predecode, Acquire, Decode, StartInference,
         Infer, WriteTemporary, Install, NextFrame, Measure, FinishBenchmark, Fail, Crash
    <3>2. a = [id |-> process.id, job |-> job] /\ ~At("ended") /\ ~At("load")
      BY <1>2, <2>2, <3>1 DEF FinishBatch, Analyze, At
    <3> QED
      BY <3>2 DEF PlacedInv
  <2> QED
    BY <2>1, <2>2
<1> QED
  BY <1>1, <1>2 DEF PlacedInv, Loads

\* Every provider of a whole log is collected: nothing before it ends the collection.
LEMMA WholeLogIsCollected ==
    ASSUME NEW j \in Jobs, IsWholeLog(j.messages), NEW k \in DOMAIN j.messages,
           j.messages[k].kind = "provider"
    PROVE  j.messages[k].provider \in Assigned(Collected(j.messages))
<1> DEFINE isKept(i) == \E h \in 1..i : /\ j.messages[h].kind = "heading"
                                        /\ \A g \in h..i : j.messages[g].kind # "other"
           kept == {i \in DOMAIN j.messages : isKept(i)}
<1>1. DOMAIN j.messages = 1..Len(j.messages) /\ Len(j.messages) \in Nat
  BY RuntimeConstants
<1>2. k \in kept
  <2>1. PICK h \in DOMAIN j.messages :
           /\ j.messages[h].kind = "heading"
           /\ k > h /\ \A g \in h..k : j.messages[g].kind # "other"
    BY DEF IsWholeLog
  <2>2. h \in 1..k
    BY <1>1, <2>1
  <2> QED
    BY <2>1, <2>2
<1>3. Collected(j.messages) = [i \in kept |-> j.messages[i]]
  BY DEF Collected, Restrict
<1> HIDE DEF kept
<1> QED
  BY <1>2, <1>3 DEF Assigned

\* A profile that is not the CPU's has no node on the CPU.
LEMMA AcceleratedProfile ==
    ASSUME NEW used, NEW profile, FitsProfile(used, profile), profile # "cpu"
    PROVE  "cpu" \notin used
BY DEF FitsProfile

\* What was accepted is complete, and ran where it says: no node of an accelerated batch or
\* benchmark was placed on the CPU, if the log of the placements came whole
\* (cpp/src/infer/runtime.cpp, cpp/src/infer/provider.cpp).
THEOREM AcceptedIsWhatItSays == Spec => []PassedIsComplete
<1>1. Init => PlacedInv
  BY DEF Init, Idle, PlacedInv, At
<1>2. ASSUME LeaseInv, PlacedInv, BatchIsComplete PROVE PassedIsComplete
  <2> SUFFICES ASSUME NEW a \in accepted, a.job.profile # "cpu", IsWholeLog(a.job.messages),
                      NEW k \in DOMAIN a.job.messages, a.job.messages[k].kind = "provider"
               PROVE  a.job.messages[k].provider # "cpu"
    BY <1>2 DEF PassedIsComplete
  <2>1. a.job \in Jobs
    BY <1>2 DEF LeaseInv
  <2>2. FitsProfile(Assigned(Collected(a.job.messages)), a.job.profile)
    BY <1>2 DEF PlacedInv, Loads
  <2> QED
    BY <2>1, <2>2, WholeLogIsCollected, AcceleratedProfile
<1> QED
  BY <1>1, <1>2, AcceptedBatchesAreComplete, LeaseInit, LeaseNext, PlacedNext, PTL DEF Spec

-----------------------------------------------------------------------------
(* Benchmarks. *)

\* Places in a list that is read again and again.
LEMMA PlaceInList ==
    ASSUME NEW L \in Nat \ {0}, NEW n \in Nat
    PROVE  n % L \in 0..(L - 1)
OBVIOUS

\* The place before is the one before it, or the last.
LEMMA PlaceBefore ==
    ASSUME NEW L \in Nat \ {0}, NEW n \in Nat \ {0}
    PROVE  (n - 1) % L = IF n % L = 0 THEN L - 1 ELSE (n % L) - 1
<1> DEFINE q == n \div L
           r == n % L
           q1 == (n - 1) \div L
           r1 == (n - 1) % L
<1>1. /\ q \in Nat /\ r \in 0..(L - 1) /\ n = L * q + r
      /\ q1 \in Nat /\ r1 \in 0..(L - 1) /\ n - 1 = L * q1 + r1
  OBVIOUS
<1> HIDE DEF q, r, q1, r1
<1>2. q1 = q \/ q1 >= q + 1 \/ q1 <= q - 1
  BY <1>1
<1>3. CASE q1 = q
  BY <1>1, <1>3
<1>4. CASE q1 >= q + 1
  <2>1. L * q1 >= L * (q + 1)
    BY <1>1, <1>4
  <2> QED
    BY <1>1, <2>1
<1>5. CASE q1 = q - 1
  <2>1. L * q1 = L * q - L
    BY <1>1, <1>5
  <2> QED
    BY <1>1, <2>1
<1>6. CASE q1 <= q - 2
  <2>1. L * q1 <= L * (q - 2)
    BY <1>1, <1>6
  <2>2. L * (q - 2) = L * q - 2 * L
    BY <1>1
  <2> QED
    BY <1>1, <2>1, <2>2
<1>7. r1 = IF r = 0 THEN L - 1 ELSE r - 1
  BY <1>1, <1>2, <1>3, <1>4, <1>5, <1>6
<1> QED
  BY <1>7 DEF r, r1

\* What is known of a benchmark's protocol.
LEMMA ProtocolType ==
    ASSUME NEW j \in Jobs, j.mode = "benchmark"
    PROVE  /\ j.protocol.warmup \in Nat /\ j.protocol.measured \in Nat \ {0}
           /\ j.protocol.stability \in Nat \ {0} /\ j.protocol.period \in Nat \ {0}
           /\ Total(j.protocol) \in Nat
BY ProtocolConstants DEF Total

\* An iteration leaves one sample or none.
LEMMA SampleFinite ==
    ASSUME NEW protocol, NEW n, NEW pair
    PROVE  IsFiniteSet(Sample(protocol, n, pair))
<1>1. PICK x : Sample(protocol, n, pair) = {x} \/ Sample(protocol, n, pair) = {}
  BY DEF Sample
<1>2. IsFiniteSet({x}) /\ IsFiniteSet({})
  BY FS_EmptySet, FS_Singleton
<1> QED
  BY <1>1, <1>2

\* One iteration more.
LEMMA SamplesGrow ==
    ASSUME NEW n \in Nat, NEW protocol
    PROVE  UNION {Sample(protocol, m, PairAt(m)) : m \in 0..((n + 1) - 1)}
             = (UNION {Sample(protocol, m, PairAt(m)) : m \in 0..(n - 1)})
                 \union Sample(protocol, n, PairAt(n))
<1> DEFINE S(m) == Sample(protocol, m, PairAt(m))
<1>1. 0..((n + 1) - 1) = (0..(n - 1)) \union {n}
  OBVIOUS
<1> HIDE DEF S
<1>2. UNION {S(m) : m \in 0..((n + 1) - 1)} = (UNION {S(m) : m \in 0..(n - 1)}) \union S(n)
  BY <1>1
<1> QED
  BY <1>2 DEF S

\* A benchmark that goes on: what its next step finds.
LEMMA Benchmarking ==
    ASSUME LeaseInv, BenchmarkInv, ~At("ended"), ~At("load"), IsBenchmark
    PROVE  /\ job \in Jobs /\ job.mode = "benchmark" /\ Len(list) \in Nat \ {0}
           /\ DOMAIN list = 1..Len(list)
           /\ Total(job.protocol) \in Nat /\ process.n \in Nat
           /\ \A n \in Nat : (n % Len(list)) + 1 \in 1..Len(list)
<1>1. job \in Jobs /\ job.mode = "benchmark"
  BY InferringJob DEF IsBenchmark
<1>2. list # <<>> /\ process.n \in 0..Total(job.protocol)
  BY DEF BenchmarkInv
<1>3. Total(job.protocol) \in Nat
  BY <1>1, ProtocolType
<1>4. list \in Seq(ToSet(list))
  BY <1>1, RuntimeConstants DEF list, job
<1>5. Len(list) \in Nat \ {0} /\ DOMAIN list = 1..Len(list)
  BY <1>2, <1>4
<1>6. ASSUME NEW n \in Nat PROVE (n % Len(list)) + 1 \in 1..Len(list)
  <2>1. n % Len(list) \in 0..(Len(list) - 1)
    BY <1>5, PlaceInList
  <2> QED
    BY <1>5, <2>1
<1> QED
  BY <1>1, <1>2, <1>3, <1>5, <1>6

LEMMA BenchmarkNext == LeaseInv /\ BenchmarkInv /\ [Next]_vars => BenchmarkInv'
<1> SUFFICES ASSUME LeaseInv, BenchmarkInv, [Next]_vars, (~At("ended") /\ ~At("load") /\ IsBenchmark)'
             PROVE  BenchmarkInv'
  BY DEF BenchmarkInv
<1>b. DOMAIN process = {"id", "pc", "job", "n", "lease", "previous", "current", "pair", "cache", "samples"}
  BY DEF LeaseInv
<1>c. ASSUME ~At("ended"), ~At("load"), process'.job = process.job
      PROVE  IsBenchmark
  BY <1>c DEF IsBenchmark, job
<1>d. ASSUME process'.job = process.job
      PROVE  /\ list' = list /\ job' = job /\ IsPredecoded' = IsPredecoded
             /\ \A n : PairAt(n)' = PairAt(n) /\ Frame(n)' = Frame(n)
  BY <1>d DEF list, job, IsPredecoded, IsBenchmark, PairAt, Frame
<1>0. CASE UNCHANGED vars
  BY <1>0, <1>c, <1>d DEF BenchmarkInv, vars, At
<1>1. ASSUME NEW j \in Jobs, Launch(j) PROVE FALSE
  BY <1>1 DEF Launch, Idle, At
<1>2. CASE Load
  <2>1. /\ process'.pc = IF IsPredecoded THEN "predecode" ELSE "acquire"
        /\ process' = [process EXCEPT !.pc = process'.pc]
        /\ process.n = 0 /\ process.previous = None /\ process.cache = <<>> /\ process.samples = {}
        /\ job \in Jobs /\ job.mode = "benchmark" /\ list # <<>>
    BY <1>2, <1>b, InferringJob DEF Load, At, Goto, job, IsPredecoded, IsBenchmark, LeaseInv
  <2>2. Total(job.protocol) \in Nat /\ list \in Seq(ToSet(list))
    BY <2>1, ProtocolType, RuntimeConstants DEF list, job
  <2>3. Len(list) > 0 /\ Len(list) \in Nat
    BY <2>1, <2>2
  <2>4. 0..(0 - 1) = {} /\ IsFiniteSet({})
    BY FS_EmptySet
  <2>5. /\ process'.n = 0 /\ process'.previous = None /\ process'.cache = <<>> /\ process'.samples = {}
        /\ process'.job = process.job
    BY <1>b, <2>1
  <2>6. UNION {Sample(job.protocol, m, PairAt(m)) : m \in 0..(0 - 1)} = {}
    BY <2>4
  <2> QED
    BY <1>d, <2>1, <2>2, <2>3, <2>4, <2>5, <2>6 DEF BenchmarkInv, At
<1>3. CASE Predecode
  <2> DEFINE n == Len(process.cache)
             f == list[n + 1]
  <2>0. At("predecode") /\ IsBenchmark
    BY <1>3, <1>b, <1>c DEF Predecode, At
  <2>1. /\ process'.pc = IF n + 1 = Len(list) THEN "acquire" ELSE "predecode"
        /\ process'.cache = Append(process.cache, PairWith(process.previous, f))
        /\ process'.previous = IF n + 1 = Len(list) THEN None ELSE f
        /\ process'.n = process.n /\ process'.samples = process.samples /\ process'.job = process.job
    BY <1>3, <1>b DEF Predecode, At
  <2>2. /\ IsPredecoded /\ process.n = 0 /\ n < Len(list)
        /\ process.previous = IF process.cache = <<>> THEN None ELSE list[n]
        /\ process.cache \in Seq(ToSet(list) \union {None})
        /\ \A k \in DOMAIN process.cache : process.cache[k] = PairInList(list, k)
    BY <2>0 DEF BenchmarkInv, At
  <2>3. n \in Nat /\ (process.cache = <<>> <=> n = 0) /\ DOMAIN process.cache = 1..n
    BY <2>2
  <2>4. job \in Jobs /\ Len(list) \in Nat \ {0} /\ DOMAIN list = 1..Len(list)
    BY <2>0, Benchmarking DEF At
  <2>5. PairWith(process.previous, f) = PairInList(list, n + 1)
    BY <2>2, <2>3, <2>4, PairOfList DEF list, job
  <2>6. PairInList(list, n + 1) \in ToSet(list) \union {None}
    BY <2>2, <2>3, <2>4 DEF PairInList, ToSet
  <2> HIDE DEF n
  <2>6a. PICK v \in ToSet(list) \union {None} :
          process'.cache = Append(process.cache, v) /\ v = PairInList(list, n + 1)
    BY <2>1, <2>5, <2>6
  <2>7. /\ process'.cache \in Seq(ToSet(list) \union {None}) /\ Len(process'.cache) = n + 1
        /\ DOMAIN process'.cache = 1..(n + 1) /\ process'.cache # <<>>
        /\ \A k \in 1..(n + 1) : process'.cache[k] = PairInList(list, k)
    <3>1. process.cache \in Seq(ToSet(list) \union {None}) /\ Len(process.cache) = n
      BY <2>2 DEF n
    <3>2. /\ process'.cache \in Seq(ToSet(list) \union {None}) /\ Len(process'.cache) = n + 1
          /\ \A k \in 1..n : process'.cache[k] = process.cache[k]
          /\ process'.cache[n + 1] = v
      BY <2>6a, <3>1
    <3>3. \A k \in 1..(n + 1) : process'.cache[k] = PairInList(list, k)
      BY <2>2, <2>3, <2>6a, <3>2
    <3>4. DOMAIN process'.cache = 1..(n + 1) /\ process'.cache # <<>>
      BY <2>3, <3>2
    <3> QED
      BY <3>2, <3>3, <3>4
  <2>8. /\ list' = list /\ IsPredecoded' /\ list # <<>> /\ job' = job
        /\ process'.n = 0 /\ 0 \in 0..Total(job.protocol) /\ IsFiniteSet(process'.samples)
        /\ process'.samples = UNION {Sample(job.protocol, m, PairAt(m)) : m \in 0..(process'.n - 1)}
    BY <1>d, <2>0, <2>1, <2>2 DEF BenchmarkInv, At
  <2>9. process'.pc = "acquire" => Len(process'.cache) = Len(list)
    BY <2>1, <2>7
  <2>10. ASSUME process'.pc = "predecode"
         PROVE  Len(process'.cache) < Len(list) /\ process'.previous = list[Len(process'.cache)]
    <3>1. n + 1 # Len(list) /\ process'.previous = list[n + 1]
      BY <2>1, <2>10
    <3>2. n + 1 < Len(list)
      <4>1. n < Len(list) /\ n \in Nat /\ Len(list) \in Nat
        BY <2>2, <2>3, <2>4
      <4> HIDE DEF f
      <4> QED
        BY <3>1, <4>1
    <3> QED
      BY <2>7, <3>1, <3>2
  <2> QED
    <3>1. process'.samples = UNION {Sample(job'.protocol, m, PairAt(m)') : m \in 0..(process'.n - 1)}
      BY <1>d, <2>1, <2>8
    <3>2. process'.pc \in {"predecode", "acquire"}
      BY <2>1
    <3> QED
      BY <2>7, <2>8, <2>9, <2>10, <3>1, <3>2 DEF BenchmarkInv, At
<1>4. CASE Acquire
  <2>0. At("acquire") /\ IsBenchmark
    BY <1>4, <1>b, <1>c DEF Acquire, At
  <2>1. /\ process'.pc = "decode" /\ process'.n = process.n /\ process'.previous = process.previous
        /\ process'.job = process.job /\ process'.samples = process.samples
        /\ process'.cache = process.cache /\ process.n < Total(job.protocol)
    BY <1>4, <1>b, <2>0 DEF Acquire
  <2> QED
    BY <1>d, <2>0, <2>1 DEF BenchmarkInv, At
<1>5. CASE Decode
  <2>0. At("decode") /\ IsBenchmark
    BY <1>5, <1>b, <1>c DEF Decode, At
  <2>1. /\ process'.pc = "infer" /\ process'.n = process.n /\ process'.job = process.job
        /\ process'.samples = process.samples /\ process'.cache = process.cache
        /\ process'.current = Frame(process.n)
        /\ process'.pair = IF IsPredecoded THEN process.cache[(process.n % Len(list)) + 1]
                           ELSE PairWith(process.previous, Frame(process.n))
    BY <1>5, <1>b DEF Decode
  <2>2. process'.pair = PairAt(process.n)
    <3>1. process.n \in Nat /\ (process.n % Len(list)) + 1 \in 1..Len(list)
      BY <2>0, Benchmarking DEF At
    <3>2. CASE IsPredecoded
      <4>1. (process.n % Len(list)) + 1 \in DOMAIN process.cache
        BY <2>0, <3>1, <3>2 DEF BenchmarkInv, At
      <4> QED
        BY <2>0, <2>1, <3>2, <4>1 DEF BenchmarkInv, At, PairAt
    <3>3. CASE ~IsPredecoded
      BY <2>0, <2>1, <3>3 DEF BenchmarkInv, At, PairAt, PairWith
    <3> QED
      BY <3>2, <3>3
  <2> QED
    BY <1>d, <2>0, <2>1, <2>2 DEF BenchmarkInv, At
<1>6. CASE StartInference \/ Infer
  <2>0. /\ process.pc \in {"infer", "inferring"} /\ IsBenchmark
        /\ process'.pc \in {"inferring", "measured"} /\ process' = [process EXCEPT !.pc = process'.pc]
    BY <1>6, <1>b, <1>c DEF StartInference, Infer, Goto, At
  <2>1. /\ process'.n = process.n /\ process'.job = process.job /\ process'.cache = process.cache
        /\ process'.samples = process.samples /\ process'.current = process.current
        /\ process'.pair = process.pair
    BY <1>b, <2>0
  <2> QED
    BY <1>d, <2>0, <2>1 DEF BenchmarkInv, At
<1>7. ASSUME WriteTemporary \/ Install \/ NextFrame PROVE FALSE
  BY <1>7, <1>b, <1>c DEF WriteTemporary, Install, NextFrame, Goto, At, BenchmarkInv
<1>8. CASE Measure
  <2>0. At("measured") /\ IsBenchmark
    BY <1>8, <1>b, <1>c DEF Measure, At
  <2>1. /\ process'.pc = "acquire" /\ process'.n = process.n + 1 /\ process'.job = process.job
        /\ process'.previous = IF IsPredecoded THEN process.previous ELSE process.current
        /\ process'.samples = process.samples \union Sample(job.protocol, process.n, process.pair)
        /\ process'.cache = process.cache
    BY <1>8, <1>b DEF Measure
  <2>2. /\ process.current = Frame(process.n) /\ process.pair = PairAt(process.n)
        /\ process.n < Total(job.protocol) /\ IsFiniteSet(process.samples)
        /\ process.samples = UNION {Sample(job.protocol, m, PairAt(m)) : m \in 0..(process.n - 1)}
    BY <2>0 DEF BenchmarkInv, At
  <2>3. process.n \in Nat /\ Total(job.protocol) \in Nat
    BY <2>0, Benchmarking DEF At
  <2>4. IsFiniteSet(process'.samples)
    <3>1. IsFiniteSet(Sample(job.protocol, process.n, process.pair))
      BY SampleFinite
    <3>2. IsFiniteSet(process.samples \union Sample(job.protocol, process.n, process.pair))
      BY <2>2, <3>1, FS_Union
    <3> QED
      BY <2>1, <3>2
  <2>5. process'.samples = UNION {Sample(job.protocol, m, PairAt(m)) : m \in 0..(process'.n - 1)}
    <3>1. process'.samples = UNION {Sample(job.protocol, m, PairAt(m)) : m \in 0..((process.n + 1) - 1)}
      BY <2>1, <2>2, <2>3, SamplesGrow
    <3> QED
      BY <2>1, <3>1
  <2>6. process'.n \in 0..Total(job.protocol) /\ process'.n # 0 /\ process'.n - 1 = process.n
    BY <2>1, <2>2, <2>3
  <2> QED
    BY <1>d, <2>0, <2>1, <2>2, <2>4, <2>5, <2>6 DEF BenchmarkInv, At
<1>9. CASE FinishBenchmark
  <2>0. At("acquire") /\ IsBenchmark /\ process.n = Total(job.protocol)
    BY <1>9 DEF FinishBenchmark
  <2>1. /\ process'.pc = "report" /\ process'.n = process.n /\ process'.job = process.job
        /\ process'.cache = process.cache /\ process'.samples = process.samples
    BY <1>9, <1>b DEF FinishBenchmark, Goto
  <2> QED
    BY <1>d, <2>0, <2>1 DEF BenchmarkInv, At
<1>10. ASSUME FinishBatch \/ Analyze \/ Fail \/ Crash PROVE FALSE
  BY <1>10, <1>b DEF FinishBatch, Analyze, Fail, Crash, Goto, At
<1> QED
  BY <1>0, <1>1, <1>2, <1>3, <1>4, <1>5, <1>6, <1>7, <1>8, <1>9, <1>10 DEF Next, Step

\* What an iteration samples, and when.
LEMMA SampleOf ==
    ASSUME NEW protocol, protocol.warmup \in Nat, protocol.measured \in Nat,
           NEW n \in Nat, NEW pair, NEW s
    PROVE  s \in Sample(protocol, n, pair) <=>
             \/ n < protocol.warmup /\ s = <<"warmup", n, pair>>
             \/ /\ protocol.warmup <= n /\ n < protocol.warmup + protocol.measured
                /\ s = <<"measured", n - protocol.warmup, pair>>
             \/ /\ protocol.warmup + protocol.measured <= n
                /\ SampledStability(protocol, n - protocol.warmup - protocol.measured + 1)
                /\ s = <<"stability", n - protocol.warmup - protocol.measured, pair>>
BY DEF Sample

\* The iterations of a protocol sample what the analysis of the report demands: the two
\* recompute one schedule.
LEMMA SamplesAreScheduled ==
    ASSUME NEW p, p.warmup \in Nat, p.measured \in Nat, p.stability \in Nat \ {0},
           p.period \in Nat \ {0}, NEW samples,
           samples = UNION {Sample(p, m, PairAt(m)) : m \in 0..(Total(p) - 1)}
    PROVE  {<<s[1], s[2]>> : s \in samples} = Scheduled(p)
<1> DEFINE w == p.warmup
           c == p.measured
           z == p.stability
<1>0. /\ w \in Nat /\ c \in Nat /\ z \in Nat \ {0} /\ Total(p) = w + c + z
      /\ \A m \in 0..(Total(p) - 1) : m \in Nat
  BY DEF Total
<1>1. ASSUME NEW s \in samples PROVE <<s[1], s[2]>> \in Scheduled(p)
  <2>1. PICK m \in 0..(Total(p) - 1) : s \in Sample(p, m, PairAt(m))
    OBVIOUS
  <2>2. CASE m < w /\ s = <<"warmup", m, PairAt(m)>>
    <3>1. m \in 0..(w - 1)
      BY <1>0, <2>2
    <3> QED
      BY <2>2, <3>1 DEF Scheduled
  <2>3. CASE w <= m /\ m < w + c /\ s = <<"measured", m - w, PairAt(m)>>
    <3>1. m - w \in 0..(c - 1)
      BY <1>0, <2>3
    <3> QED
      BY <2>3, <3>1 DEF Scheduled
  <2>4. CASE /\ w + c <= m /\ SampledStability(p, m - w - c + 1)
             /\ s = <<"stability", m - w - c, PairAt(m)>>
    <3>1. m - w - c \in 0..(z - 1) /\ m - w - c + 1 = (m - w - c) + 1
      BY <1>0, <2>4
    <3>2. \/ m - w - c = 0 \/ m - w - c = z - 1
          \/ ((m - w - c) + 1) % p.period = 0
      BY <1>0, <2>4, <3>1 DEF SampledStability
    <3>3. m - w - c \in {0, z - 1} \union {j \in 0..(z - 1) : (j + 1) % p.period = 0}
      BY <3>1, <3>2
    <3>4. <<"stability", m - w - c>> \in Scheduled(p)
      BY <3>3 DEF Scheduled
    <3> QED
      BY <2>4, <3>4
  <2> QED
    BY <1>0, <2>1, <2>2, <2>3, <2>4, SampleOf
<1>2. ASSUME NEW m \in 0..(Total(p) - 1), NEW s \in Sample(p, m, PairAt(m)) PROVE s \in samples
  OBVIOUS
<1>3. ASSUME NEW q \in Scheduled(p) PROVE \E s \in samples : q = <<s[1], s[2]>>
  <2>1. CASE \E k \in 0..(w - 1) : q = <<"warmup", k>>
    <3>1. PICK k \in 0..(w - 1) : q = <<"warmup", k>>
      BY <2>1
    <3>2. <<"warmup", k, PairAt(k)>> \in Sample(p, k, PairAt(k)) /\ k \in 0..(Total(p) - 1)
      BY <1>0, SampleOf
    <3>3. <<"warmup", k, PairAt(k)>> \in samples
      BY <1>2, <3>2
    <3> QED
      BY <3>1, <3>3
  <2>2. CASE \E k \in 0..(c - 1) : q = <<"measured", k>>
    <3>1. PICK k \in 0..(c - 1) : q = <<"measured", k>>
      BY <2>2
    <3>2. /\ w + k \in Nat /\ w <= w + k /\ w + k < w + c /\ (w + k) - w = k
          /\ w + k \in 0..(Total(p) - 1)
      BY <1>0
    <3>3. <<"measured", k, PairAt(w + k)>> \in Sample(p, w + k, PairAt(w + k))
      BY <1>0, <3>2, SampleOf
    <3>4. <<"measured", k, PairAt(w + k)>> \in samples
      BY <1>2, <3>2, <3>3
    <3> QED
      BY <3>1, <3>4
  <2>3. CASE \E k \in {0, z - 1} \union {j \in 0..(z - 1) : (j + 1) % p.period = 0} :
               q = <<"stability", k>>
    <3>1. PICK k \in {0, z - 1} \union {j \in 0..(z - 1) : (j + 1) % p.period = 0} :
               q = <<"stability", k>>
      BY <2>3
    <3>2. k \in 0..(z - 1) /\ SampledStability(p, k + 1)
      BY <1>0, <3>1 DEF SampledStability
    <3>3. /\ w + c + k \in Nat /\ w + c <= w + c + k /\ (w + c + k) - w - c = k
          /\ (w + c + k) - w - c + 1 = k + 1
          /\ w + c + k \in 0..(Total(p) - 1)
      BY <1>0, <3>2
    <3>4. <<"stability", k, PairAt(w + c + k)>> \in Sample(p, w + c + k, PairAt(w + c + k))
      BY <1>0, <3>2, <3>3, SampleOf
    <3>5. <<"stability", k, PairAt(w + c + k)>> \in samples
      BY <1>2, <3>3, <3>4
    <3> QED
      BY <3>1, <3>5
  <2> QED
    BY <2>1, <2>2, <2>3 DEF Scheduled
<1> QED
  BY <1>1, <1>3

\* A stability phase of two frames or more is sampled at its first and its last.
LEMMA TwoStabilitySamples ==
    ASSUME NEW p, p.warmup \in Nat, p.measured \in Nat, p.stability \in Nat \ {0, 1},
           p.period \in Nat \ {0}, NEW samples, IsFiniteSet(samples),
           samples = UNION {Sample(p, m, PairAt(m)) : m \in 0..(Total(p) - 1)}
    PROVE  Cardinality({s \in samples : s[1] = "stability"}) >= 2
<1> DEFINE at(k) == p.warmup + p.measured + k
           of(k) == <<"stability", k, PairAt(at(k))>>
           St == {s \in samples : s[1] = "stability"}
           last == p.stability - 1
<1>1. ASSUME NEW k \in {0, last} PROVE of(k) \in St
  <2>0. k \in 0..last /\ SampledStability(p, k + 1)
    <3>1. k \in 0..last /\ (k + 1 = 1 \/ k + 1 = p.stability)
      OBVIOUS
    <3> QED
      BY <3>1 DEF SampledStability
  <2>1. /\ at(k) \in Nat /\ p.warmup + p.measured <= at(k)
        /\ at(k) - p.warmup - p.measured = k /\ at(k) - p.warmup - p.measured + 1 = k + 1
        /\ at(k) \in 0..(Total(p) - 1)
    BY <2>0 DEF Total
  <2>2. of(k) \in Sample(p, at(k), PairAt(at(k)))
    BY <2>0, <2>1, SampleOf
  <2>3. of(k) \in samples
    BY <2>1, <2>2
  <2> QED
    BY <2>3
<1>2. of(0) # of(last) /\ of(0) \in St /\ of(last) \in St
  BY <1>1
<1> HIDE DEF of, at, last
<1>3. IsFiniteSet({of(0)}) /\ Cardinality({of(0)}) = 1
  BY FS_Singleton
<1>4. Cardinality({of(0)} \union {of(last)}) = 2
  <2>1. of(last) \notin {of(0)}
    BY <1>2
  <2> QED
    BY <1>3, <2>1, FS_AddElement
<1>5. IsFiniteSet(St) /\ Cardinality(St) \in Nat
  <2>1. St \subseteq samples
    OBVIOUS
  <2> HIDE DEF St
  <2> QED
    BY <2>1, FS_Subset, FS_CardinalityType
<1>6. {of(0)} \union {of(last)} \subseteq St
  BY <1>2
<1> HIDE DEF St
<1>7. Cardinality({of(0)} \union {of(last)}) <= Cardinality(St)
  BY <1>5, <1>6, FS_Subset
<1>8. Cardinality(St) >= 2
  BY <1>4, <1>5, <1>7
<1> QED
  BY <1>8 DEF St

\* Away from the wrap, the frame read before the one at a place is its neighbour in the list.
LEMMA PairAcross ==
    ASSUME NEW l, NEW L \in Nat \ {0}, NEW here \in 0..(L - 1), NEW before \in Int,
           NEW m \in Nat, m = 0 => here = 0,
           m # 0 => before = IF here = 0 THEN L - 1 ELSE here - 1,
           \A i \in 1..L : l[i] # None,
           here = 0 => ~SameSequence(l[L], l[1])
    PROVE  (IF m = 0 THEN None ELSE PairWith(l[before + 1], l[here + 1])) = PairInList(l, here + 1)
<1>1. CASE here = 0
  <2>1. m # 0 => before + 1 = L
    BY <1>1
  <2>2. PairInList(l, here + 1) = None
    BY <1>1 DEF PairInList
  <2>3. here + 1 = 1
    BY <1>1
  <2>4. m # 0 => PairWith(l[before + 1], l[here + 1]) = None
    BY <1>1, <2>1, <2>3 DEF PairWith
  <2> QED
    BY <2>2, <2>4
<1>2. CASE here # 0
  <2>1. here + 1 > 1 /\ here \in 1..L /\ m # 0
    BY <1>2
  <2>2. before + 1 = here /\ (here + 1) - 1 = here
    BY <1>2, <2>1
  <2>3. l[here] # None
    BY <2>1
  <2> QED
    BY <2>1, <2>2, <2>3 DEF PairWith, PairInList, SameSequence
<1> QED
  BY <1>1, <1>2

\* Away from the wrap of a list whose last frame precedes its first, an iteration pairs what
\* the list demands, however its frames are read.
LEMMA PairsOfTheList ==
    ASSUME NEW j \in Jobs, process.job = j, j.list # <<>>, NEW m \in Nat,
           ~(/\ ~IsPredecoded /\ (m % Len(j.list)) + 1 = 1
             /\ SameSequence(j.list[Len(j.list)], j.list[1]))
    PROVE  PairAt(m) = PairInList(j.list, (m % Len(j.list)) + 1)
<1> DEFINE l == j.list
           L == Len(l)
           here == m % L
           before == (m - 1) % L
<1>1. list = l
  BY DEF list, job
<1>2. L \in Nat \ {0} /\ \A i \in 1..L : l[i] # None
  <2>1. j.list \in Seq(ToSet(j.list))
    BY RuntimeConstants
  <2> QED
    BY <2>1, ListType
<1>3. Frame(m) = l[here + 1] /\ Frame(m - 1) = l[before + 1]
  BY <1>1 DEF Frame
<1>4. PairAt(m) = IF IsPredecoded THEN PairInList(l, here + 1)
                  ELSE IF m = 0 THEN None ELSE PairWith(l[before + 1], l[here + 1])
  BY <1>1, <1>3 DEF PairAt
<1>5. ~IsPredecoded => (here + 1 = 1 => ~SameSequence(l[L], l[1]))
  OBVIOUS
<1> HIDE DEF l, L
<1>6. here \in 0..(L - 1) /\ (m = 0 => here = 0)
  <2>1. here \in 0..(L - 1)
    BY <1>2, PlaceInList
  <2>2. 0 % L = 0
    BY <1>2
  <2> QED
    BY <2>1, <2>2
<1>7. before \in Int /\ (m # 0 => before = IF here = 0 THEN L - 1 ELSE here - 1)
  <2>1. m # 0 => before = IF here = 0 THEN L - 1 ELSE here - 1
    BY <1>2, PlaceBefore
  <2>2. before \in Int
    BY <1>2
  <2> QED
    BY <2>1, <2>2
<1> HIDE DEF here, before
<1>8. ~IsPredecoded => (here = 0 => ~SameSequence(l[L], l[1]))
  BY <1>5
<1>9. ~IsPredecoded =>
        (IF m = 0 THEN None ELSE PairWith(l[before + 1], l[here + 1])) = PairInList(l, here + 1)
  BY <1>2, <1>6, <1>7, <1>8, PairAcross
<1>10. PairAt(m) = PairInList(l, here + 1)
  BY <1>4, <1>9
<1> QED
  BY <1>10 DEF here, L, l

\* A benchmark that ends clean has the samples its analysis demands, each of the pair its list
\* demands but at the wrap (cpp/runtime/main.cpp, python/junctionlens/runtime/benchmark.py).
THEOREM CleanBenchmarksAreWhole == Spec => []MeasurementsAreWhole
<1>1. Init => BenchmarkInv
  BY DEF Init, Idle, BenchmarkInv, At
<1>2. ASSUME LeaseInv, BenchmarkInv PROVE MeasurementsAreWhole
  <2> SUFFICES ASSUME At("report")
               PROVE  /\ job.protocol.stability # 1 => Analyzable(process.samples, job.protocol)
                      /\ \A s \in process.samples : s[1] = "measured" =>
                            LET k == ((s[2] + job.protocol.warmup) % Len(list)) + 1
                                isWrap == ~IsPredecoded /\ k = 1 /\ SameSequence(list[Len(list)], list[1])
                            IN  ~isWrap => s[3] = PairInList(list, k)
    BY DEF MeasurementsAreWhole
  <2>1. ~At("ended") /\ ~At("load") /\ IsBenchmark
    BY <1>2 DEF LeaseInv, At, IsBenchmark
  <2>2. job \in Jobs /\ job.mode = "benchmark" /\ list # <<>>
    BY <1>2, <2>1, Benchmarking DEF BenchmarkInv
  <2> DEFINE p == job.protocol
             samples == process.samples
  <2>3. IsFiniteSet(samples) /\ samples = UNION {Sample(p, m, PairAt(m)) : m \in 0..(Total(p) - 1)}
    BY <1>2, <2>1 DEF BenchmarkInv
  <2>4. /\ p.warmup \in Nat /\ p.measured \in Nat /\ p.stability \in Nat \ {0}
        /\ p.period \in Nat \ {0} /\ Total(p) \in Nat
    BY <2>2, ProtocolType
  <2> HIDE DEF p, samples
  <2>5. ASSUME p.stability # 1 PROVE Analyzable(samples, p)
    <3>1. p.stability \in Nat \ {0, 1}
      BY <2>4, <2>5
    <3> QED
      BY <2>3, <2>4, <3>1, SamplesAreScheduled, TwoStabilitySamples DEF Analyzable
  <2>6. ASSUME NEW s \in samples, s[1] = "measured", NEW k, k = ((s[2] + p.warmup) % Len(list)) + 1,
               ~(~IsPredecoded /\ k = 1 /\ SameSequence(list[Len(list)], list[1]))
        PROVE  s[3] = PairInList(list, k)
    <3>1. PICK m \in 0..(Total(p) - 1) : s \in Sample(p, m, PairAt(m))
      BY <2>3, <2>6
    <3>2. m \in Nat
      BY <2>4
    <3>3. s = <<"measured", m - p.warmup, PairAt(m)>>
      BY <2>4, <2>6, <3>1, <3>2, SampleOf
    <3>4. s[2] + p.warmup = m /\ s[3] = PairAt(m)
      BY <2>4, <3>2, <3>3
    <3>5. list = job.list /\ process.job = job
      BY DEF list, job
    <3> QED
      BY <2>2, <2>6, <3>2, <3>4, <3>5, PairsOfTheList
  <2> QED
    BY <2>5, <2>6 DEF p, samples
<1> QED
  BY <1>1, <1>2, LeaseInit, LeaseNext, BenchmarkNext, PTL DEF Spec
=============================================================================
