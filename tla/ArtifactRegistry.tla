--------------------------- MODULE ArtifactRegistry ---------------------------
(***************************************************************************)
(* The evidence registry: immutable content-addressed objects              *)
(* (registry/store.py), the DuckDB index over them (registry/index.py) and *)
(* the commands put, rebuild-index and gc --dry-run (registry/service.py), *)
(* run by several processes that may crash between any two steps.          *)
(*                                                                         *)
(* An object is its SHA-256.  An artifact is the hash of its manifest;     *)
(* the manifest names a payload and parent hashes.  The writer lock is the *)
(* one of RegistryLock, here a variable that a crash gives back.           *)
(***************************************************************************)
EXTENDS Naturals, FiniteSets

CONSTANTS
    Proc,       \* processes that run registry commands
    Artifact,   \* manifest hashes
    Blob,       \* hashes of objects that are no manifest
    Unknown,    \* hashes no object has
    PayloadOf,  \* PayloadOf[a]: the payload hash manifest a names
    ParentsOf,  \* ParentsOf[a]: the parent hashes manifest a names
    MaxFaults,  \* bound: crashes and failing calls
    MaxDamage,  \* bound: objects whose bytes rot
    MayLoseIndex, \* whether the DuckDB file may be lost, once
    NoProc, None

Object == Artifact \union Blob

ASSUME RegistryConstants ==
    /\ PayloadOf \in [Artifact -> Object]
    /\ ParentsOf \in [Artifact -> SUBSET (Object \union Unknown)]
    /\ MaxFaults \in Nat /\ MaxDamage \in Nat /\ MayLoseIndex \in BOOLEAN
    /\ NoProc \notin Proc /\ None \notin Object

\* A manifest is hashed with the hashes of its parents in it, so ancestry has no cycle.
ASSUME AncestryIsAcyclic ==
    \A S \in SUBSET Artifact : S # {} => \E a \in S : ParentsOf[a] \intersect S = {}

VARIABLES
    objects,   \* objects published under objects/sha256
    damaged,   \* published objects whose bytes no longer have their hash
    litter,    \* targets of .object-* files a dead or failed install left behind
    rows,      \* artifacts with a row (and their parent edges) in the index
    writer,    \* who is inside a DuckDB transaction under the writer lock
    pc,        \* where each process is
    cmd,       \* the command each process runs
    job,       \* the artifact it stores or indexes
    temp,      \* the target of its .object-* file
    seen,      \* the hashes it read from the index
    todo,      \* rebuild: pending manifests; gc: reported orphans
    want,      \* history: the manifests a rebuild found on disk
    acked,     \* history: artifacts whose put returned a receipt
    faults,    \* history: failures so far
    lost       \* history: the index was lost

disk  == <<objects, damaged, litter>>
local == <<job, temp, seen, todo, want>>
hist  == <<acked, faults, lost>>
vars  == <<disk, rows, writer, pc, cmd, local, hist>>

PC == {"idle", "payload", "plink", "manifest", "mlink", "verify", "lock", "tx", "commit",
       "return", "rbindex", "rbloop", "rbdone", "rbstuck", "rbrefused", "gclist", "gcdone"}

Goto(p, label) == pc' = [pc EXCEPT ![p] = label]

\* The command ends, with a result or an exception; its variables are gone.
End(p) ==
    /\ Goto(p, "idle")
    /\ cmd' = [cmd EXCEPT ![p] = "none"]
    /\ job' = [job EXCEPT ![p] = None]
    /\ temp' = [temp EXCEPT ![p] = None]
    /\ seen' = [seen EXCEPT ![p] = {}]
    /\ todo' = [todo EXCEPT ![p] = {}]
    /\ want' = [want EXCEPT ![p] = {}]

\* read_manifest: the manifest and its payload are there and rehash correctly.
Readable(a) == {a, PayloadOf[a]} \subseteq objects \ damaged

\* RegistryIndex.indexed_hashes: manifests and payloads of the rows.
IndexedPayloads == {PayloadOf[a] : a \in rows}
IndexedHashes == rows \union IndexedPayloads

\* Names in the fanout directories that are not object names.
Strays == litter # {} \/ \E p \in Proc : temp[p] # None

Init ==
    /\ objects = {} /\ damaged = {} /\ litter = {}
    /\ rows = {} /\ writer = NoProc
    /\ pc = [p \in Proc |-> "idle"]
    /\ cmd = [p \in Proc |-> "none"]
    /\ job = [p \in Proc |-> None]
    /\ temp = [p \in Proc |-> None]
    /\ seen = [p \in Proc |-> {}]
    /\ todo = [p \in Proc |-> {}]
    /\ want = [p \in Proc |-> {}]
    /\ acked = {} /\ faults = 0 /\ lost = FALSE

-----------------------------------------------------------------------------
(***************************************************************************)
(* put: payload, manifest, index row                                       *)
(***************************************************************************)

\* Every command opens the registry, and RegistryIndex.initialize takes the
\* writer lock first: it raises while another process is in a transaction.
Open(p, c, label) ==
    /\ pc[p] = "idle"
    /\ writer = NoProc
    /\ cmd' = [cmd EXCEPT ![p] = c]
    /\ Goto(p, label)

StartPut(p, a) ==
    /\ Open(p, "put", "payload")
    /\ job' = [job EXCEPT ![p] = a]
    /\ UNCHANGED <<disk, rows, writer, temp, seen, todo, want, hist>>

\* What _install_file installs next, and where put continues after it.
Target(p) == IF pc[p] \in {"payload", "plink"} THEN PayloadOf[job[p]] ELSE job[p]
Installed(p) == Goto(p, IF pc[p] \in {"payload", "plink"} THEN "manifest" ELSE "verify")

\* Seeded bug: an object that exists already is an error.
InstallRefusesExisting(p) ==
    /\ pc[p] \in {"payload", "manifest"}
    /\ Target(p) \in objects
    /\ End(p)
    /\ UNCHANGED <<disk, rows, writer, hist>>

\* target.exists(): rehash it, never overwrite it.
InstallExisting(p) ==
    /\ pc[p] \in {"payload", "manifest"}
    /\ Target(p) \in objects
    /\ IF Target(p) \in damaged
       THEN End(p)
       ELSE Installed(p) /\ UNCHANGED <<cmd, local>>
    /\ UNCHANGED <<disk, rows, writer, hist>>

\* A .object-* file beside the target: copied, flushed and rehashed.
CopyTemp(p) ==
    /\ pc[p] \in {"payload", "manifest"}
    /\ Target(p) \notin objects
    /\ temp' = [temp EXCEPT ![p] = Target(p)]
    /\ Goto(p, IF pc[p] = "payload" THEN "plink" ELSE "mlink")
    /\ UNCHANGED <<disk, rows, writer, cmd, job, seen, todo, want, hist>>

\* os.link publishes, or finds the object another process linked meanwhile and
\* verifies that; the finally removes the temporary file.
Link(p) ==
    /\ pc[p] \in {"plink", "mlink"}
    /\ objects' = objects \union {Target(p)}
    /\ IF Target(p) \in damaged
       THEN End(p)
       ELSE /\ Installed(p)
            /\ temp' = [temp EXCEPT ![p] = None]
            /\ UNCHANGED <<cmd, job, seen, todo, want>>
    /\ UNCHANGED <<damaged, litter, rows, writer, hist>>

\* The copy fails or the source changed under it (the temporary file is
\* removed), or the rehash or chmod fails (it is not).
InstallFails(p) ==
    /\ pc[p] \in {"plink", "mlink"}
    /\ faults < MaxFaults
    /\ faults' = faults + 1
    /\ litter' \in {litter, litter \union {temp[p]}}
    /\ End(p)
    /\ UNCHANGED <<objects, damaged, rows, writer, acked, lost>>

-----------------------------------------------------------------------------
(***************************************************************************)
(* index_manifest, called by put and for each manifest of a rebuild        *)
(***************************************************************************)

VerifyManifest(p) ==
    /\ pc[p] = "verify"
    /\ IF Readable(job[p]) THEN Goto(p, "lock") /\ UNCHANGED <<cmd, local>> ELSE End(p)
    /\ UNCHANGED <<disk, rows, writer, hist>>

\* A lock held by a live process raises; nobody waits.
TakeLock(p) ==
    /\ pc[p] = "lock"
    /\ IF writer = NoProc
       THEN writer' = p /\ Goto(p, "tx") /\ UNCHANGED <<cmd, local>>
       ELSE End(p) /\ UNCHANGED writer
    /\ UNCHANGED <<disk, rows, hist>>

\* Seeded bug: the row is inserted without looking up the parents.
ParentsUnchecked(p) ==
    /\ pc[p] = "tx"
    /\ Goto(p, "commit")
    /\ UNCHANGED <<disk, rows, writer, cmd, local, hist>>

\* A new row needs every parent indexed; else ROLLBACK and raise.
CheckParents(p) ==
    /\ pc[p] = "tx"
    /\ IF job[p] \in rows \/ ParentsOf[job[p]] \subseteq rows
       THEN Goto(p, "commit") /\ UNCHANGED <<writer, cmd, local>>
       ELSE /\ writer' = NoProc
            /\ IF cmd[p] = "put" THEN End(p)
               ELSE Goto(p, "rbrefused") /\ UNCHANGED <<cmd, local>>
    /\ UNCHANGED <<disk, rows, hist>>

Commit(p) ==
    /\ pc[p] = "commit"
    /\ rows' = rows \union {job[p]}
    /\ writer' = NoProc
    /\ Goto(p, "return")
    /\ UNCHANGED <<disk, cmd, local, hist>>

\* Seeded bug: the exception of a rolled back transaction is suppressed.
FailureSuppressed(p) ==
    /\ pc[p] \in {"tx", "commit"}
    /\ faults < MaxFaults
    /\ faults' = faults + 1
    /\ writer' = NoProc
    /\ Goto(p, "return")
    /\ UNCHANGED <<disk, rows, cmd, local, acked, lost>>

\* Heartbeat, injected fault or DuckDB error: ROLLBACK, release, raise.
TransactionFails(p) ==
    /\ pc[p] \in {"tx", "commit"}
    /\ faults < MaxFaults
    /\ faults' = faults + 1
    /\ writer' = NoProc
    /\ End(p)
    /\ UNCHANGED <<disk, rows, acked, lost>>

ReturnReceipt(p) ==
    /\ pc[p] = "return"
    /\ cmd[p] = "put"
    /\ acked' = acked \union {job[p]}
    /\ End(p)
    /\ UNCHANGED <<disk, rows, writer, faults, lost>>

-----------------------------------------------------------------------------
(***************************************************************************)
(* rebuild_missing_index_rows                                              *)
(***************************************************************************)

\* _object_paths and read_manifest of each; a stray name raises.
StartRebuild(p) ==
    /\ ~Strays
    /\ Open(p, "rebuild", "rbindex")
    /\ LET found == {a \in Artifact : a \in objects /\ Readable(a)}
       IN  todo' = [todo EXCEPT ![p] = found] /\ want' = [want EXCEPT ![p] = found]
    /\ UNCHANGED <<disk, rows, writer, job, temp, seen, hist>>

\* DuckDB refuses the connection while another process is in a transaction.
ReadIndexed(p) ==
    /\ pc[p] = "rbindex"
    /\ IF writer # NoProc THEN End(p)
       ELSE /\ seen' = [seen EXCEPT ![p] = IndexedHashes]
            /\ todo' = [todo EXCEPT ![p] = @ \ IndexedHashes]
            /\ Goto(p, "rbloop")
            /\ UNCHANGED <<cmd, job, temp, want>>
    /\ UNCHANGED <<disk, rows, writer, hist>>

Eligible(p) == {a \in todo[p] : ParentsOf[a] \subseteq seen[p]}

\* The first eligible manifest in hash order; which one comes first is arbitrary.
PickManifest(p) ==
    /\ pc[p] = "rbloop"
    /\ \E a \in Eligible(p) :
         /\ Readable(a)
         /\ job' = [job EXCEPT ![p] = a]
    /\ Goto(p, "verify")
    /\ UNCHANGED <<disk, rows, writer, cmd, temp, seen, todo, want, hist>>

\* read_manifest inside the loop meets an object that rotted since the listing.
RebuildMeetsDamage(p) ==
    /\ pc[p] = "rbloop"
    /\ \E a \in todo[p] : ~Readable(a)
    /\ End(p)
    /\ UNCHANGED <<disk, rows, writer, hist>>

\* Seeded bug: what the loop recovered does not count as indexed.
RecoveredForgotten(p) ==
    /\ pc[p] = "return"
    /\ cmd[p] = "rebuild"
    /\ todo' = [todo EXCEPT ![p] = @ \ {job[p]}]
    /\ job' = [job EXCEPT ![p] = None]
    /\ Goto(p, "rbloop")
    /\ UNCHANGED <<disk, rows, writer, cmd, temp, seen, want, hist>>

ManifestRecovered(p) ==
    /\ pc[p] = "return"
    /\ cmd[p] = "rebuild"
    /\ seen' = [seen EXCEPT ![p] = @ \union {job[p]}]
    /\ todo' = [todo EXCEPT ![p] = @ \ {job[p]}]
    /\ job' = [job EXCEPT ![p] = None]
    /\ Goto(p, "rbloop")
    /\ UNCHANGED <<disk, rows, writer, cmd, temp, want, hist>>

\* ACCEPTED, or "parents are missing or cyclic".
EndRebuild(p) ==
    /\ pc[p] = "rbloop"
    /\ Eligible(p) = {}
    /\ Goto(p, IF todo[p] = {} THEN "rbdone" ELSE "rbstuck")
    /\ UNCHANGED <<disk, rows, writer, cmd, local, hist>>

-----------------------------------------------------------------------------
(***************************************************************************)
(* garbage_collection_dry_run: the index is read first, then the objects   *)
(***************************************************************************)

\* Seeded bug: payloads of manifests without a row count as reachable.
GcFromDisk(p) ==
    /\ Open(p, "gc", "gclist")
    /\ seen' = [seen EXCEPT ![p] = IndexedHashes \union {PayloadOf[a] : a \in Artifact}]
    /\ UNCHANGED <<disk, rows, writer, job, temp, todo, want, hist>>

StartGc(p) ==
    /\ Open(p, "gc", "gclist")
    /\ seen' = [seen EXCEPT ![p] = IndexedHashes]
    /\ UNCHANGED <<disk, rows, writer, job, temp, todo, want, hist>>

ReportOrphans(p) ==
    /\ pc[p] = "gclist"
    /\ IF Strays THEN End(p)
       ELSE /\ todo' = [todo EXCEPT ![p] = objects \ seen[p]]
            /\ Goto(p, "gcdone")
            /\ UNCHANGED <<cmd, job, temp, seen, want>>
    /\ UNCHANGED <<disk, rows, writer, hist>>

\* The command prints its result or its exception and exits.
Leave(p) ==
    /\ pc[p] \in {"rbdone", "rbstuck", "rbrefused", "gcdone"}
    /\ End(p)
    /\ UNCHANGED <<disk, rows, writer, hist>>

-----------------------------------------------------------------------------
(***************************************************************************)
(* Crashes, storage damage and the loss of the index                       *)
(***************************************************************************)

\* The .object-* file stays; DuckDB drops the transaction, and the stale lock is
\* reclaimed by the next command.  A file left in .staging is only ever counted.
Crash(p) ==
    /\ pc[p] # "idle"
    /\ faults < MaxFaults
    /\ faults' = faults + 1
    /\ litter' = litter \union ({temp[p]} \ {None})
    /\ writer' = IF writer = p THEN NoProc ELSE writer
    /\ End(p)
    /\ UNCHANGED <<objects, damaged, rows, acked, lost>>

Damage(o) ==
    /\ o \in objects \ damaged
    /\ Cardinality(damaged) < MaxDamage
    /\ damaged' = damaged \union {o}
    /\ UNCHANGED <<objects, litter, rows, writer, pc, cmd, local, hist>>

LoseIndex ==
    /\ MayLoseIndex /\ ~lost
    /\ \A p \in Proc : pc[p] = "idle"
    /\ rows' = {} /\ lost' = TRUE
    /\ UNCHANGED <<disk, writer, pc, cmd, local, acked, faults>>

Work(p) ==
    \/ InstallExisting(p) \/ CopyTemp(p) \/ Link(p)
    \/ VerifyManifest(p) \/ TakeLock(p) \/ CheckParents(p) \/ Commit(p) \/ ReturnReceipt(p)
    \/ ReadIndexed(p) \/ PickManifest(p) \/ RebuildMeetsDamage(p) \/ ManifestRecovered(p)
    \/ EndRebuild(p) \/ ReportOrphans(p) \/ Leave(p)

Next ==
    \/ \E p \in Proc :
         \/ \E a \in Artifact : StartPut(p, a)
         \/ StartRebuild(p) \/ StartGc(p) \/ Work(p)
         \/ InstallFails(p) \/ TransactionFails(p) \/ Crash(p)
    \/ \E o \in Object : Damage(o)
    \/ LoseIndex

Spec == Init /\ [][Next]_vars

\* A started command runs on, and a client that wants an artifact stored keeps
\* issuing its put whenever it can.
FairSpec ==
    /\ Spec
    /\ \A p \in Proc : WF_vars(Work(p))
    /\ \A p \in Proc, a \in Artifact : SF_vars(StartPut(p, a))

-----------------------------------------------------------------------------

\* The type invariant of the registry.
TypeOK ==
    /\ objects \subseteq Object /\ damaged \subseteq objects /\ litter \subseteq Object
    /\ rows \subseteq Artifact /\ acked \subseteq Artifact
    /\ writer \in Proc \union {NoProc}
    /\ pc \in [Proc -> PC]
    /\ cmd \in [Proc -> {"none", "put", "rebuild", "gc"}]
    /\ job \in [Proc -> Artifact \union {None}]
    /\ temp \in [Proc -> Object \union {None}]
    /\ seen \in [Proc -> SUBSET Object]
    /\ todo \in [Proc -> SUBSET Object]
    /\ want \in [Proc -> SUBSET Artifact]
    /\ faults \in Nat /\ lost \in BOOLEAN

Stored(a) == {a, PayloadOf[a]} \subseteq objects

\* Crash order: wherever a crash or a failing call stops a put or a transaction,
\* an index row has its manifest and payload on disk, never the other way round.
IndexedIsStored == \A a \in rows : Stored(a)

\* The parent check inside the transaction: the ancestry of every row is indexed,
\* in whatever order puts and rebuilds of several processes commit.
ProvenanceIsClosed == \A a \in rows : ParentsOf[a] \subseteq rows

\* A receipt is a promise: what put returned is stored and, unless the DuckDB
\* file itself was lost, indexed, whatever crashed since.
ReceiptIsDurable == \A a \in acked : Stored(a) /\ (lost \/ a \in rows)

\* Where a process is in put or index_manifest, and what is true by then.
PipelineOK(p) ==
    /\ pc[p] \in {"payload", "plink", "manifest", "mlink", "verify", "lock", "tx", "commit",
                  "return"} => job[p] \in Artifact
    /\ pc[p] \in {"plink", "mlink"} => temp[p] = Target(p)
    /\ pc[p] \in {"manifest", "mlink"} => PayloadOf[job[p]] \in objects
    /\ pc[p] \in {"lock", "tx", "commit", "return"} => Stored(job[p])
    /\ pc[p] = "commit" => job[p] \in rows \/ ParentsOf[job[p]] \subseteq rows
    /\ pc[p] = "return" => job[p] \in rows
    /\ pc[p] # "gcdone" => todo[p] \subseteq Artifact

\* The inductive invariant of the registry.
RegistryInv ==
    /\ TypeOK
    /\ \A p \in Proc : PipelineOK(p)
    /\ IndexedIsStored
    /\ ProvenanceIsClosed
    /\ ReceiptIsDurable

\* The largest set of the manifests a rebuild found whose parents are in it or are rows the
\* rebuild knew of: what it can index.  A manifest stored as the payload of an artifact counts
\* as indexed with that artifact and is passed over.
Recoverable(p) ==
    UNION {S \in SUBSET (want[p] \ IndexedPayloads) :
             \A a \in S : ParentsOf[a] \subseteq S \union (rows \intersect seen[p])}

\* docs/artifact-registry.md:69: the index can be reconstructed from verified
\* immutable manifests.  When the loop of a rebuild ends, every manifest it found
\* whose ancestry it also found is indexed, even if others are not; and it gives up
\* early only over a manifest that names the payload of an artifact as a parent.  That
\* one seems eligible (indexed_hashes has the payloads too) and is refused, each time.
RebuildIsComplete ==
    \A p \in Proc :
       /\ pc[p] \in {"rbdone", "rbstuck"} => Recoverable(p) \subseteq rows
       /\ pc[p] = "rbrefused" => \E a \in want[p] : ParentsOf[a] \intersect IndexedPayloads # {}

\* Why: what a process in a rebuild or in gc knows of the index is still so, and what a
\* rebuild no longer has to do it has seen indexed.
KnowledgeOK(p) ==
    /\ pc[p] \in {"payload", "plink", "manifest", "mlink"} => cmd[p] = "put"
    /\ pc[p] \in {"verify", "lock", "tx", "commit", "return"} => cmd[p] \in {"put", "rebuild"}
    /\ pc[p] \in {"rbindex", "rbloop", "rbdone", "rbstuck", "rbrefused"} => cmd[p] = "rebuild"
    /\ pc[p] \in {"gclist", "gcdone"} => cmd[p] = "gc"
    /\ IF pc[p] = "idle" THEN seen[p] = {} ELSE seen[p] \subseteq IndexedHashes
    /\ cmd[p] = "rebuild" /\ pc[p] \notin {"idle", "rbindex"} => want[p] \ todo[p] \subseteq seen[p]
    /\ cmd[p] = "rebuild" /\ pc[p] \in {"verify", "lock", "tx", "commit", "return"} =>
         job[p] \in want[p] /\ ParentsOf[job[p]] \subseteq seen[p]
    /\ cmd[p] = "rebuild" => todo[p] \subseteq want[p]
    /\ pc[p] = "rbindex" => todo[p] = want[p]
    /\ pc[p] = "rbdone" => todo[p] = {}
    /\ pc[p] = "rbstuck" => Eligible(p) = {}
    /\ pc[p] = "rbrefused" => \E a \in want[p] : ParentsOf[a] \intersect IndexedPayloads # {}

RebuildInv == RegistryInv /\ \A p \in Proc : KnowledgeOK(p)

\* An object that is unindexed when gc lists the directories is in its report.
GcMissesNothing ==
    [][\A p \in Proc : (pc[p] = "gclist" /\ pc'[p] = "gcdone")
         => objects \ IndexedHashes \subseteq todo'[p]]_vars

\* docs/artifact-registry.md:83: a failure leaves immutable bytes available for a
\* byte-identical retry.  After its last failure a client that retries its put
\* gets its receipt, if the parents are artifacts that are put too.
RetryCompletes == \A a \in Artifact : <>(a \in acked)
=============================================================================
