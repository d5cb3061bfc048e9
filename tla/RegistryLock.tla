----------------------------- MODULE RegistryLock -----------------------------
(***************************************************************************)
(* The advisory writer lock of the artifact registry                       *)
(* (python/junctionlens/registry/lock.py): a directory made by mkdir, an   *)
(* owner record written into it, and the recovery of a lock whose owner    *)
(* process is gone.  A process is one operating-system process running     *)
(* registry commands; every command takes the lock for one DuckDB          *)
(* transaction (index.py), so a process goes from "idle" through acquire,  *)
(* the transaction and release back to "idle", and may terminate anywhere. *)
(*                                                                         *)
(* Each step is one call on the file system or on the process table; the   *)
(* file system is shared, everything else a process knows is its own.      *)
(***************************************************************************)
EXTENDS Naturals, FiniteSets

CONSTANTS
    Proc,       \* operating-system processes; a restart is another process
    Mortal,     \* the processes that may terminate
    HostOf,     \* HostOf[p]: the host_fingerprint of p
    MaxLease,   \* bound: how often one process makes the lock directory
    NoDir,      \* nothing at that path
    NoOwner     \* a lock directory without owner.json

\* lock_id is a fresh uuid per acquisition; the record also carries the pid.
LockId == Proc \X (1..MaxLease)
Pid(id) == id[1]

\* A lock directory: its owner record and its .owner-<lock_id>.tmp files.
Dir == [owner : LockId \union {NoOwner}, tmp : SUBSET LockId]
EmptyDir == [owner |-> NoOwner, tmp |-> {}]

\* .reclaimed-<lock_id> and .released-<lock_id>
TombName == {"reclaimed", "released"} \X LockId

ASSUME LockConstants ==
    /\ Mortal \subseteq Proc
    /\ MaxLease \in Nat
    /\ NoDir \notin Dir
    /\ NoOwner \notin LockId

VARIABLES
    lockDir,      \* what is at registry-writer.lock
    tomb,         \* what is at each tombstone path
    recovered,    \* lock_ids with a line in recovery-events.jsonl
    pc,           \* where each process is
    leases,       \* how many lock_ids each process has drawn
    cand,         \* the owner record a process read before it reclaims
    misreclaimed  \* history: a reclaim moved a directory it had not inspected

vars == <<lockDir, tomb, recovered, pc, leases, cand, misreclaimed>>

PC == {"idle", "mkdir", "inspect", "probe", "rename", "record", "rmtomb",
       "write", "publish", "sync", "rmlock", "held", "hbtmp", "hbpublish",
       "beaten", "release", "unlink", "rmreleased", "dead"}

Mine(p) == <<p, leases[p]>>
Alive(p) == pc[p] # "dead"
Present == lockDir # NoDir
OwnerIs(id) == Present /\ lockDir.owner = id

Goto(p, label) == pc' = [pc EXCEPT ![p] = label]

Init ==
    /\ lockDir = NoDir
    /\ tomb = [t \in TombName |-> NoDir]
    /\ recovered = {}
    /\ pc = [p \in Proc |-> "idle"]
    /\ leases = [p \in Proc |-> 0]
    /\ cand = [p \in Proc |-> NoOwner]
    /\ misreclaimed = FALSE

-----------------------------------------------------------------------------
(***************************************************************************)
(* acquire: mkdir, or inspect the directory that is in the way             *)
(***************************************************************************)

Begin(p) ==
    /\ pc[p] = "idle"
    /\ Goto(p, "mkdir")
    /\ UNCHANGED <<lockDir, tomb, recovered, leases, cand, misreclaimed>>

\* Seeded bug: mkdir(exist_ok=True).
MkdirExistOk(p) ==
    /\ pc[p] = "mkdir"
    /\ leases[p] < MaxLease
    /\ lockDir' = IF Present THEN lockDir ELSE EmptyDir
    /\ leases' = [leases EXCEPT ![p] = @ + 1]
    /\ Goto(p, "write")
    /\ UNCHANGED <<tomb, recovered, cand, misreclaimed>>

Mkdir(p) ==
    /\ pc[p] = "mkdir"
    /\ ~Present
    /\ leases[p] < MaxLease
    /\ lockDir' = EmptyDir
    /\ leases' = [leases EXCEPT ![p] = @ + 1]
    /\ Goto(p, "write")
    /\ UNCHANGED <<tomb, recovered, cand, misreclaimed>>

\* Seeded bug: the mkdir inside the try whose except removes the directory.
MkdirExistsCleansUp(p) ==
    /\ pc[p] = "mkdir"
    /\ Present
    /\ Goto(p, "rmlock")
    /\ UNCHANGED <<lockDir, tomb, recovered, leases, cand, misreclaimed>>

MkdirExists(p) ==
    /\ pc[p] = "mkdir"
    /\ Present
    /\ Goto(p, "inspect")
    /\ UNCHANGED <<lockDir, tomb, recovered, leases, cand, misreclaimed>>

\* A valid owner record of p's own host.
Readable(p) ==
    /\ Present
    /\ lockDir.owner # NoOwner
    /\ HostOf[Pid(lockDir.owner)] = HostOf[p]

\* The directory is gone again, holds no owner record, or is another host's:
\* each raises RegistryLockError; the command fails without waiting.
InspectRefuses(p) ==
    /\ pc[p] = "inspect"
    /\ ~Readable(p)
    /\ Goto(p, "idle")
    /\ UNCHANGED <<lockDir, tomb, recovered, leases, cand, misreclaimed>>

ReadOwner(p) ==
    /\ pc[p] = "inspect"
    /\ Readable(p)
    /\ cand' = [cand EXCEPT ![p] = lockDir.owner]
    /\ Goto(p, "probe")
    /\ UNCHANGED <<lockDir, tomb, recovered, leases, misreclaimed>>

\* Seeded bug: the owner is never probed.
ProbeSkipped(p) ==
    /\ pc[p] = "probe"
    /\ Goto(p, "rename")
    /\ UNCHANGED <<lockDir, tomb, recovered, leases, cand, misreclaimed>>

\* Seeded bug: an absent process is reported alive.
ProbeAlwaysAlive(p) ==
    /\ pc[p] = "probe"
    /\ Goto(p, "idle")
    /\ UNCHANGED <<lockDir, tomb, recovered, leases, cand, misreclaimed>>

\* _process_alive(owner.pid): a live owner raises, an absent one is reclaimed.
ProbeOwner(p) ==
    /\ pc[p] = "probe"
    /\ Goto(p, IF Alive(Pid(cand[p])) THEN "idle" ELSE "rename")
    /\ UNCHANGED <<lockDir, tomb, recovered, leases, cand, misreclaimed>>

-----------------------------------------------------------------------------
(***************************************************************************)
(* _reclaim_if_safe after the probe: the directory is moved by its PATH,   *)
(* whatever directory is there by now                                      *)
(***************************************************************************)

\* Seeded bug: the tombstone is removed before its event is recorded.
ReclaimUnrecorded(p) ==
    /\ pc[p] = "rename"
    /\ Present
    /\ tomb[<<"reclaimed", cand[p]>>] \in {NoDir, EmptyDir}
    /\ tomb' = [tomb EXCEPT ![<<"reclaimed", cand[p]>>] = lockDir]
    /\ lockDir' = NoDir
    /\ misreclaimed' = (misreclaimed \/ lockDir.owner # cand[p])
    /\ Goto(p, "rmtomb")
    /\ UNCHANGED <<recovered, leases, cand>>

\* path.replace onto .reclaimed-<id>: the source may be gone (retry mkdir);
\* a nonempty directory at the target raises OSError, an empty one does not.
Reclaim(p) ==
    /\ pc[p] = "rename"
    /\ LET t == <<"reclaimed", cand[p]>>
       IN  \/ /\ ~Present
              /\ Goto(p, "mkdir")
              /\ UNCHANGED <<lockDir, tomb, misreclaimed>>
           \/ /\ Present
              /\ tomb[t] \notin {NoDir, EmptyDir}
              /\ Goto(p, "idle")
              /\ UNCHANGED <<lockDir, tomb, misreclaimed>>
           \/ /\ Present
              /\ tomb[t] \in {NoDir, EmptyDir}
              /\ tomb' = [tomb EXCEPT ![t] = lockDir]
              /\ lockDir' = NoDir
              /\ misreclaimed' = (misreclaimed \/ lockDir.owner # cand[p])
              /\ Goto(p, "record")
    /\ UNCHANGED <<recovered, leases, cand>>

RecordRecovery(p) ==
    /\ pc[p] = "record"
    /\ recovered' = recovered \union {cand[p]}
    /\ Goto(p, "rmtomb")
    /\ UNCHANGED <<lockDir, tomb, leases, cand, misreclaimed>>

\* shutil.rmtree(tombstone) raises if another reclaimer removed it first.
RemoveTomb(p) ==
    /\ pc[p] = "rmtomb"
    /\ tomb' = [tomb EXCEPT ![<<"reclaimed", cand[p]>>] = NoDir]
    /\ Goto(p, IF tomb[<<"reclaimed", cand[p]>>] = NoDir THEN "idle" ELSE "mkdir")
    /\ UNCHANGED <<lockDir, recovered, leases, cand, misreclaimed>>

-----------------------------------------------------------------------------
(***************************************************************************)
(* _write_owner inside acquire: temporary file, replace, directory sync    *)
(***************************************************************************)

WriteTmp(p) ==
    /\ pc[p] = "write"
    /\ IF Present
       THEN /\ lockDir' = [lockDir EXCEPT !.tmp = @ \union {Mine(p)}]
            /\ Goto(p, "publish")
       ELSE Goto(p, "rmlock") /\ UNCHANGED lockDir
    /\ UNCHANGED <<tomb, recovered, leases, cand, misreclaimed>>

PublishOwner(p) ==
    /\ pc[p] = "publish"
    /\ IF Present /\ Mine(p) \in lockDir.tmp
       THEN /\ lockDir' = [owner |-> Mine(p), tmp |-> lockDir.tmp \ {Mine(p)}]
            /\ Goto(p, "sync")
       ELSE Goto(p, "rmlock") /\ UNCHANGED lockDir
    /\ UNCHANGED <<tomb, recovered, leases, cand, misreclaimed>>

SyncLock(p) ==
    /\ pc[p] = "sync"
    /\ Goto(p, "held")
    /\ UNCHANGED <<lockDir, tomb, recovered, leases, cand, misreclaimed>>

\* The disk fails in open, write, fsync or replace: the except branch follows.
WriteFails(p) ==
    /\ pc[p] \in {"write", "publish", "sync"}
    /\ Goto(p, "rmlock")
    /\ UNCHANGED <<lockDir, tomb, recovered, leases, cand, misreclaimed>>

\* except: shutil.rmtree(self.path); raise -- again whatever is at the path.
RemoveLock(p) ==
    /\ pc[p] = "rmlock"
    /\ lockDir' = NoDir
    /\ Goto(p, "idle")
    /\ UNCHANGED <<tomb, recovered, leases, cand, misreclaimed>>

\* The last sync, of the root, is outside the try: acquire raises, and since
\* __enter__ never returned nobody releases the published lock.
RootSyncFails(p) ==
    /\ pc[p] = "sync"
    /\ Goto(p, "idle")
    /\ UNCHANGED <<lockDir, tomb, recovered, leases, cand, misreclaimed>>

-----------------------------------------------------------------------------
(***************************************************************************)
(* The transaction: at most one heartbeat, then commit or roll back        *)
(***************************************************************************)

HeartbeatRead(p) ==
    /\ pc[p] = "held"
    /\ Goto(p, IF OwnerIs(Mine(p)) THEN "hbtmp" ELSE "release")
    /\ UNCHANGED <<lockDir, tomb, recovered, leases, cand, misreclaimed>>

\* A failing heartbeat raises: the transaction rolls back and releases.
HeartbeatTmp(p) ==
    /\ pc[p] = "hbtmp"
    /\ \/ /\ Present
          /\ lockDir' = [lockDir EXCEPT !.tmp = @ \union {Mine(p)}]
          /\ Goto(p, "hbpublish")
       \/ Goto(p, "release") /\ UNCHANGED lockDir
    /\ UNCHANGED <<tomb, recovered, leases, cand, misreclaimed>>

HeartbeatPublish(p) ==
    /\ pc[p] = "hbpublish"
    /\ \/ /\ Present
          /\ Mine(p) \in lockDir.tmp
          /\ lockDir' = [owner |-> Mine(p), tmp |-> lockDir.tmp \ {Mine(p)}]
          /\ Goto(p, "beaten")
       \/ Goto(p, "release") /\ UNCHANGED lockDir
    /\ UNCHANGED <<tomb, recovered, leases, cand, misreclaimed>>

\* COMMIT or ROLLBACK and the end of the with block.  Transactions other than
\* index_manifest have no heartbeat.
EndTransaction(p) ==
    /\ pc[p] \in {"held", "beaten"}
    /\ Goto(p, "release")
    /\ UNCHANGED <<lockDir, tomb, recovered, leases, cand, misreclaimed>>

\* Seeded bug: release waits for its own record instead of raising.
ReleaseWaits(p) ==
    /\ pc[p] = "release"
    /\ OwnerIs(Mine(p))
    /\ Goto(p, "unlink")
    /\ UNCHANGED <<lockDir, tomb, recovered, leases, cand, misreclaimed>>

ReleaseRead(p) ==
    /\ pc[p] = "release"
    /\ Goto(p, IF OwnerIs(Mine(p)) THEN "unlink" ELSE "idle")
    /\ UNCHANGED <<lockDir, tomb, recovered, leases, cand, misreclaimed>>

ReleaseRename(p) ==
    /\ pc[p] = "unlink"
    /\ IF Present
       THEN /\ tomb' = [tomb EXCEPT ![<<"released", Mine(p)>>] = lockDir]
            /\ lockDir' = NoDir
            /\ Goto(p, "rmreleased")
       ELSE Goto(p, "idle") /\ UNCHANGED <<lockDir, tomb>>
    /\ UNCHANGED <<recovered, leases, cand, misreclaimed>>

ReleaseRemove(p) ==
    /\ pc[p] = "rmreleased"
    /\ tomb' = [tomb EXCEPT ![<<"released", Mine(p)>>] = NoDir]
    /\ Goto(p, "idle")
    /\ UNCHANGED <<lockDir, recovered, leases, cand, misreclaimed>>

\* A normal exit from "idle", a crash anywhere else.
Terminate(p) ==
    /\ p \in Mortal
    /\ Alive(p)
    /\ Goto(p, "dead")
    /\ UNCHANGED <<lockDir, tomb, recovered, leases, cand, misreclaimed>>

-----------------------------------------------------------------------------

\* What a running process does by itself, disk errors and death aside.
Step(p) ==
    \/ Begin(p) \/ Mkdir(p) \/ MkdirExists(p) \/ InspectRefuses(p)
    \/ ReadOwner(p) \/ ProbeOwner(p) \/ Reclaim(p) \/ RecordRecovery(p)
    \/ RemoveTomb(p) \/ WriteTmp(p) \/ PublishOwner(p) \/ SyncLock(p)
    \/ RemoveLock(p) \/ HeartbeatRead(p) \/ HeartbeatTmp(p)
    \/ HeartbeatPublish(p) \/ EndTransaction(p) \/ ReleaseRead(p)
    \/ ReleaseRename(p) \/ ReleaseRemove(p)

Next == \E p \in Proc : Step(p) \/ WriteFails(p) \/ RootSyncFails(p) \/ Terminate(p)

Spec == Init /\ [][Next]_vars

\* A running process is scheduled, and its operator keeps issuing commands.
FairSpec == Spec /\ \A p \in Proc : WF_vars(Step(p))

-----------------------------------------------------------------------------

\* The type invariant of the lock: which paths hold what, where processes are.
TypeOK ==
    /\ lockDir \in Dir \union {NoDir}
    /\ tomb \in [TombName -> Dir \union {NoDir}]
    /\ recovered \subseteq LockId
    /\ pc \in [Proc -> PC]
    /\ leases \in [Proc -> 0..MaxLease]
    /\ cand \in [Proc -> LockId \union {NoOwner}]
    /\ misreclaimed \in BOOLEAN

\* The processes inside the transaction the lock is there to protect.
Writers == {p \in Proc : pc[p] \in {"held", "hbtmp", "hbpublish", "beaten"}}

\* The processes that take the directory at the path to be their own.
Claimants == Writers \union
    {p \in Proc : pc[p] \in {"write", "publish", "sync", "rmlock", "release", "unlink"}}

\* What a claimant knows of the directory at the path, by where it is.
ClaimOK(p) ==
    /\ Present
    /\ leases[p] \in 1..MaxLease
    /\ pc[p] \in {"write", "publish"} => lockDir.owner = NoOwner
    /\ pc[p] = "rmlock" => lockDir.owner \in {NoOwner, Mine(p)}
    /\ pc[p] \notin {"write", "publish", "rmlock"} => lockDir.owner = Mine(p)
    /\ pc[p] = "publish" => Mine(p) \in lockDir.tmp

\* Who reclaims has read a record, and its owner has died by the rename.
ReclaimerOK(p) ==
    /\ pc[p] \in {"probe", "rename", "record", "rmtomb"} => cand[p] \in LockId
    /\ pc[p] \in {"rename", "record", "rmtomb"} => pc[Pid(cand[p])] = "dead"

\* A process past mkdir has drawn a lock_id.
LeaseOK(p) ==
    pc[p] \in {"write", "publish", "sync", "rmlock", "held", "hbtmp", "hbpublish",
               "beaten", "release", "unlink", "rmreleased"} => leases[p] \in 1..MaxLease

\* lock.py:176: acquire reclaims only from a proven dead owner.  Every reclaim
\* tombstone and every line of the event log names a process that is gone.
OnlyTheDeadAreReclaimed ==
    \A id \in LockId :
        (tomb[<<"reclaimed", id>>] # NoDir \/ id \in recovered) => ~Alive(Pid(id))

\* docs/artifact-registry.md:39: each recovery is appended to the event log.  It
\* is unless its reclaimer died before the append; the tombstone then stays.
UnloggedOnlyByDeath ==
    \A id \in LockId : (tomb[<<"reclaimed", id>>] # NoDir /\ id \notin recovered)
        => \E p \in Proc : cand[p] = id /\ pc[p] \in {"record", "dead"}

\* The inductive invariant.
LockInv ==
    /\ TypeOK
    /\ \A p \in Proc : ReclaimerOK(p) /\ LeaseOK(p)
    /\ OnlyTheDeadAreReclaimed
    /\ misreclaimed => \E p \in Proc : pc[p] = "dead"
    /\ ~misreclaimed => /\ \A p, q \in Claimants : p = q
                        /\ \A p \in Claimants : ClaimOK(p)

\* lock.py:60 promises one atomic directory lock for every writer transaction:
\* no two processes are inside a transaction at once.
MutualExclusion == \A p, q \in Writers : p = q

\* What does hold of it: two processes claim the lock only after a reclaimer
\* moved a directory other than the one whose owner it had read and probed.
ExclusiveUnlessMisreclaimed == ~misreclaimed => \A p, q \in Claimants : p = q

\* The lock implements the abstract lease, whose exclusion breaks only by a
\* misreclaim and never while every process is still running.
Lease == INSTANCE AdvisoryLease
         WITH holders <- Claimants,
              gone <- {p \in Proc : pc[p] = "dead"},
              broken <- misreclaimed

ImplementsLease == Lease!Spec

\* release, the except branch of acquire and a reclaim all remove whatever is at
\* the path: a process that claims the lock never has it removed by another,
\* unless a directory was misreclaimed.
ClaimIsNotTaken ==
    [][\A p \in Claimants :
         (Present /\ ~Present') => (misreclaimed' \/ pc'[p] # pc[p])]_vars

\* A dead owner's lease does not block the registry for ever, where a process of
\* its host goes on.
StaleLeaseIsReclaimed ==
    \A id \in LockId :
        (/\ OwnerIs(id) /\ ~Alive(Pid(id))
         /\ \E q \in Proc \ Mortal : HostOf[q] = HostOf[Pid(id)]) ~> ~OwnerIs(id)

\* Every transaction ends, whatever the other processes do to the lock.
TransactionEnds == \A p \in Proc : p \in Writers ~> pc[p] \in {"idle", "dead"}
=============================================================================
