-------------------------- MODULE RegistryLockProofs --------------------------
(***************************************************************************)
(* RegistryLock for every set of processes, assignment of hosts and bound  *)
(* on the lock_ids: types, the exclusion that holds, and that the lock     *)
(* implements AdvisoryLease.                                               *)
(***************************************************************************)
EXTENDS RegistryLock, TLAPS


\* Replacing one value of a function by another of its range keeps its type.
LEMMA UpdateType ==
    ASSUME NEW S, NEW V, NEW f \in [S -> V], NEW x, NEW v \in V
    PROVE  [f EXCEPT ![x] = v] \in [S -> V]
OBVIOUS

LEMMA InitInv == Init => LockInv
<1> SUFFICES ASSUME Init
             PROVE  LockInv
  OBVIOUS
<1>1. TypeOK
  <2>1. lockDir \in Dir \union {NoDir} /\ tomb \in [TombName -> Dir \union {NoDir}]
    BY DEF Init
  <2>2. pc \in [Proc -> PC] /\ leases \in [Proc -> 0..MaxLease]
    BY LockConstants DEF Init, PC
  <2>3. recovered \subseteq LockId /\ cand \in [Proc -> LockId \union {NoOwner}]
    BY DEF Init
  <2> QED
    BY <2>1, <2>2, <2>3 DEF Init, TypeOK
<1>2. Claimants = {} /\ \A p \in Proc : ReclaimerOK(p) /\ LeaseOK(p)
  BY DEF Init, Claimants, Writers, ReclaimerOK, LeaseOK
<1>3. OnlyTheDeadAreReclaimed
  BY DEF Init, OnlyTheDeadAreReclaimed, TombName
<1> QED
  BY <1>1, <1>2, <1>3 DEF Init, LockInv

LEMMA NextInv == LockInv /\ [Next]_vars => LockInv'
<1> SUFFICES ASSUME LockInv, [Next]_vars
             PROVE  LockInv'
  OBVIOUS
<1> USE LockConstants DEF LockInv, TypeOK, PC, ReclaimerOK, LeaseOK, ClaimOK, Claimants,
        Writers, Goto, Mine, Pid, Present, OwnerIs, Alive, LockId, Dir, EmptyDir,
        OnlyTheDeadAreReclaimed
<1>1. ASSUME NEW p \in Proc, Begin(p)
       PROVE  LockInv'
  BY <1>1 DEF Begin
<1>2. ASSUME NEW p \in Proc, MkdirExists(p)
       PROVE  LockInv'
  BY <1>2 DEF MkdirExists
<1>3. ASSUME NEW p \in Proc, InspectRefuses(p)
       PROVE  LockInv'
  BY <1>3 DEF InspectRefuses, Readable
<1>4. ASSUME NEW p \in Proc, SyncLock(p)
       PROVE  LockInv'
  BY <1>4 DEF SyncLock
<1>5. ASSUME NEW p \in Proc, WriteFails(p)
       PROVE  LockInv'
  BY <1>5 DEF WriteFails
<1>6. ASSUME NEW p \in Proc, RootSyncFails(p)
       PROVE  LockInv'
  BY <1>6 DEF RootSyncFails
<1>7. ASSUME NEW p \in Proc, HeartbeatRead(p)
       PROVE  LockInv'
  BY <1>7 DEF HeartbeatRead
<1>8. ASSUME NEW p \in Proc, EndTransaction(p)
       PROVE  LockInv'
  BY <1>8 DEF EndTransaction
<1>9. ASSUME NEW p \in Proc, ReleaseRead(p)
       PROVE  LockInv'
  BY <1>9 DEF ReleaseRead
<1>10. ASSUME NEW p \in Proc, ReadOwner(p)
       PROVE  LockInv'
  BY <1>10 DEF ReadOwner, Readable
<1>11. ASSUME NEW p \in Proc, ProbeOwner(p)
       PROVE  LockInv'
  BY <1>11 DEF ProbeOwner
<1>12. ASSUME NEW p \in Proc, RecordRecovery(p)
       PROVE  LockInv'
  BY <1>12 DEF RecordRecovery
<1>13. ASSUME NEW p \in Proc, RemoveTomb(p)
       PROVE  LockInv'
  <2>1. tomb' \in [TombName -> Dir \union {NoDir}]
    BY <1>13, UpdateType DEF RemoveTomb
  <2>2. pc' \in [Proc -> PC] /\ \A q \in Proc \ {p} : pc'[q] = pc[q]
    BY <1>13 DEF RemoveTomb
  <2>3. pc[p] = "rmtomb" /\ pc'[p] \in {"idle", "mkdir"}
    BY <1>13 DEF RemoveTomb
  <2>4. UNCHANGED <<lockDir, recovered, leases, cand, misreclaimed>>
    BY <1>13 DEF RemoveTomb
  <2>5. \A id \in LockId : tomb'[<<"reclaimed", id>>] \in {NoDir, tomb[<<"reclaimed", id>>]}
    BY <1>13 DEF RemoveTomb, TombName
  <2>6. OnlyTheDeadAreReclaimed'
    BY <2>2, <2>3, <2>4, <2>5
  <2> HIDE <1>13 DEF OnlyTheDeadAreReclaimed
  <2> QED
    BY <2>1, <2>2, <2>3, <2>4, <2>6
<1>14. ASSUME NEW p \in Proc, Mkdir(p)
       PROVE  LockInv'
  BY <1>14 DEF Mkdir
<1>15. ASSUME NEW p \in Proc, WriteTmp(p)
       PROVE  LockInv'
  BY <1>15 DEF WriteTmp
<1>16. ASSUME NEW p \in Proc, PublishOwner(p)
       PROVE  LockInv'
  <2>1. CASE Present /\ Mine(p) \in lockDir.tmp
    BY <1>16, <2>1 DEF PublishOwner
  <2>2. CASE ~(Present /\ Mine(p) \in lockDir.tmp)
    BY <1>16, <2>2 DEF PublishOwner
  <2> QED
    BY <2>1, <2>2
<1>17. ASSUME NEW p \in Proc, RemoveLock(p)
       PROVE  LockInv'
  BY <1>17 DEF RemoveLock
<1>18. ASSUME NEW p \in Proc, HeartbeatTmp(p)
       PROVE  LockInv'
  BY <1>18 DEF HeartbeatTmp
<1>19. ASSUME NEW p \in Proc, HeartbeatPublish(p)
       PROVE  LockInv'
  BY <1>19 DEF HeartbeatPublish
<1>20. ASSUME NEW p \in Proc, ReleaseRename(p)
       PROVE  LockInv'
  <2>1. CASE ~Present
    BY <1>20, <2>1 DEF ReleaseRename
  <2>2. CASE Present
    <3>1. /\ pc[p] = "unlink" /\ pc' = [pc EXCEPT ![p] = "rmreleased"] /\ lockDir' = NoDir
          /\ tomb' = [tomb EXCEPT ![<<"released", Mine(p)>>] = lockDir]
          /\ UNCHANGED <<recovered, leases, cand, misreclaimed>>
      BY <1>20, <2>2 DEF ReleaseRename
    <3>2. \A id \in LockId : tomb'[<<"reclaimed", id>>] = tomb[<<"reclaimed", id>>]
      BY <3>1 DEF TombName
    <3>3. OnlyTheDeadAreReclaimed'
      BY <3>1, <3>2
    <3>4. tomb' \in [TombName -> Dir \union {NoDir}]
      BY <3>1, UpdateType
    <3> HIDE DEF OnlyTheDeadAreReclaimed
    <3> QED
      BY <3>1, <3>3, <3>4
  <2> QED
    BY <2>1, <2>2
<1>21. ASSUME NEW p \in Proc, ReleaseRemove(p)
       PROVE  LockInv'
  <2>1. tomb' \in [TombName -> Dir \union {NoDir}]
    BY <1>21, UpdateType DEF ReleaseRemove
  <2>2. pc' \in [Proc -> PC] /\ \A q \in Proc \ {p} : pc'[q] = pc[q]
    BY <1>21 DEF ReleaseRemove
  <2>3. pc[p] = "rmreleased" /\ pc'[p] \in {"idle", "mkdir"}
    BY <1>21 DEF ReleaseRemove
  <2>4. UNCHANGED <<lockDir, recovered, leases, cand, misreclaimed>>
    BY <1>21 DEF ReleaseRemove
  <2>5. \A id \in LockId : tomb'[<<"reclaimed", id>>] \in {NoDir, tomb[<<"reclaimed", id>>]}
    BY <1>21 DEF ReleaseRemove, TombName
  <2>6. OnlyTheDeadAreReclaimed'
    BY <2>2, <2>3, <2>4, <2>5
  <2> HIDE <1>21 DEF OnlyTheDeadAreReclaimed
  <2> QED
    BY <2>1, <2>2, <2>3, <2>4, <2>6
<1>22. ASSUME NEW p \in Proc, Reclaim(p)
       PROVE  LockInv'
  <2> DEFINE t == <<"reclaimed", cand[p]>>
  <2>1. CASE ~Present
    BY <1>22, <2>1 DEF Reclaim
  <2>2. CASE Present /\ tomb[t] \notin {NoDir, EmptyDir}
    BY <1>22, <2>2 DEF Reclaim
  <2>3. CASE Present /\ tomb[t] \in {NoDir, EmptyDir}
    <3>1. /\ pc[p] = "rename" /\ pc' = [pc EXCEPT ![p] = "record"]
          /\ tomb' = [tomb EXCEPT ![t] = lockDir] /\ lockDir' = NoDir
          /\ misreclaimed' = (misreclaimed \/ lockDir.owner # cand[p])
          /\ UNCHANGED <<recovered, leases, cand>>
      BY <1>22, <2>3 DEF Reclaim
    <3>2. pc[Pid(cand[p])] = "dead" /\ cand[p] \in LockId
      BY <3>1
    <3>3. TypeOK'
      BY <3>1, <2>3
    <3>4. \A q \in Proc : ReclaimerOK(q)' /\ LeaseOK(q)'
      BY <3>1
    <3>5. misreclaimed' => \E q \in Proc : pc'[q] = "dead"
      BY <3>1, <3>2
    <3>6. ~misreclaimed' => Claimants' = {}
      <4>1. SUFFICES ASSUME ~misreclaimed', NEW q \in Claimants'
                     PROVE  FALSE
        OBVIOUS
      <4>2. q \in Claimants /\ lockDir.owner = cand[p] /\ ClaimOK(q)
        BY ZenonT(60), <3>1, <4>1
      <4>3. cand[p] = Mine(q)
        BY <3>2, <4>2
      <4> QED
        BY <3>2, <4>2, <4>3
    <3>7. \A id \in LockId : id # cand[p] => tomb'[<<"reclaimed", id>>] = tomb[<<"reclaimed", id>>]
      BY <3>1 DEF TombName
    <3>8. OnlyTheDeadAreReclaimed'
      BY <3>1, <3>2, <3>7
    <3> HIDE DEF OnlyTheDeadAreReclaimed, ReclaimerOK, LeaseOK, ClaimOK, TypeOK
    <3> QED
      BY <3>3, <3>4, <3>5, <3>6, <3>8
  <2> QED
    BY <2>1, <2>2, <2>3
<1>23. ASSUME NEW p \in Proc, Terminate(p)
       PROVE  LockInv'
  <2>1. pc' = [pc EXCEPT ![p] = "dead"] /\ UNCHANGED <<lockDir, tomb, recovered, leases, cand, misreclaimed>>
    BY <1>23 DEF Terminate
  <2>2. TypeOK'
    BY <2>1
  <2>3. \A q \in Proc : ReclaimerOK(q)' /\ LeaseOK(q)'
    BY <2>1
  <2>4. \E q \in Proc : pc'[q] = "dead"
    BY <2>1
  <2>5. Claimants' \subseteq Claimants /\ \A q \in Claimants' : ClaimOK(q) => ClaimOK(q)'
    BY <2>1
  <2>6. OnlyTheDeadAreReclaimed'
    BY <2>1
  <2> HIDE DEF OnlyTheDeadAreReclaimed, ReclaimerOK, LeaseOK, TypeOK
  <2> QED
    BY <2>1, <2>2, <2>3, <2>4, <2>5, <2>6
<1>24. CASE UNCHANGED vars
  BY <1>24 DEF vars
<1> QED
  BY <1>1, <1>2, <1>3, <1>4, <1>5, <1>6, <1>7, <1>8, <1>9, <1>10, <1>11, <1>12, <1>13, <1>14, <1>15, <1>16, <1>17, <1>18, <1>19, <1>20, <1>21, <1>22, <1>23, <1>24 DEF Next, Step

\* Every reachable state satisfies the invariant of the lock: its types, what claimants and reclaimers
\* rely on, and that exclusion breaks only by a misreclaim.
THEOREM Invariant == Spec => []LockInv
BY InitInv, NextInv, PTL DEF Spec

\* The exclusion the lock really gives: any two processes that claim the lock
\* are the same, in every state no misreclaim has led to.
THEOREM Exclusion == Spec => []ExclusiveUnlessMisreclaimed
<1>1. LockInv => ExclusiveUnlessMisreclaimed
  BY DEF LockInv, ExclusiveUnlessMisreclaimed
<1> QED
  BY <1>1, InitInv, NextInv, PTL DEF Spec

\* Every tombstone of a reclaim and every logged recovery names a dead process.
THEOREM Tombstones == Spec => []OnlyTheDeadAreReclaimed
<1>1. LockInv => OnlyTheDeadAreReclaimed
  BY DEF LockInv
<1> QED
  BY <1>1, InitInv, NextInv, PTL DEF Spec

\* A reclaim tombstone without an event belongs to the process that has yet to
\* append the event; only the death of that process leaves it so.
LEMMA UnloggedStep ==
    ASSUME LockInv, UnloggedOnlyByDeath, [Next]_vars
    PROVE  UnloggedOnlyByDeath'
<1> USE LockConstants DEF LockInv, TypeOK, Goto, PC
<1> SUFFICES ASSUME NEW id \in LockId, tomb'[<<"reclaimed", id>>] # NoDir, id \notin recovered'
             PROVE  \E p \in Proc : cand'[p] = id /\ pc'[p] \in {"record", "dead"}
  BY DEF UnloggedOnlyByDeath
<1>1. <<"reclaimed", id>> \in TombName
  BY DEF TombName
<1>2. ASSUME NEW p \in Proc, Reclaim(p), tomb[<<"reclaimed", id>>] = NoDir
      PROVE  cand'[p] = id /\ pc'[p] = "record"
  BY <1>1, <1>2 DEF Reclaim, ReclaimerOK, TombName
<1>3. CASE tomb[<<"reclaimed", id>>] = NoDir
  <2>1. \E p \in Proc : Reclaim(p)
    BY ZenonT(60), <1>1, <1>3 DEF Next, Step, vars, Begin, Mkdir, MkdirExists, InspectRefuses, ReadOwner,
         ProbeOwner, RecordRecovery, RemoveTomb, WriteTmp, PublishOwner, SyncLock, WriteFails,
         RemoveLock, RootSyncFails, HeartbeatRead, HeartbeatTmp, HeartbeatPublish,
         EndTransaction, ReleaseRead, ReleaseRename, ReleaseRemove, Terminate
  <2> QED
    BY <1>2, <1>3, <2>1
<1>4. CASE tomb[<<"reclaimed", id>>] # NoDir
  <2>1. id \notin recovered
    BY DEF Next, Step, vars, Begin, Mkdir, MkdirExists, InspectRefuses, ReadOwner,
         ProbeOwner, Reclaim, RecordRecovery, RemoveTomb, WriteTmp, PublishOwner, SyncLock,
         WriteFails, RemoveLock, RootSyncFails, HeartbeatRead, HeartbeatTmp, HeartbeatPublish,
         EndTransaction, ReleaseRead, ReleaseRename, ReleaseRemove, Terminate
  <2>2. PICK p \in Proc : cand[p] = id /\ pc[p] \in {"record", "dead"}
    BY <1>4, <2>1 DEF UnloggedOnlyByDeath
  <2>3. cand'[p] = id /\ pc'[p] \in {"record", "dead"}
    BY ZenonT(60), <2>1, <2>2 DEF Next, Step, vars, Begin, Mkdir, MkdirExists, InspectRefuses, ReadOwner,
         ProbeOwner, Reclaim, RecordRecovery, RemoveTomb, WriteTmp, PublishOwner, SyncLock,
         WriteFails, RemoveLock, RootSyncFails, HeartbeatRead, HeartbeatTmp, HeartbeatPublish,
         EndTransaction, ReleaseRead, ReleaseRename, ReleaseRemove, Terminate
  <2> QED
    BY <2>3
<1> QED
  BY <1>3, <1>4

\* Every recovery of the lock has its event unless the reclaimer died before it.
THEOREM RecoveriesAreLogged == Spec => []UnloggedOnlyByDeath
<1>1. Init => UnloggedOnlyByDeath
  BY LockConstants DEF Init, UnloggedOnlyByDeath, TombName
<1>2. LockInv /\ UnloggedOnlyByDeath /\ [Next]_vars => UnloggedOnlyByDeath'
  BY UnloggedStep
<1> QED
  BY <1>1, <1>2, InitInv, NextInv, PTL DEF Spec

\* The three steps that empty the lock path, for a claimant q and no misreclaim.
LEMMA TakenByItself ==
    ASSUME LockInv, [Next]_vars, NEW q \in Claimants, Present, ~Present', ~misreclaimed'
    PROVE  pc'[q] # pc[q]
<1> USE LockConstants DEF LockInv, TypeOK, Claimants, Writers, Present, Goto, Dir, EmptyDir
<1>1. ASSUME NEW p \in Proc, Reclaim(p)
      PROVE  FALSE
  <2>1. lockDir.owner = cand[p] /\ cand[p] \in LockId /\ pc[Pid(cand[p])] = "dead"
    BY <1>1 DEF Reclaim, ReclaimerOK
  <2>2. lockDir.owner \in {NoOwner, Mine(q)}
    BY <1>1 DEF Reclaim, ClaimOK
  <2>3. cand[p] = Mine(q)
    BY <2>1, <2>2, LockConstants
  <2> QED
    BY <2>1, <2>3 DEF Mine, Pid
<1>2. ASSUME NEW p \in Proc, RemoveLock(p) \/ ReleaseRename(p)
      PROVE  pc'[q] # pc[q]
  <2>1. p \in Claimants /\ pc'[p] # pc[p] /\ ~misreclaimed
    BY <1>2 DEF RemoveLock, ReleaseRename
  <2> QED
    BY <2>1
<1>3. ASSUME NEW p \in Proc, WriteTmp(p) \/ PublishOwner(p) \/ HeartbeatTmp(p) \/ HeartbeatPublish(p)
      PROVE  FALSE
  <2>1. lockDir' \in {lockDir} \/ lockDir' \in Dir
    BY <1>3 DEF WriteTmp, PublishOwner, HeartbeatTmp, HeartbeatPublish, Mine, LeaseOK, LockId
  <2> QED
    BY <2>1
<1>4. \E p \in Proc : \/ Reclaim(p) \/ RemoveLock(p) \/ ReleaseRename(p) \/ WriteTmp(p)
                      \/ PublishOwner(p) \/ HeartbeatTmp(p) \/ HeartbeatPublish(p)
  BY DEF vars, Next, Step, Begin, Mkdir, MkdirExists, InspectRefuses, ReadOwner, ProbeOwner,
         RecordRecovery, RemoveTomb, SyncLock, WriteFails, RootSyncFails, HeartbeatRead,
         EndTransaction, ReleaseRead, ReleaseRemove, Terminate
<1> QED
  BY <1>1, <1>2, <1>3, <1>4

\* While no directory has been misreclaimed, nobody removes the directory from
\* under a process that claims it: not a release, a failing write or a reclaim.
THEOREM ClaimsAreSafe == Spec => ClaimIsNotTaken
<1>1. LockInv /\ [Next]_vars =>
        [\A p \in Claimants : (Present /\ ~Present') => (misreclaimed' \/ pc'[p] # pc[p])]_vars
  BY TakenByItself
<1> QED
  BY <1>1, InitInv, NextInv, PTL DEF Spec, ClaimIsNotTaken

\* A step of a process p changes at most p's own place among the claimants.
LEMMA ClaimantsStep ==
    ASSUME TypeOK, NEW p \in Proc, NEW l \in PC, Goto(p, l)
    PROVE  /\ p \in Claimants' => Claimants' = Claimants \union {p}
           /\ p \notin Claimants' => Claimants' = Claimants \ {p}
           /\ l # "dead" /\ pc[p] # "dead" =>
                {q \in Proc : pc[q] = "dead"}' = {q \in Proc : pc[q] = "dead"}
           /\ l = "dead" =>
                {q \in Proc : pc[q] = "dead"}' = {q \in Proc : pc[q] = "dead"} \union {p}
BY DEF TypeOK, Goto, Claimants, Writers

\* The lock implements the abstract lease: at most one claimant until a
\* misreclaim, which no run without a terminated process has.
THEOREM LeaseRefinement == Spec => ImplementsLease
<1> USE DEF Lease!vars, Goto
<1>1. Init => Lease!Init
  BY DEF Init, Lease!Init, Claimants, Writers
<1>2. LockInv /\ [Next]_vars => [Lease!Next]_(Lease!vars)
  <2> SUFFICES ASSUME LockInv, [Next]_vars
               PROVE  [Lease!Next]_(Lease!vars)
    OBVIOUS
  <2> TypeOK
    BY DEF LockInv
  <2>1. ASSUME NEW p \in Proc, Mkdir(p)
        PROVE  Lease!Acquire(p)
    <3>1. Goto(p, "write") /\ "write" \in PC /\ pc[p] # "dead" /\ UNCHANGED misreclaimed
      BY <2>1 DEF Mkdir, PC
    <3>2. p \in Claimants'
      BY <3>1 DEF Claimants, Writers, TypeOK
    <3>3. Claimants = {} \/ misreclaimed
      BY <2>1 DEF Mkdir, LockInv, ClaimOK
    <3> QED
      BY <3>1, <3>2, <3>3, ClaimantsStep DEF Lease!Acquire
  <2>2. ASSUME NEW p \in Proc, Terminate(p)
        PROVE  Lease!Terminate(p)
    <3>1. Goto(p, "dead") /\ "dead" \in PC /\ UNCHANGED misreclaimed
      BY <2>2 DEF Terminate, PC
    <3>2. p \notin Claimants'
      BY <3>1 DEF Claimants, Writers, TypeOK
    <3> QED
      BY <3>1, <3>2, ClaimantsStep DEF Lease!Terminate
  <2>3. ASSUME NEW p \in Proc, Reclaim(p)
        PROVE  Lease!Break \/ UNCHANGED Lease!vars
    <3>1. pc[p] = "rename" /\ \E l \in {"mkdir", "idle", "record"} : Goto(p, l)
      BY <2>3 DEF Reclaim
    <3>2. UNCHANGED <<Claimants, {q \in Proc : pc[q] = "dead"}>>
      BY <3>1 DEF TypeOK, Claimants, Writers
    <3>3. misreclaimed' \in {misreclaimed, TRUE}
      BY <2>3 DEF Reclaim, LockInv, TypeOK
    <3>4. {q \in Proc : pc[q] = "dead"} # {}
      BY <3>1 DEF LockInv, ReclaimerOK, Pid, LockId
    <3> QED
      BY <3>2, <3>3, <3>4 DEF Lease!Break
  <2>4. ASSUME NEW p \in Proc,
               \/ RemoveLock(p) \/ RootSyncFails(p) \/ ReleaseRead(p) \/ ReleaseRename(p)
        PROVE  Lease!Drop(p) \/ UNCHANGED Lease!vars
    <3>1. /\ pc[p] \in {"rmlock", "sync", "release", "unlink"} /\ UNCHANGED misreclaimed
          /\ \E l \in {"idle", "unlink", "rmreleased"} : Goto(p, l)
      BY <2>4 DEF RemoveLock, RootSyncFails, ReleaseRead, ReleaseRename
    <3>2. p \in Claimants /\ pc[p] # "dead"
      BY <3>1 DEF Claimants
    <3>3. PICK l \in {"idle", "unlink", "rmreleased"} : Goto(p, l)
      BY <3>1
    <3>4. l \in PC /\ l # "dead"
      BY DEF PC
    <3>5. /\ p \in Claimants' => Claimants' = Claimants \union {p}
          /\ p \notin Claimants' => Claimants' = Claimants \ {p}
          /\ {q \in Proc : pc[q] = "dead"}' = {q \in Proc : pc[q] = "dead"}
      BY <3>2, <3>3, <3>4, ClaimantsStep
    <3>6. Claimants' \in {Claimants, Claimants \ {p}}
      BY <3>2, <3>5
    <3> QED
      BY <3>1, <3>5, <3>6 DEF Lease!Drop
  <2>5. ASSUME NEW p \in Proc,
               \/ Begin(p) \/ MkdirExists(p) \/ InspectRefuses(p) \/ ReadOwner(p)
               \/ ProbeOwner(p) \/ RecordRecovery(p) \/ RemoveTomb(p) \/ ReleaseRemove(p)
        PROVE  UNCHANGED Lease!vars
    <3>1. /\ pc[p] \in {"idle", "mkdir", "inspect", "probe", "record", "rmtomb", "rmreleased"}
          /\ \E l \in {"idle", "mkdir", "inspect", "probe", "rename", "rmtomb"} : Goto(p, l)
          /\ UNCHANGED misreclaimed
      BY <2>5 DEF Begin, MkdirExists, InspectRefuses, ReadOwner, ProbeOwner, RecordRecovery,
                  RemoveTomb, ReleaseRemove
    <3> QED
      BY <3>1 DEF TypeOK, Claimants, Writers
  <2>6. ASSUME NEW p \in Proc,
               \/ WriteTmp(p) \/ PublishOwner(p) \/ SyncLock(p) \/ WriteFails(p)
               \/ HeartbeatRead(p) \/ HeartbeatTmp(p) \/ HeartbeatPublish(p) \/ EndTransaction(p)
        PROVE  UNCHANGED Lease!vars
    <3>1. /\ pc[p] \in {"write", "publish", "sync", "held", "hbtmp", "hbpublish", "beaten"}
          /\ \E l \in {"publish", "sync", "rmlock", "held", "hbtmp", "hbpublish", "beaten",
                       "release"} : Goto(p, l)
          /\ UNCHANGED misreclaimed
      BY <2>6 DEF WriteTmp, PublishOwner, SyncLock, WriteFails, HeartbeatRead, HeartbeatTmp,
                  HeartbeatPublish, EndTransaction
    <3> QED
      BY <3>1 DEF TypeOK, Claimants, Writers
  <2>7. CASE UNCHANGED vars
    BY <2>7 DEF vars, Claimants, Writers
  <2> QED
    BY <2>1, <2>2, <2>3, <2>4, <2>5, <2>6, <2>7 DEF Next, Step, Lease!Next
<1> QED
  BY <1>1, <1>2, InitInv, NextInv, PTL DEF Spec, ImplementsLease, Lease!Spec
=============================================================================
