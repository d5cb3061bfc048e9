------------------------ MODULE ArtifactRegistryProofs ------------------------
(***************************************************************************)
(* ArtifactRegistry for every set of processes and artifacts and every     *)
(* number of failures: what is indexed is stored, its ancestry is indexed, *)
(* and a receipt outlives whatever crashes.                                *)
(***************************************************************************)
EXTENDS ArtifactRegistry, TLAPS

LEMMA InitInv == Init => RegistryInv
<1> SUFFICES ASSUME Init
             PROVE  RegistryInv
  OBVIOUS
<1>1. TypeOK
  <2>1. /\ objects \subseteq Object /\ damaged \subseteq objects /\ litter \subseteq Object
        /\ rows \subseteq Artifact /\ acked \subseteq Artifact
        /\ writer \in Proc \union {NoProc} /\ faults \in Nat /\ lost \in BOOLEAN
    BY DEF Init
  <2>2. /\ pc \in [Proc -> PC]
        /\ cmd \in [Proc -> {"none", "put", "rebuild", "gc"}]
    BY DEF Init, PC
  <2>3. /\ job \in [Proc -> Artifact \union {None}]
        /\ temp \in [Proc -> Object \union {None}]
    BY DEF Init
  <2>4. /\ seen \in [Proc -> SUBSET Object] /\ todo \in [Proc -> SUBSET Object]
        /\ want \in [Proc -> SUBSET Artifact]
    BY DEF Init
  <2> QED
    BY <2>1, <2>2, <2>3, <2>4 DEF TypeOK
<1>2. \A p \in Proc : PipelineOK(p)
  BY DEF Init, PipelineOK
<1> QED
  BY <1>1, <1>2 DEF Init, RegistryInv, IndexedIsStored, ProvenanceIsClosed, ReceiptIsDurable

LEMMA NextInv == RegistryInv /\ [Next]_vars => RegistryInv'
<1> SUFFICES ASSUME RegistryInv, [Next]_vars
             PROVE  RegistryInv'
  OBVIOUS
<1> USE RegistryConstants DEF RegistryInv, TypeOK, PC, PipelineOK, IndexedIsStored, Stored,
        ProvenanceIsClosed, ReceiptIsDurable, Object, Target, Goto, End, Open, disk, local, hist
<1>1. ASSUME NEW p \in Proc, NEW a \in Artifact, StartPut(p, a)
      PROVE  RegistryInv'
  BY <1>1 DEF StartPut
<1>2. ASSUME NEW p \in Proc, StartRebuild(p)
      PROVE  RegistryInv'
  BY <1>2 DEF StartRebuild, Readable
<1>3. ASSUME NEW p \in Proc, StartGc(p)
      PROVE  RegistryInv'
  BY <1>3 DEF StartGc, IndexedHashes, IndexedPayloads
<1>4. ASSUME NEW p \in Proc, InstallExisting(p)
      PROVE  RegistryInv'
  <2>1. CASE Target(p) \in damaged
    BY SMTT(40), <1>4, <2>1 DEF InstallExisting
  <2>2. CASE Target(p) \notin damaged
    BY <1>4, <2>2 DEF InstallExisting, Installed
  <2> QED
    BY <2>1, <2>2
<1>5. ASSUME NEW p \in Proc, CopyTemp(p)
      PROVE  RegistryInv'
  BY <1>5 DEF CopyTemp
<1>6. ASSUME NEW p \in Proc, Link(p)
      PROVE  RegistryInv'
  <2>1. CASE Target(p) \in damaged
    BY <1>6, <2>1 DEF Link
  <2>2. CASE Target(p) \notin damaged /\ pc[p] = "plink"
    BY <1>6, <2>2 DEF Link, Installed
  <2>3. CASE Target(p) \notin damaged /\ pc[p] # "plink"
    BY <1>6, <2>3 DEF Link, Installed
  <2> QED
    BY <2>1, <2>2, <2>3
<1>7. ASSUME NEW p \in Proc, VerifyManifest(p)
      PROVE  RegistryInv'
  BY SMTT(40), <1>7 DEF VerifyManifest, Readable
<1>8. ASSUME NEW p \in Proc, TakeLock(p)
      PROVE  RegistryInv'
  <2>1. CASE writer = NoProc
    BY <1>8, <2>1 DEF TakeLock
  <2>2. CASE writer # NoProc
    BY <1>8, <2>2 DEF TakeLock
  <2> QED
    BY <2>1, <2>2
<1>9. ASSUME NEW p \in Proc, CheckParents(p)
      PROVE  RegistryInv'
  <2>1. CASE job[p] \in rows \/ ParentsOf[job[p]] \subseteq rows
    BY <1>9, <2>1 DEF CheckParents
  <2>2. CASE ~(job[p] \in rows \/ ParentsOf[job[p]] \subseteq rows) /\ cmd[p] = "put"
    BY <1>9, <2>2 DEF CheckParents
  <2>3. CASE ~(job[p] \in rows \/ ParentsOf[job[p]] \subseteq rows) /\ cmd[p] # "put"
    BY <1>9, <2>3 DEF CheckParents
  <2> QED
    BY <2>1, <2>2, <2>3
<1>10. ASSUME NEW p \in Proc, Commit(p)
      PROVE  RegistryInv'
  BY <1>10 DEF Commit
<1>11. ASSUME NEW p \in Proc, ReturnReceipt(p)
      PROVE  RegistryInv'
  BY <1>11 DEF ReturnReceipt
<1>12. ASSUME NEW p \in Proc, ReadIndexed(p)
      PROVE  RegistryInv'
  BY <1>12 DEF ReadIndexed, IndexedHashes, IndexedPayloads
<1>13. ASSUME NEW p \in Proc, PickManifest(p)
      PROVE  RegistryInv'
  <2>1. PICK a \in todo[p] : /\ a \in objects /\ PayloadOf[a] \in objects
                             /\ job' = [job EXCEPT ![p] = a]
    BY <1>13 DEF PickManifest, Eligible, Readable
  <2>2. a \in Artifact
    BY <1>13, <2>1 DEF PickManifest
  <2> QED
    BY <1>13, <2>1, <2>2 DEF PickManifest
<1>14. ASSUME NEW p \in Proc, RebuildMeetsDamage(p)
      PROVE  RegistryInv'
  BY <1>14 DEF RebuildMeetsDamage
<1>15. ASSUME NEW p \in Proc, ManifestRecovered(p)
      PROVE  RegistryInv'
  BY <1>15 DEF ManifestRecovered
<1>16. ASSUME NEW p \in Proc, EndRebuild(p)
      PROVE  RegistryInv'
  BY <1>16 DEF EndRebuild
<1>17. ASSUME NEW p \in Proc, ReportOrphans(p)
      PROVE  RegistryInv'
  <2>1. CASE Strays
    BY <1>17, <2>1 DEF ReportOrphans
  <2>2. CASE ~Strays
    BY <1>17, <2>2 DEF ReportOrphans
  <2> QED
    BY <2>1, <2>2
<1>18. ASSUME NEW p \in Proc, Leave(p)
      PROVE  RegistryInv'
  BY <1>18 DEF Leave
<1>19. ASSUME NEW p \in Proc, InstallFails(p)
      PROVE  RegistryInv'
  BY <1>19 DEF InstallFails
<1>20. ASSUME NEW p \in Proc, TransactionFails(p)
      PROVE  RegistryInv'
  BY <1>20 DEF TransactionFails
<1>21. ASSUME NEW p \in Proc, Crash(p)
      PROVE  RegistryInv'
  BY <1>21 DEF Crash
<1>22. ASSUME NEW o \in Object, Damage(o)
      PROVE  RegistryInv'
  BY <1>22 DEF Damage
<1>23. CASE LoseIndex
  BY <1>23 DEF LoseIndex
<1>24. CASE UNCHANGED vars
  BY <1>24 DEF vars
<1> QED
  BY <1>1, <1>2, <1>3, <1>4, <1>5, <1>6, <1>7, <1>8, <1>9, <1>10, <1>11, <1>12, <1>13, <1>14, <1>15, <1>16, <1>17, <1>18, <1>19, <1>20, <1>21, <1>22, <1>23, <1>24 DEF Next, Work

\* Every reachable state satisfies the invariant of the registry: its types, where each
\* process is in a put, and that rows and receipts have their objects.
THEOREM Invariant == Spec => []RegistryInv
BY InitInv, NextInv, PTL DEF Spec

\* Wherever put, index_manifest or a rebuild is interrupted: a row in the index
\* has its manifest and its payload among the published objects.
THEOREM RowsAreStored == Spec => []IndexedIsStored
<1>1. RegistryInv => IndexedIsStored
  BY DEF RegistryInv
<1> QED
  BY <1>1, InitInv, NextInv, PTL DEF Spec

\* The provenance graph in the index has no edge to an artifact without a row.
THEOREM RowsAreClosed == Spec => []ProvenanceIsClosed
<1>1. RegistryInv => ProvenanceIsClosed
  BY DEF RegistryInv
<1> QED
  BY <1>1, InitInv, NextInv, PTL DEF Spec

\* A put that returned is stored for good, and indexed until the index is lost.
THEOREM ReceiptsHold == Spec => []ReceiptIsDurable
<1>1. RegistryInv => ReceiptIsDurable
  BY DEF RegistryInv
<1> QED
  BY <1>1, InitInv, NextInv, PTL DEF Spec
-----------------------------------------------------------------------------
(* What a rebuild and gc know of the index. *)

LEMMA InitKnowledge == Init => RebuildInv
<1>1. Init => \A p \in Proc : KnowledgeOK(p)
  BY DEF Init, KnowledgeOK
<1> QED
  BY <1>1, InitInv DEF RebuildInv

\* While a process is in a command no row goes away, so what it knows stays so.
LEMMA OthersKnow ==
    ASSUME RebuildInv, NEW q \in Proc, rows \subseteq rows',
           pc'[q] = pc[q], cmd'[q] = cmd[q], job'[q] = job[q], seen'[q] = seen[q],
           todo'[q] = todo[q], want'[q] = want[q]
    PROVE  KnowledgeOK(q)'
<1>1. IndexedHashes \subseteq IndexedHashes' /\ IndexedPayloads \subseteq IndexedPayloads'
  BY DEF IndexedHashes, IndexedPayloads
<1> QED
  BY <1>1 DEF RebuildInv, KnowledgeOK, Eligible

\* A process whose command ended knows nothing.
LEMMA EndedKnow ==
    ASSUME RegistryInv, NEW p \in Proc, End(p)
    PROVE  KnowledgeOK(p)'
BY DEF End, Goto, KnowledgeOK, RegistryInv, TypeOK

\* A step of one process leaves what the others have.
LEMMA StepOfOne ==
    ASSUME RebuildInv, NEW p \in Proc, rows \subseteq rows', KnowledgeOK(p)',
           \A q \in Proc \ {p} : /\ pc'[q] = pc[q] /\ cmd'[q] = cmd[q] /\ job'[q] = job[q]
                               /\ seen'[q] = seen[q] /\ todo'[q] = todo[q] /\ want'[q] = want[q]
    PROVE  \A q \in Proc : KnowledgeOK(q)'
<1>1. ASSUME NEW q \in Proc, q # p PROVE KnowledgeOK(q)'
  BY <1>1, OthersKnow
<1> QED
  BY <1>1

LEMMA NextKnowledge == RebuildInv /\ [Next]_vars => RebuildInv'
<1> SUFFICES ASSUME RebuildInv, [Next]_vars PROVE RebuildInv'
  OBVIOUS
<1>0. RegistryInv /\ RegistryInv'
  BY NextInv DEF RebuildInv
<1> SUFFICES \A q \in Proc : KnowledgeOK(q)'
  BY <1>0 DEF RebuildInv
<1>t. /\ rows \subseteq Artifact
      /\ pc \in [Proc -> PC] /\ cmd \in [Proc -> {"none", "put", "rebuild", "gc"}]
      /\ job \in [Proc -> Artifact \union {None}] /\ temp \in [Proc -> Object \union {None}]
      /\ seen \in [Proc -> SUBSET Object] /\ todo \in [Proc -> SUBSET Object]
      /\ want \in [Proc -> SUBSET Artifact] /\ \A q \in Proc : KnowledgeOK(q)
  BY DEF RebuildInv, RegistryInv, TypeOK
<1> DEFINE Same(q) == /\ pc'[q] = pc[q] /\ cmd'[q] = cmd[q] /\ job'[q] = job[q]
                      /\ seen'[q] = seen[q] /\ todo'[q] = todo[q] /\ want'[q] = want[q]
<1>e. ASSUME NEW p \in Proc, End(p), rows' = rows PROVE \A q \in Proc : KnowledgeOK(q)'
  <2>1. KnowledgeOK(p)'
    BY <1>0, <1>e, EndedKnow
  <2>2. \A q \in Proc \ {p} : Same(q)
    BY <1>t, <1>e DEF End, Goto
  <2> QED
    BY <1>e, <2>1, <2>2, StepOfOne
<1>1. ASSUME NEW p \in Proc, NEW a \in Artifact, StartPut(p, a)
      PROVE  \A q \in Proc : KnowledgeOK(q)'
  <2>1. KnowledgeOK(p)'
    BY <1>1, <1>t DEF StartPut, Open, Goto, disk, KnowledgeOK, IndexedHashes, IndexedPayloads, Eligible
  <2>2. \A q \in Proc \ {p} : Same(q)
    BY <1>t, <1>1 DEF StartPut, Open, Goto
  <2> QED
    BY <1>1, <2>1, <2>2, StepOfOne DEF StartPut
<1>2. ASSUME NEW p \in Proc, StartRebuild(p)
      PROVE  \A q \in Proc : KnowledgeOK(q)'
  <2>1. KnowledgeOK(p)'
    BY <1>2, <1>t DEF StartRebuild, Open, Goto, disk, KnowledgeOK, IndexedHashes, IndexedPayloads, Eligible
  <2>2. \A q \in Proc \ {p} : Same(q)
    BY <1>t, <1>2 DEF StartRebuild, Open, Goto
  <2> QED
    BY <1>2, <2>1, <2>2, StepOfOne DEF StartRebuild
<1>3. ASSUME NEW p \in Proc, StartGc(p)
      PROVE  \A q \in Proc : KnowledgeOK(q)'
  <2>1. KnowledgeOK(p)'
    BY <1>3, <1>t DEF StartGc, Open, Goto, disk, KnowledgeOK, IndexedHashes, IndexedPayloads, Eligible
  <2>2. \A q \in Proc \ {p} : Same(q)
    BY <1>t, <1>3 DEF StartGc, Open, Goto
  <2> QED
    BY <1>3, <2>1, <2>2, StepOfOne DEF StartGc
<1> DEFINE Keeps(p) == /\ pc' = [pc EXCEPT ![p] = pc'[p]] /\ cmd' = cmd /\ job' = job
                       /\ seen' = seen /\ todo' = todo /\ want' = want
<1>k. ASSUME NEW p \in Proc, Keeps(p), rows \subseteq rows', pc[p] # "idle",
             \/ /\ pc[p] \in {"payload", "plink", "manifest", "mlink"}
                /\ pc'[p] \in {"payload", "plink", "manifest", "mlink", "verify"}
             \/ /\ pc[p] \in {"verify", "lock", "tx", "commit", "return"}
                /\ pc'[p] \in {"verify", "lock", "tx", "commit", "return"}
             \/ pc[p] = "rbloop" /\ pc'[p] = "rbdone" /\ todo[p] = {}
             \/ pc[p] = "rbloop" /\ pc'[p] = "rbstuck" /\ Eligible(p) = {}
             \/ pc[p] = "tx" /\ cmd[p] = "rebuild" /\ pc'[p] = "rbrefused"
                /\ \E a \in want[p] : ParentsOf[a] \intersect IndexedPayloads # {}
      PROVE  \A q \in Proc : KnowledgeOK(q)'
  <2>1. IndexedHashes \subseteq IndexedHashes' /\ IndexedPayloads \subseteq IndexedPayloads'
    BY <1>k DEF IndexedHashes, IndexedPayloads
  <2>2. KnowledgeOK(p)'
    BY <1>k, <1>t, <2>1 DEF KnowledgeOK, Eligible
  <2> QED
    BY <1>t, <1>k, <2>2, StepOfOne
<1>4. ASSUME NEW p \in Proc, InstallExisting(p)
      PROVE  \A q \in Proc : KnowledgeOK(q)'
  <2>1. CASE Target(p) \in damaged
    BY <1>4, <1>e, <2>1 DEF InstallExisting
  <2>2. CASE Target(p) \notin damaged
    <3>1. Keeps(p) /\ rows' = rows /\ pc'[p] \in {"manifest", "verify"}
      BY <1>4, <1>t, <2>2 DEF InstallExisting, Installed, Goto, local
    <3> QED
      BY <1>4, <1>k, <3>1 DEF InstallExisting
  <2> QED
    BY <2>1, <2>2
<1>5. ASSUME NEW p \in Proc, CopyTemp(p)
      PROVE  \A q \in Proc : KnowledgeOK(q)'
  <2>1. Keeps(p) /\ rows' = rows /\ pc'[p] \in {"plink", "mlink"}
    BY <1>5, <1>t DEF CopyTemp, Goto
  <2> QED
    BY <1>5, <1>k, <2>1 DEF CopyTemp
<1>6. ASSUME NEW p \in Proc, Link(p)
      PROVE  \A q \in Proc : KnowledgeOK(q)'
  <2>1. CASE Target(p) \in damaged
    BY <1>6, <1>e, <2>1 DEF Link
  <2>2. CASE Target(p) \notin damaged
    <3>1. Keeps(p) /\ rows' = rows /\ pc'[p] \in {"manifest", "verify"}
      BY <1>6, <1>t, <2>2 DEF Link, Installed, Goto
    <3> QED
      BY <1>6, <1>k, <3>1 DEF Link
  <2> QED
    BY <2>1, <2>2
<1>7. ASSUME NEW p \in Proc, VerifyManifest(p)
      PROVE  \A q \in Proc : KnowledgeOK(q)'
  <2>1. CASE Readable(job[p])
    <3>1. Keeps(p) /\ rows' = rows /\ pc'[p] = "lock"
      BY <1>7, <1>t, <2>1 DEF VerifyManifest, Goto, local
    <3> QED
      BY <1>7, <1>k, <3>1 DEF VerifyManifest
  <2>2. CASE ~Readable(job[p])
    BY <1>7, <1>e, <2>2 DEF VerifyManifest
  <2> QED
    BY <2>1, <2>2
<1>8. ASSUME NEW p \in Proc, TakeLock(p)
      PROVE  \A q \in Proc : KnowledgeOK(q)'
  <2>1. CASE writer = NoProc
    <3>1. Keeps(p) /\ rows' = rows /\ pc'[p] = "tx"
      BY <1>8, <1>t, <2>1 DEF TakeLock, Goto, local
    <3> QED
      BY <1>8, <1>k, <3>1 DEF TakeLock
  <2>2. CASE writer # NoProc
    BY <1>8, <1>e, <2>2 DEF TakeLock
  <2> QED
    BY <2>1, <2>2
<1>9. ASSUME NEW p \in Proc, CheckParents(p)
      PROVE  \A q \in Proc : KnowledgeOK(q)'
  <2>1. CASE job[p] \in rows \/ ParentsOf[job[p]] \subseteq rows
    <3>1. Keeps(p) /\ rows' = rows /\ pc'[p] = "commit"
      BY <1>9, <1>t, <2>1 DEF CheckParents, Goto, local
    <3> QED
      BY <1>9, <1>k, <3>1 DEF CheckParents
  <2>2. CASE ~(job[p] \in rows \/ ParentsOf[job[p]] \subseteq rows) /\ cmd[p] = "put"
    BY <1>9, <1>e, <2>2 DEF CheckParents
  <2>3. CASE ~(job[p] \in rows \/ ParentsOf[job[p]] \subseteq rows) /\ cmd[p] # "put"
    <3>1. Keeps(p) /\ rows' = rows /\ pc'[p] = "rbrefused"
      BY <1>9, <1>t, <2>3 DEF CheckParents, Goto, local
    <3>2. cmd[p] = "rebuild" /\ job[p] \in want[p] /\ ParentsOf[job[p]] \subseteq IndexedHashes
      BY <1>9, <1>t, <2>3 DEF CheckParents, KnowledgeOK
    <3>3. ParentsOf[job[p]] \intersect IndexedPayloads # {}
      BY <2>3, <3>2 DEF IndexedHashes
    <3> QED
      BY <1>9, <1>k, <3>1, <3>2, <3>3 DEF CheckParents
  <2> QED
    BY <2>1, <2>2, <2>3
<1>10. ASSUME NEW p \in Proc, Commit(p)
      PROVE  \A q \in Proc : KnowledgeOK(q)'
  <2>1. Keeps(p) /\ rows \subseteq rows' /\ pc'[p] = "return"
    BY <1>10, <1>t DEF Commit, Goto, local
  <2> QED
    BY <1>10, <1>k, <2>1 DEF Commit
<1>11. ASSUME NEW p \in Proc, ReturnReceipt(p)
      PROVE  \A q \in Proc : KnowledgeOK(q)'
  BY <1>11, <1>e DEF ReturnReceipt
<1>12. ASSUME NEW p \in Proc, ReadIndexed(p)
      PROVE  \A q \in Proc : KnowledgeOK(q)'
  <2>1. CASE writer # NoProc
    BY <1>12, <1>e, <2>1 DEF ReadIndexed
  <2>2. CASE writer = NoProc
    <3>1. KnowledgeOK(p)'
      BY <1>12, <1>t, <2>2 DEF ReadIndexed, Goto, disk, KnowledgeOK, IndexedHashes, IndexedPayloads
    <3>2. \A q \in Proc \ {p} : Same(q)
      BY <1>t, <1>12, <2>2 DEF ReadIndexed, Goto
    <3> QED
      BY <1>12, <3>1, <3>2, StepOfOne DEF ReadIndexed
  <2> QED
    BY <2>1, <2>2
<1>13. ASSUME NEW p \in Proc, PickManifest(p)
      PROVE  \A q \in Proc : KnowledgeOK(q)'
  <2>1. PICK a \in todo[p] : ParentsOf[a] \subseteq seen[p] /\ job' = [job EXCEPT ![p] = a]
    BY <1>13 DEF PickManifest, Eligible
  <2>2. KnowledgeOK(p)'
    BY <1>13, <1>t, <2>1 DEF PickManifest, Goto, disk, KnowledgeOK, IndexedHashes, IndexedPayloads
  <2>3. \A q \in Proc \ {p} : Same(q)
    BY <1>t, <1>13, <2>1 DEF PickManifest, Goto
  <2> QED
    BY <1>13, <2>2, <2>3, StepOfOne DEF PickManifest
<1>14. ASSUME NEW p \in Proc, RebuildMeetsDamage(p)
      PROVE  \A q \in Proc : KnowledgeOK(q)'
  BY <1>14, <1>e DEF RebuildMeetsDamage
<1>15. ASSUME NEW p \in Proc, ManifestRecovered(p)
      PROVE  \A q \in Proc : KnowledgeOK(q)'
  <2>1. job[p] \in rows
    BY <1>15 DEF ManifestRecovered, RebuildInv, RegistryInv, PipelineOK
  <2>2. KnowledgeOK(p)'
    BY <1>15, <1>t, <2>1 DEF ManifestRecovered, Goto, disk, KnowledgeOK, IndexedHashes, IndexedPayloads
  <2>3. \A q \in Proc \ {p} : Same(q)
    BY <1>t, <1>15 DEF ManifestRecovered, Goto
  <2> QED
    BY <1>15, <2>2, <2>3, StepOfOne DEF ManifestRecovered
<1>16. ASSUME NEW p \in Proc, EndRebuild(p)
      PROVE  \A q \in Proc : KnowledgeOK(q)'
  <2>1. CASE todo[p] = {}
    <3>1. Keeps(p) /\ rows' = rows /\ pc'[p] = "rbdone"
      BY <1>16, <1>t, <2>1 DEF EndRebuild, Goto, local
    <3> QED
      BY <1>16, <1>k, <2>1, <3>1 DEF EndRebuild
  <2>2. CASE todo[p] # {}
    <3>1. Keeps(p) /\ rows' = rows /\ pc'[p] = "rbstuck"
      BY <1>16, <1>t, <2>2 DEF EndRebuild, Goto, local
    <3> QED
      BY <1>16, <1>k, <3>1 DEF EndRebuild
  <2> QED
    BY <2>1, <2>2
<1>17. ASSUME NEW p \in Proc, ReportOrphans(p)
      PROVE  \A q \in Proc : KnowledgeOK(q)'
  <2>1. CASE Strays
    BY <1>17, <1>e, <2>1 DEF ReportOrphans
  <2>2. CASE ~Strays
    <3>1. KnowledgeOK(p)'
      BY <1>17, <1>t, <2>2 DEF ReportOrphans, Goto, disk, KnowledgeOK, IndexedHashes, IndexedPayloads
    <3>2. \A q \in Proc \ {p} : Same(q)
      BY <1>t, <1>17, <2>2 DEF ReportOrphans, Goto
    <3> QED
      BY <1>17, <3>1, <3>2, StepOfOne DEF ReportOrphans
  <2> QED
    BY <2>1, <2>2
<1>18. ASSUME NEW p \in Proc, Leave(p)
      PROVE  \A q \in Proc : KnowledgeOK(q)'
  BY <1>18, <1>e DEF Leave
<1>19. ASSUME NEW p \in Proc, InstallFails(p)
      PROVE  \A q \in Proc : KnowledgeOK(q)'
  BY <1>19, <1>e DEF InstallFails
<1>20. ASSUME NEW p \in Proc, TransactionFails(p)
      PROVE  \A q \in Proc : KnowledgeOK(q)'
  BY <1>20, <1>e DEF TransactionFails
<1>21. ASSUME NEW p \in Proc, Crash(p)
      PROVE  \A q \in Proc : KnowledgeOK(q)'
  BY <1>21, <1>e DEF Crash
<1>22. ASSUME NEW o \in Object, Damage(o)
      PROVE  \A q \in Proc : KnowledgeOK(q)'
  BY <1>22, OthersKnow DEF Damage, local
<1>23. CASE LoseIndex
  BY <1>23, <1>t DEF LoseIndex, local, disk, KnowledgeOK, IndexedHashes, IndexedPayloads
<1>24. CASE UNCHANGED vars
  BY <1>24, OthersKnow DEF vars, local
<1> QED
  BY <1>1, <1>2, <1>3, <1>4, <1>5, <1>6, <1>7, <1>8, <1>9, <1>10, <1>11, <1>12, <1>13, <1>14, <1>15, <1>16, <1>17, <1>18, <1>19, <1>20, <1>21, <1>22, <1>23, <1>24 DEF Next, Work

\* A set of manifests with all their missing ancestors in it is not what a rebuild is stuck
\* with: one of them comes before the others.
LEMMA StuckIsUnrecoverable ==
    ASSUME RebuildInv, NEW p \in Proc, pc[p] = "rbstuck"
    PROVE  Recoverable(p) \subseteq rows
<1> SUFFICES ASSUME NEW S \in SUBSET (want[p] \ IndexedPayloads),
                    \A a \in S : ParentsOf[a] \subseteq S \union (rows \intersect seen[p]),
                    NEW x \in S, x \notin rows
             PROVE  FALSE
  BY DEF Recoverable
<1> DEFINE T == S \intersect todo[p]
<1>1. /\ want[p] \ todo[p] \subseteq seen[p] /\ seen[p] \subseteq IndexedHashes
      /\ Eligible(p) = {} /\ todo[p] \subseteq want[p] /\ want[p] \subseteq Artifact
  BY DEF RebuildInv, KnowledgeOK, RegistryInv, TypeOK
<1>2. x \in T
  BY <1>1 DEF IndexedHashes
<1>3. PICK a \in T : ParentsOf[a] \intersect T = {}
  <2>1. T \in SUBSET Artifact /\ T # {}
    BY <1>1, <1>2
  <2> HIDE DEF T
  <2> QED
    BY <2>1, AncestryIsAcyclic
<1>4. ParentsOf[a] \subseteq seen[p]
  BY <1>1, <1>3
<1> QED
  BY <1>1, <1>3, <1>4 DEF Eligible

\* What a rebuild does before its loop ends, and a put beside it, leaves it complete: it
\* indexes what can be indexed, and only a payload named as a parent stops it early.
THEOREM RebuildCompletes == Spec => []RebuildIsComplete
<1>1. RebuildInv => RebuildIsComplete
  <2> SUFFICES ASSUME RebuildInv, NEW p \in Proc
               PROVE  /\ pc[p] \in {"rbdone", "rbstuck"} => Recoverable(p) \subseteq rows
                      /\ pc[p] = "rbrefused" =>
                           \E a \in want[p] : ParentsOf[a] \intersect IndexedPayloads # {}
    BY DEF RebuildIsComplete
  <2>1. ASSUME pc[p] = "rbdone" PROVE Recoverable(p) \subseteq rows
    BY <2>1 DEF RebuildInv, KnowledgeOK, Recoverable, IndexedHashes
  <2> QED
    BY <2>1, StuckIsUnrecoverable DEF RebuildInv, KnowledgeOK
<1> QED
  BY <1>1, InitKnowledge, NextKnowledge, PTL DEF Spec

\* What gc took for reachable still is when it lists the objects, and a report misses none
\* of the others.
THEOREM GcIsComplete == Spec => GcMissesNothing
<1> DEFINE Reported == \A p \in Proc : (pc[p] = "gclist" /\ pc'[p] = "gcdone")
                         => objects \ IndexedHashes \subseteq todo'[p]
<1>1. RebuildInv /\ [Next]_vars => [Reported]_vars
  <2> SUFFICES ASSUME RebuildInv, Next, NEW p \in Proc, pc[p] = "gclist", pc'[p] = "gcdone"
               PROVE  objects \ IndexedHashes \subseteq todo'[p]
    OBVIOUS
  <2>0. /\ pc \in [Proc -> PC] /\ todo \in [Proc -> SUBSET Object]
        /\ seen[p] \subseteq IndexedHashes
    BY DEF RebuildInv, KnowledgeOK, RegistryInv, TypeOK
  <2>1. ReportOrphans(p)
    BY <2>0 DEF Next, Work, StartPut, StartRebuild, StartGc, Open, Goto, End, InstallExisting, Installed,
       CopyTemp, Link, VerifyManifest, TakeLock, CheckParents, Commit, ReturnReceipt, ReadIndexed,
       PickManifest, RebuildMeetsDamage, ManifestRecovered, EndRebuild, ReportOrphans, Leave,
       InstallFails, TransactionFails, Crash, Damage, LoseIndex
  <2> QED
    BY <2>0, <2>1 DEF ReportOrphans, End, Goto
<1> QED
  BY <1>1, InitKnowledge, NextKnowledge, PTL DEF Spec, GcMissesNothing
=============================================================================
