---------------------- MODULE RemoteQualificationProofs ----------------------
(***************************************************************************)
(* Theorems about RemoteQualification: for every set of clients and        *)
(* configurations, every choice of GPUs and signoffs, and any number of    *)
(* faults, one runner works at a time until somebody moves a live lock, a  *)
(* result a client accepts is earned, and a signoff repeats only what      *)
(* depends on it.                                                          *)
(***************************************************************************)
EXTENDS RemoteQualification, WellFoundedInduction, TLAPS

\* A nonempty set of naturals has a least element.
LEMMA Least ==
    ASSUME NEW T, T \subseteq Nat, T # {}
    PROVE  \E x \in T : \A y \in T : x <= y
<1>1. IsWellFoundedOn(OpToRel(<, Nat), Nat)
  BY NatLessThanWellFounded
<1>2. \E x \in T : \A y \in T : ~ (<<y, x>> \in OpToRel(<, Nat))
  BY <1>1, WFMin
<1>3. \A x, y \in Nat : <<y, x>> \in OpToRel(<, Nat) \/ x <= y
  BY DEF OpToRel
<1> QED
  BY <1>2, <1>3, Zenon

-----------------------------------------------------------------------------
(* The phases. *)

\* The phases in their order, each once.
LEMMA CoreOrderOK ==
    /\ Len(CoreOrder) = 14 /\ End = 15 /\ CoreOrder[1] = "01-preflight"
    /\ \A i \in 1..14 : CoreOrder[i] \in ToSet(CoreOrder)
    /\ \A i, j \in 1..14 : CoreOrder[i] = CoreOrder[j] => i = j
<1>1. Len(CoreOrder) = 14 /\ CoreOrder[1] = "01-preflight" /\ DOMAIN CoreOrder = 1..14
  BY DEF CoreOrder
<1>2. \A i, j \in 1..14 : CoreOrder[i] = CoreOrder[j] => i = j
  BY DEF CoreOrder
<1> QED
  BY <1>1, <1>2 DEF ToSet, End

\* After a phase comes the next one that is not left out, or the end.
LEMMA FollowingOK ==
    ASSUME NEW i \in 1..14
    PROVE  /\ Following(i) \in (i + 1)..15
           /\ Following(i) < 15 => CoreOrder[Following(i)] \in Phase
           /\ \A h \in (i + 1)..(Following(i) - 1) : CoreOrder[h] \notin Phase
<1> DEFINE T == {j \in (i + 1)..End : j = End \/ CoreOrder[j] \in Phase}
<1>1. T \subseteq Nat /\ T # {} /\ End = 15
  BY CoreOrderOK
<1>2. Following(i) = Min(T)
  BY DEF Following
<1> HIDE DEF T
<1>3. Min(T) \in T /\ \A j \in T : Min(T) <= j
  BY <1>1, Least DEF Min
<1> QED
  BY <1>1, <1>2, <1>3 DEF T

\* The names, spelled out.
LEMMA Names ==
    ToSet(CoreOrder) =
      {"01-preflight", "02-dependencies", "01b-license-acknowledgment",
       "08-dataset-adapter-evaluator", "08c-licensed-visual-review",
       "04-linux-verification", "06-cuda-parity", "13-accelerated-performance",
       "14-profiler-automation", "09-micro-overfit-audit",
       "10-baseline-candidate-training", "11-selected-study-charter-freeze",
       "12-fault-lab", "15-core-evidence-report"}
<1>1. ToSet(CoreOrder) = {CoreOrder[i] : i \in 1..14}
  BY DEF ToSet, CoreOrder
<1> QED
  BY <1>1 DEF CoreOrder

\* What a phase requires, through those that are left out: the equation defines a function,
\* because what a phase needs comes before it.
LEMMA RequiresOK ==
    \A p \in ToSet(CoreOrder) :
       Requires[p] = UNION {IF q \in LeftOut THEN Requires[q] ELSE {q} : q \in Needs(p)}
<1> DEFINE of(q, r) == IF q \in LeftOut THEN r ELSE {q}
           r01 == {}
           r02 == of("01-preflight", r01)
           r01b == of("02-dependencies", r02)
           r08 == of("01b-license-acknowledgment", r01b)
           r08c == of("08-dataset-adapter-evaluator", r08)
           r04 == of("02-dependencies", r02)
           r06 == of("04-linux-verification", r04)
           r13 == of("06-cuda-parity", r06)
           r09 == of("04-linux-verification", r04)
           r10 == of("08c-licensed-visual-review", r08c) \union of("06-cuda-parity", r06)
                    \union of("09-micro-overfit-audit", r09)
           r11 == of("10-baseline-candidate-training", r10)
                    \union of("13-accelerated-performance", r13)
           r15 == of("11-selected-study-charter-freeze", r11) \union of("12-fault-lab", r09)
                    \union of("14-profiler-automation", r13)
           value(p) ==
                   CASE p = "01-preflight" -> r01
                     [] p = "02-dependencies" -> r02
                     [] p = "01b-license-acknowledgment" -> r01b
                     [] p = "08-dataset-adapter-evaluator" -> r08
                     [] p = "08c-licensed-visual-review" -> r08c
                     [] p = "04-linux-verification" -> r04
                     [] p = "06-cuda-parity" -> r06
                     [] p \in {"13-accelerated-performance", "14-profiler-automation"} -> r13
                     [] p \in {"09-micro-overfit-audit", "12-fault-lab"} -> r09
                     [] p = "10-baseline-candidate-training" -> r10
                     [] p = "11-selected-study-charter-freeze" -> r11
                     [] p = "15-core-evidence-report" -> r15
           f == [p \in ToSet(CoreOrder) |-> value(p)]
           step(g, p) == UNION {IF q \in LeftOut THEN g[q] ELSE {q} : q \in Needs(p)}
<1>1. /\ f["01-preflight"] = r01 /\ f["02-dependencies"] = r02
      /\ f["01b-license-acknowledgment"] = r01b /\ f["08-dataset-adapter-evaluator"] = r08
      /\ f["08c-licensed-visual-review"] = r08c /\ f["04-linux-verification"] = r04
      /\ f["06-cuda-parity"] = r06 /\ f["13-accelerated-performance"] = r13
      /\ f["14-profiler-automation"] = r13 /\ f["09-micro-overfit-audit"] = r09
      /\ f["12-fault-lab"] = r09 /\ f["10-baseline-candidate-training"] = r10
      /\ f["11-selected-study-charter-freeze"] = r11 /\ f["15-core-evidence-report"] = r15
  <2> HIDE DEF r01, r02, r01b, r08, r08c, r04, r06, r13, r09, r10, r11, r15
  <2> QED
    BY Names
<1>0. f = [p \in ToSet(CoreOrder) |-> f[p]]
  <2> HIDE DEF value
  <2> QED
    OBVIOUS
<1> HIDE DEF f
<1>2. ASSUME NEW p \in ToSet(CoreOrder) PROVE f[p] = step(f, p)
  <2>1. CASE p = "01-preflight"
    BY <1>1, <2>1 DEF Needs
  <2>2. CASE p = "02-dependencies"
    BY <1>1, <2>2 DEF Needs
  <2>3. CASE p = "01b-license-acknowledgment"
    BY <1>1, <2>3 DEF Needs
  <2>4. CASE p = "08-dataset-adapter-evaluator"
    BY <1>1, <2>4 DEF Needs
  <2>5. CASE p = "08c-licensed-visual-review"
    BY <1>1, <2>5 DEF Needs
  <2>6. CASE p = "04-linux-verification"
    BY <1>1, <2>6 DEF Needs
  <2>7. CASE p = "06-cuda-parity"
    BY <1>1, <2>7 DEF Needs
  <2>8. CASE p \in {"13-accelerated-performance", "14-profiler-automation"}
    BY <1>1, <2>8 DEF Needs
  <2>9. CASE p \in {"09-micro-overfit-audit", "12-fault-lab"}
    BY <1>1, <2>9 DEF Needs
  <2>10. CASE p = "10-baseline-candidate-training"
    BY <1>1, <2>10 DEF Needs
  <2>11. CASE p = "11-selected-study-charter-freeze"
    BY <1>1, <2>11 DEF Needs
  <2>12. CASE p = "15-core-evidence-report"
    BY <1>1, <2>12 DEF Needs
  <2> QED
    BY <2>1, <2>2, <2>3, <2>4, <2>5, <2>6, <2>7, <2>8, <2>9, <2>10, <2>11, <2>12, Names
<1>3. f = [p \in ToSet(CoreOrder) |-> step(f, p)]
  BY <1>0, <1>2
<1>4. \E g : g = [p \in ToSet(CoreOrder) |->
                  UNION {IF q \in LeftOut THEN g[q] ELSE {q} : q \in Needs(p)}]
  BY <1>3
<1>5. Requires = [p \in ToSet(CoreOrder) |->
                   UNION {IF q \in LeftOut THEN Requires[q] ELSE {q} : q \in Needs(p)}]
  BY <1>4, Zenon DEF Requires
<1> QED
  BY <1>5

\* Every phase but the preflight requires one.
LEMMA RequiresSome ==
    ASSUME NEW p \in Phase, p # "01-preflight"
    PROVE  Requires[p] # {}
<1> DEFINE Some(q) == q \notin LeftOut \/ Requires[q] # {}
<1> SUFFICES \A q \in ToSet(CoreOrder) : q # "01-preflight" => Requires[q] # {}
  BY DEF Phase
<1>1. ASSUME NEW q \in ToSet(CoreOrder), NEW n \in Needs(q), Some(n) PROVE Requires[q] # {}
  BY <1>1, RequiresOK
<1>2. Some("01-preflight")
  BY QualificationConstants
<1> HIDE DEF Some
<1>3. Requires["02-dependencies"] # {}
  BY <1>1, <1>2, Names DEF Needs, Some
<1>4. Requires["01b-license-acknowledgment"] # {}
  BY <1>1, <1>3, Names DEF Needs, Some
<1>5. Requires["08-dataset-adapter-evaluator"] # {}
  BY <1>1, <1>4, Names DEF Needs, Some
<1>6. Requires["08c-licensed-visual-review"] # {}
  BY <1>1, <1>5, Names DEF Needs, Some
<1>7. Requires["04-linux-verification"] # {}
  BY <1>1, <1>3, Names DEF Needs, Some
<1>8. Requires["06-cuda-parity"] # {}
  BY <1>1, <1>7, Names DEF Needs, Some
<1>9. Requires["13-accelerated-performance"] # {}
  BY <1>1, <1>8, Names DEF Needs, Some
<1>10. Requires["14-profiler-automation"] # {}
  BY <1>1, <1>8, Names DEF Needs, Some
<1>11. Requires["09-micro-overfit-audit"] # {}
  BY <1>1, <1>7, Names DEF Needs, Some
<1>12. Requires["12-fault-lab"] # {}
  BY <1>1, <1>7, Names DEF Needs, Some
<1>13. Requires["10-baseline-candidate-training"] # {}
  BY <1>1, <1>8, Names DEF Needs, Some
<1>14. Requires["11-selected-study-charter-freeze"] # {}
  BY <1>1, <1>9, Names DEF Needs, Some
<1>15. Requires["15-core-evidence-report"] # {}
  BY <1>1, <1>12, Names DEF Needs, Some
<1> QED
  BY <1>2, <1>3, <1>4, <1>5, <1>6, <1>7, <1>8, <1>9, <1>10, <1>11, <1>12, <1>13, <1>14, <1>15, Names

-----------------------------------------------------------------------------
(* Types. *)

LEMMA InitInv == Init => RemoteInv
<1> SUFFICES ASSUME Init PROVE RemoteInv
  OBVIOUS
<1>1. TypeOK
  <2>1. End = 15 /\ 1 \in 1..End
    BY CoreOrderOK
  <2>2. /\ incoming \in Config \union {None} /\ status \in Final \union {None}
        /\ sealed \in BOOLEAN /\ lock \in {"free", "empty", "dead"} \union Config
        /\ kept \in SUBSET Inputs /\ made \in SUBSET NoClobber
        /\ environment \in Gpu \union {None} /\ overtaken \in BOOLEAN
    BY DEF Init
  <2>3. /\ config \in [Config -> Config \union {None}] /\ gpu \in [Config -> Gpu \union {None}]
        /\ at \in [Config -> 1..End] /\ passed \in [Config -> SUBSET Phase]
        /\ worst \in [Config -> Result \union {"ERROR"}]
    BY <2>1 DEF Init, Result
  <2>4. /\ want \in [Client -> Config] /\ got \in [Client -> Final \union {None}]
        /\ torn \in [Client -> BOOLEAN] /\ faults \in 0..MaxFaults
    BY QualificationConstants DEF Init
  <2> QED
    BY <2>2, <2>3, <2>4 DEF Init, TypeOK
<1>2. \A s \in Config : RunnerOK(s)
  <2>1. CoreOrder[1] \in Phase
    BY CoreOrderOK, QualificationConstants DEF Phase
  <2> QED
    BY <2>1 DEF Init, RunnerOK, Now
<1> QED
  BY <1>1, <1>2 DEF Init, RemoteInv, OneRunnerUnlessOvertaken, Working, LockOK, KeptOK, ResultOK, ClientOK

\* A runner at a phase is at one that is not left out, and what its input is.
LEMMA AtPhaseOK ==
    ASSUME RemoteInv, NEW s \in Config, AtPhase(s)
    PROVE  /\ at[s] \in 1..14 /\ Now(s) = CoreOrder[at[s]] /\ Now(s) \in Phase
           /\ Following(at[s]) \in (at[s] + 1)..15 /\ config[s] \in Config /\ gpu[s] \in Gpu \union {None}
           /\ worst[s] \in Result
           /\ \A g \in Gpu \union {None} : Key(Now(s), config[s], g) \in Inputs
<1>1. /\ at[s] \in 1..14 /\ Now(s) \in Phase /\ config[s] \in Config /\ gpu[s] \in Gpu \union {None}
      /\ worst[s] \in Result
  BY CoreOrderOK DEF AtPhase, RemoteInv, RunnerOK, TypeOK
<1>2. SignedBy[config[s]] \in Signoff \union {None}
  BY <1>1 DEF Signoff
<1> QED
  BY <1>1, <1>2, FollowingOK DEF Key, Inputs, Now

\* A phase that ends with a result.
LEMMA EndedType ==
    ASSUME RemoteInv, NEW s \in Config, NEW result \in Result, AtPhase(s), Ended(s, result)
    PROVE  /\ rpc' = [rpc EXCEPT ![s] = "phases"] /\ at' \in [Config -> 1..End]
           /\ passed' \in [Config -> SUBSET Phase] /\ worst' \in [Config -> Result \union {"ERROR"}]
<1>1. worst[s] \in Result /\ Now(s) \in Phase /\ Following(at[s]) \in 1..End
  BY AtPhaseOK, CoreOrderOK
<1>2. Worse(s, result) \in Result
  BY <1>1 DEF Worse
<1>3. /\ at \in [Config -> 1..End] /\ passed \in [Config -> SUBSET Phase]
      /\ worst \in [Config -> Result \union {"ERROR"}]
  BY DEF RemoteInv, TypeOK
<1> QED
  BY <1>1, <1>2, <1>3 DEF Ended, Goto

LEMMA TypeNext == RemoteInv /\ [Next]_vars => TypeOK'
<1> SUFFICES ASSUME RemoteInv, [Next]_vars PROVE TypeOK'
  OBVIOUS
<1>t. TypeOK
  BY DEF RemoteInv
<1> USE QualificationConstants
<1>1. ASSUME NEW k \in Client, Upload(k) PROVE TypeOK'
  BY <1>1, <1>t DEF TypeOK, Upload, runner
<1>2. ASSUME NEW k \in Client, StartSession(k) PROVE TypeOK'
  BY <1>2, <1>t DEF TypeOK, StartSession, Goto, remote
<1>3. ASSUME NEW k \in Client, Poll(k) PROVE TypeOK'
  BY <1>3, <1>t DEF TypeOK, Poll, remote, runner
<1>4. ASSUME NEW k \in Client, Retrieve(k) PROVE TypeOK'
  BY <1>4, <1>t DEF TypeOK, Retrieve, remote, runner
<1>5. ASSUME NEW k \in Client, RetrieveFails(k) PROVE TypeOK'
  BY <1>5, <1>t DEF TypeOK, RetrieveFails, remote, runner
<1>6. ASSUME NEW k \in Client, TimeOut(k) PROVE TypeOK'
  BY <1>6, <1>t DEF TypeOK, TimeOut, Disconnect, remote, runner
<1>7. ASSUME NEW k \in Client, GiveUp(k) PROVE TypeOK'
  BY <1>7, <1>t DEF TypeOK, GiveUp, Disconnect, Fault, remote, runner
<1>8. ASSUME NEW k \in Client, Rerun(k) PROVE TypeOK'
  BY <1>8, <1>t DEF TypeOK, Rerun, remote, runner
<1>e. 1 \in 1..End
  BY CoreOrderOK
<1> DEFINE Ends(s) == /\ rpc' \in [Config -> {"none", "load", "lock", "probe", "steal", "remake", "own",
                                            "phases", "seal", "unlink", "rmdir", "fail"}]
                      /\ at' \in [Config -> 1..End] /\ passed' \in [Config -> SUBSET Phase]
                      /\ worst' \in [Config -> Result \union {"ERROR"}]
<1>g. ASSUME NEW s \in Config, Gone(s)
      PROVE  Ends(s) /\ config' \in [Config -> Config \union {None}] /\ gpu' \in [Config -> Gpu \union {None}]
  BY <1>g, <1>t, <1>e DEF TypeOK, Gone, Goto, Result
<1>h. ASSUME NEW s \in Config, NEW result \in Result, AtPhase(s), Ended(s, result) PROVE Ends(s)
  BY <1>h, <1>t, EndedType DEF TypeOK
<1>u. ASSUME Touch PROVE sealed' \in BOOLEAN /\ torn' \in [Client -> BOOLEAN]
  BY <1>u, <1>t DEF Touch, TypeOK
<1>i. ASSUME NEW s \in Config, Interrupted(s)
      PROVE  made' \in SUBSET NoClobber /\ sealed' \in BOOLEAN /\ torn' \in [Client -> BOOLEAN]
  BY <1>i, <1>u, <1>t DEF Interrupted, TypeOK
<1>9. ASSUME NEW s \in Config, Load(s) PROVE TypeOK'
  BY <1>9, <1>t DEF TypeOK, Load, Goto, remote, client
<1>10. ASSUME NEW s \in Config, TakeLock(s) PROVE TypeOK'
  BY <1>10, <1>t DEF TypeOK, TakeLock, Goto, client
<1>11. ASSUME NEW s \in Config, ProbeLock(s) PROVE TypeOK'
  BY <1>11, <1>t DEF TypeOK, ProbeLock, Goto, remote, client
<1>12. ASSUME NEW s \in Config, StealLock(s) PROVE TypeOK'
  BY <1>12, <1>t DEF TypeOK, StealLock, Goto, client
<1>13. ASSUME NEW s \in Config, RemakeLock(s) PROVE TypeOK'
  BY <1>13, <1>t DEF TypeOK, RemakeLock, Goto, client
<1>14. ASSUME NEW s \in Config, OwnLock(s) PROVE TypeOK'
  BY <1>14, <1>t DEF TypeOK, OwnLock, Goto, client
<1>15. ASSUME NEW s \in Config, ReleaseOwner(s) PROVE TypeOK'
  BY <1>15, <1>t DEF TypeOK, ReleaseOwner, Goto, client
<1>16. ASSUME NEW s \in Config, ReleaseLock(s) PROVE TypeOK'
  <2>1. CASE worst[s] = "ERROR"
    BY <1>16, <1>t, <2>1 DEF TypeOK, ReleaseLock, Goto, client
  <2>2. CASE worst[s] # "ERROR"
    BY <1>16, <1>t, <1>g, <2>2 DEF TypeOK, ReleaseLock, client
  <2> QED
    BY <2>1, <2>2
<1>17. ASSUME NEW s \in Config, WriteError(s) PROVE TypeOK'
  <2>1. [state |-> "FAILED", config |-> None, gpu |-> None] \in Final
    BY DEF Final, Result
  <2> QED
    BY <1>17, <1>t, <1>g, <1>u, <2>1 DEF TypeOK, WriteError
<1>18. ASSUME NEW s \in Config, Block(s) PROVE TypeOK'
  BY <1>18, <1>t, <1>h, <1>u DEF TypeOK, Block, Result
<1>19. ASSUME NEW s \in Config, Reuse(s) PROVE TypeOK'
  BY <1>19, <1>t, <1>h DEF TypeOK, Reuse, Result, remote, client
<1>20. ASSUME NEW s \in Config, Run(s) PROVE TypeOK'
  <2>1. Selected(s) \in Gpu \union {None} /\ gpu[s] \in Gpu \union {None}
    BY <1>20, <1>t, AtPhaseOK DEF Run, Selected, Gpu
  <2>2. /\ gpu' \in [Config -> Gpu \union {None}] /\ kept' \in SUBSET Inputs
        /\ environment' \in Gpu \union {None} /\ made' \in SUBSET NoClobber
    BY <1>20, <1>t, <2>1, AtPhaseOK DEF Run, TypeOK
  <2> QED
    BY <1>20, <1>t, <1>h, <1>u, <2>2 DEF TypeOK, Run, Result
<1>21. ASSUME NEW s \in Config, Fails(s) PROVE TypeOK'
  <2>1. PICK result \in Result : Ended(s, result)
    BY <1>21 DEF Fails, Result
  <2>2. faults' \in 0..MaxFaults
    BY <1>21, <1>t DEF Fails, Fault, TypeOK
  <2>3. made' \in SUBSET NoClobber
    BY <1>21, <1>t DEF Fails, TypeOK, FillsInPlace
  <2> QED
    BY <1>21, <1>t, <1>h, <1>u, <2>1, <2>2, <2>3 DEF TypeOK, Fails
<1>22. ASSUME NEW s \in Config, GpuBusy(s) PROVE TypeOK'
  BY <1>22, <1>t, <1>h, <1>u DEF TypeOK, GpuBusy, Fault, Result
<1>23. ASSUME NEW s \in Config, WriteStatus(s) PROVE TypeOK'
  <2>1. worst[s] \in Result
    BY <1>23, <1>t DEF WriteStatus, RemoteInv, RunnerOK, TypeOK
  <2>2. [state |-> worst[s], config |-> config[s], gpu |-> gpu[s]] \in Final
    BY <1>t, <2>1 DEF Final, TypeOK
  <2> QED
    BY <1>23, <1>t, <1>u, <2>2 DEF TypeOK, WriteStatus, Goto
<1>24. ASSUME NEW s \in Config, WriteChecksums(s) PROVE TypeOK'
  BY <1>24, <1>t DEF TypeOK, WriteChecksums, Goto
<1>25. ASSUME NEW s \in Config, RunnerRaises(s) PROVE TypeOK'
  BY <1>25, <1>t, <1>i DEF TypeOK, RunnerRaises, Goto, Fault
<1>26. ASSUME NEW s \in Config, RunnerDies(s) PROVE TypeOK'
  BY <1>26, <1>t, <1>i, <1>g DEF TypeOK, RunnerDies, Fault
<1>27. CASE UNCHANGED vars
  BY <1>27, <1>t DEF TypeOK, vars, remote, runner, client
<1> QED
  BY <1>1, <1>2, <1>3, <1>4, <1>5, <1>6, <1>7, <1>8, <1>9, <1>10, <1>11, <1>12, <1>13, <1>14, <1>15, <1>16, <1>17, <1>18, <1>19, <1>20, <1>21, <1>22, <1>23, <1>24, <1>25, <1>26, <1>27 DEF Next, ClientStep, RunnerStep

-----------------------------------------------------------------------------
(* The lock. *)

\* A runner that neither takes nor loses the lock leaves it as it was understood.
LEMMA LockKept ==
    ASSUME LockOK, DOMAIN rpc = Config, NEW s \in Config, NEW label,
           rpc' = [rpc EXCEPT ![s] = label], UNCHANGED <<lock, overtaken>>, label # "own",
           label \in {"phases", "seal", "unlink"} => rpc[s] \in {"phases", "seal", "unlink"}
    PROVE  LockOK'
BY DEF LockOK

LEMMA LockNext == RemoteInv /\ [Next]_vars => LockOK'
<1> SUFFICES ASSUME RemoteInv, [Next]_vars PROVE LockOK'
  OBVIOUS
<1>t. LockOK /\ DOMAIN rpc = Config /\ overtaken \in BOOLEAN /\ want \in [Client -> Config]
      /\ lock \in {"free", "empty", "dead"} \union Config
  BY DEF RemoteInv, TypeOK
<1>d. \A s \in Config : s # "free" /\ s # "empty" /\ s # "dead"
  BY QualificationConstants
<1>1. ASSUME NEW k \in Client, ClientStep(k) \/ GiveUp(k) PROVE LockOK'
  <2>1. CASE StartSession(k)
    <3>1. \/ rpc' = rpc
          \/ rpc' = [rpc EXCEPT ![want[k]] = "load"]
      BY <2>1 DEF StartSession, Goto
    <3>2. UNCHANGED <<lock, overtaken>> /\ want[k] \in Config
      BY <2>1, <1>t DEF StartSession, remote
    <3>3. CASE rpc' = rpc
      BY <1>t, <3>2, <3>3 DEF LockOK
    <3>4. CASE rpc' = [rpc EXCEPT ![want[k]] = "load"]
      BY <1>t, <3>2, <3>4, LockKept
    <3> QED
      BY <3>1, <3>3, <3>4
  <2>2. CASE ~StartSession(k)
    <3>1. UNCHANGED <<lock, rpc, overtaken>>
      BY <1>1, <2>2 DEF ClientStep, GiveUp, Upload, Poll, Retrieve, RetrieveFails, TimeOut, Rerun, remote, runner
    <3> QED
      BY <1>t, <3>1 DEF LockOK
  <2> QED
    BY <2>1, <2>2
<1>2. ASSUME NEW s \in Config, \/ Load(s) \/ ProbeLock(s) \/ WriteError(s) \/ Block(s) \/ Reuse(s)
                               \/ Run(s) \/ Fails(s) \/ GpuBusy(s) \/ WriteStatus(s)
                               \/ WriteChecksums(s) \/ RunnerRaises(s)
      PROVE  LockOK'
  <2>1. UNCHANGED <<lock, overtaken>>
    BY <1>2 DEF Load, ProbeLock, WriteError, Block, Reuse, Run, Fails, GpuBusy, WriteStatus, WriteChecksums,
       RunnerRaises, remote
  <2>2. \/ /\ rpc[s] \in {"phases", "seal", "unlink"}
           /\ \E label \in {"phases", "seal", "unlink"} : rpc' = [rpc EXCEPT ![s] = label]
        \/ \E label \in {"lock", "fail", "steal", "none"} : rpc' = [rpc EXCEPT ![s] = label]
    BY <1>2 DEF Load, ProbeLock, WriteError, Block, Reuse, Run, Fails, GpuBusy, WriteStatus, WriteChecksums,
       RunnerRaises, Ended, Gone, Goto, AtPhase, Working
  <2> QED
    BY <1>t, <2>1, <2>2, LockKept
<1>3. ASSUME NEW s \in Config, TakeLock(s) \/ RemakeLock(s) PROVE LockOK'
  <2>1. CASE lock = "free"
    <3>1. lock' = "empty" /\ rpc' = [rpc EXCEPT ![s] = "own"] /\ overtaken' = overtaken
      BY <1>3, <2>1 DEF TakeLock, RemakeLock, Goto
    <3> QED
      BY <1>t, <1>d, <2>1, <3>1 DEF LockOK
  <2>2. CASE lock # "free"
    BY <1>3, <1>t, <2>2, LockKept DEF TakeLock, RemakeLock, Goto
  <2> QED
    BY <2>1, <2>2
<1>4. ASSUME NEW s \in Config, StealLock(s) PROVE LockOK'
  BY <1>4, <1>t, <1>d DEF StealLock, Goto, LockOK
<1>5. ASSUME NEW s \in Config, OwnLock(s) PROVE LockOK'
  BY <1>5, <1>t, <1>d DEF OwnLock, Goto, LockOK
<1>6. ASSUME NEW s \in Config, ReleaseOwner(s) PROVE LockOK'
  BY <1>6, <1>t, <1>d DEF ReleaseOwner, Goto, LockOK
<1>7. ASSUME NEW s \in Config, ReleaseLock(s) PROVE LockOK'
  <2>1. \E label \in {"fail", "none"} : rpc' = [rpc EXCEPT ![s] = label]
    BY <1>7 DEF ReleaseLock, Gone, Goto
  <2> QED
    BY <1>7, <1>t, <1>d, <2>1 DEF ReleaseLock, LockOK
<1>8. ASSUME NEW s \in Config, RunnerDies(s) PROVE LockOK'
  BY <1>8, <1>t, <1>d DEF RunnerDies, Gone, Goto, LockOK
<1>9. CASE UNCHANGED vars
  BY <1>9, <1>t DEF LockOK, vars, remote, runner
<1> QED
  BY <1>1, <1>2, <1>3, <1>4, <1>5, <1>6, <1>7, <1>8, <1>9 DEF Next, RunnerStep

\* Two runners at work would both have the lock.
LEMMA OneRunner ==
    ASSUME LockOK
    PROVE  OneRunnerUnlessOvertaken
BY DEF LockOK, OneRunnerUnlessOvertaken, Working

-----------------------------------------------------------------------------
(* Runners. *)

\* What another runner knows stays so, if the preflight that is on disk stays there.
LEMMA OthersRun ==
    ASSUME NEW q \in Config, RunnerOK(q), rpc'[q] = rpc[q], config'[q] = config[q], gpu'[q] = gpu[q],
           at'[q] = at[q], passed'[q] = passed[q], worst'[q] = worst[q],
           incoming # None => incoming' # None, status # None => status' # None,
           PreflightKey \in kept => environment' = environment /\ PreflightKey \in kept'
    PROVE  RunnerOK(q)'
BY DEF RunnerOK, Now

\* A session that is over, or begins.
LEMMA GoneOK ==
    ASSUME TypeOK, NEW s \in Config, Gone(s)
    PROVE  RunnerOK(s)'
<1>1. /\ rpc'[s] = "none" /\ at'[s] = 1 /\ passed'[s] = {} /\ worst'[s] = "PASSED"
  BY DEF Gone, Goto, TypeOK
<1>2. CoreOrder[1] \in Phase
  BY CoreOrderOK, QualificationConstants DEF Phase
<1> QED
  BY <1>1, <1>2 DEF RunnerOK, Now

\* A phase is passed with the preflight among those before it, or is the preflight.
LEMMA ReadyOK ==
    ASSUME RemoteInv, NEW s \in Config, AtPhase(s), Ready(s)
    PROVE  Now(s) = "01-preflight" \/ "01-preflight" \in passed[s]
<1>1. Now(s) \in Phase
  BY AtPhaseOK
<1>2. CASE Now(s) # "01-preflight"
  BY <1>1, <1>2, RequiresSome DEF Ready, RemoteInv, RunnerOK
<1> QED
  BY <1>2

\* A phase passes once: it is not among those that lie behind.
LEMMA NowIsNew ==
    ASSUME RemoteInv, NEW s \in Config, AtPhase(s)
    PROVE  Now(s) \notin passed[s]
<1>1. at[s] \in 1..14
  BY AtPhaseOK
<1>2. \A p \in passed[s] : \E i \in 1..(at[s] - 1) : p = CoreOrder[i]
  BY DEF RemoteInv, RunnerOK
<1> QED
  BY <1>1, <1>2, CoreOrderOK DEF Now

LEMMA EndedOK ==
    ASSUME RemoteInv, NEW s \in Config, NEW result \in Result, AtPhase(s), Ended(s, result),
           result = "PASSED" => Ready(s), incoming' = incoming, config' = config,
           "01-preflight" \in passed'[s] => gpu'[s] = environment' /\ PreflightKey \in kept'
    PROVE  RunnerOK(s)'
<1>1. /\ at[s] \in 1..14 /\ Now(s) = CoreOrder[at[s]] /\ Now(s) \in Phase
      /\ worst[s] \in Result /\ Following(at[s]) \in (at[s] + 1)..15
  BY AtPhaseOK
<1>2. /\ rpc'[s] = "phases" /\ at'[s] = Following(at[s]) /\ worst'[s] = Worse(s, result)
      /\ passed'[s] = IF result = "PASSED" THEN passed[s] \union {Now(s)} ELSE passed[s]
  BY DEF Ended, Goto, RemoteInv, TypeOK
<1>3. RunnerOK(s) /\ rpc[s] = "phases"
  BY DEF RemoteInv, AtPhase
<1>4. at'[s] < End => Now(s)' \in Phase
  BY <1>1, <1>2, FollowingOK, CoreOrderOK DEF Now
<1>5. \A p \in passed'[s] : \E i \in 1..(at'[s] - 1) : p = CoreOrder[i]
  BY <1>1, <1>2, <1>3 DEF RunnerOK
<1>6. passed'[s] # {} => "01-preflight" \in passed'[s]
  BY <1>2, <1>3, ReadyOK DEF RunnerOK
<1>7. ASSUME worst'[s] = "PASSED", NEW i \in 1..(at'[s] - 1), CoreOrder[i] \in Phase
      PROVE  CoreOrder[i] \in passed'[s]
  <2>1. result = "PASSED" /\ worst[s] = "PASSED"
    BY <1>2, <1>7 DEF Worse
  <2>2. CASE i < at[s]
    <3>1. i \in 1..(at[s] - 1)
      BY <1>1, <1>2, <1>7, <2>2
    <3> QED
      BY <1>2, <1>3, <1>7, <2>1, <3>1 DEF RunnerOK
  <2>3. CASE i = at[s]
    BY <1>1, <1>2, <2>1, <2>3
  <2>4. CASE i > at[s]
    <3>1. i \in (at[s] + 1)..(Following(at[s]) - 1)
      BY <1>1, <1>2, <2>4
    <3> QED
      BY <1>1, <1>7, <3>1, FollowingOK
  <2> QED
    BY <1>1, <1>2, <2>2, <2>3, <2>4
<1>8. Worse(s, result) \in Result
  BY <1>1 DEF Worse
<1> QED
  BY <1>2, <1>3, <1>4, <1>5, <1>6, <1>7, <1>8 DEF RunnerOK, Result

\* The preflight on disk, and what it found, are there for good.
LEMMA PreflightStays ==
    ASSUME RemoteInv, Next, PreflightKey \in kept
    PROVE  environment' = environment /\ PreflightKey \in kept'
<1>1. \A p, c, g : p # "01-preflight" => Key(p, c, g) # PreflightKey
  BY DEF Key, PreflightKey
<1>2. \A c, g : Key("01-preflight", c, g) = PreflightKey
  BY DEF Key, PreflightKey, VisualSensitive
<1>3. "01-preflight" \notin Audited
  BY DEF Audited
<1>4. ASSUME NEW s \in Config, Block(s) PROVE environment' = environment /\ PreflightKey \in kept'
  BY <1>1, <1>3, <1>4 DEF Block
<1>5. ASSUME NEW s \in Config, Run(s) PROVE environment' = environment /\ PreflightKey \in kept'
  BY <1>2, <1>3, <1>5 DEF Run, Reusable
<1>6. ASSUME NEW s \in Config, Fails(s) PROVE environment' = environment /\ PreflightKey \in kept'
  BY <1>1, <1>2, <1>3, <1>6 DEF Fails, Reusable
<1> QED
  BY <1>4, <1>5, <1>6 DEF Next, ClientStep, RunnerStep, GiveUp, Upload, StartSession, Poll, Retrieve,
     RetrieveFails, TimeOut, Rerun, Load, TakeLock, ProbeLock, StealLock, RemakeLock, OwnLock, Reuse,
     WriteStatus, WriteChecksums, ReleaseOwner, ReleaseLock, WriteError, GpuBusy, RunnerRaises,
     RunnerDies, remote

\* A configuration and a status are replaced, never removed.
LEMMA WrittenStays ==
    ASSUME RemoteInv, Next
    PROVE  (incoming # None => incoming' # None) /\ (status # None => status' # None)
<1>1. ASSUME NEW k \in Client, Upload(k) PROVE incoming' # None /\ status' = status
  BY <1>1, QualificationConstants DEF Upload, RemoteInv, TypeOK
<1>2. ASSUME NEW s \in Config, WriteError(s) PROVE incoming' = incoming /\ status' # None
  BY <1>2, QualificationConstants DEF WriteError, Final, Result
<1>3. ASSUME NEW s \in Config, WriteStatus(s) PROVE incoming' = incoming /\ status' # None
  <2>1. status' \in Final
    BY <1>3 DEF WriteStatus, RemoteInv, RunnerOK, TypeOK, Final
  <2> QED
    BY <1>3, <2>1, QualificationConstants DEF WriteStatus
<1> QED
  BY <1>1, <1>2, <1>3 DEF Next, ClientStep, RunnerStep, GiveUp, StartSession, Poll, Retrieve,
     RetrieveFails, TimeOut, Rerun, Load, TakeLock, ProbeLock, StealLock, RemakeLock, OwnLock, Block,
     Reuse, Run, Fails, WriteChecksums, ReleaseOwner, ReleaseLock, GpuBusy, RunnerRaises,
     RunnerDies, remote

LEMMA RunnerNext == RemoteInv /\ [Next]_vars => \A s \in Config : RunnerOK(s)'
<1> SUFFICES ASSUME RemoteInv, [Next]_vars PROVE \A s \in Config : RunnerOK(s)'
  OBVIOUS
<1>t. /\ \A s \in Config : RunnerOK(s)
      /\ DOMAIN rpc = Config /\ DOMAIN config = Config /\ DOMAIN gpu = Config /\ DOMAIN at = Config
      /\ DOMAIN passed = Config /\ DOMAIN worst = Config /\ want \in [Client -> Config]
  BY DEF RemoteInv, TypeOK
<1> DEFINE Same(q) == /\ rpc'[q] = rpc[q] /\ config'[q] = config[q] /\ gpu'[q] = gpu[q]
                      /\ at'[q] = at[q] /\ passed'[q] = passed[q] /\ worst'[q] = worst[q]
<1>s. ASSUME Next, NEW q \in Config, Same(q) PROVE RunnerOK(q)'
  BY <1>s, <1>t, OthersRun, PreflightStays, WrittenStays
<1>n. ASSUME Next, NEW s \in Config, RunnerOK(s)', \A q \in Config \ {s} : Same(q)
      PROVE  \A q \in Config : RunnerOK(q)'
  BY <1>s, <1>n
<1>1. ASSUME Next, NEW k \in Client, ClientStep(k) \/ GiveUp(k) PROVE \A q \in Config : RunnerOK(q)'
  <2>1. CASE StartSession(k) /\ rpc' # rpc
    <3>1. PICK s \in Config : s = want[k]
      BY <1>t
    <3>2. /\ rpc[s] = "none" /\ rpc' = [rpc EXCEPT ![s] = "load"] /\ incoming # None
          /\ UNCHANGED <<incoming, config, gpu, at, passed, worst, environment, kept>>
      BY <2>1, <3>1, <1>t DEF StartSession, Goto, remote, RemoteInv, ClientOK
    <3>3. RunnerOK(s)'
      BY <1>t, <3>2 DEF RunnerOK, Now
    <3>4. \A q \in Config \ {s} : Same(q)
      BY <1>t, <3>2
    <3> QED
      BY <1>n, <1>1, <3>3, <3>4
  <2>2. CASE ~StartSession(k) \/ rpc' = rpc
    <3>1. UNCHANGED runner
      BY <1>1, <2>2 DEF ClientStep, GiveUp, Upload, StartSession, Poll, Retrieve, RetrieveFails, TimeOut,
         Rerun, runner
    <3> QED
      BY <1>s, <1>1, <3>1 DEF runner
  <2> QED
    BY <2>1, <2>2
<1>2. ASSUME Next, NEW s \in Config, Gone(s) PROVE \A q \in Config : RunnerOK(q)'
  <2>1. RunnerOK(s)'
    BY <1>2, GoneOK DEF RemoteInv
  <2>2. \A q \in Config \ {s} : Same(q)
    BY <1>2, <1>t DEF Gone, Goto
  <2> QED
    BY <1>n, <1>2, <2>1, <2>2
<1>3. ASSUME Next, NEW s \in Config, NEW label, rpc' = [rpc EXCEPT ![s] = label],
          UNCHANGED <<incoming, config, gpu, at, passed, environment, kept>>,
          \/ worst' = worst
          \/ worst' = [worst EXCEPT ![s] = "ERROR"] /\ label \notin {"phases", "seal"},
          rpc[s] # "none" /\ label # "none" /\ label # "load" /\ label # "seal",
          rpc[s] = "load" => label = "lock" /\ worst' = worst /\ config[s] # None,
          rpc[s] \in {"phases", "seal", "unlink", "rmdir", "fail"} =>
             label \in {"unlink", "rmdir", "fail"},
          worst' # worst => label \in {"unlink", "rmdir", "fail"}
      PROVE  \A q \in Config : RunnerOK(q)'
  <2>1. RunnerOK(s)'
    BY <1>3, <1>t DEF RunnerOK, Now
  <2>2. \A q \in Config \ {s} : Same(q)
    BY <1>3, <1>t
  <2> QED
    BY <1>n, <1>3, <2>1, <2>2
<1>4. ASSUME Next, NEW s \in Config, Load(s) PROVE \A q \in Config : RunnerOK(q)'
  <2>1. RunnerOK(s)'
    BY <1>4, <1>t, QualificationConstants DEF Load, remote, Goto, RunnerOK, Now
  <2>2. \A q \in Config \ {s} : Same(q)
    BY <1>4, <1>t DEF Load, Goto
  <2> QED
    BY <1>n, <1>4, <2>1, <2>2
<1>5. ASSUME Next, NEW s \in Config, \/ TakeLock(s) \/ ProbeLock(s) \/ StealLock(s) \/ RemakeLock(s)
                                     \/ OwnLock(s) \/ ReleaseOwner(s) \/ RunnerRaises(s)
                                     \/ WriteChecksums(s)
      PROVE  \A q \in Config : RunnerOK(q)'
  <2>1. /\ UNCHANGED <<incoming, config, gpu, at, passed, environment, kept>>
        /\ \E label \in {"probe", "steal", "remake", "own", "fail", "phases", "rmdir", "unlink"} :
             /\ rpc' = [rpc EXCEPT ![s] = label]
             /\ rpc[s] \in {"phases", "seal", "unlink", "rmdir", "fail"} =>
                  label \in {"unlink", "rmdir", "fail"}
             /\ \/ worst' = worst
                \/ worst' = [worst EXCEPT ![s] = "ERROR"] /\ label = "unlink"
        /\ rpc[s] # "none" /\ rpc[s] # "load"
    BY <1>5 DEF TakeLock, ProbeLock, StealLock, RemakeLock, OwnLock, ReleaseOwner, RunnerRaises,
       WriteChecksums, Goto, remote, Working
  <2> QED
    BY <1>5, <1>3, <2>1
<1>6. ASSUME Next, NEW s \in Config, ReleaseLock(s) PROVE \A q \in Config : RunnerOK(q)'
  <2>1. CASE worst[s] = "ERROR"
    BY <1>6, <1>3, <2>1 DEF ReleaseLock, Goto
  <2>2. CASE worst[s] # "ERROR"
    BY <1>6, <1>2, <2>2 DEF ReleaseLock
  <2> QED
    BY <2>1, <2>2
<1>7. ASSUME Next, NEW s \in Config, WriteError(s) \/ RunnerDies(s) PROVE \A q \in Config : RunnerOK(q)'
  BY <1>7, <1>2 DEF WriteError, RunnerDies
<1>8. ASSUME Next, NEW s \in Config, NEW result \in Result, AtPhase(s), Ended(s, result),
          result = "PASSED" => Ready(s), UNCHANGED <<incoming, config>>,
          "01-preflight" \in passed'[s] => gpu'[s] = environment' /\ PreflightKey \in kept',
          \A q \in Config \ {s} : gpu'[q] = gpu[q]
      PROVE  \A q \in Config : RunnerOK(q)'
  <2>1. RunnerOK(s)'
    BY <1>8, EndedOK
  <2>2. \A q \in Config \ {s} : Same(q)
    BY <1>8, <1>t DEF Ended, Goto
  <2> QED
    BY <1>n, <1>8, <2>1, <2>2
<1>9. ASSUME Next, NEW s \in Config, NEW result \in Result \ {"PASSED"}, AtPhase(s), Ended(s, result),
          UNCHANGED <<incoming, config, gpu>>
      PROVE  \A q \in Config : RunnerOK(q)'
  <2>1. passed'[s] = passed[s]
    BY <1>9, <1>t DEF Ended
  <2>2. "01-preflight" \in passed'[s] => gpu'[s] = environment' /\ PreflightKey \in kept'
    BY <1>9, <1>t, <2>1, PreflightStays DEF RunnerOK
  <2> QED
    BY <1>9, <1>8, <2>2
<1>10. ASSUME Next, NEW s \in Config, Block(s) \/ Fails(s) \/ GpuBusy(s)
      PROVE  \A q \in Config : RunnerOK(q)'
  <2>1. AtPhase(s) /\ \E result \in Result \ {"PASSED"} : Ended(s, result)
    BY <1>10 DEF Block, Fails, GpuBusy, Result
  <2>2. UNCHANGED <<incoming, config, gpu>>
    BY <1>10 DEF Block, Fails, GpuBusy
  <2> QED
    BY <1>10, <1>9, <2>1, <2>2
<1>11. ASSUME Next, NEW s \in Config, Reuse(s) PROVE \A q \in Config : RunnerOK(q)'
  <2>1. passed'[s] = passed[s] \union {Now(s)} /\ UNCHANGED <<kept, environment>>
    BY <1>11, <1>t DEF Reuse, Ended, remote
  <2>2. Key(Now(s), config[s], gpu[s]) \in kept
    BY <1>11 DEF Reuse, Reusable
  <2>3. CASE Now(s) = "01-preflight"
    <3>1. Key(Now(s), config[s], gpu[s]) = PreflightKey
      BY <2>3 DEF Key, PreflightKey, VisualSensitive
    <3>2. gpu'[s] = environment'
      BY <1>11, <1>t, <2>1, <2>3 DEF Reuse
    <3> QED
      BY <1>11, <1>8, <1>t, <2>1, <2>2, <3>1, <3>2 DEF Reuse, Result, remote
  <2>4. CASE Now(s) # "01-preflight"
    <3>1. gpu'[s] = environment' /\ PreflightKey \in kept'
      BY <1>11, <1>t, <2>1, <2>4, ReadyOK DEF Reuse, RunnerOK
    <3> QED
      BY <1>11, <1>8, <1>t, <2>1, <3>1 DEF Reuse, Result, remote
  <2> QED
    BY <2>3, <2>4
<1>12. ASSUME Next, NEW s \in Config, Run(s) PROVE \A q \in Config : RunnerOK(q)'
  <2>1. CASE Now(s) = "01-preflight"
    <3>1. Key(Now(s), config[s], Selected(s)) = PreflightKey
      BY <2>1 DEF Key, PreflightKey, VisualSensitive
    <3>2. gpu'[s] = environment' /\ PreflightKey \in kept'
      BY <1>12, <1>t, <2>1, <3>1 DEF Run
    <3> QED
      BY <1>12, <1>8, <1>t, <3>2 DEF Run, Result
  <2>2. CASE Now(s) # "01-preflight"
    <3>1. gpu'[s] = environment' /\ PreflightKey \in kept'
      BY <1>12, <1>t, <2>2, ReadyOK DEF Run, RunnerOK
    <3> QED
      BY <1>12, <1>8, <1>t, <3>1 DEF Run, Result
  <2> QED
    BY <2>1, <2>2
<1>13. ASSUME Next, NEW s \in Config, WriteStatus(s) PROVE \A q \in Config : RunnerOK(q)'
  <2>1. RunnerOK(s)'
    <3>1. status' # None
      BY <1>13, QualificationConstants DEF WriteStatus, RemoteInv, RunnerOK, TypeOK, Final
    <3> QED
      BY <1>13, <1>t, <3>1 DEF WriteStatus, Goto, RunnerOK, Now
  <2>2. \A q \in Config \ {s} : Same(q)
    BY <1>13, <1>t DEF WriteStatus, Goto
  <2> QED
    BY <1>n, <1>13, <2>1, <2>2
<1>14. CASE UNCHANGED vars
  BY <1>14, <1>t, OthersRun DEF vars, remote, runner
<1> QED
  BY <1>1, <1>2, <1>3, <1>4, <1>5, <1>6, <1>7, <1>8, <1>9, <1>10, <1>11, <1>12, <1>13, <1>14 DEF Next, RunnerStep

\* What is put on disk is of the GPU of the preflight there, and what is removed is not
\* the preflight.
LEMMA KeptNext == RemoteInv /\ [Next]_vars => KeptOK'
<1> SUFFICES ASSUME RemoteInv, [Next]_vars PROVE KeptOK'
  OBVIOUS
<1>t. KeptOK
  BY DEF RemoteInv
<1>e. \A c, g : Key("01-preflight", c, g) = PreflightKey
  BY DEF Key, PreflightKey, VisualSensitive
<1>a. "01-preflight" \notin Audited
  BY DEF Audited
<1>p. PreflightKey[1] = "01-preflight" /\ PreflightKey[3] = None
  BY DEF PreflightKey
<1>1. ASSUME Next, kept' \subseteq kept, environment' = environment PROVE KeptOK'
  <2>1. \A key \in kept' : PreflightKey \in kept'
    BY <1>t, <1>1, PreflightStays DEF KeptOK
  <2> QED
    BY <1>t, <1>1, <2>1 DEF KeptOK
<1>2. ASSUME Next, NEW s \in Config, Run(s) PROVE KeptOK'
  <2>1. CASE Now(s) = "01-preflight"
    <3>1. PreflightKey \notin kept
      BY <1>2, <1>e, <1>a, <2>1 DEF Run, Reusable
    <3>2. kept' = {PreflightKey}
      <4>1. kept = {}
        BY <1>t, <3>1 DEF KeptOK
      <4>2. kept' = {Key("01-preflight", config[s], Selected(s))}
        BY <1>2, <2>1, <4>1 DEF Run
      <4> QED
        BY <1>e, <4>2
    <3> QED
      BY <1>p, <3>2 DEF KeptOK
  <2>2. CASE Now(s) # "01-preflight"
    <3>1. gpu[s] = environment /\ PreflightKey \in kept
      BY <1>2, <2>2, ReadyOK DEF Run, RunnerOK, RemoteInv
    <3> DEFINE new == Key(Now(s), config[s], gpu[s])
    <3>2. kept' = kept \union {new} /\ environment' = environment
      BY <1>2, <2>2 DEF Run
    <3>3. /\ new[1] = Now(s) /\ new[2] = environment
          /\ new[1] \notin VisualSensitive => new[3] = None
      BY <2>2, <3>1 DEF Key
    <3> HIDE DEF new
    <3> QED
      BY <1>t, <2>2, <3>1, <3>2, <3>3 DEF KeptOK
  <2> QED
    BY <2>1, <2>2
<1>3. ASSUME Next, NEW s \in Config, Block(s) \/ Fails(s) PROVE KeptOK'
  BY <1>1, <1>3 DEF Block, Fails
<1>4. CASE UNCHANGED vars
  BY <1>4, <1>t DEF vars, remote, KeptOK
<1> QED
  <2>1. CASE Next /\ ~\E s \in Config : Run(s) \/ Block(s) \/ Fails(s)
    <3>1. kept' = kept /\ environment' = environment
      BY <2>1 DEF Next, ClientStep, RunnerStep, GiveUp, Upload, StartSession, Poll, Retrieve,
         RetrieveFails, TimeOut, Rerun, Load, TakeLock, ProbeLock, StealLock, RemakeLock, OwnLock,
         Reuse, WriteStatus, WriteChecksums, ReleaseOwner, ReleaseLock, WriteError, GpuBusy,
         RunnerRaises, RunnerDies, remote
    <3> QED
      BY <1>1, <2>1, <3>1
  <2> QED
    BY <1>2, <1>3, <1>4, <2>1

\* A client past its first steps finds a configuration and a status.
LEMMA ClientNext == RemoteInv /\ [Next]_vars => \A k \in Client : ClientOK(k)'
<1> SUFFICES ASSUME RemoteInv, [Next]_vars PROVE \A k \in Client : ClientOK(k)'
  OBVIOUS
<1>t. (\A k \in Client : ClientOK(k)) /\ DOMAIN cpc = Client
  BY DEF RemoteInv, TypeOK
<1>1. ASSUME Next, cpc' = cpc PROVE \A k \in Client : ClientOK(k)'
  BY <1>1, <1>t, WrittenStays DEF ClientOK
<1>2. ASSUME Next, NEW k \in Client, ClientStep(k) \/ GiveUp(k) PROVE \A j \in Client : ClientOK(j)'
  <2>1. \A j \in Client \ {k} : cpc'[j] = cpc[j]
    BY <1>2, <1>t DEF ClientStep, GiveUp, Disconnect, Upload, StartSession, Poll, Retrieve,
       RetrieveFails, TimeOut, Rerun
  <2>2. ClientOK(k)'
    <3>1. CASE Upload(k)
      BY <1>t, <3>1, QualificationConstants DEF Upload, ClientOK, RemoteInv, TypeOK
    <3>2. CASE Poll(k)
      BY <1>t, <3>2 DEF Poll, ClientOK, remote
    <3>3. CASE ~Upload(k) /\ ~Poll(k)
      BY <1>2, <1>t, <3>3 DEF ClientStep, GiveUp, Disconnect, StartSession, Retrieve,
         RetrieveFails, TimeOut, Rerun, ClientOK
    <3> QED
      BY <3>1, <3>2, <3>3
  <2> QED
    BY <1>2, <1>t, <2>1, <2>2, WrittenStays DEF ClientOK
<1>3. CASE UNCHANGED vars
  BY <1>3, <1>t DEF vars, remote, client, ClientOK
<1> QED
  <2>1. ASSUME NEW s \in Config, RunnerStep(s) \/ RunnerRaises(s) \/ RunnerDies(s) PROVE cpc' = cpc
    BY <2>1 DEF RunnerStep, RunnerRaises, RunnerDies, Load, TakeLock, ProbeLock, StealLock,
       RemakeLock, OwnLock, Block, Reuse, Run, Fails, WriteStatus, WriteChecksums, ReleaseOwner,
       ReleaseLock, WriteError, GpuBusy, client
  <2> QED
    BY <1>1, <1>2, <1>3, <2>1 DEF Next

\* Until a live lock was moved, who works is alone.
LEMMA Alone ==
    ASSUME RemoteInv, ~overtaken, NEW r \in Config, NEW s \in Config, Working(r), Working(s)
    PROVE  r = s
BY DEF RemoteInv, LockOK, Working

\* Which inputs a result is kept under.
LEMMA KeyOK ==
    ASSUME NEW p, NEW c, NEW g
    PROVE  /\ Key(p, c, g)[1] = p
           /\ p # "01-preflight" => Key(p, c, g)[2] = g
           /\ p \in VisualSensitive => Key(p, c, g)[3] = SignedBy[c]
BY DEF Key

\* A step that leaves the results and who works on them alone, or only begins to work.
LEMMA QuietOK ==
    ASSUME RemoteInv, status' = status, kept' = kept, sealed' = sealed \/ sealed' = FALSE,
           overtaken => overtaken',
           \A q \in Config : rpc'[q] \in {"phases", "seal"} =>
              \/ rpc'[q] = "phases" /\ passed'[q] = {}
              \/ /\ rpc'[q] = rpc[q] /\ config'[q] = config[q] /\ gpu'[q] = gpu[q]
                 /\ passed'[q] = passed[q] /\ (rpc[q] = "seal" => worst'[q] = worst[q])
    PROVE  ResultOK'
<1>1. ResultOK
  BY DEF RemoteInv
<1>2. Earned(status) => Earned(status)'
  BY DEF Earned
<1>3. sealed' => sealed
  BY DEF RemoteInv, TypeOK
<1>4. ASSUME ~overtaken', NEW q \in Config, Working(q)', NEW p \in passed'[q]
      PROVE  Key(p, config'[q], gpu'[q]) \in kept
  BY <1>1, <1>4 DEF ResultOK, Working
<1>5. ASSUME ~overtaken', NEW q \in Config, rpc'[q] = "seal", status.state = "PASSED"
      PROVE  status = [state |-> worst'[q], config |-> config'[q], gpu |-> gpu'[q]]
  BY <1>1, <1>5 DEF ResultOK
<1>6. \A p, c, g : Key(p, c, g)' = Key(p, c, g)
  BY DEF Key
<1> QED
  BY <1>1, <1>2, <1>3, <1>4, <1>5, <1>6 DEF ResultOK

\* What happens to a result: nothing takes from it what it rests on.
LEMMA ResultNext == RemoteInv /\ [Next]_vars => ResultOK'
<1> SUFFICES ASSUME RemoteInv, [Next]_vars PROVE ResultOK'
  OBVIOUS
<1>t. /\ ResultOK /\ \A s \in Config : RunnerOK(s)
      /\ DOMAIN rpc = Config /\ DOMAIN config = Config /\ DOMAIN gpu = Config /\ DOMAIN at = Config
      /\ DOMAIN passed = Config /\ DOMAIN worst = Config /\ want \in [Client -> Config]
  BY DEF RemoteInv, TypeOK
<1>e. \A c, g : Key("01-preflight", c, g) = PreflightKey
  BY DEF Key, PreflightKey, VisualSensitive
<1>1. ASSUME NEW k \in Client, ClientStep(k) \/ GiveUp(k) PROVE ResultOK'
  <2>1. UNCHANGED <<status, kept, sealed, overtaken, config, gpu, passed, worst>>
    BY <1>1 DEF ClientStep, GiveUp, Upload, StartSession, Poll, Retrieve, RetrieveFails, TimeOut,
       Rerun, remote, runner
  <2>2. \A q \in Config : rpc'[q] = rpc[q] \/ rpc'[q] = "load"
    BY <1>1, <1>t DEF ClientStep, GiveUp, Upload, StartSession, Poll, Retrieve, RetrieveFails,
       TimeOut, Rerun, remote, runner, Goto
  <2> QED
    BY <2>1, <2>2, QuietOK
<1>2. ASSUME NEW s \in Config, \/ Load(s) \/ TakeLock(s) \/ ProbeLock(s) \/ StealLock(s)
                               \/ RemakeLock(s) \/ OwnLock(s) \/ ReleaseOwner(s)
      PROVE  ResultOK'
  <2>0. overtaken => overtaken'
    BY <1>2, Zenon DEF Load, TakeLock, ProbeLock, StealLock, RemakeLock, OwnLock, ReleaseOwner
  <2>1. /\ UNCHANGED <<status, kept, sealed, gpu, passed, worst>>
        /\ \A q \in Config \ {s} : rpc'[q] = rpc[q] /\ config'[q] = config[q]
        /\ rpc'[s] \in {"phases", "seal"} => rpc'[s] = "phases" /\ rpc[s] = "own"
    BY <1>2, <1>t DEF Load, TakeLock, ProbeLock, StealLock, RemakeLock, OwnLock, ReleaseOwner,
       remote, Goto
  <2>2. rpc[s] = "own" => passed[s] = {}
    BY <1>t DEF RunnerOK
  <2> QED
    BY <2>0, <2>1, <2>2, QuietOK
<1>3. ASSUME NEW s \in Config, ReleaseLock(s) \/ RunnerRaises(s) \/ RunnerDies(s) PROVE ResultOK'
  <2>0. overtaken => overtaken'
    BY <1>3, Zenon DEF ReleaseLock, RunnerRaises, RunnerDies
  <2>1. UNCHANGED <<status, kept>> /\ (sealed' = sealed \/ sealed' = FALSE)
    BY <1>3 DEF ReleaseLock, RunnerRaises, RunnerDies, Interrupted, Touch
  <2>2. /\ rpc'[s] \in {"none", "fail", "unlink"}
        /\ \A q \in Config \ {s} : /\ rpc'[q] = rpc[q] /\ config'[q] = config[q] /\ gpu'[q] = gpu[q]
                                   /\ passed'[q] = passed[q] /\ worst'[q] = worst[q]
    BY <1>3, <1>t DEF ReleaseLock, RunnerRaises, RunnerDies, Gone, Goto
  <2> QED
    BY <2>0, <2>1, <2>2, QuietOK
<1>4. ASSUME NEW s \in Config, GpuBusy(s) PROVE ResultOK'
  <2>1. /\ UNCHANGED <<status, kept, overtaken, config, gpu>> /\ sealed' = FALSE
        /\ rpc'[s] = "phases" /\ rpc[s] = "phases" /\ passed'[s] = passed[s]
        /\ \A q \in Config \ {s} : rpc'[q] = rpc[q] /\ passed'[q] = passed[q] /\ worst'[q] = worst[q]
    BY <1>4, <1>t DEF GpuBusy, Ended, Goto, Touch, AtPhase
  <2> QED
    BY <2>1, QuietOK
<1>5. ASSUME NEW s \in Config, AtPhase(s), NEW result \in Result, Ended(s, result),
             UNCHANGED <<status, config, overtaken>>, sealed' = FALSE \/ UNCHANGED <<sealed, kept>>,
             ~overtaken => \A p \in passed'[s] : Key(p, config[s], gpu'[s]) \in kept'
      PROVE  ResultOK'
  <2>1. rpc'[s] = "phases" /\ \A q \in Config \ {s} : rpc'[q] = rpc[q]
    BY <1>5, <1>t DEF Ended, Goto
  <2>2. ASSUME ~overtaken, NEW q \in Config, rpc'[q] \in {"phases", "seal"} PROVE q = s
    BY <1>5, <2>1, <2>2, Alone DEF AtPhase, Working
  <2>3. sealed' => status' # None
    BY <1>5, <1>t DEF ResultOK
  <2>4. ~overtaken /\ sealed' => Earned(status)'
    BY <1>5, <1>t DEF ResultOK, Earned
  <2>5. ASSUME ~overtaken, NEW q \in Config, Working(q)', NEW p \in passed'[q]
        PROVE  Key(p, config[q], gpu'[q]) \in kept'
    BY <1>5, <2>2, <2>5 DEF Working
  <2>6. ASSUME ~overtaken, NEW q \in Config, rpc'[q] = "seal" PROVE FALSE
    BY <2>1, <2>2, <2>6
  <2>7. \A p, c, g : Key(p, c, g)' = Key(p, c, g)
    BY DEF Key
  <2> QED
    BY <1>5, <2>3, <2>4, <2>5, <2>6, <2>7 DEF ResultOK
<1>6. ASSUME NEW s \in Config, Block(s) \/ Fails(s) PROVE ResultOK'
  <2>1. AtPhase(s) /\ \E result \in Result \ {"PASSED"} : Ended(s, result)
    BY <1>6 DEF Block, Fails, Result
  <2>2. /\ UNCHANGED <<status, config, overtaken, gpu>> /\ sealed' = FALSE
        /\ kept \ {Key(Now(s), config[s], gpu[s])} \subseteq kept'
    BY <1>6 DEF Block, Fails, Touch
  <2>3. passed'[s] = passed[s]
    BY <1>t, <2>1 DEF Ended
  <2>4. ASSUME ~overtaken, NEW p \in passed[s] PROVE Key(p, config[s], gpu[s]) \in kept'
    <3>1. Key(p, config[s], gpu[s]) \in kept
      BY <1>t, <2>1, <2>4 DEF ResultOK, AtPhase, Working
    <3>2. Key(p, config[s], gpu[s]) # Key(Now(s), config[s], gpu[s])
      BY <2>1, <2>4, NowIsNew, KeyOK
    <3> QED
      BY <2>2, <3>1, <3>2
  <2> QED
    BY <1>5, <2>1, <2>2, <2>3, <2>4
<1>7. ASSUME NEW s \in Config, AtPhase(s), Ready(s), Ended(s, "PASSED"), kept \subseteq kept',
             UNCHANGED <<status, config, overtaken>>, sealed' = FALSE \/ UNCHANGED <<sealed, kept>>,
             Key(Now(s), config[s], gpu'[s]) \in kept',
             Now(s) # "01-preflight" => gpu'[s] = gpu[s]
      PROVE  ResultOK'
  <2>1. passed'[s] = passed[s] \union {Now(s)}
    BY <1>7, <1>t DEF Ended
  <2>2. Now(s) = "01-preflight" => passed[s] = {}
    BY <1>7, <1>t, NowIsNew DEF RunnerOK
  <2>3. ASSUME ~overtaken, NEW p \in passed'[s] PROVE Key(p, config[s], gpu'[s]) \in kept'
    <3>1. CASE p = Now(s)
      BY <1>7, <3>1
    <3>2. CASE p # Now(s)
      <4>1. p \in passed[s] /\ gpu'[s] = gpu[s]
        BY <1>7, <2>1, <2>2, <2>3, <3>2
      <4>2. Key(p, config[s], gpu[s]) \in kept
        BY <1>7, <1>t, <2>3, <4>1 DEF ResultOK, AtPhase, Working
      <4> QED
        BY <1>7, <4>1, <4>2
    <3> QED
      BY <3>1, <3>2
  <2> QED
    BY <1>5, <1>7, <2>3 DEF Result
<1>8. ASSUME NEW s \in Config, Reuse(s) PROVE ResultOK'
  <2>1. /\ UNCHANGED <<status, config, overtaken, sealed, kept>>
        /\ AtPhase(s) /\ Ready(s) /\ Ended(s, "PASSED")
        /\ Key(Now(s), config[s], gpu[s]) \in kept
        /\ Now(s) # "01-preflight" => gpu'[s] = gpu[s]
    BY <1>8, <1>t DEF Reuse, Reusable, remote
  <2>2. Key(Now(s), config[s], gpu'[s]) \in kept'
    BY <1>e, <2>1
  <2> QED
    BY <1>7, <2>1, <2>2
<1>9. ASSUME NEW s \in Config, Run(s) PROVE ResultOK'
  <2>1. /\ UNCHANGED <<status, config, overtaken>> /\ sealed' = FALSE /\ kept \subseteq kept'
        /\ AtPhase(s) /\ Ready(s) /\ Ended(s, "PASSED")
        /\ Key(Now(s), config[s], gpu'[s]) \in kept'
        /\ Now(s) # "01-preflight" => gpu'[s] = gpu[s]
    BY <1>9, <1>t DEF Run, Touch
  <2> QED
    BY <1>7, <2>1
<1>10. ASSUME NEW s \in Config, WriteStatus(s) PROVE ResultOK'
  <2>1. /\ UNCHANGED <<kept, config, gpu, passed, worst, overtaken>> /\ sealed' = FALSE
        /\ status' = [state |-> worst[s], config |-> config[s], gpu |-> gpu[s]]
        /\ rpc[s] = "phases" /\ \A q \in Config \ {s} : rpc'[q] = rpc[q]
    BY <1>10, <1>t DEF WriteStatus, Touch, Goto
  <2>2. ASSUME ~overtaken, NEW q \in Config, rpc'[q] \in {"phases", "seal"} PROVE q = s
    BY <2>1, <2>2, Alone DEF Working
  <2>3. ~overtaken => \A p \in passed[s] : Key(p, config[s], gpu[s]) \in kept
    BY <1>t, <2>1 DEF ResultOK, Working
  <2>4. \A p, c, g : Key(p, c, g)' = Key(p, c, g)
    BY DEF Key
  <2> QED
    BY <2>1, <2>2, <2>3, <2>4 DEF ResultOK, Working
<1>11. ASSUME NEW s \in Config, WriteChecksums(s) PROVE ResultOK'
  <2>1. /\ UNCHANGED <<kept, config, gpu, passed, worst, overtaken, status>> /\ rpc[s] = "seal"
        /\ rpc'[s] = "unlink" /\ \A q \in Config \ {s} : rpc'[q] = rpc[q]
    BY <1>11, <1>t DEF WriteChecksums, Goto
  <2>2. status # None /\ at[s] = End
    BY <1>t, <2>1 DEF RunnerOK
  <2>3. ASSUME ~overtaken PROVE Earned(status)
    <3>1. ASSUME status.state = "PASSED", NEW p \in Phase
          PROVE  \E key \in kept : /\ key[1] = p
                                   /\ p # "01-preflight" => key[2] = status.gpu
                                   /\ p \in VisualSensitive => key[3] = SignedBy[status.config]
      <4>1. status = [state |-> worst[s], config |-> config[s], gpu |-> gpu[s]]
        BY <1>t, <2>1, <2>3, <3>1 DEF ResultOK
      <4>2. worst[s] = "PASSED" /\ status.gpu = gpu[s] /\ status.config = config[s]
        BY <3>1, <4>1
      <4>3. PICK i \in 1..14 : p = CoreOrder[i]
        BY CoreOrderOK, <3>1 DEF Phase, ToSet
      <4>4. p \in passed[s]
        BY <1>t, <2>2, <3>1, <4>2, <4>3, CoreOrderOK DEF RunnerOK
      <4>5. Key(p, config[s], gpu[s]) \in kept
        BY <1>t, <2>1, <2>3, <4>4 DEF ResultOK, Working
      <4> QED
        BY <4>2, <4>5, KeyOK
    <3> QED
      BY <3>1 DEF Earned
  <2>4. Earned(status) => Earned(status)'
    BY <2>1 DEF Earned
  <2>5. \A p, c, g : Key(p, c, g)' = Key(p, c, g)
    BY DEF Key
  <2> QED
    BY <1>t, <2>1, <2>2, <2>3, <2>4, <2>5 DEF ResultOK, Working
<1>12. ASSUME NEW s \in Config, WriteError(s) PROVE ResultOK'
  <2>1. /\ UNCHANGED <<kept, overtaken>> /\ sealed' = FALSE /\ status'.state = "FAILED"
        /\ rpc'[s] = "none"
        /\ \A q \in Config \ {s} : /\ rpc'[q] = rpc[q] /\ config'[q] = config[q]
                                   /\ gpu'[q] = gpu[q] /\ passed'[q] = passed[q]
    BY <1>12, <1>t DEF WriteError, Touch, Gone, Goto
  <2>2. \A p, c, g : Key(p, c, g)' = Key(p, c, g)
    BY DEF Key
  <2> QED
    BY <1>t, <2>1, <2>2 DEF ResultOK, Working
<1>13. CASE UNCHANGED vars
  BY <1>13, QuietOK DEF vars, remote, runner
<1> QED
  BY <1>1, <1>2, <1>3, <1>4, <1>6, <1>8, <1>9, <1>10, <1>11, <1>12, <1>13 DEF Next, RunnerStep

-----------------------------------------------------------------------------
(* The theorems. *)

\* The workspace keeps its inductive invariant: its types, who holds the lock, how far each
\* runner is, and what the results on disk and the result of the qualification rest on.
THEOREM Invariant == Spec => []RemoteInv
<1>1. Init => RemoteInv
  BY InitInv
<1>2. RemoteInv /\ [Next]_vars => RemoteInv'
  <2>1. RemoteInv /\ [Next]_vars => LockOK' /\ OneRunnerUnlessOvertaken'
    <3>1. LockOK => OneRunnerUnlessOvertaken
      BY OneRunner
    <3>2. (LockOK => OneRunnerUnlessOvertaken)'
      BY <3>1, PTL
    <3> QED
      BY <3>2, LockNext
  <2> QED
    BY <2>1, TypeNext, RunnerNext, KeptNext, ResultNext, ClientNext DEF RemoteInv
<1> QED
  BY <1>1, <1>2, PTL DEF Spec

\* Two runners work in one workspace only after somebody moved the lock of a live one.
THEOREM OneRunnerAtATime == Spec => []OneRunnerUnlessOvertaken
<1>1. RemoteInv => OneRunnerUnlessOvertaken
  BY DEF RemoteInv
<1> QED
  BY <1>1, Invariant, PTL

\* A client that exits zero has a result in whose workspace every phase passed, on its GPU
\* and for its signoff: what the checksums describe was written by one runner, whose
\* passed phases nobody takes away before it is sealed, and no other afterwards.
THEOREM AcceptedResultsAreEarned == Spec => AcceptedIsEarned
<1>1. ASSUME RemoteInv, [Next]_vars, NEW k \in Client, cpc[k] # "passed", cpc'[k] = "passed", ~overtaken
      PROVE  Earned(got'[k])
  <2>1. Retrieve(k)
    <3>1. DOMAIN cpc = Client
      BY <1>1 DEF RemoteInv, TypeOK
    <3>2. ASSUME NEW s \in Config, RunnerStep(s) \/ RunnerRaises(s) \/ RunnerDies(s) PROVE cpc' = cpc
      BY <3>2 DEF RunnerStep, RunnerRaises, RunnerDies, Load, TakeLock, ProbeLock, StealLock,
         RemakeLock, OwnLock, Block, Reuse, Run, Fails, WriteStatus, WriteChecksums, ReleaseOwner,
         ReleaseLock, WriteError, GpuBusy, client
    <3>3. PICK j \in Client : ClientStep(j) \/ GiveUp(j)
      BY <1>1, <3>2 DEF Next, vars, client
    <3>4. j = k
      BY <1>1, <3>1, <3>3 DEF ClientStep, GiveUp, Disconnect, Upload, StartSession, Poll, Retrieve,
         RetrieveFails, TimeOut, Rerun
    <3> QED
      BY <1>1, <3>1, <3>3, <3>4 DEF ClientStep, GiveUp, Disconnect, Upload, StartSession, Poll,
         RetrieveFails, TimeOut, Rerun
  <2>2. Earned(status)
    BY <1>1, <2>1 DEF Retrieve, RemoteInv, ResultOK
  <2>3. got'[k] = status
    BY <1>1, <2>1 DEF Retrieve, RemoteInv, TypeOK
  <2> QED
    BY <2>2, <2>3 DEF Earned
<1>2. RemoteInv /\ [Next]_vars =>
        [\A k \in Client : cpc[k] # "passed" /\ cpc'[k] = "passed" /\ ~overtaken =>
           Earned(got'[k])]_vars
  BY <1>1
<1> QED
  BY <1>2, Invariant, PTL DEF Spec, AcceptedIsEarned

\* No phase runs a second time for a signoff it does not depend on: what passed once is
\* kept under the GPU of the preflight, and that is the one every runner goes on with.
THEOREM SignoffIsLocal == Spec => SignoffRepeatsOnlyItsOwn
<1>1. ASSUME RemoteInv, NEW s \in Config, Run(s), Now(s) \notin VisualSensitive \union Audited,
             NEW key \in kept, key[1] = Now(s)
      PROVE  FALSE
  <2>1. Key(Now(s), config[s], gpu[s]) \notin kept
    BY <1>1 DEF Run, Reusable
  <2>2. /\ key[1] = "01-preflight" => key = PreflightKey
        /\ key[1] # "01-preflight" => key[2] = environment
        /\ key[1] \notin VisualSensitive => key[3] = None
    BY <1>1 DEF RemoteInv, KeptOK
  <2>3. CASE Now(s) = "01-preflight"
    <3>1. Key("01-preflight", config[s], gpu[s]) = PreflightKey
      BY DEF Key, PreflightKey, VisualSensitive
    <3> QED
      BY <1>1, <2>1, <2>2, <2>3, <3>1
  <2>4. CASE Now(s) # "01-preflight"
    <3>1. gpu[s] = environment
      BY <1>1, <2>4, ReadyOK DEF Run, RunnerOK, RemoteInv
    <3>2. key = <<key[1], key[2], key[3]>>
      BY <1>1 DEF RemoteInv, TypeOK, Inputs
    <3>3. Key(Now(s), config[s], gpu[s]) = <<Now(s), gpu[s], None>>
      BY <1>1, <2>4 DEF Key
    <3> QED
      BY <1>1, <2>1, <2>2, <2>4, <3>1, <3>2, <3>3
  <2> QED
    BY <2>3, <2>4
<1>2. RemoteInv /\ [Next]_vars =>
        [\A s \in Config : Run(s) /\ Now(s) \notin VisualSensitive \union Audited =>
           \A key \in kept : key[1] # Now(s)]_vars
  BY <1>1
<1> QED
  BY <1>2, Invariant, PTL DEF Spec, SignoffRepeatsOnlyItsOwn
=============================================================================
