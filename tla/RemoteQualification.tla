-------------------------- MODULE RemoteQualification --------------------------
(***************************************************************************)
(* The remote GPU qualification of one workspace (one source manifest and  *)
(* the core profile): the local entry point that uploads a configuration,  *)
(* starts a tmux session, polls and retrieves (scripts/gpu/                *)
(* qualify_remote.sh), and the runner in that session, which takes the     *)
(* lock of the workspace, goes through the phases, reuses what it can, and *)
(* writes the result (scripts/gpu/remote_runner.py).                       *)
(*                                                                         *)
(* A session is named after the configuration it was started for, but the  *)
(* runner in it reads the one that was uploaded last.                      *)
(***************************************************************************)
EXTENDS Integers, SequencesExt, FiniteSetsExt

CONSTANTS
    Client,     \* people, or invocations of qualify_remote.sh one after another
    Config,     \* qualification configurations of this source and profile
    GpuOf,      \* GpuOf[c]: the gpu_uuid of c, None when it is left to the runner
    SignedBy,   \* SignedBy[c]: the visual_audit_signoff of c, None without one
    First,      \* First[k]: the configuration client k begins with
    Signed,     \* Signed[c]: c after its owner signed the visual audit
    DefaultGpu, \* the smallest healthy UUID
    MaxFaults,  \* bound: crashes, failing phases and clients that give up
    LeftOut,    \* bound: phases left out, taken to pass when what they need has
    None

(***************************************************************************)
(* The phases of the core profile in their order.  Those that are needed   *)
(* only by the next one are one with it: 02 to 02c, 03 to 04, 05 and 06,   *)
(* 08 and 08b.  07 is never required and left out.                         *)
(***************************************************************************)
CoreOrder ==
    << "01-preflight", "02-dependencies", "01b-license-acknowledgment",
       "08-dataset-adapter-evaluator", "08c-licensed-visual-review",
       "04-linux-verification", "06-cuda-parity", "13-accelerated-performance",
       "14-profiler-automation", "09-micro-overfit-audit",
       "10-baseline-candidate-training", "11-selected-study-charter-freeze",
       "12-fault-lab", "15-core-evidence-report" >>

Phase == ToSet(CoreOrder) \ LeftOut

End == Len(CoreOrder) + 1

\* The position of the phase after the one at i, End after the last.
Following(i) ==
    Min({j \in (i + 1)..End : j = End \/ CoreOrder[j] \in Phase})

\* The phases that must have passed before p is run; otherwise p is blocked.
Needs(p) ==
    CASE p = "01-preflight" -> {}
      [] p = "02-dependencies" -> {"01-preflight"}
      [] p = "01b-license-acknowledgment" -> {"02-dependencies"}
      [] p = "08-dataset-adapter-evaluator" -> {"01b-license-acknowledgment"}
      [] p = "08c-licensed-visual-review" -> {"08-dataset-adapter-evaluator"}
      [] p = "04-linux-verification" -> {"02-dependencies"}
      [] p = "06-cuda-parity" -> {"04-linux-verification"}
      [] p \in {"13-accelerated-performance", "14-profiler-automation"} -> {"06-cuda-parity"}
      [] p \in {"09-micro-overfit-audit", "12-fault-lab"} -> {"04-linux-verification"}
      [] p = "10-baseline-candidate-training" ->
           {"08c-licensed-visual-review", "06-cuda-parity", "09-micro-overfit-audit"}
      [] p = "11-selected-study-charter-freeze" ->
           {"10-baseline-candidate-training", "13-accelerated-performance"}
      [] p = "15-core-evidence-report" ->
           {"11-selected-study-charter-freeze", "12-fault-lab", "14-profiler-automation"}

\* The same through the phases that are left out.
Requires[p \in ToSet(CoreOrder)] ==
    UNION {IF q \in LeftOut THEN Requires[q] ELSE {q} : q \in Needs(p)}

\* The signoff is part of the input of these.
VisualSensitive == {"08c-licensed-visual-review", "10-baseline-candidate-training",
                    "11-selected-study-charter-freeze", "15-core-evidence-report"}

\* Audits of what other phases left, made anew by every runner.
Audited == {"08c-licensed-visual-review", "09-micro-overfit-audit"}

\* The commands that refuse an output that is there already: the first puts its own in
\* place when it is complete, the others fill it after they have made it.
NoClobber == {"08-dataset-adapter-evaluator", "13-accelerated-performance",
              "14-profiler-automation", "15-core-evidence-report"}
FillsInPlace == NoClobber \ {"08-dataset-adapter-evaluator"}

Gpu == (({GpuOf[c] : c \in Config} \ {None}) \union {DefaultGpu})
Signoff == {SignedBy[c] : c \in Config} \ {None}
Result == {"PASSED", "FAILED", "BLOCKED"}
Final == [state : Result, config : Config \union {None}, gpu : Gpu \union {None}]

ASSUME QualificationConstants ==
    /\ GpuOf \in [Config -> Gpu \union {None}] /\ First \in [Client -> Config]
    /\ Signed \in [Config -> Config]
    /\ \A c \in Config : SignedBy[c] # None => Signed[c] = c
    /\ MaxFaults \in Nat
    /\ LeftOut \subseteq ToSet(CoreOrder) \ {"01-preflight"}
    /\ None \notin Config \union Gpu \union Signoff \union Final
    /\ {"free", "empty", "dead"} \intersect Config = {}

VARIABLES
    incoming,  \* incoming/remote-config.json
    status,    \* results/status.json: its state, configuration and GPU
    sealed,    \* SHA256SUMS describes exactly the files that are there
    lock,      \* qualification.lock: "free", "empty", of a "dead" runner, or whose
    kept,      \* inputs of phases with a PASSED status on disk
    made,      \* outputs of NoClobber phases that exist
    environment, \* the GPU in the environment.json of the preflight
    rpc,       \* rpc[s]: where the runner of session s is, "none" without one
    config,    \* config[s]: the configuration it read
    gpu,       \* gpu[s]: selected_gpu_uuid
    at,        \* at[s]: position in CoreOrder
    passed,    \* passed[s]: phases that passed or were reused
    worst,     \* worst[s]: what its result is so far, "ERROR" after an exception
    cpc,       \* cpc[k]: where client k is
    want,      \* want[k]: its configuration
    got,       \* got[k]: the status of the result it retrieved and verified
    torn,      \* torn[k]: the results changed while it copied them
    overtaken, \* history: somebody moved the lock of a runner that was alive
    faults

remote  == <<incoming, status, sealed, lock, kept, made, environment>>
runner  == <<rpc, config, gpu, at, passed, worst>>
client  == <<cpc, want, got, torn>>
vars    == <<remote, runner, client, overtaken, faults>>

Init ==
    /\ incoming = None /\ status = None /\ sealed = FALSE /\ lock = "free"
    /\ kept = {} /\ made = {} /\ environment = None
    /\ rpc = [s \in Config |-> "none"] /\ config = [s \in Config |-> None]
    /\ gpu = [s \in Config |-> None] /\ at = [s \in Config |-> 1]
    /\ passed = [s \in Config |-> {}] /\ worst = [s \in Config |-> "PASSED"]
    /\ cpc = [k \in Client |-> "upload"] /\ want = First
    /\ got = [k \in Client |-> None] /\ torn = [k \in Client |-> FALSE]
    /\ overtaken = FALSE /\ faults = 0

Goto(s, label) == rpc' = [rpc EXCEPT ![s] = label]
Fault == faults < MaxFaults /\ faults' = faults + 1

\* Anything written below the result root disturbs who copies it and is not in the
\* checksums.
Touch ==
    /\ sealed' = FALSE
    /\ torn' = [k \in Client |-> torn[k] \/ cpc[k] = "copy"]

\* Seeded bug: the signoff is part of the input of every phase.
KeySignedAlways(p, c, g) == <<p, IF p = "01-preflight" THEN None ELSE g, SignedBy[c]>>

\* _phase_input_sha256, by what of it differs within a workspace.
Key(p, c, g) == <<p, IF p = "01-preflight" THEN None ELSE g,
                  IF p \in VisualSensitive THEN SignedBy[c] ELSE None>>

PreflightKey == <<"01-preflight", None, None>>

-----------------------------------------------------------------------------
(***************************************************************************)
(* The local entry point                                                   *)
(***************************************************************************)

\* scp of remote-config.json.
Upload(k) ==
    /\ cpc[k] = "upload"
    /\ incoming' = want[k]
    /\ cpc' = [cpc EXCEPT ![k] = "start"]
    /\ UNCHANGED <<status, sealed, lock, kept, made, environment, runner, want, got, torn,
                   overtaken, faults>>

\* Nothing is started over a PASSED result of this configuration or beside a
\* session of its name.
StartSession(k) ==
    /\ cpc[k] = "start"
    /\ IF \/ status # None /\ status.state = "PASSED" /\ status.config = want[k]
          \/ rpc[want[k]] # "none"
       THEN UNCHANGED rpc
       ELSE Goto(want[k], "load")
    /\ cpc' = [cpc EXCEPT ![k] = "poll"]
    /\ UNCHANGED <<remote, config, gpu, at, passed, worst, want, got, torn, overtaken, faults>>

\* Any status.json ends the polling.
Poll(k) ==
    /\ cpc[k] = "poll"
    /\ status # None
    /\ cpc' = [cpc EXCEPT ![k] = "copy"]
    /\ torn' = [torn EXCEPT ![k] = FALSE]
    /\ UNCHANGED <<remote, runner, want, got, overtaken, faults>>

\* Seeded bug: the checksums are not verified.
RetrieveUnverified(k) ==
    /\ cpc[k] = "copy"
    /\ got' = [got EXCEPT ![k] = status]
    /\ cpc' = [cpc EXCEPT ![k] = IF status.state = "PASSED" THEN "passed" ELSE "failed"]
    /\ UNCHANGED <<remote, runner, want, torn, overtaken, faults>>

\* scp -r and SHA256SUMS: what was copied is the result as it is now.
Retrieve(k) ==
    /\ cpc[k] = "copy"
    /\ sealed
    /\ got' = [got EXCEPT ![k] = status]
    /\ cpc' = [cpc EXCEPT ![k] = IF status.state = "PASSED" THEN "passed" ELSE "failed"]
    /\ UNCHANGED <<remote, runner, want, torn, overtaken, faults>>

\* A result that is being written, or was while it was copied, fails the checksums.
RetrieveFails(k) ==
    /\ cpc[k] = "copy"
    /\ ~sealed \/ torn[k]
    /\ got' = [got EXCEPT ![k] = None]
    /\ cpc' = [cpc EXCEPT ![k] = "failed"]
    /\ UNCHANGED <<remote, runner, want, torn, overtaken, faults>>

Disconnect(k) ==
    /\ got' = [got EXCEPT ![k] = None]
    /\ cpc' = [cpc EXCEPT ![k] = "failed"]

\* JL_TIMEOUT_SECONDS pass without a status, and nobody is left to write one for it.
TimeOut(k) ==
    /\ cpc[k] = "poll" /\ status = None /\ rpc[want[k]] = "none"
    /\ Disconnect(k)
    /\ UNCHANGED <<remote, runner, want, torn, overtaken, faults>>

\* The connection is lost, or the person interrupts.
GiveUp(k) ==
    /\ cpc[k] \in {"start", "poll", "copy"}
    /\ Fault
    /\ Disconnect(k)
    /\ UNCHANGED <<remote, runner, want, torn, overtaken>>

\* USER_ACTION_REQUIRED.md: the same command again, after signing what is to be signed.
Rerun(k) ==
    /\ cpc[k] = "failed"
    /\ want' = [want EXCEPT ![k] =
         IF got[k] # None /\ got[k].state = "BLOCKED" /\ "08-dataset-adapter-evaluator" \in made
         THEN Signed[want[k]] ELSE want[k]]
    /\ cpc' = [cpc EXCEPT ![k] = "upload"]
    /\ got' = [got EXCEPT ![k] = None]
    /\ UNCHANGED <<remote, runner, torn, overtaken, faults>>

ClientStep(k) ==
    \/ Upload(k) \/ StartSession(k) \/ Poll(k) \/ Retrieve(k) \/ RetrieveFails(k)
    \/ TimeOut(k) \/ Rerun(k)

-----------------------------------------------------------------------------
(***************************************************************************)
(* The lock of the workspace                                               *)
(***************************************************************************)

\* The process ends, and its session with it.
Gone(s) ==
    /\ Goto(s, "none")
    /\ config' = [config EXCEPT ![s] = None] /\ gpu' = [gpu EXCEPT ![s] = None]
    /\ at' = [at EXCEPT ![s] = 1]
    /\ passed' = [passed EXCEPT ![s] = {}] /\ worst' = [worst EXCEPT ![s] = "PASSED"]

Load(s) ==
    /\ rpc[s] = "load"
    /\ config' = [config EXCEPT ![s] = incoming]
    /\ Goto(s, "lock")
    /\ UNCHANGED <<remote, gpu, at, passed, worst, client, overtaken, faults>>

\* Seeded bug: mkdir with exist_ok.
TakeLockExistOk(s) ==
    /\ rpc[s] = "lock"
    /\ lock' = "empty" /\ Goto(s, "own")
    /\ UNCHANGED <<incoming, status, sealed, kept, made, environment, config, gpu, at, passed,
                   worst, client, overtaken, faults>>

\* mkdir
TakeLock(s) ==
    /\ rpc[s] = "lock"
    /\ IF lock = "free" THEN lock' = "empty" /\ Goto(s, "own")
                        ELSE UNCHANGED lock /\ Goto(s, "probe")
    /\ UNCHANGED <<incoming, status, sealed, kept, made, environment, config, gpu, at, passed,
                   worst, client, overtaken, faults>>

\* Seeded bug: an owner that is gone counts as a live one.
ProbeLockTrusting(s) ==
    /\ rpc[s] = "probe"
    /\ Goto(s, IF lock \in Config \union {"dead"} THEN "fail" ELSE "steal")
    /\ UNCHANGED <<remote, config, gpu, at, passed, worst, client, overtaken, faults>>

\* A live owner is an error; no owner, or one that is gone, makes the lock stale.
ProbeLock(s) ==
    /\ rpc[s] = "probe"
    /\ Goto(s, IF lock \in Config THEN "fail" ELSE "steal")
    /\ UNCHANGED <<remote, config, gpu, at, passed, worst, client, overtaken, faults>>

\* lock_root.replace(stale), of whatever is there by now.
StealLock(s) ==
    /\ rpc[s] = "steal"
    /\ lock' = "free"
    /\ Goto(s, IF lock = "free" THEN "fail" ELSE "remake")
    /\ overtaken' = (overtaken \/ lock \in Config
                       \/ (lock = "empty" /\ \E r \in Config : rpc[r] = "own"))
    /\ UNCHANGED <<incoming, status, sealed, kept, made, environment, config, gpu, at, passed,
                   worst, client, faults>>

\* lock_root.mkdir()
RemakeLock(s) ==
    /\ rpc[s] = "remake"
    /\ IF lock = "free" THEN lock' = "empty" /\ Goto(s, "own")
                        ELSE UNCHANGED lock /\ Goto(s, "fail")
    /\ UNCHANGED <<incoming, status, sealed, kept, made, environment, config, gpu, at, passed,
                   worst, client, overtaken, faults>>

\* owner.json
OwnLock(s) ==
    /\ rpc[s] = "own"
    /\ IF lock = "free" THEN UNCHANGED lock /\ Goto(s, "fail")
                        ELSE lock' = s /\ Goto(s, "phases")
    /\ UNCHANGED <<incoming, status, sealed, kept, made, environment, config, gpu, at, passed,
                   worst, client, overtaken, faults>>

\* The finally clause: owner.json of whoever, then rmdir.
ReleaseOwner(s) ==
    /\ rpc[s] = "unlink"
    /\ lock' = IF lock = "free" THEN lock ELSE "empty"
    /\ Goto(s, "rmdir")
    /\ UNCHANGED <<incoming, status, sealed, kept, made, environment, config, gpu, at, passed,
                   worst, client, overtaken, faults>>

ReleaseLock(s) ==
    /\ rpc[s] = "rmdir"
    /\ lock' = IF lock = "empty" THEN "free" ELSE lock
    /\ overtaken' = (overtaken \/ (lock = "empty" /\ \E r \in Config : rpc[r] = "own"))
    /\ IF worst[s] = "ERROR" THEN Goto(s, "fail") /\ UNCHANGED <<config, gpu, at, passed, worst>>
                             ELSE Gone(s)
    /\ UNCHANGED <<incoming, status, sealed, kept, made, environment, client, faults>>

\* main: an error is a FAILED status without configuration or checksums.
WriteError(s) ==
    /\ rpc[s] = "fail"
    /\ status' = [state |-> "FAILED", config |-> None, gpu |-> None]
    /\ Touch /\ Gone(s)
    /\ UNCHANGED <<incoming, lock, kept, made, environment, cpc, want, got, overtaken, faults>>

-----------------------------------------------------------------------------
(***************************************************************************)
(* The phases                                                              *)
(***************************************************************************)

Now(s) == CoreOrder[at[s]]
Worse(s, result) ==
    IF result = "PASSED" \/ worst[s] = "BLOCKED" THEN worst[s] ELSE result

\* The next phase, after this one ended with the given result.
Ended(s, result) ==
    /\ passed' = [passed EXCEPT ![s] = IF result = "PASSED" THEN @ \union {Now(s)} ELSE @]
    /\ worst' = [worst EXCEPT ![s] = Worse(s, result)]
    /\ at' = [at EXCEPT ![s] = Following(@)]
    /\ Goto(s, "phases")

AtPhase(s) == rpc[s] = "phases" /\ at[s] < End
Ready(s) ==
    /\ Requires[Now(s)] \subseteq passed[s]
    /\ Now(s) \in {"08c-licensed-visual-review", "15-core-evidence-report"} =>
         SignedBy[config[s]] # None

\* _reuse: a PASSED status for the same input.  Nothing here changes an output that was
\* declared with it.
Reusable(s) == Now(s) \notin Audited /\ Key(Now(s), config[s], gpu[s]) \in kept

\* blocked_phase, whose status goes where an audit, but no command, has its own.
Block(s) ==
    /\ AtPhase(s) /\ ~Ready(s)
    /\ Ended(s, "BLOCKED")
    /\ kept' = IF Now(s) \in Audited THEN kept \ {Key(Now(s), config[s], gpu[s])} ELSE kept
    /\ Touch
    /\ UNCHANGED <<incoming, status, lock, made, environment, config, gpu, cpc, want, got,
                   overtaken, faults>>

\* The GPU of a preflight that is reused is the one it found then.
Reuse(s) ==
    /\ AtPhase(s) /\ Ready(s) /\ Reusable(s)
    /\ Ended(s, "PASSED")
    /\ gpu' = [gpu EXCEPT ![s] = IF Now(s) = "01-preflight" THEN environment ELSE @]
    /\ UNCHANGED <<remote, config, client, overtaken, faults>>

Selected(s) == IF GpuOf[config[s]] = None THEN DefaultGpu ELSE GpuOf[config[s]]

\* The command of a phase, the probes of the preflight, or an audit succeeds, and its
\* PASSED status is recorded.
Run(s) ==
    /\ AtPhase(s) /\ Ready(s) /\ ~Reusable(s)
    /\ Now(s) \notin NoClobber \intersect made
    /\ made' = made \union ({Now(s)} \intersect NoClobber)
    /\ LET g == IF Now(s) = "01-preflight" THEN Selected(s) ELSE gpu[s]
       IN  /\ gpu' = [gpu EXCEPT ![s] = g]
           /\ kept' = kept \union {Key(Now(s), config[s], g)}
    /\ environment' = IF Now(s) = "01-preflight" THEN Selected(s) ELSE environment
    /\ Ended(s, "PASSED") /\ Touch
    /\ UNCHANGED <<incoming, status, lock, config, cpc, want, got, overtaken, faults>>

\* It fails, or finds its output there, and its FAILED or BLOCKED status is recorded:
\* the preflight blocks, and so may a measurement in a contaminated environment.
Fails(s) ==
    /\ AtPhase(s) /\ Ready(s) /\ ~Reusable(s)
    /\ IF Now(s) \in NoClobber \intersect made THEN UNCHANGED faults ELSE Fault
    /\ made' \in {made, made \union ({Now(s)} \intersect FillsInPlace)}
    /\ kept' = kept \ {Key(Now(s), config[s], gpu[s])}
    /\ \E result \in IF Now(s) = "01-preflight" THEN {"BLOCKED"}
                     ELSE IF Now(s) = "13-accelerated-performance" /\ Now(s) \notin made
                     THEN {"FAILED", "BLOCKED"}
                     ELSE {"FAILED"} : Ended(s, result)
    /\ Touch
    /\ UNCHANGED <<incoming, status, lock, environment, config, gpu, cpc, want, got, overtaken>>

\* The GPU lease is held from another workspace; a result to reuse does not matter then.
GpuBusy(s) ==
    /\ AtPhase(s) /\ Ready(s) /\ Now(s) = "13-accelerated-performance"
    /\ Fault
    /\ Ended(s, "BLOCKED") /\ Touch
    /\ UNCHANGED <<incoming, status, lock, kept, made, environment, config, gpu, cpc, want, got,
                   overtaken>>

\* write_final: status.json first ...
WriteStatus(s) ==
    /\ rpc[s] = "phases" /\ at[s] = End
    /\ status' = [state |-> worst[s], config |-> config[s], gpu |-> gpu[s]]
    /\ Goto(s, "seal") /\ Touch
    /\ UNCHANGED <<incoming, lock, kept, made, environment, config, gpu, at, passed, worst, cpc,
                   want, got, overtaken, faults>>

\* ... the other files and SHA256SUMS after it.
WriteChecksums(s) ==
    /\ rpc[s] = "seal"
    /\ sealed' = TRUE
    /\ torn' = [k \in Client |-> torn[k] \/ cpc[k] = "copy"]
    /\ Goto(s, "unlink")
    /\ UNCHANGED <<incoming, status, lock, kept, made, environment, config, gpu, at, passed,
                   worst, cpc, want, got, overtaken, faults>>

Working(s) == rpc[s] \in {"phases", "seal"}

\* A phase that is cut short may have made its output.
Interrupted(s) ==
    /\ made' \in {made} \union
         (IF AtPhase(s) /\ Ready(s) /\ ~Reusable(s)
          THEN {made \union ({Now(s)} \intersect NoClobber)} ELSE {})
    /\ Touch

\* An exception in a phase, one that main catches.
RunnerRaises(s) ==
    /\ Working(s)
    /\ Fault
    /\ Interrupted(s)
    /\ worst' = [worst EXCEPT ![s] = "ERROR"]
    /\ Goto(s, "unlink")
    /\ UNCHANGED <<incoming, status, lock, kept, environment, config, gpu, at, passed, cpc, want,
                   got, overtaken>>

\* Killed, or an exception that main does not catch.
RunnerDies(s) ==
    /\ rpc[s] # "none"
    /\ Fault
    /\ lock' = IF lock = s THEN "dead" ELSE lock
    /\ IF Working(s) THEN Interrupted(s) ELSE UNCHANGED <<made, sealed, torn>>
    /\ Gone(s)
    /\ UNCHANGED <<incoming, status, kept, environment, cpc, want, got, overtaken>>

RunnerStep(s) ==
    \/ Load(s) \/ TakeLock(s) \/ ProbeLock(s) \/ StealLock(s) \/ RemakeLock(s) \/ OwnLock(s)
    \/ Block(s) \/ Reuse(s) \/ Run(s) \/ WriteStatus(s) \/ WriteChecksums(s)
    \/ ReleaseOwner(s) \/ ReleaseLock(s) \/ WriteError(s)
    \/ Fails(s) \/ GpuBusy(s)

Next ==
    \/ \E k \in Client : ClientStep(k) \/ GiveUp(k)
    \/ \E s \in Config : RunnerStep(s) \/ RunnerRaises(s) \/ RunnerDies(s)

Spec == Init /\ [][Next]_vars

\* People rerun what failed, processes run on, and a poll without a runner times out.
FairSpec ==
    /\ Spec
    /\ \A k \in Client : WF_vars(ClientStep(k))
    /\ \A s \in Config : WF_vars(RunnerStep(s))

-----------------------------------------------------------------------------

Inputs == Phase \X (Gpu \union {None}) \X (Signoff \union {None})

TypeOK ==
    /\ incoming \in Config \union {None} /\ status \in Final \union {None}
    /\ sealed \in BOOLEAN /\ lock \in {"free", "empty", "dead"} \union Config
    /\ kept \in SUBSET Inputs /\ made \in SUBSET NoClobber
    /\ environment \in Gpu \union {None}
    /\ rpc \in [Config -> {"none", "load", "lock", "probe", "steal", "remake", "own", "phases",
                           "seal", "unlink", "rmdir", "fail"}]
    /\ config \in [Config -> Config \union {None}] /\ gpu \in [Config -> Gpu \union {None}]
    /\ at \in [Config -> 1..End] /\ passed \in [Config -> SUBSET Phase]
    /\ worst \in [Config -> Result \union {"ERROR"}]
    /\ cpc \in [Client -> {"upload", "start", "poll", "copy", "passed", "failed"}]
    /\ want \in [Client -> Config] /\ got \in [Client -> Final \union {None}]
    /\ torn \in [Client -> BOOLEAN]
    /\ overtaken \in BOOLEAN /\ faults \in 0..MaxFaults


\* BUILD_PLAN.md:2117: one lock per source bundle.  Two runners work in one workspace
\* only after somebody moved the lock directory of a live one.
OneRunnerUnlessOvertaken ==
    (\E r, s \in Config : r # s /\ Working(r) /\ Working(s)) => overtaken

\* Every phase has a PASSED status on disk, on the GPU of the result, and for its signoff.
Earned(result) ==
    result.state = "PASSED" => \A p \in Phase : \E key \in kept :
        /\ key[1] = p
        /\ p # "01-preflight" => key[2] = result.gpu
        /\ p \in VisualSensitive => key[3] = SignedBy[result.config]

\* A result is earned when a client exits zero with it, whatever other runners have
\* done in the workspace since it was written: it would not match its checksums.
AcceptedIsEarned ==
    [][\A k \in Client : cpc[k] # "passed" /\ cpc'[k] = "passed" /\ ~overtaken =>
         Earned(got'[k])]_vars

\* docs/gpu-qualification.md:55: a signoff repeats the review and what is downstream of
\* it, and no other phase: what passed once is not run again.
SignoffRepeatsOnlyItsOwn ==
    [][\A s \in Config : Run(s) /\ Now(s) \notin VisualSensitive \union Audited =>
         \A key \in kept : key[1] # Now(s)]_vars

Done == \A k \in Client : cpc[k] = "passed"

\* An output of a phase that did not pass.
Wedged == \E p \in made : \A key \in kept : key[1] # p

\* Again and again a client polls when no session of the workspace is left.
Patience ==
    []<>(Done \/ \E k \in Client : cpc[k] = "poll" /\ \A s \in Config : rpc[s] = "none")

\* A PASSED result without its checksums, and no runner to write them.
Stranded == status # None /\ status.state = "PASSED" /\ ~sealed /\ \A s \in Config : ~Working(s)

\* BUILD_PLAN.md:2144: the phases are resumable.  What is rerun patiently does pass,
\* through crashes, failures and lost connections, unless a phase or the runner ended
\* in one of those two places.
RerunsPassUnlessStuck == Patience => <>(Wedged \/ Stranded \/ Done)
-----------------------------------------------------------------------------
(* Why there is one runner, and a result is earned. *)

\* Until somebody moved the lock of a live runner, it is whose it says, or being made.
LockOK ==
    ~overtaken => \A s \in Config :
        /\ rpc[s] \in {"phases", "seal", "unlink"} => lock = s
        /\ rpc[s] = "own" => lock = "empty" /\ \A r \in Config : rpc[r] = "own" => r = s

\* How far a runner is, whoever else is at work: what it passed lies behind it, the
\* preflight is among it, and the GPU it goes on with is the one of the preflight on disk.
RunnerOK(s) ==
    /\ rpc[s] # "none" => incoming # None
    /\ rpc[s] \notin {"none", "load"} => config[s] # None
    /\ rpc[s] \notin {"phases", "seal", "unlink", "rmdir", "fail"} =>
         at[s] = 1 /\ passed[s] = {} /\ worst[s] = "PASSED"
    /\ rpc[s] \in {"phases", "seal"} => worst[s] # "ERROR"
    /\ at[s] < End => Now(s) \in Phase
    /\ \A p \in passed[s] : \E i \in 1..(at[s] - 1) : p = CoreOrder[i]
    /\ passed[s] # {} => "01-preflight" \in passed[s]
    /\ "01-preflight" \in passed[s] => gpu[s] = environment /\ PreflightKey \in kept
    /\ worst[s] = "PASSED" =>
         \A i \in 1..(at[s] - 1) : CoreOrder[i] \in Phase => CoreOrder[i] \in passed[s]
    /\ rpc[s] = "seal" => at[s] = End /\ status # None

\* All results on disk are of one GPU, that of the preflight, and of no signoff but where
\* the signoff matters.
KeptOK == \A key \in kept :
    /\ PreflightKey \in kept
    /\ key[1] = "01-preflight" => key = PreflightKey
    /\ key[1] # "01-preflight" => key[2] = environment
    /\ key[1] \notin VisualSensitive => key[3] = None

\* What a lone runner passed stays on disk until its result is sealed, and the result on
\* disk is then its own, or an error.
ResultOK ==
    /\ sealed => status # None
    /\ ~overtaken =>
         /\ \A s \in Config : Working(s) =>
              \A p \in passed[s] : Key(p, config[s], gpu[s]) \in kept
         /\ \A s \in Config : rpc[s] = "seal" /\ status.state = "PASSED" =>
              status = [state |-> worst[s], config |-> config[s], gpu |-> gpu[s]]
         /\ sealed => Earned(status)

ClientOK(k) ==
    /\ cpc[k] = "start" => incoming # None
    /\ cpc[k] = "copy" => status # None

\* The inductive invariant of the workspace: its types, one runner at a time, and the above.
RemoteInv ==
    /\ TypeOK
    /\ OneRunnerUnlessOvertaken
    /\ LockOK
    /\ \A s \in Config : RunnerOK(s)
    /\ KeptOK
    /\ ResultOK
    /\ \A k \in Client : ClientOK(k)
=============================================================================
