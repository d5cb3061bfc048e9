--------------------------- MODULE DataQualification ---------------------------
(***************************************************************************)
(* The licensed data on the GPU host: qualify_data.py, which runs the data *)
(* commands in order, and the phases 01b, 08, 08b and 08c of               *)
(* remote_runner.py, which install the acknowledgment, run it and compare  *)
(* the audit bundle it renders with the signoff of the one the user saw.   *)
(***************************************************************************)
EXTENDS VisualAudit

CONSTANTS Dataset, Terms,
    FrozenFrames    \* the number of frozen frames of V1 (12)

Receipts == INSTANCE DataReceipts

\* The commands between register and visual-audit, in their order.
Checks == <<"audit", "verify-adapter", "manifest", "split", "audit-splits">>

\* qualify and _validate_receipts: the first command that fails ends it without an output.  A host
\* is its checkout, the dataset root, the frames the adapter reads there, the audit policy, the
\* slice registry, the capacities and the checks that pass.
DataIsReady(host) ==
    LET registered == Receipts!Register(host.checkout, host.root, "full", None)
    IN  /\ Receipts!Registration(host.checkout, host.root, "full", None) # None
        /\ Receipts!RegisteredRoot(registered, Dataset, "full", host.root) # None
        /\ ToSet(Checks) \subseteq host.passing
        /\ PolicyOk(host.policy, host.registry)

Qualified(frozen, bundle) ==
    IF bundle = None THEN None
    ELSE IF ~bundle.accepted \/ Len(frozen) # FrozenFrames THEN None
    ELSE [state |-> "PENDING_HUMAN_INSPECTION", mechanical |-> "ACCEPTED",
          frames |-> Len(frozen), visual |-> bundle.manifest, policy |-> bundle.manifest.policy]

Rendered(host) == WriteAuditBundle(host.frames, host.policy, "full", host.capacity)

QualifyData(host) == IF DataIsReady(host) THEN Qualified(host.policy.frozen, Rendered(host)) ELSE None

\* _load_visual_audit_signoff of source_bundle.py, and Runner.__init__.
SignoffSendable(signoff) == signoff = None \/ (signoff.policy = PolicyId /\ signoff.reviewed > 0)

\* Phases 01b and 08: the acknowledgment first, then the data.
DataEvidence(host, receipt) ==
    QualifyData([host EXCEPT !.checkout = Receipts!Install(@, receipt)])

\* Phases 08b and 08c: how a run of the core profile ends for the review of the data.
Compared(evidence, signoff) ==
    IF evidence = None \/ signoff = None THEN "BLOCKED"
    ELSE IF signoff.bundle = evidence.visual /\ signoff.policy = evidence.policy THEN "PASSED" ELSE "FAILED"

Review(host, receipt, signoff) ==
    CASE ~Receipts!Sendable(receipt) \/ ~SignoffSendable(signoff) -> "refused"
      [] Receipts!InstallPhase(host.checkout.lock, receipt) = "raises" -> "raises"
      [] OTHER -> Compared(DataEvidence(host, receipt), signoff)

-----------------------------------------------------------------------------
(* What the review promises. *)

\* The user accepted the terms of the lock of this workspace, and the archive is the published one.
Licensed(host, receipt) ==
    LET lock == host.checkout.lock
    IN  /\ receipt # None
        /\ receipt.contract = Receipts!Contract(lock) /\ ToSet(receipt.terms) = ToSet(lock.terms)
        /\ {host.checkout.disk[host.root].archive["full"]}
             = {a.digest : a \in {b \in ToSet(lock.archives) : b.profile = "full"}}

InRange(host) ==
    \A k \in DOMAIN host.frames : \A p \in ToSet(FramePoints(host.frames[k])) :
        Within(p, host.policy.hard, 1..3)

\* The review passes only for data whose terms were accepted as they stand in the lock of the
\* workspace, from the published archive, all of it in range, under a policy of V1, and of which the user saw every
\* picture as the host renders it (remote_runner.py:1116); and it does pass when the user signs
\* an undamaged rendering of the same frames under the same policy.
PassesForThis(host, receipt, seen, passed, rendered, review) ==
    LET sound == /\ Licensed(host, receipt) /\ InRange(host) /\ ToSet(Checks) \subseteq host.passing
                 /\ PolicyOk(host.policy, host.registry)
                 /\ passed /\ seen # None /\ rendered # None
        same == \A p \in DOMAIN rendered.files \union DOMAIN seen.files :
                    p \in DOMAIN seen.files /\ p \in DOMAIN rendered.files /\ seen.files[p] = rendered.files[p]
    IN  /\ review = "PASSED" => sound /\ same
        /\ sound /\ seen = rendered
             /\ Len(host.policy.frozen) = FrozenFrames /\ Receipts!Sendable(receipt)
             => review = "PASSED"

ReviewIsOfThisData(host, receipt, seen, passed) ==
    PassesForThis(host, receipt, seen, passed, Rendered(host), Review(host, receipt, Signoff(seen, passed)))
=============================================================================
