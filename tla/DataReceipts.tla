------------------------------ MODULE DataReceipts ------------------------------
(***************************************************************************)
(* The receipts without which no command touches the licensed data         *)
(* (python/junctionlens/data/license.py and the commands of cli/data.py):  *)
(* the acknowledgment of the terms in the dataset lock, and the            *)
(* registration of a dataset root whose archive is the published one.      *)
(*                                                                         *)
(* A checkout is its dataset lock, its two receipts and the dataset roots  *)
(* of the machine.  Terms are numbers, in their order, and a digest is the *)
(* value it is taken of.                                                   *)
(***************************************************************************)
EXTENDS Integers, Sequences, SequencesExt, Orders

CONSTANTS None, Dataset, Terms     \* the dataset and the sorted terms source_bundle.py knows

\* sorted(): the terms in their order, each as often as it is listed.
Sorted(terms) ==
    LET places == DOMAIN terms
        before == {e \in places \X places : \/ terms[e[1]] < terms[e[2]]
                                            \/ terms[e[1]] = terms[e[2]] /\ e[1] < e[2]}
    IN  [k \in DOMAIN InOrder(places, before) |-> terms[InOrder(places, before)[k]]]

\* _license_contract: what of the lock the user agrees to.
Contract(lock) ==
    [dataset |-> lock.dataset, version |-> lock.version, commit |-> lock.commit,
     terms |-> Sorted(lock.terms), redistribution |-> lock.redistribution]

\* acknowledge_licenses: a receipt for exactly the terms of the lock.
Acknowledged(lock, accepted, confirmed) ==
    IF accepted # ToSet(lock.terms) \/ ~confirmed THEN None
    ELSE [dataset |-> lock.dataset, contract |-> Contract(lock), terms |-> Ascending(accepted),
          confirmed |-> TRUE, redistribution |-> FALSE]

\* _validate_acknowledgment.
Valid(lock, receipt) ==
    /\ receipt # None
    /\ receipt.dataset = lock.dataset
    /\ receipt.contract = Contract(lock)
    /\ receipt.terms = Contract(lock).terms
    /\ receipt.confirmed /\ ~receipt.redistribution

\* acknowledge_licenses and install_acknowledgment replace the receipt as a whole, or raise.
Acknowledge(c, accepted, confirmed) ==
    LET receipt == Acknowledged(c.lock, accepted, confirmed)
    IN  IF receipt = None THEN c ELSE [c EXCEPT !.receipt = receipt]

Install(c, receipt) == IF Valid(c.lock, receipt) THEN [c EXCEPT !.receipt = receipt] ELSE c

\* load_valid_acknowledgment: the receipt of the checkout, if it is of the lock as it is now.
Acknowledgment(c) == IF Valid(c.lock, c.receipt) THEN c.receipt ELSE None

\* register_dataset: of a root with the manifest of the profile, whose archive, given or found
\* next to it, is the one archive the lock publishes for the profile.
Registration(c, root, profile, given) ==
    LET disk == c.disk[root]
        archive == IF given # None THEN given ELSE disk.archive[profile]
        published == {k \in DOMAIN c.lock.archives : c.lock.archives[k].profile = profile}
    IN  IF \/ Acknowledgment(c) = None \/ disk.manifest[profile] = None \/ archive = None
           \/ ~\E k \in published : published = {k} /\ c.lock.archives[k].digest = archive
        THEN None
        ELSE [dataset |-> c.lock.dataset, profile |-> profile, root |-> root, archive |-> archive,
              manifest |-> disk.manifest[profile], receipt |-> Acknowledgment(c)]

\* The receipt is named by dataset and profile, and replaced as a whole.
Register(c, root, profile, given) ==
    LET registration == Registration(c, root, profile, given)
    IN  IF registration = None THEN c
        ELSE [c EXCEPT !.registered =
                  [e \in DOMAIN c.registered \union {<<c.lock.dataset, profile>>} |->
                     IF e = <<c.lock.dataset, profile>> THEN registration ELSE c.registered[e]]]

\* load_registration: whatever the lock and the acknowledgment have become.
LoadRegistration(c, dataset, profile) ==
    IF <<dataset, profile>> \notin DOMAIN c.registered THEN None
    ELSE LET registration == c.registered[<<dataset, profile>>]
         IN  IF registration.dataset = dataset THEN registration ELSE None

\* _registered_dataset: the registered root, or the one that is asked for if it is the same.
RegisteredRoot(c, dataset, profile, asked) ==
    LET registration == LoadRegistration(c, dataset, profile)
    IN  IF registration = None THEN None
        ELSE IF asked \notin {None, registration.root} THEN None ELSE registration.root

\* _load_license_acknowledgment of source_bundle.py: of the terms of V1 and of some contract.
Sendable(receipt) ==
    /\ receipt # None /\ receipt.dataset = Dataset /\ receipt.terms = Terms
    /\ receipt.confirmed /\ ~receipt.redistribution

\* make-config for a profile that reads data, and phase 01b of the runner in the workspace of the
\* same lock.  main catches no DatasetRegistrationError.
InstallPhase(lock, receipt) ==
    CASE ~Sendable(receipt) -> "refused"
      [] Sendable(receipt) /\ Valid(lock, receipt) -> "PASSED"
      [] OTHER -> "raises"

-----------------------------------------------------------------------------
(* Histories of commands on one checkout. *)

Command(c, command) ==
    CASE command.op = "acknowledge" -> Acknowledge(c, command.accepted, command.confirmed)
      [] command.op = "register" -> Register(c, command.root, command.profile, command.archive)
      [] command.op = "pull" -> [c EXCEPT !.lock = command.lock]

\* Step k of a history, whose checkouts at[1], at[2], ... at[1] is before the first step, leaves an
\* acknowledgment of the lock.
Accepts(history, at, k) ==
    /\ history[k].op = "acknowledge" /\ history[k].confirmed
    /\ history[k].accepted = ToSet(at[k].lock.terms)

\* Step k is the registration of this root, from the archive the lock publishes, after the user
\* had accepted exactly the contract of the lock.
Registers(history, at, accepting, k, root, profile) ==
    LET h == history[k]
        lock == at[k].lock
    IN  /\ h.op = "register" /\ h.root = root /\ h.profile = profile
        /\ \E j \in accepting : j < k /\ Contract(at[j].lock) = Contract(lock)
        /\ {a.digest : a \in {b \in ToSet(lock.archives) : b.profile = profile}}
             = {IF h.archive = None THEN at[k].disk[root].archive[profile] ELSE h.archive}

Licensed(history, at, accepting, final) ==
    /\ \A root \in DOMAIN final.disk, profile \in {"sample", "full"} :
         RegisteredRoot(final, Dataset, profile, root)
           \in {root : k \in {j \in DOMAIN history : Registers(history, at, accepting, j, root, profile)}}
               \union {None}
    /\ InstallPhase(final.lock, final.receipt) = "PASSED"
         <=> /\ accepting # {}
             /\ \E j \in accepting : /\ \A k \in accepting : k <= j
                                     /\ Contract(at[j].lock) = Contract(final.lock)
             /\ final.lock.dataset = Dataset /\ Sorted(final.lock.terms) = Terms

\* From a checkout without receipts, a command that gets a root gets one that was registered with
\* the published archive, after the user accepted exactly the contract the lock had then; and a
\* later pull takes no registration away (license.py:322).  The acknowledgment that is there passes
\* phase 01b of a workspace with the same lock exactly when its last acceptance was of this
\* lock, which repeats no term, and of the terms source_bundle.py knows.
LicensedAt(history, at) ==
    Licensed(history, at, {k \in DOMAIN history : Accepts(history, at, k)}, at[Len(history) + 1])
=============================================================================
