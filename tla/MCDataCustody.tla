----------------------------- MODULE MCDataCustody -----------------------------
(***************************************************************************)
(* Small checkouts, histories of data commands and hosts for the transfer  *)
(* of sources and for the receipts and audits of the licensed data.        *)
(***************************************************************************)
EXTENDS Integers, Sequences, TLC

CONSTANT None

Transfer == INSTANCE SourceTransfer WITH Outside <- 0

Qualification == INSTANCE DataQualification WITH
    PolicyId <- "v1", AttributeGroup <- <<"signal", "required", "prohibited">>,
    Dataset <- "openlane", Terms <- <<1, 2>>, FrozenFrames <- 1

Receipts == INSTANCE DataReceipts WITH Dataset <- "openlane", Terms <- <<1, 2>>

-----------------------------------------------------------------------------
(* Checkouts of a file, a link or second file, and perhaps a submodule, which change in one
   path between any two of the moments they are read. *)

Indices ==
    LET file(mode) == [mode |-> mode, of |-> Transfer!File(<<1, 2>>)]
        second == {[mode |-> "link", of |-> Transfer!Link(1)], [mode |-> "link", of |-> Transfer!Link(0)],
                   [mode |-> "file", of |-> Transfer!File(<<1>>)]}
    IN  {<<file(mode), s>> : mode \in {"file", "executable"}, s \in second}
        \union {<<file("file"), s, [mode |-> "gitlink", of |-> 7]>> : s \in second}

Committed(index) == [p \in {1, 2} |-> index[p].of]

Trees(index) ==
    LET tree == Committed(index)
        files == {Transfer!File(b) : b \in {<<>>, <<1>>, <<2, 1>>, <<1, 2, 3>>}}
    IN  {tree, (4 :> Transfer!File(<<1>>)) @@ tree, 1 :> tree[1], 2 :> tree[2]}
        \union {[tree EXCEPT ![1] = e] : e \in files \union {Transfer!Link(2)}}
        \union {[tree EXCEPT ![2] = e] : e \in files \union {Transfer!Link(1), Transfer!Link(0)}}

Checkout(head, index, status, hashed, read) ==
    [head |-> head, index |-> index, status |-> status, hashed |-> hashed, read |-> read]

CheckoutPairs ==
    UNION {LET still == Committed(index)
           IN  {[c |-> Checkout(1, index, still, hashed, read),
                 other |-> Checkout(head, index, still, still, still)] :
                hashed \in Trees(index), read \in Trees(index), head \in 1..2}
               \union
               {[c |-> Checkout(1, index, status, still, still),
                 other |-> Checkout(1, index, still, still, still)] :
                status \in Trees(index)}
               \union
               {[c |-> Checkout(1, index, tree, tree, tree),
                 other |-> Checkout(1, index, still, still, still)] : tree \in Trees(index)} : index \in Indices}

-----------------------------------------------------------------------------
(* Data commands after a clone. *)

Lock(version, terms, digest) ==
    [dataset |-> "openlane", version |-> version, commit |-> 1, terms |-> terms, redistribution |-> FALSE,
     archives |-> <<[profile |-> "sample", digest |-> 5], [profile |-> "full", digest |-> digest]>>]

V1 == Lock(1, <<2, 1>>, 6)

Clone(lock) ==
    [lock |-> lock, receipt |-> None, registered |-> <<>>,
     disk |-> <<[manifest |-> [sample |-> 1, full |-> 2], archive |-> [sample |-> 5, full |-> 6]],
                [manifest |-> [sample |-> None, full |-> 3], archive |-> [sample |-> None, full |-> 7]]>>]

Cloned == Clone(V1)

DataCommands ==
    {[op |-> "pull", lock |-> l] : l \in {V1, Lock(2, <<2, 1>>, 7), Lock(1, <<2, 1, 1>>, 6), Lock(1, <<1>>, 6)}}
    \union {[op |-> "acknowledge", accepted |-> a, confirmed |-> TRUE] : a \in {{1, 2}, {1}}}
    \union {[op |-> "acknowledge", accepted |-> {1, 2}, confirmed |-> FALSE]}
    \union {[op |-> "register", root |-> r[1], profile |-> r[2], archive |-> r[3]] :
            r \in {<<1, "full", None>>, <<2, "full", None>>, <<2, "full", 6>>}}

-----------------------------------------------------------------------------
(* Hosts with two frames, and the bundle the user saw. *)

Policy(far, frozen) ==
    [id |-> "v1", registry |-> 1, frozen |-> frozen, curvature |-> <<2, 4>>, area |-> <<2, 4>>,
     lanes |-> <<1, 2>>, hard |-> <<<<-2, 2>>, <<-2, 2>>, <<-1, 1>>>>, bev |-> <<<<-1, 2>>, <<-2, 2>>>>,
     far |-> far, dark |-> 1]

Good == Policy(2, <<<<1, 1>>>>)

Capacity == [lanes |-> 1, controls |-> 1, areas |-> 1]

Straight == [connector |-> FALSE, curvature |-> 0, points |-> <<<<0, 0, 0>>, <<2, 0, 0>>>>]
Bent == [connector |-> TRUE, curvature |-> 3, points |-> <<<<0, 0, 0>>, <<1, 0, 0>>, <<1, 1, 0>>>>]
Beyond == [connector |-> FALSE, curvature |-> 0, points |-> <<<<0, 0, 0>>, <<3, 0, 0>>>>]
Above == [connector |-> FALSE, curvature |-> 0, points |-> <<<<0, 0, 0>>, <<0, 0, 2>>>>]

Frame(segment, time, lanes, successor, controls, control, areas, cameras, luminance) ==
    [segment |-> segment, time |-> time, domain |-> segment, lanes |-> lanes, successor |-> successor,
     controls |-> controls, control |-> control, areas |-> areas, cameras |-> cameras, luminance |-> luminance]

Crossing == [category |-> 1, points |-> <<<<0, 0, 0>>, <<0, 1, 0>>>>]

Second == Frame(2, 1, <<Straight>>, <<<<0>>>>, <<>>, <<<<>>>>, <<>>, <<TRUE, FALSE>>, 1)

FirstFrames ==
    {Frame(segment, 1, <<a, b>>, s, <<[attribute |-> 1, area |-> 3], [attribute |-> 2, area |-> 1]>>, c, areas,
           cameras, luminance) :
     segment \in 1..2, a \in {Straight, Bent}, b \in {Straight, Beyond, Above},
     s \in [1..2 -> {<<0, 0>>, <<0, 1>>, <<1, 1>>}], c \in {<<<<1, 0>>, <<0, 0>>>>, <<<<0, 1>>, <<1, 1>>>>},
     areas \in {<<>>, <<Crossing>>}, cameras \in {<<TRUE, TRUE>>, <<FALSE, TRUE>>}, luminance \in 0..1}

Datasets ==
    {[f EXCEPT !.time = 2] : f \in FirstFrames} \X {Second}

\* A few datasets, one with a point out of range, two that differ in which control a lane has.
Few ==
    LET of(b, s, c, luminance) ==
            <<Frame(1, 1, <<Straight, b>>, s, <<[attribute |-> 1, area |-> 3], [attribute |-> 2, area |-> 1]>>, c,
                    <<Crossing>>, <<TRUE, FALSE>>, luminance), Second>>
        apart == <<<<0, 0>>, <<0, 0>>>>
        joined == <<<<0, 1>>, <<0, 0>>>>
        one == <<<<1, 0>>, <<0, 0>>>>
        two == <<<<0, 1>>, <<0, 0>>>>
    IN  {of(Bent, joined, one, 1), of(Bent, joined, two, 1), of(Bent, apart, one, 1), of(Bent, joined, one, 0),
         of(Beyond, joined, one, 1)}

Policies == {Good, Policy(1, <<<<1, 1>>>>), Policy(2, <<<<2, 1>>>>), Policy(2, <<<<3, 1>>>>),
             Policy(2, <<<<1, 1>>, <<2, 1>>>>), [Good EXCEPT !.id = "v2"], [Good EXCEPT !.lanes = <<2, 1>>]}

Damages == {"none", "file", "missing", "extra", "relisted"}

\* The bundle after something happened to it; a relisted one declares what it has become.
Damaged(bundle, damage) ==
    LET p == <<1, 1, 0>>
        altered == [q \in DOMAIN bundle.files |-> IF q = p THEN None ELSE bundle.files[q]]
    IN  CASE bundle = None \/ damage = "none" -> bundle
          [] damage = "file" -> [bundle EXCEPT !.files = altered]
          [] damage = "missing" -> [bundle EXCEPT !.files = [q \in DOMAIN bundle.files \ {Qualification!Index} |-> bundle.files[q]]]
          [] damage = "extra" -> [bundle EXCEPT !.files = (<<0, 0, 2>> :> None) @@ @]
          [] damage = "relisted" -> [bundle EXCEPT !.files = altered, !.manifest.files = altered]

Host(lock, root, frames, policy, passing) ==
    [checkout |-> Clone(lock), root |-> root, frames |-> frames, policy |-> policy, registry |-> 1,
     capacity |-> Capacity, passing |-> passing]

AllChecks == {"audit", "verify-adapter", "manifest", "split", "audit-splits"}

Reviews ==
    LET receipt == Receipts!Acknowledged(V1, {1, 2}, TRUE)
        review(host, r, frames, policy, profile, damage, passed) ==
            [host |-> host, receipt |-> r, passed |-> passed,
             seen |-> Damaged(Qualification!WriteAuditBundle(frames, policy, profile, Capacity), damage)]
    IN  {review(Host(V1, 1, frames, Good, AllChecks), receipt, other, policy, "full", damage, TRUE) :
         frames \in Few, other \in Few, policy \in Policies, damage \in Damages}
        \union
        {review(Host(V1, 1, frames, policy, AllChecks), receipt, frames, policy, profile, "none", passed) :
         frames \in Few, policy \in Policies, profile \in {"full", "sample"}, passed \in BOOLEAN}
        \union
        {review(Host(lock, root, frames, Good, passing), r, frames, Good, "full", "none", TRUE) :
         lock \in {V1, Lock(2, <<2, 1>>, 6), Lock(1, <<1>>, 6)}, root \in 1..2, frames \in Few,
         r \in {None, receipt, Receipts!Acknowledged(Lock(1, <<1>>, 6), {1}, TRUE)},
         passing \in {AllChecks, AllChecks \ {"manifest"}}}

Reviewed(r) == Qualification!Review(r.host, r.receipt, Qualification!Signoff(r.seen, r.passed))
=============================================================================
