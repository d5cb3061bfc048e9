------------------------------ MODULE Derivations ------------------------------
(***************************************************************************)
(* What the system derives from documents it is given, and promises of     *)
(* every document: the association and the metrics of custom.py and        *)
(* custom_match.py, what one side of the graph contract makes of the       *)
(* graphs of the other, and what is handed over: the sources to the GPU    *)
(* host, the licensed data to a command, and the registered artifacts to   *)
(* whoever asks the evidence service or the report for them.               *)
(*                                                                         *)
(* A behaviour takes one document and derives from it what the code does,  *)
(* in one step; a checkout that uses the licensed data takes one command   *)
(* after another.                                                          *)
(***************************************************************************)
EXTENDS CustomEvaluator

CONSTANTS
    Requests,       \* requests to associate predictions with truths ...
    Challenged,     \* ... and those of which every answer of a container is tried
    Frames,         \* associated frames to measure
    Clips,          \* sequences of frames
    Envelopes,      \* graphs, of any role
    ModelOutputs,   \* graphs of a sensor frame, each with what the model makes of it
    Transfers,      \* pairs of checkouts to bundle
    Clones,         \* checkouts without receipts ...
    Commands,       \* ... and what the user runs in them
    MaxCommands,
    Stores,         \* artifact registries
    Asked,          \* what the service is asked for
    Comparison,     \* what the report is asked for ...
    Offered         \* ... with one of these scenes, or None

CONSTANTS PythonLimit, NativeLimit, Slots, Unit, Likely     \* of GraphContract
CONSTANTS Batch, OwnLimit, ServiceLimit, Derived            \* of EvidencePublication
CONSTANTS Outside                                           \* of SourceTransfer
CONSTANTS Dataset, Terms                                    \* of DataReceipts

Contract == INSTANCE GraphContract
Pub == INSTANCE EvidencePublication
Transfer == INSTANCE SourceTransfer
Receipts == INSTANCE DataReceipts

-----------------------------------------------------------------------------
(* The documents. *)

\* s is a sequence of n values.
IsList(s, n) == s = [k \in 1..n |-> s[k]]

\* The request the host makes of the truths and the predictions of a frame.
IsRequest(request) ==
    /\ IsFiniteSet(request.truth) /\ request.truth \subseteq Int /\ None \notin request.truth
    /\ request.predictions \in
         Seq([id : Int, confidence : Int, key : Int, query : Int, cost : [request.truth -> Int]])

\* A frame whose predictions are associated: finitely many edges, and no truth taken twice by
\* the controls, as an association takes none twice.
IsAssociated(f) ==
    /\ IsFiniteSet(DOMAIN f.laneOf) /\ IsFiniteSet(DOMAIN f.controlOf)
    /\ IsFiniteSet(DOMAIN f.successor) /\ IsFiniteSet(DOMAIN f.control)
    /\ f.laneOf = [p \in DOMAIN f.laneOf |-> f.laneOf[p]]
    /\ f.controlOf = [p \in DOMAIN f.controlOf |-> f.controlOf[p]]
    /\ DOMAIN f.control \subseteq Int \X Int
    /\ IsFiniteSet(f.trueControl)
    /\ \A p, q \in Matched(f.controlOf) : f.controlOf[p] = f.controlOf[q] => p = q

\* Queries with the rank of their existence and their geometry.
IsQueries(queries) ==
    /\ IsFiniteSet(DOMAIN queries) /\ DOMAIN queries \subseteq Int
    /\ \A q \in DOMAIN queries : queries[q].rank \in Int /\ queries[q].key \in Int

\* What of the outputs of the model the decoder relies on: the corners of the box of a control,
\* and a rank for every pair of queries that may have an edge.
IsModelOutput(out) ==
    /\ IsQueries(out.lanes) /\ IsQueries(out.controls) /\ IsQueries(out.areas)
    /\ \A q \in DOMAIN out.controls : \A k \in 1..4 : out.controls[q].corners[k] \in Int
    /\ DOMAIN out.successor = (DOMAIN out.lanes) \X (DOMAIN out.lanes)
    /\ DOMAIN out.applies = (DOMAIN out.controls) \X (DOMAIN out.lanes)

\* The model has no more queries, and no more pairs of them, than Python allows nodes and edges
\* (contract/limits.py: 4096 and 131072, for 96 lanes, 64 controls and 32 areas: e0_profile.py:42).
LimitsAllow(out) ==
    /\ PythonLimit.lanes \in Nat /\ Cardinality(DOMAIN out.lanes) <= PythonLimit.lanes
    /\ PythonLimit.controls \in Nat /\ Cardinality(DOMAIN out.controls) <= PythonLimit.controls
    /\ PythonLimit.areas \in Nat /\ Cardinality(DOMAIN out.areas) <= PythonLimit.areas
    /\ PythonLimit.edges \in Nat
    /\ Cardinality(DOMAIN out.successor) + Cardinality(DOMAIN out.applies) <= PythonLimit.edges
    /\ PythonLimit.tracks \in Nat /\ PythonLimit.artifacts \in Nat

\* A regular file of any bytes, or a link.
IsEntry(e) ==
    \/ /\ e.type = "file" /\ e = Transfer!File(e.bytes)
       /\ Len(e.bytes) \in Nat /\ IsList(e.bytes, Len(e.bytes))
    \/ e.type = "link" /\ e = Transfer!Link(e.target)

IsTree(tree) == \A p \in DOMAIN tree : IsEntry(tree[p])

\* Git and the file system say what is where: the index has a blob for every file and a target
\* for every link, and the paths are ordered.
IsCheckout(c) ==
    /\ IsFiniteSet(DOMAIN c.index) /\ DOMAIN c.index \subseteq Int
    /\ IsTree(c.hashed) /\ IsTree(c.read)
    /\ \A p \in DOMAIN c.index :
         CASE c.index[p].mode = "gitlink" -> TRUE
           [] c.index[p].mode = "link" -> IsEntry(c.index[p].of) /\ c.index[p].of.type = "link"
           [] OTHER -> IsEntry(c.index[p].of) /\ c.index[p].of.type = "file"

\* A lock lists its terms.
IsLock(lock) ==
    /\ Len(lock.terms) \in Nat /\ DOMAIN lock.terms = 1..Len(lock.terms)
    /\ \A k \in DOMAIN lock.terms : lock.terms[k] \in Int

\* A clone has no receipts, and every root is somewhere.
IsClone(c) ==
    /\ DOMAIN c = {"lock", "receipt", "registered", "disk"} /\ IsLock(c.lock)
    /\ c.receipt = None /\ DOMAIN c.registered = {} /\ None \notin DOMAIN c.disk

IsCommand(command) ==
    /\ command.op \in {"acknowledge", "register", "pull"}
    /\ command.op = "pull" => IsLock(command.lock)

ASSUME Documents ==
    /\ \A r \in Requests \union Challenged : IsRequest(r)
    /\ \A f \in Frames : IsAssociated(f)
    /\ \A s \in Clips : Len(s) \in Nat /\ DOMAIN s = 1..Len(s)
    /\ \A m \in ModelOutputs : /\ Contract!PythonAccepts(m[1]) /\ m[1].sensor # None
                               /\ IsModelOutput(m[2]) /\ LimitsAllow(m[2])
    /\ \A t \in Transfers : IsCheckout(t.c) /\ IsCheckout(t.other)
    /\ (\A c \in Clones : IsClone(c)) /\ \A command \in Commands : IsCommand(command)

\* The known terms of source_bundle.py are sorted, each once; a camera has a slot, and a
\* coordinate a unit.
ASSUME Knowledge ==
    /\ Terms = Receipts!Ascending(Receipts!ToSet(Terms))
    /\ Likely \in Int /\ Unit \in Nat \ {0} /\ Slots \in Nat \ {0}
    /\ MaxCommands \in Nat

-----------------------------------------------------------------------------
VARIABLES
    task,       \* what is derived
    input,      \* of which document
    output      \* None, and then the result

derivation == <<task, input, output>>

\* The document is one of those of the task.
Documented ==
    \/ task = "associate" /\ input \in Requests
    \/ task = "distrust" /\ input \in Challenged
    \/ task = "frame" /\ input \in Frames
    \/ task = "segment" /\ input \in Clips
    \/ task = "envelope" /\ input \in Envelopes
    \/ task = "decode" /\ input \in ModelOutputs
    \/ task = "transfer" /\ input \in Transfers
    \/ task = "history" /\ input \in Clones
    \/ task = "publish" /\ input \in Stores

Given == Documented /\ output = None

Deriving(t, result) ==
    /\ task = t /\ output = None
    /\ output' = result
    /\ UNCHANGED <<task, input>>

Associate == Deriving("associate", MatchType(input))
Distrust == Deriving("distrust", {o \in Outputs(input) : Accepts(input, o)})
MeasureFrame == Deriving("frame", FrameMetrics(input))
MeasureSegment == Deriving("segment", Flicker(input))
Validate == Deriving("envelope", <<Contract!PythonAccepts(input), Contract!NativeAccepts(input)>>)
Decode == Deriving("decode", Contract!Postprocess(input[1], input[2]))
Deliver == Deriving("transfer", <<Transfer!CreateBundle(input.c, {})>>)
Publish == Deriving("publish", <<Pub!Bundle(input, Comparison, "public", None, FALSE, "new")>>)

\* A checkout, the commands run in it, and what it was before each of them and is after the last.
Clone == Deriving("history", [history |-> <<>>, at |-> <<input>>])

UseData ==
    /\ task = "history" /\ output # None /\ Len(output.history) < MaxCommands
    /\ \E command \in Commands :
         output' = [history |-> Append(output.history, command),
                    at |-> Append(output.at, Receipts!Command(output.at[Len(output.at)], command))]
    /\ UNCHANGED <<task, input>>

Derive ==
    \/ Associate \/ Distrust \/ MeasureFrame \/ MeasureSegment
    \/ Validate \/ Decode
    \/ Deliver \/ Clone \/ UseData \/ Publish

Derivations == Given /\ [][Derive]_derivation

-----------------------------------------------------------------------------
(* What holds of the result as long as the behaviour goes on: the inductive invariant of the
   theorems of DerivationProofs. *)

\* The checkouts before each of n commands, and after the last.
IsHistory(history, at, n) ==
    /\ DOMAIN history = 1..n /\ Len(history) = n /\ IsClone(at[1])
    /\ \A k \in 1..n : IsCommand(history[k]) /\ at[k + 1] = Receipts!Command(at[k], history[k])

DerivationInv ==
    /\ Documented
    /\ output # None =>
         /\ task = "associate" => output = MatchType(input)
         /\ task = "distrust" => output = {o \in Outputs(input) : Accepts(input, o)}
         /\ task = "history" =>
              LET n == Len(output.history)
              IN  /\ n \in Nat /\ IsList(output.history, n) /\ IsList(output.at, n + 1)
                  /\ IsHistory(output.history, output.at, n)

-----------------------------------------------------------------------------
(* Properties. *)

Derives(t) == task = t /\ output # None

\* The container's association (containers/custom_match.py) is the greedy one of
\* docs/custom-kpis.md, whatever the order of the request and its ties, and the host
\* (evaluator/custom.py) accepts it and nothing else; the graph and temporal metrics made
\* from it are rates that agree with one another and with the truths they are measured against.
KpisAreThoseDefined ==
    /\ Derives("associate") => IsGreedyAssociation(input, output) /\ Accepts(input, output)
    /\ Derives("distrust") => AcceptedIsGreedy(input, output)
    /\ Derives("frame") => MetricsAgree(input)
    /\ Derives("segment") => TemporalMetricsAgree(input)

\* The Python and the native validator of the graph contract agree on what passes from
\* one side to the other, within the smaller limits of the native one; and what the runtime
\* decodes from a model output (runtime.cpp) is a graph both of them accept, of exactly the
\* nodes and edges that are likely.
ContractsAgree ==
    /\ Derives("envelope") => Contract!NativeReadsPython(input)
    /\ Derives("decode") => Contract!GraphIsReadable(input[1], input[2])

\* What is handed over is what it is said to be: the sources on the host are the commit
\* (source_bundle.py), no command uses data whose terms were not accepted or whose archive is
\* another (license.py), and what the evidence service (api/repository.py) and the report
\* (report/export.py) give is registered, undamaged, and of one decision with all they copy among
\* its parents.
CustodyIsKept ==
    /\ Derives("transfer") => Transfer!TransferIsExact(input.c, input.other)
    /\ Derives("history") => Receipts!LicensedAt(output.history, output.at)
    /\ Derives("publish") =>
         /\ \A route \in {"content", "decision", "image", "scene", "metrics"}, i \in Asked :
              Pub!ServedIsRegistered(input, route, i)
         /\ \A mode \in {"public", "private"}, scene \in Offered, acknowledged \in BOOLEAN,
               place \in {"new", "outside", "there"} :
              Pub!BundleIsFaithful(input, Comparison, mode, scene, acknowledged, place)
=============================================================================
