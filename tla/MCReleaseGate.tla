--------------------------- MODULE MCReleaseGate ---------------------------
EXTENDS ReleaseGate, TLC

CONSTANTS p1, p2

Cells == {"f1", "lanes", "rain", "track", "latency"}
CellMetric == [c \in Cells |-> IF c = "rain" THEN "f1" ELSE c]
CellSlice == [c \in Cells |-> IF c = "rain" THEN "wet" ELSE "overall"]
CellSupportClass == [c \in Cells |->
    CASE c = "f1" -> "overall" [] c = "lanes" -> "lane_control" [] c = "rain" -> "slice"
      [] c = "track" -> "temporal" [] c = "latency" -> "runtime"]
Margins(n) == [c \in Cells |-> n]
DraftMargins == Margins(1)
Goals == [c \in {"lanes"} |-> 1]
Floors == [segments |-> 2, sliceSegments |-> 1, edges |-> 2, transitions |-> 1, temporal |-> 1]

\* Three frames of two segments, one of them wet.
Frame(t) == [segment |-> IF t = 3 THEN "b" ELSE "a", slice |-> IF t = 1 THEN "wet" ELSE "dry",
             dimension |-> "weather", metrics |-> Cells, edges |-> 1, transitions |-> 1,
             truth |-> 2]
Blocks == 1..4
GoodArm ==
    [sound |-> TRUE, identity |-> "same", registry |-> "v1", holdout |-> FALSE,
     frames |-> [t \in 1..3 |-> Frame(t)],
     blocks |-> [c \in {"latency"} |-> [all |-> Blocks, valid |-> Blocks]],
     runtime |-> [hardware |-> "rtx", environment |-> TRUE, gpu |-> TRUE, protocol |-> TRUE,
                  order |-> "balanced", budget |-> TRUE]]

\* Arms with one thing wrong.
Defects == {"none", "unsound", "identity", "registry", "holdout", "frame", "segment", "merged", "slice",
            "dimension", "metric", "edges", "still", "truth", "hardware", "environment",
            "provider", "protocol", "order", "budget", "trials", "invalid", "untimed"}
Spoilt(d) ==
    CASE d = "none"        -> GoodArm
      [] d = "unsound"     -> [GoodArm EXCEPT !.sound = FALSE]
      [] d = "identity"    -> [GoodArm EXCEPT !.identity = "other"]
      [] d = "registry"    -> [GoodArm EXCEPT !.registry = "v0"]
      [] d = "holdout"     -> [GoodArm EXCEPT !.holdout = TRUE]
      [] d = "frame"       -> [GoodArm EXCEPT !.frames = [t \in {1, 3} |-> Frame(t)]]
      [] d = "segment"     -> [GoodArm EXCEPT !.frames[2].segment = "b"]
      [] d = "merged"      -> [GoodArm EXCEPT !.frames[3].segment = "a"]
      [] d = "slice"       -> [GoodArm EXCEPT !.frames[1].slice = "dry"]
      [] d = "dimension"   -> [GoodArm EXCEPT !.frames[1].dimension = "season"]
      [] d = "metric"      -> [GoodArm EXCEPT !.frames[3].metrics = {"f1"}]
      [] d = "edges"       -> [GoodArm EXCEPT !.frames = [t \in 1..3 |-> [Frame(t) EXCEPT !.edges = 0]]]
      [] d = "still"       -> [GoodArm EXCEPT !.frames = [t \in 1..3 |-> [Frame(t) EXCEPT !.transitions = 0]]]
      [] d = "truth"       -> [GoodArm EXCEPT !.frames[2].truth = 1]
      [] d = "hardware"    -> [GoodArm EXCEPT !.runtime.hardware = "gtx"]
      [] d = "environment" -> [GoodArm EXCEPT !.runtime.environment = FALSE]
      [] d = "provider"    -> [GoodArm EXCEPT !.runtime.gpu = FALSE]
      [] d = "protocol"    -> [GoodArm EXCEPT !.runtime.protocol = FALSE]
      [] d = "order"       -> [GoodArm EXCEPT !.runtime.order = "AB"]
      [] d = "budget"      -> [GoodArm EXCEPT !.runtime.budget = FALSE]
      [] d = "trials"      -> [GoodArm EXCEPT !.blocks["latency"].all = 1..3, !.blocks["latency"].valid = 1..3]
      [] d = "invalid"     -> [GoodArm EXCEPT !.blocks["latency"].valid = 1..2]
      [] d = "untimed"     -> [GoodArm EXCEPT !.blocks["latency"].all = {}, !.blocks["latency"].valid = {}]

Better == [valid |-> TRUE, lower |-> 1, upper |-> 2]
Intervals == {Better, [valid |-> FALSE, lower |-> 0, upper |-> 0],
              [valid |-> TRUE, lower |-> 0, upper |-> 1], [valid |-> TRUE, lower |-> -1, upper |-> 0],
              [valid |-> TRUE, lower |-> -2, upper |-> 0], [valid |-> TRUE, lower |-> -3, upper |-> -2]}
AllBetter == [c \in Cells |-> Better]

AllPairs ==
    {[baseline |-> Spoilt(d), candidate |-> Spoilt(e), bounds |-> AllBetter] :
     <<d, e>> \in {f \in Defects \X Defects : "none" \in {f[1], f[2]} \/ f[1] = f[2]}}
    \union {[baseline |-> GoodArm, candidate |-> Spoilt(d), bounds |-> [AllBetter EXCEPT ![c] = i]] :
            d \in {"none", "budget", "hardware", "registry"}, c \in Cells, i \in Intervals}

FreezeEvidence ==
    {[clean |-> TRUE, margin |-> Margins(n), hardware |-> "rtx"] : n \in 0..2}
    \union {[clean |-> FALSE, margin |-> Margins(1), hardware |-> "rtx"]}

TwoPairs ==
    {[baseline |-> GoodArm, candidate |-> GoodArm, bounds |-> [AllBetter EXCEPT !["f1"] = i]] :
     i \in {Better, [valid |-> TRUE, lower |-> -1, upper |-> 0]}}

OneOfAll == {{p} : p \in AllPairs}
BothOfTwo == {TwoPairs}

Symmetry == Permutations(Proc)

=============================================================================
