------------------------------ MODULE MCNativeRuntime ------------------------------
(* A small instance of NativeRuntime: lists in and out of order, with a change of segment  *)
(* and with an invalid pose; whole, interrupted and mixed placements; both input profiles. *)
EXTENDS NativeRuntime

Frames == [a1 |-> [segment |-> "a", ts |-> 1, pose |-> TRUE],
           a2 |-> [segment |-> "a", ts |-> 2, pose |-> TRUE],
           a3 |-> [segment |-> "a", ts |-> 3, pose |-> FALSE],
           b1 |-> [segment |-> "b", ts |-> 1, pose |-> TRUE],
           b3 |-> [segment |-> "b", ts |-> 3, pose |-> TRUE]]

Heading == [kind |-> "heading"]
Other == [kind |-> "other"]
On(provider) == <<[kind |-> "provider", provider |-> provider, nodes |-> 1], [kind |-> "node"]>>

OnCpu == <<Other, Heading>> \o On("cpu")
OnCuda == <<Heading>> \o On("cuda")
OnCudaAndCpu == OnCuda \o On("cpu")
OnTensorrt == <<Heading>> \o On("tensorrt") \o On("cuda") \o <<Other>>
Interrupted == OnCuda \o <<Other>> \o On("cpu")

Protocol(profile, stability) ==
    [warmup |-> 1, measured |-> 3, stability |-> stability, period |-> 2, profile |-> profile]

NoProtocol == Protocol("none", 0)

Job(mode, frames, profile, messages, protocol) ==
    [mode |-> mode, profile |-> profile, messages |-> messages, protocol |-> protocol,
     list |-> [k \in DOMAIN frames |-> Frames[frames[k]]]]

MCJobs == {
    Job("doctor", <<>>, "tensorrt", OnTensorrt, NoProtocol),
    Job("infer", <<"a1", "a2", "a3">>, "cpu", OnCpu, NoProtocol),
    Job("infer", <<"a1", "b1", "b3">>, "cuda", OnCuda, NoProtocol),
    Job("infer", <<"a1", "a2">>, "cuda", OnCudaAndCpu, NoProtocol),
    Job("infer", <<"a2", "a1">>, "cuda", Interrupted, NoProtocol),
    Job("infer", <<"a1", "b3">>, "cpu", OnCpu, NoProtocol),
    Job("benchmark", <<"a1", "a2">>, "cpu", OnCpu, Protocol("predecoded", 3)),
    Job("benchmark", <<"a2", "a1">>, "cpu", OnCpu, Protocol("full-file", 3)),
    Job("benchmark", <<"a1", "a2">>, "tensorrt", OnTensorrt, Protocol("full-file", 1)),
    Job("infer", <<>>, "cpu", OnCpu, NoProtocol)}
=============================================================================
