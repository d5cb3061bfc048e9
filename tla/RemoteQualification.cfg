\* One person, without a signoff at first, through one fault.
SPECIFICATION FairSpec
CONSTANTS
    k1 = k1
    unsigned = unsigned
    signed = signed
    g1 = g1
    g2 = g2
    receipt = receipt
    Client = {k1}
    Config = {unsigned, signed}
    GpuOf <- AskLater
    SignedBy <- Receipts
    First <- BeginUnsigned
    Signed <- SignThen
    DefaultGpu = g1
    MaxFaults = 1
    None = None
    LeftOut = {"02-dependencies", "01b-license-acknowledgment",
               "06-cuda-parity", "14-profiler-automation",
               "10-baseline-candidate-training", "11-selected-study-charter-freeze",
               "12-fault-lab"}
INVARIANTS
    RemoteInv
PROPERTIES
    AcceptedIsEarned
    SignoffRepeatsOnlyItsOwn
    RerunsPassUnlessStuck
CHECK_DEADLOCK FALSE
