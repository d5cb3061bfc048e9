SPECIFICATION Spec
CONSTANTS
    Jobs <- MCJobs
    Capacity = 2
    MaxLaunches = 3
    None = None
\* A process that has ended is launched again only up to MaxLaunches times.
CHECK_DEADLOCK FALSE
INVARIANTS
    RuntimeInv
    PassedIsComplete
    MeasurementsAreWhole
