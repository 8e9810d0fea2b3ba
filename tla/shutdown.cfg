SPECIFICATION LifecycleSpec
CONSTANTS
    Conns = {c1, c2}
    Jobs = {j1, j2}
    Dispatches = 1
    NoJob = NoJob
    QueueCap = 1
    Dials = {d1, d2}
    Talkers = {d1}
    MaxRequests = 2
INVARIANTS LifecycleTypeOK NoReclaimLost QuietAfterDrain RepliesReadBeforeEOF Severed
PROPERTY ShutdownEnds PipelineIsServed DeadlineEndsRead HandlersEnd
