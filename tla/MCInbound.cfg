SPECIFICATION InboundSpec
CONSTANTS
    s1 = s1
    Ledgers = {1, 2}
    Syncers = {s1, s2}
    BatchLimit = 2
    MaxTransfers = 2
    Processes = {p1, p2}
    Partitions = {q1}
    TopicOf <- MCTopicOf
    Events = {e1, e2}
    MaxMessages = 2
    Adapters = {a1, a2}
    TransferIds = {1, 2}
    SweepLimit = 1
INVARIANTS
    MirrorIsTheLedger
    OffsetsFollowEvents
    NeverAheadOfHub
    ReportedOnce
PROPERTIES
    MirrorCatchesUp
    StrandedIsReported
CHECK_DEADLOCK FALSE
