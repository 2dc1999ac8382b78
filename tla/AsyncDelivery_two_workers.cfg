CONSTANTS
    w1 = w1
    Writers = {w1, w2, w3}
    Workers = {k1, k2}
    Host = Host
    SinkCount = 2
    QueueSize = 1
    MaxRecords = 1
    MaxFailures = 0
    Urgent <- MCUrgent
SPECIFICATION FairSpec
INVARIANTS
    EachRecordOnce
PROPERTIES
    ImplementsLogService
    OperationReturns
