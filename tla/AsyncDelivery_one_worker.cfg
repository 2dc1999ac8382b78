CONSTANTS
    w1 = w1
    Writers = {w1, w2}
    Workers = {k1}
    Host = Host
    SinkCount = 2
    QueueSize = 2
    MaxRecords = 2
    MaxFailures = 1
    Urgent <- MCUrgent
SPECIFICATION FairSpec
INVARIANTS
    TypeOK
    EachRecordOnce
    UrgentIsFlushed
    FlushDelivers
    IInv
    OneWorkerIInv
PROPERTIES
    ImplementsLogService
    ImplementsAdmission
    AcceptedIsDelivered
