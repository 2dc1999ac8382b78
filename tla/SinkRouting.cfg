CONSTANTS
    SinkLevels <- MCSinkLevels
    ChannelSets <- MCChannelSets
    Calls <- MCCalls
SPECIFICATION Spec
INVARIANTS
    TypeOK
    RoutesByLevelAndChannel
    KeepsTheMessage
    RecordHoldsEveryArgument
    SourceIsTheFileName
    LevelFlagFillsItsWidth
    UsesItsOwnPattern
