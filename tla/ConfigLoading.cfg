CONSTANTS
    Documents <- MCDocuments
    Unreadable = Unreadable
    BaseDirs <- MCBaseDirs
    OwnConfigurations <- MCOwnConfigurations
    Strings <- MCStrings
    CurrentDirs <- MCCurrentDirs
    SizeMax = 100000
    None = None
SPECIFICATION Spec
INVARIANTS
    TypeOK
    OnlyFiveChecksRemain
    IInv
PROPERTIES
    LoadIsAllOrNothing
    ErrorTellsTheLastCall
    PathLeadsFromBase
