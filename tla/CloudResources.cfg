SPECIFICATION FairSpec
CONSTANTS
    MaxPolls = 2
    MaxFaults = 3
    Configs <- MCConfigs
INVARIANTS
    TypeOK
    RowTellsCloud
    UndisturbedSucceeds
PROPERTIES
    KeepsProvisionerContract
    CallsEnd
CHECK_DEADLOCK FALSE
