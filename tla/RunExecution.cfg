SPECIFICATION FairSpec
CONSTANTS
    Nodes <- MCNodes
    Edges <- MCEdges
    Templates <- MCTemplates
    EnvAxis = 2
    MaxTotalRuns = 20
    Vms = {1, 2, 3}
    StressLimit = 1
    MaxPolls = 2
    MaxFaults = 2
    Specs <- MCSpecs
    Runnable <- MCRunnable
    Environments <- MCEnvironments
    BrokenTemplates <- MCBroken
INVARIANTS
    TypeOK
    EachCombinationOnce
    ReportsAreTrue
    TrackerAgrees
    MeasuredAlone
PROPERTIES
    GenerationSettles
CHECK_DEADLOCK FALSE
