SPECIFICATION Spec
CONSTANTS
    N = 2
    c1 = c1
    c2 = c2
    Clients <- TwoClients
    ClientOps = 2
    BatchSizes = {0, 1, 3}
    MaxTasks = 3
INVARIANT TypeOK
INVARIANT ExactlyOnce
INVARIANT BatchIsStriped
PROPERTY EveryTaskRuns
PROPERTY ShutdownCompletes
