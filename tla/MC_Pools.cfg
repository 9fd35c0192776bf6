SPECIFICATION Spec
CONSTANTS
    w1 = w1
    w2 = w2
    c1 = c1
    c2 = c2
    g = g
    sa = sa
    sb = sb
    sc = sc
    x1 = x1
    x2 = x2
    x3 = x3
    ta = ta
    tb = tb
    f1 = f1
    f2 = f2
    f3 = f3
    nul = nul
INVARIANT TypeOK
INVARIANT DrainedAtExit
INVARIANT NeverEarly
INVARIANT LeastConnPicksFirstLeast
INVARIANT ExclusiveUse
INVARIANT FrameOwnedOnce
INVARIANT SizeClassCorrect
PROPERTY DependenciesFirst
PROPERTY ExecuteReturns
PROPERTY EveryFutureReady
PROPERTY ExecutorTaskRuns
PROPERTY DestructorReturns
PROPERTY RingServesList
PROPERTY StopEndsRun
PROPERTY EveryTimerFires
