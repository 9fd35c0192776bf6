\* Two workers; the client schedules three tasks at priority 0 or 1 with a
\* delay of 0 or 1, cancels once, then destroys the scheduler or keeps it.
CONSTANTS
  w1 = w1
  w2 = w2
  Workers <- TwoWorkers
  Priorities = {0, 1}
  Delays = {0, 1}
  MaxTasks = 3
  MaxCancels = 1
  MaxTime = 2

SPECIFICATION Spec
INVARIANT TypeOK
INVARIANT NeverEarly
INVARIANT CancelledNeverRuns
PROPERTY DispatchOrder
PROPERTY TasksRunByShutdown
PROPERTY DestructorReturns
