\* Two workers; the client schedules two tasks and may keep the scheduler
\* alive: a task whose schedule_time is still ahead when the workers wait is
\* never run, since condition_.wait has no timeout and nothing notifies again.
CONSTANTS
  w1 = w1
  w2 = w2
  Workers <- TwoWorkers
  Priorities = {0, 1}
  Delays = {0, 1}
  MaxTasks = 2
  MaxCancels = 1
  MaxTime = 2

SPECIFICATION Spec
PROPERTY EveryTaskRuns
