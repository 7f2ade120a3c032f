SPECIFICATION FairSpec
CONSTANTS
  Callers = {c1, c2}
  Steppers = {s1, s2}
  MaxCount = 2
  Tasks = {t1, t2}
  NoTask = empty
  Worker = worker
  NoThread = nobody
INVARIANTS
  ThreadHandleSafe
  AtMostOneLateTask
  IInv
PROPERTIES
  ErrorIsSticky
  TaskStableWhileExecuting
  LifecycleSpec
  StopTerminates
  RunningExecutes
