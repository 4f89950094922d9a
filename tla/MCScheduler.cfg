SPECIFICATION Spec
CONSTANTS
  Tasks = {t1, t2, t3}
  Idle = Idle
  Null = Null
  MaxTasks = 4
  Preemptive = TRUE
SYMMETRY MCSymmetry
CHECK_DEADLOCK FALSE
INVARIANTS QueueHoldsWaiting OneRunning
PROPERTIES DeadStaysDead RoundRobinSpec
