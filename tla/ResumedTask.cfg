SPECIFICATION Spec
CONSTANTS
  Tasks = {t1, t2}
  Idle = Idle
  Null = Null
  MaxTasks = 3
  Preemptive = FALSE
SYMMETRY MCSymmetry
CHECK_DEADLOCK FALSE
INVARIANT RestoresCurrent
