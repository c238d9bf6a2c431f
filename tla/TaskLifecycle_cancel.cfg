SPECIFICATION AnsweringSpec
CONSTANTS
  Tasks = {t1}
  Slots = {s1, s2}
  NoSlot = NoSlot
  MaxTimers = 1
  MaxTasks = 100
  MaxIterations = 1
  MaxRewrites = 1
  ReflectModes <- AllModes
  AutoApprove = FALSE
PROPERTY CancelSettles
CHECK_DEADLOCK FALSE
