SPECIFICATION LoopSpec
CONSTANTS
  Tasks = {t1}
  Slots = {s1, s2, s3}
  NoSlot = NoSlot
  MaxTimers = 2
  MaxTasks = 100
  MaxIterations = 2
  MaxRewrites = 2
  ReflectModes <- AllModes
  AutoApprove = TRUE
INVARIANTS TypeOK ApprovedExecution SingleRunner RunnersReachable
  OrchestratorOwned NoOrphanedRun ResumedFromCheckpoint
PROPERTIES KeepsPromise PlanDecisionFinal OutcomesFinal FuseEndsRun SettlesIfAnswered
CHECK_DEADLOCK FALSE
