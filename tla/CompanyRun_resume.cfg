\* Three items in five decompositions (MCCompanyRun), one retry, one superior,
\* two review rounds and a semaphore that starts at one permit.
SPECIFICATION FairSpec
CONSTANTS
  a = a
  b = b
  c = c
  NoItem = NoItem
  Items <- Three
  Decompositions <- Answers
  Top = 1
  MaxRetries = 1
  MaxRounds = 2
  MaxParallel = 1
PROPERTY ResumeKeepsDone
CHECK_DEADLOCK FALSE
