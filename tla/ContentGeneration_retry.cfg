SPECIFICATION GenFairSpec
CONSTANTS
  j1 = j1
  j2 = j2
  Jobs = {j1}
  MaxAttempts = 2
  Progress = {0, 100}
  MaxPosts = 3
  Faults = {}
PROPERTIES RetriedJobsRun
CHECK_DEADLOCK FALSE
