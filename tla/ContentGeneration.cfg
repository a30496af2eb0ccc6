SPECIFICATION GenFairSpec
CONSTANTS
  j1 = j1
  j2 = j2
  Jobs = {j1}
  MaxAttempts = 3
  Progress = {0, 100}
  MaxPosts = 3
  Faults = {"lost_message", "worker_death", "web_death", "preflight", "locked_row"}
INVARIANTS GenInv RequestsAgree
PROPERTIES JobSpec RunningJobsEnd
CHECK_DEADLOCK FALSE
