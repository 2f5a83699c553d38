CONSTANTS
  j1 = j1
  j2 = j2
  r1 = r1
  tasks = tasks
  summary = summary
  Jobs = {j1, j2}
  Retries = {r1}
  Artifacts = {tasks, summary}
  Outputs <- TwoOutputs
  Writes <- TwoTasks
  Faults = {"feishuError", "callError", "crash"}
  MaxCrashes = 1
SPECIFICATION Spec
CHECK_DEADLOCK FALSE
INVARIANTS TypeOK SucceededIsServed RepeatsHaveCause
