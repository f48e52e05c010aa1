SPECIFICATION Spec
CONSTANTS
  w1 = w1
  w2 = w2
  p1 = p1
  p2 = p2
  Workers = {w1}
  Pollers = {}
  PollId = PollId
  NoWorker = NoWorker
  MaxJobs = 1
  Origins = {"uploaded"}
  Classes = {"OK"}
  Faults = {"db_error"}
SYMMETRY ExecutionSymmetry
INVARIANT RetryMayExtract
CHECK_DEADLOCK FALSE
