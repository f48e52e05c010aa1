SPECIFICATION Spec
CONSTANTS
  w1 = w1
  w2 = w2
  p1 = p1
  p2 = p2
  Workers = {w1, w2}
  Pollers = {}
  PollId = PollId
  NoWorker = NoWorker
  MaxJobs = 1
  Origins = {"uploading", "legacy"}
  Classes <- AllClasses
  Faults = {"crash", "lease_loss", "db_error", "storage"}
SYMMETRY ExecutionSymmetry
INVARIANT WaitingJobsCanRun
INVARIANT AttemptsAreFenced
INVARIANT OneHolderPerJob
PROPERTY ImplementsQueue
CHECK_DEADLOCK FALSE
