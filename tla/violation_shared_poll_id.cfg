SPECIFICATION Spec
CONSTANTS
  w1 = w1
  w2 = w2
  p1 = p1
  p2 = p2
  Workers = {}
  Pollers = {p1, p2}
  PollId = PollId
  NoWorker = NoWorker
  MaxJobs = 1
  Origins = {"uploaded"}
  Classes = {"OK"}
  Faults = {"lease_loss"}
SYMMETRY ExecutionSymmetry
INVARIANT OneHolderPerJob
CHECK_DEADLOCK FALSE
