SPECIFICATION Spec
CONSTANTS
  w1 = w1
  w2 = w2
  p1 = p1
  p2 = p2
  Workers = {w1}
  Pollers = {}
  PollId = PollId
  NoWorker = NoWorker
  MaxJobs = 3
  Origins = {"uploaded"}
  Classes <- AllClasses
  Faults = {}
SYMMETRY ExecutionSymmetry
INVARIANT AnsweredRoundIsClosed
CHECK_DEADLOCK FALSE
