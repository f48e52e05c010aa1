SPECIFICATION FairSpec
CONSTANTS
  w1 = w1
  w2 = w2
  p1 = p1
  p2 = p2
  Workers = {w1, w2}
  Pollers = {}
  PollId = PollId
  NoWorker = NoWorker
  MaxJobs = 2
  Origins = {"uploaded"}
  Classes <- AllClasses
  Faults = {"crash"}
INVARIANT NoteInFlightHasJob
PROPERTY NoteSettles
PROPERTY JobsSettle
CHECK_DEADLOCK FALSE
