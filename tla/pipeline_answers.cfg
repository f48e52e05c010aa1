SPECIFICATION FairSpec
CONSTANTS
  w1 = w1
  w2 = w2
  p1 = p1
  p2 = p2
  Workers = {w1, w2}
  Pollers = {p1}
  PollId = PollId
  NoWorker = NoWorker
  MaxJobs = 4
  Origins = {"uploaded", "legacy", "uploading"}
  Classes <- AllClasses
  Faults = {}
INVARIANT TypeOK
INVARIANT QueuedSubmissionHasJob
INVARIANT AnswersAreHeard
INVARIANT RequestIsAnswerable
INVARIANT StoredReadingIsReused
PROPERTY HolderKeepsNote
PROPERTY DiagnosisReopenedByJob
PROPERTY SubmissionsSettle
CHECK_DEADLOCK FALSE
