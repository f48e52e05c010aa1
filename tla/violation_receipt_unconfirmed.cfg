SPECIFICATION PageSpec
CONSTANTS
  Submissions = {n1, n2}
  NoSubmission = NoSubmission
  Sendings = {s1}
INVARIANT ReceiptIsConfirmed
CHECK_DEADLOCK FALSE
