SPECIFICATION FairSpec
CONSTANTS
  Notices = {n1}
  Devices = {d1}
  Senders = {s1, s2, s3}
  NoSender = NoSender
  MaxAttempts = 4
  Faults = {"crash", "lease_loss", "db_error", "timeout"}
INVARIANT TypeOK
INVARIANT EachAttemptSendsOnce
INVARIANT DuplicatesAreExplained
PROPERTY DeliveriesSettle
CHECK_DEADLOCK FALSE
