SPECIFICATION FairPartsSpec
CONSTANTS
  Parts = {"reading", "verification", "admission", "access", "queue", "pages", "original", "upload"}
  PageCounts = {5, 9, 13}
  WindowSize = 4
  MaxWindows = 3
  Recoverable = {2}
  Deficient = {2, 3}
  Readers = {r1, r2}
  Repairers = {q1, q2}
  Targets = {t1, t2}
  v1 = v1
  v2 = v2
  h1 = h1
  RuleSets <- MCRuleSets
  Hypotheses = {h1}
  MaxAudits = 3
  MaxOverlap = 2
  Starts <- MCStarts
  NoRequest = NoRequest
  Uploads = {u1, u2, u3}
  Works = {k1, k2}
  GlobalLimit = 2
  PerWorkLimit = 1
  Window = 1
  MaxClock = 2
  Nobody = Nobody
  Polls = {p1, p2}
  Reviewers = {e1}
  UploadTTL = 1
  ContextTTL = 2
  TerminalTTL = 1
  LastTick = 3
  MaxVersion = 6
  Workers = {w1, w2, w3}
  MaxJobs = 2
  AttemptLimits = {2, 3}
  Tabs = {t3, t4}
  MaxRelease = 3
  Executions = {x1, x2}
  Prints = {f1, f2}
  ModelCounts = {2}
  MaxRuns = 3
  MaxOriginal = 5
  Submissions = {n1, n2}
  NoSubmission = NoSubmission
  Sendings = {s1}
INVARIANT PartsTypeOK
INVARIANT WholeDocumentConsolidated
INVARIANT ReadsAreRecordedFirst
INVARIANT ReadersSettleFirst
INVARIANT SuspicionIsBacked
INVARIANT VerifiedOrLimited
INVARIANT NoWindowOverrun
INVARIANT EndIsToldOnce
INVARIANT AnswerIsFollowed
INVARIANT ReadsAreOfThisDiagnosis
INVARIANT GrantsAreUnique
INVARIANT ReadingsAreExcused
INVARIANT ReadableReadingKept
INVARIANT EndIsOfNoteOnScreen
PROPERTY EveryReadingEnds
PROPERTY WindowsBoughtOnce
PROPERTY VerificationBuysOnce
PROPERTY EachReloadIsAnUpdate
CHECK_DEADLOCK FALSE
