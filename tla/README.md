# Verification of the note pipeline

This directory holds TLA+ models of the server of *Controle Finanças* (a PWA that
receives invoices and receipts of building works, reads them with a vision model,
audits them and asks the sender or a reviewer when something is missing), the TLC
configurations that check the models on small instances, and proofs of their main
safety properties for every value of the constants.

Paths are relative to the repository checkout (`src/` in `PROJECT.json`); the server
code lives in `src/server/notes`, abbreviated `notes/` below.

## 1. Inventory

| Part | State it keeps | Operations | Hard behaviour | What makes it correct |
|---|---|---|---|---|
| Processing jobs, `notes/processing-jobs.ts` | `processing_jobs`: status, type, attempt, maxAttempts, lockedBy, lockedAt | claim, heartbeat, choice of branch, complete, fail, audit recovery, reprocess | executions race to claim; leases are lost under live executions; failure paths with early returns | one current attempt per job, fenced; nothing in analysis without a job; every job settles |
| Queue worker, `notes/processing-worker.ts` | none of its own | sweep of expired leases, drain, recovery of notes that never had a job | crash between any two writes of an attempt | a recovered note resumes where it stopped, or is closed with its job and submission |
| Extraction, `notes/process-note-extraction.ts`, `extraction-checkpoint.ts` | note stage, version, `extractedData`, `ai_runs` of kind EXTRACTION with the checkpoint | claim the note, look for a paid reading, read, keep, store or record the failure | two readings at once; conflict at the version; a failure between paying and storing | a stored reading is never replaced under an audit in flight; a paid one is used by whoever comes next |
| Audit, `notes/process-note-audit.ts` | diagnosis, findings, context request, submission status, notifications | load, decide, finalize, record the failure | a stale audit finishing late; answers arriving meanwhile | the diagnosis belongs to the stored reading and saw the answers |
| Context questions, `notes/context-questions.ts` | rounds, questions, submissions | show, submit | double submission; submission against a note that moved | one submission per round; a queued one has a job |
| Upload, `notes/create-note-upload.ts` | note, job, stored file | create note and job, store the file, mark stored, mark failed | the job may be claimed before the file exists | a failed upload withdraws what it created |
| Upload admission, `notes/public-upload-rate-limit.ts` | count of recent notes | count under an advisory lock, admit or refuse | concurrent uploads at the limit | never more than the limit in a window |
| Public status and capability, `notes/public-status.ts`, `public-capability.ts`, `api/notas/[id]/status` | token hash, expiry, consumption | poll (which may start a job), show a status, consume with a terminal answer | polls share one worker id; a terminal answer ends access | the sender is never asked what cannot be answered |
| Selective verification, `notes/run-selective-verification.ts` | `ai_runs` under a unique key | look up, create, call, record | at most one paid call per document and context; the recovery of a lease closes the row of an audit that may still be calling | paid once; no stored diagnosis rests on an answer that is not kept |
| Note reads and feedback, `notes/record-note-read.ts`, `audit-feedback.ts`, `record-reviewer-validation.ts` | read marks, feedback, validation | acknowledge, give feedback, validate, invalidate | the diagnosis changes under an open page | an acknowledgement belongs to the diagnosis that was shown |
| Push notifications, `src/server/push` | subscriptions, deliveries | subscribe, create, claim, send, record, take leases back | crash or database error between send and record; a device changes hands | bounded attempts; every duplicate has an interruption to explain it |
| Audit rules and policy, `src/lib/audit-harness` | none | pure functions from findings, coverage and verification to class and assurance | many combinations, one of which must not accuse or absolve | suspicion and full assurance rest on something that was kept |
| OpenRouter clients, `integrations/openrouter` | what one call of `extractInvoice` has in memory | models tried in sequence; windows of a long PDF read by two concurrent readers, repaired by two, consolidated | one reader fails while the other has a paid call in flight; a deficit that no reread closes; the deadline after a readable answer | every page in one window, read once and recorded; a readable answer is kept; the call ends |
| Works administration | `works` | create, edit, import | none shared with the pipeline | short transactions on one row |
| Authentication | none | role check in front of handlers | none | - |
| Service worker, `public/sw.js`, `components/pwa` | the registration, what each tab asked for, whether it is busy | install, wait, activate, SKIP_WAITING, reload | tabs share the workers; messages and events arrive late | a reload is one update, and not in the middle of work |
| Upload page, `features/public-upload` | view, note, requests in flight, sessionStorage | send a note, poll, answer, go on to another note, follow an older one, reload | a request that outlives the view that sent it | what is shown is of the note on screen |
| Other screens | what the API returned | rendering | none of their own | - |

**How they interact.** Everything meets in PostgreSQL. The upload creates the note and
its first job in one transaction; an `after()` callback, the queue worker, and status
polls then call `processProcessingJob`, which claims the job and runs extraction and
audit. The audit's final transaction stores the diagnosis, the questions, the settled
submission and the notifications. The sender's answers and the administrator's recovery
and reprocess put the note back into analysis with a new job. There are no messages
between processes: what is shared is rows, `version` columns compared by updates, the
lock columns of jobs, and one advisory lock.

The hazards of this code are listed in `PROJECT.json` with the line where each bites and
the properties that would catch it.

## 2. Modules

| Module | What it holds |
|---|---|
| `ProcessingQueue` | what the durable queue promises, without notes, leases or worker names: numbered attempts, one grant each |
| `NotePipeline` | one note, its jobs, its submissions, and the executions that work on them: one action per transaction of the code |
| `MCNotePipeline` | the sets TLC uses |
| `NotePipelineProofs` | types of `NotePipeline`, the inductive invariant of the fence and what follows from it, and that `NotePipeline` implements `ProcessingQueue` |
| `NotePipelineNoteProofs` | what becomes of the note: its diagnosis, its jobs, its questions and the answers to them |
| `ProcessingQueueProofs` | the promise of `ProcessingQueue` |
| `PushDelivery` | subscriptions, deliveries, and the senders that claim, send and record them; independent of `NotePipeline` but for the transaction that creates a notice |
| `PushDeliveryProofs` | types, one send per attempt, and the explanation of duplicates |
| `PaidLedger` | what the parts that buy calls of a model promise: written down before it is bought, bought at most once, final |
| `PaidCallProofs` | proofs about `WindowedExtraction`, `SelectiveVerification` and `ExtractionRuns` |
| `WindowedExtraction` | one long PDF read in windows; its windows implement `PaidLedger` |
| `ExtractionRuns` | the executions that read one original, their `ai_runs` rows and the checkpoint |
| `AuditDecision` | class and assurance of a diagnosis, as operators |
| `SelectiveVerification` | the audits of one reading around the verification they share; its rows implement `PaidLedger` |
| `UploadAdmission` | concurrent uploads counted under the advisory lock |
| `NoteAccess` | the capability of the sender and the read marks of reviewers, against a note that moves |
| `NoteAccessProofs` | its types and its three properties |
| `PwaUpdate` | tabs, the workers of the browser's registration, and reloads |
| `UploadPage` | the public upload page of one tab, its requests and its storage |
| `SenderProofs` | proofs about `PwaUpdate`, `UploadPage` and `UploadAdmission` |
| `MCParts` | the instance TLC checks: the eight smaller models, one of them in each behaviour |
| `PartsProofs` | the types of the composition, by those of the parts |

### Correspondence of `NotePipeline` with the code

State. `note` is the `notes` row: `status`, `processingStage` (`stage`), `version`,
`failureCode` by what the guards tell apart (`failure`), `auditResult` (`result`),
`contextRound` (`round`), whether and at which version `extractedData` was stored
(`reading`), and the capability (`token`). `diagnosed` is a history field: the reading
the stored diagnosis was computed from. `jobs` are the `processing_jobs` rows of the
note in creation order, `stale` standing for `lockedAt` older than the lease of six
minutes. `submission[j]` is the context submission re-analysed by job `j`; `asked` the
newest round with stored questions. `exec[w]` is what one call of
`processProcessingJob` holds in memory: where it is, its job, its attempt (read by
nothing in the code but the failure path; it makes attempts comparable with
`ProcessingQueue`), the version it will compare, the reading it audits, the failure it
is about to record. `upload` is the progress of `createNoteUpload` after its first
transaction.

Granularity. An action is one transaction, or one statement outside of a transaction,
or one provider call with the transaction that records its outcome; between any two of
them any other execution may run. Reads followed by a compare-and-set in the same
transaction are one action, because the update re-checks what was read. Two updates
re-check less than was read before them: the failure path of a job and the recovery of a
lease choose the note's next stage from a read at the start of the same transaction, and
the update repeats only part of the condition. The model takes the read as current there,
so an execution that moves the note between those two statements is not covered.

| Code | Actions |
|---|---|
| `claimProcessingJob` | `ClaimProcessingJob` |
| `runClaimedProcessingJobPipeline` | `FindNoteState`, `MarkAuditStarted` (an update by id with no condition) |
| `processNoteExtraction` | `InvalidConfiguration`, `ClaimNote`, `PersistExtraction`, `FailExtraction` |
| `processNoteAudit` | `LoadAuditContext`, `FinalizeAudit`, `DiscardAudit`, `FailAudit` |
| end of `processProcessingJob` | `CompleteJob`, `FailJob` (with `GiveUp`, `ScheduleRetry`, `ReleaseSubmission`, `ReturnJob`) |
| heartbeat timer | `Heartbeat` |
| `recoverExpiredProcessingJobLeases` | `LeaseExpires`, `RecoverLease` |
| `scheduleOrphanedNotesForRecovery` | `ScheduleOrphanedNote` |
| `scheduleNoteAuditRecovery`, `scheduleNoteReprocess` | same names |
| `submitContextAnswers` | `SubmitContext` |
| `createNoteUpload` | `SendFile`, `FileStored`, `UploadFails` |
| status route | `ClaimProcessingJob` by a poller, `ConsumeTerminalStatus` |
| environment | `Crash`, `DisturbDatabase`, and the `lease_loss` disjunct of `LeaseExpires` |

Failure codes are classes: `EXTRACTION` and `AUDIT` for every code with that prefix,
`UNREADABLE` for the one that ends as READ_FAILED, `DATABASE` for a driver code kept by
`pipelineFailureDetails`, `OTHER` for codes no guard looks at. What a document deserves
is nondeterministic (`Classes`): the pipeline is checked for every answer the models
may give.

Left out of `NotePipeline`: jobs of the isolated evaluation scripts; expiry of the
capability by time (a live token may be revoked or consumed, never expire); repeated
submissions with the same idempotency key (they change nothing); the verification, the
checkpoint and the expiry of the capability, which have modules of their own; deletion of
notes (the server never deletes one).

`Faults` says which faults a run admits: `crash`, `lease_loss` (a live execution frozen
for longer than the lease), `db_error` (a statement outside the failure path fails),
`storage` (upload or configuration failures). `Origins` says where the note comes from:
`uploading` (file not yet stored), `uploaded`, or `legacy` (a note without any job).

### Correspondence of `PushDelivery` with the code

`subscription[d]` is a row of `push_subscriptions`: a device that subscribes again by the
same endpoint renews its row, and one that was removed comes back as another row, so as
another member of `Devices`. `delivery[k]` is the row of a notice and a subscription
(they are unique together); `due` stands for `availableAt` reached, `stale` for
`lockedAt` older than two minutes. `exec[s]` is one call of `sendClaimedDelivery`. The
code locks with the random id of the dispatch, and a dispatch tries each delivery once:
the model's `lockedBy` is the call itself. `accepted` and `interrupted` are history.

| Code | Actions |
|---|---|
| subscriptions route; a removal by the test push | `Subscribe`, `Unsubscribe` |
| `createNotificationWithPushDeliveries`, in the audit's final transaction | `CreateNotification` |
| `claimDelivery` | `ClaimDelivery`, `ClaimFindsExpired` |
| `sendWebPush`, `classifyPushSendFailure` | `PushAccepted`, `PushFails` |
| rest of `sendClaimedDelivery` | `RecordAccepted`, `RecordAcceptedFails`, `RecordFailure`, `DropSubscription` |
| `dispatchPendingPushDeliveries`, sweep | `ReturnStaleDeliveries`, `CancelSpentDeliveries` |
| time and environment | `SubscriptionExpires`, `BackoffEnds`, `LeaseExpires`, `Crash` |

A claim that stops before the send (the notice lost its note, the count of unread notices
fails) leaves the lock as a crash does, and is part of `Crash`. Left out: who owns a
device, what a notice says, and a dispatch with push unconfigured, which does nothing.

### Correspondence of `NoteAccess`

`note` is the `notes` row as the public sees it, with its questions (`round`, `asked`,
`askedAt`) and its submission; `outcome` numbers the diagnoses, so a mark tells which one
it is of. The pipeline is reduced to the transactions that end, ask, fail and restart an
analysis; each writes the row under its lock and adds one to `version`. A poll of the
status route is three actions, the moments it goes to the database: `PollReads`,
`PollAnchors` (the expiry anchored at the question), `PollTells` (the update that consumes
the capability, `count === 1`). A reviewer's read is `OpenPage`, `CheckRead` (the version
compared inside the transaction, under `FOR UPDATE`), `MarkRead`. Time is counted in ticks
and the three lifetimes are constants.

| Code | Actions |
|---|---|
| status route | `PollReads`, `PollAnchors`, `PollTells` |
| `recordNoteRead`, `invalidateNoteReads` | `OpenPage`, `CheckRead`, `MarkRead`, `LoseRead`; `MarksForgotten` inside `Write` |
| `processNoteAudit`, failure of a job, recovery, reprocess | `AuditAsks`, `AuditEnds`, `AnalysisFails`, `RecoverAudit`, `Reprocess` |
| `submitContextAnswers` | `SubmitAnswers` |

### Correspondence of `UploadAdmission`

`CountFirst` is the count before the attachment is read; `AskLock`, `CountAgain`,
`CreateNote`, `CommitNote` are the transaction that holds `pg_advisory_xact_lock`, which
is released by the commit and by every failure. A note that is not committed is counted by
nobody but its own transaction. Both limits and the window are constants. Time is one
clock for every instance of the server: with clocks that differ the limit may be
exceeded by the skew, which the code does not claim to prevent.

### Correspondence of `SelectiveVerification` and `AuditDecision`

`row["primary"]` and `row["recovery"]` are the two `ai_runs` rows a reading may have, by
`idempotencyKey`. `audit[a]` is one call of `processNoteAudit` over that reading; several
are alive at once when a lease is lost. `Lookup`, `LookupRecovery` (the reads), `Create`
(the unique key) and `Raced` (the violation of it), `CallVerifier`, `VerifierAnswers`,
`RecordSuccess`, `RecordRefusal` follow `runSelectiveVerification`; any of the writes may
fail and `AuditDies` at any of them. `FinalizeAudit` is the final transaction of
`processNoteAudit`: the version the audit was loaded with decides (`current`), and a
diagnosis of a version that passed is discarded (AUDIT_CONFLICT). What an audit asks is a
member of `Requests`, and `AuditDecision` gives the class and the band of its answer:
`Decide` is the decision matrix, `Required` when a verification is called for, `Classify`
and `Assurance` the use `processNoteAudit` makes of the outcome.

`LeaseRecovered` is what the recovery of a lease does here
(`processing-worker.ts:193-264`): in one transaction it fails the rows of the job that are
RUNNING (`expired`, for WORKER_LEASE_EXPIRED) and gives the note another version, whether
the audit that owned them died or is only slow. An audit that goes on meets its row
closed: a success is written by id and turns it into SUCCEEDED, a refusal is written only
WHERE RUNNING and so is not kept, yet the audit uses it. The step with no row to close is
any other change of the note's version. A recovery that finds its note already COMPLETED
leaves the version alone; the final transaction asks for ANALYZING, so an audit of that
note is out of date all the same. Which job owns which row is left open: any running rows
may be closed.

| Code | Actions |
|---|---|
| `runSelectiveVerification` | `Lookup`, `LookupRecovery`, `Create`, `Raced`, `CallVerifier`, `VerifierAnswers`, `RecordSuccess`, `RecordRefusal` |
| `processNoteAudit` | `Begin`, `Diagnose` (inside the step that gives the outcome), `FinalizeAudit`, `AuditDies` |
| `recoverExpiredProcessingJobLeases` | `LeaseRecovered` |

### Correspondence of `WindowedExtraction`

Two coroutines of one process: a step is what runs between two `await`s. `TakeWindow` to
`RecordReadFailure` are the body of `readWindow`, `NextTarget` to `RecordRepairFailure` of
`repairWindow`, `SettleReading`, `SettleRepair` and the consolidation what awaits them. A
checkpoint is a write that may fail (`RecordStarted`, `RecordRead`, `RecordConsolidation`).
`bought` counts the calls of a window; `WindowEntry` maps reader and result to
`PaidLedger`. Which page deficits a window has is data (`Targets`).

### Correspondence of `ExtractionRuns`

`run[i]` are the EXTRACTION rows in order of creation, with the checkpoint they keep and
the fingerprint it is of (`Prints`: the source under the deployed configuration).
`execution[e]` is one call of `processNoteExtraction`: `ClaimOriginal`,
`LookForCheckpoint`, `CreateRun`, `ReadOriginal`, `CallFallback`, `KeepCheckpoint` (outside
the transaction, as lines 585-586 explain), `StoreReading`, and the two failure paths
`NoteFailure`, `RunFailure`. `ReadAnswers` is one round of `client.ts`: a complete answer
is given, a readable incomplete one is preserved when there is no other model or no time
left, anything else is refused. `spent` and `allowed` are history: a reading is excused
when an earlier one failed, could not be recorded, was of another configuration, or when
a lease was lost.

### Correspondence of `PwaUpdate`

`registration` is the browser's: at most one worker installing, one waiting, one active;
workers are named by their release. `tab[t]` is a page: the worker it was loaded `under`,
the one it knows to be `waiting`, whether it asked (`updateApplyRequestedRef`), whether it
is `busy` (`beginPwaCriticalActivity`). `FindUpdate`, `SeeWaiting`, `ApplyUpdate`,
`Connect`, `UserActs` and `ControllerChanges` are the handlers of `pwa-lifecycle.tsx`;
`EndInstall`, `ControlPasses` and `SkipWaiting` those of `sw.js`. `Release` is a deploy
and external.

### Correspondence of `UploadPage`

One event handler, the commit of its state and the effects of that commit are one step, as
React runs them. `screen` is the state of `PublicUploadFlow` with its refs, `polling` the
loop of `waitForNoteResult`, `uploading` and `sending` the requests that are not aborted
when the view changes. `stored` and `history` are sessionStorage, which is taken to be
available; an entry of the history is absent, listed or completed, and its limit of
twenty is left out. Guards on `isOnline` only disable buttons and are left out. The
server's part is reduced to what the page can tell (`ServerReceives`, `ServerTells`,
`ServerHears`, `ServerMoves`).

## 3. Runs

| Run | Instance | Question |
|---|---|---|
| `pipeline_answers` | 2 workers, 1 poll, 4 jobs, all classes, file stored or on its way, no faults | does every answer reach an analysis, and does an execution keep its note? |
| `pipeline_attempts` | 2 workers, 1 job, all faults, note still uploading or legacy | does the fence do what the abstract queue does? |
| `pipeline_zombies` | 2 workers, 2 jobs, lost leases | is a stale diagnosis ever stored over a newer reading? |
| `pipeline_crashes` | 2 workers, 2 jobs, crashes | does every note and every job settle? |
| `push_delivery` | 1 notice, 1 device, 3 senders, 4 attempts, all faults | is every duplicate explained, and does every delivery end? |
| `parts` | eight parts, one of them in each behaviour (below) | the properties of the smaller models |
| `violation_*` | the smallest instance that shows each | see section 6 |

`parts` checks `MCParts`, the union of eight specifications: the first step chooses one,
the others rest in an initial state, and the state graphs add up (1.22 million states)
instead of multiplying. The models have no common variable. The code's parts do share
rows: the note, which jobs, polls and audits write, and `ai_runs`, which the lease recovery
writes too. Each model has its own copy of the columns it needs, and what other parts write
to them is an action of it (`LeaseRecovered`, `AnalysisFails`, `Reprocess`, the lost leases
of `ExtractionRuns`), so the composition adds no interaction and is there for the checking
only. Its parts:

| Part | Instance | Question |
|---|---|---|
| `queue` | 3 workers, 2 jobs, limits 2 and 3 | do numbered attempts suffice for `GrantsAreUnique`? |
| `reading` | 5, 9 or 13 pages in windows of 4, plans of at most 3 windows, one recovered, two deficient, two deficits | is the document read once, recorded and consolidated whole, and does the reading end? |
| `original` | 2 executions, 3 runs, 2 configurations, a fallback model, lost leases and any write failing | is a paid reading used? |
| `verification` | 3 audits, 2 at once, two requests, off and enforce, leases recovered at any moment | is the verifier paid once, and what do its absence and its answers decide? |
| `admission` | 3 uploads, 2 works, limits 2 and 1, two ticks | is a window ever overrun? |
| `access` | 2 polls, 1 reviewer, 3 ticks, 6 versions | is an end told once, does an answer keep its expiry, and is a mark of the diagnosis shown? |
| `pages` | 2 tabs, 3 releases | is a reload an update? |
| `upload` | 2 submissions, 1 sending of answers | is what is shown of the note on screen? |

`CHECK_DEADLOCK FALSE` is stated everywhere: a note that is diagnosed, with its jobs
settled and its bound of jobs used up, has nothing left to do.

**Bounds and why they are enough.** `MaxJobs` is the only bound on the model; attempts
are bounded by the code (`maxAttempts` 2 or 3) and versions grow only with the actions
of finitely many attempts. Two executions are enough for every race here, since each
race is between the holder of an attempt and one usurper; a third would have to hold a
second job at once, which the creating handlers refuse while a job is unfinished. Four
jobs in `pipeline_answers` admit a first audit, answers, a recovery and a reprocess one
after another, and a second round of questions. One job in `pipeline_attempts` is enough
because the fence compares columns of one job row only. Two jobs in the zombie and crash
runs let a stale execution of one job meet the work of the next. Symmetry is used only
in runs without liveness properties. In `push_delivery` the four attempts are the
schema's; two deliveries meet only when a device is removed, which treats each alone, so
one delivery is enough; three senders are a holder, a frozen one before it and one before
that. The theorems about it hold for any sets.

In `parts`, 13 pages make a full plan of 3 windows and a last one shorter, 5 and 9 the
shorter plans whose last window is also short: an error of one in the plan loses a page of
each. Two readers and two repairers are what the code starts. Three uploads against limits
2 and 1 let one be refused by each limit while another is between count and commit. Three
audits are a first one, one beside it and one after both, so a row may be found running,
answered, refused or closed by a lease recovery, and a recovery may start over a call
still in flight. The two requests differ in the rules and the hypotheses together; shadow
mode, and requests that differ in one of the two, are left to the proofs, which are for
any `Starts` and any mode. Six versions let a note ask, be answered, fail, be
recovered and end with a poll and a page open since the first of them. Three releases let
one install while another waits and a third is active. `MaxRuns` and `MaxOriginal` let an
execution follow two failed ones.

**Fairness.** Weak fairness of `Advance(w)`: a process that does not crash runs on.
Weak fairness of the claims by `Workers`, of `LeaseExpires` and of `RecoverLease`: the
scheduler calls the worker endpoint every minute (`docs/operations/durable-processing.md`),
it sweeps expired leases first, then takes due jobs oldest first
(`processing-worker.ts` 76-91, 406-454). Backoff only delays. Administrators, senders,
polls and faults are under no obligation. `Crash` has no bound: a job that crashes spends
an attempt, and attempts are finite. For `PushDelivery`: both worker routes dispatch on
every call, so weak fairness of the sweeps and, for each delivery, of being tried by some
sender; of what a sender does once it has claimed; of backoff and leases running out. For
`WindowedExtraction`: weak fairness of each reader, of each repairer and of the stages,
since every `await` ends (provider calls have a deadline, writes succeed or fail) and no
crash is modelled there. The other parts have safety properties only.

## 4. Properties

- `WaitingJobsCanRun`, `AttemptsAreFenced`, `OneHolderPerJob`, `ImplementsQueue`: the
  columns `lockedBy` and RUNNING do the work of a fencing token.
- `DiagnosisMatchesReading`: the diagnosis stored was computed from the reading stored.
- `NoteInFlightHasJob`, `NoteSettles`, `JobsSettle`: nothing in analysis is forgotten.
- `QueuedSubmissionHasJob`, `AnswersAreHeard`, `SubmissionsSettle`: answers accepted are
  analysed or released.
- `RequestIsAnswerable`: a sender with a live capability is asked only what can be
  answered.
- `HolderKeepsNote`, `StoredReadingIsReused`, `DiagnosisReopenedByJob`: without faults,
  no execution loses the note it pays for but to the arrival of its file, reads twice, or
  reopens a diagnosis. Each is checked on the fault-free instance on purpose. Section 6
  shows `StoredReadingIsReused` failing after a crash; lost leases break
  `DiagnosisReopenedByJob`, since `markAuditStarted` checks nothing; crashes and lost
  leases let senders and administrators take the note from a late execution. The exception
  of `HolderKeepsNote` is real without any fault: the FILE_STORED transaction bumps the
  version under an extraction that a worker started early, and what that extraction paid
  for is discarded.

- `EachAttemptSendsOnce`, `DuplicatesAreExplained`, `DeliveriesSettle`: an attempt of a
  push delivery is one call of the push service, a device is sent a notice twice only
  when the earlier attempt was interrupted (crash, lost lease, lost answer, lost record),
  and every delivery is accepted, cancelled or removed in the end.

- `WindowsBoughtOnce`, `VerificationBuysOnce`: the windows of a reading and the
  verifications of an attachment implement `PaidLedger`, whoever races, crashes or
  resumes. An entry of the ledger may be given up (`Abandon`) while whoever reserved it is
  at work: the call is still bought once, and all that may come of it is a late answer.
- `ReadsAreRecordedFirst`, `ReadersSettleFirst`, `WholeDocumentConsolidated`: nothing is
  consolidated out of a read the database does not hold, with a reader still at work, or
  with a page missing. `EveryReadingEnds`: the rereads stop, by the memory of the targets
  tried.
- `ReadingsAreExcused`, `ReadableReadingKept`: a second payment for one original has a
  reason, and a readable answer survives what fails after it.
- `SuspicionIsBacked`, `VerifiedOrLimited`: a stored diagnosis of suspicion rests on
  evidence the database holds and on the question that was asked, and an attachment that
  called for a verification is not declared sound without one (`enforce` only, see section
  6). Both are about stored diagnoses: between the answer and the final transaction an
  audit may hold a refused answer no row keeps, and it is the version check that keeps
  such a diagnosis out of the note.
- `NoWindowOverrun`: no window of time holds more notes than the limits, of one work or of
  all.
- `EndIsToldOnce`, `AnswerIsFollowed`, `ReadsAreOfThisDiagnosis`: two polls cannot both
  tell an end; the time to follow an answer is not cut by a poll that read the question
  before it; a mark is not carried to another diagnosis.
- `EachReloadIsAnUpdate`: no loop of reloads. `EndIsOfNoteOnScreen`: an end, a failure of
  reading or a question is shown for the note on screen.

## 5. Proofs

Every invariant, action property and refinement that a passing run checks is also a
theorem, for every value of the constants that the ASSUMEs of the modules allow: any
executions, polls, jobs, classes, origins and faults for `NotePipeline`; any readers,
pages, audits, uploads, tabs for the others. The assumptions on the constants only say
that bounds are numbers and that null values are not members of the sets they stand
outside of. Where a theorem needs more, the hypothesis is in its statement and below.

### The jobs (`NotePipelineProofs`, `ProcessingQueueProofs`)

- `TypeCorrect`: `TypeOK` is inductive; one step per action.
- `SingleHolder`, `FencedAttempts`, `WaitingJobsAlwaysRun` rest on `FencingInv`. None of
  the three is inductive alone: that the holder's attempt is the current one needs that
  an execution never remembers an attempt its job has not reached, that a RUNNING job's
  lock names some execution, and that an older execution of the same worker id cannot
  exist. The last is the assumption `IdsIdentify`: either there are no status polls
  (every execution then has a worker id of its own), or no lease is lost under a live
  execution. Section 6 shows the assumption is needed.
- `QueueImplemented`: with `FencingInv`, every action maps to an action of
  `ProcessingQueue` or to a stutter. An execution that settles its job is `Settle`; one
  that finds it lost it, or crashes, is `Abandon`; `RecoverLease` is `Reclaim`;
  `UploadFails` is `Withdraw`; the handlers that create a job are `Enqueue`.
- `UniqueGrants`: the abstract queue never grants one attempt twice.

### The note (`NotePipelineNoteProofs`)

`NoteInv` holds whatever the faults: what an execution remembers fits where it is and the
type of its job (`ExecutionsInv`); at most one unfinished job may still read the document,
and a job has a submission exactly when it re-analyses one (`JobsInv`); the columns of the
note agree with each other (`RowInv`). The steps of the pipeline are reduced to what they
do to the row (leave it, move its stage, store a reading, store an outcome), to the jobs
(nothing is reopened, no row changes its type) and to memory, with a lemma for each, so
that the invariants below look at kinds of steps and not at every handler.

- `DiagnosisOfReading` is proved under either of two hypotheses, with an invariant for
  each. Without database errors (`MatchInv`): while a job that may read the document is
  open, a note with a result has the diagnosis of the reading it has and is not in a
  failure that allows another reading. Under `Steady`, below (`OutdatedInv`): when the
  diagnosis is older than the reading, the note is in analysis or failed and nobody is on
  the way to read it or to fail it as unreadable. The property needs one of the two: with
  three executions, two jobs, both faults and a note from before the jobs, TLC finds 28
  steps to a note that ends as READ_FAILED of one reading with the result of another. An
  attempt asks for context and loses its lease; the next two decide to read, the first of
  them losing its lease too; the job of the answers is interrupted by a database error,
  with a failure that allows a reading; both late executions then claim the note in turn,
  and the failure of the one is recorded over the reading of the other.
- `InFlightIsCarried` and `RequestsAreAnswerable` assume `Steady`: no lease is lost to a
  living execution, and no upload fails under a worker that started before the file was
  stored. Processes may crash and the database may fail. The first rests on `HeldInv`
  (whoever has a job in memory holds it, so that its failure is recorded with the note's)
  and `CarriedInv` (the property, with the attempts left to carry the note on). The second
  adds `RoundInv` (an unfinished job of answers is of the note's round) and `QuestionInv`
  (an open question finds the note stopped for it, with nobody about to read it).
- `QueuedSubmissionsHaveJobs`, `AnswersAreAlwaysHeard`, `HoldersKeepTheNote`,
  `StoredReadingsAreReused`, `OnlyNewWorkReopens` assume `Undisturbed`: nothing fails, or
  only the storage, and then the file was stored before the analysis. A file on its way
  that does arrive is included. They rest on `OneAtWorkInv`: one job at a time has an execution or waits
  for one, the note is as that job left it (`Fits`), a queued submission is that job's, and
  no two jobs answer one round; the arrival of the file moves only the version under it.
  The hypothesis is as weak as it can be in faults: TLC violates each of the five with any
  single one of crash, lost lease and database error (two executions, three jobs, nine to
  twenty states), and the last three with an upload that fails under a worker. Section 6
  says what the code does there.

### What is bought (`PaidCallProofs`)

- `ReadingTyped`, `WholeDocumentRead`, `ReadsRecordedFirst`, `SettledBeforeGoingOn`, for
  any number of pages, readers and repairers and any size of window, from `ReadingInv`.
  That nothing is left out needs the arithmetic of the plan (windows of `WindowSize` cover
  the pages without a gap or an overlap) and that a window taken off the cursor is
  recorded or in the hands of one reader while nobody failed (`TakenInv`); that a reader's
  place says what was bought of its window is `HandsInv`.
- `ReadingImplementsLedger`: every step of the reading is a step of `PaidLedger` for its
  window, or a stutter; the same invariant gives the guard of buying.
- `VerificationTyped`, `SuspicionBacked`, `VerifiedOrLimitedHolds`, from
  `VerificationInv`. An audit between creating a row and recording its answer is alone with
  it, and the row is RUNNING with its request or was closed by a lease recovery, in which
  case the audit is of a version that passed (`OwnersInv`); what is kept in a row fits its
  status (`RowsInv`); a recovery exists only over a primary row that failed or was closed
  (`RecoveryInv`). `DiagnosesInv` speaks of diagnoses that are stored or can still be, not
  of every one an audit holds: that is what the version check is for. A row that keeps an
  answer goes on keeping it, so what backed a diagnosis goes on backing it.
- `VerificationImplementsLedger`: the rows implement `PaidLedger`. Each step of an audit
  moves one row and one entry (`AuditImplements`); the recovery of a lease closes the row
  that runs, which by `RecoveryInv` is at most one, as `Abandon` (`LeaseImplements`).
- `ExtractionTyped`, `ReadableKept`, `ReadingsExcused`, from `ExtractionInv`. That no
  reading is paid without a reason is a statement about a sum, and is not inductive: what
  was spent plus what is still on its way must be within what was allowed. `DebtInv`
  counts it: the executions that lost their lease and may yet pay (`MayPay`) or hide a
  checkpoint by creating a run over it (`MayHide`), and what the holder owes at the place
  where it is (`MayOwe`). Each action moves one execution, and the lemma for its kind says
  how the three counts move.

### What the sender uses (`SenderProofs`, `NoteAccessProofs`)

- `PwaTyped`, `ReloadsAreUpdates`: the workers of a registration are in the order of their
  releases (`WorkersInv`), and a page that is to hear of a change was loaded under an older
  worker (`UnderInv`).
- `PageTyped`, `EndOfNoteOnScreen`: whatever names a note on the page or in its storage was
  received by the server (`KnownInv`); an end remembered, or on its way, is the end of that
  note (`EndsInv`); the polling that runs is of the note on screen (`FollowsInv`).
- `AdmissionTyped`, `WindowsNotOverrun`: what a transaction counted under the lock still
  holds when it creates its note (`CountInv`), because every other transaction that
  creates one waits for the lock, and time only takes notes out of the window. The
  invariant speaks of the window that ends at any moment (`WindowsInv`).
- `AccessTyped`, `EndToldOnce`, `AnswerFollowed`, `ReadsOfThisDiagnosis` rest on
  `AccessInv`. That an end is told once needs `ToldInv` (after it the token is not issued,
  and nothing issues one again); what a poll is about to tell must still be so unless the
  version moved (`PollInv`), which every writer of the row respects by adding to the
  version; `QueuedInv` says where the row is while answers wait; `SeenInv` that a page, and
  a transaction holding the row's lock, saw the diagnosis the row still has if the version
  did not move.

### What the reviewers receive (`PushDeliveryProofs`)

- `AttemptsSendOnce` and `DuplicatesExplained` rest on `AttemptInv`. Neither is inductive:
  that the claim starts an attempt nobody has used needs that no sender remembers, and no
  history holds, an attempt above the row's, and that an accepted attempt without an
  interruption is the row's current one, with the row at its end or a sender about to
  record it. The actions fall into five kinds of steps (quiet, claim, heard, ended, lease
  expired), each with one lemma.

### The composition (`PartsProofs`)

- `PartsTyped`: the type invariant of the composition, for any values of the constants. It
  follows from the types of the parts, since a behaviour of `MCParts` is one of each part.

### Only model-checked

The liveness properties, `NoteSettles`, `JobsSettle`, `SubmissionsSettle`,
`DeliveriesSettle` and `EveryReadingEnds`: fairness and ENABLED are beyond the prover. The
disagreements of section 6 are runs, not theorems.

## 6. Disagreements between the code and what it says

Each is the subject of a run that expects a violation, and of an entry under "findings".

1. `violation_shared_poll_id`. All status polls of a note claim as
   `public-status:<noteId>`. If a poll's execution loses its lease while alive, the next
   poll claims the next attempt under the same name, and both pass every fence.
2. `violation_crash_after_question`. A crash between storing a request for context and
   closing the job makes the recovered attempt go to the extraction, not on from the
   stored reading.
3. `violation_round_asked_again`. A failed re-analysis followed by an audit recovery may
   leave the note asking for the round the sender already answered.
4. `violation_refused_retry`. A driver error before the extraction leaves a failure code
   with which the promised retry is refused.
5. `violation_reload_while_busy`. `docs/PRD_PWA_APP.md:216` promises no automatic reload
   during an upload or mutation; activity is looked at when the update is asked for, not
   when the controller changes, and a tab that asked for an earlier update reloads with a
   later one.
6. `violation_receipt_unconfirmed`. The sender leaves answers in flight for another note;
   when they return, the page says that note was received while it is being sent.

Met while modelling, without a run of their own:

- In shadow mode `.env.example` and `docs/harness/README.md:86-88` say the diagnosis is
  not changed; a complete verification still raises the assurance (`verification.ts:817`)
  and marks the coverage as resolved (`process-note-audit.ts:632-635`). `VerifiedOrLimited`
  is therefore stated for `enforce`.
- Feedback is tied to the newest SUCCEEDED audit run (`audit-feedback.ts:74`), which need
  not be the one whose diagnosis was stored.
- The retried attempt of a note that stopped for context (2 above), refused by `claimNote`,
  can fail the note after the sender answered. The job of the answers then finds a note that no
  longer matches, gives up without releasing the submission (`processing-jobs.ts:393`),
  and `QueuedSubmissionHasJob` fails; a crash is enough for it.
- A process that dies during a verification leaves its row RUNNING until the lease of its
  job is recovered, which fails the row (WORKER_LEASE_EXPIRED); a job that ended otherwise
  (a write that failed) leaves it RUNNING. In both cases later audits of the attachment go
  without a verification unless an operator recovers it, or the answer was only late and
  turned the row into SUCCEEDED.
- A refusal that comes after the lease recovery is used by the audit that called though no
  row keeps it (`run-selective-verification.ts:442, 475-478`). The diagnosis is discarded
  because the version of the note moved; nothing in `runSelectiveVerification` says so.
- An operator may start a recovery over a call closed with its lease and still in flight:
  two calls are then paid, each under a row of its own, as `PaidLedger` allows after
  `Abandon`.
- After the sender's last poll the version is one higher, so a read or a feedback sent by
  a page loaded before it is refused with 409 once.
- A note that fails after it was read and marked keeps its marks while it is FAILED;
  `ReadsAreOfThisDiagnosis` speaks of notes with a diagnosis on show.
- `repairWindow` is awaited with `Promise.all` (`windowed-extraction.ts:217`): a rejected
  repairer ends the repair while the other may have a paid reread in flight, which the
  comment at 132-133 rules out for the readers only. `EveryReadingEnds` covers it, the
  cost does not.
- A zombie's run hides the checkpoint of the latest failed run, which is looked up by
  `createdAt` and must be FAILED: a lost lease may cost two readings
  (`ReadingsAreExcused` allows them).
- A tab whose waiting worker was activated by another tab keeps its request: its update
  button does nothing, and the next update reloads it unasked. `sw.js` deletes on
  activation every cache but its own, the precache of a worker still installing included.
- The answer that ends a note is given once. When the poll that received it is aborted,
  the page can only show the note as unavailable. A late upload overwrites the answers
  being typed for another note.
- The status route's branch for a note whose jobs are exhausted is unreachable, since a
  job that ends with an exhausted attempt closes its note.

## 7. Plan

In order of importance. Everything but the owners of devices in the third row and the
last row is done.

| Step | Module | Content | Runs and theorems |
|---|---|---|---|
| 1 | `ProcessingQueue`, `NotePipeline` | queue, executions, leases, answers, recovery, upload | `pipeline_*` |
| 2 | proofs of step 1 | types, fencing, refinement, abstract queue | `NotePipelineProofs`, `ProcessingQueueProofs` |
| 3 | `PushDelivery` | claims, lost recordings, leases of two minutes; devices that change hands are left | `push_delivery`, `PushDeliveryProofs` |
| 4 | `SelectiveVerification`, `AuditDecision`, `PaidLedger` | unique key, paid call, quarantine of rejected answers, isolated recovery, decision matrix | `parts`, `PaidCallProofs` |
| 5 | `UploadAdmission` | advisory lock, window, two limits | `parts`, `SenderProofs` |
| 6 | `NoteAccess` | token, expiry, consumption, revocation, reads | `parts`, `NoteAccessProofs` |
| 7 | `WindowedExtraction`, `ExtractionRuns` | window plan, readers, repair, checkpoint | `parts`, `PaidCallProofs` |
| 8 | `PwaUpdate`, `UploadPage` | tabs and workers; the sender's page | `parts`, two violations, `SenderProofs` |
| 9 | note invariants of `NotePipeline` | the diagnosis, the jobs of a note in analysis, questions and answers | `NotePipelineNoteProofs` |
| 10 | the composition | every part of `MCParts` is what its module specifies | `PartsProofs` |
| 11 | what a crash leaves | which of the note's promises survive a crash alone, as properties weaker than those of `Undisturbed`; the safety halves of the liveness properties (what every unfinished job and delivery is waiting for) | theorems, where they hold |

## 8. Not modelled

Formatting, wording, logging, HTTP status codes and authorization in front of handlers;
prompts and parsing of model answers, whose outcomes are nondeterministic; the matching of
text and amounts that finds a document's evidence (its result is an input of
`AuditDecision`); storage paths and file signatures; feedback and validations, which
append a row under the version check `NoteAccess` already has for reads; the owners of push
devices; the fetch cache and push display of `sw.js`; works administration, which shares no
state with the pipeline; every screen but the public upload page.

About half of the source is generated (`src/generated/prisma`, 52 thousand lines of
types and queries) and a further 16 thousand lines render what the API returns: neither
has control of its own to model, and the map covers none of them. What it covers is the
server's transactions, the provider clients and the state machines of the browser.
