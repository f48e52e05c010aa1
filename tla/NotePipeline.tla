----------------------------- MODULE NotePipeline -----------------------------
(***************************************************************************)
(* The life of one note (an uploaded attachment) and of the durable jobs   *)
(* that extract and audit it: src/src/server/notes.                        *)
(*                                                                         *)
(* Several executions of processProcessingJob run at once: callbacks of    *)
(* the upload, context and reprocess routes, the queue worker, and public  *)
(* status polls.  They share nothing but the database, so every action     *)
(* below is one database transaction (or one statement outside of any), or *)
(* one provider call with the transaction that records its outcome, and    *)
(* anything may happen between two of them.                                *)
(***************************************************************************)
EXTENDS Naturals, FiniteSets

CONSTANTS
    Workers,      \* executions started under a worker id of their own
    Pollers,      \* executions started by status polls: they share one worker id
    PollId,       \* that id, `public-status:<noteId>`
    NoWorker,     \* lockedBy = null
    MaxJobs,      \* bound: jobs the note may ever be given
    Origins,      \* where the note may come from: an upload or an old note
    Classes,      \* the classifications an audit may end with
    Faults        \* which faults the run admits

ASSUME PipelineAssumption ==
    /\ Workers \cap Pollers = {}
    /\ PollId \notin Workers
    /\ NoWorker \notin Workers \cup {PollId}
    /\ MaxJobs \in Nat \ {0}
    /\ Origins \subseteq {"uploading", "uploaded", "legacy"}
    /\ Classes \subseteq {"OK", "SUSPICIOUS", "NEEDS_CONTEXT", "INSUFFICIENT", "READ_FAILED"}
    /\ Faults \subseteq {"crash", "lease_loss", "db_error", "storage"}

VARIABLES
    note,         \* the notes row
    jobs,         \* the processing_jobs rows of the note
    submission,   \* submission[j]: the context submission that job j re-analyses
    asked,        \* the newest round with stored context asked, 0 if none
    exec,         \* exec[w]: what execution w has in memory
    upload        \* how far the upload request has come

vars == <<note, jobs, submission, asked, exec, upload>>

Executions == Workers \cup Pollers
JobIds     == 1..MaxJobs
WorkerIdShared(w) == PollId                    \* mutant: one name for everybody
WorkerId(w) == IF w \in Pollers THEN PollId ELSE w

(* Failure codes by what the code tells apart.  EXTRACTION and AUDIT stand  *)
(* for every code with that prefix, UNREADABLE for                          *)
(* EXTRACTION_DOCUMENT_UNREADABLE, DATABASE for a driver code such as P2024,*)
(* OTHER for codes no guard looks at.                                       *)
Codes == {"NONE", "EXTRACTION", "UNREADABLE", "AUDIT", "PIPELINE_FAILED",
          "DATABASE", "OTHER"}

JobStatuses == {"ABSENT", "PENDING", "RUNNING", "SUCCEEDED", "FAILED", "CANCELLED"}
NoteStatuses == {"RECEIVED", "PROCESSING", "OK", "PENDING_VALIDATION",
                 "READ_FAILED", "FAILED"}
Stages == {"RECEIVED", "EXTRACTING", "ANALYZING", "COMPLETED", "FAILED"}
Results == {"NONE", "OK", "SUSPICIOUS", "NEEDS_CONTEXT", "READ_FAILED"}
Steps == {"idle", "start", "mark", "claim", "read", "audit", "judge", "complete", "fail"}

(* `reading` is the version at which extractedData was stored, 0 when it is *)
(* null; `diagnosed` is the reading the stored diagnosis was computed from. *)
NoteRows ==
    [status : NoteStatuses, stage : Stages, version : Nat, failure : Codes,
     result : Results, round : Nat, reading : Nat, diagnosed : Nat,
     token : {"live", "revoked"}]
JobRows ==
    [status : JobStatuses, type : {"FULL_AUDIT", "CONTEXT_REANALYSIS"},
     attempt : Nat, max : Nat, lockedBy : Workers \cup {PollId, NoWorker},
     stale : BOOLEAN]                  \* lockedAt is older than the lease
Submissions == [round : Nat, status : {"NONE", "QUEUED", "COMPLETED", "FAILED"}]
Memory ==
    [step : Steps, job : 0..MaxJobs, attempt : Nat, version : Nat,
     reading : Nat, code : Codes]

Idle == [step |-> "idle", job |-> 0, attempt |-> 0, version |-> 0,
         reading |-> 0, code |-> "NONE"]
NoJob == [status |-> "ABSENT", type |-> "FULL_AUDIT", attempt |-> 0, max |-> 0,
          lockedBy |-> NoWorker, stale |-> FALSE]
NewJob(type, max) ==
    [NoJob EXCEPT !.status = "PENDING", !.type = type, !.max = max]
NoSubmission == [round |-> 0, status |-> "NONE"]

TypeOK ==
    /\ note \in NoteRows
    /\ jobs \in [JobIds -> JobRows]
    /\ submission \in [JobIds -> Submissions]
    /\ asked \in Nat
    /\ exec \in [Executions -> Memory]
    /\ upload \in {"sending", "sent", "done", "failed"}

(* A note just received, with the job its upload created, or an old note    *)
(* that never had one.                                                      *)
Init ==
    /\ note = [status |-> "RECEIVED", stage |-> "RECEIVED", version |-> 1,
               failure |-> "NONE", result |-> "NONE", round |-> 0, reading |-> 0,
               diagnosed |-> 0, token |-> "live"]
    /\ submission = [j \in JobIds |-> NoSubmission]
    /\ asked = 0
    /\ exec = [w \in Executions |-> Idle]
    /\ \E origin \in Origins :
         /\ upload = IF origin = "uploading" THEN "sending" ELSE "done"
         /\ jobs = [j \in JobIds |-> IF j = 1 /\ origin # "legacy"
                                     THEN NewJob("FULL_AUDIT", 2) ELSE NoJob]

--------------------------------------------------------------------------------
(* Guards and outcomes shared by the handlers.                              *)

(* One more version of the note: every handler that writes the row does.   *)
Bump(n) == [n EXCEPT !.version = @ + 1]

(* A failure that already spent the provider's own retries is not retried   *)
(* by the job; every other failure is, while an attempt is left.            *)
Bounded(code) == code \in {"EXTRACTION", "UNREADABLE", "AUDIT"}
ExhaustedLate(attempt, max, code) == attempt > max \/ Bounded(code)    \* mutant
Exhausted(attempt, max, code) == attempt >= max \/ Bounded(code)

HasDiagnosis(n) ==
    /\ n.stage = "COMPLETED"
    /\ n.status \notin {"RECEIVED", "PROCESSING", "FAILED"}
HasFailed(n) == n.stage = "FAILED" /\ n.status = "FAILED"

CanClaimOnce(j) ==                             \* mutant: failed jobs stay behind
    jobs[j].status = "PENDING" /\ jobs[j].attempt < jobs[j].max
CanClaimSettled(j) ==                          \* mutant: anything that is not running
    jobs[j].status \notin {"ABSENT", "RUNNING"} /\ jobs[j].attempt < jobs[j].max
CanClaim(j) ==
    /\ jobs[j].status \in {"PENDING", "FAILED"}
    /\ jobs[j].attempt < jobs[j].max

HoldsRunning(w) ==                             \* mutant: lockedBy is not compared
    exec[w].job \in JobIds /\ jobs[exec[w].job].status = "RUNNING"
(* The fence of every write an execution makes to its job. *)
Holds(w) ==
    /\ exec[w].job \in JobIds
    /\ jobs[exec[w].job].status = "RUNNING"
    /\ jobs[exec[w].job].lockedBy = WorkerId(w)

NoteInStage(w, stage) ==                       \* mutant: the version is not compared
    note.stage = stage /\ note.status = "PROCESSING"
(* The fence of every write an execution makes to the note but one. *)
NoteUnchangedSince(w, stage) ==
    /\ note.stage = stage
    /\ note.status = "PROCESSING"
    /\ note.version = exec[w].version

AnswersIgnored(w) == FALSE                     \* mutant: the submission is not passed on
Answers(w) == jobs[exec[w].job].type = "CONTEXT_REANALYSIS"

AuditOnlyAfterFailure(w) ==                    \* mutant: ANALYZING is forgotten
    Answers(w) \/ (note.reading # 0 /\ note.stage = "FAILED")
ShouldRunAuditWithoutExtraction(w) ==
    \/ Answers(w)
    \/ /\ note.reading # 0
       /\ note.stage \in {"ANALYZING", "FAILED"} \/ note.failure = "AUDIT"

(* A generic interruption is retried only on behalf of a job that runs.     *)
CanExtract(w) ==
    LET retryable ==
          \/ note.failure \in {"EXTRACTION", "UNREADABLE"}
          \/ /\ note.failure = "PIPELINE_FAILED"
             /\ jobs[exec[w].job].status = "RUNNING"
             /\ jobs[exec[w].job].type = "FULL_AUDIT"
    IN  \/ note.status = "RECEIVED"
        \/ note.status = "FAILED" /\ retryable
        \/ note.status = "PROCESSING" /\ note.stage = "EXTRACTING" /\ retryable

CanScheduleAuditRecovery ==
    \/ note.status \in {"PROCESSING", "FAILED"} /\ note.stage \in {"ANALYZING", "FAILED"}
    \/ note.status = "READ_FAILED" /\ note.stage = "COMPLETED"

(* Jobs are numbered in the order they are created. *)
NextJob(j) ==
    /\ jobs[j].status = "ABSENT"
    /\ \A i \in 1..(j - 1) : jobs[i].status # "ABSENT"
Latest(j) ==
    /\ jobs[j].status # "ABSENT"
    /\ \A i \in (j + 1)..MaxJobs : jobs[i].status = "ABSENT"

(* The note's round has questions.  Rounds only grow, so that a round that   *)
(* has some is the newest that does.                                        *)
RoundHasQuestions == note.round # 0 /\ note.round = asked

SubmittedFor(r) == {j \in JobIds : submission[j].status # "NONE" /\ submission[j].round = r}

(* A running job leaves RUNNING and drops its lock. *)
CloseJob(j, status) ==
    [jobs EXCEPT ![j].status = status, ![j].lockedBy = NoWorker, ![j].stale = FALSE]

Continue(w, step) == exec' = [exec EXCEPT ![w].step = step]
FailWith(w, code) == exec' = [exec EXCEPT ![w].step = "fail", ![w].code = code]

--------------------------------------------------------------------------------
(* An execution of processProcessingJob.                                    *)

(* claimProcessingJob.  A status poll tries only the newest job of a note   *)
(* whose capability it presents; any other execution may try any job.       *)
ClaimProcessingJob(w, j) ==
    /\ exec[w] = Idle
    /\ CanClaim(j)
    /\ w \in Pollers => Latest(j) /\ note.token = "live" /\ upload = "done"
    /\ jobs' = [jobs EXCEPT ![j].status = "RUNNING", ![j].attempt = @ + 1,
                            ![j].lockedBy = WorkerId(w), ![j].stale = FALSE]
    /\ exec' = [exec EXCEPT ![w] = [Idle EXCEPT !.step = "start", !.job = j,
                                                !.attempt = jobs[j].attempt + 1]]
    /\ UNCHANGED <<note, submission, asked, upload>>

(* findNoteState: the branch is chosen on what this read returns. *)
FindNoteState(w) ==
    /\ exec[w].step = "start"
    /\ Continue(w, IF ShouldRunAuditWithoutExtraction(w) THEN "mark" ELSE "claim")
    /\ UNCHANGED <<note, jobs, submission, asked, upload>>

(* markAuditStarted: an update by id, with no condition on what it finds. *)
MarkAuditStarted(w) ==
    /\ exec[w].step = "mark"
    /\ note' = Bump([note EXCEPT !.stage = "ANALYZING", !.status = "PROCESSING",
                                 !.failure = "NONE"])
    /\ Continue(w, "audit")
    /\ UNCHANGED <<jobs, submission, asked, upload>>

(* claimNote, or the configuration check before it fails. *)
ClaimNote(w) ==
    /\ exec[w].step = "claim"
    /\ \/ /\ CanExtract(w)
          /\ note' = Bump([note EXCEPT !.stage = "EXTRACTING", !.status = "PROCESSING",
                                       !.failure = "NONE"])
          /\ exec' = [exec EXCEPT ![w].step = "read", ![w].version = note.version + 1]
       \/ /\ ~CanExtract(w)
          /\ FailWith(w, "EXTRACTION")
          /\ UNCHANGED note
    /\ UNCHANGED <<jobs, submission, asked, upload>>

InvalidConfiguration(w) ==
    /\ exec[w].step = "claim"
    /\ "storage" \in Faults
    /\ FailWith(w, "EXTRACTION")
    /\ UNCHANGED <<note, jobs, submission, asked, upload>>

(* The document was read: persistExtraction stores it if the note is still  *)
(* at the version this execution claimed.                                   *)
PersistExtraction(w) ==
    /\ exec[w].step = "read"
    /\ upload # "sending"
    /\ \/ /\ NoteUnchangedSince(w, "EXTRACTING")
          /\ note' = Bump([note EXCEPT !.stage = "ANALYZING", !.reading = note.version + 1])
          /\ Continue(w, "audit")
       \/ /\ ~NoteUnchangedSince(w, "EXTRACTING")
          /\ FailWith(w, "EXTRACTION")
          /\ UNCHANGED note
    /\ UNCHANGED <<jobs, submission, asked, upload>>

(* The document could not be read: recordExtractionFailure. *)
FailExtraction(w) ==
    /\ exec[w].step = "read"
    /\ \E code \in {"EXTRACTION", "UNREADABLE"} :
         /\ code = "UNREADABLE" => upload # "sending"
         /\ note' = IF NoteUnchangedSince(w, "EXTRACTING")
                    THEN Bump([note EXCEPT !.failure = code]) ELSE note
         /\ FailWith(w, code)
    /\ UNCHANGED <<jobs, submission, asked, upload>>

(* loadAuditContext: the version that the finalizing transaction will expect. *)
LoadAuditContext(w) ==
    /\ exec[w].step = "audit"
    /\ \/ /\ note.stage = "ANALYZING" /\ note.reading # 0
          /\ exec' = [exec EXCEPT ![w].step = "judge", ![w].version = note.version,
                                  ![w].reading = note.reading]
       \/ /\ ~(note.stage = "ANALYZING" /\ note.reading # 0)
          /\ FailWith(w, "AUDIT")
    /\ UNCHANGED <<note, jobs, submission, asked, upload>>

(* The round a request for context belongs to, and whether it is the first  *)
(* request of that round: only then are its questions stored.               *)
AsksNewRound(w, class, asks) ==
    /\ class = "NEEDS_CONTEXT" /\ asks
    /\ ~Answers(w) /\ ~RoundHasQuestions
TargetRound(w, class, asks) ==
    IF AsksNewRound(w, class, asks) /\ note.round = 0 THEN 1 ELSE note.round

StatusAsClass(class) == class                  \* mutant: the result stored as a status
StatusOf(class) ==
    CASE class = "OK" -> "OK"
      [] class = "SUSPICIOUS" -> "PENDING_VALIDATION"
      [] class = "NEEDS_CONTEXT" -> "PROCESSING"
      [] class \in {"INSUFFICIENT", "READ_FAILED"} -> "READ_FAILED"

MayConcludeAnyhow(w, class, asks) ==           \* mutant: questions are not required
    Answers(w) => class # "NEEDS_CONTEXT"
(* The classifications an audit can end with.  After answers it never asks  *)
(* again, and a first audit that asks has questions to ask.                 *)
MayConclude(w, class, asks) ==
    /\ Answers(w) => class # "NEEDS_CONTEXT"
    /\ class = "NEEDS_CONTEXT" /\ note.round = 0 => asks

(* The finalizing transaction, or finalizeReadFailure: the diagnosis, the   *)
(* questions and the submission change together, and only if the note is    *)
(* still at the version that was audited.                                   *)
FinalizeAudit(w, class, asks) ==
    /\ exec[w].step = "judge"
    /\ NoteUnchangedSince(w, "ANALYZING")
    /\ MayConclude(w, class, asks)
    /\ note' = Bump([note EXCEPT
          !.stage = "COMPLETED", !.status = StatusOf(class),
          !.result = IF class = "INSUFFICIENT" THEN "READ_FAILED" ELSE class,
          !.failure = CASE class = "INSUFFICIENT" -> "AUDIT"
                        [] class = "READ_FAILED" -> "OTHER"
                        [] OTHER -> "NONE",
          !.round = TargetRound(w, class, asks),
          !.diagnosed = exec[w].reading])
    /\ asked' = IF AsksNewRound(w, class, asks) THEN TargetRound(w, class, asks) ELSE asked
    /\ submission' = IF Answers(w)
                     THEN [submission EXCEPT ![exec[w].job].status = "COMPLETED"]
                     ELSE submission
    /\ Continue(w, "complete")
    /\ UNCHANGED <<jobs, upload>>

(* AUDIT_CONFLICT: a result for an older version leaves the note alone. *)
DiscardAudit(w) ==
    /\ exec[w].step = "judge"
    /\ ~NoteUnchangedSince(w, "ANALYZING")
    /\ FailWith(w, "AUDIT")
    /\ UNCHANGED <<note, jobs, submission, asked, upload>>

(* The provider failed, or asked for context without a question. *)
FailAudit(w) ==
    /\ exec[w].step = "judge"
    /\ note' = IF NoteUnchangedSince(w, "ANALYZING")
               THEN Bump([note EXCEPT !.failure = "AUDIT"]) ELSE note
    /\ FailWith(w, "AUDIT")
    /\ UNCHANGED <<jobs, submission, asked, upload>>

(* An execution that lost its job finds out here, and writes nothing. *)
CompleteJob(w) ==
    /\ exec[w].step = "complete"
    /\ jobs' = IF Holds(w)
               THEN CloseJob(exec[w].job, "SUCCEEDED")
               ELSE jobs
    /\ exec' = [exec EXCEPT ![w] = Idle]
    /\ UNCHANGED <<note, submission, asked, upload>>

--------------------------------------------------------------------------------
(* How a failed attempt ends, for the note.                                 *)

GiveUp(n, code) ==
    Bump([n EXCEPT
      !.failure = code,
      !.stage = IF code = "UNREADABLE" THEN "COMPLETED" ELSE "FAILED",
      !.status = IF code = "UNREADABLE" THEN "READ_FAILED" ELSE "FAILED"])

ScheduleRetry(n, stage, code) ==
    Bump([n EXCEPT !.failure = code, !.stage = stage, !.status = "PROCESSING"])

KeepSubmission(j) == UNCHANGED submission      \* mutant: it is never released
(* A submission still waiting for its re-analysis is released. *)
ReleaseSubmission(j) ==
    submission' = IF submission[j].status = "QUEUED"
                  THEN [submission EXCEPT ![j].status = "FAILED"] ELSE submission

CancelJob(j, gone) == CloseJob(j, "CANCELLED")   \* mutant: no second attempt
(* The job of a failed attempt is given back or cancelled. *)
ReturnJob(j, gone) == CloseJob(j, IF gone THEN "CANCELLED" ELSE "FAILED")

(* The transaction that records a failed attempt.  It returns early, the    *)
(* submission untouched, when the note is already diagnosed or failed.      *)
FailJob(w) ==
    LET j    == exec[w].job
        code == exec[w].code
        gone == Exhausted(exec[w].attempt, jobs[j].max, code)
        leaveNote == \/ HasDiagnosis(note)
                     \/ gone /\ HasFailed(note)
                     \/ gone /\ note.status \notin {"RECEIVED", "PROCESSING", "FAILED"}
                     \/ ~gone /\ note.stage = "COMPLETED"
    IN  /\ exec[w].step = "fail"
        /\ exec' = [exec EXCEPT ![w] = Idle]
        /\ \/ /\ ~Holds(w)
              /\ UNCHANGED <<note, jobs, submission>>
           \/ /\ Holds(w) /\ leaveNote
              /\ jobs' = ReturnJob(j, gone)
              /\ UNCHANGED <<note, submission>>
           \/ /\ Holds(w) /\ ~leaveNote /\ gone
              /\ jobs' = ReturnJob(j, TRUE)
              /\ note' = GiveUp(note, code)
              /\ ReleaseSubmission(j)
           \/ /\ Holds(w) /\ ~leaveNote /\ ~gone
              /\ jobs' = ReturnJob(j, FALSE)
              /\ note' = ScheduleRetry(note,
                           IF Answers(w) \/ note.reading # 0 THEN "ANALYZING"
                           ELSE "EXTRACTING", code)
              /\ UNCHANGED submission
        /\ UNCHANGED <<asked, upload>>

(* A statement fails: a driver error keeps its own code, one without a code *)
(* becomes PIPELINE_FAILED.  Neither counts as bounded.                     *)
DisturbDatabase(w) ==
    /\ "db_error" \in Faults
    /\ exec[w].step \notin {"idle", "fail"}
    /\ \E code \in {"DATABASE", "PIPELINE_FAILED"} : FailWith(w, code)
    /\ UNCHANGED <<note, jobs, submission, asked, upload>>

(* The process dies; what it held in memory is gone, its lock stays. *)
Crash(w) ==
    /\ "crash" \in Faults
    /\ exec[w] # Idle
    /\ exec' = [exec EXCEPT ![w] = Idle]
    /\ UNCHANGED <<note, jobs, submission, asked, upload>>

--------------------------------------------------------------------------------
(* Leases, and the queue worker's recovery of the ones that ran out.        *)

(* The heartbeat's update by lockedBy: it serves every execution under that *)
(* worker id.                                                               *)
Heartbeat(w) ==
    /\ exec[w] # Idle /\ Holds(w)
    /\ jobs[exec[w].job].stale
    /\ jobs' = [jobs EXCEPT ![exec[w].job].stale = FALSE]
    /\ UNCHANGED <<note, submission, asked, exec, upload>>

(* Six minutes pass without a heartbeat: every execution under the job's    *)
(* worker id died, or (lease_loss) one was frozen.                          *)
LeaseExpires(j) ==
    /\ jobs[j].status = "RUNNING" /\ ~jobs[j].stale
    /\ \/ "lease_loss" \in Faults
       \/ \A w \in Executions : ~(exec[w].job = j /\ Holds(w))
    /\ jobs' = [jobs EXCEPT ![j].stale = TRUE]
    /\ UNCHANGED <<note, submission, asked, exec, upload>>

(* One step of recoverExpiredProcessingJobLeases.  A note that waits for    *)
(* context (PROCESSING, COMPLETED) does not count as diagnosed here.  The   *)
(* same transaction fails the runs of the job that still run: they are no   *)
(* part of this module, see LeaseRecovered in SelectiveVerification and the *)
(* lost leases of ExtractionRuns.                                           *)
RecoverLease(j) ==
    LET gone == jobs[j].attempt >= jobs[j].max
    IN  /\ jobs[j].status = "RUNNING" /\ jobs[j].stale
        /\ \/ /\ HasDiagnosis(note)
              /\ jobs' = CloseJob(j, "SUCCEEDED")
              /\ UNCHANGED <<note, submission>>
           \/ /\ ~HasDiagnosis(note) /\ note.stage = "COMPLETED"
              /\ jobs' = ReturnJob(j, gone)
              /\ UNCHANGED <<note, submission>>
           \/ /\ note.stage # "COMPLETED" /\ gone
              /\ jobs' = ReturnJob(j, TRUE)
              /\ note' = GiveUp(note, "OTHER")
              /\ ReleaseSubmission(j)
           \/ /\ note.stage # "COMPLETED" /\ ~gone
              /\ jobs' = ReturnJob(j, FALSE)
              /\ note' = ScheduleRetry(note,
                           IF note.reading # 0 THEN "ANALYZING" ELSE "EXTRACTING",
                           IF note.reading # 0 /\ note.stage = "ANALYZING"
                           THEN "AUDIT" ELSE "EXTRACTION")
              /\ UNCHANGED submission
        /\ UNCHANGED <<asked, exec, upload>>

--------------------------------------------------------------------------------
(* Handlers that create a job.                                              *)

Waiting(j) == jobs[j].status = "PENDING"       \* mutant: running jobs do not block
Unfinished(j) ==
    \/ jobs[j].status \in {"PENDING", "RUNNING"}
    \/ jobs[j].status = "FAILED" /\ jobs[j].attempt < jobs[j].max

(* scheduleNoteAuditRecovery: audit the stored reading again.  Its          *)
(* idempotency key only repeats what the unfinished jobs already refuse.    *)
ScheduleNoteAuditRecovery(j) ==
    /\ NextJob(j)
    /\ note.reading # 0
    /\ CanScheduleAuditRecovery
    /\ \A i \in JobIds : ~Unfinished(i)
    /\ note' = Bump([note EXCEPT !.stage = "ANALYZING", !.status = "PROCESSING",
                                 !.failure = "NONE", !.result = "NONE"])
    /\ jobs' = [jobs EXCEPT ![j] = NewJob("FULL_AUDIT", 2)]
    /\ UNCHANGED <<submission, asked, exec, upload>>

(* scheduleNoteReprocess: read the original again, in a new context round.  *)
ScheduleNoteReprocess(j) ==
    /\ NextJob(j)
    /\ \A i \in JobIds : /\ jobs[i].status \notin {"PENDING", "RUNNING"}
                          /\ submission[i].status # "QUEUED"
    /\ note.status = "PROCESSING" => note.stage = "COMPLETED"
    /\ note' = Bump([note EXCEPT !.stage = "RECEIVED", !.status = "RECEIVED",
                                 !.failure = "NONE", !.result = "NONE",
                                 !.reading = 0, !.round = asked + 1,
                                 !.token = "revoked"])
    /\ jobs' = [i \in JobIds |->
                  IF i = j THEN NewJob("FULL_AUDIT", 2)
                  ELSE IF jobs[i].status = "FAILED"
                  THEN [jobs[i] EXCEPT !.status = "CANCELLED"] ELSE jobs[i]]
    /\ UNCHANGED <<submission, asked, exec, upload>>

(* scheduleOrphanedNotesForRecovery, for a note that never had a job. *)
ScheduleOrphanedNote ==
    /\ note.status = "RECEIVED"
    /\ \A i \in JobIds : jobs[i].status = "ABSENT"
    /\ jobs' = [jobs EXCEPT ![1] = NewJob("FULL_AUDIT", 3)]
    /\ UNCHANGED <<note, submission, asked, exec, upload>>

(* submitContextAnswers: the public capability and the version are compared *)
(* by the same update that puts the note back into analysis.                *)
SubmitContext(j) ==
    /\ NextJob(j)
    /\ note.token = "live" /\ upload = "done"
    /\ note.result = "NEEDS_CONTEXT"
    /\ RoundHasQuestions
    /\ SubmittedFor(note.round) = {}
    /\ note' = Bump([note EXCEPT !.stage = "ANALYZING", !.status = "PROCESSING",
                                 !.failure = "NONE"])
    /\ jobs' = [jobs EXCEPT ![j] = NewJob("CONTEXT_REANALYSIS", 2)]
    /\ submission' = [submission EXCEPT ![j] = [round |-> note.round, status |-> "QUEUED"]]
    /\ UNCHANGED <<asked, exec, upload>>

--------------------------------------------------------------------------------
(* The public status route consumes the capability with a terminal answer.  *)

SubmissionStatus(r) ==
    IF SubmittedFor(r) = {} THEN "NONE"
    ELSE submission[CHOOSE j \in SubmittedFor(r) : TRUE].status

(* What statusFor shows the sender: a question, an end, or work in progress. *)
AsksSender ==
    /\ note.status \notin {"READ_FAILED", "FAILED"}
    /\ note.result = "NEEDS_CONTEXT"
    /\ RoundHasQuestions /\ SubmittedFor(note.round) = {}
EndsForSender ==
    \/ note.status \in {"READ_FAILED", "FAILED"}
    \/ note.result \in {"READ_FAILED", "OK", "SUSPICIOUS"}
    \/ /\ note.result = "NEEDS_CONTEXT"
       /\ ~AsksSender /\ SubmissionStatus(note.round) # "QUEUED"

ConsumeTerminalStatus ==
    /\ note.token = "live" /\ upload = "done"
    /\ EndsForSender
    /\ note' = Bump([note EXCEPT !.token = "revoked"])
    /\ UNCHANGED <<jobs, submission, asked, exec, upload>>

--------------------------------------------------------------------------------
(* createNoteUpload after its first transaction, which made the note and a  *)
(* job that any worker may already claim.                                   *)

SendFile ==
    /\ upload = "sending"
    /\ upload' = "sent"
    /\ UNCHANGED <<note, jobs, submission, asked, exec>>

(* The FILE_STORED transaction updates the note whatever it has become. *)
FileStored ==
    /\ upload = "sent"
    /\ upload' = "done"
    /\ note' = Bump([note EXCEPT !.failure = "NONE"])
    /\ UNCHANGED <<jobs, submission, asked, exec>>

(* markNoteAsFailed, after Storage or the second transaction failed: the    *)
(* jobs are cancelled with their locks in place.                            *)
UploadFails ==
    /\ "storage" \in Faults
    /\ upload \in {"sending", "sent"}
    /\ upload' = "failed"
    /\ note' = GiveUp(note, "OTHER")
    /\ jobs' = [j \in JobIds |->
                  IF jobs[j].status \in {"PENDING", "RUNNING", "FAILED"}
                  THEN [jobs[j] EXCEPT !.status = "CANCELLED"] ELSE jobs[j]]
    /\ UNCHANGED <<submission, asked, exec>>

--------------------------------------------------------------------------------
(* The queue that the job rows and the executions implement. *)
Queue == INSTANCE ProcessingQueue WITH
    Workers <- Executions, AttemptLimits <- {2, 3},
    job <- [j \in JobIds |-> [status |-> jobs[j].status, attempt |-> jobs[j].attempt,
                              max |-> jobs[j].max]],
    grant <- [w \in Executions |-> [job |-> exec[w].job, attempt |-> exec[w].attempt]]

(* What an execution does next, faults aside. *)
Advance(w) ==
    \/ FindNoteState(w) \/ MarkAuditStarted(w)
    \/ ClaimNote(w) \/ PersistExtraction(w) \/ FailExtraction(w)
    \/ LoadAuditContext(w) \/ DiscardAudit(w) \/ FailAudit(w)
    \/ \E class \in Classes, asks \in BOOLEAN : FinalizeAudit(w, class, asks)
    \/ CompleteJob(w) \/ FailJob(w)

Next ==
    \/ \E w \in Executions :
         \/ \E j \in JobIds : ClaimProcessingJob(w, j)
         \/ Advance(w)
         \/ InvalidConfiguration(w) \/ DisturbDatabase(w) \/ Crash(w)
         \/ Heartbeat(w)
    \/ \E j \in JobIds :
         \/ LeaseExpires(j) \/ RecoverLease(j)
         \/ ScheduleNoteAuditRecovery(j) \/ ScheduleNoteReprocess(j)
         \/ SubmitContext(j)
    \/ ScheduleOrphanedNote \/ ConsumeTerminalStatus
    \/ SendFile \/ FileStored \/ UploadFails

Spec == Init /\ [][Next]_vars

(* The process runs on until it crashes; the queue worker is run again and  *)
(* again, so that it sweeps expired leases and claims every job that may    *)
(* run (docs/operations/durable-processing.md).  Nothing obliges an admin,  *)
(* a sender or a poll to act.                                               *)
FairSpec ==
    /\ Spec
    /\ \A w \in Executions : WF_vars(Advance(w))
    /\ \A j \in JobIds : /\ WF_vars(\E w \in Workers : ClaimProcessingJob(w, j))
                         /\ WF_vars(LeaseExpires(j)) /\ WF_vars(RecoverLease(j))
--------------------------------------------------------------------------------
(* Properties.                                                              *)

(* A job waiting in the queue can be started, and a running one is locked:  *)
(* no job is left FAILED with its attempts spent, the state that the status *)
(* route (route.ts:133-175) and the recoveries also prepare for.            *)
WaitingJobsCanRun ==
    \A j \in JobIds :
      /\ jobs[j].attempt <= jobs[j].max
      /\ jobs[j].status \in {"PENDING", "FAILED"} => jobs[j].attempt < jobs[j].max
      /\ jobs[j].status = "RUNNING" => jobs[j].lockedBy # NoWorker

(* `lockedBy` and RUNNING fence the attempts of a job: an execution whose   *)
(* lease was lost does not pass for the one that replaced it                *)
(* (processing-jobs.ts:331-339, 349-371).                                   *)
AttemptsAreFenced ==
    \A w \in Executions :
      Holds(w) => exec[w].attempt = jobs[exec[w].job].attempt

(* Two executions never hold the same job (docs/harness/README.md:73).      *)
OneHolderPerJob ==
    \A v, w \in Executions :
      Holds(v) /\ Holds(w) /\ exec[v].job = exec[w].job => v = w

(* A stored diagnosis was computed from the stored reading, however many    *)
(* executions read and audited the note meanwhile                           *)
(* (process-note-audit.ts:745-777).                                         *)
DiagnosisMatchesReading ==
    note.stage = "COMPLETED" /\ note.result # "NONE" => note.diagnosed = note.reading

InFlight == note.status \in {"RECEIVED", "PROCESSING"} /\ note.stage # "COMPLETED"

(* A note in analysis always has a job that will still carry it on          *)
(* (processing-jobs.ts:342-473, processing-worker.ts:193-303).              *)
NoteInFlightHasJob ==
    InFlight => \/ \E j \in JobIds : Unfinished(j)
                \/ \A j \in JobIds : jobs[j].status = "ABSENT"

(* A submission waits only for a job that will still run                    *)
(* (processing-worker.test.ts:47).                                          *)
QueuedSubmissionHasJob ==
    \A j \in JobIds : submission[j].status = "QUEUED" => Unfinished(j)

(* While answers wait for their re-analysis, no diagnosis is stored that    *)
(* did not see them (context-questions.ts:311-396).                         *)
AnswersAreHeard ==
    HasDiagnosis(note) =>
      \A j \in SubmittedFor(note.round) : submission[j].status # "QUEUED"

(* A round that was answered is not asked again                             *)
(* (process-note-audit.ts:672-674).                                         *)
AnsweredRoundIsClosed ==
    note.stage = "COMPLETED" /\ note.result = "NEEDS_CONTEXT"
      => SubmittedFor(note.round) = {}

(* A sender who still holds the capability of a note that stopped for       *)
(* context finds the questions to answer (process-note-audit.ts:664-668).   *)
RequestIsAnswerable ==
    /\ note.stage = "COMPLETED" /\ note.result = "NEEDS_CONTEXT"
    /\ SubmittedFor(note.round) = {} /\ note.token = "live"
    => AsksSender

(* While an execution that holds its job reads or audits, nobody else writes *)
(* the note, so that what it is paying for can be stored; but the upload of *)
(* the file may still end, and then the reading or the audit is discarded   *)
(* (process-note-extraction.ts:371-398, process-note-audit.ts:745-777,      *)
(* create-note-upload.ts:272-300).                                          *)
HolderKeepsNote ==
    [][\A w \in Executions :
         /\ Holds(w) /\ exec[w].step \in {"read", "judge"}
         /\ exec'[w] = exec[w] /\ note' # note
         => FileStored]_vars

(* A diagnosis is dropped only by a handler that schedules new work, never   *)
(* by an execution (processing-jobs.ts:317-327).                            *)
DiagnosisReopenedByJob ==
    [][HasDiagnosis(note) /\ ~HasDiagnosis(note')
         => \E j \in JobIds : NextJob(j) /\ jobs'[j].status = "PENDING"]_vars

(* A full audit whose reading is stored goes on from that reading           *)
(* (docs/operations/durable-processing.md:16).                              *)
StoredReadingIsReused ==
    \A w \in Executions : Holds(w) /\ exec[w].step = "claim" => note.reading = 0

(* A retry that the sender was promised is not refused when it comes        *)
(* (processing-jobs.ts:427-428).                                            *)
RetryMayExtract ==
    \A w \in Executions : Holds(w) /\ exec[w].step = "claim" => CanExtract(w)

(* The queue worker carries every note in analysis to a result, a request   *)
(* for context or a failure, whichever processes die on the way             *)
(* (processing-worker.ts:113-316, 406-454).                                 *)
NoteSettles == InFlight ~> ~InFlight

(* Every job that may still run settles: no attempt is returned for ever    *)
(* (processing-worker.ts:76-91, processing-jobs.ts:235-245).                *)
JobsSettle == \A j \in JobIds : Unfinished(j) ~> ~Unfinished(j)

(* Answers that were accepted are analysed, or released as failed           *)
(* (processing-jobs.ts:436-449, process-note-audit.ts:857-862).             *)
SubmissionsSettle ==
    \A j \in JobIds : submission[j].status = "QUEUED" ~> submission[j].status # "QUEUED"

(* The job rows and the executions are a ProcessingQueue: lockedBy and      *)
(* RUNNING do the work of its numbered attempts.                            *)
ImplementsQueue == Queue!Spec
================================================================================
