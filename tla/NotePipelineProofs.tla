-------------------------- MODULE NotePipelineProofs --------------------------
(***************************************************************************)
(* What TLAPS proves about the jobs and executions of NotePipeline, for    *)
(* any number of executions, jobs and attempts and any set of faults.      *)
(*                                                                         *)
(* First the types.  Then that the attempts of a job are fenced: an        *)
(* execution holding a job runs its current attempt and is alone in        *)
(* holding it, so that lockedBy and RUNNING do the work of the numbered    *)
(* attempts of ProcessingQueue, which the pipeline implements.  The fence  *)
(* needs the worker ids to identify executions: every execution has an id  *)
(* of its own, or a lease is never taken from an execution that is still   *)
(* alive.  What becomes of the note is in NotePipelineNoteProofs.          *)
(***************************************************************************)
EXTENDS NotePipeline, TLAPS

--------------------------------------------------------------------------------
(* Rows and memory stay in their types under the updates the handlers make. *)

LEMMA NoJobTyped == NoJob \in JobRows
BY PipelineAssumption DEF NoJob, JobRows, JobStatuses

LEMMA NewJobTyped ==
    ASSUME NEW type \in {"FULL_AUDIT", "CONTEXT_REANALYSIS"}, NEW max \in Nat
    PROVE  NewJob(type, max) \in JobRows
BY NoJobTyped DEF NewJob, JobRows, JobStatuses

LEMMA CloseJobTyped ==
    ASSUME jobs \in [JobIds -> JobRows], NEW j \in JobIds, NEW status \in JobStatuses
    PROVE  CloseJob(j, status) \in [JobIds -> JobRows]
<1>1. [jobs[j] EXCEPT !.status = status, !.lockedBy = NoWorker, !.stale = FALSE] \in JobRows
  BY DEF JobRows
<1> QED BY <1>1 DEF CloseJob

LEMMA IdleTyped == Idle \in Memory
BY PipelineAssumption DEF Idle, Memory, Steps, Codes

LEMMA MemoryStepTyped ==
    ASSUME NEW m \in Memory, NEW step \in Steps
    PROVE  [m EXCEPT !.step = step] \in Memory
BY DEF Memory

LEMMA ContinueTyped ==
    ASSUME exec \in [Executions -> Memory], NEW w \in Executions, NEW step \in Steps,
           Continue(w, step)
    PROVE  exec' \in [Executions -> Memory]
BY MemoryStepTyped DEF Continue

LEMMA FailWithTyped ==
    ASSUME exec \in [Executions -> Memory], NEW w \in Executions, NEW code \in Codes,
           FailWith(w, code)
    PROVE  exec' \in [Executions -> Memory]
<1>1. [exec[w] EXCEPT !.step = "fail", !.code = code] \in Memory
  BY DEF Memory, Steps
<1> QED BY <1>1 DEF FailWith

(* What an execution remembers of the note it read or claimed. *)
LEMMA RecallTyped ==
    ASSUME NEW m \in Memory, NEW step \in Steps, NEW v \in Nat, NEW r \in Nat
    PROVE  /\ [m EXCEPT !.step = step, !.version = v] \in Memory
           /\ [m EXCEPT !.step = step, !.version = v, !.reading = r] \in Memory
BY DEF Memory

LEMMA NoteFields ==
    ASSUME NEW n \in NoteRows
    PROVE  n.version \in Nat /\ n.reading \in Nat /\ n.round \in Nat
BY DEF NoteRows

LEMMA ReadTyped ==
    ASSUME NEW n \in NoteRows, NEW stage \in Stages, NEW r \in Nat
    PROVE  [n EXCEPT !.stage = stage, !.reading = r] \in NoteRows
BY DEF NoteRows

LEMMA BumpTyped == ASSUME NEW n \in NoteRows PROVE Bump(n) \in NoteRows
BY DEF Bump, NoteRows

LEMMA FailureTyped ==
    ASSUME NEW n \in NoteRows, NEW code \in Codes
    PROVE  [n EXCEPT !.failure = code] \in NoteRows
BY DEF NoteRows

(* A note moved to another stage and status, with a failure code. *)
LEMMA MovedTyped ==
    ASSUME NEW n \in NoteRows, NEW stage \in Stages, NEW status \in NoteStatuses,
           NEW code \in Codes
    PROVE  /\ [n EXCEPT !.stage = stage, !.status = status, !.failure = code] \in NoteRows
           /\ [n EXCEPT !.failure = code, !.stage = stage, !.status = status] \in NoteRows
BY DEF NoteRows

LEMMA GiveUpTyped ==
    ASSUME NEW n \in NoteRows, NEW code \in Codes
    PROVE  GiveUp(n, code) \in NoteRows
BY MovedTyped, BumpTyped DEF GiveUp, Stages, NoteStatuses

LEMMA ScheduleRetryTyped ==
    ASSUME NEW n \in NoteRows, NEW stage \in Stages, NEW code \in Codes
    PROVE  ScheduleRetry(n, stage, code) \in NoteRows
BY MovedTyped, BumpTyped DEF ScheduleRetry, NoteStatuses

LEMMA ReturnJobTyped ==
    ASSUME jobs \in [JobIds -> JobRows], NEW j \in JobIds, NEW gone \in BOOLEAN
    PROVE  ReturnJob(j, gone) \in [JobIds -> JobRows]
BY CloseJobTyped DEF ReturnJob, JobStatuses

LEMMA ReleaseSubmissionTyped ==
    ASSUME submission \in [JobIds -> Submissions], NEW j \in JobIds, ReleaseSubmission(j)
    PROVE  submission' \in [JobIds -> Submissions]
<1>1. [submission[j] EXCEPT !.status = "FAILED"] \in Submissions
  BY DEF Submissions
<1> QED BY <1>1 DEF ReleaseSubmission

--------------------------------------------------------------------------------
LEMMA InitTyped == Init => TypeOK
<1> SUFFICES ASSUME Init PROVE TypeOK
    OBVIOUS
<1>1. note \in NoteRows
  BY DEF Init, NoteRows, NoteStatuses, Stages, Codes, Results
<1>2. jobs \in [JobIds -> JobRows]
  BY NoJobTyped, NewJobTyped DEF Init
<1>3. submission \in [JobIds -> Submissions]
  BY DEF Init, NoSubmission, Submissions
<1>4. exec \in [Executions -> Memory]
  BY IdleTyped DEF Init
<1> QED BY <1>1, <1>2, <1>3, <1>4 DEF Init, TypeOK

(* An execution's steps keep the types. *)
LEMMA ExecutionTyped ==
    ASSUME TypeOK, NEW w \in Executions, Advance(w)
    PROVE  TypeOK'
<1> USE DEF TypeOK
<1> DEFINE next == note.version + 1
<1>0. next \in Nat
  BY NoteFields
<1>1. CASE FindNoteState(w)
  BY <1>1, ContinueTyped DEF FindNoteState, Steps
<1>2. CASE MarkAuditStarted(w)
  <2>1. note' \in NoteRows
    BY <1>2, MovedTyped, BumpTyped DEF MarkAuditStarted, Stages, NoteStatuses, Codes
  <2> QED BY <1>2, <2>1, ContinueTyped DEF MarkAuditStarted, Steps
<1>3. CASE ClaimNote(w)
  <2>0. [note EXCEPT !.stage = "EXTRACTING", !.status = "PROCESSING", !.failure = "NONE"]
          \in NoteRows
    BY MovedTyped DEF Stages, NoteStatuses, Codes
  <2>1. note' \in NoteRows
    BY <1>3, <2>0, BumpTyped DEF ClaimNote
  <2>2. [exec[w] EXCEPT !.step = "read", !.version = next] \in Memory
    <3> HIDE DEF next
    <3> QED BY <1>0, RecallTyped DEF Steps
  <2>3. exec' \in [Executions -> Memory]
    BY <1>3, <2>2, FailWithTyped DEF ClaimNote, Codes
  <2> QED BY <1>3, <2>1, <2>3 DEF ClaimNote
<1>4. CASE PersistExtraction(w)
  <2>1. [note EXCEPT !.stage = "ANALYZING", !.reading = next] \in NoteRows
    <3> HIDE DEF next
    <3> QED BY <1>0, ReadTyped DEF Stages
  <2>2. note' \in NoteRows
    BY <1>4, <2>1, BumpTyped DEF PersistExtraction
  <2>3. exec' \in [Executions -> Memory]
    BY <1>4, ContinueTyped, FailWithTyped DEF PersistExtraction, Codes, Steps
  <2> QED BY <1>4, <2>2, <2>3 DEF PersistExtraction
<1>5. CASE FailExtraction(w)
  <2>1. PICK code \in {"EXTRACTION", "UNREADABLE"} :
          /\ note' = IF NoteUnchangedSince(w, "EXTRACTING")
                     THEN Bump([note EXCEPT !.failure = code]) ELSE note
          /\ FailWith(w, code)
    BY <1>5 DEF FailExtraction
  <2>2. note' \in NoteRows
    BY <2>1, FailureTyped, BumpTyped DEF Codes
  <2>3. exec' \in [Executions -> Memory]
    BY <2>1, FailWithTyped DEF Codes
  <2> QED BY <1>5, <2>2, <2>3 DEF FailExtraction
<1>6. CASE LoadAuditContext(w)
  <2>1. [exec[w] EXCEPT !.step = "judge", !.version = note.version,
                        !.reading = note.reading] \in Memory
    BY NoteFields, RecallTyped DEF Steps
  <2>2. exec' \in [Executions -> Memory]
    BY <1>6, <2>1, FailWithTyped DEF LoadAuditContext, Codes
  <2> QED BY <1>6, <2>2 DEF LoadAuditContext
<1>7. CASE DiscardAudit(w)
  BY <1>7, FailWithTyped DEF DiscardAudit, Codes
<1>8. CASE FailAudit(w)
  <2>1. note' \in NoteRows
    BY <1>8, FailureTyped, BumpTyped DEF FailAudit, Codes
  <2> QED BY <1>8, <2>1, FailWithTyped DEF FailAudit, Codes
<1>9. ASSUME NEW class \in Classes, NEW asks \in BOOLEAN, FinalizeAudit(w, class, asks)
      PROVE  TypeOK'
  <2> DEFINE n == [note EXCEPT
          !.stage = "COMPLETED", !.status = StatusOf(class),
          !.result = IF class = "INSUFFICIENT" THEN "READ_FAILED" ELSE class,
          !.failure = CASE class = "INSUFFICIENT" -> "AUDIT"
                        [] class = "READ_FAILED" -> "OTHER"
                        [] OTHER -> "NONE",
          !.round = TargetRound(w, class, asks),
          !.diagnosed = exec[w].reading]
  <2>1. class \in {"OK", "SUSPICIOUS", "NEEDS_CONTEXT", "INSUFFICIENT", "READ_FAILED"}
    BY PipelineAssumption
  <2>2. StatusOf(class) \in NoteStatuses
    BY <2>1 DEF StatusOf, NoteStatuses
  <2>3. TargetRound(w, class, asks) \in Nat
    BY DEF TargetRound, NoteRows
  <2>4. (IF class = "INSUFFICIENT" THEN "READ_FAILED" ELSE class) \in Results
    BY <2>1 DEF Results
  <2>5. (CASE class = "INSUFFICIENT" -> "AUDIT"
           [] class = "READ_FAILED" -> "OTHER"
           [] OTHER -> "NONE") \in Codes
    BY <2>1 DEF Codes
  <2>6. exec[w].reading \in Nat
    BY DEF Memory
  <2>7. n \in NoteRows
    BY <2>2, <2>3, <2>4, <2>5, <2>6 DEF NoteRows, Stages
  <2>8. note' \in NoteRows
    BY <1>9, <2>7, BumpTyped DEF FinalizeAudit
  <2>9. asked' \in Nat
    BY <1>9, <2>3 DEF FinalizeAudit
  <2>10. [submission[exec[w].job] EXCEPT !.status = "COMPLETED"] \in Submissions
         \/ exec[w].job \notin JobIds
    BY DEF Submissions
  <2>11. submission' \in [JobIds -> Submissions]
    BY <1>9, <2>10 DEF FinalizeAudit
  <2> QED BY <1>9, <2>8, <2>9, <2>11, ContinueTyped DEF FinalizeAudit, Steps
<1>10. CASE CompleteJob(w)
  <2>1. jobs' \in [JobIds -> JobRows]
    BY <1>10, CloseJobTyped DEF CompleteJob, Holds, JobStatuses
  <2> QED BY <1>10, <2>1, IdleTyped DEF CompleteJob
<1>11. CASE FailJob(w)
  <2>1. exec[w].code \in Codes
    BY DEF Memory
  <2>2. jobs' \in [JobIds -> JobRows]
    BY <1>11, ReturnJobTyped DEF FailJob, Holds, Exhausted, Bounded
  <2>3. note' \in NoteRows
    BY <1>11, <2>1, GiveUpTyped, ScheduleRetryTyped DEF FailJob, Stages
  <2>4. submission' \in [JobIds -> Submissions]
    BY <1>11, ReleaseSubmissionTyped DEF FailJob, Holds
  <2> QED BY <1>11, <2>2, <2>3, <2>4, IdleTyped DEF FailJob
<1> QED
  BY <1>1, <1>2, <1>3, <1>4, <1>5, <1>6, <1>7, <1>8, <1>9, <1>10, <1>11 DEF Advance

LEMMA LeaseTyped ==
    ASSUME jobs \in [JobIds -> JobRows], NEW j \in JobIds, NEW stale \in BOOLEAN
    PROVE  [jobs EXCEPT ![j].stale = stale] \in [JobIds -> JobRows]
<1>1. [jobs[j] EXCEPT !.stale = stale] \in JobRows
  BY DEF JobRows
<1> QED BY <1>1

LEMMA ClaimTyped ==
    ASSUME TypeOK, NEW w \in Executions, NEW j \in JobIds, ClaimProcessingJob(w, j)
    PROVE  TypeOK'
<1> USE DEF TypeOK
<1> DEFINE next == jobs[j].attempt + 1
<1>1. next \in Nat
  BY DEF JobRows
<1>2. WorkerId(w) \in Workers \cup {PollId, NoWorker}
  BY DEF WorkerId, Executions
<1>3. [jobs[j] EXCEPT !.status = "RUNNING", !.attempt = next,
                      !.lockedBy = WorkerId(w), !.stale = FALSE] \in JobRows
  <2> HIDE DEF next
  <2> QED BY <1>1, <1>2 DEF JobRows, JobStatuses
<1>4. j \in 0..MaxJobs
  BY PipelineAssumption DEF JobIds
<1>5. [Idle EXCEPT !.step = "start", !.job = j, !.attempt = next] \in Memory
  <2> HIDE DEF next
  <2> QED BY <1>1, <1>4, IdleTyped DEF Memory, Steps
<1> QED BY <1>3, <1>5 DEF ClaimProcessingJob

LEMMA RecoverTyped ==
    ASSUME TypeOK, NEW j \in JobIds, RecoverLease(j)
    PROVE  TypeOK'
<1> USE DEF TypeOK
<1>1. (jobs[j].attempt >= jobs[j].max) \in BOOLEAN
  OBVIOUS
<1>2. jobs' \in [JobIds -> JobRows]
  BY <1>1, CloseJobTyped, ReturnJobTyped DEF RecoverLease, JobStatuses
<1>3. note' \in NoteRows
  BY GiveUpTyped, ScheduleRetryTyped DEF RecoverLease, Stages, Codes
<1>4. submission' \in [JobIds -> Submissions]
  BY ReleaseSubmissionTyped DEF RecoverLease
<1> QED BY <1>2, <1>3, <1>4 DEF RecoverLease

(* The handlers that create a job. *)
LEMMA SchedulingTyped ==
    ASSUME TypeOK, NEW j \in JobIds,
           \/ ScheduleNoteAuditRecovery(j) \/ ScheduleNoteReprocess(j) \/ SubmitContext(j)
    PROVE  TypeOK'
<1> USE DEF TypeOK
<1>1. CASE ScheduleNoteAuditRecovery(j)
  <2>1. [note EXCEPT !.stage = "ANALYZING", !.status = "PROCESSING",
                     !.failure = "NONE", !.result = "NONE"] \in NoteRows
    BY ZenonT(30) DEF NoteRows, Stages, NoteStatuses, Codes, Results
  <2> QED BY <1>1, <2>1, BumpTyped, NewJobTyped DEF ScheduleNoteAuditRecovery
<1>2. CASE ScheduleNoteReprocess(j)
  <2> DEFINE round == asked + 1
  <2>1. round \in Nat
    OBVIOUS
  <2>2. [note EXCEPT !.stage = "RECEIVED", !.status = "RECEIVED",
                     !.failure = "NONE", !.result = "NONE",
                     !.reading = 0, !.round = round, !.token = "revoked"] \in NoteRows
    <3> HIDE DEF round
    <3> QED BY ZenonT(30), <2>1 DEF NoteRows, Stages, NoteStatuses, Codes, Results
  <2>3. note' \in NoteRows
    BY <1>2, <2>2, BumpTyped DEF ScheduleNoteReprocess
  <2>4. \A i \in JobIds : [jobs[i] EXCEPT !.status = "CANCELLED"] \in JobRows
    BY DEF JobRows, JobStatuses
  <2>5. jobs' \in [JobIds -> JobRows]
    BY <1>2, <2>4, NewJobTyped DEF ScheduleNoteReprocess
  <2> QED BY <1>2, <2>3, <2>5 DEF ScheduleNoteReprocess
<1>3. CASE SubmitContext(j)
  <2>1. note' \in NoteRows
    BY <1>3, MovedTyped, BumpTyped DEF SubmitContext, Stages, NoteStatuses, Codes
  <2>2. [round |-> note.round, status |-> "QUEUED"] \in Submissions
    BY NoteFields DEF Submissions
  <2> QED BY <1>3, <2>1, <2>2, NewJobTyped DEF SubmitContext
<1> QED BY <1>1, <1>2, <1>3

LEMMA UploadTyped ==
    ASSUME TypeOK, SendFile \/ FileStored \/ UploadFails
    PROVE  TypeOK'
<1> USE DEF TypeOK
<1>1. CASE SendFile
  BY <1>1 DEF SendFile
<1>2. CASE FileStored
  BY <1>2, FailureTyped, BumpTyped DEF FileStored, Codes
<1>3. CASE UploadFails
  <2>1. note' \in NoteRows
    BY <1>3, GiveUpTyped DEF UploadFails, Codes
  <2>2. \A i \in JobIds : [jobs[i] EXCEPT !.status = "CANCELLED"] \in JobRows
    BY DEF JobRows, JobStatuses
  <2> QED BY <1>3, <2>1, <2>2 DEF UploadFails
<1> QED BY <1>1, <1>2, <1>3

LEMMA NextTyped == TypeOK /\ [Next]_vars => TypeOK'
<1> SUFFICES ASSUME TypeOK, [Next]_vars PROVE TypeOK'
    OBVIOUS
<1>1. ASSUME NEW w \in Executions, NEW j \in JobIds, ClaimProcessingJob(w, j) PROVE TypeOK'
  BY <1>1, ClaimTyped
<1>2. ASSUME NEW w \in Executions, Advance(w) PROVE TypeOK'
  BY <1>2, ExecutionTyped
<1>3. ASSUME NEW w \in Executions, InvalidConfiguration(w) PROVE TypeOK'
  BY <1>3, FailWithTyped DEF InvalidConfiguration, TypeOK, Codes
<1>4. ASSUME NEW w \in Executions, DisturbDatabase(w) PROVE TypeOK'
  BY <1>4, FailWithTyped DEF DisturbDatabase, TypeOK, Codes
<1>5. ASSUME NEW w \in Executions, Crash(w) PROVE TypeOK'
  BY <1>5, IdleTyped DEF Crash, TypeOK
<1>6. ASSUME NEW w \in Executions, Heartbeat(w) PROVE TypeOK'
  BY <1>6, LeaseTyped DEF Heartbeat, Holds, TypeOK
<1>7. ASSUME NEW j \in JobIds, LeaseExpires(j) PROVE TypeOK'
  BY <1>7, LeaseTyped DEF LeaseExpires, TypeOK
<1>8. ASSUME NEW j \in JobIds, RecoverLease(j) PROVE TypeOK'
  BY <1>8, RecoverTyped
<1>9. ASSUME NEW j \in JobIds,
             ScheduleNoteAuditRecovery(j) \/ ScheduleNoteReprocess(j) \/ SubmitContext(j)
      PROVE  TypeOK'
  BY <1>9, SchedulingTyped
<1>10. CASE ScheduleOrphanedNote
  <2>1. 1 \in JobIds
    BY PipelineAssumption DEF JobIds
  <2> QED BY <1>10, <2>1, NewJobTyped DEF ScheduleOrphanedNote, TypeOK
<1>11. CASE ConsumeTerminalStatus
  <2>1. note \in NoteRows
    BY DEF TypeOK
  <2>2. [note EXCEPT !.token = "revoked"] \in NoteRows
    BY <2>1 DEF NoteRows
  <2> QED BY <1>11, <2>2, BumpTyped DEF ConsumeTerminalStatus, TypeOK
<1>12. CASE SendFile \/ FileStored \/ UploadFails
  BY <1>12, UploadTyped
<1>13. CASE UNCHANGED vars
  BY <1>13 DEF vars, TypeOK
<1> QED
  BY <1>1, <1>2, <1>3, <1>4, <1>5, <1>6, <1>7, <1>8, <1>9, <1>10, <1>11, <1>12, <1>13
     DEF Next

(* Every row and every execution stays in its type, whatever faults occur. *)
THEOREM TypeCorrect == Spec => []TypeOK
BY InitTyped, NextTyped, PTL DEF Spec

--------------------------------------------------------------------------------
(* The fence. *)

IdsIdentify == Pollers = {} \/ "lease_loss" \notin Faults

(* What keeps executions under a shared id apart when leases expire only    *)
(* behind the dead: whoever has a job in memory holds it until it settles,  *)
(* and an expired lease has no holder.                                      *)
LiveExecutionsHold ==
    \A w \in Executions :
      exec[w].job \in JobIds =>
        Holds(w) \/ jobs[exec[w].job].status \in {"SUCCEEDED", "CANCELLED"}
ExpiredJobsAreUnheld ==
    \A w \in Executions : Holds(w) => ~jobs[exec[w].job].stale

FencingInv ==
    /\ WaitingJobsCanRun
    /\ AttemptsAreFenced
    /\ OneHolderPerJob
    /\ "lease_loss" \notin Faults => LiveExecutionsHold /\ ExpiredJobsAreUnheld

--------------------------------------------------------------------------------
(* The handlers as the job rows and the executions' grants see them: a step *)
(* touches neither, or it is one of these kinds.                            *)

QuietStep ==
    /\ jobs' = jobs
    /\ \A w \in Executions : /\ exec'[w].job = exec[w].job
                             /\ exec'[w].attempt = exec[w].attempt
LeaveStep(w) ==
    /\ jobs' = jobs
    /\ exec' = [exec EXCEPT ![w] = Idle]
LeaseStep(j) ==
    /\ exec' = exec
    /\ \E stale \in BOOLEAN :
         /\ jobs' = [jobs EXCEPT ![j].stale = stale]
         /\ stale /\ "lease_loss" \notin Faults
              => \A w \in Executions : ~(exec[w].job = j /\ Holds(w))
SettleStep(w) ==
    /\ Holds(w)
    /\ exec' = [exec EXCEPT ![w] = Idle]
    /\ \E s \in {"SUCCEEDED", "FAILED", "CANCELLED"} :
         /\ s = "FAILED" => exec[w].attempt < jobs[exec[w].job].max
         /\ jobs' = CloseJob(exec[w].job, s)
ReclaimStep(j) ==
    /\ jobs[j].status = "RUNNING" /\ jobs[j].stale
    /\ exec' = exec
    /\ \E s \in {"SUCCEEDED", "FAILED", "CANCELLED"} :
         /\ s = "FAILED" => jobs[j].attempt < jobs[j].max
         /\ jobs' = CloseJob(j, s)
Enqueued(j, type, max, replaced) ==
    [i \in JobIds |-> IF i = j THEN NewJob(type, max)
                      ELSE IF i \in replaced THEN [jobs[i] EXCEPT !.status = "CANCELLED"]
                      ELSE jobs[i]]
EnqueueStep(j) ==
    /\ jobs[j].status = "ABSENT"
    /\ exec' = exec
    /\ \E type \in {"FULL_AUDIT", "CONTEXT_REANALYSIS"}, max \in {2, 3},
          replaced \in SUBSET JobIds :
         /\ \A i \in replaced : jobs[i].status = "FAILED"
         /\ jobs' = Enqueued(j, type, max, replaced)
WithdrawStep ==
    /\ exec' = exec
    /\ jobs' = [j \in JobIds |->
                  IF jobs[j].status \in {"PENDING", "RUNNING", "FAILED"}
                  THEN [jobs[j] EXCEPT !.status = "CANCELLED"] ELSE jobs[j]]

RunStep ==
    \/ QuietStep
    \/ \E w \in Executions :
         \/ LeaveStep(w) \/ SettleStep(w)
         \/ \E j \in JobIds : ClaimProcessingJob(w, j)
    \/ \E j \in JobIds : LeaseStep(j) \/ ReclaimStep(j) \/ EnqueueStep(j)
QueueStep == RunStep \/ WithdrawStep

LEMMA ContinueIsQuiet ==
    ASSUME exec \in [Executions -> Memory], NEW w \in Executions, NEW step \in Steps,
           Continue(w, step), jobs' = jobs
    PROVE  QuietStep
BY DEF Continue, QuietStep, Memory

LEMMA FailWithIsQuiet ==
    ASSUME exec \in [Executions -> Memory], NEW w \in Executions, NEW code,
           FailWith(w, code), jobs' = jobs
    PROVE  QuietStep
BY DEF FailWith, QuietStep, Memory

(* What an execution does is quiet until it settles or leaves its job. *)
LEMMA AdvanceIsQueueStep ==
    ASSUME TypeOK, NEW w \in Executions, Advance(w)
    PROVE  QuietStep \/ LeaveStep(w) \/ SettleStep(w)
<1>0. exec \in [Executions -> Memory]
  BY DEF TypeOK
<1>1. CASE FindNoteState(w)
  BY <1>0, <1>1, ContinueIsQuiet DEF FindNoteState, Steps
<1>2. CASE MarkAuditStarted(w)
  BY <1>0, <1>2, ContinueIsQuiet DEF MarkAuditStarted, Steps
<1>3. CASE ClaimNote(w)
  <2>1. CASE FailWith(w, "EXTRACTION")
    BY <1>0, <1>3, <2>1, FailWithIsQuiet DEF ClaimNote
  <2>2. CASE exec' = [exec EXCEPT ![w].step = "read", ![w].version = note.version + 1]
    BY <1>0, <1>3, <2>2 DEF ClaimNote, QuietStep, Memory
  <2> QED BY <1>3, <2>1, <2>2 DEF ClaimNote
<1>4. CASE PersistExtraction(w)
  BY <1>0, <1>4, ContinueIsQuiet, FailWithIsQuiet DEF PersistExtraction, Steps
<1>5. CASE FailExtraction(w)
  BY <1>0, <1>5, FailWithIsQuiet DEF FailExtraction
<1>6. CASE LoadAuditContext(w)
  <2>1. CASE FailWith(w, "AUDIT")
    BY <1>0, <1>6, <2>1, FailWithIsQuiet DEF LoadAuditContext
  <2>2. CASE exec' = [exec EXCEPT ![w].step = "judge", ![w].version = note.version,
                                  ![w].reading = note.reading]
    BY <1>0, <1>6, <2>2 DEF LoadAuditContext, QuietStep, Memory
  <2> QED BY <1>6, <2>1, <2>2 DEF LoadAuditContext
<1>7. CASE DiscardAudit(w)
  BY <1>0, <1>7, FailWithIsQuiet DEF DiscardAudit
<1>8. CASE FailAudit(w)
  BY <1>0, <1>8, FailWithIsQuiet DEF FailAudit
<1>9. CASE \E class \in Classes, asks \in BOOLEAN : FinalizeAudit(w, class, asks)
  BY <1>0, <1>9, ContinueIsQuiet DEF FinalizeAudit, Steps
<1>10. CASE CompleteJob(w)
  BY <1>10 DEF CompleteJob, LeaveStep, SettleStep
<1>11. CASE FailJob(w)
  <2> DEFINE gone == Exhausted(exec[w].attempt, jobs[exec[w].job].max, exec[w].code)
  <2>1. exec' = [exec EXCEPT ![w] = Idle]
    BY <1>11 DEF FailJob
  <2>2. CASE ~Holds(w)
    BY <1>11, <2>1, <2>2 DEF FailJob, LeaveStep
  <2>3. CASE Holds(w)
    <3>1. jobs' = CloseJob(exec[w].job, IF gone THEN "CANCELLED" ELSE "FAILED")
      BY <1>11, <2>3 DEF FailJob, ReturnJob
    <3>2. exec[w].attempt \in Nat /\ jobs[exec[w].job].max \in Nat
      BY <2>3 DEF TypeOK, Holds, Memory, JobRows
    <3>3. ~gone => exec[w].attempt < jobs[exec[w].job].max
      BY <3>2 DEF Exhausted
    <3> HIDE DEF gone
    <3> QED BY <2>1, <2>3, <3>1, <3>3 DEF SettleStep
  <2> QED BY <2>2, <2>3
<1> QED
  BY <1>1, <1>2, <1>3, <1>4, <1>5, <1>6, <1>7, <1>8, <1>9, <1>10, <1>11 DEF Advance

LEMMA EnqueueAlone ==
    ASSUME jobs \in [JobIds -> JobRows], NEW j \in JobIds, jobs[j].status = "ABSENT",
           NEW type \in {"FULL_AUDIT", "CONTEXT_REANALYSIS"}, NEW max \in {2, 3},
           jobs' = [jobs EXCEPT ![j] = NewJob(type, max)], exec' = exec
    PROVE  EnqueueStep(j)
<1> DEFINE replaced == {}
<1>1. replaced \in SUBSET JobIds /\ \A i \in replaced : jobs[i].status = "FAILED"
  OBVIOUS
<1>2. jobs' = Enqueued(j, type, max, replaced)
  BY DEF Enqueued
<1> HIDE DEF replaced
<1> QED BY <1>1, <1>2 DEF EnqueueStep

LEMMA NextIsRunStep ==
    ASSUME TypeOK, [Next]_vars, ~UploadFails
    PROVE  RunStep
<1>0. exec \in [Executions -> Memory] /\ jobs \in [JobIds -> JobRows]
  BY DEF TypeOK
<1>1. ASSUME NEW w \in Executions, NEW j \in JobIds, ClaimProcessingJob(w, j)
      PROVE  RunStep
  BY <1>1 DEF RunStep
<1>2. ASSUME NEW w \in Executions, Advance(w) PROVE RunStep
  BY <1>2, AdvanceIsQueueStep DEF RunStep
<1>3. ASSUME NEW w \in Executions, InvalidConfiguration(w) \/ DisturbDatabase(w)
      PROVE  RunStep
  BY <1>0, <1>3, FailWithIsQuiet DEF InvalidConfiguration, DisturbDatabase, RunStep
<1>4. ASSUME NEW w \in Executions, Crash(w) PROVE RunStep
  BY <1>4 DEF Crash, LeaveStep, RunStep
<1>5. ASSUME NEW w \in Executions, Heartbeat(w) PROVE RunStep
  <2>1. LeaseStep(exec[w].job)
    BY <1>5 DEF Heartbeat, LeaseStep
  <2> QED BY <1>5, <2>1 DEF Heartbeat, Holds, RunStep
<1>6. ASSUME NEW j \in JobIds, LeaseExpires(j) PROVE RunStep
  <2>1. LeaseStep(j)
    BY <1>6 DEF LeaseExpires, LeaseStep
  <2> QED BY <2>1 DEF RunStep
<1>7. ASSUME NEW j \in JobIds, RecoverLease(j) PROVE RunStep
  <2> DEFINE gone == jobs[j].attempt >= jobs[j].max
  <2>1. jobs[j].attempt \in Nat /\ jobs[j].max \in Nat
    BY <1>0 DEF JobRows
  <2>2. \/ jobs' = CloseJob(j, "SUCCEEDED")
        \/ gone /\ jobs' = CloseJob(j, "CANCELLED")
        \/ ~gone /\ jobs' = CloseJob(j, "FAILED")
    BY <1>7 DEF RecoverLease, ReturnJob
  <2>3. ReclaimStep(j)
    BY <1>7, <2>1, <2>2 DEF RecoverLease, ReclaimStep
  <2> QED BY <2>3 DEF RunStep
<1>8. ASSUME NEW j \in JobIds, ScheduleNoteAuditRecovery(j) \/ SubmitContext(j)
      PROVE  RunStep
  <2>1. PICK type \in {"FULL_AUDIT", "CONTEXT_REANALYSIS"} :
          jobs' = [jobs EXCEPT ![j] = NewJob(type, 2)]
    BY <1>8 DEF ScheduleNoteAuditRecovery, SubmitContext
  <2>2. EnqueueStep(j)
    BY <1>0, <1>8, <2>1, EnqueueAlone
       DEF ScheduleNoteAuditRecovery, SubmitContext, NextJob
  <2> QED BY <2>2 DEF RunStep
<1>9. ASSUME NEW j \in JobIds, ScheduleNoteReprocess(j) PROVE RunStep
  <2> DEFINE replaced == {i \in JobIds \ {j} : jobs[i].status = "FAILED"}
  <2>1. jobs' = Enqueued(j, "FULL_AUDIT", 2, replaced)
    BY <1>9 DEF ScheduleNoteReprocess, Enqueued
  <2>2. replaced \in SUBSET JobIds /\ \A i \in replaced : jobs[i].status = "FAILED"
    OBVIOUS
  <2> HIDE DEF replaced
  <2>3. EnqueueStep(j)
    BY <1>9, <2>1, <2>2 DEF ScheduleNoteReprocess, NextJob, EnqueueStep
  <2> QED BY <2>3 DEF RunStep
<1>10. CASE ScheduleOrphanedNote
  <2>1. 1 \in JobIds
    BY PipelineAssumption DEF JobIds
  <2>2. EnqueueStep(1)
    BY <1>0, <1>10, <2>1, EnqueueAlone DEF ScheduleOrphanedNote
  <2> QED BY <2>1, <2>2 DEF RunStep
<1>11. CASE ConsumeTerminalStatus \/ SendFile \/ FileStored \/ UNCHANGED vars
  <2>1. QuietStep
    BY <1>11 DEF ConsumeTerminalStatus, SendFile, FileStored, vars, QuietStep
  <2> QED BY <2>1 DEF RunStep
<1> QED
  BY <1>1, <1>2, <1>3, <1>4, <1>5, <1>6, <1>7, <1>8, <1>9, <1>10, <1>11 DEF Next

LEMMA NextIsQueueStep ==
    ASSUME TypeOK, [Next]_vars
    PROVE  QueueStep
<1>1. CASE UploadFails
  BY <1>1 DEF UploadFails, WithdrawStep, QueueStep
<1> QED BY <1>1, NextIsRunStep DEF QueueStep

--------------------------------------------------------------------------------
(* Every kind of step keeps the fence.                                      *)

LEMMA JobFields ==
    ASSUME TypeOK, NEW j \in JobIds
    PROVE  /\ jobs[j].attempt \in Nat /\ jobs[j].max \in Nat
           /\ jobs[j].status \in JobStatuses /\ jobs[j].stale \in BOOLEAN
           /\ DOMAIN jobs = JobIds
BY DEF TypeOK, JobRows

LEMMA IdleHoldsNothing ==
    Idle.job \notin JobIds
BY PipelineAssumption DEF Idle, JobIds

LEMMA QuietFenced ==
    ASSUME FencingInv, QuietStep
    PROVE  FencingInv'
<1> USE DEF FencingInv, QuietStep
<1>1. \A w \in Executions : Holds(w)' <=> Holds(w)
  BY DEF Holds
<1>2. WaitingJobsCanRun'
  BY DEF WaitingJobsCanRun
<1>3. AttemptsAreFenced'
  BY <1>1 DEF AttemptsAreFenced
<1>4. OneHolderPerJob'
  BY <1>1 DEF OneHolderPerJob
<1>5. LiveExecutionsHold => LiveExecutionsHold'
  BY <1>1 DEF LiveExecutionsHold
<1>6. ExpiredJobsAreUnheld => ExpiredJobsAreUnheld'
  BY <1>1 DEF ExpiredJobsAreUnheld
<1> QED BY <1>2, <1>3, <1>4, <1>5, <1>6

LEMMA LeaveFenced ==
    ASSUME TypeOK, FencingInv, NEW w \in Executions, LeaveStep(w)
    PROVE  FencingInv'
<1> USE DEF FencingInv, LeaveStep
<1>1. \A v \in Executions :
        IF v = w THEN exec'[v].job \notin JobIds ELSE exec'[v] = exec[v]
  BY IdleHoldsNothing DEF TypeOK
<1>2. \A v \in Executions : Holds(v)' <=> v # w /\ Holds(v)
  BY <1>1 DEF Holds
<1>3. WaitingJobsCanRun'
  BY DEF WaitingJobsCanRun
<1>4. AttemptsAreFenced'
  BY <1>1, <1>2 DEF AttemptsAreFenced
<1>5. OneHolderPerJob'
  BY <1>1, <1>2 DEF OneHolderPerJob
<1>6. LiveExecutionsHold => LiveExecutionsHold'
  BY <1>1, <1>2 DEF LiveExecutionsHold
<1>7. ExpiredJobsAreUnheld => ExpiredJobsAreUnheld'
  BY <1>1, <1>2 DEF ExpiredJobsAreUnheld
<1> QED BY <1>3, <1>4, <1>5, <1>6, <1>7

LEMMA LeaseFenced ==
    ASSUME TypeOK, FencingInv, NEW j \in JobIds, LeaseStep(j)
    PROVE  FencingInv'
<1> USE DEF FencingInv
<1> PICK stale \in BOOLEAN :
      /\ jobs' = [jobs EXCEPT ![j].stale = stale]
      /\ stale /\ "lease_loss" \notin Faults
           => \A w \in Executions : ~(exec[w].job = j /\ Holds(w))
  BY DEF LeaseStep
<1>0. exec' = exec
  BY DEF LeaseStep
<1>1. \A i \in JobIds : /\ jobs'[i].status = jobs[i].status
                        /\ jobs'[i].attempt = jobs[i].attempt
                        /\ jobs'[i].max = jobs[i].max
                        /\ jobs'[i].lockedBy = jobs[i].lockedBy
                        /\ i # j => jobs'[i].stale = jobs[i].stale
  BY DEF TypeOK, JobRows
<1>2. jobs'[j].stale = stale
  BY DEF TypeOK, JobRows
<1>3. \A w \in Executions : Holds(w)' <=> Holds(w)
  BY <1>0, <1>1 DEF Holds
<1>4. WaitingJobsCanRun'
  BY <1>1 DEF WaitingJobsCanRun
<1>5. AttemptsAreFenced'
  BY <1>0, <1>1, <1>3 DEF AttemptsAreFenced, Holds
<1>6. OneHolderPerJob'
  BY <1>0, <1>3 DEF OneHolderPerJob
<1>7. LiveExecutionsHold => LiveExecutionsHold'
  BY <1>0, <1>1, <1>3 DEF LiveExecutionsHold
<1>8. ExpiredJobsAreUnheld /\ "lease_loss" \notin Faults => ExpiredJobsAreUnheld'
  BY <1>0, <1>1, <1>2, <1>3 DEF ExpiredJobsAreUnheld, Holds
<1> QED BY <1>4, <1>5, <1>6, <1>7, <1>8

(* A row that leaves RUNNING takes its holders' fence with it. *)
LEMMA CloseFenced ==
    ASSUME TypeOK, FencingInv, NEW j \in JobIds,
           NEW s \in {"SUCCEEDED", "FAILED", "CANCELLED"},
           jobs[j].status = "RUNNING",
           s = "FAILED" => jobs[j].attempt < jobs[j].max,
           jobs' = CloseJob(j, s),
           \A v \in Executions : exec'[v] = exec[v] \/ exec'[v].job \notin JobIds,
           "lease_loss" \notin Faults
             => \A v \in Executions : exec'[v].job # j
    PROVE  FencingInv'
<1> USE DEF FencingInv
<1>1. \A i \in JobIds \ {j} : jobs'[i] = jobs[i]
  BY DEF CloseJob, TypeOK
<1>2. /\ jobs'[j].status = s /\ jobs'[j].attempt = jobs[j].attempt
      /\ jobs'[j].max = jobs[j].max
  BY DEF CloseJob, TypeOK, JobRows
<1>3. \A v \in Executions :
        Holds(v)' => Holds(v) /\ exec'[v] = exec[v] /\ exec[v].job # j
  BY <1>1, <1>2 DEF Holds
<1>4. WaitingJobsCanRun'
  BY <1>1, <1>2 DEF WaitingJobsCanRun
<1>5. AttemptsAreFenced'
  BY <1>1, <1>3 DEF AttemptsAreFenced, Holds
<1>6. OneHolderPerJob'
  BY <1>3 DEF OneHolderPerJob
<1>7. LiveExecutionsHold /\ "lease_loss" \notin Faults => LiveExecutionsHold'
  BY <1>1 DEF LiveExecutionsHold, Holds
<1>8. ExpiredJobsAreUnheld => ExpiredJobsAreUnheld'
  BY <1>1, <1>3 DEF ExpiredJobsAreUnheld, Holds
<1> QED BY <1>4, <1>5, <1>6, <1>7, <1>8

LEMMA SettleFenced ==
    ASSUME TypeOK, FencingInv, NEW w \in Executions, SettleStep(w)
    PROVE  FencingInv'
<1> DEFINE j == exec[w].job
<1>1. j \in JobIds /\ jobs[j].status = "RUNNING" /\ exec[w].attempt = jobs[j].attempt
  BY DEF SettleStep, Holds, FencingInv, AttemptsAreFenced
<1>2. PICK s \in {"SUCCEEDED", "FAILED", "CANCELLED"} :
        /\ s = "FAILED" => exec[w].attempt < jobs[j].max
        /\ jobs' = CloseJob(j, s)
  BY DEF SettleStep
<1>3. \A v \in Executions :
        IF v = w THEN exec'[v].job \notin JobIds ELSE exec'[v] = exec[v]
  BY IdleHoldsNothing DEF SettleStep, TypeOK
<1>4. \A v \in Executions :
        LiveExecutionsHold /\ exec[v].job = j => v = w
  BY <1>1 DEF LiveExecutionsHold, FencingInv, OneHolderPerJob, SettleStep
<1>5. "lease_loss" \notin Faults => \A v \in Executions : exec'[v].job # j
  BY <1>1, <1>3, <1>4 DEF FencingInv
<1> HIDE DEF j
<1> QED BY <1>1, <1>2, <1>3, <1>5, CloseFenced

LEMMA ReclaimFenced ==
    ASSUME TypeOK, FencingInv, NEW j \in JobIds, ReclaimStep(j)
    PROVE  FencingInv'
<1>1. PICK s \in {"SUCCEEDED", "FAILED", "CANCELLED"} :
        /\ s = "FAILED" => jobs[j].attempt < jobs[j].max
        /\ jobs' = CloseJob(j, s)
  BY DEF ReclaimStep
<1>2. "lease_loss" \notin Faults => \A v \in Executions : exec[v].job # j
  BY DEF ReclaimStep, FencingInv, LiveExecutionsHold, ExpiredJobsAreUnheld
<1>3. jobs[j].status = "RUNNING" /\ exec' = exec
  BY DEF ReclaimStep
<1> QED BY <1>1, <1>2, <1>3, CloseFenced

LEMMA ClaimFenced ==
    ASSUME TypeOK, FencingInv, IdsIdentify,
           NEW w \in Executions, NEW j \in JobIds, ClaimProcessingJob(w, j)
    PROVE  FencingInv'
<1> USE DEF FencingInv
<1>0. jobs[j].attempt \in Nat /\ jobs[j].max \in Nat
  BY JobFields
<1>1. \A i \in JobIds \ {j} : jobs'[i] = jobs[i]
  BY DEF ClaimProcessingJob, TypeOK
<1>2. /\ jobs'[j].status = "RUNNING" /\ jobs'[j].attempt = jobs[j].attempt + 1
      /\ jobs'[j].max = jobs[j].max /\ jobs'[j].lockedBy = WorkerId(w)
      /\ jobs'[j].stale = FALSE
  BY DEF ClaimProcessingJob, TypeOK, JobRows
<1>3. /\ \A v \in Executions \ {w} : exec'[v] = exec[v]
      /\ exec'[w].job = j /\ exec'[w].attempt = jobs[j].attempt + 1
  BY DEF ClaimProcessingJob, TypeOK, Idle
<1>4. jobs[j].status \in {"PENDING", "FAILED"} /\ jobs[j].attempt < jobs[j].max
  BY DEF ClaimProcessingJob, CanClaim
<1>5. WorkerId(w) # NoWorker
  BY PipelineAssumption DEF WorkerId, Executions
<1>6. \A v \in Executions \ {w} :
        exec[v].job = j => jobs'[j].lockedBy # WorkerId(v) /\ "lease_loss" \in Faults
  <2> SUFFICES ASSUME NEW v \in Executions \ {w}, exec[v].job = j
               PROVE  jobs'[j].lockedBy # WorkerId(v) /\ "lease_loss" \in Faults
    OBVIOUS
  <2>1. "lease_loss" \in Faults
    BY <1>4 DEF LiveExecutionsHold, Holds
  <2>2. Pollers = {}
    BY <2>1 DEF IdsIdentify
  <2>3. WorkerId(v) # WorkerId(w)
    BY <2>2 DEF WorkerId
  <2> QED BY <1>2, <2>1, <2>3
<1>7. \A v \in Executions \ {w} : Holds(v)' <=> Holds(v) /\ exec[v].job # j
  BY <1>1, <1>3, <1>4, <1>6 DEF Holds
<1>8. WaitingJobsCanRun'
  BY <1>0, <1>1, <1>2, <1>4, <1>5 DEF WaitingJobsCanRun
<1>9. AttemptsAreFenced'
  BY <1>1, <1>2, <1>3, <1>7 DEF AttemptsAreFenced, Holds
<1>10. OneHolderPerJob'
  BY <1>3, <1>7 DEF OneHolderPerJob
<1>11. "lease_loss" \notin Faults => LiveExecutionsHold'
  <2> SUFFICES ASSUME "lease_loss" \notin Faults, NEW v \in Executions, exec'[v].job \in JobIds
               PROVE  Holds(v)' \/ jobs'[exec'[v].job].status \in {"SUCCEEDED", "CANCELLED"}
    BY DEF LiveExecutionsHold
  <2>1. CASE v = w
    BY <2>1, <1>2, <1>3 DEF Holds
  <2>2. CASE v # w
    BY <2>2, <1>1, <1>3, <1>6, <1>7 DEF LiveExecutionsHold
  <2> QED BY <2>1, <2>2
<1>12. "lease_loss" \notin Faults => ExpiredJobsAreUnheld'
  BY <1>1, <1>2, <1>3, <1>7 DEF ExpiredJobsAreUnheld, Holds
<1> QED BY <1>8, <1>9, <1>10, <1>11, <1>12

LEMMA EnqueueFenced ==
    ASSUME TypeOK, FencingInv, NEW j \in JobIds, EnqueueStep(j)
    PROVE  FencingInv'
<1> USE DEF FencingInv
<1> PICK type \in {"FULL_AUDIT", "CONTEXT_REANALYSIS"}, max \in {2, 3},
         replaced \in SUBSET JobIds :
      /\ \A i \in replaced : jobs[i].status = "FAILED"
      /\ jobs' = Enqueued(j, type, max, replaced)
  BY DEF EnqueueStep
<1>0. exec' = exec /\ jobs[j].status = "ABSENT"
  BY DEF EnqueueStep
<1>1. jobs'[j].status = "PENDING" /\ jobs'[j].attempt = 0 /\ jobs'[j].max = max
  BY DEF Enqueued, NewJob, NoJob
<1>2. \A i \in JobIds \ {j} :
        \/ jobs'[i] = jobs[i]
        \/ /\ jobs[i].status = "FAILED" /\ jobs'[i].status = "CANCELLED"
           /\ jobs'[i].attempt = jobs[i].attempt /\ jobs'[i].max = jobs[i].max
  BY DEF Enqueued, TypeOK, JobRows
<1>3. \A w \in Executions : Holds(w)' => Holds(w) /\ jobs'[exec[w].job] = jobs[exec[w].job]
  BY <1>0, <1>1, <1>2 DEF Holds
<1>4. WaitingJobsCanRun'
  BY <1>1, <1>2 DEF WaitingJobsCanRun
<1>5. AttemptsAreFenced'
  BY <1>0, <1>3 DEF AttemptsAreFenced
<1>6. OneHolderPerJob'
  BY <1>0, <1>3 DEF OneHolderPerJob
<1>7. LiveExecutionsHold => LiveExecutionsHold'
  BY <1>0, <1>1, <1>2 DEF LiveExecutionsHold, Holds
<1>8. ExpiredJobsAreUnheld => ExpiredJobsAreUnheld'
  BY <1>0, <1>3 DEF ExpiredJobsAreUnheld
<1> QED BY <1>4, <1>5, <1>6, <1>7, <1>8

LEMMA WithdrawFenced ==
    ASSUME TypeOK, FencingInv, WithdrawStep
    PROVE  FencingInv'
<1> USE DEF FencingInv
<1>0. exec' = exec
  BY DEF WithdrawStep
<1>1. \A i \in JobIds :
        \/ jobs'[i] = jobs[i] /\ jobs[i].status \notin {"PENDING", "RUNNING", "FAILED"}
        \/ /\ jobs[i].status \in {"PENDING", "RUNNING", "FAILED"}
           /\ jobs'[i].status = "CANCELLED"
           /\ jobs'[i].attempt = jobs[i].attempt /\ jobs'[i].max = jobs[i].max
  BY DEF WithdrawStep, TypeOK, JobRows
<1>2. \A w \in Executions : ~Holds(w)'
  BY <1>1 DEF Holds
<1>3. WaitingJobsCanRun'
  BY <1>1 DEF WaitingJobsCanRun
<1>4. LiveExecutionsHold => LiveExecutionsHold'
  BY <1>0, <1>1 DEF LiveExecutionsHold, Holds
<1> QED BY <1>2, <1>3, <1>4 DEF AttemptsAreFenced, OneHolderPerJob, ExpiredJobsAreUnheld

LEMMA InitFenced == Init => FencingInv
<1> SUFFICES ASSUME Init PROVE FencingInv
    OBVIOUS
<1>1. \A w \in Executions : exec[w].job \notin JobIds
  BY IdleHoldsNothing DEF Init
<1>2. \A j \in JobIds : jobs[j] = NoJob \/ jobs[j] = NewJob("FULL_AUDIT", 2)
  BY DEF Init
<1>3. NewJob("FULL_AUDIT", 2).status = "PENDING" /\ NewJob("FULL_AUDIT", 2).attempt = 0
      /\ NewJob("FULL_AUDIT", 2).max = 2
  BY DEF NewJob, NoJob
<1>4. NoJob.status = "ABSENT" /\ NoJob.attempt = 0 /\ NoJob.max = 0
  BY DEF NoJob
<1>5. WaitingJobsCanRun
  BY <1>2, <1>3, <1>4 DEF WaitingJobsCanRun
<1> QED
  BY <1>1, <1>5 DEF FencingInv, AttemptsAreFenced, OneHolderPerJob, LiveExecutionsHold,
                    ExpiredJobsAreUnheld, Holds

LEMMA NextFenced ==
    ASSUME IdsIdentify
    PROVE  TypeOK /\ FencingInv /\ [Next]_vars => FencingInv'
<1> SUFFICES ASSUME TypeOK, FencingInv, [Next]_vars PROVE FencingInv'
    OBVIOUS
<1>1. QueueStep
  BY NextIsQueueStep
<1> QED
  BY <1>1, QuietFenced, LeaveFenced, LeaseFenced, SettleFenced, ReclaimFenced,
     ClaimFenced, EnqueueFenced, WithdrawFenced DEF QueueStep, RunStep

LEMMA FencingHolds ==
    ASSUME IdsIdentify
    PROVE  Spec => [](TypeOK /\ FencingInv)
<1>1. Init => TypeOK /\ FencingInv
  BY InitTyped, InitFenced
<1>2. (TypeOK /\ FencingInv) /\ [Next]_vars => (TypeOK /\ FencingInv)'
  BY NextTyped, NextFenced
<1> QED BY <1>1, <1>2, PTL DEF Spec

(* A job waiting in the queue has an attempt left and a running one is       *)
(* locked, whatever is claimed, fails, expires or is recovered.             *)
THEOREM WaitingJobsAlwaysRun ==
    ASSUME IdsIdentify
    PROVE  Spec => []WaitingJobsCanRun
<1>1. TypeOK /\ FencingInv => WaitingJobsCanRun
  BY DEF FencingInv
<1> QED BY <1>1, FencingHolds, PTL

(* Whoever passes the lockedBy and RUNNING fence runs the current attempt.  *)
THEOREM FencedAttempts ==
    ASSUME IdsIdentify
    PROVE  Spec => []AttemptsAreFenced
<1>1. TypeOK /\ FencingInv => AttemptsAreFenced
  BY DEF FencingInv
<1> QED BY <1>1, FencingHolds, PTL

(* No two executions pass the fence of the same job.                        *)
THEOREM SingleHolder ==
    ASSUME IdsIdentify
    PROVE  Spec => []OneHolderPerJob
<1>1. TypeOK /\ FencingInv => OneHolderPerJob
  BY DEF FencingInv
<1> QED BY <1>1, FencingHolds, PTL

--------------------------------------------------------------------------------
(* The job rows and the executions implement the abstract queue. *)


(* What the queue sees of the rows and of an execution's memory. *)
Row(j) == [status |-> jobs[j].status, attempt |-> jobs[j].attempt, max |-> jobs[j].max]
Grant(w) == [job |-> exec[w].job, attempt |-> exec[w].attempt]

LEMMA RowsUnchanged ==
    ASSUME jobs' = jobs, \A w \in Executions : Grant(w)' = Grant(w)
    PROVE  UNCHANGED Queue!vars
BY DEF Queue!vars, Grant

LEMMA QuietImplements == QuietStep => UNCHANGED Queue!vars
BY DEF QuietStep, Queue!vars

LEMMA LeaseImplements ==
    ASSUME TypeOK, NEW j \in JobIds, LeaseStep(j)
    PROVE  UNCHANGED Queue!vars
<1>1. \A i \in JobIds : Row(i)' = Row(i)
  BY DEF LeaseStep, TypeOK, JobRows, Row
<1>2. exec' = exec
  BY DEF LeaseStep
<1> QED BY <1>1, <1>2 DEF Queue!vars, Row

LEMMA LeaveImplements ==
    ASSUME TypeOK, NEW w \in Executions, LeaveStep(w)
    PROVE  [Queue!Next]_(Queue!vars)
<1>1. jobs' = jobs
  BY DEF LeaveStep
<1>2. \A v \in Executions : Grant(v)' = IF v = w THEN Queue!NoGrant ELSE Grant(v)
  BY DEF LeaveStep, TypeOK, Grant, Queue!NoGrant, Idle
<1>3. CASE Grant(w) = Queue!NoGrant
  BY <1>1, <1>2, <1>3, RowsUnchanged
<1>4. CASE Grant(w) # Queue!NoGrant
  <2>1. Queue!Abandon(w)
    BY <1>1, <1>2, <1>4 DEF Queue!Abandon, Grant
  <2> QED BY <2>1 DEF Queue!Next
<1> QED BY <1>3, <1>4

(* A row closed with a status is the abstract job moved to that status. *)
LEMMA ClosedRow ==
    ASSUME TypeOK, NEW j \in JobIds, NEW s, jobs' = CloseJob(j, s), NEW i \in JobIds
    PROVE  Row(i)' = IF i = j THEN [Row(i) EXCEPT !.status = s] ELSE Row(i)
BY DEF CloseJob, TypeOK, JobRows, Row

LEMMA SettleImplements ==
    ASSUME TypeOK, FencingInv, NEW w \in Executions, SettleStep(w)
    PROVE  Queue!Next
<1> DEFINE j == exec[w].job
<1>1. j \in JobIds /\ jobs[j].status = "RUNNING" /\ exec[w].attempt = jobs[j].attempt
  BY DEF SettleStep, Holds, FencingInv, AttemptsAreFenced
<1>2. PICK s \in {"SUCCEEDED", "FAILED", "CANCELLED"} :
        /\ s = "FAILED" => exec[w].attempt < jobs[j].max
        /\ jobs' = CloseJob(j, s)
  BY DEF SettleStep
<1>3. \A v \in Executions : Grant(v)' = IF v = w THEN Queue!NoGrant ELSE Grant(v)
  BY DEF SettleStep, TypeOK, Grant, Queue!NoGrant, Idle
<1>4. \A i \in JobIds : Row(i)' = IF i = j THEN [Row(i) EXCEPT !.status = s] ELSE Row(i)
  <2> HIDE DEF j
  <2> QED BY <1>1, <1>2, ClosedRow
<1>5. [i \in JobIds |-> Row(i)]' = [[i \in JobIds |-> Row(i)] EXCEPT ![j].status = s]
  <2> HIDE DEF j
  <2> QED BY <1>1, <1>4
<1>6. [v \in Executions |-> Grant(v)]'
        = [[v \in Executions |-> Grant(v)] EXCEPT ![w] = Queue!NoGrant]
  BY <1>3
<1>7. s \in Queue!Settled \cup {"FAILED"}
  BY <1>2 DEF Queue!Settled
<1>8. Queue!Settle(w)
  BY <1>1, <1>2, <1>5, <1>6, <1>7 DEF Queue!Settle, Queue!JobIds, JobIds, Row, Grant
<1> QED BY <1>8 DEF Queue!Next

LEMMA ReclaimImplements ==
    ASSUME TypeOK, NEW j \in JobIds, ReclaimStep(j)
    PROVE  Queue!Next
<1>1. PICK s \in {"SUCCEEDED", "FAILED", "CANCELLED"} :
        /\ s = "FAILED" => jobs[j].attempt < jobs[j].max
        /\ jobs' = CloseJob(j, s)
  BY DEF ReclaimStep
<1>2. \A i \in JobIds : Row(i)' = IF i = j THEN [Row(i) EXCEPT !.status = s] ELSE Row(i)
  BY <1>1, ClosedRow
<1>3. exec' = exec /\ jobs[j].status = "RUNNING"
  BY DEF ReclaimStep
<1>4. [i \in JobIds |-> Row(i)]' = [[i \in JobIds |-> Row(i)] EXCEPT ![j].status = s]
  BY <1>2
<1>5. s \in Queue!Settled \cup {"FAILED"}
  BY <1>1 DEF Queue!Settled
<1>6. Queue!Reclaim(j)
  BY <1>1, <1>3, <1>4, <1>5 DEF Queue!Reclaim, Row
<1> QED BY <1>6 DEF Queue!Next, Queue!JobIds, JobIds

LEMMA ClaimImplements ==
    ASSUME TypeOK, NEW w \in Executions, NEW j \in JobIds, ClaimProcessingJob(w, j)
    PROVE  Queue!Next
<1>1. \A i \in JobIds :
        Row(i)' = IF i = j THEN [Row(i) EXCEPT !.status = "RUNNING", !.attempt = @ + 1]
                  ELSE Row(i)
  BY DEF ClaimProcessingJob, TypeOK, JobRows, Row
<1>2. \A v \in Executions :
        Grant(v)' = IF v = w THEN [job |-> j, attempt |-> jobs[j].attempt + 1] ELSE Grant(v)
  BY DEF ClaimProcessingJob, TypeOK, Grant, Idle
<1>3. Grant(w) = Queue!NoGrant
  BY DEF ClaimProcessingJob, Grant, Idle, Queue!NoGrant
<1>4. jobs[j].status \in {"PENDING", "FAILED"} /\ jobs[j].attempt < jobs[j].max
  BY DEF ClaimProcessingJob, CanClaim
<1>5. Queue!Start(w, j)
  BY <1>1, <1>2, <1>3, <1>4 DEF Queue!Start, Queue!Waiting, Row, Grant
<1> QED BY <1>5 DEF Queue!Next, Queue!JobIds, JobIds

LEMMA EnqueueImplements ==
    ASSUME TypeOK, NEW j \in JobIds, EnqueueStep(j)
    PROVE  Queue!Next
<1>1. PICK type \in {"FULL_AUDIT", "CONTEXT_REANALYSIS"}, max \in {2, 3},
           replaced \in SUBSET JobIds :
        /\ \A i \in replaced : jobs[i].status = "FAILED"
        /\ jobs' = Enqueued(j, type, max, replaced)
  BY DEF EnqueueStep
<1>2. exec' = exec /\ jobs[j].status = "ABSENT"
  BY DEF EnqueueStep
<1>3. \A i \in JobIds :
        Row(i)' = IF i = j THEN Queue!New(max)
                  ELSE IF i \in replaced THEN [Row(i) EXCEPT !.status = "CANCELLED"]
                  ELSE Row(i)
  BY <1>1 DEF Enqueued, NewJob, NoJob, Queue!New, TypeOK, JobRows, Row
<1>4. Queue!Enqueue(j, replaced)
  BY <1>1, <1>2, <1>3 DEF Queue!Enqueue, Queue!Waiting, Queue!JobIds, JobIds, Row
<1> QED BY <1>4 DEF Queue!Next, Queue!JobIds, JobIds

LEMMA WithdrawImplements ==
    ASSUME TypeOK, WithdrawStep
    PROVE  Queue!Next
<1>1. PICK withdrawn \in SUBSET JobIds :
        withdrawn = {i \in JobIds : jobs[i].status \in {"PENDING", "RUNNING", "FAILED"}}
  OBVIOUS
<1>2. \A i \in JobIds :
        Row(i)' = IF i \in withdrawn THEN [Row(i) EXCEPT !.status = "CANCELLED"] ELSE Row(i)
  BY <1>1 DEF WithdrawStep, TypeOK, JobRows, Row
<1>3. exec' = exec
  BY DEF WithdrawStep
<1>4. Queue!Withdraw(withdrawn)
  BY <1>1, <1>2, <1>3 DEF Queue!Withdraw, Queue!Waiting, Queue!JobIds, JobIds, Row
<1>5. withdrawn \in SUBSET Queue!JobIds
  BY <1>1 DEF Queue!JobIds, JobIds
<1> QED BY <1>4, <1>5 DEF Queue!Next

LEMMA InitImplements == Init => Queue!Init
<1> SUFFICES ASSUME Init PROVE Queue!Init
    OBVIOUS
<1>1. \A w \in Executions : Grant(w) = Queue!NoGrant
  BY DEF Init, Grant, Idle, Queue!NoGrant
<1>2. \/ \A j \in JobIds : jobs[j] = NoJob
      \/ \A j \in JobIds : jobs[j] = IF j = 1 THEN NewJob("FULL_AUDIT", 2) ELSE NoJob
  BY DEF Init
<1>3. \A j \in JobIds : jobs[j] = NoJob => Row(j) = Queue!Absent
  BY DEF Row, NoJob, Queue!Absent
<1>4. \A j \in JobIds : jobs[j] = NewJob("FULL_AUDIT", 2) => Row(j) = Queue!New(2)
  BY DEF Row, NoJob, NewJob, Queue!New
<1>5. \/ \A j \in JobIds : Row(j) = Queue!Absent
      \/ \A j \in JobIds : Row(j) = IF j = 1 THEN Queue!New(2) ELSE Queue!Absent
  BY <1>2, <1>3, <1>4
<1> QED BY <1>1, <1>5 DEF Queue!Init, Queue!JobIds, JobIds, Row, Grant

LEMMA NextImplements ==
    TypeOK /\ FencingInv /\ [Next]_vars => [Queue!Next]_(Queue!vars)
<1> SUFFICES ASSUME TypeOK, FencingInv, [Next]_vars PROVE [Queue!Next]_(Queue!vars)
    OBVIOUS
<1>1. QueueStep
  BY NextIsQueueStep
<1> QED
  BY <1>1, QuietImplements, LeaseImplements, LeaveImplements, SettleImplements,
     ReclaimImplements, ClaimImplements, EnqueueImplements, WithdrawImplements
     DEF QueueStep, RunStep

(* The queue promises what ProcessingQueue says: a job is started at most    *)
(* `max` times, only the holder of its current attempt settles it, and a    *)
(* settled job never moves again.                                           *)
THEOREM QueueImplemented ==
    ASSUME IdsIdentify
    PROVE  Spec => ImplementsQueue
<1>1. Init => Queue!Init
  BY InitImplements
<1>2. TypeOK /\ FencingInv /\ [Next]_vars => [Queue!Next]_(Queue!vars)
  BY NextImplements
<1> QED BY <1>1, <1>2, FencingHolds, PTL DEF Spec, Queue!Spec, ImplementsQueue
================================================================================
