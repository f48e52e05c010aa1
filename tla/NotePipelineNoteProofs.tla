------------------------ MODULE NotePipelineNoteProofs ------------------------
(***************************************************************************)
(* What becomes of the note, proved for any number of executions and jobs. *)
(*                                                                         *)
(* NoteInv holds whatever fails: what an execution remembers fits where it *)
(* is and the job it runs (ExecutionsInv), at most one unfinished job may  *)
(* read the document (JobsInv), and the columns of the note agree with     *)
(* each other (RowInv).  On it rests that the diagnosis is of the reading, *)
(* as long as no database error interrupts the job of an answer            *)
(* (MatchInv).                                                             *)
(*                                                                         *)
(* Steady: no lease is lost to a living execution, and no upload fails     *)
(* under a worker that started early.  Then whoever has a job in memory    *)
(* holds it (HeldInv), and a note in analysis has a job that will carry it *)
(* on (CarriedInv), whoever crashes and whatever the database does; a job  *)
(* of answers is of the note's round (RoundInv), and an open question      *)
(* finds the note stopped for it (QuestionInv).                            *)
(*                                                                         *)
(* Undisturbed: nothing fails but the storage, and that only where the     *)
(* file was stored before the analysis began.  Then one execution is at    *)
(* work at a time, and the note is as its job left it but for the end of   *)
(* an upload (OneAtWorkInv).                                               *)
(***************************************************************************)
EXTENDS NotePipelineProofs

--------------------------------------------------------------------------------
(* Jobs as the note sees them. *)

Full(j) == jobs[j].type = "FULL_AUDIT"
(* A job whose run may still read the document. *)
OpenFull(j) == Full(j) /\ Unfinished(j)

(* What no step does to the jobs: change the type of one or forget it; and  *)
(* what only the handlers that create a job do: open one.                   *)
RowsKept ==
    \A j \in JobIds :
      jobs[j].status # "ABSENT" => jobs'[j].status # "ABSENT" /\ (Full(j)' <=> Full(j))
NothingOpens ==
    \A j \in JobIds : /\ Unfinished(j)' => Unfinished(j)
                      /\ jobs'[j].status = "ABSENT" <=> jobs[j].status = "ABSENT"
                      /\ Full(j)' <=> Full(j)
Creates(j) ==
    \/ ScheduleNoteAuditRecovery(j) \/ ScheduleNoteReprocess(j) \/ SubmitContext(j)
    \/ ScheduleOrphanedNote /\ j = 1

LEMMA ClosingOpensNothing ==
    ASSUME TypeOK, NEW j \in JobIds, jobs[j].status = "RUNNING",
           NEW s \in {"SUCCEEDED", "FAILED", "CANCELLED"}, jobs' = CloseJob(j, s)
    PROVE  NothingOpens
<1>1. /\ \A i \in JobIds \ {j} : jobs'[i] = jobs[i]
      /\ jobs'[j].status = s /\ jobs'[j].type = jobs[j].type
  BY DEF CloseJob, TypeOK, JobRows
<1> QED BY <1>1 DEF NothingOpens, Unfinished, Full

LEMMA ExecutionsOpenNothing ==
    ASSUME TypeOK, NEW w \in Executions,
           \/ Advance(w) \/ InvalidConfiguration(w) \/ DisturbDatabase(w) \/ Crash(w)
           \/ Heartbeat(w) \/ \E j \in JobIds : ClaimProcessingJob(w, j)
    PROVE  NothingOpens
<1>1. CASE jobs' = jobs
  BY <1>1 DEF NothingOpens, Unfinished, Full
<1>2. CASE InvalidConfiguration(w) \/ DisturbDatabase(w) \/ Crash(w)
  BY <1>1, <1>2 DEF InvalidConfiguration, DisturbDatabase, Crash
<1>3. CASE Heartbeat(w)
  <2>1. \A i \in JobIds : /\ jobs'[i].status = jobs[i].status /\ jobs'[i].type = jobs[i].type
                          /\ jobs'[i].attempt = jobs[i].attempt /\ jobs'[i].max = jobs[i].max
    BY <1>3 DEF Heartbeat, TypeOK, JobRows
  <2> QED BY <2>1 DEF NothingOpens, Unfinished, Full
<1>4. ASSUME NEW j \in JobIds, ClaimProcessingJob(w, j) PROVE NothingOpens
  <2>1. \A i \in JobIds \ {j} : jobs'[i] = jobs[i]
    BY <1>4 DEF ClaimProcessingJob, TypeOK
  <2>3. jobs'[j].status = "RUNNING" /\ jobs'[j].type = jobs[j].type
    <3>1. jobs'[j] = [jobs[j] EXCEPT !.status = "RUNNING", !.attempt = jobs[j].attempt + 1,
                                     !.lockedBy = WorkerId(w), !.stale = FALSE]
      BY <1>4 DEF ClaimProcessingJob, TypeOK
    <3>2. jobs[j] \in JobRows
      BY DEF TypeOK
    <3> QED BY <3>1, <3>2 DEF JobRows
  <2>2. Unfinished(j) /\ jobs[j].status # "ABSENT"
    BY <1>4 DEF ClaimProcessingJob, CanClaim, Unfinished
  <2> QED BY <2>1, <2>2, <2>3 DEF NothingOpens, Unfinished, Full
<1>5. CASE Advance(w)
  <2>1. QuietStep \/ LeaveStep(w) \/ SettleStep(w)
    BY <1>5, AdvanceIsQueueStep
  <2>2. CASE QuietStep \/ LeaveStep(w)
    BY <1>1, <2>2 DEF QuietStep, LeaveStep
  <2>3. CASE SettleStep(w)
    <3>1. PICK s \in {"SUCCEEDED", "FAILED", "CANCELLED"} : jobs' = CloseJob(exec[w].job, s)
      BY <2>3 DEF SettleStep
    <3>2. exec[w].job \in JobIds /\ jobs[exec[w].job].status = "RUNNING"
      BY <2>3 DEF SettleStep, Holds
    <3> QED BY <3>1, <3>2, ClosingOpensNothing
  <2> QED BY <2>1, <2>2, <2>3
<1> QED BY <1>2, <1>3, <1>4, <1>5

LEMMA LeasesOpenNothing ==
    ASSUME TypeOK, NEW j \in JobIds, LeaseExpires(j) \/ RecoverLease(j)
    PROVE  NothingOpens
<1>1. CASE LeaseExpires(j)
  <2>1. \A i \in JobIds : /\ jobs'[i].status = jobs[i].status /\ jobs'[i].type = jobs[i].type
                          /\ jobs'[i].attempt = jobs[i].attempt /\ jobs'[i].max = jobs[i].max
    BY <1>1 DEF LeaseExpires, TypeOK, JobRows
  <2> QED BY <2>1 DEF NothingOpens, Unfinished, Full
<1>2. CASE RecoverLease(j)
  <2>1. PICK s \in {"SUCCEEDED", "FAILED", "CANCELLED"} : jobs' = CloseJob(j, s)
    BY <1>2 DEF RecoverLease, ReturnJob
  <2> QED BY <1>2, <2>1, ClosingOpensNothing DEF RecoverLease
<1> QED BY <1>1, <1>2

LEMMA UploadOpensNothing ==
    ASSUME TypeOK, UploadFails
    PROVE  NothingOpens /\ \A j \in JobIds : ~Unfinished(j)'
<1>1. \A j \in JobIds :
        IF jobs[j].status \in {"PENDING", "RUNNING", "FAILED"}
        THEN jobs'[j].status = "CANCELLED" /\ jobs'[j].type = jobs[j].type
        ELSE jobs'[j] = jobs[j]
  BY DEF UploadFails, TypeOK, JobRows
<1> QED BY <1>1 DEF NothingOpens, Unfinished, Full

(* A step creates a job or opens none. *)
LEMMA OnlyCreationOpens ==
    ASSUME TypeOK, [Next]_vars
    PROVE  NothingOpens \/ \E j \in JobIds : Creates(j)
<1>1. CASE \E w \in Executions :
             \/ Advance(w) \/ InvalidConfiguration(w) \/ DisturbDatabase(w) \/ Crash(w)
             \/ Heartbeat(w) \/ \E j \in JobIds : ClaimProcessingJob(w, j)
  BY <1>1, ExecutionsOpenNothing
<1>2. CASE \E j \in JobIds : LeaseExpires(j) \/ RecoverLease(j)
  BY <1>2, LeasesOpenNothing
<1>3. CASE \E j \in JobIds :
             ScheduleNoteAuditRecovery(j) \/ ScheduleNoteReprocess(j) \/ SubmitContext(j)
  BY <1>3 DEF Creates
<1>4. CASE ScheduleOrphanedNote
  BY <1>4, PipelineAssumption DEF Creates, JobIds
<1>5. CASE ConsumeTerminalStatus \/ SendFile \/ FileStored \/ UNCHANGED vars
  <2>1. jobs' = jobs
    BY <1>5 DEF ConsumeTerminalStatus, SendFile, FileStored, vars
  <2> QED BY <2>1 DEF NothingOpens, Unfinished, Full
<1>6. CASE UploadFails
  BY <1>6, UploadOpensNothing
<1> QED BY <1>1, <1>2, <1>3, <1>4, <1>5, <1>6 DEF Next

(* The rows after a handler created one. *)
LEMMA CreatedRows ==
    ASSUME TypeOK, NEW j \in JobIds, Creates(j)
    PROVE  /\ jobs[j].status = "ABSENT" /\ jobs'[j].status = "PENDING"
           /\ jobs'[j].lockedBy = NoWorker
           /\ Full(j)' <=> ~SubmitContext(j)
           /\ \A i \in JobIds \ {j} :
                \/ jobs'[i] = jobs[i]
                \/ /\ ScheduleNoteReprocess(j) /\ jobs[i].status = "FAILED"
                   /\ jobs'[i].status = "CANCELLED" /\ (Full(i)' <=> Full(i))
           /\ exec' = exec
<1>0. /\ NewJob("FULL_AUDIT", 2).type = "FULL_AUDIT" /\ NewJob("FULL_AUDIT", 3).type = "FULL_AUDIT"
      /\ NewJob("CONTEXT_REANALYSIS", 2).type # "FULL_AUDIT"
      /\ \A t \in {"FULL_AUDIT", "CONTEXT_REANALYSIS"} : \A m \in {2, 3} :
           NewJob(t, m).status = "PENDING" /\ NewJob(t, m).lockedBy = NoWorker
  BY DEF NewJob, NoJob
<1>1. CASE ScheduleNoteAuditRecovery(j)
  <2>1. ~SubmitContext(j)
    <3>1. SubmitContext(j) => jobs'[j].type = "CONTEXT_REANALYSIS"
      BY DEF SubmitContext, NewJob, NoJob, TypeOK
    <3>2. jobs'[j].type = "FULL_AUDIT"
      BY <1>1 DEF ScheduleNoteAuditRecovery, NewJob, NoJob, TypeOK
    <3> QED BY <3>1, <3>2
  <2> QED BY <1>0, <1>1, <2>1 DEF ScheduleNoteAuditRecovery, NextJob, Full, TypeOK
<1>2. CASE ScheduleNoteReprocess(j)
  <2>1. jobs'[j] = NewJob("FULL_AUDIT", 2)
    BY <1>2 DEF ScheduleNoteReprocess
  <2>2. ~SubmitContext(j)
    <3>1. SubmitContext(j) => jobs'[j].type = "CONTEXT_REANALYSIS"
      BY DEF SubmitContext, NewJob, NoJob, TypeOK
    <3> QED BY <1>0, <2>1, <3>1
  <2>3. \A i \in JobIds \ {j} :
          \/ jobs'[i] = jobs[i]
          \/ /\ jobs[i].status = "FAILED" /\ jobs'[i].status = "CANCELLED"
             /\ jobs'[i].type = jobs[i].type
    BY <1>2 DEF ScheduleNoteReprocess, TypeOK, JobRows
  <2> QED BY <1>0, <1>2, <2>1, <2>2, <2>3 DEF ScheduleNoteReprocess, NextJob, Full
<1>3. CASE SubmitContext(j)
  BY <1>0, <1>3 DEF SubmitContext, NextJob, Full, TypeOK
<1>4. CASE ScheduleOrphanedNote /\ j = 1
  <2>1. ~SubmitContext(j)
    <3>1. SubmitContext(j) => jobs'[j].type = "CONTEXT_REANALYSIS"
      BY DEF SubmitContext, NewJob, NoJob, TypeOK
    <3>2. jobs'[j].type = "FULL_AUDIT"
      BY <1>4 DEF ScheduleOrphanedNote, NewJob, NoJob, TypeOK
    <3> QED BY <3>1, <3>2
  <2> QED BY <1>0, <1>4, <2>1 DEF ScheduleOrphanedNote, Full, TypeOK
<1> QED BY <1>1, <1>2, <1>3, <1>4 DEF Creates

LEMMA EveryStepKeepsRows ==
    ASSUME TypeOK, [Next]_vars
    PROVE  RowsKept
<1>1. CASE NothingOpens
  BY <1>1 DEF NothingOpens, RowsKept
<1>2. ASSUME NEW j \in JobIds, Creates(j) PROVE RowsKept
  BY <1>2, CreatedRows DEF RowsKept, Full
<1> QED BY <1>1, <1>2, OnlyCreationOpens

--------------------------------------------------------------------------------
(* Every write of the row is a new version of it. *)

NoteVersioned == note' = note \/ note'.version = note.version + 1

LEMMA BumpFields ==
    ASSUME NEW n \in NoteRows
    PROVE  /\ Bump(n).version = n.version + 1
           /\ Bump(n).status = n.status /\ Bump(n).stage = n.stage /\ Bump(n).failure = n.failure
           /\ Bump(n).result = n.result /\ Bump(n).round = n.round /\ Bump(n).token = n.token
           /\ Bump(n).reading = n.reading /\ Bump(n).diagnosed = n.diagnosed
BY DEF Bump, NoteRows

(* The note moves on: its progress changes, and nothing that was found out. *)
Moves(stage, status, failure) ==
    /\ note'.version = note.version + 1
    /\ note'.stage = stage /\ note'.status = status /\ note'.failure = failure
    /\ note'.result = note.result /\ note'.round = note.round /\ note'.token = note.token
    /\ note'.reading = note.reading /\ note'.diagnosed = note.diagnosed

LEMMA GivenUp ==
    ASSUME note \in NoteRows, NEW code, note' = GiveUp(note, code)
    PROVE  Moves(IF code = "UNREADABLE" THEN "COMPLETED" ELSE "FAILED",
                 IF code = "UNREADABLE" THEN "READ_FAILED" ELSE "FAILED", code)
BY DEF GiveUp, Bump, NoteRows, Moves

LEMMA Retried ==
    ASSUME note \in NoteRows, NEW stage, NEW code, note' = ScheduleRetry(note, stage, code)
    PROVE  Moves(stage, "PROCESSING", code)
BY DEF ScheduleRetry, Bump, NoteRows, Moves

(* What an execution of the pipeline writes to the note, handler by handler. *)
LEMMA ExecutionWrites ==
    ASSUME TypeOK, NEW w \in Executions
    PROVE  /\ MarkAuditStarted(w) => Moves("ANALYZING", "PROCESSING", "NONE")
           /\ ClaimNote(w) =>
                note' = note \/ (CanExtract(w) /\ Moves("EXTRACTING", "PROCESSING", "NONE"))
           /\ PersistExtraction(w) =>
                \/ note' = note
                \/ /\ NoteUnchangedSince(w, "EXTRACTING")
                   /\ note'.version = note.version + 1 /\ note'.reading = note.version + 1
                   /\ note'.stage = "ANALYZING" /\ note'.status = note.status
                   /\ note'.failure = note.failure /\ note'.result = note.result
                   /\ note'.round = note.round /\ note'.token = note.token
                   /\ note'.diagnosed = note.diagnosed
           /\ FailExtraction(w) =>
                \/ note' = note
                \/ /\ NoteUnchangedSince(w, "EXTRACTING")
                   /\ \E code \in {"EXTRACTION", "UNREADABLE"} :
                        Moves(note.stage, note.status, code)
           /\ FailAudit(w) =>
                \/ note' = note
                \/ NoteUnchangedSince(w, "ANALYZING") /\ Moves(note.stage, note.status, "AUDIT")
           /\ \A class \in Classes, asks \in BOOLEAN : FinalizeAudit(w, class, asks) =>
                /\ NoteUnchangedSince(w, "ANALYZING") /\ MayConclude(w, class, asks)
                /\ note'.version = note.version + 1
                /\ note'.stage = "COMPLETED" /\ note'.status = StatusOf(class)
                /\ note'.result = IF class = "INSUFFICIENT" THEN "READ_FAILED" ELSE class
                /\ note'.failure \in {"AUDIT", "OTHER", "NONE"}
                /\ note'.failure # "NONE" => class \in {"INSUFFICIENT", "READ_FAILED"}
                /\ note'.round = TargetRound(w, class, asks) /\ note'.token = note.token
                /\ note'.reading = note.reading /\ note'.diagnosed = exec[w].reading
           /\ FindNoteState(w) \/ LoadAuditContext(w) \/ DiscardAudit(w) \/ CompleteJob(w)
              \/ InvalidConfiguration(w) \/ DisturbDatabase(w) \/ Crash(w) \/ Heartbeat(w)
              \/ (\E j \in JobIds : ClaimProcessingJob(w, j)) => note' = note
<1> note \in NoteRows
  BY DEF TypeOK
<1>1. MarkAuditStarted(w) => Moves("ANALYZING", "PROCESSING", "NONE")
  BY DEF MarkAuditStarted, Bump, NoteRows, Moves
<1>2. ClaimNote(w) =>
        note' = note \/ (CanExtract(w) /\ Moves("EXTRACTING", "PROCESSING", "NONE"))
  BY DEF ClaimNote, Bump, NoteRows, Moves
<1>3. PersistExtraction(w) =>
        \/ note' = note
        \/ /\ NoteUnchangedSince(w, "EXTRACTING")
           /\ note' = Bump([note EXCEPT !.stage = "ANALYZING", !.reading = note.version + 1])
  BY DEF PersistExtraction
<1>4. FailExtraction(w) =>
        \/ note' = note
        \/ /\ NoteUnchangedSince(w, "EXTRACTING")
           /\ \E code \in {"EXTRACTION", "UNREADABLE"} : Moves(note.stage, note.status, code)
  BY DEF FailExtraction, Bump, NoteRows, Moves
<1>5. FailAudit(w) =>
        \/ note' = note
        \/ NoteUnchangedSince(w, "ANALYZING") /\ Moves(note.stage, note.status, "AUDIT")
  BY DEF FailAudit, Bump, NoteRows, Moves
<1>6. ASSUME NEW class \in Classes, NEW asks \in BOOLEAN, FinalizeAudit(w, class, asks)
      PROVE  /\ NoteUnchangedSince(w, "ANALYZING") /\ MayConclude(w, class, asks)
             /\ note'.version = note.version + 1
             /\ note'.stage = "COMPLETED" /\ note'.status = StatusOf(class)
             /\ note'.result = IF class = "INSUFFICIENT" THEN "READ_FAILED" ELSE class
             /\ note'.failure \in {"AUDIT", "OTHER", "NONE"}
             /\ note'.failure # "NONE" => class \in {"INSUFFICIENT", "READ_FAILED"}
             /\ note'.round = TargetRound(w, class, asks) /\ note'.token = note.token
             /\ note'.reading = note.reading /\ note'.diagnosed = exec[w].reading
  BY <1>6 DEF FinalizeAudit, Bump, NoteRows
<1>7. FindNoteState(w) \/ LoadAuditContext(w) \/ DiscardAudit(w) \/ CompleteJob(w)
      \/ InvalidConfiguration(w) \/ DisturbDatabase(w) \/ Crash(w) \/ Heartbeat(w)
      \/ (\E j \in JobIds : ClaimProcessingJob(w, j)) => note' = note
  BY DEF FindNoteState, LoadAuditContext, DiscardAudit, CompleteJob, InvalidConfiguration,
         DisturbDatabase, Crash, Heartbeat, ClaimProcessingJob
<1>8. LET m == Bump([note EXCEPT !.stage = "ANALYZING", !.reading = note.version + 1])
      IN  /\ m.version = note.version + 1 /\ m.reading = note.version + 1
          /\ m.stage = "ANALYZING" /\ m.status = note.status
          /\ m.failure = note.failure /\ m.result = note.result
          /\ m.round = note.round /\ m.token = note.token /\ m.diagnosed = note.diagnosed
  BY DEF Bump, NoteRows
<1> QED BY <1>1, <1>2, <1>3, <1>4, <1>5, <1>6, <1>7, <1>8

(* How a failed attempt leaves the note. *)
GivesUp(w) ==
    /\ Holds(w) /\ Exhausted(exec[w].attempt, jobs[exec[w].job].max, exec[w].code)
    /\ ~HasDiagnosis(note) /\ ~HasFailed(note)
    /\ note.status \in {"RECEIVED", "PROCESSING", "FAILED"}
    /\ note' = GiveUp(note, exec[w].code)
Retries(w) ==
    /\ Holds(w) /\ ~Exhausted(exec[w].attempt, jobs[exec[w].job].max, exec[w].code)
    /\ ~HasDiagnosis(note) /\ note.stage # "COMPLETED"
    /\ note' = ScheduleRetry(note, IF Answers(w) \/ note.reading # 0 THEN "ANALYZING"
                                   ELSE "EXTRACTING", exec[w].code)
LEMMA FailureWrites ==
    ASSUME NEW w \in Executions, FailJob(w)
    PROVE  note' = note \/ GivesUp(w) \/ Retries(w)
<1> DEFINE gone == Exhausted(exec[w].attempt, jobs[exec[w].job].max, exec[w].code)
           waits == ScheduleRetry(note, IF Answers(w) \/ note.reading # 0 THEN "ANALYZING"
                                        ELSE "EXTRACTING", exec[w].code)
<1>1. \/ note' = note
      \/ /\ Holds(w) /\ gone /\ ~HasDiagnosis(note) /\ ~HasFailed(note)
         /\ note.status \in {"RECEIVED", "PROCESSING", "FAILED"}
         /\ note' = GiveUp(note, exec[w].code)
      \/ /\ Holds(w) /\ ~gone /\ ~HasDiagnosis(note) /\ note.stage # "COMPLETED"
         /\ note' = waits
  BY DEF FailJob
<1> QED BY <1>1 DEF GivesUp, Retries

(* What the other handlers write to it. *)
LEMMA HandlersWrite ==
    ASSUME TypeOK, NEW j \in JobIds
    PROVE  /\ LeaseExpires(j) => note' = note
           /\ RecoverLease(j) =>
                \/ note' = note
                \/ /\ note.stage # "COMPLETED" /\ jobs[j].attempt >= jobs[j].max
                   /\ Moves("FAILED", "FAILED", "OTHER")
                \/ /\ note.stage # "COMPLETED" /\ jobs[j].attempt < jobs[j].max
                   /\ \E code \in {"AUDIT", "EXTRACTION"} :
                        Moves(IF note.reading # 0 THEN "ANALYZING" ELSE "EXTRACTING", "PROCESSING", code)
           /\ ScheduleNoteAuditRecovery(j) =>
                /\ note'.version = note.version + 1 /\ note'.stage = "ANALYZING"
                /\ note'.status = "PROCESSING" /\ note'.failure = "NONE" /\ note'.result = "NONE"
                /\ note'.round = note.round /\ note'.token = note.token
                /\ note'.reading = note.reading /\ note'.diagnosed = note.diagnosed
           /\ ScheduleNoteReprocess(j) =>
                /\ note'.version = note.version + 1 /\ note'.stage = "RECEIVED"
                /\ note'.status = "RECEIVED" /\ note'.failure = "NONE" /\ note'.result = "NONE"
                /\ note'.round = asked + 1 /\ note'.token = "revoked" /\ note'.reading = 0
           /\ SubmitContext(j) => Moves("ANALYZING", "PROCESSING", "NONE")
           /\ ScheduleOrphanedNote \/ SendFile => note' = note
           /\ ConsumeTerminalStatus =>
                /\ note'.version = note.version + 1
                /\ note'.stage = note.stage /\ note'.status = note.status
                /\ note'.failure = note.failure /\ note'.result = note.result
                /\ note'.round = note.round /\ note'.token = "revoked"
                /\ note'.reading = note.reading /\ note'.diagnosed = note.diagnosed
           /\ FileStored => Moves(note.stage, note.status, "NONE")
           /\ UploadFails => Moves("FAILED", "FAILED", "OTHER")
<1> note \in NoteRows /\ jobs[j].attempt \in Nat /\ jobs[j].max \in Nat
  BY JobFields DEF TypeOK
<1>1. LeaseExpires(j) => note' = note
  BY DEF LeaseExpires
<1>2. ASSUME RecoverLease(j)
      PROVE  \/ note' = note
             \/ /\ note.stage # "COMPLETED" /\ jobs[j].attempt >= jobs[j].max
                /\ Moves("FAILED", "FAILED", "OTHER")
             \/ /\ note.stage # "COMPLETED" /\ jobs[j].attempt < jobs[j].max
                /\ \E code \in {"AUDIT", "EXTRACTION"} :
                     Moves(IF note.reading # 0 THEN "ANALYZING" ELSE "EXTRACTING", "PROCESSING", code)
  <2>1. \/ note' = note
        \/ /\ note.stage # "COMPLETED" /\ jobs[j].attempt >= jobs[j].max
           /\ note' = GiveUp(note, "OTHER")
        \/ /\ note.stage # "COMPLETED" /\ ~(jobs[j].attempt >= jobs[j].max)
           /\ \E code \in {"AUDIT", "EXTRACTION"} :
                note' = ScheduleRetry(note, IF note.reading # 0 THEN "ANALYZING" ELSE "EXTRACTING", code)
    BY <1>2 DEF RecoverLease
  <2>2. note' = GiveUp(note, "OTHER") => Moves("FAILED", "FAILED", "OTHER")
    BY GivenUp
  <2>3. \A code : note' = ScheduleRetry(note, IF note.reading # 0 THEN "ANALYZING" ELSE "EXTRACTING", code)
          => Moves(IF note.reading # 0 THEN "ANALYZING" ELSE "EXTRACTING", "PROCESSING", code)
    BY Retried
  <2> QED BY <2>1, <2>2, <2>3
<1>3. ScheduleNoteAuditRecovery(j) =>
        /\ note'.version = note.version + 1 /\ note'.stage = "ANALYZING"
        /\ note'.status = "PROCESSING" /\ note'.failure = "NONE" /\ note'.result = "NONE"
        /\ note'.round = note.round /\ note'.token = note.token
        /\ note'.reading = note.reading /\ note'.diagnosed = note.diagnosed
  BY DEF ScheduleNoteAuditRecovery, Bump, NoteRows
<1>4. ScheduleNoteReprocess(j) =>
        /\ note'.version = note.version + 1 /\ note'.stage = "RECEIVED"
        /\ note'.status = "RECEIVED" /\ note'.failure = "NONE" /\ note'.result = "NONE"
        /\ note'.round = asked + 1 /\ note'.token = "revoked" /\ note'.reading = 0
  BY DEF ScheduleNoteReprocess, Bump, NoteRows
<1>5. SubmitContext(j) => Moves("ANALYZING", "PROCESSING", "NONE")
  BY DEF SubmitContext, Bump, NoteRows, Moves
<1>6. ScheduleOrphanedNote \/ SendFile => note' = note
  BY DEF ScheduleOrphanedNote, SendFile
<1>7. ConsumeTerminalStatus =>
        /\ note'.version = note.version + 1
        /\ note'.stage = note.stage /\ note'.status = note.status
        /\ note'.failure = note.failure /\ note'.result = note.result
        /\ note'.round = note.round /\ note'.token = "revoked"
        /\ note'.reading = note.reading /\ note'.diagnosed = note.diagnosed
  BY DEF ConsumeTerminalStatus, Bump, NoteRows
<1>8. FileStored => Moves(note.stage, note.status, "NONE")
  BY DEF FileStored, Bump, NoteRows, Moves
<1>9. UploadFails => Moves("FAILED", "FAILED", "OTHER")
  BY GivenUp DEF UploadFails
<1> QED BY <1>1, <1>2, <1>3, <1>4, <1>5, <1>6, <1>7, <1>8, <1>9

LEMMA VersionsGrow ==
    ASSUME TypeOK, [Next]_vars
    PROVE  NoteVersioned
<1> USE DEF NoteVersioned
<1>1. ASSUME NEW w \in Executions, Advance(w) PROVE NoteVersioned
  <2>1. CASE FailJob(w)
    <3>1. note \in NoteRows
      BY DEF TypeOK
    <3> QED BY <2>1, <3>1, FailureWrites, GivenUp, Retried DEF GivesUp, Retries, Moves
  <2>2. CASE ~FailJob(w)
    BY <1>1, <2>2, ExecutionWrites DEF Advance, Moves
  <2> QED BY <2>1, <2>2
<1>2. ASSUME NEW w \in Executions,
             \/ InvalidConfiguration(w) \/ DisturbDatabase(w) \/ Crash(w) \/ Heartbeat(w)
             \/ \E j \in JobIds : ClaimProcessingJob(w, j)
      PROVE  NoteVersioned
  BY <1>2, ExecutionWrites
<1>3. ASSUME NEW j \in JobIds,
             \/ LeaseExpires(j) \/ RecoverLease(j) \/ ScheduleNoteAuditRecovery(j)
             \/ ScheduleNoteReprocess(j) \/ SubmitContext(j)
      PROVE  NoteVersioned
  BY <1>3, HandlersWrite DEF Moves
<1>4. CASE ScheduleOrphanedNote \/ ConsumeTerminalStatus \/ SendFile \/ FileStored \/ UploadFails
  <2>1. 1 \in JobIds
    BY PipelineAssumption DEF JobIds
  <2> QED BY <1>4, <2>1, HandlersWrite DEF Moves
<1>5. CASE UNCHANGED vars
  BY <1>5 DEF vars
<1> QED BY <1>1, <1>2, <1>3, <1>4, <1>5 DEF Next

--------------------------------------------------------------------------------
(* What an execution remembers, whatever fails: its job was created, the     *)
(* job of an answer never reads the document, and a reading it is judging is *)
(* the note's while the version it loaded is.                                *)

ExecutionOK(w) ==
    /\ exec[w].step = "idle" <=> exec[w].job = 0
    /\ exec[w].step # "idle" => jobs[exec[w].job].status # "ABSENT"
    /\ exec[w].step # "idle" /\ ~Full(exec[w].job) =>
         /\ exec[w].step \notin {"claim", "read"}
         /\ exec[w].code \notin {"EXTRACTION", "UNREADABLE"}
    /\ exec[w].version <= note.version
    /\ exec[w].step = "judge" => exec[w].reading # 0
    /\ exec[w].step = "judge" /\ exec[w].version = note.version => exec[w].reading = note.reading
    /\ exec[w].step # "fail" => exec[w].code = "NONE"
    /\ "db_error" \notin Faults => exec[w].code \notin {"DATABASE", "PIPELINE_FAILED"}
    /\ exec[w].code # "OTHER"
ExecutionsInv == \A w \in Executions : ExecutionOK(w)

LEMMA ExecFields ==
    ASSUME TypeOK, NEW w \in Executions
    PROVE  /\ exec[w] \in Memory /\ exec[w].version \in Nat /\ exec[w].reading \in Nat
           /\ exec[w].attempt \in Nat /\ exec[w].code \in Codes /\ exec[w].step \in Steps
           /\ exec[w].job \in 0..MaxJobs /\ (exec[w].job # 0 => exec[w].job \in JobIds)
           /\ note.version \in Nat /\ note.reading \in Nat /\ note.round \in Nat
<1>1. exec[w] \in Memory /\ note \in NoteRows
  BY DEF TypeOK
<1>2. \A j \in 0..MaxJobs : j # 0 => j \in JobIds
  BY PipelineAssumption DEF JobIds
<1> QED BY <1>1, <1>2 DEF Memory, NoteRows

(* Whoever does not act goes on remembering what it did. *)
LEMMA OthersRemember ==
    ASSUME TypeOK, [Next]_vars, NEW v \in Executions, ExecutionOK(v), exec'[v] = exec[v]
    PROVE  ExecutionOK(v)'
<1>1. NoteVersioned /\ RowsKept
  BY VersionsGrow, EveryStepKeepsRows
<1>2. /\ exec[v].version \in Nat /\ note.version \in Nat
      /\ (exec[v].step # "idle" => exec[v].job \in JobIds)
  BY ExecFields DEF ExecutionOK
<1>3. exec[v].step # "idle" =>
        jobs'[exec[v].job].status # "ABSENT" /\ (Full(exec[v].job)' <=> Full(exec[v].job))
  BY <1>1, <1>2 DEF RowsKept, ExecutionOK, Full
<1>4. exec[v].version <= note'.version
  BY <1>1, <1>2 DEF NoteVersioned, ExecutionOK
<1>5. exec[v].version = note'.version => note' = note
  BY <1>1, <1>2 DEF NoteVersioned, ExecutionOK
<1>6. exec[v].step # "idle" => (Full(exec[v].job)' <=> jobs'[exec'[v].job].type = "FULL_AUDIT")
  BY DEF Full
<1> QED BY <1>3, <1>4, <1>5, <1>6 DEF ExecutionOK, Full

LEMMA IdleRemembers ==
    ASSUME TypeOK, [Next]_vars, NEW w \in Executions, exec'[w] = Idle
    PROVE  ExecutionOK(w)'
<1>1. note'.version \in Nat
  BY NextTyped DEF TypeOK, NoteRows
<1> QED BY <1>1 DEF ExecutionOK, Idle

(* A handler that fails, or goes on to a step that remembers nothing new. *)
LEMMA FailingRemembers ==
    ASSUME TypeOK, [Next]_vars, NEW w \in Executions, ExecutionOK(w),
           exec[w].step # "idle", NEW code \in {"EXTRACTION", "UNREADABLE", "AUDIT", "DATABASE", "PIPELINE_FAILED"},
           code \in {"EXTRACTION", "UNREADABLE"} => Full(exec[w].job),
           code \in {"DATABASE", "PIPELINE_FAILED"} => "db_error" \in Faults,
           FailWith(w, code)
    PROVE  ExecutionOK(w)'
<1>1. NoteVersioned /\ RowsKept
  BY VersionsGrow, EveryStepKeepsRows
<1>2. exec[w] \in Memory /\ exec[w].version \in Nat /\ note.version \in Nat /\ exec[w].job \in JobIds
  BY ExecFields DEF ExecutionOK
<1>3. /\ exec'[w].step = "fail" /\ exec'[w].code = code /\ exec'[w].job = exec[w].job
      /\ exec'[w].version = exec[w].version
  BY <1>2 DEF FailWith, TypeOK, Memory
<1>4. jobs'[exec[w].job].status # "ABSENT" /\ (jobs'[exec[w].job].type = "FULL_AUDIT" <=> Full(exec[w].job))
  BY <1>1, <1>2 DEF RowsKept, ExecutionOK, Full
<1>5. exec[w].version <= note'.version /\ exec[w].job # 0
  BY <1>1, <1>2, PipelineAssumption DEF NoteVersioned, ExecutionOK, JobIds
<1> QED BY <1>3, <1>4, <1>5 DEF ExecutionOK, Full

LEMMA ContinuingRemembers ==
    ASSUME TypeOK, [Next]_vars, NEW w \in Executions, ExecutionOK(w),
           exec[w].step \notin {"idle", "fail"},
           NEW step \in {"mark", "claim", "audit", "complete"},
           step = "claim" => Full(exec[w].job), Continue(w, step)
    PROVE  ExecutionOK(w)'
<1>1. NoteVersioned /\ RowsKept
  BY VersionsGrow, EveryStepKeepsRows
<1>2. exec[w] \in Memory /\ exec[w].version \in Nat /\ note.version \in Nat /\ exec[w].job \in JobIds
  BY ExecFields DEF ExecutionOK
<1>3. /\ exec'[w].step = step /\ exec'[w].code = exec[w].code /\ exec'[w].job = exec[w].job
      /\ exec'[w].version = exec[w].version
  BY <1>2 DEF Continue, TypeOK, Memory
<1>4. jobs'[exec[w].job].status # "ABSENT" /\ (jobs'[exec[w].job].type = "FULL_AUDIT" <=> Full(exec[w].job))
  BY <1>1, <1>2 DEF RowsKept, ExecutionOK, Full
<1>5. exec[w].version <= note'.version /\ exec[w].job # 0
  BY <1>1, <1>2, PipelineAssumption DEF NoteVersioned, ExecutionOK, JobIds
<1> QED BY <1>3, <1>4, <1>5 DEF ExecutionOK, Full

(* An execution of an answer's job audits: it is never sent to read. *)
LEMMA AnswersAreAudited ==
    ASSUME TypeOK, NEW w \in Executions, exec[w].job \in JobIds
    PROVE  Answers(w) <=> ~Full(exec[w].job)
BY DEF TypeOK, JobRows, Answers, Full

LEMMA AdvanceRemembers ==
    ASSUME TypeOK, [Next]_vars, NEW w \in Executions, ExecutionOK(w), Advance(w)
    PROVE  ExecutionOK(w)'
<1>0. /\ exec[w] \in Memory /\ exec[w].version \in Nat /\ note.version \in Nat
      /\ (exec[w].step # "idle" => exec[w].job \in JobIds)
  BY ExecFields DEF ExecutionOK
<1>1. CASE FindNoteState(w)
  <2>1. ~Full(exec[w].job) => ShouldRunAuditWithoutExtraction(w)
    BY <1>0, <1>1, AnswersAreAudited DEF FindNoteState, ShouldRunAuditWithoutExtraction
  <2>2. PICK step \in {"mark", "claim"} : Continue(w, step) /\ (step = "claim" => Full(exec[w].job))
    BY <1>1, <2>1 DEF FindNoteState
  <2> QED BY <1>1, <2>2, ContinuingRemembers DEF FindNoteState
<1>2. CASE MarkAuditStarted(w)
  BY <1>2, ContinuingRemembers DEF MarkAuditStarted
<1>3. CASE ClaimNote(w)
  <2>0. Full(exec[w].job) /\ exec[w].step = "claim"
    BY <1>3 DEF ClaimNote, ExecutionOK
  <2>1. CASE FailWith(w, "EXTRACTION")
    BY <2>0, <2>1, FailingRemembers
  <2>2. CASE exec' = [exec EXCEPT ![w].step = "read", ![w].version = note.version + 1]
    <3>1. note'.version = note.version + 1
      <4>1. note' # note \/ CanExtract(w) \/ FailWith(w, "EXTRACTION")
        BY <1>3 DEF ClaimNote
      <4>2. exec'[w].step = "read"
        BY <1>0, <2>2 DEF TypeOK, Memory
      <4>3. ~FailWith(w, "EXTRACTION")
        BY <1>0, <4>2 DEF FailWith, TypeOK, Memory
      <4>4. note' = Bump([note EXCEPT !.stage = "EXTRACTING", !.status = "PROCESSING", !.failure = "NONE"])
        BY <1>3, <4>3 DEF ClaimNote
      <4> QED BY <4>4 DEF Bump, TypeOK, NoteRows
    <3>2. /\ exec'[w].step = "read" /\ exec'[w].code = exec[w].code /\ exec'[w].job = exec[w].job
          /\ exec'[w].version = note.version + 1
      BY <1>0, <2>2 DEF TypeOK, Memory
    <3>3. RowsKept /\ exec[w].job \in JobIds /\ exec[w].job # 0
      BY <1>0, <2>0, EveryStepKeepsRows, PipelineAssumption DEF JobIds
    <3>4. jobs'[exec[w].job].status # "ABSENT" /\ (jobs'[exec[w].job].type = "FULL_AUDIT" <=> Full(exec[w].job))
      BY <2>0, <3>3 DEF RowsKept, ExecutionOK, Full
    <3> QED BY <1>0, <2>0, <3>1, <3>2, <3>3, <3>4 DEF ExecutionOK, Full
  <2> QED BY <1>3, <2>1, <2>2 DEF ClaimNote
<1>4. CASE PersistExtraction(w)
  <2>1. Full(exec[w].job) /\ exec[w].step = "read"
    BY <1>4 DEF PersistExtraction, ExecutionOK
  <2>2. Continue(w, "audit") \/ FailWith(w, "EXTRACTION")
    BY <1>4 DEF PersistExtraction
  <2> QED BY <2>1, <2>2, ContinuingRemembers, FailingRemembers
<1>5. CASE FailExtraction(w)
  <2>1. Full(exec[w].job) /\ exec[w].step = "read"
    BY <1>5 DEF FailExtraction, ExecutionOK
  <2>2. FailWith(w, "EXTRACTION") \/ FailWith(w, "UNREADABLE")
    BY <1>5 DEF FailExtraction
  <2> QED BY <2>1, <2>2, FailingRemembers
<1>6. CASE LoadAuditContext(w)
  <2>1. CASE FailWith(w, "AUDIT")
    BY <1>6, <2>1, FailingRemembers DEF LoadAuditContext
  <2>2. CASE /\ note.reading # 0
             /\ exec' = [exec EXCEPT ![w].step = "judge", ![w].version = note.version,
                                     ![w].reading = note.reading]
    <3>1. note' = note /\ jobs' = jobs /\ exec[w].step = "audit"
      BY <1>6 DEF LoadAuditContext
    <3>2. /\ exec'[w].step = "judge" /\ exec'[w].code = exec[w].code /\ exec'[w].job = exec[w].job
          /\ exec'[w].version = note.version /\ exec'[w].reading = note.reading
      BY <1>0, <2>2 DEF TypeOK, Memory
    <3> QED BY <1>0, <2>2, <3>1, <3>2 DEF ExecutionOK, Full
  <2> QED BY <1>6, <2>1, <2>2 DEF LoadAuditContext
<1>7. CASE DiscardAudit(w) \/ FailAudit(w)
  BY <1>7, FailingRemembers DEF DiscardAudit, FailAudit
<1>8. CASE \E class \in Classes, asks \in BOOLEAN : FinalizeAudit(w, class, asks)
  BY <1>8, ContinuingRemembers DEF FinalizeAudit
<1>9. CASE CompleteJob(w) \/ FailJob(w)
  <2>1. exec'[w] = Idle
    BY <1>9 DEF CompleteJob, FailJob, TypeOK
  <2> QED BY <2>1, IdleRemembers
<1> QED BY <1>1, <1>2, <1>3, <1>4, <1>5, <1>6, <1>7, <1>8, <1>9 DEF Advance

(* Only the execution that acts changes what it remembers. *)
LEMMA OneActs ==
    ASSUME TypeOK, NEW w \in Executions,
           \/ Advance(w) \/ InvalidConfiguration(w) \/ DisturbDatabase(w) \/ Crash(w)
           \/ Heartbeat(w) \/ \E j \in JobIds : ClaimProcessingJob(w, j)
    PROVE  \A v \in Executions \ {w} : exec'[v] = exec[v]
<1> exec \in [Executions -> Memory]
  BY DEF TypeOK
<1>1. CASE Advance(w)
  <2>1. \/ FindNoteState(w) \/ MarkAuditStarted(w) \/ PersistExtraction(w) \/ FailExtraction(w)
        \/ DiscardAudit(w) \/ FailAudit(w)
        \/ \E class \in Classes, asks \in BOOLEAN : FinalizeAudit(w, class, asks)
        => \A v \in Executions \ {w} : exec'[v] = exec[v]
    BY DEF FindNoteState, MarkAuditStarted, PersistExtraction, FailExtraction, DiscardAudit,
           FailAudit, FinalizeAudit, Continue, FailWith
  <2>2. ClaimNote(w) \/ LoadAuditContext(w) \/ CompleteJob(w) \/ FailJob(w)
        => \A v \in Executions \ {w} : exec'[v] = exec[v]
    BY DEF ClaimNote, LoadAuditContext, CompleteJob, FailJob, FailWith
  <2> QED BY <1>1, <2>1, <2>2 DEF Advance
<1>2. CASE InvalidConfiguration(w) \/ DisturbDatabase(w) \/ Crash(w) \/ Heartbeat(w)
  BY <1>2 DEF InvalidConfiguration, DisturbDatabase, Crash, Heartbeat, FailWith
<1>3. CASE \E j \in JobIds : ClaimProcessingJob(w, j)
  BY <1>3 DEF ClaimProcessingJob
<1> QED BY <1>1, <1>2, <1>3
LEMMA OthersLeaveMemory ==
    ASSUME NEW j \in JobIds,
           \/ LeaseExpires(j) \/ RecoverLease(j) \/ ScheduleNoteAuditRecovery(j)
           \/ ScheduleNoteReprocess(j) \/ SubmitContext(j) \/ ScheduleOrphanedNote
           \/ ConsumeTerminalStatus \/ SendFile \/ FileStored \/ UploadFails \/ UNCHANGED vars
    PROVE  exec' = exec
BY DEF LeaseExpires, RecoverLease, ScheduleNoteAuditRecovery, ScheduleNoteReprocess, SubmitContext,
       ScheduleOrphanedNote, ConsumeTerminalStatus, SendFile, FileStored, UploadFails, vars

LEMMA NextRemembers ==
    TypeOK /\ ExecutionsInv /\ [Next]_vars => ExecutionsInv'
<1> SUFFICES ASSUME TypeOK, ExecutionsInv, [Next]_vars, NEW v \in Executions
             PROVE  ExecutionOK(v)'
  BY DEF ExecutionsInv
<1>0. ExecutionOK(v)
  BY DEF ExecutionsInv
<1>1. ASSUME NEW w \in Executions,
             \/ Advance(w) \/ InvalidConfiguration(w) \/ DisturbDatabase(w) \/ Crash(w)
             \/ Heartbeat(w) \/ \E j \in JobIds : ClaimProcessingJob(w, j)
      PROVE  ExecutionOK(v)'
  <2>1. CASE v # w
    BY <1>0, <1>1, <2>1, OneActs, OthersRemember
  <2>2. CASE v = w /\ Advance(w)
    BY <1>0, <2>2, AdvanceRemembers
  <2>3. CASE v = w /\ (InvalidConfiguration(w) \/ DisturbDatabase(w))
    <3>1. InvalidConfiguration(w) => Full(exec[w].job)
      BY <1>0, <2>3 DEF InvalidConfiguration, ExecutionOK
    <3> QED BY <1>0, <2>3, <3>1, FailingRemembers DEF InvalidConfiguration, DisturbDatabase
  <2>4. CASE v = w /\ Crash(w)
    <3>1. exec'[w] = Idle
      BY <2>4 DEF Crash, TypeOK
    <3> QED BY <2>4, <3>1, IdleRemembers
  <2>5. CASE v = w /\ Heartbeat(w)
    BY <1>0, <2>5, OthersRemember DEF Heartbeat
  <2>6. ASSUME NEW j \in JobIds, v = w, ClaimProcessingJob(w, j) PROVE ExecutionOK(v)'
    <3>1. /\ exec'[w].step = "start" /\ exec'[w].job = j /\ exec'[w].version = 0
          /\ exec'[w].code = "NONE"
      BY <2>6 DEF ClaimProcessingJob, Idle, TypeOK
    <3>2. jobs'[j].status # "ABSENT" /\ note' = note /\ j # 0 /\ note.version \in Nat
      BY <2>6, EveryStepKeepsRows, PipelineAssumption
         DEF ClaimProcessingJob, CanClaim, RowsKept, JobIds, TypeOK, NoteRows
    <3> QED BY <2>6, <3>1, <3>2 DEF ExecutionOK
  <2> QED BY <1>1, <2>1, <2>2, <2>3, <2>4, <2>5, <2>6
<1>2. CASE exec' = exec
  BY <1>0, <1>2, OthersRemember
<1> QED BY <1>1, <1>2, OthersLeaveMemory, PipelineAssumption DEF Next, JobIds

LEMMA InitRemembers == Init => ExecutionsInv
BY DEF Init, ExecutionsInv, ExecutionOK, Idle

--------------------------------------------------------------------------------
(* Jobs and submissions, whatever fails: at most one job may still read the  *)
(* document, and exactly the jobs of answers have a submission.              *)

JobsInv ==
    /\ \A i, j \in JobIds : OpenFull(i) /\ OpenFull(j) => i = j
    /\ \A j \in JobIds :
         /\ jobs[j].status = "ABSENT" => Full(j)
         /\ submission[j].status # "NONE" <=> ~Full(j)
         /\ ~Full(j) => submission[j].round # 0

(* No step but a submission changes which rounds were answered by which job. *)
SubmissionsKept ==
    \A j \in JobIds : /\ submission'[j].round = submission[j].round
                      /\ submission'[j].status = "NONE" <=> submission[j].status = "NONE"

LEMMA ReleaseKeeps ==
    ASSUME TypeOK, NEW j \in JobIds, ReleaseSubmission(j)
    PROVE  SubmissionsKept
<1>1. submission \in [JobIds -> Submissions]
  BY DEF TypeOK
<1>2. [submission EXCEPT ![j].status = "FAILED"][j].round = submission[j].round
  BY <1>1 DEF Submissions
<1>3. [submission EXCEPT ![j].status = "FAILED"][j].status = "FAILED"
  BY <1>1 DEF Submissions
<1>4. \A i \in JobIds \ {j} : [submission EXCEPT ![j].status = "FAILED"][i] = submission[i]
  BY <1>1
<1> QED BY <1>2, <1>3, <1>4 DEF ReleaseSubmission, SubmissionsKept

(* The type of a job that a handler creates. *)
LEMMA CreatedTypes ==
    ASSUME TypeOK, NEW j \in JobIds
    PROVE  /\ ScheduleNoteAuditRecovery(j) => jobs'[j].type = "FULL_AUDIT"
           /\ SubmitContext(j) => jobs'[j].type = "CONTEXT_REANALYSIS" /\ jobs' # jobs
<1>1. \A job : [jobs EXCEPT ![j] = job][j] = job
  BY DEF TypeOK
<1>2. /\ NewJob("FULL_AUDIT", 2).type = "FULL_AUDIT"
      /\ NewJob("CONTEXT_REANALYSIS", 2).type = "CONTEXT_REANALYSIS"
      /\ NewJob("CONTEXT_REANALYSIS", 2).status = "PENDING"
  BY DEF NewJob, NoJob
<1>3. ScheduleNoteAuditRecovery(j) => jobs'[j].type = "FULL_AUDIT"
  <2> HAVE ScheduleNoteAuditRecovery(j)
  <2>1. jobs' = [jobs EXCEPT ![j] = NewJob("FULL_AUDIT", 2)]
    BY DEF ScheduleNoteAuditRecovery
  <2> QED BY <1>1, <1>2, <2>1
<1>4. SubmitContext(j) => jobs'[j].type = "CONTEXT_REANALYSIS" /\ jobs' # jobs
  <2> HAVE SubmitContext(j)
  <2>1. jobs' = [jobs EXCEPT ![j] = NewJob("CONTEXT_REANALYSIS", 2)] /\ jobs[j].status = "ABSENT"
    BY DEF SubmitContext, NextJob
  <2> QED BY <1>1, <1>2, <2>1
<1> QED BY <1>3, <1>4

LEMMA OnlyAnswersSubmit ==
    ASSUME TypeOK, ExecutionsInv, JobsInv, [Next]_vars, \A j \in JobIds : ~SubmitContext(j)
    PROVE  SubmissionsKept
<1>1. CASE submission' = submission
  BY <1>1 DEF SubmissionsKept
<1>2. ASSUME NEW w \in Executions, NEW class \in Classes, NEW asks \in BOOLEAN,
             FinalizeAudit(w, class, asks)
      PROVE  SubmissionsKept
  <2> DEFINE j == exec[w].job
  <2>1. j \in JobIds
    BY <1>2, ExecFields DEF FinalizeAudit, ExecutionsInv, ExecutionOK
  <2>2. CASE Answers(w)
    <3>1. submission[j].status # "NONE"
      BY <2>1, <2>2, AnswersAreAudited DEF JobsInv
    <3>2. submission' = [submission EXCEPT ![j].status = "COMPLETED"]
      BY <1>2, <2>2 DEF FinalizeAudit
    <3> HIDE DEF j
    <3>3. submission \in [JobIds -> Submissions]
      BY DEF TypeOK
    <3>4. submission'[j].round = submission[j].round /\ submission'[j].status = "COMPLETED"
      BY <2>1, <3>2, <3>3 DEF Submissions
    <3>5. \A i \in JobIds \ {j} : submission'[i] = submission[i]
      BY <2>1, <3>2, <3>3
    <3> QED BY <3>1, <3>4, <3>5 DEF SubmissionsKept
  <2>3. CASE ~Answers(w)
    BY <1>1, <1>2, <2>3 DEF FinalizeAudit
  <2> QED BY <2>2, <2>3
<1>3. ASSUME NEW w \in Executions, FailJob(w) PROVE SubmissionsKept
  <2>1. submission' = submission \/ (Holds(w) /\ ReleaseSubmission(exec[w].job))
    BY <1>3 DEF FailJob
  <2> QED BY <1>1, <2>1, ReleaseKeeps DEF Holds
<1>4. ASSUME NEW j \in JobIds, RecoverLease(j) PROVE SubmissionsKept
  <2>1. submission' = submission \/ ReleaseSubmission(j)
    BY <1>4 DEF RecoverLease
  <2> QED BY <1>1, <2>1, ReleaseKeeps
<1>5. ASSUME NEW w \in Executions, Advance(w) PROVE SubmissionsKept
  <2>1. CASE \/ FindNoteState(w) \/ MarkAuditStarted(w) \/ PersistExtraction(w) \/ FailExtraction(w)
             \/ DiscardAudit(w) \/ FailAudit(w)
             \/ ClaimNote(w) \/ LoadAuditContext(w) \/ CompleteJob(w)
    BY <1>1, <2>1 DEF FindNoteState, MarkAuditStarted, PersistExtraction, FailExtraction,
           DiscardAudit, FailAudit, ClaimNote, LoadAuditContext, CompleteJob
  <2> QED BY <1>2, <1>3, <1>5, <2>1 DEF Advance
<1>6. ASSUME NEW w \in Executions,
             \/ InvalidConfiguration(w) \/ DisturbDatabase(w) \/ Crash(w) \/ Heartbeat(w)
             \/ \E j \in JobIds : ClaimProcessingJob(w, j)
      PROVE  SubmissionsKept
  BY <1>1, <1>6 DEF InvalidConfiguration, DisturbDatabase, Crash, Heartbeat, ClaimProcessingJob
<1>7. CASE \/ \E j \in JobIds : LeaseExpires(j) \/ ScheduleNoteAuditRecovery(j)
                               \/ ScheduleNoteReprocess(j)
           \/ ScheduleOrphanedNote \/ ConsumeTerminalStatus \/ SendFile \/ FileStored \/ UploadFails
           \/ UNCHANGED vars
  BY <1>1, <1>7 DEF LeaseExpires, ScheduleNoteAuditRecovery, ScheduleNoteReprocess,
         ScheduleOrphanedNote, ConsumeTerminalStatus, SendFile, FileStored, UploadFails, vars
<1> QED BY <1>4, <1>5, <1>6, <1>7 DEF Next

(* A handler that creates a job finds no other that may still read. *)
LEMMA CreationFindsNoFull ==
    ASSUME TypeOK, NEW j \in JobIds, Creates(j), ~SubmitContext(j)
    PROVE  \A i \in JobIds \ {j} : ~Unfinished(i)'
<1>0. \A i \in JobIds \ {j} :
        \/ jobs'[i] = jobs[i]
        \/ ScheduleNoteReprocess(j) /\ jobs'[i].status = "CANCELLED"
  BY CreatedRows
<1>1. CASE ScheduleNoteAuditRecovery(j)
  BY <1>0, <1>1 DEF ScheduleNoteAuditRecovery, Unfinished
<1>2. CASE ScheduleNoteReprocess(j)
  <2>1. \A i \in JobIds \ {j} : jobs[i].status \notin {"PENDING", "RUNNING"}
    BY <1>2 DEF ScheduleNoteReprocess
  <2>2. \A i \in JobIds \ {j} : jobs'[i].status # "FAILED"
    <3>1. \A i \in JobIds \ {j} : jobs[i].status = "FAILED" => jobs'[i].status = "CANCELLED"
      BY <1>2 DEF ScheduleNoteReprocess, TypeOK, JobRows
    <3> QED BY <1>0, <3>1
  <2> QED BY <1>0, <2>1, <2>2 DEF Unfinished
<1>3. CASE ScheduleOrphanedNote
  <2>1. jobs'[j].status # "ABSENT" /\ \A i \in JobIds \ {j} : jobs[i].status = "ABSENT"
    BY <1>3, CreatedRows DEF ScheduleOrphanedNote
  <2>2. \A i \in JobIds \ {j} : jobs'[i].status \in {"ABSENT", "CANCELLED"}
    BY <1>0, <2>1
  <2> QED BY <2>2 DEF Unfinished
<1> QED BY <1>1, <1>2, <1>3 DEF Creates

LEMMA NextJobs ==
    TypeOK /\ ExecutionsInv /\ JobsInv /\ [Next]_vars => JobsInv'
<1> SUFFICES ASSUME TypeOK, ExecutionsInv, JobsInv, [Next]_vars PROVE JobsInv'
  OBVIOUS
<1>1. CASE NothingOpens /\ SubmissionsKept
  BY <1>1 DEF NothingOpens, SubmissionsKept, JobsInv, OpenFull
<1>2. ASSUME NEW j \in JobIds, Creates(j), ~SubmitContext(j) PROVE JobsInv'
  <2>1. submission' = submission
    BY <1>2 DEF Creates, ScheduleNoteAuditRecovery, ScheduleNoteReprocess, ScheduleOrphanedNote
  <2>2. \A i \in JobIds \ {j} : ~Unfinished(i)'
    BY <1>2, CreationFindsNoFull
  <2>3. \A i \in JobIds : (Full(i)' <=> Full(i)) /\ (jobs'[i].status = "ABSENT" => jobs[i].status = "ABSENT")
    BY <1>2, CreatedRows DEF JobsInv, Full
  <2> QED BY <2>1, <2>2, <2>3 DEF JobsInv, OpenFull
<1>3. ASSUME NEW j \in JobIds, SubmitContext(j) PROVE JobsInv'
  <2>1. /\ jobs'[j].status = "PENDING" /\ ~Full(j)'
        /\ \A i \in JobIds \ {j} : jobs'[i] = jobs[i]
    <3>1. Creates(j) /\ \A i \in JobIds \ {j} : jobs'[i] = jobs[i]
      BY <1>3 DEF Creates, SubmitContext, TypeOK
    <3> QED BY <1>3, <3>1, CreatedRows
  <2>2. /\ submission'[j].status = "QUEUED" /\ submission'[j].round # 0
        /\ \A i \in JobIds \ {j} : submission'[i] = submission[i]
    BY <1>3 DEF SubmitContext, TypeOK, RoundHasQuestions
  <2>3. \A i \in JobIds \ {j} : (Full(i)' <=> Full(i)) /\ (Unfinished(i)' <=> Unfinished(i))
    BY <2>1 DEF Full, Unfinished
  <2> QED BY <2>1, <2>2, <2>3 DEF JobsInv, OpenFull
<1>4. CASE \A j \in JobIds : ~SubmitContext(j)
  BY <1>1, <1>2, <1>4, OnlyAnswersSubmit, OnlyCreationOpens
<1> QED BY <1>3, <1>4

LEMMA InitJobs == Init => JobsInv
<1> SUFFICES ASSUME Init PROVE JobsInv
  OBVIOUS
<1>1. \A j \in JobIds : jobs[j] = NoJob \/ (j = 1 /\ jobs[j] = NewJob("FULL_AUDIT", 2))
  BY DEF Init
<1>2. /\ NoJob.type = "FULL_AUDIT" /\ NoJob.status = "ABSENT"
      /\ NewJob("FULL_AUDIT", 2).type = "FULL_AUDIT"
  BY DEF NewJob, NoJob
<1>3. \A j \in JobIds : submission[j].status = "NONE"
  BY DEF Init, NoSubmission
<1> QED BY <1>1, <1>2, <1>3 DEF JobsInv, OpenFull, Full, Unfinished

--------------------------------------------------------------------------------
(* What the row says of itself, whatever fails. *)

RowInv ==
    /\ note.status = "RECEIVED" =>
         note.stage = "RECEIVED" /\ note.reading = 0 /\ note.result = "NONE"
    /\ note.status = "FAILED" => note.stage = "FAILED"
    /\ note.result # "NONE" => note.reading # 0
    /\ note.result = "NEEDS_CONTEXT" => note.round # 0
    /\ note.token = "live" => note.round = asked
    /\ "uploading" \notin Origins => upload = "done"

(* Every step but the end of an audit leaves the newest question alone. *)
LEMMA OnlyAuditsAsk ==
    ASSUME [Next]_vars,
           \A w \in Executions, class \in Classes, asks \in BOOLEAN : ~FinalizeAudit(w, class, asks)
    PROVE  asked' = asked
<1>1. ASSUME NEW w \in Executions, Advance(w) PROVE asked' = asked
  BY <1>1 DEF Advance, FindNoteState, MarkAuditStarted, PersistExtraction, FailExtraction,
         DiscardAudit, FailAudit, ClaimNote, LoadAuditContext, CompleteJob, FailJob
<1>2. ASSUME NEW w \in Executions,
             \/ InvalidConfiguration(w) \/ DisturbDatabase(w) \/ Crash(w) \/ Heartbeat(w)
             \/ \E j \in JobIds : ClaimProcessingJob(w, j)
      PROVE  asked' = asked
  BY <1>2 DEF InvalidConfiguration, DisturbDatabase, Crash, Heartbeat, ClaimProcessingJob
<1>3. CASE \/ \E j \in JobIds :
                  \/ LeaseExpires(j) \/ RecoverLease(j) \/ ScheduleNoteAuditRecovery(j)
                  \/ ScheduleNoteReprocess(j) \/ SubmitContext(j)
           \/ ScheduleOrphanedNote \/ ConsumeTerminalStatus \/ SendFile \/ FileStored \/ UploadFails
           \/ UNCHANGED vars
  BY <1>3 DEF LeaseExpires, RecoverLease, ScheduleNoteAuditRecovery, ScheduleNoteReprocess, SubmitContext,
         ScheduleOrphanedNote, ConsumeTerminalStatus, SendFile, FileStored, UploadFails, vars
<1> QED BY <1>1, <1>2, <1>3 DEF Next

LEMMA UploadStaysDone ==
    ASSUME [Next]_vars, upload = "done"
    PROVE  upload' = "done"
<1>1. ASSUME NEW w \in Executions, Advance(w) PROVE upload' = upload
  BY <1>1 DEF Advance, FindNoteState, MarkAuditStarted, PersistExtraction, FailExtraction,
         DiscardAudit, FailAudit, ClaimNote, LoadAuditContext, CompleteJob, FailJob, FinalizeAudit
<1>2. ASSUME NEW w \in Executions,
             \/ InvalidConfiguration(w) \/ DisturbDatabase(w) \/ Crash(w) \/ Heartbeat(w)
             \/ \E j \in JobIds : ClaimProcessingJob(w, j)
      PROVE  upload' = upload
  BY <1>2 DEF InvalidConfiguration, DisturbDatabase, Crash, Heartbeat, ClaimProcessingJob
<1>3. CASE \/ \E j \in JobIds :
                  \/ LeaseExpires(j) \/ RecoverLease(j) \/ ScheduleNoteAuditRecovery(j)
                  \/ ScheduleNoteReprocess(j) \/ SubmitContext(j)
           \/ ScheduleOrphanedNote \/ ConsumeTerminalStatus \/ UNCHANGED vars
  BY <1>3 DEF LeaseExpires, RecoverLease, ScheduleNoteAuditRecovery, ScheduleNoteReprocess, SubmitContext,
         ScheduleOrphanedNote, ConsumeTerminalStatus, vars
<1>4. ~SendFile /\ ~FileStored /\ ~UploadFails
  BY DEF SendFile, FileStored, UploadFails
<1> QED BY <1>1, <1>2, <1>3, <1>4 DEF Next

(* The end of an audit: what the note says then. *)
LEMMA AuditConcludes ==
    ASSUME TypeOK, ExecutionsInv, RowInv, NEW w \in Executions,
           NEW class \in Classes, NEW asks \in BOOLEAN, FinalizeAudit(w, class, asks)
    PROVE  /\ note.stage = "ANALYZING" /\ note.status = "PROCESSING" /\ note.reading # 0
           /\ note'.version = note.version + 1
           /\ note'.stage = "COMPLETED" /\ note'.reading = note.reading /\ note'.token = note.token
           /\ note'.diagnosed = note.reading /\ note'.result # "NONE"
           /\ note'.status \in {"OK", "PENDING_VALIDATION", "PROCESSING", "READ_FAILED"}
           /\ note'.result = "NEEDS_CONTEXT" <=> note'.status = "PROCESSING"
           /\ note'.result = "NEEDS_CONTEXT" =>
                /\ ~Answers(w) /\ note'.round # 0 /\ note'.failure = "NONE"
           /\ note'.token = "live" => note'.round = asked'
           /\ note'.round = note.round \/ note.round = 0
           /\ Answers(w) => note'.round = note.round
<1>1. /\ NoteUnchangedSince(w, "ANALYZING") /\ MayConclude(w, class, asks)
      /\ note'.version = note.version + 1
      /\ note'.stage = "COMPLETED" /\ note'.status = StatusOf(class)
      /\ note'.result = IF class = "INSUFFICIENT" THEN "READ_FAILED" ELSE class
      /\ note'.failure # "NONE" => class \in {"INSUFFICIENT", "READ_FAILED"}
      /\ note'.round = TargetRound(w, class, asks) /\ note'.token = note.token
      /\ note'.reading = note.reading /\ note'.diagnosed = exec[w].reading
  BY ExecutionWrites
<1>2. note.stage = "ANALYZING" /\ note.status = "PROCESSING" /\ note.version = exec[w].version
  BY <1>1 DEF NoteUnchangedSince
<1>3. exec[w].reading = note.reading /\ note.reading # 0
  BY <1>2 DEF FinalizeAudit, ExecutionsInv, ExecutionOK
<1>4. class \in {"OK", "SUSPICIOUS", "NEEDS_CONTEXT", "INSUFFICIENT", "READ_FAILED"}
  BY PipelineAssumption
<1>5. /\ StatusOf(class) \in {"OK", "PENDING_VALIDATION", "PROCESSING", "READ_FAILED"}
      /\ StatusOf(class) = "PROCESSING" <=> class = "NEEDS_CONTEXT"
  BY <1>4 DEF StatusOf
<1>6. asked' = IF AsksNewRound(w, class, asks) THEN TargetRound(w, class, asks) ELSE asked
  BY DEF FinalizeAudit
<1>7. class = "NEEDS_CONTEXT" => ~Answers(w) /\ (note.round = 0 => asks)
  BY <1>1 DEF MayConclude
<1>8. class = "NEEDS_CONTEXT" => TargetRound(w, class, asks) # 0
  BY <1>7 DEF TargetRound, AsksNewRound, RoundHasQuestions
<1>9. note.token = "live" => TargetRound(w, class, asks) = asked'
  BY <1>6 DEF TargetRound, RowInv
<1>10. /\ TargetRound(w, class, asks) = note.round \/ note.round = 0
       /\ Answers(w) => TargetRound(w, class, asks) = note.round
  BY DEF TargetRound, AsksNewRound
<1> QED BY <1>1, <1>2, <1>3, <1>4, <1>5, <1>7, <1>8, <1>9, <1>10

LEMMA MovingKeepsRow ==
    ASSUME RowInv, NEW stage, NEW status, NEW failure, Moves(stage, status, failure),
           status # "RECEIVED" \/ (status = note.status /\ stage = note.stage),
           status = "FAILED" => stage = "FAILED",
           asked' = asked, "uploading" \notin Origins => upload' = "done"
    PROVE  RowInv'
BY DEF RowInv, Moves

LEMMA NextRow ==
    TypeOK /\ ExecutionsInv /\ RowInv /\ [Next]_vars => RowInv'
<1> SUFFICES ASSUME TypeOK, ExecutionsInv, RowInv, [Next]_vars PROVE RowInv'
  OBVIOUS
<1>0. "uploading" \notin Origins => upload' = "done"
  BY UploadStaysDone DEF RowInv
<1>1. ASSUME NEW w \in Executions, NEW class \in Classes, NEW asks \in BOOLEAN,
             FinalizeAudit(w, class, asks)
      PROVE  RowInv'
  BY <1>0, <1>1, AuditConcludes DEF RowInv
<1>2. ASSUME asked' = asked, note' = note PROVE RowInv'
  BY <1>0, <1>2 DEF RowInv
<1>3. ASSUME asked' = asked, NEW w \in Executions, Advance(w),
             ~(\E class \in Classes, asks \in BOOLEAN : FinalizeAudit(w, class, asks))
      PROVE  RowInv'
  <2>1. CASE FailJob(w)
    <3>1. note \in NoteRows
      BY DEF TypeOK
    <3>2. \/ note' = note
          \/ \E code : note' = GiveUp(note, code)
          \/ \E stage, code : note' = ScheduleRetry(note, stage, code)
      BY <2>1, FailureWrites DEF GivesUp, Retries
    <3>3. ASSUME NEW code, note' = GiveUp(note, code) PROVE RowInv'
      BY <1>0, <1>3, <3>1, <3>3, GivenUp, MovingKeepsRow
    <3>4. ASSUME NEW stage, NEW code, note' = ScheduleRetry(note, stage, code) PROVE RowInv'
      BY <1>0, <1>3, <3>1, <3>4, Retried, MovingKeepsRow
    <3> QED BY <1>2, <1>3, <3>2, <3>3, <3>4
  <2>2. CASE MarkAuditStarted(w) \/ ClaimNote(w)
    <3>1. \/ note' = note
          \/ \E stage \in {"ANALYZING", "EXTRACTING"} : Moves(stage, "PROCESSING", "NONE")
      BY <2>2, ExecutionWrites
    <3> QED BY <1>0, <1>2, <1>3, <3>1, MovingKeepsRow
  <2>3. CASE PersistExtraction(w)
    <3>1. \/ note' = note
          \/ /\ NoteUnchangedSince(w, "EXTRACTING")
             /\ note'.reading = note.version + 1
             /\ note'.stage = "ANALYZING" /\ note'.status = note.status
             /\ note'.result = note.result
             /\ note'.round = note.round /\ note'.token = note.token
      BY <2>3, ExecutionWrites
    <3>2. note.version \in Nat
      BY DEF TypeOK, NoteRows
    <3> QED BY <1>0, <1>2, <1>3, <3>1, <3>2 DEF RowInv, NoteUnchangedSince
  <2>4. CASE FailExtraction(w) \/ FailAudit(w)
    <3>1. \/ note' = note
          \/ note.status = "PROCESSING" /\ \E code : Moves(note.stage, note.status, code)
      BY <2>4, ExecutionWrites DEF NoteUnchangedSince
    <3> QED BY <1>0, <1>2, <1>3, <3>1, MovingKeepsRow
  <2>5. CASE FindNoteState(w) \/ LoadAuditContext(w) \/ DiscardAudit(w) \/ CompleteJob(w)
    BY <1>2, <1>3, <2>5, ExecutionWrites
  <2> QED BY <1>3, <2>1, <2>2, <2>3, <2>4, <2>5 DEF Advance
<1>4. ASSUME NEW w \in Executions,
             \/ InvalidConfiguration(w) \/ DisturbDatabase(w) \/ Crash(w) \/ Heartbeat(w)
             \/ \E j \in JobIds : ClaimProcessingJob(w, j)
      PROVE  note' = note
  BY <1>4, ExecutionWrites
<1>5. ASSUME asked' = asked, NEW j \in JobIds,
             \/ LeaseExpires(j) \/ RecoverLease(j) \/ ScheduleNoteAuditRecovery(j)
             \/ ScheduleNoteReprocess(j) \/ SubmitContext(j)
      PROVE  RowInv'
  <2>1. CASE LeaseExpires(j) \/ RecoverLease(j) \/ SubmitContext(j)
    <3>1. \/ note' = note
          \/ \E stage, code : Moves(stage, "PROCESSING", code) \/ Moves("FAILED", "FAILED", code)
      BY <2>1, HandlersWrite
    <3> QED BY <1>0, <1>2, <1>5, <3>1, MovingKeepsRow
  <2>2. CASE ScheduleNoteAuditRecovery(j)
    BY <1>0, <1>5, <2>2, HandlersWrite DEF RowInv
  <2>3. CASE ScheduleNoteReprocess(j)
    BY <1>0, <1>5, <2>3, HandlersWrite DEF RowInv
  <2> QED BY <1>5, <2>1, <2>2, <2>3
<1>6. ASSUME asked' = asked,
             ScheduleOrphanedNote \/ ConsumeTerminalStatus \/ SendFile \/ FileStored \/ UploadFails
      PROVE  RowInv'
  <2> 1 \in JobIds
    BY PipelineAssumption DEF JobIds
  <2>1. CASE ScheduleOrphanedNote \/ SendFile
    BY <1>2, <1>6, <2>1, HandlersWrite
  <2>2. CASE ConsumeTerminalStatus
    BY <1>0, <1>6, <2>2, HandlersWrite DEF RowInv
  <2>3. CASE FileStored \/ UploadFails
    <3>1. Moves(note.stage, note.status, "NONE") \/ Moves("FAILED", "FAILED", "OTHER")
      BY <2>3, HandlersWrite
    <3>2. note.status = "FAILED" => note.stage = "FAILED"
      BY DEF RowInv
    <3> QED BY <1>0, <1>6, <3>1, <3>2, MovingKeepsRow
  <2> QED BY <1>6, <2>1, <2>2, <2>3
<1>7. CASE UNCHANGED vars
  BY <1>2, <1>7 DEF vars
<1>8. CASE asked' = asked /\ Next
  BY <1>1, <1>2, <1>3, <1>4, <1>5, <1>6, <1>8 DEF Next
<1> QED BY <1>1, <1>7, <1>8, OnlyAuditsAsk

LEMMA InitRow == Init => RowInv
<1> SUFFICES ASSUME Init PROVE RowInv
  OBVIOUS
<1>1. "uploading" \notin Origins => upload = "done"
  BY DEF Init
<1> QED BY <1>1 DEF Init, RowInv

NoteInv == TypeOK /\ ExecutionsInv /\ JobsInv /\ RowInv

LEMMA NoteHolds == Spec => []NoteInv
<1>1. Init => NoteInv
  BY InitTyped, InitRemembers, InitJobs, InitRow DEF NoteInv
<1>2. NoteInv /\ [Next]_vars => NoteInv'
  BY NextTyped, NextRemembers, NextJobs, NextRow DEF NoteInv
<1> QED BY <1>1, <1>2, PTL DEF Spec

--------------------------------------------------------------------------------
(* The diagnosis is of the reading.  While no database error stops an answer *)
(* job, a note with a result is not read again as long as the job that read  *)
(* it is open, so that the only execution that could end the note as         *)
(* unreadable finds the diagnosis of the reading it has.                     *)

Resumable == {"EXTRACTION", "UNREADABLE", "PIPELINE_FAILED"}
KeptReadingInv ==
    note.result # "NONE" /\ (\E j \in JobIds : OpenFull(j)) =>
      /\ note.diagnosed = note.reading
      /\ note.stage \in {"ANALYZING", "COMPLETED", "FAILED"}
      /\ note.stage = "FAILED" => note.failure \notin Resumable
MatchInv == KeptReadingInv /\ DiagnosisMatchesReading

LEMMA MovingKeepsMatch ==
    ASSUME MatchInv, NothingOpens, NEW stage, NEW status, NEW failure, Moves(stage, status, failure),
           note.result # "NONE" /\ (\E j \in JobIds : OpenFull(j)') =>
             /\ stage \in {"ANALYZING", "COMPLETED", "FAILED"}
             /\ stage = "FAILED" => failure \notin Resumable,
           note.result # "NONE" /\ stage = "COMPLETED" =>
             note.stage = "COMPLETED" \/ note.diagnosed = note.reading
    PROVE  MatchInv'
<1>1. (\E j \in JobIds : OpenFull(j)') => \E j \in JobIds : OpenFull(j)
  BY DEF NothingOpens, OpenFull
<1>2. KeptReadingInv'
  BY <1>1 DEF MatchInv, KeptReadingInv, Moves, Resumable
<1>3. DiagnosisMatchesReading'
  BY DEF MatchInv, DiagnosisMatchesReading, Moves
<1> QED BY <1>2, <1>3 DEF MatchInv

LEMMA StillKeepsMatch ==
    ASSUME MatchInv, NothingOpens, note' = note
    PROVE  MatchInv'
BY DEF MatchInv, KeptReadingInv, DiagnosisMatchesReading, NothingOpens, OpenFull, Resumable

(* A note with a diagnosis is not claimed to be read. *)
LEMMA NotReadAgain ==
    ASSUME RowInv, MatchInv, note.result # "NONE", \E j \in JobIds : OpenFull(j)
    PROVE  \A w \in Executions : ~CanExtract(w) /\ ~NoteUnchangedSince(w, "EXTRACTING")
<1>1. note.stage \in {"ANALYZING", "COMPLETED", "FAILED"} /\ (note.stage = "FAILED" => note.failure \notin Resumable)
  BY DEF MatchInv, KeptReadingInv
<1> QED BY <1>1 DEF CanExtract, NoteUnchangedSince, RowInv, Resumable

LEMMA AdvanceMatches ==
    ASSUME TypeOK, ExecutionsInv, JobsInv, RowInv, MatchInv, [Next]_vars, NothingOpens,
           "db_error" \notin Faults, NEW w \in Executions, Advance(w)
    PROVE  MatchInv'
<1>0. (\E j \in JobIds : OpenFull(j)') => \E j \in JobIds : OpenFull(j)
  BY DEF NothingOpens, OpenFull
<1>1. CASE MarkAuditStarted(w)
  <2>1. Moves("ANALYZING", "PROCESSING", "NONE")
    BY <1>1, ExecutionWrites
  <2> QED BY <2>1, MovingKeepsMatch
<1>2. CASE ClaimNote(w)
  <2>1. note' = note \/ (CanExtract(w) /\ Moves("EXTRACTING", "PROCESSING", "NONE"))
    BY <1>2, ExecutionWrites
  <2>2. CASE CanExtract(w) /\ Moves("EXTRACTING", "PROCESSING", "NONE")
    <3>1. ~(note.result # "NONE" /\ \E j \in JobIds : OpenFull(j)')
      BY <1>0, <2>2, NotReadAgain
    <3> QED BY <2>2, <3>1, MovingKeepsMatch
  <2> QED BY <2>1, <2>2, StillKeepsMatch
<1>3. CASE PersistExtraction(w)
  <2>1. \/ note' = note
        \/ /\ NoteUnchangedSince(w, "EXTRACTING")
           /\ note'.stage = "ANALYZING" /\ note'.result = note.result
    BY <1>3, ExecutionWrites
  <2>2. CASE /\ NoteUnchangedSince(w, "EXTRACTING")
             /\ note'.stage = "ANALYZING" /\ note'.result = note.result
    <3>1. ~(note.result # "NONE" /\ \E j \in JobIds : OpenFull(j)')
      BY <1>0, <2>2, NotReadAgain
    <3> QED BY <2>2, <3>1 DEF MatchInv, KeptReadingInv, DiagnosisMatchesReading
  <2> QED BY <2>1, <2>2, StillKeepsMatch
<1>4. CASE FailExtraction(w)
  <2>1. \/ note' = note
        \/ /\ NoteUnchangedSince(w, "EXTRACTING")
           /\ \E code \in {"EXTRACTION", "UNREADABLE"} : Moves(note.stage, note.status, code)
    BY <1>4, ExecutionWrites
  <2>2. ASSUME NoteUnchangedSince(w, "EXTRACTING"), NEW code, Moves(note.stage, note.status, code)
        PROVE  MatchInv'
    <3>1. ~(note.result # "NONE" /\ \E j \in JobIds : OpenFull(j)')
      BY <1>0, <2>2, NotReadAgain
    <3> QED BY <2>2, <3>1, MovingKeepsMatch
  <2> QED BY <2>1, <2>2, StillKeepsMatch
<1>5. CASE FailAudit(w)
  <2>1. note' = note \/ (note.stage = "ANALYZING" /\ Moves(note.stage, note.status, "AUDIT"))
    BY <1>5, ExecutionWrites DEF NoteUnchangedSince
  <2>2. CASE note.stage = "ANALYZING" /\ Moves(note.stage, note.status, "AUDIT")
    BY <2>2, MovingKeepsMatch
  <2> QED BY <2>1, <2>2, StillKeepsMatch
<1>6. CASE \E class \in Classes, asks \in BOOLEAN : FinalizeAudit(w, class, asks)
  <2>1. note'.stage = "COMPLETED" /\ note'.diagnosed = note'.reading
    BY <1>6, AuditConcludes
  <2> QED BY <2>1 DEF MatchInv, KeptReadingInv, DiagnosisMatchesReading
<1>7. CASE FailJob(w)
  <2> DEFINE code == exec[w].code
  <2>0. note \in NoteRows /\ ExecutionOK(w)
    BY DEF TypeOK, ExecutionsInv
  <2>1. CASE GivesUp(w)
    <3>1. PICK j \in JobIds : j = exec[w].job /\ jobs[j].status = "RUNNING" /\ exec[w].step = "fail"
      BY <1>7, <2>1 DEF GivesUp, Holds, FailJob
    <3>2. Moves(IF code = "UNREADABLE" THEN "COMPLETED" ELSE "FAILED",
                IF code = "UNREADABLE" THEN "READ_FAILED" ELSE "FAILED", code)
      BY <2>0, <2>1, GivenUp DEF GivesUp
    <3>3. CASE Full(j)
      <4>1. OpenFull(j)
        BY <3>1, <3>3 DEF OpenFull, Unfinished
      <4>2. ~Unfinished(j)'
        <5>1. jobs' = CloseJob(j, "CANCELLED")
          BY <1>7, <2>1, <3>1 DEF FailJob, GivesUp, ReturnJob
        <5>2. jobs'[j].status = "CANCELLED"
          BY <3>1, <5>1 DEF CloseJob, TypeOK, JobRows
        <5> QED BY <5>2 DEF Unfinished
      <4>3. ~(\E i \in JobIds : OpenFull(i)')
        BY <3>1, <4>1, <4>2 DEF NothingOpens, OpenFull, JobsInv
      <4>4. note.result # "NONE" => note.diagnosed = note.reading
        BY <3>1, <4>1 DEF MatchInv, KeptReadingInv
      <4> HIDE DEF code
      <4> QED BY <3>2, <4>3, <4>4, MovingKeepsMatch
    <3>4. CASE ~Full(j)
      <4>1. code \notin Resumable
        BY <2>0, <3>1, <3>4 DEF ExecutionOK, Resumable
      <4>2. Moves("FAILED", "FAILED", code)
        BY <3>2, <4>1 DEF Resumable
      <4> HIDE DEF code
      <4> QED BY <4>1, <4>2, MovingKeepsMatch
    <3> QED BY <3>3, <3>4
  <2>2. CASE Retries(w)
    <3>1. PICK stage : Moves(stage, "PROCESSING", code) /\ stage \in {"ANALYZING", "EXTRACTING"}
                       /\ (note.reading # 0 => stage = "ANALYZING")
      BY <2>0, <2>2, Retried DEF Retries
    <3>2. note.result # "NONE" => stage = "ANALYZING"
      BY <3>1 DEF RowInv
    <3> HIDE DEF code
    <3> QED BY <3>1, <3>2, MovingKeepsMatch
  <2> QED BY <1>7, <2>1, <2>2, FailureWrites, StillKeepsMatch
<1>8. CASE FindNoteState(w) \/ LoadAuditContext(w) \/ DiscardAudit(w) \/ CompleteJob(w)
  BY <1>8, ExecutionWrites, StillKeepsMatch
<1> QED BY <1>1, <1>2, <1>3, <1>4, <1>5, <1>6, <1>7, <1>8 DEF Advance

LEMMA CreationMatches ==
    ASSUME TypeOK, JobsInv, RowInv, MatchInv, [Next]_vars, NEW j \in JobIds, Creates(j)
    PROVE  MatchInv'
<1>1. CASE ScheduleNoteAuditRecovery(j) \/ ScheduleNoteReprocess(j)
  <2>1. note'.result = "NONE"
    BY <1>1, HandlersWrite
  <2> QED BY <2>1 DEF MatchInv, KeptReadingInv, DiagnosisMatchesReading
<1>2. CASE SubmitContext(j)
  <2>1. Moves("ANALYZING", "PROCESSING", "NONE")
    BY <1>2, HandlersWrite
  <2>2. (\E i \in JobIds : OpenFull(i)') => \E i \in JobIds : OpenFull(i)
    <3>1. ~Full(j)' /\ ~ScheduleNoteReprocess(j)
      <4>1. ~Full(j)'
        BY <1>2, CreatedRows
      <4>2. ScheduleNoteReprocess(j) => Full(j)'
        BY DEF ScheduleNoteReprocess, NewJob, NoJob, Full
      <4> QED BY <4>1, <4>2
    <3>2. \A i \in JobIds \ {j} : jobs'[i] = jobs[i]
      BY <3>1, CreatedRows
    <3> QED BY <3>1, <3>2 DEF OpenFull, Full, Unfinished
  <2> QED BY <2>1, <2>2 DEF MatchInv, KeptReadingInv, DiagnosisMatchesReading, Moves
<1>3. CASE ScheduleOrphanedNote
  <2>1. note' = note /\ note.status = "RECEIVED"
    BY <1>3 DEF ScheduleOrphanedNote
  <2> QED BY <2>1 DEF RowInv, MatchInv, KeptReadingInv, DiagnosisMatchesReading
<1> QED BY <1>1, <1>2, <1>3 DEF Creates

LEMMA HandlersMatch ==
    ASSUME TypeOK, JobsInv, RowInv, MatchInv, [Next]_vars, NothingOpens, NEW j \in JobIds,
           LeaseExpires(j) \/ RecoverLease(j) \/ ConsumeTerminalStatus \/ SendFile \/ FileStored \/ UploadFails
    PROVE  MatchInv'
<1>1. CASE LeaseExpires(j) \/ SendFile
  BY <1>1, HandlersWrite, StillKeepsMatch
<1>2. CASE RecoverLease(j)
  <2>1. \/ note' = note
        \/ Moves("FAILED", "FAILED", "OTHER")
        \/ \E code : Moves(IF note.reading # 0 THEN "ANALYZING" ELSE "EXTRACTING", "PROCESSING", code)
    BY <1>2, HandlersWrite
  <2>2. CASE Moves("FAILED", "FAILED", "OTHER")
    BY <2>2, MovingKeepsMatch DEF Resumable
  <2>3. ASSUME NEW code, Moves(IF note.reading # 0 THEN "ANALYZING" ELSE "EXTRACTING", "PROCESSING", code)
        PROVE  MatchInv'
    <3>1. PICK stage : /\ Moves(stage, "PROCESSING", code)
                       /\ stage \in {"ANALYZING", "EXTRACTING"}
                       /\ note.reading # 0 => stage = "ANALYZING"
      BY <2>3
    <3>2. note.result # "NONE" => stage = "ANALYZING"
      BY <3>1 DEF RowInv
    <3> QED BY <3>1, <3>2, MovingKeepsMatch
  <2> QED BY <2>1, <2>2, <2>3, StillKeepsMatch
<1>3. CASE ConsumeTerminalStatus
  <2>1. /\ note'.stage = note.stage /\ note'.failure = note.failure /\ note'.result = note.result
        /\ note'.reading = note.reading /\ note'.diagnosed = note.diagnosed
    BY <1>3, HandlersWrite
  <2>2. (\E i \in JobIds : OpenFull(i)') => \E i \in JobIds : OpenFull(i)
    BY DEF NothingOpens, OpenFull
  <2> QED BY <2>1, <2>2 DEF MatchInv, KeptReadingInv, DiagnosisMatchesReading
<1>4. CASE FileStored
  <2>1. Moves(note.stage, note.status, "NONE")
    BY <1>4, HandlersWrite
  <2>2. (\E i \in JobIds : OpenFull(i)') => \E i \in JobIds : OpenFull(i)
    BY DEF NothingOpens, OpenFull
  <2>3. note.result # "NONE" /\ (\E i \in JobIds : OpenFull(i)')
          => note.stage \in {"ANALYZING", "COMPLETED", "FAILED"}
    BY <2>2 DEF MatchInv, KeptReadingInv
  <2> QED BY <2>1, <2>3, MovingKeepsMatch DEF Resumable
<1>5. CASE UploadFails
  <2>1. Moves("FAILED", "FAILED", "OTHER")
    BY <1>5, HandlersWrite
  <2> QED BY <2>1, MovingKeepsMatch DEF Resumable
<1> QED BY <1>1, <1>2, <1>3, <1>4, <1>5

LEMMA NextMatches ==
    ASSUME "db_error" \notin Faults
    PROVE  NoteInv /\ MatchInv /\ [Next]_vars => MatchInv'
<1> SUFFICES ASSUME NoteInv, MatchInv, [Next]_vars PROVE MatchInv'
  OBVIOUS
<1> USE DEF NoteInv
<1>1. ASSUME NEW j \in JobIds, Creates(j) PROVE MatchInv'
  BY <1>1, CreationMatches
<1>2. CASE NothingOpens /\ UNCHANGED vars
  BY <1>2, StillKeepsMatch DEF vars
<1>3. CASE NothingOpens /\ Next
  <2>1. ASSUME NEW w \in Executions,
               \/ InvalidConfiguration(w) \/ DisturbDatabase(w) \/ Crash(w) \/ Heartbeat(w)
               \/ \E j \in JobIds : ClaimProcessingJob(w, j)
        PROVE  MatchInv'
    BY <1>3, <2>1, ExecutionWrites, StillKeepsMatch
  <2>2. ASSUME NEW w \in Executions, Advance(w) PROVE MatchInv'
    BY <1>3, <2>2, AdvanceMatches
  <2>3. ASSUME NEW j \in JobIds,
               LeaseExpires(j) \/ RecoverLease(j) \/ ConsumeTerminalStatus \/ SendFile \/ FileStored \/ UploadFails
        PROVE  MatchInv'
    BY <1>3, <2>3, HandlersMatch
  <2>4. ASSUME NEW j \in JobIds,
               \/ ScheduleNoteAuditRecovery(j) \/ ScheduleNoteReprocess(j) \/ SubmitContext(j)
        PROVE  MatchInv'
    BY <1>1, <2>4 DEF Creates
  <2>5. 1 \in JobIds
    BY PipelineAssumption DEF JobIds
  <2>6. CASE ScheduleOrphanedNote
    BY <1>1, <2>5, <2>6 DEF Creates
  <2> QED BY <1>3, <2>1, <2>2, <2>3, <2>4, <2>5, <2>6 DEF Next
<1> QED BY <1>1, <1>2, <1>3, OnlyCreationOpens

LEMMA InitMatches == Init => MatchInv
BY DEF Init, MatchInv, KeptReadingInv, DiagnosisMatchesReading

--------------------------------------------------------------------------------
(* While leases expire only behind the dead, and no upload fails behind a    *)
(* job that was given out, whoever has a job in memory holds it.             *)

Steady ==
    /\ "lease_loss" \notin Faults
    /\ "storage" \notin Faults \/ "uploading" \notin Origins

HeldInv == \A w \in Executions : exec[w].job \in JobIds => Holds(w)

LEMMA UploadHolds ==
    ASSUME Steady, RowInv
    PROVE  ~UploadFails
BY DEF Steady, RowInv, UploadFails

LEMMA AloneOnJob ==
    ASSUME FencingInv, HeldInv, NEW v \in Executions, NEW w \in Executions,
           exec[w].job \in JobIds, exec[v].job = exec[w].job
    PROVE  v = w
BY DEF FencingInv, OneHolderPerJob, HeldInv

LEMMA NextHeld ==
    ASSUME Steady, NoteInv, FencingInv, HeldInv, [Next]_vars
    PROVE  HeldInv'
<1> SUFFICES ASSUME NEW v \in Executions, exec'[v].job \in JobIds
             PROVE  Holds(v)'
  BY DEF HeldInv
<1>0. /\ exec \in [Executions -> Memory] /\ jobs \in [JobIds -> JobRows]
      /\ Idle.job \notin JobIds
  BY IdleHoldsNothing DEF NoteInv, TypeOK
<1>1. RunStep
  BY UploadHolds, NextIsRunStep DEF NoteInv
<1>2. CASE exec'[v].job = exec[v].job /\ jobs'[exec[v].job] = jobs[exec[v].job]
  BY <1>2 DEF HeldInv, Holds
<1>3. CASE QuietStep
  BY <1>2, <1>3 DEF QuietStep
<1>4. ASSUME NEW w \in Executions, LeaveStep(w) PROVE Holds(v)'
  BY <1>0, <1>2, <1>4 DEF LeaveStep
<1>5. ASSUME NEW w \in Executions, SettleStep(w) PROVE Holds(v)'
  <2>1. v # w /\ exec'[v] = exec[v]
    BY <1>0, <1>5 DEF SettleStep
  <2>2. exec[v].job # exec[w].job /\ exec[w].job \in JobIds
    BY <1>5, <2>1, AloneOnJob DEF SettleStep, Holds
  <2>3. jobs'[exec[v].job] = jobs[exec[v].job]
    BY <1>0, <1>5, <2>1, <2>2 DEF SettleStep, CloseJob
  <2> QED BY <1>2, <2>1, <2>3
<1>6. ASSUME NEW w \in Executions, NEW j \in JobIds, ClaimProcessingJob(w, j)
      PROVE  Holds(v)'
  <2>1. /\ jobs' = [jobs EXCEPT ![j].status = "RUNNING", ![j].attempt = @ + 1,
                                ![j].lockedBy = WorkerId(w), ![j].stale = FALSE]
        /\ jobs[j].status # "RUNNING"
    BY <1>6 DEF ClaimProcessingJob, CanClaim
  <2>2. CASE v = w
    <3>1. exec'[v].job = j
      BY <1>0, <1>6, <2>2 DEF ClaimProcessingJob, Idle
    <3>2. jobs'[j].status = "RUNNING" /\ jobs'[j].lockedBy = WorkerId(w)
      <4>1. jobs'[j] = [jobs[j] EXCEPT !.status = "RUNNING", !.attempt = jobs[j].attempt + 1,
                                       !.lockedBy = WorkerId(w), !.stale = FALSE]
        BY <1>0, <2>1
      <4> QED BY <1>0, <4>1 DEF JobRows
    <3> QED BY <2>2, <3>1, <3>2 DEF Holds, WorkerId
  <2>3. CASE v # w
    <3>1. exec'[v] = exec[v]
      BY <1>0, <1>6, <2>3 DEF ClaimProcessingJob
    <3>2. exec[v].job # j
      BY <2>1, <3>1 DEF HeldInv, Holds
    <3>3. jobs'[exec[v].job] = jobs[exec[v].job]
      BY <1>0, <2>1, <3>1, <3>2
    <3> QED BY <1>2, <3>1, <3>3
  <2> QED BY <2>2, <2>3
<1>7. ASSUME NEW j \in JobIds, LeaseStep(j) PROVE Holds(v)'
  <2>1. /\ exec' = exec
        /\ \A i \in JobIds : jobs'[i].status = jobs[i].status /\ jobs'[i].lockedBy = jobs[i].lockedBy
    BY <1>0, <1>7 DEF LeaseStep, JobRows
  <2> QED BY <2>1 DEF HeldInv, Holds
<1>8. ASSUME NEW j \in JobIds, ReclaimStep(j) PROVE Holds(v)'
  <2>1. exec' = exec /\ jobs[j].stale
    BY <1>8 DEF ReclaimStep
  <2>2. exec[v].job # j
    BY <2>1 DEF HeldInv, FencingInv, ExpiredJobsAreUnheld, Steady
  <2>3. jobs'[exec[v].job] = jobs[exec[v].job]
    BY <1>0, <1>8, <2>1, <2>2 DEF ReclaimStep, CloseJob
  <2> QED BY <1>2, <2>1, <2>3
<1>9. ASSUME NEW j \in JobIds, EnqueueStep(j) PROVE Holds(v)'
  <2>1. exec' = exec /\ jobs[exec[v].job].status = "RUNNING"
    BY <1>9 DEF EnqueueStep, HeldInv, Holds
  <2>2. jobs'[exec[v].job] = jobs[exec[v].job]
    BY <1>9, <2>1 DEF EnqueueStep, Enqueued
  <2> QED BY <1>2, <2>1, <2>2
<1> QED BY <1>1, <1>3, <1>4, <1>5, <1>6, <1>7, <1>8, <1>9 DEF RunStep

LEMMA InitHeld == Init => HeldInv
BY IdleHoldsNothing DEF Init, HeldInv

--------------------------------------------------------------------------------
(* Somebody carries the note: a note in analysis has a job that may still    *)
(* run and whose execution, if any, has not reached its end.                 *)

Carries(j) ==
    /\ Unfinished(j)
    /\ \A w \in Executions : exec[w].job = j => exec[w].step # "complete"
CarriedInv ==
    InFlight => \/ \E j \in JobIds : Carries(j)
                \/ \A j \in JobIds : jobs[j].status = "ABSENT"

(* A step that frees executions at most, and leaves the note or ends it. *)
LEMMA StillCarried ==
    ASSUME CarriedInv, InFlight' => InFlight,
           \A j \in JobIds : /\ jobs'[j].status = jobs[j].status
                             /\ jobs'[j].attempt = jobs[j].attempt /\ jobs'[j].max = jobs[j].max,
           \A w \in Executions : exec'[w] = exec[w] \/ exec'[w].job \notin JobIds
    PROVE  CarriedInv'
<1>1. \A j \in JobIds : Carries(j) => Carries(j)'
  BY DEF Carries, Unfinished
<1> QED BY <1>1 DEF CarriedInv

(* The execution that acts carries the note, unless it has come to its end. *)
LEMMA ActingCarries ==
    ASSUME FencingInv, HeldInv, NEW w \in Executions, NEW j \in JobIds, exec[w].job = j,
           jobs' = jobs, exec'[w].step # "complete",
           \A v \in Executions \ {w} : exec'[v] = exec[v]
    PROVE  Carries(j)'
<1>1. jobs'[j].status = "RUNNING"
  BY DEF HeldInv, Holds
<1>2. \A v \in Executions : exec'[v].job = j => v = w
  BY AloneOnJob
<1> QED BY <1>1, <1>2 DEF Carries, Unfinished

(* What each handler of an execution does next. *)
LEMMA NextSteps ==
    ASSUME TypeOK, NEW w \in Executions, Advance(w), ~CompleteJob(w), ~FailJob(w),
           \A class \in Classes, asks \in BOOLEAN : ~FinalizeAudit(w, class, asks)
    PROVE  jobs' = jobs /\ exec[w].step # "idle" /\ exec'[w].step \notin {"idle", "complete"}
<1>1. exec \in [Executions -> Memory]
  BY DEF TypeOK
<1>2. CASE FindNoteState(w) \/ MarkAuditStarted(w) \/ PersistExtraction(w)
  <2>1. /\ jobs' = jobs /\ exec[w].step # "idle"
        /\ \/ \E step \in {"mark", "claim", "audit"} : Continue(w, step)
           \/ FailWith(w, "EXTRACTION")
    BY <1>2 DEF FindNoteState, MarkAuditStarted, PersistExtraction
  <2> QED BY <1>1, <2>1 DEF Continue, FailWith, Memory
<1>3. CASE FailExtraction(w) \/ DiscardAudit(w) \/ FailAudit(w)
  <2>1. jobs' = jobs /\ exec[w].step # "idle" /\ \E code : FailWith(w, code)
    BY <1>3 DEF FailExtraction, DiscardAudit, FailAudit
  <2> QED BY <1>1, <2>1 DEF FailWith, Memory
<1>4. CASE ClaimNote(w)
  <2>1. /\ jobs' = jobs /\ exec[w].step # "idle"
        /\ \/ FailWith(w, "EXTRACTION")
           \/ exec' = [exec EXCEPT ![w].step = "read", ![w].version = note.version + 1]
    BY <1>4 DEF ClaimNote
  <2> QED BY <1>1, <2>1 DEF FailWith, Memory
<1>5. CASE LoadAuditContext(w)
  <2>1. /\ jobs' = jobs /\ exec[w].step # "idle"
        /\ \/ FailWith(w, "AUDIT")
           \/ exec' = [exec EXCEPT ![w].step = "judge", ![w].version = note.version,
                                   ![w].reading = note.reading]
    BY <1>5 DEF LoadAuditContext
  <2> QED BY <1>1, <2>1 DEF FailWith, Memory
<1> QED BY <1>2, <1>3, <1>4, <1>5 DEF Advance

LEMMA AdvanceCarries ==
    ASSUME Steady, NoteInv, FencingInv, HeldInv, CarriedInv, NEW w \in Executions, Advance(w)
    PROVE  CarriedInv'
<1> USE DEF NoteInv
<1>0. \A v \in Executions \ {w} : exec'[v] = exec[v]
  BY OneActs
<1>1. exec[w].step # "idle" => exec[w].job \in JobIds /\ Holds(w)
  BY ExecFields DEF ExecutionsInv, ExecutionOK, HeldInv
<1>2. /\ note.stage = "COMPLETED" => ~InFlight
      /\ HasDiagnosis(note) \/ HasFailed(note) => ~InFlight
  BY DEF InFlight, HasDiagnosis, HasFailed
<1>3. CASE \E class \in Classes, asks \in BOOLEAN : FinalizeAudit(w, class, asks)
  <2>1. note'.stage = "COMPLETED"
    BY <1>3, AuditConcludes
  <2> QED BY <2>1 DEF CarriedInv, InFlight
<1>4. CASE CompleteJob(w)
  <2>0. exec[w].step = "complete" /\ exec'[w] = Idle /\ note' = note
    BY <1>4 DEF CompleteJob, TypeOK
  <2>1. PICK j \in JobIds : j = exec[w].job /\ Holds(w)
    BY <1>1, <2>0
  <2>2. jobs' = CloseJob(j, "SUCCEEDED")
    BY <1>4, <2>1 DEF CompleteJob
  <2>3. ASSUME NEW i \in JobIds, Carries(i) PROVE Carries(i)'
    <3>1. i # j
      BY <2>0, <2>1, <2>3 DEF Carries
    <3>2. jobs'[i] = jobs[i]
      BY <2>2, <3>1 DEF CloseJob, TypeOK
    <3>3. \A v \in Executions : exec'[v].job = i => exec'[v] = exec[v]
      BY <1>0, <2>0, IdleHoldsNothing
    <3> QED BY <2>3, <3>2, <3>3 DEF Carries, Unfinished
  <2>4. jobs[j].status # "ABSENT"
    BY <2>1 DEF Holds
  <2> QED BY <2>0, <2>3, <2>4 DEF CarriedInv, InFlight
<1>5. CASE FailJob(w)
  <2>0. exec[w].step = "fail" /\ exec'[w] = Idle /\ note \in NoteRows
    BY <1>5 DEF FailJob, TypeOK
  <2>1. PICK j \in JobIds : j = exec[w].job /\ Holds(w)
    BY <1>1, <2>0
  <2>2. CASE GivesUp(w)
    BY <2>0, <2>2, GivenUp DEF GivesUp, Moves, CarriedInv, InFlight
  <2>3. CASE Retries(w)
    <3>1. jobs' = CloseJob(j, "FAILED")
      BY <1>5, <2>1, <2>3 DEF FailJob, Retries, ReturnJob
    <3>2. /\ jobs'[j].status = "FAILED"
          /\ jobs'[j].attempt = jobs[j].attempt /\ jobs'[j].max = jobs[j].max
      BY <3>1 DEF CloseJob, TypeOK, JobRows
    <3>3. exec[w].attempt < jobs[j].max
      BY <2>1, <2>3, JobFields, ExecFields DEF Retries, Exhausted
    <3>4. exec[w].attempt = jobs[j].attempt
      BY <2>1 DEF FencingInv, AttemptsAreFenced
    <3>5. \A v \in Executions : exec'[v].job # j
      BY <1>0, <2>0, <2>1, AloneOnJob, IdleHoldsNothing
    <3>6. Carries(j)'
      BY <3>2, <3>3, <3>4, <3>5 DEF Carries, Unfinished
    <3> QED BY <3>6 DEF CarriedInv
  <2>4. CASE ~GivesUp(w) /\ ~Retries(w)
    <3>1. note' = note
      BY <1>5, <2>4, FailureWrites
    <3>2. ~InFlight
      BY <1>5, <2>1, <2>4 DEF FailJob, GivesUp, Retries, InFlight, HasDiagnosis, HasFailed
    <3> QED BY <3>1, <3>2 DEF CarriedInv, InFlight
  <2> QED BY <2>2, <2>3, <2>4
<1>6. CASE ~CompleteJob(w) /\ ~FailJob(w)
           /\ \A class \in Classes, asks \in BOOLEAN : ~FinalizeAudit(w, class, asks)
  <2>1. jobs' = jobs /\ exec[w].step # "idle" /\ exec'[w].step # "complete"
    BY <1>6, NextSteps
  <2>2. \E j \in JobIds : Carries(j)'
    BY <1>0, <1>1, <2>1, ActingCarries
  <2> QED BY <2>2 DEF CarriedInv
<1> QED BY <1>3, <1>4, <1>5, <1>6

LEMMA NextCarried ==
    ASSUME Steady, NoteInv, FencingInv, HeldInv, CarriedInv, [Next]_vars
    PROVE  CarriedInv'
<1> USE DEF NoteInv
<1>0. /\ exec \in [Executions -> Memory] /\ jobs \in [JobIds -> JobRows]
      /\ Idle.job \notin JobIds
  BY IdleHoldsNothing DEF TypeOK
<1>1. ASSUME NEW w \in Executions, InvalidConfiguration(w) \/ DisturbDatabase(w)
      PROVE  CarriedInv'
  <2>1. jobs' = jobs /\ exec[w].step # "idle" /\ exec'[w].step = "fail"
    BY <1>0, <1>1 DEF InvalidConfiguration, DisturbDatabase, FailWith, Memory
  <2>2. PICK j \in JobIds : exec[w].job = j
    BY <2>1, ExecFields DEF ExecutionsInv, ExecutionOK
  <2>3. Carries(j)'
    BY <1>1, <2>1, <2>2, OneActs, ActingCarries
  <2> QED BY <2>3 DEF CarriedInv
<1>2. ASSUME NEW w \in Executions, Crash(w) PROVE CarriedInv'
  <2>1. /\ note' = note /\ jobs' = jobs
        /\ \A v \in Executions : exec'[v] = exec[v] \/ exec'[v].job \notin JobIds
    BY <1>0, <1>2 DEF Crash
  <2> QED BY <2>1, StillCarried DEF InFlight
<1>3. ASSUME exec' = exec, InFlight' => InFlight,
             \/ jobs' = jobs
             \/ \E j \in JobIds, stale \in BOOLEAN : jobs' = [jobs EXCEPT ![j].stale = stale]
      PROVE  CarriedInv'
  <2>1. \A i \in JobIds : /\ jobs'[i].status = jobs[i].status
                          /\ jobs'[i].attempt = jobs[i].attempt /\ jobs'[i].max = jobs[i].max
    BY <1>0, <1>3 DEF JobRows
  <2> QED BY <1>3, <2>1, StillCarried
<1>4. ASSUME NEW w \in Executions, Heartbeat(w) PROVE CarriedInv'
  BY <1>3, <1>4 DEF Heartbeat, Holds, InFlight
<1>5. ASSUME NEW j \in JobIds, LeaseExpires(j) PROVE CarriedInv'
  BY <1>3, <1>5 DEF LeaseExpires, InFlight
<1>6. CASE ConsumeTerminalStatus \/ SendFile \/ FileStored \/ UNCHANGED vars
  <2>1. exec' = exec /\ jobs' = jobs
    BY <1>6 DEF ConsumeTerminalStatus, SendFile, FileStored, vars
  <2>2. note'.status = note.status /\ note'.stage = note.stage
    <3>1. 1 \in JobIds
      BY PipelineAssumption DEF JobIds
    <3> QED BY <1>6, <3>1, HandlersWrite DEF Moves, vars
  <2> QED BY <1>3, <2>1, <2>2 DEF InFlight
<1>7. ASSUME NEW w \in Executions, NEW j \in JobIds, ClaimProcessingJob(w, j) PROVE CarriedInv'
  <2>1. jobs[j].status # "RUNNING"
    BY <1>7 DEF ClaimProcessingJob, CanClaim
  <2>2. \A v \in Executions : exec[v].job # j
    BY <2>1 DEF HeldInv, Holds
  <2>3. \A v \in Executions : exec'[v].job = j => exec'[v].step = "start"
    BY <1>0, <1>7, <2>2 DEF ClaimProcessingJob, Idle
  <2>4. jobs'[j].status = "RUNNING"
    <3>1. jobs'[j] = [jobs[j] EXCEPT !.status = "RUNNING", !.attempt = jobs[j].attempt + 1,
                                     !.lockedBy = WorkerId(w), !.stale = FALSE]
      BY <1>0, <1>7 DEF ClaimProcessingJob
    <3> QED BY <1>0, <3>1 DEF JobRows
  <2> QED BY <2>3, <2>4 DEF CarriedInv, Carries, Unfinished
<1>8. ASSUME NEW j \in JobIds, RecoverLease(j) PROVE CarriedInv'
  <2>1. jobs[j].stale /\ exec' = exec
    BY <1>8 DEF RecoverLease
  <2>2. CASE note.stage = "COMPLETED" /\ note' = note
    BY <2>2 DEF CarriedInv, InFlight
  <2>3. CASE Moves("FAILED", "FAILED", "OTHER")
    BY <2>3 DEF Moves, CarriedInv, InFlight
  <2>4. CASE note.stage # "COMPLETED" /\ jobs[j].attempt < jobs[j].max
    <3>1. jobs' = CloseJob(j, "FAILED")
      BY <1>8, <2>4, JobFields DEF RecoverLease, HasDiagnosis, ReturnJob
    <3>2. /\ jobs'[j].status = "FAILED"
          /\ jobs'[j].attempt = jobs[j].attempt /\ jobs'[j].max = jobs[j].max
      BY <1>0, <3>1 DEF CloseJob, JobRows
    <3>3. \A v \in Executions : exec[v].job # j
      BY <2>1 DEF HeldInv, FencingInv, ExpiredJobsAreUnheld, Steady
    <3> QED BY <2>1, <2>4, <3>2, <3>3 DEF CarriedInv, Carries, Unfinished
  <2>5. note' = note => note.stage = "COMPLETED"
    <3>1. note.stage # "COMPLETED" => note'.version = note.version + 1
      <4>1. note \in NoteRows
        BY DEF TypeOK
      <4>2. note.stage # "COMPLETED" =>
              \/ note' = GiveUp(note, "OTHER")
              \/ \E stage, code : note' = ScheduleRetry(note, stage, code)
        BY <1>8 DEF RecoverLease, HasDiagnosis
      <4> QED BY <4>1, <4>2, GivenUp, Retried DEF Moves
    <3> QED BY <3>1, ExecFields DEF TypeOK, NoteRows
  <2> QED BY <1>8, <2>2, <2>3, <2>4, <2>5, HandlersWrite
<1>9. ASSUME NEW j \in JobIds, Creates(j) PROVE CarriedInv'
  <2>1. jobs[j].status = "ABSENT" /\ jobs'[j].status = "PENDING" /\ exec' = exec
    BY <1>9, CreatedRows
  <2>2. \A v \in Executions : exec[v].job # j
    BY <2>1 DEF HeldInv, Holds
  <2> QED BY <2>1, <2>2 DEF CarriedInv, Carries, Unfinished
<1>10. CASE ScheduleOrphanedNote
  BY <1>9, <1>10, PipelineAssumption DEF Creates, JobIds
<1> QED BY <1>1, <1>2, <1>4, <1>5, <1>6, <1>7, <1>8, <1>9, <1>10, AdvanceCarries, UploadHolds
        DEF Next, Creates

LEMMA InitCarried == Init => CarriedInv
<1> SUFFICES ASSUME Init, NEW j \in JobIds, jobs[j].status # "ABSENT" PROVE Carries(j)
  BY DEF CarriedInv
<1>1. jobs[j].status = "PENDING"
  BY DEF Init, NewJob, NoJob
<1>2. \A w \in Executions : exec[w].job # j
  BY IdleHoldsNothing DEF Init
<1> QED BY <1>1, <1>2 DEF Carries, Unfinished

SteadyInv == NoteInv /\ FencingInv /\ HeldInv /\ CarriedInv

LEMMA SteadyHolds ==
    ASSUME Steady
    PROVE  Spec => []SteadyInv
<1>1. IdsIdentify
  BY DEF Steady, IdsIdentify
<1>2. Init => SteadyInv
  BY InitTyped, InitRemembers, InitJobs, InitRow, InitFenced, InitHeld, InitCarried
     DEF NoteInv, SteadyInv
<1>3. SteadyInv /\ [Next]_vars => SteadyInv'
  <2> SUFFICES ASSUME SteadyInv, [Next]_vars PROVE SteadyInv'
    OBVIOUS
  <2>1. NoteInv'
    BY NextTyped, NextRemembers, NextJobs, NextRow DEF NoteInv, SteadyInv
  <2>2. FencingInv'
    BY <1>1, NextFenced DEF NoteInv, SteadyInv
  <2>3. HeldInv' /\ CarriedInv'
    BY NextHeld, NextCarried DEF SteadyInv
  <2> QED BY <2>1, <2>2, <2>3 DEF SteadyInv
<1> QED BY <1>2, <1>3, PTL DEF Spec

(* A note in analysis always has a job that will still carry it on, or never *)
(* had one: whoever dies or fails, its attempt is given back or the note is  *)
(* given up in the same transaction (processing-jobs.ts:342-473).           *)
THEOREM InFlightIsCarried ==
    ASSUME Steady
    PROVE  Spec => []NoteInFlightHasJob
<1>1. SteadyInv => NoteInFlightHasJob
  BY DEF SteadyInv, CarriedInv, Carries, NoteInFlightHasJob
<1> QED BY <1>1, SteadyHolds, PTL

--------------------------------------------------------------------------------
(* What a step that neither creates a job nor ends an audit does to the note.*)

Stays ==
    /\ note'.status = note.status /\ note'.stage = note.stage /\ note'.result = note.result
    /\ note'.round = note.round /\ note'.reading = note.reading /\ note'.diagnosed = note.diagnosed
Reads(w) ==
    /\ exec[w].step = "read" /\ NoteUnchangedSince(w, "EXTRACTING") /\ PersistExtraction(w)
    /\ note'.stage = "ANALYZING" /\ note'.status = note.status
    /\ note'.result = note.result /\ note'.round = note.round
    /\ note'.diagnosed = note.diagnosed
Outcome ==
    \/ Stays
    \/ \E code : Moves("ANALYZING", "PROCESSING", code)
    \/ note.reading = 0 /\ \E code : Moves("EXTRACTING", "PROCESSING", code)
    \/ \E w \in Executions :
         \/ exec[w].step = "claim" /\ CanExtract(w) /\ Moves("EXTRACTING", "PROCESSING", "NONE")
         \/ Reads(w)
         \/ Holds(w) /\ exec[w].code = "UNREADABLE" /\ Moves("COMPLETED", "READ_FAILED", "UNREADABLE")
    \/ \E j \in JobIds : \E code :
         jobs[j].status = "RUNNING" /\ ~Unfinished(j)' /\ Moves("FAILED", "FAILED", code)

LEMMA CancelledIsFinished ==
    ASSUME TypeOK, NEW j \in JobIds, jobs' = ReturnJob(j, TRUE)
    PROVE  ~Unfinished(j)'
<1>1. jobs'[j].status = "CANCELLED"
  BY DEF ReturnJob, CloseJob, TypeOK, JobRows
<1> QED BY <1>1 DEF Unfinished

LEMMA AdvanceOutcome ==
    ASSUME TypeOK, NEW w \in Executions, Advance(w),
           \A class \in Classes, asks \in BOOLEAN : ~FinalizeAudit(w, class, asks)
    PROVE  Outcome
<1>1. ASSUME NEW code, Moves(note.stage, note.status, code) PROVE Outcome
  BY <1>1 DEF Outcome, Stays, Moves
<1>2. CASE MarkAuditStarted(w)
  BY <1>2, ExecutionWrites DEF Outcome
<1>3. CASE ClaimNote(w)
  <2>1. note' = note \/ (CanExtract(w) /\ Moves("EXTRACTING", "PROCESSING", "NONE"))
    BY <1>3, ExecutionWrites
  <2> QED BY <1>3, <2>1 DEF ClaimNote, Outcome, Stays
<1>4. CASE PersistExtraction(w)
  <2>1. note' = note \/ Reads(w)
    BY <1>4, ExecutionWrites DEF PersistExtraction, Reads
  <2> QED BY <2>1 DEF Outcome, Stays
<1>5. CASE FailExtraction(w) \/ FailAudit(w)
  <2>1. note' = note \/ \E code : Moves(note.stage, note.status, code)
    BY <1>5, ExecutionWrites
  <2> QED BY <1>1, <2>1 DEF Outcome, Stays
<1>6. CASE FailJob(w)
  <2> note \in NoteRows
    BY DEF TypeOK
  <2>1. CASE note' = note
    BY <2>1 DEF Outcome, Stays
  <2>2. CASE GivesUp(w)
    <3>1. PICK j \in JobIds : j = exec[w].job /\ jobs[j].status = "RUNNING"
      BY <2>2 DEF GivesUp, Holds
    <3>2. jobs' = ReturnJob(j, TRUE)
      BY <1>6, <2>2, <3>1 DEF FailJob, GivesUp, ReturnJob
    <3>3. ~Unfinished(j)'
      BY <3>2, CancelledIsFinished
    <3>4. IF exec[w].code = "UNREADABLE" THEN Moves("COMPLETED", "READ_FAILED", "UNREADABLE")
          ELSE Moves("FAILED", "FAILED", exec[w].code)
      BY <2>2, GivenUp DEF GivesUp
    <3> QED BY <2>2, <3>1, <3>3, <3>4 DEF Outcome, GivesUp
  <2>3. CASE Retries(w)
    <3>1. PICK stage, code : /\ Moves(stage, "PROCESSING", code) /\ stage \in {"ANALYZING", "EXTRACTING"}
                             /\ (note.reading # 0 => stage = "ANALYZING")
      BY <2>3, Retried DEF Retries
    <3> QED BY <3>1 DEF Outcome
  <2> QED BY <1>6, <2>1, <2>2, <2>3, FailureWrites
<1>7. CASE FindNoteState(w) \/ LoadAuditContext(w) \/ DiscardAudit(w) \/ CompleteJob(w)
  BY <1>7, ExecutionWrites DEF Outcome, Stays
<1> QED BY <1>2, <1>3, <1>4, <1>5, <1>6, <1>7 DEF Advance

LEMMA NoteOutcome ==
    ASSUME TypeOK, [Next]_vars, ~UploadFails, \A j \in JobIds : ~Creates(j),
           \A w \in Executions, class \in Classes, asks \in BOOLEAN : ~FinalizeAudit(w, class, asks)
    PROVE  Outcome
<1>1. CASE note' = note
  BY <1>1 DEF Outcome, Stays
<1>2. ASSUME NEW w \in Executions,
             \/ InvalidConfiguration(w) \/ DisturbDatabase(w) \/ Crash(w) \/ Heartbeat(w)
             \/ \E j \in JobIds : ClaimProcessingJob(w, j)
      PROVE  Outcome
  BY <1>1, <1>2, ExecutionWrites
<1>3. ASSUME NEW j \in JobIds, RecoverLease(j) PROVE Outcome
  <2>1. \/ note' = note
        \/ /\ note.stage # "COMPLETED" /\ jobs[j].attempt >= jobs[j].max
           /\ Moves("FAILED", "FAILED", "OTHER")
        \/ \E code : Moves(IF note.reading # 0 THEN "ANALYZING" ELSE "EXTRACTING", "PROCESSING", code)
    BY <1>3, HandlersWrite
  <2>2. CASE /\ note.stage # "COMPLETED" /\ jobs[j].attempt >= jobs[j].max
             /\ Moves("FAILED", "FAILED", "OTHER")
    <3>1. jobs[j].status = "RUNNING" /\ jobs' = ReturnJob(j, TRUE)
      BY <1>3, <2>2 DEF RecoverLease, HasDiagnosis
    <3> QED BY <2>2, <3>1, CancelledIsFinished DEF Outcome
  <2> QED BY <1>1, <2>1, <2>2 DEF Outcome
<1>4. ASSUME NEW j \in JobIds, LeaseExpires(j) PROVE Outcome
  BY <1>1, <1>4, HandlersWrite
<1>5. CASE ConsumeTerminalStatus \/ SendFile \/ FileStored
  <2>1. 1 \in JobIds
    BY PipelineAssumption DEF JobIds
  <2> QED BY <1>1, <1>5, <2>1, HandlersWrite DEF Outcome, Stays, Moves
<1>6. CASE UNCHANGED vars
  BY <1>1, <1>6 DEF vars
<1>7. ~ScheduleOrphanedNote
  BY PipelineAssumption DEF Creates, JobIds
<1> QED BY <1>2, <1>3, <1>4, <1>5, <1>6, <1>7, AdvanceOutcome DEF Next, Creates

(* How an execution comes to read, and to find the document unreadable. *)
LEMMA StepOrigins ==
    ASSUME TypeOK, [Next]_vars, NEW v \in Executions
    PROVE  /\ exec'[v].step = "read" =>
                exec[v].step = "read" \/ (exec[v].step = "claim" /\ CanExtract(v))
           /\ exec'[v].step = "claim" =>
                \/ exec[v].step = "claim"
                \/ exec[v].step = "start" /\ ~ShouldRunAuditWithoutExtraction(v)
           /\ exec'[v].code = "UNREADABLE" => exec[v].code = "UNREADABLE" \/ exec[v].step = "read"
<1> DEFINE Origin ==
             /\ exec'[v].step = "read" =>
                  exec[v].step = "read" \/ (exec[v].step = "claim" /\ CanExtract(v))
             /\ exec'[v].step = "claim" =>
                  \/ exec[v].step = "claim"
                  \/ exec[v].step = "start" /\ ~ShouldRunAuditWithoutExtraction(v)
             /\ exec'[v].code = "UNREADABLE" => exec[v].code = "UNREADABLE" \/ exec[v].step = "read"
<1> SUFFICES Origin
  OBVIOUS
<1>0. exec \in [Executions -> Memory] /\ exec[v] \in Memory
  BY DEF TypeOK
<1>1. CASE exec'[v] = exec[v]
  BY <1>1
<1>2. CASE exec'[v] = Idle
  BY <1>2 DEF Idle
<1>3. ASSUME NEW code, FailWith(v, code), code = "UNREADABLE" => exec[v].step = "read" PROVE Origin
  <2>1. exec'[v].step = "fail" /\ exec'[v].code = code
    BY <1>0, <1>3 DEF FailWith, Memory
  <2> QED BY <1>3, <2>1
<1>4. ASSUME NEW step, Continue(v, step), step # "read",
             step = "claim" => exec[v].step = "start" /\ ~ShouldRunAuditWithoutExtraction(v)
      PROVE Origin
  <2>1. exec'[v].step = step /\ exec'[v].code = exec[v].code
    BY <1>0, <1>4 DEF Continue, Memory
  <2> QED BY <1>4, <2>1
<1> HIDE DEF Origin
<1>5. ASSUME Advance(v) PROVE Origin
  <2>1. CASE FindNoteState(v)
    BY <1>4, <2>1 DEF FindNoteState
  <2>2. CASE MarkAuditStarted(v) \/ PersistExtraction(v)
    BY <1>3, <1>4, <2>2 DEF MarkAuditStarted, PersistExtraction
  <2>3. CASE FailExtraction(v) \/ DiscardAudit(v) \/ FailAudit(v)
    BY <1>3, <2>3 DEF FailExtraction, DiscardAudit, FailAudit
  <2>4. CASE ClaimNote(v)
    <3>1. CASE exec' = [exec EXCEPT ![v].step = "read", ![v].version = note.version + 1] /\ CanExtract(v)
      <4>1. exec'[v].step = "read" /\ exec'[v].code = exec[v].code
        BY <1>0, <3>1 DEF Memory
      <4> QED BY <2>4, <3>1, <4>1 DEF ClaimNote, Origin
    <3> QED BY <1>3, <2>4, <3>1 DEF ClaimNote
  <2>5. CASE LoadAuditContext(v)
    <3>1. CASE exec' = [exec EXCEPT ![v].step = "judge", ![v].version = note.version,
                                    ![v].reading = note.reading]
      <4>1. exec'[v].step = "judge" /\ exec'[v].code = exec[v].code
        BY <1>0, <3>1 DEF Memory
      <4> QED BY <4>1 DEF Origin
    <3> QED BY <1>3, <2>5, <3>1 DEF LoadAuditContext
  <2>6. CASE \E class \in Classes, asks \in BOOLEAN : FinalizeAudit(v, class, asks)
    BY <1>4, <2>6 DEF FinalizeAudit
  <2>7. CASE CompleteJob(v) \/ FailJob(v)
    <3>1. exec'[v] = Idle
      BY <1>0, <2>7 DEF CompleteJob, FailJob
    <3> QED BY <1>2, <3>1
  <2> QED BY <1>5, <2>1, <2>2, <2>3, <2>4, <2>5, <2>6, <2>7 DEF Advance
<1>6. CASE InvalidConfiguration(v) \/ DisturbDatabase(v)
  BY <1>3, <1>6 DEF InvalidConfiguration, DisturbDatabase
<1>7. CASE Crash(v)
  BY <1>0, <1>2, <1>7 DEF Crash
<1>8. CASE Heartbeat(v)
  BY <1>1, <1>8 DEF Heartbeat
<1>9. ASSUME NEW j \in JobIds, ClaimProcessingJob(v, j) PROVE Origin
  <2>1. exec'[v].step = "start" /\ exec'[v].code = "NONE"
    BY <1>0, <1>9 DEF ClaimProcessingJob, Idle
  <2> QED BY <2>1 DEF Origin
<1> QED
  BY <1>1, <1>5, <1>6, <1>7, <1>8, <1>9, OneActs, OthersLeaveMemory, PipelineAssumption
     DEF Next, JobIds

--------------------------------------------------------------------------------
(* The round of the note is the one its open answers belong to, whatever     *)
(* fails.                                                                    *)

RoundInv ==
    \A j \in JobIds : ~Full(j) /\ Unfinished(j) => submission[j].round = note.round

LEMMA OutcomeKeeps ==
    ASSUME Outcome
    PROVE  note'.result = note.result /\ note'.round = note.round
BY DEF Outcome, Stays, Moves, Reads

LEMMA NextRound ==
    NoteInv /\ RoundInv /\ [Next]_vars => RoundInv'
<1> SUFFICES ASSUME NoteInv, RoundInv, [Next]_vars PROVE RoundInv'
  OBVIOUS
<1> USE DEF NoteInv
<1>1. ASSUME NEW w \in Executions, NEW class \in Classes, NEW asks \in BOOLEAN,
             FinalizeAudit(w, class, asks)
      PROVE  RoundInv'
  <2>1. (note'.round = note.round \/ note.round = 0) /\ jobs' = jobs
    BY <1>1, AuditConcludes DEF FinalizeAudit
  <2>2. SubmissionsKept
    <3>1. \A j \in JobIds : ~SubmitContext(j)
      BY <2>1, CreatedTypes
    <3> QED BY <3>1, OnlyAnswersSubmit
  <2> QED BY <2>1, <2>2 DEF RoundInv, JobsInv, Full, Unfinished, SubmissionsKept
<1>2. ASSUME NEW j \in JobIds, Creates(j), ~SubmitContext(j) PROVE RoundInv'
  <2>1. Full(j)' /\ \A i \in JobIds \ {j} : ~Unfinished(i)'
    BY <1>2, CreatedRows, CreationFindsNoFull
  <2> QED BY <2>1 DEF RoundInv
<1>3. ASSUME NEW j \in JobIds, SubmitContext(j) PROVE RoundInv'
  <2>1. /\ note'.round = note.round /\ submission'[j].round = note.round
        /\ \A i \in JobIds \ {j} : submission'[i] = submission[i] /\ jobs'[i] = jobs[i]
    BY <1>3, HandlersWrite DEF SubmitContext, TypeOK, Moves
  <2> QED BY <2>1 DEF RoundInv, Full, Unfinished
<1>4. CASE UploadFails
  BY <1>4, UploadOpensNothing DEF RoundInv
<1>5. CASE /\ ~UploadFails /\ \A j \in JobIds : ~Creates(j)
           /\ \A w \in Executions, class \in Classes, asks \in BOOLEAN : ~FinalizeAudit(w, class, asks)
  <2>1. NothingOpens /\ note'.round = note.round
    BY <1>5, NoteOutcome, OutcomeKeeps, OnlyCreationOpens
  <2>2. SubmissionsKept
    BY <1>5, OnlyAnswersSubmit DEF Creates
  <2> QED BY <2>1, <2>2 DEF RoundInv, NothingOpens, SubmissionsKept
<1> QED BY <1>1, <1>2, <1>3, <1>4, <1>5

LEMMA InitRound == Init => RoundInv
<1> SUFFICES ASSUME Init, NEW j \in JobIds PROVE Full(j)
  BY DEF RoundInv
<1> QED BY DEF Init, Full, NewJob, NoJob

--------------------------------------------------------------------------------
(* An open question: the note waits for context and nobody answered in its   *)
(* round.  Nobody can take it back to be read again.                         *)

QuestionOpen == note.result = "NEEDS_CONTEXT" /\ SubmittedFor(note.round) = {}
QuestionInv ==
    QuestionOpen =>
      /\ note.status \in {"PROCESSING", "FAILED"} /\ note.stage # "EXTRACTING"
      /\ \A w \in Executions : exec[w].step # "read" /\ exec[w].code # "UNREADABLE"
      /\ note.status = "FAILED" => \A j \in JobIds : ~Unfinished(j)

(* At most one execution is on its way to read the document, or back. *)
LEMMA OneReader ==
    ASSUME SteadyInv, NEW v \in Executions, NEW w \in Executions,
           exec[v].step \in {"claim", "read"} \/ exec[v].code = "UNREADABLE",
           exec[w].step # "idle", Full(exec[w].job)
    PROVE  v = w
<1> USE DEF SteadyInv, NoteInv
<1>1. exec[v].step # "idle" /\ Full(exec[v].job)
  BY DEF ExecutionsInv, ExecutionOK
<1>2. exec[v].job \in JobIds /\ exec[w].job \in JobIds
  BY <1>1, ExecFields DEF ExecutionsInv, ExecutionOK
<1>3. OpenFull(exec[v].job) /\ OpenFull(exec[w].job)
  BY <1>1, <1>2 DEF HeldInv, Holds, OpenFull, Unfinished
<1> QED BY <1>2, <1>3, AloneOnJob DEF JobsInv

LEMMA OnlyAuditsOpenQuestions ==
    ASSUME NoteInv, [Next]_vars, QuestionOpen', ~UploadFails,
           \A w \in Executions, class \in Classes, asks \in BOOLEAN : ~FinalizeAudit(w, class, asks)
    PROVE  QuestionOpen /\ \A j \in JobIds : ~Creates(j)
<1> USE DEF NoteInv
<1>1. ASSUME NEW j \in JobIds PROVE ~Creates(j)
  <2>1. ~ScheduleNoteAuditRecovery(j) /\ ~ScheduleNoteReprocess(j)
    BY HandlersWrite DEF QuestionOpen
  <2>2. ~SubmitContext(j)
    <3>0. SubmitContext(j) => note'.round = note.round
      BY HandlersWrite DEF Moves
    <3>1. SubmitContext(j) => submission'[j].round = note.round /\ submission'[j].status = "QUEUED"
      BY DEF SubmitContext, TypeOK
    <3>2. ~(submission'[j].status # "NONE" /\ submission'[j].round = note'.round)
      BY DEF QuestionOpen, SubmittedFor
    <3> QED BY <3>0, <3>1, <3>2
  <2>3. ~ScheduleOrphanedNote
    BY DEF ScheduleOrphanedNote, QuestionOpen, RowInv
  <2> QED BY <2>1, <2>2, <2>3 DEF Creates
<1>2. note'.result = note.result /\ note'.round = note.round
  BY <1>1, NoteOutcome, OutcomeKeeps
<1>3. SubmissionsKept
  BY <1>1, OnlyAnswersSubmit DEF Creates
<1> QED BY <1>1, <1>2, <1>3 DEF QuestionOpen, SubmittedFor, SubmissionsKept

LEMMA NextQuestion ==
    ASSUME Steady, SteadyInv, RoundInv, QuestionInv, [Next]_vars
    PROVE  QuestionInv'
<1> USE DEF SteadyInv, NoteInv
<1> SUFFICES ASSUME QuestionOpen'
             PROVE  /\ note'.status \in {"PROCESSING", "FAILED"} /\ note'.stage # "EXTRACTING"
                    /\ \A w \in Executions : exec'[w].step # "read" /\ exec'[w].code # "UNREADABLE"
                    /\ note'.status = "FAILED" => \A j \in JobIds : ~Unfinished(j)'
  BY DEF QuestionInv
<1>0. ~UploadFails
  BY UploadHolds
<1>1. CASE \E w \in Executions, class \in Classes, asks \in BOOLEAN : FinalizeAudit(w, class, asks)
  <2>1. PICK w \in Executions, class \in Classes, asks \in BOOLEAN : FinalizeAudit(w, class, asks)
    BY <1>1
  <2>2. note'.status = "PROCESSING" /\ note'.stage = "COMPLETED" /\ ~Answers(w)
    BY <2>1, AuditConcludes DEF QuestionOpen
  <2>3. exec[w].step = "judge" /\ exec' = [exec EXCEPT ![w].step = "complete"]
    BY <2>1 DEF FinalizeAudit, Continue
  <2>4. exec[w].job \in JobIds /\ Full(exec[w].job) /\ exec[w].code = "NONE"
    BY <2>2, <2>3, ExecFields, AnswersAreAudited DEF ExecutionsInv, ExecutionOK
  <2>5. exec'[w].step = "complete" /\ exec'[w].code = "NONE"
    BY <2>3, <2>4 DEF TypeOK, Memory
  <2>6. \A v \in Executions \ {w} : exec'[v] = exec[v]
    BY <2>3
  <2>7. \A v \in Executions \ {w} : exec[v].step # "read" /\ exec[v].code # "UNREADABLE"
    BY <2>3, <2>4, OneReader
  <2> QED BY <2>2, <2>5, <2>6, <2>7
<1>2. CASE \A w \in Executions, class \in Classes, asks \in BOOLEAN : ~FinalizeAudit(w, class, asks)
  <2>1. QuestionOpen /\ NothingOpens /\ Outcome
    BY <1>0, <1>2, OnlyAuditsOpenQuestions, OnlyCreationOpens, NoteOutcome
  <2>2. /\ note.status \in {"PROCESSING", "FAILED"} /\ note.stage # "EXTRACTING"
        /\ \A w \in Executions : exec[w].step # "read" /\ exec[w].code # "UNREADABLE"
        /\ note.status = "FAILED" => \A j \in JobIds : ~Unfinished(j)
    BY <2>1 DEF QuestionInv
  <2>3. \A j \in JobIds : ~(~Full(j) /\ Unfinished(j))
    BY <2>1 DEF QuestionOpen, RoundInv, JobsInv, SubmittedFor
  <2>4. note.reading # 0
    BY <2>1 DEF QuestionOpen, RowInv
  <2>5. ASSUME NEW w \in Executions, exec[w].step = "claim" PROVE ~CanExtract(w)
    <3>1. exec[w].job \in JobIds /\ Holds(w)
      BY <2>5, ExecFields DEF ExecutionsInv, ExecutionOK, HeldInv
    <3>2. Unfinished(exec[w].job)
      BY <3>1 DEF Holds, Unfinished
    <3> QED BY <2>2, <3>1, <3>2 DEF CanExtract
  <2>6. \A w \in Executions : exec'[w].step # "read" /\ exec'[w].code # "UNREADABLE"
    BY <2>2, <2>5, StepOrigins
  <2>7. CASE Stays
    BY <2>1, <2>2, <2>6, <2>7 DEF Stays, NothingOpens
  <2>8. CASE \E code : Moves("ANALYZING", "PROCESSING", code)
    BY <2>6, <2>8 DEF Moves
  <2>9. ASSUME NEW j \in JobIds, NEW code, jobs[j].status = "RUNNING", ~Unfinished(j)',
               Moves("FAILED", "FAILED", code)
        PROVE  note'.status = "FAILED" /\ note'.stage = "FAILED" /\ \A i \in JobIds : ~Unfinished(i)'
    <3>1. ASSUME NEW i \in JobIds, Unfinished(i)' PROVE FALSE
      <4>1. Unfinished(i) /\ Unfinished(j) /\ i # j
        BY <2>1, <2>9, <3>1 DEF NothingOpens, Unfinished
      <4> QED BY <2>3, <4>1 DEF JobsInv, OpenFull
    <3> QED BY <2>9, <3>1 DEF Moves
  <2> QED BY <2>1, <2>2, <2>4, <2>5, <2>6, <2>7, <2>8, <2>9 DEF Outcome, Reads
<1> QED BY <1>1, <1>2

LEMMA InitQuestion == Init => QuestionInv
BY DEF Init, QuestionInv, QuestionOpen

(* A sender who still holds the capability of a note that stopped for        *)
(* context, and has not answered in its round, is shown the questions        *)
(* (process-note-audit.ts:664-668).                                          *)
THEOREM RequestsAreAnswerable ==
    ASSUME Steady
    PROVE  Spec => []RequestIsAnswerable
<1>1. Init => RoundInv /\ QuestionInv
  BY InitRound, InitQuestion
<1>2. SteadyInv /\ (RoundInv /\ QuestionInv) /\ [Next]_vars => (RoundInv /\ QuestionInv)'
  BY NextRound, NextQuestion DEF SteadyInv
<1>3. SteadyInv /\ QuestionInv => RequestIsAnswerable
  BY DEF SteadyInv, NoteInv, RowInv, QuestionInv, QuestionOpen, RequestIsAnswerable, AsksSender,
         RoundHasQuestions
<1> QED BY <1>1, <1>2, <1>3, SteadyHolds, PTL DEF Spec

--------------------------------------------------------------------------------
(* The other way to the diagnosis of the reading: while every execution      *)
(* holds its job, a document that was read anew is not read a second time    *)
(* before the diagnosis of the first time is replaced.                       *)

Outdated == note.result # "NONE" /\ note.diagnosed # note.reading
OutdatedInv ==
    Outdated =>
      /\ note.stage \in {"ANALYZING", "FAILED"}
      /\ \A w \in Executions : exec[w].step \notin {"claim", "read"} /\ exec[w].code # "UNREADABLE"

LEMMA NextOutdated ==
    ASSUME Steady, SteadyInv, OutdatedInv, [Next]_vars
    PROVE  OutdatedInv'
<1> USE DEF SteadyInv, NoteInv
<1> SUFFICES ASSUME Outdated'
             PROVE  /\ note'.stage \in {"ANALYZING", "FAILED"}
                    /\ \A w \in Executions :
                         exec'[w].step \notin {"claim", "read"} /\ exec'[w].code # "UNREADABLE"
  BY DEF OutdatedInv
<1>0. ~UploadFails
  BY UploadHolds
<1>1. ASSUME NEW w \in Executions, NEW class \in Classes, NEW asks \in BOOLEAN
      PROVE  ~FinalizeAudit(w, class, asks)
  BY AuditConcludes DEF Outdated
<1>2. ASSUME Outdated
      PROVE  /\ note.stage \in {"ANALYZING", "FAILED"} /\ note.reading # 0
             /\ \A w \in Executions :
                  exec'[w].step \notin {"claim", "read"} /\ exec'[w].code # "UNREADABLE"
  <2>1. /\ note.stage \in {"ANALYZING", "FAILED"} /\ note.reading # 0
        /\ \A w \in Executions : exec[w].step \notin {"claim", "read"} /\ exec[w].code # "UNREADABLE"
    BY <1>2 DEF OutdatedInv, Outdated, RowInv
  <2>2. \A w \in Executions : ShouldRunAuditWithoutExtraction(w)
    BY <2>1 DEF ShouldRunAuditWithoutExtraction
  <2> QED BY <2>1, <2>2, StepOrigins
<1>3. ASSUME NEW j \in JobIds, Creates(j)
      PROVE  note'.stage = "ANALYZING" /\ Outdated
  <2>1. ~ScheduleNoteAuditRecovery(j) /\ ~ScheduleNoteReprocess(j)
    BY HandlersWrite DEF Outdated
  <2>2. ~ScheduleOrphanedNote
    BY DEF ScheduleOrphanedNote, Outdated, RowInv
  <2>3. Moves("ANALYZING", "PROCESSING", "NONE")
    BY <1>3, <2>1, <2>2, HandlersWrite DEF Creates
  <2> QED BY <2>3 DEF Moves, Outdated
<1>4. ASSUME NEW w \in Executions, Reads(w)
      PROVE  /\ note'.stage = "ANALYZING"
             /\ \A v \in Executions :
                  exec'[v].step \notin {"claim", "read"} /\ exec'[v].code # "UNREADABLE"
  <2>1. exec[w].step = "read" /\ Full(exec[w].job) /\ exec[w].code = "NONE"
    BY <1>4 DEF Reads, ExecutionsInv, ExecutionOK
  <2>2. exec' = [exec EXCEPT ![w].step = "audit"]
    BY <1>4 DEF Reads, PersistExtraction, Continue
  <2>3. exec'[w].step = "audit" /\ exec'[w].code = "NONE"
    BY <2>1, <2>2 DEF TypeOK, Memory
  <2>4. \A v \in Executions \ {w} :
          exec[v].step \notin {"claim", "read"} /\ exec[v].code # "UNREADABLE"
    BY <2>1, OneReader
  <2>5. \A v \in Executions \ {w} : exec'[v] = exec[v]
    BY <2>2
  <2> QED BY <1>4, <2>3, <2>4, <2>5 DEF Reads
<1>5. CASE (\A j \in JobIds : ~Creates(j)) /\ \A w \in Executions : ~Reads(w)
  <2>1. Outcome
    BY <1>0, <1>1, <1>5, NoteOutcome
  <2>2. Outdated
    BY <1>5, <2>1 DEF Outcome, Outdated, Stays, Moves
  <2>3. /\ note.stage \in {"ANALYZING", "FAILED"} /\ note.reading # 0
        /\ \A w \in Executions : exec[w].step \notin {"claim", "read"} /\ exec[w].code # "UNREADABLE"
    BY <1>2, <2>2 DEF OutdatedInv
  <2>4. note'.stage \in {"ANALYZING", "FAILED"}
    BY <1>5, <2>1, <2>3 DEF Outcome, Stays, Moves
  <2> QED BY <1>2, <2>2, <2>4
<1> QED BY <1>2, <1>3, <1>4, <1>5

LEMMA InitOutdated == Init => OutdatedInv
BY DEF Init, OutdatedInv, Outdated

(* The stored diagnosis is of the stored reading, however many executions    *)
(* read and audited the note meanwhile (process-note-audit.ts:745-777): if   *)
(* no database error ends the job of an answer as an interruption that may   *)
(* be read again, whoever dies or loses a lease; or if no lease is lost to a *)
(* living execution, whatever the database does.                             *)
THEOREM DiagnosisOfReading ==
    ASSUME "db_error" \notin Faults \/ Steady
    PROVE  Spec => []DiagnosisMatchesReading
<1>1. CASE "db_error" \notin Faults
  <2>1. Init => MatchInv
    BY InitMatches
  <2>2. NoteInv /\ MatchInv /\ [Next]_vars => MatchInv'
    BY <1>1, NextMatches
  <2>3. MatchInv => DiagnosisMatchesReading
    BY DEF MatchInv
  <2> QED BY <2>1, <2>2, <2>3, NoteHolds, PTL DEF Spec
<1>2. CASE Steady
  <2>1. Init => OutdatedInv
    BY InitOutdated
  <2>2. SteadyInv /\ OutdatedInv /\ [Next]_vars => OutdatedInv'
    BY <1>2, NextOutdated
  <2>3. OutdatedInv => DiagnosisMatchesReading
    BY DEF OutdatedInv, Outdated, DiagnosisMatchesReading
  <2> QED BY <1>2, <2>1, <2>2, <2>3, SteadyHolds, PTL DEF Spec
<1> QED BY <1>1, <1>2

--------------------------------------------------------------------------------
(* The pipeline undisturbed: processes do not die, the database answers and  *)
(* no lease is lost; the configuration may be invalid, documents unreadable, *)
(* providers fail, and senders, admins and polls act at any moment.  The file *)
(* may still be on its way when the analysis starts, and arrive at any       *)
(* moment; where it may never arrive, it is stored before (Steady).  Then    *)
(* every attempt is the last one of its job and works alone on the note.     *)

Undisturbed == Steady /\ Faults \subseteq {"storage"}

(* What a job waiting to be started finds. *)
Ready(j) ==
    \/ /\ Full(j) /\ note.result = "NONE"
       /\ \/ note.status = "RECEIVED"
          \/ note.status = "PROCESSING" /\ note.stage = "ANALYZING" /\ note.reading # 0
    \/ ~Full(j) /\ note.status = "PROCESSING" /\ note.stage = "ANALYZING"

InStage(stage) == note.stage = stage /\ note.status = "PROCESSING"

(* What an execution finds when it takes its next step; the version may have *)
(* changed since, if the file arrived. *)
Fits(w) ==
    /\ exec[w].step = "start" => Ready(exec[w].job)
    /\ exec[w].step \in {"mark", "audit"} =>
         InStage("ANALYZING") /\ note.reading # 0
    /\ exec[w].step = "claim" => note.status = "RECEIVED"
    /\ exec[w].step = "read" => InStage("EXTRACTING")
    /\ exec[w].step = "judge" => InStage("ANALYZING")
    /\ exec[w].step = "fail" =>
         /\ Bounded(exec[w].code)
         /\ note.status \in {"RECEIVED", "PROCESSING"} /\ note.stage # "COMPLETED"

(* The job that carries the note is the only one; it has its execution or    *)
(* waits for one; and it was created for what the note still lacks.          *)
OneAtWorkInv ==
    /\ \A j \in JobIds : jobs[j].status # "FAILED" /\ ~jobs[j].stale
    /\ \A j \in JobIds : jobs[j].status = "RUNNING" => \E w \in Executions : exec[w].job = j
    /\ \A j \in JobIds : jobs[j].status = "PENDING" => Ready(j)
    /\ \A i, j \in JobIds : Carries(i) /\ Carries(j) => i = j
    /\ \A w \in Executions : Fits(w)
    /\ \A j \in JobIds : Carries(j) =>
         IF Full(j) THEN note.result = "NONE"
         ELSE submission[j].status = "QUEUED" /\ note.result = "NEEDS_CONTEXT"
    /\ \A j \in JobIds : submission[j].status = "QUEUED" => Carries(j)
    /\ \A i, j \in JobIds :
         /\ submission[i].status # "NONE" /\ submission[j].status # "NONE"
         /\ submission[i].round = submission[j].round
         => i = j
WorkInv == SteadyInv /\ RoundInv /\ OneAtWorkInv

(* A waiting job has no execution. *)
LEMMA WaitingIsFree ==
    ASSUME HeldInv, NEW j \in JobIds, jobs[j].status # "RUNNING"
    PROVE  \A v \in Executions : exec[v].job # j
BY DEF HeldInv, Holds

LEMMA AloneAtWork ==
    ASSUME WorkInv, NEW w \in Executions, exec[w].step \notin {"idle", "complete"}
    PROVE  /\ exec[w].job \in JobIds /\ Holds(w) /\ Carries(exec[w].job)
           /\ \A i \in JobIds : Carries(i) => i = exec[w].job
           /\ \A i \in JobIds : jobs[i].status # "PENDING"
           /\ \A v \in Executions \ {w} : exec[v].step \in {"idle", "complete"}
<1> USE DEF WorkInv, SteadyInv, NoteInv
<1>1. \A v \in Executions :
        exec[v].step # "idle" => exec[v].job \in JobIds /\ Holds(v)
  BY ExecFields DEF ExecutionsInv, ExecutionOK, HeldInv
<1>2. ASSUME NEW v \in Executions, exec[v].step \notin {"idle", "complete"}
      PROVE  exec[v].job \in JobIds /\ Carries(exec[v].job)
  <2>1. PICK j \in JobIds : j = exec[v].job /\ jobs[j].status = "RUNNING"
    BY <1>1, <1>2 DEF Holds
  <2>2. \A u \in Executions : exec[u].job = j => u = v
    BY <2>1, AloneOnJob
  <2>3. Carries(j)
    BY <1>2, <2>1, <2>2 DEF Carries, Unfinished
  <2> QED BY <2>1, <2>3
<1>3. \A i \in JobIds : Carries(i) => i = exec[w].job
  BY <1>2 DEF OneAtWorkInv
<1>4. ASSUME NEW i \in JobIds, jobs[i].status = "PENDING" PROVE FALSE
  <2>1. Carries(i) /\ i # exec[w].job
    BY <1>1, <1>4, WaitingIsFree DEF Carries, Unfinished
  <2> QED BY <1>3, <2>1
<1>5. \A v \in Executions \ {w} : exec[v].step \in {"idle", "complete"}
  BY <1>2, <1>3, AloneOnJob
<1> QED BY <1>1, <1>2, <1>3, <1>4, <1>5

(* The execution at work takes a step of its own and goes on. *)
LEMMA WorkGoesOn ==
    ASSUME WorkInv, NEW w \in Executions, exec[w].step \notin {"idle", "complete"},
           exec'[w].step \notin {"idle", "complete"}, exec'[w].job = exec[w].job,
           \A v \in Executions \ {w} : exec'[v] = exec[v],
           jobs' = jobs, submission' = submission, note'.result = note.result, Fits(w)'
    PROVE  OneAtWorkInv'
<1>1. /\ \A i \in JobIds : jobs[i].status # "PENDING"
      /\ \A v \in Executions \ {w} : exec[v].step \in {"idle", "complete"}
  BY AloneAtWork
<1>2. \A j \in JobIds : Carries(j)' <=> Carries(j)
  BY DEF Carries, Unfinished
<1>3. \A v \in Executions \ {w} : Fits(v)'
  BY <1>1 DEF Fits
<1>4. \A v \in Executions : exec'[v].job = exec[v].job
  OBVIOUS
<1>5. OneAtWorkInv
  BY DEF WorkInv
<1> QED BY <1>1, <1>2, <1>3, <1>4, <1>5 DEF OneAtWorkInv, Full

(* The work ends: the job was closed, or only that is left to do. *)
LEMMA WorkEnds ==
    ASSUME WorkInv, NEW w \in Executions, exec[w].step \notin {"idle", "complete"},
           NEW j \in JobIds, j = exec[w].job,
           \A v \in Executions \ {w} : exec'[v] = exec[v],
           \A i \in JobIds \ {j} : jobs'[i] = jobs[i],
           \/ jobs'[j] = jobs[j] /\ exec'[w].step = "complete" /\ exec'[w].job = j
           \/ jobs'[j].status = "CANCELLED" /\ ~jobs'[j].stale /\ exec'[w] = Idle,
           SubmissionsKept, \A i \in JobIds : submission'[i].status # "QUEUED"
    PROVE  OneAtWorkInv'
<1>1. /\ \A i \in JobIds : Carries(i) => i = j
      /\ \A i \in JobIds : jobs[i].status # "PENDING"
      /\ \A v \in Executions \ {w} : exec[v].step \in {"idle", "complete"}
  BY AloneAtWork
<1>2. OneAtWorkInv /\ AttemptsAreFenced
  BY DEF WorkInv, SteadyInv, FencingInv
<1>3. ASSUME NEW i \in JobIds PROVE ~Carries(i)'
  <2>1. CASE i = j
    BY <2>1 DEF Carries, Unfinished
  <2>2. CASE i # j
    <3>1. Unfinished(i)' => Unfinished(i)
      BY <2>2 DEF Unfinished
    <3>2. Unfinished(i) => \E v \in Executions : exec[v].job = i /\ exec[v].step = "complete"
      BY <1>1, <2>2 DEF Carries
    <3>3. \A v \in Executions : exec[v].job = i => exec'[v] = exec[v]
      BY <2>2
    <3> QED BY <3>1, <3>2, <3>3 DEF Carries
  <2> QED BY <2>1, <2>2
<1>4. \A v \in Executions \ {w} : Fits(v)'
  BY <1>1 DEF Fits
<1>5. Fits(w)'
  BY DEF Fits, Idle
<1>6. /\ \A i \in JobIds : jobs'[i].status # "FAILED" /\ ~jobs'[i].stale
      /\ \A i \in JobIds : jobs'[i].status # "PENDING"
  BY <1>1, <1>2 DEF OneAtWorkInv
<1>7. \A i \in JobIds : jobs'[i].status = "RUNNING" => \E v \in Executions : exec'[v].job = i
  <2>1. ASSUME NEW i \in JobIds \ {j}, jobs'[i].status = "RUNNING"
        PROVE  \E v \in Executions : exec'[v].job = i
    BY <1>2, <2>1 DEF OneAtWorkInv
  <2> QED BY <2>1
<1>8. \A i, k \in JobIds :
         /\ submission'[i].status # "NONE" /\ submission'[k].status # "NONE"
         /\ submission'[i].round = submission'[k].round
         => i = k
  BY <1>2 DEF OneAtWorkInv, SubmissionsKept
<1> QED BY <1>3, <1>4, <1>5, <1>6, <1>7, <1>8 DEF OneAtWorkInv

(* The fields of an execution after a step of its own. *)
LEMMA AfterStep ==
    ASSUME TypeOK, NEW w \in Executions
    PROVE  /\ \A step : Continue(w, step) =>
                /\ exec'[w].step = step /\ exec'[w].job = exec[w].job
                /\ exec'[w].version = exec[w].version /\ exec'[w].code = exec[w].code
           /\ \A code : FailWith(w, code) =>
                exec'[w].step = "fail" /\ exec'[w].job = exec[w].job /\ exec'[w].code = code
BY DEF TypeOK, Continue, FailWith, Memory

LEMMA FitsFailing ==
    ASSUME TypeOK, NEW w \in Executions, NEW code \in {"EXTRACTION", "UNREADABLE", "AUDIT"},
           FailWith(w, code), note'.status \in {"RECEIVED", "PROCESSING"}, note'.stage # "COMPLETED"
    PROVE  Fits(w)' /\ exec'[w].step = "fail" /\ exec'[w].job = exec[w].job
<1>1. exec'[w].step = "fail" /\ exec'[w].job = exec[w].job /\ exec'[w].code = code
  BY AfterStep
<1> QED BY <1>1 DEF Fits, Bounded

LEMMA AdvanceWorks ==
    ASSUME WorkInv, NEW w \in Executions, Advance(w)
    PROVE  OneAtWorkInv'
<1> USE DEF WorkInv, SteadyInv, NoteInv
<1>0. /\ \A v \in Executions \ {w} : exec'[v] = exec[v]
      /\ exec[w].step # "idle" => exec[w].job \in JobIds /\ Holds(w)
      /\ Fits(w)
  BY OneActs, ExecFields DEF ExecutionsInv, ExecutionOK, HeldInv, OneAtWorkInv
<1>1. CASE FindNoteState(w)
  <2>0. exec[w].step = "start" /\ note' = note /\ jobs' = jobs /\ submission' = submission
    BY <1>1 DEF FindNoteState
  <2>1. PICK j \in JobIds : j = exec[w].job
    BY <1>0, <2>0
  <2>2. Ready(j) /\ Carries(j)
    BY <1>0, <2>0, <2>1, AloneAtWork DEF Fits
  <2>3. ~Full(j) => note.reading # 0
    BY <2>2 DEF OneAtWorkInv, RowInv
  <2>4. Continue(w, IF ShouldRunAuditWithoutExtraction(w) THEN "mark" ELSE "claim")
    BY <1>1 DEF FindNoteState
  <2>5. CASE ShouldRunAuditWithoutExtraction(w)
    <3>1. note.status = "PROCESSING" /\ note.stage = "ANALYZING" /\ note.reading # 0
      <4>1. CASE ~Full(j)
        BY <2>2, <2>3, <4>1 DEF Ready
      <4>2. CASE Full(j)
        <5>1. note.reading # 0
          BY <2>1, <2>5, <4>2, AnswersAreAudited DEF ShouldRunAuditWithoutExtraction
        <5> QED BY <2>2, <4>2, <5>1 DEF Ready, RowInv
      <4> QED BY <4>1, <4>2
    <3>2. exec'[w].step = "mark" /\ exec'[w].job = exec[w].job
      BY <2>4, <2>5, AfterStep
    <3>3. Fits(w)'
      BY <2>0, <3>1, <3>2 DEF Fits, InStage
    <3> QED BY <1>0, <2>0, <3>2, <3>3, WorkGoesOn
  <2>6. CASE ~ShouldRunAuditWithoutExtraction(w)
    <3>1. Full(j)
      BY <2>1, <2>6, AnswersAreAudited DEF ShouldRunAuditWithoutExtraction
    <3>2. note.status = "RECEIVED"
      BY <2>2, <2>6, <3>1 DEF Ready, ShouldRunAuditWithoutExtraction
    <3>3. exec'[w].step = "claim" /\ exec'[w].job = exec[w].job
      BY <2>4, <2>6, AfterStep
    <3>4. Fits(w)'
      BY <2>0, <3>2, <3>3 DEF Fits
    <3> QED BY <1>0, <2>0, <3>3, <3>4, WorkGoesOn
  <2> QED BY <2>5, <2>6
<1>2. CASE MarkAuditStarted(w)
  <2>1. /\ exec[w].step = "mark" /\ jobs' = jobs /\ submission' = submission
        /\ Moves("ANALYZING", "PROCESSING", "NONE") /\ Continue(w, "audit")
    BY <1>2, ExecutionWrites DEF MarkAuditStarted
  <2>2. exec'[w].step = "audit" /\ exec'[w].job = exec[w].job
    BY <2>1, AfterStep
  <2>3. Fits(w)' /\ note'.result = note.result
    BY <1>0, <2>1, <2>2 DEF Fits, Moves, InStage
  <2> QED BY <1>0, <2>1, <2>2, <2>3, WorkGoesOn
<1>3. CASE ClaimNote(w)
  <2>0. exec[w].step = "claim" /\ note.status = "RECEIVED" /\ jobs' = jobs /\ submission' = submission
    BY <1>0, <1>3 DEF ClaimNote, Fits
  <2>1. /\ note' = Bump([note EXCEPT !.stage = "EXTRACTING", !.status = "PROCESSING",
                                     !.failure = "NONE"])
        /\ exec' = [exec EXCEPT ![w].step = "read", ![w].version = note.version + 1]
    BY <1>3, <2>0 DEF ClaimNote, CanExtract
  <2>2. /\ exec'[w].step = "read" /\ exec'[w].job = exec[w].job /\ exec'[w].version = note.version + 1
    BY <2>1 DEF TypeOK, Memory
  <2>3. /\ note'.stage = "EXTRACTING" /\ note'.status = "PROCESSING"
        /\ note'.version = note.version + 1 /\ note'.result = note.result
    BY <2>1 DEF Bump, TypeOK, NoteRows
  <2>4. Fits(w)'
    BY <2>2, <2>3 DEF Fits, InStage
  <2> QED BY <1>0, <2>0, <2>2, <2>3, <2>4, WorkGoesOn
<1>4. CASE PersistExtraction(w) /\ ~NoteUnchangedSince(w, "EXTRACTING")
  <2>0. /\ exec[w].step = "read" /\ InStage("EXTRACTING") /\ jobs' = jobs /\ submission' = submission
        /\ note' = note /\ FailWith(w, "EXTRACTION")
    BY <1>0, <1>4 DEF PersistExtraction, Fits
  <2>1. Fits(w)' /\ exec'[w].step = "fail" /\ exec'[w].job = exec[w].job
    BY <2>0, FitsFailing DEF InStage
  <2> QED BY <1>0, <2>0, <2>1, WorkGoesOn
<1>12. CASE PersistExtraction(w) /\ NoteUnchangedSince(w, "EXTRACTING")
  <2>0. exec[w].step = "read" /\ NoteUnchangedSince(w, "EXTRACTING") /\ jobs' = jobs /\ submission' = submission
    BY <1>12 DEF PersistExtraction
  <2>1. /\ note' = Bump([note EXCEPT !.stage = "ANALYZING", !.reading = note.version + 1])
        /\ Continue(w, "audit")
    BY <1>12, <2>0 DEF PersistExtraction
  <2>2. exec'[w].step = "audit" /\ exec'[w].job = exec[w].job
    BY <2>1, AfterStep
  <2>3. /\ note'.stage = "ANALYZING" /\ note'.status = note.status
        /\ note'.reading = note.version + 1 /\ note'.result = note.result
    BY <2>1 DEF Bump, TypeOK, NoteRows
  <2>4. note'.reading # 0 /\ note'.status = "PROCESSING"
    BY <2>0, <2>3, ExecFields DEF NoteUnchangedSince
  <2>5. Fits(w)'
    BY <2>2, <2>3, <2>4 DEF Fits, InStage
  <2> QED BY <1>0, <2>0, <2>2, <2>3, <2>5, WorkGoesOn
<1>5. CASE FailExtraction(w)
  <2>0. exec[w].step = "read" /\ InStage("EXTRACTING") /\ jobs' = jobs /\ submission' = submission
    BY <1>0, <1>5 DEF FailExtraction, Fits
  <2>1. PICK code \in {"EXTRACTION", "UNREADABLE"} : FailWith(w, code)
    BY <1>5 DEF FailExtraction
  <2>2. note'.stage = "EXTRACTING" /\ note'.status = "PROCESSING" /\ note'.result = note.result
    BY <1>5, <2>0, ExecutionWrites DEF InStage, NoteUnchangedSince, Moves
  <2>3. Fits(w)' /\ exec'[w].step = "fail" /\ exec'[w].job = exec[w].job
    BY <2>1, <2>2, FitsFailing
  <2> QED BY <1>0, <2>0, <2>2, <2>3, WorkGoesOn
<1>6. CASE LoadAuditContext(w)
  <2>0. /\ exec[w].step = "audit" /\ jobs' = jobs /\ submission' = submission /\ note' = note
        /\ note.status = "PROCESSING" /\ note.stage = "ANALYZING" /\ note.reading # 0
    BY <1>0, <1>6 DEF LoadAuditContext, Fits, InStage
  <2>1. exec' = [exec EXCEPT ![w].step = "judge", ![w].version = note.version,
                             ![w].reading = note.reading]
    BY <1>6, <2>0 DEF LoadAuditContext
  <2>2. /\ exec'[w].step = "judge" /\ exec'[w].job = exec[w].job /\ exec'[w].version = note.version
    BY <2>1 DEF TypeOK, Memory
  <2>3. Fits(w)'
    BY <2>0, <2>2 DEF Fits, InStage
  <2> QED BY <1>0, <2>0, <2>2, <2>3, WorkGoesOn
<1>7. CASE DiscardAudit(w)
  <2>0. /\ exec[w].step = "judge" /\ InStage("ANALYZING") /\ jobs' = jobs /\ submission' = submission
        /\ note' = note /\ FailWith(w, "AUDIT")
    BY <1>0, <1>7 DEF DiscardAudit, Fits
  <2>1. Fits(w)' /\ exec'[w].step = "fail" /\ exec'[w].job = exec[w].job
    BY <2>0, FitsFailing DEF InStage
  <2> QED BY <1>0, <2>0, <2>1, WorkGoesOn
<1>8. CASE FailAudit(w)
  <2>0. exec[w].step = "judge" /\ InStage("ANALYZING") /\ jobs' = jobs /\ submission' = submission
    BY <1>0, <1>8 DEF FailAudit, Fits
  <2>1. FailWith(w, "AUDIT")
    BY <1>8 DEF FailAudit
  <2>2. note'.stage = "ANALYZING" /\ note'.status = "PROCESSING" /\ note'.result = note.result
    BY <1>8, <2>0, ExecutionWrites DEF InStage, NoteUnchangedSince, Moves
  <2>3. Fits(w)' /\ exec'[w].step = "fail" /\ exec'[w].job = exec[w].job
    BY <2>1, <2>2, FitsFailing
  <2> QED BY <1>0, <2>0, <2>2, <2>3, WorkGoesOn
<1>9. CASE \E class \in Classes, asks \in BOOLEAN : FinalizeAudit(w, class, asks)
  <2>0. /\ exec[w].step = "judge" /\ jobs' = jobs /\ Continue(w, "complete")
        /\ submission' = IF Answers(w) THEN [submission EXCEPT ![exec[w].job].status = "COMPLETED"]
                         ELSE submission
    BY <1>9 DEF FinalizeAudit
  <2>1. PICK j \in JobIds : j = exec[w].job /\ \A i \in JobIds : Carries(i) => i = j
    BY <2>0, AloneAtWork
  <2>2. exec'[w].step = "complete" /\ exec'[w].job = j
    BY <2>0, <2>1, AfterStep
  <2>3. \A i \in JobIds \ {j} : submission[i].status # "QUEUED"
    BY <2>1 DEF OneAtWorkInv
  <2>4. SubmissionsKept /\ \A i \in JobIds : submission'[i].status # "QUEUED"
    <3>1. CASE Answers(w)
      <4>1. submission[j].status # "NONE"
        BY <2>1, <3>1, AnswersAreAudited DEF JobsInv
      <4>2. submission' = [submission EXCEPT ![j].status = "COMPLETED"]
        BY <2>0, <2>1, <3>1
      <4>3. submission'[j].round = submission[j].round /\ submission'[j].status = "COMPLETED"
        BY <4>2 DEF TypeOK, Submissions
      <4>4. \A i \in JobIds \ {j} : submission'[i] = submission[i]
        BY <4>2 DEF TypeOK
      <4> QED BY <2>3, <4>1, <4>3, <4>4 DEF SubmissionsKept
    <3>2. CASE ~Answers(w)
      <4>1. submission[j].status = "NONE" /\ submission' = submission
        BY <2>0, <2>1, <3>2, AnswersAreAudited DEF JobsInv
      <4> QED BY <2>3, <4>1 DEF SubmissionsKept
    <3> QED BY <3>1, <3>2
  <2> QED BY <1>0, <2>0, <2>1, <2>2, <2>4, WorkEnds
<1>10. CASE FailJob(w)
  <2>0. /\ exec[w].step = "fail" /\ exec'[w] = Idle /\ Bounded(exec[w].code)
        /\ note.status \in {"RECEIVED", "PROCESSING"} /\ note.stage # "COMPLETED"
    BY <1>0, <1>10 DEF FailJob, Fits, TypeOK
  <2>1. PICK j \in JobIds : j = exec[w].job /\ Holds(w) /\ \A i \in JobIds : Carries(i) => i = j
    BY <2>0, AloneAtWork
  <2>2. jobs' = ReturnJob(j, TRUE) /\ ReleaseSubmission(j)
    BY <1>10, <2>0, <2>1 DEF FailJob, Exhausted, HasDiagnosis, HasFailed
  <2>3. /\ jobs'[j].status = "CANCELLED" /\ ~jobs'[j].stale
        /\ \A i \in JobIds \ {j} : jobs'[i] = jobs[i]
    BY <2>2 DEF ReturnJob, CloseJob, TypeOK, JobRows
  <2>4. \A i \in JobIds : submission'[i].status # "QUEUED"
    <3>1. \A i \in JobIds \ {j} : submission[i].status # "QUEUED" /\ submission'[i] = submission[i]
      BY <2>1, <2>2 DEF OneAtWorkInv, ReleaseSubmission, TypeOK
    <3>2. submission'[j].status # "QUEUED"
      BY <2>2 DEF ReleaseSubmission, TypeOK, Submissions
    <3> QED BY <3>1, <3>2
  <2>5. SubmissionsKept
    BY <2>2, ReleaseKeeps
  <2> QED BY <1>0, <2>0, <2>1, <2>3, <2>4, <2>5, WorkEnds
<1>11. CASE CompleteJob(w)
  <2>0. exec[w].step = "complete" /\ exec'[w] = Idle /\ note' = note /\ submission' = submission
    BY <1>11 DEF CompleteJob, TypeOK
  <2>1. PICK j \in JobIds : j = exec[w].job /\ Holds(w)
    BY <1>0, <2>0
  <2>2. jobs' = CloseJob(j, "SUCCEEDED")
    BY <1>11, <2>1 DEF CompleteJob
  <2>3. /\ jobs'[j].status = "SUCCEEDED" /\ ~jobs'[j].stale /\ jobs'[j].type = jobs[j].type
        /\ \A i \in JobIds \ {j} : jobs'[i] = jobs[i]
    BY <2>2 DEF CloseJob, TypeOK, JobRows
  <2>4. ~Carries(j) /\ ~Carries(j)'
    BY <2>0, <2>1, <2>3 DEF Carries, Unfinished
  <2>5. \A i \in JobIds \ {j} : \A v \in Executions :
          /\ exec[v].job = i => exec'[v] = exec[v]
          /\ exec'[v].job = i => exec'[v] = exec[v]
    BY <1>0, <2>0, <2>1, IdleHoldsNothing
  <2>6. \A i \in JobIds \ {j} : Carries(i)' <=> Carries(i)
    BY <2>3, <2>5 DEF Carries, Unfinished
  <2>7. \A i \in JobIds : Ready(i)' <=> Ready(i)
    BY <2>0, <2>3 DEF Ready, Full
  <2>8. \A v \in Executions : Fits(v)'
    <3>1. ASSUME NEW v \in Executions \ {w} PROVE Fits(v)'
      <4>1. exec'[v] = exec[v] /\ Fits(v) /\ (exec[v].step = "start" => exec[v].job \in JobIds)
        BY <1>0, ExecFields DEF OneAtWorkInv, ExecutionsInv, ExecutionOK
      <4>2. exec[v].step = "start" => (Ready(exec[v].job)' <=> Ready(exec[v].job))
        <5>1. ASSUME NEW i \in JobIds, exec'[v].job = i, exec[v].job = i
              PROVE Ready(exec[v].job)' <=> Ready(exec[v].job)
          BY <2>7, <5>1
        <5> QED BY <4>1, <5>1
      <4> QED BY <2>0, <4>1, <4>2 DEF Fits, InStage
    <3>2. Fits(w)'
      BY <2>0 DEF Fits, Idle
    <3> QED BY <3>1, <3>2
  <2>9. OneAtWorkInv
    OBVIOUS
  <2>10. \A i \in JobIds : jobs'[i].status = "RUNNING" => \E v \in Executions : exec'[v].job = i
    BY <2>3, <2>5, <2>9 DEF OneAtWorkInv
  <2>11. \A i \in JobIds : Full(i)' <=> Full(i)
    BY <2>3 DEF Full
  <2>12. \A i \in JobIds : /\ jobs'[i].status # "FAILED" /\ ~jobs'[i].stale
                           /\ jobs'[i].status = "PENDING" => Ready(i)'
    BY <2>3, <2>7, <2>9 DEF OneAtWorkInv
  <2>13. \A i, k \in JobIds : Carries(i)' /\ Carries(k)' => i = k
    BY <2>4, <2>6, <2>9 DEF OneAtWorkInv
  <2>14. \A i \in JobIds :
           /\ Carries(i)' => IF Full(i)' THEN note'.result = "NONE"
                             ELSE submission'[i].status = "QUEUED" /\ note'.result = "NEEDS_CONTEXT"
           /\ submission'[i].status = "QUEUED" => Carries(i)'
    BY <2>0, <2>4, <2>6, <2>9, <2>11 DEF OneAtWorkInv
  <2>15. \A i, k \in JobIds :
           /\ submission'[i].status # "NONE" /\ submission'[k].status # "NONE"
           /\ submission'[i].round = submission'[k].round
           => i = k
    BY <2>0, <2>9 DEF OneAtWorkInv
  <2> QED BY <2>8, <2>10, <2>12, <2>13, <2>14, <2>15 DEF OneAtWorkInv
<1> QED BY <1>1, <1>2, <1>3, <1>4, <1>12, <1>5, <1>6, <1>7, <1>8, <1>9, <1>10, <1>11 DEF Advance

(* A job is created only for a note that nobody carries. *)
LEMMA NoneCarries ==
    ASSUME WorkInv, NEW j \in JobIds, Creates(j), NEW i \in JobIds
    PROVE  ~Carries(i)
<1> USE DEF WorkInv, SteadyInv, NoteInv
<1>0. OneAtWorkInv
  OBVIOUS
<1>1. CASE SubmitContext(j)
  <2>1. note.result = "NEEDS_CONTEXT" /\ SubmittedFor(note.round) = {}
    BY <1>1 DEF SubmitContext
  <2>2. ~(submission[i].status # "NONE" /\ submission[i].round = note.round)
    BY <2>1 DEF SubmittedFor
  <2> QED BY <1>0, <2>1, <2>2 DEF OneAtWorkInv, RoundInv, Carries
<1>2. CASE ~SubmitContext(j)
  <2>1. ~Unfinished(i)
    BY <1>0, <1>2 DEF Creates, ScheduleNoteAuditRecovery, ScheduleNoteReprocess,
                      ScheduleOrphanedNote, Unfinished, OneAtWorkInv
  <2> QED BY <2>1 DEF Carries
<1> QED BY <1>1, <1>2

LEMMA CreationWorks ==
    ASSUME WorkInv, NEW j \in JobIds, Creates(j)
    PROVE  OneAtWorkInv'
<1> USE DEF WorkInv, SteadyInv, NoteInv
<1>0. OneAtWorkInv
  OBVIOUS
<1>1. \A i \in JobIds : ~Carries(i)
  BY NoneCarries
<1>2. /\ jobs[j].status = "ABSENT" /\ jobs'[j].status = "PENDING" /\ exec' = exec
      /\ Full(j)' <=> ~SubmitContext(j)
      /\ \A i \in JobIds \ {j} : jobs'[i] = jobs[i]
  BY <1>0, CreatedRows DEF OneAtWorkInv
<1>3. ~jobs'[j].stale
  BY DEF Creates, ScheduleNoteAuditRecovery, ScheduleNoteReprocess, ScheduleOrphanedNote,
         SubmitContext, NewJob, NoJob, TypeOK
<1>4. \A v \in Executions : exec[v].step \in {"idle", "complete"} /\ exec[v].job # j
  BY <1>1, <1>2, AloneAtWork, WaitingIsFree
<1>5. \A i \in JobIds : jobs[i].status # "PENDING"
  BY <1>1, WaitingIsFree DEF Carries, Unfinished
<1>6. \A i \in JobIds : Carries(i)' <=> i = j
  <2>1. Carries(j)'
    BY <1>2, <1>4 DEF Carries, Unfinished
  <2>2. \A i \in JobIds \ {j} : Carries(i)' <=> Carries(i)
    BY <1>2 DEF Carries, Unfinished
  <2> QED BY <1>1, <2>1, <2>2
<1>7. \A v \in Executions : Fits(v)'
  BY <1>2, <1>4 DEF Fits
<1>8. Ready(j)'
  <2>1. CASE ScheduleNoteAuditRecovery(j)
    <3>1. note.reading # 0 /\ Full(j)'
      <4>1. ~SubmitContext(j)
        BY <2>1, CreatedTypes
      <4> QED BY <1>2, <2>1, <4>1 DEF ScheduleNoteAuditRecovery
    <3> QED BY <2>1, <3>1, HandlersWrite DEF Ready
  <2>2. CASE ScheduleNoteReprocess(j)
    <3>1. Full(j)'
      BY <2>2 DEF ScheduleNoteReprocess, NewJob, NoJob, Full
    <3> QED BY <2>2, <3>1, HandlersWrite DEF Ready
  <2>3. CASE SubmitContext(j)
    BY <1>2, <2>3, HandlersWrite DEF Ready, Moves
  <2>4. CASE ScheduleOrphanedNote /\ j = 1
    <3>1. Full(j)'
      BY <2>4 DEF ScheduleOrphanedNote, NewJob, NoJob, Full, TypeOK
    <3> QED BY <2>4, <3>1 DEF ScheduleOrphanedNote, Ready, RowInv
  <2> QED BY <2>1, <2>2, <2>3, <2>4 DEF Creates
<1>9. /\ \A i \in JobIds : submission'[i].status = "QUEUED" => i = j
      /\ IF Full(j)' THEN note'.result = "NONE"
         ELSE submission'[j].status = "QUEUED" /\ note'.result = "NEEDS_CONTEXT"
      /\ \A i, k \in JobIds :
           /\ submission'[i].status # "NONE" /\ submission'[k].status # "NONE"
           /\ submission'[i].round = submission'[k].round
           => i = k
  <2>1. \A i \in JobIds : submission[i].status # "QUEUED"
    BY <1>0, <1>1 DEF OneAtWorkInv
  <2>2. CASE SubmitContext(j)
    <3>1. /\ note.result = "NEEDS_CONTEXT"
          /\ \A i \in JobIds : ~(submission[i].status # "NONE" /\ submission[i].round = note.round)
      BY <2>2 DEF SubmitContext, SubmittedFor
    <3>2. /\ submission'[j].round = note.round /\ submission'[j].status = "QUEUED"
          /\ \A i \in JobIds \ {j} : submission'[i] = submission[i]
      BY <2>2 DEF SubmitContext, TypeOK
    <3>3. note'.result = note.result
      BY <2>2, HandlersWrite DEF Moves
    <3> QED BY <1>0, <1>2, <2>1, <2>2, <3>1, <3>2, <3>3 DEF OneAtWorkInv
  <2>3. CASE ~SubmitContext(j)
    <3>1. submission' = submission
      BY <2>3 DEF Creates, ScheduleNoteAuditRecovery, ScheduleNoteReprocess, ScheduleOrphanedNote
    <3>2. note'.result = "NONE"
      <4>1. ScheduleOrphanedNote => note'.result = "NONE"
        BY DEF ScheduleOrphanedNote, RowInv
      <4> QED BY <2>3, <4>1, HandlersWrite DEF Creates
    <3> QED BY <1>0, <1>2, <2>1, <2>3, <3>1, <3>2 DEF OneAtWorkInv
  <2> QED BY <2>2, <2>3
<1>10. /\ \A i \in JobIds : jobs'[i].status # "FAILED" /\ ~jobs'[i].stale
       /\ \A i \in JobIds : jobs'[i].status = "RUNNING" => \E v \in Executions : exec'[v].job = i
  BY <1>0, <1>2, <1>3 DEF OneAtWorkInv
<1>11. \A i \in JobIds : jobs'[i].status = "PENDING" => Ready(i)'
  <2>1. \A i \in JobIds : jobs'[i].status = "PENDING" => i = j
    BY <1>2, <1>5
  <2> QED BY <1>8, <2>1
<1> QED BY <1>6, <1>7, <1>9, <1>10, <1>11 DEF OneAtWorkInv

LEMMA ClaimWorks ==
    ASSUME WorkInv, NEW w \in Executions, NEW j \in JobIds, ClaimProcessingJob(w, j)
    PROVE  OneAtWorkInv'
<1> USE DEF WorkInv, SteadyInv, NoteInv
<1>0. OneAtWorkInv /\ exec \in [Executions -> Memory] /\ jobs \in [JobIds -> JobRows]
      /\ Idle.job \notin JobIds
  BY IdleHoldsNothing DEF TypeOK
<1>1. /\ exec[w] = Idle /\ jobs[j].status = "PENDING" /\ note' = note /\ submission' = submission
  BY <1>0 DEF ClaimProcessingJob, CanClaim, OneAtWorkInv
<1>2. /\ exec'[w].step = "start" /\ exec'[w].job = j
      /\ \A v \in Executions \ {w} : exec'[v] = exec[v]
  BY <1>0 DEF ClaimProcessingJob, Idle
<1>3. /\ jobs'[j].status = "RUNNING" /\ ~jobs'[j].stale /\ jobs'[j].type = jobs[j].type
      /\ \A i \in JobIds \ {j} : jobs'[i] = jobs[i]
  <2>1. jobs'[j] = [jobs[j] EXCEPT !.status = "RUNNING", !.attempt = jobs[j].attempt + 1,
                                   !.lockedBy = WorkerId(w), !.stale = FALSE]
    BY <1>0 DEF ClaimProcessingJob
  <2>2. jobs'[j].status = "RUNNING" /\ ~jobs'[j].stale /\ jobs'[j].type = jobs[j].type
    BY <1>0, <2>1 DEF JobRows
  <2> QED BY <1>0, <2>2 DEF ClaimProcessingJob
<1>4. \A v \in Executions : exec[v].step \in {"idle", "complete"} /\ exec[v].job # j
  BY <1>1, AloneAtWork, WaitingIsFree
<1>5. \A i \in JobIds : Carries(i)' <=> Carries(i)
  <2>1. Carries(j) /\ Carries(j)'
    BY <1>1, <1>2, <1>3, <1>4 DEF Carries, Unfinished
  <2>2. \A i \in JobIds \ {j} : \A v \in Executions :
          /\ exec[v].job = i => exec'[v] = exec[v]
          /\ exec'[v].job = i => exec'[v] = exec[v]
    BY <1>0, <1>1, <1>2
  <2>3. \A i \in JobIds \ {j} : Carries(i)' <=> Carries(i)
    BY <1>3, <2>2 DEF Carries, Unfinished
  <2> QED BY <2>1, <2>3
<1>6. \A i \in JobIds : (Ready(i)' <=> Ready(i)) /\ (Full(i)' <=> Full(i))
  BY <1>1, <1>3 DEF Ready, Full
<1>7. \A v \in Executions : Fits(v)'
  <2>1. Fits(w)'
    <3>1. Ready(j)'
      BY <1>0, <1>1, <1>6 DEF OneAtWorkInv
    <3> QED BY <1>2, <3>1 DEF Fits
  <2>2. \A v \in Executions \ {w} : Fits(v)'
    BY <1>2, <1>4 DEF Fits
  <2> QED BY <2>1, <2>2
<1>8. \A i \in JobIds : jobs'[i].status = "RUNNING" => \E v \in Executions : exec'[v].job = i
  <2>1. ASSUME NEW i \in JobIds \ {j}, jobs'[i].status = "RUNNING"
        PROVE  \E v \in Executions : exec'[v].job = i
    <3>1. PICK v \in Executions : exec[v].job = i
      BY <1>0, <1>3, <2>1 DEF OneAtWorkInv
    <3>2. v # w
      BY <1>0, <1>1, <2>1, <3>1
    <3> QED BY <1>2, <3>1, <3>2
  <2> QED BY <1>2, <2>1
<1>9. \A i \in JobIds : /\ jobs'[i].status # "FAILED" /\ ~jobs'[i].stale
                        /\ jobs'[i].status = "PENDING" => Ready(i)'
  BY <1>0, <1>3, <1>6 DEF OneAtWorkInv
<1> QED BY <1>0, <1>1, <1>5, <1>6, <1>7, <1>8, <1>9 DEF OneAtWorkInv

(* A terminal answer is not given while somebody may still store a result. *)
LEMMA NoneConsumes ==
    ASSUME WorkInv, NEW v \in Executions, exec[v].step \in {"read", "judge"}
    PROVE  ~ConsumeTerminalStatus
<1> USE DEF WorkInv, SteadyInv, NoteInv
<1>0. OneAtWorkInv
  OBVIOUS
<1>1. PICK j \in JobIds : j = exec[v].job /\ Carries(j)
  BY AloneAtWork
<1>2. note.status = "PROCESSING"
  BY <1>0 DEF OneAtWorkInv, Fits, InStage
<1> SUFFICES ASSUME EndsForSender PROVE FALSE
  BY DEF ConsumeTerminalStatus
<1>3. CASE Full(j)
  BY <1>0, <1>1, <1>2, <1>3 DEF OneAtWorkInv, EndsForSender
<1>4. CASE ~Full(j)
  <2>1. submission[j].status = "QUEUED" /\ note.result = "NEEDS_CONTEXT"
        /\ submission[j].round = note.round
    BY <1>0, <1>1, <1>4 DEF OneAtWorkInv, RoundInv, Carries
  <2>2. j \in SubmittedFor(note.round) /\ \A i \in SubmittedFor(note.round) : i = j
    BY <1>0, <2>1 DEF SubmittedFor, OneAtWorkInv
  <2>3. (CHOOSE i \in SubmittedFor(note.round) : TRUE) = j
    BY <2>2
  <2>4. SubmissionStatus(note.round) = "QUEUED"
    BY <2>1, <2>2, <2>3 DEF SubmissionStatus
  <2> QED BY <1>2, <2>1, <2>4 DEF EndsForSender
<1> QED BY <1>3, <1>4

LEMMA ConsumptionWorks ==
    ASSUME WorkInv, ConsumeTerminalStatus
    PROVE  OneAtWorkInv'
<1> USE DEF WorkInv, SteadyInv, NoteInv
<1>0. OneAtWorkInv /\ exec' = exec /\ jobs' = jobs /\ submission' = submission
  BY DEF ConsumeTerminalStatus
<1>1. /\ note'.stage = note.stage /\ note'.status = note.status
      /\ note'.result = note.result /\ note'.reading = note.reading
  <2>1. 1 \in JobIds
    BY PipelineAssumption DEF JobIds
  <2> QED BY <2>1, HandlersWrite
<1>2. \A v \in Executions : exec[v].step \notin {"read", "judge"}
  BY NoneConsumes
<1>3. \A i \in JobIds : /\ Carries(i)' <=> Carries(i)
                        /\ Ready(i)' <=> Ready(i)
                        /\ Full(i)' <=> Full(i)
  BY <1>0, <1>1 DEF Carries, Unfinished, Ready, Full
<1>4. \A v \in Executions : Fits(v)'
  <2>1. ASSUME NEW v \in Executions PROVE Fits(v)'
    <3>1. Fits(v) /\ exec'[v] = exec[v] /\ exec[v].step \notin {"read", "judge"}
      BY <1>0, <1>2 DEF OneAtWorkInv
    <3>2. exec[v].step = "start" => Ready(exec[v].job)'
      BY <1>0, <1>1, <3>1 DEF Fits, Ready, Full
    <3> QED BY <1>1, <3>1, <3>2 DEF Fits, InStage
  <2> QED BY <2>1
<1> QED BY <1>0, <1>1, <1>3, <1>4 DEF OneAtWorkInv

(* The file arrives: the note has another version and is where it was. *)
LEMMA ArrivalWorks ==
    ASSUME WorkInv, SendFile \/ FileStored
    PROVE  OneAtWorkInv'
<1>1. exec' = exec /\ jobs' = jobs /\ submission' = submission
  BY DEF SendFile, FileStored
<1>2. /\ note'.stage = note.stage /\ note'.status = note.status
      /\ note'.result = note.result /\ note'.reading = note.reading
  BY DEF SendFile, FileStored, Bump, TypeOK, NoteRows, WorkInv, SteadyInv, NoteInv
<1>3. \A i \in JobIds : /\ Carries(i)' <=> Carries(i)
                        /\ Ready(i)' <=> Ready(i)
                        /\ Full(i)' <=> Full(i)
  BY <1>1, <1>2 DEF Carries, Unfinished, Ready, Full
<1>4. \A v \in Executions : Fits(v)' <=> Fits(v)
  BY <1>1, <1>2 DEF Fits, Ready, Full, InStage
<1> QED BY <1>1, <1>2, <1>3, <1>4 DEF WorkInv, OneAtWorkInv

LEMMA NextWorks ==
    ASSUME Undisturbed
    PROVE  WorkInv /\ [Next]_vars => OneAtWorkInv'
<1> SUFFICES ASSUME WorkInv, [Next]_vars PROVE OneAtWorkInv'
  OBVIOUS
<1> USE DEF WorkInv, SteadyInv, NoteInv
<1>0. OneAtWorkInv
  OBVIOUS
<1>1. ASSUME NEW w \in Executions, InvalidConfiguration(w) PROVE OneAtWorkInv'
  <2>1. /\ exec[w].step = "claim" /\ FailWith(w, "EXTRACTION")
        /\ jobs' = jobs /\ submission' = submission /\ note' = note
    BY <1>1 DEF InvalidConfiguration
  <2>2. note.status = "RECEIVED" /\ note.stage = "RECEIVED"
    BY <1>0, <2>1 DEF OneAtWorkInv, Fits, RowInv
  <2>3. Fits(w)' /\ exec'[w].step = "fail" /\ exec'[w].job = exec[w].job
    BY <2>1, <2>2, FitsFailing
  <2> QED BY <1>1, <2>1, <2>3, OneActs, WorkGoesOn
<1>2. ASSUME NEW w \in Executions, DisturbDatabase(w) \/ Crash(w) PROVE FALSE
  BY <1>2 DEF DisturbDatabase, Crash, Undisturbed
<1>3. ASSUME NEW w \in Executions, Heartbeat(w) PROVE FALSE
  BY <1>0, <1>3 DEF Heartbeat, Holds, OneAtWorkInv
<1>4. ASSUME NEW j \in JobIds, LeaseExpires(j) PROVE FALSE
  <2>1. PICK v \in Executions : exec[v].job = j
    BY <1>0, <1>4 DEF LeaseExpires, OneAtWorkInv
  <2>2. Holds(v)
    BY <2>1 DEF HeldInv
  <2> QED BY <1>4, <2>1, <2>2 DEF LeaseExpires, Undisturbed
<1>5. ASSUME NEW j \in JobIds, RecoverLease(j) PROVE FALSE
  BY <1>0, <1>5 DEF RecoverLease, OneAtWorkInv
<1>6. CASE SendFile \/ FileStored \/ UploadFails
  BY <1>6, ArrivalWorks, UploadHolds DEF Undisturbed
<1>7. CASE UNCHANGED vars
  <2>1. /\ \A i \in JobIds : /\ Carries(i)' <=> Carries(i)
                             /\ Ready(i)' <=> Ready(i)
                             /\ Full(i)' <=> Full(i)
        /\ \A v \in Executions : exec'[v] = exec[v]
        /\ note' = note /\ jobs' = jobs /\ submission' = submission
    BY <1>7 DEF vars, Carries, Unfinished, Ready, Full
  <2>2. \A v \in Executions : Fits(v)' <=> Fits(v)
    BY <1>7, <2>1 DEF vars, Fits, Ready, Full, InStage
  <2> QED BY <1>0, <2>1, <2>2 DEF OneAtWorkInv
<1>8. CASE ScheduleOrphanedNote
  BY <1>8, CreationWorks, PipelineAssumption DEF Creates, JobIds
<1> QED BY <1>1, <1>2, <1>3, <1>4, <1>5, <1>6, <1>7, <1>8, AdvanceWorks, ClaimWorks, CreationWorks,
           ConsumptionWorks DEF Next, Creates

LEMMA InitWorks == Init => OneAtWorkInv
<1> SUFFICES ASSUME Init PROVE OneAtWorkInv
  OBVIOUS
<1>1. /\ \A w \in Executions : exec[w] = Idle
      /\ \A j \in JobIds : submission[j].status = "NONE"
      /\ note.status = "RECEIVED" /\ note.result = "NONE"
  BY DEF Init, NoSubmission
<1>2. \A j \in JobIds : /\ jobs[j].status \in {"ABSENT", "PENDING"} /\ Full(j) /\ ~jobs[j].stale
                        /\ jobs[j].status = "PENDING" => j = 1
  BY DEF Init, NewJob, NoJob, Full
<1>3. \A j \in JobIds : Carries(j) => j = 1
  BY <1>2 DEF Carries, Unfinished
<1>4. \A w \in Executions : Fits(w)
  BY <1>1 DEF Fits, Idle
<1> QED BY <1>1, <1>2, <1>3, <1>4 DEF OneAtWorkInv, Ready

LEMMA WorkHolds ==
    ASSUME Undisturbed
    PROVE  Spec => []WorkInv
<1>1. Steady
  BY DEF Undisturbed
<1>2. Init => RoundInv /\ OneAtWorkInv
  BY InitRound, InitWorks
<1>3. SteadyInv /\ (RoundInv /\ OneAtWorkInv) /\ [Next]_vars => (RoundInv /\ OneAtWorkInv)'
  BY NextRound, NextWorks DEF SteadyInv, WorkInv
<1>4. SteadyInv /\ RoundInv /\ OneAtWorkInv => WorkInv
  BY DEF WorkInv
<1> QED BY <1>1, <1>2, <1>3, <1>4, SteadyHolds, PTL DEF Spec

(* Answers that wait for their re-analysis have a job that will run it: the  *)
(* attempt that ends otherwise releases them in the same transaction         *)
(* (processing-jobs.ts:436-449).                                             *)
THEOREM QueuedSubmissionsHaveJobs ==
    ASSUME Undisturbed
    PROVE  Spec => []QueuedSubmissionHasJob
<1>1. WorkInv => QueuedSubmissionHasJob
  BY DEF WorkInv, OneAtWorkInv, Carries, QueuedSubmissionHasJob
<1> QED BY <1>1, WorkHolds, PTL

(* The note is diagnosed only with the answers that wait for it: whoever     *)
(* would diagnose it without them is gone before they can be given           *)
(* (context-questions.ts:311-396).                                           *)
THEOREM AnswersAreAlwaysHeard ==
    ASSUME Undisturbed
    PROVE  Spec => []AnswersAreHeard
<1>1. WorkInv /\ HasDiagnosis(note) => \A w \in Executions : exec[w].step \in {"idle", "complete"}
  <2> SUFFICES ASSUME WorkInv, HasDiagnosis(note), NEW w \in Executions,
                      exec[w].step \notin {"idle", "complete"}
               PROVE  FALSE
    OBVIOUS
  <2>1. Fits(w) /\ exec[w].step \in Steps
    BY ExecFields DEF WorkInv, SteadyInv, NoteInv, OneAtWorkInv
  <2> QED BY <2>1 DEF Fits, Ready, HasDiagnosis, InStage, Steps
<1>2. WorkInv => AnswersAreHeard
  <2> SUFFICES ASSUME WorkInv, HasDiagnosis(note), NEW j \in JobIds, submission[j].status = "QUEUED"
               PROVE  FALSE
    BY DEF AnswersAreHeard, SubmittedFor
  <2>1. Carries(j)
    BY DEF WorkInv, OneAtWorkInv
  <2>2. jobs[j].status \in {"PENDING", "RUNNING"}
    BY <2>1 DEF Carries, Unfinished, WorkInv, OneAtWorkInv
  <2>3. CASE jobs[j].status = "PENDING"
    BY <2>3 DEF WorkInv, OneAtWorkInv, Ready, HasDiagnosis
  <2>4. CASE jobs[j].status = "RUNNING"
    <3>1. PICK w \in Executions : exec[w].job = j
      BY <2>4 DEF WorkInv, OneAtWorkInv
    <3>2. exec[w].step \notin {"idle", "complete"}
      BY <2>1, <3>1, IdleHoldsNothing DEF Carries, WorkInv, SteadyInv, NoteInv, ExecutionsInv, ExecutionOK, Idle
    <3> QED BY <1>1, <3>1, <3>2
  <2> QED BY <2>2, <2>3, <2>4
<1> QED BY <1>2, WorkHolds, PTL

(* A step of an execution that reads or audits moves it. *)
LEMMA StepsMove ==
    ASSUME TypeOK, NEW w \in Executions, exec[w].step \in {"read", "judge"}, Advance(w)
    PROVE  exec'[w] # exec[w]
<1>1. \/ \E step \in {"audit", "complete"} : Continue(w, step)
      \/ \E code \in Codes : FailWith(w, code)
  BY DEF Advance, FindNoteState, MarkAuditStarted, ClaimNote, PersistExtraction, FailExtraction,
         LoadAuditContext, DiscardAudit, FailAudit, FinalizeAudit, FailJob, CompleteJob, Codes
<1>2. exec'[w].step \in {"audit", "complete", "fail"}
  BY <1>1, AfterStep
<1> QED BY <1>2

(* While an execution reads or audits nobody else writes the note: not the   *)
(* other executions, not an admin, a sender or a poll; only the file, if it  *)
(* was not stored yet, may arrive, and what was paid for is then discarded   *)
(* (process-note-extraction.ts:371-398, process-note-audit.ts:745-777,       *)
(* create-note-upload.ts:272-300).                                           *)
THEOREM HoldersKeepTheNote ==
    ASSUME Undisturbed
    PROVE  Spec => HolderKeepsNote
<1>1. ASSUME WorkInv, [Next]_vars, NEW w \in Executions, exec[w].step \in {"read", "judge"},
             exec'[w] = exec[w], note' # note
      PROVE  FileStored
  <2> USE DEF WorkInv, SteadyInv, NoteInv
  <2>1. /\ \A v \in Executions \ {w} : exec[v].step \in {"idle", "complete"}
        /\ \A i \in JobIds : jobs[i].status # "FAILED" /\ ~jobs[i].stale
        /\ Carries(exec[w].job) /\ exec[w].job \in JobIds
        /\ InStage("EXTRACTING") \/ InStage("ANALYZING")
    BY <1>1, AloneAtWork DEF OneAtWorkInv, Fits
  <2>2. ASSUME NEW v \in Executions, Advance(v) PROVE FALSE
    <3>1. v # w
      BY <1>1, <2>2, StepsMove
    <3>2. exec[v].step \in {"idle", "complete"}
      BY <2>1, <3>1
    <3>3. ~FailJob(v) /\ \A class \in Classes, asks \in BOOLEAN : ~FinalizeAudit(v, class, asks)
      BY <3>2 DEF FailJob, FinalizeAudit
    <3>4. ~MarkAuditStarted(v) /\ ~ClaimNote(v) /\ ~PersistExtraction(v) /\ ~FailExtraction(v) /\ ~FailAudit(v)
      BY <3>2 DEF MarkAuditStarted, ClaimNote, PersistExtraction, FailExtraction, FailAudit
    <3> QED BY <1>1, <2>2, <3>3, <3>4, ExecutionWrites DEF Advance
  <2>3. ASSUME NEW v \in Executions,
               \/ InvalidConfiguration(v) \/ DisturbDatabase(v) \/ Crash(v) \/ Heartbeat(v)
               \/ \E j \in JobIds : ClaimProcessingJob(v, j)
        PROVE  FALSE
    BY <1>1, <2>3, ExecutionWrites
  <2>4. ASSUME NEW j \in JobIds, LeaseExpires(j) \/ RecoverLease(j) PROVE FALSE
    BY <1>1, <2>1, <2>4 DEF LeaseExpires, RecoverLease
  <2>5. ASSUME NEW j \in JobIds, Creates(j) PROVE FALSE
    <3>1. \A i \in JobIds : ~Carries(i)
      BY <1>1, <2>5, NoneCarries
    <3>2. PICK i \in JobIds : i = exec[w].job /\ Carries(i)
      BY <1>1, AloneAtWork
    <3> QED BY <3>1, <3>2
  <2>6. ~ConsumeTerminalStatus
    BY <1>1, NoneConsumes
  <2>7. ~SendFile /\ ~UploadFails
    BY <1>1, UploadHolds DEF Undisturbed, SendFile
  <2>8. 1 \in JobIds
    BY PipelineAssumption DEF JobIds
  <2> QED BY <1>1, <2>2, <2>3, <2>4, <2>5, <2>6, <2>7, <2>8 DEF Next, Creates, vars
<1>2. WorkInv /\ [Next]_vars =>
        [\A w \in Executions :
           /\ Holds(w) /\ exec[w].step \in {"read", "judge"}
           /\ exec'[w] = exec[w] /\ note' # note
           => FileStored]_vars
  BY <1>1
<1> QED BY <1>2, WorkHolds, PTL DEF Spec, HolderKeepsNote

(* A stored reading is audited, not paid for again                           *)
(* (docs/operations/durable-processing.md:16).                               *)
THEOREM StoredReadingsAreReused ==
    ASSUME Undisturbed
    PROVE  Spec => []StoredReadingIsReused
<1>1. WorkInv => StoredReadingIsReused
  BY DEF WorkInv, OneAtWorkInv, Fits, SteadyInv, NoteInv, RowInv, StoredReadingIsReused
<1> QED BY <1>1, WorkHolds, PTL

(* A diagnosis is dropped only by a handler that schedules new work, never   *)
(* by an execution (processing-jobs.ts:317-327).                             *)
THEOREM OnlyNewWorkReopens ==
    ASSUME Undisturbed
    PROVE  Spec => DiagnosisReopenedByJob
<1>1. WorkInv /\ [Next]_vars =>
        (HasDiagnosis(note) /\ ~HasDiagnosis(note')
           => \E j \in JobIds : NextJob(j) /\ jobs'[j].status = "PENDING")
  <2> SUFFICES ASSUME WorkInv, [Next]_vars, HasDiagnosis(note), ~HasDiagnosis(note')
               PROVE  \E j \in JobIds : NextJob(j) /\ jobs'[j].status = "PENDING"
    OBVIOUS
  <2> USE DEF WorkInv, SteadyInv, NoteInv
  <2>1. note' # note
    OBVIOUS
  <2>2. ASSUME NEW w \in Executions, Advance(w) PROVE FALSE
    <3>1. Fits(w) /\ exec[w].step \in Steps
      BY ExecFields DEF OneAtWorkInv
    <3>2. exec[w].step \in {"idle", "complete"}
      BY <3>1 DEF Fits, Ready, HasDiagnosis, InStage, Steps
    <3>3. ~FailJob(w) /\ \A class \in Classes, asks \in BOOLEAN : ~FinalizeAudit(w, class, asks)
      BY <3>2 DEF FailJob, FinalizeAudit
    <3>4. ~MarkAuditStarted(w) /\ ~ClaimNote(w) /\ ~PersistExtraction(w) /\ ~FailExtraction(w) /\ ~FailAudit(w)
      BY <3>2 DEF MarkAuditStarted, ClaimNote, PersistExtraction, FailExtraction, FailAudit
    <3> QED BY <2>1, <2>2, <3>3, <3>4, ExecutionWrites DEF Advance
  <2>3. ASSUME NEW j \in JobIds, LeaseExpires(j) \/ RecoverLease(j) PROVE FALSE
    <3>1. ~RecoverLease(j)
      BY DEF RecoverLease, OneAtWorkInv
    <3> QED BY <2>1, <2>3, <3>1, HandlersWrite
  <2>4. CASE ConsumeTerminalStatus \/ SendFile \/ FileStored \/ UploadFails \/ UNCHANGED vars
    <3>1. ~UploadFails
      BY UploadHolds DEF Undisturbed
    <3>2. /\ ~SendFile
          /\ FileStored => note'.stage = note.stage /\ note'.status = note.status
      BY <2>1 DEF SendFile, FileStored, Bump, TypeOK, NoteRows
    <3>3. 1 \in JobIds
      BY PipelineAssumption DEF JobIds
    <3>4. ~ConsumeTerminalStatus
      BY <3>3, HandlersWrite DEF HasDiagnosis
    <3> QED BY <2>1, <2>4, <3>1, <3>2, <3>4 DEF vars, HasDiagnosis
  <2>5. ASSUME NEW j \in JobIds,
               ScheduleNoteAuditRecovery(j) \/ ScheduleNoteReprocess(j) \/ SubmitContext(j)
        PROVE  NextJob(j) /\ jobs'[j].status = "PENDING"
    BY <2>5, CreatedRows DEF Creates, ScheduleNoteAuditRecovery, ScheduleNoteReprocess, SubmitContext
  <2>6. ~ScheduleOrphanedNote
    BY <2>1 DEF ScheduleOrphanedNote
  <2>7. ASSUME NEW w \in Executions,
               \/ InvalidConfiguration(w) \/ DisturbDatabase(w) \/ Crash(w) \/ Heartbeat(w)
               \/ \E j \in JobIds : ClaimProcessingJob(w, j)
        PROVE  FALSE
    BY <2>1, <2>7, ExecutionWrites
  <2> QED BY <2>2, <2>3, <2>4, <2>5, <2>6, <2>7 DEF Next
<1>2. WorkInv /\ [Next]_vars
        => [HasDiagnosis(note) /\ ~HasDiagnosis(note')
              => \E j \in JobIds : NextJob(j) /\ jobs'[j].status = "PENDING"]_vars
  BY <1>1
<1> QED BY <1>2, WorkHolds, PTL DEF Spec, DiagnosisReopenedByJob
================================================================================
