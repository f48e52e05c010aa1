------------------------- MODULE SelectiveVerification -------------------------
(***************************************************************************)
(* The independent verification of one reading of one attachment:           *)
(* src/src/server/notes/run-selective-verification.ts, called by            *)
(* processNoteAudit.  Its key is made of the attachment and the extraction, *)
(* so every audit of that reading meets the same row, whatever its job, its *)
(* rules or its context round; audits of one note may overlap (a lease that *)
(* ran out).  A recovery is an audit an operator starts over a row that     *)
(* failed; its call has a key of its own.                                   *)
(*                                                                          *)
(* The row carries the job of the audit that created it, so the recovery of *)
(* that job's lease (processing-worker.ts) closes it while the audit may    *)
(* still be calling.  The version of the note decides whose diagnosis is    *)
(* stored.                                                                  *)
(***************************************************************************)
EXTENDS AuditDecision, Naturals

CONSTANTS
    MaxAudits,     \* calls of processNoteAudit over this reading
    MaxOverlap,    \* of them alive at once
    Starts,        \* the requests the audits may start from
    NoRequest      \* of a row that was never created

ASSUME VerificationAssumption ==
    /\ MaxAudits \in Nat
    /\ MaxOverlap \in Nat
    /\ Starts \subseteq Requests
    /\ NoRequest \notin Requests

VARIABLES
    mode,          \* HARNESS_VERIFIER_MODE
    row,           \* the ai_runs rows of kind VERIFICATION
    calls,         \* history: calls of the verifier for each row
    audit,         \* what each audit has in memory, at most MaxOverlap of them
    begun          \* audits begun so far

verificationVars == <<mode, row, calls, audit, begun>>

Audits == 1..MaxOverlap
Ended == {"idle", "done", "gone"}

Rows == {"primary", "recovery"}
Stored ==
    [status : {"NONE", "RUNNING", "SUCCEEDED", "FAILED"}, request : Requests \cup {NoRequest},
     answer : Answers,
     kept : BOOLEAN,       \* response, or rejectedResponse when FAILED, is there
     expired : BOOLEAN]    \* errorCode WORKER_LEASE_EXPIRED; a later success leaves it there
AuditSteps == {"idle", "lookup", "lookup_recovery", "create", "raced", "call", "answer", "store",
               "refuse", "decided", "done", "gone"}
Diagnoses == {"none", "OK", "SUSPICIOUS", "NEEDS_CONTEXT", "INFORMATION_INSUFFICIENT", "READ_FAILED"}
Memory ==
    [at : AuditSteps, recovers : BOOLEAN,      \* it carries an isolatedRecovery
     current : BOOLEAN,                        \* the note has still the version it was loaded with
     request : Requests \cup {NoRequest}, key : Rows, outcome : Outcomes,
     class : Diagnoses, band : {"none", "HIGH", "MEDIUM", "LIMITED"}]

VerificationTypeOK ==
    /\ mode \in Modes
    /\ row \in [Rows -> Stored]
    /\ calls \in [Rows -> Nat]
    /\ audit \in [Audits -> Memory]
    /\ begun \in 0..MaxAudits
    /\ \A a \in Audits : audit[a].at \notin Ended => audit[a].request \in Requests

NoRow == [status |-> "NONE", request |-> NoRequest, answer |-> Empty, kept |-> FALSE,
          expired |-> FALSE]
Blank == [at |-> "idle", recovers |-> FALSE, current |-> FALSE, request |-> NoRequest, key |-> "primary",
          outcome |-> NotRun, class |-> "none", band |-> "none"]

VerificationInit ==
    /\ mode \in Modes
    /\ row = [k \in Rows |-> NoRow]
    /\ calls = [k \in Rows |-> 0]
    /\ audit = [a \in Audits |-> Blank]
    /\ begun = 0

--------------------------------------------------------------------------------
Go(a, at) == audit' = [audit EXCEPT ![a].at = at]
(* The audit has its outcome, and with it the diagnosis; nothing is awaited   *)
(* between the two. *)
Diagnose(a, in, current, outcome) ==
    \E mended \in Mendable(in, outcome) :
        LET class == Classify(in, outcome, mode, mended)
        IN  audit' = [audit EXCEPT ![a] =
                        [Blank EXCEPT !.at = "decided", !.request = in, !.current = current,
                           !.class = class, !.band = Assurance(in, class, outcome, mode, mended)]]
Use(a, outcome) == Diagnose(a, audit[a].request, audit[a].current, outcome)
(* The note gets another version: no audit under way is of the current one. *)
Outdated == [b \in Audits |-> IF audit[b].at \in Ended THEN audit[b] ELSE [audit[b] EXCEPT !.current = FALSE]]
Answered(answer) == [status |-> "answered", answer |-> answer]
Rejected(answer) == [status |-> "rejected", answer |-> answer]

(* parseStoredRun: an answer is reused for the rules and the findings it was  *)
(* asked about, and for no others. *)
SameQuestion(k, in) ==
    /\ row[k].request.rules = in.rules
    /\ row[k].request.candidates = in.candidates

(* requestContextFingerprint. *)
SameContext(k, in) == SameQuestion(k, in) /\ Base(row[k].request) = Base(in)

(* What an existing row is worth to an audit that may not call: an answer, a  *)
(* refused one that still proves a conflict, or nothing. *)
RefusedWorth(k, in) ==
    IF row[k].status = "FAILED" /\ row[k].kept /\ SameQuestion(k, in) /\ row[k].answer.proves
    THEN Rejected(row[k].answer) ELSE Failed
Worth(k, in) ==
    IF row[k].status = "SUCCEEDED" /\ SameQuestion(k, in)
    THEN Answered(row[k].answer) ELSE RefusedWorth(k, in)

(* The note is loaded and the discovery made (a version that passes between   *)
(* the two is one that passes here).  The audit calls for a verification, or  *)
(* goes without one: not required, off, or a limited reading whose paid audit *)
(* was skipped or failed. *)
Begin(a) ==
    /\ audit[a].at \in Ended
    /\ \A other \in 1..(a - 1) : audit[other].at \notin Ended
    /\ begun < MaxAudits
    /\ begun' = begun + 1
    /\ \E in \in Starts :
         \/ /\ Required(in)
            /\ mode # "off"
            /\ \E recovers \in BOOLEAN :
                 /\ recovers => row["primary"].status # "NONE"
                 /\ audit' = [audit EXCEPT ![a] = [Blank EXCEPT !.at = "lookup", !.request = in,
                                                               !.current = TRUE, !.recovers = recovers]]
         \/ /\ ~Required(in) \/ mode = "off" \/ in.limited
            /\ Diagnose(a, in, TRUE, NotRun)
    /\ UNCHANGED <<mode, row, calls>>

(* findUnique of the primary key, and what it allows.  A recovery needs the   *)
(* failed row of the same context. *)
Lookup(a) ==
    LET in == audit[a].request
    IN  /\ audit[a].at = "lookup"
        /\ IF audit[a].recovers
           THEN IF row["primary"].status = "FAILED" /\ SameContext("primary", in)
                THEN Go(a, "lookup_recovery") ELSE Use(a, Failed)
           ELSE CASE row["primary"].status = "NONE" -> Go(a, "create")
                  [] row["primary"].status = "FAILED" -> Go(a, "lookup_recovery")
                  [] OTHER -> Use(a, Worth("primary", in))
        /\ UNCHANGED <<mode, row, calls, begun>>

(* The recovery row: read by every audit, created by a recovery only.  Where  *)
(* there is none the primary row counts as it was read: failed, whatever a    *)
(* late answer made of it since. *)
LookupRecovery(a) ==
    LET in == audit[a].request
    IN  /\ audit[a].at = "lookup_recovery"
        /\ CASE row["recovery"].status # "NONE" -> Use(a, Worth("recovery", in))
             [] row["recovery"].status = "NONE" /\ audit[a].recovers ->
                  audit' = [audit EXCEPT ![a].at = "create", ![a].key = "recovery"]
             [] OTHER -> Use(a, RefusedWorth("primary", in))
        /\ UNCHANGED <<mode, row, calls, begun>>

CreateAnyway(a) ==                             \* mutant: the key of the row is not unique
    /\ audit[a].at = "create"
    /\ row' = [row EXCEPT ![audit[a].key] =
                 [NoRow EXCEPT !.status = "RUNNING", !.request = audit[a].request]]
    /\ Go(a, "call")
    /\ UNCHANGED <<mode, calls, begun>>
(* The key is unique: of those who saw no row, one creates it. *)
Create(a) ==
    LET k == audit[a].key
    IN  /\ audit[a].at = "create"
        /\ IF row[k].status = "NONE"
           THEN /\ row' = [row EXCEPT ![k] = [NoRow EXCEPT !.status = "RUNNING",
                                                           !.request = audit[a].request]]
                /\ Go(a, "call")
           ELSE Go(a, "raced") /\ UNCHANGED row
        /\ UNCHANGED <<mode, calls, begun>>

(* P2002: the winner may have answered by now; a refused answer is not read. *)
Raced(a) ==
    LET k == audit[a].key
    IN  /\ audit[a].at = "raced"
        /\ Use(a, IF row[k].status = "SUCCEEDED" THEN Worth(k, audit[a].request) ELSE Failed)
        /\ UNCHANGED <<mode, row, calls, begun>>

(* The document is signed and sent, or could not be. *)
CallVerifier(a) ==
    /\ audit[a].at = "call"
    /\ \/ /\ calls' = [calls EXCEPT ![audit[a].key] = @ + 1]
          /\ Go(a, "answer")
       \/ /\ audit' = [audit EXCEPT ![a].at = "refuse", ![a].outcome = Failed]
          /\ UNCHANGED calls
    /\ UNCHANGED <<mode, row, begun>>

(* It fails, or answers; an answer that broke the contract is refused. *)
VerifierAnswers(a) ==
    /\ audit[a].at = "answer"
    /\ \/ audit' = [audit EXCEPT ![a].at = "refuse", ![a].outcome = Failed]
       \/ \E answer \in Answers :
            audit' = [audit EXCEPT ![a].at = IF answer.quality = "invalid" THEN "refuse" ELSE "store",
                        ![a].outcome = IF answer.quality = "invalid" THEN Rejected(answer)
                                       ELSE Answered(answer)]
    /\ UNCHANGED <<mode, row, calls, begun>>

(* The row is finished with its answer, found by its id: one the lease        *)
(* recovery had closed succeeds after all.  If that fails the catch refuses a *)
(* good answer and keeps it in quarantine. *)
RecordSuccess(a) ==
    LET k == audit[a].key
    IN  /\ audit[a].at = "store"
        /\ \/ /\ row' = [row EXCEPT ![k].status = "SUCCEEDED", ![k].kept = TRUE,
                                    ![k].answer = audit[a].outcome.answer]
              /\ Use(a, audit[a].outcome)
           \/ Go(a, "refuse") /\ UNCHANGED row
        /\ UNCHANGED <<mode, calls, begun>>

(* What the audit is left with: a refused answer may still prove a conflict;  *)
(* one that could not be stored is lost to it, and so is a failed call. *)
AfterRefusal(a) ==
    IF audit[a].outcome.status = "rejected" /\ audit[a].outcome.answer.proves
    THEN audit[a].outcome ELSE Failed
(* Only a row that still runs is closed: a refusal that comes after the lease *)
(* recovery is not kept, and used all the same. *)
RecordRefusal(a) ==
    LET k == audit[a].key
    IN  /\ audit[a].at = "refuse"
        /\ \/ /\ row' = IF row[k].status = "RUNNING"
                        THEN [row EXCEPT ![k].status = "FAILED",
                                         ![k].kept = (audit[a].outcome # Failed),
                                         ![k].answer = audit[a].outcome.answer]
                        ELSE row
              /\ Use(a, AfterRefusal(a))
           \/ Use(a, Failed) /\ UNCHANGED row
        /\ UNCHANGED <<mode, calls, begun>>

FinalizeAnyway(a) ==                           \* mutant: the version of the note is not checked
    /\ audit[a].at = "decided"
    /\ audit' = [Outdated EXCEPT ![a].at = "done", ![a].current = FALSE]
    /\ UNCHANGED <<mode, row, calls, begun>>
(* The diagnosis is stored if the note is the one that was loaded, and is     *)
(* discarded otherwise (AUDIT_CONFLICT). *)
FinalizeAudit(a) ==
    /\ audit[a].at = "decided"
    /\ audit' = IF audit[a].current
                THEN [Outdated EXCEPT ![a].at = "done", ![a].current = FALSE]
                ELSE [audit EXCEPT ![a] = [Blank EXCEPT !.at = "gone"]]
    /\ UNCHANGED <<mode, row, calls, begun>>

(* The process dies, or a write fails: the row stays as it is until the lease *)
(* of its job is recovered. *)
AuditDies(a) ==
    /\ audit[a].at \notin Ended
    /\ audit' = [audit EXCEPT ![a] = [Blank EXCEPT !.at = "gone"]]
    /\ UNCHANGED <<mode, row, calls, begun>>

(* recoverExpiredProcessingJobLeases: in one transaction the running rows of  *)
(* the job whose lease ran out are failed and the note gets another version,  *)
(* whether the audit that owned them died or is only slow.  A version that    *)
(* passes for another reason is the step that closes no row. *)
LeaseRecovered ==
    \E closed \in SUBSET {k \in Rows : row[k].status = "RUNNING"} :
        /\ row' = [k \in Rows |-> IF k \in closed
                                  THEN [row[k] EXCEPT !.status = "FAILED", !.expired = TRUE] ELSE row[k]]
        /\ audit' = Outdated
        /\ UNCHANGED <<mode, calls, begun>>

AuditStep(a) ==
    \/ Begin(a) \/ Lookup(a) \/ LookupRecovery(a) \/ Create(a) \/ Raced(a) \/ CallVerifier(a)
    \/ VerifierAnswers(a) \/ RecordSuccess(a) \/ RecordRefusal(a) \/ FinalizeAudit(a) \/ AuditDies(a)
VerificationNext == LeaseRecovered \/ \E a \in Audits : AuditStep(a)
VerificationSpec == VerificationInit /\ [][VerificationNext]_verificationVars

--------------------------------------------------------------------------------
(* Properties.                                                              *)

(* Where each call stands in the ledger. *)
RowEntry ==
    [k \in Rows |->
        CASE row[k].status = "NONE" -> "free"
          [] row[k].status = "RUNNING" -> IF calls[k] = 0 THEN "reserved" ELSE "bought"
          [] row[k].status = "SUCCEEDED" -> IF row[k].expired THEN "late" ELSE "answered"
          [] OTHER -> IF row[k].expired THEN "abandoned" ELSE "refused"]
VerificationLedger == INSTANCE PaidLedger WITH
    Keys <- Rows, After <- [k \in Rows |-> IF k = "recovery" THEN {"primary"} ELSE {}],
    entry <- RowEntry, purchases <- calls

(* However many audits overlap, crash, race or are restarted, with whatever   *)
(* rules and hypotheses, the provider is called at most once for the reading, *)
(* and once more only for a recovery of a call that failed or was given up    *)
(* with its lease; the one thing that happens to a row that was closed is     *)
(* that an answer still under way makes it succeed.                           *)
(* run-selective-verification.ts:84-86, 302-356; processing-worker.ts:216. *)
VerificationBuysOnce == VerificationLedger!Spec

(* An answer the database holds, to the question this audit asks. *)
Holds(k, in) ==
    /\ row[k].status \in {"SUCCEEDED", "FAILED"}
    /\ row[k].kept
    /\ row[k].request.rules = in.rules
    /\ row[k].request.candidates = in.candidates
Covers(k, in) ==
    Holds(k, in) /\ row[k].status = "SUCCEEDED" /\ row[k].answer.quality = "complete"

(* A stored diagnosis of suspicion rests on what can be shown for it: a rule  *)
(* on a reading without limitation, the bytes of the file, or an answer that  *)
(* is kept, was given to the same rules and hypotheses and locates the        *)
(* conflict.  A hypothesis alone, an answer to other hypotheses, or one that  *)
(* was lost, accuses nobody, and neither does a refused answer that came      *)
(* after the lease recovery and is in no row: the audit that uses it is of a  *)
(* version that passed.  decision-matrix.ts:50-81, verification.ts:406-432,   *)
(* run-selective-verification.ts:119-147, 284-293, 442-478,                   *)
(* process-note-audit.ts:745-757. *)
SuspicionIsBacked ==
    \A a \in Audits :
        LET in == audit[a].request
        IN  audit[a].at = "done" /\ audit[a].class = "SUSPICIOUS" =>
              \/ "duplicate" \in in.candidates
              \/ "rule" \in in.candidates /\ ~in.limited
              \/ \E k \in Rows : Holds(k, in) /\ row[k].answer.proves
              \/ \E k \in Rows : /\ Covers(k, in)
                                 /\ \/ mode = "enforce" /\ row[k].answer.adds
                                    \/ "rule" \in in.candidates

(* In enforce, neither an OK nor a high assurance is given to an attachment   *)
(* that called for a verification unless a stored answer to the same question *)
(* covers all of it: not while another audit is still calling, not after a    *)
(* crash, a recovered lease, a refusal or a write that failed.                *)
(* process-note-audit.ts:657-663, verification.ts:783-846. *)
VerifiedOrLimited ==
    \A a \in Audits :
        LET in == audit[a].request
        IN  /\ audit[a].at = "done"
            /\ mode = "enforce"
            /\ Required(in)
            /\ audit[a].class = "OK" \/ audit[a].band = "HIGH"
            => \E k \in Rows : Covers(k, in)
================================================================================
