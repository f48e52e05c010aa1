------------------------------- MODULE NoteAccess -------------------------------
(***************************************************************************)
(* Who may still see a note, and who has seen it: the public capability of  *)
(* the sender (src/src/server/notes/public-capability.ts, public-status.ts  *)
(* and the status route), and the read marks of the reviewers               *)
(* (record-note-read.ts, note-read-invalidation.ts).                        *)
(*                                                                          *)
(* The pipeline is reduced to the transactions that end, ask, fail and      *)
(* restart the analysis: each writes the row under its lock, with one more  *)
(* version.  Sender and reviewers act on what they read some time ago.      *)
(* A finished job never stays FAILED (WaitingJobsCanRun of NotePipeline),   *)
(* so the route's branch for exhausted jobs is left out.                    *)
(***************************************************************************)
EXTENDS Naturals

CONSTANTS
    Polls,         \* GETs of the status route, all with the cookie of the upload
    Reviewers,     \* internal users
    UploadTTL,     \* PUBLIC_CAPABILITY_TTL_SECONDS, in ticks
    ContextTTL,    \* PUBLIC_CONTEXT_CAPABILITY_TTL_SECONDS
    TerminalTTL,   \* PUBLIC_TERMINAL_CAPABILITY_TTL_SECONDS
    LastTick,      \* bound: ticks a behaviour lasts
    MaxVersion     \* bound: versions of the note

ASSUME AccessAssumption ==
    {UploadTTL, ContextTTL, TerminalTTL, LastTick, MaxVersion} \subseteq Nat \ {0}

VARIABLES
    now,           \* the time, from 1 on
    note,          \* the notes row, with its questions and its submission
    poll,          \* what each poll read of it
    reviewer,      \* what each reviewer saw, and whether the row is locked for them
    mark,          \* note_reads
    told           \* history: terminal answers given to the sender

accessVars == <<now, note, poll, reviewer, mark, told>>

Unset == 0                                     \* null, or no round
(* `asks` is NEEDS_CONTEXT, `unread` READ_FAILED, `ends` any other result.  *)
(* `issued`: the stored hash is still that of the sender's token.           *)
(* `outcome` counts the diagnoses and failures the note has shown.          *)
AccessRows ==
    [stage : {"working", "completed", "failed"}, result : {"none", "asks", "ends", "unread"},
     version : Nat, outcome : Nat, round : Nat, asked : Nat, askedAt : Nat,
     submission : {"none", "queued", "closed"}, submittedAt : Nat, issued : BOOLEAN, expiry : Nat]
Seen == [at : {"away", "shown", "locked"}, version : Nat, outcome : Nat, exact : BOOLEAN]
Marks == [is : BOOLEAN, outcome : Nat, saw : Nat, exact : BOOLEAN]
Snapshots == [public : {"idle", "asks", "ended"}, version : Nat, round : Nat, anchor : Nat]

AccessTypeOK ==
    /\ now \in 1..LastTick
    /\ note \in AccessRows
    /\ poll \in [Polls -> Snapshots]
    /\ reviewer \in [Reviewers -> Seen]
    /\ mark \in [Reviewers -> Marks]
    /\ told \in Nat

IdlePoll == [public |-> "idle", version |-> 1, round |-> Unset, anchor |-> Unset]
Away == [at |-> "away", version |-> 1, outcome |-> 0, exact |-> FALSE]
NoMark == [is |-> FALSE, outcome |-> 0, saw |-> 0, exact |-> FALSE]

AccessInit ==
    /\ now = 1
    /\ note = [stage |-> "working", result |-> "none", version |-> 1, outcome |-> 0, round |-> 0,
               asked |-> 0, askedAt |-> Unset, submission |-> "none", submittedAt |-> Unset,
               issued |-> TRUE, expiry |-> 1 + UploadTTL]
    /\ poll = [p \in Polls |-> IdlePoll]
    /\ reviewer = [r \in Reviewers |-> Away]
    /\ mark = [r \in Reviewers |-> NoMark]
    /\ told = 0

--------------------------------------------------------------------------------
(* revokedPublicCapabilityFields: a hash nobody has the token of. *)
Revoked == [issued |-> FALSE, expiry |-> 0]

Valid == note.issued /\ note.expiry > now

RowNeverLocked == TRUE                         \* mutant: no FOR UPDATE
(* The reviewers' SELECT ... FOR UPDATE holds the row. *)
RowIsFree == \A r \in Reviewers : reviewer[r].at # "locked"
(* An update of the row and what it does to the marks of the reviewers. *)
Write(row, forget) ==
    /\ RowIsFree
    /\ note.version < MaxVersion
    /\ note' = [row EXCEPT !.version = note.version + 1]
    /\ mark' = IF forget THEN [r \in Reviewers |-> NoMark] ELSE mark
    /\ UNCHANGED <<now, poll, reviewer>>

MarksForgotten == TRUE                         \* invalidateNoteReads
Outcome(n) == n.outcome + 1

(* processNoteAudit finishes with a question: new for this round, or that of *)
(* an earlier audit of it.  The answers of a submission are never asked for  *)
(* again by its own audit.                                                   *)
AuditAsks ==
    LET round == IF note.round = 0 THEN 1 ELSE note.round
        isNew == note.asked # round
    IN  /\ note.stage = "working"
        /\ note.submission # "queued"
        /\ Write([note EXCEPT !.stage = "completed", !.result = "asks", !.outcome = Outcome(note),
                    !.round = round, !.asked = round, !.askedAt = IF isNew THEN now ELSE @,
                    !.expiry = now + ContextTTL], MarksForgotten)
        /\ UNCHANGED told

Closed(submission) == IF submission = "queued" THEN "closed" ELSE submission

(* It finishes with a diagnosis, or READ_FAILED (finalizeReadFailure). *)
AuditEnds(result) ==
    /\ note.stage = "working"
    /\ Write([note EXCEPT !.stage = "completed", !.result = result, !.outcome = Outcome(note),
                !.submission = Closed(@), !.expiry = now + TerminalTTL], MarksForgotten)
    /\ UNCHANGED told

(* The last attempt fails, or the upload does. *)
AnalysisFails ==
    /\ note.stage = "working"
    /\ Write([note EXCEPT !.stage = "failed", !.outcome = Outcome(note), !.submission = Closed(@),
                !.expiry = now + TerminalTTL], FALSE)
    /\ UNCHANGED told

(* scheduleNoteAuditRecovery: the capability and the round stay. *)
RecoverAudit ==
    /\ note.stage = "failed" \/ (note.stage = "completed" /\ note.result = "unread")
    /\ Write([note EXCEPT !.stage = "working", !.result = "none"], FALSE)
    /\ UNCHANGED told

(* scheduleNoteReprocess: a new round, the capability revoked. *)
Reprocess ==
    /\ note.stage # "working"
    /\ Write([note EXCEPT !.stage = "working", !.result = "none", !.round = note.asked + 1,
                !.submission = "none", !.submittedAt = Unset,
                !.issued = Revoked.issued, !.expiry = Revoked.expiry], MarksForgotten)
    /\ UNCHANGED told

(* statusFor. *)
Public(n) ==
    CASE n.stage = "failed" \/ n.result \in {"unread", "ends"} -> "ended"
      [] n.stage # "failed" /\ n.result = "asks" ->
           IF n.submission = "none" /\ n.asked = n.round THEN "asks"
           ELSE IF n.submission = "queued" THEN "working" ELSE "ended"
      [] OTHER -> "working"

(* submitContextAnswers: what was read is compared again by the update. *)
SubmitAnswers ==
    /\ Valid
    /\ Public(note) = "asks"
    /\ Write([note EXCEPT !.stage = "working", !.submission = "queued", !.submittedAt = now,
                !.expiry = now + ContextTTL], FALSE)
    /\ UNCHANGED told

--------------------------------------------------------------------------------
(* The status route: it reads the note, then acts on what it read. *)

PollReads(p) ==
    /\ poll[p].public = "idle"
    /\ Valid
    /\ Public(note) # "working"
    /\ poll' = [poll EXCEPT ![p] =
                  IF Public(note) = "ended"
                  THEN [IdlePoll EXCEPT !.public = "ended", !.version = note.version]
                  ELSE [IdlePoll EXCEPT !.public = "asks", !.round = note.round,
                          !.anchor = note.askedAt + ContextTTL]]
    /\ UNCHANGED <<now, note, reviewer, mark, told>>

StillCurrentAnyway(p) == note.expiry > now     \* mutant: neither the hash nor the version compared
(* The compare-and-set of the one-shot terminal answer. *)
StillCurrent(p) == Valid /\ note.version = poll[p].version

PollTells(p) ==
    /\ poll[p].public = "ended"
    /\ RowIsFree
    /\ IF StillCurrent(p)
       THEN /\ note.version < MaxVersion
            /\ note' = [note EXCEPT !.issued = Revoked.issued, !.expiry = Revoked.expiry,
                                    !.version = @ + 1]
            /\ told' = told + 1
       ELSE UNCHANGED <<note, told>>
    /\ poll' = [poll EXCEPT ![p] = IdlePoll]
    /\ UNCHANGED <<now, reviewer, mark>>

AnchorAnyway(p) == note.issued /\ note.round = poll[p].round   \* mutant: also once answered
(* The window to answer counts from the question, which is stored some        *)
(* milliseconds after the expiry was computed: the two never are the same.    *)
MayAnchor(p) == note.issued /\ note.round = poll[p].round /\ note.submittedAt = Unset

PollAnchors(p) ==
    /\ poll[p].public = "asks"
    /\ RowIsFree
    /\ note' = IF MayAnchor(p) THEN [note EXCEPT !.expiry = poll[p].anchor] ELSE note
    /\ poll' = [poll EXCEPT ![p] = IdlePoll]
    /\ UNCHANGED <<now, reviewer, mark, told>>

--------------------------------------------------------------------------------
(* The reviewers. *)

OpenPage(r) ==
    /\ reviewer[r].at # "locked"
    /\ reviewer' = [reviewer EXCEPT ![r] = [at |-> "shown", version |-> note.version,
                                            outcome |-> note.outcome, exact |-> FALSE]]
    /\ UNCHANGED <<now, note, poll, mark, told>>

(* recordNoteRead: SELECT ... FOR UPDATE, the note, and what it refuses.  The *)
(* detail page sends its version, the list sends none. *)
CheckRead(r) ==
    /\ reviewer[r].at = "shown"
    /\ RowIsFree
    /\ note.stage # "working"
    /\ \E exact \in BOOLEAN :
         /\ exact => note.version = reviewer[r].version
         /\ reviewer' = [reviewer EXCEPT ![r].at = "locked", ![r].exact = exact]
    /\ UNCHANGED <<now, note, poll, mark, told>>

MarkRead(r) ==
    /\ reviewer[r].at = "locked"
    /\ mark' = [mark EXCEPT ![r] = [is |-> TRUE, outcome |-> note.outcome,
                                    saw |-> reviewer[r].outcome, exact |-> reviewer[r].exact]]
    /\ reviewer' = [reviewer EXCEPT ![r] = Away]
    /\ UNCHANGED <<now, note, poll, told>>

(* The transaction of the read is lost. *)
LoseRead(r) ==
    /\ reviewer[r].at = "locked"
    /\ reviewer' = [reviewer EXCEPT ![r] = Away]
    /\ UNCHANGED <<now, note, poll, mark, told>>

TimePasses ==
    /\ now < LastTick
    /\ now' = now + 1
    /\ UNCHANGED <<note, poll, reviewer, mark, told>>

PipelineStep ==
    \/ AuditAsks \/ \E result \in {"ends", "unread"} : AuditEnds(result)
    \/ AnalysisFails \/ RecoverAudit \/ Reprocess
ReviewerStep(r) == OpenPage(r) \/ CheckRead(r) \/ MarkRead(r) \/ LoseRead(r)
AccessNext ==
    \/ TimePasses \/ PipelineStep \/ SubmitAnswers
    \/ \E p \in Polls : PollReads(p) \/ PollTells(p) \/ PollAnchors(p)
    \/ \E r \in Reviewers : ReviewerStep(r)
AccessSpec == AccessInit /\ [][AccessNext]_accessVars

--------------------------------------------------------------------------------
(* Properties.                                                              *)

(* However many polls are under way, the sender is told the end once, and     *)
(* from then on the token opens nothing: no retry, reprocess, or later        *)
(* question brings it back.  public-capability.ts:33-37, status/route.ts:     *)
(* 196-213, docs/harness/README.md:78. *)
EndIsToldOnce == told <= 1 /\ (told = 1 => ~Valid)

(* Who answered may follow the re-analysis for the time promised: a poll that *)
(* read the question before the answer does not shorten it afterwards.        *)
(* context-questions.ts:313-330, status/route.ts:253-262. *)
AnswerIsFollowed ==
    note.submission = "queued" => note.issued /\ note.expiry = note.submittedAt + ContextTTL

(* A diagnosis on show is marked as read only by who marked this one, and,    *)
(* where the page sent its version, by who saw this one: not by a click on    *)
(* the page of the diagnosis before it.  record-note-read.ts:13-21,           *)
(* note-read-invalidation.ts:7-15. *)
ReadsAreOfThisDiagnosis ==
    \A r \in Reviewers :
        mark[r].is =>
            /\ note.stage = "completed" => mark[r].outcome = note.outcome
            /\ mark[r].exact => mark[r].saw = mark[r].outcome
================================================================================
