------------------------------- MODULE UploadPage -------------------------------
(***************************************************************************)
(* The public upload page of one browser tab,                               *)
(* src/src/features/public-upload/public-upload-flow.tsx: the views, the     *)
(* requests in flight behind them, and what the tab's storage remembers.     *)
(*                                                                          *)
(* Three kinds of request outlive the view that sent them: an upload, the    *)
(* answers to the questions, and the polling of the status, which alone is   *)
(* aborted when the view or the note changes.  An event handler, the commit  *)
(* of its state and the effects of that commit are one step.  What the       *)
(* server does is reduced to what the page can tell; its side is NoteAccess  *)
(* and UploadAdmission.                                                      *)
(***************************************************************************)
EXTENDS Naturals

CONSTANTS
    Submissions,         \* the notes that this tab's uploads become
    NoSubmission,
    Sendings       \* submissions of answers in flight at once

ASSUME PageAssumption == NoSubmission \notin Submissions

VARIABLES
    served,        \* the server: the stage of each note, and whether it still answers for it
    uploading,     \* the uploads: not made, in transfer, received, over
    sending,       \* the submissions of answers
    screen,        \* the state and the refs of the component
    polling,       \* the loop of waitForNoteResult, if it runs
    stored,        \* sessionStorage: the submission to resume
    history        \* sessionStorage: the submissions of this session

pageVars == <<served, uploading, sending, screen, polling, stored, history>>

MaybeSubmission == Submissions \cup {NoSubmission}
TerminalStages == {"completed", "unreadable", "failed"}
Stages == {"absent", "working", "asks"} \cup TerminalStages
WaitingViews == {"processing", "pending"}
Views == {"form", "sending", "context", "unavailable", "success", "error"} \cup WaitingViews
Replies == {"none", "refused"} \cup Stages
Listings == {"absent", "listed", "completed"}   \* the history: of the stages, only this one counts

NotSending == [note |-> NoSubmission, reply |-> "none"]
NotPolling == [note |-> NoSubmission, reply |-> "none", ignores |-> FALSE]
FreshScreen ==
    [view |-> "form", note |-> NoSubmission, file |-> FALSE, failure |-> "TECHNICAL",
     answering |-> FALSE, started |-> FALSE, recent |-> [n \in Submissions |-> "absent"]]

PageTypeOK ==
    /\ served \in [Submissions -> [stage : Stages, open : BOOLEAN]]
    /\ uploading \in [Submissions -> {"none", "transfer", "received", "over"}]
    /\ sending \in [Sendings -> [note : MaybeSubmission, reply : {"none", "accepted", "refused"}]]
    /\ screen \in [view : Views, note : MaybeSubmission, file : BOOLEAN, failure : {"TECHNICAL", "READ_FAILED"},
                   answering : BOOLEAN, started : BOOLEAN, recent : [Submissions -> Listings]]
    /\ polling \in [note : MaybeSubmission, reply : Replies, ignores : BOOLEAN]
    /\ stored \in MaybeSubmission
    /\ history \in [Submissions -> Listings]

PageInit ==
    /\ served = [n \in Submissions |-> [stage |-> "absent", open |-> TRUE]]
    /\ uploading = [n \in Submissions |-> "none"]
    /\ sending = [s \in Sendings |-> NotSending]
    /\ screen = FreshScreen
    /\ polling = NotPolling
    /\ stored = NoSubmission
    /\ history = [n \in Submissions |-> "absent"]

--------------------------------------------------------------------------------
FreshPoll(next) == [note |-> next.note, reply |-> "none", ignores |-> next.started]
PollGoesOn(next) == IF polling # NotPolling THEN polling ELSE FreshPoll(next)  \* mutant: nothing aborts it
(* The polling effect of [invoiceId, view]: the old loop is aborted and, on a *)
(* view that waits, one of the note on screen is started.                     *)
Poll(next) ==
    IF next.view \in WaitingViews /\ next.note # NoSubmission
    THEN FreshPoll(next)
    ELSE NotPolling

Show(next) ==
    /\ screen' = next
    /\ polling' = IF next.view = screen.view /\ next.note = screen.note THEN polling ELSE Poll(next)
View(view) == [screen EXCEPT !.view = view]

(* sessionStorage outlives the page; requests in flight lose their listener. *)
Reload ==
    /\ screen' = [FreshScreen EXCEPT !.recent = history, !.note = stored,
                               !.view = IF stored = NoSubmission THEN "form" ELSE "processing"]
    /\ polling' = Poll(screen')
    /\ uploading' = [n \in Submissions |-> IF uploading[n] = "none" THEN "none" ELSE "over"]
    /\ sending' = [s \in Sendings |-> NotSending]
    /\ UNCHANGED <<served, stored, history>>

--------------------------------------------------------------------------------
(* Uploads. *)

ChooseFile ==
    /\ screen.view = "form"
    /\ Show([screen EXCEPT !.file = ~@])
    /\ UNCHANGED <<served, uploading, sending, stored, history>>

(* submitSelectedFile, of the form or of a failed upload. *)
SubmitFile(n) ==
    /\ uploading[n] = "none"
    /\ screen.file
    /\ screen.view = "form" \/ (screen.view = "error" /\ screen.failure # "READ_FAILED")
    /\ uploading' = [uploading EXCEPT ![n] = "transfer"]
    /\ Show([screen EXCEPT !.view = "sending", !.note = NoSubmission])
    /\ stored' = NoSubmission
    /\ UNCHANGED <<served, sending, history>>

ServerReceives(n) ==
    /\ uploading[n] = "transfer"
    /\ uploading' = [uploading EXCEPT ![n] = "received"]
    /\ served' = [served EXCEPT ![n].stage = "working"]
    /\ UNCHANGED <<sending, screen, polling, stored, history>>

UploadReturns(n) ==
    /\ uploading[n] = "received"
    /\ uploading' = [uploading EXCEPT ![n] = "over"]
    /\ stored' = n
    /\ history' = [history EXCEPT ![n] = "listed"]
    /\ Show([screen EXCEPT !.view = "processing", !.note = n, !.started = FALSE])
    /\ UNCHANGED <<served, sending>>

(* Refused, or its answer is lost on the way back. *)
UploadErrs(n) ==
    /\ uploading[n] \in {"transfer", "received"}
    /\ uploading' = [uploading EXCEPT ![n] = "over"]
    /\ Show([screen EXCEPT !.view = "error", !.failure = "TECHNICAL"])
    /\ UNCHANGED <<served, sending, stored, history>>

--------------------------------------------------------------------------------
(* Polling. *)

(* The status route: an end is told once, and closes the capability. *)
ServerTells ==
    LET n == polling.note IN
    /\ polling # NotPolling /\ polling.reply = "none"
    /\ polling' = [polling EXCEPT !.reply = IF served[n].open THEN served[n].stage ELSE "refused"]
    /\ served' = [served EXCEPT ![n].open = @ /\ served[n].stage \notin TerminalStages]
    /\ UNCHANGED <<uploading, sending, screen, stored, history>>

ToOutcome(reply) ==
    CASE reply = "asks" -> View("context")
      [] reply = "completed" -> View("success")
      [] reply = "unreadable" -> [View("error") EXCEPT !.failure = "READ_FAILED"]
      [] reply = "failed" -> [View("error") EXCEPT !.failure = "TECHNICAL"]

PollReturns ==
    /\ polling.reply \notin {"none", "refused"}
    /\ history' = [history EXCEPT ![polling.note] = IF polling.reply = "completed" THEN "completed" ELSE "listed"]
    /\ IF polling.reply = "working" \/ (polling.ignores /\ polling.reply = "asks")
       THEN /\ polling' = [polling EXCEPT !.reply = "none"]
            /\ UNCHANGED <<screen, stored>>
       ELSE /\ Show(ToOutcome(polling.reply))
            /\ stored' = IF polling.reply \in TerminalStages THEN NoSubmission ELSE stored
    /\ UNCHANGED <<served, uploading, sending>>

(* 90 seconds of "processing". *)
PollTimesOut ==
    /\ polling # NotPolling /\ polling.reply = "none"
    /\ screen.view = "processing"
    /\ Show(View("pending"))
    /\ UNCHANGED <<served, uploading, sending, stored, history>>

(* The route refused, or there was no answer of it. *)
PollFails ==
    /\ polling # NotPolling
    /\ Show(View("unavailable"))
    /\ UNCHANGED <<served, uploading, sending, stored, history>>

--------------------------------------------------------------------------------
(* The answers to the questions: handleContextSubmit. *)

SendAnswers(s) ==
    /\ sending[s] = NotSending
    /\ screen.view = "context" /\ screen.note # NoSubmission
    /\ ~screen.answering /\ ~screen.started
    /\ sending' = [sending EXCEPT ![s].note = screen.note]
    /\ Show([screen EXCEPT !.answering = TRUE, !.started = TRUE])
    /\ UNCHANGED <<served, uploading, stored, history>>

ServerHears(s) ==
    LET n == sending[s].note
        accepted == n # NoSubmission /\ served[n].stage = "asks" /\ served[n].open
    IN
    /\ n # NoSubmission /\ sending[s].reply = "none"
    /\ sending' = [sending EXCEPT ![s].reply = IF accepted THEN "accepted" ELSE "refused"]
    /\ served' = [served EXCEPT ![n].stage = IF accepted THEN "working" ELSE @]
    /\ UNCHANGED <<uploading, screen, polling, stored, history>>

(* The continuation takes the page to "processing", whatever it shows by now. *)
AnswersReturn(s) ==
    /\ sending[s].reply = "accepted"
    /\ sending' = [sending EXCEPT ![s] = NotSending]
    /\ Show([View("processing") EXCEPT !.answering = FALSE])
    /\ UNCHANGED <<served, uploading, stored, history>>

(* Refused, or the answer is lost. *)
AnswersFail(s) ==
    /\ sending[s] # NotSending
    /\ sending' = [sending EXCEPT ![s] = NotSending]
    /\ Show([screen EXCEPT !.answering = FALSE, !.started = FALSE])
    /\ UNCHANGED <<served, uploading, stored, history>>

--------------------------------------------------------------------------------
(* Buttons. *)

SendAnotherNote ==
    /\ screen.view \in WaitingViews \cup {"unavailable", "success", "error"}
    /\ Show([FreshScreen EXCEPT !.recent = history])
    /\ stored' = NoSubmission
    /\ UNCHANGED <<served, uploading, sending, history>>

(* followSubmission, of the list on the empty form: a completion is shown     *)
(* from the list, for its status will not be told again. *)
FollowSubmission(n) ==
    LET completed == screen.recent[n] = "completed" IN
    /\ screen.view = "form" /\ ~screen.file
    /\ screen.recent[n] # "absent"
    /\ Show([screen EXCEPT !.view = IF completed THEN "success" ELSE "pending",
                           !.note = n, !.started = FALSE])
    /\ stored' = IF completed THEN NoSubmission ELSE n
    /\ UNCHANGED <<served, uploading, sending, history>>

(* "Acompanhar esta nota"; retryProcessing; "Voltar para a nota fiscal", while *)
(* the answers may be in flight; "Revisar dados do envio". *)
ChangeView ==
    /\ \/ screen.view = "processing" /\ Show(View("pending"))
       \/ screen.view \in {"pending", "unavailable"} /\ screen.note # NoSubmission /\ Show(View("processing"))
       \/ screen.view = "context" /\ Show(View("form"))
       \/ screen.view = "error" /\ screen.note = NoSubmission /\ screen.file /\ Show(View("form"))
    /\ UNCHANGED <<served, uploading, sending, stored, history>>

(* The pipeline, and the expiry of the capability. *)
ServerMoves(n) ==
    /\ \E next \in Stages :
         /\ \/ served[n].stage = "working" /\ next \in {"asks"} \cup TerminalStages
            \/ served[n].stage = "asks" /\ next = "working"
         /\ served' = [served EXCEPT ![n].stage = next]
    /\ UNCHANGED <<uploading, sending, screen, polling, stored, history>>
CapabilityExpires(n) ==
    /\ served[n].stage # "absent" /\ served[n].open
    /\ served' = [served EXCEPT ![n].open = FALSE]
    /\ UNCHANGED <<uploading, sending, screen, polling, stored, history>>

NoteStep(n) ==
    \/ SubmitFile(n) \/ ServerReceives(n) \/ UploadReturns(n) \/ UploadErrs(n)
    \/ FollowSubmission(n) \/ ServerMoves(n) \/ CapabilityExpires(n)
SendingStep(s) == SendAnswers(s) \/ ServerHears(s) \/ AnswersReturn(s) \/ AnswersFail(s)
PageNext ==
    \/ ChooseFile \/ SendAnotherNote \/ ChangeView \/ Reload
    \/ ServerTells \/ PollReturns \/ PollTimesOut \/ PollFails
    \/ \E n \in Submissions : NoteStep(n)
    \/ \E s \in Sendings : SendingStep(s)
PageSpec == PageInit /\ [][PageNext]_pageVars

--------------------------------------------------------------------------------
(* Properties.                                                              *)

(* The summary of an analysis and the failure of a reading are those of the   *)
(* note whose protocol is on screen, and questions are asked for a note that  *)
(* was received, whatever the sender did while a status was on its way        *)
(* (public-upload-flow.tsx:713-783). *)
EndIsOfNoteOnScreen ==
    /\ screen.view = "success" => screen.note \in Submissions /\ served[screen.note].stage = "completed"
    /\ screen.view = "error" /\ screen.failure = "READ_FAILED"
         => screen.note \in Submissions /\ served[screen.note].stage = "unreadable"
    /\ screen.view = "context" => screen.note \in Submissions /\ served[screen.note].stage # "absent"

(* "Nota recebida", "Seu documento foi salvo": "Only shown after the server    *)
(* confirms receipt, never during file transfer"                              *)
(* (public-upload-status.ts:9). *)
ReceiptIsConfirmed ==
    screen.view \in WaitingViews => screen.note \in Submissions /\ served[screen.note].stage # "absent"
================================================================================
