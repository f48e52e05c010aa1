---------------------------- MODULE UploadAdmission ----------------------------
(***************************************************************************)
(* How public uploads are counted: src/src/server/notes/                    *)
(* public-upload-rate-limit.ts, called twice by createNoteUpload, first     *)
(* before the attachment is read and again in the transaction that creates  *)
(* the note.  Any number of requests run at once, over any number of        *)
(* instances; an advisory lock orders their transactions.                   *)
(*                                                                          *)
(* Time is one clock, read by the application for the cutoff and for the    *)
(* note (createdAt is set by the client at the create).                     *)
(***************************************************************************)
EXTENDS Naturals, FiniteSets

CONSTANTS
    Uploads,       \* requests of createNoteUpload
    Works,         \* active works
    GlobalLimit,   \* notes of all the works in a window
    PerWorkLimit,  \* notes of one work in a window
    Window,        \* windowSeconds, in ticks
    MaxClock,      \* ticks a behaviour lasts
    Nobody         \* holds the advisory lock when no transaction does

ASSUME AdmissionAssumption ==
    /\ {GlobalLimit, PerWorkLimit, Window, MaxClock} \subseteq Nat \ {0}
    /\ Nobody \notin Uploads

VARIABLES
    clock,         \* the time, from Window on
    lock,          \* the transaction that holds the advisory lock
    upload,        \* where each request is
    created        \* the notes: of which work, when, and whether committed

admissionVars == <<clock, lock, upload, created>>

UploadSteps == {"idle", "wait", "body", "wait_again", "counted", "created", "admitted", "refused"}
AwaitingLock == {"wait", "wait_again"}
Clock == Window..(Window + MaxClock)
AdmissionTypeOK ==
    /\ clock \in Clock
    /\ lock \in Uploads \cup {Nobody}
    /\ upload \in [Uploads -> [at : UploadSteps, work : Works, now : {0} \cup Clock]]
    /\ created \in [Uploads -> {0} \cup Clock]

(* A note is named by its request; 0: not created. *)
Notes == {u \in Uploads : created[u] # 0}
WorkOf(u) == upload[u].work

AdmissionInit ==
    /\ clock = Window
    /\ lock = Nobody
    /\ upload \in [Uploads -> [at : {"idle"}, work : Works, now : {0}]]
    /\ created = [u \in Uploads |-> 0]

UploadGoes(u, at) ==
    upload' = [upload EXCEPT ![u].at = at, ![u].now = IF at \in AwaitingLock THEN clock ELSE 0]

--------------------------------------------------------------------------------
(* The work is found and the cutoff taken, before the lock is asked for. *)
AskLock(u) ==
    /\ \/ upload[u].at = "idle" /\ UploadGoes(u, "wait")
       \/ upload[u].at = "body" /\ UploadGoes(u, "wait_again")
    /\ UNCHANGED <<clock, lock, created>>

LockIsFree(u) == lock = Nobody

(* Committed notes since the cutoff. *)
Counted(u) == {n \in Notes : created[n] >= upload[u].now - Window /\ upload[n].at = "admitted"}

(* Of all the works and of this one. *)
BelowLimits(u) ==
    /\ Cardinality(Counted(u)) < GlobalLimit
    /\ Cardinality({n \in Counted(u) : WorkOf(n) = WorkOf(u)}) < PerWorkLimit

(* The first transaction: it counts under the lock, and ends. *)
CountFirst(u) ==
    /\ upload[u].at = "wait"
    /\ LockIsFree(u)
    /\ UploadGoes(u, IF BelowLimits(u) THEN "body" ELSE "refused")
    /\ UNCHANGED <<clock, lock, created>>

CountForgotten(u) ==                           \* mutant: the first count is trusted
    /\ upload[u].at = "wait_again"
    /\ LockIsFree(u)
    /\ UploadGoes(u, "counted")
    /\ lock' = u
    /\ UNCHANGED <<clock, created>>
(* The second one counts again, and creates the note under the same lock. *)
CountAgain(u) ==
    /\ upload[u].at = "wait_again"
    /\ LockIsFree(u)
    /\ IF BelowLimits(u) THEN UploadGoes(u, "counted") /\ lock' = u
                         ELSE UploadGoes(u, "refused") /\ UNCHANGED lock
    /\ UNCHANGED <<clock, created>>

CreateNote(u) ==
    /\ upload[u].at = "counted"
    /\ created' = [created EXCEPT ![u] = clock]
    /\ UploadGoes(u, "created")
    /\ UNCHANGED <<clock, lock>>

Released(u) == IF lock = u THEN Nobody ELSE lock
CommitNote(u) ==
    /\ upload[u].at = "created"
    /\ UploadGoes(u, "admitted")
    /\ lock' = Released(u)
    /\ UNCHANGED <<clock, created>>

(* The body is refused, the transaction times out, the connection or the      *)
(* process is lost: what was not committed is rolled back, the lock with it.  *)
UploadFails(u) ==
    /\ upload[u].at \notin {"idle", "admitted", "refused"}
    /\ UploadGoes(u, "refused")
    /\ created' = [created EXCEPT ![u] = 0]
    /\ lock' = Released(u)
    /\ UNCHANGED clock

Tick ==
    /\ clock < Window + MaxClock
    /\ clock' = clock + 1
    /\ UNCHANGED <<lock, upload, created>>

UploadStep(u) ==
    \/ AskLock(u) \/ CountFirst(u) \/ CountAgain(u) \/ CreateNote(u) \/ CommitNote(u)
    \/ UploadFails(u)
AdmissionNext == Tick \/ \E u \in Uploads : UploadStep(u)
AdmissionSpec == AdmissionInit /\ [][AdmissionNext]_admissionVars

--------------------------------------------------------------------------------
(* Properties.                                                              *)

(* No window of time, wherever it starts and both its ends included, holds    *)
(* more notes than the caps allow, of all the works or of one: not when       *)
(* requests are counted together, nor when one waits for the lock while time  *)
(* goes by and counts from an old cutoff.  "concurrent uploads cannot overrun *)
(* a cap" (public-upload-rate-limit.ts:104-107). *)
NoWindowOverrun ==
    \A last \in Notes :
        LET within == {n \in Notes : created[n] <= created[last] /\ created[n] + Window >= created[last]}
        IN  /\ Cardinality(within) <= GlobalLimit
            /\ \A w \in Works : Cardinality({n \in within : WorkOf(n) = w}) <= PerWorkLimit
================================================================================
