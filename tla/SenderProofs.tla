------------------------------ MODULE SenderProofs ------------------------------
(***************************************************************************)
(* Proofs about what the sender of a note uses, for any number of tabs,      *)
(* submissions, uploads and releases and any limit: the update of the pages  *)
(* (PwaUpdate), the upload page (UploadPage) and the admission of uploads    *)
(* (UploadAdmission).  The three models have no common variable, so each has *)
(* an inductive invariant of its own.                                        *)
(*                                                                          *)
(* PwaUpdate: the workers of a registration are in the order of their        *)
(* releases, and a page that hears of a change was loaded under an older     *)
(* worker (WorkersInv, UnderInv).                                            *)
(*                                                                          *)
(* UploadPage: whatever names a note on the page or in its storage was       *)
(* received by the server (KnownInv), an end that the page remembers or has  *)
(* on its way is the end of that note (EndsInv), and the polling that runs   *)
(* is of the note on screen (FollowsInv).                                    *)
(*                                                                          *)
(* UploadAdmission: what a transaction counted under the lock still holds    *)
(* when it creates its note, for the window that ends now (CountInv).        *)
(***************************************************************************)
EXTENDS PwaUpdate, UploadPage, UploadAdmission, FiniteSetTheorems, TLAPS

--------------------------------------------------------------------------------
(* The update of the pages. *)

WorkersInv ==
    /\ \A w \in {registration.installing, registration.waiting, registration.active} : w <= released
    /\ registration.waiting # NoWorker =>
         registration.active # NoWorker /\ registration.waiting > registration.active
    /\ registration.installing # NoWorker =>
         registration.installing > registration.active /\ registration.installing > registration.waiting
UnderInv ==
    \A t \in Tabs :
      /\ reloads[t] <= tab[t].under /\ tab[t].under <= registration.active
      /\ tab[t].changed => tab[t].under < registration.active
PwaInv == PwaTypeOK /\ WorkersInv /\ UnderInv

LEMMA PwaInitInv == PwaInit => PwaInv
<1> SUFFICES ASSUME PwaInit PROVE PwaInv
  OBVIOUS
<1>1. MaxRelease \in Nat /\ MaxRelease >= 1
  BY PwaAssumption
<1>2. /\ registration.installing = 0 /\ registration.waiting = 0
      /\ registration.active \in {0, 1}
      /\ registration = [installing |-> 0, waiting |-> 0, active |-> registration.active]
  BY DEF PwaInit, NoWorker
<1>3. Fresh(registration.active) \in Pages
  BY <1>1, <1>2 DEF Fresh, Pages, WorkerOrNone, Releases, NoWorker
<1>4. PwaTypeOK
  BY <1>1, <1>2, <1>3 DEF PwaInit, PwaTypeOK, WorkerOrNone, Releases, NoWorker
<1>5. WorkersInv
  BY <1>2 DEF PwaInit, WorkersInv, NoWorker
<1>6. UnderInv
  <2> SUFFICES ASSUME NEW t \in Tabs
               PROVE  /\ reloads[t] <= tab[t].under /\ tab[t].under <= registration.active
                      /\ ~tab[t].changed
    BY DEF UnderInv
  <2>1. tab[t].under = registration.active /\ ~tab[t].changed /\ reloads[t] = 0
    BY DEF PwaInit, Fresh
  <2> QED BY <1>2, <2>1
<1> QED BY <1>4, <1>5, <1>6 DEF PwaInv

(* A worker takes control of pages that were all loaded under older ones. *)
LEMMA ControlPassesKeeps ==
    ASSUME PwaInv, ControlPasses, UNCHANGED <<released, reloads, online>>,
           skip' \subseteq Releases,
           NEW worker \in Releases, worker > registration.active, worker <= released,
           NEW installing \in WorkerOrNone,
           installing # NoWorker => installing > worker /\ installing <= released,
           registration' = [installing |-> installing, waiting |-> NoWorker, active |-> worker]
    PROVE  PwaInv'
<1>1. /\ registration \in [installing : WorkerOrNone, waiting : WorkerOrNone, active : WorkerOrNone]
      /\ tab \in [Tabs -> Pages] /\ reloads \in [Tabs -> 0..MaxRelease]
      /\ MaxRelease \in Nat /\ released \in 1..MaxRelease
  BY PwaAssumption DEF PwaInv, PwaTypeOK, Releases
<1>2. PwaTypeOK'
  BY <1>1 DEF PwaInv, PwaTypeOK, ControlPasses, Pages, WorkerOrNone, NoWorker
<1>3. WorkersInv'
  BY <1>1 DEF WorkersInv, NoWorker, Releases, WorkerOrNone
<1>4. UnderInv'
  <2> SUFFICES ASSUME NEW t \in Tabs
               PROVE  /\ reloads'[t] <= tab'[t].under
                      /\ tab'[t].under <= registration'.active /\ tab'[t].under < registration'.active
    BY DEF UnderInv
  <2>1. tab[t] \in Pages /\ tab'[t].under = tab[t].under
    BY <1>1 DEF ControlPasses, Pages
  <2>2. reloads[t] <= tab[t].under /\ tab[t].under <= registration.active
    BY DEF PwaInv, UnderInv
  <2> QED BY <1>1, <2>1, <2>2 DEF Pages, WorkerOrNone, Releases, NoWorker
<1> QED BY <1>2, <1>3, <1>4 DEF PwaInv

LEMMA BrowserKeeps ==
    ASSUME PwaInv, Release \/ FindUpdate \/ EndInstall \/ Connect
                     \/ \E worker \in Releases : SkipWaiting(worker)
    PROVE  PwaInv'
<1>1. /\ registration \in [installing : WorkerOrNone, waiting : WorkerOrNone, active : WorkerOrNone]
      /\ MaxRelease \in Nat /\ released \in 1..MaxRelease
      /\ registration.installing \in 0..MaxRelease /\ registration.waiting \in 0..MaxRelease
      /\ registration.active \in 0..MaxRelease
      /\ skip \subseteq Releases
  BY PwaAssumption DEF PwaInv, PwaTypeOK, Releases, WorkerOrNone, NoWorker
<1>2. CASE Release
  <2>1. released' = released + 1 /\ released' \in 1..MaxRelease
    BY <1>1, <1>2 DEF Release
  <2> QED BY <1>1, <1>2, <2>1
      DEF PwaInv, PwaTypeOK, WorkersInv, UnderInv, Release, Releases, WorkerOrNone, NoWorker
<1>3. CASE FindUpdate
  <2>1. registration' = [installing |-> released, waiting |-> registration.waiting,
                         active |-> registration.active]
    BY <1>1, <1>3 DEF FindUpdate
  <2>2. PwaTypeOK'
    BY <1>1, <1>3, <2>1 DEF PwaInv, PwaTypeOK, FindUpdate, WorkerOrNone, Releases
  <2>3. WorkersInv'
    BY <1>1, <1>3, <2>1 DEF PwaInv, WorkersInv, FindUpdate
  <2> QED BY <1>3, <2>1, <2>2, <2>3 DEF PwaInv, UnderInv, FindUpdate
<1>4. CASE EndInstall
  <2>1. registration.installing # NoWorker /\ UNCHANGED <<released, skip, online, reloads>>
    BY <1>4 DEF EndInstall
  <2>2. ASSUME registration.active = NoWorker,
               registration' = [registration EXCEPT !.installing = NoWorker,
                                                    !.active = registration.installing],
               ControlPasses
        PROVE  PwaInv'
    <3>1. registration.waiting = NoWorker
      BY <2>2 DEF PwaInv, WorkersInv
    <3>2. registration' = [installing |-> NoWorker, waiting |-> NoWorker,
                           active |-> registration.installing]
      BY <1>1, <2>2, <3>1
    <3>3. /\ registration.installing > registration.active /\ registration.installing <= released
          /\ registration.installing \in Releases /\ NoWorker \in WorkerOrNone
      BY <1>1, <2>1 DEF PwaInv, WorkersInv, Releases, NoWorker, WorkerOrNone
    <3> QED BY <1>1, <2>1, <2>2, <3>2, <3>3, ControlPassesKeeps
  <2>3. ASSUME UNCHANGED tab,
               \/ /\ registration.active # NoWorker
                  /\ registration' = [registration EXCEPT !.installing = NoWorker,
                                                          !.waiting = registration.installing]
               \/ registration' = [registration EXCEPT !.installing = NoWorker]
        PROVE  PwaInv'
    <3>1. PICK waiting \in WorkerOrNone :
            /\ registration' = [installing |-> NoWorker, waiting |-> waiting,
                                active |-> registration.active]
            /\ \/ waiting = registration.waiting
               \/ waiting = registration.installing /\ registration.active # NoWorker
      BY <1>1, <2>3
    <3>2. PwaTypeOK'
      BY <1>1, <2>1, <2>3, <3>1 DEF PwaInv, PwaTypeOK, WorkerOrNone
    <3>3. WorkersInv'
      <4>1. /\ waiting <= released /\ registration.active <= released
            /\ waiting # NoWorker => registration.active # NoWorker /\ waiting > registration.active
        BY <2>1, <3>1 DEF PwaInv, WorkersInv
      <4> QED BY <1>1, <2>1, <3>1, <4>1 DEF WorkersInv, NoWorker
    <3> QED BY <2>1, <2>3, <3>1, <3>2, <3>3 DEF PwaInv, UnderInv
  <2> QED BY <1>4, <2>2, <2>3 DEF EndInstall
<1>5. CASE Connect
  BY <1>5 DEF Connect, PwaInv, PwaTypeOK, WorkersInv, UnderInv
<1>6. ASSUME NEW worker \in Releases, SkipWaiting(worker) PROVE PwaInv'
  <2>1. /\ skip' \subseteq Releases /\ UNCHANGED <<released, online, reloads>>
    BY <1>1, <1>6 DEF SkipWaiting
  <2>2. CASE worker = registration.waiting
    <3>1. /\ ControlPasses
          /\ registration' = [installing |-> registration.installing, waiting |-> NoWorker,
                              active |-> worker]
      BY <1>1, <1>6, <2>2 DEF SkipWaiting
    <3>2. /\ worker > registration.active /\ worker <= released
          /\ registration.installing # NoWorker =>
               registration.installing > worker /\ registration.installing <= released
          /\ registration.installing \in WorkerOrNone
      BY <1>1, <2>2 DEF PwaInv, WorkersInv, Releases, NoWorker
    <3> QED BY <2>1, <3>1, <3>2, ControlPassesKeeps
  <2>3. CASE worker # registration.waiting
    <3>1. UNCHANGED <<registration, tab>>
      BY <1>6, <2>3 DEF SkipWaiting
    <3> QED BY <2>1, <3>1 DEF PwaInv, PwaTypeOK, WorkersInv, UnderInv
  <2> QED BY <2>2, <2>3
<1> QED BY <1>2, <1>3, <1>4, <1>5, <1>6

(* What a step of one page may do, whatever the step. *)
LEMMA TabKeeps ==
    ASSUME PwaInv, NEW t \in Tabs, TabStep(t)
    PROVE  PwaInv' /\ (reloads'[t] # reloads[t] => registration.active > tab[t].under)
                   /\ \A other \in Tabs \ {t} : reloads'[other] = reloads[other]
<1>1. /\ registration \in [installing : WorkerOrNone, waiting : WorkerOrNone, active : WorkerOrNone]
      /\ MaxRelease \in Nat /\ registration.active \in 0..MaxRelease
      /\ tab \in [Tabs -> Pages] /\ reloads \in [Tabs -> 0..MaxRelease] /\ tab[t] \in Pages
      /\ reloads[t] \in 0..MaxRelease /\ tab[t].under \in 0..MaxRelease
      /\ released \in Releases /\ registration.waiting \in WorkerOrNone
  BY PwaAssumption DEF PwaInv, PwaTypeOK, Pages, Releases, WorkerOrNone, NoWorker
<1>2. UNCHANGED <<released, registration, online>>
  BY DEF TabStep, SeeWaiting, ApplyUpdate, ControllerChanges, UserActs
<1>3. Fresh(registration.active) \in Pages
  BY <1>1 DEF Fresh, Pages, WorkerOrNone, Releases, NoWorker
<1>4. /\ reloads[t] <= tab[t].under /\ tab[t].under <= registration.active
      /\ tab[t].changed => tab[t].under < registration.active
  BY DEF PwaInv, UnderInv
<1>5. /\ tab'[t] \in Pages /\ tab' = [tab EXCEPT ![t] = tab'[t]]
      /\ skip' \subseteq Releases
  <2>1. CASE SeeWaiting(t)
    BY <1>1, <2>1 DEF SeeWaiting, Pages, PwaInv, PwaTypeOK
  <2>2. CASE ApplyUpdate(t)
    BY <1>1, <2>2 DEF ApplyUpdate, MayApply, UpdateOf, Pages, PwaInv, PwaTypeOK, WorkerOrNone
  <2>3. CASE ControllerChanges(t) \/ UserActs(t)
    <3>1. PICK page \in {Fresh(registration.active), [tab[t] EXCEPT !.changed = FALSE],
                         [tab[t] EXCEPT !.busy = ~@]} :
            tab' = [tab EXCEPT ![t] = page]
      BY <1>1, <2>3 DEF ControllerChanges, UserActs
    <3>2. page \in Pages
      BY <1>1, <1>3 DEF Pages
    <3>3. skip' = skip
      BY <2>3 DEF ControllerChanges, UserActs
    <3> QED BY <1>1, <3>1, <3>2, <3>3 DEF PwaInv, PwaTypeOK
  <2> QED BY <2>1, <2>2, <2>3 DEF TabStep
<1>6. \/ /\ reloads' = reloads
         /\ \/ tab'[t].under = tab[t].under /\ (tab'[t].changed => tab[t].changed)
            \/ tab'[t].under = registration.active /\ ~tab'[t].changed
      \/ /\ reloads' = [reloads EXCEPT ![t] = @ + 1] /\ tab[t].changed
         /\ tab'[t].under = registration.active /\ ~tab'[t].changed
  <2>1. CASE SeeWaiting(t) \/ ApplyUpdate(t)
    BY <1>1, <2>1 DEF SeeWaiting, ApplyUpdate, Pages
  <2>2. CASE ControllerChanges(t)
    BY <1>1, <2>2 DEF ControllerChanges, Pages, Fresh
  <2>3. CASE UserActs(t)
    BY <1>1, <2>3 DEF UserActs, Pages, Fresh
  <2> QED BY <2>1, <2>2, <2>3 DEF TabStep
<1>7. PwaTypeOK' /\ UnderInv'
  <2>1. reloads'[t] \in 0..MaxRelease /\ reloads' = [reloads EXCEPT ![t] = reloads'[t]]
    BY <1>1, <1>4, <1>6
  <2>2. PwaTypeOK'
    BY <1>1, <1>2, <1>5, <2>1 DEF PwaInv, PwaTypeOK
  <2>3. /\ reloads'[t] <= tab'[t].under /\ tab'[t].under <= registration.active
        /\ tab'[t].changed => tab'[t].under < registration.active
    BY <1>1, <1>4, <1>6
  <2>4. \A other \in Tabs \ {t} : tab'[other] = tab[other] /\ reloads'[other] = reloads[other]
    BY <1>1, <1>5, <2>1
  <2> QED BY <1>2, <2>2, <2>3, <2>4 DEF PwaInv, UnderInv
<1>8. WorkersInv'
  BY <1>2 DEF PwaInv, WorkersInv
<1> QED BY <1>1, <1>4, <1>6, <1>7, <1>8 DEF PwaInv

LEMMA PwaStepInv ==
    PwaInv /\ [PwaNext]_pwaVars =>
      PwaInv' /\ \A t \in Tabs : reloads'[t] # reloads[t] => registration.active > tab[t].under
<1> SUFFICES ASSUME PwaInv, [PwaNext]_pwaVars
             PROVE  PwaInv' /\ \A t \in Tabs : reloads'[t] # reloads[t] => registration.active > tab[t].under
  OBVIOUS
<1>1. ASSUME NEW t \in Tabs, TabStep(t)
      PROVE  PwaInv' /\ \A u \in Tabs : reloads'[u] # reloads[u] => registration.active > tab[u].under
  BY <1>1, TabKeeps
<1>2. CASE Release \/ FindUpdate \/ EndInstall \/ Connect
             \/ \E worker \in Releases : SkipWaiting(worker)
  <2>1. UNCHANGED reloads
    BY <1>2 DEF Release, FindUpdate, EndInstall, Connect, SkipWaiting
  <2> QED BY <1>2, <2>1, BrowserKeeps
<1>3. CASE UNCHANGED pwaVars
  BY <1>3 DEF pwaVars, PwaInv, PwaTypeOK, WorkersInv, UnderInv
<1> QED BY <1>1, <1>2, <1>3 DEF PwaNext

(* The state of the registration and of the pages is always of its type; no   *)
(* page is reloaded more often than there are releases.  pwa-lifecycle.tsx. *)
THEOREM PwaTyped == PwaSpec => []PwaTypeOK
<1>1. PwaInv => PwaTypeOK
  BY DEF PwaInv
<1> QED BY PwaInitInv, PwaStepInv, <1>1, PTL DEF PwaSpec

(* For any number of tabs and releases, a page is reloaded only for a worker  *)
(* newer than the one it was loaded under.  pwa-lifecycle.tsx,                *)
(* onControllerChange. *)
THEOREM ReloadsAreUpdates == PwaSpec => EachReloadIsAnUpdate
<1>1. PwaInv /\ [PwaNext]_pwaVars =>
        [\A t \in Tabs : reloads'[t] # reloads[t] => registration.active > tab[t].under]_pwaVars
  BY PwaStepInv
<1> QED BY PwaInitInv, PwaStepInv, <1>1, PTL DEF PwaSpec, EachReloadIsAnUpdate

--------------------------------------------------------------------------------
(* The upload page. *)

Received(n) == served[n].stage # "absent"
Remembers(n) ==
    \/ n \in {screen.note, stored, polling.note}
    \/ history[n] # "absent" \/ screen.recent[n] # "absent"

(* What the page knows by name was received; of an upload in transfer, nothing. *)
KnownInv ==
    \A n \in Submissions :
      /\ Remembers(n) \/ uploading[n] = "received" => Received(n)
      /\ uploading[n] \in {"none", "transfer"} => ~Received(n)

(* An end that is remembered, or that a status on its way tells. *)
EndsInv ==
    /\ \A n \in Submissions :
         "completed" \in {history[n], screen.recent[n]} => served[n].stage = "completed"
    /\ polling.reply \in {"completed", "unreadable"} => served[polling.note].stage = polling.reply

(* The loop that runs is of the note on a screen that waits for it. *)
FollowsInv ==
    /\ polling # NotPolling =>
         polling.note \in Submissions /\ polling.note = screen.note /\ screen.view \in WaitingViews
    /\ polling.reply # "absent"
    /\ polling.note = NoSubmission => polling.reply = "none"
PageInv == PageTypeOK /\ KnownInv /\ EndsInv /\ FollowsInv /\ EndIsOfNoteOnScreen


Screens ==
    [view : Views, note : MaybeSubmission, file : BOOLEAN, failure : {"TECHNICAL", "READ_FAILED"},
     answering : BOOLEAN, started : BOOLEAN, recent : [Submissions -> Listings]]

(* An event of the page: it shows another screen, and the server is as it was. *)
Shows ==
    /\ screen' \in Screens /\ UNCHANGED served
    /\ \/ polling' = Poll(screen')
       \/ /\ \/ polling' = polling
             \/ polling.reply # "none" /\ polling' = [polling EXCEPT !.reply = "none"]
          /\ screen'.view = screen.view /\ screen'.note = screen.note

(* What the event leaves is typed, and says of notes what the server does. *)
Backed ==
    /\ uploading' \in [Submissions -> {"none", "transfer", "received", "over"}]
    /\ sending' \in [Sendings -> [note : MaybeSubmission, reply : {"none", "accepted", "refused"}]]
    /\ stored' \in MaybeSubmission /\ history' \in [Submissions -> Listings]
    /\ \A n \in Submissions :
         /\ n = screen'.note \/ n = stored' => Received(n)
         /\ history'[n] # "absent" \/ screen'.recent[n] # "absent" => Received(n)
         /\ uploading'[n] = "received" => Received(n)
         /\ uploading'[n] \in {"none", "transfer"} => ~Received(n)
         /\ "completed" \in {history'[n], screen'.recent[n]} => served[n].stage = "completed"
    /\ screen'.view = "success" => screen'.note \in Submissions /\ served[screen'.note].stage = "completed"
    /\ screen'.view = "error" /\ screen'.failure = "READ_FAILED"
         => screen'.note \in Submissions /\ served[screen'.note].stage = "unreadable"
    /\ screen'.view = "context" => screen'.note \in Submissions /\ Received(screen'.note)

LEMMA ShowsKeeps == PageInv /\ Shows /\ Backed => PageInv'
<1> SUFFICES ASSUME PageInv, Shows, Backed PROVE PageInv'
  OBVIOUS
<1>1. /\ screen'.note \in MaybeSubmission /\ screen'.started \in BOOLEAN
      /\ NoSubmission \notin Submissions
      /\ polling \in [note : MaybeSubmission, reply : Replies, ignores : BOOLEAN]
  BY PageAssumption DEF Shows, Screens, PageInv, PageTypeOK
<1>2. /\ polling' \in [note : MaybeSubmission, reply : Replies, ignores : BOOLEAN]
      /\ polling' # polling => polling'.reply = "none" /\ polling'.note \in {NoSubmission, screen'.note}
      /\ polling' # NotPolling =>
           /\ polling'.note \in Submissions /\ polling'.note = screen'.note
           /\ screen'.view \in WaitingViews
      /\ polling'.reply # "absent"
      /\ polling'.note = NoSubmission => polling'.reply = "none"
  <2>1. CASE polling' = Poll(screen')
    BY <1>1, <2>1 DEF Poll, FreshPoll, NotPolling, Replies, MaybeSubmission
  <2>2. CASE /\ \/ polling' = polling
                \/ polling.reply # "none" /\ polling' = [polling EXCEPT !.reply = "none"]
             /\ screen'.view = screen.view /\ screen'.note = screen.note
    <3>1. /\ polling # NotPolling =>
               /\ polling.note \in Submissions /\ polling.note = screen'.note
               /\ screen'.view \in WaitingViews
          /\ polling.reply # "absent" /\ (polling.note = NoSubmission => polling.reply = "none")
      BY <2>2 DEF PageInv, FollowsInv
    <3>2. polling.reply # "none" => polling # NotPolling
      BY DEF NotPolling
    <3>3. CASE polling' = polling
      BY <1>1, <3>1, <3>3
    <3>4. CASE polling.reply # "none" /\ polling' = [polling EXCEPT !.reply = "none"]
      <4>1. /\ polling'.note = polling.note /\ polling'.reply = "none"
            /\ polling' \in [note : MaybeSubmission, reply : Replies, ignores : BOOLEAN]
        BY <1>1, <3>4 DEF Replies
      <4> QED BY <2>2, <3>1, <3>2, <3>4, <4>1
    <3> QED BY <2>2, <3>3, <3>4
  <2> QED BY <2>1, <2>2 DEF Shows
<1>3. PageTypeOK'
  BY <1>2 DEF PageInv, PageTypeOK, Shows, Backed, Screens
<1>4. KnownInv'
  <2> SUFFICES ASSUME NEW n \in Submissions
               PROVE  /\ Remembers(n)' \/ uploading'[n] = "received" => Received(n)
                      /\ uploading'[n] \in {"none", "transfer"} => ~Received(n)
    BY DEF KnownInv, Received, Shows
  <2>1. n = polling'.note => Received(n)
    <3>1. n = polling.note => Received(n)
      BY DEF PageInv, KnownInv, Remembers
    <3>2. n = screen'.note => Received(n)
      BY DEF Backed
    <3> QED BY <1>1, <1>2, <3>1, <3>2
  <2> QED BY <2>1 DEF Backed, Remembers
<1>5. EndsInv'
  BY <1>2 DEF PageInv, EndsInv, Shows, Backed
<1>6. FollowsInv' /\ EndIsOfNoteOnScreen'
  BY <1>2 DEF FollowsInv, EndIsOfNoteOnScreen, Shows, Backed, Received, NotPolling
<1> QED BY <1>3, <1>4, <1>5, <1>6 DEF PageInv

(* What the server does to the notes: it only adds to what the page knows. *)
ServerKeeps ==
    /\ served' \in [Submissions -> [stage : Stages, open : BOOLEAN]]
    /\ \A n \in Submissions :
         /\ Received(n) => served'[n].stage # "absent"
         /\ served[n].stage \in TerminalStages => served'[n].stage = served[n].stage
    /\ UNCHANGED <<screen, stored, history>>

LEMMA ServerKeepsEnds ==
    PageInv /\ ServerKeeps => EndIsOfNoteOnScreen' /\ (polling' = polling => EndsInv' /\ FollowsInv')
<1> SUFFICES ASSUME PageInv, ServerKeeps
             PROVE  EndIsOfNoteOnScreen' /\ (polling' = polling => EndsInv' /\ FollowsInv')
  OBVIOUS
<1>1. EndIsOfNoteOnScreen'
  BY DEF PageInv, EndIsOfNoteOnScreen, ServerKeeps, Received, TerminalStages
<1>2. ASSUME polling' = polling PROVE EndsInv' /\ FollowsInv'
  <2>1. polling.reply \in {"completed", "unreadable"} => polling.note \in Submissions
    BY DEF PageInv, FollowsInv, PageTypeOK, MaybeSubmission
  <2> QED BY <1>2, <2>1 DEF PageInv, EndsInv, FollowsInv, ServerKeeps, TerminalStages, NotPolling
<1> QED BY <1>1, <1>2

(* What the page knows, in the form the steps use it. *)
LEMMA PageKnows ==
    PageInv =>
      /\ screen \in Screens /\ screen.note \in MaybeSubmission /\ NoSubmission \notin Submissions
      /\ served \in [Submissions -> [stage : Stages, open : BOOLEAN]]
      /\ uploading \in [Submissions -> {"none", "transfer", "received", "over"}]
      /\ sending \in [Sendings -> [note : MaybeSubmission, reply : {"none", "accepted", "refused"}]]
      /\ polling \in [note : MaybeSubmission, reply : Replies, ignores : BOOLEAN]
      /\ stored \in MaybeSubmission /\ history \in [Submissions -> Listings]
      /\ \A n \in Submissions :
           /\ n = screen.note \/ n = stored \/ n = polling.note => Received(n)
           /\ history[n] # "absent" \/ screen.recent[n] # "absent" => Received(n)
           /\ uploading[n] = "received" => Received(n)
           /\ uploading[n] \in {"none", "transfer"} => ~Received(n)
           /\ "completed" \in {history[n], screen.recent[n]} => served[n].stage = "completed"
  BY PageAssumption DEF PageInv, PageTypeOK, Screens, KnownInv, Remembers, EndsInv

(* Events that change the view or flags of the screen and leave its note, its *)
(* list and the storage alone, and show no end and no question. *)
LEMMA PlainEventKeeps ==
    ASSUME PageInv, UNCHANGED <<served, stored, history>>,
           screen' \in Screens, screen'.recent = screen.recent,
           screen'.note \in {screen.note, NoSubmission},
           screen'.view \notin {"success", "context"},
           screen'.view = "error" => screen'.failure = "TECHNICAL",
           polling' = IF screen'.view = screen.view /\ screen'.note = screen.note
                      THEN polling ELSE Poll(screen'),
           uploading' \in [Submissions -> {"none", "transfer", "received", "over"}],
           \A n \in Submissions :
             /\ uploading'[n] = "received" => Received(n)
             /\ uploading'[n] \in {"none", "transfer"} => ~Received(n),
           sending' \in [Sendings -> [note : MaybeSubmission, reply : {"none", "accepted", "refused"}]]
    PROVE  PageInv'
<1>1. Shows
  BY DEF Shows
<1>2. Backed
  BY PageKnows DEF Backed
<1> QED BY <1>1, <1>2, ShowsKeeps

LEMMA UploadEventKeeps ==
    ASSUME PageInv, NEW n \in Submissions, SubmitFile(n) \/ UploadReturns(n) \/ UploadErrs(n)
    PROVE  PageInv'
<1>1. CASE SubmitFile(n)
  <2>1. screen' = [screen EXCEPT !.view = "sending", !.note = NoSubmission]
    BY <1>1 DEF SubmitFile, Show
  <2>2. Shows
    BY <1>1, <2>1, PageKnows DEF SubmitFile, Show, Shows, Screens, Views, MaybeSubmission
  <2>3. uploading' = [uploading EXCEPT ![n] = "transfer"] /\ uploading[n] = "none"
    BY <1>1 DEF SubmitFile
  <2>4. Backed
    BY <1>1, <2>1, <2>3, PageKnows DEF SubmitFile, Backed, Screens, MaybeSubmission
  <2> QED BY <2>2, <2>4, ShowsKeeps
<1>2. CASE UploadReturns(n)
  <2>1. screen' = [screen EXCEPT !.view = "processing", !.note = n, !.started = FALSE]
    BY <1>2 DEF UploadReturns, Show
  <2>2. Shows
    BY ZenonT(30), <1>2, <2>1, PageKnows DEF UploadReturns, Show, Shows, Screens, Views, WaitingViews,
                                             MaybeSubmission
  <2>3. /\ uploading' = [uploading EXCEPT ![n] = "over"] /\ uploading[n] = "received"
        /\ history' = [history EXCEPT ![n] = "listed"] /\ stored' = n /\ Received(n)
    BY <1>2, PageKnows DEF UploadReturns
  <2>4. Backed
    BY <1>2, <2>1, <2>3, PageKnows DEF UploadReturns, Backed, Screens, MaybeSubmission, Listings
  <2> QED BY <2>2, <2>4, ShowsKeeps
<1>3. CASE UploadErrs(n)
  <2>1. screen' = [screen EXCEPT !.view = "error", !.failure = "TECHNICAL"]
    BY <1>3 DEF UploadErrs, Show, View
  <2>2. Shows
    BY <1>3, <2>1, PageKnows DEF UploadErrs, Show, Shows, Screens, Views
  <2>3. uploading' = [uploading EXCEPT ![n] = "over"]
    BY <1>3 DEF UploadErrs
  <2>4. Backed
    BY <1>3, <2>1, <2>3, PageKnows DEF UploadErrs, Backed, Screens
  <2> QED BY <2>2, <2>4, ShowsKeeps
<1> QED BY <1>1, <1>2, <1>3

LEMMA FollowKeeps ==
    ASSUME PageInv, NEW n \in Submissions, FollowSubmission(n)
    PROVE  PageInv'
<1>1. /\ screen' = [screen EXCEPT !.view = IF screen.recent[n] = "completed" THEN "success" ELSE "pending",
                                  !.note = n, !.started = FALSE]
      /\ screen.recent[n] # "absent"
      /\ stored' = IF screen.recent[n] = "completed" THEN NoSubmission ELSE n
      /\ UNCHANGED <<served, uploading, sending, history>>
  BY DEF FollowSubmission, Show
<1>2. Shows
  BY ZenonT(30), <1>1, PageKnows DEF FollowSubmission, Show, Shows, Screens, Views, WaitingViews,
                                     MaybeSubmission
<1>3. /\ Received(n) /\ (screen.recent[n] = "completed" => served[n].stage = "completed")
  BY <1>1, PageKnows
<1>4. Backed
  BY <1>1, <1>3, PageKnows DEF Backed, Screens, MaybeSubmission
<1> QED BY <1>2, <1>4, ShowsKeeps

LEMMA AnswersEventKeeps ==
    ASSUME PageInv, NEW s \in Sendings, SendAnswers(s) \/ AnswersReturn(s) \/ AnswersFail(s)
    PROVE  PageInv'
<1>1. /\ sending' \in [Sendings -> [note : MaybeSubmission, reply : {"none", "accepted", "refused"}]]
      /\ UNCHANGED <<served, uploading, stored, history>>
  <2>1. NotSending \in [note : MaybeSubmission, reply : {"none", "accepted", "refused"}]
    BY DEF NotSending, MaybeSubmission
  <2>2. UNCHANGED <<served, uploading, stored, history>>
    BY DEF SendAnswers, AnswersReturn, AnswersFail
  <2>3. CASE SendAnswers(s)
    BY <2>3, PageKnows DEF SendAnswers
  <2>4. CASE AnswersReturn(s) \/ AnswersFail(s)
    BY <2>1, <2>4, PageKnows DEF AnswersReturn, AnswersFail
  <2> QED BY <2>2, <2>3, <2>4
<1>2. PICK next \in {[screen EXCEPT !.answering = TRUE, !.started = TRUE],
                    [screen EXCEPT !.answering = FALSE, !.started = FALSE],
                    [screen EXCEPT !.view = "processing", !.answering = FALSE]} :
        screen' = next /\ polling' = IF next.view = screen.view /\ next.note = screen.note
                                     THEN polling ELSE Poll(next)
  BY DEF SendAnswers, AnswersReturn, AnswersFail, Show, View
<1>3. /\ screen' \in Screens /\ screen'.note = screen.note /\ screen'.recent = screen.recent
      /\ screen'.failure = screen.failure /\ screen'.view \in {screen.view, "processing"}
  BY <1>2, PageKnows DEF Screens, Views, WaitingViews
<1>4. Shows
  BY <1>1, <1>2, <1>3 DEF Shows
<1>5. Backed
  BY <1>1, <1>3, PageKnows DEF Backed, PageInv, EndIsOfNoteOnScreen, Received
<1> QED BY <1>4, <1>5, ShowsKeeps

(* Buttons, and what needs no answer of the server. *)
LEMMA ButtonKeeps ==
    ASSUME PageInv, ChooseFile \/ ChangeView \/ PollTimesOut \/ PollFails
    PROVE  PageInv'
<1>1. UNCHANGED <<served, uploading, sending, stored, history>>
  BY DEF ChooseFile, ChangeView, PollTimesOut, PollFails
<1>2. /\ screen' \in Screens /\ screen'.note = screen.note /\ screen'.recent = screen.recent
      /\ screen'.view \in {"pending", "processing", "unavailable", "form"}
      /\ polling' = IF screen'.view = screen.view /\ screen'.note = screen.note
                    THEN polling ELSE Poll(screen')
  <2>1. CASE ChooseFile
    BY <2>1, PageKnows DEF ChooseFile, Show, Screens
  <2>2. ASSUME NEW v \in {"pending", "processing", "unavailable", "form"}, Show(View(v))
        PROVE  /\ screen' \in Screens /\ screen'.note = screen.note
               /\ screen'.recent = screen.recent /\ screen'.view = v
    BY <2>2, PageKnows DEF Show, View, Screens, Views, WaitingViews
  <2> QED BY <2>1, <2>2 DEF ChangeView, PollTimesOut, PollFails, Show
<1> QED BY <1>1, <1>2, PageKnows, PlainEventKeeps

LEMMA LeaveKeeps ==
    ASSUME PageInv, SendAnotherNote \/ Reload
    PROVE  PageInv'
<1>1. FreshScreen \in Screens
  BY DEF FreshScreen, Screens, Views, MaybeSubmission, Listings
<1>2. CASE SendAnotherNote
  <2>1. screen' = [FreshScreen EXCEPT !.recent = history] /\ stored' = NoSubmission
    BY <1>2 DEF SendAnotherNote, Show
  <2>2. /\ screen' \in Screens /\ screen'.recent = history /\ screen'.note = NoSubmission
        /\ screen'.view = "form"
    BY <1>1, <2>1, PageKnows DEF Screens, FreshScreen
  <2>3. Shows
    BY <1>2, <2>2 DEF SendAnotherNote, Show, Shows
  <2>4. Backed
    BY <1>2, <2>1, <2>2, PageKnows DEF SendAnotherNote, Backed, MaybeSubmission
  <2> QED BY <2>3, <2>4, ShowsKeeps
<1>3. CASE Reload
  <2>1. screen' = [FreshScreen EXCEPT !.recent = history, !.note = stored,
                        !.view = IF stored = NoSubmission THEN "form" ELSE "processing"]
    BY <1>3 DEF Reload
  <2>2. /\ screen' \in Screens /\ screen'.recent = history /\ screen'.note = stored
        /\ screen'.view \in {"form", "processing"}
    BY <1>1, <2>1, PageKnows DEF Screens, FreshScreen, Views, WaitingViews
  <2>3. Shows
    BY <1>3, <2>2 DEF Reload, Shows
  <2>4. /\ uploading' \in [Submissions -> {"none", "transfer", "received", "over"}]
        /\ \A n \in Submissions : uploading'[n] # "received" /\ (uploading'[n] \in {"none", "transfer"} => ~Received(n))
    BY <1>3, PageKnows DEF Reload
  <2>5. sending' \in [Sendings -> [note : MaybeSubmission, reply : {"none", "accepted", "refused"}]]
    BY <1>3 DEF Reload, NotSending, MaybeSubmission
  <2>6. Backed
    BY <1>3, <2>2, <2>4, <2>5, PageKnows DEF Reload, Backed
  <2> QED BY <2>3, <2>6, ShowsKeeps
<1> QED BY <1>2, <1>3

(* A status is shown: of the note on screen, and as the server told it. *)
LEMMA PollReturnsKeeps ==
    ASSUME PageInv, PollReturns
    PROVE  PageInv'
<1>1. /\ polling.reply \in {"working", "asks", "completed", "unreadable", "failed"}
      /\ polling.note \in Submissions /\ polling.note = screen.note /\ Received(polling.note)
      /\ polling.reply \in {"completed", "unreadable"} => served[polling.note].stage = polling.reply
  BY PageKnows DEF PollReturns, PageInv, FollowsInv, EndsInv, Replies, Stages, TerminalStages,
                   MaybeSubmission, NotPolling
<1>2. /\ history' = [history EXCEPT ![polling.note] = IF polling.reply = "completed" THEN "completed" ELSE "listed"]
      /\ UNCHANGED <<served, uploading, sending>>
  BY DEF PollReturns
<1>3. /\ history' \in [Submissions -> Listings]
      /\ \A n \in Submissions :
           /\ history'[n] # "absent" => Received(n)
           /\ history'[n] = "completed" => served[n].stage = "completed"
  <2> SUFFICES ASSUME NEW n \in Submissions
               PROVE  /\ history'[n] \in Listings
                      /\ history'[n] # "absent" => Received(n)
                      /\ history'[n] = "completed" => served[n].stage = "completed"
    BY <1>2, PageKnows
  <2>1. CASE n = polling.note
    BY <1>1, <1>2, <2>1, PageKnows DEF Listings
  <2>2. CASE n # polling.note
    BY <1>2, <2>2, PageKnows
  <2> QED BY <2>1, <2>2
<1>4. CASE /\ polling' = [polling EXCEPT !.reply = "none"]
           /\ UNCHANGED <<screen, stored>>
  <2>1. Shows
    BY <1>2, <1>4, PageKnows DEF Shows
  <2>2. Backed
    BY <1>2, <1>3, <1>4, PageKnows DEF Backed, PageInv, EndIsOfNoteOnScreen, Received
  <2> QED BY <2>1, <2>2, ShowsKeeps
<1>5. CASE /\ polling.reply # "working" /\ Show(ToOutcome(polling.reply))
           /\ stored' = IF polling.reply \in TerminalStages THEN NoSubmission ELSE stored
  <2>1. /\ screen' \in Screens /\ screen'.note = polling.note /\ screen'.recent = screen.recent
        /\ \/ screen'.view = "context"
           \/ screen'.view = "success" /\ polling.reply = "completed"
           \/ screen'.view = "error" /\ screen'.failure = "READ_FAILED" /\ polling.reply = "unreadable"
           \/ screen'.view = "error" /\ screen'.failure = "TECHNICAL"
    <3>1. CASE polling.reply = "asks"
      BY <1>1, <1>5, <3>1, PageKnows DEF ToOutcome, Show, View, Screens, Views
    <3>2. CASE polling.reply = "completed"
      BY <1>1, <1>5, <3>2, PageKnows DEF ToOutcome, Show, View, Screens, Views
    <3>3. CASE polling.reply = "unreadable"
      BY <1>1, <1>5, <3>3, PageKnows DEF ToOutcome, Show, View, Screens, Views
    <3>4. CASE polling.reply = "failed"
      BY <1>1, <1>5, <3>4, PageKnows DEF ToOutcome, Show, View, Screens, Views
    <3> QED BY <1>1, <1>5, <3>1, <3>2, <3>3, <3>4
  <2>2. Shows
    BY <1>2, <1>5, <2>1 DEF Shows, Show
  <2>3. Backed
    BY <1>1, <1>2, <1>3, <1>5, <2>1, PageKnows DEF Backed, MaybeSubmission
  <2> QED BY <2>2, <2>3, ShowsKeeps
<1> QED BY <1>4, <1>5 DEF PollReturns

(* The steps of the server: one field of one note at a time. *)
LEMMA StageSet ==
    ASSUME served \in [Submissions -> [stage : Stages, open : BOOLEAN]],
           NEW n \in Submissions, NEW stage \in Stages, served' = [served EXCEPT ![n].stage = stage]
    PROVE  /\ served' \in [Submissions -> [stage : Stages, open : BOOLEAN]]
           /\ \A m \in Submissions \ {n} : served'[m] = served[m]
           /\ served'[n].stage = stage
<1>1. [served[n] EXCEPT !.stage = stage] \in [stage : Stages, open : BOOLEAN]
  OBVIOUS
<1>2. served' = [served EXCEPT ![n] = [served[n] EXCEPT !.stage = stage]]
  OBVIOUS
<1> QED BY <1>1, <1>2

LEMMA OpenSet ==
    ASSUME served \in [Submissions -> [stage : Stages, open : BOOLEAN]],
           NEW n \in Submissions, NEW open \in BOOLEAN, served' = [served EXCEPT ![n].open = open]
    PROVE  /\ served' \in [Submissions -> [stage : Stages, open : BOOLEAN]]
           /\ \A m \in Submissions \ {n} : served'[m] = served[m]
           /\ served'[n].stage = served[n].stage
<1>1. [served[n] EXCEPT !.open = open] \in [stage : Stages, open : BOOLEAN]
  OBVIOUS
<1>2. served' = [served EXCEPT ![n] = [served[n] EXCEPT !.open = open]]
  OBVIOUS
<1> QED BY <1>1, <1>2

LEMMA ServerTellsKeeps ==
    ASSUME PageInv, ServerTells
    PROVE  PageInv'
<1> DEFINE n == polling.note
<1>1. /\ UNCHANGED <<uploading, sending, screen, stored, history>>
      /\ polling' = [polling EXCEPT !.reply = IF served[n].open THEN served[n].stage ELSE "refused"]
      /\ served' = [served EXCEPT ![n].open = @ /\ served[n].stage \notin TerminalStages]
      /\ n \in Submissions /\ Received(n) /\ n = screen.note /\ screen.view \in WaitingViews
  BY PageKnows DEF ServerTells, PageInv, FollowsInv
<1>2. /\ served' \in [Submissions -> [stage : Stages, open : BOOLEAN]]
      /\ \A m \in Submissions : served'[m].stage = served[m].stage
  <2> DEFINE open == served[n].open /\ served[n].stage \notin TerminalStages
  <2>1. open \in BOOLEAN /\ served' = [served EXCEPT ![n].open = open]
    BY <1>1, PageKnows
  <2> HIDE DEF open
  <2> QED BY <1>1, <2>1, PageKnows, OpenSet
<1>3. ServerKeeps
  BY <1>1, <1>2 DEF ServerKeeps, Received
<1>4. /\ polling' \in [note : MaybeSubmission, reply : Replies, ignores : BOOLEAN]
      /\ polling'.note = n /\ polling'.reply \in {served[n].stage, "refused"}
  BY <1>1, PageKnows DEF Replies
<1>5. PageTypeOK'
  BY <1>1, <1>2, <1>4 DEF PageInv, PageTypeOK
<1>6. KnownInv'
  BY <1>1, <1>2, <1>4 DEF PageInv, KnownInv, Remembers, Received
<1>7. EndsInv' /\ FollowsInv'
  BY <1>1, <1>2, <1>4, PageKnows DEF PageInv, EndsInv, FollowsInv, Received
<1> QED BY <1>3, <1>5, <1>6, <1>7, ServerKeepsEnds DEF PageInv

LEMMA ServerMovesKeeps ==
    ASSUME PageInv, NEW n \in Submissions,
           ServerReceives(n) \/ ServerMoves(n) \/ CapabilityExpires(n)
    PROVE  PageInv'
<1>1. UNCHANGED <<sending, screen, polling, stored, history>>
  BY DEF ServerReceives, ServerMoves, CapabilityExpires
<1>2. /\ served' \in [Submissions -> [stage : Stages, open : BOOLEAN]]
      /\ \A m \in Submissions \ {n} : served'[m] = served[m]
      /\ served'[n].stage # "absent"
      /\ served[n].stage \in TerminalStages => served'[n].stage = served[n].stage
  <2>1. CASE ServerReceives(n)
    <3>1. served[n].stage = "absent" /\ served' = [served EXCEPT ![n].stage = "working"]
      BY <2>1, PageKnows DEF ServerReceives, Received
    <3> QED BY <3>1, PageKnows, StageSet DEF Stages, TerminalStages
  <2>2. CASE ServerMoves(n)
    <3>1. PICK next \in Stages :
            /\ served' = [served EXCEPT ![n].stage = next]
            /\ next # "absent" /\ served[n].stage \notin TerminalStages
      BY <2>2 DEF ServerMoves, TerminalStages
    <3> QED BY <3>1, PageKnows, StageSet
  <2>3. CASE CapabilityExpires(n)
    <3>1. served' = [served EXCEPT ![n].open = FALSE] /\ served[n].stage # "absent"
      BY <2>3 DEF CapabilityExpires
    <3> QED BY <3>1, PageKnows, OpenSet
  <2> QED BY <2>1, <2>2, <2>3
<1>3. /\ uploading' \in [Submissions -> {"none", "transfer", "received", "over"}]
      /\ \A m \in Submissions :
           /\ m # n => uploading'[m] = uploading[m]
           /\ uploading'[n] \notin {"none", "transfer"}
  <2>1. ServerMoves(n) \/ CapabilityExpires(n) => served[n].stage # "absent" /\ uploading' = uploading
    BY DEF ServerMoves, CapabilityExpires
  <2>2. ServerReceives(n) => uploading' = [uploading EXCEPT ![n] = "received"]
    BY DEF ServerReceives
  <2> QED BY <2>1, <2>2, PageKnows DEF Received
<1>4. ServerKeeps
  BY <1>1, <1>2 DEF ServerKeeps, Received
<1>5. PageTypeOK'
  BY <1>1, <1>3, <1>4 DEF PageInv, PageTypeOK, ServerKeeps
<1>6. KnownInv'
  BY <1>1, <1>2, <1>3, PageKnows DEF PageInv, KnownInv, Remembers, Received
<1> QED BY <1>1, <1>4, <1>5, <1>6, ServerKeepsEnds DEF PageInv

LEMMA ServerHearsKeeps ==
    ASSUME PageInv, NEW s \in Sendings, ServerHears(s)
    PROVE  PageInv'
<1> DEFINE n == sending[s].note
<1>1. /\ n \in Submissions /\ n # NoSubmission /\ UNCHANGED <<uploading, screen, polling, stored, history>>
      /\ \E reply \in {"accepted", "refused"} : sending' = [sending EXCEPT ![s].reply = reply]
  BY PageKnows DEF ServerHears, MaybeSubmission
<1>2. /\ served' \in [Submissions -> [stage : Stages, open : BOOLEAN]]
      /\ \A m \in Submissions :
           \/ served'[m].stage = served[m].stage
           \/ served[m].stage = "asks" /\ served'[m].stage = "working"
  <2>1. served[n].stage \in Stages /\ "working" \in Stages
    BY <1>1, PageKnows DEF Stages
  <2>2. CASE served[n].stage = "asks" /\ served[n].open
    <3>1. served' = [served EXCEPT ![n].stage = "working"]
      BY <1>1, <2>2 DEF ServerHears
    <3>2. /\ served' \in [Submissions -> [stage : Stages, open : BOOLEAN]]
          /\ \A m \in Submissions \ {n} : served'[m] = served[m]
          /\ served'[n].stage = "working"
      BY <1>1, <2>1, <3>1, PageKnows, StageSet
    <3> QED BY <2>2, <3>2
  <2>3. CASE ~(served[n].stage = "asks" /\ served[n].open)
    <3>1. served' = [served EXCEPT ![n].stage = served[n].stage]
      BY <1>1, <2>3 DEF ServerHears
    <3>2. /\ served' \in [Submissions -> [stage : Stages, open : BOOLEAN]]
          /\ \A m \in Submissions \ {n} : served'[m] = served[m]
          /\ served'[n].stage = served[n].stage
      BY <1>1, <2>1, <3>1, PageKnows, StageSet
    <3> QED BY <3>2
  <2> QED BY <2>2, <2>3
<1>3. ServerKeeps
  BY <1>1, <1>2, PageKnows DEF ServerKeeps, Received, TerminalStages
<1>4. PageTypeOK'
  BY <1>1, <1>2, PageKnows DEF PageInv, PageTypeOK
<1>5. KnownInv'
  BY <1>1, <1>2 DEF PageInv, KnownInv, Remembers, Received
<1> QED BY <1>1, <1>3, <1>4, <1>5, ServerKeepsEnds DEF PageInv

LEMMA PageInitInv == PageInit => PageInv
<1> SUFFICES ASSUME PageInit PROVE PageInv
  OBVIOUS
<1>1. PageTypeOK
  BY DEF PageInit, PageTypeOK, FreshScreen, NotPolling, NotSending, Stages, Views, Replies,
         Listings, MaybeSubmission
<1>2. KnownInv /\ EndsInv /\ FollowsInv /\ EndIsOfNoteOnScreen
  BY PageAssumption
     DEF PageInit, KnownInv, EndsInv, FollowsInv, EndIsOfNoteOnScreen, Received, Remembers,
         FreshScreen, NotPolling
<1> QED BY <1>1, <1>2 DEF PageInv

LEMMA PageStepInv == PageInv /\ [PageNext]_pageVars => PageInv'
<1> SUFFICES ASSUME PageInv, [PageNext]_pageVars PROVE PageInv'
  OBVIOUS
<1>1. CASE ChooseFile \/ ChangeView \/ PollTimesOut \/ PollFails
  BY <1>1, ButtonKeeps
<1>2. CASE SendAnotherNote \/ Reload
  BY <1>2, LeaveKeeps
<1>3. CASE ServerTells \/ PollReturns
  BY <1>3, ServerTellsKeeps, PollReturnsKeeps
<1>4. ASSUME NEW n \in Submissions, NoteStep(n) PROVE PageInv'
  BY <1>4, UploadEventKeeps, FollowKeeps, ServerMovesKeeps DEF NoteStep
<1>5. ASSUME NEW s \in Sendings, SendingStep(s) PROVE PageInv'
  BY <1>5, AnswersEventKeeps, ServerHearsKeeps DEF SendingStep
<1>6. CASE UNCHANGED pageVars
  BY <1>6 DEF pageVars, PageInv, PageTypeOK, KnownInv, EndsInv, FollowsInv, EndIsOfNoteOnScreen,
              Received, Remembers
<1> QED BY <1>1, <1>2, <1>3, <1>4, <1>5, <1>6 DEF PageNext

(* The page, its storage and its requests are always of their type.           *)
(* public-upload-flow.tsx. *)
THEOREM PageTyped == PageSpec => []PageTypeOK
<1>1. PageInv => PageTypeOK
  BY DEF PageInv
<1> QED BY PageInitInv, PageStepInv, <1>1, PTL DEF PageSpec

(* For any number of notes and of answers in flight, the end on screen is the *)
(* end of the note on screen.  public-upload-flow.tsx:713-783. *)
THEOREM EndOfNoteOnScreen == PageSpec => []EndIsOfNoteOnScreen
<1>1. PageInv => EndIsOfNoteOnScreen
  BY DEF PageInv
<1> QED BY PageInitInv, PageStepInv, <1>1, PTL DEF PageSpec

--------------------------------------------------------------------------------
(* The admission of uploads. *)

(* The notes of others that share a window of time with a moment. *)
Within(moment) == {n \in Notes : created[n] <= moment /\ created[n] + Window >= moment}
OfWork(notes, work) == {n \in notes : WorkOf(n) = work}

LockInv == \A u \in Uploads : lock = u <=> upload[u].at \in {"counted", "created"}
NotesInv ==
    \A u \in Uploads :
      /\ created[u] <= clock
      /\ created[u] # 0 <=> upload[u].at \in {"created", "admitted"}
      /\ upload[u].at \in AwaitingLock => upload[u].now \in Window..clock
FinitelyMany == IsFiniteSet(Notes)
(* What was counted leaves room for one note more, now. *)
CountInv ==
    \A u \in Uploads :
      upload[u].at = "counted" =>
        /\ Cardinality(Within(clock)) < GlobalLimit
        /\ Cardinality(OfWork(Within(clock), WorkOf(u))) < PerWorkLimit
(* No window holds too many, not those that end between two notes either. *)
WindowsInv ==
    \A moment \in Nat :
      /\ Cardinality(Within(moment)) <= GlobalLimit
      /\ \A w \in Works : Cardinality(OfWork(Within(moment), w)) <= PerWorkLimit
AdmissionInv == AdmissionTypeOK /\ LockInv /\ NotesInv /\ FinitelyMany /\ CountInv /\ WindowsInv

UploadRequests == [at : UploadSteps, work : Works, now : {0} \cup Clock]

LEMMA AdmissionKnows ==
    AdmissionInv =>
      /\ {GlobalLimit, PerWorkLimit, Window, MaxClock} \subseteq Nat /\ Nobody \notin Uploads
      /\ GlobalLimit > 0 /\ PerWorkLimit > 0 /\ Window > 0
      /\ clock \in Nat /\ clock > 0 /\ clock \in Clock
      /\ upload \in [Uploads -> UploadRequests]
      /\ created \in [Uploads -> {0} \cup Clock] /\ \A n \in Uploads : created[n] \in Nat
  BY AdmissionAssumption DEF AdmissionInv, AdmissionTypeOK, Clock, UploadRequests

(* One request goes on, the others stay. *)
LEMMA OneGoes ==
    ASSUME AdmissionInv, NEW u \in Uploads, NEW at \in UploadSteps, UploadGoes(u, at)
    PROVE  /\ upload' \in [Uploads -> UploadRequests]
           /\ \A n \in Uploads : WorkOf(n)' = WorkOf(n)
           /\ \A n \in Uploads \ {u} : upload'[n] = upload[n]
           /\ upload'[u].at = at /\ (at \in AwaitingLock => upload'[u].now = clock)
<1> DEFINE now == IF at \in AwaitingLock THEN clock ELSE 0
<1>1. now \in {0} \cup Clock /\ (at \in AwaitingLock => now = clock)
  BY AdmissionKnows
<1>2. upload' = [upload EXCEPT ![u].at = at, ![u].now = now]
  BY DEF UploadGoes
<1> HIDE DEF now
<1>3. upload \in [Uploads -> UploadRequests]
  BY AdmissionKnows
<1> QED BY <1>1, <1>2, <1>3 DEF UploadRequests, WorkOf

(* A set of notes and a larger one: the notes of a work too. *)
LEMMA FewerOfWork ==
    ASSUME NEW few, NEW many, IsFiniteSet(many), few \subseteq many
    PROVE  /\ IsFiniteSet(few) /\ Cardinality(few) \in Nat /\ Cardinality(many) \in Nat
           /\ Cardinality(few) <= Cardinality(many)
  BY FS_Subset, FS_CardinalityType

(* The transaction that counts under the free lock counts every note of the   *)
(* window that ends now, however long it waited for the lock. *)
LEMMA CountedIsAll ==
    ASSUME AdmissionInv, NEW u \in Uploads, upload[u].at = "wait_again", LockIsFree(u), BelowLimits(u)
    PROVE  /\ Cardinality(Within(clock)) < GlobalLimit
           /\ Cardinality(OfWork(Within(clock), WorkOf(u))) < PerWorkLimit
<1>1. Within(clock) \subseteq Counted(u)
  <2> SUFFICES ASSUME NEW n \in Notes, created[n] + Window >= clock PROVE n \in Counted(u)
    BY DEF Within
  <2>1. n \in Uploads /\ created[n] # 0
    BY DEF Notes
  <2>2. upload[n].at = "admitted"
    BY <2>1, AdmissionKnows DEF AdmissionInv, NotesInv, LockInv, LockIsFree
  <2>3. upload[u].now \in Window..clock
    BY DEF AdmissionInv, NotesInv, AwaitingLock
  <2>4. created[n] >= upload[u].now - Window
    BY <2>1, <2>3, AdmissionKnows
  <2> QED BY <2>2, <2>4 DEF Counted
<1>2. /\ IsFiniteSet(Counted(u))
      /\ OfWork(Within(clock), WorkOf(u)) \subseteq {n \in Counted(u) : WorkOf(n) = WorkOf(u)}
      /\ {n \in Counted(u) : WorkOf(n) = WorkOf(u)} \subseteq Counted(u)
  <2>1. Counted(u) \subseteq Notes
    BY DEF Counted
  <2> QED BY <1>1, <2>1, FS_Subset DEF OfWork, AdmissionInv, FinitelyMany
<1>3. Cardinality(Within(clock)) <= Cardinality(Counted(u)) /\ Cardinality(Within(clock)) \in Nat
      /\ Cardinality(Counted(u)) \in Nat
  BY <1>1, <1>2, FewerOfWork
<1>4. /\ Cardinality(OfWork(Within(clock), WorkOf(u))) \in Nat
      /\ Cardinality({n \in Counted(u) : WorkOf(n) = WorkOf(u)}) \in Nat
      /\ Cardinality(OfWork(Within(clock), WorkOf(u)))
           <= Cardinality({n \in Counted(u) : WorkOf(n) = WorkOf(u)})
  <2>1. IsFiniteSet({n \in Counted(u) : WorkOf(n) = WorkOf(u)})
    BY <1>2, FS_Subset
  <2> QED BY <1>2, <2>1, FewerOfWork
<1> QED BY <1>3, <1>4, AdmissionKnows DEF BelowLimits

(* Steps that create no note. *)
LEMMA NoNewNoteKeeps ==
    ASSUME AdmissionInv, AdmissionTypeOK', LockInv', clock' >= clock,
           \A n \in Uploads :
             /\ WorkOf(n)' = WorkOf(n) /\ created'[n] \in {0, created[n]}
             /\ created'[n] # 0 <=> upload'[n].at \in {"created", "admitted"}
             /\ upload'[n].at \in AwaitingLock => upload'[n].now \in Window..clock'
             /\ upload'[n].at = "counted" =>
                  /\ Cardinality(Within(clock)) < GlobalLimit
                  /\ Cardinality(OfWork(Within(clock), WorkOf(n))) < PerWorkLimit
    PROVE  AdmissionInv'
<1>1. /\ clock' \in Nat /\ \A n \in Uploads : created'[n] \in Nat
      /\ Notes' \subseteq Notes /\ \A n \in Notes' : created'[n] = created[n] /\ n \in Uploads
  <2>1. clock' \in Clock
    BY DEF AdmissionTypeOK
  <2>2. clock' \in Nat
    BY <2>1, AdmissionKnows DEF Clock
  <2>3. \A n \in Uploads : created'[n] \in Nat
    BY AdmissionKnows
  <2> QED BY <2>2, <2>3 DEF Notes
<1>2. FinitelyMany'
  BY <1>1, FS_Subset DEF AdmissionInv, FinitelyMany
<1>3. NotesInv'
  <2> SUFFICES ASSUME NEW n \in Uploads PROVE created'[n] <= clock'
    BY DEF NotesInv
  <2>1. created[n] <= clock
    BY DEF AdmissionInv, NotesInv
  <2> QED BY <1>1, <2>1, AdmissionKnows
<1>4. CountInv'
  <2> SUFFICES ASSUME NEW u \in Uploads, upload'[u].at = "counted"
               PROVE  /\ Cardinality(Within(clock)') < GlobalLimit
                      /\ Cardinality(OfWork(Within(clock), WorkOf(u))') < PerWorkLimit
    BY DEF CountInv
  <2>1. Within(clock)' \subseteq Within(clock)
    <3> SUFFICES ASSUME NEW n \in Notes', created'[n] + Window >= clock'
                 PROVE  n \in Within(clock)
      BY DEF Within
    <3>1. n \in Notes /\ created[n] = created'[n] /\ n \in Uploads
      BY <1>1
    <3>2. created[n] <= clock
      BY <3>1 DEF AdmissionInv, NotesInv
    <3>3. created[n] + Window >= clock
      BY <1>1, <3>1, AdmissionKnows
    <3> QED BY <3>1, <3>2, <3>3 DEF Within
  <2>2. OfWork(Within(clock), WorkOf(u))' \subseteq OfWork(Within(clock), WorkOf(u))
    BY <1>1, <2>1 DEF OfWork, Within
  <2>3. IsFiniteSet(Within(clock)) /\ IsFiniteSet(OfWork(Within(clock), WorkOf(u)))
    <3>1. Within(clock) \subseteq Notes /\ OfWork(Within(clock), WorkOf(u)) \subseteq Notes
      BY DEF Within, OfWork
    <3> QED BY <3>1, FS_Subset DEF AdmissionInv, FinitelyMany
  <2>4. /\ Cardinality(Within(clock)') <= Cardinality(Within(clock))
        /\ Cardinality(Within(clock)') \in Nat /\ Cardinality(Within(clock)) \in Nat
    BY <2>1, <2>3, FewerOfWork
  <2>5. /\ Cardinality(OfWork(Within(clock), WorkOf(u))') <= Cardinality(OfWork(Within(clock), WorkOf(u)))
        /\ Cardinality(OfWork(Within(clock), WorkOf(u))') \in Nat
        /\ Cardinality(OfWork(Within(clock), WorkOf(u))) \in Nat
    BY <2>2, <2>3, FewerOfWork
  <2> QED BY <2>4, <2>5, AdmissionKnows
<1>5. WindowsInv'
  <2> SUFFICES ASSUME NEW m \in Nat
               PROVE  /\ Cardinality(Within(m)') <= GlobalLimit
                      /\ \A w \in Works : Cardinality(OfWork(Within(m), w)') <= PerWorkLimit
    BY DEF WindowsInv
  <2>1. /\ Cardinality(Within(m)) <= GlobalLimit
        /\ \A w \in Works : Cardinality(OfWork(Within(m), w)) <= PerWorkLimit
    BY DEF AdmissionInv, WindowsInv
  <2>2. Within(m)' \subseteq Within(m)
    BY <1>1 DEF Within
  <2>3. Within(m) \subseteq Notes /\ IsFiniteSet(Within(m))
    BY FS_Subset DEF Within, AdmissionInv, FinitelyMany
  <2>4. Cardinality(Within(m)') <= GlobalLimit
    <3>1. /\ Cardinality(Within(m)') <= Cardinality(Within(m))
          /\ Cardinality(Within(m)') \in Nat /\ Cardinality(Within(m)) \in Nat
      BY <2>2, <2>3, FewerOfWork
    <3> QED BY <2>1, <3>1, AdmissionKnows
  <2>5. ASSUME NEW w \in Works PROVE Cardinality(OfWork(Within(m), w)') <= PerWorkLimit
    <3>1. OfWork(Within(m), w)' \subseteq OfWork(Within(m), w)
      BY <1>1, <2>2 DEF OfWork, Within
    <3>2. IsFiniteSet(OfWork(Within(m), w))
      BY <2>3, FS_Subset DEF OfWork
    <3>3. /\ Cardinality(OfWork(Within(m), w)') <= Cardinality(OfWork(Within(m), w))
          /\ Cardinality(OfWork(Within(m), w)') \in Nat
          /\ Cardinality(OfWork(Within(m), w)) \in Nat
      BY <3>1, <3>2, FewerOfWork
    <3> QED BY <2>1, <3>3, AdmissionKnows
  <2> QED BY <2>4, <2>5
<1> QED BY <1>2, <1>3, <1>4, <1>5 DEF AdmissionInv

(* The request that steps keeps the relation between its place, its note and  *)
(* the lock; the places of the others have not moved. *)
LEMMA RequestKeeps ==
    ASSUME AdmissionInv, NEW u \in Uploads, NEW at \in UploadSteps, UploadGoes(u, at),
           clock' = clock,
           created' = [created EXCEPT ![u] = created'[u]], created'[u] \in {0, created[u]},
           created'[u] # 0 <=> at \in {"created", "admitted"},
           lock' \in Uploads \cup {Nobody},
           lock' = u <=> at \in {"counted", "created"},
           lock' = lock \/ (lock = u /\ lock' = Nobody) \/ (lock = Nobody /\ lock' = u),
           at = "counted" => upload[u].at = "wait_again" /\ LockIsFree(u) /\ BelowLimits(u)
    PROVE  AdmissionInv'
<1>1. /\ upload' \in [Uploads -> UploadRequests]
      /\ \A n \in Uploads : WorkOf(n)' = WorkOf(n)
      /\ \A n \in Uploads \ {u} : upload'[n] = upload[n]
      /\ upload'[u].at = at /\ (at \in AwaitingLock => upload'[u].now = clock)
  BY OneGoes
<1>2. \A n \in Uploads \ {u} : created'[n] = created[n]
  BY AdmissionKnows
<1>3. AdmissionTypeOK'
  BY <1>1, AdmissionKnows DEF AdmissionInv, AdmissionTypeOK, UploadRequests
<1>4. LockInv'
  BY <1>1, AdmissionKnows DEF AdmissionInv, LockInv
<1>5. ASSUME NEW n \in Uploads
      PROVE  /\ created'[n] \in {0, created[n]}
             /\ created'[n] # 0 <=> upload'[n].at \in {"created", "admitted"}
             /\ upload'[n].at \in AwaitingLock => upload'[n].now \in Window..clock'
  <2>1. CASE n = u
    <3>1. clock \in Window..clock
      BY AdmissionKnows DEF Clock
    <3> QED BY <1>1, <2>1, <3>1
  <2>2. CASE n # u
    BY <1>1, <1>2, <2>2 DEF AdmissionInv, NotesInv
  <2> QED BY <2>1, <2>2
<1>6. ASSUME NEW n \in Uploads, upload'[n].at = "counted"
      PROVE  /\ Cardinality(Within(clock)) < GlobalLimit
             /\ Cardinality(OfWork(Within(clock), WorkOf(n))) < PerWorkLimit
  <2>1. CASE n = u
    BY <1>1, <1>6, <2>1, CountedIsAll
  <2>2. CASE n # u
    BY <1>1, <1>6, <2>2 DEF AdmissionInv, CountInv
  <2> QED BY <2>1, <2>2
<1>7. clock' >= clock
  BY AdmissionKnows
<1> QED BY <1>1, <1>3, <1>4, <1>5, <1>6, <1>7, NoNewNoteKeeps

LEMMA CountingKeeps ==
    ASSUME AdmissionInv, NEW u \in Uploads,
           AskLock(u) \/ CountFirst(u) \/ CountAgain(u) \/ CommitNote(u) \/ UploadFails(u)
    PROVE  AdmissionInv'
<1>1. /\ clock' = clock /\ Nobody \notin Uploads /\ lock \in Uploads \cup {Nobody}
      /\ lock = u <=> upload[u].at \in {"counted", "created"}
      /\ created[u] # 0 <=> upload[u].at \in {"created", "admitted"}
      /\ created \in [Uploads -> {0} \cup Clock]
  BY AdmissionKnows DEF AskLock, CountFirst, CountAgain, CommitNote, UploadFails,
                        AdmissionInv, AdmissionTypeOK, LockInv, NotesInv
<1>2. created = [created EXCEPT ![u] = created[u]]
  BY <1>1
<1>3. CASE AskLock(u) \/ CountFirst(u)
  <2>1. PICK at \in {"wait", "wait_again", "body", "refused"} : UploadGoes(u, at)
    BY <1>3 DEF AskLock, CountFirst
  <2>2. /\ created' = created /\ lock' = lock
        /\ upload[u].at \notin {"counted", "created", "admitted"}
    BY <1>3 DEF AskLock, CountFirst
  <2>3. at \in UploadSteps
    BY DEF UploadSteps
  <2> QED BY <1>1, <1>2, <2>1, <2>2, <2>3, RequestKeeps
<1>4. CASE CountAgain(u)
  <2>1. created' = created /\ upload[u].at = "wait_again" /\ LockIsFree(u) /\ lock = Nobody
    BY <1>4 DEF CountAgain, LockIsFree
  <2>2. CASE BelowLimits(u)
    <3>1. UploadGoes(u, "counted") /\ lock' = u /\ "counted" \in UploadSteps
      BY <1>4, <2>2 DEF CountAgain, UploadSteps
    <3> QED BY <1>1, <1>2, <2>1, <2>2, <3>1, RequestKeeps
  <2>3. CASE ~BelowLimits(u)
    <3>1. UploadGoes(u, "refused") /\ lock' = lock /\ "refused" \in UploadSteps
      BY <1>4, <2>3 DEF CountAgain, UploadSteps
    <3> QED BY <1>1, <1>2, <2>1, <3>1, RequestKeeps
  <2> QED BY <2>2, <2>3
<1>5. CASE CommitNote(u)
  <2>1. /\ created' = created /\ upload[u].at = "created" /\ lock' = Nobody
        /\ UploadGoes(u, "admitted") /\ "admitted" \in UploadSteps
    BY <1>1, <1>5 DEF CommitNote, Released, UploadSteps
  <2> QED BY <1>1, <1>2, <2>1, RequestKeeps
<1>6. CASE UploadFails(u)
  <2>1. /\ created' = [created EXCEPT ![u] = 0] /\ UploadGoes(u, "refused")
        /\ lock' = Released(u) /\ "refused" \in UploadSteps
    BY <1>6 DEF UploadFails, UploadSteps
  <2>2. created'[u] = 0
    BY <1>1, <2>1
  <2>3. (lock' = lock /\ lock # u) \/ (lock = u /\ lock' = Nobody)
    BY <2>1 DEF Released
  <2> QED BY <1>1, <2>1, <2>2, <2>3, RequestKeeps
<1> QED BY <1>3, <1>4, <1>5, <1>6

(* The note created now is one more in the windows that end now, and in no    *)
(* other that a note ends. *)
LEMMA CreatedKeeps ==
    ASSUME AdmissionInv, NEW u \in Uploads, CreateNote(u)
    PROVE  AdmissionInv'
<1>1. /\ upload[u].at = "counted" /\ UploadGoes(u, "created") /\ "created" \in UploadSteps
      /\ created' = [created EXCEPT ![u] = clock] /\ UNCHANGED <<clock, lock>>
  BY DEF CreateNote, UploadSteps
<1>2. /\ upload' \in [Uploads -> UploadRequests]
      /\ \A n \in Uploads : WorkOf(n)' = WorkOf(n)
      /\ \A n \in Uploads \ {u} : upload'[n] = upload[n]
      /\ upload'[u].at = "created"
  BY <1>1, OneGoes
<1>3. /\ created'[u] = clock /\ \A n \in Uploads \ {u} : created'[n] = created[n]
      /\ \A n \in Uploads : created'[n] \in Nat /\ created'[n] <= clock /\ created[n] \in Nat
      /\ created[u] = 0 /\ lock = u
      /\ \A n \in Uploads : created[n] <= clock
  BY <1>1, AdmissionKnows DEF AdmissionInv, NotesInv, LockInv
<1>4. AdmissionTypeOK'
  BY <1>1, <1>2, AdmissionKnows DEF AdmissionInv, AdmissionTypeOK, UploadRequests
<1>5. LockInv'
  BY <1>1, <1>2 DEF AdmissionInv, LockInv
<1>6. NotesInv'
  <2> SUFFICES ASSUME NEW n \in Uploads
               PROVE  /\ created'[n] # 0 <=> upload'[n].at \in {"created", "admitted"}
                      /\ upload'[n].at \in AwaitingLock => upload'[n].now \in Window..clock
    BY <1>1, <1>3 DEF NotesInv
  <2>1. CASE n = u
    BY <1>2, <1>3, <2>1, AdmissionKnows DEF AwaitingLock
  <2>2. CASE n # u
    BY <1>2, <1>3, <2>2 DEF AdmissionInv, NotesInv
  <2> QED BY <2>1, <2>2
<1>7. Notes' = Notes \cup {u} /\ u \notin Notes
  BY <1>3, AdmissionKnows DEF Notes
<1>8. FinitelyMany'
  BY <1>7, FS_AddElement DEF AdmissionInv, FinitelyMany
<1>9. CountInv'
  BY <1>2, <1>3 DEF AdmissionInv, LockInv, CountInv
<1>10. WindowsInv'
  <2> SUFFICES ASSUME NEW m \in Nat
               PROVE  /\ Cardinality(Within(m)') <= GlobalLimit
                      /\ \A w \in Works : Cardinality(OfWork(Within(m), w)') <= PerWorkLimit
    BY DEF WindowsInv
  <2>1. /\ Cardinality(Within(m)) <= GlobalLimit
        /\ \A w \in Works : Cardinality(OfWork(Within(m), w)) <= PerWorkLimit
    BY DEF AdmissionInv, WindowsInv
  <2>2. ASSUME NEW n \in Notes PROVE n \in Within(m)' <=> n \in Within(m)
    BY <1>3, <1>7, <2>2 DEF Within, Notes
  <2>3. Within(m)' \subseteq Notes \cup {u} /\ Within(m) \subseteq Notes
    BY <1>7 DEF Within
  <2>4. /\ IsFiniteSet(Within(m)) /\ Cardinality(Within(m)) \in Nat
        /\ IsFiniteSet(Within(clock)) /\ Cardinality(Within(clock)) \in Nat
    BY FS_Subset, FS_CardinalityType DEF Within, AdmissionInv, FinitelyMany
  <2>5. CASE u \notin Within(m)'
    <3>1. Within(m)' = Within(m)
      BY <2>2, <2>3, <2>5
    <3>2. \A w \in Works : OfWork(Within(m), w)' = OfWork(Within(m), w)
      BY <1>2, <3>1 DEF OfWork, Within, Notes
    <3> QED BY <2>1, <3>1, <3>2
  <2>6. CASE u \in Within(m)'
    <3>1. Within(m)' = Within(m) \cup {u} /\ u \notin Within(m)
      BY <1>7, <2>2, <2>3, <2>6
    <3>2. Within(m) \subseteq Within(clock)
      <4>1. clock <= m
        BY <1>3, <2>6 DEF Within
      <4> SUFFICES ASSUME NEW n \in Notes, created[n] + Window >= m PROVE n \in Within(clock)
        BY DEF Within
      <4>2. n \in Uploads /\ created[n] <= clock /\ created[n] \in Nat
        BY <1>3 DEF Notes
      <4>3. created[n] + Window >= clock
        BY <4>1, <4>2, AdmissionKnows
      <4> QED BY <4>2, <4>3 DEF Within
    <3>3. Cardinality(Within(m)') = Cardinality(Within(m)) + 1
      BY <2>4, <3>1, FS_AddElement
    <3>4. Cardinality(Within(m)') <= GlobalLimit
      <4>1. Cardinality(Within(m)) <= Cardinality(Within(clock))
        BY <2>4, <3>2, FewerOfWork
      <4>2. Cardinality(Within(clock)) < GlobalLimit
        BY <1>1 DEF AdmissionInv, CountInv
      <4> QED BY <2>4, <3>3, <4>1, <4>2, AdmissionKnows
    <3>5. ASSUME NEW w \in Works PROVE Cardinality(OfWork(Within(m), w)') <= PerWorkLimit
      <4>1. CASE w # WorkOf(u)
        <5>1. OfWork(Within(m), w)' = OfWork(Within(m), w)
          <6>1. OfWork(Within(m), w)' = {n \in Within(m)' : WorkOf(n)' = w}
            BY DEF OfWork
          <6>2. \A n \in Within(m)' : n \in Uploads
            BY DEF Within, Notes
          <6> QED BY <1>2, <3>1, <4>1, <6>1, <6>2 DEF OfWork
        <5> QED BY <2>1, <5>1
      <4>2. CASE w = WorkOf(u)
        <5>1. OfWork(Within(m), w)' = OfWork(Within(m), w) \cup {u}
          <6>1. OfWork(Within(m), w)' = {n \in Within(m)' : WorkOf(n)' = w}
            BY DEF OfWork
          <6>2. \A n \in Within(m)' : n \in Uploads
            BY DEF Within, Notes
          <6> QED BY <1>2, <3>1, <4>2, <6>1, <6>2 DEF OfWork
        <5>2. /\ IsFiniteSet(OfWork(Within(m), w)) /\ u \notin OfWork(Within(m), w)
              /\ OfWork(Within(m), w) \subseteq OfWork(Within(clock), w)
              /\ IsFiniteSet(OfWork(Within(clock), w))
          BY <2>4, <3>1, <3>2, FS_Subset DEF OfWork
        <5>3. /\ Cardinality(OfWork(Within(m), w)) <= Cardinality(OfWork(Within(clock), w))
              /\ Cardinality(OfWork(Within(m), w)) \in Nat
              /\ Cardinality(OfWork(Within(clock), w)) \in Nat
          BY <5>2, FewerOfWork
        <5>4. Cardinality(OfWork(Within(clock), w)) < PerWorkLimit
          BY <1>1, <4>2 DEF AdmissionInv, CountInv
        <5>5. Cardinality(OfWork(Within(m), w)') = Cardinality(OfWork(Within(m), w)) + 1
          BY <5>1, <5>2, FS_AddElement
        <5> QED BY <5>3, <5>4, <5>5, AdmissionKnows
      <4> QED BY <4>1, <4>2
    <3> QED BY <3>4, <3>5
  <2> QED BY <2>5, <2>6
<1> QED BY <1>4, <1>5, <1>6, <1>8, <1>9, <1>10 DEF AdmissionInv

LEMMA AdmissionInitInv == AdmissionInit => AdmissionInv
<1> SUFFICES ASSUME AdmissionInit PROVE AdmissionInv
  OBVIOUS
<1>1. /\ {GlobalLimit, PerWorkLimit, Window, MaxClock} \subseteq Nat \ {0} /\ Nobody \notin Uploads
  BY AdmissionAssumption
<1>2. /\ clock = Window /\ Window \in Clock /\ lock = Nobody
      /\ created = [u \in Uploads |-> 0]
      /\ \A u \in Uploads : upload[u].at = "idle"
  BY <1>1 DEF AdmissionInit, Clock
<1>3. AdmissionTypeOK
  BY <1>2 DEF AdmissionInit, AdmissionTypeOK, UploadSteps
<1>4. LockInv /\ NotesInv /\ CountInv
  BY <1>1, <1>2 DEF LockInv, NotesInv, CountInv, AwaitingLock
<1>5. Notes = {} /\ IsFiniteSet({}) /\ Cardinality({}) = 0
  BY <1>2, FS_EmptySet DEF Notes
<1>6. \A m \in Nat : Within(m) = {} /\ \A w \in Works : OfWork(Within(m), w) = {}
  BY <1>5 DEF Within, OfWork
<1>7. WindowsInv
  BY <1>1, <1>5, <1>6 DEF WindowsInv
<1> QED BY <1>3, <1>4, <1>5, <1>7 DEF AdmissionInv, FinitelyMany

LEMMA AdmissionStepInv == AdmissionInv /\ [AdmissionNext]_admissionVars => AdmissionInv'
<1> SUFFICES ASSUME AdmissionInv, [AdmissionNext]_admissionVars PROVE AdmissionInv'
  OBVIOUS
<1>1. CASE Tick
  <2>1. /\ clock' = clock + 1 /\ clock' \in Clock /\ clock' >= clock
        /\ UNCHANGED <<lock, upload, created>>
    BY <1>1, AdmissionKnows DEF Tick, Clock
  <2>2. AdmissionTypeOK' /\ LockInv'
    BY <2>1 DEF AdmissionInv, AdmissionTypeOK, LockInv
  <2>3. ASSUME NEW n \in Uploads
        PROVE  /\ WorkOf(n)' = WorkOf(n) /\ created'[n] \in {0, created[n]}
               /\ created'[n] # 0 <=> upload'[n].at \in {"created", "admitted"}
               /\ upload'[n].at \in AwaitingLock => upload'[n].now \in Window..clock'
    BY <2>1, AdmissionKnows DEF AdmissionInv, NotesInv, WorkOf
  <2>4. ASSUME NEW n \in Uploads, upload'[n].at = "counted"
        PROVE  /\ Cardinality(Within(clock)) < GlobalLimit
               /\ Cardinality(OfWork(Within(clock), WorkOf(n))) < PerWorkLimit
    BY <2>1, <2>4 DEF AdmissionInv, CountInv
  <2> QED BY <2>1, <2>2, <2>3, <2>4, NoNewNoteKeeps
<1>2. ASSUME NEW u \in Uploads, UploadStep(u) PROVE AdmissionInv'
  BY <1>2, CountingKeeps, CreatedKeeps DEF UploadStep
<1>3. CASE UNCHANGED admissionVars
  BY <1>3 DEF admissionVars, AdmissionInv, AdmissionTypeOK, LockInv, NotesInv, FinitelyMany,
              CountInv, WindowsInv, Within, OfWork, Notes, WorkOf
<1> QED BY <1>1, <1>2, <1>3 DEF AdmissionNext

(* The requests, the lock and the notes are always of their type.             *)
(* public-upload-rate-limit.ts. *)
THEOREM AdmissionTyped == AdmissionSpec => []AdmissionTypeOK
<1>1. AdmissionInv => AdmissionTypeOK
  BY DEF AdmissionInv
<1> QED BY AdmissionInitInv, AdmissionStepInv, <1>1, PTL DEF AdmissionSpec

(* For any number of requests and works, any caps and any window, no window   *)
(* of time holds more notes than the caps allow.                              *)
(* public-upload-rate-limit.ts:104-107. *)
THEOREM WindowsNotOverrun == AdmissionSpec => []NoWindowOverrun
<1>1. AdmissionInv => NoWindowOverrun
  <2> SUFFICES ASSUME AdmissionInv, NEW last \in Notes
               PROVE  /\ Cardinality(Within(created[last])) <= GlobalLimit
                      /\ \A w \in Works : Cardinality(OfWork(Within(created[last]), w)) <= PerWorkLimit
    BY DEF NoWindowOverrun, Within, OfWork
  <2>1. created[last] \in Nat
    BY AdmissionKnows DEF Notes
  <2> QED BY <2>1 DEF AdmissionInv, WindowsInv
<1> QED BY AdmissionInitInv, AdmissionStepInv, <1>1, PTL DEF AdmissionSpec
================================================================================
