------------------------------- MODULE PwaUpdate -------------------------------
(***************************************************************************)
(* How a new version of the application reaches the open pages:             *)
(* src/src/components/pwa/pwa-lifecycle.tsx, pwa-update-policy.ts,          *)
(* pwa-critical-activity.ts, and the install, activate and message handlers *)
(* of src/public/sw.js.                                                     *)
(*                                                                          *)
(* The registration of the service worker is the browser's, shared by the   *)
(* tabs: of its workers one installs, one waits, one is active.  Messages   *)
(* and events take their time.  Workers are named by their release.  The    *)
(* browser also activates a waiting worker once no tab is left, which no    *)
(* tab sees.                                                                *)
(***************************************************************************)
EXTENDS Naturals

CONSTANTS
    Tabs,          \* open pages of one browser
    MaxRelease     \* bound: releases of sw.js

ASSUME PwaAssumption == MaxRelease \in Nat \ {0}

VARIABLES
    released,      \* the sw.js of the server
    registration,  \* the ServiceWorkerRegistration
    tab,           \* the page of each tab
    skip,          \* workers with a SKIP_WAITING on its way to them
    online,        \* navigator.onLine, the same for all tabs
    reloads        \* history: reloads of each tab by onControllerChange

pwaVars == <<released, registration, tab, skip, online, reloads>>

Releases == 1..MaxRelease
NoWorker == 0
WorkerOrNone == Releases \cup {NoWorker}

(* The page: an action is under way (critical activities); updateAvailable,   *)
(* waitingWorkerRef and updateApplyRequestedRef; a controllerchange is on its  *)
(* way to it; the worker that was active when it was loaded.                   *)
Pages ==
    [busy : BOOLEAN, offered : BOOLEAN, waitingRef : WorkerOrNone,
     requested : BOOLEAN, changed : BOOLEAN, under : WorkerOrNone]
PwaTypeOK ==
    /\ released \in Releases
    /\ registration \in [installing : WorkerOrNone, waiting : WorkerOrNone, active : WorkerOrNone]
    /\ tab \in [Tabs -> Pages]
    /\ skip \subseteq Releases
    /\ online \in BOOLEAN
    /\ reloads \in [Tabs -> 0..MaxRelease]

Fresh(worker) ==
    [busy |-> FALSE, offered |-> FALSE, waitingRef |-> NoWorker,
     requested |-> FALSE, changed |-> FALSE, under |-> worker]

(* A first visit, or one under the worker of an earlier one. *)
PwaInit ==
    /\ released = 1
    /\ registration \in [installing : {NoWorker}, waiting : {NoWorker}, active : {NoWorker, 1}]
    /\ tab = [t \in Tabs |-> Fresh(registration.active)]
    /\ skip = {}
    /\ online = TRUE
    /\ reloads = [t \in Tabs |-> 0]

--------------------------------------------------------------------------------
(* The browser. *)

Release ==
    /\ released < MaxRelease
    /\ released' = released + 1
    /\ UNCHANGED <<registration, tab, skip, online, reloads>>

(* registration.update(), of any tab, meets a worker it does not know. *)
FindUpdate ==
    /\ registration.installing = NoWorker
    /\ released \notin {registration.waiting, registration.active}
    /\ registration' = [registration EXCEPT !.installing = released]
    /\ UNCHANGED <<released, tab, skip, online, reloads>>

(* The active worker is another one: every page hears of it. *)
ControlPasses ==
    tab' = [t \in Tabs |-> [tab[t] EXCEPT !.changed = TRUE]]

(* The offline page and its images are cached (install), or could not be.     *)
(* With no worker before it, the new one activates and claims the pages.      *)
EndInstall ==
    /\ registration.installing # NoWorker
    /\ \/ /\ registration.active # NoWorker
          /\ registration' = [registration EXCEPT !.installing = NoWorker,
                                                  !.waiting = registration.installing]
          /\ UNCHANGED tab
       \/ /\ registration.active = NoWorker
          /\ registration' = [registration EXCEPT !.installing = NoWorker,
                                                  !.active = registration.installing]
          /\ ControlPasses
       \/ /\ registration' = [registration EXCEPT !.installing = NoWorker]
          /\ UNCHANGED tab
    /\ UNCHANGED <<released, skip, online, reloads>>

(* skipWaiting: of no effect on a worker that no longer waits. *)
SkipWaiting(worker) ==
    /\ worker \in skip
    /\ skip' = skip \ {worker}
    /\ IF worker = registration.waiting
       THEN /\ registration' = [registration EXCEPT !.waiting = NoWorker, !.active = worker]
            /\ ControlPasses
       ELSE UNCHANGED <<registration, tab>>
    /\ UNCHANGED <<released, online, reloads>>

--------------------------------------------------------------------------------
(* The pages. *)

(* watchRegistration, at the load or when a worker has been installed. *)
SeeWaiting(t) ==
    /\ registration.waiting \notin {NoWorker, tab[t].waitingRef}
    /\ tab' = [tab EXCEPT ![t].waitingRef = registration.waiting, ![t].offered = TRUE]
    /\ UNCHANGED <<released, registration, skip, online, reloads>>

(* The worker the page would activate. *)
UpdateOf(t) ==
    IF registration.waiting # NoWorker THEN registration.waiting ELSE tab[t].waitingRef

(* shouldAutoApplyPwaUpdate and the guards of applyUpdate. *)
MayApply(t) ==
    /\ tab[t].offered
    /\ online
    /\ ~tab[t].busy
    /\ ~tab[t].requested
    /\ UpdateOf(t) # NoWorker

ReloadAtOnce(t) ==                             \* mutant: the page does not wait for the worker
    /\ MayApply(t)
    /\ skip' = skip \cup {UpdateOf(t)}
    /\ tab' = [tab EXCEPT ![t] = Fresh(registration.active)]
    /\ reloads' = [reloads EXCEPT ![t] = @ + 1]
    /\ UNCHANGED <<released, registration, online>>
(* applyUpdate, of the timer or the button. *)
ApplyUpdate(t) ==
    /\ MayApply(t)
    /\ skip' = skip \cup {UpdateOf(t)}
    /\ tab' = [tab EXCEPT ![t].requested = TRUE]
    /\ UNCHANGED <<released, registration, online, reloads>>

(* onControllerChange. *)
ControllerChanges(t) ==
    /\ tab[t].changed
    /\ IF tab[t].requested
       THEN /\ tab' = [tab EXCEPT ![t] = Fresh(registration.active)]
            /\ reloads' = [reloads EXCEPT ![t] = @ + 1]
       ELSE /\ tab' = [tab EXCEPT ![t].changed = FALSE]
            /\ UNCHANGED reloads
    /\ UNCHANGED <<released, registration, skip, online>>

(* The user: an upload, a form or a decision begins or ends, or the page is   *)
(* opened again. *)
UserActs(t) ==
    /\ \/ tab' = [tab EXCEPT ![t].busy = ~@]
       \/ tab' = [tab EXCEPT ![t] = Fresh(registration.active)]
    /\ UNCHANGED <<released, registration, skip, online, reloads>>

Connect ==
    /\ online' = ~online
    /\ UNCHANGED <<released, registration, tab, skip, reloads>>

TabStep(t) == SeeWaiting(t) \/ ApplyUpdate(t) \/ ControllerChanges(t) \/ UserActs(t)
PwaNext ==
    \/ Release \/ FindUpdate \/ EndInstall \/ Connect
    \/ \E worker \in Releases : SkipWaiting(worker)
    \/ \E t \in Tabs : TabStep(t)
PwaSpec == PwaInit /\ [][PwaNext]_pwaVars

--------------------------------------------------------------------------------
(* Properties.                                                              *)

(* A page is reloaded for a worker newer than the one it was loaded under,    *)
(* and so once for each: there is no loop of reloads, whichever tab asked     *)
(* and however late messages and events are.  docs/PRD_PWA_APP.md:100         *)
(* "Depois de `controllerchange`, a página recarrega uma única vez". *)
EachReloadIsAnUpdate ==
    [][\A t \in Tabs : reloads'[t] # reloads[t] => registration.active > tab[t].under]_pwaVars

(* docs/PRD_PWA_APP.md:216 "Atualização não recarrega automaticamente durante *)
(* upload/mutação". *)
NoReloadWhileBusy ==
    [][\A t \in Tabs : reloads'[t] # reloads[t] => ~tab[t].busy]_pwaVars
================================================================================
