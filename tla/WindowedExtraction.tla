--------------------------- MODULE WindowedExtraction ---------------------------
(***************************************************************************)
(* One long PDF read in windows of a few pages:                             *)
(* src/src/server/integrations/openrouter/windowed-extraction.ts, with its  *)
(* plan from src/src/lib/integrations/openrouter/page-windows.ts.           *)
(*                                                                          *)
(* Two readers share a cursor over the windows, two repairers then share    *)
(* the windows that can be repaired, and what they leave is consolidated.   *)
(* They are coroutines of one process: a step is what runs between two      *)
(* awaits.  Every stage leaves an event in the database, a write that may   *)
(* fail.  Nothing here survives the process: its death, and the attempts    *)
(* that follow, are NotePipeline's.                                         *)
(***************************************************************************)
EXTENDS Naturals, FiniteSets

CONSTANTS
    PageCounts,    \* pages the document may have
    WindowSize,    \* pages of a window, 4 in the call of planPageWindows
    MaxWindows,    \* windows of a plan, 8 in the same call
    Recoverable,   \* windows a caller may bring from an earlier run (savedWindows)
    Deficient,     \* windows whose reads may show a deficit to repair
    Readers,       \* the calls of readWindow, two
    Repairers,     \* the calls of repairWindow, two
    Targets        \* source deficits a focused reread may close

ASSUME WindowAssumption ==
    /\ PageCounts \subseteq Nat \ {0}
    /\ WindowSize \in Nat \ {0}
    /\ MaxWindows \in Nat \ {0}
    /\ "none" \notin Targets

VARIABLES
    pages,         \* pageCount of the document
    phase,         \* what extractInvoice is doing
    next,          \* windows taken by the readers so far
    failed,        \* a reader failed; failure is set with it
    reader,        \* where each reader is, and on which window
    result,        \* the limitation of what is known of each window
    toRepair,      \* repairIndexes not taken yet
    repairer,      \* where each repairer is, its window and what it tried
    consolidation, \* where the consolidation is, and its attempt
    recorded,      \* windows whose COMPLETED event was stored, or recovered
    bought         \* history: calls of the provider for each window

readingVars == <<pages, phase, next, failed, reader, result, toRepair, repairer,
                 consolidation, recorded, bought>>

--------------------------------------------------------------------------------
(* The plan: page-windows.ts.                                               *)

CeilDiv(a, b) == (a + b - 1) \div b

PlanFloor(count) == count \div WindowSize       \* mutant: a shorter last window is left out
(* How many windows planPageWindows makes of a document. *)
PlanLength(count) == CeilDiv(count, WindowSize)
(* "permission to silently truncate the document" is what exceeding the cap is not. *)
Plannable(count) == CeilDiv(count, WindowSize) <= MaxWindows

WindowPages(w, count) ==
    {p \in 1..count : (w - 1) * WindowSize < p /\ p <= w * WindowSize}

AllWindows == 1..MaxWindows
Windows == 1..PlanLength(pages)

--------------------------------------------------------------------------------
(* A window is unread, or read: with a deficit evidencePageRepairTarget     *)
(* accepts (page and kind), or with none it would ("settled").              *)
Limitations == {"settled"} \cup Targets
LimitationsOf(w) == IF w \in Deficient THEN Limitations ELSE {"settled"}
Results == {"none"} \cup Limitations

ReaderSteps == {"loop", "start", "call", "answer", "store", "fail", "stopped"}
RepairerSteps == {"idle", "loop", "start", "answer", "store", "fail", "stopped", "rejected"}
Phases == {"read", "repair", "consolidate", "done", "failed"}
NoWindow == 0

ReadingTypeOK ==
    /\ pages \in PageCounts
    /\ phase \in Phases
    /\ next \in 0..MaxWindows
    /\ failed \in BOOLEAN
    /\ reader \in [Readers -> [at : ReaderSteps, window : AllWindows \cup {NoWindow}]]
    /\ result \in [AllWindows -> Results]
    /\ toRepair \in SUBSET AllWindows
    /\ repairer \in [Repairers -> [at : RepairerSteps, window : AllWindows \cup {NoWindow},
                                   attempted : SUBSET Targets, call : 1..2]]
    /\ consolidation \in [at : {"start", "call", "answer", "store", "retry"}, attempt : 1..2]
    /\ recorded \in SUBSET AllWindows
    /\ bought \in [AllWindows -> Nat]

Unrepairing == [at |-> "loop", window |-> NoWindow, attempted |-> {}, call |-> 1]

(* The request was planned, and the windows a caller recovers were validated *)
(* (savedWindows, passed by scripts/reprocess-isolated-corpus.ts only).      *)
ReadingInit ==
    /\ pages \in {n \in PageCounts : Plannable(n)}
    /\ phase = "read"
    /\ next = 0
    /\ failed = FALSE
    /\ reader = [r \in Readers |-> [at |-> "loop", window |-> NoWindow]]
    /\ \E saved \in SUBSET (Recoverable \cap 1..PlanLength(pages)) :
         /\ recorded = saved
         /\ result \in [AllWindows -> Results]
         /\ \A w \in AllWindows :
              result[w] \in IF w \in saved THEN LimitationsOf(w) ELSE {"none"}
    /\ toRepair = {}
    /\ repairer = [q \in Repairers |-> [Unrepairing EXCEPT !.at = "idle"]]
    /\ consolidation = [at |-> "start", attempt |-> 1]
    /\ bought = [w \in AllWindows |-> 0]

--------------------------------------------------------------------------------
Move(r, at) == reader' = [reader EXCEPT ![r].at = at]
Rest(r, at) == reader' = [reader EXCEPT ![r] = [at |-> at, window |-> NoWindow]]

(* The readers. *)
NeverRead(w) == FALSE                          \* mutant: recovered windows are read again
AlreadyRead(w) == result[w] # "none"

(* A window whose result was recovered is passed over. *)
TakeWindow(r) ==
    /\ phase = "read"
    /\ reader[r].at = "loop"
    /\ ~failed
    /\ next < PlanLength(pages)
    /\ next' = next + 1
    /\ IF AlreadyRead(next + 1) THEN Rest(r, "loop")
       ELSE reader' = [reader EXCEPT ![r] = [at |-> "start", window |-> next + 1]]
    /\ UNCHANGED <<pages, phase, failed, result, toRepair, repairer, consolidation, recorded, bought>>

ReaderStops(r) ==
    /\ phase = "read"
    /\ reader[r].at = "loop"
    /\ failed \/ next = PlanLength(pages)
    /\ Rest(r, "stopped")
    /\ UNCHANGED <<pages, phase, next, failed, result, toRepair, repairer, consolidation, recorded, bought>>

(* STARTED. *)
RecordStarted(r) ==
    /\ reader[r].at = "start"
    /\ \/ Move(r, "call") /\ UNCHANGED failed
       \/ Move(r, "fail") /\ failed' = TRUE
    /\ UNCHANGED <<pages, phase, next, result, toRepair, repairer, consolidation, recorded, bought>>

(* The pages of the window are cut out and sent; the rendering may fail, or  *)
(* the total deadline leave no second.                                       *)
CallReader(r) ==
    /\ reader[r].at = "call"
    /\ \/ /\ Move(r, "answer")
          /\ bought' = [bought EXCEPT ![reader[r].window] = @ + 1]
          /\ UNCHANGED failed
       \/ Move(r, "fail") /\ failed' = TRUE /\ UNCHANGED bought
    /\ UNCHANGED <<pages, phase, next, result, toRepair, repairer, consolidation, recorded>>

ReaderAnswers(r) ==
    /\ reader[r].at = "answer"
    /\ \/ /\ \E limitation \in LimitationsOf(reader[r].window) :
               result' = [result EXCEPT ![reader[r].window] = limitation]
          /\ Move(r, "store")
          /\ UNCHANGED failed
       \/ Move(r, "fail") /\ failed' = TRUE /\ UNCHANGED result
    /\ UNCHANGED <<pages, phase, next, toRepair, repairer, consolidation, recorded, bought>>

StoreFailureForgiven(r) ==                     \* mutant: a lost COMPLETED event is let pass
    /\ reader[r].at = "store"
    /\ Rest(r, "loop")
    /\ \/ recorded' = recorded \cup {reader[r].window}
       \/ UNCHANGED recorded
    /\ UNCHANGED <<pages, phase, next, failed, result, toRepair, repairer, consolidation, bought>>
(* COMPLETED, with the checkpoint of the read. *)
RecordRead(r) ==
    /\ reader[r].at = "store"
    /\ \/ /\ recorded' = recorded \cup {reader[r].window}
          /\ Rest(r, "loop")
          /\ UNCHANGED failed
       \/ Move(r, "fail") /\ failed' = TRUE /\ UNCHANGED recorded
    /\ UNCHANGED <<pages, phase, next, result, toRepair, repairer, consolidation, bought>>

(* FAILED; if this event cannot be stored either, the reader's promise rejects. *)
RecordReadFailure(r) ==
    /\ reader[r].at = "fail"
    /\ \/ Rest(r, "loop")
       \/ Rest(r, "stopped")
    /\ UNCHANGED <<pages, phase, next, failed, result, toRepair, repairer, consolidation, recorded, bought>>

SettleAtFirstFailure ==                        \* mutant: Promise.all instead of allSettled
    \/ \A r \in Readers : reader[r].at = "stopped"
    \/ failed /\ \E r \in Readers : reader[r].at = "stopped"
(* allSettled: whatever one reader met, the other one is waited for. *)
ReadersSettled == \A r \in Readers : reader[r].at = "stopped"

ReadIncomplete == failed \/ next # PlanLength(pages)

SettleReading ==
    /\ phase = "read"
    /\ ReadersSettled
    /\ IF ReadIncomplete
       THEN phase' = "failed" /\ UNCHANGED <<toRepair, repairer>>
       ELSE /\ phase' = "repair"
            /\ toRepair' = {w \in Windows : result[w] \in Targets}
            /\ repairer' = [q \in Repairers |-> Unrepairing]
    /\ UNCHANGED <<pages, next, failed, reader, result, consolidation, recorded, bought>>

--------------------------------------------------------------------------------
(* The repairers reread one page at a time.                                 *)

Leave(q, at) == repairer' = [repairer EXCEPT ![q] = [Unrepairing EXCEPT !.at = at]]
Proceed(q, at) == repairer' = [repairer EXCEPT ![q].at = at]
RepairsOnly == UNCHANGED <<pages, next, failed, reader, consolidation, recorded>>

RememberNothing(q, target) == repairer[q].attempted    \* mutant: attemptedTargets stays empty
(* attemptedTargets, of one window. *)
Remember(q, target) == repairer[q].attempted \cup {target}

(* The loops: the next window if this one has no target left; a target seen  *)
(* before was not closed by its reread.                                      *)
NextTarget(q) ==
    LET w      == repairer[q].window
        target == result[w]
    IN  /\ repairer[q].at = "loop"
        /\ \/ /\ w = NoWindow
              /\ toRepair = {}
              /\ Leave(q, "stopped")
              /\ UNCHANGED toRepair
           \/ /\ w = NoWindow
              /\ \E first \in toRepair :
                   /\ \A other \in toRepair : first <= other
                   /\ toRepair' = toRepair \ {first}
                   /\ repairer' = [repairer EXCEPT ![q] = [Unrepairing EXCEPT !.window = first]]
           \/ /\ w # NoWindow
              /\ target \notin Targets
              /\ Leave(q, "loop")
              /\ UNCHANGED toRepair
           \/ /\ w # NoWindow
              /\ target \in Targets
              /\ repairer' = [repairer EXCEPT ![q].call = 1,
                                ![q].at = IF target \in repairer[q].attempted THEN "fail" ELSE "start",
                                ![q].attempted = Remember(q, target)]
              /\ UNCHANGED toRepair
        /\ UNCHANGED <<phase, result, bought>>
        /\ RepairsOnly

(* STARTED is stored and the page sent, or one of the two fails. *)
StartReread(q) ==
    /\ repairer[q].at = "start"
    /\ \/ Proceed(q, "answer")
       \/ Proceed(q, "fail")
    /\ UNCHANGED <<phase, result, toRepair, bought>>
    /\ RepairsOnly

(* One 429 is retried after a pause.  Otherwise the page read again either   *)
(* replaces the old one, with what is still missing from the window, or is    *)
(* refused: incomplete, untraceable, or with a deficit no reread can close.   *)
RereadAnswers(q) ==
    /\ repairer[q].at = "answer"
    /\ \/ /\ repairer[q].call = 1
          /\ repairer' = [repairer EXCEPT ![q].call = 2]
          /\ UNCHANGED result
       \/ Proceed(q, "fail") /\ UNCHANGED result
       \/ /\ \E left \in Limitations :
               result' = [result EXCEPT ![repairer[q].window] = left]
          /\ Proceed(q, "store")
    /\ UNCHANGED <<phase, toRepair, bought>>
    /\ RepairsOnly

RecordReread(q) ==
    /\ repairer[q].at = "store"
    /\ \/ Proceed(q, "loop")
       \/ Proceed(q, "fail")
    /\ UNCHANGED <<phase, result, toRepair, bought>>
    /\ RepairsOnly

(* FAILED, and on to the next window; an event that cannot be stored rejects  *)
(* the repairer, and Promise.all with it.                                     *)
RecordRepairFailure(q) ==
    /\ repairer[q].at = "fail"
    /\ \/ Leave(q, "loop")
       \/ Leave(q, "rejected")
    /\ UNCHANGED <<phase, result, toRepair, bought>>
    /\ RepairsOnly

(* Promise.all: everyone is done, or someone was rejected. *)
SettleRepair ==
    /\ phase = "repair"
    /\ \/ \E q \in Repairers : repairer[q].at = "rejected" /\ phase' = "failed"
       \/ /\ \A q \in Repairers : repairer[q].at = "stopped"
          /\ \/ phase' = "consolidate"
             \/ phase' = "failed"               \* remapWindowEvidence refuses a page
    /\ UNCHANGED <<pages, next, failed, reader, result, toRepair, repairer, consolidation,
                   recorded, bought>>

--------------------------------------------------------------------------------
(* The consolidation: two attempts, the second with the plan to be mended.  *)

ConsolidationOnly ==
    UNCHANGED <<pages, next, failed, reader, result, toRepair, repairer, recorded, bought>>
Consolidating(at) == phase = "consolidate" /\ consolidation.at = at
Advance(at) == consolidation' = [consolidation EXCEPT !.at = at] /\ UNCHANGED phase
GiveUp == phase' = "failed" /\ UNCHANGED consolidation

StartConsolidation ==
    /\ Consolidating("start")
    /\ Advance("call") \/ GiveUp
    /\ ConsolidationOnly

CallConsolidation ==
    /\ Consolidating("call")
    /\ Advance("answer")
    /\ ConsolidationOnly

AttemptsUnbounded == TRUE                      \* mutant: the loop has no end
AnotherAttempt == consolidation.attempt < 2
ConsolidationAnswers ==
    /\ Consolidating("answer")
    /\ \/ Advance("store")
       \/ AnotherAttempt /\ Advance("retry")
       \/ GiveUp
    /\ ConsolidationOnly

(* COMPLETED is stored before the sources are compared (consolidationSourceIssue). *)
RecordConsolidation ==
    /\ Consolidating("store")
    /\ \/ phase' = "done" /\ UNCHANGED consolidation
       \/ GiveUp
    /\ ConsolidationOnly

RetryConsolidation ==
    /\ Consolidating("retry")
    /\ \/ /\ consolidation' = [at |-> "start", attempt |-> consolidation.attempt + 1]
          /\ UNCHANGED phase
       \/ GiveUp
    /\ ConsolidationOnly

ReaderStep(r) ==
    \/ TakeWindow(r) \/ ReaderStops(r) \/ RecordStarted(r) \/ CallReader(r)
    \/ ReaderAnswers(r) \/ RecordRead(r) \/ RecordReadFailure(r)
RepairerStep(q) ==
    \/ NextTarget(q) \/ StartReread(q) \/ RereadAnswers(q)
    \/ RecordReread(q) \/ RecordRepairFailure(q)
StageStep ==
    \/ SettleReading \/ SettleRepair \/ StartConsolidation \/ CallConsolidation
    \/ ConsolidationAnswers \/ RecordConsolidation \/ RetryConsolidation
ReadingNext ==
    \/ \E r \in Readers : ReaderStep(r)
    \/ \E q \in Repairers : RepairerStep(q)
    \/ StageStep

ReadingSpec == ReadingInit /\ [][ReadingNext]_readingVars

(* Every await ends: provider calls have a deadline, writes succeed or fail. *)
ReadingFairness ==
    /\ \A r \in Readers : WF_readingVars(ReaderStep(r))
    /\ \A q \in Repairers : WF_readingVars(RepairerStep(q))
    /\ WF_readingVars(StageStep)
FairReadingSpec == ReadingSpec /\ ReadingFairness

--------------------------------------------------------------------------------
(* Properties.                                                              *)

(* What is consolidated covers the document: every page belongs to exactly   *)
(* one window of the plan, and every window has a read, whichever reader     *)
(* took it and whatever the other one met.  page-windows.ts:193-194,         *)
(* windowed-extraction.ts:140. *)
WholeDocumentConsolidated ==
    phase \in {"consolidate", "done"} =>
        \A p \in 1..pages :
            /\ \E w \in Windows : p \in WindowPages(w, pages) /\ result[w] # "none"
            /\ \A v, w \in Windows :
                 p \in WindowPages(v, pages) /\ p \in WindowPages(w, pages) => v = w

(* Nothing is repaired or consolidated out of a read the database does not    *)
(* hold: "expensive page reads survive a later failure"                       *)
(* (windowed-extraction.ts:25, 120-130). *)
ReadsAreRecordedFirst ==
    phase \in {"repair", "consolidate", "done"} => \A w \in Windows : w \in recorded

(* No reader is left behind with a paid call: the extraction neither fails    *)
(* nor goes on while one is at work (132-135). *)
ReadersSettleFirst ==
    phase \in {"repair", "consolidate", "done", "failed"} =>
        \A r \in Readers : reader[r].at = "stopped"

(* The extraction ends, and everything it started with it: a window is not    *)
(* reread for ever (153-156). *)
ReadingEnds ==
    <>(/\ phase \in {"done", "failed"}
       /\ \A r \in Readers : reader[r].at = "stopped"
       /\ \A q \in Repairers : repairer[q].at \in {"idle", "stopped", "rejected"})

(* Where each window stands in the ledger. *)
ReaderOn(w, steps) == \E r \in Readers : reader[r].window = w /\ reader[r].at \in steps
WindowEntry ==
    [w \in AllWindows |->
        IF result[w] # "none" THEN "answered"
        ELSE IF w > next THEN "free"
        ELSE IF ReaderOn(w, {"start", "call"}) THEN "reserved"
        ELSE IF ReaderOn(w, {"answer"}) THEN "bought" ELSE "refused"]
WindowLedger == INSTANCE PaidLedger WITH
    Keys <- AllWindows, After <- [w \in AllWindows |-> {}], entry <- WindowEntry, purchases <- bought
(* Each window is read once, by whichever reader takes it; a recovered one    *)
(* is not read again (60-78, 111-131). *)
WindowsBoughtOnce == WindowLedger!Spec
================================================================================
