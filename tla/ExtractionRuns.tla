----------------------------- MODULE ExtractionRuns -----------------------------
(***************************************************************************)
(* What is paid for the readings of one original: processNoteExtraction of  *)
(* src/src/server/notes/process-note-extraction.ts, with its checkpoint     *)
(* (extraction-checkpoint.ts) and the two calls of extractInvoice in        *)
(* src/src/server/integrations/openrouter/client.ts.                        *)
(*                                                                          *)
(* A reading is paid, kept on the ai_runs row of its execution, and then    *)
(* stored on the note.  When the storing fails, the next execution goes on  *)
(* from what was kept.  Any write may fail; executions overlap when a       *)
(* lease is lost under a live one.  The long documents' reader is           *)
(* WindowedExtraction.                                                      *)
(***************************************************************************)
EXTENDS Naturals

CONSTANTS
    Executions,    \* calls of processNoteExtraction alive at once
    Prints,        \* what extractionCheckpointFingerprint may give
    ModelCounts,   \* how many models may be tried: one, or two with a fallback
    MaxRuns,       \* bound: ai_runs rows
    MaxOriginal    \* bound: versions of the note

ASSUME ExtractionAssumption ==
    /\ Prints # {}
    /\ ModelCounts \subseteq {1, 2}
    /\ MaxRuns \in Nat
    /\ MaxOriginal \in Nat

VARIABLES
    print,         \* the fingerprint of the source under the deployed configuration
    original,      \* the note: may it be claimed, is it claimed, or read
    holder,        \* the execution that holds the lease of the note's job, if any
    run,           \* the ai_runs rows of kind EXTRACTION, in the order of createdAt
    runs,          \* how many there are
    execution,     \* what each execution has in memory
    spent,         \* history: readings paid for
    allowed        \* history: readings there is a reason for, see ReadingsAreExcused

extractionVars == <<print, original, holder, run, runs, execution, spent, allowed>>

RunIds == 1..MaxRuns
NoRun == 0
Runs == [status : {"RUNNING", "SUCCEEDED", "FAILED"}, code : {"none", "persistence", "other"},
         print : Prints, checkpoint : BOOLEAN]
(* `result`: the reading is in memory; `kept`: so is its checkpoint, which    *)
(* the catch writes too.  `readable`: readableCheckpoint of extractInvoice.   *)
ExecutionSteps == {"idle", "look", "create", "read", "answer", "pause", "keep", "store",
                   "note_failure", "run_failure"}
ExecutionRows ==
    [at : ExecutionSteps, version : Nat, print : Prints, run : {NoRun} \cup RunIds,
     result : BOOLEAN, kept : BOOLEAN, code : {"none", "persistence", "other"},
     models : {1, 2}, calls : 0..2, readable : BOOLEAN]

ExtractionTypeOK ==
    /\ print \in Prints
    /\ original \in [at : {"waiting", "claimed", "read"}, version : Nat]
    /\ holder \subseteq Executions
    /\ runs \in 0..MaxRuns
    /\ run \in [1..runs -> Runs]
    /\ execution \in [Executions -> ExecutionRows]
    /\ {spent, allowed} \subseteq Nat

NotStarted ==
    [at |-> "idle", version |-> 0, print |-> CHOOSE p \in Prints : TRUE, run |-> NoRun,
     result |-> FALSE, kept |-> FALSE, code |-> "none", models |-> 1, calls |-> 0, readable |-> FALSE]

ExtractionInit ==
    /\ print = CHOOSE p \in Prints : TRUE
    /\ original = [at |-> "waiting", version |-> 1]
    /\ holder = {}
    /\ runs = 0
    /\ run = [i \in {} |-> NoRun]
    /\ execution = [e \in Executions |-> NotStarted]
    /\ spent = 0
    /\ allowed = 1

--------------------------------------------------------------------------------
Continues(e, at) == execution' = [execution EXCEPT ![e].at = at]
(* The catch. *)
Fails(e, code) == execution' = [execution EXCEPT ![e].at = "note_failure", ![e].code = code]
Leaves(e) == execution' = [execution EXCEPT ![e] = NotStarted]
(* It returns, and its job with it. *)
Ends(e) == Leaves(e) /\ holder' = holder \ {e}
WritesNote(at) ==
    /\ original.version < MaxOriginal
    /\ original' = [at |-> at, version |-> original.version + 1]
StillClaimed(e) == original = [at |-> "claimed", version |-> execution[e].version]
OnlyExecution == UNCHANGED <<print, original, holder, run, runs, spent, allowed>>

(* claimNote; the configuration of the process counts from here on. *)
ClaimOriginal(e) ==
    /\ execution[e].at = "idle"
    /\ holder = {}
    /\ holder' = {e}
    /\ original.at = "waiting"
    /\ WritesNote("claimed")
    /\ \E models \in ModelCounts :
         execution' = [execution EXCEPT ![e] = [NotStarted EXCEPT !.at = "look", !.models = models,
                                    !.version = original.version + 1, !.print = print]]
    /\ UNCHANGED <<print, run, runs, spent, allowed>>

LatestIgnored(e) == FALSE                      \* mutant: what was kept is not looked for
(* Only the latest run counts, and only one whose reading was kept and could  *)
(* not be stored. *)
Reusable(e) ==
    /\ runs > 0
    /\ run[runs].status = "FAILED"
    /\ run[runs].code = "persistence"
    /\ run[runs].print = execution[e].print
    /\ run[runs].checkpoint

LookForCheckpoint(e) ==
    /\ execution[e].at = "look"
    /\ \/ execution' = [execution EXCEPT ![e].at = "create", ![e].result = Reusable(e)]
       \/ Fails(e, "persistence")
    /\ OnlyExecution

CreateRun(e) ==
    /\ execution[e].at = "create"
    /\ \/ /\ runs < MaxRuns
          /\ runs' = runs + 1
          /\ run' = [i \in 1..runs + 1 |->
                        IF i <= runs THEN run[i]
                        ELSE [status |-> "RUNNING", code |-> "none", print |-> execution[e].print,
                              checkpoint |-> FALSE]]
          /\ execution' = [execution EXCEPT ![e].run = runs + 1,
                                ![e].at = IF execution[e].result THEN "keep" ELSE "read"]
       \/ Fails(e, "persistence") /\ UNCHANGED <<run, runs>>
    /\ UNCHANGED <<print, holder, original, spent, allowed>>

--------------------------------------------------------------------------------
(* extractInvoice: one call of the primary model, one of the fallback. *)

(* The original is signed and fetched (or it is not: failure stage SOURCE).  *)
ReadOriginal(e) ==
    /\ execution[e].at = "read"
    /\ \/ /\ execution' = [execution EXCEPT ![e].at = "answer", ![e].calls = 1]
          /\ spent' = spent + 1
       \/ Fails(e, "other") /\ UNCHANGED spent
    /\ UNCHANGED <<print, holder, original, run, runs, allowed>>

Given(e) ==
    /\ execution' = [execution EXCEPT ![e].at = "keep", ![e].result = TRUE, ![e].calls = 0,
                                      ![e].models = 1, ![e].readable = FALSE]
    /\ UNCHANGED allowed
Refused(e) == Fails(e, "other") /\ allowed' = allowed + 1
DeadlineFirst(e) == Refused(e)                 \* mutant: the total deadline throws at once
(* preservedResult: the fields of a readable answer are kept, with coverage   *)
(* unknown, whatever came after it. *)
Preserved(e) == IF execution[e].readable THEN Given(e) ELSE Refused(e)

(* An answer that was read and validated but is not complete is thrown while  *)
(* another model can still be tried.  What the parser's own text gives when   *)
(* the last answer is broken (createOcrFallbackExtraction) is a reading too.  *)
ReadAnswers(e) ==
    /\ execution[e].at = "answer"
    /\ \/ Given(e)
       \/ /\ execution[e].calls < execution[e].models
          /\ execution' = [execution EXCEPT ![e].at = "pause", ![e].readable = TRUE]
          /\ UNCHANGED allowed
       \/ /\ execution[e].calls < execution[e].models    \* a timeout, a broken answer, a rejected model
          /\ Continues(e, "pause")
          /\ UNCHANGED allowed
       \/ Preserved(e)                                   \* no other model may be tried
       \/ /\ execution[e].calls < execution[e].models    \* read, with no time left for the other model
          /\ Given(e)
    /\ UNCHANGED <<print, holder, original, run, runs, spent>>

(* After the pause the deadline is looked at again. *)
CallFallback(e) ==
    /\ execution[e].at = "pause"
    /\ \/ /\ execution' = [execution EXCEPT ![e].at = "answer", ![e].calls = 2]
          /\ UNCHANGED allowed
       \/ Preserved(e)
    /\ UNCHANGED <<print, holder, original, run, runs, spent>>

--------------------------------------------------------------------------------
(* The reading is kept outside of the transaction that stores it. *)
KeepCheckpoint(e) ==
    /\ execution[e].at = "keep"
    /\ \/ /\ run' = [run EXCEPT ![execution[e].run].checkpoint = TRUE]
          /\ execution' = [execution EXCEPT ![e].at = "store", ![e].kept = TRUE]
       \/ /\ execution' = [execution EXCEPT ![e].at = "note_failure", ![e].code = "persistence",
                                            ![e].kept = TRUE]
          /\ UNCHANGED run
    /\ UNCHANGED <<print, holder, original, runs, spent, allowed>>

(* persistExtraction: the note and the run together, or neither. *)
StoreReading(e) ==
    /\ execution[e].at = "store"
    /\ \/ /\ StillClaimed(e)
          /\ WritesNote("read")
          /\ run' = [run EXCEPT ![execution[e].run].status = "SUCCEEDED",
                                ![execution[e].run].checkpoint = FALSE]
          /\ Ends(e)
       \/ /\ ~StillClaimed(e)                  \* EXTRACTION_CONFLICT: the note is left alone
          /\ execution' = [execution EXCEPT ![e].at = "run_failure", ![e].code = "other"]
          /\ UNCHANGED <<original, holder, run>>
       \/ /\ Fails(e, "persistence")           \* rolled back
          /\ UNCHANGED <<original, holder, run>>
    /\ UNCHANGED <<print, runs, spent, allowed>>

(* recordExtractionFailure; when it fails too the run is left as it is. *)
NoteFailure(e) ==
    /\ execution[e].at = "note_failure"
    /\ \/ /\ IF StillClaimed(e) THEN WritesNote("waiting") ELSE UNCHANGED original
          /\ IF execution[e].run = NoRun THEN Ends(e)
             ELSE Continues(e, "run_failure") /\ UNCHANGED holder
          /\ UNCHANGED allowed
       \/ /\ Ends(e)
          /\ allowed' = allowed + 1
          /\ UNCHANGED original
    /\ UNCHANGED <<print, run, runs, spent>>

(* The failure keeps the checkpoint it replaces. *)
CheckpointOfFailure(e) == execution[e].kept
RunFailure(e) ==
    /\ execution[e].at = "run_failure"
    /\ \/ /\ run' = [run EXCEPT ![execution[e].run] =
                        [@ EXCEPT !.status = "FAILED", !.code = execution[e].code,
                                  !.checkpoint = CheckpointOfFailure(e)]]
          /\ UNCHANGED allowed
       \/ /\ allowed' = allowed + 1
          /\ UNCHANGED run
    /\ Ends(e)
    /\ UNCHANGED <<print, original, runs, spent>>

--------------------------------------------------------------------------------
(* Around it. *)

ExecutionDies(e) ==
    /\ execution[e].at # "idle"
    /\ Leaves(e)
    /\ OnlyExecution

(* recoverExpiredProcessingJobLeases: the lease runs out, whether its holder  *)
(* is dead or slow; the run it left behind is failed with it. *)
LeaseIsLost ==
    /\ holder # {}
    /\ holder' = {}
    /\ WritesNote(IF original.at = "read" THEN "read" ELSE "waiting")
    /\ run' = [i \in 1..runs |-> IF run[i].status = "RUNNING"
                                 THEN [run[i] EXCEPT !.status = "FAILED", !.code = "other"] ELSE run[i]]
    /\ allowed' = allowed + 2
    /\ UNCHANGED <<print, runs, execution, spent>>

(* scheduleNoteReprocess, of a note that was read. *)
ReadAgain ==
    /\ original.at = "read"
    /\ holder = {}
    /\ WritesNote("waiting")
    /\ allowed' = allowed + 1
    /\ UNCHANGED <<print, holder, run, runs, execution, spent>>

(* A deploy changes the models or the policy. *)
Reconfigure ==
    /\ print' \in Prints \ {print}
    /\ allowed < MaxOriginal
    /\ allowed' = allowed + 1
    /\ UNCHANGED <<original, holder, run, runs, execution, spent>>

ExecutionStep(e) ==
    \/ ClaimOriginal(e) \/ LookForCheckpoint(e) \/ CreateRun(e)
    \/ ReadOriginal(e) \/ ReadAnswers(e) \/ CallFallback(e)
    \/ KeepCheckpoint(e) \/ StoreReading(e) \/ NoteFailure(e) \/ RunFailure(e) \/ ExecutionDies(e)
ExtractionNext ==
    \/ LeaseIsLost \/ ReadAgain \/ Reconfigure
    \/ \E e \in Executions : ExecutionStep(e)
ExtractionSpec == ExtractionInit /\ [][ExtractionNext]_extractionVars

--------------------------------------------------------------------------------
(* Properties.                                                              *)

(* Nobody pays for a second reading because the first one could not be        *)
(* stored: past one reading for each request there is one for each reading    *)
(* that failed, failure that could not be recorded or configuration that      *)
(* changed, and two for a lost lease, that of its late holder and that of      *)
(* whoever the late run hides the checkpoint from.  "Persist the expensive     *)
(* read outside the materialization transaction so a rollback does not erase  *)
(* the response and force another paid extraction"                            *)
(* (process-note-extraction.ts:585-586). *)
ReadingsAreExcused == spent <= allowed

(* A reading that was validated is not lost to what comes after it: neither   *)
(* the fallback's failure nor the total deadline turns it into a failed       *)
(* extraction.  "A later provider/parser failure cannot retroactively make a  *)
(* readable first result corrupt" (client.ts:933-934). *)
ReadableReadingKept ==
    \A e \in Executions :
        execution[e].at \in {"note_failure", "run_failure"} /\ execution[e].readable
            => execution[e].kept
================================================================================
