-------------------------------- MODULE MCParts --------------------------------
(***************************************************************************)
(* Instances of the parts around the pipeline: the abstract queue, the       *)
(* windowed reading, the paid readings of an original, the selective         *)
(* verification, the admission of uploads, the access to a note, the public  *)
(* upload page and the update of the pages.  The models share no variable:   *)
(* where the code has two parts write one row (the note, the runs), each     *)
(* model has the writes of the others as actions of its own.  A behaviour    *)
(* is therefore one of one of them, chosen at the start: the state graphs    *)
(* add up instead of multiplying.                                            *)
(***************************************************************************)
EXTENDS ProcessingQueue, WindowedExtraction, SelectiveVerification, UploadAdmission,
        NoteAccess, PwaUpdate, ExtractionRuns, UploadPage

CONSTANTS
    Parts,         \* the parts to run
    v1, v2, h1     \* versions of the rules, and a hypothesis

VARIABLE part
allVars == <<part, vars, pwaVars, readingVars, extractionVars, verificationVars, admissionVars,
             accessVars, pageVars>>

MCRuleSets == {v1, v2}
From(rules, candidates, limited, gap, covered, answering) ==
    [rules |-> rules, candidates |-> candidates, limited |-> limited, gap |-> gap,
     covered |-> covered, sizeable |-> FALSE, answering |-> answering]
(* A hypothesis on a whole reading; and, under other rules, one of them broken *)
(* on a limited reading.                                                      *)
MCStarts ==
    {From(v1, {h1}, FALSE, "none", TRUE, FALSE),
     From(v2, {"rule", h1}, TRUE, "none", TRUE, FALSE)}

(* A part that does not run rests in one of its initial states. *)
Resting(p) == part # p
PartsInit ==
    /\ part \in Parts
    /\ ReadingInit
    /\ Resting("reading") => recorded = {} /\ \A n \in PageCounts : pages <= n
    /\ VerificationInit
    /\ mode # "shadow"     \* a bound: shadow calls as enforce does, and decides less
    /\ Resting("verification") => mode = "off"
    /\ AdmissionInit
    /\ Resting("admission") => \A u, v \in Uploads : WorkOf(u) = WorkOf(v) /\ WorkOf(u) = CHOOSE w \in Works : TRUE
    /\ AccessInit
    /\ Init
    /\ Resting("queue") => job = [j \in JobIds |-> Absent]
    /\ PwaInit
    /\ Resting("pages") => registration.active = 1
    /\ ExtractionInit
    /\ PageInit

PartsNext ==
    \/ /\ part = "queue" /\ Next
       /\ UNCHANGED <<part, extractionVars, pageVars, readingVars, verificationVars, admissionVars, accessVars, pwaVars>>
    \/ /\ part = "reading" /\ ReadingNext
       /\ UNCHANGED <<part, extractionVars, pageVars, vars, verificationVars, admissionVars, accessVars, pwaVars>>
    \/ /\ part = "verification" /\ VerificationNext
       /\ UNCHANGED <<part, extractionVars, pageVars, vars, readingVars, admissionVars, accessVars, pwaVars>>
    \/ /\ part = "admission" /\ AdmissionNext
       /\ UNCHANGED <<part, extractionVars, pageVars, vars, readingVars, verificationVars, accessVars, pwaVars>>
    \/ /\ part = "access" /\ AccessNext
       /\ UNCHANGED <<part, extractionVars, pageVars, vars, readingVars, verificationVars, admissionVars, pwaVars>>
    \/ /\ part = "pages" /\ PwaNext
       /\ UNCHANGED <<part, extractionVars, pageVars, vars, readingVars, verificationVars, admissionVars, accessVars>>
    \/ /\ part = "original" /\ ExtractionNext
       /\ UNCHANGED <<part, pageVars, vars, readingVars, verificationVars, admissionVars, accessVars, pwaVars>>
    \/ /\ part = "upload" /\ PageNext
       /\ UNCHANGED <<part, extractionVars, vars, readingVars, verificationVars, admissionVars, accessVars, pwaVars>>

PartsSpec == PartsInit /\ [][PartsNext]_allVars

(* ReadingFairness, where the reading runs. *)
FairPartsSpec ==
    /\ PartsSpec
    /\ \A r \in Readers : WF_readingVars(part = "reading" /\ ReaderStep(r))
    /\ \A q \in Repairers : WF_readingVars(part = "reading" /\ RepairerStep(q))
    /\ WF_readingVars(part = "reading" /\ StageStep)

--------------------------------------------------------------------------------
(* The state of every part has its type.  windowed-extraction.ts,             *)
(* process-note-extraction.ts, run-selective-verification.ts,                 *)
(* public-upload-rate-limit.ts, status/route.ts, processing-jobs.ts,           *)
(* public-upload-flow.tsx, pwa-lifecycle.tsx. *)
PartsTypeOK ==
    /\ TypeOK /\ ReadingTypeOK /\ VerificationTypeOK
    /\ AdmissionTypeOK /\ AccessTypeOK /\ PwaTypeOK /\ ExtractionTypeOK /\ PageTypeOK

(* A reading that starts ends, see ReadingEnds (windowed-extraction.ts:153-156). *)
EveryReadingEnds == part = "reading" => ReadingEnds
================================================================================
