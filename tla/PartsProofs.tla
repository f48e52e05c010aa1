------------------------------ MODULE PartsProofs ------------------------------
(***************************************************************************)
(* Type correctness of the specification the `parts` run checks: it only     *)
(* puts models without a common variable next to each other, so a behaviour  *)
(* of it is one of each module, and what is proved of a module holds in it.  *)
(***************************************************************************)
EXTENDS MCParts, ProcessingQueueProofs, NoteAccessProofs, SenderProofs, PaidCallProofs

LEMMA PartsStart ==
    PartsInit => /\ Init /\ ReadingInit /\ VerificationInit /\ AdmissionInit
                 /\ AccessInit /\ PwaInit /\ ExtractionInit /\ PageInit
BY DEF PartsInit

(* A step is one of one part, and the others keep their state. *)
LEMMA PartsStep ==
    ASSUME [PartsNext]_allVars
    PROVE  /\ [Next]_vars /\ [ReadingNext]_readingVars /\ [VerificationNext]_verificationVars
           /\ [AdmissionNext]_admissionVars /\ [AccessNext]_accessVars /\ [PwaNext]_pwaVars
           /\ [ExtractionNext]_extractionVars /\ [PageNext]_pageVars
BY DEF PartsNext, allVars

(* Whichever model a behaviour of MCParts runs, it is a behaviour of each:   *)
(* they have no variable in common.  This says nothing of the code, whose    *)
(* parts meet in the rows of the note and of its runs. *)
LEMMA PartsAreSpecified ==
    PartsSpec => /\ Spec /\ ReadingSpec /\ VerificationSpec /\ AdmissionSpec
                 /\ AccessSpec /\ PwaSpec /\ ExtractionSpec /\ PageSpec
BY PartsStart, PartsStep, PTL
   DEF PartsSpec, Spec, ReadingSpec, VerificationSpec, AdmissionSpec, AccessSpec, PwaSpec,
       ExtractionSpec, PageSpec

(* The state of every part has its type in every behaviour of the           *)
(* composition, for any values of the constants                             *)
(* (processing-jobs.ts, windowed-extraction.ts, and the others above).       *)
THEOREM PartsTyped == PartsSpec => []PartsTypeOK
<1>1. Spec => []TypeOK
  <2>1. Inv => TypeOK
    BY DEF Inv
  <2> QED BY <2>1, QueueInit, QueueNext, PTL DEF Spec
<1> QED
  BY <1>1, PartsAreSpecified, ReadingTyped, VerificationTyped, AdmissionTyped, AccessTyped, PwaTyped,
     ExtractionTyped, PageTyped, PTL
     DEF PartsTypeOK
================================================================================
