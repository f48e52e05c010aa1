----------------------------- MODULE AuditDecision -----------------------------
(***************************************************************************)
(* How an audit reaches its diagnosis and how much assurance it claims:     *)
(* src/src/lib/audit-harness/decision-matrix.ts, engine.ts, verification.ts *)
(* and the use processNoteAudit makes of them.  Operators only; what the    *)
(* rules compute from a document is an input here.                          *)
(*                                                                          *)
(* An audit starts from a request:                                          *)
(*   rules       the work rules it read                                     *)
(*   candidates  what it found: "rule" a supported finding of a local rule, *)
(*               "duplicate" one by the very bytes of the file, any other   *)
(*               member a hypothesis of the AI discovery                    *)
(*   limited     the extraction left a limitation                           *)
(*   gap         what is missing beyond findings: nothing, the answer to a  *)
(*               question, supporting documents, another part of the basis, *)
(*               or the whole reading                                       *)
(*   covered     the discovery declares sufficient evidence                 *)
(*   sizeable    long, valuable, recovered...: verification is called for   *)
(*   answering   the audit of a context submission                          *)
(* and meets an answer of the verifier, or a failure.                       *)
(***************************************************************************)
EXTENDS FiniteSets

CONSTANTS
    RuleSets,      \* versions of the rules of the work
    Hypotheses     \* findings of the AI discovery that are not INFO

Modes == {"off", "shadow", "enforce"}
Gaps == {"none", "question", "support", "basis", "unreadable"}
Requests ==
    [rules : RuleSets, candidates : SUBSET ({"rule", "duplicate"} \cup Hypotheses),
     limited : BOOLEAN, gap : Gaps, covered : BOOLEAN, sizeable : BOOLEAN, answering : BOOLEAN]

(* An answer: "complete" covers the attachment, "limited" does not, "invalid" *)
(* broke the trace or the support its findings need.  proves: a conflict of a *)
(* hypothesis or an amount pair, located and individually traced.  adds: a    *)
(* supported finding tied to neither, which only a complete answer can use.   *)
Answers ==
    {answer \in [quality : {"complete", "limited", "invalid"}, proves : BOOLEAN, adds : BOOLEAN] :
        answer.adds => answer.quality = "complete"}

(* The outcome of runSelectiveVerification, as processNoteAudit sees it: the  *)
(* answer, failed for an exception or a rejected response; and not run.       *)
Outcomes == [status : {"answered", "rejected", "failed", "not_run"}, answer : Answers]
Empty == [quality |-> "limited", proves |-> FALSE, adds |-> FALSE]
Failed == [status |-> "failed", answer |-> Empty]
NotRun == [status |-> "not_run", answer |-> Empty]

Complete(outcome) == outcome.status = "answered" /\ outcome.answer.quality = "complete"

--------------------------------------------------------------------------------
(* A limited reading marks what rules say of extracted values for review of   *)
(* the source; hypotheses never decide by themselves.                         *)
LocalFinding(in, limited) ==
    \/ "duplicate" \in in.candidates
    \/ "rule" \in in.candidates /\ ~limited

Decide(in, conclusive, limited, gap) ==
    CASE gap = "unreadable" -> "READ_FAILED"
      [] gap # "unreadable" /\ conclusive -> "SUSPICIOUS"
      [] gap = "question" /\ ~conclusive -> "NEEDS_CONTEXT"
      [] OTHER -> IF limited \/ gap \in {"support", "basis"} THEN "INFORMATION_INSUFFICIENT" ELSE "OK"

Base(in) == Decide(in, LocalFinding(in, in.limited), in.limited, in.gap)

(* What the discovery says of its own coverage; a limited reading denies it. *)
AiCovered(in) == in.covered /\ ~in.limited

(* selectVerification. *)
Required(in) ==
    /\ in.gap # "unreadable"
    /\ \/ in.sizeable
       \/ in.candidates \cap Hypotheses # {}
       \/ ~AiCovered(in)
       \/ in.gap = "support"
       \/ Base(in) \in {"NEEDS_CONTEXT", "INFORMATION_INSUFFICIENT"}

(* Findings of the verifier that count: all of a complete answer in enforce,  *)
(* else what is individually confirmed. *)
Confirmed(outcome, mode) ==
    /\ outcome.status \in {"answered", "rejected"}
    /\ \/ outcome.answer.proves
       \/ mode = "enforce" /\ Complete(outcome) /\ outcome.answer.adds

(* A complete verification may settle what the reading, or the set of         *)
(* supporting documents, left open. *)
Mendable(in, outcome) ==
    IF ~Complete(outcome) THEN {{}}
    ELSE SUBSET ((IF in.limited /\ in.covered /\ in.gap \notin {"support", "basis"} THEN {"reading"} ELSE {})
                 \cup (IF in.gap = "support" THEN {"support"} ELSE {}))

FailureLetPass(in, outcome, mode) ==           \* mutant: a failed verification limits nothing
    /\ mode = "enforce"
    /\ Required(in)
    /\ outcome.status = "answered"
    /\ outcome.answer.quality = "limited"
(* In enforce a verification that was called for and did not cover the        *)
(* attachment cannot end OK. *)
Unverified(in, outcome, mode) ==
    mode = "enforce" /\ Required(in) /\ ~Complete(outcome)

Classify(in, outcome, mode, mended) ==
    LET limited   == in.limited /\ "reading" \notin mended
        gap       == IF "support" \in mended THEN "none" ELSE in.gap
        evaluated == Decide(in, LocalFinding(in, limited) \/ Confirmed(outcome, mode), limited, gap)
        result    == IF (limited \/ Unverified(in, outcome, mode)) /\ evaluated = "OK"
                     THEN "INFORMATION_INSUFFICIENT" ELSE evaluated
    IN  IF in.answering /\ result = "NEEDS_CONTEXT" THEN "INFORMATION_INSUFFICIENT" ELSE result

(* resolveAuditAssurance. *)
ResolvedBand(in, class, outcome, mode) ==
    LET weak == outcome.status \in {"failed", "rejected", "not_run"} \/ ~Complete(outcome)
    IN  CASE class = "READ_FAILED" -> "LIMITED"
          [] class # "READ_FAILED" /\ Required(in) /\ mode = "off" ->
               IF AiCovered(in) THEN "MEDIUM" ELSE "LIMITED"
          [] class # "READ_FAILED" /\ Required(in) /\ mode = "shadow" -> IF weak THEN "LIMITED" ELSE "MEDIUM"
          [] class # "READ_FAILED" /\ Required(in) /\ mode = "enforce" /\ weak -> "LIMITED"
          [] OTHER ->
               IF class \in {"NEEDS_CONTEXT", "INFORMATION_INSUFFICIENT"} THEN "MEDIUM"
               ELSE IF Required(in) \/ AiCovered(in) THEN "HIGH" ELSE "MEDIUM"

Assurance(in, class, outcome, mode, mended) ==
    IF mended # {} THEN "MEDIUM"
    ELSE IF in.limited \/ (class = "INFORMATION_INSUFFICIENT" /\ in.gap = "support") THEN "LIMITED"
    ELSE ResolvedBand(in, class, outcome, mode)
================================================================================
