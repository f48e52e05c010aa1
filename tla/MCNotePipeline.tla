---------------------------- MODULE MCNotePipeline ----------------------------
(* Small instances of NotePipeline: each .cfg names the executions, the      *)
(* origins of the note, the audit outcomes and the faults it admits.         *)
EXTENDS NotePipeline, TLC

CONSTANTS w1, w2, p1, p2

AllClasses == {"OK", "SUSPICIOUS", "NEEDS_CONTEXT", "INSUFFICIENT", "READ_FAILED"}

(* Executions are told apart only by their worker ids. *)
ExecutionSymmetry == Permutations(Workers) \cup Permutations(Pollers)
================================================================================
