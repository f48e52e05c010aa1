------------------------------- MODULE PaidLedger -------------------------------
(***************************************************************************)
(* What the parts that buy model calls promise, with no mention of how:     *)
(* every call has an entry of its own, the entry is written before the      *)
(* money is spent, a call is bought at most once and what was answered or   *)
(* refused is final.  An entry may be given up while whoever reserved it is *)
(* still at work: the call is then still bought at most once, and all that  *)
(* can come of it is a late answer.  An entry may ask that another one be   *)
(* refused or given up first (the recovery of a verification); an entry     *)
(* that crashed half way stays where it was until it is given up.           *)
(*                                                                          *)
(* src/src/server/notes/run-selective-verification.ts: "can never buy a     *)
(* second verification call" (84-86).  src/src/server/integrations/         *)
(* openrouter/windowed-extraction.ts: one read of each window (111-131).    *)
(***************************************************************************)
EXTENDS Naturals

CONSTANTS
    Keys,       \* the calls that may be bought
    After       \* After[k]: the keys that must have come to nothing before k is reserved

VARIABLES
    entry,      \* where each call stands
    purchases   \* how many times the provider was called for it

ledger == <<entry, purchases>>

Entries == {"free", "reserved", "bought", "answered", "refused", "abandoned", "late"}
LedgerTypeOK ==
    /\ entry \in [Keys -> Entries]
    /\ purchases \in [Keys -> {0, 1}]

(* An answer may have been saved by an earlier run. *)
Init ==
    /\ entry \in [Keys -> {"free", "answered"}]
    /\ purchases = [k \in Keys |-> 0]

Reserve(k) ==
    /\ entry[k] = "free"
    /\ \A other \in After[k] : entry[other] \in {"refused", "abandoned", "late"}
    /\ entry' = [entry EXCEPT ![k] = "reserved"]
    /\ UNCHANGED purchases

(* Whoever reserved it may not know yet that it was given up. *)
Buy(k) ==
    /\ purchases[k] = 0
    /\ \/ entry[k] = "reserved" /\ entry' = [entry EXCEPT ![k] = "bought"]
       \/ entry[k] = "abandoned" /\ UNCHANGED entry
    /\ purchases' = [purchases EXCEPT ![k] = 1]

Answer(k) ==
    /\ purchases[k] = 1
    /\ \/ entry[k] = "bought" /\ entry' = [entry EXCEPT ![k] = "answered"]
       \/ entry[k] = "abandoned" /\ entry' = [entry EXCEPT ![k] = "late"]
    /\ UNCHANGED purchases

(* Refused before it was paid, or by what came back. *)
Refuse(k) ==
    /\ entry[k] \in {"reserved", "bought"}
    /\ entry' = [entry EXCEPT ![k] = "refused"]
    /\ UNCHANGED purchases

Abandon(k) ==
    /\ entry[k] \in {"reserved", "bought"}
    /\ entry' = [entry EXCEPT ![k] = "abandoned"]
    /\ UNCHANGED purchases

Moved == {k \in Keys : entry'[k] # entry[k] \/ purchases'[k] # purchases[k]}
Next == \E k \in Moved : Reserve(k) \/ Buy(k) \/ Answer(k) \/ Refuse(k) \/ Abandon(k)

Spec == Init /\ [][Next]_ledger
================================================================================
