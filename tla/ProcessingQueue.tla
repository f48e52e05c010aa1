---------------------------- MODULE ProcessingQueue ----------------------------
(***************************************************************************)
(* What the durable queue `processing_jobs` promises to the rest of the    *)
(* system, without notes, leases or worker names:                          *)
(*                                                                         *)
(*   - a job is started at most `max` times, and a job waiting to be       *)
(*     started always has an attempt left;                                 *)
(*   - starting a job grants the worker one numbered attempt, and only the *)
(*     worker holding the job's current attempt may settle it;             *)
(*   - a settled job (SUCCEEDED, CANCELLED) never moves again.             *)
(*                                                                         *)
(* NotePipeline implements this module: the attempt number is the fencing  *)
(* token that the code realises with lockedBy and RUNNING.                 *)
(***************************************************************************)
EXTENDS Naturals

CONSTANTS
    Workers,        \* executions of processProcessingJob that may be alive at once
    MaxJobs,        \* how many jobs the note may ever be given
    AttemptLimits   \* the values maxAttempts is created with

ASSUME QueueAssumption ==
    /\ MaxJobs \in Nat \ {0}
    /\ AttemptLimits \subseteq Nat \ {0}

VARIABLES
    job,            \* [1..MaxJobs -> [status, attempt, max]]
    grant           \* [Workers -> [job, attempt]]: the attempt the worker is running

vars == <<job, grant>>

JobIds    == 1..MaxJobs
Waiting   == {"PENDING", "FAILED"}
Settled   == {"SUCCEEDED", "CANCELLED"}
Statuses  == {"ABSENT", "RUNNING"} \cup Waiting \cup Settled
NoGrant   == [job |-> 0, attempt |-> 0]

TypeOK ==
    /\ job \in [JobIds -> [status : Statuses, attempt : Nat, max : Nat]]
    /\ grant \in [Workers -> [job : 0..MaxJobs, attempt : Nat]]

Absent  == [status |-> "ABSENT", attempt |-> 0, max |-> 0]
New(m)  == [status |-> "PENDING", attempt |-> 0, max |-> m]

(* Empty, or holding the job that was stored together with the note. *)
Init ==
    /\ \/ job = [j \in JobIds |-> Absent]
       \/ \E m \in AttemptLimits :
            job = [j \in JobIds |-> IF j = 1 THEN New(m) ELSE Absent]
    /\ grant = [w \in Workers |-> NoGrant]

--------------------------------------------------------------------------------
EnqueueAgain(j, replaced) ==    \* mutant: the row of a settled job is used again
    /\ job[j].status \in Settled \cup {"ABSENT"}
    /\ \E m \in AttemptLimits : job' = [job EXCEPT ![j] = New(m)]
    /\ UNCHANGED grant

(* A new job enters the queue; the waiting jobs it replaces are withdrawn. *)
Enqueue(j, replaced) ==
    /\ job[j].status = "ABSENT"
    /\ \A i \in replaced : job[i].status \in Waiting
    /\ \E m \in AttemptLimits :
         job' = [i \in JobIds |->
                   IF i = j THEN New(m)
                   ELSE IF i \in replaced THEN [job[i] EXCEPT !.status = "CANCELLED"]
                   ELSE job[i]]
    /\ UNCHANGED grant

(* Jobs that have not settled are withdrawn, running ones included. *)
Withdraw(withdrawn) ==
    /\ \A i \in withdrawn : job[i].status \in Waiting \cup {"RUNNING"}
    /\ job' = [i \in JobIds |->
                 IF i \in withdrawn THEN [job[i] EXCEPT !.status = "CANCELLED"]
                 ELSE job[i]]
    /\ UNCHANGED grant

(* A worker starts the next attempt of a waiting job. *)
Start(w, j) ==
    /\ grant[w] = NoGrant
    /\ job[j].status \in Waiting
    /\ job[j].attempt < job[j].max
    /\ job' = [job EXCEPT ![j].status = "RUNNING", ![j].attempt = @ + 1]
    /\ grant' = [grant EXCEPT ![w] = [job |-> j, attempt |-> job[j].attempt + 1]]

(* The holder of the job's current attempt settles it or returns it for a retry. *)
Settle(w) ==
    LET j == grant[w].job
    IN  /\ j \in JobIds
        /\ job[j].status = "RUNNING"
        /\ job[j].attempt = grant[w].attempt
        /\ \E s \in Settled \cup {"FAILED"} :
             /\ s = "FAILED" => job[j].attempt < job[j].max
             /\ job' = [job EXCEPT ![j].status = s]
        /\ grant' = [grant EXCEPT ![w] = NoGrant]

(* A worker dies, or finds that its attempt is no longer the job's. *)
Abandon(w) ==
    /\ grant[w] # NoGrant
    /\ grant' = [grant EXCEPT ![w] = NoGrant]
    /\ UNCHANGED job

(* The attempt's lease ran out: the job is retried, given up, or found done. *)
Reclaim(j) ==
    /\ job[j].status = "RUNNING"
    /\ \E s \in Settled \cup {"FAILED"} :
         /\ s = "FAILED" => job[j].attempt < job[j].max
         /\ job' = [job EXCEPT ![j].status = s]
    /\ UNCHANGED grant

Next ==
    \/ \E j \in JobIds : \E replaced \in SUBSET JobIds : Enqueue(j, replaced)
    \/ \E withdrawn \in SUBSET JobIds : Withdraw(withdrawn)
    \/ \E w \in Workers : \E j \in JobIds : Start(w, j)
    \/ \E w \in Workers : Settle(w) \/ Abandon(w)
    \/ \E j \in JobIds : Reclaim(j)

Spec == Init /\ [][Next]_vars

--------------------------------------------------------------------------------
(* Every attempt is granted once: no two workers run the same attempt of a *)
(* job, no worker runs an attempt the job has not reached, and a job that   *)
(* is waiting can still be started (processing-jobs.ts:234-261).            *)
GrantsAreUnique ==
    /\ \A v, w \in Workers : grant[v] # NoGrant /\ grant[v] = grant[w] => v = w
    /\ \A w \in Workers, j \in JobIds :
         grant[w].job = j => grant[w].attempt <= job[j].attempt
    /\ \A j \in JobIds : /\ job[j].attempt <= job[j].max
                         /\ job[j].status \in Waiting => job[j].attempt < job[j].max
================================================================================
