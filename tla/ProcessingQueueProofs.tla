------------------------- MODULE ProcessingQueueProofs -------------------------
(***************************************************************************)
(* What the abstract queue guarantees, for any number of workers and jobs. *)
(* NotePipelineProofs shows that the job rows implement it.                *)
(***************************************************************************)
EXTENDS ProcessingQueue, TLAPS

(* A row that was never created has no attempt to run: what makes the       *)
(* numbered attempts of a new job fresh.                                    *)
GrantsAreOfJobs ==
    \A w \in Workers, j \in JobIds : grant[w].job = j => job[j].status # "ABSENT"

Inv == TypeOK /\ GrantsAreUnique /\ GrantsAreOfJobs

LEMMA NewTyped ==
    ASSUME NEW m \in AttemptLimits
    PROVE  /\ New(m) \in [status : Statuses, attempt : Nat, max : Nat]
           /\ New(m).status = "PENDING" /\ New(m).attempt = 0
           /\ New(m).max = m /\ m \in Nat /\ 0 < m
BY QueueAssumption DEF New, Statuses, Waiting

LEMMA NoGrantTyped ==
    NoGrant \in [job : 0..MaxJobs, attempt : Nat] /\ NoGrant.job \notin JobIds
BY QueueAssumption DEF NoGrant, JobIds

LEMMA QueueInit == Init => Inv
<1> SUFFICES ASSUME Init PROVE Inv
    OBVIOUS
<1>1. Absent \in [status : Statuses, attempt : Nat, max : Nat]
  BY DEF Absent, Statuses
<1>2. TypeOK
  BY <1>1, NewTyped, NoGrantTyped DEF Init, TypeOK
<1>3. \A w \in Workers : grant[w] = NoGrant
  BY DEF Init
<1>4. \A j \in JobIds : /\ job[j].attempt <= job[j].max
                        /\ job[j].status \in Waiting => job[j].attempt < job[j].max
  <2>1. Absent.attempt = 0 /\ Absent.max = 0 /\ Absent.status \notin Waiting
    BY DEF Absent, Waiting
  <2> QED BY <2>1, NewTyped DEF Init
<1> QED BY <1>2, <1>3, <1>4, NoGrantTyped DEF Inv, GrantsAreUnique, GrantsAreOfJobs

(* A job that keeps its attempt and its limit keeps the queue's promise when *)
(* it only leaves the waiting jobs, or waits with an attempt left.          *)
LEMMA MovedKeeps ==
    ASSUME Inv, grant' \in [Workers -> [job : 0..MaxJobs, attempt : Nat]],
           \A w \in Workers : grant'[w] \in {grant[w], NoGrant},
           job' \in [JobIds -> [status : Statuses, attempt : Nat, max : Nat]],
           \A j \in JobIds : /\ job'[j].attempt = job[j].attempt
                             /\ job'[j].max = job[j].max
                             /\ job'[j].status = "ABSENT" => job[j].status = "ABSENT"
                             /\ job'[j].status \in Waiting => job[j].attempt < job[j].max
    PROVE  Inv'
<1>1. \A v, w \in Workers : grant'[v] # NoGrant /\ grant'[v] = grant'[w] => v = w
  BY DEF Inv, GrantsAreUnique
<1>2. \A w \in Workers, j \in JobIds : grant'[w].job = j => grant'[w].attempt <= job'[j].attempt
  BY NoGrantTyped DEF Inv, GrantsAreUnique
<1>3. \A j \in JobIds : /\ job'[j].attempt <= job'[j].max
                        /\ job'[j].status \in Waiting => job'[j].attempt < job'[j].max
  BY DEF Inv, GrantsAreUnique
<1>4. GrantsAreOfJobs'
  BY NoGrantTyped DEF Inv, GrantsAreOfJobs
<1> QED BY <1>1, <1>2, <1>3, <1>4 DEF Inv, GrantsAreUnique, TypeOK

LEMMA EnqueueKeeps ==
    ASSUME Inv, NEW j \in JobIds, NEW replaced \in SUBSET JobIds, Enqueue(j, replaced)
    PROVE  Inv'
<1>1. PICK m \in AttemptLimits :
        job' = [i \in JobIds |->
                  IF i = j THEN New(m)
                  ELSE IF i \in replaced THEN [job[i] EXCEPT !.status = "CANCELLED"]
                  ELSE job[i]]
  BY DEF Enqueue
<1>2. grant' = grant /\ job[j].status = "ABSENT"
  BY DEF Enqueue
<1>3. \A i \in JobIds \ {j} :
        /\ job'[i] \in [status : Statuses, attempt : Nat, max : Nat]
        /\ job'[i].attempt = job[i].attempt /\ job'[i].max = job[i].max
        /\ job'[i].status \in {job[i].status, "CANCELLED"}
  BY <1>1 DEF Inv, TypeOK, Statuses, Settled
<1>4. job'[j] = New(m)
  BY <1>1
<1>5. TypeOK'
  BY <1>1, <1>2, <1>3, <1>4, NewTyped DEF Inv, TypeOK
<1>6. \A w \in Workers : grant[w].job # j
  BY <1>2 DEF Inv, GrantsAreOfJobs
<1>7. GrantsAreOfJobs'
  BY <1>2, <1>3, <1>6 DEF Inv, GrantsAreOfJobs
<1>8. \A i \in JobIds : /\ job'[i].attempt <= job'[i].max
                        /\ job'[i].status \in Waiting => job'[i].attempt < job'[i].max
  BY <1>3, <1>4, NewTyped DEF Inv, GrantsAreUnique, Waiting
<1>9. GrantsAreUnique'
  BY <1>2, <1>3, <1>6, <1>8 DEF Inv, GrantsAreUnique
<1> QED BY <1>5, <1>7, <1>9 DEF Inv

LEMMA StartKeeps ==
    ASSUME Inv, NEW w \in Workers, NEW j \in JobIds, Start(w, j)
    PROVE  Inv'
<1> DEFINE next == job[j].attempt + 1
<1>0. job[j].attempt \in Nat /\ job[j].max \in Nat /\ next \in Nat
  BY DEF Inv, TypeOK
<1>1. job'[j].attempt = next /\ job'[j].max = job[j].max /\ job'[j].status = "RUNNING"
  BY DEF Start, Inv, TypeOK
<1>2. \A i \in JobIds \ {j} : job'[i] = job[i]
  BY DEF Start, Inv, TypeOK
<1>3. grant'[w] = [job |-> j, attempt |-> next]
      /\ \A v \in Workers \ {w} : grant'[v] = grant[v]
  BY DEF Start, Inv, TypeOK
<1>4. TypeOK'
  <2>1. [job[j] EXCEPT !.status = "RUNNING", !.attempt = next]
          \in [status : Statuses, attempt : Nat, max : Nat]
    <3> HIDE DEF next
    <3> QED BY <1>0 DEF Inv, TypeOK, Statuses
  <2>2. [job |-> j, attempt |-> next] \in [job : 0..MaxJobs, attempt : Nat]
    BY <1>0, QueueAssumption DEF JobIds
  <2> QED BY <2>1, <2>2 DEF Start, Inv, TypeOK
<1>5. \A v \in Workers : grant[v].job = j => grant[v].attempt < next
  BY <1>0 DEF Inv, GrantsAreUnique, TypeOK
<1>6. job[j].attempt < job[j].max
  BY DEF Start
<1>7. \A v \in Workers \ {w} : grant[v] # [job |-> j, attempt |-> next]
  <2> SUFFICES ASSUME NEW v \in Workers \ {w}, grant[v] = [job |-> j, attempt |-> next]
               PROVE  FALSE
    OBVIOUS
  <2>1. grant[v].job = j /\ grant[v].attempt = next
    <3> HIDE DEF next
    <3> QED OBVIOUS
  <2> QED BY <1>0, <1>5, <2>1
<1>8. GrantsAreUnique'
  <2>1. \A u, v \in Workers : grant'[u] # NoGrant /\ grant'[u] = grant'[v] => u = v
    BY <1>3, <1>7 DEF Inv, GrantsAreUnique
  <2>2. \A v \in Workers, i \in JobIds :
          grant'[v].job = i => grant'[v].attempt <= job'[i].attempt
    BY <1>0, <1>1, <1>2, <1>3, <1>5 DEF Inv, GrantsAreUnique, TypeOK
  <2>3. \A i \in JobIds : /\ job'[i].attempt <= job'[i].max
                          /\ job'[i].status \in Waiting => job'[i].attempt < job'[i].max
    BY <1>0, <1>1, <1>2, <1>6 DEF Inv, GrantsAreUnique, Waiting
  <2> QED BY <2>1, <2>2, <2>3 DEF GrantsAreUnique
<1>9. GrantsAreOfJobs'
  BY <1>1, <1>2, <1>3 DEF Inv, GrantsAreOfJobs
<1> QED BY <1>4, <1>8, <1>9 DEF Inv

LEMMA QueueNext == Inv /\ [Next]_vars => Inv'
<1> SUFFICES ASSUME Inv, [Next]_vars PROVE Inv'
    OBVIOUS
<1>1. ASSUME NEW j \in JobIds, NEW replaced \in SUBSET JobIds, Enqueue(j, replaced)
      PROVE  Inv'
  BY <1>1, EnqueueKeeps
<1>2. ASSUME NEW withdrawn \in SUBSET JobIds, Withdraw(withdrawn) PROVE Inv'
  BY <1>2, MovedKeeps DEF Withdraw, Inv, TypeOK, GrantsAreUnique, Statuses, Waiting, Settled
<1>3. ASSUME NEW w \in Workers, NEW j \in JobIds, Start(w, j) PROVE Inv'
  BY <1>3, StartKeeps
<1>4. ASSUME NEW w \in Workers, Settle(w) PROVE Inv'
  BY <1>4, NoGrantTyped, MovedKeeps
     DEF Settle, Inv, TypeOK, GrantsAreUnique, Statuses, Waiting, Settled
<1>5. ASSUME NEW w \in Workers, Abandon(w) PROVE Inv'
  BY <1>5, NoGrantTyped, MovedKeeps DEF Abandon, Inv, TypeOK, GrantsAreUnique
<1>6. ASSUME NEW j \in JobIds, Reclaim(j) PROVE Inv'
  BY <1>6, MovedKeeps DEF Reclaim, Inv, TypeOK, GrantsAreUnique, Statuses, Waiting, Settled
<1>7. CASE UNCHANGED vars
  BY <1>7, MovedKeeps DEF vars, Inv, TypeOK, GrantsAreUnique
<1> QED BY <1>1, <1>2, <1>3, <1>4, <1>5, <1>6, <1>7 DEF Next

(* No attempt of a job is ever granted to two workers, and a waiting job can *)
(* always be started.                                                       *)
THEOREM UniqueGrants == Spec => []GrantsAreUnique
<1>1. Inv => GrantsAreUnique
  BY DEF Inv
<1> QED BY <1>1, QueueInit, QueueNext, PTL DEF Spec
================================================================================
