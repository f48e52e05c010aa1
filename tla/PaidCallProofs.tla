----------------------------- MODULE PaidCallProofs -----------------------------
(***************************************************************************)
(* Proofs about the parts that buy model calls, for any number of readers,   *)
(* windows, audits and executions: the windowed reading (WindowedExtraction) *)
(* and the selective verification (SelectiveVerification) implement          *)
(* PaidLedger, and what they and the readings of an original                 *)
(* (ExtractionRuns) do with what was paid keeps their promises.              *)
(*                                                                          *)
(* The reading: while no reader failed, each window taken off the cursor is  *)
(* recorded or in the hands of one reader (TakenInv), and a reader's place   *)
(* says what was bought of its window (HandsInv).                            *)
(*                                                                          *)
(* The verification: an audit that calls for a row created it, for the       *)
(* request it stores, and either the row still runs or the recovery of the   *)
(* lease closed it, and then the audit is of a version that passed           *)
(* (OwnersInv).  A recovery exists only over a primary row that was lost     *)
(* (RecoveryInv).  A row that keeps an answer never changes, so what backed  *)
(* a diagnosis goes on backing it; a diagnosis that rests on nothing kept is *)
(* of a version that passed and is never stored (DiagnosesInv).              *)
(*                                                                          *)
(* The readings of an original: at most one execution holds the note        *)
(* (HolderInv) and what it remembers is what the runs say (MemoryInv,        *)
(* RunsInv).  What was spent is at most what was allowed counting ahead the  *)
(* readings that executions on their way may still pay for, or hide from     *)
(* whoever comes next (DebtInv).                                             *)
(***************************************************************************)
EXTENDS WindowedExtraction, SelectiveVerification, ExtractionRuns, Integers, FiniteSetTheorems, TLAPS

--------------------------------------------------------------------------------
(* The windowed reading. *)

AtWork == {"start", "call", "answer", "store", "fail"}
PlanInv == Plannable(pages) /\ next <= PlanLength(pages)

(* Readers at work are on windows of their own. *)
ReadersInv ==
    /\ \A r \in Readers :
         /\ reader[r].at \in AtWork => reader[r].window \in 1..next
         /\ reader[r].at \in {"loop", "stopped"} => reader[r].window = NoWindow
         /\ reader[r].at = "fail" => failed
    /\ \A r, s \in Readers :
         reader[r].at \in AtWork /\ reader[s].at \in AtWork /\ reader[r].window = reader[s].window => r = s
HandsInv ==
    \A r \in Readers :
      LET w == reader[r].window IN
      /\ reader[r].at \in {"start", "call"} => result[w] = "none" /\ bought[w] = 0
      /\ reader[r].at = "answer" => result[w] = "none" /\ bought[w] = 1
      /\ reader[r].at = "store" => result[w] # "none"
TakenInv ==
    \A w \in AllWindows :
      /\ w \in recorded => result[w] # "none"
      /\ w <= next /\ ~failed => w \in recorded \/ ReaderOn(w, {"start", "call", "answer", "store"})
      /\ w > next => bought[w] = 0 /\ (result[w] # "none" => w \in recorded)
PhaseInv ==
    /\ phase # "read" => \A r \in Readers : reader[r].at = "stopped"
    /\ phase \in {"repair", "consolidate", "done"} => ~failed /\ next = PlanLength(pages)
    /\ consolidation.at = "retry" => consolidation.attempt < 2
RepairInv ==
    /\ \A w \in toRepair : result[w] # "none"
    /\ \A q \in Repairers : repairer[q].window # NoWindow => result[repairer[q].window] # "none"
ReadingInv ==
    /\ ReadingTypeOK /\ PlanInv /\ ReadersInv /\ HandsInv /\ TakenInv /\ PhaseInv /\ RepairInv


LEMMA TimesMonotone ==
    ASSUME NEW a \in Int, NEW b \in Int, NEW size \in Nat, a <= b
    PROVE  a * size <= b * size
  BY SMT

LEMMA DivBounds ==
    ASSUME NEW a \in Nat, NEW size \in Nat, size > 0
    PROVE  a \div size \in Nat /\ (a \div size) * size <= a /\ a < (a \div size + 1) * size
  BY SMT

(* The windows of the plan: as many as cover the pages. *)
LEMMA CeilDivBounds ==
    ASSUME NEW count \in Nat \ {0}, NEW size \in Nat \ {0}
    PROVE  /\ CeilDiv(count, size) \in Nat \ {0}
           /\ (CeilDiv(count, size) - 1) * size < count /\ count <= CeilDiv(count, size) * size
<1> DEFINE q == CeilDiv(count, size)
<1>1. q \in Nat /\ q * size <= count + size - 1 /\ count + size - 1 < (q + 1) * size
  BY DivBounds, count + size - 1 \in Nat, size > 0 DEF CeilDiv
<1> HIDE DEF q
<1>2. (q + 1) * size = q * size + size /\ (q - 1) * size = q * size - size /\ q * size \in Int
  BY <1>1, SMT
<1>3. (q - 1) * size < count /\ count <= q * size
  BY <1>1, <1>2
<1>4. q # 0
  BY <1>2, <1>3
<1>5. q \in Nat \ {0}
  BY <1>1, <1>4
<1> QED BY <1>3, <1>5 DEF q

(* Each page is in the window its number gives, and in no other. *)
LEMMA PageHasOneWindow ==
    ASSUME NEW count \in Nat \ {0}, NEW page \in 1..count
    PROVE  /\ \E w \in 1..PlanLength(count) : page \in WindowPages(w, count)
           /\ \A v, w \in Nat : page \in WindowPages(v, count) /\ page \in WindowPages(w, count) => v = w
<1>1. WindowSize \in Nat \ {0}
  BY WindowAssumption
<1>2. \A v, w \in Nat : page \in WindowPages(v, count) /\ page \in WindowPages(w, count) => v >= w
  <2> SUFFICES ASSUME NEW v \in Nat, NEW w \in Nat, v < w, page <= v * WindowSize,
                      (w - 1) * WindowSize < page
               PROVE  FALSE
    BY DEF WindowPages
  <2>1. v * WindowSize <= (w - 1) * WindowSize
    BY <1>1, TimesMonotone, v \in Int, w - 1 \in Int, v <= w - 1
  <2>2. v * WindowSize \in Int /\ (w - 1) * WindowSize \in Int
    BY <1>1
  <2> QED BY <2>1, <2>2
<1>3. \A v, w \in Nat : page \in WindowPages(v, count) /\ page \in WindowPages(w, count) => v = w
  BY <1>2
<1>4. \E w \in 1..PlanLength(count) : page \in WindowPages(w, count)
  <2> DEFINE w == CeilDiv(page, WindowSize)
             last == CeilDiv(count, WindowSize)
  <2>1. /\ w \in Nat \ {0} /\ (w - 1) * WindowSize < page /\ page <= w * WindowSize
        /\ last \in Nat \ {0} /\ count <= last * WindowSize
    BY <1>1, CeilDivBounds, page \in Nat \ {0}
  <2> HIDE DEF w, last
  <2>2. w <= last
    <3> SUFFICES ASSUME last < w PROVE FALSE
      BY <2>1
    <3>1. last * WindowSize <= (w - 1) * WindowSize
      BY <1>1, <2>1, TimesMonotone, last \in Int, w - 1 \in Int, last <= w - 1
    <3>2. last * WindowSize \in Int /\ (w - 1) * WindowSize \in Int
      BY <1>1, <2>1
    <3> QED BY <2>1, <3>1, <3>2
  <2>3. w \in 1..PlanLength(count)
    BY <2>1, <2>2 DEF last, PlanLength
  <2>4. page \in WindowPages(w, count)
    BY <2>1 DEF WindowPages
  <2> QED BY <2>3, <2>4
<1> QED BY <1>3, <1>4

ReaderRows == [at : ReaderSteps, window : AllWindows \cup {NoWindow}]

LEMMA ReadingKnows ==
    ReadingInv =>
      /\ pages \in Nat \ {0} /\ MaxWindows \in Nat /\ NoWindow = 0 /\ "none" \notin Limitations
      /\ PlanLength(pages) \in Nat \ {0} /\ PlanLength(pages) <= MaxWindows
      /\ next \in Nat /\ next <= PlanLength(pages) /\ failed \in BOOLEAN
      /\ AllWindows = 1..MaxWindows /\ Windows \subseteq AllWindows
      /\ reader \in [Readers -> ReaderRows]
      /\ result \in [AllWindows -> Results] /\ bought \in [AllWindows -> Nat]
      /\ recorded \subseteq AllWindows /\ toRepair \subseteq AllWindows
<1> SUFFICES ASSUME ReadingInv
             PROVE  /\ pages \in Nat \ {0} /\ MaxWindows \in Nat /\ NoWindow = 0 /\ "none" \notin Limitations
                    /\ PlanLength(pages) \in Nat \ {0} /\ PlanLength(pages) <= MaxWindows
                    /\ next \in Nat /\ next <= PlanLength(pages) /\ failed \in BOOLEAN
                    /\ AllWindows = 1..MaxWindows /\ Windows \subseteq AllWindows
                    /\ reader \in [Readers -> ReaderRows]
                    /\ result \in [AllWindows -> Results] /\ bought \in [AllWindows -> Nat]
                    /\ recorded \subseteq AllWindows /\ toRepair \subseteq AllWindows
  OBVIOUS
<1>1. pages \in Nat \ {0} /\ MaxWindows \in Nat /\ WindowSize \in Nat \ {0} /\ "none" \notin Targets
  BY WindowAssumption DEF ReadingInv, ReadingTypeOK
<1>2. PlanLength(pages) \in Nat \ {0} /\ PlanLength(pages) <= MaxWindows
  BY <1>1, CeilDivBounds DEF PlanLength, Plannable, ReadingInv, PlanInv
<1>3. next \in Nat /\ next <= PlanLength(pages)
  BY <1>1 DEF ReadingInv, ReadingTypeOK, PlanInv
<1>4. AllWindows = 1..MaxWindows /\ Windows \subseteq AllWindows
  BY <1>1, <1>2 DEF AllWindows, Windows
<1> QED BY <1>1, <1>2, <1>3, <1>4
        DEF ReadingInv, ReadingTypeOK, ReaderRows, NoWindow, Limitations

LEMMA WholeDocument == ReadingInv => WholeDocumentConsolidated
<1> SUFFICES ASSUME ReadingInv, phase \in {"consolidate", "done"}, NEW p \in 1..pages
             PROVE  /\ \E w \in Windows : p \in WindowPages(w, pages) /\ result[w] # "none"
                    /\ \A v, w \in Windows :
                         p \in WindowPages(v, pages) /\ p \in WindowPages(w, pages) => v = w
  BY DEF WholeDocumentConsolidated
<1>1. /\ pages \in Nat \ {0} /\ PlanLength(pages) \in Nat /\ Windows = 1..PlanLength(pages)
      /\ Windows \subseteq AllWindows
  BY ReadingKnows DEF Windows
<1>2. \A w \in Windows : result[w] # "none"
  <2> SUFFICES ASSUME NEW w \in Windows PROVE result[w] # "none"
    OBVIOUS
  <2>1. ~failed /\ w <= next /\ \A r \in Readers : reader[r].at = "stopped"
    BY <1>1 DEF ReadingInv, PhaseInv
  <2>2. w \in recorded
    BY <1>1, <2>1 DEF ReadingInv, TakenInv, ReaderOn
  <2> QED BY <1>1, <2>2 DEF ReadingInv, TakenInv
<1>3. \A w \in Windows : w \in Nat
  BY <1>1
<1> QED BY <1>1, <1>2, <1>3, PageHasOneWindow

(* What the readers share, and the others leave alone. *)
ReaderFrame == UNCHANGED <<pages, phase, toRepair, repairer, consolidation>>

(* A reader at work goes on with its window w. *)
LEMMA AtWorkKeeps ==
    ASSUME ReadingInv, ReaderFrame, UNCHANGED <<next, recorded>>,
           NEW r \in Readers, reader[r].at \in AtWork, NEW at \in AtWork, Move(r, at),
           failed' = (failed \/ at = "fail"),
           NEW w \in AllWindows, w = reader[r].window,
           result' \in [AllWindows -> Results], bought' \in [AllWindows -> Nat],
           \A v \in AllWindows \ {w} : result'[v] = result[v] /\ bought'[v] = bought[v],
           result[w] # "none" => result'[w] # "none",
           at \in {"start", "call"} => result'[w] = "none" /\ bought'[w] = 0,
           at = "answer" => result'[w] = "none" /\ bought'[w] = 1,
           at = "store" => result'[w] # "none"
    PROVE  ReadingInv'
<1>1. /\ reader \in [Readers -> ReaderRows] /\ next \in Nat /\ w <= next /\ w \in 1..next /\ NoWindow = 0
      /\ AllWindows = 1..MaxWindows /\ MaxWindows \in Nat
      /\ recorded \subseteq AllWindows /\ toRepair \subseteq AllWindows
  BY ReadingKnows DEF ReadingInv, ReadersInv
<1>2. /\ reader' \in [Readers -> ReaderRows] /\ reader'[r].at = at /\ reader'[r].window = w
      /\ \A s \in Readers \ {r} : reader'[s] = reader[s]
  BY <1>1 DEF Move, ReaderRows, AtWork, ReaderSteps
<1>3. at \notin {"loop", "stopped"} /\ reader[r].at \notin {"loop", "stopped"}
  BY DEF AtWork
<1>4. ReadingTypeOK'
  BY <1>2 DEF ReadingInv, ReadingTypeOK, ReaderFrame, ReaderRows
<1>5. PlanInv'
  BY DEF ReadingInv, PlanInv, ReaderFrame
<1>6. ReadersInv'
  <2>1. \A s \in Readers :
          /\ reader'[s].window = reader[s].window
          /\ reader'[s].at \in AtWork <=> reader[s].at \in AtWork
    BY <1>2
  <2>2. \A s \in Readers :
          /\ reader'[s].at \in {"loop", "stopped"} => reader[s].at \in {"loop", "stopped"}
          /\ reader'[s].at = "fail" => failed'
    BY <1>2, <1>3 DEF ReadingInv, ReadersInv
  <2> QED BY <2>1, <2>2 DEF ReadingInv, ReadersInv
<1>7. \A s \in Readers \ {r} : reader[s].at \in AtWork => reader[s].window \in AllWindows \ {w}
  <2>1. 1..next \subseteq AllWindows
    BY ReadingKnows
  <2> QED BY <2>1 DEF ReadingInv, ReadersInv
<1>8. HandsInv'
  <2> SUFFICES ASSUME NEW s \in Readers
               PROVE  LET v == reader'[s].window IN
                      /\ reader'[s].at \in {"start", "call"} => result'[v] = "none" /\ bought'[v] = 0
                      /\ reader'[s].at = "answer" => result'[v] = "none" /\ bought'[v] = 1
                      /\ reader'[s].at = "store" => result'[v] # "none"
    BY DEF HandsInv
  <2>1. CASE s = r
    BY <1>2, <2>1
  <2>2. CASE s # r
    BY <1>2, <1>7, <2>2 DEF ReadingInv, HandsInv, AtWork
  <2> QED BY <2>1, <2>2
<1>9. TakenInv'
  <2> SUFFICES ASSUME NEW v \in AllWindows
               PROVE  /\ v \in recorded => result'[v] # "none"
                      /\ v <= next /\ ~failed' =>
                           v \in recorded \/ ReaderOn(v, {"start", "call", "answer", "store"})'
                      /\ v > next => bought'[v] = 0 /\ (result'[v] # "none" => v \in recorded)
    BY DEF TakenInv
  <2>1. v > next => v # w
    BY <1>1
  <2>2. ~failed' => ~failed /\ at \in {"start", "call", "answer", "store"}
    BY DEF AtWork
  <2>3. ReaderOn(v, {"start", "call", "answer", "store"}) /\ ~failed'
          => ReaderOn(v, {"start", "call", "answer", "store"})'
    BY <1>2, <2>2 DEF ReaderOn
  <2> QED BY <2>1, <2>2, <2>3 DEF ReadingInv, TakenInv
<1>10. PhaseInv'
  BY <1>3 DEF ReadingInv, PhaseInv, ReaderFrame
<1>11. RepairInv'
  BY ReadingKnows DEF ReadingInv, RepairInv, ReaderFrame, ReadingTypeOK
<1> QED BY <1>4, <1>5, <1>6, <1>8, <1>9, <1>10, <1>11 DEF ReadingInv

(* A reader is done with its window, or stops. *)
LEMMA RestKeeps ==
    ASSUME ReadingInv, ReaderFrame, UNCHANGED <<failed, result, bought>>,
           NEW r \in Readers, reader[r].at # "stopped", NEW at \in {"loop", "stopped"}, Rest(r, at),
           next' \in {next, next + 1}, next' <= PlanLength(pages),
           next' # next => reader[r].at = "loop" /\ result[next'] # "none",
           recorded' = IF reader[r].at = "store" THEN recorded \cup {reader[r].window} ELSE recorded,
           reader[r].at \in {"start", "call", "answer"} => failed
    PROVE  ReadingInv'
<1>1. /\ reader \in [Readers -> ReaderRows] /\ next \in Nat /\ next' \in Nat /\ NoWindow = 0
      /\ AllWindows = 1..MaxWindows /\ MaxWindows \in Nat /\ PlanLength(pages) <= MaxWindows
      /\ PlanLength(pages) \in Nat
      /\ recorded \subseteq AllWindows /\ toRepair \subseteq AllWindows
  BY ReadingKnows
<1>2. /\ reader' \in [Readers -> ReaderRows] /\ reader'[r].at = at /\ reader'[r].window = NoWindow
      /\ \A s \in Readers \ {r} : reader'[s] = reader[s]
  BY <1>1 DEF Rest, ReaderRows, ReaderSteps
<1>3. at \notin AtWork /\ phase = "read" /\ phase' = "read"
  BY DEF AtWork, ReadingInv, PhaseInv, ReaderFrame
<1>4. reader[r].at = "store" => reader[r].window \in AllWindows /\ result[reader[r].window] # "none"
  BY ReadingKnows DEF ReadingInv, ReadersInv, HandsInv, AtWork
<1>5. ReadingTypeOK'
  <2>1. next' \in 0..MaxWindows
    BY <1>1
  <2>2. recorded' \in SUBSET AllWindows
    <3>1. CASE reader[r].at = "store"
      BY <1>1, <1>4, <3>1
    <3>2. CASE reader[r].at # "store"
      BY <1>1, <3>2
    <3> QED BY <3>1, <3>2
  <2> QED BY <1>2, <1>3, <2>1, <2>2 DEF ReadingInv, ReadingTypeOK, ReaderFrame, ReaderRows
<1>6. PlanInv'
  BY DEF ReadingInv, PlanInv, ReaderFrame
<1>7. ReadersInv'
  <2>1. \A s \in Readers : reader'[s].at \in AtWork => s # r /\ reader'[s] = reader[s]
    BY <1>2, <1>3
  <2>2. \A s \in Readers :
          /\ reader'[s].at \in AtWork => reader'[s].window \in 1..next'
          /\ reader'[s].at = "fail" => failed'
    BY <1>1, <2>1 DEF ReadingInv, ReadersInv, AtWork
  <2>3. \A s \in Readers : reader'[s].at \in {"loop", "stopped"} => reader'[s].window = NoWindow
    BY <1>2 DEF ReadingInv, ReadersInv
  <2>4. \A s, t \in Readers :
          reader'[s].at \in AtWork /\ reader'[t].at \in AtWork /\ reader'[s].window = reader'[t].window => s = t
    BY <2>1 DEF ReadingInv, ReadersInv
  <2> QED BY <2>2, <2>3, <2>4 DEF ReadersInv
<1>8. HandsInv'
  <2>1. \A s \in Readers : s = r \/ reader'[s] = reader[s]
    BY <1>2
  <2> QED BY <1>2, <2>1 DEF ReadingInv, HandsInv
<1>9. TakenInv'
  <2> SUFFICES ASSUME NEW v \in AllWindows
               PROVE  /\ v \in recorded' => result[v] # "none"
                      /\ v <= next' /\ ~failed =>
                           v \in recorded' \/ ReaderOn(v, {"start", "call", "answer", "store"})'
                      /\ v > next' => bought[v] = 0 /\ (result[v] # "none" => v \in recorded')
    BY DEF TakenInv
  <2>1. v \in recorded' => result[v] # "none"
    BY <1>4 DEF ReadingInv, TakenInv
  <2>2. v > next' => bought[v] = 0 /\ (result[v] # "none" => v \in recorded')
    BY <1>1 DEF ReadingInv, TakenInv
  <2>3. ASSUME v <= next, ~failed
        PROVE  v \in recorded' \/ ReaderOn(v, {"start", "call", "answer", "store"})'
    <3>1. CASE v \in recorded
      BY <3>1
    <3>2. CASE ReaderOn(v, {"start", "call", "answer", "store"})
      <4>1. PICK s \in Readers :
              reader[s].window = v /\ reader[s].at \in {"start", "call", "answer", "store"}
        BY <3>2 DEF ReaderOn
      <4>2. CASE s = r
        BY <2>3, <4>1, <4>2
      <4>3. CASE s # r
        BY <1>2, <4>1, <4>3 DEF ReaderOn
      <4> QED BY <4>2, <4>3
    <3> QED BY <2>3, <3>1, <3>2 DEF ReadingInv, TakenInv
  <2>4. v = next + 1 /\ next' = next + 1 => v \in recorded'
    BY <1>1 DEF ReadingInv, TakenInv
  <2>5. v <= next' => v <= next \/ (v = next + 1 /\ next' = next + 1)
    BY <1>1
  <2> QED BY <2>1, <2>2, <2>3, <2>4, <2>5
<1>10. PhaseInv'
  BY <1>3 DEF ReadingInv, PhaseInv, ReaderFrame
<1>11. RepairInv'
  BY DEF ReadingInv, RepairInv, ReaderFrame
<1> QED BY <1>5, <1>6, <1>7, <1>8, <1>9, <1>10, <1>11 DEF ReadingInv

(* A reader takes the next window off the cursor. *)
LEMMA TakeKeeps ==
    ASSUME ReadingInv, NEW r \in Readers, TakeWindow(r)
    PROVE  ReadingInv'
<1>1. /\ reader \in [Readers -> ReaderRows] /\ next \in Nat /\ NoWindow = 0
      /\ AllWindows = 1..MaxWindows /\ MaxWindows \in Nat /\ PlanLength(pages) <= MaxWindows
      /\ PlanLength(pages) \in Nat
      /\ recorded \subseteq AllWindows /\ toRepair \subseteq AllWindows
  BY ReadingKnows
<1>2. /\ ReaderFrame /\ UNCHANGED <<failed, result, recorded, bought>>
      /\ phase = "read" /\ reader[r].at = "loop" /\ ~failed
      /\ next' = next + 1 /\ next + 1 <= PlanLength(pages) /\ next + 1 \in AllWindows
  BY <1>1 DEF TakeWindow, ReaderFrame
<1>3. CASE AlreadyRead(next + 1)
  <2>1. Rest(r, "loop")
    BY <1>3 DEF TakeWindow
  <2>2. result[next'] # "none"
    BY <1>2, <1>3 DEF AlreadyRead
  <2> QED BY <1>1, <1>2, <2>1, <2>2, RestKeeps
<1>4. CASE ~AlreadyRead(next + 1)
  <2>1. reader' = [reader EXCEPT ![r] = [at |-> "start", window |-> next + 1]]
    BY <1>4 DEF TakeWindow
  <2>2. /\ reader' \in [Readers -> ReaderRows] /\ reader'[r].at = "start" /\ reader'[r].window = next + 1
        /\ \A s \in Readers \ {r} : reader'[s] = reader[s]
    BY <1>1, <1>2, <2>1 DEF ReaderRows, ReaderSteps
  <2>3. result[next + 1] = "none" /\ bought[next + 1] = 0
    BY <1>1, <1>2, <1>4 DEF AlreadyRead, ReadingInv, TakenInv
  <2>4. ReadingTypeOK'
    BY <1>1, <1>2, <2>2 DEF ReadingInv, ReadingTypeOK, ReaderFrame, ReaderRows
  <2>5. PlanInv'
    BY <1>2 DEF ReadingInv, PlanInv, ReaderFrame
  <2>6. ReadersInv'
    <3>1. \A s \in Readers \ {r} : reader'[s].at \in AtWork => reader'[s].window \in 1..next
      BY <2>2 DEF ReadingInv, ReadersInv
    <3>2. \A s \in Readers :
            /\ reader'[s].at \in AtWork => reader'[s].window \in 1..next'
            /\ reader'[s].at \in {"loop", "stopped"} => reader'[s].window = NoWindow
            /\ reader'[s].at = "fail" => failed'
      BY <1>1, <1>2, <2>2, <3>1 DEF ReadingInv, ReadersInv
    <3>3. \A s, t \in Readers :
            reader'[s].at \in AtWork /\ reader'[t].at \in AtWork /\ reader'[s].window = reader'[t].window
              => s = t
      BY <1>1, <2>2, <3>1 DEF ReadingInv, ReadersInv
    <3> QED BY <3>2, <3>3 DEF ReadersInv
  <2>7. HandsInv'
    <3> SUFFICES ASSUME NEW s \in Readers
                 PROVE  LET v == reader'[s].window IN
                        /\ reader'[s].at \in {"start", "call"} => result[v] = "none" /\ bought[v] = 0
                        /\ reader'[s].at = "answer" => result[v] = "none" /\ bought[v] = 1
                        /\ reader'[s].at = "store" => result[v] # "none"
      BY <1>2 DEF HandsInv
    <3>1. CASE s = r
      BY <2>2, <2>3, <3>1
    <3>2. CASE s # r
      BY <2>2, <3>2 DEF ReadingInv, HandsInv
    <3> QED BY <3>1, <3>2
  <2>8. TakenInv'
    <3> SUFFICES ASSUME NEW v \in AllWindows
                 PROVE  /\ v \in recorded => result[v] # "none"
                        /\ v <= next + 1 => v \in recorded \/ ReaderOn(v, {"start", "call", "answer", "store"})'
                        /\ v > next + 1 => bought[v] = 0 /\ (result[v] # "none" => v \in recorded)
      BY <1>2 DEF TakenInv
    <3>1. v = next + 1 => ReaderOn(v, {"start", "call", "answer", "store"})'
      BY <2>2 DEF ReaderOn
    <3>2. ReaderOn(v, {"start", "call", "answer", "store"})
            => ReaderOn(v, {"start", "call", "answer", "store"})'
      BY <1>2, <2>2 DEF ReaderOn
    <3> QED BY <1>1, <1>2, <3>1, <3>2 DEF ReadingInv, TakenInv
  <2>9. PhaseInv' /\ RepairInv'
    BY <1>2 DEF ReadingInv, PhaseInv, RepairInv, ReaderFrame
  <2> QED BY <2>4, <2>5, <2>6, <2>7, <2>8, <2>9 DEF ReadingInv
<1> QED BY <1>3, <1>4

LEMMA RecordStartedKeeps ==
    ASSUME ReadingInv, NEW r \in Readers, RecordStarted(r)
    PROVE  ReadingInv'
<1> DEFINE w == reader[r].window
<1>1. /\ ReaderFrame /\ UNCHANGED <<next, recorded, result, bought>>
      /\ reader[r].at = "start" /\ reader[r].at \in AtWork
  BY DEF RecordStarted, ReaderFrame, AtWork
<1>2. /\ w \in AllWindows /\ result[w] = "none" /\ bought[w] = 0
      /\ result \in [AllWindows -> Results] /\ bought \in [AllWindows -> Nat] /\ failed \in BOOLEAN
  BY <1>1, ReadingKnows DEF ReadingInv, ReadersInv, HandsInv
<1> HIDE DEF w
<1>3. CASE Move(r, "call") /\ UNCHANGED failed
  BY <1>1, <1>2, <1>3, AtWorkKeeps, "call" \in AtWork DEF w, AtWork
<1>4. CASE Move(r, "fail") /\ failed' = TRUE
  BY <1>1, <1>2, <1>4, AtWorkKeeps, "fail" \in AtWork DEF w, AtWork
<1> QED BY <1>3, <1>4 DEF RecordStarted

LEMMA CallReaderKeeps ==
    ASSUME ReadingInv, NEW r \in Readers, CallReader(r)
    PROVE  ReadingInv'
<1> DEFINE w == reader[r].window
<1>1. /\ ReaderFrame /\ UNCHANGED <<next, recorded, result>>
      /\ reader[r].at = "call" /\ reader[r].at \in AtWork
  BY DEF CallReader, ReaderFrame, AtWork
<1>2. /\ w \in AllWindows /\ result[w] = "none" /\ bought[w] = 0
      /\ result \in [AllWindows -> Results] /\ bought \in [AllWindows -> Nat] /\ failed \in BOOLEAN
  BY <1>1, ReadingKnows DEF ReadingInv, ReadersInv, HandsInv
<1>3. CASE Move(r, "answer") /\ bought' = [bought EXCEPT ![w] = @ + 1] /\ UNCHANGED failed
  <2>1. /\ bought' \in [AllWindows -> Nat] /\ bought'[w] = 1
        /\ \A v \in AllWindows \ {w} : bought'[v] = bought[v]
    BY <1>2, <1>3
  <2> HIDE DEF w
  <2> QED BY <1>1, <1>2, <1>3, <2>1, AtWorkKeeps, "answer" \in AtWork DEF w, AtWork
<1>4. CASE Move(r, "fail") /\ failed' = TRUE /\ UNCHANGED bought
  <2> HIDE DEF w
  <2> QED BY <1>1, <1>2, <1>4, AtWorkKeeps, "fail" \in AtWork DEF w, AtWork
<1> QED BY <1>3, <1>4 DEF CallReader

LEMMA ReaderAnswersKeeps ==
    ASSUME ReadingInv, NEW r \in Readers, ReaderAnswers(r)
    PROVE  ReadingInv'
<1> DEFINE w == reader[r].window
<1>1. /\ ReaderFrame /\ UNCHANGED <<next, recorded, bought>>
      /\ reader[r].at = "answer" /\ reader[r].at \in AtWork
  BY DEF ReaderAnswers, ReaderFrame, AtWork
<1>2. /\ w \in AllWindows /\ result[w] = "none" /\ "none" \notin Limitations
      /\ result \in [AllWindows -> Results] /\ bought \in [AllWindows -> Nat] /\ failed \in BOOLEAN
  BY <1>1, ReadingKnows DEF ReadingInv, ReadersInv, HandsInv
<1>3. CASE /\ \E limitation \in LimitationsOf(w) : result' = [result EXCEPT ![w] = limitation]
           /\ Move(r, "store")
           /\ UNCHANGED failed
  <2>1. PICK limitation \in LimitationsOf(w) : result' = [result EXCEPT ![w] = limitation]
    BY <1>3
  <2>2. limitation \in Limitations
    BY DEF LimitationsOf, Limitations
  <2>3. /\ result' \in [AllWindows -> Results] /\ result'[w] # "none"
        /\ \A v \in AllWindows \ {w} : result'[v] = result[v]
    BY <1>2, <2>1, <2>2 DEF Results
  <2> HIDE DEF w
  <2> QED BY <1>1, <1>2, <1>3, <2>3, AtWorkKeeps, "store" \in AtWork DEF w, AtWork
<1>4. CASE Move(r, "fail") /\ failed' = TRUE /\ UNCHANGED result
  <2> HIDE DEF w
  <2> QED BY <1>1, <1>2, <1>4, AtWorkKeeps, "fail" \in AtWork DEF w, AtWork
<1> QED BY <1>3, <1>4 DEF ReaderAnswers

LEMMA RecordReadKeeps ==
    ASSUME ReadingInv, NEW r \in Readers, RecordRead(r)
    PROVE  ReadingInv'
<1> DEFINE w == reader[r].window
<1>1. /\ ReaderFrame /\ UNCHANGED <<next, result, bought>>
      /\ reader[r].at = "store" /\ reader[r].at \in AtWork
  BY DEF RecordRead, ReaderFrame, AtWork
<1>2. /\ w \in AllWindows /\ result[w] # "none" /\ next \in Nat /\ next <= PlanLength(pages)
      /\ result \in [AllWindows -> Results] /\ bought \in [AllWindows -> Nat] /\ failed \in BOOLEAN
  BY <1>1, ReadingKnows DEF ReadingInv, ReadersInv, HandsInv
<1>3. CASE recorded' = recorded \cup {w} /\ Rest(r, "loop") /\ UNCHANGED failed
  BY <1>1, <1>2, <1>3, RestKeeps
<1>4. CASE Move(r, "fail") /\ failed' = TRUE /\ UNCHANGED recorded
  <2> HIDE DEF w
  <2> QED BY <1>1, <1>2, <1>4, AtWorkKeeps, "fail" \in AtWork DEF w, AtWork
<1> QED BY <1>3, <1>4 DEF RecordRead

LEMMA ReaderRestsKeeps ==
    ASSUME ReadingInv, NEW r \in Readers, ReaderStops(r) \/ RecordReadFailure(r)
    PROVE  ReadingInv'
<1>1. /\ ReaderFrame /\ UNCHANGED <<next, failed, result, recorded, bought>>
      /\ reader[r].at \in {"loop", "fail"} /\ (Rest(r, "loop") \/ Rest(r, "stopped"))
  BY DEF ReaderStops, RecordReadFailure, ReaderFrame
<1>2. next \in Nat /\ next <= PlanLength(pages)
  BY ReadingKnows
<1> QED BY <1>1, <1>2, RestKeeps

LEMMA ReaderStepKeeps ==
    ASSUME ReadingInv, NEW r \in Readers, ReaderStep(r)
    PROVE  ReadingInv'
  BY TakeKeeps, RecordStartedKeeps, CallReaderKeeps, ReaderAnswersKeeps, RecordReadKeeps, ReaderRestsKeeps
     DEF ReaderStep

RepairerRows == [at : RepairerSteps, window : AllWindows \cup {NoWindow},
                 attempted : SUBSET Targets, call : 1..2]

LEMMA RetargetedRow ==
    ASSUME NEW old \in RepairerRows, NEW at \in RepairerSteps, NEW attempted \in SUBSET Targets
    PROVE  LET after == [old EXCEPT !.call = 1, !.at = at, !.attempted = attempted]
           IN  after \in RepairerRows /\ after.window = old.window
<1> DEFINE one   == [old EXCEPT !.call = 1]
           two   == [one EXCEPT !.at = at]
           after == [two EXCEPT !.attempted = attempted]
<1>1. one \in RepairerRows /\ one.window = old.window
  BY DEF RepairerRows
<1> HIDE DEF one
<1>2. two \in RepairerRows /\ two.window = old.window
  BY <1>1 DEF RepairerRows
<1> HIDE DEF two
<1>3. after \in RepairerRows /\ after.window = old.window
  BY <1>2 DEF RepairerRows
<1> QED BY <1>3 DEF one, two

(* A repairer changes the read of no window that has none. *)
LEMMA RepairKeeps ==
    ASSUME ReadingInv, RepairsOnly, UNCHANGED <<phase, bought>>,
           NEW q \in Repairers, NEW after \in RepairerRows, repairer' = [repairer EXCEPT ![q] = after],
           toRepair' \subseteq toRepair,
           after.window \in toRepair \cup {NoWindow, repairer[q].window},
           result' \in [AllWindows -> Results],
           \A v \in AllWindows : result'[v] = result[v] \/ (result[v] # "none" /\ result'[v] # "none")
    PROVE  ReadingInv'
<1>1. /\ AllWindows = 1..MaxWindows /\ MaxWindows \in Nat /\ NoWindow = 0 /\ next \in Nat
      /\ next <= MaxWindows /\ recorded \subseteq AllWindows /\ toRepair \subseteq AllWindows
      /\ reader \in [Readers -> ReaderRows]
  BY ReadingKnows
<1>2. repairer \in [Repairers -> RepairerRows]
  BY DEF ReadingInv, ReadingTypeOK, RepairerRows
<1>3. /\ repairer' \in [Repairers -> RepairerRows] /\ repairer'[q] = after
      /\ \A p \in Repairers \ {q} : repairer'[p] = repairer[p]
  BY <1>2
<1>4. ReadingTypeOK'
  <2>1. toRepair' \in SUBSET AllWindows
    BY <1>1
  <2> QED BY <1>3, <2>1 DEF ReadingInv, ReadingTypeOK, RepairsOnly, RepairerRows
<1>5. PlanInv' /\ ReadersInv' /\ PhaseInv'
  BY DEF ReadingInv, PlanInv, ReadersInv, PhaseInv, RepairsOnly
<1>6. HandsInv'
  <2> SUFFICES ASSUME NEW r \in Readers
               PROVE  LET w == reader[r].window IN
                      /\ reader[r].at \in {"start", "call"} => result'[w] = "none" /\ bought[w] = 0
                      /\ reader[r].at = "answer" => result'[w] = "none" /\ bought[w] = 1
                      /\ reader[r].at = "store" => result'[w] # "none"
    BY DEF HandsInv, RepairsOnly
  <2>1. reader[r].at \in AtWork => reader[r].window \in AllWindows
    BY <1>1 DEF ReadingInv, ReadersInv
  <2> QED BY <2>1 DEF ReadingInv, HandsInv, AtWork
<1>7. TakenInv'
  BY DEF ReadingInv, TakenInv, RepairsOnly, ReaderOn
<1>8. RepairInv'
  <2>1. \A w \in toRepair' : result'[w] # "none"
    BY <1>1 DEF ReadingInv, RepairInv
  <2>2. ASSUME NEW p \in Repairers, repairer'[p].window # NoWindow
        PROVE  result'[repairer'[p].window] # "none"
    <3>1. repairer'[p].window \in toRepair \/ repairer'[p].window = repairer[p].window
      BY <1>3, <2>2
    <3>2. result[repairer'[p].window] # "none"
      BY <2>2, <3>1 DEF ReadingInv, RepairInv
    <3>3. repairer'[p].window \in AllWindows
      BY <1>3, <2>2 DEF RepairerRows
    <3> QED BY <3>2, <3>3
  <2> QED BY <2>1, <2>2 DEF RepairInv
<1> QED BY <1>4, <1>5, <1>6, <1>7, <1>8 DEF ReadingInv

(* Leaving a window, or going on with it. *)
LEMMA RepairerMoves ==
    ASSUME ReadingInv, RepairsOnly, UNCHANGED <<phase, bought, toRepair>>,
           NEW q \in Repairers, NEW at \in RepairerSteps, Leave(q, at) \/ Proceed(q, at),
           result' \in [AllWindows -> Results],
           \A v \in AllWindows : result'[v] = result[v] \/ (result[v] # "none" /\ result'[v] # "none")
    PROVE  ReadingInv'
<1>1. repairer[q] \in RepairerRows
  BY DEF ReadingInv, ReadingTypeOK, RepairerRows
<1>2. CASE Leave(q, at)
  <2> DEFINE after == [Unrepairing EXCEPT !.at = at]
  <2>1. after \in RepairerRows /\ after.window = NoWindow
    BY DEF Unrepairing, RepairerRows
  <2>2. repairer' = [repairer EXCEPT ![q] = after]
    BY <1>2 DEF Leave
  <2> HIDE DEF after
  <2> QED BY <2>1, <2>2, RepairKeeps
<1>3. CASE Proceed(q, at)
  <2> DEFINE after == [repairer[q] EXCEPT !.at = at]
  <2>1. after \in RepairerRows /\ after.window = repairer[q].window
    BY <1>1 DEF RepairerRows
  <2>2. repairer' = [repairer EXCEPT ![q] = after]
    BY <1>3 DEF Proceed
  <2> HIDE DEF after
  <2> QED BY <2>1, <2>2, RepairKeeps
<1> QED BY <1>2, <1>3

LEMMA NextTargetKeeps ==
    ASSUME ReadingInv, NEW q \in Repairers, NextTarget(q)
    PROVE  ReadingInv'
<1> DEFINE w      == repairer[q].window
           target == result[w]
<1>1. /\ RepairsOnly /\ UNCHANGED <<phase, result, bought>>
      /\ result \in [AllWindows -> Results] /\ repairer[q] \in RepairerRows
      /\ {"stopped", "loop", "start", "fail"} \subseteq RepairerSteps
  BY DEF NextTarget, ReadingInv, ReadingTypeOK, RepairerRows, RepairerSteps
<1>2. CASE UNCHANGED toRepair /\ (Leave(q, "stopped") \/ Leave(q, "loop"))
  BY <1>1, <1>2, RepairerMoves
<1>3. ASSUME NEW first \in toRepair, toRepair' = toRepair \ {first},
             repairer' = [repairer EXCEPT ![q] = [Unrepairing EXCEPT !.window = first]]
      PROVE  ReadingInv'
  <2> DEFINE after == [Unrepairing EXCEPT !.window = first]
  <2>1. first \in AllWindows
    BY ReadingKnows
  <2>2. after \in RepairerRows /\ after.window = first
    BY <1>1, <2>1 DEF Unrepairing, RepairerRows
  <2>3. repairer' = [repairer EXCEPT ![q] = after] /\ toRepair' \subseteq toRepair
    BY <1>3
  <2> HIDE DEF after
  <2> QED BY <1>1, <2>2, <2>3, RepairKeeps
<1>4. CASE /\ target \in Targets
           /\ repairer' = [repairer EXCEPT ![q].call = 1,
                             ![q].at = IF target \in repairer[q].attempted THEN "fail" ELSE "start",
                             ![q].attempted = Remember(q, target)]
           /\ UNCHANGED toRepair
  <2> DEFINE step  == IF target \in repairer[q].attempted THEN "fail" ELSE "start"
             after == [repairer[q] EXCEPT !.call = 1, !.at = step, !.attempted = Remember(q, target)]
  <2>1. Remember(q, target) \in SUBSET Targets /\ step \in RepairerSteps
    BY <1>1, <1>4 DEF Remember, RepairerRows
  <2>2. repairer' = [repairer EXCEPT ![q] = after]
    BY <1>4
  <2>3. after \in RepairerRows /\ after.window = repairer[q].window
    <3> HIDE DEF step, w, target
    <3> QED BY <1>1, <2>1, RetargetedRow
  <2> HIDE DEF after
  <2> QED BY <1>1, <1>4, <2>2, <2>3, RepairKeeps
<1> QED BY <1>2, <1>3, <1>4 DEF NextTarget

LEMMA RereadAnswersKeeps ==
    ASSUME ReadingInv, NEW q \in Repairers, RereadAnswers(q)
    PROVE  ReadingInv'
<1>1. /\ RepairsOnly /\ UNCHANGED <<phase, toRepair, bought>> /\ repairer[q].at = "answer"
      /\ result \in [AllWindows -> Results] /\ repairer[q] \in RepairerRows
      /\ {"store", "fail"} \subseteq RepairerSteps /\ "none" \notin Limitations
  BY ReadingKnows DEF RereadAnswers, ReadingInv, ReadingTypeOK, RepairerRows, RepairerSteps
<1>2. CASE repairer' = [repairer EXCEPT ![q].call = 2] /\ UNCHANGED result
  <2> DEFINE after == [repairer[q] EXCEPT !.call = 2]
  <2>1. after \in RepairerRows /\ after.window = repairer[q].window
    BY <1>1 DEF RepairerRows
  <2>2. repairer' = [repairer EXCEPT ![q] = after]
    BY <1>2
  <2> HIDE DEF after
  <2> QED BY <1>1, <1>2, <2>1, <2>2, RepairKeeps
<1>3. CASE Proceed(q, "fail") /\ UNCHANGED result
  BY <1>1, <1>3, RepairerMoves
<1>4. ASSUME NEW left \in Limitations, result' = [result EXCEPT ![repairer[q].window] = left],
             Proceed(q, "store")
      PROVE  ReadingInv'
  <2>1. repairer[q].window # NoWindow => result[repairer[q].window] # "none"
    BY DEF ReadingInv, RepairInv
  <2>2. NoWindow \notin AllWindows
    BY ReadingKnows
  <2>3. \A v \in AllWindows : result'[v] = result[v] \/ (result[v] # "none" /\ result'[v] # "none")
    BY <1>1, <1>4, <2>1, <2>2
  <2>4. result' \in [AllWindows -> Results]
    BY <1>1, <1>4 DEF Results
  <2> QED BY <1>1, <1>4, <2>3, <2>4, RepairerMoves
<1> QED BY <1>2, <1>3, <1>4 DEF RereadAnswers

LEMMA RepairerStepKeeps ==
    ASSUME ReadingInv, NEW q \in Repairers, RepairerStep(q)
    PROVE  ReadingInv'
<1>1. CASE StartReread(q) \/ RecordReread(q) \/ RecordRepairFailure(q)
  <2>1. /\ RepairsOnly /\ UNCHANGED <<phase, toRepair, bought, result>>
        /\ \E at \in RepairerSteps : Leave(q, at) \/ Proceed(q, at)
    BY <1>1 DEF StartReread, RecordReread, RecordRepairFailure, RepairerSteps
  <2>2. result \in [AllWindows -> Results]
    BY ReadingKnows
  <2> QED BY <2>1, <2>2, RepairerMoves
<1> QED BY <1>1, NextTargetKeeps, RereadAnswersKeeps DEF RepairerStep

(* The stages touch neither what was read nor what was bought. *)
LEMMA StageStepKeeps ==
    ASSUME ReadingInv, StageStep
    PROVE  ReadingInv'
<1>1. UNCHANGED <<pages, next, failed, reader, result, recorded, bought>>
  BY DEF StageStep, SettleReading, SettleRepair, StartConsolidation, CallConsolidation,
         ConsolidationAnswers, RecordConsolidation, RetryConsolidation, ConsolidationOnly
<1>2. PlanInv' /\ ReadersInv' /\ HandsInv' /\ TakenInv'
  BY <1>1 DEF ReadingInv, PlanInv, ReadersInv, HandsInv, TakenInv, ReaderOn
<1>3. CASE SettleReading
  <2>1. ~ReadIncomplete => ~failed /\ next = PlanLength(pages)
    BY DEF ReadIncomplete
  <2>2. /\ phase' \in {"failed", "repair"} /\ (phase' = "repair" => ~ReadIncomplete)
        /\ UNCHANGED consolidation
        /\ \A r \in Readers : reader[r].at = "stopped"
    BY <1>3 DEF SettleReading, ReadersSettled
  <2>3. /\ toRepair' = toRepair \/ toRepair' = {w \in Windows : result[w] \in Targets}
        /\ repairer' = repairer \/ repairer' = [q \in Repairers |-> Unrepairing]
    BY <1>3 DEF SettleReading
  <2>4. toRepair' \subseteq AllWindows /\ \A w \in toRepair' : result[w] # "none"
    BY <2>3, ReadingKnows, WindowAssumption DEF ReadingInv, RepairInv
  <2>5. Unrepairing \in RepairerRows /\ Unrepairing.window = NoWindow
    BY DEF Unrepairing, RepairerRows, RepairerSteps
  <2>6. /\ repairer' \in [Repairers -> RepairerRows]
        /\ \A q \in Repairers : repairer'[q].window # NoWindow => result[repairer'[q].window] # "none"
    BY <2>3, <2>5 DEF ReadingInv, ReadingTypeOK, RepairerRows, RepairInv
  <2>7. ReadingTypeOK'
    BY <1>1, <2>2, <2>4, <2>6 DEF ReadingInv, ReadingTypeOK, Phases, RepairerRows
  <2>8. PhaseInv' /\ RepairInv'
    BY <1>1, <2>1, <2>2, <2>4, <2>6 DEF ReadingInv, PhaseInv, RepairInv
  <2> QED BY <1>2, <2>7, <2>8 DEF ReadingInv
<1>4. CASE ~SettleReading
  <2>1. /\ UNCHANGED <<toRepair, repairer>> /\ phase \in {"repair", "consolidate"}
        /\ phase' \in {phase, "consolidate", "done", "failed"}
    BY <1>4 DEF StageStep, SettleRepair, StartConsolidation, CallConsolidation,
         ConsolidationAnswers, RecordConsolidation, RetryConsolidation, ConsolidationOnly,
         Consolidating, Advance, GiveUp
  <2>2. /\ consolidation'.at = "retry" => consolidation'.attempt < 2
        /\ consolidation' \in [at : {"start", "call", "answer", "store", "retry"}, attempt : 1..2]
    <3>1. /\ consolidation \in [at : {"start", "call", "answer", "store", "retry"}, attempt : 1..2]
          /\ consolidation.at = "retry" => consolidation.attempt < 2
      BY DEF ReadingInv, ReadingTypeOK, PhaseInv
    <3>2. \/ consolidation' = consolidation
          \/ consolidation' = [consolidation EXCEPT !.at = "call"]
          \/ consolidation' = [consolidation EXCEPT !.at = "answer"]
          \/ consolidation' = [consolidation EXCEPT !.at = "store"]
          \/ consolidation.attempt < 2 /\ consolidation' = [consolidation EXCEPT !.at = "retry"]
          \/ /\ consolidation.at = "retry"
             /\ consolidation' = [at |-> "start", attempt |-> consolidation.attempt + 1]
      BY <1>4 DEF StageStep, SettleRepair, StartConsolidation, CallConsolidation,
         ConsolidationAnswers, RecordConsolidation, RetryConsolidation, ConsolidationOnly,
         Consolidating, Advance, GiveUp, AnotherAttempt
    <3> QED BY <3>1, <3>2
  <2>3. ReadingTypeOK'
    BY <1>1, <2>1, <2>2 DEF ReadingInv, ReadingTypeOK, Phases
  <2>4. PhaseInv' /\ RepairInv'
    BY <1>1, <2>1, <2>2 DEF ReadingInv, PhaseInv, RepairInv
  <2> QED BY <1>2, <2>3, <2>4 DEF ReadingInv
<1> QED BY <1>3, <1>4

LEMMA ReadingInitHolds == ReadingInit => ReadingInv
<1> SUFFICES ASSUME ReadingInit PROVE ReadingInv
  OBVIOUS
<1>1. /\ pages \in PageCounts /\ pages \in Nat \ {0} /\ MaxWindows \in Nat /\ WindowSize \in Nat \ {0}
      /\ "none" \notin Targets /\ Plannable(pages)
  BY WindowAssumption DEF ReadingInit
<1>2. PlanLength(pages) \in Nat \ {0} /\ PlanLength(pages) <= MaxWindows
  BY <1>1, CeilDivBounds DEF PlanLength, Plannable
<1>3. PICK saved \in SUBSET (Recoverable \cap 1..PlanLength(pages)) :
         /\ recorded = saved
         /\ result \in [AllWindows -> Results]
         /\ \A w \in AllWindows : result[w] \in IF w \in saved THEN LimitationsOf(w) ELSE {"none"}
  BY DEF ReadingInit
<1>4. /\ recorded \subseteq AllWindows
      /\ \A w \in AllWindows : result[w] # "none" <=> w \in recorded
  BY <1>1, <1>2, <1>3 DEF AllWindows, LimitationsOf, Limitations
<1>5. /\ phase = "read" /\ next = 0 /\ failed = FALSE /\ toRepair = {}
      /\ reader = [r \in Readers |-> [at |-> "loop", window |-> NoWindow]]
      /\ repairer = [q \in Repairers |-> [Unrepairing EXCEPT !.at = "idle"]]
      /\ consolidation = [at |-> "start", attempt |-> 1] /\ bought = [w \in AllWindows |-> 0]
  BY DEF ReadingInit
<1>6. [Unrepairing EXCEPT !.at = "idle"] \in RepairerRows /\ [Unrepairing EXCEPT !.at = "idle"].window = NoWindow
  BY DEF Unrepairing, RepairerRows, RepairerSteps
<1>7. ReadingTypeOK
  <2>1. repairer \in [Repairers -> RepairerRows]
    BY <1>5, <1>6
  <2>2. reader \in [Readers -> [at : ReaderSteps, window : AllWindows \cup {NoWindow}]]
    BY <1>5 DEF ReaderSteps
  <2>3. /\ next \in 0..MaxWindows /\ bought \in [AllWindows -> Nat]
        /\ consolidation \in [at : {"start", "call", "answer", "store", "retry"}, attempt : 1..2]
    BY <1>1, <1>5
  <2> QED BY <1>1, <1>3, <1>4, <1>5, <2>1, <2>2, <2>3 DEF ReadingTypeOK, Phases, RepairerRows
<1>8. PlanInv /\ ReadersInv /\ HandsInv /\ PhaseInv
  BY <1>1, <1>2, <1>5 DEF PlanInv, ReadersInv, HandsInv, PhaseInv, AtWork
<1>9. TakenInv
  BY <1>1, <1>4, <1>5 DEF TakenInv, AllWindows
<1>10. RepairInv
  BY <1>5, <1>6 DEF RepairInv
<1> QED BY <1>7, <1>8, <1>9, <1>10 DEF ReadingInv

LEMMA ReadingNextKeeps == ReadingInv /\ [ReadingNext]_readingVars => ReadingInv'
<1> SUFFICES ASSUME ReadingInv, [ReadingNext]_readingVars PROVE ReadingInv'
  OBVIOUS
<1>1. CASE ReadingNext
  BY <1>1, ReaderStepKeeps, RepairerStepKeeps, StageStepKeeps DEF ReadingNext
<1>2. CASE UNCHANGED readingVars
  BY <1>2 DEF readingVars, ReadingInv, ReadingTypeOK, PlanInv, ReadersInv, HandsInv, TakenInv, ReaderOn,
              PhaseInv, RepairInv
<1> QED BY <1>1, <1>2

LEMMA ReadingInvHolds == ReadingSpec => []ReadingInv
  BY ReadingInitHolds, ReadingNextKeeps, PTL DEF ReadingSpec

(* Every variable of a reading keeps its type. *)
THEOREM ReadingTyped == ReadingSpec => []ReadingTypeOK
<1>1. ReadingInv => ReadingTypeOK
  BY DEF ReadingInv
<1> QED BY <1>1, ReadingInvHolds, PTL

(* What is consolidated is the whole document: each page is in one window and *)
(* each window was read (page-windows.ts, windowed-extraction.ts:140). *)
THEOREM WholeDocumentRead == ReadingSpec => []WholeDocumentConsolidated
  BY WholeDocument, ReadingInvHolds, PTL

(* Nothing is repaired or consolidated out of a read that was not stored      *)
(* (windowed-extraction.ts:120-141). *)
THEOREM ReadsRecordedFirst == ReadingSpec => []ReadsAreRecordedFirst
<1>1. ReadingInv => ReadsAreRecordedFirst
  <2> SUFFICES ASSUME ReadingInv, phase \in {"repair", "consolidate", "done"}, NEW w \in Windows
               PROVE  w \in recorded
    BY DEF ReadsAreRecordedFirst
  <2>1. w \in AllWindows /\ w \in 1..PlanLength(pages) /\ PlanLength(pages) \in Nat
    BY ReadingKnows DEF Windows
  <2>2. ~failed /\ w <= next /\ \A r \in Readers : reader[r].at = "stopped"
    BY <2>1 DEF ReadingInv, PhaseInv
  <2> QED BY <2>1, <2>2 DEF ReadingInv, TakenInv, ReaderOn
<1> QED BY <1>1, ReadingInvHolds, PTL

(* The extraction neither fails nor goes on while a reader is at work         *)
(* (windowed-extraction.ts:132-135). *)
THEOREM SettledBeforeGoingOn == ReadingSpec => []ReadersSettleFirst
<1>1. ReadingInv => ReadersSettleFirst
  BY DEF ReadingInv, PhaseInv, ReadersSettleFirst
<1> QED BY <1>1, ReadingInvHolds, PTL

(* The entry of a window follows what its reader does with it. *)
Own(r, w) ==
    IF result[w] # "none" THEN "answered"
    ELSE IF w > next THEN "free"
    ELSE IF reader[r].window = w /\ reader[r].at \in {"start", "call"} THEN "reserved"
    ELSE IF reader[r].window = w /\ reader[r].at = "answer" THEN "bought" ELSE "refused"

LEMMA OwnEntry ==
    ASSUME NEW r \in Readers, NEW w \in AllWindows,
           \A s \in Readers \ {r} : reader[s].at \in AtWork => reader[s].window # w,
           \A s \in Readers \ {r} : reader'[s] = reader[s]
    PROVE  WindowEntry[w] = Own(r, w) /\ WindowEntry'[w] = Own(r, w)'
<1>1. \A steps \in SUBSET AtWork : ReaderOn(w, steps) <=> reader[r].window = w /\ reader[r].at \in steps
  BY DEF ReaderOn
<1>2. \A steps \in SUBSET AtWork : ReaderOn(w, steps)' <=> reader'[r].window = w /\ reader'[r].at \in steps
  BY DEF ReaderOn
<1>3. {"start", "call"} \in SUBSET AtWork /\ {"answer"} \in SUBSET AtWork
  BY DEF AtWork
<1> QED BY <1>1, <1>2, <1>3 DEF WindowEntry, Own

LEMMA OtherEntries ==
    ASSUME NEW r \in Readers, NEW w \in AllWindows, next \in Nat, AllWindows \subseteq Nat,
           \A s \in Readers \ {r} : reader'[s] = reader[s],
           reader[r].window \in {w, NoWindow}, reader'[r].window \in {w, NoWindow}, NoWindow \notin AllWindows,
           next' = next \/ (next' = next + 1 /\ w = next + 1),
           \A v \in AllWindows \ {w} : result'[v] = result[v]
    PROVE  \A v \in AllWindows \ {w} : WindowEntry'[v] = WindowEntry[v]
<1> SUFFICES ASSUME NEW v \in AllWindows \ {w}
             PROVE  WindowEntry'[v] = WindowEntry[v]
  OBVIOUS
<1>1. reader[r].window # v /\ reader'[r].window # v
  OBVIOUS
<1>2. \A steps \in SUBSET AtWork : ReaderOn(v, steps)' <=> ReaderOn(v, steps)
  BY <1>1 DEF ReaderOn
<1>3. {"start", "call"} \in SUBSET AtWork /\ {"answer"} \in SUBSET AtWork
  BY DEF AtWork
<1>4. v > next' <=> v > next
  OBVIOUS
<1> QED BY <1>2, <1>3, <1>4 DEF WindowEntry

(* One entry takes a step of the ledger, or none does. *)
LEMMA WindowMoves ==
    ASSUME NEW w \in AllWindows,
           bought \in [AllWindows -> Nat], bought' \in [AllWindows -> Nat],
           \A v \in AllWindows \ {w} : WindowEntry'[v] = WindowEntry[v] /\ bought'[v] = bought[v],
           \/ WindowEntry'[w] = WindowEntry[w] /\ bought'[w] = bought[w]
           \/ WindowEntry[w] = "free" /\ WindowEntry'[w] = "reserved" /\ bought'[w] = bought[w]
           \/ /\ WindowEntry[w] = "reserved" /\ WindowEntry'[w] = "bought"
              /\ bought[w] = 0 /\ bought'[w] = 1
           \/ /\ WindowEntry[w] = "bought" /\ WindowEntry'[w] = "answered"
              /\ bought[w] = 1 /\ bought'[w] = bought[w]
           \/ /\ WindowEntry[w] \in {"reserved", "bought"} /\ WindowEntry'[w] = "refused"
              /\ bought'[w] = bought[w]
    PROVE  [WindowLedger!Next]_(WindowLedger!ledger)
<1> DEFINE dom == AllWindows
<1>1. /\ WindowEntry = [v \in dom |-> WindowEntry[v]] /\ WindowEntry' = [v \in dom |-> WindowEntry'[v]]
      /\ bought = [v \in dom |-> bought[v]] /\ bought' = [v \in dom |-> bought'[v]]
  BY DEF WindowEntry, AllWindows
<1>2. CASE WindowEntry'[w] = WindowEntry[w] /\ bought'[w] = bought[w]
  BY <1>1, <1>2 DEF WindowLedger!ledger
<1>3. WindowEntry' = [WindowEntry EXCEPT ![w] = WindowEntry'[w]]
  BY <1>1
<1>4. bought'[w] = bought[w] => UNCHANGED bought
  BY <1>1
<1>5. bought'[w] = 1 => bought' = [bought EXCEPT ![w] = 1]
  BY <1>1
<1>6. ASSUME WindowEntry'[w] # WindowEntry[w],
             WindowLedger!Reserve(w) \/ WindowLedger!Buy(w) \/ WindowLedger!Answer(w) \/ WindowLedger!Refuse(w)
      PROVE  WindowLedger!Next
  BY <1>6 DEF WindowLedger!Next, WindowLedger!Moved
<1>7. CASE WindowEntry[w] = "free" /\ WindowEntry'[w] = "reserved" /\ bought'[w] = bought[w]
  <2>1. WindowLedger!Reserve(w)
    BY <1>3, <1>4, <1>7 DEF WindowLedger!Reserve
  <2> QED BY <1>6, <1>7, <2>1
<1>8. CASE /\ WindowEntry[w] = "reserved" /\ WindowEntry'[w] = "bought"
           /\ bought[w] = 0 /\ bought'[w] = 1
  <2>1. WindowLedger!Buy(w)
    BY <1>3, <1>5, <1>8 DEF WindowLedger!Buy
  <2> QED BY <1>6, <1>8, <2>1
<1>9. CASE /\ WindowEntry[w] = "bought" /\ WindowEntry'[w] = "answered"
           /\ bought[w] = 1 /\ bought'[w] = bought[w]
  <2>1. WindowLedger!Answer(w)
    BY <1>3, <1>4, <1>9 DEF WindowLedger!Answer
  <2> QED BY <1>6, <1>9, <2>1
<1>10. CASE /\ WindowEntry[w] \in {"reserved", "bought"} /\ WindowEntry'[w] = "refused"
            /\ bought'[w] = bought[w]
  <2>1. WindowLedger!Refuse(w)
    BY <1>3, <1>4, <1>10 DEF WindowLedger!Refuse
  <2> QED BY <1>6, <1>10, <2>1
<1> QED BY <1>2, <1>7, <1>8, <1>9, <1>10

(* A reader with a window in its hands. *)
LEMMA WorkImplements ==
    ASSUME ReadingInv, NEW r \in Readers,
           \/ RecordStarted(r) \/ CallReader(r) \/ ReaderAnswers(r)
           \/ RecordRead(r) \/ RecordReadFailure(r)
    PROVE  [WindowLedger!Next]_(WindowLedger!ledger)
<1>0. reader[r].window \in AllWindows
  <2>1. reader[r].window \in 1..next /\ 1..next \subseteq AllWindows
    BY ReadingKnows DEF ReadingInv, ReadersInv, AtWork,
       RecordStarted, CallReader, ReaderAnswers, RecordRead, RecordReadFailure
  <2> QED BY <2>1
<1> SUFFICES ASSUME NEW w \in AllWindows, w = reader[r].window
             PROVE  [WindowLedger!Next]_(WindowLedger!ledger)
  BY <1>0
<1>1. reader[r].at \in AtWork
  BY DEF RecordStarted, CallReader, ReaderAnswers, RecordRead, RecordReadFailure, AtWork
<1>2. /\ reader \in [Readers -> ReaderRows] /\ result \in [AllWindows -> Results]
      /\ bought \in [AllWindows -> Nat] /\ next \in Nat /\ w \in AllWindows /\ w \in Nat /\ w <= next
      /\ AllWindows \subseteq Nat /\ NoWindow \notin AllWindows /\ "none" \notin Limitations
  BY <1>1, ReadingKnows DEF ReadingInv, ReadersInv
<1>3. /\ UNCHANGED next
      /\ \/ \E at \in AtWork : Move(r, at)
         \/ \E at \in {"loop", "stopped"} : Rest(r, at)
  BY DEF RecordStarted, CallReader, ReaderAnswers, RecordRead, RecordReadFailure, AtWork
<1>4. (\A s \in Readers \ {r} : reader'[s] = reader[s]) /\ reader'[r].window \in {w, NoWindow}
  BY <1>2, <1>3 DEF Move, Rest, ReaderRows
<1>5. \A s \in Readers \ {r} : reader[s].at \in AtWork => reader[s].window # w
  BY <1>1 DEF ReadingInv, ReadersInv
<1>6. WindowEntry[w] = Own(r, w) /\ WindowEntry'[w] = Own(r, w)'
  BY <1>2, <1>4, <1>5, OwnEntry
<1>7. ASSUME \A v \in AllWindows \ {w} : result'[v] = result[v]
      PROVE  \A v \in AllWindows \ {w} : WindowEntry'[v] = WindowEntry[v]
  BY <1>2, <1>3, <1>4, <1>7, OtherEntries
<1>8. CASE RecordStarted(r)
  <2>1. /\ UNCHANGED <<result, bought>> /\ reader[r].at = "start" /\ result[w] = "none"
        /\ reader'[r].window = w /\ reader'[r].at \in {"call", "fail"}
    BY <1>2, <1>8 DEF RecordStarted, Move, ReaderRows, ReadingInv, HandsInv
  <2>2. WindowEntry[w] = "reserved" /\ WindowEntry'[w] \in {"reserved", "refused"}
    BY <1>2, <1>3, <1>6, <2>1 DEF Own
  <2> QED BY <1>2, <1>7, <2>1, <2>2, WindowMoves
<1>9. CASE CallReader(r)
  <2>1. /\ UNCHANGED result /\ reader[r].at = "call" /\ result[w] = "none" /\ reader'[r].window = w
        /\ bought[w] = 0
        /\ \/ reader'[r].at = "answer" /\ bought' = [bought EXCEPT ![w] = @ + 1]
           \/ reader'[r].at = "fail" /\ UNCHANGED bought
    BY <1>2, <1>9 DEF CallReader, Move, ReaderRows, ReadingInv, HandsInv
  <2>2. /\ bought' \in [AllWindows -> Nat]
        /\ \A v \in AllWindows \ {w} : bought'[v] = bought[v]
        /\ \/ reader'[r].at = "answer" /\ bought'[w] = 1
           \/ reader'[r].at = "fail" /\ bought'[w] = bought[w]
    BY <1>2, <2>1
  <2>3. /\ WindowEntry[w] = "reserved"
        /\ \/ reader'[r].at = "answer" /\ WindowEntry'[w] = "bought"
           \/ reader'[r].at = "fail" /\ WindowEntry'[w] = "refused"
    BY <1>2, <1>3, <1>6, <2>1 DEF Own
  <2> QED BY <1>2, <1>7, <2>1, <2>2, <2>3, WindowMoves
<1>10. CASE ReaderAnswers(r)
  <2>1. /\ UNCHANGED bought /\ reader[r].at = "answer" /\ result[w] = "none" /\ reader'[r].window = w
        /\ bought[w] = 1
        /\ \/ /\ reader'[r].at = "store"
              /\ \E limitation \in Limitations : result' = [result EXCEPT ![w] = limitation]
           \/ reader'[r].at = "fail" /\ UNCHANGED result
    BY <1>2, <1>10 DEF ReaderAnswers, LimitationsOf, Limitations, Move, ReaderRows, ReadingInv, HandsInv
  <2>2. /\ \A v \in AllWindows \ {w} : result'[v] = result[v]
        /\ \/ reader'[r].at = "store" /\ result'[w] # "none"
           \/ reader'[r].at = "fail" /\ result'[w] = "none"
    BY <1>2, <2>1
  <2>3. WindowEntry[w] = "bought" /\ WindowEntry'[w] \in {"answered", "refused"}
    BY <1>2, <1>3, <1>6, <2>1, <2>2 DEF Own
  <2> QED BY <1>2, <1>7, <2>1, <2>2, <2>3, WindowMoves
<1>11. CASE RecordRead(r) \/ RecordReadFailure(r)
  <2>1. UNCHANGED <<result, bought>> /\ reader[r].at \in {"store", "fail"}
    BY <1>11 DEF RecordRead, RecordReadFailure
  <2>2. reader'[r].at \in {"loop", "stopped", "fail"}
    BY <1>2, <1>11 DEF RecordRead, RecordReadFailure, Move, Rest, ReaderRows
  <2>3. WindowEntry'[w] = WindowEntry[w]
    BY <1>2, <1>3, <1>6, <2>1, <2>2 DEF Own
  <2> QED BY <1>2, <1>7, <2>1, <2>3, WindowMoves
<1> QED BY <1>8, <1>9, <1>10, <1>11

LEMMA TakeImplements ==
    ASSUME ReadingInv, NEW r \in Readers, TakeWindow(r)
    PROVE  [WindowLedger!Next]_(WindowLedger!ledger)
<1>0. next + 1 \in AllWindows
  BY ReadingKnows DEF TakeWindow
<1> SUFFICES ASSUME NEW w \in AllWindows, w = next + 1
             PROVE  [WindowLedger!Next]_(WindowLedger!ledger)
  BY <1>0
<1>1. /\ reader \in [Readers -> ReaderRows] /\ bought \in [AllWindows -> Nat]
      /\ next \in Nat /\ AllWindows = 1..MaxWindows /\ MaxWindows \in Nat /\ AllWindows \subseteq Nat
      /\ NoWindow = 0 /\ NoWindow \notin AllWindows /\ PlanLength(pages) <= MaxWindows
      /\ PlanLength(pages) \in Nat
  BY ReadingKnows
<1>2. /\ w \in AllWindows /\ next' = w /\ UNCHANGED <<result, bought>>
      /\ reader[r].at = "loop" /\ reader[r].window = NoWindow
  BY <1>1 DEF TakeWindow, ReadingInv, ReadersInv
<1>3. \A s \in Readers \ {r} : reader'[s] = reader[s]
  BY <1>1 DEF TakeWindow, Rest, ReaderRows
<1>4. /\ reader'[r].window \in {w, NoWindow}
      /\ result[w] = "none" => reader'[r].at = "start" /\ reader'[r].window = w
  BY <1>1 DEF TakeWindow, AlreadyRead, Rest, ReaderRows
<1>5. \A s \in Readers \ {r} : reader[s].at \in AtWork => reader[s].window # w
  BY <1>1 DEF ReadingInv, ReadersInv
<1>6. WindowEntry[w] = Own(r, w) /\ WindowEntry'[w] = Own(r, w)'
  BY <1>2, <1>3, <1>5, OwnEntry
<1>7. \A v \in AllWindows \ {w} : WindowEntry'[v] = WindowEntry[v]
  BY <1>1, <1>2, <1>3, <1>4, OtherEntries
<1>8. \/ WindowEntry'[w] = WindowEntry[w]
      \/ WindowEntry[w] = "free" /\ WindowEntry'[w] = "reserved"
  BY <1>1, <1>2, <1>4, <1>6 DEF Own
<1> QED BY <1>1, <1>2, <1>7, <1>8, WindowMoves

(* Everyone else leaves the ledger alone. *)
LEMMA RestStutters ==
    ASSUME ReadingInv,
           \/ \E r \in Readers : ReaderStops(r)
           \/ \E q \in Repairers : RepairerStep(q)
           \/ StageStep \/ UNCHANGED readingVars
    PROVE  UNCHANGED WindowLedger!ledger
<1>1. CASE \E r \in Readers : ReaderStops(r)
  <2>1. PICK r \in Readers : ReaderStops(r)
    BY <1>1
  <2>2. UNCHANGED <<next, result, bought>> /\ reader[r].at = "loop" /\ reader'[r].at = "stopped"
        /\ \A s \in Readers \ {r} : reader'[s] = reader[s]
    BY <2>1, ReadingKnows DEF ReaderStops, Rest, ReaderRows
  <2>3. \A w \in AllWindows, steps \in SUBSET AtWork : ReaderOn(w, steps)' <=> ReaderOn(w, steps)
    BY <2>2 DEF ReaderOn, AtWork
  <2>4. {"start", "call"} \in SUBSET AtWork /\ {"answer"} \in SUBSET AtWork
    BY DEF AtWork
  <2> QED BY <2>2, <2>3, <2>4 DEF WindowLedger!ledger, WindowEntry, AllWindows
<1>2. ASSUME UNCHANGED <<next, reader, bought>>,
             \A w \in AllWindows : result'[w] = "none" <=> result[w] = "none"
      PROVE  UNCHANGED WindowLedger!ledger
  BY <1>2 DEF WindowLedger!ledger, WindowEntry, AllWindows, ReaderOn
<1>3. CASE \E q \in Repairers : RepairerStep(q)
  <2>1. PICK q \in Repairers : RepairerStep(q)
    BY <1>3
  <2>2. UNCHANGED <<next, reader, bought>>
    BY <2>1 DEF RepairerStep, NextTarget, StartReread, RereadAnswers, RecordReread, RecordRepairFailure,
                RepairsOnly
  <2>3. \/ UNCHANGED result
        \/ \E left \in Limitations : result' = [result EXCEPT ![repairer[q].window] = left]
    BY <2>1 DEF RepairerStep, NextTarget, StartReread, RereadAnswers, RecordReread, RecordRepairFailure
  <2>4. repairer[q].window # NoWindow => result[repairer[q].window] # "none"
    BY DEF ReadingInv, RepairInv
  <2>5. NoWindow \notin AllWindows /\ result \in [AllWindows -> Results] /\ "none" \notin Limitations
    BY ReadingKnows
  <2>6. \A w \in AllWindows : result'[w] = "none" <=> result[w] = "none"
    BY <2>3, <2>4, <2>5
  <2> QED BY <1>2, <2>2, <2>6
<1>4. CASE StageStep \/ UNCHANGED readingVars
  <2>1. UNCHANGED <<next, reader, bought, result>>
    BY <1>4 DEF StageStep, SettleReading, SettleRepair, StartConsolidation, CallConsolidation,
         ConsolidationAnswers, RecordConsolidation, RetryConsolidation, ConsolidationOnly, readingVars
  <2> QED BY <1>2, <2>1
<1> QED BY <1>1, <1>3, <1>4

(* Each window is bought at most once: whichever reader takes it, its entry   *)
(* is reserved before the call, bought by it, and final once answered or      *)
(* refused; a window recovered from an earlier run is bought by nobody        *)
(* (windowed-extraction.ts:60-78, 111-131). *)
THEOREM ReadingImplementsLedger == ReadingSpec => WindowsBoughtOnce
<1>1. ReadingInit => WindowLedger!Init
  <2> SUFFICES ASSUME ReadingInit PROVE WindowLedger!Init
    OBVIOUS
  <2>1. /\ next = 0 /\ AllWindows = 1..MaxWindows /\ MaxWindows \in Nat
        /\ bought = [w \in AllWindows |-> 0]
    BY WindowAssumption DEF ReadingInit, AllWindows
  <2>2. \A w \in AllWindows : WindowEntry[w] \in {"free", "answered"}
    BY <2>1 DEF WindowEntry
  <2>3. WindowEntry \in [AllWindows -> {"free", "answered"}]
    BY <2>2 DEF WindowEntry
  <2> QED BY <2>1, <2>3 DEF WindowLedger!Init
<1>2. ReadingInv /\ [ReadingNext]_readingVars => [WindowLedger!Next]_(WindowLedger!ledger)
  <2> SUFFICES ASSUME ReadingInv, [ReadingNext]_readingVars
               PROVE  [WindowLedger!Next]_(WindowLedger!ledger)
    OBVIOUS
  <2>1. CASE \E r \in Readers : ReaderStep(r)
    BY <2>1, WorkImplements, TakeImplements, RestStutters DEF ReaderStep
  <2>2. CASE ~\E r \in Readers : ReaderStep(r)
    BY <2>2, RestStutters DEF ReadingNext
  <2> QED BY <2>1, <2>2
<1> QED BY <1>1, <1>2, ReadingInvHolds, PTL DEF ReadingSpec, WindowLedger!Spec, WindowsBoughtOnce

--------------------------------------------------------------------------------
(* The selective verification. *)

Calling == {"call", "answer", "store", "refuse"}
(* What the lease recovery leaves of a row, and a row that came to nothing     *)
(* while whoever called for it worked: a recovery may have started over it. *)
Lapsed(r) == r.status = "FAILED" /\ r.expired /\ ~r.kept
Lost(r) == r.status = "FAILED" \/ (r.status = "SUCCEEDED" /\ r.expired)
OwnersInv ==
    /\ \A a \in Audits :
         LET k == audit[a].key IN
         /\ audit[a].at \in Calling =>
              /\ row[k].request = audit[a].request
              /\ row[k].status = "RUNNING" \/ (Lapsed(row[k]) /\ ~audit[a].current)
         /\ audit[a].at = "call" => calls[k] = 0
         /\ audit[a].at \in {"answer", "store"} => calls[k] = 1
         /\ audit[a].at = "store" => audit[a].outcome.status = "answered"
    /\ \A a, b \in Audits :
         audit[a].at \in Calling /\ audit[b].at \in Calling /\ audit[a].key = audit[b].key => a = b
RowsInv ==
    \A k \in Rows :
      /\ row[k].status = "NONE" => calls[k] = 0 /\ ~row[k].kept
      /\ row[k].status = "RUNNING" => ~row[k].kept /\ ~row[k].expired
      /\ row[k].status = "SUCCEEDED" => row[k].kept
RecoveryInv ==
    /\ row["recovery"].status # "NONE" => Lost(row["primary"])
    /\ \A a \in Audits : audit[a].at = "lookup_recovery" \/ audit[a].key = "recovery" =>
         Lost(row["primary"])

(* The same, of rows that are given: what a diagnosis may rest on. *)
KeptFor(rows, k, in) ==
    /\ rows[k].status \in {"SUCCEEDED", "FAILED"} /\ rows[k].kept
    /\ rows[k].request.rules = in.rules /\ rows[k].request.candidates = in.candidates
CoveredBy(rows, k, in) ==
    KeptFor(rows, k, in) /\ rows[k].status = "SUCCEEDED" /\ rows[k].answer.quality = "complete"
Founded(rows, m, told) ==
    told.class = "SUSPICIOUS" =>
        \/ "duplicate" \in told.request.candidates
        \/ "rule" \in told.request.candidates /\ ~told.request.limited
        \/ \E k \in Rows : KeptFor(rows, k, told.request) /\ rows[k].answer.proves
        \/ \E k \in Rows : /\ CoveredBy(rows, k, told.request)
                           /\ (m = "enforce" /\ rows[k].answer.adds) \/ "rule" \in told.request.candidates
Verified(rows, m, told) ==
    /\ m = "enforce" /\ Required(told.request)
    /\ told.class = "OK" \/ told.band = "HIGH"
    => \E k \in Rows : CoveredBy(rows, k, told.request)
(* A diagnosis that is stored, or still can be, rests on the rows: this is     *)
(* where the version of the note counts. *)
Telling(m) == m.at = "done" \/ (m.at = "decided" /\ m.current)
DiagnosesInv ==
    \A a \in Audits : Telling(audit[a]) => Founded(row, mode, audit[a]) /\ Verified(row, mode, audit[a])
VerificationInv == VerificationTypeOK /\ OwnersInv /\ RowsInv /\ RecoveryInv /\ DiagnosesInv

(* An answer an audit uses is one of them. *)
Proven(rows, in, outcome) ==
    outcome.status \in {"answered", "rejected"} =>
        \E k \in Rows : /\ KeptFor(rows, k, in) /\ rows[k].answer = outcome.answer
                        /\ outcome.status = "answered" => rows[k].status = "SUCCEEDED"

LEMMA PropertiesOfRows == VerificationInv => SuspicionIsBacked /\ VerifiedOrLimited
  BY DEF VerificationInv, DiagnosesInv, Telling, SuspicionIsBacked, VerifiedOrLimited, Founded, Verified,
         Holds, Covers, KeptFor, CoveredBy

(* Only a finding of the file, of a rule on an unlimited reading, or of an     *)
(* answer makes a suspicion. *)
LEMMA SuspicionGrounds ==
    ASSUME NEW in \in Requests, NEW outcome \in Outcomes, NEW m \in Modes,
           NEW mended \in Mendable(in, outcome), Classify(in, outcome, m, mended) = "SUSPICIOUS"
    PROVE  \/ "duplicate" \in in.candidates
           \/ "rule" \in in.candidates /\ ~in.limited
           \/ outcome.status \in {"answered", "rejected"} /\ outcome.answer.proves
           \/ /\ Complete(outcome)
              /\ (m = "enforce" /\ outcome.answer.adds) \/ "rule" \in in.candidates
<1> DEFINE limited   == in.limited /\ "reading" \notin mended
           gap       == IF "support" \in mended THEN "none" ELSE in.gap
           found     == LocalFinding(in, limited) \/ Confirmed(outcome, m)
           evaluated == Decide(in, found, limited, gap)
<1>1. evaluated = "SUSPICIOUS"
  <2> HIDE DEF evaluated, limited
  <2>1. Classify(in, outcome, m, mended) =
          LET verdict == IF (limited \/ Unverified(in, outcome, m)) /\ evaluated = "OK"
                        THEN "INFORMATION_INSUFFICIENT" ELSE evaluated
          IN  IF in.answering /\ verdict = "NEEDS_CONTEXT" THEN "INFORMATION_INSUFFICIENT" ELSE verdict
    BY DEF Classify, evaluated, limited
  <2> QED BY <2>1
<1>2. found
  <2> HIDE DEF found, limited, gap
  <2> QED BY <1>1 DEF Decide
<1>3. ~Complete(outcome) => mended = {}
  BY DEF Mendable
<1> QED BY <1>2, <1>3 DEF LocalFinding, Confirmed

(* A verification that was called for in enforce and does not cover the        *)
(* attachment leaves neither an OK nor a high assurance. *)
LEMMA UncoveredIsLimited ==
    ASSUME NEW in \in Requests, NEW outcome \in Outcomes, NEW mended \in Mendable(in, outcome),
           Required(in), ~Complete(outcome)
    PROVE  /\ Classify(in, outcome, "enforce", mended) # "OK"
           /\ \A class : Assurance(in, class, outcome, "enforce", mended) # "HIGH"
<1>1. mended = {}
  BY DEF Mendable
<1>2. Unverified(in, outcome, "enforce")
  BY DEF Unverified
<1>3. Classify(in, outcome, "enforce", mended) # "OK"
  <2> DEFINE evaluated == Decide(in, LocalFinding(in, in.limited /\ "reading" \notin mended)
                                     \/ Confirmed(outcome, "enforce"),
                                 in.limited /\ "reading" \notin mended,
                                 IF "support" \in mended THEN "none" ELSE in.gap)
             verdict    == IF evaluated = "OK" THEN "INFORMATION_INSUFFICIENT" ELSE evaluated
  <2>1. Classify(in, outcome, "enforce", mended) =
          IF in.answering /\ verdict = "NEEDS_CONTEXT" THEN "INFORMATION_INSUFFICIENT" ELSE verdict
    BY <1>2 DEF Classify
  <2> HIDE DEF evaluated
  <2> QED BY <2>1
<1>4. \A class : Assurance(in, class, outcome, "enforce", mended) # "HIGH"
  <2> SUFFICES ASSUME NEW class PROVE Assurance(in, class, outcome, "enforce", mended) # "HIGH"
    OBVIOUS
  <2>1. ResolvedBand(in, class, outcome, "enforce") = "LIMITED"
    <3>1. CASE class = "READ_FAILED"
      BY <3>1 DEF ResolvedBand
    <3>2. CASE class # "READ_FAILED"
      BY <3>2 DEF ResolvedBand
    <3> QED BY <3>1, <3>2
  <2> QED BY <1>1, <2>1 DEF Assurance
<1> QED BY <1>3, <1>4

LEMMA DiagnosisTyped ==
    ASSUME NEW in \in Requests, NEW outcome \in Outcomes, NEW m \in Modes, NEW mended
    PROVE  /\ Classify(in, outcome, m, mended) \in Diagnoses
           /\ \A class : Assurance(in, class, outcome, m, mended) \in {"HIGH", "MEDIUM", "LIMITED"}
<1>1. \A conclusive, limited, gap : Decide(in, conclusive, limited, gap) \in Diagnoses
  BY DEF Decide, Diagnoses
<1>2. Classify(in, outcome, m, mended) \in Diagnoses
  <2> DEFINE limited   == in.limited /\ "reading" \notin mended
             evaluated == Decide(in, LocalFinding(in, limited) \/ Confirmed(outcome, m), limited,
                                 IF "support" \in mended THEN "none" ELSE in.gap)
             verdict    == IF (limited \/ Unverified(in, outcome, m)) /\ evaluated = "OK"
                          THEN "INFORMATION_INSUFFICIENT" ELSE evaluated
  <2>1. Classify(in, outcome, m, mended) =
          IF in.answering /\ verdict = "NEEDS_CONTEXT" THEN "INFORMATION_INSUFFICIENT" ELSE verdict
    BY DEF Classify
  <2>2. evaluated \in Diagnoses
    BY <1>1
  <2> HIDE DEF evaluated, limited
  <2> QED BY <2>1, <2>2 DEF Diagnoses
<1>3. \A class : ResolvedBand(in, class, outcome, m) \in {"HIGH", "MEDIUM", "LIMITED"}
  BY DEF ResolvedBand
<1> QED BY <1>2, <1>3 DEF Assurance

LEMMA OutcomesKnown ==
    /\ Failed \in Outcomes /\ NotRun \in Outcomes /\ Empty \in Answers
    /\ \A answer \in Answers : Answered(answer) \in Outcomes /\ Rejected(answer) \in Outcomes
    /\ \A rows, in : Proven(rows, in, Failed) /\ Proven(rows, in, NotRun)
<1>1. Empty \in Answers
  BY DEF Empty, Answers
<1> QED BY <1>1 DEF Failed, NotRun, Outcomes, Answered, Rejected, Proven

LEMMA BlankKnown == Blank \in Memory /\ Blank.at = "idle" /\ Blank.key = "primary"
<1>1. "idle" \in AuditSteps /\ "primary" \in Rows /\ "none" \in Diagnoses /\ NotRun \in Outcomes
  BY OutcomesKnown DEF AuditSteps, Rows, Diagnoses
<1> QED BY <1>1 DEF Blank, Memory

(* A diagnosis out of a proven outcome is founded. *)
LEMMA DiagnosisIsFounded ==
    ASSUME NEW m \in Modes, NEW rows \in [Rows -> Stored], NEW in \in Requests, NEW outcome \in Outcomes,
           Proven(rows, in, outcome), NEW mended \in Mendable(in, outcome), NEW class, NEW band,
           class = Classify(in, outcome, m, mended), band = Assurance(in, class, outcome, m, mended),
           NEW told, told.request = in, told.class = class, told.band = band
    PROVE  Founded(rows, m, told) /\ Verified(rows, m, told)
<1>1. Complete(outcome) => \E k \in Rows : CoveredBy(rows, k, in) /\ rows[k].answer = outcome.answer
  BY DEF Complete, Proven, CoveredBy
<1>2. Founded(rows, m, told)
  <2> SUFFICES ASSUME class = "SUSPICIOUS"
               PROVE  \/ "duplicate" \in in.candidates
                      \/ "rule" \in in.candidates /\ ~in.limited
                      \/ \E k \in Rows : KeptFor(rows, k, in) /\ rows[k].answer.proves
                      \/ \E k \in Rows : /\ CoveredBy(rows, k, in)
                                         /\ (m = "enforce" /\ rows[k].answer.adds) \/ "rule" \in in.candidates
    BY DEF Founded
  <2>1. CASE outcome.status \in {"answered", "rejected"} /\ outcome.answer.proves
    <3>1. PICK k \in Rows : KeptFor(rows, k, in) /\ rows[k].answer = outcome.answer
      BY <2>1 DEF Proven
    <3> QED BY <2>1, <3>1
  <2>2. CASE /\ Complete(outcome)
             /\ (m = "enforce" /\ outcome.answer.adds) \/ "rule" \in in.candidates
    <3>1. PICK k \in Rows : CoveredBy(rows, k, in) /\ rows[k].answer = outcome.answer
      BY <1>1, <2>2
    <3> QED BY <2>2, <3>1
  <2> QED BY <2>1, <2>2, SuspicionGrounds
<1>3. Verified(rows, m, told)
  <2> SUFFICES ASSUME m = "enforce", Required(in), class = "OK" \/ band = "HIGH"
               PROVE  \E k \in Rows : CoveredBy(rows, k, in)
    BY DEF Verified
  <2> QED BY <1>1, UncoveredIsLimited
<1> QED BY <1>2, <1>3

(* What an audit that goes on as `after` leaves true.  What was kept stays as  *)
(* it is, a row that came to nothing stays lost, and nobody touches the row    *)
(* another audit is calling for.                                               *)
SettledStay ==
    /\ \A k \in Rows : row[k].kept => row'[k] = row[k]
    /\ Lost(row["primary"]) => Lost(row'["primary"])
HandsOff(a) ==
    \A b \in Audits \ {a} : audit[b].at \in Calling =>
        row'[audit[b].key] = row[audit[b].key] /\ calls'[audit[b].key] = calls[audit[b].key]
LEMMA KeptStays ==
    ASSUME VerificationInv, \A k \in Rows : row[k].kept => row'[k] = row[k], NEW m, NEW told
    PROVE  /\ Founded(row, m, told) => Founded(row', m, told)
           /\ Verified(row, m, told) => Verified(row', m, told)
<1>1. ASSUME NEW k \in Rows, NEW in
      PROVE  /\ KeptFor(row, k, in) => KeptFor(row', k, in) /\ row'[k] = row[k]
             /\ CoveredBy(row, k, in) => CoveredBy(row', k, in) /\ row'[k] = row[k]
  BY DEF KeptFor, CoveredBy
<1>2. Founded(row, m, told) => Founded(row', m, told)
  BY <1>1 DEF Founded
<1>3. Verified(row, m, told) => Verified(row', m, told)
  BY <1>1 DEF Verified
<1> QED BY <1>2, <1>3

LEMMA AuditKeeps ==
    ASSUME VerificationInv, NEW a \in Audits, NEW after \in Memory, audit' = [audit EXCEPT ![a] = after],
           UNCHANGED mode, begun' \in 0..MaxAudits,
           row' \in [Rows -> Stored], calls' \in [Rows -> Nat], SettledStay, HandsOff(a), RowsInv',
           after.at \notin Ended => after.request \in Requests,
           after.at \in Calling =>
             /\ row'[after.key].request = after.request
             /\ row'[after.key].status = "RUNNING" \/ (Lapsed(row'[after.key]) /\ ~after.current)
             /\ after.at = "call" => calls'[after.key] = 0
             /\ after.at \in {"answer", "store"} => calls'[after.key] = 1
             /\ after.at = "store" => after.outcome.status = "answered"
             /\ \/ row[after.key].status = "NONE"
                \/ audit[a].at \in Calling /\ audit[a].key = after.key,
           row'["recovery"].status # "NONE" => Lost(row'["primary"]),
           after.at = "lookup_recovery" \/ after.key = "recovery" => Lost(row'["primary"]),
           Telling(after) => Founded(row', mode, after) /\ Verified(row', mode, after)
    PROVE  VerificationInv'
<1>1. /\ audit \in [Audits -> Memory] /\ audit' \in [Audits -> Memory] /\ audit'[a] = after
      /\ \A b \in Audits \ {a} : audit'[b] = audit[b] /\ audit[b].key \in Rows
      /\ after.key \in Rows
  BY DEF VerificationInv, VerificationTypeOK, Memory
<1>2. VerificationTypeOK'
  BY <1>1 DEF VerificationInv, VerificationTypeOK
<1>3. \A b \in Audits \ {a} : audit[b].at \in Calling =>
        /\ row[audit[b].key].status # "NONE"
        /\ ~(audit[a].at \in Calling /\ audit[a].key = audit[b].key)
  BY DEF VerificationInv, OwnersInv, Lapsed
<1>4. \A b \in Audits \ {a} : audit[b].at \in Calling =>
        row'[audit[b].key] = row[audit[b].key] /\ calls'[audit[b].key] = calls[audit[b].key]
  BY DEF HandsOff
<1>5. OwnersInv'
  <2>1. ASSUME NEW b \in Audits
        PROVE  LET k == audit'[b].key IN
               /\ audit'[b].at \in Calling =>
                    /\ row'[k].request = audit'[b].request
                    /\ row'[k].status = "RUNNING" \/ (Lapsed(row'[k]) /\ ~audit'[b].current)
               /\ audit'[b].at = "call" => calls'[k] = 0
               /\ audit'[b].at \in {"answer", "store"} => calls'[k] = 1
               /\ audit'[b].at = "store" => audit'[b].outcome.status = "answered"
    <3>1. CASE b = a
      BY <1>1, <3>1 DEF Calling
    <3>2. CASE b # a
      BY <1>1, <1>4, <3>2 DEF VerificationInv, OwnersInv, Calling
    <3> QED BY <3>1, <3>2
  <2>2. \A b \in Audits \ {a} : audit[b].at \in Calling /\ after.at \in Calling => audit[b].key # after.key
    BY <1>3
  <2>3. \A b, c \in Audits :
          audit'[b].at \in Calling /\ audit'[c].at \in Calling /\ audit'[b].key = audit'[c].key => b = c
    BY <1>1, <2>2 DEF VerificationInv, OwnersInv
  <2> QED BY <2>1, <2>3 DEF OwnersInv
<1>6. RecoveryInv'
  <2>1. ASSUME NEW b \in Audits, audit'[b].at = "lookup_recovery" \/ audit'[b].key = "recovery"
        PROVE  Lost(row'["primary"])
    BY <1>1, <2>1 DEF VerificationInv, RecoveryInv, SettledStay
  <2> QED BY <2>1 DEF RecoveryInv
<1>7. DiagnosesInv'
  <2> SUFFICES ASSUME NEW b \in Audits, Telling(audit'[b])
               PROVE  Founded(row', mode, audit'[b]) /\ Verified(row', mode, audit'[b])
    BY DEF DiagnosesInv
  <2>1. CASE b = a
    BY <1>1, <2>1
  <2>2. CASE b # a
    <3>1. Founded(row, mode, audit[b]) /\ Verified(row, mode, audit[b]) /\ audit'[b] = audit[b]
      BY <1>1, <2>2 DEF VerificationInv, DiagnosesInv
    <3> QED BY <3>1, KeptStays DEF SettledStay
  <2> QED BY <2>1, <2>2
<1> QED BY <1>2, <1>5, <1>6, <1>7 DEF VerificationInv

(* An audit that holds no row moves on, the rows being what they were. *)
LEMMA QuietKeeps ==
    ASSUME VerificationInv, NEW a \in Audits, NEW after \in Memory, audit' = [audit EXCEPT ![a] = after],
           UNCHANGED <<mode, row, calls>>, begun' \in 0..MaxAudits, after.at \notin Calling,
           after.at \notin Ended => after.request \in Requests,
           after.at = "lookup_recovery" \/ after.key = "recovery" => Lost(row["primary"]),
           Telling(after) => Founded(row, mode, after) /\ Verified(row, mode, after)
    PROVE  VerificationInv'
<1>1. Telling(after) => Founded(row', mode, after) /\ Verified(row', mode, after)
  OBVIOUS
<1>2. SettledStay /\ HandsOff(a) /\ RowsInv'
  BY DEF SettledStay, HandsOff, VerificationInv, RowsInv
<1>3. row' \in [Rows -> Stored] /\ calls' \in [Rows -> Nat]
  BY DEF VerificationInv, VerificationTypeOK
<1>4. row'["recovery"].status # "NONE" => Lost(row'["primary"])
  BY DEF VerificationInv, RecoveryInv
<1> QED BY <1>1, <1>2, <1>3, <1>4, AuditKeeps

(* The note gets another version, a diagnosis may be stored with it, and rows  *)
(* that ran may be closed. *)
LEMMA OutdatingKeeps ==
    ASSUME VerificationInv, UNCHANGED <<mode, calls, begun>>,
           row' \in [Rows -> Stored], audit' \in [Audits -> Memory],
           \A k \in Rows : \/ row'[k] = row[k]
                           \/ row[k].status = "RUNNING" /\ Lapsed(row'[k]) /\ row'[k].request = row[k].request,
           \A b \in Audits :
             /\ audit'[b].key = audit[b].key /\ audit'[b].request = audit[b].request
             /\ audit'[b].outcome = audit[b].outcome
             /\ audit'[b].class = audit[b].class /\ audit'[b].band = audit[b].band
             /\ audit'[b].at = audit[b].at \/ (audit[b].at = "decided" /\ audit'[b].at = "done")
             /\ audit[b].at \in Calling => ~audit'[b].current
             /\ Telling(audit'[b]) => Telling(audit[b])
    PROVE  VerificationInv'
<1>1. \A b \in Audits : audit'[b].at \in Calling \cup {"lookup_recovery"} => audit'[b].at = audit[b].at
  BY DEF Calling
<1>2. VerificationTypeOK'
  BY DEF VerificationInv, VerificationTypeOK, Ended
<1>3. \A k \in Rows : row[k].kept => row'[k] = row[k]
  BY DEF VerificationInv, RowsInv
<1>4. "primary" \in Rows /\ "recovery" \in Rows /\ \A b \in Audits : audit[b].key \in Rows
  BY DEF VerificationInv, VerificationTypeOK, Memory, Rows
<1>5. OwnersInv'
  <2>1. ASSUME NEW b \in Audits
        PROVE  LET k == audit'[b].key IN
               /\ audit'[b].at \in Calling =>
                    /\ row'[k].request = audit'[b].request
                    /\ row'[k].status = "RUNNING" \/ (Lapsed(row'[k]) /\ ~audit'[b].current)
               /\ audit'[b].at = "call" => calls'[k] = 0
               /\ audit'[b].at \in {"answer", "store"} => calls'[k] = 1
               /\ audit'[b].at = "store" => audit'[b].outcome.status = "answered"
    <3> SUFFICES ASSUME NEW k \in Rows, k = audit[b].key
                 PROVE  /\ audit'[b].at \in Calling =>
                             /\ row'[k].request = audit'[b].request
                             /\ row'[k].status = "RUNNING" \/ (Lapsed(row'[k]) /\ ~audit'[b].current)
                        /\ audit'[b].at = "call" => calls'[k] = 0
                        /\ audit'[b].at \in {"answer", "store"} => calls'[k] = 1
                        /\ audit'[b].at = "store" => audit'[b].outcome.status = "answered"
      BY <1>4
    <3>1. audit'[b].at \in Calling =>
            /\ audit[b].at \in Calling /\ ~audit'[b].current /\ row[k].request = audit[b].request
            /\ row[k].status = "RUNNING" \/ Lapsed(row[k])
      BY <1>1 DEF VerificationInv, OwnersInv
    <3>2. row'[k] = row[k] \/ (Lapsed(row'[k]) /\ row'[k].request = row[k].request)
      OBVIOUS
    <3>3. audit'[b].at \in Calling => /\ row'[k].request = audit'[b].request
                                      /\ row'[k].status = "RUNNING" \/ Lapsed(row'[k])
      BY <3>1, <3>2
    <3>4. audit'[b].at \in {"call", "answer", "store"} => audit'[b].at = audit[b].at
      BY <1>1 DEF Calling
    <3> QED BY <3>1, <3>3, <3>4 DEF VerificationInv, OwnersInv
  <2>2. \A b, c \in Audits :
          audit'[b].at \in Calling /\ audit'[c].at \in Calling /\ audit'[b].key = audit'[c].key => b = c
    BY <1>1 DEF VerificationInv, OwnersInv
  <2> QED BY <2>1, <2>2 DEF OwnersInv
<1>6. RowsInv'
  BY DEF VerificationInv, RowsInv, Lapsed
<1>7. RecoveryInv'
  BY <1>1, <1>4 DEF VerificationInv, RecoveryInv, Lost, Lapsed
<1>8. DiagnosesInv'
  <2> SUFFICES ASSUME NEW b \in Audits, Telling(audit'[b])
               PROVE  Founded(row', mode, audit'[b]) /\ Verified(row', mode, audit'[b])
    BY DEF DiagnosesInv
  <2>1. Founded(row, mode, audit[b]) /\ Verified(row, mode, audit[b])
    BY DEF VerificationInv, DiagnosesInv
  <2>2. Founded(row', mode, audit[b]) /\ Verified(row', mode, audit[b])
    BY <1>3, <2>1, KeptStays
  <2> QED BY <2>2 DEF Founded, Verified
<1> QED BY <1>2, <1>5, <1>6, <1>7, <1>8 DEF VerificationInv

Bands == {"HIGH", "MEDIUM", "LIMITED"}
(* The memory of an audit that has decided. *)
Told(in, current, class, band) ==
    [Blank EXCEPT !.at = "decided", !.request = in, !.current = current, !.class = class, !.band = band]
LEMMA BlankTells ==
    ASSUME NEW in \in Requests, NEW current \in BOOLEAN, NEW class \in Diagnoses, NEW band \in Bands
    PROVE  LET m == Told(in, current, class, band)
           IN  /\ m \in Memory /\ m.at = "decided" /\ m.request = in /\ m.key = "primary"
               /\ m.current = current /\ m.class = class /\ m.band = band
<1> DEFINE one   == [Blank EXCEPT !.at = "decided"]
           two   == [one EXCEPT !.request = in]
           three == [two EXCEPT !.current = current]
           four  == [three EXCEPT !.class = class]
           five  == [four EXCEPT !.band = band]
<1>1. one \in Memory /\ one.at = "decided" /\ one.key = "primary"
  BY BlankKnown DEF Memory, AuditSteps
<1> HIDE DEF one
<1>2. two \in Memory /\ two.at = "decided" /\ two.request = in /\ two.key = "primary"
  BY <1>1 DEF Memory
<1> HIDE DEF two
<1>3. /\ three \in Memory /\ three.at = "decided" /\ three.request = in /\ three.key = "primary"
      /\ three.current = current
  BY <1>2 DEF Memory
<1> HIDE DEF three
<1>4. /\ four \in Memory /\ four.at = "decided" /\ four.request = in /\ four.key = "primary"
      /\ four.current = current /\ four.class = class
  BY <1>3 DEF Memory
<1> HIDE DEF four
<1>5. /\ five \in Memory /\ five.at = "decided" /\ five.request = in /\ five.key = "primary"
      /\ five.current = current /\ five.class = class /\ five.band = band
  BY <1>4 DEF Memory, Bands
<1>6. Told(in, current, class, band) = five
  BY DEF one, two, three, four, Told
<1> HIDE DEF five
<1> QED BY <1>5, <1>6

Looking(in, current, recovers) ==
    [Blank EXCEPT !.at = "lookup", !.request = in, !.current = current, !.recovers = recovers]
LEMMA BlankLooks ==
    ASSUME NEW in \in Requests, NEW current \in BOOLEAN, NEW recovers \in BOOLEAN
    PROVE  LET after == Looking(in, current, recovers)
           IN  after \in Memory /\ after.at = "lookup" /\ after.request = in /\ after.key = "primary"
<1> DEFINE one   == [Blank EXCEPT !.at = "lookup"]
           two   == [one EXCEPT !.request = in]
           three == [two EXCEPT !.current = current]
           four  == [three EXCEPT !.recovers = recovers]
<1>1. one \in Memory /\ one.at = "lookup" /\ one.key = "primary"
  BY BlankKnown DEF Memory, AuditSteps
<1> HIDE DEF one
<1>2. two \in Memory /\ two.at = "lookup" /\ two.request = in /\ two.key = "primary"
  BY <1>1 DEF Memory
<1> HIDE DEF two
<1>3. three \in Memory /\ three.at = "lookup" /\ three.request = in /\ three.key = "primary"
  BY <1>2 DEF Memory
<1> HIDE DEF three
<1>4. four \in Memory /\ four.at = "lookup" /\ four.request = in /\ four.key = "primary"
  BY <1>3 DEF Memory
<1>5. Looking(in, current, recovers) = four
  BY DEF one, two, three, four, Looking
<1> HIDE DEF four
<1> QED BY <1>4, <1>5

(* An audit that has its outcome decides; what it decides rests on the rows if *)
(* the note is still the one it loaded and the outcome was kept. *)
LEMMA Diagnosing ==
    ASSUME NEW rows \in [Rows -> Stored], mode \in Modes, NEW a, NEW in \in Requests, NEW current \in BOOLEAN,
           NEW outcome \in Outcomes, current => Proven(rows, in, outcome), Diagnose(a, in, current, outcome)
    PROVE  \E after \in Memory :
             /\ audit' = [audit EXCEPT ![a] = after]
             /\ after.at = "decided" /\ after.key = "primary" /\ after.request = in
             /\ Telling(after) => Founded(rows, mode, after) /\ Verified(rows, mode, after)
<1>1. PICK mended \in Mendable(in, outcome) :
        LET class == Classify(in, outcome, mode, mended)
        IN  audit' = [audit EXCEPT ![a] =
                        [Blank EXCEPT !.at = "decided", !.request = in, !.current = current, !.class = class,
                           !.band = Assurance(in, class, outcome, mode, mended)]]
  BY DEF Diagnose
<1>2. \E class \in Diagnoses, band \in Bands :
        class = Classify(in, outcome, mode, mended) /\ band = Assurance(in, class, outcome, mode, mended)
  BY DiagnosisTyped DEF Bands
<1>3. PICK class \in Diagnoses, band \in Bands :
        class = Classify(in, outcome, mode, mended) /\ band = Assurance(in, class, outcome, mode, mended)
  BY <1>2
<1> DEFINE told == Told(in, current, class, band)
<1>4. audit' = [audit EXCEPT ![a] = told]
  BY <1>1, <1>3 DEF Told
<1>5. /\ told \in Memory /\ told.at = "decided" /\ told.request = in /\ told.key = "primary"
      /\ told.current = current /\ told.class = class /\ told.band = band
  BY BlankTells
<1> HIDE DEF told
<1>6. Telling(told) => Founded(rows, mode, told) /\ Verified(rows, mode, told)
  <2> SUFFICES ASSUME Telling(told) PROVE Founded(rows, mode, told) /\ Verified(rows, mode, told)
    OBVIOUS
  <2>1. Proven(rows, in, outcome)
    BY <1>5 DEF Telling
  <2> QED BY <1>3, <1>5, <2>1, DiagnosisIsFounded
<1> QED BY <1>4, <1>5, <1>6

(* What a row is worth to an audit was kept for it. *)
LEMMA RefusedWorthProven ==
    ASSUME VerificationInv, NEW k \in Rows, NEW in \in Requests
    PROVE  RefusedWorth(k, in) \in Outcomes /\ Proven(row, in, RefusedWorth(k, in))
<1>1. row[k] \in Stored /\ row[k].answer \in Answers
  BY DEF VerificationInv, VerificationTypeOK, Stored
<1>2. CASE row[k].status = "FAILED" /\ row[k].kept /\ SameQuestion(k, in) /\ row[k].answer.proves
  <2>1. RefusedWorth(k, in) = Rejected(row[k].answer)
    BY <1>2 DEF RefusedWorth
  <2>2. Proven(row, in, Rejected(row[k].answer))
    BY <1>2 DEF Proven, KeptFor, SameQuestion, Rejected
  <2> QED BY <1>1, <2>1, <2>2, OutcomesKnown
<1>3. CASE ~(row[k].status = "FAILED" /\ row[k].kept /\ SameQuestion(k, in) /\ row[k].answer.proves)
  <2>1. RefusedWorth(k, in) = Failed
    BY <1>3 DEF RefusedWorth
  <2> QED BY <2>1, OutcomesKnown
<1> QED BY <1>2, <1>3

LEMMA WorthProven ==
    ASSUME VerificationInv, NEW k \in Rows, NEW in \in Requests
    PROVE  Worth(k, in) \in Outcomes /\ Proven(row, in, Worth(k, in))
<1>1. row[k] \in Stored /\ row[k].answer \in Answers
  BY DEF VerificationInv, VerificationTypeOK, Stored
<1>2. CASE row[k].status = "SUCCEEDED" /\ SameQuestion(k, in)
  <2>1. Worth(k, in) = Answered(row[k].answer)
    BY <1>2 DEF Worth
  <2>2. row[k].kept
    BY <1>2 DEF VerificationInv, RowsInv
  <2>3. Proven(row, in, Answered(row[k].answer))
    BY <1>2, <2>2 DEF Proven, KeptFor, SameQuestion, Answered
  <2> QED BY <1>1, <2>1, <2>3, OutcomesKnown
<1>3. CASE ~(row[k].status = "SUCCEEDED" /\ SameQuestion(k, in))
  <2>1. Worth(k, in) = RefusedWorth(k, in)
    BY <1>3 DEF Worth
  <2> QED BY <2>1, RefusedWorthProven
<1> QED BY <1>2, <1>3

LEMMA QuietDiagnosis ==
    ASSUME VerificationInv, NEW a \in Audits, UNCHANGED <<mode, row, calls>>, begun' \in 0..MaxAudits,
           NEW in \in Requests, NEW current \in BOOLEAN, NEW outcome \in Outcomes,
           current => Proven(row, in, outcome), Diagnose(a, in, current, outcome)
    PROVE  VerificationInv'
<1>1. row \in [Rows -> Stored] /\ mode \in Modes
  BY DEF VerificationInv, VerificationTypeOK
<1>2. PICK after \in Memory :
        /\ audit' = [audit EXCEPT ![a] = after]
        /\ after.at = "decided" /\ after.key = "primary" /\ after.request = in
        /\ Telling(after) => Founded(row, mode, after) /\ Verified(row, mode, after)
  BY <1>1, Diagnosing
<1>3. after.at \notin Calling /\ after.at # "lookup_recovery" /\ after.key # "recovery"
  BY <1>2 DEF Calling
<1> QED BY <1>2, <1>3, QuietKeeps

LEMMA BeginKeeps ==
    ASSUME VerificationInv, NEW a \in Audits, Begin(a)
    PROVE  VerificationInv'
<1>1. UNCHANGED <<mode, row, calls>> /\ begun' \in 0..MaxAudits
  <2>1. begun \in 0..MaxAudits /\ MaxAudits \in Nat
    BY VerificationAssumption DEF VerificationInv, VerificationTypeOK
  <2>2. begun < MaxAudits /\ begun' = begun + 1 /\ UNCHANGED <<mode, row, calls>>
    BY DEF Begin
  <2> QED BY <2>1, <2>2
<1>2. ASSUME NEW in \in Starts, NEW recovers \in BOOLEAN,
             audit' = [audit EXCEPT ![a] = [Blank EXCEPT !.at = "lookup", !.request = in,
                                                        !.current = TRUE, !.recovers = recovers]]
      PROVE  VerificationInv'
  <2>0. PICK current \in BOOLEAN : current = TRUE
    OBVIOUS
  <2> DEFINE after == Looking(in, current, recovers)
  <2>1. in \in Requests
    BY VerificationAssumption
  <2>2. after \in Memory /\ after.at = "lookup" /\ after.request = in /\ after.key = "primary"
    BY <2>1, BlankLooks
  <2>3. audit' = [audit EXCEPT ![a] = after]
    BY <1>2, <2>0 DEF Looking
  <2> HIDE DEF after
  <2>4. after.at \notin Calling /\ after.request \in Requests /\ ~Telling(after)
    BY <2>1, <2>2 DEF Calling, Telling
  <2> QED BY <1>1, <2>2, <2>3, <2>4, QuietKeeps
<1>3. ASSUME NEW in \in Starts, Diagnose(a, in, TRUE, NotRun)
      PROVE  VerificationInv'
  <2>1. in \in Requests /\ NotRun \in Outcomes /\ Proven(row, in, NotRun)
    BY VerificationAssumption, OutcomesKnown
  <2> QED BY <1>1, <1>3, <2>1, QuietDiagnosis
<1> QED BY <1>2, <1>3 DEF Begin

(* A step that changes where an audit is, and its key or its outcome. *)
LEMMA MovedTo ==
    ASSUME NEW old \in Memory, NEW at \in AuditSteps
    PROVE  LET after == [old EXCEPT !.at = at]
           IN  /\ after \in Memory /\ after.at = at /\ after.key = old.key /\ after.request = old.request
               /\ after.outcome = old.outcome /\ after.recovers = old.recovers
               /\ after.current = old.current
  BY DEF Memory
Over(old, at, k) == [old EXCEPT !.at = at, !.key = k]
LEMMA MovedOver ==
    ASSUME NEW old \in Memory, NEW at \in AuditSteps, NEW k \in Rows
    PROVE  /\ Over(old, at, k) \in Memory /\ Over(old, at, k).at = at
           /\ Over(old, at, k).key = k /\ Over(old, at, k).request = old.request
<1> DEFINE one == [old EXCEPT !.at = at]
<1>1. one \in Memory /\ one.at = at /\ one.request = old.request
  BY DEF Memory
<1> HIDE DEF one
<1>2. /\ [one EXCEPT !.key = k] \in Memory /\ [one EXCEPT !.key = k].at = at
      /\ [one EXCEPT !.key = k].key = k /\ [one EXCEPT !.key = k].request = old.request
  BY <1>1 DEF Memory
<1>3. Over(old, at, k) = [one EXCEPT !.key = k]
  BY DEF one, Over
<1> QED BY <1>2, <1>3
With(old, at, outcome) == [old EXCEPT !.at = at, !.outcome = outcome]
LEMMA MovedWith ==
    ASSUME NEW old \in Memory, NEW at \in AuditSteps, NEW outcome \in Outcomes
    PROVE  /\ With(old, at, outcome) \in Memory /\ With(old, at, outcome).at = at
           /\ With(old, at, outcome).key = old.key /\ With(old, at, outcome).request = old.request
           /\ With(old, at, outcome).outcome = outcome /\ With(old, at, outcome).current = old.current
<1> DEFINE one == [old EXCEPT !.at = at]
           two == [one EXCEPT !.outcome = outcome]
<1>1. /\ one \in Memory /\ one.at = at /\ one.key = old.key /\ one.request = old.request
      /\ one.current = old.current
  BY DEF Memory
<1> HIDE DEF one
<1>2. /\ two \in Memory /\ two.at = at /\ two.key = old.key /\ two.request = old.request
      /\ two.outcome = outcome /\ two.current = old.current
  BY <1>1 DEF Memory
<1>3. With(old, at, outcome) = two
  BY DEF one, With
<1> QED BY <1>2, <1>3

LEMMA GoQuietly ==
    ASSUME VerificationInv, NEW a \in Audits, NEW at \in {"lookup_recovery", "create", "raced"}, Go(a, at),
           UNCHANGED <<mode, row, calls, begun>>, audit[a].at \notin Ended,
           at = "lookup_recovery" => Lost(row["primary"])
    PROVE  VerificationInv'
<1> DEFINE after == [audit[a] EXCEPT !.at = at]
<1>1. /\ audit[a] \in Memory /\ at \in AuditSteps /\ at \notin Calling /\ at \notin {"done", "decided"}
      /\ audit[a].request \in Requests /\ begun \in 0..MaxAudits
      /\ audit[a].key = "recovery" => Lost(row["primary"])
  BY DEF VerificationInv, VerificationTypeOK, AuditSteps, Calling, RecoveryInv
<1>2. after \in Memory /\ after.at = at /\ after.key = audit[a].key /\ after.request = audit[a].request
  BY <1>1, MovedTo
<1>3. audit' = [audit EXCEPT ![a] = after]
  BY DEF Go
<1> HIDE DEF after
<1>4. ~Telling(after)
  BY <1>1, <1>2 DEF Telling
<1> QED BY <1>1, <1>2, <1>3, <1>4, QuietKeeps

LEMMA UseKeeps ==
    ASSUME VerificationInv, NEW a \in Audits, audit[a].at \notin Ended, UNCHANGED <<mode, row, calls, begun>>,
           NEW outcome \in Outcomes, audit[a].current => Proven(row, audit[a].request, outcome),
           Use(a, outcome)
    PROVE  VerificationInv'
<1>1. audit[a].request \in Requests /\ audit[a].current \in BOOLEAN /\ begun' \in 0..MaxAudits
  BY DEF VerificationInv, VerificationTypeOK, Memory
<1> SUFFICES ASSUME NEW in \in Requests, in = audit[a].request,
                    NEW current \in BOOLEAN, current = audit[a].current
             PROVE  VerificationInv'
  BY <1>1
<1> QED BY <1>1, QuietDiagnosis DEF Use

LEMMA LookupKeeps ==
    ASSUME VerificationInv, NEW a \in Audits, Lookup(a)
    PROVE  VerificationInv'
<1> DEFINE in == audit[a].request
<1>1. /\ audit[a].at = "lookup" /\ audit[a].at \notin Ended /\ UNCHANGED <<mode, row, calls, begun>>
      /\ "primary" \in Rows
  BY DEF Lookup, Ended, Rows
<1>2. in \in Requests
  BY <1>1 DEF VerificationInv, VerificationTypeOK
<1>3. \/ Go(a, "lookup_recovery") /\ Lost(row["primary"])
      \/ Go(a, "create")
      \/ Use(a, Failed)
      \/ Use(a, Worth("primary", in))
  BY <1>2 DEF Lookup, Lost
<1> HIDE DEF in
<1>4. CASE Go(a, "lookup_recovery") /\ Lost(row["primary"])
  BY <1>1, <1>4, GoQuietly
<1>5. CASE Go(a, "create")
  BY <1>1, <1>5, GoQuietly
<1>6. CASE Use(a, Failed)
  BY <1>1, <1>6, UseKeeps, OutcomesKnown
<1>7. CASE Use(a, Worth("primary", in))
  BY <1>1, <1>2, <1>7, UseKeeps, WorthProven DEF in
<1> QED BY <1>3, <1>4, <1>5, <1>6, <1>7

LEMMA LookupRecoveryKeeps ==
    ASSUME VerificationInv, NEW a \in Audits, LookupRecovery(a)
    PROVE  VerificationInv'
<1> DEFINE in == audit[a].request
<1>1. /\ audit[a].at = "lookup_recovery" /\ audit[a].at \notin Ended /\ UNCHANGED <<mode, row, calls, begun>>
      /\ "primary" \in Rows /\ "recovery" \in Rows /\ "create" \in AuditSteps
  BY DEF LookupRecovery, Ended, Rows, AuditSteps
<1>2. in \in Requests /\ audit[a] \in Memory /\ Lost(row["primary"]) /\ begun \in 0..MaxAudits
  BY <1>1 DEF VerificationInv, VerificationTypeOK, RecoveryInv
<1>3. \/ Use(a, Worth("recovery", in))
      \/ audit' = [audit EXCEPT ![a].at = "create", ![a].key = "recovery"]
      \/ Use(a, RefusedWorth("primary", in))
  BY <1>2 DEF LookupRecovery
<1> HIDE DEF in
<1>4. CASE Use(a, Worth("recovery", in))
  BY <1>1, <1>2, <1>4, UseKeeps, WorthProven DEF in
<1>5. CASE audit' = [audit EXCEPT ![a].at = "create", ![a].key = "recovery"]
  <2> DEFINE after == Over(audit[a], "create", "recovery")
  <2>1. after \in Memory /\ after.at = "create" /\ after.key = "recovery" /\ after.request \in Requests
    BY <1>1, <1>2, MovedOver DEF in
  <2>2. audit' = [audit EXCEPT ![a] = after]
    BY <1>5 DEF Over
  <2> HIDE DEF after
  <2>3. after.at \notin Calling /\ ~Telling(after)
    BY <2>1 DEF Calling, Telling
  <2> QED BY <1>1, <1>2, <2>1, <2>2, <2>3, QuietKeeps
<1>6. CASE Use(a, RefusedWorth("primary", in))
  BY <1>1, <1>2, <1>6, UseKeeps, RefusedWorthProven DEF in
<1> QED BY <1>3, <1>4, <1>5, <1>6

LEMMA RacedKeeps ==
    ASSUME VerificationInv, NEW a \in Audits, Raced(a)
    PROVE  VerificationInv'
<1> DEFINE in == audit[a].request
           k  == audit[a].key
<1>1. /\ audit[a].at = "raced" /\ audit[a].at \notin Ended /\ UNCHANGED <<mode, row, calls, begun>>
      /\ Use(a, Worth(k, in)) \/ Use(a, Failed)
  BY DEF Raced, Ended
<1>2. in \in Requests /\ k \in Rows
  BY <1>1 DEF VerificationInv, VerificationTypeOK, Memory
<1> HIDE DEF in, k
<1>3. CASE Use(a, Worth(k, in))
  BY <1>1, <1>2, <1>3, UseKeeps, WorthProven DEF in
<1>4. CASE Use(a, Failed)
  BY <1>1, <1>4, UseKeeps, OutcomesKnown
<1> QED BY <1>1, <1>3, <1>4

(* An audit that is gone leaves nothing in memory. *)
LEMMA GoneKeeps ==
    ASSUME VerificationInv, NEW a \in Audits, audit' = [audit EXCEPT ![a] = [Blank EXCEPT !.at = "gone"]],
           UNCHANGED <<mode, row, calls, begun>>
    PROVE  VerificationInv'
<1> DEFINE after == [Blank EXCEPT !.at = "gone"]
<1>1. audit' = [audit EXCEPT ![a] = after] /\ begun \in 0..MaxAudits
  BY DEF VerificationInv, VerificationTypeOK
<1>2. after \in Memory /\ after.at = "gone" /\ after.key = "primary"
  BY BlankKnown, MovedTo DEF AuditSteps
<1> HIDE DEF after
<1>3. after.at \in Ended /\ after.at \notin Calling /\ ~Telling(after)
  BY <1>2 DEF Ended, Calling, Telling
<1> QED BY <1>1, <1>2, <1>3, QuietKeeps

LEMMA AuditDiesKeeps ==
    ASSUME VerificationInv, NEW a \in Audits, AuditDies(a)
    PROVE  VerificationInv'
BY GoneKeeps DEF AuditDies

(* The audits under way are of a version that passed. *)
LEMMA OutdatedAudits ==
    ASSUME audit \in [Audits -> Memory]
    PROVE  /\ Outdated \in [Audits -> Memory]
           /\ \A b \in Audits :
                /\ Outdated[b].at = audit[b].at /\ Outdated[b].key = audit[b].key
                /\ Outdated[b].request = audit[b].request /\ Outdated[b].outcome = audit[b].outcome
                /\ Outdated[b].class = audit[b].class /\ Outdated[b].band = audit[b].band
                /\ audit[b].at \notin Ended => ~Outdated[b].current
<1> SUFFICES ASSUME NEW b \in Audits
             PROVE  /\ Outdated[b] \in Memory
                    /\ Outdated[b].at = audit[b].at /\ Outdated[b].key = audit[b].key
                    /\ Outdated[b].request = audit[b].request /\ Outdated[b].outcome = audit[b].outcome
                    /\ Outdated[b].class = audit[b].class /\ Outdated[b].band = audit[b].band
                    /\ audit[b].at \notin Ended => ~Outdated[b].current
  BY DEF Outdated
<1>1. audit[b] \in Memory
  OBVIOUS
<1>2. CASE audit[b].at \in Ended
  <2>1. Outdated[b] = audit[b]
    BY <1>2 DEF Outdated
  <2> QED BY <1>1, <1>2, <2>1
<1>3. CASE audit[b].at \notin Ended
  <2>1. PICK passed \in BOOLEAN : passed = FALSE
    OBVIOUS
  <2>2. Outdated[b] = [audit[b] EXCEPT !.current = passed]
    BY <1>3, <2>1 DEF Outdated
  <2>3. [audit[b] EXCEPT !.current = passed] \in Memory
    BY <1>1 DEF Memory
  <2>4. /\ Outdated[b].at = audit[b].at /\ Outdated[b].key = audit[b].key
        /\ Outdated[b].request = audit[b].request /\ Outdated[b].outcome = audit[b].outcome
        /\ Outdated[b].class = audit[b].class /\ Outdated[b].band = audit[b].band
        /\ Outdated[b].current = passed
    BY <1>1, <2>2 DEF Memory
  <2> QED BY <2>1, <2>2, <2>3, <2>4
<1> QED BY <1>2, <1>3

Stores(old, current) == [old EXCEPT !.at = "done", !.current = current]
LEMMA StoresMemory ==
    ASSUME NEW old \in Memory, NEW current \in BOOLEAN
    PROVE  LET m == Stores(old, current)
           IN  /\ m \in Memory /\ m.at = "done" /\ m.key = old.key /\ m.request = old.request
               /\ m.outcome = old.outcome /\ m.class = old.class /\ m.band = old.band
<1> DEFINE one == [old EXCEPT !.at = "done"]
           two == [one EXCEPT !.current = current]
<1>1. /\ one \in Memory /\ one.at = "done" /\ one.key = old.key /\ one.request = old.request
      /\ one.outcome = old.outcome /\ one.class = old.class /\ one.band = old.band
  BY DEF Memory, AuditSteps
<1> HIDE DEF one
<1>2. /\ two \in Memory /\ two.at = "done" /\ two.key = old.key /\ two.request = old.request
      /\ two.outcome = old.outcome /\ two.class = old.class /\ two.band = old.band
  BY <1>1 DEF Memory
<1>3. Stores(old, current) = two
  BY DEF one, Stores
<1> HIDE DEF two
<1> QED BY <1>2, <1>3

LEMMA FinalizeAuditKeeps ==
    ASSUME VerificationInv, NEW a \in Audits, FinalizeAudit(a)
    PROVE  VerificationInv'
<1>1. UNCHANGED <<mode, row, calls, begun>> /\ audit[a].at = "decided"
  BY DEF FinalizeAudit
<1>2. CASE ~audit[a].current
  BY <1>1, <1>2, GoneKeeps DEF FinalizeAudit
<1>3. CASE audit[a].current
  <2>1. audit \in [Audits -> Memory] /\ row \in [Rows -> Stored]
    BY DEF VerificationInv, VerificationTypeOK
  <2>2. PICK passed \in BOOLEAN : passed = FALSE
    OBVIOUS
  <2> DEFINE stored == Stores(Outdated[a], passed)
  <2>3. audit' = [Outdated EXCEPT ![a] = stored]
    BY <1>3, <2>2 DEF FinalizeAudit, Stores
  <2>4. /\ stored \in Memory /\ stored.at = "done" /\ stored.key = audit[a].key
        /\ stored.request = audit[a].request /\ stored.outcome = audit[a].outcome
        /\ stored.class = audit[a].class /\ stored.band = audit[a].band
    <3>1. Outdated[a] \in Memory
      BY <2>1, OutdatedAudits
    <3> QED BY <2>1, <3>1, OutdatedAudits, StoresMemory
  <2> HIDE DEF stored
  <2>5. audit' \in [Audits -> Memory] /\ audit'[a] = stored /\ \A b \in Audits \ {a} : audit'[b] = Outdated[b]
    BY <2>1, <2>3, <2>4, OutdatedAudits
  <2>6. ASSUME NEW b \in Audits
        PROVE  /\ audit'[b].key = audit[b].key /\ audit'[b].request = audit[b].request
               /\ audit'[b].outcome = audit[b].outcome
               /\ audit'[b].class = audit[b].class /\ audit'[b].band = audit[b].band
               /\ audit'[b].at = audit[b].at \/ (audit[b].at = "decided" /\ audit'[b].at = "done")
               /\ audit[b].at \in Calling => ~audit'[b].current
               /\ Telling(audit'[b]) => Telling(audit[b])
    <3>1. CASE b = a
      BY <1>1, <1>3, <2>4, <2>5, <3>1 DEF Calling, Telling
    <3>2. CASE b # a
      BY <2>1, <2>5, <3>2, OutdatedAudits DEF Calling, Ended, Telling
    <3> QED BY <3>1, <3>2
  <2>7. row' \in [Rows -> Stored] /\ UNCHANGED row
    BY <1>1, <2>1
  <2> QED BY <1>1, <2>5, <2>6, <2>7, OutdatingKeeps
<1> QED BY <1>2, <1>3

(* The row of an expired lease. *)
LapsedRow(old, expired) == [old EXCEPT !.status = "FAILED", !.expired = expired]
LEMMA RowLapses ==
    ASSUME NEW old \in Stored, NEW expired \in BOOLEAN
    PROVE  /\ LapsedRow(old, expired) \in Stored /\ LapsedRow(old, expired).status = "FAILED"
           /\ LapsedRow(old, expired).request = old.request /\ LapsedRow(old, expired).kept = old.kept
           /\ LapsedRow(old, expired).expired = expired
<1> DEFINE one == [old EXCEPT !.status = "FAILED"]
           two == [one EXCEPT !.expired = expired]
<1>1. one \in Stored /\ one.status = "FAILED" /\ one.request = old.request /\ one.kept = old.kept
  BY DEF Stored
<1> HIDE DEF one
<1>2. /\ two \in Stored /\ two.status = "FAILED" /\ two.request = old.request /\ two.kept = old.kept
      /\ two.expired = expired
  BY <1>1 DEF Stored
<1>3. LapsedRow(old, expired) = two
  BY DEF one, LapsedRow
<1> HIDE DEF two
<1> QED BY <1>2, <1>3

LEMMA LeaseClosesRows ==
    ASSUME VerificationInv, NEW closed \in SUBSET {k \in Rows : row[k].status = "RUNNING"},
           row' = [k \in Rows |-> IF k \in closed
                                  THEN [row[k] EXCEPT !.status = "FAILED", !.expired = TRUE] ELSE row[k]]
    PROVE  /\ row' \in [Rows -> Stored]
           /\ \A k \in Rows : k \notin closed => row'[k] = row[k]
           /\ \A k \in closed : /\ row[k].status = "RUNNING" /\ Lapsed(row'[k])
                                /\ row'[k].request = row[k].request
<1>1. PICK expired \in BOOLEAN : expired = TRUE
  OBVIOUS
<1>2. row' = [k \in Rows |-> IF k \in closed THEN LapsedRow(row[k], expired) ELSE row[k]]
  BY <1>1 DEF LapsedRow
<1>3. row \in [Rows -> Stored]
  BY DEF VerificationInv, VerificationTypeOK
<1>4. \A k \in Rows : LapsedRow(row[k], expired) \in Stored
  BY <1>3, RowLapses
<1>5. row' \in [Rows -> Stored]
  BY <1>2, <1>3, <1>4
<1>6. ASSUME NEW k \in closed
      PROVE  row[k].status = "RUNNING" /\ Lapsed(row'[k]) /\ row'[k].request = row[k].request
  <2>1. k \in Rows /\ row[k].status = "RUNNING" /\ row[k] \in Stored /\ ~row[k].kept
    BY <1>3 DEF VerificationInv, RowsInv
  <2>2. row'[k] = LapsedRow(row[k], expired)
    BY <1>2, <2>1
  <2>3. /\ LapsedRow(row[k], expired).status = "FAILED" /\ LapsedRow(row[k], expired).request = row[k].request
        /\ LapsedRow(row[k], expired).kept = row[k].kept /\ LapsedRow(row[k], expired).expired
    BY <1>1, <2>1, RowLapses
  <2> QED BY <2>1, <2>2, <2>3 DEF Lapsed
<1> QED BY <1>2, <1>5, <1>6

LEMMA LeaseRecoveredKeeps ==
    ASSUME VerificationInv, LeaseRecovered
    PROVE  VerificationInv'
<1>1. PICK closed \in SUBSET {k \in Rows : row[k].status = "RUNNING"} :
        row' = [k \in Rows |-> IF k \in closed
                               THEN [row[k] EXCEPT !.status = "FAILED", !.expired = TRUE] ELSE row[k]]
  BY DEF LeaseRecovered
<1>2. UNCHANGED <<mode, calls, begun>> /\ audit' = Outdated
  BY DEF LeaseRecovered
<1>3. /\ row' \in [Rows -> Stored]
      /\ \A k \in Rows : \/ row'[k] = row[k]
                         \/ (row[k].status = "RUNNING" /\ Lapsed(row'[k]) /\ row'[k].request = row[k].request)
  BY <1>1, LeaseClosesRows
<1>4. audit \in [Audits -> Memory]
  BY DEF VerificationInv, VerificationTypeOK
<1>5. audit' \in [Audits -> Memory]
  BY <1>2, <1>4, OutdatedAudits
<1>6. ASSUME NEW b \in Audits
      PROVE  /\ audit'[b].key = audit[b].key /\ audit'[b].request = audit[b].request
             /\ audit'[b].outcome = audit[b].outcome
             /\ audit'[b].class = audit[b].class /\ audit'[b].band = audit[b].band
             /\ audit'[b].at = audit[b].at
             /\ audit[b].at \in Calling => ~audit'[b].current
             /\ Telling(audit'[b]) => Telling(audit[b])
  BY <1>2, <1>4, OutdatedAudits DEF Calling, Ended, Telling
<1> QED BY <1>2, <1>3, <1>5, <1>6, OutdatingKeeps

Created(in) == [NoRow EXCEPT !.status = "RUNNING", !.request = in]
LEMMA CreatedRow ==
    ASSUME NEW in \in Requests
    PROVE  /\ Created(in) \in Stored /\ Created(in).status = "RUNNING" /\ Created(in).request = in
           /\ ~Created(in).kept /\ ~Created(in).expired
<1> DEFINE one == [NoRow EXCEPT !.status = "RUNNING"]
           two == [one EXCEPT !.request = in]
<1>1. NoRow \in Stored /\ ~NoRow.kept /\ ~NoRow.expired
  BY OutcomesKnown DEF NoRow, Stored
<1>2. one \in Stored /\ one.status = "RUNNING" /\ ~one.kept /\ ~one.expired
  BY <1>1 DEF Stored
<1> HIDE DEF one
<1>3. two \in Stored /\ two.status = "RUNNING" /\ two.request = in /\ ~two.kept /\ ~two.expired
  BY <1>2 DEF Stored
<1>4. Created(in) = two
  BY DEF one, two, Created
<1> HIDE DEF two
<1> QED BY <1>3, <1>4

(* The row of the key is created, by one audit. *)
LEMMA CreateKeeps ==
    ASSUME VerificationInv, NEW a \in Audits, Create(a)
    PROVE  VerificationInv'
<1>1. /\ audit[a].at = "create" /\ audit[a].at \notin Ended /\ audit[a].at \notin Calling
      /\ UNCHANGED <<mode, calls, begun>>
  BY DEF Create, Ended, Calling
<1>2. audit[a].key \in Rows /\ audit[a].request \in Requests
  BY <1>1 DEF VerificationInv, VerificationTypeOK, Memory
<1> SUFFICES ASSUME NEW k \in Rows, k = audit[a].key, NEW in \in Requests, in = audit[a].request
             PROVE  VerificationInv'
  BY <1>2
<1>3. CASE row[k].status # "NONE"
  <2>1. Go(a, "raced") /\ UNCHANGED row
    BY <1>3 DEF Create
  <2> QED BY <1>1, <2>1, GoQuietly
<1>4. CASE row[k].status = "NONE"
  <2> DEFINE created == Created(in)
             after   == [audit[a] EXCEPT !.at = "call"]
  <2>1. row' = [row EXCEPT ![k] = created] /\ audit' = [audit EXCEPT ![a] = after]
    BY <1>4 DEF Create, Go, Created
  <2>2. /\ audit[a] \in Memory /\ row \in [Rows -> Stored] /\ calls \in [Rows -> Nat]
        /\ begun \in 0..MaxAudits
        /\ audit[a].key = "recovery" => Lost(row["primary"])
        /\ row["recovery"].status # "NONE" => Lost(row["primary"])
    BY DEF VerificationInv, VerificationTypeOK, RecoveryInv
  <2>3. after \in Memory /\ after.at = "call" /\ after.key = k /\ after.request = in
    <3>1. "call" \in AuditSteps
      BY DEF AuditSteps
    <3> QED BY <2>2, <3>1, MovedTo
  <2>4. /\ created \in Stored /\ created.status = "RUNNING" /\ created.request = in
        /\ ~created.kept /\ ~created.expired
    BY CreatedRow
  <2> HIDE DEF created, after
  <2>5. /\ row' \in [Rows -> Stored] /\ row'[k] = created
        /\ \A other \in Rows \ {k} : row'[other] = row[other]
    BY <2>1, <2>2, <2>4
  <2>6. calls[k] = 0 /\ RowsInv'
    <3>1. calls[k] = 0
      BY <1>4 DEF VerificationInv, RowsInv
    <3>2. RowsInv'
      BY <1>1, <2>4, <2>5 DEF VerificationInv, RowsInv
    <3> QED BY <3>1, <3>2
  <2>7. SettledStay /\ HandsOff(a)
    <3>1. ~row[k].kept /\ ~Lost(row[k])
      BY <1>4 DEF VerificationInv, RowsInv, Lost
    <3>2. \A b \in Audits : audit[b].at \in Calling => audit[b].key \in Rows /\ audit[b].key # k
      BY <1>4 DEF VerificationInv, OwnersInv, VerificationTypeOK, Memory, Lapsed
    <3>3. HandsOff(a)
      BY <1>1, <2>5, <3>2 DEF HandsOff
    <3> QED BY <2>5, <3>1, <3>3 DEF SettledStay, Rows
  <2>8. /\ row'["recovery"].status # "NONE" => Lost(row'["primary"])
        /\ after.key = "recovery" => Lost(row'["primary"])
    <3>1. k = "recovery" \/ k = "primary"
      BY DEF Rows
    <3>2. "recovery" \in Rows /\ "primary" \in Rows
      BY DEF Rows
    <3>3. ~Lost(row[k])
      BY <1>4 DEF Lost
    <3> QED BY <1>4, <2>2, <2>3, <2>5, <3>1, <3>2, <3>3
  <2>9. ~Telling(after)
    BY <2>3 DEF Telling
  <2> QED BY <1>1, <1>4, <2>1, <2>2, <2>3, <2>4, <2>5, <2>6, <2>7, <2>8, <2>9, AuditKeeps
<1> QED BY <1>3, <1>4

(* An audit goes on with the row it created, paying for it at most. *)
LEMMA CallingKeeps ==
    ASSUME VerificationInv, NEW a \in Audits, audit[a].at \in Calling, UNCHANGED <<mode, row, begun>>,
           NEW after \in Memory, audit' = [audit EXCEPT ![a] = after], after.at \in Calling,
           after.key = audit[a].key, after.request = audit[a].request, after.current = audit[a].current,
           calls' \in [Rows -> Nat], \A k \in Rows \ {audit[a].key} : calls'[k] = calls[k],
           after.at = "call" => calls'[after.key] = 0,
           after.at \in {"answer", "store"} => calls'[after.key] = 1,
           after.at = "store" => after.outcome.status = "answered"
    PROVE  VerificationInv'
<1>1. /\ row[audit[a].key].request = audit[a].request
      /\ row[audit[a].key].status = "RUNNING" \/ (Lapsed(row[audit[a].key]) /\ ~audit[a].current)
      /\ row \in [Rows -> Stored] /\ begun \in 0..MaxAudits
      /\ audit[a].key = "recovery" => Lost(row["primary"])
      /\ row["recovery"].status # "NONE" => Lost(row["primary"])
  BY DEF VerificationInv, VerificationTypeOK, OwnersInv, RecoveryInv
<1>2. audit[a].request \in Requests
  BY DEF VerificationInv, VerificationTypeOK, Calling, Ended
<1>3. RowsInv'
  BY <1>1 DEF VerificationInv, RowsInv, Lapsed
<1>4. SettledStay /\ HandsOff(a)
  <2>1. \A b \in Audits \ {a} : audit[b].at \in Calling => audit[b].key \in Rows \ {audit[a].key}
    BY DEF VerificationInv, OwnersInv, VerificationTypeOK, Memory
  <2> QED BY <2>1 DEF SettledStay, HandsOff
<1>5. ~Telling(after) /\ after.at # "lookup_recovery"
  BY DEF Telling, Calling
<1> QED BY <1>1, <1>2, <1>3, <1>4, <1>5, AuditKeeps

LEMMA CallVerifierKeeps ==
    ASSUME VerificationInv, NEW a \in Audits, CallVerifier(a)
    PROVE  VerificationInv'
<1>1. /\ audit[a].at = "call" /\ audit[a].at \in Calling /\ UNCHANGED <<mode, row, begun>>
      /\ {"answer", "refuse"} \subseteq AuditSteps /\ {"answer", "refuse"} \subseteq Calling
  BY DEF CallVerifier, Calling, AuditSteps
<1>2. audit[a] \in Memory /\ calls \in [Rows -> Nat] /\ calls[audit[a].key] = 0 /\ audit[a].key \in Rows
  BY <1>1 DEF VerificationInv, VerificationTypeOK, OwnersInv, Memory
<1>3. CASE calls' = [calls EXCEPT ![audit[a].key] = @ + 1] /\ Go(a, "answer")
  <2> DEFINE after == [audit[a] EXCEPT !.at = "answer"]
  <2>1. /\ after \in Memory /\ after.at = "answer" /\ after.key = audit[a].key
        /\ after.request = audit[a].request /\ after.current = audit[a].current
    BY <1>1, <1>2, MovedTo
  <2>2. audit' = [audit EXCEPT ![a] = after]
    BY <1>3 DEF Go
  <2>3. /\ calls' \in [Rows -> Nat] /\ calls'[audit[a].key] = 1
        /\ \A k \in Rows \ {audit[a].key} : calls'[k] = calls[k]
    BY <1>2, <1>3
  <2> HIDE DEF after
  <2> QED BY <1>1, <2>1, <2>2, <2>3, CallingKeeps
<1>4. CASE audit' = [audit EXCEPT ![a].at = "refuse", ![a].outcome = Failed] /\ UNCHANGED calls
  <2> DEFINE after == With(audit[a], "refuse", Failed)
  <2>1. /\ after \in Memory /\ after.at = "refuse" /\ after.key = audit[a].key
        /\ after.request = audit[a].request /\ after.current = audit[a].current
    <3>1. "refuse" \in AuditSteps /\ Failed \in Outcomes
      BY OutcomesKnown DEF AuditSteps
    <3> QED BY <1>2, <3>1, MovedWith
  <2>2. audit' = [audit EXCEPT ![a] = after]
    BY <1>4 DEF With
  <2>3. UNCHANGED calls
    BY <1>4
  <2> HIDE DEF after
  <2> QED BY <1>1, <1>2, <2>1, <2>2, <2>3, CallingKeeps
<1> QED BY <1>3, <1>4 DEF CallVerifier

LEMMA VerifierAnswersKeeps ==
    ASSUME VerificationInv, NEW a \in Audits, VerifierAnswers(a)
    PROVE  VerificationInv'
<1>1. /\ audit[a].at = "answer" /\ audit[a].at \in Calling /\ UNCHANGED <<mode, row, calls, begun>>
      /\ {"store", "refuse"} \subseteq AuditSteps /\ {"store", "refuse"} \subseteq Calling
  BY DEF VerifierAnswers, Calling, AuditSteps
<1>2. audit[a] \in Memory /\ calls \in [Rows -> Nat] /\ calls[audit[a].key] = 1
  BY <1>1 DEF VerificationInv, VerificationTypeOK, OwnersInv
<1>3. ASSUME NEW at \in {"store", "refuse"}, NEW outcome \in Outcomes,
             at = "store" => outcome.status = "answered",
             audit' = [audit EXCEPT ![a].at = at, ![a].outcome = outcome]
      PROVE  VerificationInv'
  <2> DEFINE after == With(audit[a], at, outcome)
  <2>1. /\ after \in Memory /\ after.at = at /\ after.key = audit[a].key
        /\ after.request = audit[a].request /\ after.outcome = outcome /\ after.current = audit[a].current
    BY <1>1, <1>2, MovedWith
  <2>2. audit' = [audit EXCEPT ![a] = after]
    BY <1>3 DEF With
  <2> HIDE DEF after
  <2> QED BY <1>1, <1>2, <1>3, <2>1, <2>2, CallingKeeps
<1>4. CASE audit' = [audit EXCEPT ![a].at = "refuse", ![a].outcome = Failed]
  BY <1>3, <1>4, OutcomesKnown
<1>5. ASSUME NEW answer \in Answers,
             audit' = [audit EXCEPT ![a].at = IF answer.quality = "invalid" THEN "refuse" ELSE "store",
                        ![a].outcome = IF answer.quality = "invalid" THEN Rejected(answer)
                                       ELSE Answered(answer)]
      PROVE  VerificationInv'
  <2>1. CASE answer.quality = "invalid"
    <3>1. audit' = [audit EXCEPT ![a].at = "refuse", ![a].outcome = Rejected(answer)]
      BY <1>5, <2>1
    <3>2. Rejected(answer) \in Outcomes
      BY OutcomesKnown
    <3> QED BY <1>3, <3>1, <3>2
  <2>2. CASE answer.quality # "invalid"
    <3>1. audit' = [audit EXCEPT ![a].at = "store", ![a].outcome = Answered(answer)]
      BY <1>5, <2>2
    <3>2. Answered(answer) \in Outcomes /\ Answered(answer).status = "answered"
      BY OutcomesKnown DEF Answered
    <3> QED BY <1>3, <3>1, <3>2
  <2> QED BY <2>1, <2>2
<1> QED BY <1>4, <1>5 DEF VerifierAnswers

Finished(old, status, kept, answer) == [old EXCEPT !.status = status, !.kept = kept, !.answer = answer]
LEMMA FinishedRow ==
    ASSUME NEW old \in Stored, NEW status \in {"SUCCEEDED", "FAILED"}, NEW kept \in BOOLEAN, NEW answer \in Answers
    PROVE  /\ Finished(old, status, kept, answer) \in Stored
           /\ Finished(old, status, kept, answer).status = status
           /\ Finished(old, status, kept, answer).request = old.request
           /\ Finished(old, status, kept, answer).kept = kept
           /\ Finished(old, status, kept, answer).answer = answer
           /\ Finished(old, status, kept, answer).expired = old.expired
<1> DEFINE one   == [old EXCEPT !.status = status]
           two   == [one EXCEPT !.kept = kept]
           three == [two EXCEPT !.answer = answer]
<1>1. one \in Stored /\ one.status = status /\ one.request = old.request /\ one.expired = old.expired
  BY DEF Stored
<1> HIDE DEF one
<1>2. /\ two \in Stored /\ two.status = status /\ two.request = old.request /\ two.kept = kept
      /\ two.expired = old.expired
  BY <1>1 DEF Stored
<1> HIDE DEF two
<1>3. /\ three \in Stored /\ three.status = status /\ three.request = old.request /\ three.kept = kept
      /\ three.answer = answer /\ three.expired = old.expired
  BY <1>2 DEF Stored
<1>4. Finished(old, status, kept, answer) = three
  BY DEF one, two, Finished
<1> HIDE DEF three
<1> QED BY <1>3, <1>4

(* An audit settles its row, if it may still be settled, and decides by what   *)
(* the row can show. *)
LEMMA SettleKeeps ==
    ASSUME VerificationInv, NEW a \in Audits, audit[a].at \in Calling, UNCHANGED <<mode, calls, begun>>,
           NEW k \in Rows, k = audit[a].key, NEW in \in Requests, NEW current \in BOOLEAN,
           NEW settled \in Stored,
           settled.status \in {"SUCCEEDED", "FAILED"}, settled.status = "SUCCEEDED" => settled.kept,
           settled.expired = row[k].expired, row[k].status = "FAILED" => settled.status = "SUCCEEDED",
           row' = [row EXCEPT ![k] = settled], NEW outcome \in Outcomes,
           current => Proven(row', in, outcome), Diagnose(a, in, current, outcome)
    PROVE  VerificationInv'
<1>1. /\ row \in [Rows -> Stored] /\ calls \in [Rows -> Nat] /\ begun \in 0..MaxAudits /\ mode \in Modes
      /\ row[k].status = "RUNNING" \/ Lapsed(row[k])
      /\ RowsInv
      /\ k = "recovery" => Lost(row["primary"])
      /\ row["recovery"].status # "NONE" => Lost(row["primary"])
  BY DEF VerificationInv, VerificationTypeOK, OwnersInv, RecoveryInv
<1>2. /\ row' \in [Rows -> Stored] /\ row'[k] = settled
      /\ \A other \in Rows \ {k} : row'[other] = row[other]
  BY <1>1
<1>3. PICK after \in Memory :
        /\ audit' = [audit EXCEPT ![a] = after]
        /\ after.at = "decided" /\ after.key = "primary" /\ after.request = in
        /\ Telling(after) => Founded(row', mode, after) /\ Verified(row', mode, after)
  <2>1. PICK rows \in [Rows -> Stored] : rows = row'
    BY <1>2
  <2>2. current => Proven(rows, in, outcome)
    BY <2>1
  <2>3. \E after \in Memory :
          /\ audit' = [audit EXCEPT ![a] = after]
          /\ after.at = "decided" /\ after.key = "primary" /\ after.request = in
          /\ Telling(after) => Founded(rows, mode, after) /\ Verified(rows, mode, after)
    BY <1>1, <2>2, Diagnosing
  <2> QED BY <2>1, <2>3
<1>4. RowsInv'
  BY <1>1, <1>2 DEF RowsInv
<1>5. ~row[k].kept /\ (Lost(row[k]) => Lost(settled))
  BY <1>1 DEF RowsInv, Lapsed, Lost
<1>6. \A b \in Audits \ {a} : audit[b].at \in Calling => audit[b].key \in Rows \ {k}
  BY DEF VerificationInv, OwnersInv, VerificationTypeOK, Memory
<1>7. "recovery" \in Rows /\ "primary" \in Rows /\ (k = "recovery" \/ k = "primary")
  BY DEF Rows
<1>8. SettledStay /\ HandsOff(a)
  <2>1. Lost(row["primary"]) => Lost(row'["primary"])
    BY <1>2, <1>5, <1>7
  <2>2. \A other \in Rows : row[other].kept => row'[other] = row[other]
    BY <1>2, <1>5
  <2>3. HandsOff(a)
    BY <1>2, <1>6 DEF HandsOff
  <2> QED BY <2>1, <2>2, <2>3 DEF SettledStay
<1>9. row'["recovery"].status # "NONE" => Lost(row'["primary"])
  <2>1. CASE k = "recovery"
    BY <1>1, <1>8, <2>1 DEF SettledStay
  <2>2. CASE k = "primary"
    BY <1>1, <1>2, <1>7, <1>8, <2>2 DEF SettledStay
  <2> QED BY <1>7, <2>1, <2>2
<1>10. /\ after.at \notin Calling /\ after.at # "lookup_recovery" /\ after.key # "recovery"
       /\ begun' \in 0..MaxAudits /\ calls' \in [Rows -> Nat]
  BY <1>1, <1>3 DEF Calling
<1> QED BY <1>2, <1>3, <1>4, <1>8, <1>9, <1>10, AuditKeeps

LEMMA RecordSuccessKeeps ==
    ASSUME VerificationInv, NEW a \in Audits, RecordSuccess(a)
    PROVE  VerificationInv'
<1>1. /\ audit[a].at = "store" /\ audit[a].at \in Calling /\ audit[a].at \notin Ended
      /\ UNCHANGED <<mode, calls, begun>> /\ "refuse" \in AuditSteps /\ "refuse" \in Calling
  BY DEF RecordSuccess, Calling, Ended, AuditSteps
<1>2. /\ audit[a] \in Memory /\ audit[a].key \in Rows /\ audit[a].request \in Requests
      /\ audit[a].outcome \in Outcomes /\ audit[a].outcome.answer \in Answers
      /\ audit[a].current \in BOOLEAN /\ calls \in [Rows -> Nat]
  BY <1>1 DEF VerificationInv, VerificationTypeOK, Memory, Outcomes
<1> SUFFICES ASSUME NEW k \in Rows, k = audit[a].key, NEW in \in Requests, in = audit[a].request,
                    NEW outcome \in Outcomes, outcome = audit[a].outcome, outcome.answer \in Answers,
                    NEW current \in BOOLEAN, current = audit[a].current
             PROVE  VerificationInv'
  BY <1>2
<1>3. row[k] \in Stored /\ row[k].request = in /\ outcome.status = "answered" /\ row \in [Rows -> Stored]
  BY <1>1 DEF VerificationInv, VerificationTypeOK, OwnersInv
<1>4. CASE Go(a, "refuse") /\ UNCHANGED row
  <2> DEFINE after == [audit[a] EXCEPT !.at = "refuse"]
  <2>1. /\ after \in Memory /\ after.at = "refuse" /\ after.key = audit[a].key
        /\ after.request = audit[a].request /\ after.current = audit[a].current
    BY <1>1, <1>2, MovedTo
  <2>2. audit' = [audit EXCEPT ![a] = after]
    BY <1>4 DEF Go
  <2> HIDE DEF after
  <2> QED BY <1>1, <1>2, <1>4, <2>1, <2>2, CallingKeeps
<1>5. CASE /\ row' = [row EXCEPT ![k].status = "SUCCEEDED", ![k].kept = TRUE, ![k].answer = outcome.answer]
           /\ Use(a, outcome)
  <2>0. PICK kept \in BOOLEAN : kept = TRUE
    OBVIOUS
  <2> DEFINE settled == Finished(row[k], "SUCCEEDED", kept, outcome.answer)
  <2>1. /\ settled \in Stored /\ settled.status = "SUCCEEDED" /\ settled.kept /\ settled.request = in
        /\ settled.answer = outcome.answer /\ settled.expired = row[k].expired
    <3>1. /\ settled \in Stored /\ settled.status = "SUCCEEDED" /\ settled.kept = kept
          /\ settled.request = row[k].request /\ settled.answer = outcome.answer
          /\ settled.expired = row[k].expired
      BY <1>3, FinishedRow
    <3> HIDE DEF settled
    <3> QED BY <1>3, <2>0, <3>1
  <2>2. row' = [row EXCEPT ![k] = settled]
    BY <1>5, <2>0 DEF Finished
  <2> HIDE DEF settled
  <2>3. row'[k] = settled
    BY <1>3, <2>2
  <2>4. Proven(row', in, outcome)
    BY <2>1, <2>3 DEF Proven, KeptFor
  <2>5. Diagnose(a, in, current, outcome)
    BY <1>5 DEF Use
  <2> QED BY <1>1, <2>1, <2>2, <2>4, <2>5, SettleKeeps
<1> QED BY <1>4, <1>5 DEF RecordSuccess

LEMMA RecordRefusalKeeps ==
    ASSUME VerificationInv, NEW a \in Audits, RecordRefusal(a)
    PROVE  VerificationInv'
<1>1. /\ audit[a].at = "refuse" /\ audit[a].at \in Calling /\ audit[a].at \notin Ended
      /\ UNCHANGED <<mode, calls, begun>>
  BY DEF RecordRefusal, Calling, Ended
<1>2. /\ audit[a].key \in Rows /\ audit[a].request \in Requests
      /\ audit[a].outcome \in Outcomes /\ audit[a].outcome.answer \in Answers
      /\ audit[a].current \in BOOLEAN
  BY <1>1 DEF VerificationInv, VerificationTypeOK, Memory, Outcomes
<1> SUFFICES ASSUME NEW k \in Rows, k = audit[a].key, NEW in \in Requests, in = audit[a].request,
                    NEW outcome \in Outcomes, outcome = audit[a].outcome, outcome.answer \in Answers,
                    NEW current \in BOOLEAN, current = audit[a].current
             PROVE  VerificationInv'
  BY <1>2
<1>3. /\ row[k] \in Stored /\ row[k].request = in /\ row \in [Rows -> Stored]
      /\ row[k].status # "RUNNING" => ~current
  BY <1>1 DEF VerificationInv, VerificationTypeOK, OwnersInv
<1>4. CASE Use(a, Failed) /\ UNCHANGED row
  BY <1>1, <1>4, UseKeeps, OutcomesKnown
<1>5. CASE /\ row[k].status = "RUNNING"
           /\ row' = [row EXCEPT ![k].status = "FAILED", ![k].kept = (outcome # Failed),
                                 ![k].answer = outcome.answer]
           /\ Use(a, AfterRefusal(a))
  <2>0. PICK kept \in BOOLEAN : kept = (outcome # Failed)
    OBVIOUS
  <2> DEFINE settled == Finished(row[k], "FAILED", kept, outcome.answer)
             used    == AfterRefusal(a)
  <2>1. /\ settled \in Stored /\ settled.status = "FAILED" /\ settled.request = in
        /\ settled.kept = kept /\ settled.answer = outcome.answer /\ settled.expired = row[k].expired
    BY <1>3, FinishedRow
  <2>2. row' = [row EXCEPT ![k] = settled]
    BY <1>5, <2>0 DEF Finished
  <2>3. used = Failed \/ (used = outcome /\ outcome.status = "rejected")
    BY DEF AfterRefusal
  <2>4. Diagnose(a, in, current, used)
    BY <1>5 DEF Use
  <2> HIDE DEF settled, used
  <2>5. row'[k] = settled
    BY <1>3, <2>2
  <2>6. outcome.status = "rejected" => outcome # Failed
    BY DEF Failed
  <2>7. Proven(row', in, outcome) \/ outcome.status # "rejected"
    BY <2>0, <2>1, <2>5, <2>6 DEF Proven, KeptFor
  <2>8. Proven(row', in, used) /\ used \in Outcomes
    BY <2>3, <2>7, OutcomesKnown
  <2>9. row[k].status # "FAILED"
    BY <1>5
  <2> QED BY <1>1, <2>1, <2>2, <2>4, <2>8, <2>9, SettleKeeps
<1>6. CASE row[k].status # "RUNNING" /\ Use(a, AfterRefusal(a)) /\ UNCHANGED row
  <2>1. AfterRefusal(a) \in Outcomes
    BY OutcomesKnown DEF AfterRefusal
  <2> QED BY <1>1, <1>3, <1>6, <2>1, UseKeeps
<1>7. \/ Use(a, Failed) /\ UNCHANGED row
      \/ /\ row[k].status = "RUNNING"
         /\ row' = [row EXCEPT ![k].status = "FAILED", ![k].kept = (outcome # Failed),
                                ![k].answer = outcome.answer]
         /\ Use(a, AfterRefusal(a))
      \/ row[k].status # "RUNNING" /\ Use(a, AfterRefusal(a)) /\ UNCHANGED row
  BY <1>3 DEF RecordRefusal
<1> QED BY <1>4, <1>5, <1>6, <1>7

LEMMA VerificationInitHolds == VerificationInit => VerificationInv
<1> SUFFICES ASSUME VerificationInit PROVE VerificationInv
  OBVIOUS
<1>1. /\ mode \in Modes /\ row = [k \in Rows |-> NoRow] /\ calls = [k \in Rows |-> 0]
      /\ audit = [a \in Audits |-> Blank] /\ begun = 0
      /\ "recovery" \in Rows /\ "primary" \in Rows
  BY DEF VerificationInit, Rows
<1>2. NoRow \in Stored /\ NoRow.status = "NONE" /\ ~NoRow.kept
  BY OutcomesKnown DEF NoRow, Stored
<1>3. VerificationTypeOK
  BY <1>1, <1>2, BlankKnown, VerificationAssumption DEF VerificationTypeOK, Ended
<1>4. OwnersInv /\ RecoveryInv
  BY <1>1, <1>2, BlankKnown DEF OwnersInv, RecoveryInv, Calling
<1>5. RowsInv
  BY <1>1, <1>2 DEF RowsInv
<1>6. DiagnosesInv
  BY <1>1, BlankKnown DEF DiagnosesInv, Telling
<1> QED BY <1>3, <1>4, <1>5, <1>6 DEF VerificationInv

LEMMA VerificationNextKeeps ==
    VerificationInv /\ [VerificationNext]_verificationVars => VerificationInv'
<1> SUFFICES ASSUME VerificationInv, [VerificationNext]_verificationVars PROVE VerificationInv'
  OBVIOUS
<1>1. CASE VerificationNext
  BY <1>1, BeginKeeps, LookupKeeps, LookupRecoveryKeeps, CreateKeeps, RacedKeeps, CallVerifierKeeps,
     VerifierAnswersKeeps, RecordSuccessKeeps, RecordRefusalKeeps, FinalizeAuditKeeps, AuditDiesKeeps,
     LeaseRecoveredKeeps
     DEF VerificationNext, AuditStep
<1>2. CASE UNCHANGED verificationVars
  BY <1>2 DEF verificationVars, VerificationInv, VerificationTypeOK, OwnersInv, RowsInv, RecoveryInv,
              DiagnosesInv, Telling, Founded, Verified, KeptFor, CoveredBy
<1> QED BY <1>1, <1>2

LEMMA VerificationInvHolds == VerificationSpec => []VerificationInv
  BY VerificationInitHolds, VerificationNextKeeps, PTL DEF VerificationSpec

(* Every variable of the verification keeps its type. *)
THEOREM VerificationTyped == VerificationSpec => []VerificationTypeOK
<1>1. VerificationInv => VerificationTypeOK
  BY DEF VerificationInv
<1> QED BY <1>1, VerificationInvHolds, PTL

(* A stored diagnosis of suspicion rests on a rule, on the bytes of the file,  *)
(* or on an answer the database keeps, to the same rules and hypotheses,       *)
(* however many audits overlap, race, die, are refused or lose their lease     *)
(* while they call: a refused answer that found its row closed is used, but    *)
(* by an audit that is discarded (decision-matrix.ts:50-81,                    *)
(* run-selective-verification.ts:119-147, 284-293, 442-478,                    *)
(* processing-worker.ts:216-264, process-note-audit.ts:745-757). *)
THEOREM SuspicionBacked == VerificationSpec => []SuspicionIsBacked
<1> QED BY PropertiesOfRows, VerificationInvHolds, PTL

(* In enforce, no stored diagnosis of what called for a verification is OK or  *)
(* of high assurance without a stored answer that covers it, whatever lease    *)
(* was recovered while an audit called (process-note-audit.ts:657-663,         *)
(* verification.ts:783-846, processing-worker.ts:216-264). *)
THEOREM VerifiedOrLimitedHolds == VerificationSpec => []VerifiedOrLimited
<1> QED BY PropertiesOfRows, VerificationInvHolds, PTL

(* The entry of a row follows its status, its calls and its lease. *)
LEMMA EntryOfRow ==
    ASSUME row \in [Rows -> Stored], NEW k \in Rows
    PROVE  /\ row[k].status = "NONE" => RowEntry[k] = "free"
           /\ row[k].status = "RUNNING" => RowEntry[k] = IF calls[k] = 0 THEN "reserved" ELSE "bought"
           /\ row[k].status = "SUCCEEDED" => RowEntry[k] = IF row[k].expired THEN "late" ELSE "answered"
           /\ row[k].status = "FAILED" => RowEntry[k] = IF row[k].expired THEN "abandoned" ELSE "refused"
  BY DEF RowEntry, Stored
LEMMA EntryOfRowAfter ==
    ASSUME row' \in [Rows -> Stored], NEW k \in Rows
    PROVE  /\ row'[k].status = "NONE" => RowEntry'[k] = "free"
           /\ row'[k].status = "RUNNING" => RowEntry'[k] = IF calls'[k] = 0 THEN "reserved" ELSE "bought"
           /\ row'[k].status = "SUCCEEDED" => RowEntry'[k] = IF row'[k].expired THEN "late" ELSE "answered"
           /\ row'[k].status = "FAILED" => RowEntry'[k] = IF row'[k].expired THEN "abandoned" ELSE "refused"
  BY DEF RowEntry, Stored

(* One row takes a step of the ledger. *)
Reserves(k) ==
    /\ RowEntry[k] = "free" /\ RowEntry'[k] = "reserved" /\ calls'[k] = calls[k]
    /\ k = "recovery" => RowEntry["primary"] \in {"refused", "abandoned", "late"}
Buys(k) ==
    /\ calls[k] = 0 /\ calls'[k] = 1
    /\ \/ RowEntry[k] = "reserved" /\ RowEntry'[k] = "bought"
       \/ RowEntry[k] = "abandoned" /\ RowEntry'[k] = "abandoned"
AnswersIt(k) ==
    /\ calls[k] = 1 /\ calls'[k] = 1
    /\ \/ RowEntry[k] = "bought" /\ RowEntry'[k] = "answered"
       \/ RowEntry[k] = "abandoned" /\ RowEntry'[k] = "late"
Closes(k) ==
    /\ RowEntry[k] \in {"reserved", "bought"} /\ RowEntry'[k] \in {"refused", "abandoned"}
    /\ calls'[k] = calls[k]
LEMMA RowMoves ==
    ASSUME NEW k \in Rows, calls \in [Rows -> Nat], calls' \in [Rows -> Nat],
           \A other \in Rows \ {k} : row'[other] = row[other] /\ calls'[other] = calls[other],
           Reserves(k) \/ Buys(k) \/ AnswersIt(k) \/ Closes(k)
    PROVE  VerificationLedger!Next
<1>1. \A other \in Rows \ {k} : RowEntry'[other] = RowEntry[other]
  BY DEF RowEntry
<1>2. /\ RowEntry = [other \in Rows |-> RowEntry[other]] /\ RowEntry' = [other \in Rows |-> RowEntry'[other]]
      /\ calls = [other \in Rows |-> calls[other]] /\ calls' = [other \in Rows |-> calls'[other]]
  BY DEF RowEntry
<1>3. RowEntry' = [RowEntry EXCEPT ![k] = RowEntry'[k]]
  BY <1>1, <1>2
<1>4. calls'[k] = calls[k] => UNCHANGED calls
  BY <1>2
<1>5. calls'[k] = 1 => calls' = [calls EXCEPT ![k] = 1]
  BY <1>2
<1>6. RowEntry'[k] = RowEntry[k] => UNCHANGED RowEntry
  BY <1>1, <1>2
<1>7. ASSUME RowEntry'[k] # RowEntry[k] \/ calls'[k] # calls[k],
             \/ VerificationLedger!Reserve(k) \/ VerificationLedger!Buy(k) \/ VerificationLedger!Answer(k)
             \/ VerificationLedger!Refuse(k) \/ VerificationLedger!Abandon(k)
      PROVE  VerificationLedger!Next
  BY <1>7 DEF VerificationLedger!Next, VerificationLedger!Moved
<1>8. CASE Reserves(k)
  <2>1. VerificationLedger!Reserve(k)
    BY <1>3, <1>4, <1>8 DEF VerificationLedger!Reserve, Reserves
  <2> QED BY <1>7, <1>8, <2>1 DEF Reserves
<1>9. CASE Buys(k)
  <2>1. VerificationLedger!Buy(k)
    BY <1>3, <1>5, <1>6, <1>9 DEF VerificationLedger!Buy, Buys
  <2> QED BY <1>7, <1>9, <2>1 DEF Buys
<1>10. CASE AnswersIt(k)
  <2>1. VerificationLedger!Answer(k)
    BY <1>3, <1>4, <1>10 DEF VerificationLedger!Answer, AnswersIt
  <2> QED BY <1>7, <1>10, <2>1 DEF AnswersIt
<1>11. CASE Closes(k)
  <2>1. VerificationLedger!Refuse(k) \/ VerificationLedger!Abandon(k)
    BY <1>3, <1>4, <1>11 DEF VerificationLedger!Refuse, VerificationLedger!Abandon, Closes
  <2> QED BY <1>7, <1>11, <2>1 DEF Closes
<1> QED BY <1>8, <1>9, <1>10, <1>11

LEMMA QuietStutters ==
    ASSUME UNCHANGED <<row, calls>>
    PROVE  UNCHANGED VerificationLedger!ledger
  BY DEF VerificationLedger!ledger, RowEntry, Rows

LEMMA AuditImplements ==
    ASSUME VerificationInv, VerificationInv', NEW a \in Audits, AuditStep(a)
    PROVE  [VerificationLedger!Next]_(VerificationLedger!ledger)
<1>1. /\ row \in [Rows -> Stored] /\ row' \in [Rows -> Stored]
      /\ calls \in [Rows -> Nat] /\ calls' \in [Rows -> Nat]
      /\ \A k \in Rows : row[k] \in Stored
  BY DEF VerificationInv, VerificationTypeOK
<1>2. audit[a].at \in Calling \cup {"create"} => audit[a].key \in Rows
  BY DEF VerificationInv, VerificationTypeOK, Memory
<1>3. CASE UNCHANGED <<row, calls>>
  BY <1>3, QuietStutters
<1>4. CASE Create(a) /\ ~UNCHANGED <<row, calls>>
  <2> SUFFICES ASSUME NEW k \in Rows, k = audit[a].key
               PROVE  VerificationLedger!Next
    BY <1>2, <1>4 DEF Create
  <2>1. /\ row[k].status = "NONE" /\ UNCHANGED calls /\ row' = [row EXCEPT ![k] = Created(audit[a].request)]
        /\ audit[a].request \in Requests
    BY <1>4 DEF Create, Created, VerificationInv, VerificationTypeOK, Ended
  <2>2. /\ row'[k].status = "RUNNING" /\ \A other \in Rows \ {k} : row'[other] = row[other]
    BY <1>1, <2>1, CreatedRow
  <2>3. calls[k] = 0
    BY <2>1 DEF VerificationInv, RowsInv
  <2>4. k = "recovery" => Lost(row["primary"]) /\ "primary" \in Rows
    BY DEF VerificationInv, RecoveryInv, Rows
  <2>5. k = "recovery" => RowEntry["primary"] \in {"refused", "abandoned", "late"}
    BY <1>1, <2>4, EntryOfRow DEF Lost
  <2>6. RowEntry[k] = "free" /\ RowEntry'[k] = "reserved"
    BY <1>1, <2>1, <2>2, <2>3, EntryOfRow, EntryOfRowAfter
  <2> QED BY <1>1, <2>1, <2>2, <2>5, <2>6, RowMoves DEF Reserves
<1>5. CASE CallVerifier(a) /\ ~UNCHANGED <<row, calls>>
  <2> SUFFICES ASSUME NEW k \in Rows, k = audit[a].key
               PROVE  VerificationLedger!Next
    BY <1>2, <1>5 DEF CallVerifier, Calling
  <2>1. /\ audit[a].at = "call" /\ UNCHANGED row /\ calls' = [calls EXCEPT ![k] = @ + 1]
    BY <1>5 DEF CallVerifier
  <2>2. (row[k].status = "RUNNING" \/ Lapsed(row[k])) /\ calls[k] = 0
    BY <2>1 DEF VerificationInv, OwnersInv, Calling
  <2>3. calls'[k] = 1 /\ \A other \in Rows \ {k} : calls'[other] = calls[other]
    BY <1>1, <2>1, <2>2
  <2>4. ASSUME row[k].status = "RUNNING" PROVE Buys(k)
    BY <1>1, <2>1, <2>2, <2>3, <2>4, EntryOfRow, EntryOfRowAfter DEF Buys
  <2>5. ASSUME Lapsed(row[k]) PROVE Buys(k)
    <3>1. row[k].status = "FAILED" /\ row[k].expired /\ row' = row
      BY <2>1, <2>5 DEF Lapsed
    <3>2. RowEntry[k] = "abandoned"
      BY <1>1, <3>1, EntryOfRow
    <3>3. RowEntry'[k] = "abandoned"
      BY <1>1, <3>1, EntryOfRowAfter
    <3> QED BY <2>2, <2>3, <3>2, <3>3 DEF Buys
  <2> QED BY <1>1, <2>1, <2>2, <2>3, <2>4, <2>5, RowMoves
<1>6. CASE RecordSuccess(a) /\ ~UNCHANGED <<row, calls>>
  <2> SUFFICES ASSUME NEW k \in Rows, k = audit[a].key
               PROVE  VerificationLedger!Next
    BY <1>2, <1>6 DEF RecordSuccess, Calling
  <2>1. /\ audit[a].at = "store" /\ UNCHANGED calls
        /\ row' = [row EXCEPT ![k].status = "SUCCEEDED", ![k].kept = TRUE,
                              ![k].answer = audit[a].outcome.answer]
    BY <1>6 DEF RecordSuccess
  <2>2. /\ (row[k].status = "RUNNING" \/ Lapsed(row[k])) /\ calls[k] = 1
        /\ row[k].status = "RUNNING" => ~row[k].expired
    <3>1. OwnersInv /\ RowsInv
      BY DEF VerificationInv
    <3>2. row[k].status = "RUNNING" => ~row[k].expired
      BY <3>1 DEF RowsInv
    <3>3. row[k].status = "RUNNING" \/ Lapsed(row[k])
      BY <2>1, <3>1 DEF OwnersInv, Calling
    <3>4. calls[k] = 1
      BY <2>1, <3>1 DEF OwnersInv
    <3> QED BY <3>2, <3>3, <3>4
  <2>3. /\ row'[k].status = "SUCCEEDED" /\ row'[k].expired = row[k].expired
        /\ \A other \in Rows \ {k} : row'[other] = row[other]
    <3>1. PICK kept \in BOOLEAN : kept = TRUE
      OBVIOUS
    <3> DEFINE settled == Finished(row[k], "SUCCEEDED", kept, audit[a].outcome.answer)
    <3>2. audit[a].outcome.answer \in Answers
      BY DEF VerificationInv, VerificationTypeOK, Memory, Outcomes
    <3>3. settled.status = "SUCCEEDED" /\ settled.expired = row[k].expired
      BY <1>1, <3>2, FinishedRow
    <3>4. row' = [row EXCEPT ![k] = settled]
      BY <2>1, <3>1 DEF Finished
    <3> HIDE DEF settled
    <3> QED BY <1>1, <3>3, <3>4
  <2>5. ASSUME row[k].status = "RUNNING" PROVE AnswersIt(k)
    <3>1. RowEntry[k] = "bought"
      BY <1>1, <2>2, <2>5, EntryOfRow
    <3>2. ~row'[k].expired
      BY ZenonT(30), <2>2, <2>3, <2>5
    <3>3. RowEntry'[k] = "answered"
      BY <1>1, <2>3, <3>2, EntryOfRowAfter
    <3> QED BY <2>1, <2>2, <3>1, <3>3 DEF AnswersIt
  <2>6. ASSUME Lapsed(row[k]) PROVE AnswersIt(k)
    <3>1. row[k].status = "FAILED" /\ row[k].expired
      BY <2>6 DEF Lapsed
    <3>2. RowEntry[k] = "abandoned"
      BY <1>1, <3>1, EntryOfRow
    <3>3. row'[k].expired
      BY ZenonT(30), <2>3, <3>1
    <3>4. RowEntry'[k] = "late"
      BY <1>1, <2>3, <3>3, EntryOfRowAfter
    <3> QED BY <2>1, <2>2, <3>2, <3>4 DEF AnswersIt
  <2> QED BY <1>1, <2>1, <2>2, <2>3, <2>5, <2>6, RowMoves
<1>7. CASE RecordRefusal(a) /\ ~UNCHANGED <<row, calls>>
  <2> SUFFICES ASSUME NEW k \in Rows, k = audit[a].key
               PROVE  VerificationLedger!Next
    BY <1>2, <1>7 DEF RecordRefusal, Calling
  <2>1. /\ audit[a].at = "refuse" /\ UNCHANGED calls /\ row[k].status = "RUNNING"
    BY <1>7 DEF RecordRefusal
  <2>2. row' = [row EXCEPT ![k].status = "FAILED", ![k].kept = (audit[a].outcome # Failed),
                           ![k].answer = audit[a].outcome.answer]
    BY <1>7, <2>1 DEF RecordRefusal
  <2>3. row'[k].status = "FAILED" /\ \A other \in Rows \ {k} : row'[other] = row[other]
    <3>1. PICK kept \in BOOLEAN : kept = (audit[a].outcome # Failed)
      OBVIOUS
    <3> DEFINE settled == Finished(row[k], "FAILED", kept, audit[a].outcome.answer)
    <3>2. audit[a].outcome.answer \in Answers
      BY DEF VerificationInv, VerificationTypeOK, Memory, Outcomes
    <3>3. settled.status = "FAILED"
      BY <1>1, <3>2, FinishedRow
    <3>4. row' = [row EXCEPT ![k] = settled]
      BY <2>2, <3>1 DEF Finished
    <3> HIDE DEF settled
    <3> QED BY <1>1, <3>3, <3>4
  <2>4. RowEntry[k] \in {"reserved", "bought"} /\ RowEntry'[k] \in {"refused", "abandoned"}
    BY <1>1, <2>1, <2>3, EntryOfRow, EntryOfRowAfter
  <2> QED BY <1>1, <2>1, <2>3, <2>4, RowMoves DEF Closes
<1>8. CASE \/ Begin(a) \/ Lookup(a) \/ LookupRecovery(a) \/ Raced(a) \/ VerifierAnswers(a)
           \/ FinalizeAudit(a) \/ AuditDies(a)
  <2>1. UNCHANGED <<row, calls>>
    BY <1>8 DEF Begin, Lookup, LookupRecovery, Raced, VerifierAnswers, FinalizeAudit, AuditDies
  <2> QED BY <2>1, QuietStutters
<1> QED BY <1>3, <1>4, <1>5, <1>6, <1>7, <1>8 DEF AuditStep

(* The lease recovery gives up one call at most: while a recovery runs, the    *)
(* call it recovers is closed. *)
LEMMA LeaseImplements ==
    ASSUME VerificationInv, VerificationInv', LeaseRecovered
    PROVE  [VerificationLedger!Next]_(VerificationLedger!ledger)
<1>1. /\ row \in [Rows -> Stored] /\ row' \in [Rows -> Stored] /\ UNCHANGED calls
      /\ calls \in [Rows -> Nat] /\ calls' \in [Rows -> Nat] /\ Rows = {"primary", "recovery"}
  BY DEF VerificationInv, VerificationTypeOK, LeaseRecovered, Rows
<1>2. PICK closed \in SUBSET {k \in Rows : row[k].status = "RUNNING"} :
        \A k \in Rows : row'[k] = IF k \in closed
                                  THEN [row[k] EXCEPT !.status = "FAILED", !.expired = TRUE] ELSE row[k]
  BY DEF LeaseRecovered
<1>3. row["primary"].status = "RUNNING" => row["recovery"].status = "NONE"
  BY DEF VerificationInv, RecoveryInv, Lost
<1>4. CASE closed = {}
  <2>1. row' = row
    BY <1>1, <1>2, <1>4
  <2> QED BY <1>1, <2>1, QuietStutters
<1>5. ASSUME NEW k \in closed
      PROVE  VerificationLedger!Next
  <2>1. k \in Rows /\ row[k].status = "RUNNING" /\ \A other \in Rows \ {k} : other \notin closed
    BY <1>1, <1>2, <1>3
  <2>2. row'[k] = [row[k] EXCEPT !.status = "FAILED", !.expired = TRUE]
    BY <1>2, <2>1
  <2>3. row'[k].status = "FAILED" /\ \A other \in Rows \ {k} : row'[other] = row[other]
    BY <1>1, <1>2, <2>1, <2>2 DEF Stored
  <2>4. RowEntry[k] \in {"reserved", "bought"} /\ RowEntry'[k] \in {"refused", "abandoned"}
    BY <1>1, <2>1, <2>3, EntryOfRow, EntryOfRowAfter
  <2> QED BY <1>1, <2>1, <2>3, <2>4, RowMoves DEF Closes
<1> QED BY <1>4, <1>5

(* However many audits overlap, race, die, lose their lease or are started     *)
(* again, the provider is called at most once for the reading, and once more   *)
(* only for a recovery of a call that was refused or given up with its lease;  *)
(* a row that was closed changes no more, except that a late answer may still  *)
(* make one succeed whose lease was recovered                                  *)
(* (run-selective-verification.ts:84-86, 302-356; processing-worker.ts:216). *)
THEOREM VerificationImplementsLedger == VerificationSpec => VerificationBuysOnce
<1>1. VerificationInit => VerificationLedger!Init
  <2> SUFFICES ASSUME VerificationInit PROVE VerificationLedger!Init
    OBVIOUS
  <2>1. \A k \in Rows : row[k].status = "NONE"
    BY DEF VerificationInit, NoRow
  <2>2. RowEntry = [k \in Rows |-> "free"]
    BY <2>1 DEF RowEntry
  <2> QED BY <2>2 DEF VerificationLedger!Init, VerificationInit
<1>2. VerificationInv /\ VerificationInv' /\ [VerificationNext]_verificationVars
        => [VerificationLedger!Next]_(VerificationLedger!ledger)
  <2> SUFFICES ASSUME VerificationInv, VerificationInv', [VerificationNext]_verificationVars
               PROVE  [VerificationLedger!Next]_(VerificationLedger!ledger)
    OBVIOUS
  <2>1. CASE VerificationNext
    BY <2>1, AuditImplements, LeaseImplements DEF VerificationNext
  <2>2. CASE UNCHANGED verificationVars
    BY <2>2, QuietStutters DEF verificationVars
  <2> QED BY <2>1, <2>2
<1> QED BY <1>1, <1>2, VerificationInvHolds, PTL DEF VerificationSpec, VerificationLedger!Spec, VerificationBuysOnce

--------------------------------------------------------------------------------
(* The readings of an original. *)

(* Of the executions alive, only the holder of the lease may still write the   *)
(* note, until it gave it back. *)
Alive(e) == execution[e].at # "idle"
HolderInv ==
    /\ \A e, f \in holder : e = f
    /\ \A e \in Executions : Alive(e) =>
         /\ execution[e].version <= original.version
         /\ e \notin holder => execution[e].version < original.version
         /\ e \in holder /\ execution[e].at # "run_failure" => StillClaimed(e)

(* What an execution has in memory fits its place. *)
WithRun == {"read", "answer", "pause", "keep", "store", "run_failure"}
Fits(x) ==
    /\ x.readable => x.at \in {"answer", "pause"}
    /\ x.at \in {"idle", "look", "create"} => x.run = NoRun
    /\ x.at \in WithRun => x.run # NoRun
    /\ x.at = "store" => x.kept
    /\ x.at \in {"note_failure", "run_failure"} /\ x.run # NoRun /\ x.code = "persistence" => x.kept
MemoryInv == \A e \in Executions : Fits(execution[e])

(* Each execution has a run of its own, of its own fingerprint, which holds no *)
(* reusable checkpoint before the execution ends. *)
RunsInv ==
    /\ \A e \in Executions : execution[e].run # NoRun =>
         /\ execution[e].run \in 1..runs
         /\ run[execution[e].run].print = execution[e].print
         /\ ~(run[execution[e].run].status = "FAILED" /\ run[execution[e].run].code = "persistence")
    /\ \A e, f \in Executions : execution[e].run = execution[f].run /\ execution[e].run # NoRun => e = f

(* What may still be paid without a new reason: by an execution that lost its  *)
(* lease (MayPay), by the one that finds no checkpoint because a late one      *)
(* created a run over it (MayHide), and by the holder or whoever claims the    *)
(* note after it. *)
One(b) == IF b THEN 1 ELSE 0
ReusableFor(fingerprint) ==
    /\ runs > 0 /\ run[runs].status = "FAILED" /\ run[runs].code = "persistence"
    /\ run[runs].print = fingerprint /\ run[runs].checkpoint
MayPay ==
    {e \in Executions \ holder :
        execution[e].at \in {"look", "read"} \/ (execution[e].at = "create" /\ ~execution[e].result)}
MayHide == {e \in Executions \ holder : execution[e].at \in {"look", "create"}}
Late == Cardinality(MayPay) + Cardinality(MayHide)
Open == One(original.at = "waiting" /\ ~ReusableFor(print))
(* The holder fails: does its successor find what it kept? *)
Stranded(e) == execution[e].print # print \/ execution[e].run # runs
MayOwe(e) ==
    LET x     == execution[e]
        other == One(x.print # print)
    IN  CASE x.at = "idle" -> 0
          [] x.at = "look" -> One(~ReusableFor(x.print)) + other
          [] x.at = "create" -> IF x.result THEN One(~ReusableFor(print) \/ x.print # print) ELSE 1 + other
          [] x.at = "read" -> 1 + One(Stranded(e))
          [] x.at \in {"answer", "pause", "keep", "store"} -> One(Stranded(e))
          [] OTHER -> IF x.run = NoRun THEN One(~ReusableFor(print))
                      ELSE IF x.code = "persistence" THEN One(Stranded(e)) ELSE 1
DebtInv ==
    /\ IsFiniteSet(MayPay) /\ IsFiniteSet(MayHide)
    /\ holder = {} => spent + Late + Open <= allowed
    /\ \A e \in holder : spent + Late + MayOwe(e) <= allowed

ExtractionInv == ExtractionTypeOK /\ MemoryInv /\ HolderInv /\ RunsInv /\ DebtInv

LEMMA OneMember ==
    ASSUME NEW A, NEW B, NEW e, IsFiniteSet(A), \A x : x # e => (x \in A <=> x \in B)
    PROVE  /\ IsFiniteSet(B) /\ Cardinality(A) \in Nat /\ Cardinality(B) \in Nat
           /\ Cardinality(B) + One(e \in A) = Cardinality(A) + One(e \in B)
<1>1. Cardinality(A) \in Nat
  BY FS_CardinalityType
<1>2. CASE e \in A <=> e \in B
  <2>1. A = B
    BY <1>2
  <2> QED BY <1>1, <1>2, <2>1 DEF One
<1>3. CASE e \in A /\ e \notin B
  <2>1. B = A \ {e}
    BY <1>3
  <2>2. IsFiniteSet(B) /\ Cardinality(B) = Cardinality(A) - 1
    BY <1>3, <2>1, FS_RemoveElement
  <2>3. Cardinality(B) \in Nat
    BY <2>2, FS_CardinalityType
  <2> QED BY <1>1, <1>3, <2>2, <2>3 DEF One
<1>4. CASE e \notin A /\ e \in B
  <2>1. B = A \cup {e}
    BY <1>4
  <2>2. IsFiniteSet(B) /\ Cardinality(B) = Cardinality(A) + 1
    BY <1>4, <2>1, FS_AddElement
  <2> QED BY <1>1, <1>4, <2>2 DEF One
<1> QED BY <1>2, <1>3, <1>4

LEMMA ExtractionKnows ==
    ASSUME ExtractionInv
    PROVE  /\ execution \in [Executions -> ExecutionRows] /\ print \in Prints
           /\ original.version \in Nat /\ original.at \in {"waiting", "claimed", "read"}
           /\ original = [at |-> original.at, version |-> original.version]
           /\ runs \in Nat /\ runs <= MaxRuns /\ MaxRuns \in Nat /\ run \in [1..runs -> Runs]
           /\ holder \subseteq Executions /\ spent \in Nat /\ allowed \in Nat
<1>1. MaxRuns \in Nat
  BY ExtractionAssumption
<1> QED BY <1>1 DEF ExtractionInv, ExtractionTypeOK

(* What is owed is a number, and what would settle it lowers it. *)
LEMMA OwedIsNat ==
    ASSUME NEW e
    PROVE  MayOwe(e) \in 0..2 /\ Open \in 0..1 /\ (original.at # "waiting" => Open = 0)
  BY DEF MayOwe, Open, One

LEMMA OwedIsNatAfter ==
    ASSUME NEW e
    PROVE  MayOwe(e)' \in 0..2 /\ Open' \in 0..1 /\ (original'.at # "waiting" => Open' = 0)
  BY DEF MayOwe, Open, One

LEMMA OwesNoMore ==
    ASSUME UNCHANGED <<print, runs>>, \A p : ReusableFor(p) => ReusableFor(p)'
    PROVE  /\ \A f : execution'[f] = execution[f] => MayOwe(f)' <= MayOwe(f)
           /\ original'.at = original.at => Open' <= Open
<1>1. ASSUME NEW f, execution'[f] = execution[f] PROVE MayOwe(f)' <= MayOwe(f)
  <2>1. Stranded(f)' <=> Stranded(f)
    BY <1>1 DEF Stranded
  <2>2. /\ One(~ReusableFor(execution[f].print))' <= One(~ReusableFor(execution[f].print))
        /\ One(~ReusableFor(print))' <= One(~ReusableFor(print))
    BY <1>1 DEF One
  <2> QED BY <1>1, <2>1, <2>2 DEF MayOwe, One
<1>2. original'.at = original.at => Open' <= Open
  BY DEF Open, One
<1> QED BY <1>1, <1>2

LEMMA OwesOneMore ==
    ASSUME UNCHANGED print \/ UNCHANGED <<run, runs>>
    PROVE  /\ \A f : execution'[f] = execution[f] => MayOwe(f)' <= MayOwe(f) + 1
           /\ original'.at = original.at => Open' <= Open + 1
<1>1. ASSUME NEW f, execution'[f] = execution[f] PROVE MayOwe(f)' <= MayOwe(f) + 1
  <2>1. CASE UNCHANGED print
    BY <1>1, <2>1 DEF MayOwe, One
  <2>2. CASE UNCHANGED <<run, runs>>
    <3>1. ReusableFor(execution[f].print)' <=> ReusableFor(execution[f].print)
      BY <1>1, <2>2 DEF ReusableFor
    <3> QED BY <1>1, <2>2, <3>1 DEF MayOwe, One
  <2> QED BY <2>1, <2>2
<1>2. original'.at = original.at => Open' <= Open + 1
  BY DEF Open, One
<1> QED BY <1>1, <1>2

(* One execution takes a step, and the others remember what they did. *)
Turns(e, at) ==
    /\ execution' \in [Executions -> ExecutionRows]
    /\ \A f \in Executions \ {e} : execution'[f] = execution[f]
    /\ execution'[e].at = at
(* The claim it works for stays. *)
SameClaim(e) == execution'[e].version = execution[e].version /\ execution'[e].print = execution[e].print

LEMMA NotStartedFits ==
    NotStarted \in ExecutionRows /\ Fits(NotStarted) /\ NotStarted.at = "idle" /\ NotStarted.run = NoRun
<1>1. Prints # {}
  BY ExtractionAssumption
<1> QED BY <1>1 DEF NotStarted, ExecutionRows, ExecutionSteps, Fits, WithRun, NoRun

LEMMA RowLeaves ==
    ASSUME ExtractionInv, NEW e \in Executions, Leaves(e)
    PROVE  Turns(e, "idle") /\ execution'[e].run = NoRun /\ Fits(execution'[e])
  BY ExtractionKnows, NotStartedFits DEF Leaves, Turns

LEMMA RowContinues ==
    ASSUME ExtractionInv, NEW e \in Executions, NEW at \in ExecutionSteps, Continues(e, at)
    PROVE  /\ Turns(e, at) /\ SameClaim(e) /\ execution'[e].run = execution[e].run
           /\ execution'[e].readable = execution[e].readable /\ execution'[e].kept = execution[e].kept
           /\ execution'[e].code = execution[e].code /\ execution'[e].result = execution[e].result
<1>1. execution \in [Executions -> ExecutionRows]
  BY ExtractionKnows
<1> QED BY <1>1 DEF Continues, Turns, SameClaim, ExecutionRows

LEMMA RowTurns ==
    ASSUME ExtractionInv, NEW e \in Executions, NEW after \in ExecutionRows,
           execution' = [execution EXCEPT ![e] = after]
    PROVE  Turns(e, after.at) /\ execution'[e] = after
  BY ExtractionKnows DEF Turns

LEMMA RowFails ==
    ASSUME ExtractionInv, NEW e \in Executions, NEW code \in {"persistence", "other"}, Fails(e, code)
    PROVE  /\ Turns(e, "note_failure") /\ SameClaim(e) /\ execution'[e].run = execution[e].run
           /\ execution'[e].readable = execution[e].readable /\ execution'[e].kept = execution[e].kept
           /\ execution'[e].code = code
<1> DEFINE old == execution[e]
           one == [old EXCEPT !.at = "note_failure"]
           two == [one EXCEPT !.code = code]
<1>1. old \in ExecutionRows /\ execution' = [execution EXCEPT ![e] = two]
  BY ExtractionKnows DEF Fails
<1>2. /\ one \in ExecutionRows /\ one.at = "note_failure" /\ one.version = old.version /\ one.print = old.print
      /\ one.run = old.run /\ one.readable = old.readable /\ one.kept = old.kept
  BY <1>1 DEF ExecutionRows, ExecutionSteps
<1> HIDE DEF one
<1>3. /\ two \in ExecutionRows /\ two.at = "note_failure" /\ two.version = old.version /\ two.print = old.print
      /\ two.run = old.run /\ two.readable = old.readable /\ two.kept = old.kept /\ two.code = code
  BY <1>2 DEF ExecutionRows
<1> HIDE DEF two
<1> QED BY <1>1, <1>3, RowTurns DEF SameClaim

LEMMA RowGiven ==
    ASSUME ExtractionInv, NEW e \in Executions, Given(e)
    PROVE  /\ Turns(e, "keep") /\ SameClaim(e) /\ execution'[e].run = execution[e].run
           /\ execution'[e].readable = FALSE
<1> DEFINE old   == execution[e]
           one   == [old EXCEPT !.at = "keep"]
           two   == [one EXCEPT !.result = TRUE]
           three == [two EXCEPT !.calls = 0]
           four  == [three EXCEPT !.models = 1]
           five  == [four EXCEPT !.readable = FALSE]
<1>1. old \in ExecutionRows /\ execution' = [execution EXCEPT ![e] = five]
  BY ExtractionKnows DEF Given
<1>2. /\ one \in ExecutionRows /\ one.at = "keep" /\ one.version = old.version /\ one.print = old.print
      /\ one.run = old.run
  BY <1>1 DEF ExecutionRows, ExecutionSteps
<1> HIDE DEF one
<1>3. /\ two \in ExecutionRows /\ two.at = "keep" /\ two.version = old.version /\ two.print = old.print
      /\ two.run = old.run
  BY <1>2 DEF ExecutionRows
<1> HIDE DEF two
<1>4. /\ three \in ExecutionRows /\ three.at = "keep" /\ three.version = old.version
      /\ three.print = old.print /\ three.run = old.run
  BY <1>3 DEF ExecutionRows
<1> HIDE DEF three
<1>5. /\ four \in ExecutionRows /\ four.at = "keep" /\ four.version = old.version
      /\ four.print = old.print /\ four.run = old.run
  BY <1>4 DEF ExecutionRows
<1> HIDE DEF four
<1>6. /\ five \in ExecutionRows /\ five.at = "keep" /\ five.version = old.version
      /\ five.print = old.print /\ five.run = old.run /\ five.readable = FALSE
  BY <1>5 DEF ExecutionRows
<1> HIDE DEF five
<1> QED BY <1>1, <1>6, RowTurns DEF SameClaim

(* What the lease and the runs owe to an execution's step. *)
LEMMA HolderKept ==
    ASSUME ExtractionInv, NEW e \in Executions, NEW at, Turns(e, at), holder' \in {holder, holder \ {e}},
           at # "idle" => /\ Alive(e) /\ SameClaim(e) /\ holder' = holder
                          /\ at = "run_failure" \/ (execution[e].at # "run_failure" /\ original' = original),
           original' # original => e \in holder /\ original'.version = original.version + 1
    PROVE  HolderInv'
<1>1. original.version \in Nat /\ holder \subseteq Executions /\ original'.version \in Nat
      /\ original.version <= original'.version
  BY ExtractionKnows
<1>2. \A f \in Executions : execution[f].version \in Nat
  BY ExtractionKnows DEF ExecutionRows
<1>3. \A f, g \in holder : f = g
  BY DEF ExtractionInv, HolderInv
<1>4. ASSUME NEW f \in Executions, Alive(f)'
      PROVE  /\ execution'[f].version <= original'.version
             /\ f \notin holder' => execution'[f].version < original'.version
             /\ f \in holder' /\ execution'[f].at # "run_failure" => StillClaimed(f)'
  <2>1. CASE f = e
    <3>1. at # "idle"
      BY <1>4, <2>1 DEF Turns, Alive
    <3>2. /\ execution[e].version <= original.version
          /\ e \notin holder => execution[e].version < original.version
          /\ e \in holder /\ execution[e].at # "run_failure" => StillClaimed(e)
      BY <3>1 DEF ExtractionInv, HolderInv
    <3> QED BY <1>1, <1>2, <2>1, <3>1, <3>2 DEF Turns, SameClaim, StillClaimed
  <2>2. CASE f # e
    <3>1. execution'[f] = execution[f] /\ Alive(f) /\ (f \in holder' <=> f \in holder)
      BY <1>4, <2>2 DEF Turns, Alive
    <3>2. /\ execution[f].version <= original.version
          /\ f \notin holder => execution[f].version < original.version
          /\ f \in holder /\ execution[f].at # "run_failure" => StillClaimed(f)
      BY <3>1 DEF ExtractionInv, HolderInv
    <3>3. f \in holder => original' = original
      BY <1>3, <2>2
    <3> QED BY <1>1, <1>2, <3>1, <3>2, <3>3 DEF StillClaimed
  <2> QED BY <2>1, <2>2
<1> QED BY <1>3, <1>4 DEF HolderInv

LEMMA RunsKept ==
    ASSUME ExtractionInv, NEW e \in Executions, NEW at, Turns(e, at), UNCHANGED runs,
           \A i \in 1..runs : i # execution[e].run => run'[i] = run[i],
           execution'[e].run # NoRun =>
             /\ execution'[e].run = execution[e].run /\ SameClaim(e)
             /\ run'[execution[e].run].print = run[execution[e].run].print
             /\ ~(run'[execution[e].run].status = "FAILED" /\ run'[execution[e].run].code = "persistence")
    PROVE  RunsInv'
<1>1. \A f, g \in Executions : execution[f].run = execution[g].run /\ execution[f].run # NoRun => f = g
  BY DEF ExtractionInv, RunsInv
<1>2. ASSUME NEW f \in Executions, execution'[f].run # NoRun
      PROVE  /\ execution'[f].run \in 1..runs
             /\ run'[execution'[f].run].print = execution'[f].print
             /\ ~(run'[execution'[f].run].status = "FAILED" /\ run'[execution'[f].run].code = "persistence")
             /\ execution'[f].run = execution[f].run
  <2>1. CASE f = e
    BY <1>2, <2>1 DEF ExtractionInv, RunsInv, SameClaim
  <2>2. CASE f # e
    <3>1. execution'[f] = execution[f] /\ execution[f].run # execution[e].run
      BY <1>1, <1>2, <2>2 DEF Turns
    <3> QED BY <1>2, <3>1 DEF ExtractionInv, RunsInv
  <2> QED BY <2>1, <2>2
<1> QED BY <1>1, <1>2 DEF RunsInv

(* Who is late changes only where the execution that takes the step does. *)
LEMMA LateMoves ==
    ASSUME ExtractionInv, NEW e \in Executions,
           \A f \in Executions \ {e} : execution'[f] = execution[f] /\ (f \in holder' <=> f \in holder)
    PROVE  /\ IsFiniteSet(MayPay') /\ IsFiniteSet(MayHide') /\ Late \in Nat /\ Late' \in Nat
           /\ Late' + One(e \in MayPay) + One(e \in MayHide)
                = Late + One(e \in MayPay') + One(e \in MayHide')
<1>1. IsFiniteSet(MayPay) /\ IsFiniteSet(MayHide)
  BY DEF ExtractionInv, DebtInv
<1>2. \A x : x # e => (x \in MayPay <=> x \in MayPay') /\ (x \in MayHide <=> x \in MayHide')
  BY DEF MayPay, MayHide
<1>3. /\ IsFiniteSet(MayPay') /\ Cardinality(MayPay) \in Nat /\ Cardinality(MayPay') \in Nat
      /\ Cardinality(MayPay') + One(e \in MayPay) = Cardinality(MayPay) + One(e \in MayPay')
  BY <1>1, <1>2, OneMember
<1>4. /\ IsFiniteSet(MayHide') /\ Cardinality(MayHide) \in Nat /\ Cardinality(MayHide') \in Nat
      /\ Cardinality(MayHide') + One(e \in MayHide) = Cardinality(MayHide) + One(e \in MayHide')
  BY <1>1, <1>2, OneMember
<1>5. Late' = Cardinality(MayPay') + Cardinality(MayHide')
  BY DEF Late
<1>6. One(e \in MayPay) \in Nat /\ One(e \in MayHide) \in Nat /\ One(e \in MayPay') \in Nat /\ One(e \in MayHide') \in Nat
  BY DEF One
<1> QED BY <1>3, <1>4, <1>5, <1>6 DEF Late

LEMMA SumsMove ==
    ASSUME NEW s \in Nat, NEW t \in Nat, NEW l \in Nat, NEW m \in Nat, NEW a \in Nat, NEW b \in Nat,
           NEW p \in Nat, NEW h \in Nat, NEW q \in Nat, NEW i \in Nat,
           m + p + h = l + q + i, t + q + i + a <= s + p + h + b
    PROVE  t + m + a <= s + l + b
  OBVIOUS

LEMMA SumsCancel ==
    ASSUME NEW l \in Nat, NEW m \in Nat, NEW p \in Nat, m + p + 1 = l + p + 0
    PROVE  m + 1 = l
  OBVIOUS

LEMMA SumsGive ==
    ASSUME NEW s \in Nat, NEW l \in Nat, NEW m \in Nat, NEW a \in Nat, NEW o \in Nat, NEW q \in Nat,
           m + 1 = l, q <= o + 1, s + l + o <= a
    PROVE  s + m + q <= a
  OBVIOUS

LEMMA SumsAge ==
    ASSUME NEW s \in Nat, NEW l \in Nat, NEW a \in Nat, NEW o \in Nat, NEW q \in Nat,
           q <= o + 1, s + l + o <= a
    PROVE  s + l + q <= a + 1
  OBVIOUS

LEMMA SumsExcuse ==
    ASSUME NEW s \in Nat, NEW l \in Nat, NEW a \in Nat, NEW o \in Nat, NEW q \in Nat,
           q <= 1, s + l + o <= a
    PROVE  s + l + q <= a + 1
  OBVIOUS

LEMMA SumsLose ==
    ASSUME NEW s \in Nat, NEW l \in Nat, NEW m \in Nat, NEW a \in Nat, NEW o \in Nat, NEW q \in Nat,
           NEW p \in Nat, NEW h \in Nat, m + 0 + 0 = l + p + h, p + h + q <= o + 2, s + l + o <= a
    PROVE  s + m + q <= a + 2
  OBVIOUS

LEMMA SumsSettle ==
    ASSUME NEW s \in Nat, NEW t \in Nat, NEW l \in Nat, NEW m \in Nat, NEW a \in Nat, NEW b \in Nat,
           NEW o \in Nat, NEW q \in Nat, t + m + a <= s + l + b, q <= o, s + l + o <= a
    PROVE  t + m + q <= b
  OBVIOUS

(* The step of an execution whose lease was lost. *)
LEMMA LateDebt ==
    ASSUME ExtractionInv, NEW e \in Executions \ holder, NEW at, Turns(e, at),
           UNCHANGED <<print, original, holder, runs>>, \A p : ReusableFor(p) => ReusableFor(p)',
           spent' \in Nat, allowed' \in Nat,
           spent' + One(e \in MayPay') + One(e \in MayHide') + allowed
             <= spent + One(e \in MayPay) + One(e \in MayHide) + allowed'
    PROVE  DebtInv'
<1>1. /\ IsFiniteSet(MayPay') /\ IsFiniteSet(MayHide') /\ Late \in Nat /\ Late' \in Nat
      /\ Late' + One(e \in MayPay) + One(e \in MayHide)
           = Late + One(e \in MayPay') + One(e \in MayHide')
  BY LateMoves DEF Turns
<1>2. One(e \in MayPay) \in Nat /\ One(e \in MayHide) \in Nat /\ One(e \in MayPay') \in Nat /\ One(e \in MayHide') \in Nat
  BY DEF One
<1>3. spent \in Nat /\ allowed \in Nat /\ holder \subseteq Executions
  BY ExtractionKnows
<1>4. \A f \in holder : execution'[f] = execution[f]
  BY <1>3 DEF Turns
<1>5. /\ \A f \in holder : MayOwe(f)' <= MayOwe(f)
      /\ Open' <= Open
  BY <1>4, OwesNoMore
<1>6. spent' + Late' + allowed <= spent + Late + allowed'
  BY <1>1, <1>2, <1>3, SumsMove
<1>7. holder' = {} => spent' + Late' + Open' <= allowed'
  <2>1. holder' = {} => spent + Late + Open <= allowed
    BY DEF ExtractionInv, DebtInv
  <2>2. Open \in Nat /\ Open' \in Nat
    BY OwedIsNat, OwedIsNatAfter
  <2> QED BY <1>1, <1>3, <1>5, <1>6, <2>1, <2>2, SumsSettle
<1>8. \A f \in holder' : spent' + Late' + MayOwe(f)' <= allowed'
  <2> SUFFICES ASSUME NEW f \in holder' PROVE spent' + Late' + MayOwe(f)' <= allowed'
    OBVIOUS
  <2>1. spent + Late + MayOwe(f) <= allowed /\ MayOwe(f)' <= MayOwe(f)
    BY <1>5 DEF ExtractionInv, DebtInv
  <2>2. MayOwe(f) \in Nat /\ MayOwe(f)' \in Nat
    BY OwedIsNat, OwedIsNatAfter
  <2> QED BY <1>1, <1>3, <1>6, <2>1, <2>2, SumsSettle
<1> QED BY <1>1, <1>7, <1>8 DEF DebtInv

(* The step of the holder of the lease. *)
LEMMA HolderDebt ==
    ASSUME ExtractionInv, NEW e \in holder, NEW at, Turns(e, at), holder' \in {holder, holder \ {e}},
           holder' # holder => at = "idle",
           spent' \in Nat, allowed' \in Nat,
           holder' = holder => spent' + MayOwe(e)' + allowed <= spent + MayOwe(e) + allowed',
           holder' # holder => spent' + Open' + allowed <= spent + MayOwe(e) + allowed'
    PROVE  DebtInv'
<1>1. e \in Executions /\ spent \in Nat /\ allowed \in Nat /\ holder = {e}
  BY ExtractionKnows DEF ExtractionInv, HolderInv
<1>2. \A f \in Executions \ {e} : execution'[f] = execution[f] /\ (f \in holder' <=> f \in holder)
  BY DEF Turns
<1>3. /\ IsFiniteSet(MayPay') /\ IsFiniteSet(MayHide') /\ Late \in Nat /\ Late' \in Nat
      /\ Late' + One(e \in MayPay) + One(e \in MayHide)
           = Late + One(e \in MayPay') + One(e \in MayHide')
  BY <1>1, <1>2, LateMoves
<1>4. e \notin MayPay /\ e \notin MayHide /\ e \notin MayPay' /\ e \notin MayHide'
  BY DEF MayPay, MayHide, Turns
<1>5. Late' = Late
  <2>1. /\ One(e \in MayPay) = 0 /\ One(e \in MayHide) = 0 /\ One(e \in MayPay') = 0
        /\ One(e \in MayHide') = 0
    BY <1>4 DEF One
  <2> QED BY <1>3, <2>1
<1>6. spent + Late + MayOwe(e) <= allowed
  BY DEF ExtractionInv, DebtInv
<1>7. holder' = {} => spent' + Late' + Open' <= allowed'
  BY <1>1, <1>3, <1>5, <1>6, OwedIsNat, OwedIsNatAfter
<1>8. \A f \in holder' : spent' + Late' + MayOwe(f)' <= allowed'
  BY <1>1, <1>3, <1>5, <1>6, OwedIsNat, OwedIsNatAfter
<1> QED BY <1>3, <1>7, <1>8 DEF DebtInv

(* A step that works with the run it has, or leaves. *)
LEMMA StepKeeps ==
    ASSUME ExtractionInv, NEW e \in Executions, NEW at, Turns(e, at), Fits(execution'[e]),
           UNCHANGED <<print, runs>>, run' \in [1..runs -> Runs],
           original' \in [at : {"waiting", "claimed", "read"}, version : Nat],
           spent' \in Nat, allowed' \in Nat,
           holder' \in {holder, holder \ {e}}, HolderInv', RunsInv', DebtInv'
    PROVE  ExtractionInv'
<1>1. ExtractionTypeOK'
  BY DEF ExtractionInv, ExtractionTypeOK, Turns
<1>2. MemoryInv'
  BY DEF ExtractionInv, MemoryInv, Turns
<1> QED BY <1>1, <1>2 DEF ExtractionInv

(* A row that changed was not the reusable one, and so hid none. *)
LEMMA ReusableKept ==
    ASSUME ExtractionInv, NEW e \in Executions, UNCHANGED runs,
           \A i \in 1..runs : i # execution[e].run => run'[i] = run[i],
           run'[execution[e].run] = run[execution[e].run] \/ execution[e].run # NoRun
    PROVE  \A p : ReusableFor(p) => ReusableFor(p)'
<1> SUFFICES ASSUME NEW p, ReusableFor(p) PROVE ReusableFor(p)'
  OBVIOUS
<1>1. runs \in 1..runs /\ run[runs].status = "FAILED" /\ run[runs].code = "persistence"
  BY ExtractionKnows DEF ReusableFor
<1>2. run'[runs] = run[runs]
  <2>1. CASE execution[e].run = runs /\ execution[e].run # NoRun
    BY <1>1, <2>1 DEF ExtractionInv, RunsInv
  <2>2. CASE ~(execution[e].run = runs /\ execution[e].run # NoRun)
    BY <1>1, <2>2
  <2> QED BY <2>1, <2>2
<1> QED BY <1>2 DEF ReusableFor

(* An execution goes on under the claim it has. *)
LEMMA WorkKeeps ==
    ASSUME ExtractionInv, NEW e \in Executions, Alive(e), execution[e].at # "run_failure",
           NEW at, Turns(e, at), at # "idle", SameClaim(e), Fits(execution'[e]),
           execution'[e].run = execution[e].run,
           UNCHANGED <<print, original, holder, run, runs>>, spent' \in Nat, allowed' \in Nat,
           e \notin holder => spent' + One(e \in MayPay') + One(e \in MayHide') + allowed
                                <= spent + One(e \in MayPay) + One(e \in MayHide) + allowed',
           e \in holder => spent' + MayOwe(e)' + allowed <= spent + MayOwe(e) + allowed'
    PROVE  ExtractionInv'
<1>1. /\ run \in [1..runs -> Runs]
      /\ original \in [at : {"waiting", "claimed", "read"}, version : Nat]
  BY DEF ExtractionInv, ExtractionTypeOK
<1>2. HolderInv'
  BY HolderKept
<1>3. RunsInv'
  <2>1. execution[e].run # NoRun =>
          ~(run[execution[e].run].status = "FAILED" /\ run[execution[e].run].code = "persistence")
    BY DEF ExtractionInv, RunsInv
  <2> QED BY <2>1, RunsKept
<1>4. DebtInv'
  <2>1. \A p : ReusableFor(p) => ReusableFor(p)'
    BY DEF ReusableFor
  <2>2. CASE e \notin holder
    BY <2>1, <2>2, LateDebt
  <2>3. CASE e \in holder
    BY <2>3, HolderDebt
  <2> QED BY <2>2, <2>3
<1> QED BY <1>1, <1>2, <1>3, <1>4, StepKeeps

(* An execution returns, or dies. *)
LEMMA LeavingKeeps ==
    ASSUME ExtractionInv, NEW e \in Executions, Alive(e), Leaves(e),
           holder' \in {holder, holder \ {e}}, UNCHANGED <<print, runs, spent>>,
           run' \in [1..runs -> Runs], \A i \in 1..runs : i # execution[e].run => run'[i] = run[i],
           run'[execution[e].run] = run[execution[e].run] \/ execution[e].run # NoRun,
           original' \in [at : {"waiting", "claimed", "read"}, version : Nat],
           original' # original => e \in holder /\ original'.version = original.version + 1,
           allowed' \in Nat, allowed <= allowed',
           holder' # holder => Open' + allowed <= MayOwe(e) + allowed'
    PROVE  ExtractionInv'
<1>1. Turns(e, "idle") /\ execution'[e].run = NoRun /\ Fits(execution'[e])
  BY RowLeaves
<1>2. HolderInv'
  BY <1>1, HolderKept
<1>3. RunsInv'
  BY <1>1, RunsKept
<1>4. spent \in Nat /\ allowed \in Nat
  BY ExtractionKnows
<1>5. e \notin MayPay' /\ e \notin MayHide' /\ MayOwe(e)' = 0
  BY <1>1 DEF MayPay, MayHide, MayOwe, Turns
<1>6. DebtInv'
  <2>1. \A p : ReusableFor(p) => ReusableFor(p)'
    BY ReusableKept
  <2>2. CASE e \notin holder
    <3>1. UNCHANGED <<holder, original>>
      BY <2>2
    <3>2. spent' + One(e \in MayPay') + One(e \in MayHide') + allowed
            <= spent + One(e \in MayPay) + One(e \in MayHide) + allowed'
      <4>1. One(e \in MayPay') = 0 /\ One(e \in MayHide') = 0
        BY <1>5 DEF One
      <4>2. One(e \in MayPay) \in Nat /\ One(e \in MayHide) \in Nat
        BY DEF One
      <4> QED BY <1>4, <4>1, <4>2
    <3> QED BY <1>1, <1>4, <2>1, <2>2, <3>1, <3>2, LateDebt
  <2>3. CASE e \in holder
    <3>1. holder' = holder => spent' + MayOwe(e)' + allowed <= spent + MayOwe(e) + allowed'
      BY <1>4, <1>5, OwedIsNat
    <3>2. holder' # holder => spent' + Open' + allowed <= spent + MayOwe(e) + allowed'
      BY SMTT(30), <1>4, OwedIsNat, OwedIsNatAfter
    <3> QED BY <1>1, <1>4, <2>3, <3>1, <3>2, HolderDebt
  <2> QED BY <2>2, <2>3
<1> QED BY <1>1, <1>2, <1>3, <1>4, <1>6, StepKeeps

LEMMA MemoryFits ==
    ASSUME ExtractionInv, NEW e \in Executions
    PROVE  Fits(execution[e]) /\ execution[e] \in ExecutionRows /\ spent \in Nat /\ allowed \in Nat
  BY ExtractionKnows DEF ExtractionInv, MemoryInv

LEMMA ClaimKeeps ==
    ASSUME ExtractionInv, NEW e \in Executions, ClaimOriginal(e)
    PROVE  ExtractionInv'
<1>1. /\ execution[e].at = "idle" /\ holder = {} /\ holder' = {e} /\ original.at = "waiting"
      /\ UNCHANGED <<print, run, runs, spent, allowed>>
  BY DEF ClaimOriginal
<1>2. /\ original' = [at |-> "claimed", version |-> original.version + 1]
      /\ original'.version = original.version + 1 /\ original.version \in Nat
  BY ExtractionKnows DEF ClaimOriginal, WritesNote
<1>3. /\ Turns(e, "look") /\ Fits(execution'[e]) /\ execution'[e].run = NoRun
      /\ execution'[e].version = original.version + 1 /\ execution'[e].print = print
  <2>1. PICK models \in ModelCounts :
          execution' = [execution EXCEPT ![e] = [NotStarted EXCEPT !.at = "look", !.models = models,
                                    !.version = original.version + 1, !.print = print]]
    BY DEF ClaimOriginal
  <2>2. models \in {1, 2} /\ original.version + 1 \in Nat /\ print \in Prints
    BY <1>2, ExtractionAssumption, ExtractionKnows
  <2> DEFINE after == [NotStarted EXCEPT !.at = "look", !.models = models,
                                    !.version = original.version + 1, !.print = print]
  <2>3. /\ after \in ExecutionRows /\ after.at = "look" /\ after.run = NoRun /\ after.readable = FALSE
        /\ after.version = original.version + 1 /\ after.print = print
    BY <2>2, NotStartedFits DEF ExecutionRows, ExecutionSteps, NotStarted
  <2>4. execution' = [execution EXCEPT ![e] = after]
    BY <2>1
  <2> HIDE DEF after
  <2> QED BY <2>3, <2>4, ExtractionKnows DEF Turns, Fits, WithRun
<1>4. ExtractionTypeOK' /\ MemoryInv'
  BY <1>1, <1>2, <1>3 DEF ExtractionInv, ExtractionTypeOK, MemoryInv, Turns
<1>5. HolderInv'
  <2>1. \A f \in Executions \ {e} : Alive(f)' =>
          execution'[f].version < original'.version /\ execution[f].version \in Nat
    BY <1>1, <1>2, <1>3, ExtractionKnows DEF ExtractionInv, HolderInv, Turns, Alive, ExecutionRows
  <2> QED BY <1>1, <1>2, <1>3, <2>1, ExtractionKnows DEF HolderInv, Turns, StillClaimed, ExecutionRows
<1>6. RunsInv'
  <2>1. \A f \in Executions \ {e} : execution'[f] = execution[f]
    BY <1>3 DEF Turns
  <2> QED BY <1>1, <1>3, <2>1 DEF ExtractionInv, RunsInv
<1>7. DebtInv'
  <2>1. /\ IsFiniteSet(MayPay') /\ IsFiniteSet(MayHide') /\ Late \in Nat /\ Late' \in Nat
        /\ Late' + One(e \in MayPay) + One(e \in MayHide)
             = Late + One(e \in MayPay') + One(e \in MayHide')
    BY <1>1, <1>3, LateMoves DEF Turns
  <2>2. e \notin MayPay /\ e \notin MayHide /\ e \notin MayPay' /\ e \notin MayHide'
    BY <1>1 DEF MayPay, MayHide
  <2>3. MayOwe(e)' = Open
    <3>1. ReusableFor(print)' <=> ReusableFor(print)
      BY <1>1 DEF ReusableFor
    <3>2. execution'[e].at = "look" /\ execution'[e].print = print
      BY <1>3 DEF Turns
    <3> QED BY <1>1, <3>1, <3>2 DEF MayOwe, Open, One
  <2> QED BY <1>1, <2>1, <2>2, <2>3 DEF ExtractionInv, DebtInv, One
<1> QED BY <1>4, <1>5, <1>6, <1>7 DEF ExtractionInv

LEMMA RowLooks ==
    ASSUME ExtractionInv, NEW e \in Executions, NEW found \in BOOLEAN,
           execution' = [execution EXCEPT ![e].at = "create", ![e].result = found]
    PROVE  /\ Turns(e, "create") /\ SameClaim(e) /\ execution'[e].run = execution[e].run
           /\ execution'[e].readable = execution[e].readable /\ execution'[e].result = found
<1> DEFINE old == execution[e]
           one == [old EXCEPT !.at = "create"]
           two == [one EXCEPT !.result = found]
<1>1. old \in ExecutionRows /\ execution' = [execution EXCEPT ![e] = two]
  BY ExtractionKnows
<1>2. /\ one \in ExecutionRows /\ one.version = old.version /\ one.print = old.print
      /\ one.at = "create" /\ one.run = old.run /\ one.readable = old.readable
  BY <1>1 DEF ExecutionRows, ExecutionSteps
<1> HIDE DEF one
<1>3. /\ two \in ExecutionRows /\ two.version = old.version /\ two.print = old.print
      /\ two.at = "create" /\ two.run = old.run /\ two.readable = old.readable /\ two.result = found
  BY <1>2 DEF ExecutionRows, ExecutionSteps
<1> HIDE DEF two
<1> QED BY <1>1, <1>3, RowTurns DEF SameClaim

LEMMA LookKeeps ==
    ASSUME ExtractionInv, NEW e \in Executions, LookForCheckpoint(e)
    PROVE  ExtractionInv'
<1>1. /\ execution[e].at = "look" /\ Alive(e) /\ OnlyExecution
      /\ execution[e].run = NoRun /\ execution[e].readable = FALSE
  BY MemoryFits DEF LookForCheckpoint, Alive, Fits, ExecutionRows
<1>2. /\ UNCHANGED <<print, original, holder, run, runs, spent, allowed>>
      /\ spent \in Nat /\ allowed \in Nat
  BY <1>1, MemoryFits DEF OnlyExecution
<1>3. /\ e \notin holder => e \in MayPay /\ e \in MayHide
      /\ MayOwe(e) = One(~ReusableFor(execution[e].print)) + One(execution[e].print # print)
  BY <1>1 DEF MayPay, MayHide, MayOwe
<1>4. ReusableFor(print)' <=> ReusableFor(print)
  BY <1>2 DEF ReusableFor
<1>5. CASE Fails(e, "persistence")
  <2>1. /\ Turns(e, "note_failure") /\ SameClaim(e) /\ execution'[e].run = NoRun
        /\ execution'[e].readable = FALSE
    BY <1>1, <1>5, RowFails
  <2>2. execution'[e].at = "note_failure" /\ Fits(execution'[e])
    BY <2>1 DEF Turns, Fits, WithRun
  <2>3. e \notin MayPay' /\ e \notin MayHide'
    BY <2>2 DEF MayPay, MayHide
  <2>4. MayOwe(e)' = One(~ReusableFor(print)) /\ MayOwe(e)' <= MayOwe(e)
    BY <1>2, <1>3, <1>4, <2>1, <2>2 DEF MayOwe, One
  <2> QED BY <1>1, <1>2, <1>3, <2>1, <2>2, <2>3, <2>4, OwedIsNat, OwedIsNatAfter, WorkKeeps DEF One
<1>6. CASE execution' = [execution EXCEPT ![e].at = "create", ![e].result = Reusable(e)]
  <2>1. PICK found \in BOOLEAN : found = Reusable(e)
    BY DEF Reusable
  <2>2. /\ Turns(e, "create") /\ SameClaim(e) /\ execution'[e].run = NoRun
        /\ execution'[e].readable = FALSE /\ execution'[e].result = found
    BY <1>1, <1>6, <2>1, RowLooks
  <2>3. execution'[e].at = "create" /\ Fits(execution'[e])
    BY <2>2 DEF Turns, Fits, WithRun
  <2>4. found <=> ReusableFor(execution[e].print)
    BY <2>1 DEF Reusable, ReusableFor
  <2>5. MayOwe(e)' <= MayOwe(e)
    BY <1>2, <1>3, <1>4, <2>2, <2>3, <2>4 DEF MayOwe, One, SameClaim
  <2> QED BY <1>1, <1>2, <1>3, <2>2, <2>3, <2>5, OwedIsNat, OwedIsNatAfter, WorkKeeps DEF One
<1> QED BY <1>5, <1>6 DEF LookForCheckpoint

(* A call for the reading, or none. *)
LEMMA RowCalls ==
    ASSUME ExtractionInv, NEW e \in Executions, NEW n \in 0..2,
           execution' = [execution EXCEPT ![e].at = "answer", ![e].calls = n]
    PROVE  Turns(e, "answer") /\ SameClaim(e) /\ execution'[e].run = execution[e].run
<1> DEFINE old == execution[e]
           one == [old EXCEPT !.at = "answer"]
           two == [one EXCEPT !.calls = n]
<1>1. old \in ExecutionRows /\ execution' = [execution EXCEPT ![e] = two]
  BY ExtractionKnows
<1>2. /\ one \in ExecutionRows /\ one.version = old.version /\ one.print = old.print
      /\ one.at = "answer" /\ one.run = old.run
  BY <1>1 DEF ExecutionRows, ExecutionSteps
<1> HIDE DEF one
<1>3. /\ two \in ExecutionRows /\ two.version = old.version /\ two.print = old.print
      /\ two.at = "answer" /\ two.run = old.run
  BY <1>2 DEF ExecutionRows, ExecutionSteps
<1> HIDE DEF two
<1> QED BY <1>1, <1>3, RowTurns DEF SameClaim

LEMMA RowPauses ==
    ASSUME ExtractionInv, NEW e \in Executions,
           \/ execution' = [execution EXCEPT ![e].at = "pause", ![e].readable = TRUE]
           \/ Continues(e, "pause")
    PROVE  Turns(e, "pause") /\ SameClaim(e) /\ execution'[e].run = execution[e].run
<1>1. execution \in [Executions -> ExecutionRows] /\ "pause" \in ExecutionSteps
  BY ExtractionKnows DEF ExecutionSteps
<1>2. CASE execution' = [execution EXCEPT ![e].at = "pause", ![e].readable = TRUE]
  <2> DEFINE old == execution[e]
             one == [old EXCEPT !.at = "pause"]
             two == [one EXCEPT !.readable = TRUE]
  <2>1. old \in ExecutionRows /\ execution' = [execution EXCEPT ![e] = two]
    BY <1>1, <1>2
  <2>2. /\ one \in ExecutionRows /\ one.version = old.version /\ one.print = old.print
        /\ one.at = "pause" /\ one.run = old.run
    BY <1>1, <2>1 DEF ExecutionRows
  <2> HIDE DEF one
  <2>3. /\ two \in ExecutionRows /\ two.version = old.version /\ two.print = old.print
        /\ two.at = "pause" /\ two.run = old.run
    BY <2>2 DEF ExecutionRows
  <2> HIDE DEF two
  <2> QED BY <2>1, <2>3, RowTurns DEF SameClaim
<1>3. CASE Continues(e, "pause")
  BY <1>1, <1>3, RowContinues
<1> QED BY <1>2, <1>3

LEMMA ReadOriginalKeeps ==
    ASSUME ExtractionInv, NEW e \in Executions, ReadOriginal(e)
    PROVE  ExtractionInv'
<1>1. /\ execution[e].at = "read" /\ Alive(e) /\ UNCHANGED <<print, holder, original, run, runs, allowed>>
      /\ execution[e].run # NoRun /\ execution[e].readable = FALSE /\ spent \in Nat /\ allowed \in Nat
  BY MemoryFits DEF ReadOriginal, Alive, Fits, WithRun, ExecutionRows
<1>2. /\ e \notin holder => e \in MayPay /\ e \notin MayHide
      /\ MayOwe(e) = 1 + One(Stranded(e))
  BY <1>1 DEF MayPay, MayHide, MayOwe
<1>3. CASE Fails(e, "other") /\ UNCHANGED spent
  <2>1. /\ Turns(e, "note_failure") /\ SameClaim(e) /\ execution'[e].run = execution[e].run
        /\ execution'[e].readable = FALSE /\ execution'[e].code = "other"
    BY <1>1, <1>3, RowFails
  <2>2. execution'[e].at = "note_failure" /\ Fits(execution'[e])
    BY <1>1, <2>1 DEF Turns, Fits, WithRun
  <2>3. e \notin MayPay' /\ e \notin MayHide'
    BY <2>2 DEF MayPay, MayHide
  <2>4. MayOwe(e)' = 1
    BY <1>1, <2>1, <2>2 DEF MayOwe
  <2> QED BY <1>1, <1>2, <1>3, <2>1, <2>2, <2>3, <2>4, WorkKeeps DEF One
<1>4. CASE execution' = [execution EXCEPT ![e].at = "answer", ![e].calls = 1] /\ spent' = spent + 1
  <2>1. /\ Turns(e, "answer") /\ SameClaim(e) /\ execution'[e].run = execution[e].run
    BY <1>4, 1 \in 0..2, RowCalls
  <2>2. execution'[e].at = "answer" /\ Fits(execution'[e])
    BY <1>1, <2>1 DEF Turns, Fits, WithRun
  <2>3. e \notin MayPay' /\ e \notin MayHide'
    BY <2>2 DEF MayPay, MayHide
  <2>4. MayOwe(e)' = One(Stranded(e))
    BY <1>1, <2>1, <2>2 DEF MayOwe, One, Stranded, SameClaim
  <2>5. e \notin holder => One(e \in MayPay) = 1 /\ One(e \in MayHide) = 0
    BY <1>2 DEF One
  <2>6. One(e \in MayPay') = 0 /\ One(e \in MayHide') = 0
    BY <2>3 DEF One
  <2>7. spent' + MayOwe(e)' = spent + MayOwe(e)
    BY <1>1, <1>2, <1>4, <2>4, OwedIsNatAfter
  <2>8. e \notin holder => spent' + One(e \in MayPay') + One(e \in MayHide') + allowed
                              <= spent + One(e \in MayPay) + One(e \in MayHide) + allowed'
    BY <1>1, <1>4, <2>5, <2>6
  <2>9. e \in holder => spent' + MayOwe(e)' + allowed <= spent + MayOwe(e) + allowed'
    <3>1. spent' + MayOwe(e)' \in Nat
      BY <1>1, <1>4, OwedIsNatAfter
    <3> QED BY <1>1, <2>7, <3>1
  <2>10. spent' \in Nat
    BY <1>1, <1>4
  <2> QED BY <1>1, <1>4, <2>1, <2>2, <2>8, <2>9, <2>10, WorkKeeps
<1> QED BY <1>3, <1>4 DEF ReadOriginal

(* What follows the call: nothing more is paid, and a reading that is refused  *)
(* is a reason for another. *)
LEMMA AnswerKeeps ==
    ASSUME ExtractionInv, NEW e \in Executions, execution[e].at \in {"answer", "pause"},
           UNCHANGED <<print, holder, original, run, runs, spent>>,
           \/ Given(e)
           \/ ~execution[e].readable /\ Refused(e)
           \/ /\ \/ execution' = [execution EXCEPT ![e].at = "pause", ![e].readable = TRUE]
                 \/ Continues(e, "pause")
                 \/ execution' = [execution EXCEPT ![e].at = "answer", ![e].calls = 2]
              /\ UNCHANGED allowed
    PROVE  ExtractionInv'
<1>1. /\ Alive(e) /\ execution[e].run # NoRun /\ spent \in Nat /\ allowed \in Nat
      /\ execution[e].readable \in BOOLEAN /\ execution[e].at # "run_failure"
  BY MemoryFits DEF Alive, Fits, WithRun, ExecutionRows
<1>2. /\ e \notin MayPay /\ e \notin MayHide
      /\ MayOwe(e) = One(Stranded(e))
  BY DEF MayPay, MayHide, MayOwe
<1>3. ASSUME NEW at \in {"answer", "pause", "keep"}, Turns(e, at), SameClaim(e),
             execution'[e].run = execution[e].run, at = "keep" => ~execution'[e].readable,
             UNCHANGED allowed
      PROVE  ExtractionInv'
  <2>1. execution'[e].at = at /\ Fits(execution'[e])
    BY <1>1, <1>3 DEF Turns, Fits, WithRun
  <2>2. e \notin MayPay' /\ e \notin MayHide'
    BY <2>1 DEF MayPay, MayHide
  <2>3. MayOwe(e)' = One(Stranded(e))
    BY <1>1, <1>3, <2>1 DEF MayOwe, One, Stranded, SameClaim
  <2>4. /\ One(e \in MayPay) = 0 /\ One(e \in MayHide) = 0
        /\ One(e \in MayPay') = 0 /\ One(e \in MayHide') = 0
    BY <1>2, <2>2 DEF One
  <2>5. MayOwe(e)' = MayOwe(e) /\ MayOwe(e) \in Nat
    BY <1>2, <2>3, OwedIsNat
  <2> QED BY <1>1, <1>3, <2>1, <2>4, <2>5, WorkKeeps
<1>4. CASE Given(e)
  BY <1>3, <1>4, RowGiven DEF Given
<1>5. CASE ~execution[e].readable /\ Refused(e)
  <2>1. /\ Turns(e, "note_failure") /\ SameClaim(e) /\ execution'[e].run = execution[e].run
        /\ execution'[e].readable = execution[e].readable /\ execution'[e].code = "other"
        /\ allowed' = allowed + 1
    BY <1>5, RowFails DEF Refused
  <2>2. execution'[e].at = "note_failure" /\ Fits(execution'[e])
    BY <1>1, <1>5, <2>1 DEF Turns, Fits, WithRun
  <2>3. e \notin MayPay' /\ e \notin MayHide'
    BY <2>2 DEF MayPay, MayHide
  <2>4. MayOwe(e)' = 1
    BY <1>1, <2>1, <2>2 DEF MayOwe
  <2> QED BY <1>1, <1>2, <2>1, <2>2, <2>3, <2>4, WorkKeeps DEF One
<1>6. CASE UNCHANGED allowed /\ \/ execution' = [execution EXCEPT ![e].at = "pause", ![e].readable = TRUE]
                                \/ Continues(e, "pause")
  BY <1>3, <1>6, RowPauses
<1>7. CASE UNCHANGED allowed /\ execution' = [execution EXCEPT ![e].at = "answer", ![e].calls = 2]
  BY <1>3, <1>7, 2 \in 0..2, RowCalls
<1> QED BY <1>4, <1>5, <1>6, <1>7

LEMMA ReadAnswersKeeps ==
    ASSUME ExtractionInv, NEW e \in Executions, ReadAnswers(e) \/ CallFallback(e)
    PROVE  ExtractionInv'
<1>1. /\ execution[e].at \in {"answer", "pause"}
      /\ UNCHANGED <<print, holder, original, run, runs, spent>>
  BY DEF ReadAnswers, CallFallback
<1>2. Preserved(e) => Given(e) \/ (~execution[e].readable /\ Refused(e))
  BY DEF Preserved
<1> QED BY <1>1, <1>2, AnswerKeeps DEF ReadAnswers, CallFallback

LEMMA RowCreates ==
    ASSUME ExtractionInv, NEW e \in Executions, NEW at \in {"keep", "read"}, NEW r \in RunIds,
           execution' = [execution EXCEPT ![e].run = r, ![e].at = at]
    PROVE  /\ Turns(e, at) /\ SameClaim(e) /\ execution'[e].run = r
           /\ execution'[e].readable = execution[e].readable
<1> DEFINE old == execution[e]
           one == [old EXCEPT !.run = r]
           two == [one EXCEPT !.at = at]
<1>1. old \in ExecutionRows /\ execution' = [execution EXCEPT ![e] = two]
  BY ExtractionKnows
<1>2. /\ one \in ExecutionRows /\ one.version = old.version /\ one.print = old.print
      /\ one.run = r /\ one.readable = old.readable
  BY <1>1 DEF ExecutionRows, ExecutionSteps
<1> HIDE DEF one
<1>3. /\ two \in ExecutionRows /\ two.version = old.version /\ two.print = old.print
      /\ two.at = at /\ two.run = r /\ two.readable = old.readable
  BY <1>2 DEF ExecutionRows, ExecutionSteps
<1> HIDE DEF two
<1> QED BY <1>1, <1>3, RowTurns DEF SameClaim

LEMMA CreateRunKeeps ==
    ASSUME ExtractionInv, NEW e \in Executions, CreateRun(e)
    PROVE  ExtractionInv'
<1>1. /\ execution[e].at = "create" /\ Alive(e) /\ UNCHANGED <<print, holder, original, spent, allowed>>
      /\ execution[e].run = NoRun /\ execution[e].readable = FALSE /\ execution[e].result \in BOOLEAN
      /\ spent \in Nat /\ allowed \in Nat
  BY MemoryFits DEF CreateRun, Alive, Fits, ExecutionRows
<1>2. /\ e \notin holder => e \in MayHide /\ (e \in MayPay <=> ~execution[e].result)
      /\ MayOwe(e) = IF execution[e].result THEN One(~ReusableFor(print) \/ execution[e].print # print)
                     ELSE 1 + One(execution[e].print # print)
  BY <1>1 DEF MayPay, MayHide, MayOwe
<1>3. CASE Fails(e, "persistence") /\ UNCHANGED <<run, runs>>
  <2>1. /\ Turns(e, "note_failure") /\ SameClaim(e) /\ execution'[e].run = NoRun
        /\ execution'[e].readable = FALSE
    BY <1>1, <1>3, RowFails
  <2>2. execution'[e].at = "note_failure" /\ Fits(execution'[e])
    BY <2>1 DEF Turns, Fits, WithRun
  <2>3. e \notin MayPay' /\ e \notin MayHide'
    BY <2>2 DEF MayPay, MayHide
  <2>4. ReusableFor(print)' <=> ReusableFor(print)
    BY <1>1, <1>3 DEF ReusableFor
  <2>5. MayOwe(e)' <= MayOwe(e)
    BY <1>1, <1>2, <2>1, <2>2, <2>4 DEF MayOwe, One
  <2> QED BY <1>1, <1>2, <1>3, <2>1, <2>2, <2>3, <2>5, OwedIsNat, OwedIsNatAfter, WorkKeeps DEF One
<1>4. CASE /\ runs < MaxRuns /\ runs' = runs + 1
           /\ run' = [i \in 1..runs + 1 |->
                         IF i <= runs THEN run[i]
                         ELSE [status |-> "RUNNING", code |-> "none", print |-> execution[e].print,
                               checkpoint |-> FALSE]]
           /\ execution' = [execution EXCEPT ![e].run = runs + 1,
                                ![e].at = IF execution[e].result THEN "keep" ELSE "read"]
  <2>1. PICK at \in {"keep", "read"} : at = IF execution[e].result THEN "keep" ELSE "read"
    OBVIOUS
  <2>2. runs \in Nat /\ runs + 1 \in RunIds /\ runs' \in 0..MaxRuns /\ runs' = runs + 1 /\ runs' # NoRun
    BY <1>4, ExtractionKnows DEF RunIds, NoRun
  <2>3. /\ Turns(e, at) /\ SameClaim(e) /\ execution'[e].run = runs' /\ execution'[e].readable = FALSE
    BY <1>1, <1>4, <2>1, <2>2, RowCreates
  <2>4. execution'[e].at = at /\ Fits(execution'[e])
    BY <2>2, <2>3 DEF Turns, Fits, WithRun
  <2>5. /\ run' \in [1..runs' -> Runs] /\ run'[runs'].status = "RUNNING" /\ run'[runs'].code = "none"
        /\ run'[runs'].print = execution[e].print
        /\ \A i \in 1..runs : run'[i] = run[i]
    <3>1. execution[e].print \in Prints /\ run \in [1..runs -> Runs]
      BY ExtractionKnows, MemoryFits DEF ExecutionRows
    <3> QED BY <1>4, <2>2, <3>1 DEF Runs
  <2>6. ExtractionTypeOK' /\ MemoryInv'
    BY <1>1, <2>2, <2>3, <2>4, <2>5 DEF ExtractionInv, ExtractionTypeOK, MemoryInv, Turns
  <2>7. HolderInv'
    BY <1>1, <2>1, <2>3, HolderKept
  <2>8. RunsInv'
    <3>1. ASSUME NEW f \in Executions \ {e}, execution[f].run # NoRun
          PROVE  /\ execution[f].run \in 1..runs' /\ execution[f].run # runs'
                 /\ run'[execution[f].run] = run[execution[f].run]
      BY <2>2, <2>5, <3>1 DEF ExtractionInv, RunsInv
    <3>2. \A f \in Executions \ {e} : execution'[f] = execution[f]
      BY <2>3 DEF Turns
    <3> QED BY <2>2, <2>3, <2>5, <3>1, <3>2 DEF ExtractionInv, RunsInv, SameClaim
  <2>9. DebtInv'
    <3>1. /\ \A f : execution'[f] = execution[f] => MayOwe(f)' <= MayOwe(f) + 1
          /\ Open' <= Open + 1
      BY <1>1, OwesOneMore
    <3>2. CASE e \in holder
      <4>1. MayOwe(e)' <= MayOwe(e)
        BY <1>1, <1>2, <2>1, <2>3, <2>4 DEF MayOwe, One, Stranded, SameClaim
      <4> QED BY <1>1, <2>1, <2>3, <3>2, <4>1, OwedIsNat, OwedIsNatAfter, HolderDebt
    <3>3. CASE e \notin holder
      <4>1. /\ IsFiniteSet(MayPay') /\ IsFiniteSet(MayHide') /\ Late \in Nat /\ Late' \in Nat
            /\ Late' + One(e \in MayPay) + One(e \in MayHide)
                 = Late + One(e \in MayPay') + One(e \in MayHide')
        BY <1>1, <2>3, LateMoves DEF Turns
      <4>2. e \notin MayHide' /\ (e \in MayPay' <=> ~execution[e].result)
        BY <1>1, <2>1, <2>4, <3>3 DEF MayPay, MayHide
      <4>3. Late' + 1 = Late
        <5>1. /\ One(e \in MayPay) = One(e \in MayPay') /\ One(e \in MayPay) \in Nat
              /\ One(e \in MayHide) = 1 /\ One(e \in MayHide') = 0
          BY <1>2, <3>3, <4>2 DEF One
        <5>2. Late' + One(e \in MayPay) + 1 = Late + One(e \in MayPay) + 0
          BY <4>1, <5>1
        <5>3. Late \in Nat /\ Late' \in Nat
          BY <4>1
        <5> QED BY <5>1, <5>2, <5>3, SumsCancel
      <4>4. \A f \in holder : MayOwe(f)' <= MayOwe(f) + 1
        <5>1. \A f \in holder : execution'[f] = execution[f]
          BY <2>3, <3>3, ExtractionKnows DEF Turns
        <5> QED BY <3>1, <5>1
      <4>5. holder' = {} => spent' + Late' + Open' <= allowed'
        <5>1. holder' = {} => spent + Late + Open <= allowed
          BY <1>1 DEF ExtractionInv, DebtInv
        <5>2. Open \in Nat /\ Open' \in Nat
          BY OwedIsNat, OwedIsNatAfter
        <5>3. Open' <= Open + 1
          BY <1>1, <3>1
        <5>4. holder' = {} => spent + Late' + Open' <= allowed
          BY <1>1, <4>1, <4>3, <5>1, <5>2, <5>3, SumsGive
        <5> QED BY <1>1, <5>4
      <4>6. \A f \in holder' : spent' + Late' + MayOwe(f)' <= allowed'
        <5> SUFFICES ASSUME NEW f \in holder' PROVE spent' + Late' + MayOwe(f)' <= allowed'
          OBVIOUS
        <5>1. f \in holder /\ spent' = spent /\ allowed' = allowed
          BY <1>1
        <5>2. spent + Late + MayOwe(f) <= allowed
          BY <5>1 DEF ExtractionInv, DebtInv
        <5>3. MayOwe(f) \in Nat /\ MayOwe(f)' \in Nat /\ spent \in Nat /\ allowed \in Nat
          BY OwedIsNat, OwedIsNatAfter, ExtractionKnows
        <5>4. Late' + 1 = Late /\ Late \in Nat /\ Late' \in Nat /\ MayOwe(f)' <= MayOwe(f) + 1
          BY <4>1, <4>3, <4>4, <5>1
        <5>5. spent + Late' + MayOwe(f)' <= allowed
          BY <5>2, <5>3, <5>4, SumsGive
        <5> QED BY <5>1, <5>5
      <4> QED BY <4>1, <4>5, <4>6 DEF DebtInv
    <3> QED BY <3>2, <3>3
  <2> QED BY <2>6, <2>7, <2>8, <2>9 DEF ExtractionInv
<1> QED BY <1>3, <1>4 DEF CreateRun

LEMMA RowKeeps ==
    ASSUME ExtractionInv, NEW e \in Executions,
           \/ execution' = [execution EXCEPT ![e].at = "store", ![e].kept = TRUE]
           \/ execution' = [execution EXCEPT ![e].at = "note_failure", ![e].code = "persistence",
                                             ![e].kept = TRUE]
    PROVE  \E at \in {"store", "note_failure"} :
             /\ Turns(e, at) /\ SameClaim(e) /\ execution'[e].run = execution[e].run
             /\ execution'[e].readable = execution[e].readable /\ execution'[e].kept = TRUE
             /\ at = "note_failure" => execution'[e].code = "persistence"
<1>1. execution \in [Executions -> ExecutionRows]
  BY ExtractionKnows
<1> DEFINE old == execution[e]
           kept == [old EXCEPT !.kept = TRUE]
<1>2. old \in ExecutionRows
  BY <1>1
<1>3. /\ kept \in ExecutionRows /\ kept.version = old.version /\ kept.print = old.print
      /\ kept.run = old.run /\ kept.readable = old.readable /\ kept.kept = TRUE
  BY <1>2 DEF ExecutionRows
<1>4. CASE execution' = [execution EXCEPT ![e].at = "store", ![e].kept = TRUE]
  <2> DEFINE two == [kept EXCEPT !.at = "store"]
  <2>1. execution' = [execution EXCEPT ![e] = two]
    BY <1>1, <1>4
  <2> HIDE DEF kept
  <2>2. /\ two \in ExecutionRows /\ two.version = old.version /\ two.print = old.print
        /\ two.run = old.run /\ two.readable = old.readable /\ two.kept = TRUE /\ two.at = "store"
    BY <1>3 DEF ExecutionRows, ExecutionSteps
  <2> HIDE DEF two
  <2> QED BY ZenonT(30), <2>1, <2>2, RowTurns DEF SameClaim
<1>5. CASE execution' = [execution EXCEPT ![e].at = "note_failure", ![e].code = "persistence",
                                          ![e].kept = TRUE]
  <2> DEFINE two   == [kept EXCEPT !.at = "note_failure"]
             three == [two EXCEPT !.code = "persistence"]
  <2>1. execution' = [execution EXCEPT ![e] = three]
    BY <1>1, <1>5
  <2> HIDE DEF kept
  <2>2. /\ two \in ExecutionRows /\ two.version = old.version /\ two.print = old.print
        /\ two.run = old.run /\ two.readable = old.readable /\ two.kept = TRUE /\ two.at = "note_failure"
    BY <1>3 DEF ExecutionRows, ExecutionSteps
  <2> HIDE DEF two
  <2>3. /\ three \in ExecutionRows /\ three.version = old.version /\ three.print = old.print
        /\ three.run = old.run /\ three.readable = old.readable /\ three.kept = TRUE
        /\ three.at = "note_failure" /\ three.code = "persistence"
    BY <2>2 DEF ExecutionRows
  <2> HIDE DEF three
  <2> QED BY <2>1, <2>3, RowTurns DEF SameClaim
<1> QED BY <1>4, <1>5

LEMMA KeepKeeps ==
    ASSUME ExtractionInv, NEW e \in Executions, KeepCheckpoint(e)
    PROVE  ExtractionInv'
<1>1. /\ execution[e].at = "keep" /\ Alive(e) /\ UNCHANGED <<print, holder, original, runs, spent, allowed>>
      /\ execution[e].run # NoRun /\ execution[e].readable = FALSE /\ spent \in Nat /\ allowed \in Nat
  BY MemoryFits DEF KeepCheckpoint, Alive, Fits, WithRun, ExecutionRows
<1>2. PICK at \in {"store", "note_failure"} :
        /\ Turns(e, at) /\ SameClaim(e) /\ execution'[e].run = execution[e].run
        /\ execution'[e].readable = execution[e].readable /\ execution'[e].kept = TRUE
        /\ at = "note_failure" => execution'[e].code = "persistence"
  BY RowKeeps DEF KeepCheckpoint
<1>3. execution'[e].at = at /\ Fits(execution'[e])
  BY <1>1, <1>2 DEF Turns, Fits, WithRun
<1>4. /\ run' \in [1..runs -> Runs]
      /\ \A i \in 1..runs : /\ i # execution[e].run => run'[i] = run[i]
                            /\ run'[i].print = run[i].print /\ run'[i].status = run[i].status
                            /\ run'[i].code = run[i].code
      /\ execution[e].run \in 1..runs
  <2>1. run \in [1..runs -> Runs] /\ execution[e].run \in 1..runs
    BY <1>1, ExtractionKnows DEF ExtractionInv, RunsInv
  <2>2. CASE UNCHANGED run
    BY <2>1, <2>2
  <2>3. CASE run' = [run EXCEPT ![execution[e].run].checkpoint = TRUE]
    BY ZenonT(30), <2>1, <2>3 DEF Runs
  <2> QED BY <2>2, <2>3 DEF KeepCheckpoint
<1>5. HolderInv'
  BY <1>1, <1>2, HolderKept
<1>6. RunsInv'
  BY <1>1, <1>2, <1>4, RunsKept DEF ExtractionInv, RunsInv
<1>7. DebtInv'
  <2>1. \A p : ReusableFor(p) => ReusableFor(p)'
    BY <1>1, <1>4, ReusableKept
  <2>2. e \notin MayPay /\ e \notin MayHide /\ e \notin MayPay' /\ e \notin MayHide'
    BY <1>1, <1>3 DEF MayPay, MayHide
  <2>3. MayOwe(e)' = One(Stranded(e)) /\ MayOwe(e) = One(Stranded(e))
    BY <1>1, <1>2, <1>3 DEF MayOwe, One, Stranded, SameClaim
  <2>4. /\ One(e \in MayPay) = 0 /\ One(e \in MayHide) = 0
        /\ One(e \in MayPay') = 0 /\ One(e \in MayHide') = 0
    BY <2>2 DEF One
  <2>5. MayOwe(e)' = MayOwe(e) /\ MayOwe(e) \in Nat
    BY <2>3, OwedIsNat
  <2>6. CASE e \notin holder
    BY <1>1, <1>2, <2>1, <2>4, <2>6, LateDebt
  <2>7. CASE e \in holder
    BY <1>1, <1>2, <2>5, <2>7, HolderDebt
  <2> QED BY <2>6, <2>7
<1>8. original' \in [at : {"waiting", "claimed", "read"}, version : Nat]
  BY <1>1 DEF ExtractionInv, ExtractionTypeOK
<1> QED BY <1>1, <1>2, <1>3, <1>4, <1>5, <1>6, <1>7, <1>8, StepKeeps

LEMMA RowConflicts ==
    ASSUME ExtractionInv, NEW e \in Executions,
           execution' = [execution EXCEPT ![e].at = "run_failure", ![e].code = "other"]
    PROVE  /\ Turns(e, "run_failure") /\ SameClaim(e) /\ execution'[e].run = execution[e].run
           /\ execution'[e].readable = execution[e].readable /\ execution'[e].code = "other"
<1> DEFINE old == execution[e]
           one == [old EXCEPT !.at = "run_failure"]
           two == [one EXCEPT !.code = "other"]
<1>1. old \in ExecutionRows /\ execution' = [execution EXCEPT ![e] = two]
  BY ExtractionKnows
<1>2. /\ one \in ExecutionRows /\ one.version = old.version /\ one.print = old.print
      /\ one.at = "run_failure" /\ one.run = old.run /\ one.readable = old.readable
  BY <1>1 DEF ExecutionRows, ExecutionSteps
<1> HIDE DEF one
<1>3. /\ two \in ExecutionRows /\ two.version = old.version /\ two.print = old.print
      /\ two.at = "run_failure" /\ two.run = old.run /\ two.readable = old.readable /\ two.code = "other"
  BY <1>2 DEF ExecutionRows
<1> HIDE DEF two
<1>4. Turns(e, two.at) /\ execution'[e] = two
  BY <1>1, <1>3, RowTurns
<1> QED BY <1>3, <1>4 DEF SameClaim, Turns

(* The claim on the note is that of the holder. *)
LEMMA ClaimIsHeld ==
    ASSUME ExtractionInv, NEW e \in Executions, Alive(e)
    PROVE  /\ StillClaimed(e) => e \in holder
           /\ e \in holder /\ execution[e].at # "run_failure" => StillClaimed(e)
<1>1. original.version \in Nat /\ execution[e].version \in Nat
  BY ExtractionKnows DEF ExecutionRows
<1>2. /\ e \notin holder => execution[e].version < original.version
      /\ e \in holder /\ execution[e].at # "run_failure" => StillClaimed(e)
  BY DEF ExtractionInv, HolderInv
<1>3. StillClaimed(e) => original.version = execution[e].version
  BY DEF StillClaimed
<1> QED BY <1>1, <1>2, <1>3

LEMMA NoteWritten ==
    ASSUME ExtractionInv, NEW at \in {"waiting", "claimed", "read"}, WritesNote(at)
    PROVE  /\ original' \in [at : {"waiting", "claimed", "read"}, version : Nat]
           /\ original'.at = at /\ original'.version = original.version + 1
  BY ExtractionKnows DEF WritesNote

LEMMA StoreKeeps ==
    ASSUME ExtractionInv, NEW e \in Executions, StoreReading(e)
    PROVE  ExtractionInv'
<1>1. /\ execution[e].at = "store" /\ Alive(e) /\ UNCHANGED <<print, runs, spent, allowed>>
      /\ execution[e].run # NoRun /\ execution[e].readable = FALSE /\ execution[e].kept
      /\ spent \in Nat /\ allowed \in Nat
  BY MemoryFits DEF StoreReading, Alive, Fits, WithRun, ExecutionRows
<1>2. run \in [1..runs -> Runs] /\ execution[e].run \in 1..runs
  BY <1>1, ExtractionKnows DEF ExtractionInv, RunsInv
<1>3. /\ StillClaimed(e) => e \in holder
      /\ e \in holder => StillClaimed(e)
  BY <1>1, ClaimIsHeld
<1>4. e \notin MayPay /\ e \notin MayHide /\ MayOwe(e) = One(Stranded(e))
  BY <1>1 DEF MayPay, MayHide, MayOwe
<1>5. CASE /\ StillClaimed(e) /\ WritesNote("read") /\ Ends(e)
           /\ run' = [run EXCEPT ![execution[e].run].status = "SUCCEEDED",
                                 ![execution[e].run].checkpoint = FALSE]
  <2>1. run' \in [1..runs -> Runs] /\ \A i \in 1..runs : i # execution[e].run => run'[i] = run[i]
    <3> DEFINE one == [run[execution[e].run] EXCEPT !.status = "SUCCEEDED"]
               two == [one EXCEPT !.checkpoint = FALSE]
    <3>1. one \in Runs
      BY <1>2 DEF Runs
    <3>2. run' = [run EXCEPT ![execution[e].run] = two]
      BY <1>2, <1>5
    <3> HIDE DEF one
    <3>3. two \in Runs
      BY <3>1 DEF Runs
    <3> HIDE DEF two
    <3> QED BY <1>2, <3>2, <3>3
  <2>2. /\ original' \in [at : {"waiting", "claimed", "read"}, version : Nat]
        /\ original'.at = "read" /\ original'.version = original.version + 1
    BY <1>5, NoteWritten
  <2>3. Leaves(e) /\ holder' = holder \ {e} /\ e \in holder
    BY <1>3, <1>5 DEF Ends
  <2>4. Open' + allowed <= MayOwe(e) + allowed'
    <3>1. Open' = 0 /\ MayOwe(e) \in Nat
      BY <2>2, OwedIsNat, OwedIsNatAfter
    <3> QED BY <1>1, <3>1
  <2> QED BY <1>1, <2>1, <2>2, <2>3, <2>4, LeavingKeeps
<1>6. CASE /\ ~StillClaimed(e) /\ UNCHANGED <<original, holder, run>>
           /\ execution' = [execution EXCEPT ![e].at = "run_failure", ![e].code = "other"]
  <2>1. /\ Turns(e, "run_failure") /\ SameClaim(e) /\ execution'[e].run = execution[e].run
        /\ execution'[e].readable = FALSE /\ execution'[e].code = "other"
    BY <1>1, <1>6, RowConflicts
  <2>2. execution'[e].at = "run_failure" /\ Fits(execution'[e])
    BY <1>1, <2>1 DEF Turns, Fits, WithRun
  <2>3. e \notin MayPay' /\ e \notin MayHide'
    BY <2>2 DEF MayPay, MayHide
  <2>4. /\ One(e \in MayPay) = 0 /\ One(e \in MayHide) = 0
        /\ One(e \in MayPay') = 0 /\ One(e \in MayHide') = 0
    BY <1>4, <2>3 DEF One
  <2>5. e \notin holder /\ spent' + 0 + 0 + allowed <= spent + 0 + 0 + allowed'
    BY <1>1, <1>3, <1>6
  <2>6. "run_failure" # "idle" /\ execution[e].at # "run_failure"
    BY <1>1
  <2> QED BY <1>1, <1>6, <2>1, <2>2, <2>4, <2>5, <2>6, WorkKeeps
<1>7. CASE Fails(e, "persistence") /\ UNCHANGED <<original, holder, run>>
  <2>1. /\ Turns(e, "note_failure") /\ SameClaim(e) /\ execution'[e].run = execution[e].run
        /\ execution'[e].readable = FALSE /\ execution'[e].kept /\ execution'[e].code = "persistence"
    BY <1>1, <1>7, RowFails
  <2>2. execution'[e].at = "note_failure" /\ Fits(execution'[e])
    BY <2>1 DEF Turns, Fits, WithRun
  <2>3. e \notin MayPay' /\ e \notin MayHide'
    BY <2>2 DEF MayPay, MayHide
  <2>4. /\ One(e \in MayPay) = 0 /\ One(e \in MayHide) = 0
        /\ One(e \in MayPay') = 0 /\ One(e \in MayHide') = 0
    BY <1>4, <2>3 DEF One
  <2>5. MayOwe(e)' = MayOwe(e) /\ MayOwe(e) \in Nat
    <3>1. MayOwe(e)' = One(Stranded(e))
      BY <1>1, <2>1, <2>2 DEF MayOwe, One, Stranded, SameClaim
    <3> QED BY <1>4, <3>1, OwedIsNat
  <2> QED BY <1>1, <1>7, <2>1, <2>2, <2>4, <2>5, WorkKeeps
<1> QED BY <1>5, <1>6, <1>7 DEF StoreReading

LEMMA NoteFailureKeeps ==
    ASSUME ExtractionInv, NEW e \in Executions, NoteFailure(e)
    PROVE  ExtractionInv'
<1>1. /\ execution[e].at = "note_failure" /\ Alive(e) /\ UNCHANGED <<print, run, runs, spent>>
      /\ execution[e].readable = FALSE /\ spent \in Nat /\ allowed \in Nat
      /\ execution[e].run # NoRun /\ execution[e].code = "persistence" => execution[e].kept
  BY MemoryFits DEF NoteFailure, Alive, Fits, ExecutionRows
<1>2. /\ run \in [1..runs -> Runs]
      /\ original \in [at : {"waiting", "claimed", "read"}, version : Nat]
  BY DEF ExtractionInv, ExtractionTypeOK
<1>3. /\ StillClaimed(e) => e \in holder
      /\ e \in holder => StillClaimed(e)
  BY <1>1, ClaimIsHeld
<1>4. e \notin MayPay /\ e \notin MayHide
  BY <1>1 DEF MayPay, MayHide
<1>5. CASE Ends(e) /\ allowed' = allowed + 1 /\ UNCHANGED original
  <2>1. Leaves(e) /\ holder' = holder \ {e}
    BY <1>5 DEF Ends
  <2>2. Open' \in 0..1 /\ MayOwe(e) \in Nat
    BY OwedIsNat, OwedIsNatAfter
  <2>3. Open' + allowed <= MayOwe(e) + allowed'
    BY <1>1, <1>5, <2>2
  <2> QED BY <1>1, <1>2, <1>5, <2>1, <2>3, LeavingKeeps
<1>6. ASSUME IF StillClaimed(e) THEN WritesNote("waiting") ELSE UNCHANGED original, UNCHANGED allowed
      PROVE  /\ original' \in [at : {"waiting", "claimed", "read"}, version : Nat]
             /\ original' # original => e \in holder /\ original'.version = original.version + 1
  BY <1>2, <1>3, <1>6, NoteWritten
<1>7. CASE /\ IF StillClaimed(e) THEN WritesNote("waiting") ELSE UNCHANGED original
           /\ UNCHANGED allowed /\ execution[e].run = NoRun /\ Ends(e)
  <2>1. Leaves(e) /\ holder' = holder \ {e}
    BY <1>7 DEF Ends
  <2>2. Open' <= MayOwe(e)
    <3>1. ReusableFor(print)' <=> ReusableFor(print)
      BY <1>1 DEF ReusableFor
    <3>2. MayOwe(e) = One(~ReusableFor(print))
      BY <1>1, <1>7 DEF MayOwe
    <3> QED BY <3>1, <3>2 DEF Open, One
  <2>3. Open' \in Nat /\ MayOwe(e) \in Nat
    BY OwedIsNat, OwedIsNatAfter
  <2>4. Open' + allowed <= MayOwe(e) + allowed'
    BY <1>1, <1>7, <2>2, <2>3
  <2> QED BY <1>1, <1>2, <1>6, <1>7, <2>1, <2>4, LeavingKeeps
<1>8. CASE /\ IF StillClaimed(e) THEN WritesNote("waiting") ELSE UNCHANGED original
           /\ UNCHANGED <<allowed, holder>> /\ execution[e].run # NoRun /\ Continues(e, "run_failure")
  <2>1. /\ Turns(e, "run_failure") /\ SameClaim(e) /\ execution'[e].run = execution[e].run
        /\ execution'[e].readable = FALSE /\ execution'[e].kept = execution[e].kept
        /\ execution'[e].code = execution[e].code
    BY <1>1, <1>8, RowContinues DEF ExecutionSteps
  <2>2. execution'[e].at = "run_failure" /\ Fits(execution'[e])
    BY <1>1, <1>8, <2>1 DEF Turns, Fits, WithRun
  <2>3. HolderInv'
    BY <1>1, <1>6, <1>8, <2>1, HolderKept
  <2>4. RunsInv'
    BY <1>1, <1>8, <2>1, RunsKept DEF ExtractionInv, RunsInv
  <2>5. MayOwe(e)' = MayOwe(e) /\ MayOwe(e) \in Nat
    <3>1. MayOwe(e)' = MayOwe(e)
      BY <1>1, <1>8, <2>1, <2>2 DEF MayOwe, One, Stranded, SameClaim
    <3> QED BY <3>1, OwedIsNat
  <2>6. DebtInv'
    <3>1. CASE e \in holder
      BY <1>1, <1>8, <2>1, <2>5, <3>1, HolderDebt
    <3>2. CASE e \notin holder
      <4>1. e \notin MayPay' /\ e \notin MayHide'
        BY <2>2 DEF MayPay, MayHide
      <4>2. /\ One(e \in MayPay) = 0 /\ One(e \in MayHide) = 0
            /\ One(e \in MayPay') = 0 /\ One(e \in MayHide') = 0
        BY <1>4, <4>1 DEF One
      <4>3. UNCHANGED original
        BY <1>3, <1>8, <3>2
      <4>4. \A p : ReusableFor(p) => ReusableFor(p)'
        BY <1>1 DEF ReusableFor
      <4> QED BY <1>1, <1>8, <2>1, <3>2, <4>2, <4>3, <4>4, LateDebt
    <3> QED BY <3>1, <3>2
  <2> QED BY <1>1, <1>2, <1>6, <1>8, <2>1, <2>2, <2>3, <2>4, <2>6, StepKeeps
<1> QED BY <1>5, <1>7, <1>8 DEF NoteFailure

LEMMA RunFailureKeeps ==
    ASSUME ExtractionInv, NEW e \in Executions, RunFailure(e)
    PROVE  ExtractionInv'
<1>1. /\ execution[e].at = "run_failure" /\ Alive(e) /\ UNCHANGED <<print, original, runs, spent>>
      /\ execution[e].run # NoRun /\ spent \in Nat /\ allowed \in Nat
      /\ execution[e].code = "persistence" => execution[e].kept
      /\ Leaves(e) /\ holder' = holder \ {e}
  BY MemoryFits DEF RunFailure, Ends, Alive, Fits, WithRun
<1>2. /\ run \in [1..runs -> Runs] /\ execution[e].run \in 1..runs /\ runs \in Nat
      /\ run[execution[e].run].print = execution[e].print
      /\ original \in [at : {"waiting", "claimed", "read"}, version : Nat]
      /\ execution[e].kept \in BOOLEAN /\ execution[e].code \in {"none", "persistence", "other"}
  BY <1>1, ExtractionKnows, MemoryFits DEF ExtractionInv, RunsInv, ExtractionTypeOK, ExecutionRows
<1>3. Open' \in 0..1 /\ MayOwe(e) \in Nat
  BY OwedIsNat, OwedIsNatAfter
<1>4. CASE allowed' = allowed + 1 /\ UNCHANGED run
  <2>1. Open' + allowed <= MayOwe(e) + allowed'
    BY <1>1, <1>3, <1>4
  <2> QED BY <1>1, <1>2, <1>4, <2>1, LeavingKeeps
<1>5. CASE /\ run' = [run EXCEPT ![execution[e].run] =
                         [@ EXCEPT !.status = "FAILED", !.code = execution[e].code,
                                   !.checkpoint = CheckpointOfFailure(e)]]
           /\ UNCHANGED allowed
  <2> DEFINE r     == execution[e].run
             one   == [run[r] EXCEPT !.status = "FAILED"]
             two   == [one EXCEPT !.code = execution[e].code]
             three == [two EXCEPT !.checkpoint = execution[e].kept]
  <2>1. run' = [run EXCEPT ![r] = three]
    BY <1>2, <1>5 DEF CheckpointOfFailure
  <2>2. one \in Runs /\ one.status = "FAILED" /\ one.print = execution[e].print
    BY <1>2 DEF Runs
  <2> HIDE DEF one
  <2>3. two \in Runs /\ two.status = "FAILED" /\ two.print = execution[e].print /\ two.code = execution[e].code
    BY <1>2, <2>2 DEF Runs
  <2> HIDE DEF two
  <2>4. /\ three \in Runs /\ three.status = "FAILED" /\ three.print = execution[e].print
        /\ three.code = execution[e].code /\ three.checkpoint = execution[e].kept
    BY <1>2, <2>3 DEF Runs
  <2> HIDE DEF three
  <2>5. run' \in [1..runs -> Runs] /\ run'[r] = three /\ \A i \in 1..runs : i # r => run'[i] = run[i]
    BY <1>2, <2>1, <2>4
  <2>6. Open' <= MayOwe(e)
    <3>1. CASE execution[e].code = "persistence" /\ ~Stranded(e)
      <4>1. r = runs /\ execution[e].print = print /\ runs > 0
        BY <1>2, <3>1 DEF Stranded
      <4>2. ReusableFor(print)'
        BY <1>1, <2>4, <2>5, <3>1, <4>1 DEF ReusableFor
      <4>3. Open' = 0
        BY <4>2 DEF Open, One
      <4> QED BY <1>3, <4>3
    <3>2. CASE execution[e].code = "persistence" /\ Stranded(e)
      <4>1. MayOwe(e) = 1
        BY <1>1, <3>2 DEF MayOwe, One
      <4> QED BY <1>3, <4>1
    <3>3. CASE execution[e].code # "persistence"
      <4>1. MayOwe(e) = 1
        BY <1>1, <3>3 DEF MayOwe
      <4> QED BY <1>3, <4>1
    <3> QED BY <3>1, <3>2, <3>3
  <2>7. Open' + allowed <= MayOwe(e) + allowed'
    BY <1>1, <1>3, <1>5, <2>6
  <2> QED BY <1>1, <1>2, <1>5, <2>5, <2>7, LeavingKeeps
<1> QED BY <1>4, <1>5 DEF RunFailure

LEMMA ExecutionDeathKeeps ==
    ASSUME ExtractionInv, NEW e \in Executions, ExecutionDies(e)
    PROVE  ExtractionInv'
<1>1. /\ Alive(e) /\ Leaves(e) /\ UNCHANGED <<print, original, holder, run, runs, spent, allowed>>
  BY DEF ExecutionDies, OnlyExecution, Alive
<1>2. /\ run \in [1..runs -> Runs] /\ allowed \in Nat
      /\ original \in [at : {"waiting", "claimed", "read"}, version : Nat]
  BY ExtractionKnows DEF ExtractionInv, ExtractionTypeOK
<1> QED BY <1>1, <1>2, LeavingKeeps

(* What the holder may be hiding and paying when it turns late. *)
LEMMA LossIsAllowed ==
    ASSUME ExtractionInv, NEW e \in holder, holder' = {}, UNCHANGED <<print, execution>>,
           ReusableFor(print)' <=> ReusableFor(print),
           \A p : ReusableFor(p)' <=> ReusableFor(p)
    PROVE  One(e \in MayPay') + One(e \in MayHide') + Open' <= MayOwe(e) + 2
<1>1. e \in Executions /\ execution[e].at \in ExecutionSteps
  BY ExtractionKnows DEF ExecutionRows
<1>2. /\ e \in MayPay' <=> execution[e].at \in {"look", "read"} \/ (execution[e].at = "create" /\ ~execution[e].result)
      /\ e \in MayHide' <=> execution[e].at \in {"look", "create"}
  BY <1>1 DEF MayPay, MayHide
<1>3. Open' \in 0..1 /\ MayOwe(e) \in Nat
  BY OwedIsNat, OwedIsNatAfter
<1>4. CASE execution[e].at = "look"
  <2>1. MayOwe(e) = One(~ReusableFor(execution[e].print)) + One(execution[e].print # print)
    BY <1>4 DEF MayOwe
  <2>2. Open' <= MayOwe(e)
    BY <2>1 DEF Open, One
  <2>3. One(e \in MayPay') = 1 /\ One(e \in MayHide') = 1
    BY <1>2, <1>4 DEF One
  <2> QED BY <1>3, <2>2, <2>3
<1>5. CASE execution[e].at = "create" /\ execution[e].result
  <2>1. One(e \in MayPay') = 0 /\ One(e \in MayHide') = 1
    BY <1>2, <1>5 DEF One
  <2> QED BY <1>3, <2>1
<1>6. CASE execution[e].at = "create" /\ ~execution[e].result
  <2>1. One(e \in MayPay') = 1 /\ One(e \in MayHide') = 1
    BY <1>2, <1>6 DEF One
  <2>2. MayOwe(e) = 1 + One(execution[e].print # print)
    BY <1>6 DEF MayOwe
  <2>3. MayOwe(e) >= 1
    BY <2>2 DEF One
  <2> QED BY <1>3, <2>1, <2>3
<1>7. CASE execution[e].at \notin {"look", "create"}
  <2>1. One(e \in MayPay') \in 0..1 /\ One(e \in MayHide') = 0
    BY <1>2, <1>7 DEF One
  <2> QED BY <1>3, <2>1
<1> QED BY <1>4, <1>5, <1>6, <1>7

LEMMA LeaseLossKeeps ==
    ASSUME ExtractionInv, LeaseIsLost
    PROVE  ExtractionInv'
<1>1. /\ holder # {} /\ holder' = {} /\ allowed' = allowed + 2 /\ UNCHANGED <<print, runs, execution, spent>>
      /\ WritesNote(IF original.at = "read" THEN "read" ELSE "waiting")
  BY DEF LeaseIsLost
<1>11. run' = [i \in 1..runs |-> IF run[i].status = "RUNNING"
                                 THEN [run[i] EXCEPT !.status = "FAILED", !.code = "other"] ELSE run[i]]
  BY DEF LeaseIsLost
<1>2. PICK e \in holder : holder = {e}
  BY <1>1 DEF ExtractionInv, HolderInv
<1>3. /\ e \in Executions /\ spent \in Nat /\ allowed \in Nat /\ run \in [1..runs -> Runs] /\ runs \in Nat
      /\ execution \in [Executions -> ExecutionRows] /\ original.version \in Nat
  BY ExtractionKnows
<1>4. /\ original' \in [at : {"waiting", "claimed", "read"}, version : Nat]
      /\ original'.version = original.version + 1
  <2>1. CASE original.at = "read"
    BY <1>1, <2>1, NoteWritten
  <2>2. CASE original.at # "read"
    BY <1>1, <2>2, NoteWritten
  <2> QED BY <2>1, <2>2
<1>5. ASSUME NEW i \in 1..runs
      PROVE  /\ run'[i] \in Runs /\ run'[i].print = run[i].print /\ run'[i].checkpoint = run[i].checkpoint
             /\ run'[i].status = "FAILED" /\ run'[i].code = "persistence"
                  <=> run[i].status = "FAILED" /\ run[i].code = "persistence"
  <2>1. run[i] \in Runs
    BY <1>3
  <2>2. CASE run[i].status # "RUNNING"
    BY <1>11, <2>1, <2>2
  <2>3. CASE run[i].status = "RUNNING"
    <3> DEFINE one == [run[i] EXCEPT !.status = "FAILED"]
               two == [one EXCEPT !.code = "other"]
    <3>1. run'[i] = two
      BY <1>11, <2>3
    <3>2. one \in Runs /\ one.print = run[i].print /\ one.checkpoint = run[i].checkpoint
      BY <2>1 DEF Runs
    <3> HIDE DEF one
    <3>3. two \in Runs /\ two.print = run[i].print /\ two.checkpoint = run[i].checkpoint /\ two.code = "other"
      BY <3>2 DEF Runs
    <3> HIDE DEF two
    <3> QED BY <2>3, <3>1, <3>3
  <2> QED BY <2>2, <2>3
<1>6. run' \in [1..runs -> Runs]
  BY <1>11, <1>5
<1>7. ExtractionTypeOK' /\ MemoryInv'
  <2>1. allowed' \in Nat
    BY <1>1, <1>3
  <2> QED BY <1>1, <1>4, <1>6, <2>1 DEF ExtractionInv, ExtractionTypeOK, MemoryInv
<1>8. HolderInv'
  <2>1. \A f \in Executions : Alive(f) =>
          /\ execution[f].version <= original.version /\ execution[f].version \in Nat
    BY <1>3 DEF ExtractionInv, HolderInv, ExecutionRows
  <2>2. \A f \in Executions : Alive(f) => execution[f].version < original'.version
    BY <1>3, <1>4, <2>1
  <2>3. \A f \in Executions : Alive(f)' => execution'[f].version < original'.version /\ execution'[f].version <= original'.version
    BY <1>1, <1>3, <1>4, <2>1, <2>2 DEF Alive
  <2> QED BY <1>1, <2>3 DEF HolderInv
<1>9. RunsInv'
  BY <1>1, <1>5 DEF ExtractionInv, RunsInv
<1>10. DebtInv'
  <2>1. /\ IsFiniteSet(MayPay') /\ IsFiniteSet(MayHide') /\ Late \in Nat /\ Late' \in Nat
        /\ Late' + One(e \in MayPay) + One(e \in MayHide)
             = Late + One(e \in MayPay') + One(e \in MayHide')
    BY <1>1, <1>2, <1>3, LateMoves
  <2>2. e \notin MayPay /\ e \notin MayHide
    BY DEF MayPay, MayHide
  <2>3. /\ One(e \in MayPay) = 0 /\ One(e \in MayHide) = 0
        /\ One(e \in MayPay') \in Nat /\ One(e \in MayHide') \in Nat
    BY <2>2 DEF One
  <2>4. \A p : ReusableFor(p)' <=> ReusableFor(p)
    <3>1. runs > 0 => runs \in 1..runs
      BY <1>3
    <3> QED BY <1>1, <1>5, <3>1 DEF ReusableFor
  <2>5. ReusableFor(print)' <=> ReusableFor(print)
    <3>1. runs > 0 => runs \in 1..runs
      BY <1>3
    <3> QED BY <1>1, <1>5, <3>1 DEF ReusableFor
  <2>6. One(e \in MayPay') + One(e \in MayHide') + Open' <= MayOwe(e) + 2
    BY <1>1, <2>4, <2>5, LossIsAllowed
  <2>7. spent + Late + MayOwe(e) <= allowed
    BY DEF ExtractionInv, DebtInv
  <2>8. Late' + 0 + 0 = Late + One(e \in MayPay') + One(e \in MayHide')
    BY <2>1, <2>3
  <2>9. Open' \in Nat /\ MayOwe(e) \in Nat
    BY OwedIsNat, OwedIsNatAfter
  <2>10. spent + Late' + Open' <= allowed + 2
    <3>1. Late \in Nat /\ Late' \in Nat
      BY <2>1
    <3> QED BY ZenonT(30), <1>3, <2>3, <2>6, <2>7, <2>8, <2>9, <3>1, SumsLose
  <2> QED BY <1>1, <2>1, <2>10 DEF DebtInv
<1> QED BY <1>7, <1>8, <1>9, <1>10 DEF ExtractionInv

LEMMA ReadAgainKeeps ==
    ASSUME ExtractionInv, ReadAgain
    PROVE  ExtractionInv'
<1>1. /\ original.at = "read" /\ holder = {} /\ WritesNote("waiting") /\ allowed' = allowed + 1
      /\ UNCHANGED <<print, holder, run, runs, execution, spent>>
  BY DEF ReadAgain
<1>2. /\ original' \in [at : {"waiting", "claimed", "read"}, version : Nat]
      /\ original'.version = original.version + 1 /\ original.version \in Nat
      /\ spent \in Nat /\ allowed \in Nat /\ allowed' \in Nat
  BY <1>1, NoteWritten, ExtractionKnows
<1>3. ExtractionTypeOK' /\ MemoryInv' /\ RunsInv'
  BY <1>1, <1>2 DEF ExtractionInv, ExtractionTypeOK, MemoryInv, RunsInv
<1>4. HolderInv'
  <2>1. \A f \in Executions : Alive(f) =>
          /\ execution[f].version <= original.version /\ execution[f].version \in Nat
    BY ExtractionKnows DEF ExtractionInv, HolderInv, ExecutionRows
  <2>2. \A f \in Executions : Alive(f) => execution[f].version < original'.version
    BY <1>2, <2>1
  <2>3. \A f \in Executions : Alive(f)' => execution'[f].version < original'.version /\ execution'[f].version <= original'.version
    BY <1>1, <1>2, <2>1, <2>2 DEF Alive
  <2> QED BY <1>1, <2>3 DEF HolderInv
<1>5. DebtInv'
  <2>1. MayPay' = MayPay /\ MayHide' = MayHide /\ Late' = Late
    BY <1>1 DEF MayPay, MayHide, Late
  <2>2. IsFiniteSet(MayPay) /\ IsFiniteSet(MayHide) /\ spent + Late + Open <= allowed
    BY <1>1 DEF ExtractionInv, DebtInv
  <2>3. Late \in Nat
    BY <2>2, FS_CardinalityType DEF Late
  <2>4. Open \in Nat /\ Open' \in Nat /\ Open' <= 1
    BY OwedIsNat, OwedIsNatAfter
  <2>5. spent + Late + Open' <= allowed + 1
    BY <1>2, <2>2, <2>3, <2>4, SumsExcuse
  <2> QED BY <1>1, <2>1, <2>2, <2>5 DEF DebtInv
<1> QED BY <1>3, <1>4, <1>5 DEF ExtractionInv

LEMMA ReconfigureKeeps ==
    ASSUME ExtractionInv, Reconfigure
    PROVE  ExtractionInv'
<1>1. /\ print' \in Prints /\ allowed' = allowed + 1
      /\ UNCHANGED <<original, holder, run, runs, execution, spent>>
      /\ spent \in Nat /\ allowed \in Nat /\ allowed' \in Nat
  BY ExtractionKnows DEF Reconfigure
<1>2. ExtractionTypeOK' /\ MemoryInv' /\ RunsInv' /\ HolderInv'
  BY <1>1 DEF ExtractionInv, ExtractionTypeOK, MemoryInv, RunsInv, HolderInv, Alive, StillClaimed
<1>3. DebtInv'
  <2>1. MayPay' = MayPay /\ MayHide' = MayHide /\ Late' = Late
    BY <1>1 DEF MayPay, MayHide, Late
  <2>2. IsFiniteSet(MayPay) /\ IsFiniteSet(MayHide)
    BY DEF ExtractionInv, DebtInv
  <2>3. Late \in Nat
    BY <2>2, FS_CardinalityType DEF Late
  <2>4. /\ \A f : MayOwe(f)' <= MayOwe(f) + 1
        /\ Open' <= Open + 1
    BY <1>1, OwesOneMore
  <2>5. Open \in Nat /\ Open' \in Nat /\ \A f : MayOwe(f) \in Nat /\ MayOwe(f)' \in Nat
    BY OwedIsNat, OwedIsNatAfter
  <2>6. holder = {} => spent + Late + Open' <= allowed + 1
    <3>1. holder = {} => spent + Late + Open <= allowed
      BY DEF ExtractionInv, DebtInv
    <3> QED BY <1>1, <2>3, <2>4, <2>5, <3>1, SumsAge
  <2>7. \A f \in holder : spent + Late + MayOwe(f)' <= allowed + 1
    <3> SUFFICES ASSUME NEW f \in holder PROVE spent + Late + MayOwe(f)' <= allowed + 1
      OBVIOUS
    <3>1. spent + Late + MayOwe(f) <= allowed /\ MayOwe(f)' <= MayOwe(f) + 1
      BY <2>4 DEF ExtractionInv, DebtInv
    <3> QED BY <1>1, <2>3, <2>5, <3>1, SumsAge
  <2> QED BY <1>1, <2>1, <2>2, <2>6, <2>7 DEF DebtInv
<1> QED BY <1>2, <1>3 DEF ExtractionInv

LEMMA ExtractionInvStarts == ExtractionInit => ExtractionInv
<1> SUFFICES ASSUME ExtractionInit PROVE ExtractionInv
  OBVIOUS
<1>1. /\ print \in Prints /\ original = [at |-> "waiting", version |-> 1] /\ holder = {} /\ runs = 0
      /\ run = [i \in {} |-> NoRun] /\ execution = [e \in Executions |-> NotStarted]
      /\ spent = 0 /\ allowed = 1
  BY ExtractionAssumption DEF ExtractionInit
<1>2. \A e \in Executions : execution[e] = NotStarted
  BY <1>1
<1>3. ExtractionTypeOK
  <2>1. run \in [1..runs -> Runs] /\ runs \in 0..MaxRuns
    BY <1>1, ExtractionAssumption
  <2>2. execution \in [Executions -> ExecutionRows]
    BY <1>1, NotStartedFits
  <2> QED BY <1>1, <2>1, <2>2 DEF ExtractionTypeOK
<1>4. MemoryInv /\ HolderInv /\ RunsInv
  BY <1>1, <1>2, NotStartedFits DEF MemoryInv, HolderInv, RunsInv, Alive
<1>5. DebtInv
  <2>1. MayPay = {} /\ MayHide = {}
    BY <1>2, NotStartedFits DEF MayPay, MayHide
  <2>2. Late = 0 /\ IsFiniteSet(MayPay) /\ IsFiniteSet(MayHide)
    BY <2>1, FS_EmptySet DEF Late
  <2>3. Open \in 0..1
    BY OwedIsNat
  <2> QED BY <1>1, <2>2, <2>3 DEF DebtInv
<1> QED BY <1>3, <1>4, <1>5 DEF ExtractionInv

THEOREM ExtractionInvHolds == ExtractionSpec => []ExtractionInv
<1>1. ExtractionInv /\ [ExtractionNext]_extractionVars => ExtractionInv'
  <2> SUFFICES ASSUME ExtractionInv, [ExtractionNext]_extractionVars PROVE ExtractionInv'
    OBVIOUS
  <2>1. ASSUME NEW e \in Executions, ExecutionStep(e) PROVE ExtractionInv'
    BY <2>1, ClaimKeeps, LookKeeps, CreateRunKeeps, ReadOriginalKeeps, ReadAnswersKeeps, KeepKeeps,
       StoreKeeps, NoteFailureKeeps, RunFailureKeeps, ExecutionDeathKeeps DEF ExecutionStep
  <2>2. CASE UNCHANGED extractionVars
    <3> USE <2>2 DEF extractionVars
    <3>1. ExtractionTypeOK' /\ MemoryInv' /\ RunsInv'
      BY DEF ExtractionInv, ExtractionTypeOK, MemoryInv, RunsInv
    <3>2. HolderInv'
      BY DEF ExtractionInv, HolderInv, Alive, StillClaimed
    <3>3. Late' = Late /\ Open' = Open /\ MayPay' = MayPay /\ MayHide' = MayHide
      BY DEF Late, Open, MayPay, MayHide, ReusableFor
    <3>4. \A e \in Executions : MayOwe(e)' = MayOwe(e)
      BY DEF MayOwe, Stranded, ReusableFor
    <3>5. DebtInv'
      BY <3>3, <3>4, ExtractionKnows DEF ExtractionInv, DebtInv
    <3> QED BY <3>1, <3>2, <3>3, <3>5 DEF ExtractionInv
  <2> QED BY <2>1, <2>2, LeaseLossKeeps, ReadAgainKeeps, ReconfigureKeeps DEF ExtractionNext
<1> QED BY <1>1, ExtractionInvStarts, PTL DEF ExtractionSpec

(* The rows of the runs and what each execution remembers of its own keep      *)
(* their types (process-note-extraction.ts:411-838). *)
THEOREM ExtractionTyped == ExtractionSpec => []ExtractionTypeOK
<1>1. ExtractionInv => ExtractionTypeOK
  BY DEF ExtractionInv
<1> QED BY <1>1, ExtractionInvHolds, PTL

(* A reading that was validated is never turned into a failed extraction: what *)
(* comes after it gives it up as a result, or goes on (client.ts:933-934). *)
THEOREM ReadableKept == ExtractionSpec => []ReadableReadingKept
<1>1. ExtractionInv => ReadableReadingKept
  BY DEF ExtractionInv, MemoryInv, Fits, ReadableReadingKept
<1> QED BY <1>1, ExtractionInvHolds, PTL

(* However many executions overlap, die, lose their lease or fail to write,    *)
(* nothing is paid past what ReadingsAreExcused gives a reason for: what is     *)
(* spent, with what may still be paid on the same reasons, is covered by them  *)
(* (process-note-extraction.ts:455-520, 585-600). *)
THEOREM ReadingsExcused == ExtractionSpec => []ReadingsAreExcused
<1>1. ExtractionInv => ReadingsAreExcused
  <2> SUFFICES ASSUME ExtractionInv PROVE spent <= allowed
    BY DEF ReadingsAreExcused
  <2>1. IsFiniteSet(MayPay) /\ IsFiniteSet(MayHide) /\ spent \in Nat /\ allowed \in Nat
    BY ExtractionKnows DEF ExtractionInv, DebtInv
  <2>2. Late \in Nat
    BY <2>1, FS_CardinalityType DEF Late
  <2>3. CASE holder = {}
    <3>1. spent + Late + Open <= allowed /\ Open \in Nat
      BY <2>3, OwedIsNat DEF ExtractionInv, DebtInv
    <3> QED BY <2>1, <2>2, <3>1
  <2>4. CASE holder # {}
    <3>1. PICK e \in holder : spent + Late + MayOwe(e) <= allowed
      BY <2>4 DEF ExtractionInv, DebtInv
    <3>2. MayOwe(e) \in Nat
      BY OwedIsNat
    <3> QED BY <2>1, <2>2, <3>1, <3>2
  <2> QED BY <2>3, <2>4
<1> QED BY <1>1, ExtractionInvHolds, PTL
================================================================================
