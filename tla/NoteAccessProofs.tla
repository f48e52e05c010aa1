---------------------------- MODULE NoteAccessProofs ----------------------------
(***************************************************************************)
(* The access to a note, for any number of polls and reviewers, any times   *)
(* to live and any bounds: the sender is told the end once, who answered    *)
(* may follow, and read marks are of the diagnosis on show.                 *)
(***************************************************************************)
EXTENDS NoteAccess, TLAPS

(* An unheard submission: its re-analysis is under way. *)
QueuedInv ==
    note.submission = "queued" =>
        /\ note.stage = "working"
        /\ note.result = "asks"
        /\ note.issued
        /\ note.submittedAt # Unset
        /\ note.expiry = note.submittedAt + ContextTTL

(* What a poll is about to tell is still so, or the version has moved on. *)
PollInv ==
    \A p \in Polls :
        poll[p].public = "ended" =>
            /\ poll[p].version <= note.version
            /\ poll[p].version = note.version => Public(note) = "ended"

(* The same of what a reviewer has on the screen, and in the transaction. *)
SeenInv ==
    \A r \in Reviewers :
        reviewer[r].at # "away" =>
            /\ reviewer[r].version <= note.version
            /\ reviewer[r].version = note.version => reviewer[r].outcome = note.outcome
            /\ reviewer[r].at = "locked" /\ reviewer[r].exact => reviewer[r].outcome = note.outcome

(* The answer that told the end took the token with it. *)
ToldInv == told <= 1 /\ (told = 1 => ~note.issued)

AccessInv ==
    /\ AccessTypeOK
    /\ ToldInv
    /\ QueuedInv
    /\ PollInv
    /\ SeenInv
    /\ ReadsAreOfThisDiagnosis

USE DEF Unset

--------------------------------------------------------------------------------
(* Types. *)

(* Every row the pipeline or the sender writes is a row. *)
LEMMA RowsStayTyped ==
    ASSUME AccessTypeOK, NEW row \in AccessRows, NEW forget \in BOOLEAN, Write(row, forget)
    PROVE  /\ note' \in AccessRows
           /\ mark' \in [Reviewers -> Marks]
BY DEF AccessTypeOK, AccessRows, Write, Marks, NoMark

(* The state has its type (AccessTypeOK), whatever step is taken. *)
LEMMA TypeStep == AccessTypeOK /\ [AccessNext]_accessVars => AccessTypeOK'
<1> SUFFICES ASSUME AccessTypeOK, [AccessNext]_accessVars PROVE AccessTypeOK'
  OBVIOUS
<1>0. /\ note \in AccessRows /\ now \in Nat
      /\ now + ContextTTL \in Nat /\ now + TerminalTTL \in Nat
      /\ note.outcome + 1 \in Nat /\ note.asked + 1 \in Nat /\ note.version + 1 \in Nat
      /\ note.askedAt + ContextTTL \in Nat
  <2>1. ContextTTL \in Nat /\ TerminalTTL \in Nat
    BY AccessAssumption
  <2> QED BY <2>1 DEF AccessTypeOK, AccessRows
<1>1. CASE AuditAsks
  <2> DEFINE round == IF note.round = 0 THEN 1 ELSE note.round
             row == [note EXCEPT !.stage = "completed", !.result = "asks", !.outcome = Outcome(note),
                       !.round = round, !.asked = round,
                       !.askedAt = IF note.asked # round THEN now ELSE @,
                       !.expiry = now + ContextTTL]
  <2>1. row \in AccessRows
    BY <1>0 DEF AccessRows, Outcome
  <2>2. Write(row, MarksForgotten)
    BY <1>1 DEF AuditAsks
  <2>3. note' \in AccessRows /\ mark' \in [Reviewers -> Marks]
    BY <2>1, <2>2, RowsStayTyped DEF MarksForgotten
  <2> QED BY <1>1, <2>2, <2>3 DEF AuditAsks, Write, AccessTypeOK
<1>2. ASSUME NEW result \in {"ends", "unread"}, AuditEnds(result) PROVE AccessTypeOK'
  <2> DEFINE row == [note EXCEPT !.stage = "completed", !.result = result, !.outcome = Outcome(note),
                       !.submission = Closed(@), !.expiry = now + TerminalTTL]
  <2>1. row \in AccessRows
    BY <1>0 DEF AccessRows, Outcome, Closed
  <2>2. Write(row, MarksForgotten)
    BY <1>2 DEF AuditEnds
  <2>3. note' \in AccessRows /\ mark' \in [Reviewers -> Marks]
    BY <2>1, <2>2, RowsStayTyped DEF MarksForgotten
  <2> QED BY <1>2, <2>2, <2>3 DEF AuditEnds, Write, AccessTypeOK
<1>3. CASE AnalysisFails
  <2> DEFINE row == [note EXCEPT !.stage = "failed", !.outcome = Outcome(note),
                       !.submission = Closed(@), !.expiry = now + TerminalTTL]
  <2>1. row \in AccessRows
    BY <1>0 DEF AccessRows, Outcome, Closed
  <2>2. Write(row, FALSE)
    BY <1>3 DEF AnalysisFails
  <2>3. note' \in AccessRows /\ mark' \in [Reviewers -> Marks]
    BY <2>1, <2>2, RowsStayTyped
  <2> QED BY <1>3, <2>2, <2>3 DEF AnalysisFails, Write, AccessTypeOK
<1>4. CASE RecoverAudit
  <2> DEFINE row == [note EXCEPT !.stage = "working", !.result = "none"]
  <2>1. row \in AccessRows
    BY <1>0 DEF AccessRows
  <2>2. Write(row, FALSE)
    BY <1>4 DEF RecoverAudit
  <2>3. note' \in AccessRows /\ mark' \in [Reviewers -> Marks]
    BY <2>1, <2>2, RowsStayTyped
  <2> QED BY <1>4, <2>2, <2>3 DEF RecoverAudit, Write, AccessTypeOK
<1>5. CASE Reprocess
  <2> DEFINE row == [note EXCEPT !.stage = "working", !.result = "none", !.round = note.asked + 1,
                       !.submission = "none", !.submittedAt = Unset,
                       !.issued = Revoked.issued, !.expiry = Revoked.expiry]
  <2>1. row \in AccessRows
    BY <1>0 DEF AccessRows, Revoked
  <2>2. Write(row, MarksForgotten)
    BY <1>5 DEF Reprocess
  <2>3. note' \in AccessRows /\ mark' \in [Reviewers -> Marks]
    BY <2>1, <2>2, RowsStayTyped DEF MarksForgotten
  <2> QED BY <1>5, <2>2, <2>3 DEF Reprocess, Write, AccessTypeOK
<1>6. CASE SubmitAnswers
  <2> DEFINE row == [note EXCEPT !.stage = "working", !.submission = "queued", !.submittedAt = now,
                       !.expiry = now + ContextTTL]
  <2>1. row \in AccessRows
    BY <1>0 DEF AccessRows
  <2>2. Write(row, FALSE)
    BY <1>6 DEF SubmitAnswers
  <2>3. note' \in AccessRows /\ mark' \in [Reviewers -> Marks]
    BY <2>1, <2>2, RowsStayTyped
  <2> QED BY <1>6, <2>2, <2>3 DEF SubmitAnswers, Write, AccessTypeOK
<1>7. ASSUME NEW p \in Polls, PollReads(p) PROVE AccessTypeOK'
  <2>1. ASSUME NEW ended \in Nat, NEW round \in Nat, NEW anchor \in Nat
        PROVE  /\ [IdlePoll EXCEPT !.public = "ended", !.version = ended] \in Snapshots
               /\ [IdlePoll EXCEPT !.public = "asks", !.round = round, !.anchor = anchor] \in Snapshots
    BY DEF IdlePoll, Snapshots
  <2>2. note.version \in Nat /\ note.round \in Nat
    BY <1>0 DEF AccessRows
  <2> DEFINE taken == IF Public(note) = "ended"
                      THEN [IdlePoll EXCEPT !.public = "ended", !.version = note.version]
                      ELSE [IdlePoll EXCEPT !.public = "asks", !.round = note.round,
                              !.anchor = note.askedAt + ContextTTL]
  <2>3. taken \in Snapshots
    BY <1>0, <2>1, <2>2
  <2>4. poll' = [poll EXCEPT ![p] = taken] /\ UNCHANGED <<now, note, reviewer, mark, told>>
    BY <1>7 DEF PollReads
  <2> HIDE DEF taken
  <2> QED BY <2>3, <2>4 DEF AccessTypeOK
<1>8. ASSUME NEW p \in Polls, PollTells(p) PROVE AccessTypeOK'
  <2>1. note' \in AccessRows /\ told' \in Nat
    <3>1. CASE StillCurrent(p)
      <4>1. [[[note EXCEPT !.issued = FALSE] EXCEPT !.expiry = 0] EXCEPT !.version = note.version + 1]
              \in AccessRows
        BY <1>0 DEF AccessRows
      <4> QED BY <1>0, <1>8, <3>1, <4>1 DEF PollTells, Revoked, AccessTypeOK
    <3>2. CASE ~StillCurrent(p)
      BY <1>8, <3>2 DEF PollTells, AccessTypeOK
    <3> QED BY <3>1, <3>2
  <2>2. IdlePoll \in Snapshots
    BY DEF IdlePoll, Snapshots
  <2> QED BY <1>8, <2>1, <2>2 DEF PollTells, AccessTypeOK
<1>9. ASSUME NEW p \in Polls, PollAnchors(p) PROVE AccessTypeOK'
  <2>1. poll[p].anchor \in Nat /\ IdlePoll \in Snapshots
    BY DEF AccessTypeOK, Snapshots, IdlePoll
  <2>2. note' \in AccessRows
    BY <1>0, <1>9, <2>1 DEF PollAnchors, AccessRows
  <2> QED BY <1>9, <2>1, <2>2 DEF PollAnchors, AccessTypeOK
<1>10. ASSUME NEW r \in Reviewers, OpenPage(r) \/ CheckRead(r) PROVE AccessTypeOK'
  <2>1. reviewer' \in [Reviewers -> Seen]
    <3>1. CASE OpenPage(r)
      <4>1. [at |-> "shown", version |-> note.version, outcome |-> note.outcome, exact |-> FALSE] \in Seen
        BY <1>0 DEF AccessRows, Seen
      <4> QED BY <3>1, <4>1 DEF OpenPage, AccessTypeOK
    <3>2. CASE CheckRead(r)
      <4>1. PICK exact \in BOOLEAN :
              reviewer' = [reviewer EXCEPT ![r].at = "locked", ![r].exact = exact]
        BY <3>2 DEF CheckRead
      <4>2. [[reviewer[r] EXCEPT !.at = "locked"] EXCEPT !.exact = exact] \in Seen
        BY DEF AccessTypeOK, Seen
      <4> QED BY <4>1, <4>2 DEF AccessTypeOK, Seen
    <3> QED BY <1>10, <3>1, <3>2
  <2> QED BY <1>10, <2>1 DEF OpenPage, CheckRead, AccessTypeOK
<1>11. ASSUME NEW r \in Reviewers, MarkRead(r) \/ LoseRead(r) PROVE AccessTypeOK'
  <2>1. Away \in Seen /\ note.outcome \in Nat
    BY <1>0 DEF Away, Seen, AccessRows
  <2>2. [is |-> TRUE, outcome |-> note.outcome, saw |-> reviewer[r].outcome,
         exact |-> reviewer[r].exact] \in Marks
    BY <2>1 DEF AccessTypeOK, Seen, Marks
  <2>3. reviewer' = [reviewer EXCEPT ![r] = Away] /\ UNCHANGED <<now, note, poll, told>>
    BY <1>11 DEF MarkRead, LoseRead
  <2>4. mark' \in [Reviewers -> Marks]
    BY <1>11, <2>2 DEF MarkRead, LoseRead, AccessTypeOK
  <2> QED BY <2>1, <2>3, <2>4 DEF AccessTypeOK
<1>12. CASE TimePasses
  <2>1. LastTick \in Nat
    BY AccessAssumption
  <2> QED BY <1>12, <2>1 DEF TimePasses, AccessTypeOK
<1>13. CASE UNCHANGED accessVars
  BY <1>13 DEF accessVars, AccessTypeOK
<1> QED
  BY <1>1, <1>2, <1>3, <1>4, <1>5, <1>6, <1>7, <1>8, <1>9, <1>10, <1>11, <1>12, <1>13
  DEF AccessNext, PipelineStep, ReviewerStep

--------------------------------------------------------------------------------
(* What is read of the row. *)

(* Answers under way are no end for the sender. *)
LEMMA QueuedIsNoEnd ==
    note.submission = "queued" /\ QueuedInv => Public(note) # "ended"
BY DEF QueuedInv, Public

(* The expiry of the capability is not part of what the sender is shown. *)
LEMMA PublicHasNoExpiry ==
    ASSUME note \in AccessRows, NEW expiry
    PROVE  Public([note EXCEPT !.expiry = expiry]) = Public(note)
BY DEF Public, AccessRows

(* What a step that writes the row leaves alone: everybody else's memory, and *)
(* a row that a reviewer holds.                                               *)
Writes ==
    /\ RowIsFree
    /\ note'.version = note.version + 1
    /\ UNCHANGED reviewer
    /\ \A p \in Polls : poll'[p].public = "ended" => poll'[p] = poll[p]

(* After it, what polls and reviewers remember is of an older version. *)
LEMMA WritesOutdate ==
    ASSUME AccessTypeOK, PollInv, SeenInv, Writes
    PROVE  PollInv' /\ SeenInv'
<1>1. note.version \in Nat
  BY DEF AccessTypeOK, AccessRows
<1>2. ASSUME NEW p \in Polls, poll'[p].public = "ended"
      PROVE  poll'[p].version < note'.version
  <2>1. poll[p].version <= note.version /\ poll'[p].version = poll[p].version
    BY <1>2 DEF PollInv, Writes
  <2>2. poll[p].version \in Nat
    BY DEF AccessTypeOK, Snapshots
  <2> QED BY <1>1, <2>1, <2>2 DEF Writes
<1>3. ASSUME NEW r \in Reviewers, reviewer[r].at # "away"
      PROVE  reviewer[r].version < note'.version
  <2>1. reviewer[r].version <= note.version
    BY <1>3 DEF SeenInv
  <2>2. reviewer[r].version \in Nat
    BY DEF AccessTypeOK, Seen
  <2> QED BY <1>1, <2>1, <2>2 DEF Writes
<1>4. PollInv'
  <2> SUFFICES ASSUME NEW p \in Polls, poll'[p].public = "ended"
               PROVE  poll'[p].version <= note'.version /\ poll'[p].version # note'.version
    BY DEF PollInv
  <2>1. poll'[p].version \in Nat /\ note'.version \in Nat
    BY <1>1 DEF Writes, AccessTypeOK, Snapshots
  <2> QED BY <1>2, <2>1
<1>5. SeenInv'
  <2> SUFFICES ASSUME NEW r \in Reviewers, reviewer[r].at # "away"
               PROVE  /\ reviewer[r].version <= note'.version
                      /\ reviewer[r].version # note'.version
                      /\ reviewer[r].at # "locked"
    BY DEF SeenInv, Writes
  <2>1. reviewer[r].version \in Nat /\ note'.version \in Nat
    BY <1>1 DEF Writes, AccessTypeOK, Seen
  <2> QED BY <1>3, <2>1 DEF Writes, RowIsFree
<1> QED BY <1>4, <1>5

--------------------------------------------------------------------------------
(* The transactions of the pipeline, and the answers of the sender. *)

(* What any of them does to the row, whatever it is about. *)
Transacts ==
    /\ Writes
    /\ UNCHANGED <<now, poll, told>>
    /\ note'.issued => note.issued
    /\ \/ note'.submission # "queued"
       \/ /\ note'.stage = "working" /\ note'.result = "asks" /\ note'.issued
          /\ note'.submittedAt # Unset /\ note'.expiry = note'.submittedAt + ContextTTL
    /\ \/ \A r \in Reviewers : ~mark'[r].is
       \/ mark' = mark /\ note'.stage # "completed"

LEMMA PipelineTransacts ==
    AccessTypeOK /\ QueuedInv /\ PipelineStep => Transacts
<1> SUFFICES ASSUME AccessTypeOK, QueuedInv, PipelineStep PROVE Transacts
  OBVIOUS
<1>1. note \in AccessRows
  BY DEF AccessTypeOK
<1>2. \A r \in Reviewers : ~[q \in Reviewers |-> NoMark][r].is
  BY DEF NoMark
<1>3. CASE AuditAsks
  <2>1. /\ note'.version = note.version + 1 /\ note'.issued = note.issued
        /\ note'.submission # "queued"
    BY <1>1, <1>3 DEF AuditAsks, Write, AccessRows
  <2> QED BY <1>2, <1>3, <2>1 DEF AuditAsks, Write, Transacts, Writes, MarksForgotten
<1>4. ASSUME NEW result \in {"ends", "unread"}, AuditEnds(result) PROVE Transacts
  <2>1. /\ note'.version = note.version + 1 /\ note'.issued = note.issued
        /\ note'.submission # "queued"
    BY <1>1, <1>4 DEF AuditEnds, Write, AccessRows, Closed
  <2> QED BY <1>2, <1>4, <2>1 DEF AuditEnds, Write, Transacts, Writes, MarksForgotten
<1>5. CASE AnalysisFails
  <2>1. /\ note'.version = note.version + 1 /\ note'.issued = note.issued
        /\ note'.submission # "queued" /\ note'.stage # "completed"
    BY <1>1, <1>5 DEF AnalysisFails, Write, AccessRows, Closed
  <2> QED BY <1>5, <2>1 DEF AnalysisFails, Write, Transacts, Writes
<1>6. CASE RecoverAudit
  <2>1. note.submission # "queued"
    BY <1>6 DEF RecoverAudit, QueuedInv
  <2>2. /\ note'.version = note.version + 1 /\ note'.issued = note.issued
        /\ note'.submission # "queued" /\ note'.stage # "completed"
    BY <1>1, <1>6, <2>1 DEF RecoverAudit, Write, AccessRows
  <2> QED BY <1>6, <2>2 DEF RecoverAudit, Write, Transacts, Writes
<1>7. CASE Reprocess
  <2>1. /\ note'.version = note.version + 1 /\ ~note'.issued
        /\ note'.submission # "queued"
    BY <1>1, <1>7 DEF Reprocess, Write, AccessRows, Revoked
  <2> QED BY <1>2, <1>7, <2>1 DEF Reprocess, Write, Transacts, Writes, MarksForgotten
<1> QED BY <1>3, <1>4, <1>5, <1>6, <1>7 DEF PipelineStep

LEMMA AnswersTransact ==
    AccessTypeOK /\ SubmitAnswers => Transacts
<1> SUFFICES ASSUME AccessTypeOK, SubmitAnswers PROVE Transacts
  OBVIOUS
<1>1. note \in AccessRows /\ now # Unset
  BY DEF AccessTypeOK
<1>2. note.stage # "failed" /\ note.result = "asks"
  BY DEF SubmitAnswers, Public
<1>3. note.issued
  BY DEF SubmitAnswers, Valid
<1>4. /\ note'.version = note.version + 1 /\ note'.issued
      /\ note'.stage = "working" /\ note'.result = "asks"
      /\ note'.submittedAt = now /\ note'.expiry = now + ContextTTL
  BY <1>1, <1>2, <1>3 DEF SubmitAnswers, Write, AccessRows
<1> QED BY <1>1, <1>3, <1>4 DEF SubmitAnswers, Write, Transacts, Writes

(* No transaction breaks what is known of the sender and of the reviewers. *)
LEMMA TransactsKeeps == AccessInv /\ AccessTypeOK' /\ Transacts => AccessInv'
<1> SUFFICES ASSUME AccessInv, AccessTypeOK', Transacts PROVE AccessInv'
  OBVIOUS
<1>1. PollInv' /\ SeenInv'
  BY WritesOutdate DEF AccessInv, Transacts
<1>2. ToldInv'
  BY DEF AccessInv, ToldInv, Transacts
<1>3. QueuedInv'
  BY DEF QueuedInv, Transacts
<1>4. ReadsAreOfThisDiagnosis'
  BY DEF AccessInv, ReadsAreOfThisDiagnosis, Transacts
<1> QED BY <1>1, <1>2, <1>3, <1>4 DEF AccessInv

--------------------------------------------------------------------------------
(* The polls. *)

LEMMA PollReadsKeeps ==
    ASSUME AccessInv, AccessTypeOK', NEW p \in Polls, PollReads(p)
    PROVE  AccessInv'
<1>1. UNCHANGED <<now, note, reviewer, mark, told>>
  BY DEF PollReads
<1>2. poll \in [Polls -> Snapshots] /\ note.version \in Nat
  BY DEF AccessInv, AccessTypeOK, AccessRows
<1>3. poll'[p].public = "ended" => Public(note) = "ended" /\ poll'[p].version = note.version
  BY <1>2 DEF PollReads, IdlePoll
<1>4. \A q \in Polls \ {p} : poll'[q] = poll[q]
  BY <1>2 DEF PollReads
<1>5. PollInv'
  <2> SUFFICES ASSUME NEW q \in Polls, poll'[q].public = "ended"
               PROVE  /\ poll'[q].version <= note.version
                      /\ poll'[q].version = note.version => Public(note) = "ended"
    BY <1>1 DEF PollInv, Public
  <2>1. CASE q = p
    BY <1>2, <1>3, <2>1
  <2>2. CASE q # p
    BY <1>4, <2>2 DEF AccessInv, PollInv
  <2> QED BY <2>1, <2>2
<1> QED BY <1>1, <1>5 DEF AccessInv, ToldInv, QueuedInv, SeenInv, ReadsAreOfThisDiagnosis

LEMMA PollTellsKeeps ==
    ASSUME AccessInv, AccessTypeOK', NEW p \in Polls, PollTells(p)
    PROVE  AccessInv'
<1>1. /\ UNCHANGED <<now, reviewer, mark>> /\ RowIsFree
      /\ poll[p].public = "ended" /\ poll' = [poll EXCEPT ![p] = IdlePoll]
  BY DEF PollTells
<1>2. note \in AccessRows /\ poll \in [Polls -> Snapshots] /\ told \in Nat
  BY DEF AccessInv, AccessTypeOK
<1>3. \A q \in Polls : poll'[q].public = "ended" => poll'[q] = poll[q]
  BY <1>1, <1>2 DEF IdlePoll
<1>4. CASE StillCurrent(p)
  <2>1. /\ note' = [note EXCEPT !.issued = FALSE, !.expiry = 0, !.version = @ + 1]
        /\ told' = told + 1 /\ note.issued /\ poll[p].version = note.version
    BY <1>4 DEF PollTells, StillCurrent, Valid, Revoked
  <2>2. /\ note'.version = note.version + 1 /\ ~note'.issued
        /\ note'.stage = note.stage /\ note'.outcome = note.outcome
        /\ note'.submission = note.submission
    BY <1>2, <2>1 DEF AccessRows
  <2>3. PollInv' /\ SeenInv'
    BY <1>1, <1>3, <2>2, WritesOutdate DEF Writes, AccessInv
  <2>4. ToldInv'
    BY <1>2, <2>1, <2>2 DEF AccessInv, ToldInv
  <2>5. note.submission # "queued"
    BY <1>1, <2>1, QueuedIsNoEnd DEF AccessInv, PollInv
  <2>6. QueuedInv'
    BY <2>2, <2>5 DEF QueuedInv
  <2>7. ReadsAreOfThisDiagnosis'
    BY <1>1, <2>2 DEF AccessInv, ReadsAreOfThisDiagnosis
  <2> QED BY <2>3, <2>4, <2>6, <2>7 DEF AccessInv
<1>5. CASE ~StillCurrent(p)
  <2>1. UNCHANGED <<note, told>>
    BY <1>5 DEF PollTells
  <2>2. PollInv'
    BY <1>3, <2>1 DEF AccessInv, PollInv, Public
  <2> QED BY <1>1, <2>1, <2>2 DEF AccessInv, ToldInv, QueuedInv, SeenInv, ReadsAreOfThisDiagnosis
<1> QED BY <1>4, <1>5

LEMMA PollAnchorsKeeps ==
    ASSUME AccessInv, AccessTypeOK', NEW p \in Polls, PollAnchors(p)
    PROVE  AccessInv'
<1>1. /\ UNCHANGED <<now, reviewer, mark, told>>
      /\ poll' = [poll EXCEPT ![p] = IdlePoll]
      /\ note' = IF MayAnchor(p) THEN [note EXCEPT !.expiry = poll[p].anchor] ELSE note
  BY DEF PollAnchors
<1>2. note \in AccessRows /\ poll \in [Polls -> Snapshots]
  BY DEF AccessInv, AccessTypeOK
<1>3. \A q \in Polls : poll'[q].public = "ended" => poll'[q] = poll[q]
  BY <1>1, <1>2 DEF IdlePoll
<1>4. CASE MayAnchor(p)
  <2>1. note' = [note EXCEPT !.expiry = poll[p].anchor]
    BY <1>1, <1>4
  <2>2. /\ note'.version = note.version /\ note'.outcome = note.outcome
        /\ note'.stage = note.stage /\ note'.issued = note.issued
        /\ note'.submission = note.submission
    BY <1>2, <2>1 DEF AccessRows
  <2>3. Public(note') = Public(note)
    BY <1>2, <2>1, PublicHasNoExpiry
  <2>4. PollInv'
    BY <1>3, <2>2, <2>3 DEF AccessInv, PollInv, Public
  <2>5. note.submission # "queued"
    BY <1>4 DEF MayAnchor, AccessInv, QueuedInv
  <2> QED BY <1>1, <2>2, <2>4, <2>5
      DEF AccessInv, ToldInv, QueuedInv, SeenInv, ReadsAreOfThisDiagnosis
<1>5. CASE ~MayAnchor(p)
  <2>1. UNCHANGED note
    BY <1>1, <1>5
  <2>2. PollInv'
    BY <1>3, <2>1 DEF AccessInv, PollInv, Public
  <2> QED BY <1>1, <2>1, <2>2 DEF AccessInv, ToldInv, QueuedInv, SeenInv, ReadsAreOfThisDiagnosis
<1> QED BY <1>4, <1>5

--------------------------------------------------------------------------------
(* The reviewers. *)

LEMMA ReviewerKeeps ==
    ASSUME AccessInv, AccessTypeOK', NEW r \in Reviewers, ReviewerStep(r)
    PROVE  AccessInv'
<1>1. UNCHANGED <<now, note, poll, told>>
  BY DEF ReviewerStep, OpenPage, CheckRead, MarkRead, LoseRead
<1>2. /\ reviewer \in [Reviewers -> Seen] /\ mark \in [Reviewers -> Marks]
      /\ note.version \in Nat
  BY DEF AccessInv, AccessTypeOK, AccessRows
<1>3. PollInv' /\ ToldInv' /\ QueuedInv'
  BY <1>1 DEF AccessInv, PollInv, ToldInv, QueuedInv, Public
<1>4. \A q \in Reviewers \ {r} : reviewer'[q] = reviewer[q] /\ mark'[q] = mark[q]
  BY <1>2 DEF ReviewerStep, OpenPage, CheckRead, MarkRead, LoseRead
<1>5. SeenInv'
  <2>1. reviewer'[r].at # "away" =>
          /\ reviewer'[r].version <= note.version
          /\ reviewer'[r].version = note.version => reviewer'[r].outcome = note.outcome
          /\ reviewer'[r].at = "locked" /\ reviewer'[r].exact => reviewer'[r].outcome = note.outcome
    <3>1. CASE OpenPage(r)
      BY <1>2, <3>1 DEF OpenPage
    <3>2. CASE CheckRead(r)
      <4>1. PICK exact \in BOOLEAN :
              /\ exact => note.version = reviewer[r].version
              /\ reviewer' = [reviewer EXCEPT ![r].at = "locked", ![r].exact = exact]
        BY <3>2 DEF CheckRead
      <4>2. /\ reviewer'[r].version = reviewer[r].version
            /\ reviewer'[r].outcome = reviewer[r].outcome
            /\ reviewer'[r].exact = exact
        BY <1>2, <4>1 DEF Seen
      <4>3. /\ reviewer[r].version <= note.version
            /\ reviewer[r].version = note.version => reviewer[r].outcome = note.outcome
        BY <3>2 DEF CheckRead, AccessInv, SeenInv
      <4> QED BY <4>1, <4>2, <4>3
    <3>3. CASE MarkRead(r) \/ LoseRead(r)
      BY <1>2, <3>3 DEF MarkRead, LoseRead, Away
    <3> QED BY <3>1, <3>2, <3>3 DEF ReviewerStep
  <2> QED BY <1>1, <1>4, <2>1 DEF AccessInv, SeenInv
<1>6. ReadsAreOfThisDiagnosis'
  <2>1. mark'[r].is =>
          /\ note.stage = "completed" => mark'[r].outcome = note.outcome
          /\ mark'[r].exact => mark'[r].saw = mark'[r].outcome
    <3>1. CASE MarkRead(r)
      <4>1. mark'[r] = [is |-> TRUE, outcome |-> note.outcome, saw |-> reviewer[r].outcome,
                        exact |-> reviewer[r].exact]
        BY <1>2, <3>1 DEF MarkRead
      <4>2. reviewer[r].exact => reviewer[r].outcome = note.outcome
        BY <3>1 DEF MarkRead, AccessInv, SeenInv
      <4> QED BY <4>1, <4>2
    <3>2. CASE ~MarkRead(r)
      <4>1. mark' = mark
        BY <3>2 DEF ReviewerStep, OpenPage, CheckRead, LoseRead
      <4> QED BY <4>1 DEF AccessInv, ReadsAreOfThisDiagnosis
    <3> QED BY <3>1, <3>2
  <2> QED BY <1>1, <1>4, <2>1 DEF AccessInv, ReadsAreOfThisDiagnosis
<1> QED BY <1>3, <1>5, <1>6 DEF AccessInv

--------------------------------------------------------------------------------
LEMMA InitInv == AccessInit => AccessInv
<1> SUFFICES ASSUME AccessInit PROVE AccessInv
  OBVIOUS
<1>1. LastTick \in Nat \ {0} /\ UploadTTL \in Nat \ {0}
  BY AccessAssumption
<1>2. AccessTypeOK
  <2>1. note \in AccessRows
    BY <1>1 DEF AccessInit, AccessRows
  <2>2. IdlePoll \in Snapshots /\ Away \in Seen /\ NoMark \in Marks
    BY DEF IdlePoll, Snapshots, Away, Seen, NoMark, Marks
  <2> QED BY <1>1, <2>1, <2>2 DEF AccessInit, AccessTypeOK
<1>3. ToldInv /\ QueuedInv
  BY DEF AccessInit, ToldInv, QueuedInv
<1>4. PollInv /\ SeenInv
  BY DEF AccessInit, PollInv, SeenInv, IdlePoll, Away
<1>5. ReadsAreOfThisDiagnosis
  BY DEF AccessInit, ReadsAreOfThisDiagnosis, NoMark
<1> QED BY <1>2, <1>3, <1>4, <1>5 DEF AccessInv

LEMMA StepInv == AccessInv /\ [AccessNext]_accessVars => AccessInv'
<1> SUFFICES ASSUME AccessInv, [AccessNext]_accessVars PROVE AccessInv'
  OBVIOUS
<1>1. AccessTypeOK'
  BY TypeStep DEF AccessInv
<1>2. CASE PipelineStep
  BY <1>1, <1>2, PipelineTransacts, TransactsKeeps DEF AccessInv
<1>3. CASE SubmitAnswers
  BY <1>1, <1>3, AnswersTransact, TransactsKeeps DEF AccessInv
<1>4. ASSUME NEW p \in Polls, PollReads(p) \/ PollTells(p) \/ PollAnchors(p) PROVE AccessInv'
  BY <1>1, <1>4, PollReadsKeeps, PollTellsKeeps, PollAnchorsKeeps
<1>5. ASSUME NEW r \in Reviewers, ReviewerStep(r) PROVE AccessInv'
  BY <1>1, <1>5, ReviewerKeeps
<1>6. CASE TimePasses \/ UNCHANGED accessVars
  <2>1. UNCHANGED <<note, poll, reviewer, mark, told>>
    BY <1>6 DEF TimePasses, accessVars
  <2> QED BY <1>1, <2>1
      DEF AccessInv, ToldInv, QueuedInv, PollInv, SeenInv, ReadsAreOfThisDiagnosis, Public
<1> QED BY <1>2, <1>3, <1>4, <1>5, <1>6 DEF AccessNext

(* The state of the access to a note is always of its type.                   *)
(* public-capability.ts, status/route.ts, record-note-read.ts. *)
THEOREM AccessTyped == AccessSpec => []AccessTypeOK
<1>1. AccessInv => AccessTypeOK
  BY DEF AccessInv
<1> QED BY InitInv, StepInv, <1>1, PTL DEF AccessSpec

(* For any number of polls, transactions and times to live, the sender is     *)
(* told the end once and the token is spent.  status/route.ts:196-213. *)
THEOREM EndToldOnce == AccessSpec => []EndIsToldOnce
<1>1. AccessInv => EndIsToldOnce
  BY DEF AccessInv, ToldInv, EndIsToldOnce, Valid
<1> QED BY InitInv, StepInv, <1>1, PTL DEF AccessSpec

(* No poll shortens what was promised to who answered.                        *)
(* context-questions.ts:313-330, status/route.ts:253-262. *)
THEOREM AnswerFollowed == AccessSpec => []AnswerIsFollowed
<1>1. AccessInv => AnswerIsFollowed
  BY DEF AccessInv, QueuedInv, AnswerIsFollowed
<1> QED BY InitInv, StepInv, <1>1, PTL DEF AccessSpec

(* Whatever reviewers acknowledge while diagnoses replace each other, a mark  *)
(* is of the diagnosis on show.  record-note-read.ts:13-21. *)
THEOREM ReadsOfThisDiagnosis == AccessSpec => []ReadsAreOfThisDiagnosis
<1>1. AccessInv => ReadsAreOfThisDiagnosis
  BY DEF AccessInv
<1> QED BY InitInv, StepInv, <1>1, PTL DEF AccessSpec
================================================================================
