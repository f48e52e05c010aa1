--------------------------- MODULE PushDeliveryProofs ---------------------------
(***************************************************************************)
(* Type correctness of PushDelivery, and the two facts about its attempts   *)
(* that hold whatever is interrupted: an attempt is one call of the push    *)
(* service, and all the accepted attempts of a delivery but the last were   *)
(* interrupted.                                                             *)
(***************************************************************************)
EXTENDS PushDelivery, TLAPS

Busy(s) == exec[s].step # "idle"

(* A sender never remembers an attempt its delivery has not reached, and no *)
(* two senders remember the same one.                                       *)
AttemptsKnown ==
    \A s \in Senders : Busy(s) => exec[s].attempt \in 1..delivery[exec[s].key].attempt
AttemptsApart ==
    \A s, t \in Senders :
      Busy(s) /\ Busy(t) /\ exec[s].key = exec[t].key /\ exec[s].attempt = exec[t].attempt
      => s = t

(* The attempts accepted so far have been made, and the attempt about to be *)
(* sent is not one of them.                                                 *)
AcceptedKnown ==
    \A k \in Keys : accepted[k] \subseteq 1..delivery[k].attempt
SendsAfresh ==
    \A s \in Senders : exec[s].step = "send" => exec[s].attempt \notin accepted[exec[s].key]

(* The delivery is still in the hands of the attempt a of sender s. *)
InHands(s, k, a) ==
    /\ delivery[k].attempt = a
    /\ \/ delivery[k].status = "REMOVED"
       \/ /\ delivery[k].status = "SENDING"
          /\ delivery[k].lockedBy = s
          /\ ~delivery[k].stale

(* A sender that was not interrupted still holds its delivery, unless its    *)
(* subscription is gone; an accepted attempt that was not interrupted is the *)
(* last, and its delivery is closed or about to be.                         *)
SendersHold ==
    \A s \in Senders :
      Busy(s) /\ exec[s].attempt \notin interrupted[exec[s].key]
      => InHands(s, exec[s].key, exec[s].attempt)
LockedAttempt ==
    \A s \in Senders : Holds(s) => exec[s].attempt = delivery[exec[s].key].attempt
Concludes(s, k, a) ==
    /\ exec[s].step = "accepted" /\ exec[s].key = k /\ exec[s].attempt = a
AcceptedCloses ==
    \A k \in Keys : \A a \in accepted[k] \ interrupted[k] :
      /\ delivery[k].attempt = a
      /\ \/ delivery[k].status \in {"ACCEPTED", "REMOVED"}
         \/ \E s \in Senders : Concludes(s, k, a)

(* Deliveries exist once their notice does, and one being sent was claimed. *)
RowsInOrder ==
    \A k \in Keys :
      /\ k[1] \notin notified => delivery[k].status = "NONE"
      /\ delivery[k].status = "SENDING" => delivery[k].attempt >= 1

AttemptInv ==
    /\ TypeOK /\ RowsInOrder
    /\ AttemptsKnown /\ AttemptsApart
    /\ AcceptedKnown /\ SendsAfresh
    /\ LockedAttempt /\ SendersHold /\ AcceptedCloses

--------------------------------------------------------------------------------
(* What the updates of a row or of a sender's memory return. *)

LEMMA ReleasedRow ==
    ASSUME NEW r \in DeliveryRows, NEW status \in Statuses, NEW due \in BOOLEAN
    PROVE  /\ Released(r, status, due) \in DeliveryRows
           /\ Released(r, status, due).status = status
           /\ Released(r, status, due).attempt = r.attempt
BY DEF Released, DeliveryRows

LEMMA ClaimedRowCounts ==
    ASSUME NEW r \in DeliveryRows, NEW s \in Senders, AttemptsLeft(r)
    PROVE  /\ ClaimedRow(r, s) \in DeliveryRows
           /\ ClaimedRow(r, s).status = "SENDING"
           /\ ClaimedRow(r, s).attempt = r.attempt + 1
           /\ ClaimedRow(r, s).lockedBy = s
           /\ ClaimedRow(r, s).stale = FALSE
<1>1. r.attempt + 1 \in 0..MaxAttempts
  BY PushAssumption DEF AttemptsLeft, DeliveryRows
<1>2. /\ ClaimedRow(r, s).status = "SENDING"
      /\ ClaimedRow(r, s).attempt = r.attempt + 1
      /\ ClaimedRow(r, s).lockedBy = s
      /\ ClaimedRow(r, s).stale = FALSE
  BY DEF ClaimedRow, DeliveryRows
<1>3. ClaimedRow(r, s) \in DeliveryRows
  BY <1>1 DEF ClaimedRow, DeliveryRows, Statuses
<1> QED BY <1>2, <1>3

LEMMA MarkedRow ==
    ASSUME NEW r \in DeliveryRows
    PROVE  /\ [r EXCEPT !.status = "PENDING"] \in DeliveryRows
           /\ [r EXCEPT !.status = "PENDING"].status = "PENDING"
           /\ [r EXCEPT !.status = "PENDING"].attempt = r.attempt
           /\ [r EXCEPT !.due = TRUE] \in DeliveryRows
           /\ [r EXCEPT !.due = TRUE].status = r.status
           /\ [r EXCEPT !.due = TRUE].attempt = r.attempt
           /\ [r EXCEPT !.due = TRUE].lockedBy = r.lockedBy
           /\ [r EXCEPT !.due = TRUE].stale = r.stale
           /\ [r EXCEPT !.stale = TRUE] \in DeliveryRows
           /\ [r EXCEPT !.stale = TRUE].status = r.status
           /\ [r EXCEPT !.stale = TRUE].attempt = r.attempt
           /\ [r EXCEPT !.stale = TRUE].lockedBy = r.lockedBy
BY DEF DeliveryRows, Statuses

LEMMA SteppedMemory ==
    ASSUME NEW m \in Memory, NEW step \in Steps
    PROVE  /\ [m EXCEPT !.step = step] \in Memory
           /\ [m EXCEPT !.step = step].step = step
           /\ [m EXCEPT !.step = step].key = m.key
           /\ [m EXCEPT !.step = step].attempt = m.attempt
BY DEF Memory

--------------------------------------------------------------------------------
(* The steps by what they do to the invariant.                              *)

(* No sender is involved. *)
QuietRow(k) ==
    /\ delivery'[k].attempt = delivery[k].attempt
    /\ \/ /\ delivery'[k].status = delivery[k].status
          /\ delivery'[k].lockedBy = delivery[k].lockedBy
          /\ delivery'[k].stale = delivery[k].stale
       \/ /\ k[1] \notin notified /\ k[1] \in notified'
          /\ delivery'[k].status = "PENDING"
       \/ delivery[k].status # "NONE" /\ delivery'[k].status = "REMOVED"
       \/ Stale(k) /\ delivery'[k].status \in {"FAILED", "CANCELLED"}
QuietRows ==
    /\ subscription' \in [Devices -> {"none", "active", "expired", "removed"}]
    /\ notified' \in SUBSET Notices /\ notified \subseteq notified'
    /\ delivery' \in [Keys -> DeliveryRows]
    /\ \A k \in Keys : QuietRow(k)
QuietStep == QuietRows /\ UNCHANGED <<exec, accepted, interrupted>>

Stepped(s, step) ==
    /\ exec' \in [Senders -> Memory]
    /\ exec'[s].step = step
    /\ exec'[s].key = exec[s].key /\ exec'[s].attempt = exec[s].attempt
    /\ \A t \in Senders \ {s} : exec'[t] = exec[t]
Rested(s) ==
    /\ exec' \in [Senders -> Memory]
    /\ exec'[s].step = "idle"
    /\ \A t \in Senders \ {s} : exec'[t] = exec[t]
Interrupted(s) ==
    interrupted' = [interrupted EXCEPT ![exec[s].key] = @ \cup {exec[s].attempt}]
Accepted(s) ==
    accepted' = [accepted EXCEPT ![exec[s].key] = @ \cup {exec[s].attempt}]

(* A sender records what it heard, on a row it holds. *)
RecordedRow(s, k) ==
    \/ /\ ~(Holds(s) /\ exec[s].key = k)
       /\ delivery'[k] = delivery[k]
    \/ /\ Holds(s) /\ exec[s].key = k
       /\ delivery'[k].attempt = delivery[k].attempt
       /\ delivery'[k].status \in {"ACCEPTED", "FAILED", "CANCELLED"}
       /\ exec[s].step = "accepted" => delivery'[k].status = "ACCEPTED"
(* A sender hears from the push service, or fails to keep what it heard. *)
HeardStep(s) ==
    /\ UNCHANGED <<subscription, notified, delivery>>
    /\ \/ /\ exec[s].step = "send" /\ Stepped(s, "accepted")
          /\ Accepted(s) /\ UNCHANGED interrupted
       \/ /\ exec[s].step = "send" /\ Stepped(s, "retry")
          /\ Accepted(s) /\ Interrupted(s)
       \/ /\ exec[s].step = "send"
          /\ \E step \in {"retry", "refused", "gone"} : Stepped(s, step)
          /\ UNCHANGED <<accepted, interrupted>>
       \/ /\ exec[s].step = "accepted" /\ Stepped(s, "retry")
          /\ UNCHANGED accepted /\ Interrupted(s)

(* A sender comes to its end: it records, drops the subscription, or dies. *)
EndedStep(s) ==
    /\ Busy(s) /\ Rested(s)
    /\ UNCHANGED accepted
    /\ \/ /\ exec[s].step # "send"
          /\ UNCHANGED <<subscription, notified, interrupted>>
          /\ delivery' \in [Keys -> DeliveryRows]
          /\ \A k \in Keys : RecordedRow(s, k)
       \/ /\ exec[s].step = "gone"
          /\ UNCHANGED interrupted
          /\ QuietRows
       \/ /\ UNCHANGED <<subscription, notified, delivery>>
          /\ Interrupted(s)


LEMMA Kinds ==
    ASSUME TypeOK, RowsInOrder, AttemptsKnown, Next
    PROVE  \/ QuietStep
           \/ \E s \in Senders, k \in Keys : ClaimDelivery(s, k)
           \/ \E s \in Senders : HeardStep(s) \/ EndedStep(s)
           \/ \E k \in Keys : LeaseExpires(k)
<1> USE DEF TypeOK
<1>r. ASSUME NEW d \in Devices, RemoveSubscription(d), notified' = notified
      PROVE  QuietRows
  <2>1. \A k \in Keys : /\ QuietRow(k)
                        /\ delivery'[k] \in DeliveryRows
    BY <1>r, ReleasedRow DEF RemoveSubscription, QuietRow, Statuses, DeliveryRows
  <2>2. delivery' = [k \in Keys |-> delivery'[k]]
    BY <1>r DEF RemoveSubscription
  <2> QED BY <1>r, <2>1, <2>2 DEF QuietRows, RemoveSubscription
<1>1. ASSUME NEW d \in Devices, Subscribe(d) \/ SubscriptionExpires(d)  PROVE QuietStep
  BY <1>1 DEF Subscribe, SubscriptionExpires, QuietStep, QuietRows, QuietRow
<1>2. ASSUME NEW d \in Devices, Unsubscribe(d)  PROVE QuietStep
  BY <1>2, <1>r DEF Unsubscribe, QuietStep
<1>3. ASSUME NEW n \in Notices, CreateNotification(n)  PROVE QuietStep
  <2>1. \A k \in Keys : /\ QuietRow(k)
                        /\ delivery'[k] \in DeliveryRows
    BY <1>3, MarkedRow DEF CreateNotification, QuietRow
  <2>2. delivery' = [k \in Keys |-> delivery'[k]]
    BY <1>3 DEF CreateNotification
  <2> QED BY <1>3, <2>1, <2>2 DEF CreateNotification, QuietStep, QuietRows
<1>4. ASSUME NEW k \in Keys, ClaimFindsExpired(k)  PROVE QuietStep
  <2>1. DeviceOf(k) \in Devices
    BY DEF DeviceOf, Keys
  <2> QED BY <1>4, <1>r, <2>1 DEF ClaimFindsExpired, QuietStep
<1>5. ASSUME NEW k \in Keys, BackoffEnds(k)  PROVE QuietStep
  <2>1. /\ delivery' = [delivery EXCEPT ![k] = [delivery[k] EXCEPT !.due = TRUE]]
        /\ delivery[k] \in DeliveryRows
    BY <1>5 DEF BackoffEnds
  <2>2. delivery' \in [Keys -> DeliveryRows]
    BY <2>1, MarkedRow
  <2>3. \A i \in Keys : QuietRow(i)
    BY <2>1, MarkedRow DEF QuietRow
  <2> QED BY <1>5, <2>2, <2>3 DEF BackoffEnds, QuietStep, QuietRows
<1>6. ASSUME ReturnStaleDeliveries \/ CancelSpentDeliveries  PROVE QuietStep
  <2>1. \A k \in Keys : /\ QuietRow(k)
                        /\ delivery'[k] \in DeliveryRows
    <3> TAKE k \in Keys
    <3>1. delivery[k] \in DeliveryRows /\ delivery[k].due \in BOOLEAN
      BY DEF DeliveryRows
    <3>2. CASE delivery'[k] = delivery[k]
      BY <3>1, <3>2 DEF QuietRow
    <3>3. CASE Stale(k) /\ delivery'[k] = Released(delivery[k], "FAILED", TRUE)
      <4>1. /\ Released(delivery[k], "FAILED", TRUE) \in DeliveryRows
            /\ Released(delivery[k], "FAILED", TRUE).status = "FAILED"
            /\ Released(delivery[k], "FAILED", TRUE).attempt = delivery[k].attempt
        BY <3>1, ReleasedRow DEF Statuses
      <4> HIDE DEF TypeOK
      <4> QED BY <3>3, <4>1 DEF QuietRow
    <3>4. CASE Stale(k) /\ delivery'[k] = Released(delivery[k], "CANCELLED", delivery[k].due)
      <4>1. /\ Released(delivery[k], "CANCELLED", delivery[k].due) \in DeliveryRows
            /\ Released(delivery[k], "CANCELLED", delivery[k].due).status = "CANCELLED"
            /\ Released(delivery[k], "CANCELLED", delivery[k].due).attempt = delivery[k].attempt
        BY <3>1, ReleasedRow DEF Statuses
      <4> HIDE DEF TypeOK
      <4> QED BY <3>4, <4>1 DEF QuietRow
    <3> QED BY <1>6, <3>2, <3>3, <3>4 DEF ReturnStaleDeliveries, CancelSpentDeliveries
  <2>2. delivery' = [k \in Keys |-> delivery'[k]]
    BY <1>6 DEF ReturnStaleDeliveries, CancelSpentDeliveries
  <2> QED BY <1>6, <2>1, <2>2
          DEF ReturnStaleDeliveries, CancelSpentDeliveries, QuietStep, QuietRows
<1>s. ASSUME NEW s \in Senders, NEW step \in Steps, exec' = [exec EXCEPT ![s].step = step]
      PROVE  Stepped(s, step)
  BY <1>s, SteppedMemory DEF Stepped
<1>i. ASSUME NEW s \in Senders, exec' = [exec EXCEPT ![s] = Idle]  PROVE Rested(s)
  BY <1>i, PushAssumption DEF Rested, Idle, Memory, Steps
<1>7. ASSUME NEW s \in Senders, PushAccepted(s)  PROVE HeardStep(s)
  BY <1>7, <1>s DEF PushAccepted, HeardStep, Interrupt, Accepted, Interrupted, Steps
<1>8. ASSUME NEW s \in Senders, PushFails(s)  PROVE HeardStep(s)
  <2>1. PICK step \in {"retry", "refused", "gone"} : exec' = [exec EXCEPT ![s].step = step]
    BY <1>8 DEF PushFails
  <2>2. Stepped(s, step)
    BY <2>1, <1>s DEF Steps
  <2> QED BY <1>8, <2>2 DEF PushFails, HeardStep
<1>9. ASSUME NEW s \in Senders, RecordAcceptedFails(s)  PROVE HeardStep(s)
  BY <1>9, <1>s DEF RecordAcceptedFails, HeardStep, Interrupt, Interrupted, Steps
<1>10. ASSUME NEW s \in Senders, RecordAccepted(s) \/ RecordFailure(s)  PROVE EndedStep(s)
  <2>0. exec[s].key \in Keys /\ Rested(s)
    BY <1>10, <1>i DEF RecordAccepted, RecordFailure
  <2>1. CASE RecordAccepted(s)
    <3>1. \A k \in Keys : RecordedRow(s, k) /\ delivery'[k] \in DeliveryRows
      BY <2>0, <2>1, ReleasedRow DEF RecordAccepted, RecordedRow, Statuses, DeliveryRows
    <3>2. delivery' = [k \in Keys |-> delivery'[k]]
      BY <2>1 DEF RecordAccepted
    <3> QED BY <2>0, <2>1, <3>1, <3>2 DEF RecordAccepted, EndedStep, Busy
  <2>2. CASE RecordFailure(s)
    <3> DEFINE again == exec[s].step = "retry" /\ exec[s].attempt < MaxAttempts
               status == IF again THEN "FAILED" ELSE "CANCELLED"
    <3>0. status \in Statuses /\ (~again) \in BOOLEAN
      BY DEF Statuses
    <3>1. Released(delivery[exec[s].key], status, ~again) \in DeliveryRows
      BY <2>0, <3>0, ReleasedRow
    <3>2. /\ Released(delivery[exec[s].key], status, ~again).status = status
          /\ Released(delivery[exec[s].key], status, ~again).attempt
               = delivery[exec[s].key].attempt
      BY <2>0, <3>0, ReleasedRow
    <3>3. delivery' = IF Holds(s)
                      THEN [delivery EXCEPT ![exec[s].key] =
                              Released(delivery[exec[s].key], status, ~again)]
                      ELSE delivery
      BY <2>2 DEF RecordFailure
    <3>4. status \in {"FAILED", "CANCELLED"} /\ exec[s].step # "accepted"
      BY <2>2 DEF RecordFailure
    <3> HIDE DEF again, status
    <3>5. \A k \in Keys : RecordedRow(s, k) /\ delivery'[k] \in DeliveryRows
      BY <2>0, <3>1, <3>2, <3>3, <3>4 DEF RecordedRow
    <3>6. delivery' = [k \in Keys |-> delivery'[k]]
      BY <3>3
    <3> QED BY <2>0, <2>2, <3>5, <3>6 DEF RecordFailure, EndedStep, Busy
  <2> QED BY <1>10, <2>1, <2>2
<1>11. ASSUME NEW s \in Senders, DropSubscription(s)  PROVE EndedStep(s)
  <2>1. DeviceOf(exec[s].key) \in Devices
    BY <1>11 DEF DropSubscription, DeviceOf, Keys
  <2> QED BY <1>11, <1>i, <1>r, <2>1 DEF DropSubscription, EndedStep, Busy
<1>12. ASSUME NEW s \in Senders, Crash(s)  PROVE EndedStep(s)
  <2>1. Rested(s) /\ Interrupted(s)
    BY <1>12, <1>i DEF Crash, Interrupt, Interrupted
  <2> QED BY <1>12, <2>1 DEF Crash, EndedStep, Busy
<1> QED
  BY <1>1, <1>2, <1>3, <1>4, <1>5, <1>6, <1>7, <1>8, <1>9, <1>10, <1>11, <1>12
  DEF Next, Advance
--------------------------------------------------------------------------------
(* Each kind of step keeps the invariant.                                   *)

LEMMA InitInv == Init => AttemptInv
BY PushAssumption
DEF Init, AttemptInv, TypeOK, RowsInOrder, AttemptsKnown, AttemptsApart, AcceptedKnown,
    SendsAfresh, LockedAttempt, SendersHold, AcceptedCloses, Busy, Holds, Idle, Memory, Steps,
    DeliveryRows, Statuses

(* What a quiet row leaves true of the delivery, whatever the senders do. *)
LEMMA QuietInHands ==
    ASSUME NEW k \in Keys, NEW s \in Senders, NEW a, RowsInOrder, QuietRow(k),
           InHands(s, k, a)
    PROVE  InHands(s, k, a)'
BY DEF QuietRow, InHands, RowsInOrder, Stale

LEMMA QuietOrder ==
    ASSUME RowsInOrder, QuietRows
    PROVE  RowsInOrder'
<1> SUFFICES ASSUME NEW k \in Keys
    PROVE  /\ k[1] \notin notified' => delivery'[k].status = "NONE"
           /\ delivery'[k].status = "SENDING" => delivery'[k].attempt >= 1
  BY DEF RowsInOrder
<1>1. QuietRow(k) /\ notified \subseteq notified'
  BY DEF QuietRows
<1> QED BY <1>1 DEF RowsInOrder, QuietRow, Stale
LEMMA QuietKeeps ==
    ASSUME AttemptInv, QuietStep
    PROVE  AttemptInv'
<1> USE DEF AttemptInv, QuietStep
<1>1. TypeOK'
  BY DEF TypeOK, QuietRows
<1>2. RowsInOrder'
  BY QuietOrder
<1>3. \A k \in Keys : delivery'[k].attempt = delivery[k].attempt /\ QuietRow(k)
  BY DEF QuietRows, QuietRow
<1>4. \A s \in Senders : Busy(s) => exec[s].key \in Keys
  BY DEF TypeOK, Busy
<1>5. AttemptsKnown' /\ AttemptsApart' /\ AcceptedKnown' /\ SendsAfresh'
  BY <1>3, <1>4 DEF AttemptsKnown, AttemptsApart, AcceptedKnown, SendsAfresh, Busy
<1>6. LockedAttempt'
  BY <1>3, <1>4 DEF LockedAttempt, Holds, Busy, QuietRow
<1>7. SendersHold'
  BY <1>3, <1>4, QuietInHands DEF SendersHold, Busy
<1>8. AcceptedCloses'
  <2> SUFFICES ASSUME NEW k \in Keys, NEW a \in accepted[k] \ interrupted[k]
      PROVE  /\ delivery'[k].attempt = a
             /\ \/ delivery'[k].status \in {"ACCEPTED", "REMOVED"}
                \/ \E s \in Senders : Concludes(s, k, a)
    BY DEF AcceptedCloses, Concludes
  <2>1. delivery[k].attempt = a /\ QuietRow(k)
    BY <1>3 DEF AcceptedCloses
  <2>2. CASE delivery[k].status \in {"ACCEPTED", "REMOVED"}
    BY <1>3, <2>1, <2>2 DEF QuietRow, Stale, RowsInOrder
  <2>3. CASE \E s \in Senders : Concludes(s, k, a)
    BY <1>3, <2>1, <2>3
  <2> QED BY <2>2, <2>3 DEF AcceptedCloses
<1> QED BY <1>1, <1>2, <1>5, <1>6, <1>7, <1>8

LEMMA ClaimKeeps ==
    ASSUME AttemptInv, NEW s \in Senders, NEW k \in Keys, ClaimDelivery(s, k)
    PROVE  AttemptInv'
<1> USE DEF AttemptInv
<1> DEFINE row == ClaimedRow(delivery[k], s)
<1>1. /\ delivery[k] \in DeliveryRows /\ AttemptsLeft(delivery[k])
      /\ delivery[k].status \in {"PENDING", "FAILED"} /\ delivery[k].attempt \in Nat
  BY PushAssumption DEF TypeOK, ClaimDelivery, Claimable, Waiting, DeliveryRows
<1>2. /\ row \in DeliveryRows
      /\ row.status = "SENDING" /\ row.attempt = delivery[k].attempt + 1
      /\ row.lockedBy = s /\ row.stale = FALSE
  BY <1>1, ClaimedRowCounts
<1>3. delivery' = [delivery EXCEPT ![k] = row]
  BY DEF ClaimDelivery
<1>4. exec' = [exec EXCEPT ![s] = [step |-> "send", key |-> k, attempt |-> row.attempt]]
  BY DEF ClaimDelivery
<1> HIDE DEF row
<1>5. UNCHANGED <<subscription, notified, accepted, interrupted>> /\ ~Busy(s)
  BY DEF ClaimDelivery, Busy
<1>6. row.attempt \in 0..MaxAttempts
  BY <1>2 DEF DeliveryRows
<1>7. TypeOK'
  BY <1>2, <1>3, <1>4, <1>5, <1>6 DEF TypeOK, Memory, Steps
<1>8. /\ delivery'[k] = row /\ exec'[s].step = "send" /\ exec'[s].key = k
      /\ exec'[s].attempt = row.attempt
      /\ \A t \in Senders \ {s} : exec'[t] = exec[t]
      /\ \A i \in Keys \ {k} : delivery'[i] = delivery[i]
  BY <1>3, <1>4 DEF TypeOK
<1>9. \A t \in Senders : Busy(t) => exec[t].key \in Keys /\ t # s
  BY <1>5 DEF TypeOK, Busy
<1>10. RowsInOrder'
  BY <1>1, <1>2, <1>5, <1>8 DEF RowsInOrder
<1>11. AttemptsKnown' /\ AttemptsApart'
  <2>1. \A t \in Senders : Busy(t) /\ exec[t].key = k => exec[t].attempt <= delivery[k].attempt
    BY <1>1, <1>9 DEF AttemptsKnown
  <2>2. AttemptsKnown'
    BY <1>1, <1>2, <1>8, <1>9 DEF AttemptsKnown, Busy
  <2>3. AttemptsApart'
    BY <1>1, <1>2, <1>8, <1>9, <2>1 DEF AttemptsKnown, AttemptsApart, Busy
  <2> QED BY <2>2, <2>3
<1>12. AcceptedKnown' /\ SendsAfresh'
  BY <1>1, <1>2, <1>5, <1>8, <1>9 DEF AcceptedKnown, SendsAfresh, Busy
<1>13. LockedAttempt'
  BY <1>2, <1>8, <1>9 DEF LockedAttempt, Holds, Busy
<1>14. SendersHold'
  BY <1>1, <1>2, <1>5, <1>8, <1>9 DEF SendersHold, InHands, Busy
<1>15. AcceptedCloses'
  <2>1. accepted[k] \ interrupted[k] = {}
    BY <1>1, <1>9 DEF AcceptedCloses, Concludes, SendersHold, InHands, Busy
  <2> QED BY <1>5, <1>8, <1>9, <2>1 DEF AcceptedCloses, Concludes, Busy
<1> QED BY <1>7, <1>10, <1>11, <1>12, <1>13, <1>14, <1>15

LEMMA LeaseKeeps ==
    ASSUME AttemptInv, NEW k \in Keys, LeaseExpires(k)
    PROVE  AttemptInv'
<1> USE DEF AttemptInv
<1>1. delivery[k] \in DeliveryRows /\ delivery[k].status = "SENDING"
  BY DEF TypeOK, LeaseExpires
<1>2. delivery' = [delivery EXCEPT ![k] = [delivery[k] EXCEPT !.stale = TRUE]]
  BY DEF LeaseExpires
<1>3. /\ delivery' \in [Keys -> DeliveryRows]
      /\ \A i \in Keys : /\ delivery'[i].attempt = delivery[i].attempt
                          /\ delivery'[i].status = delivery[i].status
                          /\ delivery'[i].lockedBy = delivery[i].lockedBy
      /\ \A i \in Keys \ {k} : delivery'[i] = delivery[i]
  BY <1>1, <1>2, MarkedRow DEF TypeOK
<1>4. delivery[k].attempt \in 1..MaxAttempts
  BY <1>1, PushAssumption DEF RowsInOrder, DeliveryRows
<1>5. /\ UNCHANGED <<subscription, notified, exec, accepted>>
      /\ interrupted' \in [Keys -> SUBSET (1..MaxAttempts)]
      /\ \A i \in Keys : interrupted[i] \subseteq interrupted'[i]
  BY <1>4 DEF LeaseExpires, Interrupt, TypeOK
<1>6. \/ \A s \in Senders : ~(Holds(s) /\ exec[s].key = k)
      \/ delivery[k].attempt \in interrupted'[k]
  BY DEF LeaseExpires, Interrupt, TypeOK
<1>7. \A s \in Senders : Busy(s) => exec[s].key \in Keys
  BY DEF TypeOK, Busy
<1>8. TypeOK' /\ RowsInOrder'
  BY <1>3, <1>5 DEF TypeOK, RowsInOrder
<1>9. AttemptsKnown' /\ AttemptsApart' /\ AcceptedKnown' /\ SendsAfresh'
  BY <1>3, <1>5, <1>7 DEF AttemptsKnown, AttemptsApart, AcceptedKnown, SendsAfresh, Busy
<1>10. LockedAttempt'
  BY <1>3, <1>5, <1>7 DEF LockedAttempt, Holds, Busy
<1>11. SendersHold'
  <2> SUFFICES ASSUME NEW s \in Senders, Busy(s),
                      exec[s].attempt \notin interrupted'[exec[s].key]
      PROVE  InHands(s, exec[s].key, exec[s].attempt)'
    BY <1>5 DEF SendersHold, Busy, InHands
  <2>1. exec[s].key \in Keys /\ InHands(s, exec[s].key, exec[s].attempt)
    BY <1>5, <1>7 DEF SendersHold
  <2>2. exec[s].key # k
    BY <1>1, <1>6, <2>1 DEF InHands, Holds, Busy
  <2> QED BY <1>3, <1>5, <2>1, <2>2 DEF InHands
<1>12. AcceptedCloses'
  BY <1>3, <1>5 DEF AcceptedCloses, Concludes
<1> QED BY <1>8, <1>9, <1>10, <1>11, <1>12
LEMMA HeardKeeps ==
    ASSUME AttemptInv, NEW s \in Senders, HeardStep(s)
    PROVE  AttemptInv'
<1> USE DEF AttemptInv
<1>0. UNCHANGED <<subscription, notified, delivery>> /\ Busy(s)
  BY DEF HeardStep, Busy
<1>1. /\ exec' \in [Senders -> Memory]
      /\ exec'[s].key = exec[s].key /\ exec'[s].attempt = exec[s].attempt
      /\ exec'[s].step \in {"accepted", "retry", "refused", "gone"}
      /\ \A t \in Senders \ {s} : exec'[t] = exec[t]
  BY DEF HeardStep, Stepped
<1>2. exec[s].key \in Keys /\ exec[s].attempt \in 1..delivery[exec[s].key].attempt
  BY <1>0 DEF TypeOK, Busy, AttemptsKnown
<1>3. exec[s].attempt \in 1..MaxAttempts
  BY <1>2, PushAssumption DEF TypeOK, DeliveryRows, Memory
<1>4. /\ interrupted' = interrupted \/ Interrupted(s)
      /\ accepted' = accepted \/ Accepted(s)
  BY DEF HeardStep
<1>5. /\ interrupted' \in [Keys -> SUBSET (1..MaxAttempts)]
      /\ accepted' \in [Keys -> SUBSET (1..MaxAttempts)]
  BY <1>2, <1>3, <1>4 DEF TypeOK, Interrupted, Accepted
<1>6. \A k \in Keys :
        /\ interrupted[k] \subseteq interrupted'[k]
        /\ accepted'[k] \subseteq accepted[k] \cup {exec[s].attempt}
        /\ k # exec[s].key => accepted'[k] = accepted[k]
  BY <1>2, <1>4 DEF TypeOK, Interrupted, Accepted
<1>7. \A t \in Senders : Busy(t) => exec[t].key \in Keys
  BY DEF TypeOK, Busy
<1>8. \A t \in Senders : /\ Busy(t)' <=> Busy(t)
                         /\ exec'[t].key = exec[t].key
                         /\ exec'[t].attempt = exec[t].attempt
                         /\ exec'[t].step = "send" => t # s /\ exec[t].step = "send"
  BY <1>0, <1>1 DEF Busy
<1>9. TypeOK' /\ RowsInOrder'
  BY <1>0, <1>1, <1>5, <1>7, <1>8 DEF TypeOK, RowsInOrder, Busy
<1>10. AttemptsKnown' /\ AttemptsApart' /\ LockedAttempt'
  BY <1>0, <1>7, <1>8 DEF AttemptsKnown, AttemptsApart, LockedAttempt, Holds, Busy
<1>11. AcceptedKnown'
  BY <1>0, <1>2, <1>6 DEF AcceptedKnown
<1>12. SendsAfresh'
  <2> SUFFICES ASSUME NEW t \in Senders, exec'[t].step = "send"
      PROVE  exec'[t].attempt \notin accepted'[exec'[t].key]
    BY DEF SendsAfresh
  <2>1. /\ t # s /\ exec[t].step = "send" /\ Busy(t)
        /\ exec[t].attempt \notin accepted[exec[t].key]
    BY <1>8 DEF SendsAfresh, Busy
  <2>2. ~(exec[t].key = exec[s].key /\ exec[t].attempt = exec[s].attempt)
    BY <1>0, <2>1 DEF AttemptsApart
  <2> QED BY <1>6, <1>7, <1>8, <2>1, <2>2
<1>13. SendersHold'
  BY <1>0, <1>6, <1>7, <1>8 DEF SendersHold, InHands
<1>14. AcceptedCloses'
  <2> SUFFICES ASSUME NEW k \in Keys, NEW a \in accepted'[k] \ interrupted'[k]
      PROVE  /\ delivery[k].attempt = a
             /\ \/ delivery[k].status \in {"ACCEPTED", "REMOVED"}
                \/ \E t \in Senders : Concludes(t, k, a)'
    BY <1>0 DEF AcceptedCloses
  <2>1. a \notin interrupted[k]
    BY <1>6
  <2>2. CASE a \in accepted[k]
    <3>1. /\ delivery[k].attempt = a
          /\ \/ delivery[k].status \in {"ACCEPTED", "REMOVED"}
             \/ \E t \in Senders : Concludes(t, k, a)
      BY <2>1, <2>2 DEF AcceptedCloses
    <3>2. ASSUME NEW t \in Senders, Concludes(t, k, a)  PROVE Concludes(t, k, a)'
      <4>1. CASE t # s
        BY <1>1, <3>2, <4>1 DEF Concludes
      <4>2. CASE t = s
        <5>1. Interrupted(s)
          BY <3>2, <4>2 DEF HeardStep, Concludes
        <5>2. a \in interrupted'[k]
          BY <1>2, <3>2, <4>2, <5>1 DEF Interrupted, Concludes, TypeOK
        <5> QED BY <5>2
      <4> QED BY <4>1, <4>2
    <3> QED BY <3>1, <3>2
  <2>3. CASE a \notin accepted[k]
    <3>1. k = exec[s].key /\ a = exec[s].attempt
      BY <1>6, <2>3
    <3>2. InHands(s, k, a)
      BY <1>0, <2>1, <3>1 DEF SendersHold
    <3>3. exec'[s].step = "accepted"
      <4>1. ~Interrupted(s)
        BY <1>2, <3>1 DEF Interrupted, TypeOK
      <4>2. accepted' # accepted
        BY <2>3
      <4> QED BY <4>1, <4>2 DEF HeardStep, Stepped
    <3> QED BY <1>1, <3>1, <3>2, <3>3 DEF InHands, Concludes
  <2> QED BY <2>2, <2>3
<1> QED BY <1>9, <1>10, <1>11, <1>12, <1>13, <1>14
(* A sender that ends without having recorded leaves the rest as it was. *)
LEMMA EndedKeeps ==
    ASSUME AttemptInv, NEW s \in Senders, EndedStep(s)
    PROVE  AttemptInv'
<1> USE DEF AttemptInv
<1>0. /\ Busy(s) /\ UNCHANGED accepted
      /\ exec' \in [Senders -> Memory] /\ exec'[s].step = "idle"
      /\ \A t \in Senders \ {s} : exec'[t] = exec[t]
  BY DEF EndedStep, Rested
<1>1. \A t \in Senders : /\ Busy(t) => exec[t].key \in Keys
                         /\ Busy(t)' => t # s /\ Busy(t) /\ exec'[t] = exec[t]
  BY <1>0 DEF TypeOK, Busy
<1>2. exec[s].attempt \in 1..delivery[exec[s].key].attempt /\ exec[s].key \in Keys
  BY <1>0, <1>1 DEF AttemptsKnown
<1>3. exec[s].attempt \in 1..MaxAttempts
  BY <1>2, PushAssumption DEF TypeOK, DeliveryRows, Memory
<1>4. /\ interrupted' \in [Keys -> SUBSET (1..MaxAttempts)]
      /\ \A k \in Keys : interrupted[k] \subseteq interrupted'[k]
  BY <1>2, <1>3 DEF EndedStep, TypeOK, Interrupted
<1>5. \A k \in Keys : QuietRow(k) \/ RecordedRow(s, k)
  BY DEF EndedStep, QuietRows, QuietRow
<1>6. \A k \in Keys : delivery'[k].attempt = delivery[k].attempt
  BY <1>5 DEF QuietRow, RecordedRow
<1>7. TypeOK'
  BY <1>0, <1>1, <1>4 DEF EndedStep, QuietRows, TypeOK, Busy
<1>8. RowsInOrder'
  <2>1. CASE QuietRows
    BY <2>1, QuietOrder
  <2>2. CASE notified' = notified /\ \A k \in Keys : RecordedRow(s, k)
    BY <2>2 DEF RowsInOrder, RecordedRow, Holds
  <2>3. CASE notified' = notified /\ delivery' = delivery
    BY <2>3 DEF RowsInOrder
  <2> QED BY <2>1, <2>2, <2>3 DEF EndedStep
<1>9. AttemptsKnown' /\ AttemptsApart' /\ AcceptedKnown' /\ SendsAfresh'
  BY <1>0, <1>1, <1>6 DEF AttemptsKnown, AttemptsApart, AcceptedKnown, SendsAfresh, Busy
<1>10. LockedAttempt'
  <2> SUFFICES ASSUME NEW t \in Senders, Holds(t)'
      PROVE  exec'[t].attempt = delivery'[exec'[t].key].attempt
    BY DEF LockedAttempt
  <2>1. Busy(t) /\ t # s /\ exec'[t] = exec[t] /\ exec[t].key \in Keys
    BY <1>1 DEF Holds, Busy
  <2>2. Holds(t)
    BY <1>5, <2>1 DEF Holds, Busy, QuietRow, RecordedRow
  <2> QED BY <1>6, <2>1, <2>2 DEF LockedAttempt
<1>11. SendersHold'
  <2> SUFFICES ASSUME NEW t \in Senders, Busy(t)', t # s, Busy(t), exec'[t] = exec[t],
                      exec[t].attempt \notin interrupted'[exec[t].key]
      PROVE  InHands(t, exec[t].key, exec[t].attempt)'
    BY <1>1 DEF SendersHold, InHands
  <2>1. exec[t].key \in Keys /\ InHands(t, exec[t].key, exec[t].attempt)
    BY <1>1, <1>4 DEF SendersHold
  <2>2. CASE QuietRow(exec[t].key)
    BY <2>1, <2>2, QuietInHands
  <2>3. CASE RecordedRow(s, exec[t].key)
    BY <2>1, <2>3 DEF RecordedRow, InHands, Holds
  <2> QED BY <1>5, <2>1, <2>2, <2>3
<1>12. AcceptedCloses'
  <2> SUFFICES ASSUME NEW k \in Keys, NEW a \in accepted[k] \ interrupted'[k]
      PROVE  \/ delivery'[k].status \in {"ACCEPTED", "REMOVED"}
             \/ \E t \in Senders : Concludes(t, k, a)'
    BY <1>0, <1>4, <1>6 DEF AcceptedCloses
  <2>1. /\ delivery[k].attempt = a
        /\ \/ delivery[k].status \in {"ACCEPTED", "REMOVED"}
           \/ \E t \in Senders : Concludes(t, k, a)
    BY <1>4 DEF AcceptedCloses
  <2>2. CASE delivery[k].status \in {"ACCEPTED", "REMOVED"}
    BY <1>5, <2>2 DEF QuietRow, RecordedRow, Stale, RowsInOrder, Holds
  <2>3. ASSUME NEW t \in Senders, t # s, Concludes(t, k, a)
        PROVE  Concludes(t, k, a)'
    BY <1>0, <2>3 DEF Concludes
  <2>4. CASE Concludes(s, k, a)
    <3>1. ~Interrupted(s)
      BY <1>2, <2>4 DEF Interrupted, Concludes, TypeOK
    <3>2. RecordedRow(s, k)
      BY <2>4, <3>1 DEF EndedStep, Concludes
    <3>3. InHands(s, k, a)
      BY <1>0, <1>4, <2>4 DEF SendersHold, Concludes
    <3>4. CASE delivery[k].status = "REMOVED"
      BY <3>2, <3>4 DEF RecordedRow, Holds
    <3>5. CASE Holds(s)
      BY <2>4, <3>2, <3>5 DEF RecordedRow, Concludes, EndedStep
    <3> QED BY <1>0, <2>4, <3>3, <3>4, <3>5 DEF InHands, Holds, Concludes, Busy
  <2> QED BY <2>1, <2>2, <2>3, <2>4
<1> QED BY <1>7, <1>8, <1>9, <1>10, <1>11, <1>12
LEMMA InvStep == AttemptInv /\ [Next]_vars => AttemptInv'
<1> SUFFICES ASSUME AttemptInv, [Next]_vars PROVE AttemptInv'
  OBVIOUS
<1>1. CASE UNCHANGED vars
  BY <1>1
  DEF vars, AttemptInv, TypeOK, RowsInOrder, AttemptsKnown, AttemptsApart, AcceptedKnown,
      SendsAfresh, LockedAttempt, SendersHold, AcceptedCloses, Busy, Holds, InHands, Concludes
<1>2. CASE Next
  <2>1. \/ QuietStep
        \/ \E s \in Senders, k \in Keys : ClaimDelivery(s, k)
        \/ \E s \in Senders : HeardStep(s) \/ EndedStep(s)
        \/ \E k \in Keys : LeaseExpires(k)
    BY <1>2, Kinds DEF AttemptInv
  <2> QED BY <2>1, QuietKeeps, ClaimKeeps, HeardKeeps, EndedKeeps, LeaseKeeps
<1> QED BY <1>1, <1>2

LEMMA Invariance == Spec => []AttemptInv
BY InitInv, InvStep, PTL DEF Spec

--------------------------------------------------------------------------------
(* Rows, memories and histories stay in their types, and no attempt exceeds  *)
(* maxAttempts.                                                             *)
THEOREM TypeCorrect == Spec => []TypeOK
<1>1. AttemptInv => TypeOK
  BY DEF AttemptInv
<1> QED BY Invariance, <1>1, PTL

(* However many dispatches run and whatever interrupts them, an attempt is  *)
(* one call of the push service.                                            *)
THEOREM AttemptsSendOnce == Spec => []EachAttemptSendsOnce
<1>1. AttemptInv => EachAttemptSendsOnce
  BY DEF AttemptInv, AttemptsApart, SendsAfresh, EachAttemptSendsOnce, Busy
<1> QED BY Invariance, <1>1, PTL

(* A notice reaches a device twice only after an interruption.               *)
THEOREM DuplicatesExplained == Spec => []DuplicatesAreExplained
<1>1. AttemptInv => DuplicatesAreExplained
  <2> SUFFICES ASSUME AttemptInv, NEW k \in Keys, NEW a \in accepted[k],
                      NEW b \in accepted[k], a < b
      PROVE  a \in interrupted[k]
    BY DEF DuplicatesAreExplained
  <2>1. /\ delivery[k].attempt \in Nat /\ a \in Nat
        /\ b \in 1..delivery[k].attempt
    BY PushAssumption DEF AttemptInv, TypeOK, AcceptedKnown, DeliveryRows
  <2>2. a # delivery[k].attempt
    BY <2>1
  <2> QED BY <2>2 DEF AttemptInv, AcceptedCloses
<1> QED BY Invariance, <1>1, PTL
================================================================================
