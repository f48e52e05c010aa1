------------------------------ MODULE PushDelivery ------------------------------
(***************************************************************************)
(* Web push: src/src/server/push/delivery-service.ts.  An audit that ends   *)
(* SUSPICIOUS leaves one delivery for every device subscribed by then; any  *)
(* number of dispatches claim deliveries, call the push service and record  *)
(* what it answered, in separate steps.                                     *)
(*                                                                          *)
(* A sender is one call of sendClaimedDelivery.  Its lock is the random id  *)
(* of its dispatch, which tries a delivery once: together with the          *)
(* delivery's id, which every fence compares too, it names the sender.      *)
(***************************************************************************)
EXTENDS Naturals

CONSTANTS
    Notices,       \* notifications of one reviewer
    Devices,       \* subscriptions of that reviewer, each a row of its own
    Senders,       \* calls of sendClaimedDelivery alive at once
    NoSender,      \* lockedBy = null
    MaxAttempts,   \* maxAttempts, 4 by the schema
    Faults         \* which faults the run admits

ASSUME PushAssumption ==
    /\ NoSender \notin Senders
    /\ MaxAttempts \in Nat \ {0}
    /\ Faults \subseteq {"crash", "lease_loss", "db_error", "timeout"}

VARIABLES
    subscription,  \* the push_subscriptions rows
    notified,      \* the notices created so far
    delivery,      \* the push_deliveries rows
    exec,          \* what each sender has in memory
    accepted,      \* history: the attempts the push service accepted
    interrupted    \* history: the attempts whose outcome was not heard or not kept

vars == <<subscription, notified, delivery, exec, accepted, interrupted>>

Keys == Notices \X Devices
DeviceOf(k) == k[2]
Waiting == {"PENDING", "FAILED"}

(* NONE: not created; REMOVED: deleted with its subscription. *)
Statuses == {"NONE", "PENDING", "SENDING", "ACCEPTED", "FAILED", "CANCELLED", "REMOVED"}
DeliveryRows ==
    [status : Statuses,
     attempt : 0..MaxAttempts, lockedBy : Senders \cup {NoSender},
     due : BOOLEAN,                    \* availableAt has come
     stale : BOOLEAN]                  \* lockedAt is older than two minutes
NoKey == <<>>
Steps == {"idle", "send", "accepted", "retry", "refused", "gone"}
Memory == [step : Steps, key : Keys \cup {NoKey}, attempt : 0..MaxAttempts]

TypeOK ==
    /\ subscription \in [Devices -> {"none", "active", "expired", "removed"}]
    /\ notified \in SUBSET Notices
    /\ delivery \in [Keys -> DeliveryRows]
    /\ exec \in [Senders -> Memory]
    /\ \A s \in Senders : exec[s].step # "idle" => exec[s].key \in Keys
    /\ accepted \in [Keys -> SUBSET (1..MaxAttempts)]
    /\ interrupted \in [Keys -> SUBSET (1..MaxAttempts)]

Idle == [step |-> "idle", key |-> NoKey, attempt |-> 0]
Init ==
    /\ subscription \in [Devices -> {"none", "active"}]
    /\ notified = {}
    /\ delivery = [k \in Keys |-> [status |-> "NONE", attempt |-> 0, lockedBy |-> NoSender,
                                   due |-> TRUE, stale |-> FALSE]]
    /\ exec = [s \in Senders |-> Idle]
    /\ accepted = [k \in Keys |-> {}]
    /\ interrupted = [k \in Keys |-> {}]

--------------------------------------------------------------------------------
HoldsAny(s) ==                                 \* mutant: lockedBy is not compared
    exec[s].step # "idle" /\ delivery[exec[s].key].status = "SENDING"
(* The fence of what a sender records. *)
Holds(s) ==
    /\ exec[s].step # "idle"
    /\ delivery[exec[s].key].status = "SENDING"
    /\ delivery[exec[s].key].lockedBy = s

AttemptsLeftInclusive(r) == r.attempt <= MaxAttempts   \* mutant: one too many
AttemptsLeft(r) == r.attempt < MaxAttempts

ClaimedUncounted(r, s) ==                      \* mutant: the attempt is not counted
    [r EXCEPT !.status = "SENDING", !.lockedBy = s, !.stale = FALSE]
ClaimedRow(r, s) ==
    [r EXCEPT !.status = "SENDING", !.attempt = @ + 1, !.lockedBy = s, !.stale = FALSE]

Released(r, status, due) ==
    [r EXCEPT !.status = status, !.lockedBy = NoSender, !.due = due, !.stale = FALSE]

Interrupt(k, a) == interrupted' = [interrupted EXCEPT ![k] = @ \cup {a}]

(* A subscription is deleted, and its deliveries with it. *)
RemoveSubscription(d) ==
    /\ subscription' = [subscription EXCEPT ![d] = "removed"]
    /\ delivery' = [k \in Keys |->
                      IF DeviceOf(k) = d /\ delivery[k].status # "NONE"
                      THEN Released(delivery[k], "REMOVED", delivery[k].due) ELSE delivery[k]]

--------------------------------------------------------------------------------
(* Subscriptions and notices.                                               *)

(* A device subscribes, or renews what it has by the same endpoint. *)
Subscribe(d) ==
    /\ subscription[d] \in {"none", "expired"}
    /\ subscription' = [subscription EXCEPT ![d] = "active"]
    /\ UNCHANGED <<notified, delivery, exec, accepted, interrupted>>

Unsubscribe(d) ==
    /\ subscription[d] \in {"active", "expired"}
    /\ RemoveSubscription(d)
    /\ UNCHANGED <<notified, exec, accepted, interrupted>>

SubscriptionExpires(d) ==
    /\ subscription[d] = "active"
    /\ subscription' = [subscription EXCEPT ![d] = "expired"]
    /\ UNCHANGED <<notified, delivery, exec, accepted, interrupted>>

(* createNotificationWithPushDeliveries, in the transaction of the audit. *)
CreateNotification(n) ==
    /\ n \notin notified
    /\ notified' = notified \cup {n}
    /\ delivery' = [k \in Keys |->
                      IF k[1] = n /\ subscription[DeviceOf(k)] = "active"
                      THEN [delivery[k] EXCEPT !.status = "PENDING"] ELSE delivery[k]]
    /\ UNCHANGED <<subscription, exec, accepted, interrupted>>

--------------------------------------------------------------------------------
(* A dispatch sweeps old leases, then claims and sends what is due.          *)

Claimable(k) ==
    delivery[k].status \in Waiting /\ delivery[k].due /\ AttemptsLeft(delivery[k])

ClaimDelivery(s, k) ==
    /\ exec[s].step = "idle"
    /\ Claimable(k)
    /\ subscription[DeviceOf(k)] = "active"
    /\ delivery' = [delivery EXCEPT ![k] = ClaimedRow(@, s)]
    /\ exec' = [exec EXCEPT ![s] = [step |-> "send", key |-> k,
                                    attempt |-> ClaimedRow(delivery[k], s).attempt]]
    /\ UNCHANGED <<subscription, notified, accepted, interrupted>>

(* The claim deletes a subscription whose time has passed. *)
ClaimFindsExpired(k) ==
    /\ Claimable(k)
    /\ subscription[DeviceOf(k)] = "expired"
    /\ RemoveSubscription(DeviceOf(k))
    /\ UNCHANGED <<notified, exec, accepted, interrupted>>

(* The push service takes the notice; with a timeout nobody hears that it did. *)
PushAccepted(s) ==
    LET k == exec[s].key
    IN  /\ exec[s].step = "send"
        /\ accepted' = [accepted EXCEPT ![k] = @ \cup {exec[s].attempt}]
        /\ \/ /\ exec' = [exec EXCEPT ![s].step = "accepted"]
              /\ UNCHANGED interrupted
           \/ /\ "timeout" \in Faults
              /\ exec' = [exec EXCEPT ![s].step = "retry"]
              /\ Interrupt(k, exec[s].attempt)
        /\ UNCHANGED <<subscription, notified, delivery>>

(* It does not: unavailable, refused, or unknown to it (classifyPushSendFailure). *)
PushFails(s) ==
    /\ exec[s].step = "send"
    /\ \E step \in {"retry", "refused", "gone"} : exec' = [exec EXCEPT ![s].step = step]
    /\ UNCHANGED <<subscription, notified, delivery, accepted, interrupted>>

RecordAccepted(s) ==
    LET k == exec[s].key
    IN  /\ exec[s].step = "accepted"
        /\ delivery' = IF Holds(s)
                       THEN [delivery EXCEPT ![k] = Released(@, "ACCEPTED", delivery[k].due)]
                       ELSE delivery
        /\ exec' = [exec EXCEPT ![s] = Idle]
        /\ UNCHANGED <<subscription, notified, accepted, interrupted>>

(* The update fails inside the try: the catch takes it for a network error. *)
RecordAcceptedFails(s) ==
    /\ "db_error" \in Faults
    /\ exec[s].step = "accepted"
    /\ exec' = [exec EXCEPT ![s].step = "retry"]
    /\ Interrupt(exec[s].key, exec[s].attempt)
    /\ UNCHANGED <<subscription, notified, delivery, accepted>>

RecordFailure(s) ==
    LET k     == exec[s].key
        again == exec[s].step = "retry" /\ exec[s].attempt < MaxAttempts
    IN  /\ exec[s].step \in {"retry", "refused"}
        /\ delivery' = IF Holds(s)
                       THEN [delivery EXCEPT ![k] =
                               Released(@, IF again THEN "FAILED" ELSE "CANCELLED", ~again)]
                       ELSE delivery
        /\ exec' = [exec EXCEPT ![s] = Idle]
        /\ UNCHANGED <<subscription, notified, accepted, interrupted>>

(* 404 and 410: the subscription is deleted, whoever holds the delivery. *)
DropSubscription(s) ==
    /\ exec[s].step = "gone"
    /\ RemoveSubscription(DeviceOf(exec[s].key))
    /\ exec' = [exec EXCEPT ![s] = Idle]
    /\ UNCHANGED <<notified, accepted, interrupted>>

(* The process dies, or a statement outside the try fails: the lock stays. *)
Crash(s) ==
    /\ "crash" \in Faults
    /\ exec[s].step # "idle"
    /\ exec' = [exec EXCEPT ![s] = Idle]
    /\ Interrupt(exec[s].key, exec[s].attempt)
    /\ UNCHANGED <<subscription, notified, delivery, accepted>>

--------------------------------------------------------------------------------
(* Time, and the sweep at the start of a dispatch.                          *)

BackoffEnds(k) ==
    /\ delivery[k].status = "FAILED" /\ ~delivery[k].due
    /\ delivery' = [delivery EXCEPT ![k].due = TRUE]
    /\ UNCHANGED <<subscription, notified, exec, accepted, interrupted>>

(* Two minutes pass: the push service is given ten seconds, so that the      *)
(* sender died, or (lease_loss) was frozen.                                 *)
LeaseExpires(k) ==
    /\ delivery[k].status = "SENDING" /\ ~delivery[k].stale
    /\ delivery' = [delivery EXCEPT ![k].stale = TRUE]
    /\ \/ /\ \A s \in Senders : ~(Holds(s) /\ exec[s].key = k)
          /\ UNCHANGED interrupted
       \/ /\ "lease_loss" \in Faults
          /\ Interrupt(k, delivery[k].attempt)
    /\ UNCHANGED <<subscription, notified, exec, accepted>>

Stale(k) == delivery[k].status = "SENDING" /\ delivery[k].stale

ReturnStaleDeliveries ==
    /\ \E k \in Keys : Stale(k) /\ AttemptsLeft(delivery[k])
    /\ delivery' = [k \in Keys |-> IF Stale(k) /\ AttemptsLeft(delivery[k])
                                   THEN Released(delivery[k], "FAILED", TRUE) ELSE delivery[k]]
    /\ UNCHANGED <<subscription, notified, exec, accepted, interrupted>>

CancelNothing == FALSE /\ UNCHANGED vars       \* mutant: spent deliveries stay SENDING
CancelSpentDeliveries ==
    /\ \E k \in Keys : Stale(k) /\ ~AttemptsLeft(delivery[k])
    /\ delivery' = [k \in Keys |-> IF Stale(k) /\ ~AttemptsLeft(delivery[k])
                                   THEN Released(delivery[k], "CANCELLED", delivery[k].due)
                                   ELSE delivery[k]]
    /\ UNCHANGED <<subscription, notified, exec, accepted, interrupted>>

--------------------------------------------------------------------------------
Advance(s) ==
    \/ PushAccepted(s) \/ PushFails(s)
    \/ RecordAccepted(s) \/ RecordFailure(s) \/ DropSubscription(s)

Next ==
    \/ \E d \in Devices : Subscribe(d) \/ Unsubscribe(d) \/ SubscriptionExpires(d)
    \/ \E n \in Notices : CreateNotification(n)
    \/ \E s \in Senders :
         \/ \E k \in Keys : ClaimDelivery(s, k)
         \/ Advance(s) \/ RecordAcceptedFails(s) \/ Crash(s)
    \/ \E k \in Keys : ClaimFindsExpired(k) \/ BackoffEnds(k) \/ LeaseExpires(k)
    \/ ReturnStaleDeliveries \/ CancelSpentDeliveries

Spec == Init /\ [][Next]_vars

(* Both worker routes dispatch every time they are called, oldest due        *)
(* delivery first, after the sweep (docs/pwa-notifications.md).              *)
FairSpec ==
    /\ Spec
    /\ \A s \in Senders : WF_vars(Advance(s))
    /\ \A k \in Keys : /\ WF_vars(ClaimFindsExpired(k) \/ \E s \in Senders : ClaimDelivery(s, k))
                       /\ WF_vars(BackoffEnds(k)) /\ WF_vars(LeaseExpires(k))
    /\ WF_vars(ReturnStaleDeliveries) /\ WF_vars(CancelSpentDeliveries)

--------------------------------------------------------------------------------
(* Properties.                                                              *)

(* One attempt of a delivery is one call of the push service: it belongs to *)
(* one sender, which has not been answered yet when it calls                *)
(* (delivery-service.ts:122-140).                                           *)
EachAttemptSendsOnce ==
    \A s, t \in Senders :
      exec[s].step # "idle" /\ exec[t].step # "idle" /\ exec[s].key = exec[t].key
      => /\ exec[s].attempt = exec[t].attempt => s = t
         /\ exec[s].step = "send" => exec[s].attempt \notin accepted[exec[s].key]

(* A device is sent a notice twice only after an interruption: of all the    *)
(* attempts the push service accepted, each but the last lost its answer, its*)
(* lease, its process or its record (docs/pwa-notifications.md:8, "um envio  *)
(* por aparelho").                                                          *)
DuplicatesAreExplained ==
    \A k \in Keys : \A a, b \in accepted[k] : a < b => a \in interrupted[k]

(* Every delivery comes to an end, whichever senders die on the way          *)
(* (delivery-service.ts:234-264).                                            *)
DeliveriesSettle ==
    \A k \in Keys : delivery[k].status \in Waiting \cup {"SENDING"}
                    ~> delivery[k].status \in {"ACCEPTED", "CANCELLED", "REMOVED"}
================================================================================
