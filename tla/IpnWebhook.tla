----------------------------- MODULE IpnWebhook -----------------------------
(***************************************************************************)
(* Payment notifications (IPN) of the provider: a delivery claims its      *)
(* event, writes the payment and the subscription and marks the event;     *)
(* a failed one is recorded in the dead-letter queue and its claim         *)
(* released; an operator replays a dead letter through the same writes,    *)
(* under a lease of the dead letter but without claiming the event.        *)
(*                                                                         *)
(* An event is a payment id with a status: the unique key of ipn_events    *)
(* and of the dead letter.  Each database statement is one step.  Time     *)
(* appears as the expiry of a lease.                                       *)
(***************************************************************************)
EXTENDS Naturals, FiniteSets

CONSTANTS
  Payments,    \* the rows of payments: one per invoice of the provider
  Subscriptions,
  SubscriptionOf, \* the subscription each payment is for, if any
  Events,      \* notifications, each of one payment with one status
  PaymentOf,   \* the payment of each event
  Outcome,     \* what the status of each event says of the subscription
  Deliveries,  \* concurrent deliveries of the provider
  Replays,     \* concurrent replays by operators
  MaxSent,     \* bound: deliveries of one event
  None         \* no event, no token, no subscription

Outcomes == {"active", "past_due", "canceled", "none"}

ASSUME EventsAssumption ==
  /\ SubscriptionOf \in [Payments -> Subscriptions \cup {None}]
  /\ None \notin Subscriptions
  /\ PaymentOf \in [Events -> Payments]
  /\ Outcome \in [Events -> Outcomes]
  /\ Deliveries \cap Replays = {}
  /\ MaxSent \in Nat
  /\ None \notin Events
  /\ None \notin Replays

VARIABLES
  payment,       \* payment[p]: the event whose status and payload its row shows
  subscription,  \* subscription[s]: its status
  event,         \* event[e]: the row of ipn_events
  letter,        \* letter[e]: the row of billing_webhook_dlq
  run,           \* run[x]: the progress of a delivery or a replay
  sent,          \* sent[e]: deliveries of e so far
  acked,         \* history: events that were answered 200
  applied        \* history: applied[e]: when e reached its subscription, or had none to reach

vars == <<payment, subscription, event, letter, run, sent, acked, applied>>
books == <<payment, subscription, applied>>

Handlers == Deliveries \cup Replays

\* processing with processingAt older than 5 minutes is expired; released is
\* neither processed nor processing.
EventStatus == {"none", "processing", "expired", "processed", "released"}

\* overdue: replaying, started more than 10 minutes ago.
LetterStatus == {"none", "pending", "replaying", "overdue", "replayed"}
Letter == [status : LetterStatus, token : Replays \cup {None}]

\* conflicted: the insert met a row that may be claimed;  claimed, paid,
\* credited: processVerifiedIpnPayload, before its first, second and third
\* write;  marked: a replay that completes its letter next;  erred: the catch
\* block;  recorded: the letter is written, the claim is released next.
Phase == {"idle", "conflicted", "claimed", "paid", "credited", "marked", "erred",
          "recorded"}
Processing == Phase \ {"idle", "conflicted"}
Run == [event : Events \cup {None}, phase : Phase]
Idle == [event |-> None, phase |-> "idle"]

\* before, since: the last time a failure of the event was recorded.
Application == {"never", "before", "since"}

\* Types; only a letter under replay has a token.
TypeOK ==
  /\ payment \in [Payments -> Events \cup {None}]
  /\ subscription \in [Subscriptions -> Outcomes]
  /\ event \in [Events -> EventStatus]
  /\ letter \in [Events -> Letter]
  /\ \A e \in Events :
       letter[e].token = None <=> letter[e].status \notin {"replaying", "overdue"}
  /\ run \in [Handlers -> Run]
  /\ \A x \in Handlers : run[x].phase # "idle" => run[x].event \in Events
  /\ sent \in [Events -> 0 .. MaxSent]
  /\ acked \subseteq Events
  /\ applied \in [Events -> Application]

Init ==
  /\ payment = [p \in Payments |-> None]
  /\ subscription = [s \in Subscriptions |-> "active"]
  /\ event = [e \in Events |-> "none"]
  /\ letter = [e \in Events |-> [status |-> "none", token |-> None]]
  /\ run = [x \in Handlers |-> Idle]
  /\ sent = [e \in Events |-> 0]
  /\ acked = {}
  /\ applied = [e \in Events |-> "never"]

-----------------------------------------------------------------------------
(* The rows and their conditions.                                          *)

At(x, phase) == run[x].phase = phase
Goes(x, phase) == run' = [run EXCEPT ![x].phase = phase]
Starts(x, e, phase) == run' = [run EXCEPT ![x] = [event |-> e, phase |-> phase]]
Ends(x) == run' = [run EXCEPT ![x] = Idle]
Becomes(e, status) == event' = [event EXCEPT ![e] = status]
Acks(e) == acked' = acked \cup {e}

\* Any row that is not processed.
FaultyClaimable(e) == event[e] # "processed"

\* processed = false, and not processing or processing for too long.
Claimable(e) == event[e] \in {"expired", "released"}

LetterBecomes(e, status, token) ==
  letter' = [letter EXCEPT ![e] = [status |-> status, token |-> token]]

\* The status alone: any replay in course may finish the letter.
FaultyHoldsLetter(r) ==
  letter[run[r].event].status \in {"replaying", "overdue"}

\* WHERE status = 'replaying' AND replay_token = ...
HoldsLetter(r) ==
  LET l == letter[run[r].event] IN l.status \in {"replaying", "overdue"} /\ l.token = r

-----------------------------------------------------------------------------
(* POST /api/billing/webhook.                                              *)

\* claimIpnEvent up to its second statement: the INSERT, and if the row is there
\* the SELECT.  The conflict of the first holds for the second, for rows are
\* never deleted.
Receive(d, e) ==
  /\ At(d, "idle")
  /\ sent[e] < MaxSent
  /\ sent' = [sent EXCEPT ![e] = @ + 1]
  /\ \/ /\ event[e] = "none"
        /\ Becomes(e, "processing")
        /\ Starts(d, e, "claimed")
        /\ UNCHANGED acked
     \/ /\ Claimable(e)
        /\ Starts(d, e, "conflicted")
        /\ UNCHANGED <<event, acked>>
     \/ /\ event[e] \in {"processed", "processing"}
        /\ Acks(e)
        /\ UNCHANGED <<event, run>>
  /\ UNCHANGED <<books, letter>>

\* The conditional UPDATE of claimIpnEvent.
Reclaim(d) ==
  LET e == run[d].event IN
    /\ At(d, "conflicted")
    /\ IF Claimable(e)
       THEN Becomes(e, "processing") /\ Goes(d, "claimed") /\ UNCHANGED acked
       ELSE Acks(e) /\ Ends(d) /\ UNCHANGED event
    /\ UNCHANGED <<books, letter, sent>>

\* updatePaymentStatus.  A row that is not found is an error like any other.
WritePayment(x) ==
  LET e == run[x].event IN
    /\ At(x, "claimed")
    /\ payment' = [payment EXCEPT ![PaymentOf[e]] = e]
    /\ Goes(x, "paid")
    /\ UNCHANGED <<subscription, applied, event, letter, sent, acked>>

\* updateSubscriptionFromPayment; other statuses leave the subscription alone,
\* and a payment without a subscription has none to write.
WriteSubscription(x) ==
  LET e == run[x].event IN
    /\ At(x, "paid")
    /\ subscription' = [s \in Subscriptions |->
                          IF s = SubscriptionOf[PaymentOf[e]] /\ Outcome[e] # "none"
                          THEN Outcome[e] ELSE subscription[s]]
    /\ applied' = [applied EXCEPT ![e] = "since"]
    /\ Goes(x, "credited")
    /\ UNCHANGED <<payment, event, letter, sent, acked>>

\* The event is ticked off before the subscription is written.
FaultyMarkProcessed(x) ==
  LET e == run[x].event IN
    /\ At(x, "paid")
    /\ Becomes(e, "processed")
    /\ IF x \in Deliveries THEN Ends(x) /\ Acks(e)
                           ELSE Goes(x, "marked") /\ UNCHANGED acked
    /\ UNCHANGED <<books, letter, sent>>

\* markIpnProcessed, and the 200 of a delivery.
MarkProcessed(x) ==
  LET e == run[x].event IN
    /\ At(x, "credited")
    /\ Becomes(e, "processed")
    /\ IF x \in Deliveries THEN Ends(x) /\ Acks(e)
                           ELSE Goes(x, "marked") /\ UNCHANGED acked
    /\ UNCHANGED <<books, letter, sent>>

\* A statement of processVerifiedIpnPayload or of the completion of a letter
\* throws.  One that committed first is that step followed by an error, except
\* for markIpnProcessed.
ProcessErrs(x) ==
  /\ run[x].phase \in {"claimed", "paid", "credited", "marked"}
  /\ \/ UNCHANGED event
     \/ At(x, "credited") /\ Becomes(run[x].event, "processed")
  /\ Goes(x, "erred")
  /\ UNCHANGED <<books, letter, sent, acked>>

\* An upsert that leaves the token of a replay in course.
FaultyRecordFailure(d) ==
  LET e == run[d].event IN
    /\ d \in Deliveries
    /\ At(d, "erred")
    /\ LetterBecomes(e, "pending", letter[e].token)
    /\ applied' = [applied EXCEPT ![e] = IF @ = "since" THEN "before" ELSE @]
    /\ Goes(d, "recorded")
    /\ UNCHANGED <<payment, subscription, event, sent, acked>>

\* recordBillingWebhookFailure: an upsert that takes the letter from a replay.
RecordFailure(d) ==
  LET e == run[d].event IN
    /\ d \in Deliveries
    /\ At(d, "erred")
    /\ LetterBecomes(e, "pending", None)
    /\ applied' = [applied EXCEPT ![e] = IF @ = "since" THEN "before" ELSE @]
    /\ Goes(d, "recorded")
    /\ UNCHANGED <<payment, subscription, event, sent, acked>>

\* The claim is released before the failure is recorded.
HastyReleaseClaim(d) ==
  LET e == run[d].event IN
    /\ d \in Deliveries
    /\ At(d, "erred")
    /\ Becomes(e, "released")
    /\ Acks(e)
    /\ Ends(d)
    /\ UNCHANGED <<books, letter, sent>>

\* markIpnFailed, unconditional, and a 200.
ReleaseClaim(d) ==
  LET e == run[d].event IN
    /\ At(d, "recorded")
    /\ Becomes(e, "released")
    /\ Acks(e)
    /\ Ends(d)
    /\ UNCHANGED <<books, letter, sent>>

\* The process dies or a request times out; a 500 after an error of the claim,
\* of the record or of the release; an operator's request that fails to release.
Crash(x) ==
  /\ ~ At(x, "idle")
  /\ Ends(x)
  /\ UNCHANGED <<books, event, letter, sent, acked>>

-----------------------------------------------------------------------------
(* POST /api/admin/billing/dlq/:id/replay.                                 *)

\* A letter whose replay died is never replayed again.
DeadClaimLetter(r, e) ==
  /\ At(r, "idle")
  /\ letter[e].status = "pending"
  /\ LetterBecomes(e, "replaying", r)
  /\ Starts(r, e, "claimed")
  /\ UNCHANGED <<books, event, sent, acked>>

\* claimBillingWebhookReplay
ClaimLetter(r, e) ==
  /\ At(r, "idle")
  /\ letter[e].status \in {"pending", "overdue"}
  /\ LetterBecomes(e, "replaying", r)
  /\ Starts(r, e, "claimed")
  /\ UNCHANGED <<books, event, sent, acked>>

\* markBillingWebhookReplayed: throws when the lease was lost.
MarkReplayed(r) ==
  LET e == run[r].event IN
    /\ At(r, "marked")
    /\ IF HoldsLetter(r) THEN LetterBecomes(e, "replayed", None) /\ Ends(r)
                         ELSE Goes(r, "erred") /\ UNCHANGED letter
    /\ UNCHANGED <<books, event, sent, acked>>

\* releaseBillingWebhookReplay
ReleaseLetter(r) ==
  LET e == run[r].event IN
    /\ r \in Replays
    /\ At(r, "erred")
    /\ IF HoldsLetter(r) THEN LetterBecomes(e, "pending", None) ELSE UNCHANGED letter
    /\ Ends(r)
    /\ UNCHANGED <<books, event, sent, acked>>

-----------------------------------------------------------------------------
(* Leases.                                                                 *)

\* maxDuration stops a delivery after 30 seconds, long before its lease of 5
\* minutes runs out.
ClaimExpires(e) ==
  /\ event[e] = "processing"
  /\ \A d \in Deliveries : run[d].event = e => run[d].phase \notin Processing
  /\ Becomes(e, "expired")
  /\ UNCHANGED <<books, letter, run, sent, acked>>

\* A replay has no such limit in its route: its lease of 10 minutes may run out
\* under it.
LetterOverdue(e) ==
  /\ letter[e].status = "replaying"
  /\ LetterBecomes(e, "overdue", letter[e].token)
  /\ UNCHANGED <<books, event, run, sent, acked>>

-----------------------------------------------------------------------------
Process(x) == WritePayment(x) \/ WriteSubscription(x) \/ MarkProcessed(x) \/ ProcessErrs(x)
DeliveryStep(d) == Process(d) \/ Reclaim(d) \/ RecordFailure(d) \/ ReleaseClaim(d)
ReplayStep(r) == Process(r) \/ MarkReplayed(r) \/ ReleaseLetter(r)

Next ==
  \/ \E d \in Deliveries : DeliveryStep(d) \/ \E e \in Events : Receive(d, e)
  \/ \E r \in Replays : ReplayStep(r) \/ \E e \in Events : ClaimLetter(r, e)
  \/ \E x \in Handlers : Crash(x)
  \/ \E e \in Events : ClaimExpires(e) \/ LetterOverdue(e)

Spec == Init /\ [][Next]_vars

\* Operators come back to a letter until it is closed, also to one whose replay
\* died (the cron alert counts pending letters only), and the errors and crashes of
\* replays do not go on for ever.  Nothing is assumed of deliveries.
Fairness ==
  /\ \A e \in Events : /\ SF_vars(\E r \in Replays : ClaimLetter(r, e))
                       /\ WF_vars(LetterOverdue(e))
  /\ \A r \in Replays : WF_vars(ReplayStep(r))
  /\ SF_vars(\E r \in Replays : WritePayment(r))
  /\ SF_vars(\E r \in Replays : WriteSubscription(r))
  /\ SF_vars(\E r \in Replays : MarkProcessed(r))
  /\ SF_vars(\E r \in Replays : MarkReplayed(r))

\* A request of three updates ends within the lease of 10 minutes, from some
\* time on.
Timely ==
  <>[][\A e \in Events : LetterOverdue(e) => run[letter[e].token].event # e]_vars

FairSpec == Spec /\ Fairness /\ Timely

-----------------------------------------------------------------------------
\* An event that is done has reached the payment and the subscription, whichever
\* delivery or replay ticked it off (markIpnProcessed).
ProcessedIsApplied == \A e \in Events : event[e] = "processed" => applied[e] # "never"

\* A failed event whose claim was released is either open in the dead letters or
\* was applied by someone else meanwhile: the record comes before the release,
\* and no replay closes a letter it did not apply.
FailureRecoverable ==
  \A e \in Events :
    event[e] = "released" =>
      letter[e].status \in {"pending", "replaying", "overdue"} \/ applied[e] # "never"

\* A dead letter is closed only when its event was applied after its last
\* recorded failure: a replay in course, which knows nothing of a new failure,
\* cannot close it (markBillingWebhookReplayed).
ReplayedIsApplied ==
  \A e \in Events : letter[e].status = "replayed" => applied[e] = "since"

\* Two deliveries never process one event at once, whatever redeliveries, expired
\* claims and replays there are (claimIpnEvent).
OneDelivery ==
  \A d1, d2 \in Deliveries :
    /\ d1 # d2
    /\ run[d1].phase \in Processing
    /\ run[d2].phase \in Processing
    => run[d1].event # run[d2].event

\* Every recorded failure is resolved, although replays fail, crash and lose
\* their lease to a new failure.
FailureResolved ==
  \A e \in Events : letter[e].status = "pending" ~> letter[e].status = "replayed"

-----------------------------------------------------------------------------
(* What the documentation says and the code does not keep (README,         *)
(* Disagreements): these are not invariants.                               *)

\* "Failed webhook processing (after signature verification passes) must be
\* stored in a dead-letter table": an event answered 200, which the provider will
\* not send again, is done, in the dead letters or at work.
AcknowledgedIsKept ==
  \A e \in acked :
    \/ event[e] = "processed"
    \/ letter[e].status # "none"
    \/ \E d \in Deliveries : run[d].event = e

\* "processing the same event twice must not double-charge or double-credit": the
\* month of a payment is counted from its first application.
CreditedOnce ==
  [][\A x \in Handlers :
       WriteSubscription(x) /\ Outcome[run[x].event] = "active"
       => applied[run[x].event] = "never"]_vars
=============================================================================
