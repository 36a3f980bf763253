------------------------------ MODULE Checkout ------------------------------
(***************************************************************************)
(* POST /api/billing/checkout for one user: an idempotency key is claimed  *)
(* before the provider is asked for an invoice, the invoice is saved under *)
(* the claim, subscription and payment are written for it, and the attempt *)
(* is completed or failed.                                                 *)
(*                                                                         *)
(* Every claim draws a new token; as a request has one claim at a time,    *)
(* the request stands for its token.  The plan of a key is fixed: one used *)
(* again for another plan is refused without a change of state.  A         *)
(* statement that throws may have committed, and so may the provider's     *)
(* call.  Requests may die between any two steps.                          *)
(***************************************************************************)
EXTENDS Naturals

CONSTANTS
  Keys,        \* idempotency keys
  Requests,    \* requests that may be handled at a time
  None,
  MaxInvoices  \* bound on the invoices the provider creates

ASSUME CheckoutAssumption ==
  /\ MaxInvoices \in Nat
  /\ None \notin Requests /\ None \notin Nat

Invoices == 1 .. MaxInvoices

VARIABLES
  attempt,       \* attempt[k]: the row of billing_checkout_attempts
  subscription,  \* the invoice of the user's subscription row
  payments,      \* invoices with a row in payments
  req,           \* req[q]: where a request is
  created,       \* invoices the provider has created
  subscribed,    \* history: invoices the subscription was ever written for
  outlived       \* history: requests whose lease ran out while they worked

rows == <<attempt, subscription, payments>>
vars == <<rows, req, created, subscribed, outlived>>

\* lease: what processing_at says to a retry of a provider_created attempt.
Attempt == [status : {"none", "pending", "provider_created", "completed", "failed"},
            invoice : Invoices \cup {None},
            token : Requests \cup {None},
            lease : {"free", "held", "over"}]
NoAttempt == [status |-> "none", invoice |-> None, token |-> None, lease |-> "free"]

\* The step a request will take next.
Bookkeeping == {"select", "update", "insert", "pay", "complete"}
Phase == {"idle", "read", "resume", "reclaim", "invoice", "save", "fail"} \cup Bookkeeping
Request == [phase : Phase, key : Keys, invoice : Invoices \cup {None}]

At(q, phase) == req[q].phase = phase
Of(q) == attempt[req[q].key]
Holds(q) == Of(q).token = q
WorksOn(q, k) == req[q].phase \in Bookkeeping /\ req[q].key = k

TypeOK ==
  /\ attempt \in [Keys -> Attempt]
  /\ \A k \in Keys :
       /\ attempt[k].status \in {"provider_created", "completed"} => attempt[k].invoice # None
       /\ attempt[k].status \in {"none", "completed", "failed"}
            => attempt[k].token = None /\ attempt[k].lease = "free"
  /\ subscription \in Invoices \cup {None}
  /\ payments \subseteq Invoices
  /\ req \in [Requests -> Request]
  /\ \A q \in Requests : req[q].phase \in Bookkeeping => req[q].invoice # None
  /\ created \in 0 .. MaxInvoices
  /\ subscribed \subseteq Invoices
  /\ outlived \subseteq Requests

Init ==
  /\ attempt = [k \in Keys |-> NoAttempt]
  /\ subscription = None
  /\ payments = {}
  /\ \E k \in Keys : req = [q \in Requests |-> [phase |-> "idle", key |-> k, invoice |-> None]]
  /\ created = 0
  /\ subscribed = {}
  /\ outlived = {}

Goes(q, phase) == req' = [req EXCEPT ![q].phase = phase]
GoesWith(q, phase, invoice) ==
  req' = [req EXCEPT ![q].phase = phase, ![q].invoice = invoice]
Ends(q) ==
  /\ req' = [req EXCEPT ![q].phase = "idle", ![q].invoice = None]
  /\ outlived' = outlived \ {q}

-----------------------------------------------------------------------------
(* claimCheckoutAttempt.                                                   *)

\* The insert, which does nothing on conflict.
Claim(q, k) ==
  /\ At(q, "idle")
  /\ \/ /\ attempt[k].status = "none"
        /\ attempt' = [attempt EXCEPT ![k] =
                         [@ EXCEPT !.status = "pending", !.token = q, !.lease = "held"]]
        /\ req' = [req EXCEPT ![q] = [phase |-> "invoice", key |-> k, invoice |-> None]]
     \/ /\ attempt[k].status # "none"
        /\ req' = [req EXCEPT ![q] = [phase |-> "read", key |-> k, invoice |-> None]]
        /\ UNCHANGED attempt
  /\ UNCHANGED <<subscription, payments, created, subscribed, outlived>>

\* The row that was there: a completed one is the answer, and one in progress
\* is refused.
Read(q) ==
  /\ At(q, "read")
  /\ \/ Of(q).status = "provider_created" /\ Goes(q, "resume") /\ UNCHANGED outlived
     \/ Of(q).status = "failed" /\ Goes(q, "reclaim") /\ UNCHANGED outlived
     \/ Of(q).status \in {"pending", "completed"} /\ Ends(q)
  /\ UNCHANGED <<rows, created, subscribed>>

\* The lease is not looked at.
FaultyResumable(q) == Of(q).status = "provider_created"

\* A lease that ran out is still a lease.
DeadResumable(q) == Of(q).status = "provider_created" /\ Of(q).lease = "free"

Resumable(q) == Of(q).status = "provider_created" /\ Of(q).lease # "held"

Resume(q) ==
  /\ At(q, "resume")
  /\ \/ /\ Resumable(q)
        /\ attempt' = [attempt EXCEPT ![req[q].key] = [@ EXCEPT !.token = q, !.lease = "held"]]
        /\ GoesWith(q, "select", Of(q).invoice)
        /\ UNCHANGED outlived
     \/ /\ ~ Resumable(q)
        /\ Ends(q)
        /\ UNCHANGED attempt
  /\ UNCHANGED <<subscription, payments, created, subscribed>>

\* A failed attempt is pending again, with the invoice it may have saved.
Reclaim(q) ==
  /\ At(q, "reclaim")
  /\ \/ /\ Of(q).status = "failed"
        /\ attempt' = [attempt EXCEPT ![req[q].key] =
                         [@ EXCEPT !.status = "pending", !.token = q, !.lease = "held"]]
        /\ GoesWith(q, IF Of(q).invoice = None THEN "invoice" ELSE "select", Of(q).invoice)
        /\ UNCHANGED outlived
     \/ /\ Of(q).status # "failed"
        /\ Ends(q)
        /\ UNCHANGED attempt
  /\ UNCHANGED <<subscription, payments, created, subscribed>>

-----------------------------------------------------------------------------
(* The provider's invoice.                                                 *)

CreateInvoice(q) ==
  /\ At(q, "invoice")
  /\ created < MaxInvoices
  /\ created' = created + 1
  /\ GoesWith(q, "save", created')
  /\ UNCHANGED <<rows, subscribed, outlived>>

\* The call throws; the provider may have created an invoice nobody knows of.
CreateErrs(q) ==
  /\ At(q, "invoice")
  /\ created' \in {created} \cup (Invoices \cap {created + 1})
  /\ Goes(q, "fail")
  /\ UNCHANGED <<rows, subscribed, outlived>>

Saved(q) ==
  [attempt EXCEPT ![req[q].key] =
     [@ EXCEPT !.status = "provider_created", !.invoice = req[q].invoice, !.lease = "held"]]

Save(q) ==
  /\ At(q, "save")
  /\ \/ Holds(q) /\ attempt' = Saved(q) /\ Goes(q, "select")
     \/ ~ Holds(q) /\ Goes(q, "fail") /\ UNCHANGED attempt
  /\ UNCHANGED <<subscription, payments, created, subscribed, outlived>>

SaveErrs(q) ==
  /\ At(q, "save")
  /\ attempt' \in {attempt} \cup (IF Holds(q) THEN {Saved(q)} ELSE {})
  /\ Goes(q, "fail")
  /\ UNCHANGED <<subscription, payments, created, subscribed, outlived>>

-----------------------------------------------------------------------------
(* upsertSubscription, createPayment.                                      *)

Select(q) ==
  /\ At(q, "select")
  /\ Goes(q, IF subscription = None THEN "insert" ELSE "update")
  /\ UNCHANGED <<rows, created, subscribed, outlived>>

Subscribes(q) ==
  /\ subscription' = req[q].invoice
  /\ subscribed' = subscribed \cup {req[q].invoice}

Update(q) ==
  /\ At(q, "update")
  /\ Subscribes(q)
  /\ Goes(q, "pay")
  /\ UNCHANGED <<attempt, payments, created, outlived>>

\* One subscription of a tenant is active, and checkouts write no other: a second
\* insert violates the index.
Insert(q) ==
  /\ At(q, "insert")
  /\ \/ subscription = None /\ Subscribes(q) /\ Goes(q, "pay")
     \/ subscription # None /\ Goes(q, "fail") /\ UNCHANGED <<subscription, subscribed>>
  /\ UNCHANGED <<attempt, payments, created, outlived>>

SubscribeErrs(q) ==
  /\ req[q].phase \in {"select", "update", "insert"}
  /\ \/ UNCHANGED <<subscription, subscribed>>
     \/ At(q, "update") /\ Subscribes(q)
     \/ At(q, "insert") /\ subscription = None /\ Subscribes(q)
  /\ Goes(q, "fail")
  /\ UNCHANGED <<attempt, payments, created, outlived>>

Pay(q) ==
  /\ At(q, "pay")
  /\ payments' = payments \cup {req[q].invoice}
  /\ Goes(q, "complete")
  /\ UNCHANGED <<attempt, subscription, created, subscribed, outlived>>

\* The error is swallowed, as a recovered invoice should have its payment.
FaultyPayErrs(q) ==
  /\ At(q, "pay")
  /\ payments' \in {payments, payments \cup {req[q].invoice}}
  /\ Goes(q, "complete")
  /\ UNCHANGED <<attempt, subscription, created, subscribed, outlived>>

PayErrs(q) ==
  /\ At(q, "pay")
  /\ payments' \in {payments, payments \cup {req[q].invoice}}
  /\ Goes(q, "fail")
  /\ UNCHANGED <<attempt, subscription, created, subscribed, outlived>>

-----------------------------------------------------------------------------
(* completeCheckoutAttempt and failCheckoutAttempt: both let go of the     *)
(* claim, if it is still the request's.                                    *)

\* The token stays.
FaultyLetGo(q, status) ==
  [attempt EXCEPT ![req[q].key] = [@ EXCEPT !.status = status, !.lease = "free"]]

LetGo(q, status) ==
  [attempt EXCEPT ![req[q].key] =
     [@ EXCEPT !.status = status, !.token = None, !.lease = "free"]]

Complete(q) ==
  /\ At(q, "complete")
  /\ \/ Holds(q) /\ attempt' = LetGo(q, "completed") /\ Ends(q)
     \/ ~ Holds(q) /\ Goes(q, "fail") /\ UNCHANGED <<attempt, outlived>>
  /\ UNCHANGED <<subscription, payments, created, subscribed>>

CompleteErrs(q) ==
  /\ At(q, "complete")
  /\ attempt' \in {attempt} \cup (IF Holds(q) THEN {LetGo(q, "completed")} ELSE {})
  /\ Goes(q, "fail")
  /\ UNCHANGED <<subscription, payments, created, subscribed, outlived>>

\* The request answers with an error, whether or not it still had the claim.
Fail(q) ==
  /\ At(q, "fail")
  /\ attempt' = IF Holds(q) THEN LetGo(q, "failed") ELSE attempt
  /\ Ends(q)
  /\ UNCHANGED <<subscription, payments, created, subscribed>>

\* The process dies, or the statement of the catch block fails.
Dies(q) ==
  /\ ~ At(q, "idle")
  /\ Ends(q)
  /\ UNCHANGED <<rows, created, subscribed>>

\* Ten minutes after the lease was taken, whether or not its request still works.
LeaseExpires(k) ==
  /\ attempt[k].status = "provider_created"
  /\ attempt[k].lease = "held"
  /\ attempt' = [attempt EXCEPT ![k].lease = "over"]
  /\ outlived' = outlived \cup {q \in Requests : q = attempt[k].token /\ WorksOn(q, k)}
  /\ UNCHANGED <<subscription, payments, req, created, subscribed>>

-----------------------------------------------------------------------------
RequestStep(q) ==
  \/ \E k \in Keys : Claim(q, k)
  \/ Read(q) \/ Resume(q) \/ Reclaim(q)
  \/ CreateInvoice(q) \/ CreateErrs(q) \/ Save(q) \/ SaveErrs(q)
  \/ Select(q) \/ Update(q) \/ Insert(q) \/ SubscribeErrs(q) \/ Pay(q) \/ PayErrs(q)
  \/ Complete(q) \/ CompleteErrs(q) \/ Fail(q) \/ Dies(q)

Next ==
  \/ \E q \in Requests : RequestStep(q)
  \/ \E k \in Keys : LeaseExpires(k)

Spec == Init /\ [][Next]_vars

\* A client retries its key until it has an answer; a request does not stop for
\* ever, one that goes on for ever does what it is about to do, and its errors,
\* deaths and outlived leases come to an end.
ForKey(k, A(_)) == \E q \in Requests : req[q].key = k /\ A(q)

Fairness ==
  /\ <>[](outlived = {})
  /\ \A q \in Requests : WF_vars(RequestStep(q))
  /\ \A k \in Keys :
       /\ SF_vars(\E q \in Requests : Claim(q, k))
       /\ SF_vars(ForKey(k, Read))
       /\ SF_vars(ForKey(k, Resume))
       /\ SF_vars(ForKey(k, Reclaim))
       /\ SF_vars(ForKey(k, Select))
       /\ SF_vars(ForKey(k, LAMBDA q : Update(q) \/ Insert(q)))
       /\ SF_vars(ForKey(k, Pay))
       /\ SF_vars(ForKey(k, Complete))
       /\ WF_vars(LeaseExpires(k))

FairSpec == Spec /\ Fairness

-----------------------------------------------------------------------------
(* Properties.                                                             *)

\* A checkout reported as completed has its books in order: the subscription was
\* written for its invoice and a payment row waits for the provider's events,
\* whatever requests shared the work and failed on the way.
CompletedIsBooked ==
  \A k \in Keys : attempt[k].status = "completed" =>
    attempt[k].invoice \in payments \cap subscribed

\* "A concurrent retry cannot complete that bookkeeping twice": two requests write
\* for one key at once only if the lease of one ran out under it
\* (claimCheckoutAttempt).
OneBookkeeper ==
  \A q, r \in Requests, k \in Keys :
    q # r /\ WorksOn(q, k) /\ WorksOn(r, k) => q \in outlived \/ r \in outlived

\* A claim whose request is gone before an invoice was saved under it.
Wedged(k) ==
  /\ attempt[k].status = "pending"
  /\ \A q \in Requests : At(q, "idle") \/ req[q].key # k \/ attempt[k].token # q

\* A saved invoice is not forgotten: while its client retries, the attempt is
\* completed in the end, or a request dies on a reclaimed one, which nothing
\* reclaims again (claimCheckoutAttempt).
RetryCompletes ==
  \A k \in Keys :
    attempt[k].invoice # None ~> (attempt[k].status = "completed" \/ Wedged(k))

=============================================================================
