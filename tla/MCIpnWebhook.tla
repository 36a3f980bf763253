---------------------------- MODULE MCIpnWebhook ----------------------------
(* A payment that is reported finished, by overlapping deliveries and      *)
(* replays.  Events meet only in the payment and the subscription, which   *)
(* no condition of the code reads.                                         *)
EXTENDS IpnWebhook

CONSTANTS p1, s1

MCSubscriptionOf == [p \in Payments |-> s1]
MCPaymentOf == [e \in Events |-> p1]
MCOutcome == [e \in Events |-> "active"]
=============================================================================
