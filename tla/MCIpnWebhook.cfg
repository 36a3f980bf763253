CONSTANTS
  p1 = p1
  s1 = s1
  None = None
  Payments = {p1}
  Subscriptions = {s1}
  SubscriptionOf <- MCSubscriptionOf
  Events = {finished}
  PaymentOf <- MCPaymentOf
  Outcome <- MCOutcome
  Deliveries = {d1, d2}
  Replays = {r1, r2}
  MaxSent = 3
SPECIFICATION FairSpec
INVARIANTS TypeOK ProcessedIsApplied FailureRecoverable ReplayedIsApplied OneDelivery
PROPERTIES FailureResolved
CHECK_DEADLOCK FALSE
