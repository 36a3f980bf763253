-------------------------- MODULE IpnWebhookProofs --------------------------
(* Safety of the payment webhook and its dead letters, for any payments,    *)
(* events, deliveries and replays.                                          *)
EXTENDS IpnWebhook, TLAPS

-----------------------------------------------------------------------------
(* How a step changes the table of runs.                                    *)

LEMMA GoesRun ==
  ASSUME TypeOK, NEW x \in Handlers, NEW phase \in Phase, Goes(x, phase),
         ~ At(x, "idle")
  PROVE  /\ run' \in [Handlers -> Run]
         /\ run'[x].event = run[x].event
         /\ run'[x].phase = phase
         /\ run[x].event \in Events
         /\ \A y \in Handlers : y # x => run'[y] = run[y]
         /\ \A y \in Handlers : run'[y].phase # "idle" => run'[y].event \in Events
BY DEF TypeOK, Goes, Run, At

LEMMA StartsRun ==
  ASSUME TypeOK, NEW x \in Handlers, NEW e \in Events, NEW phase \in Phase,
         Starts(x, e, phase)
  PROVE  /\ run' \in [Handlers -> Run]
         /\ run'[x].event = e
         /\ run'[x].phase = phase
         /\ \A y \in Handlers : y # x => run'[y] = run[y]
         /\ \A y \in Handlers : run'[y].phase # "idle" => run'[y].event \in Events
BY DEF TypeOK, Starts, Run

LEMMA EndsRun ==
  ASSUME TypeOK, NEW x \in Handlers, Ends(x)
  PROVE  /\ run' \in [Handlers -> Run]
         /\ run'[x].phase = "idle"
         /\ \A y \in Handlers : y # x => run'[y] = run[y]
         /\ \A y \in Handlers : run'[y].phase # "idle" => run'[y].event \in Events
BY DEF TypeOK, Ends, Idle, Run, Phase

-----------------------------------------------------------------------------
(* Types.                                                                   *)

LEMMA ClosesLetter ==
  ASSUME TypeOK, NEW e \in Events, NEW status \in {"pending", "replayed"},
         letter' = [letter EXCEPT ![e] = [status |-> status, token |-> None]]
  PROVE  /\ letter' \in [Events -> Letter]
         /\ \A f \in Events :
              letter'[f].token = None <=> letter'[f].status \notin {"replaying", "overdue"}
BY DEF TypeOK, Letter, LetterStatus

LEMMA TypeInit == Init => TypeOK
BY EventsAssumption
DEF Init, TypeOK, EventStatus, Letter, LetterStatus, Run, Idle, Phase, Application, Outcomes

LEMMA TypeNext == TypeOK /\ [Next]_vars => TypeOK'
<1> SUFFICES ASSUME TypeOK, [Next]_vars PROVE TypeOK'
  OBVIOUS
<1> USE EventsAssumption DEF Handlers
<1>1. ASSUME NEW x \in Handlers, WritePayment(x) PROVE TypeOK'
  <2>1. "paid" \in Phase /\ Goes(x, "paid") /\ ~ At(x, "idle")
    BY <1>1 DEF WritePayment, Phase, At
  <2> QED BY <1>1, <2>1, GoesRun DEF WritePayment, TypeOK
<1>2. ASSUME NEW x \in Handlers, WriteSubscription(x) PROVE TypeOK'
  <2>1. "credited" \in Phase /\ Goes(x, "credited") /\ ~ At(x, "idle")
    BY <1>2 DEF WriteSubscription, Phase, At
  <2>2. run[x].event \in Events /\ PaymentOf[run[x].event] \in Payments
    BY <2>1, GoesRun
  <2>3. subscription' \in [Subscriptions -> Outcomes]
    <3>1. Outcome[run[x].event] \in Outcomes
      BY <2>2, EventsAssumption
    <3> QED BY <1>2, <3>1 DEF WriteSubscription, TypeOK
  <2>4. applied' \in [Events -> Application]
    BY <1>2, <2>2 DEF WriteSubscription, TypeOK, Application
  <2> QED BY <1>2, <2>1, <2>3, <2>4, GoesRun DEF WriteSubscription, TypeOK
<1>3. ASSUME NEW x \in Handlers, MarkProcessed(x) PROVE TypeOK'
  <2>1. "marked" \in Phase /\ run[x].event \in Events
    BY <1>3 DEF MarkProcessed, Phase, At, TypeOK
  <2>2. event' \in [Events -> EventStatus] /\ acked' \subseteq Events
    BY <1>3, <2>1 DEF MarkProcessed, Becomes, Acks, EventStatus, TypeOK
  <2>3. /\ run' \in [Handlers -> Run]
        /\ \A y \in Handlers : run'[y].phase # "idle" => run'[y].event \in Events
    BY <1>3, <2>1, GoesRun, EndsRun DEF MarkProcessed, At
  <2> QED BY <1>3, <2>2, <2>3 DEF MarkProcessed, books, TypeOK
<1>4. ASSUME NEW x \in Handlers, ProcessErrs(x) PROVE TypeOK'
  <2>1. "erred" \in Phase /\ Goes(x, "erred") /\ ~ At(x, "idle")
    BY <1>4 DEF ProcessErrs, Phase, At
  <2>2. event' \in [Events -> EventStatus]
    BY <1>4 DEF ProcessErrs, Becomes, EventStatus, TypeOK
  <2> QED BY <1>4, <2>1, <2>2, GoesRun DEF ProcessErrs, books, TypeOK
<1>5. ASSUME NEW d \in Deliveries, Reclaim(d) PROVE TypeOK'
  <2>1. "claimed" \in Phase /\ run[d].event \in Events
    BY <1>5 DEF Reclaim, Phase, At, TypeOK
  <2>2. event' \in [Events -> EventStatus] /\ acked' \subseteq Events
    BY <1>5, <2>1 DEF Reclaim, Becomes, Acks, EventStatus, TypeOK
  <2>3. /\ run' \in [Handlers -> Run]
        /\ \A y \in Handlers : run'[y].phase # "idle" => run'[y].event \in Events
    BY <1>5, <2>1, GoesRun, EndsRun DEF Reclaim, At
  <2> QED BY <1>5, <2>2, <2>3 DEF Reclaim, books, TypeOK
<1>6. ASSUME NEW d \in Deliveries, RecordFailure(d) PROVE TypeOK'
  <2>1. "recorded" \in Phase /\ Goes(d, "recorded") /\ ~ At(d, "idle")
    BY <1>6 DEF RecordFailure, Phase, At
  <2>2. run[d].event \in Events
    BY <2>1, GoesRun
  <2>3. letter' = [letter EXCEPT ![run[d].event] = [status |-> "pending", token |-> None]]
    BY <1>6 DEF RecordFailure, LetterBecomes
  <2>4. applied' \in [Events -> Application]
    BY <1>6, <2>2 DEF RecordFailure, TypeOK, Application
  <2> QED BY <1>6, <2>1, <2>2, <2>3, <2>4, GoesRun
          DEF RecordFailure, TypeOK, Letter, LetterStatus
<1>7. ASSUME NEW d \in Deliveries, ReleaseClaim(d) PROVE TypeOK'
  <2>1. run[d].event \in Events
    BY <1>7 DEF ReleaseClaim, At, TypeOK
  <2>2. event' \in [Events -> EventStatus] /\ acked' \subseteq Events
    BY <1>7, <2>1 DEF ReleaseClaim, Becomes, Acks, EventStatus, TypeOK
  <2> QED BY <1>7, <2>2, EndsRun DEF ReleaseClaim, books, TypeOK
<1>8. ASSUME NEW d \in Deliveries, NEW e \in Events, Receive(d, e) PROVE TypeOK'
  <2>1. "claimed" \in Phase /\ "conflicted" \in Phase
    BY DEF Phase
  <2>2. event' \in [Events -> EventStatus] /\ acked' \subseteq Events
    BY <1>8 DEF Receive, Becomes, Acks, EventStatus, TypeOK
  <2>3. sent' \in [Events -> 0 .. MaxSent]
    BY <1>8 DEF Receive, TypeOK
  <2>4. /\ run' \in [Handlers -> Run]
        /\ \A y \in Handlers : run'[y].phase # "idle" => run'[y].event \in Events
    BY <1>8, <2>1, StartsRun DEF Receive, TypeOK
  <2> QED BY <1>8, <2>2, <2>3, <2>4 DEF Receive, books, TypeOK
<1>9. ASSUME NEW r \in Replays, NEW e \in Events, ClaimLetter(r, e) PROVE TypeOK'
  <2>1. "claimed" \in Phase
    BY DEF Phase
  <2>2. letter' = [letter EXCEPT ![e] = [status |-> "replaying", token |-> r]]
    BY <1>9 DEF ClaimLetter, LetterBecomes
  <2> QED BY <1>9, <2>1, <2>2, StartsRun
          DEF ClaimLetter, books, TypeOK, Letter, LetterStatus
<1>10. ASSUME NEW r \in Replays, MarkReplayed(r) PROVE TypeOK'
  <2>1. "erred" \in Phase /\ run[r].event \in Events /\ ~ At(r, "idle")
    BY <1>10 DEF MarkReplayed, Phase, At, TypeOK
  <2>2. \/ letter' = [letter EXCEPT ![run[r].event] = [status |-> "replayed", token |-> None]]
        \/ letter' = letter
    BY <1>10 DEF MarkReplayed, LetterBecomes
  <2>3. /\ run' \in [Handlers -> Run]
        /\ \A y \in Handlers : run'[y].phase # "idle" => run'[y].event \in Events
    BY <1>10, <2>1, GoesRun, EndsRun DEF MarkReplayed
  <2>4. /\ letter' \in [Events -> Letter]
        /\ \A f \in Events :
             letter'[f].token = None <=> letter'[f].status \notin {"replaying", "overdue"}
    <3>1. CASE letter' = letter
      BY <3>1 DEF TypeOK
    <3> QED BY <3>1, <2>1, <2>2, ClosesLetter
  <2> QED BY <1>10, <2>3, <2>4 DEF MarkReplayed, books, TypeOK
<1>11. ASSUME NEW r \in Replays, ReleaseLetter(r) PROVE TypeOK'
  <2>1. run[r].event \in Events
    BY <1>11 DEF ReleaseLetter, At, TypeOK
  <2>2. \/ letter' = [letter EXCEPT ![run[r].event] = [status |-> "pending", token |-> None]]
        \/ letter' = letter
    BY <1>11 DEF ReleaseLetter, LetterBecomes
  <2>3. /\ letter' \in [Events -> Letter]
        /\ \A f \in Events :
             letter'[f].token = None <=> letter'[f].status \notin {"replaying", "overdue"}
    <3>1. CASE letter' = letter
      BY <3>1 DEF TypeOK
    <3> QED BY <3>1, <2>1, <2>2, ClosesLetter
  <2> QED BY <1>11, <2>3, EndsRun DEF ReleaseLetter, books, TypeOK
<1>12. ASSUME NEW x \in Handlers, Crash(x) PROVE TypeOK'
  BY <1>12, EndsRun DEF Crash, books, TypeOK
<1>13. ASSUME NEW e \in Events, ClaimExpires(e) PROVE TypeOK'
  BY <1>13 DEF ClaimExpires, Becomes, EventStatus, books, TypeOK
<1>14. ASSUME NEW e \in Events, LetterOverdue(e) PROVE TypeOK'
  <2>1. /\ letter' = [letter EXCEPT ![e] = [status |-> "overdue", token |-> letter[e].token]]
        /\ letter[e] \in Letter
        /\ letter[e].token # None
    BY <1>14 DEF LetterOverdue, LetterBecomes, TypeOK
  <2> QED BY <1>14, <2>1 DEF LetterOverdue, books, TypeOK, Letter, LetterStatus
<1>15. CASE UNCHANGED vars
  BY <1>15 DEF vars, TypeOK
<1> QED
  BY <1>1, <1>2, <1>3, <1>4, <1>5, <1>6, <1>7, <1>8, <1>9, <1>10, <1>11, <1>12, <1>13,
     <1>14, <1>15
  DEF Next, DeliveryStep, ReplayStep, Process

\* The state stays well typed: statuses are among those of the schema, and a
\* letter has a token exactly while it is under replay.
THEOREM TypeCorrect == Spec => []TypeOK
BY TypeInit, TypeNext, PTL DEF Spec

-----------------------------------------------------------------------------
(* Claims: a delivery at work holds its event, and holds it alone.          *)

ClaimKept ==
  \A d \in Deliveries :
    run[d].phase \in Processing => event[run[d].event] \in {"processing", "processed"}

Claimed == ClaimKept /\ OneDelivery

\* A delivery may begin to process an event that nobody has claimed.
LEMMA TakesClaim ==
  ASSUME TypeOK, Claimed, NEW d \in Deliveries, NEW e \in Events,
         event[e] \notin {"processing", "processed"},
         event' = [event EXCEPT ![e] = "processing"],
         run'[d].event = e,
         \A y \in Handlers : y # d => run'[y] = run[y]
  PROVE  Claimed'
<1>1. \A y \in Deliveries :
        y # d /\ run'[y].phase \in Processing =>
          /\ run'[y] = run[y]
          /\ run[y].event \in Events
          /\ run[y].event # e
          /\ event[run[y].event] \in {"processing", "processed"}
  BY DEF Claimed, ClaimKept, Handlers, TypeOK, Processing
<1>2. ClaimKept'
  BY <1>1 DEF ClaimKept, TypeOK
<1>3. OneDelivery'
  BY <1>1 DEF OneDelivery, Claimed
<1> QED BY <1>2, <1>3 DEF Claimed

\* A step in which nobody starts to process and no claim at work is given up.
LEMMA KeepsClaims ==
  ASSUME TypeOK, Claimed,
         \A y \in Deliveries :
           run'[y].phase \in Processing =>
             /\ run[y].phase \in Processing
             /\ run'[y].event = run[y].event
             /\ event'[run[y].event] \in {event[run[y].event], "processed"}
  PROVE  Claimed'
<1>1. ClaimKept'
  BY DEF Claimed, ClaimKept
<1>2. OneDelivery'
  BY DEF Claimed, OneDelivery
<1> QED BY <1>1, <1>2 DEF Claimed

\* A step of a run that goes on to another phase, ends, or is a replay's.
LEMMA RunMoves ==
  ASSUME TypeOK, Claimed, NEW x \in Handlers,
         \/ x \notin Deliveries
         \/ run'[x].phase \in Processing =>
              run[x].phase \in Processing /\ run'[x].event = run[x].event,
         \A y \in Handlers : y # x => run'[y] = run[y],
         \A e \in Events : event'[e] \in {event[e], "processed"}
  PROVE  Claimed'
<1>1. ASSUME NEW y \in Deliveries, run'[y].phase \in Processing
      PROVE  run[y].phase \in Processing /\ run'[y].event = run[y].event
  BY <1>1 DEF Handlers
<1>2. \A y \in Deliveries : run[y].phase \in Processing => run[y].event \in Events
  BY DEF TypeOK, Processing, Handlers
<1> QED BY <1>1, <1>2, KeepsClaims

LEMMA ClaimedNext == TypeOK /\ Claimed /\ [Next]_vars => Claimed'
<1> SUFFICES ASSUME TypeOK, Claimed, [Next]_vars PROVE Claimed'
  OBVIOUS
<1>1. ASSUME NEW x \in Handlers, Process(x) PROVE Claimed'
  <2>1. run[x].phase \in Processing /\ ~ At(x, "idle")
    BY <1>1 DEF Process, WritePayment, WriteSubscription, MarkProcessed, ProcessErrs, At,
                Processing, Phase
  <2>2. \A e \in Events : event'[e] \in {event[e], "processed"}
    BY <1>1 DEF Process, WritePayment, WriteSubscription, MarkProcessed, ProcessErrs,
                Becomes, TypeOK
  <2>3. (\E phase \in Phase : Goes(x, phase)) \/ Ends(x)
    BY <1>1 DEF Process, WritePayment, WriteSubscription, MarkProcessed, ProcessErrs, Phase
  <2> QED BY <2>1, <2>2, <2>3, GoesRun, EndsRun, RunMoves DEF Processing
<1>2. ASSUME NEW d \in Deliveries, Reclaim(d) PROVE Claimed'
  <2>1. d \in Handlers /\ run[d].event \in Events /\ ~ At(d, "idle") /\ "claimed" \in Phase
    BY <1>2 DEF Reclaim, At, TypeOK, Handlers, Phase
  <2>2. CASE Claimable(run[d].event)
    BY <1>2, <2>1, <2>2, GoesRun, TakesClaim DEF Reclaim, Becomes, Claimable
  <2>3. CASE ~ Claimable(run[d].event)
    BY <1>2, <2>1, <2>3, EndsRun, RunMoves DEF Reclaim, Processing
  <2> QED BY <2>2, <2>3
<1>3. ASSUME NEW d \in Deliveries, NEW e \in Events, Receive(d, e) PROVE Claimed'
  <2>1. d \in Handlers /\ "claimed" \in Phase /\ "conflicted" \in Phase
    BY DEF Handlers, Phase
  <2>2. CASE event[e] = "none" /\ Becomes(e, "processing") /\ Starts(d, e, "claimed")
    BY <2>1, <2>2, StartsRun, TakesClaim DEF Becomes
  <2>3. CASE Starts(d, e, "conflicted") /\ UNCHANGED event
    BY <2>1, <2>3, StartsRun, RunMoves DEF Processing
  <2>4. CASE UNCHANGED <<event, run>>
    BY <2>4, KeepsClaims
  <2> QED BY <1>3, <2>2, <2>3, <2>4 DEF Receive
<1>4. ASSUME NEW d \in Deliveries, RecordFailure(d) PROVE Claimed'
  <2>1. /\ d \in Handlers /\ "recorded" \in Phase /\ Goes(d, "recorded")
        /\ ~ At(d, "idle") /\ run[d].phase \in Processing /\ UNCHANGED event
    BY <1>4 DEF RecordFailure, Handlers, Phase, At, Processing
  <2> QED BY <2>1, GoesRun, RunMoves
<1>5. ASSUME NEW d \in Deliveries, ReleaseClaim(d) PROVE Claimed'
  <2>1. d \in Handlers /\ run[d].phase \in Processing
    BY <1>5 DEF ReleaseClaim, Handlers, At, Processing, Phase
  <2>2. event' = [event EXCEPT ![run[d].event] = "released"]
    BY <1>5 DEF ReleaseClaim, Becomes
  <2>3. ASSUME NEW y \in Deliveries, run'[y].phase \in Processing
        PROVE  /\ y # d
               /\ run'[y] = run[y]
               /\ run[y].phase \in Processing
               /\ run[y].event \in Events
               /\ run[y].event # run[d].event
    <3>1. y # d /\ run'[y] = run[y]
      BY <1>5, <2>1, <2>3, EndsRun DEF ReleaseClaim, Processing, Handlers
    <3> QED BY <3>1, <2>1, <2>3 DEF Claimed, OneDelivery, TypeOK, Handlers, Processing
  <2> QED BY <2>2, <2>3, KeepsClaims DEF TypeOK
<1>6. ASSUME NEW r \in Replays, MarkReplayed(r) \/ ReleaseLetter(r) PROVE Claimed'
  <2>1. r \in Handlers /\ r \notin Deliveries /\ "erred" \in Phase /\ ~ At(r, "idle")
    BY <1>6, EventsAssumption DEF Handlers, Phase, MarkReplayed, ReleaseLetter, At
  <2>2. UNCHANGED event /\ (Goes(r, "erred") \/ Ends(r))
    BY <1>6 DEF MarkReplayed, ReleaseLetter
  <2> QED BY <2>1, <2>2, GoesRun, EndsRun, RunMoves
<1>7. ASSUME NEW r \in Replays, NEW e \in Events, ClaimLetter(r, e) PROVE Claimed'
  <2>1. r \in Handlers /\ r \notin Deliveries /\ "claimed" \in Phase
    BY EventsAssumption DEF Handlers, Phase
  <2> QED BY <1>7, <2>1, StartsRun, RunMoves DEF ClaimLetter
<1>8. ASSUME NEW x \in Handlers, Crash(x) PROVE Claimed'
  BY <1>8, EndsRun, RunMoves DEF Crash, Processing
<1>9. ASSUME NEW e \in Events, ClaimExpires(e) PROVE Claimed'
  <2>1. \A y \in Deliveries :
          run[y].phase \in Processing => run[y].event \in Events /\ run[y].event # e
    BY <1>9 DEF ClaimExpires, TypeOK, Processing, Handlers
  <2> QED BY <1>9, <2>1, KeepsClaims DEF ClaimExpires, Becomes, TypeOK
<1>10. ASSUME NEW e \in Events, LetterOverdue(e) PROVE Claimed'
  BY <1>10, KeepsClaims DEF LetterOverdue
<1>11. CASE UNCHANGED vars
  BY <1>11, KeepsClaims DEF vars
<1> QED
  BY <1>1, <1>2, <1>3, <1>4, <1>5, <1>6, <1>7, <1>8, <1>9, <1>10, <1>11
  DEF Next, DeliveryStep, ReplayStep, Handlers

\* Two deliveries never process one event at once: redeliveries meet the claim,
\* a claim expires only when its delivery is gone, and a release concerns the
\* claim of its own delivery.
THEOREM Exclusion == Spec => []OneDelivery
<1>1. Init => Claimed
  BY DEF Init, Idle, Claimed, ClaimKept, OneDelivery, Processing, Handlers
<1>2. Claimed => OneDelivery
  BY DEF Claimed
<1> QED BY <1>1, <1>2, TypeInit, TypeNext, ClaimedNext, PTL DEF Spec

-----------------------------------------------------------------------------
(* What a step may do, seen from one row.                                   *)

Credited(x) == run[x].phase \in {"credited", "marked"}

\* A run is past the subscription only if it wrote it.
LEMMA CreditedRuns ==
  ASSUME TypeOK, [Next]_vars, NEW x \in Handlers, Credited(x)'
  PROVE  /\ run'[x].event = run[x].event
         /\ run[x].event \in Events
         /\ Credited(x) \/ WriteSubscription(x)
<1>1. ASSUME NEW y \in Handlers, Goes(y, "paid") \/ Goes(y, "claimed") \/ Goes(y, "erred")
                                 \/ Goes(y, "recorded") \/ Ends(y),
             ~ At(y, "idle")
      PROVE  x # y /\ run'[x] = run[x]
  <2>1. {"paid", "claimed", "erred", "recorded"} \subseteq Phase
    BY DEF Phase
  <2> QED BY <1>1, <2>1, GoesRun, EndsRun DEF Credited
<1>2. ASSUME NEW y \in Handlers, NEW e \in Events,
             Starts(y, e, "claimed") \/ Starts(y, e, "conflicted")
      PROVE  x # y /\ run'[x] = run[x]
  <2>1. {"claimed", "conflicted"} \subseteq Phase
    BY DEF Phase
  <2> QED BY <1>2, <2>1, StartsRun DEF Credited
<1>3. ASSUME run'[x] = run[x]
      PROVE  /\ run'[x].event = run[x].event
             /\ run[x].event \in Events
             /\ Credited(x)
  BY <1>3 DEF Credited, TypeOK
<1>4. ASSUME NEW y \in Handlers, WriteSubscription(y)
      PROVE  /\ run'[x].event = run[x].event
             /\ run[x].event \in Events
             /\ Credited(x) \/ WriteSubscription(x)
  <2>1. "credited" \in Phase /\ Goes(y, "credited") /\ ~ At(y, "idle")
    BY <1>4 DEF WriteSubscription, Phase, At
  <2>2. CASE x = y
    BY <1>4, <2>1, <2>2, GoesRun
  <2> QED BY <2>1, <2>2, GoesRun, <1>3
<1>5. ASSUME NEW y \in Handlers, MarkProcessed(y)
      PROVE  /\ run'[x].event = run[x].event
             /\ run[x].event \in Events
             /\ Credited(x)
  <2>1. "marked" \in Phase /\ At(y, "credited") /\ ~ At(y, "idle")
    BY <1>5 DEF MarkProcessed, Phase, At
  <2>2. CASE Ends(y)
    BY <2>1, <2>2, <1>1, <1>3
  <2>3. CASE Goes(y, "marked")
    <3>1. CASE x = y
      BY <2>1, <2>3, <3>1, GoesRun DEF At, Credited
    <3> QED BY <2>1, <2>3, <3>1, GoesRun, <1>3
  <2> QED BY <1>5, <2>2, <2>3 DEF MarkProcessed
<1>6. ASSUME NEW y \in Handlers,
             \/ WritePayment(y) \/ ProcessErrs(y) \/ Reclaim(y) \/ RecordFailure(y)
             \/ ReleaseClaim(y) \/ MarkReplayed(y) \/ ReleaseLetter(y) \/ Crash(y)
      PROVE  run'[x] = run[x]
  BY <1>6, <1>1 DEF WritePayment, ProcessErrs, Reclaim, RecordFailure, ReleaseClaim,
                    MarkReplayed, ReleaseLetter, Crash, At
<1>7. ASSUME NEW e \in Events, NEW y \in Handlers, Receive(y, e) \/ ClaimLetter(y, e)
      PROVE  run'[x] = run[x]
  BY <1>7, <1>2 DEF Receive, ClaimLetter
<1>8. CASE (\E e \in Events : ClaimExpires(e) \/ LetterOverdue(e)) \/ UNCHANGED vars
  BY <1>8, <1>3 DEF ClaimExpires, LetterOverdue, vars
<1> QED
  BY <1>3, <1>4, <1>5, <1>6, <1>7, <1>8
  DEF Next, DeliveryStep, ReplayStep, Process, Handlers

\* A delivery releases its claim only after it recorded its failure.
LEMMA RecordedRuns ==
  ASSUME TypeOK, [Next]_vars, NEW d \in Deliveries, At(d, "recorded")'
  PROVE  /\ run'[d].event = run[d].event
         /\ run[d].event \in Events
         /\ At(d, "recorded") \/ RecordFailure(d)
<1> d \in Handlers
  BY DEF Handlers
<1>1. ASSUME NEW y \in Handlers, ~ At(y, "idle"),
             Ends(y) \/ \E phase \in Phase \ {"recorded"} : Goes(y, phase)
      PROVE  run'[d] = run[d]
  BY <1>1, GoesRun, EndsRun DEF At
<1>2. ASSUME NEW y \in Handlers, NEW e \in Events,
             Starts(y, e, "claimed") \/ Starts(y, e, "conflicted")
      PROVE  run'[d] = run[d]
  <2>1. {"claimed", "conflicted"} \subseteq Phase
    BY DEF Phase
  <2> QED BY <1>2, <2>1, StartsRun DEF At
<1>3. ASSUME run'[d] = run[d]
      PROVE  /\ run'[d].event = run[d].event
             /\ run[d].event \in Events
             /\ At(d, "recorded")
  BY <1>3 DEF At, TypeOK
<1>4. ASSUME NEW y \in Deliveries, RecordFailure(y)
      PROVE  /\ run'[d].event = run[d].event
             /\ run[d].event \in Events
             /\ At(d, "recorded") \/ RecordFailure(d)
  <2>1. y \in Handlers /\ "recorded" \in Phase /\ Goes(y, "recorded") /\ ~ At(y, "idle")
    BY <1>4 DEF RecordFailure, Phase, At, Handlers
  <2>2. CASE d = y
    BY <1>4, <2>1, <2>2, GoesRun
  <2> QED BY <2>1, <2>2, GoesRun, <1>3
<1>5. {"paid", "credited", "marked", "erred", "claimed"} \subseteq Phase \ {"recorded"}
  BY DEF Phase
<1>6. ASSUME NEW y \in Handlers, Process(y) \/ Reclaim(y) PROVE run'[d] = run[d]
  BY <1>6, <1>1, <1>5
  DEF Process, WritePayment, WriteSubscription, MarkProcessed, ProcessErrs, Reclaim, At
<1>7. ASSUME NEW y \in Handlers,
             ReleaseClaim(y) \/ MarkReplayed(y) \/ ReleaseLetter(y) \/ Crash(y)
      PROVE  run'[d] = run[d]
  BY <1>7, <1>1, <1>5 DEF ReleaseClaim, MarkReplayed, ReleaseLetter, Crash, At
<1>8. ASSUME NEW e \in Events, NEW y \in Handlers, Receive(y, e) \/ ClaimLetter(y, e)
      PROVE  run'[d] = run[d]
  BY <1>8, <1>2 DEF Receive, ClaimLetter
<1>9. CASE (\E e \in Events : ClaimExpires(e) \/ LetterOverdue(e)) \/ UNCHANGED vars
  BY <1>9, <1>3 DEF ClaimExpires, LetterOverdue, vars
<1> QED
  BY <1>3, <1>4, <1>6, <1>7, <1>8, <1>9 DEF Next, DeliveryStep, ReplayStep, Handlers

\* Nothing undoes an application.
LEMMA AppliedStays ==
  ASSUME TypeOK, [Next]_vars, NEW e \in Events, applied[e] # "never"
  PROVE  applied'[e] # "never"
<1>1. CASE \E x \in Handlers : WriteSubscription(x)
  BY <1>1 DEF WriteSubscription, TypeOK
<1>2. CASE \E d \in Deliveries : RecordFailure(d)
  BY <1>2 DEF RecordFailure, TypeOK
<1>3. CASE UNCHANGED applied
  BY <1>3
<1> QED
  BY <1>1, <1>2, <1>3
  DEF Next, DeliveryStep, ReplayStep, Process, Handlers, WritePayment, MarkProcessed,
      ProcessErrs, Reclaim, ReleaseClaim, Receive, ClaimLetter, MarkReplayed,
      ReleaseLetter, Crash, ClaimExpires, LetterOverdue, books, vars

\* Who ticks an event off, and who releases it.
LEMMA EventMarks ==
  ASSUME TypeOK, [Next]_vars, NEW e \in Events, event'[e] # event[e]
  PROVE  /\ event'[e] = "processed" =>
              \E x \in Handlers : Credited(x) /\ run[x].event = e
         /\ event'[e] = "released" =>
              \E d \in Deliveries :
                ReleaseClaim(d) /\ At(d, "recorded") /\ run[d].event = e
<1>1. CASE \E x \in Handlers : MarkProcessed(x) \/ ProcessErrs(x)
  BY <1>1 DEF MarkProcessed, ProcessErrs, Becomes, At, Credited, TypeOK
<1>2. CASE \E d \in Deliveries : ReleaseClaim(d)
  BY <1>2 DEF ReleaseClaim, Becomes, At, TypeOK
<1>3. CASE \E d \in Deliveries : Reclaim(d) \/ \E f \in Events : Receive(d, f)
  BY <1>3 DEF Reclaim, Receive, Becomes, TypeOK
<1>4. CASE \E f \in Events : ClaimExpires(f)
  BY <1>4 DEF ClaimExpires, Becomes, TypeOK
<1>5. CASE UNCHANGED event
  BY <1>5
<1> QED
  BY <1>1, <1>2, <1>3, <1>4, <1>5
  DEF Next, DeliveryStep, ReplayStep, Process, Handlers, WritePayment, WriteSubscription,
      RecordFailure, ClaimLetter, MarkReplayed, ReleaseLetter, Crash, LetterOverdue, vars

-----------------------------------------------------------------------------
(* Applications.                                                            *)

CreditedIsApplied == \A x \in Handlers : Credited(x) => applied[run[x].event] # "never"

Applications == CreditedIsApplied /\ ProcessedIsApplied

LEMMA ApplicationsNext == TypeOK /\ Applications /\ [Next]_vars => Applications'
<1> SUFFICES ASSUME TypeOK, Applications, [Next]_vars PROVE Applications'
  OBVIOUS
<1>1. ASSUME NEW x \in Handlers, Credited(x)' PROVE applied'[run'[x].event] # "never"
  <2>1. run'[x].event = run[x].event /\ run[x].event \in Events
    BY <1>1, CreditedRuns
  <2>2. CASE Credited(x)
    BY <2>1, <2>2, AppliedStays DEF Applications, CreditedIsApplied
  <2>3. CASE WriteSubscription(x)
    BY <2>1, <2>3 DEF WriteSubscription, TypeOK
  <2> QED BY <1>1, <2>2, <2>3, CreditedRuns
<1>2. ASSUME NEW e \in Events, event'[e] = "processed" PROVE applied'[e] # "never"
  <2>1. applied[e] # "never"
    <3>1. CASE event'[e] = event[e]
      BY <1>2, <3>1 DEF Applications, ProcessedIsApplied
    <3>2. CASE event'[e] # event[e]
      BY <1>2, <3>2, EventMarks DEF Applications, CreditedIsApplied
    <3> QED BY <3>1, <3>2
  <2> QED BY <2>1, AppliedStays
<1> QED BY <1>1, <1>2 DEF Applications, CreditedIsApplied, ProcessedIsApplied

\* A processed event has reached the subscription, whoever ticked it off.
THEOREM AppliedWhenProcessed == Spec => []ProcessedIsApplied
<1>1. Init => Applications
  BY DEF Init, Idle, Applications, CreditedIsApplied, Credited, ProcessedIsApplied, Handlers
<1>2. Applications => ProcessedIsApplied
  BY DEF Applications
<1> QED BY <1>1, <1>2, TypeInit, TypeNext, ApplicationsNext, PTL DEF Spec

-----------------------------------------------------------------------------
(* Dead letters: the holder of a letter has applied its event since the     *)
(* last failure when it is about to close it.                               *)

Open == {"pending", "replaying", "overdue"}
Recoverable(e) == letter[e].status \in Open \/ applied[e] # "never"

HolderIsFresh ==
  \A r \in Replays : Credited(r) /\ HoldsLetter(r) => applied[run[r].event] = "since"
RecordKept == \A d \in Deliveries : At(d, "recorded") => Recoverable(run[d].event)

Letters == HolderIsFresh /\ ReplayedIsApplied /\ RecordKept /\ FailureRecoverable

\* A letter changes hands in five ways.
LEMMA LetterSteps ==
  ASSUME TypeOK, [Next]_vars, NEW e \in Events
  PROVE  \/ letter'[e] = letter[e] /\ applied'[e] \in {applied[e], "since"}
         \/ /\ letter'[e].status = "pending" /\ letter'[e].token = None
            /\ applied'[e] = applied[e] \/ applied'[e] = "before"
         \/ /\ letter'[e].status = "overdue" /\ letter[e].status = "replaying"
            /\ letter'[e].token = letter[e].token
            /\ applied'[e] = applied[e]
         \/ \E r \in Replays : /\ ClaimLetter(r, e)
                               /\ letter'[e].status = "replaying" /\ letter'[e].token = r
                               /\ applied'[e] = applied[e]
         \/ \E r \in Replays : /\ At(r, "marked") /\ HoldsLetter(r) /\ run[r].event = e
                               /\ letter'[e].status = "replayed" /\ letter'[e].token = None
                               /\ applied'[e] = applied[e]
<1>1. CASE \E d \in Deliveries : RecordFailure(d)
  BY <1>1 DEF RecordFailure, LetterBecomes, TypeOK
<1>2. CASE \E r \in Replays : MarkReplayed(r)
  BY <1>2 DEF MarkReplayed, LetterBecomes, books, TypeOK
<1>3. CASE \E r \in Replays : ReleaseLetter(r)
  BY <1>3 DEF ReleaseLetter, LetterBecomes, books, TypeOK
<1>4. CASE \E r \in Replays, f \in Events : ClaimLetter(r, f)
  <2>1. PICK r \in Replays, f \in Events : ClaimLetter(r, f)
    BY <1>4
  <2>2. /\ letter' = [letter EXCEPT ![f] = [status |-> "replaying", token |-> r]]
        /\ applied' = applied
    BY <2>1 DEF ClaimLetter, LetterBecomes, books
  <2>3. CASE f = e
    BY <2>1, <2>2, <2>3 DEF TypeOK
  <2>4. CASE f # e
    BY <2>2, <2>4 DEF TypeOK
  <2> QED BY <2>3, <2>4
<1>5. CASE \E f \in Events : LetterOverdue(f)
  BY <1>5 DEF LetterOverdue, LetterBecomes, books, TypeOK
<1>6. CASE \E x \in Handlers : WriteSubscription(x)
  BY <1>6 DEF WriteSubscription, TypeOK
<1>7. CASE UNCHANGED <<letter, applied>>
  BY <1>7
<1> QED
  BY <1>1, <1>2, <1>3, <1>4, <1>5, <1>6, <1>7
  DEF Next, DeliveryStep, ReplayStep, Process, Handlers, WritePayment, MarkProcessed,
      ProcessErrs, Reclaim, ReleaseClaim, Receive, Crash, ClaimExpires, books, vars

\* A recoverable event stays so: only a holder closes a letter, and it has
\* applied the event.
LEMMA RecoverableStays ==
  ASSUME TypeOK, Letters, [Next]_vars, NEW e \in Events, Recoverable(e)
  PROVE  letter'[e].status \in Open \/ applied'[e] # "never"
<1>1. CASE applied[e] # "never"
  BY <1>1, AppliedStays
<1>2. CASE letter[e].status \in Open /\ applied[e] = "never"
  <2>1. ASSUME NEW r \in Replays, At(r, "marked"), HoldsLetter(r), run[r].event = e
        PROVE  FALSE
    BY <1>2, <2>1 DEF Letters, HolderIsFresh, Credited, At
  <2> QED BY <1>2, <2>1, LetterSteps DEF Open
<1> QED BY <1>1, <1>2 DEF Recoverable

LEMMA HolderStaysFresh ==
  ASSUME TypeOK, Letters, [Next]_vars,
         NEW r \in Replays, Credited(r)', HoldsLetter(r)'
  PROVE  applied'[run'[r].event] = "since"
<1> DEFINE e == run[r].event
<1>1. /\ r \in Handlers
      /\ run'[r].event = e /\ e \in Events
      /\ Credited(r) \/ WriteSubscription(r)
  BY CreditedRuns DEF Handlers
<1>2. letter'[e].status \in {"replaying", "overdue"} /\ letter'[e].token = r
  BY <1>1 DEF HoldsLetter
<1>3. CASE WriteSubscription(r)
  BY <1>1, <1>3 DEF WriteSubscription, TypeOK
<1>4. CASE Credited(r) /\ HoldsLetter(r)
  <2>1. applied[e] = "since"
    BY <1>4 DEF Letters, HolderIsFresh
  <2> QED BY <1>1, <1>2, <2>1, LetterSteps
<1>5. CASE ~ HoldsLetter(r)
  <2>1. ~ (letter[e].status \in {"replaying", "overdue"} /\ letter[e].token = r)
    BY <1>5 DEF HoldsLetter
  <2>2. ASSUME NEW s \in Replays, ClaimLetter(s, e), letter'[e].token = s
        PROVE  FALSE
    <3>1. s = r
      BY <1>2, <2>2
    <3>2. s \in Handlers /\ "claimed" \in Phase /\ Starts(s, e, "claimed")
      BY <2>2 DEF ClaimLetter, Handlers, Phase
    <3>3. run'[r].phase = "claimed"
      BY <1>1, <3>1, <3>2, StartsRun
    <3> QED BY <3>3 DEF Credited
  <2> QED BY <1>1, <1>2, <2>1, <2>2, LetterSteps, EventsAssumption
<1> QED BY <1>1, <1>3, <1>4, <1>5

LEMMA LettersNext == TypeOK /\ Letters /\ [Next]_vars => Letters'
<1> SUFFICES ASSUME TypeOK, Letters, [Next]_vars PROVE Letters'
  OBVIOUS
<1>1. HolderIsFresh'
  BY HolderStaysFresh DEF HolderIsFresh
<1>2. ReplayedIsApplied'
  <2>1. ASSUME NEW e \in Events, letter'[e].status = "replayed"
        PROVE  applied'[e] = "since"
    <3>1. CASE letter'[e] = letter[e] /\ applied'[e] \in {applied[e], "since"}
      BY <2>1, <3>1 DEF Letters, ReplayedIsApplied
    <3>2. CASE \E r \in Replays : /\ At(r, "marked") /\ HoldsLetter(r) /\ run[r].event = e
                                  /\ applied'[e] = applied[e]
      BY <3>2 DEF Letters, HolderIsFresh, Credited, At
    <3> QED BY <2>1, <3>1, <3>2, LetterSteps
  <2> QED BY <2>1 DEF ReplayedIsApplied
<1>3. RecordKept'
  <2>1. ASSUME NEW d \in Deliveries, At(d, "recorded")' PROVE Recoverable(run[d].event)'
    <3>1. /\ run'[d].event = run[d].event
          /\ run[d].event \in Events
          /\ At(d, "recorded") \/ RecordFailure(d)
      BY <2>1, RecordedRuns
    <3>2. CASE At(d, "recorded")
      BY <3>1, <3>2, RecoverableStays DEF Letters, RecordKept, Recoverable
    <3>3. CASE RecordFailure(d)
      BY <3>1, <3>3 DEF RecordFailure, LetterBecomes, TypeOK, Recoverable, Open
    <3> QED BY <3>1, <3>2, <3>3
  <2> QED BY <2>1 DEF RecordKept
<1>4. FailureRecoverable'
  <2>1. ASSUME NEW e \in Events, event'[e] = "released" PROVE Recoverable(e)
    <3>1. CASE event'[e] = event[e]
      BY <2>1, <3>1 DEF Letters, FailureRecoverable, Recoverable, Open
    <3>2. CASE event'[e] # event[e]
      BY <2>1, <3>2, EventMarks DEF Letters, RecordKept
    <3> QED BY <3>1, <3>2
  <2> QED BY <2>1, RecoverableStays DEF FailureRecoverable, Open
<1> QED BY <1>1, <1>2, <1>3, <1>4 DEF Letters

LEMMA LettersInit == Init => Letters
BY DEF Init, Idle, Letters, HolderIsFresh, Credited, ReplayedIsApplied, RecordKept, At,
       FailureRecoverable, Handlers

\* A failed event that was released is open in the dead letters or was applied.
THEOREM Recovery == Spec => []FailureRecoverable
<1>1. Letters => FailureRecoverable
  BY DEF Letters
<1> QED BY <1>1, TypeInit, TypeNext, LettersInit, LettersNext, PTL DEF Spec

\* A dead letter is closed only by an application that came after its last
\* recorded failure.
THEOREM Closure == Spec => []ReplayedIsApplied
<1>1. Letters => ReplayedIsApplied
  BY DEF Letters
<1> QED BY <1>1, TypeInit, TypeNext, LettersInit, LettersNext, PTL DEF Spec
=============================================================================
