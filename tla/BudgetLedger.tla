---------------------------- MODULE BudgetLedger ----------------------------
(***************************************************************************)
(* The daily AI budget: the per-user, per-day spend counter                *)
(* (daily_ai_spend), the reservation ledger beside it                      *)
(* (ai_budget_reservations), the turns that reserve, reconcile and release *)
(* through it, and the recovery and retention jobs of the worker.          *)
(*                                                                         *)
(* Money is a natural number of cents.  A ledger transaction is atomic:    *)
(* it locks its row FOR UPDATE and writes counter and row in one commit.   *)
(* What is not atomic, and is modelled step by step, is everything between *)
(* two transactions: the provider call, the persistence of its answer, the *)
(* terminal callback, the worker's scan and each release that follows it.  *)
(***************************************************************************)
EXTENDS Integers, FiniteSets

CONSTANTS
  Turns,         \* one reservation each: a chat turn, a job, a review
  StreamTurns,   \* those whose error path always releases
  JournalTurns,  \* those that call the ledger directly and release on error
  Users,
  UserOf,        \* the user each turn runs for
  Estimates,     \* reserved amounts a caller may ask for, in cents
  Costs,         \* observed costs a provider may report, in cents
  Caps,          \* daily caps a user may have configured, in cents
  MaxCap,        \* the largest of them
  LastDay,       \* bound: days are 0..LastDay
  Workers,       \* processes that run the recovery job
  BatchSize      \* RECOVERY_BATCH_SIZE

ASSUME TurnsAssumption ==
  /\ IsFiniteSet(Turns)
  /\ StreamTurns \subseteq Turns
  /\ JournalTurns \subseteq Turns
  /\ UserOf \in [Turns -> Users]

ASSUME AmountsAssumption ==
  /\ Estimates \subseteq Nat
  /\ Costs \subseteq Nat
  /\ Caps \subseteq Nat
  /\ MaxCap \in Nat
  /\ \A cap \in Caps : cap <= MaxCap
  /\ LastDay \in Nat
  /\ BatchSize \in Nat \ {0}

VARIABLES
  spend,    \* spend[u][d]: daily_ai_spend.total_usd_cents
  ledger,   \* ledger[t]: the row of ai_budget_reservations
  purged,   \* turns whose terminal row the retention job deleted
  today,    \* utcDayKey(now)
  turn,     \* turn[t]: where the process that runs t is
  cost,     \* cost[t]: the provider cost the process observed
  stale,    \* turns reserved more than RESERVATION_STALE_MS ago
  scan      \* scan[w]: ids worker w selected and has not released yet

rows == <<spend, ledger>>
turnVars == <<turn, cost>>
vars == <<spend, ledger, purged, today, turn, cost, stale, scan>>

Days == 0 .. LastDay
Terminal == {"reconciled", "released"}
Row == [status : {"none", "reserved"} \cup Terminal,
        day : Days, reserved : Nat, actual : Nat]
NoRow == [status |-> "none", day |-> 0, reserved |-> 0, actual |-> 0]

\* running:  reserved, the provider call is out
\* observed: the call returned and its cost is known
\* failed:   the error path is about to release the reservation
\* stranded: a terminal callback failed; the handle stays open, unattended
\* closed:   the handle is released
\* gone:     the process died
TurnState == {"idle", "refused", "running", "observed", "failed",
              "stranded", "closed", "gone"}

TypeOK ==
  /\ spend \in [Users -> [Days -> Nat]]
  /\ ledger \in [Turns -> Row]
  /\ purged \subseteq Turns
  /\ today \in Days
  /\ turn \in [Turns -> TurnState]
  /\ cost \in [Turns -> Nat]
  /\ stale \subseteq Turns
  /\ scan \in [Workers -> SUBSET Turns]

Init ==
  /\ spend = [u \in Users |-> [d \in Days |-> 0]]
  /\ ledger = [t \in Turns |-> NoRow]
  /\ purged = {}
  /\ today = 0
  /\ turn = [t \in Turns |-> "idle"]
  /\ cost = [t \in Turns |-> 0]
  /\ stale = {}
  /\ scan = [w \in Workers |-> {}]

-----------------------------------------------------------------------------
(* The ledger's transactions.  Definitions named Faulty... are plausible    *)
(* mistakes in the definition that follows them; the runs are checked to    *)
(* refute each of them.                                                     *)

\* Status is not read under the row lock.
FaultyIsOpen(t) == t \notin purged /\ ledger[t].status # "none"

\* SELECT ... FOR UPDATE finds the row, and it is still open.
IsOpen(t) == t \notin purged /\ ledger[t].status = "reserved"

\* GREATEST(0, total_usd_cents + delta)
AddClamped(total, delta) == IF total + delta < 0 THEN 0 ELSE total + delta

\* The total before the reservation is compared with the cap.
FaultyFits(t, est, cap) ==
  /\ est <= cap
  /\ spend[UserOf[t]][today] <= cap

\* INSERT ... ON CONFLICT DO UPDATE ... WHERE total + est <= cap.  A missing
\* counter row is a total of 0: the insert path is reached with est <= cap.
Fits(t, est, cap) ==
  /\ est <= cap
  /\ spend[UserOf[t]][today] + est <= cap

ReserveRows(t, est) ==
  /\ spend' = [spend EXCEPT ![UserOf[t]][today] = @ + est]
  /\ ledger' = [ledger EXCEPT ![t] = [status |-> "reserved", day |-> today,
                                      reserved |-> est, actual |-> 0]]

Resolved(t, status, actual) ==
  [ledger[t] EXCEPT !.status = status, !.actual = actual]

\* The observed cost is added without giving the estimate back.
FaultyReconcileRows(t) ==
  IF IsOpen(t)
  THEN /\ spend' = [spend EXCEPT ![UserOf[t]][ledger[t].day] = @ + cost[t]]
       /\ ledger' = [ledger EXCEPT ![t] = Resolved(t, "reconciled", cost[t])]
  ELSE UNCHANGED rows

\* reconcileBudgetReservation: once, against the day of the reservation.
ReconcileRows(t) ==
  IF IsOpen(t)
  THEN /\ spend' = [spend EXCEPT ![UserOf[t]][ledger[t].day] =
                      AddClamped(@, cost[t] - ledger[t].reserved)]
       /\ ledger' = [ledger EXCEPT ![t] = Resolved(t, "reconciled", cost[t])]
  ELSE UNCHANGED rows

\* Neither the open status nor the clamp at 0.
FaultyReleaseRows(t) ==
  /\ spend' = [spend EXCEPT ![UserOf[t]][ledger[t].day] = @ - ledger[t].reserved]
  /\ ledger' = [ledger EXCEPT ![t] = Resolved(t, "released", 0)]

\* releaseBudgetReservation: once, and nothing stays charged.
ReleaseRows(t) ==
  IF IsOpen(t)
  THEN /\ spend' = [spend EXCEPT ![UserOf[t]][ledger[t].day] =
                      AddClamped(@, -ledger[t].reserved)]
       /\ ledger' = [ledger EXCEPT ![t] = Resolved(t, "released", 0)]
  ELSE UNCHANGED rows

-----------------------------------------------------------------------------
(* A turn: reserveTurnBudget, the model run, and one terminal callback.    *)

Reserve(t) ==
  /\ turn[t] = "idle"
  /\ \E est \in Estimates, cap \in Caps :
       /\ Fits(t, est, cap)
       /\ ReserveRows(t, est)
  /\ turn' = [turn EXCEPT ![t] = "running"]
  /\ UNCHANGED <<purged, today, cost, stale, scan>>

Refuse(t) ==
  /\ turn[t] = "idle"
  /\ \E est \in Estimates, cap \in Caps : ~ Fits(t, est, cap)
  /\ turn' = [turn EXCEPT ![t] = "refused"]
  /\ UNCHANGED <<spend, ledger, purged, today, cost, stale, scan>>

ProviderCompletes(t) ==
  /\ turn[t] = "running"
  /\ \E c \in Costs : cost' = [cost EXCEPT ![t] = c]
  /\ turn' = [turn EXCEPT ![t] = "observed"]
  /\ UNCHANGED <<spend, ledger, purged, today, stale, scan>>

ProviderFails(t) ==
  /\ turn[t] = "running"
  /\ turn' = [turn EXCEPT ![t] = "failed"]
  /\ UNCHANGED <<spend, ledger, purged, today, cost, stale, scan>>

\* The answer could not be persisted.  The streaming paths go to a catch that
\* releases; the others reconcile what they observed (the next action).
PersistFails(t) ==
  /\ turn[t] = "observed"
  /\ t \in StreamTurns
  /\ turn' = [turn EXCEPT ![t] = "failed"]
  /\ UNCHANGED <<spend, ledger, purged, today, cost, stale, scan>>

Reconcile(t) ==
  /\ turn[t] = "observed"
  /\ ReconcileRows(t)
  /\ turn' = [turn EXCEPT ![t] = "closed"]
  /\ UNCHANGED <<purged, today, cost, stale, scan>>

\* The call to the database throws, before or after the commit.  A handle
\* logs and stays open, and no caller calls it again; a review goes on to
\* its own release.
ReconcileErrors(t) ==
  /\ turn[t] = "observed"
  /\ ReconcileRows(t) \/ UNCHANGED rows
  /\ turn' = [turn EXCEPT ![t] = IF t \in JournalTurns THEN "failed" ELSE "stranded"]
  /\ UNCHANGED <<purged, today, cost, stale, scan>>

Release(t) ==
  /\ turn[t] = "failed"
  /\ ReleaseRows(t)
  /\ turn' = [turn EXCEPT ![t] = "closed"]
  /\ UNCHANGED <<purged, today, cost, stale, scan>>

ReleaseErrors(t) ==
  /\ turn[t] = "failed"
  /\ ReleaseRows(t) \/ UNCHANGED rows
  /\ turn' = [turn EXCEPT ![t] = "stranded"]
  /\ UNCHANGED <<purged, today, cost, stale, scan>>

\* The process dies, or the client abandons the stream so that neither the
\* end of the generator nor its catch is reached.
Crash(t) ==
  /\ turn[t] \in {"running", "observed", "failed"}
  /\ turn' = [turn EXCEPT ![t] = "gone"]
  /\ UNCHANGED <<spend, ledger, purged, today, cost, stale, scan>>

-----------------------------------------------------------------------------
(* The worker's recovery and retention jobs, and time.                     *)

\* No cutoff in the WHERE clause.
EagerRecoverable == {t \in Turns : IsOpen(t)}

\* Only the reservations of dead processes.
DeadRecoverable == {t \in stale : IsOpen(t) /\ turn[t] = "gone"}

\* Rows the recovery SELECT may return.  That the batch takes the oldest
\* first is abstracted: any batch of the right size is allowed.
Recoverable == {t \in stale : IsOpen(t)}

RecoveryScan(w) ==
  /\ scan[w] = {}
  /\ \E batch \in SUBSET Recoverable :
       /\ batch # {}
       /\ Cardinality(batch) <= BatchSize
       /\ batch # Recoverable => Cardinality(batch) = BatchSize
       /\ scan' = [scan EXCEPT ![w] = batch]
  /\ UNCHANGED <<spend, ledger, purged, today, turn, cost, stale>>

RecoveryRelease(w, t) ==
  /\ t \in scan[w]
  /\ ReleaseRows(t)
  /\ scan' = [scan EXCEPT ![w] = @ \ {t}]
  /\ UNCHANGED <<purged, today, turn, cost, stale>>

\* A release that throws is counted as failed and the loop goes on.
RecoveryErrors(w, t) ==
  /\ t \in scan[w]
  /\ ReleaseRows(t) \/ UNCHANGED rows
  /\ scan' = [scan EXCEPT ![w] = @ \ {t}]
  /\ UNCHANGED <<purged, today, turn, cost, stale>>

RecoveryCrash(w) ==
  /\ scan[w] # {}
  /\ scan' = [scan EXCEPT ![w] = {}]
  /\ UNCHANGED <<spend, ledger, purged, today, turn, cost, stale>>

\* Retention deletes a terminal row; the counter of its day stays.
Purge(t) ==
  /\ t \notin purged
  /\ ledger[t].status \in Terminal
  /\ purged' = purged \cup {t}
  /\ UNCHANGED <<spend, ledger, today, turn, cost, stale, scan>>

Ages(t) ==
  /\ t \notin stale
  /\ ledger[t].status = "reserved"
  /\ stale' = stale \cup {t}
  /\ UNCHANGED <<spend, ledger, purged, today, turn, cost, scan>>

Midnight ==
  /\ today < LastDay
  /\ today' = today + 1
  /\ UNCHANGED <<spend, ledger, purged, turn, cost, stale, scan>>

-----------------------------------------------------------------------------
TurnStep(t) ==
  \/ Reserve(t) \/ Refuse(t)
  \/ ProviderCompletes(t) \/ ProviderFails(t) \/ PersistFails(t)
  \/ Reconcile(t) \/ ReconcileErrors(t)
  \/ Release(t) \/ ReleaseErrors(t)
  \/ Crash(t)

Next ==
  \/ \E t \in Turns : TurnStep(t) \/ Purge(t) \/ Ages(t)
  \/ \E w \in Workers :
       \/ RecoveryScan(w) \/ RecoveryCrash(w)
       \/ \E t \in Turns : RecoveryRelease(w, t) \/ RecoveryErrors(w, t)
  \/ Midnight

Spec == Init /\ [][Next]_vars

\* The recovery job is a cron job that keeps running (every ten minutes);
\* database errors and worker restarts are transient, so a release that is
\* tried again and again succeeds in the end.  Nothing is assumed of turns.
Fairness ==
  /\ \A t \in Turns : WF_vars(Ages(t))
  /\ \E w \in Workers :
       /\ WF_vars(RecoveryScan(w))
       /\ \A t \in Turns : SF_vars(RecoveryRelease(w, t))

FairSpec == Spec /\ Fairness

-----------------------------------------------------------------------------
(* What the ledger says is charged, one element per cent, so that a sum is *)
(* the cardinality of a set.                                               *)

Charge == [t \in Turns |->
  CASE ledger[t].status = "reserved"   -> ledger[t].reserved
    [] ledger[t].status = "reconciled" -> ledger[t].actual
    [] OTHER                           -> 0]

OpenCharge == [t \in Turns |->
  IF ledger[t].status = "reserved" THEN ledger[t].reserved ELSE 0]

\* What a turn cost beyond its estimate.
Overrun == [t \in Turns |->
  IF ledger[t].status = "reconciled" /\ ledger[t].actual > ledger[t].reserved
  THEN ledger[t].actual - ledger[t].reserved ELSE 0]

TurnsOf(u, d) == {t \in Turns : UserOf[t] = u /\ ledger[t].day = d}

Cents(amount, S) == UNION {{t} \X (1 .. amount[t]) : t \in S}

-----------------------------------------------------------------------------
\* The counter of a day is exactly what the ledger rows of that day say is
\* charged, whatever callbacks, recoveries, crashes and day changes happened:
\* nothing is applied twice, lost, clamped at 0 or booked on another day
\* (reconcileBudgetReservation, releaseBudgetReservation).
CounterMatchesLedger ==
  \A u \in Users, d \in Days : spend[u][d] = Cardinality(Cents(Charge, TurnsOf(u, d)))

\* The open reservations of a user and day never exceed the largest cap, even
\* while overruns have pushed the counter above it (tryReserveBudget).
OpenWithinCap ==
  \A u \in Users, d \in Days : Cardinality(Cents(OpenCharge, TurnsOf(u, d))) <= MaxCap

\* Spend passes the cap only by what completed turns cost beyond their
\* estimates: admission itself never lets it pass.
SpendBounded ==
  \A u \in Users, d \in Days :
    spend[u][d] <= MaxCap + Cardinality(Cents(Overrun, TurnsOf(u, d)))

KeepsResolvedRows ==
  \A t \in Turns : ledger[t].status \in Terminal => ledger'[t] = ledger[t]

\* A resolved row is never resolved again, by a late callback, a second
\* callback or a recovery whose selection is out of date.
ResolvedOnce == [][KeepsResolvedRows]_vars

\* A turn whose reconciliation came through has its whole cost charged, unless
\* it outlived the recovery cutoff: the handle's "done" is not the ledger's
\* "someone else resolved it" (reconcileBudgetReservation).
SettledChargesCost ==
  [][\A t \in Turns : /\ turn[t] = "observed"
                      /\ turn'[t] = "closed"
                      /\ t \notin stale
                      => Charge'[t] = cost[t]]_vars

\* No reservation is stranded: whatever happened to the turn, its row is
\* resolved in the end (the recovery job).
NothingStranded ==
  \A t \in Turns : ledger[t].status = "reserved" ~> ledger[t].status \in Terminal

\* "Best-effort release if no model run completed": a turn's own release means
\* that no model run completed.
ReleaseMeansNoRun ==
  [][\A t \in Turns : /\ turn[t] = "failed"
                      /\ turn'[t] = "closed"
                      /\ IsOpen(t)
                      => cost[t] = 0]_vars
=============================================================================
