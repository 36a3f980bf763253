------------------------- MODULE BudgetLedgerProofs -------------------------
(***************************************************************************)
(* Theorems about the budget ledger, for every set of turns, users and     *)
(* workers and every estimate, cost and cap.                               *)
(*                                                                         *)
(* The sum of the charges of an account is the cardinality of its set of   *)
(* cents.  A step changes the cents of one turn at a time, so that the     *)
(* library's theorems on unions and differences of finite sets do the      *)
(* arithmetic and no induction over the turns is needed.                   *)
(***************************************************************************)
EXTENDS BudgetLedger, FiniteSetTheorems, TLAPS

-----------------------------------------------------------------------------
(* Type correctness.                                                       *)

LEMMA AddClampedType ==
  ASSUME NEW total \in Int, NEW delta \in Int
  PROVE  /\ AddClamped(total, delta) \in Nat
         /\ total + delta >= 0 => AddClamped(total, delta) = total + delta
BY DEF AddClamped

LEMMA DeltaTypes ==
  \A total, actual, reserved \in Nat :
    /\ AddClamped(total, actual - reserved) \in Nat
    /\ AddClamped(total, -reserved) \in Nat
BY DEF AddClamped

LEMMA SpendUpdate ==
  ASSUME TypeOK, NEW u \in Users, NEW d \in Days, NEW n \in Nat
  PROVE  [spend EXCEPT ![u][d] = n] \in [Users -> [Days -> Nat]]
BY DEF TypeOK

LEMMA LedgerUpdate ==
  ASSUME TypeOK, NEW t \in Turns, NEW r \in Row
  PROVE  [ledger EXCEPT ![t] = r] \in [Turns -> Row]
BY DEF TypeOK

LEMMA ResolvedRow ==
  ASSUME TypeOK, NEW t \in Turns, NEW s \in Terminal, NEW n \in Nat
  PROVE  Resolved(t, s, n) \in Row
BY DEF TypeOK, Row, Terminal, Resolved

LEMMA RowTypes ==
  ASSUME TypeOK, NEW t \in Turns
  PROVE  /\ ledger[t] \in Row
         /\ UserOf[t] \in Users
         /\ ledger[t].day \in Days
         /\ ledger[t].reserved \in Nat
         /\ ledger[t].actual \in Nat
         /\ cost[t] \in Nat
         /\ spend[UserOf[t]][ledger[t].day] \in Nat
BY TurnsAssumption DEF TypeOK, Row

\* Each transaction of the ledger keeps counter and rows well typed.
LEMMA TransactionTypes ==
  ASSUME TypeOK, NEW t \in Turns, ReconcileRows(t) \/ ReleaseRows(t) \/ UNCHANGED rows
  PROVE  /\ spend' \in [Users -> [Days -> Nat]]
         /\ ledger' \in [Turns -> Row]
<1>1. /\ UserOf[t] \in Users
      /\ ledger[t].day \in Days
      /\ ledger[t].reserved \in Nat
      /\ cost[t] \in Nat
      /\ spend[UserOf[t]][ledger[t].day] \in Nat
      /\ cost[t] - ledger[t].reserved \in Int
      /\ -ledger[t].reserved \in Int
  BY RowTypes
<1>2. CASE UNCHANGED rows
  BY <1>2 DEF TypeOK, rows
<1>3. CASE IsOpen(t) /\ ReconcileRows(t)
  <2>1. AddClamped(spend[UserOf[t]][ledger[t].day], cost[t] - ledger[t].reserved) \in Nat
    BY <1>1, DeltaTypes, Zenon
  <2>2. spend' \in [Users -> [Days -> Nat]]
    BY <1>1, <1>3, <2>1, SpendUpdate DEF ReconcileRows
  <2>3. ledger' \in [Turns -> Row]
    BY <1>1, <1>3, ResolvedRow, LedgerUpdate DEF ReconcileRows, Terminal
  <2> QED BY <2>2, <2>3
<1>4. CASE IsOpen(t) /\ ReleaseRows(t)
  <2>1. AddClamped(spend[UserOf[t]][ledger[t].day], -ledger[t].reserved) \in Nat
    BY <1>1, DeltaTypes, Zenon
  <2>2. spend' \in [Users -> [Days -> Nat]]
    BY <1>1, <1>4, <2>1, SpendUpdate DEF ReleaseRows
  <2>3. ledger' \in [Turns -> Row]
    BY <1>1, <1>4, ResolvedRow, LedgerUpdate DEF ReleaseRows, Terminal
  <2> QED BY <2>2, <2>3
<1> QED
  BY <1>2, <1>3, <1>4 DEF ReconcileRows, ReleaseRows

LEMMA ReserveTypes ==
  ASSUME TypeOK, NEW t \in Turns, NEW est \in Nat, ReserveRows(t, est)
  PROVE  /\ spend' \in [Users -> [Days -> Nat]]
         /\ ledger' \in [Turns -> Row]
<1>1. UserOf[t] \in Users /\ today \in Days /\ spend[UserOf[t]][today] + est \in Nat
  BY TurnsAssumption DEF TypeOK
<1>2. [status |-> "reserved", day |-> today, reserved |-> est, actual |-> 0] \in Row
  BY <1>1 DEF Row
<1> QED
  BY <1>1, <1>2, SpendUpdate, LedgerUpdate DEF ReserveRows

LEMMA TypeInit == Init => TypeOK
BY AmountsAssumption DEF Init, TypeOK, NoRow, Row, Days, TurnState

LEMMA TypeNext == TypeOK /\ [Next]_vars => TypeOK'
<1> SUFFICES ASSUME TypeOK, [Next]_vars PROVE TypeOK'
  OBVIOUS
<1>1. ASSUME NEW t \in Turns, TurnStep(t) PROVE TypeOK'
  <2>1. CASE Reserve(t)
    <3>1. PICK est \in Estimates : ReserveRows(t, est)
      BY <2>1 DEF Reserve
    <3>2. est \in Nat
      BY AmountsAssumption
    <3> QED
      BY <2>1, <3>1, <3>2, ReserveTypes DEF Reserve, TypeOK, TurnState
  <2>2. CASE ProviderCompletes(t)
    BY <2>2, AmountsAssumption DEF ProviderCompletes, TypeOK, TurnState
  <2>3. CASE Refuse(t) \/ ProviderFails(t) \/ PersistFails(t) \/ Crash(t)
    BY <2>3 DEF Refuse, ProviderFails, PersistFails, Crash, TypeOK, TurnState
  <2>4. CASE Reconcile(t) \/ ReconcileErrors(t)
    <3>1. ReconcileRows(t) \/ UNCHANGED rows
      BY <2>4 DEF Reconcile, ReconcileErrors
    <3> QED
      BY <2>4, <3>1, TransactionTypes
         DEF Reconcile, ReconcileErrors, TypeOK, TurnState
  <2>5. CASE Release(t) \/ ReleaseErrors(t)
    <3>1. ReleaseRows(t) \/ UNCHANGED rows
      BY <2>5 DEF Release, ReleaseErrors
    <3> QED
      BY <2>5, <3>1, TransactionTypes
         DEF Release, ReleaseErrors, TypeOK, TurnState
  <2> QED
    BY <1>1, <2>1, <2>2, <2>3, <2>4, <2>5 DEF TurnStep
<1>2. ASSUME NEW t \in Turns, Purge(t) \/ Ages(t) PROVE TypeOK'
  BY <1>2 DEF Purge, Ages, TypeOK
<1>3. ASSUME NEW w \in Workers, RecoveryScan(w) \/ RecoveryCrash(w) PROVE TypeOK'
  BY <1>3 DEF RecoveryScan, RecoveryCrash, Recoverable, TypeOK
<1>4. ASSUME NEW w \in Workers, NEW t \in Turns,
             RecoveryRelease(w, t) \/ RecoveryErrors(w, t)
      PROVE  TypeOK'
  <2>1. ReleaseRows(t) \/ UNCHANGED rows
    BY <1>4 DEF RecoveryRelease, RecoveryErrors
  <2>2. scan' \in [Workers -> SUBSET Turns]
    BY <1>4 DEF RecoveryRelease, RecoveryErrors, TypeOK
  <2> QED
    BY <1>4, <2>1, <2>2, TransactionTypes DEF RecoveryRelease, RecoveryErrors, TypeOK
<1>5. CASE Midnight
  BY <1>5, AmountsAssumption DEF Midnight, TypeOK, Days
<1>6. CASE UNCHANGED vars
  BY <1>6 DEF vars, TypeOK
<1> QED
  BY <1>1, <1>2, <1>3, <1>4, <1>5, <1>6 DEF Next

\* Every reachable state is well typed: in particular no counter is negative.
THEOREM TypeCorrect == Spec => []TypeOK
BY TypeInit, TypeNext, PTL DEF Spec

-----------------------------------------------------------------------------
(* Sums of cents.                                                          *)

\* The share of turn t in a sum over S.
Share(amount, t, S) == IF t \in S THEN amount[t] ELSE 0

LEMMA CentsSplit ==
  ASSUME NEW S, NEW t, NEW f
  PROVE  /\ Cents(f, S) = Cents(f, S \ {t}) \cup ({t} \X (1 .. Share(f, t, S)))
         /\ Cents(f, S \ {t}) \cap ({t} \X (1 .. Share(f, t, S))) = {}
<1>1. CASE t \in S
  BY <1>1 DEF Cents, Share
<1>2. CASE t \notin S
  <2>1. 1 .. 0 = {}
    OBVIOUS
  <2>2. {t} \X (1 .. Share(f, t, S)) = {}
    BY <1>2, <2>1 DEF Share
  <2>3. S \ {t} = S
    BY <1>2
  <2> QED BY <2>2, <2>3
<1> QED BY <1>1, <1>2

LEMMA ShareCardinality ==
  ASSUME NEW t, NEW n \in Nat
  PROVE  /\ IsFiniteSet({t} \X (1 .. n))
         /\ Cardinality({t} \X (1 .. n)) = n
<1>1. IsFiniteSet({t}) /\ Cardinality({t}) = 1
  BY FS_Singleton
<1>2. IsFiniteSet(1 .. n) /\ Cardinality(1 .. n) = n
  BY FS_Interval
<1>3. /\ IsFiniteSet({t} \X (1 .. n))
      /\ Cardinality({t} \X (1 .. n)) = Cardinality({t}) * Cardinality(1 .. n)
  BY <1>1, <1>2, FS_Product
<1>4. Cardinality({t}) * Cardinality(1 .. n) = n
  BY <1>1, <1>2
<1> QED BY <1>3, <1>4

\* When only the share of t differs, the sums differ by that share.
LEMMA CentsChange ==
  ASSUME NEW S, NEW T, NEW t, NEW f, NEW g,
         S \ {t} = T \ {t},
         \A s \in S \ {t} : f[s] = g[s],
         Share(f, t, S) \in Nat,
         Share(g, t, T) \in Nat,
         IsFiniteSet(Cents(f, S))
  PROVE  /\ IsFiniteSet(Cents(g, T))
         /\ Cardinality(Cents(f, S)) \in Nat
         /\ Share(f, t, S) <= Cardinality(Cents(f, S))
         /\ Cardinality(Cents(g, T)) =
              Cardinality(Cents(f, S)) - Share(f, t, S) + Share(g, t, T)
<1> DEFINE R == Cents(f, S \ {t})
           A == {t} \X (1 .. Share(f, t, S))
           B == {t} \X (1 .. Share(g, t, T))
<1>1. Cents(g, T \ {t}) = R
  BY DEF Cents
<1>2. /\ Cents(f, S) = R \cup A /\ R \cap A = {}
      /\ Cents(g, T) = R \cup B /\ R \cap B = {}
  BY <1>1, CentsSplit
<1>3. /\ IsFiniteSet(A) /\ Cardinality(A) = Share(f, t, S)
      /\ IsFiniteSet(B) /\ Cardinality(B) = Share(g, t, T)
  BY ShareCardinality
<1>4. IsFiniteSet(R)
  BY <1>2, FS_Subset
<1>5. Cardinality(R) \in Nat
  BY <1>4, FS_CardinalityType
<1> HIDE DEF R, A, B
<1>6. Cardinality({}) = 0
  BY FS_EmptySet
<1>7. Cardinality(R \cup A) = Cardinality(R) + Cardinality(A) - Cardinality(R \cap A)
  BY <1>3, <1>4, FS_Union
<1>8. /\ IsFiniteSet(R \cup B)
      /\ Cardinality(R \cup B) = Cardinality(R) + Cardinality(B) - Cardinality(R \cap B)
  BY <1>3, <1>4, FS_Union
<1>9. /\ Cardinality(R \cap A) = 0
      /\ Cardinality(R \cap B) = 0
  BY <1>2, <1>6
<1>10. /\ Cardinality(Cents(f, S)) = Cardinality(R) + Share(f, t, S)
       /\ Cardinality(Cents(g, T)) = Cardinality(R) + Share(g, t, T)
       /\ IsFiniteSet(Cents(g, T))
  <2>1. Cardinality(Cents(f, S)) = Cardinality(R) + Cardinality(A) - 0
    BY <1>2, <1>7, <1>9
  <2>2. Cardinality(Cents(g, T)) = Cardinality(R) + Cardinality(B) - 0
    BY <1>2, <1>8, <1>9
  <2> QED BY <1>2, <1>3, <1>5, <1>8, <2>1, <2>2
<1> QED BY <1>5, <1>10

-----------------------------------------------------------------------------
(* The counter agrees with the ledger.                                     *)

Conserved ==
  /\ \A t \in Turns : turn[t] = "idle" => ledger[t].status = "none"
  /\ \A u \in Users, d \in Days : IsFiniteSet(Cents(Charge, TurnsOf(u, d)))
  /\ CounterMatchesLedger

LEMMA ChargeType ==
  ASSUME TypeOK, NEW t \in Turns
  PROVE  /\ Charge[t] \in Nat
         /\ OpenCharge[t] \in Nat
         /\ Overrun[t] \in Nat
BY DEF TypeOK, Row, Terminal, Charge, OpenCharge, Overrun

\* If one row changes, and its account moves by the difference of its charge,
\* the counter still agrees with the ledger.
LEMMA OneRowConserves ==
  ASSUME TypeOK, TypeOK', Conserved, NEW t \in Turns,
         \A s \in Turns \ {t} : ledger'[s] = ledger[s],
         \A u \in Users, d \in Days :
           spend'[u][d] = spend[u][d] - Share(Charge, t, TurnsOf(u, d))
                                      + Share(Charge', t, TurnsOf(u, d)')
  PROVE  /\ \A u \in Users, d \in Days : IsFiniteSet(Cents(Charge, TurnsOf(u, d))')
         /\ CounterMatchesLedger'
<1> SUFFICES ASSUME NEW u \in Users, NEW d \in Days
             PROVE  /\ IsFiniteSet(Cents(Charge, TurnsOf(u, d))')
                    /\ spend'[u][d] = Cardinality(Cents(Charge, TurnsOf(u, d)))'
  BY DEF CounterMatchesLedger
<1> DEFINE S == TurnsOf(u, d)
           T == TurnsOf(u, d)'
<1>1. S \ {t} = T \ {t}
  BY DEF TurnsOf
<1>2. \A s \in S \ {t} : Charge[s] = Charge'[s]
  BY DEF TurnsOf, Charge
<1>3. Share(Charge, t, S) \in Nat /\ Share(Charge', t, T) \in Nat
  <2>1. Charge[t] \in Nat
    BY ChargeType
  <2>2. Charge'[t] \in Nat
    BY DEF TypeOK, Row, Terminal, Charge
  <2> QED BY <2>1, <2>2 DEF Share
<1>4. IsFiniteSet(Cents(Charge, S)) /\ spend[u][d] = Cardinality(Cents(Charge, S))
  BY DEF Conserved, CounterMatchesLedger
<1>5. spend'[u][d] = spend[u][d] - Share(Charge, t, S) + Share(Charge', t, T)
  OBVIOUS
<1> HIDE DEF S, T
<1>6. /\ IsFiniteSet(Cents(Charge', T))
      /\ Cardinality(Cents(Charge', T)) =
           Cardinality(Cents(Charge, S)) - Share(Charge, t, S) + Share(Charge', t, T)
  BY <1>1, <1>2, <1>3, <1>4, CentsChange
<1>7. Cents(Charge', T) = Cents(Charge, TurnsOf(u, d))'
  BY DEF T, Cents
<1> QED BY <1>4, <1>5, <1>6, <1>7

\* What each transaction does to the counters, entry by entry.
LEMMA SpendEntries ==
  ASSUME TypeOK, NEW v \in Users, NEW e \in Days, NEW n \in Nat,
         spend' = [spend EXCEPT ![v][e] = n]
  PROVE  \A u \in Users, d \in Days :
           spend'[u][d] = IF u = v /\ d = e THEN n ELSE spend[u][d]
BY DEF TypeOK

\* What a reservation does to the row of t and to the counters.
LEMMA ReserveEffect ==
  ASSUME TypeOK, Conserved, NEW t \in Turns, NEW est \in Nat,
         turn[t] = "idle", ReserveRows(t, est)
  PROVE  /\ ledger[t].status = "none"
         /\ ledger'[t].status = "reserved" /\ ledger'[t].reserved = est
         /\ ledger'[t].day = today
         /\ \A s \in Turns \ {t} : ledger'[s] = ledger[s]
         /\ \A u \in Users, d \in Days :
              spend'[u][d] = IF u = UserOf[t] /\ d = today
                             THEN spend[u][d] + est ELSE spend[u][d]
<1>1. ledger[t].status = "none"
  BY DEF Conserved
<1>2. /\ ledger'[t] = [status |-> "reserved", day |-> today,
                       reserved |-> est, actual |-> 0]
      /\ \A s \in Turns \ {t} : ledger'[s] = ledger[s]
  BY DEF ReserveRows, TypeOK
<1>3. UserOf[t] \in Users /\ today \in Days
  BY TurnsAssumption DEF TypeOK
<1>4. spend[UserOf[t]][today] \in Nat
  BY <1>3 DEF TypeOK
<1>5. spend[UserOf[t]][today] + est \in Nat
  BY <1>4
<1>6. \A u \in Users, d \in Days :
        spend'[u][d] = IF u = UserOf[t] /\ d = today
                       THEN spend[UserOf[t]][today] + est ELSE spend[u][d]
  <2> DEFINE v == UserOf[t]
              n == spend[v][today] + est
  <2>1. spend' = [spend EXCEPT ![v][today] = n]
    BY DEF ReserveRows
  <2>2. v \in Users /\ today \in Days /\ n \in Nat
    BY <1>3, <1>5
  <2> HIDE DEF v, n
  <2>3. \A u \in Users, d \in Days :
          spend'[u][d] = IF u = v /\ d = today THEN n ELSE spend[u][d]
    BY <2>1, <2>2, SpendEntries
  <2> QED BY <2>3 DEF v, n
<1>7. /\ ledger'[t].status = "reserved" /\ ledger'[t].reserved = est
      /\ ledger'[t].day = today
  BY <1>2
<1> QED BY <1>1, <1>2, <1>6, <1>7

LEMMA ReserveConserves ==
  ASSUME TypeOK, TypeOK', Conserved, NEW t \in Turns, NEW est \in Nat,
         turn[t] = "idle", turn' = [turn EXCEPT ![t] = "running"],
         ReserveRows(t, est)
  PROVE  Conserved'
<1>1. /\ ledger[t].status = "none"
      /\ ledger'[t].status = "reserved" /\ ledger'[t].reserved = est
      /\ ledger'[t].day = today
      /\ \A s \in Turns \ {t} : ledger'[s] = ledger[s]
      /\ \A u \in Users, d \in Days :
           spend'[u][d] = IF u = UserOf[t] /\ d = today
                          THEN spend[u][d] + est ELSE spend[u][d]
  BY ReserveEffect
<1>2. Charge[t] = 0 /\ Charge'[t] = est
  BY <1>1 DEF Charge
<1>3. ASSUME NEW u \in Users, NEW d \in Days
      PROVE  spend'[u][d] = spend[u][d] - Share(Charge, t, TurnsOf(u, d))
                                        + Share(Charge', t, TurnsOf(u, d)')
  <2>1. Share(Charge, t, TurnsOf(u, d)) = 0
    BY <1>2 DEF Share
  <2>2. Share(Charge', t, TurnsOf(u, d)') = IF u = UserOf[t] /\ d = today THEN est ELSE 0
    BY <1>1, <1>2 DEF Share, TurnsOf
  <2>3. spend[u][d] \in Nat
    BY DEF TypeOK
  <2> QED BY <1>1, <2>1, <2>2, <2>3
<1>4. /\ \A u \in Users, d \in Days : IsFiniteSet(Cents(Charge, TurnsOf(u, d))')
      /\ CounterMatchesLedger'
  BY <1>1, <1>3, OneRowConserves
<1>5. ASSUME NEW s \in Turns, turn'[s] = "idle"
      PROVE  ledger'[s].status = "none"
  <2>1. s # t /\ turn[s] = "idle"
    BY <1>5 DEF TypeOK
  <2> QED BY <1>1, <2>1 DEF Conserved
<1> QED BY <1>4, <1>5 DEF Conserved

\* An open reservation is part of its account's counter, so that giving it
\* back never reaches the clamp.
LEMMA OpenIsCounted ==
  ASSUME TypeOK, Conserved, NEW t \in Turns, ledger[t].status = "reserved"
  PROVE  ledger[t].reserved <= spend[UserOf[t]][ledger[t].day]
<1> DEFINE u == UserOf[t]
           d == ledger[t].day
           S == TurnsOf(u, d)
<1>1. u \in Users /\ d \in Days /\ ledger[t].reserved \in Nat
  BY RowTypes
<1>2. Share(Charge, t, S) = ledger[t].reserved
  BY DEF Share, Charge, TurnsOf
<1>3. IsFiniteSet(Cents(Charge, S)) /\ spend[u][d] = Cardinality(Cents(Charge, S))
  BY <1>1 DEF Conserved, CounterMatchesLedger
<1> HIDE DEF S
<1>4. Share(Charge, t, S) <= Cardinality(Cents(Charge, S))
  BY <1>1, <1>2, <1>3, CentsChange
<1> QED BY <1>2, <1>3, <1>4

\* Resolving the open row of t to a final charge n.
Resolves(t, status, n) ==
  /\ IsOpen(t)
  /\ status \in Terminal
  /\ status = "released" => n = 0
  /\ ledger' = [ledger EXCEPT ![t] = Resolved(t, status, n)]
  /\ spend' = [spend EXCEPT ![UserOf[t]][ledger[t].day] =
                 AddClamped(@, n - ledger[t].reserved)]

LEMMA ResolveEffect ==
  ASSUME TypeOK, Conserved, NEW t \in Turns, NEW status, NEW n \in Nat,
         Resolves(t, status, n)
  PROVE  /\ ledger[t].status = "reserved"
         /\ ledger'[t].status = status /\ ledger'[t].actual = n
         /\ ledger'[t].day = ledger[t].day
         /\ ledger'[t].reserved = ledger[t].reserved
         /\ \A s \in Turns \ {t} : ledger'[s] = ledger[s]
         /\ \A u \in Users, d \in Days :
              spend'[u][d] = IF u = UserOf[t] /\ d = ledger[t].day
                             THEN spend[u][d] + (n - ledger[t].reserved)
                             ELSE spend[u][d]
<1> DEFINE v == UserOf[t]
           e == ledger[t].day
           m == AddClamped(spend[v][e], n - ledger[t].reserved)
<1>1. /\ v \in Users /\ e \in Days
      /\ ledger[t].reserved \in Nat /\ spend[v][e] \in Nat
  BY RowTypes
<1>2. ledger[t].status = "reserved"
  BY DEF Resolves, IsOpen
<1>3. ledger[t].reserved <= spend[v][e]
  BY <1>2, OpenIsCounted
<1>4. m = spend[v][e] + (n - ledger[t].reserved)
  BY <1>1, <1>3 DEF AddClamped
<1>5. /\ ledger'[t].status = status /\ ledger'[t].actual = n
      /\ ledger'[t].day = e /\ ledger'[t].reserved = ledger[t].reserved
      /\ \A s \in Turns \ {t} : ledger'[s] = ledger[s]
  BY DEF Resolves, TypeOK, Row, Resolved
<1>6. spend' = [spend EXCEPT ![v][e] = m]
  BY DEF Resolves
<1> HIDE DEF v, e, m
<1>7. \A u \in Users, d \in Days :
        spend'[u][d] = IF u = v /\ d = e THEN m ELSE spend[u][d]
  BY <1>1, <1>6 DEF TypeOK
<1>8. \A u \in Users, d \in Days :
        spend'[u][d] = IF u = v /\ d = e
                       THEN spend[u][d] + (n - ledger[t].reserved) ELSE spend[u][d]
  BY <1>4, <1>7
<1> QED BY <1>2, <1>5, <1>8 DEF v, e

LEMMA ResolveConserves ==
  ASSUME TypeOK, TypeOK', Conserved, NEW t \in Turns, NEW status, NEW n \in Nat,
         Resolves(t, status, n),
         \A s \in Turns : turn'[s] = "idle" => turn[s] = "idle"
  PROVE  Conserved'
<1>1. /\ ledger[t].status = "reserved"
      /\ ledger'[t].status = status /\ ledger'[t].actual = n
      /\ ledger'[t].day = ledger[t].day
      /\ ledger'[t].reserved = ledger[t].reserved
      /\ \A s \in Turns \ {t} : ledger'[s] = ledger[s]
      /\ \A u \in Users, d \in Days :
           spend'[u][d] = IF u = UserOf[t] /\ d = ledger[t].day
                          THEN spend[u][d] + (n - ledger[t].reserved)
                          ELSE spend[u][d]
  BY ResolveEffect
<1>2. status \in Terminal /\ (status = "released" => n = 0)
  BY DEF Resolves
<1>3. Charge[t] = ledger[t].reserved /\ Charge'[t] = n
  BY <1>1, <1>2 DEF Charge, Terminal
<1>4. ASSUME NEW u \in Users, NEW d \in Days
      PROVE  spend'[u][d] = spend[u][d] - Share(Charge, t, TurnsOf(u, d))
                                        + Share(Charge', t, TurnsOf(u, d)')
  <2>1. Share(Charge, t, TurnsOf(u, d)) =
          IF u = UserOf[t] /\ d = ledger[t].day THEN ledger[t].reserved ELSE 0
    BY <1>3 DEF Share, TurnsOf
  <2>2. Share(Charge', t, TurnsOf(u, d)') =
          IF u = UserOf[t] /\ d = ledger[t].day THEN n ELSE 0
    BY <1>1, <1>3 DEF Share, TurnsOf
  <2>3. spend[u][d] \in Nat /\ ledger[t].reserved \in Nat
    BY RowTypes DEF TypeOK
  <2> QED BY <1>1, <2>1, <2>2, <2>3
<1>5. /\ \A u \in Users, d \in Days : IsFiniteSet(Cents(Charge, TurnsOf(u, d))')
      /\ CounterMatchesLedger'
  BY <1>1, <1>4, OneRowConserves
<1>6. ASSUME NEW s \in Turns, turn'[s] = "idle"
      PROVE  ledger'[s].status = "none"
  <2>1. ledger[s].status = "none"
    BY <1>6 DEF Conserved
  <2> QED BY <1>1, <2>1
<1> QED BY <1>5, <1>6 DEF Conserved

\* Every transaction leaves the rows alone or resolves the open row of t.
LEMMA TransactionCases ==
  ASSUME TypeOK, NEW t \in Turns,
         ReconcileRows(t) \/ ReleaseRows(t) \/ UNCHANGED rows
  PROVE  \/ UNCHANGED rows
         \/ \E status \in Terminal, n \in Nat : Resolves(t, status, n)
<1>1. CASE IsOpen(t) /\ ReconcileRows(t)
  <2>1. Resolves(t, "reconciled", cost[t])
    BY <1>1 DEF ReconcileRows, Resolves, Terminal
  <2> QED BY <2>1, RowTypes DEF Terminal
<1>2. CASE IsOpen(t) /\ ReleaseRows(t)
  <2>1. AddClamped(spend[UserOf[t]][ledger[t].day], -ledger[t].reserved)
          = AddClamped(spend[UserOf[t]][ledger[t].day], 0 - ledger[t].reserved)
    <3>1. 0 - ledger[t].reserved = -ledger[t].reserved
      BY RowTypes
    <3> QED BY <3>1
  <2>2. spend' = [spend EXCEPT ![UserOf[t]][ledger[t].day] =
                    AddClamped(@, 0 - ledger[t].reserved)]
    BY <1>2, <2>1 DEF ReleaseRows
  <2>3. Resolves(t, "released", 0)
    BY <1>2, <2>2 DEF ReleaseRows, Resolves, Terminal
  <2> QED BY <2>3 DEF Terminal
<1> QED BY <1>1, <1>2 DEF ReconcileRows, ReleaseRows

\* The three kinds of step, as far as the rows are concerned.
StartsReservation(t, est, cap) ==
  /\ turn[t] = "idle"
  /\ turn' = [turn EXCEPT ![t] = "running"]
  /\ Fits(t, est, cap)
  /\ ReserveRows(t, est)

LEMMA StepKinds ==
  ASSUME TypeOK, [Next]_vars
  PROVE  /\ \/ UNCHANGED rows
            \/ \E t \in Turns, est \in Estimates, cap \in Caps :
                 StartsReservation(t, est, cap)
            \/ \E t \in Turns, status \in Terminal, n \in Nat : Resolves(t, status, n)
         /\ \A s \in Turns : turn'[s] = "idle" => turn[s] = "idle"
<1> DEFINE Kinds ==
             \/ UNCHANGED rows
             \/ \E t \in Turns, est \in Estimates, cap \in Caps :
                  StartsReservation(t, est, cap)
             \/ \E t \in Turns, status \in Terminal, n \in Nat : Resolves(t, status, n)
           NoneIdle == \A s \in Turns : turn'[s] = "idle" => turn[s] = "idle"
<1>1. ASSUME NEW t \in Turns, TurnStep(t) PROVE Kinds /\ NoneIdle
  <2>1. CASE Reserve(t)
    <3>1. Kinds
      BY <2>1 DEF Reserve, StartsReservation
    <3>2. NoneIdle
      BY <2>1 DEF Reserve, TypeOK
    <3> QED BY <3>1, <3>2
  <2>2. CASE \/ Refuse(t) \/ ProviderCompletes(t) \/ ProviderFails(t)
             \/ PersistFails(t) \/ Crash(t)
    <3>1. Kinds
      BY <2>2 DEF Refuse, ProviderCompletes, ProviderFails, PersistFails, Crash, rows
    <3>2. NoneIdle
      BY <2>2 DEF Refuse, ProviderCompletes, ProviderFails, PersistFails, Crash, TypeOK
    <3> QED BY <3>1, <3>2
  <2>3. CASE \/ Reconcile(t) \/ ReconcileErrors(t) \/ Release(t) \/ ReleaseErrors(t)
    <3>1. ReconcileRows(t) \/ ReleaseRows(t) \/ UNCHANGED rows
      BY <2>3 DEF Reconcile, ReconcileErrors, Release, ReleaseErrors
    <3>2. NoneIdle
      BY <2>3 DEF Reconcile, ReconcileErrors, Release, ReleaseErrors, TypeOK
    <3> QED BY <3>1, <3>2, TransactionCases
  <2> QED BY <1>1, <2>1, <2>2, <2>3 DEF TurnStep
<1>2. ASSUME NEW w \in Workers, NEW t \in Turns,
             RecoveryRelease(w, t) \/ RecoveryErrors(w, t)
      PROVE  Kinds /\ NoneIdle
  <2>1. (ReleaseRows(t) \/ UNCHANGED rows) /\ turn' = turn
    BY <1>2 DEF RecoveryRelease, RecoveryErrors
  <2> QED BY <2>1, TransactionCases
<1>3. ASSUME UNCHANGED <<spend, ledger, turn>> PROVE Kinds /\ NoneIdle
  BY <1>3 DEF rows
<1>4. ASSUME NEW t \in Turns, Purge(t) \/ Ages(t) PROVE UNCHANGED <<spend, ledger, turn>>
  BY <1>4 DEF Purge, Ages
<1>5. ASSUME NEW w \in Workers, RecoveryScan(w) \/ RecoveryCrash(w)
      PROVE  UNCHANGED <<spend, ledger, turn>>
  BY <1>5 DEF RecoveryScan, RecoveryCrash
<1>6. Midnight \/ UNCHANGED vars => UNCHANGED <<spend, ledger, turn>>
  BY DEF Midnight, vars
<1> HIDE DEF Kinds, NoneIdle
<1>7. Kinds /\ NoneIdle
  BY <1>1, <1>2, <1>3, <1>4, <1>5, <1>6 DEF Next
<1> QED BY <1>7 DEF Kinds, NoneIdle

LEMMA ConservedInit == Init => Conserved
<1> SUFFICES ASSUME Init PROVE Conserved
  OBVIOUS
<1>1. \A t \in Turns : Charge[t] = 0
  BY DEF Init, NoRow, Charge
<1>2. ASSUME NEW u \in Users, NEW d \in Days
      PROVE  Cents(Charge, TurnsOf(u, d)) = {}
  <2>1. 1 .. 0 = {}
    OBVIOUS
  <2> QED BY <1>1, <2>1 DEF Cents, TurnsOf
<1>3. IsFiniteSet({}) /\ Cardinality({}) = 0
  BY FS_EmptySet
<1>4. CounterMatchesLedger
  BY <1>2, <1>3 DEF Init, CounterMatchesLedger
<1> QED BY <1>2, <1>3, <1>4 DEF Init, Conserved, NoRow

LEMMA ConservedNext == TypeOK /\ TypeOK' /\ Conserved /\ [Next]_vars => Conserved'
<1> SUFFICES ASSUME TypeOK, TypeOK', Conserved, [Next]_vars PROVE Conserved'
  OBVIOUS
<1>1. \A s \in Turns : turn'[s] = "idle" => turn[s] = "idle"
  BY StepKinds
<1>2. CASE UNCHANGED rows
  BY <1>1, <1>2 DEF rows, Conserved, CounterMatchesLedger, Charge, TurnsOf, Cents
<1>3. ASSUME NEW t \in Turns, NEW est \in Estimates, NEW cap \in Caps,
             StartsReservation(t, est, cap)
      PROVE  Conserved'
  <2>1. est \in Nat
    BY AmountsAssumption
  <2> QED BY <1>3, <2>1, ReserveConserves DEF StartsReservation
<1>4. ASSUME NEW t \in Turns, NEW status \in Terminal, NEW n \in Nat,
             Resolves(t, status, n)
      PROVE  Conserved'
  BY <1>1, <1>4, ResolveConserves
<1> QED BY <1>2, <1>3, <1>4, StepKinds

\* The counter of every user and day is always exactly what the ledger rows of
\* that day charge, whatever callbacks, recoveries and crashes interleave.
THEOREM Conservation == Spec => []CounterMatchesLedger
<1>1. TypeOK /\ Conserved /\ [Next]_vars => (TypeOK /\ Conserved)'
  BY TypeNext, ConservedNext
<1>2. Init => TypeOK /\ Conserved
  BY TypeInit, ConservedInit
<1>3. Conserved => CounterMatchesLedger
  BY DEF Conserved
<1> QED BY <1>1, <1>2, <1>3, PTL DEF Spec

-----------------------------------------------------------------------------
(* The cap.  The invariant adds to Conserved that the cents of overrun are *)
(* finitely many; the open cents are, being among the charged ones.        *)

WithinCap ==
  /\ \A u \in Users, d \in Days : IsFiniteSet(Cents(Overrun, TurnsOf(u, d)))
  /\ OpenWithinCap
  /\ SpendBounded

LEMMA OpenBelowSpend ==
  ASSUME TypeOK, Conserved, NEW u \in Users, NEW d \in Days
  PROVE  /\ IsFiniteSet(Cents(OpenCharge, TurnsOf(u, d)))
         /\ Cardinality(Cents(OpenCharge, TurnsOf(u, d))) <= spend[u][d]
         /\ Cardinality(Cents(OpenCharge, TurnsOf(u, d))) \in Nat
         /\ spend[u][d] \in Nat
<1>1. ASSUME NEW t \in Turns PROVE OpenCharge[t] = Charge[t] \/ OpenCharge[t] = 0
  BY DEF OpenCharge, Charge
<1>2. \A t \in Turns : 1 .. OpenCharge[t] \subseteq 1 .. Charge[t]
  BY <1>1, ChargeType
<1>3. Cents(OpenCharge, TurnsOf(u, d)) \subseteq Cents(Charge, TurnsOf(u, d))
  BY <1>2 DEF Cents, TurnsOf
<1>4. /\ IsFiniteSet(Cents(Charge, TurnsOf(u, d)))
      /\ spend[u][d] = Cardinality(Cents(Charge, TurnsOf(u, d)))
  BY DEF Conserved, CounterMatchesLedger
<1>5. /\ IsFiniteSet(Cents(OpenCharge, TurnsOf(u, d)))
      /\ Cardinality(Cents(OpenCharge, TurnsOf(u, d)))
           <= Cardinality(Cents(Charge, TurnsOf(u, d)))
  BY <1>3, <1>4, FS_Subset
<1>6. Cardinality(Cents(OpenCharge, TurnsOf(u, d))) \in Nat
  BY <1>5, FS_CardinalityType
<1> QED BY <1>4, <1>5, <1>6 DEF TypeOK

LEMMA ReserveWithinCap ==
  ASSUME TypeOK, TypeOK', Conserved, WithinCap, NEW t \in Turns,
         NEW est \in Nat, NEW cap \in Caps,
         turn[t] = "idle", Fits(t, est, cap), ReserveRows(t, est)
  PROVE  WithinCap'
<1>1. /\ ledger[t].status = "none"
      /\ ledger'[t].status = "reserved" /\ ledger'[t].reserved = est
      /\ ledger'[t].day = today
      /\ \A s \in Turns \ {t} : ledger'[s] = ledger[s]
      /\ \A u \in Users, d \in Days :
           spend'[u][d] = IF u = UserOf[t] /\ d = today
                          THEN spend[u][d] + est ELSE spend[u][d]
  BY ReserveEffect
<1>2. /\ OpenCharge[t] = 0 /\ OpenCharge'[t] = est
      /\ Overrun[t] = 0 /\ Overrun'[t] = 0
  BY <1>1 DEF OpenCharge, Overrun
<1>3. ASSUME NEW u \in Users, NEW d \in Days
      PROVE  /\ IsFiniteSet(Cents(Overrun, TurnsOf(u, d))')
             /\ Cardinality(Cents(OpenCharge, TurnsOf(u, d)))' <= MaxCap
             /\ spend'[u][d] <= MaxCap + Cardinality(Cents(Overrun, TurnsOf(u, d)))'
  <2> DEFINE S == TurnsOf(u, d)
             T == TurnsOf(u, d)'
             here == u = UserOf[t] /\ d = today
  <2>1. S \ {t} = T \ {t}
    BY <1>1 DEF TurnsOf
  <2>2. \A s \in S \ {t} : OpenCharge[s] = OpenCharge'[s] /\ Overrun[s] = Overrun'[s]
    BY <1>1 DEF TurnsOf, OpenCharge, Overrun
  <2>3. /\ Share(OpenCharge, t, S) = 0
        /\ Share(OpenCharge', t, T) = IF here THEN est ELSE 0
        /\ Share(Overrun, t, S) = 0
        /\ Share(Overrun', t, T) = 0
    BY <1>1, <1>2 DEF Share, TurnsOf
  <2>4. /\ IsFiniteSet(Cents(OpenCharge, S))
        /\ Cardinality(Cents(OpenCharge, S)) <= spend[u][d]
        /\ Cardinality(Cents(OpenCharge, S)) \in Nat
        /\ spend[u][d] \in Nat
    BY OpenBelowSpend
  <2>5. /\ IsFiniteSet(Cents(Overrun, S))
        /\ Cardinality(Cents(OpenCharge, S)) <= MaxCap
        /\ spend[u][d] <= MaxCap + Cardinality(Cents(Overrun, S))
    BY DEF WithinCap, OpenWithinCap, SpendBounded
  <2>6. MaxCap \in Nat /\ cap \in Nat /\ cap <= MaxCap
    BY AmountsAssumption
  <2>7. here => spend[u][d] + est <= cap
    BY DEF Fits
  <2>8. spend'[u][d] = IF here THEN spend[u][d] + est ELSE spend[u][d]
    BY <1>1
  <2>9. Cents(Overrun', T) = Cents(Overrun, TurnsOf(u, d))'
        /\ Cents(OpenCharge', T) = Cents(OpenCharge, TurnsOf(u, d))'
    BY DEF Cents
  <2> HIDE DEF S, T, here
  <2>10. Cardinality(Cents(OpenCharge', T)) =
           Cardinality(Cents(OpenCharge, S)) - 0 + (IF here THEN est ELSE 0)
    BY <2>1, <2>2, <2>3, <2>4, CentsChange
  <2>11. /\ IsFiniteSet(Cents(Overrun', T))
         /\ Cardinality(Cents(Overrun, S)) \in Nat
         /\ Cardinality(Cents(Overrun', T)) = Cardinality(Cents(Overrun, S)) - 0 + 0
    BY <2>1, <2>2, <2>3, <2>5, CentsChange
  <2>12. Cardinality(Cents(OpenCharge', T)) <= MaxCap
    BY <2>4, <2>5, <2>6, <2>7, <2>10
  <2>13. spend'[u][d] <= MaxCap + Cardinality(Cents(Overrun', T))
    BY <2>4, <2>5, <2>6, <2>7, <2>8, <2>11
  <2> QED BY <2>9, <2>11, <2>12, <2>13
<1> QED BY <1>3 DEF WithinCap, OpenWithinCap, SpendBounded

LEMMA ResolveWithinCap ==
  ASSUME TypeOK, TypeOK', Conserved, WithinCap, NEW t \in Turns,
         NEW status \in Terminal, NEW n \in Nat, Resolves(t, status, n)
  PROVE  WithinCap'
<1> DEFINE over == IF n > ledger[t].reserved THEN n - ledger[t].reserved ELSE 0
<1>1. /\ ledger[t].status = "reserved"
      /\ ledger'[t].status = status /\ ledger'[t].actual = n
      /\ ledger'[t].day = ledger[t].day
      /\ ledger'[t].reserved = ledger[t].reserved
      /\ \A s \in Turns \ {t} : ledger'[s] = ledger[s]
      /\ \A u \in Users, d \in Days :
           spend'[u][d] = IF u = UserOf[t] /\ d = ledger[t].day
                          THEN spend[u][d] + (n - ledger[t].reserved)
                          ELSE spend[u][d]
  BY ResolveEffect
<1>2. /\ status = "released" => n = 0
      /\ ledger[t].reserved \in Nat
  BY RowTypes DEF Resolves
<1>3. /\ OpenCharge[t] = ledger[t].reserved /\ OpenCharge'[t] = 0
      /\ Overrun[t] = 0 /\ Overrun'[t] = over
  BY <1>1, <1>2 DEF OpenCharge, Overrun, Terminal
<1>4. over \in Nat /\ n - ledger[t].reserved <= over
  BY <1>2
<1> HIDE DEF over
<1>5. ASSUME NEW u \in Users, NEW d \in Days
      PROVE  /\ IsFiniteSet(Cents(Overrun, TurnsOf(u, d))')
             /\ Cardinality(Cents(OpenCharge, TurnsOf(u, d)))' <= MaxCap
             /\ spend'[u][d] <= MaxCap + Cardinality(Cents(Overrun, TurnsOf(u, d)))'
  <2> DEFINE S == TurnsOf(u, d)
             T == TurnsOf(u, d)'
             here == u = UserOf[t] /\ d = ledger[t].day
             held == IF here THEN ledger[t].reserved ELSE 0
             more == IF here THEN over ELSE 0
             moved == IF here THEN n - ledger[t].reserved ELSE 0
  <2>1. S \ {t} = T \ {t}
    BY <1>1 DEF TurnsOf
  <2>2. \A s \in S \ {t} : OpenCharge[s] = OpenCharge'[s] /\ Overrun[s] = Overrun'[s]
    BY <1>1 DEF TurnsOf, OpenCharge, Overrun
  <2>3. /\ Share(OpenCharge, t, S) = held
        /\ Share(OpenCharge', t, T) = 0
        /\ Share(Overrun, t, S) = 0
        /\ Share(Overrun', t, T) = more
    BY <1>1, <1>3 DEF Share, TurnsOf
  <2>4. /\ IsFiniteSet(Cents(OpenCharge, S))
        /\ Cardinality(Cents(OpenCharge, S)) \in Nat
        /\ spend[u][d] \in Nat
    BY OpenBelowSpend
  <2>5. /\ IsFiniteSet(Cents(Overrun, S))
        /\ Cardinality(Cents(OpenCharge, S)) <= MaxCap
        /\ spend[u][d] <= MaxCap + Cardinality(Cents(Overrun, S))
    BY DEF WithinCap, OpenWithinCap, SpendBounded
  <2>6. MaxCap \in Nat
    BY AmountsAssumption
  <2>7. held \in Nat /\ more \in Nat /\ moved \in Int /\ moved <= more
    BY <1>2, <1>4
  <2>8. spend'[u][d] = spend[u][d] + moved
    BY <1>1, <2>4
  <2>9. Cents(Overrun', T) = Cents(Overrun, TurnsOf(u, d))'
        /\ Cents(OpenCharge', T) = Cents(OpenCharge, TurnsOf(u, d))'
    BY DEF Cents
  <2> HIDE DEF S, T, here, held, more, moved
  <2>10. Cardinality(Cents(OpenCharge', T)) = Cardinality(Cents(OpenCharge, S)) - held + 0
    BY <2>1, <2>2, <2>3, <2>4, <2>7, CentsChange
  <2>11. /\ IsFiniteSet(Cents(Overrun', T))
         /\ Cardinality(Cents(Overrun, S)) \in Nat
         /\ Cardinality(Cents(Overrun', T)) = Cardinality(Cents(Overrun, S)) - 0 + more
    BY <2>1, <2>2, <2>3, <2>5, <2>7, CentsChange
  <2>12. Cardinality(Cents(OpenCharge', T)) <= MaxCap
    BY <2>4, <2>5, <2>6, <2>7, <2>10
  <2>13. spend'[u][d] <= MaxCap + Cardinality(Cents(Overrun', T))
    BY <2>4, <2>5, <2>6, <2>7, <2>8, <2>11
  <2> QED BY <2>9, <2>11, <2>12, <2>13
<1> QED BY <1>5 DEF WithinCap, OpenWithinCap, SpendBounded

LEMMA WithinCapNext ==
  TypeOK /\ TypeOK' /\ Conserved /\ WithinCap /\ [Next]_vars => WithinCap'
<1> SUFFICES ASSUME TypeOK, TypeOK', Conserved, WithinCap, [Next]_vars PROVE WithinCap'
  OBVIOUS
<1>1. CASE UNCHANGED rows
  BY <1>1 DEF rows, WithinCap, OpenWithinCap, SpendBounded, OpenCharge, Overrun,
              TurnsOf, Cents
<1>2. ASSUME NEW t \in Turns, NEW est \in Estimates, NEW cap \in Caps,
             StartsReservation(t, est, cap)
      PROVE  WithinCap'
  <2>1. est \in Nat
    BY AmountsAssumption
  <2> QED BY <1>2, <2>1, ReserveWithinCap DEF StartsReservation
<1>3. ASSUME NEW t \in Turns, NEW status \in Terminal, NEW n \in Nat,
             Resolves(t, status, n)
      PROVE  WithinCap'
  BY <1>3, ResolveWithinCap
<1> QED BY <1>1, <1>2, <1>3, StepKinds

LEMMA WithinCapInit == Init => WithinCap
<1> SUFFICES ASSUME Init PROVE WithinCap
  OBVIOUS
<1>1. \A t \in Turns : OpenCharge[t] = 0 /\ Overrun[t] = 0
  BY DEF Init, NoRow, OpenCharge, Overrun
<1>2. ASSUME NEW u \in Users, NEW d \in Days
      PROVE  /\ Cents(OpenCharge, TurnsOf(u, d)) = {}
             /\ Cents(Overrun, TurnsOf(u, d)) = {}
  <2>1. 1 .. 0 = {}
    OBVIOUS
  <2> QED BY <1>1, <2>1 DEF Cents, TurnsOf
<1>3. IsFiniteSet({}) /\ Cardinality({}) = 0
  BY FS_EmptySet
<1>4. OpenWithinCap
  BY <1>2, <1>3, AmountsAssumption DEF OpenWithinCap
<1>5. SpendBounded
  <2>1. ASSUME NEW u \in Users, NEW d \in Days
        PROVE  spend[u][d] <= MaxCap + Cardinality(Cents(Overrun, TurnsOf(u, d)))
    <3>1. spend[u][d] = 0
      BY <2>1 DEF Init
    <3>2. Cardinality(Cents(Overrun, TurnsOf(u, d))) = 0
      BY <2>1, <1>2, <1>3
    <3> QED BY <3>1, <3>2, AmountsAssumption
  <2> QED BY <2>1 DEF SpendBounded
<1> QED BY <1>2, <1>3, <1>4, <1>5 DEF WithinCap

\* The open reservations of a user and day never exceed the largest cap.
THEOREM AdmissionWithinCap == Spec => []OpenWithinCap
<1>1. TypeOK /\ Conserved /\ WithinCap /\ [Next]_vars => (TypeOK /\ Conserved /\ WithinCap)'
  BY TypeNext, ConservedNext, WithinCapNext
<1>2. Init => TypeOK /\ Conserved /\ WithinCap
  BY TypeInit, ConservedInit, WithinCapInit
<1>3. WithinCap => OpenWithinCap
  BY DEF WithinCap
<1> QED BY <1>1, <1>2, <1>3, PTL DEF Spec

\* The counter passes the largest cap only by the overruns of completed turns.
THEOREM OverrunBoundsSpend == Spec => []SpendBounded
<1>1. TypeOK /\ Conserved /\ WithinCap /\ [Next]_vars => (TypeOK /\ Conserved /\ WithinCap)'
  BY TypeNext, ConservedNext, WithinCapNext
<1>2. Init => TypeOK /\ Conserved /\ WithinCap
  BY TypeInit, ConservedInit, WithinCapInit
<1>3. WithinCap => SpendBounded
  BY DEF WithinCap
<1> QED BY <1>1, <1>2, <1>3, PTL DEF Spec

-----------------------------------------------------------------------------
\* A resolved row keeps its outcome: no second callback, late callback or
\* recovery of an out-of-date selection ever changes it.
THEOREM Resolution == Spec => ResolvedOnce
<1>1. ASSUME TypeOK, Conserved, [Next]_vars
      PROVE  KeepsResolvedRows
  <2> SUFFICES ASSUME NEW s \in Turns, ledger[s].status \in Terminal
               PROVE  ledger'[s] = ledger[s]
    BY DEF KeepsResolvedRows
  <2>1. CASE UNCHANGED rows
    BY <2>1 DEF rows
  <2>2. ASSUME NEW t \in Turns, NEW est \in Estimates, NEW cap \in Caps,
               StartsReservation(t, est, cap)
        PROVE  ledger'[s] = ledger[s]
    <3>1. est \in Nat
      BY AmountsAssumption
    <3>2. /\ turn[t] = "idle"
          /\ ReserveRows(t, est)
      BY <2>2 DEF StartsReservation
    <3>3. /\ ledger[t].status = "none"
          /\ \A r \in Turns \ {t} : ledger'[r] = ledger[r]
      BY <1>1, <3>1, <3>2, ReserveEffect
    <3> QED BY <3>3 DEF Terminal
  <2>3. ASSUME NEW t \in Turns, NEW status \in Terminal, NEW n \in Nat,
               Resolves(t, status, n)
        PROVE  ledger'[s] = ledger[s]
    <3>1. /\ ledger[t].status = "reserved"
          /\ \A r \in Turns \ {t} : ledger'[r] = ledger[r]
      BY <1>1, <2>3, ResolveEffect
    <3> QED BY <3>1 DEF Terminal
  <2> QED BY <1>1, <2>1, <2>2, <2>3, StepKinds
<1>2. TypeOK /\ Conserved /\ [Next]_vars => (TypeOK /\ Conserved)'
  BY TypeNext, ConservedNext
<1>3. Init => TypeOK /\ Conserved
  BY TypeInit, ConservedInit
<1>4. TypeOK /\ Conserved /\ [Next]_vars => [KeepsResolvedRows]_vars
  BY <1>1
<1> QED BY <1>2, <1>3, <1>4, PTL DEF Spec, ResolvedOnce

-----------------------------------------------------------------------------
(* What a completed turn is charged.  Only recovery resolves a row behind  *)
(* its turn's back, and it selects stale rows only: the row of a turn that *)
(* is still at work inside the cutoff is open.                             *)

HeldWhileFresh ==
  /\ \A t \in purged : ledger[t].status \in Terminal
  /\ \A w \in Workers : scan[w] \subseteq stale
  /\ \A t \in Turns : turn[t] = "idle" => ledger[t].status = "none"
  /\ \A t \in Turns : turn[t] \in {"running", "observed"} /\ t \notin stale
                      => ledger[t].status = "reserved"

\* A transaction touches one row, and leaves a resolved row as it is.
LEMMA TransactionRows ==
  ASSUME TypeOK, NEW t \in Turns, ReconcileRows(t) \/ ReleaseRows(t) \/ UNCHANGED rows
  PROVE  /\ \A s \in Turns \ {t} : ledger'[s] = ledger[s]
         /\ ledger[t].status # "reserved" => ledger'[t] = ledger[t]
         /\ ledger[t].status = "reserved" => ledger'[t].status \in Terminal \cup {"reserved"}
<1>1. CASE UNCHANGED rows
  BY <1>1 DEF rows
<1>2. CASE ~ UNCHANGED rows
  <2>1. PICK status \in Terminal, n \in Nat :
          ledger' = [ledger EXCEPT ![t] = Resolved(t, status, n)] /\ IsOpen(t)
    BY <1>2, RowTypes DEF ReconcileRows, ReleaseRows, Terminal
  <2>2. ledger'[t] = [ledger[t] EXCEPT !.status = status, !.actual = n]
    BY <2>1 DEF Resolved, TypeOK
  <2>3. ledger'[t].status = status
    BY <2>2, RowTypes DEF Row
  <2> QED BY <2>1, <2>3 DEF TypeOK, IsOpen
<1> QED BY <1>1, <1>2

LEMMA HeldInit == Init => HeldWhileFresh
BY DEF Init, HeldWhileFresh, NoRow

LEMMA HeldNext == TypeOK /\ HeldWhileFresh /\ [Next]_vars => HeldWhileFresh'
<1> SUFFICES ASSUME TypeOK, HeldWhileFresh, [Next]_vars PROVE HeldWhileFresh'
  OBVIOUS
<1>1. ASSUME NEW t \in Turns, TurnStep(t) PROVE HeldWhileFresh'
  <2>1. CASE Reserve(t)
    <3>1. PICK est \in Estimates : ReserveRows(t, est)
      BY <2>1 DEF Reserve
    <3>2. /\ ledger'[t].status = "reserved"
          /\ \A s \in Turns \ {t} : ledger'[s] = ledger[s]
      BY <3>1 DEF ReserveRows, TypeOK
    <3>3. t \notin purged
      BY <2>1 DEF Reserve, HeldWhileFresh, Terminal
    <3> QED BY <2>1, <3>2, <3>3 DEF Reserve, HeldWhileFresh, TypeOK
  <2>2. CASE Refuse(t) \/ ProviderCompletes(t) \/ ProviderFails(t)
               \/ PersistFails(t) \/ Crash(t)
    BY <2>2 DEF Refuse, ProviderCompletes, ProviderFails, PersistFails, Crash,
                HeldWhileFresh, TypeOK
  <2>3. CASE Reconcile(t) \/ ReconcileErrors(t) \/ Release(t) \/ ReleaseErrors(t)
    <3>1. ReconcileRows(t) \/ ReleaseRows(t) \/ UNCHANGED rows
      BY <2>3 DEF Reconcile, ReconcileErrors, Release, ReleaseErrors
    <3>2. /\ turn[t] # "idle"
          /\ turn'[t] \notin {"idle", "running", "observed"}
          /\ \A s \in Turns \ {t} : turn'[s] = turn[s]
          /\ UNCHANGED <<purged, stale, scan>>
      BY <2>3 DEF Reconcile, ReconcileErrors, Release, ReleaseErrors, TypeOK
    <3> QED BY <3>1, <3>2, TransactionRows DEF HeldWhileFresh, Terminal, TypeOK
  <2> QED BY <1>1, <2>1, <2>2, <2>3 DEF TurnStep
<1>2. ASSUME NEW t \in Turns, Purge(t) \/ Ages(t) PROVE HeldWhileFresh'
  BY <1>2 DEF Purge, Ages, HeldWhileFresh
<1>3. ASSUME NEW w \in Workers, RecoveryScan(w) \/ RecoveryCrash(w) PROVE HeldWhileFresh'
  BY <1>3 DEF RecoveryScan, RecoveryCrash, Recoverable, HeldWhileFresh, TypeOK
<1>4. ASSUME NEW w \in Workers, NEW t \in Turns,
             RecoveryRelease(w, t) \/ RecoveryErrors(w, t)
      PROVE  HeldWhileFresh'
  <2>1. /\ ReleaseRows(t) \/ UNCHANGED rows
        /\ t \in stale
        /\ \A v \in Workers : scan'[v] \subseteq stale
        /\ UNCHANGED <<purged, turn, stale>>
    BY <1>4 DEF RecoveryRelease, RecoveryErrors, HeldWhileFresh, TypeOK
  <2>2. ledger[t].status = "none" => ledger'[t] = ledger[t]
    BY <2>1, TransactionRows
  <2> QED BY <2>1, <2>2, TransactionRows DEF HeldWhileFresh, Terminal, TypeOK
<1>5. CASE Midnight \/ UNCHANGED vars
  BY <1>5 DEF Midnight, vars, HeldWhileFresh
<1> QED BY <1>1, <1>2, <1>3, <1>4, <1>5 DEF Next

\* A turn leaves "observed" for "closed" only through its own reconciliation.
LEMMA ClosesByReconcile ==
  ASSUME TypeOK, [Next]_vars, NEW t \in Turns,
         turn[t] = "observed", turn'[t] = "closed"
  PROVE  Reconcile(t)
<1>1. turn' # turn
  OBVIOUS
<1>2. PICK s \in Turns : TurnStep(s)
  BY <1>1 DEF Next, Purge, Ages, RecoveryScan, RecoveryCrash, RecoveryRelease,
              RecoveryErrors, Midnight, vars
<1>3. s = t
  BY <1>2 DEF TurnStep, Reserve, Refuse, ProviderCompletes, ProviderFails, PersistFails,
              Reconcile, ReconcileErrors, Release, ReleaseErrors, Crash, TypeOK
<1> QED
  BY <1>2, <1>3 DEF TurnStep, Reserve, Refuse, ProviderCompletes, ProviderFails,
              PersistFails, Reconcile, ReconcileErrors, Release, ReleaseErrors, Crash,
              TypeOK

\* A turn that reconciles inside the recovery cutoff has its whole cost charged.
THEOREM Settlement == Spec => SettledChargesCost
<1> DEFINE Settles == \A t \in Turns : /\ turn[t] = "observed"
                                       /\ turn'[t] = "closed"
                                       /\ t \notin stale
                                       => Charge'[t] = cost[t]
<1>1. ASSUME TypeOK, HeldWhileFresh, [Next]_vars PROVE Settles
  <2> SUFFICES ASSUME NEW t \in Turns, turn[t] = "observed", turn'[t] = "closed",
                      t \notin stale
               PROVE  Charge'[t] = cost[t]
    OBVIOUS
  <2>1. Reconcile(t)
    BY <1>1, ClosesByReconcile
  <2>2. IsOpen(t)
    BY <1>1 DEF HeldWhileFresh, IsOpen, Terminal
  <2>3. ledger'[t] = [ledger[t] EXCEPT !.status = "reconciled", !.actual = cost[t]]
    BY <1>1, <2>1, <2>2 DEF Reconcile, ReconcileRows, Resolved, TypeOK
  <2>4. ledger'[t].status = "reconciled" /\ ledger'[t].actual = cost[t]
    BY <1>1, <2>3, RowTypes DEF Row
  <2> QED BY <2>4 DEF Charge
<1>2. TypeOK /\ HeldWhileFresh /\ [Next]_vars => (TypeOK /\ HeldWhileFresh)'
  BY TypeNext, HeldNext
<1>3. Init => TypeOK /\ HeldWhileFresh
  BY TypeInit, HeldInit
<1>4. TypeOK /\ HeldWhileFresh /\ [Next]_vars => [Settles]_vars
  BY <1>1
<1> QED BY <1>2, <1>3, <1>4, PTL DEF Spec, SettledChargesCost
=============================================================================
