---------------------------- MODULE WorkerProofs ----------------------------
(***************************************************************************)
(* Safety of two parts of the worker that share no state: its daily job    *)
(* (CronScheduler), for any processes and invocations, and its market      *)
(* streams (MarketStreams), for any symbols and any hub connections.       *)
(***************************************************************************)
EXTENDS CronScheduler, MarketStreams, TLAPS

-----------------------------------------------------------------------------
(* How a step changes the table of invocations.                             *)

LEMMA GoesInv ==
  ASSUME CronTypeOK, NEW i \in Invocations, NEW phase \in Phase, Goes(i, phase)
  PROVE  /\ inv' \in [Invocations -> Inv]
         /\ inv'[i].phase = phase /\ inv'[i].locked = inv[i].locked
         /\ \A j \in Invocations : j # i => inv'[j] = inv[j]
BY DEF CronTypeOK, Goes, Inv

LEMMA EndsInv ==
  ASSUME CronTypeOK, NEW i \in Invocations, Ends(i)
  PROVE  /\ inv' \in [Invocations -> Inv]
         /\ inv'[i].phase = "idle" /\ ~ inv'[i].locked
         /\ \A j \in Invocations : j # i => inv'[j] = inv[j]
         /\ pruned' \subseteq Processes
BY DEF CronTypeOK, Ends, Idle, Inv, Phase

LEMMA GivenInv ==
  ASSUME CronTypeOK, NEW i \in Invocations, Given(i)
  PROVE  /\ inv' \in [Invocations -> Inv]
         /\ inv'[i].phase = "running" /\ inv'[i].locked /\ given'
         /\ \A j \in Invocations : j # i => inv'[j] = inv[j]
BY DEF CronTypeOK, Given, Inv, Phase

LEMMA RetriesInv ==
  ASSUME CronTypeOK, NEW i \in Invocations, AcquireErrs(i)
  PROVE  /\ inv' \in [Invocations -> Inv]
         /\ inv'[i].phase # "idle" /\ inv'[i].locked = inv[i].locked
         /\ \A j \in Invocations : j # i => inv'[j] = inv[j]
         /\ ~ Working(i) /\ Alive(i)
BY DEF CronTypeOK, AcquireErrs, Inv, Phase, InPhase, Working, Alive

LEMMA FiresInv ==
  ASSUME CronTypeOK, NEW i \in Invocations, Fire(i)
  PROVE  /\ inv' \in [Invocations -> Inv]
         /\ inv'[i].phase = "reclaim" /\ ~ inv'[i].locked
         /\ \A j \in Invocations : j # i => inv'[j] = inv[j]
BY DEF CronTypeOK, Fire, Idle, Inv, Phase

-----------------------------------------------------------------------------
(* Types.                                                                   *)

\* Only a run at work has the lock.
LocksOK == \A i \in Invocations : inv[i].locked => Working(i) /\ given

LEMMA CronTypeInit == CronInit => CronTypeOK
<1>1. Idle \in Inv /\ ~ Idle.locked
  BY DEF Idle, Inv, Phase
<1>2. NoRow \in Row
  BY DEF NoRow, Row
<1> QED BY <1>1, <1>2 DEF CronInit, CronTypeOK, Guard

\* What one invocation does to the locks, if the others stay as they are.
LEMMA OneLock ==
  ASSUME CronTypeOK, NEW i \in Invocations,
         \A j \in Invocations : j # i => inv'[j] = inv[j],
         given => given',
         inv'[i].locked => Working(i)' /\ given'
  PROVE  LocksOK'
<1>1. ASSUME NEW j \in Invocations, j # i, inv'[j].locked PROVE Working(j)' /\ given'
  <2>1. inv'[j] = inv[j]
    BY <1>1
  <2>2. inv[j].locked /\ Working(j) /\ given
    BY <1>1, <2>1 DEF CronTypeOK
  <2> QED BY <2>1, <2>2 DEF Working, InPhase
<1> QED BY <1>1 DEF LocksOK

LEMMA MarkedRow ==
  ASSUME CronTypeOK, NEW i \in Invocations, NEW status \in {"done", "error"}, Marks(i, status)
  PROVE  row' \in Row /\ (row.status # "none" => row'.status # "none")
BY DEF CronTypeOK, Marks, Row

\* The parts of CronTypeOK that a step may disturb.
LEMMA CronTypeNext == CronTypeOK /\ [CronNext]_cronVars => CronTypeOK'
<1> SUFFICES ASSUME CronTypeOK, [CronNext]_cronVars PROVE CronTypeOK'
  OBVIOUS
<1> USE CronAssumption
<1>a. \A i \in Invocations : HomeOf[i] \in Processes
  OBVIOUS
<1>b. "reclaim" \in Phase /\ "insert" \in Phase /\ "running" \in Phase /\ "fail" \in Phase
  BY DEF Phase
<1>1. ASSUME NEW i \in Invocations, Fire(i) PROVE CronTypeOK'
  <2>1. LocksOK' /\ inv' \in [Invocations -> Inv]
    BY <1>1, FiresInv, OneLock DEF Fire
  <2> QED BY <1>1, <2>1, <1>a DEF Fire, CronTypeOK, LocksOK, Guard
<1>2. ASSUME NEW i \in Invocations, Reclaim(i) PROVE CronTypeOK'
  <2>1. LocksOK' /\ inv' \in [Invocations -> Inv]
    <3>1. CASE Given(i)
      BY <3>1, GivenInv, OneLock DEF Working, InPhase
    <3>2. CASE Goes(i, "insert") /\ UNCHANGED given
      <4>1. ~ inv[i].locked
        BY <1>2 DEF Reclaim, CronTypeOK, Working, InPhase
      <4> QED BY <3>2, <4>1, <1>b, GoesInv, OneLock
    <3> QED BY <1>2, <3>1, <3>2 DEF Reclaim
  <2>2. row' \in Row /\ given' \in BOOLEAN
    <3>1. UNCHANGED <<row, given>> \/ (row' = Started /\ given' = TRUE)
      BY <1>2 DEF Reclaim, Starts, Given
    <3>2. Started \in Row
      BY DEF Started, Row
    <3> QED BY <3>1, <3>2 DEF CronTypeOK
  <2> QED BY <1>2, <2>1, <2>2 DEF Reclaim, CronTypeOK, LocksOK
<1>3. ASSUME NEW i \in Invocations, Insert(i) PROVE CronTypeOK'
  <2>1. LocksOK' /\ inv' \in [Invocations -> Inv]
    BY <1>3, GivenInv, OneLock DEF Insert, Working, InPhase
  <2>2. row' \in Row /\ given' \in BOOLEAN
    BY <1>3 DEF Insert, Starts, Started, Given, Row
  <2> QED BY <1>3, <2>1, <2>2 DEF Insert, CronTypeOK, LocksOK
<1>4. ASSUME NEW i \in Invocations, Skip(i) PROVE CronTypeOK'
  <2>1. LocksOK' /\ inv' \in [Invocations -> Inv] /\ pruned' \subseteq Processes
    BY <1>4, EndsInv, OneLock DEF Skip
  <2> QED BY <1>4, <2>1, <1>a DEF Skip, Frees, CronTypeOK, LocksOK, Guard
<1>5. ASSUME NEW i \in Invocations, AcquireErrs(i) PROVE CronTypeOK'
  <2>1. ~ inv[i].locked
    BY <1>5, RetriesInv DEF CronTypeOK
  <2>2. LocksOK' /\ inv' \in [Invocations -> Inv]
    BY <1>5, <2>1, RetriesInv, OneLock DEF AcquireErrs
  <2>3. row' \in Row
    BY <1>5 DEF AcquireErrs, Starts, Started, Row, CronTypeOK
  <2> QED BY <1>5, <2>2, <2>3 DEF AcquireErrs, CronTypeOK, LocksOK
<1>6. ASSUME NEW i \in Invocations, JobDone(i) \/ JobFails(i) PROVE CronTypeOK'
  <2>1. Finally(i) /\ UNCHANGED <<cleaning, given>>
    BY <1>6 DEF JobDone, JobFails
  <2>2. LocksOK' /\ inv' \in [Invocations -> Inv] /\ pruned' \subseteq Processes
    BY <2>1, EndsInv, OneLock DEF Finally
  <2>3. row' \in Row
    BY <1>6, MarkedRow DEF JobDone, JobFails, CronTypeOK
  <2> QED BY <2>1, <2>2, <2>3, <1>a DEF Finally, Frees, CronTypeOK, LocksOK, Guard
<1>7. ASSUME NEW i \in Invocations, DoneErrs(i) PROVE CronTypeOK'
  <2>1. LocksOK' /\ inv' \in [Invocations -> Inv]
    BY <1>7, <1>b, GoesInv, OneLock DEF DoneErrs, Working, InPhase, CronTypeOK
  <2>2. row' \in Row
    BY <1>7, MarkedRow DEF DoneErrs, CronTypeOK
  <2> QED BY <1>7, <2>1, <2>2 DEF DoneErrs, CronTypeOK, LocksOK
<1>8. ASSUME NEW p \in Processes, Restart(p) PROVE CronTypeOK'
  <2>1. inv' \in [Invocations -> Inv] /\ LocksOK'
    BY <1>8 DEF Restart, CronTypeOK, LocksOK, Inv, Phase, Idle, Working, InPhase
  <2> QED BY <1>8, <2>1 DEF Restart, Frees, CronTypeOK, LocksOK, Guard
<1>9. ASSUME NEW p \in Processes, Cleanup(p) \/ CleanupErrs(p) PROVE CronTypeOK'
  BY <1>9 DEF Cleanup, CleanupErrs, Cleaned, CronTypeOK, Row, Working, InPhase
<1>10. ASSUME NEW p \in Processes, Prune(p) \/ GuardAges(p) PROVE CronTypeOK'
  BY <1>10 DEF Prune, GuardAges, Frees, CronTypeOK, Guard, Working, InPhase
<1>11. CASE RowAges
  BY <1>11 DEF RowAges, CronTypeOK, Row, Working, InPhase
<1>12. CASE UNCHANGED cronVars
  BY <1>12 DEF cronVars, CronTypeOK, Working, InPhase
<1> QED
  BY <1>1, <1>2, <1>3, <1>4, <1>5, <1>6, <1>7, <1>8, <1>9, <1>10, <1>11, <1>12
  DEF CronNext, AcquireStep, RunStep

\* Every variable keeps its type, and only a run at work has the lock.
THEOREM CronTypeCorrect == CronSpec => []CronTypeOK
BY CronTypeInit, CronTypeNext, PTL DEF CronSpec

-----------------------------------------------------------------------------
(* The lock of the day.                                                     *)

\* A row that was inserted is not removed.
RowStays == given => row.status # "none"

LEMMA RowStaysNext == CronTypeOK /\ RowStays /\ [CronNext]_cronVars => RowStays'
<1> SUFFICES ASSUME CronTypeOK, RowStays, [CronNext]_cronVars PROVE RowStays'
  OBVIOUS
<1>1. ASSUME NEW i \in Invocations, JobDone(i) \/ JobFails(i) \/ DoneErrs(i) PROVE RowStays'
  BY <1>1, MarkedRow DEF JobDone, JobFails, DoneErrs, RowStays
<1>2. ASSUME NEW i \in Invocations, AcquireStep(i) PROVE RowStays'
  <2>1. row' = Started \/ UNCHANGED <<row, given>>
    BY <1>2 DEF AcquireStep, Reclaim, Insert, Skip, AcquireErrs, Starts
  <2>2. Started.status # "none"
    BY DEF Started
  <2> QED BY <2>1, <2>2 DEF RowStays
<1>3. ASSUME NEW p \in Processes, Cleanup(p) PROVE RowStays'
  BY <1>3 DEF Cleanup, Cleaned, RowStays
<1>4. CASE RowAges
  <2>1. row.status = "started" /\ row'.status = row.status
    BY <1>4 DEF RowAges, CronTypeOK, Row
  <2> QED BY <2>1 DEF RowStays
<1>5. CASE UNCHANGED <<row, given>>
  BY <1>5 DEF RowStays
<1> QED
  BY <1>1, <1>2, <1>3, <1>4, <1>5
  DEF CronNext, Fire, RunStep, Restart, CleanupErrs, Prune, GuardAges, cronVars

\* The lock is given by an insert or by a reclaim.
LEMMA GivenBy ==
  ASSUME CronTypeOK, [CronNext]_cronVars, NEW i \in Invocations, IsGiven(i)
  PROVE  Insert(i) \/ (Reclaim(i) /\ Reclaimable)
<1> USE DEF IsGiven
<1>1. ASSUME NEW j \in Invocations, Fire(j) PROVE FALSE
  BY <1>1, FiresInv
<1>2. ASSUME NEW j \in Invocations, Skip(j) \/ JobDone(j) \/ JobFails(j) PROVE FALSE
  BY <1>2, EndsInv DEF Skip, JobDone, JobFails, Finally
<1>3. ASSUME NEW j \in Invocations, AcquireErrs(j) PROVE FALSE
  BY <1>3, RetriesInv
<1>4. ASSUME NEW j \in Invocations, NEW phase \in {"insert", "fail"}, Goes(j, phase)
      PROVE  FALSE
  BY <1>4, GoesInv DEF Phase
<1>5. ASSUME NEW j \in Invocations, Insert(j) \/ Reclaim(j)
      PROVE  Insert(i) \/ (Reclaim(i) /\ Reclaimable)
  <2>1. Given(j) /\ (Insert(j) \/ (Reclaim(j) /\ Reclaimable))
    BY <1>4, <1>5 DEF Insert, Reclaim
  <2>2. i = j
    BY <2>1, GivenInv
  <2> QED BY <2>1, <2>2
<1>6. ASSUME NEW p \in Processes, Restart(p) PROVE FALSE
  BY <1>6 DEF Restart, Idle
<1>7. CASE UNCHANGED inv
  BY <1>7
<1> QED
  BY <1>1, <1>2, <1>3, <1>4, <1>5, <1>6, <1>7
  DEF CronNext, AcquireStep, RunStep, DoneErrs, Cleanup, CleanupErrs, Prune, GuardAges, RowAges, cronVars

\* The lock of a day is given again only when its row has said "started" for two hours.
THEOREM DailyLock == CronSpec => OncePerDay
<1>1. CronInit => RowStays
  BY DEF CronInit, RowStays
<1>2. CronTypeOK /\ RowStays /\ [CronNext]_cronVars
        => [\A i \in Invocations :
              IsGiven(i) /\ given => row.status = "started" /\ row.age = "expired"]_cronVars
  BY GivenBy DEF Insert, Reclaimable, RowStays
<1> QED BY <1>1, <1>2, CronTypeInit, CronTypeNext, RowStaysNext, PTL DEF CronSpec, OncePerDay

-----------------------------------------------------------------------------
(* The in-flight guard.                                                     *)

\* A run that is alive is behind the guard of its process, or the timer has pruned it.
Guarded ==
  /\ OverlapNeedsPrune
  /\ \A i \in Invocations : Alive(i) => guard[HomeOf[i]] # "free" \/ HomeOf[i] \in pruned

\* A run comes to life behind a guard that was free.
LEMMA FireGuarded ==
  ASSUME CronTypeOK, Guarded, NEW i \in Invocations, Fire(i)
  PROVE  Guarded'
<1> USE CronAssumption
<1>1. \A j \in Invocations : HomeOf[j] \in Processes
  OBVIOUS
<1>2. \A j \in Invocations : j # i => (Alive(j)' <=> Alive(j))
  BY FiresInv DEF Alive, InPhase
<1>3. /\ guard[HomeOf[i]] = "free" /\ pruned' = pruned
      /\ \A p \in Processes : guard'[p] = IF p = HomeOf[i] THEN "held" ELSE guard[p]
  BY DEF Fire, CronTypeOK
<1>4. \A j \in Invocations : Alive(j) /\ HomeOf[j] = HomeOf[i] => HomeOf[i] \in pruned
  BY <1>1, <1>3 DEF Guarded
<1>5. OverlapNeedsPrune'
  BY <1>2, <1>3, <1>4 DEF Guarded, OverlapNeedsPrune
<1>6. \A j \in Invocations :
        Alive(j)' => guard'[HomeOf[j]] # "free" \/ HomeOf[j] \in pruned'
  BY <1>1, <1>2, <1>3 DEF Guarded
<1> QED BY <1>5, <1>6 DEF Guarded

\* A run that ends frees the guard; those that are left were pruned.
LEMMA EndGuarded ==
  ASSUME CronTypeOK, Guarded, NEW i \in Invocations, Alive(i), Ends(i), Frees(HomeOf[i])
  PROVE  Guarded'
<1> USE CronAssumption
<1>1. \A j \in Invocations : HomeOf[j] \in Processes
  OBVIOUS
<1>2. /\ ~ Alive(i)'
      /\ \A j \in Invocations : j # i => (Alive(j)' <=> Alive(j))
  BY EndsInv DEF Alive, InPhase
<1>3. \A p \in Processes : p # HomeOf[i] => guard'[p] = guard[p]
  BY DEF Frees, CronTypeOK
<1>4. /\ \A p \in Processes : p # HomeOf[i] => (p \in pruned' <=> p \in pruned)
      /\ ~ Alone(i) => pruned' = pruned
  BY DEF Ends
<1>5. \A j \in Invocations :
        Alive(j)' /\ HomeOf[j] = HomeOf[i] => ~ Alone(i) /\ HomeOf[i] \in pruned
  BY <1>2 DEF Alone, Guarded, OverlapNeedsPrune
<1>6. OverlapNeedsPrune'
  BY <1>1, <1>2, <1>4, <1>5 DEF Guarded, OverlapNeedsPrune
<1>7. \A j \in Invocations :
        Alive(j)' => guard'[HomeOf[j]] # "free" \/ HomeOf[j] \in pruned'
  BY <1>1, <1>2, <1>3, <1>4, <1>5 DEF Guarded
<1> QED BY <1>6, <1>7 DEF Guarded

LEMMA GuardedNext == CronTypeOK /\ Guarded /\ [CronNext]_cronVars => Guarded'
<1> SUFFICES ASSUME CronTypeOK, Guarded, [CronNext]_cronVars PROVE Guarded'
  OBVIOUS
<1> USE CronAssumption
<1>0. \A j \in Invocations : HomeOf[j] \in Processes
  OBVIOUS
<1>1. ASSUME NEW i \in Invocations, Fire(i) PROVE Guarded'
  BY <1>1, FireGuarded
<1>2. ASSUME NEW i \in Invocations, Skip(i) \/ JobDone(i) \/ JobFails(i) PROVE Guarded'
  BY <1>2, EndGuarded DEF Skip, JobDone, JobFails, Finally, Working, Alive, InPhase
<1>s. ASSUME \A j \in Invocations : Alive(j)' <=> Alive(j), UNCHANGED <<guard, pruned>>
      PROVE  Guarded'
  BY <1>s DEF Guarded, OverlapNeedsPrune
<1>3. ASSUME NEW i \in Invocations, Reclaim(i) \/ Insert(i) \/ AcquireErrs(i) \/ DoneErrs(i)
      PROVE  Guarded'
  <2>1. Alive(i) /\ UNCHANGED <<guard, pruned>>
    BY <1>3 DEF Reclaim, Insert, AcquireErrs, DoneErrs, Alive, InPhase
  <2>2. inv'[i].phase # "idle" /\ \A j \in Invocations : j # i => inv'[j] = inv[j]
    <3>1. CASE Given(i)
      BY <3>1, GivenInv
    <3>2. CASE AcquireErrs(i)
      BY <3>2, RetriesInv
    <3>3. CASE \E phase \in {"insert", "fail"} : Goes(i, phase)
      BY <3>3, GoesInv DEF Phase
    <3> QED BY <1>3, <3>1, <3>2, <3>3 DEF Reclaim, Insert, DoneErrs
  <2> QED BY <2>1, <2>2, <1>s DEF Alive, InPhase
<1>4. ASSUME NEW p \in Processes, Restart(p) PROVE Guarded'
  <2>1. \A j \in Invocations : Alive(j)' <=> (HomeOf[j] # p /\ Alive(j))
    BY <1>4 DEF Restart, Alive, InPhase, Idle, CronTypeOK
  <2>2. \A r \in Processes : r # p => /\ guard'[r] = guard[r]
                                      /\ r \in pruned' <=> r \in pruned
    BY <1>4 DEF Restart, Frees, CronTypeOK
  <2> QED BY <1>0, <2>1, <2>2 DEF Guarded, OverlapNeedsPrune
<1>5. ASSUME NEW p \in Processes, Prune(p) PROVE Guarded'
  <2>1. \A j \in Invocations : Alive(j)' <=> Alive(j)
    BY <1>5 DEF Prune, Alive, InPhase
  <2>2. /\ \A r \in Processes : r # p => guard'[r] = guard[r]
        /\ pruned \subseteq pruned'
        /\ \A j \in Invocations : HomeOf[j] = p /\ Alive(j) => p \in pruned'
    BY <1>5 DEF Prune, Frees, CronTypeOK
  <2> QED BY <1>0, <2>1, <2>2 DEF Guarded, OverlapNeedsPrune
<1>6. ASSUME NEW p \in Processes, GuardAges(p) PROVE Guarded'
  <2>1. /\ \A j \in Invocations : Alive(j)' <=> Alive(j)
        /\ \A r \in Processes : guard[r] # "free" => guard'[r] # "free"
        /\ pruned' = pruned
    BY <1>6 DEF GuardAges, Alive, InPhase, CronTypeOK
  <2> QED BY <1>0, <2>1 DEF Guarded, OverlapNeedsPrune
<1>7. CASE UNCHANGED <<inv, guard, pruned>>
  BY <1>7, <1>s DEF Alive, InPhase
<1> QED
  BY <1>1, <1>2, <1>3, <1>4, <1>5, <1>6, <1>7
  DEF CronNext, AcquireStep, RunStep, Cleanup, CleanupErrs, RowAges, cronVars

\* Two runs of one process overlap only after its timer gave the first one up.
THEOREM Overlap == CronSpec => []OverlapNeedsPrune
<1>1. CronInit => Guarded
  BY DEF CronInit, Guarded, OverlapNeedsPrune, Alive, InPhase, Idle
<1>2. Guarded => OverlapNeedsPrune
  BY DEF Guarded
<1> QED BY <1>1, <1>2, CronTypeInit, CronTypeNext, GuardedNext, PTL DEF CronSpec

-----------------------------------------------------------------------------
(* What a guard stands for.                                                 *)

GuardHasRun ==
  \A p \in Processes : guard[p] # "free" => \E i \in Invocations : HomeOf[i] = p /\ Alive(i)

\* Every step but a run's end leaves its run behind the guard; the end of any
\* run of a process frees it.
LEMMA GuardHasRunNext == CronTypeOK /\ GuardHasRun /\ [CronNext]_cronVars => GuardHasRun'
<1> SUFFICES ASSUME CronTypeOK, GuardHasRun, [CronNext]_cronVars PROVE GuardHasRun'
  OBVIOUS
<1> USE CronAssumption
<1>0. \A j \in Invocations : HomeOf[j] \in Processes
  OBVIOUS
<1>1. ASSUME NEW i \in Invocations, Fire(i) PROVE GuardHasRun'
  <2>1. /\ Alive(i)'
        /\ \A j \in Invocations : j # i => (Alive(j)' <=> Alive(j))
        /\ ~ Alive(i)
    BY <1>1, FiresInv DEF Alive, InPhase, Fire
  <2>2. \A p \in Processes : p # HomeOf[i] => guard'[p] = guard[p]
    BY <1>1 DEF Fire, CronTypeOK
  <2> QED BY <2>1, <2>2 DEF GuardHasRun
<1>2. ASSUME NEW i \in Invocations, Skip(i) \/ JobDone(i) \/ JobFails(i) PROVE GuardHasRun'
  <2>1. Ends(i) /\ Frees(HomeOf[i])
    BY <1>2 DEF Skip, JobDone, JobFails, Finally
  <2>2. \A j \in Invocations : j # i => (Alive(j)' <=> Alive(j))
    BY <2>1, EndsInv DEF Alive, InPhase
  <2>3. /\ guard'[HomeOf[i]] = "free"
        /\ \A p \in Processes : p # HomeOf[i] => guard'[p] = guard[p]
    BY <1>0, <2>1 DEF Frees, CronTypeOK
  <2> QED BY <2>2, <2>3 DEF GuardHasRun
<1>s. ASSUME \A j \in Invocations : Alive(j)' <=> Alive(j),
             \A p \in Processes : guard'[p] # "free" => guard[p] # "free"
      PROVE  GuardHasRun'
  BY <1>s DEF GuardHasRun
<1>3. ASSUME NEW i \in Invocations, Reclaim(i) \/ Insert(i) \/ AcquireErrs(i) \/ DoneErrs(i)
      PROVE  GuardHasRun'
  <2>1. Alive(i) /\ UNCHANGED guard
    BY <1>3 DEF Reclaim, Insert, AcquireErrs, DoneErrs, Alive, InPhase
  <2>2. inv'[i].phase # "idle" /\ \A j \in Invocations : j # i => inv'[j] = inv[j]
    <3>1. CASE Given(i)
      BY <3>1, GivenInv
    <3>2. CASE AcquireErrs(i)
      BY <3>2, RetriesInv
    <3>3. CASE \E phase \in {"insert", "fail"} : Goes(i, phase)
      BY <3>3, GoesInv DEF Phase
    <3> QED BY <1>3, <3>1, <3>2, <3>3 DEF Reclaim, Insert, DoneErrs
  <2> QED BY <2>1, <2>2, <1>s DEF Alive, InPhase
<1>4. ASSUME NEW p \in Processes, Restart(p) PROVE GuardHasRun'
  <2>1. \A j \in Invocations : HomeOf[j] # p => (Alive(j)' <=> Alive(j))
    BY <1>4 DEF Restart, Alive, InPhase, CronTypeOK
  <2>2. /\ guard'[p] = "free"
        /\ \A r \in Processes : r # p => guard'[r] = guard[r]
    BY <1>4 DEF Restart, Frees, CronTypeOK
  <2> QED BY <2>1, <2>2 DEF GuardHasRun
<1>5. ASSUME NEW p \in Processes, Prune(p) \/ GuardAges(p) PROVE GuardHasRun'
  <2>1. \A j \in Invocations : Alive(j)' <=> Alive(j)
    BY <1>5 DEF Prune, GuardAges, Alive, InPhase
  <2>2. \A r \in Processes : guard'[r] # "free" => guard[r] # "free"
    BY <1>5 DEF Prune, GuardAges, Frees, CronTypeOK
  <2> QED BY <2>1, <2>2, <1>s
<1>6. CASE UNCHANGED <<inv, guard>>
  BY <1>6, <1>s DEF Alive, InPhase
<1> QED
  BY <1>1, <1>2, <1>3, <1>4, <1>5, <1>6
  DEF CronNext, AcquireStep, RunStep, Cleanup, CleanupErrs, RowAges, cronVars

\* A guard that is set has a live run of its process behind it: no ended, failed
\* or pruned run leaves one behind that would block the schedule until the timer
\* prunes it (runJobSafely's finally, startScheduler).
THEOREM NoOrphanGuard == CronSpec => []GuardHasRun
<1>1. CronInit => GuardHasRun
  BY DEF CronInit, GuardHasRun
<1> QED BY <1>1, CronTypeInit, CronTypeNext, GuardHasRunNext, PTL DEF CronSpec

-----------------------------------------------------------------------------
(* The market streams: calls and tables have their types.                   *)

\* The arguments of Update.
Buffered == [list : SUBSET Symbols, opts : SUBSET Symbols, aliased : BOOLEAN, calls : Seq(Call)]

\* The calls the consumer makes are calls of the hub.
LEMMA CallType ==
  ASSUME NEW a \in SUBSET Symbols, NEW b \in SUBSET Symbols
  PROVE  Subscribe(a, b) \in Call /\ Unsubscribe(a) \in Call
<1>1. {} \in SUBSET Symbols
  OBVIOUS
<1>2. Subscribe(a, b) \in Call
  BY Zenon DEF Call, Subscribe
<1>3. Unsubscribe(a) \in Call
  BY <1>1, Zenon DEF Call, Unsubscribe
<1> QED BY <1>2, <1>3

\* Calls reach the connection that is up, and no other.
LEMMA SentType ==
  ASSUME connection \in Conns \cup {None}, NEW conns \in [Conns -> Conn], NEW calls \in Seq(Call)
  PROVE  /\ Sent(conns, calls) \in [Conns -> Conn]
         /\ \A c \in Conns :
              /\ Sent(conns, calls)[c].state = conns[c].state
              /\ Sent(conns, calls)[c].subs = conns[c].subs
              /\ Sent(conns, calls)[c].calls =
                   IF c = connection /\ connection # None /\ conns[c].state = "up"
                   THEN conns[c].calls \o calls ELSE conns[c].calls
              /\ conns[c].state # "up" => Sent(conns, calls)[c] = conns[c]
<1>1. CASE connection # None /\ conns[connection].state = "up"
  <2>1. connection \in Conns /\ conns[connection] \in Conn
    BY <1>1
  <2> DEFINE r == conns[connection]
             new == [r EXCEPT !.calls = r.calls \o calls]
  <2>2. /\ r.state \in {"free", "starting", "up", "retrying"} /\ r.subs \in SUBSET Symbols
        /\ r.calls \in Seq(Call)
    BY <2>1 DEF Conn
  <2>3. r.calls \o calls \in Seq(Call)
    BY <2>2
  <2>4. new \in Conn /\ new.state = r.state /\ new.subs = r.subs /\ new.calls = r.calls \o calls
    BY <2>1, <2>2, <2>3 DEF Conn
  <2>5. Sent(conns, calls) = [conns EXCEPT ![connection] = new]
    BY <1>1 DEF Sent
  <2> HIDE DEF new
  <2> QED BY <1>1, <2>1, <2>4, <2>5
<1>2. CASE ~ (connection # None /\ conns[connection].state = "up")
  BY <1>2 DEF Sent
<1> QED BY <1>1, <1>2

\* UpdateSubscriptions keeps the list in the array of the options until it
\* removes something.
LEMMA UpdateType ==
  ASSUME NEW u \in Buffered, NEW a \in SUBSET Symbols, NEW b \in SUBSET Symbols
  PROVE  /\ Update(u, a, b) \in Buffered
         /\ (u.aliased => u.list = u.opts) =>
               (Update(u, a, b).aliased => Update(u, a, b).list = Update(u, a, b).opts)
<1>1. /\ u.list \in SUBSET Symbols /\ u.opts \in SUBSET Symbols /\ u.calls \in Seq(Call)
  BY DEF Buffered
<1>2. /\ Append(u.calls, Subscribe(a, b)) \in Seq(Call)
      /\ Append(u.calls, Unsubscribe(b)) \in Seq(Call)
  <2>1. Subscribe(a, b) \in Call /\ Unsubscribe(b) \in Call
    BY CallType
  <2> QED BY <1>1, <2>1
<1>3. CASE a # {}
  <2> DEFINE o == IF u.aliased THEN u.opts \cup a ELSE u.opts
  <2>1. Update(u, a, b) = [u EXCEPT !.list = u.list \cup a, !.opts = o,
                                    !.calls = Append(u.calls, Subscribe(a, b))]
    BY <1>3 DEF Update, Buffered
  <2>2. o \in SUBSET Symbols
    BY <1>1
  <2>3. u.aliased => o = u.opts \cup a
    OBVIOUS
  <2> HIDE DEF o
  <2>4. Update(u, a, b) \in Buffered
    BY <1>1, <1>2, <2>1, <2>2 DEF Buffered
  <2>5. /\ Update(u, a, b).list = u.list \cup a /\ Update(u, a, b).opts = o
        /\ Update(u, a, b).aliased = u.aliased
    BY <2>1 DEF Buffered
  <2> QED BY <2>3, <2>4, <2>5
<1>4. CASE a = {} /\ b # {}
  <2>1. Update(u, a, b) = [u EXCEPT !.list = u.list \ b, !.aliased = FALSE,
                                    !.calls = Append(u.calls, Unsubscribe(b))]
    BY <1>4 DEF Update, Buffered
  <2> QED BY <1>1, <1>2, <2>1 DEF Buffered
<1>5. CASE a = {} /\ b = {}
  BY <1>5 DEF Update
<1> QED BY <1>3, <1>4, <1>5

\* The parts of a connection have their types.
LEMMA ConnType ==
  ASSUME TypeOK, NEW c \in Conns
  PROVE  /\ conn[c] \in Conn
         /\ conn[c].subs \in SUBSET Symbols /\ conn[c].calls \in Seq(Call)
         /\ conn[c].state \in {"free", "starting", "up", "retrying"}
<1>1. conn[c] \in Conn
  BY DEF TypeOK
<1> QED BY <1>1 DEF Conn

\* A connection without subscriptions and calls.
LEMMA FreeType ==
  ASSUME NEW state \in {"free", "starting", "up", "retrying"}
  PROVE  /\ [Free EXCEPT !.state = state] \in Conn
         /\ [Free EXCEPT !.state = state].state = state
         /\ [Free EXCEPT !.state = state].calls = <<>>
         /\ state = "free" => [Free EXCEPT !.state = state] = Free
<1>1. <<>> \in Seq(Call) /\ {} \in SUBSET Symbols
  OBVIOUS
<1>2. Free = [state |-> "free", subs |-> {}, calls |-> <<>>]
  BY DEF Free
<1>3. [Free EXCEPT !.state = state] = [state |-> state, subs |-> {}, calls |-> <<>>]
  BY <1>2
<1>4. [state |-> state, subs |-> {}, calls |-> <<>>] \in Conn
  BY <1>1, Zenon DEF Conn
<1> QED BY <1>2, <1>3, <1>4

\* A change of state leaves subscriptions and calls alone.
LEMMA BecomesType ==
  ASSUME TypeOK, NEW c \in Conns, NEW state \in {"starting", "up", "retrying"}
  PROVE  /\ Becomes(c, state) \in [Conns -> Conn]
         /\ Becomes(c, state)[c].state = state
         /\ Becomes(c, state)[c].calls = conn[c].calls
         /\ Becomes(c, state)[c].subs = conn[c].subs
         /\ \A d \in Conns \ {c} : Becomes(c, state)[d] = conn[d]
<1> DEFINE new == [conn[c] EXCEPT !.state = state]
<1>1. conn \in [Conns -> Conn] /\ conn[c] \in Conn
  BY DEF TypeOK
<1>2. /\ new \in Conn /\ new.state = state /\ new.calls = conn[c].calls
      /\ new.subs = conn[c].subs
  BY <1>1 DEF Conn
<1>3. Becomes(c, state) = [conn EXCEPT ![c] = new]
  BY DEF Becomes
<1> HIDE DEF new
<1> QED BY <1>1, <1>2, <1>3

\* A connection that is reset.
LEMMA ResetType ==
  ASSUME TypeOK, NEW c \in Conns, NEW state \in {"free", "retrying"},
         conn' = [conn EXCEPT ![c] = [Free EXCEPT !.state = state]]
  PROVE  /\ conn' \in [Conns -> Conn]
         /\ conn'[c].state = state /\ conn'[c].calls = <<>>
         /\ state = "free" => conn'[c] = Free
         /\ \A d \in Conns \ {c} : conn'[d] = conn[d]
<1> DEFINE new == [Free EXCEPT !.state = state]
<1>1. conn \in [Conns -> Conn]
  BY DEF TypeOK
<1>2. /\ new \in Conn /\ new.state = state /\ new.calls = <<>>
      /\ state = "free" => new = Free
  BY FreeType
<1> HIDE DEF new
<1> QED BY <1>1, <1>2 DEF new

\* A connection that is given up.
LEMMA FreedType ==
  ASSUME TypeOK, NEW c \in Conns, conn' = [conn EXCEPT ![c] = Free]
  PROVE  /\ conn' \in [Conns -> Conn]
         /\ conn'[c] = Free /\ conn'[c].state = "free" /\ conn'[c].calls = <<>>
         /\ \A d \in Conns \ {c} : conn'[d] = conn[d]
<1>1. conn \in [Conns -> Conn]
  BY DEF TypeOK
<1>2. Free \in Conn /\ Free.state = "free" /\ Free.calls = <<>>
  <2>1. <<>> \in Seq(Call) /\ {} \in SUBSET Symbols
    OBVIOUS
  <2> QED BY <2>1 DEF Conn, Free
<1> QED BY <1>1, <1>2

\* What the hub's answer to the oldest call does to the connections.
LEMMA AnswerEffect ==
  ASSUME TypeOK, NEW c \in Conns, Answer(c)
  PROVE  LET k == Head(conn[c].calls) IN
         /\ k \in Call
         /\ conn' \in [Conns -> Conn]
         /\ \A d \in Conns : conn'[d].state = conn[d].state
         /\ \A d \in Conns : conn'[d].state = "free" => conn'[d] = conn[d]
         /\ \A d \in Conns \ {c} : conn'[d].state # "up" => conn'[d].calls = conn[d].calls
         /\ conn'[c].subs = IF k.op = "Subscribe" THEN conn[c].subs \cup k.set
                                                  ELSE conn[c].subs \ k.set
         /\ \/ conn'[c].calls = Tail(conn[c].calls)
            \/ conn'[c].calls = Tail(conn[c].calls) \o <<Unsubscribe(k.then)>>
<1> DEFINE k == Head(conn[c].calls)
           r == conn[c]
           subs == IF k.op = "Subscribe" THEN r.subs \cup k.set ELSE r.subs \ k.set
           new == [r EXCEPT !.calls = Tail(r.calls), !.subs = subs]
           answered == [conn EXCEPT ![c] = new]
<1>1. /\ conn \in [Conns -> Conn] /\ connection \in Conns \cup {None}
      /\ r \in Conn /\ r.subs \in SUBSET Symbols /\ r.calls \in Seq(Call) /\ r.calls # <<>>
  BY ConnType DEF TypeOK, Answer
<1>2. k \in Call /\ Tail(r.calls) \in Seq(Call)
  BY <1>1
<1>3. k.set \in SUBSET Symbols /\ k.then \in SUBSET Symbols
  BY <1>2 DEF Call
<1>4. subs \in SUBSET Symbols
  BY <1>1, <1>3
<1>5. conn' = IF k.then = {} THEN answered ELSE Sent(answered, <<Unsubscribe(k.then)>>)
  <2>1. answered = [conn EXCEPT ![c].calls = Tail(@),
                                ![c].subs = IF k.op = "Subscribe" THEN @ \cup k.set
                                                                  ELSE @ \ k.set]
    BY <1>1 DEF Conn
  <2> HIDE DEF answered
  <2> QED BY <2>1 DEF Answer
<1>6. r.state # "free"
  <2>1. At(c, "free") => conn[c].calls = <<>>
    BY DEF TypeOK, Free
  <2> QED BY <1>1, <2>1, StreamsAssumption DEF At
<1> HIDE DEF k, subs
<1>7. /\ new \in Conn /\ new.state = r.state /\ new.calls = Tail(r.calls) /\ new.subs = subs
  BY <1>1, <1>2, <1>4 DEF Conn
<1> HIDE DEF new
<1>8. /\ answered \in [Conns -> Conn] /\ answered[c] = new
      /\ \A d \in Conns \ {c} : answered[d] = conn[d]
  BY <1>1, <1>7
<1> HIDE DEF answered
<1>9. <<Unsubscribe(k.then)>> \in Seq(Call)
  <2>1. Unsubscribe(k.then) \in Call
    BY <1>3, CallType
  <2> QED BY <2>1
<1>10. CASE k.then = {}
  BY <1>1, <1>2, <1>5, <1>6, <1>7, <1>8, <1>10 DEF k, subs
<1>11. CASE k.then # {}
  <2>1. conn' = Sent(answered, <<Unsubscribe(k.then)>>)
    BY <1>5, <1>11
  <2>2. /\ conn' \in [Conns -> Conn]
        /\ \A d \in Conns :
             /\ conn'[d].state = answered[d].state
             /\ conn'[d].subs = answered[d].subs
             /\ conn'[d].calls =
                  IF d = connection /\ connection # None /\ answered[d].state = "up"
                  THEN answered[d].calls \o <<Unsubscribe(k.then)>> ELSE answered[d].calls
    BY <1>1, <1>8, <1>9, <2>1, SentType
  <2>3. ASSUME NEW d \in Conns, conn'[d].state = "free"
        PROVE  conn'[d] = conn[d]
    <3>1. d # c /\ conn'[d].subs = conn[d].subs /\ conn'[d].calls = conn[d].calls
      BY <1>6, <1>7, <1>8, <2>2, <2>3
    <3>2. conn'[d] \in Conn /\ conn[d] \in Conn /\ conn'[d].state = conn[d].state
      BY <1>1, <1>8, <2>2, <3>1
    <3> QED BY <3>1, <3>2 DEF Conn
  <2> QED BY <1>2, <1>7, <1>8, <2>2, <2>3 DEF k, subs
<1> QED BY <1>10, <1>11

-----------------------------------------------------------------------------
(* Types.                                                                   *)

\* The events of a poll, as the consumer takes them.
LEMMA HubUpdatedType ==
  ASSUME TypeOK, NEW added \in SUBSET Symbols, NEW removed \in SUBSET Symbols,
         HubUpdated(added, removed)
  PROVE  /\ conn' \in [Conns -> Conn]
         /\ \A c \in Conns : conn[c].state # "up" => conn'[c] = conn[c]
         /\ \A c \in Conns : conn'[c].state = conn[c].state
         /\ list' \in SUBSET Symbols /\ opts' \in SUBSET Symbols
         /\ aliased' \in BOOLEAN /\ (aliased' => list' = opts')
         /\ asked' \in SUBSET Symbols
         /\ UNCHANGED <<connection, started, timer, leaked>>
<1>1. CASE UNCHANGED hubVars
  BY <1>1 DEF TypeOK, hubVars
<1>2. CASE started /\ ~ UNCHANGED hubVars
  <2> DEFINE before == [list |-> list, opts |-> opts, aliased |-> aliased, calls |-> <<>>]
             mid == Update(before, added, removed)
             after == Update(mid, added \cap Forex, removed \cap Forex)
             left == IF connection = None THEN removed ELSE {}
  <2>1. before \in Buffered /\ (before.aliased => before.list = before.opts)
    <3>1. before \in Buffered
      BY DEF TypeOK, Buffered
    <3> QED BY <3>1 DEF TypeOK
  <2>2. mid \in Buffered /\ (mid.aliased => mid.list = mid.opts)
    <3> HIDE DEF before
    <3> QED BY <2>1, UpdateType
  <2>3. after \in Buffered /\ (after.aliased => after.list = after.opts)
    <3> HIDE DEF mid
    <3>1. added \cap Forex \in SUBSET Symbols /\ removed \cap Forex \in SUBSET Symbols
      OBVIOUS
    <3> QED BY <2>2, <3>1, UpdateType
  <2>4. /\ list' = after.list \ left /\ opts' = after.opts
        /\ aliased' = (after.aliased /\ left = {})
        /\ conn' = Sent(conn, after.calls)
        /\ asked' = (asked \cup added) \ removed
        /\ UNCHANGED <<connection, started, timer, leaked>>
    BY <1>2 DEF HubUpdated
  <2> HIDE DEF before, mid, after, left
  <2>5. /\ after.list \in SUBSET Symbols /\ after.opts \in SUBSET Symbols
        /\ after.aliased \in BOOLEAN /\ after.calls \in Seq(Call)
    BY <2>3 DEF Buffered
  <2>6. connection \in Conns \cup {None} /\ conn \in [Conns -> Conn]
    BY DEF TypeOK
  <2>7. /\ conn' \in [Conns -> Conn]
        /\ \A c \in Conns : conn[c].state # "up" => conn'[c] = conn[c]
        /\ \A c \in Conns : conn'[c].state = conn[c].state
    BY <2>4, <2>5, <2>6, SentType
  <2>8. asked' \in SUBSET Symbols
    BY <2>4 DEF TypeOK
  <2>9. /\ list' \in SUBSET Symbols /\ opts' \in SUBSET Symbols
        /\ aliased' \in BOOLEAN /\ (aliased' => list' = opts')
    BY <2>3, <2>4, <2>5
  <2> QED BY <2>4, <2>7, <2>8, <2>9
<1> QED BY <1>1, <1>2 DEF HubUpdated

\* What every step of the connection has to show of the table.
TableOK ==
  /\ conn \in [Conns -> Conn]
  /\ \A c \in Conns : conn[c].state = "free" => conn[c] = Free

\* TypeOK says what a connection's steps have to show of the table.
LEMMA TableType == TypeOK => TableOK
BY StreamsAssumption DEF TypeOK, TableOK, At

\* And the other way round.
LEMMA TableIsTyped ==
  ASSUME TableOK
  PROVE  /\ conn \in [Conns -> Conn]
         /\ \A c \in Conns : At(c, "free") => conn[c] = Free
BY DEF TableOK, At

\* The worker starts with one connection, which is up and empty.
LEMMA InitType == Init => TypeOK
<1> SUFFICES ASSUME Init PROVE TypeOK
  OBVIOUS
<1>1. PICK c \in Conns :
        /\ conn = [d \in Conns |-> IF d = c THEN [Free EXCEPT !.state = "up"] ELSE Free]
        /\ connection = c
  BY DEF Init
<1>2. TableOK
  <2> DEFINE new == [Free EXCEPT !.state = "up"]
  <2>1. new \in Conn /\ new.state = "up"
    BY FreeType
  <2>2. Free \in Conn
    <3>1. [Free EXCEPT !.state = "free"] \in Conn /\ [Free EXCEPT !.state = "free"] = Free
      BY FreeType
    <3> QED BY <3>1
  <2> HIDE DEF new
  <2>3. conn = [d \in Conns |-> IF d = c THEN new ELSE Free]
    BY <1>1 DEF new
  <2> QED BY <2>1, <2>2, <2>3 DEF TableOK
<1>3. connection \in Conns \cup {None}
  BY <1>1
<1>4. Configured \subseteq Crypto
  BY StreamsAssumption
<1> QED BY <1>2, <1>3, <1>4, TableIsTyped DEF Init, TypeOK, Socket

\* A poll leaves the states of the connections alone.
LEMMA PollType ==
  ASSUME TypeOK, NEW wanted \in SUBSET Symbols, Poll(wanted)
  PROVE  TypeOK'
<1> DEFINE active == IF wanted = {} THEN Defaults ELSE wanted
           added == active \ managed
           removed == managed \ active
           set == (symbols \cup (added \cap Crypto)) \ (removed \cap Crypto)
<1>1. active \in SUBSET Symbols /\ managed \in SUBSET Symbols
  BY StreamsAssumption DEF TypeOK
<1>2. /\ managed' = active /\ HubUpdated(added, removed)
      /\ BinanceUpdated(set) /\ UNCHANGED stopping
  BY DEF Poll
<1>3. added \in SUBSET Symbols /\ removed \in SUBSET Symbols
  BY <1>1
<1>4. set \subseteq Crypto
  BY DEF TypeOK
<1> HIDE DEF active, added, removed, set
<1>5. /\ conn' \in [Conns -> Conn]
      /\ \A c \in Conns : conn[c].state # "up" => conn'[c] = conn[c]
      /\ \A c \in Conns : conn'[c].state = conn[c].state
      /\ list' \in SUBSET Symbols /\ opts' \in SUBSET Symbols
      /\ aliased' \in BOOLEAN /\ (aliased' => list' = opts')
      /\ asked' \in SUBSET Symbols
      /\ UNCHANGED <<connection, started, timer, leaked>>
  BY <1>2, <1>3, HubUpdatedType
<1>6. TableOK'
  BY <1>5, TableType DEF TableOK
<1>7. ws' \in Socket /\ streams' \subseteq Crypto /\ symbols' \subseteq Crypto
  BY <1>2, <1>4 DEF BinanceUpdated, SocketCloses, TypeOK, Socket
<1>8. /\ conn' \in [Conns -> Conn]
      /\ \A c \in Conns : At(c, "free")' => conn'[c] = Free
  BY <1>6 DEF TableOK, At
<1> QED BY <1>1, <1>2, <1>5, <1>7, <1>8 DEF TypeOK

\* The steps of the connection leave the sets of symbols alone, but for Answer
\* and RebuildStarts.
LEMMA ConnectionType ==
  ASSUME TypeOK, TableOK', connection' \in Conns \cup {None},
         started' \in BOOLEAN, timer' \in BOOLEAN, ~ (stopping /\ timer'),
         leaked' \in BOOLEAN,
         list' \in SUBSET Symbols, aliased' \in BOOLEAN, aliased' => list' = opts,
         UNCHANGED <<managed, stopping, opts, asked, binanceVars>>
  PROVE  TypeOK'
<1>1. /\ conn' \in [Conns -> Conn]
      /\ \A c \in Conns : At(c, "free")' => conn'[c] = Free
  BY DEF TableOK, At
<1> QED BY <1>1 DEF TypeOK, binanceVars

\* An answer takes the symbols it removes off the list.
LEMMA AnswerType ==
  ASSUME TypeOK, NEW c \in Conns, Answer(c)
  PROVE  TypeOK'
<1>1. TableOK'
  BY AnswerEffect, TableType DEF TableOK
<1> DEFINE k == Head(conn[c].calls)
<1>2. k \in Call
  BY AnswerEffect
<1>3. k.then \in SUBSET Symbols /\ k.boot \in BOOLEAN
  BY <1>2, Zenon DEF Call
<1>4. /\ list' = list \ k.then /\ aliased' = (aliased /\ k.then = {})
      /\ started' = (started \/ k.boot)
      /\ UNCHANGED <<managed, connection, stopping, timer, opts, asked, leaked, binanceVars>>
  BY DEF Answer, Without
<1> HIDE DEF k
<1>5. list' \in SUBSET Symbols /\ aliased' \in BOOLEAN /\ (aliased' => list' = opts)
  BY <1>3, <1>4 DEF TypeOK
<1>6. started' \in BOOLEAN
  BY <1>3, <1>4 DEF TypeOK
<1> QED BY <1>1, <1>4, <1>5, <1>6, ConnectionType DEF TypeOK

\* Onreconnected appends the list to the calls of the current connection.
LEMMA ReconnectedEffect ==
  ASSUME TypeOK, NEW c \in Conns, Reconnected(c)
  PROVE  /\ TableOK'
         /\ conn'[c].state = "up"
         /\ \A d \in Conns \ {c} : conn'[d].state = conn[d].state
         /\ \A d \in Conns : conn'[d].subs = conn[d].subs
         /\ \A d \in Conns :
              conn'[d].calls =
                IF d = connection /\ conn'[d].state = "up" /\ list # {}
                THEN conn[d].calls \o <<Subscribe(list, {})>> ELSE conn[d].calls
<1> DEFINE up == Becomes(c, "up")
<1>1. /\ up \in [Conns -> Conn] /\ up[c].state = "up"
      /\ up[c].calls = conn[c].calls /\ up[c].subs = conn[c].subs
      /\ \A d \in Conns \ {c} : up[d] = conn[d]
  BY BecomesType
<1>2. \A d \in Conns : conn[d].state = "free" => conn[d] = Free
  BY TableType DEF TableOK
<1> HIDE DEF up
<1>3. CASE list = {}
  <2>1. conn' = up
    BY <1>3 DEF Reconnected, up
  <2> QED BY <1>1, <1>2, <1>3, <2>1 DEF TableOK
<1>4. CASE list # {}
  <2>1. conn' = Sent(up, <<Subscribe(list, {})>>)
    BY <1>4 DEF Reconnected, up
  <2>2. <<Subscribe(list, {})>> \in Seq(Call) /\ connection \in Conns \cup {None}
    <3>1. Subscribe(list, {}) \in Call
      BY CallType DEF TypeOK
    <3> QED BY <3>1 DEF TypeOK
  <2>3. /\ conn' \in [Conns -> Conn]
        /\ \A d \in Conns :
             /\ conn'[d].state = up[d].state
             /\ conn'[d].subs = up[d].subs
             /\ conn'[d].calls =
                  IF d = connection /\ connection # None /\ up[d].state = "up"
                  THEN up[d].calls \o <<Subscribe(list, {})>> ELSE up[d].calls
             /\ up[d].state # "up" => conn'[d] = up[d]
    BY <1>1, <2>1, <2>2, SentType
  <2>4. \A d \in Conns : d # None
    BY StreamsAssumption
  <2>5. TableOK'
    BY <1>1, <1>2, <2>3 DEF TableOK
  <2> QED BY <1>1, <1>4, <2>3, <2>4, <2>5
<1> QED BY <1>3, <1>4

\* Start() appends the boot call to the calls of the current connection.
LEMMA ConnectsEffect ==
  ASSUME TypeOK, NEW c \in Conns, Connects(c)
  PROVE  /\ TableOK'
         /\ conn'[c].state = "up"
         /\ \A d \in Conns \ {c} : conn'[d].state = conn[d].state
         /\ \A d \in Conns : conn'[d].subs = conn[d].subs
         /\ \A d \in Conns :
              conn'[d].calls =
                IF d = connection /\ conn'[d].state = "up" /\ opts # {}
                THEN conn[d].calls \o <<BootCall>> ELSE conn[d].calls
         /\ started' \in BOOLEAN /\ timer' \in BOOLEAN
         /\ IF opts = {} \/ connection = None
              THEN started' /\ timer' = timer
              ELSE /\ started' = started
                   /\ timer' = (timer \/ (conn' = Becomes(c, "up") /\ ~ stopping))
<1> DEFINE up == Becomes(c, "up")
<1>1. /\ up \in [Conns -> Conn] /\ up[c].state = "up"
      /\ up[c].calls = conn[c].calls /\ up[c].subs = conn[c].subs
      /\ \A d \in Conns \ {c} : up[d] = conn[d]
  BY BecomesType
<1>2. \A d \in Conns : conn[d].state = "free" => conn[d] = Free
  BY TableType DEF TableOK
<1>3. \A d \in Conns : d # None
  BY StreamsAssumption
<1> HIDE DEF up
<1>4. CASE opts = {} \/ connection = None
  <2>1. conn' = up /\ started' = TRUE /\ timer' = timer
    BY <1>4 DEF Connects, up
  <2>2. TableOK'
    BY <1>1, <1>2, <2>1 DEF TableOK
  <2>3. timer' \in BOOLEAN
    BY <2>1 DEF TypeOK
  <2> QED BY <1>1, <1>3, <1>4, <2>1, <2>2, <2>3
<1>5. CASE opts # {} /\ connection # None
  <2>1. /\ conn' = Sent(up, <<BootCall>>) /\ started' = started
        /\ timer' = (timer \/ (conn' = up /\ ~ stopping))
    BY <1>5 DEF Connects, up
  <2>2. <<BootCall>> \in Seq(Call) /\ connection \in Conns \cup {None}
    <3>1. opts \in SUBSET Symbols /\ {} \in SUBSET Symbols
      BY DEF TypeOK
    <3>2. BootCall \in Call
      BY <3>1, Zenon DEF Call, BootCall
    <3> QED BY <3>2 DEF TypeOK
  <2>3. /\ conn' \in [Conns -> Conn]
        /\ \A d \in Conns :
             /\ conn'[d].state = up[d].state
             /\ conn'[d].subs = up[d].subs
             /\ conn'[d].calls =
                  IF d = connection /\ connection # None /\ up[d].state = "up"
                  THEN up[d].calls \o <<BootCall>> ELSE up[d].calls
             /\ up[d].state # "up" => conn'[d] = up[d]
    BY <1>1, <2>1, <2>2, SentType
  <2>4. TableOK'
    BY <1>1, <1>2, <2>3 DEF TableOK
  <2>5. started' \in BOOLEAN /\ timer' \in BOOLEAN
    BY <2>1 DEF TypeOK
  <2>6. timer' = (timer \/ (conn' = Becomes(c, "up") /\ ~ stopping))
    BY <2>1 DEF up
  <2> QED BY <1>1, <1>5, <2>1, <2>3, <2>4, <2>5, <2>6
<1> QED BY <1>4, <1>5

\* Stop() appends the unsubscription of the list.
LEMMA StopEffect ==
  ASSUME TypeOK, Stop
  PROVE  /\ TableOK'
         /\ \A d \in Conns : conn'[d].state = conn[d].state
         /\ \A d \in Conns :
              conn'[d].calls =
                IF d = connection /\ conn[d].state = "up" /\ list # {}
                THEN conn[d].calls \o <<Unsubscribe(list)>> ELSE conn[d].calls
<1>1. /\ conn \in [Conns -> Conn]
      /\ \A d \in Conns : conn[d].state = "free" => conn[d] = Free
  BY TableType DEF TableOK
<1>2. CASE list = {}
  <2>1. conn' = conn
    BY <1>2 DEF Stop
  <2> QED BY <1>1, <1>2, <2>1 DEF TableOK
<1>3. CASE list # {}
  <2>1. conn' = Sent(conn, <<Unsubscribe(list)>>)
    BY <1>3 DEF Stop
  <2>2. <<Unsubscribe(list)>> \in Seq(Call) /\ connection \in Conns \cup {None}
    <3>1. Unsubscribe(list) \in Call
      BY CallType DEF TypeOK
    <3> QED BY <3>1 DEF TypeOK
  <2>3. /\ conn' \in [Conns -> Conn]
        /\ \A d \in Conns :
             /\ conn'[d].state = conn[d].state
             /\ conn'[d].calls =
                  IF d = connection /\ connection # None /\ conn[d].state = "up"
                  THEN conn[d].calls \o <<Unsubscribe(list)>> ELSE conn[d].calls
             /\ conn[d].state # "up" => conn'[d] = conn[d]
    BY <1>1, <2>1, <2>2, SentType
  <2>4. \A d \in Conns : d # None
    BY StreamsAssumption
  <2>5. TableOK'
    BY <1>1, <2>3 DEF TableOK
  <2> QED BY <1>3, <2>3, <2>4, <2>5
<1> QED BY <1>2, <1>3

\* The steps of one connection, one by one.
LEMMA HubStepType ==
  ASSUME TypeOK, NEW c \in Conns, HubStep(c)
  PROVE  TypeOK'
<1>0. /\ list \in SUBSET Symbols /\ aliased \in BOOLEAN /\ (aliased => list = opts)
      /\ connection \in Conns \cup {None} /\ timer \in BOOLEAN /\ started \in BOOLEAN
      /\ stopping \in BOOLEAN /\ ~ (stopping /\ timer) /\ leaked \in BOOLEAN
      /\ opts \in SUBSET Symbols
  BY DEF TypeOK
<1>a. /\ conn \in [Conns -> Conn]
      /\ \A d \in Conns : conn[d].state = "free" => conn[d] = Free
  BY TableType DEF TableOK
<1>1. CASE Answer(c)
  BY <1>1, AnswerType
<1>2. CASE Drop(c)
  <2>1. TableOK'
    BY <1>2, <1>a, ResetType DEF Drop, TableOK
  <2>2. timer' \in BOOLEAN /\ ~ (stopping /\ timer')
    <3> DEFINE awaited == \E i \in DOMAIN conn[c].calls : conn[c].calls[i].boot
    <3>1. timer' = (timer \/ (~ stopping /\ awaited))
      BY <1>2 DEF Drop
    <3> HIDE DEF awaited
    <3> QED BY <1>0, <3>1
  <2> QED BY <1>0, <1>2, <2>1, <2>2, ConnectionType DEF Drop
<1>3. CASE Reconnected(c)
  <2>1. TableOK'
    BY <1>3, ReconnectedEffect
  <2> QED BY <1>0, <1>3, <2>1, ConnectionType DEF Reconnected
<1>4. CASE GivesUp(c)
  <2>1. TableOK'
    BY <1>4, <1>a, FreedType DEF GivesUp, TableOK
  <2> QED BY <1>0, <1>4, <2>1, ConnectionType DEF GivesUp
<1>5. CASE RebuildStarts(c)
  <2>1. TableOK'
    BY <1>5, <1>a, BecomesType DEF RebuildStarts, TableOK
  <2>2. leaked' \in BOOLEAN
    BY <1>0, <1>5 DEF RebuildStarts
  <2> QED BY <1>0, <1>5, <2>1, <2>2, ConnectionType DEF RebuildStarts
<1>6. CASE Connects(c)
  <2>1. TableOK' /\ started' \in BOOLEAN /\ timer' \in BOOLEAN
    BY <1>6, ConnectsEffect
  <2>2. ~ (stopping /\ timer')
    BY <1>0, <1>6 DEF Connects
  <2> QED BY <1>0, <1>6, <2>1, <2>2, ConnectionType DEF Connects
<1>7. CASE ConnectFails(c)
  <2>1. TableOK'
    BY <1>7, <1>a, FreedType DEF ConnectFails, TableOK
  <2> QED BY <1>0, <1>7, <2>1, ConnectionType DEF ConnectFails
<1> QED BY <1>1, <1>2, <1>3, <1>4, <1>5, <1>6, <1>7 DEF HubStep

\* Every step keeps the types.
LEMMA NextType == TypeOK /\ [Next]_vars => TypeOK'
<1> SUFFICES ASSUME TypeOK, [Next]_vars PROVE TypeOK'
  OBVIOUS
<1>1. ASSUME NEW wanted \in SUBSET Symbols, Poll(wanted) PROVE TypeOK'
  BY <1>1, PollType
<1>2. ASSUME NEW c \in Conns, HubStep(c) PROVE TypeOK'
  BY <1>2, HubStepType
<1>3. CASE RebuildFindsStarted
  BY <1>3 DEF RebuildFindsStarted, TypeOK, At, binanceVars
<1>4. CASE Opens \/ Closes \/ Connect
  <2>1. ws' \in Socket /\ streams' \subseteq Crypto
    BY <1>4 DEF Opens, Closes, Connect, SocketCloses, TypeOK, Socket
  <2>2. UNCHANGED <<managed, hubVars, stopping, symbols>>
    BY <1>4 DEF Opens, Closes, Connect
  <2> QED BY <2>1, <2>2 DEF TypeOK, At, hubVars
<1>5. CASE Stop
  <2>1. TableOK'
    BY <1>5, StopEffect
  <2>2. /\ conn' \in [Conns -> Conn]
        /\ \A c \in Conns : At(c, "free")' => conn'[c] = Free
    BY <2>1 DEF TableOK, At
  <2> QED BY <1>5, <2>2 DEF Stop, TypeOK, Socket
<1>6. CASE StopEnds
  <2>1. connection \in Conns
    BY <1>6 DEF StopEnds, TypeOK
  <2>2. TableOK'
    BY <1>6, <2>1, FreedType, TableType DEF StopEnds, TableOK
  <2> QED BY <1>6, <2>2, ConnectionType DEF StopEnds, TypeOK
<1>7. CASE UNCHANGED vars
  BY <1>7 DEF TypeOK, At, vars, hubVars, binanceVars
<1> QED BY <1>1, <1>2, <1>3, <1>4, <1>5, <1>6, <1>7 DEF Next

\* Every state has its type: a free connection is an empty one, the timer is
\* cleared when the worker stops, and the array of the options is the list
\* itself until something is removed.
THEOREM StreamsTypeCorrect == Spec => []TypeOK
BY InitType, NextType, PTL DEF Spec

-----------------------------------------------------------------------------
(* The subscriptions of a connection, once its calls are answered.          *)

Unsubscribes(k, s) == k.op = "Unsubscribe" /\ s \in k.set

\* s goes off the list with the answer to one of the calls.
Leaves(calls, s) == \E i \in DOMAIN calls : s \in calls[i].then

\* After the calls, s is subscribed.
Settles(subs, calls, s) ==
  \/ s \in subs /\ \A j \in DOMAIN calls : ~ Unsubscribes(calls[j], s)
  \/ \E i \in DOMAIN calls :
       /\ calls[i].op = "Subscribe" /\ s \in calls[i].set
       /\ \A j \in DOMAIN calls : j > i => ~ Unsubscribes(calls[j], s)

Boots(calls) == \E i \in DOMAIN calls : calls[i].boot

\* One more call unsubscribes nothing it does not name.
LEMMA SettlesStill ==
  ASSUME NEW subs, NEW calls \in Seq(Call), NEW k \in Call, NEW s,
         Settles(subs, calls, s), ~ Unsubscribes(k, s)
  PROVE  Settles(subs, Append(calls, k), s)
<1> DEFINE longer == Append(calls, k)
<1>1. /\ DOMAIN calls = 1 .. Len(calls) /\ Len(calls) \in Nat
      /\ DOMAIN longer = 1 .. Len(calls) + 1
      /\ \A j \in 1 .. Len(calls) : longer[j] = calls[j]
      /\ longer[Len(calls) + 1] = k
  OBVIOUS
<1> HIDE DEF longer
<1>2. \A j \in DOMAIN longer : (j \in DOMAIN calls /\ longer[j] = calls[j]) \/ longer[j] = k
  BY <1>1
<1>3. CASE s \in subs /\ \A j \in DOMAIN calls : ~ Unsubscribes(calls[j], s)
  <2>1. \A j \in DOMAIN longer : ~ Unsubscribes(longer[j], s)
    BY <1>2, <1>3
  <2> QED BY <1>3, <2>1 DEF Settles, longer
<1>4. CASE \E i \in DOMAIN calls :
             /\ calls[i].op = "Subscribe" /\ s \in calls[i].set
             /\ \A j \in DOMAIN calls : j > i => ~ Unsubscribes(calls[j], s)
  <2>1. PICK i \in DOMAIN calls :
          /\ calls[i].op = "Subscribe" /\ s \in calls[i].set
          /\ \A j \in DOMAIN calls : j > i => ~ Unsubscribes(calls[j], s)
    BY <1>4
  <2>2. i \in DOMAIN longer /\ longer[i] = calls[i]
    BY <1>1
  <2>3. \A j \in DOMAIN longer : j > i => ~ Unsubscribes(longer[j], s)
    BY <1>2, <2>1
  <2>4. /\ longer[i].op = "Subscribe" /\ s \in longer[i].set
    BY <2>1, <2>2
  <2> QED BY <2>2, <2>3, <2>4 DEF Settles, longer
<1> QED BY <1>3, <1>4 DEF Settles

\* A last call that subscribes s settles it.
LEMMA SettlesLast ==
  ASSUME NEW subs, NEW calls \in Seq(Call), NEW k \in Call, NEW s,
         k.op = "Subscribe", s \in k.set
  PROVE  Settles(subs, Append(calls, k), s)
<1> DEFINE longer == Append(calls, k)
<1>1. /\ DOMAIN longer = 1 .. Len(calls) + 1 /\ Len(calls) \in Nat
      /\ longer[Len(calls) + 1] = k
  OBVIOUS
<1> HIDE DEF longer
<1>2. /\ Len(calls) + 1 \in DOMAIN longer
      /\ \A j \in DOMAIN longer : ~ (j > Len(calls) + 1)
  BY <1>1
<1> QED BY <1>1, <1>2 DEF Settles, longer

\* One more call takes off the list what it names, too.
LEMMA LeavesStill ==
  ASSUME NEW calls \in Seq(Call), NEW k \in Call, NEW s
  PROVE  Leaves(Append(calls, k), s) <=> Leaves(calls, s) \/ s \in k.then
<1> DEFINE longer == Append(calls, k)
<1>1. /\ DOMAIN calls = 1 .. Len(calls) /\ Len(calls) \in Nat
      /\ DOMAIN longer = 1 .. Len(calls) + 1
      /\ \A j \in 1 .. Len(calls) : longer[j] = calls[j]
      /\ longer[Len(calls) + 1] = k
  OBVIOUS
<1> HIDE DEF longer
<1>2. \A j \in DOMAIN longer : (j \in DOMAIN calls /\ longer[j] = calls[j]) \/ longer[j] = k
  BY <1>1
<1>3. \A j \in DOMAIN calls : j \in DOMAIN longer /\ longer[j] = calls[j]
  BY <1>1
<1>4. Len(calls) + 1 \in DOMAIN longer
  BY <1>1
<1> QED BY <1>1, <1>2, <1>3, <1>4 DEF Leaves, longer

\* One more call is the boot call, or the others have it.
LEMMA BootsStill ==
  ASSUME NEW calls \in Seq(Call), NEW k \in Call
  PROVE  Boots(Append(calls, k)) <=> Boots(calls) \/ k.boot
<1> DEFINE longer == Append(calls, k)
<1>1. /\ DOMAIN calls = 1 .. Len(calls) /\ Len(calls) \in Nat
      /\ DOMAIN longer = 1 .. Len(calls) + 1
      /\ \A j \in 1 .. Len(calls) : longer[j] = calls[j]
      /\ longer[Len(calls) + 1] = k
  OBVIOUS
<1> HIDE DEF longer
<1>2. \A j \in DOMAIN longer : (j \in DOMAIN calls /\ longer[j] = calls[j]) \/ longer[j] = k
  BY <1>1
<1>3. \A j \in DOMAIN calls : j \in DOMAIN longer /\ longer[j] = calls[j]
  BY <1>1
<1>4. Len(calls) + 1 \in DOMAIN longer
  BY <1>1
<1> QED BY <1>1, <1>2, <1>3, <1>4 DEF Boots, longer

\* The answer to the oldest call leaves s on its way, unless it takes it off the
\* list.
LEMMA AnswerSettles ==
  ASSUME NEW subs, NEW calls \in Seq(Call), calls # <<>>, NEW s,
         Leaves(calls, s) \/ Settles(subs, calls, s), s \notin Head(calls).then
  PROVE  LET k == Head(calls)
             next == IF k.op = "Subscribe" THEN subs \cup k.set ELSE subs \ k.set
         IN  Leaves(Tail(calls), s) \/ Settles(next, Tail(calls), s)
<1> DEFINE k == Head(calls)
           next == IF k.op = "Subscribe" THEN subs \cup k.set ELSE subs \ k.set
           rest == Tail(calls)
<1>1. /\ DOMAIN calls = 1 .. Len(calls) /\ Len(calls) \in Nat \ {0}
      /\ DOMAIN rest = 1 .. Len(calls) - 1
      /\ \A j \in 1 .. Len(calls) - 1 : rest[j] = calls[j + 1]
      /\ calls[1] = k /\ k \in Call
  OBVIOUS
<1>2. k.op \in {"Subscribe", "Unsubscribe"}
  BY <1>1 DEF Call
<1>3. (s \in next) <=> \/ k.op = "Subscribe" /\ s \in k.set
                       \/ s \in subs /\ ~ Unsubscribes(k, s)
  BY <1>2 DEF Unsubscribes
<1> HIDE DEF k, next, rest
<1>4. \A i \in DOMAIN calls : i = 1 \/ (i - 1 \in DOMAIN rest /\ rest[i - 1] = calls[i])
  BY <1>1
<1>5. \A j \in DOMAIN rest : j + 1 \in DOMAIN calls /\ rest[j] = calls[j + 1] /\ j + 1 > 1
  BY <1>1
<1>6. CASE Leaves(calls, s)
  <2>1. PICK i \in DOMAIN calls : s \in calls[i].then
    BY <1>6 DEF Leaves
  <2>2. i # 1
    BY <1>1, <2>1 DEF k
  <2> QED BY <1>4, <2>1, <2>2 DEF Leaves, rest
<1>7. CASE s \in subs /\ \A j \in DOMAIN calls : ~ Unsubscribes(calls[j], s)
  <2>1. s \in next
    BY <1>1, <1>3, <1>7
  <2>2. \A j \in DOMAIN rest : ~ Unsubscribes(rest[j], s)
    BY <1>5, <1>7
  <2>3. Settles(next, rest, s)
    BY <2>1, <2>2 DEF Settles
  <2> QED BY <2>3 DEF next, rest, k
<1>8. CASE \E i \in DOMAIN calls :
             /\ calls[i].op = "Subscribe" /\ s \in calls[i].set
             /\ \A j \in DOMAIN calls : j > i => ~ Unsubscribes(calls[j], s)
  <2>1. PICK i \in DOMAIN calls :
          /\ calls[i].op = "Subscribe" /\ s \in calls[i].set
          /\ \A j \in DOMAIN calls : j > i => ~ Unsubscribes(calls[j], s)
    BY <1>8
  <2>2. CASE i = 1
    <3>1. s \in next
      BY <1>1, <1>3, <2>1, <2>2
    <3>2. \A j \in DOMAIN rest : ~ Unsubscribes(rest[j], s)
      BY <1>5, <2>1, <2>2
    <3>3. Settles(next, rest, s)
      BY <3>1, <3>2 DEF Settles
    <3> QED BY <3>3 DEF next, rest, k
  <2>3. CASE i # 1
    <3>1. i - 1 \in DOMAIN rest /\ rest[i - 1] = calls[i]
      BY <1>4, <2>3
    <3>2. \A j \in DOMAIN rest : j > i - 1 => ~ Unsubscribes(rest[j], s)
      <4>1. ASSUME NEW j \in DOMAIN rest, j > i - 1 PROVE j + 1 > i
        BY <1>1, <4>1
      <4> QED BY <1>5, <2>1, <4>1
    <3>3. rest[i - 1].op = "Subscribe" /\ s \in rest[i - 1].set
      BY <2>1, <3>1
    <3>4. Settles(next, rest, s)
      BY <3>1, <3>2, <3>3 DEF Settles
    <3> QED BY <3>4 DEF next, rest, k
  <2> QED BY <2>2, <2>3
<1> QED BY <1>6, <1>7, <1>8 DEF Settles

-----------------------------------------------------------------------------
(* What was asked is on its way.                                            *)

\* Every symbol of the list will leave it, or be subscribed.
Accounted(symbolsOf, subs, calls) ==
  \A s \in symbolsOf : Leaves(calls, s) \/ Settles(subs, calls, s)

\* A call accounts for what it subscribes and keeps what it does not unsubscribe.
LEMMA AccountedAppend ==
  ASSUME NEW before, NEW after, NEW subs, NEW calls \in Seq(Call), NEW k \in Call,
         Accounted(before, subs, calls),
         \A s \in after :
           \/ s \in before /\ ~ Unsubscribes(k, s)
           \/ k.op = "Subscribe" /\ s \in k.set
  PROVE  Accounted(after, subs, Append(calls, k))
<1> SUFFICES ASSUME NEW s \in after
             PROVE  Leaves(Append(calls, k), s) \/ Settles(subs, Append(calls, k), s)
  BY DEF Accounted
<1>1. CASE k.op = "Subscribe" /\ s \in k.set
  BY <1>1, SettlesLast
<1>2. CASE s \in before /\ ~ Unsubscribes(k, s)
  BY <1>2, SettlesStill, LeavesStill DEF Accounted
<1> QED BY <1>1, <1>2

\* One event of a poll, in the order of updateSubscriptions.
LEMMA UpdateAccounts ==
  ASSUME NEW u \in Buffered, NEW a \in SUBSET Symbols, NEW b \in SUBSET Symbols, NEW subs,
         Accounted(u.list, subs, u.calls), ~ Boots(u.calls)
  PROVE  LET v == Update(u, a, b) IN
         Accounted(v.list, subs, v.calls) /\ ~ Boots(v.calls)
<1>1. /\ u.list \in SUBSET Symbols /\ u.opts \in SUBSET Symbols /\ u.calls \in Seq(Call)
  BY DEF Buffered
<1>2. CASE a # {}
  <2> DEFINE k == Subscribe(a, b)
  <2>1. k \in Call /\ k.op = "Subscribe" /\ k.set = a /\ ~ k.boot
    BY CallType DEF Subscribe
  <2>2. Update(u, a, b).list = u.list \cup a /\ Update(u, a, b).calls = Append(u.calls, k)
    <3> HIDE DEF k
    <3>1. Update(u, a, b) = [u EXCEPT !.list = u.list \cup a,
                                      !.opts = IF u.aliased THEN u.opts \cup a ELSE u.opts,
                                      !.calls = Append(u.calls, k)]
      BY <1>2 DEF Update, Buffered, k
    <3> QED BY <3>1 DEF Buffered
  <2> HIDE DEF k
  <2>3. \A s \in u.list \cup a :
          \/ s \in u.list /\ ~ Unsubscribes(k, s)
          \/ k.op = "Subscribe" /\ s \in k.set
    BY <2>1 DEF Unsubscribes
  <2>4. Accounted(u.list \cup a, subs, Append(u.calls, k))
    BY <1>1, <2>1, <2>3, AccountedAppend
  <2> QED BY <1>1, <2>1, <2>2, <2>4, BootsStill
<1>3. CASE a = {} /\ b # {}
  <2> DEFINE k == Unsubscribe(b)
  <2>1. k \in Call /\ k.op = "Unsubscribe" /\ k.set = b /\ ~ k.boot
    BY CallType DEF Unsubscribe
  <2>2. Update(u, a, b).list = u.list \ b /\ Update(u, a, b).calls = Append(u.calls, k)
    <3> HIDE DEF k
    <3>1. Update(u, a, b) = [u EXCEPT !.list = u.list \ b, !.aliased = FALSE,
                                      !.calls = Append(u.calls, k)]
      BY <1>3 DEF Update, Buffered, k
    <3> QED BY <3>1 DEF Buffered
  <2> HIDE DEF k
  <2>3. \A s \in u.list \ b :
          \/ s \in u.list /\ ~ Unsubscribes(k, s)
          \/ k.op = "Subscribe" /\ s \in k.set
    BY <2>1 DEF Unsubscribes
  <2>4. Accounted(u.list \ b, subs, Append(u.calls, k))
    BY <1>1, <2>1, <2>3, AccountedAppend
  <2> QED BY <1>1, <2>1, <2>2, <2>4, BootsStill
<1>4. CASE a = {} /\ b = {}
  BY <1>4 DEF Update
<1> QED BY <1>2, <1>3, <1>4

-----------------------------------------------------------------------------
(* The inductive invariant.                                                 *)

\* A connection that is not up has no calls, for Drop rejects them.
CallsWhenUp == \A c \in Conns : conn[c].state # "up" => conn[c].calls = <<>>

\* The consumer's connection is the only one there is.
OnlyConnection == \A d \in Conns : conn[d].state # "free" => d = connection

\* The consumer is not started while its connection is being made or the first
\* subscription is under way, and the timer runs only when neither is the case;
\* that subscription is the first call of the connection.
StartsOnce ==
  /\ timer => ~ started
  /\ At(connection, "starting") => ~ started /\ ~ timer /\ aliased
  /\ At(connection, "up") =>
       /\ Boots(conn[connection].calls) => ~ started /\ ~ timer
       /\ \A i \in DOMAIN conn[connection].calls :
            i > 1 => ~ conn[connection].calls[i].boot

\* The calls under way lead to a subscription of every symbol that stays.
Covered ==
  ~ stopping /\ At(connection, "up") =>
    Accounted(list, conn[connection].subs, conn[connection].calls)

StreamsInv ==
  /\ CallsWhenUp
  /\ ~ leaked => OnlyConnection /\ StartsOnce /\ Covered

\* The list is empty at first, and nothing is under way.
LEMMA InitStreams == Init => StreamsInv
<1> SUFFICES ASSUME Init PROVE StreamsInv
  OBVIOUS
<1>1. PICK c \in Conns :
        /\ conn = [d \in Conns |-> IF d = c THEN [Free EXCEPT !.state = "up"] ELSE Free]
        /\ connection = c
  BY DEF Init
<1>2. /\ conn[c].state = "up" /\ conn[c].calls = <<>>
      /\ \A d \in Conns \ {c} : conn[d].state = "free" /\ conn[d].calls = <<>>
  BY <1>1, FreeType DEF Free
<1>3. list = {} /\ ~ timer
  BY DEF Init
<1> QED BY <1>1, <1>2, <1>3
        DEF StreamsInv, CallsWhenUp, OnlyConnection, StartsOnce, Covered, Accounted, Boots, At

-----------------------------------------------------------------------------
(* The steps.                                                               *)

\* An answer, which may be the boot call's and may send one more call.
LEMMA AnswerKeeps ==
  ASSUME TypeOK, StreamsInv, NEW c \in Conns, Answer(c)
  PROVE  StreamsInv'
<1> DEFINE k == Head(conn[c].calls)
           calls == conn[c].calls
<1>1. /\ k \in Call
      /\ \A d \in Conns : conn'[d].state = conn[d].state
      /\ \A d \in Conns \ {c} : conn'[d].state # "up" => conn'[d].calls = conn[d].calls
      /\ conn'[c].subs = IF k.op = "Subscribe" THEN conn[c].subs \cup k.set
                                               ELSE conn[c].subs \ k.set
      /\ \/ conn'[c].calls = Tail(calls)
         \/ conn'[c].calls = Tail(calls) \o <<Unsubscribe(k.then)>>
  BY AnswerEffect
<1>2. /\ list' = list \ k.then /\ started' = (started \/ k.boot)
      /\ UNCHANGED <<connection, stopping, timer, leaked>> /\ calls # <<>>
  BY DEF Answer, Without
<1>3. calls \in Seq(Call) /\ Tail(calls) \in Seq(Call)
  BY <1>2, ConnType
<1>4. conn[c].state = "up"
  BY <1>2 DEF StreamsInv, CallsWhenUp
<1> HIDE DEF k, calls
<1>5. CallsWhenUp'
  BY <1>1, <1>4 DEF StreamsInv, CallsWhenUp
<1>6. ASSUME ~ leaked PROVE (OnlyConnection /\ StartsOnce /\ Covered)'
  <2>1. /\ connection = c /\ At(connection, "up") /\ At(connection, "up")'
        /\ \A d \in Conns : conn[d].state # "free" => d = connection
    BY <1>1, <1>2, <1>4, <1>6, StreamsAssumption DEF StreamsInv, OnlyConnection, At
  <2>2. k.then \in SUBSET Symbols /\ Unsubscribe(k.then) \in Call
        /\ ~ Unsubscribe(k.then).boot /\ Unsubscribe(k.then).set = k.then
    <3>1. k.then \in SUBSET Symbols
      BY <1>1, Zenon DEF Call
    <3> QED BY <3>1, CallType DEF Unsubscribe
  <2>3. ~ Boots(Tail(calls))
    <3>1. \A i \in DOMAIN calls : i > 1 => ~ calls[i].boot
      BY <1>6, <2>1 DEF StreamsInv, StartsOnce, calls
    <3>2. \A i \in DOMAIN Tail(calls) :
            i + 1 \in DOMAIN calls /\ Tail(calls)[i] = calls[i + 1] /\ i + 1 > 1
      BY <1>2, <1>3
    <3> QED BY <3>1, <3>2 DEF Boots
  <2>4. ASSUME ~ stopping
        PROVE  Accounted(list', conn'[c].subs, Tail(calls))
    <3>1. \A s \in list : Leaves(calls, s) \/ Settles(conn[c].subs, calls, s)
      BY <1>6, <2>1, <2>4 DEF StreamsInv, Covered, Accounted, calls
    <3>2. ASSUME NEW s \in list'
          PROVE  Leaves(Tail(calls), s) \/ Settles(conn'[c].subs, Tail(calls), s)
      <4>1. s \in list /\ s \notin Head(calls).then
        BY <1>2 DEF k, calls
      <4>2. Leaves(calls, s) \/ Settles(conn[c].subs, calls, s)
        BY <3>1, <4>1
      <4>3. conn'[c].subs = IF Head(calls).op = "Subscribe" THEN conn[c].subs \cup Head(calls).set
                                                           ELSE conn[c].subs \ Head(calls).set
        BY <1>1 DEF k, calls
      <4> QED BY <1>2, <1>3, <4>1, <4>2, <4>3, AnswerSettles
    <3> QED BY <3>2 DEF Accounted
  <2>5. /\ ~ Boots(conn'[c].calls)
        /\ ~ stopping => Accounted(list', conn'[c].subs, conn'[c].calls)
    <3>1. CASE conn'[c].calls = Tail(calls)
      BY <2>3, <2>4, <3>1
    <3>2. CASE conn'[c].calls = Tail(calls) \o <<Unsubscribe(k.then)>>
      <4>1. conn'[c].calls = Append(Tail(calls), Unsubscribe(k.then))
        BY <1>3, <2>2, <3>2
      <4>2. \A s \in list' : ~ Unsubscribes(Unsubscribe(k.then), s)
        BY <1>2, <2>2 DEF Unsubscribes
      <4>3. ~ Boots(conn'[c].calls)
        <5> DEFINE u == Unsubscribe(k.then)
                   rest == Tail(calls)
        <5>1. u \in Call /\ ~ u.boot /\ rest \in Seq(Call) /\ ~ Boots(rest)
          BY <1>3, <2>2, <2>3
        <5>2. conn'[c].calls = Append(rest, u)
          BY <4>1
        <5> HIDE DEF u, rest
        <5>3. ~ Boots(Append(rest, u))
          BY <5>1, BootsStill
        <5> QED BY <5>2, <5>3
      <4>4. ASSUME ~ stopping
            PROVE  Accounted(list', conn'[c].subs, conn'[c].calls)
        BY <1>3, <2>2, <2>4, <4>1, <4>2, <4>4, AccountedAppend
      <4> QED BY <4>3, <4>4
    <3> QED BY <1>1, <3>1, <3>2
  <2>6. OnlyConnection'
    BY <1>1, <1>2, <2>1 DEF OnlyConnection
  <2>7. timer => ~ started'
    <3>1. k.boot => Boots(calls)
      <4>1. 1 \in DOMAIN calls /\ calls[1] = k
        BY <1>2, <1>3 DEF k, calls
      <4> QED BY <4>1 DEF Boots
    <3>2. Boots(calls) => ~ timer
      BY <1>6, <2>1 DEF StreamsInv, StartsOnce, calls
    <3> QED BY <1>2, <1>6, <3>1, <3>2 DEF StreamsInv, StartsOnce
  <2>8. StartsOnce'
    <3>1. ~ At(connection, "starting")'
      BY <1>1, <1>2, <1>4, <2>1 DEF At
    <3> QED BY <1>2, <2>1, <2>5, <2>7, <3>1 DEF StartsOnce, Boots
  <2>9. Covered'
    BY <1>2, <2>1, <2>5 DEF Covered
  <2> QED BY <2>6, <2>8, <2>9
<1> QED BY <1>2, <1>5, <1>6 DEF StreamsInv

\* Without calls, a symbol is accounted for when it is subscribed.
LEMMA EmptyCalls ==
  ASSUME NEW subs, NEW those
  PROVE  /\ <<>> \in Seq(Call) /\ ~ Boots(<<>>)
         /\ Accounted(those, subs, <<>>) <=> \A s \in those : s \in subs
<1>1. DOMAIN <<>> = {} /\ <<>> \in Seq(Call)
  OBVIOUS
<1> QED BY <1>1 DEF Boots, Accounted, Leaves, Settles

\* A poll finds no call under way; its events account for the new list.
LEMMA PollKeeps ==
  ASSUME TypeOK, StreamsInv, NEW wanted \in SUBSET Symbols, Poll(wanted)
  PROVE  StreamsInv'
<1>1. PICK added \in SUBSET Symbols, removed \in SUBSET Symbols : HubUpdated(added, removed)
  <2> DEFINE active == IF wanted = {} THEN Defaults ELSE wanted
  <2>1. active \in SUBSET Symbols /\ managed \in SUBSET Symbols
    BY StreamsAssumption DEF TypeOK
  <2>2. HubUpdated(active \ managed, managed \ active)
    BY DEF Poll
  <2>3. active \ managed \in SUBSET Symbols /\ managed \ active \in SUBSET Symbols
    BY <2>1
  <2> HIDE DEF active
  <2> QED BY <2>2, <2>3
<1>2. stopping' = stopping /\ \A c \in Conns : conn[c].calls = <<>>
  BY DEF Poll
<1>3. CASE UNCHANGED hubVars
  BY <1>2, <1>3
     DEF hubVars, StreamsInv, CallsWhenUp, OnlyConnection, StartsOnce, Covered, At
<1>4. CASE started /\ ~ UNCHANGED hubVars
  <2> DEFINE before == [list |-> list, opts |-> opts, aliased |-> aliased, calls |-> <<>>]
             mid == Update(before, added, removed)
             after == Update(mid, added \cap Forex, removed \cap Forex)
  <2>1. /\ connection # None => list' = after.list
        /\ conn' = Sent(conn, after.calls)
        /\ UNCHANGED <<connection, started, timer, leaked>>
    BY <1>1, <1>4 DEF HubUpdated
  <2>2. before \in Buffered /\ before.list = list /\ before.calls = <<>>
    BY DEF TypeOK, Buffered
  <2>3. added \cap Forex \in SUBSET Symbols /\ removed \cap Forex \in SUBSET Symbols
    OBVIOUS
  <2> HIDE DEF before
  <2>4. mid \in Buffered
    BY <2>2, UpdateType
  <2>5. after \in Buffered
    <3> HIDE DEF mid
    <3> QED BY <2>3, <2>4, UpdateType
  <2>6. ASSUME NEW subs, \A s \in list : s \in subs
        PROVE  Accounted(after.list, subs, after.calls) /\ ~ Boots(after.calls)
    <3>1. Accounted(before.list, subs, before.calls) /\ ~ Boots(before.calls)
      BY <2>2, <2>6, EmptyCalls
    <3>2. Accounted(mid.list, subs, mid.calls) /\ ~ Boots(mid.calls)
      BY <2>2, <3>1, UpdateAccounts
    <3> HIDE DEF mid
    <3> QED BY <2>3, <2>4, <3>2, UpdateAccounts
  <2>7. ~ Boots(after.calls)
    BY <2>6
  <2> HIDE DEF mid, after
  <2>8. after.calls \in Seq(Call) /\ connection \in Conns \cup {None} /\ conn \in [Conns -> Conn]
    BY <2>5 DEF Buffered, TypeOK
  <2>9. \A c \in Conns :
          /\ conn'[c].state = conn[c].state
          /\ conn'[c].subs = conn[c].subs
          /\ conn'[c].calls =
               IF c = connection /\ connection # None /\ conn[c].state = "up"
               THEN conn[c].calls \o after.calls ELSE conn[c].calls
          /\ conn[c].state # "up" => conn'[c] = conn[c]
    BY <2>1, <2>8, SentType
  <2>10. CallsWhenUp'
    BY <1>2, <2>9 DEF CallsWhenUp
  <2>11. ASSUME ~ leaked PROVE (OnlyConnection /\ StartsOnce /\ Covered)'
    <3>1. OnlyConnection'
      BY <2>1, <2>9, <2>11 DEF StreamsInv, OnlyConnection
    <3>2. ~ timer /\ ~ At(connection, "starting")'
      BY <1>4, <2>1, <2>8, <2>9, <2>11 DEF StreamsInv, StartsOnce, At
    <3>3. ASSUME At(connection, "up")'
          PROVE  /\ conn'[connection].calls = after.calls
                 /\ conn'[connection].subs = conn[connection].subs
                 /\ At(connection, "up")
      <4>1. connection \in Conns /\ connection # None /\ conn[connection].state = "up"
        BY <2>1, <2>8, <2>9, <3>3 DEF At
      <4>2. <<>> \o after.calls = after.calls
        BY <2>8
      <4> QED BY <1>2, <2>9, <4>1, <4>2 DEF At
    <3>4. StartsOnce'
      BY <2>1, <2>7, <3>2, <3>3 DEF StartsOnce, Boots
    <3>5. Covered'
      <4> SUFFICES ASSUME ~ stopping, At(connection, "up")'
                   PROVE  Accounted(list', conn'[connection].subs, conn'[connection].calls)
        BY <1>2, <2>1 DEF Covered
      <4>1. Accounted(list, conn[connection].subs, <<>>)
        BY <1>2, <2>8, <2>11, <3>3 DEF StreamsInv, Covered, At
      <4>2. \A s \in list : s \in conn[connection].subs
        BY <4>1, EmptyCalls
      <4>3. list' = after.list
        BY <2>1, <3>3 DEF At
      <4> QED BY <2>6, <3>3, <4>2, <4>3
    <3> QED BY <3>1, <3>4, <3>5
  <2> QED BY <2>1, <2>10, <2>11 DEF StreamsInv
<1> QED BY <1>1, <1>3, <1>4 DEF HubUpdated

\* A drop rejects the calls; the boot call's rejection sets the timer.
LEMMA DropKeeps ==
  ASSUME TypeOK, StreamsInv, NEW c \in Conns, Drop(c)
  PROVE  StreamsInv'
<1> DEFINE awaited == Boots(conn[c].calls)
<1>1. /\ conn'[c].state = "retrying" /\ conn'[c].calls = <<>>
      /\ \A d \in Conns \ {c} : conn'[d] = conn[d]
  BY ResetType DEF Drop
<1>2. /\ conn[c].state = "up" /\ c # None
      /\ timer' = (timer \/ (~ stopping /\ awaited))
      /\ UNCHANGED <<connection, started, stopping, list, opts, aliased, leaked>>
  BY DEF Drop, At, Boots
<1> HIDE DEF awaited
<1>3. CallsWhenUp'
  BY <1>1 DEF StreamsInv, CallsWhenUp
<1>4. ASSUME ~ leaked PROVE (OnlyConnection /\ StartsOnce /\ Covered)'
  <2>1. connection = c
    BY <1>2, <1>4 DEF StreamsInv, OnlyConnection
  <2>2. OnlyConnection'
    BY <1>1, <1>2, <1>4, <2>1 DEF StreamsInv, OnlyConnection
  <2>3. awaited => ~ started
    BY <1>2, <1>4, <2>1 DEF StreamsInv, StartsOnce, At, awaited
  <2>4. timer' => ~ started
    BY <1>2, <1>4, <2>3 DEF StreamsInv, StartsOnce
  <2>5. ~ At(connection, "up")' /\ ~ At(connection, "starting")'
    BY <1>1, <1>2, <2>1 DEF At
  <2> QED BY <1>2, <2>2, <2>4, <2>5 DEF StartsOnce, Covered
<1> QED BY <1>2, <1>3, <1>4 DEF StreamsInv

\* The list is sent again, which accounts for all of it.
LEMMA ReconnectedKeeps ==
  ASSUME TypeOK, StreamsInv, NEW c \in Conns, Reconnected(c)
  PROVE  StreamsInv'
<1>1. /\ conn'[c].state = "up"
      /\ \A d \in Conns \ {c} : conn'[d].state = conn[d].state
      /\ \A d \in Conns : conn'[d].subs = conn[d].subs
      /\ \A d \in Conns :
           conn'[d].calls =
             IF d = connection /\ conn'[d].state = "up" /\ list # {}
             THEN conn[d].calls \o <<Subscribe(list, {})>> ELSE conn[d].calls
  BY ReconnectedEffect
<1>2. /\ conn[c].state = "retrying" /\ c # None
      /\ UNCHANGED <<connection, started, stopping, timer, list, opts, aliased, leaked>>
  BY DEF Reconnected, At
<1>3. conn[c].calls = <<>>
  BY <1>2 DEF StreamsInv, CallsWhenUp
<1>4. CallsWhenUp'
  BY <1>1, <1>2 DEF StreamsInv, CallsWhenUp
<1>5. ASSUME ~ leaked PROVE (OnlyConnection /\ StartsOnce /\ Covered)'
  <2>1. connection = c
    BY <1>2, <1>5 DEF StreamsInv, OnlyConnection
  <2>2. OnlyConnection'
    BY <1>1, <1>2, <1>5, <2>1 DEF StreamsInv, OnlyConnection
  <2>3. ~ At(connection, "starting")'
    BY <1>1, <1>2, <2>1 DEF At
  <2>4. ~ Boots(conn'[c].calls) /\ Accounted(list, conn'[c].subs, conn'[c].calls)
    <3>1. CASE list = {}
      BY <1>1, <1>3, <3>1, EmptyCalls
    <3>2. CASE list # {}
      <4> DEFINE k == Subscribe(list, {})
      <4>1. k \in Call /\ ~ k.boot /\ k.op = "Subscribe" /\ k.set = list
        <5>1. list \in SUBSET Symbols /\ {} \in SUBSET Symbols
          BY DEF TypeOK
        <5>2. k \in Call
          BY <5>1, CallType
        <5> QED BY <5>2 DEF Subscribe
      <4>2. conn'[c].calls = <<>> \o <<k>>
        BY <1>1, <1>3, <2>1, <3>2
      <4> HIDE DEF k
      <4>3. conn'[c].calls = Append(<<>>, k)
        BY <4>2
      <4>4. ~ Boots(Append(<<>>, k))
        BY <4>1, EmptyCalls, BootsStill
      <4>5. Accounted({}, conn'[c].subs, <<>>)
        BY DEF Accounted
      <4>6. Accounted(list, conn'[c].subs, Append(<<>>, k))
        BY <4>1, <4>5, EmptyCalls, AccountedAppend
      <4> QED BY <4>3, <4>4, <4>6
    <3> QED BY <3>1, <3>2
  <2>5. StartsOnce'
    BY <1>2, <1>5, <2>1, <2>3, <2>4 DEF StreamsInv, StartsOnce, Boots
  <2>6. Covered'
    BY <1>2, <2>1, <2>4 DEF Covered
  <2> QED BY <2>2, <2>5, <2>6
<1> QED BY <1>2, <1>4, <1>5 DEF StreamsInv

\* A connection that is given up, or was never made.
LEMMA FreedKeeps ==
  ASSUME TypeOK, StreamsInv, NEW c \in Conns, GivesUp(c) \/ ConnectFails(c)
  PROVE  StreamsInv'
<1>1. /\ conn'[c].state = "free" /\ conn'[c].calls = <<>>
      /\ \A d \in Conns \ {c} : conn'[d] = conn[d]
  BY FreedType DEF GivesUp, ConnectFails
<1>2. /\ conn[c].state # "free" /\ c # None
      /\ started' = FALSE \/ (conn[c].state = "starting" /\ started' = started)
      /\ UNCHANGED <<connection, stopping, list, opts, aliased, leaked>>
  BY DEF GivesUp, ConnectFails, At
<1>3. CallsWhenUp'
  BY <1>1 DEF StreamsInv, CallsWhenUp
<1>4. ASSUME ~ leaked PROVE (OnlyConnection /\ StartsOnce /\ Covered)'
  <2>1. connection = c
    BY <1>2, <1>4 DEF StreamsInv, OnlyConnection
  <2>2. OnlyConnection'
    BY <1>1, <1>2, <1>4, <2>1 DEF StreamsInv, OnlyConnection
  <2>3. ~ started'
    BY <1>2, <1>4, <2>1 DEF StreamsInv, StartsOnce, At
  <2>4. ~ At(connection, "up")' /\ ~ At(connection, "starting")'
    BY <1>1, <1>2, <2>1 DEF At
  <2> QED BY <1>2, <2>2, <2>3, <2>4 DEF StartsOnce, Covered
<1> QED BY <1>2, <1>3, <1>4 DEF StreamsInv

\* A rebuild that finds every other connection gone.
LEMMA RebuildKeeps ==
  ASSUME TypeOK, StreamsInv, NEW c \in Conns, RebuildStarts(c)
  PROVE  StreamsInv'
<1>1. /\ conn'[c].state = "starting" /\ conn'[c].calls = conn[c].calls
      /\ \A d \in Conns \ {c} : conn'[d] = conn[d]
  BY BecomesType DEF RebuildStarts
<1>2. /\ ~ started /\ ~ started' /\ timer' = FALSE /\ connection' = c /\ aliased' = TRUE
      /\ conn[c].state = "free" /\ c # None
      /\ leaked' = (leaked \/ \E d \in Conns : ~ At(d, "free"))
  BY DEF RebuildStarts, At
<1>3. CallsWhenUp'
  BY <1>1, <1>2 DEF StreamsInv, CallsWhenUp
<1>4. ASSUME ~ leaked' PROVE (OnlyConnection /\ StartsOnce /\ Covered)'
  <2>1. \A d \in Conns : conn[d].state = "free"
    BY <1>2, <1>4 DEF At
  <2>2. OnlyConnection'
    BY <1>1, <1>2, <2>1 DEF OnlyConnection
  <2>3. ~ At(connection, "up")'
    BY <1>1, <1>2 DEF At
  <2> QED BY <1>2, <2>2, <2>3 DEF StartsOnce, Covered
<1> QED BY <1>3, <1>4 DEF StreamsInv

\* start() subscribes the array of its options, which is the list of a
\* connection that has just been made.
LEMMA ConnectsKeeps ==
  ASSUME TypeOK, StreamsInv, NEW c \in Conns, Connects(c)
  PROVE  StreamsInv'
<1>1. /\ conn'[c].state = "up"
      /\ \A d \in Conns \ {c} : conn'[d].state = conn[d].state
      /\ \A d \in Conns : conn'[d].subs = conn[d].subs
      /\ \A d \in Conns :
           conn'[d].calls =
             IF d = connection /\ conn'[d].state = "up" /\ opts # {}
             THEN conn[d].calls \o <<BootCall>> ELSE conn[d].calls
      /\ IF opts = {} \/ connection = None
           THEN started' /\ timer' = timer
           ELSE /\ started' = started
                /\ timer' = (timer \/ (conn' = Becomes(c, "up") /\ ~ stopping))
  BY ConnectsEffect
<1>2. /\ conn[c].state = "starting" /\ c # None
      /\ UNCHANGED <<connection, stopping, list, opts, aliased, leaked>>
  BY DEF Connects, At
<1>3. conn[c].calls = <<>>
  BY <1>2 DEF StreamsInv, CallsWhenUp
<1>4. CallsWhenUp'
  BY <1>1, <1>2 DEF StreamsInv, CallsWhenUp
<1>5. ASSUME ~ leaked PROVE (OnlyConnection /\ StartsOnce /\ Covered)'
  <2>1. connection = c
    BY <1>2, <1>5 DEF StreamsInv, OnlyConnection
  <2>2. OnlyConnection'
    BY <1>1, <1>2, <1>5, <2>1 DEF StreamsInv, OnlyConnection
  <2>3. ~ started /\ ~ timer /\ list = opts
    BY <1>2, <1>5, <2>1 DEF StreamsInv, StartsOnce, At, TypeOK
  <2>4. ~ At(connection, "starting")'
    BY <1>1, <1>2, <2>1 DEF At
  <2>5. CASE opts = {}
    <3>1. conn'[c].calls = <<>> /\ timer' = FALSE
      BY <1>1, <1>3, <2>3, <2>5
    <3>2. ~ Boots(conn'[c].calls) /\ Accounted(list, conn'[c].subs, conn'[c].calls)
      BY <2>3, <2>5, <3>1, EmptyCalls
    <3>3. StartsOnce'
      BY <1>2, <2>1, <2>4, <3>1, <3>2 DEF StartsOnce, Boots
    <3>4. Covered'
      BY <1>2, <2>1, <3>2 DEF Covered
    <3> QED BY <2>2, <3>3, <3>4
  <2>6. CASE opts # {}
    <3> DEFINE k == BootCall
    <3>1. k \in Call /\ k.op = "Subscribe" /\ k.set = list
      <4>1. opts \in SUBSET Symbols /\ {} \in SUBSET Symbols
        BY DEF TypeOK
      <4>2. k \in Call
        BY <4>1, Zenon DEF Call, BootCall
      <4> QED BY <2>3, <4>2 DEF BootCall
    <3>2. conn'[c].calls = <<>> \o <<k>>
      BY <1>1, <1>3, <2>1, <2>6
    <3> HIDE DEF k
    <3>3. conn'[c].calls = Append(<<>>, k) /\ conn'[c].calls = <<k>>
      BY <3>2
    <3>4. conn' # Becomes(c, "up")
      <4>1. Becomes(c, "up")[c].calls = <<>>
        BY <1>3, BecomesType
      <4>2. <<k>> # <<>>
        OBVIOUS
      <4> QED BY <3>3, <4>1, <4>2
    <3>5. ~ started' /\ ~ timer'
      BY <1>1, <1>2, <2>1, <2>3, <2>6, <3>4
    <3>6. \A i \in DOMAIN conn'[c].calls : i = 1
      BY <3>3
    <3>7. StartsOnce'
      BY <1>2, <2>1, <2>4, <3>5, <3>6 DEF StartsOnce
    <3>8. Accounted({}, conn'[c].subs, <<>>)
      BY DEF Accounted
    <3>9. Accounted(list, conn'[c].subs, Append(<<>>, k))
      BY <3>1, <3>8, EmptyCalls, AccountedAppend
    <3>10. Covered'
      BY <1>2, <2>1, <3>3, <3>9 DEF Covered
    <3> QED BY <2>2, <3>7, <3>10
  <2> QED BY <2>5, <2>6
<1> QED BY <1>2, <1>4, <1>5 DEF StreamsInv

\* Stop() unsubscribes at the end of the calls.
LEMMA StopKeeps ==
  ASSUME TypeOK, StreamsInv, Stop
  PROVE  StreamsInv'
<1>1. /\ \A d \in Conns : conn'[d].state = conn[d].state
      /\ \A d \in Conns :
           conn'[d].calls =
             IF d = connection /\ conn[d].state = "up" /\ list # {}
             THEN conn[d].calls \o <<Unsubscribe(list)>> ELSE conn[d].calls
  BY StopEffect
<1>2. /\ stopping' /\ ~ timer'
      /\ UNCHANGED <<connection, started, list, opts, aliased, leaked>>
  BY DEF Stop
<1>3. CallsWhenUp'
  BY <1>1 DEF StreamsInv, CallsWhenUp
<1>4. ASSUME ~ leaked PROVE (OnlyConnection /\ StartsOnce /\ Covered)'
  <2>1. OnlyConnection' /\ Covered'
    BY <1>1, <1>2, <1>4 DEF StreamsInv, OnlyConnection, Covered
  <2>2. At(connection, "starting")' => ~ started' /\ aliased'
    BY <1>1, <1>2, <1>4 DEF StreamsInv, StartsOnce, At, TypeOK
  <2>3. ASSUME At(connection, "up")'
        PROVE  /\ Boots(conn'[connection].calls) => ~ started
               /\ \A i \in DOMAIN conn'[connection].calls :
                    i > 1 => ~ conn'[connection].calls[i].boot
    <3> DEFINE calls == conn[connection].calls
               k == Unsubscribe(list)
    <3>1. /\ connection \in Conns /\ At(connection, "up") /\ calls \in Seq(Call)
          /\ conn[connection].state = "up"
      BY <1>1, <1>2, <2>3, ConnType DEF At, TypeOK
    <3>2. k \in Call /\ ~ k.boot
      BY CallType DEF TypeOK, Unsubscribe
    <3>3. /\ Boots(calls) => ~ started
          /\ \A i \in DOMAIN calls : i > 1 => ~ calls[i].boot
      BY <1>4, <3>1 DEF StreamsInv, StartsOnce
    <3>4. conn'[connection].calls = IF list # {} THEN calls \o <<k>> ELSE calls
      BY <1>1, <3>1
    <3> HIDE DEF calls, k
    <3>5. CASE list # {}
      <4>1. conn'[connection].calls = Append(calls, k)
        BY <3>1, <3>4, <3>5
      <4>2. Boots(Append(calls, k)) => ~ started
        BY <3>1, <3>2, <3>3, BootsStill
      <4>3. \A i \in DOMAIN Append(calls, k) :
              i > 1 => ~ Append(calls, k)[i].boot
        BY <3>1, <3>2, <3>3
      <4> QED BY <4>1, <4>2, <4>3
    <3>6. CASE list = {}
      BY <3>3, <3>4, <3>6
    <3> QED BY <3>5, <3>6
  <2> QED BY <1>2, <2>1, <2>2, <2>3 DEF StartsOnce
<1> QED BY <1>2, <1>3, <1>4 DEF StreamsInv

\* After it there is no connection.
LEMMA StopEndsKeeps ==
  ASSUME TypeOK, StreamsInv, StopEnds
  PROVE  StreamsInv'
<1>1. connection \in Conns /\ connection' = None /\ started' = FALSE
  BY DEF StopEnds, TypeOK
<1>2. /\ conn'[connection].state = "free" /\ conn'[connection].calls = <<>>
      /\ \A d \in Conns \ {connection} : conn'[d] = conn[d]
  BY <1>1, FreedType DEF StopEnds
<1>3. UNCHANGED <<timer, leaked>>
  BY DEF StopEnds
<1>4. CallsWhenUp'
  BY <1>2 DEF StreamsInv, CallsWhenUp
<1>5. ~ leaked => OnlyConnection'
  BY <1>1, <1>2 DEF StreamsInv, OnlyConnection
<1> QED BY <1>1, <1>3, <1>4, <1>5 DEF StreamsInv, StartsOnce, Covered, At

\* Every step keeps the invariant; a rebuild that finds the consumer started
\* has a connection left behind.
LEMMA NextStreams == TypeOK /\ StreamsInv /\ [Next]_vars => StreamsInv'
<1> SUFFICES ASSUME TypeOK, StreamsInv, [Next]_vars PROVE StreamsInv'
  OBVIOUS
<1>1. ASSUME NEW wanted \in SUBSET Symbols, Poll(wanted) PROVE StreamsInv'
  BY <1>1, PollKeeps
<1>2. ASSUME NEW c \in Conns, HubStep(c) PROVE StreamsInv'
  <2>1. CASE Answer(c)
    BY <2>1, AnswerKeeps
  <2>2. CASE Drop(c)
    BY <2>2, DropKeeps
  <2>3. CASE Reconnected(c)
    BY <2>3, ReconnectedKeeps
  <2>4. CASE GivesUp(c) \/ ConnectFails(c)
    BY <2>4, FreedKeeps
  <2>5. CASE RebuildStarts(c)
    BY <2>5, RebuildKeeps
  <2>6. CASE Connects(c)
    BY <2>6, ConnectsKeeps
  <2> QED BY <1>2, <2>1, <2>2, <2>3, <2>4, <2>5, <2>6 DEF HubStep
<1>3. CASE RebuildFindsStarted
  <2>1. leaked /\ UNCHANGED <<conn, leaked>>
    BY <1>3 DEF RebuildFindsStarted, StreamsInv, StartsOnce
  <2> QED BY <2>1 DEF StreamsInv, CallsWhenUp
<1>4. CASE Stop
  BY <1>4, StopKeeps
<1>5. CASE StopEnds
  BY <1>5, StopEndsKeeps
<1>6. CASE UNCHANGED <<hubVars, stopping>>
  BY <1>6 DEF hubVars, StreamsInv, CallsWhenUp, OnlyConnection, StartsOnce, Covered, At
<1>7. Opens \/ Closes \/ Connect \/ UNCHANGED vars => UNCHANGED <<hubVars, stopping>>
  BY DEF Opens, Closes, Connect, vars
<1> QED BY <1>1, <1>2, <1>3, <1>4, <1>5, <1>6, <1>7 DEF Next

\* The socket's URL names the symbols of the consumer while it is in use.
SocketInv == ws \in {"connecting", "open"} => streams = symbols

\* The first URL names the configured symbols.
LEMMA InitSocket == Init => SocketInv
BY DEF Init, SocketInv

\* The socket is closed whenever the set changes.
LEMMA NextSocket == SocketInv /\ [Next]_vars => SocketInv'
<1> SUFFICES ASSUME SocketInv, [Next]_vars PROVE SocketInv'
  OBVIOUS
<1>1. ASSUME NEW wanted \in SUBSET Symbols, Poll(wanted) PROVE SocketInv'
  <2> DEFINE active == IF wanted = {} THEN Defaults ELSE wanted
             added == active \ managed
             removed == managed \ active
             set == (symbols \cup (added \cap Crypto)) \ (removed \cap Crypto)
  <2>1. BinanceUpdated(set)
    BY <1>1 DEF Poll
  <2> HIDE DEF set
  <2> QED BY <2>1 DEF BinanceUpdated, SocketCloses, SocketInv
<1>2. ASSUME NEW c \in Conns, HubStep(c) PROVE UNCHANGED binanceVars
  BY <1>2 DEF HubStep, Answer, Drop, Reconnected, GivesUp, RebuildStarts, Connects, ConnectFails
<1>3. CASE UNCHANGED binanceVars
  BY <1>3 DEF binanceVars, SocketInv
<1>4. CASE RebuildFindsStarted \/ StopEnds
  BY <1>4 DEF RebuildFindsStarted, StopEnds, binanceVars, SocketInv
<1>5. CASE Opens \/ Closes \/ Connect \/ Stop
  BY <1>5 DEF Opens, Closes, Connect, Stop, SocketCloses, SocketInv
<1>6. CASE UNCHANGED vars
  BY <1>6 DEF vars, binanceVars, SocketInv
<1> QED BY <1>1, <1>2, <1>3, <1>4, <1>5, <1>6 DEF Next

\* With its calls over, a connection has what its list accounts for.
LEMMA StreamsFollow == TypeOK /\ StreamsInv /\ SocketInv => SubscriptionsFollow
<1> SUFFICES ASSUME TypeOK, StreamsInv, Quiet, ~ leaked
             PROVE  list \subseteq conn[connection].subs
  BY DEF SocketInv, SubscriptionsFollow
<1>1. connection \in Conns /\ conn[connection].calls = <<>>
  BY DEF Quiet, At, TypeOK
<1>2. Accounted(list, conn[connection].subs, <<>>)
  BY <1>1 DEF Quiet, StreamsInv, Covered
<1> QED BY <1>2, EmptyCalls

\* Once its calls are over, the hub sends every symbol of the list, whatever
\* came before, and an open socket those of its set.
THEOREM Follow == Spec => []SubscriptionsFollow
<1>1. Init => TypeOK /\ StreamsInv /\ SocketInv
  BY InitType, InitStreams, InitSocket
<1>2. TypeOK /\ StreamsInv /\ SocketInv /\ [Next]_vars => (TypeOK /\ StreamsInv /\ SocketInv)'
  BY NextType, NextStreams, NextSocket
<1>3. TypeOK /\ StreamsInv /\ SocketInv => SubscriptionsFollow
  BY StreamsFollow
<1> QED BY <1>1, <1>2, <1>3, PTL DEF Spec

-----------------------------------------------------------------------------
(* The consumer never gives up.                                             *)

\* There is a connection, or a timer that makes one; and a consumer that calls
\* itself started has a connection the SDK looks after.
Remembered ==
  ~ stopping =>
    /\ timer \/ \E c \in Conns : conn[c].state # "free"
    /\ started => \E c \in Conns : conn[c].state \in {"up", "retrying"}

LEMMA InitRemembered == Init => Remembered
<1> SUFFICES ASSUME Init PROVE \E c \in Conns : conn[c].state = "up"
  BY DEF Remembered
<1>1. PICK c \in Conns :
        conn = [d \in Conns |-> IF d = c THEN [Free EXCEPT !.state = "up"] ELSE Free]
  BY DEF Init
<1> QED BY <1>1, FreeType

\* A step that leaves the states of the connections alone.
LEMMA SameStates ==
  ASSUME Remembered, stopping' = stopping, timer => timer', started' => started,
         \A c \in Conns : conn'[c].state = conn[c].state
  PROVE  Remembered'
BY DEF Remembered

LEMMA HubStepRemembered ==
  ASSUME TypeOK, CallsWhenUp, Remembered, NEW c \in Conns, HubStep(c)
  PROVE  Remembered'
<1>1. CASE Answer(c)
  <2>1. conn[c].calls # <<>> /\ UNCHANGED <<stopping, timer>>
    BY <1>1 DEF Answer
  <2>2. conn[c].state = "up"
    BY <2>1 DEF CallsWhenUp
  <2>3. \A d \in Conns : conn'[d].state = conn[d].state
    BY <1>1, AnswerEffect
  <2> QED BY <2>1, <2>2, <2>3 DEF Remembered
<1>2. CASE Drop(c)
  <2>1. conn'[c].state = "retrying"
    BY <1>2, ResetType DEF Drop
  <2> QED BY <2>1 DEF Remembered
<1>3. CASE Reconnected(c)
  <2>1. conn'[c].state = "up"
    BY <1>3, ReconnectedEffect
  <2> QED BY <2>1 DEF Remembered
<1>4. CASE GivesUp(c)
  BY <1>4 DEF GivesUp, Remembered
<1>5. CASE RebuildStarts(c)
  <2>1. conn'[c].state = "starting" /\ ~ started'
    BY <1>5, BecomesType DEF RebuildStarts
  <2> QED BY <2>1 DEF Remembered
<1>6. CASE Connects(c)
  <2>1. conn'[c].state = "up"
    BY <1>6, ConnectsEffect
  <2> QED BY <2>1 DEF Remembered
<1>7. CASE ConnectFails(c)
  <2>1. /\ timer' = ~ stopping /\ UNCHANGED <<stopping, started>>
        /\ conn[c].state = "starting"
    BY <1>7 DEF ConnectFails, At
  <2>2. \A d \in Conns \ {c} : conn'[d] = conn[d]
    BY <1>7, FreedType DEF ConnectFails
  <2> QED BY <2>1, <2>2 DEF Remembered
<1> QED BY <1>1, <1>2, <1>3, <1>4, <1>5, <1>6, <1>7 DEF HubStep

LEMMA NextRemembered ==
  TypeOK /\ CallsWhenUp /\ Remembered /\ [Next]_vars => Remembered'
<1> SUFFICES ASSUME TypeOK, CallsWhenUp, Remembered, [Next]_vars PROVE Remembered'
  OBVIOUS
<1>1. ASSUME NEW wanted \in SUBSET Symbols, Poll(wanted) PROVE Remembered'
  <2> DEFINE active == IF wanted = {} THEN Defaults ELSE wanted
             added == active \ managed
             removed == managed \ active
  <2>1. active \in SUBSET Symbols /\ managed \in SUBSET Symbols
    BY StreamsAssumption DEF TypeOK
  <2>2. HubUpdated(added, removed) /\ UNCHANGED stopping
    BY <1>1 DEF Poll
  <2>3. added \in SUBSET Symbols /\ removed \in SUBSET Symbols
    BY <2>1
  <2> HIDE DEF added, removed
  <2> QED BY <2>2, <2>3, HubUpdatedType, SameStates
<1>2. ASSUME NEW c \in Conns, HubStep(c) PROVE Remembered'
  BY <1>2, HubStepRemembered
<1>3. CASE RebuildFindsStarted
  BY <1>3 DEF RebuildFindsStarted, Remembered
<1>4. CASE Stop \/ StopEnds
  BY <1>4 DEF Stop, StopEnds, Remembered
<1>5. CASE Opens \/ Closes \/ Connect \/ UNCHANGED vars
  BY <1>5, SameStates DEF Opens, Closes, Connect, hubVars, vars
<1> QED BY <1>1, <1>2, <1>3, <1>4, <1>5 DEF Next

\* Until the worker stops there is a hub connection, or one to come: no failed
\* rebuild and no connection left behind makes the consumer forget its timer
\* (onclose, rebuild, scheduleReconnect).
THEOREM NeverForgotten == Spec => []Remembered
<1>1. Init => TypeOK /\ StreamsInv /\ Remembered
  BY InitType, InitStreams, InitRemembered
<1>2. TypeOK /\ StreamsInv /\ Remembered /\ [Next]_vars => (TypeOK /\ StreamsInv /\ Remembered)'
  BY NextType, NextStreams, NextRemembered DEF StreamsInv
<1> QED BY <1>1, <1>2, PTL DEF Spec

=============================================================================
