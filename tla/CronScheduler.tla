--------------------------- MODULE CronScheduler ---------------------------
(***************************************************************************)
(* One daily job of the worker: the in-flight guard of each scheduler      *)
(* process, the row of cron_runs that serves as the lock of a day, its     *)
(* reclaim after LOCK_TTL_MS, the cleanup of stale rows at startup and the *)
(* timer that prunes a guard held for too long.                            *)
(*                                                                         *)
(* Jobs and dates share no state, so there is one of each.  Two processes  *)
(* exist at a time while one replaces the other.  Time appears as the age  *)
(* of the row and of a guard.  The abort at JOB_TIMEOUT_MS is advice a job *)
(* may not take: a run may last for ever.                                  *)
(*                                                                         *)
(* The specification's names say Cron: WorkerProofs extends this module    *)
(* and MarketStreams.                                                      *)
(***************************************************************************)
CONSTANTS
  Processes,    \* schedulers
  Invocations,  \* calls of runJobSafely that may be alive at a time
  HomeOf        \* the process of each

ASSUME CronAssumption == HomeOf \in [Invocations -> Processes]

VARIABLES
  row,       \* the row of cron_runs for the job and the date
  guard,     \* guard[p]: p's entry in _runningJobs and its age
  cleaning,  \* processes whose startup cleanup has not reached the database
  inv,       \* inv[i]: the progress of an invocation
  given,     \* history: some invocation was given the lock
  pruned     \* history: processes whose timer pruned the guard of a live run,
             \* until no run of theirs is alive

cronVars == <<row, guard, cleaning, inv, given, pruned>>

\* aged: started 5 minutes ago or more;  expired: 2 hours ago or more.  Nothing
\* asks for the age of a row that is not started.
Row == [status : {"none", "started", "done", "error"},
        age : {"young", "aged", "expired"}]
NoRow == [status |-> "none", age |-> "young"]
Started == [status |-> "started", age |-> "young"]

\* stuck: held for more than twice JOB_TIMEOUT_MS
Guard == {"free", "held", "stuck"}

\* reclaim, insert: before that statement of acquireCronLock;  running: the job
\* is at work;  fail: done threw.
Phase == {"idle", "reclaim", "insert", "running", "fail"}
Inv == [phase : Phase, retried : BOOLEAN, locked : BOOLEAN]
Idle == [phase |-> "idle", retried |-> FALSE, locked |-> FALSE]

InPhase(i, phase) == inv[i].phase = phase
Goes(i, phase) == inv' = [inv EXCEPT ![i].phase = phase]
Alive(i) == ~ InPhase(i, "idle")
Working(i) == inv[i].phase \in {"running", "fail"}

\* Types; only a run at work has the lock.
CronTypeOK ==
  /\ row \in Row
  /\ guard \in [Processes -> Guard]
  /\ cleaning \subseteq Processes
  /\ inv \in [Invocations -> Inv]
  /\ \A i \in Invocations : inv[i].locked => Working(i) /\ given
  /\ given \in BOOLEAN
  /\ pruned \subseteq Processes

CronInit ==
  /\ row = NoRow
  /\ guard = [p \in Processes |-> "free"]
  /\ cleaning = {}
  /\ inv = [i \in Invocations |-> Idle]
  /\ given = FALSE
  /\ pruned = {}

-----------------------------------------------------------------------------
(* acquireCronLock.                                                        *)

Frees(p) == guard' = [guard EXCEPT ![p] = "free"]

Alone(i) == \A j \in Invocations \ {i} : HomeOf[j] = HomeOf[i] => ~ Alive(j)

\* The lock object outlives the call.
FaultyEnds(i) ==
  /\ inv' = [inv EXCEPT ![i].phase = "idle"]
  /\ UNCHANGED pruned

Ends(i) ==
  /\ inv' = [inv EXCEPT ![i] = Idle]
  /\ pruned' = IF Alone(i) THEN pruned \ {HomeOf[i]} ELSE pruned

Given(i) ==
  /\ inv' = [inv EXCEPT ![i].phase = "running", ![i].locked = TRUE]
  /\ given' = TRUE

\* The guard is set and never asked for.
FaultyFire(i) ==
  /\ InPhase(i, "idle")
  /\ guard' = [guard EXCEPT ![HomeOf[i]] = "held"]
  /\ inv' = [inv EXCEPT ![i] = [Idle EXCEPT !.phase = "reclaim"]]
  /\ UNCHANGED <<row, cleaning, given, pruned>>

\* runJobSafely: node-cron fires, and no run of this process is in flight.
Fire(i) ==
  /\ InPhase(i, "idle")
  /\ guard[HomeOf[i]] = "free"
  /\ guard' = [guard EXCEPT ![HomeOf[i]] = "held"]
  /\ inv' = [inv EXCEPT ![i] = [Idle EXCEPT !.phase = "reclaim"]]
  /\ UNCHANGED <<row, cleaning, given, pruned>>

\* A row is taken over as soon as a cleanup would call it stale.
FaultyReclaimable == row.status = "started" /\ row.age # "young"

Reclaimable == row.status = "started" /\ row.age = "expired"

Starts == row' = Started

Reclaim(i) ==
  /\ InPhase(i, "reclaim")
  /\ \/ /\ Reclaimable
        /\ Starts
        /\ Given(i)
     \/ /\ ~ Reclaimable
        /\ Goes(i, "insert")
        /\ UNCHANGED <<row, given>>
  /\ UNCHANGED <<guard, cleaning, pruned>>

Insert(i) ==
  /\ InPhase(i, "insert")
  /\ row.status = "none"
  /\ Starts
  /\ Given(i)
  /\ UNCHANGED <<guard, cleaning, pruned>>

Skip(i) ==
  /\ InPhase(i, "insert")
  /\ row.status # "none"
  /\ Ends(i)
  /\ Frees(HomeOf[i])
  /\ UNCHANGED <<row, cleaning, given>>

\* A statement throws, after its commit or without one.  The acquisition is
\* tried once more; after that the job runs without a lock.  Past midnight it is
\* tried for another date, which to this one is a run without a lock.
AcquireErrs(i) ==
  /\ \/ InPhase(i, "reclaim") /\ Reclaimable /\ Starts
     \/ InPhase(i, "insert") /\ row.status = "none" /\ Starts
     \/ (InPhase(i, "reclaim") \/ InPhase(i, "insert")) /\ UNCHANGED row
  /\ \/ ~ inv[i].retried /\ inv' = [inv EXCEPT ![i].phase = "reclaim", ![i].retried = TRUE]
     \/ inv' = [inv EXCEPT ![i].phase = "running"]
  /\ UNCHANGED <<guard, cleaning, given, pruned>>

-----------------------------------------------------------------------------
(* The run of the job and its marks: runJobSafely.                         *)

\* UPDATE ... WHERE job_name AND run_date, whatever the row's status is.
Marks(i, status) ==
  IF inv[i].locked /\ row.status # "none"
  THEN row' = [status |-> status, age |-> "young"]
  ELSE UNCHANGED row

\* The finally block deletes the guard, whichever run of the process holds it.
Finally(i) == Ends(i) /\ Frees(HomeOf[i])

\* The job returns, is marked, and finally is reached.  A mark whose answer is
\* late is DoneErrs, then JobFails without a write.
JobDone(i) ==
  /\ InPhase(i, "running")
  /\ Marks(i, "done")
  /\ Finally(i)
  /\ UNCHANGED <<cleaning, given>>

\* done throws inside the try block: fail follows.
DoneErrs(i) ==
  /\ InPhase(i, "running")
  /\ inv[i].locked
  /\ Marks(i, "done") \/ UNCHANGED row
  /\ Goes(i, "fail")
  /\ UNCHANGED <<guard, cleaning, given, pruned>>

\* The job or done has thrown.  fail may throw too: nothing catches it, and the
\* finally block runs.
JobFails(i) ==
  /\ Working(i)
  /\ Marks(i, "error") \/ UNCHANGED row
  /\ Finally(i)
  /\ UNCHANGED <<cleaning, given>>

-----------------------------------------------------------------------------
(* The process: restart, cleanup, pruning.                                 *)

\* The process dies with its runs and starts again.
Restart(p) ==
  /\ inv' = [i \in Invocations |-> IF HomeOf[i] = p THEN Idle ELSE inv[i]]
  /\ Frees(p)
  /\ cleaning' = cleaning \cup {p}
  /\ pruned' = pruned \ {p}
  /\ UNCHANGED <<row, given>>

Cleaned(r) ==
  IF r.status = "started" /\ r.age # "young" THEN [status |-> "error", age |-> "young"] ELSE r

\* cleanupStaleCronRuns is started first and awaited by nobody.
Cleanup(p) ==
  /\ p \in cleaning
  /\ row' = Cleaned(row)
  /\ cleaning' = cleaning \ {p}
  /\ UNCHANGED <<guard, inv, given, pruned>>

CleanupErrs(p) ==
  /\ p \in cleaning
  /\ cleaning' = cleaning \ {p}
  /\ UNCHANGED <<row, guard, inv, given, pruned>>

\* Only a guard without a live run is pruned.
DeadPrunable(p) ==
  guard[p] = "stuck" /\ \A i \in Invocations : HomeOf[i] = p => ~ Alive(i)

Prunable(p) == guard[p] = "stuck"

Prune(p) ==
  /\ Prunable(p)
  /\ Frees(p)
  /\ pruned' = IF \E i \in Invocations : HomeOf[i] = p /\ Alive(i)
               THEN pruned \cup {p} ELSE pruned
  /\ UNCHANGED <<row, cleaning, inv, given>>

GuardAges(p) ==
  /\ guard[p] = "held"
  /\ guard' = [guard EXCEPT ![p] = "stuck"]
  /\ UNCHANGED <<row, cleaning, inv, given, pruned>>

RowAges ==
  /\ row.status = "started"
  /\ row.age # "expired"
  /\ row' = [row EXCEPT !.age = IF @ = "young" THEN "aged" ELSE "expired"]
  /\ UNCHANGED <<guard, cleaning, inv, given, pruned>>

-----------------------------------------------------------------------------
AcquireStep(i) == Reclaim(i) \/ Insert(i) \/ Skip(i) \/ AcquireErrs(i)
RunStep(i) == JobDone(i) \/ DoneErrs(i) \/ JobFails(i)

CronNext ==
  \/ \E i \in Invocations : Fire(i) \/ AcquireStep(i) \/ RunStep(i)
  \/ \E p \in Processes : Restart(p) \/ Cleanup(p) \/ CleanupErrs(p) \/ Prune(p) \/ GuardAges(p)
  \/ RowAges

CronSpec == CronInit /\ [][CronNext]_cronVars

\* Statements return and timers fire.  Nothing is assumed of the job itself.
CronFairness ==
  /\ \A i \in Invocations : WF_cronVars(AcquireStep(i))
  /\ \A p \in Processes : WF_cronVars(GuardAges(p)) /\ WF_cronVars(Prune(p))

CronFairSpec == CronSpec /\ CronFairness

-----------------------------------------------------------------------------
IsGiven(i) == ~ inv[i].locked /\ inv'[i].locked

\* The lock of a day is given a second time only when the row of the first run
\* has said "started" for two hours: whatever statements throw, however the
\* schedulers overlap and whatever a late mark or a cleanup wrote.
OncePerDay ==
  [][\A i \in Invocations :
       IsGiven(i) /\ given
         => row.status = "started" /\ row.age = "expired"]_cronVars

\* Two runs of one process overlap only after its timer gave the first one up.
OverlapNeedsPrune ==
  \A i, j \in Invocations :
    i # j /\ Alive(i) /\ Alive(j) /\ HomeOf[i] = HomeOf[j] => HomeOf[i] \in pruned

\* A job that never returns does not keep its schedule blocked.
GuardReleased == \A p \in Processes : guard[p] = "held" ~> guard[p] = "free"

-----------------------------------------------------------------------------
(* What the documentation says and the code does not keep (README,         *)
(* Disagreements): these are not invariants.                               *)

\* "a duplicate is acceptable for idempotent jobs, but a missed run is worse":
\* a run is skipped only for one that was given the day.
SkipMeansGiven ==
  [][\A i \in Invocations : Skip(i) => given]_cronVars

\* "the idempotency lock releases for the next scheduled run"
CleanupReleases ==
  [][\A p \in Processes : Cleanup(p) /\ row' # row => row'.status = "none"]_cronVars
=============================================================================
