--------------------------- MODULE AnalysisQueue ---------------------------
(***************************************************************************)
(* The full-analysis queue: the web enqueues a run by writing a pending    *)
(* workflow record, a poll of the worker claims records, runs the analysis *)
(* under the record's id, stores the reply, writes the result into the     *)
(* record, and at its end sweeps running records nobody has touched for    *)
(* five minutes.                                                           *)
(*                                                                         *)
(* The store has no conditional update.  persistWorkflowSnapshot replaces  *)
(* a record by a copy read earlier, updateWorkflowState sets a status in   *)
(* whatever record it finds.  Each call of the store is one step.  A       *)
(* worker never overlaps its own polls; two overlap while two workers are  *)
(* deployed or replace each other, or beside a poll of the web's embedded  *)
(* scheduler or one started by hand.  The advisory lock of the claim is    *)
(* only tried: a poll that does not get it claims all the same, so it      *)
(* restrains no step and is not a variable.                                *)
(***************************************************************************)
EXTENDS Naturals, FiniteSets

CONSTANTS
  Runs,         \* run ids, one per user and idempotency key
  MaxLate,      \* bound: submissions of one run under way at a time
  Workers,      \* polls of the worker's job
  MaxAttempts,  \* MAX_ANALYSIS_ATTEMPTS
  None          \* no run, no lease

ASSUME QueueAssumption ==
  /\ MaxLate \in Nat \ {0}
  /\ MaxAttempts \in Nat \ {0}
  /\ IsFiniteSet(Workers)
  /\ None \notin Workers
  /\ None \notin Runs
  /\ None # "reply"

VARIABLES
  rec,      \* rec[r]: the workflow record of r
  reply,    \* runs whose assistant message is stored
  late,     \* late[r]: submissions that found no record and write one next
  poll,     \* poll[w]: the progress of a poll
  copy,     \* copy[w][r]: r's record as w listed it, if still to handle
  beats,    \* runs with a heartbeat on its way to the store
  claims    \* history: claims[r]: claims written since its record exists

vars == <<rec, reply, late, poll, copy, beats, claims>>

\* The bound of the history variable: no property looks beyond it.
Seen(n) == IF n > MaxAttempts THEN MaxAttempts ELSE n

Status == {"absent", "pending", "running", "success", "failed"}
Terminal == {"success", "failed"}

\* input:  the payload of the late, the empty one that recovery puts in the
\*         place of one it cannot read, or what it cannot read;
\* result: the shaped result of the worker;  fresh: updated_at is less than
\* five minutes ago.
Record == [status : Status, input : {"own", "empty", "unreadable"}, attempt : Nat,
           lease : Workers \cup {None}, result : BOOLEAN, fresh : BOOLEAN]
NoRecord == [status |-> "absent", input |-> "own", attempt |-> 0,
             lease |-> None, result |-> FALSE, fresh |-> FALSE]

\* listed: between two candidates;  stamped: the claim is verified next;
\* working: claimed, the engine is at work;  replied: the result is written
\* next;  erred: requeue or fail is next;  sweeping: stale runs are handled;
\* dead: the poll ended in an error or with its process.
Phase == {"idle", "listed", "stamped", "working", "replied", "erred", "sweeping", "dead"}
Poll == [phase : Phase, run : Runs \cup {None}, attempt : Nat, empty : BOOLEAN]
Idle == [phase |-> "idle", run |-> None, attempt |-> 0, empty |-> FALSE]
Nothing == [r \in Runs |-> NoRecord]

At(w, phase) == poll[w].phase = phase
Goes(w, phase) == poll' = [poll EXCEPT ![w].phase = phase]
HasJob(w) == poll[w].phase \in {"working", "replied", "erred"}
Todo(w) == {r \in Runs : copy[w][r].status # "absent"}
Handled(w, r) == copy' = [copy EXCEPT ![w][r] = NoRecord]

\* Types; a poll has a run from its stamp on, and a list only while it handles it.
TypeOK ==
  /\ rec \in [Runs -> Record]
  /\ reply \subseteq Runs
  /\ late \in [Runs -> 0 .. MaxLate]
  /\ poll \in [Workers -> Poll]
  /\ \A w \in Workers : poll[w].run # None <=> At(w, "stamped") \/ HasJob(w)
  /\ copy \in [Workers -> [Runs -> Record]]
  /\ \A w \in Workers : At(w, "listed") \/ At(w, "sweeping") => Todo(w) # {}
  /\ beats \subseteq Runs
  /\ claims \in [Runs -> 0 .. MaxAttempts]

Init ==
  /\ rec = Nothing
  /\ reply = {} /\ beats = {}
  /\ late = [r \in Runs |-> 0]
  /\ poll = [w \in Workers |-> Idle]
  /\ copy = [w \in Workers |-> Nothing]
  /\ claims = [r \in Runs |-> 0]

-----------------------------------------------------------------------------
(* The store.                                                              *)

\* persistWorkflowSnapshot
Persist(r, record) == rec' = [rec EXCEPT ![r] = record]

\* updateWorkflowState: nothing to update in a deleted record.
SetStatus(r, status, result) ==
  IF rec[r].status = "absent"
  THEN UNCHANGED rec
  ELSE Persist(r, [rec[r] EXCEPT !.status = status, !.result = @ \/ result,
                                 !.fresh = TRUE])

-----------------------------------------------------------------------------
(* The web request: enqueueFullAnalysis.                                   *)

Pending == [NoRecord EXCEPT !.status = "pending", !.fresh = TRUE]

\* A submission that finds a record returns its id and changes nothing.
SubmissionReads(r) ==
  /\ rec[r].status = "absent"
  /\ late[r] < MaxLate
  /\ late' = [late EXCEPT ![r] = @ + 1]
  /\ UNCHANGED <<rec, reply, poll, copy, beats, claims>>

\* The write replaces whatever record there is by now.
SubmissionWrites(r) ==
  /\ late[r] > 0
  /\ late' = [late EXCEPT ![r] = @ - 1]
  /\ Persist(r, Pending)
  /\ UNCHANGED <<reply, poll, copy, beats, claims>>

\* The write errs without a commit, or the process dies before it.
SubmissionLost(r) ==
  /\ late[r] > 0
  /\ late' = [late EXCEPT ![r] = @ - 1]
  /\ UNCHANGED <<rec, reply, poll, copy, beats, claims>>

-----------------------------------------------------------------------------
(* The claim: claimNextFullAnalysisRun.                                    *)

\* payloadFromSnapshot finds nothing in an unreadable record: it is skipped.
Candidate(r) == rec[r].status = "pending" /\ rec[r].input # "unreadable"

ClaimLists(w) ==
  /\ At(w, "idle")
  /\ \E r \in Runs : Candidate(r)
  /\ copy' = [copy EXCEPT ![w] =
                [r \in Runs |-> IF Candidate(r) THEN rec[r] ELSE NoRecord]]
  /\ Goes(w, "listed")
  /\ UNCHANGED <<rec, reply, late, beats, claims>>

Stamped(record, w) ==
  [record EXCEPT !.status = "running", !.attempt = @ + 1, !.lease = w,
                 !.fresh = TRUE]

StampWrite(w, r) ==
  /\ At(w, "listed")
  /\ r \in Todo(w)
  /\ Persist(r, Stamped(copy[w][r], w))
  /\ claims' = [claims EXCEPT ![r] = Seen(@ + 1)]

\* The oldest candidate first; which one that is is abstracted.
Stamp(w, r) ==
  /\ StampWrite(w, r)
  /\ poll' = [poll EXCEPT ![w] = [phase |-> "stamped", run |-> r,
                                  attempt |-> copy[w][r].attempt + 1,
                                  empty |-> copy[w][r].input = "empty"]]
  /\ Handled(w, r)
  /\ UNCHANGED <<reply, late, beats>>

Quits(w) ==
  /\ poll' = [poll EXCEPT ![w] = Idle]
  /\ copy' = [copy EXCEPT ![w] = Nothing]

Dies(w) ==
  /\ poll' = [poll EXCEPT ![w] = [Idle EXCEPT !.phase = "dead"]]
  /\ copy' = [copy EXCEPT ![w] = Nothing]

\* The write commits, its call throws, the poll ends.
StampErrs(w, r) ==
  /\ StampWrite(w, r)
  /\ Dies(w)
  /\ UNCHANGED <<reply, late, beats>>

Verified(w) ==
  LET r == poll[w].run IN
  rec[r].input # "unreadable" /\ rec[r].lease = w /\ rec[r].attempt = poll[w].attempt

\* The scan does not end with its last candidate.
FaultyVerify(w) ==
  /\ At(w, "stamped")
  /\ Goes(w, IF Verified(w) THEN "working" ELSE "listed")
  /\ UNCHANGED <<rec, reply, late, copy, beats, claims>>

\* Not verified: on to the next candidate; after the last one the claim
\* returns null.
Verify(w) ==
  /\ At(w, "stamped")
  /\ \/ /\ Verified(w)
        /\ Goes(w, "working")
        /\ copy' = [copy EXCEPT ![w] = Nothing]
     \/ /\ ~ Verified(w)
        /\ Todo(w) # {}
        /\ poll' = [poll EXCEPT ![w] = [Idle EXCEPT !.phase = "listed"]]
        /\ UNCHANGED copy
     \/ /\ ~ Verified(w)
        /\ Todo(w) = {}
        /\ Quits(w)
  /\ UNCHANGED <<rec, reply, late, beats, claims>>

-----------------------------------------------------------------------------
(* The work on a claimed run: processRun of runMultiAgentAnalysis.         *)

\* A run whose payload is the empty one has no user: it fails for good before
\* its engine starts.
Genuine(w) == ~ poll[w].empty

\* touchFullAnalysisRun, sent every 30 s and awaited by nobody.
SendBeat(w) ==
  /\ HasJob(w)
  /\ beats' = beats \cup {poll[w].run}
  /\ UNCHANGED <<rec, reply, late, poll, copy, claims>>

BeatLands(r) ==
  /\ r \in beats
  /\ beats' = beats \ {r}
  /\ SetStatus(r, "running", FALSE)
  /\ UNCHANGED <<reply, late, poll, copy, claims>>

BeatLost(r) ==
  /\ r \in beats
  /\ beats' = beats \ {r}
  /\ UNCHANGED <<rec, reply, late, poll, copy, claims>>

\* External: the workflow engine continues the record under its id.  Whether
\* its own snapshots keep the payload is not known from this code.
EngineWrites(w) ==
  /\ At(w, "working")
  /\ Genuine(w)
  /\ rec[poll[w].run].status # "absent"
  /\ \E status \in {"running", "success", "failed"}, input \in {rec[poll[w].run].input, "unreadable"} :
       Persist(poll[w].run, [rec[poll[w].run] EXCEPT
         !.status = status, !.input = input, !.result = FALSE, !.fresh = TRUE])
  /\ UNCHANGED <<reply, late, poll, copy, beats, claims>>

\* appendAssistantMessage, idempotent by the run's key.  A deleted thread is one
\* of the errors of WorkErrs.
AppendReply(w) ==
  /\ At(w, "working")
  /\ Genuine(w)
  /\ reply' = reply \cup {poll[w].run}
  /\ Goes(w, "replied")
  /\ UNCHANGED <<rec, late, copy, beats, claims>>

\* It errs after or before its commit.  That the outbox then stores the reply
\* later, if nothing else does, is left to PersistenceOutbox.
AppendErrs(w) ==
  /\ At(w, "working")
  /\ Genuine(w)
  /\ reply' \in {reply, reply \cup {poll[w].run}}
  /\ Goes(w, "erred")
  /\ UNCHANGED <<rec, late, copy, beats, claims>>

\* Any other error: settings, budget, user message, model, abort.
WorkErrs(w) ==
  /\ At(w, "working")
  /\ Goes(w, "erred")
  /\ UNCHANGED <<rec, reply, late, copy, beats, claims>>

\* The result is written before the reply.
HastyComplete(w) ==
  /\ At(w, "replied") \/ At(w, "working")
  /\ SetStatus(poll[w].run, "success", TRUE)
  /\ Quits(w)
  /\ UNCHANGED <<reply, late, beats, claims>>

\* completeFullAnalysisRun; the reconciliation after it does not throw.
Complete(w) ==
  /\ At(w, "replied")
  /\ SetStatus(poll[w].run, "success", TRUE)
  /\ Quits(w)
  /\ UNCHANGED <<reply, late, beats, claims>>

CompleteErrs(w) ==
  /\ At(w, "replied")
  /\ SetStatus(poll[w].run, "success", TRUE) \/ UNCHANGED rec
  /\ Goes(w, "erred")
  /\ UNCHANGED <<reply, late, copy, beats, claims>>

\* A retryable error: the attempts are those of the claim, not of the record.
Requeue(w) ==
  /\ At(w, "erred")
  /\ Genuine(w) /\ poll[w].attempt < MaxAttempts
  /\ SetStatus(poll[w].run, "pending", FALSE)
  /\ Quits(w)
  /\ UNCHANGED <<reply, late, beats, claims>>

Fail(w) ==
  /\ At(w, "erred")
  /\ SetStatus(poll[w].run, "failed", FALSE)
  /\ Quits(w)
  /\ UNCHANGED <<reply, late, beats, claims>>

-----------------------------------------------------------------------------
(* The sweep at the end of a poll: recoverStaleFullAnalysisRuns.           *)

Stale(r) == rec[r].status = "running" /\ ~ rec[r].fresh

SweepLists(w) ==
  /\ At(w, "idle")
  /\ \E r \in Runs : Stale(r)
  /\ copy' = [copy EXCEPT ![w] =
                [r \in Runs |-> IF Stale(r) THEN rec[r] ELSE NoRecord]]
  /\ Goes(w, "sweeping")
  /\ UNCHANGED <<rec, reply, late, beats, claims>>

\* payload?.attemptCount ?? 1
AttemptsOf(record) == IF record.input = "unreadable" THEN 1 ELSE record.attempt

\* The copy with its lease cleared; an unreadable payload becomes the empty
\* one, without attempts.
Recovered(record) ==
  [record EXCEPT !.status = "pending", !.lease = None, !.fresh = TRUE,
                 !.input = IF @ = "unreadable" THEN "empty" ELSE @,
                 !.attempt = IF record.input = "unreadable" THEN 0 ELSE @]

\* A stale run is given up at once.
EagerSweepWrite(record, r) ==
  SetStatus(r, "failed", FALSE)

\* The copy is handed back as it is, without the new status.
DeadSweepWrite(record, r) ==
  IF AttemptsOf(record) < MaxAttempts
  THEN Persist(r, [record EXCEPT !.lease = None, !.fresh = TRUE])
  ELSE SetStatus(r, "failed", FALSE)

SweepWrite(record, r) ==
  IF AttemptsOf(record) < MaxAttempts
  THEN Persist(r, Recovered(record))
  ELSE SetStatus(r, "failed", FALSE)

SweepOne(w, r) ==
  /\ At(w, "sweeping")
  /\ r \in Todo(w)
  /\ SweepWrite(copy[w][r], r)
  /\ Handled(w, r)
  /\ IF Todo(w) = {r} THEN poll' = [poll EXCEPT ![w] = Idle] ELSE UNCHANGED poll
  /\ UNCHANGED <<reply, late, beats, claims>>

\* purgeOldFullAnalysisRuns: a terminal record of seven days ago, when no poll
\* of that time is left.
Purge(r) ==
  /\ rec[r].status \in Terminal
  /\ \A w \in Workers : poll[w].run # r /\ r \notin Todo(w)
  /\ r \notin beats
  /\ Persist(r, NoRecord)
  /\ claims' = [claims EXCEPT ![r] = 0]
  /\ UNCHANGED <<reply, late, poll, copy, beats>>

\* The process dies, or a call of the store throws where nothing catches it.
PollDies(w) ==
  /\ ~ At(w, "idle") /\ ~ At(w, "dead")
  /\ Dies(w)
  /\ UNCHANGED <<rec, reply, late, beats, claims>>

NextPoll(w) ==
  /\ At(w, "dead")
  /\ Goes(w, "idle")
  /\ UNCHANGED <<rec, reply, late, copy, beats, claims>>

-----------------------------------------------------------------------------
(* The surroundings.                                                       *)

\* Five minutes without a write.  No poll spends them between two calls of one
\* claim or of one sweep; it may spend them at work.
GoesStale(r) ==
  /\ rec[r].status = "running"
  /\ \A w \in Workers : poll[w].phase \in {"idle", "dead"} \/ HasJob(w)
  /\ rec[r].fresh
  /\ rec' = [rec EXCEPT ![r].fresh = FALSE]
  /\ UNCHANGED <<reply, late, poll, copy, beats, claims>>

-----------------------------------------------------------------------------
SubmissionStep(r) == SubmissionReads(r) \/ SubmissionWrites(r) \/ SubmissionLost(r)

JobStep(w) ==
  \/ Verify(w) \/ AppendReply(w) \/ AppendErrs(w) \/ WorkErrs(w)
  \/ Complete(w) \/ CompleteErrs(w) \/ Requeue(w) \/ Fail(w)

Next ==
  \/ \E r \in Runs : SubmissionStep(r)
  \/ \E w \in Workers :
       \/ ClaimLists(w) \/ SweepLists(w) \/ JobStep(w) \/ PollDies(w) \/ NextPoll(w)
       \/ SendBeat(w) \/ EngineWrites(w)
       \/ \E r \in Runs : Stamp(w, r) \/ StampErrs(w, r) \/ SweepOne(w, r)
  \/ \E r \in Runs : \/ BeatLands(r) \/ BeatLost(r) \/ GoesStale(r) \/ Purge(r)

Spec == Init /\ [][Next]_vars

\* The job is polled every three seconds, each poll ends with a sweep, its
\* candidates are taken oldest first, and a claimed run ends within the timeout
\* of its models.  Polls die and overlap any number of times, but not for ever:
\* a late write in every round can keep a run from being decided.
Fairness ==
  /\ \A w \in Workers : WF_vars(NextPoll(w))
  /\ <>[](/\ \A w \in Workers : ~ At(w, "dead")
          /\ \E w \in Workers : \A v \in Workers \ {w} : At(v, "idle"))
  /\ \A w \in Workers : WF_vars(JobStep(w))
  /\ SF_vars(\E w \in Workers : ClaimLists(w))
  /\ SF_vars(\E w \in Workers : SweepLists(w))
  /\ \A r \in Runs : /\ SF_vars(\E w \in Workers : Stamp(w, r))
                     /\ SF_vars(\E w \in Workers : SweepOne(w, r))
                     /\ SF_vars(GoesStale(r))

FairSpec == Spec /\ Fairness

-----------------------------------------------------------------------------
RecoveryGivesUp(r) ==
  \E w \in Workers : SweepOne(w, r) /\ rec'[r].status = "failed"

\* Recovery gives a run up only after all its attempts were really claimed: no
\* late copy, resurrected run or double claim counts one twice.
EveryAttemptTried ==
  [][\A r \in Runs : RecoveryGivesUp(r) => claims[r] = MaxAttempts]_vars

\* A run in the queue is decided in the end, however many polls die under it
\* and whatever late writes put it back; unless the engine dropped its payload.
RunDecided ==
  \A r \in Runs :
    rec[r].status \in {"pending", "running"}
      ~> rec[r].status \notin {"pending", "running"} \/ rec[r].input = "unreadable"

IsAnswer(record) == record.status = "success" /\ record.result

\* The promise of the queue, with the reply as the write it is kept for.  A
\* finished run may be reopened, by a late heartbeat, requeue or recovery; one
\* the engine finished and whose poll then died is dropped.
EntryOf(record) ==
  IF record.status = "absent" THEN "idle"
  ELSE IF IsAnswer(record) THEN "done"
  ELSE IF record.status \in Terminal THEN "dropped"
  ELSE "owed"

Promise == INSTANCE OwedWrite WITH
  Keys <- Runs,
  Contents <- {"reply"},
  None <- None,
  Reopenable <- {"done", "dropped"},
  gone <- {},
  stored <- [r \in Runs |-> IF r \in reply THEN "reply" ELSE None],
  entry <- [r \in Runs |-> EntryOf(rec[r])]

ImplementsOwedWrite == Promise!Spec

-----------------------------------------------------------------------------
(* What the documentation says and the code does not keep (README,         *)
(* Disagreements): these are not invariants.                               *)

Working(w, r) == At(w, "working") /\ poll[w].run = r

\* "a Postgres advisory lock serializes the claim scan so two workers cannot
\* both claim the same pending run"
ClaimedOnce ==
  \A r \in Runs, v, w \in Workers :
    Working(v, r) /\ Working(w, r) /\ poll[v].attempt = poll[w].attempt => v = w
=============================================================================
