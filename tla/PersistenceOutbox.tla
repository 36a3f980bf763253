------------------------- MODULE PersistenceOutbox -------------------------
(***************************************************************************)
(* Durable recovery of failed writes: a chat turn inserts a message under  *)
(* an idempotency key, a failed insert is queued in persistence_outbox,    *)
(* and the worker's recovery job claims queued rows, replays the insert    *)
(* and marks the row.                                                      *)
(*                                                                         *)
(* A write is a model value; its key is its idempotency key, which is also *)
(* the dedupe key of its outbox row.  Each database statement or           *)
(* transaction is one step; a step that fails may or may not have          *)
(* committed.  Time appears as two facts of a row: whether next_attempt_at *)
(* has come (due) and whether locked_until is still ahead (locked).        *)
(***************************************************************************)
EXTENDS Naturals

CONSTANTS
  Keys,         \* idempotency keys
  Writes,       \* attempts of a turn to store one content under a key
  Markers,      \* the writes whose content is "Stream interrupted"
  KeyOf,        \* the key of each write
  Workers,      \* runs of the recovery job
  MaxAttempts,  \* max_attempts
  None          \* no content

ASSUME WritesAssumption ==
  /\ KeyOf \in [Writes -> Keys]
  /\ Markers \subseteq Writes
  /\ None \notin Writes
  /\ MaxAttempts \in Nat \ {0}

VARIABLES
  message,  \* message[k]: the content stored under k
  gone,     \* keys whose thread was deleted
  row,      \* row[k]: the row of persistence_outbox
  writer,   \* writer[x]: where the turn that makes write x is
  job       \* job[w]: the row a recovery run has claimed, and its progress

vars == <<message, gone, row, writer, job>>

Content == Writes \cup {None}
Attempts == 0 .. MaxAttempts
Status == {"none", "pending", "processing", "failed", "completed", "dead"}

\* token 0 is a null lock_token.  A claim writes a new random token together
\* with a new attempt_count, so the attempt identifies the token.
Row == [status : Status, payload : Content, attempt : Attempts,
        token : Attempts, locked : BOOLEAN, due : BOOLEAN]
NoRow == [status |-> "none", payload |-> None, attempt |-> 0,
          token |-> 0, locked |-> FALSE, due |-> FALSE]

\* claimed: replayOne is about to write;  erred: its writer caught an error
\* and is about to queue it;  wrote: markCompleted is next;  threw: markFailed
\* is next.
JobPhase == {"idle", "claimed", "erred", "wrote", "threw"}
Job == [key : Keys, payload : Content, attempt : Attempts, phase : JobPhase]

\* erred: the insert threw and the catch block has not queued it yet
WriterState == {"new", "erred", "stored", "queued", "lost"}

TypeOK ==
  /\ message \in [Keys -> Content]
  /\ gone \subseteq Keys
  /\ row \in [Keys -> Row]
  /\ writer \in [Writes -> WriterState]
  /\ job \in [Workers -> Job]

Init ==
  /\ message = [k \in Keys |-> None]
  /\ gone = {}
  /\ row = [k \in Keys |-> NoRow]
  /\ writer = [x \in Writes |-> "new"]
  /\ job \in [Workers -> {j \in Job : j.phase = "idle" /\ j.payload = None
                                      /\ j.attempt = 0}]

-----------------------------------------------------------------------------
(* The writer: appendUserMessage, appendAssistantMessage.  The other writes *)
(* of the outbox are the same for what is checked here.  An opinion finds   *)
(* its thread by a foreign key instead; the rows of telemetry and traces    *)
(* outlive the thread, so their keys are keys whose thread is never         *)
(* deleted; the DO UPDATE of a trace writes what is there, as a trace has   *)
(* one content.                                                             *)

\* INSERT ... ON CONFLICT (idempotency_key) DO NOTHING, after the thread was
\* found in the same transaction.
Insert(k, x) ==
  /\ k \notin gone
  /\ message' = [message EXCEPT ![k] = IF @ = None THEN x ELSE @]

InsertErrs(k, x) == Insert(k, x) \/ UNCHANGED message

NewRow(x) == [status |-> "pending", payload |-> x, attempt |-> 0,
              token |-> 0, locked |-> FALSE, due |-> TRUE]

\* Upsert that does not keep a completed row.
FaultyQueued(r, x) ==
  IF r.status = "none"
  THEN NewRow(x)
  ELSE [status |-> "pending", payload |-> r.payload, attempt |-> r.attempt,
        token |-> r.token, locked |-> r.locked, due |-> TRUE]

\* enqueuePersistenceFailure: ON CONFLICT (dedupe_key) the status goes back to
\* pending unless completed; payload, attempts and lock stay as they are.
Queued(r, x) ==
  IF r.status = "none"
  THEN NewRow(x)
  ELSE [status |-> IF r.status = "completed" THEN "completed" ELSE "pending",
        payload |-> r.payload, attempt |-> r.attempt,
        token |-> r.token, locked |-> r.locked, due |-> TRUE]

WriteOK(x) ==
  /\ writer[x] = "new"
  /\ Insert(KeyOf[x], x)
  /\ writer' = [writer EXCEPT ![x] = "stored"]
  /\ UNCHANGED <<gone, row, job>>

WriteErrs(x) ==
  /\ writer[x] = "new"
  /\ InsertErrs(KeyOf[x], x)
  /\ writer' = [writer EXCEPT ![x] = "erred"]
  /\ UNCHANGED <<gone, row, job>>

Enqueue(x) ==
  /\ writer[x] = "erred"
  /\ row' = [row EXCEPT ![KeyOf[x]] = Queued(row[KeyOf[x]], x)]
  /\ writer' = [writer EXCEPT ![x] = "queued"]
  /\ UNCHANGED <<message, gone, job>>

\* Both sinks are down, or the process dies before it queued the write.
WriterLost(x) ==
  /\ writer[x] = "erred"
  /\ writer' = [writer EXCEPT ![x] = "lost"]
  /\ UNCHANGED <<message, gone, row, job>>

DeleteThread(k) ==
  /\ k \notin gone
  /\ gone' = gone \cup {k}
  /\ message' = [message EXCEPT ![k] = None]
  /\ UNCHANGED <<row, writer, job>>

-----------------------------------------------------------------------------
(* The recovery job: replayPersistenceFailures.                            *)

\* The lock is not part of the condition of a pending row.
FaultyClaimable(r) ==
  /\ r.status \in {"pending", "failed"} \/ (r.status = "processing" /\ ~ r.locked)
  /\ r.due
  /\ r.attempt < MaxAttempts

\* The attempts of a row are not counted against max_attempts.
GreedyClaimable(r) ==
  /\ r.status \in {"pending", "failed"} \/ (r.status = "processing" /\ ~ r.locked)
  /\ r.due
  /\ ~ r.locked

\* A row in processing is never taken over.
DeadClaimable(r) ==
  /\ r.status \in {"pending", "failed"}
  /\ r.due
  /\ r.attempt < MaxAttempts
  /\ ~ r.locked

\* The WHERE clause of claimOne.  Which due row it takes is abstracted.
Claimable(r) ==
  /\ r.status \in {"pending", "failed"} \/ (r.status = "processing" /\ ~ r.locked)
  /\ r.due
  /\ r.attempt < MaxAttempts
  /\ ~ r.locked

At(w, phase) == job[w].phase = phase
Goes(w, phase) == job' = [job EXCEPT ![w].phase = phase]

Taken(r) == [status |-> "processing", payload |-> r.payload, attempt |-> r.attempt + 1,
             token |-> r.attempt + 1, locked |-> TRUE, due |-> r.due]

Claim(w, k) ==
  /\ At(w, "idle")
  /\ Claimable(row[k])
  /\ row' = [row EXCEPT ![k] = Taken(row[k])]
  /\ job' = [job EXCEPT ![w] = [key |-> k, payload |-> row[k].payload,
                                attempt |-> row[k].attempt + 1, phase |-> "claimed"]]
  /\ UNCHANGED <<message, gone, writer>>

ReplayWrites(w) ==
  /\ At(w, "claimed")
  /\ Insert(job[w].key, job[w].payload)
  /\ Goes(w, "wrote")
  /\ UNCHANGED <<gone, row, writer>>

ReplayErrs(w) ==
  /\ At(w, "claimed")
  /\ InsertErrs(job[w].key, job[w].payload)
  /\ Goes(w, "erred")
  /\ UNCHANGED <<gone, row, writer>>

\* The replay calls the same writer as the turn did, so its catch block queues
\* the failure again before it throws.
ReplayEnqueues(w) ==
  /\ At(w, "erred")
  /\ row' = [row EXCEPT ![job[w].key] = Queued(row[job[w].key], job[w].payload)]
  /\ Goes(w, "threw")
  /\ UNCHANGED <<message, gone, writer>>

ReplayEnqueueErrs(w) ==
  /\ At(w, "erred")
  /\ Goes(w, "threw")
  /\ UNCHANGED <<message, gone, row, writer>>

\* WHERE status = 'processing' AND lock_token = ...
Holds(w) ==
  LET r == row[job[w].key] IN r.status = "processing" /\ r.token = job[w].attempt

Marked(r, status, due) ==
  [status |-> status, payload |-> r.payload, attempt |-> r.attempt,
   token |-> 0, locked |-> FALSE, due |-> due]

MarkRow(k, status, due) == row' = [row EXCEPT ![k] = Marked(row[k], status, due)]

CompleteRow(w) ==
  IF Holds(w) THEN MarkRow(job[w].key, "completed", row[job[w].key].due)
              ELSE UNCHANGED row

FailedStatus(w) == IF job[w].attempt >= MaxAttempts THEN "dead" ELSE "failed"

FailRow(w) ==
  IF Holds(w) THEN MarkRow(job[w].key, FailedStatus(w), FALSE)
              ELSE UNCHANGED row

MarkCompleted(w) ==
  /\ At(w, "wrote")
  /\ CompleteRow(w)
  /\ Goes(w, "idle")
  /\ UNCHANGED <<message, gone, writer>>

\* markCompleted throws inside the try block: markFailed follows.
MarkCompletedErrs(w) ==
  /\ At(w, "wrote")
  /\ CompleteRow(w) \/ UNCHANGED row
  /\ Goes(w, "threw")
  /\ UNCHANGED <<message, gone, writer>>

MarkFailed(w) ==
  /\ At(w, "threw")
  /\ FailRow(w)
  /\ Goes(w, "idle")
  /\ UNCHANGED <<message, gone, writer>>

\* The run ends at any point: a crash, or an error of markFailed, which no
\* catch block covers.
RunEnds(w) ==
  /\ ~ At(w, "idle")
  /\ \/ UNCHANGED row
     \/ At(w, "threw") /\ FailRow(w)
  /\ Goes(w, "idle")
  /\ UNCHANGED <<message, gone, writer>>

-----------------------------------------------------------------------------
(* Time.                                                                   *)

\* LOCK_TTL_MS after the claim, whether or not the run is still at work.
LockExpires(k) ==
  /\ row[k].locked
  /\ row' = [row EXCEPT ![k].locked = FALSE]
  /\ UNCHANGED <<message, gone, writer, job>>

BackoffElapses(k) ==
  /\ row[k].status # "none"
  /\ ~ row[k].due
  /\ row' = [row EXCEPT ![k].due = TRUE]
  /\ UNCHANGED <<message, gone, writer, job>>

\* Retention deletes a terminal row after 30 days: by then no run that
\* claimed it is left (a run takes minutes).
Purge(k) ==
  /\ row[k].status \in {"completed", "dead"}
  /\ \A w \in Workers : job[w].key = k => At(w, "idle")
  /\ row' = [row EXCEPT ![k] = NoRow]
  /\ UNCHANGED <<message, gone, writer, job>>

-----------------------------------------------------------------------------
WriterStep(x) == WriteOK(x) \/ WriteErrs(x) \/ Enqueue(x) \/ WriterLost(x)

ReplayStep(w) ==
  \/ ReplayWrites(w) \/ ReplayErrs(w)
  \/ ReplayEnqueues(w) \/ ReplayEnqueueErrs(w)
  \/ MarkCompleted(w) \/ MarkCompletedErrs(w) \/ MarkFailed(w)

Next ==
  \/ \E x \in Writes : WriterStep(x)
  \/ \E w \in Workers : ReplayStep(w) \/ RunEnds(w) \/ \E k \in Keys : Claim(w, k)
  \/ \E k \in Keys : DeleteThread(k) \/ LockExpires(k) \/ BackoffElapses(k) \/ Purge(k)

Spec == Init /\ [][Next]_vars

\* The job runs every minute, and a run that does not crash goes on; time
\* passes.  Nothing is assumed of writers, and any number of runs may crash.
\* A due row is taken in the end because rows are taken in the order they fell
\* due and a run takes up to 25.
Fairness ==
  /\ \A w \in Workers : WF_vars(ReplayStep(w))
  /\ \A k \in Keys : /\ SF_vars(\E w \in Workers : Claim(w, k))
                     /\ WF_vars(LockExpires(k))
                     /\ WF_vars(BackoffElapses(k))

FairSpec == Spec /\ Fairness

-----------------------------------------------------------------------------
\* A completed row means that its key is stored, whatever errors, takeovers
\* and late marks there were (replayOne, markCompleted): no write is ticked
\* off that a reader of the thread will not find.
CompletedIsStored ==
  \A k \in Keys \ gone : row[k].status = "completed" => message[k] # None

LiveLockKept ==
  \A k \in Keys : row[k].locked /\ row[k].token # 0 => row'[k].token \in {row[k].token, 0}

\* While a claim's lock is live no other run takes the row over, although the
\* holder's own replay may have put it back to pending (claimOne).
OneHolder == [][LiveLockKept]_vars

CompletedKept ==
  \A k \in Keys : row[k].status = "completed" => row'[k].status \in {"completed", "none"}

\* A completed row leaves the queue for good: neither a late mark of a run that
\* lost its lock nor a late failure of the same write reopens it.
CompletedIsFinal == [][CompletedKept]_vars

\* Below max_attempts a queued row is always tried again or completed: no crash,
\* late mark or repeated failure wedges it.
RowProgresses ==
  \A k \in Keys, n \in 0 .. MaxAttempts - 1 :
    row[k].status # "none" /\ row[k].attempt = n
      ~> row[k].attempt # n \/ row[k].status \in {"completed", "none"}

EntryOf(r) ==
  IF r.status = "none" THEN "idle"
  ELSE IF r.status = "completed" THEN "done"
  ELSE IF r.status = "dead" THEN "dropped"
  ELSE "owed"

\* The promise of the outbox.  A dead row is reopened when the same write fails
\* once more; a completed one is final.
Promise == INSTANCE OwedWrite WITH
  Contents <- Writes,
  Reopenable <- {"dropped"},
  stored <- message,
  entry <- [k \in Keys |-> EntryOf(row[k])]

\* However replays, takeovers, late marks and failures of the writer interleave,
\* the outbox ticks off only stored writes, replaces none and reopens none that
\* is ticked off.
ImplementsOwedWrite == Promise!Spec

-----------------------------------------------------------------------------
(* What the documentation says and the code does not keep (README,         *)
(* Disagreements): these are not invariants.                               *)

\* "stops processing a record after max attempts and marks it dead"
LastAttemptMarksDead ==
  [][\A w \in Workers :
       /\ MarkFailed(w)
       /\ job[w].attempt = MaxAttempts
       /\ row[job[w].key].token = MaxAttempts
       => row'[job[w].key].status = "dead"]_vars

\* "a successful retry overwrites this with the real assistant reply"
RetryOverwrites ==
  [][\A x \in Writes \ Markers : WriteOK(x) => message'[KeyOf[x]] = x]_vars
=============================================================================
