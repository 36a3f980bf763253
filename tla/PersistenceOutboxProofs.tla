---------------------- MODULE PersistenceOutboxProofs ----------------------
(***************************************************************************)
(* Proofs about PersistenceOutbox, for any keys, writes, recovery runs and *)
(* number of attempts.                                                     *)
(***************************************************************************)
EXTENDS PersistenceOutbox, TLAPS

\* A queued row, and a run at work, carry the content of a real write.
PayloadsAreWrites ==
  /\ \A k \in Keys : row[k].status # "none" => row[k].payload \in Writes
  /\ \A w \in Workers : job[w].phase # "idle" => job[w].payload \in Writes

\* A run that is about to mark its row completed has stored its key.
WroteIsStored ==
  \A w \in Workers :
    job[w].phase = "wrote" /\ job[w].key \notin gone => message[job[w].key] # None

\* The strengthening under which CompletedIsStored is inductive.
Stored == PayloadsAreWrites /\ WroteIsStored /\ CompletedIsStored

-----------------------------------------------------------------------------
\* What an upsert makes of a row: it is typed, it carries a write, it is never
\* completed unless it was, and it keeps the lock.
LEMMA QueuedRow ==
  ASSUME NEW r \in Row, NEW x \in Writes, r.status # "none" => r.payload \in Writes
  PROVE  /\ Queued(r, x) \in Row
         /\ Queued(r, x).payload \in Writes
         /\ Queued(r, x).status = "completed" <=> r.status = "completed"
         /\ r.status # "none" => Queued(r, x).token = r.token
BY WritesAssumption DEF Queued, NewRow, Row, Status, Content, Attempts

\* A mark leaves every row but its own alone, and its own too unless it is in
\* processing under the run's token.
LEMMA MarkEffect ==
  ASSUME TypeOK, NEW w \in Workers, NEW status \in Status, NEW due \in BOOLEAN,
         Holds(w), MarkRow(job[w].key, status, due)
  PROVE  /\ row' \in [Keys -> Row]
         /\ \A k \in Keys \ {job[w].key} : row'[k] = row[k]
         /\ row[job[w].key].status = "processing"
         /\ row'[job[w].key].status = status
         /\ row'[job[w].key].token = 0
         /\ row'[job[w].key].payload = row[job[w].key].payload
<1> DEFINE j == job[w].key
           marked == Marked(row[j], status, due)
<1>1. j \in Keys /\ row[j] \in Row /\ row[j].status = "processing"
  BY DEF TypeOK, Job, Holds
<1>2. /\ marked \in Row /\ marked.status = status /\ marked.token = 0
      /\ marked.payload = row[j].payload
  BY <1>1, WritesAssumption DEF Marked, Row, Attempts
<1>3. row' = [row EXCEPT ![j] = marked]
  BY DEF MarkRow
<1>4. j = job[w].key
  OBVIOUS
<1> HIDE DEF j, marked
<1> QED BY <1>1, <1>2, <1>3, <1>4 DEF TypeOK

LEMMA FailEffect ==
  ASSUME TypeOK, NEW w \in Workers, FailRow(w)
  PROVE  /\ row' \in [Keys -> Row]
         /\ \A k \in Keys : \/ row'[k] = row[k]
                            \/ /\ row[k].status = "processing"
                               /\ row'[k].status \in {"failed", "dead"}
                               /\ row'[k].token = 0
                               /\ row'[k].payload = row[k].payload
<1>1. FailedStatus(w) \in {"failed", "dead"} /\ FailedStatus(w) \in Status
  BY DEF FailedStatus, Status
<1>2. CASE Holds(w)
  <2>1. MarkRow(job[w].key, FailedStatus(w), FALSE)
    BY <1>2 DEF FailRow
  <2> QED BY <1>1, <1>2, <2>1, MarkEffect
<1>3. CASE ~ Holds(w)
  BY <1>3 DEF FailRow, TypeOK
<1> QED BY <1>2, <1>3

LEMMA CompleteEffect ==
  ASSUME TypeOK, NEW w \in Workers, CompleteRow(w)
  PROVE  /\ row' \in [Keys -> Row]
         /\ \A k \in Keys : \/ row'[k] = row[k]
                            \/ /\ k = job[w].key
                               /\ row[k].status = "processing"
                               /\ row'[k].status = "completed"
                               /\ row'[k].token = 0
                               /\ row'[k].payload = row[k].payload
<1>1. "completed" \in Status /\ row[job[w].key].due \in BOOLEAN
  BY DEF Status, TypeOK, Job, Row
<1>2. CASE Holds(w)
  <2>1. MarkRow(job[w].key, "completed", row[job[w].key].due)
    BY <1>2 DEF CompleteRow
  <2> QED BY <1>1, <1>2, <2>1, MarkEffect
<1>3. CASE ~ Holds(w)
  BY <1>3 DEF CompleteRow, TypeOK
<1> QED BY <1>2, <1>3

\* What a claim does to its row and its run.
LEMMA ClaimEffect ==
  ASSUME TypeOK, NEW w \in Workers, NEW k \in Keys, Claim(w, k)
  PROVE  /\ row' \in [Keys -> Row] /\ job' \in [Workers -> Job]
         /\ Claimable(row[k])
         /\ row'[k].status = "processing"
         /\ row'[k].payload = row[k].payload
         /\ job'[w].phase = "claimed" /\ job'[w].payload = row[k].payload
         /\ \A i \in Keys \ {k} : row'[i] = row[i]
         /\ \A v \in Workers \ {w} : job'[v] = job[v]
<1> DEFINE taken == Taken(row[k])
           work == [key |-> k, payload |-> row[k].payload,
                    attempt |-> row[k].attempt + 1, phase |-> "claimed"]
<1>1. Claimable(row[k]) /\ row[k] \in Row
  BY DEF Claim, TypeOK
<1>2. row[k].attempt + 1 \in Attempts
  BY <1>1, WritesAssumption DEF Claimable, Row, Attempts
<1>3. taken \in Row /\ taken.status = "processing" /\ taken.payload = row[k].payload
  BY <1>1, <1>2 DEF Row, Status, Taken
<1>4. work \in Job /\ work.phase = "claimed" /\ work.payload = row[k].payload
  BY <1>1, <1>2 DEF Row, Job, JobPhase
<1>5. row' = [row EXCEPT ![k] = taken] /\ job' = [job EXCEPT ![w] = work]
  BY DEF Claim
<1> HIDE DEF taken, work
<1> QED BY <1>1, <1>3, <1>4, <1>5 DEF TypeOK

\* What the other steps of a run do to the runs.
LEMMA GoesEffect ==
  ASSUME TypeOK, NEW w \in Workers, NEW phase \in JobPhase, Goes(w, phase)
  PROVE  /\ job' \in [Workers -> Job]
         /\ job'[w].phase = phase /\ job'[w].key = job[w].key
         /\ job'[w].payload = job[w].payload
         /\ \A v \in Workers \ {w} : job'[v] = job[v]
BY DEF Goes, TypeOK, Job

\* What an insert does to the messages, whether or not it reports an error.
LEMMA InsertEffect ==
  ASSUME TypeOK, NEW k \in Keys, NEW x \in Writes, InsertErrs(k, x)
  PROVE  /\ message' \in [Keys -> Content]
         /\ \A i \in Keys : message[i] # None => message'[i] # None
         /\ Insert(k, x) => message'[k] # None
BY WritesAssumption DEF InsertErrs, Insert, TypeOK, Content

-----------------------------------------------------------------------------
\* The rows a step may leave behind, and how the other variables move with them:
\* one disjunct per kind of step, in terms of the effects above.
LEMMA TypeNext ==
  ASSUME TypeOK, PayloadsAreWrites, [Next]_vars
  PROVE  TypeOK'
<1>1. ASSUME NEW x \in Writes, WriterStep(x) PROVE TypeOK'
  <2>1. KeyOf[x] \in Keys /\ row[KeyOf[x]] \in Row
    BY WritesAssumption DEF TypeOK
  <2>2. CASE WriteOK(x) \/ WriteErrs(x)
    <3>1. InsertErrs(KeyOf[x], x)
      BY <2>2 DEF WriteOK, WriteErrs, InsertErrs
    <3>2. message' \in [Keys -> Content]
      BY <2>1, <3>1, InsertEffect
    <3> QED BY <2>2, <3>2 DEF WriteOK, WriteErrs, TypeOK, WriterState
  <2>3. CASE Enqueue(x)
    <3>1. Queued(row[KeyOf[x]], x) \in Row
      BY <2>1, QueuedRow DEF PayloadsAreWrites
    <3> QED BY <2>1, <2>3, <3>1 DEF Enqueue, TypeOK, WriterState
  <2>4. CASE WriterLost(x)
    BY <2>4 DEF WriterLost, TypeOK, WriterState
  <2> QED BY <1>1, <2>2, <2>3, <2>4 DEF WriterStep
<1>2. ASSUME NEW w \in Workers, NEW k \in Keys, Claim(w, k) PROVE TypeOK'
  <2>1. row' \in [Keys -> Row] /\ job' \in [Workers -> Job]
    BY <1>2, ClaimEffect
  <2> QED BY <1>2, <2>1 DEF Claim, TypeOK
<1>3. ASSUME NEW w \in Workers, ReplayStep(w) \/ RunEnds(w) PROVE TypeOK'
  <2>1. \A phase \in JobPhase : Goes(w, phase) => job' \in [Workers -> Job]
    BY GoesEffect
  <2>2. {"idle", "erred", "wrote", "threw"} \subseteq JobPhase
    BY DEF JobPhase
  <2>3. job[w].key \in Keys /\ row[job[w].key] \in Row
    BY DEF TypeOK, Job
  <2>4. CASE ReplayWrites(w) \/ ReplayErrs(w)
    <3>1. InsertErrs(job[w].key, job[w].payload) /\ job[w].payload \in Writes
      BY <2>4 DEF ReplayWrites, ReplayErrs, InsertErrs, PayloadsAreWrites, At
    <3>2. message' \in [Keys -> Content]
      BY <2>3, <3>1, InsertEffect
    <3> QED BY <2>1, <2>2, <2>4, <3>2 DEF ReplayWrites, ReplayErrs, TypeOK
  <2>5. CASE ReplayEnqueues(w)
    <3>1. job[w].payload \in Writes
      BY <2>5 DEF ReplayEnqueues, PayloadsAreWrites, At
    <3>2. Queued(row[job[w].key], job[w].payload) \in Row
      BY <2>3, <3>1, QueuedRow DEF PayloadsAreWrites
    <3> QED BY <2>1, <2>2, <2>3, <2>5, <3>2 DEF ReplayEnqueues, TypeOK
  <2>6. CASE ReplayEnqueueErrs(w)
    BY <2>1, <2>2, <2>6 DEF ReplayEnqueueErrs, TypeOK
  <2>7. CASE MarkCompleted(w) \/ MarkCompletedErrs(w)
    <3>1. row' \in [Keys -> Row]
      BY <2>7, CompleteEffect DEF MarkCompleted, MarkCompletedErrs, TypeOK
    <3> QED BY <2>1, <2>2, <2>7, <3>1 DEF MarkCompleted, MarkCompletedErrs, TypeOK
  <2>8. CASE MarkFailed(w) \/ RunEnds(w)
    <3>1. row' \in [Keys -> Row]
      BY <2>8, FailEffect DEF MarkFailed, RunEnds, TypeOK
    <3> QED BY <2>1, <2>2, <2>8, <3>1 DEF MarkFailed, RunEnds, TypeOK
  <2> QED BY <1>3, <2>4, <2>5, <2>6, <2>7, <2>8 DEF ReplayStep
<1>4. ASSUME NEW k \in Keys, DeleteThread(k) PROVE TypeOK'
  BY <1>4 DEF DeleteThread, TypeOK, Content
<1>5. ASSUME NEW k \in Keys, LockExpires(k) \/ BackoffElapses(k) PROVE TypeOK'
  BY <1>5 DEF LockExpires, BackoffElapses, TypeOK, Row
<1>6. ASSUME NEW k \in Keys, Purge(k) PROVE TypeOK'
  <2>1. NoRow \in Row
    BY WritesAssumption DEF NoRow, Row, Status, Content, Attempts
  <2> QED BY <1>6, <2>1 DEF Purge, TypeOK
<1>7. CASE UNCHANGED vars
  BY <1>7 DEF vars, TypeOK
<1> QED BY <1>1, <1>2, <1>3, <1>4, <1>5, <1>6, <1>7 DEF Next

LEMMA InitStored == Init => TypeOK /\ Stored
<1> SUFFICES ASSUME Init PROVE TypeOK /\ Stored
  OBVIOUS
<1>1. NoRow \in Row /\ NoRow.status = "none"
  BY WritesAssumption DEF NoRow, Row, Status, Content, Attempts
<1>2. TypeOK
  BY <1>1 DEF Init, TypeOK, Content, WriterState
<1>3. Stored
  BY <1>1 DEF Init, Stored, PayloadsAreWrites, WroteIsStored, CompletedIsStored
<1> QED BY <1>2, <1>3

-----------------------------------------------------------------------------
\* What a step may do to a row, and who may complete one.
CompletedBy(k) ==
  \E w \in Workers : /\ job[w].phase = "wrote" /\ job[w].key = k
                     /\ UNCHANGED <<message, gone>>

RowMoves(k) ==
  /\ row[k].status = "completed" => row'[k].status \in {"completed", "none"}
  /\ row'[k].status = "completed" => row[k].status = "completed" \/ CompletedBy(k)
  /\ row[k].locked /\ row[k].token # 0 => row'[k].token \in {row[k].token, 0}
  /\ row'[k].status # "none" => row'[k].payload \in Writes

LEMMA RowStep ==
  ASSUME TypeOK, PayloadsAreWrites, [Next]_vars, NEW k \in Keys
  PROVE  RowMoves(k)
<1>1. CASE row'[k] = row[k]
  BY <1>1 DEF RowMoves, PayloadsAreWrites
<1>2. ASSUME NEW x \in Writes, row'[k] = Queued(row[k], x) PROVE RowMoves(k)
  <2>1. row[k] \in Row /\ (row[k].status # "none" => row[k].payload \in Writes)
    BY DEF TypeOK, PayloadsAreWrites
  <2>2. /\ row'[k].payload \in Writes
        /\ row'[k].status = "completed" <=> row[k].status = "completed"
        /\ row[k].status # "none" => row'[k].token = row[k].token
    BY <1>2, <2>1, QueuedRow
  <2>3. row[k].status = "none" => row'[k].token = 0
    BY <1>2 DEF Queued, NewRow
  <2> QED BY <2>2, <2>3 DEF RowMoves
<1>3. ASSUME NEW x \in Writes, Enqueue(x) PROVE RowMoves(k)
  <2>1. row'[k] = row[k] \/ row'[k] = Queued(row[k], x)
    BY <1>3, WritesAssumption DEF Enqueue, TypeOK
  <2> QED BY <1>1, <1>2, <2>1
<1>4. ASSUME NEW w \in Workers, ReplayEnqueues(w) PROVE RowMoves(k)
  <2>1. job[w].payload \in Writes
    BY <1>4 DEF ReplayEnqueues, PayloadsAreWrites, At
  <2>2. row'[k] = row[k] \/ row'[k] = Queued(row[k], job[w].payload)
    BY <1>4 DEF ReplayEnqueues, TypeOK
  <2> QED BY <1>1, <1>2, <2>1, <2>2
<1>5. ASSUME NEW w \in Workers, NEW i \in Keys, Claim(w, i) PROVE RowMoves(k)
  <2>1. CASE i = k
    <3>1. /\ Claimable(row[k]) /\ row'[k].status = "processing"
          /\ row'[k].payload = row[k].payload
      BY <1>5, <2>1, ClaimEffect
    <3>2. ~ row[k].locked /\ row[k].status \notin {"completed", "none"}
      BY <3>1 DEF Claimable
    <3> QED BY <3>1, <3>2 DEF RowMoves, PayloadsAreWrites
  <2>2. CASE i # k
    BY <1>1, <1>5, <2>2, ClaimEffect
  <2> QED BY <2>1, <2>2
<1>6. ASSUME NEW w \in Workers, MarkCompleted(w) \/ MarkCompletedErrs(w)
      PROVE  RowMoves(k)
  <2>1. CompleteRow(w) \/ row' = row
    BY <1>6 DEF MarkCompleted, MarkCompletedErrs
  <2>2. job[w].phase = "wrote" /\ UNCHANGED <<message, gone>>
    BY <1>6 DEF MarkCompleted, MarkCompletedErrs, At
  <2>3. CASE CompleteRow(w)
    <3>1. \/ row'[k] = row[k]
          \/ /\ k = job[w].key
             /\ row[k].status = "processing" /\ row'[k].status = "completed"
             /\ row'[k].token = 0 /\ row'[k].payload = row[k].payload
      BY <2>3, CompleteEffect
    <3>2. ASSUME k = job[w].key PROVE CompletedBy(k)
      BY <2>2, <3>2 DEF CompletedBy
    <3> QED BY <1>1, <3>1, <3>2 DEF RowMoves, PayloadsAreWrites
  <2> QED BY <1>1, <2>1, <2>3
<1>7. ASSUME NEW w \in Workers, MarkFailed(w) \/ RunEnds(w) PROVE RowMoves(k)
  <2>1. FailRow(w) \/ row' = row
    BY <1>7 DEF MarkFailed, RunEnds
  <2>2. CASE FailRow(w)
    <3>1. \/ row'[k] = row[k]
          \/ /\ row[k].status = "processing"
             /\ row'[k].status \in {"failed", "dead"}
             /\ row'[k].token = 0 /\ row'[k].payload = row[k].payload
      BY <2>2, FailEffect
    <3> QED BY <1>1, <3>1 DEF RowMoves, PayloadsAreWrites
  <2> QED BY <1>1, <2>1, <2>2
<1>8. ASSUME NEW i \in Keys, LockExpires(i) \/ BackoffElapses(i) PROVE RowMoves(k)
  <2>1. /\ row'[k].status = row[k].status /\ row'[k].token = row[k].token
        /\ row'[k].payload = row[k].payload
    BY <1>8 DEF LockExpires, BackoffElapses, TypeOK, Row
  <2> QED BY <2>1 DEF RowMoves, PayloadsAreWrites
<1>9. ASSUME NEW i \in Keys, Purge(i) PROVE RowMoves(k)
  <2>1. row'[k] = row[k] \/ row'[k] = NoRow
    BY <1>9 DEF Purge, TypeOK
  <2> QED BY <1>1, <2>1 DEF RowMoves, NoRow
<1>10. ASSUME NEW x \in Writes, WriteOK(x) \/ WriteErrs(x) \/ WriterLost(x)
       PROVE  RowMoves(k)
  BY <1>1, <1>10 DEF WriteOK, WriteErrs, WriterLost
<1>11. ASSUME NEW w \in Workers, ReplayWrites(w) \/ ReplayErrs(w) \/ ReplayEnqueueErrs(w)
       PROVE  RowMoves(k)
  BY <1>1, <1>11 DEF ReplayWrites, ReplayErrs, ReplayEnqueueErrs
<1>12. ASSUME NEW i \in Keys, DeleteThread(i) PROVE RowMoves(k)
  BY <1>1, <1>12 DEF DeleteThread
<1>13. CASE UNCHANGED vars
  BY <1>1, <1>13 DEF vars
<1> QED BY <1>3, <1>4, <1>5, <1>6, <1>7, <1>8, <1>9, <1>10, <1>11, <1>12, <1>13
        DEF Next, WriterStep, ReplayStep

\* A stored key stays stored while its thread is there.
LEMMA MessageStep ==
  ASSUME TypeOK, PayloadsAreWrites, [Next]_vars
  PROVE  /\ gone \subseteq gone'
         /\ \A k \in Keys \ gone' : message[k] # None => message'[k] # None
<1> DEFINE Kept == /\ gone \subseteq gone'
                   /\ \A k \in Keys \ gone' : message[k] # None => message'[k] # None
<1>1. ASSUME NEW x \in Writes, WriteOK(x) \/ WriteErrs(x) PROVE Kept
  <2>1. InsertErrs(KeyOf[x], x) /\ gone' = gone /\ KeyOf[x] \in Keys
    BY <1>1, WritesAssumption DEF WriteOK, WriteErrs, InsertErrs
  <2> QED BY <2>1, InsertEffect
<1>2. ASSUME NEW w \in Workers, ReplayWrites(w) \/ ReplayErrs(w) PROVE Kept
  <2>1. InsertErrs(job[w].key, job[w].payload) /\ gone' = gone
    BY <1>2 DEF ReplayWrites, ReplayErrs, InsertErrs
  <2>2. job[w].key \in Keys /\ job[w].payload \in Writes
    BY <1>2 DEF ReplayWrites, ReplayErrs, PayloadsAreWrites, TypeOK, Job, At
  <2> QED BY <2>1, <2>2, InsertEffect
<1>3. ASSUME NEW k \in Keys, DeleteThread(k) PROVE Kept
  BY <1>3 DEF DeleteThread, TypeOK
<1>4. CASE UNCHANGED <<message, gone>>
  BY <1>4
<1>5. \/ \E x \in Writes : WriteOK(x) \/ WriteErrs(x)
      \/ \E w \in Workers : ReplayWrites(w) \/ ReplayErrs(w)
      \/ \E k \in Keys : DeleteThread(k)
      \/ UNCHANGED <<message, gone>>
  BY DEF Next, WriterStep, ReplayStep, Enqueue, WriterLost, Claim, ReplayEnqueues,
         ReplayEnqueueErrs, MarkCompleted, MarkCompletedErrs, MarkFailed, RunEnds,
         LockExpires, BackoffElapses, Purge, vars
<1> QED BY <1>1, <1>2, <1>3, <1>4, <1>5

\* A run that is at work carries a write, and one that has just written has
\* stored its key.
LEMMA JobStep ==
  ASSUME TypeOK, PayloadsAreWrites, [Next]_vars, NEW v \in Workers
  PROVE  /\ job'[v].phase # "idle" => job'[v].payload \in Writes
         /\ job'[v].phase = "wrote" => job'[v] = job[v] \/ message'[job'[v].key] # None
<1> DEFINE Fine ==
      /\ job'[v].phase # "idle" => job'[v].payload \in Writes
      /\ job'[v].phase = "wrote" => job'[v] = job[v] \/ message'[job'[v].key] # None
<1>1. CASE job'[v] = job[v]
  BY <1>1 DEF PayloadsAreWrites
<1>2. ASSUME NEW w \in Workers, NEW k \in Keys, Claim(w, k) PROVE Fine
  <2>1. /\ Claimable(row[k])
        /\ job'[w].phase = "claimed" /\ job'[w].payload = row[k].payload
        /\ \A u \in Workers \ {w} : job'[u] = job[u]
    BY <1>2, ClaimEffect
  <2>2. row[k].payload \in Writes
    BY <2>1 DEF Claimable, PayloadsAreWrites
  <2> QED BY <1>1, <2>1, <2>2
<1>3. ASSUME NEW w \in Workers, ReplayWrites(w) PROVE Fine
  <2>1. /\ job[w].key \in Keys /\ job[w].payload \in Writes
        /\ Insert(job[w].key, job[w].payload)
    BY <1>3 DEF ReplayWrites, PayloadsAreWrites, TypeOK, Job, At
  <2>2. message'[job[w].key] # None
    BY <2>1, InsertEffect DEF InsertErrs
  <2>3. /\ job'[w].key = job[w].key /\ job'[w].payload = job[w].payload
        /\ \A u \in Workers \ {w} : job'[u] = job[u]
    BY <1>3, GoesEffect DEF ReplayWrites, JobPhase
  <2> QED BY <1>1, <2>1, <2>2, <2>3
<1>4. ASSUME NEW w \in Workers, NEW phase \in {"idle", "erred", "threw"},
             Goes(w, phase), ~ At(w, "idle")
      PROVE  Fine
  <2>1. /\ job'[w].phase = phase /\ job'[w].payload = job[w].payload
        /\ \A u \in Workers \ {w} : job'[u] = job[u]
    BY <1>4, GoesEffect DEF JobPhase
  <2> QED BY <1>1, <1>4, <2>1 DEF At, PayloadsAreWrites
<1>5. ASSUME NEW w \in Workers, ReplayStep(w) \/ RunEnds(w), ~ ReplayWrites(w)
      PROVE  \E phase \in {"idle", "erred", "threw"} : Goes(w, phase) /\ ~ At(w, "idle")
  BY <1>5 DEF ReplayStep, ReplayErrs, ReplayEnqueues, ReplayEnqueueErrs, MarkCompleted,
              MarkCompletedErrs, MarkFailed, RunEnds, At
<1>6. CASE job' = job
  BY <1>1, <1>6
<1>7. \/ \E w \in Workers, k \in Keys : Claim(w, k)
      \/ \E w \in Workers : ReplayStep(w) \/ RunEnds(w)
      \/ job' = job
  BY DEF Next, WriterStep, WriteOK, WriteErrs, Enqueue, WriterLost, DeleteThread,
         LockExpires, BackoffElapses, Purge, vars
<1> QED BY <1>2, <1>3, <1>4, <1>5, <1>6, <1>7

LEMMA StoredNext == TypeOK /\ Stored /\ [Next]_vars => (TypeOK /\ Stored)'
<1> SUFFICES ASSUME TypeOK, Stored, [Next]_vars PROVE TypeOK' /\ Stored'
  OBVIOUS
<1>1. PayloadsAreWrites /\ WroteIsStored /\ CompletedIsStored
  BY DEF Stored
<1>2. TypeOK'
  BY <1>1, TypeNext
<1>3. /\ gone \subseteq gone'
      /\ \A k \in Keys \ gone' : message[k] # None => message'[k] # None
  BY <1>1, MessageStep
<1>4. PayloadsAreWrites'
  <2>1. \A k \in Keys : row'[k].status # "none" => row'[k].payload \in Writes
    BY <1>1, RowStep DEF RowMoves
  <2>2. \A w \in Workers : job'[w].phase # "idle" => job'[w].payload \in Writes
    BY <1>1, JobStep
  <2> QED BY <2>1, <2>2 DEF PayloadsAreWrites
<1>5. WroteIsStored'
  <2> SUFFICES ASSUME NEW w \in Workers, job'[w].phase = "wrote", job'[w].key \notin gone'
               PROVE  message'[job'[w].key] # None
    BY DEF WroteIsStored
  <2>1. job'[w] = job[w] \/ message'[job'[w].key] # None
    BY <1>1, JobStep
  <2>2. job'[w].key \in Keys
    BY <1>2 DEF TypeOK, Job
  <2> QED BY <1>1, <1>3, <2>1, <2>2 DEF WroteIsStored
<1>6. CompletedIsStored'
  <2> SUFFICES ASSUME NEW k \in Keys \ gone', row'[k].status = "completed"
               PROVE  message'[k] # None
    BY DEF CompletedIsStored
  <2>1. row[k].status = "completed" \/ CompletedBy(k)
    BY <1>1, RowStep DEF RowMoves
  <2>2. CASE row[k].status = "completed"
    BY <1>1, <1>3, <2>2 DEF CompletedIsStored
  <2>3. CASE CompletedBy(k)
    BY <1>1, <2>3 DEF CompletedBy, WroteIsStored
  <2> QED BY <2>1, <2>2, <2>3
<1> QED BY <1>2, <1>4, <1>5, <1>6 DEF Stored

\* The types of the outbox and of the runs and writers around it.
THEOREM TypeCorrect == Spec => []TypeOK
BY InitStored, StoredNext, PTL DEF Spec

\* A completed row's key is stored: nothing is ticked off that is not there.
THEOREM Durability == Spec => []CompletedIsStored
<1>1. Stored => CompletedIsStored
  BY DEF Stored
<1> QED BY <1>1, InitStored, StoredNext, PTL DEF Spec

\* No run takes a row over while another run's lock on it is live, even when the
\* holder's own replay has put the row back to pending.
THEOREM Exclusion == Spec => OneHolder
<1>1. TypeOK /\ Stored /\ [Next]_vars => [LiveLockKept]_vars
  BY RowStep DEF RowMoves, LiveLockKept, Stored
<1> QED BY <1>1, InitStored, StoredNext, PTL DEF Spec, OneHolder

\* A completed row is never reopened, by a late mark or a late failure.
THEOREM Finality == Spec => CompletedIsFinal
<1>1. TypeOK /\ Stored /\ [Next]_vars => [CompletedKept]_vars
  BY RowStep DEF RowMoves, CompletedKept, Stored
<1> QED BY <1>1, InitStored, StoredNext, PTL DEF Spec, CompletedIsFinal

-----------------------------------------------------------------------------
(* The outbox implements OwedWrite.                                        *)

Entry == [k \in Keys |-> EntryOf(row[k])]

\* The moves of an entry that OwedWrite allows, with a row for the entry.
EntryMoves(k, r) ==
  \/ EntryOf(r) = EntryOf(row[k])
  \/ EntryOf(row[k]) \in {"idle", "dropped"} /\ EntryOf(r) = "owed"
  \/ EntryOf(row[k]) # "idle" /\ EntryOf(r) = "done" /\ (message[k] # None \/ k \in gone)
  \/ EntryOf(row[k]) = "owed" /\ EntryOf(r) = "dropped"
  \/ EntryOf(row[k]) \in {"done", "dropped"} /\ EntryOf(r) = "idle"

AbstractStep == Promise!Next \/ UNCHANGED <<message, gone, Entry>>

\* A step that changes one row only.
LEMMA RowRefines ==
  ASSUME row \in [Keys -> Row], NEW k \in Keys, NEW r, EntryMoves(k, r),
         row' = [row EXCEPT ![k] = r], message' = message, gone' = gone
  PROVE  AbstractStep
<1>1. Entry' = [Entry EXCEPT ![k] = EntryOf(r)] /\ Entry[k] = EntryOf(row[k])
  BY DEF Entry
<1>2. CASE EntryOf(r) = EntryOf(row[k])
  BY <1>1, <1>2 DEF AbstractStep, Entry
<1>3. CASE EntryOf(row[k]) \in {"idle", "dropped"} /\ EntryOf(r) = "owed"
  <2>1. Promise!Owe(k)
    BY <1>1, <1>3 DEF Promise!Owe, Promise!Becomes, Entry
  <2> QED BY <2>1 DEF AbstractStep, Promise!Next
<1>4. CASE EntryOf(row[k]) # "idle" /\ EntryOf(r) = "done" /\ (message[k] # None \/ k \in gone)
  <2>1. Promise!Finish(k)
    BY <1>1, <1>4 DEF Promise!Finish, Promise!Becomes, Entry
  <2> QED BY <2>1 DEF AbstractStep, Promise!Next
<1>5. CASE EntryOf(row[k]) = "owed" /\ EntryOf(r) = "dropped"
  <2>1. Promise!Drop(k)
    BY <1>1, <1>5 DEF Promise!Drop, Promise!Becomes, Entry
  <2> QED BY <2>1 DEF AbstractStep, Promise!Next
<1>6. CASE EntryOf(row[k]) \in {"done", "dropped"} /\ EntryOf(r) = "idle"
  <2>1. Promise!Forget(k)
    BY <1>1, <1>6 DEF Promise!Forget, Promise!Becomes, Entry
  <2> QED BY <2>1 DEF AbstractStep, Promise!Next
<1> QED BY <1>2, <1>3, <1>4, <1>5, <1>6 DEF EntryMoves

\* A step that leaves the rows alone, and may insert a message.
LEMMA InsertRefines ==
  ASSUME TypeOK, NEW k \in Keys, NEW x \in Writes, InsertErrs(k, x),
         row' = row, gone' = gone
  PROVE  AbstractStep
<1>1. Entry' = Entry
  BY DEF Entry
<1>2. CASE message' = message
  BY <1>1, <1>2 DEF AbstractStep
<1>3. CASE Insert(k, x) /\ message[k] = None
  <2>1. Promise!Store(k, x)
    BY <1>1, <1>3 DEF Promise!Store, Insert, Entry, TypeOK
  <2> QED BY <2>1 DEF AbstractStep, Promise!Next
<1>4. CASE Insert(k, x) /\ message[k] # None
  BY <1>2, <1>4 DEF Insert, TypeOK
<1> QED BY <1>2, <1>3, <1>4 DEF InsertErrs

LEMMA QueuedMoves ==
  ASSUME TypeOK, NEW k \in Keys, NEW x
  PROVE  EntryMoves(k, Queued(row[k], x))
BY DEF EntryMoves, EntryOf, Queued, NewRow, TypeOK, Row, Status

LEMMA FailMoves ==
  ASSUME TypeOK, NEW w \in Workers, FailRow(w), message' = message, gone' = gone
  PROVE  AbstractStep
<1>1. job[w].key \in Keys /\ row \in [Keys -> Row]
  BY DEF TypeOK, Job
<1>2. CASE Holds(w)
  <2> DEFINE r == Marked(row[job[w].key], FailedStatus(w), FALSE)
  <2>1. row' = [row EXCEPT ![job[w].key] = r]
    BY <1>2 DEF FailRow, MarkRow
  <2>2. EntryMoves(job[w].key, r)
    BY <1>2 DEF EntryMoves, EntryOf, Marked, FailedStatus, Holds
  <2> HIDE DEF r
  <2> QED BY <1>1, <2>1, <2>2, RowRefines
<1>3. CASE ~ Holds(w)
  BY <1>3 DEF FailRow, AbstractStep, Entry
<1> QED BY <1>2, <1>3

\* A run marks its row completed only after it has written: the invariant
\* WroteIsStored says that the key is stored or its thread gone.
LEMMA CompleteMoves ==
  ASSUME TypeOK, Stored, NEW w \in Workers, At(w, "wrote"), CompleteRow(w),
         message' = message, gone' = gone
  PROVE  AbstractStep
<1>1. job[w].key \in Keys /\ row \in [Keys -> Row]
  BY DEF TypeOK, Job
<1>2. CASE Holds(w)
  <2> DEFINE r == Marked(row[job[w].key], "completed", row[job[w].key].due)
  <2>1. row' = [row EXCEPT ![job[w].key] = r]
    BY <1>2 DEF CompleteRow, MarkRow
  <2>2. message[job[w].key] # None \/ job[w].key \in gone
    BY DEF Stored, WroteIsStored, At
  <2>3. EntryMoves(job[w].key, r)
    BY <1>2, <2>2 DEF EntryMoves, EntryOf, Marked, Holds
  <2> HIDE DEF r
  <2> QED BY <1>1, <2>1, <2>3, RowRefines
<1>3. CASE ~ Holds(w)
  BY <1>3 DEF CompleteRow, AbstractStep, Entry
<1> QED BY <1>2, <1>3

\* Every step of the outbox is one of OwedWrite, or none.
LEMMA StepRefines ==
  ASSUME TypeOK, Stored, [Next]_vars
  PROVE  AbstractStep
<1>1. PayloadsAreWrites /\ row \in [Keys -> Row]
  BY DEF Stored, TypeOK
<1>2. ASSUME NEW x \in Writes, WriterStep(x) PROVE AbstractStep
  <2>1. KeyOf[x] \in Keys
    BY WritesAssumption
  <2>2. CASE WriteOK(x) \/ WriteErrs(x)
    BY <2>1, <2>2, InsertRefines DEF WriteOK, WriteErrs, InsertErrs
  <2>3. CASE Enqueue(x)
    BY <1>1, <2>1, <2>3, QueuedMoves, RowRefines DEF Enqueue
  <2>4. CASE WriterLost(x)
    BY <2>4 DEF WriterLost, AbstractStep, Entry
  <2> QED BY <1>2, <2>2, <2>3, <2>4 DEF WriterStep
<1>3. ASSUME NEW w \in Workers, ReplayStep(w) \/ RunEnds(w) PROVE AbstractStep
  <2>1. job[w].key \in Keys /\ (~ At(w, "idle") => job[w].payload \in Writes)
    BY <1>1 DEF TypeOK, Job, PayloadsAreWrites, At
  <2>2. CASE ReplayWrites(w) \/ ReplayErrs(w)
    BY <2>1, <2>2, InsertRefines DEF ReplayWrites, ReplayErrs, InsertErrs, At
  <2>3. CASE ReplayEnqueues(w)
    BY <1>1, <2>1, <2>3, QueuedMoves, RowRefines DEF ReplayEnqueues
  <2>4. CASE MarkCompleted(w) \/ (MarkCompletedErrs(w) /\ CompleteRow(w))
    BY <2>4, CompleteMoves DEF MarkCompleted, MarkCompletedErrs
  <2>5. CASE MarkFailed(w) \/ (RunEnds(w) /\ FailRow(w))
    BY <2>5, FailMoves DEF MarkFailed, RunEnds
  <2>6. CASE row' = row /\ message' = message /\ gone' = gone
    BY <2>6 DEF AbstractStep, Entry
  <2> QED BY <1>3, <2>2, <2>3, <2>4, <2>5, <2>6
          DEF ReplayStep, ReplayEnqueueErrs, MarkCompletedErrs, RunEnds
<1>4. ASSUME NEW w \in Workers, NEW k \in Keys, Claim(w, k) PROVE AbstractStep
  <2>1. EntryMoves(k, Taken(row[k]))
    BY <1>4 DEF Claim, Claimable, Taken, EntryMoves, EntryOf
  <2> QED BY <1>1, <1>4, <2>1, RowRefines DEF Claim
<1>5. ASSUME NEW k \in Keys, DeleteThread(k) PROVE AbstractStep
  <2>1. Promise!DeleteThread(k)
    BY <1>5 DEF DeleteThread, Promise!DeleteThread
  <2> QED BY <2>1 DEF AbstractStep, Promise!Next
<1>6. ASSUME NEW k \in Keys, LockExpires(k) \/ BackoffElapses(k) PROVE AbstractStep
  <2>1. Entry' = Entry
    BY <1>1, <1>6 DEF LockExpires, BackoffElapses, Entry, EntryOf, Row
  <2> QED BY <1>6, <2>1 DEF LockExpires, BackoffElapses, AbstractStep
<1>7. ASSUME NEW k \in Keys, Purge(k) PROVE AbstractStep
  <2>1. EntryMoves(k, NoRow)
    BY <1>7 DEF Purge, EntryMoves, EntryOf, NoRow
  <2> QED BY <1>1, <1>7, <2>1, RowRefines DEF Purge
<1>8. CASE UNCHANGED vars
  BY <1>8 DEF vars, AbstractStep, Entry
<1> QED BY <1>2, <1>3, <1>4, <1>5, <1>6, <1>7, <1>8 DEF Next

\* The outbox implements the abstract promise: it ticks off only stored writes,
\* replaces none and reopens none that is ticked off.
THEOREM Refinement == Spec => ImplementsOwedWrite
<1>1. Init => Promise!Init
  BY DEF Init, Promise!Init, EntryOf, NoRow
<1>2. TypeOK /\ Stored /\ [Next]_vars => [Promise!Next]_(Promise!vars)
  BY StepRefines DEF AbstractStep, Entry, Promise!vars
<1> QED BY <1>1, <1>2, InitStored, StoredNext, PTL DEF Spec, ImplementsOwedWrite, Promise!Spec
=============================================================================
