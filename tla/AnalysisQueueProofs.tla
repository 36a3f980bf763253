------------------------ MODULE AnalysisQueueProofs ------------------------
(***************************************************************************)
(* Theorems about the full-analysis queue, for any runs, polls, bounds on  *)
(* submissions and number of attempts.                                     *)
(*                                                                         *)
(* The store has no conditional update, so that a record may be replaced   *)
(* by any copy some poll still holds: an invariant has to speak of the     *)
(* copies as it speaks of the records.                                     *)
(***************************************************************************)
EXTENDS AnalysisQueue, TLAPS

-----------------------------------------------------------------------------
(* The calls of the store.                                                 *)

LEMMA PersistEffect ==
  ASSUME TypeOK, NEW r \in Runs, NEW record \in Record, Persist(r, record)
  PROVE  /\ rec' \in [Runs -> Record]
         /\ rec'[r] = record
         /\ \A s \in Runs \ {r} : rec'[s] = rec[s]
BY DEF TypeOK, Persist

LEMMA SetStatusEffect ==
  ASSUME TypeOK, NEW r \in Runs, NEW status \in Status, NEW result \in BOOLEAN,
         SetStatus(r, status, result)
  PROVE  /\ rec' \in [Runs -> Record]
         /\ \A s \in Runs \ {r} : rec'[s] = rec[s]
         /\ rec'[r].attempt = rec[r].attempt
         /\ rec'[r].input = rec[r].input
         /\ rec[r].status = "absent" => rec'[r] = rec[r]
         /\ rec[r].status # "absent" => rec'[r].status = status
         /\ rec'[r].result => rec[r].result \/ result
<1>1. CASE rec[r].status = "absent"
  BY <1>1 DEF SetStatus, TypeOK
<1>2. CASE rec[r].status # "absent"
  <2> DEFINE record == [rec[r] EXCEPT !.status = status, !.result = @ \/ result,
                                      !.fresh = TRUE]
  <2>1. rec[r] \in Record
    BY DEF TypeOK
  <2>2. (rec[r].result \/ result) \in BOOLEAN
    OBVIOUS
  <2>3. record \in Record
    BY <2>1, <2>2 DEF Record
  <2>4. /\ record.attempt = rec[r].attempt
        /\ record.input = rec[r].input
        /\ record.status = status
        /\ record.result = (rec[r].result \/ result)
    BY <2>1 DEF Record
  <2>5. Persist(r, record)
    BY <1>2 DEF SetStatus
  <2> HIDE DEF record
  <2> QED BY <1>2, <2>3, <2>4, <2>5, PersistEffect
<1> QED BY <1>1, <1>2

LEMMA CopyType ==
  ASSUME TypeOK, NEW w \in Workers, NEW r \in Runs
  PROVE  copy[w][r] \in Record
BY DEF TypeOK

LEMMA RecordsType ==
  /\ NoRecord \in Record
  /\ Pending \in Record
  /\ NoRecord.status = "absent" /\ NoRecord.input = "own" /\ NoRecord.attempt = 0
  /\ ~ NoRecord.result
  /\ Pending.status = "pending" /\ Pending.input = "own" /\ Pending.attempt = 0
  /\ ~ Pending.result
BY QueueAssumption DEF NoRecord, Pending, Record, Status

LEMMA StampedType ==
  ASSUME NEW record \in Record, NEW w \in Workers
  PROVE  /\ Stamped(record, w) \in Record
         /\ Stamped(record, w).status = "running"
         /\ Stamped(record, w).input = record.input
         /\ Stamped(record, w).attempt = record.attempt + 1
         /\ Stamped(record, w).result = record.result
<1>1. record.attempt + 1 \in Nat /\ w \in Workers \cup {None}
  BY DEF Record
<1>2. Stamped(record, w) \in Record
  BY <1>1 DEF Stamped, Record, Status
<1>3. /\ Stamped(record, w).status = "running"
      /\ Stamped(record, w).input = record.input
      /\ Stamped(record, w).attempt = record.attempt + 1
  BY DEF Stamped, Record
<1>4. Stamped(record, w).result = record.result
  BY Zenon DEF Stamped, Record
<1> QED BY <1>2, <1>3, <1>4

LEMMA RecoveredType ==
  ASSUME NEW record \in Record
  PROVE  /\ Recovered(record) \in Record
         /\ Recovered(record).status = "pending"
         /\ Recovered(record).input # "unreadable"
         /\ Recovered(record).attempt = IF record.input = "unreadable" THEN 0 ELSE record.attempt
         /\ Recovered(record).result = record.result
BY DEF Recovered, Record, Status

\* What the sweep writes for one of its copies.
LEMMA SweepEffect ==
  ASSUME TypeOK, NEW record \in Record, NEW r \in Runs, SweepWrite(record, r)
  PROVE  /\ rec' \in [Runs -> Record]
         /\ \A s \in Runs \ {r} : rec'[s] = rec[s]
         /\ \/ /\ rec'[r].status = "pending"
               /\ rec'[r].input # "unreadable"
               /\ rec'[r].attempt = IF record.input = "unreadable" THEN 0 ELSE record.attempt
               /\ rec'[r].result = record.result
            \/ /\ AttemptsOf(record) >= MaxAttempts
               /\ SetStatus(r, "failed", FALSE)
<1>1. AttemptsOf(record) \in Nat /\ MaxAttempts \in Nat
  BY QueueAssumption DEF AttemptsOf, Record
<1>2. CASE AttemptsOf(record) < MaxAttempts
  BY <1>2, RecoveredType, PersistEffect DEF SweepWrite
<1>3. CASE ~ (AttemptsOf(record) < MaxAttempts)
  <2>1. SetStatus(r, "failed", FALSE)
    BY <1>3 DEF SweepWrite
  <2>2. /\ rec' \in [Runs -> Record]
        /\ \A s \in Runs \ {r} : rec'[s] = rec[s]
    BY <2>1, SetStatusEffect DEF Status
  <2>3. AttemptsOf(record) >= MaxAttempts
    BY <1>1, <1>3
  <2> QED BY <2>1, <2>2, <2>3
<1> QED BY <1>2, <1>3

\* What the engine writes into the record it works on.
LEMMA EngineEffect ==
  ASSUME TypeOK, NEW w \in Workers, EngineWrites(w)
  PROVE  /\ poll[w].run \in Runs
         /\ rec' \in [Runs -> Record]
         /\ \A s \in Runs \ {poll[w].run} : rec'[s] = rec[s]
         /\ rec[poll[w].run].status # "absent"
         /\ rec'[poll[w].run].status # "absent"
         /\ rec'[poll[w].run].attempt = rec[poll[w].run].attempt
         /\ rec'[poll[w].run].input \in {rec[poll[w].run].input, "unreadable"}
         /\ ~ rec'[poll[w].run].result
<1> DEFINE r == poll[w].run
<1>1. r \in Runs
  BY DEF EngineWrites, TypeOK, HasJob, At, Poll
<1>2. PICK status \in {"running", "success", "failed"}, input \in {rec[r].input, "unreadable"} :
        Persist(r, [rec[r] EXCEPT
          !.status = status, !.input = input, !.result = FALSE, !.fresh = TRUE])
  BY DEF EngineWrites
<1> DEFINE record == [rec[r] EXCEPT
             !.status = status, !.input = input, !.result = FALSE, !.fresh = TRUE]
<1>3. rec[r] \in Record
  BY <1>1 DEF TypeOK
<1>4. /\ record \in Record
      /\ record.status = status
      /\ record.attempt = rec[r].attempt
      /\ record.input = input
      /\ record.result = FALSE
  BY <1>3 DEF Record, Status
<1>5. Persist(r, record)
  BY <1>2
<1> HIDE DEF record
<1>6. /\ rec' \in [Runs -> Record]
      /\ rec'[r] = record
      /\ \A s \in Runs \ {r} : rec'[s] = rec[s]
  BY <1>1, <1>4, <1>5, PersistEffect
<1> QED BY <1>1, <1>4, <1>6 DEF EngineWrites

-----------------------------------------------------------------------------
(* Type correctness.                                                       *)

\* The store and the counters, apart from the polls.
StoreOK ==
  /\ rec \in [Runs -> Record]
  /\ reply \subseteq Runs
  /\ late \in [Runs -> 0 .. MaxLate]
  /\ beats \subseteq Runs
  /\ claims \in [Runs -> 0 .. MaxAttempts]

\* A poll has a run from its stamp on, and a list only while it handles it.
Coherent(p, c) ==
  /\ p \in Poll
  /\ p.run # None <=> p.phase \in {"stamped", "working", "replied", "erred"}
  /\ c \in [Runs -> Record]
  /\ p.phase \in {"listed", "sweeping"} => \E r \in Runs : c[r].status # "absent"

PollsOK ==
  /\ poll \in [Workers -> Poll]
  /\ copy \in [Workers -> [Runs -> Record]]
  /\ \A w \in Workers : Coherent(poll[w], copy[w])

\* The poll of w goes to p, its copies to c; the other polls stay.
PollGoes(w, p, c) ==
  /\ poll' = [poll EXCEPT ![w] = p]
  /\ copy' = [copy EXCEPT ![w] = c]

LEMMA TypeParts ==
  /\ TypeOK <=> StoreOK /\ PollsOK
  /\ TypeOK' <=> StoreOK' /\ PollsOK'
<1>1. TypeOK <=> StoreOK /\ PollsOK
  BY DEF TypeOK, StoreOK, PollsOK, Coherent, At, HasJob, Todo
<1>2. TypeOK' <=> StoreOK' /\ PollsOK'
  BY DEF TypeOK, StoreOK, PollsOK, Coherent, At, HasJob, Todo
<1> QED BY <1>1, <1>2

LEMMA PollGoesOK ==
  ASSUME PollsOK, NEW w \in Workers, NEW p, NEW c, PollGoes(w, p, c), Coherent(p, c)
  PROVE  PollsOK'
<1>1. /\ poll' \in [Workers -> Poll]
      /\ copy' \in [Workers -> [Runs -> Record]]
  BY DEF PollsOK, PollGoes, Coherent
<1>2. ASSUME NEW v \in Workers PROVE Coherent(poll'[v], copy'[v])
  BY <1>2 DEF PollsOK, PollGoes
<1> QED BY <1>1, <1>2 DEF PollsOK

LEMMA QuitsOK ==
  ASSUME PollsOK, NEW w \in Workers, Quits(w) \/ Dies(w)
  PROVE  PollsOK'
<1>1. /\ Coherent(Idle, Nothing)
      /\ Coherent([Idle EXCEPT !.phase = "dead"], Nothing)
  BY RecordsType DEF Coherent, Idle, Poll, Phase, Nothing
<1> QED BY <1>1, PollGoesOK DEF Quits, Dies, PollGoes

\* A poll that moves on with the run it has.
LEMMA GoesOK ==
  ASSUME PollsOK, NEW w \in Workers, NEW phase \in Phase, Goes(w, phase), UNCHANGED copy,
         phase \in {"idle", "dead"} <=> poll[w].run = None,
         phase \notin {"listed", "sweeping"}
  PROVE  PollsOK'
<1>1. Coherent([poll[w] EXCEPT !.phase = phase], copy[w])
  BY DEF PollsOK, Coherent, Poll, Phase
<1>2. PollGoes(w, [poll[w] EXCEPT !.phase = phase], copy[w])
  BY DEF PollGoes, Goes, PollsOK
<1> QED BY <1>1, <1>2, PollGoesOK

LEMMA ListsOK ==
  ASSUME TypeOK, NEW w \in Workers, ClaimLists(w) \/ SweepLists(w)
  PROVE  PollsOK'
<1>1. PICK phase \in {"listed", "sweeping"}, S \in SUBSET Runs :
        /\ S # {}
        /\ \A r \in S : rec[r].status # "absent"
        /\ Goes(w, phase)
        /\ copy' = [copy EXCEPT ![w] = [r \in Runs |-> IF r \in S THEN rec[r] ELSE NoRecord]]
  <2>1. CASE ClaimLists(w)
    <3> WITNESS "listed" \in {"listed", "sweeping"}
    <3> WITNESS {r \in Runs : Candidate(r)} \in SUBSET Runs
    <3> QED BY <2>1 DEF ClaimLists, Candidate
  <2>2. CASE SweepLists(w)
    <3> WITNESS "sweeping" \in {"listed", "sweeping"}
    <3> WITNESS {r \in Runs : Stale(r)} \in SUBSET Runs
    <3> QED BY <2>2 DEF SweepLists, Stale
  <2> QED BY <2>1, <2>2
<1> DEFINE c == [r \in Runs |-> IF r \in S THEN rec[r] ELSE NoRecord]
           p == [poll[w] EXCEPT !.phase = phase]
<1>2. c \in [Runs -> Record]
  BY RecordsType DEF TypeOK
<1>3. \E r \in Runs : c[r].status # "absent"
  BY <1>1
<1>4. PollsOK /\ At(w, "idle")
  BY TypeParts DEF ClaimLists, SweepLists
<1>5. /\ p \in Poll /\ p.phase = phase /\ p.run = None
  BY <1>4 DEF PollsOK, Coherent, Poll, Phase, At
<1>6. PollGoes(w, p, c)
  BY <1>1 DEF PollGoes, Goes
<1> HIDE DEF c, p
<1>7. Coherent(p, c)
  BY <1>1, <1>2, <1>3, <1>5 DEF Coherent
<1> QED BY <1>4, <1>6, <1>7, PollGoesOK

LEMMA StampOK ==
  ASSUME TypeOK, NEW w \in Workers, NEW r \in Runs, Stamp(w, r)
  PROVE  PollsOK'
<1> DEFINE p == [phase |-> "stamped", run |-> r, attempt |-> copy[w][r].attempt + 1,
                 empty |-> copy[w][r].input = "empty"]
           c == [copy[w] EXCEPT ![r] = NoRecord]
<1>1. copy[w][r].attempt + 1 \in Nat /\ r # None
  BY CopyType, QueueAssumption DEF Record
<1>2. p \in Poll /\ p.run = r /\ p.phase = "stamped"
  BY <1>1 DEF Poll, Phase
<1>3. c \in [Runs -> Record]
  BY RecordsType DEF TypeOK
<1>4. PollGoes(w, p, c)
  BY DEF PollGoes, Stamp, Handled, TypeOK
<1> HIDE DEF p, c
<1>5. Coherent(p, c)
  BY <1>1, <1>2, <1>3 DEF Coherent
<1> QED BY <1>4, <1>5, PollGoesOK, TypeParts

LEMMA VerifyOK ==
  ASSUME TypeOK, NEW w \in Workers, Verify(w)
  PROVE  PollsOK'
<1>1. PollsOK /\ poll[w] \in Poll /\ poll[w].run # None
  BY TypeParts DEF Verify, PollsOK, Coherent, At
<1>2. CASE Goes(w, "working") /\ copy' = [copy EXCEPT ![w] = Nothing]
  <2>1. Coherent([poll[w] EXCEPT !.phase = "working"], Nothing)
    BY <1>1, RecordsType DEF Coherent, Poll, Phase, Nothing
  <2> QED BY <1>1, <1>2, <2>1, PollGoesOK DEF PollGoes, Goes
<1>3. CASE /\ Todo(w) # {}
           /\ poll' = [poll EXCEPT ![w] = [Idle EXCEPT !.phase = "listed"]]
           /\ UNCHANGED copy
  <2>1. Coherent([Idle EXCEPT !.phase = "listed"], copy[w])
    BY <1>3, <1>1 DEF Coherent, Idle, Poll, Phase, PollsOK, Todo
  <2>2. PollGoes(w, [Idle EXCEPT !.phase = "listed"], copy[w])
    BY <1>1, <1>3 DEF PollGoes, PollsOK
  <2> QED BY <1>1, <2>1, <2>2, PollGoesOK
<1>4. CASE Quits(w)
  BY <1>1, <1>4, QuitsOK
<1> QED BY <1>2, <1>3, <1>4 DEF Verify

LEMMA SweepOneOK ==
  ASSUME TypeOK, NEW w \in Workers, NEW r \in Runs, SweepOne(w, r)
  PROVE  PollsOK'
<1> DEFINE c == [copy[w] EXCEPT ![r] = NoRecord]
<1>1. PollsOK /\ poll[w] \in Poll /\ poll[w].phase = "sweeping" /\ poll[w].run = None
  BY TypeParts DEF SweepOne, PollsOK, Coherent, At
<1>2. c \in [Runs -> Record]
  BY RecordsType DEF TypeOK
<1>3. copy' = [copy EXCEPT ![w] = c]
  BY DEF SweepOne, Handled, TypeOK
<1>4. CASE Todo(w) = {r}
  <2>1. Coherent(Idle, c)
    BY <1>2 DEF Coherent, Idle, Poll, Phase
  <2>2. poll' = [poll EXCEPT ![w] = Idle]
    BY <1>4 DEF SweepOne
  <2> QED BY <1>1, <1>3, <2>1, <2>2, PollGoesOK DEF PollGoes
<1>5. CASE Todo(w) # {r}
  <2>1. \E s \in Runs : c[s].status # "absent"
    <3>1. PICK s \in Todo(w) : s # r
      BY <1>5 DEF SweepOne
    <3>2. s \in Runs /\ c[s] = copy[w][s] /\ copy[w][s].status # "absent"
      BY <3>1 DEF Todo, TypeOK
    <3> QED BY <3>2
  <2>2. Coherent(poll[w], c)
    BY <1>1, <1>2, <2>1 DEF Coherent
  <2>3. poll' = [poll EXCEPT ![w] = poll[w]]
    BY <1>1, <1>5 DEF SweepOne, PollsOK
  <2> QED BY <1>1, <1>3, <2>2, <2>3, PollGoesOK DEF PollGoes
<1> QED BY <1>4, <1>5

LEMMA PollsNext ==
  ASSUME TypeOK, [Next]_vars
  PROVE  PollsOK'
<1>1. PollsOK
  BY TypeParts
<1>2. CASE UNCHANGED <<poll, copy>>
  BY <1>1, <1>2 DEF PollsOK, Coherent
<1>3. ASSUME NEW w \in Workers, JobStep(w) PROVE PollsOK'
  <2>1. CASE Verify(w)
    BY <2>1, VerifyOK
  <2>2. CASE Quits(w)
    BY <1>1, <2>2, QuitsOK
  <2>3. CASE AppendReply(w) \/ AppendErrs(w) \/ WorkErrs(w) \/ CompleteErrs(w)
    <3>1. PICK phase \in {"replied", "erred"} : Goes(w, phase) /\ UNCHANGED copy
      BY <2>3 DEF AppendReply, AppendErrs, WorkErrs, CompleteErrs
    <3>2. poll[w].run # None
      BY <1>1, <2>3 DEF AppendReply, AppendErrs, WorkErrs, CompleteErrs, PollsOK, Coherent, At
    <3> QED BY <1>1, <3>1, <3>2, GoesOK DEF Phase
  <2> QED BY <1>3, <2>1, <2>2, <2>3 DEF JobStep, Complete, Requeue, Fail
<1>4. ASSUME NEW w \in Workers, PollDies(w) PROVE PollsOK'
  BY <1>1, <1>4, QuitsOK DEF PollDies
<1>5. ASSUME NEW w \in Workers, NextPoll(w) PROVE PollsOK'
  <2>1. poll[w].run = None
    BY <1>1, <1>5 DEF NextPoll, PollsOK, Coherent, At
  <2> QED BY <1>1, <1>5, <2>1, GoesOK DEF NextPoll, Phase
<1>6. ASSUME NEW w \in Workers, NEW r \in Runs, StampErrs(w, r) PROVE PollsOK'
  BY <1>1, <1>6, QuitsOK DEF StampErrs
<1>7. ASSUME NEW r \in Runs,
             SubmissionStep(r) \/ BeatLands(r) \/ BeatLost(r) \/ GoesStale(r) \/ Purge(r)
      PROVE  UNCHANGED <<poll, copy>>
  BY <1>7 DEF SubmissionStep, SubmissionReads, SubmissionWrites, SubmissionLost,
              BeatLands, BeatLost, GoesStale, Purge
<1>8. ASSUME NEW w \in Workers, SendBeat(w) \/ EngineWrites(w)
      PROVE  UNCHANGED <<poll, copy>>
  BY <1>8 DEF SendBeat, EngineWrites
<1> QED
  BY <1>2, <1>3, <1>4, <1>5, <1>6, <1>7, <1>8, ListsOK, StampOK, SweepOneOK DEF Next, vars

LEMMA JobRun ==
  ASSUME TypeOK, NEW w \in Workers, HasJob(w) \/ At(w, "stamped")
  PROVE  poll[w].run \in Runs
BY DEF TypeOK, Poll

LEMMA StampWriteOK ==
  ASSUME TypeOK, NEW w \in Workers, NEW r \in Runs, StampWrite(w, r)
  PROVE  /\ rec' \in [Runs -> Record]
         /\ rec'[r] = Stamped(copy[w][r], w)
         /\ \A s \in Runs \ {r} : rec'[s] = rec[s]
         /\ claims' \in [Runs -> 0 .. MaxAttempts]
         /\ claims'[r] = Seen(claims[r] + 1)
         /\ \A s \in Runs \ {r} : claims'[s] = claims[s]
<1>1. Stamped(copy[w][r], w) \in Record
  BY CopyType, StampedType
<1>2. Seen(claims[r] + 1) \in 0 .. MaxAttempts
  BY QueueAssumption DEF Seen, TypeOK
<1> QED BY <1>1, <1>2, PersistEffect DEF StampWrite, TypeOK

LEMMA StoreNext ==
  ASSUME TypeOK, [Next]_vars
  PROVE  StoreOK'
<1>1. StoreOK
  BY TypeParts
<1>2. ASSUME NEW r \in Runs, SubmissionStep(r) PROVE StoreOK'
  BY <1>1, <1>2, RecordsType, PersistEffect, QueueAssumption
     DEF SubmissionStep, SubmissionReads, SubmissionWrites, SubmissionLost, StoreOK
<1>3. ASSUME NEW w \in Workers, JobStep(w) PROVE StoreOK'
  <2>1. HasJob(w) => poll[w].run \in Runs
    BY JobRun
  <2>2. CASE UNCHANGED rec
    BY <1>1, <1>3, <2>1, <2>2 DEF JobStep, Verify, AppendReply, AppendErrs, WorkErrs, Complete,
       CompleteErrs, Requeue, Fail, HasJob, At, StoreOK
  <2>3. CASE ~ UNCHANGED rec
    <3>1. /\ HasJob(w)
          /\ UNCHANGED <<reply, late, beats, claims>>
          /\ \E status \in {"success", "pending", "failed"}, result \in BOOLEAN :
               SetStatus(poll[w].run, status, result)
      BY <1>3, <2>3 DEF JobStep, Verify, AppendReply, AppendErrs, WorkErrs, Complete,
         CompleteErrs, Requeue, Fail, HasJob, At
    <3> QED BY <1>1, <2>1, <3>1, SetStatusEffect DEF StoreOK, Status
  <2> QED BY <2>2, <2>3
<1>4. ASSUME NEW w \in Workers, SendBeat(w) PROVE StoreOK'
  BY <1>1, <1>4, JobRun DEF SendBeat, StoreOK
<1>5. ASSUME NEW w \in Workers, EngineWrites(w) PROVE StoreOK'
  <2>1. rec' \in [Runs -> Record]
    BY <1>5, EngineEffect
  <2> QED BY <1>1, <1>5, <2>1 DEF EngineWrites, StoreOK
<1>6. ASSUME NEW w \in Workers, NEW r \in Runs, Stamp(w, r) \/ StampErrs(w, r)
      PROVE  StoreOK'
  <2>1. StampWrite(w, r)
    BY <1>6 DEF Stamp, StampErrs
  <2> QED BY <1>1, <1>6, <2>1, StampWriteOK DEF Stamp, StampErrs, StoreOK
<1>7. ASSUME NEW w \in Workers, NEW r \in Runs, SweepOne(w, r) PROVE StoreOK'
  <2>1. rec' \in [Runs -> Record]
    BY <1>7, CopyType, SweepEffect DEF SweepOne
  <2> QED BY <1>1, <1>7, <2>1 DEF SweepOne, StoreOK
<1>8. ASSUME NEW r \in Runs, BeatLands(r) PROVE StoreOK'
  BY <1>1, <1>8, SetStatusEffect DEF BeatLands, StoreOK, Status
<1>9. ASSUME NEW r \in Runs, BeatLost(r) PROVE StoreOK'
  BY <1>1, <1>9 DEF BeatLost, StoreOK
<1>10. ASSUME NEW r \in Runs, GoesStale(r) PROVE StoreOK'
  <2>1. [rec[r] EXCEPT !.fresh = FALSE] \in Record
    BY DEF TypeOK, Record
  <2>2. Persist(r, [rec[r] EXCEPT !.fresh = FALSE])
    BY <1>10 DEF GoesStale, Persist
  <2> QED BY <1>1, <1>10, <2>1, <2>2, PersistEffect DEF GoesStale, StoreOK
<1>11. ASSUME NEW r \in Runs, Purge(r) PROVE StoreOK'
  <2>1. rec' \in [Runs -> Record]
    BY <1>11, RecordsType, PersistEffect DEF Purge
  <2>2. claims' \in [Runs -> 0 .. MaxAttempts]
    BY <1>1, <1>11, QueueAssumption DEF Purge, StoreOK
  <2> QED BY <1>1, <1>11, <2>1, <2>2 DEF Purge, StoreOK
<1>12. CASE UNCHANGED <<rec, reply, late, beats, claims>>
  BY <1>1, <1>12 DEF StoreOK
<1>13. ASSUME NEW w \in Workers, ClaimLists(w) \/ SweepLists(w) \/ PollDies(w) \/ NextPoll(w)
       PROVE  UNCHANGED <<rec, reply, late, beats, claims>>
  BY <1>13 DEF ClaimLists, SweepLists, PollDies, NextPoll
<1> QED
  BY <1>2, <1>3, <1>4, <1>5, <1>6, <1>7, <1>8, <1>9, <1>10, <1>11, <1>12, <1>13
     DEF Next, vars

LEMMA TypeInit == Init => TypeOK
<1> SUFFICES ASSUME Init PROVE TypeOK
  OBVIOUS
<1>1. StoreOK
  BY RecordsType, QueueAssumption DEF Init, StoreOK, Nothing
<1>2. PollsOK
  BY RecordsType, QueueAssumption DEF Init, PollsOK, Coherent, Nothing, Idle, Poll, Phase
<1> QED BY <1>1, <1>2, TypeParts

LEMMA TypeNext == TypeOK /\ [Next]_vars => TypeOK'
BY TypeParts, StoreNext, PollsNext

\* Every reachable state is well typed: a poll has a run from its stamp to the
\* end of its work, and it is at a list only while there is something left on it.
THEOREM TypeCorrect == Spec => []TypeOK
BY TypeInit, TypeNext, PTL DEF Spec

-----------------------------------------------------------------------------
(* The attempts.  What any record, or any copy of one that may still be    *)
(* written back, says of its attempts was claimed, or all of them were.  A *)
(* record whose payload is unreadable counts for one, so that a poll at    *)
(* work, whose engine may make it so, must have claimed its run.           *)

Tried(record, r) == AttemptsOf(record) <= claims[r] \/ claims[r] = MaxAttempts

AttemptsCounted ==
  /\ \A r \in Runs : Tried(rec[r], r)
  /\ \A w \in Workers, r \in Runs : copy[w][r].status # "absent" => Tried(copy[w][r], r)
  /\ \A w \in Workers : poll[w].run # None => claims[poll[w].run] >= 1

\* A record that is the old one or counts no attempt more is counted.
LEMMA TriedStays ==
  ASSUME NEW r \in Runs, NEW old \in Record, NEW new \in Record, Tried(old, r),
         claims[r] \in 0 .. MaxAttempts, claims'[r] = claims[r],
         \/ new.attempt = old.attempt /\ new.input = old.input
         \/ new.attempt = old.attempt /\ claims[r] >= 1 /\ new.input \in {old.input, "unreadable"}
         \/ new.attempt = 0 /\ new.input # "unreadable"
         \/ new.attempt = old.attempt /\ old.input # "unreadable" /\ new.input # "unreadable"
  PROVE  AttemptsOf(new) <= claims'[r] \/ claims'[r] = MaxAttempts
BY QueueAssumption DEF Tried, AttemptsOf, Record

\* The claim counts one attempt more on both sides.
LEMMA TriedClaim ==
  ASSUME NEW r \in Runs, NEW old \in Record, NEW new \in Record, Tried(old, r),
         claims[r] \in 0 .. MaxAttempts, claims'[r] = Seen(claims[r] + 1),
         new.attempt = old.attempt + 1, new.input = old.input
  PROVE  /\ claims'[r] >= 1
         /\ AttemptsOf(new) <= claims'[r] \/ claims'[r] = MaxAttempts
BY QueueAssumption DEF Tried, AttemptsOf, Record, Seen

\* A larger count of claims keeps what was counted.
LEMMA TriedGrows ==
  ASSUME NEW r \in Runs, NEW record \in Record, Tried(record, r),
         claims[r] \in 0 .. MaxAttempts, claims'[r] \in {claims[r], Seen(claims[r] + 1)}
  PROVE  AttemptsOf(record) <= claims'[r] \/ claims'[r] = MaxAttempts
BY QueueAssumption DEF Tried, AttemptsOf, Record, Seen

\* What a step of the record of one run does to the count.
LEMMA CountedByRecord ==
  ASSUME TypeOK, TypeOK', AttemptsCounted, NEW r \in Runs,
         \A s \in Runs \ {r} : rec'[s] = rec[s] /\ claims'[s] = claims[s],
         claims'[r] \in {claims[r], Seen(claims[r] + 1)},
         AttemptsOf(rec'[r]) <= claims'[r] \/ claims'[r] = MaxAttempts
  PROVE  /\ \A s \in Runs : Tried(rec[s], s)'
         /\ \A w \in Workers, s \in Runs :
              copy[w][s].status # "absent"
                => AttemptsOf(copy[w][s]) <= claims'[s] \/ claims'[s] = MaxAttempts
         /\ \A w \in Workers : poll[w].run # None => claims'[poll[w].run] >= 1
<1>1. \A s \in Runs : claims[s] \in 0 .. MaxAttempts /\ rec[s] \in Record
  BY DEF TypeOK
<1>2. ASSUME NEW s \in Runs PROVE Tried(rec[s], s)'
  <2>1. CASE s = r
    BY <2>1 DEF Tried
  <2>2. CASE s # r
    BY <1>1, <1>2, <2>2 DEF AttemptsCounted, Tried
  <2> QED BY <2>1, <2>2
<1>3. ASSUME NEW w \in Workers, NEW s \in Runs, copy[w][s].status # "absent"
      PROVE  AttemptsOf(copy[w][s]) <= claims'[s] \/ claims'[s] = MaxAttempts
  <2>1. Tried(copy[w][s], s)
    BY <1>3 DEF AttemptsCounted
  <2>2. CASE s = r
    BY <1>1, <2>1, <2>2, CopyType, TriedGrows
  <2>3. CASE s # r
    BY <2>1, <2>3 DEF Tried
  <2> QED BY <2>2, <2>3
<1>4. ASSUME NEW w \in Workers, poll[w].run # None PROVE claims'[poll[w].run] >= 1
  <2>1. poll[w].run \in Runs /\ claims[poll[w].run] >= 1
    BY <1>4 DEF AttemptsCounted, TypeOK, Poll
  <2> QED BY <1>1, <2>1, QueueAssumption DEF Seen
<1> QED BY <1>2, <1>3, <1>4

\* When the polls keep their runs and copies, or lose them, the rest follows.
LEMMA CountedByPolls ==
  ASSUME \A s \in Runs : Tried(rec[s], s)',
         \A w \in Workers, s \in Runs :
           copy[w][s].status # "absent"
             => AttemptsOf(copy[w][s]) <= claims'[s] \/ claims'[s] = MaxAttempts,
         \A w \in Workers : poll[w].run # None => claims'[poll[w].run] >= 1,
         \A w \in Workers : poll'[w].run \in {None, poll[w].run},
         \A w \in Workers, s \in Runs :
           copy'[w][s] = copy[w][s] \/ copy'[w][s].status = "absent"
  PROVE  AttemptsCounted'
BY DEF AttemptsCounted, Tried

LEMMA CountedInit == Init => AttemptsCounted
<1> SUFFICES ASSUME Init PROVE AttemptsCounted
  OBVIOUS
<1>1. \A r \in Runs : rec[r] = NoRecord /\ claims[r] = 0
  BY DEF Init, Nothing
<1>2. \A w \in Workers : poll[w].run = None /\ \A r \in Runs : copy[w][r] = NoRecord
  BY DEF Init, Nothing, Idle
<1>3. AttemptsOf(NoRecord) = 0
  BY RecordsType DEF AttemptsOf
<1> QED BY <1>1, <1>2, <1>3, RecordsType DEF AttemptsCounted, Tried

\* What the steps of a poll do to the runs and copies the polls hold.
LEMMA PollsLose ==
  ASSUME TypeOK, [Next]_vars,
         \A w \in Workers : ~ ClaimLists(w) /\ ~ SweepLists(w),
         \A w \in Workers, r \in Runs : ~ Stamp(w, r)
  PROVE  /\ \A w \in Workers : poll'[w].run \in {None, poll[w].run}
         /\ \A w \in Workers, s \in Runs :
              copy'[w][s] = copy[w][s] \/ copy'[w][s].status = "absent"
<1> DEFINE Loses == /\ \A w \in Workers : poll'[w].run \in {None, poll[w].run}
                    /\ \A w \in Workers, s \in Runs :
                         copy'[w][s] = copy[w][s] \/ copy'[w][s].status = "absent"
<1>1. poll \in [Workers -> Poll] /\ copy \in [Workers -> [Runs -> Record]]
  BY DEF TypeOK
<1>2. CASE UNCHANGED <<poll, copy>>
  BY <1>2
<1>3. ASSUME NEW w \in Workers, Quits(w) \/ Dies(w) PROVE Loses
  <2>1. PICK p : p.run = None /\ poll' = [poll EXCEPT ![w] = p]
    BY <1>3 DEF Quits, Dies, Idle
  <2>2. copy' = [copy EXCEPT ![w] = Nothing]
    BY <1>3 DEF Quits, Dies
  <2> QED BY <1>1, <2>1, <2>2, RecordsType DEF Nothing
<1>4. ASSUME NEW w \in Workers, NEW phase \in Phase, Goes(w, phase),
             copy' \in {copy, [copy EXCEPT ![w] = Nothing]}
      PROVE  Loses
  BY <1>1, <1>4, RecordsType DEF Goes, Nothing, Poll
<1>5. ASSUME NEW w \in Workers, NEW r \in Runs, SweepOne(w, r) PROVE Loses
  BY <1>1, <1>5, RecordsType DEF SweepOne, Handled, Idle
<1>6. ASSUME NEW w \in Workers, Verify(w) PROVE Loses
  <2>1. CASE Goes(w, "working") /\ copy' = [copy EXCEPT ![w] = Nothing]
    BY <1>4, <2>1 DEF Phase
  <2>2. CASE poll' = [poll EXCEPT ![w] = [Idle EXCEPT !.phase = "listed"]] /\ UNCHANGED copy
    BY <1>1, <2>2 DEF Idle
  <2> QED BY <1>3, <1>6, <2>1, <2>2 DEF Verify
<1>7. ASSUME NEW w \in Workers, JobStep(w), ~ Verify(w), ~ Quits(w)
      PROVE  \E phase \in Phase : Goes(w, phase) /\ UNCHANGED copy
  BY <1>7 DEF JobStep, AppendReply, AppendErrs, WorkErrs, Complete, CompleteErrs, Requeue,
              Fail, Phase
<1>8. ASSUME NEW w \in Workers, NextPoll(w) PROVE Loses
  BY <1>4, <1>8 DEF NextPoll, Phase
<1>9. ASSUME NEW w \in Workers, PollDies(w) \/ \E r \in Runs : StampErrs(w, r) PROVE Loses
  BY <1>3, <1>9 DEF PollDies, StampErrs
<1>10. ASSUME NEW r \in Runs,
              SubmissionStep(r) \/ BeatLands(r) \/ BeatLost(r) \/ GoesStale(r) \/ Purge(r)
       PROVE  UNCHANGED <<poll, copy>>
  BY <1>10 DEF SubmissionStep, SubmissionReads, SubmissionWrites, SubmissionLost,
               BeatLands, BeatLost, GoesStale, Purge
<1>11. ASSUME NEW w \in Workers, SendBeat(w) \/ EngineWrites(w)
       PROVE  UNCHANGED <<poll, copy>>
  BY <1>11 DEF SendBeat, EngineWrites
<1>12. ASSUME NEW w \in Workers, JobStep(w) PROVE Loses
  BY <1>3, <1>4, <1>6, <1>7, <1>12
<1> HIDE DEF Loses
<1>13. Loses
  <2> USE DEF Loses
  <2>1. UNCHANGED <<poll, copy>> => Loses
    BY <1>2
  <2> HIDE DEF Loses
  <2> QED
    BY <2>1, <1>5, <1>8, <1>9, <1>10, <1>11, <1>12 DEF Next, vars
<1> QED BY <1>13 DEF Loses

LEMMA CountedNext == TypeOK /\ TypeOK' /\ AttemptsCounted /\ [Next]_vars => AttemptsCounted'
<1> SUFFICES ASSUME TypeOK, TypeOK', AttemptsCounted, [Next]_vars PROVE AttemptsCounted'
  OBVIOUS
<1> DEFINE RecordsStay == \A s \in Runs : Tried(rec[s], s)'
           CopiesStay == \A w \in Workers, s \in Runs :
             copy[w][s].status # "absent"
               => AttemptsOf(copy[w][s]) <= claims'[s] \/ claims'[s] = MaxAttempts
           PollsStay == \A w \in Workers : poll[w].run # None => claims'[poll[w].run] >= 1
           Lose == /\ \A w \in Workers : poll'[w].run \in {None, poll[w].run}
                   /\ \A w \in Workers, s \in Runs :
                        copy'[w][s] = copy[w][s] \/ copy'[w][s].status = "absent"
<1>0. ASSUME NEW s \in Runs
      PROVE  /\ rec[s] \in Record /\ rec'[s] \in Record
             /\ claims[s] \in 0 .. MaxAttempts /\ Tried(rec[s], s)
  BY DEF TypeOK, AttemptsCounted
\* The steps that leave the records as they are.
<1>1. ASSUME UNCHANGED <<rec, claims>>
      PROVE  RecordsStay /\ CopiesStay /\ PollsStay
  BY <1>1 DEF AttemptsCounted, Tried
\* The steps that write one record and count no claim.
<1>2. ASSUME NEW r \in Runs, Lose, claims' = claims,
             \A s \in Runs \ {r} : rec'[s] = rec[s],
             AttemptsOf(rec'[r]) <= claims'[r] \/ claims'[r] = MaxAttempts
      PROVE  AttemptsCounted'
  <2>1. RecordsStay /\ CopiesStay /\ PollsStay
    BY <1>2, CountedByRecord
  <2> QED BY <1>2, <2>1, CountedByPolls
<1>3. ASSUME NEW r \in Runs, NEW status \in Status, NEW result \in BOOLEAN,
             SetStatus(r, status, result), claims' = claims, Lose
      PROVE  AttemptsCounted'
  <2>1. /\ \A s \in Runs \ {r} : rec'[s] = rec[s]
        /\ rec'[r].attempt = rec[r].attempt /\ rec'[r].input = rec[r].input
    BY <1>3, SetStatusEffect
  <2>2. AttemptsOf(rec'[r]) <= claims'[r] \/ claims'[r] = MaxAttempts
    BY <1>0, <1>3, <2>1, TriedStays
  <2> QED BY <1>2, <1>3, <2>1, <2>2
<1>4. ASSUME NEW r \in Runs, SubmissionWrites(r), Lose PROVE AttemptsCounted'
  <2>1. rec'[r] = Pending /\ (\A s \in Runs \ {r} : rec'[s] = rec[s]) /\ claims' = claims
    BY <1>4, RecordsType, PersistEffect DEF SubmissionWrites
  <2>2. AttemptsOf(rec'[r]) <= claims'[r] \/ claims'[r] = MaxAttempts
    BY <1>0, <2>1, RecordsType, TriedStays
  <2> QED BY <1>2, <1>4, <2>1, <2>2
<1>5. ASSUME NEW w \in Workers, EngineWrites(w), Lose PROVE AttemptsCounted'
  <2> DEFINE r == poll[w].run
  <2>1. /\ r \in Runs /\ claims' = claims
        /\ \A s \in Runs \ {r} : rec'[s] = rec[s]
        /\ rec'[r].attempt = rec[r].attempt
        /\ rec'[r].input \in {rec[r].input, "unreadable"}
    BY <1>5, EngineEffect DEF EngineWrites
  <2>2. claims[r] >= 1
    BY <2>1, QueueAssumption DEF AttemptsCounted
  <2> HIDE DEF r
  <2>3. AttemptsOf(rec'[r]) <= claims'[r] \/ claims'[r] = MaxAttempts
    BY <1>0, <2>1, <2>2, TriedStays
  <2> QED BY <1>2, <1>5, <2>1, <2>3
<1>6. ASSUME NEW w \in Workers, NEW r \in Runs, SweepOne(w, r), Lose PROVE AttemptsCounted'
  <2>1. copy[w][r] \in Record /\ Tried(copy[w][r], r) /\ claims' = claims
    BY <1>6, CopyType DEF SweepOne, Todo, AttemptsCounted
  <2>2. SweepWrite(copy[w][r], r)
    BY <1>6 DEF SweepOne
  <2>3. CASE SetStatus(r, "failed", FALSE)
    BY <1>3, <1>6, <2>1, <2>3 DEF Status
  <2>4. CASE ~ SetStatus(r, "failed", FALSE)
    <3>1. /\ \A s \in Runs \ {r} : rec'[s] = rec[s]
          /\ rec'[r].input # "unreadable"
          /\ rec'[r].attempt = IF copy[w][r].input = "unreadable" THEN 0 ELSE copy[w][r].attempt
      BY <2>1, <2>2, <2>4, SweepEffect
    <3>2. AttemptsOf(rec'[r]) <= claims'[r] \/ claims'[r] = MaxAttempts
      BY <1>0, <2>1, <3>1, TriedStays
    <3> QED BY <1>2, <1>6, <2>1, <3>1, <3>2
  <2> QED BY <2>3, <2>4
<1>7. ASSUME NEW r \in Runs, GoesStale(r), Lose PROVE AttemptsCounted'
  <2>1. /\ claims' = claims
        /\ \A s \in Runs \ {r} : rec'[s] = rec[s]
        /\ rec'[r] = [rec[r] EXCEPT !.fresh = FALSE]
    BY <1>7 DEF GoesStale, TypeOK
  <2>2. rec'[r].attempt = rec[r].attempt /\ rec'[r].input = rec[r].input
    BY <1>0, <2>1 DEF Record
  <2>3. AttemptsOf(rec'[r]) <= claims'[r] \/ claims'[r] = MaxAttempts
    BY <1>0, <2>1, <2>2, TriedStays
  <2> QED BY <1>2, <1>7, <2>1, <2>3
\* A claim, and the deletion that starts the count again.
<1>8. ASSUME NEW w \in Workers, NEW r \in Runs, StampWrite(w, r)
      PROVE  RecordsStay /\ CopiesStay /\ PollsStay /\ claims'[r] >= 1
  <2>1. copy[w][r] \in Record /\ Tried(copy[w][r], r)
    BY <1>8, CopyType DEF StampWrite, Todo, AttemptsCounted
  <2>2. /\ rec'[r] = Stamped(copy[w][r], w)
        /\ claims'[r] = Seen(claims[r] + 1)
        /\ \A s \in Runs \ {r} : rec'[s] = rec[s] /\ claims'[s] = claims[s]
    BY <1>8, StampWriteOK
  <2>3. rec'[r].attempt = copy[w][r].attempt + 1 /\ rec'[r].input = copy[w][r].input
    BY <2>1, <2>2, StampedType
  <2>4. /\ claims'[r] >= 1
        /\ AttemptsOf(rec'[r]) <= claims'[r] \/ claims'[r] = MaxAttempts
    BY <1>0, <2>1, <2>2, <2>3, TriedClaim
  <2>5. RecordsStay /\ CopiesStay /\ PollsStay
    BY <2>2, <2>4, CountedByRecord
  <2> QED BY <2>4, <2>5
<1>9. ASSUME NEW w \in Workers, NEW r \in Runs, Stamp(w, r) PROVE AttemptsCounted'
  <2>1. RecordsStay /\ CopiesStay /\ PollsStay /\ claims'[r] >= 1
    BY <1>8, <1>9 DEF Stamp
  <2>2. /\ \A v \in Workers : poll'[v].run \in {poll[v].run, r}
        /\ \A v \in Workers, s \in Runs :
             copy'[v][s] = copy[v][s] \/ copy'[v][s].status = "absent"
    BY <1>9, RecordsType DEF Stamp, Handled, TypeOK
  <2> QED BY <2>1, <2>2 DEF AttemptsCounted, Tried
<1>10. ASSUME NEW w \in Workers, NEW r \in Runs, StampErrs(w, r), Lose PROVE AttemptsCounted'
  <2>1. RecordsStay /\ CopiesStay /\ PollsStay
    BY <1>8, <1>10 DEF StampErrs
  <2> QED BY <1>10, <2>1, CountedByPolls
<1>11. ASSUME NEW r \in Runs, Purge(r) PROVE AttemptsCounted'
  <2>1. /\ rec'[r] = NoRecord /\ claims'[r] = 0
        /\ \A s \in Runs \ {r} : rec'[s] = rec[s] /\ claims'[s] = claims[s]
        /\ UNCHANGED <<poll, copy>>
        /\ \A w \in Workers : poll[w].run # r /\ copy[w][r].status = "absent"
    BY <1>11, RecordsType, PersistEffect DEF Purge, Todo, TypeOK
  <2>2. AttemptsOf(NoRecord) = 0
    BY RecordsType DEF AttemptsOf
  <2>3. \A s \in Runs : Tried(rec[s], s)'
    BY <1>0, <2>1, <2>2 DEF Tried
  <2>4. \A w \in Workers : poll[w].run # None => poll[w].run \in Runs \ {r}
    BY <2>1 DEF TypeOK, Poll
  <2> QED BY <2>1, <2>3, <2>4 DEF AttemptsCounted, Tried
\* Which of these a step is.
<1>12. CASE Lose /\ UNCHANGED <<rec, claims>>
  BY <1>1, <1>12, CountedByPolls
<1>13. ASSUME NEW w \in Workers, ClaimLists(w) \/ SweepLists(w) PROVE AttemptsCounted'
  <2>1. UNCHANGED <<rec, claims>>
    BY <1>13 DEF ClaimLists, SweepLists
  <2>2. \A r \in Runs : copy'[w][r] = rec[r] \/ copy'[w][r].status = "absent"
    BY <1>13, RecordsType DEF ClaimLists, SweepLists, TypeOK
  <2>3. PICK phase, c : poll' = [poll EXCEPT ![w].phase = phase] /\ copy' = [copy EXCEPT ![w] = c]
    BY <1>13 DEF ClaimLists, SweepLists, Goes
  <2>4. \A v \in Workers : poll'[v].run = poll[v].run
    BY <2>3 DEF TypeOK, Poll
  <2>5. \A v \in Workers \ {w} : copy'[v] = copy[v]
    BY <2>3 DEF TypeOK
  <2> QED BY <1>1, <2>1, <2>2, <2>4, <2>5 DEF AttemptsCounted, Tried
<1>14. CASE Lose
  <2>1. ASSUME NEW r \in Runs, SubmissionStep(r) PROVE AttemptsCounted'
    BY <1>4, <1>12, <1>14, <2>1 DEF SubmissionStep, SubmissionReads, SubmissionLost
  <2>2. ASSUME NEW w \in Workers, JobStep(w) PROVE AttemptsCounted'
    <3>1. CASE UNCHANGED rec
      BY <1>12, <1>14, <2>2, <3>1 DEF JobStep, Verify, AppendReply, AppendErrs, WorkErrs, Complete,
         CompleteErrs, Requeue, Fail
    <3>2. CASE ~ UNCHANGED rec
      <4>1. /\ HasJob(w) /\ claims' = claims
            /\ \E status \in {"success", "pending", "failed"}, result \in BOOLEAN :
                 SetStatus(poll[w].run, status, result)
        BY <2>2, <3>2 DEF JobStep, Verify, AppendReply, AppendErrs, WorkErrs, Complete,
           CompleteErrs, Requeue, Fail, HasJob, At
      <4>2. PICK status \in Status, result \in BOOLEAN : SetStatus(poll[w].run, status, result)
        BY <4>1 DEF Status
      <4>3. poll[w].run \in Runs
        BY <4>1, JobRun
      <4> QED BY <1>3, <1>14, <4>1, <4>2, <4>3
    <3> QED BY <3>1, <3>2
  <2>3. ASSUME NEW w \in Workers, PollDies(w) \/ NextPoll(w) \/ SendBeat(w)
        PROVE  AttemptsCounted'
    BY <1>12, <1>14, <2>3 DEF PollDies, NextPoll, SendBeat
  <2>4. ASSUME NEW r \in Runs, BeatLands(r) \/ BeatLost(r) PROVE AttemptsCounted'
    BY <1>3, <1>12, <1>14, <2>4 DEF BeatLands, BeatLost, Status
  <2>5. CASE UNCHANGED vars
    BY <1>12, <1>14, <2>5 DEF vars
  <2> QED
    BY <1>5, <1>6, <1>7, <1>9, <1>10, <1>11, <1>13, <1>14,
       <2>1, <2>2, <2>3, <2>4, <2>5 DEF Next
<1>15. CASE /\ \A w \in Workers : ~ ClaimLists(w) /\ ~ SweepLists(w)
            /\ \A w \in Workers, r \in Runs : ~ Stamp(w, r)
  <2>1. Lose
    BY <1>15, PollsLose
  <2> QED BY <1>14, <2>1
<1> QED BY <1>9, <1>13, <1>15

\* Recovery gives a run up only after all its attempts were really claimed,
\* whatever copies, late writes and double claims came before.
THEOREM Attempts == Spec => EveryAttemptTried
<1> DEFINE GivesUpLate == \A r \in Runs : RecoveryGivesUp(r) => claims[r] = MaxAttempts
<1>1. ASSUME TypeOK, AttemptsCounted PROVE GivesUpLate
  <2> SUFFICES ASSUME NEW r \in Runs, NEW w \in Workers,
                      SweepOne(w, r), rec'[r].status = "failed"
               PROVE  claims[r] = MaxAttempts
    BY DEF RecoveryGivesUp
  <2>1. /\ SweepWrite(copy[w][r], r)
        /\ copy[w][r] \in Record
        /\ Tried(copy[w][r], r)
    BY <1>1, CopyType DEF SweepOne, Todo, AttemptsCounted
  <2>2. AttemptsOf(copy[w][r]) >= MaxAttempts
    BY <1>1, <2>1, SweepEffect
  <2>3. /\ AttemptsOf(copy[w][r]) \in Nat
        /\ claims[r] \in 0 .. MaxAttempts
        /\ MaxAttempts \in Nat
    BY <1>1, <2>1, QueueAssumption DEF AttemptsOf, Record, TypeOK
  <2> QED BY <2>1, <2>2, <2>3 DEF Tried
<1>2. TypeOK /\ AttemptsCounted /\ [Next]_vars => (TypeOK /\ AttemptsCounted)'
  BY TypeNext, CountedNext
<1>3. Init => TypeOK /\ AttemptsCounted
  BY TypeInit, CountedInit
<1>4. TypeOK /\ AttemptsCounted => [GivesUpLate]_vars
  BY <1>1
<1> QED BY <1>2, <1>3, <1>4, PTL DEF Spec, EveryAttemptTried

-----------------------------------------------------------------------------
(* The promise.  A result is written only by a poll that has stored its    *)
(* reply, but the copy of a record that holds one may be written back much *)
(* later: the invariant follows the result into the copies.                *)

ResultStored ==
  /\ \A r \in Runs : rec[r].result => r \in reply
  /\ \A w \in Workers, r \in Runs : copy[w][r].result => r \in reply
  /\ \A w \in Workers : At(w, "replied") => poll[w].run \in reply

\* What a step may do to the record of r.
Moves(r) ==
  /\ UNCHANGED reply
  /\ \A s \in Runs \ {r} : rec'[s] = rec[s]
  /\ rec'[r].result => r \in reply
  /\ rec'[r].status = "absent" => rec[r].status \in Terminal \cup {"absent"}
  /\ rec'[r].status \in Terminal => rec[r].status # "absent"

LEMMA SetStatusMoves ==
  ASSUME TypeOK, ResultStored, NEW r \in Runs, NEW status \in Status \ {"absent"},
         NEW result \in BOOLEAN, SetStatus(r, status, result), UNCHANGED reply,
         result => r \in reply
  PROVE  Moves(r)
<1>1. /\ \A s \in Runs \ {r} : rec'[s] = rec[s]
      /\ rec'[r].result => rec[r].result \/ result
      /\ rec[r].status = "absent" => rec'[r] = rec[r]
      /\ rec[r].status # "absent" => rec'[r].status = status
  BY SetStatusEffect
<1> QED BY <1>1 DEF Moves, ResultStored, Terminal

LEMMA JobMoves ==
  ASSUME TypeOK, ResultStored, NEW w \in Workers, JobStep(w)
  PROVE  UNCHANGED rec \/ Moves(poll[w].run)
<1> SUFFICES ASSUME ~ UNCHANGED rec PROVE Moves(poll[w].run)
  OBVIOUS
<1>1. /\ HasJob(w) /\ UNCHANGED reply
      /\ \E status \in {"success", "pending", "failed"}, result \in BOOLEAN :
           SetStatus(poll[w].run, status, result) /\ (result => At(w, "replied"))
  BY DEF JobStep, Verify, AppendReply, AppendErrs, WorkErrs, Complete, CompleteErrs, Requeue,
         Fail, HasJob, At
<1>2. PICK status \in Status \ {"absent"}, result \in BOOLEAN :
        SetStatus(poll[w].run, status, result) /\ (result => At(w, "replied"))
  BY <1>1 DEF Status
<1>3. poll[w].run \in Runs
  BY <1>1, JobRun
<1>4. result => poll[w].run \in reply
  BY <1>2 DEF ResultStored
<1> QED BY <1>1, <1>2, <1>3, <1>4, SetStatusMoves

LEMMA SweepMoves ==
  ASSUME TypeOK, ResultStored, NEW w \in Workers, NEW r \in Runs, SweepOne(w, r)
  PROVE  Moves(r)
<1>1. SweepWrite(copy[w][r], r) /\ UNCHANGED reply /\ copy[w][r] \in Record
  BY CopyType DEF SweepOne
<1>2. CASE SetStatus(r, "failed", FALSE)
  BY <1>1, <1>2, SetStatusMoves DEF Status
<1>3. CASE ~ SetStatus(r, "failed", FALSE)
  <2>1. /\ \A s \in Runs \ {r} : rec'[s] = rec[s]
        /\ rec'[r].status = "pending"
        /\ rec'[r].result = copy[w][r].result
    BY <1>1, <1>3, SweepEffect
  <2> QED BY <1>1, <2>1 DEF Moves, ResultStored, Terminal
<1> QED BY <1>2, <1>3

LEMMA StampMoves ==
  ASSUME TypeOK, ResultStored, NEW w \in Workers, NEW r \in Runs, StampWrite(w, r),
         UNCHANGED reply
  PROVE  Moves(r)
<1>1. /\ rec'[r] = Stamped(copy[w][r], w)
      /\ \A s \in Runs \ {r} : rec'[s] = rec[s]
  BY StampWriteOK
<1>2. rec'[r].status = "running" /\ rec'[r].result = copy[w][r].result
  BY <1>1, CopyType, StampedType
<1> QED BY <1>1, <1>2 DEF Moves, ResultStored, Terminal

\* Every step leaves the records as they are or moves one of them.
LEMMA RecordStep ==
  ASSUME TypeOK, ResultStored, [Next]_vars
  PROVE  UNCHANGED rec \/ \E r \in Runs : Moves(r)
<1> DEFINE Moved == UNCHANGED rec \/ \E r \in Runs : Moves(r)
<1>1. ASSUME NEW r \in Runs, SubmissionStep(r) PROVE Moved
  <2>1. CASE SubmissionWrites(r)
    <3>1. rec'[r] = Pending /\ (\A s \in Runs \ {r} : rec'[s] = rec[s]) /\ UNCHANGED reply
      BY <2>1, RecordsType, PersistEffect DEF SubmissionWrites
    <3>2. Moves(r)
      BY <3>1, RecordsType DEF Moves, Terminal
    <3> QED BY <3>2
  <2> QED BY <1>1, <2>1 DEF SubmissionStep, SubmissionReads, SubmissionLost
<1>2. ASSUME NEW w \in Workers, JobStep(w) PROVE Moved
  <2>1. CASE UNCHANGED rec
    BY <2>1
  <2>2. CASE ~ UNCHANGED rec
    <3>1. HasJob(w)
      BY <1>2, <2>2 DEF JobStep, Verify, AppendReply, AppendErrs, WorkErrs, Complete,
         CompleteErrs, Requeue, Fail, HasJob, At
    <3> QED BY <1>2, <2>2, <3>1, JobRun, JobMoves
  <2> QED BY <2>1, <2>2
<1>3. ASSUME NEW w \in Workers, EngineWrites(w) PROVE Moved
  <2>1. Moves(poll[w].run) /\ poll[w].run \in Runs
    BY <1>3, EngineEffect DEF EngineWrites, Moves
  <2> QED BY <2>1
<1>4. ASSUME NEW w \in Workers, NEW r \in Runs, Stamp(w, r) \/ StampErrs(w, r) PROVE Moved
  <2>1. Moves(r)
    BY <1>4, StampMoves DEF Stamp, StampErrs
  <2> QED BY <2>1
<1>5. ASSUME NEW w \in Workers, NEW r \in Runs, SweepOne(w, r) PROVE Moved
  <2>1. Moves(r)
    BY <1>5, SweepMoves
  <2> QED BY <2>1
<1>6. ASSUME NEW r \in Runs, BeatLands(r) PROVE Moved
  <2>1. Moves(r)
    BY <1>6, SetStatusMoves DEF BeatLands, Status
  <2> QED BY <2>1
<1>7. ASSUME NEW r \in Runs, GoesStale(r) PROVE Moved
  <2>1. /\ rec[r] \in Record /\ rec[r].status = "running" /\ UNCHANGED reply
        /\ rec'[r] = [rec[r] EXCEPT !.fresh = FALSE]
        /\ \A s \in Runs \ {r} : rec'[s] = rec[s]
    BY <1>7 DEF GoesStale, TypeOK
  <2>2. rec'[r].status = "running"
    BY <2>1 DEF Record
  <2>3. rec'[r].result = rec[r].result
    BY <2>1, Zenon DEF Record
  <2>4. Moves(r)
    BY <2>1, <2>2, <2>3 DEF Moves, ResultStored, Terminal
  <2> QED BY <2>4
<1>8. ASSUME NEW r \in Runs, Purge(r) PROVE Moved
  <2>1. /\ rec'[r] = NoRecord /\ UNCHANGED reply /\ rec[r].status \in Terminal
        /\ \A s \in Runs \ {r} : rec'[s] = rec[s]
    BY <1>8, RecordsType, PersistEffect DEF Purge
  <2>2. Moves(r)
    BY <2>1, RecordsType DEF Moves, Terminal
  <2> QED BY <2>2
<1>9. ASSUME NEW w \in Workers,
             \/ ClaimLists(w) \/ SweepLists(w) \/ PollDies(w) \/ NextPoll(w) \/ SendBeat(w)
      PROVE  UNCHANGED rec
  BY <1>9 DEF ClaimLists, SweepLists, PollDies, NextPoll, SendBeat
<1>10. ASSUME NEW r \in Runs, BeatLost(r) PROVE UNCHANGED rec
  BY <1>10 DEF BeatLost
<1>11. UNCHANGED vars => UNCHANGED rec
  BY DEF vars
<1>12. UNCHANGED rec => Moved
  OBVIOUS
<1> HIDE DEF Moved
<1>13. Moved
  BY <1>1, <1>2, <1>3, <1>4, <1>5, <1>6, <1>7, <1>8, <1>9, <1>10, <1>11, <1>12 DEF Next
<1> QED BY <1>13 DEF Moved

\* Replies are only added, a copy is one of before or of a record, and a poll
\* gets to its result with its reply stored.
LEMMA ReplyStep ==
  ASSUME TypeOK, TypeOK', [Next]_vars
  PROVE  /\ reply \subseteq reply'
         /\ \A w \in Workers, r \in Runs :
              copy'[w][r].result => copy[w][r].result \/ rec[r].result
         /\ \A w \in Workers :
              At(w, "replied")' => poll'[w].run \in reply'
                                   \/ (At(w, "replied") /\ poll'[w].run = poll[w].run)
<1> DEFINE Copies == \A w \in Workers, r \in Runs :
                       copy'[w][r].result => copy[w][r].result \/ rec[r].result
           Replied == \A w \in Workers :
                        At(w, "replied")' => poll'[w].run \in reply'
                                   \/ (At(w, "replied") /\ poll'[w].run = poll[w].run)
<1>1. poll \in [Workers -> Poll] /\ copy \in [Workers -> [Runs -> Record]]
  BY DEF TypeOK
<1>2. UNCHANGED poll => Replied
  BY DEF At
<1>3. ASSUME NEW w \in Workers, NEW p, poll' = [poll EXCEPT ![w] = p], p.phase # "replied"
      PROVE  Replied
  BY <1>1, <1>3 DEF At
<1>4. ASSUME NEW w \in Workers, NEW phase \in Phase \ {"replied"}, Goes(w, phase) PROVE Replied
  <2>1. [poll[w] EXCEPT !.phase = phase].phase = phase
    BY <1>1 DEF Poll
  <2> QED BY <1>3, <1>4, <2>1 DEF Goes
<1>5. ASSUME NEW w \in Workers, NEW r \in Runs, Handled(w, r) PROVE Copies
  BY <1>1, <1>5, RecordsType DEF Handled
<1>6. ASSUME NEW w \in Workers, copy' = [copy EXCEPT ![w] = Nothing] PROVE Copies
  BY <1>1, <1>6, RecordsType DEF Nothing
<1>7. ASSUME NEW w \in Workers, Quits(w) \/ Dies(w) PROVE Replied /\ Copies
  <2>1. PICK p : p.phase # "replied" /\ poll' = [poll EXCEPT ![w] = p]
    BY <1>7 DEF Quits, Dies, Idle
  <2> QED BY <1>3, <1>6, <1>7, <2>1 DEF Quits, Dies
<1>8. ASSUME NEW w \in Workers, Verify(w) PROVE Replied /\ Copies
  <2>1. CASE Goes(w, "working") /\ copy' = [copy EXCEPT ![w] = Nothing]
    BY <1>4, <1>6, <2>1 DEF Phase
  <2>2. CASE poll' = [poll EXCEPT ![w] = [Idle EXCEPT !.phase = "listed"]] /\ UNCHANGED copy
    <3>1. [Idle EXCEPT !.phase = "listed"].phase # "replied"
      BY DEF Idle
    <3> QED BY <1>3, <2>2, <3>1
  <2> QED BY <1>7, <1>8, <2>1, <2>2 DEF Verify
<1>9. ASSUME NEW w \in Workers, AppendReply(w) PROVE Replied /\ Copies
  <2>1. \A v \in Workers \ {w} : poll'[v] = poll[v]
    BY <1>1, <1>9 DEF AppendReply, Goes
  <2>2. poll'[w].run = poll[w].run
    BY <1>1, <1>9 DEF AppendReply, Goes, Poll
  <2> QED BY <1>9, <2>1, <2>2 DEF AppendReply, At
<1>10. ASSUME NEW w \in Workers, JobStep(w), ~ Verify(w), ~ AppendReply(w), ~ Quits(w)
       PROVE  Goes(w, "erred") /\ UNCHANGED copy
  BY <1>10 DEF JobStep, AppendErrs, WorkErrs, Complete, CompleteErrs, Requeue, Fail
<1>11. ASSUME NEW w \in Workers, JobStep(w) PROVE Replied /\ Copies
  BY <1>4, <1>7, <1>8, <1>9, <1>10, <1>11 DEF Phase
<1>12. ASSUME NEW w \in Workers, ClaimLists(w) \/ SweepLists(w) PROVE Replied /\ Copies
  <2>1. \A r \in Runs : copy'[w][r] = rec[r] \/ copy'[w][r] = NoRecord
    BY <1>1, <1>12 DEF ClaimLists, SweepLists
  <2>2. PICK c : copy' = [copy EXCEPT ![w] = c]
    BY <1>12 DEF ClaimLists, SweepLists
  <2>3. \A v \in Workers \ {w} : copy'[v] = copy[v]
    BY <1>1, <2>2
  <2>4. Replied
    BY <1>4, <1>12 DEF ClaimLists, SweepLists, Phase
  <2> QED BY <2>1, <2>3, <2>4, RecordsType
<1>13. ASSUME NEW w \in Workers, NEW r \in Runs, Stamp(w, r) \/ StampErrs(w, r)
       PROVE  Replied /\ Copies
  <2>1. CASE Stamp(w, r)
    <3> DEFINE p == [phase |-> "stamped", run |-> r, attempt |-> copy[w][r].attempt + 1,
                     empty |-> copy[w][r].input = "empty"]
    <3>1. p.phase # "replied" /\ poll' = [poll EXCEPT ![w] = p]
      BY <2>1 DEF Stamp
    <3> HIDE DEF p
    <3>2. Replied
      BY <1>3, <3>1
    <3>3. Copies
      BY <1>5, <2>1 DEF Stamp
    <3> QED BY <3>2, <3>3
  <2> QED BY <1>7, <1>13, <2>1 DEF StampErrs
<1>14. ASSUME NEW w \in Workers, NEW r \in Runs, SweepOne(w, r) PROVE Replied /\ Copies
  <2>1. Idle.phase # "replied"
    BY DEF Idle
  <2> QED BY <1>2, <1>3, <1>5, <1>14, <2>1 DEF SweepOne
<1>15. ASSUME NEW w \in Workers, PollDies(w) \/ NextPoll(w) PROVE Replied /\ Copies
  BY <1>4, <1>7, <1>15 DEF PollDies, NextPoll, Phase
<1>16. UNCHANGED <<poll, copy>> => Replied /\ Copies
  BY <1>2
<1>17. ASSUME NEW w \in Workers, SendBeat(w) \/ EngineWrites(w) PROVE UNCHANGED <<poll, copy>>
  BY <1>17 DEF SendBeat, EngineWrites
<1>18. ASSUME NEW r \in Runs,
              SubmissionStep(r) \/ BeatLands(r) \/ BeatLost(r) \/ GoesStale(r) \/ Purge(r)
       PROVE  UNCHANGED <<poll, copy>>
  BY <1>18 DEF SubmissionStep, SubmissionReads, SubmissionWrites, SubmissionLost,
               BeatLands, BeatLost, GoesStale, Purge
<1>19. UNCHANGED vars => UNCHANGED <<poll, copy>>
  BY DEF vars
<1> HIDE DEF Replied, Copies
<1>20. Replied /\ Copies
  BY <1>11, <1>12, <1>13, <1>14, <1>15, <1>16, <1>17, <1>18, <1>19 DEF Next
<1>21. reply \subseteq reply'
  BY DEF Next, vars, SubmissionStep, SubmissionReads, SubmissionWrites, SubmissionLost,
         JobStep, Verify, AppendReply, AppendErrs, WorkErrs, Complete, CompleteErrs, Requeue,
         Fail, ClaimLists, SweepLists, PollDies, NextPoll, SendBeat, EngineWrites, Stamp,
         StampErrs, SweepOne, BeatLands, BeatLost, GoesStale, Purge
<1> QED BY <1>20, <1>21 DEF Replied, Copies

LEMMA StoredInit == Init => ResultStored
BY RecordsType DEF Init, ResultStored, Nothing, Idle, At

LEMMA StoredNext == TypeOK /\ TypeOK' /\ ResultStored /\ [Next]_vars => ResultStored'
<1> SUFFICES ASSUME TypeOK, TypeOK', ResultStored, [Next]_vars PROVE ResultStored'
  OBVIOUS
<1>1. \A r \in Runs : rec'[r].result => r \in reply
  BY RecordStep DEF Moves, ResultStored
<1>2. reply \subseteq reply'
  BY ReplyStep
<1>3. \A w \in Workers, r \in Runs : copy'[w][r].result => r \in reply
  BY ReplyStep DEF ResultStored
<1>4. \A w \in Workers : At(w, "replied")' => poll'[w].run \in reply'
  BY <1>2, ReplyStep DEF ResultStored
<1> QED BY <1>1, <1>2, <1>3, <1>4 DEF ResultStored

Entry == [r \in Runs |-> EntryOf(rec[r])]
Replies == [r \in Runs |-> IF r \in reply THEN "reply" ELSE None]

AbstractStep == Promise!Next \/ UNCHANGED <<Replies, Entry>>

LEMMA MovesRefine ==
  ASSUME NEW r \in Runs, Moves(r), rec \in [Runs -> Record], rec' \in [Runs -> Record]
  PROVE  AbstractStep
<1> DEFINE old == EntryOf(rec[r])
           new == EntryOf(rec'[r])
<1>1. /\ Entry' = [Entry EXCEPT ![r] = new] /\ Entry[r] = old
      /\ Replies' = Replies /\ Entry \in [Runs -> {"idle", "done", "dropped", "owed"}]
  BY DEF Entry, Replies, Moves, EntryOf
<1>2. new = "done" => Replies[r] # None /\ old # "idle"
  BY QueueAssumption DEF EntryOf, IsAnswer, Moves, Terminal, Replies
<1>3. new = "dropped" => old # "idle"
  BY DEF EntryOf, IsAnswer, Moves, Terminal
<1>4. new = "idle" => old \in {"idle", "done", "dropped"}
  BY DEF EntryOf, Moves, Terminal
<1>5. /\ old \in {"idle", "done", "dropped", "owed"}
      /\ new \in {"idle", "done", "dropped", "owed"}
  BY DEF EntryOf
<1> HIDE DEF old, new
<1>6. CASE new = old
  <2>1. Entry' = Entry
    BY <1>1, <1>6
  <2> QED BY <1>1, <2>1 DEF AbstractStep
<1>7. CASE new # old /\ new = "owed"
  <2>1. Promise!Owe(r)
    BY <1>1, <1>5, <1>7 DEF Promise!Owe, Promise!Becomes, Entry, Replies
  <2> QED BY <2>1 DEF AbstractStep, Promise!Next
<1>8. CASE new = "done"
  <2>1. Promise!Finish(r)
    BY <1>1, <1>2, <1>8 DEF Promise!Finish, Promise!Becomes, Entry, Replies
  <2> QED BY <2>1 DEF AbstractStep, Promise!Next
<1>9. CASE new = "dropped"
  <2>1. Promise!Drop(r)
    BY <1>1, <1>3, <1>5, <1>9 DEF Promise!Drop, Promise!Becomes, Entry, Replies
  <2> QED BY <2>1 DEF AbstractStep, Promise!Next
<1>10. CASE new # old /\ new = "idle"
  <2>1. Promise!Forget(r)
    BY <1>1, <1>4, <1>10 DEF Promise!Forget, Promise!Becomes, Entry, Replies
  <2> QED BY <2>1 DEF AbstractStep, Promise!Next
<1> QED BY <1>5, <1>6, <1>7, <1>8, <1>9, <1>10

\* Only AppendReply and AppendErrs store a reply, one at most.
LEMMA RepliesGrow ==
  ASSUME TypeOK, [Next]_vars, UNCHANGED rec
  PROVE  UNCHANGED reply \/ \E r \in Runs : r \notin reply /\ reply' = reply \cup {r}
<1>1. ASSUME NEW w \in Workers, AppendReply(w) \/ AppendErrs(w)
      PROVE  UNCHANGED reply \/ \E r \in Runs : r \notin reply /\ reply' = reply \cup {r}
  <2>1. poll[w].run \in Runs /\ reply' \in {reply, reply \cup {poll[w].run}}
    BY <1>1, JobRun DEF AppendReply, AppendErrs, HasJob, At
  <2>2. CASE poll[w].run \in reply
    BY <2>1, <2>2
  <2>3. CASE poll[w].run \notin reply
    BY <2>1, <2>3
  <2> QED BY <2>2, <2>3
<1>2. CASE \A w \in Workers : ~ AppendReply(w) /\ ~ AppendErrs(w)
  BY <1>2 DEF Next, vars, SubmissionStep, SubmissionReads, SubmissionWrites, SubmissionLost,
         JobStep, Verify, WorkErrs, Complete, CompleteErrs, Requeue,
         Fail, ClaimLists, SweepLists, PollDies, NextPoll, SendBeat, EngineWrites, Stamp,
         StampErrs, SweepOne, BeatLands, BeatLost, GoesStale, Purge
<1> QED BY <1>1, <1>2

LEMMA StepRefines ==
  ASSUME TypeOK, TypeOK', ResultStored, [Next]_vars
  PROVE  AbstractStep
<1>1. CASE UNCHANGED rec /\ UNCHANGED reply
  BY <1>1 DEF AbstractStep, Entry, Replies
<1>2. ASSUME NEW r \in Runs, r \notin reply, reply' = reply \cup {r}, UNCHANGED rec
      PROVE  AbstractStep
  <2>1. Replies' = [Replies EXCEPT ![r] = "reply"] /\ Replies[r] = None
    BY <1>2 DEF Replies
  <2>2. Promise!Store(r, "reply")
    BY <1>2, <2>1 DEF Promise!Store, Replies
  <2> QED BY <2>2 DEF AbstractStep, Promise!Next
<1>3. ASSUME NEW r \in Runs, Moves(r) PROVE AbstractStep
  BY <1>3, MovesRefine DEF TypeOK
<1> QED BY <1>1, <1>2, <1>3, RecordStep, RepliesGrow

\* The queue implements the abstract promise: a run is reported as answered only
\* when its reply is stored, no reply is replaced, and only a decided run is
\* forgotten.
THEOREM Refinement == Spec => ImplementsOwedWrite
<1>1. Init => Promise!Init
  BY RecordsType DEF Init, Nothing, Promise!Init, EntryOf
<1>2. TypeOK /\ TypeOK' /\ ResultStored /\ [Next]_vars => [Promise!Next]_(Promise!vars)
  BY StepRefines DEF AbstractStep, Entry, Replies, Promise!vars
<1>3. TypeOK /\ ResultStored /\ [Next]_vars => (TypeOK /\ ResultStored)'
  BY TypeNext, StoredNext
<1>4. Init => TypeOK /\ ResultStored
  BY TypeInit, StoredInit
<1> QED BY <1>1, <1>2, <1>3, <1>4, PTL DEF Spec, ImplementsOwedWrite, Promise!Spec
=============================================================================
