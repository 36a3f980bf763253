---------------------------- MODULE TickPipeline ----------------------------
(***************************************************************************)
(* The worker between the market streams and the database: ticks are       *)
(* batched for 50 ms, the newest of each symbol waits in a buffer for the  *)
(* flush loop to write it to live_ticks, and all of them are aggregated to *)
(* one-minute bars, each written once to candles_1m when its minute ends.  *)
(*                                                                         *)
(* A tick has the number of its arrival, which is what "newer" means here: *)
(* the code trusts the streams to be in order.  Its timestamp is reduced   *)
(* to the minute, its mid to a small number.  A process may die at any     *)
(* time; its successor starts with empty memory.                           *)
(***************************************************************************)
EXTENDS Integers, SequencesExt

CONSTANTS
  Symbols,
  Minutes,   \* a set of numbers: the minutes timestamps fall into
  Mids,      \* a set of numbers: prices
  None,
  MaxTicks,  \* bound on arrivals
  Pushed,    \* Pushed[n]: what the n-th arrival may be
  MaxLives   \* bound on starts of the process

ASSUME PipelineAssumption ==
  /\ Minutes \subseteq Nat
  /\ Mids \subseteq Nat
  /\ MaxTicks \in Nat
  /\ Pushed \in [1 .. MaxTicks -> SUBSET [symbol : Symbols, minute : Minutes, mid : Mids]]
  /\ MaxLives \in Nat \ {0}

VARIABLES
  life,     \* where the process is between its start and its end
  lives,    \* starts so far
  arrived,  \* ticks so far
  batch,    \* pendingTicks
  buffer,   \* TickBuffer: the latest tick of a symbol since the last drain
  bar,      \* Candle1mAggregator: the open bar of a symbol
  timer,    \* flushTimer is set
  flight,   \* the upserts that have not returned, and what each writes
  stored,   \* live_ticks
  inserts,  \* closed bars whose insert has not returned
  candles,  \* candles_1m
  fed,      \* history: what each life fed to its buffer and aggregator
  dropped,  \* history: ticks of this life that arrived between a snapshot and its drain
  raced     \* history: the final flush of this life met a flush in flight

memory == <<batch, buffer, bar, timer, flight, inserts>>
history == <<fed, dropped, raced>>
vars == <<life, lives, arrived, memory, stored, candles, history>>

Numbers == 1 .. MaxTicks
Lives == 1 .. MaxLives
Tick == [n : Numbers, symbol : Symbols, minute : Minutes, mid : Mids]

\* life is the life whose ticks the bar is made of: history, read by no guard.
Bar == [symbol : Symbols, minute : Minutes, o : Mids, h : Mids, l : Mids, c : Mids,
        ticks : Nat \ {0}, life : Lives]

ASSUME NoneIsNothing == None \notin Tick \cup Bar

\* final: the consumers are stopped and the last flush is under way;  closed:
\* stop() has returned;  down: there is no process.
Life == {"running", "stopping", "final", "closed", "down"}

Empty == [s \in Symbols |-> None]
Flight == [by : {"loop", "stop"}, ticks : [Symbols -> Tick \cup {None}]]
InFlight(by) == \E f \in flight : f.by = by

TypeOK ==
  /\ life \in Life
  /\ lives \in Lives
  /\ arrived \in 0 .. MaxTicks
  /\ batch \in Seq(Tick)
  /\ buffer \in [Symbols -> Tick \cup {None}]
  /\ bar \in [Symbols -> Bar \cup {None}]
  /\ timer \in BOOLEAN
  /\ flight \subseteq Flight
  /\ InFlight("stop") => life = "final"
  /\ stored \in [Symbols -> Tick \cup {None}]
  /\ inserts \subseteq Bar
  /\ candles \in [Symbols \X Minutes -> Bar \cup {None}]
  /\ fed \in [Lives -> Seq(Tick)]
  /\ dropped \subseteq Tick
  /\ raced \in BOOLEAN

Init ==
  /\ life = "running" /\ lives = 1 /\ arrived = 0
  /\ batch = <<>> /\ buffer = Empty /\ bar = Empty
  /\ timer = TRUE /\ flight = {} /\ inserts = {}
  /\ stored = Empty
  /\ candles = [k \in Symbols \X Minutes |-> None]
  /\ fed = [v \in Lives |-> <<>>]
  /\ dropped = {} /\ raced = FALSE

-----------------------------------------------------------------------------
(* The aggregator, and what one tick of a batch does.  b is the open bar of *)
(* the tick's symbol.                                                      *)

OpenBar(t) ==
  [symbol |-> t.symbol, minute |-> t.minute, o |-> t.mid, h |-> t.mid, l |-> t.mid,
   c |-> t.mid, ticks |-> 1, life |-> lives]

Extended(b, t) ==
  [b EXCEPT !.h = IF t.mid > @ THEN t.mid ELSE @,
            !.l = IF t.mid < @ THEN t.mid ELSE @,
            !.c = t.mid,
            !.ticks = @ + 1]

\* A tick of an earlier minute is a rollover, too.
FaultyRollsOver(b, t) == b # None /\ t.minute # b.minute

\* A tick of a later minute closes the bar, whatever the gap.
RollsOver(b, t) == b # None /\ t.minute > b.minute

\* A stale tick is ignored.
Feed(b, t) ==
  IF b = None \/ RollsOver(b, t) THEN OpenBar(t)
  ELSE IF t.minute < b.minute THEN b ELSE Extended(b, t)

\* The tick takes its symbol's slot of the buffer and is fed to its bar.
Take(a, t) ==
  [buffer |-> [a.buffer EXCEPT ![t.symbol] = t],
   bar |-> [a.bar EXCEPT ![t.symbol] = Feed(@, t)],
   closed |-> a.closed \cup {b \in {a.bar[t.symbol]} : RollsOver(b, t)}]

Taken == FoldLeft(Take, [buffer |-> buffer, bar |-> bar, closed |-> {}], batch)

-----------------------------------------------------------------------------
(* The batch.                                                              *)

\* handleIncomingTick, while the consumers are connected or being stopped.
Arrive(t) ==
  /\ life \in {"running", "stopping"}
  /\ arrived < MaxTicks
  /\ arrived' = arrived + 1
  /\ t.n = arrived'
  /\ [symbol |-> t.symbol, minute |-> t.minute, mid |-> t.mid] \in Pushed[arrived']
  /\ batch' = Append(batch, t)
  /\ UNCHANGED <<life, lives, buffer, bar, timer, flight, inserts, stored, candles, history>>

\* What flushBatch does.
BatchFlushed ==
  /\ batch' = <<>>
  /\ buffer' = Taken.buffer
  /\ bar' = Taken.bar
  /\ inserts' = inserts \cup Taken.closed
  /\ fed' = [fed EXCEPT ![lives] = @ \o batch]

FlushBatch ==
  /\ life \in {"running", "stopping"}
  /\ batch # <<>>
  /\ BatchFlushed
  /\ UNCHANGED <<life, lives, arrived, timer, flight, stored, candles, dropped, raced>>

-----------------------------------------------------------------------------
(* The flush loop.                                                         *)

\* The UPSERT takes what it is given, newer or not.
Upserted(f) == [s \in Symbols |-> IF f.ticks[s] = None THEN stored[s] ELSE f.ticks[s]]

\* drain() clears every slot, also those filled since the snapshot.
Drained(f) ==
  /\ buffer' = Empty
  /\ dropped' = dropped \cup {buffer[s] : s \in {u \in Symbols : buffer[u] \notin {None, f.ticks[u]}}}

\* runSingleFlush finds something to write.  An empty buffer, or a flush still
\* in flight, only sets the timer again.
FlushStarts ==
  /\ life # "down"
  /\ timer
  /\ ~ InFlight("loop")
  /\ buffer # Empty
  /\ timer' = FALSE
  /\ flight' = flight \cup {[by |-> "loop", ticks |-> buffer]}
  /\ UNCHANGED <<life, lives, arrived, batch, buffer, bar, inserts, stored, candles, history>>

\* The timer is set again by finally, also when stop() has cleared it.
FlushReturns(f) ==
  /\ f.by = "loop"
  /\ timer' = TRUE
  /\ flight' = flight \ {f}
  /\ UNCHANGED <<life, lives, arrived, batch, bar, inserts, candles, fed, raced>>

FlushOK(f) ==
  /\ FlushReturns(f)
  /\ stored' = Upserted(f)
  /\ Drained(f)

\* The buffer is drained whatever became of the write.
FaultyFlushErrs(f) ==
  /\ FlushReturns(f)
  /\ stored' \in {stored, Upserted(f)}
  /\ Drained(f)

\* The rejection leaves the loop before it sets its timer.
DeadFlushErrs(f) ==
  /\ f.by = "loop"
  /\ flight' = flight \ {f}
  /\ stored' \in {stored, Upserted(f)}
  /\ UNCHANGED <<life, lives, arrived, batch, buffer, bar, timer, inserts, candles, history>>

FlushErrs(f) ==
  /\ FlushReturns(f)
  /\ stored' \in {stored, Upserted(f)}
  /\ UNCHANGED <<buffer, dropped>>

-----------------------------------------------------------------------------
(* The bars.  Each insert is on its own, ON CONFLICT DO NOTHING.           *)

CandleLands(b) ==
  /\ inserts' = inserts \ {b}
  /\ candles' = [candles EXCEPT ![<<b.symbol, b.minute>>] = IF @ = None THEN b ELSE @]
  /\ UNCHANGED <<life, lives, arrived, batch, buffer, bar, timer, flight, stored, history>>

\* flushClosedCandle throws: the failure is logged and the bar is gone.
CandleLost(b) ==
  /\ inserts' = inserts \ {b}
  /\ UNCHANGED <<life, lives, arrived, batch, buffer, bar, timer, flight, stored, candles, history>>

-----------------------------------------------------------------------------
(* stop(), death and restart.                                              *)

Stop ==
  /\ life = "running"
  /\ life' = "stopping"
  /\ timer' = FALSE
  /\ UNCHANGED <<lives, arrived, batch, buffer, bar, flight, inserts, stored, candles, history>>

\* closeAll: the open bars are emitted, too.
BarsClosed ==
  /\ bar' = Empty
  /\ inserts' = inserts \cup {bar[s] : s \in {u \in Symbols : bar[u] # None}}

\* The consumers have stopped.  The final write starts beside one in flight.
StopFlushes ==
  /\ life = "stopping"
  /\ batch # <<>> \/ buffer # Empty
  /\ BatchFlushed
  /\ life' = "final"
  /\ flight' = flight \cup {[by |-> "stop", ticks |-> buffer']}
  /\ raced' = (raced \/ InFlight("loop"))
  /\ UNCHANGED <<lives, arrived, timer, stored, candles, dropped>>

StopFindsNothing ==
  /\ life = "stopping"
  /\ batch = <<>> /\ buffer = Empty
  /\ BarsClosed
  /\ life' = "closed"
  /\ UNCHANGED <<lives, arrived, batch, buffer, timer, flight, stored, candles, history>>

\* stop() is over before its write.
FaultyCloses(f) ==
  /\ f.by = "stop"
  /\ life' = "closed"
  /\ BarsClosed
  /\ UNCHANGED <<lives, arrived, batch, timer, flight, candles, fed, raced>>

Closes(f) ==
  /\ f.by = "stop"
  /\ flight' = flight \ {f}
  /\ life' = "closed"
  /\ BarsClosed
  /\ UNCHANGED <<lives, arrived, batch, timer, candles, fed, raced>>

StopOK(f) ==
  /\ Closes(f)
  /\ stored' = Upserted(f)
  /\ Drained(f)

StopErrs(f) ==
  /\ Closes(f)
  /\ stored' \in {stored, Upserted(f)}
  /\ UNCHANGED <<buffer, dropped>>

\* The process ends, by itself or not: a write in flight may reach the
\* database without it.
Die ==
  /\ life # "down"
  /\ life' = "down"
  /\ batch' = <<>> /\ buffer' = Empty /\ bar' = Empty
  /\ timer' = FALSE /\ flight' = {} /\ inserts' = {}
  /\ stored' \in {stored} \cup {Upserted(f) : f \in flight}
  /\ dropped' = {} /\ raced' = FALSE
  /\ UNCHANGED <<lives, arrived, candles, fed>>

Restart ==
  /\ life = "down"
  /\ lives < MaxLives
  /\ lives' = lives + 1
  /\ life' = "running"
  /\ timer' = TRUE
  /\ UNCHANGED <<arrived, batch, buffer, bar, flight, inserts, stored, candles, history>>

-----------------------------------------------------------------------------
Next ==
  \/ \E t \in Tick : Arrive(t)
  \/ FlushBatch \/ FlushStarts
  \/ \E f \in flight : FlushOK(f) \/ FlushErrs(f) \/ StopOK(f) \/ StopErrs(f)
  \/ \E b \in inserts : CandleLands(b) \/ CandleLost(b)
  \/ Stop \/ StopFlushes \/ StopFindsNothing
  \/ Die \/ Restart

Spec == Init /\ [][Next]_vars

\* Timers fire, and a flush that is tried again and again succeeds in the end.
Fairness ==
  /\ WF_vars(FlushBatch)
  /\ WF_vars(FlushStarts)
  /\ SF_vars(\E f \in flight : FlushOK(f))

FairSpec == Spec /\ Fairness

-----------------------------------------------------------------------------
(* Properties.                                                             *)

\* No later tick has the symbol of the i-th.
IsNewest(ticks, i) ==
  \A j \in DOMAIN ticks : ticks[j].symbol = ticks[i].symbol => j <= i

\* "Ticks are never irretrievably lost on DB write failure": as long as the
\* process lives, the newest tick of a symbol it has fed is waiting in the
\* buffer or is stored, unless it came between a snapshot and its drain or the
\* final flush was overtaken by one in flight (runSingleFlush, stop).
TickRetained ==
  life # "down" /\ ~ raced =>
    \A i \in DOMAIN fed[lives] :
      LET t == fed[lives][i]
      IN  IsNewest(fed[lives], i) => t \in {buffer[t.symbol], stored[t.symbol]} \cup dropped

\* The ticks of a symbol and minute that count: those that came before one of
\* a later minute.
Counted(ticks, s, m) ==
  LET isCounted(i) ==
        /\ ticks[i].symbol = s /\ ticks[i].minute = m
        /\ \A j \in 1 .. i - 1 : ticks[j].symbol = s => ticks[j].minute <= m
  IN  {i \in DOMAIN ticks : isCounted(i)}

\* A bar is what its definition says of the ticks its process was fed.
Faithful(b) ==
  LET ticks == fed[b.life]
      those == Counted(ticks, b.symbol, b.minute)
      mids == {ticks[i].mid : i \in those}
  IN  /\ b.ticks = Cardinality(those)
      /\ b.o = ticks[Min(those)].mid
      /\ b.c = ticks[Max(those)].mid
      /\ b.h = Max(mids)
      /\ b.l = Min(mids)

\* Every bar on its way to candles_1m or in it is the open, high, low, close and
\* count of all the ticks one process was fed in that minute: none is added after
\* a bar is closed, none counted twice (feed, closeAll).
BarsAreFaithful ==
  /\ \A b \in inserts : Faithful(b)
  /\ \A k \in DOMAIN candles : candles[k] # None => Faithful(candles[k])

\* The flush loop survives its failures: what waits in the buffer of a running
\* process leaves it in the end, and TickRetained says how (scheduleFlush).
BufferIsFlushed ==
  \A s \in Symbols : (life = "running" /\ buffer[s] # None) ~> (life # "running" \/ buffer[s] = None)

=============================================================================
