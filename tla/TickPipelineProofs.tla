------------------------- MODULE TickPipelineProofs -------------------------
(***************************************************************************)
(* Theorems about the tick pipeline, for any symbols, minutes, prices,     *)
(* ticks and lives.                                                        *)
(*                                                                         *)
(* A batch is taken by a fold over it.  What a fold returns needs an       *)
(* induction along the batch; the one used here is the least number        *)
(* principle, which follows from the well-foundedness of < on Nat.         *)
(***************************************************************************)
EXTENDS TickPipeline, WellFoundedInduction, NaturalsInduction, FiniteSetTheorems, TLAPS

-----------------------------------------------------------------------------
(* Least and greatest numbers.                                             *)

Below == {p \in Nat \X Nat : p[1] < p[2]}

LEMMA BelowWF == IsWellFoundedOn(Below, Nat)
BY NatLessThanWellFounded DEF OpToRel, Below

LEMMA Least ==
  ASSUME NEW T, T \subseteq Nat, T # {}
  PROVE  \E x \in T : \A y \in T : x <= y
<1>1. PICK x \in T : \A y \in T : ~ (<<y, x>> \in Below)
  BY BelowWF, WFMin
<1>2. SUFFICES ASSUME NEW y \in T
               PROVE  x <= y
  OBVIOUS
<1>3. x \in Nat /\ y \in Nat
  OBVIOUS
<1>4. y < x => <<y, x>> \in Below
  BY <1>3 DEF Below
<1> QED BY <1>1, <1>3, <1>4

\* A set of numbers that reaches up to n holds its greatest and its least.
LEMMA MinMax ==
  ASSUME NEW n \in Nat, NEW T, T \subseteq 1 .. n, T # {}
  PROVE  /\ Max(T) \in T /\ \A y \in T : y <= Max(T)
         /\ Min(T) \in T /\ \A y \in T : Min(T) <= y
<1> DEFINE Bounds == {m \in Nat : \A y \in T : y <= m}
<1>1. PICK x \in Bounds : \A y \in Bounds : x <= y
  <2>1. n \in Bounds /\ Bounds \subseteq Nat
    OBVIOUS
  <2> QED BY <2>1, Least
<1>2. x \in T
  <2>1. ASSUME x \notin T
        PROVE  FALSE
    <3>1. PICK y \in T : TRUE
      OBVIOUS
    <3>2. y \in Nat /\ y >= 1 /\ y <= x
      OBVIOUS
    <3>3. \A z \in T : z <= x - 1
      BY <2>1
    <3>4. x - 1 \in Bounds
      BY <3>2, <3>3
    <3> QED BY <1>1, <3>4
  <2> QED BY <2>1
<1>3. \E m \in T : \A y \in T : m >= y
  BY <1>2
<1>4. \E m \in T : \A y \in T : m =< y
  <2>1. T \subseteq Nat
    OBVIOUS
  <2> QED BY <2>1, Least
<1>5. Max(T) \in T /\ \A y \in T : Max(T) >= y
  <2> HIDE DEF Bounds
  <2> QED BY <1>3 DEF Max
<1>6. Min(T) \in T /\ \A y \in T : Min(T) =< y
  BY <1>4 DEF Min
<1> QED BY <1>5, <1>6

-----------------------------------------------------------------------------
(* A fold over a batch, tick by tick.                                      *)

\* Everything the fold does on the way: the values it has for sets of indices.
IsFold(g, base, q, n) ==
  g = [T \in SUBSET (1 .. n) |->
         IF T = {} THEN base ELSE Take(g[T \ {Max(T)}], q[Max(T)])]

LEMMA FoldExtends ==
  ASSUME NEW base, NEW q, NEW n \in Nat, NEW g, IsFold(g, base, q, n)
  PROVE  \E h : IsFold(h, base, q, n + 1)
<1> DEFINE N == n + 1
           h == [T \in SUBSET (1 .. N) |->
                   IF N \in T THEN Take(g[T \ {N}], q[N]) ELSE g[T]]
<1>1. ASSUME NEW T \in SUBSET (1 .. N)
      PROVE  h[T] = IF T = {} THEN base ELSE Take(h[T \ {Max(T)}], q[Max(T)])
  <2>1. T \ {N} \in SUBSET (1 .. n)
    OBVIOUS
  <2>2. CASE N \in T
    <3>1. Max(T) = N
      <4>1. N \in Nat /\ T \subseteq 1 .. N /\ T # {}
        BY <2>2
      <4>2. Max(T) \in T /\ \A y \in T : y <= Max(T)
        BY <4>1, MinMax
      <4>3. Max(T) \in 1 .. N /\ N <= Max(T)
        BY <2>2, <4>2
      <4> QED BY <4>3
    <3>2. h[T \ {N}] = g[T \ {N}]
      BY <2>1
    <3> QED BY <2>2, <3>1, <3>2
  <2>3. CASE N \notin T
    <3>1. T \in SUBSET (1 .. n) /\ T \ {Max(T)} \in SUBSET (1 .. n)
      BY <2>1, <2>3
    <3>2. h[T] = g[T] /\ h[T \ {Max(T)}] = g[T \ {Max(T)}]
      BY <2>3, <3>1
    <3>3. g[T] = IF T = {} THEN base ELSE Take(g[T \ {Max(T)}], q[Max(T)])
      BY <3>1 DEF IsFold
    <3> QED BY <3>2, <3>3
  <2> QED BY <2>2, <2>3
<1>2. h = [T \in SUBSET (1 .. N) |-> h[T]]
  OBVIOUS
<1> HIDE DEF h
<1>3. h = [T \in SUBSET (1 .. N) |->
            IF T = {} THEN base ELSE Take(h[T \ {Max(T)}], q[Max(T)])]
  BY <1>1, <1>2
<1> QED BY <1>3 DEF IsFold

LEMMA FoldExists ==
  ASSUME NEW base, NEW q, NEW n \in Nat
  PROVE  \E g : IsFold(g, base, q, n)
<1> DEFINE Without == {m \in Nat : ~ \E g : IsFold(g, base, q, m)}
<1>1. SUFFICES ASSUME Without # {}
               PROVE  FALSE
  OBVIOUS
<1>2. PICK m \in Without : \A k \in Without : m <= k
  BY <1>1, Least
<1>3. CASE m = 0
  <2> DEFINE g == [T \in {{}} |-> base]
  <2>1. SUBSET (1 .. 0) = {{}}
    OBVIOUS
  <2>2. g = [T \in SUBSET (1 .. 0) |->
               IF T = {} THEN base ELSE Take(g[T \ {Max(T)}], q[Max(T)])]
    BY <2>1
  <2> HIDE DEF g
  <2>3. IsFold(g, base, q, 0)
    BY <2>2 DEF IsFold
  <2> QED BY <1>2, <1>3, <2>3
<1>4. CASE m # 0
  <2>1. m - 1 \in Nat /\ m - 1 \notin Without
    BY <1>2, <1>4
  <2>2. PICK g : IsFold(g, base, q, m - 1)
    BY <2>1
  <2>3. \E h : IsFold(h, base, q, (m - 1) + 1)
    BY <2>1, <2>2, FoldExtends
  <2> QED BY <1>2, <2>3
<1> QED BY <1>3, <1>4

\* The states a fold passes: e[k] after the first k ticks.
IsChain(e, base, q) ==
  /\ e[0] = base
  /\ \A k \in 1 .. Len(q) : e[k] = Take(e[k - 1], q[k])

LEMMA FoldIsChain ==
  ASSUME NEW base, NEW S, NEW q \in Seq(S)
  PROVE  \E e : IsChain(e, base, q) /\ FoldLeft(Take, base, q) = e[Len(q)]
<1> DEFINE G == CHOOSE g : g = [T \in SUBSET (DOMAIN q) |->
                  IF T = {} THEN base ELSE Take(g[T \ {Max(T)}], q[Max(T)])]
           n == Len(q)
           e == [k \in 0 .. n |-> G[1 .. k]]
<1>1. n \in Nat /\ DOMAIN q = 1 .. n
  OBVIOUS
<1>2. FoldLeft(Take, base, q) = G[1 .. n]
  BY <1>1 DEF FoldLeft, MapThenFoldSet
<1>3. IsFold(G, base, q, n)
  <2>1. G = CHOOSE g : IsFold(g, base, q, n)
    BY <1>1 DEF IsFold
  <2> HIDE DEF G
  <2> QED BY <1>1, <2>1, FoldExists
<1> HIDE DEF G
<1>4. G[{}] = base
  <2>1. {} \in SUBSET (1 .. n)
    OBVIOUS
  <2> QED BY <1>3, <2>1 DEF IsFold
<1>5. ASSUME NEW k \in 1 .. n
      PROVE  G[1 .. k] = Take(G[1 .. k - 1], q[k])
  <2>1. 1 .. k \in SUBSET (1 .. n) /\ 1 .. k # {}
    BY <1>1
  <2>2. Max(1 .. k) = k
    <3>1. k \in Nat /\ 1 .. k \subseteq 1 .. k /\ k \in 1 .. k
      BY <1>1
    <3>2. Max(1 .. k) \in 1 .. k /\ \A y \in 1 .. k : y <= Max(1 .. k)
      BY <2>1, <3>1, MinMax
    <3> QED BY <3>1, <3>2
  <2>3. (1 .. k) \ {k} = 1 .. k - 1
    OBVIOUS
  <2> QED BY <1>3, <2>1, <2>2, <2>3 DEF IsFold
<1>6. IsChain(e, base, q)
  <2>1. e[0] = base
    <3>1. 1 .. 0 = {}
      OBVIOUS
    <3> QED BY <1>1, <1>4, <3>1
  <2>2. \A k \in 1 .. n : e[k] = Take(e[k - 1], q[k])
    BY <1>1, <1>5
  <2> QED BY <2>1, <2>2 DEF IsChain
<1> QED BY <1>1, <1>2, <1>6

-----------------------------------------------------------------------------
(* Type correctness.                                                       *)

\* What the fold over a batch carries.
State == [buffer : [Symbols -> Tick \cup {None}], bar : [Symbols -> Bar \cup {None}],
          closed : SUBSET Bar]

LEMMA OpenBarType ==
  ASSUME lives \in Lives, NEW t \in Tick
  PROVE  OpenBar(t) \in Bar
BY DEF OpenBar, Tick, Bar

LEMMA ExtendedType ==
  ASSUME NEW b \in Bar, NEW t \in Tick
  PROVE  Extended(b, t) \in Bar
<1> DEFINE h == IF t.mid > b.h THEN t.mid ELSE b.h
           l == IF t.mid < b.l THEN t.mid ELSE b.l
<1>1. /\ t.mid \in Mids /\ b.h \in Mids /\ b.l \in Mids
      /\ b.ticks \in Nat \ {0}
  BY DEF Tick, Bar
<1>2. h \in Mids /\ l \in Mids /\ b.ticks + 1 \in Nat \ {0}
  BY <1>1
<1>3. Extended(b, t) = [b EXCEPT !.h = h, !.l = l, !.c = t.mid, !.ticks = b.ticks + 1]
  BY DEF Extended, Bar
<1> HIDE DEF h, l
<1> QED BY <1>1, <1>2, <1>3 DEF Bar

LEMMA FeedType ==
  ASSUME lives \in Lives, NEW b \in Bar \cup {None}, NEW t \in Tick
  PROVE  Feed(b, t) \in Bar
BY OpenBarType, ExtendedType DEF Feed, RollsOver

LEMMA TakeType ==
  ASSUME lives \in Lives, NEW a \in State, NEW t \in Tick
  PROVE  Take(a, t) \in State
<1>1. /\ a.buffer \in [Symbols -> Tick \cup {None}]
      /\ a.bar \in [Symbols -> Bar \cup {None}]
      /\ a.closed \subseteq Bar
      /\ t.symbol \in Symbols
  BY DEF State, Tick
<1>2. a.bar[t.symbol] \in Bar \cup {None}
  BY <1>1
<1>3. Feed(a.bar[t.symbol], t) \in Bar
  BY <1>2, FeedType
<1>4. {b \in {a.bar[t.symbol]} : RollsOver(b, t)} \subseteq Bar
  BY <1>2 DEF RollsOver
<1>5. [a.bar EXCEPT ![t.symbol] = Feed(@, t)] \in [Symbols -> Bar \cup {None}]
  BY <1>1, <1>3
<1>6. [a.buffer EXCEPT ![t.symbol] = t] \in [Symbols -> Tick \cup {None}]
  BY <1>1
<1> QED BY <1>1, <1>4, <1>5, <1>6 DEF Take, State

\* Every state a fold passes is typed.
LEMMA ChainType ==
  ASSUME lives \in Lives, NEW base \in State, NEW q \in Seq(Tick), NEW e,
         IsChain(e, base, q), NEW k \in 0 .. Len(q)
  PROVE  e[k] \in State
<1> DEFINE Wrong == {m \in 0 .. Len(q) : e[m] \notin State}
<1>1. SUFFICES ASSUME Wrong # {}
               PROVE  FALSE
  OBVIOUS
<1>2. PICK m \in Wrong : \A j \in Wrong : m <= j
  <2>1. Wrong \subseteq Nat
    OBVIOUS
  <2> QED BY <1>1, <2>1, Least
<1>3. m # 0
  BY <1>2 DEF IsChain
<1>4. /\ m - 1 \in 0 .. Len(q) /\ m - 1 \notin Wrong
      /\ m \in 1 .. Len(q) /\ q[m] \in Tick
  BY <1>2, <1>3
<1>5. e[m] = Take(e[m - 1], q[m])
  BY <1>4 DEF IsChain
<1>6. e[m - 1] \in State
  BY <1>4
<1> QED BY <1>2, <1>4, <1>5, <1>6, TakeType

\* The fold over the batch, from what the process has in memory.
Before == [buffer |-> buffer, bar |-> bar, closed |-> {}]

LEMMA BatchIsChain ==
  ASSUME TypeOK
  PROVE  /\ Before \in State
         /\ \E e : IsChain(e, Before, batch) /\ Taken = e[Len(batch)]
<1>1. Before \in State
  BY DEF Before, State, TypeOK
<1>2. batch \in Seq(Tick)
  BY DEF TypeOK
<1>3. Taken = FoldLeft(Take, Before, batch)
  BY DEF Taken, Before
<1> QED BY <1>1, <1>2, <1>3, FoldIsChain

LEMMA TakenType ==
  ASSUME TypeOK
  PROVE  Taken \in State
<1>1. PICK e : IsChain(e, Before, batch) /\ Taken = e[Len(batch)]
  BY BatchIsChain
<1>2. batch \in Seq(Tick) /\ lives \in Lives /\ Len(batch) \in 0 .. Len(batch)
  BY DEF TypeOK
<1> QED BY <1>1, <1>2, BatchIsChain, ChainType

LEMMA BatchFlushedType ==
  ASSUME TypeOK, BatchFlushed
  PROVE  /\ batch' \in Seq(Tick)
         /\ buffer' \in [Symbols -> Tick \cup {None}]
         /\ bar' \in [Symbols -> Bar \cup {None}]
         /\ inserts' \subseteq Bar
         /\ fed' \in [Lives -> Seq(Tick)]
<1>1. /\ Taken.buffer \in [Symbols -> Tick \cup {None}]
      /\ Taken.bar \in [Symbols -> Bar \cup {None}]
      /\ Taken.closed \subseteq Bar
  BY TakenType DEF State
<1>2. fed' \in [Lives -> Seq(Tick)]
  <2>1. fed[lives] \o batch \in Seq(Tick)
    BY DEF TypeOK
  <2>2. fed' = [fed EXCEPT ![lives] = fed[lives] \o batch]
    BY DEF BatchFlushed
  <2> QED BY <2>1, <2>2 DEF TypeOK
<1> QED BY <1>1, <1>2 DEF BatchFlushed, TypeOK

\* The loop and stop() have one write in flight each.
OneFlightEach == \A f, g \in flight : f.by = g.by => f = g

TypeInv == TypeOK /\ OneFlightEach

LEMMA UpsertedType ==
  ASSUME TypeOK, NEW f \in flight
  PROVE  Upserted(f) \in [Symbols -> Tick \cup {None}]
<1>1. f.ticks \in [Symbols -> Tick \cup {None}]
  BY DEF TypeOK, Flight
<1> QED BY <1>1 DEF TypeOK, Upserted

LEMMA DrainedType ==
  ASSUME TypeOK, NEW f \in flight, Drained(f)
  PROVE  /\ buffer' \in [Symbols -> Tick \cup {None}]
         /\ dropped' \subseteq Tick
BY DEF TypeOK, Drained, Empty

LEMMA BarsClosedType ==
  ASSUME TypeOK, BarsClosed
  PROVE  /\ bar' \in [Symbols -> Bar \cup {None}]
         /\ inserts' \subseteq Bar
BY DEF TypeOK, BarsClosed, Empty

LEMMA InitType == Init => TypeInv
<1> SUFFICES ASSUME Init
             PROVE  TypeInv
  OBVIOUS
<1> USE PipelineAssumption
<1>1. fed \in [Lives -> Seq(Tick)] /\ batch \in Seq(Tick)
  BY DEF Init
<1>2. lives \in Lives
  BY DEF Init, Lives
<1>3. candles \in [Symbols \X Minutes -> Bar \cup {None}]
  BY DEF Init
<1>4. /\ buffer \in [Symbols -> Tick \cup {None}]
      /\ stored \in [Symbols -> Tick \cup {None}]
      /\ bar \in [Symbols -> Bar \cup {None}]
  BY DEF Init, Empty
<1>5. life \in Life /\ arrived \in 0 .. MaxTicks
  BY DEF Init, Life
<1>6. timer \in BOOLEAN /\ raced \in BOOLEAN
  BY Zenon DEF Init
<1>7. flight = {} /\ inserts = {} /\ dropped = {}
  BY DEF Init
<1>8. OneFlightEach /\ ~ InFlight("stop")
  BY <1>7 DEF InFlight, OneFlightEach
<1> QED BY <1>1, <1>2, <1>3, <1>4, <1>5, <1>6, <1>7, <1>8 DEF TypeOK, TypeInv

LEMMA ArriveType ==
  ASSUME TypeInv, NEW t \in Tick, Arrive(t)
  PROVE  TypeInv'
<1>1. batch' \in Seq(Tick)
  BY DEF TypeInv, TypeOK, Arrive
<1>2. arrived' \in 0 .. MaxTicks
  BY PipelineAssumption DEF TypeInv, TypeOK, Arrive
<1> QED BY <1>1, <1>2 DEF TypeInv, TypeOK, Arrive, history, InFlight, OneFlightEach

LEMMA FlushBatchType ==
  ASSUME TypeInv, FlushBatch
  PROVE  TypeInv'
<1>1. /\ batch' \in Seq(Tick)
      /\ buffer' \in [Symbols -> Tick \cup {None}]
      /\ bar' \in [Symbols -> Bar \cup {None}]
      /\ inserts' \subseteq Bar
      /\ fed' \in [Lives -> Seq(Tick)]
  BY BatchFlushedType DEF TypeInv, FlushBatch
<1> QED BY <1>1 DEF TypeInv, TypeOK, FlushBatch, InFlight, OneFlightEach

LEMMA FlushStartsType ==
  ASSUME TypeInv, FlushStarts
  PROVE  TypeInv'
<1> DEFINE f == [by |-> "loop", ticks |-> buffer]
<1>1. f \in Flight /\ f.by = "loop" /\ flight' = flight \cup {f}
  BY DEF TypeInv, TypeOK, FlushStarts, Flight
<1> HIDE DEF f
<1>2. OneFlightEach'
  BY <1>1 DEF TypeInv, OneFlightEach, FlushStarts, InFlight
<1>3. InFlight("stop")' => life' = "final"
  BY <1>1 DEF TypeInv, TypeOK, FlushStarts, InFlight
<1>4. flight' \subseteq Flight
  BY <1>1 DEF TypeInv, TypeOK
<1> QED BY <1>2, <1>3, <1>4 DEF TypeInv, TypeOK, FlushStarts, history

LEMMA FlushReturnsType ==
  ASSUME TypeInv, NEW f \in flight, FlushOK(f) \/ FlushErrs(f)
  PROVE  TypeInv'
<1>1. /\ buffer' \in [Symbols -> Tick \cup {None}]
      /\ dropped' \subseteq Tick
  BY DrainedType DEF TypeInv, TypeOK, FlushOK, FlushErrs
<1>2. stored' \in [Symbols -> Tick \cup {None}]
  BY UpsertedType DEF TypeInv, TypeOK, FlushOK, FlushErrs
<1>3. FlushReturns(f)
  BY DEF FlushOK, FlushErrs
<1>4. OneFlightEach' /\ flight' \subseteq Flight /\ (InFlight("stop")' => life' = "final")
  BY <1>3 DEF TypeInv, TypeOK, OneFlightEach, InFlight, FlushReturns
<1> QED BY <1>1, <1>2, <1>3, <1>4 DEF TypeInv, TypeOK, FlushReturns

LEMMA StopReturnsType ==
  ASSUME TypeInv, NEW f \in flight, StopOK(f) \/ StopErrs(f)
  PROVE  TypeInv'
<1>1. /\ buffer' \in [Symbols -> Tick \cup {None}]
      /\ dropped' \subseteq Tick
  BY DrainedType DEF TypeInv, TypeOK, StopOK, StopErrs
<1>2. stored' \in [Symbols -> Tick \cup {None}]
  BY UpsertedType DEF TypeInv, TypeOK, StopOK, StopErrs
<1>3. Closes(f)
  BY DEF StopOK, StopErrs
<1>4. OneFlightEach' /\ flight' \subseteq Flight /\ ~ InFlight("stop")'
  BY <1>3 DEF TypeInv, TypeOK, OneFlightEach, InFlight, Closes
<1>5. bar' \in [Symbols -> Bar \cup {None}] /\ inserts' \subseteq Bar
  BY <1>3, BarsClosedType DEF TypeInv, Closes
<1> QED BY <1>1, <1>2, <1>3, <1>4, <1>5 DEF TypeInv, TypeOK, Closes, Life

LEMMA CandleType ==
  ASSUME TypeInv, NEW b \in inserts, CandleLands(b) \/ CandleLost(b)
  PROVE  TypeInv'
<1>1. b \in Bar /\ <<b.symbol, b.minute>> \in Symbols \X Minutes
  BY DEF TypeInv, TypeOK, Bar
<1>2. candles' \in [Symbols \X Minutes -> Bar \cup {None}]
  BY <1>1 DEF TypeInv, TypeOK, CandleLands, CandleLost, history
<1>3. inserts' \subseteq Bar
  BY DEF TypeInv, TypeOK, CandleLands, CandleLost
<1> QED BY <1>2, <1>3
    DEF TypeInv, TypeOK, OneFlightEach, CandleLands, CandleLost, InFlight, history

LEMMA StopFlushesType ==
  ASSUME TypeInv, StopFlushes
  PROVE  TypeInv'
<1>1. /\ batch' \in Seq(Tick)
      /\ buffer' \in [Symbols -> Tick \cup {None}]
      /\ bar' \in [Symbols -> Bar \cup {None}]
      /\ inserts' \subseteq Bar
      /\ fed' \in [Lives -> Seq(Tick)]
  BY BatchFlushedType DEF TypeInv, StopFlushes
<1> DEFINE f == [by |-> "stop", ticks |-> buffer']
<1>2. f \in Flight /\ f.by = "stop" /\ flight' = flight \cup {f}
  BY <1>1 DEF StopFlushes, Flight
<1> HIDE DEF f
<1>3. ~ InFlight("stop")
  BY DEF TypeInv, TypeOK, StopFlushes
<1>4. OneFlightEach'
  BY <1>2, <1>3 DEF TypeInv, OneFlightEach, InFlight
<1>5. flight' \subseteq Flight /\ raced' \in BOOLEAN /\ life' = "final"
  BY <1>2 DEF TypeInv, TypeOK, StopFlushes
<1> QED BY <1>1, <1>4, <1>5 DEF TypeInv, TypeOK, StopFlushes, Life

LEMMA StopType ==
  ASSUME TypeInv, Stop \/ StopFindsNothing
  PROVE  TypeInv'
<1>1. bar' \in [Symbols -> Bar \cup {None}] /\ inserts' \subseteq Bar
  BY BarsClosedType DEF TypeInv, TypeOK, Stop, StopFindsNothing
<1> QED BY <1>1
    DEF TypeInv, TypeOK, OneFlightEach, Stop, StopFindsNothing, InFlight, history, Life

LEMMA DieType ==
  ASSUME TypeInv, Die
  PROVE  TypeInv'
<1>1. stored' \in [Symbols -> Tick \cup {None}]
  BY UpsertedType DEF TypeInv, TypeOK, Die
<1>2. batch' \in Seq(Tick)
  BY DEF Die
<1>3. /\ buffer' \in [Symbols -> Tick \cup {None}]
      /\ bar' \in [Symbols -> Bar \cup {None}]
  BY DEF Die, Empty
<1> QED BY <1>1, <1>2, <1>3 DEF TypeInv, TypeOK, OneFlightEach, Die, InFlight, Life

LEMMA RestartType ==
  ASSUME TypeInv, Restart
  PROVE  TypeInv'
<1>1. lives' \in Lives
  BY PipelineAssumption DEF TypeInv, TypeOK, Restart, Lives
<1> QED BY <1>1 DEF TypeInv, TypeOK, OneFlightEach, Restart, InFlight, Life, history

LEMMA TypeStep == TypeInv /\ [Next]_vars => TypeInv'
<1> SUFFICES ASSUME TypeInv, [Next]_vars
             PROVE  TypeInv'
  OBVIOUS
<1>1. CASE UNCHANGED vars
  BY <1>1 DEF vars, memory, history, TypeInv, TypeOK, OneFlightEach, InFlight
<1>2. CASE \E t \in Tick : Arrive(t)
  BY <1>2, ArriveType
<1>3. CASE FlushBatch \/ FlushStarts
  BY <1>3, FlushBatchType, FlushStartsType
<1>4. CASE \E f \in flight : FlushOK(f) \/ FlushErrs(f) \/ StopOK(f) \/ StopErrs(f)
  BY <1>4, FlushReturnsType, StopReturnsType
<1>5. CASE \E b \in inserts : CandleLands(b) \/ CandleLost(b)
  BY <1>5, CandleType
<1>6. CASE Stop \/ StopFlushes \/ StopFindsNothing
  BY <1>6, StopType, StopFlushesType
<1>7. CASE Die \/ Restart
  BY <1>7, DieType, RestartType
<1> QED BY <1>1, <1>2, <1>3, <1>4, <1>5, <1>6, <1>7 DEF Next

LEMMA TypeInvHolds == Spec => []TypeInv
BY InitType, TypeStep, PTL DEF Spec

\* Every variable keeps its type, and stop() has a write in flight only while
\* it waits for it.
THEOREM TypeCorrect == Spec => []TypeOK
<1>1. TypeInv => TypeOK
  BY DEF TypeInv
<1> QED BY <1>1, TypeInvHolds, PTL

-----------------------------------------------------------------------------
(* The newest tick of a symbol.                                            *)

\* The newest tick of s, or nothing when there is none.
NewestIn(ticks, s) ==
  {ticks[i] : i \in {j \in DOMAIN ticks : ticks[j].symbol = s /\ IsNewest(ticks, j)}}

Newest(s) == NewestIn(fed[lives], s)

\* What the first k ticks of q hold of s: nothing, or t after everything else.
NoneOf(q, k, s) == \A i \in 1 .. k : q[i].symbol # s
IsLastOf(q, k, s, t) ==
  \E i \in 1 .. k : q[i] = t /\ t.symbol = s /\ \A j \in i + 1 .. k : q[j].symbol # s

\* What a slot of the buffer holds after k ticks of a batch.
SlotAfter(e, q, k, s) ==
  \/ NoneOf(q, k, s) /\ e[k].buffer[s] = e[0].buffer[s]
  \/ IsLastOf(q, k, s, e[k].buffer[s])

LEMMA SlotStep ==
  ASSUME lives \in Lives, NEW base \in State, NEW q \in Seq(Tick), NEW e,
         IsChain(e, base, q), NEW k \in 1 .. Len(q), NEW s \in Symbols,
         SlotAfter(e, q, k - 1, s)
  PROVE  SlotAfter(e, q, k, s)
<1>0. Len(q) \in Nat /\ k \in Nat /\ q[k] \in Tick
  OBVIOUS
<1>1. k - 1 \in 0 .. Len(q) /\ k \in Nat /\ q[k] \in Tick /\ q[k].symbol \in Symbols
  BY <1>0 DEF Tick
<1>2. e[k - 1].buffer \in [Symbols -> Tick \cup {None}]
  BY <1>1, ChainType DEF State
<1>3. e[k].buffer = [e[k - 1].buffer EXCEPT ![q[k].symbol] = q[k]]
  <2>1. e[k] = Take(e[k - 1], q[k])
    BY DEF IsChain
  <2> QED BY <2>1 DEF Take
<1>4. CASE q[k].symbol = s
  <2>1. e[k].buffer[s] = q[k]
    BY <1>2, <1>3, <1>4
  <2>2. \A j \in k + 1 .. k : q[j].symbol # s
    BY <1>1
  <2> QED BY <1>4, <2>1, <2>2 DEF SlotAfter, IsLastOf
<1>5. CASE q[k].symbol # s
  <2>1. e[k].buffer[s] = e[k - 1].buffer[s]
    BY <1>1, <1>2, <1>3, <1>5
  <2>2. ASSUME NoneOf(q, k - 1, s), e[k - 1].buffer[s] = e[0].buffer[s]
        PROVE  SlotAfter(e, q, k, s)
    BY <1>5, <2>1, <2>2 DEF SlotAfter, NoneOf
  <2>3. ASSUME IsLastOf(q, k - 1, s, e[k - 1].buffer[s])
        PROVE  SlotAfter(e, q, k, s)
    <3>1. PICK i \in 1 .. k - 1 : /\ q[i] = e[k - 1].buffer[s]
                                  /\ e[k - 1].buffer[s].symbol = s
                                  /\ \A j \in i + 1 .. k - 1 : q[j].symbol # s
      BY <2>3 DEF IsLastOf
    <3>2. i \in 1 .. k /\ \A j \in i + 1 .. k : q[j].symbol # s
      BY <1>1, <1>5, <3>1
    <3> QED BY <2>1, <3>1, <3>2 DEF SlotAfter, IsLastOf
  <2> QED BY <2>2, <2>3 DEF SlotAfter
<1> QED BY <1>4, <1>5

LEMMA ChainSlots ==
  ASSUME lives \in Lives, NEW base \in State, NEW q \in Seq(Tick), NEW e,
         IsChain(e, base, q), NEW k \in 0 .. Len(q), NEW s \in Symbols
  PROVE  SlotAfter(e, q, k, s)
<1> DEFINE Wrong == {m \in 0 .. Len(q) : ~ SlotAfter(e, q, m, s)}
<1>1. SUFFICES ASSUME Wrong # {}
               PROVE  FALSE
  OBVIOUS
<1>2. PICK m \in Wrong : \A j \in Wrong : m <= j
  <2>1. Wrong \subseteq Nat
    OBVIOUS
  <2> QED BY <1>1, <2>1, Least
<1>3. m # 0
  <2>1. SlotAfter(e, q, 0, s)
    BY DEF SlotAfter, NoneOf
  <2> QED BY <1>2, <2>1
<1>4. m - 1 \in 0 .. Len(q) /\ m - 1 \notin Wrong /\ m \in 1 .. Len(q)
  BY <1>2, <1>3
<1>5. SlotAfter(e, q, m - 1, s)
  BY <1>4
<1> QED BY <1>2, <1>4, <1>5, SlotStep

\* Ticks appended to others leave the newest one or replace it.
LEMMA NewestConcat ==
  ASSUME NEW p \in Seq(Tick), NEW q \in Seq(Tick), NEW s \in Symbols
  PROVE  /\ NoneOf(q, Len(q), s) => NewestIn(p \o q, s) = NewestIn(p, s)
         /\ \A t : IsLastOf(q, Len(q), s, t) => NewestIn(p \o q, s) = {t}
<1> DEFINE F == p \o q
<1>1. /\ Len(p) \in Nat /\ Len(q) \in Nat
      /\ DOMAIN p = 1 .. Len(p) /\ DOMAIN q = 1 .. Len(q)
      /\ DOMAIN F = 1 .. Len(p) + Len(q)
  OBVIOUS
<1>2. \A i \in 1 .. Len(p) : F[i] = p[i]
  OBVIOUS
<1>3. \A i \in 1 .. Len(q) : F[Len(p) + i] = q[i]
  OBVIOUS
<1>4. \A i \in DOMAIN F : i \notin DOMAIN p => i - Len(p) \in 1 .. Len(q) /\ F[i] = q[i - Len(p)]
  BY <1>1, <1>3
<1> HIDE DEF F
<1>5. ASSUME NoneOf(q, Len(q), s)
      PROVE  NewestIn(F, s) = NewestIn(p, s)
  <2>1. \A i \in DOMAIN F : F[i].symbol = s => i \in DOMAIN p
    BY <1>4, <1>5 DEF NoneOf
  <2>2. \A i \in DOMAIN p : i \in DOMAIN F
    BY <1>1
  <2>3. {j \in DOMAIN F : F[j].symbol = s /\ IsNewest(F, j)}
        = {j \in DOMAIN p : p[j].symbol = s /\ IsNewest(p, j)}
    BY <1>1, <1>2, <2>1, <2>2 DEF IsNewest
  <2> QED BY <1>1, <1>2, <2>3 DEF NewestIn
<1>6. ASSUME NEW t, IsLastOf(q, Len(q), s, t)
      PROVE  NewestIn(F, s) = {t}
  <2>1. PICK i \in 1 .. Len(q) : /\ q[i] = t /\ t.symbol = s
                                 /\ \A j \in i + 1 .. Len(q) : q[j].symbol # s
    BY <1>6 DEF IsLastOf
  <2> DEFINE n == Len(p) + i
  <2>2. n \in DOMAIN F /\ F[n] = t /\ F[n].symbol = s
    BY <1>1, <1>3, <2>1
  <2>3. \A j \in DOMAIN F : F[j].symbol = s => j <= n
    <3> SUFFICES ASSUME NEW j \in DOMAIN F, F[j].symbol = s, j > n
                 PROVE  FALSE
      BY <1>1
    <3>1. j \notin DOMAIN p /\ j \in Nat
      BY <1>1
    <3>2. j - Len(p) \in i + 1 .. Len(q) /\ F[j] = q[j - Len(p)]
      BY <1>1, <1>4, <3>1
    <3> QED BY <2>1, <3>2
  <2> HIDE DEF n
  <2>4. {j \in DOMAIN F : F[j].symbol = s /\ IsNewest(F, j)} = {n}
    BY <1>1, <2>2, <2>3 DEF IsNewest
  <2> QED BY <2>2, <2>4 DEF NewestIn
<1> QED BY <1>5, <1>6 DEF F

\* There is one newest tick at most.
LEMMA NewestUnique ==
  ASSUME NEW p \in Seq(Tick), NEW s, NEW t \in NewestIn(p, s)
  PROVE  NewestIn(p, s) = {t}
BY DEF NewestIn, IsNewest

LEMMA BatchFlushedNewest ==
  ASSUME TypeOK, BatchFlushed, lives' = lives, NEW s \in Symbols
  PROVE  \/ buffer'[s] = buffer[s] /\ Newest(s)' = Newest(s)
         \/ buffer'[s] \in Tick /\ Newest(s)' = {buffer'[s]}
<1>1. PICK e : IsChain(e, Before, batch) /\ Taken = e[Len(batch)]
  BY BatchIsChain
<1>2. lives \in Lives /\ batch \in Seq(Tick) /\ fed[lives] \in Seq(Tick)
  BY DEF TypeOK
<1>3. Before \in State /\ Len(batch) \in 0 .. Len(batch)
  BY <1>2, BatchIsChain
<1>4. SlotAfter(e, batch, Len(batch), s)
  BY <1>1, <1>2, <1>3, ChainSlots
<1>5. e[Len(batch)].buffer = buffer' /\ e[0].buffer = buffer
  BY <1>1 DEF BatchFlushed, IsChain, Before
<1>6. fed'[lives'] = fed[lives] \o batch
  BY <1>2 DEF BatchFlushed, TypeOK
<1>7. Newest(s)' = NewestIn(fed[lives] \o batch, s)
  BY <1>6 DEF Newest, NewestIn, IsNewest
<1>8. CASE NoneOf(batch, Len(batch), s) /\ buffer'[s] = buffer[s]
  BY <1>2, <1>7, <1>8, NewestConcat DEF Newest
<1>9. CASE IsLastOf(batch, Len(batch), s, buffer'[s])
  <2>1. buffer'[s] \in Tick
    BY <1>2, <1>9 DEF IsLastOf
  <2> QED BY <1>2, <1>7, <1>9, <2>1, NewestConcat
<1> QED BY <1>4, <1>5, <1>8, <1>9 DEF SlotAfter

-----------------------------------------------------------------------------
(* The newest tick is retained.                                            *)

BufferIsNewest == \A s \in Symbols : buffer[s] # None => buffer[s] \in Newest(s)

\* What is being written is in the buffer, too, or something newer is.
FlightsCovered ==
  life \in {"running", "stopping"} =>
    ~ raced /\ \A f \in flight, s \in Symbols : f.ticks[s] # None => buffer[s] # None

\* No tick comes any more: without the race, every write is of the newest.
FlightsNewest ==
  ~ raced /\ life \in {"final", "closed"} =>
    \A f \in flight, s \in Symbols : f.ticks[s] # None => f.ticks[s] \in Newest(s)

NewestRetained ==
  ~ raced /\ life # "down" =>
    \A s \in Symbols : Newest(s) \subseteq {buffer[s], stored[s]} \cup dropped

DownIsEmpty ==
  life = "down" => /\ flight = {} /\ buffer = Empty /\ bar = Empty /\ batch = <<>>
                   /\ inserts = {} /\ ~ raced

LaterUnfed == \A v \in Lives : v > lives => fed[v] = <<>>

RetainInv ==
  /\ BufferIsNewest /\ FlightsCovered /\ FlightsNewest /\ NewestRetained
  /\ DownIsEmpty /\ LaterUnfed

LEMMA InitRetain == Init => RetainInv
<1> SUFFICES ASSUME Init
             PROVE  RetainInv
  OBVIOUS
<1>1. lives = 1 /\ lives \in Lives /\ fed[lives] = <<>>
  BY PipelineAssumption DEF Init, Lives
<1>2. \A s : Newest(s) = {}
  BY <1>1 DEF Newest, NewestIn
<1>3. BufferIsNewest
  BY DEF Init, BufferIsNewest, Empty
<1>4. life = "running" /\ flight = {} /\ ~ raced
  BY Zenon DEF Init
<1>5. LaterUnfed
  BY DEF Init, LaterUnfed
<1> QED BY <1>2, <1>3, <1>4, <1>5
    DEF RetainInv, FlightsCovered, FlightsNewest, NewestRetained, DownIsEmpty

LEMMA NewestSame ==
  ASSUME fed' = fed, lives' = lives
  PROVE  \A s : Newest(s)' = Newest(s)
BY DEF Newest, NewestIn, IsNewest

\* Steps that leave the newest ticks, where they are and the stage of the
\* process alone.
LEMMA RetainSame ==
  ASSUME RetainInv, UNCHANGED <<life, lives, buffer, flight, stored, fed, dropped, raced>>,
         life # "down"
  PROVE  RetainInv'
<1>1. \A s : Newest(s)' = Newest(s)
  BY NewestSame
<1> QED BY <1>1
    DEF RetainInv, BufferIsNewest, FlightsCovered, FlightsNewest, NewestRetained,
        DownIsEmpty, LaterUnfed

LEMMA FedLater ==
  ASSUME TypeOK, RetainInv, BatchFlushed, lives' = lives
  PROVE  LaterUnfed'
BY DEF TypeOK, RetainInv, LaterUnfed, BatchFlushed, Lives

LEMMA FlushBatchRetain ==
  ASSUME TypeOK, RetainInv, FlushBatch
  PROVE  RetainInv'
<1>1. /\ BatchFlushed
      /\ UNCHANGED <<life, lives, flight, stored, dropped, raced>>
      /\ life \in {"running", "stopping"}
  BY DEF FlushBatch
<1>2. \A s \in Symbols : \/ buffer'[s] = buffer[s] /\ Newest(s)' = Newest(s)
                         \/ buffer'[s] \in Tick /\ Newest(s)' = {buffer'[s]}
  BY <1>1, BatchFlushedNewest
<1>3. BufferIsNewest'
  BY <1>2 DEF RetainInv, BufferIsNewest
<1>4. FlightsCovered'
  BY <1>1, <1>2, NoneIsNothing DEF RetainInv, FlightsCovered
<1>5. NewestRetained'
  BY <1>1, <1>2 DEF RetainInv, NewestRetained
<1>6. LaterUnfed'
  BY <1>1, FedLater
<1> QED BY <1>1, <1>3, <1>4, <1>5, <1>6 DEF RetainInv, FlightsNewest, DownIsEmpty

LEMMA FlushStartsRetain ==
  ASSUME TypeOK, RetainInv, FlushStarts
  PROVE  RetainInv'
<1> DEFINE f == [by |-> "loop", ticks |-> buffer]
<1>1. f.ticks = buffer /\ flight' = flight \cup {f}
  BY DEF FlushStarts
<1> HIDE DEF f
<1>2. UNCHANGED <<life, lives, buffer, stored, fed, dropped, raced>> /\ life # "down"
  BY DEF FlushStarts, history
<1>3. \A s : Newest(s)' = Newest(s)
  BY <1>2, NewestSame
<1>4. FlightsCovered'
  BY <1>1, <1>2 DEF RetainInv, FlightsCovered
<1>5. FlightsNewest'
  BY <1>1, <1>2, <1>3 DEF RetainInv, FlightsNewest, BufferIsNewest
<1> QED BY <1>2, <1>3, <1>4, <1>5
    DEF RetainInv, BufferIsNewest, NewestRetained, DownIsEmpty, LaterUnfed

\* A write returns: what it wrote or drained was the newest tick, or the newest
\* tick is in dropped.
LEMMA ReturnKeepsNewest ==
  ASSUME TypeOK, RetainInv, NEW f \in flight, ~ raced, life # "down",
         fed' = fed, lives' = lives,
         \/ stored' = Upserted(f) /\ Drained(f)
         \/ stored' \in {stored, Upserted(f)} /\ UNCHANGED <<buffer, dropped>>,
         NEW s \in Symbols
  PROVE  Newest(s)' \subseteq {buffer'[s], stored'[s]} \cup dropped'
<1>1. Newest(s)' = Newest(s)
  BY NewestSame
<1>2. SUFFICES ASSUME NEW t \in Newest(s)
               PROVE  t \in {buffer'[s], stored'[s]} \cup dropped'
  BY <1>1
<1>3. t \in {buffer[s], stored[s]} \cup dropped
  BY DEF RetainInv, NewestRetained
<1>4. Newest(s) = {t} /\ t \in Tick
  <2>1. fed[lives] \in Seq(Tick)
    BY DEF TypeOK
  <2>2. Newest(s) = {t}
    BY <2>1, NewestUnique DEF Newest
  <2>3. t \in Tick
    BY <2>1 DEF Newest, NewestIn
  <2> QED BY <2>2, <2>3
<1>5. t # None
  BY <1>4, NoneIsNothing
<1>6. life \in {"running", "stopping"} \/ life \in {"final", "closed"}
  BY DEF TypeOK, Life
<1>7. f.ticks[s] # None => f.ticks[s] = t \/ buffer[s] = t
  BY <1>4, <1>6 DEF RetainInv, FlightsCovered, FlightsNewest, BufferIsNewest
<1>8. Upserted(f)[s] = IF f.ticks[s] = None THEN stored[s] ELSE f.ticks[s]
  BY DEF Upserted
<1>9. CASE stored' = Upserted(f) /\ Drained(f)
  <2>1. buffer[s] = t => t = f.ticks[s] \/ t \in dropped'
    BY <1>5, <1>9 DEF Drained
  <2>2. dropped \subseteq dropped'
    BY <1>9 DEF Drained
  <2> QED BY <1>3, <1>5, <1>7, <1>8, <1>9, <2>1, <2>2
<1>10. CASE stored' \in {stored, Upserted(f)} /\ UNCHANGED <<buffer, dropped>>
  BY <1>3, <1>5, <1>7, <1>8, <1>10
<1> QED BY <1>9, <1>10

LEMMA FlushReturnsRetain ==
  ASSUME TypeInv, RetainInv, NEW f \in flight, FlushOK(f) \/ FlushErrs(f)
  PROVE  RetainInv'
<1>1. /\ UNCHANGED <<life, lives, fed, raced>> /\ flight' = flight \ {f} /\ f.by = "loop"
      /\ life # "down"
  BY DEF FlushOK, FlushErrs, FlushReturns, RetainInv, DownIsEmpty
<1>2. \A s : Newest(s)' = Newest(s)
  BY <1>1, NewestSame
<1>3. \/ stored' = Upserted(f) /\ Drained(f)
      \/ stored' \in {stored, Upserted(f)} /\ UNCHANGED <<buffer, dropped>>
  BY DEF FlushOK, FlushErrs
<1>4. NewestRetained'
  BY <1>1, <1>3, ReturnKeepsNewest DEF NewestRetained, TypeInv
<1>5. buffer' = buffer \/ buffer' = Empty
  BY <1>3 DEF Drained
<1>6. BufferIsNewest'
  BY <1>2, <1>5 DEF RetainInv, BufferIsNewest, Empty
<1>7. FlightsCovered'
  <2>1. CASE life \in {"running", "stopping"}
    <3>1. \A g \in flight : g.by = "loop"
      BY <2>1 DEF TypeInv, TypeOK, Flight, InFlight
    <3>2. flight' = {}
      BY <1>1, <3>1 DEF TypeInv, OneFlightEach
    <3> QED BY <1>1, <2>1, <3>2 DEF RetainInv, FlightsCovered
  <2> QED BY <1>1, <2>1 DEF FlightsCovered
<1>8. FlightsNewest'
  BY <1>1, <1>2 DEF RetainInv, FlightsNewest
<1>9. DownIsEmpty' /\ LaterUnfed'
  BY <1>1 DEF RetainInv, DownIsEmpty, LaterUnfed
<1> QED BY <1>4, <1>6, <1>7, <1>8, <1>9 DEF RetainInv

LEMMA StopReturnsRetain ==
  ASSUME TypeInv, RetainInv, NEW f \in flight, StopOK(f) \/ StopErrs(f)
  PROVE  RetainInv'
<1>1. /\ UNCHANGED <<lives, fed, raced>> /\ flight' = flight \ {f} /\ f.by = "stop"
      /\ life = "final" /\ life' = "closed"
  BY DEF StopOK, StopErrs, Closes, TypeInv, TypeOK, InFlight
<1>2. \A s : Newest(s)' = Newest(s)
  BY <1>1, NewestSame
<1>3. \/ stored' = Upserted(f) /\ Drained(f)
      \/ stored' \in {stored, Upserted(f)} /\ UNCHANGED <<buffer, dropped>>
  BY DEF StopOK, StopErrs
<1>4. NewestRetained'
  BY <1>1, <1>3, ReturnKeepsNewest DEF NewestRetained, TypeInv
<1>5. buffer' = buffer \/ buffer' = Empty
  BY <1>3 DEF Drained
<1>6. BufferIsNewest'
  BY <1>2, <1>5 DEF RetainInv, BufferIsNewest, Empty
<1>7. FlightsNewest'
  BY <1>1, <1>2 DEF RetainInv, FlightsNewest
<1>8. FlightsCovered' /\ DownIsEmpty' /\ LaterUnfed'
  BY <1>1 DEF RetainInv, FlightsCovered, DownIsEmpty, LaterUnfed
<1> QED BY <1>4, <1>6, <1>7, <1>8 DEF RetainInv

LEMMA StopFlushesRetain ==
  ASSUME TypeOK, RetainInv, StopFlushes
  PROVE  RetainInv'
<1> DEFINE f == [by |-> "stop", ticks |-> buffer']
<1>1. f.ticks = buffer' /\ flight' = flight \cup {f}
  BY DEF StopFlushes
<1> HIDE DEF f
<1>2. /\ BatchFlushed /\ UNCHANGED <<lives, stored, dropped>>
      /\ life = "stopping" /\ life' = "final"
  BY DEF StopFlushes
<1>3. raced' = (raced \/ InFlight("loop"))
  BY DEF StopFlushes
<1>4. \A s \in Symbols : \/ buffer'[s] = buffer[s] /\ Newest(s)' = Newest(s)
                         \/ buffer'[s] \in Tick /\ Newest(s)' = {buffer'[s]}
  BY <1>2, BatchFlushedNewest
<1>5. BufferIsNewest'
  BY <1>4 DEF RetainInv, BufferIsNewest
<1>6. ~ raced' => flight = {}
  <2>1. ASSUME ~ raced'
        PROVE  flight = {}
    <3>1. ~ InFlight("loop")
      BY <1>3, <2>1
    <3>2. ~ InFlight("stop")
      BY <1>2 DEF TypeOK
    <3> QED BY <3>1, <3>2 DEF TypeOK, Flight, InFlight
  <2> QED BY <2>1
<1>7. FlightsNewest'
  <2>1. ASSUME ~ raced', NEW g \in flight', NEW s \in Symbols, g.ticks[s] # None
        PROVE  g.ticks[s] \in Newest(s)'
    <3>1. g.ticks = buffer'
      BY <1>1, <1>6, <2>1
    <3> QED BY <1>5, <2>1, <3>1 DEF BufferIsNewest
  <2> QED BY <2>1 DEF FlightsNewest
<1>8. ~ raced
  BY <1>2 DEF RetainInv, FlightsCovered
<1>9. NewestRetained'
  <2>1. \A s \in Symbols : Newest(s) \subseteq {buffer[s], stored[s]} \cup dropped
    BY <1>2, <1>8 DEF RetainInv, NewestRetained
  <2> QED BY <1>2, <1>4, <2>1 DEF NewestRetained
<1>10. LaterUnfed'
  BY <1>2, FedLater
<1>11. FlightsCovered' /\ DownIsEmpty'
  BY <1>2 DEF FlightsCovered, DownIsEmpty
<1> QED BY <1>5, <1>7, <1>9, <1>10, <1>11 DEF RetainInv

LEMMA StopFindsNothingRetain ==
  ASSUME TypeOK, RetainInv, StopFindsNothing
  PROVE  RetainInv'
<1>1. /\ UNCHANGED <<lives, buffer, flight, stored, fed, dropped, raced>>
      /\ life = "stopping" /\ life' = "closed" /\ buffer = Empty
  BY DEF StopFindsNothing, history
<1>2. \A s : Newest(s)' = Newest(s)
  BY <1>1, NewestSame
<1>3. \A f \in flight, s \in Symbols : f.ticks[s] = None
  BY <1>1 DEF RetainInv, FlightsCovered, Empty
<1> QED BY <1>1, <1>2, <1>3
    DEF RetainInv, BufferIsNewest, FlightsCovered, FlightsNewest, NewestRetained,
        DownIsEmpty, LaterUnfed

LEMMA StopRetain ==
  ASSUME RetainInv, Stop
  PROVE  RetainInv'
<1>1. /\ UNCHANGED <<lives, buffer, flight, stored, fed, dropped, raced>>
      /\ life = "running" /\ life' = "stopping"
  BY DEF Stop, history
<1>2. \A s : Newest(s)' = Newest(s)
  BY <1>1, NewestSame
<1> QED BY <1>1, <1>2
    DEF RetainInv, BufferIsNewest, FlightsCovered, FlightsNewest, NewestRetained,
        DownIsEmpty, LaterUnfed

LEMMA DieRetain ==
  ASSUME RetainInv, Die
  PROVE  RetainInv'
<1>1. DownIsEmpty'
  <2>1. ~ raced'
    BY DEF Die
  <2> QED BY <2>1 DEF Die, DownIsEmpty, Empty
<1>2. BufferIsNewest'
  BY DEF Die, BufferIsNewest, Empty
<1>3. life' = "down" /\ LaterUnfed'
  BY DEF Die, RetainInv, LaterUnfed
<1> QED BY <1>1, <1>2, <1>3
    DEF RetainInv, FlightsCovered, FlightsNewest, NewestRetained

LEMMA RestartRetain ==
  ASSUME TypeOK, RetainInv, Restart
  PROVE  RetainInv'
<1>1. /\ life' = "running" /\ lives' = lives + 1 /\ lives' \in Lives /\ lives \in Nat
      /\ UNCHANGED <<buffer, flight, fed, raced>>
  BY PipelineAssumption DEF Restart, history, TypeOK, Lives
<1>2. fed'[lives'] = <<>>
  BY <1>1 DEF RetainInv, LaterUnfed
<1>3. \A s : Newest(s)' = {}
  BY <1>2 DEF Newest, NewestIn
<1>4. buffer' = Empty /\ flight' = {} /\ ~ raced'
  BY <1>1 DEF Restart, RetainInv, DownIsEmpty
<1>5. LaterUnfed'
  BY <1>1 DEF RetainInv, LaterUnfed, Lives
<1> QED BY <1>1, <1>3, <1>4, <1>5
    DEF RetainInv, BufferIsNewest, FlightsCovered, FlightsNewest, NewestRetained,
        DownIsEmpty, Empty

LEMMA RetainStep == TypeInv /\ RetainInv /\ [Next]_vars => RetainInv'
<1> SUFFICES ASSUME TypeInv, RetainInv, [Next]_vars
             PROVE  RetainInv'
  OBVIOUS
<1> USE DEF TypeInv
<1>1. CASE UNCHANGED vars
  <2>1. \A s : Newest(s)' = Newest(s)
    BY <1>1, NewestSame DEF vars, memory, history
  <2> QED BY <1>1, <2>1
      DEF vars, memory, history, RetainInv, BufferIsNewest, FlightsCovered, FlightsNewest,
          NewestRetained, DownIsEmpty, LaterUnfed
<1>2. CASE \E t \in Tick : Arrive(t)
  BY <1>2, RetainSame DEF Arrive, history
<1>3. CASE FlushBatch \/ FlushStarts
  BY <1>3, FlushBatchRetain, FlushStartsRetain
<1>4. CASE \E f \in flight : FlushOK(f) \/ FlushErrs(f) \/ StopOK(f) \/ StopErrs(f)
  BY <1>4, FlushReturnsRetain, StopReturnsRetain
<1>5. CASE \E b \in inserts : CandleLands(b) \/ CandleLost(b)
  <2>1. life # "down"
    BY <1>5 DEF RetainInv, DownIsEmpty
  <2> QED BY <1>5, <2>1, RetainSame DEF CandleLands, CandleLost, history
<1>6. CASE Stop \/ StopFlushes \/ StopFindsNothing
  BY <1>6, StopRetain, StopFlushesRetain, StopFindsNothingRetain
<1>7. CASE Die \/ Restart
  BY <1>7, DieRetain, RestartRetain
<1> QED BY <1>1, <1>2, <1>3, <1>4, <1>5, <1>6, <1>7 DEF Next

LEMMA RetainInvHolds == Spec => [](TypeInv /\ RetainInv)
<1>1. Init => TypeInv /\ RetainInv
  BY InitType, InitRetain
<1>2. TypeInv /\ RetainInv /\ [Next]_vars => (TypeInv /\ RetainInv)'
  BY TypeStep, RetainStep
<1> QED BY <1>1, <1>2, PTL DEF Spec

\* The newest tick of a symbol a live process was fed waits in the buffer or is
\* stored, or it came between a snapshot and its drain, or the final flush was
\* overtaken by one in flight.
THEOREM Retention == Spec => []TickRetained
<1>1. TypeInv /\ RetainInv => TickRetained
  <2> SUFFICES ASSUME TypeInv, RetainInv, life # "down", ~ raced, NEW i \in DOMAIN fed[lives],
                      IsNewest(fed[lives], i)
               PROVE  LET t == fed[lives][i]
                      IN  t \in {buffer[t.symbol], stored[t.symbol]} \cup dropped
    BY DEF TickRetained
  <2> DEFINE t == fed[lives][i]
  <2>1. t \in Tick /\ t.symbol \in Symbols
    <3>1. fed[lives] \in Seq(Tick)
      BY DEF TypeInv, TypeOK
    <3>2. t \in Tick
      BY <3>1
    <3> QED BY <3>2 DEF Tick
  <2>2. t \in Newest(t.symbol)
    BY DEF Newest, NewestIn
  <2> QED BY <2>1, <2>2 DEF RetainInv, NewestRetained
<1> QED BY <1>1, RetainInvHolds, PTL

-----------------------------------------------------------------------------
(* Bars and the ticks they are made of.                                    *)

\* The ticks that count for s and m among the first p.
CountedTo(ticks, p, s, m) ==
  {i \in 1 .. p :
     /\ ticks[i].symbol = s /\ ticks[i].minute = m
     /\ \A j \in 1 .. i - 1 : ticks[j].symbol = s => ticks[j].minute <= m}

\* b is what its definition says of the ticks with these indices.
Sums(b, ticks, those) ==
  /\ IsFiniteSet(those) /\ b.ticks = Cardinality(those)
  /\ \E i \in those : b.o = ticks[i].mid /\ \A j \in those : i <= j
  /\ \E i \in those : b.c = ticks[i].mid /\ \A j \in those : j <= i
  /\ \E i \in those : b.h = ticks[i].mid /\ \A j \in those : ticks[j].mid <= b.h
  /\ \E i \in those : b.l = ticks[i].mid /\ \A j \in those : b.l <= ticks[j].mid

IsBarOf(b, ticks, p) == Sums(b, ticks, CountedTo(ticks, p, b.symbol, b.minute))

\* No tick of s among the first p is of a minute after m.
NoneAfter(ticks, p, s, m) == \A i \in 1 .. p : ticks[i].symbol = s => ticks[i].minute <= m

LEMMA CountedNext ==
  ASSUME NEW F \in Seq(Tick), NEW p \in Nat, p + 1 \in 1 .. Len(F), NEW s, NEW m
  PROVE  CountedTo(F, p + 1, s, m)
           = IF F[p + 1].symbol = s /\ F[p + 1].minute = m /\ NoneAfter(F, p, s, m)
             THEN CountedTo(F, p, s, m) \cup {p + 1}
             ELSE CountedTo(F, p, s, m)
<1>1. 1 .. p + 1 = (1 .. p) \cup {p + 1} /\ (p + 1) - 1 = p
  OBVIOUS
<1> QED BY <1>1 DEF CountedTo, NoneAfter

\* A tick that does not count leaves the bar what it is.
LEMMA BarSkips ==
  ASSUME NEW F \in Seq(Tick), NEW p \in Nat, p + 1 \in 1 .. Len(F), NEW b,
         IsBarOf(b, F, p),
         \/ F[p + 1].symbol # b.symbol \/ F[p + 1].minute # b.minute
         \/ ~ NoneAfter(F, p, b.symbol, b.minute)
  PROVE  IsBarOf(b, F, p + 1)
<1>1. CountedTo(F, p + 1, b.symbol, b.minute) = CountedTo(F, p, b.symbol, b.minute)
  BY CountedNext
<1> QED BY <1>1 DEF IsBarOf

LEMMA BarExtends ==
  ASSUME NEW F \in Seq(Tick), NEW p \in Nat, p + 1 \in 1 .. Len(F), NEW b \in Bar,
         IsBarOf(b, F, p), F[p + 1].symbol = b.symbol, F[p + 1].minute = b.minute,
         NoneAfter(F, p, b.symbol, b.minute)
  PROVE  IsBarOf(Extended(b, F[p + 1]), F, p + 1)
<1> DEFINE t == F[p + 1]
           those == CountedTo(F, p, b.symbol, b.minute)
           b2 == Extended(b, t)
<1>1. t \in Tick /\ t.mid \in Nat /\ b.h \in Nat /\ b.l \in Nat /\ b.ticks \in Nat
  <2>1. t \in Tick
    OBVIOUS
  <2> QED BY <2>1, PipelineAssumption DEF Tick, Bar
<1>2. /\ b2.symbol = b.symbol /\ b2.minute = b.minute /\ b2.o = b.o
      /\ b2.c = t.mid /\ b2.ticks = b.ticks + 1
      /\ b2.h = (IF t.mid > b.h THEN t.mid ELSE b.h)
      /\ b2.l = (IF t.mid < b.l THEN t.mid ELSE b.l)
  BY DEF Extended, Bar
<1>3. CountedTo(F, p + 1, b.symbol, b.minute) = those \cup {p + 1}
  BY CountedNext
<1>4. Sums(b, F, those)
  BY DEF IsBarOf
<1>5. those \subseteq 1 .. p
  BY DEF CountedTo
<1>6. \A i \in those : F[i].mid \in Nat
  <2>1. \A i \in those : F[i] \in Tick
    BY <1>5
  <2> QED BY <2>1, PipelineAssumption DEF Tick
<1> HIDE DEF b2, those
<1>7. IsFiniteSet(those \cup {p + 1}) /\ b2.ticks = Cardinality(those \cup {p + 1})
  <2>1. IsFiniteSet(those) /\ b.ticks = Cardinality(those) /\ p + 1 \notin those
    BY <1>4, <1>5 DEF Sums
  <2> QED BY <1>2, <2>1, FS_AddElement
<1>8. \E i \in those \cup {p + 1} : b2.o = F[i].mid /\ \A j \in those \cup {p + 1} : i <= j
  <2>1. PICK i \in those : b.o = F[i].mid /\ \A j \in those : i <= j
    BY <1>4 DEF Sums
  <2> QED BY <1>2, <1>5, <2>1
<1>9. \E i \in those \cup {p + 1} : b2.c = F[i].mid /\ \A j \in those \cup {p + 1} : j <= i
  <2>1. \A j \in those \cup {p + 1} : j <= p + 1
    BY <1>5
  <2> QED BY <1>2, <2>1
<1>10. \E i \in those \cup {p + 1} : b2.h = F[i].mid /\ \A j \in those \cup {p + 1} : F[j].mid <= b2.h
  <2>1. PICK i \in those : b.h = F[i].mid /\ \A j \in those : F[j].mid <= b.h
    BY <1>4 DEF Sums
  <2>2. CASE t.mid > b.h
    <3>1. \A j \in those : F[j].mid <= t.mid
      BY <1>1, <1>6, <2>1, <2>2
    <3> QED BY <1>1, <1>2, <2>2, <3>1
  <2>3. CASE ~ t.mid > b.h
    BY <1>1, <1>2, <2>1, <2>3
  <2> QED BY <2>2, <2>3
<1>11. \E i \in those \cup {p + 1} : b2.l = F[i].mid /\ \A j \in those \cup {p + 1} : b2.l <= F[j].mid
  <2>1. PICK i \in those : b.l = F[i].mid /\ \A j \in those : b.l <= F[j].mid
    BY <1>4 DEF Sums
  <2>2. CASE t.mid < b.l
    <3>1. \A j \in those : t.mid <= F[j].mid
      BY <1>1, <1>6, <2>1, <2>2
    <3> QED BY <1>1, <1>2, <2>2, <3>1
  <2>3. CASE ~ t.mid < b.l
    BY <1>1, <1>2, <2>1, <2>3
  <2> QED BY <2>2, <2>3
<1>12. Sums(b2, F, those \cup {p + 1})
  BY <1>7, <1>8, <1>9, <1>10, <1>11 DEF Sums
<1> QED BY <1>2, <1>3, <1>12 DEF IsBarOf, b2

LEMMA BarOpens ==
  ASSUME NEW F \in Seq(Tick), NEW p \in Nat, p + 1 \in 1 .. Len(F),
         \A i \in 1 .. p : F[i].symbol = F[p + 1].symbol => F[i].minute < F[p + 1].minute
  PROVE  IsBarOf(OpenBar(F[p + 1]), F, p + 1)
<1> DEFINE t == F[p + 1]
           b == OpenBar(t)
<1>1. t \in Tick /\ t.mid \in Nat /\ t.minute \in Nat
  <2>1. t \in Tick
    OBVIOUS
  <2> QED BY <2>1, PipelineAssumption DEF Tick
<1>2. /\ b.symbol = t.symbol /\ b.minute = t.minute /\ b.ticks = 1
      /\ b.o = t.mid /\ b.c = t.mid /\ b.h = t.mid /\ b.l = t.mid
  BY DEF OpenBar
<1>3. CountedTo(F, p, t.symbol, t.minute) = {}
  BY <1>1 DEF CountedTo
<1>4. NoneAfter(F, p, t.symbol, t.minute)
  <2>1. \A i \in 1 .. p : F[i].minute \in Nat
    <3>1. \A i \in 1 .. p : F[i] \in Tick
      OBVIOUS
    <3> QED BY <3>1, PipelineAssumption DEF Tick
  <2> QED BY <1>1, <2>1 DEF NoneAfter
<1>5. CountedTo(F, p + 1, t.symbol, t.minute) = {p + 1}
  BY <1>3, <1>4, CountedNext
<1> HIDE DEF b
<1>6. Sums(b, F, {p + 1})
  <2>1. IsFiniteSet({p + 1}) /\ Cardinality({p + 1}) = 1
    BY FS_Singleton
  <2>2. \A i \in {p + 1} : F[i].mid = t.mid /\ i <= p + 1 /\ p + 1 <= i
    OBVIOUS
  <2> HIDE DEF t
  <2> QED BY <1>1, <1>2, <2>1, <2>2 DEF Sums
<1> QED BY <1>2, <1>5, <1>6 DEF IsBarOf, b

\* The open bar of s is made of the first p ticks.
IsOpenFor(b, s, ticks, p) ==
  IF b = None THEN \A i \in 1 .. p : ticks[i].symbol # s
  ELSE /\ b.symbol = s /\ b.life = lives
       /\ NoneAfter(ticks, p, s, b.minute)
       /\ IsBarOf(b, ticks, p)

\* A bar that was closed among the first p ticks: one of a later minute is there.
IsClosedIn(b, ticks, p) ==
  /\ b.life = lives
  /\ IsBarOf(b, ticks, p)
  /\ ~ NoneAfter(ticks, p, b.symbol, b.minute)

\* The state a fold passes agrees with the ticks up to the p-th.
BarsAgree(a, ticks, p) ==
  /\ \A s \in Symbols : IsOpenFor(a.bar[s], s, ticks, p)
  /\ \A b \in a.closed : IsClosedIn(b, ticks, p)

LEMMA NoneAfterNext ==
  ASSUME NEW ticks \in Seq(Tick), NEW p \in Nat, p + 1 \in 1 .. Len(ticks), NEW s, NEW m
  PROVE  NoneAfter(ticks, p + 1, s, m)
           <=> /\ NoneAfter(ticks, p, s, m)
               /\ ticks[p + 1].symbol = s => ticks[p + 1].minute <= m
<1>1. 1 .. p + 1 = (1 .. p) \cup {p + 1}
  OBVIOUS
<1> QED BY <1>1 DEF NoneAfter

\* The bar that takes the tick.
LEMMA FeedAgrees ==
  ASSUME lives \in Lives, NEW F \in Seq(Tick), NEW p \in Nat, p + 1 \in 1 .. Len(F),
         NEW b \in Bar \cup {None}, IsOpenFor(b, F[p + 1].symbol, F, p)
  PROVE  /\ IsOpenFor(Feed(b, F[p + 1]), F[p + 1].symbol, F, p + 1)
         /\ RollsOver(b, F[p + 1]) => IsClosedIn(b, F, p + 1)
<1> DEFINE t == F[p + 1]
           s == t.symbol
<1>1. t \in Tick /\ t.minute \in Nat
  <2>1. t \in Tick
    OBVIOUS
  <2> QED BY <2>1, PipelineAssumption DEF Tick
<1>2. \A i \in 1 .. p : F[i].minute \in Nat
  <2>1. \A i \in 1 .. p : F[i] \in Tick
    OBVIOUS
  <2> QED BY <2>1, PipelineAssumption DEF Tick
<1>3. b # None => b \in Bar /\ b.minute \in Nat
  BY PipelineAssumption DEF Bar
<1>4. Feed(b, t) # None
  BY <1>1, FeedType, NoneIsNothing
<1>5. CASE b = None \/ RollsOver(b, t)
  <2>1. \A i \in 1 .. p : F[i].symbol = s => F[i].minute < t.minute
    BY <1>1, <1>2, <1>3, <1>5 DEF IsOpenFor, RollsOver, NoneAfter
  <2>2. IsBarOf(OpenBar(t), F, p + 1)
    BY <2>1, BarOpens
  <2>3. OpenBar(t).symbol = s /\ OpenBar(t).life = lives /\ OpenBar(t).minute = t.minute
    BY DEF OpenBar
  <2>4. NoneAfter(F, p + 1, s, t.minute)
    <3>1. NoneAfter(F, p, s, t.minute)
      BY <1>1, <1>2, <2>1 DEF NoneAfter
    <3>2. t.minute <= t.minute
      BY <1>1
    <3>3. \A m : NoneAfter(F, p, s, m) /\ t.minute <= m => NoneAfter(F, p + 1, s, m)
      BY NoneAfterNext
    <3> QED BY <3>1, <3>2, <3>3
  <2>5. Feed(b, t) = OpenBar(t)
    BY <1>5 DEF Feed
  <2>6. ASSUME RollsOver(b, t)
        PROVE  IsClosedIn(b, F, p + 1)
    <3>1. b.symbol = s /\ b.life = lives /\ IsBarOf(b, F, p)
      BY <2>6 DEF RollsOver, IsOpenFor
    <3>2. ~ (t.minute <= b.minute) /\ t.minute # b.minute
      BY <1>1, <1>3, <2>6 DEF RollsOver
    <3>3. IsBarOf(b, F, p + 1)
      BY <3>1, <3>2, BarSkips
    <3>4. ~ NoneAfter(F, p + 1, b.symbol, b.minute)
      BY <3>1, <3>2, NoneAfterNext
    <3> QED BY <3>1, <3>3, <3>4 DEF IsClosedIn
  <2>7. IsOpenFor(Feed(b, t), s, F, p + 1)
    BY <1>4, <2>2, <2>3, <2>4, <2>5 DEF IsOpenFor
  <2> QED BY <2>6, <2>7
<1>6. CASE b # None /\ ~ RollsOver(b, t)
  <2>1. /\ b \in Bar /\ b.symbol = s /\ b.life = lives
        /\ NoneAfter(F, p, s, b.minute) /\ IsBarOf(b, F, p)
    BY <1>3, <1>6 DEF IsOpenFor
  <2>2. t.minute <= b.minute
    BY <1>1, <1>3, <1>6 DEF RollsOver
  <2>3. NoneAfter(F, p + 1, s, b.minute)
    BY <2>1, <2>2, NoneAfterNext
  <2>4. CASE t.minute < b.minute
    <3>1. Feed(b, t) = b
      BY <1>6, <2>4 DEF Feed
    <3>2. t.minute # b.minute
      BY <1>1, <1>3, <2>1, <2>4
    <3>3. IsBarOf(b, F, p + 1)
      BY <2>1, <3>2, BarSkips
    <3> QED BY <1>4, <1>6, <2>1, <2>3, <3>1, <3>3 DEF IsOpenFor
  <2>5. CASE ~ (t.minute < b.minute)
    <3>1. Feed(b, t) = Extended(b, t)
      BY <1>6, <2>5 DEF Feed
    <3>2. t.minute = b.minute
      BY <1>1, <1>3, <1>6, <2>2, <2>5
    <3>3. IsBarOf(Extended(b, t), F, p + 1)
      BY <2>1, <3>2, BarExtends
    <3>4. /\ Extended(b, t).symbol = s /\ Extended(b, t).life = lives
          /\ Extended(b, t).minute = b.minute
      BY <2>1 DEF Extended, Bar
    <3> QED BY <1>4, <1>6, <2>3, <3>1, <3>3, <3>4 DEF IsOpenFor
  <2> QED BY <2>4, <2>5
<1> QED BY <1>5, <1>6

LEMMA TakeAgrees ==
  ASSUME lives \in Lives, NEW F \in Seq(Tick), NEW p \in Nat, p + 1 \in 1 .. Len(F),
         NEW a \in State, BarsAgree(a, F, p)
  PROVE  BarsAgree(Take(a, F[p + 1]), F, p + 1)
<1> DEFINE t == F[p + 1]
           a2 == Take(a, t)
<1>1. t \in Tick /\ t.symbol \in Symbols
  <2>1. t \in Tick
    OBVIOUS
  <2> QED BY <2>1 DEF Tick
<1>2. a.bar \in [Symbols -> Bar \cup {None}]
  BY DEF State
<1>3. /\ a2.bar = [a.bar EXCEPT ![t.symbol] = Feed(a.bar[t.symbol], t)]
      /\ a2.closed = a.closed \cup {b \in {a.bar[t.symbol]} : RollsOver(b, t)}
  BY <1>1, <1>2 DEF Take
<1> HIDE DEF a2
<1>4. /\ IsOpenFor(Feed(a.bar[t.symbol], t), t.symbol, F, p + 1)
      /\ RollsOver(a.bar[t.symbol], t) => IsClosedIn(a.bar[t.symbol], F, p + 1)
  <2>1. a.bar[t.symbol] \in Bar \cup {None} /\ IsOpenFor(a.bar[t.symbol], t.symbol, F, p)
    BY <1>1, <1>2 DEF BarsAgree
  <2> QED BY <2>1, FeedAgrees
<1>5. ASSUME NEW s \in Symbols
      PROVE  IsOpenFor(a2.bar[s], s, F, p + 1)
  <2>1. CASE s = t.symbol
    BY <1>1, <1>2, <1>3, <1>4, <2>1
  <2>2. CASE s # t.symbol
    <3>1. a2.bar[s] = a.bar[s]
      BY <1>2, <1>3, <2>2
    <3>2. IsOpenFor(a.bar[s], s, F, p)
      BY DEF BarsAgree
    <3>3. CASE a.bar[s] = None
      <4>1. 1 .. p + 1 = (1 .. p) \cup {p + 1}
        OBVIOUS
      <4> QED BY <2>2, <3>1, <3>2, <3>3, <4>1 DEF IsOpenFor
    <3>4. CASE a.bar[s] # None
      <4>1. /\ a.bar[s].symbol = s /\ a.bar[s].life = lives
            /\ NoneAfter(F, p, s, a.bar[s].minute) /\ IsBarOf(a.bar[s], F, p)
        BY <3>2, <3>4 DEF IsOpenFor
      <4>2. NoneAfter(F, p + 1, s, a.bar[s].minute)
        BY <2>2, <4>1, NoneAfterNext
      <4>3. IsBarOf(a.bar[s], F, p + 1)
        BY <2>2, <4>1, BarSkips
      <4> QED BY <3>1, <3>4, <4>1, <4>2, <4>3 DEF IsOpenFor
    <3> QED BY <3>3, <3>4
  <2> QED BY <2>1, <2>2
<1>6. ASSUME NEW b \in a2.closed
      PROVE  IsClosedIn(b, F, p + 1)
  <2>1. CASE b \in a.closed
    <3>1. /\ b.life = lives /\ IsBarOf(b, F, p)
          /\ ~ NoneAfter(F, p, b.symbol, b.minute)
      BY <2>1 DEF BarsAgree, IsClosedIn
    <3>2. IsBarOf(b, F, p + 1)
      BY <3>1, BarSkips
    <3>3. ~ NoneAfter(F, p + 1, b.symbol, b.minute)
      BY <3>1, NoneAfterNext
    <3> QED BY <3>1, <3>2, <3>3 DEF IsClosedIn
  <2>2. CASE b = a.bar[t.symbol] /\ RollsOver(b, t)
    BY <1>4, <2>2
  <2> QED BY <1>3, <2>1, <2>2
<1> QED BY <1>5, <1>6 DEF BarsAgree, a2

LEMMA ChainAgrees ==
  ASSUME lives \in Lives, NEW base \in State, NEW q \in Seq(Tick), NEW e,
         IsChain(e, base, q), NEW f \in Seq(Tick), BarsAgree(base, f \o q, Len(f)),
         NEW k \in 0 .. Len(q)
  PROVE  BarsAgree(e[k], f \o q, Len(f) + k)
<1> DEFINE F == f \o q
           Wrong == {m \in 0 .. Len(q) : ~ BarsAgree(e[m], F, Len(f) + m)}
<1>1. /\ Len(f) \in Nat /\ Len(q) \in Nat /\ F \in Seq(Tick)
      /\ Len(F) = Len(f) + Len(q)
      /\ \A m \in 1 .. Len(q) : F[Len(f) + m] = q[m]
  OBVIOUS
<1> HIDE DEF F
<1>2. SUFFICES ASSUME Wrong # {}
               PROVE  FALSE
  BY DEF F
<1>3. PICK m \in Wrong : \A j \in Wrong : m <= j
  <2>1. Wrong \subseteq Nat
    OBVIOUS
  <2> QED BY <1>2, <2>1, Least
<1>4. m # 0
  <2>1. Len(f) + 0 = Len(f) /\ e[0] = base
    BY <1>1 DEF IsChain
  <2> QED BY <1>3, <2>1 DEF F
<1>5. m - 1 \in 0 .. Len(q) /\ m - 1 \notin Wrong /\ m \in 1 .. Len(q)
  <2>1. m \in 0 .. Len(q) /\ ~ (m <= m - 1)
    BY <1>1
  <2> HIDE DEF Wrong
  <2> QED BY <1>1, <1>3, <1>4, <2>1
<1> DEFINE p == Len(f) + (m - 1)
<1>6. p \in Nat /\ p + 1 = Len(f) + m /\ p + 1 \in 1 .. Len(F)
  BY <1>1, <1>5
<1>7. e[m - 1] \in State /\ BarsAgree(e[m - 1], F, p)
  BY <1>5, ChainType
<1>8. e[m] = Take(e[m - 1], F[p + 1])
  <2>1. e[m] = Take(e[m - 1], q[m])
    BY <1>5 DEF IsChain
  <2>2. F[p + 1] = q[m]
    BY <1>1, <1>5, <1>6
  <2> QED BY <2>1, <2>2
<1>9. BarsAgree(e[m], F, p + 1)
  <2> HIDE DEF p
  <2> QED BY <1>1, <1>6, <1>7, <1>8, TakeAgrees
<1> QED BY <1>3, <1>6, <1>9

\* More ticks do not change what the first ones say of a bar.
LEMMA BarOfPrefix ==
  ASSUME NEW p \in Seq(Tick), NEW q \in Seq(Tick), NEW b
  PROVE  IsBarOf(b, p \o q, Len(p)) <=> IsBarOf(b, p, Len(p))
<1> DEFINE F == p \o q
           those == CountedTo(p, Len(p), b.symbol, b.minute)
<1>1. Len(p) \in Nat /\ \A i \in 1 .. Len(p) : F[i] = p[i]
  OBVIOUS
<1> HIDE DEF F
<1>2. CountedTo(F, Len(p), b.symbol, b.minute) = those
  BY <1>1 DEF CountedTo
<1>3. \A i \in those : F[i] = p[i]
  BY <1>1 DEF CountedTo
<1> HIDE DEF those
<1>4. Sums(b, F, those) <=> Sums(b, p, those)
  BY <1>3 DEF Sums
<1> QED BY <1>2, <1>4 DEF IsBarOf, F, those

LEMMA NoneAfterPrefix ==
  ASSUME NEW p \in Seq(Tick), NEW q \in Seq(Tick), NEW s, NEW m
  PROVE  NoneAfter(p \o q, Len(p), s, m) <=> NoneAfter(p, Len(p), s, m)
<1>1. \A i \in 1 .. Len(p) : (p \o q)[i] = p[i]
  OBVIOUS
<1> QED BY <1>1 DEF NoneAfter

\* After a tick of a later minute no tick counts for the bar.
LEMMA BarIsSealed ==
  ASSUME NEW p \in Seq(Tick), NEW q \in Seq(Tick), NEW b, IsBarOf(b, p, Len(p)),
         ~ NoneAfter(p, Len(p), b.symbol, b.minute)
  PROVE  /\ IsBarOf(b, p \o q, Len(p \o q))
         /\ ~ NoneAfter(p \o q, Len(p \o q), b.symbol, b.minute)
<1> DEFINE F == p \o q
<1>1. /\ Len(p) \in Nat /\ Len(F) \in Nat /\ Len(p) <= Len(F)
  OBVIOUS
<1>2. IsBarOf(b, F, Len(p)) /\ ~ NoneAfter(F, Len(p), b.symbol, b.minute)
  BY BarOfPrefix, NoneAfterPrefix
<1> HIDE DEF F
<1>3. PICK k \in 1 .. Len(p) : F[k].symbol = b.symbol /\ ~ (F[k].minute <= b.minute)
  BY <1>2 DEF NoneAfter
<1>4. CountedTo(F, Len(F), b.symbol, b.minute) = CountedTo(F, Len(p), b.symbol, b.minute)
  <2>1. 1 .. Len(p) \subseteq 1 .. Len(F)
    BY <1>1
  <2>2. ASSUME NEW i \in 1 .. Len(F), i \notin 1 .. Len(p)
        PROVE  k \in 1 .. i - 1
    BY <1>1, <2>2
  <2> QED BY <1>3, <2>1, <2>2 DEF CountedTo
<1>5. ~ NoneAfter(F, Len(F), b.symbol, b.minute)
  BY <1>1, <1>3 DEF NoneAfter
<1> QED BY <1>2, <1>4, <1>5 DEF IsBarOf, F

-----------------------------------------------------------------------------
(* Bars are faithful.                                                      *)

\* No tick counts for b any more.
Sealed(b) ==
  \/ life \in {"closed", "down"}
  \/ b.life < lives
  \/ ~ NoneAfter(fed[lives], Len(fed[lives]), b.symbol, b.minute)

Kept(b) ==
  /\ b.life <= lives
  /\ IsBarOf(b, fed[b.life], Len(fed[b.life]))
  /\ Sealed(b)

OpenBars ==
  life \in {"running", "stopping", "final"} =>
    \A s \in Symbols : IsOpenFor(bar[s], s, fed[lives], Len(fed[lives]))

\* The bars on their way to candles_1m or in it.
Written == {candles[k] : k \in Symbols \X Minutes} \ {None}

BarsInv == OpenBars /\ \A b \in inserts \cup Written : Kept(b)

LEMMA WrittenType ==
  ASSUME TypeOK
  PROVE  inserts \cup Written \subseteq Bar
BY DEF TypeOK, Written

LEMMA KeptSame ==
  ASSUME NEW b, Kept(b), UNCHANGED <<fed, lives>>,
         life \in {"closed", "down"} => life' \in {"closed", "down"}
  PROVE  Kept(b)'
BY DEF Kept, Sealed, IsBarOf, Sums, CountedTo, NoneAfter

LEMMA KeptBatch ==
  ASSUME TypeOK, NEW b \in Bar, Kept(b), BatchFlushed, lives' = lives,
         life \in {"running", "stopping"}
  PROVE  Kept(b)'
<1>1. /\ lives \in Lives /\ b.life \in Lives /\ lives \in Nat /\ b.life \in Nat
      /\ fed[lives] \in Seq(Tick) /\ batch \in Seq(Tick)
  BY DEF TypeOK, Bar, Lives
<1>2. fed' = [fed EXCEPT ![lives] = fed[lives] \o batch] /\ fed \in [Lives -> Seq(Tick)]
  BY DEF BatchFlushed, TypeOK
<1>3. CASE b.life < lives
  <2>1. fed'[b.life] = fed[b.life]
    BY <1>1, <1>2, <1>3
  <2>2. IsBarOf(b, fed'[b.life], Len(fed'[b.life]))
    BY <2>1 DEF Kept
  <2>3. IsBarOf(b, fed[b.life], Len(fed[b.life]))'
    BY <2>2 DEF IsBarOf, Sums, CountedTo
  <2> QED BY <1>3, <2>3 DEF Kept, Sealed
<1>4. CASE ~ (b.life < lives)
  <2>1. b.life = lives
    BY <1>1, <1>4 DEF Kept
  <2>2. ~ NoneAfter(fed[lives], Len(fed[lives]), b.symbol, b.minute)
    BY <1>4 DEF Kept, Sealed
  <2>3. IsBarOf(b, fed[lives], Len(fed[lives]))
    BY <2>1 DEF Kept
  <2>4. fed'[lives] = fed[lives] \o batch
    BY <1>1, <1>2
  <2>5. /\ IsBarOf(b, fed'[lives], Len(fed'[lives]))
        /\ ~ NoneAfter(fed'[lives], Len(fed'[lives]), b.symbol, b.minute)
    BY <1>1, <2>2, <2>3, <2>4, BarIsSealed
  <2>6. IsBarOf(b, fed[b.life], Len(fed[b.life]))'
    BY <2>1, <2>5 DEF IsBarOf, Sums, CountedTo
  <2>7. ~ NoneAfter(fed[lives], Len(fed[lives]), b.symbol, b.minute)'
    BY <2>5 DEF NoneAfter
  <2> QED BY <2>1, <2>6, <2>7 DEF Kept, Sealed
<1> QED BY <1>3, <1>4

\* The bars of a batch: those that stay open and those it closes.
LEMMA BatchBars ==
  ASSUME TypeOK, OpenBars, BatchFlushed, lives' = lives, life \in {"running", "stopping"}
  PROVE  /\ \A s \in Symbols : IsOpenFor(bar[s], s, fed[lives], Len(fed[lives]))'
         /\ \A b \in Taken.closed : Kept(b)'
<1> DEFINE f == fed[lives]
           F == f \o batch
<1>1. lives \in Lives /\ lives \in Nat /\ f \in Seq(Tick) /\ batch \in Seq(Tick)
  BY DEF TypeOK, Lives
<1>2. PICK e : IsChain(e, Before, batch) /\ Taken = e[Len(batch)]
  BY BatchIsChain
<1>3. Before \in State /\ Before.bar = bar /\ Before.closed = {}
  BY BatchIsChain DEF Before
<1>4. BarsAgree(Before, F, Len(f))
  <2>1. ASSUME NEW s \in Symbols
        PROVE  IsOpenFor(bar[s], s, F, Len(f))
    <3>1. IsOpenFor(bar[s], s, f, Len(f))
      BY DEF OpenBars
    <3>2. CASE bar[s] = None
      <4>1. \A i \in 1 .. Len(f) : F[i] = f[i]
        BY <1>1
      <4> QED BY <3>1, <3>2, <4>1 DEF IsOpenFor
    <3>3. CASE bar[s] # None
      BY <1>1, <3>1, <3>3, BarOfPrefix, NoneAfterPrefix DEF IsOpenFor
    <3> QED BY <3>2, <3>3
  <2> QED BY <1>3, <2>1 DEF BarsAgree
<1>5. Len(batch) \in 0 .. Len(batch) /\ Len(F) = Len(f) + Len(batch)
  BY <1>1
<1>6. BarsAgree(Taken, F, Len(F))
  <2> HIDE DEF f
  <2> QED BY <1>1, <1>2, <1>3, <1>4, <1>5, ChainAgrees
<1>7. fed'[lives] = F /\ bar' = Taken.bar
  BY <1>1 DEF BatchFlushed, TypeOK
<1> HIDE DEF F
<1>8. ASSUME NEW s \in Symbols
      PROVE  IsOpenFor(bar[s], s, fed[lives], Len(fed[lives]))'
  <2>1. IsOpenFor(bar'[s], s, fed'[lives], Len(fed'[lives]))
    BY <1>6, <1>7 DEF BarsAgree
  <2> QED BY <2>1 DEF IsOpenFor, NoneAfter, IsBarOf, Sums, CountedTo
<1>9. ASSUME NEW b \in Taken.closed
      PROVE  Kept(b)'
  <2>1. /\ b.life = lives /\ IsBarOf(b, F, Len(F))
        /\ ~ NoneAfter(F, Len(F), b.symbol, b.minute)
    BY <1>6 DEF BarsAgree, IsClosedIn
  <2>2. IsBarOf(b, fed[b.life], Len(fed[b.life]))'
    <3>1. IsBarOf(b, fed'[b.life], Len(fed'[b.life]))
      BY <1>7, <2>1
    <3> QED BY <3>1 DEF IsBarOf, Sums, CountedTo
  <2>3. ~ NoneAfter(fed[lives], Len(fed[lives]), b.symbol, b.minute)'
    BY <1>7, <2>1 DEF NoneAfter
  <2> QED BY <1>1, <2>1, <2>2, <2>3 DEF Kept, Sealed
<1> QED BY <1>8, <1>9

LEMMA InitBars == Init => BarsInv
<1> SUFFICES ASSUME Init
             PROVE  BarsInv
  OBVIOUS
<1>1. lives \in Lives
  BY PipelineAssumption DEF Init, Lives
<1>2. fed[lives] = <<>> /\ Len(fed[lives]) = 0
  BY <1>1 DEF Init
<1>3. OpenBars
  BY <1>2 DEF Init, OpenBars, IsOpenFor, Empty
<1>4. inserts \cup Written = {}
  BY DEF Init, Written
<1> QED BY <1>3, <1>4 DEF BarsInv

\* Steps that take no ticks and close no bars.
LEMMA BarsSame ==
  ASSUME TypeOK, BarsInv, UNCHANGED <<lives, fed, bar, inserts, candles>>,
         life \in {"closed", "down"} => life' \in {"closed", "down"}
  PROVE  BarsInv'
<1>1. ASSUME life' \in {"running", "stopping", "final"}, NEW s \in Symbols
      PROVE  IsOpenFor(bar[s], s, fed[lives], Len(fed[lives]))'
  <2>1. life \in {"running", "stopping", "final"}
    BY <1>1 DEF TypeOK, Life
  <2>2. IsOpenFor(bar[s], s, fed[lives], Len(fed[lives]))
    BY <2>1 DEF BarsInv, OpenBars
  <2> QED BY <2>2 DEF IsOpenFor, IsBarOf, Sums, CountedTo, NoneAfter
<1>2. ASSUME NEW b \in inserts \cup Written
      PROVE  Kept(b)'
  <2>1. Kept(b)
    BY DEF BarsInv
  <2> QED BY <2>1, KeptSame
<1>3. Written' = Written
  BY DEF Written
<1> QED BY <1>1, <1>2, <1>3 DEF BarsInv, OpenBars

LEMMA BatchFlushedBars ==
  ASSUME TypeOK, BarsInv, BatchFlushed, UNCHANGED <<lives, candles>>,
         life \in {"running", "stopping"}
  PROVE  BarsInv'
<1>1. OpenBars'
  BY BatchBars DEF BarsInv, OpenBars
<1>2. ASSUME NEW b \in inserts \cup Written
      PROVE  Kept(b)'
  <2>1. Kept(b) /\ b \in Bar
    BY WrittenType DEF BarsInv
  <2> QED BY <2>1, KeptBatch
<1>3. \A b \in Taken.closed : Kept(b)'
  BY BatchBars DEF BarsInv
<1>4. inserts' = inserts \cup Taken.closed /\ Written' = Written
  BY DEF BatchFlushed, Written
<1> QED BY <1>1, <1>2, <1>3, <1>4 DEF BarsInv

\* stop() emits the open bars when no tick comes any more.
LEMMA BarsClosedKept ==
  ASSUME TypeOK, BarsInv, BarsClosed, UNCHANGED <<lives, fed, candles>>,
         life \in {"stopping", "final"}, life' = "closed"
  PROVE  BarsInv'
<1>1. ASSUME NEW b \in inserts \cup Written
      PROVE  Kept(b)'
  <2>1. Kept(b)
    BY DEF BarsInv
  <2> QED BY <2>1, KeptSame
<1>2. ASSUME NEW s \in Symbols, NEW b, bar[s] # None, b = bar[s]
      PROVE  Kept(b)'
  <2>1. IsOpenFor(b, s, fed[lives], Len(fed[lives]))
    BY <1>2 DEF BarsInv, OpenBars
  <2>2. b.life = lives /\ IsBarOf(b, fed[lives], Len(fed[lives])) /\ lives \in Nat
    BY <1>2, <2>1 DEF IsOpenFor, TypeOK, Lives
  <2>3. IsBarOf(b, fed[b.life], Len(fed[b.life]))'
    <3>1. IsBarOf(b, fed'[b.life], Len(fed'[b.life]))
      BY <2>2
    <3> QED BY <3>1 DEF IsBarOf, Sums, CountedTo
  <2> QED BY <2>2, <2>3 DEF Kept, Sealed
<1>3. \A b \in inserts' : b \in inserts \/ \E s \in Symbols : bar[s] # None /\ b = bar[s]
  BY DEF BarsClosed
<1>4. Written' = Written
  BY DEF Written
<1> QED BY <1>1, <1>2, <1>3, <1>4 DEF BarsInv, OpenBars

LEMMA CandleBars ==
  ASSUME TypeOK, BarsInv, NEW c \in inserts, CandleLands(c) \/ CandleLost(c)
  PROVE  BarsInv'
<1>1. UNCHANGED <<life, lives, fed, bar>> /\ inserts' \subseteq inserts
  BY DEF CandleLands, CandleLost, history
<1>2. ASSUME life' \in {"running", "stopping", "final"}, NEW s \in Symbols
      PROVE  IsOpenFor(bar[s], s, fed[lives], Len(fed[lives]))'
  <2>1. IsOpenFor(bar[s], s, fed[lives], Len(fed[lives]))
    BY <1>1, <1>2 DEF BarsInv, OpenBars
  <2> QED BY <1>1, <2>1 DEF IsOpenFor, IsBarOf, Sums, CountedTo, NoneAfter
<1>3. ASSUME NEW b, Kept(b)
      PROVE  Kept(b)'
  BY <1>1, <1>3, KeptSame
<1>4. Written' \subseteq inserts \cup Written
  BY DEF Written, CandleLands, CandleLost, TypeOK, history
<1> QED BY <1>1, <1>2, <1>3, <1>4 DEF BarsInv, OpenBars

LEMMA DieBars ==
  ASSUME TypeOK, BarsInv, Die
  PROVE  BarsInv'
<1>1. UNCHANGED <<lives, fed, candles>> /\ life' = "down" /\ inserts' = {}
  BY DEF Die
<1>2. ASSUME NEW b \in Written
      PROVE  Kept(b)'
  <2>1. Kept(b)
    BY DEF BarsInv
  <2> QED BY <1>1, <2>1, KeptSame
<1>3. Written' = Written
  BY <1>1 DEF Written
<1> QED BY <1>1, <1>2, <1>3 DEF BarsInv, OpenBars

\* A new life has fed nothing, and no tick of it counts for an older bar.
LEMMA RestartBars ==
  ASSUME TypeOK, RetainInv, BarsInv, Restart
  PROVE  BarsInv'
<1>1. /\ lives \in Nat /\ lives' = lives + 1 /\ lives' \in Lives
      /\ UNCHANGED <<fed, candles, inserts, bar>> /\ life = "down"
  BY PipelineAssumption DEF Restart, history, TypeOK, Lives
<1>2. fed'[lives'] = <<>> /\ bar' = Empty /\ inserts' = {}
  BY <1>1 DEF RetainInv, LaterUnfed, DownIsEmpty
<1>3. OpenBars'
  BY <1>2 DEF OpenBars, IsOpenFor, Empty
<1>4. ASSUME NEW b \in Written
      PROVE  Kept(b)'
  <2>1. b \in Bar /\ Kept(b)
    BY WrittenType DEF BarsInv
  <2>2. b.life \in Nat /\ b.life <= lives
    BY <2>1 DEF Bar, Lives, Kept
  <2>3. b.life < lives' /\ b.life <= lives'
    BY <1>1, <2>2
  <2>4. IsBarOf(b, fed[b.life], Len(fed[b.life]))'
    <3>1. IsBarOf(b, fed'[b.life], Len(fed'[b.life]))
      BY <1>1, <2>1 DEF Kept
    <3> QED BY <3>1 DEF IsBarOf, Sums, CountedTo
  <2> QED BY <2>3, <2>4 DEF Kept, Sealed
<1>5. Written' = Written
  BY <1>1 DEF Written
<1> QED BY <1>2, <1>3, <1>4, <1>5 DEF BarsInv

LEMMA BarsStep == TypeInv /\ RetainInv /\ BarsInv /\ [Next]_vars => BarsInv'
<1> SUFFICES ASSUME TypeInv, RetainInv, BarsInv, [Next]_vars
             PROVE  BarsInv'
  OBVIOUS
<1> USE DEF TypeInv
<1>1. CASE UNCHANGED vars
  BY <1>1, BarsSame DEF vars, memory, history
<1>2. CASE \E t \in Tick : Arrive(t)
  BY <1>2, BarsSame DEF Arrive, history
<1>3. CASE FlushBatch \/ StopFlushes
  BY <1>3, BatchFlushedBars DEF FlushBatch, StopFlushes
<1>4. CASE FlushStarts \/ Stop
  BY <1>4, BarsSame DEF FlushStarts, Stop, history
<1>5. CASE \E f \in flight : FlushOK(f) \/ FlushErrs(f)
  BY <1>5, BarsSame DEF FlushOK, FlushErrs, FlushReturns
<1>6. CASE \E f \in flight : StopOK(f) \/ StopErrs(f)
  <2>1. BarsClosed /\ UNCHANGED <<lives, fed, candles>> /\ life = "final" /\ life' = "closed"
    BY <1>6 DEF StopOK, StopErrs, Closes, TypeOK, InFlight
  <2> QED BY <2>1, BarsClosedKept
<1>7. CASE StopFindsNothing
  BY <1>7, BarsClosedKept DEF StopFindsNothing, history
<1>8. CASE \E b \in inserts : CandleLands(b) \/ CandleLost(b)
  BY <1>8, CandleBars
<1>9. CASE Die \/ Restart
  BY <1>9, DieBars, RestartBars
<1> QED BY <1>1, <1>2, <1>3, <1>4, <1>5, <1>6, <1>7, <1>8, <1>9 DEF Next

LEMMA MinIs ==
  ASSUME NEW T, T \subseteq Nat, NEW x \in T, \A y \in T : x <= y
  PROVE  Min(T) = x
<1>1. \E m \in T : \A y \in T : m =< y
  OBVIOUS
<1>2. Min(T) \in T /\ \A y \in T : Min(T) =< y
  BY <1>1 DEF Min
<1>3. Min(T) \in Nat /\ x \in Nat /\ x <= Min(T) /\ Min(T) <= x
  BY <1>2
<1> QED BY <1>3

LEMMA MaxIs ==
  ASSUME NEW T, T \subseteq Nat, NEW x \in T, \A y \in T : y <= x
  PROVE  Max(T) = x
<1>1. \E m \in T : \A y \in T : m >= y
  OBVIOUS
<1>2. Max(T) \in T /\ \A y \in T : Max(T) >= y
  BY <1>1 DEF Max
<1>3. Max(T) \in Nat /\ x \in Nat /\ x <= Max(T) /\ Max(T) <= x
  BY <1>2
<1> QED BY <1>3

\* Least, greatest and first are what Min and Max say.
LEMMA SumsAreFaithful ==
  ASSUME TypeOK, NEW b \in Bar, IsBarOf(b, fed[b.life], Len(fed[b.life]))
  PROVE  Faithful(b)
<1> DEFINE ticks == fed[b.life]
           those == CountedTo(ticks, Len(ticks), b.symbol, b.minute)
           mids == {ticks[i].mid : i \in those}
<1>1. ticks \in Seq(Tick) /\ DOMAIN ticks = 1 .. Len(ticks) /\ Len(ticks) \in Nat
  BY DEF TypeOK, Bar
<1>2. those = Counted(ticks, b.symbol, b.minute)
  BY <1>1 DEF CountedTo, Counted
<1>3. Sums(b, ticks, those)
  BY DEF IsBarOf
<1>4. those \subseteq Nat
  BY <1>1 DEF CountedTo
<1>5. mids \subseteq Nat
  <2>1. \A i \in those : ticks[i] \in Tick
    BY <1>1 DEF CountedTo
  <2> QED BY <2>1, PipelineAssumption DEF Tick
<1> HIDE DEF those, ticks
<1>6. PICK i \in those : b.o = ticks[i].mid /\ \A j \in those : i <= j
  BY <1>3 DEF Sums
<1>7. PICK k \in those : b.c = ticks[k].mid /\ \A j \in those : j <= k
  BY <1>3 DEF Sums
<1>8. b.h \in mids /\ \A m \in mids : m <= b.h
  BY <1>3 DEF Sums
<1>9. b.l \in mids /\ \A m \in mids : b.l <= m
  BY <1>3 DEF Sums
<1> HIDE DEF mids
<1>10. Min(those) = i
  BY <1>4, <1>6, MinIs
<1>11. Max(those) = k
  BY <1>4, <1>7, MaxIs
<1>12. Max(mids) = b.h
  BY <1>5, <1>8, MaxIs
<1>13. Min(mids) = b.l
  BY <1>5, <1>9, MinIs
<1>14. b.ticks = Cardinality(those)
  BY <1>3 DEF Sums
<1> QED BY <1>2, <1>6, <1>7, <1>10, <1>11, <1>12, <1>13, <1>14 DEF Faithful, ticks, mids

\* Every bar on its way to candles_1m or in it is the open, high, low, close and
\* count of all the ticks that count for it of those one process was fed.
THEOREM Bars == Spec => []BarsAreFaithful
<1>1. Init => TypeInv /\ RetainInv /\ BarsInv
  BY InitType, InitRetain, InitBars
<1>2. TypeInv /\ RetainInv /\ BarsInv /\ [Next]_vars => (TypeInv /\ RetainInv /\ BarsInv)'
  BY TypeStep, RetainStep, BarsStep
<1>3. TypeInv /\ BarsInv => BarsAreFaithful
  <2> SUFFICES ASSUME TypeInv, BarsInv
               PROVE  BarsAreFaithful
    OBVIOUS
  <2>1. ASSUME NEW b \in inserts \cup Written
        PROVE  Faithful(b)
    <3>1. b \in Bar /\ IsBarOf(b, fed[b.life], Len(fed[b.life]))
      BY WrittenType DEF TypeInv, BarsInv, Kept
    <3> QED BY <3>1, SumsAreFaithful DEF TypeInv
  <2>2. \A k \in DOMAIN candles : candles[k] # None => candles[k] \in Written
    BY DEF Written, TypeInv, TypeOK
  <2> QED BY <2>1, <2>2 DEF BarsAreFaithful
<1> QED BY <1>1, <1>2, <1>3, PTL DEF Spec

-----------------------------------------------------------------------------
(* The flush loop.                                                         *)

\* The loop is a timer or a write, never both; while the process runs it is one
\* of them.  A process that is down has no write in flight.
LoopAlive ==
  /\ timer => ~ InFlight("loop")
  /\ life = "running" => timer \/ InFlight("loop")

LoopInv == LoopAlive /\ (life = "down" => flight = {})

LEMMA InitLoop == Init => LoopInv
BY DEF Init, LoopInv, LoopAlive, InFlight

LEMMA LoopSame ==
  ASSUME LoopInv, life' = life, timer' = timer, flight' = flight
  PROVE  LoopInv'
BY DEF LoopInv, LoopAlive, InFlight

LEMMA FlushStartsLoop ==
  ASSUME LoopInv, FlushStarts
  PROVE  LoopInv'
<1>1. life # "down" /\ life' = life /\ timer' = FALSE
  BY DEF FlushStarts
<1>2. InFlight("loop")'
  <2> DEFINE f == [by |-> "loop", ticks |-> buffer]
  <2>1. f \in flight' /\ f.by = "loop"
    BY DEF FlushStarts
  <2> HIDE DEF f
  <2> QED BY <2>1 DEF InFlight
<1> QED BY <1>1, <1>2 DEF LoopInv, LoopAlive

\* The write that returns was the only one of the loop, so the timer it sets is
\* the loop's only successor.
LEMMA FlushReturnsLoop ==
  ASSUME TypeInv, LoopInv, NEW f \in flight, FlushReturns(f)
  PROVE  LoopInv'
<1>1. timer' = TRUE /\ life' = life /\ flight' = flight \ {f} /\ f.by = "loop"
  BY DEF FlushReturns
<1>2. ~ InFlight("loop")'
  BY <1>1 DEF TypeInv, OneFlightEach, InFlight
<1>3. life # "down"
  BY DEF LoopInv
<1> QED BY <1>1, <1>2, <1>3 DEF LoopInv, LoopAlive

\* stop() takes the timer and leaves a write of the loop to itself.
LEMMA StopLoop ==
  ASSUME LoopInv, Stop \/ StopFlushes \/ StopFindsNothing
  PROVE  LoopInv'
<1>1. CASE Stop
  <2>1. timer' = FALSE /\ life' = "stopping"
    BY <1>1 DEF Stop
  <2> QED BY <2>1 DEF LoopInv, LoopAlive
<1>2. CASE StopFlushes
  <2>1. timer' = timer /\ life' = "final"
    BY <1>2 DEF StopFlushes
  <2>2. InFlight("loop")' <=> InFlight("loop")
    BY <1>2 DEF StopFlushes, InFlight
  <2> QED BY <2>1, <2>2 DEF LoopInv, LoopAlive
<1>3. CASE StopFindsNothing
  <2>1. timer' = timer /\ life' = "closed" /\ flight' = flight
    BY <1>3 DEF StopFindsNothing
  <2> QED BY <2>1 DEF LoopInv, LoopAlive, InFlight
<1> QED BY <1>1, <1>2, <1>3

LEMMA ClosesLoop ==
  ASSUME LoopInv, NEW f \in flight, Closes(f)
  PROVE  LoopInv'
<1>1. life' = "closed" /\ timer' = timer /\ flight' = flight \ {f} /\ f.by = "stop"
  BY DEF Closes
<1>2. InFlight("loop")' <=> InFlight("loop")
  BY <1>1 DEF InFlight
<1> QED BY <1>1, <1>2 DEF LoopInv, LoopAlive

LEMMA LifeLoop ==
  ASSUME LoopInv, Die \/ Restart
  PROVE  LoopInv'
<1>1. CASE Die
  <2>1. life' = "down" /\ timer' = FALSE /\ flight' = {}
    BY <1>1 DEF Die
  <2> QED BY <2>1 DEF LoopInv, LoopAlive
<1>2. CASE Restart
  <2>1. flight = {} /\ flight' = flight /\ timer' = TRUE /\ life' = "running"
    BY <1>2 DEF Restart, LoopInv
  <2> QED BY <2>1 DEF LoopInv, LoopAlive, InFlight
<1> QED BY <1>1, <1>2

LEMMA LoopStep == TypeInv /\ LoopInv /\ [Next]_vars => LoopInv'
<1> SUFFICES ASSUME TypeInv, LoopInv, [Next]_vars
             PROVE  LoopInv'
  OBVIOUS
<1>1. CASE UNCHANGED vars
  <2>1. life' = life /\ timer' = timer /\ flight' = flight
    BY <1>1 DEF vars, memory
  <2> QED BY <2>1, LoopSame
<1>2. CASE \/ \E t \in Tick : Arrive(t)
           \/ FlushBatch
           \/ \E b \in inserts : CandleLands(b) \/ CandleLost(b)
  <2>1. life' = life /\ timer' = timer /\ flight' = flight
    BY <1>2 DEF Arrive, FlushBatch, CandleLands, CandleLost
  <2> QED BY <2>1, LoopSame
<1>3. CASE FlushStarts
  BY <1>3, FlushStartsLoop
<1>4. CASE \E f \in flight : FlushOK(f) \/ FlushErrs(f)
  BY <1>4, FlushReturnsLoop DEF FlushOK, FlushErrs
<1>5. CASE \E f \in flight : StopOK(f) \/ StopErrs(f)
  BY <1>5, ClosesLoop DEF StopOK, StopErrs
<1>6. CASE Stop \/ StopFlushes \/ StopFindsNothing
  BY <1>6, StopLoop
<1>7. CASE Die \/ Restart
  BY <1>7, LifeLoop
<1> QED BY <1>1, <1>2, <1>3, <1>4, <1>5, <1>6, <1>7 DEF Next

\* The flush loop outlives its failures and is never doubled: while the process
\* runs, the timer is set or one write of the loop is in flight, never both, also
\* when a write outlasts stop() (scheduleFlush, its finally).
THEOREM OneLoop == Spec => [](LoopAlive /\ OneFlightEach)
<1>1. Init => TypeInv /\ LoopInv
  BY InitType, InitLoop
<1>2. TypeInv /\ LoopInv /\ [Next]_vars => (TypeInv /\ LoopInv)'
  BY TypeStep, LoopStep
<1>3. TypeInv /\ LoopInv => LoopAlive /\ OneFlightEach
  BY DEF TypeInv, LoopInv
<1> QED BY <1>1, <1>2, <1>3, PTL DEF Spec

=============================================================================
