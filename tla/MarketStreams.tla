---------------------------- MODULE MarketStreams ----------------------------
(***************************************************************************)
(* Which symbols the worker receives: SymbolManager polls the users'       *)
(* symbols and tells the two consumers what changed; SignalRConsumer keeps *)
(* a hub connection, resubscribes when the SDK reconnects and rebuilds the *)
(* connection when the SDK gives up; BinanceStreamConsumer names its       *)
(* symbols in the URL and reconnects to change them.                       *)
(*                                                                         *)
(* The hub handles the calls of a connection in order, and a call fails    *)
(* only when its connection does.  Polls are five minutes apart: a poll    *)
(* finds the calls of the last one answered or failed.  A crypto symbol    *)
(* stands for its name at Binance, too.                                    *)
(***************************************************************************)
EXTENDS Naturals, Sequences

CONSTANTS
  Forex, Crypto,   \* the symbol catalog, by category
  Defaults,        \* DEFAULT_WATCHLIST_SYMBOLS
  Configured,      \* BINANCE_CRYPTO_SYMBOLS
  Conns,           \* hub connections that may exist at a time
  MaxCalls,        \* bound on the unanswered calls of a connection that reconnects add to
  None

Symbols == Forex \cup Crypto

ASSUME StreamsAssumption ==
  /\ Defaults \subseteq Symbols /\ Defaults # {}
  /\ Configured \subseteq Crypto
  /\ None \notin Conns
  /\ MaxCalls \in Nat

VARIABLES
  managed,     \* SymbolManager.symbols
  conn,        \* conn[c]: a hub connection, its subscriptions and calls
  connection,  \* SignalRConsumer.connection
  started, stopping, timer,
  list,        \* subscribedSymbols
  opts,        \* opts.symbols: the array start() was given, with what was pushed to it
  aliased,     \* subscribedSymbols is that same array
  ws,          \* the Binance socket
  streams,     \* the symbols in its URL
  symbols,     \* BinanceStreamConsumer.symbols
  asked,       \* history: what updateSubscriptions was last asked for
  leaked       \* history: a rebuild has left another connection behind

hubVars == <<conn, connection, started, timer, list, opts, aliased, asked, leaked>>
binanceVars == <<ws, streams, symbols>>
vars == <<managed, hubVars, stopping, binanceVars>>

\* A call is answered in its turn.  then: what updateSubscriptions goes on to
\* remove;  boot: start() awaits it.
Call == [op : {"Subscribe", "Unsubscribe"}, set : SUBSET Symbols,
         then : SUBSET Symbols, boot : BOOLEAN]
Conn == [state : {"free", "starting", "up", "retrying"},
         subs : SUBSET Symbols, calls : Seq(Call)]
Free == [state |-> "free", subs |-> {}, calls |-> <<>>]

\* closed: its close event, and then the reconnect timer, will come;  idle: there
\* was no URL to connect to.
Socket == {"connecting", "open", "closed", "idle", "stopped"}

At(c, state) == c # None /\ conn[c].state = state

TypeOK ==
  /\ managed \subseteq Symbols
  /\ conn \in [Conns -> Conn]
  /\ \A c \in Conns : At(c, "free") => conn[c] = Free
  /\ connection \in Conns \cup {None}
  /\ started \in BOOLEAN /\ stopping \in BOOLEAN /\ timer \in BOOLEAN
  /\ stopping => ~ timer
  /\ list \subseteq Symbols
  /\ opts \subseteq Symbols
  /\ aliased \in BOOLEAN /\ (aliased => list = opts)
  /\ ws \in Socket
  /\ streams \subseteq Crypto
  /\ symbols \subseteq Crypto
  /\ asked \subseteq Symbols
  /\ leaked \in BOOLEAN

\* Both consumers are connected before the first poll.
Init ==
  /\ managed = {}
  /\ \E c \in Conns :
       /\ conn = [d \in Conns |-> IF d = c THEN [Free EXCEPT !.state = "up"] ELSE Free]
       /\ connection = c
  /\ started = TRUE /\ stopping = FALSE /\ timer = FALSE
  /\ list = {} /\ opts = {} /\ aliased = TRUE
  /\ symbols = Configured
  /\ ws = IF Configured = {} THEN "idle" ELSE "connecting"
  /\ streams = Configured
  /\ asked = {} /\ leaked = FALSE

-----------------------------------------------------------------------------
(* Calls of the hub.  A call on a connection that is not up is rejected.    *)

Subscribe(set, then) == [op |-> "Subscribe", set |-> set, then |-> then, boot |-> FALSE]
Unsubscribe(set) == [op |-> "Unsubscribe", set |-> set, then |-> {}, boot |-> FALSE]
BootCall == [op |-> "Subscribe", set |-> opts, then |-> {}, boot |-> TRUE]

Sent(conns, calls) ==
  IF connection # None /\ conns[connection].state = "up"
    THEN [conns EXCEPT ![connection].calls = @ \o calls]
    ELSE conns

\* Removed symbols leave the list, in an array of its own.
Without(removed) ==
  /\ list' = list \ removed
  /\ aliased' = (aliased /\ removed = {})

\* The hub answers the oldest call of a connection, and its caller goes on.
Answer(c) ==
  /\ conn[c].calls # <<>>
  /\ LET k == Head(conn[c].calls)
         answered == [conn EXCEPT ![c].calls = Tail(@),
                                  ![c].subs = IF k.op = "Subscribe" THEN @ \cup k.set
                                                                    ELSE @ \ k.set]
     IN  /\ conn' = IF k.then = {} THEN answered
                                   ELSE Sent(answered, <<Unsubscribe(k.then)>>)
         /\ Without(k.then)
         /\ started' = (started \/ k.boot)
  /\ UNCHANGED <<managed, connection, stopping, timer, opts, asked, leaked, binanceVars>>

-----------------------------------------------------------------------------
(* SymbolManager.                                                          *)

\* The synchronous part of updateSubscriptions: u is the list, with the calls.
Update(u, added, removed) ==
  IF added # {} THEN
    [u EXCEPT !.list = @ \cup added,
              !.opts = IF u.aliased THEN @ \cup added ELSE @,
              !.calls = Append(@, Subscribe(added, removed))]
  ELSE IF removed # {} THEN
    [u EXCEPT !.list = @ \ removed,
              !.aliased = FALSE,
              !.calls = Append(@, Unsubscribe(removed))]
  ELSE u

\* Both of the manager's events reach the consumer, the second one without the
\* crypto symbols.  A consumer that is not started is not told.  Without a
\* connection no call is made, and what is removed leaves the list at once.
HubUpdated(added, removed) ==
  LET before == [list |-> list, opts |-> opts, aliased |-> aliased, calls |-> <<>>]
      after == Update(Update(before, added, removed), added \cap Forex, removed \cap Forex)
      left == IF connection = None THEN removed ELSE {}
  IN  \/ /\ ~ started
         /\ UNCHANGED hubVars
      \/ /\ started
         /\ list' = after.list \ left
         /\ opts' = after.opts
         /\ aliased' = (after.aliased /\ left = {})
         /\ conn' = Sent(conn, after.calls)
         /\ asked' = (asked \cup added) \ removed
         /\ UNCHANGED <<connection, started, timer, leaked>>

SocketCloses == ws' = "closed" /\ streams' = {}

\* updateSubscriptions of Binance closes the socket even when nothing changed; a
\* socket that is closed already is not opened.
BinanceUpdated(set) ==
  /\ symbols' = set
  /\ \/ ws \in {"connecting", "open"} /\ SocketCloses
     \/ ws \notin {"connecting", "open"} /\ UNCHANGED <<ws, streams>>

\* A poll finds the symbols the users want by now, and emits its events at once
\* if they are not those it knows.  stop() clears the interval only: a poll that
\* was under way lands after it.
Poll(wanted) ==
  LET active == IF wanted = {} THEN Defaults ELSE wanted
      added == active \ managed
      removed == managed \ active
  IN  /\ \A c \in Conns : conn[c].calls = <<>>
      /\ active # managed
      /\ managed' = active
      /\ HubUpdated(added, removed)
      /\ BinanceUpdated((symbols \cup (added \cap Crypto)) \ (removed \cap Crypto))
      /\ UNCHANGED stopping

-----------------------------------------------------------------------------
(* SignalRConsumer's connection.                                           *)

Becomes(c, state) == [conn EXCEPT ![c].state = state]

\* The connection drops and the SDK tries to restore it.  Its calls are
\* rejected; the one start() awaits makes rebuild schedule another.
Drop(c) ==
  /\ At(c, "up")
  /\ conn' = [conn EXCEPT ![c] = [Free EXCEPT !.state = "retrying"]]
  /\ timer' = (timer \/ (~ stopping /\ \E i \in DOMAIN conn[c].calls : conn[c].calls[i].boot))
  /\ UNCHANGED <<managed, connection, started, stopping, list, opts, aliased, asked,
                 leaked, binanceVars>>

\* Nothing is resent: the hub is trusted to remember.
FaultyReconnected(c) ==
  /\ At(c, "retrying")
  /\ conn' = Becomes(c, "up")
  /\ UNCHANGED <<managed, connection, started, stopping, timer, list, opts, aliased,
                 asked, leaked, binanceVars>>

\* onreconnected: the list is sent, on the current connection.
Reconnected(c) ==
  /\ At(c, "retrying")
  /\ connection # None => Len(conn[connection].calls) < MaxCalls
  /\ conn' = IF list = {} THEN Becomes(c, "up")
                          ELSE Sent(Becomes(c, "up"), <<Subscribe(list, {})>>)
  /\ UNCHANGED <<managed, connection, started, stopping, timer, list, opts, aliased,
                 asked, leaked, binanceVars>>

\* onclose does not ask whether the consumer is being stopped.
FaultyGivesUp(c) ==
  /\ At(c, "retrying")
  /\ conn' = [conn EXCEPT ![c] = Free]
  /\ started' = FALSE
  /\ timer' = TRUE
  /\ UNCHANGED <<managed, connection, stopping, list, opts, aliased, asked, leaked, binanceVars>>

\* onclose: the SDK has used up its attempts.
GivesUp(c) ==
  /\ At(c, "retrying")
  /\ conn' = [conn EXCEPT ![c] = Free]
  /\ started' = FALSE
  /\ timer' = ~ stopping
  /\ UNCHANGED <<managed, connection, stopping, list, opts, aliased, asked, leaked, binanceVars>>

\* rebuild and the synchronous part of start.
RebuildStarts(c) ==
  /\ timer
  /\ ~ started
  /\ At(c, "free")
  /\ timer' = FALSE
  /\ connection' = c
  /\ conn' = Becomes(c, "starting")
  /\ list' = opts
  /\ aliased' = TRUE
  /\ leaked' = (leaked \/ \E d \in Conns : ~ At(d, "free"))
  /\ UNCHANGED <<managed, started, stopping, opts, asked, binanceVars>>

\* start() returns at once, as another rebuild has succeeded in the meantime;
\* the connection is forgotten all the same.
RebuildFindsStarted ==
  /\ timer
  /\ started
  /\ timer' = FALSE
  /\ connection' = None
  /\ UNCHANGED <<managed, conn, started, stopping, list, opts, aliased, asked,
                 leaked, binanceVars>>

\* conn.start() resolves, and start() subscribes the array it was given on the
\* current connection.
Connects(c) ==
  /\ At(c, "starting")
  /\ LET up == Becomes(c, "up") IN
       \/ /\ opts = {} \/ connection = None
          /\ conn' = up
          /\ started' = TRUE
          /\ UNCHANGED timer
       \/ /\ opts # {} /\ connection # None
          /\ conn' = Sent(up, <<BootCall>>)
          /\ timer' = (timer \/ (conn' = up /\ ~ stopping))
          /\ UNCHANGED started
  /\ UNCHANGED <<managed, connection, stopping, list, opts, aliased, asked, leaked, binanceVars>>

\* A failed rebuild is the last one.
DeadConnectFails(c) ==
  /\ At(c, "starting")
  /\ conn' = [conn EXCEPT ![c] = Free]
  /\ UNCHANGED <<managed, connection, started, stopping, timer, list, opts, aliased, asked,
                 leaked, binanceVars>>

ConnectFails(c) ==
  /\ At(c, "starting")
  /\ conn' = [conn EXCEPT ![c] = Free]
  /\ timer' = ~ stopping
  /\ UNCHANGED <<managed, connection, started, stopping, list, opts, aliased, asked,
                 leaked, binanceVars>>

-----------------------------------------------------------------------------
(* Binance's socket.                                                       *)

Opens ==
  /\ ws = "connecting"
  /\ ws' = "open"
  /\ UNCHANGED <<managed, hubVars, stopping, streams, symbols>>

\* The connection fails or drops, or sendHeartbeat closes it after ten silent
\* minutes.
Closes ==
  /\ ws \in {"connecting", "open"}
  /\ SocketCloses
  /\ UNCHANGED <<managed, hubVars, stopping, symbols>>

\* connect: without symbols there is no URL, and no timer either.
Connect ==
  /\ ws = "closed"
  /\ ws' = IF symbols = {} THEN "idle" ELSE "connecting"
  /\ streams' = symbols
  /\ UNCHANGED <<managed, hubVars, stopping, symbols>>

-----------------------------------------------------------------------------
(* stop().                                                                 *)

\* Up to its first await: the timers are cleared, the Binance socket closed and
\* the symbols unsubscribed.
Stop ==
  /\ ~ stopping
  /\ stopping' = TRUE
  /\ timer' = FALSE
  /\ conn' = IF list = {} THEN conn ELSE Sent(conn, <<Unsubscribe(list)>>)
  /\ ws' = "stopped"
  /\ streams' = {}
  /\ UNCHANGED <<managed, connection, started, list, opts, aliased, asked, leaked, symbols>>

\* The unsubscription is over, one way or the other.
StopEnds ==
  /\ stopping
  /\ connection # None
  /\ conn[connection].calls = <<>>
  /\ conn' = [conn EXCEPT ![connection] = Free]
  /\ connection' = None
  /\ started' = FALSE
  /\ UNCHANGED <<managed, stopping, timer, list, opts, aliased, asked, leaked, binanceVars>>

-----------------------------------------------------------------------------
HubStep(c) ==
  \/ Answer(c) \/ Drop(c) \/ Reconnected(c) \/ GivesUp(c)
  \/ RebuildStarts(c) \/ Connects(c) \/ ConnectFails(c)

Next ==
  \/ \E wanted \in SUBSET Symbols : Poll(wanted)
  \/ \E c \in Conns : HubStep(c)
  \/ RebuildFindsStarted
  \/ Opens \/ Closes \/ Connect
  \/ Stop \/ StopEnds

Spec == Init /\ [][Next]_vars

\* The SDK restores a connection or gives it up, timers fire, and a connection
\* that is tried again and again is made in the end.
Fairness ==
  /\ \A c \in Conns : WF_vars(Reconnected(c) \/ GivesUp(c))
  /\ \A c \in Conns : WF_vars(Connects(c) \/ ConnectFails(c))
  /\ WF_vars(\E c \in Conns : RebuildStarts(c))
  /\ SF_vars(\E c \in Conns : Connects(c))
  /\ WF_vars(Connect)
  /\ SF_vars(Opens)

FairSpec == Spec /\ Fairness

-----------------------------------------------------------------------------
(* Properties.                                                             *)

\* No call is under way, and the current connection is up.
Quiet ==
  /\ ~ stopping
  /\ At(connection, "up")
  /\ \A c \in Conns : conn[c].calls = <<>> /\ ~ At(c, "starting")

\* Whatever interleaving of polls, drops, reconnections and rebuilds came before:
\* when the calls are over, the hub sends every symbol of the consumer's list,
\* and the Binance socket, once it is open, those of its set.
SubscriptionsFollow ==
  /\ Quiet /\ ~ leaked => list \subseteq conn[connection].subs
  /\ ws \in {"connecting", "open"} => streams = symbols

\* Neither feed stays silent while the worker runs: a dropped or given up hub
\* connection is followed by another, and the Binance socket opens again, unless
\* it was left without symbols (onclose, rebuild, scheduleReconnect).
StreamsReturn ==
  /\ ~ stopping ~> (stopping \/ \E c \in Conns : At(c, "up"))
  /\ ws = "closed" ~> ws \in {"open", "idle", "stopped"}

\* "Symbols we've asked the hub to subscribe to; resent on reconnect"
\* (SignalRConsumer.subscribedSymbols).  A rebuild resends the array of the
\* options instead, which is another one since the first removal.
AskedIsResent == Quiet /\ started => asked \subseteq conn[connection].subs

=============================================================================
