----------------------------- MODULE MarketFeed -----------------------------
(***************************************************************************)
(* Trades on their way from the matching engine over ZeroMQ to the market  *)
(* data service, and its snapshots on to the TRADES command of a client,   *)
(* with the thread that the command starts and joins.                      *)
(*                                                                         *)
(* PUB and SUB sockets connect by themselves and again, drop what nobody   *)
(* has subscribed to and what a full queue does not take, and lose what    *)
(* was on the way when a connection breaks.  Nobody is told.  A trade is   *)
(* its symbol and its place in time; the rest of a snapshot comes from the *)
(* same trade.                                                             *)
(***************************************************************************)
EXTENDS Integers, Sequences

CONSTANTS
    Symbols,
    HighWaterMark, \* messages that a queue holds: 1000 in the code
    NONE,
    MaxTrades      \* bound on the trades that are published

ASSUME FeedConstants ==
    HighWaterMark \in Nat \ {0} /\ MaxTrades \in Nat /\ NONE \notin Nat

VARIABLES
    trades,     \* history: the symbols of the trades published so far
    feed,       \* trades on the way to market data
    feedLinked, \* its subscription has reached the engine
    dataUp,     \* the market data process runs
    store,      \* snapshots_: symbol -> last trade
    tape,       \* snapshots on the way to the client
    tapeLinked, \* the subscription of the client has reached market data
    client,     \* main(): at the prompt, in TRADES, or in thread_.join()
    running,    \* running_ of the ticker
    thread,     \* thread_: not there, at the loop's condition, in recv(), or ended
    printed     \* what the console shows

dataVars == <<feed, feedLinked, dataUp, store>>
clientVars == <<client, running, thread, printed>>
vars == <<trades, tape, tapeLinked, dataVars, clientVars>>

Trade == [symbol : Symbols, stamp : 1 .. MaxTrades]

TypeOK ==
    /\ trades \in Seq(Symbols)
    /\ feed \in Seq(Trade) /\ Len(feed) <= HighWaterMark
    /\ feedLinked \in BOOLEAN
    /\ dataUp \in BOOLEAN
    /\ store \in [Symbols -> 1 .. MaxTrades \cup {NONE}]
    /\ tape \in Seq(Trade) /\ Len(tape) <= HighWaterMark
    /\ tapeLinked \in BOOLEAN
    /\ client \in {"prompt", "streaming", "joining"}
    /\ running \in BOOLEAN
    /\ thread \in {"none", "check", "recv", "done"}
    /\ printed \in Seq(Trade)

EmptyStore == [s \in Symbols |-> NONE]

Init ==
    /\ trades = <<>>
    /\ feed = <<>>
    /\ feedLinked = FALSE
    /\ dataUp = TRUE
    /\ store = EmptyStore
    /\ tape = <<>>
    /\ tapeLinked = FALSE
    /\ client = "prompt"
    /\ running = FALSE
    /\ thread = "none"
    /\ printed = <<>>

-----------------------------------------------------------------------------
\* ZeroMQ.

\* send() of a PUB socket.
Sent(queue, linked, message) ==
    IF linked /\ Len(queue) < HighWaterMark THEN Append(queue, message) ELSE queue

\* What has reached the subscriber is kept, the rest is gone.
Kept(queue, n) == SubSeq(queue, 1, n)

LinkFeed ==
    /\ dataUp /\ ~feedLinked
    /\ feedLinked' = TRUE
    /\ UNCHANGED <<trades, tape, tapeLinked, feed, dataUp, store, clientVars>>

\* Also what a restart of the engine does.
BreakFeed(n) ==
    /\ feedLinked
    /\ feedLinked' = FALSE
    /\ feed' = Kept(feed, n)
    /\ UNCHANGED <<trades, tape, tapeLinked, dataUp, store, clientVars>>

LinkTape ==
    /\ dataUp /\ ~tapeLinked
    /\ tapeLinked' = TRUE
    /\ UNCHANGED <<trades, tape, dataVars, clientVars>>

BreakTape(n) ==
    /\ tapeLinked
    /\ tapeLinked' = FALSE
    /\ tape' = Kept(tape, n)
    /\ UNCHANGED <<trades, dataVars, clientVars>>

-----------------------------------------------------------------------------
\* The engine.

\* TradePublisher::publish.
Publish(symbol) ==
    /\ Len(trades) < MaxTrades
    /\ trades' = Append(trades, symbol)
    /\ feed' = Sent(feed, feedLinked, [symbol |-> symbol, stamp |-> Len(trades) + 1])
    /\ UNCHANGED <<tape, tapeLinked, feedLinked, dataUp, store, clientVars>>

-----------------------------------------------------------------------------
\* The market data service.

\* Mutant: the entry of a symbol is made once.
OnTradeOnce(trade) ==
    IF store[trade.symbol] # NONE THEN store ELSE [store EXCEPT ![trade.symbol] = trade.stamp]

\* MarketDataStore::onTrade.
OnTrade(trade) == [store EXCEPT ![trade.symbol] = trade.stamp]

\* MarketDataStore::snapshot, of a symbol that has an entry.
Snapshot(entries, symbol) == [symbol |-> symbol, stamp |-> entries[symbol]]

\* Mutant: the queue of the publisher has no limit.
RepublishUnlimited ==
    /\ dataUp
    /\ feed # <<>>
    /\ store' = OnTrade(Head(feed))
    /\ tape' = IF tapeLinked THEN Append(tape, Snapshot(store', Head(feed).symbol)) ELSE tape
    /\ feed' = Tail(feed)
    /\ UNCHANGED <<trades, tapeLinked, feedLinked, dataUp, clientVars>>

\* One turn of main(), with handleTradePayload().  The two parts of a message come
\* together.
Republish ==
    /\ dataUp
    /\ feed # <<>>
    /\ store' = OnTrade(Head(feed))
    /\ tape' = Sent(tape, tapeLinked, Snapshot(store', Head(feed).symbol))
    /\ feed' = Tail(feed)
    /\ UNCHANGED <<trades, tapeLinked, feedLinked, dataUp, clientVars>>

DataDies(n) ==
    /\ dataUp
    /\ dataUp' = FALSE
    /\ feed' = <<>>
    /\ feedLinked' = FALSE
    /\ store' = EmptyStore
    /\ tapeLinked' = FALSE
    /\ tape' = Kept(tape, n)
    /\ UNCHANGED <<trades, clientVars>>

DataStarts ==
    /\ ~dataUp
    /\ dataUp' = TRUE
    /\ UNCHANGED <<trades, tape, tapeLinked, feed, feedLinked, store, clientVars>>

-----------------------------------------------------------------------------
\* The client.

\* The TRADES command: ticker.start().
StartTicker ==
    /\ client = "prompt"
    /\ client' = "streaming"
    /\ running' = TRUE
    /\ thread' = "check"
    /\ UNCHANGED <<trades, tape, tapeLinked, dataVars, printed>>

\* Mutant: stop() does not join.
StopTickerDetached ==
    /\ client = "streaming"
    /\ client' = "prompt"
    /\ running' = FALSE
    /\ UNCHANGED <<trades, tape, tapeLinked, dataVars, thread, printed>>

\* QUIT, or the end of the input: ticker.stop(), up to join().
StopTicker ==
    /\ client = "streaming"
    /\ client' = "joining"
    /\ running' = FALSE
    /\ UNCHANGED <<trades, tape, tapeLinked, dataVars, thread, printed>>

\* join() returns.
Join ==
    /\ client = "joining"
    /\ thread = "done"
    /\ client' = "prompt"
    /\ thread' = "none"
    /\ UNCHANGED <<trades, tape, tapeLinked, dataVars, running, printed>>

\* The condition of the loop in run().
CheckRunning ==
    /\ thread = "check"
    /\ thread' = IF running THEN "recv" ELSE "done"
    /\ UNCHANGED <<trades, tape, tapeLinked, dataVars, client, running, printed>>

\* recv() of both parts, and the line that is printed.
PrintTrade ==
    /\ thread = "recv"
    /\ tape # <<>>
    /\ printed' = Append(printed, Head(tape))
    /\ tape' = Tail(tape)
    /\ thread' = "check"
    /\ UNCHANGED <<trades, tapeLinked, dataVars, client, running>>

\* Mutant: a thread that has nothing to receive ends.
ReceiveTimeoutEnds ==
    /\ thread = "recv"
    /\ tape = <<>>
    /\ thread' = "done"
    /\ UNCHANGED <<trades, tape, tapeLinked, dataVars, client, running, printed>>

\* Mutant: recv() has no timeout.
ReceiveNoTimeout == FALSE

\* recv() returns after rcvtimeo without a message.
ReceiveTimeout ==
    /\ thread = "recv"
    /\ tape = <<>>
    /\ thread' = "check"
    /\ UNCHANGED <<trades, tape, tapeLinked, dataVars, client, running, printed>>

TickerStep == CheckRunning \/ PrintTrade \/ ReceiveTimeout

Next ==
    \/ \E symbol \in Symbols : Publish(symbol)
    \/ LinkFeed \/ \E n \in 0 .. Len(feed) : BreakFeed(n)
    \/ LinkTape \/ \E n \in 0 .. Len(tape) : BreakTape(n) \/ DataDies(n)
    \/ Republish \/ DataStarts
    \/ StartTicker \/ StopTicker \/ Join \/ TickerStep

Spec == Init /\ [][Next]_vars

\* Threads that can go on do; nothing else has to happen.
FairSpec == Spec /\ WF_vars(Republish) /\ WF_vars(TickerStep) /\ WF_vars(Join)

-----------------------------------------------------------------------------
\* Whatever is lost on the way and whoever is started again, the trades on the
\* console and those still on the way are trades that happened, in the order in
\* which they did, and none comes twice.
TapeInOrder ==
    LET shown == printed \o tape \o feed
    IN /\ \A i \in DOMAIN shown : /\ shown[i].stamp \in DOMAIN trades
                                  /\ trades[shown[i].stamp] = shown[i].symbol
       /\ \A i, j \in DOMAIN shown : i < j => shown[i].stamp < shown[j].stamp

\* The ticker prints only while main() does not: at the prompt there is no thread,
\* and so start() never assigns to a thread_ that is joinable.
OneWriterAtATime == client = "prompt" => thread = "none"

\* stop() returns, whether or not anything is traded or market data is there.
StopReturns == client = "joining" ~> client = "prompt"

Shown(k) == \E i \in DOMAIN printed : printed[i].stamp = k

\* A trade that market data is sent gets to the console of a client that keeps
\* streaming, unless a connection breaks or the client is too slow for the tape.
TradesReachConsole ==
    \A k \in 1 .. MaxTrades :
        (\E i \in DOMAIN feed : feed[i].stamp = k) ~>
            \/ Shown(k)
            \/ client # "streaming"
            \/ ~feedLinked \/ ~tapeLinked
            \/ Len(tape) = HighWaterMark
=============================================================================
