---------------------------- MODULE TradePipeline ----------------------------
(***************************************************************************)
(* The durable trade feed: MatchingDispatcher publishes the trades of a    *)
(* call to Kafka before it acknowledges the request, and the persistence   *)
(* service copies the topic into Postgres, committing its offset after     *)
(* each save.  The engine process, the producer's background thread, the   *)
(* broker and the persistence process run side by side; both processes can *)
(* die at any point and be started again.                                  *)
(*                                                                         *)
(* The topic is one partition, which trades of several symbols share.      *)
(* Matching itself is in MatchingEngine; here it only numbers trades.      *)
(***************************************************************************)
EXTENDS Integers, Sequences, FiniteSets

CONSTANTS
    Symbols,
    QueueCapacity,     \* messages the producer holds before produce() fails
    ProducerRetries,   \* the broker may fail or not answer a send, so that the
                       \* producer sends it again (it does by default)
    MaxTrades,         \* bound on the trades per symbol and engine process
    MaxLog,            \* bound on the records of the topic
    MaxEngineRestarts, \* bound on restarts of the matching engine
    MaxCrashes         \* bound on crashes of the persistence service

ASSUME PipelineBounds ==
    /\ QueueCapacity \in Nat /\ MaxTrades \in Nat /\ MaxLog \in Nat
    /\ MaxEngineRestarts \in Nat /\ MaxCrashes \in Nat
    /\ ProducerRetries \in BOOLEAN

VARIABLES
    engineUp,    \* the matching engine process is running
    process,     \* how many engine processes there were before this one
    nextTradeId, \* nextTradeId_ of each symbol's engine
    call,        \* trades of the request being handled that are not yet published
    reported,    \* history: trades that a client was told of in an ack
    handled,     \* trades of the request being handled
    queue,       \* the producer's queue of messages to send
    log,         \* the topic
    pc,          \* persistence: "down", "poll", "save" or "commit"
    position,    \* records that the consumer has taken since it started
    committed,   \* the group's committed offset
    table,       \* rows of table trades, by their serial id
    crashes      \* crashes of the persistence service so far

engineVars == <<engineUp, process, nextTradeId, call, handled, reported>>
persistVars == <<pc, position, committed, table, crashes>>
vars == <<engineVars, queue, log, persistVars>>

\* The columns that tell trades apart.  `process' is no column: it is what the
\* rest of the row (orders, price, time) differs in between two engine processes.
Trade == [symbol : Symbols, id : Nat, process : Nat]

TypeOK ==
    /\ engineUp \in BOOLEAN
    /\ process \in Nat
    /\ nextTradeId \in [Symbols -> Nat]
    /\ call \in Seq(Trade) /\ queue \in Seq(Trade) /\ log \in Seq(Trade)
    /\ table \in Seq(Trade)
    /\ handled \subseteq Trade /\ reported \subseteq Trade
    /\ pc \in {"down", "poll", "save", "commit"}
    /\ position \in 0 .. Len(log)
    /\ pc \in {"save", "commit"} => position > 0
    /\ committed \in 0 .. Len(log)
    /\ crashes \in Nat

Init ==
    /\ engineUp = TRUE
    /\ process = 0
    /\ nextTradeId = [s \in Symbols |-> 1]
    /\ call = <<>> /\ handled = {} /\ reported = {}
    /\ queue = <<>> /\ log = <<>>
    /\ pc = "poll"
    /\ position = 0 /\ committed = 0
    /\ table = <<>>
    /\ crashes = 0

-----------------------------------------------------------------------------
\* The matching engine service.

Numbered(symbol, id) == [symbol |-> symbol, id |-> id, process |-> process]

\* handle() of a NewOrder or ModifyOrder whose matching yields `count' trades.
HandleOrder(symbol, count) ==
    /\ engineUp
    /\ handled = {}
    /\ nextTradeId[symbol] + count <= MaxTrades + 1
    /\ call' = [k \in 1 .. count |-> Numbered(symbol, nextTradeId[symbol] + k - 1)]
    /\ handled' = {Numbered(symbol, nextTradeId[symbol] + k - 1) : k \in 1 .. count}
    /\ nextTradeId' = [nextTradeId EXCEPT ![symbol] = @ + count]
    /\ UNCHANGED <<engineUp, process, reported, queue, log, persistVars>>

\* publish(): produce() only queues the message; when it cannot, the error is
\* logged and the trade is not sent.
Publish ==
    /\ engineUp
    /\ call # <<>>
    /\ queue' = IF Len(queue) < QueueCapacity THEN Append(queue, Head(call)) ELSE queue
    /\ call' = Tail(call)
    /\ UNCHANGED <<engineUp, process, nextTradeId, handled, reported, log, persistVars>>

\* publishAll is done: the ack lists the trades.
Acknowledge ==
    /\ engineUp
    /\ call = <<>>
    /\ handled # {}
    /\ reported' = reported \cup handled
    /\ handled' = {}
    /\ UNCHANGED <<engineUp, process, nextTradeId, call, queue, log, persistVars>>

\* The producer's queue is in the memory of the process, and is not flushed.
EngineDies ==
    /\ engineUp
    /\ process < MaxEngineRestarts
    /\ engineUp' = FALSE
    /\ call' = <<>> /\ handled' = {} /\ queue' = <<>>
    /\ UNCHANGED <<process, nextTradeId, reported, log, persistVars>>

\* A new process has new engines, whose trade numbers start again.
EngineStarts ==
    /\ ~engineUp
    /\ engineUp' = TRUE
    /\ process' = process + 1
    /\ nextTradeId' = [s \in Symbols |-> 1]
    /\ UNCHANGED <<call, handled, reported, queue, log, persistVars>>

-----------------------------------------------------------------------------
\* librdkafka's sender and the broker.

WithoutEntry(s, k) == SubSeq(s, 1, k - 1) \o SubSeq(s, k + 1, Len(s))

\* The broker appends a message.  When sends fail and are retried, one behind it
\* can overtake a failed one, and one whose answer was lost is sent again.
Send(k) ==
    /\ k \in 1 .. Len(queue)
    /\ k > 1 => ProducerRetries
    /\ Len(log) < MaxLog
    /\ log' = Append(log, queue[k])
    /\ \/ queue' = WithoutEntry(queue, k)
       \/ ProducerRetries /\ queue' = queue
    /\ UNCHANGED <<engineVars, persistVars>>

\* The oldest message has waited for message.timeout.ms.  Nobody has asked for
\* delivery reports, so nobody hears of it.
Expire ==
    /\ queue # <<>>
    /\ queue' = Tail(queue)
    /\ UNCHANGED <<engineVars, log, persistVars>>

-----------------------------------------------------------------------------
\* The persistence service.

Key(trade) == <<trade.symbol, trade.id>>

Stored == {Key(table[r]) : r \in DOMAIN table}

\* pollOnce times out or gets an error instead of a record.
PollNothing == pc = "poll" /\ UNCHANGED vars

\* Mutant: the offset is committed when the record is taken.
PollAutoCommit ==
    /\ pc = "poll"
    /\ position < Len(log)
    /\ position' = position + 1
    /\ committed' = position + 1
    /\ pc' = "save"
    /\ UNCHANGED <<engineVars, queue, log, table, crashes>>

\* pollOnce gets a record.
Poll ==
    /\ pc = "poll"
    /\ position < Len(log)
    /\ position' = position + 1
    /\ pc' = "save"
    /\ UNCHANGED <<engineVars, queue, log, committed, table, crashes>>

\* Mutant: a plain insert, without ON CONFLICT.
SaveAgain ==
    /\ pc = "save"
    /\ table' = Append(table, log[position])
    /\ pc' = "commit"
    /\ UNCHANGED <<engineVars, queue, log, position, committed, crashes>>

\* save(): the insert and its transaction's commit; a row with the same symbol
\* and trade id is left as it is.
Save ==
    /\ pc = "save"
    /\ table' = IF Key(log[position]) \in Stored THEN table
                ELSE Append(table, log[position])
    /\ pc' = "commit"
    /\ UNCHANGED <<engineVars, queue, log, position, committed, crashes>>

\* Mutant: the offset is committed one too far.
CommitBeyond ==
    /\ pc = "commit"
    /\ committed' \in {position + 1, committed}
    /\ pc' = "poll"
    /\ UNCHANGED <<engineVars, queue, log, position, table, crashes>>

\* commitSync, whose result is ignored.
Commit ==
    /\ pc = "commit"
    /\ committed' \in {position, committed}
    /\ pc' = "poll"
    /\ UNCHANGED <<engineVars, queue, log, position, table, crashes>>

\* The process dies, or is ended by an exception: save() throws in "save", and
\* throws in "commit" when only the answer to its transaction was lost.
PersistenceDies ==
    /\ pc # "down"
    /\ crashes < MaxCrashes
    /\ crashes' = crashes + 1
    /\ pc' = "down"
    /\ UNCHANGED <<engineVars, queue, log, position, committed, table>>

\* Mutant: a new consumer starts at the end of the topic.
PersistenceStartsLatest ==
    /\ pc = "down"
    /\ pc' = "poll"
    /\ position' = Len(log)
    /\ UNCHANGED <<engineVars, queue, log, committed, table, crashes>>

\* A new consumer of the group starts at the committed offset.
PersistenceStarts ==
    /\ pc = "down"
    /\ pc' = "poll"
    /\ position' = committed
    /\ UNCHANGED <<engineVars, queue, log, committed, table, crashes>>

Consume == Poll \/ Save \/ Commit

Next ==
    \/ \E s \in Symbols, count \in 1 .. MaxTrades : HandleOrder(s, count)
    \/ Publish \/ Acknowledge \/ EngineDies \/ EngineStarts
    \/ (\E k \in DOMAIN queue : Send(k)) \/ Expire
    \/ PollNothing \/ Consume \/ PersistenceDies \/ PersistenceStarts

Spec == Init /\ [][Next]_vars

\* The persistence loop runs as long as its process does.
FairSpec == Spec /\ WF_vars(Consume)

-----------------------------------------------------------------------------
\* At-least-once: whatever the crashes, redeliveries and failed commits, the
\* offset never passes a record whose trade is not in the table under its key.
CommittedKeysStored == \A k \in 1 .. committed : Key(log[k]) \in Stored

\* "Never silently lose a trade": once the offset has passed a record, that
\* very trade is in the table.
CommittedTradesStored ==
    \A k \in 1 .. committed : \E r \in DOMAIN table : table[r] = log[k]

\* No record before the k-th has its key.
FirstOfKey(k) == \A j \in 1 .. k - 1 : Key(log[j]) # Key(log[k])

\* The table is the topic without its repetitions: row r is the r-th record that
\* is the first with its key, whatever was delivered again, saved twice or sent
\* twice in between.  So no row is skipped or overtaken on the way.
TableFollowsLog ==
    \A r \in DOMAIN table : \E k \in DOMAIN log :
        /\ table[r] = log[k]
        /\ FirstOfKey(k)
        /\ Cardinality({j \in 1 .. k : FirstOfKey(j)}) = r

\* A trade that a client was told of is on its way to the table: in the
\* producer's queue or in the topic.
ReportedTradesSurvive ==
    \A t \in reported : (\E k \in DOMAIN queue : queue[k] = t)
                          \/ (\E k \in DOMAIN log : log[k] = t)

\* Everything in the topic reaches the table, if the persistence service is not
\* down from some time on for good or again and again.
LoggedTradesReachTable ==
    <>[](pc # "down") =>
        \A k \in 1 .. MaxLog : Len(log) >= k ~> Len(log) >= k /\ Key(log[k]) \in Stored
=============================================================================
