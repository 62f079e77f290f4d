------------------------- MODULE MarketFeedProofs -------------------------
(***************************************************************************)
(* Proofs about MarketFeed, for any symbols, any number of trades, queues  *)
(* of any length, and connections and processes that fail at any point.    *)
(*                                                                         *)
(* The order on the console follows from the order inside each of the      *)
(* three sequences that a trade passes, and between them: what is printed  *)
(* is older than what is on the tape, which is older than the feed.        *)
(***************************************************************************)
EXTENDS MarketFeed, TLAPS

\* s are trades that happened according to the history h, in the order in which
\* they did.
Happened(h, s) ==
  /\ \A i \in DOMAIN s : s[i].stamp \in DOMAIN h /\ h[s[i].stamp] = s[i].symbol
  /\ \A i, j \in DOMAIN s : i < j => s[i].stamp < s[j].stamp

Older(s, t) == \A i \in DOMAIN s, j \in DOMAIN t : s[i].stamp < t[j].stamp

\* The inductive invariant behind TapeInOrder.
InOrder ==
  /\ Happened(trades, printed) /\ Happened(trades, tape) /\ Happened(trades, feed)
  /\ Older(printed, tape) /\ Older(printed, feed) /\ Older(tape, feed)

-----------------------------------------------------------------------------
\* A PUB socket that takes a message puts it at the end.
LEMMA SentTyped ==
  ASSUME NEW q \in Seq(Trade), NEW linked \in BOOLEAN, NEW m \in Trade,
         Len(q) <= HighWaterMark
  PROVE  /\ Sent(q, linked, m) \in Seq(Trade)
         /\ Len(Sent(q, linked, m)) <= HighWaterMark
         /\ Sent(q, linked, m) = q \/ Sent(q, linked, m) = Append(q, m)
<1>1. Len(q) \in Nat /\ HighWaterMark \in Nat /\ Append(q, m) \in Seq(Trade)
        /\ Len(Append(q, m)) = Len(q) + 1
  BY FeedConstants
<1> QED
  BY <1>1 DEF Sent

\* A broken connection leaves a beginning of the queue.
LEMMA KeptFacts ==
  ASSUME NEW q \in Seq(Trade), NEW n \in 0 .. Len(q)
  PROVE  /\ Kept(q, n) \in Seq(Trade)
         /\ Len(Kept(q, n)) = n
         /\ \A i \in 1 .. n : Kept(q, n)[i] = q[i]
  BY DEF Kept

\* The snapshot that market data sends is the trade it was told of.
LEMMA SnapshotIsTrade ==
  ASSUME TypeOK, NEW t \in Trade
  PROVE  /\ OnTrade(t) \in [Symbols -> 1 .. MaxTrades \cup {NONE}]
         /\ Snapshot(OnTrade(t), t.symbol) = t
  BY DEF TypeOK, Trade, OnTrade, Snapshot

\* Every step keeps the types.
LEMMA FeedStep == TypeOK /\ [Next]_vars => TypeOK'
<1> SUFFICES ASSUME TypeOK, [Next]_vars PROVE TypeOK'
  OBVIOUS
<1> USE DEF dataVars, clientVars
<1>1. ASSUME NEW symbol \in Symbols, Publish(symbol) PROVE TypeOK'
  <2> DEFINE m == [symbol |-> symbol, stamp |-> Len(trades) + 1]
  <2>1. m \in Trade
    BY <1>1, FeedConstants DEF Publish, TypeOK, Trade
  <2>2. feed' = Sent(feed, feedLinked, m) /\ trades' \in Seq(Symbols)
    BY <1>1 DEF Publish, TypeOK
  <2> HIDE DEF m
  <2>3. feed' \in Seq(Trade) /\ Len(feed') <= HighWaterMark
    BY <2>1, <2>2, SentTyped DEF TypeOK
  <2> QED
    BY <1>1, <2>2, <2>3 DEF Publish, TypeOK
<1>2. CASE LinkFeed
  BY <1>2 DEF LinkFeed, TypeOK
<1>3. ASSUME NEW n \in 0 .. Len(feed), BreakFeed(n) PROVE TypeOK'
  <2>1. feed' \in Seq(Trade) /\ Len(feed') <= HighWaterMark
    BY <1>3, KeptFacts, FeedConstants DEF BreakFeed, TypeOK
  <2> QED
    BY <1>3, <2>1 DEF BreakFeed, TypeOK
<1>4. CASE LinkTape
  BY <1>4 DEF LinkTape, TypeOK
<1>5. ASSUME NEW n \in 0 .. Len(tape), BreakTape(n) PROVE TypeOK'
  <2>1. tape' \in Seq(Trade) /\ Len(tape') <= HighWaterMark
    BY <1>5, KeptFacts, FeedConstants DEF BreakTape, TypeOK
  <2> QED
    BY <1>5, <2>1 DEF BreakTape, TypeOK
<1>6. ASSUME NEW n \in 0 .. Len(tape), DataDies(n) PROVE TypeOK'
  <2>1. tape' \in Seq(Trade) /\ Len(tape') <= HighWaterMark
    BY <1>6, KeptFacts, FeedConstants DEF DataDies, TypeOK
  <2>2. feed' = <<>> /\ feed' \in Seq(Trade) /\ Len(feed') <= HighWaterMark
    BY <1>6, FeedConstants DEF DataDies
  <2>3. store' \in [Symbols -> 1 .. MaxTrades \cup {NONE}]
    BY <1>6 DEF DataDies, EmptyStore
  <2> QED
    BY <1>6, <2>1, <2>2, <2>3 DEF DataDies, TypeOK
<1>7. CASE Republish
  <2>1. Head(feed) \in Trade /\ Tail(feed) \in Seq(Trade) /\ Len(Tail(feed)) <= HighWaterMark
    BY <1>7, FeedConstants DEF Republish, TypeOK
  <2>2. store' \in [Symbols -> 1 .. MaxTrades \cup {NONE}]
    BY <1>7, <2>1, SnapshotIsTrade DEF Republish
  <2>3. tape' = Sent(tape, tapeLinked, Head(feed))
    BY <1>7, <2>1, SnapshotIsTrade DEF Republish
  <2>4. tape' \in Seq(Trade) /\ Len(tape') <= HighWaterMark
    BY <2>1, <2>3, SentTyped DEF TypeOK
  <2> QED
    BY <1>7, <2>1, <2>2, <2>4 DEF Republish, TypeOK
<1>8. CASE DataStarts
  BY <1>8 DEF DataStarts, TypeOK
<1>9. CASE StartTicker
  BY <1>9 DEF StartTicker, TypeOK
<1>10. CASE StopTicker
  BY <1>10 DEF StopTicker, TypeOK
<1>11. CASE Join
  BY <1>11 DEF Join, TypeOK
<1>12. CASE CheckRunning
  BY <1>12 DEF CheckRunning, TypeOK
<1>13. CASE PrintTrade
  <2>1. /\ Head(tape) \in Trade /\ Tail(tape) \in Seq(Trade) /\ Len(Tail(tape)) <= HighWaterMark
        /\ Append(printed, Head(tape)) \in Seq(Trade)
    BY <1>13, FeedConstants DEF PrintTrade, TypeOK
  <2> QED
    BY <1>13, <2>1 DEF PrintTrade, TypeOK
<1>14. CASE ReceiveTimeout
  BY <1>14 DEF ReceiveTimeout, TypeOK
<1>15. CASE UNCHANGED vars
  BY <1>15 DEF vars, TypeOK
<1> QED
  BY <1>1, <1>2, <1>3, <1>4, <1>5, <1>6, <1>7, <1>8, <1>9, <1>10, <1>11, <1>12, <1>13, <1>14,
     <1>15 DEF Next, TickerStep

\* Every variable keeps its type: no queue grows beyond its high-water mark.
THEOREM FeedTyped == Spec => []TypeOK
<1>1. Init => TypeOK
  <2> SUFFICES ASSUME Init PROVE TypeOK
    OBVIOUS
  <2>1. /\ trades \in Seq(Symbols) /\ printed \in Seq(Trade)
        /\ feed \in Seq(Trade) /\ Len(feed) = 0 /\ tape \in Seq(Trade) /\ Len(tape) = 0
    BY DEF Init
  <2>2. store \in [Symbols -> 1 .. MaxTrades \cup {NONE}]
    BY DEF Init, EmptyStore
  <2>3. /\ feedLinked \in BOOLEAN /\ dataUp \in BOOLEAN /\ tapeLinked \in BOOLEAN
        /\ client \in {"prompt", "streaming", "joining"} /\ running \in BOOLEAN
        /\ thread \in {"none", "check", "recv", "done"}
    BY DEF Init
  <2> QED
    BY <2>1, <2>2, <2>3, FeedConstants DEF TypeOK
<1> QED
  BY <1>1, FeedStep, PTL DEF Spec

\* The ticker thread is there only while main() is in the TRADES command.
THEOREM ThreadOnlyInTrades == Spec => []OneWriterAtATime
<1>1. Init => OneWriterAtATime
  BY DEF Init, OneWriterAtATime
<1>2. OneWriterAtATime /\ [Next]_vars => OneWriterAtATime'
  BY DEF OneWriterAtATime, Next, Publish, LinkFeed, BreakFeed, LinkTape, BreakTape, DataDies,
     Republish, DataStarts, StartTicker, StopTicker, Join, TickerStep, CheckRunning, PrintTrade,
     ReceiveTimeout, vars, dataVars, clientVars
<1> QED
  BY <1>1, <1>2, PTL DEF Spec

-----------------------------------------------------------------------------
\* A later history tells of the same trades.
LEMMA HappenedStays ==
  ASSUME NEW h \in Seq(Symbols), NEW x \in Symbols, NEW s \in Seq(Trade), Happened(h, s)
  PROVE  Happened(Append(h, x), s)
  BY DEF Happened

\* A part of the sequence that keeps its order.
LEMMA PartHappened ==
  ASSUME NEW h, NEW s \in Seq(Trade), NEW t \in Seq(Trade), NEW d \in {0, 1},
         \A i \in DOMAIN t : i + d \in DOMAIN s /\ t[i] = s[i + d]
  PROVE  /\ Happened(h, s) => Happened(h, t)
         /\ \A u : (Older(s, u) => Older(t, u)) /\ (Older(u, s) => Older(u, t))
<1>1. DOMAIN s = 1 .. Len(s) /\ DOMAIN t = 1 .. Len(t) /\ Len(s) \in Nat /\ Len(t) \in Nat
  OBVIOUS
<1>2. Happened(h, s) => Happened(h, t)
  <2> SUFFICES ASSUME Happened(h, s) PROVE Happened(h, t)
    OBVIOUS
  <2>1. \A i \in DOMAIN t : t[i].stamp \in DOMAIN h /\ h[t[i].stamp] = t[i].symbol
    BY DEF Happened
  <2>2. ASSUME NEW i \in DOMAIN t, NEW j \in DOMAIN t, i < j PROVE t[i].stamp < t[j].stamp
    <3>1. i + d < j + d
      BY <1>1, <2>2
    <3> QED
      BY <3>1 DEF Happened
  <2> QED
    BY <2>1, <2>2 DEF Happened
<1>3. \A u : (Older(s, u) => Older(t, u)) /\ (Older(u, s) => Older(u, t))
  BY DEF Older
<1> QED
  BY <1>2, <1>3

\* A trade that is younger than all others can be appended.
LEMMA AppendHappened ==
  ASSUME NEW h, NEW s \in Seq(Trade), NEW m \in Trade, Happened(h, s),
         m.stamp \in DOMAIN h, h[m.stamp] = m.symbol, \A i \in DOMAIN s : s[i].stamp < m.stamp
  PROVE  Happened(h, Append(s, m))
  BY DEF Happened

LEMMA AppendOlder ==
  ASSUME NEW s \in Seq(Trade), NEW m \in Trade, NEW u \in Seq(Trade)
  PROVE  /\ Older(s, u) /\ (\A j \in DOMAIN u : m.stamp < u[j].stamp) => Older(Append(s, m), u)
         /\ Older(u, s) /\ (\A j \in DOMAIN u : u[j].stamp < m.stamp) => Older(u, Append(s, m))
  BY DEF Older

\* Every step keeps the order.
LEMMA OrderStep ==
  ASSUME TypeOK, InOrder, [Next]_vars
  PROVE  InOrder'
<1> USE DEF dataVars, clientVars
<1>0. /\ trades \in Seq(Symbols) /\ printed \in Seq(Trade)
      /\ tape \in Seq(Trade) /\ feed \in Seq(Trade)
  BY DEF TypeOK
<1>1. ASSUME NEW symbol \in Symbols, Publish(symbol) PROVE InOrder'
  <2> DEFINE m == [symbol |-> symbol, stamp |-> Len(trades) + 1]
  <2>1. /\ m \in Trade /\ m.symbol = symbol /\ m.stamp = Len(trades) + 1
        /\ trades' = Append(trades, symbol) /\ feed' = Sent(feed, feedLinked, m)
        /\ printed' = printed /\ tape' = tape
    BY <1>1, FeedConstants DEF Publish, TypeOK, Trade
  <2>2. m.stamp \in DOMAIN trades' /\ trades'[m.stamp] = m.symbol
    BY <1>0, <2>1
  <2> HIDE DEF m
  <2>3. feed' = feed \/ feed' = Append(feed, m)
    BY <2>1, SentTyped DEF TypeOK
  <2>4. ASSUME NEW s \in Seq(Trade), Happened(trades, s)
        PROVE  Happened(trades', s) /\ \A i \in DOMAIN s : s[i].stamp < m.stamp
    <3>1. \A i \in DOMAIN s : s[i].stamp \in DOMAIN trades
      BY <2>4 DEF Happened
    <3> QED
      BY <1>0, <2>1, <2>4, <3>1, HappenedStays
  <2>5. Happened(trades', printed') /\ Happened(trades', tape')
    BY <1>0, <2>1, <2>4 DEF InOrder
  <2>6. CASE feed' = feed
    BY <1>0, <2>1, <2>4, <2>5, <2>6 DEF InOrder
  <2>7. CASE feed' = Append(feed, m)
    <3>1. Happened(trades', Append(feed, m))
      BY <1>0, <2>1, <2>2, <2>4, AppendHappened DEF InOrder
    <3>2. Older(printed, Append(feed, m)) /\ Older(tape, Append(feed, m))
      BY <1>0, <2>1, <2>4, AppendOlder DEF InOrder
    <3> QED
      BY <2>1, <2>5, <2>7, <3>1, <3>2 DEF InOrder
  <2> QED
    BY <2>3, <2>6, <2>7
<1>2. ASSUME NEW n \in 0 .. Len(feed), BreakFeed(n) PROVE InOrder'
  <2>1. feed' = Kept(feed, n) /\ trades' = trades /\ printed' = printed /\ tape' = tape
    BY <1>2 DEF BreakFeed
  <2>2. feed' \in Seq(Trade) /\ \A i \in DOMAIN feed' : i + 0 \in DOMAIN feed /\ feed'[i] = feed[i + 0]
    BY <1>0, <2>1, KeptFacts
  <2>3. /\ Happened(trades, feed')
        /\ Older(printed, feed') /\ Older(tape, feed')
    BY <1>0, <2>2, PartHappened DEF InOrder
  <2> QED
    BY <2>1, <2>3 DEF InOrder
<1>3. ASSUME NEW n \in 0 .. Len(tape), tape' = Kept(tape, n), trades' = trades,
             printed' = printed, feed' = feed \/ feed' = <<>>
      PROVE  InOrder'
  <2>1. tape' \in Seq(Trade) /\ \A i \in DOMAIN tape' : i + 0 \in DOMAIN tape /\ tape'[i] = tape[i + 0]
    BY <1>0, <1>3, KeptFacts
  <2>2. /\ Happened(trades, tape')
        /\ Older(printed, tape') /\ Older(tape', feed)
    BY <1>0, <2>1, PartHappened DEF InOrder
  <2>3. /\ Happened(trades, <<>>)
        /\ Older(printed, <<>>) /\ Older(tape', <<>>)
    BY DEF Happened, Older
  <2> QED
    BY <1>3, <2>2, <2>3 DEF InOrder
<1>4. CASE Republish
  <2> DEFINE m == Head(feed)
  <2>1. /\ m \in Trade /\ feed # <<>> /\ m = feed[1] /\ 1 \in DOMAIN feed
        /\ Tail(feed) \in Seq(Trade)
        /\ \A i \in DOMAIN Tail(feed) :
             i + 1 \in DOMAIN feed /\ 1 < i + 1 /\ Tail(feed)[i] = feed[i + 1]
    BY <1>0, <1>4 DEF Republish
  <2>2. tape' = Sent(tape, tapeLinked, m) /\ feed' = Tail(feed)
          /\ trades' = trades /\ printed' = printed
    BY <1>4, <2>1, SnapshotIsTrade DEF Republish
  <2> HIDE DEF m
  <2>3. tape' = tape \/ tape' = Append(tape, m)
    BY <2>1, <2>2, SentTyped DEF TypeOK
  <2>4. Happened(trades, feed') /\ Older(printed, feed') /\ Older(tape, feed')
    BY <1>0, <2>1, <2>2, PartHappened DEF InOrder
  <2>5. /\ m.stamp \in DOMAIN trades /\ trades[m.stamp] = m.symbol
        /\ \A i \in DOMAIN tape : tape[i].stamp < m.stamp
        /\ \A i \in DOMAIN printed : printed[i].stamp < m.stamp
        /\ \A i \in DOMAIN feed' : m.stamp < feed'[i].stamp
    BY <2>1, <2>2 DEF InOrder, Happened, Older
  <2>6. /\ Happened(trades, Append(tape, m))
        /\ Older(printed, Append(tape, m)) /\ Older(Append(tape, m), feed')
    BY <1>0, <2>1, <2>2, <2>4, <2>5, AppendHappened, AppendOlder DEF InOrder
  <2> QED
    BY <2>2, <2>3, <2>4, <2>6 DEF InOrder
<1>5. CASE PrintTrade
  <2> DEFINE m == Head(tape)
  <2>1. /\ m \in Trade /\ m = tape[1] /\ 1 \in DOMAIN tape /\ Tail(tape) \in Seq(Trade)
        /\ \A i \in DOMAIN Tail(tape) :
             i + 1 \in DOMAIN tape /\ 1 < i + 1 /\ Tail(tape)[i] = tape[i + 1]
    BY <1>0, <1>5 DEF PrintTrade
  <2>2. /\ printed' = Append(printed, m) /\ tape' = Tail(tape)
        /\ trades' = trades /\ feed' = feed
    BY <1>5 DEF PrintTrade
  <2> HIDE DEF m
  <2>3. Happened(trades, tape') /\ Older(printed, tape') /\ Older(tape', feed)
    BY <1>0, <2>1, <2>2, PartHappened DEF InOrder
  <2>4. /\ m.stamp \in DOMAIN trades /\ trades[m.stamp] = m.symbol
        /\ \A i \in DOMAIN printed : printed[i].stamp < m.stamp
        /\ \A i \in DOMAIN tape' : m.stamp < tape'[i].stamp
        /\ \A i \in DOMAIN feed : m.stamp < feed[i].stamp
    BY <2>1, <2>2 DEF InOrder, Happened, Older
  <2>5. /\ Happened(trades, Append(printed, m))
        /\ Older(Append(printed, m), tape') /\ Older(Append(printed, m), feed)
    BY <1>0, <2>1, <2>2, <2>3, <2>4, AppendHappened, AppendOlder DEF InOrder
  <2> QED
    BY <2>2, <2>3, <2>5 DEF InOrder
<1>6. CASE UNCHANGED <<trades, printed, tape, feed>>
  BY <1>6 DEF InOrder
<1>7. ASSUME NEW n \in 0 .. Len(tape), BreakTape(n) \/ DataDies(n) PROVE InOrder'
  BY <1>3, <1>7 DEF BreakTape, DataDies
<1> QED
  BY <1>1, <1>2, <1>4, <1>5, <1>6, <1>7 DEF Next, LinkFeed, LinkTape, DataStarts, StartTicker,
     StopTicker, Join, TickerStep, CheckRunning, ReceiveTimeout, vars

\* The order in three sequences is the order in their concatenation.
LEMMA ConcatInOrder ==
  ASSUME NEW h, NEW s \in Seq(Trade), NEW t \in Seq(Trade),
         Happened(h, s), Happened(h, t), Older(s, t)
  PROVE  /\ Happened(h, s \o t) /\ s \o t \in Seq(Trade)
         /\ \A u : Older(s, u) /\ Older(t, u) => Older(s \o t, u)
<1>1. /\ s \o t \in Seq(Trade) /\ DOMAIN (s \o t) = 1 .. Len(s) + Len(t)
      /\ Len(s) \in Nat /\ Len(t) \in Nat
      /\ DOMAIN s = 1 .. Len(s) /\ DOMAIN t = 1 .. Len(t)
  OBVIOUS
<1>2. \A i \in DOMAIN (s \o t) :
        \/ i \in DOMAIN s /\ (s \o t)[i] = s[i]
        \/ i > Len(s) /\ i - Len(s) \in DOMAIN t /\ (s \o t)[i] = t[i - Len(s)]
  BY <1>1
<1>3. \A i \in DOMAIN (s \o t) : (s \o t)[i].stamp \in DOMAIN h
        /\ h[(s \o t)[i].stamp] = (s \o t)[i].symbol
  BY <1>2 DEF Happened
<1>4. ASSUME NEW i \in DOMAIN (s \o t), NEW j \in DOMAIN (s \o t), i < j
      PROVE  (s \o t)[i].stamp < (s \o t)[j].stamp
  <2>1. CASE i \in DOMAIN s /\ j \in DOMAIN s
    BY <1>1, <1>2, <1>4, <2>1 DEF Happened
  <2>2. CASE i \in DOMAIN s /\ j \notin DOMAIN s
    BY <1>1, <1>2, <1>4, <2>2 DEF Older
  <2>3. CASE i \notin DOMAIN s
    <3>1. /\ i - Len(s) \in DOMAIN t /\ (s \o t)[i] = t[i - Len(s)]
          /\ j - Len(s) \in DOMAIN t /\ (s \o t)[j] = t[j - Len(s)]
          /\ i - Len(s) < j - Len(s)
      BY <1>1, <1>2, <1>4, <2>3
    <3> QED
      BY <3>1 DEF Happened
  <2> QED
    BY <2>1, <2>2, <2>3
<1>5. \A u : Older(s, u) /\ Older(t, u) => Older(s \o t, u)
  BY <1>2 DEF Older
<1> QED
  BY <1>1, <1>3, <1>4, <1>5 DEF Happened

\* The console shows trades that happened, in their order, none twice, whatever is
\* lost between the engine and the client and whoever is started again.
THEOREM ConsoleInOrder == Spec => []TapeInOrder
<1>1. Init => InOrder
  BY DEF Init, InOrder, Happened, Older
<1>2. TypeOK /\ InOrder /\ [Next]_vars => InOrder'
  BY OrderStep
<1>3. TypeOK /\ InOrder => TapeInOrder
  <2> SUFFICES ASSUME TypeOK, InOrder PROVE TapeInOrder
    OBVIOUS
  <2>1. /\ Happened(trades, printed \o tape) /\ printed \o tape \in Seq(Trade)
        /\ Older(printed \o tape, feed)
    BY ConcatInOrder DEF TypeOK, InOrder
  <2>2. Happened(trades, (printed \o tape) \o feed)
    BY <2>1, ConcatInOrder DEF TypeOK, InOrder
  <2> QED
    BY <2>2 DEF TapeInOrder, Happened
<1> QED
  BY <1>1, <1>2, <1>3, FeedTyped, PTL DEF Spec
=============================================================================
