------------------------ MODULE TradePipelineProofs ------------------------
(***************************************************************************)
(* Proofs about TradePipeline, for any symbols, any number of trades, of   *)
(* crashes and of restarts, and any producer queue.                        *)
(***************************************************************************)
EXTENDS TradePipeline, FiniteSetTheorems, TLAPS

\* The sequence without its k-th entry is made of entries of the sequence.
LEMMA WithoutEntryTyped ==
  ASSUME NEW S, NEW s \in Seq(S), NEW k \in 1 .. Len(s)
  PROVE  WithoutEntry(s, k) \in Seq(S)
<1>1. SubSeq(s, 1, k - 1) \in Seq(S) /\ SubSeq(s, k + 1, Len(s)) \in Seq(S)
  OBVIOUS
<1> QED
  BY <1>1 DEF WithoutEntry

\* Numbered trades are trades.
LEMMA NumberedTyped ==
  ASSUME TypeOK, NEW s \in Symbols, NEW i \in Nat
  PROVE  Numbered(s, i) \in Trade
  BY DEF TypeOK, Numbered, Trade

\* TypeOK is preserved: the offsets stay within the topic.
LEMMA TypeStep == TypeOK /\ [Next]_vars => TypeOK'
<1> SUFFICES ASSUME TypeOK, [Next]_vars PROVE TypeOK'
  OBVIOUS
<1>1. ASSUME NEW s \in Symbols, NEW count \in 1 .. MaxTrades, HandleOrder(s, count)
      PROVE  TypeOK'
  <2>1. nextTradeId[s] \in Nat /\ count \in Nat
    BY PipelineBounds DEF TypeOK
  <2>2. \A k \in 1 .. count : Numbered(s, nextTradeId[s] + k - 1) \in Trade
    BY <2>1, NumberedTyped
  <2>3. call' \in Seq(Trade) /\ handled' \subseteq Trade
    BY <1>1, <2>1, <2>2 DEF HandleOrder
  <2>4. nextTradeId' \in [Symbols -> Nat]
    BY <1>1, <2>1 DEF HandleOrder, TypeOK
  <2> QED
    BY <1>1, <2>3, <2>4 DEF HandleOrder, TypeOK, persistVars
<1>2. CASE Publish
  BY <1>2 DEF Publish, TypeOK, persistVars
<1>3. CASE Acknowledge
  BY <1>3 DEF Acknowledge, TypeOK, persistVars
<1>4. CASE EngineDies
  <2>1. call' = <<>> /\ queue' = <<>> /\ handled' = {}
    BY <1>4 DEF EngineDies
  <2>2. call' \in Seq(Trade) /\ queue' \in Seq(Trade) /\ handled' \subseteq Trade
    BY <2>1
  <2> QED
    BY <1>4, <2>2 DEF EngineDies, TypeOK, persistVars
<1>5. CASE EngineStarts
  BY <1>5 DEF EngineStarts, TypeOK, persistVars
<1>6. ASSUME NEW k \in DOMAIN queue, Send(k) PROVE TypeOK'
  <2>1. queue[k] \in Trade /\ WithoutEntry(queue, k) \in Seq(Trade)
    BY <1>6, WithoutEntryTyped DEF Send, TypeOK
  <2> QED
    BY <1>6, <2>1 DEF Send, TypeOK, engineVars, persistVars
<1>7. CASE Expire
  BY <1>7 DEF Expire, TypeOK, engineVars, persistVars
<1>8. CASE Poll
  BY <1>8 DEF Poll, TypeOK, engineVars
<1>9. CASE Save
  BY <1>9 DEF Save, TypeOK, engineVars
<1>10. CASE Commit
  BY <1>10 DEF Commit, TypeOK, engineVars
<1>11. CASE PersistenceDies
  BY <1>11 DEF PersistenceDies, TypeOK, engineVars
<1>12. CASE PersistenceStarts
  BY <1>12 DEF PersistenceStarts, TypeOK, engineVars
<1>13. CASE UNCHANGED vars
  BY <1>13 DEF TypeOK, vars, engineVars, persistVars
<1> QED
  BY <1>1, <1>2, <1>3, <1>4, <1>5, <1>6, <1>7, <1>8, <1>9, <1>10, <1>11, <1>12, <1>13
  DEF Next, Consume, PollNothing

-----------------------------------------------------------------------------
\* A row that is appended adds its key, and no row is ever removed.
LEMMA StoredGrows ==
  ASSUME TypeOK, [Next]_vars
  PROVE  /\ Stored \subseteq Stored'
         /\ Save => Key(log[position]) \in Stored'
         /\ Len(table) <= Len(table)'
         /\ \A r \in DOMAIN table : r \in DOMAIN table' /\ table'[r] = table[r]
<1>1. CASE table' = table
  <2>1. Stored' = Stored
    BY <1>1 DEF Stored
  <2> QED
    BY <1>1, <2>1 DEF TypeOK, Save, Stored, Key
<1>2. CASE Save /\ table' = Append(table, log[position])
  <2>1. table \in Seq(Trade) /\ log[position] \in Trade
    BY <1>2 DEF TypeOK, Save
  <2>2. /\ Len(table') = Len(table) + 1
        /\ DOMAIN table' = 1 .. Len(table) + 1
        /\ \A r \in 1 .. Len(table) : table'[r] = table[r]
        /\ table'[Len(table) + 1] = log[position]
    BY <1>2, <2>1
  <2>3. DOMAIN table = 1 .. Len(table) /\ Len(table) \in Nat
    BY <2>1
  <2>4. Key(log[position]) \in Stored'
    BY <2>2, <2>3 DEF Stored
  <2>5. Stored \subseteq Stored'
    BY <2>2, <2>3 DEF Stored
  <2> QED
    BY <2>2, <2>3, <2>4, <2>5
<1>3. table' = table \/ (Save /\ table' = Append(table, log[position]))
  BY DEF Next, HandleOrder, Publish, Acknowledge, EngineDies, EngineStarts, Send, Expire,
     PollNothing, Consume, Poll, Save, Commit, PersistenceDies, PersistenceStarts,
     vars, persistVars
<1> QED
  BY <1>1, <1>2, <1>3

\* The topic is only appended to.
LEMMA LogGrows ==
  ASSUME TypeOK, [Next]_vars
  PROVE  /\ Len(log) <= Len(log)'
         /\ \A k \in DOMAIN log : k \in DOMAIN log' /\ log'[k] = log[k]
<1>1. CASE log' = log
  BY <1>1 DEF TypeOK
<1>2. CASE \E k \in DOMAIN queue : log' = Append(log, queue[k])
  BY <1>2 DEF TypeOK
<1> QED
  BY <1>1, <1>2 DEF Next, HandleOrder, Publish, Acknowledge, EngineDies, EngineStarts, Send,
     Expire, PollNothing, Consume, Poll, Save, Commit, PersistenceDies, PersistenceStarts, vars

-----------------------------------------------------------------------------
\* Where the stored records end: everything that the running consumer has taken
\* is stored, except the record in hand before its save; a consumer that starts
\* goes back to the committed offset, so it must hold of that one too.
TakenStored ==
  /\ pc # "down" => committed <= position
  /\ pc \in {"poll", "commit"} => \A k \in 1 .. position : Key(log[k]) \in Stored
  /\ pc = "save" =>
        /\ committed < position
        /\ \A k \in 1 .. position - 1 : Key(log[k]) \in Stored

\* A step that leaves the consumer alone preserves what is stored of what.
LEMMA StoredPrefixKept ==
  ASSUME TypeOK, [Next]_vars, NEW n \in Nat, n <= Len(log),
         \A k \in 1 .. n : Key(log[k]) \in Stored
  PROVE  \A k \in 1 .. n : Key(log'[k]) \in Stored'
<1>1. \A k \in 1 .. n : k \in DOMAIN log
  BY DEF TypeOK
<1> QED
  BY <1>1, LogGrows, StoredGrows

\* The offsets never run ahead of the table.
LEMMA OffsetStep ==
  ASSUME TypeOK, TakenStored, CommittedKeysStored, [Next]_vars
  PROVE  TakenStored' /\ CommittedKeysStored'
<1> USE DEF TypeOK
<1>1. CASE UNCHANGED <<pc, position, committed>>
  <2>1. position - 1 <= Len(log) /\ (pc = "save" => position - 1 \in Nat)
    OBVIOUS
  <2>2. CommittedKeysStored'
    <3>1. \A k \in 1 .. committed : Key(log'[k]) \in Stored'
      <4>1. committed \in Nat /\ committed <= Len(log)
        OBVIOUS
      <4>2. \A k \in 1 .. committed : Key(log[k]) \in Stored
        BY DEF CommittedKeysStored
      <4> QED
        BY <4>1, <4>2, StoredPrefixKept
    <3> QED
      BY <1>1, <3>1 DEF CommittedKeysStored
  <2>3. pc \in {"poll", "commit"} => \A k \in 1 .. position : Key(log'[k]) \in Stored'
    <3> SUFFICES ASSUME pc \in {"poll", "commit"}
                 PROVE  \A k \in 1 .. position : Key(log'[k]) \in Stored'
      OBVIOUS
    <3>1. position \in Nat /\ position <= Len(log)
      OBVIOUS
    <3>2. \A k \in 1 .. position : Key(log[k]) \in Stored
      BY DEF TakenStored
    <3> QED
      BY <3>1, <3>2, StoredPrefixKept
  <2>4. pc = "save" => \A k \in 1 .. position - 1 : Key(log'[k]) \in Stored'
    BY <2>1, StoredPrefixKept DEF TakenStored
  <2> QED
    BY <1>1, <2>2, <2>3, <2>4 DEF TakenStored
<1>2. CASE Poll
  <2>1. /\ log' = log /\ Stored' = Stored /\ committed' = committed
        /\ pc = "poll" /\ pc' = "save" /\ position' = position + 1
    BY <1>2 DEF Poll, Stored
  <2> QED
    BY <2>1 DEF TakenStored, CommittedKeysStored
<1>3. CASE Save
  <2>1. /\ log' = log /\ committed' = committed /\ position' = position
        /\ pc = "save" /\ pc' = "commit"
    BY <1>3 DEF Save
  <2>2. Stored \subseteq Stored' /\ Key(log[position]) \in Stored'
    BY <1>3, StoredGrows
  <2> QED
    BY <2>1, <2>2 DEF TakenStored, CommittedKeysStored
<1>4. CASE Commit
  <2>1. /\ log' = log /\ Stored' = Stored /\ position' = position
        /\ committed' \in {position, committed} /\ pc = "commit" /\ pc' = "poll"
    BY <1>4 DEF Commit, Stored
  <2> QED
    BY <2>1 DEF TakenStored, CommittedKeysStored
<1>5. CASE PersistenceDies
  <2>1. log' = log /\ Stored' = Stored /\ committed' = committed /\ pc' = "down"
    BY <1>5 DEF PersistenceDies, Stored
  <2> QED
    BY <2>1 DEF TakenStored, CommittedKeysStored
<1>6. CASE PersistenceStarts
  <2>1. /\ log' = log /\ Stored' = Stored /\ committed' = committed
        /\ position' = committed /\ pc' = "poll"
    BY <1>6 DEF PersistenceStarts, Stored
  <2> QED
    BY <2>1 DEF TakenStored, CommittedKeysStored
<1> QED
  BY <1>1, <1>2, <1>3, <1>4, <1>5, <1>6
  DEF Next, HandleOrder, Publish, Acknowledge, EngineDies, EngineStarts, Send, Expire,
      PollNothing, Consume, vars, persistVars

\* Types hold from the start.
LEMMA TypeInit == Init => TypeOK
<1> SUFFICES ASSUME Init PROVE TypeOK
  OBVIOUS
<1>1. <<>> \in Seq(Trade)
  OBVIOUS
<1> QED
  BY <1>1 DEF Init, TypeOK

\* Offsets stay within the topic and everything that is queued, logged or stored
\* is a trade, whatever dies and is started again.
THEOREM PipelineTyped == Spec => []TypeOK
  BY TypeInit, TypeStep, PTL DEF Spec

\* The at-least-once guarantee, for any number of crashes and restarts of both
\* services at any point, lost commits, retried sends and a full queue.
THEOREM OffsetsFollowStorage == Spec => []CommittedKeysStored
<1>1. Init => TakenStored /\ CommittedKeysStored
  BY DEF Init, TakenStored, CommittedKeysStored
<1>2. TypeOK /\ TakenStored /\ CommittedKeysStored /\ [Next]_vars
        => TakenStored' /\ CommittedKeysStored'
  BY OffsetStep
<1> QED
  BY <1>1, <1>2, PipelineTyped, PTL DEF Spec

-----------------------------------------------------------------------------
\* The records among the first n that are the first with their key.
Firsts(n) == {j \in 1 .. n : FirstOfKey(j)}

\* The table holds what the first n records come to.
CopiedUpTo(n) ==
  /\ Stored = {Key(log[j]) : j \in 1 .. n}
  /\ Len(table) = Cardinality(Firsts(n))

\* The table is the image of some beginning of the topic.  It reaches beyond the
\* position of a consumer that has gone back to the committed offset.
Copied == \E n \in 0 .. Len(log) : CopiedUpTo(n)

\* A longer topic has the same records with the same rank in its beginning.
LEMMA FirstsKept ==
  ASSUME TypeOK, [Next]_vars, NEW n \in 0 .. Len(log)
  PROVE  /\ \A j \in 1 .. n : FirstOfKey(j)' <=> FirstOfKey(j)
         /\ Firsts(n)' = Firsts(n)
<1>1. \A j \in 1 .. n : log'[j] = log[j]
  BY LogGrows DEF TypeOK
<1>2. ASSUME NEW j \in 1 .. n PROVE FirstOfKey(j)' <=> FirstOfKey(j)
  <2>1. n \in Nat /\ \A i \in 1 .. j - 1 : i \in 1 .. n
    BY DEF TypeOK
  <2>2. log'[j] = log[j] /\ \A i \in 1 .. j - 1 : log'[i] = log[i]
    BY <1>1, <2>1
  <2> QED
    BY <2>2 DEF FirstOfKey, Key
<1>3. Firsts(n)' = Firsts(n)
  BY <1>2 DEF Firsts
<1> QED
  BY <1>2, <1>3

\* A step that adds no row keeps the table the image of the same records.
LEMMA CopyKept ==
  ASSUME TypeOK, TableFollowsLog, Copied, [Next]_vars, table' = table
  PROVE  TableFollowsLog' /\ Copied'
<1>1. Len(log) \in Nat /\ Len(log)' \in Nat /\ Len(log) <= Len(log)'
  BY LogGrows, TypeStep DEF TypeOK
<1>2. Copied'
  <2>1. PICK n \in 0 .. Len(log) : CopiedUpTo(n)
    BY DEF Copied
  <2>2. Stored' = Stored /\ Len(table)' = Len(table)
    BY DEF Stored
  <2>3. \A j \in 1 .. n : log'[j] = log[j]
    BY LogGrows DEF TypeOK
  <2>4. {Key(log'[j]) : j \in 1 .. n} = {Key(log[j]) : j \in 1 .. n}
    BY <2>3
  <2>5. Cardinality(Firsts(n)') = Cardinality(Firsts(n))
    BY FirstsKept
  <2>6. CopiedUpTo(n)'
    BY <2>1, <2>2, <2>4, <2>5 DEF CopiedUpTo
  <2>7. n \in 0 .. Len(log)'
    BY <1>1
  <2> QED
    BY <2>6, <2>7 DEF Copied
<1>3. ASSUME NEW r \in DOMAIN table
      PROVE  \E k \in DOMAIN log' : /\ table[r] = log'[k]
                                    /\ FirstOfKey(k)'
                                    /\ Cardinality(Firsts(k)') = r
  <2>1. PICK k \in DOMAIN log : /\ table[r] = log[k]
                                /\ FirstOfKey(k)
                                /\ Cardinality(Firsts(k)) = r
    BY DEF TableFollowsLog, Firsts
  <2>2. k \in 0 .. Len(log) /\ k \in 1 .. k
    BY DEF TypeOK
  <2>3. FirstOfKey(k)' /\ Firsts(k)' = Firsts(k)
    BY <2>1, <2>2, FirstsKept
  <2>4. k \in DOMAIN log' /\ log'[k] = log[k]
    BY LogGrows
  <2> QED
    BY <2>1, <2>3, <2>4
<1>4. TableFollowsLog'
  BY <1>3 DEF TableFollowsLog, Firsts
<1> QED
  BY <1>2, <1>4

\* A row is only added for a record whose key is new, when all records before it
\* are stored: it is the next first of its key.
LEMMA RowIsNext ==
  ASSUME TypeOK, TakenStored, Copied, pc = "save", Key(log[position]) \notin Stored
  PROVE  /\ FirstOfKey(position)
         /\ Cardinality(Firsts(position)) = Len(table) + 1
         /\ Stored \cup {Key(log[position])} = {Key(log[j]) : j \in 1 .. position}
<1>1. PICK n \in 0 .. Len(log) : CopiedUpTo(n)
  BY DEF Copied
<1>2. position \in Nat /\ position > 0 /\ n \in Nat
  BY DEF TypeOK
<1>3. \A k \in 1 .. position - 1 : Key(log[k]) \in Stored
  BY DEF TakenStored
<1>4. FirstOfKey(position)
  BY <1>3 DEF FirstOfKey
<1>5. n < position
  BY <1>1, <1>2 DEF CopiedUpTo
<1>6. ASSUME NEW j \in 1 .. position - 1, j > n PROVE ~FirstOfKey(j)
  <2>1. PICK i \in 1 .. n : Key(log[j]) = Key(log[i])
    BY <1>1, <1>3 DEF CopiedUpTo
  <2>2. i \in 1 .. j - 1
    BY <1>2, <1>6
  <2> QED
    BY <2>1, <2>2 DEF FirstOfKey
<1>7. Firsts(position) = Firsts(n) \cup {position}
  <2>1. ASSUME NEW j \in Firsts(position) PROVE j \in Firsts(n) \cup {position}
    BY <1>2, <1>5, <1>6 DEF Firsts
  <2>2. Firsts(n) \cup {position} \subseteq Firsts(position)
    BY <1>2, <1>4, <1>5 DEF Firsts
  <2> QED
    BY <2>1, <2>2
<1>8. IsFiniteSet(Firsts(n)) /\ position \notin Firsts(n)
  <2>1. IsFiniteSet(1 .. n)
    BY <1>2, FS_Interval
  <2>2. Firsts(n) \subseteq 1 .. n
    BY DEF Firsts
  <2>3. position \notin 1 .. n
    BY <1>2, <1>5
  <2> QED
    BY <2>1, <2>2, <2>3, FS_Subset
<1>9. Cardinality(Firsts(position)) = Cardinality(Firsts(n)) + 1
  BY <1>7, <1>8, FS_AddElement
<1>10. Stored \cup {Key(log[position])} = {Key(log[j]) : j \in 1 .. position}
  <2>1. Stored = {Key(log[j]) : j \in 1 .. n}
    BY <1>1 DEF CopiedUpTo
  <2>2. \A j \in 1 .. n : j \in 1 .. position
    BY <1>2, <1>5
  <2>3. \A j \in 1 .. position : j = position \/ j \in 1 .. position - 1
    BY <1>2
  <2>4. position \in 1 .. position
    BY <1>2
  <2> QED
    BY <1>3, <2>1, <2>2, <2>3, <2>4
<1> QED
  BY <1>1, <1>4, <1>9, <1>10 DEF CopiedUpTo

\* The row that Save adds takes the place that the topic gives it.
LEMMA CopyGrows ==
  ASSUME TypeOK, TakenStored, TableFollowsLog, Copied, Save,
         Key(log[position]) \notin Stored
  PROVE  TableFollowsLog' /\ Copied'
<1>1. /\ log' = log /\ pc = "save" /\ position \in DOMAIN log /\ log[position] \in Trade
      /\ table \in Seq(Trade) /\ table' = Append(table, log[position])
      /\ position \in 0 .. Len(log)
  BY DEF Save, TypeOK
<1>2. /\ Len(table') = Len(table) + 1
      /\ DOMAIN table' = DOMAIN table \cup {Len(table) + 1}
      /\ \A r \in DOMAIN table : table'[r] = table[r]
      /\ table'[Len(table) + 1] = log[position]
  BY <1>1
<1>3. \A k \in DOMAIN log : (FirstOfKey(k)' <=> FirstOfKey(k)) /\ Firsts(k)' = Firsts(k)
  BY <1>1 DEF FirstOfKey, Firsts
<1>4. PICK p \in DOMAIN log :
        /\ p = position /\ p \in 0 .. Len(log)
        /\ FirstOfKey(p)
        /\ Cardinality(Firsts(p)) = Len(table) + 1
        /\ Stored \cup {Key(log[position])} = {Key(log[j]) : j \in 1 .. p}
  BY <1>1, RowIsNext
<1>5. TableFollowsLog'
  <2>1. ASSUME NEW r \in DOMAIN table'
        PROVE  \E k \in DOMAIN log : /\ table'[r] = log[k]
                                     /\ FirstOfKey(k)'
                                     /\ Cardinality(Firsts(k)') = r
    <3>1. CASE r = Len(table) + 1
      <4>1. Cardinality(Firsts(p)') = r
        BY <1>3, <1>4, <3>1
      <4> QED
        BY <1>1, <1>2, <1>3, <1>4, <3>1, <4>1
    <3>2. CASE r \in DOMAIN table
      <4>1. PICK k \in DOMAIN log : /\ table[r] = log[k]
                                    /\ FirstOfKey(k)
                                    /\ Cardinality(Firsts(k)) = r
        BY <3>2 DEF TableFollowsLog, Firsts
      <4> QED
        BY <1>2, <1>3, <3>2, <4>1
    <3> QED
      BY <1>2, <3>1, <3>2
  <2> QED
    BY <1>1, <2>1 DEF TableFollowsLog, Firsts
<1>6. Stored' = Stored \cup {Key(log[position])}
  BY <1>2 DEF Stored
<1>7. CopiedUpTo(p)'
  <2>1. Stored' = {Key(log'[j]) : j \in 1 .. p}
    BY <1>1, <1>4, <1>6
  <2>2. Len(table') = Cardinality(Firsts(p)')
    BY <1>2, <1>3, <1>4
  <2> QED
    BY <2>1, <2>2 DEF CopiedUpTo
<1> QED
  BY <1>1, <1>4, <1>5, <1>7 DEF Copied

\* The table is the topic without its repetitions, in the topic's order, for any
\* crashes, redeliveries, lost commits and repeated sends.
THEOREM TableIsTheTopic == Spec => []TableFollowsLog
<1>1. Init => TableFollowsLog /\ Copied
  <2> SUFFICES ASSUME Init PROVE TableFollowsLog /\ Copied
    OBVIOUS
  <2>1. table = <<>> /\ log = <<>> /\ Len(log) = 0 /\ Len(table) = 0 /\ DOMAIN table = {}
    BY DEF Init
  <2>2. Stored = {} /\ {Key(log[j]) : j \in 1 .. 0} = {} /\ Firsts(0) = {}
    BY <2>1 DEF Stored, Firsts
  <2>3. CopiedUpTo(0)
    BY <2>1, <2>2, FS_EmptySet DEF CopiedUpTo
  <2> QED
    BY <2>1, <2>3 DEF TableFollowsLog, Copied
<1>2. TypeOK /\ TakenStored /\ TableFollowsLog /\ Copied /\ [Next]_vars
        => TableFollowsLog' /\ Copied'
  <2> SUFFICES ASSUME TypeOK, TakenStored, TableFollowsLog, Copied, [Next]_vars
               PROVE  TableFollowsLog' /\ Copied'
    OBVIOUS
  <2>1. table' = table \/ (Save /\ Key(log[position]) \notin Stored)
    BY DEF Next, HandleOrder, Publish, Acknowledge, EngineDies, EngineStarts, Send, Expire,
       PollNothing, Consume, Poll, Save, Commit, PersistenceDies, PersistenceStarts,
       vars, persistVars
  <2> QED
    BY <2>1, CopyKept, CopyGrows
<1>3. Init => TakenStored /\ CommittedKeysStored
  BY DEF Init, TakenStored, CommittedKeysStored
<1>4. TypeOK /\ TakenStored /\ CommittedKeysStored /\ [Next]_vars
        => TakenStored' /\ CommittedKeysStored'
  BY OffsetStep
<1> QED
  BY <1>1, <1>2, <1>3, <1>4, PipelineTyped, PTL DEF Spec

-----------------------------------------------------------------------------
\* Without restarts of the engine all trades stem from one process.
OneProcess ==
  /\ engineUp /\ process = 0
  /\ \A k \in DOMAIN call : call[k].process = 0
  /\ \A k \in DOMAIN queue : queue[k].process = 0
  /\ \A k \in DOMAIN log : log[k].process = 0
  /\ \A k \in DOMAIN table : table[k].process = 0

\* The entries of the concatenation of two sequences.
LEMMA ConcatEntries ==
  ASSUME NEW S, NEW a \in Seq(S), NEW b \in Seq(S)
  PROVE  /\ DOMAIN (a \o b) = 1 .. Len(a) + Len(b)
         /\ \A i \in 1 .. Len(a) : (a \o b)[i] = a[i]
         /\ \A i \in 1 .. Len(b) : (a \o b)[Len(a) + i] = b[i]
  OBVIOUS

\* What is left of a sequence without its k-th entry was in it.
LEMMA WithoutEntryFrom ==
  ASSUME NEW S, NEW s \in Seq(S), NEW k \in 1 .. Len(s),
         NEW i \in DOMAIN WithoutEntry(s, k)
  PROVE  \E j \in DOMAIN s : WithoutEntry(s, k)[i] = s[j]
<1>1. ASSUME NEW a \in Seq(S), a = SubSeq(s, 1, k - 1),
             NEW b \in Seq(S), b = SubSeq(s, k + 1, Len(s))
      PROVE  \E j \in DOMAIN s : WithoutEntry(s, k)[i] = s[j]
  <2>1. Len(a) = k - 1 /\ \A m \in 1 .. k - 1 : a[m] = s[m]
    BY <1>1
  <2>2. Len(b) = Len(s) - k /\ \A m \in 1 .. Len(s) - k : b[m] = s[k + m]
    BY <1>1
  <2>3. WithoutEntry(s, k) = a \o b
    BY <1>1 DEF WithoutEntry
  <2>4. i \in 1 .. (k - 1) + (Len(s) - k)
    BY <2>1, <2>2, <2>3, ConcatEntries
  <2>5. CASE i <= k - 1
    <3>1. i \in DOMAIN s /\ WithoutEntry(s, k)[i] = s[i]
      BY <2>1, <2>3, <2>4, <2>5, ConcatEntries
    <3> QED
      BY <3>1
  <2>6. CASE i > k - 1
    <3> DEFINE m == i - (k - 1)
    <3>1. m \in 1 .. Len(s) - k /\ i = (k - 1) + m
      BY <2>4, <2>6
    <3> HIDE DEF m
    <3>2. (a \o b)[Len(a) + m] = b[m] /\ b[m] = s[k + m] /\ k + m \in DOMAIN s
      BY <2>2, <3>1, ConcatEntries
    <3> QED
      BY <2>1, <2>3, <3>1, <3>2
  <2> QED
    BY <2>4, <2>5, <2>6
<1>2. SubSeq(s, 1, k - 1) \in Seq(S) /\ SubSeq(s, k + 1, Len(s)) \in Seq(S)
  OBVIOUS
<1> QED
  BY <1>1, <1>2

\* Only trades of the one process move on.
LEMMA OneProcessStep ==
  ASSUME MaxEngineRestarts = 0, TypeOK, OneProcess, [Next]_vars
  PROVE  OneProcess'
<1>1. ASSUME NEW s \in Symbols, NEW count \in 1 .. MaxTrades, HandleOrder(s, count)
      PROVE  OneProcess'
  <2>1. call' = [k \in 1 .. count |-> Numbered(s, nextTradeId[s] + k - 1)]
    BY <1>1 DEF HandleOrder
  <2>2. \A k \in DOMAIN call' : call'[k].process = process
    BY <2>1 DEF Numbered
  <2> QED
    BY <1>1, <2>2 DEF HandleOrder, OneProcess, persistVars
<1>2. CASE Publish
  <2>1. /\ call \in Seq(Trade) /\ call # <<>> /\ queue \in Seq(Trade)
        /\ Head(call).process = 0 /\ Head(call) \in Trade
    BY <1>2 DEF Publish, OneProcess, TypeOK
  <2>2. \A k \in DOMAIN call' : call'[k].process = 0
    BY <1>2, <2>1 DEF Publish, OneProcess
  <2>3. \A k \in DOMAIN queue' : queue'[k].process = 0
    BY <1>2, <2>1 DEF Publish, OneProcess
  <2> QED
    BY <1>2, <2>2, <2>3 DEF Publish, OneProcess, persistVars
<1>3. CASE Acknowledge
  BY <1>3 DEF Acknowledge, OneProcess, persistVars
<1>4. CASE EngineDies
  BY <1>4 DEF EngineDies, OneProcess
<1>5. CASE EngineStarts
  BY <1>5 DEF EngineStarts, OneProcess
<1>6. ASSUME NEW k \in DOMAIN queue, Send(k) PROVE OneProcess'
  <2>1. k \in 1 .. Len(queue) /\ queue \in Seq(Trade) /\ log \in Seq(Trade)
    BY <1>6 DEF Send, TypeOK
  <2>2. \A j \in DOMAIN queue' : queue'[j].process = 0
    <3>1. ASSUME NEW j \in DOMAIN WithoutEntry(queue, k)
          PROVE  WithoutEntry(queue, k)[j].process = 0
      BY <2>1, WithoutEntryFrom DEF OneProcess
    <3> QED
      BY <1>6, <3>1 DEF Send, OneProcess
  <2>3. \A j \in DOMAIN log' : log'[j].process = 0
    BY <1>6, <2>1 DEF Send, OneProcess
  <2> QED
    BY <1>6, <2>2, <2>3 DEF Send, OneProcess, engineVars, persistVars
<1>7. CASE Expire
  <2>1. \A j \in DOMAIN queue' : queue'[j].process = 0
    BY <1>7 DEF Expire, OneProcess, TypeOK
  <2> QED
    BY <1>7, <2>1 DEF Expire, OneProcess, engineVars, persistVars
<1>8. CASE Save
  <2>1. log[position].process = 0 /\ log[position] \in Trade /\ table \in Seq(Trade)
    BY <1>8 DEF Save, OneProcess, TypeOK
  <2>2. \A j \in DOMAIN table' : table'[j].process = 0
    BY <1>8, <2>1 DEF Save, OneProcess
  <2> QED
    BY <1>8, <2>2 DEF Save, OneProcess, engineVars
<1>9. CASE UNCHANGED <<engineVars, queue, log, table>>
  BY <1>9 DEF OneProcess, engineVars
<1> QED
  BY <1>1, <1>2, <1>3, <1>4, <1>5, <1>6, <1>7, <1>8, <1>9
  DEF Next, Consume, PollNothing, Poll, Commit, PersistenceDies, PersistenceStarts, vars,
      persistVars

\* As long as one matching engine process makes all trades, a trade whose record
\* the offset has passed is in the table, whatever happens to the persistence
\* service and to the sends.
THEOREM CommittedTradesAreStored ==
  ASSUME MaxEngineRestarts = 0
  PROVE  Spec => []CommittedTradesStored
<1>1. Init => OneProcess
  BY DEF Init, OneProcess
<1>2. TypeOK /\ OneProcess /\ [Next]_vars => OneProcess'
  BY OneProcessStep
<1>3. TypeOK /\ OneProcess /\ CommittedKeysStored => CommittedTradesStored
  <2> SUFFICES ASSUME TypeOK, OneProcess, CommittedKeysStored, NEW k \in 1 .. committed
               PROVE  \E r \in DOMAIN table : table[r] = log[k]
    BY DEF CommittedTradesStored
  <2>1. k \in DOMAIN log /\ log[k] \in Trade /\ log[k].process = 0
    BY DEF TypeOK, OneProcess
  <2>2. PICK r \in DOMAIN table : Key(log[k]) = Key(table[r])
    BY DEF CommittedKeysStored, Stored
  <2>3. table[r] \in Trade /\ table[r].process = 0
    BY <2>2 DEF TypeOK, OneProcess
  <2>4. table[r].symbol = log[k].symbol /\ table[r].id = log[k].id
    BY <2>2 DEF Key
  <2>5. table[r] = log[k]
    BY <2>1, <2>3, <2>4 DEF Trade
  <2> QED
    BY <2>2, <2>5
<1> QED
  BY <1>1, <1>2, <1>3, PipelineTyped, OffsetsFollowStorage, PTL DEF Spec
=============================================================================
