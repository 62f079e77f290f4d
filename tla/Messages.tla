------------------------------ MODULE Messages ------------------------------
(***************************************************************************)
(* The wire format (common/protocol): integers in big-endian bytes,        *)
(* strings and lists behind their length, a message as the sequence of its *)
(* fields, and a frame as length, type and payload.                        *)
(*                                                                         *)
(* The layout of a message is data here, one table instead of a pair of    *)
(* functions per message; the bytes are those that the functions write, up *)
(* to the size of a byte and the width of the integers, which are          *)
(* parameters.  A string is a sequence of bytes.                           *)
(***************************************************************************)
EXTENDS Integers, Sequences, SequencesExt

CONSTANTS
    Base,     \* values of a byte: 256 in the code, an even number
    LenBytes, \* width of uint32_t: 4 in the code
    IntBytes, \* width of int64_t and uint64_t: 8 in the code
    NONE      \* std::nullopt

ASSUME Widths ==
    /\ Base \in Nat /\ Base >= 2 /\ Base % 2 = 0
    /\ LenBytes \in Nat \ {0} /\ IntBytes \in Nat \ {0}

Bytes(n) == Base ^ n

\* The law of powers as far as the integers need it; provers do not know it.
ASSUME Powers ==
    /\ Bytes(0) = 1
    /\ \A n \in 0 .. LenBytes + IntBytes : Bytes(n) \in Nat \ {0} /\ Bytes(n + 1) = Base * Bytes(n)

-----------------------------------------------------------------------------
\* ByteWriter.

\* Mutant: the low bits are not masked out.
WriteUIntUnmasked(v, width) == [i \in 1 .. width |-> v \div Bytes(width - i)]

WriteUInt(v, width) == [i \in 1 .. width |-> (v \div Bytes(width - i)) % Base]

\* The cast to uint64_t is modulo 2^64.
WriteInt64(v) == WriteUInt(v % Bytes(IntBytes), IntBytes)

WriteString(s) == WriteUInt(Len(s), LenBytes) \o s

-----------------------------------------------------------------------------
\* ByteReader: `pos' is the next byte to read, and `values' what was read so far.
\* Reading takes a set of readers to the set of readers after it: one that throws
\* std::out_of_range is in none.

Reader(pos, values) == [pos |-> pos, values |-> values]

\* checkAvailable.
Available(data, pos, n) == pos + n <= Len(data) + 1

UIntAt(data, pos, width) ==
    FoldLeft(LAMBDA v, byte : v * Base + byte, 0, SubSeq(data, pos, pos + width - 1))

\* The cast of a uint64_t to int64_t.
ToInt64(v) == IF v < Bytes(IntBytes) \div 2 THEN v ELSE v - Bytes(IntBytes)

ReadUInt(data, readers, width) ==
    {Reader(r.pos + width, Append(r.values, UIntAt(data, r.pos, width))) :
        r \in {s \in readers : Available(data, s.pos, width)}}

ReadInt64(data, readers) ==
    {Reader(r.pos + IntBytes, Append(r.values, ToInt64(UIntAt(data, r.pos, IntBytes)))) :
        r \in {s \in readers : Available(data, s.pos, IntBytes)}}

ReadString(data, readers) ==
    LET from(r) == r.pos + LenBytes
        to(r) == from(r) + UIntAt(data, r.pos, LenBytes) - 1
    IN {Reader(to(r) + 1, Append(r.values, SubSeq(data, from(r), to(r)))) :
           r \in {s \in readers : /\ Available(data, s.pos, LenBytes)
                                  /\ Available(data, from(s), UIntAt(data, s.pos, LenBytes))}}

-----------------------------------------------------------------------------
\* The fields of an Order, of a Trade and of a PriceLevelSnapshot.
OrderFields == <<"u64", "string", "u8", "i64", "i64", "i64">>

TradeFields == <<"u64", "u64", "u64", "string", "i64", "i64", "i64">>

LevelFields == <<"i64", "i64", "u32">>

\* The fields of each message, in the order in which they are written.
Layout ==
    [NewOrder     |-> OrderFields,
     CancelOrder  |-> <<"u64">>,
     ModifyOrder  |-> <<"u64", "i64", "i64">>,
     OrderAck     |-> <<"u64", "trades">>,
     OrderReject  |-> <<"u64", "string">>,
     BookQuery    |-> <<"string">>,
     BookSnapshot |-> <<"string", "levels", "levels">>]

\* enum class MessageType.  TradeEvent = 6 is never sent, and MarketDataSnapshot = 7
\* only in the feed of MarketFeed.
MessageType ==
    [NewOrder |-> 1, CancelOrder |-> 2, ModifyOrder |-> 3, OrderAck |-> 4,
     OrderReject |-> 5, BookQuery |-> 8, BookSnapshot |-> 9]

TypeOfCode(code) == CHOOSE type \in DOMAIN MessageType : MessageType[type] = code

WriteScalar(kind, v) ==
    CASE kind = "u8" -> WriteUInt(v, 1)
      [] kind = "u32" -> WriteUInt(v, LenBytes)
      [] kind = "u64" -> WriteUInt(v, IntBytes)
      [] kind = "i64" -> WriteInt64(v)
      [] kind = "string" -> WriteString(v)

\* writeOrder, writeTrade and writeLevelSnapshot: the fields one after the other.
WriteRecord(fields, values) ==
    FlattenSeq([i \in DOMAIN fields |-> WriteScalar(fields[i], values[i])])

\* The loops of writeOrderAck and writeBookSnapshot.
WriteList(fields, rows) ==
    WriteUInt(Len(rows), LenBytes)
        \o FlattenSeq([i \in DOMAIN rows |-> WriteRecord(fields, rows[i])])

WriteField(kind, v) ==
    CASE kind = "trades" -> WriteList(TradeFields, v)
      [] kind = "levels" -> WriteList(LevelFields, v)
      [] OTHER -> WriteScalar(kind, v)

\* The payload of a message.
Write(message) ==
    LET fields == Layout[message.type]
    IN FlattenSeq([i \in DOMAIN fields |-> WriteField(fields[i], message.values[i])])

ReadScalar(data, readers, kind) ==
    CASE kind = "u8" -> ReadUInt(data, readers, 1)
      [] kind = "u32" -> ReadUInt(data, readers, LenBytes)
      [] kind = "u64" -> ReadUInt(data, readers, IntBytes)
      [] kind = "i64" -> ReadInt64(data, readers)
      [] kind = "string" -> ReadString(data, readers)

\* readOrder, readTrade and readLevelSnapshot.
ReadRecord(data, reader, fields) ==
    FoldLeft(LAMBDA readers, kind : ReadScalar(data, readers, kind), {reader}, fields)

\* Mutant: the list ends where the data does.
ReadRowIfAny(data, readers, fields) ==
    UNION {LET rows == ReadRecord(data, Reader(r.pos, <<>>), fields)
           IN IF rows = {} THEN {r}
              ELSE {Reader(s.pos, Append(r.values, s.values)) : s \in rows} : r \in readers}

\* One turn of the loops of readOrderAck and readBookSnapshot.
ReadRow(data, readers, fields) ==
    UNION {{Reader(s.pos, Append(r.values, s.values)) :
               s \in ReadRecord(data, Reader(r.pos, <<>>), fields)} : r \in readers}

\* The count of a list and the loop over its rows.
ReadList(data, readers, fields) ==
    LET rows(r) == FoldLeft(LAMBDA ss, i : ReadRow(data, ss, fields),
                            {Reader(r.pos + LenBytes, <<>>)},
                            [i \in 1 .. UIntAt(data, r.pos, LenBytes) |-> i])
    IN UNION {{Reader(s.pos, Append(r.values, s.values)) : s \in rows(r)} :
                 r \in {s \in readers : Available(data, s.pos, LenBytes)}}

ReadField(data, readers, kind) ==
    CASE kind = "trades" -> ReadList(data, readers, TradeFields)
      [] kind = "levels" -> ReadList(data, readers, LevelFields)
      [] OTHER -> ReadScalar(data, readers, kind)

\* The message in a payload; none is in one that is too short.
Read(type, data) ==
    {[type |-> type, values |-> r.values] :
        r \in FoldLeft(LAMBDA readers, kind : ReadField(data, readers, kind),
                       {Reader(1, <<>>)}, Layout[type])}

-----------------------------------------------------------------------------
\* What the types of the fields allow.

Scalars(kind) ==
    CASE kind = "u8" -> 0 .. Bytes(1) - 1
      [] kind = "u32" -> 0 .. Bytes(LenBytes) - 1
      [] kind = "u64" -> 0 .. Bytes(IntBytes) - 1
      [] kind = "i64" -> -(Bytes(IntBytes) \div 2) .. Bytes(IntBytes) \div 2 - 1
      [] kind = "string" -> {s \in Seq(0 .. Base - 1) : Len(s) < Bytes(LenBytes)}

IsRecord(fields, values) ==
    /\ values = [i \in DOMAIN fields |-> values[i]]
    /\ \A i \in DOMAIN fields : values[i] \in Scalars(fields[i])

IsList(fields, rows) ==
    /\ Len(rows) \in 0 .. Bytes(LenBytes) - 1
    /\ rows = [i \in 1 .. Len(rows) |-> rows[i]]
    /\ \A i \in 1 .. Len(rows) : IsRecord(fields, rows[i])

IsField(kind, v) ==
    CASE kind = "trades" -> IsList(TradeFields, v)
      [] kind = "levels" -> IsList(LevelFields, v)
      [] OTHER -> v \in Scalars(kind)

\* A message that the length of a frame can count.
IsMessage(message) ==
    /\ message = [type |-> message.type, values |-> message.values]
    /\ message.type \in DOMAIN Layout
    /\ LET fields == Layout[message.type]
       IN /\ message.values = [i \in DOMAIN fields |-> message.values[i]]
          /\ \A i \in DOMAIN fields : IsField(fields[i], message.values[i])
    /\ Len(Write(message)) + 1 < Bytes(LenBytes)

-----------------------------------------------------------------------------
\* Frames.

\* encodeFrame: the length covers the type and the payload.
EncodeFrame(code, payload) == WriteUInt(Len(payload) + 1, LenBytes) \o <<code>> \o payload

\* totalFrameSize of a buffer that has the length prefix.
FrameSize(buffer) == LenBytes + UIntAt(buffer, 1, LenBytes)

\* tryDecodeFrame: NONE until the buffer starts with a whole frame.
TryDecodeFrame(buffer) ==
    IF Len(buffer) < LenBytes \/ Len(buffer) < FrameSize(buffer) THEN NONE
    ELSE [code |-> buffer[LenBytes + 1],
          payload |-> SubSeq(buffer, LenBytes + 2, FrameSize(buffer)),
          bytesConsumed |-> FrameSize(buffer)]
=============================================================================
