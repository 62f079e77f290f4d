------------------------- MODULE FrameStreamProofs -------------------------
(***************************************************************************)
(* Proofs about FrameStream, for messages of any length and frames that    *)
(* are cut in any way.  What ByteWriter writes, ByteReader reads, field    *)
(* after field; tryDecodeFrame finds no end of a frame but its own; and    *)
(* what is under way on the connection is at any time what is left of one  *)
(* frame.                                                                  *)
(***************************************************************************)
EXTENDS FrameStream, SequenceTheorems, WellFoundedInduction, TLAPS

-----------------------------------------------------------------------------
\* Induction.

\* Induction over the natural numbers, for a claim that is given as a set.
LEMMA NatInduct ==
  ASSUME NEW A, 0 \in A, \A n \in Nat : n \in A => n + 1 \in A
  PROVE  Nat \subseteq A
<1> SUFFICES ASSUME Nat \ A # {} PROVE FALSE
  OBVIOUS
<1> DEFINE R == OpToRel(<, Nat)
<1>1. PICK x \in Nat \ A : \A y \in Nat \ A : <<y, x>> \notin R
  BY NatLessThanWellFounded, WFMin
<1>2. x - 1 \in Nat
  OBVIOUS
<1>3. <<x - 1, x>> \in R
  BY <1>2 DEF OpToRel
<1>4. x - 1 \in A
  BY <1>1, <1>2, <1>3
<1> QED
  BY <1>2, <1>4

\* Dividing by a product is dividing twice.
LEMMA DivideTwice ==
  ASSUME NEW v \in Nat, NEW p \in Nat \ {0}, NEW b \in Nat \ {0}
  PROVE  v \div (b * p) = (v \div p) \div b
  OBVIOUS

LEMMA Remainder ==
  ASSUME NEW a \in Nat, NEW b \in Nat \ {0}
  PROVE  (a \div b) * b + (a % b) = a
  OBVIOUS

\* A set of positions has a last one.
LEMMA LastPosition ==
  ASSUME NEW n \in Nat, NEW s \in SUBSET (1 .. n), s # {}
  PROVE  Max(s) \in s /\ \A y \in s : Max(s) >= y
<1> DEFINE HasLast(t) == \E x \in t : \A y \in t : x >= y
           A == {m \in Nat : \A t \in SUBSET (1 .. m) : t # {} => HasLast(t)}
<1>1. 0 \in A
  <2>1. \A t \in SUBSET (1 .. 0) : t = {}
    OBVIOUS
  <2> QED
    BY <2>1
<1>2. ASSUME NEW m \in Nat, m \in A PROVE m + 1 \in A
  <2> SUFFICES ASSUME NEW t \in SUBSET (1 .. m + 1), t # {} PROVE HasLast(t)
    OBVIOUS
  <2>1. CASE m + 1 \in t
    BY <2>1
  <2>2. CASE m + 1 \notin t
    <3>1. t \in SUBSET (1 .. m)
      BY <2>2
    <3> QED
      BY <1>2, <3>1
  <2> QED
    BY <2>1, <2>2
<1>3. Nat \subseteq A
  <2> HIDE DEF A
  <2> QED
    BY <1>1, <1>2, NatInduct
<1>4. HasLast(s)
  BY <1>3
<1> QED
  BY <1>4 DEF Max

-----------------------------------------------------------------------------
\* The folds of the readers.  Provers cannot be given an operator to fold with, so
\* that the five that occur have a tag each.

FoldStep(tag, data, fields, acc, x) ==
  CASE tag = "number" -> acc * Base + x
    [] tag = "record" -> ReadScalar(data, acc, x)
    [] tag = "rows" -> ReadRow(data, acc, fields)
    [] tag = "message" -> ReadField(data, acc, x)
    [] tag = "bytes" -> acc \o x

\* `g' is the fold of q over each of the sets of positions in D, as in the library.
IsFold(g, tag, data, fields, base, q, D) ==
  g = [s \in D |-> IF s = {} THEN base
                   ELSE FoldStep(tag, data, fields, g[s \ {Max(s)}], q[Max(s)])]

\* There is such a function.
LEMMA FoldExists ==
  ASSUME NEW tag, NEW data, NEW fields, NEW base, NEW q, NEW n \in Nat
  PROVE  \E g : IsFold(g, tag, data, fields, base, q, SUBSET (1 .. n))
<1> DEFINE A == {m \in Nat : \E g : IsFold(g, tag, data, fields, base, q, SUBSET (1 .. m))}
<1>1. 0 \in A
  <2>1. \A s \in SUBSET (1 .. 0) : s = {}
    OBVIOUS
  <2>2. IsFold([s \in SUBSET (1 .. 0) |-> base], tag, data, fields, base, q, SUBSET (1 .. 0))
    BY <2>1 DEF IsFold
  <2> QED
    BY <2>2
<1>2. ASSUME NEW m \in Nat, m \in A PROVE m + 1 \in A
  <2>1. PICK g : IsFold(g, tag, data, fields, base, q, SUBSET (1 .. m))
    BY <1>2
  <2> DEFINE D == SUBSET (1 .. m + 1)
             h == [s \in D |-> IF s = {} THEN base
                               ELSE FoldStep(tag, data, fields, g[s \ {Max(s)}], q[Max(s)])]
  <2>2. \A s \in SUBSET (1 .. m) : s \in D
    OBVIOUS
  <2>3. \A s \in SUBSET (1 .. m) : h[s] = g[s]
    BY <2>1, <2>2 DEF IsFold
  <2>4. \A s \in D : s # {} => s \ {Max(s)} \in SUBSET (1 .. m)
    <3> SUFFICES ASSUME NEW s \in D, s # {}, NEW x \in s, x # Max(s) PROVE x \in 1 .. m
      OBVIOUS
    <3>1. m + 1 \in Nat
      OBVIOUS
    <3>2. Max(s) \in s /\ Max(s) >= x
      BY <3>1, LastPosition
    <3>3. PICK z : z = Max(s)
      OBVIOUS
    <3>4. z \in 1 .. m + 1 /\ x \in 1 .. m + 1 /\ z >= x /\ x # z
      BY <3>2, <3>3
    <3> QED
      BY <3>4
  <2>5. IsFold(h, tag, data, fields, base, q, D)
    <3>1. h = [s \in D |-> IF s = {} THEN base
                           ELSE FoldStep(tag, data, fields, h[s \ {Max(s)}], q[Max(s)])]
      <4>1. \A s \in D : s # {} => h[s \ {Max(s)}] = g[s \ {Max(s)}]
        BY <2>3, <2>4
      <4> QED
        BY <4>1
    <3> HIDE DEF h
    <3> QED
      BY <3>1 DEF IsFold
  <2> HIDE DEF h
  <2> QED
    BY <2>5
<1>3. Nat \subseteq A
  <2> HIDE DEF A
  <2> QED
    BY <1>1, <1>2, NatInduct
<1> QED
  BY <1>3

\* A fold, step by step: `t' is what it has come to after each position.
IsTrace(t, tag, data, fields, base, q, n) ==
  /\ t[0] = base
  /\ \A k \in 0 .. n - 1 : t[k + 1] = FoldStep(tag, data, fields, t[k], q[k + 1])

HasTrace(end, tag, data, fields, base, q, n) ==
  \E t : IsTrace(t, tag, data, fields, base, q, n) /\ t[n] = end

LEMMA FoldTrace ==
  ASSUME NEW tag, NEW data, NEW fields, NEW base, NEW q, NEW n \in Nat, NEW g,
         IsFold(g, tag, data, fields, base, q, SUBSET (1 .. n))
  PROVE  HasTrace(g[1 .. n], tag, data, fields, base, q, n)
<1> DEFINE t == [k \in 0 .. n |-> g[1 .. k]]
<1>1. t[0] = base
  <2>1. 1 .. 0 = {} /\ {} \in SUBSET (1 .. n) /\ 0 \in 0 .. n
    OBVIOUS
  <2> QED
    BY <2>1 DEF IsFold
<1>2. ASSUME NEW k \in 0 .. n - 1
      PROVE  t[k + 1] = FoldStep(tag, data, fields, t[k], q[k + 1])
  <2>1. PICK s : s = 1 .. k + 1
    OBVIOUS
  <2>2. s \in SUBSET (1 .. n) /\ s # {} /\ s \ {k + 1} = 1 .. k /\ k + 1 \in s
    BY <2>1
  <2>3. Max(s) = k + 1
    <3>1. k + 1 \in Nat /\ s \in SUBSET (1 .. k + 1)
      BY <2>1
    <3>2. Max(s) \in s /\ Max(s) >= k + 1
      BY <2>2, <3>1, LastPosition
    <3> QED
      BY <2>1, <3>2
  <2>4. g[s] = FoldStep(tag, data, fields, g[s \ {Max(s)}], q[Max(s)])
    BY <2>2 DEF IsFold
  <2>5. k \in 0 .. n /\ k + 1 \in 0 .. n
    OBVIOUS
  <2>6. t[k] = g[1 .. k] /\ t[k + 1] = g[s]
    BY <2>1, <2>5
  <2> QED
    BY <2>2, <2>3, <2>4, <2>6
<1>3. t[n] = g[1 .. n]
  OBVIOUS
<1> HIDE DEF t
<1> QED
  BY <1>1, <1>2, <1>3 DEF IsTrace, HasTrace

\* The four folds.
LEMMA NumberTrace ==
  ASSUME NEW data, NEW pos, NEW width, NEW q, q = SubSeq(data, pos, pos + width - 1),
         NEW n \in Nat, DOMAIN q = 1 .. n
  PROVE  HasTrace(UIntAt(data, pos, width), "number", data, <<>>, 0, q, n)
<1> DEFINE Is(g) == g = [s \in SUBSET DOMAIN q |->
                           IF s = {} THEN 0 ELSE g[s \ {Max(s)}] * Base + q[Max(s)]]
<1>1. UIntAt(data, pos, width) = (CHOOSE g : Is(g))[DOMAIN q]
  BY DEF UIntAt, FoldLeft, MapThenFoldSet
<1>2. \A g : Is(g) <=> IsFold(g, "number", data, <<>>, 0, q, SUBSET (1 .. n))
  <2>1. \A acc, x : FoldStep("number", data, <<>>, acc, x) = acc * Base + x
    BY DEF FoldStep
  <2>2. PICK D : D = SUBSET (1 .. n)
    OBVIOUS
  <2>3. D = SUBSET DOMAIN q
    BY <2>2
  <2>4. ASSUME NEW g
        PROVE  [s \in D |-> IF s = {} THEN 0 ELSE g[s \ {Max(s)}] * Base + q[Max(s)]]
               = [s \in D |-> IF s = {} THEN 0
                              ELSE FoldStep("number", data, <<>>, g[s \ {Max(s)}], q[Max(s)])]
    BY <2>1, Zenon
  <2> QED
    <3> SUFFICES ASSUME NEW g
                 PROVE  Is(g) <=> IsFold(g, "number", data, <<>>, 0, q, D)
      BY <2>2, Zenon
    <3>1. Is(g) <=> g = [s \in D |-> IF s = {} THEN 0 ELSE g[s \ {Max(s)}] * Base + q[Max(s)]]
      BY <2>3, Zenon
    <3> QED
      BY <2>4, <3>1, Zenon DEF IsFold
<1> HIDE DEF Is
<1>3. \E g : Is(g)
  BY <1>2, FoldExists
<1>4. PICK g : Is(g) /\ UIntAt(data, pos, width) = g[1 .. n]
  BY <1>1, <1>3
<1>5. IsFold(g, "number", data, <<>>, 0, q, SUBSET (1 .. n))
  BY <1>2, <1>4
<1> QED
  BY <1>4, <1>5, FoldTrace

LEMMA RecordTrace ==
  ASSUME NEW data, NEW reader, NEW fields, NEW n \in Nat, DOMAIN fields = 1 .. n
  PROVE  HasTrace(ReadRecord(data, reader, fields), "record", data, <<>>, {reader}, fields, n)
<1> DEFINE Is(g) == g = [s \in SUBSET DOMAIN fields |->
                           IF s = {} THEN {reader}
                           ELSE ReadScalar(data, g[s \ {Max(s)}], fields[Max(s)])]
<1>1. ReadRecord(data, reader, fields) = (CHOOSE g : Is(g))[DOMAIN fields]
  BY DEF ReadRecord, FoldLeft, MapThenFoldSet
<1>2. \A g : Is(g) <=> IsFold(g, "record", data, <<>>, {reader}, fields, SUBSET (1 .. n))
  <2>1. \A acc, x : FoldStep("record", data, <<>>, acc, x) = ReadScalar(data, acc, x)
    BY DEF FoldStep
  <2> QED
    BY <2>1 DEF IsFold
<1> HIDE DEF Is
<1>3. \E g : Is(g)
  BY <1>2, FoldExists
<1>4. PICK g : Is(g) /\ ReadRecord(data, reader, fields) = g[1 .. n]
  BY <1>1, <1>3
<1>5. IsFold(g, "record", data, <<>>, {reader}, fields, SUBSET (1 .. n))
  BY <1>2, <1>4
<1> QED
  BY <1>4, <1>5, FoldTrace

\* The readers after the rows of a list.
ReadRows(data, reader, fields, n) ==
  FoldLeft(LAMBDA readers, i : ReadRow(data, readers, fields), {reader}, [i \in 1 .. n |-> i])

LEMMA RowsTrace ==
  ASSUME NEW data, NEW reader, NEW fields, NEW n \in Nat
  PROVE  \E q : HasTrace(ReadRows(data, reader, fields, n), "rows", data, fields, {reader}, q, n)
<1>1. PICK q : q = [i \in 1 .. n |-> i]
  OBVIOUS
<1> DEFINE Is(g) == g = [s \in SUBSET DOMAIN q |->
                           IF s = {} THEN {reader} ELSE ReadRow(data, g[s \ {Max(s)}], fields)]
<1>2. ReadRows(data, reader, fields, n) = (CHOOSE g : Is(g))[DOMAIN q]
  BY <1>1 DEF ReadRows, FoldLeft, MapThenFoldSet
<1>3. DOMAIN q = 1 .. n
  BY <1>1
<1>4. \A g : Is(g) <=> IsFold(g, "rows", data, fields, {reader}, q, SUBSET (1 .. n))
  <2>1. \A acc, x : FoldStep("rows", data, fields, acc, x) = ReadRow(data, acc, fields)
    BY DEF FoldStep
  <2> QED
    BY <1>3, <2>1 DEF IsFold
<1> HIDE DEF Is
<1>5. \E g : Is(g)
  BY <1>4, FoldExists
<1>6. PICK g : Is(g) /\ ReadRows(data, reader, fields, n) = g[1 .. n]
  BY <1>2, <1>3, <1>5
<1>7. IsFold(g, "rows", data, fields, {reader}, q, SUBSET (1 .. n))
  BY <1>4, <1>6
<1> QED
  BY <1>6, <1>7, FoldTrace

\* The messages that readers have read.
MessagesOf(type, readers) == {[type |-> type, values |-> r.values] : r \in readers}

LEMMA MessageTrace ==
  ASSUME NEW data, NEW type, NEW n \in Nat, DOMAIN Layout[type] = 1 .. n
  PROVE  \E end : /\ HasTrace(end, "message", data, <<>>, {Reader(1, <<>>)}, Layout[type], n)
                  /\ Read(type, data) = MessagesOf(type, end)
<1>1. PICK fields, base : fields = Layout[type] /\ base = {Reader(1, <<>>)}
  OBVIOUS
<1> DEFINE Is(g) == g = [s \in SUBSET DOMAIN fields |->
                           IF s = {} THEN base
                           ELSE ReadField(data, g[s \ {Max(s)}], fields[Max(s)])]
<1>2. Read(type, data) = MessagesOf(type, (CHOOSE g : Is(g))[DOMAIN fields])
  BY <1>1 DEF Read, FoldLeft, MapThenFoldSet, MessagesOf
<1>3. \A g : Is(g) <=> IsFold(g, "message", data, <<>>, base, fields, SUBSET (1 .. n))
  <2>1. \A acc, x : FoldStep("message", data, <<>>, acc, x) = ReadField(data, acc, x)
    BY DEF FoldStep
  <2>2. PICK D : D = SUBSET (1 .. n)
    OBVIOUS
  <2>3. D = SUBSET DOMAIN fields
    BY <1>1, <2>2
  <2>4. ASSUME NEW g
        PROVE  [s \in D |-> IF s = {} THEN base
                            ELSE ReadField(data, g[s \ {Max(s)}], fields[Max(s)])]
               = [s \in D |-> IF s = {} THEN base
                              ELSE FoldStep("message", data, <<>>, g[s \ {Max(s)}], fields[Max(s)])]
    BY <2>1, Zenon
  <2> QED
    BY <2>2, <2>3, <2>4, Zenon DEF IsFold
<1> HIDE DEF Is
<1>4. \E g : Is(g)
  BY <1>3, FoldExists
<1>5. PICK g : Is(g) /\ g = CHOOSE f : Is(f)
  BY <1>4
<1>6. IsFold(g, "message", data, <<>>, base, fields, SUBSET (1 .. n))
  BY <1>3, <1>5
<1>7. HasTrace(g[1 .. n], "message", data, <<>>, base, fields, n)
  BY <1>6, FoldTrace
<1> QED
  BY <1>1, <1>2, <1>5, <1>7
\* The bytes that WriteUInt writes of a number that fits are read as that number.
LEMMA NumberSurvives ==
  ASSUME NEW w \in 0 .. LenBytes + IntBytes, NEW v \in Nat, v < Bytes(w), NEW data, NEW pos,
         SubSeq(data, pos, pos + w - 1) = WriteUInt(v, w)
  PROVE  UIntAt(data, pos, w) = v
<1>w. w \in Nat /\ LenBytes + IntBytes \in Nat
  BY Widths
<1>1. PICK q : q = WriteUInt(v, w)
  OBVIOUS
<1>2. DOMAIN q = 1 .. w /\ \A i \in 1 .. w : q[i] = (v \div Bytes(w - i)) % Base
  BY <1>1 DEF WriteUInt
<1>3. HasTrace(UIntAt(data, pos, w), "number", data, <<>>, 0, q, w)
  BY <1>w, <1>1, <1>2, NumberTrace
<1>4. PICK t : IsTrace(t, "number", data, <<>>, 0, q, w) /\ t[w] = UIntAt(data, pos, w)
  BY <1>3 DEF HasTrace
<1>5. t[0] = 0 /\ \A k \in 0 .. w - 1 : t[k + 1] = t[k] * Base + q[k + 1]
  <2>1. \A acc, x : FoldStep("number", data, <<>>, acc, x) = acc * Base + x
    BY DEF FoldStep
  <2> QED
    BY <1>4, <2>1 DEF IsTrace
<1> DEFINE A == {k \in Nat : k <= w => t[k] = v \div Bytes(w - k)}
<1>6. 0 \in A
  <2>1. PICK p \in Nat \ {0} : p = Bytes(w)
    BY Powers
  <2>2. v \div p = 0
    BY <2>1
  <2>3. w - 0 = w
    BY <1>w
  <2> QED
    BY <1>5, <2>1, <2>2, <2>3
<1>7. ASSUME NEW k \in Nat, k \in A PROVE k + 1 \in A
  <2> SUFFICES ASSUME k + 1 <= w PROVE t[k + 1] = v \div Bytes(w - (k + 1))
    OBVIOUS
  <2>1. PICK n \in 0 .. LenBytes + IntBytes : n = w - (k + 1)
    BY <1>w
  <2>2. PICK p \in Nat \ {0}, b \in Nat \ {0} : p = Bytes(n) /\ b = Base
    <3>1. Bytes(n) \in Nat \ {0}
      BY Powers
    <3> QED
      BY <3>1, Widths
  <2>3. Bytes(w - k) = b * p
    <3>1. Bytes(n + 1) = Base * Bytes(n) /\ n + 1 = w - k
      BY <1>w, <2>1, Powers
    <3> QED
      BY <2>2, <3>1
  <2>4. t[k] = (v \div p) \div b
    <3>1. t[k] = v \div (b * p)
      BY <1>w, <1>7, <2>3
    <3> QED
      BY <3>1, DivideTwice
  <2>5. k \in 0 .. w - 1 /\ k + 1 \in 1 .. w
    BY <1>w
  <2>6. q[k + 1] = (v \div p) % b
    BY <1>2, <2>1, <2>2, <2>5
  <2>7. PICK a \in Nat : a = v \div p
    OBVIOUS
  <2>8. (a \div b) * b + (a % b) = a
    BY Remainder
  <2>9. t[k + 1] = (a \div b) * b + (a % b)
    BY <1>5, <2>2, <2>4, <2>5, <2>6, <2>7, Zenon
  <2> QED
    BY <2>1, <2>2, <2>7, <2>8, <2>9, Zenon
<1>8. Nat \subseteq A
  <2> HIDE DEF A
  <2> QED
    BY <1>6, <1>7, NatInduct
<1>9. t[w] = v \div Bytes(w - w)
  BY <1>w, <1>8
<1>10. w - w = 0 /\ v \div 1 = v
  BY <1>w
<1> QED
  BY <1>4, <1>9, <1>10, Powers

-----------------------------------------------------------------------------
\* Parts of a frame.

\* The bytes of F after the first a, up to the b-th.
Part(F, a, b) == SubSeq(F, a + 1, b)

LEMMA PartFacts ==
  ASSUME NEW S, NEW F \in Seq(S), NEW b \in 0 .. Len(F), NEW a \in 0 .. b
  PROVE  /\ Part(F, a, b) \in Seq(S) /\ Len(Part(F, a, b)) = b - a
         /\ \A i \in 1 .. b - a : Part(F, a, b)[i] = F[a + i]
<1>1. \A i \in a + 1 .. b : F[i] \in S
  OBVIOUS
<1>2. Part(F, a, b) \in Seq(S) /\ Len(Part(F, a, b)) = b - a
  BY <1>1 DEF Part
<1>3. \A i \in 1 .. b - a : Part(F, a, b)[i] = F[a + i]
  BY <1>1 DEF Part
<1> QED
  BY <1>2, <1>3

\* The first bytes.
LEMMA FirstPart ==
  ASSUME NEW S, NEW F \in Seq(S), NEW p \in 0 .. Len(F)
  PROVE  /\ Part(F, 0, p) \in Seq(S) /\ Len(Part(F, 0, p)) = p
         /\ \A i \in 1 .. p : Part(F, 0, p)[i] = F[i]
<1>1. PICK z \in 0 .. p : z = 0
  OBVIOUS
<1>2. PICK B : B = Part(F, z, p)
  OBVIOUS
<1>3. B \in Seq(S) /\ Len(B) = p - z /\ \A i \in 1 .. p - z : B[i] = F[z + i]
  BY <1>2, PartFacts, Zenon
<1>4. Len(B) = p /\ \A i \in 1 .. p : B[i] = F[i]
  BY <1>1, <1>3
<1> QED
  BY <1>1, <1>2, <1>3, <1>4, Zenon

LEMMA WholePart ==
  ASSUME NEW S, NEW F \in Seq(S)
  PROVE  Part(F, 0, Len(F)) = F
<1>1. PICK n \in Nat : n = Len(F)
  OBVIOUS
<1>2. n \in 0 .. Len(F)
  BY <1>1
<1>3. PICK B : B = Part(F, 0, n)
  OBVIOUS
<1>4. B \in Seq(S) /\ Len(B) = n /\ \A i \in 1 .. n : B[i] = F[i]
  BY <1>2, <1>3, FirstPart, Zenon
<1>5. B = F
  BY <1>1, <1>4, SeqEqual
<1> QED
  BY <1>1, <1>3, <1>5

\* What is left of parts that are cut and joined.
LEMMA PartsJoin ==
  ASSUME NEW S, NEW F \in Seq(S), NEW c \in 0 .. Len(F), NEW b \in 0 .. c, NEW a \in 0 .. b
  PROVE  Part(F, a, b) \o Part(F, b, c) = Part(F, a, c)
<1>1. PICK s, t, u : s = Part(F, a, b) /\ t = Part(F, b, c) /\ u = Part(F, a, c)
  OBVIOUS
<1>2. /\ s \in Seq(S) /\ Len(s) = b - a /\ \A i \in 1 .. b - a : s[i] = F[a + i]
      /\ t \in Seq(S) /\ Len(t) = c - b /\ \A i \in 1 .. c - b : t[i] = F[b + i]
      /\ u \in Seq(S) /\ Len(u) = c - a /\ \A i \in 1 .. c - a : u[i] = F[a + i]
  <2>1. b \in 0 .. Len(F) /\ a \in 0 .. c
    OBVIOUS
  <2> QED
    BY <1>1, <2>1, PartFacts
<1>3. /\ s \o t \in Seq(S) /\ Len(s \o t) = c - a
      /\ \A i \in 1 .. c - a : (s \o t)[i] = IF i <= b - a THEN s[i] ELSE t[i - (b - a)]
  <2>1. /\ s \o t \in Seq(S) /\ Len(s \o t) = Len(s) + Len(t)
        /\ \A i \in 1 .. Len(s) + Len(t) : (s \o t)[i] = IF i <= Len(s) THEN s[i] ELSE t[i - Len(s)]
    BY <1>2, ConcatProperties
  <2>2. Len(s) + Len(t) = c - a
    BY <1>2
  <2> QED
    BY <1>2, <2>1, <2>2, Zenon
<1>4. \A i \in 1 .. c - a : (s \o t)[i] = u[i]
  <2> SUFFICES ASSUME NEW i \in 1 .. c - a PROVE (s \o t)[i] = u[i]
    OBVIOUS
  <2>1. CASE i <= b - a
    BY <1>2, <1>3, <2>1
  <2>2. CASE ~(i <= b - a)
    <3>1. i - (b - a) \in 1 .. c - b /\ b + (i - (b - a)) = a + i
      BY <2>2
    <3> QED
      BY <1>2, <1>3, <2>2, <3>1
  <2> QED
    BY <2>1, <2>2, Zenon
<1> QED
  BY <1>1, <1>2, <1>3, <1>4, SeqEqual

LEMMA PartsCut ==
  ASSUME NEW S, NEW F \in Seq(S), NEW b \in 0 .. Len(F), NEW a \in 0 .. b, NEW n \in 0 .. b - a
  PROVE  First(Part(F, a, b), n) = Part(F, a, a + n) /\ Rest(Part(F, a, b), n) = Part(F, a + n, b)
<1>1. PICK s : s = Part(F, a, b)
  OBVIOUS
<1>2. s \in Seq(S) /\ Len(s) = b - a /\ \A i \in 1 .. b - a : s[i] = F[a + i]
  BY <1>1, PartFacts
<1>3. /\ n \in 0 .. Len(s) /\ 0 \in 0 .. n /\ Len(s) \in 0 .. Len(s) /\ n \in 0 .. Len(s)
      /\ a + n \in 0 .. Len(F) /\ a \in 0 .. a + n /\ a + n \in 0 .. b
  BY <1>2
<1>4. First(s, n) = Part(s, 0, n) /\ Rest(s, n) = Part(s, n, Len(s))
  BY DEF First, Rest, Part
<1>5. PICK f, g, r, t : f = Part(s, 0, n) /\ g = Part(F, a, a + n)
                        /\ r = Part(s, n, Len(s)) /\ t = Part(F, a + n, b)
  OBVIOUS
<1>6. f \in Seq(S) /\ Len(f) = n /\ \A i \in 1 .. n : f[i] = F[a + i]
  <2>1. f \in Seq(S) /\ Len(f) = n /\ \A i \in 1 .. n : f[i] = s[i]
    BY <1>2, <1>3, <1>5, FirstPart, Zenon
  <2> QED
    BY <1>2, <1>3, <2>1
<1>7. g \in Seq(S) /\ Len(g) = n /\ \A i \in 1 .. n : g[i] = F[a + i]
  <2>1. PICK e : e = a + n
    OBVIOUS
  <2>2. e \in 0 .. Len(F) /\ a \in 0 .. e /\ e - a = n /\ g = Part(F, a, e)
    BY <1>3, <1>5, <2>1
  <2>3. g \in Seq(S) /\ Len(g) = e - a /\ \A i \in 1 .. e - a : g[i] = F[a + i]
    BY <2>2, PartFacts
  <2> QED
    BY <2>2, <2>3
<1>8. r \in Seq(S) /\ Len(r) = b - a - n /\ \A i \in 1 .. b - a - n : r[i] = F[a + n + i]
  <2>1. r \in Seq(S) /\ Len(r) = Len(s) - n /\ \A i \in 1 .. Len(s) - n : r[i] = s[n + i]
    <3>1. PICK l : l = Len(s)
      OBVIOUS
    <3>2. s \in Seq(S) /\ l \in 0 .. Len(s) /\ n \in 0 .. l /\ r = Part(s, n, l)
      BY <1>2, <1>3, <1>5, <3>1, Zenon
    <3>3. r \in Seq(S) /\ Len(r) = l - n /\ \A i \in 1 .. l - n : r[i] = s[n + i]
      BY <3>2, PartFacts, Zenon
    <3> QED
      BY <3>1, <3>3, Zenon
  <2>2. \A i \in 1 .. b - a - n : n + i \in 1 .. b - a /\ a + (n + i) = a + n + i
    OBVIOUS
  <2> QED
    BY <1>2, <2>1, <2>2
<1>9. t \in Seq(S) /\ Len(t) = b - a - n /\ \A i \in 1 .. b - a - n : t[i] = F[a + n + i]
  <2>1. t \in Seq(S) /\ Len(t) = b - (a + n) /\ \A i \in 1 .. b - (a + n) : t[i] = F[a + n + i]
    BY <1>3, <1>5, PartFacts
  <2>2. b - (a + n) = b - a - n
    OBVIOUS
  <2> QED
    BY <2>1, <2>2
<1>10. f = g
  BY <1>6, <1>7, SeqEqual
<1>11. r = t
  BY <1>8, <1>9, SeqEqual
<1> QED
  BY <1>1, <1>4, <1>5, <1>10, <1>11

\* An integer is written as bytes.
LEMMA IntegerBytes ==
  ASSUME NEW w \in 0 .. LenBytes + IntBytes, NEW v \in Nat, NEW W, W = WriteUInt(v, w)
  PROVE  W \in Seq(Byte) /\ Len(W) = w
<1>1. w \in Nat /\ LenBytes + IntBytes \in Nat
  BY Widths
<1>2. \A i \in 1 .. w : (v \div Bytes(w - i)) % Base \in Byte
  <2> SUFFICES ASSUME NEW i \in 1 .. w PROVE (v \div Bytes(w - i)) % Base \in Byte
    OBVIOUS
  <2>1. PICK n \in 0 .. LenBytes + IntBytes : n = w - i
    BY <1>1
  <2>2. PICK d \in Nat \ {0} : d = Bytes(n)
    BY Powers
  <2>3. (v \div d) % Base \in 0 .. Base - 1
    BY Widths
  <2> QED
    BY <2>1, <2>2, <2>3 DEF Byte
<1>3. W \in [1 .. w -> Byte]
  BY <1>1, <1>2 DEF WriteUInt
<1>4. W \in Seq(Byte) /\ DOMAIN W = 1 .. w
  BY <1>3
<1>5. Len(W) \in Nat /\ 1 .. Len(W) = 1 .. w
  BY <1>4, LenProperties
<1> QED
  BY <1>1, <1>4, <1>5

\* z is a sequence over S of the a elements of x and then the b elements of y.
IsJoined(S, z, x, a, y, b) ==
  /\ z \in Seq(S) /\ Len(z) = a + b
  /\ \A i \in 1 .. a : z[i] = x[i]
  /\ \A i \in 1 .. b : z[a + i] = y[i]

LEMMA Joined ==
  ASSUME NEW S, NEW x \in Seq(S), NEW y \in Seq(S), NEW z, z = x \o y,
         NEW a \in Nat, a = Len(x), NEW b \in Nat, b = Len(y)
  PROVE  IsJoined(S, z, x, a, y, b)
<1>1. /\ z \in Seq(S) /\ Len(z) = Len(x) + Len(y)
      /\ \A i \in 1 .. Len(x) + Len(y) : z[i] = IF i <= Len(x) THEN x[i] ELSE y[i - Len(x)]
  BY ConcatProperties
<1>2. \A i \in 1 .. a + b : z[i] = IF i <= a THEN x[i] ELSE y[i - a]
  BY <1>1, Zenon
<1>3. \A i \in 1 .. a : z[i] = x[i]
  BY <1>2
<1>4. ASSUME NEW i \in 1 .. b PROVE z[a + i] = y[i]
  <2>1. a + i \in 1 .. a + b /\ ~(a + i <= a) /\ a + i - a = i
    OBVIOUS
  <2> QED
    BY <1>2, <2>1
<1> QED
  BY <1>1, <1>3, <1>4, Zenon DEF IsJoined

-----------------------------------------------------------------------------
\* Fields.

\* After its first p bytes, the data goes on with the bytes w, as far as it goes.
Follows(data, p, w) == \A i \in 1 .. Len(w) : p + i <= Len(data) => data[p + i] = w[i]

\* The readers that have read p bytes and these values: none if the data is shorter.
After(data, p, values) == IF p <= Len(data) THEN {Reader(p + 1, values)} ELSE {}

LEMMA BytesFollow ==
  ASSUME NEW data \in Seq(Byte), NEW p \in Nat, NEW w \in Seq(Byte), NEW n \in Nat, n = Len(w),
         Follows(data, p, w), p + n <= Len(data)
  PROVE  SubSeq(data, p + 1, p + n) = w
<1>1. PICK e : e = p + n
  OBVIOUS
<1>2. e \in 0 .. Len(data) /\ p \in 0 .. e /\ e - p = n
  BY <1>1
<1>3. PICK B : B = Part(data, p, e)
  OBVIOUS
<1>4. B \in Seq(Byte) /\ Len(B) = e - p /\ \A i \in 1 .. e - p : B[i] = data[p + i]
  BY <1>2, <1>3, PartFacts, Zenon
<1>5. Len(B) = Len(w) /\ \A i \in 1 .. Len(B) : B[i] = w[i]
  BY <1>2, <1>4 DEF Follows
<1>6. B = w
  BY <1>4, <1>5, SeqEqual
<1> QED
  BY <1>1, <1>3, <1>6 DEF Part

\* An integer is read where it was written.
LEMMA IntegerAt ==
  ASSUME NEW data \in Seq(Byte), NEW p \in Nat, NEW w \in 0 .. LenBytes + IntBytes,
         NEW v \in Nat, v < Bytes(w), Follows(data, p, WriteUInt(v, w)), p + w <= Len(data)
  PROVE  UIntAt(data, p + 1, w) = v
<1>n. PICK n \in Nat : n = w
  BY Widths
<1>1. PICK W : W = WriteUInt(v, w) /\ n = w
  BY <1>n
<1>2. W \in Seq(Byte) /\ n = Len(W)
  BY <1>1, IntegerBytes
<1>3. SubSeq(data, p + 1, p + n) = W
  <2>1. Follows(data, p, W) /\ p + n <= Len(data)
    BY <1>1
  <2> QED
    BY <1>2, <2>1, BytesFollow, Zenon
<1>4. PICK pos : pos = p + 1
  OBVIOUS
<1>5. SubSeq(data, pos, pos + w - 1) = WriteUInt(v, w)
  <2>1. pos + w - 1 = p + n
    BY <1>1, <1>4
  <2> QED
    BY <1>1, <1>3, <1>4, <2>1
<1> QED
  BY <1>4, <1>5, NumberSurvives

\* What is read by readers that have read p bytes: a value of w bytes, or nothing.
LEMMA ReadsUInt ==
  ASSUME NEW data \in Seq(Byte), NEW p \in Nat, NEW values, NEW w \in 0 .. LenBytes + IntBytes,
         NEW v \in Nat, v < Bytes(w), Follows(data, p, WriteUInt(v, w))
  PROVE  ReadUInt(data, After(data, p, values), w) = After(data, p + w, Append(values, v))
<1>w. w \in Nat /\ Len(data) \in Nat
  BY Widths
<1>1. CASE p + w <= Len(data)
  <2>1. UIntAt(data, p + 1, w) = v
    BY <1>1, IntegerAt
  <2>2. PICK r : r = Reader(p + 1, values)
    OBVIOUS
  <2>3. r.pos = p + 1 /\ r.values = values
    BY <2>2 DEF Reader
  <2>4. After(data, p, values) = {r}
    BY <1>w, <1>1, <2>2 DEF After
  <2>5. Available(data, r.pos, w)
    BY <1>w, <1>1, <2>3 DEF Available
  <2>6. ReadUInt(data, {r}, w) = {Reader(r.pos + w, Append(r.values, UIntAt(data, r.pos, w)))}
    BY <2>5 DEF ReadUInt
  <2>7. r.pos + w = p + w + 1
    BY <1>w, <2>3
  <2> QED
    BY <1>1, <2>1, <2>3, <2>4, <2>6, <2>7 DEF After
<1>2. CASE ~(p + w <= Len(data))
  <2>1. \A r \in After(data, p, values) : r.pos = p + 1
    BY DEF After, Reader
  <2>2. \A r \in After(data, p, values) : ~Available(data, r.pos, w)
    BY <1>w, <1>2, <2>1 DEF Available
  <2>3. ReadUInt(data, After(data, p, values), w) = {}
    BY <2>2 DEF ReadUInt
  <2> QED
    BY <1>2, <2>3 DEF After
<1> QED
  BY <1>1, <1>2

\* The cast to uint64_t and back.
LEMMA SignSurvives ==
  ASSUME NEW v \in Scalars("i64")
  PROVE  /\ v % Bytes(IntBytes) \in Nat /\ v % Bytes(IntBytes) < Bytes(IntBytes)
         /\ ToInt64(v % Bytes(IntBytes)) = v
<1>1. IntBytes \in 0 .. LenBytes + IntBytes
  BY Widths
<1>2. PICK b \in Nat \ {0} : b = Bytes(IntBytes)
  BY <1>1, Powers
<1>3. Scalars("i64") = -(b \div 2) .. b \div 2 - 1
  BY <1>2 DEF Scalars
<1>4. PICK h \in Nat : h = b \div 2 /\ 2 * h <= b
  OBVIOUS
<1>5. v \in Int /\ -h <= v /\ v <= h - 1
  BY <1>3, <1>4
<1>6. CASE v >= 0
  <2>1. v % b = v
    BY <1>4, <1>5, <1>6
  <2> QED
    BY <1>2, <1>4, <1>5, <1>6, <2>1 DEF ToInt64
<1>7. CASE ~(v >= 0)
  <2>1. v % b = v + b
    BY <1>4, <1>5, <1>7
  <2> QED
    BY <1>2, <1>4, <1>5, <1>7, <2>1 DEF ToInt64
<1> QED
  BY <1>6, <1>7

LEMMA ReadsInt64 ==
  ASSUME NEW data \in Seq(Byte), NEW p \in Nat, NEW values,
         NEW v \in Scalars("i64"), Follows(data, p, WriteInt64(v))
  PROVE  ReadInt64(data, After(data, p, values)) = After(data, p + IntBytes, Append(values, v))
<1>w. IntBytes \in Nat /\ Len(data) \in Nat /\ IntBytes \in 0 .. LenBytes + IntBytes
  BY Widths
<1>u. PICK u \in Nat : u = v % Bytes(IntBytes) /\ u < Bytes(IntBytes) /\ ToInt64(u) = v
  BY SignSurvives
<1>1. CASE p + IntBytes <= Len(data)
  <2>1. UIntAt(data, p + 1, IntBytes) = u
    BY <1>w, <1>u, <1>1, IntegerAt DEF WriteInt64
  <2>2. PICK r : r = Reader(p + 1, values)
    OBVIOUS
  <2>3. r.pos = p + 1 /\ r.values = values
    BY <2>2 DEF Reader
  <2>4. After(data, p, values) = {r}
    BY <1>w, <1>1, <2>2 DEF After
  <2>5. Available(data, r.pos, IntBytes)
    BY <1>w, <1>1, <2>3 DEF Available
  <2>6. ReadInt64(data, {r})
          = {Reader(r.pos + IntBytes, Append(r.values, ToInt64(UIntAt(data, r.pos, IntBytes))))}
    BY <2>5 DEF ReadInt64
  <2>7. r.pos + IntBytes = p + IntBytes + 1
    BY <1>w, <2>3
  <2> QED
    BY <1>u, <1>1, <2>1, <2>3, <2>4, <2>6, <2>7 DEF After
<1>2. CASE ~(p + IntBytes <= Len(data))
  <2>1. \A r \in After(data, p, values) : r.pos = p + 1
    BY DEF After, Reader
  <2>2. \A r \in After(data, p, values) : ~Available(data, r.pos, IntBytes)
    BY <1>w, <1>2, <2>1 DEF Available
  <2>3. ReadInt64(data, After(data, p, values)) = {}
    BY <2>2 DEF ReadInt64
  <2> QED
    BY <1>2, <2>3 DEF After
<1> QED
  BY <1>1, <1>2

\* What follows is two parts, one after the other.
LEMMA PartsFollow ==
  ASSUME NEW data \in Seq(Byte), NEW p \in Nat, NEW x \in Seq(Byte), NEW y \in Seq(Byte),
         NEW z, z = x \o y, Follows(data, p, z), NEW a \in Nat, a = Len(x)
  PROVE  Follows(data, p, x) /\ Follows(data, p + a, y)
<1>1. PICK b \in Nat : b = Len(y)
  OBVIOUS
<1>2. IsJoined(Byte, z, x, a, y, b)
  BY <1>1, Joined
<1>3. /\ z \in Seq(Byte) /\ Len(z) = a + b
      /\ \A i \in 1 .. a : z[i] = x[i]
      /\ \A i \in 1 .. b : z[a + i] = y[i]
  BY <1>2 DEF IsJoined
<1>4. \A i \in 1 .. a + b : p + i <= Len(data) => data[p + i] = z[i]
  BY <1>3 DEF Follows
<1>5. Follows(data, p, x)
  BY <1>3, <1>4 DEF Follows
<1>6. ASSUME NEW i \in 1 .. b, p + a + i <= Len(data) PROVE data[p + a + i] = y[i]
  <2>1. a + i \in 1 .. a + b /\ p + (a + i) = p + a + i
    OBVIOUS
  <2>2. data[p + (a + i)] = z[a + i]
    BY <1>4, <1>6, <2>1
  <2> QED
    BY <1>3, <2>1, <2>2
<1> QED
  BY <1>1, <1>5, <1>6 DEF Follows

LEMMA ReadsString ==
  ASSUME NEW data \in Seq(Byte), NEW p \in Nat, NEW values,
         NEW v \in Seq(Byte), NEW n \in Nat, n = Len(v), n < Bytes(LenBytes),
         Follows(data, p, WriteString(v))
  PROVE  ReadString(data, After(data, p, values)) = After(data, p + LenBytes + n, Append(values, v))
<1>w. PICK l \in Nat : l = LenBytes /\ l \in 0 .. LenBytes + IntBytes
  BY Widths
<1>1. PICK W : W = WriteUInt(n, l)
  OBVIOUS
<1>2. W \in Seq(Byte) /\ l = Len(W)
  BY <1>w, <1>1, IntegerBytes
<1>3. Follows(data, p, W) /\ Follows(data, p + l, v)
  <2>1. PICK z : z = W \o v
    OBVIOUS
  <2>2. Follows(data, p, z)
    BY <1>w, <1>1, <2>1 DEF WriteString
  <2> QED
    BY <1>2, <2>1, <2>2, PartsFollow, Zenon
<1>4. p + l <= Len(data) => UIntAt(data, p + 1, l) = n
  BY <1>w, <1>1, <1>3, IntegerAt
<1>5. PICK r : r = Reader(p + 1, values)
  OBVIOUS
<1>6. r.pos = p + 1 /\ r.values = values
  BY <1>5 DEF Reader
<1>7. After(data, p, values) \subseteq {r}
  BY <1>5 DEF After
<1>8. CASE p + l + n <= Len(data)
  <2>1. After(data, p, values) = {r}
    BY <1>5, <1>8 DEF After
  <2>2. Available(data, r.pos, LenBytes) /\ UIntAt(data, r.pos, LenBytes) = n
    BY <1>w, <1>4, <1>6, <1>8 DEF Available
  <2>3. Available(data, r.pos + LenBytes, n)
    BY <1>w, <1>6, <1>8 DEF Available
  <2>4. ReadString(data, {r})
          = {Reader(r.pos + LenBytes + n - 1 + 1,
                    Append(r.values, SubSeq(data, r.pos + LenBytes, r.pos + LenBytes + n - 1)))}
    BY <2>2, <2>3, Zenon DEF ReadString
  <2>5. PICK a \in Nat : a = p + l
    OBVIOUS
  <2>6. SubSeq(data, a + 1, a + n) = v
    <3>1. Follows(data, a, v) /\ a + n <= Len(data)
      BY <1>3, <1>8, <2>5
    <3> QED
      BY <3>1, BytesFollow, Zenon
  <2>7. /\ r.pos + LenBytes = a + 1 /\ r.pos + LenBytes + n - 1 = a + n
        /\ r.pos + LenBytes + n - 1 + 1 = a + n + 1
    BY <1>w, <1>6, <2>5
  <2>8. ReadString(data, {r}) = {Reader(a + n + 1, Append(values, v))}
    BY <1>6, <2>4, <2>6, <2>7
  <2> QED
    BY <1>w, <1>8, <2>1, <2>5, <2>8 DEF After
<1>9. CASE ~(p + l + n <= Len(data))
  <2>1. ~(/\ Available(data, r.pos, LenBytes)
          /\ Available(data, r.pos + LenBytes, UIntAt(data, r.pos, LenBytes)))
    <3>1. ASSUME Available(data, r.pos, LenBytes)
          PROVE  ~Available(data, r.pos + LenBytes, UIntAt(data, r.pos, LenBytes))
      <4>1. p + l <= Len(data)
        BY <1>w, <1>6, <3>1 DEF Available
      <4>2. UIntAt(data, r.pos, LenBytes) = n
        BY <1>w, <1>4, <1>6, <4>1
      <4> QED
        BY <1>w, <1>6, <1>9, <4>2 DEF Available
    <3> QED
      BY <3>1
  <2>2. ReadString(data, After(data, p, values)) = {}
    BY <1>7, <2>1 DEF ReadString
  <2> QED
    BY <1>w, <1>9, <2>2 DEF After
<1> QED
  BY <1>8, <1>9

\* The kinds of fields but for lists.
Kinds == {"u8", "u32", "u64", "i64", "string"}

LEMMA ScalarBytes ==
  ASSUME NEW kind \in Kinds, NEW v \in Scalars(kind), NEW W, W = WriteScalar(kind, v)
  PROVE  W \in Seq(Byte)
<1>w. /\ 1 \in 0 .. LenBytes + IntBytes /\ LenBytes \in 0 .. LenBytes + IntBytes
      /\ IntBytes \in 0 .. LenBytes + IntBytes
  BY Widths
<1>p. /\ Bytes(1) \in Nat /\ Bytes(LenBytes) \in Nat /\ Bytes(IntBytes) \in Nat
  BY <1>w, Powers
<1>1. CASE kind = "u8"
  <2>1. v \in Nat /\ W = WriteUInt(v, 1)
    BY <1>p, <1>1 DEF Scalars, WriteScalar
  <2> QED
    BY <1>w, <2>1, IntegerBytes
<1>2. CASE kind = "u32"
  <2>1. v \in Nat /\ W = WriteUInt(v, LenBytes)
    BY <1>p, <1>2 DEF Scalars, WriteScalar
  <2> QED
    BY <1>w, <2>1, IntegerBytes
<1>3. CASE kind = "u64"
  <2>1. v \in Nat /\ W = WriteUInt(v, IntBytes)
    BY <1>p, <1>3 DEF Scalars, WriteScalar
  <2> QED
    BY <1>w, <2>1, IntegerBytes
<1>4. CASE kind = "i64"
  <2>1. PICK u \in Nat : u = v % Bytes(IntBytes)
    BY <1>4, SignSurvives
  <2>2. W = WriteUInt(u, IntBytes)
    BY <1>4, <2>1 DEF WriteScalar, WriteInt64
  <2> QED
    BY <1>w, <2>2, IntegerBytes
<1>5. CASE kind = "string"
  <2>1. v \in Seq(Byte) /\ W = WriteString(v)
    BY <1>5 DEF Scalars, WriteScalar, Byte
  <2>2. PICK L : L = WriteUInt(Len(v), LenBytes)
    OBVIOUS
  <2>3. L \in Seq(Byte)
    <3>1. PICK n \in Nat : n = Len(v)
      BY <2>1
    <3> QED
      BY <1>w, <2>2, <3>1, IntegerBytes
  <2>4. W = L \o v
    BY <2>1, <2>2 DEF WriteString
  <2> QED
    BY <2>1, <2>3, <2>4
<1> QED
  BY <1>1, <1>2, <1>3, <1>4, <1>5 DEF Kinds

\* A field is read as what was written, and nothing if the data ends before it does.
LEMMA ReadsScalar ==
  ASSUME NEW data \in Seq(Byte), NEW p \in Nat, NEW values, NEW kind \in Kinds,
         NEW v \in Scalars(kind), NEW W, W = WriteScalar(kind, v), Follows(data, p, W)
  PROVE  ReadScalar(data, After(data, p, values), kind)
           = After(data, p + Len(W), Append(values, v))
<1>w. /\ 1 \in 0 .. LenBytes + IntBytes /\ LenBytes \in 0 .. LenBytes + IntBytes
      /\ IntBytes \in 0 .. LenBytes + IntBytes
  BY Widths
<1>p. /\ Bytes(1) \in Nat /\ Bytes(LenBytes) \in Nat /\ Bytes(IntBytes) \in Nat
  BY <1>w, Powers
<1>r. PICK rs : rs = After(data, p, values)
  OBVIOUS
<1>1. CASE kind = "u8"
  <2>1. v \in Nat /\ v < Bytes(1) /\ W = WriteUInt(v, 1)
    BY <1>p, <1>1 DEF Scalars, WriteScalar
  <2>2. ReadScalar(data, rs, kind) = ReadUInt(data, rs, 1)
    BY <1>1 DEF ReadScalar
  <2>3. Len(W) = 1
    BY <1>w, <2>1, IntegerBytes
  <2>4. PICK w \in 0 .. LenBytes + IntBytes : w = 1
    BY <1>w
  <2>5. ReadUInt(data, rs, w) = After(data, p + w, Append(values, v))
    BY <1>r, <2>1, <2>4, ReadsUInt
  <2> QED
    BY <1>r, <2>2, <2>3, <2>4, <2>5
<1>2. CASE kind = "u32"
  <2>1. v \in Nat /\ v < Bytes(LenBytes) /\ W = WriteUInt(v, LenBytes)
    BY <1>p, <1>2 DEF Scalars, WriteScalar
  <2>2. ReadScalar(data, rs, kind) = ReadUInt(data, rs, LenBytes)
    BY <1>2 DEF ReadScalar
  <2>3. Len(W) = LenBytes
    BY <1>w, <2>1, IntegerBytes
  <2> QED
    BY <1>w, <1>r, <2>1, <2>2, <2>3, ReadsUInt
<1>3. CASE kind = "u64"
  <2>1. v \in Nat /\ v < Bytes(IntBytes) /\ W = WriteUInt(v, IntBytes)
    BY <1>p, <1>3 DEF Scalars, WriteScalar
  <2>2. ReadScalar(data, rs, kind) = ReadUInt(data, rs, IntBytes)
    BY <1>3 DEF ReadScalar
  <2>3. Len(W) = IntBytes
    BY <1>w, <2>1, IntegerBytes
  <2> QED
    BY <1>w, <1>r, <2>1, <2>2, <2>3, ReadsUInt
<1>4. CASE kind = "i64"
  <2>1. v \in Scalars("i64") /\ W = WriteInt64(v)
    BY <1>4 DEF WriteScalar
  <2>2. ReadScalar(data, rs, kind) = ReadInt64(data, rs)
    BY <1>4 DEF ReadScalar
  <2>3. PICK u \in Nat : u = v % Bytes(IntBytes)
    BY <2>1, SignSurvives
  <2>4. Len(W) = IntBytes
    BY <1>w, <2>1, <2>3, IntegerBytes DEF WriteInt64
  <2> QED
    BY <1>r, <2>1, <2>2, <2>4, ReadsInt64
<1>5. CASE kind = "string"
  <2>1. v \in Seq(Byte) /\ Len(v) < Bytes(LenBytes) /\ W = WriteString(v)
    BY <1>5 DEF Scalars, WriteScalar, Byte
  <2>2. ReadScalar(data, rs, kind) = ReadString(data, rs)
    BY <1>5 DEF ReadScalar
  <2>3. PICK n \in Nat : n = Len(v)
    BY <2>1
  <2>4. Len(W) = LenBytes + n
    <3>1. PICK L : L = WriteUInt(n, LenBytes)
      OBVIOUS
    <3>2. L \in Seq(Byte) /\ Len(L) = LenBytes
      BY <1>w, <3>1, IntegerBytes
    <3>3. W = L \o v
      BY <2>1, <2>3, <3>1 DEF WriteString
    <3>4. Len(W) = Len(L) + Len(v)
      BY <2>1, <3>2, <3>3, ConcatProperties
    <3> QED
      BY <2>3, <3>2, <3>4
  <2>5. ReadString(data, rs) = After(data, p + LenBytes + n, Append(values, v))
    BY <1>r, <2>1, <2>3, ReadsString
  <2>6. p + Len(W) = p + LenBytes + n
    BY <2>4, Widths
  <2> QED
    BY <1>r, <2>2, <2>5, <2>6
<1> QED
  BY <1>1, <1>2, <1>3, <1>4, <1>5 DEF Kinds

-----------------------------------------------------------------------------
\* Sequences of fields.

\* FlattenSeq, step by step.
LEMMA FlattenTrace ==
  ASSUME NEW n \in Nat, NEW seqs \in [1 .. n -> Seq(Byte)]
  PROVE  \E t : /\ t[0] = <<>> /\ t[n] = FlattenSeq(seqs)
                /\ \A k \in 0 .. n - 1 : t[k + 1] = t[k] \o seqs[k + 1]
<1>1. seqs \in Seq(Seq(Byte)) /\ Len(seqs) = n
  <2>1. seqs \in Seq(Seq(Byte)) /\ DOMAIN seqs = 1 .. n
    OBVIOUS
  <2>2. Len(seqs) \in Nat /\ 1 .. Len(seqs) = 1 .. n
    BY <2>1, LenProperties
  <2> QED
    BY <2>1, <2>2
<1> DEFINE Is(f) == f = [i \in 1 .. n |-> IF i = 1 THEN seqs[i] ELSE f[i - 1] \o seqs[i]]
<1>2. \E f : Is(f)
  <2>1. PICK g : IsFold(g, "bytes", <<>>, <<>>, <<>>, seqs, SUBSET (1 .. n))
    BY FoldExists
  <2>2. PICK t : IsTrace(t, "bytes", <<>>, <<>>, <<>>, seqs, n)
    BY <2>1, FoldTrace DEF HasTrace
  <2>3. \A acc, x : FoldStep("bytes", <<>>, <<>>, acc, x) = acc \o x
    BY DEF FoldStep
  <2>4. t[0] = <<>> /\ \A k \in 0 .. n - 1 : t[k + 1] = t[k] \o seqs[k + 1]
    BY <2>2, <2>3 DEF IsTrace
  <2>5. PICK f : f = [i \in 1 .. n |-> t[i]]
    OBVIOUS
  <2>6. ASSUME NEW i \in 1 .. n PROVE f[i] = IF i = 1 THEN seqs[i] ELSE f[i - 1] \o seqs[i]
    <3>1. i - 1 \in 0 .. n - 1 /\ i - 1 + 1 = i
      OBVIOUS
    <3>2. f[i] = t[i - 1] \o seqs[i]
      BY <2>4, <2>5, <3>1
    <3>3. CASE i = 1
      <4>1. seqs[i] \in Seq(Byte) /\ t[i - 1] = <<>>
        BY <2>4, <3>3
      <4> QED
        BY <3>2, <3>3, <4>1
    <3>4. CASE i # 1
      <4>1. i - 1 \in 1 .. n
        BY <3>4
      <4> QED
        BY <2>5, <3>2, <3>4, <4>1
    <3> QED
      BY <3>3, <3>4
  <2>7. Is(f)
    BY <2>5, <2>6, Zenon
  <2> QED
    BY <2>7, Zenon
<1>3. CASE n = 0
  <2>1. seqs = <<>> /\ FlattenSeq(seqs) = seqs
    BY <1>1, <1>3 DEF FlattenSeq
  <2>2. PICK t : t = [k \in {0} |-> <<>>]
    OBVIOUS
  <2> QED
    BY <1>3, <2>1, <2>2
<1>4. CASE n # 0
  <2>1. FlattenSeq(seqs) = (CHOOSE f : Is(f))[n]
    BY <1>1, <1>4 DEF FlattenSeq
  <2> HIDE DEF Is
  <2>2. PICK f : Is(f) /\ FlattenSeq(seqs) = f[n]
    BY <1>2, <2>1
  <2>3. \A i \in 1 .. n : f[i] = IF i = 1 THEN seqs[i] ELSE f[i - 1] \o seqs[i]
    BY <2>2 DEF Is
  <2>4. PICK t : t = [k \in 0 .. n |-> IF k = 0 THEN <<>> ELSE f[k]]
    OBVIOUS
  <2>5. t[0] = <<>> /\ t[n] = FlattenSeq(seqs)
    BY <1>4, <2>2, <2>4
  <2>6. ASSUME NEW k \in 0 .. n - 1 PROVE t[k + 1] = t[k] \o seqs[k + 1]
    <3>1. k + 1 \in 1 .. n /\ k + 1 \in 0 .. n /\ k \in 0 .. n /\ k + 1 - 1 = k /\ k + 1 # 0
      OBVIOUS
    <3>2. t[k + 1] = f[k + 1]
      BY <2>4, <3>1
    <3>3. CASE k = 0
      <4>1. seqs[k + 1] \in Seq(Byte) /\ t[k] = <<>> /\ f[k + 1] = seqs[k + 1]
        BY <2>3, <2>5, <3>1, <3>3
      <4> QED
        BY <3>2, <4>1
    <3>4. CASE k # 0
      <4>1. t[k] = f[k] /\ k + 1 # 1
        BY <2>4, <3>1, <3>4
      <4>2. PICK j \in 1 .. n : j = k + 1 /\ j - 1 = k /\ j # 1
        BY <3>1, <3>4
      <4>3. f[j] = f[j - 1] \o seqs[j]
        BY <2>3, <4>2, Zenon
      <4> QED
        BY <3>2, <4>1, <4>2, <4>3, Zenon
    <3> QED
      BY <3>3, <3>4
  <2> QED
    BY <2>5, <2>6
<1> QED
  BY <1>3, <1>4

\* z is the first n of the sequences, the one after the k-th after its first o[k] bytes.
LaidAt(z, seqs, o, n) ==
  /\ z \in Seq(Byte) /\ o[0] = 0 /\ o[n] = Len(z)
  /\ \A k \in 0 .. n : o[k] \in 0 .. Len(z)
  /\ \A k \in 0 .. n - 1 :
       /\ seqs[k + 1] \in Seq(Byte)
       /\ o[k + 1] = o[k] + Len(seqs[k + 1])
       /\ \A i \in 1 .. Len(seqs[k + 1]) : z[o[k] + i] = seqs[k + 1][i]

LEMMA WithinPart ==
  ASSUME NEW a \in Nat, NEW c \in 0 .. a, NEW d \in 0 .. a, NEW l \in Nat, d = c + l,
         NEW i \in 1 .. l
  PROVE  c + i \in 1 .. a
  OBVIOUS

LEMMA OneMoreLaid ==
  ASSUME NEW m \in Nat, NEW seqs, NEW s \in Seq(Byte), s = seqs[m + 1],
         NEW y, NEW z, z = y \o s, NEW o, LaidAt(y, seqs, o, m)
  PROVE  \E e : LaidAt(z, seqs, e, m + 1)
<1>1. PICK a \in Nat, b \in Nat : a = Len(y) /\ b = Len(s)
  BY DEF LaidAt
<1>2. IsJoined(Byte, z, y, a, s, b)
  BY <1>1, Joined DEF LaidAt
<1>3. /\ z \in Seq(Byte) /\ Len(z) = a + b
      /\ \A i \in 1 .. a : z[i] = y[i]
      /\ \A i \in 1 .. b : z[a + i] = s[i]
  BY <1>2 DEF IsJoined
<1>4. PICK e : e = [k \in 0 .. m + 1 |-> IF k = m + 1 THEN a + b ELSE o[k]]
  OBVIOUS
<1>5. \A k \in 0 .. m : e[k] = o[k] /\ o[k] \in 0 .. a
  BY <1>1, <1>4 DEF LaidAt
<1>6. e[m + 1] = a + b /\ o[m] = a /\ o[0] = 0
  BY <1>1, <1>4 DEF LaidAt
<1>7. ASSUME NEW k \in 0 .. m
      PROVE  /\ seqs[k + 1] \in Seq(Byte)
             /\ e[k + 1] = e[k] + Len(seqs[k + 1])
             /\ \A i \in 1 .. Len(seqs[k + 1]) : z[e[k] + i] = seqs[k + 1][i]
  <2>1. CASE k = m
    <3>1. seqs[k + 1] = s /\ e[k + 1] = a + b
      BY <1>6, <2>1
    <3>2. e[k] = a
      BY <1>5, <1>6, <2>1
    <3> QED
      BY <1>1, <1>3, <3>1, <3>2, Zenon
  <2>2. CASE k # m
    <3>1. k \in 0 .. m - 1 /\ k + 1 \in 0 .. m
      BY <2>2
    <3>2. PICK x \in Seq(Byte), l \in Nat : x = seqs[k + 1] /\ l = Len(x)
      BY <3>1 DEF LaidAt
    <3>3. o[k + 1] = o[k] + l /\ \A i \in 1 .. l : y[o[k] + i] = x[i]
      BY <3>1, <3>2 DEF LaidAt
    <3>4. e[k] = o[k] /\ e[k + 1] = o[k + 1] /\ o[k] \in 0 .. a /\ o[k + 1] \in 0 .. a
      BY <1>5, <3>1
    <3>5. ASSUME NEW i \in 1 .. l PROVE z[e[k] + i] = x[i]
      <4>1. PICK c \in 0 .. a, d \in 0 .. a : c = o[k] /\ d = o[k + 1] /\ d = c + l
        BY <3>3, <3>4, Zenon
      <4>2. c + i \in 1 .. a
        BY <4>1, WithinPart, Zenon
      <4>3. z[c + i] = y[c + i]
        BY <1>3, <4>2, Zenon
      <4>4. y[o[k] + i] = x[i]
        BY <3>3, Zenon
      <4>5. y[c + i] = x[i] /\ e[k] = c
        BY <3>4, <4>1, <4>4, Zenon
      <4> QED
        BY <4>3, <4>5, Zenon
    <3> QED
      BY <3>2, <3>3, <3>4, <3>5
  <2> QED
    BY <2>1, <2>2
<1>8. (m + 1) - 1 = m /\ 0 \in 0 .. m
  OBVIOUS
<1>9. \A k \in 0 .. m + 1 : e[k] \in 0 .. Len(z)
  <2>1. PICK c \in Nat : c = a + b /\ c = Len(z)
    BY <1>3
  <2>2. ASSUME NEW k \in 0 .. m PROVE e[k] \in 0 .. c
    <3>1. PICK d \in 0 .. a : d = e[k]
      BY <1>5, Zenon
    <3>2. d \in 0 .. c
      BY <2>1
    <3> QED
      BY <3>1, <3>2, Zenon
  <2>3. e[m + 1] \in 0 .. c
    BY <1>6, <2>1
  <2>4. \A k \in 0 .. m + 1 : k \in 0 .. m \/ k = m + 1
    OBVIOUS
  <2> QED
    BY <2>1, <2>2, <2>3, <2>4, Zenon
<1>10. z \in Seq(Byte) /\ e[0] = 0 /\ e[m + 1] = Len(z)
  BY <1>3, <1>5, <1>6, <1>8
<1>11. LaidAt(z, seqs, e, m + 1)
  BY <1>7, <1>8, <1>9, <1>10 DEF LaidAt
<1> QED
  BY <1>11

LEMMA Flattened ==
  ASSUME NEW n \in Nat, NEW seqs \in [1 .. n -> Seq(Byte)], NEW z, z = FlattenSeq(seqs)
  PROVE  \E o : LaidAt(z, seqs, o, n)
<1>1. PICK t : /\ t[0] = <<>> /\ t[n] = z
               /\ \A k \in 0 .. n - 1 : t[k + 1] = t[k] \o seqs[k + 1]
  BY FlattenTrace
<1> DEFINE A == {m \in Nat : m <= n => \E o : LaidAt(t[m], seqs, o, m)}
<1>2. 0 \in A
  <2>1. PICK o : o = [k \in 0 .. 0 |-> 0]
    OBVIOUS
  <2>2. o[0] = 0 /\ <<>> \in Seq(Byte) /\ Len(<<>>) = 0
    BY <2>1
  <2>3. LaidAt(t[0], seqs, o, 0)
    BY <1>1, <2>2 DEF LaidAt
  <2> QED
    BY <2>3
<1>3. ASSUME NEW m \in Nat, m \in A PROVE m + 1 \in A
  <2> SUFFICES ASSUME m + 1 <= n PROVE \E o : LaidAt(t[m + 1], seqs, o, m + 1)
    OBVIOUS
  <2>1. PICK o : LaidAt(t[m], seqs, o, m)
    BY <1>3
  <2>2. m \in 0 .. n - 1 /\ m + 1 \in 1 .. n
    OBVIOUS
  <2>s. PICK s \in Seq(Byte) : s = seqs[m + 1]
    BY <2>2
  <2>3. PICK y, x : y = t[m] /\ x = t[m + 1] /\ x = y \o s
    BY <1>1, <2>2, <2>s
  <2>4. \E e : LaidAt(x, seqs, e, m + 1)
    BY <2>1, <2>s, <2>3, OneMoreLaid
  <2> QED
    BY <2>3, <2>4
<1>4. Nat \subseteq A
  <2> HIDE DEF A
  <2> QED
    BY <1>2, <1>3, NatInduct
<1> QED
  BY <1>1, <1>4

\* If what is laid out follows, each of the sequences does.
LEMMA LaidFollows ==
  ASSUME NEW data \in Seq(Byte), NEW p \in Nat, NEW n \in Nat, NEW seqs, NEW z, NEW o,
         LaidAt(z, seqs, o, n), Follows(data, p, z), NEW k \in 0 .. n - 1
  PROVE  o[k] \in Nat /\ Follows(data, p + o[k], seqs[k + 1])
<1>k. k \in 0 .. n /\ k + 1 \in 0 .. n
  OBVIOUS
<1>c. PICK c \in Nat : c = Len(z)
  BY DEF LaidAt
<1>a. PICK a \in 0 .. c, e \in 0 .. c : a = o[k] /\ e = o[k + 1]
  BY <1>k, <1>c, Zenon DEF LaidAt
<1>x. PICK x \in Seq(Byte) : x = seqs[k + 1]
  BY Zenon DEF LaidAt
<1>1. a = o[k] /\ x = seqs[k + 1] /\ c = Len(z)
  BY <1>c, <1>a, <1>x
<1>2. PICK l \in Nat : l = Len(x)
  OBVIOUS
<1>4. a + l <= c /\ \A i \in 1 .. l : z[a + i] = x[i]
  <2>1. o[k + 1] = o[k] + l /\ \A i \in 1 .. l : z[o[k] + i] = x[i]
    BY <1>2, <1>x, Zenon DEF LaidAt
  <2>2. e = a + l
    BY <1>a, <2>1, Zenon
  <2>3. a + l <= c
    BY <2>2
  <2> QED
    BY <1>a, <2>1, <2>3, Zenon
<1>5. \A i \in 1 .. c : p + i <= Len(data) => data[p + i] = z[i]
  BY <1>1 DEF Follows
<1>6. ASSUME NEW i \in 1 .. l, p + a + i <= Len(data) PROVE data[p + a + i] = x[i]
  <2>1. a + i \in 1 .. c /\ p + (a + i) = p + a + i
    BY <1>4
  <2>2. data[p + (a + i)] = z[a + i]
    BY <1>5, <1>6, <2>1
  <2> QED
    BY <1>4, <2>1, <2>2
<1> QED
  BY <1>1, <1>2, <1>6 DEF Follows

\* The first k of the values.
Initial(values, k) == [i \in 1 .. k |-> values[i]]

LEMMA AppendNext ==
  ASSUME NEW values, NEW k \in Nat
  PROVE  Append(Initial(values, k), values[k + 1]) = Initial(values, k + 1)
<1>1. PICK S : S = {values[i] : i \in 1 .. k + 1}
  OBVIOUS
<1>2. PICK s, v : s = Initial(values, k) /\ v = values[k + 1]
  OBVIOUS
<1>3. s \in [1 .. k -> S] /\ v \in S
  BY <1>1, <1>2 DEF Initial
<1>4. s \in Seq(S) /\ Len(s) = k
  <2>1. s \in Seq(S) /\ DOMAIN s = 1 .. k
    BY <1>3
  <2>2. Len(s) \in Nat /\ 1 .. Len(s) = 1 .. k
    BY <2>1, LenProperties
  <2> QED
    BY <2>1, <2>2
<1>5. PICK a, b : a = Append(s, v) /\ b = Initial(values, k + 1)
  OBVIOUS
<1>6. /\ a \in Seq(S) /\ Len(a) = k + 1
      /\ \A i \in 1 .. k : a[i] = s[i]
      /\ a[k + 1] = v
  BY <1>3, <1>4, <1>5, AppendProperties
<1>7. b \in [1 .. k + 1 -> S]
  BY <1>1, <1>5 DEF Initial
<1>8. DOMAIN a = 1 .. k + 1
  BY <1>6, LenProperties
<1>9. ASSUME NEW i \in 1 .. k + 1 PROVE a[i] = b[i]
  <2>1. b[i] = values[i]
    BY <1>5 DEF Initial
  <2>2. CASE i \in 1 .. k
    BY <1>2, <1>6, <2>1, <2>2 DEF Initial
  <2>3. CASE i = k + 1
    BY <1>2, <1>6, <2>1, <2>3
  <2> QED
    BY <2>2, <2>3
<1>10. b \in Seq(S) /\ Len(b) = k + 1
  <2>1. b \in Seq(S) /\ DOMAIN b = 1 .. k + 1
    BY <1>7
  <2>2. Len(b) \in Nat /\ 1 .. Len(b) = 1 .. k + 1
    BY <2>1, LenProperties
  <2> QED
    BY <2>1, <2>2
<1>11. a = b
  BY <1>6, <1>9, <1>10, SeqEqual
<1> QED
  BY <1>2, <1>5, <1>11

\* Reading one value after the other: each step of t reads the next of the values.
ReadsEach(t, data, p, seqs, o, values, n) ==
  /\ t[0] = After(data, p, <<>>)
  /\ \A k \in 0 .. n - 1 :
       t[k] = After(data, p + o[k], Initial(values, k))
       => t[k + 1] = After(data, p + o[k] + Len(seqs[k + 1]),
                           Append(Initial(values, k), values[k + 1]))

LEMMA ReadsOn ==
  ASSUME NEW data \in Seq(Byte), NEW p \in Nat, NEW n \in Nat, NEW seqs, NEW z, NEW o,
         LaidAt(z, seqs, o, n), NEW values, NEW t, ReadsEach(t, data, p, seqs, o, values, n)
  PROVE  t[n] = After(data, p + Len(z), Initial(values, n))
<1> DEFINE A == {k \in Nat : k <= n => t[k] = After(data, p + o[k], Initial(values, k))}
<1>1. 0 \in A
  <2>1. Initial(values, 0) = <<>>
    BY DEF Initial
  <2>2. p + o[0] = p
    BY DEF LaidAt
  <2> QED
    BY <2>1, <2>2 DEF ReadsEach
<1>2. ASSUME NEW k \in Nat, k \in A PROVE k + 1 \in A
  <2> SUFFICES ASSUME k + 1 <= n
               PROVE  t[k + 1] = After(data, p + o[k + 1], Initial(values, k + 1))
    OBVIOUS
  <2>1. k \in 0 .. n - 1
    OBVIOUS
  <2>2. t[k] = After(data, p + o[k], Initial(values, k))
    BY <1>2
  <2>3. PICK a \in Nat, x \in Seq(Byte), l \in Nat : a = o[k] /\ x = seqs[k + 1] /\ l = Len(x)
    BY <2>1 DEF LaidAt
  <2>4. o[k + 1] = a + l
    BY <2>1, <2>3 DEF LaidAt
  <2>5. p + o[k] + Len(seqs[k + 1]) = p + o[k + 1]
    BY <2>3, <2>4
  <2> QED
    BY <2>1, <2>2, <2>5, AppendNext DEF ReadsEach
<1>3. Nat \subseteq A
  <2> HIDE DEF A
  <2> QED
    BY <1>1, <1>2, NatInduct
<1>4. t[n] = After(data, p + o[n], Initial(values, n))
  BY <1>3
<1> QED
  BY <1>4 DEF LaidAt

\* The fields of a record.
AreFields(fields, n) == DOMAIN fields = 1 .. n /\ \A i \in 1 .. n : fields[i] \in Kinds

\* seqs are the bytes of each of the values, and W is all of them.
RecordLaid(W, seqs, o, fields, v, n) ==
  LaidAt(W, seqs, o, n) /\ \A i \in 1 .. n : seqs[i] = WriteScalar(fields[i], v[i])

LEMMA RecordBytes ==
  ASSUME NEW n \in Nat, NEW fields, AreFields(fields, n), NEW v, IsRecord(fields, v),
         NEW W, W = WriteRecord(fields, v)
  PROVE  W \in Seq(Byte) /\ \E seqs, o : RecordLaid(W, seqs, o, fields, v, n)
<1>1. PICK seqs : seqs = [i \in 1 .. n |-> WriteScalar(fields[i], v[i])]
  OBVIOUS
<1>2. ASSUME NEW i \in 1 .. n PROVE WriteScalar(fields[i], v[i]) \in Seq(Byte)
  <2>1. fields[i] \in Kinds /\ v[i] \in Scalars(fields[i])
    BY DEF AreFields, IsRecord
  <2> QED
    BY <2>1, ScalarBytes
<1>3. seqs \in [1 .. n -> Seq(Byte)]
  BY <1>1, <1>2
<1>4. W = FlattenSeq(seqs)
  BY <1>1 DEF WriteRecord, AreFields
<1>5. PICK o : LaidAt(W, seqs, o, n)
  BY <1>3, <1>4, Flattened
<1>6. RecordLaid(W, seqs, o, fields, v, n)
  BY <1>1, <1>5 DEF RecordLaid
<1> QED
  BY <1>5, <1>6 DEF LaidAt

LEMMA ReadsRecord ==
  ASSUME NEW data \in Seq(Byte), NEW p \in Nat, p <= Len(data),
         NEW n \in Nat, NEW fields, AreFields(fields, n), NEW v, IsRecord(fields, v),
         NEW W, W = WriteRecord(fields, v), Follows(data, p, W)
  PROVE  ReadRecord(data, Reader(p + 1, <<>>), fields) = After(data, p + Len(W), v)
<1>1. PICK seqs, o : RecordLaid(W, seqs, o, fields, v, n)
  BY RecordBytes
<1>2. LaidAt(W, seqs, o, n)
  BY <1>1 DEF RecordLaid
<1>3. PICK r : r = Reader(p + 1, <<>>)
  OBVIOUS
<1>4. HasTrace(ReadRecord(data, r, fields), "record", data, <<>>, {r}, fields, n)
  BY RecordTrace DEF AreFields
<1>5. PICK t : /\ IsTrace(t, "record", data, <<>>, {r}, fields, n)
               /\ t[n] = ReadRecord(data, r, fields)
  BY <1>4 DEF HasTrace
<1>6. t[0] = After(data, p, <<>>)
  BY <1>3, <1>5 DEF IsTrace, After
<1>7. ASSUME NEW k \in 0 .. n - 1, t[k] = After(data, p + o[k], Initial(v, k))
      PROVE  t[k + 1] = After(data, p + o[k] + Len(seqs[k + 1]),
                              Append(Initial(v, k), v[k + 1]))
  <2>1. \A acc, x : FoldStep("record", data, <<>>, acc, x) = ReadScalar(data, acc, x)
    BY DEF FoldStep
  <2>2. t[k + 1] = ReadScalar(data, t[k], fields[k + 1])
    BY <1>5, <2>1 DEF IsTrace
  <2>3. o[k] \in Nat /\ Follows(data, p + o[k], seqs[k + 1])
    BY <1>2, LaidFollows
  <2>4. PICK a \in Nat : a = p + o[k]
    BY <2>3
  <2>5. k + 1 \in 1 .. n
    OBVIOUS
  <2>6. PICK kind \in Kinds : kind = fields[k + 1]
    BY <2>5 DEF AreFields
  <2>7. PICK x \in Scalars(kind) : x = v[k + 1]
    BY <2>5, <2>6 DEF IsRecord, AreFields
  <2>8. PICK w : w = seqs[k + 1] /\ w = WriteScalar(kind, x)
    BY <1>1, <2>5, <2>6, <2>7 DEF RecordLaid
  <2>9. Follows(data, a, w)
    BY <2>3, <2>4, <2>8
  <2>10. ReadScalar(data, After(data, a, Initial(v, k)), kind)
           = After(data, a + Len(w), Append(Initial(v, k), x))
    BY <2>8, <2>9, ReadsScalar
  <2> QED
    BY <1>7, <2>2, <2>4, <2>6, <2>7, <2>8, <2>10
<1>8. t[n] = After(data, p + Len(W), Initial(v, n))
  <2>1. ReadsEach(t, data, p, seqs, o, v, n)
    BY <1>6, <1>7, Zenon DEF ReadsEach
  <2> QED
    BY <1>2, <2>1, ReadsOn
<1>9. Initial(v, n) = v
  <2>1. v = [i \in 1 .. n |-> v[i]]
    BY Zenon DEF IsRecord, AreFields
  <2> QED
    BY <2>1, Zenon DEF Initial
<1> QED
  BY <1>3, <1>5, <1>8, <1>9

LEMMA ReadsRow ==
  ASSUME NEW data \in Seq(Byte), NEW p \in Nat, NEW values,
         NEW n \in Nat, NEW fields, AreFields(fields, n), NEW v, IsRecord(fields, v),
         NEW W, W = WriteRecord(fields, v), Follows(data, p, W)
  PROVE  ReadRow(data, After(data, p, values), fields)
           = After(data, p + Len(W), Append(values, v))
<1>1. PICK l \in Nat : l = Len(W)
  BY RecordBytes
<1>2. CASE p <= Len(data)
  <2>1. PICK r : r = Reader(p + 1, values)
    OBVIOUS
  <2>2. r.pos = p + 1 /\ r.values = values /\ After(data, p, values) = {r}
    BY <1>2, <2>1 DEF Reader, After
  <2>3. ReadRecord(data, Reader(r.pos, <<>>), fields) = After(data, p + l, v)
    BY <1>1, <1>2, <2>2, ReadsRecord
  <2>4. ReadRow(data, {r}, fields)
          = {Reader(s.pos, Append(values, s.values)) : s \in After(data, p + l, v)}
    BY <2>2, <2>3 DEF ReadRow
  <2>5. ReadRow(data, {r}, fields) = After(data, p + l, Append(values, v))
    BY <2>4 DEF After, Reader
  <2> QED
    BY <1>1, <2>2, <2>5
<1>3. CASE ~(p <= Len(data))
  <2>1. After(data, p, values) = {} /\ After(data, p + l, Append(values, v)) = {}
    BY <1>3 DEF After
  <2> QED
    BY <1>1, <2>1 DEF ReadRow
<1> QED
  BY <1>2, <1>3

\* The count of a list, and its rows as they are laid out.
RowsLaid(Z, seqs, o, fields, rows, m) ==
  LaidAt(Z, seqs, o, m) /\ \A i \in 1 .. m : seqs[i] = WriteRecord(fields, rows[i])

LEMMA ListBytes ==
  ASSUME NEW n \in Nat, NEW fields, AreFields(fields, n), NEW rows, IsList(fields, rows),
         NEW W, W = WriteList(fields, rows)
  PROVE  /\ W \in Seq(Byte)
         /\ \E m \in Nat, Z \in Seq(Byte) :
              /\ m = Len(rows) /\ m < Bytes(LenBytes)
              /\ rows = Initial(rows, m)
              /\ W = WriteUInt(m, LenBytes) \o Z
              /\ \E seqs, o : RowsLaid(Z, seqs, o, fields, rows, m)
<1>w. LenBytes \in 0 .. LenBytes + IntBytes
  BY Widths
<1>b. Bytes(LenBytes) \in Nat
  BY <1>w, Powers
<1>1. PICK m \in Nat : m = Len(rows) /\ m < Bytes(LenBytes)
  BY <1>b DEF IsList
<1>2. rows = [i \in 1 .. m |-> rows[i]] /\ \A i \in 1 .. m : IsRecord(fields, rows[i])
  BY <1>1, Zenon DEF IsList
<1>3. DOMAIN rows = 1 .. m
  BY <1>2
<1>4. PICK seqs : seqs = [i \in 1 .. m |-> WriteRecord(fields, rows[i])]
  OBVIOUS
<1>5. ASSUME NEW i \in 1 .. m PROVE WriteRecord(fields, rows[i]) \in Seq(Byte)
  BY <1>2, RecordBytes
<1>6. seqs \in [1 .. m -> Seq(Byte)]
  BY <1>4, <1>5
<1>7. PICK Z : Z = FlattenSeq(seqs)
  OBVIOUS
<1>8. PICK o : LaidAt(Z, seqs, o, m)
  BY <1>6, <1>7, Flattened
<1>9. Z \in Seq(Byte)
  BY <1>8 DEF LaidAt
<1>10. RowsLaid(Z, seqs, o, fields, rows, m)
  BY <1>4, <1>8 DEF RowsLaid
<1>11. W = WriteUInt(m, LenBytes) \o Z
  BY <1>1, <1>3, <1>4, <1>7, Zenon DEF WriteList
<1>12. W \in Seq(Byte)
  <2>1. PICK L : L = WriteUInt(m, LenBytes)
    OBVIOUS
  <2>2. L \in Seq(Byte)
    BY <1>w, <2>1, IntegerBytes
  <2> QED
    BY <1>9, <1>11, <2>1, <2>2
<1>13. rows = Initial(rows, m)
  BY <1>2, Zenon DEF Initial
<1> QED
  BY <1>1, <1>9, <1>10, <1>11, <1>12, <1>13, Zenon

LEMMA ReadsRows ==
  ASSUME NEW data \in Seq(Byte), NEW p \in Nat, p <= Len(data),
         NEW n \in Nat, NEW fields, AreFields(fields, n), NEW rows, IsList(fields, rows),
         NEW m \in Nat, m = Len(rows), rows = Initial(rows, m),
         NEW Z, NEW seqs, NEW o, RowsLaid(Z, seqs, o, fields, rows, m), Follows(data, p, Z)
  PROVE  ReadRows(data, Reader(p + 1, <<>>), fields, m) = After(data, p + Len(Z), rows)
<1>1. LaidAt(Z, seqs, o, m)
  BY DEF RowsLaid
<1>2. PICK r : r = Reader(p + 1, <<>>)
  OBVIOUS
<1>3. PICK q : HasTrace(ReadRows(data, r, fields, m), "rows", data, fields, {r}, q, m)
  BY RowsTrace
<1>4. PICK t : /\ IsTrace(t, "rows", data, fields, {r}, q, m)
               /\ t[m] = ReadRows(data, r, fields, m)
  BY <1>3 DEF HasTrace
<1>5. t[0] = After(data, p, <<>>)
  BY <1>2, <1>4 DEF IsTrace, After
<1>6. ASSUME NEW k \in 0 .. m - 1, t[k] = After(data, p + o[k], Initial(rows, k))
      PROVE  t[k + 1] = After(data, p + o[k] + Len(seqs[k + 1]),
                              Append(Initial(rows, k), rows[k + 1]))
  <2>1. \A acc, x : FoldStep("rows", data, fields, acc, x) = ReadRow(data, acc, fields)
    BY DEF FoldStep
  <2>2. t[k + 1] = ReadRow(data, t[k], fields)
    BY <1>4, <2>1 DEF IsTrace
  <2>3. o[k] \in Nat /\ Follows(data, p + o[k], seqs[k + 1])
    BY <1>1, LaidFollows
  <2>4. PICK a \in Nat : a = p + o[k]
    BY <2>3
  <2>5. k + 1 \in 1 .. m
    OBVIOUS
  <2>6. PICK x, w : x = rows[k + 1] /\ w = seqs[k + 1]
    OBVIOUS
  <2>7. IsRecord(fields, x) /\ w = WriteRecord(fields, x)
    BY <2>5, <2>6 DEF IsList, RowsLaid
  <2>8. Follows(data, a, w)
    BY <2>3, <2>4, <2>6
  <2>9. ReadRow(data, After(data, a, Initial(rows, k)), fields)
          = After(data, a + Len(w), Append(Initial(rows, k), x))
    BY <2>7, <2>8, ReadsRow
  <2> QED
    BY <1>6, <2>2, <2>4, <2>6, <2>9
<1>7. t[m] = After(data, p + Len(Z), Initial(rows, m))
  <2>1. ReadsEach(t, data, p, seqs, o, rows, m)
    BY <1>5, <1>6, Zenon DEF ReadsEach
  <2> QED
    BY <1>1, <2>1, ReadsOn
<1> QED
  BY <1>2, <1>4, <1>7

LEMMA ReadsList ==
  ASSUME NEW data \in Seq(Byte), NEW p \in Nat, NEW values,
         NEW n \in Nat, NEW fields, AreFields(fields, n), NEW rows, IsList(fields, rows),
         NEW W, W = WriteList(fields, rows), Follows(data, p, W)
  PROVE  ReadList(data, After(data, p, values), fields)
           = After(data, p + Len(W), Append(values, rows))
<1>w. PICK l \in Nat : l = LenBytes /\ l \in 0 .. LenBytes + IntBytes
  BY Widths
<1>1. PICK m \in Nat, Z \in Seq(Byte) :
        /\ m = Len(rows) /\ m < Bytes(LenBytes)
        /\ rows = Initial(rows, m)
        /\ W = WriteUInt(m, LenBytes) \o Z
        /\ \E seqs, o : RowsLaid(Z, seqs, o, fields, rows, m)
  BY ListBytes, Zenon
<1>2. PICK seqs, o : RowsLaid(Z, seqs, o, fields, rows, m)
  BY <1>1
<1>3. PICK L : L = WriteUInt(m, l)
  OBVIOUS
<1>4. L \in Seq(Byte) /\ l = Len(L)
  BY <1>w, <1>3, IntegerBytes
<1>5. PICK c \in Nat : c = Len(Z)
  OBVIOUS
<1>6. W = L \o Z /\ Len(W) = l + c
  <2>1. W = L \o Z
    BY <1>w, <1>1, <1>3
  <2>2. Len(L \o Z) = Len(L) + Len(Z)
    BY <1>4, ConcatProperties
  <2> QED
    BY <1>4, <1>5, <2>1, <2>2
<1>7. Follows(data, p, L) /\ Follows(data, p + l, Z)
  BY <1>4, <1>6, PartsFollow
<1>8. PICK r : r = Reader(p + 1, values)
  OBVIOUS
<1>9. r.pos = p + 1 /\ r.values = values /\ After(data, p, values) \subseteq {r}
  BY <1>8 DEF Reader, After
<1>10. CASE p + l <= Len(data)
  <2>1. After(data, p, values) = {r}
    BY <1>8, <1>10 DEF After
  <2>2. Available(data, r.pos, LenBytes)
    BY <1>w, <1>9, <1>10 DEF Available
  <2>3. UIntAt(data, r.pos, LenBytes) = m
    BY <1>w, <1>1, <1>3, <1>7, <1>9, <1>10, IntegerAt
  <2>4. PICK a \in Nat : a = p + l
    OBVIOUS
  <2>5. r.pos + LenBytes = a + 1
    BY <1>w, <1>9, <2>4
  <2>6. ReadRows(data, Reader(a + 1, <<>>), fields, m) = After(data, a + c, rows)
    <3>1. a <= Len(data) /\ Follows(data, a, Z)
      BY <1>7, <1>10, <2>4
    <3> QED
      BY <1>1, <1>2, <1>5, <3>1, ReadsRows
  <2>7. ReadList(data, {r}, fields)
          = {Reader(s.pos, Append(r.values, s.values)) :
                s \in ReadRows(data, Reader(r.pos + LenBytes, <<>>), fields,
                               UIntAt(data, r.pos, LenBytes))}
    BY <2>2 DEF ReadList, ReadRows
  <2>8. ReadList(data, {r}, fields)
          = {Reader(s.pos, Append(values, s.values)) : s \in After(data, a + c, rows)}
    BY <1>9, <2>3, <2>5, <2>6, <2>7
  <2>9. ReadList(data, {r}, fields) = After(data, a + c, Append(values, rows))
    BY <2>8 DEF After, Reader
  <2>10. a + c = p + Len(W)
    BY <1>6, <2>4
  <2> QED
    BY <2>1, <2>9, <2>10
<1>11. CASE ~(p + l <= Len(data))
  <2>1. ~Available(data, r.pos, LenBytes)
    BY <1>w, <1>9, <1>11 DEF Available
  <2>2. ReadList(data, After(data, p, values), fields) = {}
    BY <1>9, <2>1 DEF ReadList
  <2>3. ~(p + Len(W) <= Len(data))
    BY <1>6, <1>11
  <2> QED
    BY <2>2, <2>3 DEF After
<1> QED
  BY <1>10, <1>11

-----------------------------------------------------------------------------
\* Messages.

FieldKinds == Kinds \cup {"trades", "levels"}

LEMMA RowFields == AreFields(TradeFields, 7) /\ AreFields(LevelFields, 3)
<1>1. AreFields(TradeFields, 7)
  BY DEF AreFields, TradeFields, Kinds
<1>2. AreFields(LevelFields, 3)
  BY DEF AreFields, LevelFields, Kinds
<1> QED
  BY <1>1, <1>2

LEMMA FieldBytes ==
  ASSUME NEW kind \in FieldKinds, NEW v, IsField(kind, v), NEW W, W = WriteField(kind, v)
  PROVE  W \in Seq(Byte)
<1>1. CASE kind = "trades"
  <2>1. IsList(TradeFields, v) /\ W = WriteList(TradeFields, v)
    BY <1>1 DEF IsField, WriteField
  <2> QED
    BY <2>1, RowFields, ListBytes
<1>2. CASE kind = "levels"
  <2>1. IsList(LevelFields, v) /\ W = WriteList(LevelFields, v)
    BY <1>2 DEF IsField, WriteField
  <2> QED
    BY <2>1, RowFields, ListBytes
<1>3. CASE kind \in Kinds
  <2>1. v \in Scalars(kind) /\ W = WriteScalar(kind, v)
    BY <1>3 DEF IsField, WriteField, Kinds
  <2> QED
    BY <1>3, <2>1, ScalarBytes
<1> QED
  BY <1>1, <1>2, <1>3 DEF FieldKinds

LEMMA ReadsField ==
  ASSUME NEW data \in Seq(Byte), NEW p \in Nat, NEW values, NEW kind \in FieldKinds,
         NEW v, IsField(kind, v), NEW W, W = WriteField(kind, v), Follows(data, p, W)
  PROVE  ReadField(data, After(data, p, values), kind)
           = After(data, p + Len(W), Append(values, v))
<1>r. PICK rs : rs = After(data, p, values)
  OBVIOUS
<1>1. CASE kind = "trades"
  <2>1. IsList(TradeFields, v) /\ W = WriteList(TradeFields, v)
    BY <1>1 DEF IsField, WriteField
  <2>2. ReadField(data, rs, kind) = ReadList(data, rs, TradeFields)
    BY <1>1 DEF ReadField
  <2> QED
    BY <1>r, <2>1, <2>2, RowFields, ReadsList
<1>2. CASE kind = "levels"
  <2>1. IsList(LevelFields, v) /\ W = WriteList(LevelFields, v)
    BY <1>2 DEF IsField, WriteField
  <2>2. ReadField(data, rs, kind) = ReadList(data, rs, LevelFields)
    BY <1>2 DEF ReadField
  <2> QED
    BY <1>r, <2>1, <2>2, RowFields, ReadsList
<1>3. CASE kind \in Kinds
  <2>1. v \in Scalars(kind) /\ W = WriteScalar(kind, v)
    BY <1>3 DEF IsField, WriteField, Kinds
  <2>2. ReadField(data, rs, kind) = ReadScalar(data, rs, kind)
    BY <1>3 DEF ReadField, Kinds
  <2> QED
    BY <1>3, <1>r, <2>1, <2>2, ReadsScalar
<1> QED
  BY <1>1, <1>2, <1>3 DEF FieldKinds

LEMMA LayoutFields ==
  ASSUME NEW type \in DOMAIN Layout, NEW fields, fields = Layout[type]
  PROVE  \E n \in Nat : DOMAIN fields = 1 .. n /\ \A i \in 1 .. n : fields[i] \in FieldKinds
<1>1. type \in {"NewOrder", "CancelOrder", "ModifyOrder", "OrderAck", "OrderReject",
                "BookQuery", "BookSnapshot"}
  BY DEF Layout
<1>2. CASE type = "NewOrder"
  <2>1. fields = <<"u64", "string", "u8", "i64", "i64", "i64">>
    BY <1>2 DEF Layout, OrderFields
  <2>2. DOMAIN fields = 1 .. 6 /\ \A i \in 1 .. 6 : fields[i] \in FieldKinds
    BY <2>1 DEF FieldKinds, Kinds
  <2> QED
    BY <2>2
<1>3. CASE type = "CancelOrder"
  <2>1. fields = <<"u64">>
    BY <1>3 DEF Layout
  <2>2. DOMAIN fields = 1 .. 1 /\ \A i \in 1 .. 1 : fields[i] \in FieldKinds
    BY <2>1 DEF FieldKinds, Kinds
  <2> QED
    BY <2>2
<1>4. CASE type = "ModifyOrder"
  <2>1. fields = <<"u64", "i64", "i64">>
    BY <1>4 DEF Layout
  <2>2. DOMAIN fields = 1 .. 3 /\ \A i \in 1 .. 3 : fields[i] \in FieldKinds
    BY <2>1 DEF FieldKinds, Kinds
  <2> QED
    BY <2>2
<1>5. CASE type = "OrderAck"
  <2>1. fields = <<"u64", "trades">>
    BY <1>5 DEF Layout
  <2>2. DOMAIN fields = 1 .. 2 /\ \A i \in 1 .. 2 : fields[i] \in FieldKinds
    BY <2>1 DEF FieldKinds, Kinds
  <2> QED
    BY <2>2
<1>6. CASE type = "OrderReject"
  <2>1. fields = <<"u64", "string">>
    BY <1>6 DEF Layout
  <2>2. DOMAIN fields = 1 .. 2 /\ \A i \in 1 .. 2 : fields[i] \in FieldKinds
    BY <2>1 DEF FieldKinds, Kinds
  <2> QED
    BY <2>2
<1>7. CASE type = "BookQuery"
  <2>1. fields = <<"string">>
    BY <1>7 DEF Layout
  <2>2. DOMAIN fields = 1 .. 1 /\ \A i \in 1 .. 1 : fields[i] \in FieldKinds
    BY <2>1 DEF FieldKinds, Kinds
  <2> QED
    BY <2>2
<1>8. CASE type = "BookSnapshot"
  <2>1. fields = <<"string", "levels", "levels">>
    BY <1>8 DEF Layout
  <2>2. DOMAIN fields = 1 .. 3 /\ \A i \in 1 .. 3 : fields[i] \in FieldKinds
    BY <2>1 DEF FieldKinds, Kinds
  <2> QED
    BY <2>2
<1> QED
  BY <1>1, <1>2, <1>3, <1>4, <1>5, <1>6, <1>7, <1>8

\* The payload of a message, field after field.
MessageLaid(W, seqs, o, fields, v, n) ==
  LaidAt(W, seqs, o, n) /\ \A i \in 1 .. n : seqs[i] = WriteField(fields[i], v[i])

LEMMA MessageBytes ==
  ASSUME NEW m, IsMessage(m), NEW W, W = Write(m), NEW fields, fields = Layout[m.type]
  PROVE  /\ W \in Seq(Byte)
         /\ \E n \in Nat : /\ DOMAIN fields = 1 .. n
                           /\ \A i \in 1 .. n : fields[i] \in FieldKinds
                           /\ \E seqs, o : MessageLaid(W, seqs, o, fields, m.values, n)
<1>1. PICK n \in Nat : DOMAIN fields = 1 .. n /\ \A i \in 1 .. n : fields[i] \in FieldKinds
  BY LayoutFields DEF IsMessage
<1>2. PICK v : v = m.values
  OBVIOUS
<1>3. \A i \in 1 .. n : IsField(fields[i], v[i])
  BY <1>1, <1>2, Zenon DEF IsMessage
<1>4. PICK seqs : seqs = [i \in 1 .. n |-> WriteField(fields[i], v[i])]
  OBVIOUS
<1>5. ASSUME NEW i \in 1 .. n PROVE WriteField(fields[i], v[i]) \in Seq(Byte)
  BY <1>1, <1>3, FieldBytes
<1>6. seqs \in [1 .. n -> Seq(Byte)]
  BY <1>4, <1>5
<1>7. W = FlattenSeq(seqs)
  BY <1>1, <1>2, <1>4, Zenon DEF Write
<1>8. PICK o : LaidAt(W, seqs, o, n)
  BY <1>6, <1>7, Flattened
<1>9. MessageLaid(W, seqs, o, fields, v, n)
  BY <1>4, <1>8 DEF MessageLaid
<1>10. W \in Seq(Byte)
  BY <1>8 DEF LaidAt
<1> QED
  BY <1>1, <1>2, <1>9, <1>10, Zenon

\* A payload is read as the message that was written, and one that ends before it as
\* none.
LEMMA ReadsMessage ==
  ASSUME NEW m, IsMessage(m), NEW data \in Seq(Byte), NEW W, W = Write(m), Follows(data, 0, W)
  PROVE  Read(m.type, data) = IF Len(W) <= Len(data) THEN {m} ELSE {}
<1>1. PICK fields, v, type : fields = Layout[m.type] /\ v = m.values /\ type = m.type
  OBVIOUS
<1>2. PICK n \in Nat : /\ DOMAIN fields = 1 .. n
                       /\ \A i \in 1 .. n : fields[i] \in FieldKinds
                       /\ \E seqs, o : MessageLaid(W, seqs, o, fields, v, n)
  BY <1>1, MessageBytes, Zenon
<1>3. PICK seqs, o : MessageLaid(W, seqs, o, fields, v, n)
  BY <1>2
<1>4. LaidAt(W, seqs, o, n) /\ \A i \in 1 .. n : seqs[i] = WriteField(fields[i], v[i])
  BY <1>3 DEF MessageLaid
<1>5. v = Initial(v, n) /\ \A i \in 1 .. n : IsField(fields[i], v[i])
  BY <1>1, <1>2, Zenon DEF IsMessage, Initial
<1>6. PICK r : r = Reader(1, <<>>)
  OBVIOUS
<1>7. PICK end : /\ HasTrace(end, "message", data, <<>>, {r}, fields, n)
                 /\ Read(type, data) = MessagesOf(type, end)
  <2>1. fields = Layout[type]
    BY <1>1
  <2> QED
    BY <1>2, <1>6, <2>1, MessageTrace
<1>8. PICK t : IsTrace(t, "message", data, <<>>, {r}, fields, n) /\ t[n] = end
  BY <1>7 DEF HasTrace
<1>p. PICK p \in Nat : p = 0
  OBVIOUS
<1>9. t[0] = After(data, p, <<>>)
  BY <1>p, <1>6, <1>8 DEF IsTrace, After
<1>10. ASSUME NEW k \in 0 .. n - 1, t[k] = After(data, p + o[k], Initial(v, k))
       PROVE  t[k + 1] = After(data, p + o[k] + Len(seqs[k + 1]),
                               Append(Initial(v, k), v[k + 1]))
  <2>1. \A acc, x : FoldStep("message", data, <<>>, acc, x) = ReadField(data, acc, x)
    BY DEF FoldStep
  <2>2. t[k + 1] = ReadField(data, t[k], fields[k + 1])
    BY <1>8, <2>1 DEF IsTrace
  <2>3. o[k] \in Nat /\ Follows(data, p + o[k], seqs[k + 1])
    BY <1>p, <1>4, LaidFollows
  <2>4. PICK a \in Nat : a = p + o[k]
    BY <2>3
  <2>5. k + 1 \in 1 .. n
    OBVIOUS
  <2>6. PICK kind \in FieldKinds : kind = fields[k + 1]
    BY <1>2, <2>5
  <2>7. PICK x, w : x = v[k + 1] /\ w = seqs[k + 1]
    OBVIOUS
  <2>8. IsField(kind, x) /\ w = WriteField(kind, x)
    BY <1>4, <1>5, <2>5, <2>6, <2>7
  <2>9. Follows(data, a, w)
    BY <2>3, <2>4, <2>7
  <2>10. ReadField(data, After(data, a, Initial(v, k)), kind)
           = After(data, a + Len(w), Append(Initial(v, k), x))
    BY <2>8, <2>9, ReadsField
  <2> QED
    BY <1>10, <2>2, <2>4, <2>6, <2>7, <2>10
<1>11. end = After(data, p + Len(W), v)
  <2>1. ReadsEach(t, data, p, seqs, o, v, n)
    BY <1>9, <1>10, Zenon DEF ReadsEach
  <2>2. t[n] = After(data, p + Len(W), Initial(v, n))
    BY <1>4, <2>1, ReadsOn
  <2> QED
    BY <1>5, <1>8, <2>2
<1>12. PICK l \in Nat : l = Len(W)
  BY <1>4 DEF LaidAt
<1>13. p + Len(W) = l
  BY <1>p, <1>12
<1>14. m = [type |-> type, values |-> v]
  BY <1>1 DEF IsMessage
<1>15. CASE l <= Len(data)
  <2>1. end = {Reader(l + 1, v)}
    BY <1>11, <1>13, <1>15 DEF After
  <2>2. Reader(l + 1, v).values = v
    BY DEF Reader
  <2>3. Read(type, data) = {m}
    BY <1>7, <1>14, <2>1, <2>2 DEF MessagesOf
  <2> QED
    BY <1>1, <1>12, <1>15, <2>3
<1>16. CASE ~(l <= Len(data))
  <2>1. end = {}
    BY <1>11, <1>13, <1>16 DEF After
  <2>2. Read(type, data) = {}
    BY <1>7, <2>1 DEF MessagesOf
  <2> QED
    BY <1>1, <1>12, <1>16, <2>2
<1> QED
  BY <1>15, <1>16

\* What ByteWriter writes, ByteReader reads, and it refuses anything shorter.
LEMMA MessageSurvives ==
  ASSUME NEW m \in Sendable
  PROVE  /\ Survives(m)
         /\ \A n \in 0 .. Len(Write(m)) - 1 : Read(m.type, First(Write(m), n)) = {}
<1>1. IsMessage(m) /\ m.type \in DOMAIN Layout /\ Len(Write(m)) + 1 < Bytes(LenBytes)
  BY MessagesTyped DEF IsMessage
<1>2. PICK W : W = Write(m)
  OBVIOUS
<1>3. W \in Seq(Byte)
  BY <1>1, <1>2, MessageBytes
<1>4. PICK l \in Nat : l = Len(W)
  BY <1>3
<1>5. Read(m.type, W) = {m}
  <2>1. Follows(W, 0, W)
    BY <1>3 DEF Follows
  <2>2. Read(m.type, W) = IF Len(W) <= Len(W) THEN {m} ELSE {}
    BY <1>1, <1>2, <1>3, <2>1, ReadsMessage, Zenon
  <2>3. Len(W) <= Len(W)
    BY <1>4
  <2> QED
    BY <2>2, <2>3, Zenon
<1>6. ASSUME NEW n \in 0 .. l - 1 PROVE Read(m.type, First(W, n)) = {}
  <2>1. PICK B : B = Part(W, 0, n)
    OBVIOUS
  <2>2. n \in 0 .. Len(W)
    BY <1>4
  <2>3. B \in Seq(Byte) /\ Len(B) = n /\ \A i \in 1 .. n : B[i] = W[i]
    BY <1>3, <2>1, <2>2, FirstPart, Zenon
  <2>4. Follows(B, 0, W)
    BY <1>3, <1>4, <2>3 DEF Follows
  <2>5. ~(Len(W) <= Len(B))
    BY <1>4, <2>3
  <2>6. Read(m.type, B) = {}
    BY <1>1, <1>2, <2>3, <2>4, <2>5, ReadsMessage
  <2> QED
    BY <2>1, <2>6 DEF First, Part
<1>7. MessageType[m.type] \in Byte
  BY <1>1, MessagesTyped DEF Layout, MessageType
<1>8. Survives(m)
  BY <1>1, <1>2, <1>3, <1>5, <1>7 DEF Survives
<1> QED
  BY <1>2, <1>4, <1>6, <1>8

-----------------------------------------------------------------------------
\* Frames.

\* F is a length prefix W of w bytes, the code, and n bytes of payload.
LaidOut(F, W, w, code, payload, n) ==
  /\ F \in Seq(Byte) /\ W \in Seq(Byte) /\ Len(W) = w /\ Len(F) = w + 1 + n
  /\ \A i \in 1 .. w : F[i] = W[i]
  /\ F[w + 1] = code
  /\ \A i \in 1 .. n : F[w + 1 + i] = payload[i]

\* The bytes of a frame.
LEMMA FrameBytes ==
  ASSUME NEW code \in Byte, NEW payload \in Seq(Byte), NEW F, F = EncodeFrame(code, payload),
         NEW w \in Nat, w = LenBytes, NEW n \in Nat, n = Len(payload),
         NEW W, W = WriteUInt(n + 1, LenBytes)
  PROVE  LaidOut(F, W, w, code, payload, n)
<1>1. W \in Seq(Byte) /\ w = Len(W)
  <2>1. n + 1 \in Nat /\ LenBytes \in 0 .. LenBytes + IntBytes
    BY Widths
  <2> QED
    BY <2>1, IntegerBytes
<1>2. PICK c : c = <<code>>
  OBVIOUS
<1>3. PICK one \in Nat : one = 1
  OBVIOUS
<1>4. c \in Seq(Byte) /\ one = Len(c) /\ c[1] = code
  BY <1>2, <1>3
<1>5. PICK H : H = W \o c
  OBVIOUS
<1>6. /\ H \in Seq(Byte) /\ Len(H) = w + one
      /\ \A i \in 1 .. w : H[i] = W[i]
      /\ \A i \in 1 .. one : H[w + i] = c[i]
  <2>1. IsJoined(Byte, H, W, w, c, one)
    BY <1>1, <1>4, <1>5, Joined, Zenon
  <2> QED
    BY <2>1 DEF IsJoined
<1>7. PICK h \in Nat : h = w + 1
  OBVIOUS
<1>8. F = H \o payload /\ h = Len(H)
  BY <1>2, <1>3, <1>5, <1>6, <1>7 DEF EncodeFrame
<1>9. /\ F \in Seq(Byte) /\ Len(F) = h + n
      /\ \A i \in 1 .. h : F[i] = H[i]
      /\ \A i \in 1 .. n : F[h + i] = payload[i]
  <2>1. IsJoined(Byte, F, H, h, payload, n)
    BY <1>6, <1>8, Joined, Zenon
  <2> QED
    BY <2>1 DEF IsJoined
<1>10. \A i \in 1 .. w : F[i] = W[i]
  BY <1>6, <1>7, <1>9
<1>11. F[w + 1] = code
  BY <1>3, <1>4, <1>6, <1>7, <1>9
<1> QED
  BY <1>1, <1>7, <1>9, <1>10, <1>11 DEF LaidOut

\* tryDecodeFrame waits for the whole frame, and then finds it.
LEMMA FrameDecodes ==
  ASSUME NEW code \in Byte, NEW payload \in Seq(Byte), Len(payload) + 1 < Bytes(LenBytes),
         NEW F, F = EncodeFrame(code, payload)
  PROVE  /\ F \in Seq(Byte) /\ Len(F) \in Nat \ {0}
         /\ \A p \in 0 .. Len(F) : p < Len(F) => TryDecodeFrame(Part(F, 0, p)) = NONE
         /\ TryDecodeFrame(F) # NONE
         /\ TryDecodeFrame(F) = [code |-> code, payload |-> payload, bytesConsumed |-> Len(F)]
<1>w. PICK w \in Nat, n \in Nat : w = LenBytes /\ n = Len(payload)
  BY Widths
<1>1. PICK W : w = LenBytes /\ n = Len(payload) /\ W = WriteUInt(n + 1, LenBytes)
  BY <1>w
<1>2. /\ F \in Seq(Byte) /\ W \in Seq(Byte) /\ Len(W) = w
      /\ Len(F) = w + 1 + n
      /\ \A i \in 1 .. w : F[i] = W[i]
      /\ F[w + 1] = code
      /\ \A i \in 1 .. n : F[w + 1 + i] = payload[i]
  <2>1. LaidOut(F, W, w, code, payload, n)
    BY <1>1, FrameBytes, Zenon
  <2> QED
    BY <2>1 DEF LaidOut
<1>3. Len(F) \in Nat \ {0}
  BY <1>2
<1>4. ASSUME NEW p \in 0 .. Len(F), NEW B, B = Part(F, 0, p)
      PROVE  /\ B \in Seq(Byte) /\ Len(B) = p
             /\ p >= w => FrameSize(B) = Len(F)
  <2>1. B \in Seq(Byte) /\ Len(B) = p /\ \A i \in 1 .. p : B[i] = F[i]
    BY <1>2, <1>4, FirstPart, Zenon
  <2>2. ASSUME p >= w PROVE FrameSize(B) = Len(F)
    <3>1. PICK H : H = SubSeq(B, 1, 1 + w - 1)
      OBVIOUS
    <3>2. H = Part(B, 0, w)
      BY <3>1 DEF Part
    <3>3. H \in Seq(Byte) /\ Len(H) = w /\ \A i \in 1 .. w : H[i] = B[i]
      <4>1. w \in 0 .. Len(B)
        BY <2>1, <2>2
      <4> QED
        BY <2>1, <3>2, <4>1, FirstPart, Zenon
    <3>4. \A i \in 1 .. w : H[i] = W[i]
      <4> SUFFICES ASSUME NEW i \in 1 .. w PROVE H[i] = W[i]
        OBVIOUS
      <4>1. i \in 1 .. p
        BY <2>2
      <4> QED
        BY <1>2, <2>1, <3>3, <4>1
    <3>5. H = W
      BY <1>2, <3>3, <3>4, SeqEqual
    <3>6. PICK v \in Nat : v = Len(payload) + 1
      OBVIOUS
    <3>7. UIntAt(B, 1, LenBytes) = v
      <4>1. w \in 0 .. LenBytes + IntBytes /\ v < Bytes(w)
        BY <1>1, <3>6, Widths
      <4>2. SubSeq(B, 1, 1 + w - 1) = WriteUInt(v, w)
        BY <1>1, <3>1, <3>5, <3>6
      <4> QED
        BY <1>1, <4>1, <4>2, NumberSurvives
    <3> QED
      BY <1>1, <1>2, <3>6, <3>7 DEF FrameSize
  <2> QED
    BY <2>1, <2>2
<1>5. ASSUME NEW p \in 0 .. Len(F), p < Len(F) PROVE TryDecodeFrame(Part(F, 0, p)) = NONE
  <2>1. PICK B : B = Part(F, 0, p)
    OBVIOUS
  <2>2. Len(B) = p /\ (p >= w => FrameSize(B) = Len(F))
    BY <1>4, <2>1
  <2>3. Len(B) < LenBytes \/ Len(B) < FrameSize(B)
    BY <1>1, <1>5, <2>2
  <2> QED
    BY <2>1, <2>3 DEF TryDecodeFrame
<1>6. F = Part(F, 0, Len(F)) /\ FrameSize(F) = Len(F)
  <2>1. PICK B : B = Part(F, 0, Len(F))
    OBVIOUS
  <2>2. Len(F) \in 0 .. Len(F) /\ Len(F) >= w
    BY <1>2, <1>3
  <2>3. B = F
    BY <1>2, <2>1, WholePart, Zenon
  <2>4. FrameSize(B) = Len(F)
    BY <1>4, <2>1, <2>2
  <2> QED
    BY <2>1, <2>3, <2>4, Zenon
<1>7. SubSeq(F, LenBytes + 2, FrameSize(F)) = payload
  <2>e. PICK e : e = w + 1
    OBVIOUS
  <2>1. PICK P : P = Part(F, e, Len(F)) /\ e = w + 1
    BY <2>e
  <2>2. e \in 0 .. Len(F) /\ Len(F) \in 0 .. Len(F) /\ Len(F) - e = n
    BY <1>2, <2>1
  <2>3. P \in Seq(Byte) /\ Len(P) = n /\ \A i \in 1 .. n : P[i] = F[e + i]
    <3>1. PICK l : l = Len(F)
      OBVIOUS
    <3>2. F \in Seq(Byte) /\ l \in 0 .. Len(F) /\ e \in 0 .. l /\ P = Part(F, e, l)
      BY <1>2, <2>1, <2>2, <3>1, Zenon
    <3>3. P \in Seq(Byte) /\ Len(P) = l - e /\ \A i \in 1 .. l - e : P[i] = F[e + i]
      BY <3>2, PartFacts, Zenon
    <3> QED
      BY <2>2, <3>1, <3>3
  <2>4. P = payload
    <3>1. Len(P) = Len(payload) /\ \A i \in 1 .. Len(P) : P[i] = payload[i]
      BY <1>1, <1>2, <2>1, <2>3
    <3> QED
      BY <2>3, <3>1, SeqEqual
  <2>5. e + 1 = LenBytes + 2
    BY <1>1, <2>1
  <2> QED
    BY <1>6, <2>1, <2>4, <2>5 DEF Part
<1>8. TryDecodeFrame(F) = [code |-> code, payload |-> payload, bytesConsumed |-> Len(F)]
  <2>1. ~(Len(F) < LenBytes \/ Len(F) < FrameSize(F))
    BY <1>1, <1>2, <1>6
  <2>2. F[LenBytes + 1] = code
    BY <1>1, <1>2
  <2> QED
    BY <1>6, <1>7, <2>1, <2>2 DEF TryDecodeFrame
<1>9. TryDecodeFrame(F) # NONE
  BY <1>3, <1>8, NoneIsNoMessage
<1> QED
  BY <1>2, <1>3, <1>5, <1>8, <1>9

\* What the frame of a message does, as far as the connection is concerned.
LEMMA MessageFrame ==
  ASSUME NEW m \in Sendable, NEW F, F = FrameOf(m)
  PROVE  /\ F \in Seq(Byte) /\ Len(F) \in Nat \ {0}
         /\ \A p \in 0 .. Len(F) : p < Len(F) => TryDecodeFrame(Part(F, 0, p)) = NONE
         /\ TryDecodeFrame(F) # NONE
         /\ TryDecodeFrame(F).bytesConsumed = Len(F)
         /\ Read(TypeOfCode(TryDecodeFrame(F).code), TryDecodeFrame(F).payload) = {m}
<1>1. PICK code \in Byte, payload \in Seq(Byte) : code = MessageType[m.type] /\ payload = Write(m)
  BY MessageSurvives DEF Survives
<1>2. m.type \in DOMAIN Layout /\ Len(payload) + 1 < Bytes(LenBytes) /\ Read(m.type, payload) = {m}
  BY <1>1, MessageSurvives DEF Survives
<1>3. F = EncodeFrame(code, payload)
  BY <1>1 DEF FrameOf
<1>4. PICK f : f = TryDecodeFrame(F)
  OBVIOUS
<1>5. /\ F \in Seq(Byte) /\ Len(F) \in Nat \ {0}
      /\ \A p \in 0 .. Len(F) : p < Len(F) => TryDecodeFrame(Part(F, 0, p)) = NONE
      /\ f # NONE
      /\ f = [code |-> code, payload |-> payload, bytesConsumed |-> Len(F)]
  BY <1>2, <1>3, <1>4, FrameDecodes
<1>6. f.code = code /\ f.payload = payload /\ f.bytesConsumed = Len(F)
  BY <1>5
<1>7. TypeOfCode(code) = m.type
  BY <1>1, <1>2 DEF TypeOfCode, MessageType, Layout
<1> QED
  BY <1>2, <1>4, <1>5, <1>6, <1>7

\* Nothing is decoded from an empty inbox.
LEMMA EmptyInbox == TryDecodeFrame(<<>>) = NONE
  BY Widths DEF TryDecodeFrame

LEMMA EmptyPart ==
  ASSUME NEW S, NEW F \in Seq(S), NEW a \in 0 .. Len(F)
  PROVE  Part(F, a, a) = <<>>
<1>1. PICK B : B = Part(F, a, a)
  OBVIOUS
<1>2. a \in 0 .. a /\ a - a = 0
  OBVIOUS
<1>3. B \in Seq(S) /\ Len(B) = a - a
  BY <1>1, <1>2, PartFacts, Zenon
<1> QED
  BY <1>1, <1>2, <1>3

\* A read of n bytes.
LEMMA BytesMove ==
  ASSUME NEW F \in Seq(Byte), NEW q \in 0 .. Len(F), NEW p \in 0 .. q,
         NEW n \in 1 .. Len(Part(F, p, q))
  PROVE  /\ p + n \in 0 .. q
         /\ Part(F, 0, p) \o First(Part(F, p, q), n) = Part(F, 0, p + n)
         /\ Rest(Part(F, p, q), n) = Part(F, p + n, q)
<1>1. Len(Part(F, p, q)) = q - p
  BY PartFacts
<1>2. n \in 0 .. q - p
  BY <1>1
<1>3. PICK e : e = p + n
  OBVIOUS
<1>4. e \in 0 .. q /\ e \in 0 .. Len(F) /\ p \in 0 .. e
  BY <1>2, <1>3
<1>5. First(Part(F, p, q), n) = Part(F, p, e) /\ Rest(Part(F, p, q), n) = Part(F, e, q)
  BY <1>2, <1>3, PartsCut, Zenon
<1>6. PICK z : z = 0
  OBVIOUS
<1>7. z \in 0 .. p
  BY <1>6
<1>8. Part(F, z, p) \o Part(F, p, e) = Part(F, z, e)
  BY <1>4, <1>7, PartsJoin, Zenon
<1> QED
  BY <1>3, <1>4, <1>5, <1>6, <1>8, Zenon

-----------------------------------------------------------------------------
\* The connection: no call is under way, or its request is, or the reply to it.

Idle ==
  /\ call = NONE /\ served = NONE
  /\ toServer = <<>> /\ serverInbox = <<>>
  /\ writes = <<>> /\ toClient = <<>> /\ clientInbox = <<>>

\* The session has the first p bytes of the request.
Asking(p) ==
  /\ call \in Requests /\ served = NONE
  /\ p \in 0 .. Len(FrameOf(call))
  /\ serverInbox = Part(FrameOf(call), 0, p)
  /\ toServer = Part(FrameOf(call), p, Len(FrameOf(call)))
  /\ writes = <<>> /\ toClient = <<>> /\ clientInbox = <<>>

\* What is left to write of a frame, after the first q bytes.
LeftToWrite(F, q) == IF q = Len(F) THEN <<>> ELSE <<Part(F, q, Len(F))>>

\* The first q bytes of the reply r are written, and the first p of them read.
Answering(r, p, q) ==
  /\ call \in Requests /\ r \in Replies(call)
  /\ served = [request |-> call, reply |-> r]
  /\ toServer = <<>> /\ serverInbox = <<>>
  /\ q \in 0 .. Len(FrameOf(r)) /\ p \in 0 .. q
  /\ clientInbox = Part(FrameOf(r), 0, p)
  /\ toClient = Part(FrameOf(r), p, q)
  /\ writes = LeftToWrite(FrameOf(r), q)

OneFrame ==
  /\ open \in BOOLEAN
  /\ \/ Idle
     \/ \E p : Asking(p)
     \/ \E r, p, q : Answering(r, p, q)

LEMMA SendableFacts ==
  /\ \A m \in Requests : m \in Sendable
  /\ \A m \in Requests : \A r \in Replies(m) : r \in Sendable
  BY DEF Sendable

\* Without a request under way, only a call or the end can come next.
LEMMA IdleStep ==
  ASSUME open \in BOOLEAN, Idle, Next
  PROVE  OneFrame' /\ [RequestReplyOfBytes!Next]_(RequestReplyOfBytes!vars)
<1>1. ASSUME NEW request \in Requests, Call(request) PROVE Asking(0)' /\ RequestReplyOfBytes!Ask
  <2>1. PICK F : F = FrameOf(request)
    OBVIOUS
  <2>2. F \in Seq(Byte) /\ Len(F) \in Nat
    BY <2>1, SendableFacts, MessageFrame
  <2>3. toServer' = F
    BY <1>1, <2>1, <2>2 DEF Call, Idle
  <2>4. 0 \in 0 .. Len(F)
    BY <2>2
  <2>5. Part(F, 0, 0) = <<>> /\ Part(F, 0, Len(F)) = F
    BY <2>2, <2>4, EmptyPart, WholePart
  <2>6. call' = request
    BY <1>1 DEF Call
  <2>7. Asking(0)'
    BY <1>1, <2>1, <2>3, <2>4, <2>5, <2>6 DEF Call, Idle, Asking, serverVars
  <2>8. RequestReplyOfBytes!Ask
    BY <1>1, <2>6 DEF Call, Idle, RequestReplyOfBytes!Ask, serverVars
  <2> QED
    BY <2>7, <2>8
<1>2. ASSUME Close PROVE OneFrame' /\ UNCHANGED RequestReplyOfBytes!vars
  BY <1>2 DEF Close, Idle, OneFrame, clientVars, serverVars, RequestReplyOfBytes!vars
<1>3. ~ClientStep
  BY DEF ClientStep, Return, ClientRead, Idle
<1>4. ~ProcessFrame
  BY EmptyInbox DEF ProcessFrame, Idle
<1>5. ~\E n \in 1 .. Len(toServer) : SessionRead(n)
  BY DEF Idle
<1>6. ~\E w \in DOMAIN writes : \E n \in 1 .. Len(writes[w]) : WriteSome(w, n)
  BY DEF Idle
<1>7. CASE \E request \in Requests : Call(request)
  <2>1. Asking(0)' /\ RequestReplyOfBytes!Ask /\ open' = open
    BY <1>1, <1>7 DEF Call
  <2> QED
    BY <2>1 DEF OneFrame, RequestReplyOfBytes!Next
<1> QED
  BY <1>2, <1>3, <1>4, <1>5, <1>6, <1>7 DEF Next, SessionStep

\* The session reads the request, and handles it when it has it all.
LEMMA AskingStep ==
  ASSUME open \in BOOLEAN, NEW p, Asking(p), Next
  PROVE  OneFrame' /\ [RequestReplyOfBytes!Next]_(RequestReplyOfBytes!vars)
<1>1. PICK F : F = FrameOf(call)
  OBVIOUS
<1>2. /\ F \in Seq(Byte) /\ Len(F) \in Nat \ {0}
      /\ \A k \in 0 .. Len(F) : k < Len(F) => TryDecodeFrame(Part(F, 0, k)) = NONE
      /\ TryDecodeFrame(F).bytesConsumed = Len(F)
      /\ Read(TypeOfCode(TryDecodeFrame(F).code), TryDecodeFrame(F).payload) = {call}
  BY <1>1, SendableFacts, MessageFrame DEF Asking
<1>3. /\ call \in Requests /\ served = NONE
      /\ p \in 0 .. Len(F) /\ serverInbox = Part(F, 0, p) /\ toServer = Part(F, p, Len(F))
      /\ writes = <<>> /\ toClient = <<>> /\ clientInbox = <<>>
  BY <1>1 DEF Asking
<1>4. call # NONE
  BY <1>3, NoneIsNoMessage
<1>5. ASSUME ProcessFrame
      PROVE  (\E r : Answering(r, 0, 0)') /\ RequestReplyOfBytes!Serve /\ open' = open
  <2>1. p = Len(F)
    BY <1>2, <1>3, <1>5 DEF ProcessFrame
  <2>2. serverInbox = F
    BY <1>2, <1>3, <2>1, WholePart
  <2>3. PICK frame : frame = TryDecodeFrame(F)
    OBVIOUS
  <2>4. serverInbox' = Rest(F, Len(F)) /\ served' \in Handled(frame)
        /\ writes' = Append(writes, FrameOf(served'.reply))
        /\ UNCHANGED <<open, toServer, toClient, call, clientInbox, result>>
    BY <1>2, <1>5, <2>2, <2>3 DEF ProcessFrame, clientVars
  <2>5. PICK r \in Replies(call) : served' = [request |-> call, reply |-> r]
    <3>1. PICK requests : requests = Read(TypeOfCode(frame.code), frame.payload)
      OBVIOUS
    <3>2. requests = {call}
      BY <1>2, <2>3, <3>1
    <3>3. Handled(frame) =
            UNION {{[request |-> m, reply |-> r] : r \in Replies(m)} : m \in requests}
      <4>1. requests # {}
        BY <3>2
      <4> QED
        BY <3>1, <4>1 DEF Handled
    <3>4. served' \in {[request |-> call, reply |-> r] : r \in Replies(call)}
      BY <2>4, <3>2, <3>3, Zenon
    <3> QED
      BY <3>4, Zenon
  <2>6. PICK G : G = FrameOf(r)
    OBVIOUS
  <2>7. G \in Seq(Byte) /\ Len(G) \in Nat \ {0}
    BY <1>3, <2>6, SendableFacts, MessageFrame
  <2>8. writes' = <<G>>
    BY <1>3, <2>4, <2>5, <2>6
  <2>9. 0 \in 0 .. Len(G) /\ 0 \in 0 .. 0 /\ 0 # Len(G)
    BY <2>7
  <2>10. Part(G, 0, 0) = <<>> /\ Part(G, 0, Len(G)) = G
    BY <2>7, <2>9, EmptyPart, WholePart
  <2>11. toServer' = <<>>
    BY <1>2, <1>3, <2>1, <2>4, EmptyPart
  <2>12. serverInbox' = <<>>
    BY <1>2, <2>4 DEF Rest
  <2>13. Answering(r, 0, 0)'
    BY <1>3, <2>4, <2>5, <2>6, <2>8, <2>9, <2>10, <2>11, <2>12 DEF Answering, LeftToWrite
  <2>14. RequestReplyOfBytes!Serve
    BY <1>3, <1>4, <2>4, <2>5 DEF RequestReplyOfBytes!Serve
  <2> QED
    BY <2>4, <2>13, <2>14
<1>6. ASSUME NEW n \in 1 .. Len(toServer), SessionRead(n)
      PROVE  Asking(p + n)' /\ UNCHANGED <<open, call, served, result>>
  <2>1. /\ p + n \in 0 .. Len(F)
        /\ Part(F, 0, p) \o First(Part(F, p, Len(F)), n) = Part(F, 0, p + n)
        /\ Rest(Part(F, p, Len(F)), n) = Part(F, p + n, Len(F))
    <3>1. PICK l : l = Len(F)
      OBVIOUS
    <3>2. l \in 0 .. Len(F) /\ p \in 0 .. l /\ n \in 1 .. Len(Part(F, p, l))
      BY <1>2, <1>3, <3>1
    <3>3. /\ p + n \in 0 .. l
          /\ Part(F, 0, p) \o First(Part(F, p, l), n) = Part(F, 0, p + n)
          /\ Rest(Part(F, p, l), n) = Part(F, p + n, l)
      BY <1>2, <3>2, BytesMove, Zenon
    <3> QED
      BY <3>1, <3>3, Zenon
  <2>2. /\ serverInbox' = serverInbox \o First(toServer, n) /\ toServer' = Rest(toServer, n)
        /\ UNCHANGED <<open, toClient, call, clientInbox, result, writes, served>>
    BY <1>6 DEF SessionRead, clientVars
  <2>3. serverInbox' = Part(F, 0, p + n) /\ toServer' = Part(F, p + n, Len(F))
    BY <1>3, <2>1, <2>2
  <2> QED
    BY <1>1, <1>3, <2>1, <2>2, <2>3 DEF Asking
<1>7. ~Close /\ ~\E request \in Requests : Call(request)
  BY <1>4 DEF Close, Call
<1>8. ~ClientStep
  <2>1. ~\E n \in 1 .. Len(toClient) : ClientRead(n)
    BY <1>3
  <2>2. ~Return
    BY <1>3, EmptyInbox DEF Return
  <2> QED
    BY <2>1, <2>2 DEF ClientStep
<1>9. ~\E w \in DOMAIN writes : \E n \in 1 .. Len(writes[w]) : WriteSome(w, n)
  BY <1>3
<1>10. CASE ProcessFrame
  BY <1>5, <1>10 DEF OneFrame, RequestReplyOfBytes!Next
<1>11. CASE \E n \in 1 .. Len(toServer) : SessionRead(n)
  <2>1. PICK n \in 1 .. Len(toServer) : SessionRead(n)
    BY <1>11
  <2>2. Asking(p + n)' /\ UNCHANGED <<open, call, served, result>>
    BY <1>6, <2>1
  <2> QED
    BY <2>2 DEF OneFrame, RequestReplyOfBytes!vars
<1> QED
  BY <1>7, <1>8, <1>9, <1>10, <1>11 DEF Next, SessionStep

\* A write of n bytes of what is left.
LEMMA LeftIsWritten ==
  ASSUME NEW F \in Seq(Byte), NEW q \in 0 .. Len(F), NEW p \in 0 .. q,
         writes = LeftToWrite(F, q), toClient = Part(F, p, q),
         NEW w \in DOMAIN writes, NEW n \in 1 .. Len(writes[w]), WriteSome(w, n)
  PROVE  /\ q + n \in 0 .. Len(F) /\ p \in 0 .. q + n
         /\ toClient' = Part(F, p, q + n)
         /\ writes' = LeftToWrite(F, q + n)
<1>1. PICK l \in Nat : l = Len(F)
  OBVIOUS
<1>2. PICK B : B = Part(F, q, l)
  OBVIOUS
<1>3. q # l /\ writes = <<B>> /\ w = 1 /\ writes[w] = B
  BY <1>1, <1>2 DEF LeftToWrite
<1>4. B \in Seq(Byte) /\ Len(B) = l - q
  <2>1. l \in 0 .. Len(F) /\ q \in 0 .. l
    BY <1>1
  <2> QED
    BY <1>2, <2>1, PartFacts, Zenon
<1>5. PICK e : e = q + n
  OBVIOUS
<1>6. e \in 0 .. Len(F) /\ q \in 0 .. e /\ p \in 0 .. e /\ n \in 0 .. l - q
  BY <1>1, <1>3, <1>4, <1>5
<1>7. First(B, n) = Part(F, q, e) /\ Rest(B, n) = Part(F, e, l)
  <2>1. l \in 0 .. Len(F) /\ q \in 0 .. l
    BY <1>1
  <2> QED
    BY <1>2, <1>5, <1>6, <2>1, PartsCut, Zenon
<1>8. toClient' = Part(F, p, e)
  <2>1. toClient' = Part(F, p, q) \o Part(F, q, e)
    BY <1>3, <1>7 DEF WriteSome
  <2> QED
    BY <1>6, <2>1, PartsJoin, Zenon
<1>9. writes' = LeftToWrite(F, e)
  <2>1. CASE n = Len(B)
    <3>1. e = Len(F)
      BY <1>1, <1>4, <1>5, <1>6, <2>1
    <3>2. writes' = RemoveAt(<<B>>, 1)
      BY <1>3, <2>1 DEF WriteSome
    <3>3. RemoveAt(<<B>>, 1) = <<>>
      BY DEF RemoveAt
    <3> QED
      BY <3>1, <3>2, <3>3 DEF LeftToWrite
  <2>2. CASE n # Len(B)
    <3>1. e # Len(F)
      BY <1>1, <1>4, <1>5, <1>6, <2>2
    <3>2. writes' = [<<B>> EXCEPT ![1] = Rest(B, n)]
      BY <1>3, <2>2 DEF WriteSome
    <3>3. writes' = <<Rest(B, n)>>
      BY <3>2
    <3> QED
      BY <1>1, <1>7, <3>1, <3>3 DEF LeftToWrite
  <2> QED
    BY <2>1, <2>2
<1> QED
  BY <1>5, <1>6, <1>8, <1>9, Zenon

\* The reply is written and read in any number of parts, and returned when all of
\* it is read: then nothing of it is left anywhere.
LEMMA AnsweringStep ==
  ASSUME open \in BOOLEAN, NEW r, NEW p, NEW q, Answering(r, p, q), Next
  PROVE  OneFrame' /\ [RequestReplyOfBytes!Next]_(RequestReplyOfBytes!vars)
<1>1. PICK F : F = FrameOf(r)
  OBVIOUS
<1>2. /\ F \in Seq(Byte) /\ Len(F) \in Nat \ {0}
      /\ \A k \in 0 .. Len(F) : k < Len(F) => TryDecodeFrame(Part(F, 0, k)) = NONE
      /\ TryDecodeFrame(F).bytesConsumed = Len(F)
      /\ Read(TypeOfCode(TryDecodeFrame(F).code), TryDecodeFrame(F).payload) = {r}
  BY <1>1, SendableFacts, MessageFrame DEF Answering
<1>3. /\ call \in Requests /\ r \in Replies(call)
      /\ served = [request |-> call, reply |-> r]
      /\ toServer = <<>> /\ serverInbox = <<>>
      /\ q \in 0 .. Len(F) /\ p \in 0 .. q
      /\ clientInbox = Part(F, 0, p) /\ toClient = Part(F, p, q)
      /\ writes = LeftToWrite(F, q)
  BY <1>1 DEF Answering
<1>4. call # NONE /\ served # NONE
  BY <1>3, SendableFacts, NoneIsNoMessage
<1>5. ASSUME Return PROVE Idle' /\ RequestReplyOfBytes!Return /\ open' = open
  <2>1. p = Len(F) /\ q = Len(F)
    BY <1>2, <1>3, <1>5 DEF Return
  <2>2. clientInbox = F
    BY <1>2, <1>3, <2>1, WholePart
  <2>3. clientInbox' = Rest(F, Len(F)) /\ result' \in {r}
    BY <1>2, <1>5, <2>2 DEF Return
  <2>4. call' = NONE /\ served' = NONE /\ UNCHANGED <<open, toServer, toClient, serverInbox, writes>>
    BY <1>5 DEF Return
  <2>5. clientInbox' = <<>>
    BY <1>2, <2>3 DEF Rest
  <2>6. toClient' = <<>>
    BY <1>2, <1>3, <2>1, <2>4, EmptyPart
  <2>7. writes' = <<>>
    BY <1>3, <2>1, <2>4 DEF LeftToWrite
  <2>8. Idle'
    BY <1>3, <2>4, <2>5, <2>6, <2>7 DEF Idle
  <2>9. RequestReplyOfBytes!Return
    BY <1>3, <1>4, <2>3, <2>4 DEF RequestReplyOfBytes!Return
  <2> QED
    BY <2>4, <2>8, <2>9
<1>6. ASSUME NEW n \in 1 .. Len(toClient), ClientRead(n)
      PROVE  Answering(r, p + n, q)' /\ UNCHANGED <<open, call, served, result>>
  <2>1. /\ p + n \in 0 .. q
        /\ Part(F, 0, p) \o First(Part(F, p, q), n) = Part(F, 0, p + n)
        /\ Rest(Part(F, p, q), n) = Part(F, p + n, q)
    <3>1. n \in 1 .. Len(Part(F, p, q))
      BY <1>3
    <3> QED
      BY <1>2, <1>3, <3>1, BytesMove, Zenon
  <2>2. /\ clientInbox' = clientInbox \o First(toClient, n) /\ toClient' = Rest(toClient, n)
        /\ UNCHANGED <<open, toServer, call, result, serverInbox, writes, served>>
    BY <1>6 DEF ClientRead, serverVars
  <2>3. clientInbox' = Part(F, 0, p + n) /\ toClient' = Part(F, p + n, q)
    BY <1>3, <2>1, <2>2
  <2> QED
    BY <1>1, <1>3, <2>1, <2>2, <2>3 DEF Answering
<1>7. ASSUME NEW w \in DOMAIN writes, NEW n \in 1 .. Len(writes[w]), WriteSome(w, n)
      PROVE  Answering(r, p, q + n)' /\ UNCHANGED <<open, call, served, result>>
  <2>1. /\ q + n \in 0 .. Len(F) /\ p \in 0 .. q + n
        /\ toClient' = Part(F, p, q + n)
        /\ writes' = LeftToWrite(F, q + n)
    BY <1>2, <1>3, <1>7, LeftIsWritten
  <2>2. UNCHANGED <<open, toServer, call, clientInbox, result, serverInbox, served>>
    BY <1>7 DEF WriteSome, clientVars
  <2> QED
    BY <1>1, <1>3, <2>1, <2>2 DEF Answering
<1>8. ~Close /\ ~\E request \in Requests : Call(request)
  BY <1>4 DEF Close, Call
<1>9. ~ProcessFrame /\ ~\E n \in 1 .. Len(toServer) : SessionRead(n)
  BY <1>3, EmptyInbox DEF ProcessFrame
<1>10. CASE Return
  BY <1>5, <1>10 DEF OneFrame, RequestReplyOfBytes!Next
<1>11. CASE \E n \in 1 .. Len(toClient) : ClientRead(n)
  <2>1. PICK n \in 1 .. Len(toClient) : ClientRead(n)
    BY <1>11
  <2>2. Answering(r, p + n, q)' /\ UNCHANGED <<open, call, served, result>>
    BY <1>6, <2>1
  <2> QED
    BY <2>2 DEF OneFrame, RequestReplyOfBytes!vars
<1>12. CASE \E w \in DOMAIN writes : \E n \in 1 .. Len(writes[w]) : WriteSome(w, n)
  <2>w. PICK w \in DOMAIN writes : \E n \in 1 .. Len(writes[w]) : WriteSome(w, n)
    BY <1>12
  <2>1. PICK n \in 1 .. Len(writes[w]) : WriteSome(w, n)
    BY <2>w
  <2>2. Answering(r, p, q + n)' /\ UNCHANGED <<open, call, served, result>>
    BY <1>7, <2>1
  <2> QED
    BY <2>2 DEF OneFrame, RequestReplyOfBytes!vars
<1> QED
  BY <1>8, <1>9, <1>10, <1>11, <1>12 DEF Next, SessionStep, ClientStep

LEMMA OneFrameStep ==
  ASSUME OneFrame, [Next]_vars
  PROVE  OneFrame' /\ [RequestReplyOfBytes!Next]_(RequestReplyOfBytes!vars)
<1>1. CASE UNCHANGED vars
  BY <1>1 DEF OneFrame, Idle, Asking, Answering, vars, clientVars, serverVars,
              RequestReplyOfBytes!vars
<1>2. CASE Next
  BY <1>2, IdleStep, AskingStep, AnsweringStep DEF OneFrame
<1> QED
  BY <1>1, <1>2

LEMMA InitOneFrame == Init => OneFrame
  BY DEF Init, OneFrame, Idle

\* The streams hold bytes, and writes are never empty.
THEOREM StreamTyped == Spec => []TypeOK
<1>1. ASSUME OneFrame PROVE TypeOK
  <2>0. <<>> \in Seq(Byte) /\ <<>> \in Seq(Seq(Byte) \ {<<>>})
    OBVIOUS
  <2>1. CASE Idle
    BY <1>1, <2>0, <2>1 DEF OneFrame, Idle, TypeOK
  <2>2. ASSUME NEW p, Asking(p) PROVE TypeOK
    <3>1. PICK F : F = FrameOf(call)
      OBVIOUS
    <3>2. F \in Seq(Byte) /\ Len(F) \in 0 .. Len(F)
      BY <1>1, <2>2, <3>1, SendableFacts, MessageFrame DEF Asking
    <3>3. serverInbox \in Seq(Byte)
      BY <2>2, <3>1, <3>2, FirstPart DEF Asking
    <3>4. toServer \in Seq(Byte)
      BY <2>2, <3>1, <3>2, PartFacts DEF Asking
    <3> QED
      BY <1>1, <2>0, <2>2, <3>3, <3>4 DEF OneFrame, Asking, TypeOK
  <2>3. ASSUME NEW r, NEW p, NEW q, Answering(r, p, q) PROVE TypeOK
    <3>1. PICK F : F = FrameOf(r)
      OBVIOUS
    <3>2. F \in Seq(Byte) /\ Len(F) \in Nat
      BY <1>1, <2>3, <3>1, SendableFacts, MessageFrame DEF Answering
    <3>3. q \in 0 .. Len(F) /\ p \in 0 .. q /\ p \in 0 .. Len(F) /\ Len(F) \in 0 .. Len(F)
          /\ q \in 0 .. Len(F)
      BY <2>3, <3>1, <3>2 DEF Answering
    <3>4. clientInbox \in Seq(Byte)
      BY <2>3, <3>1, <3>2, <3>3, FirstPart DEF Answering
    <3>5. toClient \in Seq(Byte)
      BY <2>3, <3>1, <3>2, <3>3, PartFacts DEF Answering
    <3>6. writes \in Seq(Seq(Byte) \ {<<>>})
      <4>1. PICK B : B = Part(F, q, Len(F))
        OBVIOUS
      <4>2. B \in Seq(Byte) /\ Len(B) = Len(F) - q
        BY <3>2, <3>3, <4>1, PartFacts
      <4>3. q # Len(F) => B # <<>>
        BY <3>2, <3>3, <4>2
      <4>4. writes = IF q = Len(F) THEN <<>> ELSE <<B>>
        BY <2>3, <3>1, <4>1 DEF Answering, LeftToWrite
      <4> QED
        <5>1. CASE q = Len(F)
          BY <2>0, <4>4, <5>1
        <5>2. CASE q # Len(F)
          <6>1. PICK S : S = Seq(Byte) \ {<<>>}
            OBVIOUS
          <6>2. B \in S
            BY <4>2, <4>3, <5>2, <6>1
          <6>3. <<B>> \in Seq(S)
            BY <6>2
          <6> QED
            BY <4>4, <5>2, <6>1, <6>3, Zenon
        <5> QED
          BY <5>1, <5>2
    <3> QED
      BY <1>1, <2>0, <2>3, <3>4, <3>5, <3>6 DEF OneFrame, Answering, TypeOK
  <2> QED
    BY <1>1, <2>1, <2>2, <2>3 DEF OneFrame
<1>2. OneFrame /\ [Next]_vars => OneFrame'
  BY OneFrameStep
<1>3. OneFrame => TypeOK
  BY <1>1
<1> QED
  BY <1>2, <1>3, InitOneFrame, PTL DEF Spec

\* processCompleteFrames() starts at most one write at a time: bytes of two
\* responses never mix.
THEOREM RepliesDoNotMix == Spec => []WritesDoNotOverlap
<1>1. OneFrame /\ [Next]_vars => OneFrame'
  BY OneFrameStep
<1>2. OneFrame => WritesDoNotOverlap
  <2>1. ASSUME writes = <<>> \/ \E b : writes = <<b>> PROVE Len(writes) <= 1
    <3>1. CASE writes = <<>>
      BY <3>1
    <3>2. ASSUME NEW b, writes = <<b>> PROVE Len(writes) <= 1
      <4>1. Len(<<b>>) = 1
        OBVIOUS
      <4> QED
        BY <3>2, <4>1
    <3> QED
      BY <2>1, <3>1, <3>2
  <2>2. ASSUME OneFrame PROVE writes = <<>> \/ \E b : writes = <<b>>
    <3>1. CASE Idle
      BY <3>1 DEF Idle
    <3>2. ASSUME NEW p, Asking(p) PROVE writes = <<>>
      BY <3>2 DEF Asking
    <3>3. ASSUME NEW r, NEW p, NEW q, Answering(r, p, q)
          PROVE  writes = <<>> \/ \E b : writes = <<b>>
      <4>1. writes = <<>> \/ writes = <<Part(FrameOf(r), q, Len(FrameOf(r)))>>
        BY <3>3 DEF Answering, LeftToWrite
      <4> QED
        BY <4>1, Zenon
    <3> QED
      BY <2>2, <3>1, <3>2, <3>3 DEF OneFrame
  <2> QED
    BY <2>1, <2>2 DEF WritesDoNotOverlap
<1> QED
  BY <1>1, <1>2, InitOneFrame, PTL DEF Spec

\* However TCP cuts the bytes, sendAndReceive() and FrameSession serve each request
\* once, as it was asked, and return the reply to it.
THEOREM BytesCarryCalls == Spec => ImplementsRequestReply
<1>1. Init => RequestReplyOfBytes!Init
  BY DEF Init, RequestReplyOfBytes!Init
<1>2. OneFrame /\ [Next]_vars => OneFrame'
  BY OneFrameStep
<1>3. OneFrame /\ [Next]_vars => [RequestReplyOfBytes!Next]_(RequestReplyOfBytes!vars)
  BY OneFrameStep
<1> QED
  BY <1>1, <1>2, <1>3, InitOneFrame, PTL DEF Spec, ImplementsRequestReply, RequestReplyOfBytes!Spec

\* A payload of the call under way or of the last result is read as what was written,
\* with signs, strings and lists, and refused wherever it is cut short.
THEOREM PayloadsAreExact == Spec => []PayloadsExact
<1> DEFINE ResultSent == result \in Sendable \cup {NONE}
<1>1. OneFrame /\ [Next]_vars => OneFrame'
  BY OneFrameStep
<1>2. Init => ResultSent
  BY DEF Init
<1>3. OneFrame /\ ResultSent /\ [Next]_vars => ResultSent'
  <2> SUFFICES ASSUME OneFrame, ResultSent, [Next]_vars PROVE ResultSent'
    OBVIOUS
  <2>1. [RequestReplyOfBytes!Next]_(RequestReplyOfBytes!vars)
    BY OneFrameStep
  <2>2. CASE RequestReplyOfBytes!Return
    <3>1. served # NONE /\ result' = served.reply
      BY <2>2 DEF RequestReplyOfBytes!Return
    <3>2. PICK r, p, q : Answering(r, p, q)
      BY <3>1 DEF OneFrame, Idle, Asking
    <3>3. served.reply = r /\ r \in Sendable
      BY <3>2, SendableFacts DEF Answering
    <3> QED
      BY <3>1, <3>3
  <2>3. CASE UNCHANGED result
    BY <2>3
  <2> QED
    BY <2>1, <2>2, <2>3 DEF RequestReplyOfBytes!Next, RequestReplyOfBytes!vars,
                            RequestReplyOfBytes!Ask, RequestReplyOfBytes!Serve
<1>4. OneFrame /\ ResultSent => PayloadsExact
  <2> SUFFICES ASSUME OneFrame, ResultSent, NEW message \in {call, result} \ {NONE}
               PROVE  /\ Survives(message)
                      /\ \A n \in 0 .. Len(Write(message)) - 1 :
                             Read(message.type, First(Write(message), n)) = {}
    BY DEF PayloadsExact
  <2>1. call \in Requests \cup {NONE}
    BY DEF OneFrame, Idle, Asking, Answering
  <2>2. message \in Sendable
    BY <2>1, SendableFacts
  <2> QED
    BY <2>2, MessageSurvives
<1> QED
  BY <1>1, <1>2, <1>3, <1>4, InitOneFrame, PTL DEF Spec
=============================================================================
