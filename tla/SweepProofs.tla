---------------------------- MODULE SweepProofs ----------------------------
(***************************************************************************)
(* Proofs about sweeps: what a request may do to a book of any size, with  *)
(* any prices.  The first half is about sums over finite sets, which the   *)
(* library defines by a recursive function.  Induction is done over the    *)
(* set of the numbers (or of the subsets) for which the claim holds.       *)
(***************************************************************************)
EXTENDS Sweep, FiniteSetTheorems, SequenceTheorems, TLAPS

\* Induction over the natural numbers, for a claim that is given as a set.
LEMMA NatInduct ==
  ASSUME NEW A, 0 \in A, \A n \in Nat : n \in A => n + 1 \in A
  PROVE  Nat \subseteq A
<1> SUFFICES ASSUME Nat \ A # {} PROVE FALSE
  OBVIOUS
<1> DEFINE R == OpToRel(<, Nat)
<1>1. PICK x \in Nat \ A : \A y \in Nat \ A : <<y, x>> \notin R
  BY NatLessThanWellFounded, WFMin
<1>2. x - 1 \in Nat
  OBVIOUS
<1>3. <<x - 1, x>> \in R
  BY <1>2 DEF OpToRel
<1>4. x - 1 \in A
  BY <1>1, <1>2, <1>3
<1> QED
  BY <1>2, <1>4

\* A set of n + 1 members has n without any one of them.
LEMMA OneLess ==
  ASSUME NEW T, IsFiniteSet(T), NEW n \in Nat, Cardinality(T) = n + 1
  PROVE  T # {} /\ \A x \in T : IsFiniteSet(T \ {x}) /\ Cardinality(T \ {x}) = n
<1>1. T # {}
  BY FS_EmptySet
<1>2. ASSUME NEW x \in T PROVE IsFiniteSet(T \ {x}) /\ Cardinality(T \ {x}) = n
  <2>1. IsFiniteSet(T \ {x}) /\ Cardinality(T \ {x}) = Cardinality(T) - 1
    BY FS_RemoveElement
  <2> QED
    BY <2>1
<1> QED
  BY <1>1, <1>2

\* Induction over the subsets of a finite set, likewise.
LEMMA SetInduct ==
  ASSUME NEW S, IsFiniteSet(S), NEW C, {} \in C,
         \A T \in SUBSET S, x \in S : T \in C /\ x \notin T => T \cup {x} \in C
  PROVE  S \in C
<1> DEFINE A == {n \in Nat : \A T \in SUBSET S : Cardinality(T) = n => T \in C}
<1>1. \A T \in SUBSET S : IsFiniteSet(T) /\ Cardinality(T) \in Nat
  BY FS_Subset, FS_CardinalityType
<1>2. 0 \in A
  BY <1>1, FS_EmptySet
<1>3. ASSUME NEW n \in Nat, n \in A PROVE n + 1 \in A
  <2> SUFFICES ASSUME NEW T \in SUBSET S, Cardinality(T) = n + 1 PROVE T \in C
    OBVIOUS
  <2> HIDE DEF A
  <2>1. PICK x : x \in T
    BY <1>1, OneLess
  <2>2. Cardinality(T \ {x}) = n
    BY <1>1, <2>1, OneLess
  <2> USE DEF A
  <2>3. T \ {x} \in C
    BY <1>3, <2>2
  <2>4. T = (T \ {x}) \cup {x}
    BY <2>1
  <2> QED
    BY <2>1, <2>3, <2>4
<1>4. Nat \subseteq A
  <2> HIDE DEF A
  <2> QED
    BY <1>2, <1>3, NatInduct
<1> QED
  BY <1>1, <1>4

-----------------------------------------------------------------------------
\* Sums.

Chosen(s) == CHOOSE x \in s : TRUE

\* `g' sums up F over each of the sets in D, as the fold of the library does.
IsSum(g, F, D) ==
  g = [s \in D |-> IF s = {} THEN 0 ELSE F[Chosen(s)] + g[s \ {Chosen(s)}]]

\* The library's sum is made by such a function.
LEMMA SumUnfolded ==
  ASSUME NEW F, NEW S
  PROVE  SumFunctionOnSet(F, S) = (CHOOSE g : IsSum(g, F, SUBSET S))[S]
  BY DEF SumFunctionOnSet, FoldFunctionOnSet, MapThenFoldSet, IsSum, Chosen

\* There is one, for a finite set: it is built up by the size of the subsets.
LEMMA SumExists ==
  ASSUME NEW F, NEW S, IsFiniteSet(S)
  PROVE  \E g : IsSum(g, F, SUBSET S)
<1> DEFINE D(n) == {s \in SUBSET S : Cardinality(s) <= n}
           A == {n \in Nat : \E g : IsSum(g, F, D(n))}
<1>1. \A s \in SUBSET S : IsFiniteSet(s) /\ Cardinality(s) \in Nat
  BY FS_Subset, FS_CardinalityType
<1>2. 0 \in A
  <2>1. \A s \in D(0) : s = {}
    BY <1>1, FS_EmptySet
  <2>2. IsSum([s \in D(0) |-> 0], F, D(0))
    BY <2>1 DEF IsSum
  <2> QED
    BY <2>2
<1>3. ASSUME NEW n \in Nat, n \in A PROVE n + 1 \in A
  <2>1. PICK g : IsSum(g, F, D(n))
    BY <1>3
  <2> DEFINE h == [s \in D(n + 1) |->
                     IF s = {} THEN 0 ELSE F[Chosen(s)] + g[s \ {Chosen(s)}]]
  <2>2. \A s \in D(n) : s \in D(n + 1)
    BY <1>1
  <2>3. \A s \in D(n) : h[s] = g[s]
    BY <2>1, <2>2 DEF IsSum
  <2>4. \A s \in D(n + 1) : s # {} => s \ {Chosen(s)} \in D(n)
    <3> SUFFICES ASSUME NEW s \in D(n + 1), s # {} PROVE s \ {Chosen(s)} \in D(n)
      OBVIOUS
    <3>1. Chosen(s) \in s
      BY DEF Chosen
    <3>2. Cardinality(s \ {Chosen(s)}) = Cardinality(s) - 1
      BY <1>1, <3>1, FS_RemoveElement
    <3> QED
      BY <1>1, <3>2
  <2>5. IsSum(h, F, D(n + 1))
    <3>1. h = [s \in D(n + 1) |-> IF s = {} THEN 0 ELSE F[Chosen(s)] + h[s \ {Chosen(s)}]]
      <4>1. \A s \in D(n + 1) : s # {} => h[s \ {Chosen(s)}] = g[s \ {Chosen(s)}]
        BY <2>3, <2>4
      <4> QED
        BY <4>1
    <3> HIDE DEF h
    <3> QED
      BY <3>1 DEF IsSum
  <2> HIDE DEF h, D
  <2> QED
    BY <2>5
<1>4. Nat \subseteq A
  <2> HIDE DEF A
  <2> QED
    BY <1>2, <1>3, NatInduct
<1>5. Cardinality(S) \in A
  BY <1>1, <1>4
<1>6. D(Cardinality(S)) = SUBSET S
  BY FS_Subset
<1> QED
  BY <1>5, <1>6

\* All such functions agree.
LEMMA SumUnique ==
  ASSUME NEW F, NEW S, IsFiniteSet(S), NEW T \in SUBSET S, NEW g, NEW h,
         IsSum(g, F, SUBSET S), IsSum(h, F, SUBSET T)
  PROVE  g[T] = h[T]
<1> DEFINE A == {n \in Nat : \A U \in SUBSET T : Cardinality(U) = n => g[U] = h[U]}
<1>1. \A U \in SUBSET T : IsFiniteSet(U) /\ Cardinality(U) \in Nat
  BY FS_Subset, FS_CardinalityType
<1>2. 0 \in A
  <2>1. \A U \in SUBSET T : Cardinality(U) = 0 => U = {}
    BY <1>1, FS_EmptySet
  <2>2. g[{}] = h[{}]
    BY DEF IsSum
  <2> QED
    BY <2>1, <2>2
<1>3. ASSUME NEW n \in Nat, n \in A PROVE n + 1 \in A
  <2> SUFFICES ASSUME NEW U \in SUBSET T, Cardinality(U) = n + 1 PROVE g[U] = h[U]
    OBVIOUS
  <2>1. U # {}
    BY <1>1, OneLess
  <2>2. Chosen(U) \in U
    BY <2>1 DEF Chosen
  <2>3. Cardinality(U \ {Chosen(U)}) = n
    <3> HIDE DEF A
    <3> QED
      BY <1>1, <2>2, OneLess
  <2>4. g[U \ {Chosen(U)}] = h[U \ {Chosen(U)}]
    BY <1>3, <2>3
  <2>5. /\ g[U] = F[Chosen(U)] + g[U \ {Chosen(U)}]
        /\ h[U] = F[Chosen(U)] + h[U \ {Chosen(U)}]
    BY <2>1 DEF IsSum
  <2> QED
    BY <2>4, <2>5
<1>4. Nat \subseteq A
  <2> HIDE DEF A
  <2> QED
    BY <1>2, <1>3, NatInduct
<1> QED
  BY <1>1, <1>4

\* What the recursion computes: nothing for the empty set, and one term more.
LEMMA SumRecursion ==
  ASSUME NEW F, NEW S, IsFiniteSet(S)
  PROVE  SumFunctionOnSet(F, S) =
           IF S = {} THEN 0
           ELSE F[Chosen(S)] + SumFunctionOnSet(F, S \ {Chosen(S)})
<1> DEFINE g == CHOOSE f : IsSum(f, F, SUBSET S)
           T == S \ {Chosen(S)}
           h == CHOOSE f : IsSum(f, F, SUBSET T)
<1>1. IsFiniteSet(T) /\ T \in SUBSET S
  BY FS_RemoveElement
<1>2. IsSum(g, F, SUBSET S) /\ IsSum(h, F, SUBSET T)
  BY <1>1, SumExists
<1>3. SumFunctionOnSet(F, S) = g[S] /\ SumFunctionOnSet(F, T) = h[T]
  BY SumUnfolded
<1> HIDE DEF g, h
<1>4. g[S] = IF S = {} THEN 0 ELSE F[Chosen(S)] + g[T]
  BY <1>2 DEF IsSum
<1>5. g[T] = h[T]
  <2>1. ASSUME NEW a, NEW b, IsSum(a, F, SUBSET S), IsSum(b, F, SUBSET T)
        PROVE  a[T] = b[T]
    BY <1>1, <2>1, SumUnique
  <2> QED
    BY <1>2, <2>1
<1> QED
  BY <1>3, <1>4, <1>5

\* Nothing adds up to nothing.
LEMMA SumEmpty == \A F : SumFunctionOnSet(F, {}) = 0
  BY SumRecursion, FS_EmptySet

\* The sum of integers is one.
LEMMA SumType ==
  ASSUME NEW S, IsFiniteSet(S), NEW F, \A x \in S : F[x] \in Int
  PROVE  SumFunctionOnSet(F, S) \in Int
<1> DEFINE A == {n \in Nat : \A T \in SUBSET S :
                   Cardinality(T) = n => SumFunctionOnSet(F, T) \in Int}
<1>1. \A T \in SUBSET S : IsFiniteSet(T) /\ Cardinality(T) \in Nat
  BY FS_Subset, FS_CardinalityType
<1>2. 0 \in A
  <2>1. \A T \in SUBSET S : Cardinality(T) = 0 => T = {}
    BY <1>1, FS_EmptySet
  <2> QED
    BY <2>1, SumEmpty
<1>3. ASSUME NEW n \in Nat, n \in A PROVE n + 1 \in A
  <2> SUFFICES ASSUME NEW T \in SUBSET S, Cardinality(T) = n + 1
               PROVE  SumFunctionOnSet(F, T) \in Int
    OBVIOUS
  <2>1. T # {} /\ \A x \in T : Cardinality(T \ {x}) = n
    <3> HIDE DEF A
    <3> QED
      BY <1>1, OneLess
  <2>2. Chosen(T) \in T
    BY <2>1 DEF Chosen
  <2>3. SumFunctionOnSet(F, T \ {Chosen(T)}) \in Int
    BY <1>3, <2>1, <2>2
  <2>4. SumFunctionOnSet(F, T) = F[Chosen(T)] + SumFunctionOnSet(F, T \ {Chosen(T)})
    BY <1>1, <2>1, SumRecursion
  <2> QED
    BY <2>2, <2>3, <2>4
<1>4. Nat \subseteq A
  <2> HIDE DEF A
  <2> QED
    BY <1>2, <1>3, NatInduct
<1> QED
  BY <1>1, <1>4

\* The order of the summands does not matter: any one can be taken out.
LEMMA SumTakeOut ==
  ASSUME NEW S, IsFiniteSet(S), NEW F, \A x \in S : F[x] \in Int, NEW e \in S
  PROVE  SumFunctionOnSet(F, S) = F[e] + SumFunctionOnSet(F, S \ {e})
<1> DEFINE Sum(T) == SumFunctionOnSet(F, T)
           Claim(T) == \A x \in T : Sum(T) = F[x] + Sum(T \ {x})
           A == {n \in Nat : \A T \in SUBSET S : Cardinality(T) = n => Claim(T)}
<1>1. \A T \in SUBSET S : IsFiniteSet(T) /\ Cardinality(T) \in Nat
  BY FS_Subset, FS_CardinalityType
<1>2. \A T \in SUBSET S : Sum(T) \in Int
  BY <1>1, SumType
<1>3. \A T \in SUBSET S : T # {} => Sum(T) = F[Chosen(T)] + Sum(T \ {Chosen(T)})
  BY <1>1, SumRecursion
<1> HIDE DEF Sum
<1>4. 0 \in A
  <2>1. \A T \in SUBSET S : Cardinality(T) = 0 => T = {}
    BY <1>1, FS_EmptySet
  <2> QED
    BY <2>1
<1>5. ASSUME NEW n \in Nat, n \in A PROVE n + 1 \in A
  <2> SUFFICES ASSUME NEW T \in SUBSET S, Cardinality(T) = n + 1, NEW x \in T
               PROVE  Sum(T) = F[x] + Sum(T \ {x})
    OBVIOUS
  <2>1. T # {} /\ \A y \in T : Cardinality(T \ {y}) = n
    <3> HIDE DEF A
    <3> QED
      BY <1>1, OneLess
  <2>2. PICK p \in T : p = Chosen(T)
    BY <2>1 DEF Chosen
  <2>3. Sum(T) = F[p] + Sum(T \ {p})
    BY <1>3, <2>1, <2>2
  <2>4. CASE x # p
    <3>1. Claim(T \ {p}) /\ Claim(T \ {x})
      BY <1>5, <2>1
    <3>2. Sum(T \ {p}) = F[x] + Sum((T \ {p}) \ {x})
      BY <2>4, <3>1
    <3>3. Sum(T \ {x}) = F[p] + Sum((T \ {x}) \ {p})
      BY <2>4, <3>1
    <3>4. (T \ {p}) \ {x} = (T \ {x}) \ {p}
      OBVIOUS
    <3>5. Sum((T \ {p}) \ {x}) = Sum((T \ {x}) \ {p})
      BY <3>4, Zenon
    <3>6. F[x] \in Int /\ F[p] \in Int /\ Sum((T \ {x}) \ {p}) \in Int
      BY <1>2
    <3>7. ASSUME NEW a \in Int, NEW b \in Int, NEW c \in Int PROVE a + (b + c) = b + (a + c)
      OBVIOUS
    <3> QED
      BY <2>3, <3>2, <3>3, <3>5, <3>6, <3>7
  <2> QED
    BY <2>3, <2>4
<1>6. Nat \subseteq A
  <2> HIDE DEF A
  <2> QED
    BY <1>4, <1>5, NatInduct
<1>7. Claim(S)
  BY <1>1, <1>6
<1> QED
  BY <1>7 DEF Sum

\* One summand more.
LEMMA SumAdd ==
  ASSUME NEW S, IsFiniteSet(S), NEW x, x \notin S, NEW F,
         \A y \in S \cup {x} : F[y] \in Int
  PROVE  SumFunctionOnSet(F, S \cup {x}) = SumFunctionOnSet(F, S) + F[x]
<1>1. IsFiniteSet(S \cup {x}) /\ (S \cup {x}) \ {x} = S /\ x \in S \cup {x}
  BY FS_AddElement
<1>2. SumFunctionOnSet(F, S \cup {x}) = F[x] + SumFunctionOnSet(F, (S \cup {x}) \ {x})
  BY <1>1, SumTakeOut
<1>3. SumFunctionOnSet(F, (S \cup {x}) \ {x}) = SumFunctionOnSet(F, S)
  BY <1>1
<1>4. SumFunctionOnSet(F, S) \in Int
  BY SumType
<1> QED
  BY <1>2, <1>3, <1>4

\* One more summand of T.
LEMMA SumGrow ==
  ASSUME NEW T, IsFiniteSet(T), NEW G, \A t \in T : G[t] \in Int,
         NEW U \in SUBSET T, NEW t \in T, t \notin U
  PROVE  SumFunctionOnSet(G, U \cup {t}) = SumFunctionOnSet(G, U) + G[t]
<1>1. IsFiniteSet(U)
  BY FS_Subset
<1>2. \A u \in U \cup {t} : G[u] \in Int
  OBVIOUS
<1> QED
  BY <1>1, <1>2, SumAdd

\* Sums of the same summands are the same.
LEMMA SumEqual ==
  ASSUME NEW S, IsFiniteSet(S), NEW F, NEW G, \A x \in S : F[x] \in Int /\ G[x] = F[x]
  PROVE  SumFunctionOnSet(G, S) = SumFunctionOnSet(F, S)
<1> DEFINE C == {T \in SUBSET S : SumFunctionOnSet(G, T) = SumFunctionOnSet(F, T)}
<1>1. {} \in C
  BY SumEmpty
<1>2. ASSUME NEW T \in SUBSET S, NEW x \in S, T \in C, x \notin T PROVE T \cup {x} \in C
  <2>1. (\A y \in S : F[y] \in Int) /\ \A y \in S : G[y] \in Int
    OBVIOUS
  <2>2. SumFunctionOnSet(F, T \cup {x}) = SumFunctionOnSet(F, T) + F[x]
    BY <1>2, <2>1, SumGrow
  <2>3. SumFunctionOnSet(G, T \cup {x}) = SumFunctionOnSet(G, T) + G[x]
    BY <1>2, <2>1, SumGrow
  <2> QED
    BY <1>2, <2>2, <2>3
<1>3. S \in C
  <2> HIDE DEF C
  <2> QED
    BY <1>1, <1>2, SetInduct
<1> QED
  BY <1>3

\* Summing up pays: if two amounts together are bounded everywhere, so are they in sum.
LEMMA SumBound ==
  ASSUME NEW S, IsFiniteSet(S), NEW F, NEW G, NEW H,
         \A x \in S : /\ F[x] \in Int /\ G[x] \in Int /\ H[x] \in Int
                      /\ F[x] + G[x] <= H[x]
  PROVE  SumFunctionOnSet(F, S) + SumFunctionOnSet(G, S) <= SumFunctionOnSet(H, S)
<1> DEFINE Claim(T) ==
      SumFunctionOnSet(F, T) + SumFunctionOnSet(G, T) <= SumFunctionOnSet(H, T)
<1> DEFINE C == {T \in SUBSET S : Claim(T)}
<1>1. {} \in C
  BY SumEmpty
<1>2. ASSUME NEW T \in SUBSET S, NEW x \in S, T \in C, x \notin T PROVE T \cup {x} \in C
  <2>1. IsFiniteSet(T) /\ T \cup {x} \in SUBSET S
    BY FS_Subset
  <2>2. PICK f, g, h \in Int : /\ f = SumFunctionOnSet(F, T)
                               /\ g = SumFunctionOnSet(G, T)
                               /\ h = SumFunctionOnSet(H, T)
    BY <2>1, SumType
  <2>3. PICK i, j, k \in Int : i = F[x] /\ j = G[x] /\ k = H[x]
    OBVIOUS
  <2>4. /\ SumFunctionOnSet(F, T \cup {x}) = f + i
        /\ SumFunctionOnSet(G, T \cup {x}) = g + j
        /\ SumFunctionOnSet(H, T \cup {x}) = h + k
    BY <1>2, <2>1, <2>2, <2>3, SumAdd
  <2>5. f + g <= h
    BY <1>2, <2>2
  <2>6. i + j <= k
    BY <2>3
  <2>7. (f + i) + (g + j) <= h + k
    BY <2>5, <2>6
  <2> QED
    BY <2>1, <2>4, <2>7
<1>3. S \in C
  <2> HIDE DEF C
  <2> QED
    BY <1>1, <1>2, SetInduct
<1> QED
  BY <1>3

\* A common factor can be taken out.
LEMMA SumScale ==
  ASSUME NEW S, IsFiniteSet(S), NEW c \in Int, NEW F, NEW G,
         \A x \in S : F[x] \in Int /\ G[x] = c * F[x]
  PROVE  SumFunctionOnSet(G, S) = c * SumFunctionOnSet(F, S)
<1> DEFINE C == {T \in SUBSET S : SumFunctionOnSet(G, T) = c * SumFunctionOnSet(F, T)}
<1>1. {} \in C
  BY SumEmpty
<1>2. ASSUME NEW T \in SUBSET S, NEW x \in S, T \in C, x \notin T PROVE T \cup {x} \in C
  <2>1. IsFiniteSet(T) /\ T \cup {x} \in SUBSET S /\ \A y \in S : G[y] \in Int
    BY FS_Subset
  <2>2. PICK f, i \in Int : f = SumFunctionOnSet(F, T) /\ i = F[x]
    BY <2>1, SumType
  <2>3. SumFunctionOnSet(F, T \cup {x}) = f + i
    BY <1>2, <2>1, <2>2, SumAdd
  <2>4. SumFunctionOnSet(G, T \cup {x}) = SumFunctionOnSet(G, T) + G[x]
    BY <1>2, <2>1, SumAdd
  <2>5. SumFunctionOnSet(G, T) = c * f /\ G[x] = c * i
    BY <1>2, <2>2
  <2>6. c * f + c * i = c * (f + i)
    OBVIOUS
  <2> QED
    BY <2>1, <2>3, <2>4, <2>5, <2>6
<1>3. S \in C
  <2> HIDE DEF C
  <2> QED
    BY <1>1, <1>2, SetInduct
<1> QED
  BY <1>3

\* Sums are added summand by summand.
LEMMA SumPlus ==
  ASSUME NEW S, IsFiniteSet(S), NEW F, NEW G, NEW H,
         \A x \in S : F[x] \in Int /\ G[x] \in Int /\ H[x] = F[x] + G[x]
  PROVE  SumFunctionOnSet(H, S) = SumFunctionOnSet(F, S) + SumFunctionOnSet(G, S)
<1> DEFINE C == {T \in SUBSET S : SumFunctionOnSet(H, T)
                                   = SumFunctionOnSet(F, T) + SumFunctionOnSet(G, T)}
<1>1. {} \in C
  BY SumEmpty
<1>2. ASSUME NEW T \in SUBSET S, NEW x \in S, T \in C, x \notin T PROVE T \cup {x} \in C
  <2>1. IsFiniteSet(T) /\ T \cup {x} \in SUBSET S /\ \A y \in S : H[y] \in Int
    BY FS_Subset
  <2>2. PICK f, g, i, j \in Int : /\ f = SumFunctionOnSet(F, T) /\ i = F[x]
                                  /\ g = SumFunctionOnSet(G, T) /\ j = G[x]
    BY <2>1, SumType
  <2>3. SumFunctionOnSet(F, T \cup {x}) = f + i
    BY <1>2, <2>1, <2>2, SumAdd
  <2>4. SumFunctionOnSet(G, T \cup {x}) = g + j
    BY <1>2, <2>1, <2>2, SumAdd
  <2>5. SumFunctionOnSet(H, T \cup {x}) = SumFunctionOnSet(H, T) + H[x]
    BY <1>2, <2>1, SumAdd
  <2>6. SumFunctionOnSet(H, T) = f + g /\ H[x] = i + j
    BY <1>2, <2>2
  <2> QED
    BY <2>1, <2>3, <2>4, <2>5, <2>6
<1>3. S \in C
  <2> HIDE DEF C
  <2> QED
    BY <1>1, <1>2, SetInduct
<1> QED
  BY <1>3

\* Zeros do not count: G is F on S and nothing elsewhere.
LEMMA SumExtend ==
  ASSUME NEW T, IsFiniteSet(T), NEW S \in SUBSET T, NEW F, NEW G,
         \A x \in S : F[x] \in Int /\ G[x] = F[x], \A x \in T \ S : G[x] = 0
  PROVE  SumFunctionOnSet(G, T) = SumFunctionOnSet(F, S)
<1> DEFINE C == {U \in SUBSET T : SumFunctionOnSet(G, U) = SumFunctionOnSet(F, U \cap S)}
<1>1. {} \in C
  <2>1. {} \cap S = {}
    OBVIOUS
  <2> QED
    BY <2>1, SumEmpty
<1>2. ASSUME NEW U \in SUBSET T, NEW x \in T, U \in C, x \notin U PROVE U \cup {x} \in C
  <2>1. /\ IsFiniteSet(U) /\ U \cup {x} \in SUBSET T /\ IsFiniteSet(U \cap S)
        /\ \A y \in T : G[y] \in Int
    BY FS_Subset
  <2>2. SumFunctionOnSet(G, U \cup {x}) = SumFunctionOnSet(G, U) + G[x]
    BY <1>2, <2>1, SumAdd
  <2>3. SumFunctionOnSet(F, U \cap S) \in Int
    BY <2>1, SumType
  <2>4. CASE x \in S
    <3>1. (U \cup {x}) \cap S = (U \cap S) \cup {x}
      BY <2>4
    <3>2. SumFunctionOnSet(F, (U \cap S) \cup {x}) = SumFunctionOnSet(F, U \cap S) + F[x]
      BY <1>2, <2>1, <2>4, SumAdd
    <3>3. SumFunctionOnSet(F, (U \cup {x}) \cap S) = SumFunctionOnSet(F, U \cap S) + F[x]
      BY <3>1, <3>2, Zenon
    <3>4. SumFunctionOnSet(G, U) = SumFunctionOnSet(F, U \cap S) /\ G[x] = F[x]
      BY <1>2, <2>4
    <3>5. SumFunctionOnSet(G, U \cup {x}) = SumFunctionOnSet(F, (U \cup {x}) \cap S)
      BY <2>2, <3>3, <3>4, Zenon
    <3> QED
      BY <2>1, <3>5
  <2>5. CASE x \notin S
    <3>1. (U \cup {x}) \cap S = U \cap S
      BY <2>5
    <3>2. SumFunctionOnSet(F, (U \cup {x}) \cap S) = SumFunctionOnSet(F, U \cap S)
      BY <3>1, Zenon
    <3>3. PICK i \in Int : i = SumFunctionOnSet(F, U \cap S)
      BY <2>3
    <3>4. SumFunctionOnSet(G, U) = i /\ G[x] = 0
      BY <1>2, <2>5, <3>3
    <3>5. SumFunctionOnSet(G, U \cup {x}) = i
      BY <2>2, <3>4
    <3> QED
      BY <2>1, <3>2, <3>3, <3>5
  <2> QED
    BY <2>4, <2>5
<1>3. T \in C
  <2> HIDE DEF C
  <2> QED
    BY <1>1, <1>2, SetInduct
<1>4. T \cap S = S
  OBVIOUS
<1> QED
  BY <1>3, <1>4

\* Bounds of the summands are bounds of the sum.
LEMMA SumOrdered ==
  ASSUME NEW S, IsFiniteSet(S), NEW F, NEW H,
         \A x \in S : F[x] \in Int /\ H[x] \in Int /\ F[x] <= H[x]
  PROVE  SumFunctionOnSet(F, S) <= SumFunctionOnSet(H, S)
<1>1. PICK Z : Z = [x \in S |-> 0]
  OBVIOUS
<1>2. \A x \in S : Z[x] = 0
  BY <1>1
<1>3. SumFunctionOnSet(Z, S) = 0
  <2>1. {} \in SUBSET S /\ S \ {} = S
    OBVIOUS
  <2>2. SumFunctionOnSet(Z, S) = SumFunctionOnSet(Z, {})
    BY <1>2, <2>1, SumExtend
  <2> QED
    BY <2>2, SumEmpty
<1>4. \A x \in S : F[x] \in Int /\ Z[x] \in Int /\ H[x] \in Int /\ F[x] + Z[x] <= H[x]
  BY <1>2
<1>5. SumFunctionOnSet(F, S) + SumFunctionOnSet(Z, S) <= SumFunctionOnSet(H, S)
  BY <1>4, SumBound
<1>6. SumFunctionOnSet(F, S) \in Int /\ SumFunctionOnSet(H, S) \in Int
  BY SumType
<1> QED
  BY <1>3, <1>5, <1>6

\* The summands may be numbered in any way.
LEMMA SumReindex ==
  ASSUME NEW T, IsFiniteSet(T), NEW S, NEW h \in Bijection(T, S), NEW F, NEW G,
         \A x \in S : F[x] \in Int, \A t \in T : G[t] = F[h[t]]
  PROVE  SumFunctionOnSet(G, T) = SumFunctionOnSet(F, S)
<1> DEFINE Image(U) == {h[u] : u \in U}
           C == {U \in SUBSET T : /\ IsFiniteSet(Image(U))
                                  /\ SumFunctionOnSet(G, U) = SumFunctionOnSet(F, Image(U))}
<1>1. /\ \A t \in T : h[t] \in S
      /\ \A t, u \in T : h[t] = h[u] => t = u
      /\ \A x \in S : \E t \in T : h[t] = x
  BY DEF Bijection, Injection, IsInjective, Surjection
<1>2. {} \in C
  <2>1. Image({}) = {}
    OBVIOUS
  <2> QED
    BY <2>1, SumEmpty, FS_EmptySet
<1>3. ASSUME NEW U \in SUBSET T, NEW x \in T, U \in C, x \notin U PROVE U \cup {x} \in C
  <2>1. /\ IsFiniteSet(U) /\ U \cup {x} \in SUBSET T /\ IsFiniteSet(Image(U))
        /\ \A y \in T : G[y] \in Int
    BY <1>1, <1>3, FS_Subset
  <2>2. SumFunctionOnSet(G, U \cup {x}) = SumFunctionOnSet(G, U) + G[x]
    BY <1>3, <2>1, SumAdd
  <2>3. Image(U \cup {x}) = Image(U) \cup {h[x]} /\ h[x] \notin Image(U)
    BY <1>1, <1>3
  <2>4. IsFiniteSet(Image(U \cup {x})) /\ \A y \in Image(U) \cup {h[x]} : F[y] \in Int
    <3>1. IsFiniteSet(Image(U) \cup {h[x]})
      <4> HIDE DEF Image
      <4> QED
        BY <2>1, FS_AddElement
    <3>2. IsFiniteSet(Image(U \cup {x}))
      BY <2>3, <3>1, Zenon
    <3>3. \A y \in Image(U) \cup {h[x]} : F[y] \in Int
      BY <1>1
    <3> QED
      BY <3>2, <3>3
  <2>5. SumFunctionOnSet(F, Image(U) \cup {h[x]}) = SumFunctionOnSet(F, Image(U)) + F[h[x]]
    <3>1. PICK I, y : I = Image(U) /\ y = h[x]
      OBVIOUS
    <3>2. IsFiniteSet(I) /\ y \notin I /\ \A z \in I \cup {y} : F[z] \in Int
      BY <2>1, <2>3, <2>4, <3>1
    <3>3. SumFunctionOnSet(F, I \cup {y}) = SumFunctionOnSet(F, I) + F[y]
      BY <3>2, SumAdd
    <3> QED
      BY <3>1, <3>3, Zenon
  <2> QED
    BY <1>3, <2>1, <2>2, <2>3, <2>4, <2>5
<1>4. T \in C
  <2> HIDE DEF C
  <2> QED
    BY <1>2, <1>3, SetInduct
<1>5. Image(T) = S
  BY <1>1
<1> QED
  BY <1>4, <1>5

\* Two sets that have nothing in common.
LEMMA SumUnion ==
  ASSUME NEW S, IsFiniteSet(S), NEW T, IsFiniteSet(T), S \cap T = {}, NEW F,
         \A x \in S \cup T : F[x] \in Int
  PROVE  SumFunctionOnSet(F, S \cup T) = SumFunctionOnSet(F, S) + SumFunctionOnSet(F, T)
<1> DEFINE C == {U \in SUBSET T : SumFunctionOnSet(F, S \cup U)
                                   = SumFunctionOnSet(F, S) + SumFunctionOnSet(F, U)}
<1>1. PICK sum \in Int : sum = SumFunctionOnSet(F, S)
  BY SumType
<1>2. {} \in C
  <2>1. S \cup {} = S
    OBVIOUS
  <2> QED
    BY <1>1, <2>1, SumEmpty
<1>3. ASSUME NEW U \in SUBSET T, NEW x \in T, U \in C, x \notin U PROVE U \cup {x} \in C
  <2>1. PICK A : A = S \cup U
    OBVIOUS
  <2>2. /\ IsFiniteSet(U) /\ IsFiniteSet(A) /\ x \notin A
        /\ S \cup (U \cup {x}) = A \cup {x} /\ \A y \in A \cup {x} : F[y] \in Int
    BY <1>3, <2>1, FS_Subset, FS_Union
  <2>3. PICK part \in Int : part = SumFunctionOnSet(F, U)
    BY <2>2, SumType
  <2>4. SumFunctionOnSet(F, U \cup {x}) = part + F[x]
    BY <1>3, <2>2, <2>3, SumAdd
  <2>5. SumFunctionOnSet(F, A \cup {x}) = SumFunctionOnSet(F, A) + F[x]
    BY <2>2, SumAdd
  <2>6. SumFunctionOnSet(F, A) = sum + part
    BY <1>1, <1>3, <2>1, <2>3
  <2>7. SumFunctionOnSet(F, S \cup (U \cup {x})) = SumFunctionOnSet(F, A \cup {x})
    BY <2>2, Zenon
  <2>8. F[x] \in Int
    OBVIOUS
  <2> QED
    BY <1>1, <2>4, <2>5, <2>6, <2>7, <2>8
<1>4. T \in C
  <2> HIDE DEF C
  <2> QED
    BY <1>2, <1>3, SetInduct
<1> QED
  BY <1>4

\* Counting is summing up ones.
LEMMA SumOnes ==
  ASSUME NEW S, IsFiniteSet(S), NEW F, \A x \in S : F[x] = 1
  PROVE  SumFunctionOnSet(F, S) = Cardinality(S)
<1> DEFINE C == {T \in SUBSET S : SumFunctionOnSet(F, T) = Cardinality(T)}
<1>1. {} \in C
  BY SumEmpty, FS_EmptySet
<1>2. ASSUME NEW T \in SUBSET S, NEW x \in S, T \in C, x \notin T PROVE T \cup {x} \in C
  <2>1. IsFiniteSet(T) /\ T \cup {x} \in SUBSET S /\ \A y \in S : F[y] \in Int
    BY FS_Subset
  <2>2. SumFunctionOnSet(F, T \cup {x}) = SumFunctionOnSet(F, T) + F[x]
    BY <1>2, <2>1, SumAdd
  <2>3. Cardinality(T \cup {x}) = Cardinality(T) + 1
    BY <1>2, <2>1, FS_AddElement
  <2> QED
    BY <1>2, <2>1, <2>2, <2>3
<1>3. S \in C
  <2> HIDE DEF C
  <2> QED
    BY <1>1, <1>2, SetInduct
<1> QED
  BY <1>3

\* Summed up group by group: h is the group of a summand, A its members.
LEMMA SumGroups ==
  ASSUME NEW S, IsFiniteSet(S), NEW T, IsFiniteSet(T), NEW h, \A x \in S : h[x] \in T,
         NEW A, \A t \in T : A[t] \in SUBSET S,
         \A t \in T : \A x \in S : x \in A[t] <=> h[x] = t,
         NEW F, \A x \in S : F[x] \in Int,
         NEW G, \A t \in T : G[t] = SumFunctionOnSet(F, A[t])
  PROVE  SumFunctionOnSet(G, T) = SumFunctionOnSet(F, S)
<1> DEFINE In(U) == {x \in S : h[x] \in U}
           C == {U \in SUBSET T : SumFunctionOnSet(G, U) = SumFunctionOnSet(F, In(U))}
<1>1. {} \in C
  <2>1. In({}) = {}
    OBVIOUS
  <2> QED
    BY <2>1, SumEmpty
<1>2. \A t \in T : G[t] \in Int
  <2> SUFFICES ASSUME NEW t \in T PROVE G[t] \in Int
    OBVIOUS
  <2>1. PICK N : N = A[t]
    OBVIOUS
  <2>2. N \in SUBSET S
    BY <2>1
  <2>3. IsFiniteSet(N) /\ \A x \in N : F[x] \in Int
    BY <2>2, FS_Subset
  <2> QED
    BY <2>1, <2>3, SumType
<1>3. ASSUME NEW U \in SUBSET T, NEW t \in T, U \in C, t \notin U PROVE U \cup {t} \in C
  <2>1. PICK M, N : M = In(U) /\ N = A[t]
    OBVIOUS
  <2>2. /\ IsFiniteSet(M) /\ IsFiniteSet(N) /\ M \cap N = {}
        /\ In(U \cup {t}) = M \cup N /\ \A x \in M \cup N : F[x] \in Int
    <3>1. M \in SUBSET S /\ N \in SUBSET S
      BY <2>1
    <3>2. IsFiniteSet(M) /\ IsFiniteSet(N)
      BY <3>1, FS_Subset
    <3> QED
      BY <1>3, <2>1, <3>1, <3>2
  <2>3. SumFunctionOnSet(F, M \cup N) = SumFunctionOnSet(F, M) + SumFunctionOnSet(F, N)
    BY <2>2, SumUnion
  <2>5. SumFunctionOnSet(G, U \cup {t}) = SumFunctionOnSet(G, U) + G[t]
    BY <1>2, <1>3, SumGrow
  <2>6. SumFunctionOnSet(G, U) = SumFunctionOnSet(F, M)
    BY <1>3, <2>1
  <2>7. G[t] = SumFunctionOnSet(F, N)
    BY <2>1
  <2>8. SumFunctionOnSet(F, In(U \cup {t})) = SumFunctionOnSet(F, M \cup N)
    BY <2>2, Zenon
  <2>9. SumFunctionOnSet(G, U \cup {t}) = SumFunctionOnSet(F, In(U \cup {t}))
    BY <2>3, <2>5, <2>6, <2>7, <2>8, Zenon
  <2> QED
    BY <2>9
<1>4. T \in C
  <2> HIDE DEF C
  <2> QED
    BY <1>1, <1>3, SetInduct
<1>5. In(T) = S
  OBVIOUS
<1> QED
  BY <1>4, <1>5

\* Numbered summands, one list after the other.
LEMMA SumConcat ==
  ASSUME NEW m \in Nat, NEW n \in Nat, NEW F, NEW G, NEW H,
         \A i \in 1 .. m : F[i] \in Int /\ H[i] = F[i],
         \A i \in 1 .. n : G[i] \in Int /\ H[m + i] = G[i]
  PROVE  SumFunctionOnSet(H, 1 .. m + n)
           = SumFunctionOnSet(F, 1 .. m) + SumFunctionOnSet(G, 1 .. n)
<1>1. PICK A, B, N, h : /\ A = 1 .. m /\ B = m + 1 .. m + n /\ N = 1 .. n
                        /\ h = [i \in m + 1 .. m + n |-> i - m]
  OBVIOUS
<1>2. IsFiniteSet(A) /\ IsFiniteSet(B) /\ A \cap B = {} /\ A \cup B = 1 .. m + n
  <2>1. m + 1 \in Int /\ m + n \in Int
    OBVIOUS
  <2>2. IsFiniteSet(A) /\ IsFiniteSet(B)
    BY <1>1, <2>1, FS_Interval
  <2>3. A \cap B = {} /\ A \cup B = 1 .. m + n
    BY <1>1
  <2> QED
    BY <2>2, <2>3
<1>3. \A i \in B : i - m \in 1 .. n /\ m + (i - m) = i
  BY <1>1
<1>4. \A i \in B : H[i] = G[h[i]]
  BY <1>1, <1>3
<1>5. h \in Bijection(B, N)
  <2>1. h \in [B -> N]
    BY <1>1, <1>3
  <2>2. \A i, j \in B : h[i] = h[j] => i = j
    BY <1>1
  <2>3. \A i \in N : \E j \in B : h[j] = i
    <3> SUFFICES ASSUME NEW i \in N PROVE \E j \in B : h[j] = i
      OBVIOUS
    <3>1. m + i \in B /\ h[m + i] = i
      BY <1>1
    <3> QED
      BY <3>1
  <2> QED
    BY <2>1, <2>2, <2>3 DEF Bijection, Injection, IsInjective, Surjection
<1>6. \A i \in A \cup B : H[i] \in Int
  BY <1>1, <1>3
<1>7. SumFunctionOnSet(H, A \cup B) = SumFunctionOnSet(H, A) + SumFunctionOnSet(H, B)
  BY <1>2, <1>6, SumUnion
<1>8. SumFunctionOnSet(H, A) = SumFunctionOnSet(F, A)
  BY <1>1, <1>2, SumEqual
<1>9. SumFunctionOnSet(H, B) = SumFunctionOnSet(G, N)
  <2>1. \A i \in N : G[i] \in Int
    BY <1>1
  <2> QED
    BY <1>2, <1>4, <1>5, <2>1, SumReindex
<1> QED
  BY <1>1, <1>2, <1>7, <1>8, <1>9

-----------------------------------------------------------------------------
\* Ranks.

\* Q is a strict total order on S.
OrderedBy(S, Q) ==
  /\ \A x \in S : <<x, x>> \notin Q
  /\ \A x, y, z \in S : <<x, y>> \in Q /\ <<y, z>> \in Q => <<x, z>> \in Q
  /\ \A x, y \in S : x = y \/ <<x, y>> \in Q \/ <<y, x>> \in Q

\* How many members of S come before k.
Rank(S, Q, k) == Cardinality({j \in S : <<j, k>> \in Q})

\* In a finite total order the ranks are the numbers from 0, each given once, in the order.
LEMMA RanksCount ==
  ASSUME NEW S, IsFiniteSet(S), NEW Q, OrderedBy(S, Q)
  PROVE  /\ Cardinality(S) \in Nat
         /\ \A k \in S : Rank(S, Q, k) \in 0 .. Cardinality(S) - 1
         /\ \A j, k \in S : Rank(S, Q, j) < Rank(S, Q, k) <=> <<j, k>> \in Q
         /\ \A i \in 0 .. Cardinality(S) - 1 : \E k \in S : Rank(S, Q, k) = i
<1> DEFINE Before(k) == {j \in S : <<j, k>> \in Q}
<1>1. Cardinality(S) \in Nat
  BY FS_CardinalityType
<1>2. \A k \in S : IsFiniteSet(Before(k)) /\ Rank(S, Q, k) \in Nat
  BY FS_Subset, FS_CardinalityType DEF Rank
<1>3. ASSUME NEW k \in S PROVE Rank(S, Q, k) \in 0 .. Cardinality(S) - 1
  <2>1. Before(k) \in SUBSET S /\ k \notin Before(k)
    BY DEF OrderedBy
  <2>2. Cardinality(Before(k)) <= Cardinality(S) /\ Cardinality(Before(k)) # Cardinality(S)
    <3> HIDE DEF Before
    <3> QED
      BY <2>1, FS_Subset
  <2>3. Rank(S, Q, k) = Cardinality(Before(k))
    BY DEF Rank
  <2> HIDE DEF Before
  <2> QED
    BY <1>1, <1>2, <2>2, <2>3
<1>4. ASSUME NEW j \in S, NEW k \in S, <<j, k>> \in Q PROVE Rank(S, Q, j) < Rank(S, Q, k)
  <2>1. Before(j) \in SUBSET Before(k) /\ j \in Before(k) /\ j \notin Before(j)
    BY <1>4 DEF OrderedBy
  <2>2. /\ Cardinality(Before(j)) <= Cardinality(Before(k))
        /\ Cardinality(Before(j)) # Cardinality(Before(k))
    <3>1. IsFiniteSet(Before(k))
      BY <1>2
    <3> HIDE DEF Before
    <3> QED
      BY <2>1, <3>1, FS_Subset
  <2> QED
    BY <1>2, <2>2 DEF Rank
<1>5. ASSUME NEW j \in S, NEW k \in S
      PROVE  Rank(S, Q, j) < Rank(S, Q, k) <=> <<j, k>> \in Q
  <2>1. Rank(S, Q, j) \in Nat /\ Rank(S, Q, k) \in Nat
    BY <1>2
  <2>2. j = k \/ <<j, k>> \in Q \/ <<k, j>> \in Q
    BY DEF OrderedBy
  <2>3. <<k, j>> \in Q => Rank(S, Q, k) < Rank(S, Q, j)
    BY <1>4
  <2>4. <<j, k>> \in Q => Rank(S, Q, j) < Rank(S, Q, k)
    BY <1>4
  <2> QED
    BY <2>1, <2>2, <2>3, <2>4
<1>6. ASSUME NEW i \in 0 .. Cardinality(S) - 1 PROVE \E k \in S : Rank(S, Q, k) = i
  <2> DEFINE r == [k \in S |-> Rank(S, Q, k)]
             N == 0 .. Cardinality(S) - 1
  <2>1. ASSUME NEW j \in S, NEW k \in S, Rank(S, Q, j) = Rank(S, Q, k) PROVE j = k
    <3>1. PICK m \in Nat : m = Rank(S, Q, j) /\ m = Rank(S, Q, k)
      <4> HIDE DEF Before
      <4> QED
        BY <1>2, <2>1
    <3>2. ~(Rank(S, Q, j) < Rank(S, Q, k)) /\ ~(Rank(S, Q, k) < Rank(S, Q, j))
      BY <3>1
    <3>3. <<j, k>> \notin Q /\ <<k, j>> \notin Q
      BY <1>4, <3>2, Zenon
    <3> QED
      BY <3>3 DEF OrderedBy
  <2>2. r \in Injection(S, N)
    <3>1. r \in [S -> N]
      BY <1>3
    <3>2. \A j, k \in S : r[j] = r[k] => j = k
      BY <2>1
    <3> QED
      BY <3>1, <3>2 DEF Injection, IsInjective
  <2>3. IsFiniteSet(N) /\ Cardinality(N) = Cardinality(S)
    BY <1>1, <1>6, FS_Interval
  <2>4. r \in Surjection(S, N)
    <3> HIDE DEF r, N
    <3> QED
      BY <2>2, <2>3, FS_Injection
  <2> QED
    BY <2>4 DEF Surjection
<1> QED
  BY <1>1, <1>3, <1>5, <1>6

\* The members of S in the order of Q.
InOrder(S, Q) == [i \in 1 .. Cardinality(S) |-> CHOOSE k \in S : Rank(S, Q, k) = i - 1]

\* So ranking a set numbers its members, each once, in the order.
LEMMA RankedNumbers ==
  ASSUME NEW S, IsFiniteSet(S), NEW Q, OrderedBy(S, Q),
         NEW q, q = InOrder(S, Q)
  PROVE  /\ Cardinality(S) \in Nat
         /\ q \in Bijection(1 .. Cardinality(S), S)
         /\ \A i, j \in 1 .. Cardinality(S) : i < j => <<q[i], q[j]>> \in Q
<1> DEFINE n == Cardinality(S)
<1>1. n \in Nat
  BY RanksCount
<1>2. \A i \in 1 .. n : q[i] \in S /\ Rank(S, Q, q[i]) = i - 1
  <2> SUFFICES ASSUME NEW i \in 1 .. n PROVE q[i] \in S /\ Rank(S, Q, q[i]) = i - 1
    OBVIOUS
  <2>1. i - 1 \in 0 .. n - 1
    BY <1>1
  <2>2. \E k \in S : Rank(S, Q, k) = i - 1
    BY <2>1, RanksCount
  <2> QED
    BY <2>2 DEF InOrder
<1>3. \A j, k \in S : Rank(S, Q, j) = Rank(S, Q, k) => j = k
  BY RanksCount DEF OrderedBy
<1>4. \A k \in S : \E i \in 1 .. n : q[i] = k
  <2> SUFFICES ASSUME NEW k \in S PROVE \E i \in 1 .. n : q[i] = k
    OBVIOUS
  <2>1. PICK i \in 1 .. n : i - 1 = Rank(S, Q, k)
    <3>1. Rank(S, Q, k) \in 0 .. n - 1
      BY RanksCount
    <3>2. \A m \in 0 .. n - 1 : m + 1 \in 1 .. n /\ (m + 1) - 1 = m
      BY <1>1
    <3> QED
      BY <3>1, <3>2
  <2> QED
    BY <1>2, <1>3, <2>1
<1>5. q \in [1 .. n -> S]
  BY <1>2 DEF InOrder
<1>6. \A i, j \in 1 .. n : q[i] = q[j] => i = j
  BY <1>1, <1>2
<1>7. q \in Bijection(1 .. n, S)
  BY <1>4, <1>5, <1>6 DEF Bijection, Injection, IsInjective, Surjection
<1>8. ASSUME NEW i \in 1 .. n, NEW j \in 1 .. n, i < j PROVE <<q[i], q[j]>> \in Q
  <2>1. q[i] \in S /\ q[j] \in S /\ Rank(S, Q, q[i]) < Rank(S, Q, q[j])
    BY <1>1, <1>2, <1>8
  <2> QED
    BY <2>1, RanksCount
<1> QED
  BY <1>1, <1>7, <1>8

-----------------------------------------------------------------------------
\* Units.

\* The library's minimum and maximum, of two numbers.
LEMMA MinMaxOfTwo ==
  ASSUME NEW m \in Int, NEW n \in Int
  PROVE  /\ Min({m, n}) = IF m <= n THEN m ELSE n
         /\ Max({m, n}) = IF m >= n THEN m ELSE n
<1>1. Min({m, n}) = IF m <= n THEN m ELSE n
  <2>1. \A x : (x \in {m, n} /\ \A y \in {m, n} : x <= y) <=> x = IF m <= n THEN m ELSE n
    OBVIOUS
  <2> QED
    BY <2>1 DEF Min
<1>2. Max({m, n}) = IF m >= n THEN m ELSE n
  <2>1. \A x : (x \in {m, n} /\ \A y \in {m, n} : x >= y) <=> x = IF m >= n THEN m ELSE n
    OBVIOUS
  <2> QED
    BY <2>1 DEF Max
<1> QED
  BY <1>1, <1>2

\* Counted unit by unit, an order more is its quantity more.
LEMMA UnitsCount ==
  ASSUME NEW b, NEW S, IsFiniteSet(S), \A k \in S : b[k].remaining \in Nat
  PROVE  /\ Units(b, {}) = 0
         /\ Units(b, S) \in Nat
         /\ \A T \in SUBSET S : Units(b, T) \in Nat /\ Units(b, T) <= Units(b, S)
         /\ \A T \in SUBSET S : \A k \in S \ T :
               Units(b, T \cup {k}) = Units(b, T) + b[k].remaining
<1> DEFINE Of(k) == {k} \X (1 .. b[k].remaining)
           All(T) == UNION {Of(k) : k \in T}
           C == {T \in SUBSET S : IsFiniteSet(All(T))}
<1>1. ASSUME NEW k \in S
      PROVE  IsFiniteSet(Of(k)) /\ Cardinality(Of(k)) = b[k].remaining
  <2>1. /\ IsFiniteSet({k}) /\ Cardinality({k}) = 1
        /\ IsFiniteSet(1 .. b[k].remaining)
        /\ Cardinality(1 .. b[k].remaining) = b[k].remaining
    <3>1. PICK m \in Nat : m = b[k].remaining
      OBVIOUS
    <3>2. IsFiniteSet(1 .. m) /\ Cardinality(1 .. m) = m
      BY FS_Interval
    <3> QED
      BY <3>1, <3>2, FS_Singleton
  <2>2. /\ IsFiniteSet(Of(k))
        /\ Cardinality(Of(k)) = Cardinality({k}) * Cardinality(1 .. b[k].remaining)
    BY <2>1, FS_Product
  <2> QED
    BY <2>1, <2>2
<1>2. ASSUME NEW T \in SUBSET S, NEW k \in S, k \notin T
      PROVE  All(T \cup {k}) = All(T) \cup Of(k) /\ All(T) \cap Of(k) = {}
  <2>1. All(T \cup {k}) = All(T) \cup Of(k)
    OBVIOUS
  <2>2. \A e \in Of(k) : e[1] = k
    OBVIOUS
  <2>3. \A e \in All(T) : e[1] \in T
    OBVIOUS
  <2> QED
    BY <1>2, <2>1, <2>2, <2>3
<1>3. All({}) = {}
  OBVIOUS
<1>4. ASSUME NEW T \in SUBSET S, IsFiniteSet(All(T)), NEW k \in S, k \notin T
      PROVE  /\ IsFiniteSet(All(T \cup {k}))
             /\ Cardinality(All(T \cup {k})) = Cardinality(All(T)) + b[k].remaining
  <2> HIDE DEF All, Of
  <2>1. /\ IsFiniteSet(All(T) \cup Of(k))
        /\ Cardinality(All(T) \cup Of(k))
             = Cardinality(All(T)) + Cardinality(Of(k)) - Cardinality(All(T) \cap Of(k))
    BY <1>1, <1>4, FS_Union
  <2>2. Cardinality(All(T) \cap Of(k)) = 0
    BY <1>2, <1>4, FS_EmptySet
  <2>3. Cardinality(All(T)) \in Nat
    BY <1>4, FS_CardinalityType
  <2> QED
    <3>1. All(T \cup {k}) = All(T) \cup Of(k)
      BY <1>2, <1>4
    <3>2. PICK m, n \in Nat : m = Cardinality(All(T)) /\ n = b[k].remaining
      BY <2>3
    <3>3. Cardinality(All(T) \cup Of(k)) = m + n
      BY <1>1, <2>1, <2>2, <3>2
    <3> QED
      BY <2>1, <3>1, <3>2, <3>3, Zenon
<1>5. ASSUME NEW T \in SUBSET S PROVE IsFiniteSet(All(T))
  <2> HIDE DEF All, Of
  <2>1. {} \in C
    BY <1>3, FS_EmptySet
  <2>2. \A U \in SUBSET T, x \in T : U \in C /\ x \notin U => U \cup {x} \in C
    BY <1>4
  <2>3. IsFiniteSet(T)
    BY FS_Subset
  <2>4. T \in C
    <3> HIDE DEF C
    <3> QED
      BY <2>1, <2>2, <2>3, SetInduct
  <2> QED
    BY <2>4
<1>6. \A T : Units(b, T) = Cardinality(All(T))
  BY DEF Units
<1> HIDE DEF All, Of
<1>7. Units(b, {}) = 0
  BY <1>3, <1>6, FS_EmptySet
<1>8. Units(b, S) \in Nat
  BY <1>5, <1>6, FS_CardinalityType
<1>9. ASSUME NEW T \in SUBSET S PROVE Units(b, T) \in Nat /\ Units(b, T) <= Units(b, S)
  <2>1. All(T) \in SUBSET All(S)
    BY DEF All
  <2>2. IsFiniteSet(All(T)) /\ IsFiniteSet(All(S))
    BY <1>5
  <2>3. Cardinality(All(T)) \in Nat /\ Cardinality(All(T)) <= Cardinality(All(S))
    BY <2>1, <2>2, FS_Subset, FS_CardinalityType
  <2> QED
    BY <1>6, <2>3
<1>10. ASSUME NEW T \in SUBSET S, NEW k \in S \ T
       PROVE  Units(b, T \cup {k}) = Units(b, T) + b[k].remaining
  BY <1>4, <1>5, <1>6
<1> QED
  BY <1>7, <1>8, <1>9, <1>10

-----------------------------------------------------------------------------
\* Sweeps.

\* Orders with ids of I, and finite books of them.
OrderWith(I) == [id : I, side : {"Buy", "Sell"}, price : Int, remaining : Nat]

IsBook(b, I) ==
  IsFiniteSet(DOMAIN b) /\ \A k \in DOMAIN b : k \in Int /\ b[k] \in OrderWith(I)

\* What the order of turn k gives to a sweep: nothing, if it is not hit.
Given(b, order) == [k \in DOMAIN b |-> IF k \in Hit(b, order) THEN Taken(b, order, k) ELSE 0]

Priority(b, order) ==
  {p \in Facing(b, order) \X Facing(b, order) : Ahead(b, order, p[1], p[2])}

\* Priority is a strict total order: no two resting orders share a turn.
LEMMA PriorityOrders ==
  ASSUME NEW I, NEW b, IsBook(b, I), NEW order \in OrderWith(I),
         NEW S \in SUBSET Facing(b, order)
  PROVE  /\ IsFiniteSet(S)
         /\ OrderedBy(S, Priority(b, order))
         /\ \A j, k \in S : <<j, k>> \in Priority(b, order) <=> Ahead(b, order, j, k)
<1>1. S \in SUBSET DOMAIN b
  BY DEF Facing
<1>2. \A j, k \in S : <<j, k>> \in Priority(b, order) <=> Ahead(b, order, j, k)
  BY DEF Priority
<1>3. \A k \in S : k \in Int /\ b[k].price \in Int
  BY <1>1 DEF IsBook, OrderWith
<1>4. /\ \A x \in S : ~Ahead(b, order, x, x)
      /\ \A x, y, z \in S :
            Ahead(b, order, x, y) /\ Ahead(b, order, y, z) => Ahead(b, order, x, z)
      /\ \A x, y \in S : x = y \/ Ahead(b, order, x, y) \/ Ahead(b, order, y, x)
  BY <1>3 DEF Ahead
<1>5. OrderedBy(S, Priority(b, order))
  BY <1>2, <1>4 DEF OrderedBy
<1>6. IsFiniteSet(S)
  BY <1>1, FS_Subset DEF IsBook
<1> QED
  BY <1>2, <1>5, <1>6

\* What is wanted, taken and left are quantities.
LEMMA SweepTypes ==
  ASSUME NEW I, NEW b, IsBook(b, I), NEW order \in OrderWith(I)
  PROVE  /\ \A S \in SUBSET DOMAIN b : Units(b, S) \in Nat
         /\ \A k \in DOMAIN b : Wanted(b, order, k) \in Int
         /\ \A k \in Hit(b, order) :
               /\ k \in DOMAIN b /\ Wanted(b, order, k) > 0
               /\ Taken(b, order, k) = IF b[k].remaining <= Wanted(b, order, k)
                                       THEN b[k].remaining ELSE Wanted(b, order, k)
         /\ Left(b, order) \in Nat
         /\ Left(b, order) = IF order.remaining - Units(b, Facing(b, order)) >= 0
                             THEN order.remaining - Units(b, Facing(b, order)) ELSE 0
<1>1. ASSUME NEW S \in SUBSET DOMAIN b PROVE Units(b, S) \in Nat
  <2>1. IsFiniteSet(S) /\ \A k \in S : b[k].remaining \in Nat
    BY FS_Subset DEF IsBook, OrderWith
  <2> QED
    BY <2>1, UnitsCount
<1>2. order.remaining \in Nat /\ Facing(b, order) \in SUBSET DOMAIN b
  BY DEF OrderWith, Facing
<1>3. ASSUME NEW k \in DOMAIN b PROVE Wanted(b, order, k) \in Int
  <2>1. {j \in Facing(b, order) : Ahead(b, order, j, k)} \in SUBSET DOMAIN b
    BY <1>2
  <2> QED
    BY <1>1, <1>2, <2>1 DEF Wanted
<1>4. ASSUME NEW k \in Hit(b, order)
      PROVE  /\ k \in DOMAIN b /\ Wanted(b, order, k) > 0
             /\ Taken(b, order, k) = IF b[k].remaining <= Wanted(b, order, k)
                                     THEN b[k].remaining ELSE Wanted(b, order, k)
  <2>1. k \in DOMAIN b /\ Wanted(b, order, k) > 0
    BY <1>2 DEF Hit
  <2>2. b[k].remaining \in Int /\ Wanted(b, order, k) \in Int
    BY <1>3, <2>1 DEF IsBook, OrderWith
  <2> QED
    BY <2>1, <2>2, MinMaxOfTwo DEF Taken
<1>5. /\ Left(b, order) \in Nat
      /\ Left(b, order) = IF order.remaining - Units(b, Facing(b, order)) >= 0
                          THEN order.remaining - Units(b, Facing(b, order)) ELSE 0
  <2>1. order.remaining - Units(b, Facing(b, order)) \in Int
    BY <1>1, <1>2
  <2>2. Left(b, order) = IF 0 >= order.remaining - Units(b, Facing(b, order)) THEN 0
                         ELSE order.remaining - Units(b, Facing(b, order))
    <3>1. PICK m \in Int : m = order.remaining - Units(b, Facing(b, order))
      BY <2>1
    <3>2. Max({0, m}) = IF 0 >= m THEN 0 ELSE m
      BY MinMaxOfTwo
    <3> QED
      BY <3>1, <3>2 DEF Left
  <2> QED
    BY <2>1, <2>2
<1> QED
  BY <1>1, <1>3, <1>4, <1>5

\* The queue of a sweep, with priority as a relation.
LEMMA QueueInOrder ==
  ASSUME NEW I, NEW b, IsBook(b, I), NEW order \in OrderWith(I)
  PROVE  Ranked(Hit(b, order), LAMBDA j, k : Ahead(b, order, j, k))
           = InOrder(Hit(b, order), Priority(b, order))
<1> DEFINE S == Hit(b, order)
           Q == Priority(b, order)
<1>1. S \in SUBSET Facing(b, order)
  BY DEF Hit
<1> HIDE DEF S
<1>2. \A j, k \in S : <<j, k>> \in Q <=> Ahead(b, order, j, k)
  BY <1>1, PriorityOrders
<1> HIDE DEF Q
<1>3. ASSUME NEW k \in S
      PROVE  Cardinality({j \in S : Ahead(b, order, j, k)}) = Rank(S, Q, k)
  <2>1. {j \in S : Ahead(b, order, j, k)} = {j \in S : <<j, k>> \in Q}
    BY <1>2
  <2> QED
    BY <2>1 DEF Rank
<1>4. ASSUME NEW i
      PROVE  (CHOOSE k \in S : Cardinality({j \in S : Ahead(b, order, j, k)}) = i - 1)
               = (CHOOSE k \in S : Rank(S, Q, k) = i - 1)
  BY <1>3
<1>5. Ranked(S, LAMBDA j, k : Ahead(b, order, j, k))
        = [i \in 1 .. Cardinality(S) |->
             CHOOSE k \in S : Cardinality({j \in S : Ahead(b, order, j, k)}) = i - 1]
  BY DEF Ranked
<1>6. Ranked(S, LAMBDA j, k : Ahead(b, order, j, k)) = InOrder(S, Q)
  BY <1>4, <1>5 DEF InOrder
<1> QED
  BY <1>6 DEF S, Q

\* The report names each order that is hit once.
LEMMA QueueNumbersHits ==
  ASSUME NEW I, NEW b, IsBook(b, I), NEW order \in OrderWith(I)
  PROVE  /\ IsFiniteSet(Hit(b, order))
         /\ Ranked(Hit(b, order), LAMBDA j, k : Ahead(b, order, j, k))
               \in Bijection(1 .. Cardinality(Hit(b, order)), Hit(b, order))
<1> DEFINE S == Hit(b, order)
           Q == Priority(b, order)
<1>1. S \in SUBSET Facing(b, order)
  BY DEF Hit
<1>2. IsFiniteSet(S) /\ OrderedBy(S, Q)
  BY <1>1, PriorityOrders
<1>3. InOrder(S, Q) \in Bijection(1 .. Cardinality(S), S)
  BY <1>2, RankedNumbers
<1> QED
  BY <1>2, <1>3, QueueInOrder, Zenon

\* One order more in a sweep: what was got so far is what was asked for or all
\* there was, and stays so.
LEMMA OneMoreGiven ==
  ASSUME NEW asked \in Nat, NEW units \in Nat, NEW has \in Nat, NEW got, NEW gives,
         got = IF units <= asked THEN units ELSE asked,
         gives = IF asked - units > 0
                 THEN IF has <= asked - units THEN has ELSE asked - units
                 ELSE 0
  PROVE  got + gives = IF units + has <= asked THEN units + has ELSE asked
  OBVIOUS

\* A sweep neither makes nor loses a unit: what the resting orders give and what is
\* left add up to what was asked for.
THEOREM SweepIsExact ==
  ASSUME NEW I, NEW b, IsBook(b, I), NEW order \in OrderWith(I)
  PROVE  SumFunctionOnSet(Given(b, order), DOMAIN b) + Left(b, order) = order.remaining
<1> DEFINE S == Facing(b, order)
           Q == Priority(b, order)
           F == Given(b, order)
           P(i) == {k \in S : Rank(S, Q, k) < i}
           asked == order.remaining
           Claim(i) == SumFunctionOnSet(F, P(i))
                         = IF Units(b, P(i)) <= asked THEN Units(b, P(i)) ELSE asked
           A == {i \in Nat : i <= Cardinality(S) => Claim(i)}
<1>1. S \in SUBSET DOMAIN b /\ Hit(b, order) \in SUBSET S /\ asked \in Nat
  BY DEF Facing, Hit, OrderWith
<1>2. IsFiniteSet(S) /\ OrderedBy(S, Q)
  BY PriorityOrders
<1>3. \A j, k \in S : <<j, k>> \in Q <=> Ahead(b, order, j, k)
  BY PriorityOrders
<1>4. \A k \in S : b[k].remaining \in Nat
  BY <1>1 DEF IsBook, OrderWith
<1>5. \A k \in DOMAIN b : F[k] \in Int
  <2> SUFFICES ASSUME NEW k \in DOMAIN b PROVE F[k] \in Int
    OBVIOUS
  <2>1. b[k].remaining \in Nat /\ Wanted(b, order, k) \in Int
    BY SweepTypes DEF IsBook, OrderWith
  <2> QED
    BY <2>1, SweepTypes DEF Given
<1>6. ASSUME NEW k \in S
      PROVE  F[k] = IF Wanted(b, order, k) > 0
                    THEN IF b[k].remaining <= Wanted(b, order, k)
                         THEN b[k].remaining ELSE Wanted(b, order, k)
                    ELSE 0
  <2>1. F[k] = IF k \in Hit(b, order) THEN Taken(b, order, k) ELSE 0
    BY <1>1 DEF Given
  <2>2. k \in Hit(b, order) <=> Wanted(b, order, k) > 0
    BY DEF Hit
  <2> QED
    BY <2>1, <2>2, SweepTypes
<1>7. \A k \in S : Wanted(b, order, k) = asked - Units(b, {j \in S : Ahead(b, order, j, k)})
  BY DEF Wanted
<1> HIDE DEF S, Q, F, asked
<1>9. /\ Cardinality(S) \in Nat
      /\ \A k \in S : Rank(S, Q, k) \in 0 .. Cardinality(S) - 1
      /\ \A j, k \in S : Rank(S, Q, j) < Rank(S, Q, k) <=> <<j, k>> \in Q
      /\ \A i \in 0 .. Cardinality(S) - 1 : \E k \in S : Rank(S, Q, k) = i
  BY <1>2, RanksCount
<1>10. 0 \in A
  <2>1. P(0) = {}
    BY <1>9
  <2>2. SumFunctionOnSet(F, P(0)) = 0 /\ Units(b, P(0)) = 0
    BY <1>2, <1>4, <2>1, SumEmpty, UnitsCount
  <2> QED
    BY <1>1, <2>2
<1>11. ASSUME NEW i \in Nat, i \in A PROVE i + 1 \in A
  <2> SUFFICES ASSUME i + 1 <= Cardinality(S) PROVE Claim(i + 1)
    OBVIOUS
  <2>1. PICK k \in S : Rank(S, Q, k) = i
    <3>1. i \in 0 .. Cardinality(S) - 1
      BY <1>9
    <3> QED
      BY <1>9, <3>1
  <2>2. P(i + 1) = P(i) \cup {k} /\ k \notin P(i)
    <3>1. \A j \in S : Rank(S, Q, j) \in Nat /\ (Rank(S, Q, j) = i => j = k)
      <4> SUFFICES ASSUME NEW j \in S
                   PROVE  Rank(S, Q, j) \in Nat /\ (Rank(S, Q, j) = i => j = k)
        OBVIOUS
      <4>1. Rank(S, Q, j) \in Nat
        BY <1>9
      <4>2. j = k \/ <<j, k>> \in Q \/ <<k, j>> \in Q
        BY <1>2 DEF OrderedBy
      <4>3. j = k \/ Rank(S, Q, j) < i \/ i < Rank(S, Q, j)
        BY <1>9, <2>1, <4>2
      <4> QED
        BY <4>1, <4>3
    <3> QED
      BY <2>1, <3>1
  <2>3. {j \in S : Ahead(b, order, j, k)} = P(i)
    BY <1>3, <1>9, <2>1
  <2>4. P(i) \in SUBSET S /\ IsFiniteSet(P(i))
    BY <1>2, FS_Subset
  <2>5. Claim(i)
    BY <1>9, <1>11
  <2> HIDE DEF P
  <2>6. Units(b, P(i + 1)) = Units(b, P(i)) + b[k].remaining
    <3>1. k \in S \ P(i)
      BY <2>2
    <3>2. Units(b, P(i) \cup {k}) = Units(b, P(i)) + b[k].remaining
      BY <1>2, <1>4, <2>4, <3>1, UnitsCount
    <3> QED
      BY <2>2, <3>2, Zenon
  <2>7. Units(b, P(i)) \in Nat
    BY <1>4, <2>4, UnitsCount
  <2>8. SumFunctionOnSet(F, P(i + 1)) = SumFunctionOnSet(F, P(i)) + F[k]
    <3>1. \A j \in P(i) \cup {k} : F[j] \in Int
      BY <1>1, <1>5, <2>4
    <3> QED
      BY <2>2, <2>4, <3>1, SumAdd
  <2>9. Wanted(b, order, k) = asked - Units(b, P(i))
    BY <1>7, <2>3
  <2>10. PICK units \in Nat, has \in Nat : units = Units(b, P(i)) /\ has = b[k].remaining
    BY <1>4, <2>7
  <2>11. F[k] = IF asked - units > 0
                THEN IF has <= asked - units THEN has ELSE asked - units
                ELSE 0
    BY <1>6, <2>9, <2>10
  <2>12. SumFunctionOnSet(F, P(i)) = IF units <= asked THEN units ELSE asked
    BY <2>5, <2>10
  <2>13. SumFunctionOnSet(F, P(i)) + F[k]
           = IF units + has <= asked THEN units + has ELSE asked
    BY <1>1, <2>11, <2>12, OneMoreGiven
  <2> QED
    BY <2>6, <2>8, <2>10, <2>13
<1>12. Nat \subseteq A
  <2> HIDE DEF A
  <2> QED
    BY <1>10, <1>11, NatInduct
<1>13. P(Cardinality(S)) = S
  BY <1>9
<1>14. SumFunctionOnSet(F, S) = IF Units(b, S) <= asked THEN Units(b, S) ELSE asked
  BY <1>9, <1>12, <1>13
<1>15. SumFunctionOnSet(F, DOMAIN b) = SumFunctionOnSet(F, S)
  <2>1. \A k \in DOMAIN b \ S : F[k] = 0
    BY <1>1 DEF F, Given
  <2>2. IsFiniteSet(DOMAIN b)
    BY DEF IsBook
  <2> QED
    BY <1>1, <1>5, <2>1, <2>2, SumExtend
<1>16. /\ Units(b, S) \in Nat
       /\ Left(b, order) = IF asked - Units(b, S) >= 0 THEN asked - Units(b, S) ELSE 0
  BY <1>1, SweepTypes DEF S, asked
<1>17. SumFunctionOnSet(F, DOMAIN b) + Left(b, order) = asked
  BY <1>1, <1>14, <1>15, <1>16
<1> QED
  BY <1>17 DEF F, asked

\* What each order gives is a part of what it has; one that has nothing left is taken
\* out of the book.
LEMMA GivenBounds ==
  ASSUME NEW I, NEW b, IsBook(b, I), NEW order \in OrderWith(I), NEW k \in DOMAIN b
  PROVE  /\ Given(b, order)[k] \in 0 .. b[k].remaining
         /\ k \notin Staying(b, order) => Given(b, order)[k] = b[k].remaining
         /\ k \in Staying(b, order) /\ b[k].remaining > 0
               => Given(b, order)[k] < b[k].remaining
<1>1. b[k].remaining \in Nat /\ Wanted(b, order, k) \in Int
  BY SweepTypes DEF IsBook, OrderWith
<1>2. Given(b, order)[k] = IF k \in Hit(b, order) THEN Taken(b, order, k) ELSE 0
  BY DEF Given
<1>3. k \in Staying(b, order) <=> (k \in Hit(b, order) => Wanted(b, order, k) < b[k].remaining)
  BY DEF Staying
<1>4. k \in Hit(b, order) =>
        /\ Wanted(b, order, k) > 0
        /\ Taken(b, order, k) = IF b[k].remaining <= Wanted(b, order, k)
                                THEN b[k].remaining ELSE Wanted(b, order, k)
  BY SweepTypes
<1> QED
  BY <1>1, <1>2, <1>3, <1>4

\* `after' is the book after a sweep: of those who stay nothing changes but the quantity,
\* and who rests anew is the incoming order with what is left of it.
IsSwept(b, t, order, after, I) ==
  /\ Staying(b, order) \in SUBSET DOMAIN b
  /\ DOMAIN after = Staying(b, order) \cup Resting(b, t, order)
  /\ \A k \in Staying(b, order) :
        /\ after[k] \in OrderWith(I)
        /\ after[k].id = b[k].id /\ after[k].side = b[k].side
        /\ after[k].price = b[k].price
        /\ after[k].remaining = b[k].remaining - Given(b, order)[k]
  /\ \A k \in Resting(b, t, order) :
        /\ k = t /\ after[k] \in OrderWith(I) /\ Left(b, order) # 0
        /\ after[k].id = order.id /\ after[k].side = order.side
        /\ after[k].price = order.price /\ after[k].remaining = Left(b, order)
  /\ IsBook(after, I)

LEMMA OutcomeBook ==
  ASSUME NEW I, NEW b, IsBook(b, I), NEW order \in OrderWith(I), NEW t \in Int,
         t \notin DOMAIN b, NEW after, after = Outcome(b, t, order).book
  PROVE  IsSwept(b, t, order, after, I)
<1>1. after = [k \in Staying(b, order) \cup Resting(b, t, order) |->
                 IF k = t THEN [order EXCEPT !.remaining = Left(b, order)]
                 ELSE IF k \in Hit(b, order)
                 THEN [b[k] EXCEPT !.remaining = @ - Taken(b, order, k)]
                 ELSE b[k]]
  BY DEF Outcome
<1>2. Staying(b, order) \in SUBSET DOMAIN b
  BY DEF Staying
<1>3. DOMAIN after = Staying(b, order) \cup Resting(b, t, order)
  BY <1>1
<1>4. ASSUME NEW k \in Staying(b, order)
      PROVE  /\ after[k] \in OrderWith(I)
             /\ after[k].id = b[k].id /\ after[k].side = b[k].side
             /\ after[k].price = b[k].price
             /\ after[k].remaining = b[k].remaining - Given(b, order)[k]
  <2>1. k \in DOMAIN b /\ k # t /\ b[k] \in OrderWith(I)
    BY <1>2 DEF IsBook
  <2>2. Given(b, order)[k] \in 0 .. b[k].remaining
    BY <2>1, GivenBounds
  <2>3. Given(b, order)[k] = IF k \in Hit(b, order) THEN Taken(b, order, k) ELSE 0
    BY <2>1 DEF Given
  <2>4. after[k] = IF k \in Hit(b, order)
                   THEN [b[k] EXCEPT !.remaining = @ - Given(b, order)[k]] ELSE b[k]
    BY <1>1, <2>1, <2>3
  <2>5. CASE k \in Hit(b, order)
    BY <2>1, <2>2, <2>4, <2>5 DEF OrderWith
  <2>6. CASE k \notin Hit(b, order)
    BY <2>1, <2>3, <2>4, <2>6 DEF OrderWith
  <2> QED
    BY <2>5, <2>6
<1>5. ASSUME NEW k \in Resting(b, t, order)
      PROVE  /\ k = t /\ after[k] \in OrderWith(I) /\ Left(b, order) # 0
             /\ after[k].id = order.id /\ after[k].side = order.side
             /\ after[k].price = order.price /\ after[k].remaining = Left(b, order)
  <2>1. k = t /\ Left(b, order) # 0
    BY DEF Resting
  <2>2. after[k] = [order EXCEPT !.remaining = Left(b, order)]
    BY <1>1, <2>1
  <2>3. Left(b, order) \in Nat
    BY SweepTypes
  <2> QED
    BY <2>1, <2>2, <2>3 DEF OrderWith
<1>6. IsFiniteSet(DOMAIN after)
  <2>1. IsFiniteSet(Staying(b, order))
    BY <1>2, FS_Subset DEF IsBook
  <2>2. IsFiniteSet(Resting(b, t, order))
    BY FS_EmptySet, FS_Singleton DEF Resting
  <2> QED
    BY <1>3, <2>1, <2>2, FS_Union
<1>7. IsBook(after, I)
  BY <1>2, <1>3, <1>4, <1>5, <1>6 DEF IsBook
<1> QED
  BY <1>2, <1>3, <1>4, <1>5, <1>7 DEF IsSwept

\* What the reported trades are worth, summed up over the book instead of the report.
LEMMA ReportValue ==
  ASSUME NEW I, NEW b, IsBook(b, I), NEW order \in OrderWith(I), NEW t,
         NEW rep, rep = Outcome(b, t, order).report,
         NEW V, V = [k \in DOMAIN b |-> b[k].price * Given(b, order)[k]]
  PROVE  /\ SumFunction([i \in DOMAIN rep |-> rep[i].price * rep[i].quantity])
               = SumFunctionOnSet(V, DOMAIN b)
         /\ \A k \in DOMAIN b : V[k] \in Int
         /\ \A k \in DOMAIN b \ Hit(b, order) : V[k] = 0
<1> DEFINE S == Hit(b, order)
           q == Ranked(S, LAMBDA j, k : Ahead(b, order, j, k))
           G == [i \in DOMAIN rep |-> rep[i].price * rep[i].quantity]
           T == 1 .. Cardinality(S)
<1>1. IsFiniteSet(S) /\ q \in Bijection(T, S)
  BY QueueNumbersHits
<1>2. rep = [i \in DOMAIN q |-> Execution(b, order, q[i])]
  BY DEF Outcome
<1>3. S \in SUBSET DOMAIN b
  BY DEF Hit, Facing
<1>4. \A k \in S : V[k] = b[k].price * Taken(b, order, k)
  BY <1>3 DEF Given
<1>5. \A k \in DOMAIN b : V[k] \in Int
  <2> SUFFICES ASSUME NEW k \in DOMAIN b PROVE V[k] \in Int
    OBVIOUS
  <2>1. b[k].price \in Int /\ b[k].remaining \in Nat
    BY DEF IsBook, OrderWith
  <2>2. Given(b, order)[k] \in 0 .. b[k].remaining
    BY GivenBounds
  <2>3. PICK p, g \in Int : p = b[k].price /\ g = Given(b, order)[k]
    BY <2>1, <2>2
  <2>4. p * g \in Int
    OBVIOUS
  <2> QED
    BY <2>3, <2>4
<1>6. \A k \in DOMAIN b \ S : V[k] = 0
  BY <1>3 DEF Given, IsBook, OrderWith
<1> HIDE DEF S, q
<1>7. DOMAIN q = T /\ \A i \in T : q[i] \in S
  BY <1>1 DEF Bijection, Injection
<1>8. DOMAIN G = T /\ \A i \in T : G[i] = V[q[i]]
  BY <1>2, <1>4, <1>7 DEF Execution
<1>9. IsFiniteSet(T)
  BY <1>1, FS_CardinalityType, FS_Interval
<1>10. SumFunctionOnSet(G, T) = SumFunctionOnSet(V, S)
  <2> HIDE DEF G, T
  <2> QED
    BY <1>1, <1>3, <1>5, <1>8, <1>9, SumReindex
<1>11. SumFunctionOnSet(V, DOMAIN b) = SumFunctionOnSet(V, S)
  <2>1. IsFiniteSet(DOMAIN b)
    BY DEF IsBook
  <2> QED
    BY <1>3, <1>5, <1>6, <2>1, SumExtend
<1>12. SumFunction(G) = SumFunctionOnSet(G, T)
  BY <1>8 DEF SumFunction
<1> QED
  BY <1>5, <1>6, <1>10, <1>11, <1>12 DEF S

\* An order that is left with something has taken all that it crosses.
LEMMA SweptAway ==
  ASSUME NEW I, NEW b, IsBook(b, I), NEW order \in OrderWith(I), Left(b, order) # 0,
         NEW k \in Facing(b, order)
  PROVE  k \notin Staying(b, order)
<1>1. PICK S, W : /\ S = Facing(b, order)
                  /\ W = {j \in Facing(b, order) : Ahead(b, order, j, k)}
  OBVIOUS
<1>2. /\ S \in SUBSET DOMAIN b /\ k \in DOMAIN b /\ W \in SUBSET S /\ k \notin W
      /\ W \cup {k} \in SUBSET S /\ k \in S \ W
  <2>1. k \in DOMAIN b /\ k \in Int /\ b[k].price \in Int
    BY DEF Facing, IsBook, OrderWith
  <2>2. ~Ahead(b, order, k, k)
    BY <2>1 DEF Ahead
  <2> QED
    BY <1>1, <2>1, <2>2 DEF Facing
<1>3. IsFiniteSet(S) /\ \A j \in S : b[j].remaining \in Nat
  BY <1>2, FS_Subset DEF IsBook, OrderWith
<1>4. /\ Units(b, W \cup {k}) = Units(b, W) + b[k].remaining
      /\ Units(b, W \cup {k}) <= Units(b, S)
      /\ Units(b, W) \in Nat /\ Units(b, S) \in Nat
  <2>1. S \in SUBSET S /\ W \cup {k} \in SUBSET S
    BY <1>2
  <2>2. Units(b, W \cup {k}) = Units(b, W) + b[k].remaining
    BY <1>2, <1>3, UnitsCount
  <2>3. Units(b, W \cup {k}) <= Units(b, S) /\ Units(b, W) \in Nat /\ Units(b, S) \in Nat
    BY <1>2, <1>3, <2>1, UnitsCount
  <2> QED
    BY <2>2, <2>3
<1>5. PICK asked, all, before, has \in Nat :
        /\ asked = order.remaining /\ all = Units(b, S) /\ before = Units(b, W)
        /\ has = b[k].remaining
  BY <1>2, <1>3, <1>4 DEF OrderWith
<1>6. Wanted(b, order, k) = asked - before
  BY <1>1, <1>5 DEF Wanted
<1>7. asked - all > 0
  BY <1>1, <1>5, SweepTypes
<1>8. asked - before > has
  BY <1>4, <1>5, <1>7
<1>9. k \in Hit(b, order) /\ ~(Wanted(b, order, k) < b[k].remaining)
  BY <1>5, <1>6, <1>8 DEF Hit
<1> QED
  BY <1>9 DEF Staying

\* No BUY of the book could trade with a SELL of it.
NotCrossed(b) ==
  \A j, k \in DOMAIN b : b[j].side = "Buy" /\ b[k].side = "Sell" => b[j].price < b[k].price

\* A sweep leaves the book uncrossed.
LEMMA OutcomeNotCrossed ==
  ASSUME NEW I, NEW b, IsBook(b, I), NotCrossed(b), NEW order \in OrderWith(I), NEW t \in Int,
         t \notin DOMAIN b, NEW after, after = Outcome(b, t, order).book
  PROVE  NotCrossed(after)
<1>1. IsSwept(b, t, order, after, I)
  BY OutcomeBook
<1>2. SUFFICES ASSUME NEW j \in DOMAIN after, NEW k \in DOMAIN after,
                      after[j].side = "Buy", after[k].side = "Sell"
               PROVE  after[j].price < after[k].price
  BY DEF NotCrossed
<1>3. ASSUME NEW i \in Staying(b, order)
      PROVE  /\ i \in DOMAIN b /\ b[i].side = after[i].side /\ b[i].price = after[i].price
             /\ b[i].price \in Int
  BY <1>1 DEF IsSwept, IsBook, OrderWith
<1>4. ASSUME NEW i \in Staying(b, order), Left(b, order) # 0, b[i].side # order.side
      PROVE  ~Crosses(order, b[i].price)
  <2>1. i \notin Facing(b, order)
    BY <1>4, SweptAway
  <2> QED
    BY <1>3, <1>4, <2>1 DEF Facing
<1>5. ASSUME NEW i \in Resting(b, t, order)
      PROVE  /\ Left(b, order) # 0 /\ after[i].side = order.side
             /\ after[i].price = order.price /\ order.price \in Int
  BY <1>1 DEF IsSwept, OrderWith
<1>6. CASE j \in Staying(b, order) /\ k \in Staying(b, order)
  BY <1>2, <1>3, <1>6 DEF NotCrossed
<1>7. CASE j \in Resting(b, t, order) /\ k \in Staying(b, order)
  <2>1. ~Crosses(order, b[k].price) /\ order.side = "Buy"
    BY <1>2, <1>3, <1>4, <1>5, <1>7
  <2> QED
    BY <1>3, <1>5, <1>7, <2>1 DEF Crosses
<1>8. CASE j \in Staying(b, order) /\ k \in Resting(b, t, order)
  <2>1. ~Crosses(order, b[j].price) /\ order.side = "Sell"
    BY <1>2, <1>3, <1>4, <1>5, <1>8
  <2> QED
    BY <1>3, <1>5, <1>8, <2>1 DEF Crosses
<1>9. CASE j \in Resting(b, t, order) /\ k \in Resting(b, t, order)
  BY <1>2, <1>5, <1>9
<1> QED
  BY <1>1, <1>6, <1>7, <1>8, <1>9 DEF IsSwept

\* So does an amendment, and a book without one of its orders is not crossed either.
LEMMA AmendNotCrossed ==
  ASSUME NEW I, NEW b, IsBook(b, I), NotCrossed(b), NEW t \in Int, t \notin DOMAIN b,
         NEW k \in DOMAIN b, NEW price, NEW quantity, Amended(b[k], price, quantity) \in OrderWith(I),
         NEW after, after = AmendOutcome(b, t, k, price, quantity).book
  PROVE  NotCrossed(Without(b, k)) /\ NotCrossed(after)
<1>1. PICK rest : rest = Without(b, k)
  OBVIOUS
<1>2. DOMAIN rest = DOMAIN b \ {k} /\ \A j \in DOMAIN b \ {k} : rest[j] = b[j]
  BY <1>1 DEF Without
<1>3. NotCrossed(rest) /\ IsBook(rest, I)
  BY <1>2, FS_Subset DEF NotCrossed, IsBook
<1>4. CASE price = b[k].price /\ quantity <= b[k].remaining
  <2>1. after = [b EXCEPT ![k].remaining = quantity]
    BY <1>4 DEF AmendOutcome
  <2>2. DOMAIN after = DOMAIN b /\ \A j \in DOMAIN b \ {k} : after[j] = b[j]
    BY <2>1
  <2>3. after[k].side = b[k].side /\ after[k].price = b[k].price
    <3>1. b[k] \in OrderWith(I) /\ after[k] = [b[k] EXCEPT !.remaining = quantity]
      BY <2>1 DEF IsBook
    <3> QED
      BY <3>1 DEF OrderWith
  <2>4. \A j \in DOMAIN b : after[j].side = b[j].side /\ after[j].price = b[j].price
    BY <2>2, <2>3
  <2> QED
    BY <1>1, <1>3, <2>2, <2>4 DEF NotCrossed
<1>5. CASE ~(price = b[k].price /\ quantity <= b[k].remaining)
  <2>1. PICK new \in OrderWith(I) : new = Amended(b[k], price, quantity)
    OBVIOUS
  <2>2. after = Outcome(rest, t, new).book /\ t \notin DOMAIN rest
    BY <1>1, <1>2, <1>5, <2>1 DEF AmendOutcome
  <2>3. NotCrossed(after)
    BY <1>3, <2>2, OutcomeNotCrossed
  <2> QED
    BY <1>1, <1>3, <2>3
<1> QED
  BY <1>4, <1>5
-----------------------------------------------------------------------------
\* One order at a time: a sweep is its first hit, and then the sweep of what is left.

\* The head of a total order is the first in it, and the others follow as they were.
IsHead(n, S, Q, T, R) ==
  /\ Cardinality(T) \in Nat /\ Cardinality(S) = Cardinality(T) + 1
  /\ InOrder(S, Q)[1] = n
  /\ \A i \in 1 .. Cardinality(T) : InOrder(S, Q)[i + 1] = InOrder(T, R)[i]

LEMMA InOrderHead ==
  ASSUME NEW S, IsFiniteSet(S), NEW Q, OrderedBy(S, Q), NEW n \in S,
         NEW T, T = S \ {n}, \A k \in T : <<n, k>> \in Q,
         NEW R, \A j, k \in T : <<j, k>> \in R <=> <<j, k>> \in Q
  PROVE  IsHead(n, S, Q, T, R)
<1>1. IsFiniteSet(T) /\ Cardinality(T) \in Nat /\ Cardinality(S) = Cardinality(T) + 1
  <2>1. S = T \cup {n} /\ n \notin T
    OBVIOUS
  <2>2. IsFiniteSet(T)
    BY FS_Subset
  <2> QED
    BY <2>1, <2>2, FS_AddElement, FS_CardinalityType
<1>2. OrderedBy(T, Q) /\ OrderedBy(T, R)
  BY DEF OrderedBy
<1>3. Rank(S, Q, n) = 0
  <2>1. {j \in S : <<j, n>> \in Q} = {}
    BY DEF OrderedBy
  <2> QED
    BY <2>1, FS_EmptySet DEF Rank
<1>4. \A k \in T : Rank(S, Q, k) = Rank(T, R, k) + 1 /\ Rank(T, R, k) \in Nat
  <2> SUFFICES ASSUME NEW k \in T
               PROVE  Rank(S, Q, k) = Rank(T, R, k) + 1 /\ Rank(T, R, k) \in Nat
    OBVIOUS
  <2> DEFINE B == {j \in T : <<j, k>> \in R}
  <2>1. {j \in S : <<j, k>> \in Q} = B \cup {n} /\ n \notin B
    OBVIOUS
  <2>2. IsFiniteSet(B)
    BY <1>1, FS_Subset
  <2>3. Cardinality(B \cup {n}) = Cardinality(B) + 1 /\ Cardinality(B) \in Nat
    <3> HIDE DEF B
    <3> QED
      BY <2>1, <2>2, FS_AddElement, FS_CardinalityType
  <2>4. Rank(S, Q, k) = Cardinality(B \cup {n}) /\ Rank(T, R, k) = Cardinality(B)
    BY <2>1 DEF Rank
  <2> QED
    BY <2>3, <2>4
<1>5. \A j, k \in S : Rank(S, Q, j) = Rank(S, Q, k) => j = k
  BY RanksCount DEF OrderedBy
<1>6. InOrder(S, Q)[1] = n
  <2>1. 1 \in 1 .. Cardinality(S) /\ 1 - 1 = 0
    BY <1>1
  <2>2. InOrder(S, Q)[1] = CHOOSE k \in S : Rank(S, Q, k) = 0
    BY <2>1 DEF InOrder
  <2> QED
    BY <1>3, <1>5, <2>2
<1>7. ASSUME NEW i \in 1 .. Cardinality(T) PROVE InOrder(S, Q)[i + 1] = InOrder(T, R)[i]
  <2>1. i - 1 \in 0 .. Cardinality(T) - 1 /\ i + 1 \in 1 .. Cardinality(S) /\ (i + 1) - 1 = i
    BY <1>1
  <2>2. \E k \in T : Rank(T, R, k) = i - 1
    BY <1>1, <1>2, <2>1, RanksCount
  <2>3. InOrder(T, R)[i] = CHOOSE k \in T : Rank(T, R, k) = i - 1
    BY DEF InOrder
  <2>4. PICK k \in T : k = InOrder(T, R)[i] /\ Rank(T, R, k) = i - 1
    BY <2>2, <2>3
  <2>5. k \in S /\ Rank(S, Q, k) = i
    BY <1>4, <2>1, <2>4
  <2>6. InOrder(S, Q)[i + 1] = CHOOSE j \in S : Rank(S, Q, j) = i
    BY <2>1 DEF InOrder
  <2> QED
    BY <1>5, <2>4, <2>5, <2>6
<1> QED
  BY <1>1, <1>6, <1>7 DEF IsHead

IsFunction(b) == b = [k \in DOMAIN b |-> b[k]]

\* A sweep without a hit: the order rests in the book, if there is anything of it.
JustRests(b, t, order) ==
  /\ Outcome(b, t, order).report = <<>>
  /\ order.remaining = 0 => Outcome(b, t, order).book = b /\ Outcome(b, t, order).turn = t
  /\ order.remaining # 0 =>
       /\ Outcome(b, t, order).book =
            [k \in DOMAIN b \cup {t} |-> IF k = t THEN order ELSE b[k]]
       /\ Outcome(b, t, order).turn = t + 1

\* An order that asks for nothing, or that crosses nothing, hits nobody.
LEMMA NothingHit ==
  ASSUME NEW I, NEW b, IsBook(b, I), IsFunction(b),
         NEW order \in OrderWith(I), NEW t \in Int, t \notin DOMAIN b,
         order.remaining = 0 \/ Facing(b, order) = {}
  PROVE  JustRests(b, t, order)
<1>1. order.remaining \in Nat /\ Facing(b, order) \in SUBSET DOMAIN b
  BY DEF OrderWith, Facing
<1>2. Hit(b, order) = {}
  <2> SUFFICES ASSUME NEW k \in Facing(b, order), Wanted(b, order, k) > 0 PROVE FALSE
    BY DEF Hit
  <2>1. PICK W \in SUBSET DOMAIN b : W = {j \in Facing(b, order) : Ahead(b, order, j, k)}
    BY <1>1
  <2>2. Units(b, W) \in Nat
    BY SweepTypes
  <2>3. Wanted(b, order, k) = order.remaining - Units(b, W)
    BY <2>1 DEF Wanted
  <2> QED
    BY <2>2, <2>3
<1>3. Left(b, order) = order.remaining
  <2>1. Units(b, Facing(b, order)) \in Nat
    BY <1>1, SweepTypes
  <2>2. Facing(b, order) = {} => Units(b, Facing(b, order)) = 0
    <3>1. Units(b, {}) = 0
      BY FS_EmptySet, UnitsCount
    <3> QED
      BY <3>1
  <2>3. Left(b, order) = IF order.remaining - Units(b, Facing(b, order)) >= 0
                         THEN order.remaining - Units(b, Facing(b, order)) ELSE 0
    BY SweepTypes
  <2> QED
    BY <1>1, <2>1, <2>2, <2>3
<1>4. Staying(b, order) = DOMAIN b
  BY <1>2 DEF Staying
<1>5. Outcome(b, t, order).report = <<>>
  <2>1. PICK q : q = Ranked(Hit(b, order), LAMBDA j, k : Ahead(b, order, j, k))
    BY Zenon
  <2>2. Cardinality(Hit(b, order)) = 0
    BY <1>2, FS_EmptySet
  <2>3. DOMAIN q = 1 .. 0
    BY <2>1, <2>2 DEF Ranked
  <2>4. Outcome(b, t, order).report = [i \in DOMAIN q |-> Execution(b, order, q[i])]
    BY <2>1, Zenon DEF Outcome
  <2> QED
    BY <2>3, <2>4
<1>6. Outcome(b, t, order).turn = t + Cardinality(Resting(b, t, order))
  BY DEF Outcome
<1>7. Outcome(b, t, order).book =
        [k \in DOMAIN b \cup Resting(b, t, order) |->
           IF k = t THEN [order EXCEPT !.remaining = order.remaining] ELSE b[k]]
  BY <1>2, <1>3, <1>4 DEF Outcome
<1>8. [order EXCEPT !.remaining = order.remaining] = order
  BY DEF OrderWith
<1>9. CASE order.remaining = 0
  <2>1. Resting(b, t, order) = {}
    BY <1>3, <1>9 DEF Resting
  <2>2. Outcome(b, t, order).turn = t
    BY <1>6, <2>1, FS_EmptySet
  <2>3. Outcome(b, t, order).book = b
    BY <1>7, <2>1 DEF IsFunction
  <2> QED
    BY <1>5, <1>9, <2>2, <2>3 DEF JustRests
<1>10. CASE order.remaining # 0
  <2>1. Resting(b, t, order) = {t}
    BY <1>3, <1>10 DEF Resting
  <2>2. Outcome(b, t, order).turn = t + 1
    BY <1>6, <2>1, FS_Singleton
  <2> QED
    BY <1>5, <1>7, <1>8, <1>10, <2>1, <2>2 DEF JustRests
<1> QED
  BY <1>9, <1>10

\* n is the first in the queue for `order': the best price, and the oldest there.
IsFirst(b, order, n) ==
  n \in Facing(b, order) /\ \A k \in Facing(b, order) \ {n} : Ahead(b, order, n, k)

\* The first in the queue is asked for all of it, and is hit.
LEMMA FirstIsHit ==
  ASSUME NEW I, NEW b, IsBook(b, I), NEW order \in OrderWith(I), order.remaining # 0,
         NEW n, IsFirst(b, order, n)
  PROVE  n \in Hit(b, order) /\ Wanted(b, order, n) = order.remaining
<1>1. n \in Facing(b, order) /\ \A k \in Facing(b, order) \ {n} : Ahead(b, order, n, k)
  BY DEF IsFirst
<1>2. \A k \in Facing(b, order) : k \in Int /\ b[k].price \in Int
  BY DEF Facing, IsBook, OrderWith
<1>3. {j \in Facing(b, order) : Ahead(b, order, j, n)} = {}
  BY <1>1, <1>2 DEF Ahead
<1>4. Units(b, {}) = 0
  BY FS_EmptySet, UnitsCount
<1>5. order.remaining \in Nat
  BY DEF OrderWith
<1>6. Wanted(b, order, n) = order.remaining
  BY <1>3, <1>4, <1>5 DEF Wanted
<1> QED
  BY <1>1, <1>5, <1>6 DEF Hit

\* `c' is the book, and `rest' the order, once the first in the queue is used up.
IsUsedUp(b, order, n, c, rest) ==
  /\ n \in DOMAIN b
  /\ DOMAIN c = DOMAIN b \ {n} /\ \A k \in DOMAIN c : c[k] = b[k]
  /\ rest.id = order.id /\ rest.side = order.side /\ rest.price = order.price
  /\ rest.remaining = order.remaining - b[n].remaining

\* The sweep of `rest' through `c' goes on as the sweep of `order' through `b' does.
GoesOn(b, order, n, c, rest) ==
  /\ Facing(c, rest) = Facing(b, order) \ {n}
  /\ \A j, k \in DOMAIN c : Ahead(c, rest, j, k) <=> Ahead(b, order, j, k)
  /\ \A k \in Facing(c, rest) : Wanted(c, rest, k) = Wanted(b, order, k)
  /\ Left(c, rest) = Left(b, order)

LEMMA WantedGoesOn ==
  ASSUME NEW I, NEW b, IsBook(b, I), NEW order \in OrderWith(I), NEW n, IsFirst(b, order, n),
         NEW c, IsBook(c, I), NEW rest \in OrderWith(I), IsUsedUp(b, order, n, c, rest)
  PROVE  GoesOn(b, order, n, c, rest)
<1>1. Facing(c, rest) = Facing(b, order) \ {n}
  BY DEF Facing, Crosses, IsUsedUp
<1>2. \A j, k \in DOMAIN c : Ahead(c, rest, j, k) <=> Ahead(b, order, j, k)
  BY DEF Ahead, IsUsedUp
<1>3. \A S \in SUBSET DOMAIN c : Units(c, S) = Units(b, S)
  <2> SUFFICES ASSUME NEW S \in SUBSET DOMAIN c PROVE Units(c, S) = Units(b, S)
    OBVIOUS
  <2>1. UNION {{k} \X (1 .. c[k].remaining) : k \in S}
          = UNION {{k} \X (1 .. b[k].remaining) : k \in S}
    BY DEF IsUsedUp
  <2> QED
    BY <2>1 DEF Units
<1>4. /\ Facing(b, order) \in SUBSET DOMAIN b /\ IsFiniteSet(Facing(b, order))
      /\ \A k \in Facing(b, order) : b[k].remaining \in Nat
      /\ n \in Facing(b, order) /\ Facing(c, rest) \in SUBSET DOMAIN c
  BY FS_Subset DEF Facing, IsBook, OrderWith, IsFirst
<1>5. \A S \in SUBSET Facing(c, rest) :
         /\ Units(b, S \cup {n}) = Units(c, S) + b[n].remaining
         /\ Units(c, S) \in Nat
  <2> SUFFICES ASSUME NEW S \in SUBSET Facing(c, rest)
               PROVE  /\ Units(b, S \cup {n}) = Units(c, S) + b[n].remaining
                      /\ Units(c, S) \in Nat
    OBVIOUS
  <2>1. S \in SUBSET Facing(b, order) /\ n \in Facing(b, order) \ S /\ S \in SUBSET DOMAIN c
    BY <1>1, <1>4
  <2>2. /\ \A T \in SUBSET Facing(b, order) : Units(b, T) \in Nat
        /\ \A T \in SUBSET Facing(b, order) : \A k \in Facing(b, order) \ T :
              Units(b, T \cup {k}) = Units(b, T) + b[k].remaining
    BY <1>4, UnitsCount, Zenon
  <2>3. Units(b, S \cup {n}) = Units(b, S) + b[n].remaining /\ Units(b, S) \in Nat
    BY <2>1, <2>2, Zenon
  <2>4. Units(c, S) = Units(b, S)
    BY <1>3, <2>1
  <2> QED
    BY <2>3, <2>4
<1>6. PICK asked, has \in Nat : /\ asked = order.remaining /\ has = b[n].remaining
                                /\ rest.remaining = asked - has
  BY <1>4 DEF OrderWith, IsUsedUp
<1>7. ASSUME NEW k \in Facing(c, rest) PROVE Wanted(c, rest, k) = Wanted(b, order, k)
  <2>1. PICK W \in SUBSET Facing(c, rest) : W = {j \in Facing(c, rest) : Ahead(c, rest, j, k)}
    OBVIOUS
  <2>2. {j \in Facing(b, order) : Ahead(b, order, j, k)} = W \cup {n}
    BY <1>1, <1>2, <1>4, <2>1 DEF IsFirst
  <2>3. Units(b, W \cup {n}) = Units(c, W) + has /\ Units(c, W) \in Nat
    BY <1>5, <1>6
  <2>4. Wanted(b, order, k) = asked - Units(b, W \cup {n})
    BY <1>6, <2>2 DEF Wanted
  <2>5. Wanted(c, rest, k) = asked - has - Units(c, W)
    BY <1>6, <2>1 DEF Wanted
  <2> QED
    BY <2>3, <2>4, <2>5
<1>8. Left(c, rest) = Left(b, order)
  <2>1. Facing(b, order) = Facing(c, rest) \cup {n}
    BY <1>1, <1>4
  <2>2. PICK u \in Nat : u = Units(c, Facing(c, rest)) /\ Units(b, Facing(b, order)) = u + has
    BY <1>5, <1>6, <2>1
  <2>3. Left(b, order) = IF asked - (u + has) >= 0 THEN asked - (u + has) ELSE 0
    BY <1>6, <2>2, SweepTypes
  <2>4. Left(c, rest) = IF asked - has - u >= 0 THEN asked - has - u ELSE 0
    BY <1>6, <2>2, SweepTypes
  <2> QED
    BY <2>3, <2>4
<1> QED
  BY <1>1, <1>2, <1>7, <1>8 DEF GoesOn

\* Executions, as the report of a sweep lists them.
ExecutionWith(I) == [buy : I, sell : I, price : Int, quantity : Int]

\* The report is a sequence, of one execution for each order that is hit, by priority.
ReportedInOrder(b, t, order, I) ==
  LET S == Hit(b, order)
      q == InOrder(S, Priority(b, order))
  IN /\ Cardinality(S) \in Nat
     /\ Outcome(b, t, order).report = [i \in 1 .. Cardinality(S) |-> Execution(b, order, q[i])]
     /\ \A i \in 1 .. Cardinality(S) : q[i] \in S
     /\ Outcome(b, t, order).report \in Seq(ExecutionWith(I))

LEMMA ReportInOrder ==
  ASSUME NEW I, NEW b, IsBook(b, I), NEW order \in OrderWith(I), NEW t
  PROVE  ReportedInOrder(b, t, order, I)
<1> DEFINE q == InOrder(Hit(b, order), Priority(b, order))
           m == Cardinality(Hit(b, order))
<1>1. Ranked(Hit(b, order), LAMBDA j, k : Ahead(b, order, j, k)) = q
  BY QueueInOrder, Zenon
<1>2. IsFiniteSet(Hit(b, order)) /\ q \in Bijection(1 .. m, Hit(b, order))
  BY <1>1, QueueNumbersHits, Zenon
<1>3. m \in Nat /\ DOMAIN q = 1 .. m /\ \A i \in 1 .. m : q[i] \in Hit(b, order)
  BY <1>2, FS_CardinalityType DEF Bijection, Injection
<1>4. Outcome(b, t, order).report = [i \in DOMAIN q |-> Execution(b, order, q[i])]
  BY <1>1, Zenon DEF Outcome
<1>5. \A k \in Hit(b, order) : Execution(b, order, k) \in ExecutionWith(I)
  <2> SUFFICES ASSUME NEW k \in Hit(b, order) PROVE Execution(b, order, k) \in ExecutionWith(I)
    OBVIOUS
  <2>1. /\ k \in DOMAIN b /\ Wanted(b, order, k) \in Int /\ Wanted(b, order, k) > 0
        /\ Taken(b, order, k) = IF b[k].remaining <= Wanted(b, order, k)
                                THEN b[k].remaining ELSE Wanted(b, order, k)
    BY SweepTypes
  <2>2. b[k] \in OrderWith(I)
    BY <2>1 DEF IsBook
  <2>3. Taken(b, order, k) \in Nat
    BY <2>1, <2>2 DEF OrderWith
  <2> QED
    BY <2>2, <2>3 DEF Execution, ExecutionWith, OrderWith
<1>6. Outcome(b, t, order).report \in [1 .. m -> ExecutionWith(I)]
  BY <1>3, <1>4, <1>5
<1>7. Outcome(b, t, order).report \in Seq(ExecutionWith(I))
  BY <1>3, <1>6
<1> QED
  BY <1>3, <1>4, <1>7 DEF ReportedInOrder

\* A report that goes on as another one does is that one with one execution before it.
LEMMA OneBefore ==
  ASSUME NEW E, NEW r \in Seq(E), NEW s \in Seq(E), Len(r) = Len(s) + 1,
         \A i \in 1 .. Len(s) : r[i + 1] = s[i]
  PROVE  r = <<r[1]>> \o s
<1>1. r[1] \in E /\ <<r[1]>> \in Seq(E) /\ Len(<<r[1]>>) = 1 /\ <<r[1]>>[1] = r[1]
  OBVIOUS
<1>2. PICK u \in Seq(E) : u = <<r[1]>> \o s
  BY <1>1, ConcatProperties, Zenon
<1>3. /\ Len(u) = Len(s) + 1
      /\ \A i \in 1 .. Len(s) + 1 : u[i] = IF i <= 1 THEN <<r[1]>>[i] ELSE s[i - 1]
  BY <1>1, <1>2, ConcatProperties
<1>4. ASSUME NEW i \in 1 .. Len(r) PROVE r[i] = u[i]
  <2>1. CASE i = 1
    BY <1>1, <1>3, <2>1
  <2>2. CASE i # 1
    <3>1. i - 1 \in 1 .. Len(s) /\ (i - 1) + 1 = i /\ ~(i <= 1)
      BY <2>2
    <3> QED
      BY <1>3, <3>1
  <2> QED
    BY <2>1, <2>2
<1>5. r = u
  BY <1>3, <1>4, SeqEqual
<1> QED
  BY <1>2, <1>5

\* The sweep is the hit of n, and then the sweep of `rest' through `c'.
HitsThen(b, t, order, n, c, rest) ==
  /\ Outcome(b, t, order).book = Outcome(c, t, rest).book
  /\ Outcome(b, t, order).turn = Outcome(c, t, rest).turn
  /\ Outcome(b, t, order).report
       = <<Execution(b, order, n)>> \o Outcome(c, t, rest).report

\* A sweep that uses up the first in the queue goes on with the others.
LEMMA SweepGoesOn ==
  ASSUME NEW I, NEW b, IsBook(b, I), NEW order \in OrderWith(I), order.remaining # 0,
         NEW n, IsFirst(b, order, n), NEW t \in Int, t \notin DOMAIN b,
         NEW c, IsBook(c, I), NEW rest \in OrderWith(I), IsUsedUp(b, order, n, c, rest)
  PROVE  HitsThen(b, t, order, n, c, rest) /\ Taken(b, order, n) = b[n].remaining
<1>1. GoesOn(b, order, n, c, rest)
  BY WantedGoesOn
<1>2. n \in Hit(b, order) /\ Wanted(b, order, n) = order.remaining
  BY FirstIsHit
<1>3. /\ Hit(c, rest) = Hit(b, order) \ {n} /\ Hit(c, rest) \in SUBSET DOMAIN c
      /\ Hit(c, rest) \in SUBSET Facing(c, rest) /\ Hit(b, order) \in SUBSET Facing(b, order)
      /\ Hit(b, order) \in SUBSET DOMAIN b
  BY <1>1 DEF Hit, GoesOn, Facing
<1>4. \A k \in Hit(c, rest) :
         /\ Taken(c, rest, k) = Taken(b, order, k) /\ Wanted(c, rest, k) = Wanted(b, order, k)
         /\ c[k] = b[k] /\ Execution(c, rest, k) = Execution(b, order, k)
  BY <1>1, <1>3 DEF GoesOn, IsUsedUp, Taken, Execution
<1>5. /\ Taken(b, order, n) = b[n].remaining /\ ~(Wanted(b, order, n) < b[n].remaining)
  <2>1. /\ rest.remaining \in Nat /\ b[n].remaining \in Nat /\ order.remaining \in Nat
        /\ rest.remaining = order.remaining - b[n].remaining
    BY DEF OrderWith, IsBook, IsUsedUp
  <2>2. Taken(b, order, n) = IF b[n].remaining <= Wanted(b, order, n)
                             THEN b[n].remaining ELSE Wanted(b, order, n)
    BY <1>2, SweepTypes
  <2> QED
    BY <1>2, <2>1, <2>2
<1>6. Staying(b, order) = Staying(c, rest) /\ Staying(c, rest) \in SUBSET DOMAIN c
  BY <1>2, <1>3, <1>4, <1>5 DEF Staying, IsUsedUp
<1>7. Resting(b, t, order) = Resting(c, t, rest)
  BY <1>1 DEF GoesOn, Resting
<1>8. Outcome(b, t, order).turn = Outcome(c, t, rest).turn
  <2>1. /\ Outcome(b, t, order).turn = t + Cardinality(Resting(b, t, order))
        /\ Outcome(c, t, rest).turn = t + Cardinality(Resting(c, t, rest))
    BY DEF Outcome
  <2> QED
    BY <1>7, <2>1
<1>9. Outcome(b, t, order).book = Outcome(c, t, rest).book
  <2>1. PICK new : new = [order EXCEPT !.remaining = Left(b, order)]
    OBVIOUS
  <2>2. new = [rest EXCEPT !.remaining = Left(c, rest)]
    BY <1>1, <2>1 DEF GoesOn, OrderWith, IsUsedUp
  <2>3. PICK D : D = Staying(b, order) \cup Resting(b, t, order)
    OBVIOUS
  <2>4. Outcome(b, t, order).book =
          [k \in D |-> IF k = t THEN new ELSE IF k \in Hit(b, order)
                       THEN [b[k] EXCEPT !.remaining = @ - Taken(b, order, k)] ELSE b[k]]
    BY <2>1, <2>3 DEF Outcome
  <2>5. Outcome(c, t, rest).book =
          [k \in D |-> IF k = t THEN new ELSE IF k \in Hit(c, rest)
                       THEN [c[k] EXCEPT !.remaining = @ - Taken(c, rest, k)] ELSE c[k]]
    BY <1>6, <1>7, <2>2, <2>3 DEF Outcome
  <2>6. ASSUME NEW k \in D, k # t
        PROVE  k \in DOMAIN c /\ c[k] = b[k] /\ (k \in Hit(b, order) <=> k \in Hit(c, rest))
    BY <1>3, <1>6, <2>3, <2>6 DEF Resting, IsUsedUp
  <2> QED
    BY <1>4, <2>4, <2>5, <2>6
<1>10. Outcome(b, t, order).report
         = <<Execution(b, order, n)>> \o Outcome(c, t, rest).report
  <2> DEFINE Q == Priority(b, order)
             R == Priority(c, rest)
             S == Hit(b, order)
             T == Hit(c, rest)
             q == InOrder(S, Q)
             r == InOrder(T, R)
  <2>1. /\ IsFiniteSet(S) /\ OrderedBy(S, Q)
        /\ \A j, k \in S : <<j, k>> \in Q <=> Ahead(b, order, j, k)
    BY <1>3, PriorityOrders
  <2>2. \A j, k \in T : <<j, k>> \in R <=> Ahead(c, rest, j, k)
    BY <1>3, PriorityOrders
  <2>3. \A k \in T : Ahead(b, order, n, k)
    BY <1>3 DEF IsFirst
  <2>4. PICK m : m = Cardinality(T)
    OBVIOUS
  <2>5. /\ Outcome(b, t, order).report
             = [i \in 1 .. Cardinality(S) |-> Execution(b, order, q[i])]
        /\ Outcome(b, t, order).report \in Seq(ExecutionWith(I))
    BY ReportInOrder DEF ReportedInOrder
  <2>6. /\ m \in Nat /\ Outcome(c, t, rest).report = [i \in 1 .. m |-> Execution(c, rest, r[i])]
        /\ \A i \in 1 .. m : r[i] \in T
        /\ Outcome(c, t, rest).report \in Seq(ExecutionWith(I))
    <3>1. ReportedInOrder(c, t, rest, I)
      BY ReportInOrder
    <3> QED
      BY <2>4, <3>1 DEF ReportedInOrder
  <2> HIDE DEF Q, R, S, T
  <2>7. /\ n \in S /\ T = S \ {n} /\ \A k \in T : <<n, k>> \in Q
        /\ \A j, k \in T : <<j, k>> \in R <=> <<j, k>> \in Q
    <3>1. n \in S /\ T = S \ {n} /\ T \in SUBSET DOMAIN c
      BY <1>2, <1>3 DEF S, T
    <3>2. \A j, k \in DOMAIN c : Ahead(c, rest, j, k) <=> Ahead(b, order, j, k)
      BY <1>1 DEF GoesOn
    <3> QED
      BY <2>1, <2>2, <2>3, <3>1, <3>2
  <2>8. /\ Cardinality(S) = m + 1 /\ q[1] = n /\ \A i \in 1 .. m : q[i + 1] = r[i]
    <3>1. IsHead(n, S, Q, T, R)
      BY <2>1, <2>7, InOrderHead, Zenon
    <3> QED
      BY <2>4, <3>1 DEF IsHead
  <2> HIDE DEF q, r
  <2>9. PICK u, v : u = Outcome(b, t, order).report /\ v = Outcome(c, t, rest).report
    OBVIOUS
  <2>10. /\ u \in Seq(ExecutionWith(I)) /\ v \in Seq(ExecutionWith(I))
         /\ Len(u) = m + 1 /\ Len(v) = m
    BY <2>5, <2>6, <2>8, <2>9
  <2>11. u[1] = Execution(b, order, n)
    BY <2>5, <2>6, <2>8, <2>9
  <2>12. ASSUME NEW i \in 1 .. m PROVE u[i + 1] = v[i]
    <3>1. i + 1 \in 1 .. m + 1
      BY <2>6
    <3>2. u[i + 1] = Execution(b, order, r[i]) /\ v[i] = Execution(c, rest, r[i])
      BY <2>5, <2>6, <2>8, <2>9, <3>1
    <3> QED
      BY <1>4, <2>6, <3>2 DEF T
  <2>13. u = <<u[1]>> \o v
    BY <2>10, <2>12, OneBefore
  <2> QED
    BY <2>9, <2>11, <2>13
<1> QED
  BY <1>5, <1>8, <1>9, <1>10 DEF HitsThen

\* `c' is the book, and `rest' the order, when the first in the queue has enough.
IsEnough(b, order, n, c, rest) ==
  /\ n \in DOMAIN b /\ order.remaining < b[n].remaining
  /\ DOMAIN c = DOMAIN b /\ \A k \in DOMAIN b \ {n} : c[k] = b[k]
  /\ c[n].id = b[n].id /\ c[n].side = b[n].side /\ c[n].price = b[n].price
  /\ c[n].remaining = b[n].remaining - order.remaining
  /\ rest.remaining = 0

\* A sweep ends with the first in the queue who has more than is asked for.
LEMMA SweepEnds ==
  ASSUME NEW I, NEW b, IsBook(b, I), NEW order \in OrderWith(I), order.remaining # 0,
         NEW n, IsFirst(b, order, n), NEW t \in Int, t \notin DOMAIN b,
         NEW c, IsBook(c, I), IsFunction(c), NEW rest \in OrderWith(I),
         IsEnough(b, order, n, c, rest)
  PROVE  HitsThen(b, t, order, n, c, rest) /\ Taken(b, order, n) = order.remaining
<1>1. n \in Hit(b, order) /\ Wanted(b, order, n) = order.remaining
  BY FirstIsHit
<1>2. /\ Facing(b, order) \in SUBSET DOMAIN b /\ IsFiniteSet(Facing(b, order))
      /\ n \in Facing(b, order)
      /\ \A k \in Facing(b, order) : b[k].remaining \in Nat
  BY FS_Subset DEF Facing, IsBook, OrderWith, IsFirst
<1>3. PICK asked, has \in Nat : asked = order.remaining /\ has = b[n].remaining /\ asked < has
  BY <1>2 DEF OrderWith, IsEnough
<1>4. ASSUME NEW W \in SUBSET Facing(b, order), n \in W
      PROVE  Units(b, W) \in Nat /\ Units(b, W) >= has
  <2>1. IsFiniteSet(W) /\ \A k \in W : b[k].remaining \in Nat
    BY <1>2, FS_Subset
  <2>2. Units(b, {}) = 0 /\ Units(b, {} \cup {n}) = Units(b, {}) + b[n].remaining
    <3>1. \A T \in SUBSET W : \A k \in W \ T :
             Units(b, T \cup {k}) = Units(b, T) + b[k].remaining
      BY <2>1, UnitsCount, Zenon
    <3>2. {} \in SUBSET W /\ n \in W \ {}
      BY <1>4
    <3>3. Units(b, {}) = 0
      BY <2>1, UnitsCount
    <3> QED
      BY <3>1, <3>2, <3>3, Zenon
  <2>3. {} \cup {n} = {n} /\ {n} \in SUBSET W
    BY <1>4
  <2>4. Units(b, {n}) <= Units(b, W) /\ Units(b, W) \in Nat
    BY <2>1, <2>3, UnitsCount
  <2>5. Units(b, {n}) = has
    BY <1>3, <2>2, <2>3
  <2> QED
    BY <2>4, <2>5
<1>5. Hit(b, order) = {n}
  <2> SUFFICES ASSUME NEW k \in Facing(b, order), k # n PROVE ~(Wanted(b, order, k) > 0)
    BY <1>1 DEF Hit
  <2>1. PICK W \in SUBSET Facing(b, order) : W = {j \in Facing(b, order) : Ahead(b, order, j, k)}
    OBVIOUS
  <2>2. n \in W
    BY <1>2, <2>1 DEF IsFirst
  <2>3. Units(b, W) \in Nat /\ Units(b, W) >= has
    BY <1>4, <2>2
  <2>4. Wanted(b, order, k) = asked - Units(b, W)
    BY <1>3, <2>1 DEF Wanted
  <2> QED
    BY <1>3, <2>3, <2>4
<1>6. Left(b, order) = 0
  <2>1. PICK u \in Nat : u = Units(b, Facing(b, order)) /\ u >= has
    BY <1>2, <1>4
  <2>2. Left(b, order) = IF asked - u >= 0 THEN asked - u ELSE 0
    BY <1>3, <2>1, SweepTypes
  <2> QED
    BY <1>3, <2>1, <2>2
<1>7. Resting(b, t, order) = {} /\ Staying(b, order) = DOMAIN b
  BY <1>1, <1>3, <1>5, <1>6 DEF Resting, Staying
<1>8. Taken(b, order, n) = order.remaining
  BY <1>1, <1>3, SweepTypes
<1>9. Outcome(b, t, order).turn = t
  <2>1. Outcome(b, t, order).turn = t + Cardinality(Resting(b, t, order))
    BY DEF Outcome
  <2> QED
    BY <1>7, <2>1, FS_EmptySet
<1>10. Outcome(b, t, order).book = c
  <2>1. Outcome(b, t, order).book =
          [k \in DOMAIN b |-> IF k = t THEN [order EXCEPT !.remaining = Left(b, order)]
                              ELSE IF k \in {n}
                              THEN [b[k] EXCEPT !.remaining = @ - Taken(b, order, k)] ELSE b[k]]
    BY <1>5, <1>7 DEF Outcome
  <2>2. c[n] = [b[n] EXCEPT !.remaining = @ - order.remaining]
    <3>1. b[n] \in OrderWith(I) /\ c[n] \in OrderWith(I)
      BY DEF IsBook, IsEnough
    <3> QED
      BY <3>1 DEF OrderWith, IsEnough
  <2>3. Outcome(b, t, order).book = [k \in DOMAIN b |-> IF k = n THEN c[n] ELSE b[k]]
    BY <1>8, <2>1, <2>2
  <2>4. Outcome(b, t, order).book = [k \in DOMAIN c |-> c[k]]
    BY <2>3 DEF IsEnough
  <2> QED
    BY <2>4 DEF IsFunction
<1>11. Outcome(b, t, order).report = <<Execution(b, order, n)>>
  <2> DEFINE q == InOrder(Hit(b, order), Priority(b, order))
  <2>1. /\ Outcome(b, t, order).report
             = [i \in 1 .. Cardinality(Hit(b, order)) |-> Execution(b, order, q[i])]
        /\ \A i \in 1 .. Cardinality(Hit(b, order)) : q[i] \in Hit(b, order)
    BY ReportInOrder DEF ReportedInOrder
  <2> HIDE DEF q
  <2>2. Cardinality(Hit(b, order)) = 1
    BY <1>5, FS_Singleton
  <2>3. \A i \in 1 .. 1 : q[i] = n
    BY <1>5, <2>1, <2>2
  <2>4. Outcome(b, t, order).report = [i \in 1 .. 1 |-> Execution(b, order, n)]
    BY <2>1, <2>2, <2>3
  <2> QED
    BY <2>4
<1>12. JustRests(c, t, rest) /\ rest.remaining = 0
  <2>1. rest.remaining = 0 /\ t \notin DOMAIN c
    BY DEF IsEnough
  <2> QED
    BY <2>1, NothingHit
<1>13. <<Execution(b, order, n)>> \o <<>> = <<Execution(b, order, n)>>
  OBVIOUS
<1> QED
  BY <1>8, <1>9, <1>10, <1>11, <1>12, <1>13 DEF HitsThen, JustRests

=============================================================================
