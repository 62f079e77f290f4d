------------------------ MODULE OrderProcessorProofs ------------------------
(***************************************************************************)
(* Theorems about OrderProcessor and ClientOrders, for any symbols, prices,*)
(* quantities and number of requests: the types, that what is paid and may *)
(* be paid is covered by what the risk check reserved, that BOOK shows the *)
(* book, what can raise the buying power, and that the ids of a single     *)
(* client lead to its own orders.  What a sweep does is in SweepProofs.    *)
(***************************************************************************)
EXTENDS ClientOrders, SweepProofs, SequenceTheorems

-----------------------------------------------------------------------------
\* Types.

\* The book and the next turn of an engine, as TypeOK has them.
EngineTyped(b, t) ==
  /\ t \in Nat \ {0}
  /\ DOMAIN b \subseteq 1 .. t - 1
  /\ \A k \in DOMAIN b : \E most \in Quantities :
        b[k] \in [id : Ids, side : {"Buy", "Sell"}, price : Prices, remaining : 1 .. most]

\* Such a book is one that SweepProofs is about.
LEMMA TypedIsBook ==
  ASSUME NEW b, NEW t, EngineTyped(b, t)
  PROVE  /\ IsBook(b, Ids) /\ t \in Int /\ t \notin DOMAIN b
         /\ \A k \in DOMAIN b : b[k].remaining > 0 /\ b[k].id \in Ids /\ b[k].price \in Prices
<1>1. IsFiniteSet(DOMAIN b)
  <2>1. t - 1 \in Int
    BY DEF EngineTyped
  <2>2. IsFiniteSet(1 .. t - 1)
    BY <2>1, FS_Interval
  <2> QED
    BY <2>2, FS_Subset DEF EngineTyped
<1>2. ASSUME NEW k \in DOMAIN b
      PROVE  /\ k \in Int /\ b[k] \in OrderWith(Ids) /\ b[k].remaining > 0
             /\ b[k].id \in Ids /\ b[k].price \in Prices
  <2>1. PICK most \in Quantities :
          b[k] \in [id : Ids, side : {"Buy", "Sell"}, price : Prices, remaining : 1 .. most]
    BY DEF EngineTyped
  <2>2. most \in Nat /\ k \in Int
    BY ProcessorConstants, RiskConstants DEF EngineTyped
  <2>3. /\ b[k].price \in Int /\ b[k].remaining \in Nat /\ b[k].remaining > 0
        /\ b[k].id \in Ids /\ b[k].price \in Prices /\ b[k].side \in {"Buy", "Sell"}
    <3>1. /\ b[k].id \in Ids /\ b[k].side \in {"Buy", "Sell"}
          /\ b[k].price \in Prices /\ b[k].remaining \in 1 .. most
      BY <2>1
    <3>2. b[k].price \in Int
      BY <3>1, ProcessorConstants, RiskConstants
    <3>3. b[k].remaining \in Nat /\ b[k].remaining > 0
      BY <2>2, <3>1
    <3> QED
      BY <3>1, <3>2, <3>3
  <2>4. b[k] \in OrderWith(Ids)
    BY <2>1, <2>3 DEF OrderWith
  <2> QED
    BY <2>2, <2>3, <2>4
<1> QED
  BY <1>1, <1>2 DEF EngineTyped, IsBook

\* Orders of requests.
LEMMA OrdersTyped == \A order \in Order : order \in OrderWith(Ids) /\ order.remaining > 0
<1> SUFFICES ASSUME NEW order \in Order
             PROVE  order \in OrderWith(Ids) /\ order.remaining > 0
  OBVIOUS
<1>1. /\ order = [id |-> order.id, side |-> order.side, price |-> order.price,
                  remaining |-> order.remaining]
      /\ order.id \in Ids /\ order.side \in {"Buy", "Sell"}
      /\ order.price \in Prices /\ order.remaining \in Quantities
  BY DEF Order
<1>2. order.price \in Int /\ order.remaining \in Nat /\ order.remaining > 0
  BY <1>1, ProcessorConstants, RiskConstants
<1> QED
  BY <1>1, <1>2 DEF OrderWith

\* Orders amended with the price and quantity of a request.
LEMMA AmendedTyped ==
  ASSUME NEW order \in OrderWith(Ids), NEW price \in Prices, NEW quantity \in Quantities,
         NEW new, new = Amended(order, price, quantity)
  PROVE  /\ new \in Order
         /\ new = [id |-> order.id, side |-> order.side,
                   price |-> price, remaining |-> quantity]
<1>1. /\ order = [id |-> order.id, side |-> order.side, price |-> order.price,
                  remaining |-> order.remaining]
      /\ order.id \in Ids /\ order.side \in {"Buy", "Sell"}
  BY DEF OrderWith
<1>2. new = [id |-> order.id, side |-> order.side, price |-> price, remaining |-> quantity]
  BY <1>1 DEF Amended
<1> QED
  BY <1>1, <1>2 DEF Order

\* A sweep keeps the types: who stays has something left, and the turn of the rest is
\* passed.
LEMMA OutcomeTyped ==
  ASSUME NEW b, NEW t, EngineTyped(b, t), NEW order \in Order,
         NEW out, out = Outcome(b, t, order)
  PROVE  EngineTyped(out.book, out.turn)
<1> DEFINE after == out.book
           Rests == Resting(b, t, order)
<1>1. /\ IsBook(b, Ids) /\ t \in Int /\ t \notin DOMAIN b /\ order \in OrderWith(Ids)
      /\ t \in Nat \ {0} /\ DOMAIN b \subseteq 1 .. t - 1
  BY TypedIsBook, OrdersTyped DEF EngineTyped
<1>2. after = Outcome(b, t, order).book
  OBVIOUS
<1> HIDE DEF after
<1>3. /\ Staying(b, order) \in SUBSET DOMAIN b
      /\ DOMAIN after = Staying(b, order) \cup Rests
      /\ \A k \in Staying(b, order) :
            /\ after[k] \in OrderWith(Ids)
            /\ after[k].id = b[k].id /\ after[k].side = b[k].side
            /\ after[k].price = b[k].price
            /\ after[k].remaining = b[k].remaining - Given(b, order)[k]
      /\ \A k \in Rests :
            /\ k = t /\ after[k] \in OrderWith(Ids) /\ Left(b, order) # 0
            /\ after[k].id = order.id /\ after[k].side = order.side
            /\ after[k].price = order.price /\ after[k].remaining = Left(b, order)
  <2>1. IsSwept(b, t, order, after, Ids)
    BY <1>1, <1>2, OutcomeBook
  <2> QED
    BY <2>1 DEF IsSwept
<1>4. ASSUME NEW k \in Staying(b, order)
      PROVE  \E most \in Quantities :
               after[k] \in [id : Ids, side : {"Buy", "Sell"}, price : Prices,
                             remaining : 1 .. most]
  <2>1. PICK most \in Quantities :
          b[k] \in [id : Ids, side : {"Buy", "Sell"}, price : Prices, remaining : 1 .. most]
    BY <1>3 DEF EngineTyped
  <2>2. PICK has, gives \in Int : has = b[k].remaining /\ gives = Given(b, order)[k]
                                  /\ gives >= 0 /\ gives < has /\ has <= most
    <3>1. k \in DOMAIN b /\ b[k].remaining \in 1 .. most /\ most \in Nat
      BY <1>3, <2>1, ProcessorConstants, RiskConstants
    <3>2. Given(b, order)[k] \in 0 .. b[k].remaining /\ Given(b, order)[k] < b[k].remaining
      BY <1>1, <3>1, GivenBounds
    <3> QED
      BY <3>1, <3>2
  <2>3. after[k].remaining \in 1 .. most
    BY <1>3, <2>2, ProcessorConstants, RiskConstants
  <2>4. /\ after[k] \in OrderWith(Ids) /\ after[k].id \in Ids
        /\ after[k].side \in {"Buy", "Sell"} /\ after[k].price \in Prices
    BY <1>3, <2>1
  <2>5. after[k] \in [id : Ids, side : {"Buy", "Sell"}, price : Prices, remaining : 1 .. most]
    BY <2>3, <2>4 DEF OrderWith
  <2> QED
    BY <2>5
<1>5. ASSUME NEW k \in Rests
      PROVE  \E most \in Quantities :
               after[k] \in [id : Ids, side : {"Buy", "Sell"}, price : Prices,
                             remaining : 1 .. most]
  <2>1. Left(b, order) \in 1 .. order.remaining
    <3>1. /\ Units(b, Facing(b, order)) \in Nat /\ Left(b, order) \in Nat
          /\ Left(b, order) = IF order.remaining - Units(b, Facing(b, order)) >= 0
                              THEN order.remaining - Units(b, Facing(b, order)) ELSE 0
      BY <1>1, SweepTypes DEF Facing
    <3>2. order.remaining \in Nat /\ Left(b, order) # 0
      BY <1>1, <1>3 DEF OrderWith
    <3> QED
      BY <3>1, <3>2
  <2>2. /\ after[k] \in OrderWith(Ids) /\ after[k].remaining \in 1 .. order.remaining
        /\ after[k].price \in Prices /\ order.remaining \in Quantities
    BY <1>3, <2>1 DEF Order
  <2>3. after[k] \in [id : Ids, side : {"Buy", "Sell"}, price : Prices,
                      remaining : 1 .. order.remaining]
    BY <2>2 DEF OrderWith
  <2> QED
    BY <2>2, <2>3
<1>6. out.turn \in Nat \ {0} /\ DOMAIN after \subseteq 1 .. out.turn - 1
  <2>1. out.turn = t + Cardinality(Rests)
    BY DEF Outcome
  <2>2. CASE Left(b, order) = 0
    <3>1. Rests = {}
      BY <2>2 DEF Resting
    <3>2. out.turn = t
      BY <1>1, <2>1, <3>1, FS_EmptySet
    <3> QED
      BY <1>1, <1>3, <3>1, <3>2
  <2>3. CASE Left(b, order) # 0
    <3>1. Rests = {t}
      BY <2>3 DEF Resting
    <3>2. out.turn = t + 1
      BY <2>1, <3>1, FS_Singleton
    <3> QED
      BY <1>1, <1>3, <3>1, <3>2
  <2> QED
    BY <2>2, <2>3
<1> QED
  BY <1>3, <1>4, <1>5, <1>6 DEF EngineTyped, after

\* So does an amendment, and taking an order out.
LEMMA AmendTyped ==
  ASSUME NEW b, NEW t, EngineTyped(b, t), NEW k \in DOMAIN b
  PROVE  /\ EngineTyped(Without(b, k), t)
         /\ \A price \in Prices, quantity \in Quantities :
               LET out == AmendOutcome(b, t, k, price, quantity)
               IN EngineTyped(out.book, out.turn)
<1>1. EngineTyped(Without(b, k), t)
  BY DEF EngineTyped, Without
<1>2. ASSUME NEW price \in Prices, NEW quantity \in Quantities,
             price = b[k].price /\ quantity <= b[k].remaining,
             NEW out, out = AmendOutcome(b, t, k, price, quantity)
      PROVE  EngineTyped(out.book, out.turn)
  <2>1. out.book = [b EXCEPT ![k].remaining = quantity] /\ out.turn = t
    BY <1>2 DEF AmendOutcome
  <2>2. ASSUME NEW j \in DOMAIN b
        PROVE  \E most \in Quantities :
                 out.book[j] \in [id : Ids, side : {"Buy", "Sell"}, price : Prices,
                                  remaining : 1 .. most]
    <3>1. PICK most \in Quantities :
            b[j] \in [id : Ids, side : {"Buy", "Sell"}, price : Prices, remaining : 1 .. most]
      BY DEF EngineTyped
    <3>2. CASE j # k
      BY <2>1, <3>1, <3>2
    <3>3. CASE j = k
      <4>1. out.book[j] = [b[j] EXCEPT !.remaining = quantity] /\ quantity \in 1 .. most
        BY <1>2, <2>1, <3>1, <3>3, ProcessorConstants, RiskConstants
      <4> QED
        BY <3>1, <4>1
    <3> QED
      BY <3>2, <3>3
  <2> QED
    BY <2>1, <2>2 DEF EngineTyped
<1>3. ASSUME NEW price \in Prices, NEW quantity \in Quantities,
             ~(price = b[k].price /\ quantity <= b[k].remaining),
             NEW out, out = AmendOutcome(b, t, k, price, quantity)
      PROVE  EngineTyped(out.book, out.turn)
  <2>1. PICK new : new = Amended(b[k], price, quantity)
    OBVIOUS
  <2>2. out = Outcome(Without(b, k), t, new)
    BY <1>3, <2>1 DEF AmendOutcome
  <2>3. new \in Order
    BY <2>1, TypedIsBook, AmendedTyped DEF IsBook
  <2> QED
    BY <1>1, <2>2, <2>3, OutcomeTyped
<1> QED
  BY <1>1, <1>2, <1>3

-----------------------------------------------------------------------------
\* What the orders of a book may still cost.

\* An order at a price that is not positive can only bring money in: nothing is due for
\* it.  ModifyOrder makes such orders, the risk check does not let them in.
Due(order) == IF order.side = "Buy" /\ order.price > 0 THEN order.price * order.remaining ELSE 0

DueIn(b) == SumFunction([k \in DOMAIN b |-> Due(b[k])])

\* Due is a cost, and CostOf where that is positive.
LEMMA DueTyped ==
  ASSUME NEW I, NEW order \in OrderWith(I)
  PROVE  /\ Due(order) \in Nat /\ CostOf(order) \in Int /\ CostOf(order) <= Due(order)
         /\ order.price > 0 => CostOf(order) = Due(order)
<1>1. PICK p \in Int, r \in Nat : p = order.price /\ r = order.remaining
  BY DEF OrderWith
<1>2. p * r \in Int /\ (p > 0 => p * r >= 0) /\ (p <= 0 => p * r <= 0)
  <2>1. p > 0 => p * r >= 0
    OBVIOUS
  <2>2. p <= 0 => p * r <= 0
    OBVIOUS
  <2> QED
    BY <2>1, <2>2
<1> QED
  BY <1>1, <1>2 DEF Due, CostOf

\* What is due in a book as a sum over its orders.
LEMMA DueInSum ==
  ASSUME NEW I, NEW b, IsBook(b, I), NEW D, D = [k \in DOMAIN b |-> Due(b[k])]
  PROVE  /\ DueIn(b) = SumFunctionOnSet(D, DOMAIN b) /\ DueIn(b) \in Int
         /\ IsFiniteSet(DOMAIN b) /\ \A k \in DOMAIN b : D[k] = Due(b[k]) /\ D[k] \in Int
<1>1. IsFiniteSet(DOMAIN b) /\ \A k \in DOMAIN b : D[k] = Due(b[k]) /\ D[k] \in Int
  BY DueTyped DEF IsBook
<1>2. DueIn(b) = SumFunctionOnSet(D, DOMAIN b)
  BY DEF DueIn, SumFunction
<1>3. SumFunctionOnSet(D, DOMAIN b) \in Int
  BY <1>1, SumType
<1> QED
  BY <1>1, <1>2, <1>3

\* One resting order and a sweep: what it is paid and what is still due for it is no more
\* than was due for it, and what the buyer pays is no more than the buyer's price.
LEMMA OneOrderCosts ==
  ASSUME NEW p \in Int, NEW has \in Nat, NEW gives \in 0 .. has, NEW limit \in Int,
         p <= limit \/ gives = 0
  PROVE  /\ p * gives \in Int
         /\ limit > 0 => p * gives <= limit * gives
         /\ limit <= 0 => p * gives <= 0
<1>1. gives \in Nat /\ p * gives \in Int
  OBVIOUS
<1>2. CASE gives = 0
  BY <1>2
<1>3. CASE p <= limit
  <2>1. (limit - p) * gives >= 0
    BY <1>1, <1>3
  <2>2. (limit - p) * gives = limit * gives - p * gives
    BY <1>1
  <2>3. limit <= 0 => limit * gives <= 0
    BY <1>1
  <2> QED
    BY <1>1, <2>1, <2>2, <2>3
<1> QED
  BY <1>2, <1>3

\* The part of a resting BUY order that a sweep takes is paid at the order's own price.
LEMMA OneBuyPays ==
  ASSUME NEW p \in Int, NEW has \in Nat, NEW gives \in 0 .. has
  PROVE  /\ p * gives + p * (has - gives) = p * has
         /\ p <= 0 => p * gives <= 0
<1>1. gives \in Nat /\ has - gives \in Int
  OBVIOUS
<1>2. p * gives + p * (has - gives) = p * has
  BY <1>1
<1>3. p <= 0 => p * gives <= 0
  BY <1>1
<1> QED
  BY <1>2, <1>3

\* A sweep costs nothing that was not due: what is paid and what is due afterwards is no
\* more than what was due before and what the incoming order may cost.
LEMMA SweepCost ==
  ASSUME NEW I, NEW b, IsBook(b, I), NEW order \in OrderWith(I), NEW t \in Int,
         t \notin DOMAIN b, NEW out, out = Outcome(b, t, order)
  PROVE  /\ IsBook(out.book, I) /\ Value(out.report) \in Int
         /\ Value(out.report) + DueIn(out.book) <= DueIn(b) + Due(order)
<1>1. PICK after, rep : after = out.book /\ rep = out.report
  OBVIOUS
<1>2. IsSwept(b, t, order, after, I)
  BY <1>1, OutcomeBook
<1>3. IsBook(after, I)
  BY <1>2 DEF IsSwept
<1>4. PICK c \in Nat : /\ c = IF order.side = "Buy" /\ order.price > 0 THEN order.price ELSE 0
                       /\ Due(order) = c * order.remaining
  BY DEF Due, OrderWith
<1>5. PICK left \in Nat, asked \in Nat : left = Left(b, order) /\ asked = order.remaining
  BY SweepTypes DEF OrderWith
<1>6. PICK V, N, B, G, C, H, D :
        /\ V = [k \in DOMAIN b |-> b[k].price * Given(b, order)[k]]
        /\ N = [k \in DOMAIN b |-> IF k \in Staying(b, order) THEN Due(after[k]) ELSE 0]
        /\ B = [k \in DOMAIN b |-> Due(b[k])]
        /\ G = Given(b, order)
        /\ C = [k \in DOMAIN b |-> c * G[k]]
        /\ H = [k \in DOMAIN b |-> B[k] + C[k]]
        /\ D = [k \in DOMAIN after |-> Due(after[k])]
  OBVIOUS
<1>7. /\ IsFiniteSet(DOMAIN b) /\ DueIn(b) = SumFunctionOnSet(B, DOMAIN b)
      /\ \A k \in DOMAIN b : B[k] = Due(b[k]) /\ B[k] \in Int
  BY <1>6, DueInSum
<1>8. /\ IsFiniteSet(DOMAIN after) /\ DueIn(after) = SumFunctionOnSet(D, DOMAIN after)
      /\ \A k \in DOMAIN after : D[k] = Due(after[k]) /\ D[k] \in Int
  BY <1>3, <1>6, DueInSum
<1>9. /\ Value(rep) = SumFunctionOnSet(V, DOMAIN b)
      /\ \A k \in DOMAIN b : V[k] \in Int
      /\ \A k \in DOMAIN b \ Hit(b, order) : V[k] = 0
  BY <1>1, <1>6, ReportValue DEF Value
<1>10. ASSUME NEW k \in DOMAIN b
       PROVE  /\ G[k] \in Int /\ C[k] = c * G[k] /\ C[k] \in Int /\ H[k] = B[k] + C[k]
              /\ N[k] \in Int /\ H[k] \in Int /\ V[k] + N[k] <= H[k]
  <2>1. G[k] \in 0 .. b[k].remaining
    BY <1>6, GivenBounds
  <2>2. PICK p \in Int, has \in Nat : p = b[k].price /\ has = b[k].remaining
    BY DEF IsBook, OrderWith
  <2>3. PICK gives \in 0 .. has : gives = G[k]
    BY <2>1, <2>2
  <2>4. V[k] = p * gives /\ C[k] = c * gives /\ H[k] = B[k] + C[k]
    BY <1>6, <2>2, <2>3
  <2>5. B[k] = IF b[k].side = "Buy" /\ p > 0 THEN p * has ELSE 0
    BY <1>7, <2>2 DEF Due
  <2>6. N[k] = IF b[k].side = "Buy" /\ p > 0 THEN p * (has - gives) ELSE 0
    <3>1. CASE k \in Staying(b, order)
      <4>1. /\ after[k].side = b[k].side /\ after[k].price = p
            /\ after[k].remaining = has - gives
        BY <1>2, <1>6, <2>2, <2>3, <3>1 DEF IsSwept
      <4>2. N[k] = Due(after[k])
        BY <1>6, <3>1
      <4> QED
        BY <4>1, <4>2 DEF Due
    <3>2. CASE k \notin Staying(b, order)
      <4>1. gives = has /\ N[k] = 0
        BY <1>6, <2>2, <2>3, <3>2, GivenBounds
      <4>2. p * (has - gives) = 0
        BY <4>1
      <4> QED
        BY <4>1, <4>2
    <3> QED
      BY <3>1, <3>2
  <2>7. p * gives \in Int /\ c * gives \in Int /\ c * gives >= 0
    OBVIOUS
  <2>8. p * has \in Int /\ p * (has - gives) \in Int
    OBVIOUS
  <2>9. p * gives + p * (has - gives) = p * has /\ (p <= 0 => p * gives <= 0)
    BY OneBuyPays
  <2>10. CASE k \notin Hit(b, order)
    <3>1. gives = 0 /\ V[k] = 0
      BY <1>6, <1>9, <2>3, <2>10 DEF Given
    <3>2. p * (has - gives) = p * has
      BY <3>1
    <3> QED
      BY <2>3, <2>4, <2>5, <2>6, <2>7, <2>8, <3>1, <3>2
  <2>11. CASE k \in Hit(b, order)
    <3>1. b[k].side # order.side /\ Crosses(order, p)
      BY <2>2, <2>11 DEF Hit, Facing
    <3>2. b[k].side \in {"Buy", "Sell"} /\ order.side \in {"Buy", "Sell"} /\ order.price \in Int
      BY DEF IsBook, OrderWith
    <3>3. CASE b[k].side = "Buy"
      BY <2>3, <2>4, <2>5, <2>6, <2>7, <2>8, <2>9, <3>3
    <3>4. CASE b[k].side = "Sell"
      <4>1. order.side = "Buy" /\ p <= order.price
        BY <3>1, <3>2, <3>4 DEF Crosses
      <4>2. PICK limit \in Int : limit = order.price
        BY <3>2
      <4>3. /\ limit > 0 => p * gives <= limit * gives
            /\ limit <= 0 => p * gives <= 0
        BY <4>1, <4>2, OneOrderCosts
      <4>4. p * gives <= c * gives
        <5>1. CASE limit > 0
          BY <1>4, <4>1, <4>2, <4>3, <5>1
        <5>2. CASE limit <= 0
          BY <2>7, <4>3, <5>2
        <5> QED
          BY <5>1, <5>2
      <4>5. B[k] = 0 /\ N[k] = 0
        BY <2>5, <2>6, <3>4
      <4> QED
        BY <2>3, <2>4, <2>7, <4>4, <4>5
    <3> QED
      BY <3>2, <3>3, <3>4
  <2> QED
    BY <2>10, <2>11
<1>11. PICK v, n, g, d \in Int :
         /\ v = SumFunctionOnSet(V, DOMAIN b) /\ n = SumFunctionOnSet(N, DOMAIN b)
         /\ g = SumFunctionOnSet(G, DOMAIN b) /\ d = SumFunctionOnSet(B, DOMAIN b)
  BY <1>7, <1>9, <1>10, SumType
<1>12. v + n <= d + c * g
  <2>1. SumFunctionOnSet(V, DOMAIN b) + SumFunctionOnSet(N, DOMAIN b)
          <= SumFunctionOnSet(H, DOMAIN b)
    BY <1>7, <1>9, <1>10, SumBound
  <2>2. SumFunctionOnSet(C, DOMAIN b) = c * g
    <3>1. c \in Int /\ \A k \in DOMAIN b : G[k] \in Int /\ C[k] = c * G[k]
      BY <1>10
    <3>2. SumFunctionOnSet(C, DOMAIN b) = c * SumFunctionOnSet(G, DOMAIN b)
      BY <1>7, <3>1, SumScale
    <3> QED
      BY <1>11, <3>2
  <2>3. SumFunctionOnSet(H, DOMAIN b) = d + SumFunctionOnSet(C, DOMAIN b)
    BY <1>7, <1>10, <1>11, SumPlus
  <2> QED
    BY <1>11, <2>1, <2>2, <2>3
<1>13. g + left = asked
  BY <1>5, <1>6, <1>11, SweepIsExact
<1>14. DueIn(after) = n + c * left
  <2>1. Staying(b, order) \in SUBSET DOMAIN b
    BY <1>2 DEF IsSwept
  <2>2. \A k \in Staying(b, order) : D[k] \in Int /\ N[k] = D[k]
    BY <1>2, <1>6, <1>8, <2>1 DEF IsSwept
  <2>3. \A k \in DOMAIN b \ Staying(b, order) : N[k] = 0
    BY <1>6
  <2>4. SumFunctionOnSet(D, Staying(b, order)) = n
    BY <1>7, <1>11, <2>1, <2>2, <2>3, SumExtend
  <2>5. CASE left = 0
    <3>1. DOMAIN after = Staying(b, order)
      BY <1>2, <1>5, <2>5 DEF IsSwept, Resting
    <3>2. DueIn(after) = n
      BY <1>8, <2>4, <3>1
    <3> QED
      BY <2>5, <3>2
  <2>6. CASE left # 0
    <3>1. DOMAIN after = Staying(b, order) \cup {t} /\ t \notin Staying(b, order)
      BY <1>2, <1>5, <2>1, <2>6 DEF IsSwept, Resting
    <3>2. IsFiniteSet(Staying(b, order))
      BY <1>7, <2>1, FS_Subset
    <3>3. D[t] = c * left
      <4>1. after[t].side = order.side /\ after[t].price = order.price
            /\ after[t].remaining = left
        BY <1>2, <1>5, <2>6 DEF IsSwept, Resting
      <4>2. D[t] = Due(after[t])
        BY <1>8, <3>1
      <4> QED
        BY <1>4, <4>1, <4>2 DEF Due
    <3>4. SumFunctionOnSet(D, Staying(b, order) \cup {t}) = n + D[t]
      BY <1>8, <2>4, <3>1, <3>2, SumAdd
    <3> QED
      BY <1>8, <3>1, <3>3, <3>4
  <2> QED
    BY <2>5, <2>6
<1>15. c * asked = c * g + c * left
  BY <1>13
<1>16. v + (n + c * left) <= d + c * asked
  BY <1>12, <1>15
<1>17. /\ Value(out.report) = v /\ DueIn(out.book) = n + c * left
       /\ DueIn(b) = d /\ Due(order) = c * asked
  BY <1>1, <1>4, <1>5, <1>7, <1>9, <1>11, <1>14
<1> QED
  BY <1>1, <1>3, <1>11, <1>16, <1>17

LEMMA BookDue ==
  ASSUME NEW I, NEW b, IsBook(b, I)
  PROVE  DueIn(b) \in Int /\ \A k \in DOMAIN b : Due(b[k]) \in Int
<1>1. PICK D : D = [k \in DOMAIN b |-> Due(b[k])]
  OBVIOUS
<1> QED
  BY <1>1, DueInSum

\* An order taken out takes what was due for it with it.
LEMMA WithoutCost ==
  ASSUME NEW I, NEW b, IsBook(b, I), NEW k \in DOMAIN b, NEW rest, rest = Without(b, k)
  PROVE  /\ IsBook(rest, I) /\ DOMAIN rest = DOMAIN b \ {k}
         /\ DueIn(rest) = DueIn(b) - Due(b[k])
<1>1. DOMAIN rest = DOMAIN b \ {k} /\ \A j \in DOMAIN b \ {k} : rest[j] = b[j]
  BY DEF Without
<1>2. IsBook(rest, I)
  BY <1>1, FS_Subset DEF IsBook
<1>3. PICK B, R : /\ B = [j \in DOMAIN b |-> Due(b[j])]
                  /\ R = [j \in DOMAIN rest |-> Due(rest[j])]
  OBVIOUS
<1>4. /\ DueIn(b) = SumFunctionOnSet(B, DOMAIN b) /\ IsFiniteSet(DOMAIN b)
      /\ \A j \in DOMAIN b : B[j] = Due(b[j]) /\ B[j] \in Int
  BY <1>3, DueInSum
<1>5. /\ DueIn(rest) = SumFunctionOnSet(R, DOMAIN rest) /\ IsFiniteSet(DOMAIN rest)
      /\ \A j \in DOMAIN rest : R[j] = Due(rest[j]) /\ R[j] \in Int
  BY <1>2, <1>3, DueInSum
<1>6. \A j \in DOMAIN rest : R[j] \in Int /\ B[j] = R[j]
  BY <1>1, <1>4, <1>5
<1>7. SumFunctionOnSet(B, DOMAIN rest) = SumFunctionOnSet(R, DOMAIN rest)
  BY <1>5, <1>6, SumEqual
<1>8. SumFunctionOnSet(B, DOMAIN b) = B[k] + SumFunctionOnSet(B, DOMAIN b \ {k})
  BY <1>4, SumTakeOut
<1>9. DueIn(b) = Due(b[k]) + DueIn(rest)
  BY <1>1, <1>4, <1>5, <1>7, <1>8
<1>10. DueIn(rest) \in Int /\ Due(b[k]) \in Int
  BY <1>2, <1>3, <1>4, DueInSum
<1> QED
  BY <1>1, <1>2, <1>9, <1>10

\* An amendment: what is paid and due afterwards is no more than what was due before,
\* with the order as amended in the place of the order as it was.
LEMMA AmendCost ==
  ASSUME NEW I, NEW b, IsBook(b, I), NEW t \in Int, t \notin DOMAIN b, NEW k \in DOMAIN b,
         NEW price \in Int, NEW quantity \in Nat,
         NEW new, new = Amended(b[k], price, quantity),
         new = [id |-> b[k].id, side |-> b[k].side, price |-> price, remaining |-> quantity],
         new \in OrderWith(I),
         NEW out, out = AmendOutcome(b, t, k, price, quantity)
  PROVE  /\ IsBook(out.book, I) /\ Value(out.report) \in Int
         /\ Value(out.report) + DueIn(out.book) <= DueIn(b) + Due(new) - Due(b[k])
<1>1. PICK rest : rest = Without(b, k)
  OBVIOUS
<1>2. /\ IsBook(rest, I) /\ DOMAIN rest = DOMAIN b \ {k}
      /\ DueIn(rest) = DueIn(b) - Due(b[k])
  BY <1>1, WithoutCost
<1>3. CASE price = b[k].price /\ quantity <= b[k].remaining
  <2>1. PICK a : a = [b EXCEPT ![k].remaining = quantity]
    OBVIOUS
  <2>2. out.book = a /\ out.report = <<>>
    BY <1>3, <2>1 DEF AmendOutcome
  <2>3. DOMAIN a = DOMAIN b /\ a[k] = new /\ \A j \in DOMAIN b \ {k} : a[j] = b[j]
    <3>1. b[k] \in OrderWith(I)
      BY DEF IsBook
    <3>2. PICK id, side, remaining :
            b[k] = [id |-> id, side |-> side, price |-> price, remaining |-> remaining]
      BY <1>3, <3>1 DEF OrderWith
    <3>3. new = [id |-> id, side |-> side, price |-> price, remaining |-> quantity]
      BY <3>2
    <3>4. a[k] = [b[k] EXCEPT !.remaining = quantity]
      BY <2>1
    <3>5. a[k] = [id |-> id, side |-> side, price |-> price, remaining |-> quantity]
      BY <3>2, <3>4
    <3>6. a[k] = new
      BY <3>3, <3>5
    <3> QED
      BY <2>1, <3>6
  <2>4. IsBook(a, I)
    BY <2>3 DEF IsBook
  <2>5. Without(a, k) = rest
    BY <1>1, <2>3 DEF Without
  <2>6. DueIn(rest) = DueIn(a) - Due(a[k])
    <3>1. k \in DOMAIN a
      BY <2>3
    <3> QED
      BY <2>4, <2>5, <3>1, WithoutCost
  <2>7. Value(<<>>) = 0
    <3>1. [i \in DOMAIN <<>> |-> <<>>[i].price * <<>>[i].quantity] = <<>> /\ DOMAIN <<>> = {}
      OBVIOUS
    <3> QED
      BY <3>1, SumEmpty DEF Value, SumFunction
  <2>8. DueIn(a) \in Int /\ DueIn(b) \in Int /\ Due(new) \in Int /\ Due(b[k]) \in Int
    BY <2>4, BookDue, DueTyped
  <2> QED
    BY <1>2, <2>2, <2>3, <2>4, <2>6, <2>7, <2>8
<1>4. CASE ~(price = b[k].price /\ quantity <= b[k].remaining)
  <2>1. out = Outcome(rest, t, new)
    BY <1>1, <1>4 DEF AmendOutcome
  <2>2. t \notin DOMAIN rest
    BY <1>2
  <2>3. /\ IsBook(out.book, I) /\ Value(out.report) \in Int
        /\ Value(out.report) + DueIn(out.book) <= DueIn(rest) + Due(new)
    BY <1>2, <2>1, <2>2, SweepCost
  <2>4. DueIn(out.book) \in Int /\ DueIn(b) \in Int /\ Due(new) \in Int /\ Due(b[k]) \in Int
    BY <2>3, BookDue, DueTyped
  <2> QED
    BY <1>2, <2>3, <2>4
<1> QED
  BY <1>3, <1>4

\* What an amendment may add is what ModifyOrder writes down as unchecked.
LEMMA AmendedDue ==
  ASSUME NEW I, NEW old \in OrderWith(I), NEW new \in OrderWith(I), new.side = old.side
  PROVE  /\ Max({0, CostOf(new) - CostOf(old)}) \in Nat
         /\ Due(new) - Due(old) <= Max({0, CostOf(new) - CostOf(old)})
<1>1. PICK i, j \in Int : i = CostOf(new) /\ j = CostOf(old)
  BY DueTyped
<1>2. Max({0, i - j}) = IF 0 >= i - j THEN 0 ELSE i - j
  BY MinMaxOfTwo
<1>3. PICK d, e \in Nat : d = Due(new) /\ e = Due(old)
  BY DueTyped
<1>4. j <= e /\ (d = i \/ d = 0)
  BY <1>1, <1>3, DueTyped DEF Due, CostOf
<1> QED
  BY <1>1, <1>2, <1>3, <1>4

-----------------------------------------------------------------------------
\* All engines.

DueInAll(e) == SumFunction([s \in DOMAIN e |-> DueIn(e[s].book)])

\* f is e with book b and next turn t in the engine of s.
Put(e, f, s, b, t) ==
  /\ DOMAIN f = DOMAIN e \cup {s}
  /\ DOMAIN f[s] = {"book", "turn"} /\ f[s].book = b /\ f[s].turn = t
  /\ \A r \in DOMAIN e \ {s} : f[r] = e[r]

LEMMA PutCost ==
  ASSUME NEW e, NEW f, NEW s, NEW b, NEW t, Put(e, f, s, b, t), IsFiniteSet(DOMAIN e),
         \A r \in DOMAIN e : DueIn(e[r].book) \in Int, DueIn(b) \in Int,
         NEW was, was = IF s \in DOMAIN e THEN DueIn(e[s].book) ELSE 0
  PROVE  /\ IsFiniteSet(DOMAIN f) /\ DueInAll(e) \in Int
         /\ DueInAll(f) = DueInAll(e) - was + DueIn(b)
<1>1. PICK E, F : /\ E = [r \in DOMAIN e |-> DueIn(e[r].book)]
                  /\ F = [r \in DOMAIN f |-> DueIn(f[r].book)]
  OBVIOUS
<1>2. PICK rest : rest = DOMAIN e \ {s}
  OBVIOUS
<1>3. /\ DOMAIN f = rest \cup {s} /\ s \notin rest /\ rest \in SUBSET DOMAIN e
      /\ IsFiniteSet(rest) /\ IsFiniteSet(DOMAIN f)
  BY <1>2, FS_RemoveElement, FS_AddElement DEF Put
<1>4. /\ \A r \in DOMAIN e : E[r] \in Int /\ E[r] = DueIn(e[r].book)
      /\ \A r \in rest : F[r] = E[r] /\ E[r] \in Int
      /\ F[s] = DueIn(b)
  BY <1>1, <1>2, <1>3 DEF Put
<1>5. \A r \in rest \cup {s} : F[r] \in Int
  BY <1>4
<1>6. PICK m, d \in Int : m = SumFunctionOnSet(E, rest) /\ d = DueIn(b)
  BY <1>3, <1>4, SumType
<1>7. DueInAll(e) = SumFunctionOnSet(E, DOMAIN e) /\ DueInAll(f) = SumFunctionOnSet(F, DOMAIN f)
  BY <1>1 DEF DueInAll, SumFunction
<1>8. DueInAll(f) = m + d
  <2>1. SumFunctionOnSet(F, rest) = m
    BY <1>3, <1>4, <1>6, SumEqual
  <2>2. SumFunctionOnSet(F, rest \cup {s}) = m + F[s]
    BY <1>3, <1>5, <2>1, SumAdd
  <2> QED
    BY <1>3, <1>4, <1>6, <1>7, <2>2
<1>9. DueInAll(e) = was + m /\ was \in Int
  <2>1. CASE s \in DOMAIN e
    <3>1. SumFunctionOnSet(E, DOMAIN e) = E[s] + SumFunctionOnSet(E, DOMAIN e \ {s})
      BY <1>4, <2>1, SumTakeOut
    <3> QED
      BY <1>2, <1>4, <1>6, <1>7, <2>1, <3>1
  <2>2. CASE s \notin DOMAIN e
    <3>1. rest = DOMAIN e
      BY <1>2, <2>2
    <3> QED
      BY <1>6, <1>7, <2>2, <3>1
  <2> QED
    BY <2>1, <2>2
<1> QED
  BY <1>3, <1>6, <1>8, <1>9

-----------------------------------------------------------------------------
\* What requests do to the engines.

LEMMA EnginesTyped ==
  ASSUME TypeOK
  PROVE  /\ \A s \in DOMAIN engines : EngineTyped(engines[s].book, engines[s].turn)
         /\ \A s : EngineTyped(EngineFor(s).book, EngineFor(s).turn)
<1>1. \A s \in DOMAIN engines : EngineTyped(engines[s].book, engines[s].turn)
  BY DEF TypeOK, EngineTyped
<1>2. EngineTyped(NewEngine.book, NewEngine.turn)
  BY DEF EngineTyped, NewEngine
<1> QED
  BY <1>1, <1>2 DEF EngineFor

LEMMA PutOutcome ==
  ASSUME NEW s, NEW out, engines' = WithOutcome(s, out)
  PROVE  Put(engines, engines', s, out.book, out.turn)
  BY DEF WithOutcome, Put

LEMMA PutTyped ==
  ASSUME TypeOK, NEW s \in Symbols, NEW b, NEW t, EngineTyped(b, t),
         Put(engines, engines', s, b, t), buyingPower' \in -Int64End .. Int64End - 1,
         reply'.kind \in {"none", "ack", "reject", "book"}, requests < MaxRequests,
         requests' = requests + 1, paid' \in Int, unchecked' \in Nat
  PROVE  TypeOK'
<1>1. DOMAIN engines' \subseteq Symbols
  BY DEF TypeOK, Put
<1>2. ASSUME NEW r \in DOMAIN engines'
      PROVE  /\ DOMAIN engines'[r] = {"book", "turn"}
             /\ engines'[r].turn \in Nat \ {0}
             /\ DOMAIN engines'[r].book \subseteq 1 .. engines'[r].turn - 1
             /\ \A k \in DOMAIN engines'[r].book : \E most \in Quantities :
                   engines'[r].book[k] \in [id : Ids, side : {"Buy", "Sell"},
                                           price : Prices, remaining : 1 .. most]
  <2>1. CASE r = s
    BY <2>1 DEF Put, EngineTyped
  <2>2. CASE r # s
    <3>1. r \in DOMAIN engines /\ engines'[r] = engines[r]
      BY <2>2 DEF Put
    <3> QED
      BY <3>1 DEF TypeOK
  <2> QED
    BY <2>1, <2>2
<1>3. requests' \in 0 .. MaxRequests
  BY ProcessorConstants, RiskConstants DEF TypeOK
<1> QED
  BY <1>1, <1>2, <1>3 DEF TypeOK

\* An accepted order sweeps the book of its symbol.
LEMMA AcceptIs ==
  ASSUME TypeOK, NEW s \in Symbols, NEW order \in Order, AcceptOrder(s, order)
  PROVE  \E b, t, out :
            /\ b = EngineFor(s).book /\ EngineTyped(b, t) /\ out = Outcome(b, t, order)
            /\ EngineTyped(out.book, out.turn)
            /\ Put(engines, engines', s, out.book, out.turn)
            /\ Value(out.report) \in Int /\ paid' = paid + Value(out.report)
<1>1. PICK b, t, out : /\ b = EngineFor(s).book /\ t = EngineFor(s).turn
                       /\ out = Outcome(b, t, order)
  OBVIOUS
<1>2. EngineTyped(b, t)
  BY <1>1, EnginesTyped
<1>3. EngineTyped(out.book, out.turn)
  BY <1>1, <1>2, OutcomeTyped
<1>4. engines' = WithOutcome(s, out) /\ paid' = paid + Value(out.report)
  BY <1>1 DEF AcceptOrder
<1>5. IsBook(b, Ids) /\ t \in Int /\ t \notin DOMAIN b /\ order \in OrderWith(Ids)
  BY <1>2, TypedIsBook, OrdersTyped
<1>6. Value(out.report) \in Int
  BY <1>1, <1>5, SweepCost
<1>7. Put(engines, engines', s, out.book, out.turn)
  BY <1>4, PutOutcome
<1> QED
  BY <1>1, <1>2, <1>3, <1>4, <1>6, <1>7

\* A change that finds its order k in the engine of s.
LEMMA ModifyIs ==
  ASSUME TypeOK, NEW price \in Prices, NEW quantity \in Quantities, NEW s \in DOMAIN engines,
         NEW k \in DOMAIN engines[s].book, NEW old, old = engines[s].book[k],
         NEW new, new = Amended(old, price, quantity),
         NEW out, out = AmendOutcome(engines[s].book, engines[s].turn, k, price, quantity),
         engines' = WithOutcome(s, out), paid' = paid + Value(out.report),
         unchecked' = unchecked + Max({0, CostOf(new) - CostOf(old)})
  PROVE  /\ EngineTyped(out.book, out.turn)
         /\ Put(engines, engines', s, out.book, out.turn)
         /\ Value(out.report) \in Int
         /\ \E added \in Nat : /\ unchecked' = unchecked + added
                               /\ Value(out.report) + DueIn(out.book)
                                    <= DueIn(engines[s].book) + added
<1>1. PICK b, t : b = engines[s].book /\ t = engines[s].turn
  OBVIOUS
<1>2. EngineTyped(b, t) /\ k \in DOMAIN b
  BY <1>1, EnginesTyped
<1>3. EngineTyped(out.book, out.turn)
  BY <1>1, <1>2, AmendTyped
<1>4. Put(engines, engines', s, out.book, out.turn)
  BY PutOutcome
<1>5. IsBook(b, Ids) /\ t \in Int /\ t \notin DOMAIN b /\ old \in OrderWith(Ids) /\ old = b[k]
  BY <1>1, <1>2, TypedIsBook DEF IsBook
<1>6. /\ new \in Order /\ new \in OrderWith(Ids)
      /\ new = [id |-> old.id, side |-> old.side, price |-> price, remaining |-> quantity]
  BY <1>5, AmendedTyped, OrdersTyped
<1>7. price \in Int /\ quantity \in Nat
  BY ProcessorConstants, RiskConstants
<1>8. /\ IsBook(out.book, Ids) /\ Value(out.report) \in Int
      /\ Value(out.report) + DueIn(out.book) <= DueIn(b) + Due(new) - Due(old)
  BY <1>1, <1>2, <1>5, <1>6, <1>7, AmendCost
<1>9. PICK added \in Nat : /\ added = Max({0, CostOf(new) - CostOf(old)})
                           /\ Due(new) - Due(old) <= added
  BY <1>5, <1>6, AmendedDue
<1>10. /\ DueIn(b) \in Int /\ DueIn(out.book) \in Int
       /\ Due(new) \in Int /\ Due(old) \in Int
  BY <1>5, <1>6, <1>8, BookDue, DueTyped
<1>11. Value(out.report) + DueIn(out.book) <= DueIn(b) + added
  BY <1>8, <1>9, <1>10
<1> QED
  BY <1>1, <1>3, <1>4, <1>8, <1>9, <1>11

\* A cancel that finds its order k in the engine of s.
LEMMA CancelIs ==
  ASSUME TypeOK, NEW s \in DOMAIN engines, NEW k \in DOMAIN engines[s].book,
         engines' = [engines EXCEPT ![s].book = Without(@, k)]
  PROVE  \E b, t : /\ b = Without(engines[s].book, k) /\ EngineTyped(b, t)
                   /\ Put(engines, engines', s, b, t)
<1>1. PICK b, t : b = Without(engines[s].book, k) /\ t = engines[s].turn
  OBVIOUS
<1>2. EngineTyped(b, t)
  BY <1>1, EnginesTyped, AmendTyped
<1>3. Put(engines, engines', s, b, t)
  BY <1>1 DEF Put, TypeOK
<1> QED
  BY <1>1, <1>2, <1>3

\* Whatever is stored is an int64_t, and what is one is stored as it is.
LEMMA Int64Wraps ==
  ASSUME NEW v \in Int
  PROVE  /\ Int64(v) \in -Int64End .. Int64End - 1
         /\ v \in -Int64End .. Int64End - 1 => Int64(v) = v
<1>1. PICK n \in Nat \ {0} : n = Int64End
  BY ProcessorConstants, RiskConstants
<1>2. ((v + n) % (2 * n)) - n \in -n .. n - 1
  OBVIOUS
<1>3. v \in -n .. n - 1 => ((v + n) % (2 * n)) - n = v
  OBVIOUS
<1> QED
  BY <1>1, <1>2, <1>3 DEF Int64

LEMMA ReservedTyped ==
  ASSUME TypeOK, NEW order \in Order
  PROVE  Reserved(order) \in -Int64End .. Int64End - 1
<1>1. order.price * order.remaining \in Int
  <2>1. PICK p \in Int, r \in Nat : p = order.price /\ r = order.remaining
    BY OrdersTyped DEF OrderWith
  <2> QED
    BY <2>1
<1>2. Int64End \in Int
  BY ProcessorConstants, RiskConstants
<1>3. Cost(order) \in Int
  BY <1>1, <1>2, Int64Wraps DEF Cost
<1>4. buyingPower - Cost(order) \in Int
  BY <1>2, <1>3 DEF TypeOK
<1> QED
  BY <1>4, Int64Wraps DEF Reserved, TypeOK

LEMMA TypeStep == TypeOK /\ [Next]_vars => TypeOK'
<1> SUFFICES ASSUME TypeOK, [Next]_vars PROVE TypeOK'
  OBVIOUS
<1>1. ASSUME NEW order \in Order, RefuseOrder(order) PROVE TypeOK'
  BY <1>1, ProcessorConstants, RiskConstants DEF RefuseOrder, Reply, TypeOK
<1>2. ASSUME NEW order \in Order, NEW s \in Symbols, AcceptOrder(s, order) PROVE TypeOK'
  <2>1. PICK b, t : /\ EngineTyped(b, t) /\ Put(engines, engines', s, b, t) /\ paid' \in Int
    BY <1>2, AcceptIs DEF TypeOK
  <2>2. buyingPower' \in -Int64End .. Int64End - 1
    BY <1>2, ReservedTyped DEF AcceptOrder
  <2>3. /\ reply'.kind \in {"none", "ack", "reject", "book"} /\ requests < MaxRequests
        /\ requests' = requests + 1 /\ unchecked' \in Nat
    BY <1>2 DEF AcceptOrder, Reply, TypeOK
  <2> QED
    BY <2>1, <2>2, <2>3, PutTyped
<1>3. ASSUME NEW id \in Ids, CancelOrder(id) PROVE TypeOK'
  <2>1. CASE engines' = engines
    BY <1>3, <2>1, ProcessorConstants, RiskConstants DEF CancelOrder, Reply, TypeOK
  <2>2. ASSUME NEW s \in Holding(id), NEW k \in TurnsOf(s, id),
               engines' = [engines EXCEPT ![s].book = Without(@, k)]
        PROVE  TypeOK'
    <3>1. s \in DOMAIN engines /\ k \in DOMAIN engines[s].book /\ s \in Symbols
      BY <2>2 DEF Holding, TurnsOf, TypeOK
    <3>2. PICK b, t : EngineTyped(b, t) /\ Put(engines, engines', s, b, t)
      BY <2>2, <3>1, CancelIs
    <3>3. /\ buyingPower' \in -Int64End .. Int64End - 1 /\ paid' \in Int /\ unchecked' \in Nat
          /\ reply'.kind \in {"none", "ack", "reject", "book"} /\ requests < MaxRequests
          /\ requests' = requests + 1
      BY <1>3 DEF CancelOrder, Reply, TypeOK
    <3> QED
      BY <3>1, <3>2, <3>3, PutTyped
  <2> QED
    BY <1>3, <2>1, <2>2 DEF CancelOrder
<1>4. ASSUME NEW id \in Ids, NEW price \in Prices, NEW quantity \in Quantities,
             ModifyOrder(id, price, quantity)
      PROVE  TypeOK'
  <2>1. /\ reply'.kind \in {"ack", "reject"} /\ requests < MaxRequests
        /\ requests' = requests + 1 /\ UNCHANGED buyingPower
    <3>1. \E report : reply' = Reply("modify", "reject", id, report)
                      \/ reply' = Reply("modify", "ack", id, report)
      BY <1>4, Zenon DEF ModifyOrder
    <3>2. requests < MaxRequests /\ requests' = requests + 1 /\ UNCHANGED buyingPower
      BY <1>4, Zenon DEF ModifyOrder
    <3> QED
      BY <3>1, <3>2 DEF Reply
  <2>2. CASE UNCHANGED <<engines, paid, unchecked>>
    BY <2>1, <2>2, ProcessorConstants, RiskConstants DEF TypeOK
  <2>3. ASSUME NEW s \in Holding(id), NEW k \in TurnsOf(s, id), NEW old, NEW new, NEW out,
               old = engines[s].book[k], new = Amended(old, price, quantity),
               out = AmendOutcome(engines[s].book, engines[s].turn, k, price, quantity),
               engines' = WithOutcome(s, out), paid' = paid + Value(out.report),
               unchecked' = unchecked + Max({0, CostOf(new) - CostOf(old)})
        PROVE  TypeOK'
    <3>1. s \in DOMAIN engines /\ k \in DOMAIN engines[s].book /\ s \in Symbols
      BY <2>3 DEF Holding, TurnsOf, TypeOK
    <3>2. /\ EngineTyped(out.book, out.turn) /\ Put(engines, engines', s, out.book, out.turn)
          /\ Value(out.report) \in Int
          /\ \E added \in Nat : unchecked' = unchecked + added
      BY <2>3, <3>1, ModifyIs
    <3>3. paid' \in Int /\ unchecked' \in Nat
      BY <2>3, <3>2 DEF TypeOK
    <3>4. /\ buyingPower' \in -Int64End .. Int64End - 1 /\ requests < MaxRequests
          /\ reply'.kind \in {"none", "ack", "reject", "book"} /\ requests' = requests + 1
      BY <2>1 DEF TypeOK
    <3> QED
      BY <3>1, <3>2, <3>3, <3>4, PutTyped
  <2> QED
    BY <1>4, <2>2, <2>3 DEF ModifyOrder
<1>5. ASSUME NEW s \in Symbols, QueryBook(s) PROVE TypeOK'
  BY <1>5 DEF QueryBook, TypeOK
<1>6. CASE UNCHANGED vars
  BY <1>6 DEF vars, TypeOK
<1> QED
  BY <1>1, <1>2, <1>3, <1>4, <1>5, <1>6 DEF Next

\* Whatever is requested, each engine keeps a book of orders with something left under
\* turns that were given out, and the buying power an int64_t.
THEOREM ProcessorTyped == Spec => []TypeOK
<1>1. Init => TypeOK
  <2>1. DOMAIN <<>> = {}
    OBVIOUS
  <2> QED
    BY <2>1, ProcessorConstants, RiskConstants DEF Init, TypeOK
<1> QED
  BY <1>1, TypeStep, PTL DEF Spec

-----------------------------------------------------------------------------
\* The account.

\* No product that the risk check can accept overflows.
ProductsFit ==
  \A p \in Prices, q \in Quantities : p > 0 /\ q <= MaxOrderQuantity => p * q < Int64End

\* What ExposureCovered says, with Due in the place of CostOf: an order at a negative
\* price would count for less than nothing, and cancelling it would uncover the rest.
Covered ==
  /\ IsFiniteSet(DOMAIN engines)
  /\ paid + DueInAll(engines) <= BuyingPower - buyingPower + unchecked

\* Reserving what an accepted BUY costs does not wrap around.
LEMMA ReservedExactly ==
  ASSUME ProductsFit, TypeOK, NEW order \in Order, Accepted(order)
  PROVE  Reserved(order) = buyingPower - Due(order)
<1>1. PICK p \in Int, r \in Nat, n \in Nat \ {0} :
        p = order.price /\ r = order.remaining /\ n = Int64End
  BY OrdersTyped, ProcessorConstants, RiskConstants DEF OrderWith
<1>2. p > 0 /\ p * r \in Nat /\ p * r < n
  <2>1. p > 0 /\ p \in Prices /\ r \in Quantities /\ r <= MaxOrderQuantity
    BY <1>1 DEF Accepted, Order
  <2>2. p * r \in Nat
    BY <2>1
  <2> QED
    BY <1>1, <2>1, <2>2 DEF ProductsFit
<1>3. CASE order.side = "Sell"
  BY <1>3, <1>1 DEF Reserved, Due, TypeOK
<1>4. CASE order.side = "Buy"
  <2>1. PICK c \in Nat : c = p * r
    BY <1>2
  <2>2. c \in -Int64End .. Int64End - 1
    BY <1>1, <1>2, <2>1
  <2>3. Cost(order) = c
    BY <1>1, <2>1, <2>2, Int64Wraps DEF Cost
  <2>4. buyingPower \in Int /\ c <= buyingPower /\ buyingPower < n
    BY <1>1, <1>4, <2>3 DEF Accepted, TypeOK
  <2>5. buyingPower - c \in -Int64End .. Int64End - 1 /\ buyingPower - c \in Int
    BY <1>1, <2>4
  <2>6. Int64(buyingPower - c) = buyingPower - c
    BY <2>5, Int64Wraps
  <2>7. Due(order) = c
    BY <1>1, <1>2, <1>4, <2>1 DEF Due
  <2> QED
    BY <1>4, <2>3, <2>6, <2>7 DEF Reserved
<1> QED
  BY <1>3, <1>4 DEF Order

\* Replacing a book, when no more is paid and due afterwards than before, but for what was
\* reserved or written down as unchecked.
LEMMA PutCovered ==
  ASSUME TypeOK, Covered, NEW s, NEW b, NEW t, EngineTyped(b, t),
         Put(engines, engines', s, b, t), NEW value \in Int, NEW more \in Int,
         value + DueIn(b) <= DueIn(EngineFor(s).book) + more,
         paid' = paid + value, paid' \in Int, buyingPower' \in Int, unchecked' \in Int,
         unchecked' - buyingPower' = unchecked - buyingPower + more
  PROVE  Covered'
<1>1. PICK e, f : e = engines /\ f = engines'
  OBVIOUS
<1>2. Put(e, f, s, b, t) /\ IsFiniteSet(DOMAIN e)
  BY <1>1 DEF Covered
<1>3. ASSUME NEW r \in DOMAIN e PROVE DueIn(e[r].book) \in Int
  BY <1>1, EnginesTyped, TypedIsBook, BookDue
<1>4. DueIn(b) \in Int
  BY TypedIsBook, BookDue
<1>5. PICK was : was = IF s \in DOMAIN e THEN DueIn(e[s].book) ELSE 0
  OBVIOUS
<1>6. /\ IsFiniteSet(DOMAIN f) /\ DueInAll(e) \in Int
      /\ DueInAll(f) = DueInAll(e) - was + DueIn(b)
  BY <1>2, <1>3, <1>4, <1>5, PutCost
<1>7. was = DueIn(EngineFor(s).book) /\ was \in Int
  <2>1. CASE s \in DOMAIN e
    BY <1>1, <1>3, <1>5, <2>1 DEF EngineFor
  <2>2. CASE s \notin DOMAIN e
    <3>1. EngineFor(s).book = <<>>
      BY <1>1, <2>2 DEF EngineFor, NewEngine
    <3>2. DueIn(<<>>) = 0
      <4>1. [k \in DOMAIN <<>> |-> Due(<<>>[k])] = <<>> /\ DOMAIN <<>> = {}
        OBVIOUS
      <4> QED
        BY <4>1, SumEmpty DEF DueIn, SumFunction
    <3> QED
      BY <1>5, <2>2, <3>1, <3>2
  <2> QED
    BY <2>1, <2>2
<1>8. PICK p, pp, bp, bpp, u, uu, all, due \in Int :
        /\ p = paid /\ bp = buyingPower /\ u = unchecked
        /\ pp = paid' /\ bpp = buyingPower' /\ uu = unchecked'
        /\ all = DueInAll(e) /\ due = DueIn(b)
  <2>1. Int64End \in Int /\ BuyingPower \in Int
    BY ProcessorConstants, RiskConstants
  <2> QED
    BY <1>4, <1>6, <2>1 DEF TypeOK
<1>9. PICK power \in Int : power = BuyingPower
  BY ProcessorConstants, RiskConstants
<1>10. p + all <= power - bp + u
  BY <1>1, <1>8, <1>9 DEF Covered
<1>11. pp = p + value /\ uu - bpp = u - bp + more /\ value + due <= was + more
  BY <1>7, <1>8
<1>12. pp + (all - was + due) <= power - bpp + uu
  BY <1>7, <1>10, <1>11
<1>13. DueInAll(f) = all - was + due
  BY <1>6, <1>8
<1>14. pp + DueInAll(f) <= power - bpp + uu
  BY <1>12, <1>13
<1> QED
  BY <1>1, <1>6, <1>8, <1>9, <1>14 DEF Covered

LEMMA CoveredStep ==
  ASSUME ProductsFit, TypeOK, TypeOK', Covered, [Next]_vars
  PROVE  Covered'
<1>1. /\ paid' \in Int /\ buyingPower' \in Int /\ unchecked' \in Int
      /\ buyingPower \in Int /\ unchecked \in Int
  <2>1. Int64End \in Int
    BY ProcessorConstants, RiskConstants
  <2> QED
    BY <2>1 DEF TypeOK
<1>2. CASE UNCHANGED <<engines, buyingPower, paid, unchecked>>
  BY <1>2 DEF Covered
<1>3. ASSUME NEW order \in Order, NEW s \in Symbols, AcceptOrder(s, order) PROVE Covered'
  <2>1. PICK b, t, out :
            /\ b = EngineFor(s).book /\ EngineTyped(b, t) /\ out = Outcome(b, t, order)
            /\ EngineTyped(out.book, out.turn)
            /\ Put(engines, engines', s, out.book, out.turn)
            /\ Value(out.report) \in Int /\ paid' = paid + Value(out.report)
    BY <1>3, AcceptIs
  <2>2. IsBook(b, Ids) /\ t \in Int /\ t \notin DOMAIN b /\ order \in OrderWith(Ids)
    BY <2>1, TypedIsBook, OrdersTyped
  <2>3. Value(out.report) + DueIn(out.book) <= DueIn(b) + Due(order)
    BY <2>1, <2>2, SweepCost
  <2>4. Due(order) \in Int
    BY <2>2, DueTyped
  <2>5. buyingPower' = buyingPower - Due(order) /\ unchecked' = unchecked
    <3>1. Accepted(order) /\ buyingPower' = Reserved(order) /\ unchecked' = unchecked
      BY <1>3 DEF AcceptOrder
    <3> QED
      BY <3>1, ReservedExactly
  <2>6. unchecked' - buyingPower' = unchecked - buyingPower + Due(order)
    BY <1>1, <2>4, <2>5
  <2> QED
    BY <1>1, <2>1, <2>3, <2>4, <2>6, PutCovered
<1>4. ASSUME NEW id \in Ids, CancelOrder(id) PROVE Covered'
  <2>1. UNCHANGED <<buyingPower, paid, unchecked>>
    BY <1>4 DEF CancelOrder
  <2>2. ASSUME NEW s \in Holding(id), NEW k \in TurnsOf(s, id),
               engines' = [engines EXCEPT ![s].book = Without(@, k)]
        PROVE  Covered'
    <3>1. s \in DOMAIN engines /\ k \in DOMAIN engines[s].book
      BY <2>2 DEF Holding, TurnsOf
    <3>2. PICK b, t : /\ b = Without(engines[s].book, k) /\ EngineTyped(b, t)
                      /\ Put(engines, engines', s, b, t)
      BY <2>2, <3>1, CancelIs
    <3>3. IsBook(engines[s].book, Ids)
      BY <3>1, EnginesTyped, TypedIsBook
    <3>4. PICK book : book = engines[s].book
      OBVIOUS
    <3>5. DueIn(b) = DueIn(book) - Due(book[k]) /\ DueIn(book) \in Int
      <4>1. IsBook(book, Ids) /\ k \in DOMAIN book /\ b = Without(book, k)
        BY <3>1, <3>2, <3>3, <3>4
      <4>2. DueIn(b) = DueIn(book) - Due(book[k])
        BY <4>1, WithoutCost
      <4> QED
        BY <4>1, <4>2, BookDue
    <3>6. Due(book[k]) \in Nat
      BY <3>1, <3>3, <3>4, DueTyped DEF IsBook
    <3>7. PICK none \in Int : none = 0
      OBVIOUS
    <3>8. none + DueIn(b) <= DueIn(EngineFor(s).book) + none
      <4>1. EngineFor(s).book = book
        BY <3>1, <3>4 DEF EngineFor
      <4> QED
        BY <3>5, <3>6, <3>7, <4>1
    <3>9. paid' = paid + none /\ unchecked' - buyingPower' = unchecked - buyingPower + none
      BY <1>1, <2>1, <3>7 DEF TypeOK
    <3> QED
      BY <1>1, <3>2, <3>8, <3>9, PutCovered
  <2> QED
    BY <1>2, <1>4, <2>1, <2>2 DEF CancelOrder
<1>5. ASSUME NEW id \in Ids, NEW price \in Prices, NEW quantity \in Quantities,
             ModifyOrder(id, price, quantity)
      PROVE  Covered'
  <2>1. UNCHANGED buyingPower
    BY <1>5, Zenon DEF ModifyOrder
  <2>2. CASE UNCHANGED <<engines, paid, unchecked>>
    BY <1>2, <2>1, <2>2
  <2>3. ASSUME NEW s \in Holding(id), NEW k \in TurnsOf(s, id), NEW old, NEW new, NEW out,
               old = engines[s].book[k], new = Amended(old, price, quantity),
               out = AmendOutcome(engines[s].book, engines[s].turn, k, price, quantity),
               engines' = WithOutcome(s, out), paid' = paid + Value(out.report),
               unchecked' = unchecked + Max({0, CostOf(new) - CostOf(old)})
        PROVE  Covered'
    <3>1. s \in DOMAIN engines /\ k \in DOMAIN engines[s].book
      BY <2>3 DEF Holding, TurnsOf
    <3>2. /\ EngineTyped(out.book, out.turn) /\ Put(engines, engines', s, out.book, out.turn)
          /\ Value(out.report) \in Int
          /\ \E added \in Nat : /\ unchecked' = unchecked + added
                                /\ Value(out.report) + DueIn(out.book)
                                     <= DueIn(engines[s].book) + added
      BY <2>3, <3>1, ModifyIs
    <3>3. PICK added \in Nat : /\ unchecked' = unchecked + added
                               /\ Value(out.report) + DueIn(out.book)
                                    <= DueIn(engines[s].book) + added
      BY <3>2
    <3>4. Value(out.report) + DueIn(out.book) <= DueIn(EngineFor(s).book) + added
      BY <3>1, <3>3 DEF EngineFor
    <3>5. added \in Int /\ unchecked' - buyingPower' = unchecked - buyingPower + added
      BY <1>1, <2>1, <3>3
    <3> QED
      BY <1>1, <2>3, <3>2, <3>4, <3>5, PutCovered
  <2> QED
    BY <1>5, <2>2, <2>3 DEF ModifyOrder
<1>6. ASSUME NEW order \in Order, RefuseOrder(order) PROVE Covered'
  BY <1>2, <1>6 DEF RefuseOrder
<1>7. ASSUME NEW s \in Symbols, QueryBook(s) PROVE Covered'
  BY <1>2, <1>7 DEF QueryBook
<1>8. CASE UNCHANGED vars
  BY <1>2, <1>8 DEF vars
<1> QED
  BY <1>3, <1>4, <1>5, <1>6, <1>7, <1>8 DEF Next

\* CostOf is no more than Due: what Covered bounds, ExposureCovered bounds.
LEMMA CoveredCovers ==
  ASSUME TypeOK, Covered
  PROVE  ExposureCovered
<1>1. PICK e : e = engines
  OBVIOUS
<1>2. PICK X, D : /\ X = [s \in DOMAIN e |-> Exposure(s)]
                  /\ D = [s \in DOMAIN e |-> DueIn(e[s].book)]
  OBVIOUS
<1>3. ASSUME NEW s \in DOMAIN e
      PROVE  X[s] \in Int /\ D[s] \in Int /\ X[s] <= D[s]
  <2>1. PICK b : b = e[s].book
    OBVIOUS
  <2>2. IsBook(b, Ids)
    BY <1>1, <2>1, EnginesTyped, TypedIsBook
  <2>3. PICK C, B : C = [k \in DOMAIN b |-> CostOf(b[k])] /\ B = [k \in DOMAIN b |-> Due(b[k])]
    OBVIOUS
  <2>4. IsFiniteSet(DOMAIN b) /\ DueIn(b) = SumFunctionOnSet(B, DOMAIN b) /\ DueIn(b) \in Int
    BY <2>2, <2>3, DueInSum
  <2>5. \A k \in DOMAIN b : C[k] \in Int /\ B[k] \in Int /\ C[k] <= B[k]
    BY <2>2, <2>3, DueTyped DEF IsBook
  <2>6. Exposure(s) = SumFunctionOnSet(C, DOMAIN b)
    BY <1>1, <2>1, <2>3 DEF Exposure, SumFunction
  <2>7. SumFunctionOnSet(C, DOMAIN b) <= SumFunctionOnSet(B, DOMAIN b)
    BY <2>4, <2>5, SumOrdered
  <2>8. SumFunctionOnSet(C, DOMAIN b) \in Int
    BY <2>4, <2>5, SumType
  <2> QED
    BY <1>2, <2>1, <2>4, <2>6, <2>7, <2>8
<1>4. IsFiniteSet(DOMAIN e)
  BY <1>1 DEF Covered
<1>5. SumFunctionOnSet(X, DOMAIN e) <= SumFunctionOnSet(D, DOMAIN e)
  BY <1>3, <1>4, SumOrdered
<1>6. PICK x, d \in Int : x = SumFunctionOnSet(X, DOMAIN e) /\ d = SumFunctionOnSet(D, DOMAIN e)
  BY <1>3, <1>4, SumType
<1>7. SumFunction([s \in DOMAIN engines |-> Exposure(s)]) = x
  BY <1>1, <1>2, <1>6 DEF SumFunction
<1>8. DueInAll(engines) = d
  BY <1>1, <1>2, <1>6 DEF DueInAll, SumFunction
<1>9. PICK p, right \in Int : p = paid /\ right = BuyingPower - buyingPower + unchecked
  <2>1. Int64End \in Int /\ BuyingPower \in Int
    BY ProcessorConstants, RiskConstants
  <2> QED
    BY <2>1 DEF TypeOK
<1>10. p + d <= right
  BY <1>8, <1>9 DEF Covered
<1>11. p + x <= right
  BY <1>5, <1>6, <1>10
<1> QED
  BY <1>7, <1>9, <1>11 DEF ExposureCovered

\* Where no product overflows, whatever is traded was reserved: what was paid and what
\* resting BUY orders may still cost never exceeds what the account has reserved and what
\* modifications have added unchecked.  RiskChecker, reserve() and the engines together.
THEOREM PaymentsAreCovered ==
  ASSUME ProductsFit
  PROVE  Spec => []ExposureCovered
<1>1. Init => TypeOK /\ Covered
  <2> SUFFICES ASSUME Init PROVE TypeOK /\ Covered
    OBVIOUS
  <2>1. DOMAIN <<>> = {}
    OBVIOUS
  <2>2. TypeOK
    BY <2>1, ProcessorConstants, RiskConstants DEF Init, TypeOK
  <2>3. DueInAll(<<>>) = 0
    <3>1. [s \in DOMAIN <<>> |-> DueIn(<<>>[s].book)] = <<>>
      OBVIOUS
    <3> QED
      BY <2>1, <3>1, SumEmpty DEF DueInAll, SumFunction
  <2>4. BuyingPower \in Int
    BY ProcessorConstants, RiskConstants
  <2> QED
    BY <2>1, <2>2, <2>3, <2>4, FS_EmptySet DEF Init, Covered
<1>2. TypeOK /\ Covered /\ [Next]_vars => (TypeOK /\ Covered)'
  BY TypeStep, CoveredStep
<1>3. TypeOK /\ Covered => ExposureCovered
  BY CoveredCovers
<1> QED
  BY <1>1, <1>2, <1>3, PTL DEF Spec

-----------------------------------------------------------------------------
\* The book as BOOK shows it.

\* The orders of a side.
OfSide(b, side) == {k \in DOMAIN b : b[k].side = side}

LevelNumbers(L, f) == [i \in DOMAIN L |-> L[i][f]]

\* L lists the n levels of a side: the prices of its orders, each once, best first, and all
\* of its orders in their counts and totals.
ListsSide(L, n, b, side) ==
  /\ n \in Nat /\ DOMAIN L = 1 .. n /\ L = [i \in 1 .. n |-> L[i]]
  /\ \A i \in 1 .. n : /\ L[i].count \in Int /\ L[i].total \in Int
                       /\ \E k \in OfSide(b, side) : L[i].price = b[k].price
  /\ \A i, j \in 1 .. n : i < j => LevelAhead(side, L[i].price, L[j].price)
  /\ SumFunctionOnSet(LevelNumbers(L, "count"), 1 .. n) = Cardinality(OfSide(b, side))
  /\ SumFunctionOnSet(LevelNumbers(L, "total"), 1 .. n)
       = SumFunctionOnSet([k \in DOMAIN b |-> b[k].remaining], OfSide(b, side))

LEMMA LevelsListSide ==
  ASSUME NEW b, IsBook(b, Ids), \A k \in DOMAIN b : b[k].price \in Prices,
         NEW side, NEW L, L = Levels(b, side)
  PROVE  \E n : ListsSide(L, n, b, side)
<1> DEFINE At(p) == {k \in DOMAIN b : b[k].side = side /\ b[k].price = p}
           P == {p \in Prices : At(p) # {}}
           Q == {e \in P \X P : LevelAhead(side, e[1], e[2])}
           n == Cardinality(P)
           mine == OfSide(b, side)
<1>1. PICK f, R, ones : /\ f = [k \in mine |-> b[k].price]
                        /\ R = [k \in DOMAIN b |-> b[k].remaining]
                        /\ ones = [k \in mine |-> 1]
  OBVIOUS
<1>2. /\ mine \in SUBSET DOMAIN b /\ IsFiniteSet(mine)
      /\ \A k \in mine : f[k] = b[k].price /\ f[k] \in P /\ ones[k] = 1
      /\ \A k \in DOMAIN b : R[k] = b[k].remaining /\ R[k] \in Int
  <2>1. mine \in SUBSET DOMAIN b
    BY DEF OfSide
  <2>2. IsFiniteSet(mine)
    BY <2>1, FS_Subset DEF IsBook
  <2>3. \A k \in mine : f[k] = b[k].price /\ f[k] \in P /\ ones[k] = 1
    BY <1>1, <2>1 DEF OfSide
  <2>4. \A k \in DOMAIN b : R[k] = b[k].remaining /\ R[k] \in Int
    BY <1>1 DEF IsBook, OrderWith
  <2> QED
    BY <2>1, <2>2, <2>3, <2>4
<1>3. ASSUME NEW p \in P PROVE p \in Int /\ At(p) = {k \in mine : f[k] = p}
  <2>1. p \in Int
    BY ProcessorConstants, RiskConstants
  <2>2. At(p) = {k \in mine : f[k] = p}
    BY <1>2 DEF OfSide
  <2> QED
    BY <2>1, <2>2
<1>4. IsFiniteSet(P)
  <2>1. \A p \in P : \E k \in mine : f[k] = p
    BY <1>3
  <2>2. f \in [mine -> P]
    BY <1>1, <1>2
  <2>3. f \in Surjection(mine, P)
    <3> HIDE DEF P, mine
    <3> QED
      BY <2>1, <2>2 DEF Surjection
  <2> HIDE DEF P, mine
  <2> QED
    BY <1>2, <2>3, FS_Surjection
<1>5. OrderedBy(P, Q) /\ \A x, y \in P : <<x, y>> \in Q <=> LevelAhead(side, x, y)
  <2>1. \A x, y \in P : <<x, y>> \in Q <=> LevelAhead(side, x, y)
    OBVIOUS
  <2>2. \A x, y, z \in Int : /\ ~LevelAhead(side, x, x)
                             /\ LevelAhead(side, x, y) /\ LevelAhead(side, y, z)
                                  => LevelAhead(side, x, z)
                             /\ x = y \/ LevelAhead(side, x, y) \/ LevelAhead(side, y, x)
    BY DEF LevelAhead
  <2>3. \A x \in P : x \in Int
    BY <1>3
  <2> HIDE DEF P, Q
  <2>4. \A x \in P : <<x, x>> \notin Q
    BY <2>1, <2>2, <2>3, Zenon
  <2>5. ASSUME NEW x \in P, NEW y \in P, NEW z \in P, <<x, y>> \in Q, <<y, z>> \in Q
        PROVE  <<x, z>> \in Q
    BY <2>1, <2>2, <2>3, <2>5, Zenon
  <2>6. ASSUME NEW x \in P, NEW y \in P PROVE x = y \/ <<x, y>> \in Q \/ <<y, x>> \in Q
    BY <2>1, <2>2, <2>3, Zenon
  <2> QED
    BY <2>1, <2>4, <2>5, <2>6 DEF OrderedBy
<1>6. PICK q : q = InOrder(P, Q)
  OBVIOUS
<1>7. /\ n \in Nat /\ q \in Bijection(1 .. n, P)
      /\ \A i, j \in 1 .. n : i < j => <<q[i], q[j]>> \in Q
  <2> HIDE DEF P, Q
  <2> QED
    BY <1>4, <1>5, <1>6, RankedNumbers
<1>8. Ranked(P, LAMBDA x, y : LevelAhead(side, x, y)) = q
  <2> HIDE DEF P, Q
  <2>1. ASSUME NEW p \in P
        PROVE  Cardinality({x \in P : LevelAhead(side, x, p)}) = Rank(P, Q, p)
    <3>1. {x \in P : LevelAhead(side, x, p)} = {x \in P : <<x, p>> \in Q}
      BY <1>5
    <3> QED
      BY <3>1 DEF Rank
  <2>2. ASSUME NEW i
        PROVE  (CHOOSE p \in P : Cardinality({x \in P : LevelAhead(side, x, p)}) = i - 1)
                 = (CHOOSE p \in P : Rank(P, Q, p) = i - 1)
    BY <2>1
  <2>3. Ranked(P, LAMBDA x, y : LevelAhead(side, x, y))
          = [i \in 1 .. Cardinality(P) |->
               CHOOSE p \in P : Cardinality({x \in P : LevelAhead(side, x, p)}) = i - 1]
    BY DEF Ranked
  <2> QED
    BY <1>6, <2>2, <2>3 DEF InOrder
<1>9. L = [i \in DOMAIN q |->
             [price |-> q[i],
              total |-> SumFunction([k \in At(q[i]) |-> b[k].remaining]),
              count |-> Cardinality(At(q[i]))]]
  BY <1>8, Zenon DEF Levels
<1>10. DOMAIN q = 1 .. n /\ \A i \in 1 .. n : q[i] \in P
  <2> HIDE DEF P
  <2> QED
    BY <1>7 DEF Bijection, Injection
<1>11. PICK C, T, Orders :
         /\ C = [p \in P |-> Cardinality(At(p))]
         /\ T = [p \in P |-> SumFunction([k \in At(p) |-> b[k].remaining])]
         /\ Orders = [p \in P |-> At(p)]
  OBVIOUS
<1>12. ASSUME NEW p \in P
       PROVE  /\ Orders[p] \in SUBSET mine
              /\ \A k \in mine : k \in Orders[p] <=> f[k] = p
              /\ C[p] = SumFunctionOnSet(ones, Orders[p])
              /\ T[p] = SumFunctionOnSet(R, Orders[p])
              /\ C[p] \in Int /\ T[p] \in Int
  <2>1. PICK A : A = At(p)
    OBVIOUS
  <2>2. /\ A = Orders[p] /\ A \in SUBSET DOMAIN b /\ A \in SUBSET mine
        /\ \A k \in mine : k \in A <=> f[k] = p
    BY <1>2, <1>11, <2>1 DEF OfSide
  <2>3. IsFiniteSet(A)
    BY <1>2, <2>2, FS_Subset
  <2>4. SumFunctionOnSet(ones, A) = Cardinality(A)
    BY <1>2, <2>2, <2>3, SumOnes
  <2>5. PICK r : r = [k \in A |-> b[k].remaining]
    OBVIOUS
  <2>6. \A k \in A : R[k] \in Int /\ r[k] = R[k]
    BY <1>2, <2>2, <2>5
  <2>7. SumFunctionOnSet(r, A) = SumFunctionOnSet(R, A) /\ SumFunctionOnSet(R, A) \in Int
    BY <2>3, <2>6, SumEqual, SumType
  <2>8. SumFunction(r) = SumFunctionOnSet(r, A)
    BY <2>5 DEF SumFunction
  <2>9. C[p] = Cardinality(A) /\ T[p] = SumFunction(r)
    BY <1>11, <2>1, <2>5
  <2>10. Cardinality(A) \in Int
    BY <2>3, FS_CardinalityType
  <2> QED
    BY <2>2, <2>4, <2>7, <2>8, <2>9, <2>10
<1> HIDE DEF P, At
<1>13. SumFunctionOnSet(C, P) = Cardinality(mine) /\ SumFunctionOnSet(T, P) = SumFunctionOnSet(R, mine)
  <2>1. /\ \A k \in mine : f[k] \in P
        /\ \A k \in mine : ones[k] = 1
        /\ \A k \in mine : ones[k] \in Int
        /\ \A k \in mine : R[k] \in Int
    BY <1>2
  <2>2. \A p \in P : Orders[p] \in SUBSET mine
    BY <1>12
  <2>3. \A p \in P : \A k \in mine : k \in Orders[p] <=> f[k] = p
    BY <1>12
  <2>4. \A p \in P : C[p] = SumFunctionOnSet(ones, Orders[p])
    BY <1>12
  <2>5. \A p \in P : T[p] = SumFunctionOnSet(R, Orders[p])
    BY <1>12
  <2>6. IsFiniteSet(mine)
    BY <1>2
  <2> HIDE DEF mine
  <2>7. SumFunctionOnSet(C, P) = SumFunctionOnSet(ones, mine)
    BY <1>4, <2>1, <2>2, <2>3, <2>4, <2>6, SumGroups
  <2>8. SumFunctionOnSet(T, P) = SumFunctionOnSet(R, mine)
    BY <1>4, <2>1, <2>2, <2>3, <2>5, <2>6, SumGroups
  <2>9. SumFunctionOnSet(ones, mine) = Cardinality(mine)
    BY <2>1, <2>6, SumOnes
  <2> QED
    BY <2>7, <2>8, <2>9
<1>15. /\ DOMAIN L = 1 .. n /\ L = [i \in 1 .. n |-> L[i]]
       /\ \A i \in 1 .. n : L[i].price = q[i] /\ L[i].count = C[q[i]] /\ L[i].total = T[q[i]]
  BY <1>9, <1>10, <1>11
<1>16. PICK CL, TL : CL = LevelNumbers(L, "count") /\ TL = LevelNumbers(L, "total")
  OBVIOUS
<1>17. \A i \in 1 .. n : CL[i] = C[q[i]] /\ TL[i] = T[q[i]]
  BY <1>15, <1>16 DEF LevelNumbers
<1>18. IsFiniteSet(1 .. n)
  BY <1>7, FS_Interval
<1> HIDE DEF n
<1>19. /\ SumFunctionOnSet(CL, 1 .. n) = SumFunctionOnSet(C, P)
       /\ SumFunctionOnSet(TL, 1 .. n) = SumFunctionOnSet(T, P)
  <2>1. PICK N : N = 1 .. n
    OBVIOUS
  <2>2. IsFiniteSet(N) /\ q \in Bijection(N, P)
    BY <1>7, <1>18, <2>1, Zenon
  <2>3. /\ \A p \in P : C[p] \in Int
        /\ \A p \in P : T[p] \in Int
    BY <1>12
  <2>4. /\ \A i \in N : CL[i] = C[q[i]]
        /\ \A i \in N : TL[i] = T[q[i]]
    BY <1>17, <2>1, Zenon
  <2>5. SumFunctionOnSet(CL, N) = SumFunctionOnSet(C, P)
    BY <2>2, <2>3, <2>4, SumReindex
  <2>6. SumFunctionOnSet(TL, N) = SumFunctionOnSet(T, P)
    BY <2>2, <2>3, <2>4, SumReindex
  <2> QED
    BY <2>1, <2>5, <2>6, Zenon
<1>20. \A i \in 1 .. n : L[i].count \in Int /\ L[i].total \in Int
  BY <1>10, <1>12, <1>15
<1>21. \A i \in 1 .. n : \E k \in mine : L[i].price = b[k].price
  <2> SUFFICES ASSUME NEW i \in 1 .. n PROVE \E k \in mine : L[i].price = b[k].price
    OBVIOUS
  <2>1. PICK k \in DOMAIN b : b[k].side = side /\ b[k].price = q[i]
    BY <1>10 DEF P, At
  <2> QED
    BY <1>15, <2>1 DEF OfSide
<1>22. \A i, j \in 1 .. n : i < j => LevelAhead(side, L[i].price, L[j].price)
  <2> SUFFICES ASSUME NEW i \in 1 .. n, NEW j \in 1 .. n, i < j
               PROVE  LevelAhead(side, L[i].price, L[j].price)
    OBVIOUS
  <2>1. q[i] \in P /\ q[j] \in P /\ <<q[i], q[j]>> \in Q
    BY <1>7, <1>10
  <2> HIDE DEF Q
  <2>2. LevelAhead(side, q[i], q[j])
    BY <1>5, <2>1, Zenon
  <2>3. L[i].price = q[i] /\ L[j].price = q[j]
    BY <1>15
  <2> QED
    BY <2>2, <2>3, Zenon
<1> HIDE DEF mine
<1>23. ListsSide(L, n, b, side)
  BY <1>1, <1>7, <1>13, <1>15, <1>16, <1>19, <1>20, <1>21, <1>22, Zenon DEF ListsSide, mine
<1> QED
  BY <1>23

\* A list of n levels is a sequence.
LEMMA LevelsAreSequence ==
  ASSUME NEW L, NEW n, NEW b, NEW side, ListsSide(L, n, b, side),
         NEW X, \A i \in 1 .. n : L[i] \in X
  PROVE  L \in Seq(X) /\ Len(L) = n
<1>1. n \in Nat /\ DOMAIN L = 1 .. n /\ L = [i \in 1 .. n |-> L[i]]
  BY DEF ListsSide
<1>2. L \in [1 .. n -> X]
  BY <1>1
<1>3. L \in Seq(X)
  BY <1>1, <1>2
<1>4. Len(L) \in Nat /\ 1 .. Len(L) = 1 .. n
  BY <1>1, <1>3, LenProperties
<1> QED
  BY <1>1, <1>3, <1>4

\* The numbers of two lists, one after the other.
LEMMA NumbersAdd ==
  ASSUME NEW bids, NEW m \in Nat, NEW asks, NEW n \in Nat, NEW X, bids \in Seq(X), asks \in Seq(X),
         Len(bids) = m, Len(asks) = n, NEW f,
         \A i \in 1 .. m : bids[i][f] \in Int, \A i \in 1 .. n : asks[i][f] \in Int
  PROVE  SumFunction(LevelNumbers(bids \o asks, f))
           = SumFunctionOnSet(LevelNumbers(bids, f), 1 .. m)
               + SumFunctionOnSet(LevelNumbers(asks, f), 1 .. n)
<1>1. PICK both : both = bids \o asks
  OBVIOUS
<1>2. /\ DOMAIN both = 1 .. m + n /\ DOMAIN bids = 1 .. m /\ DOMAIN asks = 1 .. n
      /\ \A i \in 1 .. m : both[i] = bids[i]
      /\ \A i \in 1 .. n : both[m + i] = asks[i]
  <2>1. both \in Seq(X) /\ Len(both) = m + n
    BY <1>1, ConcatProperties
  <2>2. DOMAIN both = 1 .. m + n /\ DOMAIN bids = 1 .. m /\ DOMAIN asks = 1 .. n
    BY <2>1, LenProperties
  <2>3. \A i \in 1 .. m + n : both[i] = IF i <= m THEN bids[i] ELSE asks[i - m]
    BY <1>1, ConcatProperties
  <2>4. \A i \in 1 .. m : i \in 1 .. m + n /\ i <= m
    OBVIOUS
  <2>5. \A i \in 1 .. n : m + i \in 1 .. m + n /\ ~(m + i <= m) /\ m + i - m = i
    OBVIOUS
  <2>6. \A i \in 1 .. m : both[i] = bids[i]
    BY <2>3, <2>4
  <2>7. \A i \in 1 .. n : both[m + i] = asks[i]
    BY <2>3, <2>5
  <2> QED
    BY <2>2, <2>6, <2>7
<1>3. PICK F, G, H : /\ F = LevelNumbers(bids, f) /\ G = LevelNumbers(asks, f)
                     /\ H = LevelNumbers(both, f)
  OBVIOUS
<1>4. /\ \A i \in 1 .. m : F[i] \in Int /\ H[i] = F[i]
      /\ \A i \in 1 .. n : G[i] \in Int /\ H[m + i] = G[i]
      /\ DOMAIN H = 1 .. m + n
  <2>1. /\ \A i \in 1 .. m : F[i] = bids[i][f]
        /\ \A i \in 1 .. n : G[i] = asks[i][f]
        /\ \A i \in 1 .. m + n : H[i] = both[i][f]
        /\ DOMAIN H = 1 .. m + n
    BY <1>2, <1>3 DEF LevelNumbers
  <2>2. \A i \in 1 .. m : i \in 1 .. m + n
    OBVIOUS
  <2>3. \A i \in 1 .. n : m + i \in 1 .. m + n
    OBVIOUS
  <2>4. ASSUME NEW i \in 1 .. m PROVE F[i] \in Int /\ H[i] = F[i]
    <3>1. F[i] = bids[i][f] /\ H[i] = both[i][f] /\ both[i] = bids[i]
      BY <1>2, <2>1, <2>2, Zenon
    <3>2. bids[i][f] \in Int
      OBVIOUS
    <3> QED
      BY <3>1, <3>2, Zenon
  <2>5. ASSUME NEW i \in 1 .. n PROVE G[i] \in Int /\ H[m + i] = G[i]
    <3>1. G[i] = asks[i][f] /\ H[m + i] = both[m + i][f] /\ both[m + i] = asks[i]
      BY <1>2, <2>1, <2>3, Zenon
    <3>2. asks[i][f] \in Int
      OBVIOUS
    <3> QED
      BY <3>1, <3>2, Zenon
  <2> QED
    BY <2>1, <2>4, <2>5
<1>5. SumFunctionOnSet(H, 1 .. m + n) = SumFunctionOnSet(F, 1 .. m) + SumFunctionOnSet(G, 1 .. n)
  BY <1>4, SumConcat
<1>6. SumFunction(H) = SumFunctionOnSet(H, 1 .. m + n)
  BY <1>4, Zenon DEF SumFunction
<1> QED
  BY <1>1, <1>3, <1>5, <1>6, Zenon

\* What a reply to BOOK has to be.
Shows(bids, asks, b) ==
  /\ \A i, j \in DOMAIN bids : i < j => bids[i].price > bids[j].price
  /\ \A i, j \in DOMAIN asks : i < j => asks[i].price < asks[j].price
  /\ bids # <<>> /\ asks # <<>> => bids[1].price < asks[1].price
  /\ SumFunction(LevelNumbers(bids \o asks, "count")) = Cardinality(DOMAIN b)
  /\ SumFunction(LevelNumbers(bids \o asks, "total"))
       = SumFunction([k \in DOMAIN b |-> b[k].remaining])

\* The levels of an uncrossed book are what a reply has to be.
LEMMA LevelsShow ==
  ASSUME NEW b, IsBook(b, Ids), \A k \in DOMAIN b : b[k].price \in Prices, NotCrossed(b),
         NEW bids, bids = Levels(b, "Buy"), NEW asks, asks = Levels(b, "Sell")
  PROVE  Shows(bids, asks, b)
<1>1. PICK m : ListsSide(bids, m, b, "Buy")
  BY LevelsListSide
<1>2. PICK n : ListsSide(asks, n, b, "Sell")
  BY LevelsListSide
<1>3. /\ m \in Nat /\ n \in Nat /\ DOMAIN bids = 1 .. m /\ DOMAIN asks = 1 .. n
      /\ \A i \in 1 .. m : bids[i].count \in Int /\ bids[i].total \in Int
      /\ \A i \in 1 .. n : asks[i].count \in Int /\ asks[i].total \in Int
  BY <1>1, <1>2 DEF ListsSide
<1>4. PICK X : (\A i \in 1 .. m : bids[i] \in X) /\ (\A i \in 1 .. n : asks[i] \in X)
  <2>1. \A i \in 1 .. m : bids[i] \in {bids[j] : j \in 1 .. m} \cup {asks[j] : j \in 1 .. n}
    OBVIOUS
  <2>2. \A i \in 1 .. n : asks[i] \in {bids[j] : j \in 1 .. m} \cup {asks[j] : j \in 1 .. n}
    OBVIOUS
  <2> QED
    BY <2>1, <2>2
<1>5. bids \in Seq(X) /\ Len(bids) = m /\ asks \in Seq(X) /\ Len(asks) = n
  BY <1>1, <1>2, <1>4, LevelsAreSequence
<1>6. PICK buys, sells, R : /\ buys = OfSide(b, "Buy") /\ sells = OfSide(b, "Sell")
                            /\ R = [k \in DOMAIN b |-> b[k].remaining]
  OBVIOUS
<1>7. /\ buys \cup sells = DOMAIN b /\ buys \cap sells = {}
      /\ IsFiniteSet(buys) /\ IsFiniteSet(sells) /\ \A k \in buys \cup sells : R[k] \in Int
  <2>1. buys \cup sells = DOMAIN b /\ buys \cap sells = {}
    BY <1>6 DEF OfSide, IsBook, OrderWith
  <2>2. IsFiniteSet(buys) /\ IsFiniteSet(sells)
    BY <2>1, FS_Subset DEF IsBook
  <2>3. \A k \in DOMAIN b : R[k] \in Int
    BY <1>6 DEF IsBook, OrderWith
  <2> QED
    BY <2>1, <2>2, <2>3
<1>8. \A i, j \in DOMAIN bids : i < j => bids[i].price > bids[j].price
  BY <1>1, <1>3 DEF ListsSide, LevelAhead
<1>9. \A i, j \in DOMAIN asks : i < j => asks[i].price < asks[j].price
  BY <1>2, <1>3 DEF ListsSide, LevelAhead
<1>10. ASSUME bids # <<>>, asks # <<>> PROVE bids[1].price < asks[1].price
  <2>1. 1 \in 1 .. m /\ 1 \in 1 .. n
    BY <1>5, <1>10, <1>3, EmptySeq
  <2>2. PICK j \in OfSide(b, "Buy") : bids[1].price = b[j].price
    BY <1>1, <2>1 DEF ListsSide
  <2>3. PICK k \in OfSide(b, "Sell") : asks[1].price = b[k].price
    BY <1>2, <2>1 DEF ListsSide
  <2>4. b[j].price < b[k].price
    BY NotCrossed(b) DEF OfSide, NotCrossed
  <2> QED
    BY <2>2, <2>3, <2>4
<1>11. SumFunction(LevelNumbers(bids \o asks, "count")) = Cardinality(DOMAIN b)
  <2>1. SumFunction(LevelNumbers(bids \o asks, "count"))
          = SumFunctionOnSet(LevelNumbers(bids, "count"), 1 .. m)
              + SumFunctionOnSet(LevelNumbers(asks, "count"), 1 .. n)
    BY <1>3, <1>5, NumbersAdd
  <2>2. /\ SumFunctionOnSet(LevelNumbers(bids, "count"), 1 .. m) = Cardinality(buys)
        /\ SumFunctionOnSet(LevelNumbers(asks, "count"), 1 .. n) = Cardinality(sells)
    BY <1>1, <1>2, <1>6 DEF ListsSide
  <2>3. Cardinality(buys \cup sells) = Cardinality(buys) + Cardinality(sells)
    <3>1. Cardinality(buys \cap sells) = 0
      BY <1>7, FS_EmptySet
    <3>2. Cardinality(buys) \in Int /\ Cardinality(sells) \in Int
      BY <1>7, FS_CardinalityType
    <3>3. Cardinality(buys \cup sells)
            = Cardinality(buys) + Cardinality(sells) - Cardinality(buys \cap sells)
      BY <1>7, FS_Union, Zenon
    <3> QED
      BY <3>1, <3>2, <3>3
  <2> QED
    BY <1>7, <2>1, <2>2, <2>3, Zenon
<1>12. SumFunction(LevelNumbers(bids \o asks, "total")) = SumFunction(R)
  <2>1. SumFunction(LevelNumbers(bids \o asks, "total"))
          = SumFunctionOnSet(LevelNumbers(bids, "total"), 1 .. m)
              + SumFunctionOnSet(LevelNumbers(asks, "total"), 1 .. n)
    BY <1>3, <1>5, NumbersAdd
  <2>2. /\ SumFunctionOnSet(LevelNumbers(bids, "total"), 1 .. m) = SumFunctionOnSet(R, buys)
        /\ SumFunctionOnSet(LevelNumbers(asks, "total"), 1 .. n) = SumFunctionOnSet(R, sells)
    BY <1>1, <1>2, <1>6 DEF ListsSide
  <2>3. SumFunctionOnSet(R, buys \cup sells) = SumFunctionOnSet(R, buys) + SumFunctionOnSet(R, sells)
    BY <1>7, SumUnion
  <2>4. SumFunction(R) = SumFunctionOnSet(R, DOMAIN b)
    BY <1>6 DEF SumFunction
  <2> QED
    BY <1>7, <2>1, <2>2, <2>3, <2>4, Zenon
<1> QED
  BY <1>6, <1>8, <1>9, <1>10, <1>11, <1>12 DEF Shows

\* No book is crossed, and a reply to BOOK lists the levels of the book as it still is:
\* every step that changes an engine replies with something else.
BooksShown ==
  /\ \A s \in DOMAIN engines : NotCrossed(engines[s].book)
  /\ reply.kind = "book" => /\ reply.bids = Levels(EngineFor(reply.symbol).book, "Buy")
                            /\ reply.asks = Levels(EngineFor(reply.symbol).book, "Sell")

LEMMA PutShown ==
  ASSUME BooksShown, NEW s, NEW b, NEW t, Put(engines, engines', s, b, t), NotCrossed(b),
         reply'.kind # "book"
  PROVE  BooksShown'
<1>1. ASSUME NEW r \in DOMAIN engines' PROVE NotCrossed(engines'[r].book)
  <2>1. CASE r = s
    BY <2>1 DEF Put
  <2>2. CASE r # s
    <3>1. r \in DOMAIN engines /\ engines'[r] = engines[r]
      BY <2>2 DEF Put
    <3> QED
      BY <3>1 DEF BooksShown
  <2> QED
    BY <2>1, <2>2
<1> QED
  BY <1>1 DEF BooksShown

LEMMA ShownStep ==
  ASSUME TypeOK, BooksShown, [Next]_vars
  PROVE  BooksShown'
<1>1. ASSUME engines' = engines, reply'.kind # "book" PROVE BooksShown'
  BY <1>1 DEF BooksShown
<1>2. ASSUME NEW order \in Order, NEW s \in Symbols, AcceptOrder(s, order) PROVE BooksShown'
  <2>1. PICK b, t, out :
            /\ b = EngineFor(s).book /\ EngineTyped(b, t) /\ out = Outcome(b, t, order)
            /\ EngineTyped(out.book, out.turn)
            /\ Put(engines, engines', s, out.book, out.turn)
            /\ Value(out.report) \in Int /\ paid' = paid + Value(out.report)
    BY <1>2, AcceptIs
  <2>2. IsBook(b, Ids) /\ t \in Int /\ t \notin DOMAIN b /\ order \in OrderWith(Ids)
    BY <2>1, TypedIsBook, OrdersTyped
  <2>3. NotCrossed(b)
    BY <2>1 DEF BooksShown, EngineFor, NewEngine, NotCrossed
  <2>4. NotCrossed(out.book)
    BY <2>1, <2>2, <2>3, OutcomeNotCrossed
  <2>5. reply'.kind # "book"
    BY <1>2 DEF AcceptOrder, Reply
  <2> QED
    BY <2>1, <2>4, <2>5, PutShown
<1>3. ASSUME NEW id \in Ids, CancelOrder(id) PROVE BooksShown'
  <2>1. reply'.kind # "book"
    BY <1>3 DEF CancelOrder, Reply
  <2>2. ASSUME NEW s \in Holding(id), NEW k \in TurnsOf(s, id),
               engines' = [engines EXCEPT ![s].book = Without(@, k)]
        PROVE  BooksShown'
    <3>1. s \in DOMAIN engines /\ k \in DOMAIN engines[s].book
      BY <2>2 DEF Holding, TurnsOf
    <3>2. PICK b, t : /\ b = Without(engines[s].book, k) /\ EngineTyped(b, t)
                      /\ Put(engines, engines', s, b, t)
      BY <2>2, <3>1, CancelIs
    <3>3. NotCrossed(b)
      BY <3>1, <3>2 DEF BooksShown, Without, NotCrossed
    <3> QED
      BY <2>1, <3>2, <3>3, PutShown
  <2> QED
    BY <1>1, <1>3, <2>1, <2>2 DEF CancelOrder
<1>4. ASSUME NEW id \in Ids, NEW price \in Prices, NEW quantity \in Quantities,
             ModifyOrder(id, price, quantity)
      PROVE  BooksShown'
  <2>1. reply'.kind # "book"
    <3>1. \E kind \in {"ack", "reject"} : \E trades : reply' = Reply("modify", kind, id, trades)
      BY <1>4, Zenon DEF ModifyOrder
    <3> QED
      BY <3>1 DEF Reply
  <2>2. ASSUME NEW s \in Holding(id), NEW k \in TurnsOf(s, id), NEW out,
               out = AmendOutcome(engines[s].book, engines[s].turn, k, price, quantity),
               engines' = WithOutcome(s, out)
        PROVE  BooksShown'
    <3>1. PICK b, t : b = engines[s].book /\ t = engines[s].turn
      OBVIOUS
    <3>2. s \in DOMAIN engines /\ k \in DOMAIN b
      BY <2>2, <3>1 DEF Holding, TurnsOf
    <3>3. IsBook(b, Ids) /\ t \in Int /\ t \notin DOMAIN b /\ NotCrossed(b)
      BY <3>1, <3>2, EnginesTyped, TypedIsBook DEF BooksShown
    <3>4. Amended(b[k], price, quantity) \in OrderWith(Ids)
      BY <3>1, <3>2, <3>3, EnginesTyped, TypedIsBook, AmendedTyped, OrdersTyped DEF IsBook
    <3>5. PICK after : after = out.book
      OBVIOUS
    <3>6. after = AmendOutcome(b, t, k, price, quantity).book
      BY <2>2, <3>1, <3>5
    <3>7. NotCrossed(after)
      BY <3>2, <3>3, <3>4, <3>6, AmendNotCrossed
    <3>8. Put(engines, engines', s, out.book, out.turn)
      BY <2>2, PutOutcome
    <3> QED
      BY <2>1, <3>5, <3>7, <3>8, PutShown
  <2> QED
    BY <1>1, <1>4, <2>1, <2>2 DEF ModifyOrder
<1>5. ASSUME NEW order \in Order, RefuseOrder(order) PROVE BooksShown'
  BY <1>1, <1>5 DEF RefuseOrder, Reply
<1>6. ASSUME NEW s \in Symbols, QueryBook(s) PROVE BooksShown'
  BY <1>6 DEF QueryBook, BooksShown, EngineFor
<1>7. CASE UNCHANGED vars
  BY <1>7 DEF vars, BooksShown, EngineFor
<1> QED
  BY <1>2, <1>3, <1>4, <1>5, <1>6, <1>7 DEF Next

\* queryBook() shows the whole book of the symbol, best prices first and not crossed, for
\* any prices, quantities and number of symbols: nothing that a sweep, a cancel or a
\* modification does to an engine can break the order of the levels or their totals.
THEOREM BookRepliesAreSound == Spec => []BookReplySound
<1>1. Init => BooksShown
  <2>1. DOMAIN <<>> = {}
    OBVIOUS
  <2> QED
    BY <2>1 DEF Init, BooksShown
<1>2. TypeOK /\ BooksShown /\ [Next]_vars => BooksShown'
  BY ShownStep
<1>3. TypeOK /\ BooksShown => BookReplySound
  <2> SUFFICES ASSUME TypeOK, BooksShown, reply.kind = "book" PROVE BookReplySound
    BY DEF BookReplySound
  <2>1. PICK b, bids, asks : /\ b = EngineFor(reply.symbol).book
                             /\ bids = reply.bids /\ asks = reply.asks
    OBVIOUS
  <2>2. IsBook(b, Ids) /\ \A k \in DOMAIN b : b[k].price \in Prices
    BY <2>1, EnginesTyped, TypedIsBook
  <2>3. NotCrossed(b)
    BY <2>1 DEF BooksShown, EngineFor, NewEngine, NotCrossed
  <2>4. bids = Levels(b, "Buy") /\ asks = Levels(b, "Sell")
    BY <2>1 DEF BooksShown
  <2>5. Shows(bids, asks, b)
    BY <2>2, <2>3, <2>4, LevelsShow
  <2> QED
    BY <2>1, <2>5, Zenon DEF Shows, BookReplySound, LevelNumbers
<1> QED
  BY <1>1, <1>2, <1>3, ProcessorTyped, PTL DEF Spec

-----------------------------------------------------------------------------
\* What can become of the account.

\* After any requests, so also when earlier ones have raised the buying power or made it
\* negative, and for any width of the integers and any price and quantity that a message
\* can hold, negative ones included: an order that is accepted, no BUY of a negative
\* quantity and without an overflow takes its exact cost from the account, or nothing.
THEOREM SoundOrdersTakeTheirCost == Spec => []SoundOrdersOnlyTake
<1>1. ASSUME TypeOK, NEW order \in AnyOrder, Accepted(order), Sound(order),
             order.side = "Buy"
      PROVE  \E c \in Nat : /\ c = order.price * order.remaining
                            /\ c <= buyingPower
                            /\ Reserved(order) = buyingPower - c
  <2>1. PICK p, r, power \in Int, n \in Nat \ {0} :
          /\ p = order.price /\ r = order.remaining /\ power = buyingPower /\ n = Int64End
          /\ power < n
    BY <1>1, RiskConstants DEF AnyOrder, Int64s, TypeOK
  <2>2. p > 0 /\ r >= 0 /\ p * r < n
    BY <1>1, <2>1 DEF Accepted, Sound
  <2>3. PICK c \in Nat : c = p * r
    BY <2>2
  <2>4. c \in -Int64End .. Int64End - 1
    BY <2>1, <2>2, <2>3
  <2>5. Cost(order) = c
    BY <2>1, <2>3, <2>4, Int64Wraps DEF Cost
  <2>6. c <= power
    BY <1>1, <2>1, <2>5 DEF Accepted
  <2>7. power - c \in -Int64End .. Int64End - 1 /\ power - c \in Int
    BY <2>1, <2>3, <2>6
  <2>8. Int64(power - c) = power - c
    BY <2>7, Int64Wraps
  <2>9. Reserved(order) = power - c
    BY <1>1, <2>1, <2>5, <2>8 DEF Reserved
  <2> QED
    BY <2>1, <2>3, <2>6, <2>9
<1>2. TypeOK => SoundOrdersOnlyTake
  <2> SUFFICES ASSUME TypeOK, NEW order \in AnyOrder, Accepted(order), Sound(order),
                      NEW cost,
                      cost = IF order.side = "Buy" THEN order.price * order.remaining ELSE 0
               PROVE  /\ cost = 0 \/ cost \in 1 .. buyingPower
                      /\ Reserved(order) = buyingPower - cost
    BY DEF SoundOrdersOnlyTake
  <2>1. PICK power \in Int : power = buyingPower
    BY RiskConstants DEF TypeOK
  <2>2. CASE order.side = "Buy"
    <3>1. PICK c \in Nat : c = cost /\ c <= power /\ Reserved(order) = power - c
      BY <1>1, <2>1, <2>2
    <3> QED
      BY <2>1, <3>1
  <2>3. CASE order.side # "Buy"
    BY <2>1, <2>3 DEF Reserved
  <2> QED
    BY <2>2, <2>3
<1> QED
  BY <1>2, ProcessorTyped, PTL

-----------------------------------------------------------------------------
\* The ids of clients.

Distinct(b) == \A j, k \in DOMAIN b : b[j].id = b[k].id => j = k

\* Every order of a book is one of the book before, or turn t under the given id.
KeepsIds(before, after, t, id) ==
  \A k \in DOMAIN after : \/ k \in DOMAIN before /\ after[k].id = before[k].id
                          \/ k = t /\ after[k].id = id

LEMMA OutcomeIds ==
  ASSUME NEW b, NEW t, EngineTyped(b, t), Distinct(b), NEW order \in Order,
         \A k \in DOMAIN b : b[k].id # order.id,
         NEW after, after = Outcome(b, t, order).book
  PROVE  KeepsIds(b, after, t, order.id) /\ Distinct(after)
<1>1. IsBook(b, Ids) /\ t \in Int /\ t \notin DOMAIN b /\ order \in OrderWith(Ids)
  BY TypedIsBook, OrdersTyped
<1>2. IsSwept(b, t, order, after, Ids)
  BY <1>1, OutcomeBook
<1>3. KeepsIds(b, after, t, order.id)
  BY <1>2 DEF IsSwept, KeepsIds
<1>4. ASSUME NEW j \in DOMAIN after, NEW k \in DOMAIN after, after[j].id = after[k].id
      PROVE  j = k
  BY <1>3, <1>4 DEF KeepsIds, Distinct
<1> QED
  BY <1>3, <1>4 DEF Distinct

LEMMA AmendIds ==
  ASSUME NEW b, NEW t, EngineTyped(b, t), Distinct(b), NEW k \in DOMAIN b,
         NEW price \in Prices, NEW quantity \in Quantities,
         NEW after, after = AmendOutcome(b, t, k, price, quantity).book
  PROVE  /\ Distinct(after)
         /\ \A j \in DOMAIN after : \E i \in DOMAIN b : after[j].id = b[i].id
<1>1. CASE price = b[k].price /\ quantity <= b[k].remaining
  <2>1. after = [b EXCEPT ![k].remaining = quantity]
    BY <1>1 DEF AmendOutcome
  <2>2. ASSUME NEW j \in DOMAIN b PROVE after[j].id = b[j].id
    <3>1. CASE j # k
      BY <2>1, <3>1
    <3>2. CASE j = k
      <4>1. after[k] = [b[k] EXCEPT !.remaining = quantity] /\ b[k] \in OrderWith(Ids)
        BY <2>1, TypedIsBook DEF IsBook
      <4> QED
        BY <3>2, <4>1 DEF OrderWith
    <3> QED
      BY <3>1, <3>2
  <2>3. DOMAIN after = DOMAIN b
    BY <2>1
  <2> QED
    BY <2>2, <2>3 DEF Distinct
<1>2. CASE ~(price = b[k].price /\ quantity <= b[k].remaining)
  <2>1. PICK rest, new : rest = Without(b, k) /\ new = Amended(b[k], price, quantity)
    OBVIOUS
  <2>2. after = Outcome(rest, t, new).book
    BY <1>2, <2>1 DEF AmendOutcome
  <2>3. new \in Order /\ new.id = b[k].id
    BY <2>1, TypedIsBook, AmendedTyped DEF IsBook
  <2>4. DOMAIN rest = DOMAIN b \ {k} /\ \A j \in DOMAIN rest : rest[j] = b[j]
    BY <2>1 DEF Without
  <2>5. EngineTyped(rest, t) /\ Distinct(rest)
    BY <2>1, <2>4, AmendTyped DEF Distinct
  <2>6. \A j \in DOMAIN rest : rest[j].id # new.id
    BY <2>3, <2>4 DEF Distinct
  <2>7. KeepsIds(rest, after, t, new.id) /\ Distinct(after)
    BY <2>2, <2>3, <2>5, <2>6, OutcomeIds
  <2> QED
    BY <2>3, <2>4, <2>7 DEF KeepsIds
<1> QED
  BY <1>1, <1>2

\* The orders of a book differ in their ids, and each id has an owner.
Owned(b, owners) == Distinct(b) /\ \A k \in DOMAIN b : owners[b[k].id] # NONE

\* Ids that were accepted have been given out, each for one symbol at most.
OneEach ==
  /\ \A p \in Processes, s \in Symbols, id \in Ids : owner[s][id] = p => id < nextId[p]
  /\ \A s, t \in Symbols, id \in Ids : owner[s][id] # NONE /\ owner[t][id] # NONE => s = t
  /\ \A s \in DOMAIN engines : Owned(engines[s].book, owner[s])

LEMMA ClientStepIsStep == [ClientNext]_clientVars => [Next]_vars
  BY DEF ClientNext, clientVars, StartClient, EndClient, PlaceOrder, CancelOwn, ModifyOwn,
         ShowBook, Next

LEMMA ClientTypeStep == ClientTypeOK /\ [ClientNext]_clientVars => ClientTypeOK'
<1> SUFFICES ASSUME ClientTypeOK, [ClientNext]_clientVars PROVE ClientTypeOK'
  OBVIOUS
<1>1. TypeOK'
  BY ClientStepIsStep, TypeStep DEF ClientTypeOK
<1>2. ASSUME NEW p \in Processes, StartClient(p) \/ EndClient(p) PROVE ClientTypeOK'
  BY <1>1, <1>2 DEF StartClient, EndClient, ClientTypeOK
<1>3. ASSUME NEW p \in Processes, NEW s \in Symbols, NEW order \in Order,
             PlaceOrder(p, s, order)
      PROVE  ClientTypeOK'
  <2>1. nextId' \in [Processes -> Nat]
    BY <1>3 DEF PlaceOrder, TakeId, ClientTypeOK
  <2>2. owner' \in [Symbols -> [Ids -> Processes \cup {NONE}]]
    <3>1. order.id \in Ids
      BY DEF Order
    <3> QED
      BY <1>3, <3>1 DEF PlaceOrder, ClientTypeOK
  <2> QED
    BY <1>1, <1>3, <2>1, <2>2 DEF PlaceOrder, ClientTypeOK
<1>4. ASSUME NEW p \in Processes, asker' = p, UNCHANGED <<phase, nextId, owner>>
      PROVE  ClientTypeOK'
  BY <1>1, <1>4 DEF ClientTypeOK
<1>5. CASE UNCHANGED clientVars
  BY <1>1, <1>5 DEF clientVars, ClientTypeOK
<1> QED
  BY <1>2, <1>3, <1>4, <1>5 DEF ClientNext, CancelOwn, ModifyOwn, ShowBook

\* Any number of clients at any times leave the types as they are.
THEOREM ClientTyped == ClientSpec => []ClientTypeOK
<1>1. ClientInit => ClientTypeOK
  <2>1. DOMAIN <<>> = {}
    OBVIOUS
  <2>2. ClientInit => TypeOK
    BY <2>1, ProcessorConstants, RiskConstants DEF ClientInit, Init, TypeOK
  <2> QED
    BY <2>2 DEF ClientInit, ClientTypeOK
<1> QED
  BY <1>1, ClientTypeStep, PTL DEF ClientSpec

\* A new book at s, with the same owners or a new one.
LEMMA PutOwned ==
  ASSUME OneEach, NEW s, NEW b, NEW t, Put(engines, engines', s, b, t), Owned(b, owner'[s]),
         \A r \in DOMAIN engines, id \in Ids :
            r # s /\ owner[r][id] # NONE => owner'[r][id] # NONE,
         \A r \in DOMAIN engines : \A k \in DOMAIN engines[r].book : engines[r].book[k].id \in Ids
  PROVE  \A r \in DOMAIN engines' : Owned(engines'[r].book, owner'[r])
<1> SUFFICES ASSUME NEW r \in DOMAIN engines' PROVE Owned(engines'[r].book, owner'[r])
  OBVIOUS
<1>1. CASE r = s
  BY <1>1 DEF Put
<1>2. CASE r # s
  <2>1. r \in DOMAIN engines /\ engines'[r] = engines[r]
    BY <1>2 DEF Put
  <2> QED
    BY <1>2, <2>1 DEF OneEach, Owned
<1> QED
  BY <1>1, <1>2

LEMMA OneEachStep ==
  ASSUME \A p, q \in Processes : p = q, ClientTypeOK, OneEach, [ClientNext]_clientVars
  PROVE  OneEach'
<1>1. /\ TypeOK /\ DOMAIN engines \subseteq Symbols
      /\ \A s \in DOMAIN engines : EngineTyped(engines[s].book, engines[s].turn)
      /\ \A s \in DOMAIN engines : \A k \in DOMAIN engines[s].book :
            engines[s].book[k].id \in Ids
  BY EnginesTyped, TypedIsBook DEF ClientTypeOK, TypeOK
<1>2. ASSUME UNCHANGED <<engines, owner>>, NEW p \in Processes,
             nextId' = nextId \/ TakeId(p)
      PROVE  OneEach'
  <2>1. \A q \in Processes : nextId'[q] >= nextId[q] /\ nextId[q] \in Nat /\ nextId'[q] \in Nat
    BY <1>2 DEF TakeId, ClientTypeOK
  <2>2. \A q \in Processes, s \in Symbols, id \in Ids : owner'[s][id] = q => id < nextId'[q]
    BY <1>2, <2>1, ClientConstants DEF OneEach
  <2> QED
    BY <1>2, <2>2 DEF OneEach
<1>3. ASSUME NEW p \in Processes, NEW s \in Symbols, NEW order \in Order,
             PlaceOrder(p, s, order), AcceptOrder(s, order),
             owner' = [owner EXCEPT ![s][order.id] = p]
      PROVE  OneEach'
  <2>1. PICK given \in Ids : given = order.id /\ given = nextId[p] /\ given \in Nat
    BY <1>3, ClientConstants DEF PlaceOrder, Order
  <2>2. \A r \in Symbols, id \in Ids :
           owner'[r][id] = IF r = s /\ id = given THEN p ELSE owner[r][id]
    BY <1>3, <2>1 DEF ClientTypeOK
  <2>3. nextId' = [nextId EXCEPT ![p] = @ + 1] /\ nextId'[p] = given + 1
    BY <1>3, <2>1 DEF PlaceOrder, TakeId, ClientTypeOK
  <2>4. \A r \in Symbols : owner[r][given] = NONE
    <3>1. \A r \in Symbols : owner[r][given] = p => given < given
      BY <2>1 DEF OneEach
    <3> QED
      BY <2>1, <3>1 DEF ClientTypeOK
  <2>5. \A q \in Processes, r \in Symbols, id \in Ids : owner'[r][id] = q => id < nextId'[q]
    <3> SUFFICES ASSUME NEW q \in Processes, NEW r \in Symbols, NEW id \in Ids, owner'[r][id] = q
                 PROVE  id < nextId'[q]
      OBVIOUS
    <3>1. q = p /\ id \in Nat
      BY ClientConstants
    <3>2. CASE r = s /\ id = given
      BY <2>1, <2>3, <3>1, <3>2
    <3>3. CASE ~(r = s /\ id = given)
      <4>1. id < given
        BY <2>1, <2>2, <3>1, <3>3 DEF OneEach
      <4> QED
        BY <2>1, <2>3, <3>1, <4>1
    <3> QED
      BY <3>2, <3>3
  <2>6. \A q, r \in Symbols, id \in Ids :
           owner'[q][id] # NONE /\ owner'[r][id] # NONE => q = r
    <3> SUFFICES ASSUME NEW q \in Symbols, NEW r \in Symbols, NEW id \in Ids,
                        owner'[q][id] # NONE, owner'[r][id] # NONE
                 PROVE  q = r
      OBVIOUS
    <3>1. CASE id = given
      BY <2>2, <2>4, <3>1
    <3>2. CASE id # given
      BY <2>2, <3>2 DEF OneEach
    <3> QED
      BY <3>1, <3>2
  <2>7. PICK b, t, out :
            /\ b = EngineFor(s).book /\ EngineTyped(b, t) /\ out = Outcome(b, t, order)
            /\ EngineTyped(out.book, out.turn)
            /\ Put(engines, engines', s, out.book, out.turn)
    BY <1>1, <1>3, AcceptIs
  <2>8. Owned(b, owner[s])
    <3>1. CASE s \in DOMAIN engines
      BY <2>7, <3>1 DEF OneEach, EngineFor
    <3>2. CASE s \notin DOMAIN engines
      BY <2>7, <3>2 DEF EngineFor, NewEngine, Owned, Distinct
    <3> QED
      BY <3>1, <3>2
  <2>9. \A k \in DOMAIN b : b[k].id # given /\ b[k].id \in Ids
    BY <2>4, <2>7, <2>8, TypedIsBook DEF Owned
  <2>10. PICK after : after = out.book
    OBVIOUS
  <2>11. KeepsIds(b, after, t, given) /\ Distinct(after)
    BY <2>1, <2>7, <2>8, <2>9, <2>10, OutcomeIds DEF Owned
  <2>12. ASSUME NEW k \in DOMAIN after PROVE owner'[s][after[k].id] # NONE
    <3>1. CASE after[k].id = given
      BY <2>1, <2>2, <3>1, ClientConstants
    <3>2. CASE after[k].id # given
      <4>1. k \in DOMAIN b /\ after[k].id = b[k].id
        BY <2>11, <3>2 DEF KeepsIds
      <4> QED
        BY <2>2, <2>8, <2>9, <3>2, <4>1 DEF Owned
    <3> QED
      BY <3>1, <3>2
  <2>13. Owned(out.book, owner'[s])
    BY <2>10, <2>11, <2>12 DEF Owned
  <2>14. \A r \in DOMAIN engines, id \in Ids :
            r # s /\ owner[r][id] # NONE => owner'[r][id] # NONE
    BY <1>1, <2>2
  <2>15. \A r \in DOMAIN engines' : Owned(engines'[r].book, owner'[r])
    BY <1>1, <2>7, <2>13, <2>14, PutOwned
  <2> QED
    BY <2>5, <2>6, <2>15 DEF OneEach
<1>4. ASSUME NEW s \in DOMAIN engines, NEW b, NEW t, Put(engines, engines', s, b, t),
             Owned(b, owner[s]), UNCHANGED <<nextId, owner>>
      PROVE  OneEach'
  <2>1. \A r \in DOMAIN engines' : Owned(engines'[r].book, owner'[r])
    BY <1>1, <1>4, PutOwned
  <2> QED
    BY <1>4, <2>1 DEF OneEach
<1>5. ASSUME NEW p \in Processes, NEW id \in Ids, CancelOwn(p, id) PROVE OneEach'
  <2>1. CancelOrder(id) /\ UNCHANGED <<nextId, owner>>
    BY <1>5 DEF CancelOwn
  <2>2. ASSUME NEW s \in Holding(id), NEW k \in TurnsOf(s, id),
               engines' = [engines EXCEPT ![s].book = Without(@, k)]
        PROVE  OneEach'
    <3>1. s \in DOMAIN engines /\ k \in DOMAIN engines[s].book
      BY <2>2 DEF Holding, TurnsOf
    <3>2. PICK b, t : b = Without(engines[s].book, k) /\ Put(engines, engines', s, b, t)
      BY <1>1, <2>2, <3>1, CancelIs
    <3>3. Owned(b, owner[s])
      BY <3>1, <3>2 DEF OneEach, Owned, Distinct, Without
    <3> QED
      BY <1>4, <2>1, <3>1, <3>2, <3>3
  <2> QED
    BY <1>2, <2>1, <2>2 DEF CancelOrder
<1>6. ASSUME NEW p \in Processes, NEW id \in Ids, NEW price \in Prices,
             NEW quantity \in Quantities, ModifyOwn(p, id, price, quantity)
      PROVE  OneEach'
  <2>1. ModifyOrder(id, price, quantity) /\ UNCHANGED <<nextId, owner>>
    BY <1>6 DEF ModifyOwn
  <2>2. ASSUME NEW s \in Holding(id), NEW k \in TurnsOf(s, id), NEW out,
               out = AmendOutcome(engines[s].book, engines[s].turn, k, price, quantity),
               engines' = WithOutcome(s, out)
        PROVE  OneEach'
    <3>1. PICK b, t, after : /\ b = engines[s].book /\ t = engines[s].turn
                             /\ after = out.book
      OBVIOUS
    <3>2. s \in DOMAIN engines /\ k \in DOMAIN b /\ EngineTyped(b, t) /\ Owned(b, owner[s])
      BY <1>1, <2>2, <3>1 DEF Holding, TurnsOf, OneEach
    <3>3. after = AmendOutcome(b, t, k, price, quantity).book
      BY <2>2, <3>1
    <3>4. Distinct(after) /\ \A j \in DOMAIN after : \E i \in DOMAIN b : after[j].id = b[i].id
      BY <3>2, <3>3, AmendIds DEF Owned
    <3>5. Owned(after, owner[s])
      BY <3>2, <3>4 DEF Owned
    <3>6. Put(engines, engines', s, out.book, out.turn)
      BY <2>2, PutOutcome
    <3> QED
      BY <1>4, <2>1, <3>1, <3>2, <3>5, <3>6
  <2> QED
    BY <1>2, <2>1, <2>2 DEF ModifyOrder
<1>7. ASSUME NEW p \in Processes, UNCHANGED <<engines, owner>>,
             nextId' = nextId \/ TakeId(p)
      PROVE  OneEach'
  BY <1>2, <1>7
<1>8. ASSUME NEW p \in Processes, NEW s \in Symbols, NEW order \in Order,
             PlaceOrder(p, s, order)
      PROVE  OneEach'
  BY <1>2, <1>3, <1>8 DEF PlaceOrder, RefuseOrder
<1>9. ASSUME NEW p \in Processes,
             \/ StartClient(p) \/ EndClient(p) \/ \E s \in Symbols : ShowBook(p, s)
      PROVE  OneEach'
  BY <1>2, <1>9 DEF StartClient, EndClient, ShowBook, QueryBook, vars
<1>10. CASE UNCHANGED clientVars
  BY <1>10 DEF clientVars, vars, OneEach
<1> QED
  BY <1>5, <1>6, <1>8, <1>9, <1>10 DEF ClientNext

LEMMA ClientIds ==
  ASSUME \A p, q \in Processes : p = q
  PROVE  ClientSpec => [](ClientTypeOK /\ OneEach)
<1>1. ClientInit => OneEach
  <2> SUFFICES ASSUME ClientInit PROVE OneEach
    OBVIOUS
  <2>1. \A s \in Symbols, id \in Ids : owner[s][id] = NONE
    BY DEF ClientInit
  <2>2. DOMAIN engines = {}
    <3>1. DOMAIN <<>> = {}
      OBVIOUS
    <3> QED
      BY <3>1 DEF ClientInit, Init
  <2> QED
    BY <2>1, <2>2, ClientConstants DEF OneEach
<1>2. ClientTypeOK /\ OneEach /\ [ClientNext]_clientVars => OneEach'
  BY OneEachStep
<1> QED
  BY <1>1, <1>2, ClientTyped, PTL DEF ClientSpec

\* Where a resting order and its id lead.
LEMMA OneEachMeans ==
  ASSUME \A p, q \in Processes : p = q, ClientTypeOK, OneEach, NEW s \in DOMAIN engines,
         NEW k \in DOMAIN engines[s].book, NEW id, id = engines[s].book[k].id
  PROVE  /\ s \in Symbols /\ id \in Ids
         /\ \A p \in Processes : owner[s][id] = p /\ id < nextId[p]
         /\ \A t \in DOMAIN engines : \A j \in DOMAIN engines[t].book :
               engines[t].book[j].id = id => t = s /\ j = k
<1>1. \A t \in DOMAIN engines : t \in Symbols /\ Owned(engines[t].book, owner[t])
  BY DEF ClientTypeOK, TypeOK, OneEach
<1>2. id \in Ids
  BY EnginesTyped, TypedIsBook DEF ClientTypeOK
<1>3. ASSUME NEW t \in DOMAIN engines, NEW j \in DOMAIN engines[t].book,
             engines[t].book[j].id = id
      PROVE  t = s /\ j = k
  <2>1. owner[t][id] # NONE /\ owner[s][id] # NONE
    BY <1>1, <1>3 DEF Owned
  <2>2. t = s
    BY <1>1, <1>2, <2>1 DEF OneEach
  <2> QED
    BY <1>1, <1>3, <2>2 DEF Owned, Distinct
<1>4. ASSUME NEW p \in Processes PROVE owner[s][id] = p /\ id < nextId[p]
  <2>1. owner[s][id] # NONE /\ owner[s][id] \in Processes \cup {NONE}
    BY <1>1, <1>2 DEF Owned, ClientTypeOK
  <2>2. owner[s][id] = p
    BY <2>1
  <2> QED
    BY <1>1, <1>2, <2>2 DEF OneEach
<1> QED
  BY <1>1, <1>2, <1>3, <1>4

\* With one client process, for any symbols, prices, quantities and account: an id tells
\* one resting order from all others in all books, and the next id is new everywhere.
THEOREM OneClientsIdsAreUnique ==
  ASSUME \A p, q \in Processes : p = q
  PROVE  ClientSpec => []IdsTellOrdersApart
<1>1. ClientTypeOK /\ OneEach => IdsTellOrdersApart
  <2> SUFFICES ASSUME ClientTypeOK, OneEach PROVE IdsTellOrdersApart
    OBVIOUS
  <2>1. ASSUME NEW s \in DOMAIN engines, NEW t \in DOMAIN engines,
               NEW j \in DOMAIN engines[s].book, NEW k \in DOMAIN engines[t].book,
               engines[s].book[j].id = engines[t].book[k].id
        PROVE  <<s, j>> = <<t, k>>
    BY <2>1, OneEachMeans
  <2>2. ASSUME NEW p \in Running, NEW s \in DOMAIN engines, NEW k \in TurnsOf(s, nextId[p])
        PROVE  FALSE
    <3>1. p \in Processes /\ k \in DOMAIN engines[s].book /\ engines[s].book[k].id = nextId[p]
      BY <2>2 DEF Running, TurnsOf
    <3>2. nextId[p] < nextId[p] /\ nextId[p] \in Nat
      BY <3>1, OneEachMeans DEF ClientTypeOK
    <3> QED
      BY <3>2
  <2> QED
    BY <2>1, <2>2 DEF IdsTellOrdersApart
<1> QED
  BY <1>1, ClientIds, PTL

\* With one client process CANCEL and MODIFY reach the order that the client means and no
\* other, whichever engine is asked first, and a cancelled order is gone from all books.
\* client_ids_restart shows that this is lost with a second process, even after the first
\* has ended.
THEOREM OneClientReachesItsOrders ==
  ASSUME \A p, q \in Processes : p = q
  PROVE  ClientSpec => ChangesReachOwnOrder
<1> DEFINE Reached(own) ==
             /\ reply'.kind = "ack" <=> own # {}
             /\ \A s \in DOMAIN engines \ own : engines'[s] = engines[s]
             /\ reply'.to = "cancel" =>
                   \A s \in own : \A k \in DOMAIN engines'[s].book :
                      engines'[s].book[k].id # reply'.id
           asked == requests' # requests /\ reply'.to \in {"cancel", "modify"}
           Claim == asked => Reached(OwnOrders(asker', reply'.id))
<1>1. ASSUME ClientTypeOK, OneEach, NEW p \in Processes, NEW id
      PROVE  OwnOrders(p, id) = Holding(id)
  <2>1. ASSUME NEW s \in Holding(id) PROVE owner[s][id] = p
    <3>1. PICK k \in TurnsOf(s, id) : s \in DOMAIN engines
      BY DEF Holding
    <3>2. k \in DOMAIN engines[s].book /\ engines[s].book[k].id = id
      BY DEF TurnsOf
    <3> QED
      BY <1>1, <3>1, <3>2, OneEachMeans
  <2> QED
    BY <2>1 DEF OwnOrders
<1>2. ASSUME UNCHANGED engines, NEW id, reply'.id = id, reply'.kind = "reject",
             Holding(id) = {}
      PROVE  Reached(Holding(id))
  BY <1>2
<1>3. ASSUME ClientTypeOK, OneEach, NEW p \in Processes, NEW id \in Ids, CancelOrder(id)
      PROVE  Reached(Holding(id)) /\ reply'.id = id
  <2>1. CASE Holding(id) = {} /\ reply' = Reply("cancel", "reject", id, <<>>)
             /\ UNCHANGED engines
    <3>1. reply'.kind = "reject" /\ reply'.id = id
      BY <2>1 DEF Reply
    <3> QED
      BY <1>2, <2>1, <3>1
  <2>2. ASSUME NEW s \in Holding(id), NEW k \in TurnsOf(s, id),
               engines' = [engines EXCEPT ![s].book = Without(@, k)],
               reply' = Reply("cancel", "ack", id, <<>>)
        PROVE  Reached(Holding(id)) /\ reply'.id = id
    <3>1. /\ s \in DOMAIN engines /\ k \in DOMAIN engines[s].book
          /\ engines[s].book[k].id = id
      BY <2>2 DEF Holding, TurnsOf
    <3>2. reply'.kind = "ack" /\ reply'.id = id
      BY <2>2 DEF Reply
    <3>3. \A t \in DOMAIN engines \ {s} : engines'[t] = engines[t]
      BY <2>2
    <3>4. \A t \in Holding(id) : t = s
      BY <1>3, <3>1, OneEachMeans DEF Holding, TurnsOf
    <3>5. PICK b, t : b = Without(engines[s].book, k) /\ Put(engines, engines', s, b, t)
      BY <1>3, <2>2, <3>1, CancelIs DEF ClientTypeOK
    <3>6. ASSUME NEW j \in DOMAIN engines'[s].book PROVE engines'[s].book[j].id # id
      <4>1. j \in DOMAIN engines[s].book /\ j # k /\ engines'[s].book[j] = engines[s].book[j]
        BY <3>5 DEF Put, Without
      <4> QED
        BY <1>3, <3>1, <4>1, OneEachMeans
    <3> QED
      BY <2>2, <3>2, <3>3, <3>4, <3>6
  <2> QED
    BY <1>3, <2>1, <2>2 DEF CancelOrder
<1>4. ASSUME ClientTypeOK, OneEach, NEW p \in Processes, NEW id \in Ids, NEW price \in Prices,
             NEW quantity \in Quantities, ModifyOrder(id, price, quantity)
      PROVE  Reached(Holding(id)) /\ reply'.id = id
  <2>1. CASE Holding(id) = {} /\ reply' = Reply("modify", "reject", id, <<>>)
             /\ UNCHANGED engines
    <3>1. reply'.kind = "reject" /\ reply'.id = id
      BY <2>1 DEF Reply
    <3> QED
      BY <1>2, <2>1, <3>1
  <2>2. ASSUME NEW s \in Holding(id), NEW out, engines' = WithOutcome(s, out),
               reply' = Reply("modify", "ack", id, out.report)
        PROVE  Reached(Holding(id)) /\ reply'.id = id
    <3>1. reply'.to = "modify" /\ reply'.kind = "ack" /\ reply'.id = id
      BY <2>2 DEF Reply
    <3>2. \A t \in DOMAIN engines \ {s} : engines'[t] = engines[t]
      BY <2>2 DEF WithOutcome
    <3> QED
      BY <2>2, <3>1, <3>2
  <2> QED
    BY <1>4, <2>1, <2>2 DEF ModifyOrder
<1>5. ASSUME NEW p \in Processes, NEW s \in Symbols, NEW order \in Order,
             PlaceOrder(p, s, order)
      PROVE  ~asked
  <2>1. reply'.to = "submit"
    BY <1>5 DEF PlaceOrder, RefuseOrder, AcceptOrder, Reply
  <2> QED
    BY <2>1
<1>6. ASSUME NEW p \in Processes,
             \/ StartClient(p) \/ EndClient(p) \/ \E s \in Symbols : ShowBook(p, s)
      PROVE  ~asked
  BY <1>6 DEF StartClient, EndClient, ShowBook, QueryBook, vars
<1> HIDE DEF Reached, asked
<1>7. ASSUME ClientTypeOK, OneEach, NEW p \in Processes, NEW id \in Ids, CancelOwn(p, id)
      PROVE  Claim
  <2>1. CancelOrder(id) /\ asker' = p
    BY <1>7 DEF CancelOwn
  <2>2. Reached(Holding(id)) /\ reply'.id = id
    BY <1>3, <1>7, <2>1
  <2>3. OwnOrders(asker', reply'.id) = Holding(id)
    BY <1>1, <1>7, <2>1, <2>2
  <2> QED
    BY <2>2, <2>3
<1>8. ASSUME ClientTypeOK, OneEach, NEW p \in Processes, NEW id \in Ids, NEW price \in Prices,
             NEW quantity \in Quantities, ModifyOwn(p, id, price, quantity)
      PROVE  Claim
  <2>1. ModifyOrder(id, price, quantity) /\ asker' = p
    BY <1>8 DEF ModifyOwn
  <2>2. Reached(Holding(id)) /\ reply'.id = id
    BY <1>4, <1>8, <2>1
  <2>3. OwnOrders(asker', reply'.id) = Holding(id)
    BY <1>1, <1>8, <2>1, <2>2
  <2> QED
    BY <2>2, <2>3
<1>9. ClientTypeOK /\ OneEach /\ [ClientNext]_clientVars => [Claim]_clientVars
  <2> SUFFICES ASSUME ClientTypeOK, OneEach, ClientNext PROVE Claim
    OBVIOUS
  <2> QED
    BY <1>5, <1>6, <1>7, <1>8 DEF ClientNext
<1>10. Claim <=> (requests' # requests /\ reply'.to \in {"cancel", "modify"}
                    => LET own == OwnOrders(asker', reply'.id)
                       IN /\ reply'.kind = "ack" <=> own # {}
                          /\ \A s \in DOMAIN engines \ own : engines'[s] = engines[s]
                          /\ reply'.to = "cancel" =>
                                \A s \in own : \A k \in DOMAIN engines'[s].book :
                                   engines'[s].book[k].id # reply'.id)
  BY DEF asked, Reached
<1> HIDE DEF Claim
<1> QED
  BY <1>9, <1>10, ClientIds, PTL DEF ClientSpec, ChangesReachOwnOrder
=============================================================================
