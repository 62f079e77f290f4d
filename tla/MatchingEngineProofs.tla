------------------------ MODULE MatchingEngineProofs ------------------------
(***************************************************************************)
(* Proofs about MatchingEngine, for any sets of ids, prices and quantities *)
(* (negative and zero ones included) and any number of orders.  The        *)
(* refinement of the ideal book is for quantities from 0: the closed form  *)
(* counts units.                                                           *)
(***************************************************************************)
EXTENDS EngineRefinement, SweepProofs

USE DEF Sides

\* A change of quantity yields an order with the same id, side and price.
LEMMA WithRemainingIsOrder ==
  ASSUME NEW order \in Order, NEW q \in Int
  PROVE  /\ WithRemaining(order, q) \in Order
         /\ WithRemaining(order, q).id = order.id
         /\ WithRemaining(order, q).side = order.side
         /\ WithRemaining(order, q).price = order.price
         /\ WithRemaining(order, q).remaining = q
  BY DEF Order, WithRemaining

\* The initial book is well typed.
LEMMA TypeInit == Init => TypeOK
  BY DEF Init, BookInit, TypeOK, BookTypeOK

\* A client's order has integer price and quantity.
LEMMA NewOrderIsOrder == NewOrder \subseteq Order
  BY InputsAreIntegers DEF NewOrder, Order

\* The order that modifyOrder submits in place of another is well typed.
LEMMA ReplacementIsOrder ==
  ASSUME TypeOK, IndexNeverDangles,
         NEW id \in Ids, NEW p \in Prices, NEW q \in Quantities, id \in DOMAIN index
  PROVE  /\ index[id].orderIt \in DOMAIN orders
         /\ orders[index[id].orderIt] \in Order
         /\ [id |-> id, side |-> orders[index[id].orderIt].side,
             price |-> p, remaining |-> q] \in Order
  BY InputsAreIntegers DEF TypeOK, BookTypeOK, IndexNeverDangles, Order

\* A step that changes one order's quantity leaves every list as it is.
LEMMA QuantityStep ==
  ASSUME TypeOK, NEW n \in DOMAIN orders, NEW q \in Int,
         orders' = [orders EXCEPT ![n] = WithRemaining(@, q)]
  PROVE  /\ DOMAIN orders' = DOMAIN orders
         /\ orders' \in [DOMAIN orders -> Order]
         /\ orders'[n].remaining = q
         /\ \A m \in DOMAIN orders \ {n} : orders'[m] = orders[m]
         /\ \A m \in DOMAIN orders : /\ orders'[m].id = orders[m].id
                                     /\ orders'[m].side = orders[m].side
                                     /\ orders'[m].price = orders[m].price
         /\ \A s, p : Level(s, p)' = Level(s, p)
<1> DEFINE new == WithRemaining(orders[n], q)
<1>1. orders \in [DOMAIN orders -> Order] /\ orders[n] \in Order
  BY DEF TypeOK, BookTypeOK
<1>2. /\ new \in Order /\ new.remaining = q /\ new.id = orders[n].id
      /\ new.side = orders[n].side /\ new.price = orders[n].price
  BY <1>1, WithRemainingIsOrder
<1>3. orders' = [orders EXCEPT ![n] = new]
  OBVIOUS
<1> HIDE DEF new
<1>4. /\ DOMAIN orders' = DOMAIN orders
      /\ orders' \in [DOMAIN orders -> Order]
      /\ orders'[n] = new
      /\ \A m \in DOMAIN orders \ {n} : orders'[m] = orders[m]
  BY <1>1, <1>2, <1>3
<1>5. \A m \in DOMAIN orders : /\ orders'[m].id = orders[m].id
                               /\ orders'[m].side = orders[m].side
                               /\ orders'[m].price = orders[m].price
  BY <1>2, <1>4
<1>6. \A s, p : Level(s, p)' = Level(s, p)
  BY <1>4, <1>5 DEF Level
<1> QED
  BY <1>2, <1>4, <1>5, <1>6

\* One iteration of the inner loop, with its local variables named.
FillFacts(resting, fill, left) ==
  /\ orderIt \in DOMAIN orders /\ resting = orders[orderIt]
  /\ fill = Lesser(incoming.remaining, resting.remaining)
  /\ incoming \in Order /\ incoming.remaining # 0 /\ levelIt \in Int
  /\ incoming' = WithRemaining(incoming, incoming.remaining - fill)
  /\ left = resting.remaining - fill
  /\ (left = 0 /\ FillAll) \/ (left # 0 /\ FillPart(left))
  /\ trades' = Append(trades, MakeTrade(resting, fill))
  /\ owed' = [i \in Ids |-> IF i \in {incoming.id, resting.id}
                            THEN owed[i] - fill ELSE owed[i]]

\* The order that the inner iterator points at is there to be filled.
LEMMA FillStep ==
  ASSUME TypeOK, CursorAtTop, Fill
  PROVE  \E resting \in Order, fill, left \in Int : FillFacts(resting, fill, left)
<1> DEFINE resting == orders[orderIt]
           fill == Lesser(incoming.remaining, resting.remaining)
<1>1. /\ incoming \in Order /\ resting \in Order /\ orderIt \in DOMAIN orders
      /\ levelIt \in Int
  BY DEF Fill, TypeOK, BookTypeOK, CursorAtTop, FirstNode, FirstKey, Level, FacingSide, Opposite
<1>2. fill \in Int /\ resting.remaining - fill \in Int
  BY <1>1 DEF Lesser, Order
<1>3. FillFacts(resting, fill, resting.remaining - fill)
  BY <1>1 DEF Fill, FillFacts, IsFullyFilled
<1> QED
  BY <1>1, <1>2, <1>3

\* TypeOK is preserved by every step from a state whose index does not dangle.
LEMMA TypeStep == TypeOK /\ IndexNeverDangles /\ CursorAtTop /\ [Next]_vars => TypeOK'
<1> SUFFICES ASSUME TypeOK, IndexNeverDangles, CursorAtTop, [Next]_vars PROVE TypeOK'
  OBVIOUS
<1>1. ASSUME NEW order \in NewOrder, SubmitOrder(order) PROVE TypeOK'
  <2>1. order \in Order
    BY NewOrderIsOrder
  <2>2. levelIt' \in Int \cup {NONE}
    BY <1>1, <2>1 DEF TypeOK, BookTypeOK, SubmitOrder, StartMatching, Opposite
  <2> QED
    BY <1>1, <2>1, <2>2
    DEF TypeOK, BookTypeOK, SubmitOrder, StartMatching, bookVars, Order
<1>2. ASSUME NEW id \in Ids, CancelOrder(id) PROVE TypeOK'
  BY <1>2 DEF TypeOK, BookTypeOK, CancelOrder, CancelResting, RemoveFromLevel, IndexWithout,
     bookVars, loopVars, OrderLocation
<1>3. ASSUME NEW id \in Ids, NEW p \in Prices, NEW q \in Quantities, ReplaceOrder(id, p, q)
      PROVE  TypeOK'
  <2> DEFINE new == [id |-> id, side |-> orders[index[id].orderIt].side,
                     price |-> p, remaining |-> q]
  <2>1. id \in DOMAIN index /\ CancelResting(id) /\ StartMatching(new, levels')
    BY <1>3 DEF ReplaceOrder
  <2>2. new \in Order
    BY <2>1, ReplacementIsOrder
  <2>3. BookTypeOK'
    BY <2>1 DEF TypeOK, BookTypeOK, CancelResting, RemoveFromLevel, IndexWithout, OrderLocation
  <2>4. levelIt' \in Int \cup {NONE}
    BY <2>1, <2>2, <2>3 DEF BookTypeOK, StartMatching, Opposite
  <2> QED
    BY <2>1, <2>2, <2>3, <2>4 DEF TypeOK, StartMatching, Order
<1>4. ASSUME NEW id \in Ids, NEW p \in Prices, NEW q \in Quantities, ShrinkOrder(id, p, q)
      PROVE  TypeOK'
  <2> DEFINE n == index[id].orderIt
  <2>1. id \in DOMAIN index /\ q \in Int
    BY <1>4, InputsAreIntegers DEF ShrinkOrder
  <2>2. n \in DOMAIN orders
    BY <2>1, ReplacementIsOrder
  <2>4. DOMAIN orders' = DOMAIN orders /\ orders' \in [DOMAIN orders -> Order]
    BY <1>4, <2>1, <2>2, QuantityStep DEF ShrinkOrder, ModifyRestingOrderQuantity
  <2>5. BookTypeOK'
    BY <1>4, <2>4 DEF TypeOK, BookTypeOK, ShrinkOrder, ModifyRestingOrderQuantity
  <2> QED
    BY <1>4, <2>1, <2>5 DEF TypeOK, ShrinkOrder, loopVars
<1>5. CASE EnterLevel
  BY <1>5 DEF TypeOK, BookTypeOK, EnterLevel, Level, bookVars
<1>6. CASE Fill
  <2> PICK resting \in Order, fill, left \in Int : FillFacts(resting, fill, left)
    BY <1>6, FillStep
  <2>1. BookTypeOK'
    <3>1. CASE FillAll
      BY <3>1, <1>6 DEF FillAll, Fill, TypeOK, BookTypeOK, IndexWithout
    <3>2. CASE FillPart(left)
      <4>2. DOMAIN orders' = DOMAIN orders /\ orders' \in [DOMAIN orders -> Order]
        BY <3>2, QuantityStep DEF FillFacts, FillPart
      <4> QED
        BY <1>6, <3>2, <4>2 DEF Fill, FillPart, TypeOK, BookTypeOK
    <3> QED
      BY <3>1, <3>2 DEF FillFacts
  <2>2. MakeTrade(resting, fill) \in Trade
    BY DEF FillFacts, MakeTrade, Trade, Order, TypeOK
  <2>3. orderIt' \in Nat \cup {NONE}
    BY <1>6 DEF Fill, TypeOK, BookTypeOK, Level
  <2>4. incoming' \in Order
    BY WithRemainingIsOrder DEF FillFacts, Order
  <2>5. owed' \in [Ids -> Int]
    BY DEF FillFacts, TypeOK
  <2> QED
    BY <1>6, <2>1, <2>2, <2>3, <2>4, <2>5 DEF Fill, FillFacts, TypeOK
<1>7. CASE LeaveLevel
  <2>1. FacingSide \in Sides
    BY <1>7 DEF LeaveLevel, TypeOK, Order, FacingSide, Opposite
  <2> QED
    BY <1>7, <2>1 DEF TypeOK, BookTypeOK, LeaveLevel
<1>8. CASE RestOrFinish
  <2>1. incoming \in Order
    BY <1>8 DEF RestOrFinish, TypeOK
  <2>2. CASE IsFullyFilled(incoming)
    BY <1>8, <2>2 DEF TypeOK, BookTypeOK, RestOrFinish, bookVars
  <2>3. CASE ~IsFullyFilled(incoming)
    <3> DEFINE location == [side |-> incoming.side, price |-> incoming.price,
                            orderIt |-> nextNode]
    <3>1. AddOrder(incoming)
      BY <1>8, <2>3 DEF RestOrFinish
    <3>2. location \in OrderLocation /\ incoming.id \in Ids /\ incoming.side \in Sides
          /\ incoming.price \in Int
      BY <2>1 DEF Order, OrderLocation, TypeOK, BookTypeOK
    <3>3. BookTypeOK'
      <4>1. nextNode' \in Nat /\ DOMAIN orders' \subseteq 0 .. nextNode' - 1
            /\ orders' \in [DOMAIN orders' -> Order]
        BY <2>1, <3>1 DEF AddOrder, TypeOK, BookTypeOK
      <4>2. levels' \in [Sides -> SUBSET Int]
        BY <3>1, <3>2 DEF AddOrder, TypeOK, BookTypeOK
      <4>3. DOMAIN index' \subseteq Ids /\ index' \in [DOMAIN index' -> OrderLocation]
        BY <3>1, <3>2 DEF AddOrder, TypeOK, BookTypeOK
      <4> QED
        BY <4>1, <4>2, <4>3 DEF BookTypeOK
    <3> QED
      BY <1>8, <3>3 DEF RestOrFinish, TypeOK
  <2> QED
    BY <2>2, <2>3
<1>9. CASE UNCHANGED vars
  BY <1>9 DEF TypeOK, BookTypeOK, vars, bookVars, loopVars
<1> QED
  BY <1>1, <1>2, <1>3, <1>4, <1>5, <1>6, <1>7, <1>8, <1>9 DEF Next, Match

-----------------------------------------------------------------------------
\* cancelOrder, alone or as the first half of modifyOrder, leaves an index that
\* does not dangle and takes away only the map entry it has emptied.
LEMMA CancelStep ==
  ASSUME TypeOK, IndexNeverDangles, NEW id \in DOMAIN index, CancelResting(id)
  PROVE  /\ IndexNeverDangles'
         /\ DOMAIN orders' = DOMAIN orders \ {index[id].orderIt}
         /\ \A n \in DOMAIN orders' : orders'[n] = orders[n]
         /\ index[id].orderIt \in DOMAIN orders
         /\ orders[index[id].orderIt].id = id
         /\ DOMAIN index' = DOMAIN index \ {id}
         /\ \A i \in DOMAIN index' : index'[i] = index[i]
         /\ levels' \in [Sides -> SUBSET Int]
         /\ \A s \in Sides : \A p \in Int :
               p \in levels'[s] <=>
                 /\ p \in levels[s]
                 /\ (s = index[id].side /\ p = index[id].price) => Level(s, p)' # {}
<1> DEFINE loc == index[id]
<1>1. loc \in OrderLocation /\ loc.orderIt \in DOMAIN orders /\ orders[loc.orderIt].id = id
  BY DEF TypeOK, BookTypeOK, IndexNeverDangles
<1>2. /\ DOMAIN orders' = DOMAIN orders \ {loc.orderIt}
      /\ \A n \in DOMAIN orders' : orders'[n] = orders[n]
  BY DEF CancelResting, RemoveFromLevel
<1>3. /\ DOMAIN index' = DOMAIN index \ {id}
      /\ \A i \in DOMAIN index' : index'[i] = index[i]
  BY DEF CancelResting, IndexWithout
<1>4. \A s, p : Level(s, p)' = Level(s, p) \ {loc.orderIt}
  BY <1>2 DEF Level
<1>5. levels' = IF Level(loc.side, loc.price) \ {loc.orderIt} = {}
                THEN [levels EXCEPT ![loc.side] = @ \ {loc.price}] ELSE levels
  BY DEF CancelResting, RemoveFromLevel
<1>6. levels' \in [Sides -> SUBSET Int]
  BY <1>1, <1>5 DEF TypeOK, BookTypeOK, OrderLocation
<1>7. \A s \in Sides : \A p \in Int :
         p \in levels'[s] <=>
           /\ p \in levels[s]
           /\ (s = loc.side /\ p = loc.price) => Level(s, p)' # {}
  BY <1>1, <1>4, <1>5 DEF TypeOK, BookTypeOK, OrderLocation
<1>8. IndexNeverDangles'
  <2>1. \A i \in DOMAIN index' :
           /\ i \in DOMAIN index /\ index'[i] = index[i]
           /\ index[i].orderIt # loc.orderIt
    BY <1>1, <1>3 DEF IndexNeverDangles
  <2> QED
    BY <1>2, <2>1 DEF IndexNeverDangles
<1> QED
  BY <1>1, <1>2, <1>3, <1>6, <1>7, <1>8

\* addOrder, called with what is left of the incoming order.
LEMMA AddStep ==
  ASSUME TypeOK, pc # "idle", AddOrder(incoming)
  PROVE  /\ incoming \in Order
         /\ nextNode \in Nat /\ nextNode \notin DOMAIN orders
         /\ DOMAIN orders' = DOMAIN orders \cup {nextNode}
         /\ orders'[nextNode] = incoming
         /\ \A n \in DOMAIN orders : orders'[n] = orders[n]
         /\ DOMAIN index' = DOMAIN index \cup {incoming.id}
         /\ \A i \in DOMAIN index : index'[i] = index[i]
         /\ incoming.id \notin DOMAIN index =>
               index'[incoming.id] = [side |-> incoming.side, price |-> incoming.price,
                                      orderIt |-> nextNode]
         /\ \A s \in Sides : \A p \in Int :
               p \in levels'[s] <=>
                 p \in levels[s] \/ (s = incoming.side /\ p = incoming.price)
<1>1. incoming \in Order
  BY DEF TypeOK
<1>2. nextNode \in Nat /\ nextNode \notin DOMAIN orders
  BY DEF TypeOK, BookTypeOK
<1>3. /\ DOMAIN orders' = DOMAIN orders \cup {nextNode}
      /\ orders'[nextNode] = incoming
      /\ \A n \in DOMAIN orders : orders'[n] = orders[n]
  BY <1>2 DEF AddOrder
<1>4. /\ DOMAIN index' = DOMAIN index \cup {incoming.id}
      /\ \A i \in DOMAIN index : index'[i] = index[i]
      /\ incoming.id \notin DOMAIN index =>
            index'[incoming.id] = [side |-> incoming.side, price |-> incoming.price,
                                   orderIt |-> nextNode]
  BY DEF AddOrder
<1>5. \A s \in Sides : \A p \in Int :
         p \in levels'[s] <=>
           p \in levels[s] \/ (s = incoming.side /\ p = incoming.price)
  BY <1>1 DEF AddOrder, TypeOK, BookTypeOK, Order
<1> QED
  BY <1>1, <1>2, <1>3, <1>4, <1>5

-----------------------------------------------------------------------------
\* The index never dangles, provided the id is still in the erased node when
\* matchAgainst reads it.
LEMMA IndexStep ==
  ASSUME FreedMemoryIntact, TypeOK, IndexNeverDangles, CursorAtTop, [Next]_vars
  PROVE  IndexNeverDangles'
<1>1. ASSUME NEW order \in NewOrder, SubmitOrder(order) PROVE IndexNeverDangles'
  BY <1>1 DEF SubmitOrder, bookVars, IndexNeverDangles
<1>2. ASSUME NEW id \in Ids, CancelOrder(id) PROVE IndexNeverDangles'
  BY <1>2, CancelStep DEF CancelOrder, bookVars, IndexNeverDangles
<1>3. ASSUME NEW id \in Ids, NEW p \in Prices, NEW q \in Quantities, ReplaceOrder(id, p, q)
      PROVE  IndexNeverDangles'
  BY <1>3, CancelStep DEF ReplaceOrder
<1>4. ASSUME NEW id \in Ids, NEW p \in Prices, NEW q \in Quantities, ShrinkOrder(id, p, q)
      PROVE  IndexNeverDangles'
  <2> DEFINE n == index[id].orderIt
  <2>1. n \in DOMAIN orders /\ q \in Int
    BY <1>4, ReplacementIsOrder, InputsAreIntegers DEF ShrinkOrder
  <2>2. /\ DOMAIN orders' = DOMAIN orders /\ index' = index
        /\ \A m \in DOMAIN orders : /\ orders'[m].id = orders[m].id
                                    /\ orders'[m].side = orders[m].side
                                    /\ orders'[m].price = orders[m].price
    BY <1>4, <2>1, QuantityStep DEF ShrinkOrder, ModifyRestingOrderQuantity
  <2> QED
    BY <2>2 DEF IndexNeverDangles
<1>5. CASE EnterLevel
  BY <1>5 DEF EnterLevel, bookVars, IndexNeverDangles
<1>6. CASE Fill
  <2> PICK resting \in Order, fill, left \in Int : FillFacts(resting, fill, left)
    BY <1>6, FillStep
  <2>1. CASE FillAll
    <3>1. index' = IndexWithout(resting.id)
      BY <2>1 DEF FillAll, FillFacts, IdReadAfterErase
    <3>2. \A i \in DOMAIN index' : /\ i \in DOMAIN index /\ index'[i] = index[i]
                                  /\ index[i].orderIt # orderIt
      BY <3>1 DEF IndexWithout, FillFacts, IndexNeverDangles
    <3>3. /\ DOMAIN orders' = DOMAIN orders \ {orderIt}
          /\ \A n \in DOMAIN orders' : orders'[n] = orders[n]
      BY <2>1 DEF FillAll
    <3> QED
      BY <3>2, <3>3 DEF IndexNeverDangles
  <2>2. CASE FillPart(left)
    <3>1. /\ DOMAIN orders' = DOMAIN orders /\ index' = index
          /\ \A m \in DOMAIN orders : /\ orders'[m].id = orders[m].id
                                      /\ orders'[m].side = orders[m].side
                                      /\ orders'[m].price = orders[m].price
      BY <2>2, QuantityStep DEF FillPart, FillFacts
    <3> QED
      BY <3>1 DEF IndexNeverDangles
  <2> QED
    BY <2>1, <2>2 DEF FillFacts
<1>7. CASE LeaveLevel
  BY <1>7 DEF LeaveLevel, IndexNeverDangles
<1>8. CASE RestOrFinish
  <2>1. CASE IsFullyFilled(incoming)
    BY <1>8, <2>1 DEF RestOrFinish, bookVars, IndexNeverDangles
  <2>2. CASE ~IsFullyFilled(incoming)
    BY <1>8, <2>2, AddStep DEF RestOrFinish, IndexNeverDangles
  <2> QED
    BY <2>1, <2>2
<1>9. CASE UNCHANGED vars
  BY <1>9 DEF vars, bookVars, IndexNeverDangles
<1> QED
  BY <1>1, <1>2, <1>3, <1>4, <1>5, <1>6, <1>7, <1>8, <1>9 DEF Next, Match

-----------------------------------------------------------------------------
\* Where the node being filled is, and what the fill does to the lists.
LEMMA FillLists ==
  ASSUME TypeOK, CursorAtTop, Fill
  PROVE  /\ pc = "order" /\ pc' = "order" /\ levels' = levels /\ levelIt' = levelIt
         /\ levelIt \in Int /\ FacingSide \in Sides /\ FacingSide' = FacingSide
         /\ orderIt \in Level(FacingSide, levelIt)
         /\ \A m \in Level(FacingSide, levelIt) : orderIt <= m
         /\ DOMAIN orders' \subseteq DOMAIN orders
         /\ \A n \in DOMAIN orders' : /\ orders'[n].id = orders[n].id
                                      /\ orders'[n].side = orders[n].side
                                      /\ orders'[n].price = orders[n].price
         /\ \A s, p : (s # FacingSide \/ p # levelIt) => Level(s, p)' = Level(s, p)
         /\ incoming \in Order /\ incoming' \in Order
         /\ incoming'.side = incoming.side /\ incoming'.price = incoming.price
         /\ incoming'.id = incoming.id
         /\ incoming'.remaining # 0 =>
               \A p : Level(FacingSide, p)' = Level(FacingSide, p) \ {orderIt}
<1> PICK resting \in Order, fill, left \in Int : FillFacts(resting, fill, left)
  BY FillStep
<1>1. /\ pc = "order" /\ pc' = "order" /\ levels' = levels /\ levelIt' = levelIt
      /\ levelIt \in Int
  BY DEF Fill, FillFacts
<1>2. /\ incoming \in Order /\ incoming' \in Order
      /\ incoming'.side = incoming.side /\ incoming'.price = incoming.price
      /\ incoming'.id = incoming.id
      /\ incoming'.remaining = incoming.remaining - fill
  BY WithRemainingIsOrder DEF FillFacts, Order
<1>3. FacingSide \in Sides /\ FacingSide' = FacingSide
  BY <1>2 DEF FacingSide, Opposite
<1>4. /\ orderIt \in Level(FacingSide, levelIt)
      /\ \A m \in Level(FacingSide, levelIt) : orderIt <= m
  BY DEF Fill, CursorAtTop, FirstNode
<1>5. /\ DOMAIN orders' \subseteq DOMAIN orders
      /\ \A n \in DOMAIN orders' : /\ orders'[n].id = orders[n].id
                                   /\ orders'[n].side = orders[n].side
                                   /\ orders'[n].price = orders[n].price
      /\ \A s, p : (s # FacingSide \/ p # levelIt) => Level(s, p)' = Level(s, p)
  <2>1. CASE FillAll
    <3>1. /\ DOMAIN orders' = DOMAIN orders \ {orderIt}
          /\ \A n \in DOMAIN orders' : orders'[n] = orders[n]
      BY <2>1 DEF FillAll
    <3>2. orders[orderIt].side = FacingSide /\ orders[orderIt].price = levelIt
      BY <1>4 DEF Level
    <3> QED
      BY <3>1, <3>2 DEF Level
  <2>2. CASE FillPart(left)
    <3>1. orders' = [orders EXCEPT ![orderIt] = WithRemaining(@, left)]
      BY <2>2 DEF FillPart
    <3>2. orderIt \in DOMAIN orders
      BY DEF FillFacts
    <3>3. /\ DOMAIN orders' = DOMAIN orders
          /\ \A m \in DOMAIN orders : /\ orders'[m].id = orders[m].id
                                      /\ orders'[m].side = orders[m].side
                                      /\ orders'[m].price = orders[m].price
          /\ \A s, p : Level(s, p)' = Level(s, p)
      BY <3>1, <3>2, QuantityStep
    <3> QED
      BY <3>3
  <2> QED
    BY <2>1, <2>2 DEF FillFacts
<1>6. incoming'.remaining # 0 => \A p : Level(FacingSide, p)' = Level(FacingSide, p) \ {orderIt}
  <2> SUFFICES ASSUME incoming'.remaining # 0
               PROVE  \A p : Level(FacingSide, p)' = Level(FacingSide, p) \ {orderIt}
    OBVIOUS
  <2>1. left = 0
    BY <1>2 DEF FillFacts, Lesser, Order
  <2>2. /\ DOMAIN orders' = DOMAIN orders \ {orderIt}
        /\ \A n \in DOMAIN orders' : orders'[n] = orders[n]
    BY <2>1 DEF FillFacts, FillAll
  <2> QED
    BY <1>3, <2>2 DEF Level
<1> QED
  BY <1>1, <1>2, <1>3, <1>4, <1>5, <1>6

\* Leaving a level before the incoming order is used up, the level is empty.
LEMMA LeaveStep ==
  ASSUME TypeOK, CursorAtTop, LeaveLevel
  PROVE  /\ levelIt \in levels[FacingSide] /\ levelIt \in Int
         /\ FacingSide \in Sides /\ FacingSide' = FacingSide
         /\ ~IsFullyFilled(incoming) => Level(FacingSide, levelIt) = {}
         /\ levels' \in [Sides -> SUBSET Int]
         /\ \A s \in Sides : \A p \in Int :
               p \in levels'[s] <=>
                 /\ p \in levels[s]
                 /\ (s = FacingSide /\ p = levelIt) => Level(FacingSide, levelIt) # {}
<1>1. incoming \in Order /\ incoming' = incoming /\ pc = "order"
  BY DEF TypeOK, LeaveLevel
<1>2. FacingSide \in Sides /\ FacingSide' = FacingSide
  BY <1>1 DEF FacingSide, Opposite
<1>3. levelIt \in levels[FacingSide] /\ levelIt \in Int
  BY <1>1, <1>2 DEF CursorAtTop, TypeOK, BookTypeOK
<1>4. ~IsFullyFilled(incoming) => Level(FacingSide, levelIt) = {}
  BY <1>1, NoneIsNoValue DEF LeaveLevel, CursorAtTop, FirstNode, Level, TypeOK, BookTypeOK
<1>5. levels' = IF Level(FacingSide, levelIt) = {}
                THEN [levels EXCEPT ![FacingSide] = @ \ {levelIt}] ELSE levels
  BY DEF LeaveLevel
<1>6. /\ levels' \in [Sides -> SUBSET Int]
      /\ \A s \in Sides : \A p \in Int :
            p \in levels'[s] <=>
              /\ p \in levels[s]
              /\ (s = FacingSide /\ p = levelIt) => Level(FacingSide, levelIt) # {}
  BY <1>2, <1>5 DEF TypeOK, BookTypeOK
<1> QED
  BY <1>2, <1>3, <1>4, <1>6

-----------------------------------------------------------------------------
\* No step leaks a map entry or leaves an order without one.
LEMMA LevelsStep ==
  ASSUME TypeOK, IndexNeverDangles, CursorAtTop, LevelsMatchOrders, [Next]_vars
  PROVE  LevelsMatchOrders'
<1>1. ASSUME NEW order \in NewOrder, SubmitOrder(order) PROVE LevelsMatchOrders'
  BY <1>1 DEF SubmitOrder, StartMatching, bookVars, LevelsMatchOrders, Level
<1>2. ASSUME NEW id \in DOMAIN index, CancelResting(id), pc = "idle", pc' # "order"
      PROVE  LevelsMatchOrders'
  <2> DEFINE loc == index[id]
  <2>1. /\ loc.orderIt \in DOMAIN orders
        /\ orders[loc.orderIt].side = loc.side
        /\ orders[loc.orderIt].price = loc.price
    BY DEF IndexNeverDangles
  <2>2. /\ DOMAIN orders' = DOMAIN orders \ {loc.orderIt}
        /\ \A n \in DOMAIN orders' : orders'[n] = orders[n]
    BY <1>2, CancelStep
  <2>3. \A s \in Sides : \A p \in Int :
           p \in levels'[s] <=>
             /\ p \in levels[s]
             /\ (s = loc.side /\ p = loc.price) => Level(s, p)' # {}
    BY <1>2, CancelStep
  <2>4. \A s, p : (s # loc.side \/ p # loc.price) => Level(s, p)' = Level(s, p)
    BY <2>1, <2>2 DEF Level
  <2>5. \A n \in DOMAIN orders' :
           /\ n \in DOMAIN orders /\ orders'[n] = orders[n]
           /\ orders[n].side \in Sides /\ orders[n].price \in Int
           /\ \A s, p : orders[n].side = s /\ orders[n].price = p => n \in Level(s, p)'
    BY <2>2 DEF TypeOK, BookTypeOK, Order, Level
  <2>6. \A n \in DOMAIN orders' : orders'[n].price \in levels'[orders'[n].side]
    BY <2>3, <2>5 DEF LevelsMatchOrders
  <2>7. \A s \in Sides : levels'[s] \subseteq Int
    BY <1>2, CancelStep
  <2>8. \A s \in Sides : \A p \in levels'[s] : Level(s, p)' # {}
    BY <1>2, <2>3, <2>4, <2>7 DEF LevelsMatchOrders
  <2> QED
    BY <2>6, <2>8 DEF LevelsMatchOrders
<1>3. ASSUME NEW id \in Ids, CancelOrder(id) PROVE LevelsMatchOrders'
  <2>1. pc = "idle" /\ pc' = "idle"
    BY <1>3 DEF CancelOrder, loopVars
  <2>2. CASE id \in DOMAIN index
    BY <1>2, <1>3, <2>1, <2>2 DEF CancelOrder
  <2>3. CASE id \notin DOMAIN index
    BY <1>3, <2>1, <2>3 DEF CancelOrder, bookVars, LevelsMatchOrders, Level
  <2> QED
    BY <2>2, <2>3
<1>4. ASSUME NEW id \in Ids, NEW p \in Prices, NEW q \in Quantities, ReplaceOrder(id, p, q)
      PROVE  LevelsMatchOrders'
  BY <1>2, <1>4 DEF ReplaceOrder, StartMatching
<1>5. ASSUME NEW id \in Ids, NEW p \in Prices, NEW q \in Quantities, ShrinkOrder(id, p, q)
      PROVE  LevelsMatchOrders'
  <2>1. index[id].orderIt \in DOMAIN orders /\ q \in Int
    BY <1>5, ReplacementIsOrder, InputsAreIntegers DEF ShrinkOrder
  <2>2. /\ DOMAIN orders' = DOMAIN orders /\ levels' = levels /\ pc = "idle"
        /\ \A m \in DOMAIN orders : /\ orders'[m].side = orders[m].side
                                    /\ orders'[m].price = orders[m].price
        /\ \A s, r : Level(s, r)' = Level(s, r)
    BY <1>5, <2>1, QuantityStep DEF ShrinkOrder, ModifyRestingOrderQuantity
  <2> QED
    BY <2>2 DEF LevelsMatchOrders
<1>6. CASE EnterLevel
  BY <1>6 DEF EnterLevel, bookVars, LevelsMatchOrders, Level
<1>7. CASE Fill
  BY <1>7, FillLists DEF LevelsMatchOrders
<1>8. CASE LeaveLevel
  <2>1. orders' = orders /\ pc = "order"
    BY <1>8 DEF LeaveLevel
  <2>2. \A s, p : Level(s, p)' = Level(s, p)
    BY <2>1 DEF Level
  <2>3. \A n \in DOMAIN orders : /\ orders[n].side \in Sides /\ orders[n].price \in Int
                                 /\ n \in Level(orders[n].side, orders[n].price)
    BY DEF TypeOK, BookTypeOK, Order, Level
  <2>4. \A n \in DOMAIN orders : orders[n].price \in levels'[orders[n].side]
    BY <1>8, <2>3, LeaveStep DEF LevelsMatchOrders
  <2>5. \A s \in Sides : \A p \in levels'[s] : Level(s, p) # {}
    BY <1>8, <2>1, LeaveStep DEF LevelsMatchOrders
  <2> QED
    BY <2>1, <2>2, <2>4, <2>5 DEF LevelsMatchOrders
<1>9. CASE RestOrFinish
  <2>1. pc = "level" /\ pc' = "idle"
    BY <1>9 DEF RestOrFinish
  <2>2. CASE IsFullyFilled(incoming)
    BY <1>9, <2>1, <2>2 DEF RestOrFinish, bookVars, LevelsMatchOrders, Level
  <2>3. CASE ~IsFullyFilled(incoming)
    <3>1. AddOrder(incoming)
      BY <1>9, <2>3 DEF RestOrFinish
    <3>2. \A s, p : Level(s, p) \subseteq Level(s, p)'
      BY <2>1, <3>1, AddStep DEF Level
    <3>3. \A s, p : incoming.side = s /\ incoming.price = p => nextNode \in Level(s, p)'
      BY <2>1, <3>1, AddStep DEF Level
    <3>4. \A n \in DOMAIN orders' : orders'[n].price \in levels'[orders'[n].side]
      <4>1. \A n \in DOMAIN orders : /\ orders'[n] = orders[n] /\ orders[n].side \in Sides
                                     /\ orders[n].price \in levels[orders[n].side]
                                     /\ orders[n].price \in Int
        BY <2>1, <3>1, AddStep DEF LevelsMatchOrders, TypeOK, BookTypeOK, Order
      <4>2. incoming.side \in Sides /\ incoming.price \in Int
        BY <2>1 DEF TypeOK, Order
      <4> QED
        BY <2>1, <3>1, <4>1, <4>2, AddStep
    <3>5. \A s \in Sides : \A p \in levels'[s] : Level(s, p)' # {}
      <4>1. \A s \in Sides : \A p \in levels'[s] : p \in Int
        BY TypeStep DEF TypeOK, BookTypeOK
      <4>2. \A s \in Sides : \A p \in levels[s] : Level(s, p) # {}
        BY <2>1 DEF LevelsMatchOrders
      <4> QED
        BY <2>1, <3>1, <3>2, <3>3, <4>1, <4>2, AddStep
    <3> QED
      BY <3>4, <3>5 DEF LevelsMatchOrders
  <2> QED
    BY <2>2, <2>3
<1>10. CASE UNCHANGED vars
  BY <1>10 DEF vars, bookVars, loopVars, LevelsMatchOrders, Level, FacingSide
<1> QED
  BY <1>1, <1>3, <1>4, <1>5, <1>6, <1>7, <1>8, <1>9, <1>10 DEF Next, Match

-----------------------------------------------------------------------------
\* Only what does not cross the facing side comes to rest.
LEMMA NotCrossedStep ==
  ASSUME TypeOK, IndexNeverDangles, CursorAtTop, BookNotCrossed, [Next]_vars
  PROVE  BookNotCrossed'
<1>1. ASSUME \A s \in Sides : levels'[s] \subseteq levels[s] PROVE BookNotCrossed'
  BY <1>1 DEF BookNotCrossed
<1>2. ASSUME NEW order \in NewOrder, SubmitOrder(order) PROVE BookNotCrossed'
  BY <1>2 DEF SubmitOrder, bookVars, BookNotCrossed
<1>3. ASSUME NEW id \in Ids, CancelOrder(id) PROVE BookNotCrossed'
  BY <1>1, <1>3, CancelStep DEF CancelOrder, bookVars, TypeOK, BookTypeOK
<1>4. ASSUME NEW id \in Ids, NEW p \in Prices, NEW q \in Quantities, ReplaceOrder(id, p, q)
      PROVE  BookNotCrossed'
  BY <1>1, <1>4, CancelStep DEF ReplaceOrder, TypeOK, BookTypeOK
<1>5. ASSUME NEW id \in Ids, NEW p \in Prices, NEW q \in Quantities, ShrinkOrder(id, p, q)
      PROVE  BookNotCrossed'
  BY <1>5 DEF ShrinkOrder, ModifyRestingOrderQuantity, BookNotCrossed
<1>6. CASE EnterLevel
  BY <1>6 DEF EnterLevel, bookVars, BookNotCrossed
<1>7. CASE Fill
  BY <1>7 DEF Fill, BookNotCrossed
<1>8. CASE LeaveLevel
  BY <1>1, <1>8, LeaveStep
<1>9. CASE RestOrFinish
  <2>1. CASE IsFullyFilled(incoming)
    BY <1>9, <2>1 DEF RestOrFinish, bookVars, BookNotCrossed
  <2>2. CASE ~IsFullyFilled(incoming)
    <3>1. /\ AddOrder(incoming) /\ pc = "level" /\ incoming \in Order
          /\ levelIt = NONE \/ ~PricesCross(incoming, levelIt)
      BY <1>9, <2>2 DEF RestOrFinish, LevelMatches, TypeOK
    <3>2. FacingSide \in Sides /\ FirstKey(FacingSide, levels[FacingSide], levelIt)
      BY <2>2, <3>1 DEF CursorAtTop, FacingSide, Opposite
    <3>3. \A p \in levels[FacingSide] : p \in Int /\ ~PricesCross(incoming, p)
      <4> SUFFICES ASSUME NEW p \in levels[FacingSide]
                   PROVE  p \in Int /\ ~PricesCross(incoming, p)
        OBVIOUS
      <4>1. p \in Int /\ levelIt \in levels[FacingSide] /\ levelIt \in Int /\ incoming.price \in Int
        BY <3>1, <3>2 DEF FirstKey, TypeOK, BookTypeOK, Order
      <4>2. (p = levelIt \/ Before(FacingSide, levelIt, p)) /\ ~PricesCross(incoming, levelIt)
        BY <3>1, <3>2, <4>1, NoneIsNoValue DEF FirstKey
      <4>3. CASE incoming.side = "Buy"
        BY <4>1, <4>2, <4>3 DEF Before, PricesCross, FacingSide, Opposite
      <4>4. CASE incoming.side = "Sell"
        BY <4>1, <4>2, <4>4 DEF Before, PricesCross, FacingSide, Opposite
      <4> QED
        BY <3>1, <4>3, <4>4 DEF Order
    <3>4. \A s \in Sides : levels'[s] \subseteq Int
      BY TypeStep DEF TypeOK, BookTypeOK
    <3>5. CASE incoming.side = "Buy"
      <4>1. \A p \in levels["Sell"] : p \in Int /\ incoming.price < p
        BY <3>1, <3>3, <3>5 DEF PricesCross, FacingSide, Opposite, Order
      <4>2. levels'["Sell"] \subseteq levels["Sell"]
            /\ levels'["Buy"] \subseteq levels["Buy"] \cup {incoming.price}
        BY <3>1, <3>4, <3>5, AddStep
      <4> QED
        BY <4>1, <4>2 DEF BookNotCrossed
    <3>6. CASE incoming.side = "Sell"
      <4>1. \A p \in levels["Buy"] : p \in Int /\ p < incoming.price
        BY <3>1, <3>3, <3>6 DEF PricesCross, FacingSide, Opposite, Order
      <4>2. levels'["Buy"] \subseteq levels["Buy"]
            /\ levels'["Sell"] \subseteq levels["Sell"] \cup {incoming.price}
        BY <3>1, <3>4, <3>6, AddStep
      <4> QED
        BY <4>1, <4>2 DEF BookNotCrossed
    <3> QED
      BY <3>1, <3>5, <3>6 DEF Order
  <2> QED
    BY <2>1, <2>2
<1>10. CASE UNCHANGED vars
  BY <1>10 DEF vars, bookVars, BookNotCrossed
<1> QED
  BY <1>2, <1>3, <1>4, <1>5, <1>6, <1>7, <1>8, <1>9, <1>10 DEF Next, Match

-----------------------------------------------------------------------------
\* The iterators stay on the best level and its oldest order.
LEMMA CursorStep ==
  ASSUME TypeOK, IndexNeverDangles, CursorAtTop, [Next]_vars
  PROVE  CursorAtTop'
<1>1. ASSUME NEW order, StartMatching(order, levels') PROVE CursorAtTop'
  BY <1>1 DEF StartMatching, CursorAtTop, FacingSide
<1>2. ASSUME NEW order \in NewOrder, SubmitOrder(order) PROVE CursorAtTop'
  BY <1>2 DEF SubmitOrder, StartMatching, bookVars, CursorAtTop, FacingSide
<1>3. ASSUME NEW id \in Ids, CancelOrder(id) PROVE CursorAtTop'
  BY <1>3 DEF CancelOrder, loopVars, CursorAtTop
<1>4. ASSUME NEW id \in Ids, NEW p \in Prices, NEW q \in Quantities, ReplaceOrder(id, p, q)
      PROVE  CursorAtTop'
  BY <1>1, <1>4 DEF ReplaceOrder
<1>5. ASSUME NEW id \in Ids, NEW p \in Prices, NEW q \in Quantities, ShrinkOrder(id, p, q)
      PROVE  CursorAtTop'
  BY <1>5 DEF ShrinkOrder, loopVars, CursorAtTop
<1>6. CASE EnterLevel
  <2>1. /\ levelIt \in levels[FacingSide] /\ FirstKey(FacingSide, levels[FacingSide], levelIt)
        /\ PricesCross(incoming, levelIt)
    BY <1>6 DEF EnterLevel, LevelMatches, CursorAtTop, FirstKey
  <2>2. FirstNode(Level(FacingSide, levelIt), orderIt')
    BY <1>6 DEF EnterLevel
  <2>3. /\ levels' = levels /\ orders' = orders /\ incoming' = incoming
        /\ levelIt' = levelIt /\ pc' = "order"
    BY <1>6 DEF EnterLevel, bookVars
  <2>4. FacingSide' = FacingSide /\ Level(FacingSide, levelIt)' = Level(FacingSide, levelIt)
    BY <2>3 DEF FacingSide, Level
  <2> QED
    BY <2>1, <2>2, <2>3, <2>4 DEF CursorAtTop
<1>7. CASE Fill
  <2>1. /\ levelIt' \in levels'[FacingSide]
        /\ FirstKey(FacingSide, levels'[FacingSide], levelIt')
        /\ PricesCross(incoming', levelIt')
    BY <1>7, FillLists DEF CursorAtTop, PricesCross
  <2>2. ASSUME ~IsFullyFilled(incoming')
        PROVE  FirstNode(Level(FacingSide, levelIt)', orderIt')
    <3> DEFINE behind == {n \in Level(FacingSide, levelIt) : n > orderIt}
    <3>1. Level(FacingSide, levelIt) \subseteq Nat /\ orderIt \in Nat
      BY <1>7, FillLists DEF Level, TypeOK, BookTypeOK
    <3>2. Level(FacingSide, levelIt)' = Level(FacingSide, levelIt) \ {orderIt}
      BY <1>7, <2>2, FillLists DEF IsFullyFilled
    <3>3. behind = Level(FacingSide, levelIt)'
      BY <1>7, <3>1, <3>2, FillLists
    <3>4. FirstNode(behind, orderIt')
      BY <1>7 DEF Fill
    <3> QED
      BY <3>3, <3>4
  <2> QED
    BY <1>7, <2>1, <2>2, FillLists DEF CursorAtTop
<1>8. CASE LeaveLevel
  <2> SUFFICES ASSUME ~IsFullyFilled(incoming)
               PROVE  FirstKey(FacingSide, levels'[FacingSide], levelIt')
    BY <1>8, LeaveStep DEF LeaveLevel, CursorAtTop
  <2> DEFINE behind == {p \in levels[FacingSide] : Before(FacingSide, levelIt, p)}
  <2>1. FirstKey(FacingSide, behind, levelIt')
    BY <1>8 DEF LeaveLevel
  <2>2. \A p \in Int : p \in levels'[FacingSide] <=> p \in levels[FacingSide] /\ p # levelIt
    BY <1>8, LeaveStep
  <2>3. levels'[FacingSide] \subseteq Int /\ levels[FacingSide] \subseteq Int
    BY <1>8, LeaveStep DEF TypeOK, BookTypeOK
  <2>4. \A p \in levels[FacingSide] : p = levelIt \/ Before(FacingSide, levelIt, p)
    BY <1>8, LeaveStep DEF LeaveLevel, CursorAtTop, FirstKey
  <2>5. levelIt \in Int /\ ~Before(FacingSide, levelIt, levelIt)
    BY <1>8, LeaveStep DEF Before
  <2>6. behind = levels'[FacingSide]
    BY <2>2, <2>3, <2>4, <2>5
  <2> QED
    BY <2>1, <2>6
<1>9. CASE RestOrFinish
  BY <1>9 DEF RestOrFinish, CursorAtTop
<1>10. CASE UNCHANGED vars
  BY <1>10 DEF vars, bookVars, loopVars, CursorAtTop, FacingSide, Level
<1> QED
  BY <1>2, <1>3, <1>4, <1>5, <1>6, <1>7, <1>8, <1>9, <1>10 DEF Next, Match

-----------------------------------------------------------------------------
\* The inductive invariant for whatever ids clients send.
BookInv ==
  TypeOK /\ IndexNeverDangles /\ CursorAtTop /\ LevelsMatchOrders /\ BookNotCrossed

\* With an allocator that leaves the id in an erased node, and for any ids
\* (repeated ones included), prices and quantities, the parts of BookInv hold
\* together: none of them is inductive without the others.
LEMMA BookInvariance ==
  ASSUME FreedMemoryIntact
  PROVE  Spec => []BookInv
<1>1. Init => BookInv
  BY TypeInit DEF Init, BookInit, BookInv, IndexNeverDangles, CursorAtTop,
     LevelsMatchOrders, BookNotCrossed
<1>2. BookInv /\ [Next]_vars => BookInv'
  BY TypeStep, IndexStep, LevelsStep, NotCrossedStep, CursorStep DEF BookInv
<1> QED
  BY <1>1, <1>2, PTL DEF Spec

\* Orders, levels and iterators are of their kinds, whatever clients send: prices
\* and quantities that nobody checks (zero and negative ones) included.
THEOREM EngineTyped ==
  ASSUME FreedMemoryIntact
  PROVE  Spec => []TypeOK
  BY BookInvariance, PTL DEF BookInv

\* The iterators that orderIndex_ keeps stay valid while matching, cancelling and
\* modifying erase orders and price levels around them.
THEOREM IndexStaysValid ==
  ASSUME FreedMemoryIntact
  PROVE  Spec => []IndexNeverDangles
  BY BookInvariance, PTL DEF BookInv

\* The two loops of match() keep standing at the best level and the oldest order
\* of it, while they erase the ones that they stood at.
THEOREM SweepStaysAtTop ==
  ASSUME FreedMemoryIntact
  PROVE  Spec => []CursorAtTop
  BY BookInvariance, PTL DEF BookInv

\* No price level is leaked when its last order goes, and none is missing, but for
\* the one that a sweep has just emptied.
THEOREM LevelsAreThoseOfOrders ==
  ASSUME FreedMemoryIntact
  PROVE  Spec => []LevelsMatchOrders
  BY BookInvariance, PTL DEF BookInv

\* At no time, not in the middle of a sweep either, is there a bid at or above an
\* ask: neither a partial fill nor a modification leaves the book crossed.
THEOREM BookStaysUncrossed ==
  ASSUME FreedMemoryIntact
  PROVE  Spec => []BookNotCrossed
  BY BookInvariance, PTL DEF BookInv

\* The order that is filled goes first: no other order of its side is at a better price,
\* nor older at the same price.
LEMMA FilledIsBest ==
  ASSUME BookInv, Fill
  PROVE  /\ orderIt \in DOMAIN orders /\ FacingSide \in Sides
         /\ orders[orderIt].side = FacingSide /\ orders[orderIt].price = levelIt
         /\ PricesCross(incoming, levelIt)
         /\ \A m \in DOMAIN orders \ {orderIt} : orders[m].side = FacingSide =>
               \/ Before(FacingSide, levelIt, orders[m].price)
               \/ orders[m].price = levelIt /\ orderIt < m
<1>1. /\ FacingSide \in Sides
      /\ orderIt \in Level(FacingSide, levelIt)
      /\ \A m \in Level(FacingSide, levelIt) : orderIt <= m
  BY FillLists DEF BookInv
<1>2. FirstKey(FacingSide, levels[FacingSide], levelIt) /\ PricesCross(incoming, levelIt)
  BY DEF BookInv, CursorAtTop, Fill
<1>3. ASSUME NEW m \in DOMAIN orders \ {orderIt}, orders[m].side = FacingSide
      PROVE  \/ Before(FacingSide, levelIt, orders[m].price)
             \/ orders[m].price = levelIt /\ orderIt < m
  <2>1. orders[m].price \in levels[FacingSide]
    BY <1>3 DEF BookInv, LevelsMatchOrders
  <2>2. orders[m].price = levelIt \/ Before(FacingSide, levelIt, orders[m].price)
    BY <1>2, <2>1 DEF FirstKey
  <2>3. ASSUME orders[m].price = levelIt PROVE orderIt < m
    <3>1. m \in Level(FacingSide, levelIt)
      BY <1>3, <2>3 DEF Level
    <3>2. orderIt \in DOMAIN orders
      BY <1>1 DEF Level
    <3> QED
      BY <1>1, <3>1, <3>2 DEF BookInv, TypeOK, BookTypeOK
  <2> QED
    BY <2>2, <2>3
<1> QED
  BY <1>1, <1>2, <1>3 DEF Level

\* Every trade fills the best-priced and, at that price, the oldest resting
\* order, at that order's price and within the incoming order's limit: the
\* matching loop cannot trade through a better order, whatever is in the book.
THEOREM TradesRespectPriority ==
  ASSUME FreedMemoryIntact
  PROVE  Spec => PriceTimePriority
<1> DEFINE Best(n) ==
             /\ \A m \in DOMAIN orders \ {n} : orders[m].side = orders[n].side =>
                   \/ Before(orders[n].side, orders[n].price, orders[m].price)
                   \/ orders[m].price = orders[n].price /\ n < m
             /\ trades'[Len(trades')].price = orders[n].price
             /\ PricesCross(incoming, orders[n].price)
<1>1. BookInv /\ [Next]_vars =>
        [\A n \in DOMAIN orders : Executed(n) => Best(n)]_vars
  <2> SUFFICES ASSUME BookInv, [Next]_vars, NEW n \in DOMAIN orders, Executed(n)
               PROVE  Best(n)
    OBVIOUS
  <2>1. Fill
    BY DEF Executed, BookInv, TypeOK, Next, Match, SubmitOrder, StartMatching, CancelOrder,
       ReplaceOrder, ShrinkOrder, EnterLevel, LeaveLevel, RestOrFinish, vars
  <2> PICK resting \in Order, fill, left \in Int : FillFacts(resting, fill, left)
    BY <2>1, FillStep DEF BookInv
  <2>2. n = orderIt
    <3>1. CASE FillAll
      BY <3>1 DEF FillAll, Executed
    <3>2. CASE FillPart(left)
      BY <3>2, QuantityStep DEF FillPart, FillFacts, Executed, BookInv
    <3> QED
      BY <3>1, <3>2 DEF FillFacts
  <2>3. trades'[Len(trades')].price = levelIt
    <3>1. trades' = Append(trades, MakeTrade(resting, fill)) /\ trades \in Seq(Trade)
      BY DEF FillFacts, BookInv, TypeOK
    <3>2. Len(trades') = Len(trades) + 1 /\ trades'[Len(trades) + 1] = MakeTrade(resting, fill)
      BY <3>1
    <3> QED
      BY <3>2 DEF MakeTrade
  <2> QED
    BY <2>1, <2>2, <2>3, FilledIsBest
<1>2. Spec => []BookInv
  BY BookInvariance, PTL
<1> QED
  BY <1>1, <1>2, PTL DEF Spec, PriceTimePriority

-----------------------------------------------------------------------------
\* With ids that do not clash with those of resting orders, the order being
\* matched has an id of its own too.
IdentityInv ==
  EveryOrderIndexed /\ (pc # "idle" => incoming.id \notin DOMAIN index)

\* What a fill does to the resting orders, the used-up one being forgotten.
LEMMA FillOrders ==
  ASSUME FreedMemoryIntact, TypeOK, CursorAtTop, Fill,
         NEW resting \in Order, NEW fill \in Int, NEW left \in Int,
         FillFacts(resting, fill, left)
  PROVE  /\ \A n \in DOMAIN orders' \ {orderIt} : n \in DOMAIN orders /\ orders'[n] = orders[n]
         /\ orderIt \in DOMAIN orders' => /\ orders'[orderIt].id = resting.id
                                         /\ orders'[orderIt].remaining = left
                                         /\ index' = index
         /\ orderIt \notin DOMAIN orders' =>
               /\ left = 0
               /\ DOMAIN index' = DOMAIN index \ {resting.id}
               /\ \A i \in DOMAIN index' : index'[i] = index[i]
<1>1. CASE FillAll /\ left = 0
  BY <1>1 DEF FillAll, FillFacts, IdReadAfterErase, IndexWithout
<1>2. CASE FillPart(left)
  <2>1. /\ DOMAIN orders' = DOMAIN orders
        /\ orders'[orderIt].remaining = left
        /\ \A m \in DOMAIN orders \ {orderIt} : orders'[m] = orders[m]
        /\ \A m \in DOMAIN orders : orders'[m].id = orders[m].id
    BY <1>2, QuantityStep DEF FillPart, FillFacts
  <2> QED
    BY <1>2, <2>1 DEF FillPart, FillFacts
<1> QED
  BY <1>1, <1>2 DEF FillFacts

\* Index and lists stay in one-to-one correspondence.
LEMMA IdentityStep ==
  ASSUME FreedMemoryIntact, IdsOfRestingFresh, BookInv, IdentityInv, [Next]_vars
  PROVE  IdentityInv'
<1> USE DEF BookInv
<1>1. ASSUME NEW order \in NewOrder, SubmitOrder(order) PROVE IdentityInv'
  BY <1>1 DEF SubmitOrder, StartMatching, bookVars, IdentityInv, EveryOrderIndexed
<1>2. ASSUME NEW id \in DOMAIN index, CancelResting(id)
      PROVE  EveryOrderIndexed' /\ id \notin DOMAIN index'
  <2> DEFINE gone == index[id].orderIt
  <2>1. /\ \A n \in DOMAIN orders' : n \in DOMAIN orders \ {gone} /\ orders'[n] = orders[n]
        /\ DOMAIN index' = DOMAIN index \ {id}
        /\ \A i \in DOMAIN index' : index'[i] = index[i]
    BY <1>2, CancelStep
  <2>2. \A n \in DOMAIN orders \ {gone} :
           orders[n].id # id /\ orders[n].id \in DOMAIN index /\ index[orders[n].id].orderIt = n
    BY DEF IdentityInv, EveryOrderIndexed
  <2> QED
    BY <2>1, <2>2 DEF EveryOrderIndexed
<1>3. ASSUME NEW id \in Ids, CancelOrder(id) PROVE IdentityInv'
  <2>1. CASE id \in DOMAIN index
    BY <1>2, <1>3, <2>1 DEF CancelOrder, loopVars, IdentityInv
  <2>2. CASE id \notin DOMAIN index
    BY <1>3, <2>2 DEF CancelOrder, bookVars, loopVars, IdentityInv, EveryOrderIndexed
  <2> QED
    BY <2>1, <2>2
<1>4. ASSUME NEW id \in Ids, NEW p \in Prices, NEW q \in Quantities, ReplaceOrder(id, p, q)
      PROVE  IdentityInv'
  <2>1. id \in DOMAIN index /\ CancelResting(id) /\ incoming'.id = id
    BY <1>4 DEF ReplaceOrder, StartMatching
  <2> QED
    BY <1>2, <2>1 DEF IdentityInv
<1>5. ASSUME NEW id \in Ids, NEW p \in Prices, NEW q \in Quantities, ShrinkOrder(id, p, q)
      PROVE  IdentityInv'
  <2>1. index[id].orderIt \in DOMAIN orders /\ q \in Int
    BY <1>5, ReplacementIsOrder, InputsAreIntegers DEF ShrinkOrder
  <2>2. /\ DOMAIN orders' = DOMAIN orders /\ index' = index /\ pc' = "idle"
        /\ \A m \in DOMAIN orders : orders'[m].id = orders[m].id
    BY <1>5, <2>1, QuantityStep DEF ShrinkOrder, ModifyRestingOrderQuantity, loopVars
  <2> QED
    BY <2>2 DEF IdentityInv, EveryOrderIndexed
<1>6. CASE EnterLevel
  BY <1>6 DEF EnterLevel, bookVars, IdentityInv, EveryOrderIndexed
<1>7. CASE Fill
  <2> PICK resting \in Order, fill, left \in Int : FillFacts(resting, fill, left)
    BY <1>7, FillStep
  <2>1. incoming'.id = incoming.id /\ pc = "order"
    BY <1>7, FillLists
  <2>2. CASE orderIt \in DOMAIN orders'
    <3>1. \A n \in DOMAIN orders' : n \in DOMAIN orders /\ orders'[n].id = orders[n].id
      BY <1>7, FillLists
    <3>2. index' = index
      BY <1>7, <2>2, FillOrders
    <3> QED
      BY <2>1, <3>1, <3>2 DEF IdentityInv, EveryOrderIndexed
  <2>3. CASE orderIt \notin DOMAIN orders'
    <3>1. \A n \in DOMAIN orders' : /\ n # orderIt /\ n \in DOMAIN orders
                                    /\ orders'[n] = orders[n]
      BY <1>7, <2>3, FillOrders
    <3>2. /\ DOMAIN index' = DOMAIN index \ {resting.id}
          /\ \A i \in DOMAIN index' : index'[i] = index[i]
      BY <1>7, <2>3, FillOrders
    <3>3. index[resting.id].orderIt = orderIt
      BY DEF IdentityInv, EveryOrderIndexed, FillFacts
    <3> QED
      BY <2>1, <3>1, <3>2, <3>3 DEF IdentityInv, EveryOrderIndexed
  <2> QED
    BY <2>2, <2>3
<1>8. CASE LeaveLevel
  BY <1>8 DEF LeaveLevel, IdentityInv, EveryOrderIndexed
<1>9. CASE RestOrFinish
  <2>1. CASE IsFullyFilled(incoming)
    BY <1>9, <2>1 DEF RestOrFinish, bookVars, IdentityInv, EveryOrderIndexed
  <2>2. CASE ~IsFullyFilled(incoming)
    BY <1>9, <2>2, AddStep DEF RestOrFinish, IdentityInv, EveryOrderIndexed
  <2> QED
    BY <2>1, <2>2
<1>10. CASE UNCHANGED vars
  BY <1>10 DEF vars, bookVars, loopVars, IdentityInv, EveryOrderIndexed
<1> QED
  BY <1>1, <1>3, <1>4, <1>5, <1>6, <1>7, <1>8, <1>9, <1>10 DEF Next, Match

-----------------------------------------------------------------------------
\* The orders that a cancel leaves in the book have other ids.
LEMMA CancelLeaves ==
  ASSUME BookInv, IdentityInv, NEW id \in DOMAIN index, CancelResting(id),
         NEW n \in DOMAIN orders'
  PROVE  /\ n \in DOMAIN orders /\ orders'[n] = orders[n]
         /\ orders[n].id # id /\ orders[n].id \in Ids
<1>1. n \in DOMAIN orders \ {index[id].orderIt} /\ orders'[n] = orders[n]
  BY CancelStep DEF BookInv
<1>2. index[orders[n].id].orderIt = n
  BY <1>1 DEF IdentityInv, EveryOrderIndexed
<1>3. orders[n].id \in Ids
  BY <1>1 DEF BookInv, TypeOK, BookTypeOK, Order
<1> QED
  BY <1>1, <1>2, <1>3

\* Quantities are conserved by every step.
LEMMA QuantitiesStep ==
  ASSUME FreedMemoryIntact, IdsOfRestingFresh, BookInv, IdentityInv, QuantityConserved,
         [Next]_vars
  PROVE  QuantityConserved'
<1> USE DEF BookInv
<1>1. ASSUME NEW order \in NewOrder, SubmitOrder(order) PROVE QuantityConserved'
  <2>1. order.id \in Ids /\ order.id \notin DOMAIN index
    BY <1>1, NewOrderIsOrder DEF SubmitOrder, Order
  <2>2. /\ orders' = orders /\ index' = index /\ incoming' = order
        /\ pc = "idle" /\ pc' = "level"
        /\ owed' = [owed EXCEPT ![order.id] = order.remaining]
    BY <1>1 DEF SubmitOrder, StartMatching, bookVars
  <2> QED
    BY <2>1, <2>2 DEF QuantityConserved, IdentityInv, EveryOrderIndexed, TypeOK
<1>2. ASSUME NEW id \in Ids, CancelOrder(id) PROVE QuantityConserved'
  <2>1. CASE id \in DOMAIN index
    <3>1. CancelResting(id) /\ owed' = [owed EXCEPT ![id] = 0] /\ pc = "idle" /\ pc' = "idle"
      BY <1>2, <2>1 DEF CancelOrder, loopVars
    <3>2. \A n \in DOMAIN orders' : /\ n \in DOMAIN orders /\ orders'[n] = orders[n]
                                    /\ orders[n].id # id /\ orders[n].id \in Ids
      BY <2>1, <3>1, CancelLeaves
    <3>3. DOMAIN index' = DOMAIN index \ {id}
      BY <2>1, <3>1, CancelStep
    <3> QED
      BY <3>1, <3>2, <3>3 DEF QuantityConserved, TypeOK
  <2>2. CASE id \notin DOMAIN index
    BY <1>2, <2>2 DEF CancelOrder, bookVars, loopVars, QuantityConserved
  <2> QED
    BY <2>1, <2>2
<1>3. ASSUME NEW id \in Ids, NEW p \in Prices, NEW q \in Quantities, ReplaceOrder(id, p, q)
      PROVE  QuantityConserved'
  <2>1. /\ id \in DOMAIN index /\ CancelResting(id) /\ pc = "idle" /\ pc' = "level"
        /\ incoming'.id = id /\ incoming'.remaining = q
        /\ owed' = [owed EXCEPT ![id] = q]
    BY <1>3 DEF ReplaceOrder, StartMatching
  <2>2. \A n \in DOMAIN orders' : /\ n \in DOMAIN orders /\ orders'[n] = orders[n]
                                  /\ orders[n].id # id /\ orders[n].id \in Ids
    BY <2>1, CancelLeaves
  <2>3. DOMAIN index' = DOMAIN index \ {id}
    BY <2>1, CancelStep
  <2> QED
    BY <2>1, <2>2, <2>3 DEF QuantityConserved, TypeOK
<1>4. ASSUME NEW id \in Ids, NEW p \in Prices, NEW q \in Quantities, ShrinkOrder(id, p, q)
      PROVE  QuantityConserved'
  <2> DEFINE n == index[id].orderIt
  <2>1. /\ n \in DOMAIN orders /\ q \in Int /\ orders[n].id = id /\ id \in DOMAIN index
    BY <1>4, ReplacementIsOrder, InputsAreIntegers DEF ShrinkOrder, IndexNeverDangles
  <2>2. /\ DOMAIN orders' = DOMAIN orders /\ orders'[n].remaining = q
        /\ \A m \in DOMAIN orders \ {n} : orders'[m] = orders[m]
        /\ \A m \in DOMAIN orders : orders'[m].id = orders[m].id
    BY <1>4, <2>1, QuantityStep DEF ShrinkOrder, ModifyRestingOrderQuantity
  <2>3. \A m \in DOMAIN orders \ {n} : orders[m].id # id /\ orders[m].id \in Ids
    BY DEF IdentityInv, EveryOrderIndexed, TypeOK, BookTypeOK
  <2>4. /\ owed' = [owed EXCEPT ![id] = q] /\ index' = index
        /\ pc = "idle" /\ pc' = "idle"
    BY <1>4 DEF ShrinkOrder, ModifyRestingOrderQuantity, loopVars
  <2> HIDE DEF n
  <2>5. \A m \in DOMAIN orders' : orders'[m].remaining = owed'[orders'[m].id]
    BY <2>1, <2>2, <2>3, <2>4 DEF QuantityConserved, TypeOK
  <2> QED
    BY <2>1, <2>4, <2>5 DEF QuantityConserved, TypeOK
<1>5. CASE EnterLevel
  BY <1>5 DEF EnterLevel, bookVars, QuantityConserved
<1>6. CASE Fill
  <2> PICK resting \in Order, fill, left \in Int : FillFacts(resting, fill, left)
    BY <1>6, FillStep
  <2>1. /\ pc = "order" /\ pc' = "order" /\ incoming.id \in Ids /\ resting.id \in Ids
        /\ incoming'.id = incoming.id
        /\ incoming.remaining \in Int /\ resting.remaining \in Int
        /\ incoming.id \notin DOMAIN index /\ resting.id \in DOMAIN index
    BY <1>6, FillLists DEF IdentityInv, EveryOrderIndexed, FillFacts, Order
  <2>2. incoming'.remaining = incoming.remaining - fill /\ left = resting.remaining - fill
    BY <2>1 DEF FillFacts, WithRemaining
  <2>3. /\ owed'[incoming.id] = owed[incoming.id] - fill
        /\ owed'[resting.id] = owed[resting.id] - fill
        /\ \A i \in Ids \ {incoming.id, resting.id} : owed'[i] = owed[i]
    BY <2>1 DEF FillFacts
  <2>4. incoming'.remaining = owed'[incoming'.id]
    BY <2>1, <2>2, <2>3 DEF QuantityConserved
  <2>5. owed'[resting.id] = left
    BY <2>2, <2>3 DEF QuantityConserved, FillFacts
  <2>6. ASSUME NEW n \in DOMAIN orders' PROVE orders'[n].remaining = owed'[orders'[n].id]
    <3>1. CASE n = orderIt
      BY <1>6, <2>5, <2>6, <3>1, FillOrders
    <3>2. CASE n # orderIt
      <4>1. n \in DOMAIN orders /\ orders'[n] = orders[n]
        BY <1>6, <2>6, <3>2, FillOrders
      <4>2. orders[n].id \in Ids \ {incoming.id, resting.id}
        <5>1. orders[n].id \in Ids
          BY <4>1 DEF TypeOK, BookTypeOK, Order
        <5>2. /\ orders[n].id \in DOMAIN index /\ index[orders[n].id].orderIt = n
              /\ index[resting.id].orderIt = orderIt
          BY <4>1 DEF IdentityInv, EveryOrderIndexed, FillFacts
        <5> QED
          BY <2>1, <3>2, <5>1, <5>2
      <4> QED
        BY <2>3, <4>1, <4>2 DEF QuantityConserved
    <3> QED
      BY <3>1, <3>2
  <2>7. ASSUME NEW i \in Ids \ DOMAIN index', i # incoming'.id PROVE owed'[i] = 0
    <3>1. CASE i = resting.id
      BY <1>6, <2>1, <2>5, <2>7, <3>1, FillOrders
    <3>2. CASE i # resting.id
      <4>1. i \notin DOMAIN index
        BY <1>6, <2>7, <3>2, FillOrders
      <4> QED
        BY <2>1, <2>3, <2>7, <3>2, <4>1 DEF QuantityConserved
    <3> QED
      BY <3>1, <3>2
  <2> QED
    BY <2>1, <2>4, <2>6, <2>7 DEF QuantityConserved
<1>7. CASE LeaveLevel
  BY <1>7 DEF LeaveLevel, QuantityConserved
<1>8. CASE RestOrFinish
  <2>1. owed' = owed /\ pc = "level" /\ pc' = "idle" /\ incoming.id \in Ids
    BY <1>8 DEF RestOrFinish, TypeOK, Order
  <2>2. CASE IsFullyFilled(incoming)
    BY <1>8, <2>1, <2>2 DEF RestOrFinish, bookVars, QuantityConserved, IsFullyFilled
  <2>3. CASE ~IsFullyFilled(incoming)
    BY <1>8, <2>1, <2>3, AddStep DEF RestOrFinish, QuantityConserved
  <2> QED
    BY <2>2, <2>3
<1>9. CASE UNCHANGED vars
  BY <1>9 DEF vars, bookVars, loopVars, QuantityConserved
<1> QED
  BY <1>1, <1>2, <1>3, <1>4, <1>5, <1>6, <1>7, <1>8, <1>9 DEF Next, Match

\* When no client reuses the id of a resting order, ids tell orders apart and the
\* books of quantities balance; the second needs the first.
LEMMA AccountingInvariance ==
  ASSUME FreedMemoryIntact, IdsOfRestingFresh
  PROVE  Spec => [](IdentityInv /\ QuantityConserved)
<1>1. Init => IdentityInv /\ QuantityConserved
  BY DEF Init, BookInit, IdentityInv, EveryOrderIndexed, QuantityConserved
<1>2. BookInv /\ IdentityInv /\ QuantityConserved /\ [Next]_vars
        => IdentityInv' /\ QuantityConserved'
  BY IdentityStep, QuantitiesStep
<1>3. Spec => []BookInv
  BY BookInvariance, PTL
<1> QED
  BY <1>1, <1>2, <1>3, PTL DEF Spec

\* When no client reuses the id of a resting order, every resting order can be
\* reached by cancel and modify through its id, and ids tell resting orders apart.
THEOREM EveryOrderIsReachable ==
  ASSUME FreedMemoryIntact, IdsOfRestingFresh
  PROVE  Spec => [](EveryOrderIndexed /\ RestingIdsUnique)
<1>1. IdentityInv => EveryOrderIndexed /\ RestingIdsUnique
  BY DEF IdentityInv, EveryOrderIndexed, RestingIdsUnique
<1> QED
  BY <1>1, AccountingInvariance, PTL

\* The reported trades account for every unit of quantity, through partial fills,
\* cancels and modifications, when no client reuses the id of a resting order.
THEOREM OrdersAreAccountedFor ==
  ASSUME FreedMemoryIntact, IdsOfRestingFresh
  PROVE  Spec => []QuantityConserved
  BY AccountingInvariance, PTL

-----------------------------------------------------------------------------
\* Refinement of the ideal book.

\* The ideal book computes what a request does with the operators that predict it here.
LEMMA IdealOutcomes ==
  /\ \A b, t, order : Ideal!Outcome(b, t, order) = Outcome(b, t, order)
  /\ \A b, k : Ideal!Without(b, k) = Without(b, k)
  /\ \A b, t, k, price, quantity :
        Ideal!AmendOutcome(b, t, k, price, quantity) = AmendOutcome(b, t, k, price, quantity)
<1>1. \A X : Ideal!Cardinality(X) = Cardinality(X)
  BY DEF Ideal!Cardinality, Cardinality, Ideal!IsFiniteSet, IsFiniteSet
<1>2. \A X : Ideal!Min(X) = Min(X) /\ Ideal!Max(X) = Max(X)
  BY DEF Ideal!Min, Min, Ideal!Max, Max
<1>3. \A order, price : Ideal!Crosses(order, price) <=> Crosses(order, price)
  BY DEF Ideal!Crosses, Crosses
<1>4. \A b, order : Ideal!Facing(b, order) = Facing(b, order)
  BY <1>3 DEF Ideal!Facing, Facing
<1>5. \A b, order, j, k : Ideal!Ahead(b, order, j, k) <=> Ahead(b, order, j, k)
  BY DEF Ideal!Ahead, Ahead
<1>6. \A b, S : Ideal!Units(b, S) = Units(b, S)
  BY <1>1 DEF Ideal!Units, Units
<1>7. \A b, order, k : Ideal!Wanted(b, order, k) = Wanted(b, order, k)
  BY <1>4, <1>5, <1>6 DEF Ideal!Wanted, Wanted
<1>8. \A b, order : Ideal!Hit(b, order) = Hit(b, order)
  BY <1>4, <1>7 DEF Ideal!Hit, Hit
<1>9. \A b, order, k : Ideal!Taken(b, order, k) = Taken(b, order, k)
  BY <1>2, <1>7 DEF Ideal!Taken, Taken
<1>10. \A b, order : Ideal!Left(b, order) = Left(b, order)
  BY <1>2, <1>4, <1>6 DEF Ideal!Left, Left
<1>11. \A b, order, k : Ideal!Execution(b, order, k) = Execution(b, order, k)
  BY <1>9 DEF Ideal!Execution, Execution
<1>12. \A b, order : Ideal!Staying(b, order) = Staying(b, order)
  BY <1>7, <1>8 DEF Ideal!Staying, Staying
<1>13. \A b, t, order : Ideal!Resting(b, t, order) = Resting(b, t, order)
  BY <1>10 DEF Ideal!Resting, Resting
<1>14. ASSUME NEW b, NEW t, NEW order PROVE Ideal!Outcome(b, t, order) = Outcome(b, t, order)
  <2> DEFINE S == Hit(b, order)
  <2>1. PICK q : q = Ranked(S, LAMBDA j, k : Ahead(b, order, j, k))
    BY Zenon
  <2>2. Ideal!Ranked(S, LAMBDA j, k : Ideal!Ahead(b, order, j, k)) = q
    <3> HIDE DEF S
    <3>1. \A k : {j \in S : Ideal!Ahead(b, order, j, k)} = {j \in S : Ahead(b, order, j, k)}
      BY <1>5
    <3>2. \A k : Ideal!Cardinality({j \in S : Ideal!Ahead(b, order, j, k)})
                   = Cardinality({j \in S : Ahead(b, order, j, k)})
      BY <1>1, <3>1
    <3> DEFINE At(i) == CHOOSE k \in S : Cardinality({j \in S : Ahead(b, order, j, k)}) = i - 1
               IdealAt(i) == CHOOSE k \in S :
                               Ideal!Cardinality({j \in S : Ideal!Ahead(b, order, j, k)}) = i - 1
    <3>3. \A i : At(i) = IdealAt(i)
      BY <3>2
    <3>4. q = [i \in 1 .. Cardinality(S) |-> At(i)]
      BY <2>1 DEF Ranked
    <3>5. Ideal!Ranked(S, LAMBDA j, k : Ideal!Ahead(b, order, j, k))
            = [i \in 1 .. Ideal!Cardinality(S) |-> IdealAt(i)]
      BY Zenon DEF Ideal!Ranked
    <3> HIDE DEF At, IdealAt
    <3>6. Ideal!Cardinality(S) = Cardinality(S)
      BY <1>1
    <3>7. [i \in 1 .. Ideal!Cardinality(S) |-> IdealAt(i)] = q
      BY <3>3, <3>4, <3>6
    <3> QED
      BY <3>5, <3>7, Zenon
  <2>3. PICK B : B =
          [k \in Staying(b, order) \cup Resting(b, t, order) |->
             IF k = t THEN [order EXCEPT !.remaining = Left(b, order)]
             ELSE IF k \in Hit(b, order) THEN [b[k] EXCEPT !.remaining = @ - Taken(b, order, k)]
             ELSE b[k]]
    OBVIOUS
  <2>4. B = [k \in Ideal!Staying(b, order) \cup Ideal!Resting(b, t, order) |->
             IF k = t THEN [order EXCEPT !.remaining = Ideal!Left(b, order)]
             ELSE IF k \in Ideal!Hit(b, order)
             THEN [b[k] EXCEPT !.remaining = @ - Ideal!Taken(b, order, k)]
             ELSE b[k]]
    BY <1>8, <1>9, <1>10, <1>12, <1>13, <2>3
  <2>5. Outcome(b, t, order) =
          [book |-> B, turn |-> t + Cardinality(Resting(b, t, order)),
           report |-> [i \in DOMAIN q |-> Execution(b, order, q[i])]]
    BY <2>1, <2>3, Zenon DEF Outcome
  <2>6. Ideal!Outcome(b, t, order) =
          [book |-> B, turn |-> t + Ideal!Cardinality(Ideal!Resting(b, t, order)),
           report |-> [i \in DOMAIN q |-> Ideal!Execution(b, order, q[i])]]
    <3>1. Ideal!Hit(b, order) = S
      BY <1>8
    <3> HIDE DEF S
    <3> QED
      BY <2>2, <2>4, <3>1, Zenon DEF Ideal!Outcome
  <2>7. [i \in DOMAIN q |-> Ideal!Execution(b, order, q[i])]
          = [i \in DOMAIN q |-> Execution(b, order, q[i])]
    BY <1>11
  <2>8. Ideal!Cardinality(Ideal!Resting(b, t, order)) = Cardinality(Resting(b, t, order))
    BY <1>1, <1>13
  <2> QED
    BY <2>5, <2>6, <2>7, <2>8, Zenon
<1>15. \A b, k : Ideal!Without(b, k) = Without(b, k)
  BY DEF Ideal!Without, Without
<1>16. \A order, price, quantity :
          Ideal!Amended(order, price, quantity) = Amended(order, price, quantity)
  BY DEF Ideal!Amended, Amended
<1>17. ASSUME NEW b, NEW t, NEW k, NEW price, NEW quantity
       PROVE  Ideal!AmendOutcome(b, t, k, price, quantity)
                = AmendOutcome(b, t, k, price, quantity)
  <2>1. Ideal!Outcome(Ideal!Without(b, k), t, Ideal!Amended(b[k], price, quantity))
          = Outcome(Without(b, k), t, Amended(b[k], price, quantity))
    BY <1>14, <1>15, <1>16
  <2> QED
    BY <2>1, Zenon DEF Ideal!AmendOutcome, AmendOutcome
<1> QED
  BY <1>14, <1>15, <1>17

-----------------------------------------------------------------------------
\* What is left of an order is never negative, if nobody asks for a negative quantity.
QuantitiesNatural ==
  /\ \A n \in DOMAIN orders : orders[n].remaining \in Nat
  /\ pc # "idle" => incoming.remaining \in Nat

LEMMA NaturalStep ==
  ASSUME Quantities \subseteq Nat, BookInv, QuantitiesNatural, [Next]_vars
  PROVE  QuantitiesNatural'
<1> USE DEF BookInv
<1>1. ASSUME NEW order \in NewOrder, SubmitOrder(order) PROVE QuantitiesNatural'
  BY <1>1 DEF SubmitOrder, StartMatching, bookVars, NewOrder, QuantitiesNatural
<1>2. ASSUME NEW id \in DOMAIN index, CancelResting(id)
      PROVE  \A n \in DOMAIN orders' : orders'[n].remaining \in Nat
  BY <1>2, CancelStep DEF QuantitiesNatural
<1>3. ASSUME NEW id \in Ids, CancelOrder(id) PROVE QuantitiesNatural'
  <2>1. CASE id \in DOMAIN index
    BY <1>2, <1>3, <2>1 DEF CancelOrder, loopVars, QuantitiesNatural
  <2>2. CASE id \notin DOMAIN index
    BY <1>3, <2>2 DEF CancelOrder, bookVars, loopVars, QuantitiesNatural
  <2> QED
    BY <2>1, <2>2
<1>4. ASSUME NEW id \in Ids, NEW p \in Prices, NEW q \in Quantities, ReplaceOrder(id, p, q)
      PROVE  QuantitiesNatural'
  <2>1. id \in DOMAIN index /\ CancelResting(id) /\ incoming'.remaining = q
    BY <1>4 DEF ReplaceOrder, StartMatching
  <2> QED
    BY <1>2, <2>1 DEF QuantitiesNatural
<1>5. ASSUME NEW id \in Ids, NEW p \in Prices, NEW q \in Quantities, ShrinkOrder(id, p, q)
      PROVE  QuantitiesNatural'
  <2>1. index[id].orderIt \in DOMAIN orders /\ q \in Nat /\ q \in Int
    BY <1>5, ReplacementIsOrder, InputsAreIntegers DEF ShrinkOrder
  <2>2. /\ DOMAIN orders' = DOMAIN orders /\ orders'[index[id].orderIt].remaining = q
        /\ \A m \in DOMAIN orders \ {index[id].orderIt} : orders'[m] = orders[m]
    BY <1>5, <2>1, QuantityStep DEF ShrinkOrder, ModifyRestingOrderQuantity
  <2>3. pc' = "idle"
    BY <1>5 DEF ShrinkOrder, loopVars
  <2> QED
    BY <2>1, <2>2, <2>3 DEF QuantitiesNatural
<1>6. CASE EnterLevel \/ LeaveLevel
  BY <1>6 DEF EnterLevel, LeaveLevel, bookVars, QuantitiesNatural
<1>7. CASE Fill
  <2> PICK resting \in Order, fill, left \in Int : FillFacts(resting, fill, left)
    BY <1>7, FillStep
  <2>1. /\ resting.remaining \in Nat /\ incoming.remaining \in Nat
        /\ fill = Lesser(incoming.remaining, resting.remaining)
        /\ left = resting.remaining - fill
    BY <1>7 DEF FillFacts, QuantitiesNatural, Fill
  <2>2. incoming.remaining - fill \in Nat /\ left \in Nat
    BY <2>1 DEF Lesser
  <2>3. incoming'.remaining \in Nat
    BY <2>2 DEF FillFacts, WithRemaining
  <2>4. \A n \in DOMAIN orders' : orders'[n].remaining \in Nat
    <3>1. CASE FillAll
      BY <3>1 DEF FillAll, QuantitiesNatural
    <3>2. CASE FillPart(left)
      <4>1. /\ DOMAIN orders' = DOMAIN orders /\ orders'[orderIt].remaining = left
            /\ \A m \in DOMAIN orders \ {orderIt} : orders'[m] = orders[m]
        BY <3>2, QuantityStep DEF FillPart, FillFacts
      <4> QED
        BY <2>2, <4>1 DEF QuantitiesNatural
    <3> QED
      BY <3>1, <3>2 DEF FillFacts
  <2> QED
    BY <2>3, <2>4 DEF QuantitiesNatural
<1>8. CASE RestOrFinish
  <2>1. CASE IsFullyFilled(incoming)
    BY <1>8, <2>1 DEF RestOrFinish, bookVars, QuantitiesNatural
  <2>2. CASE ~IsFullyFilled(incoming)
    BY <1>8, <2>2, AddStep DEF RestOrFinish, QuantitiesNatural
  <2> QED
    BY <2>1, <2>2
<1>9. CASE UNCHANGED vars
  BY <1>9 DEF vars, bookVars, loopVars, QuantitiesNatural
<1> QED
  BY <1>1, <1>3, <1>4, <1>5, <1>6, <1>7, <1>8, <1>9 DEF Next, Match

\* The live nodes are a book of the closed form, and the next node is a new turn.
LEMMA EngineIsBook ==
  ASSUME BookInv, QuantitiesNatural
  PROVE  /\ IsBook(orders, Ids) /\ IsFunction(orders)
         /\ nextNode \in Int /\ nextNode \notin DOMAIN orders
         /\ pc # "idle" => incoming \in OrderWith(Ids)
<1>1. /\ nextNode \in Nat /\ DOMAIN orders \in SUBSET (0 .. nextNode - 1)
      /\ orders \in [DOMAIN orders -> Order]
  BY DEF BookInv, TypeOK, BookTypeOK
<1>2. IsFiniteSet(DOMAIN orders)
  <2>1. 0 \in Int /\ nextNode - 1 \in Int
    BY <1>1
  <2>2. IsFiniteSet(0 .. nextNode - 1)
    BY <2>1, FS_Interval
  <2> QED
    BY <1>1, <2>2, FS_Subset
<1>3. \A n \in DOMAIN orders : n \in Int /\ orders[n] \in OrderWith(Ids)
  BY <1>1 DEF QuantitiesNatural, Order, OrderWith
<1>4. pc # "idle" => incoming \in OrderWith(Ids)
  BY DEF BookInv, TypeOK, QuantitiesNatural, Order, OrderWith
<1> QED
  BY <1>1, <1>2, <1>3, <1>4 DEF IsBook, IsFunction

\* The order that is filled is the first in the queue of the closed form.
LEMMA FilledIsFirst ==
  ASSUME BookInv, QuantitiesNatural, Fill
  PROVE  IsFirst(orders, incoming, orderIt)
<1>1. /\ incoming \in OrderWith(Ids) /\ IsBook(orders, Ids)
  BY EngineIsBook DEF Fill
<1>2. \A m \in DOMAIN orders : orders[m].side # incoming.side <=> orders[m].side = FacingSide
  BY <1>1 DEF IsBook, OrderWith, FacingSide, Opposite
<1>3. orderIt \in Facing(orders, incoming)
  BY <1>2, FilledIsBest DEF Facing, Crosses, PricesCross
<1>4. ASSUME NEW m \in Facing(orders, incoming) \ {orderIt}
      PROVE  Ahead(orders, incoming, orderIt, m)
  <2>1. m \in DOMAIN orders \ {orderIt} /\ orders[m].side = FacingSide
    BY <1>2 DEF Facing
  <2>2. \/ Before(FacingSide, levelIt, orders[m].price)
        \/ orders[m].price = levelIt /\ orderIt < m
    BY <2>1, FilledIsBest
  <2>3. orders[orderIt].price = levelIt
    BY FilledIsBest
  <2> QED
    BY <1>1, <2>2, <2>3 DEF Ahead, Before, FacingSide, Opposite, OrderWith
<1> QED
  BY <1>3, <1>4 DEF IsFirst

\* When the matching loop ends with something left, no resting order crosses.
LEMMA NothingCrosses ==
  ASSUME BookInv, QuantitiesNatural, RestOrFinish, ~IsFullyFilled(incoming)
  PROVE  Facing(orders, incoming) = {}
<1> SUFFICES ASSUME NEW m \in Facing(orders, incoming) PROVE FALSE
  OBVIOUS
<1>1. /\ incoming \in OrderWith(Ids) /\ IsBook(orders, Ids)
  BY EngineIsBook DEF RestOrFinish
<1>2. /\ m \in DOMAIN orders /\ orders[m].side = FacingSide
      /\ orders[m].price \in Int /\ Crosses(incoming, orders[m].price)
  BY <1>1 DEF Facing, IsBook, OrderWith, FacingSide, Opposite
<1>3. orders[m].price \in levels[FacingSide]
  BY <1>2 DEF BookInv, LevelsMatchOrders
<1>4. FirstKey(FacingSide, levels[FacingSide], levelIt) /\ levels[FacingSide] \in SUBSET Int
  BY <1>1 DEF BookInv, CursorAtTop, RestOrFinish, TypeOK, BookTypeOK, FacingSide, Opposite
<1>5. /\ levelIt \in levels[FacingSide]
      /\ levelIt = orders[m].price \/ Before(FacingSide, levelIt, orders[m].price)
  BY <1>3, <1>4 DEF FirstKey
<1>6. levelIt # NONE /\ levelIt \in Int
  BY <1>4, <1>5, NoneIsNoValue
<1>7. PricesCross(incoming, levelIt)
  BY <1>1, <1>2, <1>5, <1>6
  DEF PricesCross, Crosses, Before, FacingSide, Opposite, OrderWith
<1> QED
  BY <1>6, <1>7 DEF RestOrFinish, LevelMatches

\* The trades of the call, as executions.
LEMMA ExecutionsTyped ==
  ASSUME TypeOK
  PROVE  /\ Executions \in Seq(ExecutionWith(Ids))
         /\ trades = <<>> => Executions = <<>>
<1>1. trades \in Seq(Trade) /\ DOMAIN trades = 1 .. Len(trades) /\ Len(trades) \in Nat
  BY DEF TypeOK
<1>2. \A k \in DOMAIN trades : trades[k] \in Trade
  BY <1>1
<1>3. Executions \in [1 .. Len(trades) -> ExecutionWith(Ids)]
  BY <1>1, <1>2 DEF Executions, AsExecution, Trade, ExecutionWith
<1>4. Executions \in Seq(ExecutionWith(Ids))
  BY <1>1, <1>3
<1>5. trades = <<>> => Executions = <<>>
  BY DEF Executions
<1> QED
  BY <1>4, <1>5

\* One trade more is one execution more, and what follows it comes after it.
LEMMA ExecutionsGrow ==
  ASSUME TypeOK, TypeOK', NEW trade \in Trade, trades' = Append(trades, trade),
         NEW e, e = AsExecution(trade),
         NEW later \in Seq(ExecutionWith(Ids))
  PROVE  Executions' \o later = Executions \o (<<e>> \o later)
<1>1. e \in ExecutionWith(Ids)
  BY DEF Trade, ExecutionWith, AsExecution
<1>2. Executions \in Seq(ExecutionWith(Ids))
  BY ExecutionsTyped
<1>3. /\ trades \in Seq(Trade) /\ Len(trades) \in Nat /\ DOMAIN trades = 1 .. Len(trades)
      /\ DOMAIN trades' = 1 .. Len(trades) + 1
      /\ trades'[Len(trades) + 1] = trade
      /\ \A k \in 1 .. Len(trades) : trades'[k] = trades[k]
  BY DEF TypeOK
<1>4. PICK u \in Seq(ExecutionWith(Ids)) : u = Executions'
  <2>1. Executions' \in Seq(ExecutionWith(Ids))
    <3>1. trades' \in Seq(Trade)
      BY DEF TypeOK
    <3>2. \A k \in DOMAIN trades' : trades'[k] \in Trade
      BY <3>1
    <3>3. Executions' \in [1 .. Len(trades) + 1 -> ExecutionWith(Ids)]
      BY <1>3, <3>2 DEF Executions, AsExecution, Trade, ExecutionWith
    <3> QED
      BY <1>3, <3>3
  <2> QED
    BY <2>1
<1>10. PICK v \in Seq(ExecutionWith(Ids)) : v = Append(Executions, e)
  BY <1>1, <1>2, AppendProperties, Zenon
<1>5. /\ Len(Executions) = Len(trades) /\ Len(u) = Len(trades) + 1 /\ Len(v) = Len(trades) + 1
      /\ \A k \in 1 .. Len(trades) : v[k] = Executions[k]
      /\ v[Len(trades) + 1] = e
  <2>1. Len(Executions) = Len(trades)
    BY <1>2, <1>3 DEF Executions
  <2>2. DOMAIN u = 1 .. Len(trades) + 1
    BY <1>3, <1>4 DEF Executions
  <2>3. Len(u) = Len(trades) + 1
    BY <1>3, <1>4, <2>2
  <2>4. /\ Len(v) = Len(trades) + 1 /\ \A k \in 1 .. Len(trades) : v[k] = Executions[k]
        /\ v[Len(trades) + 1] = e
    BY <1>1, <1>2, <1>10, <2>1, AppendProperties
  <2> QED
    BY <2>1, <2>3, <2>4
<1>6. ASSUME NEW k \in 1 .. Len(u) PROVE u[k] = v[k]
  <2>1. u[k] = AsExecution(trades'[k])
    BY <1>3, <1>4, <1>5 DEF Executions
  <2>2. CASE k = Len(trades) + 1
    BY <1>3, <1>5, <2>1, <2>2
  <2>3. CASE k # Len(trades) + 1
    <3>1. k \in 1 .. Len(trades)
      BY <1>3, <1>5, <2>3
    <3>2. v[k] = AsExecution(trades[k])
      BY <1>3, <1>5, <3>1 DEF Executions
    <3> QED
      BY <1>3, <2>1, <3>1, <3>2
  <2> QED
    BY <2>2, <2>3
<1>7. u = v
  BY <1>5, <1>6, SeqEqual
<1>8. <<e>> \in Seq(ExecutionWith(Ids)) /\ Append(Executions, e) = Executions \o <<e>>
  BY <1>1, <1>2, AppendIsConcat
<1>9. (Executions \o <<e>>) \o later = Executions \o (<<e>> \o later)
  BY <1>2, <1>8, ConcatAssociative
<1> QED
  BY <1>4, <1>7, <1>8, <1>9, <1>10

\* Each iteration of the inner loop is the next hit of the sweep: the prediction stays.
LEMMA FillKeepsPrediction ==
  ASSUME FreedMemoryIntact, BookInv, QuantitiesNatural, BookInv', QuantitiesNatural', Fill,
         NEW before, before = Outcome(orders, nextNode, incoming),
         NEW after, after = Outcome(orders', nextNode, incoming')
  PROVE  /\ before.book = after.book /\ before.turn = after.turn
         /\ Executions' \o after.report = Executions \o before.report
<1> PICK resting \in Order, fill, left \in Int : FillFacts(resting, fill, left)
  BY FillStep DEF BookInv
<1>1. /\ orderIt \in DOMAIN orders /\ resting = orders[orderIt]
      /\ fill = Lesser(incoming.remaining, resting.remaining)
      /\ incoming.remaining # 0 /\ left = resting.remaining - fill
      /\ (left = 0 /\ FillAll) \/ (left # 0 /\ FillPart(left))
      /\ trades' = Append(trades, MakeTrade(resting, fill))
  BY DEF FillFacts
<1>2. /\ IsBook(orders, Ids) /\ IsFunction(orders)
      /\ nextNode \in Int /\ nextNode \notin DOMAIN orders
      /\ incoming \in OrderWith(Ids)
  BY EngineIsBook DEF Fill
<1>3. /\ IsBook(orders', Ids) /\ IsFunction(orders')
      /\ nextNode' = nextNode /\ nextNode \notin DOMAIN orders'
      /\ incoming' \in OrderWith(Ids)
  <2>1. pc' # "idle" /\ nextNode' = nextNode
    BY DEF Fill
  <2>2. /\ IsBook(orders, Ids)' /\ IsFunction(orders)'
        /\ (nextNode \notin DOMAIN orders)' /\ (pc # "idle" => incoming \in OrderWith(Ids))'
    BY EngineIsBook, PTL
  <2> QED
    BY <2>1, <2>2
<1>4. IsFirst(orders, incoming, orderIt)
  BY FilledIsFirst
<1>5. PICK has, asked \in Nat : has = resting.remaining /\ asked = incoming.remaining
  BY <1>1, <1>2 DEF QuantitiesNatural, OrderWith
<1>6. /\ incoming'.id = incoming.id /\ incoming'.side = incoming.side
      /\ incoming'.price = incoming.price /\ incoming'.remaining = asked - fill
  BY <1>5 DEF FillFacts, WithRemaining
<1>7. PICK e : e = Execution(orders, incoming, orderIt)
  OBVIOUS
<1>8. ASSUME Taken(orders, incoming, orderIt) = fill, before.report = <<e>> \o after.report,
             after.report \in Seq(ExecutionWith(Ids))
      PROVE  Executions' \o after.report = Executions \o before.report
  <2>1. PICK trade \in Trade : trade = MakeTrade(resting, fill)
    <3>1. MakeTrade(resting, fill) \in Trade
      BY <1>1, <1>2, FilledIsBest
      DEF MakeTrade, Trade, BookInv, TypeOK, OrderWith, Order, IsBook
    <3> QED
      BY <3>1
  <2>2. e = AsExecution(trade)
    BY <1>1, <1>7, <1>8, <2>1, FilledIsBest DEF Execution, MakeTrade, AsExecution
  <2>3. TypeOK /\ TypeOK' /\ trades' = Append(trades, trade)
    BY <1>1, <2>1 DEF BookInv
  <2>4. PICK later \in Seq(ExecutionWith(Ids)) : later = after.report
    BY <1>8
  <2>5. Executions' \o later = Executions \o (<<e>> \o later)
    BY <2>2, <2>3, ExecutionsGrow, Zenon
  <2> QED
    BY <1>8, <2>4, <2>5
<1>9. after.report \in Seq(ExecutionWith(Ids))
  BY <1>3, ReportInOrder DEF ReportedInOrder
<1>10. IsUsedUp(orders, incoming, orderIt, orders', incoming') \/ IsEnough(orders, incoming, orderIt, orders', incoming')
  <2>1. CASE left = 0
    <3>1. has <= asked /\ fill = has
      BY <1>1, <1>5, <2>1 DEF Lesser
    <3>2. /\ DOMAIN orders' = DOMAIN orders \ {orderIt}
          /\ \A n \in DOMAIN orders' : orders'[n] = orders[n]
      BY <1>1, <2>1 DEF FillAll
    <3> QED
      BY <1>1, <1>5, <1>6, <3>1, <3>2 DEF IsUsedUp
  <2>2. CASE left # 0
    <3>1. asked < has /\ fill = asked /\ left = has - asked /\ incoming'.remaining = 0
      BY <1>1, <1>5, <1>6, <2>2 DEF Lesser
    <3>2. /\ DOMAIN orders' = DOMAIN orders /\ orders'[orderIt].remaining = left
          /\ \A m \in DOMAIN orders \ {orderIt} : orders'[m] = orders[m]
          /\ \A m \in DOMAIN orders : /\ orders'[m].id = orders[m].id
                                      /\ orders'[m].side = orders[m].side
                                      /\ orders'[m].price = orders[m].price
      BY <1>1, <2>2, QuantityStep DEF FillPart, BookInv
    <3> QED
      BY <1>1, <1>5, <3>1, <3>2 DEF IsEnough
  <2> QED
    BY <2>1, <2>2
<1>11. /\ HitsThen(orders, nextNode, incoming, orderIt, orders', incoming')
       /\ Taken(orders, incoming, orderIt) = fill
  <2>1. PICK c, rest : c = orders' /\ rest = incoming'
    OBVIOUS
  <2>2. CASE IsUsedUp(orders, incoming, orderIt, c, rest)
    <3>1. HitsThen(orders, nextNode, incoming, orderIt, c, rest) /\ Taken(orders, incoming, orderIt) = has
      BY <1>1, <1>2, <1>3, <1>4, <1>5, <2>1, <2>2, SweepGoesOn
    <3>2. fill = has
      BY <1>1, <1>3, <1>5, <2>1, <2>2 DEF IsUsedUp, Lesser, OrderWith
    <3> QED
      BY <2>1, <3>1, <3>2
  <2>3. CASE IsEnough(orders, incoming, orderIt, c, rest)
    <3>1. HitsThen(orders, nextNode, incoming, orderIt, c, rest) /\ Taken(orders, incoming, orderIt) = asked
      BY <1>1, <1>2, <1>3, <1>4, <1>5, <2>1, <2>3, SweepEnds
    <3>2. fill = asked
      BY <1>1, <1>5, <2>3 DEF IsEnough, Lesser
    <3> QED
      BY <2>1, <3>1, <3>2
  <2> QED
    BY <1>10, <2>1, <2>2, <2>3
<1> QED
  BY <1>7, <1>8, <1>9, <1>11 DEF HitsThen

\* What the refinement rests on: where the cursors stand, that ids tell orders apart, and
\* that no quantity is negative.
RefinementInv == BookInv /\ IdentityInv /\ QuantitiesNatural

\* Between calls the mapped book is the book, and the report is that of the last call.
LEMMA MappedIdle ==
  ASSUME TypeOK, pc = "idle"
  PROVE  /\ Predicted.book = orders /\ Predicted.turn = nextNode
         /\ Executions \o Predicted.report = Executions
<1>1. Executions \o <<>> = Executions
  BY ExecutionsTyped, ConcatEmptySeq
<1> QED
  BY <1>1 DEF Predicted

\* When a call starts, the mapped state becomes the outcome of the request.
LEMMA MappedStart ==
  ASSUME RefinementInv', pc' # "idle", trades' = <<>>,
         NEW outcome, outcome = Outcome(orders', nextNode', incoming')
  PROVE  /\ Predicted'.book = outcome.book /\ Predicted'.turn = outcome.turn
         /\ Executions' \o Predicted'.report = outcome.report
<1>1. Predicted' = outcome
  BY DEF Predicted
<1>2. Executions' = <<>>
  BY DEF Executions
<1>3. outcome.report \in Seq(ExecutionWith(Ids))
  <2>1. IsBook(orders, Ids)' /\ (pc # "idle" => incoming \in OrderWith(Ids))'
    BY EngineIsBook, PTL DEF RefinementInv
  <2> QED
    BY <2>1, ReportInOrder DEF ReportedInOrder
<1>4. <<>> \o outcome.report = outcome.report
  BY <1>3, ConcatEmptySeq
<1> QED
  BY <1>1, <1>2, <1>4

\* A step of the matching loop that touches no order leaves the mapped state as it is.
LEMMA MappedLoop ==
  ASSUME pc # "idle", pc' # "idle", UNCHANGED <<orders, nextNode, incoming, trades>>
  PROVE  UNCHANGED <<Predicted, Executions>>
  BY DEF Predicted, Executions

\* submitOrder with a new order is Submit, at the moment of the call.
LEMMA SubmitRefines ==
  ASSUME IdsOfRestingFresh, RefinementInv, RefinementInv', NEW order \in NewOrder, SubmitOrder(order)
  PROVE  Ideal!Submit(order)
<1>1. /\ Predicted.book = orders /\ Predicted.turn = nextNode
  BY MappedIdle DEF RefinementInv, BookInv, SubmitOrder
<1>2. /\ pc' # "idle" /\ trades' = <<>> /\ orders' = orders /\ nextNode' = nextNode
      /\ incoming' = order
  BY DEF SubmitOrder, StartMatching, bookVars
<1>3. PICK outcome : outcome = Outcome(orders, nextNode, order)
  OBVIOUS
<1>4. /\ Predicted'.book = outcome.book /\ Predicted'.turn = outcome.turn
      /\ Executions' \o Predicted'.report = outcome.report
  BY <1>2, <1>3, MappedStart
<1>5. \A k \in DOMAIN orders : orders[k].id # order.id
  BY DEF RefinementInv, IdentityInv, EveryOrderIndexed, SubmitOrder
<1>6. Ideal!Outcome(Predicted.book, Predicted.turn, order) = outcome
  BY <1>1, <1>3, IdealOutcomes
<1> QED
  BY <1>1, <1>4, <1>5, <1>6 DEF Ideal!Submit, Ideal!Becomes

\* cancelOrder is Cancel, or does nothing.
LEMMA CancelRefines ==
  ASSUME RefinementInv, RefinementInv', NEW id \in Ids, CancelOrder(id)
  PROVE  \/ \E k \in DOMAIN Predicted.book : Ideal!Cancel(k)
         \/ UNCHANGED Ideal!vars
<1>1. /\ Predicted.book = orders /\ Predicted.turn = nextNode
  BY MappedIdle DEF RefinementInv, BookInv, CancelOrder
<1>2. pc = "idle" /\ pc' = "idle" /\ trades' = trades
  BY DEF CancelOrder, loopVars
<1>3. /\ Predicted'.book = orders' /\ Predicted'.turn = nextNode'
      /\ Predicted.report = <<>> /\ Predicted'.report = <<>> /\ Executions' = Executions
  BY <1>2 DEF Predicted, Executions
<1>4. CASE id \in DOMAIN index
  <2>1. PICK k \in DOMAIN orders : k = index[id].orderIt
    BY <1>4 DEF RefinementInv, BookInv, IndexNeverDangles
  <2>2. orders' = Without(orders, k) /\ nextNode' = nextNode
    BY <1>4, <2>1 DEF CancelOrder, CancelResting, RemoveFromLevel, Without
  <2>3. Ideal!Without(Predicted.book, k) = Without(orders, k)
    BY <1>1, IdealOutcomes
  <2>4. Ideal!Cancel(k)
    BY <1>1, <1>3, <2>2, <2>3 DEF Ideal!Cancel
  <2> QED
    BY <1>1, <2>1, <2>4
<1>5. CASE id \notin DOMAIN index
  <2>1. orders' = orders /\ nextNode' = nextNode
    BY <1>5 DEF CancelOrder, bookVars
  <2> QED
    BY <1>1, <1>3, <2>1 DEF Ideal!vars
<1> QED
  BY <1>4, <1>5

\* modifyOrder that gives up time priority is Amend, when its new order is submitted.
LEMMA ReplaceRefines ==
  ASSUME RefinementInv, RefinementInv', NEW id \in Ids, NEW p \in Prices, NEW q \in Quantities,
         ReplaceOrder(id, p, q)
  PROVE  \E k \in DOMAIN Predicted.book : Ideal!Amend(k, p, q)
<1>1. /\ Predicted.book = orders /\ Predicted.turn = nextNode
  BY MappedIdle DEF RefinementInv, BookInv, ReplaceOrder
<1>2. PICK k \in DOMAIN orders : /\ k = index[id].orderIt /\ orders[k].id = id
                                 /\ orders[k] \in Order
  BY DEF RefinementInv, BookInv, IndexNeverDangles, ReplaceOrder, TypeOK, BookTypeOK
<1>3. /\ pc' # "idle" /\ trades' = <<>> /\ nextNode' = nextNode
      /\ orders' = Without(orders, k)
      /\ incoming' = [id |-> id, side |-> orders[k].side, price |-> p, remaining |-> q]
  BY <1>2 DEF ReplaceOrder, StartMatching, CancelResting, RemoveFromLevel, Without
<1>4. incoming' = Amended(orders[k], p, q)
  <2>1. PICK mid : mid = [id |-> id, side |-> orders[k].side,
                          price |-> p, remaining |-> orders[k].remaining]
    OBVIOUS
  <2>2. mid = [orders[k] EXCEPT !.price = p]
    BY <1>2, <2>1 DEF Order
  <2>3. incoming' = [mid EXCEPT !.remaining = q]
    BY <1>3, <2>1
  <2> QED
    BY <2>2, <2>3 DEF Amended
<1>5. ~(p = orders[k].price /\ q <= orders[k].remaining)
  BY <1>2, InputsAreIntegers DEF ReplaceOrder, LosesPriority, Order
<1>6. PICK outcome : outcome = Outcome(Without(orders, k), nextNode, Amended(orders[k], p, q))
  OBVIOUS
<1>7. AmendOutcome(orders, nextNode, k, p, q) = outcome
  BY <1>5, <1>6, Zenon DEF AmendOutcome
<1>8. /\ Predicted'.book = outcome.book /\ Predicted'.turn = outcome.turn
      /\ Executions' \o Predicted'.report = outcome.report
  BY <1>3, <1>4, <1>6, MappedStart
<1>9. Ideal!AmendOutcome(Predicted.book, Predicted.turn, k, p, q) = outcome
  BY <1>1, <1>7, IdealOutcomes
<1>10. Ideal!Amend(k, p, q)
  BY <1>8, <1>9 DEF Ideal!Amend, Ideal!Becomes
<1> QED
  BY <1>1, <1>10

\* modifyOrder that keeps time priority is Amend as well.
LEMMA ShrinkRefines ==
  ASSUME RefinementInv, RefinementInv', NEW id \in Ids, NEW p \in Prices, NEW q \in Quantities,
         ShrinkOrder(id, p, q)
  PROVE  \E k \in DOMAIN Predicted.book : Ideal!Amend(k, p, q)
<1>1. /\ Predicted.book = orders /\ Predicted.turn = nextNode
  BY MappedIdle DEF RefinementInv, BookInv, ShrinkOrder
<1>2. PICK k \in DOMAIN orders : k = index[id].orderIt /\ orders[k] \in Order
  BY DEF RefinementInv, BookInv, IndexNeverDangles, ShrinkOrder, TypeOK, BookTypeOK
<1>3. p = orders[k].price /\ q <= orders[k].remaining
  BY <1>2, InputsAreIntegers DEF ShrinkOrder, LosesPriority, Order
<1>4. PICK new : new = WithRemaining(orders[k], q)
  OBVIOUS
<1>5. new = [orders[k] EXCEPT !.remaining = q]
  BY <1>2, <1>4 DEF WithRemaining, Order
<1>6. /\ pc' = "idle" /\ trades' = <<>> /\ nextNode' = nextNode
      /\ orders' = [orders EXCEPT ![k] = new]
  BY <1>2, <1>4 DEF ShrinkOrder, ModifyRestingOrderQuantity, loopVars
<1>7. AmendOutcome(orders, nextNode, k, p, q)
        = [book |-> orders', turn |-> nextNode, report |-> <<>>]
  BY <1>3, <1>5, <1>6, Zenon DEF AmendOutcome
<1>8. /\ Predicted'.book = orders' /\ Predicted'.turn = nextNode'
      /\ Executions' \o Predicted'.report = <<>>
  <2>1. Executions' = <<>> /\ Predicted'.report = <<>>
    BY <1>6 DEF Executions, Predicted
  <2> QED
    BY <1>6, <2>1 DEF Predicted
<1>9. Ideal!AmendOutcome(Predicted.book, Predicted.turn, k, p, q)
        = [book |-> orders', turn |-> nextNode, report |-> <<>>]
  BY <1>1, <1>7, IdealOutcomes
<1>10. Ideal!Amend(k, p, q)
  BY <1>6, <1>8, <1>9 DEF Ideal!Amend, Ideal!Becomes
<1> QED
  BY <1>1, <1>10

\* The matching loop goes through the sweep that was predicted, to its end.
LEMMA MatchRefines ==
  ASSUME FreedMemoryIntact, RefinementInv, RefinementInv', Match
  PROVE  UNCHANGED Ideal!vars
<1>1. CASE EnterLevel \/ LeaveLevel
  <2>1. pc # "idle" /\ pc' # "idle" /\ UNCHANGED <<orders, nextNode, incoming, trades>>
    BY <1>1 DEF EnterLevel, LeaveLevel, bookVars
  <2> QED
    BY <2>1, MappedLoop DEF Ideal!vars
<1>2. CASE Fill
  <2>1. pc # "idle" /\ pc' # "idle" /\ nextNode' = nextNode
    BY <1>2 DEF Fill
  <2>2. PICK before, after : /\ before = Outcome(orders, nextNode, incoming)
                             /\ after = Outcome(orders', nextNode, incoming')
    OBVIOUS
  <2>3. Predicted = before /\ Predicted' = after
    BY <2>1, <2>2 DEF Predicted
  <2>4. /\ before.book = after.book /\ before.turn = after.turn
        /\ Executions' \o after.report = Executions \o before.report
    BY <1>2, <2>2, FillKeepsPrediction DEF RefinementInv
  <2> QED
    BY <2>3, <2>4 DEF Ideal!vars
<1>3. CASE RestOrFinish
  <2>1. pc # "idle" /\ pc' = "idle" /\ trades' = trades
    BY <1>3 DEF RestOrFinish
  <2>2. /\ IsBook(orders, Ids) /\ IsFunction(orders) /\ nextNode \in Int
        /\ nextNode \notin DOMAIN orders /\ incoming \in OrderWith(Ids)
    BY <2>1, EngineIsBook DEF RefinementInv
  <2>3. incoming.remaining = 0 \/ Facing(orders, incoming) = {}
    BY <1>3, NothingCrosses DEF RefinementInv, IsFullyFilled
  <2>4. JustRests(orders, nextNode, incoming)
    BY <2>2, <2>3, NothingHit
  <2>5. Predicted = Outcome(orders, nextNode, incoming)
    BY <2>1 DEF Predicted
  <2>6. /\ Predicted'.book = orders' /\ Predicted'.turn = nextNode'
        /\ Predicted'.report = <<>> /\ Executions' = Executions
    BY <2>1 DEF Predicted, Executions
  <2>7. CASE IsFullyFilled(incoming)
    <3>1. orders' = orders /\ nextNode' = nextNode
      BY <1>3, <2>7 DEF RestOrFinish, bookVars
    <3> QED
      BY <2>4, <2>5, <2>6, <2>7, <3>1 DEF JustRests, IsFullyFilled, Ideal!vars
  <2>8. CASE ~IsFullyFilled(incoming)
    <3>1. /\ orders' = [k \in DOMAIN orders \cup {nextNode} |->
                          IF k = nextNode THEN incoming ELSE orders[k]]
          /\ nextNode' = nextNode + 1
      BY <1>3, <2>8 DEF RestOrFinish, AddOrder
    <3>2. /\ Predicted.book = orders' /\ Predicted.turn = nextNode' /\ Predicted.report = <<>>
      BY <2>4, <2>5, <2>8, <3>1 DEF JustRests, IsFullyFilled
    <3> QED
      BY <2>6, <3>2 DEF Ideal!vars
  <2> QED
    BY <2>7, <2>8
<1> QED
  BY <1>1, <1>2, <1>3 DEF Match

\* The engine implements the ideal book of its symbol, for any number of orders, at any
\* prices and for any quantities that are not negative: whatever the loops of
\* matchAgainst do with levels, lists, iterators and the index, every call has the effect
\* and the trades that price-time priority prescribes for it, and nothing happens in between.
THEOREM EngineIsPriceTimeBook ==
  ASSUME FreedMemoryIntact, IdsOfRestingFresh, Quantities \subseteq Nat
  PROVE  Spec => ImplementsPriceTimeBook
<1>1. Init => QuantitiesNatural
  BY DEF Init, BookInit, QuantitiesNatural
<1>2. Spec => []RefinementInv
  <2>1. BookInv /\ QuantitiesNatural /\ [Next]_vars => QuantitiesNatural'
    BY NaturalStep
  <2>2. Spec => []BookInv
    BY BookInvariance, PTL
  <2>3. Spec => []IdentityInv
    BY AccountingInvariance, PTL
  <2> QED
    BY <1>1, <2>1, <2>2, <2>3, PTL DEF Spec, RefinementInv
<1>3. Init => Ideal!Init
  <2> SUFFICES ASSUME Init PROVE Ideal!Init
    OBVIOUS
  <2>1. Executions = <<>> /\ Predicted.report = <<>>
    BY DEF Init, Executions, Predicted
  <2>2. Predicted.book = [k \in {} |-> 0] /\ Predicted.turn = 0
    BY DEF Init, BookInit, Predicted
  <2> QED
    BY <2>1, <2>2 DEF Ideal!Init
<1>4. RefinementInv /\ RefinementInv' /\ [Next]_vars => [Ideal!Next]_(Ideal!vars)
  <2> SUFFICES ASSUME RefinementInv, RefinementInv', [Next]_vars
               PROVE  Ideal!Next \/ UNCHANGED Ideal!vars
    OBVIOUS
  <2>1. ASSUME NEW order \in NewOrder, SubmitOrder(order) PROVE Ideal!Next
    BY <2>1, SubmitRefines DEF Ideal!Next, NewOrder
  <2>2. ASSUME NEW id \in Ids, CancelOrder(id) PROVE Ideal!Next \/ UNCHANGED Ideal!vars
    BY <2>2, CancelRefines DEF Ideal!Next
  <2>3. ASSUME NEW id \in Ids, NEW p \in Prices, NEW q \in Quantities,
               ReplaceOrder(id, p, q) \/ ShrinkOrder(id, p, q)
        PROVE  Ideal!Next
    BY <2>3, ReplaceRefines, ShrinkRefines DEF Ideal!Next
  <2>4. CASE Match
    BY <2>4, MatchRefines
  <2>5. CASE UNCHANGED vars
    BY <2>5 DEF vars, bookVars, loopVars, Ideal!vars, Predicted, Executions
  <2> QED
    BY <2>1, <2>2, <2>3, <2>4, <2>5 DEF Next
<1> QED
  BY <1>2, <1>3, <1>4, PTL DEF Spec, ImplementsPriceTimeBook, Ideal!Spec
=============================================================================
