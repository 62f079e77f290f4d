------------------------------ MODULE OrderBook ------------------------------
(***************************************************************************)
(* The order book of one symbol (OrderBook.hpp, PriceLevel.hpp, Order.hpp):*)
(* two maps from a price to a FIFO list of orders, and a side-index from   *)
(* an order id to the place of its order.  The book does nothing by        *)
(* itself; its operations are the building blocks of MatchingEngine.       *)
(*                                                                         *)
(* A list node is a natural number, given out in the order of push_back,   *)
(* so the list of a level is its nodes in increasing order and an iterator *)
(* is a node (or NONE, the end iterator).  The orders of all levels are    *)
(* one function `orders' from the live nodes; the keys of the two maps are *)
(* kept apart in `levels', as in the code, where a map entry can outlive   *)
(* its last order.                                                         *)
(***************************************************************************)
EXTENDS Integers

CONSTANTS
    Ids,        \* order ids that clients send
    Prices,     \* prices that clients send
    Quantities, \* quantities that clients send
    NONE        \* end iterator, absent order, an id that no client sends

ASSUME InputsAreIntegers == Prices \subseteq Int /\ Quantities \subseteq Int
ASSUME NoneIsNoValue == NONE \notin Int /\ NONE \notin Ids

VARIABLES
    orders,   \* live list node -> Order stored in it
    nextNode, \* the node the next push_back will create
    levels,   \* side -> prices that have an entry in that side's map
    index     \* index_: order id -> OrderLocation

bookVars == <<orders, nextNode, levels, index>>

Sides == {"Buy", "Sell"}

Opposite(side) == IF side = "Buy" THEN "Sell" ELSE "Buy"

\* Order: what matching and the index read of it.
Order == [id : Ids, side : Sides, price : Int, remaining : Int]

\* OrderLocation: side and price are copies made when the order was added.
OrderLocation == [side : Sides, price : Int, orderIt : Nat]

BookTypeOK ==
    /\ nextNode \in Nat
    /\ DOMAIN orders \subseteq 0 .. nextNode - 1
    /\ orders \in [DOMAIN orders -> Order]
    /\ levels \in [Sides -> SUBSET Int]
    /\ DOMAIN index \subseteq Ids
    /\ index \in [DOMAIN index -> OrderLocation]

BookInit ==
    /\ orders = [n \in {} |-> NONE]
    /\ nextNode = 0
    /\ levels = [s \in Sides |-> {}]
    /\ index = [i \in {} |-> NONE]

-----------------------------------------------------------------------------
\* The list of one price level.
Level(side, price) ==
    {n \in DOMAIN orders : orders[n].side = side /\ orders[n].price = price}

\* Key comparison of the two maps: greater<Price> for bids, less<Price> for asks.
Before(side, p, q) == IF side = "Buy" THEN p > q ELSE p < q

\* p is the first key of S in map order, or the end iterator if there is none.
\* FirstKey(s, levels[s], p) is begin() of the map, and bestBid() or bestAsk().
FirstKey(side, S, p) ==
    IF S = {} THEN p = NONE
              ELSE p \in S /\ \A q \in S : q = p \/ Before(side, p, q)

\* Mutant: the newest order of a level goes first.
NewestNode(S, n) ==
    IF S = {} THEN n = NONE ELSE n \in S /\ \A m \in S : n >= m

\* n is the first list node of S, or the end iterator if there is none.
FirstNode(S, n) ==
    IF S = {} THEN n = NONE ELSE n \in S /\ \A m \in S : n <= m

IsFullyFilled(order) == order.remaining = 0

\* What applyFill and modify do to an order: only its quantity changes, modify
\* being called with the price the order has.
WithRemaining(order, quantity) ==
    [id |-> order.id, side |-> order.side, price |-> order.price,
     remaining |-> quantity]

-----------------------------------------------------------------------------
\* index_.erase(id).
IndexWithout(id) == [i \in DOMAIN index \ {id} |-> index[i]]

\* Mutant: the index gets the end iterator instead of the one before it.
AddOrderAtEnd(order) ==
    LET location == [side |-> order.side, price |-> order.price, orderIt |-> NONE]
    IN /\ levels' = [levels EXCEPT ![order.side] = @ \cup {order.price}]
       /\ orders' = [n \in DOMAIN orders \cup {nextNode} |->
                        IF n = nextNode THEN order ELSE orders[n]]
       /\ nextNode' = nextNode + 1
       /\ index' = [i \in DOMAIN index \cup {order.id} |->
                        IF i \in DOMAIN index THEN index[i] ELSE location]

\* Mutant: the order rests without an entry in the index.
AddOrderUnindexed(order) ==
    /\ levels' = [levels EXCEPT ![order.side] = @ \cup {order.price}]
    /\ orders' = [n \in DOMAIN orders \cup {nextNode} |->
                     IF n = nextNode THEN order ELSE orders[n]]
    /\ nextNode' = nextNode + 1
    /\ UNCHANGED index

\* addOrder: create the level if needed, append, and enter the index; emplace
\* leaves an entry that is already there as it is.
AddOrder(order) ==
    LET location ==
          [side |-> order.side, price |-> order.price, orderIt |-> nextNode]
    IN /\ levels' = [levels EXCEPT ![order.side] = @ \cup {order.price}]
       /\ orders' = [n \in DOMAIN orders \cup {nextNode} |->
                        IF n = nextNode THEN order ELSE orders[n]]
       /\ nextNode' = nextNode + 1
       /\ index' = [i \in DOMAIN index \cup {order.id} |->
                        IF i \in DOMAIN index THEN index[i] ELSE location]

\* Mutant: the map entry stays when its list becomes empty.
RemoveFromLevelOnly(location) ==
    /\ orders' = [n \in DOMAIN orders \ {location.orderIt} |-> orders[n]]
    /\ UNCHANGED levels

\* removeFromLevel: erase the node, and the map entry once its list is empty.
\* The entry is found through the price copied into the location.
RemoveFromLevel(location) ==
    /\ orders' = [n \in DOMAIN orders \ {location.orderIt} |-> orders[n]]
    /\ levels' =
         IF Level(location.side, location.price) \ {location.orderIt} = {}
         THEN [levels EXCEPT ![location.side] = @ \ {location.price}]
         ELSE levels

\* cancelOrder for an id that is in the index; any other id changes nothing.
CancelResting(id) ==
    /\ RemoveFromLevel(index[id])
    /\ index' = IndexWithout(id)
    /\ UNCHANGED nextNode

\* modifyRestingOrderQuantity: the node stays where it is in its list.
ModifyRestingOrderQuantity(id, quantity) ==
    /\ orders' = [orders EXCEPT ![index[id].orderIt] = WithRemaining(@, quantity)]
    /\ UNCHANGED <<nextNode, levels, index>>

-----------------------------------------------------------------------------
\* Every entry of the index leads to the live order of that id, and its copies
\* of side and price agree with that order: cancelOrder, findOrder and
\* removeFromLevel never follow a dangling or stale OrderLocation.
IndexNeverDangles ==
    \A i \in DOMAIN index :
        /\ index[i].orderIt \in DOMAIN orders
        /\ orders[index[i].orderIt].id = i
        /\ orders[index[i].orderIt].side = index[i].side
        /\ orders[index[i].orderIt].price = index[i].price

\* Every resting order can be found by its id, and at its own node: no order is
\* left in a price level where cancel and modify cannot reach it.
EveryOrderIndexed ==
    \A n \in DOMAIN orders :
        orders[n].id \in DOMAIN index /\ index[orders[n].id].orderIt = n

\* The bids are below the asks: nothing that could trade is left resting, and
\* no map entry, not even an empty one, makes the book look crossed.
BookNotCrossed ==
    \A bid \in levels["Buy"], ask \in levels["Sell"] : bid < ask
=============================================================================
