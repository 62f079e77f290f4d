--------------------------- MODULE MatchingEngine ---------------------------
(***************************************************************************)
(* The matching engine of one symbol (MatchingEngine.hpp).  A request runs *)
(* to completion on one thread before the next one starts.  The matching   *)
(* loop of submitOrder is modelled one iteration per step, with the two    *)
(* iterators and the by-value incoming order of the code, so that the      *)
(* invariants say what the loop relies on half way through a sweep.        *)
(***************************************************************************)
EXTENDS OrderBook, Sequences

CONSTANTS
    MaxNodes,          \* bound on the list nodes ever created
    IdsOfRestingFresh, \* no client reuses the id of an order still resting
    FreedMemoryIntact  \* the allocator leaves the id in an erased list node

ASSUME BoundsAndSwitches ==
    /\ MaxNodes \in Nat
    /\ IdsOfRestingFresh \in BOOLEAN
    /\ FreedMemoryIntact \in BOOLEAN

VARIABLES
    pc,          \* "idle", or where matchAgainst is: "level" or "order" loop
    incoming,    \* the order being submitted
    levelIt,     \* outer iterator: a price of the opposite side
    orderIt,     \* inner iterator: a node of the level at levelIt
    trades,      \* the vector this call returns
    nextTradeId, \* nextTradeId_
    owed         \* history: per id, quantity last asked for less reported fills

loopVars == <<pc, incoming, levelIt, orderIt>>
vars == <<bookVars, loopVars, trades, nextTradeId, owed>>

Trade == [id : Nat, buy : Ids, sell : Ids, price : Int, quantity : Int]

TypeOK ==
    /\ BookTypeOK
    /\ pc \in {"idle", "level", "order"}
    /\ IF pc = "idle" THEN incoming = NONE ELSE incoming \in Order
    /\ levelIt \in Int \cup {NONE}
    /\ orderIt \in Nat \cup {NONE}
    /\ trades \in Seq(Trade)
    /\ nextTradeId \in Nat
    /\ owed \in [Ids -> Int]

Init ==
    /\ BookInit
    /\ pc = "idle"
    /\ incoming = NONE
    /\ levelIt = NONE
    /\ orderIt = NONE
    /\ trades = <<>>
    /\ nextTradeId = 1
    /\ owed = [i \in Ids |-> 0]

-----------------------------------------------------------------------------
\* Mutant: an equal price does not cross.
PricesCrossStrictly(order, oppositePrice) ==
    IF order.side = "Buy" THEN order.price > oppositePrice
                          ELSE order.price < oppositePrice

PricesCross(order, oppositePrice) ==
    IF order.side = "Buy" THEN order.price >= oppositePrice
                          ELSE order.price <= oppositePrice

Lesser(a, b) == IF a <= b THEN a ELSE b

\* The side of the book that the incoming order is matched against.
FacingSide == Opposite(incoming.side)

\* Entry of submitOrder and matchAgainst: levelIt = oppositeLevels.begin().
\* The book whose levels are `lv' is the one that matching starts from.
StartMatching(order, lv) ==
    /\ pc' = "level"
    /\ incoming' = order
    /\ \E p \in lv[Opposite(order.side)] \cup {NONE} :
          FirstKey(Opposite(order.side), lv[Opposite(order.side)], p) /\ levelIt' = p
    /\ trades' = <<>>
    /\ owed' = [owed EXCEPT ![order.id] = order.remaining]
    /\ UNCHANGED <<orderIt, nextTradeId>>

\* submitOrder called with a client's new order.
SubmitOrder(order) ==
    /\ pc = "idle"
    /\ nextNode < MaxNodes
    /\ IdsOfRestingFresh => order.id \notin DOMAIN index
    /\ StartMatching(order, levels)
    /\ UNCHANGED bookVars

\* Mutant: the sweep does not stop at the order's limit.
LevelMatchesAtAnyPrice == levelIt # NONE /\ ~IsFullyFilled(incoming)

\* The loop condition of matchAgainst's outer loop, and its break.
LevelMatches ==
    levelIt # NONE /\ ~IsFullyFilled(incoming) /\ PricesCross(incoming, levelIt)

EnterLevel ==
    /\ pc = "level"
    /\ LevelMatches
    /\ pc' = "order"
    /\ \E n \in Level(FacingSide, levelIt) \cup {NONE} :
          FirstNode(Level(FacingSide, levelIt), n) /\ orderIt' = n
    /\ UNCHANGED <<bookVars, incoming, levelIt, trades, nextTradeId, owed>>

MakeTrade(resting, fill) ==
    [id |-> nextTradeId,
     buy |-> IF incoming.side = "Buy" THEN incoming.id ELSE resting.id,
     sell |-> IF incoming.side = "Buy" THEN resting.id ELSE incoming.id,
     price |-> levelIt, quantity |-> fill]

\* What resting.id() can yield once the list node has been erased: the read is
\* of freed memory, and what it holds is up to the allocator.  (What happens once
\* a dangling entry is followed is undefined altogether, and is not modelled.)
IdReadAfterErase(id) == IF FreedMemoryIntact THEN {id} ELSE Ids \cup {NONE}

\* Mutant: a partial fill is not applied to the resting order.
FillPartUnapplied(left) == UNCHANGED <<orders, index>>

\* A resting order that keeps its place, partially filled.
FillPart(left) ==
    /\ orders' = [orders EXCEPT ![orderIt] = WithRemaining(@, left)]
    /\ UNCHANGED index

\* Mutant: the index is not told that the order is gone.
FillAllUnforgotten ==
    /\ orders' = [n \in DOMAIN orders \ {orderIt} |-> orders[n]]
    /\ UNCHANGED index

\* A resting order that is used up leaves its list and then the index.
FillAll ==
    /\ orders' = [n \in DOMAIN orders \ {orderIt} |-> orders[n]]
    /\ \E id \in IdReadAfterErase(orders[orderIt].id) : index' = IndexWithout(id)

\* One iteration of the inner loop.
Fill ==
    /\ pc = "order"
    /\ orderIt # NONE
    /\ ~IsFullyFilled(incoming)
    /\ LET resting == orders[orderIt]
           fill == Lesser(incoming.remaining, resting.remaining)
           left == resting.remaining - fill
       IN /\ incoming' = WithRemaining(incoming, incoming.remaining - fill)
          /\ IF left = 0 THEN FillAll ELSE FillPart(left)
          /\ trades' = Append(trades, MakeTrade(resting, fill))
          /\ owed' = [i \in Ids |-> IF i \in {incoming.id, resting.id}
                                    THEN owed[i] - fill ELSE owed[i]]
    /\ nextTradeId' = nextTradeId + 1
    /\ LET behind == {n \in Level(FacingSide, levelIt) : n > orderIt}
       IN \E n \in behind \cup {NONE} : FirstNode(behind, n) /\ orderIt' = n
    /\ UNCHANGED <<nextNode, levels, pc, levelIt>>

\* Mutant: as long as orders are at the level, the loop comes back to it.
LeaveLevelWhenEmpty ==
    /\ pc = "order"
    /\ orderIt = NONE \/ IsFullyFilled(incoming)
    /\ IF Level(FacingSide, levelIt) = {}
       THEN /\ pc' = "level"
            /\ levels' = [levels EXCEPT ![FacingSide] = @ \ {levelIt}]
            /\ \E p \in levels'[FacingSide] \cup {NONE} :
                  FirstKey(FacingSide, levels'[FacingSide], p) /\ levelIt' = p
       ELSE UNCHANGED <<pc, levels, levelIt>>
    /\ orderIt' = NONE
    /\ UNCHANGED <<orders, nextNode, index, incoming, trades, nextTradeId, owed>>

\* The rest of the outer loop's body: erase the level if it is empty, advance.
LeaveLevel ==
    /\ pc = "order"
    /\ orderIt = NONE \/ IsFullyFilled(incoming)
    /\ pc' = "level"
    /\ orderIt' = NONE
    /\ levels' = IF Level(FacingSide, levelIt) = {}
                 THEN [levels EXCEPT ![FacingSide] = @ \ {levelIt}]
                 ELSE levels
    /\ LET behind == {p \in levels[FacingSide] : Before(FacingSide, levelIt, p)}
       IN \E p \in behind \cup {NONE} : FirstKey(FacingSide, behind, p) /\ levelIt' = p
    /\ UNCHANGED <<orders, nextNode, index, incoming, trades, nextTradeId, owed>>

\* matchAgainst returns; what is left of the order rests in the book.
RestOrFinish ==
    /\ pc = "level"
    /\ ~LevelMatches
    /\ pc' = "idle"
    /\ incoming' = NONE
    /\ levelIt' = NONE
    /\ IF IsFullyFilled(incoming) THEN UNCHANGED bookVars ELSE AddOrder(incoming)
    /\ UNCHANGED <<orderIt, trades, nextTradeId, owed>>

-----------------------------------------------------------------------------
CancelOrder(id) ==
    /\ pc = "idle"
    /\ IF id \in DOMAIN index
       THEN CancelResting(id) /\ owed' = [owed EXCEPT ![id] = 0]
       ELSE UNCHANGED <<bookVars, owed>>
    /\ UNCHANGED <<loopVars, trades, nextTradeId>>

\* Mutant: a larger quantity keeps time priority.
LosesPriorityByPrice(id, price, quantity) == price # orders[index[id].orderIt].price

\* modifyOrder that gives up time priority: a new price, or a larger quantity.
LosesPriority(id, price, quantity) ==
    \/ price # orders[index[id].orderIt].price
    \/ quantity > orders[index[id].orderIt].remaining

\* The replacement order has the id and the side of the one it replaces.
ReplaceOrder(id, price, quantity) ==
    /\ pc = "idle"
    /\ id \in DOMAIN index
    /\ LosesPriority(id, price, quantity)
    /\ nextNode < MaxNodes
    /\ CancelResting(id)
    /\ StartMatching([id |-> id, side |-> orders[index[id].orderIt].side,
                      price |-> price, remaining |-> quantity], levels')

ShrinkOrder(id, price, quantity) ==
    /\ pc = "idle"
    /\ id \in DOMAIN index
    /\ ~LosesPriority(id, price, quantity)
    /\ ModifyRestingOrderQuantity(id, quantity)
    /\ trades' = <<>>
    /\ owed' = [owed EXCEPT ![id] = quantity]
    /\ UNCHANGED <<loopVars, nextTradeId>>

NewOrder == [id : Ids, side : Sides, price : Prices, remaining : Quantities]

Match == EnterLevel \/ Fill \/ LeaveLevel \/ RestOrFinish

Next ==
    \/ \E order \in NewOrder : SubmitOrder(order)
    \/ \E id \in Ids : CancelOrder(id)
    \/ \E id \in Ids, p \in Prices, q \in Quantities :
          ReplaceOrder(id, p, q) \/ ShrinkOrder(id, p, q)
    \/ Match

Spec == Init /\ [][Next]_vars

\* A call that has started is run to its end by its thread.
FairSpec == Spec /\ WF_vars(Match)

-----------------------------------------------------------------------------
\* Between calls, the map entries are exactly the prices at which an order
\* rests: no entry is leaked (bestBid, bestAsk and the BOOK snapshot would show
\* an empty level) and no order is at a price that matching cannot reach.
\* During a sweep only the level being emptied may be without orders.
LevelsMatchOrders ==
    /\ \A n \in DOMAIN orders : orders[n].price \in levels[orders[n].side]
    /\ \A s \in Sides : \A p \in levels[s] :
          \/ Level(s, p) # {}
          \/ pc = "order" /\ s = FacingSide /\ p = levelIt

\* Where the two iterators of the matching loop stand: as long as the incoming
\* order is not used up they are at the best level of the facing side and at the
\* oldest order of it, so that no iteration skips a level or an order, and no
\* iterator is left on an erased node or map entry.
CursorAtTop ==
    /\ pc = "level" /\ ~IsFullyFilled(incoming) =>
          FirstKey(FacingSide, levels[FacingSide], levelIt)
    /\ pc = "order" =>
          /\ levelIt \in levels[FacingSide]
          /\ FirstKey(FacingSide, levels[FacingSide], levelIt)
          /\ PricesCross(incoming, levelIt)
    /\ pc = "order" /\ ~IsFullyFilled(incoming) =>
          FirstNode(Level(FacingSide, levelIt), orderIt)

\* Every unit of quantity is accounted for by the reported trades: an order that
\* rests, or is being matched, has left exactly what was last asked for it less
\* the fills reported since, and one that has left the book by itself was
\* filled to the last unit.
QuantityConserved ==
    /\ \A n \in DOMAIN orders : orders[n].remaining = owed[orders[n].id]
    /\ pc # "idle" => incoming.remaining = owed[incoming.id]
    /\ \A i \in Ids \ DOMAIN index :
          (pc = "idle" \/ i # incoming.id) => owed[i] = 0

\* A resting order takes part in this step's trade.
Executed(n) ==
    /\ nextTradeId' # nextTradeId
    /\ n \in DOMAIN orders
    /\ n \notin DOMAIN orders' \/ orders'[n] # orders[n]

\* Price-time priority, with no trade-through: the resting order that a trade
\* fills is at the best price of its side and the oldest there, and the trade
\* is at that order's price, within the limit of the incoming order.
PriceTimePriority ==
    [][\A n \in DOMAIN orders : Executed(n) =>
          /\ \A m \in DOMAIN orders \ {n} : orders[m].side = orders[n].side =>
                \/ Before(orders[n].side, orders[n].price, orders[m].price)
                \/ orders[m].price = orders[n].price /\ n < m
          /\ trades'[Len(trades')].price = orders[n].price
          /\ PricesCross(incoming, orders[n].price)]_vars

\* No two orders rest under one id: an id tells a cancel which order is meant.
RestingIdsUnique ==
    \A m, n \in DOMAIN orders : orders[m].id = orders[n].id => m = n

\* Every call returns: a sweep cannot circle in the book.
MatchingTerminates == pc # "idle" ~> pc = "idle"
=============================================================================
