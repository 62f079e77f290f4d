--------------------------- MODULE OrderProcessor ---------------------------
(***************************************************************************)
(* A request to the exchange as one step: risk check of a new order, then  *)
(* the engine of its symbol.  This is what InProcessOrderProcessor does in *)
(* the gateway process, and what RiskDispatcher and MatchingDispatcher do  *)
(* together when no process fails (RequestChain is about the failures).    *)
(*                                                                         *)
(* An engine is the PriceTimeBook that MatchingEngine implements: its book *)
(* and the next turn, which Sweep says how to change.  An order id is      *)
(* looked for in the engines of all symbols, in the order of a hash table. *)
(* Quantities are positive here; what another quantity does is in          *)
(* MatchingEngine for the book and in RiskChecker for the account.         *)
(***************************************************************************)
EXTENDS Sweep, RiskChecker

CONSTANTS
    Symbols, Ids, Prices, Quantities,
    MaxRequests \* bound on new, changed and cancelled orders

ASSUME ProcessorConstants ==
    /\ Prices \subseteq Int /\ Quantities \subseteq Nat \ {0}
    /\ MaxRequests \in Nat

VARIABLES
    engines,     \* engines_: symbol -> engine, of the symbols seen so far
    reply,       \* to the last request
    requests,    \* orders and changes so far
    paid,        \* history: price times quantity of all trades
    unchecked    \* history: what modifications have added to the cost of orders

vars == <<engines, buyingPower, reply, requests, paid, unchecked>>

NewEngine == [book |-> <<>>, turn |-> 1]

Order == [id : Ids, side : {"Buy", "Sell"}, price : Prices, remaining : Quantities]

Reply(to, kind, id, trades) == [to |-> to, kind |-> kind, id |-> id, trades |-> trades]

TypeOK ==
    /\ DOMAIN engines \subseteq Symbols
    /\ \A s \in DOMAIN engines :
          /\ DOMAIN engines[s] = {"book", "turn"}
          /\ engines[s].turn \in Nat \ {0}
          /\ DOMAIN engines[s].book \subseteq 1 .. engines[s].turn - 1
          /\ \A k \in DOMAIN engines[s].book : \E most \in Quantities :
                engines[s].book[k] \in [id : Ids, side : {"Buy", "Sell"},
                                       price : Prices, remaining : 1 .. most]
    /\ buyingPower \in -Int64End .. Int64End - 1
    /\ reply.kind \in {"none", "ack", "reject", "book"}
    /\ requests \in 0 .. MaxRequests
    /\ paid \in Int /\ unchecked \in Nat

Init ==
    /\ engines = <<>>
    /\ buyingPower = BuyingPower
    /\ reply = [kind |-> "none"]
    /\ requests = 0
    /\ paid = 0
    /\ unchecked = 0

-----------------------------------------------------------------------------
\* The engines.

\* engineFor(): makes the engine of a new symbol.
EngineFor(s) == IF s \in DOMAIN engines THEN engines[s] ELSE NewEngine

\* Mutant: the number of the next turn is not stored.
WithOutcomeSameTurn(s, outcome) ==
    [t \in DOMAIN engines \cup {s} |->
        IF t = s THEN [book |-> outcome.book, turn |-> EngineFor(s).turn] ELSE engines[t]]

\* The engine of s has done what `outcome' says.
WithOutcome(s, outcome) ==
    [t \in DOMAIN engines \cup {s} |->
        IF t = s THEN [book |-> outcome.book, turn |-> outcome.turn] ELSE engines[t]]

\* Turns of the orders with this id.
TurnsOf(s, id) == {k \in DOMAIN engines[s].book : engines[s].book[k].id = id}

Holding(id) == {s \in DOMAIN engines : TurnsOf(s, id) # {}}

Value(trades) == SumFunction([i \in DOMAIN trades |-> trades[i].price * trades[i].quantity])

CostOf(order) == IF order.side = "Buy" THEN order.price * order.remaining ELSE 0

-----------------------------------------------------------------------------
\* submitOrder() of an order that the risk check turns down.
RefuseOrder(order) ==
    /\ requests < MaxRequests
    /\ ~Accepted(order)
    /\ reply' = Reply("submit", "reject", order.id, <<>>)
    /\ requests' = requests + 1
    /\ UNCHANGED <<engines, buyingPower, paid, unchecked>>

\* Mutant: nothing is reserved.
AcceptOrderUnreserved(s, order) ==
    /\ requests < MaxRequests
    /\ Accepted(order)
    /\ s \in DOMAIN engines => TurnsOf(s, order.id) = {}
    /\ LET outcome == Outcome(EngineFor(s).book, EngineFor(s).turn, order)
       IN /\ engines' = WithOutcome(s, outcome)
          /\ reply' = Reply("submit", "ack", order.id, outcome.report)
          /\ paid' = paid + Value(outcome.report)
    /\ requests' = requests + 1
    /\ UNCHANGED <<buyingPower, unchecked>>

\* submitOrder() of another.  No resting order of the symbol has the id.
AcceptOrder(s, order) ==
    /\ requests < MaxRequests
    /\ Accepted(order)
    /\ s \in DOMAIN engines => TurnsOf(s, order.id) = {}
    /\ LET outcome == Outcome(EngineFor(s).book, EngineFor(s).turn, order)
       IN /\ engines' = WithOutcome(s, outcome)
          /\ reply' = Reply("submit", "ack", order.id, outcome.report)
          /\ paid' = paid + Value(outcome.report)
    /\ buyingPower' = Reserved(order)
    /\ requests' = requests + 1
    /\ UNCHANGED unchecked

\* Mutant: the loop returns after the first engine, whether it has the order or not.
CancelOrderInFirst(id) ==
    /\ requests < MaxRequests
    /\ \/ /\ DOMAIN engines \ Holding(id) # {} \/ DOMAIN engines = {}
          /\ reply' = Reply("cancel", "reject", id, <<>>)
          /\ UNCHANGED engines
       \/ \E s \in Holding(id) : \E k \in TurnsOf(s, id) :
             /\ engines' = [engines EXCEPT ![s].book = Without(@, k)]
             /\ reply' = Reply("cancel", "ack", id, <<>>)
    /\ requests' = requests + 1
    /\ UNCHANGED <<buyingPower, paid, unchecked>>

\* cancelOrder(): the first engine that has the order, or "order not found".
CancelOrder(id) ==
    /\ requests < MaxRequests
    /\ \/ /\ Holding(id) = {}
          /\ reply' = Reply("cancel", "reject", id, <<>>)
          /\ UNCHANGED engines
       \/ \E s \in Holding(id) : \E k \in TurnsOf(s, id) :
             /\ engines' = [engines EXCEPT ![s].book = Without(@, k)]
             /\ reply' = Reply("cancel", "ack", id, <<>>)
    /\ requests' = requests + 1
    /\ UNCHANGED <<buyingPower, paid, unchecked>>

\* modifyOrder(): likewise.  Nothing is checked or reserved.
ModifyOrder(id, price, quantity) ==
    /\ requests < MaxRequests
    /\ \/ /\ Holding(id) = {}
          /\ reply' = Reply("modify", "reject", id, <<>>)
          /\ UNCHANGED <<engines, paid, unchecked>>
       \/ \E s \in Holding(id) : \E k \in TurnsOf(s, id) :
             LET old == engines[s].book[k]
                 new == Amended(old, price, quantity)
                 outcome == AmendOutcome(engines[s].book, engines[s].turn,
                                         k, price, quantity)
             IN /\ engines' = WithOutcome(s, outcome)
                /\ reply' = Reply("modify", "ack", id, outcome.report)
                /\ paid' = paid + Value(outcome.report)
                /\ unchecked' = unchecked + Max({0, CostOf(new) - CostOf(old)})
    /\ requests' = requests + 1
    /\ UNCHANGED buyingPower

\* Mutant: both sides are listed from the lowest price.
LevelAheadAscending(side, p, q) == p < q

\* The order of the maps buyLevels_ and sellLevels_.
LevelAhead(side, p, q) == IF side = "Buy" THEN p > q ELSE p < q

\* The levels of a side, best first, with what they sum up to.
Levels(book, side) ==
    LET at(p) == {k \in DOMAIN book : book[k].side = side /\ book[k].price = p}
        prices == {p \in Prices : at(p) # {}}
        ranked == Ranked(prices, LAMBDA p, q : LevelAhead(side, p, q))
    IN [i \in DOMAIN ranked |->
          [price |-> ranked[i],
           total |-> SumFunction([k \in at(ranked[i]) |-> book[k].remaining]),
           count |-> Cardinality(at(ranked[i]))]]

\* queryBook(): a symbol without an engine has an empty book.
QueryBook(s) ==
    /\ reply' = [kind |-> "book", symbol |-> s,
                 bids |-> Levels(EngineFor(s).book, "Buy"),
                 asks |-> Levels(EngineFor(s).book, "Sell")]
    /\ UNCHANGED <<engines, buyingPower, requests, paid, unchecked>>

Next ==
    \/ \E order \in Order : RefuseOrder(order) \/ \E s \in Symbols : AcceptOrder(s, order)
    \/ \E id \in Ids : CancelOrder(id)
    \/ \E id \in Ids, price \in Prices, quantity \in Quantities :
          ModifyOrder(id, price, quantity)
    \/ \E s \in Symbols : QueryBook(s)

Spec == Init /\ [][Next]_vars

-----------------------------------------------------------------------------
Exposure(s) == SumFunction([k \in DOMAIN engines[s].book |-> CostOf(engines[s].book[k])])

\* What was paid and what resting BUY orders may still cost is covered by what the
\* account has reserved, but for what modifications have added: partial fills, better
\* prices, cancels and orders placed anew by a modification never uncover anything.
ExposureCovered ==
    paid + SumFunction([s \in DOMAIN engines |-> Exposure(s)])
        <= BuyingPower - buyingPower + unchecked

\* What BOOK shows is the whole book, best prices first, and not crossed.
BookReplySound ==
    reply.kind = "book" =>
        /\ \A i, j \in DOMAIN reply.bids : i < j => reply.bids[i].price > reply.bids[j].price
        /\ \A i, j \in DOMAIN reply.asks : i < j => reply.asks[i].price < reply.asks[j].price
        /\ reply.bids # <<>> /\ reply.asks # <<>> => reply.bids[1].price < reply.asks[1].price
        /\ LET levels == reply.bids \o reply.asks
               book == EngineFor(reply.symbol).book
           IN /\ SumFunction([i \in DOMAIN levels |-> levels[i].count])
                    = Cardinality(DOMAIN book)
              /\ SumFunction([i \in DOMAIN levels |-> levels[i].total])
                    = SumFunction([k \in DOMAIN book |-> book[k].remaining])

\* Account::reserve "reduces available buying power".
BuyingPowerNeverGrows == [][buyingPower' <= buyingPower]_vars
=============================================================================
