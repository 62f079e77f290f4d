---------------------------- MODULE RiskChecker ----------------------------
(***************************************************************************)
(* RiskChecker and Account: what is checked of a new order and what is     *)
(* reserved for it.  OrderProcessor puts the engines behind it.             *)
(***************************************************************************)
EXTENDS Integers

CONSTANTS
    BuyingPower,      \* of the account at the start
    MaxOrderQuantity, \* RiskConfig::maxOrderQuantity
    Width             \* bits of an int64_t

\* The least positive number that is no int64_t.
Int64End == 2 ^ (Width - 1)

\* That the power is a positive integer follows from Width; provers do not know it.
ASSUME RiskConstants ==
    /\ MaxOrderQuantity \in Nat
    /\ Width \in Nat \ {0} /\ Int64End \in Nat \ {0}
    /\ BuyingPower \in 0 .. Int64End - 1

VARIABLE buyingPower \* of account_

Int64s == -Int64End .. Int64End - 1

\* A product or difference as the build computes it: it wraps around.
Int64(v) == ((v + Int64End) % (2 * Int64End)) - Int64End

Cost(order) == Int64(order.price * order.remaining)

\* Mutant: any price will do.
AcceptedAtAnyPrice(order) ==
    /\ order.remaining <= MaxOrderQuantity
    /\ order.side = "Buy" => Cost(order) <= buyingPower

\* RiskChecker::checkOrder returns Accepted.
Accepted(order) ==
    /\ order.price > 0
    /\ order.remaining <= MaxOrderQuantity
    /\ order.side = "Buy" => Cost(order) <= buyingPower

\* Account::reserve, for a BUY.
Reserved(order) == IF order.side = "Buy" THEN Int64(buyingPower - Cost(order)) ELSE buyingPower

-----------------------------------------------------------------------------
\* Every order that a message can hold, and the console accepts.
AnyOrder == [side : {"Buy", "Sell"}, price : Int64s, remaining : Int64s]

\* An order that a trader could mean.
Sound(order) ==
    order.side = "Buy" => order.remaining >= 0 /\ order.price * order.remaining < Int64End

\* Whatever orders have made of the account so far, any next one that is accepted takes
\* its exact cost, which the account has: only a BUY of negative quantity and one whose
\* product overflows can raise the buying power or make it negative.
SoundOrdersOnlyTake ==
    \A order \in AnyOrder : Accepted(order) /\ Sound(order) =>
        LET cost == IF order.side = "Buy" THEN order.price * order.remaining ELSE 0
        IN /\ cost = 0 \/ cost \in 1 .. buyingPower
           /\ Reserved(order) = buyingPower - cost
=============================================================================
