-------------------------- MODULE EngineRefinement --------------------------
(***************************************************************************)
(* MatchingEngine implements PriceTimeBook.  A request takes effect when   *)
(* its call starts: from then on the mapped book is the one that the       *)
(* closed form predicts from where the sweep has got to, and every step of *)
(* the matching loop must leave that prediction as it is.                  *)
(***************************************************************************)
EXTENDS MatchingEngine, Sweep

\* A trade without its number, and those of the call so far.
AsExecution(trade) ==
    [buy |-> trade.buy, sell |-> trade.sell, price |-> trade.price, quantity |-> trade.quantity]

Executions == [k \in DOMAIN trades |-> AsExecution(trades[k])]

Predicted ==
    IF pc = "idle" THEN [book |-> orders, turn |-> nextNode, report |-> <<>>]
                   ELSE Outcome(orders, nextNode, incoming)

Ideal == INSTANCE PriceTimeBook WITH
    book <- Predicted.book, turn <- Predicted.turn,
    report <- Executions \o Predicted.report

\* The engine's sweeps, cancels and amendments have exactly the effect and the
\* trades of the ideal book: who is filled, in which order, at which price and
\* for how much, who keeps a place in the queue, and what is left resting.
ImplementsPriceTimeBook == Ideal!Spec
=============================================================================
