---------------------------- MODULE PriceTimeBook ----------------------------
(***************************************************************************)
(* What an exchange promises of one symbol, each request being one atomic  *)
(* step.  What a step does to the book is in Sweep.                        *)
(***************************************************************************)
EXTENDS Sweep

CONSTANTS Ids, Prices, Quantities \* quantities are natural numbers

VARIABLES
    book,   \* number of the turn -> resting order
    turn,   \* the next turn to be given out
    report  \* executions of the last request that could trade, in order

vars == <<book, turn, report>>

-----------------------------------------------------------------------------
Init == book = [k \in {} |-> 0] /\ turn = 0 /\ report = <<>>

Becomes(outcome) ==
    book' = outcome.book /\ turn' = outcome.turn /\ report' = outcome.report

Submit(order) ==
    /\ \A k \in DOMAIN book : book[k].id # order.id
    /\ Becomes(Outcome(book, turn, order))

Cancel(k) == book' = Without(book, k) /\ UNCHANGED <<turn, report>>

Amend(k, price, quantity) == Becomes(AmendOutcome(book, turn, k, price, quantity))

Next ==
    \/ \E order \in [id : Ids, side : {"Buy", "Sell"},
                     price : Prices, remaining : Quantities] : Submit(order)
    \/ \E k \in DOMAIN book : Cancel(k)
    \/ \E k \in DOMAIN book, p \in Prices, q \in Quantities : Amend(k, p, q)

Spec == Init /\ [][Next]_vars
=============================================================================
