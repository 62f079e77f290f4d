-------------------------------- MODULE Sweep --------------------------------
(***************************************************************************)
(* What one request does to the book of a symbol, in closed form.  A book  *)
(* is the resting orders, each under the number of its turn.  A sweep is   *)
(* given as what each crossing order contributes: no levels and no loop.   *)
(***************************************************************************)
EXTENDS Integers, Sequences, FiniteSets, FiniteSetsExt, Functions

Crosses(order, price) ==
    IF order.side = "Buy" THEN order.price >= price ELSE order.price <= price

\* The members of S, the one that no other is before first.
Ranked(S, Before(_, _)) ==
    [i \in 1 .. Cardinality(S) |->
        CHOOSE k \in S : Cardinality({j \in S : Before(j, k)}) = i - 1]

\* The resting orders that `order' can trade with.
Facing(b, order) ==
    {k \in DOMAIN b : b[k].side # order.side /\ Crosses(order, b[k].price)}

\* Price-time priority among them: the better price, then the earlier turn.
Ahead(b, order, j, k) ==
    \/ IF order.side = "Buy" THEN b[j].price < b[k].price ELSE b[j].price > b[k].price
    \/ b[j].price = b[k].price /\ j < k

\* How much the orders of the turns in S have left, counted unit by unit.
Units(b, S) == Cardinality(UNION {{k} \X (1 .. b[k].remaining) : k \in S})

\* What `order' still asks for when it is the turn of k.
Wanted(b, order, k) ==
    order.remaining - Units(b, {j \in Facing(b, order) : Ahead(b, order, j, k)})

Hit(b, order) == {k \in Facing(b, order) : Wanted(b, order, k) > 0}

Taken(b, order, k) == Min({b[k].remaining, Wanted(b, order, k)})

\* What nobody has for `order'.
Left(b, order) == Max({0, order.remaining - Units(b, Facing(b, order))})

Execution(b, order, k) ==
    [buy |-> IF order.side = "Buy" THEN order.id ELSE b[k].id,
     sell |-> IF order.side = "Buy" THEN b[k].id ELSE order.id,
     price |-> b[k].price, quantity |-> Taken(b, order, k)]

\* Orders that are in the book after the sweep, and the turn of what is left.
Staying(b, order) ==
    {k \in DOMAIN b : k \in Hit(b, order) => Wanted(b, order, k) < b[k].remaining}

Resting(b, t, order) == IF Left(b, order) = 0 THEN {} ELSE {t}

\* What submitting `order' leads to when `b' rests and turn `t' is the next.
Outcome(b, t, order) ==
    LET queue == Ranked(Hit(b, order), LAMBDA j, k : Ahead(b, order, j, k))
    IN [book   |-> [k \in Staying(b, order) \cup Resting(b, t, order) |->
                       IF k = t THEN [order EXCEPT !.remaining = Left(b, order)]
                       ELSE IF k \in Hit(b, order)
                       THEN [b[k] EXCEPT !.remaining = @ - Taken(b, order, k)]
                       ELSE b[k]],
        turn   |-> t + Cardinality(Resting(b, t, order)),
        report |-> [i \in DOMAIN queue |-> Execution(b, order, queue[i])]]

\* The book without the order of turn k.
Without(b, k) == [j \in DOMAIN b \ {k} |-> b[j]]

Amended(order, price, quantity) == [order EXCEPT !.price = price, !.remaining = quantity]

\* What amending the order of turn k leads to.  It keeps its turn only if it asks for
\* no more, at the same price.
AmendOutcome(b, t, k, price, quantity) ==
    IF price = b[k].price /\ quantity <= b[k].remaining
    THEN [book |-> [b EXCEPT ![k].remaining = quantity], turn |-> t, report |-> <<>>]
    ELSE Outcome(Without(b, k), t, Amended(b[k], price, quantity))
=============================================================================
