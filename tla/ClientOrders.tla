---------------------------- MODULE ClientOrders ----------------------------
(***************************************************************************)
(* The console clients of the exchange.  A client process makes its order  *)
(* ids itself, counting from 1, and cancels and modifies by these ids; the *)
(* exchange knows neither processes nor whose order is whose.  Every       *)
(* action of OrderProcessor comes with the client that asks for it.        *)
(***************************************************************************)
EXTENDS OrderProcessor

CONSTANTS
    Processes, \* client processes, each of which runs once
    AtATime,   \* how many of them run at the same time
    NONE

ASSUME ClientConstants ==
    /\ Ids \subseteq Nat
    /\ AtATime \in Nat
    /\ NONE \notin Processes

VARIABLES
    phase,  \* of a process
    nextId, \* nextId_ of a process
    owner,  \* history: who last had an order with this id accepted for this symbol
    asker   \* history: who made the last request

clientVars == <<vars, phase, nextId, owner, asker>>

ClientTypeOK ==
    /\ TypeOK
    /\ phase \in [Processes -> {"new", "running", "ended"}]
    /\ nextId \in [Processes -> Nat]
    /\ owner \in [Symbols -> [Ids -> Processes \cup {NONE}]]
    /\ asker \in Processes \cup {NONE}

ClientInit ==
    /\ Init
    /\ phase = [p \in Processes |-> "new"]
    /\ nextId = [p \in Processes |-> 1]
    /\ owner = [s \in Symbols |-> [id \in Ids |-> NONE]]
    /\ asker = NONE

Running == {p \in Processes : phase[p] = "running"}

StartClient(p) ==
    /\ phase[p] = "new"
    /\ Cardinality(Running) < AtATime
    /\ phase' = [phase EXCEPT ![p] = "running"]
    /\ UNCHANGED <<vars, nextId, owner, asker>>

\* QUIT, or the end of the input.  Orders of the process stay in the books.
EndClient(p) ==
    /\ p \in Running
    /\ phase' = [phase EXCEPT ![p] = "ended"]
    /\ UNCHANGED <<vars, nextId, owner, asker>>

\* Mutant: the counter is read and not advanced.
TakeIdUnchanged(p) == UNCHANGED nextId

\* ExchangeClient::nextOrderId().
TakeId(p) == nextId' = [nextId EXCEPT ![p] = @ + 1]

\* BUY and SELL.  The id is used up also when the order is refused.
PlaceOrder(p, s, order) ==
    /\ p \in Running
    /\ order.id = nextId[p]
    /\ TakeId(p)
    /\ \/ RefuseOrder(order) /\ UNCHANGED owner
       \/ AcceptOrder(s, order) /\ owner' = [owner EXCEPT ![s][order.id] = p]
    /\ asker' = p
    /\ UNCHANGED phase

\* CANCEL and MODIFY of an order that the process has sent.
CancelOwn(p, id) ==
    /\ p \in Running
    /\ id \in 1 .. nextId[p] - 1
    /\ CancelOrder(id)
    /\ asker' = p
    /\ UNCHANGED <<phase, nextId, owner>>

ModifyOwn(p, id, price, quantity) ==
    /\ p \in Running
    /\ id \in 1 .. nextId[p] - 1
    /\ ModifyOrder(id, price, quantity)
    /\ asker' = p
    /\ UNCHANGED <<phase, nextId, owner>>

\* BOOK.
ShowBook(p, s) ==
    /\ p \in Running
    /\ QueryBook(s)
    /\ asker' = p
    /\ UNCHANGED <<phase, nextId, owner>>

ClientNext ==
    \E p \in Processes :
        \/ StartClient(p)
        \/ EndClient(p)
        \/ \E s \in Symbols, order \in Order : PlaceOrder(p, s, order)
        \/ \E id \in Ids : CancelOwn(p, id)
        \/ \E id \in Ids, price \in Prices, quantity \in Quantities :
              ModifyOwn(p, id, price, quantity)
        \/ \E s \in Symbols : ShowBook(p, s)

ClientSpec == ClientInit /\ [][ClientNext]_clientVars

-----------------------------------------------------------------------------
\* One id is one order in the books of all symbols, and the id that a client gives out
\* next rests nowhere, also after refusals, trades, cancels and modifications.  The
\* engines rely on both: the index of an engine has one entry for an id, and the guard
\* of AcceptOrder keeps nothing out then.
IdsTellOrdersApart ==
    /\ \A s, t \in DOMAIN engines :
          \A j \in DOMAIN engines[s].book, k \in DOMAIN engines[t].book :
             engines[s].book[j].id = engines[t].book[k].id => <<s, j>> = <<t, k>>
    /\ \A p \in Running, s \in DOMAIN engines : TurnsOf(s, nextId[p]) = {}

\* The resting orders with this id that the process has sent, by symbol.
OwnOrders(p, id) == {s \in Holding(id) : owner[s][id] = p}

\* CANCEL and MODIFY reach the order that their client means, though the loop over the
\* engines takes the first one that knows the id, in any order: the reply says whether
\* an order of the client was there, no other book changes, and a cancelled order is in
\* no book any more.
ChangesReachOwnOrder ==
    [][requests' # requests /\ reply'.to \in {"cancel", "modify"}
         => LET own == OwnOrders(asker', reply'.id)
            IN /\ reply'.kind = "ack" <=> own # {}
               /\ \A s \in DOMAIN engines \ own : engines'[s] = engines[s]
               /\ reply'.to = "cancel" =>
                     \A s \in own : \A k \in DOMAIN engines'[s].book :
                        engines'[s].book[k].id # reply'.id]_clientVars
=============================================================================
