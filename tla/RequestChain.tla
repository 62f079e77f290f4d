---------------------------- MODULE RequestChain ----------------------------
(***************************************************************************)
(* A request on its way from a client through gateway and risk service to  *)
(* the matching engine, and its answer back.  Every hop is a blocking      *)
(* SyncTcpClient::sendAndReceive on a connection that is made once, when   *)
(* the caller starts.  Handlers catch nothing but std::out_of_range, so an *)
(* error of the connection ends the process.  Any process can be killed at *)
(* any point, and be started again by hand.                                *)
(*                                                                         *)
(* What an order does in the book is in MatchingEngine; here a request is  *)
(* its kind and what risk looks at.  The gateway is the one that           *)
(* docker-compose runs, with RemoteOrderProcessor.  Orders of negative     *)
(* quantity, whose cost is negative too, are not in this model.            *)
(***************************************************************************)
EXTENDS Integers

CONSTANTS
    Clients,
    Costs,       \* price times quantity of a BUY; 0 stands for a SELL
    BuyingPower, \* of the one account, when the risk service starts
    NONE,
    MaxCalls,    \* bound on the requests that clients make
    MaxKills     \* bound on processes killed from outside

Services == {"gateway", "risk", "engine"}

ASSUME ChainConstants ==
    /\ Clients \cap Services = {}
    /\ Costs \subseteq Nat /\ BuyingPower \in Nat
    /\ MaxCalls \in Nat /\ MaxKills \in Nat

Callers == Clients \cup {"gateway", "risk"}

\* The service that a caller is connected to.
Callee(n) == CASE n = "gateway" -> "risk" [] n = "risk" -> "engine" [] OTHER -> "gateway"

VARIABLES
    up,          \* the processes that run
    link,        \* callers whose connection leads to a process that runs
    inbox,       \* service -> frames that it has not handled yet
    pending,     \* caller -> frame that it is handling, in sendAndReceive
    answer,      \* caller -> answer that it has not read yet
    buyingPower, \* of account_
    calls,       \* requests made so far
    kills,       \* processes killed so far
    executions,  \* history: request -> how often the engine has handled it
    spent,       \* history: cost of the new orders that the engine has handled
    riskStarts,  \* history: how often the risk service was started again
    told         \* history: request -> what its client was told

connVars == <<up, link, inbox, pending, answer>>
historyVars == <<executions, spent, riskStarts, told>>
vars == <<connVars, buyingPower, calls, kills, historyVars>>

\* The number of a request is not in the frame; it is there to tell requests
\* apart.  `within': price and quantity pass the first two risk checks.
Request ==
    [call : Nat, kind : {"NewOrder", "ChangeOrder", "BookQuery"},
     cost : Nat, within : BOOLEAN]

\* A frame knows the session it came in on.  A command that a client is working
\* on counts as a frame from itself.
Frame == [request : Request, from : Callers, open : BOOLEAN]

ASSUME NoneIsNoFrame == NONE \notin Frame

\* "refused" is the OrderReject of the risk service, "reject" any other.
Answer == [call : Nat, kind : {"ack", "book", "reject", "refused"}]

TypeOK ==
    /\ up \subseteq Clients \cup Services
    /\ link \subseteq Callers \cap up
    /\ inbox \in [Services -> SUBSET Frame]
    /\ pending \in [Callers -> Frame \cup {NONE}]
    /\ answer \in [Callers -> Answer \cup {NONE}]
    /\ buyingPower \in 0 .. BuyingPower
    /\ calls \in 0 .. MaxCalls
    /\ kills \in 0 .. MaxKills
    /\ executions \in [1 .. MaxCalls -> Nat]
    /\ spent \in Nat
    /\ riskStarts \in Nat
    /\ told \in [1 .. MaxCalls -> {NONE, "ack", "book", "reject", "refused"}]

Init ==
    /\ up = Clients \cup Services
    /\ link = Callers
    /\ inbox = [s \in Services |-> {}]
    /\ pending = [n \in Callers |-> NONE]
    /\ answer = [n \in Callers |-> NONE]
    /\ buyingPower = BuyingPower
    /\ calls = 0
    /\ kills = 0
    /\ executions = [k \in 1 .. MaxCalls |-> 0]
    /\ spent = 0
    /\ riskStarts = 0
    /\ told = [k \in 1 .. MaxCalls |-> NONE]

-----------------------------------------------------------------------------
\* Connections.

\* n no longer reads from the session that the frame came in on.
Orphaned(f, n) == [f EXCEPT !.open = @ /\ f.from # n]

\* A process ends: its connections break on both sides, and what it had not
\* handled is lost.  Requests that it has sent are still handled.
Dies(n) ==
    /\ up' = up \ {n}
    /\ link' = {m \in link : m # n /\ Callee(m) # n}
    /\ inbox' = [s \in Services |->
                   IF s = n THEN {} ELSE {Orphaned(f, n) : f \in inbox[s]}]
    /\ pending' = [m \in Callers |->
                     IF m = n \/ pending[m] = NONE THEN NONE ELSE Orphaned(pending[m], n)]
    /\ answer' = [m \in Callers |-> IF m = n THEN NONE ELSE answer[m]]

\* sendAndReceive(), up to where it blocks, while n handles the frame f.
SendOn(n, f) ==
    /\ inbox' = [s \in Services |->
                   IF s = Callee(n)
                   THEN inbox[s] \cup {[request |-> f.request, from |-> n, open |-> TRUE]}
                   ELSE inbox[s] \ {f}]
    /\ pending' = [pending EXCEPT ![n] = f]
    /\ UNCHANGED <<up, link, answer>>

\* The exception that a broken connection raises is caught nowhere.
SendOrDie(n, f) == IF n \in link THEN SendOn(n, f) ELSE Dies(n)

\* Mutant: the answer goes to whatever session the caller has now.
RespondAnyway(answers, f, reply) == [answers EXCEPT ![f.from] = reply]

\* writeResponse(): an error is only logged.
Respond(answers, f, reply) ==
    IF f.open THEN [answers EXCEPT ![f.from] = reply] ELSE answers

\* Mutant: services connect and send again, if they can.
BreaksAndRetries(n) ==
    /\ n \in up \ link
    /\ pending[n] # NONE
    /\ IF n \notin Clients /\ Callee(n) \in up
       THEN /\ link' = link \cup {n}
            /\ inbox' = [inbox EXCEPT ![Callee(n)] = @ \cup
                            {[request |-> pending[n].request, from |-> n, open |-> TRUE]}]
            /\ answer' = [answer EXCEPT ![n] = NONE]
            /\ UNCHANGED <<up, pending>>
       ELSE Dies(n)
    /\ UNCHANGED <<buyingPower, calls, kills, historyVars>>

\* Mutant: services take the error for a refusal.
BreaksAsRefusal(n) ==
    /\ n \in up \ link
    /\ pending[n] # NONE
    /\ IF n \notin Clients
       THEN /\ pending' = [pending EXCEPT ![n] = NONE]
            /\ answer' = Respond([answer EXCEPT ![n] = NONE], pending[n],
                                 [call |-> pending[n].request.call, kind |-> "refused"])
            /\ UNCHANGED <<up, link, inbox>>
       ELSE Dies(n)
    /\ UNCHANGED <<buyingPower, calls, kills, historyVars>>

\* Mutant: the error is caught and forgotten.
BreaksSilently(n) ==
    /\ n \in up \ link
    /\ pending[n] # NONE
    /\ pending' = [pending EXCEPT ![n] = NONE]
    /\ answer' = [answer EXCEPT ![n] = NONE]
    /\ UNCHANGED <<up, link, inbox, buyingPower, calls, kills, historyVars>>

\* sendAndReceive() is blocked on a connection that breaks.
Breaks(n) ==
    /\ n \in up \ link
    /\ pending[n] # NONE
    /\ Dies(n)
    /\ UNCHANGED <<buyingPower, calls, kills, historyVars>>

-----------------------------------------------------------------------------
\* The client.

\* A command of the console.
Command(c, kind, cost, within) ==
    /\ c \in up
    /\ pending[c] = NONE
    /\ calls < MaxCalls
    /\ calls' = calls + 1
    /\ LET request == [call |-> calls + 1, kind |-> kind, cost |-> cost, within |-> within]
       IN SendOrDie(c, [request |-> request, from |-> c, open |-> TRUE])
    /\ UNCHANGED <<buyingPower, kills, historyVars>>

\* The answer is printed.
Return(c) ==
    /\ c \in up
    /\ answer[c] # NONE
    /\ told' = [told EXCEPT ![pending[c].request.call] = answer[c].kind]
    /\ pending' = [pending EXCEPT ![c] = NONE]
    /\ answer' = [answer EXCEPT ![c] = NONE]
    /\ UNCHANGED <<up, link, inbox, buyingPower, calls, kills, executions, spent, riskStarts>>

Quit(c) ==
    /\ c \in up
    /\ pending[c] = NONE
    /\ Dies(c)
    /\ UNCHANGED <<buyingPower, calls, kills, historyVars>>

-----------------------------------------------------------------------------
\* The services.  Each has one thread, which handles one frame at a time.

Ready(s, f) == s \in up /\ f \in inbox[s] /\ (s # "engine" => pending[s] = NONE)

\* MessageDispatcher::handle, which calls RemoteOrderProcessor.
GatewayHandles(f) ==
    /\ Ready("gateway", f)
    /\ SendOrDie("gateway", f)
    /\ UNCHANGED <<buyingPower, calls, kills, historyVars>>

\* Mutant: orders are checked against the power that the account started with.
CheckOrderOnce(request) == request.within /\ request.cost <= BuyingPower

\* RiskChecker::checkOrder.  A SELL costs nothing.
CheckOrder(request) == request.within /\ request.cost <= buyingPower

\* RiskDispatcher::handle of an order that is turned down.
RiskRefuses(f) ==
    /\ Ready("risk", f)
    /\ f.request.kind = "NewOrder"
    /\ ~CheckOrder(f.request)
    /\ inbox' = [inbox EXCEPT !["risk"] = @ \ {f}]
    /\ answer' = Respond(answer, f, [call |-> f.request.call, kind |-> "refused"])
    /\ UNCHANGED <<up, link, pending, buyingPower, calls, kills, historyVars>>

\* Mutant: nothing is reserved.
RiskForwardsUnreserved(f) ==
    /\ Ready("risk", f)
    /\ f.request.kind = "NewOrder" => CheckOrder(f.request)
    /\ SendOrDie("risk", f)
    /\ UNCHANGED <<buyingPower, calls, kills, historyVars>>

\* RiskDispatcher::handle of everything else: reserve() for a new order, and
\* forward.  Requests of another kind cost nothing and are not checked.
RiskForwards(f) ==
    /\ Ready("risk", f)
    /\ f.request.kind = "NewOrder" => CheckOrder(f.request)
    /\ buyingPower' = buyingPower - f.request.cost
    /\ SendOrDie("risk", f)
    /\ UNCHANGED <<calls, kills, historyVars>>

\* MatchingDispatcher::handle.  Whether a cancel or modify finds its order is up
\* to the book.
EngineHandles(f, kind) ==
    /\ Ready("engine", f)
    /\ kind \in CASE f.request.kind = "NewOrder" -> {"ack"}
                  [] f.request.kind = "ChangeOrder" -> {"ack", "reject"}
                  [] f.request.kind = "BookQuery" -> {"book"}
    /\ inbox' = [inbox EXCEPT !["engine"] = @ \ {f}]
    /\ answer' = Respond(answer, f, [call |-> f.request.call, kind |-> kind])
    /\ executions' = [executions EXCEPT ![f.request.call] = @ + 1]
    /\ spent' = spent + f.request.cost
    /\ UNCHANGED <<up, link, pending, buyingPower, calls, kills, riskStarts, told>>

\* What the gateway makes of an answer: to a book query, one that is no snapshot
\* becomes "book query failed".  The risk service passes answers on as they are.
Decoded(s, request, reply) ==
    IF s = "gateway" /\ request.kind = "BookQuery" /\ reply.kind # "book"
    THEN [reply EXCEPT !.kind = "reject"] ELSE reply

\* sendAndReceive() returns in the gateway or the risk service: the answer is
\* encoded again and written to the session of the frame.
Relay(s) ==
    /\ s \in {"gateway", "risk"} \cap up
    /\ answer[s] # NONE
    /\ answer' = Respond([answer EXCEPT ![s] = NONE], pending[s],
                         Decoded(s, pending[s].request, answer[s]))
    /\ pending' = [pending EXCEPT ![s] = NONE]
    /\ UNCHANGED <<up, link, inbox, buyingPower, calls, kills, historyVars>>

\* readMore() gets an error for a session whose caller is gone, and what it had
\* sent is not read.
SessionEnds(s, f) ==
    /\ f \in inbox[s]
    /\ ~f.open
    /\ inbox' = [inbox EXCEPT ![s] = @ \ {f}]
    /\ UNCHANGED <<up, link, pending, answer, buyingPower, calls, kills, historyVars>>

-----------------------------------------------------------------------------
\* Processes.

Kill(n) ==
    /\ n \in up
    /\ kills < MaxKills
    /\ kills' = kills + 1
    /\ Dies(n)
    /\ UNCHANGED <<buyingPower, calls, historyVars>>

\* main(): a caller gives up unless it can connect, and a new risk process has
\* a new account.
Start(n) ==
    /\ n \notin up
    /\ n \in Callers => Callee(n) \in up
    /\ up' = up \cup {n}
    /\ link' = link \cup ({n} \cap Callers)
    /\ buyingPower' = IF n = "risk" THEN BuyingPower ELSE buyingPower
    /\ riskStarts' = IF n = "risk" THEN riskStarts + 1 ELSE riskStarts
    /\ UNCHANGED <<inbox, pending, answer, calls, kills, executions, spent, told>>

ClientStep(c) == Return(c) \/ Breaks(c)

ServiceStep(s) ==
    \/ \E f \in inbox[s] :
          \/ s = "gateway" /\ GatewayHandles(f)
          \/ s = "risk" /\ (RiskRefuses(f) \/ RiskForwards(f))
          \/ s = "engine" /\ \E kind \in {"ack", "reject", "book"} : EngineHandles(f, kind)
    \/ s # "engine" /\ (Relay(s) \/ Breaks(s))

Next ==
    \/ \E c \in Clients :
          \/ \E cost \in Costs, within \in BOOLEAN : Command(c, "NewOrder", cost, within)
          \/ \E kind \in {"ChangeOrder", "BookQuery"} : Command(c, kind, 0, TRUE)
          \/ Quit(c) \/ ClientStep(c)
    \/ \E s \in Services : ServiceStep(s) \/ \E f \in inbox[s] : SessionEnds(s, f)
    \/ \E n \in Clients \cup Services : Kill(n) \/ Start(n)

Spec == Init /\ [][Next]_vars

\* A process that can go on does, and learns of a broken connection.
FairSpec ==
    /\ Spec
    /\ \A c \in Clients : WF_vars(ClientStep(c))
    /\ \A s \in Services : WF_vars(ServiceStep(s))

-----------------------------------------------------------------------------
\* At every hop, an answer is read by the call that it answers: none of an earlier
\* call, or of a process before this one, is taken for it.
AnswersMatchCalls ==
    \A n \in Callers : answer[n] # NONE =>
        pending[n] # NONE /\ answer[n].call = pending[n].request.call

\* A request is handled at most once, whatever is killed and started again
\* around it.
ExecutedAtMostOnce == \A k \in 1 .. calls : executions[k] <= 1

\* What a client is told of its request is true, and stays true: an order that
\* risk has refused never gets to the engine, and any other answer was given by
\* the engine.
ToldTheTruth ==
    \A k \in 1 .. calls : told[k] # NONE =>
        executions[k] = IF told[k] = "refused" THEN 0 ELSE 1

\* The new orders in the engine never cost more than the account has, per life of
\* the risk service: failed hops may lose reservations, but not orders' cover.
SpentWithinBuyingPower == spent <= BuyingPower * (riskStarts + 1)

\* No client waits for ever, wherever on the way something was killed: it gets an
\* answer or an error.
CallsReturn == \A c \in Clients : pending[c] # NONE ~> pending[c] = NONE
=============================================================================
