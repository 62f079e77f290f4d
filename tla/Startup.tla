------------------------------ MODULE Startup ------------------------------
(***************************************************************************)
(* The start of the system by docker compose.  `depends_on' starts a       *)
(* container after the one it depends on, which may not be listening yet;  *)
(* so a service tries to connect several times before it gives up.  The    *)
(* client tries once.  A service listens only after it is connected, so    *)
(* delays add up along the chain.                                          *)
(*                                                                         *)
(* Time is in ticks of 500 ms, which the services sleep between attempts;  *)
(* persistence sleeps for two.  What happens in one tick happens in any    *)
(* order.  Kafka is left out: making a consumer does not connect.          *)
(***************************************************************************)
EXTENDS Integers

CONSTANTS
    Attempts, \* connection attempts of a service: 10 in the code
    MaxDelay  \* bound on the ticks by which one start is later than another

ASSUME StartupConstants == Attempts \in Nat \ {0} /\ MaxDelay \in Nat

\* The processes that connect to another when they start.
Callers == {"risk", "gateway", "client", "persistence"}

Processes == Callers \cup {"engine", "postgres"}

Callee(p) ==
    CASE p = "risk" -> "engine"
      [] p = "gateway" -> "risk"
      [] p = "client" -> "gateway"
      [] p = "persistence" -> "postgres"

MaxTries(p) == IF p = "client" THEN 1 ELSE Attempts

\* Ticks that a process sleeps after an attempt.
Sleep(p) == CASE p = "persistence" -> 2 [] p = "client" -> 0 [] OTHER -> 1

VARIABLES
    clock,
    start, \* when a process begins to run; engine and postgres: to listen
    state, \* not listening yet, listening, or gone
    tries  \* connection attempts that have failed

vars == <<clock, start, state, tries>>

MaxClock == 2 * MaxDelay + 2 * Attempts

TypeOK ==
    /\ clock \in 0 .. MaxClock
    /\ start \in [Processes -> 0 .. MaxClock]
    /\ state \in [Processes -> {"starting", "up", "gone"}]
    /\ tries \in [Callers -> 0 .. Attempts]

\* Containers start in the order of depends_on; engine and postgres need a while
\* until they listen.
Init ==
    /\ clock = 0
    /\ \E engine, gateway, client, postgres \in 0 .. MaxDelay :
          start = [p \in Processes |->
                     CASE p = "engine" -> engine
                       [] p = "gateway" -> gateway
                       [] p = "client" -> gateway + client
                       [] p = "postgres" -> 2 * postgres
                       [] OTHER -> 0]
    /\ state = [p \in Processes |-> "starting"]
    /\ tries = [p \in Callers |-> 0]

\* engine and postgres accept connections.
Listen(p) ==
    /\ p \notin Callers
    /\ state[p] = "starting"
    /\ clock = start[p]
    /\ state' = [state EXCEPT ![p] = "up"]
    /\ UNCHANGED <<clock, start, tries>>

\* A process is at its next attempt, or done with sleeping after the last.
Awake(p) == state[p] = "starting" /\ clock = start[p] + tries[p] * Sleep(p)

\* Mutant: the loop does not count.
AttemptUncounted(p) ==
    /\ p \in Callers
    /\ Awake(p)
    /\ tries[p] < MaxTries(p)
    /\ state' = IF state[Callee(p)] = "up" THEN [state EXCEPT ![p] = "up"] ELSE state
    /\ UNCHANGED <<clock, start, tries>>

\* Mutant: the loop has no limit.
AttemptUnlimited(p) ==
    /\ p \in Callers
    /\ Awake(p)
    /\ IF state[Callee(p)] = "up"
       THEN state' = [state EXCEPT ![p] = "up"] /\ UNCHANGED tries
       ELSE tries' = [tries EXCEPT ![p] = @ + 1] /\ UNCHANGED state
    /\ UNCHANGED <<clock, start>>

\* One turn of the loop in main(): connect, or sleep.
Attempt(p) ==
    /\ p \in Callers
    /\ Awake(p)
    /\ tries[p] < MaxTries(p)
    /\ IF state[Callee(p)] = "up"
       THEN state' = [state EXCEPT ![p] = "up"] /\ UNCHANGED tries
       ELSE tries' = [tries EXCEPT ![p] = @ + 1] /\ UNCHANGED state
    /\ UNCHANGED <<clock, start>>

\* Mutant: the last attempt is not made.
GiveUpEarly(p) ==
    /\ p \in Callers
    /\ Awake(p)
    /\ tries[p] >= MaxTries(p) - 1
    /\ state' = [state EXCEPT ![p] = "gone"]
    /\ UNCHANGED <<clock, start, tries>>

\* main() returns 1; in the client, an exception ends it.
GiveUp(p) ==
    /\ p \in Callers
    /\ Awake(p)
    /\ tries[p] = MaxTries(p)
    /\ state' = [state EXCEPT ![p] = "gone"]
    /\ UNCHANGED <<clock, start, tries>>

Due(p) == IF p \in Callers THEN Awake(p) ELSE state[p] = "starting" /\ clock = start[p]

Tick ==
    /\ \A p \in Processes : ~Due(p)
    /\ \E p \in Processes : state[p] = "starting"
    /\ clock' = clock + 1
    /\ UNCHANGED <<start, state, tries>>

Next ==
    \/ \E p \in Processes : Listen(p) \/ Attempt(p) \/ GiveUp(p)
    \/ Tick

Spec == Init /\ [][Next]_vars

\* Time passes, and processes take their turns in it.
FairSpec == Spec /\ WF_vars(Next)

-----------------------------------------------------------------------------
\* The retries bridge what depends_on leaves open: a service is lost only if what it
\* waits for takes all of its attempts to come up, and the sum of two such delays
\* does not defeat the gateway earlier than one defeats the risk service.  Persistence
\* bridges nine seconds: it sleeps twice as long as the others.  (architecture.md:541
\* has about five for all three, which the code holds to for risk and gateway only.)
DelaysBridged ==
    /\ state["risk"] = "gone" => start["engine"] >= start["risk"] + Attempts - 1
    /\ state["gateway"] = "gone" =>
          state["risk"] = "gone" \/ start["engine"] >= start["gateway"] + Attempts - 2
    /\ state["persistence"] = "gone" =>
          start["postgres"] >= start["persistence"] + 2 * (Attempts - 1)

\* In the end everyone is up or gone, and nobody is up without its callee.
StartupSettles ==
    <>[](/\ \A p \in Processes : state[p] # "starting"
         /\ \A p \in Callers : state[p] = "up" => state[Callee(p)] = "up")
=============================================================================
