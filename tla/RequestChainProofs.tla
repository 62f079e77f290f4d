------------------------ MODULE RequestChainProofs ------------------------
(***************************************************************************)
(* Proofs about RequestChain, for any clients, any costs, any number of    *)
(* requests and any processes killed and started again at any point.       *)
(*                                                                         *)
(* The properties of the requests follow from where frames and answers can *)
(* be: a request is in at most one inbox, and not any more once it is      *)
(* handled; and the session of a frame is open only as long as the one who *)
(* sent it still waits for just this answer.                               *)
(***************************************************************************)
EXTENDS RequestChain, FiniteSetTheorems, TLAPS

\* n is in sendAndReceive() with the request, and has no answer yet.
Awaits(n, request) ==
  pending[n] # NONE /\ pending[n].request = request /\ answer[n] = NONE

Relays == {"gateway", "risk"}

\* A frame, waiting or being handled, came in on a session of its service; if the
\* session is open, its caller awaits the answer, and awaits no other one there.
SessionsMatch ==
  /\ \A s \in Services : \A f \in inbox[s] :
        Callee(f.from) = s /\ (f.open => Awaits(f.from, f.request))
  /\ \A s \in Relays : pending[s] # NONE =>
        /\ Callee(pending[s].from) = s
        /\ pending[s].open => Awaits(pending[s].from, pending[s].request)
        /\ pending[s].open => \A f \in inbox[s] : f.open => f.from # pending[s].from

\* Requests that nobody has made yet are nowhere.
RequestsKnown ==
  /\ \A n \in Callers : pending[n] # NONE => pending[n].request.call \in 1 .. calls
  /\ \A s \in Services : \A f \in inbox[s] : f.request.call \in 1 .. calls
  /\ \A k \in 1 .. MaxCalls : k > calls => executions[k] = 0 /\ told[k] = NONE

\* A request waits in at most one inbox, and is not handled yet if it does.
OneFramePerRequest ==
  /\ \A s, t \in Services : \A f \in inbox[s], g \in inbox[t] :
        f.request.call = g.request.call => s = t /\ f = g
  /\ \A s \in Services : \A f \in inbox[s] : executions[f.request.call] = 0
  /\ \A k \in 1 .. MaxCalls : executions[k] \in {0, 1}

\* What an answer of the kind to request k says, and says for ever.
IsTrue(k, kind) ==
  IF kind = "refused"
  THEN executions[k] = 0 /\ \A s \in Services : \A f \in inbox[s] : f.request.call # k
  ELSE executions[k] = 1

\* Answers on the way and answers that were given are true, and only new orders
\* are refused.
AnswersTrue ==
  /\ \A n \in Callers : answer[n] # NONE =>
        /\ IsTrue(answer[n].call, answer[n].kind)
        /\ answer[n].kind = "refused" => pending[n].request.kind = "NewOrder"
  /\ \A k \in 1 .. MaxCalls : told[k] # NONE => IsTrue(k, told[k])

\* Only new orders cost anything.
OnlyOrdersCost ==
  \A s \in Services : \A f \in inbox[s] : f.request.kind # "NewOrder" => f.request.cost = 0

\* The inductive invariant.
ChainInv ==
  /\ TypeOK
  /\ SessionsMatch
  /\ RequestsKnown
  /\ AnswersMatchCalls
  /\ OneFramePerRequest
  /\ AnswersTrue
  /\ OnlyOrdersCost

-----------------------------------------------------------------------------
\* Who is connected to whom.
LEMMA CalleeFacts ==
  /\ \A c \in Clients : Callee(c) = "gateway"
  /\ Callee("gateway") = "risk" /\ Callee("risk") = "engine"
  /\ \A n \in Callers : Callee(n) \in Services /\ Callee(n) # n
  BY ChainConstants DEF Callee, Callers, Services

\* Closing the session of a frame changes nothing else of it.
LEMMA OrphanedFacts ==
  ASSUME NEW f \in Frame, NEW n
  PROVE  /\ Orphaned(f, n) \in Frame
         /\ Orphaned(f, n) # NONE
         /\ Orphaned(f, n).request = f.request
         /\ Orphaned(f, n).from = f.from
         /\ Orphaned(f, n).open <=> f.open /\ f.from # n
  BY NoneIsNoFrame DEF Orphaned, Frame

\* Where frames and answers are after a process has ended.
LEMMA DiesFacts ==
  ASSUME TypeOK, NEW n \in Clients \cup Services, Dies(n)
  PROVE  /\ up' \subseteq Clients \cup Services
         /\ link' \subseteq Callers \cap up'
         /\ inbox' \in [Services -> SUBSET Frame]
         /\ pending' \in [Callers -> Frame \cup {NONE}]
         /\ answer' \in [Callers -> Answer \cup {NONE}]
         /\ inbox'["engine"] = {} \/ inbox'["engine"] = {Orphaned(f, n) : f \in inbox["engine"]}
         /\ \A s \in Services : \A f \in inbox'[s] :
               s # n /\ \E g \in inbox[s] : g \in Frame /\ f = Orphaned(g, n)
         /\ \A m \in Callers : pending'[m] # NONE =>
               m # n /\ pending[m] \in Frame /\ pending'[m] = Orphaned(pending[m], n)
         /\ \A m \in Callers : pending[m] # NONE /\ m # n =>
               pending'[m] # NONE /\ pending'[m].request = pending[m].request
         /\ \A m \in Callers : answer'[m] # NONE => m # n /\ answer'[m] = answer[m]
         /\ \A m \in Callers : answer[m] = NONE => answer'[m] = NONE
<1>1. up' \subseteq Clients \cup Services /\ link' \subseteq Callers \cap up'
  BY DEF Dies, TypeOK
<1>2. inbox' = [s \in Services |-> IF s = n THEN {} ELSE {Orphaned(f, n) : f \in inbox[s]}]
  BY DEF Dies
<1>3. \A s \in Services : \A f \in inbox'[s] :
        s # n /\ \E g \in inbox[s] : g \in Frame /\ f = Orphaned(g, n)
  BY <1>2 DEF TypeOK
<1>4. inbox' \in [Services -> SUBSET Frame]
  BY <1>2, OrphanedFacts DEF TypeOK
<1>5. inbox'["engine"] = {} \/ inbox'["engine"] = {Orphaned(f, n) : f \in inbox["engine"]}
  BY <1>2 DEF Services
<1>6. pending' = [m \in Callers |->
                    IF m = n \/ pending[m] = NONE THEN NONE ELSE Orphaned(pending[m], n)]
  BY DEF Dies
<1>7. \A m \in Callers : pending[m] # NONE => pending[m] \in Frame
  BY DEF TypeOK
<1>8. pending' \in [Callers -> Frame \cup {NONE}]
  BY <1>6, <1>7, OrphanedFacts
<1>9. \A m \in Callers : pending'[m] # NONE =>
        m # n /\ pending[m] \in Frame /\ pending'[m] = Orphaned(pending[m], n)
  BY <1>6, <1>7
<1>10. \A m \in Callers : pending[m] # NONE /\ m # n =>
         pending'[m] # NONE /\ pending'[m].request = pending[m].request
  BY <1>6, <1>7, OrphanedFacts
<1>11. /\ answer' \in [Callers -> Answer \cup {NONE}]
       /\ \A m \in Callers : answer'[m] # NONE => m # n /\ answer'[m] = answer[m]
       /\ \A m \in Callers : answer[m] = NONE => answer'[m] = NONE
  BY DEF Dies, TypeOK
<1> QED
  BY <1>1, <1>3, <1>4, <1>5, <1>8, <1>9, <1>10, <1>11

\* What is kept when a process ends.
LEMMA DiesStep ==
  ASSUME ChainInv, NEW n \in Clients \cup Services, Dies(n),
         calls' \in Nat, calls <= calls', UNCHANGED <<executions, told>>
  PROVE  SessionsMatch' /\ RequestsKnown' /\ AnswersMatchCalls' /\ OneFramePerRequest'
           /\ AnswersTrue'
<1> USE DEF ChainInv
<1>1. \A s \in Services : \A f \in inbox'[s] :
        s # n /\ \E g \in inbox[s] : g \in Frame /\ f = Orphaned(g, n)
  BY DiesFacts
<1>2. \A m \in Callers : pending'[m] # NONE =>
        m # n /\ pending[m] \in Frame /\ pending'[m] = Orphaned(pending[m], n)
  BY DiesFacts
<1>3. \A m \in Callers : pending[m] # NONE /\ m # n =>
        pending'[m] # NONE /\ pending'[m].request = pending[m].request
  BY DiesFacts
<1>4. /\ \A m \in Callers : answer'[m] # NONE => m # n /\ answer'[m] = answer[m]
      /\ \A m \in Callers : answer[m] = NONE => answer'[m] = NONE
  BY DiesFacts
<1>5. calls \in Nat /\ \A k \in Nat : k \in 1 .. calls => k \in 1 .. calls'
  BY ChainConstants DEF TypeOK
<1>6. ASSUME NEW m \in Callers, NEW r, Awaits(m, r), m # n
      PROVE  Awaits(m, r)'
  BY <1>3, <1>4, <1>6 DEF Awaits
<1>7. SessionsMatch'
  <2>1. ASSUME NEW s \in Services, NEW f \in inbox'[s]
        PROVE  Callee(f.from) = s /\ (f.open => Awaits(f.from, f.request)')
    <3>1. PICK g \in inbox[s] : g \in Frame /\ f = Orphaned(g, n)
      BY <1>1
    <3>2. f.request = g.request /\ f.from = g.from /\ (f.open <=> g.open /\ g.from # n)
      BY <3>1, OrphanedFacts
    <3>3. Callee(g.from) = s /\ (g.open => Awaits(g.from, g.request)) /\ g.from \in Callers
      BY <3>1 DEF SessionsMatch, Frame
    <3> QED
      BY <3>2, <3>3, <1>6
  <2>2. ASSUME NEW s \in Relays, pending'[s] # NONE
        PROVE  /\ Callee(pending'[s].from) = s
               /\ pending'[s].open => Awaits(pending[s].from, pending[s].request)'
               /\ pending'[s].open => \A f \in inbox'[s] : f.open => f.from # pending'[s].from
    <3>1. s \in Callers /\ s \in Services
      BY DEF Relays, Callers, Services
    <3>2. pending[s] \in Frame /\ pending'[s] = Orphaned(pending[s], n)
      BY <1>2, <2>2, <3>1
    <3>3. /\ pending'[s].request = pending[s].request /\ pending'[s].from = pending[s].from
          /\ pending'[s].open <=> pending[s].open /\ pending[s].from # n
      BY <3>2, OrphanedFacts
    <3>4. pending[s] # NONE
      BY <3>2, NoneIsNoFrame
    <3>5. /\ Callee(pending[s].from) = s /\ pending[s].from \in Callers
          /\ pending[s].open => Awaits(pending[s].from, pending[s].request)
          /\ pending[s].open => \A f \in inbox[s] : f.open => f.from # pending[s].from
      BY <3>2, <3>4 DEF SessionsMatch, Frame
    <3>6. \A f \in inbox'[s] : \E g \in inbox[s] : f.from = g.from /\ (f.open => g.open)
      BY <1>1, <3>1, OrphanedFacts
    <3> QED
      BY <3>3, <3>5, <3>6, <1>6
  <2> QED
    BY <2>1, <2>2 DEF SessionsMatch
<1>8. RequestsKnown'
  <2>1. \A m \in Callers : pending'[m] # NONE => pending'[m].request.call \in 1 .. calls'
    BY <1>2, <1>5, OrphanedFacts, NoneIsNoFrame DEF RequestsKnown
  <2>2. \A s \in Services : \A f \in inbox'[s] : f.request.call \in 1 .. calls'
    BY <1>1, <1>5, OrphanedFacts DEF RequestsKnown
  <2>3. \A k \in 1 .. MaxCalls : k > calls' => executions'[k] = 0 /\ told'[k] = NONE
    BY <1>5, ChainConstants DEF RequestsKnown
  <2> QED
    BY <2>1, <2>2, <2>3 DEF RequestsKnown
<1>9. AnswersMatchCalls'
  BY <1>3, <1>4 DEF AnswersMatchCalls
<1>10. OneFramePerRequest'
  <2>1. ASSUME NEW s \in Services, NEW t \in Services, NEW f \in inbox'[s], NEW g \in inbox'[t],
               f.request.call = g.request.call
        PROVE  s = t /\ f = g
    BY <1>1, <2>1, OrphanedFacts DEF OneFramePerRequest
  <2>2. \A s \in Services : \A f \in inbox'[s] : executions[f.request.call] = 0
    BY <1>1, OrphanedFacts DEF OneFramePerRequest
  <2> QED
    BY <2>1, <2>2 DEF OneFramePerRequest
<1>11. AnswersTrue'
  <2>1. \A s \in Services : \A f \in inbox'[s] : \E g \in inbox[s] : f.request = g.request
    BY <1>1, OrphanedFacts
  <2>2. ASSUME NEW k, NEW kind, IsTrue(k, kind)
        PROVE  IsTrue(k, kind)'
    BY <2>1, <2>2 DEF IsTrue
  <2>3. ASSUME NEW m \in Callers, answer'[m] # NONE
        PROVE  /\ IsTrue(answer[m].call, answer[m].kind)
               /\ answer'[m].kind = "refused" => pending'[m].request.kind = "NewOrder"
    <3>1. m # n /\ answer'[m] = answer[m]
      BY <1>4, <2>3
    <3>2. pending[m] # NONE
      BY <2>3, <3>1 DEF AnswersMatchCalls
    <3> QED
      BY <1>3, <2>3, <3>1, <3>2 DEF AnswersTrue
  <2>4. \A m \in Callers : answer'[m] # NONE => answer'[m] = answer[m]
    BY <1>4
  <2> QED
    BY <2>2, <2>3, <2>4 DEF AnswersTrue
<1> QED
  BY <1>7, <1>8, <1>9, <1>10, <1>11

\* What is kept when n sends a request on: a client a new one, gateway and risk
\* service the one that they take out of their inbox.
LEMMA SendStep ==
  ASSUME ChainInv, NEW n \in Callers, NEW f \in Frame, pending[n] = NONE, SendOn(n, f),
         \/ n \in Clients /\ f.request.call = calls + 1 /\ calls' = calls + 1
         \/ n \in Relays /\ f \in inbox[n] /\ calls' = calls,
         calls' <= MaxCalls, UNCHANGED <<executions, told>>
  PROVE  SessionsMatch' /\ RequestsKnown' /\ AnswersMatchCalls' /\ OneFramePerRequest'
           /\ AnswersTrue'
<1> USE DEF ChainInv
<1> DEFINE new == [request |-> f.request, from |-> n, open |-> TRUE]
<1>1. /\ new \in Frame /\ new.request = f.request /\ new.from = n /\ new.open
      /\ f.request.call \in Nat /\ f # NONE /\ f.from \in Callers
  BY NoneIsNoFrame DEF Frame, Request
<1>2. /\ inbox' = [s \in Services |->
                     IF s = Callee(n) THEN inbox[s] \cup {new} ELSE inbox[s] \ {f}]
      /\ pending' = [pending EXCEPT ![n] = f] /\ answer' = answer
  BY DEF SendOn
<1> HIDE DEF new
<1>3. /\ \A m \in Callers : pending'[m] = IF m = n THEN f ELSE pending[m]
      /\ answer[n] = NONE /\ Callee(n) \in Services /\ Callee(n) # n
      /\ calls \in Nat /\ calls' \in Nat /\ calls <= calls' /\ MaxCalls \in Nat
  BY <1>2, CalleeFacts, ChainConstants DEF TypeOK, AnswersMatchCalls
<1>4. Relays \subseteq Callers /\ Relays \subseteq Services /\ Clients \cap Services = {}
  BY ChainConstants DEF Relays, Callers, Services
<1>5. ASSUME NEW s \in Services, NEW g \in inbox'[s]
      PROVE  \/ g \in inbox[s] /\ g.request.call # f.request.call
             \/ s = Callee(n) /\ g = new
  <2>1. \/ g \in inbox[s] /\ (s # Callee(n) => g # f)
        \/ s = Callee(n) /\ g = new
    BY <1>2
  <2>2. CASE n \in Clients /\ f.request.call = calls + 1
    BY <2>1, <2>2, <1>3 DEF RequestsKnown
  <2>3. CASE n \in Relays /\ f \in inbox[n]
    BY <2>1, <2>3, <1>3, <1>4 DEF OneFramePerRequest
  <2> QED
    BY <2>2, <2>3
<1>6. executions[f.request.call] = 0 /\ f.request.call \in 1 .. calls'
  <2>1. CASE n \in Clients /\ f.request.call = calls + 1 /\ calls' = calls + 1
    <3>1. calls' \in Nat /\ f.request.call \in 1 .. calls'
      BY <1>3, <2>1
    <3> QED
      BY <1>3, <2>1, <3>1, ChainConstants DEF RequestsKnown
  <2>2. CASE n \in Relays /\ f \in inbox[n] /\ calls' = calls
    BY <2>2, <1>4 DEF RequestsKnown, OneFramePerRequest
  <2> QED
    BY <2>1, <2>2
<1>7. ASSUME NEW m \in Callers, NEW r, Awaits(m, r)
      PROVE  Awaits(m, r)' /\ m # n
  BY <1>2, <1>3, <1>7 DEF Awaits
<1>8. Awaits(n, f.request)'
  BY <1>1, <1>2, <1>3 DEF Awaits
<1>9. SessionsMatch'
  <2>1. ASSUME NEW s \in Services, NEW g \in inbox'[s]
        PROVE  Callee(g.from) = s /\ (g.open => Awaits(g.from, g.request)')
    <3>1. CASE g \in inbox[s]
      <4>1. /\ Callee(g.from) = s /\ (g.open => Awaits(g.from, g.request))
            /\ g.from \in Callers
        BY <3>1 DEF SessionsMatch, TypeOK, Frame
      <4> QED
        BY <4>1, <1>7
    <3>2. CASE s = Callee(n) /\ g = new
      BY <3>2, <1>1, <1>8
    <3> QED
      BY <1>5, <3>1, <3>2
  <2>2. ASSUME NEW s \in Relays, pending'[s] # NONE
        PROVE  /\ Callee(pending'[s].from) = s
               /\ pending'[s].open => Awaits(pending[s].from, pending[s].request)'
               /\ pending'[s].open => \A g \in inbox'[s] : g.open => g.from # pending'[s].from
    <3>1. CASE s # n
      <4>1. pending'[s] = pending[s] /\ pending[s] \in Frame /\ s \in Services
        BY <1>3, <1>4, <2>2, <3>1 DEF TypeOK
      <4>2. /\ Callee(pending[s].from) = s /\ pending[s].from \in Callers
            /\ pending[s].open => Awaits(pending[s].from, pending[s].request)
            /\ pending[s].open => \A g \in inbox[s] : g.open => g.from # pending[s].from
        BY <2>2, <4>1 DEF SessionsMatch, Frame
      <4>3. pending[s].open => pending[s].from # n
        BY <1>7, <4>2
      <4> QED
        BY <4>1, <4>2, <4>3, <1>1, <1>5, <1>7
    <3>2. CASE s = n
      <4>1. n \in Relays /\ f \in inbox[n] /\ pending'[s] = f /\ s \in Services
        BY <1>3, <1>4, <3>2
      <4>2. Callee(f.from) = s /\ (f.open => Awaits(f.from, f.request))
        BY <3>2, <4>1 DEF SessionsMatch
      <4>3. ASSUME NEW g \in inbox'[s], g.open, f.open PROVE g.from # f.from
        <5>1. g \in inbox[s] /\ g.request.call # f.request.call
          BY <1>3, <1>5, <3>2, <4>1
        <5>2. Awaits(g.from, g.request)
          BY <4>1, <4>3, <5>1 DEF SessionsMatch
        <5> QED
          BY <4>2, <4>3, <5>1, <5>2 DEF Awaits
      <4> QED
        BY <1>1, <1>7, <4>1, <4>2, <4>3
    <3> QED
      BY <3>1, <3>2
  <2> QED
    BY <2>1, <2>2 DEF SessionsMatch
<1>10. RequestsKnown'
  <2>1. \A k \in Nat : k \in 1 .. calls => k \in 1 .. calls'
    BY <1>3
  <2>2. \A m \in Callers : pending'[m] # NONE => pending'[m].request.call \in 1 .. calls'
    BY <1>3, <1>6, <2>1 DEF RequestsKnown
  <2>3. \A s \in Services : \A g \in inbox'[s] : g.request.call \in 1 .. calls'
    BY <1>1, <1>5, <1>6, <2>1 DEF RequestsKnown
  <2>4. \A k \in 1 .. MaxCalls : k > calls' => executions'[k] = 0 /\ told'[k] = NONE
    BY <1>3 DEF RequestsKnown
  <2> QED
    BY <2>2, <2>3, <2>4 DEF RequestsKnown
<1>11. AnswersMatchCalls'
  BY <1>2, <1>3 DEF AnswersMatchCalls
<1>12. OneFramePerRequest'
  <2>1. ASSUME NEW s \in Services, NEW t \in Services, NEW g \in inbox'[s], NEW h \in inbox'[t],
               g.request.call = h.request.call
        PROVE  s = t /\ g = h
    BY <1>1, <1>5, <2>1 DEF OneFramePerRequest
  <2>2. \A s \in Services : \A g \in inbox'[s] : executions[g.request.call] = 0
    BY <1>1, <1>5, <1>6 DEF OneFramePerRequest
  <2> QED
    BY <2>1, <2>2 DEF OneFramePerRequest
<1>13. AnswersTrue'
  <2>1. ASSUME NEW k \in 1 .. calls, NEW kind, IsTrue(k, kind)
        PROVE  IsTrue(k, kind)'
    <3>1. CASE kind = "refused"
      <4>1. executions[k] = 0 /\ \A s \in Services : \A g \in inbox[s] : g.request.call # k
        BY <2>1, <3>1 DEF IsTrue
      <4>2. f.request.call # k
        BY <4>1, <1>3, <1>4
      <4>3. \A s \in Services : \A g \in inbox'[s] : g.request.call # k
        BY <1>1, <1>5, <4>1, <4>2
      <4> QED
        BY <3>1, <4>1, <4>3 DEF IsTrue
    <3>2. CASE kind # "refused"
      BY <2>1, <3>2 DEF IsTrue
    <3> QED
      BY <3>1, <3>2
  <2>2. ASSUME NEW m \in Callers, answer[m] # NONE
        PROVE  /\ IsTrue(answer[m].call, answer[m].kind)'
               /\ answer[m].kind = "refused" => pending'[m].request.kind = "NewOrder"
    <3>1. m # n /\ answer[m].call \in 1 .. calls
      BY <1>3, <2>2 DEF AnswersMatchCalls, RequestsKnown
    <3>2. /\ IsTrue(answer[m].call, answer[m].kind)
          /\ answer[m].kind = "refused" => pending[m].request.kind = "NewOrder"
      BY <2>2 DEF AnswersTrue
    <3>3. answer'[m].call = answer[m].call /\ answer'[m].kind = answer[m].kind
      BY <1>2
    <3> QED
      BY <1>3, <2>1, <3>1, <3>2, <3>3
  <2>3. ASSUME NEW k \in 1 .. MaxCalls, told[k] # NONE
        PROVE  IsTrue(k, told[k])'
    <3>1. k \in 1 .. calls /\ told'[k] = told[k]
      BY <1>3, <2>3 DEF RequestsKnown
    <3> QED
      BY <2>1, <2>3, <3>1 DEF AnswersTrue
  <2> QED
    BY <1>2, <2>2, <2>3 DEF AnswersTrue
<1> QED
  BY <1>9, <1>10, <1>11, <1>12, <1>13

\* What is kept when a service takes a frame out of its inbox for good: it answers,
\* with the request refused or handled, or the session is gone.
LEMMA TakeStep ==
  ASSUME ChainInv, NEW s \in Services, NEW f \in inbox[s], NEW reply \in Answer,
         inbox' = [inbox EXCEPT ![s] = @ \ {f}],
         reply.call = f.request.call,
         \/ answer' = answer /\ executions' = executions /\ ~f.open
         \/ /\ answer' = Respond(answer, f, reply)
            /\ reply.kind = "refused" /\ f.request.kind = "NewOrder"
            /\ executions' = executions
         \/ /\ answer' = Respond(answer, f, reply)
            /\ reply.kind # "refused"
            /\ executions' = [executions EXCEPT ![f.request.call] = @ + 1],
         UNCHANGED <<pending, calls, told>>
  PROVE  /\ SessionsMatch' /\ RequestsKnown' /\ AnswersMatchCalls' /\ OneFramePerRequest'
         /\ AnswersTrue'
         /\ inbox' \in [Services -> SUBSET Frame]
         /\ answer' \in [Callers -> Answer \cup {NONE}]
         /\ executions' \in [1 .. MaxCalls -> Nat]
<1> USE DEF ChainInv
<1>1. f \in Frame /\ f.from \in Callers /\ f.request.call \in 1 .. calls
      /\ f.request.call \in 1 .. MaxCalls /\ executions[f.request.call] = 0
      /\ calls \in Nat /\ MaxCalls \in Nat
  BY ChainConstants DEF TypeOK, Frame, RequestsKnown, OneFramePerRequest
<1>2. ASSUME NEW t \in Services, NEW g \in inbox'[t]
      PROVE  g \in inbox[t] /\ g.request.call # f.request.call
  <2>1. g \in inbox[t] /\ (t = s => g # f)
    BY <1>2 DEF TypeOK
  <2> QED
    BY <2>1 DEF OneFramePerRequest
<1>3. Callee(f.from) = s /\ (f.open => Awaits(f.from, f.request))
  BY DEF SessionsMatch
<1>4. ASSUME NEW m \in Callers
      PROVE  \/ answer'[m] = answer[m] /\ (m = f.from => ~f.open)
             \/ m = f.from /\ f.open /\ answer'[m] = reply
  BY <1>1 DEF TypeOK, Respond
<1>5. ASSUME NEW m \in Callers, NEW r, Awaits(m, r), m = f.from => ~f.open
      PROVE  Awaits(m, r)'
  BY <1>4, <1>5 DEF Awaits
<1>6. \A k \in 1 .. MaxCalls : executions'[k] =
        IF executions' # executions /\ k = f.request.call THEN 1 ELSE executions[k]
  BY <1>1 DEF TypeOK
<1>7. SessionsMatch'
  <2>1. ASSUME NEW t \in Services, NEW g \in inbox'[t]
        PROVE  Callee(g.from) = t /\ (g.open => Awaits(g.from, g.request)')
    <3>1. Callee(g.from) = t /\ (g.open => Awaits(g.from, g.request)) /\ g.from \in Callers
      BY <1>2 DEF SessionsMatch, TypeOK, Frame
    <3>2. g.open /\ f.open => g.from # f.from
      BY <1>2, <1>3, <3>1 DEF Awaits
    <3> QED
      BY <1>5, <3>1, <3>2
  <2>2. ASSUME NEW t \in Relays, pending[t] # NONE
        PROVE  /\ Callee(pending[t].from) = t
               /\ pending[t].open => Awaits(pending[t].from, pending[t].request)'
               /\ pending[t].open => \A g \in inbox'[t] : g.open => g.from # pending[t].from
    <3>1. t \in Services /\ t \in Callers
      BY DEF Relays, Services, Callers
    <3>2. /\ Callee(pending[t].from) = t /\ pending[t].from \in Callers
          /\ pending[t].open => Awaits(pending[t].from, pending[t].request)
          /\ pending[t].open => \A g \in inbox[t] : g.open => g.from # pending[t].from
      BY <2>2, <3>1 DEF SessionsMatch, TypeOK, Frame
    <3>3. pending[t].open /\ f.open => pending[t].from # f.from
      BY <1>3, <3>2
    <3>4. pending[t].open => Awaits(pending[t].from, pending[t].request)'
      <4>1. ASSUME NEW m, m = pending[t].from, NEW r, r = pending[t].request, pending[t].open
            PROVE  Awaits(m, r)'
        BY <1>5, <3>2, <3>3, <4>1
      <4> QED
        BY <4>1
    <3> QED
      BY <1>2, <3>1, <3>2, <3>4
  <2> QED
    BY <2>1, <2>2 DEF SessionsMatch
<1>8. RequestsKnown'
  BY <1>1, <1>2, <1>6 DEF RequestsKnown
<1>9. AnswersMatchCalls'
  BY <1>3, <1>4 DEF AnswersMatchCalls, Awaits
<1>10. OneFramePerRequest'
  <2>1. ASSUME NEW t \in Services, NEW u \in Services, NEW g \in inbox'[t], NEW h \in inbox'[u],
               g.request.call = h.request.call
        PROVE  t = u /\ g = h
    BY <1>2, <2>1 DEF OneFramePerRequest
  <2>2. ASSUME NEW t \in Services, NEW g \in inbox'[t]
        PROVE  executions'[g.request.call] = 0
    <3>1. g.request.call \in 1 .. MaxCalls /\ executions[g.request.call] = 0
      BY <1>1, <1>2 DEF RequestsKnown, OneFramePerRequest, TypeOK
    <3> QED
      BY <1>2, <1>6, <3>1
  <2> QED
    BY <2>1, <2>2, <1>6 DEF OneFramePerRequest
<1>11. AnswersTrue'
  <2>1. ASSUME NEW k \in 1 .. MaxCalls, NEW kind, IsTrue(k, kind)
        PROVE  IsTrue(k, kind)'
    <3>1. k # f.request.call
      BY <1>1, <2>1 DEF IsTrue
    <3> QED
      BY <1>2, <1>6, <2>1, <3>1 DEF IsTrue
  <2>2. f.open => IsTrue(f.request.call, reply.kind)'
    BY <1>1, <1>2 DEF IsTrue, TypeOK
  <2>3. ASSUME NEW m \in Callers, answer'[m] # NONE
        PROVE  /\ IsTrue(answer[m].call, answer[m].kind)'
               /\ answer'[m].kind = "refused" => pending[m].request.kind = "NewOrder"
    <3>1. CASE answer'[m] = answer[m]
      <4>1. /\ answer[m].call \in 1 .. MaxCalls
            /\ answer'[m].call = answer[m].call /\ answer'[m].kind = answer[m].kind
        BY <1>1, <2>3, <3>1 DEF AnswersMatchCalls, RequestsKnown, TypeOK
      <4>2. /\ IsTrue(answer[m].call, answer[m].kind)
            /\ answer[m].kind = "refused" => pending[m].request.kind = "NewOrder"
        BY <2>3, <3>1 DEF AnswersTrue
      <4> QED
        BY <2>1, <4>1, <4>2
    <3>2. CASE m = f.from /\ f.open /\ answer'[m] = reply
      <4>1. answer'[m].call = f.request.call /\ answer'[m].kind = reply.kind
        BY <3>2
      <4>2. reply.kind = "refused" => f.request.kind = "NewOrder"
        BY <3>2
      <4> QED
        BY <1>3, <2>2, <3>2, <4>1, <4>2 DEF Awaits
    <3> QED
      BY <1>4, <3>1, <3>2
  <2>4. ASSUME NEW k \in 1 .. MaxCalls, told[k] # NONE
        PROVE  IsTrue(k, told[k])'
    <3>1. told'[k] = told[k]
      OBVIOUS
    <3> QED
      BY <2>1, <2>4, <3>1 DEF AnswersTrue
  <2> QED
    BY <2>3, <2>4 DEF AnswersTrue
<1>12. inbox' \in [Services -> SUBSET Frame]
  BY DEF TypeOK
<1>13. executions' \in [1 .. MaxCalls -> Nat]
  <2>1. executions' = executions
          \/ executions' = [executions EXCEPT ![f.request.call] = executions[f.request.call] + 1]
    OBVIOUS
  <2>2. executions \in [1 .. MaxCalls -> Nat] /\ executions[f.request.call] + 1 \in Nat
    BY <1>1 DEF TypeOK
  <2> QED
    BY <2>1, <2>2
<1>14. answer' \in [Callers -> Answer \cup {NONE}]
  BY <1>1 DEF TypeOK, Respond
<1> QED
  BY <1>7, <1>8, <1>9, <1>10, <1>11, <1>12, <1>13, <1>14

\* What is kept when gateway or risk service pass an answer on.
LEMMA RelayStep ==
  ASSUME ChainInv, NEW s \in Relays, Relay(s)
  PROVE  /\ SessionsMatch' /\ RequestsKnown' /\ AnswersMatchCalls' /\ OneFramePerRequest'
         /\ AnswersTrue' /\ TypeOK'
<1> USE DEF ChainInv
<1> DEFINE p == pending[s]
           reply == Decoded(s, p.request, answer[s])
<1>1. /\ answer[s] # NONE /\ pending[s] # NONE /\ answer[s].call = p.request.call
      /\ s \in Callers /\ s \in Services
      /\ pending' = [pending EXCEPT ![s] = NONE]
      /\ answer' = Respond([answer EXCEPT ![s] = NONE], p, reply)
      /\ UNCHANGED <<up, link, inbox, buyingPower, calls, kills, historyVars>>
  BY DEF Relay, AnswersMatchCalls, Relays, Callers, Services
<1>2. p \in Frame /\ answer[s] \in Answer /\ p.from \in Callers /\ p.request \in Request
  BY <1>1 DEF TypeOK, Frame
<1>3. Callee(p.from) = s /\ p.from # s /\ (p.open => Awaits(p.from, p.request))
  BY <1>1, CalleeFacts DEF SessionsMatch
<1>4. /\ reply \in Answer /\ reply.call = answer[s].call
      /\ reply.kind = answer[s].kind
         \/ (reply.kind = "reject" /\ p.request.kind = "BookQuery")
  BY <1>2 DEF Decoded, Answer
<1>5. /\ answer[s].kind = "refused" => p.request.kind = "NewOrder"
      /\ IsTrue(answer[s].call, answer[s].kind)
  BY <1>1 DEF AnswersTrue
<1>6. /\ IsTrue(reply.call, reply.kind)
      /\ reply.kind = "refused" => p.request.kind = "NewOrder"
  BY <1>4, <1>5 DEF IsTrue
<1> HIDE DEF reply, p
<1>7. ASSUME NEW m \in Callers
      PROVE  /\ pending'[m] = IF m = s THEN NONE ELSE pending[m]
             /\ answer'[m] = IF m = s THEN NONE
                             ELSE IF m = p.from /\ p.open THEN reply ELSE answer[m]
  BY <1>1, <1>2, <1>3 DEF Respond, TypeOK
<1>8. ASSUME NEW m \in Callers, NEW r, Awaits(m, r), m = p.from => ~p.open
      PROVE  Awaits(m, r)'
  BY <1>1, <1>7, <1>8 DEF Awaits
<1>9. SessionsMatch'
  <2>1. ASSUME NEW t \in Services, NEW g \in inbox[t]
        PROVE  Callee(g.from) = t /\ (g.open => Awaits(g.from, g.request)')
    <3>1. Callee(g.from) = t /\ (g.open => Awaits(g.from, g.request)) /\ g.from \in Callers
      BY DEF SessionsMatch, TypeOK, Frame
    <3>2. g.open /\ p.open => g.from # p.from
      BY <1>1, <1>3, <3>1 DEF SessionsMatch, p
    <3> QED
      BY <1>8, <3>1, <3>2
  <2>2. ASSUME NEW t \in Relays, pending'[t] # NONE
        PROVE  /\ Callee(pending'[t].from) = t
               /\ pending'[t].open => Awaits(pending[t].from, pending[t].request)'
               /\ pending'[t].open => \A g \in inbox[t] : g.open => g.from # pending'[t].from
    <3>1. t \in Callers /\ t # s /\ pending'[t] = pending[t]
      BY <1>7, <2>2 DEF Relays, Callers
    <3>2. /\ Callee(pending[t].from) = t /\ pending[t].from \in Callers
          /\ pending[t].open => Awaits(pending[t].from, pending[t].request)
          /\ pending[t].open => \A g \in inbox[t] : g.open => g.from # pending[t].from
      BY <2>2, <3>1 DEF SessionsMatch, TypeOK, Frame
    <3>3. pending'[t].open => Awaits(pending[t].from, pending[t].request)'
      <4>1. ASSUME NEW m, m = pending[t].from, NEW r, r = pending[t].request, pending[t].open
            PROVE  Awaits(m, r)'
        BY <1>3, <1>8, <3>1, <3>2, <4>1
      <4> QED
        BY <3>1, <4>1
    <3> QED
      BY <3>1, <3>2, <3>3
  <2> QED
    BY <1>1, <2>1, <2>2 DEF SessionsMatch
<1>10. RequestsKnown' /\ OneFramePerRequest'
  BY <1>1, <1>7 DEF RequestsKnown, OneFramePerRequest, historyVars
<1>11. AnswersMatchCalls'
  <2>1. ASSUME NEW m \in Callers, answer'[m] # NONE
        PROVE  pending'[m] # NONE /\ answer'[m].call = pending'[m].request.call
    <3>1. CASE m = p.from /\ p.open
      <4>1. answer'[m] = reply /\ pending'[m] = pending[m]
        BY <1>3, <1>7, <3>1
      <4>2. pending[m] # NONE /\ pending[m].request = p.request
        BY <1>3, <3>1 DEF Awaits
      <4> QED
        BY <1>1, <1>4, <4>1, <4>2
    <3>2. CASE ~(m = p.from /\ p.open)
      BY <1>7, <2>1, <3>2 DEF AnswersMatchCalls
    <3> QED
      BY <3>1, <3>2
  <2> QED
    BY <2>1 DEF AnswersMatchCalls
<1>12. AnswersTrue'
  <2>1. ASSUME NEW k, NEW kind, IsTrue(k, kind)
        PROVE  IsTrue(k, kind)'
    BY <1>1, <2>1 DEF IsTrue, historyVars
  <2>2. ASSUME NEW m \in Callers, answer'[m] # NONE
        PROVE  /\ IsTrue(answer[m].call, answer[m].kind)'
               /\ answer'[m].kind = "refused" => pending'[m].request.kind = "NewOrder"
    <3>1. m # s
      BY <1>7, <2>2
    <3>2. CASE m = p.from /\ p.open
      <4>1. answer'[m] = reply /\ pending'[m].request = p.request
        BY <1>3, <1>7, <3>1, <3>2 DEF Awaits
      <4>2. answer'[m].call = reply.call /\ answer'[m].kind = reply.kind
        BY <4>1
      <4> QED
        BY <1>6, <2>1, <4>1, <4>2
    <3>3. CASE ~(m = p.from /\ p.open)
      <4>1. answer'[m] = answer[m] /\ pending'[m] = pending[m]
        BY <1>7, <3>1, <3>3
      <4>2. /\ answer'[m].call = answer[m].call /\ answer'[m].kind = answer[m].kind
            /\ IsTrue(answer[m].call, answer[m].kind)
            /\ answer[m].kind = "refused" => pending[m].request.kind = "NewOrder"
        BY <2>2, <4>1 DEF AnswersTrue
      <4> QED
        BY <2>1, <4>1, <4>2
    <3> QED
      BY <3>2, <3>3
  <2>3. ASSUME NEW k \in 1 .. MaxCalls, told'[k] # NONE
        PROVE  IsTrue(k, told[k])'
    <3>1. told'[k] = told[k]
      BY <1>1 DEF historyVars
    <3> QED
      BY <2>1, <2>3, <3>1 DEF AnswersTrue
  <2> QED
    BY <2>2, <2>3 DEF AnswersTrue
<1>13. TypeOK'
  <2>1. pending' \in [Callers -> Frame \cup {NONE}]
    BY <1>1 DEF TypeOK
  <2>2. answer' \in [Callers -> Answer \cup {NONE}]
    BY <1>1, <1>2, <1>4 DEF TypeOK, Respond
  <2> QED
    BY <1>1, <2>1, <2>2 DEF TypeOK, historyVars
<1> QED
  BY <1>9, <1>10, <1>11, <1>12, <1>13

\* What is kept when a client gets an answer.
LEMMA ReturnStep ==
  ASSUME ChainInv, NEW c \in Clients, Return(c)
  PROVE  /\ SessionsMatch' /\ RequestsKnown' /\ AnswersMatchCalls' /\ OneFramePerRequest'
         /\ AnswersTrue' /\ TypeOK'
<1> USE DEF ChainInv
<1> DEFINE k == pending[c].request.call
<1>1. /\ answer[c] # NONE /\ pending[c] # NONE /\ answer[c].call = k
      /\ c \in Callers /\ c \notin Relays
      /\ pending' = [pending EXCEPT ![c] = NONE] /\ answer' = [answer EXCEPT ![c] = NONE]
      /\ told' = [told EXCEPT ![k] = answer[c].kind]
      /\ UNCHANGED <<up, link, inbox, buyingPower, calls, kills, executions, spent, riskStarts>>
  BY ChainConstants DEF Return, AnswersMatchCalls, Callers, Relays, Services
<1>2. /\ answer[c] \in Answer /\ k \in 1 .. calls /\ k \in 1 .. MaxCalls
      /\ calls \in Nat /\ MaxCalls \in Nat
  BY <1>1, ChainConstants DEF TypeOK, RequestsKnown
<1>3. \A m \in Callers : /\ pending'[m] = IF m = c THEN NONE ELSE pending[m]
                         /\ answer'[m] = IF m = c THEN NONE ELSE answer[m]
  BY <1>1 DEF TypeOK
<1>4. \A i \in 1 .. MaxCalls : told'[i] = IF i = k THEN answer[c].kind ELSE told[i]
  BY <1>1, <1>2 DEF TypeOK
<1> HIDE DEF k
<1>5. ASSUME NEW m \in Callers, NEW r, Awaits(m, r)
      PROVE  Awaits(m, r)'
  BY <1>1, <1>3, <1>5 DEF Awaits
<1>6. SessionsMatch'
  <2>1. ASSUME NEW t \in Services, NEW g \in inbox[t]
        PROVE  Callee(g.from) = t /\ (g.open => Awaits(g.from, g.request)')
    <3>1. Callee(g.from) = t /\ (g.open => Awaits(g.from, g.request)) /\ g.from \in Callers
      BY DEF SessionsMatch, TypeOK, Frame
    <3> QED
      BY <1>5, <3>1
  <2>2. ASSUME NEW t \in Relays, pending[t] # NONE
        PROVE  /\ Callee(pending[t].from) = t
               /\ pending[t].open => Awaits(pending[t].from, pending[t].request)'
               /\ pending[t].open => \A g \in inbox[t] : g.open => g.from # pending[t].from
               /\ pending'[t] = pending[t]
    <3>1. t \in Callers /\ t # c /\ pending'[t] = pending[t]
      BY <1>1, <1>3 DEF Relays, Callers
    <3>2. /\ Callee(pending[t].from) = t /\ pending[t].from \in Callers
          /\ pending[t].open => Awaits(pending[t].from, pending[t].request)
          /\ pending[t].open => \A g \in inbox[t] : g.open => g.from # pending[t].from
      BY <2>2, <3>1 DEF SessionsMatch, TypeOK, Frame
    <3>3. pending[t].open => Awaits(pending[t].from, pending[t].request)'
      <4>1. ASSUME NEW m, m = pending[t].from, NEW r, r = pending[t].request, pending[t].open
            PROVE  Awaits(m, r)'
        BY <1>5, <3>2, <4>1
      <4> QED
        BY <3>1, <4>1
    <3> QED
      BY <3>1, <3>2, <3>3
  <2>3. \A t \in Relays : pending'[t] = pending[t]
    BY <1>1, <1>3 DEF Relays, Callers
  <2> QED
    BY <1>1, <2>1, <2>2, <2>3 DEF SessionsMatch
<1>7. RequestsKnown'
  BY <1>1, <1>2, <1>3, <1>4 DEF RequestsKnown
<1>8. OneFramePerRequest' /\ AnswersMatchCalls'
  BY <1>1, <1>3 DEF OneFramePerRequest, AnswersMatchCalls
<1>9. AnswersTrue'
  <2>1. ASSUME NEW i, NEW kind, IsTrue(i, kind)
        PROVE  IsTrue(i, kind)'
    BY <1>1, <2>1 DEF IsTrue
  <2>2. ASSUME NEW m \in Callers, answer'[m] # NONE
        PROVE  /\ IsTrue(answer[m].call, answer[m].kind)'
               /\ answer'[m].kind = "refused" => pending'[m].request.kind = "NewOrder"
    <3>1. answer'[m] = answer[m] /\ pending'[m] = pending[m]
      BY <1>3, <2>2
    <3>2. /\ answer'[m].call = answer[m].call /\ answer'[m].kind = answer[m].kind
          /\ IsTrue(answer[m].call, answer[m].kind)
          /\ answer[m].kind = "refused" => pending[m].request.kind = "NewOrder"
      BY <2>2, <3>1 DEF AnswersTrue
    <3> QED
      BY <2>1, <3>1, <3>2
  <2>3. ASSUME NEW i \in 1 .. MaxCalls, told'[i] # NONE
        PROVE  IsTrue(i, told[i])'
    <3>1. IsTrue(i, told'[i])
      BY <1>1, <1>4, <2>3 DEF AnswersTrue
    <3> QED
      BY <1>1, <3>1 DEF IsTrue
  <2> QED
    BY <2>2, <2>3 DEF AnswersTrue
<1>10. TypeOK'
  <2>1. /\ pending' \in [Callers -> Frame \cup {NONE}]
        /\ answer' \in [Callers -> Answer \cup {NONE}]
    BY <1>1 DEF TypeOK
  <2>2. told' \in [1 .. MaxCalls -> {NONE, "ack", "book", "reject", "refused"}]
    BY <1>1, <1>2 DEF TypeOK, Answer
  <2> QED
    BY <1>1, <2>1, <2>2 DEF TypeOK
<1> QED
  BY <1>6, <1>7, <1>8, <1>9, <1>10

-----------------------------------------------------------------------------
\* The types of the variables of connections.
ConnTyped ==
  /\ up \subseteq Clients \cup Services
  /\ link \subseteq Callers \cap up
  /\ inbox \in [Services -> SUBSET Frame]
  /\ pending \in [Callers -> Frame \cup {NONE}]
  /\ answer \in [Callers -> Answer \cup {NONE}]

\* The part of the invariant that the histories do not matter for once their
\* values are known.
ConnInv ==
  SessionsMatch /\ RequestsKnown /\ AnswersMatchCalls /\ OneFramePerRequest /\ AnswersTrue

\* A process ends.
LEMMA EndsStep ==
  ASSUME ChainInv, NEW n \in Clients \cup Services, Dies(n),
         calls' \in Nat, calls <= calls', UNCHANGED <<executions, told>>
  PROVE  ConnTyped' /\ ConnInv' /\ OnlyOrdersCost'
<1>1. ConnTyped'
  BY DiesFacts DEF ConnTyped, ChainInv
<1>2. ConnInv'
  BY DiesStep DEF ConnInv
<1>3. \A s \in Services : \A f \in inbox'[s] : \E g \in inbox[s] : f.request = g.request
  BY DiesFacts, OrphanedFacts DEF ChainInv
<1>4. OnlyOrdersCost'
  BY <1>3 DEF OnlyOrdersCost, ChainInv
<1> QED
  BY <1>1, <1>2, <1>4

\* A request is sent on, or the caller ends because it cannot be.
LEMMA SendOrDieStep ==
  ASSUME ChainInv, NEW n \in Callers, NEW f \in Frame, pending[n] = NONE, SendOrDie(n, f),
         \/ n \in Clients /\ f.request.call = calls + 1 /\ calls' = calls + 1
         \/ n \in Relays /\ f \in inbox[n] /\ calls' = calls,
         f.request.kind # "NewOrder" => f.request.cost = 0,
         calls' <= MaxCalls, UNCHANGED <<executions, told>>
  PROVE  ConnTyped' /\ ConnInv' /\ OnlyOrdersCost'
<1>1. CASE SendOn(n, f)
  <2>1. ConnInv'
    BY <1>1, SendStep DEF ConnInv
  <2>2. /\ inbox' = [s \in Services |->
                       IF s = Callee(n)
                       THEN inbox[s] \cup {[request |-> f.request, from |-> n, open |-> TRUE]}
                       ELSE inbox[s] \ {f}]
        /\ pending' = [pending EXCEPT ![n] = f] /\ UNCHANGED <<up, link, answer>>
    BY <1>1 DEF SendOn
  <2>3. [request |-> f.request, from |-> n, open |-> TRUE] \in Frame
    BY DEF Frame
  <2>4. ConnTyped'
    BY <2>2, <2>3 DEF ConnTyped, ChainInv, TypeOK
  <2>5. \A s \in Services : \A g \in inbox'[s] : g \in inbox[s] \/ g.request = f.request
    BY <2>2
  <2>6. OnlyOrdersCost'
    BY <2>5 DEF OnlyOrdersCost, ChainInv
  <2> QED
    BY <2>1, <2>4, <2>6
<1>2. CASE Dies(n)
  <2>1. n \in Clients \cup Services /\ calls' \in Nat /\ calls <= calls'
    BY ChainConstants DEF Callers, Services, ChainInv, TypeOK
  <2> QED
    BY <1>2, <2>1, EndsStep
<1> QED
  BY <1>1, <1>2 DEF SendOrDie

\* Every step keeps the invariant.
LEMMA ChainStep == ChainInv /\ [Next]_vars => ChainInv'
<1> SUFFICES ASSUME ChainInv, [Next]_vars PROVE ChainInv'
  OBVIOUS
<1>0. /\ calls \in Nat /\ MaxCalls \in Nat /\ kills \in Nat /\ MaxKills \in Nat
      /\ BuyingPower \in Nat /\ buyingPower \in Nat /\ calls <= MaxCalls
      /\ Relays \subseteq Callers \cap Services /\ Clients \subseteq Callers
  BY ChainConstants DEF ChainInv, TypeOK, Relays, Callers, Services
<1>1. ASSUME NEW c \in Clients, NEW kind \in {"NewOrder", "ChangeOrder", "BookQuery"},
             NEW cost \in Nat, NEW within \in BOOLEAN, kind # "NewOrder" => cost = 0,
             Command(c, kind, cost, within)
      PROVE  ChainInv'
  <2> DEFINE f == [request |-> [call |-> calls + 1, kind |-> kind, cost |-> cost,
                                within |-> within],
                   from |-> c, open |-> TRUE]
  <2>1. /\ pending[c] = NONE /\ calls' = calls + 1 /\ calls' <= MaxCalls
        /\ SendOrDie(c, f) /\ UNCHANGED <<buyingPower, kills, historyVars>>
    BY <1>0, <1>1 DEF Command
  <2>2. f \in Frame /\ f.request.call = calls + 1 /\ f.request.kind = kind
          /\ f.request.cost = cost
    BY <1>0 DEF Frame, Request
  <2> HIDE DEF f
  <2>3. UNCHANGED <<executions, told>>
    BY <2>1 DEF historyVars
  <2>4. ConnTyped' /\ ConnInv' /\ OnlyOrdersCost'
    BY <1>0, <1>1, <2>1, <2>2, <2>3, SendOrDieStep
  <2>5. TypeOK'
    BY <1>0, <2>1, <2>4 DEF TypeOK, ConnTyped, ChainInv, historyVars
  <2> QED
    BY <2>4, <2>5 DEF ChainInv, ConnInv
<1>2. ASSUME NEW n \in Clients \cup Services, Dies(n), kills' \in 0 .. MaxKills,
             UNCHANGED <<buyingPower, calls, historyVars>>
      PROVE  ChainInv'
  <2>1. UNCHANGED <<executions, told>> /\ calls' \in Nat /\ calls <= calls'
    BY <1>0, <1>2 DEF historyVars
  <2>2. ConnTyped' /\ ConnInv' /\ OnlyOrdersCost'
    BY <1>2, <2>1, EndsStep
  <2>3. TypeOK'
    BY <1>2, <2>2 DEF TypeOK, ConnTyped, ChainInv, historyVars
  <2> QED
    BY <2>2, <2>3 DEF ChainInv, ConnInv
<1>3. ASSUME NEW c \in Clients, Quit(c) PROVE ChainInv'
  BY <1>2, <1>3 DEF Quit, ChainInv, TypeOK
<1>4. ASSUME NEW n \in Clients \cup Services, Breaks(n) PROVE ChainInv'
  BY <1>2, <1>4 DEF Breaks, ChainInv, TypeOK
<1>5. ASSUME NEW n \in Clients \cup Services, Kill(n) PROVE ChainInv'
  BY <1>0, <1>2, <1>5 DEF Kill
<1>6. ASSUME NEW c \in Clients, Return(c) PROVE ChainInv'
  <2>1. OnlyOrdersCost'
    BY <1>6 DEF Return, OnlyOrdersCost, ChainInv
  <2> QED
    BY <1>6, <2>1, ReturnStep DEF ChainInv
<1>7. ASSUME NEW s \in Relays, NEW f \in inbox[s], Ready(s, f), SendOrDie(s, f),
             buyingPower' \in 0 .. BuyingPower, UNCHANGED <<calls, kills, historyVars>>
      PROVE  ChainInv'
  <2>1. /\ UNCHANGED <<executions, told>> /\ pending[s] = NONE /\ f \in Frame
        /\ f.request.kind # "NewOrder" => f.request.cost = 0
    BY <1>0, <1>7 DEF historyVars, Ready, Relays, ChainInv, TypeOK, OnlyOrdersCost
  <2>2. ConnTyped' /\ ConnInv' /\ OnlyOrdersCost'
    BY <1>0, <1>7, <2>1, SendOrDieStep
  <2>3. TypeOK'
    BY <1>7, <2>2 DEF TypeOK, ConnTyped, ChainInv, historyVars
  <2> QED
    BY <2>2, <2>3 DEF ChainInv, ConnInv
<1>8. ASSUME NEW f \in inbox["gateway"], GatewayHandles(f) PROVE ChainInv'
  BY <1>7, <1>8 DEF GatewayHandles, Relays, ChainInv, TypeOK
<1>9. ASSUME NEW f \in inbox["risk"], RiskForwards(f) PROVE ChainInv'
  <2>1. f.request.cost \in Nat /\ (f.request.kind # "NewOrder" => f.request.cost = 0)
    BY <1>0 DEF ChainInv, TypeOK, OnlyOrdersCost, Services, Frame, Request
  <2>2. buyingPower' \in 0 .. BuyingPower
    BY <1>0, <1>9, <2>1 DEF RiskForwards, CheckOrder, ChainInv, TypeOK, Services, Frame, Request
  <2> QED
    BY <1>7, <1>9, <2>2 DEF RiskForwards, Relays
<1>10. ASSUME NEW s \in Relays, Relay(s) PROVE ChainInv'
  <2>1. OnlyOrdersCost'
    BY <1>10 DEF Relay, OnlyOrdersCost, ChainInv
  <2> QED
    BY <1>10, <2>1, RelayStep DEF ChainInv
<1>11. ASSUME NEW s \in Services, NEW f \in inbox[s], NEW reply \in Answer,
              inbox' = [inbox EXCEPT ![s] = @ \ {f}],
              reply.call = f.request.call,
              \/ answer' = answer /\ executions' = executions /\ ~f.open
              \/ /\ answer' = Respond(answer, f, reply)
                 /\ reply.kind = "refused" /\ f.request.kind = "NewOrder"
                 /\ executions' = executions
              \/ /\ answer' = Respond(answer, f, reply)
                 /\ reply.kind # "refused"
                 /\ executions' = [executions EXCEPT ![f.request.call] = @ + 1],
              spent' \in Nat,
              UNCHANGED <<up, link, pending, buyingPower, calls, kills, riskStarts, told>>
       PROVE  ChainInv'
  <2>1. /\ ConnInv' /\ inbox' \in [Services -> SUBSET Frame]
        /\ answer' \in [Callers -> Answer \cup {NONE}]
        /\ executions' \in [1 .. MaxCalls -> Nat]
    BY <1>11, TakeStep DEF ConnInv
  <2>2. TypeOK'
    BY <1>11, <2>1 DEF TypeOK, ChainInv
  <2>3. OnlyOrdersCost'
    BY <1>11 DEF OnlyOrdersCost, ChainInv, TypeOK
  <2> QED
    BY <2>1, <2>2, <2>3 DEF ChainInv, ConnInv
<1>12. ASSUME NEW f \in inbox["risk"], RiskRefuses(f) PROVE ChainInv'
  <2> DEFINE reply == [call |-> f.request.call, kind |-> "refused"]
  <2>1. f.request.call \in Nat
    BY DEF ChainInv, TypeOK, Services, Frame, Request
  <2>2. /\ reply \in Answer /\ reply.call = f.request.call /\ reply.kind = "refused"
        /\ answer' = Respond(answer, f, reply) /\ f.request.kind = "NewOrder"
        /\ inbox' = [inbox EXCEPT !["risk"] = @ \ {f}]
        /\ UNCHANGED <<up, link, pending, buyingPower, calls, kills, executions, riskStarts, told>>
        /\ spent' \in Nat
    BY <1>12, <2>1 DEF RiskRefuses, Answer, historyVars, ChainInv, TypeOK
  <2> HIDE DEF reply
  <2> QED
    BY <1>11, <2>2 DEF Services
<1>13. ASSUME NEW f \in inbox["engine"], NEW kind, EngineHandles(f, kind) PROVE ChainInv'
  <2> DEFINE reply == [call |-> f.request.call, kind |-> kind]
  <2>1. /\ f.request.call \in Nat /\ f.request.cost \in Nat
        /\ f.request.kind \in {"NewOrder", "ChangeOrder", "BookQuery"}
    BY DEF ChainInv, TypeOK, Services, Frame, Request
  <2>2. kind \in {"ack", "reject", "book"}
    BY <1>13, <2>1 DEF EngineHandles
  <2>3. /\ reply \in Answer /\ reply.call = f.request.call /\ reply.kind # "refused"
        /\ answer' = Respond(answer, f, reply)
        /\ inbox' = [inbox EXCEPT !["engine"] = @ \ {f}]
        /\ executions' = [executions EXCEPT ![f.request.call] = @ + 1]
        /\ UNCHANGED <<up, link, pending, buyingPower, calls, kills, riskStarts, told>>
        /\ spent' \in Nat
    BY <1>13, <2>1, <2>2 DEF EngineHandles, Answer, ChainInv, TypeOK
  <2> HIDE DEF reply
  <2> QED
    BY <1>11, <2>3 DEF Services
<1>14. ASSUME NEW s \in Services, NEW f \in inbox[s], SessionEnds(s, f) PROVE ChainInv'
  <2> DEFINE reply == [call |-> f.request.call, kind |-> "reject"]
  <2>1. f.request.call \in Nat
    BY DEF ChainInv, TypeOK, Services, Frame, Request
  <2>2. /\ reply \in Answer /\ reply.call = f.request.call
        /\ answer' = answer /\ executions' = executions /\ ~f.open
        /\ inbox' = [inbox EXCEPT ![s] = @ \ {f}]
        /\ UNCHANGED <<up, link, pending, buyingPower, calls, kills, riskStarts, told>>
        /\ spent' \in Nat
    BY <1>14, <2>1 DEF SessionEnds, Answer, historyVars, ChainInv, TypeOK
  <2> HIDE DEF reply
  <2> QED
    BY <1>11, <2>2
<1>15. ASSUME UNCHANGED <<inbox, pending, answer, calls, kills, executions, spent, told>>,
              up' \subseteq Clients \cup Services, link' \subseteq Callers \cap up',
              buyingPower' \in 0 .. BuyingPower, riskStarts' \in Nat
       PROVE  ChainInv'
  <2>1. TypeOK'
    BY <1>15 DEF ChainInv, TypeOK
  <2>2. SessionsMatch' /\ RequestsKnown' /\ AnswersMatchCalls'
    BY <1>15 DEF ChainInv, SessionsMatch, Awaits, RequestsKnown, AnswersMatchCalls
  <2>3. OneFramePerRequest' /\ AnswersTrue' /\ OnlyOrdersCost'
    BY <1>15 DEF ChainInv, OneFramePerRequest, AnswersTrue, IsTrue, OnlyOrdersCost
  <2> QED
    BY <2>1, <2>2, <2>3 DEF ChainInv
<1>16. ASSUME NEW n \in Clients \cup Services, Start(n) PROVE ChainInv'
  <2>1. /\ up' \subseteq Clients \cup Services /\ link' \subseteq Callers \cap up'
        /\ buyingPower' \in 0 .. BuyingPower /\ riskStarts' \in Nat
    BY <1>0, <1>16 DEF Start, ChainInv, TypeOK
  <2> QED
    BY <1>15, <1>16, <2>1 DEF Start
<1>17. CASE UNCHANGED vars
  BY <1>15, <1>17 DEF vars, connVars, historyVars, ChainInv, TypeOK
<1>18. ASSUME NEW c \in Clients,
              \/ \E cost \in Costs, within \in BOOLEAN : Command(c, "NewOrder", cost, within)
              \/ \E kind \in {"ChangeOrder", "BookQuery"} : Command(c, kind, 0, TRUE)
       PROVE  ChainInv'
  BY <1>1, <1>18, ChainConstants
<1>19. ASSUME NEW s \in Services, ServiceStep(s) PROVE ChainInv'
  <2>1. s # "engine" => s \in Relays
    BY DEF Services, Relays
  <2> QED
    BY <1>4, <1>8, <1>9, <1>10, <1>12, <1>13, <1>19, <2>1 DEF ServiceStep
<1> QED
  BY <1>3, <1>4, <1>5, <1>6, <1>14, <1>16, <1>17, <1>18, <1>19 DEF Next, ClientStep

\* The invariant holds at the start.
LEMMA ChainInit == Init => ChainInv
<1> SUFFICES ASSUME Init PROVE ChainInv
  OBVIOUS
<1> USE DEF Init
<1>1. TypeOK
  BY ChainConstants DEF TypeOK, Callers, Services
<1>2. /\ \A s \in Services : inbox[s] = {}
      /\ \A n \in Callers : pending[n] = NONE /\ answer[n] = NONE
      /\ Relays \subseteq Callers
  BY DEF Relays, Callers
<1>3. SessionsMatch /\ RequestsKnown /\ AnswersMatchCalls
  BY <1>2, ChainConstants DEF SessionsMatch, RequestsKnown, AnswersMatchCalls
<1>4. OneFramePerRequest /\ AnswersTrue /\ OnlyOrdersCost
  BY <1>2, ChainConstants DEF OneFramePerRequest, AnswersTrue, OnlyOrdersCost
<1> QED
  BY <1>1, <1>3, <1>4 DEF ChainInv

\* The invariant holds in every reachable state.
LEMMA ChainInvariant == Spec => []ChainInv
  BY ChainInit, ChainStep, PTL DEF Spec

-----------------------------------------------------------------------------
\* Every variable keeps its type: no account is overdrawn, and no call is counted
\* beyond the bound.
THEOREM ChainTyped == Spec => []TypeOK
<1>1. ChainInv => TypeOK
  BY DEF ChainInv
<1> QED
  BY <1>1, ChainInvariant, PTL

\* sendAndReceive() returns the answer to the request that it has sent, at every hop,
\* after whatever crashes and restarts on either side.
THEOREM AnswersAreForTheCall == Spec => []AnswersMatchCalls
<1>1. ChainInv => AnswersMatchCalls
  BY DEF ChainInv
<1> QED
  BY <1>1, ChainInvariant, PTL

\* The engine handles a request at most once.
THEOREM NothingIsHandledTwice == Spec => []ExecutedAtMostOnce
<1>1. ChainInv => ExecutedAtMostOnce
  BY ChainConstants DEF ChainInv, TypeOK, OneFramePerRequest, ExecutedAtMostOnce
<1> QED
  BY <1>1, ChainInvariant, PTL

\* What a client is told of its request is and stays true.
THEOREM ClientsAreToldTheTruth == Spec => []ToldTheTruth
<1>1. ChainInv => ToldTheTruth
  BY ChainConstants DEF ChainInv, TypeOK, AnswersTrue, IsTrue, ToldTheTruth
<1> QED
  BY <1>1, ChainInvariant, PTL

-----------------------------------------------------------------------------
\* A request of cost n reserves n units.
Units(frames) ==
  {u \in (1 .. MaxCalls) \X Nat : \E f \in frames :
      u[1] = f.request.call /\ u[2] \in 1 .. f.request.cost}

\* What the engine has, what is on the way to it and what the account has left is
\* no more than what all accounts so far have started with.
SpentIsReserved ==
  /\ IsFiniteSet(Units(inbox["engine"]))
  /\ spent + Cardinality(Units(inbox["engine"])) + buyingPower <= BuyingPower * (riskStarts + 1)

\* The units of one request.
LEMMA UnitsOfOne ==
  ASSUME NEW k, NEW n \in Nat
  PROVE  IsFiniteSet({k} \X (1 .. n)) /\ Cardinality({k} \X (1 .. n)) = n
<1>1. IsFiniteSet(1 .. n) /\ Cardinality(1 .. n) = n
  BY FS_Interval
<1>2. IsFiniteSet({k}) /\ Cardinality({k}) = 1
  BY FS_Singleton
<1> QED
  BY <1>1, <1>2, FS_Product

\* Frames of the same requests, or of fewer, reserve no more.
LEMMA UnitsShrink ==
  ASSUME NEW F, NEW G, IsFiniteSet(Units(F)),
         \A g \in G : \E f \in F : g.request = f.request
  PROVE  /\ IsFiniteSet(Units(G))
         /\ Cardinality(Units(G)) \in Nat /\ Cardinality(Units(F)) \in Nat
         /\ Cardinality(Units(G)) <= Cardinality(Units(F))
<1>1. Units(G) \in SUBSET Units(F)
  BY DEF Units
<1> QED
  BY <1>1, FS_Subset, FS_CardinalityType

\* One more frame reserves its cost.
LEMMA UnitsAdd ==
  ASSUME NEW F, NEW g, g.request.call \in 1 .. MaxCalls, g.request.cost \in Nat,
         \A f \in F : f.request.call # g.request.call, IsFiniteSet(Units(F))
  PROVE  /\ IsFiniteSet(Units(F \cup {g}))
         /\ Cardinality(Units(F)) \in Nat
         /\ Cardinality(Units(F \cup {g})) = Cardinality(Units(F)) + g.request.cost
<1> DEFINE own == {g.request.call} \X (1 .. g.request.cost)
<1>1. Units(F \cup {g}) = Units(F) \cup own
  <2>1. Units(F \cup {g}) \subseteq Units(F) \cup own
    BY DEF Units
  <2>2. own \subseteq (1 .. MaxCalls) \X Nat
    OBVIOUS
  <2>3. ASSUME NEW u \in own PROVE u \in Units(F \cup {g})
    <3>1. u[1] = g.request.call /\ u[2] \in 1 .. g.request.cost
      BY <2>3
    <3> QED
      BY <2>2, <3>1 DEF Units
  <2>4. Units(F) \subseteq Units(F \cup {g})
    BY DEF Units
  <2> QED
    BY <2>1, <2>3, <2>4
<1>2. Units(F) \cap own = {}
  BY DEF Units
<1>3. IsFiniteSet(own) /\ Cardinality(own) = g.request.cost
  BY UnitsOfOne
<1> HIDE DEF own
<1>4. Cardinality(Units(F)) \in Nat /\ Cardinality(Units(F) \cap own) = 0
  BY <1>2, FS_EmptySet, FS_CardinalityType
<1>5. /\ IsFiniteSet(Units(F) \cup own)
      /\ Cardinality(Units(F) \cup own) =
           Cardinality(Units(F)) + Cardinality(own) - Cardinality(Units(F) \cap own)
  BY <1>3, FS_Union
<1>6. IsFiniteSet(Units(F \cup {g})) /\ Cardinality(Units(F \cup {g})) = Cardinality(Units(F) \cup own)
  BY <1>1, <1>5, Zenon
<1>7. Cardinality(Units(F) \cup own) = Cardinality(Units(F)) + g.request.cost
  BY <1>3, <1>4, <1>5
<1> QED
  BY <1>4, <1>6, <1>7

\* A step that puts nothing into the inbox of the engine, hands it nothing and gives
\* nothing back.
LEMMA NoMoreReserved ==
  ASSUME SpentIsReserved, ChainInv,
         \A g \in inbox'["engine"] : \E f \in inbox["engine"] : g.request = f.request,
         spent' = spent, riskStarts' = riskStarts,
         buyingPower' \in Nat, buyingPower' <= buyingPower
  PROVE  SpentIsReserved'
<1>1. /\ IsFiniteSet(Units(inbox'["engine"]))
      /\ Cardinality(Units(inbox'["engine"])) \in Nat
      /\ Cardinality(Units(inbox["engine"])) \in Nat
      /\ Cardinality(Units(inbox'["engine"])) <= Cardinality(Units(inbox["engine"]))
  BY UnitsShrink DEF SpentIsReserved
<1>2. /\ BuyingPower * (riskStarts + 1) \in Nat /\ BuyingPower * (riskStarts' + 1) \in Nat
      /\ spent \in Nat /\ buyingPower \in Nat
  BY ChainConstants DEF ChainInv, TypeOK
<1>3. ASSUME NEW s \in Nat, NEW b \in Nat, NEW c \in Nat, c <= b,
             NEW after \in Nat, NEW before \in Nat, after <= before,
             NEW limit \in Nat, s + before + b <= limit
      PROVE  s + after + c <= limit
  BY <1>3
<1> QED
  BY <1>1, <1>2, <1>3 DEF SpentIsReserved

\* Every step keeps the cover of the orders.
LEMMA SpentStep ==
  ASSUME ChainInv, ChainInv', SpentIsReserved, [Next]_vars
  PROVE  SpentIsReserved'
<1>0. /\ BuyingPower \in Nat /\ buyingPower \in Nat /\ buyingPower' \in Nat /\ spent \in Nat
      /\ riskStarts \in Nat /\ "engine" \in Services
      /\ inbox["engine"] \subseteq Frame
  BY ChainConstants DEF ChainInv, TypeOK, Services
<1>1. ASSUME NEW n, Dies(n), spent' = spent, riskStarts' = riskStarts, buyingPower' <= buyingPower
      PROVE  SpentIsReserved'
  <2>1. \A g \in inbox'["engine"] : \E f \in inbox["engine"] : f \in Frame /\ g = Orphaned(f, n)
    BY <1>0, <1>1 DEF Dies
  <2>2. \A g \in inbox'["engine"] : \E f \in inbox["engine"] : g.request = f.request
    BY <2>1, OrphanedFacts
  <2> QED
    BY <1>0, <1>1, <2>2, NoMoreReserved
<1>2. ASSUME NEW n \in Callers \ {"risk"}, NEW f, SendOn(n, f), spent' = spent,
             riskStarts' = riskStarts, buyingPower' = buyingPower
      PROVE  SpentIsReserved'
  <2>1. Callee(n) # "engine"
    BY CalleeFacts DEF Callers
  <2>2. inbox'["engine"] \subseteq inbox["engine"]
    BY <1>0, <1>2, <2>1 DEF SendOn
  <2> QED
    BY <1>0, <1>2, <2>2, NoMoreReserved
<1>3. ASSUME NEW n \in Callers \ {"risk"}, NEW f, SendOrDie(n, f), spent' = spent,
             riskStarts' = riskStarts, buyingPower' = buyingPower
      PROVE  SpentIsReserved'
  BY <1>0, <1>1, <1>2, <1>3 DEF SendOrDie
<1>4. ASSUME inbox'["engine"] \subseteq inbox["engine"], spent' = spent,
             riskStarts' = riskStarts, buyingPower' = buyingPower
      PROVE  SpentIsReserved'
  BY <1>0, <1>4, NoMoreReserved
<1>5. ASSUME NEW f \in inbox["risk"], RiskForwards(f), SendOn("risk", f)
      PROVE  SpentIsReserved'
  <2> DEFINE new == [request |-> f.request, from |-> "risk", open |-> TRUE]
  <2>1. /\ inbox'["engine"] = inbox["engine"] \cup {new}
        /\ spent' = spent /\ riskStarts' = riskStarts
        /\ buyingPower' = buyingPower - f.request.cost
    BY <1>0, <1>5, CalleeFacts DEF SendOn, RiskForwards, historyVars
  <2>2. /\ new.request = f.request /\ f.request.cost \in Nat
        /\ f.request.call \in 1 .. MaxCalls
        /\ \A g \in inbox["engine"] : g.request.call # f.request.call
    BY ChainConstants
    DEF ChainInv, TypeOK, Frame, Request, RequestsKnown, OneFramePerRequest, Services
  <2> HIDE DEF new
  <2>3. /\ IsFiniteSet(Units(inbox["engine"] \cup {new}))
        /\ Cardinality(Units(inbox["engine"])) \in Nat
        /\ Cardinality(Units(inbox["engine"] \cup {new})) =
             Cardinality(Units(inbox["engine"])) + new.request.cost
    <3>1. /\ new.request.call \in 1 .. MaxCalls /\ new.request.cost \in Nat
          /\ \A g \in inbox["engine"] : g.request.call # new.request.call
          /\ IsFiniteSet(Units(inbox["engine"]))
      BY <2>2 DEF SpentIsReserved
    <3> QED
      BY <3>1, UnitsAdd
  <2>4. /\ IsFiniteSet(Units(inbox'["engine"]))
        /\ Cardinality(Units(inbox'["engine"])) =
             Cardinality(Units(inbox["engine"])) + f.request.cost
    BY <2>1, <2>2, <2>3, Zenon
  <2> QED
    BY <1>0, <2>1, <2>2, <2>3, <2>4 DEF SpentIsReserved
<1>6. ASSUME NEW f \in inbox["risk"], RiskForwards(f)
      PROVE  SpentIsReserved'
  <2>1. /\ spent' = spent /\ riskStarts' = riskStarts /\ SendOrDie("risk", f)
        /\ f.request.cost \in Nat /\ buyingPower' = buyingPower - f.request.cost
    BY <1>6 DEF RiskForwards, historyVars, ChainInv, TypeOK, Frame, Request, Services
  <2> QED
    BY <1>0, <1>1, <1>5, <1>6, <2>1 DEF SendOrDie
<1>7. ASSUME NEW f \in inbox["engine"], NEW kind, EngineHandles(f, kind)
      PROVE  SpentIsReserved'
  <2> DEFINE rest == inbox["engine"] \ {f}
  <2>1. /\ inbox'["engine"] = rest /\ inbox["engine"] = rest \cup {f}
        /\ spent' = spent + f.request.cost
        /\ riskStarts' = riskStarts /\ buyingPower' = buyingPower
    BY <1>0, <1>7 DEF EngineHandles, ChainInv, TypeOK
  <2>2. /\ f.request.cost \in Nat /\ f.request.call \in 1 .. MaxCalls
        /\ \A g \in rest : g.request.call # f.request.call
    BY ChainConstants
    DEF ChainInv, TypeOK, Frame, Request, RequestsKnown, OneFramePerRequest, Services
  <2>3. IsFiniteSet(Units(rest))
    BY UnitsShrink DEF SpentIsReserved
  <2> HIDE DEF rest
  <2>4. /\ Cardinality(Units(rest)) \in Nat
        /\ Cardinality(Units(rest \cup {f})) = Cardinality(Units(rest)) + f.request.cost
    BY <2>2, <2>3, UnitsAdd
  <2>5. spent + Cardinality(Units(rest \cup {f})) + buyingPower <= BuyingPower * (riskStarts + 1)
    BY <2>1 DEF SpentIsReserved
  <2>6. spent' + Cardinality(Units(rest)) + buyingPower' <= BuyingPower * (riskStarts + 1)
    BY <1>0, <2>1, <2>2, <2>4, <2>5
  <2> QED
    BY <2>1, <2>3, <2>6 DEF SpentIsReserved
<1>8. ASSUME NEW n, Start(n) PROVE SpentIsReserved'
  <2>1. inbox' = inbox /\ spent' = spent
    BY <1>8 DEF Start
  <2>2. CASE riskStarts' = riskStarts /\ buyingPower' = buyingPower
    BY <1>4, <2>1, <2>2
  <2>3. CASE riskStarts' = riskStarts + 1 /\ buyingPower' = BuyingPower
    <3>1. BuyingPower * (riskStarts' + 1) = BuyingPower * (riskStarts + 1) + BuyingPower
      BY <1>0, <2>3
    <3>2. /\ Cardinality(Units(inbox["engine"])) \in Nat
          /\ BuyingPower * (riskStarts + 1) \in Nat
      BY <1>0, FS_CardinalityType DEF SpentIsReserved
    <3>3. spent + Cardinality(Units(inbox["engine"])) + BuyingPower
            <= BuyingPower * (riskStarts + 1) + BuyingPower
      BY <1>0, <3>2 DEF SpentIsReserved
    <3> QED
      BY <2>1, <2>3, <3>1, <3>3 DEF SpentIsReserved
  <2> QED
    BY <1>8, <2>2, <2>3 DEF Start
<1>9. ASSUME NEW c \in Clients, NEW kind, NEW cost, NEW within, Command(c, kind, cost, within)
      PROVE  SpentIsReserved'
  <2>1. c \in Callers \ {"risk"}
    BY ChainConstants DEF Callers, Services
  <2>2. UNCHANGED <<spent, riskStarts, buyingPower>>
    BY <1>9 DEF Command, historyVars
  <2> QED
    BY <1>3, <1>9, <2>1, <2>2 DEF Command
<1>10. ASSUME NEW n, Quit(n) \/ Breaks(n) \/ Kill(n) PROVE SpentIsReserved'
  BY <1>0, <1>1, <1>10 DEF Quit, Breaks, Kill, historyVars
<1>11. ASSUME NEW f, GatewayHandles(f) PROVE SpentIsReserved'
  BY <1>3, <1>11 DEF GatewayHandles, historyVars, Callers
<1>12. ASSUME NEW f, RiskRefuses(f) PROVE SpentIsReserved'
  BY <1>0, <1>4, <1>12 DEF RiskRefuses, historyVars, ChainInv, TypeOK
<1>13. ASSUME NEW s \in Services, NEW f, SessionEnds(s, f) PROVE SpentIsReserved'
  BY <1>0, <1>4, <1>13 DEF SessionEnds, historyVars, ChainInv, TypeOK
<1>14. ASSUME NEW n, Relay(n) \/ Return(n) PROVE SpentIsReserved'
  BY <1>4, <1>14 DEF Relay, Return, historyVars
<1>15. CASE UNCHANGED vars
  BY <1>4, <1>15 DEF vars, connVars, historyVars
<1>16. ASSUME NEW s \in Services, ServiceStep(s) PROVE SpentIsReserved'
  BY <1>6, <1>7, <1>10, <1>11, <1>12, <1>14, <1>16 DEF ServiceStep
<1> QED
  BY <1>8, <1>9, <1>10, <1>13, <1>14, <1>15, <1>16 DEF Next, ClientStep

\* Orders that the engine has handled are covered by the accounts that they were
\* reserved from, per life of the risk service, whatever is lost on the way.
THEOREM OrdersAreCovered == Spec => []SpentWithinBuyingPower
<1>1. Init => SpentIsReserved
  <2> SUFFICES ASSUME Init PROVE SpentIsReserved
    OBVIOUS
  <2>1. inbox["engine"] = {} /\ Units({}) = {}
    BY DEF Init, Services, Units
  <2>2. IsFiniteSet(Units(inbox["engine"])) /\ Cardinality(Units(inbox["engine"])) = 0
    BY <2>1, FS_EmptySet, Zenon
  <2>3. spent = 0 /\ buyingPower = BuyingPower /\ riskStarts = 0 /\ BuyingPower \in Nat
    BY ChainConstants DEF Init
  <2> QED
    BY <2>2, <2>3 DEF SpentIsReserved
<1>2. ChainInv /\ ChainInv' /\ SpentIsReserved /\ [Next]_vars => SpentIsReserved'
  BY SpentStep
<1>3. ChainInv /\ SpentIsReserved => SpentWithinBuyingPower
  <2> SUFFICES ASSUME ChainInv, SpentIsReserved PROVE SpentWithinBuyingPower
    OBVIOUS
  <2>1. /\ Cardinality(Units(inbox["engine"])) \in Nat /\ spent \in Nat /\ buyingPower \in Nat
        /\ BuyingPower * (riskStarts + 1) \in Nat
    BY ChainConstants, FS_CardinalityType DEF SpentIsReserved, ChainInv, TypeOK
  <2> QED
    BY <2>1 DEF SpentIsReserved, SpentWithinBuyingPower
<1> QED
  BY <1>1, <1>2, <1>3, ChainInvariant, PTL DEF Spec
=============================================================================
