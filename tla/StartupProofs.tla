--------------------------- MODULE StartupProofs ---------------------------
(***************************************************************************)
(* Proofs about Startup, for any number of attempts and any delays.        *)
(*                                                                         *)
(* A caller that still tries is never late for its next attempt, so the    *)
(* attempts that have failed say how long its callee has not been there.   *)
(***************************************************************************)
EXTENDS Startup, TLAPS

\* Who starts when, at the latest.
Schedule ==
  /\ start["risk"] = 0 /\ start["persistence"] = 0
  /\ start["engine"] \in 0 .. MaxDelay /\ start["gateway"] \in 0 .. MaxDelay
  /\ start["client"] \in 0 .. 2 * MaxDelay /\ start["postgres"] \in 0 .. 2 * MaxDelay

\* Time does not pass the next thing that a process has to do.
Wake(p) == start[p] + tries[p] * Sleep(p)

OnTime ==
  /\ \A p \in Callers : state[p] = "starting" => clock <= Wake(p)
  /\ \A p \in Processes \ Callers :
        state[p] # "gone" /\ (state[p] = "starting" => clock <= start[p])

\* A caller gives up after its last attempt and not before.
Persistent ==
  \A p \in Callers : /\ tries[p] <= MaxTries(p)
                     /\ state[p] = "gone" => tries[p] = MaxTries(p)

\* The latest tick in which risk is connected, if it ever is: it may just have missed the
\* engine.
RiskUp == IF start["engine"] < start["risk"] THEN start["risk"] ELSE start["engine"] + 1

\* The callee was not there at the last attempt that has failed.
CalleeLate ==
  /\ tries["risk"] > 0 => start["risk"] + tries["risk"] - 1 <= start["engine"]
  /\ tries["persistence"] > 0 =>
        start["persistence"] + 2 * (tries["persistence"] - 1) <= start["postgres"]
  /\ tries["gateway"] > 0 =>
        state["risk"] = "gone" \/ start["gateway"] + tries["gateway"] - 1 <= RiskUp

\* The inductive invariant.
StartupInv == TypeOK /\ Schedule /\ OnTime /\ Persistent /\ CalleeLate

-----------------------------------------------------------------------------
\* The times at which callers wake up.
LEMMA WakeTimes ==
  ASSUME TypeOK
  PROVE  /\ Wake("risk") = start["risk"] + tries["risk"]
         /\ Wake("gateway") = start["gateway"] + tries["gateway"]
         /\ Wake("client") = start["client"]
         /\ Wake("persistence") = start["persistence"] + 2 * tries["persistence"]
         /\ MaxTries("client") = 1
         /\ \A p \in {"risk", "gateway", "persistence"} : MaxTries(p) = Attempts
<1>1. Sleep("risk") = 1 /\ Sleep("gateway") = 1 /\ Sleep("client") = 0 /\ Sleep("persistence") = 2
  BY DEF Sleep
<1>2. \A p \in Callers : start[p] \in Int /\ tries[p] \in Int
  BY StartupConstants DEF TypeOK, Callers, Processes
<1> QED
  BY <1>1, <1>2 DEF Wake, MaxTries, Callers

\* While risk still tries, it is not later than it can be up.
LEMMA UpInTime ==
  ASSUME StartupInv
  PROVE  state["risk"] = "starting" => clock <= RiskUp
<1>1. /\ start["risk"] \in Nat /\ start["engine"] \in Nat
      /\ tries["risk"] \in Nat /\ clock \in Nat
  BY StartupConstants DEF StartupInv, TypeOK, Callers, Processes
<1> QED
  BY <1>1, WakeTimes DEF StartupInv, OnTime, CalleeLate, RiskUp, Callers

\* Every step keeps the invariant.
LEMMA StartupStep == StartupInv /\ [Next]_vars => StartupInv'
<1> SUFFICES ASSUME StartupInv, [Next]_vars PROVE StartupInv'
  OBVIOUS
<1>0. /\ TypeOK /\ clock \in Nat /\ Attempts \in Nat \ {0} /\ MaxDelay \in Nat
      /\ \A p \in Processes : start[p] \in Nat
      /\ \A p \in Callers : tries[p] \in Nat
  BY StartupConstants DEF StartupInv, TypeOK
<1>1. ASSUME start' = start PROVE RiskUp' = RiskUp /\ Schedule'
  BY <1>1 DEF StartupInv, RiskUp, Schedule
<1>2. ASSUME NEW p \in Processes, Listen(p) PROVE StartupInv'
  <2>1. /\ p \notin Callers /\ start' = start /\ tries' = tries /\ clock' = clock
        /\ state' = [state EXCEPT ![p] = "up"]
    BY <1>2 DEF Listen
  <2>2. TypeOK'
    BY <2>1 DEF StartupInv, TypeOK
  <2>3. \A q \in Processes : state'[q] = IF q = p THEN "up" ELSE state[q]
    BY <2>1 DEF StartupInv, TypeOK
  <2>4. OnTime' /\ Persistent'
    BY <2>1, <2>3 DEF StartupInv, OnTime, Persistent, Wake, Processes
  <2>5. CalleeLate'
    BY <1>1, <2>1, <2>3 DEF StartupInv, CalleeLate, Processes, Callers
  <2> QED
    BY <1>1, <2>1, <2>2, <2>4, <2>5 DEF StartupInv
<1>3. ASSUME NEW p \in Processes, GiveUp(p) PROVE StartupInv'
  <2>1. /\ p \in Callers /\ start' = start /\ tries' = tries /\ clock' = clock
        /\ state' = [state EXCEPT ![p] = "gone"] /\ tries[p] = MaxTries(p)
    BY <1>3 DEF GiveUp
  <2>2. TypeOK'
    BY <2>1 DEF StartupInv, TypeOK
  <2>3. \A q \in Processes : state'[q] = IF q = p THEN "gone" ELSE state[q]
    BY <2>1 DEF StartupInv, TypeOK
  <2>4. OnTime' /\ Persistent'
    BY <2>1, <2>3 DEF StartupInv, OnTime, Persistent, Wake, Processes
  <2>5. CalleeLate'
    BY <1>1, <2>1, <2>3 DEF StartupInv, CalleeLate, Processes, Callers
  <2> QED
    BY <1>1, <2>1, <2>2, <2>4, <2>5 DEF StartupInv
<1>4. ASSUME NEW p \in Processes, Attempt(p), state[Callee(p)] = "up" PROVE StartupInv'
  <2>1. /\ p \in Callers /\ start' = start /\ tries' = tries /\ clock' = clock
        /\ state' = [state EXCEPT ![p] = "up"] /\ state[p] = "starting"
    BY <1>4 DEF Attempt, Awake
  <2>2. TypeOK'
    BY <2>1 DEF StartupInv, TypeOK
  <2>3. \A q \in Processes : state'[q] = IF q = p THEN "up" ELSE state[q]
    BY <2>1 DEF StartupInv, TypeOK
  <2>4. OnTime' /\ Persistent'
    BY <2>1, <2>3 DEF StartupInv, OnTime, Persistent, Wake, Processes
  <2>5. CalleeLate'
    BY <1>1, <2>1, <2>3 DEF StartupInv, CalleeLate, Processes, Callers
  <2> QED
    BY <1>1, <2>1, <2>2, <2>4, <2>5 DEF StartupInv
<1>5. ASSUME NEW p \in Processes, Attempt(p), state[Callee(p)] # "up" PROVE StartupInv'
  <2>1. /\ p \in Callers /\ start' = start /\ clock' = clock /\ state' = state
        /\ tries' = [tries EXCEPT ![p] = @ + 1] /\ tries[p] < MaxTries(p)
        /\ state[p] = "starting" /\ clock = Wake(p)
    BY <1>5 DEF Attempt, Awake, Wake
  <2>2. \A q \in Callers : tries'[q] = IF q = p THEN tries[p] + 1 ELSE tries[q]
    BY <2>1 DEF StartupInv, TypeOK
  <2>3. \A q \in Callers : MaxTries(q) \in Nat /\ MaxTries(q) <= Attempts
    BY <1>0 DEF MaxTries
  <2>4. TypeOK'
    <3>1. tries[p] + 1 \in 0 .. Attempts
      BY <1>0, <2>1, <2>3
    <3> QED
      BY <2>1, <3>1 DEF StartupInv, TypeOK
  <2>5. Persistent'
    BY <1>0, <2>1, <2>2, <2>3 DEF StartupInv, Persistent
  <2>6. OnTime'
    <3>1. ASSUME NEW q \in Callers, state[q] = "starting" PROVE clock' <= Wake(q)'
      <4>1. CASE q # p
        <5>1. Wake(q)' = Wake(q)
          BY <2>1, <2>2, <4>1 DEF Wake
        <5> QED
          BY <2>1, <3>1, <5>1 DEF StartupInv, OnTime
      <4>2. CASE q = p
        <5>1. Sleep(p) \in {0, 1, 2} /\ start[p] \in Nat
          BY <1>0, <2>1 DEF Sleep, Callers, Processes
        <5>2. Wake(p)' = start[p] + (tries[p] + 1) * Sleep(p)
          BY <2>1, <2>2 DEF Wake
        <5>3. (tries[p] + 1) * Sleep(p) >= tries[p] * Sleep(p)
          BY <1>0, <2>1, <5>1
        <5>4. clock = start[p] + tries[p] * Sleep(p)
          BY <2>1 DEF Wake
        <5> QED
          BY <1>0, <2>1, <4>2, <5>1, <5>2, <5>3, <5>4
      <4> QED
        BY <4>1, <4>2
    <3> QED
      BY <2>1, <3>1 DEF StartupInv, OnTime
  <2>7. CalleeLate'
    <3>1. \A n \in Callers : n # p => tries'[n] = tries[n]
      BY <2>2
    <3>2. /\ start["engine"] \in Nat /\ start["postgres"] \in Nat /\ start["risk"] \in Nat
          /\ start["gateway"] \in Nat /\ start["persistence"] \in Nat
          /\ state["engine"] \in {"starting", "up"} /\ state["postgres"] \in {"starting", "up"}
          /\ "risk" \in Callers /\ "gateway" \in Callers /\ "client" \in Callers
          /\ "persistence" \in Callers
      BY <1>0 DEF StartupInv, TypeOK, OnTime, Processes, Callers
    <3>3. /\ state["engine"] = "starting" => clock <= start["engine"]
          /\ state["postgres"] = "starting" => clock <= start["postgres"]
      BY DEF StartupInv, OnTime, Processes, Callers
    <3>4. CASE p = "risk"
      <4>1. state["engine"] = "starting"
        BY <1>5, <3>2, <3>4 DEF Callee
      <4>2. start["risk"] + tries["risk"] <= start["engine"]
        BY <1>0, <2>1, <3>3, <3>4, <4>1, WakeTimes
      <4>3. tries'["risk"] - 1 = tries["risk"]
        BY <1>0, <2>2, <3>2, <3>4
      <4> QED
        BY <1>0, <1>1, <2>1, <3>1, <3>2, <3>4, <4>2, <4>3 DEF StartupInv, CalleeLate
    <3>5. CASE p = "persistence"
      <4>1. state["postgres"] = "starting"
        BY <1>5, <3>2, <3>5 DEF Callee
      <4>2. start["persistence"] + 2 * tries["persistence"] <= start["postgres"]
        BY <1>0, <2>1, <3>3, <3>5, <4>1, WakeTimes
      <4>3. tries'["persistence"] - 1 = tries["persistence"]
        BY <1>0, <2>2, <3>2, <3>5
      <4> QED
        BY <1>0, <1>1, <2>1, <3>1, <3>2, <3>5, <4>2, <4>3 DEF StartupInv, CalleeLate
    <3>6. CASE p = "gateway"
      <4>1. state["risk"] \in {"starting", "gone"}
        BY <1>5, <3>2, <3>6 DEF Callee, StartupInv, TypeOK, Processes
      <4>2. state["risk"] = "gone" \/ start["gateway"] + tries["gateway"] <= RiskUp
        BY <1>0, <2>1, <3>6, <4>1, UpInTime, WakeTimes
      <4>3. tries'["gateway"] - 1 = tries["gateway"]
        BY <1>0, <2>2, <3>2, <3>6
      <4> QED
        BY <1>0, <1>1, <2>1, <3>1, <3>2, <3>6, <4>2, <4>3 DEF StartupInv, CalleeLate
    <3>7. CASE p = "client"
      BY <1>1, <2>1, <3>1, <3>2, <3>7 DEF StartupInv, CalleeLate
    <3> QED
      BY <2>1, <3>4, <3>5, <3>6, <3>7 DEF Callers
  <2> QED
    BY <1>1, <2>1, <2>4, <2>5, <2>6, <2>7 DEF StartupInv
<1>6. CASE Tick
  <2>1. /\ start' = start /\ tries' = tries /\ state' = state /\ clock' = clock + 1
        /\ \A p \in Processes : ~Due(p)
    BY <1>6 DEF Tick
  <2>2. ASSUME NEW p \in Callers, state[p] = "starting"
        PROVE  clock + 1 <= Wake(p) /\ Wake(p) \in Nat
    <3>1. clock # Wake(p) /\ clock <= Wake(p)
      BY <2>1, <2>2 DEF StartupInv, OnTime, Due, Awake, Wake, Processes
    <3>2. Wake(p) \in Nat
      BY <1>0, WakeTimes DEF Callers, Processes
    <3> QED
      BY <1>0, <3>1, <3>2
  <2>3. ASSUME NEW p \in Processes \ Callers, state[p] = "starting"
        PROVE  clock + 1 <= start[p]
    BY <1>0, <2>1, <2>3 DEF StartupInv, OnTime, Due
  <2>4. OnTime'
    BY <2>1, <2>2, <2>3 DEF StartupInv, OnTime, Wake
  <2>5. clock + 1 \in 0 .. MaxClock
    <3>1. PICK p \in Processes : state[p] = "starting"
      BY <1>6 DEF Tick
    <3>2. MaxClock \in Nat /\ 2 * MaxDelay <= MaxClock
      BY <1>0 DEF MaxClock
    <3>3. CASE p \notin Callers
      <4>1. start[p] <= 2 * MaxDelay
        BY <1>0, <3>3 DEF StartupInv, Schedule, Processes, Callers
      <4> QED
        BY <1>0, <2>3, <3>1, <3>2, <3>3, <4>1
    <3>4. CASE p \in Callers
      <4>1. tries["risk"] <= Attempts /\ tries["gateway"] <= Attempts
              /\ tries["persistence"] <= Attempts
        BY <1>0 DEF TypeOK, Callers
      <4>2. Wake("risk") <= MaxClock
        BY <1>0, <4>1, WakeTimes DEF StartupInv, Schedule, MaxClock, Callers
      <4>3. Wake("gateway") <= MaxClock
        BY <1>0, <4>1, WakeTimes DEF StartupInv, Schedule, MaxClock, Callers
      <4>4. Wake("persistence") <= MaxClock
        BY <1>0, <4>1, WakeTimes DEF StartupInv, Schedule, MaxClock, Callers
      <4>5. Wake("client") <= MaxClock
        BY <1>0, <3>2, WakeTimes DEF StartupInv, Schedule
      <4>6. Wake(p) <= MaxClock
        BY <3>4, <4>2, <4>3, <4>4, <4>5 DEF Callers
      <4> QED
        BY <1>0, <2>2, <3>1, <3>2, <3>4, <4>6
    <3> QED
      BY <3>3, <3>4
  <2>6. TypeOK'
    BY <2>1, <2>5 DEF StartupInv, TypeOK
  <2>7. Persistent' /\ CalleeLate'
    BY <1>1, <2>1 DEF StartupInv, Persistent, CalleeLate
  <2> QED
    BY <1>1, <2>1, <2>4, <2>6, <2>7 DEF StartupInv
<1>7. CASE UNCHANGED vars
  <2>1. TypeOK' /\ OnTime' /\ Persistent'
    BY <1>7 DEF vars, StartupInv, TypeOK, OnTime, Wake, Persistent
  <2>2. CalleeLate' /\ Schedule'
    BY <1>1, <1>7 DEF vars, StartupInv, CalleeLate
  <2> QED
    BY <2>1, <2>2 DEF StartupInv
<1> QED
  BY <1>2, <1>3, <1>4, <1>5, <1>6, <1>7 DEF Next

\* The invariant holds at the start.
LEMMA StartupInit == Init => StartupInv
<1> SUFFICES ASSUME Init PROVE StartupInv
  OBVIOUS
<1>1. PICK engine, gateway, client, postgres \in 0 .. MaxDelay :
        start = [p \in Processes |->
                   CASE p = "engine" -> engine
                     [] p = "gateway" -> gateway
                     [] p = "client" -> gateway + client
                     [] p = "postgres" -> 2 * postgres
                     [] OTHER -> 0]
  BY DEF Init
<1>2. /\ start["engine"] = engine /\ start["gateway"] = gateway
      /\ start["client"] = gateway + client /\ start["postgres"] = 2 * postgres
      /\ start["risk"] = 0 /\ start["persistence"] = 0 /\ DOMAIN start = Processes
      /\ start = [p \in Processes |-> start[p]]
  BY <1>1 DEF Processes, Callers
<1>3. Schedule
  BY <1>2, StartupConstants DEF Schedule
<1>4. start \in [Processes -> 0 .. MaxClock]
  <2>1. \A p \in Processes : start[p] \in 0 .. MaxClock
    BY <1>2, StartupConstants DEF Processes, Callers, MaxClock
  <2> QED
    BY <1>2, <2>1
<1>5. TypeOK
  BY <1>4, StartupConstants DEF Init, TypeOK, MaxClock
<1>6. \A p \in Callers : state[p] = "starting" /\ tries[p] = 0
  BY DEF Init, Processes
<1>7. Persistent
  BY <1>6, StartupConstants DEF Persistent, MaxTries
<1>8. OnTime
  <2>1. \A p \in Callers : Wake(p) = start[p] /\ start[p] \in Nat
    BY <1>5, <1>6, StartupConstants, WakeTimes DEF Callers, Processes, TypeOK
  <2>2. clock = 0 /\ \A p \in Processes : state[p] = "starting"
    BY DEF Init
  <2>3. \A p \in Processes : start[p] \in Nat
    BY <1>5, StartupConstants DEF TypeOK
  <2> QED
    BY <2>1, <2>2, <2>3 DEF OnTime
<1>9. CalleeLate
  BY <1>6 DEF CalleeLate, Callers
<1> QED
  BY <1>3, <1>5, <1>7, <1>8, <1>9 DEF StartupInv

\* The invariant holds in every reachable state.
LEMMA StartupInvariant == Spec => []StartupInv
  BY StartupInit, StartupStep, PTL DEF Spec

-----------------------------------------------------------------------------
\* Every variable keeps its type; nobody waits beyond MaxClock.
THEOREM StartupTyped == Spec => []TypeOK
<1>1. StartupInv => TypeOK
  BY DEF StartupInv
<1> QED
  BY <1>1, StartupInvariant, PTL

\* Nobody who retries is lost to a delay shorter than all of its attempts, along the
\* whole chain, for any number of attempts and any delays.
THEOREM RetriesBridgeDelays == Spec => []DelaysBridged
<1>1. StartupInv => DelaysBridged
  <2> SUFFICES ASSUME StartupInv PROVE DelaysBridged
    OBVIOUS
  <2>1. /\ Attempts \in Nat \ {0} /\ start["risk"] = 0 /\ start["engine"] \in Nat
        /\ start["gateway"] \in Nat /\ start["persistence"] = 0 /\ start["postgres"] \in Nat
        /\ MaxDelay \in Nat
    BY StartupConstants DEF StartupInv, Schedule
  <2>2. /\ state["risk"] = "gone" => tries["risk"] = Attempts
        /\ state["gateway"] = "gone" => tries["gateway"] = Attempts
        /\ state["persistence"] = "gone" => tries["persistence"] = Attempts
    BY WakeTimes DEF StartupInv, Persistent, Callers
  <2>3. RiskUp = start["engine"] + 1
    BY <2>1 DEF RiskUp
  <2>4. state["risk"] = "gone" => start["engine"] >= start["risk"] + Attempts - 1
    BY <2>1, <2>2 DEF StartupInv, CalleeLate
  <2>5. state["gateway"] = "gone" =>
          state["risk"] = "gone" \/ start["engine"] >= start["gateway"] + Attempts - 2
    BY <2>1, <2>2, <2>3 DEF StartupInv, CalleeLate
  <2>6. state["persistence"] = "gone" =>
          start["postgres"] >= start["persistence"] + 2 * (Attempts - 1)
    BY <2>1, <2>2 DEF StartupInv, CalleeLate
  <2> QED
    BY <2>4, <2>5, <2>6 DEF DelaysBridged
<1> QED
  BY <1>1, StartupInvariant, PTL
=============================================================================
