------------------------ MODULE EurekaRegistrarProofs ------------------------
(***************************************************************************)
(* For any number of callers and heartbeat goroutines: the safety          *)
(* properties of EurekaRegistrar.                                          *)
(***************************************************************************)
EXTENDS EurekaRegistrar, TLAPS

\* Who holds the mutex decides what the goroutine can be doing: OneLoop alone
\* says nothing of the states inside a call.
Handshake ==
    /\ \A k \in Callers :
          /\ call[k] \in {"registering", "sending", "waiting", "closed"} <=> mtx = k
          /\ call[k] = "registering" => ~quitc /\ Running = {}
          /\ call[k] = "sending" => quitc /\ Running # {}
          /\ call[k] = "waiting" => quitc /\ \E g \in Loops : loop[g] = "quitting"
          /\ call[k] = "closed" => quitc /\ Running = {}
    /\ \A g \in Loops : loop[g] = "quitting" => \E k \in Callers : call[k] = "waiting"

Inv == TypeOK /\ OneLoop /\ Handshake

LEMMA InvInit == Init => Inv
  BY NoneAssumption DEF Init, Inv, TypeOK, OneLoop, Handshake, Running

LEMMA InvNext == Inv /\ [Next]_vars => Inv'
<1>. SUFFICES ASSUME Inv, [Next]_vars PROVE Inv'
  OBVIOUS
<1>. USE NoneAssumption DEF Inv, TypeOK, OneLoop, Handshake, Running, CallTo, LoopTo
<1>1. ASSUME NEW k \in Callers, Call(k) PROVE Inv'
  BY <1>1 DEF Call
<1>2. ASSUME NEW k \in Callers, CallAlready(k) PROVE Inv'
  BY <1>2 DEF CallAlready
<1>3. ASSUME NEW k \in Callers, RegisterLock(k) PROVE Inv'
  BY <1>3 DEF RegisterLock
<1>4. ASSUME NEW k \in Callers, NEW g \in Loops, RegisterInstance(k, g) PROVE Inv'
  <2>1. /\ call[k] = "registering" /\ call' = [call EXCEPT ![k] = "idle"]
        /\ loop[g] = "off" /\ loop' = [loop EXCEPT ![g] = "select"]
        /\ registered' \in {registered, TRUE} /\ quitc' = TRUE /\ mtx' = None
    BY <1>4 DEF RegisterInstance
  <2>2. mtx = k /\ \A h \in Loops : loop[h] = "off"
    BY <2>1
  <2>3. /\ \A h \in Loops : loop'[h] = IF h = g THEN "select" ELSE "off"
        /\ \A j \in Callers : call'[j] = IF j = k THEN "idle" ELSE call[j]
    BY <2>1, <2>2
  <2>4. Running' = {g}
    BY <2>3
  <2>5. TypeOK'
    BY <2>1
  <2>6. OneLoop'
    BY <2>1, <2>4
  <2>7. \A j \in Callers : call'[j] \notin {"registering", "sending", "waiting", "closed"}
    BY <2>2, <2>3
  <2>8. Handshake'
    BY <2>1, <2>3, <2>7
  <2>. QED  BY <2>5, <2>6, <2>8
<1>5. ASSUME NEW k \in Callers, DeregisterLock(k) PROVE Inv'
  BY <1>5 DEF DeregisterLock
<1>6. ASSUME NEW k \in Callers, NEW g \in Loops, HandOver(k, g) PROVE Inv'
  <2>1. /\ call[k] = "sending" /\ call' = [call EXCEPT ![k] = "waiting"]
        /\ loop[g] = "select" /\ loop' = [loop EXCEPT ![g] = "quitting"]
        /\ registered' = registered /\ mtx' = mtx /\ quitc' = quitc
    BY <1>6 DEF HandOver
  <2>2. /\ \A h \in Loops : loop'[h] = IF h = g THEN "quitting" ELSE loop[h]
        /\ \A j \in Callers : call'[j] = IF j = k THEN "waiting" ELSE call[j]
    BY <2>1
  <2>3. Running' = Running
    BY <2>1, <2>2
  <2>4. mtx = k /\ quitc /\ \A j \in Callers : j # k => mtx # j
    BY <2>1
  <2>5. TypeOK'
    BY <2>1
  <2>6. OneLoop'
    BY <2>1, <2>3
  <2>7. /\ \A j \in Callers : call'[j] \in {"registering", "sending", "waiting", "closed"} <=> mtx' = j
        /\ \A j \in Callers : j # k => call'[j] \notin {"registering", "sending", "waiting", "closed"}
    BY <2>1, <2>2, <2>4
  <2>8. call'[k] = "waiting" /\ loop'[g] = "quitting" /\ quitc'
    BY <2>1, <2>2, <2>4
  <2>9. ASSUME NEW j \in Callers
        PROVE  /\ call'[j] = "registering" => ~quitc' /\ Running' = {}
               /\ call'[j] = "sending" => quitc' /\ Running' # {}
               /\ call'[j] = "waiting" => quitc' /\ \E h \in Loops : loop'[h] = "quitting"
               /\ call'[j] = "closed" => quitc' /\ Running' = {}
    BY <2>7, <2>8
  <2>10. \A h \in Loops : loop'[h] = "quitting" => \E j \in Callers : call'[j] = "waiting"
    BY <2>8
  <2>11. Handshake'
    BY <2>7, <2>9, <2>10
  <2>. QED  BY <2>5, <2>6, <2>11
<1>7. ASSUME NEW k \in Callers, NEW g \in Loops, DeregisterInstance(k, g) PROVE Inv'
  <2>1. /\ call[k] = "waiting" /\ call' = [call EXCEPT ![k] = "closed"]
        /\ loop[g] = "quitting" /\ loop' = [loop EXCEPT ![g] = "off"]
        /\ registered' \in {registered, FALSE} /\ mtx' = mtx /\ quitc' = quitc
    BY <1>7 DEF DeregisterInstance
  <2>2. \A h \in Loops : loop'[h] = "off"
    BY <2>1
  <2>3. Running' = {}
    BY <2>2
  <2>4. mtx = k /\ quitc
    BY <2>1
  <2>5. TypeOK'
    BY <2>1
  <2>6. OneLoop'
    BY <2>1, <2>3, <2>4
  <2>7. Handshake'
    BY <2>1, <2>2, <2>3, <2>4
  <2>. QED  BY <2>5, <2>6, <2>7
<1>8. ASSUME NEW k \in Callers, DeregisterDone(k) PROVE Inv'
  <2>1. /\ call[k] = "closed" /\ call' = [call EXCEPT ![k] = "idle"]
        /\ quitc' = FALSE /\ mtx' = None /\ loop' = loop /\ registered' = registered
    BY <1>8 DEF DeregisterDone
  <2>2. mtx = k /\ Running' = {} /\ \A h \in Loops : loop'[h] = "off"
    BY <2>1
  <2>3. \A j \in Callers : call'[j] \notin {"registering", "sending", "waiting", "closed"}
    BY <2>1, <2>2
  <2>4. TypeOK'
    BY <2>1
  <2>5. OneLoop'
    BY <2>1, <2>2
  <2>6. Handshake'
    BY <2>1, <2>2, <2>3
  <2>. QED  BY <2>4, <2>5, <2>6
<1>9. ASSUME NEW g \in Loops,
             Tick(g) \/ HeartBeat(g) \/ HeartBeatNotFound(g) \/ ReregisterInstance(g)
      PROVE  Inv'
  <2>1. /\ loop[g] \notin {"off", "quitting"}
        /\ \E to \in {"select", "heartbeat", "reregister"} : loop' = [loop EXCEPT ![g] = to]
        /\ registered' \in {registered, TRUE}
        /\ quitc' = quitc /\ mtx' = mtx /\ call' = call
    BY <1>9 DEF Tick, HeartBeat, HeartBeatNotFound, ReregisterInstance
  <2>2. /\ \A h \in Loops : loop'[h] # "off" <=> loop[h] # "off"
        /\ \A h \in Loops : loop'[h] = "quitting" <=> loop[h] = "quitting"
    BY <2>1
  <2>3. Running' = Running
    BY <2>2
  <2>4. TypeOK'
    <3>1. registered' \in BOOLEAN
      BY <2>1, Zenon
    <3>2. loop' \in [Loops -> {"off", "select", "heartbeat", "reregister", "quitting"}]
      BY <2>1
    <3>. QED  BY <2>1, <3>1, <3>2
  <2>5. OneLoop'
    BY <2>1, <2>3
  <2>6. Handshake'
    BY <2>1, <2>2, <2>3
  <2>. QED  BY <2>4, <2>5, <2>6
<1>10. CASE LeaseExpires
  <2>1. registered' = FALSE /\ mtx' = mtx /\ quitc' = quitc /\ call' = call /\ loop' = loop
    BY <1>10 DEF LeaseExpires
  <2>2. TypeOK'
    BY <2>1
  <2>3. OneLoop' /\ Handshake'
    BY <2>1
  <2>. QED  BY <2>2, <2>3
<1>11. CASE UNCHANGED vars
  BY <1>11 DEF vars
<1>. QED
  BY <1>1, <1>2, <1>3, <1>4, <1>5, <1>6, <1>7, <1>8, <1>9, <1>10, <1>11 DEF Next

\* There is one heartbeat goroutine while the registrar counts as registered
\* and none otherwise, however the calls overlap.
THEOREM OneHeartbeatLoop == Spec => [](TypeOK /\ OneLoop)
<1>1. Spec => []Inv
  BY InvInit, InvNext, PTL DEF Spec
<1>. QED  BY <1>1, PTL DEF Inv

\* Deregister's send always has a receiver to come, and the channel it waits for
\* a goroutine that will close it: the safety part of CallsReturn.
THEOREM DeregisterHasItsLoop == Spec => []DeregisterIsServed
<1>1. Spec => []Inv
  BY InvInit, InvNext, PTL DEF Spec
<1>2. ASSUME Inv PROVE DeregisterIsServed
  <2>. SUFFICES ASSUME NEW k \in Callers
       PROVE  /\ call[k] = "sending" => \E g \in Loops : loop[g] \in {"select", "heartbeat", "reregister"}
              /\ call[k] = "waiting" => \E g \in Loops : loop[g] = "quitting"
    BY DEF DeregisterIsServed
  <2>1. ASSUME call[k] = "sending" PROVE \E g \in Loops : loop[g] \in {"select", "heartbeat", "reregister"}
    <3>1. PICK g \in Loops : loop[g] # "off"
      BY <1>2, <2>1 DEF Inv, Handshake, Running
    <3>2. loop[g] # "quitting"
      \* only the owner of the mutex can be waiting, and that is k
      <4>1. \A j \in Callers : call[j] # "waiting"
        BY <1>2, <2>1 DEF Inv, Handshake
      <4>. QED  BY <1>2, <4>1 DEF Inv, Handshake
    <3>. QED  BY <1>2, <3>1, <3>2 DEF Inv, TypeOK
  <2>2. call[k] = "waiting" => \E g \in Loops : loop[g] = "quitting"
    BY <1>2 DEF Inv, Handshake
  <2>. QED  BY <2>1, <2>2
<1>. QED  BY <1>1, <1>2, PTL

\* Once Deregister has returned, nothing puts the instance back before the next Register.
THEOREM DeregistrationSticks == Spec => DeregisterSticks
<1>1. ASSUME Inv, [Next]_vars
      PROVE  [mtx = None /\ ~quitc => (registered' => registered)]_vars
  <2>. SUFFICES ASSUME mtx = None, ~quitc, Next PROVE registered' => registered
    BY <1>1
  <2>1. \A g \in Loops : loop[g] = "off"
    BY <1>1 DEF Inv, OneLoop, Running
  <2>2. \A k \in Callers : call[k] \notin {"registering", "waiting"}
    BY <1>1, NoneAssumption DEF Inv, Handshake
  <2>. QED
    BY <2>1, <2>2
    DEF Next, CallTo, LoopTo, Call, CallAlready, RegisterLock, RegisterInstance, DeregisterLock, HandOver,
        DeregisterInstance, DeregisterDone, Tick, HeartBeat, HeartBeatNotFound, ReregisterInstance, LeaseExpires
<1>. QED  BY <1>1, InvInit, InvNext, PTL DEF Spec, DeregisterSticks
=============================================================================
