-------------------------- MODULE ConnManagerProofs --------------------------
(***************************************************************************)
(* For any number of writers, dial goroutines and connections: the safety  *)
(* properties of ConnManager.                                              *)
(***************************************************************************)
EXTENDS ConnManager, TLAPS

\* Before the loop starts nothing is under way, and a dial goroutine holds a
\* connection only between dialling it and sending it.
Quiet ==
    /\ lpc = "dial" => conn = Nil /\ connc = <<>> /\ reconnectc = "nil" /\ Dialling = {} /\ open = {}
    /\ \A d \in Dialers : dpc[d] # "dialed" => dialed[d] = Nil

Inv == TypeOK /\ Quiet /\ NeverStranded /\ OneAtATime

LEMMA InvInit == Init => Inv
<1>. SUFFICES ASSUME Init PROVE Inv
  OBVIOUS
<1>1. TypeOK
  <2>1. failed \in [Writers -> BOOLEAN] /\ raced \in BOOLEAN
    BY Zenon DEF Init
  <2>2. 1 \in 1..MaxBackoff
    BY BackoffAssumption
  <2>. QED  BY <2>1, <2>2 DEF Init, TypeOK
<1>2. Quiet
  BY DEF Init, Quiet, Dialling
<1>3. NeverStranded /\ OneAtATime
  BY DEF Init, NeverStranded, OneAtATime
<1>. QED  BY <1>1, <1>2, <1>3 DEF Inv

\* Exponential stays between a second and a minute.
LEMMA ExponentialBounds ==
    ASSUME NEW b \in 1..MaxBackoff, NEW x \in Exponential(b)
    PROVE  x \in 1..MaxBackoff /\ x >= b
  BY BackoffAssumption DEF Exponential

\* A dial gives nil or a connection that was neither open nor in anybody's hands.
LEMMA DialFresh ==
    ASSUME TypeOK, NEW c \in Conns \cup {Nil}, Dial(c)
    PROVE  /\ open' \subseteq Conns /\ open' = (open \cup {c}) \ {Nil}
           /\ c # Nil => c \notin open
  BY NilAssumption DEF TypeOK, Dial

LEMMA TypeNext == TypeOK /\ [Next]_vars => TypeOK'
<1>. SUFFICES ASSUME TypeOK, [Next]_vars PROVE TypeOK'
  OBVIOUS
<1>. USE BackoffAssumption, NilAssumption DEF TypeOK, loopVars, dialVars, writeVars
<1>1. ASSUME NEW c \in Conns \cup {Nil}, FirstDial(c) PROVE TypeOK'
  BY <1>1, DialFresh DEF FirstDial
<1>2. CASE ConnFailed
  BY <1>2, ExponentialBounds DEF ConnFailed
<1>3. CASE ConnArrives
  BY <1>3 DEF ConnArrives
<1>4. ASSUME NEW d \in Dialers, Reconnect(d) PROVE TypeOK'
  BY <1>4 DEF Reconnect
<1>5. ASSUME NEW d \in Dialers, SendConn(d) PROVE TypeOK'
  BY <1>5 DEF SendConn
<1>6. ASSUME NEW d \in Dialers, NEW c \in Conns \cup {Nil}, DialEnds(d, c) PROVE TypeOK'
  BY <1>6, DialFresh DEF DialEnds
<1>7. ASSUME NEW w \in Writers, Write(w) \/ Take(w) \/ Written(w) PROVE TypeOK'
  BY <1>7 DEF Write, Take, Written
<1>8. ASSUME NEW w \in Writers, Put(w) PROVE TypeOK'
  BY <1>8 DEF Put
<1>9. CASE UNCHANGED vars
  BY <1>9 DEF vars
<1>. QED  BY <1>1, <1>2, <1>3, <1>4, <1>5, <1>6, <1>7, <1>8, <1>9 DEF Next

\* What connc's buffer holds.
LEMMA BufferRange == Range(<<>>) = {} /\ \A c : Range(<<c>>) = {c}
  BY DEF Range

\* The first dial, whose connection is the only open one.
LEMMA FirstDialInv ==
    ASSUME Inv, TypeOK', NEW c \in Conns \cup {Nil}, FirstDial(c) PROVE Inv'
<1>. USE DEF Inv
<1>1. /\ lpc = "dial" /\ Dialling = {} /\ open = {} /\ reconnectc' = "nil"
      /\ lpc' = "loop" /\ conn' = c /\ connc' = <<c>> /\ dpc' = dpc /\ dialed' = dialed
  BY DEF FirstDial, Quiet, dialVars
<1>2. open' = {c} \ {Nil}
  BY <1>1, DialFresh DEF FirstDial
<1>3. Dialling' = {} /\ \A d \in Dialers : dialed'[d] = Nil
  BY <1>1 DEF Dialling, Quiet
<1>4. Quiet' /\ NeverStranded'
  BY <1>1, <1>3 DEF Quiet, NeverStranded
<1>5. OneAtATime'
  BY <1>1, <1>2, <1>3, BufferRange DEF OneAtATime
<1>. QED  BY <1>4, <1>5

\* A result leaving connc.
LEMMA ConncInv ==
    ASSUME Inv, TypeOK', ConnFailed \/ ConnArrives PROVE Inv'
<1>. USE DEF Inv
<1>1. /\ lpc = "loop" /\ lpc' = "loop" /\ dpc' = dpc /\ dialed' = dialed /\ open' = open
      /\ raced' = raced /\ connc' = <<>> /\ connc = <<conn'>> /\ Dialling' = Dialling
      /\ IF conn' = Nil THEN reconnectc' = "armed" ELSE reconnectc' = "nil"
  BY DEF ConnFailed, ConnArrives, dialVars, TypeOK, Dialling
<1>2. Quiet' /\ NeverStranded'
  BY <1>1 DEF Quiet, NeverStranded
<1>3. ASSUME ~raced PROVE OneAtATime'
  <2>1. /\ Dialling = {} /\ \A d \in Dialers : dialed[d] = Nil
        /\ conn \in {Nil, conn'}
    BY <1>1, <1>3 DEF OneAtATime, Quiet, Dialling
  <2>2. open = {conn'} \ {Nil}
    BY <1>1, <1>3, <2>1, BufferRange DEF OneAtATime
  <2>. QED  BY <1>1, <2>1, <2>2, BufferRange DEF OneAtATime
<1>. QED  BY <1>1, <1>2, <1>3 DEF OneAtATime

\* The start of a dial, its end, and the sending of its result.
LEMMA DialInv ==
    ASSUME Inv, TypeOK', NEW d \in Dialers,
           \/ Reconnect(d) \/ SendConn(d)
           \/ \E c \in Conns \cup {Nil} : DialEnds(d, c)
    PROVE  Inv'
<1>. USE DEF Inv
<1>1. lpc = "loop" /\ lpc' = "loop" /\ conn' = conn /\ raced' = raced
  BY DEF Reconnect, SendConn, DialEnds, loopVars, Quiet, TypeOK, Dialling
<1>2. CASE Reconnect(d)
  <2>1. /\ Dialling' = Dialling \cup {d} /\ connc' = connc /\ reconnectc' = "nil" /\ open' = open
        /\ dialed' = dialed /\ reconnectc = "armed" /\ dpc'[d] = "dialing" /\ dpc[d] = "idle"
        /\ \A e \in Dialers \ {d} : dpc'[e] = dpc[e]
    BY <1>2 DEF Reconnect, Dialling, TypeOK
  <2>2. Quiet' /\ NeverStranded'
    BY <1>1, <2>1 DEF Quiet, NeverStranded
  <2>. QED  BY <1>1, <2>1, <2>2 DEF OneAtATime
<1>3. CASE SendConn(d)
  <2>1. /\ Dialling' = Dialling \ {d} /\ d \in Dialling /\ connc = <<>> /\ connc' = <<dialed[d]>>
        /\ reconnectc' = reconnectc /\ open' = open /\ dialed'[d] = Nil
        /\ \A e \in Dialers \ {d} : dpc'[e] = dpc[e] /\ dialed'[e] = dialed[e]
    BY <1>3 DEF SendConn, Dialling, TypeOK
  <2>2. Quiet' /\ NeverStranded'
    BY <1>1, <2>1 DEF Quiet, NeverStranded
  <2>3. ASSUME ~raced PROVE OneAtATime'
    <3>1. Dialling = {d} /\ conn = Nil /\ reconnectc = "nil"
      BY <1>1, <2>1, <2>3 DEF OneAtATime, TypeOK
    <3>2. /\ open = {dialed[d]} \ {Nil} /\ \A e \in Dialers : dialed'[e] = Nil
      BY <1>1, <2>1, <2>3, <3>1, BufferRange DEF OneAtATime, Quiet, Dialling
    <3>. QED  BY <1>1, <2>1, <3>1, <3>2, BufferRange DEF OneAtATime
  <2>. QED  BY <1>1, <2>2, <2>3 DEF OneAtATime
<1>4. ASSUME NEW c \in Conns \cup {Nil}, DialEnds(d, c) PROVE Inv'
  <2>1. /\ Dialling' = Dialling /\ d \in Dialling /\ connc' = connc /\ reconnectc' = reconnectc
        /\ dialed'[d] = c /\ dpc'[d] = "dialed" /\ dpc[d] = "dialing" /\ dialed[d] = Nil
        /\ \A e \in Dialers \ {d} : dpc'[e] = dpc[e] /\ dialed'[e] = dialed[e]
    BY <1>4 DEF DialEnds, Dialling, TypeOK, loopVars, Quiet
  <2>2. Quiet' /\ NeverStranded'
    BY <1>1, <2>1 DEF Quiet, NeverStranded
  <2>3. open' = (open \cup {c}) \ {Nil}
    BY <1>4, DialFresh DEF DialEnds
  <2>. QED  BY <1>1, <2>1, <2>2, <2>3, BufferRange DEF OneAtATime
<1>. QED  BY <1>2, <1>3, <1>4

\* An error that is Put closes the connection and arms the timer.
LEMMA PutInv ==
    ASSUME Inv, TypeOK', NEW w \in Writers, Put(w) PROVE Inv'
<1>. USE DEF Inv
<1>1. /\ lpc = "loop" /\ lpc' = "loop" /\ connc' = connc /\ dpc' = dpc /\ dialed' = dialed
      /\ Dialling' = Dialling
  BY DEF Put, dialVars, Dialling
<1>2. CASE failed[w] /\ conn # Nil
  <2>1. /\ open' = open \ {conn} /\ conn' = Nil /\ reconnectc' = "armed"
        /\ ~raced' => ~raced /\ connc = <<>>
    BY <1>2 DEF Put, TypeOK
  <2>2. Quiet' /\ NeverStranded'
    BY <1>1, <2>1 DEF Quiet, NeverStranded
  <2>3. ASSUME ~raced' PROVE OneAtATime'
    <3>1. Dialling = {} /\ \A d \in Dialers : dialed[d] = Nil
      BY <1>1, <1>2, <2>1, <2>3 DEF OneAtATime, Quiet, Dialling
    <3>2. open = {conn}
      BY <1>1, <1>2, <2>1, <2>3, <3>1, BufferRange DEF OneAtATime
    <3>. QED  BY <1>1, <2>1, <3>1, <3>2, BufferRange DEF OneAtATime
  <2>. QED  BY <2>2, <2>3 DEF OneAtATime
<1>3. CASE ~(failed[w] /\ conn # Nil)
  <2>1. UNCHANGED <<open, conn, reconnectc, raced>>
    BY <1>3 DEF Put
  <2>. QED  BY <1>1, <2>1 DEF Quiet, NeverStranded, OneAtATime
<1>. QED  BY <1>2, <1>3

LEMMA InvNext == Inv /\ [Next]_vars => Inv'
<1>. SUFFICES ASSUME Inv, [Next]_vars PROVE Inv'
  OBVIOUS
<1>1. TypeOK'
  BY TypeNext DEF Inv
<1>2. ASSUME NEW w \in Writers, Write(w) \/ Take(w) \/ Written(w) PROVE Inv'
  <2>1. UNCHANGED <<lpc, conn, connc, reconnectc, dpc, dialed, open, raced>>
    BY <1>2 DEF Write, Take, Written, loopVars, dialVars
  <2>. QED  BY <1>1, <2>1 DEF Inv, Quiet, NeverStranded, OneAtATime, Dialling
<1>3. CASE UNCHANGED vars
  BY <1>1, <1>3 DEF vars, loopVars, dialVars, Inv, Quiet, NeverStranded, OneAtATime, Dialling
<1>. QED  BY <1>1, <1>2, <1>3, FirstDialInv, ConncInv, DialInv, PutInv DEF Next

\* The manager is never without both a connection and a way to one, never has two
\* dials under way and loses no connection, whatever the writers report, but for
\* the start-up race.
THEOREM ManagerSafe == Spec => [](TypeOK /\ NeverStranded /\ OneAtATime)
<1>1. Spec => []Inv
  BY InvInit, InvNext, PTL DEF Spec
<1>. QED  BY <1>1, PTL DEF Inv

\* A manager without a connection has a dial, a timer or a result under way.
THEOREM ManagerNeverStranded == Spec => []NeverStranded
<1>. QED  BY ManagerSafe, PTL

\* The manager's state keeps its type; the backoff stays within its limit.
THEOREM ManagerTypes == Spec => []TypeOK
<1>. QED  BY ManagerSafe, PTL

\* While dials fail the wait between them never shrinks.
THEOREM BackoffIsMonotone == Spec => BackoffGrows
<1>1. ASSUME TypeOK, [Next]_vars
      PROVE  [backoff' < backoff => conn' # Nil /\ connc # <<>>]_vars
  <2>1. CASE ConnFailed
    <3>1. backoff' >= backoff
      BY <1>1, <2>1, ExponentialBounds DEF ConnFailed, TypeOK
    <3>. QED  BY <1>1, <2>1, <3>1, ExponentialBounds DEF ConnFailed, TypeOK
  <2>2. CASE ConnArrives
    BY <1>1, <2>2 DEF ConnArrives, TypeOK
  <2>3. CASE UNCHANGED backoff
    BY <1>1, <2>3 DEF TypeOK
  <2>. QED
    BY <1>1, <2>1, <2>2, <2>3
    DEF Next, vars, loopVars, FirstDial, Reconnect, SendConn, DialEnds, Write, Take, Written, Put
<1>. QED  BY <1>1, ManagerSafe, PTL DEF Spec, BackoffGrows
=============================================================================
