------------------------- MODULE InstanceCacheProofs -------------------------
(***************************************************************************)
(* For any number of endpointers: the safety properties of InstanceCache,  *)
(* and that it implements InstancerContract.                               *)
(***************************************************************************)
EXTENDS InstanceCache, SequenceTheorems, TLAPS

\* How the mutex, the registry, the owners and the receive goroutines hang
\* together: the part of the inductive invariant no single property states.
Protocol ==
    /\ todo # {} => mtx = Updater
    /\ \A s \in Subscribers :
          /\ mtx = s <=> client[s] = "registering"
          /\ s \in reg <=> client[s] \in {"registering", "open", "deregister"}
          /\ client[s] = "new" <=> rcv[s] = "none"
          /\ client[s] \in {"register", "registering"} => rcv[s] = "recv"
          /\ rcv[s] = "done" => client[s] = "closed"

\* A registered subscriber nobody owes a send has the current state.
Caught ==
    \A s \in Subscribers :
        /\ s \in reg /\ s \notin todo /\ client[s] # "registering" => taken[s] = state
        /\ rcv[s] # "handle" => view[s] = taken[s]

Inv == TypeOK /\ Protocol /\ Caught

LEMMA InvInit == Init => Inv
  BY EventsAssumption, OwnersAssumption
  DEF Init, Inv, TypeOK, Protocol, Caught, ClientPoints, RcvPoints

LEMMA InvNext == Inv /\ [Next]_vars => Inv'
<1>. SUFFICES ASSUME Inv, [Next]_vars PROVE Inv'
  OBVIOUS
<1>. USE EventsAssumption, OwnersAssumption DEF Inv, TypeOK, Protocol, Caught, ClientPoints, RcvPoints
<1>1. ASSUME NEW e \in Events, Update(e) PROVE Inv'
  BY <1>1 DEF Update
<1>2. CASE UpdateDone
  BY <1>2 DEF UpdateDone
<1>3. ASSUME NEW s \in Subscribers, BroadcastTo(s) PROVE Inv'
  BY <1>3 DEF BroadcastTo, Send
<1>4. ASSUME NEW s \in Subscribers, NewEndpointer(s) PROVE Inv'
  BY <1>4 DEF NewEndpointer
<1>5. ASSUME NEW s \in Subscribers, RegisterLock(s) PROVE Inv'
  BY <1>5 DEF RegisterLock
<1>6. ASSUME NEW s \in Subscribers, RegisterSend(s) PROVE Inv'
  BY <1>6 DEF RegisterSend, Send
<1>7. ASSUME NEW s \in Subscribers, Close(s) PROVE Inv'
  BY <1>7 DEF Close
<1>8. ASSUME NEW s \in Subscribers, Deregister(s) PROVE Inv'
  BY <1>8 DEF Deregister
<1>9. ASSUME NEW s \in Subscribers, CloseChannel(s) PROVE Inv'
  BY <1>9 DEF CloseChannel
<1>10. ASSUME NEW s \in Subscribers, Handle(s) PROVE Inv'
  BY <1>10 DEF Handle
<1>11. ASSUME NEW s \in Subscribers, ReceiveEnd(s) PROVE Inv'
  BY <1>11 DEF ReceiveEnd, Closed
<1>12. CASE UNCHANGED vars
  BY <1>12 DEF vars
<1>. QED
  BY <1>1, <1>2, <1>3, <1>4, <1>5, <1>6, <1>7, <1>8, <1>9, <1>10, <1>11, <1>12 DEF Next

LEMMA Invariance == Spec => []Inv
  BY InvInit, InvNext, PTL DEF Spec

\* A send of the cache never meets a closed channel or an absent receiver, and
\* whoever is registered while the lock is free has the current state.
THEOREM DeliverySafe == Spec => [](TypeOK /\ SendsHaveReceivers /\ NobodyLeftBehind)
<1>1. Inv => TypeOK
  BY DEF Inv
<1>2. Inv => SendsHaveReceivers
  BY DEF Inv, TypeOK, Protocol, SendsHaveReceivers, Closed, RcvPoints
<1>3. Inv => NobodyLeftBehind
  BY OwnersAssumption DEF Inv, TypeOK, Protocol, Caught, NobodyLeftBehind
<1>. QED  BY <1>1, <1>2, <1>3, Invariance, PTL

\* With the cache's mutex free, every registered endpointer has been sent the
\* current state.
THEOREM NobodyIsLeftBehind == Spec => []NobodyLeftBehind
<1>. QED  BY DeliverySafe, PTL

\* The registry, the broadcast's work list and the endpointers keep their types;
\* the work list holds registered channels only.
THEOREM DeliveryTypes == Spec => []TypeOK
<1>. QED  BY DeliverySafe, PTL

-----------------------------------------------------------------------------

\* The concatenations that Pending is made of.
LEMMA Concatenations ==
    ASSUME NEW a \in Events, NEW b \in Events
    PROVE  /\ <<>> \o <<>> = <<>> /\ <<a>> \o <<>> = <<a>> /\ <<>> \o <<b>> = <<b>>
           /\ Append(<<>>, b) = <<b>> /\ Append(<<a>>, b) = <<a>> \o <<b>>
           /\ <<a>> # <<>> /\ <<a>> \o <<b>> # <<>>
           /\ Head(<<a>>) = a /\ Tail(<<a>>) = <<>>
           /\ Head(<<a>> \o <<b>>) = a /\ Tail(<<a>> \o <<b>>) = <<b>>
<1>1. <<>> \o <<>> = <<>> /\ <<a>> \o <<>> = <<a>> /\ <<>> \o <<b>> = <<b>>
  OBVIOUS
<1>2. Append(<<>>, b) = <<b>> /\ Append(<<a>>, b) = <<a>> \o <<b>>
  OBVIOUS
<1>3. <<a>> # <<>> /\ <<a>> \o <<b>> # <<>>
  OBVIOUS
<1>4. Head(<<a>>) = a /\ Tail(<<a>>) = <<>> /\ Head(<<a>> \o <<b>>) = a
  OBVIOUS
<1>5. Tail(Append(<<a>>, b)) = Append(Tail(<<a>>), b)
  BY <1>3, HeadTailAppend
<1>. QED  BY <1>1, <1>2, <1>3, <1>4, <1>5

\* What a subscriber is owed, by what its receive goroutine and the cache do.
LEMMA PendingCases ==
    ASSUME TypeOK, NEW s \in Subscribers
    PROVE  LET owed == s \in todo \/ client[s] = "registering"
           IN  /\ rcv[s] = "handle" /\ owed => Pending(s) = <<taken[s]>> \o <<state>>
               /\ rcv[s] = "handle" /\ ~owed => Pending(s) = <<taken[s]>>
               /\ rcv[s] # "handle" /\ owed => Pending(s) = <<state>>
               /\ rcv[s] # "handle" /\ ~owed => Pending(s) = <<>>
  BY Concatenations DEF Pending, TypeOK

\* A step that changes what no subscriber is owed, nor the mapped variables.
LEMMA StutterStep ==
    ASSUME UNCHANGED <<state, reg, view>>, \A s \in Subscribers : Pending(s)' = Pending(s)
    PROVE  UNCHANGED Contract!vars
<1>1. [s \in Subscribers |-> Pending(s)]' = [s \in Subscribers |-> Pending(s)]
  OBVIOUS
<1>. QED  BY <1>1 DEF Contract!vars

LEMMA PublishStep ==
    ASSUME Inv, Inv', NEW e \in Events, Update(e) PROVE Contract!Publish(SortOf[e])
<1>. USE DEF Inv
<1>1. mtx = None /\ todo = {} /\ \A s \in Subscribers : client[s] # "registering"
  BY OwnersAssumption DEF Update, TypeOK, Protocol
<1>2. ASSUME NEW s \in Subscribers
      PROVE  Pending(s)' = IF s \in reg THEN Append(Pending(s), SortOf[e]) ELSE Pending(s)
  <2>1. /\ rcv[s] = "handle" => Pending(s) = <<taken[s]>>
        /\ rcv[s] # "handle" => Pending(s) = <<>>
    BY <1>1, PendingCases
  <2>2. /\ state' = SortOf[e] /\ todo' = reg /\ rcv' = rcv /\ taken' = taken /\ client' = client
        /\ SortOf[e] \in Events /\ taken[s] \in Events
    BY EventsAssumption DEF Update, TypeOK
  <2>. QED  BY <1>1, <2>1, <2>2, Concatenations DEF Pending
<1>3. [s \in Subscribers |-> Pending(s)]' = [s \in Subscribers |->
          IF s \in reg THEN Append([t \in Subscribers |-> Pending(t)][s], SortOf[e])
          ELSE [t \in Subscribers |-> Pending(t)][s]]
  BY <1>2
<1>. QED  BY <1>3 DEF Contract!Publish, Update

LEMMA SubscribeStep ==
    ASSUME Inv, NEW s \in Subscribers, RegisterLock(s) PROVE Contract!Subscribe(s)
<1>. USE DEF Inv
<1>1. /\ s \notin reg /\ s \notin todo /\ rcv[s] = "recv" /\ client[s] = "register"
      /\ client' = [client EXCEPT ![s] = "registering"] /\ client'[s] = "registering"
      /\ UNCHANGED <<state, todo, rcv, taken, view>> /\ state \in Events
  BY DEF RegisterLock, TypeOK, Protocol
<1>2. Pending(s) = <<>> /\ Pending(s)' = <<state>>
  BY <1>1, Concatenations DEF Pending
<1>3. \A t \in Subscribers \ {s} : Pending(t)' = Pending(t)
  BY <1>1 DEF Pending, TypeOK
<1>4. [t \in Subscribers |-> Pending(t)]'
        = [[t \in Subscribers |-> Pending(t)] EXCEPT ![s] = <<state>>]
  BY <1>2, <1>3
<1>. QED  BY <1>1, <1>2, <1>4 DEF Contract!Subscribe, RegisterLock

LEMMA ApplyStep ==
    ASSUME Inv, NEW s \in Subscribers, Handle(s) PROVE Contract!Apply(s)
<1>. USE DEF Inv
<1>1. /\ rcv[s] = "handle" /\ rcv' = [rcv EXCEPT ![s] = "recv"] /\ rcv'[s] = "recv"
      /\ UNCHANGED <<state, reg, todo, client, taken>> /\ state \in Events /\ taken[s] \in Events
  BY DEF Handle, TypeOK
<1>2. Pending(s) # <<>> /\ Head(Pending(s)) = taken[s] /\ Pending(s)' = Tail(Pending(s))
  <2>1. CASE s \in todo \/ client[s] = "registering"
    BY <1>1, <2>1, Concatenations DEF Pending
  <2>2. CASE ~(s \in todo \/ client[s] = "registering")
    BY <1>1, <2>2, Concatenations DEF Pending
  <2>. QED  BY <2>1, <2>2
<1>3. \A t \in Subscribers \ {s} : Pending(t)' = Pending(t)
  BY <1>1 DEF Pending, TypeOK
<1>4. [t \in Subscribers |-> Pending(t)]'
        = [[t \in Subscribers |-> Pending(t)] EXCEPT ![s] = Tail(@)]
  BY <1>2, <1>3
<1>. QED  BY <1>1, <1>2, <1>4 DEF Contract!Apply, Handle

\* A rendezvous moves what is owed from the cache to the receive goroutine.
LEMMA SendStep ==
    ASSUME Inv, NEW s \in Subscribers, BroadcastTo(s) \/ RegisterSend(s)
    PROVE  \A t \in Subscribers : Pending(t)' = Pending(t)
<1>. USE DEF Inv
<1>1. /\ rcv[s] = "recv" /\ rcv' = [rcv EXCEPT ![s] = "handle"] /\ rcv'[s] = "handle"
      /\ taken' = [taken EXCEPT ![s] = state] /\ taken'[s] = state /\ state' = state
      /\ state \in Events /\ (s \in todo \/ client[s] = "registering")
  BY DEF BroadcastTo, RegisterSend, Send, TypeOK
<1>2. s \notin todo' /\ client'[s] # "registering"
  BY OwnersAssumption DEF BroadcastTo, RegisterSend, TypeOK, Protocol
<1>3. Pending(s)' = Pending(s)
  BY <1>1, <1>2, Concatenations DEF Pending
<1>4. ASSUME NEW t \in Subscribers \ {s} PROVE Pending(t)' = Pending(t)
  BY <1>1 DEF Pending, BroadcastTo, RegisterSend, TypeOK
<1>. QED  BY <1>3, <1>4

\* The instance cache with its endpointers implements the contract of an
\* Instancer: every subscriber acts on the current state at registration and on
\* every change after it, each once and in order, until it is deregistered.
THEOREM Refinement == Spec => Implements
<1>1. Init => Contract!Init
  <2>. SUFFICES ASSUME Init PROVE Contract!Init
    OBVIOUS
  <2>1. TypeOK
    BY InvInit DEF Inv
  <2>2. \A s \in Subscribers : Pending(s) = <<>>
    BY <2>1, PendingCases DEF Init
  <2>. QED  BY <2>2 DEF Init, Contract!Init
<1>2. ASSUME Inv, Inv', [Next]_vars PROVE [Contract!Next]_(Contract!vars)
  <2>1. ASSUME NEW e \in Events, Update(e) PROVE Contract!Next
    BY <1>2, <2>1, PublishStep, EventsAssumption DEF Contract!Next
  <2>2. ASSUME NEW s \in Subscribers, RegisterLock(s) PROVE Contract!Next
    BY <1>2, <2>2, SubscribeStep DEF Contract!Next
  <2>3. ASSUME NEW s \in Subscribers, Handle(s) PROVE Contract!Next
    BY <1>2, <2>3, ApplyStep DEF Contract!Next
  <2>4. ASSUME NEW s \in Subscribers, BroadcastTo(s) \/ RegisterSend(s)
        PROVE  UNCHANGED Contract!vars
    BY <1>2, <2>4, SendStep, StutterStep DEF BroadcastTo, RegisterSend
  <2>5. ASSUME NEW s \in Subscribers, Deregister(s) PROVE Contract!Next
    <3>1. s \in reg /\ client[s] = "deregister"
      BY <1>2, <2>5 DEF Deregister, Inv, Protocol
    <3>2. \A t \in Subscribers : Pending(t)' = Pending(t)
      BY <1>2, <2>5 DEF Deregister, Pending, Inv, TypeOK
    <3>3. [t \in Subscribers |-> Pending(t)]' = [t \in Subscribers |-> Pending(t)]
      BY <3>2
    <3>4. Contract!Unsubscribe(s)
      BY <2>5, <3>1, <3>3 DEF Deregister, Contract!Unsubscribe
    <3>. QED  BY <3>4 DEF Contract!Next
  <2>6. ASSUME NEW s \in Subscribers,
               NewEndpointer(s) \/ Close(s) \/ CloseChannel(s) \/ ReceiveEnd(s)
        PROVE  UNCHANGED Contract!vars
    <3>1. UNCHANGED <<state, reg, view, todo, taken>>
      BY <2>6 DEF NewEndpointer, Close, CloseChannel, ReceiveEnd
    <3>2. \A t \in Subscribers :
            /\ rcv[t] = "handle" <=> rcv'[t] = "handle"
            /\ client[t] = "registering" <=> client'[t] = "registering"
      BY <1>2, <2>6 DEF NewEndpointer, Close, CloseChannel, ReceiveEnd, Inv, TypeOK, Protocol
    <3>3. \A t \in Subscribers : Pending(t)' = Pending(t)
      BY <3>1, <3>2 DEF Pending
    <3>. QED  BY <3>1, <3>3, StutterStep
  <2>7. CASE UpdateDone \/ UNCHANGED vars
    BY <2>7, StutterStep DEF UpdateDone, vars, Pending
  <2>. QED  BY <1>2, <2>1, <2>2, <2>3, <2>4, <2>5, <2>6, <2>7 DEF Next
<1>. QED  BY <1>1, <1>2, Invariance, PTL DEF Spec, Implements, Contract!Spec
=============================================================================
