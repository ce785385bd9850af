---------------------------- MODULE InstanceCache ----------------------------
(***************************************************************************)
(* sd/internal/instance/cache.go, the Instancer every discovery backend    *)
(* embeds, with the DefaultEndpointers of sd/endpointer.go that subscribe  *)
(* to it.  Channels are unbuffered, so a send is a rendezvous with the     *)
(* endpointer's receive goroutine, and the cache sends while it holds its  *)
(* mutex: a broadcast, a Register, a Deregister and the closing of a       *)
(* channel interleave only as the mutex and the rendezvous allow.          *)
(*                                                                         *)
(* What an event holds does not matter here, except that Update sorts it   *)
(* before comparing: SortOf maps an event to its sorted form.  Endpoint    *)
(* creation inside the receive goroutine (endpointCache.Update) is the     *)
(* step Handle; EndpointCache models what it does.                         *)
(***************************************************************************)
EXTENDS Sequences, Functions

CONSTANTS
    Subscribers,   \* the endpointers a program creates on the instancer
    Events,        \* the sd.Events the discovery loop may find
    ZeroEvent,     \* sd.Event{}, the state of a new cache
    SortOf,        \* event -> the event with its instances sorted
    Updater, None  \* the discovery loop as owner of the mutex; no owner

ASSUME EventsAssumption ==
    /\ ZeroEvent \in Events
    /\ SortOf \in [Events -> Events]
    /\ SortOf[ZeroEvent] = ZeroEvent
ASSUME OwnersAssumption == Updater # None /\ {Updater, None} \cap Subscribers = {}

VARIABLES
    mtx,     \* c.mtx: its owner
    state,   \* c.state
    reg,     \* c.reg: the registered channels
    todo,    \* the channels the running broadcast has still to send to
    client,  \* subscriber -> where the goroutine that owns the endpointer is
    rcv,     \* subscriber -> where its receive goroutine is
    taken,   \* subscriber -> the last event taken from the channel
    view     \* subscriber -> the last event applied to its endpoint cache

vars == <<mtx, state, reg, todo, client, rcv, taken, view>>

\* An endpointer's owner: before NewEndpointer, waiting for and inside
\* Register, using the endpointer, in Close before and after Deregister, done.
ClientPoints == {"new", "register", "registering", "open", "deregister", "close", "closed"}
RcvPoints == {"none", "recv", "handle", "done"}

\* The channel has been closed.
Closed(s) == client[s] = "closed"

Init ==
    /\ mtx = None
    /\ state = ZeroEvent
    /\ reg = {}
    /\ todo = {}
    /\ client = [s \in Subscribers |-> "new"]
    /\ rcv = [s \in Subscribers |-> "none"]
    /\ taken = [s \in Subscribers |-> ZeroEvent]
    /\ view = [s \in Subscribers |-> ZeroEvent]

-----------------------------------------------------------------------------

\* Mutant: an event equal to the state is broadcast again.
UpdateAlways(e) ==
    /\ mtx = None
    /\ mtx' = Updater
    /\ state' = SortOf[e]
    /\ todo' = reg
    /\ UNCHANGED <<reg, client, rcv, taken, view>>

\* Cache.Update up to the broadcast: an event equal to the state is dropped.
Update(e) ==
    /\ mtx = None
    /\ SortOf[e] # state
    /\ mtx' = Updater
    /\ state' = SortOf[e]
    /\ todo' = reg
    /\ UNCHANGED <<reg, client, rcv, taken, view>>

\* The rendezvous of a send of the current state with the receive goroutine.
Send(s) ==
    /\ rcv[s] = "recv"
    /\ rcv' = [rcv EXCEPT ![s] = "handle"]
    /\ taken' = [taken EXCEPT ![s] = state]

\* Mutant: the send gives up when the receiver is busy.
BroadcastOrSkip(s) ==
    /\ mtx = Updater
    /\ s \in todo
    /\ IF rcv[s] = "recv" THEN Send(s) ELSE UNCHANGED <<rcv, taken>>
    /\ todo' = todo \ {s}
    /\ UNCHANGED <<mtx, state, reg, client, view>>

\* One iteration of registry.broadcast, in any order of the map.
BroadcastTo(s) ==
    /\ mtx = Updater
    /\ s \in todo
    /\ Send(s)
    /\ todo' = todo \ {s}
    /\ UNCHANGED <<mtx, state, reg, client, view>>

\* The deferred Unlock of Update.
UpdateDone ==
    /\ mtx = Updater
    /\ todo = {}
    /\ mtx' = None
    /\ UNCHANGED <<state, reg, todo, client, rcv, taken, view>>

\* NewEndpointer up to the call of Register: the receive goroutine is started.
NewEndpointer(s) ==
    /\ client[s] = "new"
    /\ client' = [client EXCEPT ![s] = "register"]
    /\ rcv' = [rcv EXCEPT ![s] = "recv"]
    /\ UNCHANGED <<mtx, state, reg, todo, taken, view>>

\* Cache.Register: under the lock, add the channel and push the current state.
RegisterLock(s) ==
    /\ client[s] = "register"
    /\ mtx = None
    /\ mtx' = s
    /\ reg' = reg \cup {s}
    /\ client' = [client EXCEPT ![s] = "registering"]
    /\ UNCHANGED <<state, todo, rcv, taken, view>>

\* Mutant: Register returns without unlocking.
RegisterSendLocked(s) ==
    /\ client[s] = "registering"
    /\ Send(s)
    /\ client' = [client EXCEPT ![s] = "open"]
    /\ UNCHANGED <<mtx, state, reg, todo, view>>

RegisterSend(s) ==
    /\ client[s] = "registering"
    /\ Send(s)
    /\ mtx' = None
    /\ client' = [client EXCEPT ![s] = "open"]
    /\ UNCHANGED <<state, reg, todo, view>>

\* DefaultEndpointer.Close is called.
Close(s) ==
    /\ client[s] = "open"
    /\ client' = [client EXCEPT ![s] = "deregister"]
    /\ UNCHANGED <<mtx, state, reg, todo, rcv, taken, view>>

\* Mutant: Deregister does not take the lock.
DeregisterUnlocked(s) ==
    /\ client[s] = "deregister"
    /\ reg' = reg \ {s}
    /\ client' = [client EXCEPT ![s] = "close"]
    /\ UNCHANGED <<mtx, state, todo, rcv, taken, view>>

\* Cache.Deregister, called by Close.
Deregister(s) ==
    /\ client[s] = "deregister"
    /\ mtx = None
    /\ reg' = reg \ {s}
    /\ client' = [client EXCEPT ![s] = "close"]
    /\ UNCHANGED <<mtx, state, todo, rcv, taken, view>>

\* close(de.ch)
CloseChannel(s) ==
    /\ client[s] = "close"
    /\ client' = [client EXCEPT ![s] = "closed"]
    /\ UNCHANGED <<mtx, state, reg, todo, rcv, taken, view>>

\* receive: the body of the loop, de.cache.Update(event).
Handle(s) ==
    /\ rcv[s] = "handle"
    /\ rcv' = [rcv EXCEPT ![s] = "recv"]
    /\ view' = [view EXCEPT ![s] = taken[s]]
    /\ UNCHANGED <<mtx, state, reg, todo, client, taken>>

\* receive: the channel is closed and the goroutine ends.
ReceiveEnd(s) ==
    /\ rcv[s] = "recv"
    /\ Closed(s)
    /\ rcv' = [rcv EXCEPT ![s] = "done"]
    /\ UNCHANGED <<mtx, state, reg, todo, client, taken, view>>

Next ==
    \/ \E e \in Events : Update(e)
    \/ UpdateDone
    \/ \E s \in Subscribers :
          \/ BroadcastTo(s)
          \/ NewEndpointer(s) \/ RegisterLock(s) \/ RegisterSend(s)
          \/ Close(s) \/ Deregister(s) \/ CloseChannel(s)
          \/ Handle(s) \/ ReceiveEnd(s)

\* Goroutines that can run do run.  A goroutine waiting for the mutex gets it
\* although others keep taking it: sync.Mutex hands over to a waiter that has
\* starved for 1ms.  That Handle ends assumes a Factory that returns.
Fairness ==
    /\ WF_vars(UpdateDone)
    /\ \A s \in Subscribers :
          /\ WF_vars(BroadcastTo(s)) /\ WF_vars(RegisterSend(s))
          /\ WF_vars(CloseChannel(s)) /\ WF_vars(Handle(s)) /\ WF_vars(ReceiveEnd(s))
          /\ SF_vars(RegisterLock(s)) /\ SF_vars(Deregister(s))

Spec == Init /\ [][Next]_vars /\ Fairness

-----------------------------------------------------------------------------

TypeOK ==
    /\ mtx \in Subscribers \cup {Updater, None}
    /\ state \in Events
    /\ reg \subseteq Subscribers /\ todo \subseteq reg
    /\ client \in [Subscribers -> ClientPoints]
    /\ rcv \in [Subscribers -> RcvPoints]
    /\ taken \in [Subscribers -> Events]
    /\ view \in [Subscribers -> Events]

\* A send always has a live channel to go to: no goroutine sends on a channel
\* that Close has closed (a panic), or to one whose receive goroutine has not
\* been started or has ended (a send that never returns, with the lock held).
SendsHaveReceivers ==
    \A s \in Subscribers :
        s \in todo \/ client[s] = "registering" => ~Closed(s) /\ rcv[s] \in {"recv", "handle"}

\* Whoever is registered while the lock is free has been sent the current state,
\* and is at most one call of endpointCache.Update away from having applied it.
NobodyLeftBehind ==
    mtx = None => \A s \in reg : taken[s] = state /\ (rcv[s] = "recv" => view[s] = state)

\* The contract of an Instancer: every subscriber acts on every change since it
\* registered, each once and in order (sd/instancer.go:17-26).
Pending(s) ==
    (IF rcv[s] = "handle" THEN <<taken[s]>> ELSE <<>>)
      \o (IF s \in todo \/ client[s] = "registering" THEN <<state>> ELSE <<>>)
Contract == INSTANCE InstancerContract
    WITH current <- state, subs <- reg, pending <- [s \in Subscribers |-> Pending(s)]
Implements == Contract!Spec

\* Close returns although a broadcast may be waiting to send to this very
\* endpointer, and its goroutine ends ("stops the internal go-routine",
\* sd/endpointer.go:81).
CloseEnds ==
    \A s \in Subscribers : client[s] = "deregister" ~> (Closed(s) /\ rcv[s] = "done")

\* Every change reaches every open endpointer, even if discovery goes on
\* publishing and other endpointers come and go.
EveryChangeArrives ==
    \A s \in Subscribers, e \in Events :
        (client[s] = "open" /\ state = e) ~> (view[s] = e \/ client[s] # "open")
=============================================================================
