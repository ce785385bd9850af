-------------------------- MODULE InstancerContract --------------------------
(***************************************************************************)
(* What an sd.Instancer promises the channels registered with it           *)
(* (sd/instancer.go): a channel gets the current event when it registers   *)
(* and afterwards every change, each once and in order, until it is        *)
(* deregistered.                                                           *)
(***************************************************************************)
EXTENDS Sequences

CONSTANTS Subscribers, Events, ZeroEvent

VARIABLES
    current,   \* the event a new subscriber would get
    subs,      \* the registered subscribers
    pending,   \* subscriber -> events sent and not yet acted upon
    view       \* subscriber -> the last event acted upon

vars == <<current, subs, pending, view>>

Init ==
    /\ current = ZeroEvent
    /\ subs = {}
    /\ pending = [s \in Subscribers |-> <<>>]
    /\ view = [s \in Subscribers |-> ZeroEvent]

\* A change of the instances, or an error, is sent to every subscriber.
Publish(e) ==
    /\ e # current
    /\ current' = e
    /\ pending' = [s \in Subscribers |-> IF s \in subs THEN Append(pending[s], e) ELSE pending[s]]
    /\ UNCHANGED <<subs, view>>

\* A new subscriber is sent the current event.
Subscribe(s) ==
    /\ s \notin subs
    /\ pending[s] = <<>>
    /\ subs' = subs \cup {s}
    /\ pending' = [pending EXCEPT ![s] = <<current>>]
    /\ UNCHANGED <<current, view>>

\* A subscriber acts upon its oldest event.
Apply(s) ==
    /\ pending[s] # <<>>
    /\ view' = [view EXCEPT ![s] = Head(pending[s])]
    /\ pending' = [pending EXCEPT ![s] = Tail(@)]
    /\ UNCHANGED <<current, subs>>

Unsubscribe(s) ==
    /\ s \in subs
    /\ subs' = subs \ {s}
    /\ UNCHANGED <<current, pending, view>>

Next ==
    \/ \E e \in Events : Publish(e)
    \/ \E s \in Subscribers : Subscribe(s) \/ Apply(s) \/ Unsubscribe(s)

Spec == Init /\ [][Next]_vars
=============================================================================
