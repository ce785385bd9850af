--------------------------- MODULE EurekaRegistrar ---------------------------
(***************************************************************************)
(* sd/eureka/registrar.go: Register starts a heartbeat goroutine, and      *)
(* Deregister hands it a channel q through the unbuffered quitc and waits  *)
(* until the goroutine has deregistered the instance and closed q.  Both   *)
(* hold the registrar's mutex throughout.  Any number of goroutines may    *)
(* call them.                                                              *)
(*                                                                         *)
(* The Eureka server is one bit, registered: whether it lists the          *)
(* instance.  Every call to it may fail, with or without its effect, and   *)
(* the server may drop the instance when its lease expires.                *)
(***************************************************************************)
CONSTANTS
    Callers,   \* goroutines calling Register and Deregister
    Loops,     \* heartbeat goroutines that may exist at the same time
    None       \* no owner of the mutex

ASSUME NoneAssumption == None \notin Callers

VARIABLES
    mtx,         \* the registrar's mutex: its owner
    quitc,       \* r.quitc # nil
    call,        \* caller -> where its call is
    loop,        \* heartbeat goroutine -> where it is
    registered   \* the server lists the instance

vars == <<mtx, quitc, call, loop, registered>>

Init ==
    /\ mtx = None
    /\ quitc = FALSE
    /\ call = [k \in Callers |-> "idle"]
    /\ loop = [g \in Loops |-> "off"]
    /\ registered = FALSE

CallTo(k, from, to) == call[k] = from /\ call' = [call EXCEPT ![k] = to]
LoopTo(g, from, to) == loop[g] = from /\ loop' = [loop EXCEPT ![g] = to]

-----------------------------------------------------------------------------
(* Register and Deregister. *)

Call(k) ==
    /\ \E op \in {"register", "deregister"} : CallTo(k, "idle", op)
    /\ UNCHANGED <<mtx, quitc, loop, registered>>

\* Register or Deregister with nothing to do.
CallAlready(k) ==
    /\ mtx = None
    /\ CallTo(k, IF quitc THEN "register" ELSE "deregister", "idle")
    /\ UNCHANGED <<mtx, quitc, loop, registered>>

\* Mutant: Register does not look whether the goroutine is already there.
RegisterLockAgain(k) ==
    /\ mtx = None
    /\ CallTo(k, "register", "registering")
    /\ mtx' = k
    /\ UNCHANGED <<quitc, loop, registered>>

RegisterLock(k) ==
    /\ mtx = None
    /\ ~quitc
    /\ CallTo(k, "register", "registering")
    /\ mtx' = k
    /\ UNCHANGED <<quitc, loop, registered>>

\* RegisterInstance, whose error is only logged; then the goroutine is started.
RegisterInstance(k, g) ==
    /\ CallTo(k, "registering", "idle")
    /\ registered' \in {registered, TRUE}
    /\ quitc' = TRUE
    /\ LoopTo(g, "off", "select")
    /\ mtx' = None

\* Mutant: Deregister does not wait for the goroutine.
DeregisterLockAndGo(k) ==
    /\ mtx = None
    /\ quitc
    /\ CallTo(k, "deregister", "closed")
    /\ mtx' = k
    /\ UNCHANGED <<quitc, loop, registered>>

DeregisterLock(k) ==
    /\ mtx = None
    /\ quitc
    /\ CallTo(k, "deregister", "sending")
    /\ mtx' = k
    /\ UNCHANGED <<quitc, loop, registered>>

\* r.quitc <- q meets the goroutine in its select.
HandOver(k, g) ==
    /\ CallTo(k, "sending", "waiting")
    /\ LoopTo(g, "select", "quitting")
    /\ UNCHANGED <<mtx, quitc, registered>>

\* Mutant: after an error the goroutine returns without closing q.
DeregisterInstanceNoClose(k, g) ==
    /\ LoopTo(g, "quitting", "off")
    /\ call[k] = "waiting"
    /\ \/ registered' = FALSE /\ call' = [call EXCEPT ![k] = "closed"]
       \/ UNCHANGED <<registered, call>>
    /\ UNCHANGED <<mtx, quitc>>

\* DeregisterInstance and close(q); the goroutine ends.
DeregisterInstance(k, g) ==
    /\ CallTo(k, "waiting", "closed")
    /\ LoopTo(g, "quitting", "off")
    /\ registered' \in {registered, FALSE}
    /\ UNCHANGED <<mtx, quitc>>

\* Mutant: Deregister returns without unlocking.
DeregisterDoneLocked(k) ==
    /\ CallTo(k, "closed", "idle")
    /\ quitc' = FALSE
    /\ UNCHANGED <<mtx, loop, registered>>

\* <-q, r.quitc = nil and the deferred Unlock.
DeregisterDone(k) ==
    /\ CallTo(k, "closed", "idle")
    /\ quitc' = FALSE
    /\ mtx' = None
    /\ UNCHANGED <<loop, registered>>

-----------------------------------------------------------------------------
(* The heartbeat goroutine, and the server. *)

Tick(g) ==
    /\ LoopTo(g, "select", "heartbeat")
    /\ UNCHANGED <<mtx, quitc, call, registered>>

\* HeartBeatInstance: fine, or an error that is only logged.
HeartBeat(g) ==
    /\ LoopTo(g, "heartbeat", "select")
    /\ UNCHANGED <<mtx, quitc, call, registered>>

\* Mutant: "not found" is an error like the others.
HeartBeatNotFoundLogged(g) ==
    /\ ~registered
    /\ LoopTo(g, "heartbeat", "select")
    /\ UNCHANGED <<mtx, quitc, call, registered>>

\* HeartBeatInstance answers "not found".
HeartBeatNotFound(g) ==
    /\ ~registered
    /\ LoopTo(g, "heartbeat", "reregister")
    /\ UNCHANGED <<mtx, quitc, call, registered>>

ReregisterInstance(g) ==
    /\ LoopTo(g, "reregister", "select")
    /\ registered' \in {registered, TRUE}
    /\ UNCHANGED <<mtx, quitc, call>>

LeaseExpires ==
    /\ registered
    /\ registered' = FALSE
    /\ UNCHANGED <<mtx, quitc, call, loop>>

Next ==
    \/ \E k \in Callers :
          \/ Call(k) \/ CallAlready(k) \/ RegisterLock(k) \/ DeregisterLock(k) \/ DeregisterDone(k)
          \/ \E g \in Loops : RegisterInstance(k, g) \/ HandOver(k, g) \/ DeregisterInstance(k, g)
    \/ \E g \in Loops : Tick(g) \/ HeartBeat(g) \/ HeartBeatNotFound(g) \/ ReregisterInstance(g)
    \/ LeaseExpires

\* Goroutines run and calls to the server end.  The mutex does not starve a
\* waiter, the select does not forever prefer the ticker, and heartbeats and
\* re-registrations that are repeated for ever are not answered with an error
\* for ever.
Fairness ==
    /\ \A k \in Callers :
          /\ SF_vars(CallAlready(k)) /\ SF_vars(RegisterLock(k)) /\ SF_vars(DeregisterLock(k))
          /\ WF_vars(DeregisterDone(k))
          /\ \A g \in Loops :
                /\ WF_vars(RegisterInstance(k, g)) /\ WF_vars(DeregisterInstance(k, g))
                /\ SF_vars(HandOver(k, g))
    /\ \A g \in Loops :
          /\ WF_vars(Tick(g)) /\ WF_vars(HeartBeat(g)) /\ SF_vars(HeartBeatNotFound(g))
          /\ WF_vars(ReregisterInstance(g)) /\ SF_vars(ReregisterInstance(g) /\ registered')

Spec == Init /\ [][Next]_vars /\ Fairness

-----------------------------------------------------------------------------

TypeOK ==
    /\ mtx \in Callers \cup {None}
    /\ quitc \in BOOLEAN
    /\ call \in [Callers -> {"idle", "register", "registering",
                             "deregister", "sending", "waiting", "closed"}]
    /\ loop \in [Loops -> {"off", "select", "heartbeat", "reregister", "quitting"}]
    /\ registered \in BOOLEAN

Running == {g \in Loops : loop[g] # "off"}

\* However Register and Deregister calls overlap, there is one heartbeat
\* goroutine while the registrar counts as registered and none otherwise.
OneLoop ==
    /\ \A g, h \in Running : g = h
    /\ mtx = None => (quitc <=> Running # {})

\* After Deregister has returned nothing puts the instance back, not even a
\* heartbeat that was under way when it was called, until Register is called.
DeregisterSticks == [][mtx = None /\ ~quitc => (registered' => registered)]_vars

\* Deregister never waits for nobody: its send on quitc has a goroutine that
\* will come to its select, and the channel it then waits for has a goroutine
\* that will close it, whatever errors the server's answers have been
\* (sd/eureka/registrar.go:76-113).
DeregisterIsServed ==
    \A k \in Callers :
        /\ call[k] = "sending" => \E g \in Loops : loop[g] \in {"select", "heartbeat", "reregister"}
        /\ call[k] = "waiting" => \E g \in Loops : loop[g] = "quitting"

\* Register and Deregister return.
CallsReturn == \A k \in Callers : call[k] # "idle" ~> call[k] = "idle"

\* "Instance expired (e.g. network partition). Re-register."
\* (sd/eureka/registrar.go:139): a registered instance the server has dropped
\* comes back.
ComesBack == (quitc /\ ~registered) ~> (registered \/ ~quitc)
=============================================================================
