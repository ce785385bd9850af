---------------------------- MODULE EtcdRegistrar ----------------------------
(***************************************************************************)
(* sd/etcd/registrar.go for a service with a TTL: Register sets the key    *)
(* and starts a goroutine that sets it again on every heartbeat, until     *)
(* Deregister closes r.quit.  One goroutine calls Register and Deregister, *)
(* in any order and as often as it likes.                                  *)
(*                                                                         *)
(* etcd is one bit, present.  Every call to it may fail, with or without   *)
(* its effect, and the key expires when it is not set again.  The select   *)
(* of the goroutine evaluates r.quit anew each time, without the mutex; on *)
(* a nil channel it only ever takes the ticker.                            *)
(***************************************************************************)
CONSTANTS
    Loops,      \* heartbeat goroutines that may exist at the same time
    Chans, Nil  \* channels made for r.quit, and Go's nil

VARIABLES
    locked,   \* quitmtx is held by a goroutine that has ended without unlocking it
    quit,     \* r.quit
    closed,   \* the channels that have been closed
    loop,     \* heartbeat goroutine -> where it is
    on,       \* heartbeat goroutine -> the channel its select waits on
    call,     \* where the caller is
    wanted,   \* history: the last call was Register
    present   \* etcd has the key

vars == <<locked, quit, closed, loop, on, call, wanted, present>>

Init ==
    /\ locked = FALSE
    /\ quit = Nil
    /\ closed = {}
    /\ loop = [g \in Loops |-> "off"]
    /\ on = [g \in Loops |-> Nil]
    /\ call = "idle"
    /\ wanted = FALSE
    /\ present = FALSE

LoopTo(g, from, to) == loop[g] = from /\ loop' = [loop EXCEPT ![g] = to]

-----------------------------------------------------------------------------
(* The caller. *)

\* client.Register, whose error is only logged, and go r.loop().
Register(g) ==
    /\ call = "idle"
    /\ LoopTo(g, "off", "start")
    /\ present' \in {present, TRUE}
    /\ wanted' = TRUE
    /\ UNCHANGED <<locked, quit, closed, on, call>>

\* client.Deregister, whose error is only logged.
Deregister ==
    /\ call = "idle"
    /\ call' = "quit"
    /\ present' \in {present, FALSE}
    /\ wanted' = FALSE
    /\ UNCHANGED <<locked, quit, closed, loop, on>>

\* The rest of Deregister, under the mutex.
DeregisterQuit ==
    /\ call = "quit"
    /\ ~locked
    /\ closed' = closed \cup ({quit} \ {Nil})
    /\ quit' = Nil
    /\ call' = "idle"
    /\ UNCHANGED <<locked, loop, on, wanted, present>>

-----------------------------------------------------------------------------
(* The heartbeat goroutine, and etcd. *)

\* "already running": the goroutine ends without unlocking the mutex.
LoopAlreadyRunning(g) ==
    /\ ~locked
    /\ quit # Nil
    /\ LoopTo(g, "start", "off")
    /\ locked' = TRUE
    /\ UNCHANGED <<quit, closed, on, call, wanted, present>>

LoopMake(g, c) ==
    /\ ~locked
    /\ quit = Nil
    /\ \A h \in Loops : on[h] # c
    /\ LoopTo(g, "start", "loop")
    /\ quit' = c
    /\ closed' = closed \ {c}
    /\ UNCHANGED <<locked, on, call, wanted, present>>

\* The select reads r.quit and waits.
Select(g) ==
    /\ LoopTo(g, "loop", "select")
    /\ on' = [on EXCEPT ![g] = quit]
    /\ UNCHANGED <<locked, quit, closed, call, wanted, present>>

Tick(g) ==
    /\ LoopTo(g, "select", "heartbeat")
    /\ on' = [on EXCEPT ![g] = Nil]
    /\ UNCHANGED <<locked, quit, closed, call, wanted, present>>

\* client.Register of a heartbeat.
HeartBeat(g) ==
    /\ LoopTo(g, "heartbeat", "loop")
    /\ present' \in {present, TRUE}
    /\ UNCHANGED <<locked, quit, closed, on, call, wanted>>

LoopQuit(g) ==
    /\ on[g] \in closed
    /\ LoopTo(g, "select", "off")
    /\ on' = [on EXCEPT ![g] = Nil]
    /\ UNCHANGED <<locked, quit, closed, call, wanted, present>>

Expire ==
    /\ present
    /\ present' = FALSE
    /\ UNCHANGED <<locked, quit, closed, loop, on, call, wanted>>

Next ==
    \/ Deregister \/ DeregisterQuit \/ Expire
    \/ \E g \in Loops :
          \/ Register(g) \/ LoopAlreadyRunning(g) \/ \E c \in Chans : LoopMake(g, c)
          \/ Select(g) \/ Tick(g) \/ HeartBeat(g) \/ LoopQuit(g)

\* Goroutines run, the ticker ticks, calls to etcd end and do not fail for
\* ever, the key expires, and a select does not forever prefer the ticker to a
\* closed channel.
Fairness ==
    /\ WF_vars(DeregisterQuit) /\ WF_vars(Expire)
    /\ \A g \in Loops :
          /\ WF_vars(LoopAlreadyRunning(g)) /\ WF_vars(\E c \in Chans : LoopMake(g, c))
          /\ WF_vars(Select(g)) /\ WF_vars(Tick(g)) /\ WF_vars(HeartBeat(g))
          /\ SF_vars(HeartBeat(g) /\ present') /\ SF_vars(LoopQuit(g))

Spec == Init /\ [][Next]_vars /\ Fairness

-----------------------------------------------------------------------------

\* "Call it when you want your service to be deregistered from etcd, typically
\* just prior to shutdown" (sd/etcd/registrar.go:105-106): if the last call is a
\* Deregister, and it returns, the key ends up gone for good.
DeregisterSticks == <>[](~wanted /\ call = "idle") => <>[]~present
=============================================================================
