----------------------------- MODULE ConnManager -----------------------------
(***************************************************************************)
(* util/conn/manager.go: one goroutine owns a connection, lends it to      *)
(* writers and replaces it when one of them reports an error, dialling in  *)
(* a goroutine of its own and backing off while dials fail.                *)
(*                                                                         *)
(* takec and putc are unbuffered, so Take and Put are rendezvous with the  *)
(* loop; connc has room for one.  A connection is a member of Conns and is *)
(* open from its dial until the manager closes it.  A timer is armed or    *)
(* nil; when it fires is not modelled, only that it does.                  *)
(***************************************************************************)
EXTENDS Integers, Sequences, Functions

CONSTANTS
    Conns, Nil,    \* connections, and Go's nil
    Writers,       \* goroutines calling Write
    Dialers,       \* dial goroutines that may run at the same time
    MaxBackoff     \* time.Minute, in units of time.Second

ASSUME NilAssumption == Nil \notin Conns
ASSUME BackoffAssumption == MaxBackoff \in Nat \ {0}

VARIABLES
    lpc,         \* the loop: "dial" until the first dial has ended, then "loop"
    conn,        \* conn
    connc,       \* connc's buffer
    reconnectc,  \* "nil" or "armed"
    backoff,     \* backoff
    dpc,         \* dial goroutine -> "idle", "dialing" or "dialed"
    dialed,      \* dial goroutine -> what it dialled
    wpc,         \* writer -> "idle", "take", "write" or "put"
    got,         \* writer -> the connection it took
    failed,      \* writer -> its Write failed
    open,        \* the open connections
    raced        \* history: an error was Put while connc held a connection

loopVars == <<lpc, conn, connc, reconnectc, backoff>>
dialVars == <<dpc, dialed>>
writeVars == <<wpc, got, failed>>
vars == <<loopVars, dialVars, writeVars, open, raced>>

\* The connections somebody can still reach.
InUse == {conn} \cup Range(connc) \cup {dialed[d] : d \in Dialers} \cup {got[w] : w \in Writers}

\* dial: a new connection, or nil on an error.
Dial(c) ==
    \/ c = Nil /\ UNCHANGED open
    \/ c \in Conns \ (open \cup InUse) /\ open' = open \cup {c}

Init ==
    /\ lpc = "dial"
    /\ conn = Nil
    /\ connc = <<>>
    /\ reconnectc = "nil"
    /\ backoff = 1
    /\ dpc = [d \in Dialers |-> "idle"]
    /\ dialed = [d \in Dialers |-> Nil]
    /\ wpc = [w \in Writers |-> "idle"]
    /\ got = [w \in Writers |-> Nil]
    /\ failed = [w \in Writers |-> FALSE]
    /\ open = {}
    /\ raced = FALSE

-----------------------------------------------------------------------------
(* The loop. *)

\* The first dial, whose result is kept in conn and sent to connc as well.
FirstDial(c) ==
    /\ lpc = "dial"
    /\ Dial(c)
    /\ lpc' = "loop"
    /\ conn' = c
    /\ connc' = <<c>>
    /\ UNCHANGED <<reconnectc, backoff, dialVars, writeVars, raced>>

\* Mutant: the timer is not one-shot.
ReconnectAgain(d) ==
    /\ reconnectc = "armed"
    /\ dpc[d] = "idle"
    /\ dpc' = [dpc EXCEPT ![d] = "dialing"]
    /\ UNCHANGED <<loopVars, dialed, writeVars, open, raced>>

\* case <-reconnectc: start a dial.
Reconnect(d) ==
    /\ reconnectc = "armed"
    /\ dpc[d] = "idle"
    /\ reconnectc' = "nil"
    /\ dpc' = [dpc EXCEPT ![d] = "dialing"]
    /\ UNCHANGED <<lpc, conn, connc, backoff, dialed, writeVars, open, raced>>

\* Mutants: no limit; +/- 100% instead of +/- 50%.
ExponentialUnlimited(b) == b..(3 * b - 1)
ExponentialFullJitter(b) == {IF x > MaxBackoff THEN MaxBackoff ELSE x : x \in 1..(4 * b - 1)}

\* Exponential: twice as long, times a factor in [0.5, 1.5), at most a minute.
Exponential(b) == {IF x > MaxBackoff THEN MaxBackoff ELSE x : x \in b..(3 * b - 1)}

\* Mutant: a failed dial is not tried again.
ConnFailedForGood ==
    /\ lpc = "loop"
    /\ connc = <<Nil>>
    /\ connc' = <<>>
    /\ conn' = Nil
    /\ backoff' \in Exponential(backoff)
    /\ UNCHANGED <<lpc, reconnectc, dialVars, writeVars, open, raced>>

\* case conn = <-connc, a failed dial: wait longer, then try again.
ConnFailed ==
    /\ lpc = "loop"
    /\ connc = <<Nil>>
    /\ connc' = <<>>
    /\ conn' = Nil
    /\ backoff' \in Exponential(backoff)
    /\ reconnectc' = "armed"
    /\ UNCHANGED <<lpc, dialVars, writeVars, open, raced>>

\* case conn = <-connc, a connection.
ConnArrives ==
    /\ lpc = "loop"
    /\ connc # <<>> /\ connc # <<Nil>>
    /\ connc' = <<>>
    /\ conn' = Head(connc)
    /\ backoff' = 1
    /\ reconnectc' = "nil"
    /\ UNCHANGED <<lpc, dialVars, writeVars, open, raced>>

\* case m.takec <- conn; Write gives up at once on a nil connection.
Take(w) ==
    /\ lpc = "loop"
    /\ wpc[w] = "take"
    /\ got' = [got EXCEPT ![w] = conn]
    /\ wpc' = [wpc EXCEPT ![w] = IF conn = Nil THEN "idle" ELSE "write"]
    /\ UNCHANGED <<failed, loopVars, dialVars, open, raced>>

\* Mutant: errors are only listened to while there is a connection.
PutWhileConnected(w) ==
    /\ lpc = "loop"
    /\ wpc[w] = "put"
    /\ conn # Nil
    /\ IF failed[w]
       THEN open' = open \ {conn} /\ conn' = Nil /\ reconnectc' = "armed" /\ raced' = (raced \/ connc # <<>>)
       ELSE UNCHANGED <<open, conn, reconnectc, raced>>
    /\ wpc' = [wpc EXCEPT ![w] = "idle"]
    /\ got' = [got EXCEPT ![w] = Nil]
    /\ failed' = [failed EXCEPT ![w] = FALSE]
    /\ UNCHANGED <<lpc, connc, backoff, dialVars>>

\* case err := <-m.putc
Put(w) ==
    /\ lpc = "loop"
    /\ wpc[w] = "put"
    /\ IF failed[w] /\ conn # Nil
       THEN /\ open' = open \ {conn}
            /\ conn' = Nil
            /\ reconnectc' = "armed"
            /\ raced' = (raced \/ connc # <<>>)
       ELSE UNCHANGED <<open, conn, reconnectc, raced>>
    /\ wpc' = [wpc EXCEPT ![w] = "idle"]
    /\ got' = [got EXCEPT ![w] = Nil]
    /\ failed' = [failed EXCEPT ![w] = FALSE]
    /\ UNCHANGED <<lpc, connc, backoff, dialVars>>

-----------------------------------------------------------------------------
(* The dial goroutines and the writers. *)

DialEnds(d, c) ==
    /\ dpc[d] = "dialing"
    /\ Dial(c)
    /\ dpc' = [dpc EXCEPT ![d] = "dialed"]
    /\ dialed' = [dialed EXCEPT ![d] = c]
    /\ UNCHANGED <<loopVars, writeVars, raced>>

\* connc <- dial(...), which waits while the buffer is full.
SendConn(d) ==
    /\ dpc[d] = "dialed"
    /\ connc = <<>>
    /\ connc' = <<dialed[d]>>
    /\ dpc' = [dpc EXCEPT ![d] = "idle"]
    /\ dialed' = [dialed EXCEPT ![d] = Nil]
    /\ UNCHANGED <<lpc, conn, reconnectc, backoff, writeVars, open, raced>>

\* Write is called.
Write(w) ==
    /\ wpc[w] = "idle"
    /\ wpc' = [wpc EXCEPT ![w] = "take"]
    /\ UNCHANGED <<got, failed, loopVars, dialVars, open, raced>>

\* conn.Write: it may always fail, and does on a connection closed meanwhile.
Written(w) ==
    /\ wpc[w] = "write"
    /\ \E err \in BOOLEAN : (got[w] \notin open => err) /\ failed' = [failed EXCEPT ![w] = err]
    /\ wpc' = [wpc EXCEPT ![w] = "put"]
    /\ UNCHANGED <<got, loopVars, dialVars, open, raced>>

Next ==
    \/ \E c \in Conns \cup {Nil} : FirstDial(c)
    \/ ConnFailed \/ ConnArrives
    \/ \E d \in Dialers :
          Reconnect(d) \/ SendConn(d) \/ \E c \in Conns \cup {Nil} : DialEnds(d, c)
    \/ \E w \in Writers : Write(w) \/ Take(w) \/ Written(w) \/ Put(w)

\* The loop serves whatever case stays ready, timers fire, dials and writes
\* end.  Dialling again and again succeeds in the end: what the remote side
\* does, not the manager.
Fairness ==
    /\ WF_vars(\E c \in Conns \cup {Nil} : FirstDial(c))
    /\ WF_vars(ConnFailed) /\ WF_vars(ConnArrives)
    /\ WF_vars(\E d \in Dialers : Reconnect(d))
    /\ \A d \in Dialers :
          /\ WF_vars(\E c \in Conns \cup {Nil} : DialEnds(d, c))
          /\ WF_vars(SendConn(d))
    /\ SF_vars(\E d \in Dialers, c \in Conns : DialEnds(d, c))
    /\ \A w \in Writers : WF_vars(Take(w)) /\ WF_vars(Written(w)) /\ WF_vars(Put(w))

Spec == Init /\ [][Next]_vars /\ Fairness

-----------------------------------------------------------------------------

TypeOK ==
    /\ lpc \in {"dial", "loop"}
    /\ conn \in Conns \cup {Nil}
    /\ connc \in {<<>>} \cup {<<c>> : c \in Conns \cup {Nil}}
    /\ reconnectc \in {"nil", "armed"}
    /\ backoff \in 1..MaxBackoff
    /\ dpc \in [Dialers -> {"idle", "dialing", "dialed"}]
    /\ dialed \in [Dialers -> Conns \cup {Nil}]
    /\ wpc \in [Writers -> {"idle", "take", "write", "put"}]
    /\ got \in [Writers -> Conns \cup {Nil}]
    /\ failed \in [Writers -> BOOLEAN]
    /\ open \subseteq Conns
    /\ raced \in BOOLEAN

\* What will give the loop its next connection: a timer, a dial, a full connc.
Dialling == {d \in Dialers : dpc[d] # "idle"}

\* The manager never forgets that it has no connection: something that ends in
\* another one is under way.
NeverStranded == lpc = "loop" /\ conn = Nil => reconnectc = "armed" \/ Dialling # {} \/ connc # <<>>

\* It never has two of those under way (two dials would leave one connection
\* behind), none while it has a connection, and every open connection is one
\* it still holds; except after the start-up race that CurrentIsOpen is about.
OneAtATime ==
    ~raced /\ lpc = "loop" =>
        /\ reconnectc = "armed" => Dialling = {} /\ connc = <<>>
        /\ \A d \in Dialling : Dialling = {d} /\ connc = <<>>
        /\ conn # Nil => reconnectc = "nil" /\ Dialling = {} /\ connc \in {<<>>, <<conn>>}
        /\ open = ({conn} \cup Range(connc) \cup {dialed[d] : d \in Dialers}) \ {Nil}

\* "retried after an exponential backoff" (util/conn/manager.go:25): while dials
\* fail the wait never shrinks, and only a connection resets it.
BackoffGrows == [][backoff' < backoff => conn' # Nil /\ connc # <<>>]_vars

\* Every Write returns.
WriteReturns == \A w \in Writers : wpc[w] = "take" ~> wpc[w] = "idle"

\* "a new connection is established" (util/conn/manager.go:24).
Reconnects == (lpc = "loop" /\ conn = Nil) ~> conn # Nil

\* "When a non-nil error is Put, the connection is invalidated, and a new
\* connection is established" (util/conn/manager.go:23-24): the connection the
\* manager lends is never one it has closed.
CurrentIsOpen == conn # Nil => conn \in open
=============================================================================
