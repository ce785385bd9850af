---------------------------- MODULE EtcdInstancer ----------------------------
(* sd/etcd and sd/etcdv3: the loop waits for signals of the goroutine that   *)
(* runs the client's WatchPrefix, and reads the entries at each. The two     *)
(* clients differ in when the server starts to watch: etcd's first Next      *)
(* comes after the first signal, etcdv3's Watch before it. An etcdv3 client  *)
(* keeps the watcher in a field that Register and Deregister close.          *)
EXTENDS DiscoveryBackend

VARIABLES watch,    \* point of the WatchPrefix goroutine
          events,   \* changes the server has for the watch, not yet returned
          gap,      \* etcd's first Next came too late for a change that no read
                    \* has seen yet (history)
          closed    \* the etcdv3 client has closed this watcher

etcdVars == <<watch, events, gap, closed>>

Etcds == {"etcd", "etcdv3"}

EtcdTypeOK ==
  /\ watch \in {"none", "create", "sentinel", "opening", "next", "signal", "ended"}
  /\ events \in 0 .. MaxChanges
  /\ gap \in BOOLEAN /\ closed \in BOOLEAN

EtcdInit == watch = "none" /\ events = 0 /\ gap = FALSE /\ closed = FALSE

(* Whether the server notes a change for this watch. One that comes between  *)
(* etcd's first signal and its first Next is seen by the read of that signal *)
(* if the read is still to come, and otherwise missed until the next one.    *)
Watching ==
  /\ ~closed
  /\ watch \in {"next", "signal"} \/ (kind = "etcdv3" /\ watch = "sentinel")

EtcdSeesChange ==
  /\ events' = IF Watching THEN events + 1 ELSE events
  /\ gap' = (gap \/ (kind = "etcd" /\ watch = "opening" /\ pc # "read"))
  /\ UNCHANGED <<watch, closed>>

(* NewInstancer and the loop read the entries ...                            *)
EtcdRead ==
  /\ \E k \in Etcds : Go(k, "new", "get") \/ Go(k, "read", "push")
  /\ got' = ReadResult
  /\ gap' = FALSE
  /\ UNCHANGED <<watch, events, closed>>

(* ... and push them, or the error. The constructor then starts the loop,    *)
(* which starts WatchPrefix.                                                 *)
EtcdPushFirst ==
  /\ \E k \in Etcds : Push(k, "get", "select", got)
  /\ watch' = IF kind = "etcd" THEN "sentinel" ELSE "create"
  /\ UNCHANGED <<got, events, gap, closed>>

EtcdPush ==
  /\ \E k \in Etcds : Push(k, "push", "select", got)
  /\ UNCHANGED <<got, etcdVars>>

(* WatchPrefix sends on an unbuffered channel, so only to a loop that is in  *)
(* its select: first the signal that makes the loop read, then one for each  *)
(* event. Mutant: etcdv3's sends the first before it has made its watch.     *)
SignalBeforeWatch ==
  /\ watch \in {"sentinel", "signal"}
  /\ \E k \in Etcds : Go(k, "select", "read")
  /\ watch' = IF watch = "sentinel" THEN "opening" ELSE "next"
  /\ UNCHANGED <<got, events, gap, closed>>

Signal ==
  /\ watch \in {"sentinel", "signal"}
  /\ \E k \in Etcds : Go(k, "select", "read")
  /\ watch' = IF kind = "etcd" /\ watch = "sentinel" THEN "opening" ELSE "next"
  /\ UNCHANGED <<got, events, gap, closed>>

(* etcdv3's Watch returns once the server has the watch; etcd's first Next   *)
(* reaches the server some time after the first signal.                      *)
WatchOpens ==
  /\ mode # "down"
  /\ \/ watch = "create" /\ watch' = "sentinel"
     \/ watch = "opening" /\ watch' = "next"
  /\ UNCHANGED <<sharedVars, events, gap, closed>>

NextReturns ==
  /\ watch = "next" /\ events > 0
  /\ events' = events - 1
  /\ watch' = "signal"
  /\ UNCHANGED <<sharedVars, gap, closed>>

(* Next returns an error, or the watch is cancelled or closed: WatchPrefix   *)
(* returns, and nobody calls it again.                                       *)
WatchPrefixReturns ==
  /\ \/ kind = "etcd" /\ watch \in {"opening", "next"} /\ mode = "down"
     \/ kind = "etcdv3" /\ watch = "next" /\ (closed \/ mode = "odd")
  /\ watch' = "ended"
  /\ UNCHANGED <<sharedVars, events, gap, closed>>

EtcdQuit ==
  /\ stop = "returned"
  /\ \E k \in Etcds : Go(k, "select", "ended")
  /\ UNCHANGED <<got, etcdVars>>

(* The clients' Register and Deregister. etcdv3's Register closes the        *)
(* client's watcher before it grants a lease and puts the key, and           *)
(* Deregister deletes the key and then closes everything.                    *)
EtcdRegister == kind = "etcd" /\ OwnChange(TRUE) /\ EtcdSeesChange
EtcdDeregister == kind = "etcd" /\ OwnChange(FALSE) /\ EtcdSeesChange

(* c.watcher is read without a lock: while WatchPrefix makes the watcher, the *)
(* other goroutine may or may not find it in the field.                      *)
CloseWatcher ==
  closed' \in CASE watch \in {"sentinel", "next", "signal"} -> {TRUE}
                [] watch = "create" -> {closed, TRUE}
                [] OTHER -> {closed}

V3Register ==
  /\ kind = "etcdv3"
  /\ CloseWatcher
  /\ \/ OwnChange(TRUE)
     \/ mode = "down" /\ UNCHANGED sharedVars
  /\ UNCHANGED <<watch, events, gap>>

V3Deregister ==
  /\ kind = "etcdv3"
  /\ CloseWatcher
  /\ \/ OwnChange(FALSE) /\ events' = IF Watching THEN events + 1 ELSE events
     \/ mode = "down" /\ UNCHANGED <<sharedVars, events>>
  /\ UNCHANGED <<watch, gap>>

EtcdStep == EtcdRead \/ EtcdPushFirst \/ EtcdPush \/ Signal
WatchStep == WatchOpens \/ NextReturns

EtcdBlind == watch = "ended" \/ gap \/ closed
=============================================================================
