-------------------------- MODULE DiscoveryBackend --------------------------
(* What the instancers of package sd have in common: a discovery backend     *)
(* whose set of registered instances changes and which may fail, the         *)
(* instance.Cache that an instancer pushes its events into, and the points   *)
(* of the constructor and of the goroutine that does the pushing.            *)
(*                                                                           *)
(* The registered instances are abstracted to the number of changes they     *)
(* have been through: two reads return the same instances iff no change      *)
(* lies between them. Only one instancer is alive in a behaviour, the one of *)
(* `kind'; the modules that extend this one give each kind its steps.        *)
EXTENDS Naturals

CONSTANTS Kinds,        \* the instancers a behaviour may be about
          MaxChanges,   \* bound: how often the registered instances change
          MaxFaults,    \* bound: how often the backend fails
          Failed,       \* an Event with Err set
          Partial,      \* an Event whose Instances lack registered ones
          NoEvent       \* nothing pushed yet

AllKinds == {"consul", "etcd", "etcdv3", "zk", "dnssrv", "eureka"}

Versions == 0 .. MaxChanges

ASSUME BackendAssumption ==
  /\ Kinds \subseteq AllKinds
  /\ MaxChanges \in Nat /\ MaxFaults \in Nat
  /\ Failed \notin Nat /\ Partial \notin Nat /\ NoEvent \notin Nat
  /\ Failed # Partial /\ Failed # NoEvent /\ Partial # NoEvent

VARIABLES kind,     \* which instancer this behaviour is about
          reg,      \* the registered instances
          mode,     \* "up", "down", or "odd": it answers, but unusably
          faults,   \* how often the backend has failed
          mine,     \* a Registrar of this process has its instance registered
          cache,    \* the last Event given to instance.Cache.Update
          stop,     \* Stop: "no", "called" or "returned"
          pc,       \* point of the constructor or of the loop goroutine
          got       \* what it has read and not yet pushed

sharedVars == <<kind, reg, mode, faults, mine, cache, stop, pc, got>>

Events == Versions \cup {Failed, Partial, NoEvent}

SharedTypeOK ==
  /\ kind \in Kinds
  /\ reg \in Versions
  /\ mode \in {"up", "down", "odd"}
  /\ faults \in 0 .. MaxFaults
  /\ mine \in BOOLEAN
  /\ cache \in Events
  /\ stop \in {"no", "called", "returned"}
  /\ pc \in {"new", "select", "query", "backoff", "backoffErr", "read",
             "get", "push", "failed", "ended"}
  /\ got \in Events

SharedInit ==
  /\ kind \in Kinds
  /\ reg = 0 /\ mode = "up" /\ faults = 0 /\ mine = FALSE
  /\ cache = NoEvent /\ stop = "no" /\ pc = "new" /\ got = NoEvent

-----------------------------------------------------------------------------

(* The backend becomes unreachable, or answers what the caller must refuse   *)
(* (a Consul answer without an index, an SRV record with port 0), and        *)
(* recovers.                                                                 *)
Breaks ==
  /\ mode = "up" /\ faults < MaxFaults
  /\ \E m \in {"down", "odd"} : mode' = m
  /\ faults' = faults + 1
  /\ UNCHANGED <<kind, reg, mine, cache, stop, pc, got>>

Repairs ==
  /\ mode # "up"
  /\ mode' = "up"
  /\ UNCHANGED <<kind, reg, faults, mine, cache, stop, pc, got>>

(* An instance is registered or goes: by another process ...                 *)
OtherChanges ==
  /\ reg < MaxChanges
  /\ reg' = reg + 1
  /\ UNCHANGED <<kind, mode, faults, mine, cache, stop, pc, got>>

(* ... or by a Registrar of this process, whose failing calls are only       *)
(* logged.                                                                   *)
OwnChange(registered) ==
  /\ mode # "down" /\ reg < MaxChanges /\ mine # registered
  /\ mine' = registered
  /\ reg' = reg + 1
  /\ UNCHANGED <<kind, mode, faults, cache, stop, pc, got>>

(* A read of the registered instances, as it reaches the backend.            *)
ReadResult == IF mode = "down" THEN Failed ELSE reg

(* Program points: k's goroutine moves on without pushing; or pushes.        *)
Go(k, from, to) ==
  /\ kind = k /\ pc = from /\ pc' = to
  /\ UNCHANGED <<kind, reg, mode, faults, mine, cache, stop>>

Push(k, from, to, event) ==
  /\ kind = k /\ pc = from /\ pc' = to
  /\ cache' = event
  /\ UNCHANGED <<kind, reg, mode, faults, mine, stop>>

(* Stop of every instancer but Eureka's: close(quitc), and return. The       *)
(* instancer exists once its constructor has returned.                       *)
StopByClose ==
  /\ kind # "eureka" /\ stop = "no"
  /\ pc \notin {"new", "failed"}
  /\ stop' = "returned"
  /\ UNCHANGED <<kind, reg, mode, faults, mine, cache, pc, got>>
=============================================================================
