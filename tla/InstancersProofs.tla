-------------------------- MODULE InstancersProofs --------------------------
(* For any number of changes and failures: the watching instancers miss no   *)
(* change while their watch is alive, and Eureka's pushes nothing once its   *)
(* Stop has returned.                                                        *)
EXTENDS Instancers, TLAPS

(* The WatchPrefix goroutine starts when the constructor is through; only    *)
(* etcd's first Next comes after its first signal.                           *)
WatchStarts ==
  kind \in Etcds => /\ events \in Nat
                    /\ pc \in {"new", "get"} => watch = "none"
                    /\ watch = "opening" => kind = "etcd"

(* With the watch open, or about to be opened with nothing missed, and no    *)
(* event to be returned, what was read last is what is registered.           *)
EtcdCurrent ==
  (/\ kind \in Etcds /\ ~EtcdBlind
   /\ watch \in {"opening", "next"} /\ events = 0)
  => /\ pc = "select" => cache \in {reg, Failed}
     /\ pc = "push" => got \in {reg, Failed}

(* With the watch set and not fired, what was listed last is registered.     *)
ZkCurrent ==
  kind = "zk" /\ eventc = "armed" =>
    /\ pc \in {"get", "push", "select", "ended"}
    /\ pc = "select" => cache \in {reg, Partial}
    /\ pc \in {"get", "push"} => got = reg

(* Eureka's loop ends before Stop returns.                                   *)
EurekaStopped == kind = "eureka" /\ stop = "returned" => pc = "ended"

WInv == WatchStarts /\ EtcdCurrent /\ ZkCurrent /\ EurekaStopped

USE DEF WatchStarts, EtcdCurrent, ZkCurrent, EurekaStopped, WInv, EtcdBlind, Etcds

(* Nothing is watched and nothing pushed when the constructor is called.     *)
LEMMA InitWInv == Init => WInv
  BY DEF Init, SharedInit, ConsulInit, EtcdInit, ZkInit, PollInit

(* The steps of the backend: a change is an event for the watch, if the      *)
(* server has it.                                                            *)
LEMMA EtcdEvent ==
  ASSUME WInv, kind \in Etcds, kind' = kind, pc' = pc, EtcdSeesChange
  PROVE  WatchStarts' /\ EtcdCurrent'
  <1>1. events' \in Nat /\ (~closed /\ watch = "next" => events' # 0)
    BY DEF EtcdSeesChange, Watching
  <1>2. gap' = (gap \/ (kind = "etcd" /\ watch = "opening" /\ pc # "read"))
    BY DEF EtcdSeesChange
  <1>3. watch = "opening" => gap' \/ pc = "read"
    BY <1>2
  <1>4. watch' = watch /\ closed' = closed
    BY DEF EtcdSeesChange
  <1> QED BY <1>1, <1>3, <1>4

LEMMA OtherChangesWInv ==
  ASSUME WInv, OtherChanges, EtcdSeesChange, ZkSeesChange
  PROVE  WInv'
  <1>1. CASE kind \in Etcds
    BY <1>1, EtcdEvent DEF OtherChanges
  <1>2. CASE kind \notin Etcds
    BY <1>2 DEF OtherChanges, ZkSeesChange
  <1> QED BY <1>1, <1>2

LEMMA ChangesWInv ==
  ASSUME WInv, Changes
  PROVE  WInv'
  <1>1. CASE OtherChanges /\ EtcdSeesChange /\ ZkSeesChange
    BY <1>1, OtherChangesWInv
  <1>2. CASE (ConsulRegister \/ ConsulDeregister) /\ UNCHANGED <<etcdVars, eventc, pending>>
    BY <1>2 DEF ConsulRegister, ConsulDeregister, OwnChange
  <1>3. CASE (EtcdRegister \/ EtcdDeregister) /\ UNCHANGED eventc
    BY <1>3, EtcdEvent DEF EtcdRegister, EtcdDeregister, OwnChange
  <1>4. CASE V3Register /\ UNCHANGED eventc
    BY <1>4 DEF V3Register, CloseWatcher, OwnChange, sharedVars
  <1>5. CASE V3Deregister /\ UNCHANGED eventc
    <2>1. kind = "etcdv3" /\ kind' = kind /\ pc' = pc /\ watch' = watch
      BY <1>5 DEF V3Deregister, OwnChange, sharedVars
    <2>2. events \in Nat
      BY <2>1
    <2>3. events' = events \/ events' = events + 1
      BY <1>5 DEF V3Deregister
    <2>4. events' \in Nat
      BY <2>2, <2>3
    <2>5. watch \in {"next", "signal"} => closed' = TRUE
      BY <1>5 DEF V3Deregister, CloseWatcher
    <2> QED BY <2>1, <2>4, <2>5
  <1>6. CASE ZkRegister /\ UNCHANGED etcdVars
    BY <1>6 DEF ZkRegister, OwnChange, ZkSeesChange
  <1> QED BY <1>1, <1>2, <1>3, <1>4, <1>5, <1>6 DEF Changes

(* Outages, answers of Consul, the ends of watches, and the calls of Stop.   *)
LEMMA EnvironmentWInv ==
  ASSUME WInv, Environment
  PROVE  WInv'
  <1>1. CASE (Breaks \/ Repairs) /\ UNCHANGED <<etcdVars, eventc>>
    BY <1>1 DEF Breaks, Repairs, etcdVars
  <1>2. CASE (Service \/ IndexRestarts) /\ UNCHANGED <<etcdVars, eventc>>
    BY <1>2 DEF Service, IndexRestarts, sharedVars, etcdVars
  <1>3. CASE WatchPrefixReturns /\ UNCHANGED eventc
    BY <1>3 DEF WatchPrefixReturns, sharedVars
  <1>4. CASE ZkSessionLost /\ UNCHANGED etcdVars
    BY <1>4 DEF ZkSessionLost, sharedVars, etcdVars
  <1>5. CASE (StopByClose \/ EurekaStop) /\ UNCHANGED <<etcdVars, eventc>>
    BY <1>5 DEF StopByClose, EurekaStop, etcdVars
  <1> QED BY <1>1, <1>2, <1>3, <1>4, <1>5, ChangesWInv DEF Environment

(* The loops see that they are to quit.                                      *)
LEMMA QuitWInv ==
  ASSUME WInv, Quit
  PROVE  WInv'
  BY DEF Quit, QueryInterrupted, EtcdQuit, ZkQuit, DnsQuit, EurekaQuit, Go, etcdVars

(* The constructors and loops read and push.                                 *)
LEMMA LoopStepWInv ==
  ASSUME WInv, LoopStep
  PROVE  WInv'
  <1>1. CASE ConsulStep /\ UNCHANGED <<etcdVars, eventc>>
    BY <1>1 DEF ConsulStep, ConsulNew, QueryApplied, QueryFailed, QueryRefused, BackoffEnds,
       Go, Push, Forward, etcdVars
  <1>2. CASE EtcdStep /\ UNCHANGED eventc
    BY <1>2 DEF EtcdStep, EtcdRead, EtcdPushFirst, EtcdPush, Signal, Go, Push, ReadResult, etcdVars
  <1>3. CASE ZkStep /\ UNCHANGED etcdVars
    BY <1>3 DEF ZkStep, ZkList, ZkPush, ZkEvent, Go, Push, etcdVars
  <1>4. CASE PollStep /\ UNCHANGED <<etcdVars, eventc>>
    BY <1>4 DEF PollStep, DnsResolve, DnsPush, EurekaConsume, Go, Push, etcdVars
  <1> QED BY <1>1, <1>2, <1>3, <1>4 DEF LoopStep

(* The goroutine of WatchPrefix, the ticker and Eureka's poller.             *)
LEMMA OtherGoroutinesWInv ==
  ASSUME WInv, OtherGoroutines
  PROVE  WInv'
  BY DEF OtherGoroutines, WatchStep, WatchOpens, NextReturns, Tick, EurekaPolls, sharedVars, etcdVars

(* The inductive invariant holds in every state of every behaviour.          *)
THEOREM WInvHolds == Spec => []WInv
  <1>1. WInv /\ [Next]_vars => WInv'
    <2> SUFFICES ASSUME WInv, [Next]_vars PROVE WInv'
      OBVIOUS
    <2>1. CASE UNCHANGED vars
      BY <2>1 DEF vars, sharedVars, etcdVars
    <2> QED BY <2>1, EnvironmentWInv, QuitWInv, LoopStepWInv, OtherGoroutinesWInv DEF Next
  <1> QED BY <1>1, InitWInv, PTL DEF Spec

(* A watching instancer at rest, with a live watch and no signal on its way, *)
(* has pushed the registered instances.                                      *)
THEOREM WatchesCover == Spec => []WatchCoversChanges
  <1>1. WInv => WatchCoversChanges
    BY DEF WatchCoversChanges, Blind, ZkBlind
  <1> QED BY <1>1, WInvHolds, PTL

(* Consul. Until the server's index starts anew it is one more than the      *)
(* number of changes; an answer carries the index of the list it holds, and  *)
(* lastIndex, unless 0, is the index of the last list that was pushed.       *)
ConsulCurrent ==
  kind = "consul" =>
    /\ reg \in Nat /\ index \in 1 .. (reg + 1) /\ last \in Nat
    /\ query \in [ver : Nat, idx : Nat] \cup {Failed, Flying}
    /\ index = reg + 1 =>
         /\ query \notin {Failed, Flying} => query.idx \in {0, query.ver + 1}
         /\ last # 0 => cache \in {last - 1, Failed}

LEMMA InitConsulCurrent == Init => ConsulCurrent
  BY DEF Init, SharedInit, ConsulInit, ConsulCurrent

(* The backend: a change moves the index, and an answer takes both.          *)
LEMMA ConsulBackend ==
  ASSUME ConsulCurrent, Environment, kind = "consul"
  PROVE  ConsulCurrent'
  <1>1. CASE Changes
    <2>1. /\ kind' = kind /\ cache' = cache /\ reg' = reg + 1
          /\ index' = index + 1 /\ last' = last /\ query' = query
      BY <1>1 DEF Changes, OtherChanges, ConsulRegister, ConsulDeregister, OwnChange, IndexSeesChange,
         EtcdRegister, EtcdDeregister, V3Register, V3Deregister, ZkRegister
    <2> QED BY <2>1 DEF ConsulCurrent
  <1>2. CASE Service
    <2>1. /\ kind' = kind /\ cache' = cache /\ reg' = reg /\ index' = index /\ last' = last
          /\ query' \in {Failed, [ver |-> reg, idx |-> 0], [ver |-> reg, idx |-> index]}
      BY <1>2 DEF Service, sharedVars
    <2> QED BY <2>1 DEF ConsulCurrent
  <1>3. CASE IndexRestarts
    <2>1. /\ kind' = kind /\ cache' = cache /\ reg' = reg /\ last' = last /\ query' = query
          /\ index > 1 /\ index' = 1
      BY <1>3 DEF IndexRestarts
    <2> QED BY <2>1 DEF ConsulCurrent
  <1>4. CASE UNCHANGED <<kind, reg, cache, consulVars>>
    BY <1>4 DEF ConsulCurrent, consulVars
  <1> QED
    BY <1>1, <1>2, <1>3, <1>4
    DEF Environment, Breaks, Repairs, WatchPrefixReturns, ZkSessionLost, StopByClose, EurekaStop, sharedVars

(* The loop: it pushes the list whose index it remembers.                    *)
LEMMA ConsulLoop ==
  ASSUME ConsulCurrent, ConsulStep, kind = "consul"
  PROVE  ConsulCurrent'
  <1>1. kind' = kind /\ reg' = reg /\ index' = index
    BY DEF ConsulStep, ConsulNew, QueryApplied, QueryFailed, QueryRefused, BackoffEnds, Push, Go, Forward
  <1>2. \/ query' = query
        \/ query' = Flying
    BY DEF ConsulStep, ConsulNew, QueryApplied, QueryFailed, QueryRefused, BackoffEnds, Forward
  <1>3. \/ cache' = cache /\ last' \in {last, 0}
        \/ cache' = Failed /\ last' \in {last, 0}
        \/ query \notin {Failed, Flying} /\ cache' = query.ver /\ last' = query.idx
    BY DEF ConsulStep, ConsulNew, QueryApplied, QueryFailed, QueryRefused, BackoffEnds, Push, Go,
       Answered, Applies
  <1>4. /\ reg \in Nat /\ index \in 1 .. (reg + 1) /\ last \in Nat
        /\ query \in [ver : Nat, idx : Nat] \cup {Failed, Flying}
    BY DEF ConsulCurrent
  <1>5. last' \in Nat
    BY <1>3, <1>4
  <1>6. ASSUME index = reg + 1
        PROVE  /\ query' \notin {Failed, Flying} => query'.idx \in {0, query'.ver + 1}
               /\ last' # 0 => cache' \in {last' - 1, Failed}
    <2>1. /\ query \notin {Failed, Flying} => query.idx \in {0, query.ver + 1} /\ query.ver \in Nat
          /\ last # 0 => cache \in {last - 1, Failed}
      BY <1>4, <1>6 DEF ConsulCurrent
    <2>2. query' \notin {Failed, Flying} => query'.idx \in {0, query'.ver + 1}
      BY <1>2, <2>1
    <2>3. last' # 0 => cache' \in {last' - 1, Failed}
      BY <1>3, <2>1
    <2> QED BY <2>2, <2>3
  <1> QED BY <1>1, <1>2, <1>4, <1>5, <1>6 DEF ConsulCurrent

(* While Consul's query would block, the registered instances are known.     *)
THEOREM BlockedQueryMissesNothing == Spec => []LastIndexCovers
  <1>1. ConsulCurrent /\ [Next]_vars => ConsulCurrent'
    <2> SUFFICES ASSUME ConsulCurrent, [Next]_vars PROVE ConsulCurrent'
      OBVIOUS
    <2>1. kind' = kind
      BY DEF Next, Environment, Breaks, Repairs, Changes, OtherChanges, ConsulRegister, ConsulDeregister,
         OwnChange, EtcdRegister, EtcdDeregister, V3Register, V3Deregister, ZkRegister, Service,
         IndexRestarts, WatchPrefixReturns, ZkSessionLost, StopByClose, EurekaStop, Quit,
         QueryInterrupted, EtcdQuit, ZkQuit, DnsQuit, EurekaQuit, LoopStep, ConsulStep, ConsulNew,
         QueryApplied, QueryFailed, QueryRefused, BackoffEnds, EtcdStep, EtcdRead, EtcdPushFirst,
         EtcdPush, Signal, ZkStep, ZkList, ZkPush, ZkEvent, PollStep, DnsResolve, DnsPush,
         EurekaConsume, OtherGoroutines, WatchStep, WatchOpens, NextReturns, Tick, EurekaPolls,
         Go, Push, vars, sharedVars
    <2>2. CASE kind # "consul"
      BY <2>1, <2>2 DEF ConsulCurrent
    <2>3. CASE kind = "consul" /\ (Quit \/ OtherGoroutines \/ UNCHANGED vars)
      <3>1. UNCHANGED <<kind, reg, cache, consulVars>>
        BY <2>3 DEF Quit, QueryInterrupted, EtcdQuit, ZkQuit, DnsQuit, EurekaQuit, Go,
           OtherGoroutines, WatchStep, WatchOpens, NextReturns, Tick, EurekaPolls, vars, sharedVars
      <3> QED BY <3>1 DEF ConsulCurrent, consulVars
    <2>4. CASE kind = "consul" /\ LoopStep
      BY <2>4, ConsulLoop
      DEF LoopStep, EtcdStep, EtcdRead, EtcdPushFirst, EtcdPush, Signal, ZkStep, ZkList, ZkPush, ZkEvent,
          PollStep, DnsResolve, DnsPush, EurekaConsume, Go, Push
    <2> QED BY <2>2, <2>3, <2>4, ConsulBackend DEF Next
  <1>2. ConsulCurrent => LastIndexCovers
    BY DEF ConsulCurrent, LastIndexCovers
  <1> QED BY <1>1, <1>2, InitConsulCurrent, PTL DEF Spec

(* Once Eureka's Stop has returned, no step gives the cache another event.   *)
THEOREM EurekaStopFinal == Spec => StopIsFinal
  <1>1. WInv /\ [Next]_vars => [kind = "eureka" /\ stop = "returned" => cache' = cache]_vars
    <2> SUFFICES ASSUME WInv, Next, kind = "eureka", stop = "returned"
                 PROVE  cache' = cache
      BY DEF vars
    <2>1. CASE Environment
      BY <2>1 DEF Environment, Breaks, Repairs, Changes, OtherChanges, OwnChange, ConsulRegister,
         ConsulDeregister, EtcdRegister, EtcdDeregister, V3Register, V3Deregister, ZkRegister,
         Service, IndexRestarts, WatchPrefixReturns, ZkSessionLost, StopByClose, EurekaStop, sharedVars
    <2>2. CASE Quit
      BY <2>2 DEF Quit, QueryInterrupted, EtcdQuit, ZkQuit, DnsQuit, EurekaQuit, Go
    <2>3. CASE LoopStep
      BY <2>3 DEF LoopStep, ConsulStep, ConsulNew, QueryApplied, QueryFailed, QueryRefused, BackoffEnds,
         EtcdStep, EtcdRead, EtcdPushFirst, EtcdPush, Signal, ZkStep, ZkList, ZkPush, ZkEvent,
         PollStep, DnsResolve, DnsPush, EurekaConsume, Go, Push
    <2>4. CASE OtherGoroutines
      BY <2>4 DEF OtherGoroutines, WatchStep, WatchOpens, NextReturns, Tick, EurekaPolls, sharedVars
    <2> QED BY <2>1, <2>2, <2>3, <2>4 DEF Next
  <1> QED BY <1>1, WInvHolds, PTL DEF Spec, StopIsFinal
=============================================================================
