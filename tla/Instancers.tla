----------------------------- MODULE Instancers -----------------------------
(* The instancers of package sd against one kind of backend: whatever the    *)
(* order of changes, outages, reads, watches and Stop, does the list that    *)
(* subscribers see follow the list of registered instances?                  *)
EXTENDS ConsulInstancer, EtcdInstancer, ZkInstancer, PollingInstancers

vars == <<sharedVars, consulVars, etcdVars, eventc, pending>>

TypeOK == SharedTypeOK /\ ConsulTypeOK /\ EtcdTypeOK /\ ZkTypeOK /\ PollTypeOK

Init == SharedInit /\ ConsulInit /\ EtcdInit /\ ZkInit /\ PollInit

(* A change reaches whatever the server keeps for this instancer.            *)
IndexSeesChange == index' = index + 1 /\ UNCHANGED <<last, query>>

Changes ==
  \/ /\ OtherChanges
     /\ IndexSeesChange /\ EtcdSeesChange /\ ZkSeesChange /\ UNCHANGED pending
  \/ /\ ConsulRegister \/ ConsulDeregister
     /\ IndexSeesChange /\ UNCHANGED <<etcdVars, eventc, pending>>
  \/ /\ EtcdRegister \/ EtcdDeregister \/ V3Register \/ V3Deregister
     /\ UNCHANGED <<consulVars, eventc, pending>>
  \/ ZkRegister /\ UNCHANGED <<consulVars, etcdVars, pending>>

Environment ==
  \/ (Breaks \/ Repairs) /\ UNCHANGED <<consulVars, etcdVars, eventc, pending>>
  \/ Changes
  \/ (Service \/ IndexRestarts) /\ UNCHANGED <<etcdVars, eventc, pending>>
  \/ WatchPrefixReturns /\ UNCHANGED <<consulVars, eventc, pending>>
  \/ ZkSessionLost /\ UNCHANGED <<consulVars, etcdVars, pending>>
  \/ StopByClose /\ UNCHANGED <<consulVars, etcdVars, eventc, pending>>
  \/ EurekaStop /\ UNCHANGED <<consulVars, etcdVars, eventc>>

Quit ==
  \/ QueryInterrupted /\ UNCHANGED <<etcdVars, eventc, pending>>
  \/ EtcdQuit /\ UNCHANGED <<consulVars, eventc, pending>>
  \/ ZkQuit /\ UNCHANGED <<consulVars, etcdVars, pending>>
  \/ (DnsQuit \/ EurekaQuit) /\ UNCHANGED <<consulVars, etcdVars, eventc>>

LoopStep ==
  \/ ConsulStep /\ UNCHANGED <<etcdVars, eventc, pending>>
  \/ EtcdStep /\ UNCHANGED <<consulVars, eventc, pending>>
  \/ ZkStep /\ UNCHANGED <<consulVars, etcdVars, pending>>
  \/ PollStep /\ UNCHANGED <<consulVars, etcdVars, eventc>>

OtherGoroutines ==
  \/ WatchStep /\ UNCHANGED <<consulVars, eventc, pending>>
  \/ (Tick \/ EurekaPolls) /\ UNCHANGED <<consulVars, etcdVars, eventc>>

Next == Environment \/ Quit \/ LoopStep \/ OtherGoroutines

(* The goroutines run; a query is answered or its wait ends; the tickers and *)
(* Eureka's poller go on. A select takes each of its ready cases with the    *)
(* same chance, so a closed quitc is not overlooked for ever.                *)
Fairness ==
  /\ WF_vars(LoopStep)
  /\ WF_vars(OtherGoroutines)
  /\ WF_vars(Service /\ UNCHANGED <<etcdVars, eventc, pending>>)
  /\ SF_vars(Quit)

Spec == Init /\ [][Next]_vars /\ Fairness

-----------------------------------------------------------------------------

(* What leaves an instancer blind in this code: its watch has ended or was   *)
(* set too late, or its last read failed or was incomplete.                  *)
Blind ==
  \/ kind \in Etcds /\ (EtcdBlind \/ cache = Failed)
  \/ kind = "zk" /\ ZkBlind

(* No change is missed: a loop that rests in its select with a live watch    *)
(* and no signal on its way has pushed the registered instances. That is     *)
(* the order of setting the watch and reading in WatchPrefix                 *)
(* (src/sd/etcdv3/client.go:155-161, src/sd/etcd/client.go:142-148) and in   *)
(* GetEntries (src/sd/zk/client.go:216-229).                                 *)
WatchCoversChanges ==
  (/\ pc = "select" /\ ~Blind
   /\ \/ kind \in Etcds /\ watch = "next" /\ events = 0
      \/ kind = "zk" /\ eventc = "armed")
  => cache = reg

(* lastIndex goes with what was pushed (src/sd/consul/instancer.go:46-55,    *)
(* 71-95): while the next query carries the server's own index, and so       *)
(* blocks, the subscribers have the registered instances, or the error of a  *)
(* query in between. An index that started anew and has caught up with       *)
(* lastIndex is beyond the loop: there the index is no longer one more than  *)
(* the number of changes.                                                    *)
LastIndexCovers ==
  kind = "consul" /\ index = reg + 1 /\ last = index => cache \in {reg, Failed}

Settled == mode = "up" /\ stop = "no" /\ pc # "failed"

(* "If the Instancer is able to restore connection to the discovery backend  *)
(* it must push another Event with the current set" (src/sd/instancer.go:    *)
(* 10-11): once the backend stays up, the subscribers get the registered     *)
(* instances, through failed queries, senseless indices and ones that go     *)
(* backwards; only the watching instancers may stay behind, when blind.      *)
CatchesUp == <>[]Settled => <>[](cache = reg \/ Blind)

(* The least that sentence asks for, without the exception: once the backend *)
(* stays up, an error is not the last that subscribers hear. The loop of     *)
(* src/sd/zk/instancer.go:51-75 does not keep it.                            *)
Recovers == <>[]Settled => <>[](cache # Failed)

Ended == IF kind = "consul" THEN ConsulEnded ELSE pc = "ended"

(* Stop ends the loop, whatever it was doing, and the goroutine of a Consul  *)
(* query nobody waits for any more (src/sd/consul/instancer.go:114-143). It  *)
(* does not end the WatchPrefix goroutine of etcd and etcdv3, which stays    *)
(* blocked in its next send, to a loop that is gone                          *)
(* (src/sd/etcd/client.go:143-148, src/sd/etcdv3/client.go:156-161).         *)
StopEnds == (stop # "no") ~> Ended

(* Eureka's Stop waits for the loop (src/sd/eureka/instancer.go:44-49): once *)
(* it has returned nothing is pushed any more.                               *)
StopIsFinal == [][kind = "eureka" /\ stop = "returned" => cache' = cache]_vars
=============================================================================
