-------------------------- MODULE PollingInstancers --------------------------
(* sd/dnssrv and sd/eureka: instancers that are given, or ask for, the whole *)
(* list again and again. dnssrv resolves at each tick; Eureka's library      *)
(* polls in a goroutine of its own and sends what it got, until `done' is    *)
(* closed.                                                                   *)
EXTENDS DiscoveryBackend

CONSTANTS Idle, Ticked    \* nothing pending; a tick of dnssrv's ticker

VARIABLE pending   \* a tick, or the update the Eureka poller is sending

PollTypeOK == pending \in Versions \cup {Failed, Idle, Ticked}

PollInit == pending = Idle

(* resolve: an answer with a port 0 is an error.                             *)
Resolved == IF mode = "up" THEN reg ELSE Failed

Tick ==
  /\ kind = "dnssrv" /\ pc # "new" /\ pending = Idle
  /\ pending' = Ticked
  /\ UNCHANGED sharedVars

DnsResolve ==
  /\ \/ Go("dnssrv", "new", "push") /\ UNCHANGED pending
     \/ pending = Ticked /\ Go("dnssrv", "select", "push") /\ pending' = Idle
  /\ got' = Resolved

DnsPush ==
  /\ Push("dnssrv", "push", "select", got)
  /\ UNCHANGED <<got, pending>>

DnsQuit ==
  /\ stop = "returned"
  /\ Go("dnssrv", "select", "ended")
  /\ UNCHANGED <<got, pending>>

(* The poller ends when the loop has closed `done'.                          *)
EurekaPolls ==
  /\ kind = "eureka" /\ pc # "ended" /\ pending = Idle
  /\ pending' = ReadResult
  /\ UNCHANGED sharedVars

(* NewInstancer consumes the first update, the loop the others.              *)
EurekaConsume ==
  /\ pending # Idle
  /\ \E from \in {"new", "select"} : Push("eureka", from, "select", pending)
  /\ pending' = Idle
  /\ UNCHANGED got

(* Stop hands the loop a channel and waits until the loop has closed it.     *)
(* Mutant: Stop closes quitc and returns, as the other instancers' do.       *)
EurekaStopNoWait ==
  /\ kind = "eureka" /\ stop = "no" /\ pc # "new"
  /\ stop' = "returned"
  /\ UNCHANGED <<kind, reg, mode, faults, mine, cache, pc, got, pending>>

EurekaStop ==
  /\ kind = "eureka" /\ stop = "no" /\ pc # "new"
  /\ stop' = "called"
  /\ UNCHANGED <<kind, reg, mode, faults, mine, cache, pc, got, pending>>

EurekaQuit ==
  /\ kind = "eureka" /\ stop = "called" /\ pc = "select"
  /\ pc' = "ended" /\ stop' = "returned"
  /\ UNCHANGED <<kind, reg, mode, faults, mine, cache, got, pending>>

PollStep == DnsResolve \/ DnsPush \/ EurekaConsume
=============================================================================
