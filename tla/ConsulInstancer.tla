--------------------------- MODULE ConsulInstancer ---------------------------
(* sd/consul/instancer.go: blocking queries that carry the index of the last *)
(* answer. Each query runs in a goroutine of its own, which hands its answer *)
(* over through a channel of capacity 1; the loop may have stopped listening.*)
EXTENDS DiscoveryBackend

CONSTANT Flying    \* a query that has no answer yet

VARIABLES index,   \* the index the Consul server gives its answers
          last,    \* lastIndex of the loop
          query    \* the latest query: Flying, or the answer in its channel

consulVars == <<index, last, query>>

MaxIndex == MaxChanges + 1
Answers == [ver : Versions, idx : 0 .. MaxIndex] \cup {Failed}

ConsulTypeOK ==
  /\ index \in 1 .. MaxIndex
  /\ last \in 0 .. MaxIndex
  /\ query \in Answers \cup {Flying}

ConsulInit == index = 1 /\ last = 0 /\ query = Flying

(* Mutant: the answer's channel has no room, so that the query's goroutine   *)
(* waits for the loop to take it.                                            *)
ServiceUnbuffered ==
  /\ kind = "consul" /\ query = Flying /\ pc \in {"new", "query"}
  /\ query' = IF mode = "down" THEN Failed ELSE [ver |-> reg, idx |-> index]
  /\ UNCHANGED <<sharedVars, index, last>>

(* The server answers: when the index passes the query's, or when the        *)
(* query's wait is over, so at any time.                                     *)
Service ==
  /\ kind = "consul" /\ query = Flying
  /\ query' = CASE mode = "down" -> Failed
                [] mode = "odd"  -> [ver |-> reg, idx |-> 0]
                [] OTHER         -> [ver |-> reg, idx |-> index]
  /\ UNCHANGED <<sharedVars, index, last>>

(* A restored or restarted server counts from the beginning again.           *)
IndexRestarts ==
  /\ kind = "consul" /\ index > 1 /\ faults < MaxFaults
  /\ index' = 1 /\ faults' = faults + 1
  /\ UNCHANGED <<kind, reg, mode, mine, cache, stop, pc, got, last, query>>

Answered == query # Flying
Applies(a) == a # Failed /\ a.idx # 0 /\ a.idx >= last
Forward == query' = Flying /\ UNCHANGED <<got, index>>

(* Mutant: NewInstancer leaves the first answer to the loop.                 *)
ConsulNewSilent ==
  /\ Answered
  /\ Go("consul", "new", "query")
  /\ last' = IF query = Failed THEN 0 ELSE query.idx
  /\ Forward

(* NewInstancer: one query that nothing interrupts, pushed whatever its      *)
(* index, and the loop starts from the index it carried, 0 for an error.     *)
ConsulNew ==
  /\ Answered
  /\ Push("consul", "new", "query", IF query = Failed THEN Failed ELSE query.ver)
  /\ last' = IF query = Failed THEN 0 ELSE query.idx
  /\ Forward

(* The loop's switch over an answer: an error and a senseless index back     *)
(* off, an index that went backwards also forgets lastIndex and drops the    *)
(* answer, any other is applied. Every case ends in the next query, the ones *)
(* that back off after their sleep.                                          *)
QueryApplied ==
  /\ Answered /\ Applies(query)
  /\ Push("consul", "query", "query", query.ver)
  /\ last' = query.idx
  /\ Forward

QueryFailed ==
  /\ query = Failed
  /\ Go("consul", "query", "backoffErr")
  /\ UNCHANGED <<got, index, last, query>>

(* Mutant: lastIndex is kept when the index goes backwards.                  *)
QueryRefusedKeepsIndex ==
  /\ Answered /\ query # Failed /\ ~Applies(query)
  /\ Go("consul", "query", "backoff")
  /\ UNCHANGED <<got, index, last, query>>

QueryRefused ==
  /\ Answered /\ query # Failed /\ ~Applies(query)
  /\ Go("consul", "query", "backoff")
  /\ last' = IF query.idx # 0 THEN 0 ELSE last
  /\ UNCHANGED <<got, index, query>>

BackoffEnds ==
  /\ \/ Go("consul", "backoff", "query")
     \/ Push("consul", "backoffErr", "query", Failed)
  /\ Forward
  /\ UNCHANGED last

(* The select sees quitc closed; the query stays in flight, and its          *)
(* goroutine ends when it is answered, for the channel has room.             *)
QueryInterrupted ==
  /\ stop = "returned"
  /\ Go("consul", "query", "ended")
  /\ UNCHANGED <<got, consulVars>>

ConsulRegister == kind = "consul" /\ OwnChange(TRUE)
ConsulDeregister == kind = "consul" /\ OwnChange(FALSE)

ConsulStep ==
  \/ ConsulNew \/ QueryApplied \/ QueryFailed \/ QueryRefused \/ BackoffEnds

ConsulEnded == pc = "ended" /\ Answered
=============================================================================
