-------------------------------- MODULE Retry --------------------------------
(***************************************************************************)
(* sd/lb: calls of the endpoint that Retry and RetryWithCallback build     *)
(* (retry.go), sharing one round-robin balancer (round_robin.go) over the  *)
(* endpoint list of an Endpointer that discovery may change at any time.   *)
(*                                                                         *)
(* Each iteration of a call's loop starts a goroutine that picks an        *)
(* endpoint, calls it and sends what it got to one of two channels of      *)
(* capacity 1; the call itself waits in a select on the two channels and   *)
(* on its context.  Go's select takes any case that is ready.              *)
(***************************************************************************)
EXTENDS Integers, Sequences

CONSTANTS
    Callers,       \* concurrent calls
    MaxLen,        \* bound on the length of the endpoint list
    MaxRetries,    \* the max of Retry(max, ...)
    MaxAttempts,   \* bound on the attempts of a call with its own Callback
    W              \* width in bits of roundRobin.c (64 in the code)

\* That a power of two is a positive number is arithmetic; it is stated because
\* the proofs need it and the provers know nothing of powers.
ASSUME BoundsAssumption ==
    /\ MaxLen \in Nat \ {0} /\ W \in Nat /\ 2^W \in Nat \ {0}
    /\ MaxAttempts \in Nat \ {0} /\ MaxRetries \in 0..MaxAttempts

VARIABLES
    mode,       \* caller -> "max": maxRetries(MaxRetries); "callback": any Callback
    pc,         \* caller -> "launch", "select" or "returned"
    n,          \* caller -> the number of the current attempt
    ctx,        \* caller -> newctx: "live" or "done"
    worker,     \* caller -> attempt -> where the attempt's goroutine is
    snapshot,   \* caller -> attempt -> length of the list its balancer has read
    responses,  \* caller -> buffer of the channel: the attempt that succeeded
    errs,       \* caller -> buffer of the channel: the attempt that failed
    raw,        \* caller -> final.RawErrors, as attempt numbers
    result,     \* caller -> what the call returned
    list,       \* length of the Endpointer's list; 0 when it has none or an error
    c,          \* roundRobin.c
    picks,      \* history: endpoint -> times chosen
    drawn,      \* history: numbers drawn from roundRobin.c
    moved       \* history: the list has changed

vars == <<mode, pc, n, ctx, worker, snapshot, responses, errs, raw, result,
          list, c, picks, drawn, moved>>
lbVars == <<list, c, picks, drawn, moved>>

Attempts == 1..MaxAttempts
WorkerPoints == {"off", "endpoints", "pick", "call", "failed", "succeeded", "done"}
Results == {"none", "response", "retryError", "ctxError"}

\* The contents of a channel with room for one.
Buffers == {<<>>} \cup {<<i>> : i \in Attempts}

Init ==
    /\ mode \in [Callers -> {"max", "callback"}]
    /\ pc = [k \in Callers |-> "launch"]
    /\ n = [k \in Callers |-> 0]
    /\ ctx = [k \in Callers |-> "live"]
    /\ worker = [k \in Callers |-> [i \in Attempts |-> "off"]]
    /\ snapshot = [k \in Callers |-> [i \in Attempts |-> 0]]
    /\ responses = [k \in Callers |-> <<>>]
    /\ errs = [k \in Callers |-> <<>>]
    /\ raw = [k \in Callers |-> <<>>]
    /\ result = [k \in Callers |-> "none"]
    /\ list \in 0..MaxLen
    /\ c = 0
    /\ picks = [e \in 0..(MaxLen - 1) |-> 0]
    /\ drawn = 0
    /\ moved = FALSE

-----------------------------------------------------------------------------
(* The goroutine of attempt i of call k. *)

WorkerTo(k, i, from, to) ==
    /\ worker[k][i] = from
    /\ worker' = [worker EXCEPT ![k][i] = to]

\* Mutant: with no endpoint the attempt ends without an outcome.
ReadEndpointsSilent(k, i) ==
    /\ WorkerTo(k, i, "endpoints", IF list = 0 THEN "done" ELSE "pick")
    /\ snapshot' = [snapshot EXCEPT ![k][i] = list]
    /\ UNCHANGED <<mode, pc, n, ctx, responses, errs, raw, result, lbVars>>

\* roundRobin.Endpoint: read the list; an error if there is no endpoint.
ReadEndpoints(k, i) ==
    /\ WorkerTo(k, i, "endpoints", IF list = 0 THEN "failed" ELSE "pick")
    /\ snapshot' = [snapshot EXCEPT ![k][i] = list]
    /\ UNCHANGED <<mode, pc, n, ctx, responses, errs, raw, result, lbVars>>

\* Mutant: the counter is read before and stored after another pick, so that an
\* increment is lost.
PickLost(k, i) ==
    /\ WorkerTo(k, i, "pick", "call")
    /\ c' \in {c, (c + 1) % 2^W}
    /\ picks' = [picks EXCEPT ![c % snapshot[k][i]] = @ + 1]
    /\ drawn' = drawn + 1
    /\ snapshot' = [snapshot EXCEPT ![k][i] = 0]
    /\ UNCHANGED <<mode, pc, n, ctx, responses, errs, raw, result, list, moved>>

\* roundRobin.Endpoint: take the next number, modulo the length read before.
Pick(k, i) ==
    /\ WorkerTo(k, i, "pick", "call")
    /\ c' = (c + 1) % 2^W
    /\ picks' = [picks EXCEPT ![c % snapshot[k][i]] = @ + 1]
    /\ drawn' = drawn + 1
    /\ snapshot' = [snapshot EXCEPT ![k][i] = 0]
    /\ UNCHANGED <<mode, pc, n, ctx, responses, errs, raw, result, list, moved>>

\* The endpoint returns, whatever became of the context.
Called(k, i) ==
    /\ \E outcome \in {"failed", "succeeded"} : WorkerTo(k, i, "call", outcome)
    /\ UNCHANGED <<mode, pc, n, ctx, snapshot, responses, errs, raw, result, lbVars>>

\* errs <- err, on a channel with room for one.
SendErr(k, i) ==
    /\ errs[k] = <<>>
    /\ WorkerTo(k, i, "failed", "done")
    /\ errs' = [errs EXCEPT ![k] = <<i>>]
    /\ UNCHANGED <<mode, pc, n, ctx, snapshot, responses, raw, result, lbVars>>

\* responses <- response, likewise.
SendResponse(k, i) ==
    /\ responses[k] = <<>>
    /\ WorkerTo(k, i, "succeeded", "done")
    /\ responses' = [responses EXCEPT ![k] = <<i>>]
    /\ UNCHANGED <<mode, pc, n, ctx, snapshot, errs, raw, result, lbVars>>

-----------------------------------------------------------------------------
(* The call itself. *)

\* The next iteration of the loop: start an attempt, then wait.
Launch(k) ==
    /\ pc[k] = "launch"
    /\ n' = [n EXCEPT ![k] = @ + 1]
    /\ worker' = [worker EXCEPT ![k][n[k] + 1] = "endpoints"]
    /\ pc' = [pc EXCEPT ![k] = "select"]
    /\ UNCHANGED <<mode, ctx, snapshot, responses, errs, raw, result, lbVars>>

\* Return r; the deferred cancel ends newctx.
Return(k, r) ==
    /\ pc' = [pc EXCEPT ![k] = "returned"]
    /\ result' = [result EXCEPT ![k] = r]
    /\ ctx' = [ctx EXCEPT ![k] = "done"]

\* Mutants: the timeout starts another attempt beside the one that hangs; the
\* select does not look at the context.
SelectDoneRelaunches(k) ==
    /\ pc[k] = "select"
    /\ ctx[k] = "done"
    /\ n[k] < MaxAttempts
    /\ pc' = [pc EXCEPT ![k] = "launch"]
    /\ UNCHANGED <<mode, n, ctx, worker, snapshot, responses, errs, raw, result, lbVars>>
SelectDoneMissing(k) == FALSE /\ UNCHANGED vars

SelectDone(k) ==
    /\ pc[k] = "select"
    /\ ctx[k] = "done"
    /\ Return(k, "ctxError")
    /\ UNCHANGED <<mode, n, worker, snapshot, responses, errs, raw, lbVars>>

SelectResponse(k) ==
    /\ pc[k] = "select"
    /\ responses[k] # <<>>
    /\ responses' = [responses EXCEPT ![k] = <<>>]
    /\ Return(k, "response")
    /\ UNCHANGED <<mode, n, worker, snapshot, errs, raw, lbVars>>

\* Mutant: one attempt too many.
KeepTryingOnceMore(k, i) ==
    IF mode[k] = "max" THEN {i <= MaxRetries} ELSE {FALSE, i < MaxAttempts}

\* What the callback may answer for attempt i: maxRetries compares with max; any
\* other callback decides as it likes, up to the bound on attempts.
KeepTrying(k, i) ==
    IF mode[k] = "max" THEN {i < MaxRetries} ELSE {FALSE, i < MaxAttempts}

SelectErr(k) ==
    /\ pc[k] = "select"
    /\ errs[k] # <<>>
    /\ errs' = [errs EXCEPT ![k] = <<>>]
    /\ raw' = [raw EXCEPT ![k] = @ \o errs[k]]
    /\ \E keep \in KeepTrying(k, n[k]) :
          IF keep
          THEN pc' = [pc EXCEPT ![k] = "launch"] /\ UNCHANGED <<result, ctx>>
          ELSE Return(k, "retryError")
    /\ UNCHANGED <<mode, n, worker, snapshot, responses, lbVars>>

-----------------------------------------------------------------------------

\* The timeout elapses or the caller's context is cancelled.
CtxDone(k) ==
    /\ ctx[k] = "live"
    /\ ctx' = [ctx EXCEPT ![k] = "done"]
    /\ UNCHANGED <<mode, pc, n, worker, snapshot, responses, errs, raw, result, lbVars>>

\* Discovery replaces the list.
ListChanges(len) ==
    /\ len # list
    /\ list' = len
    /\ moved' = TRUE
    /\ UNCHANGED <<mode, pc, n, ctx, worker, snapshot, responses, errs, raw, result, c, picks, drawn>>

Next ==
    \/ \E k \in Callers :
          \/ Launch(k) \/ SelectDone(k) \/ SelectResponse(k) \/ SelectErr(k) \/ CtxDone(k)
          \/ \E i \in Attempts :
                \/ ReadEndpoints(k, i) \/ Pick(k, i) \/ Called(k, i)
                \/ SendErr(k, i) \/ SendResponse(k, i)
    \/ \E len \in 0..MaxLen : ListChanges(len)

\* The call's own goroutine runs, and its timer fires.  Nothing is assumed of
\* the endpoints: they may never return.
Fairness ==
    \A k \in Callers :
        /\ WF_vars(Launch(k)) /\ WF_vars(CtxDone(k))
        /\ WF_vars(SelectDone(k) \/ SelectResponse(k) \/ SelectErr(k))

Spec == Init /\ [][Next]_vars /\ Fairness

-----------------------------------------------------------------------------

TypeOK ==
    /\ mode \in [Callers -> {"max", "callback"}]
    /\ pc \in [Callers -> {"launch", "select", "returned"}]
    /\ n \in [Callers -> 0..MaxAttempts]
    /\ ctx \in [Callers -> {"live", "done"}]
    /\ worker \in [Callers -> [Attempts -> WorkerPoints]]
    /\ snapshot \in [Callers -> [Attempts -> 0..MaxLen]]
    /\ responses \in [Callers -> Buffers]
    /\ errs \in [Callers -> Buffers]
    /\ raw \in [Callers -> Seq(Attempts)]
    /\ result \in [Callers -> Results]
    /\ list \in 0..MaxLen /\ c \in 0..(2^W - 1)
    /\ picks \in [0..(MaxLen - 1) -> Nat] /\ drawn \in Nat
    /\ moved \in BOOLEAN

\* No attempt ever waits to hand over its outcome, so none outlives its
\* endpoint: also not one that ends after its call has returned.
SendNeverBlocks ==
    \A k \in Callers, i \in Attempts :
        /\ worker[k][i] = "failed" => errs[k] = <<>>
        /\ worker[k][i] = "succeeded" => responses[k] = <<>>

\* A call never has two attempts under way, and what it returns accounts for
\* all of them: a RetryError holds the error of each attempt in order, after
\* max attempts (and at least one); a response comes from the last attempt
\* after the errors of all the others.
ReturnAccountsForAttempts ==
    \A k \in Callers :
        LET ended == IF result[k] = "retryError" THEN n[k] ELSE n[k] - 1
        IN  /\ \A i \in Attempts : worker[k][i] \notin {"off", "done"} => i = n[k]
            /\ result[k] \in {"response", "retryError"} =>
                  /\ raw[k] = [i \in 1..ended |-> i]
                  /\ \A i \in 1..n[k] : worker[k][i] = "done"
            /\ mode[k] = "max" /\ result[k] = "retryError" => n[k] = (IF MaxRetries = 0 THEN 1 ELSE MaxRetries)

\* No outcome is lost: a call that waits has an attempt under way or its outcome
\* in a channel, so that it sits out its timeout only for an endpoint that hangs.
CallIsServed ==
    \A k \in Callers :
        pc[k] = "select" => \/ \E i \in Attempts : worker[k][i] \notin {"off", "done"}
                            \/ errs[k] # <<>> \/ responses[k] # <<>>

\* Every call returns, however its endpoints behave.
CallReturns == \A k \in Callers : <>(pc[k] = "returned")

\* While the list does not change, concurrent calls and their retries use the
\* endpoints evenly ("returns services in sequence", sd/lb/round_robin.go:10),
\* except that each wrap of the counter may favour the first ones once more.
EvenPicks ==
    LET wraps == drawn \div 2^W
    IN  ~moved => \A d, e \in 0..(list - 1) : picks[d] - picks[e] <= 1 + wraps
=============================================================================
