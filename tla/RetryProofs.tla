----------------------------- MODULE RetryProofs -----------------------------
(***************************************************************************)
(* For any number of concurrent calls, any max and any bound on attempts:  *)
(* what Retry's channels and results owe to the attempts, and, for lists   *)
(* and counters of any size, how evenly the balancer uses the endpoints.   *)
(* The balancer's state plays no part in the first and only the types of   *)
(* the calls' state in the second.                                         *)
(***************************************************************************)
EXTENDS Retry, TLAPS

CallTypes ==
    /\ mode \in [Callers -> {"max", "callback"}]
    /\ pc \in [Callers -> {"launch", "select", "returned"}]
    /\ n \in [Callers -> 0..MaxAttempts]
    /\ ctx \in [Callers -> {"live", "done"}]
    /\ worker \in [Callers -> [Attempts -> WorkerPoints]]
    /\ responses \in [Callers -> Buffers]
    /\ errs \in [Callers -> Buffers]
    /\ DOMAIN raw = Callers
    /\ result \in [Callers -> Results]

\* The errors of the first m attempts, in order.
FirstErrors(m) == [i \in 1..m |-> i]

Ended(k) == worker[k][n[k]] = "done"
Empty(k) == responses[k] = <<>> /\ errs[k] = <<>>

\* Before the current attempt every attempt has ended, after it none has begun.
AttemptsInTurn(k) ==
    \A i \in Attempts : /\ i < n[k] => worker[k][i] = "done"
                        /\ i > n[k] => worker[k][i] = "off"

\* At most one outcome waits in the channels, the current attempt's.
OneOutcome(k) ==
    \/ Empty(k)
    \/ Ended(k) /\ responses[k] = <<n[k]>> /\ errs[k] = <<>>
    \/ Ended(k) /\ responses[k] = <<>> /\ errs[k] = <<n[k]>>

\* How far the attempts of a call of Retry(max, ...) go.
WithinMax(k) ==
    mode[k] = "max" =>
        /\ pc[k] = "launch" => n[k] = 0 \/ n[k] < MaxRetries
        /\ n[k] <= 1 \/ n[k] <= MaxRetries

CallOK(k) ==
    /\ AttemptsInTurn(k)
    /\ OneOutcome(k)
    /\ WithinMax(k)
    /\ pc[k] = "launch" =>
          /\ n[k] < MaxAttempts /\ (n[k] > 0 => Ended(k)) /\ Empty(k)
          /\ raw[k] = FirstErrors(n[k]) /\ result[k] = "none"
    /\ pc[k] = "select" =>
          /\ n[k] > 0 /\ worker[k][n[k]] # "off" /\ (Ended(k) => ~Empty(k))
          /\ raw[k] = FirstErrors(n[k] - 1) /\ result[k] = "none"
    /\ pc[k] = "returned" => n[k] > 0 /\ worker[k][n[k]] # "off"
    /\ result[k] = "response" => Ended(k) /\ Empty(k) /\ raw[k] = FirstErrors(n[k] - 1)
    /\ result[k] = "retryError" =>
          /\ Ended(k) /\ Empty(k) /\ raw[k] = FirstErrors(n[k])
          /\ mode[k] = "max" => n[k] = (IF MaxRetries = 0 THEN 1 ELSE MaxRetries)

Inv == CallTypes /\ \A k \in Callers : CallOK(k)

-----------------------------------------------------------------------------

\* The error of the next attempt continues the list.
LEMMA OneMore ==
  ASSUME NEW m \in Nat PROVE FirstErrors(m) \o <<m + 1>> = FirstErrors(m + 1)
  BY DEF FirstErrors

LEMMA InvInit == Init => Inv
<1>. SUFFICES ASSUME Init PROVE Inv
  OBVIOUS
<1>1. CallTypes
  BY BoundsAssumption DEF Init, CallTypes, Buffers, WorkerPoints, Results
<1>2. ASSUME NEW k \in Callers PROVE CallOK(k)
  <2>1. raw[k] = FirstErrors(0)
    BY DEF Init, FirstErrors
  <2>. QED
    BY <2>1, BoundsAssumption
    DEF Init, CallOK, AttemptsInTurn, OneOutcome, WithinMax, Empty, Attempts
<1>. QED  BY <1>1, <1>2 DEF Inv

\* A call is not affected by a step that leaves its own state alone.
LEMMA Untouched ==
  ASSUME NEW k \in Callers, CallOK(k),
         mode'[k] = mode[k], pc'[k] = pc[k], n'[k] = n[k], worker'[k] = worker[k],
         responses'[k] = responses[k], errs'[k] = errs[k], raw'[k] = raw[k], result'[k] = result[k]
  PROVE  CallOK(k)'
  BY DEF CallOK, AttemptsInTurn, OneOutcome, WithinMax, Ended, Empty, FirstErrors

\* An attempt under way is the current one, and nothing waits in the channels.
LEMMA UnderWay ==
  ASSUME Inv, NEW k \in Callers, NEW i \in Attempts, worker[k][i] \notin {"off", "done"}
  PROVE  i = n[k] /\ Empty(k) /\ pc[k] \in {"select", "returned"} /\ result[k] \in {"none", "ctxError"}
<1>1. CallOK(k) /\ n[k] \in 0..MaxAttempts /\ i \in 1..MaxAttempts /\ MaxAttempts \in Nat
  BY BoundsAssumption DEF Inv, CallTypes, Attempts
<1>2. i = n[k]
  BY <1>1 DEF CallOK, AttemptsInTurn
<1>3. Empty(k)
  BY <1>1, <1>2 DEF CallOK, OneOutcome, Ended
<1>4. pc[k] \in {"select", "returned"} /\ result[k] \in {"none", "ctxError"}
  BY <1>1, <1>2 DEF CallOK, Ended, Inv, CallTypes, Results
<1>. QED  BY <1>2, <1>3, <1>4

\* The steps of an attempt that send nothing.
LEMMA WorkerStep ==
  ASSUME Inv, NEW k \in Callers, NEW i \in Attempts, NEW from, NEW to \in WorkerPoints \ {"off", "done"},
         from \notin {"off", "done"}, WorkerTo(k, i, from, to),
         UNCHANGED <<mode, pc, n, ctx, responses, errs, raw, result>>
  PROVE  Inv'
<1>1. i = n[k] /\ Empty(k) /\ pc[k] \in {"select", "returned"} /\ result[k] \in {"none", "ctxError"}
  BY UnderWay DEF WorkerTo
<1>2. CallTypes'
  BY DEF Inv, CallTypes, WorkerTo
<1>3. CallOK(k)'
  BY <1>1
  DEF Inv, CallTypes, WorkerTo, CallOK, AttemptsInTurn, OneOutcome, WithinMax, Ended, Empty, FirstErrors, WorkerPoints
<1>4. ASSUME NEW j \in Callers, j # k PROVE CallOK(j)'
  BY <1>4, Untouched DEF Inv, CallTypes, WorkerTo
<1>. QED  BY <1>2, <1>3, <1>4 DEF Inv

\* An attempt hands over its outcome.
LEMMA SendStep ==
  ASSUME Inv, NEW k \in Callers, NEW i \in Attempts, SendErr(k, i) \/ SendResponse(k, i)
  PROVE  Inv'
<1>1. i = n[k] /\ Empty(k) /\ pc[k] \in {"select", "returned"} /\ result[k] \in {"none", "ctxError"}
  BY UnderWay DEF WorkerTo, SendErr, SendResponse
<1>2. /\ worker' = [worker EXCEPT ![k][i] = "done"]
      /\ UNCHANGED <<mode, pc, n, ctx, raw, result>>
      /\ \/ errs' = [errs EXCEPT ![k] = <<i>>] /\ responses' = responses
         \/ responses' = [responses EXCEPT ![k] = <<i>>] /\ errs' = errs
  BY DEF WorkerTo, SendErr, SendResponse
<1>3. CallTypes'
  <2>1. <<i>> \in Buffers /\ "done" \in WorkerPoints
    BY DEF Buffers, WorkerPoints
  <2>2. worker' \in [Callers -> [Attempts -> WorkerPoints]]
    BY <1>2, <2>1 DEF Inv, CallTypes
  <2>3. errs \in [Callers -> Buffers] /\ responses \in [Callers -> Buffers]
    BY DEF Inv, CallTypes
  <2>4. [errs EXCEPT ![k] = <<i>>] \in [Callers -> Buffers] /\ [responses EXCEPT ![k] = <<i>>] \in [Callers -> Buffers]
    BY <2>1, <2>3, Zenon
  <2>5. errs' \in [Callers -> Buffers] /\ responses' \in [Callers -> Buffers]
    BY <1>2, <2>3, <2>4
  <2>. QED  BY <1>2, <2>2, <2>5 DEF Inv, CallTypes
<1>4. CallOK(k)'
  <2>1. CallOK(k) /\ n[k] \in Attempts /\ worker'[k] = [worker[k] EXCEPT ![n[k]] = "done"]
    BY <1>1, <1>2 DEF Inv, CallTypes
  <2>2. AttemptsInTurn(k)' /\ Ended(k)' /\ WithinMax(k)'
    BY <1>1, <1>2, <2>1, BoundsAssumption DEF Inv, CallTypes, CallOK, AttemptsInTurn, Ended, WithinMax, Attempts
  <2>3. OneOutcome(k)' /\ ~Empty(k)'
    <3>1. n'[k] = i /\ <<i>> # <<>>
      BY <1>1, <1>2
    <3>2. \/ errs'[k] = <<i>> /\ responses'[k] = <<>>
          \/ responses'[k] = <<i>> /\ errs'[k] = <<>>
      BY <1>1, <1>2 DEF Inv, CallTypes, Empty
    <3>. QED  BY <2>2, <3>1, <3>2 DEF OneOutcome, Empty
  <2>4. worker'[k][n'[k]] # "off"
    BY <2>2 DEF Ended
  <2>5. pc'[k] = "select" => n'[k] > 0 /\ raw'[k] = FirstErrors(n'[k] - 1) /\ result'[k] = "none"
    BY <1>2, <2>1 DEF CallOK
  <2>6. n'[k] > 0
    BY <1>2, <2>1, BoundsAssumption DEF Attempts
  <2>. QED  BY <1>1, <1>2, <2>2, <2>3, <2>4, <2>5, <2>6 DEF CallOK
<1>5. ASSUME NEW j \in Callers, j # k PROVE CallOK(j)'
  BY <1>2, <1>5, Untouched DEF Inv, CallTypes
<1>. QED  BY <1>3, <1>4, <1>5 DEF Inv

LEMMA LaunchStep ==
  ASSUME Inv, NEW k \in Callers, Launch(k)
  PROVE  Inv'
<1>1. /\ CallOK(k) /\ pc[k] = "launch" /\ n[k] \in 0..MaxAttempts /\ n[k] < MaxAttempts
      /\ MaxAttempts \in Nat /\ n'[k] = n[k] + 1 /\ n[k] + 1 \in Attempts
  BY BoundsAssumption DEF Inv, CallTypes, CallOK, Launch, Attempts
<1>2. CallTypes'
  BY <1>1 DEF Inv, CallTypes, Launch, WorkerPoints, Attempts
<1>3. CallOK(k)'
  <2>1. worker'[k] = [worker[k] EXCEPT ![n[k] + 1] = "endpoints"] /\ pc'[k] = "select"
    BY DEF Inv, CallTypes, Launch
  <2>2. AttemptsInTurn(k)' /\ worker'[k][n'[k]] = "endpoints"
    BY <1>1, <2>1 DEF Inv, CallTypes, CallOK, AttemptsInTurn, Ended, Attempts
  <2>3. OneOutcome(k)' /\ Empty(k)'
    BY <1>1 DEF CallOK, OneOutcome, Empty, Launch
  <2>4. WithinMax(k)'
    BY <1>1, <2>1, BoundsAssumption DEF CallOK, WithinMax, Launch
  <2>5. raw'[k] = FirstErrors(n'[k] - 1) /\ result'[k] = "none"
    <3>1. n'[k] - 1 = n[k]
      BY <1>1
    <3>. QED  BY <1>1, <3>1 DEF CallOK, Launch
  <2>. QED
    BY <1>1, <2>1, <2>2, <2>3, <2>4, <2>5 DEF CallOK, Ended
<1>4. ASSUME NEW j \in Callers, j # k PROVE CallOK(j)'
  BY <1>4, Untouched DEF Inv, CallTypes, Launch
<1>. QED  BY <1>2, <1>3, <1>4 DEF Inv

LEMMA SelectOtherStep ==
  ASSUME Inv, NEW k \in Callers, SelectDone(k) \/ SelectResponse(k)
  PROVE  Inv'
<1>1. CallTypes'
  <2>1. /\ mode' = mode /\ n' = n /\ worker' = worker /\ errs' = errs /\ raw' = raw
        /\ pc' = [pc EXCEPT ![k] = "returned"] /\ ctx' = [ctx EXCEPT ![k] = "done"]
        /\ responses' = responses \/ responses' = [responses EXCEPT ![k] = <<>>]
        /\ \E v \in Results : result' = [result EXCEPT ![k] = v]
    BY DEF SelectDone, SelectResponse, Return, Results
  <2>2. responses' \in [Callers -> Buffers]
    BY <2>1 DEF Inv, CallTypes, Buffers
  <2>3. /\ pc' \in [Callers -> {"launch", "select", "returned"}] /\ ctx' \in [Callers -> {"live", "done"}]
        /\ result' \in [Callers -> Results]
    BY <2>1 DEF Inv, CallTypes
  <2>. QED  BY <2>1, <2>2, <2>3 DEF Inv, CallTypes
<1>2. /\ CallOK(k) /\ pc[k] = "select" /\ n[k] > 0 /\ worker[k][n[k]] # "off"
      /\ raw[k] = FirstErrors(n[k] - 1)
      /\ n' = n /\ mode' = mode /\ worker' = worker /\ raw' = raw /\ errs' = errs
      /\ pc'[k] = "returned"
  BY DEF Inv, CallTypes, CallOK, SelectDone, SelectResponse, Return
<1>3. AttemptsInTurn(k)' /\ WithinMax(k)'
  BY <1>2 DEF CallOK, AttemptsInTurn, WithinMax
<1>4. ASSUME SelectDone(k) PROVE CallOK(k)'
  <2>1. result'[k] = "ctxError" /\ responses' = responses
    BY <1>4 DEF Inv, CallTypes, SelectDone, Return
  <2>2. OneOutcome(k)'
    BY <1>2, <2>1 DEF CallOK, OneOutcome, Empty, Ended
  <2>. QED  BY <1>2, <1>3, <2>1, <2>2 DEF CallOK
<1>5. ASSUME SelectResponse(k) PROVE CallOK(k)'
  <2>1. result'[k] = "response" /\ responses'[k] = <<>> /\ responses[k] # <<>>
    BY <1>5 DEF Inv, CallTypes, SelectResponse, Return
  <2>2. errs[k] = <<>> /\ Ended(k)
    BY <1>2, <2>1 DEF CallOK, OneOutcome, Empty
  <2>3. Empty(k)' /\ Ended(k)' /\ OneOutcome(k)'
    BY <1>2, <2>1, <2>2 DEF OneOutcome, Empty, Ended
  <2>4. raw'[k] = FirstErrors(n'[k] - 1)
    BY <1>2
  <2>. QED  BY <1>2, <1>3, <2>1, <2>3, <2>4 DEF CallOK
<1>6. CallOK(k)'
  BY <1>4, <1>5
<1>7. ASSUME NEW j \in Callers, j # k PROVE CallOK(j)'
  BY <1>7, Untouched DEF Inv, CallTypes, SelectDone, SelectResponse, Return
<1>. QED  BY <1>1, <1>6, <1>7 DEF Inv

LEMMA SelectErrStep ==
  ASSUME Inv, NEW k \in Callers, SelectErr(k)
  PROVE  Inv'
<1>1. /\ CallOK(k) /\ pc[k] = "select" /\ n[k] \in 1..MaxAttempts /\ MaxAttempts \in Nat /\ n[k] \in Attempts
      /\ errs[k] = <<n[k]>> /\ responses[k] = <<>> /\ Ended(k)
      /\ raw[k] = FirstErrors(n[k] - 1) /\ result[k] = "none"
  BY BoundsAssumption DEF Inv, CallTypes, CallOK, OneOutcome, Empty, SelectErr, Attempts
<1>2. PICK keep \in KeepTrying(k, n[k]) :
          IF keep
          THEN pc' = [pc EXCEPT ![k] = "launch"] /\ UNCHANGED <<result, ctx>>
          ELSE Return(k, "retryError")
  BY DEF SelectErr
<1>3. raw'[k] = FirstErrors(n[k])
  <2>1. n[k] - 1 \in Nat /\ (n[k] - 1) + 1 = n[k]
    BY <1>1
  <2>2. FirstErrors(n[k] - 1) \o <<n[k]>> = FirstErrors(n[k])
    BY <2>1, OneMore
  <2>. QED  BY <1>1, <2>2 DEF SelectErr, Inv, CallTypes
<1>4. CallTypes'
  <2>1. /\ mode' = mode /\ n' = n /\ worker' = worker /\ responses' = responses
        /\ errs' = [errs EXCEPT ![k] = <<>>] /\ raw' = [raw EXCEPT ![k] = @ \o errs[k]]
    BY DEF SelectErr
  <2>2. /\ \E v \in {"launch", "select", "returned"} : pc' = [pc EXCEPT ![k] = v]
        /\ ctx' = ctx \/ ctx' = [ctx EXCEPT ![k] = "done"]
        /\ result' = result \/ \E v \in Results : result' = [result EXCEPT ![k] = v]
    BY <1>2 DEF Return, Results
  <2>3. errs' \in [Callers -> Buffers] /\ DOMAIN raw' = Callers
    BY <2>1 DEF Inv, CallTypes, Buffers
  <2>4. /\ pc' \in [Callers -> {"launch", "select", "returned"}] /\ ctx' \in [Callers -> {"live", "done"}]
        /\ result' \in [Callers -> Results]
    <3>1. /\ pc \in [Callers -> {"launch", "select", "returned"}] /\ ctx \in [Callers -> {"live", "done"}]
          /\ result \in [Callers -> Results]
      BY DEF Inv, CallTypes
    <3>2. pc' \in [Callers -> {"launch", "select", "returned"}]
      BY <2>2, <3>1
    <3>3. ctx' \in [Callers -> {"live", "done"}]
      BY <2>2, <3>1
    <3>4. result' \in [Callers -> Results]
      BY <2>2, <3>1
    <3>. QED  BY <3>2, <3>3, <3>4
  <2>. QED  BY <2>1, <2>3, <2>4 DEF Inv, CallTypes
<1>5. CallOK(k)'
  <2>1. n' = n /\ mode' = mode /\ worker' = worker /\ responses' = responses /\ errs'[k] = <<>>
    BY DEF Inv, CallTypes, SelectErr
  <2>2. AttemptsInTurn(k)' /\ Ended(k)' /\ Empty(k)' /\ OneOutcome(k)'
    BY <1>1, <2>1 DEF CallOK, AttemptsInTurn, Ended, Empty, OneOutcome
  <2>3. raw'[k] = FirstErrors(n'[k])
    BY <1>3, <2>1
  <2>4. /\ mode[k] = "max" => keep = (n[k] < MaxRetries)
        /\ mode[k] # "max" => keep = FALSE \/ keep = (n[k] < MaxAttempts)
    BY <1>2, Zenon DEF KeepTrying
  <2>5. CASE keep
    <3>1. pc'[k] = "launch" /\ result'[k] = "none"
      BY <1>1, <1>2, <2>5 DEF Inv, CallTypes
    <3>2. n[k] < MaxAttempts /\ (mode[k] = "max" => n[k] < MaxRetries)
      <4>1. n[k] < MaxRetries \/ n[k] < MaxAttempts
        BY <2>4, <2>5, Zenon
      <4>2. mode[k] = "max" => n[k] < MaxRetries
        BY <2>4, <2>5, Zenon
      <4>. QED  BY <1>1, <4>1, <4>2, BoundsAssumption
    <3>3. WithinMax(k)'
      BY <1>1, <2>1, <3>1, <3>2 DEF CallOK, WithinMax
    <3>. QED  BY <1>1, <2>1, <2>2, <2>3, <3>1, <3>2, <3>3 DEF CallOK
  <2>6. CASE ~keep
    <3>1. pc'[k] = "returned" /\ result'[k] = "retryError"
      BY <1>2, <2>6 DEF Inv, CallTypes, Return
    <3>2. mode[k] = "max" => n[k] >= MaxRetries
      <4>1. mode[k] = "max" => ~(n[k] < MaxRetries)
        BY <2>4, <2>6, Zenon
      <4>. QED  BY <1>1, <4>1, BoundsAssumption
    <3>3. WithinMax(k)'
      BY <1>1, <2>1, <3>1 DEF CallOK, WithinMax
    <3>4. mode'[k] = "max" => n'[k] = (IF MaxRetries = 0 THEN 1 ELSE MaxRetries)
      BY <1>1, <2>1, <3>2, BoundsAssumption DEF CallOK, WithinMax
    <3>5. n'[k] > 0 /\ worker'[k][n'[k]] # "off"
      BY <1>1, <2>1 DEF CallOK
    <3>. QED  BY <2>2, <2>3, <3>1, <3>3, <3>4, <3>5 DEF CallOK
  <2>. QED  BY <2>5, <2>6
<1>6. ASSUME NEW j \in Callers, j # k PROVE CallOK(j)'
  BY <1>6, <1>2, Untouched DEF Inv, CallTypes, SelectErr, Return
<1>. QED  BY <1>4, <1>5, <1>6 DEF Inv

LEMMA InvNext == Inv /\ [Next]_vars => Inv'
<1>. SUFFICES ASSUME Inv, [Next]_vars PROVE Inv'
  OBVIOUS
<1>1. ASSUME NEW k \in Callers, NEW i \in Attempts, ReadEndpoints(k, i) PROVE Inv'
  BY <1>1, WorkerStep DEF ReadEndpoints, WorkerPoints
<1>2. ASSUME NEW k \in Callers, NEW i \in Attempts, Pick(k, i) PROVE Inv'
  BY <1>2, WorkerStep DEF Pick, WorkerPoints
<1>3. ASSUME NEW k \in Callers, NEW i \in Attempts, Called(k, i) PROVE Inv'
  BY <1>3, WorkerStep DEF Called, WorkerPoints
<1>4. ASSUME UNCHANGED <<mode, pc, n, worker, responses, errs, raw, result>>,
             ctx' \in [Callers -> {"live", "done"}]
      PROVE  Inv'
  <2>1. CallTypes'
    BY <1>4 DEF Inv, CallTypes
  <2>2. ASSUME NEW k \in Callers PROVE CallOK(k)'
    BY <1>4, Untouched DEF Inv
  <2>. QED  BY <2>1, <2>2 DEF Inv
<1>5. ASSUME NEW k \in Callers, CtxDone(k) PROVE Inv'
  BY <1>4, <1>5 DEF CtxDone, Inv, CallTypes
<1>6. ASSUME NEW len \in 0..MaxLen, ListChanges(len) PROVE Inv'
  BY <1>4, <1>6 DEF ListChanges, Inv, CallTypes
<1>7. CASE UNCHANGED vars
  BY <1>4, <1>7 DEF vars, Inv, CallTypes
<1>. QED
  BY <1>1, <1>2, <1>3, <1>5, <1>6, <1>7, SendStep, LaunchStep, SelectOtherStep, SelectErrStep DEF Next

\* No attempt of any call ever waits to hand over its outcome, and every result
\* accounts for all attempts of its call.
THEOREM RetrySafe == Spec => [](SendNeverBlocks /\ ReturnAccountsForAttempts)
<1>1. Spec => []Inv
  BY InvInit, InvNext, PTL DEF Spec
<1>2. Inv => SendNeverBlocks
  BY UnderWay DEF SendNeverBlocks, Empty
<1>3. ASSUME Inv PROVE ReturnAccountsForAttempts
  <2>. SUFFICES ASSUME NEW k \in Callers
       PROVE  /\ \A i \in Attempts : worker[k][i] \notin {"off", "done"} => i = n[k]
              /\ result[k] = "response" => raw[k] = FirstErrors(n[k] - 1)
              /\ result[k] = "retryError" => raw[k] = FirstErrors(n[k])
              /\ result[k] \in {"response", "retryError"} => \A i \in 1..n[k] : worker[k][i] = "done"
              /\ mode[k] = "max" /\ result[k] = "retryError" =>
                    n[k] = (IF MaxRetries = 0 THEN 1 ELSE MaxRetries)
    BY DEF ReturnAccountsForAttempts, FirstErrors
  <2>1. CallOK(k) /\ n[k] \in 0..MaxAttempts /\ MaxAttempts \in Nat
    BY <1>3, BoundsAssumption DEF Inv, CallTypes
  <2>2. result[k] \in {"response", "retryError"} => \A i \in 1..n[k] : worker[k][i] = "done"
    BY <2>1 DEF CallOK, AttemptsInTurn, Ended, Attempts
  <2>. QED  BY <1>3, <2>1, <2>2, UnderWay DEF CallOK
<1>. QED  BY <1>1, <1>2, <1>3, PTL

\* Each attempt's goroutine ends when its endpoint has: the channel it sends to
\* has room, also after its call has returned.
THEOREM AttemptsHandOver == Spec => []SendNeverBlocks
<1>. QED  BY RetrySafe, PTL

\* A call in its select has an attempt under way or an outcome to take.
THEOREM OutcomesAreNotLost == Spec => []CallIsServed
<1>1. Spec => []Inv
  BY InvInit, InvNext, PTL DEF Spec
<1>2. ASSUME Inv PROVE CallIsServed
  <2>. SUFFICES ASSUME NEW k \in Callers, pc[k] = "select", Empty(k)
       PROVE  \E i \in Attempts : worker[k][i] \notin {"off", "done"}
    BY DEF CallIsServed, Empty
  <2>1. n[k] > 0 /\ worker[k][n[k]] # "off" /\ ~Ended(k)
    BY <1>2 DEF Inv, CallOK
  <2>2. n[k] \in Attempts
    BY <1>2, <2>1, BoundsAssumption DEF Inv, CallTypes, Attempts
  <2>3. worker[k][n[k]] # "done"
    BY <2>1 DEF Ended
  <2>. QED  BY <2>1, <2>2, <2>3
<1>. QED  BY <1>1, <1>2, PTL

-----------------------------------------------------------------------------
(* The balancer. *)

\* What a goroutine that is about to draw a number has read of the list.
PickersOK ==
    \A k \in Callers, i \in Attempts :
        worker[k][i] = "pick" =>
            snapshot[k][i] \in 1..MaxLen /\ (~moved => snapshot[k][i] = list)

\* The endpoints that have had their turn in the current round of the list.
HadTurn(e) == IF e < c % list THEN 1 ELSE 0

\* EvenPicks made exact: within a round only those that had their turn are ahead.
RoundRobin ==
    /\ c = drawn % 2^W
    /\ ~moved => \A d, e \in 0..(list - 1) :
          picks[d] - picks[e] <= (drawn \div 2^W) + HadTurn(d) - HadTurn(e)

BInv == TypeOK /\ PickersOK /\ RoundRobin

LEMMA DivMod ==
  ASSUME NEW x \in Nat, NEW m \in Nat \ {0}
  PROVE  x \div m \in Nat /\ x % m \in 0..(m - 1) /\ (x < m => x % m = x)
  OBVIOUS

\* The next number ends a round of m, or does not.
LEMMA NextNumber ==
  ASSUME NEW x \in Nat, NEW m \in Nat \ {0}
  PROVE  IF (x % m) + 1 < m
         THEN (x + 1) % m = (x % m) + 1 /\ (x + 1) \div m = x \div m
         ELSE (x + 1) % m = 0 /\ (x + 1) \div m = (x \div m) + 1
  OBVIOUS

LEMMA BInvInit == Init => BInv
<1>. SUFFICES ASSUME Init PROVE BInv
  OBVIOUS
<1>1. TypeOK
  <2>1. 0 \in 0..MaxAttempts /\ 0 \in 0..(2^W - 1) /\ 0 \in 0..MaxLen
    BY BoundsAssumption
  <2>2. <<>> \in Seq(Attempts) /\ <<>> \in Buffers
    BY DEF Buffers
  <2>. QED  BY <2>1, <2>2 DEF Init, TypeOK, WorkerPoints, Results
<1>2. PickersOK
  BY DEF Init, PickersOK
<1>3. 0 % 2^W = 0 /\ 0 \div 2^W \in Nat
  BY BoundsAssumption, DivMod
<1>4. \A e \in 0..(list - 1) : picks[e] = 0 /\ HadTurn(e) \in {0, 1}
  BY BoundsAssumption DEF Init, HadTurn
<1>5. \A d, e \in 0..(list - 1) : HadTurn(d) = HadTurn(e)
  <2>1. ASSUME list > 0 PROVE c % list = 0
    BY <2>1, BoundsAssumption DEF Init
  <2>. QED  BY <2>1, BoundsAssumption DEF Init, HadTurn
<1>6. ASSUME NEW d \in 0..(list - 1), NEW e \in 0..(list - 1)
      PROVE  picks[d] - picks[e] <= (drawn \div 2^W) + HadTurn(d) - HadTurn(e)
  <2>1. HadTurn(d) = HadTurn(e) /\ HadTurn(d) \in {0, 1} /\ drawn = 0
    BY <1>4, <1>5 DEF Init
  <2>. QED  BY <1>3, <1>4, <2>1
<1>7. RoundRobin
  BY <1>3, <1>6 DEF Init, RoundRobin
<1>. QED  BY <1>1, <1>2, <1>7 DEF BInv

\* A goroutine that is not about to draw a number, and a step of a call, leave
\* the balancer alone.
LEMMA OthersKeepPickers ==
  ASSUME BInv, UNCHANGED <<list, moved>>,
         \A k \in Callers, i \in Attempts :
             worker'[k][i] = "pick" => worker[k][i] = "pick" /\ snapshot'[k][i] = snapshot[k][i]
  PROVE  PickersOK'
  BY DEF BInv, PickersOK

LEMMA RoundRobinKept ==
  ASSUME RoundRobin, UNCHANGED lbVars
  PROVE  RoundRobin'
  BY DEF RoundRobin, HadTurn, lbVars

LEMMA ReadBInv ==
  ASSUME BInv, NEW k \in Callers, NEW i \in Attempts, ReadEndpoints(k, i)
  PROVE  BInv'
<1>1. TypeOK'
  BY DEF BInv, TypeOK, ReadEndpoints, WorkerTo, WorkerPoints, lbVars
<1>2. PickersOK'
  <2>1. /\ worker'[k][i] = "pick" => snapshot'[k][i] = list /\ list # 0
        /\ \A j \in Callers, m \in Attempts :
              j # k \/ m # i => worker'[j][m] = worker[j][m] /\ snapshot'[j][m] = snapshot[j][m]
    BY DEF BInv, TypeOK, ReadEndpoints, WorkerTo
  <2>2. list' = list /\ moved' = moved /\ list \in 0..MaxLen /\ MaxLen \in Nat
    BY BoundsAssumption DEF BInv, TypeOK, ReadEndpoints, lbVars
  <2>3. ASSUME NEW j \in Callers, NEW m \in Attempts, worker'[j][m] = "pick"
        PROVE  snapshot'[j][m] \in 1..MaxLen /\ (~moved => snapshot'[j][m] = list)
    BY <2>1, <2>2, <2>3 DEF BInv, PickersOK
  <2>. QED  BY <2>2, <2>3 DEF PickersOK
<1>3. RoundRobin'
  BY RoundRobinKept DEF BInv, ReadEndpoints
<1>. QED  BY <1>1, <1>2, <1>3 DEF BInv

\* Drawing a number gives the next endpoint its turn; the counter's wrap starts
\* the round anew, which is what may cost one more.
LEMMA PickBInv ==
  ASSUME BInv, NEW k \in Callers, NEW i \in Attempts, Pick(k, i)
  PROVE  BInv'
<1>. DEFINE s == snapshot[k][i]
            M == 2^W
            at == c % s
<1>1. /\ s \in 1..MaxLen /\ MaxLen \in Nat /\ M \in Nat \ {0} /\ c \in Nat /\ drawn \in Nat
      /\ list \in 0..MaxLen /\ picks \in [0..(MaxLen - 1) -> Nat]
      /\ c' = (c + 1) % M /\ drawn' = drawn + 1 /\ list' = list /\ moved' = moved
      /\ picks' = [picks EXCEPT ![at] = @ + 1] /\ (~moved => s = list)
  <2>1. /\ c' = (c + 1) % M /\ drawn' = drawn + 1 /\ list' = list /\ moved' = moved
        /\ picks' = [picks EXCEPT ![at] = @ + 1] /\ worker[k][i] = "pick"
    BY DEF Pick, WorkerTo
  <2>2. /\ MaxLen \in Nat /\ M \in Nat \ {0} /\ drawn \in Nat
        /\ list \in 0..MaxLen /\ picks \in [0..(MaxLen - 1) -> Nat]
    BY BoundsAssumption DEF BInv, TypeOK
  <2>3. c \in Nat
    <3>1. c \in 0..(2^W - 1)
      BY DEF BInv, TypeOK
    <3>. QED  BY <3>1
  <2>4. s \in 1..MaxLen /\ (~moved => s = list)
    BY <2>1 DEF BInv, PickersOK
  <2>. QED  BY <2>1, <2>2, <2>3, <2>4
<1>2. at \in 0..(s - 1) /\ at \in 0..(MaxLen - 1)
  <2>1. s \in Nat \ {0} /\ c \in Nat
    BY <1>1
  <2>2. at \in 0..(s - 1)
    BY <2>1, DivMod
  <2>3. s \in 1..MaxLen /\ MaxLen \in Nat
    BY <1>1
  <2>. HIDE DEF at, s
  <2>. QED  BY <2>2, <2>3
<1>3. TypeOK'
  <2>1. c' \in 0..(M - 1)
    <3>1. c + 1 \in Nat /\ M \in Nat \ {0} /\ c' = (c + 1) % M
      BY <1>1
    <3>. HIDE DEF M
    <3>2. (c + 1) % M \in 0..(M - 1)
      BY <3>1, DivMod
    <3>. QED  BY <3>1, <3>2
  <2>2. picks' \in [0..(MaxLen - 1) -> Nat] /\ drawn' \in Nat
    <3>1. /\ picks \in [0..(MaxLen - 1) -> Nat] /\ picks' = [picks EXCEPT ![at] = @ + 1]
          /\ drawn \in Nat /\ drawn' = drawn + 1
      BY <1>1
    <3>. HIDE DEF at
    <3>. QED  BY <1>2, <3>1
  <2>3. worker' \in [Callers -> [Attempts -> WorkerPoints]] /\ snapshot' \in [Callers -> [Attempts -> 0..MaxLen]]
    <3>1. /\ worker \in [Callers -> [Attempts -> WorkerPoints]] /\ worker' = [worker EXCEPT ![k][i] = "call"]
          /\ snapshot \in [Callers -> [Attempts -> 0..MaxLen]] /\ snapshot' = [snapshot EXCEPT ![k][i] = 0]
      BY DEF BInv, TypeOK, Pick, WorkerTo
    <3>2. 0 \in 0..MaxLen /\ "call" \in WorkerPoints
      BY BoundsAssumption DEF WorkerPoints
    <3>. QED  BY <3>1, <3>2
  <2>. QED  BY <2>1, <2>2, <2>3 DEF BInv, TypeOK, Pick
<1>4. PickersOK'
  BY OthersKeepPickers DEF BInv, TypeOK, Pick, WorkerTo
<1>5. /\ IF c + 1 < M THEN c' = c + 1 /\ drawn' \div M = drawn \div M
                      ELSE c' = 0 /\ drawn' \div M = (drawn \div M) + 1
      /\ c' = drawn' % M
  <2>1. c = drawn % M
    BY DEF BInv, RoundRobin
  <2>2. IF c + 1 < M THEN drawn' % M = c + 1 /\ drawn' \div M = drawn \div M
                     ELSE drawn' % M = 0 /\ drawn' \div M = (drawn \div M) + 1
    BY <1>1, <2>1, NextNumber
  <2>3. c \in 0..(M - 1)
    BY DEF BInv, TypeOK
  <2>4. IF c + 1 < M THEN (c + 1) % M = c + 1 ELSE (c + 1) % M = 0
    <3>1. c % M = c
      <4>1. c < M
        BY <1>1, <2>3
      <4>. QED  BY <1>1, <4>1, DivMod
    <3>. QED  BY <1>1, <3>1, NextNumber
  <2>. QED  BY <1>1, <2>2, <2>4
<1>6. ASSUME ~moved, NEW d \in 0..(list - 1), NEW e \in 0..(list - 1)
      PROVE  picks'[d] - picks'[e] <= (drawn' \div M) + HadTurn(d)' - HadTurn(e)'
  <2>1. s = list /\ list \in Nat \ {0}
    BY <1>1, <1>6
  <2>2. /\ picks'[d] = picks[d] + (IF d = at THEN 1 ELSE 0) /\ picks[d] \in Nat
        /\ picks'[e] = picks[e] + (IF e = at THEN 1 ELSE 0) /\ picks[e] \in Nat
    <3>1. /\ picks \in [0..(MaxLen - 1) -> Nat] /\ picks' = [picks EXCEPT ![at] = @ + 1]
          /\ at \in 0..(MaxLen - 1)
      BY <1>1, <1>2
    <3>2. d \in 0..(MaxLen - 1) /\ e \in 0..(MaxLen - 1)
      BY <1>1
    <3>. HIDE DEF at
    <3>. QED  BY <3>1, <3>2
  <2>3. picks[d] - picks[e] <= (drawn \div M) + HadTurn(d) - HadTurn(e)
    BY <1>6 DEF BInv, RoundRobin
  <2>4. drawn \div M \in Nat
    BY <1>1, DivMod
  <2>5. /\ HadTurn(d) = IF d < at THEN 1 ELSE 0
        /\ HadTurn(e) = IF e < at THEN 1 ELSE 0
        /\ HadTurn(d)' = IF d < c' % list THEN 1 ELSE 0
        /\ HadTurn(e)' = IF e < c' % list THEN 1 ELSE 0
    BY <1>1, <2>1 DEF HadTurn
  <2>6. CASE c + 1 < M
    <3>1. IF at + 1 < list THEN c' % list = at + 1 ELSE c' % list = 0 /\ at = list - 1
      <4>1. IF (c % list) + 1 < list THEN (c + 1) % list = (c % list) + 1 ELSE (c + 1) % list = 0
        BY <1>1, <2>1, NextNumber
      <4>2. c' = c + 1 /\ at = c % list
        BY <1>5, <2>1, <2>6
      <4>. QED  BY <1>2, <2>1, <4>1, <4>2
    <3>. QED  BY <1>2, <1>5, <2>1, <2>2, <2>3, <2>4, <2>5, <2>6, <3>1
  <2>7. CASE ~(c + 1 < M)
    <3>1. c' % list = 0
      BY <1>5, <2>1, <2>7
    <3>. QED  BY <1>2, <1>5, <2>1, <2>2, <2>3, <2>4, <2>5, <2>7, <3>1
  <2>. QED  BY <2>6, <2>7
<1>7. RoundRobin'
  BY <1>1, <1>5, <1>6 DEF RoundRobin
<1>. QED  BY <1>3, <1>4, <1>7 DEF BInv

LEMMA WorkerBInv ==
  ASSUME BInv, NEW k \in Callers, NEW i \in Attempts,
         Called(k, i) \/ SendErr(k, i) \/ SendResponse(k, i)
  PROVE  BInv'
<1>1. PICK from \in {"call", "failed", "succeeded"}, to \in {"failed", "succeeded", "done"} :
        WorkerTo(k, i, from, to)
  BY DEF Called, SendErr, SendResponse
<1>2. /\ UNCHANGED <<mode, pc, n, ctx, snapshot, raw, result, lbVars>>
      /\ errs' = errs \/ errs' = [errs EXCEPT ![k] = <<i>>]
      /\ responses' = responses \/ responses' = [responses EXCEPT ![k] = <<i>>]
  BY DEF Called, SendErr, SendResponse
<1>3. TypeOK'
  <2>1. worker' \in [Callers -> [Attempts -> WorkerPoints]]
    BY <1>1 DEF BInv, TypeOK, WorkerTo, WorkerPoints
  <2>2. <<i>> \in Buffers
    BY DEF Buffers
  <2>3. responses' \in [Callers -> Buffers] /\ errs' \in [Callers -> Buffers]
    <3>1. responses \in [Callers -> Buffers] /\ errs \in [Callers -> Buffers]
      BY DEF BInv, TypeOK
    <3>2. [errs EXCEPT ![k] = <<i>>] \in [Callers -> Buffers] /\ [responses EXCEPT ![k] = <<i>>] \in [Callers -> Buffers]
      BY <2>2, <3>1, Zenon
    <3>. QED  BY <1>2, <3>1, <3>2
  <2>. QED  BY <1>2, <2>1, <2>3 DEF BInv, TypeOK, lbVars
<1>4. PickersOK'
  <2>1. \A j \in Callers, m \in Attempts : worker'[j][m] = "pick" => worker[j][m] = "pick"
    BY <1>1 DEF BInv, TypeOK, WorkerTo
  <2>. QED  BY <1>2, <2>1, OthersKeepPickers DEF lbVars
<1>5. RoundRobin'
  BY <1>2, RoundRobinKept DEF BInv
<1>. QED  BY <1>3, <1>4, <1>5 DEF BInv

\* The steps of the call itself.  That no call launches more than MaxAttempts
\* attempts is the first part's invariant.
LEMMA CallBInv ==
  ASSUME Inv, BInv, NEW k \in Callers,
         Launch(k) \/ SelectDone(k) \/ SelectResponse(k) \/ SelectErr(k) \/ CtxDone(k)
  PROVE  BInv'
<1>1. UNCHANGED <<mode, snapshot, lbVars>>
  BY DEF Launch, SelectDone, SelectResponse, SelectErr, CtxDone
<1>2. /\ pc' \in [Callers -> {"launch", "select", "returned"}]
      /\ ctx' \in [Callers -> {"live", "done"}]
      /\ result' \in [Callers -> Results]
  <2>1. /\ pc' = pc \/ \E v \in {"launch", "select", "returned"} : pc' = [pc EXCEPT ![k] = v]
        /\ ctx' = ctx \/ ctx' = [ctx EXCEPT ![k] = "done"]
        /\ result' = result \/ \E v \in Results : result' = [result EXCEPT ![k] = v]
    <3>1. CASE Launch(k)
      BY <3>1 DEF Launch
    <3>2. CASE SelectDone(k)
      BY <3>2 DEF SelectDone, Return, Results
    <3>3. CASE SelectResponse(k)
      BY <3>3 DEF SelectResponse, Return, Results
    <3>4. CASE SelectErr(k)
      BY <3>4 DEF SelectErr, Return, Results
    <3>5. CASE CtxDone(k)
      BY <3>5 DEF CtxDone
    <3>. QED  BY <3>1, <3>2, <3>3, <3>4, <3>5
  <2>2. /\ pc \in [Callers -> {"launch", "select", "returned"}]
        /\ ctx \in [Callers -> {"live", "done"}] /\ result \in [Callers -> Results]
    BY DEF BInv, TypeOK
  <2>. QED  BY <2>1, <2>2
<1>3. /\ n' \in [Callers -> 0..MaxAttempts]
      /\ worker' \in [Callers -> [Attempts -> WorkerPoints]]
      /\ \A j \in Callers, m \in Attempts : worker'[j][m] = "pick" => worker[j][m] = "pick"
  <2>1. CASE Launch(k)
    <3>1. n[k] + 1 \in 0..MaxAttempts
      BY <2>1, BoundsAssumption DEF Launch, Inv, CallTypes, CallOK
    <3>. QED  BY <2>1, <3>1 DEF Launch, BInv, TypeOK, WorkerPoints
  <2>2. CASE ~Launch(k)
    BY <2>2 DEF BInv, TypeOK, SelectDone, SelectResponse, SelectErr, CtxDone
  <2>. QED  BY <2>1, <2>2
<1>4. responses' \in [Callers -> Buffers] /\ errs' \in [Callers -> Buffers]
  BY DEF BInv, TypeOK, Launch, SelectDone, SelectResponse, SelectErr, CtxDone, Buffers
<1>5. raw' \in [Callers -> Seq(Attempts)]
  <2>1. CASE SelectErr(k)
    <3>1. raw[k] \in Seq(Attempts) /\ errs[k] \in Seq(Attempts)
      <4>1. raw[k] \in Seq(Attempts) /\ errs[k] \in Buffers
        BY DEF BInv, TypeOK
      <4>2. ASSUME NEW b \in Buffers PROVE b \in Seq(Attempts)
        <5>1. b = <<>> \/ \E m \in Attempts : b = <<m>>
          BY DEF Buffers
        <5>2. <<>> \in Seq(Attempts)
          OBVIOUS
        <5>3. ASSUME NEW m \in Attempts PROVE <<m>> \in Seq(Attempts)
          OBVIOUS
        <5>. QED  BY <5>1, <5>2, <5>3, Zenon
      <4>. QED  BY <4>1, <4>2
    <3>2. raw[k] \o errs[k] \in Seq(Attempts)
      BY <3>1
    <3>. QED  BY <2>1, <3>2 DEF BInv, TypeOK, SelectErr
  <2>2. CASE ~SelectErr(k)
    BY <2>2 DEF BInv, TypeOK, Launch, SelectDone, SelectResponse, CtxDone
  <2>. QED  BY <2>1, <2>2
<1>6. TypeOK'
  BY <1>1, <1>2, <1>3, <1>4, <1>5 DEF BInv, TypeOK, lbVars
<1>7. PickersOK'
  BY <1>1, <1>3, OthersKeepPickers DEF lbVars
<1>8. RoundRobin'
  BY <1>1, RoundRobinKept DEF BInv
<1>. QED  BY <1>6, <1>7, <1>8 DEF BInv

LEMMA BInvNext == Inv /\ BInv /\ [Next]_vars => BInv'
<1>. SUFFICES ASSUME Inv, BInv, [Next]_vars PROVE BInv'
  OBVIOUS
<1>1. ASSUME NEW len \in 0..MaxLen, ListChanges(len) PROVE BInv'
  <2>1. TypeOK' /\ moved'
    BY <1>1 DEF BInv, TypeOK, ListChanges
  <2>2. PickersOK'
    BY <1>1, <2>1 DEF BInv, PickersOK, ListChanges
  <2>3. RoundRobin'
    BY <1>1, <2>1 DEF BInv, RoundRobin, ListChanges
  <2>. QED  BY <2>1, <2>2, <2>3 DEF BInv
<1>2. CASE UNCHANGED vars
  <2>1. TypeOK'
    BY <1>2 DEF BInv, TypeOK, vars
  <2>2. PickersOK' /\ RoundRobin'
    BY <1>2, RoundRobinKept DEF BInv, PickersOK, vars, lbVars
  <2>. QED  BY <2>1, <2>2 DEF BInv
<1>. QED  BY <1>1, <1>2, ReadBInv, PickBInv, WorkerBInv, CallBInv DEF Next

\* For every width of the counter, every list and every number of concurrent
\* calls: the state stays within its types, the counter within its width.
THEOREM RetryTypes == Spec => []TypeOK
<1>1. Spec => []Inv
  BY InvInit, InvNext, PTL DEF Spec
<1>2. Spec => []BInv
  BY <1>1, BInvInit, BInvNext, PTL DEF Spec
<1>3. BInv => TypeOK
  BY DEF BInv
<1>. QED  BY <1>2, <1>3, PTL

\* While the list stays the same, concurrent calls and their retries use its
\* endpoints evenly, up to one more for each wrap of the counter.
THEOREM BalancerIsEven == Spec => []EvenPicks
<1>1. Spec => []Inv
  BY InvInit, InvNext, PTL DEF Spec
<1>2. Spec => []BInv
  BY <1>1, BInvInit, BInvNext, PTL DEF Spec
<1>3. ASSUME BInv PROVE EvenPicks
  <2>. SUFFICES ASSUME ~moved, NEW d \in 0..(list - 1), NEW e \in 0..(list - 1)
       PROVE  picks[d] - picks[e] <= 1 + (drawn \div 2^W)
    BY DEF EvenPicks
  <2>1. picks[d] - picks[e] <= (drawn \div 2^W) + HadTurn(d) - HadTurn(e)
    BY <1>3 DEF BInv, RoundRobin
  <2>2. HadTurn(d) \in {0, 1} /\ HadTurn(e) \in {0, 1}
    BY DEF HadTurn
  <2>3. drawn \div 2^W \in Nat
    BY <1>3, BoundsAssumption, DivMod DEF BInv, TypeOK
  <2>4. picks[d] \in Nat /\ picks[e] \in Nat
    BY <1>3, BoundsAssumption DEF BInv, TypeOK
  <2>. QED  BY <2>1, <2>2, <2>3, <2>4
<1>. QED  BY <1>2, <1>3, PTL
=============================================================================
