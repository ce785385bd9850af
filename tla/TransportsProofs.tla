-------------------------- MODULE TransportsProofs --------------------------
(* Proofs about Transports, for every server, every chain with at most one   *)
(* Hystrix and every client: what operators do to the work, the shape of the *)
(* two stacks and the layers ahead of them (RequestShape), and on that what  *)
(* the breakers are told (BreakersAreTold), the answer of the server         *)
(* (OneAnswer) and the spans (SpansGoOutOnce).                               *)
EXTENDS Transports, SequenceTheorems, WellFoundedInduction, TLAPS

ServerKinds == {"main", "http", "jsonrpc", "grpc", "fasthttp"}
ClientKinds == {"httpClient", "jsonrpcClient", "grpcClient", "fasthttpClient"}
Kinds == ServerKinds \cup Middlewares \cup ClientKinds
Configs == [server : Servers, chain : Chains, client : Clients,
            traced : BOOLEAN, buffered : BOOLEAN]

(* Where a layer calls the next one; a client does not.                      *)
CallAt ==
  [main |-> 1, http |-> 4, jsonrpc |-> 7, grpc |-> 4, fasthttp |-> 4,
   httpClient |-> 0, jsonrpcClient |-> 0, grpcClient |-> 0, fasthttpClient |-> 0,
   handybreaker |-> 3, gobreaker |-> 2, hystrix |-> 1, erroring |-> 2, delaying |-> 2,
   trace |-> 3, signer |-> 2, parser |-> 2, basic |-> 2]

DeferredCalls == {"finalizer", "cancel", "close", "report", "finish"}
Results == {"ok", "err", "panic"}
Frames == [l : Nat, pc : Nat, defers : Seq(DeferredCalls)]
Threads == [st : {"off", "run", "unwind", "done"}, stack : Seq(Frames), res : Results]
Answers == {"result", "error"}
SpanStates == {"none", "open", "finished"}
TraceOps == {"start", "finish", "flush"}
TracePoints == {"before", "after", "finalizer"}
Works(n) ==
  [ctx : {"none", "live", "cancelled"}, body : {"none", "open", "closed"}, sent : Nat,
   code : Nat, ans : SUBSET Answers, handled : Nat, finalized : [1 .. n -> Nat], saw : Nat,
   late : BOOLEAN, told : [1 .. n -> Seq({"success", "failure"})],
   out : [1 .. n -> Results \cup {"none"}],
   span : [1 .. n -> [st : SpanStates, sent : Nat]]]

-----------------------------------------------------------------------------

(* A nonempty set of naturals below a bound has its maximum.                 *)
LEMMA MaxExists ==
  ASSUME NEW n \in Nat, NEW T \in SUBSET (0 .. n), T # {}
  PROVE  /\ Max(T) \in T
         /\ \A y \in T : Max(T) >= y
<1> DEFINE U == {n - y : y \in T}
<1>1. U \subseteq Nat /\ U # {}
  <2>1. U \subseteq Nat
    OBVIOUS
  <2>2. PICK y \in T : TRUE
    OBVIOUS
  <2>3. n - y \in U
    OBVIOUS
  <2> QED BY <2>1, <2>3
<1> DEFINE R == OpToRel(<, Nat)
<1>2. IsWellFoundedOn(R, Nat)
  BY NatLessThanWellFounded, Zenon
<1>3. PICK x \in U : \A y \in U : ~(<<y, x>> \in R)
  <2> HIDE DEF U, R
  <2> QED BY <1>1, <1>2, WFMin
<1>4. \A y \in U : ~(y < x)
  BY <1>3, <1>1 DEF OpToRel
<1>5. PICK z \in T : x = n - z
  BY <1>3, Zenon
<1>6. \A y \in T : z >= y
  <2> TAKE y \in T
  <2>1. n - y \in U
    OBVIOUS
  <2>2. ~(n - y < x)
    <3> HIDE DEF U
    <3> QED BY <2>1, <1>4
  <2> QED BY <2>2, <1>5
<1> QED BY <1>6 DEF Max


(* The stages by number, as far as the proofs tell them apart.               *)
LEMMA CallStages ==
  \A k \in Kinds :
    /\ Len(Stages[k]) \in Nat \ {0}
    /\ CallAt[k] \in 0 .. Len(Stages[k])
    /\ CallAt[k] = 0 <=> k \in ClientKinds
    /\ \A i \in 1 .. Len(Stages[k]) :
         /\ Stages[k][i] \in {"call", "spawn"} <=> i = CallAt[k]
         /\ Stages[k][i] = "spawn" => k = "hystrix"
         /\ Stages[k][i] = "call" => k # "hystrix"
         /\ Stages[k][i] = "wait" => k = "hystrix" /\ i = 2
<1> SUFFICES ASSUME NEW k \in Kinds
             PROVE  /\ Len(Stages[k]) \in Nat \ {0}
                    /\ CallAt[k] \in 0 .. Len(Stages[k])
                    /\ CallAt[k] = 0 <=> k \in ClientKinds
                    /\ \A i \in 1 .. Len(Stages[k]) :
                         /\ Stages[k][i] \in {"call", "spawn"} <=> i = CallAt[k]
                         /\ Stages[k][i] = "spawn" => k = "hystrix"
                         /\ Stages[k][i] = "call" => k # "hystrix"
                         /\ Stages[k][i] = "wait" => k = "hystrix" /\ i = 2
  OBVIOUS
<1> USE DEF Stages, CallAt, ClientKinds
<1>1. CASE k = "main" BY <1>1
<1>2. CASE k = "http" BY <1>2 DEF HttpServer
<1>3. CASE k = "jsonrpc" BY <1>3 DEF JsonrpcServer
<1>4. CASE k = "grpc" BY <1>4 DEF GrpcServer
<1>5. CASE k = "fasthttp" BY <1>5 DEF FasthttpServer
<1>6. CASE k = "httpClient" BY <1>6 DEF HttpClient
<1>7. CASE k = "jsonrpcClient" BY <1>7 DEF JsonrpcClient
<1>8. CASE k = "grpcClient" BY <1>8 DEF GrpcClient
<1>9. CASE k = "fasthttpClient" BY <1>9 DEF FasthttpClient
<1>10. CASE k = "handybreaker" BY <1>10 DEF HandyBreaker
<1>11. CASE k = "gobreaker" BY <1>11 DEF Gobreaker
<1>12. CASE k = "hystrix" BY <1>12 DEF Hystrix
<1>13. CASE k = "erroring" BY <1>13 DEF ErroringLimiter
<1>14. CASE k = "delaying" BY <1>14 DEF DelayingLimiter
<1>15. CASE k = "trace" BY <1>15 DEF TraceEndpoint
<1>16. CASE k = "signer" BY <1>16 DEF NewSigner
<1>17. CASE k = "parser" BY <1>17 DEF NewParser
<1>18. CASE k = "basic" BY <1>18 DEF AuthMiddleware
<1> QED
  BY <1>1, <1>2, <1>3, <1>4, <1>5, <1>6, <1>7, <1>8, <1>9, <1>10, <1>11, <1>12, <1>13,
     <1>14, <1>15, <1>16, <1>17, <1>18 DEF Kinds, ServerKinds, Middlewares

(* The layers of a configuration: a server, middlewares with one Hystrix at  *)
(* most, and a client.                                                       *)
LEMMA LayerKinds ==
  ASSUME config \in Configs
  PROVE  /\ Len(Layers) \in Nat /\ Len(Layers) >= 2
         /\ DOMAIN Layers = 1 .. Len(Layers)
         /\ Layers[1] = Server /\ Server \in ServerKinds
         /\ Layers[Len(Layers)] \in ClientKinds
         /\ \A i \in 2 .. Len(Layers) - 1 : Layers[i] \in Middlewares
         /\ \A i \in 1 .. Len(Layers) : Layers[i] \in Kinds
         /\ \A i, j \in 1 .. Len(Layers) :
              Layers[i] = "hystrix" /\ Layers[j] = "hystrix" => i = j
<1>1. /\ config.server \in ServerKinds
      /\ config.client \in ClientKinds
      /\ config.chain \in Chains
  BY LayersAssumption DEF Configs, ServerKinds, ClientKinds
<1>2. PICK c \in Chains : c = config.chain
  BY <1>1
<1>3. /\ c \in Seq(Middlewares)
      /\ \A p, q \in DOMAIN c : c[p] = "hystrix" /\ c[q] = "hystrix" => p = q
  BY LayersAssumption
<1>4. PICK s \in ServerKinds, k \in ClientKinds : s = config.server /\ k = config.client
  BY <1>1
<1>5. /\ c \in Seq(Kinds) /\ Len(c) \in Nat /\ DOMAIN c = 1 .. Len(c)
      /\ \A i \in 1 .. Len(c) : c[i] \in Middlewares
  BY <1>3, SeqMonotonic, LenProperties, ElementOfSeq DEF Kinds
<1>6. <<s>> \in Seq(Kinds) /\ Len(<<s>>) = 1 /\ <<s>>[1] = s /\ <<k>> \in Seq(Kinds)
      /\ Len(<<k>>) = 1 /\ <<k>>[1] = k
  BY DEF Kinds
<1>7. PICK a \in Seq(Kinds) : a = <<s>> \o c
  BY <1>5, <1>6, ConcatProperties
<1>8. /\ Len(a) = 1 + Len(c)
      /\ \A i \in 1 .. 1 + Len(c) : a[i] = IF i <= 1 THEN s ELSE c[i - 1]
  BY <1>5, <1>6, <1>7, ConcatProperties
<1>9. PICK b \in Seq(Kinds) : b = a \o <<k>>
  BY <1>6, <1>7, ConcatProperties
<1>10. /\ Len(b) = 2 + Len(c)
       /\ \A i \in 1 .. 2 + Len(c) : b[i] = IF i <= 1 + Len(c) THEN a[i] ELSE k
  <2>1. /\ Len(b) = Len(a) + 1
        /\ \A i \in 1 .. Len(a) + 1 : b[i] = IF i <= Len(a) THEN a[i] ELSE <<k>>[i - Len(a)]
    BY <1>6, <1>7, <1>9, ConcatProperties
  <2> QED BY <2>1, <1>8, <1>6, <1>5
<1>11. Layers = b
  BY <1>2, <1>4, <1>7, <1>9 DEF Layers
<1>12. DOMAIN b = 1 .. Len(b)
  BY LenProperties
<1>13. b[1] = s /\ b[Len(b)] = k /\ \A i \in 2 .. Len(b) - 1 : b[i] = c[i - 1]
  BY <1>5, <1>8, <1>10
<1>14. \A i, j \in 1 .. Len(b) : b[i] = "hystrix" /\ b[j] = "hystrix" => i = j
  <2> SUFFICES ASSUME NEW i \in 1 .. Len(b), NEW j \in 1 .. Len(b),
                      b[i] = "hystrix", b[j] = "hystrix"
               PROVE  i = j
    OBVIOUS
  <2>1. i \in 2 .. Len(b) - 1 /\ j \in 2 .. Len(b) - 1
    BY <1>13, <1>10, <1>5 DEF ServerKinds, ClientKinds
  <2>2. i - 1 \in DOMAIN c /\ j - 1 \in DOMAIN c /\ c[i - 1] = "hystrix" /\ c[j - 1] = "hystrix"
    BY <2>1, <1>13, <1>10, <1>5
  <2>3. i - 1 = j - 1
    BY <2>2, <1>3
  <2> QED BY <2>3
<1>15. \A i \in 2 .. Len(b) - 1 : b[i] \in Middlewares
  BY <1>13, <1>10, <1>5
<1>16. \A i \in 1 .. Len(b) : b[i] \in Kinds
  BY <1>9, ElementOfSeq
<1> QED BY <1>4, <1>5, <1>10, <1>11, <1>12, <1>13, <1>14, <1>15, <1>16 DEF Server

-----------------------------------------------------------------------------

(* What the operators on the work of a request keep.                         *)
SameAnswer(x, y) ==
  /\ y.sent = x.sent /\ y.code = x.code /\ y.ans = x.ans /\ y.handled = x.handled
  /\ y.finalized = x.finalized /\ y.saw = x.saw
SameReply(x, y) ==
  /\ y.sent = x.sent /\ y.code = x.code /\ y.ans = x.ans /\ y.handled = x.handled
  /\ y.finalized[1] = x.finalized[1] /\ y.saw = x.saw
SameCalls(x, y) == y.told = x.told /\ y.out = x.out

(* The same answer is the same reply.                                        *)
LEMMA AnswerIsReply ==
  ASSUME NEW x, NEW y, SameAnswer(x, y)
  PROVE  SameReply(x, y)
BY DEF SameAnswer, SameReply

WithOut(x, l, v) == [x EXCEPT !.out[l] = v]
WholeAnswer(x, c, b) == [x EXCEPT !.sent = c, !.code = c, !.ans = {b}]
WithSpan(x, l, v) == [x EXCEPT !.span[l].st = v]

(* Setting the outcome of a layer leaves the rest of the work alone.         *)
LEMMA OutSet ==
  ASSUME NEW n \in Nat, NEW x \in Works(n), NEW l \in 1 .. n, NEW v \in Results
  PROVE  LET y == WithOut(x, l, v) IN
         /\ y \in Works(n) /\ SameAnswer(x, y) /\ y.told = x.told /\ y.span = x.span
         /\ y.out[l] = v
         /\ \A m \in 1 .. n : m # l => y.out[m] = x.out[m]
<1>0. x.out \in [1 .. n -> Results \cup {"none"}]
  BY DEF Works
<1>1. PICK o \in [1 .. n -> Results \cup {"none"}] : o = [x.out EXCEPT ![l] = v]
  BY <1>0
<1>2. WithOut(x, l, v) = [x EXCEPT !.out = o]
  BY <1>1 DEF Works, WithOut
<1>3. o[l] = v /\ \A m \in 1 .. n : m # l => o[m] = x.out[m]
  BY <1>0, <1>1
<1>4. [x EXCEPT !.out = o] \in Works(n) /\ [x EXCEPT !.out = o].out = o
  BY <1>1 DEF Works
<1>5. LET y == [x EXCEPT !.out = o] IN SameAnswer(x, y) /\ y.told = x.told /\ y.span = x.span
  BY DEF Works, SameAnswer
<1> QED BY <1>2, <1>3, <1>4, <1>5

(* Telling a breaker leaves the rest of the work alone.                      *)
LEMMA TellFacts ==
  ASSUME NEW n \in Nat, NEW x \in Works(n), NEW l \in 1 .. n, NEW res \in Results
  PROVE  LET y == Tell(x, l, res) IN
         /\ y \in Works(n) /\ SameAnswer(x, y) /\ y.out = x.out /\ y.span = x.span
         /\ y.told[l] = Append(x.told[l], IF res = "err" THEN "failure" ELSE "success")
         /\ \A m \in 1 .. n : m # l => y.told[m] = x.told[m]
<1> DEFINE Verdicts == Seq({"success", "failure"})
<1>0. x.told \in [1 .. n -> Verdicts]
  BY DEF Works
<1>1. PICK v \in {"success", "failure"} : v = IF res = "err" THEN "failure" ELSE "success"
  OBVIOUS
<1>2. PICK o : o = [x.told EXCEPT ![l] = Append(@, v)]
  OBVIOUS
<1>3. Append(x.told[l], v) \in Verdicts
  BY <1>0, AppendProperties
<1>4. /\ o \in [1 .. n -> Verdicts]
      /\ o[l] = Append(x.told[l], v)
      /\ \A m \in 1 .. n : m # l => o[m] = x.told[m]
  <2> HIDE DEF Verdicts
  <2> QED BY <1>2, <1>3, <1>0
<1>5. Tell(x, l, res) = [x EXCEPT !.told = o]
  BY <1>1, <1>2 DEF Works, Tell
<1>6. [x EXCEPT !.told = o] \in Works(n)
  BY <1>4 DEF Works
<1>7. /\ SameAnswer(x, [x EXCEPT !.told = o])
      /\ [x EXCEPT !.told = o].out = x.out /\ [x EXCEPT !.told = o].span = x.span
      /\ [x EXCEPT !.told = o].told = o
  BY DEF Works, SameAnswer
<1> HIDE DEF Verdicts
<1> QED BY <1>1, <1>4, <1>5, <1>6, <1>7

(* Setting the span of a layer leaves the rest of the work alone.            *)
LEMMA SpanSet ==
  ASSUME NEW n \in Nat, NEW x \in Works(n), NEW l \in 1 .. n,
         NEW v \in SpanStates
  PROVE  LET y == WithSpan(x, l, v) IN
         /\ y \in Works(n) /\ SameAnswer(x, y) /\ SameCalls(x, y)
         /\ y.span[l].st = v /\ y.span[l].sent = x.span[l].sent
         /\ \A m \in 1 .. n : m # l => y.span[m] = x.span[m]
<1> DEFINE Spans == [st : SpanStates, sent : Nat]
<1>0. x.span \in [1 .. n -> Spans]
  BY DEF Works
<1>1. x.span[l] \in Spans
  BY <1>0
<1>2. PICK s \in Spans : s = [st |-> v, sent |-> x.span[l].sent]
  BY <1>1
<1>3. PICK o \in [1 .. n -> Spans] : o = [x.span EXCEPT ![l] = s]
  <2> HIDE DEF Spans
  <2> QED BY <1>0
<1>4. [x.span[l] EXCEPT !.st = v] = s
  BY <1>1, <1>2
<1>5. WithSpan(x, l, v) = [x EXCEPT !.span = o]
  BY <1>3, <1>4 DEF Works, WithSpan
<1>6. o[l] = s /\ \A m \in 1 .. n : m # l => o[m] = x.span[m]
  <2> HIDE DEF Spans
  <2> QED BY <1>3, <1>0
<1>7. [x EXCEPT !.span = o] \in Works(n)
  BY <1>3 DEF Works
<1>8. /\ SameAnswer(x, [x EXCEPT !.span = o]) /\ SameCalls(x, [x EXCEPT !.span = o])
      /\ [x EXCEPT !.span = o].span = o
  BY DEF Works, SameAnswer, SameCalls
<1> HIDE DEF Spans
<1> QED BY <1>2, <1>5, <1>6, <1>7, <1>8

(* Sending a span changes that span only.                                    *)
LEMMA SentFacts ==
  ASSUME NEW n \in Nat, NEW x \in Works(n), NEW l \in 1 .. n
  PROVE  LET y == Sent(x, l) IN
         /\ y \in Works(n) /\ SameAnswer(x, y) /\ SameCalls(x, y)
         /\ y.span[l].st = x.span[l].st /\ y.span[l].sent = x.span[l].sent + 1
         /\ \A m \in 1 .. n : m # l => y.span[m] = x.span[m]
<1> DEFINE Spans == [st : SpanStates, sent : Nat]
<1>0. x.span \in [1 .. n -> Spans]
  BY DEF Works
<1>1. x.span[l] \in Spans
  BY <1>0
<1>2. PICK s \in Spans : s = [st |-> x.span[l].st, sent |-> x.span[l].sent + 1]
  <2>1. x.span[l].st \in SpanStates /\ x.span[l].sent + 1 \in Nat
    BY <1>1
  <2> QED BY <2>1
<1>3. PICK o \in [1 .. n -> Spans] : o = [x.span EXCEPT ![l] = s]
  <2> HIDE DEF Spans
  <2> QED BY <1>0
<1>4. [x.span[l] EXCEPT !.sent = @ + 1] = s
  BY <1>1, <1>2
<1>5. Sent(x, l) = [x EXCEPT !.span = o]
  BY <1>3, <1>4 DEF Works, Sent
<1>6. o[l] = s /\ \A m \in 1 .. n : m # l => o[m] = x.span[m]
  <2> HIDE DEF Spans
  <2> QED BY <1>3, <1>0
<1>7. [x EXCEPT !.span = o] \in Works(n)
  BY <1>3 DEF Works
<1>8. /\ SameAnswer(x, [x EXCEPT !.span = o]) /\ SameCalls(x, [x EXCEPT !.span = o])
      /\ [x EXCEPT !.span = o].span = o
  BY DEF Works, SameAnswer, SameCalls
<1> HIDE DEF Spans
<1> QED BY <1>2, <1>5, <1>6, <1>7, <1>8

(* A header and a body change the answer only.                               *)
LEMMA ReplyFacts ==
  ASSUME NEW n \in Nat, NEW x \in Works(n), NEW c \in Nat, NEW b \in Answers,
         NEW y, y = Body(WriteHeader(x, c), b)
  PROVE  /\ y \in Works(n) /\ SameCalls(x, y) /\ y.span = x.span
         /\ y.sent = (IF x.sent = 0 THEN c ELSE x.sent) /\ y.code = c
         /\ y.ans = x.ans \cup {b} /\ y.handled = x.handled
         /\ y.finalized = x.finalized /\ y.saw = x.saw
<1>1. PICK d \in Nat : d = IF x.sent = 0 THEN c ELSE x.sent
  BY DEF Works
<1>2. PICK e \in SUBSET Answers : e = x.ans \cup {b}
  BY DEF Works
<1>3. WriteHeader(x, c) = [x EXCEPT !.sent = d, !.code = c]
  BY <1>1 DEF Works, WriteHeader
<1>4. y = [x EXCEPT !.sent = d, !.code = c, !.ans = e]
  BY <1>2, <1>3 DEF Works, Body
<1>5. y \in Works(n)
  BY <1>1, <1>2, <1>4 DEF Works
<1>6. /\ y.sent = d /\ y.code = c /\ y.ans = e /\ y.handled = x.handled
      /\ y.span = x.span /\ y.finalized = x.finalized /\ y.saw = x.saw
  BY <1>4 DEF Works
<1>7. SameCalls(x, y)
  BY <1>4 DEF Works, SameCalls
<1> QED BY <1>1, <1>2, <1>5, <1>6, <1>7

(* Writing a header changes the answer only.                                 *)
LEMMA HeaderFacts ==
  ASSUME NEW n \in Nat, NEW x \in Works(n), NEW c \in Nat, NEW y, y = WriteHeader(x, c)
  PROVE  /\ y \in Works(n) /\ SameCalls(x, y) /\ y.span = x.span
         /\ y.sent = (IF x.sent = 0 THEN c ELSE x.sent) /\ y.code = c
         /\ y.ans = x.ans /\ y.handled = x.handled
         /\ y.finalized = x.finalized /\ y.saw = x.saw
<1>1. PICK d \in Nat : d = IF x.sent = 0 THEN c ELSE x.sent
  BY DEF Works
<1>2. y = [x EXCEPT !.sent = d, !.code = c]
  BY <1>1 DEF Works, WriteHeader
<1>3. y \in Works(n)
  BY <1>1, <1>2 DEF Works
<1>4. /\ y.sent = d /\ y.code = c /\ y.ans = x.ans /\ y.handled = x.handled
      /\ y.span = x.span /\ y.finalized = x.finalized /\ y.saw = x.saw
  BY <1>2 DEF Works
<1>5. SameCalls(x, y)
  BY <1>2 DEF Works, SameCalls
<1> QED BY <1>1, <1>3, <1>4, <1>5

(* The error handler changes the answer only.                                *)
LEMMA HandleFacts ==
  ASSUME NEW n \in Nat, NEW x \in Works(n)
  PROVE  LET y == Handle(x) IN
         /\ y \in Works(n) /\ SameCalls(x, y) /\ y.span = x.span
         /\ y.sent = x.sent /\ y.code = x.code
         /\ y.ans = x.ans /\ y.handled = x.handled + 1
         /\ y.finalized = x.finalized /\ y.saw = x.saw
<1>1. PICK d \in Nat : d = x.handled + 1
  BY DEF Works
<1>2. Handle(x) = [x EXCEPT !.handled = d]
  BY <1>1 DEF Works, Handle
<1> QED BY <1>1, <1>2 DEF Works, SameCalls

(* Writing the whole answer changes the answer only.                         *)
LEMMA WholeAnswerFacts ==
  ASSUME NEW n \in Nat, NEW x \in Works(n), NEW c \in Nat, NEW b \in Answers
  PROVE  LET y == WholeAnswer(x, c, b) IN
         /\ y \in Works(n) /\ SameCalls(x, y) /\ y.span = x.span
         /\ y.sent = c /\ y.code = c /\ y.ans = {b} /\ y.handled = x.handled
         /\ y.finalized = x.finalized /\ y.saw = x.saw
<1>1. PICK d \in SUBSET Answers : d = {b}
  OBVIOUS
<1>2. PICK y : y = [x EXCEPT !.sent = c, !.code = c, !.ans = d]
  OBVIOUS
<1>3. /\ y \in Works(n) /\ SameCalls(x, y) /\ y.span = x.span
      /\ y.sent = c /\ y.code = c /\ y.ans = d /\ y.handled = x.handled
      /\ y.finalized = x.finalized /\ y.saw = x.saw
  BY <1>2 DEF Works, SameCalls
<1> QED BY <1>1, <1>2, <1>3 DEF WholeAnswer

(* The span in the context of a layer.                                       *)
LEMMA SpanInContext ==
  ASSUME NEW n \in Nat, NEW x \in Works(n), NEW l \in 1 .. n
  PROVE  /\ SpanIn(x, l) \in 0 .. l
         /\ SpanIn(x, l) # 0 => x.span[SpanIn(x, l)].st # "none"
         /\ \A j \in 1 .. l : x.span[j].st # "none" => j <= SpanIn(x, l)
<1> DEFINE T == {j \in 1 .. l : x.span[j].st # "none"} \cup {0}
<1>1. T \in SUBSET (0 .. l) /\ T # {}
  OBVIOUS
<1>2. Max(T) \in T /\ \A y \in T : Max(T) >= y
  <2> HIDE DEF T
  <2> QED BY <1>1, MaxExists
<1> QED BY <1>2 DEF SpanIn


(* Finish changes that span only.                                            *)
LEMMA FinishFacts ==
  ASSUME NEW n \in Nat, NEW x \in Works(n), NEW j \in 1 .. n
  PROVE  LET y == Finish(x, j) IN
         /\ y \in Works(n) /\ SameAnswer(x, y) /\ SameCalls(x, y)
         /\ \A m \in 1 .. n : m # j => y.span[m] = x.span[m]
         /\ x.span[j].st # "open" => y = x
         /\ x.span[j].st = "open" =>
              /\ y.span[j].st = "finished"
              /\ y.span[j].sent = x.span[j].sent + (IF Layers[j] = "trace" THEN 1 ELSE 0)
<1>1. CASE x.span[j].st # "open"
  BY <1>1 DEF Finish, SameAnswer, SameCalls
<1>2. CASE x.span[j].st = "open"
  <2>0. PICK v \in SpanStates : v = "finished"
    BY DEF SpanStates
  <2>1. PICK y : y = WithSpan(x, j, v)
    OBVIOUS
  <2>2. /\ y \in Works(n) /\ SameAnswer(x, y) /\ SameCalls(x, y)
        /\ y.span[j].st = v /\ y.span[j].sent = x.span[j].sent
        /\ \A m \in 1 .. n : m # j => y.span[m] = x.span[m]
    BY <2>1, SpanSet
  <2>3. PICK z : z = Sent(y, j)
    OBVIOUS
  <2>4. /\ z \in Works(n) /\ SameAnswer(y, z) /\ SameCalls(y, z)
        /\ z.span[j].st = y.span[j].st /\ z.span[j].sent = y.span[j].sent + 1
        /\ \A m \in 1 .. n : m # j => z.span[m] = y.span[m]
    BY <2>2, <2>3, SentFacts
  <2>5. Finish(x, j) = IF Layers[j] = "trace" THEN z ELSE y
    BY <1>2, <2>0, <2>1, <2>3 DEF Finish, WithSpan
  <2>6. x.span[j].sent \in Nat
    BY DEF Works
  <2>7. SameAnswer(x, z) /\ SameCalls(x, z)
    BY <2>2, <2>4 DEF SameAnswer, SameCalls
  <2> QED BY <1>2, <2>0, <2>2, <2>4, <2>5, <2>6, <2>7
<1> QED BY <1>1, <1>2

(* A step of tracing works on one span: a start on the layer's own, the      *)
(* others on the span in the context.                                        *)
LEMMA TraceOpFacts ==
  ASSUME NEW n \in Nat, NEW x \in Works(n), NEW l \in 1 .. n,
         NEW op \in TraceOps
  PROVE  LET y == TraceOp(x, l, op)
             j == SpanIn(x, l)
         IN
         /\ y \in Works(n) /\ SameAnswer(x, y) /\ SameCalls(x, y)
         /\ \A m \in 1 .. n : m # (IF op = "start" THEN l ELSE j) => y.span[m] = x.span[m]
         /\ op = "start" => y.span[l].st = "open" /\ y.span[l].sent = x.span[l].sent
         /\ op = "finish" /\ j # 0 => y = Finish(x, j)
         /\ op = "flush" /\ j # 0 => y = Sent(x, j)
         /\ op # "start" /\ j = 0 => y = x
<1>0. SpanIn(x, l) \in 0 .. l
  BY SpanInContext
<1>1. CASE op = "start"
  <2>0. PICK v \in SpanStates : v = "open"
    BY DEF SpanStates
  <2>1. TraceOp(x, l, op) = WithSpan(x, l, v)
    BY <1>1, <2>0 DEF TraceOp, WithSpan
  <2>2. PICK y : y = WithSpan(x, l, v)
    OBVIOUS
  <2>3. /\ y \in Works(n) /\ SameAnswer(x, y) /\ SameCalls(x, y)
        /\ y.span[l].st = v /\ y.span[l].sent = x.span[l].sent
        /\ \A m \in 1 .. n : m # l => y.span[m] = x.span[m]
    BY <2>2, SpanSet
  <2> QED BY <1>1, <2>0, <2>1, <2>2, <2>3
<1>2. CASE op # "start" /\ SpanIn(x, l) = 0
  <2>1. TraceOp(x, l, op) = x
    BY <1>2 DEF TraceOp
  <2> QED BY <1>2, <2>1 DEF SameAnswer, SameCalls
<1>3. CASE op = "finish" /\ SpanIn(x, l) # 0
  <2>1. TraceOp(x, l, op) = Finish(x, SpanIn(x, l)) /\ SpanIn(x, l) \in 1 .. n
    BY <1>3, <1>0 DEF TraceOp
  <2>a. PICK j \in 1 .. n : j = SpanIn(x, l)
    BY <2>1
  <2>2. PICK y : y = Finish(x, j)
    OBVIOUS
  <2>3. /\ y \in Works(n) /\ SameAnswer(x, y) /\ SameCalls(x, y)
        /\ \A m \in 1 .. n : m # j => y.span[m] = x.span[m]
    BY <2>2, FinishFacts
  <2> QED BY <1>3, <2>1, <2>a, <2>2, <2>3
<1>4. CASE op = "flush" /\ SpanIn(x, l) # 0
  <2>1. TraceOp(x, l, op) = Sent(x, SpanIn(x, l)) /\ SpanIn(x, l) \in 1 .. n
    BY <1>4, <1>0 DEF TraceOp
  <2>a. PICK j \in 1 .. n : j = SpanIn(x, l)
    BY <2>1
  <2>2. PICK y : y = Sent(x, j)
    OBVIOUS
  <2>3. /\ y \in Works(n) /\ SameAnswer(x, y) /\ SameCalls(x, y)
        /\ \A m \in 1 .. n : m # j => y.span[m] = x.span[m]
    BY <2>2, SentFacts
  <2> QED BY <1>4, <2>1, <2>a, <2>2, <2>3
<1> QED BY <1>1, <1>2, <1>3, <1>4 DEF TraceOps

(* What the tracer does at a point of a layer changes spans only.            *)
LEMMA TracedFacts ==
  ASSUME NEW n \in Nat, NEW x \in Works(n), NEW l \in 1 .. n,
         NEW point \in TracePoints
  PROVE  LET y == Traced(x, l, point) IN
         /\ y \in Works(n) /\ SameAnswer(x, y) /\ SameCalls(x, y)
         /\ \A m \in l + 1 .. n : y.span[m] = x.span[m]
<1> DEFINE If(y, op) == IF op \in Tracers[Layers[l]][point] THEN TraceOp(y, l, op) ELSE y
           Kept(y, z) == /\ z \in Works(n) /\ SameAnswer(y, z) /\ SameCalls(y, z)
                         /\ \A m \in l + 1 .. n : z.span[m] = y.span[m]
<1>1. ASSUME NEW y \in Works(n), NEW op \in TraceOps
      PROVE  Kept(y, If(y, op))
  <2>1. CASE op \in Tracers[Layers[l]][point]
    <3>1. SpanIn(y, l) \in 0 .. l
      BY SpanInContext
    <3>2. If(y, op) = TraceOp(y, l, op)
      BY <2>1
    <3>3. PICK z : z = TraceOp(y, l, op)
      OBVIOUS
    <3>4. /\ z \in Works(n) /\ SameAnswer(y, z) /\ SameCalls(y, z)
          /\ \A m \in 1 .. n : m # (IF op = "start" THEN l ELSE SpanIn(y, l)) =>
               z.span[m] = y.span[m]
      BY <3>3, TraceOpFacts
    <3> HIDE DEF If
    <3> QED BY <3>1, <3>2, <3>3, <3>4
  <2>2. CASE op \notin Tracers[Layers[l]][point]
    <3>1. If(y, op) = y
      BY <2>2
    <3> HIDE DEF If
    <3> QED BY <3>1 DEF SameAnswer, SameCalls
  <2> QED BY <2>1, <2>2
<1>2. PICK a : a = If(x, "start")
  OBVIOUS
<1>3. PICK b : b = If(a, "finish")
  OBVIOUS
<1>4. PICK c : c = If(b, "flush")
  OBVIOUS
<1>5. Traced(x, l, point) = IF HasTracer(l) THEN c ELSE x
  BY <1>2, <1>3, <1>4 DEF Traced
<1> HIDE DEF If
<1>6. Kept(x, a) /\ Kept(a, b) /\ Kept(b, c)
  BY <1>1, <1>2, <1>3, <1>4 DEF TraceOps
<1> QED BY <1>5, <1>6 DEF SameAnswer, SameCalls

(* What the encoders of a response change.                                   *)
LEMMA RespondFacts ==
  ASSUME NEW n \in Nat, NEW x \in Works(n), NEW y,
         y = EncodeJSONResponse(x) \/ y = FastEncodeJSONResponse(x)
  PROVE  /\ y \in Works(n) /\ SameCalls(x, y) /\ y.span = x.span
         /\ y.finalized = x.finalized /\ y.saw = x.saw
         /\ y.handled = x.handled /\ y.code = 200
         /\ x.sent = 0 /\ x.ans = {} => y.sent = 200 /\ y.ans = {"result"}
<1>1. PICK b \in Answers : b = "result"
  BY DEF Answers
<1>2. CASE y = FastEncodeJSONResponse(x)
  <2>1. y = WholeAnswer(x, 200, b)
    BY <1>1, <1>2 DEF FastEncodeJSONResponse, WholeAnswer
  <2>2. /\ y \in Works(n) /\ SameCalls(x, y) /\ y.span = x.span
        /\ y.sent = 200 /\ y.code = 200 /\ y.ans = {b} /\ y.handled = x.handled
        /\ y.finalized = x.finalized /\ y.saw = x.saw
    BY <2>1, WholeAnswerFacts
  <2> QED BY <1>1, <2>2
<1>3. CASE y = EncodeJSONResponse(x)
  <2>0. y = Body(WriteHeader(x, 200), b)
    BY <1>1, <1>3 DEF EncodeJSONResponse
  <2> QED BY <1>1, <2>0, ReplyFacts
<1> QED BY <1>2, <1>3

(* What the last stage of jsonrpc changes: the result, or nothing, is sent.  *)
LEMMA WriteFacts ==
  ASSUME NEW n \in Nat, NEW x \in Works(n), NEW y \in JsonrpcWrite(x)
  PROVE  /\ y \in Works(n) /\ SameCalls(x, y) /\ y.span = x.span
         /\ y.finalized = x.finalized /\ y.saw = x.saw
         /\ y.handled = x.handled /\ y.code = 200
         /\ x.sent = 0 /\ x.ans = {} => y.sent = 200 /\ (y.ans = {"result"} \/ y.ans = {})
<1>1. PICK b \in Answers : b = "result"
  BY DEF Answers
<1>2. y = Body(WriteHeader(x, 200), b) \/ y = WriteHeader(x, 200)
  BY <1>1 DEF JsonrpcWrite
<1>3. CASE y = Body(WriteHeader(x, 200), b)
  <2>1. y = EncodeJSONResponse(x)
    BY <1>1, <1>3 DEF EncodeJSONResponse
  <2> QED BY <2>1, RespondFacts
<1>4. CASE y = WriteHeader(x, 200)
  <2>0. PICK c \in Nat : c = 200
    OBVIOUS
  <2>1. y = WriteHeader(x, c)
    BY <1>4, <2>0
  <2>2. /\ y \in Works(n) /\ SameCalls(x, y) /\ y.span = x.span
        /\ y.sent = (IF x.sent = 0 THEN c ELSE x.sent) /\ y.code = c
        /\ y.ans = x.ans /\ y.handled = x.handled
        /\ y.finalized = x.finalized /\ y.saw = x.saw
    BY <2>1, HeaderFacts
  <2> QED BY <2>0, <2>2
<1> QED BY <1>2, <1>3, <1>4

(* What an encoder that does not come to its end has changed.                *)
LEMMA PartlyFacts ==
  ASSUME NEW n \in Nat, NEW x \in Works(n), NEW y \in PartlyEncoded(x)
  PROVE  /\ y \in Works(n) /\ SameCalls(x, y) /\ y.span = x.span
         /\ y.finalized = x.finalized /\ y.saw = x.saw
         /\ y.handled = x.handled
         /\ x.code = 200 => y.code = 200
         /\ x.sent = 0 /\ x.ans = {} =>
              \/ y.sent = 0 /\ y.ans = {}
              \/ y.sent = 200 /\ (y.ans = {} \/ y.ans = {"result"})
<1>1. \/ y = x \/ y = WriteHeader(x, 200)
      \/ y = EncodeJSONResponse(x) \/ y = FastEncodeJSONResponse(x)
  BY DEF PartlyEncoded
<1>2. CASE y = x
  BY <1>2 DEF SameCalls
<1>3. CASE y = WriteHeader(x, 200)
  <2>0. PICK c \in Nat : c = 200
    OBVIOUS
  <2>1. y.ans = x.ans
    BY <1>3, <2>0, HeaderFacts
  <2>2. y \in JsonrpcWrite(x)
    BY <1>3 DEF JsonrpcWrite
  <2> QED BY <2>1, <2>2, WriteFacts
<1>4. CASE y = EncodeJSONResponse(x) \/ y = FastEncodeJSONResponse(x)
  BY <1>4, RespondFacts
<1> QED BY <1>1, <1>2, <1>3, <1>4

(* What a stage that passes changes: an answer is written by the last stage  *)
(* of a server.                                                              *)
LEMMA PassedFacts ==
  ASSUME NEW n \in Nat, NEW x \in Works(n), NEW l \in 1 .. n, NEW s, NEW y \in Passed(x, l, s)
  PROVE  /\ y \in Works(n) /\ SameCalls(x, y)
         /\ s \notin {"respond", "write"} => SameAnswer(x, y)
         /\ y.finalized = x.finalized /\ y.saw = x.saw
         /\ \A m \in l + 1 .. n : y.span[m] = x.span[m]
         /\ s \notin {"before", "after", "start"} => y.span = x.span
<1>1. CASE s = "context"
  <2>1. y = [x EXCEPT !.ctx = "live"]
    BY <1>1 DEF Passed
  <2> QED BY <1>1, <2>1 DEF Works, SameAnswer, SameCalls
<1>2. CASE s \in {"before", "after"}
  <2>1. y = Traced(x, l, s)
    BY <1>2 DEF Passed
  <2>2. s \in TracePoints
    BY <1>2 DEF TracePoints
  <2> QED BY <1>2, <2>1, <2>2, TracedFacts DEF SameAnswer
<1>3. CASE s = "start"
  <2>1. y = TraceOp(x, l, "start")
    BY <1>3 DEF Passed
  <2>2. PICK op \in TraceOps : op = "start"
    BY DEF TraceOps
  <2>3. y = TraceOp(x, l, op)
    BY <2>1, <2>2
  <2>4. /\ y \in Works(n) /\ SameAnswer(x, y) /\ SameCalls(x, y)
        /\ \A m \in 1 .. n : m # (IF op = "start" THEN l ELSE SpanIn(x, l)) =>
             y.span[m] = x.span[m]
    BY <2>3, TraceOpFacts
  <2> QED BY <1>3, <2>2, <2>4 DEF SameAnswer
<1>4. CASE s = "do"
  <2>1. y = x \/ y = [x EXCEPT !.body = "open"]
    BY <1>4 DEF Passed
  <2>2. CASE y = [x EXCEPT !.body = "open"]
    BY <1>4, <2>2 DEF Works, SameAnswer, SameCalls
  <2>3. CASE y = x
    BY <1>4, <2>3 DEF SameAnswer, SameCalls
  <2> QED BY <2>1, <2>2, <2>3
<1>5. CASE s = "respond"
  <2>1. y = EncodeJSONResponse(x) \/ y = FastEncodeJSONResponse(x)
    BY <1>5 DEF Passed
  <2> QED BY <1>5, <2>1, RespondFacts
<1>6. CASE s = "write"
  <2>1. y \in JsonrpcWrite(x)
    BY <1>6 DEF Passed
  <2> QED BY <1>6, <2>1, WriteFacts
<1>7. CASE s \notin {"context", "before", "after", "start", "do", "respond", "write"}
  <2>1. y = x
    BY <1>7 DEF Passed
  <2> QED BY <2>1 DEF SameAnswer, SameCalls
<1> QED BY <1>1, <1>2, <1>3, <1>4, <1>5, <1>6, <1>7

(* What a stage that panics changes: no more than one that passes, but that  *)
(* an encoder may stop half way.                                             *)
LEMMA PanicsFacts ==
  ASSUME NEW n \in Nat, NEW x \in Works(n), NEW l \in 1 .. n, NEW s, NEW y \in Panics(x, l, s)
  PROVE  /\ y \in Works(n) /\ SameCalls(x, y)
         /\ s # "respond" => SameAnswer(x, y)
         /\ s = "respond" => y \in PartlyEncoded(x)
         /\ y.finalized = x.finalized /\ y.saw = x.saw
         /\ \A m \in l + 1 .. n : y.span[m] = x.span[m]
         /\ y.span = x.span \/ (s \in {"before", "after"} /\ y \in Passed(x, l, s))
<1>1. CASE y = x
  <2>1. s = "respond" => y \in PartlyEncoded(x)
    BY DEF Panics
  <2> QED BY <1>1, <2>1 DEF SameAnswer, SameCalls
<1>2. CASE s \in {"before", "after"} /\ y = Traced(x, l, s)
  <2>1. y \in Passed(x, l, s)
    BY <1>2 DEF Passed
  <2> QED BY <1>2, <2>1, PassedFacts
<1>3. CASE s = "respond"
  <2>1. y \in PartlyEncoded(x)
    BY <1>3 DEF Panics
  <2> QED BY <1>3, <2>1, PartlyFacts
<1>4. s \notin {"before", "after", "respond"} => y = x
  BY DEF Panics
<1>5. s \in {"before", "after"} => y = x \/ y = Traced(x, l, s)
  BY DEF Panics
<1> QED BY <1>1, <1>2, <1>3, <1>4, <1>5

(* What a server answers to a failed stage.                                  *)
LEMMA ServerErrorFacts ==
  ASSUME NEW n \in Nat, NEW x \in Works(n), Server \in ServerKinds
  PROVE  LET y == ServerError(x) IN
         /\ y \in Works(n) /\ SameCalls(x, y) /\ y.span = x.span
         /\ y.finalized = x.finalized /\ y.saw = x.saw
         /\ Server = "main" => y = x
         /\ Server # "main" => y.handled = x.handled + 1
         /\ Server \in {"http", "fasthttp", "grpc"} => y.code = 500
         /\ Server = "http" => /\ y.sent = (IF x.sent = 0 THEN 500 ELSE x.sent)
                               /\ y.ans = x.ans \cup {"error"}
         /\ Server = "fasthttp" => y.sent = 500 /\ y.ans = {"error"}
         /\ Server = "jsonrpc" => /\ y.sent = (IF x.sent = 0 THEN 200 ELSE x.sent)
                                  /\ y.code = 200 /\ y.ans = x.ans \cup {"error"}
         /\ Server = "grpc" => y.sent = x.sent /\ y.ans = x.ans
<1>1. PICK h : h = Handle(x)
  OBVIOUS
<1>2. /\ h \in Works(n) /\ SameCalls(x, h) /\ h.span = x.span
      /\ h.sent = x.sent /\ h.code = x.code
      /\ h.ans = x.ans /\ h.handled = x.handled + 1
      /\ h.finalized = x.finalized /\ h.saw = x.saw
  BY <1>1, HandleFacts
<1>3. PICK b \in Answers : b = "error"
  BY DEF Answers
<1>4. ASSUME NEW c \in Nat, NEW y, y = Body(WriteHeader(h, c), b)
      PROVE  /\ y \in Works(n) /\ SameCalls(x, y) /\ y.span = x.span
             /\ y.finalized = x.finalized /\ y.saw = x.saw
             /\ y.handled = x.handled + 1 /\ y.code = c
             /\ y.sent = (IF x.sent = 0 THEN c ELSE x.sent)
             /\ y.ans = x.ans \cup {"error"}
  <2>1. /\ y \in Works(n) /\ SameCalls(h, y) /\ y.span = h.span
        /\ y.sent = (IF h.sent = 0 THEN c ELSE h.sent) /\ y.code = c
        /\ y.ans = h.ans \cup {b} /\ y.handled = h.handled
        /\ y.finalized = h.finalized /\ y.saw = h.saw
    BY <1>2, <1>4, ReplyFacts
  <2> QED BY <1>2, <1>3, <2>1 DEF SameCalls
<1>5. CASE Server = "main"
  <2>1. ServerError(x) = x
    BY <1>5 DEF ServerError
  <2> QED BY <1>5, <2>1 DEF SameCalls
<1>6. CASE Server = "http"
  <2>1. ServerError(x) = Body(WriteHeader(h, 500), b)
    BY <1>6, <1>1, <1>3 DEF ServerError, HttpError, DefaultErrorEncoder
  <2> QED BY <1>4, <1>6, <2>1
<1>7. CASE Server = "jsonrpc"
  <2>1. ServerError(x) = Body(WriteHeader(h, 200), b)
    BY <1>7, <1>1, <1>3 DEF ServerError, JsonrpcError, JsonrpcDefaultErrorEncoder
  <2> QED BY <1>4, <1>7, <2>1
<1>8. CASE Server = "fasthttp"
  <2>1. ServerError(x) = WholeAnswer(h, 500, b)
    BY <1>8, <1>1, <1>3 DEF ServerError, FasthttpError, FastDefaultErrorEncoder, WholeAnswer
  <2>2. PICK y : y = WholeAnswer(h, 500, b)
    OBVIOUS
  <2>3. /\ y \in Works(n) /\ SameCalls(h, y) /\ y.span = h.span
        /\ y.sent = 500 /\ y.code = 500 /\ y.ans = {b} /\ y.handled = h.handled
        /\ y.finalized = h.finalized /\ y.saw = h.saw
    BY <1>2, <2>2, WholeAnswerFacts
  <2> QED BY <1>2, <1>3, <1>8, <2>1, <2>2, <2>3 DEF SameCalls
<1>9. CASE Server = "grpc"
  <2>0. PICK c \in Nat : c = 500
    OBVIOUS
  <2>1. ServerError(x) = [h EXCEPT !.code = c]
    BY <1>9, <1>1, <2>0 DEF ServerError, GrpcError
  <2>2. PICK y : y = [h EXCEPT !.code = c]
    OBVIOUS
  <2>3. /\ y \in Works(n) /\ SameCalls(h, y) /\ y.span = h.span
        /\ y.sent = h.sent /\ y.code = c /\ y.ans = h.ans /\ y.handled = h.handled
        /\ y.finalized = h.finalized /\ y.saw = h.saw
    BY <1>2, <2>2 DEF Works, SameCalls
  <2> QED BY <1>2, <1>9, <2>0, <2>1, <2>2, <2>3 DEF SameCalls
<1> QED BY <1>5, <1>6, <1>7, <1>8, <1>9 DEF ServerKinds

(* A failed stage of a server that has not answered yet.                     *)
ErrorAnswer(x, s) ==
  /\ s = "post" => x.sent = 405 /\ x.code = 405 /\ x.ans = {"error"} /\ x.handled = 0
  /\ s # "post" => x.handled = 1
  /\ s # "post" /\ Server = "http" =>
       /\ x.code = 500
       /\ \/ x.sent = 500 /\ x.ans = {"error"}
          \/ s = "respond" /\ x.sent = 200 /\ "error" \in x.ans
  /\ s # "post" /\ Server = "fasthttp" => x.sent = 500 /\ x.code = 500 /\ x.ans = {"error"}
  /\ s \notin {"post", "respond"} /\ Server = "jsonrpc" =>
       x.sent = 200 /\ x.code = 200 /\ x.ans = {"error"}
  /\ s \notin {"post", "respond"} /\ Server = "grpc" => x.sent = 0 /\ x.code = 500 /\ x.ans = {}

(* What a failing stage changes.                                             *)
LEMMA FailuresFacts ==
  ASSUME NEW n \in Nat, NEW x \in Works(n), NEW l \in 1 .. n, NEW s,
         Server \in ServerKinds, Layers[1] = Server, NEW y \in Failures(x, l, s)
  PROVE  /\ y \in Works(n) /\ SameCalls(x, y) /\ y.span = x.span
         /\ y.finalized = x.finalized /\ y.saw = x.saw
         /\ l # 1 => SameAnswer(x, y)
         /\ l = 1 /\ Server # "main" /\ x.sent = 0 /\ x.code = 200 /\ x.ans = {} /\ x.handled = 0 =>
              ErrorAnswer(y, s)
<1>1. CASE l = 1 /\ s = "post"
  <2>0. PICK c \in Nat : c = 405
    OBVIOUS
  <2>1. y = Body(WriteHeader(x, c), "error")
    <3>1. Failures(x, l, s) = ServerFails(x, s)
      BY <1>1 DEF Failures, ServerKinds
    <3>2. ServerFails(x, s) = {MustPost(x)}
      BY <1>1 DEF ServerFails
    <3> QED BY <2>0, <3>1, <3>2 DEF MustPost
  <2>2. PICK b \in Answers : b = "error"
    BY DEF Answers
  <2>3. /\ y \in Works(n) /\ SameCalls(x, y) /\ y.span = x.span
        /\ y.sent = (IF x.sent = 0 THEN c ELSE x.sent) /\ y.code = c
        /\ y.ans = x.ans \cup {b} /\ y.handled = x.handled
        /\ y.finalized = x.finalized /\ y.saw = x.saw
    BY <2>1, <2>2, ReplyFacts
  <2> QED BY <1>1, <2>0, <2>2, <2>3 DEF ErrorAnswer
<1>2. CASE l = 1 /\ s # "post" /\ y = ServerError(x)
  <2>1. /\ y \in Works(n) /\ SameCalls(x, y) /\ y.span = x.span
        /\ y.finalized = x.finalized /\ y.saw = x.saw
        /\ Server # "main" => y.handled = x.handled + 1
        /\ Server \in {"http", "fasthttp", "grpc"} => y.code = 500
        /\ Server = "http" => /\ y.sent = (IF x.sent = 0 THEN 500 ELSE x.sent)
                              /\ y.ans = x.ans \cup {"error"}
        /\ Server = "fasthttp" => y.sent = 500 /\ y.ans = {"error"}
        /\ Server = "jsonrpc" => /\ y.sent = (IF x.sent = 0 THEN 200 ELSE x.sent)
                                 /\ y.code = 200 /\ y.ans = x.ans \cup {"error"}
        /\ Server = "grpc" => y.sent = x.sent /\ y.ans = x.ans
    BY <1>2, ServerErrorFacts
  <2> QED BY <1>2, <2>1 DEF ErrorAnswer
<1>3. CASE l = 1 /\ s = "respond"
  <2>1. PICK z \in PartlyEncoded(x) : y = ServerError(z)
    <3>1. Failures(x, l, s) = ServerFails(x, s)
      BY <1>3 DEF Failures, ServerKinds
    <3>2. ServerFails(x, s) = {ServerError(z) : z \in PartlyEncoded(x)}
      BY <1>3 DEF ServerFails
    <3> QED BY <3>1, <3>2, Zenon
  <2>3. /\ z \in Works(n) /\ SameCalls(x, z) /\ z.span = x.span
        /\ z.finalized = x.finalized /\ z.saw = x.saw
        /\ z.handled = x.handled
        /\ x.sent = 0 /\ x.ans = {} =>
             \/ z.sent = 0 /\ z.ans = {}
             \/ z.sent = 200 /\ (z.ans = {} \/ z.ans = {"result"})
    BY PartlyFacts
  <2>4. /\ y \in Works(n) /\ SameCalls(z, y) /\ y.span = z.span
        /\ y.finalized = z.finalized /\ y.saw = z.saw
        /\ Server # "main" => y.handled = z.handled + 1
        /\ Server \in {"http", "fasthttp", "grpc"} => y.code = 500
        /\ Server = "http" => /\ y.sent = (IF z.sent = 0 THEN 500 ELSE z.sent)
                              /\ y.ans = z.ans \cup {"error"}
        /\ Server = "fasthttp" => y.sent = 500 /\ y.ans = {"error"}
    BY <2>1, <2>3, ServerErrorFacts
  <2> QED BY <1>3, <2>3, <2>4 DEF SameCalls, ErrorAnswer
<1>4. CASE l # 1
  <2>1. y = x \/ y = Cancel(x)
    BY <1>4 DEF Failures, HttpClientFails
  <2>2. CASE y = x
    BY <1>4, <2>2 DEF SameCalls, SameAnswer
  <2>3. CASE y = Cancel(x)
    BY <1>4, <2>3 DEF SameCalls, SameAnswer, Cancel, Works
  <2> QED BY <2>1, <2>2, <2>3
<1>5. ASSUME l = 1, s # "post", s # "respond"
      PROVE  y = ServerError(x)
  <2>1. Failures(x, l, s) = ServerFails(x, s)
    BY <1>5 DEF Failures, ServerKinds
  <2>2. ServerFails(x, s) = {ServerError(x)}
    BY <1>5 DEF ServerFails
  <2> QED BY <2>1, <2>2
<1> QED BY <1>1, <1>2, <1>3, <1>4, <1>5

(* A deferred call that is no finalizer and no finish leaves spans alone.    *)
LEMMA OtherDeferred ==
  ASSUME NEW n \in Nat, NEW x \in Works(n), NEW l \in 1 .. n, NEW d \in DeferredCalls,
         NEW res \in Results, d \notin {"finalizer", "finish"},
         NEW y, y = Deferred(x, l, d, res)
  PROVE  y.span = x.span /\ SameAnswer(x, y)
<1>1. CASE d = "cancel"
  <2>1. y = [x EXCEPT !.ctx = "cancelled"]
    BY <1>1 DEF Deferred, Cancel
  <2> QED BY <2>1 DEF Works, SameAnswer
<1>2. CASE d = "close"
  <2>1. y = [x EXCEPT !.body = "closed"]
    BY <1>2 DEF Deferred
  <2> QED BY <2>1 DEF Works, SameAnswer
<1>3. CASE d = "report"
  <2>1. y = Tell(x, l, res)
    BY <1>3 DEF Deferred
  <2> QED BY <2>1, TellFacts
<1> QED BY <1>1, <1>2, <1>3 DEF DeferredCalls

(* What a deferred call changes.                                             *)
LEMMA DeferredFacts ==
  ASSUME NEW n \in Nat, NEW x \in Works(n), NEW l \in 1 .. n, NEW d \in DeferredCalls,
         NEW res \in Results
  PROVE  LET y == Deferred(x, l, d, res) IN
         /\ y \in Works(n) /\ y.out = x.out
         /\ d = "report" => y = Tell(x, l, res)
         /\ d # "report" => y.told = x.told
         /\ \A m \in l + 1 .. n : y.span[m] = x.span[m]
         /\ d \notin {"finalizer", "finish"} => y.span = x.span
         /\ d # "finalizer" => SameAnswer(x, y)
         /\ d # "finalizer" \/ l # 1 => SameReply(x, y)
         /\ y.sent = x.sent /\ y.code = x.code /\ y.ans = x.ans /\ y.handled = x.handled
         /\ d = "finalizer" => y.finalized[l] = x.finalized[l] + 1
         /\ \A m \in 1 .. n : m # l => y.finalized[m] = x.finalized[m]
         /\ d = "finalizer" /\ l = 1 => y.saw = x.code
<1>1. CASE d = "finalizer"
  <2>1. PICK z : z = Traced(x, l, "finalizer")
    OBVIOUS
  <2>2. /\ z \in Works(n) /\ SameAnswer(x, z) /\ SameCalls(x, z)
        /\ \A m \in l + 1 .. n : z.span[m] = x.span[m]
    <3>1. PICK point \in TracePoints : point = "finalizer"
      BY DEF TracePoints
    <3>2. z = Traced(x, l, point)
      BY <2>1, <3>1
    <3> QED BY <3>2, TracedFacts
  <2>3. PICK o : o = [z.finalized EXCEPT ![l] = @ + 1]
    OBVIOUS
  <2>4. /\ o \in [1 .. n -> Nat] /\ o[l] = x.finalized[l] + 1
        /\ \A m \in 1 .. n : m # l => o[m] = x.finalized[m]
    <3>1. z.finalized \in [1 .. n -> Nat] /\ z.finalized = x.finalized
      BY <2>2 DEF Works, SameAnswer
    <3>2. z.finalized[l] + 1 \in Nat
      BY <3>1
    <3> QED BY <2>3, <3>1, <3>2
  <2>5. PICK c \in Nat : c = IF l = 1 THEN x.code ELSE z.saw
    <3>1. x.code \in Nat /\ z.saw \in Nat
      BY <2>2 DEF Works
    <3> QED BY <3>1
  <2>6. PICK v : v = [z EXCEPT !.finalized = o, !.saw = c]
    OBVIOUS
  <2>7. Deferred(x, l, d, res) = v
    BY <1>1, <2>1, <2>2, <2>3, <2>5, <2>6 DEF Deferred, Finalized, Works
  <2>8. /\ v \in Works(n) /\ v.out = z.out /\ v.told = z.told /\ v.span = z.span
        /\ v.sent = z.sent /\ v.code = z.code /\ v.ans = z.ans /\ v.handled = z.handled
        /\ v.finalized = o /\ v.saw = c
    BY <2>2, <2>4, <2>6 DEF Works
  <2>9. \A m \in l + 1 .. n : m \in 1 .. n /\ m # l
    OBVIOUS
  <2>10. l # 1 => v.saw = x.saw /\ v.finalized[1] = x.finalized[1]
    <3>1. 1 \in 1 .. n
      OBVIOUS
    <3> QED BY <2>2, <2>4, <2>5, <2>8, <3>1 DEF SameAnswer
  <2>11. /\ v \in Works(n) /\ v.out = x.out /\ v.told = x.told
         /\ \A m \in l + 1 .. n : v.span[m] = x.span[m]
         /\ v.sent = x.sent /\ v.code = x.code /\ v.ans = x.ans /\ v.handled = x.handled
         /\ v.finalized[l] = x.finalized[l] + 1
         /\ \A m \in 1 .. n : m # l => v.finalized[m] = x.finalized[m]
         /\ l = 1 => v.saw = x.code
    BY <2>2, <2>4, <2>5, <2>8 DEF SameAnswer, SameCalls
  <2> QED BY <1>1, <2>7, <2>10, <2>11 DEF SameReply
<1>2. CASE d = "cancel"
  <2>1. Deferred(x, l, d, res) = [x EXCEPT !.ctx = "cancelled"]
    BY <1>2 DEF Deferred, Cancel
  <2> QED BY <1>2, <2>1 DEF Works, SameAnswer, SameReply
<1>3. CASE d = "close"
  <2>1. Deferred(x, l, d, res) = [x EXCEPT !.body = "closed"]
    BY <1>3 DEF Deferred
  <2> QED BY <1>3, <2>1 DEF Works, SameAnswer, SameReply
<1>4. CASE d = "report"
  <2>1. Deferred(x, l, d, res) = Tell(x, l, res)
    BY <1>4 DEF Deferred
  <2>2. PICK y : y = Tell(x, l, res)
    OBVIOUS
  <2>3. y \in Works(n) /\ SameAnswer(x, y) /\ y.out = x.out /\ y.span = x.span
    BY <2>2, TellFacts
  <2> QED BY <1>4, <2>1, <2>2, <2>3 DEF SameAnswer, SameReply
<1>5. CASE d = "finish"
  <2>1. Deferred(x, l, d, res) = Finish(x, l)
    BY <1>5 DEF Deferred
  <2>2. PICK y : y = Finish(x, l)
    OBVIOUS
  <2>3. /\ y \in Works(n) /\ SameAnswer(x, y) /\ SameCalls(x, y)
        /\ \A m \in 1 .. n : m # l => y.span[m] = x.span[m]
    BY <2>2, FinishFacts
  <2> QED BY <1>5, <2>1, <2>2, <2>3 DEF SameAnswer, SameReply, SameCalls
<1> QED BY <1>1, <1>2, <1>3, <1>4, <1>5 DEF DeferredCalls

(* What the return of a layer changes.                                       *)
LEMMA ReturnedFacts ==
  ASSUME NEW n \in Nat, NEW x \in Works(n), NEW l \in 1 .. n, NEW res \in Results
  PROVE  LET y == Returned(x, l, res) IN
         /\ y \in Works(n) /\ y.span = x.span
         /\ y.out[l] = res /\ \A m \in 1 .. n : m # l => y.out[m] = x.out[m]
         /\ y.code = x.code /\ y.handled = x.handled
         /\ y.finalized = x.finalized /\ y.saw = x.saw
         /\ l # 1 \/ Server # "grpc" \/ res = "panic" => SameAnswer(x, y)
         /\ l = 1 /\ Server = "grpc" /\ res # "panic" =>
              y.sent = x.code /\ y.ans = {IF res = "ok" THEN "result" ELSE "error"}
         /\ \A m \in 1 .. n : ~(m = l - 1 /\ Layers[m] = "gobreaker") => y.told[m] = x.told[m]
         /\ l > 1 /\ Layers[l - 1] = "gobreaker" =>
              y.told[l - 1] = Append(x.told[l - 1], IF res = "ok" THEN "success" ELSE "failure")
<1>1. PICK z : z = WithOut(x, l, res)
  OBVIOUS
<1>2. /\ z \in Works(n) /\ SameAnswer(x, z) /\ z.told = x.told /\ z.span = x.span
      /\ z.out[l] = res
      /\ \A m \in 1 .. n : m # l => z.out[m] = x.out[m]
  BY <1>1, OutSet
<1>3. CASE l = 1 /\ Server = "grpc" /\ res # "panic"
  <2>1. PICK b \in SUBSET Answers : b = {IF res = "ok" THEN "result" ELSE "error"}
    BY DEF Answers
  <2>2. PICK c \in Nat : c = x.code
    BY DEF Works
  <2>3. PICK y : y = [z EXCEPT !.sent = c, !.ans = b]
    OBVIOUS
  <2>4. Returned(x, l, res) = y
    BY <1>1, <1>3, <2>1, <2>2, <2>3 DEF Returned, WithOut
  <2>5. /\ y \in Works(n) /\ y.span = z.span /\ y.told = z.told /\ y.out = z.out
        /\ y.code = z.code /\ y.handled = z.handled /\ y.finalized = z.finalized /\ y.saw = z.saw
        /\ y.sent = c /\ y.ans = b
    BY <1>2, <2>3 DEF Works
  <2> QED BY <1>2, <1>3, <2>1, <2>2, <2>4, <2>5 DEF SameAnswer
<1>4. CASE l > 1 /\ Layers[l - 1] = "gobreaker"
  <2>1. PICK k \in 1 .. n : k = l - 1
    BY <1>4
  <2>2. PICK r \in Results : r = IF res = "ok" THEN "ok" ELSE "err"
    BY DEF Results
  <2>3. PICK y : y = Tell(z, k, r)
    OBVIOUS
  <2>4. Returned(x, l, res) = y
    BY <1>1, <1>4, <2>1, <2>2, <2>3 DEF Returned, WithOut
  <2>5. /\ y \in Works(n) /\ SameAnswer(z, y) /\ y.out = z.out /\ y.span = z.span
        /\ y.told[k] = Append(z.told[k], IF r = "err" THEN "failure" ELSE "success")
        /\ \A m \in 1 .. n : m # k => y.told[m] = z.told[m]
    <3>1. PICK x0 \in Works(n) : x0 = z
      BY <1>2
    <3>2. /\ Tell(x0, k, r) \in Works(n) /\ SameAnswer(x0, Tell(x0, k, r))
          /\ Tell(x0, k, r).out = x0.out /\ Tell(x0, k, r).span = x0.span
      BY TellFacts
    <3>3. Tell(x0, k, r).told[k] = Append(x0.told[k], IF r = "err" THEN "failure" ELSE "success")
      BY TellFacts
    <3>4. \A m \in 1 .. n : m # k => Tell(x0, k, r).told[m] = x0.told[m]
      BY TellFacts
    <3> QED BY <2>3, <3>1, <3>2, <3>3, <3>4
  <2>6. (IF r = "err" THEN "failure" ELSE "success") = IF res = "ok" THEN "success" ELSE "failure"
    BY <2>2
  <2> QED BY <1>2, <1>4, <2>1, <2>4, <2>5, <2>6 DEF SameAnswer
<1>5. CASE ~(l = 1 /\ Server = "grpc" /\ res # "panic") /\ ~(l > 1 /\ Layers[l - 1] = "gobreaker")
  <2>1. Returned(x, l, res) = z
    BY <1>1, <1>5 DEF Returned, WithOut
  <2>2. \A m \in 1 .. n : m = l - 1 => l > 1
    OBVIOUS
  <2> QED BY <1>2, <1>5, <2>1, <2>2 DEF SameAnswer
<1> QED BY <1>3, <1>4, <1>5

(* The same, in the parts that later proofs need.                            *)
TellsCaller(n, x, l, res, y) ==
  /\ \A m \in 1 .. n : ~(m = l - 1 /\ Layers[m] = "gobreaker") => y.told[m] = x.told[m]
  /\ l > 1 /\ Layers[l - 1] = "gobreaker" =>
       y.told[l - 1] = Append(x.told[l - 1], IF res = "ok" THEN "success" ELSE "failure")

(* The return of a layer tells the gobreaker around it of the outcome.       *)
LEMMA ReturnedTells ==
  ASSUME NEW n \in Nat, NEW x \in Works(n), NEW l \in 1 .. n, NEW res \in Results, NEW y,
         y = Returned(x, l, res)
  PROVE  y \in Works(n) /\ TellsCaller(n, x, l, res, y)
<1>1. Returned(x, l, res) \in Works(n)
  BY ReturnedFacts
<1>2. \A m \in 1 .. n : ~(m = l - 1 /\ Layers[m] = "gobreaker") =>
                         Returned(x, l, res).told[m] = x.told[m]
  BY ReturnedFacts
<1>3. l > 1 /\ Layers[l - 1] = "gobreaker" =>
        Returned(x, l, res).told[l - 1] =
          Append(x.told[l - 1], IF res = "ok" THEN "success" ELSE "failure")
  BY ReturnedFacts
<1> QED BY <1>1, <1>2, <1>3 DEF TellsCaller

(* The return of a layer keeps what the server said of the error.            *)
LEMMA ReturnedKeeps ==
  ASSUME NEW n \in Nat, NEW x \in Works(n), NEW l \in 1 .. n, NEW res \in Results, NEW y,
         y = Returned(x, l, res)
  PROVE  /\ y.code = x.code /\ y.handled = x.handled
         /\ y.finalized = x.finalized /\ y.saw = x.saw
<1>1. Returned(x, l, res).code = x.code /\ Returned(x, l, res).handled = x.handled
  BY ReturnedFacts
<1>2. Returned(x, l, res).finalized = x.finalized /\ Returned(x, l, res).saw = x.saw
  BY ReturnedFacts
<1> QED BY <1>1, <1>2

-----------------------------------------------------------------------------

(* Frames, stacks and goroutines.                                            *)
LEMMA SetTopFacts ==
  ASSUME NEW g \in Threads, Len(g.stack) > 0, NEW f \in Frames
  PROVE  LET h == SetTop(g, f) IN
         /\ h \in Threads /\ h.st = g.st /\ h.res = g.res
         /\ Len(h.stack) = Len(g.stack)
         /\ h.stack[Len(g.stack)] = f
         /\ \A p \in 1 .. Len(g.stack) - 1 : h.stack[p] = g.stack[p]
<1>1. g.stack \in Seq(Frames) /\ Len(g.stack) \in Nat
  BY LenProperties DEF Threads
<1>2. PICK s : s = [g.stack EXCEPT ![Len(g.stack)] = f]
  OBVIOUS
<1>3. /\ s \in Seq(Frames) /\ Len(s) = Len(g.stack)
      /\ \A j \in 1 .. Len(g.stack) : s[j] = IF j = Len(g.stack) THEN f ELSE g.stack[j]
  BY <1>1, <1>2, ExceptSeq
<1>4. SetTop(g, f) = [g EXCEPT !.stack = s]
  BY <1>2 DEF SetTop, Threads
<1>5. /\ [g EXCEPT !.stack = s] \in Threads
      /\ [g EXCEPT !.stack = s].st = g.st /\ [g EXCEPT !.stack = s].res = g.res
      /\ [g EXCEPT !.stack = s].stack = s
  BY <1>3 DEF Threads
<1> QED BY <1>1, <1>3, <1>4, <1>5

(* The goroutine after it has moved on a stage.                              *)
LEMMA MovedFacts ==
  ASSUME NEW g \in Threads, Len(g.stack) > 0
  PROVE  LET h == Moved(g)
             n == Len(g.stack)
             last == Len(Stages[Layers[g.stack[n].l]])
         IN
         /\ h \in Threads /\ h.res = "ok" /\ Len(h.stack) = n
         /\ \A p \in 1 .. n - 1 : h.stack[p] = g.stack[p]
         /\ h.stack[n].l = g.stack[n].l /\ h.stack[n].defers = g.stack[n].defers
         /\ g.stack[n].pc = last => h.st = "unwind" /\ h.stack[n].pc = last
         /\ g.stack[n].pc # last => h.st = "run" /\ h.stack[n].pc = g.stack[n].pc + 1
<1>1. g.stack \in Seq(Frames) /\ Len(g.stack) \in Nat
  BY LenProperties DEF Threads
<1>2. PICK f \in Frames : f = g.stack[Len(g.stack)]
  BY <1>1, ElementOfSeq
<1>3. CASE f.pc = Len(Stages[Layers[f.l]])
  <2>1. PICK h : h = [g EXCEPT !.st = "unwind", !.res = "ok"]
    OBVIOUS
  <2>2. Moved(g) = h
    BY <1>2, <1>3, <2>1 DEF Moved
  <2>3. h \in Threads /\ h.res = "ok" /\ h.st = "unwind" /\ h.stack = g.stack
    BY <2>1 DEF Threads, Results
  <2> QED BY <1>2, <1>3, <2>2, <2>3
<1>4. CASE f.pc # Len(Stages[Layers[f.l]])
  <2>1. PICK e : e = [f EXCEPT !.pc = @ + 1]
    OBVIOUS
  <2>2. e \in Frames /\ e.l = f.l /\ e.pc = f.pc + 1 /\ e.defers = f.defers
    <3>1. f.pc + 1 \in Nat
      BY DEF Frames
    <3> QED BY <2>1, <3>1 DEF Frames
  <2>3. PICK s : s = SetTop(g, e)
    OBVIOUS
  <2>4. /\ s \in Threads /\ Len(s.stack) = Len(g.stack) /\ s.stack[Len(g.stack)] = e
        /\ \A p \in 1 .. Len(g.stack) - 1 : s.stack[p] = g.stack[p]
    BY <2>2, <2>3, SetTopFacts
  <2>5. PICK h : h = [s EXCEPT !.st = "run", !.res = "ok"]
    OBVIOUS
  <2>6. h \in Threads /\ h.res = "ok" /\ h.st = "run" /\ h.stack = s.stack
    BY <2>4, <2>5 DEF Threads, Results
  <2>7. Moved(g) = h
    BY <1>2, <1>4, <2>1, <2>3, <2>5 DEF Moved
  <2> QED BY <1>2, <1>4, <2>2, <2>4, <2>6, <2>7
<1> QED BY <1>3, <1>4

(* The goroutine after it has given up in a stage.                           *)
LEMMA UnwindingFacts ==
  ASSUME NEW g \in Threads, NEW r \in Results
  PROVE  LET h == Unwinding(g, r) IN
         h \in Threads /\ h.st = "unwind" /\ h.res = r /\ h.stack = g.stack
BY DEF Unwinding, Threads

(* A nonempty sequence without its last element.                             *)
LEMMA FrontFacts ==
  ASSUME NEW S, NEW s \in Seq(S), Len(s) > 0
  PROVE  /\ Front(s) \in Seq(S) /\ Len(Front(s)) = Len(s) - 1
         /\ \A i \in 1 .. Len(s) - 1 : Front(s)[i] = s[i]
<1>1. Len(s) \in Nat /\ \A i \in 1 .. Len(s) - 1 : s[i] \in S
  BY LenProperties, ElementOfSeq
<1>2. Len(s) - 1 \in Int /\ 1 \in Int
  BY <1>1
<1>3. PICK k \in Int : k = Len(s) - 1
  BY <1>2
<1>4. /\ SubSeq(s, 1, k) \in Seq(S)
      /\ Len(SubSeq(s, 1, k)) = IF 1 <= k THEN k - 1 + 1 ELSE 0
      /\ \A i \in 1 .. k - 1 + 1 : SubSeq(s, 1, k)[i] = s[1 + i - 1]
  BY <1>1, <1>3, SubSeqProperties
<1>5. Front(s) = SubSeq(s, 1, k)
  BY <1>3 DEF Front
<1> QED BY <1>1, <1>3, <1>4, <1>5

(* What a stage that defers adds to the deferred calls.                      *)
LEMMA DeferralFacts ==
  ASSUME NEW s \in DeferStages
  PROVE  /\ Deferral(s) \in Seq(DeferredCalls)
         /\ s \in {"finalizer", "report", "finish"} => Deferral(s) = <<s>>
         /\ s \notin {"finalizer", "report", "finish"} =>
              \A i \in 1 .. Len(Deferral(s)) : Deferral(s)[i] \in {"close", "cancel"}
<1>1. CASE s \in {"close", "closeAndCancel"} /\ config.buffered
  <2>1. Deferral(s) = <<>>
    BY <1>1 DEF Deferral
  <2> QED BY <1>1, <2>1
<1>2. CASE s = "closeAndCancel" /\ ~config.buffered
  <2>1. Deferral(s) = <<"close", "cancel">>
    BY <1>2 DEF Deferral
  <2>2. <<"close", "cancel">> \in Seq(DeferredCalls)
    BY DEF DeferredCalls
  <2>3. \A i \in 1 .. Len(<<"close", "cancel">>) : <<"close", "cancel">>[i] \in {"close", "cancel"}
    OBVIOUS
  <2> QED BY <1>2, <2>1, <2>2, <2>3
<1>3. CASE s \in {"finalizer", "cancel", "report", "finish"} \/ (s = "close" /\ ~config.buffered)
  <2>1. Deferral(s) = <<s>>
    BY <1>3 DEF Deferral
  <2>2. s \in DeferredCalls
    BY <1>3 DEF DeferredCalls
  <2>3. <<s>> \in Seq(DeferredCalls) /\ Len(<<s>>) = 1 /\ <<s>>[1] = s
    BY <2>2
  <2>4. s \notin {"finalizer", "report", "finish"} => s \in {"close", "cancel"}
    BY <1>3
  <2>5. \A i \in 1 .. Len(Deferral(s)) : Deferral(s)[i] = s
    BY <2>1, <2>3
  <2> QED BY <2>1, <2>3, <2>4, <2>5
<1> QED BY <1>1, <1>2, <1>3 DEF DeferStages

-----------------------------------------------------------------------------

(* The types of the state.                                                   *)
Types ==
  /\ config \in Configs
  /\ th \in [Goroutines -> Threads]
  /\ w \in Works(Len(Layers))

(* The frames of a goroutine are consecutive layers that have not returned;  *)
(* all but the last wait in their calls. What has ended has run its defers.  *)
Alive(t) == th[t].st \in {"run", "unwind"}
FrameOK(t, p) ==
  LET g == th[t]
      f == th[t].stack[p]
  IN  /\ f.l = g.stack[1].l + p - 1
      /\ f.l \in 1 .. Len(Layers)
      /\ f.pc \in 1 .. Len(Stages[Layers[f.l]])
      /\ p < Len(g.stack) => f.pc = CallAt[Layers[f.l]] /\ Layers[f.l] # "hystrix"
      /\ g.st = "done" => p = 1 /\ f.defers = <<>>
      /\ Alive(t) => w.out[f.l] = "none"
StackOK(t) ==
  /\ th[t].st = "off" <=> Len(th[t].stack) = 0
  /\ \A p \in 1 .. Len(th[t].stack) : FrameOK(t, p)

(* The server is the first layer of "serve"; Hystrix is the last layer of    *)
(* "serve" that called, and the layers of "run" follow it.                   *)
Base == th["run"].stack[1].l
Shape ==
  /\ \A t \in Goroutines : StackOK(t)
  /\ th["serve"].st # "off" /\ th["serve"].stack[1].l = 1
  /\ th["run"].st # "off" =>
       Base > 2 /\ Layers[Base - 1] = "hystrix" /\ Len(th["serve"].stack) < Base

(* A layer that has not called yet finds the layers after it untouched.      *)
Fresh(m) ==
  /\ w.out[m] = "none" /\ w.told[m] = <<>> /\ w.finalized[m] = 0
  /\ w.span[m].st = "none" /\ w.span[m].sent = 0
Before(t) == th[t].st = "run" /\ Top(t).pc <= CallAt[Layers[Top(t).l]]
Ahead ==
  \A t \in Goroutines : Before(t) =>
    /\ t = "serve" => th["run"].st = "off"
    /\ \A m \in 1 .. Len(Layers) : m > Top(t).l => Fresh(m)

(* What a step does to the goroutine that takes it: g becomes h.             *)
Advance(g, h) ==
  LET n == Len(g.stack)
      f == g.stack[n]
      e == h.stack[n]
      last == Len(Stages[Layers[f.l]])
  IN  /\ g.st = "run" /\ h.res = "ok" /\ Len(h.stack) = n
      /\ \A p \in 1 .. n - 1 : h.stack[p] = g.stack[p]
      /\ e.l = f.l
      /\ f.pc = last => h.st = "unwind" /\ e.pc = last
      /\ f.pc # last => h.st = "run" /\ e.pc = f.pc + 1
GiveUp(g, h, r) == g.st = "run" /\ h.st = "unwind" /\ h.res = r /\ h.stack = g.stack
Push(g, h) ==
  LET n == Len(g.stack) IN
  /\ g.st = "run" /\ h.st = "run" /\ h.res = g.res
  /\ Len(h.stack) = n + 1
  /\ \A p \in 1 .. n : h.stack[p] = g.stack[p]
  /\ h.stack[n + 1].l = g.stack[n].l + 1 /\ h.stack[n + 1].pc = 1 /\ h.stack[n + 1].defers = <<>>
PopDefer(g, h) ==
  LET n == Len(g.stack) IN
  /\ g.st = "unwind" /\ h.st = "unwind" /\ h.res = g.res /\ Len(h.stack) = n
  /\ \A p \in 1 .. n - 1 : h.stack[p] = g.stack[p]
  /\ h.stack[n].l = g.stack[n].l /\ h.stack[n].pc = g.stack[n].pc
  /\ g.stack[n].defers # <<>> /\ h.stack[n].defers = Front(g.stack[n].defers)
End(g, h) ==
  /\ Len(g.stack) = 1 /\ g.st = "unwind" /\ h.st = "done" /\ h.res = g.res /\ h.stack = g.stack
  /\ g.stack[1].defers = <<>>
Drop(g, h) ==
  LET n == Len(g.stack) IN
  /\ n > 1 /\ g.st = "unwind" /\ g.stack[n].defers = <<>> /\ g.res \in {"err", "panic"}
  /\ h.st = "unwind" /\ h.res = g.res /\ Len(h.stack) = n - 1
  /\ \A p \in 1 .. n - 1 : h.stack[p] = g.stack[p]
Resume(g, h) ==
  LET n == Len(g.stack)
      f == g.stack[n - 1]
      e == h.stack[n - 1]
      last == Len(Stages[Layers[f.l]])
  IN  /\ n > 1 /\ g.st = "unwind" /\ g.stack[n].defers = <<>> /\ g.res = "ok"
      /\ h.res = "ok" /\ Len(h.stack) = n - 1
      /\ \A p \in 1 .. n - 2 : h.stack[p] = g.stack[p]
      /\ e.l = f.l /\ e.defers = f.defers
      /\ f.pc = last => h.st = "unwind" /\ e.pc = last
      /\ f.pc # last => h.st = "run" /\ e.pc = f.pc + 1

Turn(t) ==
  /\ th' \in [Goroutines -> Threads]
  /\ \A u \in Goroutines : u # t => th'[u] = th[u]

(* The frame on top of a goroutine that is under way.                        *)
LEMMA TopFacts ==
  ASSUME Types, Shape, NEW t \in Goroutines, Alive(t)
  PROVE  LET n == Len(th[t].stack) IN
         /\ n \in Nat /\ n > 0 /\ Top(t) = th[t].stack[n] /\ Top(t) \in Frames
         /\ th[t] \in Threads /\ th[t].stack \in Seq(Frames)
         /\ \A p \in 1 .. n : th[t].stack[p] \in Frames /\ FrameOK(t, p)
         /\ Top(t).l \in 1 .. Len(Layers) /\ Layers[Top(t).l] \in Kinds
         /\ Top(t).pc \in 1 .. Len(Stages[Layers[Top(t).l]])
         /\ w.out[Top(t).l] = "none"
<1>1. th[t] \in Threads /\ th[t].stack \in Seq(Frames)
  BY DEF Types, Threads
<1>2. Len(th[t].stack) \in Nat /\ \A p \in 1 .. Len(th[t].stack) : th[t].stack[p] \in Frames
  BY <1>1, LenProperties, ElementOfSeq
<1>3. th[t].st # "off" /\ StackOK(t)
  BY DEF Alive, Shape
<1>4. Len(th[t].stack) > 0 /\ \A p \in 1 .. Len(th[t].stack) : FrameOK(t, p)
  BY <1>2, <1>3 DEF StackOK
<1>5. Top(t) = th[t].stack[Len(th[t].stack)]
  BY DEF Top
<1>6. FrameOK(t, Len(th[t].stack))
  BY <1>2, <1>4
<1>7. /\ Top(t).l \in 1 .. Len(Layers) /\ Top(t).pc \in 1 .. Len(Stages[Layers[Top(t).l]])
      /\ w.out[Top(t).l] = "none"
  BY <1>5, <1>6 DEF FrameOK
<1>8. Layers[Top(t).l] \in Kinds
  BY <1>7, LayerKinds DEF Types
<1> QED BY <1>1, <1>2, <1>4, <1>5, <1>7, <1>8


(* What each action does to its goroutine.                                   *)
LEMMA TurnIs ==
  ASSUME Types, NEW t \in Goroutines, NEW h \in Threads, th' = [th EXCEPT ![t] = h]
  PROVE  Turn(t) /\ th'[t] = h
BY DEF Types, Turn

(* Defer advances the goroutine and adds its deferred call.                  *)
LEMMA DeferEffect ==
  ASSUME Types, Shape, NEW t \in Goroutines, Defer(t)
  PROVE  /\ Turn(t) /\ Advance(th[t], th'[t]) /\ w' = w /\ Stage(t) \in DeferStages
         /\ th'[t].stack[Len(th[t].stack)].defers = Top(t).defers \o Deferral(Stage(t))
<1>0. th[t].st = "run" /\ Stage(t) \in DeferStages /\ Alive(t) /\ w' = w
  BY DEF Defer, Running, Alive
<1>1. /\ th[t] \in Threads /\ Len(th[t].stack) \in Nat /\ Len(th[t].stack) > 0
      /\ Top(t) \in Frames /\ Top(t) = th[t].stack[Len(th[t].stack)]
  BY <1>0, TopFacts
<1>2. PICK d \in Seq(DeferredCalls) : d = Top(t).defers \o Deferral(Stage(t))
  <2>1. Top(t).defers \in Seq(DeferredCalls)
    BY <1>1 DEF Frames
  <2> QED BY <1>0, <2>1, DeferralFacts, ConcatProperties
<1>3. PICK f \in Frames : f = [Top(t) EXCEPT !.defers = d]
  BY <1>1 DEF Frames
<1>4. f.l = Top(t).l /\ f.pc = Top(t).pc /\ f.defers = d
  BY <1>1, <1>3 DEF Frames
<1>5. [Top(t) EXCEPT !.defers = @ \o Deferral(Stage(t))] = f
  BY <1>1, <1>2, <1>3 DEF Frames
<1>6. PICK g : g = SetTop(th[t], f)
  OBVIOUS
<1>7. /\ g \in Threads /\ Len(g.stack) = Len(th[t].stack)
      /\ g.stack[Len(th[t].stack)] = f
      /\ \A p \in 1 .. Len(th[t].stack) - 1 : g.stack[p] = th[t].stack[p]
  BY <1>1, <1>6, SetTopFacts
<1>8. PICK h : h = Moved(g)
  OBVIOUS
<1>9. /\ h \in Threads /\ h.res = "ok" /\ Len(h.stack) = Len(g.stack)
      /\ \A p \in 1 .. Len(g.stack) - 1 : h.stack[p] = g.stack[p]
      /\ h.stack[Len(g.stack)].l = f.l /\ h.stack[Len(g.stack)].defers = f.defers
      /\ f.pc = Len(Stages[Layers[f.l]]) => h.st = "unwind" /\ h.stack[Len(g.stack)].pc = Len(Stages[Layers[f.l]])
      /\ f.pc # Len(Stages[Layers[f.l]]) => h.st = "run" /\ h.stack[Len(g.stack)].pc = f.pc + 1
  <2>1. /\ h \in Threads /\ h.res = "ok" /\ Len(h.stack) = Len(g.stack)
        /\ \A p \in 1 .. Len(g.stack) - 1 : h.stack[p] = g.stack[p]
        /\ h.stack[Len(g.stack)].l = g.stack[Len(g.stack)].l
        /\ h.stack[Len(g.stack)].defers = g.stack[Len(g.stack)].defers
        /\ g.stack[Len(g.stack)].pc = Len(Stages[Layers[g.stack[Len(g.stack)].l]]) =>
             h.st = "unwind" /\ h.stack[Len(g.stack)].pc = Len(Stages[Layers[g.stack[Len(g.stack)].l]])
        /\ g.stack[Len(g.stack)].pc # Len(Stages[Layers[g.stack[Len(g.stack)].l]]) =>
             h.st = "run" /\ h.stack[Len(g.stack)].pc = g.stack[Len(g.stack)].pc + 1
    BY <1>1, <1>7, <1>8, MovedFacts
  <2> QED BY <1>7, <2>1
<1>10. th' = [th EXCEPT ![t] = h]
  BY <1>5, <1>6, <1>8 DEF Defer
<1>11. Turn(t) /\ th'[t] = h
  BY <1>9, <1>10, TurnIs
<1>12. Advance(th[t], h)
  BY <1>0, <1>1, <1>4, <1>7, <1>9 DEF Advance
<1> QED BY <1>0, <1>1, <1>2, <1>4, <1>7, <1>9, <1>11, <1>12, Zenon

(* Moved is Advance.                                                         *)
LEMMA MoveEffect ==
  ASSUME Types, Shape, NEW t \in Goroutines, th[t].st = "run", NEW h, h = Moved(th[t])
  PROVE  /\ h \in Threads /\ Advance(th[t], h)
         /\ h.stack[Len(th[t].stack)].defers = Top(t).defers
<1>1. /\ th[t] \in Threads /\ Len(th[t].stack) \in Nat /\ Len(th[t].stack) > 0
      /\ Top(t) = th[t].stack[Len(th[t].stack)]
  BY TopFacts DEF Alive
<1>2. PICK g : g = th[t]
  OBVIOUS
<1>3. /\ h \in Threads /\ h.res = "ok" /\ Len(h.stack) = Len(g.stack)
      /\ \A p \in 1 .. Len(g.stack) - 1 : h.stack[p] = g.stack[p]
      /\ h.stack[Len(g.stack)].l = g.stack[Len(g.stack)].l
      /\ h.stack[Len(g.stack)].defers = g.stack[Len(g.stack)].defers
      /\ g.stack[Len(g.stack)].pc = Len(Stages[Layers[g.stack[Len(g.stack)].l]]) =>
           h.st = "unwind" /\ h.stack[Len(g.stack)].pc = Len(Stages[Layers[g.stack[Len(g.stack)].l]])
      /\ g.stack[Len(g.stack)].pc # Len(Stages[Layers[g.stack[Len(g.stack)].l]]) =>
           h.st = "run" /\ h.stack[Len(g.stack)].pc = g.stack[Len(g.stack)].pc + 1
  BY <1>1, <1>2, MovedFacts
<1> QED BY <1>1, <1>2, <1>3 DEF Advance

(* Pass advances the goroutine with the same deferred calls.                 *)
LEMMA PassEffect ==
  ASSUME Types, Shape, NEW t \in Goroutines, Pass(t)
  PROVE  /\ Turn(t) /\ Advance(th[t], th'[t])
         /\ w' \in Passed(w, Top(t).l, Stage(t))
         /\ Stage(t) \notin DeferStages \cup {"call", "spawn", "wait"}
         /\ th'[t].stack[Len(th[t].stack)].defers = Top(t).defers
<1>1. /\ th[t].st = "run" /\ Stage(t) \notin DeferStages \cup {"call", "spawn", "wait"}
      /\ th' = [th EXCEPT ![t] = Moved(th[t])] /\ w' \in Passed(w, Top(t).l, Stage(t))
  BY DEF Pass, Running
<1>2. PICK h : h = Moved(th[t])
  OBVIOUS
<1>3. /\ h \in Threads /\ Advance(th[t], h)
      /\ h.stack[Len(th[t].stack)].defers = Top(t).defers
  BY <1>1, <1>2, MoveEffect
<1>4. Turn(t) /\ th'[t] = h
  BY <1>1, <1>2, <1>3, TurnIs
<1> QED BY <1>1, <1>3, <1>4

(* Unwinding is GiveUp.                                                      *)
LEMMA GiveUpEffect ==
  ASSUME Types, NEW t \in Goroutines, th[t].st = "run", NEW r \in Results,
         th' = [th EXCEPT ![t] = Unwinding(th[t], r)]
  PROVE  Turn(t) /\ GiveUp(th[t], th'[t], r)
<1>1. th[t] \in Threads
  BY DEF Types
<1>2. PICK h : h = Unwinding(th[t], r)
  OBVIOUS
<1>3. h \in Threads /\ h.st = "unwind" /\ h.res = r /\ h.stack = th[t].stack
  BY <1>1, <1>2, UnwindingFacts
<1>4. Turn(t) /\ th'[t] = h
  BY <1>2, <1>3, TurnIs
<1> QED BY <1>3, <1>4 DEF GiveUp

(* Fail gives up with an error.                                              *)
LEMMA FailEffect ==
  ASSUME Types, Shape, NEW t \in Goroutines, Fail(t)
  PROVE  /\ Turn(t) /\ GiveUp(th[t], th'[t], "err")
         /\ w' \in Failures(w, Top(t).l, Stage(t)) /\ Stage(t) \in Fallible
<1>1. PICK r \in Results : r = "err"
  BY DEF Results
<1>2. th[t].st = "run" /\ th' = [th EXCEPT ![t] = Unwinding(th[t], r)]
  BY <1>1 DEF Fail, Running
<1> QED BY <1>1, <1>2, GiveUpEffect DEF Fail

(* Panic gives up with a panic.                                              *)
LEMMA PanicEffect ==
  ASSUME Types, Shape, NEW t \in Goroutines, Panic(t)
  PROVE  /\ Turn(t) /\ GiveUp(th[t], th'[t], "panic")
         /\ w' \in Panics(w, Top(t).l, Stage(t)) /\ Stage(t) \in UserCode /\ t = "serve"
<1>1. PICK r \in Results : r = "panic"
  BY DEF Results
<1>2. th[t].st = "run" /\ th' = [th EXCEPT ![t] = Unwinding(th[t], r)]
  BY <1>1 DEF Panic, Running
<1> QED BY <1>1, <1>2, GiveUpEffect DEF Panic

(* Call pushes the frame of the next layer.                                  *)
LEMMA CallEffect ==
  ASSUME Types, Shape, NEW t \in Goroutines, Call(t)
  PROVE  Turn(t) /\ Push(th[t], th'[t]) /\ w' = w /\ Stage(t) = "call"
<1>1. th[t].st = "run" /\ Stage(t) = "call" /\ w' = w /\ Alive(t)
  BY DEF Call, Running, Alive
<1>2. /\ th[t] \in Threads /\ Len(th[t].stack) \in Nat /\ Len(th[t].stack) > 0
      /\ Top(t) = th[t].stack[Len(th[t].stack)] /\ th[t].stack \in Seq(Frames)
      /\ Top(t).l \in 1 .. Len(Layers)
  BY <1>1, TopFacts
<1>3. PICK f \in Frames : f = Frame(Top(t).l + 1)
  <2>1. Top(t).l + 1 \in Nat /\ <<>> \in Seq(DeferredCalls)
    BY <1>2
  <2> QED BY <2>1 DEF Frame, Frames
<1>4. f.l = Top(t).l + 1 /\ f.pc = 1 /\ f.defers = <<>>
  BY <1>3 DEF Frame
<1>5. PICK s \in Seq(Frames) : s = Append(th[t].stack, f)
  BY <1>2, AppendProperties
<1>6. /\ Len(s) = Len(th[t].stack) + 1 /\ s[Len(th[t].stack) + 1] = f
      /\ \A p \in 1 .. Len(th[t].stack) : s[p] = th[t].stack[p]
  BY <1>2, <1>5, AppendProperties
<1>7. PICK h : h = [th[t] EXCEPT !.stack = s]
  OBVIOUS
<1>8. h \in Threads /\ h.st = th[t].st /\ h.res = th[t].res /\ h.stack = s
  BY <1>2, <1>7 DEF Threads
<1>9. th' = [th EXCEPT ![t] = h]
  BY <1>3, <1>5, <1>7 DEF Call
<1>10. Turn(t) /\ th'[t] = h
  BY <1>8, <1>9, TurnIs
<1> QED BY <1>1, <1>2, <1>4, <1>6, <1>8, <1>10 DEF Push

(* RunDeferred takes the last deferred call off the frame.                   *)
LEMMA RunDeferredEffect ==
  ASSUME Types, Shape, NEW t \in Goroutines, RunDeferred(t)
  PROVE  /\ Turn(t) /\ PopDefer(th[t], th'[t])
         /\ LET k == Len(Top(t).defers) IN
            /\ k \in Nat /\ k > 0 /\ Top(t).defers[k] \in DeferredCalls
            /\ w' = Deferred(w, Top(t).l, Top(t).defers[k], th[t].res)
<1>1. th[t].st = "unwind" /\ Top(t).defers # <<>> /\ Alive(t)
  BY DEF RunDeferred, Alive
<1>2. /\ th[t] \in Threads /\ Len(th[t].stack) \in Nat /\ Len(th[t].stack) > 0
      /\ Top(t) \in Frames /\ Top(t) = th[t].stack[Len(th[t].stack)]
  BY <1>1, TopFacts
<1>3. Top(t).defers \in Seq(DeferredCalls) /\ Len(Top(t).defers) \in Nat
  BY <1>2, LenProperties DEF Frames
<1>4. Len(Top(t).defers) > 0 /\ Top(t).defers[Len(Top(t).defers)] \in DeferredCalls
  BY <1>1, <1>3, EmptySeq, ElementOfSeq
<1>5. PICK d \in Seq(DeferredCalls) : d = Front(Top(t).defers)
  BY <1>3, <1>4, FrontFacts
<1>6. PICK f \in Frames : f = [Top(t) EXCEPT !.defers = d]
  BY <1>2 DEF Frames
<1>7. f.l = Top(t).l /\ f.pc = Top(t).pc /\ f.defers = d
  BY <1>2, <1>6 DEF Frames
<1>8. [Top(t) EXCEPT !.defers = Front(@)] = f
  BY <1>2, <1>5, <1>6 DEF Frames
<1>9. PICK h : h = SetTop(th[t], f)
  OBVIOUS
<1>10. /\ h \in Threads /\ h.st = th[t].st /\ h.res = th[t].res
       /\ Len(h.stack) = Len(th[t].stack) /\ h.stack[Len(th[t].stack)] = f
       /\ \A p \in 1 .. Len(th[t].stack) - 1 : h.stack[p] = th[t].stack[p]
  BY <1>2, <1>9, SetTopFacts
<1>11. th' = [th EXCEPT ![t] = h]
  BY <1>8, <1>9 DEF RunDeferred
<1>12. Turn(t) /\ th'[t] = h
  BY <1>10, <1>11, TurnIs
<1>13. PopDefer(th[t], h)
  BY <1>1, <1>2, <1>5, <1>7, <1>10 DEF PopDefer
<1> QED BY <1>3, <1>4, <1>12, <1>13 DEF RunDeferred


(* Return ends the goroutine, drops the frame or resumes the caller.         *)
LEMMA ReturnEffect ==
  ASSUME Types, Shape, NEW t \in Goroutines, Return(t)
  PROVE  LET x == Returned(w, Top(t).l, th[t].res) IN
         /\ Turn(t) /\ th[t].st = "unwind" /\ Top(t).defers = <<>>
         /\ \/ End(th[t], th'[t]) /\ w' = x
            \/ Resume(th[t], th'[t]) /\ w' = x
            \/ Drop(th[t], th'[t]) /\ th[t].res = "panic" /\ w' = x
            \/ Drop(th[t], th'[t]) /\ th[t].res = "err" /\ w' \in Failures(x, Top(t).l - 1, "call")
<1>1. th[t].st = "unwind" /\ Top(t).defers = <<>> /\ Alive(t)
  BY DEF Return, Alive
<1>2. /\ th[t] \in Threads /\ Len(th[t].stack) \in Nat /\ Len(th[t].stack) > 0
      /\ Top(t) = th[t].stack[Len(th[t].stack)] /\ th[t].stack \in Seq(Frames)
  BY <1>1, TopFacts
<1>3. PICK x : x = Returned(w, Top(t).l, th[t].res)
  OBVIOUS
<1>4. PICK s \in Seq(Frames) : s = Front(th[t].stack)
  BY <1>2, FrontFacts
<1>5. /\ Len(s) = Len(th[t].stack) - 1
      /\ \A p \in 1 .. Len(th[t].stack) - 1 : s[p] = th[t].stack[p]
  BY <1>2, <1>4, FrontFacts
<1>6. PICK g : g = [th[t] EXCEPT !.stack = s]
  OBVIOUS
<1>7. g \in Threads /\ g.st = th[t].st /\ g.res = th[t].res /\ g.stack = s
  BY <1>2, <1>6 DEF Threads
<1>8. [th[t] EXCEPT !.stack = Front(@)] = g
  BY <1>4, <1>6
<1>9. s = <<>> <=> Len(th[t].stack) = 1
  <2>1. PICK k \in Nat : k = Len(th[t].stack) /\ Len(s) = k - 1
    BY <1>2, <1>5
  <2>2. ASSUME s = <<>> PROVE k = 1
    <3>1. Len(s) = 0
      BY <2>2
    <3> QED BY <2>1, <3>1
  <2>3. ASSUME s # <<>> PROVE k # 1
    <3>1. Len(s) \in Nat \ {0}
      BY <1>4, <2>3, EmptySeq
    <3> QED BY <2>1, <3>1
  <2> QED BY <2>1, <2>2, <2>3
<1>10. IF s = <<>> THEN th' = [th EXCEPT ![t].st = "done"] /\ w' = x
       ELSE CASE th[t].res = "ok" -> th' = [th EXCEPT ![t] = Moved(g)] /\ w' = x
              [] th[t].res = "err" ->
                   th' = [th EXCEPT ![t] = g] /\ w' \in Failures(x, Top(t).l - 1, "call")
              [] th[t].res = "panic" -> th' = [th EXCEPT ![t] = g] /\ w' = x
  BY <1>3, <1>7, <1>8 DEF Return
<1>11. CASE s = <<>>
  <2>1. th' = [th EXCEPT ![t].st = "done"] /\ w' = x
    BY <1>10, <1>11
  <2>2. PICK h : h = [th[t] EXCEPT !.st = "done"]
    OBVIOUS
  <2>3. h \in Threads /\ h.st = "done" /\ h.res = th[t].res /\ h.stack = th[t].stack
    BY <1>2, <2>2 DEF Threads
  <2>4. Turn(t) /\ th'[t] = h
    BY <2>1, <2>2, <2>3, TurnIs
  <2> QED BY <1>1, <1>2, <1>3, <1>9, <1>11, <2>1, <2>3, <2>4 DEF End
<1>12. CASE s # <<>> /\ th[t].res = "ok"
  <2>1. th' = [th EXCEPT ![t] = Moved(g)] /\ w' = x
    BY <1>10, <1>12
  <2>2. PICK h : h = Moved(g)
    OBVIOUS
  <2>3. Len(g.stack) = Len(th[t].stack) - 1 /\ Len(g.stack) > 0
    BY <1>2, <1>5, <1>7, <1>9, <1>12
  <2>4. /\ h \in Threads /\ h.res = "ok" /\ Len(h.stack) = Len(g.stack)
        /\ \A p \in 1 .. Len(g.stack) - 1 : h.stack[p] = g.stack[p]
        /\ h.stack[Len(g.stack)].l = g.stack[Len(g.stack)].l
        /\ h.stack[Len(g.stack)].defers = g.stack[Len(g.stack)].defers
        /\ g.stack[Len(g.stack)].pc = Len(Stages[Layers[g.stack[Len(g.stack)].l]]) =>
             h.st = "unwind" /\ h.stack[Len(g.stack)].pc = Len(Stages[Layers[g.stack[Len(g.stack)].l]])
        /\ g.stack[Len(g.stack)].pc # Len(Stages[Layers[g.stack[Len(g.stack)].l]]) =>
             h.st = "run" /\ h.stack[Len(g.stack)].pc = g.stack[Len(g.stack)].pc + 1
    BY <1>7, <2>2, <2>3, MovedFacts
  <2>5. Turn(t) /\ th'[t] = h
    BY <2>1, <2>2, <2>4, TurnIs
  <2>6. g.stack[Len(g.stack)] = th[t].stack[Len(th[t].stack) - 1]
        /\ \A p \in 1 .. Len(g.stack) - 1 : g.stack[p] = th[t].stack[p]
    <3>1. PICK k \in Nat : k = Len(th[t].stack)
      BY <1>2
    <3>2. PICK m \in Nat : m = Len(g.stack) /\ m = k - 1 /\ m > 0
      BY <1>4, <1>7, <2>3, <3>1
    <3>3. \A p \in 1 .. k - 1 : g.stack[p] = th[t].stack[p]
      BY <1>5, <1>7, <3>1, Zenon
    <3>4. m \in 1 .. k - 1 /\ \A p \in 1 .. m - 1 : p \in 1 .. k - 1
      BY <3>1, <3>2
    <3>5. g.stack[m] = th[t].stack[m] /\ \A p \in 1 .. m - 1 : g.stack[p] = th[t].stack[p]
      BY <3>3, <3>4, Zenon
    <3> QED BY <3>1, <3>2, <3>5
  <2>7. Resume(th[t], h)
    <3>1. PICK k \in Nat : k = Len(th[t].stack)
      BY <1>2
    <3>2. PICK m \in Nat : m = Len(g.stack) /\ m = k - 1 /\ m > 0
      BY <1>4, <1>7, <2>3, <3>1
    <3>3. m - 1 = k - 2 /\ k > 1
      BY <3>2
    <3>4. PICK f : f = g.stack[m] /\ f = th[t].stack[k - 1]
      BY <2>6, <3>1, <3>2, Zenon
    <3>5. \A p \in 1 .. k - 2 : h.stack[p] = th[t].stack[p]
      BY <2>4, <2>6, <3>2, <3>3, Zenon
    <3>6. /\ h.res = "ok" /\ Len(h.stack) = k - 1
          /\ h.stack[k - 1].l = f.l /\ h.stack[k - 1].defers = f.defers
          /\ f.pc = Len(Stages[Layers[f.l]]) =>
               h.st = "unwind" /\ h.stack[k - 1].pc = Len(Stages[Layers[f.l]])
          /\ f.pc # Len(Stages[Layers[f.l]]) => h.st = "run" /\ h.stack[k - 1].pc = f.pc + 1
      BY <2>4, <3>2, <3>4, Zenon
    <3>7. th[t].st = "unwind" /\ th[t].stack[k].defers = <<>> /\ th[t].res = "ok"
      BY <1>1, <1>2, <1>12, <3>1, Zenon
    <3> QED BY <3>1, <3>3, <3>4, <3>5, <3>6, <3>7, Zenon DEF Resume
  <2> QED BY <1>1, <1>3, <2>1, <2>5, <2>7
<1>13. CASE s # <<>> /\ th[t].res \in {"err", "panic"}
  <2>1. /\ th' = [th EXCEPT ![t] = g]
        /\ th[t].res = "err" => w' \in Failures(x, Top(t).l - 1, "call")
        /\ th[t].res = "panic" => w' = x
    BY <1>10, <1>13
  <2>2. Turn(t) /\ th'[t] = g
    BY <1>7, <2>1, TurnIs
  <2>3. Len(th[t].stack) > 1
    <3>1. PICK k \in Nat : k = Len(th[t].stack)
      BY <1>2
    <3>2. k # 1 /\ k # 0
      BY <1>2, <1>9, <1>13, <3>1
    <3>3. k > 1
      BY <3>2
    <3> QED BY <3>1, <3>3
  <2>4. Drop(th[t], g)
    BY <1>1, <1>2, <1>5, <1>7, <1>13, <2>3 DEF Drop
  <2> QED BY <1>1, <1>3, <1>13, <2>1, <2>2, <2>4
<1>14. th[t].res \in Results
  BY <1>2 DEF Threads
<1> QED BY <1>11, <1>12, <1>13, <1>14 DEF Results

-----------------------------------------------------------------------------

(* What a step does to the work: the layers after its own are left alone,    *)
(* and a layer has an outcome when it returns.                               *)
Untouched(l) ==
  \A m \in 1 .. Len(Layers) :
    m > l => w'.told[m] = w.told[m] /\ w'.span[m] = w.span[m] /\ w'.finalized[m] = w.finalized[m]
OutcomeOf(t) ==
  \A m \in 1 .. Len(Layers) : w'.out[m] = IF m = Top(t).l THEN th[t].res ELSE w.out[m]

(* A goroutine whose stack shrinks has a layer below the top.                *)
LEMMA LayerBelow ==
  ASSUME Types, Shape, NEW t \in Goroutines, Alive(t), Len(th[t].stack) > 1,
         NEW l, l = Top(t).l
  PROVE  l - 1 \in 1 .. Len(Layers)
<1>1. PICK n \in Nat : n = Len(th[t].stack) /\ n > 1
  BY TopFacts
<1>2. PICK m \in Nat : m = Len(Layers)
  BY LayerKinds DEF Types
<1>3. /\ Top(t) = th[t].stack[n]
      /\ \A p \in 1 .. n : th[t].stack[p] \in Frames /\ FrameOK(t, p)
  BY <1>1, TopFacts, Zenon
<1>4. 1 \in 1 .. n /\ n \in 1 .. n
  BY <1>1
<1>5. FrameOK(t, 1) /\ FrameOK(t, n)
  BY <1>3, <1>4, Zenon
<1>6. PICK i \in 1 .. m : i = th[t].stack[1].l
  BY <1>2, <1>5, Zenon DEF FrameOK
<1>7. PICK j \in 1 .. m : j = l /\ j = i + n - 1
  BY <1>2, <1>3, <1>5, <1>6, Zenon DEF FrameOK
<1>8. j - 1 \in 1 .. m
  BY <1>1, <1>7
<1> QED BY <1>2, <1>7, <1>8

(* What a step does to the work.                                             *)
LEMMA StepWork ==
  ASSUME Types, Shape, NEW t \in Goroutines, Step(t)
  PROVE  /\ Alive(t) /\ w' \in Works(Len(Layers)) /\ Untouched(Top(t).l)
         /\ Return(t) => OutcomeOf(t)
         /\ ~Return(t) => w'.out = w.out
<1>0. PICK n \in Nat : n = Len(Layers) /\ w \in Works(n)
  BY LayerKinds, Zenon DEF Types
<1>1. Alive(t)
  BY DEF Step, Defer, Pass, Fail, Panic, Call, RunDeferred, Return, Running, Alive
<1>2. Server \in ServerKinds /\ Layers[1] = Server
  BY LayerKinds DEF Types
<1>3. PICK l \in 1 .. n : l = Top(t).l
  BY <1>0, <1>1, TopFacts
<1>4. CASE w' = w /\ ~Return(t)
  BY <1>0, <1>1, <1>4 DEF Untouched
<1>5. CASE Pass(t) /\ ~Return(t)
  <2>1. PICK y \in Passed(w, l, Stage(t)) : w' = y
    BY <1>3, <1>5 DEF Pass
  <2>2. /\ y \in Works(n) /\ SameCalls(w, y) /\ y.finalized = w.finalized
        /\ \A m \in l + 1 .. n : y.span[m] = w.span[m]
    BY <1>0, PassedFacts
  <2> QED BY <1>0, <1>1, <1>3, <1>5, <2>1, <2>2 DEF Untouched, SameCalls
<1>a. CASE Panic(t) /\ ~Return(t)
  <2>1. PICK y \in Panics(w, l, Stage(t)) : w' = y
    BY <1>3, <1>a DEF Panic
  <2>2. /\ y \in Works(n) /\ SameCalls(w, y) /\ y.finalized = w.finalized
        /\ \A m \in l + 1 .. n : y.span[m] = w.span[m]
    BY <1>0, PanicsFacts
  <2> QED BY <1>0, <1>1, <1>3, <1>a, <2>1, <2>2 DEF Untouched, SameCalls
<1>6. CASE Fail(t) /\ ~Return(t)
  <2>1. PICK y \in Failures(w, l, Stage(t)) : w' = y
    BY <1>3, <1>6 DEF Fail
  <2>2. y \in Works(n) /\ SameCalls(w, y) /\ y.span = w.span /\ y.finalized = w.finalized
    BY <1>0, <1>2, FailuresFacts
  <2> QED BY <1>0, <1>1, <1>3, <1>6, <2>1, <2>2 DEF Untouched, SameCalls
<1>7. CASE RunDeferred(t) /\ ~Return(t)
  <2>1. PICK d \in DeferredCalls : w' = Deferred(w, l, d, th[t].res)
    BY <1>3, <1>7, RunDeferredEffect
  <2>2. PICK y : y = Deferred(w, l, d, th[t].res)
    OBVIOUS
  <2>3. th[t].res \in Results
    BY <1>1, TopFacts DEF Threads
  <2>4. /\ y \in Works(n) /\ y.out = w.out
        /\ d = "report" => y = Tell(w, l, th[t].res)
        /\ d # "report" => y.told = w.told
        /\ \A m \in l + 1 .. n : y.span[m] = w.span[m]
        /\ \A m \in 1 .. n : m # l => y.finalized[m] = w.finalized[m]
    BY <1>0, <2>2, <2>3, DeferredFacts
  <2>5. \A m \in 1 .. n : m # l => y.told[m] = w.told[m]
    BY <1>0, <2>3, <2>4, TellFacts
  <2> QED BY <1>0, <1>1, <1>3, <1>7, <2>1, <2>2, <2>4, <2>5 DEF Untouched
<1>8. CASE Return(t)
  <2>1. PICK x : x = Returned(w, l, th[t].res)
    OBVIOUS
  <2>2. th[t].res \in Results
    BY <1>1, TopFacts DEF Threads
  <2>3. /\ x \in Works(n) /\ x.span = w.span /\ x.finalized = w.finalized
        /\ x.out[l] = th[t].res /\ \A m \in 1 .. n : m # l => x.out[m] = w.out[m]
        /\ \A m \in 1 .. n : ~(m = l - 1 /\ Layers[m] = "gobreaker") => x.told[m] = w.told[m]
    BY <1>0, <2>1, <2>2, ReturnedFacts
  <2>4. w' = x \/ (w' \in Failures(x, l - 1, "call") /\ Drop(th[t], th'[t]))
    BY <1>3, <1>8, <2>1, ReturnEffect
  <2>5. CASE w' = x
    BY <1>0, <1>1, <1>3, <1>8, <2>3, <2>5 DEF Untouched, OutcomeOf
  <2>6. CASE w' \in Failures(x, l - 1, "call") /\ Drop(th[t], th'[t])
    <3>1. PICK k \in 1 .. n : k = l - 1
      <4>1. Len(th[t].stack) > 1
        BY <2>6 DEF Drop
      <4> QED BY <1>0, <1>1, <1>3, <4>1, LayerBelow
    <3>2. PICK y \in Failures(x, k, "call") : w' = y
      BY <2>6, <3>1
    <3>3. y \in Works(n) /\ SameCalls(x, y) /\ y.span = x.span /\ y.finalized = x.finalized
      BY <1>2, <2>3, FailuresFacts
    <3> QED BY <1>0, <1>1, <1>3, <1>8, <2>3, <3>2, <3>3 DEF Untouched, OutcomeOf, SameCalls
  <2> QED BY <2>4, <2>5, <2>6
<1>9. w' = w \/ Pass(t) \/ Fail(t) \/ Panic(t) \/ RunDeferred(t) \/ Return(t)
  BY DEF Step, Defer, Call
<1> QED BY <1>4, <1>5, <1>6, <1>7, <1>8, <1>9, <1>a

(* The two goroutines are in different layers.                               *)
LEMMA StacksApart ==
  ASSUME Types, Shape, NEW t \in Goroutines, NEW u \in Goroutines, t # u, Alive(t),
         NEW p \in 1 .. Len(th[u].stack)
  PROVE  /\ th[u].stack[p].l # Top(t).l
         /\ t = "serve" => Top(t).l < th[u].stack[p].l
         /\ t = "run" => Top(t).l > th[u].stack[p].l
<1>1. /\ Len(th[t].stack) \in Nat /\ Len(th[t].stack) > 0
      /\ Top(t) = th[t].stack[Len(th[t].stack)]
      /\ FrameOK(t, Len(th[t].stack)) /\ FrameOK(t, 1)
  BY TopFacts
<1>2. /\ Len(th[u].stack) \in Nat
      /\ th[u].stack[1] \in Frames /\ th[t].stack[1] \in Frames
  <2>1. th[u].stack \in Seq(Frames) /\ th[t].stack \in Seq(Frames)
    BY DEF Types, Threads
  <2>2. Len(th[u].stack) \in Nat
    BY <2>1, LenProperties
  <2>3. 1 \in 1 .. Len(th[u].stack) /\ 1 \in 1 .. Len(th[t].stack)
    BY <1>1, <2>2
  <2> QED BY <2>1, <2>2, <2>3, ElementOfSeq
<1>3. StackOK(u) /\ th[u].st # "off" /\ th[t].st # "off"
  BY <1>1, <1>2 DEF Shape, StackOK, Alive
<1>4. FrameOK(u, p)
  BY <1>3 DEF StackOK
<1>5. Top(t).l = th[t].stack[1].l + Len(th[t].stack) - 1
  BY <1>1 DEF FrameOK
<1>6. th[u].stack[p].l = th[u].stack[1].l + p - 1
  BY <1>4 DEF FrameOK
<1>7. PICK a \in Nat, b \in Nat, n \in Nat :
        /\ a = th[t].stack[1].l /\ b = th[u].stack[1].l /\ n = Len(th[t].stack)
        /\ Top(t).l = a + n - 1 /\ th[u].stack[p].l = b + p - 1 /\ n > 0
  BY <1>1, <1>2, <1>5, <1>6 DEF Frames
<1>8. PICK m \in Nat : m = Len(th[u].stack) /\ p \in 1 .. m
  BY <1>2
<1>9. th["serve"].stack[1].l = 1 /\ Len(th["serve"].stack) < th["run"].stack[1].l
  BY <1>3 DEF Shape, Base, Goroutines
<1>10. CASE t = "serve" /\ u = "run"
  <2>1. a = 1 /\ n < b
    BY <1>7, <1>9, <1>10
  <2>2. a + n - 1 < b + p - 1
    BY <1>8, <2>1
  <2>3. Top(t).l < th[u].stack[p].l /\ Top(t).l # th[u].stack[p].l
    BY <1>7, <1>8, <2>2
  <2> QED BY <1>10, <2>3
<1>11. CASE t = "run" /\ u = "serve"
  <2>1. b = 1 /\ m < a
    BY <1>7, <1>8, <1>9, <1>11
  <2>2. b + p - 1 < a + n - 1
    BY <1>7, <1>8, <2>1
  <2>3. Top(t).l > th[u].stack[p].l /\ Top(t).l # th[u].stack[p].l
    BY <1>7, <1>8, <2>2
  <2> QED BY <1>11, <2>3
<1> QED BY <1>10, <1>11 DEF Goroutines


(* The layers do not change while the configuration does not.                *)
LEMMA LayersKept ==
  ASSUME config' = config
  PROVE  Layers' = Layers /\ Server' = Server
BY DEF Layers, Server

(* What to show of a frame after a step.                                     *)
LEMMA FrameHolds ==
  ASSUME config' = config, NEW t, NEW p, NEW f, f = th'[t].stack[p],
         f.l = th'[t].stack[1].l + p - 1, f.l \in 1 .. Len(Layers),
         f.pc \in 1 .. Len(Stages[Layers[f.l]]),
         p < Len(th'[t].stack) => f.pc = CallAt[Layers[f.l]] /\ Layers[f.l] # "hystrix",
         th'[t].st = "done" => p = 1 /\ f.defers = <<>>,
         w'.out[f.l] = "none"
  PROVE  FrameOK(t, p)'
<1>1. Layers' = Layers
  BY LayersKept
<1> QED BY <1>1, Zenon DEF FrameOK, Alive

(* A frame that a step leaves alone is as it was.                            *)
LEMMA FrameStays ==
  ASSUME config' = config, NEW t, NEW p, FrameOK(t, p),
         th'[t].stack[p].l = th[t].stack[p].l, th'[t].stack[p].pc = th[t].stack[p].pc,
         th'[t].stack[1].l = th[t].stack[1].l, th'[t].st # "done",
         p < Len(th'[t].stack) => p < Len(th[t].stack),
         w'.out[th[t].stack[p].l] = "none"
  PROVE  FrameOK(t, p)'
<1>1. Layers' = Layers
  BY LayersKept
<1> QED BY <1>1, Zenon DEF FrameOK, Alive

(* The outcome of a layer that is at work is open.                           *)
LEMMA FrameOpen ==
  ASSUME NEW t, NEW p, FrameOK(t, p), Alive(t)
  PROVE  /\ w.out[th[t].stack[p].l] = "none" /\ th[t].stack[p].l \in 1 .. Len(Layers)
         /\ th[t].stack[p].l = th[t].stack[1].l + p - 1
         /\ th[t].stack[p].pc \in 1 .. Len(Stages[Layers[th[t].stack[p].l]])
BY DEF FrameOK

(* The stack of the other goroutine is as it was.                            *)
LEMMA OtherStack ==
  ASSUME Types, Shape, NEW t \in Goroutines, Step(t), Turn(t), NEW u \in Goroutines, u # t
  PROVE  StackOK(u)'
<1>1. config' = config
  BY DEF Step
<1>2. Layers' = Layers
  BY <1>1, LayersKept
<1>3. th'[u] = th[u]
  BY DEF Turn
<1>4. StackOK(u)
  BY DEF Shape
<1>5. ASSUME NEW p \in 1 .. Len(th[u].stack)
      PROVE  FrameOK(u, p)'
  <2>1. FrameOK(u, p)
    BY <1>4 DEF StackOK
  <2>2. Alive(t) /\ (Return(t) => OutcomeOf(t)) /\ (~Return(t) => w'.out = w.out)
    BY StepWork
  <2>3. th[u].stack[p].l # Top(t).l
    BY <2>2, StacksApart
  <2>4. th[u].stack[p].l \in 1 .. Len(Layers)
    BY <2>1 DEF FrameOK
  <2>5. w'.out[th[u].stack[p].l] = w.out[th[u].stack[p].l]
    BY <2>2, <2>3, <2>4 DEF OutcomeOf
  <2> QED BY <1>2, <1>3, <2>1, <2>5 DEF FrameOK, Alive
<1> QED BY <1>3, <1>4, <1>5 DEF StackOK

(* The stack of the goroutine that takes the step, for each effect.          *)
LEMMA AdvanceStack ==
  ASSUME Types, Shape, NEW t \in Goroutines, config' = config, w'.out = w.out,
         th'[t] \in Threads, Advance(th[t], th'[t])
  PROVE  StackOK(t)'
<1>1. Layers' = Layers
  BY LayersKept
<1>2. th[t].st = "run" /\ Alive(t)
  BY DEF Advance, Alive
<1>3. PICK n \in Nat :
        /\ n = Len(th[t].stack) /\ n > 0 /\ Top(t) = th[t].stack[n]
        /\ \A p \in 1 .. n : th[t].stack[p] \in Frames /\ FrameOK(t, p)
        /\ Top(t).pc \in 1 .. Len(Stages[Layers[Top(t).l]])
        /\ Layers[Top(t).l] \in Kinds
  BY <1>2, TopFacts
<1>4. /\ Len(th'[t].stack) = n /\ th'[t].st \in {"run", "unwind"}
      /\ \A p \in 1 .. n - 1 : th'[t].stack[p] = th[t].stack[p]
      /\ th'[t].stack[n].l = th[t].stack[n].l
      /\ th'[t].stack[n].pc = th[t].stack[n].pc \/ th'[t].stack[n].pc = th[t].stack[n].pc + 1
      /\ th'[t].stack[n].pc = th[t].stack[n].pc + 1 =>
           th[t].stack[n].pc # Len(Stages[Layers[th[t].stack[n].l]])
  <2>1. PICK i \in Nat : i = th[t].stack[n].pc
    <3>1. n > 0
      BY <1>3, Zenon
    <3>2. n \in 1 .. n
      BY <3>1
    <3> QED BY <1>3, <3>2 DEF Frames
  <2>2. i # i + 1
    OBVIOUS
  <2>3. n = Len(th[t].stack)
    BY <1>3, Zenon
  <2> QED BY <2>1, <2>2, <2>3, Zenon DEF Advance
<1>5. Len(Stages[Layers[Top(t).l]]) \in Nat
  BY <1>3, CallStages
<1>6. th'[t].stack[1].l = th[t].stack[1].l
  <2>1. n > 0
    BY <1>3, Zenon
  <2>2. n = 1 \/ 1 \in 1 .. n - 1
    BY <2>1
  <2> QED BY <1>4, <2>2, Zenon
<1>7. ASSUME NEW p \in 1 .. n - 1
      PROVE  FrameOK(t, p)'
  <2>1. p \in 1 .. n /\ p < n
    BY <1>3
  <2>2. FrameOK(t, p) /\ th'[t].stack[p] = th[t].stack[p]
    BY <1>3, <1>4, <2>1, Zenon
  <2>3. w'.out[th[t].stack[p].l] = "none"
    BY <1>2, <2>2, FrameOpen
  <2>4. p < Len(th[t].stack) /\ th'[t].st # "done"
    BY <1>3, <1>4, <2>1, Zenon
  <2> QED BY <1>6, <2>2, <2>3, <2>4, FrameStays, Zenon
<1>8. FrameOK(t, n)'
  <2>1. PICK k \in Nat : k = Len(Stages[Layers[th[t].stack[n].l]])
    BY <1>3, <1>5, Zenon
  <2>2. PICK i \in 1 .. k : i = th[t].stack[n].pc
    BY <1>3, <2>1, Zenon
  <2>3. PICK j : j = th'[t].stack[n].pc
    OBVIOUS
  <2>4. (j = i \/ j = i + 1) /\ (j = i + 1 => i # k)
    BY <1>4, <2>1, <2>2, <2>3, Zenon
  <2>5. j \in 1 .. k
    BY <2>4
  <2>6. FrameOK(t, n) /\ n = Len(th'[t].stack) /\ ~(n < n)
    <3>1. n \in 1 .. n /\ ~(n < n)
      BY <1>3
    <3> QED BY <1>3, <1>4, <3>1, Zenon
  <2>7. /\ th[t].stack[n].l = th[t].stack[1].l + n - 1
        /\ th[t].stack[n].l \in 1 .. Len(Layers)
        /\ w.out[th[t].stack[n].l] = "none"
    BY <1>2, <2>6, FrameOpen
  <2>8. PICK f : f = th'[t].stack[n]
    OBVIOUS
  <2>9. /\ f.l = th'[t].stack[1].l + n - 1 /\ f.l \in 1 .. Len(Layers)
        /\ f.pc \in 1 .. Len(Stages[Layers[f.l]]) /\ w'.out[f.l] = "none"
    BY <1>4, <1>6, <2>1, <2>3, <2>5, <2>7, <2>8, Zenon
  <2>10. ~(n < Len(th'[t].stack)) /\ th'[t].st # "done"
    BY <1>4, <2>6, Zenon
  <2> QED BY <2>8, <2>9, <2>10, FrameHolds, Zenon
<1>9. \A p \in 1 .. n : FrameOK(t, p)'
  BY <1>3, <1>7, <1>8
<1> QED BY <1>3, <1>4, <1>9 DEF StackOK

(* Giving up keeps the shape of the stack.                                   *)
LEMMA GiveUpStack ==
  ASSUME Types, Shape, NEW t \in Goroutines, config' = config, w'.out = w.out,
         NEW r, GiveUp(th[t], th'[t], r)
  PROVE  StackOK(t)'
<1>1. Layers' = Layers
  BY LayersKept
<1>2. Alive(t) /\ th'[t].st = "unwind" /\ th'[t].stack = th[t].stack
  BY DEF GiveUp, Alive
<1>3. StackOK(t) /\ Len(th[t].stack) # 0
  BY <1>2, TopFacts DEF Shape
<1>4. \A p \in 1 .. Len(th[t].stack) : FrameOK(t, p)'
  BY <1>1, <1>2, <1>3 DEF StackOK, FrameOK, Alive
<1> QED BY <1>2, <1>3, <1>4 DEF StackOK

(* A call keeps the shape of the stack.                                      *)
LEMMA PushStack ==
  ASSUME Types, Shape, Ahead, NEW t \in Goroutines, config' = config, w' = w,
         Stage(t) = "call", Push(th[t], th'[t])
  PROVE  StackOK(t)' /\ Before(t) /\ Top(t).l < Len(Layers)
<1>1. Layers' = Layers
  BY LayersKept
<1>2. th[t].st = "run" /\ Alive(t)
  BY DEF Push, Alive
<1>3. PICK n \in Nat :
        /\ n = Len(th[t].stack) /\ n > 0 /\ Top(t) = th[t].stack[n]
        /\ \A p \in 1 .. n : th[t].stack[p] \in Frames /\ FrameOK(t, p)
        /\ Top(t).pc \in 1 .. Len(Stages[Layers[Top(t).l]])
        /\ Layers[Top(t).l] \in Kinds /\ Top(t).l \in 1 .. Len(Layers)
  BY <1>2, TopFacts
<1>4. /\ Top(t).pc = CallAt[Layers[Top(t).l]] /\ Layers[Top(t).l] # "hystrix"
      /\ Layers[Top(t).l] \notin ClientKinds
  <2>1. Stages[Layers[Top(t).l]][Top(t).pc] = "call"
    BY DEF Stage
  <2>2. PICK k \in Kinds, i \in Nat : k = Layers[Top(t).l] /\ i = Top(t).pc
    BY <1>3 DEF Frames
  <2>3. i \in 1 .. Len(Stages[k]) /\ Stages[k][i] = "call"
    BY <1>3, <2>1, <2>2
  <2>4. i = CallAt[k] /\ k # "hystrix" /\ k \notin ClientKinds
    <3>1. Stages[k][i] \in {"call", "spawn"}
      BY <2>3
    <3>2. i = CallAt[k] /\ k # "hystrix" /\ (CallAt[k] = 0 <=> k \in ClientKinds)
      BY <2>3, <3>1, CallStages
    <3> QED BY <2>3, <3>2
  <2> QED BY <2>2, <2>4
<1>a. Len(Layers) \in Nat /\ Layers[Len(Layers)] \in ClientKinds
  BY LayerKinds DEF Types
<1>5. Top(t).l < Len(Layers) /\ Len(Layers) \in Nat
  <2>1. PICK m \in Nat : m = Len(Layers)
    BY <1>a
  <2>2. PICK i \in 1 .. m : i = Top(t).l /\ i # m
    BY <1>3, <1>4, <1>a, <2>1, Zenon
  <2>3. i < m
    BY <2>2
  <2> QED BY <1>a, <2>1, <2>2, <2>3, Zenon
<1>6. Before(t)
  <2>1. PICK i \in Nat : i = Top(t).pc
    BY <1>3 DEF Frames
  <2>2. i <= i
    OBVIOUS
  <2> QED BY <1>2, <1>4, <2>1, <2>2, Zenon DEF Before
<1>7. PICK k \in 1 .. Len(Layers) : k = Top(t).l + 1
  BY <1>3, <1>5
<1>8. Fresh(k) /\ Layers[k] \in Kinds
  BY <1>3, <1>6, <1>7, LayerKinds DEF Ahead, Types
<1>9. /\ Len(th'[t].stack) = n + 1 /\ th'[t].st = "run"
      /\ \A p \in 1 .. n : th'[t].stack[p] = th[t].stack[p]
      /\ th'[t].stack[n + 1].l = k /\ th'[t].stack[n + 1].pc = 1
  BY <1>3, <1>7 DEF Push
<1>10. th'[t].stack[1].l = th[t].stack[1].l
  <2>1. 1 \in 1 .. n
    BY <1>3
  <2> QED BY <1>9, <2>1, Zenon
<1>11. ASSUME NEW p \in 1 .. n
       PROVE  FrameOK(t, p)'
  <2>1. FrameOK(t, p) /\ th'[t].stack[p] = th[t].stack[p]
    BY <1>3, <1>9, Zenon
  <2>3. th[t].stack[p].pc = CallAt[Layers[th[t].stack[p].l]] /\ Layers[th[t].stack[p].l] # "hystrix"
    <3>1. CASE p = n
      BY <1>3, <1>4, <3>1
    <3>2. CASE p < n
      <4>1. p < Len(th[t].stack)
        BY <1>3, <3>2, Zenon
      <4> QED BY <2>1, <4>1 DEF FrameOK
    <3>3. p = n \/ p < n
      OBVIOUS
    <3> QED BY <3>1, <3>2, <3>3, Zenon
  <2>4. /\ w.out[th[t].stack[p].l] = "none" /\ th[t].stack[p].l \in 1 .. Len(Layers)
        /\ th[t].stack[p].l = th[t].stack[1].l + p - 1
        /\ th[t].stack[p].pc \in 1 .. Len(Stages[Layers[th[t].stack[p].l]])
    BY <1>2, <2>1, FrameOpen
  <2>5. th'[t].st # "done"
    BY <1>9
  <2> QED BY <1>10, <2>1, <2>3, <2>4, <2>5, FrameHolds, Zenon
<1>12. FrameOK(t, n + 1)'
  <2>1. k = th[t].stack[1].l + (n + 1) - 1
    <3>0. FrameOK(t, n) /\ th[t].stack[1] \in Frames
      BY <1>3
    <3>1. Top(t).l = th[t].stack[1].l + n - 1 /\ th[t].stack[1].l \in Nat
      BY <1>3, <3>0 DEF FrameOK, Frames
    <3>2. PICK i \in Nat : i = th[t].stack[1].l
      BY <3>1
    <3>3. k = i + n - 1 + 1
      BY <1>7, <3>1, <3>2, Zenon
    <3>4. k = i + (n + 1) - 1
      BY <3>3
    <3> QED BY <3>2, <3>4, Zenon
  <2>2. 1 \in 1 .. Len(Stages[Layers[k]])
    BY <1>8, CallStages
  <2>3. w.out[k] = "none"
    BY <1>8 DEF Fresh
  <2>4. ~(n + 1 < n + 1)
    OBVIOUS
  <2>5. PICK f : f = th'[t].stack[n + 1]
    OBVIOUS
  <2>6. /\ f.l = th'[t].stack[1].l + (n + 1) - 1 /\ f.l \in 1 .. Len(Layers)
        /\ f.pc \in 1 .. Len(Stages[Layers[f.l]]) /\ w'.out[f.l] = "none"
    <3>1. f.l = k /\ f.pc = 1
      BY <1>9, <2>5, Zenon
    <3>2. w'.out[k] = "none" /\ k \in 1 .. Len(Layers)
      BY <2>3, Zenon
    <3> QED BY <1>10, <2>1, <2>2, <3>1, <3>2, Zenon
  <2>7. ~(n + 1 < Len(th'[t].stack)) /\ th'[t].st # "done"
    BY <1>9, <2>4, Zenon
  <2> QED BY <2>5, <2>6, <2>7, FrameHolds, Zenon
<1>13. \A p \in 1 .. n + 1 : FrameOK(t, p)'
  BY <1>3, <1>11, <1>12
<1>14. StackOK(t)'
  BY <1>3, <1>9, <1>13 DEF StackOK
<1> QED BY <1>5, <1>6, <1>14

(* Running a deferred call keeps the shape of the stack.                     *)
LEMMA PopDeferStack ==
  ASSUME Types, Shape, NEW t \in Goroutines, config' = config, w'.out = w.out,
         PopDefer(th[t], th'[t])
  PROVE  StackOK(t)'
<1>1. Layers' = Layers
  BY LayersKept
<1>2. th[t].st = "unwind" /\ Alive(t)
  BY DEF PopDefer, Alive
<1>3. PICK n \in Nat :
        /\ n = Len(th[t].stack) /\ n > 0
        /\ \A p \in 1 .. n : FrameOK(t, p)
  BY <1>2, TopFacts
<1>4. /\ Len(th'[t].stack) = n /\ th'[t].st = "unwind"
      /\ \A p \in 1 .. n - 1 : th'[t].stack[p] = th[t].stack[p]
      /\ th'[t].stack[n].l = th[t].stack[n].l /\ th'[t].stack[n].pc = th[t].stack[n].pc
  BY <1>3 DEF PopDefer
<1>5. \A p \in 1 .. n : th'[t].stack[p].l = th[t].stack[p].l /\ th'[t].stack[p].pc = th[t].stack[p].pc
  BY <1>3, <1>4
<1>6. ASSUME NEW p \in 1 .. n
      PROVE  FrameOK(t, p)'
  <2>1. 1 \in 1 .. n
    BY <1>3
  <2>2. /\ th'[t].stack[p].l = th[t].stack[p].l /\ th'[t].stack[p].pc = th[t].stack[p].pc
        /\ th'[t].stack[1].l = th[t].stack[1].l
    BY <1>5, <2>1
  <2> QED BY <1>1, <1>2, <1>3, <1>4, <2>2 DEF FrameOK, Alive
<1> QED BY <1>3, <1>4, <1>6 DEF StackOK

(* The end of a goroutine keeps the shape of the stack.                      *)
LEMMA EndStack ==
  ASSUME Types, Shape, NEW t \in Goroutines, config' = config, End(th[t], th'[t])
  PROVE  StackOK(t)'
<1>1. Layers' = Layers
  BY LayersKept
<1>2. Alive(t) /\ th'[t].st = "done" /\ th'[t].stack = th[t].stack /\ Len(th[t].stack) = 1
      /\ th[t].stack[1].defers = <<>>
  BY DEF End, Alive
<1>3. FrameOK(t, 1)
  BY <1>2, TopFacts
<1>4. FrameOK(t, 1)'
  BY <1>1, <1>2, <1>3 DEF FrameOK, Alive
<1> QED BY <1>2, <1>4 DEF StackOK

(* A caller is where it called, and its outcome is still open.               *)
LEMMA CallerFacts ==
  ASSUME Types, Shape, NEW t \in Goroutines, Alive(t), Len(th[t].stack) > 1, OutcomeOf(t)
  PROVE  \A p \in 1 .. Len(th[t].stack) - 1 :
           /\ th[t].stack[p].l < Top(t).l
           /\ w'.out[th[t].stack[p].l] = "none"
<1>1. PICK n \in Nat :
        /\ n = Len(th[t].stack) /\ Top(t) = th[t].stack[n] /\ n > 1
        /\ \A p \in 1 .. n : th[t].stack[p] \in Frames /\ FrameOK(t, p)
  BY TopFacts
<1>2. ASSUME NEW p \in 1 .. n - 1
      PROVE  th[t].stack[p].l < Top(t).l /\ w'.out[th[t].stack[p].l] = "none"
  <2>1. FrameOK(t, p) /\ FrameOK(t, n) /\ th[t].stack[1] \in Frames
    BY <1>1
  <2>2. PICK a \in Nat : a = th[t].stack[1].l
    BY <2>1 DEF Frames
  <2>3. /\ th[t].stack[p].l = a + p - 1 /\ th[t].stack[n].l = a + n - 1
        /\ th[t].stack[p].l \in 1 .. Len(Layers) /\ w.out[th[t].stack[p].l] = "none"
    BY <2>1, <2>2 DEF FrameOK
  <2>4. a + p - 1 < a + n - 1
    BY <1>1
  <2>5. th[t].stack[p].l < Top(t).l
    BY <1>1, <2>3, <2>4
  <2>6. th[t].stack[p].l # Top(t).l
    BY <1>1, <2>3, <2>4
  <2> QED BY <2>3, <2>5, <2>6 DEF OutcomeOf
<1> QED BY <1>1, <1>2

(* An error or a panic that goes up keeps the shape of the stack.            *)
LEMMA DropStack ==
  ASSUME Types, Shape, NEW t \in Goroutines, config' = config, OutcomeOf(t), Drop(th[t], th'[t])
  PROVE  StackOK(t)'
<1>1. Layers' = Layers
  BY LayersKept
<1>2. th[t].st = "unwind" /\ Alive(t) /\ Len(th[t].stack) > 1
  BY DEF Drop, Alive
<1>3. PICK n \in Nat :
        /\ n = Len(th[t].stack) /\ n > 1
        /\ \A p \in 1 .. n : FrameOK(t, p)
  BY <1>2, TopFacts
<1>4. /\ Len(th'[t].stack) = n - 1 /\ th'[t].st = "unwind"
      /\ \A p \in 1 .. n - 1 : th'[t].stack[p] = th[t].stack[p]
  BY <1>3 DEF Drop
<1>5. ASSUME NEW p \in 1 .. n - 1
      PROVE  FrameOK(t, p)'
  <2>1. FrameOK(t, p) /\ th'[t].stack[p] = th[t].stack[p] /\ th'[t].stack[1] = th[t].stack[1]
        /\ p < n
    BY <1>3, <1>4
  <2>2. w'.out[th[t].stack[p].l] = "none"
    BY <1>2, <1>3, CallerFacts
  <2> QED BY <1>1, <1>2, <1>3, <1>4, <2>1, <2>2 DEF FrameOK, Alive
<1> QED BY <1>3, <1>4, <1>5 DEF StackOK

(* A caller that goes on keeps the shape of the stack.                       *)
LEMMA ResumeStack ==
  ASSUME Types, Shape, NEW t \in Goroutines, config' = config, OutcomeOf(t), Resume(th[t], th'[t])
  PROVE  StackOK(t)' /\ ~Before(t)'
<1>1. Layers' = Layers
  BY LayersKept
<1>2. th[t].st = "unwind" /\ Alive(t) /\ Len(th[t].stack) > 1
  BY DEF Resume, Alive
<1>3. PICK n \in Nat :
        /\ n = Len(th[t].stack) /\ n > 1
        /\ \A p \in 1 .. n : th[t].stack[p] \in Frames /\ FrameOK(t, p)
  BY <1>2, TopFacts
<1>a. PICK q \in 1 .. n : q = n - 1
  <2>1. n - 1 \in 1 .. n
    BY <1>3
  <2> QED BY <2>1
<1>4. /\ Len(th'[t].stack) = q /\ th'[t].st \in {"run", "unwind"}
      /\ \A p \in 1 .. q - 1 : th'[t].stack[p] = th[t].stack[p]
      /\ th'[t].stack[q].l = th[t].stack[q].l
      /\ th[t].stack[q].pc = Len(Stages[Layers[th[t].stack[q].l]]) =>
           th'[t].st = "unwind" /\ th'[t].stack[q].pc = th[t].stack[q].pc
      /\ th[t].stack[q].pc # Len(Stages[Layers[th[t].stack[q].l]]) =>
           th'[t].stack[q].pc = th[t].stack[q].pc + 1
  <2>1. n = Len(th[t].stack)
    BY <1>3, Zenon
  <2>2. q - 1 = n - 2
    BY <1>a
  <2> QED BY <1>a, <2>1, <2>2, Zenon DEF Resume
<1>5. FrameOK(t, q) /\ q < n /\ q \in Nat
  BY <1>3, <1>a
<1>6. /\ th[t].stack[q].pc = CallAt[Layers[th[t].stack[q].l]]
      /\ th[t].stack[q].pc \in 1 .. Len(Stages[Layers[th[t].stack[q].l]])
      /\ th[t].stack[q].l \in 1 .. Len(Layers)
  BY <1>3, <1>5 DEF FrameOK
<1>7. Len(Stages[Layers[th[t].stack[q].l]]) \in Nat
  BY <1>6, LayerKinds, CallStages DEF Types
<1>8. th'[t].stack[1].l = th[t].stack[1].l
  <2>1. q = 1 \/ 1 \in 1 .. q - 1
    BY <1>5
  <2> QED BY <1>4, <2>1
<1>9. ASSUME NEW p \in 1 .. q - 1
      PROVE  FrameOK(t, p)'
  <2>0. p < n /\ p \in 1 .. n - 1 /\ p \in 1 .. n
    BY <1>a
  <2>1. FrameOK(t, p) /\ th'[t].stack[p] = th[t].stack[p]
    BY <1>3, <1>4, <2>0, Zenon
  <2>2. w'.out[th[t].stack[p].l] = "none"
    BY <1>2, <1>3, <2>0, CallerFacts
  <2>3. p < Len(th[t].stack) /\ th'[t].st # "done"
    BY <1>3, <1>4, <2>0, Zenon
  <2> QED BY <1>8, <2>1, <2>2, <2>3, FrameStays, Zenon
<1>10. FrameOK(t, q)'
  <2>1. th'[t].stack[q].pc \in 1 .. Len(Stages[Layers[th'[t].stack[q].l]])
    <3>1. PICK k \in Nat : k = Len(Stages[Layers[th[t].stack[q].l]])
      BY <1>7, Zenon
    <3>2. PICK i \in 1 .. k : i = th[t].stack[q].pc
      BY <1>6, <3>1, Zenon
    <3>3. PICK j : j = th'[t].stack[q].pc
      OBVIOUS
    <3>4. j = i \/ (i # k /\ j = i + 1)
      BY <1>4, <3>1, <3>2, <3>3, Zenon
    <3>5. j \in 1 .. k
      BY <3>4
    <3> QED BY <1>4, <3>1, <3>3, <3>5, Zenon
  <2>2. w'.out[th[t].stack[q].l] = "none"
    BY <1>2, <1>3, <1>a, CallerFacts
  <2>3. PICK f : f = th'[t].stack[q]
    OBVIOUS
  <2>4. /\ th[t].stack[q].l = th[t].stack[1].l + q - 1
        /\ th[t].stack[q].l \in 1 .. Len(Layers)
    BY <1>2, <1>5, FrameOpen, Zenon
  <2>5. /\ f.l = th'[t].stack[1].l + q - 1 /\ f.l \in 1 .. Len(Layers)
        /\ f.pc \in 1 .. Len(Stages[Layers[f.l]]) /\ w'.out[f.l] = "none"
    BY <1>4, <1>8, <2>1, <2>2, <2>3, <2>4, Zenon
  <2>6. ~(q < q)
    OBVIOUS
  <2>7. ~(q < Len(th'[t].stack)) /\ th'[t].st # "done"
    BY <1>4, <2>6, Zenon
  <2> QED BY <2>3, <2>5, <2>7, FrameHolds, Zenon
<1>11. \A p \in 1 .. q : FrameOK(t, p)'
  BY <1>5, <1>9, <1>10
<1>12. StackOK(t)'
  BY <1>3, <1>a, <1>4, <1>11 DEF StackOK
<1>13. ~Before(t)'
  <2>1. Top(t)' = th'[t].stack[q]
    BY <1>4 DEF Top
  <2>2. PICK i \in Nat : i = th[t].stack[q].pc /\ i = CallAt[Layers[th[t].stack[q].l]]
    <3>1. th[t].stack[q].pc \in Nat
      BY <1>3 DEF Frames
    <3> QED BY <1>6, <3>1, Zenon
  <2>3. th'[t].st # "run" \/ th'[t].stack[q].pc = i + 1
    BY <1>4, <2>2, Zenon
  <2>4. ~(i + 1 <= i)
    OBVIOUS
  <2>5. CallAt[Layers[Top(t).l]]' = i
    BY <1>1, <1>4, <2>1, <2>2 DEF CallAt
  <2> QED BY <2>1, <2>3, <2>4, <2>5 DEF Before
<1> QED BY <1>12, <1>13


(* What a step does to its goroutine and to the outcomes.                    *)
LEMMA StepEffects ==
  ASSUME Types, Shape, NEW t \in Goroutines, Step(t)
  PROVE  /\ Turn(t) /\ config' = config
         /\ \/ Advance(th[t], th'[t]) /\ w'.out = w.out
            \/ (\E r \in Results : GiveUp(th[t], th'[t], r)) /\ w'.out = w.out
            \/ Push(th[t], th'[t]) /\ w' = w /\ Stage(t) = "call"
            \/ PopDefer(th[t], th'[t]) /\ w'.out = w.out
            \/ OutcomeOf(t) /\ (End(th[t], th'[t]) \/ Drop(th[t], th'[t]) \/ Resume(th[t], th'[t]))
<1>1. config' = config /\ (~Return(t) => w'.out = w.out) /\ (Return(t) => OutcomeOf(t))
  BY StepWork DEF Step
<1>2. CASE Defer(t)
  BY <1>2, DeferEffect, <1>1
<1>3. CASE Pass(t)
  <2>1. ~Return(t)
    BY <1>3 DEF Pass, Return, Running
  <2> QED BY <1>1, <1>3, <2>1, PassEffect
<1>4. CASE Fail(t)
  <2>1. ~Return(t)
    BY <1>4 DEF Fail, Return, Running
  <2> QED BY <1>1, <1>4, <2>1, FailEffect DEF Results
<1>5. CASE Panic(t)
  <2>1. ~Return(t)
    BY <1>5 DEF Panic, Return, Running
  <2> QED BY <1>1, <1>5, <2>1, PanicEffect DEF Results
<1>6. CASE Call(t)
  BY <1>1, <1>6, CallEffect
<1>7. CASE RunDeferred(t)
  <2>1. ~Return(t)
    BY <1>7 DEF RunDeferred, Return
  <2> QED BY <1>1, <1>7, <2>1, RunDeferredEffect
<1>8. CASE Return(t)
  BY <1>1, <1>8, ReturnEffect
<1> QED BY <1>2, <1>3, <1>4, <1>5, <1>6, <1>7, <1>8 DEF Step

(* The goroutine that takes a step goes on: its first layer stays, and only  *)
(* a call makes its stack longer.                                            *)
LEMMA StepStack ==
  ASSUME Types, Shape, Ahead, NEW t \in Goroutines, Step(t)
  PROVE  /\ StackOK(t)'
         /\ th[t].st # "off" /\ th'[t].st # "off" /\ th'[t].stack[1].l = th[t].stack[1].l
         /\ \/ Len(th'[t].stack) <= Len(th[t].stack)
            \/ Before(t) /\ Len(th'[t].stack) = Len(th[t].stack) + 1
<1>1. Turn(t) /\ config' = config
  BY StepEffects
<1>2. th'[t] \in Threads
  BY <1>1 DEF Turn
<1>3. Alive(t) /\ th[t].st # "off"
  BY StepWork DEF Alive
<1>4. PICK n \in Nat : n = Len(th[t].stack) /\ n > 0
  BY <1>3, TopFacts
<1>5. CASE Advance(th[t], th'[t]) /\ w'.out = w.out
  <2>1. StackOK(t)'
    BY <1>1, <1>2, <1>5, AdvanceStack
  <2>2. /\ Len(th'[t].stack) = n /\ th'[t].st \in {"run", "unwind"}
        /\ \A p \in 1 .. n - 1 : th'[t].stack[p] = th[t].stack[p]
        /\ th'[t].stack[n].l = th[t].stack[n].l
    BY <1>4, <1>5 DEF Advance
  <2>3. th'[t].stack[1].l = th[t].stack[1].l
    BY <1>4, <2>2
  <2> QED BY <1>3, <1>4, <2>1, <2>2, <2>3
<1>6. CASE (\E r \in Results : GiveUp(th[t], th'[t], r)) /\ w'.out = w.out
  <2>1. PICK r \in Results : GiveUp(th[t], th'[t], r)
    BY <1>6
  <2>2. StackOK(t)'
    BY <1>1, <1>6, <2>1, GiveUpStack
  <2>3. th'[t].st = "unwind" /\ th'[t].stack = th[t].stack
    BY <2>1 DEF GiveUp
  <2> QED BY <1>3, <1>4, <2>2, <2>3
<1>7. CASE Push(th[t], th'[t]) /\ w' = w /\ Stage(t) = "call"
  <2>1. StackOK(t)' /\ Before(t)
    BY <1>1, <1>7, PushStack
  <2>2. /\ Len(th'[t].stack) = n + 1 /\ th'[t].st = "run"
        /\ \A p \in 1 .. n : th'[t].stack[p] = th[t].stack[p]
    BY <1>4, <1>7 DEF Push
  <2>3. th'[t].stack[1] = th[t].stack[1]
    BY <1>4, <2>2
  <2> QED BY <1>3, <1>4, <2>1, <2>2, <2>3
<1>8. CASE PopDefer(th[t], th'[t]) /\ w'.out = w.out
  <2>1. StackOK(t)'
    BY <1>1, <1>8, PopDeferStack
  <2>2. /\ Len(th'[t].stack) = n /\ th'[t].st = "unwind"
        /\ \A p \in 1 .. n - 1 : th'[t].stack[p] = th[t].stack[p]
        /\ th'[t].stack[n].l = th[t].stack[n].l
    BY <1>4, <1>8 DEF PopDefer
  <2>3. th'[t].stack[1].l = th[t].stack[1].l
    BY <1>4, <2>2
  <2> QED BY <1>3, <1>4, <2>1, <2>2, <2>3
<1>9. CASE OutcomeOf(t) /\ End(th[t], th'[t])
  <2>1. StackOK(t)'
    BY <1>1, <1>9, EndStack
  <2>2. th'[t].st = "done" /\ th'[t].stack = th[t].stack
    BY <1>9 DEF End
  <2> QED BY <1>3, <1>4, <2>1, <2>2
<1>10. CASE OutcomeOf(t) /\ Drop(th[t], th'[t])
  <2>1. StackOK(t)'
    BY <1>1, <1>10, DropStack
  <2>2. /\ Len(th'[t].stack) = n - 1 /\ n > 1 /\ th'[t].st = "unwind"
        /\ \A p \in 1 .. n - 1 : th'[t].stack[p] = th[t].stack[p]
    BY <1>4, <1>10 DEF Drop
  <2>3. th'[t].stack[1] = th[t].stack[1] /\ n - 1 <= n
    BY <1>4, <2>2
  <2> QED BY <1>3, <1>4, <2>1, <2>2, <2>3
<1>11. CASE OutcomeOf(t) /\ Resume(th[t], th'[t])
  <2>1. StackOK(t)'
    BY <1>1, <1>11, ResumeStack
  <2>2. /\ Len(th'[t].stack) = n - 1 /\ n > 1 /\ th'[t].st \in {"unwind", "run"}
        /\ \A p \in 1 .. n - 2 : th'[t].stack[p] = th[t].stack[p]
        /\ th'[t].stack[n - 1].l = th[t].stack[n - 1].l
    BY <1>4, <1>11 DEF Resume
  <2>3. th'[t].stack[1].l = th[t].stack[1].l /\ n - 1 <= n
    BY <1>4, <2>2
  <2> QED BY <1>3, <1>4, <2>1, <2>2, <2>3
<1> QED BY <1>5, <1>6, <1>7, <1>8, <1>9, <1>10, <1>11, StepEffects

(* Every step of a goroutine keeps the shape of both stacks.                 *)
LEMMA StepShape ==
  ASSUME Types, Shape, Ahead, NEW t \in Goroutines, Step(t)
  PROVE  Types' /\ Shape'
<1>1. Turn(t) /\ config' = config
  BY StepEffects
<1>2. Layers' = Layers
  BY <1>1, LayersKept
<1>3. w' \in Works(Len(Layers)) /\ Alive(t)
  BY StepWork
<1>4. Types'
  <2>1. Works(Len(Layers))' = Works(Len(Layers))
    BY <1>2 DEF Works
  <2> QED BY <1>1, <1>3, <2>1 DEF Types, Turn, Configs, Goroutines, Threads
<1>5. \A u \in Goroutines : StackOK(u)'
  BY <1>1, OtherStack, StepStack
<1>6. /\ th[t].st # "off" /\ th'[t].st # "off" /\ th'[t].stack[1].l = th[t].stack[1].l
      /\ \/ Len(th'[t].stack) <= Len(th[t].stack)
         \/ Before(t) /\ Len(th'[t].stack) = Len(th[t].stack) + 1
  BY StepStack
<1>7. \A u \in Goroutines : u # t => th'[u] = th[u]
  BY <1>1 DEF Turn
<1>8. CASE t = "serve"
  <2>1. th'["run"] = th["run"]
    BY <1>7, <1>8 DEF Goroutines
  <2>2. th["run"].st # "off" => ~Before(t)
    BY <1>8 DEF Ahead
  <2>3. th["run"].st # "off" => Len(th'["serve"].stack) < Base
    <3> SUFFICES ASSUME th["run"].st # "off" PROVE Len(th'["serve"].stack) < Base
      OBVIOUS
    <3>1. PICK n \in Nat, b \in Nat : n = Len(th["serve"].stack) /\ b = Base /\ n < b
      <4>1. th["serve"].stack \in Seq(Frames) /\ th["run"].stack \in Seq(Frames)
        BY DEF Types, Threads, Goroutines
      <4>2. Len(th["serve"].stack) \in Nat /\ Len(th["run"].stack) \in Nat
        BY <4>1, LenProperties
      <4>3. Len(th["run"].stack) # 0
        BY DEF Shape, StackOK, Goroutines
      <4>4. 1 \in 1 .. Len(th["run"].stack)
        BY <4>2, <4>3
      <4>5. th["run"].stack[1] \in Frames
        BY <4>1, <4>4, ElementOfSeq
      <4>6. Base \in Nat
        BY <4>5 DEF Base, Frames
      <4>7. Len(th["serve"].stack) < Base
        BY DEF Shape
      <4> QED BY <4>2, <4>6, <4>7
    <3>2. PICK m \in Nat : m = Len(th'["serve"].stack)
      <4>1. th'["serve"].stack \in Seq(Frames)
        BY <1>1 DEF Turn, Threads, Goroutines
      <4> QED BY <4>1, LenProperties
    <3>3. m <= n
      BY <1>6, <1>8, <2>2, <3>1, <3>2
    <3> QED BY <3>1, <3>2, <3>3
  <2>4. Base' = Base
    BY <2>1 DEF Base
  <2>5. th'["serve"].st # "off" /\ th'["serve"].stack[1].l = 1
    BY <1>6, <1>8 DEF Shape
  <2> QED BY <1>2, <1>4, <1>5, <2>1, <2>3, <2>4, <2>5 DEF Shape
<1>9. CASE t = "run"
  <2>1. th'["serve"] = th["serve"]
    BY <1>7, <1>9 DEF Goroutines
  <2>2. Base' = Base
    BY <1>6, <1>9 DEF Base
  <2> QED BY <1>2, <1>4, <1>5, <1>6, <1>9, <2>1, <2>2 DEF Shape
<1> QED BY <1>8, <1>9 DEF Goroutines

(* Every step of a goroutine leaves the layers ahead untouched.              *)
LEMMA StepAhead ==
  ASSUME Types, Shape, Ahead, NEW t \in Goroutines, Step(t)
  PROVE  Ahead'
<1>1. Turn(t) /\ config' = config
  BY StepEffects
<1>2. Layers' = Layers
  BY <1>1, LayersKept
<1>3. /\ Alive(t) /\ Untouched(Top(t).l)
      /\ \A m \in 1 .. Len(Layers) : m > Top(t).l => w'.out[m] = w.out[m]
  BY StepWork, TopFacts DEF OutcomeOf
<1>4. \A m \in 1 .. Len(Layers) : m > Top(t).l /\ Fresh(m) => Fresh(m)'
  BY <1>3 DEF Untouched, Fresh
<1>5. PICK n \in Nat :
        /\ n = Len(th[t].stack) /\ n > 0 /\ Top(t) = th[t].stack[n] /\ Top(t) \in Frames
        /\ Layers[Top(t).l] \in Kinds
  BY <1>3, TopFacts
<1>6. ASSUME NEW u \in Goroutines, u # t, Before(u)'
      PROVE  /\ u = "serve" => th'["run"].st = "off"
             /\ \A m \in 1 .. Len(Layers) : m > Top(u)'.l => Fresh(m)'
  <2>1. th'[u] = th[u]
    BY <1>1, <1>6 DEF Turn
  <2>2. Top(u)' = Top(u) /\ Before(u)
    BY <1>2, <1>6, <2>1 DEF Before, Top
  <2>3. u # "serve"
    <3> SUFFICES ASSUME u = "serve" PROVE FALSE
      OBVIOUS
    <3>1. t = "run"
      BY <1>6 DEF Goroutines
    <3> QED BY <1>3, <2>2, <3>1 DEF Ahead, Alive
  <2>4. t = "serve"
    BY <1>6, <2>3 DEF Goroutines
  <2>5. Top(t).l < Top(u).l
    <3>1. Alive(u)
      BY <2>2 DEF Before, Alive
    <3>2. PICK k \in Nat : k = Len(th[u].stack) /\ k > 0 /\ Top(u) = th[u].stack[k]
      BY <3>1, TopFacts
    <3>3. k \in 1 .. Len(th[u].stack)
      BY <3>2
    <3> QED BY <1>3, <1>6, <2>4, <3>2, <3>3, StacksApart
  <2>6. ASSUME NEW m \in 1 .. Len(Layers), m > Top(u).l
        PROVE  Fresh(m)'
    <3>1. Fresh(m)
      BY <2>2, <2>6 DEF Ahead
    <3>2. PICK a \in Nat, b \in Nat : a = Top(t).l /\ b = Top(u).l
      <4>1. Top(u) \in Frames
        BY <2>2, TopFacts DEF Before, Alive
      <4> QED BY <1>5, <4>1 DEF Frames
    <3>3. m > Top(t).l
      BY <2>5, <2>6, <3>2
    <3> QED BY <1>4, <3>1, <3>3
  <2> QED BY <2>2, <2>3, <2>6
<1>7. ASSUME Before(t)'
      PROVE  /\ t = "serve" => th'["run"].st = "off"
             /\ \A m \in 1 .. Len(Layers) : m > Top(t)'.l => Fresh(m)'
  <2>1. th'[t].st = "run"
    BY <1>7 DEF Before
  <2>2. ASSUME Before(t)
        PROVE  t = "serve" => th'["run"].st = "off"
    <3> SUFFICES ASSUME t = "serve" PROVE th'["run"].st = "off"
      OBVIOUS
    <3>1. th["run"].st = "off" /\ th'["run"] = th["run"]
      BY <1>1, <2>2 DEF Ahead, Turn, Goroutines
    <3> QED BY <3>1
  <2>3. CASE Advance(th[t], th'[t])
    <3>1. /\ Len(th'[t].stack) = n /\ th[t].st = "run"
          /\ th'[t].stack[n].l = th[t].stack[n].l
          /\ th'[t].stack[n].pc = th[t].stack[n].pc + 1
      BY <1>5, <2>1, <2>3 DEF Advance
    <3>2. Top(t)' = th'[t].stack[n]
      BY <3>1 DEF Top
    <3>3. PICK i \in Nat, k \in Nat : i = Top(t).pc /\ k = CallAt[Layers[Top(t).l]]
      BY <1>5, CallStages DEF Frames
    <3>4. i + 1 <= k
      BY <1>2, <1>5, <1>7, <3>1, <3>2, <3>3, Zenon DEF Before
    <3>5. Before(t)
      BY <3>1, <3>3, <3>4 DEF Before
    <3>6. Top(t)'.l = Top(t).l
      BY <1>5, <3>1, <3>2
    <3> QED BY <1>4, <2>2, <3>5, <3>6 DEF Ahead
  <2>4. CASE Push(th[t], th'[t]) /\ w' = w /\ Stage(t) = "call"
    <3>1. Before(t)
      BY <1>1, <2>4, PushStack
    <3>2. Len(th'[t].stack) = n + 1 /\ th'[t].stack[n + 1].l = Top(t).l + 1
      BY <1>5, <2>4 DEF Push
    <3>3. Top(t)'.l = Top(t).l + 1 /\ Top(t).l \in Nat
      BY <1>5, <3>2 DEF Top, Frames
    <3>4. ASSUME NEW m \in 1 .. Len(Layers), m > Top(t)'.l
          PROVE  Fresh(m)'
      <4>1. m > Top(t).l
        BY <3>3, <3>4
      <4> QED BY <1>4, <3>1, <4>1 DEF Ahead
    <3> QED BY <2>2, <3>1, <3>4
  <2>5. CASE OutcomeOf(t) /\ Resume(th[t], th'[t])
    BY <1>1, <1>7, <2>5, ResumeStack
  <2>6. ~(\E r \in Results : GiveUp(th[t], th'[t], r)) /\ ~PopDefer(th[t], th'[t])
        /\ ~End(th[t], th'[t]) /\ ~Drop(th[t], th'[t])
    BY <2>1 DEF GiveUp, PopDefer, End, Drop
  <2> QED BY <2>3, <2>4, <2>5, <2>6, StepEffects
<1>8. \A u \in Goroutines : Before(u)' =>
        /\ u = "serve" => th'["run"].st = "off"
        /\ \A m \in 1 .. Len(Layers) : m > Top(u)'.l => Fresh(m)'
  BY <1>6, <1>7
<1> QED BY <1>2, <1>8 DEF Ahead


-----------------------------------------------------------------------------

(* Hystrix. Its stages are the only ones named "spawn" and "wait".           *)
SameWork ==
  /\ w' \in Works(Len(Layers)) /\ SameAnswer(w, w') /\ SameCalls(w, w') /\ w'.span = w.span

(* Where serve is when it spawns or waits.                                   *)
LEMMA AtHystrix ==
  ASSUME Types, Shape, th["serve"].st = "run", Stage("serve") \in {"spawn", "wait"}
  PROVE  /\ Layers[Top("serve").l] = "hystrix" /\ Top("serve").l = Len(th["serve"].stack)
         /\ Top("serve").l > 1 /\ Top("serve").l < Len(Layers)
         /\ Top("serve").pc = IF Stage("serve") = "spawn" THEN 1 ELSE 2
         /\ Len(Stages["hystrix"]) = 2 /\ CallAt["hystrix"] = 1
<1>1. PICK n \in Nat :
        /\ n = Len(th["serve"].stack) /\ n > 0 /\ Top("serve") = th["serve"].stack[n]
        /\ FrameOK("serve", n) /\ Top("serve") \in Frames
        /\ Top("serve").pc \in 1 .. Len(Stages[Layers[Top("serve").l]])
        /\ Layers[Top("serve").l] \in Kinds /\ Top("serve").l \in 1 .. Len(Layers)
  BY TopFacts DEF Alive, Goroutines
<1>2. PICK k \in Kinds, i \in Nat : k = Layers[Top("serve").l] /\ i = Top("serve").pc
  BY <1>1 DEF Frames
<1>3. i \in 1 .. Len(Stages[k]) /\ Stages[k][i] = Stage("serve")
  BY <1>1, <1>2 DEF Stage
<1>4. k = "hystrix"
  BY <1>3, CallStages
<1>5. Len(Stages["hystrix"]) = 2 /\ Stages["hystrix"][1] = "spawn" /\ Stages["hystrix"][2] = "wait"
      /\ CallAt["hystrix"] = 1
  BY DEF Stages, Hystrix, CallAt
<1>6. i = IF Stage("serve") = "spawn" THEN 1 ELSE 2
  BY <1>3, <1>4, <1>5
<1>7. Top("serve").l = n
  <2>1. th["serve"].stack[1].l = 1
    BY DEF Shape
  <2> QED BY <1>1, <2>1 DEF FrameOK
<1>8. Top("serve").l # 1 /\ Top("serve").l # Len(Layers) /\ Len(Layers) \in Nat
  BY <1>2, <1>4, LayerKinds DEF Types, ServerKinds, ClientKinds
<1> QED BY <1>1, <1>2, <1>4, <1>5, <1>6, <1>7, <1>8

(* What the end of the wait of Hystrix does.                                 *)
LEMMA WaitEffect ==
  ASSUME Types, Shape, HystrixReturns \/ HystrixTimeout
  PROVE  /\ Turn("serve") /\ SameWork /\ th["serve"].st = "run" /\ Stage("serve") = "wait"
         /\ \/ /\ Advance(th["serve"], th'["serve"])
               /\ th'["serve"].stack[Len(th["serve"].stack)].defers = Top("serve").defers
               /\ HystrixReturns /\ th["run"].st = "done" /\ th["run"].res = "ok"
            \/ GiveUp(th["serve"], th'["serve"], "err")
<1>0. PICK t \in Goroutines : t = "serve"
  BY DEF Goroutines
<1>1. th[t].st = "run" /\ Stage("serve") = "wait"
  BY <1>0 DEF HystrixReturns, HystrixTimeout, Running
<1>2. SameWork
  <2>1. CASE w' = w
    BY <2>1 DEF SameWork, SameAnswer, SameCalls, Types
  <2>2. CASE w' = [w EXCEPT !.late = TRUE]
    <3>1. PICK n \in Nat : n = Len(Layers) /\ w \in Works(n)
      BY LayerKinds, Zenon DEF Types
    <3>2. PICK y : y = [w EXCEPT !.late = TRUE]
      OBVIOUS
    <3>3. y \in Works(n) /\ SameAnswer(w, y) /\ SameCalls(w, y) /\ y.span = w.span
      BY <3>1, <3>2 DEF Works, SameAnswer, SameCalls
    <3> QED BY <2>2, <3>1, <3>2, <3>3 DEF SameWork
  <2> QED BY <2>1, <2>2 DEF HystrixReturns, HystrixTimeout
<1>3. PICK r \in Results : r = "err"
  BY DEF Results
<1>4. CASE th' = [th EXCEPT ![t] = Unwinding(th[t], r)]
  <2>1. Turn(t) /\ GiveUp(th[t], th'[t], r)
    BY <1>1, <1>4, GiveUpEffect
  <2> QED BY <1>0, <1>1, <1>2, <1>3, <2>1
<1>5. CASE th' = [th EXCEPT ![t] = Moved(th[t])] /\ th["run"].res = "ok" /\ HystrixReturns
  <2>1. PICK h : h = Moved(th[t])
    OBVIOUS
  <2>2. /\ h \in Threads /\ Advance(th[t], h)
        /\ h.stack[Len(th[t].stack)].defers = Top(t).defers
    BY <1>1, <2>1, MoveEffect
  <2>3. Turn(t) /\ th'[t] = h
    BY <1>5, <2>1, <2>2, TurnIs
  <2>4. th["run"].st = "done"
    BY <1>5 DEF HystrixReturns
  <2> QED BY <1>0, <1>1, <1>2, <1>5, <2>2, <2>3, <2>4
<1>6. th' = [th EXCEPT ![t] = Unwinding(th[t], r)]
      \/ (th' = [th EXCEPT ![t] = Moved(th[t])] /\ th["run"].res = "ok" /\ HystrixReturns)
  BY <1>0, <1>3 DEF HystrixReturns, HystrixTimeout
<1> QED BY <1>4, <1>5, <1>6

(* The same work has the same outcomes, reports and spans.                   *)
LEMMA SameWorkFacts ==
  ASSUME Types, SameWork, config' = config
  PROVE  /\ Layers' = Layers /\ w' \in Works(Len(Layers)) /\ w'.out = w.out
         /\ w'.told = w.told /\ w'.span = w.span
         /\ \A m : Fresh(m) => Fresh(m)'
<1>1. /\ w' \in Works(Len(Layers)) /\ w'.out = w.out /\ w'.told = w.told
      /\ w'.span = w.span /\ w'.finalized = w.finalized
  BY DEF SameWork, SameCalls, SameAnswer
<1> QED BY <1>1, LayersKept DEF Fresh

(* The end of the wait of Hystrix keeps the shape.                           *)
LEMMA WaitShape ==
  ASSUME Types, Shape, Ahead, HystrixReturns \/ HystrixTimeout, config' = config
  PROVE  Types' /\ Shape' /\ Ahead'
<1>0. PICK t \in Goroutines : t = "serve"
  BY DEF Goroutines
<1>1. /\ Turn(t) /\ SameWork /\ th[t].st = "run" /\ Stage(t) = "wait"
      /\ Advance(th[t], th'[t]) \/ GiveUp(th[t], th'[t], "err")
  BY <1>0, WaitEffect
<1>2. /\ Layers' = Layers /\ w' \in Works(Len(Layers)) /\ w'.out = w.out
      /\ \A m : Fresh(m) => Fresh(m)'
  BY <1>1, SameWorkFacts
<1>3. Types'
  <2>1. Works(Len(Layers))' = Works(Len(Layers))
    BY <1>2 DEF Works
  <2> QED BY <1>1, <1>2, <2>1 DEF Types, Turn, Configs, Goroutines, Threads
<1>4. th'["run"] = th["run"] /\ th'[t] \in Threads
  BY <1>0, <1>1 DEF Turn, Goroutines
<1>5. StackOK(t)'
  <2>1. CASE Advance(th[t], th'[t])
    BY <1>2, <1>4, <2>1, AdvanceStack
  <2>2. CASE GiveUp(th[t], th'[t], "err")
    BY <1>2, <2>2, GiveUpStack
  <2> QED BY <1>1, <2>1, <2>2
<1>6. StackOK("run")'
  <2>1. StackOK("run")
    BY DEF Shape, Goroutines
  <2>2. \A p \in 1 .. Len(th["run"].stack) : FrameOK("run", p)'
    BY <1>2, <1>4, <2>1 DEF StackOK, FrameOK, Alive
  <2> QED BY <1>4, <2>1, <2>2 DEF StackOK
<1>7. /\ th'[t].st \in {"run", "unwind"} /\ th'[t].stack[1].l = th[t].stack[1].l
      /\ Len(th'[t].stack) = Len(th[t].stack)
      /\ th'[t].st = "unwind"
  <2>1. PICK n \in Nat : n = Len(th[t].stack) /\ n > 0 /\ Top(t) = th[t].stack[n]
    BY <1>1, TopFacts DEF Alive
  <2>2. Top(t).pc = Len(Stages[Layers[Top(t).l]])
    BY <1>0, <1>1, AtHystrix
  <2>3. CASE Advance(th[t], th'[t])
    <3>1. /\ Len(th'[t].stack) = n /\ th'[t].st = "unwind"
          /\ \A p \in 1 .. n - 1 : th'[t].stack[p] = th[t].stack[p]
          /\ th'[t].stack[n].l = th[t].stack[n].l
      BY <2>1, <2>2, <2>3 DEF Advance
    <3>2. th'[t].stack[1].l = th[t].stack[1].l
      BY <2>1, <3>1
    <3> QED BY <2>1, <3>1, <3>2
  <2>4. CASE GiveUp(th[t], th'[t], "err")
    BY <2>1, <2>4 DEF GiveUp
  <2> QED BY <1>1, <2>3, <2>4
<1>8. Base' = Base
  BY <1>4 DEF Base
<1>9. Shape'
  BY <1>0, <1>2, <1>4, <1>5, <1>6, <1>7, <1>8 DEF Shape, Goroutines
<1>10. ~Before(t)'
  BY <1>7 DEF Before
<1>11. Before("run")' => Before("run") /\ Top("run")' = Top("run")
  BY <1>2, <1>4 DEF Before, Top
<1>12. Ahead'
  <2>1. \A u \in Goroutines : Before(u)' => u = "run" /\ Before("run") /\ Top(u)' = Top("run")
    BY <1>0, <1>10, <1>11 DEF Goroutines
  <2>2. Before("run") => \A m \in 1 .. Len(Layers) : m > Top("run").l => Fresh(m)
    BY DEF Ahead, Goroutines
  <2> QED BY <1>2, <2>1, <2>2 DEF Ahead
<1> QED BY <1>3, <1>9, <1>12

(* What the start of the goroutine of Hystrix does.                          *)
LEMMA GoEffect ==
  ASSUME Types, Shape, HystrixGo
  PROVE  /\ th' \in [Goroutines -> Threads] /\ w' = w
         /\ th["serve"].st = "run" /\ Stage("serve") = "spawn"
         /\ Advance(th["serve"], th'["serve"])
         /\ th'["serve"].stack[Len(th["serve"].stack)].defers = Top("serve").defers
         /\ th'["run"].st = "run" /\ Len(th'["run"].stack) = 1
         /\ LET f == th'["run"].stack[1] IN f.l = Top("serve").l + 1 /\ f.pc = 1 /\ f.defers = <<>>
<1>0. PICK t \in Goroutines : t = "serve"
  BY DEF Goroutines
<1>1. th[t].st = "run" /\ Stage(t) = "spawn" /\ w' = w
  BY <1>0 DEF HystrixGo, Running
<1>2. PICK h : h = Moved(th[t])
  OBVIOUS
<1>3. /\ h \in Threads /\ Advance(th[t], h)
      /\ h.stack[Len(th[t].stack)].defers = Top(t).defers
  BY <1>1, <1>2, MoveEffect
<1>4. PICK f \in Frames : f = Frame(Top(t).l + 1)
  <2>1. Top(t).l \in Nat
    BY <1>1, TopFacts DEF Alive, Frames
  <2>2. Top(t).l + 1 \in Nat /\ <<>> \in Seq(DeferredCalls)
    BY <2>1
  <2> QED BY <2>2 DEF Frame, Frames
<1>5. PICK g : g = Started(Top(t).l + 1)
  OBVIOUS
<1>6. g \in Threads /\ g.st = "run" /\ g.stack = <<f>>
  <2>1. <<f>> \in Seq(Frames)
    BY <1>4
  <2> QED BY <1>4, <1>5, <2>1 DEF Started, Threads, Results
<1>7. th' = [th EXCEPT !["serve"] = h, !["run"] = g]
  BY <1>0, <1>2, <1>5 DEF HystrixGo
<1>8. /\ th' \in [Goroutines -> Threads] /\ th'["serve"] = h /\ th'["run"] = g
  BY <1>3, <1>6, <1>7 DEF Types, Goroutines
<1>9. f.l = Top(t).l + 1 /\ f.pc = 1 /\ f.defers = <<>>
  BY <1>4 DEF Frame
<1>10. Len(g.stack) = 1 /\ g.stack[1] = f
  BY <1>6
<1> QED BY <1>0, <1>1, <1>3, <1>6, <1>8, <1>9, <1>10

(* The start of the goroutine of Hystrix keeps the shape.                    *)
LEMMA GoShape ==
  ASSUME Types, Shape, Ahead, HystrixGo, config' = config
  PROVE  Types' /\ Shape' /\ Ahead'
<1>1. /\ th' \in [Goroutines -> Threads] /\ w' = w
      /\ th["serve"].st = "run" /\ Stage("serve") = "spawn"
      /\ Advance(th["serve"], th'["serve"])
      /\ th'["run"].st = "run" /\ Len(th'["run"].stack) = 1
      /\ th'["run"].stack[1].l = Top("serve").l + 1 /\ th'["run"].stack[1].pc = 1
  BY GoEffect
<1>2. Layers' = Layers
  BY LayersKept
<1>3. Types'
  <2>1. Works(Len(Layers))' = Works(Len(Layers))
    BY <1>2 DEF Works
  <2> QED BY <1>1, <2>1 DEF Types, Configs, Goroutines, Threads
<1>4. PICK n \in Nat :
        /\ n = Len(th["serve"].stack) /\ n > 0 /\ Top("serve") = th["serve"].stack[n]
        /\ Top("serve").l = n /\ n > 1 /\ n < Len(Layers)
        /\ Layers[n] = "hystrix" /\ Top("serve").pc = 1
        /\ Len(Stages[Layers[n]]) = 2 /\ CallAt[Layers[n]] = 1
  <2>1. PICK n \in Nat :
        n = Len(th["serve"].stack) /\ n > 0 /\ Top("serve") = th["serve"].stack[n]
    BY <1>1, TopFacts DEF Alive, Goroutines
  <2>2. /\ Layers[Top("serve").l] = "hystrix" /\ Top("serve").l = Len(th["serve"].stack)
        /\ Top("serve").l > 1 /\ Top("serve").l < Len(Layers)
        /\ Top("serve").pc = IF Stage("serve") = "spawn" THEN 1 ELSE 2
        /\ Len(Stages["hystrix"]) = 2 /\ CallAt["hystrix"] = 1
    BY <1>1, AtHystrix
  <2> QED BY <1>1, <2>1, <2>2
<1>5. Before("serve")
  BY <1>1, <1>4 DEF Before
<1>6. \A m \in 1 .. Len(Layers) : m > n => Fresh(m)
  BY <1>4, <1>5 DEF Ahead, Goroutines
<1>7. /\ Len(th'["serve"].stack) = n /\ th'["serve"].st = "run"
      /\ \A p \in 1 .. n - 1 : th'["serve"].stack[p] = th["serve"].stack[p]
      /\ th'["serve"].stack[n].l = th["serve"].stack[n].l
      /\ th'["serve"].stack[n].pc = 2
  <2>a. th["serve"].stack[n].l = n
    BY <1>4
  <2>b. th["serve"].stack[n].pc = 1
    BY <1>4
  <2>c. Len(Stages[Layers[th["serve"].stack[n].l]]) = 2
    BY <1>4, <2>a
  <2>1. /\ th["serve"].stack[n].pc = 1
        /\ th["serve"].stack[n].pc # Len(Stages[Layers[th["serve"].stack[n].l]])
    BY <2>b, <2>c
  <2>2. /\ Len(th'["serve"].stack) = n
        /\ \A p \in 1 .. n - 1 : th'["serve"].stack[p] = th["serve"].stack[p]
        /\ th'["serve"].stack[n].l = th["serve"].stack[n].l
        /\ th'["serve"].st = "run" /\ th'["serve"].stack[n].pc = th["serve"].stack[n].pc + 1
    BY <1>1, <1>4, <2>1 DEF Advance
  <2> QED BY <2>1, <2>2
<1>8. StackOK("serve")'
  <2>1. th'["serve"] \in Threads
    BY <1>1 DEF Goroutines
  <2> QED BY <1>1, <2>1, AdvanceStack DEF Goroutines
<1>9. PICK k \in 1 .. Len(Layers) : k = n + 1
  <2>1. n + 1 \in 1 .. Len(Layers)
    BY <1>4, LayerKinds DEF Types
  <2> QED BY <2>1
<1>10. Fresh(k) /\ Layers[k] \in Kinds
  BY <1>4, <1>6, <1>9, LayerKinds DEF Types
<1>11. StackOK("run")'
  <2>1. 1 \in 1 .. Len(Stages[Layers[k]])
    BY <1>10, CallStages
  <2>2. FrameOK("run", 1)'
    BY <1>1, <1>2, <1>4, <1>9, <1>10, <2>1 DEF FrameOK, Alive, Fresh
  <2> QED BY <1>1, <2>2 DEF StackOK
<1>12. Base' = k /\ k - 1 = n
  BY <1>1, <1>4, <1>9 DEF Base
<1>13. th'["serve"].stack[1].l = 1
  <2>1. th["serve"].stack[1].l = 1
    BY DEF Shape
  <2> QED BY <1>4, <1>7, <2>1
<1>14. Shape'
  BY <1>2, <1>4, <1>7, <1>8, <1>9, <1>11, <1>12, <1>13 DEF Shape, Goroutines
<1>15. ~Before("serve")'
  <2>1. Top("serve")'.pc = 2 /\ Top("serve")'.l = n
    BY <1>4, <1>7 DEF Top
  <2> QED BY <1>2, <1>4, <2>1 DEF Before
<1>16. Top("run")'.l = n + 1
  BY <1>1, <1>4 DEF Top
<1>17. \A m \in 1 .. Len(Layers) : m > n + 1 => Fresh(m)'
  <2> TAKE m \in 1 .. Len(Layers)
  <2>1. m > n + 1 => m > n
    BY <1>4
  <2>2. Fresh(m) => Fresh(m)'
    BY <1>1 DEF Fresh
  <2> QED BY <1>6, <2>1, <2>2
<1>18. Ahead'
  BY <1>2, <1>15, <1>16, <1>17 DEF Ahead, Goroutines
<1> QED BY <1>3, <1>14, <1>18


(* The caller that closes the body changes neither stacks nor calls.         *)
LEMMA ClosesFacts ==
  ASSUME Types, CallerCloses
  PROVE  th' = th /\ SameWork
<1>1. PICK n \in Nat : n = Len(Layers) /\ w \in Works(n)
  BY LayerKinds, Zenon DEF Types
<1>2. PICK y : y = [w EXCEPT !.body = "closed", !.ctx = "cancelled"]
  OBVIOUS
<1>3. w' = y /\ th' = th
  BY <1>2 DEF CallerCloses
<1>4. y \in Works(n) /\ SameAnswer(w, y) /\ SameCalls(w, y) /\ y.span = w.span
  BY <1>1, <1>2 DEF Works, SameAnswer, SameCalls
<1> QED BY <1>1, <1>3, <1>4 DEF SameWork

(* The caller that closes the body keeps the shape.                          *)
LEMMA ClosesShape ==
  ASSUME Types, Shape, Ahead, CallerCloses, config' = config
  PROVE  Types' /\ Shape' /\ Ahead'
<1>1. th' = th /\ SameWork
  BY ClosesFacts
<1>2. /\ Layers' = Layers /\ w' \in Works(Len(Layers)) /\ w'.out = w.out
      /\ \A m : Fresh(m) => Fresh(m)'
  BY <1>1, SameWorkFacts
<1>3. Types'
  <2>1. Works(Len(Layers))' = Works(Len(Layers))
    BY <1>2 DEF Works
  <2> QED BY <1>1, <1>2, <2>1 DEF Types, Configs, Goroutines, Threads
<1>4. \A t \in Goroutines : StackOK(t)'
  <2> TAKE t \in Goroutines
  <2>1. StackOK(t)
    BY DEF Shape
  <2>2. \A p \in 1 .. Len(th[t].stack) : FrameOK(t, p)'
    BY <1>1, <1>2, <2>1 DEF StackOK, FrameOK, Alive
  <2> QED BY <1>1, <2>1, <2>2 DEF StackOK
<1>5. Shape'
  BY <1>1, <1>2, <1>4 DEF Shape, Base
<1>6. \A t \in Goroutines : (Before(t)' => Before(t)) /\ Top(t)' = Top(t)
  BY <1>1, <1>2 DEF Before, Top
<1>7. Ahead'
  BY <1>1, <1>2, <1>6 DEF Ahead
<1> QED BY <1>3, <1>5, <1>7

(* The request walks down its layers and back, whatever the chain.           *)
LEMMA InitShape ==
  ASSUME Init
  PROVE  Types /\ Shape /\ Ahead
<1>1. config \in Configs
  BY DEF Init, Configs
<1>2. PICK n \in Nat : n = Len(Layers) /\ n >= 2 /\ DOMAIN Layers = 1 .. n
  BY <1>1, LayerKinds, Zenon
<1>3. w \in Works(n)
  <2>1. /\ [l \in 1 .. n |-> <<>>] \in [1 .. n -> Seq({"success", "failure"})]
        /\ [l \in 1 .. n |-> "none"] \in [1 .. n -> Results \cup {"none"}]
        /\ [l \in 1 .. n |-> [st |-> "none", sent |-> 0]] \in [1 .. n -> [st : SpanStates, sent : Nat]]
        /\ {} \in SUBSET Answers
    BY DEF SpanStates
  <2> QED BY <1>2, <2>1 DEF Init, Works
<1>4. Frame(1) \in Frames /\ Frame(1).l = 1 /\ Frame(1).pc = 1 /\ Frame(1).defers = <<>>
  BY DEF Frame, Frames
<1>5. th \in [Goroutines -> Threads] /\ th["serve"].st = "run" /\ th["serve"].stack = <<Frame(1)>>
      /\ th["run"].st = "off" /\ th["run"].stack = <<>>
  <2>1. <<Frame(1)>> \in Seq(Frames) /\ <<>> \in Seq(Frames)
    BY <1>4
  <2>2. /\ Started(1) \in Threads /\ Started(1).st = "run" /\ Started(1).stack = <<Frame(1)>>
    BY <2>1 DEF Started, Threads, Results
  <2>3. Idle \in Threads /\ Idle.st = "off" /\ Idle.stack = <<>>
    BY <2>1 DEF Idle, Threads, Results
  <2>4. th = [t \in Goroutines |-> IF t = "serve" THEN Started(1) ELSE Idle]
    BY DEF Init
  <2> QED BY <2>2, <2>3, <2>4 DEF Goroutines
<1>6. Types
  BY <1>1, <1>2, <1>3, <1>5 DEF Types
<1>7. Len(th["serve"].stack) = 1 /\ th["serve"].stack[1] = Frame(1) /\ Len(th["run"].stack) = 0
  BY <1>5
<1>8. \A m \in 1 .. n : /\ w.out[m] = "none" /\ w.told[m] = <<>> /\ w.finalized[m] = 0
                         /\ w.span[m] = [st |-> "none", sent |-> 0]
  BY <1>2 DEF Init
<1>9. StackOK("serve")
  <2>1. 1 \in 1 .. Len(Layers) /\ 1 \in 1 .. Len(Stages[Layers[1]])
    <3>1. Layers[1] \in Kinds /\ 1 \in 1 .. Len(Layers)
      BY <1>1, <1>2, LayerKinds
    <3> QED BY <3>1, CallStages
  <2>2. FrameOK("serve", 1)
    BY <1>2, <1>4, <1>5, <1>7, <1>8, <2>1 DEF FrameOK, Alive
  <2> QED BY <1>5, <1>7, <2>2 DEF StackOK
<1>10. StackOK("run")
  BY <1>5, <1>7 DEF StackOK
<1>11. Shape
  BY <1>4, <1>5, <1>7, <1>9, <1>10 DEF Shape, Goroutines
<1>12. \A m \in 1 .. n : Fresh(m)
  BY <1>8 DEF Fresh
<1>13. Ahead
  BY <1>2, <1>5, <1>12 DEF Ahead
<1> QED BY <1>6, <1>11, <1>13

(* Every step keeps the shape of the request.                                *)
LEMMA NextShape ==
  ASSUME Types, Shape, Ahead, [Next]_vars
  PROVE  Types' /\ Shape' /\ Ahead'
<1>1. ASSUME NEW t \in Goroutines, Step(t)
      PROVE  Types' /\ Shape' /\ Ahead'
  BY <1>1, StepShape, StepAhead
<1>2. CASE HystrixStep
  BY <1>2, GoShape, WaitShape DEF HystrixStep
<1>3. CASE HystrixTimeout /\ UNCHANGED config
  BY <1>3, WaitShape
<1>4. CASE Closes
  BY <1>4, ClosesShape DEF Closes
<1>5. CASE UNCHANGED vars
  <2>1. config' = config /\ th' = th /\ w' = w
    BY <1>5 DEF vars
  <2>2. Layers' = Layers
    BY <2>1, LayersKept
  <2>3. Types'
    BY <2>1, <2>2 DEF Types, Configs, Goroutines, Threads, Works
  <2>4. ASSUME NEW t \in Goroutines
        PROVE  StackOK(t)'
    <3>1. StackOK(t)
      BY DEF Shape
    <3>2. ASSUME NEW p, FrameOK(t, p)
          PROVE  FrameOK(t, p)'
      BY <2>1, <2>2, <3>2, Zenon DEF FrameOK, Alive
    <3> QED BY <2>1, <3>1, <3>2, Zenon DEF StackOK
  <2>5. Shape'
    BY <2>1, <2>2, <2>4 DEF Shape, Base
  <2>6. Ahead'
    BY <2>1, <2>2 DEF Ahead, Before, Top, Fresh
  <2> QED BY <2>3, <2>5, <2>6
<1> QED BY <1>1, <1>2, <1>3, <1>4, <1>5 DEF Next


-----------------------------------------------------------------------------

(* Circuit breakers. A breaker of Gobreaker is told when the next layer      *)
(* returns, one of HandyBreaker by the report that it defers before it calls.*)
Judge(k, o) ==
  CASE o = "none" -> <<>>
    [] o = "ok" -> <<"success">>
    [] o = "err" -> <<"failure">>
    [] o = "panic" -> <<IF k = "gobreaker" THEN "failure" ELSE "success">>

ReportsOK(t, p) ==
  LET f == th[t].stack[p]
      returning == th[t].st = "unwind" /\ p = Len(th[t].stack)
  IN  /\ Layers[f.l] # "handybreaker" => \A i \in 1 .. Len(f.defers) : f.defers[i] # "report"
      /\ Layers[f.l] = "handybreaker" /\ Alive(t) /\ ~returning =>
           w.told[f.l] = <<>> /\ f.defers = IF f.pc = 3 THEN <<"report">> ELSE <<>>
      /\ Layers[f.l] = "handybreaker" /\ returning =>
           \/ w.told[f.l] = <<>> /\ f.defers = <<"report">> /\ w.out[f.l + 1] = th[t].res
           \/ w.told[f.l] = Verdict(f.l) /\ f.defers = <<>>
ToldOK(l) ==
  /\ Layers[l] = "gobreaker" => w.told[l] = Verdict(l)
  /\ Layers[l] = "handybreaker" /\ w.out[l] # "none" => w.told[l] = Verdict(l)
BreakersOK ==
  /\ \A l \in 1 .. Len(Layers) : ToldOK(l)
  /\ \A t \in Goroutines : \A p \in 1 .. Len(th[t].stack) : ReportsOK(t, p)

(* The verdict of a breaker by the outcome of the layer it wraps.            *)
LEMMA VerdictIs ==
  ASSUME NEW l
  PROVE  /\ Verdict(l) = Judge(Layers[l], w.out[l + 1])
         /\ Verdict(l)' = Judge(Layers'[l], w'.out[l + 1])
BY DEF Verdict, Judge

(* The stages that the properties are about, and the layers that have them.  *)
LEMMA StageOwners ==
  \A k \in Kinds : \A i \in 1 .. Len(Stages[k]) :
    /\ Stages[k][i] = "report" => k = "handybreaker" /\ i = 2
    /\ Stages[k][i] = "finish" => k = "trace" /\ i = 2
    /\ Stages[k][i] = "start" => k = "trace" /\ i = 1
    /\ Stages[k][i] = "post" => k = "jsonrpc" /\ i = 1
    /\ Stages[k][i] = "respond" => k \in {"http", "fasthttp"} /\ i = 6
    /\ Stages[k][i] = "write" => k = "jsonrpc" /\ i = 10
    /\ k \in Middlewares => Stages[k][i] \notin {"finalizer", "before", "after", "dec"}
<1> SUFFICES ASSUME NEW k \in Kinds, NEW i \in 1 .. Len(Stages[k])
             PROVE  /\ Stages[k][i] = "report" => k = "handybreaker" /\ i = 2
                    /\ Stages[k][i] = "finish" => k = "trace" /\ i = 2
                    /\ Stages[k][i] = "start" => k = "trace" /\ i = 1
                    /\ Stages[k][i] = "post" => k = "jsonrpc" /\ i = 1
                    /\ Stages[k][i] = "respond" => k \in {"http", "fasthttp"} /\ i = 6
                    /\ Stages[k][i] = "write" => k = "jsonrpc" /\ i = 10
                    /\ k \in Middlewares => Stages[k][i] \notin {"finalizer", "before", "after", "dec"}
  OBVIOUS
<1> USE DEF Stages, Middlewares
<1>1. CASE k = "main" BY <1>1
<1>2. CASE k = "http" BY <1>2 DEF HttpServer
<1>3. CASE k = "jsonrpc" BY <1>3 DEF JsonrpcServer
<1>4. CASE k = "grpc" BY <1>4 DEF GrpcServer
<1>5. CASE k = "fasthttp" BY <1>5 DEF FasthttpServer
<1>6. CASE k = "httpClient" BY <1>6 DEF HttpClient
<1>7. CASE k = "jsonrpcClient" BY <1>7 DEF JsonrpcClient
<1>8. CASE k = "grpcClient" BY <1>8 DEF GrpcClient
<1>9. CASE k = "fasthttpClient" BY <1>9 DEF FasthttpClient
<1>10. CASE k = "handybreaker" BY <1>10 DEF HandyBreaker
<1>11. CASE k = "gobreaker" BY <1>11 DEF Gobreaker
<1>12. CASE k = "hystrix" BY <1>12 DEF Hystrix
<1>13. CASE k = "erroring" BY <1>13 DEF ErroringLimiter
<1>14. CASE k = "delaying" BY <1>14 DEF DelayingLimiter
<1>15. CASE k = "trace" BY <1>15 DEF TraceEndpoint
<1>16. CASE k = "signer" BY <1>16 DEF NewSigner
<1>17. CASE k = "parser" BY <1>17 DEF NewParser
<1>18. CASE k = "basic" BY <1>18 DEF AuthMiddleware
<1> QED
  BY <1>1, <1>2, <1>3, <1>4, <1>5, <1>6, <1>7, <1>8, <1>9, <1>10, <1>11, <1>12, <1>13,
     <1>14, <1>15, <1>16, <1>17, <1>18 DEF Kinds, ServerKinds, ClientKinds

(* The layer before the one at the top of a stack is its caller, or Hystrix. *)
LEMMA CallerLayer ==
  ASSUME Types, Shape, NEW t \in Goroutines, Alive(t), NEW l \in 1 .. Len(Layers), l + 1 = Top(t).l
  PROVE  \/ Layers[l] = "hystrix" /\ Len(th[t].stack) = 1
         \/ Len(th[t].stack) > 1 /\ th[t].stack[Len(th[t].stack) - 1].l = l
<1>1. PICK n \in Nat :
        /\ n = Len(th[t].stack) /\ Top(t) = th[t].stack[n] /\ n > 0
        /\ \A p \in 1 .. n : th[t].stack[p] \in Frames /\ FrameOK(t, p)
  BY TopFacts
<1>2. PICK a \in Nat : a = th[t].stack[1].l
  BY <1>1 DEF Frames
<1>3. Top(t).l = a + n - 1
  <2>1. FrameOK(t, n)
    <3>1. n \in 1 .. n
      BY <1>1
    <3> QED BY <1>1, <3>1
  <2> QED BY <1>1, <1>2, <2>1 DEF FrameOK
<1>4. CASE n = 1
  <2>1. a = l + 1
    BY <1>3, <1>4
  <2>2. t = "run"
    <3>1. a # 1
      BY <2>1, LayerKinds DEF Types
    <3>2. t # "serve"
      BY <1>2, <3>1 DEF Shape
    <3> QED BY <3>2 DEF Goroutines
  <2>3. Base = l + 1 /\ th["run"].st # "off"
    BY <1>2, <2>1, <2>2 DEF Base, Alive
  <2>4. Layers[Base - 1] = "hystrix" /\ Base - 1 = l
    BY <2>3 DEF Shape
  <2> QED BY <1>1, <1>4, <2>4
<1>5. CASE n > 1
  <2>1. PICK p \in 1 .. n : p = n - 1
    <3>1. n - 1 \in 1 .. n
      BY <1>5
    <3> QED BY <3>1
  <2>2. th[t].stack[p].l = a + p - 1
    BY <1>1, <1>2 DEF FrameOK
  <2>3. a + p - 1 = l
    BY <1>3, <2>1
  <2>4. th[t].stack[p].l = l
    BY <2>2, <2>3
  <2>5. p = Len(th[t].stack) - 1 /\ Len(th[t].stack) > 1
    BY <1>1, <1>5, <2>1
  <2>6. th[t].stack[Len(th[t].stack) - 1].l = l
    BY <2>4, <2>5
  <2> QED BY <2>5, <2>6
<1>6. n > 0
  BY <1>1, Zenon
<1>7. n = 1 \/ n > 1
  BY <1>6
<1> QED BY <1>4, <1>5, <1>7

(* What a step tells the breakers.                                           *)
LastDeferred(t) == Top(t).defers[Len(Top(t).defers)]
(* When a step tells a breaker, and which.                                   *)
LEMMA StepTold ==
  ASSUME Types, Shape, NEW t \in Goroutines, Step(t)
  PROVE  \/ /\ ~Return(t) /\ (RunDeferred(t) => LastDeferred(t) # "report")
            /\ w'.told = w.told /\ w'.out = w.out
         \/ /\ RunDeferred(t) /\ LastDeferred(t) = "report" /\ w'.out = w.out
            /\ \A m \in 1 .. Len(Layers) : m # Top(t).l => w'.told[m] = w.told[m]
            /\ w'.told[Top(t).l] =
                 Append(w.told[Top(t).l], IF th[t].res = "err" THEN "failure" ELSE "success")
         \/ /\ Return(t) /\ OutcomeOf(t)
            /\ \A m \in 1 .. Len(Layers) :
                 w'.told[m] = IF m + 1 = Top(t).l /\ Layers[m] = "gobreaker"
                              THEN Append(w.told[m], IF th[t].res = "ok" THEN "success" ELSE "failure")
                              ELSE w.told[m]
<1>0. PICK n \in Nat : n = Len(Layers) /\ w \in Works(n)
  BY LayerKinds, Zenon DEF Types
<1>1. Alive(t) /\ (Return(t) => OutcomeOf(t)) /\ (~Return(t) => w'.out = w.out)
  BY StepWork
<1>2. Server \in ServerKinds /\ Layers[1] = Server
  BY LayerKinds DEF Types
<1>3. PICK l \in 1 .. n : l = Top(t).l
  BY <1>0, <1>1, TopFacts
<1>4. PICK r \in Results : r = th[t].res
  BY <1>1, TopFacts DEF Threads
<1>5. CASE w' = w /\ ~Return(t) /\ ~RunDeferred(t)
  BY <1>5
<1>6. CASE Pass(t) /\ ~Return(t) /\ ~RunDeferred(t)
  <2>1. PICK y \in Passed(w, l, Stage(t)) : w' = y
    BY <1>3, <1>6 DEF Pass
  <2>2. SameCalls(w, y)
    BY <1>0, PassedFacts
  <2> QED BY <1>6, <2>1, <2>2 DEF SameCalls
<1>a. CASE Panic(t) /\ ~Return(t) /\ ~RunDeferred(t)
  <2>1. PICK y \in Panics(w, l, Stage(t)) : w' = y
    BY <1>3, <1>a DEF Panic
  <2>2. SameCalls(w, y)
    BY <1>0, PanicsFacts
  <2> QED BY <1>a, <2>1, <2>2 DEF SameCalls
<1>7. CASE Fail(t) /\ ~Return(t) /\ ~RunDeferred(t)
  <2>1. PICK y \in Failures(w, l, Stage(t)) : w' = y
    BY <1>3, <1>7 DEF Fail
  <2>2. y \in Works(n) /\ SameCalls(w, y)
    BY <1>0, <1>2, FailuresFacts
  <2> QED BY <1>7, <2>1, <2>2 DEF SameCalls
<1>8. CASE RunDeferred(t) /\ ~Return(t)
  <2>1. PICK d \in DeferredCalls : d = LastDeferred(t) /\ w' = Deferred(w, l, d, th[t].res)
    BY <1>3, <1>4, <1>8, RunDeferredEffect DEF LastDeferred
  <2>2. PICK y : y = Deferred(w, l, d, th[t].res)
    OBVIOUS
  <2>3. /\ y \in Works(n) /\ y.out = w.out
        /\ d = "report" => y = Tell(w, l, r)
        /\ d # "report" => y.told = w.told
    BY <1>0, <1>4, <2>2, DeferredFacts
  <2>4. CASE d = "report"
    <3>1. PICK z : z = Tell(w, l, r)
      OBVIOUS
    <3>a. PICK x \in Works(n) : x = w
      BY <1>0
    <3>b. z = Tell(x, l, r)
      BY <3>1, <3>a
    <3>c. /\ z \in Works(n) /\ SameAnswer(x, z) /\ z.out = x.out /\ z.span = x.span
          /\ z.told[l] = Append(x.told[l], IF r = "err" THEN "failure" ELSE "success")
          /\ \A m \in 1 .. n : m # l => z.told[m] = x.told[m]
      BY <3>b, TellFacts
    <3>2. /\ z.told[l] = Append(w.told[l], IF r = "err" THEN "failure" ELSE "success")
          /\ \A m \in 1 .. n : m # l => z.told[m] = w.told[m]
      BY <3>a, <3>c
    <3>3. w' = z
      BY <2>1, <2>2, <2>3, <2>4, <3>1
    <3> QED BY <1>0, <1>1, <1>3, <1>4, <1>8, <2>1, <2>4, <3>2, <3>3
  <2>5. CASE d # "report"
    BY <1>8, <2>1, <2>2, <2>3, <2>5
  <2> QED BY <2>4, <2>5
<1>9. CASE Return(t)
  <2>1. PICK x : x = Returned(w, l, r)
    OBVIOUS
  <2>2. /\ x \in Works(n)
        /\ \A m \in 1 .. n : ~(m = l - 1 /\ Layers[m] = "gobreaker") => x.told[m] = w.told[m]
        /\ l > 1 /\ Layers[l - 1] = "gobreaker" =>
             x.told[l - 1] = Append(w.told[l - 1], IF r = "ok" THEN "success" ELSE "failure")
    <3>1. PICK x0 \in Works(n) : x0 = w
      BY <1>0
    <3>2. x = Returned(x0, l, r)
      BY <2>1, <3>1
    <3>3. x \in Works(n) /\ TellsCaller(n, x0, l, r, x)
      BY <3>2, ReturnedTells
    <3> QED BY <3>1, <3>3 DEF TellsCaller
  <2>3. w'.told = x.told
    <3>1. w' = x \/ (w' \in Failures(x, l - 1, "call") /\ Drop(th[t], th'[t]))
      BY <1>3, <1>4, <1>9, <2>1, ReturnEffect
    <3>2. CASE w' = x
      BY <3>2
    <3>3. CASE w' \in Failures(x, l - 1, "call") /\ Drop(th[t], th'[t])
      <4>1. PICK k \in 1 .. n : k = l - 1
        <5>1. PICK q \in Nat : /\ q = Len(th[t].stack) /\ q > 0 /\ Top(t) = th[t].stack[q]
                               /\ \A p \in 1 .. q : th[t].stack[p] \in Frames /\ FrameOK(t, p)
          BY <1>1, TopFacts
        <5>2. q > 1
          BY <3>3, <5>1 DEF Drop
        <5>3. /\ 1 \in 1 .. q /\ q \in 1 .. q
          BY <5>2
        <5>4. PICK a \in Nat : a = th[t].stack[1].l /\ a > 0
          <6>1. FrameOK(t, 1)
            BY <5>1, <5>3
          <6>2. th[t].stack[1].l \in 1 .. Len(Layers)
            BY <6>1 DEF FrameOK
          <6> QED BY <6>2
        <5>5. l = a + q - 1
          BY <1>3, <5>1, <5>3, <5>4 DEF FrameOK
        <5> QED BY <5>2, <5>4, <5>5
      <4>2. PICK y \in Failures(x, k, "call") : w' = y
        BY <3>3, <4>1
      <4>3. y \in Works(n) /\ SameCalls(x, y)
        BY <1>2, <2>2, FailuresFacts
      <4> QED BY <4>2, <4>3 DEF SameCalls
    <3> QED BY <3>1, <3>2, <3>3
  <2>4. ASSUME NEW m \in 1 .. n
        PROVE  w'.told[m] = IF m + 1 = l /\ Layers[m] = "gobreaker"
                            THEN Append(w.told[m], IF r = "ok" THEN "success" ELSE "failure")
                            ELSE w.told[m]
    <3>1. CASE m + 1 = l /\ Layers[m] = "gobreaker"
      <4>1. m = l - 1 /\ l > 1
        BY <3>1
      <4>2. Layers[l - 1] = "gobreaker"
        BY <3>1, <4>1
      <4> QED BY <2>2, <2>3, <3>1, <4>1, <4>2
    <3>2. CASE ~(m + 1 = l /\ Layers[m] = "gobreaker")
      <4>1. ~(m = l - 1 /\ Layers[m] = "gobreaker")
        BY <3>2
      <4> QED BY <2>2, <2>3, <3>2, <4>1
    <3> QED BY <3>1, <3>2
  <2> QED BY <1>0, <1>1, <1>3, <1>4, <1>9, <2>4
<1>11. Pass(t) \/ Fail(t) \/ Defer(t) \/ Panic(t) \/ Call(t) => ~Return(t) /\ ~RunDeferred(t)
  BY DEF Pass, Fail, Defer, Panic, Call, Return, RunDeferred, Running
<1>12. RunDeferred(t) => ~Return(t)
  BY DEF RunDeferred, Return
<1>13. (Pass(t) \/ Fail(t) \/ Panic(t) \/ RunDeferred(t) \/ Return(t))
       \/ (w' = w /\ (Defer(t) \/ Call(t)))
  BY DEF Step, Defer, Call
<1> QED BY <1>5, <1>6, <1>7, <1>8, <1>9, <1>11, <1>12, <1>13, <1>a

(* The frames below the top are of layers further out.                       *)
LEMMA LayersRise ==
  ASSUME Types, Shape, NEW t \in Goroutines, Alive(t), NEW p \in 1 .. Len(th[t].stack),
         p < Len(th[t].stack)
  PROVE  /\ th[t].stack[p].l < Top(t).l /\ th[t].stack[p].l \in 1 .. Len(Layers)
         /\ th[t].stack[p].l + 1 = Top(t).l => p + 1 = Len(th[t].stack)
<1>1. PICK n \in Nat :
        /\ n = Len(th[t].stack) /\ Top(t) = th[t].stack[n] /\ n > 0
        /\ \A q \in 1 .. n : th[t].stack[q] \in Frames /\ FrameOK(t, q)
  BY TopFacts
<1>2. PICK a \in Nat : a = th[t].stack[1].l
  BY <1>1 DEF Frames
<1>3. p \in 1 .. n /\ p < n
  BY <1>1
<1>4. th[t].stack[p].l = a + p - 1 /\ Top(t).l = a + n - 1 /\ th[t].stack[p].l \in 1 .. Len(Layers)
  <2>1. FrameOK(t, p) /\ FrameOK(t, n)
    BY <1>1, <1>3
  <2> QED BY <1>1, <1>2, <2>1 DEF FrameOK
<1>5. a + p - 1 < a + n - 1 /\ (a + p - 1 + 1 = a + n - 1 => p + 1 = n)
  BY <1>3
<1>6. th[t].stack[p].l < Top(t).l
  BY <1>4, <1>5
<1>7. th[t].stack[p].l + 1 = Top(t).l => p + 1 = n
  BY <1>4, <1>5
<1> QED BY <1>1, <1>4, <1>6, <1>7

(* What the other frames know of their breakers stays.                       *)
LEMMA HandyKept ==
  ASSUME Types, Shape, NEW t \in Goroutines, Step(t), NEW u \in Goroutines,
         NEW p \in 1 .. Len(th[u].stack), Layers[th[u].stack[p].l] = "handybreaker",
         u # t \/ p < Len(th[t].stack)
  PROVE  /\ w'.told[th[u].stack[p].l] = w.told[th[u].stack[p].l]
         /\ u # t => w'.out[th[u].stack[p].l + 1] = w.out[th[u].stack[p].l + 1]
<1>1. Alive(t)
  BY StepWork
<1>2. PICK l \in 1 .. Len(Layers) : l = th[u].stack[p].l
  BY DEF Shape, StackOK, FrameOK
<1>3. l # Top(t).l
  <2>1. CASE u # t
    BY <1>1, <1>2, <2>1, StacksApart
  <2>2. CASE u = t
    <3>1. l < Top(t).l
      BY <1>1, <1>2, <2>2, LayersRise
    <3>2. Top(t).l \in 1 .. Len(Layers)
      BY <1>1, TopFacts
    <3> QED BY <3>1, <3>2, LayerKinds DEF Types
  <2> QED BY <2>1, <2>2
<1>4. Layers[l] = "handybreaker"
  BY <1>2
<1>5. w'.told[l] = w.told[l]
  BY <1>3, <1>4, StepTold
<1>6. ASSUME u # t
      PROVE  w'.out[l + 1] = w.out[l + 1]
  <2>1. l + 1 # Top(t).l
    <3> SUFFICES ASSUME l + 1 = Top(t).l PROVE FALSE
      OBVIOUS
    <3>1. Len(th[t].stack) > 1 /\ th[t].stack[Len(th[t].stack) - 1].l = l
      BY <1>1, <1>4, CallerLayer
    <3>2. PICK n \in Nat : n = Len(th[t].stack) /\ n > 1
      BY <1>1, <3>1, TopFacts
    <3>3. PICK q \in 1 .. n : q = n - 1 /\ th[t].stack[q].l = l
      BY <3>1, <3>2
    <3>4. t = "serve" => Top(t).l < l
      BY <1>1, <1>2, <1>6, StacksApart
    <3>5. t = "run" /\ u = "serve"
      BY <1>2, <1>6, <3>4 DEF Goroutines
    <3>6. FrameOK(t, q) /\ FrameOK(u, p) /\ Len(th[u].stack) \in Nat /\ Base \in Nat
      <4>1. FrameOK(t, q) /\ th[t].stack[1] \in Frames
        BY <1>1, <3>2, TopFacts
      <4>2. FrameOK(u, p)
        BY DEF Shape, StackOK
      <4>3. th[u].stack \in Seq(Frames)
        BY DEF Types, Threads
      <4> QED BY <3>5, <4>1, <4>2, <4>3, LenProperties DEF Base, Frames
    <3>7. l = 1 + p - 1 /\ l = Base + q - 1
      BY <1>2, <3>3, <3>5, <3>6 DEF FrameOK, Shape, Base
    <3>8. Len(th[u].stack) < Base
      BY <1>1, <3>5 DEF Shape, Alive
    <3> QED BY <3>6, <3>7, <3>8
  <2>2. l + 1 \in 1 .. Len(Layers)
    BY <1>4, LayerKinds DEF Types, ClientKinds
  <2> QED BY <2>1, <2>2, StepWork DEF OutcomeOf
<1> QED BY <1>2, <1>5, <1>6

(* The breakers of the layers.                                               *)
LEMMA StepTells ==
  ASSUME Types, Shape, BreakersOK, NEW t \in Goroutines, Step(t)
  PROVE  \A m \in 1 .. Len(Layers) : ToldOK(m)'
<1>1. /\ Alive(t) /\ config' = config /\ w' \in Works(Len(Layers))
      /\ (Return(t) => OutcomeOf(t)) /\ (~Return(t) => w'.out = w.out)
  BY StepWork DEF Step
<1>2. Layers' = Layers /\ Len(Layers) \in Nat
  BY <1>1, LayersKept, LayerKinds DEF Types
<1>3. PICK n \in Nat : /\ n = Len(th[t].stack) /\ n > 0 /\ Top(t) = th[t].stack[n]
                       /\ ReportsOK(t, n) /\ w.out[Top(t).l] = "none"
  <2>1. PICK n \in Nat : /\ n = Len(th[t].stack) /\ n > 0 /\ Top(t) = th[t].stack[n]
                         /\ w.out[Top(t).l] = "none"
    BY <1>1, TopFacts
  <2>2. n \in 1 .. Len(th[t].stack)
    BY <2>1
  <2> QED BY <2>1, <2>2 DEF BreakersOK
<1>4. PICK l \in 1 .. Len(Layers) : l = Top(t).l
  BY <1>1, TopFacts
<1>5. SUFFICES ASSUME NEW m \in 1 .. Len(Layers), Layers[m] \in {"gobreaker", "handybreaker"}
               PROVE  ToldOK(m)'
  BY <1>2 DEF ToldOK
<1>6. m + 1 \in 1 .. Len(Layers)
  BY <1>2, <1>5, LayerKinds DEF Types, ClientKinds
<1>7. /\ Verdict(m) = Judge(Layers[m], w.out[m + 1])
      /\ Verdict(m)' = Judge(Layers[m], w'.out[m + 1])
  BY <1>2, VerdictIs
<1>8. ToldOK(m)
  BY DEF BreakersOK
<1>9. CASE w'.told = w.told /\ w'.out = w.out
  <2>1. Verdict(m)' = Verdict(m)
    BY <1>7, <1>9
  <2> QED BY <1>2, <1>8, <1>9, <2>1 DEF ToldOK
<1>10. CASE /\ RunDeferred(t) /\ LastDeferred(t) = "report" /\ w'.out = w.out
            /\ \A k \in 1 .. Len(Layers) : k # Top(t).l => w'.told[k] = w.told[k]
  <2>1. Verdict(m)' = Verdict(m)
    BY <1>7, <1>10
  <2>2. Layers[l] = "handybreaker"
    <3>1. PICK k \in Nat : k = Len(Top(t).defers) /\ k > 0
      BY <1>10, RunDeferredEffect
    <3>2. k \in 1 .. Len(Top(t).defers) /\ Top(t).defers[k] = "report"
      BY <1>10, <3>1 DEF LastDeferred
    <3> QED BY <1>3, <1>4, <3>2 DEF ReportsOK
  <2>3. CASE m # l
    BY <1>2, <1>4, <1>8, <1>10, <2>1, <2>3 DEF ToldOK
  <2>4. CASE m = l
    <3>1. w'.out[m] = "none" /\ Layers[m] # "gobreaker"
      BY <1>3, <1>4, <1>10, <2>2, <2>4
    <3> QED BY <1>2, <3>1 DEF ToldOK
  <2> QED BY <2>3, <2>4
<1>11. CASE /\ Return(t) /\ OutcomeOf(t)
            /\ \A k \in 1 .. Len(Layers) :
                 w'.told[k] = IF k + 1 = Top(t).l /\ Layers[k] = "gobreaker"
                              THEN Append(w.told[k], IF th[t].res = "ok" THEN "success" ELSE "failure")
                              ELSE w.told[k]
  <2>1. /\ w'.out[m] = IF m = l THEN th[t].res ELSE w.out[m]
        /\ w'.out[m + 1] = IF m + 1 = l THEN th[t].res ELSE w.out[m + 1]
    BY <1>4, <1>6, <1>11 DEF OutcomeOf
  <2>2. CASE m + 1 = l /\ Layers[m] = "gobreaker"
    <3>1. w.told[m] = <<>>
      BY <1>3, <1>4, <1>7, <1>8, <2>2 DEF ToldOK, Judge
    <3>2. PICK r \in Results : r = th[t].res
      BY <1>1, TopFacts DEF Threads
    <3>3. w'.told[m] = Append(<<>>, IF r = "ok" THEN "success" ELSE "failure")
      BY <1>4, <1>11, <2>2, <3>1, <3>2
    <3>4. w'.told[m] = <<IF r = "ok" THEN "success" ELSE "failure">>
      BY <3>3
    <3>5. Judge(Layers[m], r) = <<IF r = "ok" THEN "success" ELSE "failure">>
      <4>1. CASE r = "ok" BY <2>2, <4>1 DEF Judge
      <4>2. CASE r = "err" BY <2>2, <4>2 DEF Judge
      <4>3. CASE r = "panic" BY <2>2, <4>3 DEF Judge
      <4> QED BY <4>1, <4>2, <4>3 DEF Results
    <3>6. w'.told[m] = Verdict(m)'
      BY <1>7, <2>1, <2>2, <3>2, <3>4, <3>5
    <3> QED BY <3>6 DEF ToldOK
  <2>3. CASE m + 1 = l /\ Layers[m] = "handybreaker"
    <3>1. Len(th[t].stack) > 1 /\ th[t].stack[Len(th[t].stack) - 1].l = m
      BY <1>1, <1>4, <2>3, CallerLayer
    <3>2. n - 1 \in 1 .. Len(th[t].stack) - 1
      BY <1>3, <3>1
    <3>3. w'.out[m] = "none"
      BY <1>1, <1>3, <1>11, <3>1, <3>2, CallerFacts
    <3> QED BY <1>2, <2>3, <3>3 DEF ToldOK
  <2>4. CASE m + 1 # l
    <3>1. w'.told[m] = w.told[m] /\ Verdict(m)' = Verdict(m)
      BY <1>4, <1>7, <1>11, <2>1, <2>4
    <3>2. CASE m # l
      BY <1>2, <1>8, <2>1, <3>1, <3>2 DEF ToldOK
    <3>3. CASE m = l
      <4>1. th[t].st = "unwind" /\ Top(t).defers = <<>>
        BY <1>11, ReturnEffect
      <4>2. <<>> # <<"report">>
        OBVIOUS
      <4>3. Layers[m] = "handybreaker" => w.told[m] = Verdict(m)
        BY <1>3, <1>4, <3>3, <4>1, <4>2 DEF ReportsOK
      <4> QED BY <1>2, <1>8, <3>1, <4>3 DEF ToldOK
    <3> QED BY <3>2, <3>3
  <2> QED BY <1>5, <2>2, <2>3, <2>4
<1> QED BY <1>9, <1>10, <1>11, StepTold

(* The frames of the goroutine that does not move, and those below the top.  *)
LEMMA ReportsKept ==
  ASSUME Types, Shape, BreakersOK, NEW t \in Goroutines, Step(t), NEW u \in Goroutines,
         NEW p \in 1 .. Len(th[u].stack),
         \/ u # t
         \/ p < Len(th[t].stack) /\ p < Len(th'[t].stack) /\ th'[t].stack[p] = th[t].stack[p]
  PROVE  ReportsOK(u, p)'
<1>1. /\ config' = config /\ Turn(t)
  BY StepEffects
<1>2. Layers' = Layers
  BY <1>1, LayersKept
<1>3. ReportsOK(u, p)
  BY DEF BreakersOK
<1>4. th'[u].stack[p] = th[u].stack[p]
  BY <1>1 DEF Turn
<1>5. PICK l \in 1 .. Len(Layers) : l = th[u].stack[p].l
  BY DEF Shape, StackOK, FrameOK
<1>6. Layers[l] = "handybreaker" =>
        /\ w'.told[l] = w.told[l]
        /\ u # t => w'.out[l + 1] = w.out[l + 1]
  BY <1>5, HandyKept
<1>7. CASE u # t
  <2>1. th'[u] = th[u]
    BY <1>1, <1>7 DEF Turn
  <2>2. Layers[l] = "handybreaker" => Verdict(l)' = Verdict(l)
    BY <1>2, <1>6, <1>7, VerdictIs
  <2> QED BY <1>2, <1>3, <1>5, <1>6, <1>7, <2>1, <2>2 DEF ReportsOK, Alive
<1>8. CASE u = t
  <2>1. p # Len(th[t].stack) /\ p # Len(th'[t].stack) /\ Alive(t)
    <3>1. th[t].stack \in Seq(Frames) /\ th'[t].stack \in Seq(Frames)
      BY <1>1 DEF Types, Turn, Threads
    <3> QED BY <1>8, <3>1, LenProperties, StepWork
  <2>2. /\ Layers[l] # "handybreaker" =>
             \A i \in 1 .. Len(th[t].stack[p].defers) : th[t].stack[p].defers[i] # "report"
        /\ Layers[l] = "handybreaker" =>
             /\ w.told[l] = <<>>
             /\ th[t].stack[p].defers = IF th[t].stack[p].pc = 3 THEN <<"report">> ELSE <<>>
    BY <1>3, <1>5, <1>8, <2>1 DEF ReportsOK
  <2> QED BY <1>2, <1>4, <1>5, <1>6, <1>8, <2>1, <2>2 DEF ReportsOK
<1> QED BY <1>7, <1>8

(* An element that two sequences lack is not in their concatenation.         *)
LEMMA ConcatWithout ==
  ASSUME NEW S, NEW a \in Seq(S), NEW b \in Seq(S), NEW x,
         \A i \in 1 .. Len(a) : a[i] # x, \A i \in 1 .. Len(b) : b[i] # x
  PROVE  \A i \in 1 .. Len(a \o b) : (a \o b)[i] # x
<1>1. PICK c \in Seq(S) : c = a \o b
  BY ConcatProperties
<1>2. PICK m \in Nat, n \in Nat : m = Len(a) /\ n = Len(b)
  BY LenProperties
<1>3. Len(c) = m + n /\ \A i \in 1 .. m + n : c[i] = IF i <= m THEN a[i] ELSE b[i - m]
  BY <1>1, <1>2, ConcatProperties
<1>4. ASSUME NEW i \in 1 .. m + n
      PROVE  c[i] # x
  <2>1. CASE i <= m
    <3>1. i \in 1 .. Len(a)
      BY <1>2, <2>1
    <3> QED BY <1>3, <2>1, <3>1
  <2>2. CASE ~(i <= m)
    <3>1. i - m \in 1 .. Len(b)
      BY <1>2, <2>2
    <3> QED BY <1>3, <2>2, <3>1
  <2> QED BY <2>1, <2>2
<1> QED BY <1>1, <1>3, <1>4

(* Where a goroutine is: the kind of its layer and the number of its stage.  *)
LEMMA AtStage ==
  ASSUME Types, Shape, NEW t \in Goroutines, Alive(t)
  PROVE  \E k \in Kinds : \E i \in 1 .. Len(Stages[k]) :
           k = Layers[Top(t).l] /\ i = Top(t).pc /\ Stage(t) = Stages[k][i]
<1>1. Layers[Top(t).l] \in Kinds /\ Top(t).pc \in 1 .. Len(Stages[Layers[Top(t).l]])
  BY TopFacts
<1> QED BY <1>1 DEF Stage

(* The three stages of the handy breaker.                                    *)
LEMMA AtHandyBreaker ==
  ASSUME Types, Shape, NEW t \in Goroutines, Alive(t), Layers[Top(t).l] = "handybreaker"
  PROVE  /\ Top(t).pc \in 1 .. 3
         /\ Stage(t) = IF Top(t).pc = 1 THEN "allow" ELSE IF Top(t).pc = 2 THEN "report" ELSE "call"
<1>1. PICK k \in Kinds : \E i \in 1 .. Len(Stages[k]) :
        k = Layers[Top(t).l] /\ i = Top(t).pc /\ Stage(t) = Stages[k][i]
  BY AtStage
<1>2. Stages[k] = <<"allow", "report", "call">>
  BY <1>1 DEF Stages, HandyBreaker
<1> QED BY <1>1, <1>2

(* The frame of the layer that moves.                                        *)
LEMMA DeferReports ==
  ASSUME Types, Shape, BreakersOK, NEW t \in Goroutines, Defer(t), config' = config
  PROVE  ReportsOK(t, Len(th[t].stack))'
<1>1. /\ Turn(t) /\ Advance(th[t], th'[t]) /\ w' = w /\ Stage(t) \in DeferStages
      /\ th'[t].stack[Len(th[t].stack)].defers = Top(t).defers \o Deferral(Stage(t))
  BY DeferEffect
<1>2. th[t].st = "run" /\ Alive(t) /\ Layers' = Layers
  BY <1>1, LayersKept DEF Advance, Alive
<1>3. PICK n \in Nat : /\ n = Len(th[t].stack) /\ n > 0 /\ Top(t) = th[t].stack[n]
                       /\ Top(t) \in Frames /\ n \in 1 .. Len(th[t].stack)
  <2>1. PICK n \in Nat : n = Len(th[t].stack) /\ n > 0 /\ Top(t) = th[t].stack[n] /\ Top(t) \in Frames
    BY <1>2, TopFacts
  <2>2. n \in 1 .. Len(th[t].stack)
    BY <2>1
  <2> QED BY <2>1, <2>2
<1>4. ReportsOK(t, n)
  BY <1>3 DEF BreakersOK
<1>5. /\ Len(th'[t].stack) = n /\ th'[t].stack[n].l = Top(t).l
      /\ Top(t).pc # Len(Stages[Layers[Top(t).l]]) =>
           th'[t].st = "run" /\ th'[t].stack[n].pc = Top(t).pc + 1
  BY <1>1, <1>3, Zenon DEF Advance
<1>6. PICK a \in Seq(DeferredCalls), b \in Seq(DeferredCalls) :
        a = Top(t).defers /\ b = Deferral(Stage(t))
  BY <1>1, <1>3, DeferralFacts, Zenon DEF Frames
<1>7. CASE Layers[Top(t).l] # "handybreaker"
  <2>1. \A i \in 1 .. Len(a) : a[i] # "report"
    BY <1>3, <1>4, <1>6, <1>7 DEF ReportsOK
  <2>2. Stage(t) # "report"
    BY <1>2, <1>7, AtStage, StageOwners
  <2>3. \A i \in 1 .. Len(b) : b[i] # "report"
    <3>1. CASE Stage(t) \in {"finalizer", "finish"}
      <4>1. b = <<Stage(t)>>
        BY <1>1, <1>6, <3>1, DeferralFacts
      <4> QED BY <2>2, <4>1
    <3>2. CASE Stage(t) \notin {"finalizer", "report", "finish"}
      BY <1>1, <1>6, <3>2, DeferralFacts, Zenon
    <3> QED BY <2>2, <3>1, <3>2
  <2>4. \A i \in 1 .. Len(a \o b) : (a \o b)[i] # "report"
    BY <2>1, <2>3, ConcatWithout
  <2>5. th'[t].stack[n].defers = a \o b
    BY <1>1, <1>3, <1>6, Zenon
  <2>6. PICK f : f = th'[t].stack[n]
    OBVIOUS
  <2>7. Layers'[f.l] # "handybreaker" /\ \A i \in 1 .. Len(f.defers) : f.defers[i] # "report"
    BY <1>2, <1>5, <1>7, <2>4, <2>5, <2>6, Zenon
  <2>8. ReportsOK(t, n)'
    BY <2>6, <2>7, Zenon DEF ReportsOK
  <2> QED BY <1>5, <2>8, Zenon
<1>8. CASE Layers[Top(t).l] = "handybreaker"
  <2>1. Top(t).pc = 2 /\ Stage(t) = "report" /\ Len(Stages[Layers[Top(t).l]]) = 3
    <3>1. Top(t).pc \in 1 .. 3
          /\ Stage(t) = IF Top(t).pc = 1 THEN "allow" ELSE IF Top(t).pc = 2 THEN "report" ELSE "call"
      BY <1>2, <1>8, AtHandyBreaker
    <3>2. Stage(t) # "allow" /\ Stage(t) # "call"
      BY <1>1 DEF DeferStages
    <3>3. Stages["handybreaker"] = <<"allow", "report", "call">>
      BY DEF Stages, HandyBreaker
    <3>4. Len(Stages["handybreaker"]) = 3
      BY <3>3
    <3> QED BY <1>8, <3>1, <3>2, <3>4
  <2>2. a = <<>> /\ w.told[Top(t).l] = <<>>
    BY <1>2, <1>3, <1>4, <1>6, <1>8, <2>1 DEF ReportsOK
  <2>3. b = <<"report">>
    BY <1>1, <1>6, <2>1, DeferralFacts
  <2>4. a \o b = <<"report">>
    BY <2>2, <2>3
  <2>5. th'[t].st = "run" /\ th'[t].stack[n].pc = 3
    BY <1>5, <2>1
  <2>6. th'[t].stack[n].defers = <<"report">>
    BY <1>1, <1>3, <1>6, <2>4
  <2> QED BY <1>1, <1>2, <1>3, <1>5, <1>8, <2>2, <2>5, <2>6, Zenon DEF ReportsOK
<1> QED BY <1>7, <1>8

(* The frame on top is in the stack.                                         *)
LEMMA TopAt ==
  ASSUME Types, Shape, NEW t \in Goroutines, Alive(t)
  PROVE  \E n \in Nat : /\ n = Len(th[t].stack) /\ n > 0 /\ Top(t) = th[t].stack[n]
                        /\ Top(t) \in Frames /\ n \in 1 .. Len(th[t].stack)
<1>1. PICK n \in Nat : n = Len(th[t].stack) /\ n > 0 /\ Top(t) = th[t].stack[n] /\ Top(t) \in Frames
  BY TopFacts
<1>2. n \in 1 .. Len(th[t].stack)
  BY <1>1
<1> QED BY <1>1, <1>2

(* The handy breaker after its allow.                                        *)
LEMMA PassReports ==
  ASSUME Types, Shape, BreakersOK, NEW t \in Goroutines, Pass(t), Step(t)
  PROVE  ReportsOK(t, Len(th[t].stack))'
<1>1. /\ Turn(t) /\ Advance(th[t], th'[t])
      /\ Stage(t) \notin DeferStages \cup {"call", "spawn", "wait"}
      /\ th'[t].stack[Len(th[t].stack)].defers = Top(t).defers
  BY PassEffect
<1>2. th[t].st = "run" /\ Alive(t) /\ Layers' = Layers
  BY <1>1, LayersKept DEF Advance, Alive, Step
<1>3. PICK n \in Nat : /\ n = Len(th[t].stack) /\ n > 0 /\ Top(t) = th[t].stack[n]
                       /\ n \in 1 .. Len(th[t].stack)
  BY <1>2, TopAt
<1>4. ReportsOK(t, n)
  BY <1>3 DEF BreakersOK
<1>5. /\ Len(th'[t].stack) = n /\ th'[t].stack[n].l = Top(t).l
      /\ Top(t).pc # Len(Stages[Layers[Top(t).l]]) =>
           th'[t].st = "run" /\ th'[t].stack[n].pc = Top(t).pc + 1
  BY <1>1, <1>3 DEF Advance
<1>6. ~Return(t) /\ ~RunDeferred(t)
  BY <1>2 DEF Return, RunDeferred
<1>7. w'.told = w.told
  BY <1>6, StepTold
<1>8. CASE Layers[Top(t).l] # "handybreaker"
  BY <1>1, <1>2, <1>3, <1>4, <1>5, <1>8, Zenon DEF ReportsOK
<1>9. CASE Layers[Top(t).l] = "handybreaker"
  <2>1. Top(t).pc = 1 /\ Len(Stages[Layers[Top(t).l]]) = 3
    BY <1>1, <1>2, <1>9, AtHandyBreaker DEF DeferStages, Stages, HandyBreaker
  <2>2. Top(t).defers = <<>> /\ w.told[Top(t).l] = <<>>
    BY <1>2, <1>3, <1>4, <1>9, <2>1 DEF ReportsOK
  <2>3. th'[t].st = "run" /\ th'[t].stack[n].pc = 2
    BY <1>5, <2>1
  <2> QED BY <1>1, <1>2, <1>3, <1>5, <1>7, <1>9, <2>2, <2>3 DEF ReportsOK
<1> QED BY <1>8, <1>9

(* The handy breaker that refuses reports nothing.                           *)
LEMMA FailReports ==
  ASSUME Types, Shape, Ahead, BreakersOK, NEW t \in Goroutines, Fail(t) \/ Panic(t), Step(t)
  PROVE  ReportsOK(t, Len(th[t].stack))'
<1>1. PICK r \in Results :
        GiveUp(th[t], th'[t], r) /\ Stage(t) \in Fallible \cup UserCode
  BY FailEffect, PanicEffect DEF Results
<1>2. /\ th[t].st = "run" /\ Alive(t) /\ Layers' = Layers
      /\ th'[t].st = "unwind" /\ th'[t].stack = th[t].stack
  BY <1>1, LayersKept DEF GiveUp, Alive, Step
<1>3. PICK n \in Nat : /\ n = Len(th[t].stack) /\ n > 0 /\ Top(t) = th[t].stack[n]
                       /\ n \in 1 .. Len(th[t].stack)
  BY <1>2, TopAt
<1>4. ReportsOK(t, n)
  BY <1>3 DEF BreakersOK
<1>5. ~Return(t) /\ ~RunDeferred(t)
  BY <1>2 DEF Return, RunDeferred
<1>6. w'.told = w.told /\ w'.out = w.out
  BY <1>5, StepTold
<1>7. CASE Layers[Top(t).l] # "handybreaker"
  BY <1>2, <1>3, <1>4, <1>7 DEF ReportsOK
<1>8. CASE Layers[Top(t).l] = "handybreaker"
  <2>1. Top(t).pc = 1 /\ CallAt[Layers[Top(t).l]] = 3
    BY <1>1, <1>2, <1>8, AtHandyBreaker DEF Fallible, UserCode, CallAt
  <2>2. Top(t).defers = <<>> /\ w.told[Top(t).l] = <<>>
    BY <1>2, <1>3, <1>4, <1>8, <2>1 DEF ReportsOK
  <2>3. PICK l \in 1 .. Len(Layers) : l = Top(t).l
    BY <1>2, TopFacts
  <2>4. l + 1 \in 1 .. Len(Layers) /\ l + 1 > l
    BY <1>8, <2>3, LayerKinds DEF Types, ClientKinds
  <2>5. Before(t)
    BY <1>2, <2>1 DEF Before
  <2>6. w.out[l + 1] = "none"
    BY <2>3, <2>4, <2>5 DEF Ahead, Fresh
  <2>7. Verdict(l)' = <<>>
    BY <1>6, <2>6, VerdictIs DEF Judge
  <2> QED BY <1>2, <1>3, <1>6, <1>8, <2>2, <2>3, <2>7 DEF ReportsOK
<1> QED BY <1>7, <1>8

(* The handy breaker in its call, with its report deferred.                  *)
LEMMA CallReports ==
  ASSUME Types, Shape, Ahead, BreakersOK, NEW t \in Goroutines, Call(t), config' = config
  PROVE  \E n \in Nat :
           /\ n = Len(th[t].stack) /\ Len(th'[t].stack) = n + 1
           /\ \A p \in 1 .. n : th'[t].stack[p] = th[t].stack[p]
           /\ ReportsOK(t, n)' /\ ReportsOK(t, n + 1)'
<1>1. Push(th[t], th'[t]) /\ w' = w /\ Stage(t) = "call"
  BY CallEffect
<1>2. th[t].st = "run" /\ Alive(t) /\ Layers' = Layers
  BY <1>1, LayersKept DEF Push, Alive
<1>3. PICK n \in Nat : /\ n = Len(th[t].stack) /\ n > 0 /\ Top(t) = th[t].stack[n]
                       /\ n \in 1 .. Len(th[t].stack)
  BY <1>2, TopAt
<1>4. ReportsOK(t, n)
  BY <1>3 DEF BreakersOK
<1>5. /\ Len(th'[t].stack) = n + 1 /\ th'[t].st = "run"
      /\ \A p \in 1 .. n : th'[t].stack[p] = th[t].stack[p]
      /\ th'[t].stack[n + 1].l = Top(t).l + 1 /\ th'[t].stack[n + 1].pc = 1
      /\ th'[t].stack[n + 1].defers = <<>>
  BY <1>1, <1>3 DEF Push
<1>6. ReportsOK(t, n)'
  <2>1. th'[t].stack[n] = th[t].stack[n]
    BY <1>3, <1>5
  <2> QED BY <1>1, <1>2, <1>4, <1>5, <2>1 DEF ReportsOK, Alive
<1>7. PICK l \in 1 .. Len(Layers) : l = Top(t).l
  BY <1>2, TopFacts
<1>8. Before(t) /\ StackOK(t)'
  BY <1>1, PushStack
<1>9. w.told[l + 1] = <<>>
  <2>1. PICK m \in 1 .. Len(Layers) : m = l + 1
    <3>0. n + 1 \in 1 .. Len(th'[t].stack)
      BY <1>5
    <3>1. th'[t].stack[n + 1].l \in 1 .. Len(Layers)
      BY <1>2, <1>8, <3>0 DEF StackOK, FrameOK
    <3> QED BY <1>5, <1>7, <3>1
  <2>2. m > l
    BY <2>1
  <2> QED BY <1>7, <1>8, <2>1, <2>2 DEF Ahead, Fresh
<1>10. ReportsOK(t, n + 1)'
  BY <1>1, <1>2, <1>5, <1>7, <1>9 DEF ReportsOK
<1> QED BY <1>3, <1>5, <1>6, <1>10

(* The handy breaker reports the outcome it got.                             *)
LEMMA RunDeferredReports ==
  ASSUME Types, Shape, BreakersOK, NEW t \in Goroutines, RunDeferred(t), Step(t)
  PROVE  ReportsOK(t, Len(th[t].stack))'
<1>1. /\ PopDefer(th[t], th'[t])
      /\ Len(Top(t).defers) \in Nat /\ Len(Top(t).defers) > 0
  BY RunDeferredEffect
<1>2. th[t].st = "unwind" /\ Alive(t) /\ Layers' = Layers
  BY <1>1, LayersKept DEF PopDefer, Alive, Step
<1>3. PICK n \in Nat : /\ n = Len(th[t].stack) /\ n > 0 /\ Top(t) = th[t].stack[n]
                       /\ Top(t) \in Frames /\ n \in 1 .. Len(th[t].stack)
  BY <1>2, TopAt
<1>4. ReportsOK(t, n)
  BY <1>3 DEF BreakersOK
<1>5. /\ Len(th'[t].stack) = n /\ th'[t].stack[n].l = Top(t).l /\ th'[t].st = "unwind"
      /\ th'[t].stack[n].defers = Front(Top(t).defers) /\ Top(t).defers # <<>>
  BY <1>1, <1>3 DEF PopDefer
<1>6. PICK d \in Seq(DeferredCalls) : d = Top(t).defers /\ Len(d) \in Nat /\ Len(d) > 0
  BY <1>1, <1>3 DEF Frames
<1>7. CASE Layers[Top(t).l] # "handybreaker"
  <2>1. \A i \in 1 .. Len(d) : d[i] # "report"
    BY <1>3, <1>4, <1>6, <1>7 DEF ReportsOK
  <2>2. Len(Front(d)) = Len(d) - 1 /\ \A i \in 1 .. Len(d) - 1 : Front(d)[i] = d[i]
    BY <1>6, FrontFacts
  <2>3. \A i \in 1 .. Len(Front(d)) : Front(d)[i] # "report"
    BY <1>6, <2>1, <2>2
  <2> QED BY <1>2, <1>3, <1>5, <1>6, <1>7, <2>3 DEF ReportsOK
<1>8. CASE Layers[Top(t).l] = "handybreaker"
  <2>1. w.told[Top(t).l] = <<>> /\ d = <<"report">> /\ w.out[Top(t).l + 1] = th[t].res
    BY <1>2, <1>3, <1>4, <1>5, <1>6, <1>8 DEF ReportsOK
  <2>2. Front(d) = <<>>
    BY <2>1 DEF Front
  <2>3. LastDeferred(t) = "report"
    BY <1>6, <2>1 DEF LastDeferred
  <2>4. ~Return(t)
    BY <1>5 DEF Return
  <2>5. PICK r \in Results : r = th[t].res
    BY <1>2, TopFacts DEF Threads
  <2>6. /\ w'.out = w.out
        /\ w'.told[Top(t).l] = Append(<<>>, IF r = "err" THEN "failure" ELSE "success")
    BY <2>1, <2>3, <2>4, <2>5, StepTold
  <2>7. w'.told[Top(t).l] = <<IF r = "err" THEN "failure" ELSE "success">>
    BY <2>6
  <2>8. Judge("handybreaker", r) = <<IF r = "err" THEN "failure" ELSE "success">>
    <3>1. CASE r = "ok" BY <3>1 DEF Judge
    <3>2. CASE r = "err" BY <3>2 DEF Judge
    <3>3. CASE r = "panic" BY <3>3 DEF Judge
    <3> QED BY <3>1, <3>2, <3>3 DEF Results
  <2>9. PICK l : l = Top(t).l
    OBVIOUS
  <2>10. Verdict(l)' = Judge("handybreaker", r)
    BY <1>2, <1>8, <2>1, <2>5, <2>6, <2>9, VerdictIs
  <2> QED BY <1>2, <1>3, <1>5, <1>6, <1>8, <2>2, <2>7, <2>8, <2>9, <2>10 DEF ReportsOK
<1> QED BY <1>7, <1>8

(* The handy breaker that gets an outcome has its report still to run.       *)
LEMMA ReturnReports ==
  ASSUME Types, Shape, BreakersOK, NEW t \in Goroutines, Return(t), Step(t)
  PROVE  \A p \in 1 .. Len(th'[t].stack) : ReportsOK(t, p)'
<1>1. /\ Turn(t) /\ config' = config /\ OutcomeOf(t)
      /\ End(th[t], th'[t]) \/ Drop(th[t], th'[t]) \/ Resume(th[t], th'[t])
  BY ReturnEffect, StepWork DEF Step
<1>2. Layers' = Layers
  BY <1>1, LayersKept
<1>3. th[t].st = "unwind" /\ Alive(t)
  BY DEF Return, Alive
<1>4. PICK n \in Nat : /\ n = Len(th[t].stack) /\ n > 0 /\ Top(t) = th[t].stack[n]
                       /\ n \in 1 .. Len(th[t].stack)
  BY <1>3, TopAt
<1>5. CASE End(th[t], th'[t])
  <2>1. /\ n = 1 /\ th'[t].st = "done" /\ th'[t].stack = th[t].stack
        /\ th[t].stack[1].defers = <<>>
    BY <1>4, <1>5 DEF End
  <2>2. ReportsOK(t, 1)'
    BY <1>2, <2>1 DEF ReportsOK, Alive
  <2>a. Len(th'[t].stack) = 1
    BY <1>4, <2>1
  <2>3. \A p \in 1 .. Len(th'[t].stack) : p = 1
    BY <2>a
  <2> QED BY <2>2, <2>3
<1>6. CASE Drop(th[t], th'[t]) \/ Resume(th[t], th'[t])
  <2>1. PICK q \in 1 .. n : q = n - 1 /\ n > 1 /\ q < n
    <3>1. n > 1
      BY <1>4, <1>6 DEF Drop, Resume
    <3>2. n - 1 \in 1 .. n /\ n - 1 < n
      BY <3>1
    <3> QED BY <3>1, <3>2
  <2>2. FrameOK(t, q) /\ q \in 1 .. Len(th[t].stack) /\ q < Len(th[t].stack)
    BY <1>3, <1>4, <2>1, TopFacts
  <2>3. /\ Len(th'[t].stack) = q /\ th'[t].res = th[t].res
        /\ th'[t].stack[q].l = th[t].stack[q].l
        /\ th'[t].stack[q].defers = th[t].stack[q].defers
        /\ \A p \in 1 .. q - 1 : th'[t].stack[p] = th[t].stack[p]
        /\ th[t].stack[q].pc = Len(Stages[Layers[th[t].stack[q].l]]) => th'[t].st = "unwind"
    <3>1. CASE Drop(th[t], th'[t])
      <4>1. /\ Len(th'[t].stack) = q /\ th'[t].res = th[t].res /\ th'[t].st = "unwind"
            /\ \A p \in 1 .. q : th'[t].stack[p] = th[t].stack[p]
        BY <1>4, <2>1, <3>1 DEF Drop
      <4>2. q \in 1 .. q
        BY <2>1
      <4>3. th'[t].stack[q] = th[t].stack[q] /\ \A p \in 1 .. q - 1 : th'[t].stack[p] = th[t].stack[p]
        BY <4>1, <4>2
      <4> QED BY <4>1, <4>3
    <3>2. CASE Resume(th[t], th'[t])
      <4>1. /\ Len(th'[t].stack) = q /\ th'[t].res = th[t].res
            /\ th'[t].stack[q].l = th[t].stack[q].l
            /\ th'[t].stack[q].defers = th[t].stack[q].defers
            /\ th[t].stack[q].pc = Len(Stages[Layers[th[t].stack[q].l]]) => th'[t].st = "unwind"
        <5>1. n = Len(th[t].stack)
          BY <1>4
        <5> QED BY <2>1, <3>2, <5>1, Zenon DEF Resume
      <4>2. \A p \in 1 .. n - 2 : th'[t].stack[p] = th[t].stack[p]
        BY <1>4, <3>2 DEF Resume
      <4>3. q - 1 = n - 2
        BY <2>1
      <4> QED BY <4>1, <4>2, <4>3
    <3> QED BY <1>6, <3>1, <3>2
  <2>4. PICK l \in 1 .. Len(Layers) : l = th[t].stack[q].l
    BY <2>2 DEF FrameOK
  <2>5. ReportsOK(t, q)
    BY <2>2 DEF BreakersOK
  <2>a. SUFFICES ReportsOK(t, q)'
    <3>1. ASSUME NEW p \in 1 .. q - 1
          PROVE  ReportsOK(t, p)'
      <4>1. /\ p \in 1 .. Len(th[t].stack) /\ p < Len(th[t].stack) /\ p < Len(th'[t].stack)
            /\ th'[t].stack[p] = th[t].stack[p]
        <5>1. p \in 1 .. n /\ p < n /\ p < q
          BY <2>1
        <5> QED BY <1>4, <2>3, <5>1, Zenon
      <4> QED BY <4>1, ReportsKept
    <3>2. \A p \in 1 .. Len(th'[t].stack) : p = q \/ p \in 1 .. q - 1
      BY <2>3
    <3> QED BY <3>1, <3>2
  <2>6. CASE Layers[l] # "handybreaker"
    <3>1. \A i \in 1 .. Len(th[t].stack[q].defers) : th[t].stack[q].defers[i] # "report"
      BY <2>4, <2>5, <2>6 DEF ReportsOK
    <3> QED BY <1>2, <2>3, <2>4, <2>6, <3>1 DEF ReportsOK
  <2>7. CASE Layers[l] = "handybreaker"
    <3>1. th[t].stack[q].pc = 3 /\ Len(Stages[Layers[l]]) = 3
      BY <2>2, <2>4, <2>7 DEF FrameOK, CallAt, Stages, HandyBreaker
    <3>2. w.told[l] = <<>> /\ th[t].stack[q].defers = <<"report">>
      <4>1. q # Len(th[t].stack)
        BY <1>4, <2>1
      <4> QED BY <1>3, <2>4, <2>5, <2>7, <3>1, <4>1 DEF ReportsOK
    <3>3. th'[t].st = "unwind"
      BY <2>3, <2>4, <3>1
    <3>4. w'.told[l] = w.told[l]
      BY <2>2, <2>4, <2>7, HandyKept
    <3>5. w'.out[l + 1] = th'[t].res
      <4>1. l + 1 = Top(t).l /\ l + 1 \in 1 .. Len(Layers)
        <5>0. 1 \in 1 .. Len(th[t].stack)
          BY <1>4
        <5>1. PICK a \in Nat : a = th[t].stack[1].l
          BY <1>3, <5>0, TopFacts DEF Frames
        <5>2. FrameOK(t, n)
          BY <1>3, <1>4, TopFacts
        <5>3. l = a + q - 1 /\ Top(t).l = a + n - 1 /\ Top(t).l \in 1 .. Len(Layers)
          BY <1>4, <2>2, <2>4, <5>1, <5>2 DEF FrameOK
        <5>4. a + q - 1 + 1 = a + n - 1
          BY <2>1
        <5> QED BY <5>3, <5>4
      <4> QED BY <1>1, <2>3, <4>1 DEF OutcomeOf
    <3> QED BY <1>2, <2>3, <2>4, <2>7, <3>2, <3>3, <3>4, <3>5 DEF ReportsOK
  <2> QED BY <2>6, <2>7
<1> QED BY <1>1, <1>5, <1>6

(* Every step of a goroutine keeps the invariant of the breakers.            *)
LEMMA StepBreakers ==
  ASSUME Types, Shape, Ahead, BreakersOK, NEW t \in Goroutines, Step(t)
  PROVE  BreakersOK'
<1>1. Turn(t) /\ config' = config /\ Alive(t)
  BY StepEffects, StepWork
<1>2. Layers' = Layers
  BY <1>1, LayersKept
<1>3. \A m \in 1 .. Len(Layers) : ToldOK(m)'
  BY StepTells
<1>4. ASSUME NEW u \in Goroutines, u # t, NEW p \in 1 .. Len(th'[u].stack)
      PROVE  ReportsOK(u, p)'
  <2>1. th'[u] = th[u]
    BY <1>1, <1>4 DEF Turn
  <2> QED BY <1>4, <2>1, ReportsKept
<1>a. SUFFICES \A p \in 1 .. Len(th'[t].stack) : ReportsOK(t, p)'
  <2>1. ASSUME \A p \in 1 .. Len(th'[t].stack) : ReportsOK(t, p)'
        PROVE  \A u \in Goroutines : \A p \in 1 .. Len(th'[u].stack) : ReportsOK(u, p)'
    BY <1>4, <2>1
  <2> QED BY <1>2, <1>3, <2>1 DEF BreakersOK
<1>5. PICK n \in Nat : /\ n = Len(th[t].stack) /\ n > 0 /\ Top(t) = th[t].stack[n]
                       /\ n \in 1 .. Len(th[t].stack)
  BY <1>1, TopAt
<1>6. CASE /\ Len(th'[t].stack) = n
           /\ \A p \in 1 .. n - 1 : th'[t].stack[p] = th[t].stack[p]
           /\ ReportsOK(t, n)'
  <2>1. ASSUME NEW p \in 1 .. n - 1
        PROVE  ReportsOK(t, p)'
    <3>1. /\ p \in 1 .. Len(th[t].stack) /\ p < Len(th[t].stack) /\ p < Len(th'[t].stack)
          /\ th'[t].stack[p] = th[t].stack[p]
      BY <1>5, <1>6
    <3> QED BY <3>1, ReportsKept
  <2>2. \A p \in 1 .. n : p = n \/ p \in 1 .. n - 1
    BY <1>5
  <2> QED BY <1>6, <2>1, <2>2
<1>7. CASE Call(t)
  <2>1. /\ Len(th'[t].stack) = n + 1
        /\ \A p \in 1 .. n : th'[t].stack[p] = th[t].stack[p]
        /\ ReportsOK(t, n)' /\ ReportsOK(t, n + 1)'
    BY <1>1, <1>5, <1>7, CallReports
  <2>2. ASSUME NEW p \in 1 .. n - 1
        PROVE  ReportsOK(t, p)'
    <3>1. /\ p \in 1 .. Len(th[t].stack) /\ p < Len(th[t].stack) /\ p < Len(th'[t].stack)
          /\ th'[t].stack[p] = th[t].stack[p]
      BY <1>5, <2>1
    <3> QED BY <3>1, ReportsKept
  <2>3. \A p \in 1 .. n + 1 : p = n + 1 \/ p = n \/ p \in 1 .. n - 1
    BY <1>5
  <2> QED BY <2>1, <2>2, <2>3
<1>8. CASE Return(t)
  BY <1>8, ReturnReports
<1>9. CASE Defer(t) \/ Pass(t)
  <2>1. Advance(th[t], th'[t]) /\ ReportsOK(t, Len(th[t].stack))'
    BY <1>1, <1>9, DeferEffect, PassEffect, DeferReports, PassReports
  <2>2. Len(th'[t].stack) = n /\ \A p \in 1 .. n - 1 : th'[t].stack[p] = th[t].stack[p]
    BY <1>5, <2>1 DEF Advance
  <2>3. ReportsOK(t, n)'
    BY <2>1, <2>2
  <2> QED BY <1>6, <2>2, <2>3
<1>10. CASE Fail(t) \/ Panic(t)
  <2>1. ReportsOK(t, Len(th[t].stack))' /\ \E r : GiveUp(th[t], th'[t], r)
    BY <1>10, FailEffect, PanicEffect, FailReports
  <2>2. th'[t].stack = th[t].stack
    BY <2>1 DEF GiveUp
  <2>3. ReportsOK(t, n)'
    BY <1>5, <2>1, <2>2
  <2> QED BY <1>5, <1>6, <2>2, <2>3
<1>11. CASE RunDeferred(t)
  <2>1. PopDefer(th[t], th'[t]) /\ ReportsOK(t, Len(th[t].stack))'
    BY <1>11, RunDeferredEffect, RunDeferredReports
  <2>2. Len(th'[t].stack) = n /\ \A p \in 1 .. n - 1 : th'[t].stack[p] = th[t].stack[p]
    BY <1>5, <2>1 DEF PopDefer
  <2>3. ReportsOK(t, n)'
    BY <2>1, <2>2
  <2> QED BY <1>6, <2>2, <2>3
<1> QED BY <1>7, <1>8, <1>9, <1>10, <1>11 DEF Step

(* Hystrix moves on in its own frame, and leaves the work alone.             *)
LEMMA HystrixKeeps ==
  ASSUME Types, Shape, HystrixGo \/ HystrixReturns \/ HystrixTimeout, config' = config
  PROVE  \E n \in Nat :
           /\ n = Len(th["serve"].stack) /\ Len(th'["serve"].stack) = n /\ n > 0
           /\ th["serve"].st = "run" /\ th'["serve"].st \in {"run", "unwind"}
           /\ Layers[th["serve"].stack[n].l] = "hystrix"
           /\ \A p \in 1 .. n - 1 : th'["serve"].stack[p] = th["serve"].stack[p]
           /\ th'["serve"].stack[n].l = th["serve"].stack[n].l
           /\ th'["serve"].stack[n].defers = th["serve"].stack[n].defers
           /\ w'.told = w.told /\ w'.out = w.out /\ w'.span = w.span /\ SameAnswer(w, w')
           /\ th["serve"].stack[n] = Top("serve") /\ n > 1
<1>1. th["serve"].st = "run" /\ Stage("serve") \in {"spawn", "wait"}
  BY DEF HystrixGo, HystrixReturns, HystrixTimeout, Running
<1>2. Layers[Top("serve").l] = "hystrix" /\ Top("serve").l > 1 /\ Top("serve").l = Len(th["serve"].stack)
  BY <1>1, AtHystrix
<1>3. PICK n \in Nat : n = Len(th["serve"].stack) /\ n > 0 /\ Top("serve") = th["serve"].stack[n]
  BY <1>1, TopAt DEF Goroutines, Alive
<1>a. n > 1
  BY <1>2, <1>3
<1>4. CASE HystrixGo
  <2>1. /\ w' = w /\ Advance(th["serve"], th'["serve"])
        /\ th'["serve"].stack[Len(th["serve"].stack)].defers = Top("serve").defers
    BY <1>4, GoEffect
  <2>2. /\ Len(th'["serve"].stack) = n /\ th'["serve"].st \in {"run", "unwind"}
        /\ \A p \in 1 .. n - 1 : th'["serve"].stack[p] = th["serve"].stack[p]
        /\ th'["serve"].stack[n].l = th["serve"].stack[n].l
    BY <1>3, <2>1 DEF Advance
  <2> QED BY <1>1, <1>2, <1>3, <1>a, <2>1, <2>2 DEF SameAnswer
<1>5. CASE HystrixReturns \/ HystrixTimeout
  <2>1. /\ SameWork
        /\ \/ /\ Advance(th["serve"], th'["serve"])
              /\ th'["serve"].stack[Len(th["serve"].stack)].defers = Top("serve").defers
           \/ GiveUp(th["serve"], th'["serve"], "err")
    BY <1>5, WaitEffect
  <2>2. w'.told = w.told /\ w'.out = w.out /\ w'.span = w.span /\ SameAnswer(w, w')
    BY <2>1 DEF SameWork, SameCalls
  <2>3. CASE /\ Advance(th["serve"], th'["serve"])
             /\ th'["serve"].stack[Len(th["serve"].stack)].defers = Top("serve").defers
    <3>1. /\ Len(th'["serve"].stack) = n /\ th'["serve"].st \in {"run", "unwind"}
          /\ \A p \in 1 .. n - 1 : th'["serve"].stack[p] = th["serve"].stack[p]
          /\ th'["serve"].stack[n].l = th["serve"].stack[n].l
      BY <1>3, <2>3 DEF Advance
    <3> QED BY <1>1, <1>2, <1>3, <1>a, <2>2, <2>3, <3>1
  <2>4. CASE GiveUp(th["serve"], th'["serve"], "err")
    <3>1. th'["serve"].stack = th["serve"].stack /\ th'["serve"].st = "unwind"
      BY <2>4 DEF GiveUp
    <3> QED BY <1>1, <1>2, <1>3, <1>a, <2>2, <3>1
  <2> QED BY <2>1, <2>3, <2>4
<1> QED BY <1>4, <1>5

(* Hystrix keeps the invariant of the breakers.                              *)
LEMMA HystrixBreakers ==
  ASSUME Types, Shape, Ahead, BreakersOK, HystrixGo \/ HystrixReturns \/ HystrixTimeout,
         config' = config
  PROVE  BreakersOK'
<1>1. PICK n \in Nat :
        /\ n = Len(th["serve"].stack) /\ Len(th'["serve"].stack) = n /\ n > 0
        /\ th["serve"].st = "run" /\ th'["serve"].st \in {"run", "unwind"}
        /\ Layers[th["serve"].stack[n].l] = "hystrix"
        /\ \A p \in 1 .. n - 1 : th'["serve"].stack[p] = th["serve"].stack[p]
        /\ th'["serve"].stack[n].l = th["serve"].stack[n].l
        /\ th'["serve"].stack[n].defers = th["serve"].stack[n].defers
        /\ w'.told = w.told /\ w'.out = w.out
        /\ th["serve"].stack[n] = Top("serve")
  BY HystrixKeeps
<1>2. Layers' = Layers
  BY LayersKept
<1>3. \A l : Verdict(l)' = Verdict(l)
  BY <1>1, <1>2, VerdictIs
<1>4. \A l \in 1 .. Len(Layers) : ToldOK(l)'
  BY <1>1, <1>2, <1>3 DEF BreakersOK, ToldOK
<1>5. ASSUME NEW p \in 1 .. n
      PROVE  ReportsOK("serve", p)'
  <2>1. ReportsOK("serve", p)
    BY <1>1 DEF BreakersOK, Goroutines
  <2>2. CASE p = n
    BY <1>1, <1>2, <2>1, <2>2, Zenon DEF ReportsOK
  <2>3. CASE p # n
    <3>1. th'["serve"].stack[p] = th["serve"].stack[p]
      BY <1>1, <2>3
    <3> QED BY <1>1, <1>2, <2>1, <2>3, <3>1 DEF ReportsOK, Alive
  <2> QED BY <2>2, <2>3
<1>6. ASSUME NEW p \in 1 .. Len(th'["run"].stack)
      PROVE  ReportsOK("run", p)'
  <2>1. CASE HystrixGo
    <3>1. /\ th'["run"].st = "run" /\ Len(th'["run"].stack) = 1
          /\ th'["run"].stack[1].l = Top("serve").l + 1 /\ th'["run"].stack[1].pc = 1
          /\ th'["run"].stack[1].defers = <<>>
      BY <2>1, GoEffect
    <3>2. p = 1
      BY <1>6, <3>1
    <3>3. /\ Top("serve").pc = 1 /\ Layers[Top("serve").l] = "hystrix" /\ CallAt["hystrix"] = 1
          /\ Top("serve").l \in Nat /\ Top("serve").l < Len(Layers)
      <4>1. th["serve"].st = "run" /\ Stage("serve") = "spawn"
        BY <2>1, GoEffect
      <4>2. Top("serve").l \in Nat
        BY <4>1, TopFacts DEF Goroutines, Alive, Frames
      <4> QED BY <4>1, <4>2, AtHystrix
    <3>4. Before("serve")
      BY <1>1, <3>3 DEF Before
    <3>5. PICK m \in 1 .. Len(Layers) : m = Top("serve").l + 1 /\ m > Top("serve").l
      <4>1. Top("serve").l + 1 \in 1 .. Len(Layers) /\ Top("serve").l + 1 > Top("serve").l
        BY <3>3, LayerKinds DEF Types
      <4> QED BY <4>1
    <3>6. w.told[m] = <<>>
      BY <3>4, <3>5 DEF Ahead, Fresh, Goroutines
    <3> QED BY <1>1, <1>2, <3>1, <3>2, <3>5, <3>6 DEF ReportsOK
  <2>2. CASE HystrixReturns \/ HystrixTimeout
    <3>1. th'["run"] = th["run"]
      BY <2>2, WaitEffect DEF Turn, Goroutines
    <3>2. ReportsOK("run", p)
      BY <1>6, <3>1 DEF BreakersOK, Goroutines
    <3> QED BY <1>1, <1>2, <1>3, <3>1, <3>2 DEF ReportsOK, Alive
  <2> QED BY <2>1, <2>2
<1>7. \A u \in Goroutines : \A p \in 1 .. Len(th'[u].stack) : ReportsOK(u, p)'
  BY <1>1, <1>5, <1>6 DEF Goroutines
<1> QED BY <1>2, <1>4, <1>7 DEF BreakersOK

(* A step that changes neither frames nor reports keeps the invariant.       *)
LEMMA SameBreakers ==
  ASSUME BreakersOK, config' = config, th' = th, w'.told = w.told, w'.out = w.out
  PROVE  BreakersOK'
<1>1. Layers' = Layers
  BY LayersKept
<1>2. \A l : Verdict(l)' = Verdict(l)
  BY <1>1, VerdictIs
<1>3. \A l \in 1 .. Len(Layers) : ToldOK(l)'
  BY <1>1, <1>2 DEF BreakersOK, ToldOK
<1>4. ASSUME NEW u \in Goroutines, NEW p \in 1 .. Len(th'[u].stack)
      PROVE  ReportsOK(u, p)'
  <2>1. ReportsOK(u, p)
    BY <1>4 DEF BreakersOK
  <2> QED BY <1>1, <1>2, <2>1, Zenon DEF ReportsOK, Alive
<1> QED BY <1>1, <1>3, <1>4 DEF BreakersOK

(* The invariant of the breakers holds at the start.                         *)
LEMMA InitBreakers ==
  ASSUME Init
  PROVE  BreakersOK
<1>1. Types /\ Shape
  BY InitShape
<1>2. PICK n \in Nat : n = Len(Layers) /\ DOMAIN Layers = 1 .. n
  BY <1>1, LayerKinds, Zenon DEF Types
<1>3. \A m \in 1 .. n : w.out[m] = "none" /\ w.told[m] = <<>>
  BY <1>2 DEF Init
<1>4. ASSUME NEW m \in 1 .. n
      PROVE  ToldOK(m)
  <2> SUFFICES ASSUME Layers[m] = "gobreaker" PROVE w.told[m] = Verdict(m)
    BY <1>3 DEF ToldOK
  <2>1. m + 1 \in 1 .. n
    BY <1>1, <1>2, LayerKinds DEF Types, ClientKinds
  <2> QED BY <1>3, <2>1 DEF Verdict
<1>5. /\ th["serve"].stack = <<Frame(1)>> /\ th["run"].stack = <<>> /\ th["serve"].st = "run"
      /\ Frame(1).l = 1 /\ Frame(1).defers = <<>>
  BY DEF Init, Started, Idle, Goroutines, Frame
<1>6. ReportsOK("serve", 1)
  <2>1. Layers[1] # "handybreaker"
    BY <1>1, LayerKinds DEF Types, ServerKinds
  <2> QED BY <1>5, <2>1 DEF ReportsOK
<1>7. Len(th["serve"].stack) = 1 /\ Len(th["run"].stack) = 0
  BY <1>5
<1>8. \A p \in 1 .. Len(th["serve"].stack) : ReportsOK("serve", p)
  BY <1>6, <1>7
<1>9. \A p \in 1 .. Len(th["run"].stack) : ReportsOK("run", p)
  BY <1>7
<1> QED BY <1>2, <1>4, <1>8, <1>9 DEF BreakersOK, Goroutines

(* Every step keeps the invariant of the breakers.                           *)
LEMMA NextBreakers ==
  ASSUME Types, Shape, Ahead, BreakersOK, [Next]_vars
  PROVE  BreakersOK'
<1>1. ASSUME NEW t \in Goroutines, Step(t)
      PROVE  BreakersOK'
  BY <1>1, StepBreakers
<1>2. CASE HystrixStep
  BY <1>2, HystrixBreakers DEF HystrixStep
<1>3. CASE HystrixTimeout /\ UNCHANGED config
  BY <1>3, HystrixBreakers
<1>4. CASE Closes
  <2>1. config' = config /\ th' = th /\ w'.told = w.told /\ w'.out = w.out
    BY <1>4, ClosesFacts DEF Closes, SameWork, SameCalls
  <2> QED BY <2>1, SameBreakers
<1>5. CASE UNCHANGED vars
  BY <1>5, SameBreakers DEF vars
<1> QED BY <1>1, <1>2, <1>3, <1>4, <1>5 DEF Next

(* The request walks down its layers and back: what the goroutines have on   *)
(* their stacks is a run of consecutive layers, each caller still in its     *)
(* call, and no layer is entered before the one outside it calls, for every  *)
(* server, chain with one Hystrix at most, and client.                       *)
THEOREM RequestShape == Spec => [](Types /\ Shape /\ Ahead)
<1>1. Init => Types /\ Shape /\ Ahead
  BY InitShape
<1>2. (Types /\ Shape /\ Ahead) /\ [Next]_vars => (Types /\ Shape /\ Ahead)'
  BY NextShape
<1> QED BY <1>1, <1>2, PTL DEF Spec

(* A circuit breaker has been told the outcome of the wrapped endpoint once, *)
(* and nothing of a call it refused (src/circuitbreaker/handy_breaker.go,    *)
(* gobreaker.go), wherever in whatever chain it is and however Hystrix       *)
(* interleaves.                                                              *)
THEOREM BreakersAreTold == Spec => []BreakerTold
<1>1. Init => (Types /\ Shape /\ Ahead) /\ BreakersOK
  BY InitShape, InitBreakers
<1>2. (Types /\ Shape /\ Ahead) /\ BreakersOK /\ [Next]_vars =>
        (Types /\ Shape /\ Ahead)' /\ BreakersOK'
  BY NextShape, NextBreakers
<1>3. Types /\ BreakersOK => BreakerTold
  <2> SUFFICES ASSUME Types, BreakersOK PROVE BreakerTold
    OBVIOUS
  <2>1. DOMAIN Layers = 1 .. Len(Layers)
    BY LayerKinds DEF Types
  <2> QED BY <2>1 DEF BreakerTold, BreakersOK, ToldOK
<1> QED BY <1>1, <1>2, <1>3, PTL DEF Spec


-----------------------------------------------------------------------------

(* The answer. A server that has not failed has written nothing before its   *)
(* last stage; once it unwinds, what it has written follows from its result, *)
(* and only its finalizer and, for gRPC, its return are left.                *)
FinalizerAt(k) == IF k = "jsonrpc" THEN 2 ELSE 1
Quiet(x) == x.sent = 0 /\ x.code = 200 /\ x.ans = {} /\ x.handled = 0
Unfinalized(x) == x.finalized[1] = 0 /\ x.saw = 0
Answered(x, res) ==
  /\ res = "ok" =>
       /\ x.handled = 0 /\ x.code = 200
       /\ Server # "grpc" => x.sent = 200
       /\ Server # "grpc" => \/ x.ans = {"result"}
                             \/ x.ans = {} /\ Server = "jsonrpc" /\ x.out[2] = "ok"
  /\ res = "err" =>
       /\ x.handled = 1
       /\ Server = "http" => \/ x.ans = {"error"} /\ x.sent = 500 /\ x.code = 500
                             \/ "error" \in x.ans /\ x.out[2] = "ok" /\ x.sent = 200
       /\ Server = "fasthttp" => x.ans = {"error"} /\ x.sent = 500 /\ x.code = 500
       /\ Server = "jsonrpc" => x.ans = {"error"} /\ x.sent = 200 /\ x.code = 200
       /\ Server = "grpc" => x.code = 500
  /\ res = "panic" =>
       /\ x.code = 200 /\ x.handled = 0
       /\ Server # "grpc" => x.sent = 0 \/ x.sent = 200
       /\ Server # "grpc" => \/ x.ans = {}
                             \/ /\ x.ans = {"result"} /\ x.out[2] = "ok"
                                /\ Server = "http" \/ Server = "fasthttp"

Serving == th["serve"].st = "run" \/ Len(th["serve"].stack) > 1
TurnedAway == Server = "jsonrpc" /\ th["serve"].stack[1].pc = 1
ServingOK ==
  LET f == th["serve"].stack[1] IN
  /\ Quiet(w) /\ Unfinalized(w)
  /\ f.defers = IF f.pc > FinalizerAt(Server) THEN <<"finalizer">> ELSE <<>>
  /\ Len(th["serve"].stack) = 1 /\ f.pc > CallAt[Server] => w.out[2] = "ok"
RefusedOK ==
  /\ w.sent = 405 /\ w.ans = {"error"} /\ w.handled = 0 /\ Unfinalized(w)
  /\ Server = "jsonrpc" /\ th["serve"].res = "err" /\ th["serve"].stack[1].defers = <<>>
UnwoundOK ==
  LET f == th["serve"].stack[1]
      res == th["serve"].res
  IN  /\ Answered(w, res)
      /\ \/ Unfinalized(w) /\ f.defers = <<"finalizer">>
         \/ w.finalized[1] = 1 /\ w.saw = w.code /\ f.defers = <<>>
      /\ Server = "grpc" =>
           IF th["serve"].st = "done" /\ res # "panic"
           THEN w.sent = w.code /\ w.ans = {IF res = "ok" THEN "result" ELSE "error"}
           ELSE w.sent = 0 /\ w.ans = {}
ServerOK ==
  Server # "main" =>
    /\ Serving => ServingOK
    /\ ~Serving => IF TurnedAway THEN RefusedOK ELSE UnwoundOK
    /\ th["serve"].st = "done" => w.out[1] = th["serve"].res

(* The stages of a server that matter to its answer.                         *)
LEMMA ServerStages ==
  \A k \in ServerKinds \ {"main"} :
    /\ Len(Stages[k]) \in Nat /\ CallAt[k] \in Nat
    /\ FinalizerAt(k) \in 1 .. 2 /\ FinalizerAt(k) < CallAt[k] /\ CallAt[k] < Len(Stages[k])
    /\ CallAt[k] > 2 /\ FinalizerAt(k) < Len(Stages[k])
    /\ \A i \in 1 .. Len(Stages[k]) :
         /\ Stages[k][i] \in DeferStages <=> i = FinalizerAt(k)
         /\ i = FinalizerAt(k) => Stages[k][i] = "finalizer"
         /\ Stages[k][i] = "post" <=> k = "jsonrpc" /\ i = 1
         /\ Stages[k][i] \in Fallible \cup UserCode => i > FinalizerAt(k) \/ Stages[k][i] = "post"
         /\ Stages[k][i] = "respond" <=> k \in {"http", "fasthttp"} /\ i = Len(Stages[k])
         /\ Stages[k][i] = "write" <=> k = "jsonrpc" /\ i = Len(Stages[k])
         /\ Stages[k][i] \in {"call", "spawn", "wait"} => i = CallAt[k]
<1> SUFFICES ASSUME NEW k \in ServerKinds \ {"main"}
             PROVE  /\ Len(Stages[k]) \in Nat /\ CallAt[k] \in Nat
                    /\ FinalizerAt(k) \in 1 .. 2 /\ FinalizerAt(k) < CallAt[k] /\ CallAt[k] < Len(Stages[k])
                    /\ CallAt[k] > 2 /\ FinalizerAt(k) < Len(Stages[k])
                    /\ \A i \in 1 .. Len(Stages[k]) :
                         /\ Stages[k][i] \in DeferStages <=> i = FinalizerAt(k)
                         /\ i = FinalizerAt(k) => Stages[k][i] = "finalizer"
                         /\ Stages[k][i] = "post" <=> k = "jsonrpc" /\ i = 1
                         /\ Stages[k][i] \in Fallible \cup UserCode => i > FinalizerAt(k) \/ Stages[k][i] = "post"
                         /\ Stages[k][i] = "respond" <=> k \in {"http", "fasthttp"} /\ i = Len(Stages[k])
                         /\ Stages[k][i] = "write" <=> k = "jsonrpc" /\ i = Len(Stages[k])
                         /\ Stages[k][i] \in {"call", "spawn", "wait"} => i = CallAt[k]
  OBVIOUS
<1> USE DEF Stages, CallAt, FinalizerAt, DeferStages, Fallible, UserCode
<1>1. CASE k = "http" BY <1>1 DEF HttpServer
<1>2. CASE k = "jsonrpc" BY <1>2 DEF JsonrpcServer
<1>3. CASE k = "grpc" BY <1>3 DEF GrpcServer
<1>4. CASE k = "fasthttp" BY <1>4 DEF FasthttpServer
<1> QED BY <1>1, <1>2, <1>3, <1>4 DEF ServerKinds

(* The first frame of "serve" is the server's.                               *)
LEMMA ServerFrame ==
  ASSUME Types, Shape
  PROVE  \E n \in Nat :
           /\ n = Len(th["serve"].stack) /\ n > 0 /\ 1 \in 1 .. Len(th["serve"].stack)
           /\ th["serve"] \in Threads
           /\ th["serve"].stack[1] \in Frames /\ th["serve"].stack[1].l = 1
           /\ Layers[1] = Server /\ Server \in ServerKinds
           /\ th["serve"].stack[1].pc \in 1 .. Len(Stages[Server])
           /\ n > 1 => th["serve"].stack[1].pc = CallAt[Server]
           /\ Top("serve") = th["serve"].stack[n]
           /\ Alive("serve") => Top("serve").l = n
           /\ th["serve"].st = "done" => n = 1 /\ th["serve"].stack[1].defers = <<>>
           /\ Alive("serve") => w.out[1] = "none"
<1>1. th["serve"] \in Threads /\ th["serve"].stack \in Seq(Frames)
  BY DEF Types, Threads, Goroutines
<1>2. PICK n \in Nat : n = Len(th["serve"].stack)
  BY <1>1, LenProperties
<1>3. StackOK("serve") /\ th["serve"].st # "off" /\ th["serve"].stack[1].l = 1
  BY DEF Shape, Goroutines
<1>4. n > 0
  BY <1>2, <1>3 DEF StackOK
<1>5. 1 \in 1 .. Len(th["serve"].stack) /\ n \in 1 .. Len(th["serve"].stack)
  BY <1>2, <1>4
<1>6. FrameOK("serve", 1) /\ FrameOK("serve", n) /\ th["serve"].stack[1] \in Frames
  BY <1>1, <1>3, <1>5, ElementOfSeq DEF StackOK
<1>7. Layers[1] = Server /\ Server \in ServerKinds
  BY LayerKinds DEF Types
<1>8. Top("serve") = th["serve"].stack[n]
  BY <1>2 DEF Top
<1>9. th["serve"].stack[n].l = n
  <2>1. th["serve"].stack[n].l = 1 + n - 1
    BY <1>3, <1>6 DEF FrameOK
  <2> QED BY <2>1
<1>10. /\ th["serve"].stack[1].pc \in 1 .. Len(Stages[Server])
       /\ n > 1 => th["serve"].stack[1].pc = CallAt[Server]
       /\ th["serve"].st = "done" => th["serve"].stack[1].defers = <<>>
       /\ Alive("serve") => w.out[1] = "none"
  BY <1>2, <1>3, <1>6, <1>7 DEF FrameOK
<1>11. th["serve"].st = "done" => n = 1
  BY <1>6, Zenon DEF FrameOK
<1> QED BY <1>1, <1>2, <1>3, <1>4, <1>5, <1>6, <1>7, <1>8, <1>9, <1>10, <1>11

(* Only a server writes an answer.                                           *)
LEMMA StepAnswers ==
  ASSUME Types, Shape, NEW t \in Goroutines, Step(t), Top(t).l # 1,
         ~(Return(t) /\ th[t].res = "err" /\ Top(t).l = 2)
  PROVE  SameReply(w, w')
<1>0. PICK n \in Nat : n = Len(Layers) /\ w \in Works(n)
  BY LayerKinds, Zenon DEF Types
<1>1. Alive(t)
  BY StepWork
<1>2. Server \in ServerKinds /\ Layers[1] = Server
  BY LayerKinds DEF Types
<1>3. PICK l \in 1 .. n : l = Top(t).l /\ l # 1
  BY <1>0, <1>1, TopFacts
<1>4. PICK r \in Results : r = th[t].res
  BY <1>1, TopFacts DEF Threads
<1>5. CASE w' = w
  BY <1>5 DEF SameReply
<1>a. Layers[l] \notin ServerKinds
  <2>1. CASE l = n
    BY <1>0, <2>1, LayerKinds DEF Types, ServerKinds, ClientKinds
  <2>2. CASE l # n
    <3>1. l \in 2 .. n - 1
      BY <1>3, <2>2
    <3> QED BY <1>0, <3>1, LayerKinds DEF Types, ServerKinds, Middlewares
  <2> QED BY <2>1, <2>2
<1>b. Stage(t) \notin {"respond", "write"}
  BY <1>1, <1>3, <1>a, AtStage, StageOwners DEF ServerKinds
<1>6. CASE Pass(t)
  <2>1. PICK y \in Passed(w, l, Stage(t)) : w' = y
    BY <1>3, <1>6 DEF Pass
  <2>2. SameAnswer(w, y)
    BY <1>0, <1>b, PassedFacts
  <2> QED BY <2>1, <2>2, AnswerIsReply
<1>c. CASE Panic(t)
  <2>1. PICK y \in Panics(w, l, Stage(t)) : w' = y
    BY <1>3, <1>c DEF Panic
  <2>2. SameAnswer(w, y)
    BY <1>0, <1>b, PanicsFacts
  <2> QED BY <2>1, <2>2, AnswerIsReply
<1>7. CASE Fail(t)
  <2>1. PICK y \in Failures(w, l, Stage(t)) : w' = y
    BY <1>3, <1>7 DEF Fail
  <2>2. y \in Works(n) /\ SameAnswer(w, y)
    BY <1>0, <1>2, <1>3, FailuresFacts
  <2> QED BY <2>1, <2>2, AnswerIsReply
<1>8. CASE RunDeferred(t)
  <2>1. PICK d \in DeferredCalls : w' = Deferred(w, l, d, r)
    BY <1>3, <1>4, <1>8, RunDeferredEffect
  <2>2. PICK y : y = Deferred(w, l, d, r)
    OBVIOUS
  <2>3. y \in Works(n) /\ SameReply(w, y)
    BY <1>0, <1>3, <2>2, DeferredFacts
  <2> QED BY <2>1, <2>2, <2>3
<1>9. CASE Return(t)
  <2>1. PICK x : x = Returned(w, l, r)
    OBVIOUS
  <2>a. x \in Works(n) /\ SameAnswer(w, x)
    BY <1>0, <1>3, <2>1, ReturnedFacts
  <2>2. x \in Works(n) /\ SameReply(w, x)
    BY <2>a, AnswerIsReply
  <2>3. w' = x \/ (w' \in Failures(x, l - 1, "call") /\ th[t].res = "err")
    BY <1>3, <1>4, <1>9, <2>1, ReturnEffect
  <2>4. CASE w' = x
    BY <2>2, <2>4
  <2>5. CASE w' \in Failures(x, l - 1, "call") /\ th[t].res = "err"
    <3>1. l # 2
      BY <1>3, <1>9, <2>5
    <3>2. PICK k \in 1 .. n : k = l - 1 /\ k # 1
      <4>1. l - 1 \in 1 .. n /\ l - 1 # 1
        BY <1>3, <3>1
      <4> QED BY <4>1
    <3>3. PICK y \in Failures(x, k, "call") : w' = y
      BY <2>5, <3>2
    <3>4. y \in Works(n) /\ SameAnswer(x, y)
      BY <1>2, <2>2, <3>2, FailuresFacts
    <3>5. SameReply(x, y)
      BY <3>4, AnswerIsReply
    <3> QED BY <2>2, <3>3, <3>5 DEF SameReply
  <2> QED BY <2>3, <2>4, <2>5
<1>10. w' = w \/ Pass(t) \/ Fail(t) \/ Panic(t) \/ RunDeferred(t) \/ Return(t)
  BY DEF Step, Defer, Call
<1> QED BY <1>5, <1>6, <1>7, <1>8, <1>9, <1>10, <1>c

(* A step that leaves the server and its answer alone.                       *)
LEMMA ServerKept ==
  ASSUME ServerOK, config' = config, SameReply(w, w'), w'.out[1] = w.out[1], w'.out[2] = w.out[2],
         th'["serve"] = th["serve"]
  PROVE  ServerOK'
<1>1. Server' = Server
  BY LayersKept
<1>2. (Serving' <=> Serving) /\ (TurnedAway' <=> TurnedAway)
  BY <1>1 DEF Serving, TurnedAway
<1>3. (ServingOK => ServingOK') /\ (RefusedOK => RefusedOK')
  BY <1>1 DEF ServingOK, RefusedOK, Quiet, Unfinalized, SameReply, CallAt
<1>4. UnwoundOK => UnwoundOK'
  BY <1>1 DEF UnwoundOK, Answered, Unfinalized, SameReply
<1> QED BY <1>1, <1>2, <1>3, <1>4 DEF ServerOK

(* A step of a layer further in, while the server waits.                     *)
LEMMA ServerWaits ==
  ASSUME Types, Shape, ServerOK, config' = config, SameReply(w, w'),
         Len(th["serve"].stack) > 1, Len(th'["serve"].stack) > 1,
         th'["serve"].st \in {"run", "unwind"},
         th'["serve"].stack[1] = th["serve"].stack[1]
  PROVE  ServerOK'
<1>1. Server' = Server
  BY LayersKept
<1> SUFFICES ASSUME Server # "main" PROVE ServingOK' /\ Serving'
  BY <1>1 DEF ServerOK
<1>2. Serving /\ Serving'
  BY DEF Serving
<1>3. ServingOK
  BY <1>2 DEF ServerOK
<1>4. Len(th'["serve"].stack) # 1
  <2>1. ~(1 > 1)
    OBVIOUS
  <2> QED BY <2>1, Zenon
<1> QED BY <1>1, <1>2, <1>3, <1>4 DEF ServingOK, Quiet, Unfinalized, SameReply

(* A step of the server itself that goes on to the next stage.               *)
LEMMA ServerDefers ==
  ASSUME Types, Shape, ServerOK, Server # "main", Len(th["serve"].stack) = 1, Defer("serve"),
         config' = config
  PROVE  ServerOK'
<1>0. PICK t \in Goroutines : t = "serve"
  BY DEF Goroutines
<1>1. /\ Advance(th["serve"], th'["serve"]) /\ w' = w /\ Stage("serve") \in DeferStages
      /\ th'["serve"].stack[Len(th["serve"].stack)].defers = Top("serve").defers \o Deferral(Stage("serve"))
  BY <1>0, DeferEffect
<1>2. Server' = Server
  BY LayersKept
<1>3. th["serve"].st = "run" /\ Alive("serve")
  BY <1>1 DEF Advance, Alive
<1>4. PICK f \in Frames, k \in ServerKinds \ {"main"} :
        /\ f = th["serve"].stack[1] /\ f = Top("serve") /\ k = Server /\ f.l = 1 /\ Layers[1] = k
        /\ f.pc \in 1 .. Len(Stages[k]) /\ w.out[1] = "none"
  BY <1>3, ServerFrame
<1>5. Stage("serve") = Stages[k][f.pc]
  BY <1>4 DEF Stage
<1>6. f.pc = FinalizerAt(k) /\ Stage("serve") = "finalizer" /\ f.pc # Len(Stages[k])
      /\ FinalizerAt(k) < CallAt[k] /\ CallAt[k] \in Nat /\ f.pc \in Nat /\ FinalizerAt(k) \in Nat
  <2>1. f.pc = FinalizerAt(k) /\ Stage("serve") = "finalizer"
    BY <1>1, <1>4, <1>5, ServerStages
  <2>2. /\ FinalizerAt(k) \in 1 .. 2 /\ FinalizerAt(k) < CallAt[k] /\ CallAt[k] \in Nat
        /\ FinalizerAt(k) < Len(Stages[k]) /\ Len(Stages[k]) \in Nat
    BY ServerStages
  <2> QED BY <2>1, <2>2
<1>7. /\ th'["serve"].st = "run" /\ Len(th'["serve"].stack) = 1
      /\ th'["serve"].stack[1].pc = f.pc + 1
  BY <1>1, <1>4, <1>6 DEF Advance
<1>8. ServingOK
  BY <1>3 DEF ServerOK, Serving
<1>9. f.defers = <<>>
  BY <1>4, <1>6, <1>8 DEF ServingOK
<1>10. th'["serve"].stack[1].defers = <<"finalizer">>
  <2>1. Deferral("finalizer") = <<"finalizer">>
    BY <1>1, <1>6, DeferralFacts
  <2>2. th'["serve"].stack[1].defers = f.defers \o Deferral(Stage("serve"))
    BY <1>1, <1>4
  <2>3. f.defers \o Deferral(Stage("serve")) = <<>> \o <<"finalizer">>
    BY <1>6, <1>9, <2>1
  <2>4. <<>> \o <<"finalizer">> = <<"finalizer">>
    OBVIOUS
  <2> QED BY <2>2, <2>3, <2>4
<1>11. f.pc + 1 > FinalizerAt(k) /\ ~(f.pc + 1 > CallAt[k])
  BY <1>6
<1>12. ServingOK'
  BY <1>1, <1>2, <1>4, <1>7, <1>8, <1>10, <1>11 DEF ServingOK, CallAt
<1> QED BY <1>7, <1>12 DEF ServerOK, Serving

(* The last stage of a server writes the answer.                             *)
LEMMA PassedAnswer ==
  ASSUME Types, NEW k \in ServerKinds \ {"main"}, k = Server, NEW i \in 1 .. Len(Stages[k]),
         Stages[k][i] \notin DeferStages \cup {"call", "spawn", "wait"}, Quiet(w),
         w' \in Passed(w, 1, Stages[k][i]), i = Len(Stages[k]) => w.out[2] = "ok"
  PROVE  /\ i # Len(Stages[k]) => SameReply(w, w')
         /\ i = Len(Stages[k]) => /\ Answered(w', "ok") /\ w'.finalized[1] = w.finalized[1] /\ w'.saw = w.saw
                                  /\ Server = "grpc" => w'.sent = 0 /\ w'.ans = {}
<1>a. PICK n \in Nat : n = Len(Layers) /\ w \in Works(n) /\ n >= 2
  BY LayerKinds DEF Types
<1>b. 1 \in 1 .. n
  BY <1>a
<1>0. n = Len(Layers) /\ w \in Works(n) /\ 1 \in 1 .. n
  BY <1>a, <1>b
<1>1. PICK s : s = Stages[k][i]
  OBVIOUS
<1>2. /\ s = "respond" <=> k \in {"http", "fasthttp"} /\ i = Len(Stages[k])
      /\ s = "write" <=> k = "jsonrpc" /\ i = Len(Stages[k])
  BY <1>1, ServerStages
<1>3. PICK y \in Passed(w, 1, s) : w' = y
  BY <1>1
<1>4. /\ s \notin {"respond", "write"} => SameReply(w, y)
      /\ y.finalized[1] = w.finalized[1] /\ y.saw = w.saw /\ y.out = w.out
  <2>1. /\ s \notin {"respond", "write"} => SameAnswer(w, y)
        /\ y.finalized = w.finalized /\ y.saw = w.saw /\ SameCalls(w, y)
    BY <1>0, PassedFacts
  <2> QED BY <2>1, AnswerIsReply DEF SameCalls
<1>5. w' = y
  BY <1>3
<1>6. CASE i # Len(Stages[k])
  BY <1>2, <1>4, <1>5, <1>6
<1>7. CASE i = Len(Stages[k]) /\ k = "grpc"
  <2>1. SameReply(w, y)
    BY <1>2, <1>4, <1>7
  <2> QED BY <1>4, <1>5, <1>7, <2>1 DEF SameReply, Answered, Quiet
<1>8. CASE i = Len(Stages[k]) /\ k # "grpc" /\ k # "jsonrpc"
  <2>1. y = EncodeJSONResponse(w) \/ y = FastEncodeJSONResponse(w)
    BY <1>2, <1>3, <1>8 DEF Passed, ServerKinds
  <2>2. PICK x \in Works(n) : x = w
    BY <1>0
  <2>3. y = EncodeJSONResponse(x) \/ y = FastEncodeJSONResponse(x)
    BY <2>1, <2>2
  <2>4. /\ y.handled = x.handled /\ y.code = 200
        /\ x.sent = 0 /\ x.ans = {} => y.sent = 200 /\ y.ans = {"result"}
    BY <2>3, RespondFacts
  <2> QED BY <1>4, <1>5, <1>8, <2>2, <2>4 DEF Answered, Quiet
<1>9. CASE i = Len(Stages[k]) /\ k = "jsonrpc"
  <2>1. s = "write"
    BY <1>2, <1>9
  <2>2. PICK x \in Works(n) : x = w
    BY <1>0
  <2>3. y \in JsonrpcWrite(x)
    BY <1>3, <2>1, <2>2 DEF Passed
  <2>4. /\ y.handled = x.handled /\ y.code = 200
        /\ x.sent = 0 /\ x.ans = {} => y.sent = 200 /\ (y.ans = {"result"} \/ y.ans = {})
    BY <2>3, WriteFacts
  <2>5. y.out[2] = "ok"
    BY <1>4, <1>9
  <2> QED BY <1>4, <1>5, <1>9, <2>2, <2>4, <2>5 DEF Answered, Quiet
<1> QED BY <1>6, <1>7, <1>8, <1>9

(* The server after a stage of it has passed.                                *)
LEMMA ServerPasses ==
  ASSUME Types, Shape, ServerOK, Server # "main", Len(th["serve"].stack) = 1, Pass("serve"),
         config' = config, w'.out = w.out
  PROVE  ServerOK'
<1>0. PICK t \in Goroutines : t = "serve"
  BY DEF Goroutines
<1>1. /\ Advance(th["serve"], th'["serve"])
      /\ w' \in Passed(w, Top("serve").l, Stage("serve"))
      /\ Stage("serve") \notin DeferStages \cup {"call", "spawn", "wait"}
      /\ th'["serve"].stack[Len(th["serve"].stack)].defers = Top("serve").defers
  BY <1>0, PassEffect
<1>2. Server' = Server
  BY LayersKept
<1>3. th["serve"].st = "run" /\ Alive("serve")
  BY <1>1 DEF Advance, Alive
<1>4. PICK f \in Frames, k \in ServerKinds \ {"main"} :
        /\ f = th["serve"].stack[1] /\ f = Top("serve") /\ k = Server /\ f.l = 1 /\ Layers[1] = k
        /\ f.pc \in 1 .. Len(Stages[k]) /\ w.out[1] = "none"
  BY <1>3, ServerFrame
<1>5. Stage("serve") = Stages[k][f.pc]
  BY <1>4 DEF Stage
<1>6. ServingOK
  BY <1>3 DEF ServerOK, Serving
<1>7. PICK i \in Nat, c \in Nat, e \in Nat, last \in Nat :
        /\ i = f.pc /\ c = CallAt[k] /\ e = FinalizerAt(k) /\ last = Len(Stages[k])
        /\ i \in 1 .. last /\ e < c /\ c < last /\ i # e /\ i # c
  <2>1. /\ FinalizerAt(k) \in 1 .. 2 /\ FinalizerAt(k) < CallAt[k] /\ CallAt[k] < Len(Stages[k])
        /\ Len(Stages[k]) \in Nat /\ CallAt[k] \in Nat
        /\ f.pc # FinalizerAt(k)
    BY <1>1, <1>4, <1>5, ServerStages
  <2>2. f.pc # CallAt[k]
    <3>1. k \in Kinds
      BY DEF Kinds
    <3> QED BY <1>1, <1>4, <1>5, <3>1, CallStages
  <2> QED BY <1>4, <2>1, <2>2
<1>8. /\ i # last => SameReply(w, w')
      /\ i = last => /\ Answered(w', "ok") /\ w'.finalized[1] = w.finalized[1] /\ w'.saw = w.saw
                     /\ Server = "grpc" => w'.sent = 0 /\ w'.ans = {}
  <2>1. Quiet(w)
    BY <1>6 DEF ServingOK
  <2>2. f.pc = Len(Stages[k]) => w.out[2] = "ok"
    <3>1. i = last => i > c
      BY <1>7
    <3> QED BY <1>4, <1>6, <1>7, <3>1 DEF ServingOK
  <2> QED BY <1>1, <1>4, <1>5, <1>7, <2>1, <2>2, PassedAnswer
<1>9. /\ Len(th'["serve"].stack) = 1 /\ th'["serve"].res = "ok"
      /\ th'["serve"].stack[1].defers = f.defers
      /\ i = last => th'["serve"].st = "unwind" /\ th'["serve"].stack[1].pc = i
      /\ i # last => th'["serve"].st = "run" /\ th'["serve"].stack[1].pc = i + 1
  BY <1>1, <1>4, <1>7 DEF Advance
<1>10. /\ f.defers = IF i > e THEN <<"finalizer">> ELSE <<>>
       /\ i > c => w.out[2] = "ok"
       /\ Quiet(w) /\ Unfinalized(w)
  BY <1>4, <1>6, <1>7 DEF ServingOK
<1>11. CASE i # last
  <2>1. (i + 1 > e <=> i > e) /\ (i + 1 > c <=> i > c)
    BY <1>7
  <2>2. Quiet(w') /\ Unfinalized(w')
    BY <1>8, <1>10, <1>11 DEF Quiet, Unfinalized, SameReply
  <2>3. ServingOK'
    BY <1>2, <1>4, <1>7, <1>9, <1>10, <1>11, <2>1, <2>2 DEF ServingOK, Quiet, Unfinalized
  <2> QED BY <1>9, <1>11, <2>3 DEF ServerOK, Serving
<1>12. CASE i = last
  <2>0. e < c /\ c < last /\ i = last
    BY <1>7, <1>12
  <2>1. i > e /\ i # 1
    BY <2>0
  <2>2. ~Serving' /\ ~TurnedAway' /\ th'["serve"].st = "unwind"
    BY <1>2, <1>9, <1>12, <2>1 DEF Serving, TurnedAway
  <2>3. UnwoundOK'
    BY <1>2, <1>8, <1>9, <1>10, <1>12, <2>1 DEF UnwoundOK, Answered, Unfinalized
  <2> QED BY <1>2, <2>2, <2>3 DEF ServerOK
<1> QED BY <1>11, <1>12

(* An error answer, of a stage of the server or of the endpoint it called.   *)
LEMMA ErrorAnswered ==
  ASSUME Types, NEW n \in Nat, NEW x \in Works(n), NEW y, NEW s, 1 \in 1 .. n,
         Server # "main", y \in Failures(x, 1, s), Quiet(x), Unfinalized(x), s # "post",
         s = "respond" => Server \in {"http", "fasthttp"} /\ x.out[2] = "ok"
  PROVE  /\ Answered(y, "err") /\ Unfinalized(y)
         /\ Server = "grpc" => y.sent = 0 /\ y.ans = {}
<1>1. Server \in ServerKinds /\ Layers[1] = Server
  BY LayerKinds DEF Types
<1>2. PICK v \in Failures(x, 1, s) : v = y
  OBVIOUS
<1>a. x.sent = 0 /\ x.code = 200 /\ x.ans = {} /\ x.handled = 0
  BY DEF Quiet
<1>3. /\ v \in Works(n) /\ SameCalls(x, v) /\ v.finalized[1] = x.finalized[1] /\ v.saw = x.saw
      /\ ErrorAnswer(v, s)
  BY <1>1, <1>a, FailuresFacts
<1>4. y.out = x.out /\ Unfinalized(y) /\ ErrorAnswer(y, s)
  BY <1>2, <1>3 DEF Unfinalized, SameCalls
<1> QED BY <1>4 DEF ErrorAnswer, Answered

(* The server after a stage of it has failed.                                *)
LEMMA ServerFailed ==
  ASSUME Types, Shape, ServerOK, Server # "main", Len(th["serve"].stack) = 1, Fail("serve"),
         config' = config, w'.out = w.out
  PROVE  ServerOK'
<1>0. PICK t \in Goroutines : t = "serve"
  BY DEF Goroutines
<1>1. /\ GiveUp(th["serve"], th'["serve"], "err")
      /\ w' \in Failures(w, Top("serve").l, Stage("serve")) /\ Stage("serve") \in Fallible
  BY <1>0, FailEffect
<1>2. Server' = Server
  BY LayersKept
<1>3. /\ th["serve"].st = "run" /\ Alive("serve") /\ th'["serve"].st = "unwind"
      /\ th'["serve"].res = "err" /\ th'["serve"].stack = th["serve"].stack
  BY <1>1 DEF GiveUp, Alive
<1>4. PICK f \in Frames, k \in ServerKinds \ {"main"} :
        /\ f = th["serve"].stack[1] /\ f = Top("serve") /\ k = Server /\ f.l = 1 /\ Layers[1] = k
        /\ f.pc \in 1 .. Len(Stages[k])
  BY <1>3, ServerFrame
<1>5. PICK s : s = Stages[k][f.pc] /\ s = Stage("serve")
  BY <1>4 DEF Stage
<1>6. ServingOK
  BY <1>3 DEF ServerOK, Serving
<1>7. ~Serving'
  <2>1. Len(th'["serve"].stack) = 1 /\ ~(1 > 1)
    BY <1>3
  <2> QED BY <1>3, <2>1 DEF Serving
<1>8. /\ s = "post" <=> k = "jsonrpc" /\ f.pc = 1
      /\ s # "post" => f.pc > FinalizerAt(k)
      /\ s = "respond" => k \in {"http", "fasthttp"} /\ f.pc > CallAt[k]
  <2>0. PICK i \in 1 .. Len(Stages[k]) : i = f.pc
    BY <1>4
  <2>a. /\ CallAt[k] \in Nat /\ CallAt[k] < Len(Stages[k])
        /\ Stages[k][i] = "post" <=> k = "jsonrpc" /\ i = 1
        /\ Stages[k][i] \in Fallible \cup UserCode => i > FinalizerAt(k) \/ Stages[k][i] = "post"
        /\ Stages[k][i] = "respond" <=> k \in {"http", "fasthttp"} /\ i = Len(Stages[k])
    BY ServerStages
  <2>1. /\ CallAt[k] \in Nat /\ CallAt[k] < Len(Stages[k])
        /\ s = "post" <=> k = "jsonrpc" /\ f.pc = 1
        /\ s \in Fallible \cup UserCode => f.pc > FinalizerAt(k) \/ s = "post"
        /\ s = "respond" <=> k \in {"http", "fasthttp"} /\ f.pc = Len(Stages[k])
    BY <1>5, <2>0, <2>a
  <2>2. s \in Fallible
    BY <1>1, <1>5
  <2>3. Len(Stages[k]) \in Nat
    BY ServerStages
  <2>4. Len(Stages[k]) > CallAt[k]
    BY <2>1, <2>3
  <2> QED BY <2>1, <2>2, <2>4
<1>9. PICK n \in Nat : n = Len(Layers) /\ w \in Works(n) /\ n >= 2
  BY LayerKinds DEF Types
<1>10. 1 \in 1 .. n
  BY <1>9
<1>11. w' \in Failures(w, 1, s)
  BY <1>1, <1>4, <1>5
<1>12. CASE s = "post"
  <2>1. PICK y \in Failures(w, 1, s) : w' = y
    BY <1>11
  <2>2. Server \in ServerKinds /\ Layers[1] = Server
    BY LayerKinds DEF Types
  <2>3. w.sent = 0 /\ w.code = 200 /\ w.ans = {} /\ w.handled = 0 /\ Unfinalized(w)
    BY <1>6 DEF ServingOK, Quiet
  <2>4. y \in Works(n) /\ y.finalized[1] = w.finalized[1] /\ y.saw = w.saw /\ ErrorAnswer(y, s)
    BY <1>9, <1>10, <2>2, <2>3, FailuresFacts
  <2>5. f.defers = <<>>
    <3>1. k = "jsonrpc" /\ f.pc = 1
      BY <1>8, <1>12
    <3>2. ~(f.pc > FinalizerAt(k))
      BY <3>1 DEF FinalizerAt
    <3> QED BY <1>4, <1>6, <3>2 DEF ServingOK
  <2>6. TurnedAway' /\ RefusedOK'
    BY <1>2, <1>3, <1>4, <1>8, <1>12, <2>1, <2>3, <2>4, <2>5
       DEF TurnedAway, RefusedOK, ErrorAnswer, Unfinalized
  <2> QED BY <1>2, <1>3, <1>7, <2>6 DEF ServerOK
<1>13. CASE s # "post"
  <2>1. f.defers = <<"finalizer">> /\ Quiet(w) /\ Unfinalized(w)
    BY <1>4, <1>6, <1>8, <1>13 DEF ServingOK
  <2>2. s = "respond" => Server \in {"http", "fasthttp"} /\ w.out[2] = "ok"
    BY <1>4, <1>6, <1>8 DEF ServingOK
  <2>4. /\ Answered(w', "err") /\ Unfinalized(w')
        /\ Server = "grpc" => w'.sent = 0 /\ w'.ans = {}
    BY <1>9, <1>10, <1>11, <1>13, <2>1, <2>2, ErrorAnswered
  <2>5. ~TurnedAway'
    BY <1>2, <1>3, <1>4, <1>8, <1>13 DEF TurnedAway
  <2>6. UnwoundOK'
    BY <1>2, <1>3, <1>4, <2>1, <2>4 DEF UnwoundOK, Answered, Unfinalized
  <2> QED BY <1>2, <1>3, <1>7, <2>5, <2>6 DEF ServerOK
<1> QED BY <1>12, <1>13

(* The server after a stage of it has panicked.                              *)
LEMMA ServerPanics ==
  ASSUME Types, Shape, ServerOK, Server # "main", Len(th["serve"].stack) = 1, Panic("serve"),
         config' = config, w'.out = w.out
  PROVE  ServerOK'
<1>0. PICK t \in Goroutines : t = "serve"
  BY DEF Goroutines
<1>1. /\ GiveUp(th["serve"], th'["serve"], "panic")
      /\ w' \in Panics(w, Top("serve").l, Stage("serve")) /\ Stage("serve") \in UserCode
  BY <1>0, PanicEffect
<1>2. Server' = Server
  BY LayersKept
<1>3. /\ th["serve"].st = "run" /\ Alive("serve") /\ th'["serve"].st = "unwind"
      /\ th'["serve"].res = "panic" /\ th'["serve"].stack = th["serve"].stack
  BY <1>1 DEF GiveUp, Alive
<1>4. PICK f \in Frames, k \in ServerKinds \ {"main"} :
        /\ f = th["serve"].stack[1] /\ f = Top("serve") /\ k = Server /\ f.l = 1 /\ Layers[1] = k
        /\ f.pc \in 1 .. Len(Stages[k])
  BY <1>3, ServerFrame
<1>5. PICK s : s = Stages[k][f.pc] /\ s = Stage("serve") /\ s \in UserCode
  BY <1>1, <1>4 DEF Stage
<1>6. /\ f.pc > FinalizerAt(k) /\ ~(k = "jsonrpc" /\ f.pc = 1)
      /\ s = "respond" => (k = "http" \/ k = "fasthttp") /\ f.pc > CallAt[k]
  <2>0. PICK i \in 1 .. Len(Stages[k]) : i = f.pc
    BY <1>4
  <2>1. /\ CallAt[k] \in Nat /\ Len(Stages[k]) \in Nat /\ CallAt[k] < Len(Stages[k])
        /\ Stages[k][i] = "post" <=> k = "jsonrpc" /\ i = 1
        /\ Stages[k][i] \in Fallible \cup UserCode => i > FinalizerAt(k) \/ Stages[k][i] = "post"
        /\ Stages[k][i] = "respond" <=> k \in {"http", "fasthttp"} /\ i = Len(Stages[k])
    BY ServerStages
  <2>2. s # "post"
    BY <1>5 DEF UserCode
  <2> QED BY <1>5, <2>0, <2>1, <2>2
<1>7. ServingOK
  BY <1>3 DEF ServerOK, Serving
<1>8. ~Serving' /\ ~TurnedAway'
  <2>1. Len(th'["serve"].stack) = 1 /\ ~(1 > 1)
    BY <1>3
  <2>2. ~Serving'
    BY <1>3, <2>1 DEF Serving
  <2> QED BY <1>2, <1>3, <1>4, <1>6, <2>2 DEF TurnedAway
<1>9. f.defers = <<"finalizer">> /\ Quiet(w) /\ Unfinalized(w)
  BY <1>4, <1>6, <1>7 DEF ServingOK
<1>10. /\ Answered(w', "panic") /\ Unfinalized(w')
       /\ Server = "grpc" => w'.sent = 0 /\ w'.ans = {}
  <2>1. PICK n \in Nat : n = Len(Layers) /\ w \in Works(n) /\ n >= 2
    BY LayerKinds DEF Types
  <2>2. PICK l \in 1 .. n : l = 1
    BY <2>1
  <2>3. PICK y \in Panics(w, l, s) : w' = y
    BY <1>1, <1>4, <1>5, <2>2
  <2>4. /\ s # "respond" => SameAnswer(w, y)
        /\ s = "respond" => y \in PartlyEncoded(w)
        /\ y.finalized = w.finalized /\ y.saw = w.saw /\ SameCalls(w, y)
    BY <2>1, PanicsFacts
  <2>5. Unfinalized(y)
    BY <1>9, <2>4 DEF Unfinalized
  <2>6. CASE s # "respond"
    BY <1>9, <2>3, <2>4, <2>5, <2>6 DEF SameAnswer, Answered, Quiet
  <2>7. CASE s = "respond"
    <3>1. w.out[2] = "ok" /\ (Server = "http" \/ Server = "fasthttp")
      BY <1>4, <1>6, <1>7, <2>7 DEF ServingOK
    <3>2. w.sent = 0 /\ w.code = 200 /\ w.ans = {} /\ w.handled = 0
      BY <1>9 DEF Quiet
    <3>3. /\ y.handled = w.handled
          /\ w.code = 200 => y.code = 200
          /\ w.sent = 0 /\ w.ans = {} =>
               \/ y.sent = 0 /\ y.ans = {}
               \/ y.sent = 200 /\ (y.ans = {} \/ y.ans = {"result"})
      <4>1. PICK x \in Works(n) : x = w
        BY <2>1
      <4>2. y \in PartlyEncoded(x)
        <5>1. y \in Panics(x, l, s)
          BY <2>3, <4>1, Zenon
        <5> QED BY <2>7, <5>1, PanicsFacts
      <4>3. /\ y.handled = x.handled
            /\ x.code = 200 => y.code = 200
            /\ x.sent = 0 /\ x.ans = {} =>
                 \/ y.sent = 0 /\ y.ans = {}
                 \/ y.sent = 200 /\ (y.ans = {} \/ y.ans = {"result"})
        BY <4>2, PartlyFacts
      <4> QED BY <4>1, <4>3
    <3>4. y.out[2] = "ok"
      BY <2>4, <3>1 DEF SameCalls
    <3>5. y.code = 200 /\ y.handled = 0 /\ (y.sent = 0 \/ y.sent = 200)
          /\ (y.ans = {} \/ y.ans = {"result"})
      BY <3>2, <3>3
    <3>6. Answered(y, "panic")
      BY <3>1, <3>4, <3>5, Zenon DEF Answered
    <3>7. Server # "grpc"
      BY <3>1
    <3> QED BY <2>3, <2>5, <3>6, <3>7, Zenon
  <2> QED BY <2>6, <2>7
<1>11. UnwoundOK'
  <2>1. Answered(w, "panic")' /\ Unfinalized(w)'
    BY <1>2, <1>10 DEF Answered, Unfinalized
  <2> QED BY <1>2, <1>3, <1>4, <1>9, <1>10, <2>1 DEF UnwoundOK
<1> QED BY <1>2, <1>3, <1>8, <1>11 DEF ServerOK

(* The server in its call.                                                   *)
LEMMA ServerCalls ==
  ASSUME Types, Shape, ServerOK, Server # "main", Len(th["serve"].stack) = 1, Call("serve"),
         config' = config
  PROVE  ServerOK'
<1>0. PICK t \in Goroutines : t = "serve"
  BY DEF Goroutines
<1>1. Push(th["serve"], th'["serve"]) /\ w' = w
  BY <1>0, CallEffect
<1>2. Server' = Server
  BY LayersKept
<1>3. /\ th["serve"].st = "run" /\ th'["serve"].st = "run" /\ Len(th'["serve"].stack) = 2
      /\ th'["serve"].stack[1] = th["serve"].stack[1]
  BY <1>1 DEF Push
<1>4. ServingOK
  BY <1>3 DEF ServerOK, Serving
<1>5. ServingOK' /\ Serving'
  BY <1>1, <1>2, <1>3, <1>4 DEF ServingOK, Serving, Quiet, Unfinalized
<1> QED BY <1>3, <1>5 DEF ServerOK

(* The finalizer runs once, and sees the code of the answer.                 *)
LEMMA ServerFinalizes ==
  ASSUME Types, Shape, ServerOK, Server # "main", Len(th["serve"].stack) = 1, RunDeferred("serve"),
         config' = config
  PROVE  ServerOK'
<1>0. PICK t \in Goroutines : t = "serve"
  BY DEF Goroutines
<1>1. /\ PopDefer(th["serve"], th'["serve"])
      /\ w' = Deferred(w, Top("serve").l, Top("serve").defers[Len(Top("serve").defers)], th["serve"].res)
  BY <1>0, RunDeferredEffect
<1>2. Server' = Server
  BY LayersKept
<1>3. /\ th["serve"].st = "unwind" /\ Alive("serve") /\ th'["serve"].st = "unwind"
      /\ th'["serve"].res = th["serve"].res /\ Len(th'["serve"].stack) = 1
      /\ th'["serve"].stack[1].pc = th["serve"].stack[1].pc
      /\ th'["serve"].stack[1].defers = Front(th["serve"].stack[1].defers)
      /\ th["serve"].stack[1].defers # <<>>
  BY <1>1 DEF PopDefer, Alive
<1>4. PICK f \in Frames :
        f = th["serve"].stack[1] /\ f = Top("serve") /\ f.l = 1
  BY <1>3, ServerFrame
<1>5. ~Serving /\ ~Serving' /\ (TurnedAway' <=> TurnedAway)
  BY <1>2, <1>3 DEF Serving, TurnedAway
<1>6. ~TurnedAway /\ UnwoundOK
  BY <1>3, <1>5 DEF ServerOK, RefusedOK
<1>7. f.defers = <<"finalizer">> /\ Unfinalized(w)
  BY <1>3, <1>4, <1>6 DEF UnwoundOK
<1>8. Front(f.defers) = <<>> /\ f.defers[Len(f.defers)] = "finalizer"
  BY <1>7 DEF Front
<1>9. PICK n \in Nat : n = Len(Layers) /\ w \in Works(n) /\ n >= 2
  BY LayerKinds, Zenon DEF Types
<1>10. 1 \in 1 .. n
  BY <1>9
<1>11. PICK d \in DeferredCalls, r \in Results : d = "finalizer" /\ r = th["serve"].res
  <2>1. th["serve"].res \in Results
    BY ServerFrame DEF Threads
  <2> QED BY <2>1 DEF DeferredCalls
<1>12. PICK y : y = Deferred(w, 1, d, r)
  OBVIOUS
<1>13. w' = y
  BY <1>1, <1>4, <1>8, <1>11, <1>12
<1>14. /\ y.out = w.out
       /\ y.sent = w.sent /\ y.code = w.code /\ y.ans = w.ans /\ y.handled = w.handled
       /\ d = "finalizer" => y.finalized[1] = w.finalized[1] + 1 /\ y.saw = w.code
  BY <1>9, <1>10, <1>12, DeferredFacts
<1>15. w'.finalized[1] = 1 /\ w'.saw = w'.code
  BY <1>7, <1>11, <1>13, <1>14 DEF Unfinalized
<1>16. UnwoundOK'
  BY <1>2, <1>3, <1>4, <1>6, <1>8, <1>13, <1>14, <1>15 DEF UnwoundOK, Answered
<1> QED BY <1>2, <1>3, <1>5, <1>6, <1>16 DEF ServerOK

(* The server when it or the layer it called returns.                        *)
LEMMA ServerReturns ==
  ASSUME Types, Shape, ServerOK, Server # "main", Len(th["serve"].stack) = 1, Return("serve"),
         config' = config, OutcomeOf("serve")
  PROVE  ServerOK'
<1>0. PICK t \in Goroutines : t = "serve"
  BY DEF Goroutines
<1>1. PICK f \in Frames : f = th["serve"].stack[1] /\ f = Top("serve") /\ f.l = 1
  BY ServerFrame
<1>2. PICK n \in Nat : n = Len(Layers) /\ w \in Works(n) /\ n >= 2
  BY LayerKinds, Zenon DEF Types
<1>3. 1 \in 1 .. n /\ 2 \in 1 .. n
  BY <1>2
<1>4. PICK r \in Results : r = th["serve"].res
  BY ServerFrame DEF Threads
<1>5. PICK x : x = Returned(w, 1, r)
  OBVIOUS
<1>6. /\ th["serve"].st = "unwind" /\ f.defers = <<>> /\ w' = x
      /\ th'["serve"].st = "done" /\ th'["serve"].res = r /\ th'["serve"].stack = th["serve"].stack
  <2>1. /\ th["serve"].st = "unwind" /\ Top("serve").defers = <<>>
        /\ \/ End(th["serve"], th'["serve"]) /\ w' = x
           \/ Resume(th["serve"], th'["serve"])
           \/ Drop(th["serve"], th'["serve"])
    BY <1>0, <1>1, <1>4, <1>5, ReturnEffect
  <2>2. ~(1 > 1)
    OBVIOUS
  <2>3. ~Resume(th["serve"], th'["serve"]) /\ ~Drop(th["serve"], th'["serve"])
    BY <2>2, Zenon DEF Resume, Drop
  <2> QED BY <1>1, <1>4, <2>1, <2>3 DEF End
<1>7. /\ x.code = w.code /\ x.handled = w.handled /\ x.finalized[1] = w.finalized[1] /\ x.saw = w.saw
      /\ x.out[1] = r /\ (\A m \in 1 .. n : m # 1 => x.out[m] = w.out[m])
      /\ Server # "grpc" \/ r = "panic" => SameReply(w, x)
      /\ Server = "grpc" /\ r # "panic" =>
           x.sent = w.code /\ x.ans = {IF r = "ok" THEN "result" ELSE "error"}
  <2>1. PICK x0 \in Works(n), l \in 1 .. n : x0 = w /\ l = 1
    BY <1>2, <1>3
  <2>2. PICK y : y = Returned(x0, l, r)
    OBVIOUS
  <2>3. /\ y.code = x0.code /\ y.handled = x0.handled /\ y.finalized[1] = x0.finalized[1]
        /\ y.saw = x0.saw
    BY <2>2, ReturnedKeeps
  <2>4. y.out[l] = r /\ (\A m \in 1 .. n : m # l => y.out[m] = x0.out[m])
    BY <2>2, ReturnedFacts
  <2>a. l # 1 \/ Server # "grpc" \/ r = "panic" => SameAnswer(x0, y)
    BY <2>2, ReturnedFacts
  <2>5. l # 1 \/ Server # "grpc" \/ r = "panic" => SameReply(x0, y)
    BY <2>a, AnswerIsReply
  <2>6. l = 1 /\ Server = "grpc" /\ r # "panic" =>
          y.sent = x0.code /\ y.ans = {IF r = "ok" THEN "result" ELSE "error"}
    BY <2>2, ReturnedFacts
  <2>7. y = x
    BY <1>5, <2>1, <2>2
  <2> QED BY <2>1, <2>3, <2>4, <2>5, <2>6, <2>7
<1>8. Server' = Server
  BY LayersKept
<1>9. ~Serving /\ ~Serving' /\ (TurnedAway' <=> TurnedAway)
  <2>1. Len(th["serve"].stack) = 1 /\ ~(1 > 1)
    OBVIOUS
  <2> QED BY <1>6, <1>8, <2>1 DEF Serving, TurnedAway
<1>10. x.out[2] = w.out[2] /\ w'.out[1] = th'["serve"].res
  BY <1>3, <1>6, <1>7
<1>11. CASE TurnedAway
  <2>1. RefusedOK /\ Server # "grpc"
    BY <1>9, <1>11 DEF ServerOK, TurnedAway
  <2>2. RefusedOK'
    BY <1>4, <1>6, <1>7, <1>8, <2>1 DEF RefusedOK, SameReply, Unfinalized
  <2> QED BY <1>8, <1>9, <1>10, <1>11, <2>2 DEF ServerOK
<1>12. CASE ~TurnedAway
  <2>1. UnwoundOK
    BY <1>9, <1>12 DEF ServerOK
  <2>2. Answered(w, r) /\ w.finalized[1] = 1 /\ w.saw = w.code
        /\ (Server = "grpc" => w.sent = 0 /\ w.ans = {})
    <3>1. <<>> # <<"finalizer">>
      OBVIOUS
    <3>2. w.finalized[1] = 1 /\ w.saw = w.code
      BY <1>1, <1>6, <2>1, <3>1 DEF UnwoundOK
    <3>3. Answered(w, r)
      BY <1>4, <2>1 DEF UnwoundOK
    <3>4. th["serve"].st # "done"
      BY <1>6
    <3>5. Server = "grpc" => w.sent = 0 /\ w.ans = {}
      BY <2>1, <3>4 DEF UnwoundOK
    <3> QED BY <3>2, <3>3, <3>5
  <2>3. Answered(x, r)
    BY <1>7, <1>10, <2>2 DEF Answered, SameReply
  <2>4. Server = "grpc" =>
          IF r # "panic" THEN x.sent = x.code /\ x.ans = {IF r = "ok" THEN "result" ELSE "error"}
          ELSE x.sent = 0 /\ x.ans = {}
    BY <1>7, <2>2 DEF SameReply
  <2>5. Answered(w, r)' = Answered(x, r)
    BY <1>6, <1>8 DEF Answered
  <2>6. UnwoundOK'
    BY <1>1, <1>4, <1>6, <1>7, <1>8, <2>2, <2>3, <2>4, <2>5 DEF UnwoundOK
  <2> QED BY <1>8, <1>9, <1>10, <1>12, <2>6 DEF ServerOK
<1> QED BY <1>11, <1>12


(* The endpoint returns to the server.                                       *)
LEMMA ServerResumes ==
  ASSUME Types, Shape, ServerOK, Server # "main", Len(th["serve"].stack) = 2, Return("serve"),
         config' = config, OutcomeOf("serve")
  PROVE  ServerOK'
<1>0. PICK t \in Goroutines : t = "serve"
  BY DEF Goroutines
<1>1. PICK f \in Frames, k \in ServerKinds \ {"main"} :
        /\ f = th["serve"].stack[1] /\ k = Server /\ f.l = 1 /\ Layers[1] = k
        /\ f.pc = CallAt[k]
  <2>1. 2 > 1
    OBVIOUS
  <2> QED BY <2>1, ServerFrame
<1>2. PICK n \in Nat : n = Len(Layers) /\ w \in Works(n) /\ n >= 2
  BY LayerKinds, Zenon DEF Types
<1>3. PICK l \in 1 .. n : l = 2 /\ l = Top("serve").l
  <2>1. th["serve"].st = "unwind" /\ Alive("serve")
    BY DEF Return, Alive
  <2>2. Top("serve").l = 2
    BY <2>1, ServerFrame
  <2>3. 2 \in 1 .. n
    BY <1>2
  <2> QED BY <2>2, <2>3
<1>4. PICK r \in Results : r = th["serve"].res
  BY ServerFrame DEF Threads
<1>5. PICK x : x = Returned(w, l, r)
  OBVIOUS
<1>6. /\ x \in Works(n) /\ SameReply(w, x)
  <2>1. l # 1
    BY <1>3
  <2>2. x \in Works(n) /\ SameAnswer(w, x)
    BY <1>2, <1>5, <2>1, ReturnedFacts
  <2> QED BY <2>2, AnswerIsReply
<1>7. x.out[2] = r
  <2>1. x.out[l] = r
    BY <1>2, <1>5, ReturnedFacts
  <2> QED BY <1>3, <2>1
<1>8. Server' = Server
  BY LayersKept
<1>9. PICK c \in Nat, e \in Nat, last \in Nat :
        /\ c = CallAt[k] /\ e = FinalizerAt(k) /\ last = Len(Stages[k])
        /\ e < c /\ c < last /\ c > 2
  <2>1. /\ FinalizerAt(k) \in 1 .. 2 /\ FinalizerAt(k) < CallAt[k] /\ CallAt[k] < Len(Stages[k])
        /\ Len(Stages[k]) \in Nat /\ CallAt[k] \in Nat /\ CallAt[k] > 2
    BY ServerStages
  <2> QED BY <2>1
<1>10. ServingOK /\ Serving
  <2>1. 2 > 1
    OBVIOUS
  <2> QED BY <2>1 DEF ServerOK, Serving
<1>11. f.pc > e /\ f.pc # last /\ f.pc # 1 /\ f.pc = c
  BY <1>1, <1>9
<1>12. Quiet(w) /\ Unfinalized(w) /\ f.defers = <<"finalizer">>
  BY <1>1, <1>9, <1>10, <1>11 DEF ServingOK
<1>13. Quiet(x) /\ Unfinalized(x)
  BY <1>6, <1>12 DEF Quiet, Unfinalized, SameReply
<1>14. \/ Resume(th["serve"], th'["serve"]) /\ w' = x
       \/ Drop(th["serve"], th'["serve"]) /\ r = "panic" /\ w' = x
       \/ Drop(th["serve"], th'["serve"]) /\ r = "err" /\ w' \in Failures(x, l - 1, "call")
  <2>1. \/ End(th["serve"], th'["serve"])
        \/ Resume(th["serve"], th'["serve"]) /\ w' = x
        \/ Drop(th["serve"], th'["serve"]) /\ r = "panic" /\ w' = x
        \/ Drop(th["serve"], th'["serve"]) /\ r = "err" /\ w' \in Failures(x, l - 1, "call")
    BY <1>0, <1>3, <1>4, <1>5, ReturnEffect
  <2>2. ~End(th["serve"], th'["serve"])
    BY DEF End
  <2> QED BY <2>1, <2>2
<1>15. CASE Resume(th["serve"], th'["serve"]) /\ w' = x
  <2>1. r = "ok"
    BY <1>4, <1>15 DEF Resume
  <2>2. /\ Len(th'["serve"].stack) = 1 /\ th'["serve"].st = "run"
        /\ th'["serve"].stack[1].pc = f.pc + 1 /\ th'["serve"].stack[1].defers = f.defers
    <3>1. 2 - 1 = 1
      OBVIOUS
    <3> QED BY <1>1, <1>9, <1>11, <1>15, <3>1 DEF Resume
  <2>3. f.pc + 1 > e
    BY <1>9, <1>11
  <2>4. ServingOK'
    BY <1>1, <1>7, <1>8, <1>9, <1>12, <1>13, <1>15, <2>1, <2>2, <2>3 DEF ServingOK, Quiet, Unfinalized
  <2> QED BY <2>2, <2>4 DEF ServerOK, Serving
<1>16. ASSUME Drop(th["serve"], th'["serve"])
       PROVE  /\ Len(th'["serve"].stack) = 1 /\ th'["serve"].st = "unwind" /\ th'["serve"].res = r
              /\ th'["serve"].stack[1] = f /\ ~Serving' /\ ~TurnedAway'
  <2>1. 2 - 1 = 1 /\ 1 \in 1 .. 2 - 1 /\ ~(1 > 1)
    OBVIOUS
  <2>2. /\ Len(th'["serve"].stack) = 1 /\ th'["serve"].st = "unwind" /\ th'["serve"].res = r
        /\ th'["serve"].stack[1] = f
    BY <1>1, <1>4, <1>16, <2>1 DEF Drop
  <2>3. ~Serving'
    BY <2>1, <2>2 DEF Serving
  <2> QED BY <1>11, <2>2, <2>3 DEF TurnedAway
<1>17. CASE Drop(th["serve"], th'["serve"]) /\ r = "panic" /\ w' = x
  <2>1. UnwoundOK'
    BY <1>8, <1>12, <1>13, <1>16, <1>17 DEF UnwoundOK, Answered, Quiet, Unfinalized
  <2> QED BY <1>8, <1>16, <1>17, <2>1 DEF ServerOK
<1>18. CASE Drop(th["serve"], th'["serve"]) /\ r = "err" /\ w' \in Failures(x, l - 1, "call")
  <2>1. w' \in Failures(x, 1, "call") /\ 1 \in 1 .. n
    <3>1. l - 1 = 1 /\ 1 \in 1 .. n
      BY <1>2, <1>3
    <3> QED BY <1>18, <3>1
  <2>2. PICK s : s = "call"
    OBVIOUS
  <2>3. w' \in Failures(x, 1, s) /\ s # "post" /\ s # "respond"
    BY <2>1, <2>2
  <2>4. /\ Answered(w', "err") /\ Unfinalized(w')
        /\ Server = "grpc" => w'.sent = 0 /\ w'.ans = {}
    BY <1>6, <1>13, <2>1, <2>3, ErrorAnswered
  <2>5. UnwoundOK'
    BY <1>8, <1>12, <1>16, <1>18, <2>4 DEF UnwoundOK, Answered, Unfinalized
  <2> QED BY <1>8, <1>16, <1>18, <2>5 DEF ServerOK
<1> QED BY <1>14, <1>15, <1>17, <1>18

(* A step of "serve" further in.                                             *)
LEMMA ServerIsCalled ==
  ASSUME Types, Shape, ServerOK, Step("serve"), Len(th["serve"].stack) > 1,
         Return("serve") => Len(th["serve"].stack) # 2
  PROVE  ServerOK'
<1>0. PICK t \in Goroutines : t = "serve"
  BY DEF Goroutines
<1>1. Alive(t) /\ config' = config
  BY <1>0, StepWork DEF Step
<1>2. PICK n \in Nat : n = Len(th[t].stack) /\ n > 1 /\ Top(t).l = n
  BY <1>0, <1>1, ServerFrame
<1>3. SameReply(w, w')
  <2>1. Top(t).l # 1 /\ (Return(t) => Top(t).l # 2)
    <3>1. n # 1 /\ (Return(t) => n # 2)
      <4>1. ~(1 > 1)
        OBVIOUS
      <4> QED BY <1>0, <1>2, <4>1
    <3> QED BY <1>2, <3>1
  <2> QED BY <1>0, <2>1, StepAnswers
<1>4. PICK m \in Nat :
        /\ m = Len(th'[t].stack) /\ m > 1 /\ th'[t].st \in {"run", "unwind"}
        /\ th'[t].stack[1] = th[t].stack[1]
  <2>0. 1 \in 1 .. n - 1 /\ n # 1
    <3>1. \A i \in Nat : i > 1 => 1 \in 1 .. i - 1 /\ i # 1
      OBVIOUS
    <3> QED BY <1>2, <3>1
  <2>1. CASE Defer(t) \/ Pass(t)
    <3>1. Advance(th[t], th'[t])
      BY <2>1, DeferEffect, PassEffect
    <3> QED BY <1>2, <2>0, <3>1 DEF Advance
  <2>2. CASE Fail(t) \/ Panic(t)
    <3>1. \E r : GiveUp(th[t], th'[t], r)
      BY <2>2, FailEffect, PanicEffect
    <3> QED BY <1>2, <3>1 DEF GiveUp
  <2>3. CASE Call(t)
    <3>1. Push(th[t], th'[t])
      BY <2>3, CallEffect
    <3>2. 1 \in 1 .. n /\ n + 1 > 1 /\ n + 1 \in Nat
      BY <1>2
    <3> QED BY <1>2, <3>1, <3>2 DEF Push
  <2>4. CASE RunDeferred(t)
    <3>1. PopDefer(th[t], th'[t])
      BY <2>4, RunDeferredEffect
    <3> QED BY <1>2, <2>0, <3>1 DEF PopDefer
  <2>5. CASE Return(t)
    <3>1. n # 2
      BY <1>0, <1>2, <2>5
    <3>2. n - 1 > 1 /\ n - 1 \in Nat /\ 1 \in 1 .. n - 2
      <4>1. \A i \in Nat : i > 1 /\ i # 2 => i - 1 > 1 /\ i - 1 \in Nat /\ 1 \in 1 .. i - 2
        OBVIOUS
      <4> QED BY <1>2, <3>1, <4>1
    <3>3. End(th[t], th'[t]) \/ Resume(th[t], th'[t]) \/ Drop(th[t], th'[t])
      BY <2>5, ReturnEffect
    <3>4. ~End(th[t], th'[t])
      BY <1>2, <2>0 DEF End
    <3>5. CASE Resume(th[t], th'[t])
      <4>1. /\ Len(th'[t].stack) = n - 1 /\ th'[t].st \in {"run", "unwind"}
            /\ \A p \in 1 .. n - 2 : th'[t].stack[p] = th[t].stack[p]
        BY <1>2, <3>5 DEF Resume
      <4> QED BY <3>2, <4>1
    <3>6. CASE Drop(th[t], th'[t])
      <4>1. /\ Len(th'[t].stack) = n - 1 /\ th'[t].st = "unwind"
            /\ \A p \in 1 .. n - 1 : th'[t].stack[p] = th[t].stack[p]
        BY <1>2, <3>6 DEF Drop
      <4> QED BY <2>0, <3>2, <4>1
    <3> QED BY <3>3, <3>4, <3>5, <3>6
  <2> QED BY <1>0, <2>1, <2>2, <2>3, <2>4, <2>5 DEF Step
<1> QED BY <1>0, <1>1, <1>2, <1>3, <1>4, ServerWaits

(* A step of the goroutine that Hystrix started.                             *)
LEMMA ServerApart ==
  ASSUME Types, Shape, ServerOK, Step("run")
  PROVE  ServerOK'
<1>0. PICK t \in Goroutines : t = "run"
  BY DEF Goroutines
<1>1. /\ Alive(t) /\ config' = config /\ (Return(t) => OutcomeOf(t))
      /\ (~Return(t) => w'.out = w.out) /\ Turn(t)
  BY <1>0, StepWork, StepEffects DEF Step
<1>2. PICK n \in Nat : n = Len(th[t].stack) /\ n > 0 /\ Top(t) = th[t].stack[n] /\ FrameOK(t, n)
  <2>1. PICK n \in Nat : n = Len(th[t].stack) /\ n > 0 /\ Top(t) = th[t].stack[n]
                         /\ \A p \in 1 .. n : FrameOK(t, p)
    BY <1>1, TopFacts
  <2>2. n \in 1 .. n
    BY <2>1
  <2> QED BY <2>1, <2>2
<1>3. PICK b \in Nat : b = Base /\ b > 2
  <2>1. th["run"].st # "off"
    BY <1>0, <1>1 DEF Alive
  <2>2. Base > 2
    BY <2>1 DEF Shape
  <2>3. 1 \in 1 .. Len(th[t].stack)
    BY <1>2
  <2>4. th[t].stack[1] \in Frames
    BY <1>1, <2>3, TopFacts
  <2> QED BY <1>0, <2>2, <2>4 DEF Base, Frames
<1>4. PICK l \in Nat : l = Top(t).l /\ l > 2
  <2>1. Top(t).l = b + n - 1
    BY <1>0, <1>2, <1>3 DEF FrameOK, Base
  <2> QED BY <1>2, <1>3, <2>1
<1>5. l # 1 /\ l # 2
  BY <1>4
<1>6. SameReply(w, w')
  BY <1>0, <1>4, <1>5, StepAnswers
<1>7. 1 \in 1 .. Len(Layers) /\ 2 \in 1 .. Len(Layers)
  <2>1. Len(Layers) \in Nat /\ Len(Layers) >= 2
    BY LayerKinds DEF Types
  <2> QED BY <2>1
<1>8. w'.out[1] = w.out[1] /\ w'.out[2] = w.out[2]
  BY <1>1, <1>4, <1>5, <1>7 DEF OutcomeOf
<1>9. th'["serve"] = th["serve"]
  BY <1>0, <1>1 DEF Turn, Goroutines
<1> QED BY <1>1, <1>6, <1>8, <1>9, ServerKept

(* Every step of a goroutine keeps the invariant of the server.              *)
LEMMA StepServer ==
  ASSUME Types, Shape, ServerOK, NEW t \in Goroutines, Step(t)
  PROVE  ServerOK'
<1>1. CASE t = "run"
  BY <1>1, ServerApart
<1>2. CASE t = "serve"
  <2>1. /\ config' = config /\ Step("serve")
        /\ (Return("serve") => OutcomeOf("serve")) /\ (~Return("serve") => w'.out = w.out)
    BY <1>2, StepWork DEF Step
  <2>2. CASE Server = "main"
    BY <2>1, <2>2, LayersKept DEF ServerOK
  <2>3. CASE Server # "main"
    <3>1. PICK n \in Nat : n = Len(th["serve"].stack) /\ n > 0
      BY ServerFrame
    <3>2. CASE n > 1 /\ ~(Return("serve") /\ n = 2)
      BY <2>1, <3>1, <3>2, ServerIsCalled
    <3>3. CASE n = 2 /\ Return("serve")
      BY <2>1, <2>3, <3>1, <3>3, ServerResumes
    <3>4. CASE n = 1
      <4>1. Len(th["serve"].stack) = 1
        BY <3>1, <3>4
      <4>2. CASE Return("serve")
        BY <2>1, <2>3, <4>1, <4>2, ServerReturns
      <4>3. CASE ~Return("serve")
        <5>1. w'.out = w.out
          BY <2>1, <4>3
        <5>2. \/ Defer("serve") \/ Pass("serve") \/ Fail("serve") \/ Panic("serve")
              \/ Call("serve") \/ RunDeferred("serve")
          BY <2>1, <4>3 DEF Step
        <5>3. CASE Defer("serve")
          BY <2>1, <2>3, <4>1, <5>3, ServerDefers
        <5>4. CASE Pass("serve")
          BY <2>1, <2>3, <4>1, <5>1, <5>4, ServerPasses
        <5>5. CASE Fail("serve")
          BY <2>1, <2>3, <4>1, <5>1, <5>5, ServerFailed
        <5>6. CASE Panic("serve")
          BY <2>1, <2>3, <4>1, <5>1, <5>6, ServerPanics
        <5>7. CASE Call("serve")
          BY <2>1, <2>3, <4>1, <5>7, ServerCalls
        <5>8. CASE RunDeferred("serve")
          BY <2>1, <2>3, <4>1, <5>8, ServerFinalizes
        <5> QED BY <5>2, <5>3, <5>4, <5>5, <5>6, <5>7, <5>8
      <4> QED BY <4>2, <4>3
    <3>5. n > 1 \/ n = 1
      <4>1. \A i \in Nat : i > 0 => i > 1 \/ i = 1
        OBVIOUS
      <4> QED BY <3>1, <4>1
    <3> QED BY <3>2, <3>3, <3>4, <3>5
  <2> QED BY <2>2, <2>3
<1> QED BY <1>1, <1>2 DEF Goroutines

(* Hystrix keeps the invariant of the server.                                *)
LEMMA HystrixServer ==
  ASSUME Types, Shape, ServerOK, HystrixGo \/ HystrixReturns \/ HystrixTimeout, config' = config
  PROVE  ServerOK'
<1>1. PICK n \in Nat :
        /\ n = Len(th["serve"].stack) /\ Len(th'["serve"].stack) = n
        /\ th'["serve"].st \in {"run", "unwind"}
        /\ \A p \in 1 .. n - 1 : th'["serve"].stack[p] = th["serve"].stack[p]
        /\ SameAnswer(w, w') /\ w'.out = w.out /\ n > 1
  BY HystrixKeeps
<1>2. 1 \in 1 .. n - 1
  BY <1>1
<1>3. SameReply(w, w')
  BY <1>1, AnswerIsReply
<1> QED BY <1>1, <1>2, <1>3, ServerWaits

(* Every step keeps the invariant of the server.                             *)
LEMMA NextServer ==
  ASSUME Types, Shape, ServerOK, [Next]_vars
  PROVE  ServerOK'
<1>1. ASSUME NEW t \in Goroutines, Step(t)
      PROVE  ServerOK'
  BY <1>1, StepServer
<1>2. CASE HystrixStep
  BY <1>2, HystrixServer DEF HystrixStep
<1>3. CASE HystrixTimeout /\ UNCHANGED config
  BY <1>3, HystrixServer
<1>4. CASE Closes
  <2>a. config' = config /\ th' = th /\ SameAnswer(w, w') /\ w'.out = w.out
    BY <1>4, ClosesFacts DEF Closes, SameWork, SameCalls
  <2>1. config' = config /\ th' = th /\ SameReply(w, w') /\ w'.out = w.out
    BY <2>a, AnswerIsReply
  <2> QED BY <2>1, ServerKept
<1>5. CASE UNCHANGED vars
  <2>1. config' = config /\ th' = th /\ w' = w
    BY <1>5 DEF vars
  <2> QED BY <2>1, ServerKept DEF SameReply
<1> QED BY <1>1, <1>2, <1>3, <1>4, <1>5 DEF Next

(* The invariant of the server holds at the start.                           *)
LEMMA InitServer ==
  ASSUME Init
  PROVE  ServerOK
<1>0. 1 \in DOMAIN Layers
  <2>1. Len(Layers) \in Nat /\ Len(Layers) >= 2 /\ DOMAIN Layers = 1 .. Len(Layers)
    BY LayerKinds DEF Init, Configs
  <2> QED BY <2>1
<1>1. th["serve"] = Started(1) /\ Quiet(w) /\ Unfinalized(w)
  BY <1>0 DEF Init, Goroutines, Quiet, Unfinalized
<1>2. /\ th["serve"].st = "run" /\ Len(th["serve"].stack) = 1
      /\ th["serve"].stack[1].pc = 1 /\ th["serve"].stack[1].defers = <<>>
  BY <1>1 DEF Started, Frame
<1>3. SUFFICES ASSUME Server # "main" PROVE ServerOK
  BY DEF ServerOK
<1>4. Server \in ServerKinds \ {"main"}
  BY <1>3, LayersAssumption DEF Init, Server, ServerKinds
<1>5. ~(1 > FinalizerAt(Server)) /\ ~(1 > CallAt[Server])
  <2>1. FinalizerAt(Server) \in 1 .. 2 /\ CallAt[Server] \in Nat /\ CallAt[Server] > 2
    BY <1>4, ServerStages
  <2> QED BY <2>1
<1>6. ServingOK
  BY <1>1, <1>2, <1>5 DEF ServingOK
<1> QED BY <1>2, <1>6 DEF ServerOK, Serving

(* What AnsweredOnce says of a finished request, with its exceptions, for    *)
(* every set of servers, chains and clients (src/transport/http/server.go,   *)
(* jsonrpc/server.go, grpc/server.go, fasthttp/server.go): the answer is the *)
(* result or one error that was handled, but for a result of jsonrpc that    *)
(* cannot be marshalled and an HTTP encoder that fails half way; a panic has *)
(* no answer, but what the encoder that panicked had written; and the        *)
(* finalizers run once, with the code that was sent, but for a request that  *)
(* jsonrpc refuses with 405, where none runs, and the late code of an HTTP   *)
(* encoder that failed.                                                      *)
THEOREM OneAnswer == Spec => []AnsweredOnce
<1>1. Init => (Types /\ Shape /\ Ahead) /\ ServerOK
  BY InitShape, InitServer
<1>2. (Types /\ Shape /\ Ahead) /\ ServerOK /\ [Next]_vars =>
        (Types /\ Shape /\ Ahead)' /\ ServerOK'
  BY NextShape, NextServer
<1>3. Types /\ Shape /\ ServerOK => AnsweredOnce
  <2> SUFFICES ASSUME Types, Shape, ServerOK, Server # "main", w.out[1] # "none"
               PROVE  AnsweredOnce
    BY DEF AnsweredOnce
  <2>1. PICK r : r = w.out[1]
    OBVIOUS
  <2>2. th["serve"].st = "done" /\ Len(th["serve"].stack) = 1 /\ th["serve"].stack[1].defers = <<>>
    <3>1. ~Alive("serve") /\ th["serve"] \in Threads /\ th["serve"].st # "off"
      BY ServerFrame DEF Shape
    <3>2. th["serve"].st = "done"
      BY <3>1 DEF Alive, Threads
    <3> QED BY <3>2, ServerFrame
  <2>3. th["serve"].res = r /\ Server \in ServerKinds /\ r \in Results
    <3>1. th["serve"].res = r
      BY <2>1, <2>2 DEF ServerOK
    <3> QED BY <3>1, ServerFrame DEF Threads
  <2>4. ~Serving
    <3>1. Len(th["serve"].stack) = 1 /\ ~(1 > 1)
      BY <2>2
    <3> QED BY <2>2, <3>1 DEF Serving
  <2>5. CASE TurnedAway
    <3>1. RefusedOK
      BY <2>4, <2>5 DEF ServerOK
    <3> QED BY <2>1, <2>3, <3>1 DEF RefusedOK, AnsweredOnce, Refused
  <2>6. CASE ~TurnedAway
    <3>1. UnwoundOK
      BY <2>4, <2>6 DEF ServerOK
    <3>2. <<>> # <<"finalizer">>
      OBVIOUS
    <3>3. w.finalized[1] = 1 /\ w.saw = w.code /\ Answered(w, r)
      BY <2>2, <2>3, <3>1, <3>2 DEF UnwoundOK
    <3>4. Server = "grpc" =>
            IF r # "panic" THEN w.sent = w.code /\ w.ans = {IF r = "ok" THEN "result" ELSE "error"}
            ELSE w.sent = 0 /\ w.ans = {}
      BY <2>2, <2>3, <3>1 DEF UnwoundOK
    <3>5. w.sent # 405
      BY <2>3, <3>3, <3>4 DEF Answered, ServerKinds, Results
    <3>6. ~Refused
      BY <3>5 DEF Refused
    <3>7. CASE r = "ok"
      BY <2>1, <2>3, <3>3, <3>4, <3>6, <3>7
         DEF AnsweredOnce, Unwritten, Responding, Answered, ServerKinds
    <3>8. CASE r = "err"
      BY <2>1, <2>3, <3>3, <3>4, <3>6, <3>8
         DEF AnsweredOnce, HalfWritten, Responding, Answered, ServerKinds
    <3>9. CASE r = "panic"
      BY <2>1, <2>3, <3>3, <3>4, <3>6, <3>9
         DEF AnsweredOnce, CutShort, Responding, Answered, ServerKinds
    <3> QED BY <2>3, <3>7, <3>8, <3>9 DEF Results
  <2> QED BY <2>5, <2>6
<1> QED BY <1>1, <1>2, <1>3, PTL DEF Spec

-----------------------------------------------------------------------------

(* Spans. A layer with a tracer defers its finalizer, which finishes and     *)
(* sends the span in the context, and then starts its span; TraceEndpoint    *)
(* starts a span and defers the finish that sends it.                        *)
FinAt == [http |-> 1, grpc |-> 1, httpClient |-> 2, grpcClient |-> 3]
StartAt == [http |-> 2, grpc |-> 2, httpClient |-> 5, grpcClient |-> 6]

Once(d) ==
  \E i \in 1 .. Len(d) : d[i] = "finalizer" /\ \A j \in 1 .. Len(d) : j # i => d[j] # "finalizer"
Never(d) == \A j \in 1 .. Len(d) : d[j] # "finalizer"

Tracing(k, tr, st, fin, pc, d, ret) ==
  /\ k = "trace" /\ ~ret =>
       (st = "none" <=> pc = 1) /\ d = (IF pc = 3 THEN <<"finish">> ELSE <<>>)
  /\ k = "trace" /\ ret =>
       st # "none" /\ (d = <<"finish">> \/ (d = <<>> /\ st = "finished"))
  /\ k # "trace" => \A i \in 1 .. Len(d) : d[i] # "finish"
  /\ tr /\ ~ret =>
       /\ fin = 0 /\ (st = "none" <=> pc <= StartAt[k])
       /\ IF pc > FinAt[k] THEN Once(d) ELSE Never(d)
  /\ tr /\ ret => (fin = 0 /\ Once(d)) \/ (fin = 1 /\ Never(d))
FrameSpan(t, p) ==
  LET f == th[t].stack[p] IN
  Alive(t) =>
    Tracing(Layers[f.l], HasTracer(f.l), w.span[f.l].st, w.finalized[f.l], f.pc, f.defers,
            th[t].st = "unwind" /\ p = Len(th[t].stack))

One(b) == IF b THEN 1 ELSE 0
Ledger(k, tr, st, sent, fin, out, b) ==
  /\ st = "none" => sent = 0
  /\ k # "trace" /\ ~tr => st = "none"
  /\ k = "trace" /\ st # "none" =>
       sent = One(st = "finished") + One(b) /\ (out # "none" => st = "finished")
  /\ tr =>
       /\ fin <= 1 /\ (out # "none" => fin = 1)
       /\ st # "none" => sent = fin + One(b) /\ (fin > 0 => st = "finished")
SpanOK(m) ==
  Ledger(Layers[m], HasTracer(m), w.span[m].st, w.span[m].sent, w.finalized[m], w.out[m],
         Borrowed(m))
SpansOK ==
  /\ \A m \in 1 .. Len(Layers) : SpanOK(m)
  /\ \A t \in Goroutines : \A p \in 1 .. Len(th[t].stack) : FrameSpan(t, p)

(* Where a layer with a tracer defers its finalizer and starts its span.     *)
LEMMA TracerStages ==
  \A k \in DOMAIN Tracers :
    /\ k \in {"http", "grpc", "httpClient", "grpcClient"} /\ k \in Kinds
    /\ FinAt[k] \in Nat /\ StartAt[k] \in Nat /\ FinAt[k] > 0
    /\ FinAt[k] < StartAt[k] /\ StartAt[k] < Len(Stages[k])
    /\ k \in ServerKinds => CallAt[k] > StartAt[k]
    /\ \A i \in 1 .. Len(Stages[k]) :
         /\ Stages[k][i] = "finalizer" <=> i = FinAt[k]
         /\ Stages[k][i] = "before" <=> i = StartAt[k]
         /\ Stages[k][i] = "after" => i > StartAt[k]
         /\ Stages[k][i] \in Fallible \cup UserCode \cup {"call"} => i > FinAt[k]
         /\ Stages[k][i] \in DeferStages => i # Len(Stages[k])
<1> SUFFICES ASSUME NEW k \in {"http", "grpc", "httpClient", "grpcClient"}
             PROVE  /\ k \in Kinds
                    /\ FinAt[k] \in Nat /\ StartAt[k] \in Nat /\ FinAt[k] > 0
                    /\ FinAt[k] < StartAt[k] /\ StartAt[k] < Len(Stages[k])
                    /\ k \in ServerKinds => CallAt[k] > StartAt[k]
                    /\ \A i \in 1 .. Len(Stages[k]) :
                         /\ Stages[k][i] = "finalizer" <=> i = FinAt[k]
                         /\ Stages[k][i] = "before" <=> i = StartAt[k]
                         /\ Stages[k][i] = "after" => i > StartAt[k]
                         /\ Stages[k][i] \in Fallible \cup UserCode \cup {"call"} => i > FinAt[k]
                         /\ Stages[k][i] \in DeferStages => i # Len(Stages[k])
  BY DEF Tracers
<1> USE DEF Stages, CallAt, FinAt, StartAt, Fallible, UserCode, DeferStages, ServerKinds,
            ClientKinds, Kinds
<1>1. CASE k = "http" BY <1>1 DEF HttpServer
<1>2. CASE k = "grpc" BY <1>2 DEF GrpcServer
<1>3. CASE k = "httpClient" BY <1>3 DEF HttpClient
<1>4. CASE k = "grpcClient" BY <1>4 DEF GrpcClient
<1> QED BY <1>1, <1>2, <1>3, <1>4

(* TraceEndpoint starts its span, defers the finish and calls.               *)
LEMMA TraceStages ==
  /\ Len(Stages["trace"]) = 3 /\ Stages["trace"][1] = "start" /\ Stages["trace"][2] = "finish"
  /\ Stages["trace"][3] = "call" /\ CallAt["trace"] = 3 /\ "trace" \in Kinds
  /\ "trace" \notin DOMAIN Tracers
BY DEF Stages, TraceEndpoint, CallAt, Kinds, Middlewares, Tracers

(* A layer that has a tracer is the server or the client.                    *)
LEMMA TracerLayer ==
  ASSUME Types, NEW l \in 1 .. Len(Layers), HasTracer(l)
  PROVE  /\ Layers[l] \in DOMAIN Tracers /\ Layers[l] # "trace"
         /\ l = 1 => Layers[l] \in ServerKinds
         /\ l # 1 => l = Len(Layers)
<1>1. Layers[l] \in DOMAIN Tracers
  BY DEF HasTracer
<1>2. Layers[l] # "trace"
  BY <1>1, TraceStages
<1>3. Layers[l] \notin Middlewares
  BY <1>1 DEF Tracers, Middlewares
<1>4. l = 1 => Layers[l] \in ServerKinds
  BY LayerKinds DEF Types
<1>5. ASSUME l # 1, l # Len(Layers)
      PROVE  FALSE
  <2>0. Len(Layers) \in Nat
    BY LayerKinds DEF Types
  <2>1. l \in 2 .. Len(Layers) - 1
    BY <1>5, <2>0
  <2> QED BY <1>3, <2>1, LayerKinds DEF Types
<1> QED BY <1>1, <1>2, <1>4, <1>5

(* An empty list of deferred calls has no finalizer.                         *)
LEMMA OnceFacts ==
  ASSUME NEW d \in Seq(DeferredCalls)
  PROVE  /\ Never(<<>>) /\ ~Once(<<>>) /\ ~(Once(d) /\ Never(d))
<1>1. Never(<<>>) /\ ~Once(<<>>)
  BY DEF Never, Once
<1>2. ~(Once(d) /\ Never(d))
  BY DEF Never, Once
<1> QED BY <1>1, <1>2

(* The finalizer is deferred once, and popped once.                          *)
LEMMA OnceConcat ==
  ASSUME NEW a \in Seq(DeferredCalls), NEW b \in Seq(DeferredCalls)
  PROVE  /\ Never(a) /\ Never(b) => Never(a \o b)
         /\ Once(a) /\ Never(b) => Once(a \o b)
         /\ Never(a) /\ b = <<"finalizer">> => Once(a \o b)
<1>1. PICK c \in Seq(DeferredCalls) : c = a \o b
  BY ConcatProperties
<1>2. PICK m \in Nat, n \in Nat : m = Len(a) /\ n = Len(b)
  BY LenProperties
<1>3. Len(c) = m + n /\ \A i \in 1 .. m + n : c[i] = IF i <= m THEN a[i] ELSE b[i - m]
  BY <1>1, <1>2, ConcatProperties
<1>4. \A i \in 1 .. m + n : (i <= m /\ i \in 1 .. m) \/ (~(i <= m) /\ i - m \in 1 .. n)
  BY <1>2
<1>5. ASSUME Never(a), Never(b) PROVE Never(c)
  BY <1>2, <1>3, <1>4, <1>5 DEF Never
<1>6. ASSUME Once(a), Never(b) PROVE Once(c)
  <2>1. PICK i \in 1 .. m : a[i] = "finalizer" /\ \A j \in 1 .. m : j # i => a[j] # "finalizer"
    BY <1>2, <1>6 DEF Once
  <2>2. i \in 1 .. m + n /\ i <= m
    BY <1>2
  <2>3. c[i] = "finalizer"
    BY <1>3, <2>1, <2>2
  <2>4. \A j \in 1 .. m + n : j # i => c[j] # "finalizer"
    BY <1>2, <1>3, <1>4, <1>6, <2>1 DEF Never
  <2> QED BY <1>3, <2>2, <2>3, <2>4 DEF Once
<1>7. ASSUME Never(a), b = <<"finalizer">> PROVE Once(c)
  <2>1. n = 1 /\ b[1] = "finalizer"
    BY <1>2, <1>7
  <2>2. m + 1 \in 1 .. m + n /\ ~(m + 1 <= m) /\ m + 1 - m = 1
    BY <1>2, <2>1
  <2>3. c[m + 1] = "finalizer"
    BY <1>3, <2>1, <2>2
  <2>4. \A j \in 1 .. m + n : j # m + 1 => j <= m /\ j \in 1 .. m
    BY <1>2, <2>1
  <2>5. \A j \in 1 .. m + n : j # m + 1 => c[j] # "finalizer"
    BY <1>2, <1>3, <1>7, <2>4 DEF Never
  <2> QED BY <1>3, <2>2, <2>3, <2>5 DEF Once
<1> QED BY <1>1, <1>5, <1>6, <1>7

(* The last deferred call, taken off, was the finalizer or was not.          *)
LEMMA OncePop ==
  ASSUME NEW d \in Seq(DeferredCalls), Len(d) > 0
  PROVE  /\ Never(d) => Never(Front(d)) /\ d[Len(d)] # "finalizer"
         /\ Once(d) /\ d[Len(d)] = "finalizer" => Never(Front(d))
         /\ Once(d) /\ d[Len(d)] # "finalizer" => Once(Front(d))
<1>1. PICK n \in Nat : n = Len(d) /\ n > 0
  BY LenProperties
<1>2. PICK c \in Seq(DeferredCalls) : c = Front(d)
  BY FrontFacts
<1>3. Len(c) = n - 1 /\ \A i \in 1 .. n - 1 : c[i] = d[i]
  BY <1>1, <1>2, FrontFacts
<1>4. n \in 1 .. n /\ \A i \in 1 .. n - 1 : i \in 1 .. n /\ i # n
  BY <1>1
<1>5. ASSUME Never(d) PROVE Never(c) /\ d[n] # "finalizer"
  BY <1>1, <1>3, <1>4, <1>5 DEF Never
<1>6. ASSUME Once(d), d[n] = "finalizer" PROVE Never(c)
  <2>1. PICK i \in 1 .. n : d[i] = "finalizer" /\ \A j \in 1 .. n : j # i => d[j] # "finalizer"
    BY <1>1, <1>6 DEF Once
  <2>2. i = n
    BY <1>4, <1>6, <2>1
  <2>3. \A j \in 1 .. n - 1 : c[j] # "finalizer"
    BY <1>3, <1>4, <2>1, <2>2
  <2> QED BY <1>3, <2>3 DEF Never
<1>7. ASSUME Once(d), d[n] # "finalizer" PROVE Once(c)
  <2>1. PICK i \in 1 .. n : d[i] = "finalizer" /\ \A j \in 1 .. n : j # i => d[j] # "finalizer"
    BY <1>1, <1>7 DEF Once
  <2>2. i # n
    BY <1>7, <2>1
  <2>3. i \in 1 .. n - 1
    BY <1>1, <2>2
  <2>4. c[i] = "finalizer" /\ \A j \in 1 .. n - 1 : j # i => c[j] # "finalizer"
    BY <1>3, <1>4, <2>1, <2>3
  <2> QED BY <1>3, <2>3, <2>4 DEF Once
<1> QED BY <1>1, <1>2, <1>5, <1>6, <1>7

(* A frame starts untraced.                                                  *)
LEMMA TracingStarts ==
  ASSUME NEW k \in Kinds, NEW tr \in BOOLEAN, tr => k \in DOMAIN Tracers
  PROVE  Tracing(k, tr, "none", 0, 1, <<>>, FALSE)
<1>1. \A i \in 1 .. Len(<<>>) : <<>>[i] # "finish"
  OBVIOUS
<1>2. tr => 1 <= StartAt[k] /\ ~(1 > FinAt[k])
  BY TracerStages
<1>3. tr => Never(<<>>)
  BY DEF Never
<1> QED BY <1>1, <1>2, <1>3 DEF Tracing

(* What a frame knows stays when its span stays as far as it was.            *)
LEMMA TracingKept ==
  ASSUME NEW k, NEW tr, NEW st, NEW fin, NEW pc, NEW d, NEW ret, NEW s2, NEW f2,
         Tracing(k, tr, st, fin, pc, d, ret), s2 = "none" <=> st = "none",
         st = "finished" => s2 = "finished", tr => f2 = fin
  PROVE  Tracing(k, tr, s2, f2, pc, d, ret)
BY DEF Tracing

(* A frame defers a call and goes on.                                        *)
LEMMA TracingDefers ==
  ASSUME NEW k \in Kinds, NEW tr \in BOOLEAN, tr => k \in DOMAIN Tracers, NEW st, NEW fin,
         NEW i \in 1 .. Len(Stages[k]), NEW a \in Seq(DeferredCalls), NEW b \in Seq(DeferredCalls),
         Stages[k][i] \in DeferStages, b = Deferral(Stages[k][i]),
         Tracing(k, tr, st, fin, i, a, FALSE)
  PROVE  /\ i # Len(Stages[k]) => Tracing(k, tr, st, fin, i + 1, a \o b, FALSE)
         /\ i = Len(Stages[k]) => Tracing(k, tr, st, fin, i, a \o b, TRUE)
<1>1. CASE k = "trace"
  <2>1. i = 2 /\ Len(Stages[k]) = 3 /\ Stages[k][i] = "finish" /\ ~tr
    BY <1>1, TraceStages DEF DeferStages
  <2>2. a = <<>> /\ st # "none"
    BY <1>1, <2>1 DEF Tracing
  <2>3. b = <<"finish">>
    BY <2>1, DeferralFacts
  <2>4. a \o b = <<"finish">> /\ i + 1 = 3 /\ 3 # 1
    BY <2>1, <2>2, <2>3
  <2> QED BY <1>1, <2>1, <2>2, <2>4 DEF Tracing
<1>2. CASE k # "trace"
  <2>1. \A j \in 1 .. Len(a) : a[j] # "finish"
    BY <1>2 DEF Tracing
  <2>2. Stages[k][i] # "finish"
    BY <1>2, StageOwners
  <2>3. \A j \in 1 .. Len(b) : b[j] # "finish"
    <3>1. CASE Stages[k][i] \in {"finalizer", "report"}
      <4>1. b = <<Stages[k][i]>>
        BY <3>1, DeferralFacts
      <4> QED BY <2>2, <4>1
    <3>2. CASE Stages[k][i] \notin {"finalizer", "report", "finish"}
      BY <3>2, DeferralFacts
    <3> QED BY <2>2, <3>1, <3>2
  <2>4. \A j \in 1 .. Len(a \o b) : (a \o b)[j] # "finish"
    BY <2>1, <2>3, ConcatWithout
  <2>5. CASE ~tr
    BY <1>2, <2>4, <2>5 DEF Tracing
  <2>6. CASE tr
    <3>1. /\ FinAt[k] \in Nat /\ StartAt[k] \in Nat /\ FinAt[k] < StartAt[k]
          /\ Stages[k][i] = "finalizer" <=> i = FinAt[k]
          /\ Stages[k][i] = "before" <=> i = StartAt[k]
          /\ i # Len(Stages[k])
      BY <2>6, TracerStages
    <3>2. fin = 0 /\ (st = "none" <=> i <= StartAt[k]) /\ (IF i > FinAt[k] THEN Once(a) ELSE Never(a))
      BY <2>6 DEF Tracing
    <3>3. i # StartAt[k]
      BY <3>1 DEF DeferStages
    <3>4. i \in Nat
      BY CallStages
    <3>5. i + 1 <= StartAt[k] <=> i <= StartAt[k]
      BY <3>1, <3>3, <3>4
    <3>6. IF i + 1 > FinAt[k] THEN Once(a \o b) ELSE Never(a \o b)
      <4>1. CASE i = FinAt[k]
        <5>1. b = <<"finalizer">> /\ Never(a)
          BY <3>1, <3>2, <3>4, <4>1, DeferralFacts
        <5>2. i + 1 > FinAt[k]
          BY <3>4, <4>1
        <5> QED BY <5>1, <5>2, OnceConcat
      <4>2. CASE i # FinAt[k]
        <5>1. Never(b)
          <6>1. CASE Stages[k][i] \in {"finish", "report"}
            <7>1. b = <<Stages[k][i]>>
              BY <6>1, DeferralFacts
            <7> QED BY <6>1, <7>1 DEF Never
          <6>2. CASE Stages[k][i] \notin {"finalizer", "report", "finish"}
            BY <6>2, DeferralFacts DEF Never
          <6> QED BY <3>1, <4>2, <6>1, <6>2
        <5>2. i + 1 > FinAt[k] <=> i > FinAt[k]
          BY <3>1, <3>4, <4>2
        <5> QED BY <3>2, <5>1, <5>2, OnceConcat
      <4> QED BY <4>1, <4>2
    <3> QED BY <1>2, <2>4, <2>6, <3>1, <3>2, <3>5, <3>6 DEF Tracing
  <2> QED BY <2>5, <2>6
<1> QED BY <1>1, <1>2

(* A stage passes, or the next layer has returned to it: a layer with a      *)
(* tracer has its span from "before" on, TraceEndpoint from "start" on.      *)
LEMMA TracingMoves ==
  ASSUME NEW k \in Kinds, NEW tr \in BOOLEAN, tr => k \in DOMAIN Tracers, NEW st, NEW fin,
         NEW i \in 1 .. Len(Stages[k]), NEW d \in Seq(DeferredCalls), NEW s2,
         Stages[k][i] \notin DeferStages, Tracing(k, tr, st, fin, i, d, FALSE),
         IF Stages[k][i] = "start" \/ (Stages[k][i] = "before" /\ tr)
         THEN s2 # "none" ELSE s2 = "none" <=> st = "none"
  PROVE  /\ i # Len(Stages[k]) => Tracing(k, tr, s2, fin, i + 1, d, FALSE)
         /\ i = Len(Stages[k]) => Tracing(k, tr, s2, fin, i, d, TRUE)
<1>0. i \in Nat /\ Len(Stages[k]) \in Nat
  BY CallStages
<1>1. CASE k = "trace"
  <2>1. Len(Stages[k]) = 3 /\ ~tr /\ (i = 1 \/ i = 3)
    <3>1. Len(Stages[k]) = 3 /\ ~tr /\ (i = 2 => Stages[k][i] \in DeferStages)
      BY <1>1, TraceStages DEF DeferStages
    <3>2. i \in 1 .. 3
      BY <3>1
    <3> QED BY <3>1, <3>2
  <2>2. CASE i = 1
    <3>1. s2 # "none" /\ d = <<>> /\ i + 1 = 2 /\ 2 # 3 /\ 2 # 1
      BY <1>1, <2>2, TraceStages DEF Tracing
    <3> QED BY <1>1, <2>1, <2>2, <3>1 DEF Tracing
  <2>3. CASE i = 3
    <3>1. s2 # "none" /\ d = <<"finish">>
      BY <1>1, <2>1, <2>3, TraceStages DEF Tracing
    <3> QED BY <1>1, <2>1, <2>3, <3>1 DEF Tracing
  <2> QED BY <2>1, <2>2, <2>3
<1>2. CASE k # "trace" /\ ~tr
  BY <1>2 DEF Tracing
<1>3. CASE k # "trace" /\ tr
  <2>1. /\ FinAt[k] \in Nat /\ StartAt[k] \in Nat /\ FinAt[k] < StartAt[k]
        /\ StartAt[k] < Len(Stages[k])
        /\ Stages[k][i] = "finalizer" <=> i = FinAt[k]
        /\ Stages[k][i] = "before" <=> i = StartAt[k]
    BY <1>3, TracerStages
  <2>2. Stages[k][i] # "start"
    BY <1>3, StageOwners
  <2>3. i # FinAt[k]
    BY <2>1 DEF DeferStages
  <2>4. /\ fin = 0 /\ (st = "none" <=> i <= StartAt[k])
        /\ IF i > FinAt[k] THEN Once(d) ELSE Never(d)
        /\ \A j \in 1 .. Len(d) : d[j] # "finish"
    BY <1>3 DEF Tracing
  <2>5. s2 = "none" <=> i + 1 <= StartAt[k]
    BY <1>0, <1>3, <2>1, <2>2, <2>4
  <2>6. i + 1 > FinAt[k] <=> i > FinAt[k]
    BY <1>0, <2>1, <2>3
  <2>7. CASE i # Len(Stages[k])
    BY <1>3, <2>4, <2>5, <2>6, <2>7 DEF Tracing
  <2>8. CASE i = Len(Stages[k])
    <3>1. i > FinAt[k] /\ ~(i + 1 <= StartAt[k])
      BY <1>0, <2>1, <2>8
    <3> QED BY <1>3, <2>4, <2>5, <2>8, <3>1 DEF Tracing
  <2> QED BY <2>7, <2>8
<1> QED BY <1>1, <1>2, <1>3

(* A stage fails, code of the user panics, or the next layer has failed.     *)
LEMMA TracingFails ==
  ASSUME NEW k \in Kinds, NEW tr \in BOOLEAN, tr => k \in DOMAIN Tracers, NEW st, NEW fin,
         NEW i \in 1 .. Len(Stages[k]), NEW d \in Seq(DeferredCalls),
         Stages[k][i] \in Fallible \cup UserCode \cup {"call", "wait"},
         Tracing(k, tr, st, fin, i, d, FALSE)
  PROVE  Tracing(k, tr, st, fin, i, d, TRUE)
<1>0. i \in Nat /\ Len(Stages[k]) \in Nat
  BY CallStages
<1>1. CASE k = "trace"
  <2>1. i \in 1 .. 3 /\ ~tr
    BY <1>1, TraceStages
  <2>2. i # 1 /\ i # 2
    BY <1>1, TraceStages DEF Fallible, UserCode
  <2>3. i = 3
    BY <2>1, <2>2
  <2> QED BY <1>1, <2>1, <2>3 DEF Tracing
<1>2. CASE k # "trace" /\ ~tr
  BY <1>2 DEF Tracing
<1>3. CASE k # "trace" /\ tr
  <2>1. Stages[k][i] # "wait"
    BY <1>3, CallStages, TracerStages
  <2>2. /\ FinAt[k] \in Nat /\ StartAt[k] \in Nat /\ i > FinAt[k]
    BY <1>3, <2>1, TracerStages
  <2> QED BY <1>3, <2>2 DEF Tracing
<1> QED BY <1>1, <1>2, <1>3

(* What an unwinding frame knows of its finalizer does not depend on its span.*)
LEMMA TracingUnwinds ==
  ASSUME NEW k, NEW tr, NEW st, NEW fin, NEW i, NEW d, Tracing(k, tr, st, fin, i, d, TRUE),
         k # "trace", NEW s2, NEW f2, tr => f2 = fin
  PROVE  Tracing(k, tr, s2, f2, i, d, TRUE)
BY DEF Tracing

(* A deferred call runs.                                                     *)
LEMMA TracingPops ==
  ASSUME NEW k \in Kinds, NEW tr \in BOOLEAN, tr => k \in DOMAIN Tracers, NEW st, NEW fin,
         NEW i, NEW d \in Seq(DeferredCalls), Len(d) > 0, NEW s2, NEW f2,
         Tracing(k, tr, st, fin, i, d, TRUE), s2 = "none" <=> st = "none",
         d[Len(d)] = "finish" => s2 = "finished",
         tr => f2 = IF d[Len(d)] = "finalizer" THEN fin + 1 ELSE fin
  PROVE  Tracing(k, tr, s2, f2, i, Front(d), TRUE)
<1>0. PICK n \in Nat : n = Len(d) /\ n > 0
  BY LenProperties
<1>1. CASE k = "trace"
  <2>1. ~tr
    BY <1>1, TraceStages
  <2>2. d = <<"finish">> /\ st # "none"
    BY <1>0, <1>1 DEF Tracing
  <2>3. Front(d) = <<>> /\ d[Len(d)] = "finish"
    BY <2>2 DEF Front
  <2> QED BY <1>1, <2>1, <2>2, <2>3 DEF Tracing
<1>2. CASE k # "trace"
  <2>1. PICK c \in Seq(DeferredCalls) : c = Front(d)
    BY FrontFacts
  <2>2. Len(c) = n - 1 /\ \A j \in 1 .. n - 1 : c[j] = d[j]
    BY <1>0, <2>1, FrontFacts
  <2>3. \A j \in 1 .. n : d[j] # "finish"
    BY <1>0, <1>2 DEF Tracing
  <2>4. \A j \in 1 .. Len(c) : c[j] # "finish"
    <3>1. \A j \in 1 .. n - 1 : j \in 1 .. n
      BY <1>0
    <3> QED BY <2>2, <2>3, <3>1
  <2>5. CASE ~tr
    BY <1>2, <2>1, <2>4, <2>5 DEF Tracing
  <2>6. CASE tr
    <3>1. (fin = 0 /\ Once(d)) \/ (fin = 1 /\ Never(d))
      BY <2>6 DEF Tracing
    <3>2. (f2 = 0 /\ Once(c)) \/ (f2 = 1 /\ Never(c))
      <4>1. CASE fin = 0 /\ Once(d) /\ d[Len(d)] = "finalizer"
        BY <2>1, <2>6, <4>1, OncePop
      <4>2. CASE fin = 0 /\ Once(d) /\ d[Len(d)] # "finalizer"
        BY <2>1, <2>6, <4>2, OncePop
      <4>3. CASE fin = 1 /\ Never(d)
        BY <2>1, <2>6, <4>3, OncePop
      <4> QED BY <3>1, <4>1, <4>2, <4>3
    <3> QED BY <1>2, <2>1, <2>4, <2>6, <3>1, <3>2 DEF Tracing
  <2> QED BY <2>5, <2>6
<1> QED BY <1>1, <1>2

(* The span in the context of a layer depends on which spans are started;    *)
(* that of a layer which has started its own is its own.                     *)
LEMMA SpanInKept ==
  ASSUME NEW x, NEW y, NEW l, \A m \in 1 .. l : y.span[m].st = "none" <=> x.span[m].st = "none"
  PROVE  SpanIn(y, l) = SpanIn(x, l)
<1>1. {j \in 1 .. l : y.span[j].st # "none"} = {j \in 1 .. l : x.span[j].st # "none"}
  OBVIOUS
<1> QED BY <1>1 DEF SpanIn

(* The span in the context of a layer that has one is its own.               *)
LEMMA SpanOwn ==
  ASSUME NEW n \in Nat, NEW x \in Works(n), NEW l \in 1 .. n
  PROVE  IF x.span[l].st # "none" THEN SpanIn(x, l) = l ELSE SpanIn(x, l) \in 0 .. l - 1
<1>1. /\ SpanIn(x, l) \in 0 .. l
      /\ SpanIn(x, l) # 0 => x.span[SpanIn(x, l)].st # "none"
      /\ \A j \in 1 .. l : x.span[j].st # "none" => j <= SpanIn(x, l)
  BY SpanInContext
<1>2. l \in 1 .. l /\ l # 0
  OBVIOUS
<1>3. PICK j \in 0 .. l : j = SpanIn(x, l)
  BY <1>1
<1>4. CASE x.span[l].st # "none"
  <2>1. l <= j
    BY <1>1, <1>2, <1>3, <1>4
  <2>2. l = j
    BY <2>1
  <2> QED BY <1>3, <1>4, <2>2
<1>5. CASE x.span[l].st = "none"
  <2>1. j # l
    BY <1>1, <1>2, <1>3, <1>5
  <2>2. j \in 0 .. l - 1
    BY <2>1
  <2> QED BY <1>3, <1>5, <2>2
<1> QED BY <1>4, <1>5

(* What the functions of a tracer do at each point of the transport.         *)
LEMMA TracedIs ==
  ASSUME NEW x, NEW l
  PROVE  /\ HasTracer(l) => /\ Traced(x, l, "before") = TraceOp(x, l, "start")
                            /\ Traced(x, l, "after") = TraceOp(x, l, "finish")
                            /\ Traced(x, l, "finalizer") =
                                 TraceOp(TraceOp(x, l, "finish"), l, "flush")
         /\ ~HasTracer(l) => \A p : Traced(x, l, p) = x
<1>1. CASE ~HasTracer(l)
  BY <1>1 DEF Traced
<1>2. CASE HasTracer(l)
  <2>1. /\ Tracers[Layers[l]].before = {"start"} /\ Tracers[Layers[l]].after = {"finish"}
        /\ Tracers[Layers[l]].finalizer = {"finish", "flush"}
    BY <1>2 DEF HasTracer, Tracers, HTTPServerTrace, HTTPClientTrace, GRPCServerTrace,
                GRPCClientTrace
  <2>2. Traced(x, l, "before") = TraceOp(x, l, "start")
    BY <1>2, <2>1 DEF Traced
  <2>3. Traced(x, l, "after") = TraceOp(x, l, "finish")
    BY <1>2, <2>1 DEF Traced
  <2>4. Traced(x, l, "finalizer") = TraceOp(TraceOp(x, l, "finish"), l, "flush")
    BY <1>2, <2>1 DEF Traced
  <2> QED BY <1>2, <2>2, <2>3, <2>4
<1> QED BY <1>1, <1>2

(* A span is finished, and sent by a tracer's flush or by Finish itself.     *)
EndsAt(n, x, y, j, more) ==
  /\ y.span[j].st = "finished"
  /\ y.span[j].sent = x.span[j].sent + One(Layers[j] = "trace" /\ x.span[j].st = "open") + more
  /\ \A m \in 1 .. n : m # j => y.span[m] = x.span[m]

(* Finish ends an open span, and sends that of TraceEndpoint.                *)
LEMMA FinishEnds ==
  ASSUME NEW n \in Nat, NEW x \in Works(n), NEW j \in 1 .. n, x.span[j].st # "none", NEW y,
         y = Finish(x, j)
  PROVE  EndsAt(n, x, y, j, 0) /\ y \in Works(n)
<1>1. x.span[j].st \in SpanStates /\ x.span[j].sent \in Nat
  BY DEF Works
<1>2. Finish(x, j) \in Works(n) /\ \A m \in 1 .. n : m # j => Finish(x, j).span[m] = x.span[m]
  BY FinishFacts
<1>3. CASE x.span[j].st = "finished"
  <2>1. y = x
    BY <1>3, FinishFacts
  <2>2. x.span[j].sent + 0 + 0 = x.span[j].sent
    BY <1>1
  <2> QED BY <1>3, <2>1, <2>2 DEF EndsAt, One
<1>4. CASE x.span[j].st = "open"
  <2>1. /\ y.span[j].st = "finished"
        /\ y.span[j].sent = x.span[j].sent + (IF Layers[j] = "trace" THEN 1 ELSE 0)
    BY <1>4, FinishFacts
  <2>2. y.span[j].sent = x.span[j].sent + One(Layers[j] = "trace" /\ x.span[j].st = "open") + 0
    BY <1>1, <1>4, <2>1 DEF One
  <2> QED BY <1>2, <2>1, <2>2 DEF EndsAt
<1> QED BY <1>1, <1>3, <1>4 DEF SpanStates

(* A finalizer with a tracer ends and sends the span in its context.         *)
LEMMA FlushEnds ==
  ASSUME NEW n \in Nat, NEW x \in Works(n), NEW l \in 1 .. n, NEW y,
         y = TraceOp(TraceOp(x, l, "finish"), l, "flush")
  PROVE  IF SpanIn(x, l) = 0 THEN y = x ELSE EndsAt(n, x, y, SpanIn(x, l), 1)
<1>1. PICK finish \in TraceOps, flush \in TraceOps : finish = "finish" /\ flush = "flush"
  BY DEF TraceOps
<1>2. PICK j \in 0 .. l :
        /\ j = SpanIn(x, l)
        /\ j # 0 => x.span[j].st # "none"
  BY SpanInContext
<1>3. PICK z : z = TraceOp(x, l, finish)
  OBVIOUS
<1>4. y = TraceOp(z, l, flush)
  BY <1>1, <1>3
<1>5. CASE j = 0
  <2>1. z = x
    BY <1>1, <1>2, <1>3, <1>5 DEF TraceOp
  <2>a. y = TraceOp(x, l, "flush")
    BY <1>1, <1>4, <2>1
  <2>b. SpanIn(x, l) = 0
    BY <1>2, <1>5
  <2>c. TraceOp(x, l, "flush") = x
    BY <2>b DEF TraceOp
  <2>2. y = x
    BY <2>a, <2>c
  <2> QED BY <1>2, <1>5, <2>2
<1>6. CASE j # 0
  <2>1. PICK i \in 1 .. n : i = j /\ i \in 1 .. l
    <3>1. j \in 1 .. n /\ j \in 1 .. l
      BY <1>6
    <3> QED BY <3>1
  <2>2. z = Finish(x, i)
    <3>1. PICK v : v = TraceOp(x, l, finish)
      OBVIOUS
    <3>2. finish = "finish" /\ SpanIn(x, l) # 0 => v = Finish(x, SpanIn(x, l))
      BY <3>1, TraceOpFacts
    <3> QED BY <1>1, <1>2, <1>3, <1>6, <2>1, <3>1, <3>2
  <2>3. x.span[i].st # "none"
    BY <1>2, <1>6, <2>1
  <2>4. EndsAt(n, x, z, i, 0) /\ z \in Works(n)
    BY <2>2, <2>3, FinishEnds
  <2>5. \A m \in 1 .. l : z.span[m].st = "none" <=> x.span[m].st = "none"
    <3>1. \A m \in 1 .. l : m \in 1 .. n
      OBVIOUS
    <3> QED BY <2>3, <2>4, <3>1 DEF EndsAt
  <2>6. SpanIn(z, l) = i
    BY <1>2, <2>1, <2>5, SpanInKept
  <2>7. y = Sent(z, i)
    <3>1. PICK v : v = TraceOp(z, l, flush)
      OBVIOUS
    <3>2. flush = "flush" /\ SpanIn(z, l) # 0 => v = Sent(z, SpanIn(z, l))
      BY <2>4, <3>1, TraceOpFacts
    <3> QED BY <1>1, <1>4, <1>6, <2>1, <2>6, <3>1, <3>2
  <2>8. /\ y.span[i].st = z.span[i].st /\ y.span[i].sent = z.span[i].sent + 1
        /\ \A m \in 1 .. n : m # i => y.span[m] = z.span[m]
    BY <2>4, <2>7, SentFacts
  <2>9. x.span[i].sent \in Nat
    BY DEF Works
  <2>10. EndsAt(n, x, y, i, 1)
    BY <2>4, <2>8, <2>9 DEF EndsAt, One
  <2> QED BY <1>2, <1>6, <2>1, <2>10
<1> QED BY <1>5, <1>6

(* What a step does to the spans.                                            *)
SameSpans ==
  /\ w'.span = w.span
  /\ \A m \in 1 .. Len(Layers) : HasTracer(m) => w'.finalized[m] = w.finalized[m]
Stays(t) ==
  /\ SameSpans
  /\ Pass(t) => Stage(t) # "start" /\ ~(Stage(t) = "before" /\ HasTracer(Top(t).l))
  /\ RunDeferred(t) =>
       LastDeferred(t) # "finish" /\ ~(LastDeferred(t) = "finalizer" /\ HasTracer(Top(t).l))
Opens(t) ==
  LET l == Top(t).l IN
  /\ Pass(t) \/ Panic(t)
  /\ Stage(t) = "start" \/ (Stage(t) = "before" /\ HasTracer(l))
  /\ w'.span[l].st = "open" /\ w'.span[l].sent = w.span[l].sent
  /\ \A m \in 1 .. Len(Layers) : m # l => w'.span[m] = w.span[m]
  /\ w'.finalized = w.finalized
Ends(t) ==
  LET l == Top(t).l IN
  /\ \/ (Pass(t) \/ Panic(t)) /\ Stage(t) = "after" /\ HasTracer(l)
     \/ RunDeferred(t) /\ LastDeferred(t) = "finish"
  /\ w.span[l].st # "none" /\ EndsAt(Len(Layers), w, w', l, 0)
  /\ w'.finalized = w.finalized
Flushes(t) ==
  LET l == Top(t).l IN
  /\ RunDeferred(t) /\ LastDeferred(t) = "finalizer" /\ HasTracer(l)
  /\ IF SpanIn(w, l) = 0 THEN w'.span = w.span
     ELSE EndsAt(Len(Layers), w, w', SpanIn(w, l), 1)
  /\ w'.finalized[l] = w.finalized[l] + 1
  /\ \A m \in 1 .. Len(Layers) : m # l => w'.finalized[m] = w.finalized[m]

(* What the frame on top knows of its span.                                  *)
LEMMA TopTracing ==
  ASSUME Types, Shape, SpansOK, NEW t \in Goroutines, Alive(t)
  PROVE  /\ Tracing(Layers[Top(t).l], HasTracer(Top(t).l), w.span[Top(t).l].st,
                    w.finalized[Top(t).l], Top(t).pc, Top(t).defers, th[t].st = "unwind")
         /\ HasTracer(Top(t).l) \in BOOLEAN
         /\ HasTracer(Top(t).l) => Layers[Top(t).l] \in DOMAIN Tracers
<1>1. PICK n \in Nat : /\ n = Len(th[t].stack) /\ n > 0 /\ Top(t) = th[t].stack[n]
                       /\ n \in 1 .. Len(th[t].stack)
  BY TopAt
<1>2. FrameSpan(t, n)
  BY <1>1 DEF SpansOK
<1>3. HasTracer(Top(t).l) => Layers[Top(t).l] \in DOMAIN Tracers
  BY DEF HasTracer
<1>4. config.traced \in BOOLEAN
  BY DEF Types, Configs
<1>5. HasTracer(Top(t).l) \in BOOLEAN
  BY <1>4, Zenon DEF HasTracer
<1>6. (th[t].st = "unwind" /\ n = Len(th[t].stack)) <=> th[t].st = "unwind"
  BY <1>1
<1>7. CASE th[t].st = "unwind"
  BY <1>1, <1>2, <1>3, <1>5, <1>7, Zenon DEF FrameSpan
<1>8. CASE th[t].st # "unwind"
  BY <1>1, <1>2, <1>3, <1>5, <1>8, Zenon DEF FrameSpan
<1> QED BY <1>7, <1>8

(* A stage leaves the spans alone, starts or finishes its own.               *)
LEMMA StageSpans ==
  ASSUME Types, Shape, SpansOK, NEW t \in Goroutines, Pass(t) \/ Panic(t),
         w' \in Passed(w, Top(t).l, Stage(t))
  PROVE  Stays(t) \/ Opens(t) \/ Ends(t)
<1>0. th[t].st = "run" /\ Alive(t) /\ ~RunDeferred(t)
  BY DEF Pass, Panic, Running, Alive, RunDeferred
<1>1. PICK n \in Nat : n = Len(Layers) /\ w \in Works(n)
  BY LayerKinds, Zenon DEF Types
<1>2. PICK l \in 1 .. n : l = Top(t).l
  BY <1>0, <1>1, TopFacts
<1>3. PICK x \in Works(n) : x = w
  BY <1>1
<1>4. PICK k \in Kinds, i \in Nat :
        k = Layers[l] /\ i \in 1 .. Len(Stages[k]) /\ i = Top(t).pc /\ Stage(t) = Stages[k][i]
  BY <1>0, <1>2, AtStage, CallStages
<1>5. PICK s : s = Stage(t) /\ w' \in Passed(x, l, s)
  BY <1>2, <1>3, Zenon
<1>6. PICK v \in Passed(x, l, s) : w' = v
  BY <1>5
<1>7. w'.finalized = w.finalized
  BY <1>3, <1>6, PassedFacts
<1>8. CASE s \notin {"before", "after", "start"} \/ (s # "start" /\ ~HasTracer(l))
  <2>1. CASE s \notin {"before", "after", "start"}
    <3>1. v.span = x.span
      BY <2>1, PassedFacts
    <3>2. w'.span = w.span /\ s # "start" /\ s # "before"
      BY <1>3, <1>6, <2>1, <3>1
    <3> QED BY <1>0, <1>5, <1>7, <3>2 DEF Stays, SameSpans
  <2>2. CASE s \in {"before", "after"} /\ ~HasTracer(l)
    <3>1. w' = w
      <4>1. w' = Traced(x, l, s)
        BY <1>5, <2>2 DEF Passed
      <4> QED BY <1>3, <2>2, <4>1, TracedIs
    <3> QED BY <1>0, <1>2, <1>5, <2>2, <3>1 DEF Stays, SameSpans
  <2> QED BY <1>8, <2>1, <2>2
<1>9. CASE s = "start" \/ (s = "before" /\ HasTracer(l))
  <2>1. PICK op \in TraceOps : op = "start"
    BY DEF TraceOps
  <2>2. PICK y : y = TraceOp(x, l, op)
    OBVIOUS
  <2>3. w' = y
    <3>1. CASE s = "start"
      BY <1>5, <2>1, <2>2, <3>1 DEF Passed
    <3>2. CASE s = "before" /\ HasTracer(l)
      <4>1. w' = Traced(x, l, "before")
        BY <1>5, <3>2 DEF Passed
      <4> QED BY <2>1, <2>2, <3>2, <4>1, TracedIs
    <3> QED BY <1>9, <3>1, <3>2
  <2>4. /\ op = "start" => y.span[l].st = "open" /\ y.span[l].sent = x.span[l].sent
        /\ \A m \in 1 .. n : m # (IF op = "start" THEN l ELSE SpanIn(x, l)) => y.span[m] = x.span[m]
    BY <2>2, TraceOpFacts
  <2>5. /\ w'.span[l].st = "open" /\ w'.span[l].sent = w.span[l].sent
        /\ \A m \in 1 .. n : m # l => w'.span[m] = w.span[m]
    BY <1>3, <2>1, <2>3, <2>4
  <2> QED BY <1>1, <1>2, <1>5, <1>7, <1>9, <2>5 DEF Opens
<1>10. CASE s = "after" /\ HasTracer(l)
  <2>1. w.span[l].st # "none"
    <3>1. ~(i <= StartAt[k])
      <4>1. k \in DOMAIN Tracers /\ Stages[k][i] = "after"
        BY <1>4, <1>5, <1>10 DEF HasTracer
      <4>2. StartAt[k] \in Nat /\ i > StartAt[k]
        BY <1>4, <4>1, TracerStages
      <4> QED BY <4>2
    <3>2. th[t].st # "unwind"
      BY <1>0
    <3> QED BY <1>0, <1>2, <1>4, <1>10, <3>1, <3>2, TopTracing DEF Tracing
  <2>2. x.span[l].st # "none"
    BY <1>3, <2>1
  <2>3. SpanIn(x, l) = l
    BY <2>2, SpanOwn
  <2>4. w' = Finish(x, l)
    <3>1. w' = TraceOp(x, l, "finish")
      <4>1. w' = Traced(x, l, "after")
        BY <1>5, <1>10 DEF Passed
      <4> QED BY <1>10, <4>1, TracedIs
    <3>2. l > 0 /\ l # 0
      BY <1>1
    <3> QED BY <2>3, <3>1, <3>2 DEF TraceOp
  <2>5. PICK y : y = Finish(x, l)
    OBVIOUS
  <2>6. EndsAt(n, x, y, l, 0)
    BY <2>2, <2>5, FinishEnds
  <2>7. EndsAt(Len(Layers), w, w', l, 0)
    BY <1>1, <1>3, <2>4, <2>5, <2>6
  <2> QED BY <1>2, <1>5, <1>7, <1>10, <2>1, <2>7 DEF Ends
<1> QED BY <1>8, <1>9, <1>10

(* So does a stage that passes, ...                                          *)
LEMMA PassSpans ==
  ASSUME Types, Shape, SpansOK, NEW t \in Goroutines, Pass(t)
  PROVE  Stays(t) \/ Opens(t) \/ Ends(t)
<1>1. w' \in Passed(w, Top(t).l, Stage(t))
  BY DEF Pass
<1> QED BY <1>1, StageSpans

(* ... and one that panics, ahead of its tracing function or behind it.      *)
LEMMA PanicSpans ==
  ASSUME Types, Shape, SpansOK, NEW t \in Goroutines, Panic(t)
  PROVE  Stays(t) \/ Opens(t) \/ Ends(t)
<1>0. th[t].st = "run" /\ Alive(t) /\ ~RunDeferred(t)
  BY DEF Panic, Running, Alive, RunDeferred
<1>1. PICK n \in Nat : n = Len(Layers) /\ w \in Works(n)
  BY LayerKinds, Zenon DEF Types
<1>2. PICK l \in 1 .. n : l = Top(t).l
  BY <1>0, <1>1, TopFacts
<1>3. PICK x \in Works(n) : x = w
  BY <1>1
<1>4. PICK s : s = Stage(t) /\ w' \in Panics(x, l, s)
  BY <1>2, <1>3, Zenon DEF Panic
<1>5. PICK y \in Panics(x, l, s) : w' = y
  BY <1>4
<1>6. y.finalized = x.finalized /\ (y.span = x.span \/ y \in Passed(x, l, s))
  BY PanicsFacts
<1>7. CASE y \in Passed(x, l, s)
  <2>1. w' \in Passed(w, Top(t).l, Stage(t))
    BY <1>2, <1>3, <1>4, <1>5, <1>7, Zenon
  <2> QED BY <2>1, StageSpans
<1>8. CASE y.span = x.span
  <2>1. CASE Pass(t)
    BY <2>1, PassSpans
  <2>2. CASE ~Pass(t)
    BY <1>0, <1>3, <1>5, <1>6, <1>8, <2>2 DEF Stays, SameSpans
  <2> QED BY <2>1, <2>2
<1> QED BY <1>6, <1>7, <1>8

(* A deferred call leaves the spans alone, finishes its own or flushes.      *)
LEMMA DeferredSpans ==
  ASSUME Types, Shape, SpansOK, NEW t \in Goroutines, RunDeferred(t)
  PROVE  Stays(t) \/ Ends(t) \/ Flushes(t)
<1>0. th[t].st = "unwind" /\ Alive(t) /\ ~Pass(t)
  BY DEF Pass, Running, Alive, RunDeferred
<1>1. PICK n \in Nat : n = Len(Layers) /\ w \in Works(n)
  BY LayerKinds, Zenon DEF Types
<1>2. PICK l \in 1 .. n : l = Top(t).l
  BY <1>0, <1>1, TopFacts
<1>3. PICK x \in Works(n) : x = w
  BY <1>1
<1>4. PICK r \in Results : r = th[t].res
  BY <1>0, TopFacts DEF Threads
<1>5. PICK d \in DeferredCalls : d = LastDeferred(t) /\ w' = Deferred(x, l, d, r)
  BY <1>2, <1>3, <1>4, RunDeferredEffect DEF LastDeferred
<1>6. PICK y : y = Deferred(x, l, d, r)
  OBVIOUS
<1>7. w' = y
  BY <1>5, <1>6
<1>8. CASE d \notin {"finalizer", "finish"}
  <2>1. y.span = x.span /\ SameAnswer(x, y)
    BY <1>6, <1>8, OtherDeferred
  <2>2. w'.span = w.span /\ w'.finalized = w.finalized
    BY <1>3, <1>7, <2>1 DEF SameAnswer
  <2> QED BY <1>0, <1>5, <1>8, <2>2 DEF Stays, SameSpans
<1>9. CASE d = "finalizer" /\ ~HasTracer(l)
  <2>1. \A m \in 1 .. n : m # l => y.finalized[m] = x.finalized[m]
    BY <1>6, DeferredFacts
  <2>2. y = [x EXCEPT !.finalized[l] = @ + 1, !.saw = IF l = 1 THEN x.code ELSE @]
    BY <1>6, <1>9, TracedIs DEF Deferred, Finalized
  <2>3. y.span = x.span
    BY <2>2 DEF Works
  <2>4. w'.span = w.span /\ \A m \in 1 .. n : m # l => w'.finalized[m] = w.finalized[m]
    BY <1>3, <1>7, <2>1, <2>3
  <2> QED BY <1>0, <1>1, <1>2, <1>5, <1>9, <2>4 DEF Stays, SameSpans
<1>10. CASE d = "finalizer" /\ HasTracer(l)
  <2>1. /\ \A m \in 1 .. n : m # l => y.finalized[m] = x.finalized[m]
        /\ d = "finalizer" => y.finalized[l] = x.finalized[l] + 1
    BY <1>6, DeferredFacts
  <2>2. PICK z : z = TraceOp(TraceOp(x, l, "finish"), l, "flush")
    OBVIOUS
  <2>3. y = [z EXCEPT !.finalized[l] = @ + 1, !.saw = IF l = 1 THEN x.code ELSE @]
    BY <1>6, <1>10, <2>2, TracedIs DEF Deferred, Finalized
  <2>4. z \in Works(n)
    <3>1. PICK point \in TracePoints : point = "finalizer"
      BY DEF TracePoints
    <3>2. z = Traced(x, l, point)
      BY <1>10, <2>2, <3>1, TracedIs
    <3> QED BY <3>2, TracedFacts
  <2>5. y.span = z.span
    BY <2>3, <2>4 DEF Works
  <2>6. IF SpanIn(x, l) = 0 THEN z = x ELSE EndsAt(n, x, z, SpanIn(x, l), 1)
    BY <2>2, FlushEnds
  <2>7. IF SpanIn(x, l) = 0 THEN y.span = x.span ELSE EndsAt(n, x, y, SpanIn(x, l), 1)
    BY <2>5, <2>6 DEF EndsAt
  <2>8. IF SpanIn(w, l) = 0 THEN w'.span = w.span ELSE EndsAt(Len(Layers), w, w', SpanIn(w, l), 1)
    BY <1>1, <1>3, <1>7, <2>7
  <2>9. /\ w'.finalized[l] = w.finalized[l] + 1
        /\ \A m \in 1 .. Len(Layers) : m # l => w'.finalized[m] = w.finalized[m]
    BY <1>1, <1>3, <1>7, <1>10, <2>1
  <2> QED BY <1>2, <1>5, <1>10, <2>8, <2>9 DEF Flushes
<1>11. CASE d = "finish"
  <2>1. PICK e \in Seq(DeferredCalls) : e = Top(t).defers /\ Len(e) \in Nat /\ Len(e) > 0
    BY <1>0, RunDeferredEffect, TopFacts DEF Frames
  <2>2. PICK c \in 1 .. Len(e) : e[c] = "finish"
    <3>1. Len(e) \in 1 .. Len(e)
      BY <2>1
    <3>2. e[Len(e)] = "finish"
      BY <1>5, <1>11, <2>1 DEF LastDeferred
    <3> QED BY <3>1, <3>2
  <2>3. Layers[l] = "trace" /\ w.span[l].st # "none"
    BY <1>0, <1>2, <2>1, <2>2, TopTracing DEF Tracing
  <2>4. x.span[l].st # "none"
    BY <1>3, <2>3
  <2>5. y = Finish(x, l)
    BY <1>6, <1>11 DEF Deferred
  <2>6. EndsAt(n, x, y, l, 0)
    BY <2>4, <2>5, FinishEnds
  <2>7. SameAnswer(x, y)
    BY <1>6, <1>11, DeferredFacts
  <2>8. w'.finalized = w.finalized /\ EndsAt(Len(Layers), w, w', l, 0)
    BY <1>1, <1>3, <1>7, <2>6, <2>7 DEF SameAnswer
  <2> QED BY <1>2, <1>5, <1>11, <2>3, <2>8 DEF Ends
<1> QED BY <1>8, <1>9, <1>10, <1>11

(* The four things a step can do to the spans.                               *)
LEMMA StepSpans ==
  ASSUME Types, Shape, SpansOK, NEW t \in Goroutines, Step(t)
  PROVE  \/ Stays(t)
         \/ Opens(t)
         \/ Ends(t)
         \/ Flushes(t)
<1>0. PICK n \in Nat : n = Len(Layers) /\ w \in Works(n)
  BY LayerKinds, Zenon DEF Types
<1>1. Alive(t)
  BY StepWork
<1>2. Server \in ServerKinds /\ Layers[1] = Server
  BY LayerKinds DEF Types
<1>3. PICK l \in 1 .. n : l = Top(t).l
  BY <1>0, <1>1, TopFacts
<1>4. PICK r \in Results : r = th[t].res
  BY <1>1, TopFacts DEF Threads
<1>5. PICK x0 \in Works(n) : x0 = w
  BY <1>0
<1>6. CASE ~Pass(t) /\ ~RunDeferred(t) /\ w'.span = w.span /\ w'.finalized = w.finalized
  BY <1>6 DEF Stays, SameSpans
<1>7. CASE Fail(t)
  <2>1. PICK y \in Failures(x0, l, Stage(t)) : w' = y
    BY <1>3, <1>5, <1>7 DEF Fail
  <2>2. y.span = x0.span /\ y.finalized = x0.finalized
    BY <1>2, FailuresFacts
  <2>3. CASE ~Pass(t)
    <3>1. ~RunDeferred(t)
      BY <1>7 DEF Fail, Running, RunDeferred
    <3> QED BY <1>5, <1>6, <2>1, <2>2, <2>3, <3>1
  <2>4. CASE Pass(t)
    BY <2>4, PassSpans
  <2> QED BY <2>3, <2>4
<1>8. CASE Return(t)
  <2>0. ~Pass(t) /\ ~RunDeferred(t)
    BY <1>8 DEF Return, Pass, Running, RunDeferred
  <2>1. PICK x : x = Returned(x0, l, r)
    OBVIOUS
  <2>2. x \in Works(n) /\ x.span = x0.span /\ x.finalized = x0.finalized
    BY <2>1, ReturnedFacts
  <2>3. w' = x \/ (w' \in Failures(x, l - 1, "call") /\ Drop(th[t], th'[t]))
    BY <1>3, <1>4, <1>5, <1>8, <2>1, ReturnEffect
  <2>4. CASE w' = x
    BY <1>5, <1>6, <2>0, <2>2, <2>4
  <2>5. CASE w' \in Failures(x, l - 1, "call") /\ Drop(th[t], th'[t])
    <3>1. PICK k \in 1 .. n : k = l - 1
      <4>1. Len(th[t].stack) > 1
        BY <2>5 DEF Drop
      <4> QED BY <1>0, <1>1, <1>3, <4>1, LayerBelow
    <3>2. PICK y \in Failures(x, k, "call") : w' = y
      BY <2>5, <3>1
    <3>3. y.span = x.span /\ y.finalized = x.finalized
      BY <1>2, <2>2, FailuresFacts
    <3> QED BY <1>5, <1>6, <2>0, <2>2, <3>2, <3>3
  <2> QED BY <2>3, <2>4, <2>5
<1>9. CASE w' = w /\ (Defer(t) \/ Call(t))
  <2>1. ~RunDeferred(t)
    BY <1>9 DEF Defer, Call, Running, RunDeferred
  <2>2. CASE ~Pass(t)
    BY <1>6, <1>9, <2>1, <2>2
  <2>3. CASE Pass(t)
    BY <2>3, PassSpans
  <2> QED BY <2>2, <2>3
<1>10. \/ Pass(t) \/ Fail(t) \/ Panic(t) \/ RunDeferred(t) \/ Return(t)
       \/ w' = w /\ (Defer(t) \/ Call(t))
  BY DEF Step, Defer, Call
<1> QED BY <1>7, <1>8, <1>9, <1>10, PassSpans, PanicSpans, DeferredSpans

(* The ledger of a layer as its span is started, finished and sent.          *)
LEMMA LedgerReturns ==
  ASSUME NEW k, NEW tr, NEW st, NEW sent, NEW fin, NEW out, NEW b, NEW f2, NEW o2,
         Ledger(k, tr, st, sent, fin, out, b), tr => f2 = fin,
         o2 # "none" => out # "none" \/ ((k = "trace" => st = "finished") /\ (tr => fin = 1))
  PROVE  Ledger(k, tr, st, sent, f2, o2, b)
BY DEF Ledger

(* The ledger of a span that is started.                                     *)
LEMMA LedgerOpens ==
  ASSUME NEW k, NEW tr, NEW fin \in Nat, NEW sent \in Nat, NEW b, NEW b2,
         Ledger(k, tr, "none", sent, fin, "none", b), k = "trace" \/ tr, tr => fin = 0, ~b2
  PROVE  Ledger(k, tr, "open", sent, fin, "none", b2)
BY DEF Ledger, One

(* The ledger of a span that its own layer finishes.                         *)
LEMMA LedgerEnds ==
  ASSUME NEW k, NEW tr, NEW st \in SpanStates, NEW fin \in Nat, NEW sent \in Nat, NEW out, NEW b,
         Ledger(k, tr, st, sent, fin, out, b), tr => k # "trace", st # "none"
  PROVE  Ledger(k, tr, "finished", sent + One(k = "trace" /\ st = "open") + 0, fin, out, b)
<1>1. st = "open" \/ st = "finished"
  BY DEF SpanStates
<1>2. PICK e \in Nat : e = One(b)
  BY DEF One
<1>3. CASE k = "trace"
  <2>1. sent = One(st = "finished") + e /\ ~tr
    BY <1>2, <1>3 DEF Ledger
  <2>2. sent + One(k = "trace" /\ st = "open") + 0 = One(TRUE) + e
    BY <1>1, <1>3, <2>1 DEF One
  <2> QED BY <1>2, <1>3, <2>1, <2>2 DEF Ledger
<1>4. CASE k # "trace" /\ tr
  <2>1. sent + One(k = "trace" /\ st = "open") + 0 = sent
    BY <1>4 DEF One
  <2> QED BY <1>4, <2>1 DEF Ledger
<1>5. CASE k # "trace" /\ ~tr
  BY <1>5 DEF Ledger
<1> QED BY <1>3, <1>4, <1>5

(* The ledger of a span that its own finalizer sends.                        *)
LEMMA LedgerFlushesOwn ==
  ASSUME NEW k, NEW tr, NEW st \in SpanStates, NEW sent \in Nat, NEW b,
         Ledger(k, tr, st, sent, 0, "none", b), tr, k # "trace", st # "none"
  PROVE  Ledger(k, tr, "finished", sent + One(k = "trace" /\ st = "open") + 1, 0 + 1, "none", b)
<1>1. PICK e \in Nat : e = One(b)
  BY DEF One
<1>2. sent = 0 + e
  BY <1>1 DEF Ledger
<1>3. sent + One(k = "trace" /\ st = "open") + 1 = 0 + 1 + e /\ 0 + 1 <= 1
  BY <1>2 DEF One
<1> QED BY <1>1, <1>3 DEF Ledger

(* The ledger of a layer whose finalizer finds no span of its own.           *)
LEMMA LedgerFlushesNone ==
  ASSUME NEW k, NEW tr, NEW sent \in Nat, NEW b, NEW b2,
         Ledger(k, tr, "none", sent, 0, "none", b), tr, k # "trace"
  PROVE  Ledger(k, tr, "none", sent, 0 + 1, "none", b2)
BY DEF Ledger

(* The ledger of a span that the finalizer of the client finds and sends.    *)
LEMMA LedgerBorrows ==
  ASSUME NEW k, NEW tr, NEW st \in SpanStates, NEW fin \in Nat, NEW sent \in Nat, NEW out, NEW b,
         NEW b2, Ledger(k, tr, st, sent, fin, out, b), tr => k # "trace", st # "none", ~b, b2
  PROVE  Ledger(k, tr, "finished", sent + One(k = "trace" /\ st = "open") + 1, fin, out, b2)
<1>1. st = "open" \/ st = "finished"
  BY DEF SpanStates
<1>2. One(b) = 0 /\ One(b2) = 1
  BY DEF One
<1>3. CASE k = "trace"
  <2>1. sent = One(st = "finished") + 0 /\ ~tr
    BY <1>2, <1>3 DEF Ledger
  <2>2. sent + One(k = "trace" /\ st = "open") + 1 = One(TRUE) + 1
    BY <1>1, <1>3, <2>1 DEF One
  <2> QED BY <1>2, <1>3, <2>1, <2>2 DEF Ledger
<1>4. CASE k # "trace" /\ tr
  <2>1. sent = fin + 0 /\ fin <= 1 /\ (out # "none" => fin = 1)
    BY <1>2, <1>4 DEF Ledger
  <2>2. sent + One(k = "trace" /\ st = "open") + 1 = fin + 1
    BY <1>4, <2>1 DEF One
  <2> QED BY <1>2, <1>4, <2>1, <2>2 DEF Ledger
<1>5. CASE k # "trace" /\ ~tr
  BY <1>5 DEF Ledger
<1> QED BY <1>3, <1>4, <1>5

(* Whose span a client that failed early has sent depends on which spans are *)
(* started and on its finalizer.                                             *)
LEMMA BorrowedKept ==
  ASSUME config' = config,
         \A m \in 1 .. Len(Layers) : w'.span[m].st = "none" <=> w.span[m].st = "none",
         Client \in 1 .. Len(Layers),
         HasTracer(Client) => w'.finalized[Client] = w.finalized[Client]
  PROVE  \A m : Borrowed(m)' <=> Borrowed(m)
<1>1. Layers' = Layers /\ Client' = Client
  BY LayersKept DEF Client
<1>2. SpanIn(w', Client) = SpanIn(w, Client)
  BY SpanInKept DEF Client
<1>3. HasTracer(Client)' <=> HasTracer(Client)
  BY <1>1 DEF HasTracer
<1> QED BY <1>1, <1>2, <1>3 DEF Borrowed

(* What to show of a layer after a step.                                     *)
LEMMA LedgerIs ==
  ASSUME config' = config, NEW m, NEW b \in BOOLEAN, b = Borrowed(m)',
         Ledger(Layers[m], HasTracer(m), w'.span[m].st, w'.span[m].sent, w'.finalized[m],
                w'.out[m], b)
  PROVE  SpanOK(m)'
<1>1. Layers' = Layers
  BY LayersKept
<1>2. HasTracer(m)' = HasTracer(m)
  BY <1>1 DEF HasTracer
<1> QED BY <1>1, <1>2 DEF SpanOK

(* The client is the last layer, and not the first.                          *)
LEMMA ClientLayer ==
  ASSUME Types
  PROVE  Client = Len(Layers) /\ Len(Layers) \in Nat /\ Client \in 1 .. Len(Layers) /\ Client > 1
<1>1. Len(Layers) \in Nat /\ Len(Layers) >= 2
  BY LayerKinds DEF Types
<1>2. Len(Layers) \in 1 .. Len(Layers) /\ Len(Layers) > 1
  BY <1>1
<1> QED BY <1>1, <1>2 DEF Client

(* Borrowed is a Boolean.                                                    *)
LEMMA BorrowedType ==
  ASSUME NEW m
  PROVE  Borrowed(m) \in BOOLEAN /\ Borrowed(m)' \in BOOLEAN
BY Zenon DEF Borrowed

(* A step that leaves the spans alone keeps every ledger.                    *)
LEMMA StaysLedger ==
  ASSUME Types, Shape, SpansOK, NEW t \in Goroutines, Step(t), Stays(t)
  PROVE  \A m \in 1 .. Len(Layers) : SpanOK(m)'
<1>1. /\ Alive(t) /\ config' = config
      /\ (Return(t) => OutcomeOf(t)) /\ (~Return(t) => w'.out = w.out)
  BY StepWork DEF Step
<1>2. \A m : Borrowed(m)' <=> Borrowed(m)
  BY <1>1, ClientLayer, BorrowedKept DEF Stays, SameSpans
<1>3. SUFFICES ASSUME NEW m \in 1 .. Len(Layers) PROVE SpanOK(m)'
  OBVIOUS
<1>4. PICK b \in BOOLEAN : b = Borrowed(m) /\ b = Borrowed(m)'
  BY <1>2, BorrowedType
<1>5. Ledger(Layers[m], HasTracer(m), w.span[m].st, w.span[m].sent, w.finalized[m], w.out[m], b)
  BY <1>4 DEF SpansOK, SpanOK
<1>6. w'.span[m] = w.span[m] /\ (HasTracer(m) => w'.finalized[m] = w.finalized[m])
  BY DEF Stays, SameSpans
<1>7. w'.out[m] # "none" => \/ w.out[m] # "none"
                            \/ /\ Layers[m] = "trace" => w.span[m].st = "finished"
                               /\ HasTracer(m) => w.finalized[m] = 1
  <2>1. CASE ~Return(t) \/ m # Top(t).l
    BY <1>1, <2>1 DEF OutcomeOf
  <2>2. CASE Return(t) /\ m = Top(t).l
    <3>1. th[t].st = "unwind" /\ Top(t).defers = <<>>
      BY <2>2 DEF Return
    <3>2. Tracing(Layers[m], HasTracer(m), w.span[m].st, w.finalized[m], Top(t).pc, <<>>, TRUE)
      BY <1>1, <2>2, <3>1, TopTracing
    <3>3. <<>> # <<"finish">> /\ ~Once(<<>>)
      BY DEF Once
    <3> QED BY <3>2, <3>3 DEF Tracing
  <2> QED BY <2>1, <2>2
<1>8. Ledger(Layers[m], HasTracer(m), w.span[m].st, w.span[m].sent, w'.finalized[m], w'.out[m], b)
  BY <1>5, <1>6, <1>7, LedgerReturns
<1>9. Ledger(Layers[m], HasTracer(m), w'.span[m].st, w'.span[m].sent, w'.finalized[m], w'.out[m], b)
  BY <1>6, <1>8
<1> QED BY <1>1, <1>4, <1>9, LedgerIs

(* A span that is started was not; and the client has not been finalized.    *)
LEMMA OpensFacts ==
  ASSUME Types, Shape, Ahead, SpansOK, NEW t \in Goroutines, Step(t), Opens(t)
  PROVE  LET l == Top(t).l IN
         /\ w.span[l].st = "none" /\ (HasTracer(l) => w.finalized[l] = 0)
         /\ Layers[l] = "trace" \/ HasTracer(l)
         /\ HasTracer(Client) => w.finalized[Client] = 0
<1>1. th[t].st = "run" /\ Alive(t)
  BY DEF Opens, Pass, Panic, Running, Alive
<1>2. PICK l \in 1 .. Len(Layers) : l = Top(t).l
  BY <1>1, TopFacts
<1>3. PICK k \in Kinds, i \in Nat :
        k = Layers[l] /\ i \in 1 .. Len(Stages[k]) /\ i = Top(t).pc /\ Stage(t) = Stages[k][i]
  BY <1>1, <1>2, AtStage, CallStages
<1>4. Tracing(k, HasTracer(l), w.span[l].st, w.finalized[l], i, Top(t).defers, FALSE)
  BY <1>1, <1>2, <1>3, TopTracing
<1>5. (Stages[k][i] = "start" /\ k = "trace" /\ i = 1) \/ (Stages[k][i] = "before" /\ HasTracer(l))
  BY <1>2, <1>3, StageOwners DEF Opens
<1>6. CASE Stages[k][i] = "start" /\ k = "trace" /\ i = 1
  <2>1. ~HasTracer(l)
    BY <1>2, <1>3, <1>6, TracerLayer
  <2>2. w.span[l].st = "none"
    BY <1>4, <1>6 DEF Tracing
  <2>3. l # Client /\ Client > l
    <3>1. l # Client
      BY <1>3, <1>6, LayerKinds, ClientLayer DEF Types, ClientKinds
    <3> QED BY <1>2, <3>1, ClientLayer
  <2>4. Before(t)
    BY <1>1, <1>2, <1>3, <1>6, TraceStages DEF Before
  <2>5. Fresh(Client)
    BY <1>2, <2>3, <2>4, ClientLayer DEF Ahead
  <2> QED BY <1>2, <1>3, <1>6, <2>1, <2>2, <2>5 DEF Fresh
<1>7. CASE Stages[k][i] = "before" /\ HasTracer(l)
  <2>1. /\ k \in DOMAIN Tracers /\ StartAt[k] \in Nat /\ i = StartAt[k]
        /\ k \in ServerKinds => CallAt[k] > StartAt[k]
    <3>1. k \in DOMAIN Tracers
      BY <1>3, <1>7 DEF HasTracer
    <3> QED BY <1>3, <1>7, <3>1, TracerStages
  <2>2. i <= StartAt[k]
    BY <2>1
  <2>3. w.span[l].st = "none" /\ w.finalized[l] = 0
    BY <1>4, <1>7, <2>2 DEF Tracing
  <2>4. CASE l = Client
    BY <1>2, <1>7, <2>3, <2>4
  <2>5. CASE l # Client
    <3>1. l = 1 /\ k \in ServerKinds
      BY <1>2, <1>3, <1>7, <2>5, ClientLayer, TracerLayer
    <3>2. Before(t)
      <4>1. CallAt[k] \in Nat
        BY CallStages
      <4>2. i <= CallAt[k]
        BY <2>1, <3>1, <4>1
      <4> QED BY <1>1, <1>2, <1>3, <4>2 DEF Before
    <3>3. Client > l
      BY <3>1, ClientLayer
    <3>4. Fresh(Client)
      BY <1>2, <3>2, <3>3, ClientLayer DEF Ahead
    <3> QED BY <1>2, <1>7, <2>3, <3>4 DEF Fresh
  <2> QED BY <2>4, <2>5
<1> QED BY <1>5, <1>6, <1>7

(* A step that starts a span keeps every ledger.                             *)
LEMMA OpensLedger ==
  ASSUME Types, Shape, Ahead, SpansOK, NEW t \in Goroutines, Step(t), Opens(t)
  PROVE  \A m \in 1 .. Len(Layers) : SpanOK(m)'
<1>0. ~Return(t)
  BY DEF Opens, Pass, Panic, Running, Return
<1>1. Alive(t) /\ config' = config /\ w'.out = w.out /\ w.out[Top(t).l] = "none"
  BY <1>0, StepWork, TopFacts DEF Step
<1>2. PICK l \in 1 .. Len(Layers) : l = Top(t).l
  BY <1>1, TopFacts
<1>3. /\ w.span[l].st = "none" /\ (HasTracer(l) => w.finalized[l] = 0)
      /\ Layers[l] = "trace" \/ HasTracer(l)
      /\ HasTracer(Client) => w.finalized[Client] = 0
  BY <1>2, OpensFacts
<1>4. /\ w'.span[l].st = "open" /\ w'.span[l].sent = w.span[l].sent
      /\ \A m \in 1 .. Len(Layers) : m # l => w'.span[m] = w.span[m]
      /\ w'.finalized = w.finalized
  BY <1>2 DEF Opens
<1>5. Layers' = Layers /\ Client' = Client /\ (HasTracer(Client)' <=> HasTracer(Client))
  BY <1>1, LayersKept DEF Client, HasTracer
<1>6. \A m : ~Borrowed(m) /\ ~Borrowed(m)'
  <2>1. HasTracer(Client) => ~(w.finalized[Client] > 0) /\ ~(w'.finalized[Client] > 0)
    BY <1>3, <1>4
  <2> QED BY <1>5, <2>1 DEF Borrowed
<1>7. SUFFICES ASSUME NEW m \in 1 .. Len(Layers) PROVE SpanOK(m)'
  OBVIOUS
<1>8. PICK b \in BOOLEAN : b = Borrowed(m) /\ b = Borrowed(m)' /\ ~b
  BY <1>6, BorrowedType
<1>9. Ledger(Layers[m], HasTracer(m), w.span[m].st, w.span[m].sent, w.finalized[m], w.out[m], b)
  BY <1>8 DEF SpansOK, SpanOK
<1>10. CASE m # l
  <2>1. Ledger(Layers[m], HasTracer(m), w'.span[m].st, w'.span[m].sent, w'.finalized[m], w'.out[m], b)
    BY <1>1, <1>4, <1>9, <1>10
  <2> QED BY <1>1, <1>8, <2>1, LedgerIs
<1>11. CASE m = l
  <2>1. w.span[l].sent \in Nat /\ w.finalized[l] \in Nat
    BY <1>2 DEF Types, Works
  <2>2. Ledger(Layers[l], HasTracer(l), "none", w.span[l].sent, w.finalized[l], "none", b)
    BY <1>1, <1>2, <1>3, <1>9, <1>11
  <2>3. Ledger(Layers[l], HasTracer(l), "open", w.span[l].sent, w.finalized[l], "none", b)
    BY <1>3, <1>8, <2>1, <2>2, LedgerOpens
  <2>4. Ledger(Layers[m], HasTracer(m), w'.span[m].st, w'.span[m].sent, w'.finalized[m], w'.out[m], b)
    BY <1>1, <1>2, <1>4, <1>11, <2>3
  <2> QED BY <1>1, <1>8, <2>4, LedgerIs
<1> QED BY <1>10, <1>11

(* A step that finishes the span of its layer keeps every ledger.            *)
LEMMA EndsLedger ==
  ASSUME Types, Shape, SpansOK, NEW t \in Goroutines, Step(t), Ends(t)
  PROVE  \A m \in 1 .. Len(Layers) : SpanOK(m)'
<1>0. ~Return(t)
  BY DEF Ends, Pass, Panic, RunDeferred, Running, Return
<1>1. Alive(t) /\ config' = config /\ w'.out = w.out
  BY <1>0, StepWork DEF Step
<1>2. PICK l \in 1 .. Len(Layers) : l = Top(t).l
  BY <1>1, TopFacts
<1>3. w.span[l].st # "none" /\ w'.finalized = w.finalized /\ EndsAt(Len(Layers), w, w', l, 0)
  BY <1>2 DEF Ends
<1>4. \A m \in 1 .. Len(Layers) : w'.span[m].st = "none" <=> w.span[m].st = "none"
  BY <1>3 DEF EndsAt
<1>5. \A m : Borrowed(m)' <=> Borrowed(m)
  BY <1>1, <1>3, <1>4, ClientLayer, BorrowedKept
<1>6. SUFFICES ASSUME NEW m \in 1 .. Len(Layers) PROVE SpanOK(m)'
  OBVIOUS
<1>7. PICK b \in BOOLEAN : b = Borrowed(m) /\ b = Borrowed(m)'
  BY <1>5, BorrowedType
<1>8. Ledger(Layers[m], HasTracer(m), w.span[m].st, w.span[m].sent, w.finalized[m], w.out[m], b)
  BY <1>7 DEF SpansOK, SpanOK
<1>9. CASE m # l
  <2>1. w'.span[m] = w.span[m]
    BY <1>3, <1>9 DEF EndsAt
  <2>2. Ledger(Layers[m], HasTracer(m), w'.span[m].st, w'.span[m].sent, w'.finalized[m], w'.out[m], b)
    BY <1>1, <1>3, <1>8, <2>1
  <2> QED BY <1>1, <1>7, <2>2, LedgerIs
<1>10. CASE m = l
  <2>1. w.span[m].sent \in Nat /\ w.finalized[m] \in Nat /\ w.span[m].st \in SpanStates
    BY DEF Types, Works
  <2>2. HasTracer(m) => Layers[m] # "trace"
    BY TracerLayer
  <2>3. w.span[m].st # "none"
    BY <1>3, <1>10
  <2>4. Ledger(Layers[m], HasTracer(m), "finished",
               w.span[m].sent + One(Layers[m] = "trace" /\ w.span[m].st = "open") + 0,
               w.finalized[m], w.out[m], b)
    BY <1>8, <2>1, <2>2, <2>3, LedgerEnds
  <2>5. /\ w'.span[m].st = "finished"
        /\ w'.span[m].sent = w.span[m].sent + One(Layers[m] = "trace" /\ w.span[m].st = "open") + 0
    BY <1>3, <1>10 DEF EndsAt
  <2>6. Ledger(Layers[m], HasTracer(m), w'.span[m].st, w'.span[m].sent, w'.finalized[m], w'.out[m], b)
    BY <1>1, <1>3, <2>4, <2>5
  <2> QED BY <1>1, <1>7, <2>6, LedgerIs
<1> QED BY <1>9, <1>10

(* The finalizer of a layer runs once; the layer is the server or the client.*)
LEMMA FlushesFacts ==
  ASSUME Types, Shape, SpansOK, NEW t \in Goroutines, Step(t), Flushes(t)
  PROVE  LET l == Top(t).l IN
         /\ w.finalized[l] = 0 /\ w.out[l] = "none" /\ HasTracer(l) /\ Layers[l] # "trace"
         /\ l = 1 \/ l = Client
<1>1. RunDeferred(t) /\ th[t].st = "unwind" /\ Alive(t) /\ LastDeferred(t) = "finalizer"
  BY DEF Flushes, RunDeferred, Alive
<1>2. PICK l \in 1 .. Len(Layers) : l = Top(t).l /\ w.out[l] = "none"
  BY <1>1, TopFacts
<1>3. HasTracer(l)
  BY <1>2 DEF Flushes
<1>4. Tracing(Layers[l], HasTracer(l), w.span[l].st, w.finalized[l], Top(t).pc, Top(t).defers, TRUE)
  BY <1>1, <1>2, TopTracing
<1>5. ~Never(Top(t).defers)
  <2>1. PICK c \in Nat : c = Len(Top(t).defers) /\ c > 0
    BY <1>1, RunDeferredEffect
  <2>2. c \in 1 .. Len(Top(t).defers)
    BY <2>1
  <2> QED BY <1>1, <2>1, <2>2 DEF Never, LastDeferred
<1>6. w.finalized[l] = 0
  BY <1>3, <1>4, <1>5 DEF Tracing
<1>7. Layers[l] # "trace" /\ (l # 1 => l = Client)
  BY <1>3, TracerLayer, ClientLayer
<1> QED BY <1>2, <1>3, <1>6, <1>7

(* A finalizer keeps every ledger: it sends its own span or a borrowed one.  *)
LEMMA FlushesLedger ==
  ASSUME Types, Shape, SpansOK, NEW t \in Goroutines, Step(t), Flushes(t)
  PROVE  \A m \in 1 .. Len(Layers) : SpanOK(m)'
<1>0. ~Return(t)
  BY DEF Flushes, RunDeferred, Return
<1>1. Alive(t) /\ config' = config /\ w'.out = w.out
  BY <1>0, StepWork DEF Step
<1>2. PICK l \in 1 .. Len(Layers) : l = Top(t).l
  BY <1>1, TopFacts
<1>3. /\ w.finalized[l] = 0 /\ w.out[l] = "none" /\ HasTracer(l) /\ Layers[l] # "trace"
      /\ l = 1 \/ l = Client
  BY <1>2, FlushesFacts
<1>a. PICK n \in Nat : n = Len(Layers) /\ Client = n /\ Client \in 1 .. n
  BY ClientLayer
<1>4. PICK x \in Works(n), i \in 1 .. n : x = w /\ i = l
  BY <1>a DEF Types
<1>5. PICK j \in 0 .. i : /\ j = SpanIn(x, i) /\ (j # 0 => x.span[j].st # "none")
                          /\ IF x.span[i].st # "none" THEN j = i ELSE j \in 0 .. i - 1
  BY SpanInContext, SpanOwn
<1>6. /\ j = SpanIn(w, l) /\ (j # 0 => w.span[j].st # "none")
      /\ w.span[l].st # "none" => j = l
      /\ w.span[l].st = "none" => j # l
  BY <1>4, <1>5
<1>7. /\ j = 0 => w'.span = w.span
      /\ j # 0 => EndsAt(Len(Layers), w, w', j, 1)
      /\ w'.finalized[l] = w.finalized[l] + 1
      /\ \A m \in 1 .. Len(Layers) : m # l => w'.finalized[m] = w.finalized[m]
  BY <1>2, <1>6 DEF Flushes
<1>8. \A m \in 1 .. Len(Layers) : w'.span[m].st = "none" <=> w.span[m].st = "none"
  BY <1>6, <1>7 DEF EndsAt
<1>9. \A m \in 1 .. Len(Layers) : m # j => w'.span[m] = w.span[m]
  BY <1>7 DEF EndsAt
<1>10. SUFFICES ASSUME NEW m \in 1 .. Len(Layers) PROVE SpanOK(m)'
  OBVIOUS
<1>11. PICK b \in BOOLEAN, b2 \in BOOLEAN : b = Borrowed(m) /\ b2 = Borrowed(m)'
  BY BorrowedType
<1>12. Ledger(Layers[m], HasTracer(m), w.span[m].st, w.span[m].sent, w.finalized[m], w.out[m], b)
  BY <1>11 DEF SpansOK, SpanOK
<1>13. /\ w.span[m].sent \in Nat /\ w.finalized[m] \in Nat /\ w.span[m].st \in SpanStates
       /\ HasTracer(m) => Layers[m] # "trace"
  BY TracerLayer DEF Types, Works
<1>14. Layers' = Layers /\ Client' = Client /\ (HasTracer(Client)' <=> HasTracer(Client))
  BY <1>1, LayersKept DEF Client, HasTracer
<1>15. SUFFICES Ledger(Layers[m], HasTracer(m), w'.span[m].st, w'.span[m].sent, w'.finalized[m],
                       w'.out[m], b2)
  BY <1>1, <1>11, LedgerIs
<1>16. CASE w.span[l].st # "none"
  <2>1. b2 = b
    <3>1. CASE l = Client
      <4>1. w'.span[Client].st # "none" /\ w.span[Client].st # "none"
        BY <1>8, <1>16, <3>1
      <4>2. ~Borrowed(m) /\ ~Borrowed(m)'
        BY <1>14, <4>1 DEF Borrowed
      <4> QED BY <1>11, <4>2
    <3>2. CASE l # Client
      <4>1. w'.finalized[Client] = w.finalized[Client]
        BY <1>7, <1>a, <3>2
      <4>2. Borrowed(m)' <=> Borrowed(m)
        BY <1>1, <1>8, <1>a, <4>1, BorrowedKept
      <4> QED BY <1>11, <4>2
    <3> QED BY <3>1, <3>2
  <2>2. CASE m # l
    BY <1>1, <1>6, <1>7, <1>9, <1>12, <1>16, <2>1, <2>2
  <2>3. CASE m = l
    <3>1. Ledger(Layers[m], HasTracer(m), w.span[m].st, w.span[m].sent, 0, "none", b)
      BY <1>3, <1>12, <2>3
    <3>2. HasTracer(m) /\ Layers[m] # "trace" /\ w.span[m].st # "none"
      BY <1>3, <1>16, <2>3
    <3>3. Ledger(Layers[m], HasTracer(m), "finished",
                 w.span[m].sent + One(Layers[m] = "trace" /\ w.span[m].st = "open") + 1,
                 0 + 1, "none", b)
      BY <1>13, <3>1, <3>2, LedgerFlushesOwn
    <3>4. l # 0 /\ j = m
      BY <1>6, <1>16, <1>a, <2>3
    <3>5. /\ w'.span[m].st = "finished"
          /\ w'.span[m].sent = w.span[m].sent + One(Layers[m] = "trace" /\ w.span[m].st = "open") + 1
          /\ w'.finalized[m] = 0 + 1 /\ w'.out[m] = "none"
      BY <1>1, <1>3, <1>7, <2>3, <3>4 DEF EndsAt
    <3> QED BY <2>1, <3>3, <3>5
  <2> QED BY <2>2, <2>3
<1>17. CASE w.span[l].st = "none" /\ l = Client
  <2>1. l = Client /\ j # l
    BY <1>6, <1>17
  <2>2. ~b
    <3>1. ~(w.finalized[Client] > 0)
      BY <1>3, <2>1
    <3> QED BY <1>11, <3>1 DEF Borrowed
  <2>3. b2 <=> m = j
    <3>1. w'.finalized[Client] > 0
      BY <1>3, <1>7, <2>1
    <3>2. w'.span[Client].st = "none"
      BY <1>8, <1>17, <2>1
    <3>3. SpanIn(w', Client) = j
      <4>1. SpanIn(w', Client) = SpanIn(w, Client)
        BY <1>8, <1>a, SpanInKept
      <4> QED BY <1>6, <2>1, <4>1
    <3> QED BY <1>3, <1>11, <1>14, <2>1, <3>1, <3>2, <3>3 DEF Borrowed
  <2>4. CASE m = l
    <3>1. Ledger(Layers[m], HasTracer(m), "none", w.span[m].sent, 0, "none", b)
      BY <1>3, <1>12, <1>17, <2>4
    <3>2. HasTracer(m) /\ Layers[m] # "trace"
      BY <1>3, <2>4
    <3>3. Ledger(Layers[m], HasTracer(m), "none", w.span[m].sent, 0 + 1, "none", b2)
      BY <1>13, <3>1, <3>2, LedgerFlushesNone
    <3>4. /\ w'.span[m].st = "none" /\ w'.span[m].sent = w.span[m].sent
          /\ w'.finalized[m] = 0 + 1 /\ w'.out[m] = "none"
      BY <1>1, <1>3, <1>7, <1>9, <1>17, <2>1, <2>4
    <3> QED BY <3>3, <3>4
  <2>5. CASE m = j /\ m # l
    <3>1. j # 0
      BY <1>a, <2>5
    <3>2. w.span[m].st # "none"
      BY <1>6, <2>5, <3>1
    <3>3. Ledger(Layers[m], HasTracer(m), "finished",
                 w.span[m].sent + One(Layers[m] = "trace" /\ w.span[m].st = "open") + 1,
                 w.finalized[m], w.out[m], b2)
      <4>1. b2 /\ ~b
        BY <2>2, <2>3, <2>5
      <4> QED BY <1>12, <1>13, <3>2, <4>1, LedgerBorrows
    <3>4. /\ w'.span[m].st = "finished"
          /\ w'.span[m].sent = w.span[m].sent + One(Layers[m] = "trace" /\ w.span[m].st = "open") + 1
      BY <1>7, <2>5, <3>1 DEF EndsAt
    <3>5. w'.finalized[m] = w.finalized[m] /\ w'.out[m] = w.out[m]
      BY <1>1, <1>7, <2>5
    <3> QED BY <3>3, <3>4, <3>5
  <2>6. CASE m # j /\ m # l
    <3>1. b2 = b
      BY <2>2, <2>3, <2>6
    <3>2. w'.span[m] = w.span[m] /\ w'.finalized[m] = w.finalized[m] /\ w'.out[m] = w.out[m]
      BY <1>1, <1>7, <1>9, <2>6
    <3> QED BY <1>12, <3>1, <3>2
  <2> QED BY <2>4, <2>5, <2>6
<1>18. CASE w.span[l].st = "none" /\ l # Client
  <2>1. j = 0
    <3>1. i = 1 /\ j \in 0 .. i - 1
      BY <1>3, <1>4, <1>5, <1>18
    <3> QED BY <3>1
  <2>2. w'.span = w.span /\ w'.finalized[Client] = w.finalized[Client]
    BY <1>7, <1>a, <1>18, <2>1
  <2>3. b2 = b
    <3>1. Borrowed(m)' <=> Borrowed(m)
      BY <1>1, <1>8, <1>a, <2>2, BorrowedKept
    <3> QED BY <1>11, <3>1
  <2>4. CASE m # l
    BY <1>1, <1>7, <1>12, <2>2, <2>3, <2>4
  <2>5. CASE m = l
    <3>1. Ledger(Layers[m], HasTracer(m), "none", w.span[m].sent, 0, "none", b)
      BY <1>3, <1>12, <1>18, <2>5
    <3>2. HasTracer(m) /\ Layers[m] # "trace"
      BY <1>3, <2>5
    <3>3. Ledger(Layers[m], HasTracer(m), "none", w.span[m].sent, 0 + 1, "none", b2)
      BY <1>13, <3>1, <3>2, LedgerFlushesNone
    <3>4. /\ w'.span[m].st = "none" /\ w'.span[m].sent = w.span[m].sent
          /\ w'.finalized[m] = 0 + 1 /\ w'.out[m] = "none"
      BY <1>1, <1>3, <1>7, <1>18, <2>2, <2>5
    <3> QED BY <3>3, <3>4
  <2> QED BY <2>4, <2>5
<1> QED BY <1>16, <1>17, <1>18

(* Every step of a goroutine keeps every ledger.                             *)
LEMMA StepLedger ==
  ASSUME Types, Shape, Ahead, SpansOK, NEW t \in Goroutines, Step(t)
  PROVE  \A m \in 1 .. Len(Layers) : SpanOK(m)'
BY StepSpans, StaysLedger, OpensLedger, EndsLedger, FlushesLedger

(* The layers whose frames are not on top keep their spans as far as they    *)
(* know of them.                                                             *)
SpanKept(m) ==
  /\ w'.span[m].st = "none" <=> w.span[m].st = "none"
  /\ w.span[m].st = "finished" => w'.span[m].st = "finished"
  /\ HasTracer(m) => w'.finalized[m] = w.finalized[m]

(* A step of the layer on top keeps what the others know.                    *)
LEMMA OthersKept ==
  ASSUME Types, Shape, SpansOK, NEW t \in Goroutines, Step(t),
         NEW m \in 1 .. Len(Layers), m # Top(t).l
  PROVE  SpanKept(m)
<1>1. PICK l \in 1 .. Len(Layers) : l = Top(t).l
  BY StepWork, TopFacts
<1>2. CASE Stays(t)
  BY <1>2 DEF Stays, SameSpans, SpanKept
<1>3. CASE Opens(t)
  BY <1>1, <1>3 DEF Opens, SpanKept
<1>4. CASE Ends(t)
  BY <1>1, <1>4 DEF Ends, EndsAt, SpanKept
<1>5. CASE Flushes(t)
  <2>1. w'.finalized[m] = w.finalized[m]
    BY <1>5 DEF Flushes
  <2>2. PICK j : j = SpanIn(w, l)
    OBVIOUS
  <2>3. IF j = 0 THEN w'.span = w.span ELSE EndsAt(Len(Layers), w, w', j, 1)
    BY <1>1, <1>5, <2>2 DEF Flushes
  <2>4. j # 0 => w.span[j].st # "none"
    <3>1. PICK n \in Nat : n = Len(Layers) /\ w \in Works(n)
      BY LayerKinds, Zenon DEF Types
    <3>2. PICK x \in Works(n), i \in 1 .. n : x = w /\ i = l
      BY <3>1
    <3>3. SpanIn(x, i) # 0 => x.span[SpanIn(x, i)].st # "none"
      BY SpanInContext
    <3> QED BY <2>2, <3>2, <3>3
  <2> QED BY <2>1, <2>3, <2>4 DEF EndsAt, SpanKept
<1> QED BY <1>2, <1>3, <1>4, <1>5, StepSpans

(* What to show of a frame after a step.                                     *)
LEMMA FrameIs ==
  ASSUME config' = config, NEW u, NEW p, NEW l, NEW ret \in BOOLEAN, l = th'[u].stack[p].l,
         ret <=> (th'[u].st = "unwind" /\ p = Len(th'[u].stack)),
         Tracing(Layers[l], HasTracer(l), w'.span[l].st, w'.finalized[l],
                 th'[u].stack[p].pc, th'[u].stack[p].defers, ret)
  PROVE  FrameSpan(u, p)'
<1>1. Layers' = Layers
  BY LayersKept
<1>2. HasTracer(l)' = HasTracer(l)
  BY <1>1 DEF HasTracer
<1>3. ret = (th'[u].st = "unwind" /\ p = Len(th'[u].stack))
  OBVIOUS
<1> QED BY <1>1, <1>2, <1>3 DEF FrameSpan

(* What to show of a frame that goes on.                                     *)
LEMMA FrameRuns ==
  ASSUME config' = config, NEW u, NEW p, NEW l, l = th'[u].stack[p].l, NEW k, k = Layers[l],
         NEW tr, tr = HasTracer(l), th'[u].st = "run", NEW i, NEW d,
         i = th'[u].stack[p].pc, d = th'[u].stack[p].defers,
         Tracing(k, tr, w'.span[l].st, w'.finalized[l], i, d, FALSE)
  PROVE  FrameSpan(u, p)'
<1>1. PICK ret \in BOOLEAN : ret = FALSE
  OBVIOUS
<1>2. ret <=> (th'[u].st = "unwind" /\ p = Len(th'[u].stack))
  BY <1>1
<1> QED BY <1>1, <1>2, FrameIs

(* What to show of the frame on top when it has given up or run out.         *)
LEMMA FrameUnwinds ==
  ASSUME config' = config, NEW u, NEW p, NEW l, l = th'[u].stack[p].l, NEW k, k = Layers[l],
         NEW tr, tr = HasTracer(l), th'[u].st = "unwind", p = Len(th'[u].stack), NEW i, NEW d,
         i = th'[u].stack[p].pc, d = th'[u].stack[p].defers,
         Tracing(k, tr, w'.span[l].st, w'.finalized[l], i, d, TRUE)
  PROVE  FrameSpan(u, p)'
<1>1. PICK ret \in BOOLEAN : ret = TRUE
  OBVIOUS
<1>2. ret <=> (th'[u].st = "unwind" /\ p = Len(th'[u].stack))
  BY <1>1
<1> QED BY <1>1, <1>2, FrameIs

(* The frames a step does not touch keep what they know.                     *)
LEMMA FramesKept ==
  ASSUME Types, Shape, SpansOK, NEW t \in Goroutines, Step(t), NEW u \in Goroutines,
         NEW p \in 1 .. Len(th[u].stack),
         \/ u # t
         \/ p < Len(th[t].stack) /\ p < Len(th'[t].stack) /\ th'[t].stack[p] = th[t].stack[p]
  PROVE  FrameSpan(u, p)'
<1>1. config' = config /\ Turn(t) /\ Alive(t)
  BY StepEffects, StepWork
<1>2. FrameSpan(u, p)
  BY DEF SpansOK
<1>3. PICK l \in 1 .. Len(Layers) : l = th[u].stack[p].l
  BY DEF Shape, StackOK, FrameOK
<1>4. th'[u].stack[p] = th[u].stack[p]
  BY <1>1 DEF Turn
<1>5. l # Top(t).l
  <2>1. CASE u # t
    BY <1>1, <1>3, <2>1, StacksApart
  <2>2. CASE u = t
    <3>1. l < Top(t).l
      BY <1>1, <1>3, <2>2, LayersRise
    <3>2. Top(t).l \in 1 .. Len(Layers)
      BY <1>1, TopFacts
    <3> QED BY <3>1, <3>2, LayerKinds DEF Types
  <2> QED BY <2>1, <2>2
<1>6. SpanKept(l)
  BY <1>5, OthersKept
<1>7. CASE ~Alive(u)
  <2>1. u # t
    BY <1>1, <1>7
  <2>2. th'[u] = th[u]
    BY <1>1, <2>1 DEF Turn
  <2> QED BY <1>7, <2>2 DEF FrameSpan, Alive
<1>8. CASE Alive(u)
  <2>1. PICK ret \in BOOLEAN : ret = (th[u].st = "unwind" /\ p = Len(th[u].stack))
    OBVIOUS
  <2>2. ret <=> (th'[u].st = "unwind" /\ p = Len(th'[u].stack))
    <3>1. CASE u # t
      <4>1. th'[u] = th[u]
        BY <1>1, <3>1 DEF Turn
      <4> QED BY <2>1, <4>1
    <3>2. CASE u = t
      <4>1. th[t].stack \in Seq(Frames) /\ th'[t].stack \in Seq(Frames)
        BY <1>1 DEF Types, Turn, Threads
      <4>2. p # Len(th[t].stack) /\ p # Len(th'[t].stack)
        BY <3>2, <4>1, LenProperties
      <4> QED BY <2>1, <3>2, <4>2
    <3> QED BY <3>1, <3>2
  <2>3. Tracing(Layers[l], HasTracer(l), w.span[l].st, w.finalized[l], th[u].stack[p].pc,
                th[u].stack[p].defers, ret)
    BY <1>2, <1>3, <1>8, <2>1 DEF FrameSpan
  <2>4. Tracing(Layers[l], HasTracer(l), w'.span[l].st, w'.finalized[l], th[u].stack[p].pc,
                th[u].stack[p].defers, ret)
    BY <1>6, <2>3, TracingKept DEF SpanKept
  <2> QED BY <1>1, <1>3, <1>4, <2>2, <2>4, FrameIs
<1> QED BY <1>7, <1>8

(* The frame on top, by its kind and stage.                                  *)
AtFrame(t, n, l, k, tr, i, d) ==
  /\ n \in Nat /\ l \in 1 .. Len(Layers) /\ k \in Kinds /\ tr \in BOOLEAN /\ i \in Nat
  /\ d \in Seq(DeferredCalls)
  /\ n = Len(th[t].stack) /\ n > 0 /\ n \in 1 .. Len(th[t].stack)
  /\ Top(t) = th[t].stack[n] /\ l = Top(t).l /\ k = Layers[l]
  /\ tr = HasTracer(l) /\ (tr => k \in DOMAIN Tracers)
  /\ i = Top(t).pc /\ i \in 1 .. Len(Stages[k]) /\ Stage(t) = Stages[k][i]
  /\ d = Top(t).defers

(* The frame on top knows of its span what its stage says.                   *)
LEMMA TopFrame ==
  ASSUME Types, Shape, SpansOK, NEW t \in Goroutines, Alive(t)
  PROVE  \E n, l, k, tr, i, d :
           /\ AtFrame(t, n, l, k, tr, i, d)
           /\ th[t].st = "run" => Tracing(k, tr, w.span[l].st, w.finalized[l], i, d, FALSE)
           /\ th[t].st = "unwind" => Tracing(k, tr, w.span[l].st, w.finalized[l], i, d, TRUE)
<1>1. PICK n \in Nat : /\ n = Len(th[t].stack) /\ n > 0 /\ Top(t) = th[t].stack[n]
                       /\ Top(t) \in Frames /\ n \in 1 .. Len(th[t].stack)
  BY TopAt
<1>2. PICK l \in 1 .. Len(Layers) : l = Top(t).l
  BY TopFacts
<1>3. PICK k \in Kinds, i \in Nat :
        k = Layers[l] /\ i \in 1 .. Len(Stages[k]) /\ i = Top(t).pc /\ Stage(t) = Stages[k][i]
  BY <1>2, AtStage, CallStages
<1>4. PICK d \in Seq(DeferredCalls) : d = Top(t).defers
  BY <1>1 DEF Frames
<1>5. PICK tr \in BOOLEAN : tr = HasTracer(l)
  BY <1>2, TopTracing
<1>6. tr => k \in DOMAIN Tracers
  BY <1>2, <1>3, <1>5, TopTracing
<1>7. Tracing(k, tr, w.span[l].st, w.finalized[l], i, d, th[t].st = "unwind")
  BY <1>2, <1>3, <1>4, <1>5, TopTracing
<1>8. th[t].st = "run" => Tracing(k, tr, w.span[l].st, w.finalized[l], i, d, FALSE)
  <2> SUFFICES ASSUME th[t].st = "run"
               PROVE  Tracing(k, tr, w.span[l].st, w.finalized[l], i, d, FALSE)
    OBVIOUS
  <2>1. (th[t].st = "unwind") = FALSE
    OBVIOUS
  <2> QED BY <1>7, <2>1
<1>9. th[t].st = "unwind" => Tracing(k, tr, w.span[l].st, w.finalized[l], i, d, TRUE)
  <2> SUFFICES ASSUME th[t].st = "unwind"
               PROVE  Tracing(k, tr, w.span[l].st, w.finalized[l], i, d, TRUE)
    OBVIOUS
  <2>1. (th[t].st = "unwind") = TRUE
    OBVIOUS
  <2> QED BY <1>7, <2>1
<1>10. AtFrame(t, n, l, k, tr, i, d)
  BY <1>1, <1>2, <1>3, <1>4, <1>5, <1>6 DEF AtFrame
<1> QED BY <1>8, <1>9, <1>10

(* The kind of a layer, and whether it has a tracer.                         *)
LEMMA TracerType ==
  ASSUME Types, NEW m \in 1 .. Len(Layers)
  PROVE  \E k \in Kinds, tr \in BOOLEAN :
           k = Layers[m] /\ tr = HasTracer(m) /\ (tr => k \in DOMAIN Tracers)
<1>1. Layers[m] \in Kinds
  BY LayerKinds DEF Types
<1>2. HasTracer(m) => Layers[m] \in DOMAIN Tracers
  BY DEF HasTracer
<1>3. config.traced \in BOOLEAN
  BY DEF Types, Configs
<1>4. HasTracer(m) \in BOOLEAN
  BY <1>3, Zenon DEF HasTracer
<1> QED BY <1>1, <1>2, <1>4

(* An error leaves the spans alone, and neither it nor a panic finalizes.    *)
LEMMA FailSame ==
  ASSUME Types, Shape, NEW t \in Goroutines, Fail(t) \/ Panic(t)
  PROVE  w'.finalized = w.finalized /\ (w'.span = w.span \/ Panic(t))
<1>0. PICK n \in Nat : n = Len(Layers) /\ w \in Works(n)
  BY LayerKinds, Zenon DEF Types
<1>1. Alive(t)
  BY DEF Fail, Panic, Running, Alive
<1>2. Server \in ServerKinds /\ Layers[1] = Server
  BY LayerKinds DEF Types
<1>3. PICK l \in 1 .. n : l = Top(t).l
  BY <1>0, <1>1, TopFacts
<1>4. PICK x0 \in Works(n) : x0 = w
  BY <1>0
<1>5. CASE Fail(t)
  <2>1. PICK y \in Failures(x0, l, Stage(t)) : w' = y
    BY <1>3, <1>4, <1>5 DEF Fail
  <2>2. y.span = x0.span /\ y.finalized = x0.finalized
    BY <1>2, FailuresFacts
  <2> QED BY <1>4, <2>1, <2>2
<1>6. CASE Panic(t)
  <2>0. PICK s : s = Stage(t)
    OBVIOUS
  <2>1. PICK y \in Panics(x0, l, s) : w' = y
    BY <1>3, <1>4, <1>6, <2>0 DEF Panic
  <2>2. y.finalized = x0.finalized
    BY PanicsFacts
  <2> QED BY <1>4, <1>6, <2>1, <2>2
<1> QED BY <1>5, <1>6

(* The frame on top after it has deferred a call.                            *)
LEMMA DeferTracing ==
  ASSUME Types, Shape, SpansOK, NEW t \in Goroutines, Defer(t), config' = config
  PROVE  FrameSpan(t, Len(th[t].stack))'
<1>1. /\ Advance(th[t], th'[t]) /\ w' = w /\ Stage(t) \in DeferStages
      /\ th'[t].stack[Len(th[t].stack)].defers = Top(t).defers \o Deferral(Stage(t))
  BY DeferEffect
<1>2. th[t].st = "run" /\ Alive(t)
  BY <1>1 DEF Advance, Alive
<1>3. PICK n, l, k, tr, i, a :
        AtFrame(t, n, l, k, tr, i, a) /\ Tracing(k, tr, w.span[l].st, w.finalized[l], i, a, FALSE)
  BY <1>2, TopFrame
<1>4. PICK b \in Seq(DeferredCalls) : b = Deferral(Stage(t))
  BY <1>1, DeferralFacts
<1>5. /\ i # Len(Stages[k]) => Tracing(k, tr, w.span[l].st, w.finalized[l], i + 1, a \o b, FALSE)
      /\ i = Len(Stages[k]) => Tracing(k, tr, w.span[l].st, w.finalized[l], i, a \o b, TRUE)
  <2>1. /\ k \in Kinds /\ tr \in BOOLEAN /\ a \in Seq(DeferredCalls)
        /\ i \in 1 .. Len(Stages[k]) /\ (tr => k \in DOMAIN Tracers)
        /\ Stages[k][i] \in DeferStages /\ b = Deferral(Stages[k][i])
    BY <1>1, <1>3, <1>4, Zenon DEF AtFrame
  <2> QED BY <1>3, <1>4, <2>1, TracingDefers, Zenon
<1>6. /\ Len(th'[t].stack) = n /\ th'[t].stack[n].l = l /\ th'[t].stack[n].defers = a \o b
      /\ i = Len(Stages[k]) => th'[t].st = "unwind" /\ th'[t].stack[n].pc = i
      /\ i # Len(Stages[k]) => th'[t].st = "run" /\ th'[t].stack[n].pc = i + 1
  BY <1>1, <1>3, <1>4, Zenon DEF Advance, AtFrame
<1>7. FrameSpan(t, n)'
  <2>1. CASE i = Len(Stages[k])
    BY <1>1, <1>3, <1>5, <1>6, <2>1, FrameUnwinds, Zenon DEF AtFrame
  <2>2. CASE i # Len(Stages[k])
    BY <1>1, <1>3, <1>5, <1>6, <2>2, FrameRuns, Zenon DEF AtFrame
  <2> QED BY <2>1, <2>2
<1> QED BY <1>3, <1>6, <1>7, Zenon DEF AtFrame

(* A stage passes, and starts or finishes the span of its layer.             *)
LEMMA PassTracing ==
  ASSUME Types, Shape, SpansOK, NEW t \in Goroutines, Pass(t), config' = config
  PROVE  FrameSpan(t, Len(th[t].stack))'
<1>1. /\ Advance(th[t], th'[t])
      /\ Stage(t) \notin DeferStages \cup {"call", "spawn", "wait"}
      /\ th'[t].stack[Len(th[t].stack)].defers = Top(t).defers
  BY PassEffect
<1>2. th[t].st = "run" /\ Alive(t) /\ ~RunDeferred(t)
  BY <1>1 DEF Advance, Alive, RunDeferred
<1>3. PICK n, l, k, tr, i, d :
        AtFrame(t, n, l, k, tr, i, d) /\ Tracing(k, tr, w.span[l].st, w.finalized[l], i, d, FALSE)
  BY <1>2, TopFrame, Zenon
<1>4. /\ tr => w'.finalized[l] = w.finalized[l]
      /\ IF Stages[k][i] = "start" \/ (Stages[k][i] = "before" /\ tr)
         THEN w'.span[l].st # "none" ELSE w'.span[l].st = "none" <=> w.span[l].st = "none"
  <2>1. CASE Stays(t)
    BY <1>3, <2>1, Zenon DEF Stays, SameSpans, AtFrame
  <2>2. CASE Opens(t)
    BY <1>3, <2>2, Zenon DEF Opens, AtFrame
  <2>3. CASE Ends(t)
    BY <1>2, <1>3, <2>3, Zenon DEF Ends, EndsAt, AtFrame
  <2> QED BY <2>1, <2>2, <2>3, PassSpans
<1>5. PICK s2, f2 : s2 = w'.span[l].st /\ f2 = w'.finalized[l]
  OBVIOUS
<1>6. /\ i # Len(Stages[k]) => Tracing(k, tr, s2, w.finalized[l], i + 1, d, FALSE)
      /\ i = Len(Stages[k]) => Tracing(k, tr, s2, w.finalized[l], i, d, TRUE)
  <2>1. /\ k \in Kinds /\ tr \in BOOLEAN /\ d \in Seq(DeferredCalls)
        /\ i \in 1 .. Len(Stages[k]) /\ (tr => k \in DOMAIN Tracers)
        /\ Stages[k][i] \notin DeferStages
    BY <1>1, <1>3, Zenon DEF AtFrame
  <2>2. IF Stages[k][i] = "start" \/ (Stages[k][i] = "before" /\ tr)
        THEN s2 # "none" ELSE s2 = "none" <=> w.span[l].st = "none"
    BY <1>4, <1>5
  <2> QED BY <1>3, <2>1, <2>2, TracingMoves, Zenon
<1>7. /\ i # Len(Stages[k]) => Tracing(k, tr, s2, f2, i + 1, d, FALSE)
      /\ i = Len(Stages[k]) => Tracing(k, tr, s2, f2, i, d, TRUE)
  <2>1. tr => f2 = w.finalized[l]
    BY <1>4, <1>5
  <2> QED BY <1>6, <2>1, TracingKept, Zenon
<1>8. /\ Len(th'[t].stack) = n /\ th'[t].stack[n].l = l /\ th'[t].stack[n].defers = d
      /\ i = Len(Stages[k]) => th'[t].st = "unwind" /\ th'[t].stack[n].pc = i
      /\ i # Len(Stages[k]) => th'[t].st = "run" /\ th'[t].stack[n].pc = i + 1
  BY <1>1, <1>3, Zenon DEF Advance, AtFrame
<1>9. FrameSpan(t, n)'
  <2>1. CASE i = Len(Stages[k])
    BY <1>3, <1>5, <1>7, <1>8, <2>1, FrameUnwinds, Zenon DEF AtFrame
  <2>2. CASE i # Len(Stages[k])
    BY <1>3, <1>5, <1>7, <1>8, <2>2, FrameRuns, Zenon DEF AtFrame
  <2> QED BY <2>1, <2>2
<1> QED BY <1>3, <1>8, <1>9, Zenon DEF AtFrame

(* The frame on top after it has failed or panicked.                         *)
LEMMA FailTracing ==
  ASSUME Types, Shape, SpansOK, NEW t \in Goroutines, Fail(t) \/ Panic(t), Step(t)
  PROVE  FrameSpan(t, Len(th[t].stack))'
<1>1. PICK r \in Results :
        /\ GiveUp(th[t], th'[t], r) /\ Stage(t) \in Fallible \cup UserCode
        /\ Panic(t) => Stage(t) \in UserCode
  BY FailEffect, PanicEffect DEF Results
<1>2. /\ th[t].st = "run" /\ Alive(t) /\ config' = config
      /\ th'[t].st = "unwind" /\ th'[t].stack = th[t].stack
  BY <1>1 DEF GiveUp, Alive, Step
<1>3. PICK n, l, k, tr, i, d :
        AtFrame(t, n, l, k, tr, i, d) /\ Tracing(k, tr, w.span[l].st, w.finalized[l], i, d, FALSE)
  BY <1>2, TopFrame, Zenon
<1>4. Tracing(k, tr, w.span[l].st, w.finalized[l], i, d, TRUE)
  <2>1. /\ k \in Kinds /\ tr \in BOOLEAN /\ d \in Seq(DeferredCalls)
        /\ i \in 1 .. Len(Stages[k]) /\ (tr => k \in DOMAIN Tracers)
        /\ Stages[k][i] \in Fallible \cup UserCode \cup {"call", "wait"}
    BY <1>1, <1>3, Zenon DEF AtFrame
  <2> QED BY <1>3, <2>1, TracingFails, Zenon
<1>5. w'.finalized = w.finalized /\ (w'.span = w.span \/ Panic(t))
  BY FailSame
<1>6. PICK s2, f2 : s2 = w'.span[l].st /\ f2 = w'.finalized[l]
  OBVIOUS
<1>7. Tracing(k, tr, s2, f2, i, d, TRUE)
  <2>1. CASE w'.span = w.span
    BY <1>4, <1>5, <1>6, <2>1
  <2>2. CASE Panic(t)
    <3>1. k # "trace"
      <4>1. i \in 1 .. Len(Stages[k]) /\ Stages[k][i] \in UserCode
        BY <1>1, <1>3, <2>2, Zenon DEF AtFrame
      <4>2. i \in 1 .. 3 => i = 1 \/ i = 2 \/ i = 3
        OBVIOUS
      <4> QED BY <4>1, <4>2, TraceStages DEF UserCode
    <3>2. f2 = w.finalized[l]
      BY <1>5, <1>6
    <3>3. PICK s1, f1 : s1 = w.span[l].st /\ f1 = w.finalized[l]
      OBVIOUS
    <3>4. Tracing(k, tr, s1, f1, i, d, TRUE) /\ f2 = f1
      BY <1>4, <3>2, <3>3
    <3> QED BY <3>1, <3>4, TracingUnwinds
  <2> QED BY <1>5, <2>1, <2>2
<1>8. FrameSpan(t, n)'
  BY <1>2, <1>3, <1>6, <1>7, FrameUnwinds, Zenon DEF AtFrame
<1> QED BY <1>2, <1>3, <1>8, Zenon DEF AtFrame

(* The frame on top after it has called, and the frame of the callee.        *)
LEMMA CallTracing ==
  ASSUME Types, Shape, Ahead, SpansOK, NEW t \in Goroutines, Call(t), config' = config
  PROVE  \E n \in Nat :
           /\ n = Len(th[t].stack) /\ Len(th'[t].stack) = n + 1
           /\ \A p \in 1 .. n : th'[t].stack[p] = th[t].stack[p]
           /\ FrameSpan(t, n)' /\ FrameSpan(t, n + 1)'
<1>1. Push(th[t], th'[t]) /\ w' = w /\ Stage(t) = "call"
  BY CallEffect
<1>2. th[t].st = "run" /\ Alive(t) /\ Layers' = Layers
  BY <1>1, LayersKept DEF Push, Alive
<1>3. PICK n, l, k, tr, i, d :
        AtFrame(t, n, l, k, tr, i, d) /\ Tracing(k, tr, w.span[l].st, w.finalized[l], i, d, FALSE)
  BY <1>2, TopFrame, Zenon
<1>4. /\ Len(th'[t].stack) = n + 1 /\ th'[t].st = "run"
      /\ \A p \in 1 .. n : th'[t].stack[p] = th[t].stack[p]
      /\ th'[t].stack[n + 1].l = l + 1 /\ th'[t].stack[n + 1].pc = 1
      /\ th'[t].stack[n + 1].defers = <<>>
  BY <1>1, <1>3, Zenon DEF Push, AtFrame
<1>5. FrameSpan(t, n)'
  <2>1. th'[t].stack[n] = th[t].stack[n]
    BY <1>3, <1>4, Zenon DEF AtFrame
  <2> QED BY <1>1, <1>3, <1>4, <2>1, FrameRuns, Zenon DEF AtFrame
<1>6. Before(t) /\ StackOK(t)'
  BY <1>1, PushStack
<1>7. PICK m \in 1 .. Len(Layers) : m = l + 1 /\ m > l
  <2>0. n \in Nat /\ l \in 1 .. Len(Layers)
    BY <1>3, Zenon DEF AtFrame
  <2>1. n + 1 \in 1 .. Len(th'[t].stack)
    BY <1>4, <2>0
  <2>2. l + 1 \in 1 .. Len(Layers)
    BY <1>2, <1>4, <1>6, <2>1 DEF StackOK, FrameOK
  <2> QED BY <2>0, <2>2
<1>8. w.span[m].st = "none" /\ w.finalized[m] = 0
  BY <1>3, <1>6, <1>7, Zenon DEF Ahead, Fresh, AtFrame
<1>9. PICK k2 \in Kinds, tr2 \in BOOLEAN :
         k2 = Layers[m] /\ tr2 = HasTracer(m) /\ (tr2 => k2 \in DOMAIN Tracers)
  BY TracerType
<1>10. Tracing(k2, tr2, "none", 0, 1, <<>>, FALSE)
  BY <1>9, TracingStarts
<1>11. FrameSpan(t, n + 1)'
  BY <1>1, <1>4, <1>7, <1>8, <1>9, <1>10, FrameRuns, Zenon
<1> QED BY <1>3, <1>4, <1>5, <1>11, Zenon DEF AtFrame

(* The frame on top after it has run a deferred call.                        *)
LEMMA RunDeferredTracing ==
  ASSUME Types, Shape, SpansOK, NEW t \in Goroutines, RunDeferred(t), config' = config
  PROVE  FrameSpan(t, Len(th[t].stack))'
<1>1. PopDefer(th[t], th'[t]) /\ Len(Top(t).defers) \in Nat /\ Len(Top(t).defers) > 0
  BY RunDeferredEffect
<1>2. th[t].st = "unwind" /\ Alive(t) /\ ~Pass(t) /\ ~Panic(t)
  BY <1>1 DEF PopDefer, Alive, Pass, Panic, Running
<1>3. PICK n, l, k, tr, i, d :
        AtFrame(t, n, l, k, tr, i, d) /\ Tracing(k, tr, w.span[l].st, w.finalized[l], i, d, TRUE)
  BY <1>2, TopFrame, Zenon
<1>4. Len(d) > 0 /\ d[Len(d)] = LastDeferred(t)
  BY <1>1, <1>3, Zenon DEF AtFrame, LastDeferred
<1>5. /\ w'.span[l].st = "none" <=> w.span[l].st = "none"
      /\ LastDeferred(t) = "finish" => w'.span[l].st = "finished"
      /\ tr => w'.finalized[l] =
                 IF LastDeferred(t) = "finalizer" THEN w.finalized[l] + 1 ELSE w.finalized[l]
  <2>1. CASE Stays(t)
    BY <1>3, <2>1, Zenon DEF Stays, SameSpans, AtFrame
  <2>2. CASE Ends(t)
    BY <1>2, <1>3, <2>2, Zenon DEF Ends, EndsAt, AtFrame
  <2>3. CASE Flushes(t)
    <3>1. /\ LastDeferred(t) = "finalizer" /\ w'.finalized[l] = w.finalized[l] + 1
          /\ IF SpanIn(w, l) = 0 THEN w'.span = w.span
             ELSE EndsAt(Len(Layers), w, w', SpanIn(w, l), 1)
      BY <1>3, <2>3, Zenon DEF Flushes, AtFrame
    <3>2. PICK j : j = SpanIn(w, l) /\ l \in 1 .. Len(Layers)
      BY <1>3, Zenon DEF AtFrame
    <3>3. j # 0 => w.span[j].st # "none"
      <4>1. PICK c \in Nat : c = Len(Layers) /\ w \in Works(c)
        BY LayerKinds, Zenon DEF Types
      <4>2. PICK x \in Works(c), m \in 1 .. c : x = w /\ m = l
        BY <3>2, <4>1
      <4>3. SpanIn(x, m) # 0 => x.span[SpanIn(x, m)].st # "none"
        BY SpanInContext
      <4> QED BY <3>2, <4>2, <4>3
    <3> QED BY <3>1, <3>2, <3>3 DEF EndsAt
  <2> QED BY <2>1, <2>2, <2>3, DeferredSpans
<1>6. PICK s2, f2 : s2 = w'.span[l].st /\ f2 = w'.finalized[l]
  OBVIOUS
<1>7. Tracing(k, tr, s2, f2, i, Front(d), TRUE)
  <2>1. /\ k \in Kinds /\ tr \in BOOLEAN /\ d \in Seq(DeferredCalls)
        /\ tr => k \in DOMAIN Tracers
    BY <1>3, Zenon DEF AtFrame
  <2>2. /\ s2 = "none" <=> w.span[l].st = "none"
        /\ d[Len(d)] = "finish" => s2 = "finished"
        /\ tr => f2 = IF d[Len(d)] = "finalizer" THEN w.finalized[l] + 1 ELSE w.finalized[l]
    BY <1>4, <1>5, <1>6
  <2> QED BY <1>3, <1>4, <2>1, <2>2, TracingPops, Zenon
<1>8. /\ Len(th'[t].stack) = n /\ th'[t].stack[n].l = l /\ th'[t].st = "unwind"
      /\ th'[t].stack[n].defers = Front(d) /\ th'[t].stack[n].pc = i
  BY <1>1, <1>3, Zenon DEF PopDefer, AtFrame
<1>9. FrameSpan(t, n)'
  BY <1>3, <1>6, <1>7, <1>8, FrameUnwinds, Zenon DEF AtFrame
<1> QED BY <1>3, <1>8, <1>9, Zenon DEF AtFrame

(* The caller of the layer that returned: it goes on after its call, or      *)
(* gives up in it.                                                           *)
Calling(t, q, l, k, tr, i, d) ==
  /\ k = Layers[l] /\ tr = HasTracer(l)
  /\ i = th[t].stack[q].pc /\ d = th[t].stack[q].defers
  /\ Tracing(k, tr, w'.span[l].st, w'.finalized[l], i, d, TRUE)
  /\ i # Len(Stages[k]) => Tracing(k, tr, w'.span[l].st, w'.finalized[l], i + 1, d, FALSE)

(* The frame of the caller when the layer inside returns.                    *)
LEMMA CallerTracing ==
  ASSUME Types, Shape, SpansOK, NEW t \in Goroutines, Step(t), Alive(t), NEW q \in Nat,
         q \in 1 .. Len(th[t].stack), q < Len(th[t].stack),
         NEW l \in 1 .. Len(Layers), l = th[t].stack[q].l
  PROVE  \E k, tr, i, d :
           Calling(t, q, l, k, tr, i, d)
<1>1. PICK k \in Kinds, tr \in BOOLEAN :
        k = Layers[l] /\ tr = HasTracer(l) /\ (tr => k \in DOMAIN Tracers)
  BY TracerType
<1>2. PICK i \in Nat, d \in Seq(DeferredCalls) :
        i = th[t].stack[q].pc /\ d = th[t].stack[q].defers
  <2>1. th[t].stack \in Seq(Frames)
    BY DEF Types, Threads
  <2>2. th[t].stack[q] \in Frames
    BY <2>1
  <2> QED BY <2>2 DEF Frames
<1>3. i = CallAt[k] /\ k # "hystrix" /\ i \in 1 .. Len(Stages[k])
  BY <1>1, <1>2 DEF Shape, StackOK, FrameOK
<1>4. Stages[k][i] = "call"
  <2>1. Stages[k][i] \in {"call", "spawn"} /\ Stages[k][i] # "spawn"
    BY <1>3, CallStages
  <2> QED BY <2>1
<1>5. Tracing(k, tr, w.span[l].st, w.finalized[l], i, d, FALSE)
  <2>1. FrameSpan(t, q)
    BY DEF SpansOK
  <2>2. q # Len(th[t].stack)
    OBVIOUS
  <2>3. (th[t].st = "unwind" /\ q = Len(th[t].stack)) = FALSE
    BY <2>2
  <2> QED BY <1>1, <1>2, <2>1, <2>3, Zenon DEF FrameSpan
<1>6. l # Top(t).l
  <2>1. l < Top(t).l
    BY LayersRise
  <2>2. Top(t).l \in 1 .. Len(Layers)
    BY TopFacts
  <2> QED BY <2>1, <2>2, LayerKinds DEF Types
<1>7. PICK s2, f2 : s2 = w'.span[l].st /\ f2 = w'.finalized[l]
  OBVIOUS
<1>8. /\ s2 = "none" <=> w.span[l].st = "none"
      /\ w.span[l].st = "finished" => s2 = "finished"
      /\ tr => f2 = w.finalized[l]
  BY <1>1, <1>6, <1>7, OthersKept DEF SpanKept
<1>9. Tracing(k, tr, s2, f2, i, d, FALSE)
  <2>1. PICK s1, f1 : s1 = w.span[l].st /\ f1 = w.finalized[l]
    OBVIOUS
  <2>2. Tracing(k, tr, s1, f1, i, d, FALSE)
    BY <1>5, <2>1
  <2>3. /\ s2 = "none" <=> s1 = "none"
        /\ s1 = "finished" => s2 = "finished"
        /\ tr => f2 = f1
    BY <1>8, <2>1
  <2> QED BY <2>2, <2>3, TracingKept
<1>10. Tracing(k, tr, s2, f2, i, d, TRUE)
  BY <1>1, <1>3, <1>4, <1>9, TracingFails, Zenon
<1>11. i # Len(Stages[k]) => Tracing(k, tr, s2, f2, i + 1, d, FALSE)
  <2>1. Stages[k][i] \notin DeferStages /\ Stages[k][i] # "start" /\ Stages[k][i] # "before"
    BY <1>4 DEF DeferStages
  <2> QED BY <1>1, <1>3, <1>9, <2>1, TracingMoves, Zenon
<1>12. Calling(t, q, l, k, tr, i, d)
  BY <1>1, <1>2, <1>7, <1>10, <1>11, Zenon DEF Calling
<1> QED BY <1>12

(* The frames that are left after a layer has returned.                      *)
LEMMA ReturnTracing ==
  ASSUME Types, Shape, SpansOK, NEW t \in Goroutines, Return(t), Step(t)
  PROVE  \A p \in 1 .. Len(th'[t].stack) : FrameSpan(t, p)'
<1>1. /\ config' = config
      /\ End(th[t], th'[t]) \/ Drop(th[t], th'[t]) \/ Resume(th[t], th'[t])
  BY ReturnEffect DEF Step
<1>2. th[t].st = "unwind" /\ Alive(t)
  BY DEF Return, Alive
<1>3. PICK n \in Nat : /\ n = Len(th[t].stack) /\ n > 0 /\ Top(t) = th[t].stack[n]
                       /\ n \in 1 .. Len(th[t].stack)
  BY <1>2, TopAt
<1>4. CASE End(th[t], th'[t])
  <2>1. th'[t].st = "done"
    BY <1>4 DEF End
  <2> QED BY <2>1 DEF FrameSpan, Alive
<1>5. CASE Drop(th[t], th'[t]) \/ Resume(th[t], th'[t])
  <2>1. PICK q \in Nat : /\ q = n - 1 /\ n > 1 /\ q < n /\ q \in 1 .. n
                         /\ q \in 1 .. Len(th[t].stack) /\ q < Len(th[t].stack)
    <3>1. n > 1
      BY <1>3, <1>5 DEF Drop, Resume
    <3>2. n - 1 \in 1 .. n /\ n - 1 < n /\ n - 1 \in Nat
      BY <3>1
    <3> QED BY <1>3, <3>1, <3>2
  <2>2. FrameOK(t, q)
    BY <1>2, <2>1, TopFacts
  <2>3. PICK l \in 1 .. Len(Layers) : l = th[t].stack[q].l
    BY <2>2 DEF FrameOK
  <2>4. PICK k, tr, i, d :
          Calling(t, q, l, k, tr, i, d)
    BY <1>2, <2>1, <2>3, CallerTracing
  <2>5. /\ Len(th'[t].stack) = q /\ th'[t].stack[q].l = l /\ th'[t].stack[q].defers = d
        /\ \A p \in 1 .. q - 1 : th'[t].stack[p] = th[t].stack[p]
        /\ \/ th'[t].st = "unwind" /\ th'[t].stack[q].pc = i
           \/ i # Len(Stages[k]) /\ th'[t].st = "run" /\ th'[t].stack[q].pc = i + 1
    <3>1. CASE Drop(th[t], th'[t])
      <4>1. /\ Len(th'[t].stack) = q /\ th'[t].st = "unwind"
            /\ \A p \in 1 .. q : th'[t].stack[p] = th[t].stack[p]
        BY <1>3, <2>1, <3>1 DEF Drop
      <4>2. q \in 1 .. q
        BY <2>1
      <4>3. th'[t].stack[q] = th[t].stack[q] /\ \A p \in 1 .. q - 1 : th'[t].stack[p] = th[t].stack[p]
        BY <4>1, <4>2
      <4> QED BY <2>3, <2>4, <4>1, <4>3, Zenon DEF Calling
    <3>2. CASE Resume(th[t], th'[t])
      <4>1. /\ Len(th'[t].stack) = q
            /\ th'[t].stack[q].l = l /\ th'[t].stack[q].defers = d
            /\ i = Len(Stages[k]) => th'[t].st = "unwind" /\ th'[t].stack[q].pc = i
            /\ i # Len(Stages[k]) => th'[t].st = "run" /\ th'[t].stack[q].pc = i + 1
        BY <1>3, <2>1, <2>3, <2>4, <3>2, Zenon DEF Resume, Calling
      <4>2. \A p \in 1 .. n - 2 : th'[t].stack[p] = th[t].stack[p]
        BY <1>3, <3>2 DEF Resume
      <4>3. q - 1 = n - 2
        BY <2>1
      <4> QED BY <4>1, <4>2, <4>3
    <3> QED BY <1>5, <3>1, <3>2
  <2>6. FrameSpan(t, q)'
    <3>1. CASE th'[t].st = "unwind" /\ th'[t].stack[q].pc = i
      BY <1>1, <2>4, <2>5, <3>1, FrameUnwinds DEF Calling
    <3>2. CASE i # Len(Stages[k]) /\ th'[t].st = "run" /\ th'[t].stack[q].pc = i + 1
      BY <1>1, <2>4, <2>5, <3>2, FrameRuns DEF Calling
    <3> QED BY <2>5, <3>1, <3>2
  <2>7. ASSUME NEW p \in 1 .. q - 1
        PROVE  FrameSpan(t, p)'
    <3>1. /\ p \in 1 .. Len(th[t].stack) /\ p < Len(th[t].stack) /\ p < Len(th'[t].stack)
          /\ th'[t].stack[p] = th[t].stack[p]
      <4>1. p \in 1 .. n /\ p < n /\ p < q
        BY <2>1, <2>7
      <4> QED BY <1>3, <2>5, <4>1
    <3> QED BY <3>1, FramesKept
  <2>8. \A p \in 1 .. Len(th'[t].stack) : p = q \/ p \in 1 .. q - 1
    BY <2>1, <2>5
  <2> QED BY <2>6, <2>7, <2>8
<1> QED BY <1>1, <1>4, <1>5

(* Every step of a goroutine keeps the invariant of the spans.               *)
LEMMA StepKeepsSpans ==
  ASSUME Types, Shape, Ahead, SpansOK, NEW t \in Goroutines, Step(t)
  PROVE  SpansOK'
<1>1. Turn(t) /\ config' = config /\ Alive(t)
  BY StepEffects, StepWork
<1>2. Layers' = Layers
  BY <1>1, LayersKept
<1>3. \A m \in 1 .. Len(Layers) : SpanOK(m)'
  BY StepLedger
<1>4. ASSUME NEW u \in Goroutines, u # t, NEW p \in 1 .. Len(th'[u].stack)
      PROVE  FrameSpan(u, p)'
  <2>1. th'[u] = th[u]
    BY <1>1, <1>4 DEF Turn
  <2> QED BY <1>4, <2>1, FramesKept
<1>a. SUFFICES \A p \in 1 .. Len(th'[t].stack) : FrameSpan(t, p)'
  <2>1. ASSUME \A p \in 1 .. Len(th'[t].stack) : FrameSpan(t, p)'
        PROVE  \A u \in Goroutines : \A p \in 1 .. Len(th'[u].stack) : FrameSpan(u, p)'
    BY <1>4, <2>1
  <2> QED BY <1>2, <1>3, <2>1 DEF SpansOK
<1>5. PICK n \in Nat : /\ n = Len(th[t].stack) /\ n > 0 /\ Top(t) = th[t].stack[n]
                       /\ n \in 1 .. Len(th[t].stack)
  BY <1>1, TopAt
<1>6. CASE /\ Len(th'[t].stack) = n
           /\ \A p \in 1 .. n - 1 : th'[t].stack[p] = th[t].stack[p]
           /\ FrameSpan(t, n)'
  <2>1. ASSUME NEW p \in 1 .. n - 1
        PROVE  FrameSpan(t, p)'
    <3>1. /\ p \in 1 .. Len(th[t].stack) /\ p < Len(th[t].stack) /\ p < Len(th'[t].stack)
          /\ th'[t].stack[p] = th[t].stack[p]
      BY <1>5, <1>6
    <3> QED BY <3>1, FramesKept
  <2>2. \A p \in 1 .. n : p = n \/ p \in 1 .. n - 1
    BY <1>5
  <2> QED BY <1>6, <2>1, <2>2
<1>7. CASE Call(t)
  <2>1. /\ Len(th'[t].stack) = n + 1
        /\ \A p \in 1 .. n : th'[t].stack[p] = th[t].stack[p]
        /\ FrameSpan(t, n)' /\ FrameSpan(t, n + 1)'
    BY <1>1, <1>5, <1>7, CallTracing
  <2>2. ASSUME NEW p \in 1 .. n - 1
        PROVE  FrameSpan(t, p)'
    <3>1. /\ p \in 1 .. Len(th[t].stack) /\ p < Len(th[t].stack) /\ p < Len(th'[t].stack)
          /\ th'[t].stack[p] = th[t].stack[p]
      BY <1>5, <2>1
    <3> QED BY <3>1, FramesKept
  <2>3. \A p \in 1 .. n + 1 : p = n + 1 \/ p = n \/ p \in 1 .. n - 1
    BY <1>5
  <2> QED BY <2>1, <2>2, <2>3
<1>8. CASE Return(t)
  BY <1>8, ReturnTracing
<1>9. CASE Defer(t) \/ Pass(t)
  <2>1. Advance(th[t], th'[t]) /\ FrameSpan(t, Len(th[t].stack))'
    BY <1>1, <1>9, DeferEffect, PassEffect, DeferTracing, PassTracing
  <2>2. Len(th'[t].stack) = n /\ \A p \in 1 .. n - 1 : th'[t].stack[p] = th[t].stack[p]
    BY <1>5, <2>1 DEF Advance
  <2>3. FrameSpan(t, n)'
    BY <2>1, <2>2
  <2> QED BY <1>6, <2>2, <2>3
<1>10. CASE Fail(t) \/ Panic(t)
  <2>1. FrameSpan(t, Len(th[t].stack))' /\ \E r : GiveUp(th[t], th'[t], r)
    BY <1>10, FailEffect, PanicEffect, FailTracing
  <2>2. th'[t].stack = th[t].stack
    BY <2>1 DEF GiveUp
  <2>3. FrameSpan(t, n)'
    BY <1>5, <2>1, <2>2
  <2> QED BY <1>5, <1>6, <2>2, <2>3
<1>11. CASE RunDeferred(t)
  <2>1. PopDefer(th[t], th'[t]) /\ FrameSpan(t, Len(th[t].stack))'
    BY <1>1, <1>11, RunDeferredEffect, RunDeferredTracing
  <2>2. Len(th'[t].stack) = n /\ \A p \in 1 .. n - 1 : th'[t].stack[p] = th[t].stack[p]
    BY <1>5, <2>1 DEF PopDefer
  <2>3. FrameSpan(t, n)'
    BY <2>1, <2>2
  <2> QED BY <1>6, <2>2, <2>3
<1> QED BY <1>7, <1>8, <1>9, <1>10, <1>11 DEF Step

(* A layer that traces nothing has no finish to run, wherever it is.         *)
LEMMA TracingNothing ==
  ASSUME NEW k, NEW tr, k # "trace", ~tr, NEW st, NEW fin, NEW pc, NEW d, NEW ret,
         Tracing(k, tr, st, fin, pc, d, ret), NEW s2, NEW f2, NEW pc2, NEW ret2
  PROVE  Tracing(k, tr, s2, f2, pc2, d, ret2)
BY DEF Tracing

(* Without a change of the spans every ledger is kept.                       *)
LEMMA SameLedger ==
  ASSUME Types, SpansOK, config' = config, w'.span = w.span, w'.finalized = w.finalized,
         w'.out = w.out
  PROVE  \A m \in 1 .. Len(Layers) : SpanOK(m)'
<1>1. \A m : Borrowed(m)' <=> Borrowed(m)
  BY ClientLayer, BorrowedKept
<1>2. SUFFICES ASSUME NEW m \in 1 .. Len(Layers) PROVE SpanOK(m)'
  OBVIOUS
<1>3. PICK b \in BOOLEAN : b = Borrowed(m) /\ b = Borrowed(m)'
  BY <1>1, BorrowedType
<1>4. Ledger(Layers[m], HasTracer(m), w.span[m].st, w.span[m].sent, w.finalized[m], w.out[m], b)
  BY <1>3 DEF SpansOK, SpanOK
<1> QED BY <1>3, <1>4, LedgerIs

(* Without a change of the spans a frame keeps what it knows.                *)
LEMMA SameFrame ==
  ASSUME config' = config, w'.span = w.span, w'.finalized = w.finalized, NEW u, NEW p,
         FrameSpan(u, p), th'[u].stack[p] = th[u].stack[p],
         \/ th'[u] = th[u]
         \/ p # Len(th[u].stack) /\ p # Len(th'[u].stack) /\ Alive(u)
  PROVE  FrameSpan(u, p)'
<1>1. CASE th'[u] = th[u] /\ ~Alive(u)
  BY <1>1 DEF FrameSpan, Alive
<1>2. CASE Alive(u)
  <2>1. PICK ret \in BOOLEAN : ret = (th[u].st = "unwind" /\ p = Len(th[u].stack))
    OBVIOUS
  <2>2. PICK l : l = th[u].stack[p].l
    OBVIOUS
  <2>3. ret <=> (th'[u].st = "unwind" /\ p = Len(th'[u].stack))
    BY <2>1
  <2>4. Tracing(Layers[l], HasTracer(l), w.span[l].st, w.finalized[l], th[u].stack[p].pc,
                th[u].stack[p].defers, ret)
    BY <1>2, <2>1, <2>2 DEF FrameSpan
  <2> QED BY <2>1, <2>2, <2>3, <2>4, FrameIs
<1> QED BY <1>1, <1>2

(* Hystrix keeps the invariant of the spans, and starts its goroutine in it. *)
LEMMA HystrixSpans ==
  ASSUME Types, Shape, Ahead, SpansOK, HystrixGo \/ HystrixReturns \/ HystrixTimeout,
         config' = config
  PROVE  SpansOK'
<1>1. PICK n \in Nat :
        /\ n = Len(th["serve"].stack) /\ Len(th'["serve"].stack) = n /\ n > 0
        /\ th["serve"].st = "run"
        /\ Layers[th["serve"].stack[n].l] = "hystrix"
        /\ \A p \in 1 .. n - 1 : th'["serve"].stack[p] = th["serve"].stack[p]
        /\ th'["serve"].stack[n].l = th["serve"].stack[n].l
        /\ th'["serve"].stack[n].defers = th["serve"].stack[n].defers
        /\ w'.out = w.out /\ w'.span = w.span /\ SameAnswer(w, w')
  BY HystrixKeeps
<1>2. Layers' = Layers /\ w'.finalized = w.finalized /\ Alive("serve")
  BY <1>1, LayersKept DEF SameAnswer, Alive
<1>3. \A m \in 1 .. Len(Layers) : SpanOK(m)'
  BY <1>1, <1>2, SameLedger
<1>4. ASSUME NEW p \in 1 .. n
      PROVE  FrameSpan("serve", p)'
  <2>1. FrameSpan("serve", p)
    BY <1>1 DEF SpansOK, Goroutines
  <2>2. CASE p = n
    <3>1. PICK l, k, tr, ret : /\ l = th["serve"].stack[n].l /\ k = Layers[l] /\ tr = HasTracer(l)
                               /\ ret = (th["serve"].st = "unwind" /\ n = Len(th["serve"].stack))
      OBVIOUS
    <3>2. k = "hystrix" /\ k # "trace" /\ ~tr
      BY <1>1, <3>1 DEF HasTracer, Tracers
    <3>3. Tracing(k, tr, w.span[l].st, w.finalized[l], th["serve"].stack[n].pc,
                  th["serve"].stack[n].defers, ret)
      BY <1>2, <2>1, <2>2, <3>1 DEF FrameSpan
    <3>4. PICK ret2 \in BOOLEAN : ret2 = (th'["serve"].st = "unwind" /\ n = Len(th'["serve"].stack))
      OBVIOUS
    <3>5. Tracing(k, tr, w'.span[l].st, w'.finalized[l], th'["serve"].stack[n].pc,
                  th["serve"].stack[n].defers, ret2)
      BY <3>2, <3>3, TracingNothing
    <3>6. l = th'["serve"].stack[n].l /\ th'["serve"].stack[n].defers = th["serve"].stack[n].defers
      BY <1>1, <3>1
    <3>7. FrameSpan("serve", n)'
      BY <3>1, <3>4, <3>5, <3>6, FrameIs
    <3> QED BY <2>2, <3>7
  <2>3. CASE p # n
    <3>1. th'["serve"].stack[p] = th["serve"].stack[p]
      BY <1>1, <2>3
    <3> QED BY <1>1, <1>2, <2>1, <2>3, <3>1, SameFrame
  <2> QED BY <2>2, <2>3
<1>5. ASSUME NEW p \in 1 .. Len(th'["run"].stack)
      PROVE  FrameSpan("run", p)'
  <2>1. CASE HystrixGo
    <3>1. /\ w' = w /\ th'["run"].st = "run" /\ Len(th'["run"].stack) = 1
          /\ th'["run"].stack[1].l = Top("serve").l + 1 /\ th'["run"].stack[1].pc = 1
          /\ th'["run"].stack[1].defers = <<>>
      BY <2>1, GoEffect
    <3>2. p = 1
      BY <1>5, <3>1
    <3>3. /\ Top("serve").pc = 1 /\ Layers[Top("serve").l] = "hystrix" /\ CallAt["hystrix"] = 1
          /\ Top("serve").l \in Nat /\ Top("serve").l < Len(Layers)
      <4>1. th["serve"].st = "run" /\ Stage("serve") = "spawn"
        BY <2>1, GoEffect
      <4>2. Top("serve").l \in Nat
        BY <4>1, TopFacts DEF Goroutines, Alive, Frames
      <4> QED BY <4>1, <4>2, AtHystrix
    <3>4. Before("serve")
      BY <1>1, <3>3 DEF Before
    <3>5. PICK m \in 1 .. Len(Layers) : m = Top("serve").l + 1 /\ m > Top("serve").l
      <4>1. Top("serve").l + 1 \in 1 .. Len(Layers) /\ Top("serve").l + 1 > Top("serve").l
        BY <3>3, LayerKinds DEF Types
      <4> QED BY <4>1
    <3>6. w.span[m].st = "none" /\ w.finalized[m] = 0
      BY <3>4, <3>5 DEF Ahead, Fresh, Goroutines
    <3>7. PICK k \in Kinds, tr \in BOOLEAN :
            k = Layers[m] /\ tr = HasTracer(m) /\ (tr => k \in DOMAIN Tracers)
      BY TracerType
    <3>8. Tracing(k, tr, "none", 0, 1, <<>>, FALSE)
      BY <3>7, TracingStarts
    <3>9. PICK ret \in BOOLEAN : ret = FALSE
      OBVIOUS
    <3>10. m = th'["run"].stack[1].l /\ w'.span[m].st = "none" /\ w'.finalized[m] = 0
      BY <3>1, <3>5, <3>6
    <3>11. ret <=> (th'["run"].st = "unwind" /\ 1 = Len(th'["run"].stack))
      BY <3>1, <3>9
    <3>12. Tracing(Layers[m], HasTracer(m), w'.span[m].st, w'.finalized[m],
                   th'["run"].stack[1].pc, th'["run"].stack[1].defers, ret)
      BY <3>1, <3>7, <3>8, <3>9, <3>10
    <3>13. FrameSpan("run", 1)'
      BY <3>10, <3>11, <3>12, FrameIs, Zenon
    <3> QED BY <3>2, <3>13
  <2>2. CASE HystrixReturns \/ HystrixTimeout
    <3>1. th'["run"] = th["run"]
      BY <2>2, WaitEffect DEF Turn, Goroutines
    <3>2. FrameSpan("run", p)
      BY <1>5, <3>1 DEF SpansOK, Goroutines
    <3> QED BY <1>1, <1>2, <3>1, <3>2, SameFrame
  <2> QED BY <2>1, <2>2
<1>6. \A u \in Goroutines : \A p \in 1 .. Len(th'[u].stack) : FrameSpan(u, p)'
  BY <1>1, <1>4, <1>5 DEF Goroutines
<1> QED BY <1>2, <1>3, <1>6 DEF SpansOK

(* A step that changes neither frames nor spans keeps the invariant.         *)
LEMMA SameSpansOK ==
  ASSUME Types, SpansOK, config' = config, th' = th, w'.span = w.span,
         w'.finalized = w.finalized, w'.out = w.out
  PROVE  SpansOK'
<1>1. Layers' = Layers
  BY LayersKept
<1>2. \A m \in 1 .. Len(Layers) : SpanOK(m)'
  BY SameLedger
<1>3. \A u \in Goroutines : \A p \in 1 .. Len(th'[u].stack) : FrameSpan(u, p)'
  BY SameFrame DEF SpansOK
<1> QED BY <1>1, <1>2, <1>3 DEF SpansOK

(* The invariant of the spans holds at the start.                            *)
LEMMA InitSpans ==
  ASSUME Init
  PROVE  SpansOK
<1>1. Types /\ Shape
  BY InitShape
<1>2. PICK n \in Nat : n = Len(Layers) /\ DOMAIN Layers = 1 .. n /\ n >= 2
  BY <1>1, LayerKinds, Zenon DEF Types
<1>3. \A m \in 1 .. n : /\ w.out[m] = "none" /\ w.finalized[m] = 0
                        /\ w.span[m].st = "none" /\ w.span[m].sent = 0
  BY <1>2 DEF Init
<1>4. ASSUME NEW m \in 1 .. n
      PROVE  SpanOK(m)
  BY <1>3 DEF SpanOK, Ledger
<1>5. /\ th["serve"].stack = <<Frame(1)>> /\ th["run"].stack = <<>> /\ th["serve"].st = "run"
      /\ Frame(1).l = 1 /\ Frame(1).pc = 1 /\ Frame(1).defers = <<>>
  BY DEF Init, Started, Idle, Goroutines, Frame
<1>6. FrameSpan("serve", 1)
  <2>1. 1 \in 1 .. n
    BY <1>2
  <2>2. PICK k \in Kinds, tr \in BOOLEAN :
          k = Layers[1] /\ tr = HasTracer(1) /\ (tr => k \in DOMAIN Tracers)
    BY <1>1, <1>2, <2>1, TracerType
  <2>3. Tracing(k, tr, "none", 0, 1, <<>>, FALSE)
    BY <2>2, TracingStarts
  <2>4. (th["serve"].st = "unwind" /\ 1 = Len(th["serve"].stack)) = FALSE
    BY <1>5
  <2>5. th["serve"].stack[1] = Frame(1) /\ w.span[1].st = "none" /\ w.finalized[1] = 0
    BY <1>3, <1>5, <2>1
  <2> QED BY <1>5, <2>2, <2>3, <2>4, <2>5 DEF FrameSpan
<1>7. Len(th["serve"].stack) = 1 /\ Len(th["run"].stack) = 0
  BY <1>5
<1>8. \A p \in 1 .. Len(th["serve"].stack) : FrameSpan("serve", p)
  BY <1>6, <1>7
<1>9. \A p \in 1 .. Len(th["run"].stack) : FrameSpan("run", p)
  BY <1>7
<1> QED BY <1>2, <1>4, <1>8, <1>9 DEF SpansOK, Goroutines

(* Every step keeps the invariant of the spans.                              *)
LEMMA NextSpans ==
  ASSUME Types, Shape, Ahead, SpansOK, [Next]_vars
  PROVE  SpansOK'
<1>1. ASSUME NEW t \in Goroutines, Step(t)
      PROVE  SpansOK'
  BY <1>1, StepKeepsSpans
<1>2. CASE HystrixStep
  BY <1>2, HystrixSpans DEF HystrixStep
<1>3. CASE HystrixTimeout /\ UNCHANGED config
  BY <1>3, HystrixSpans
<1>4. CASE Closes
  <2>1. /\ config' = config /\ th' = th /\ w'.span = w.span /\ w'.finalized = w.finalized
        /\ w'.out = w.out
    BY <1>4, ClosesFacts DEF Closes, SameWork, SameCalls, SameAnswer
  <2> QED BY <2>1, SameSpansOK
<1>5. CASE UNCHANGED vars
  BY <1>5, SameSpansOK DEF vars
<1> QED BY <1>1, <1>2, <1>3, <1>4, <1>5 DEF Next

(* The ledgers say that every span goes out as SpansSentOnce has it.         *)
LEMMA SpansAreSentOnce ==
  ASSUME Types, SpansOK
  PROVE  SpansSentOnce
<1>1. DOMAIN Layers = 1 .. Len(Layers)
  BY LayerKinds DEF Types
<1>2. SUFFICES ASSUME NEW l \in 1 .. Len(Layers)
               PROVE  /\ w.span[l].sent <= (IF Borrowed(l) THEN 2 ELSE 1)
                      /\ w.span[l].st # "none" /\ w.out[l] # "none" =>
                           w.span[l].st = "finished" /\ w.span[l].sent >= 1
  BY <1>1 DEF SpansSentOnce
<1>3. PICK b \in BOOLEAN : b = Borrowed(l)
  BY BorrowedType
<1>4. PICK s \in Nat, f \in Nat : s = w.span[l].sent /\ f = w.finalized[l]
  BY LayerKinds DEF Types, Works
<1>5. PICK tr \in BOOLEAN : tr = HasTracer(l)
  BY TracerType
<1>6. Ledger(Layers[l], tr, w.span[l].st, s, f, w.out[l], b)
  BY <1>3, <1>4, <1>5 DEF SpansOK, SpanOK
<1>7. /\ s <= (IF b THEN 2 ELSE 1)
      /\ w.span[l].st # "none" /\ w.out[l] # "none" => w.span[l].st = "finished" /\ s >= 1
  <2>1. CASE w.span[l].st = "none"
    BY <1>6, <2>1 DEF Ledger
  <2>2. CASE w.span[l].st # "none" /\ Layers[l] = "trace"
    <3>1. /\ s = One(w.span[l].st = "finished") + One(b)
          /\ w.out[l] # "none" => w.span[l].st = "finished"
      BY <1>6, <2>2 DEF Ledger
    <3> QED BY <3>1 DEF One
  <2>3. CASE w.span[l].st # "none" /\ tr
    <3>1. /\ s = f + One(b) /\ f <= 1 /\ (w.out[l] # "none" => f = 1)
          /\ f > 0 => w.span[l].st = "finished"
      BY <1>6, <2>3 DEF Ledger
    <3> QED BY <3>1 DEF One
  <2> QED BY <1>6, <2>1, <2>2, <2>3 DEF Ledger
<1> QED BY <1>3, <1>4, <1>7

(* A span that a layer started is finished and sent when the layer has       *)
(* returned, and sent once: by the Finish of TraceEndpoint                   *)
(* (src/tracing/zipkin/endpoint.go) or by the finalizer of the server or     *)
(* client that has the tracer (src/tracing/zipkin/http.go, grpc.go). A       *)
(* client that gives up before its span is started flushes the span it finds *)
(* in its context, which then goes out a second time and no more.            *)
THEOREM SpansGoOutOnce == Spec => []SpansSentOnce
<1>1. Init => (Types /\ Shape /\ Ahead) /\ SpansOK
  BY InitShape, InitSpans
<1>2. (Types /\ Shape /\ Ahead) /\ SpansOK /\ [Next]_vars =>
        (Types /\ Shape /\ Ahead)' /\ SpansOK'
  BY NextShape, NextSpans
<1>3. Types /\ SpansOK => SpansSentOnce
  BY SpansAreSentOnce
<1> QED BY <1>1, <1>2, <1>3, PTL DEF Spec
=============================================================================
