----------------------------- MODULE Transports -----------------------------
(* One request through the transports and the middlewares: a server decodes  *)
(* it and calls its endpoint, which passes a chain of middlewares and ends   *)
(* in the endpoint of a client that calls the next service. Each layer is a  *)
(* table of the stages of its code, in order; a goroutine runs the stages    *)
(* with a stack of frames and the deferred calls of each frame. Servers,     *)
(* clients and middlewares keep no state between requests, so one request is *)
(* enough; Hystrix alone runs the rest of the chain in a second goroutine.   *)
(* Payloads, headers, claims and span names are left out.                    *)
EXTENDS Naturals, Sequences, SequencesExt

CONSTANTS Servers,     \* kinds of servers; "main" is a program that calls its
                       \* client without being a server
          Chains,      \* chains of middlewares, the outermost first
          Clients      \* kinds of clients

Middlewares ==
  {"handybreaker", "gobreaker", "hystrix", "erroring", "delaying", "trace", "signer",
   "parser", "basic"}

(* A chain has one Hystrix at most, so that one more goroutine is enough.    *)
ASSUME LayersAssumption ==
  /\ Servers \subseteq {"main", "http", "jsonrpc", "grpc", "fasthttp"}
  /\ Clients \subseteq {"httpClient", "jsonrpcClient", "grpcClient", "fasthttpClient"}
  /\ Chains \subseteq Seq(Middlewares)
  /\ \A c \in Chains : \A p, q \in DOMAIN c : c[p] = "hystrix" /\ c[q] = "hystrix" => p = q

VARIABLES config,      \* server, chain, client and their options
          th,          \* the goroutines "serve" and "run" (Hystrix)
          w            \* what the request has done so far

vars == <<config, th, w>>

-----------------------------------------------------------------------------

(* The stages of each layer. "call" calls the next layer. The stages in      *)
(* DeferStages defer what they are named for; those in Fallible may fail.    *)
HttpServer == <<"finalizer", "before", "dec", "call", "after", "respond">>
JsonrpcServer ==
  <<"post", "finalizer", "before", "parse", "method", "dec", "call", "after", "enc", "write">>
GrpcServer ==
  <<"finalizer", "before", "dec", "call", "after", "enc", "sendHeader", "setTrailer">>
FasthttpServer == <<"finalizer", "before", "dec", "call", "after", "respond">>

HttpClient ==
  <<"context", "finalizer", "type", "create", "before", "do", "closeAndCancel", "after", "dec">>
JsonrpcClient ==
  <<"context", "cancel", "finalizer", "type", "create", "before", "do", "close",
    "after", "parse", "dec">>
GrpcClient ==
  <<"context", "cancel", "finalizer", "type", "create", "before", "do", "after", "dec">>
FasthttpClient == <<"create", "stream", "do", "dec">>

(* Mutant: the report is deferred before the breaker has allowed the call.   *)
HandyBreakerDefersFirst == <<"report", "allow", "call">>
HandyBreaker == <<"allow", "report", "call">>
Gobreaker == <<"allow", "call", "convert">>
Hystrix == <<"spawn", "wait">>
ErroringLimiter == <<"allow", "call">>
DelayingLimiter == <<"delay", "call">>
TraceEndpoint == <<"start", "finish", "call">>
NewSigner == <<"sign", "call">>
NewParser == <<"verify", "call">>
AuthMiddleware == <<"auth", "call">>

Stages ==
  [main |-> <<"call">>,
   http |-> HttpServer, jsonrpc |-> JsonrpcServer, grpc |-> GrpcServer,
   fasthttp |-> FasthttpServer, httpClient |-> HttpClient,
   jsonrpcClient |-> JsonrpcClient, grpcClient |-> GrpcClient,
   fasthttpClient |-> FasthttpClient, handybreaker |-> HandyBreaker,
   gobreaker |-> Gobreaker, hystrix |-> Hystrix, erroring |-> ErroringLimiter,
   delaying |-> DelayingLimiter, trace |-> TraceEndpoint, signer |-> NewSigner,
   parser |-> NewParser, basic |-> AuthMiddleware]

DeferStages == {"finalizer", "cancel", "close", "closeAndCancel", "report", "finish"}
Fallible ==
  {"post", "parse", "method", "dec", "respond", "enc", "sendHeader", "setTrailer",
   "type", "create", "stream", "do", "allow", "convert", "spawn", "delay", "sign",
   "verify", "auth"}

(* endpoint.Chain: the first middleware is the outermost.                    *)
Layers == <<config.server>> \o config.chain \o <<config.client>>
Server == config.server

(* The tracing options of the HTTP and gRPC transports: what their before,   *)
(* after and finalizer functions do with the span of the context.            *)
HTTPServerTrace == [before |-> {"start"}, after |-> {"finish"}, finalizer |-> {"finish", "flush"}]
(* Mutant: the finalizer leaves the span to ClientAfter.                     *)
HTTPClientTraceNoFlush == [before |-> {"start"}, after |-> {"finish", "flush"}, finalizer |-> {}]
HTTPClientTrace == [before |-> {"start"}, after |-> {"finish"}, finalizer |-> {"finish", "flush"}]
GRPCServerTrace == [before |-> {"start"}, after |-> {"finish"}, finalizer |-> {"finish", "flush"}]
GRPCClientTrace == [before |-> {"start"}, after |-> {"finish"}, finalizer |-> {"finish", "flush"}]
Tracers ==
  [http |-> HTTPServerTrace, grpc |-> GRPCServerTrace,
   httpClient |-> HTTPClientTrace, grpcClient |-> GRPCClientTrace]
HasTracer(l) == config.traced /\ Layers[l] \in DOMAIN Tracers

-----------------------------------------------------------------------------

(* Spans (zipkin-go): Finish works once; Flush sends the span each time. The *)
(* span of TraceEndpoint is flushed by Finish. The span in the context of a  *)
(* layer is its own or, before it has one, that of the next layer outside.   *)
SpanIn(x, l) == Max({j \in 1 .. l : x.span[j].st # "none"} \cup {0})

Sent(x, j) == [x EXCEPT !.span[j].sent = @ + 1]
Finish(x, j) ==
  LET y == [x EXCEPT !.span[j].st = "finished"]
  IN  IF x.span[j].st # "open" THEN x
      ELSE IF Layers[j] = "trace" THEN Sent(y, j) ELSE y

TraceOp(x, l, op) ==
  CASE op = "start" -> [x EXCEPT !.span[l].st = "open"]
    [] op # "start" /\ SpanIn(x, l) = 0 -> x
    [] op = "finish" /\ SpanIn(x, l) > 0 -> Finish(x, SpanIn(x, l))
    [] op = "flush" /\ SpanIn(x, l) > 0 -> Sent(x, SpanIn(x, l))

Traced(x, l, point) ==
  LET If(y, op) == IF op \in Tracers[Layers[l]][point] THEN TraceOp(y, l, op) ELSE y
  IN  IF HasTracer(l) THEN If(If(If(x, "start"), "finish"), "flush") ELSE x

(* The answer of a server: net/http sends the first code, and the            *)
(* interceptingWriter of the finalizer keeps the last; fasthttp sends what   *)
(* is in the response when the handler returns.                              *)
WriteHeader(x, c) == [x EXCEPT !.sent = IF @ = 0 THEN c ELSE @, !.code = c]
Body(x, b) == [x EXCEPT !.ans = @ \cup {b}]

EncodeJSONResponse(x) == Body(WriteHeader(x, 200), "result")
FastEncodeJSONResponse(x) == [x EXCEPT !.sent = 200, !.code = 200, !.ans = {"result"}]

(* The error of the encoder is discarded: a result it cannot marshal leaves  *)
(* an empty answer, that net/http sends with code 200.                       *)
JsonrpcWrite(x) == {Body(WriteHeader(x, 200), "result"), WriteHeader(x, 200)}

DefaultErrorEncoder(x) == Body(WriteHeader(x, 500), "error")
FastDefaultErrorEncoder(x) == [x EXCEPT !.sent = 500, !.code = 500, !.ans = {"error"}]
JsonrpcDefaultErrorEncoder(x) == Body(WriteHeader(x, 200), "error")

Handle(x) == [x EXCEPT !.handled = @ + 1]

(* A failed stage of a server: the error handler, or the logger, is told,    *)
(* and the error encoded; ServeGRPC returns the error instead.               *)
(* Mutant: encoding the error is left to the caller.                         *)
HttpErrorUnanswered(x) == Handle(x)
HttpError(x) == DefaultErrorEncoder(Handle(x))
FasthttpError(x) == FastDefaultErrorEncoder(Handle(x))
JsonrpcError(x) == JsonrpcDefaultErrorEncoder(Handle(x))
GrpcError(x) == [Handle(x) EXCEPT !.code = 500]

ServerError(x) ==
  CASE Server = "http" -> HttpError(x)
    [] Server = "fasthttp" -> FasthttpError(x)
    [] Server = "jsonrpc" -> JsonrpcError(x)
    [] Server = "grpc" -> GrpcError(x)
    [] Server = "main" -> x

(* jsonrpc answers a request that is not a POST at once.                     *)
MustPost(x) == Body(WriteHeader(x, 405), "error")

(* What an encoder has written when it fails or panics: nothing, the header, *)
(* or the answer; fasthttp only changes its response.                        *)
PartlyEncoded(x) ==
  IF Server = "http" THEN {x, WriteHeader(x, 200), EncodeJSONResponse(x)}
  ELSE {x, FastEncodeJSONResponse(x)}

ServerFails(x, s) ==
  CASE s = "post" -> {MustPost(x)}
    [] s = "respond" -> {ServerError(y) : y \in PartlyEncoded(x)}
    [] OTHER -> {ServerError(x)}

(* What a failed stage does; the HTTP client has no deferred cancel before   *)
(* it has a response.                                                        *)
Cancel(x) == [x EXCEPT !.ctx = "cancelled"]
(* Mutant: no cancel when Do fails.                                          *)
HttpClientFailsDo(x, s) == IF s \in {"type", "create"} THEN Cancel(x) ELSE x
HttpClientFails(x, s) == IF s \in {"type", "create", "do"} THEN Cancel(x) ELSE x
Failures(x, l, s) ==
  CASE l = 1 -> ServerFails(x, s)
    [] Layers[l] = "httpClient" -> {HttpClientFails(x, s)}
    [] OTHER -> {x}

(* What a stage may do that does not fail.                                   *)
Tell(x, l, res) == [x EXCEPT !.told[l] = Append(@, IF res = "err" THEN "failure" ELSE "success")]
Passed(x, l, s) ==
  CASE s = "context" -> {[x EXCEPT !.ctx = "live"]}
    [] s \in {"before", "after"} -> {Traced(x, l, s)}
    [] s = "start" -> {TraceOp(x, l, s)}
    [] s = "do" /\ Layers[l] \in {"httpClient", "jsonrpcClient"} -> {[x EXCEPT !.body = "open"]}
    [] s = "respond" ->
         {IF Server = "http" THEN EncodeJSONResponse(x) ELSE FastEncodeJSONResponse(x)}
    [] s = "write" -> JsonrpcWrite(x)
    [] OTHER -> {x}

(* The stages that run code of the user, and what one of them may have done  *)
(* when that code panics: the functions of a before or an after stage panic  *)
(* ahead of the tracing function among them or behind it.                    *)
UserCode == {"before", "after", "create", "do", "dec", "method", "enc", "respond", "verify"}
Panics(x, l, s) ==
  CASE s \in {"before", "after"} -> {x, Traced(x, l, s)}
    [] s = "respond" -> PartlyEncoded(x)
    [] OTHER -> {x}

(* What a deferred call does, and the return of the next layer.              *)
Finalized(x, l) ==
  LET y == Traced(x, l, "finalizer")
  IN  [y EXCEPT !.finalized[l] = @ + 1, !.saw = IF l = 1 THEN x.code ELSE @]
Deferral(s) ==
  CASE s \in {"close", "closeAndCancel"} /\ config.buffered -> <<>>
    [] s = "closeAndCancel" /\ ~config.buffered -> <<"close", "cancel">>
    [] OTHER -> <<s>>
Deferred(x, l, d, res) ==
  CASE d = "finalizer" -> Finalized(x, l)
    [] d = "cancel" -> Cancel(x)
    [] d = "close" -> [x EXCEPT !.body = "closed"]
    [] d = "report" -> Tell(x, l, res)
    [] d = "finish" -> Finish(x, l)
Returned(x, l, res) ==
  LET y == [x EXCEPT !.out[l] = res] IN
  CASE l = 1 /\ Server = "grpc" /\ res # "panic" ->
         [y EXCEPT !.sent = x.code, !.ans = {IF res = "ok" THEN "result" ELSE "error"}]
    [] l > 1 /\ Layers[l - 1] = "gobreaker" -> Tell(y, l - 1, IF res = "ok" THEN "ok" ELSE "err")
    [] OTHER -> y

-----------------------------------------------------------------------------

Goroutines == {"serve", "run"}
Frame(l) == [l |-> l, pc |-> 1, defers |-> <<>>]
Idle == [st |-> "off", stack |-> <<>>, res |-> "ok"]
Started(l) == [st |-> "run", stack |-> <<Frame(l)>>, res |-> "ok"]

Init ==
  /\ config \in [server : Servers, chain : Chains, client : Clients,
                 traced : BOOLEAN, buffered : BOOLEAN]
  /\ th = [t \in Goroutines |-> IF t = "serve" THEN Started(1) ELSE Idle]
  /\ w = [ctx |-> "none", body |-> "none", sent |-> 0, code |-> 200, ans |-> {},
          handled |-> 0, finalized |-> [l \in DOMAIN Layers |-> 0], saw |-> 0, late |-> FALSE,
          told |-> [l \in DOMAIN Layers |-> <<>>], out |-> [l \in DOMAIN Layers |-> "none"],
          span |-> [l \in DOMAIN Layers |-> [st |-> "none", sent |-> 0]]]

Top(t) == th[t].stack[Len(th[t].stack)]
Running(t) == th[t].st = "run"
Stage(t) == Stages[Layers[Top(t).l]][Top(t).pc]

SetTop(g, f) == [g EXCEPT !.stack[Len(g.stack)] = f]
Moved(g) ==
  LET f == g.stack[Len(g.stack)]
  IN  IF f.pc = Len(Stages[Layers[f.l]])
      THEN [g EXCEPT !.st = "unwind", !.res = "ok"]
      ELSE [SetTop(g, [f EXCEPT !.pc = @ + 1]) EXCEPT !.st = "run", !.res = "ok"]
Unwinding(g, res) == [g EXCEPT !.st = "unwind", !.res = res]

Defer(t) ==
  /\ Running(t) /\ Stage(t) \in DeferStages
  /\ th' = [th EXCEPT ![t] = Moved(SetTop(@, [Top(t) EXCEPT !.defers = @ \o Deferral(Stage(t))]))]
  /\ UNCHANGED w

Pass(t) ==
  /\ Running(t) /\ Stage(t) \notin DeferStages \cup {"call", "spawn", "wait"}
  /\ w' \in Passed(w, Top(t).l, Stage(t))
  /\ th' = [th EXCEPT ![t] = Moved(@)]

(* Only a response that is nil fails the conversion of Gobreaker, and only   *)
(* with BufferedStream can the type of the request fail the fasthttp client. *)
Fail(t) ==
  /\ Running(t) /\ Stage(t) \in Fallible
  /\ Stage(t) = "convert" => ~config.buffered
  /\ Stage(t) = "stream" => config.buffered
  /\ w' \in Failures(w, Top(t).l, Stage(t))
  /\ th' = [th EXCEPT ![t] = Unwinding(@, "err")]

(* Code of the user panics; in the goroutine of Hystrix that ends the        *)
(* program. Error handlers, error encoders and finalizers do not panic.      *)
Panic(t) ==
  /\ t = "serve" /\ Running(t) /\ Stage(t) \in UserCode
  /\ w' \in Panics(w, Top(t).l, Stage(t))
  /\ th' = [th EXCEPT ![t] = Unwinding(@, "panic")]

Call(t) ==
  /\ Running(t) /\ Stage(t) = "call"
  /\ th' = [th EXCEPT ![t].stack = Append(@, Frame(Top(t).l + 1))]
  /\ UNCHANGED w

RunDeferred(t) ==
  /\ th[t].st = "unwind" /\ Top(t).defers # <<>>
  /\ w' = Deferred(w, Top(t).l, Top(t).defers[Len(Top(t).defers)], th[t].res)
  /\ th' = [th EXCEPT ![t] = SetTop(@, [Top(t) EXCEPT !.defers = Front(@)])]

(* A frame returns. Its caller goes on, fails with the error, or unwinds     *)
(* too.                                                                      *)
Return(t) ==
  /\ th[t].st = "unwind" /\ Top(t).defers = <<>>
  /\ LET l == Top(t).l
         x == Returned(w, l, th[t].res)
         g == [th[t] EXCEPT !.stack = Front(@)]
     IN  IF g.stack = <<>>
         THEN th' = [th EXCEPT ![t].st = "done"] /\ w' = x
         ELSE CASE th[t].res = "ok" -> th' = [th EXCEPT ![t] = Moved(g)] /\ w' = x
                [] th[t].res = "err" -> th' = [th EXCEPT ![t] = g] /\ w' \in Failures(x, l - 1, "call")
                [] th[t].res = "panic" -> th' = [th EXCEPT ![t] = g] /\ w' = x

(* hystrix.Do: the rest of the chain in a goroutine, unless the circuit is   *)
(* open; its result, or a timeout, which leaves the goroutine running.       *)
HystrixGo ==
  /\ Running("serve") /\ Stage("serve") = "spawn"
  /\ th' = [th EXCEPT !["serve"] = Moved(@), !["run"] = Started(Top("serve").l + 1)]
  /\ UNCHANGED w

HystrixReturns ==
  /\ Running("serve") /\ Stage("serve") = "wait" /\ th["run"].st = "done"
  /\ th' = [th EXCEPT !["serve"] = IF th["run"].res = "ok" THEN Moved(@) ELSE Unwinding(@, "err")]
  /\ UNCHANGED w

HystrixTimeout ==
  /\ Running("serve") /\ Stage("serve") = "wait" /\ th["run"].st # "done"
  /\ th' = [th EXCEPT !["serve"] = Unwinding(@, "err")]
  /\ w' = [w EXCEPT !.late = TRUE]

(* The caller that got a response with an open body closes it                *)
(* (bodyWithCancel.Close); only the HTTP client hands the body out.          *)
CallerCloses ==
  /\ config.client = "httpClient" /\ config.buffered /\ w.body = "open" /\ ~w.late
  /\ w.out[Len(Layers)] = "ok"
  /\ w' = [w EXCEPT !.body = "closed", !.ctx = "cancelled"]
  /\ UNCHANGED th

Step(t) ==
  /\ \/ Defer(t) \/ Pass(t) \/ Fail(t) \/ Panic(t) \/ Call(t) \/ RunDeferred(t) \/ Return(t)
  /\ UNCHANGED config
HystrixStep == (HystrixGo \/ HystrixReturns) /\ UNCHANGED config
Closes == CallerCloses /\ UNCHANGED config

Next ==
  \/ \E t \in Goroutines : Step(t)
  \/ HystrixStep
  \/ HystrixTimeout /\ UNCHANGED config
  \/ Closes

(* Goroutines run, remote calls return, and a caller closes what it is given.*)
Spec ==
  /\ Init /\ [][Next]_vars
  /\ WF_vars(Step("serve")) /\ WF_vars(Step("run")) /\ WF_vars(HystrixStep) /\ WF_vars(Closes)

-----------------------------------------------------------------------------

(* Every request a server has finished got one answer, the right one. A      *)
(* result is sent when every stage passed, and nothing was handled as an     *)
(* error; after a failed stage the error handler was told once and the error *)
(* sent, on its own; a panic is answered by nobody. The finalizers ran once, *)
(* with the code that was sent (src/transport/http/server.go:96-107,         *)
(* intercepting_writer.go:14-19). The exceptions:                            *)
(*   Refused      jsonrpc answers what is not a POST with 405 before it has  *)
(*                deferred its finalizer, and tells no logger                *)
(*                (jsonrpc/server.go:93-98), although it calls the finalizer *)
(*                "executed at the end of every HTTP request" (line 85)      *)
(*   Unwritten    a result of jsonrpc that cannot be marshalled is lost and  *)
(*                the answer is empty (jsonrpc/server.go:171)                *)
(*   HalfWritten  the HTTP encoder failed when it had sent its header: the   *)
(*                error follows, after the result perhaps, with a code that  *)
(*                only the finalizers see (server.go:132-136)                *)
(*   CutShort     the encoder panicked when it had written (server.go:132).  *)
Responding(ss) == Server \in ss /\ w.out[2] = "ok"
Refused == Server = "jsonrpc" /\ w.sent = 405
Unwritten == Responding({"jsonrpc"}) /\ w.ans = {}
HalfWritten == Responding({"http"}) /\ w.out[1] = "err" /\ w.sent = 200
CutShort == Responding({"http", "fasthttp"}) /\ w.ans = {"result"}
AnsweredOnce ==
  Server # "main" /\ w.out[1] # "none" =>
    /\ w.out[1] = "ok" => (w.ans = {"result"} \/ Unwritten) /\ w.handled = 0
    /\ w.out[1] = "err" => "error" \in w.ans /\ (w.ans = {"error"} \/ HalfWritten)
    /\ w.out[1] = "err" => w.handled = (IF Refused THEN 0 ELSE 1)
    /\ w.out[1] = "panic" => (w.ans = {} \/ CutShort) /\ w.handled = 0
    /\ ~Refused => w.finalized[1] = 1
    /\ ~Refused /\ w.sent # 0 => w.saw = w.sent \/ HalfWritten

(* A span that was started has been finished and sent to the reporter once   *)
(* its layer has returned, on every path, panics included, and no span is    *)
(* sent twice. The exception is the span around a traced client that fails   *)
(* before its own span is started: the finalizer of the client (src/tracing/ *)
(* zipkin/http.go:96-110, grpc.go:86-100) then finds the span of its caller  *)
(* in the context, and finishes and sends that.                              *)
Client == Len(Layers)
Borrowed(l) ==
  /\ HasTracer(Client) /\ w.span[Client].st = "none" /\ w.finalized[Client] > 0
  /\ l = SpanIn(w, Client)
SpansSentOnce ==
  \A l \in DOMAIN Layers :
    /\ w.span[l].sent <= (IF Borrowed(l) THEN 2 ELSE 1)
    /\ w.span[l].st # "none" /\ w.out[l] # "none" =>
         w.span[l].st = "finished" /\ w.span[l].sent >= 1

(* "Only errors returned by the wrapped endpoint count against the circuit   *)
(* breaker's error count" (src/circuitbreaker/handy_breaker.go:12-14,        *)
(* gobreaker.go:11-13): a breaker has been told the outcome of the wrapped   *)
(* endpoint once, whatever became of the response, and nothing of a call it  *)
(* refused. A panic is a success to HandyBreaker and a failure to Gobreaker. *)
Verdict(l) ==
  CASE w.out[l + 1] = "none" -> <<>>
    [] w.out[l + 1] = "ok" -> <<"success">>
    [] w.out[l + 1] = "err" -> <<"failure">>
    [] w.out[l + 1] = "panic" -> <<IF Layers[l] = "gobreaker" THEN "failure" ELSE "success">>
BreakerTold ==
  \A l \in DOMAIN Layers :
    Layers[l] \in {"handybreaker", "gobreaker"} /\ w.out[l] # "none" => w.told[l] = Verdict(l)

(* The body of a response is closed in the end, and the context that the     *)
(* client made is cancelled (src/transport/http/client.go:93-142), but:      *)
(*   BodyLeft   with BufferedStream nobody has the body to close it when the *)
(*              client did not return it, which jsonrpc never does           *)
(*              (jsonrpc/client.go:196-222), or Hystrix gave up on the call  *)
(*   NoCancel   the HTTP client defers no cancel before it has a response:   *)
(*              when a function that makes the request panics, or Do         *)
(*              (client.go:118-128), its context stays live; and with        *)
(*              BufferedStream the cancel waits for the body's Close.        *)
Returns == w.out[Client] = "ok" /\ config.client = "httpClient"
BodyLeft == config.buffered /\ w.body = "open" /\ w.out[Client] # "none" /\ (w.late \/ ~Returns)
NoCancel ==
  config.client = "httpClient" /\ (BodyLeft \/ (w.body = "none" /\ w.out[Client] = "panic"))
Released ==
  /\ (w.body = "open") ~> (w.body = "closed" \/ BodyLeft)
  /\ (w.ctx = "live") ~> (w.ctx = "cancelled" \/ NoCancel)

=============================================================================
