CONSTANTS
  Servers = {"http", "jsonrpc", "grpc", "fasthttp", "main"}
  Chains <- MCChains
  Clients = {"httpClient", "jsonrpcClient", "grpcClient", "fasthttpClient"}
SPECIFICATION Spec
INVARIANTS
  AnsweredOnce
  SpansSentOnce
  BreakerTold
PROPERTY
  Released
CHECK_DEADLOCK FALSE
