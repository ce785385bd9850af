--------------------------- MODULE MC_Transports ---------------------------
EXTENDS Transports

(* Each middleware once, and a breaker with another middleware on each side. *)
MCChains ==
  {<<>>, <<"trace", "handybreaker">>, <<"erroring", "gobreaker", "delaying">>,
   <<"hystrix">>, <<"parser", "handybreaker", "signer">>, <<"trace", "hystrix", "basic">>}

=============================================================================
