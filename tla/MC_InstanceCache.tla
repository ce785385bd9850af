--------------------------- MODULE MC_InstanceCache ---------------------------
(* A small instance of InstanceCache for TLC: the event "ba" is the list of    *)
(* "ab" in another order.                                                      *)
EXTENDS InstanceCache, TLC

MCEvents == {"zero", "ab", "ba", "err"}
MCSortOf == [e \in MCEvents |-> IF e = "ba" THEN "ab" ELSE e]
=============================================================================
