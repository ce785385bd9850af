----------------------------- MODULE ZkInstancer -----------------------------
(* sd/zk: one-time watches. GetEntries lists the children of the path with a *)
(* call that also sets the next watch, then gets the data of each child; the *)
(* loop calls it whenever the watch of the last call has fired.              *)
EXTENDS DiscoveryBackend

VARIABLE eventc    \* the watch the loop listens to: "nil", "armed" or "fired"

ZkTypeOK == eventc \in {"nil", "armed", "fired"}

ZkInit == eventc = "nil"

ZkSeesChange == eventc' = IF eventc = "armed" THEN "fired" ELSE eventc

(* ChildrenW of GetEntries, called by NewInstancer (after CreateParentNodes, *)
(* which fails as it does) and by the loop. An error brings no channel:      *)
(* NewInstancer gives up, the loop pushes the error and listens to nil.      *)
ZkList ==
  /\ got' = reg
  /\ \/ mode # "down" /\ Go("zk", "new", "get") /\ eventc' = "armed"
     \/ mode # "down" /\ Go("zk", "read", "push") /\ eventc' = "armed"
     \/ mode = "down" /\ Go("zk", "new", "failed") /\ eventc' = "nil"
     \/ mode = "down" /\ Push("zk", "read", "select", Failed) /\ eventc' = "nil"

(* The Gets of GetEntries, and the push. A Get that fails is skipped, so an  *)
(* outage that begins after the list leaves instances out.                   *)
ZkPush ==
  /\ \E from \in {"get", "push"} :
       Push("zk", from, "select", IF mode = "down" THEN Partial ELSE got)
  /\ UNCHANGED <<got, eventc>>

(* A lost session closes the watches that are set.                           *)
ZkSessionLost ==
  /\ kind = "zk" /\ mode = "down" /\ eventc = "armed"
  /\ eventc' = "fired"
  /\ UNCHANGED sharedVars

ZkEvent ==
  /\ eventc = "fired"
  /\ Go("zk", "select", "read")
  /\ UNCHANGED <<got, eventc>>

ZkQuit ==
  /\ stop = "returned"
  /\ Go("zk", "select", "ended")
  /\ UNCHANGED <<got, eventc>>

(* Register creates the parents and another ephemeral node. (Deregister asks *)
(* ZooKeeper to delete the parent, which the node's existence forbids: it    *)
(* changes nothing.)                                                         *)
ZkRegister == kind = "zk" /\ OwnChange(TRUE) /\ ZkSeesChange

ZkStep == ZkList \/ ZkPush \/ ZkEvent

ZkBlind == eventc = "nil" \/ cache = Partial
=============================================================================
