SPECIFICATION Spec
CONSTANTS
  Kinds = {"consul", "etcd", "etcdv3", "zk", "dnssrv", "eureka"}
  MaxChanges = 3
  MaxFaults = 2
  Failed = Failed
  Partial = Partial
  NoEvent = NoEvent
  Flying = Flying
  Idle = Idle
  Ticked = Ticked
CHECK_DEADLOCK FALSE
INVARIANTS
  WatchCoversChanges
  LastIndexCovers
PROPERTIES
  CatchesUp
  StopEnds
  StopIsFinal
