SPECIFICATION Spec
CONSTANTS
  Kinds = {"zk"}
  MaxChanges = 3
  MaxFaults = 2
  Failed = Failed
  Partial = Partial
  NoEvent = NoEvent
  Flying = Flying
  Idle = Idle
  Ticked = Ticked
CHECK_DEADLOCK FALSE
PROPERTIES
  Recovers
