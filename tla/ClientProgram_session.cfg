\* One PC from its connection to its end.
CONSTANTS
  Me = me
  None = None
  Faults = {"drop", "vanish", "call", "cut"}
  Sec = 2
  HeartbeatFreq = 4
  Margin = 2
  Greet = 1
  Slack = 1
  Delay = 2
  MaxStamp = 2
SPECIFICATION FairClientSpec
INVARIANTS KeptAlive NewestShown ClientInv
PROPERTIES ImplementsSlot DroppedEnds
CHECK_DEADLOCK FALSE
