\* Sizes as in the code; the magic as a size is shortened.
CONSTANTS
  OFFSET_SIZE = 4
  HEARTBEAT_SIZE = 6
  HEARTBEAT_AS_SIZE = 100
  MaxMessages = 3
  Streams <- AllStreams
SPECIFICATION ConnectionSpec
INVARIANTS ConnectionInv EventsInOrder NothingWithheld PanicsOneShort DatagramsDrained
PROPERTIES NextAdvances
CHECK_DEADLOCK FALSE
