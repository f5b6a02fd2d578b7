\* A PC that closes its connection before it has said anything.
CONSTANTS
  Clients = {c1}
  None = None
  ButtonStates <- NoButtons
  NetStart = {"CONNECTED"}
  Faults = {"close", "silent"}
  PollingIntervals = {}
  Backlog = 1
  MaxFlight = 2
  MaxNetChanges = 0
  MaxHeartbeat = 0
  MinPolling = 6000
  MaxBuffer = 8
SPECIFICATION ServerSpec
PROPERTIES LoopEndsAsSaid
CHECK_DEADLOCK FALSE
