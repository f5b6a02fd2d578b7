\* The interface goes down under a client.
CONSTANTS
  Clients = {c1}
  None = None
  ButtonStates <- NoButtons
  NetStart = {"CONNECTED"}
  Faults = {}
  PollingIntervals = {}
  Backlog = 1
  MaxFlight = 2
  MaxNetChanges = 1
  MaxHeartbeat = 0
  MinPolling = 6000
  MaxBuffer = 8
SPECIFICATION FairSpec
PROPERTIES DisconnectShown
CHECK_DEADLOCK FALSE
