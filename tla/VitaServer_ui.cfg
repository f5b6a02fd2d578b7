\* The main thread follows the network thread through sessions of two PCs.
CONSTANTS
  Clients = {c1, c2}
  None = None
  ButtonStates <- NoButtons
  NetStart = {"CONNECTED"}
  Faults = {"mute"}
  PollingIntervals = {}
  Backlog = 1
  MaxFlight = 2
  MaxNetChanges = 1
  MaxHeartbeat = 0
  MinPolling = 6000
  MaxBuffer = 8
SPECIFICATION Spec
SYMMETRY Symmetry
INVARIANTS NoLostConnect ScreenNamesClient IInv
PROPERTIES DropJustified
CHECK_DEADLOCK FALSE
