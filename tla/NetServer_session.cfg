\* Sessions one after the other: PCs close and are reset, the interface goes down,
\* streams arrive in pieces, are cleared or overflow the buffer, and epoll fails.
CONSTANTS
  Clients = {c1, c2}
  None = None
  ButtonStates <- NoButtons
  NetStart = {"CONNECTED"}
  Faults = {"close", "reset", "fragment", "strict", "epoll"}
  PollingIntervals = {8000}
  Backlog = 1
  MaxFlight = 3
  MaxNetChanges = 1
  MaxHeartbeat = 0
  MinPolling = 6000
  MaxBuffer = 3
SPECIFICATION ServerSpec
SYMMETRY Symmetry
INVARIANTS ServerTypeOK OneSession AddressIsClients ConfirmArmed OwnHandshake
PROPERTIES DropJustified ImplementsSlot
CHECK_DEADLOCK FALSE
