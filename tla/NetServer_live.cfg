\* A PC that vanishes, a PC that waits, the answer to a handshake; the timeout drops a
\* client just before its state is read for the push; the thread may be asked to stop,
\* or meet a PC that closes without a word.
CONSTANTS
  Clients = {c1, c2}
  None = None
  ButtonStates <- NoButtons
  NetStart = {"CONNECTED"}
  Faults = {"vanish", "close", "silent", "stop"}
  PollingIntervals = {}
  Backlog = 1
  MaxFlight = 2
  MaxNetChanges = 0
  MaxHeartbeat = 1
  MinPolling = 6000
  MaxBuffer = 8
SPECIFICATION FairServerSpec
INVARIANTS PushConfirmed
PROPERTIES VanishedIsDropped BacklogServed HandshakeAnswered PadDataFlows
CHECK_DEADLOCK FALSE
