\* Every order of button changes and frames.
CONSTANTS
  Clients = {}
  None = None
  ButtonStates <- AllButtons
  NetStart = {"DISCONNECTED", "CONNECTED"}
SPECIFICATION FairConsoleSpec
INVARIANTS StartModeUsable
PROPERTIES TogglesScreen ChordExits
CHECK_DEADLOCK FALSE
