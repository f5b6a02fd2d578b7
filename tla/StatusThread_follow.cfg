\* The readings of the hardware against what is stored.
CONSTANTS
  Clients = {}
  None = None
  ButtonStates = {{}}
  NetStart = {"CONNECTED"}
  Levels = {0, 1, 2}
  MaxReadings = 3
SPECIFICATION FairStatusSpec
INVARIANTS StatusInv
PROPERTIES StatusFollows
