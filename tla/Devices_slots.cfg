\* A finger is lifted while another stays.
CONSTANTS
  Configs = {"front_touchpad"}
  PadButtons = {"lt", "up", "down"}
  TouchIds = {1, 2}
  Places <- BorderAndCorner
  MaxSlots <- FewSlots
  MaxTouches = 2
  None = None
  ClickTime = 1
SPECIFICATION DevicesSpec
PROPERTIES EndedAreReset
CHECK_DEADLOCK FALSE
