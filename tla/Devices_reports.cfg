\* Any report after any other, in every configuration, on both platforms.
CONSTANTS
  Configs = {"standart", "alt_triggers", "rear_touchpad", "front_touchpad"}
  PadButtons = {"lt", "up", "ps"}
  TouchIds = {1, 2}
  Places <- BorderCornerAndBelow
  MaxSlots <- FewSlots
  MaxTouches = 2
  None = None
  ClickTime = 1
SPECIFICATION DevicesSpec
INVARIANTS DevicesTypeOK ButtonsShown TouchesShown AsTabled ClicksAreTaps
CHECK_DEADLOCK FALSE
