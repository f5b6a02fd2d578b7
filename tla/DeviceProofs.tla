------------------------------ MODULE DeviceProofs -----------------------------
(***************************************************************************)
(* Proofs about the devices of both platforms, for every sequence of       *)
(* reports and every number of touches and slots.                          *)
(***************************************************************************)
EXTENDS Devices, TLAPS

USE DEF progVars, kernelVars, deviceVars, windowsVars, devicesVars

-------------------------------------------------------------------------------
(* The tables.                                                              *)

\* Two buttons have two keys, so that a release does not undo a press.
LEMMA KeysDiffer ==
  ASSUME NEW b \in Button, NEW c \in Button, map_button_to_ds4[b] = map_button_to_ds4[c]
  PROVE  b = c
BY DEF Button, map_button_to_ds4

LEMMA ConfigButtons ==
  ASSUME NEW name \in ConfigName
  PROVE  /\ \A z \in Config[name].front \cup Config[name].rear : z.button \in Button
         /\ Config[name].trigger \in {"Trigger", "Shoulder"}
<1> USE DEF Zone, Halves, Quarters, Button
<1>1. \A z \in Standart.front \cup Standart.rear : z.button \in Button
  BY DEF Standart
<1>2. \A z \in AltTriggers.front \cup AltTriggers.rear : z.button \in Button
  BY DEF AltTriggers
<1>3. \A z \in RearTouchpad.front \cup RearTouchpad.rear : z.button \in Button
  BY DEF RearTouchpad
<1>4. \A z \in FrontTouchpad.front \cup FrontTouchpad.rear : z.button \in Button
  BY DEF FrontTouchpad
<1>5. Standart.trigger = "Trigger" /\ AltTriggers.trigger = "Shoulder"
      /\ RearTouchpad.trigger = "Trigger" /\ FrontTouchpad.trigger = "Trigger"
  BY DEF Standart, AltTriggers, RearTouchpad, FrontTouchpad
<1>6. Config[name] \in {Standart, AltTriggers, RearTouchpad, FrontTouchpad}
  BY DEF ConfigName, Config
<1> QED
  BY <1>1, <1>2, <1>3, <1>4, <1>5, <1>6

LEMMA ButtonOfType ==
  ASSUME NEW trigger, NEW b \in DOMAIN ButtonOf(trigger)
  PROVE  ButtonOf(trigger)[b] \in Button
BY DEF ButtonOf, Button

\* Whatever a report and the zones of its touches press is a button.
LEMMA PressedType ==
  ASSUME NEW name \in ConfigName, NEW report,
         NEW front \in ZoneChoices(Config[name].front, report.touches.front),
         NEW rear \in ZoneChoices(Config[name].rear, report.touches.rear)
  PROVE  Pressed(name, report, front, rear) \subseteq Button
<1>1. get_pressed_buttons(report.buttons, Config[name].trigger) \subseteq Button
  BY ButtonOfType DEF get_pressed_buttons
<1>2. \A t \in DOMAIN front : front[t] \in Config[name].front
  BY DEF ZoneChoices
<1>3. \A t \in DOMAIN rear : rear[t] \in Config[name].rear
  BY DEF ZoneChoices
<1>4. /\ {front[t].button : t \in DOMAIN front} \subseteq Button
      /\ {rear[t].button : t \in DOMAIN rear} \subseteq Button
  BY <1>2, <1>3, ConfigButtons
<1> QED
  BY <1>1, <1>4 DEF Pressed

LEMMA AskType ==
  ASSUME NEW ask \in AllAsks
  PROVE  /\ ask.pressed \subseteq Button
         /\ ask.hat = <<ask.hat[1], ask.hat[2]>>
<1>1. PICK name \in Configs, report \in Report : ask \in Asks(name, report)
  BY DEF AllAsks
<1>2. PICK front \in ZoneChoices(Config[name].front, report.touches.front),
           rear \in ZoneChoices(Config[name].rear, report.touches.rear) :
        /\ ask.pressed = Pressed(name, report, front, rear)
        /\ ask.hat = compute_dpad(report.buttons)
  BY <1>1 DEF Asks
<1>3. ask.pressed \subseteq Button
  BY <1>2, PressedType, DeviceAssumption
<1> QED
  BY <1>2, <1>3 DEF compute_dpad

-------------------------------------------------------------------------------
(* The touchpad: each loop leaves the slots it has passed as the report     *)
(* wants them, and the second undoes nothing of the first.                  *)

LEMMA SourceType ==
  ASSUME NEW name \in ConfigName
  PROVE  Config[name].source \in Panel \cup {None}
<1>1. /\ Standart.source = None /\ AltTriggers.source = None
      /\ RearTouchpad.source = "rear" /\ FrontTouchpad.source = "front"
  BY DEF Standart, AltTriggers, RearTouchpad, FrontTouchpad
<1>2. Config[name] \in {Standart, AltTriggers, RearTouchpad, FrontTouchpad}
  BY DEF ConfigName, Config
<1> QED
  BY <1>1, <1>2 DEF Panel

LEMMA SlotsType ==
  ASSUME config \in Configs, Source # None
  PROVE  Source \in Panel /\ MaxSlots[Source] \in Nat \ {0} /\ Slots = 1 .. MaxSlots[Source]
<1>1. Source \in Panel
  BY SourceType, DeviceAssumption DEF Source
<1> QED
  BY <1>1, DeviceAssumption DEF Slots

\* The touches of a report are a sequence.
LEMMA TouchesType ==
  ASSUME NEW n, NEW s \in Touches(n)
  PROVE  s \in Seq(Touch)
<1>1. PICK k \in 0 .. n : s \in [1 .. k -> Touch]
  BY DEF Touches
<1> QED
  BY <1>1

LEMMA AskTouches ==
  ASSUME NEW ask \in AllAsks
  PROVE  /\ ask.config \in Configs
         /\ ask.hat \in Axes
         /\ ask.touches \in Seq(Touch)
<1>1. PICK name \in Configs, report \in Report : ask \in Asks(name, report)
  BY DEF AllAsks
<1> DEFINE source == Config[name].source
<1>2. /\ ask.config = name /\ ask.hat = compute_dpad(report.buttons)
      /\ ask.touches = IF source = None THEN << >> ELSE report.touches[source]
  BY <1>1 DEF Asks
<1>3. ask.hat \in Axes
  BY <1>2 DEF compute_dpad, Axes
<1>4. ask.touches \in Seq(Touch)
  <2>1. CASE source = None
    BY <1>2, <2>1
  <2>2. CASE source # None
    <3>1. source \in Panel
      BY <2>2, SourceType, DeviceAssumption
    <3>2. PICK m \in 0 .. MaxTouches :
            report.touches \in [front : Touches(m), rear : Touches(MaxTouches - m)]
      BY DEF Report, FrontTouches
    <3>3. report.touches.front \in Seq(Touch) /\ report.touches.rear \in Seq(Touch)
      BY <3>2, TouchesType
    <3>4. source = "front" \/ source = "rear"
      BY <3>1 DEF Panel
    <3>5. report.touches[source] \in Seq(Touch)
      BY <3>3, <3>4
    <3> QED
      BY <1>2, <2>2, <3>5
  <2> QED
    BY <2>1, <2>2
<1> QED
  BY <1>2, <1>3, <1>4

-------------------------------------------------------------------------------
(* The differences that are written add up to the buttons of the report.    *)

LEMMA KeysFollow ==
  ASSUME NEW old \in SUBSET Button, NEW new \in SUBSET Button
  PROVE  (Keys(old) \cup Keys(new \ old)) \ Keys(old \ new) = Keys(new)
BY KeysDiffer DEF Keys

LEMMA HatFollows ==
  ASSUME previous_hat = hat, NEW x, NEW y, WriteHat(<<x, y>>)
  PROVE  hat' = <<x, y>> /\ previous_hat' = <<x, y>>
BY DEF WriteHat

LEMMA ButtonsInit == DeviceInit => ButtonsInv
BY DEF DeviceInit, ButtonsInv, Keys

LEMMA ButtonsReport ==
  ASSUME ButtonsInv, NEW ask \in AllAsks, SendReport(ask)
  PROVE  ButtonsInv'
<1> DEFINE pressed == ask.pressed
           direction == ask.hat
<1>1. pressed \subseteq Button
  BY AskType
<1>2. keys' = Keys(pressed) /\ previous_buttons' = pressed
  <2>1. keys' = (keys \cup Keys(pressed \ previous_buttons)) \ Keys(previous_buttons \ pressed)
        /\ previous_buttons' = pressed
    BY DEF SendReport, WriteButtons
  <2> HIDE DEF pressed
  <2> QED
    BY <2>1, <1>1, KeysFollow DEF ButtonsInv
<1>3. hat' = direction /\ previous_hat' = direction
  <2>1. previous_hat = hat
    BY DEF ButtonsInv
  <2>2. direction = <<direction[1], direction[2]>>
    BY AskType
  <2>3. WriteHat(<<direction[1], direction[2]>>)
    BY <2>2 DEF SendReport
  <2> QED
    BY <2>1, <2>2, <2>3, HatFollows
<1>4. asked'.pressed = pressed /\ asked'.hat = direction /\ config' = config
  BY DEF SendReport
<1> HIDE DEF pressed, direction
<1> QED
  BY <1>1, <1>2, <1>3, <1>4 DEF ButtonsInv, Keys

LEMMA ButtonsStep == ButtonsInv /\ [DevicesNext]_devicesVars => ButtonsInv'
<1>1. ASSUME ButtonsInv, WriteTouches \/ WriteFails \/ UNCHANGED deviceVars
      PROVE  ButtonsInv'
  BY <1>1 DEF touchpadKept, WriteTouches, EndSlots, EndedSlots, UpdateSlot, UpdateKey, WriteFails,
     ButtonsInv, Keys
<1> QED
  BY <1>1, ButtonsReport DEF DevicesNext, BothReport

LEMMA ButtonsAlways == DevicesSpec => []ButtonsInv
<1>1. DevicesInit => ButtonsInv
  BY ButtonsInit DEF DevicesInit
<1> QED
  BY <1>1, ButtonsStep, PTL DEF DevicesSpec

\* After every report the keys and the hat are exactly what it asks for, in
\* every configuration and whatever reports were lost before it.
THEOREM ButtonsAreShown == DevicesSpec => []ButtonsShown
<1>1. ButtonsInv => ButtonsShown
  BY DEF ButtonsInv, ButtonsShown
<1> QED
  BY <1>1, ButtonsAlways, PTL

-------------------------------------------------------------------------------
(* The touchpad: each loop leaves the slots it has passed as the report     *)
(* wants them, and the second undoes nothing of the first.                  *)

PadType == [slot : Slots \cup {1}, ids : [Slots -> TouchIds \cup {None}], touched : BOOLEAN]

\* The two events of a slot reach that slot and no other.
LEMMA SlotWritten ==
  ASSUME pad \in PadType, previous_touches = pad.ids,
         NEW s \in Slots, NEW id \in TouchIds \cup {None}, WriteSlot(s, id)
  PROVE  /\ pad' \in PadType
         /\ pad'.ids = [pad.ids EXCEPT ![s] = id] /\ previous_touches' = pad'.ids
         /\ pad'.touched = pad.touched
<1>1. Apply(pad, Event("slot", s)) = [pad EXCEPT !.slot = s]
  BY DEF Apply, Event
<1>2. Apply([pad EXCEPT !.slot = s], Event("id", id)) = [[pad EXCEPT !.slot = s] EXCEPT !.ids[s] = id]
  BY DEF Apply, Event, PadType
<1>3. pad' = [[pad EXCEPT !.slot = s] EXCEPT !.ids[s] = id]
  BY <1>1, <1>2 DEF WriteSlot
<1>4. pad' \in PadType /\ pad'.ids = [pad.ids EXCEPT ![s] = id] /\ pad'.touched = pad.touched
  BY <1>3 DEF PadType
<1> QED
  BY <1>4 DEF WriteSlot

LEMMA KeyWritten ==
  ASSUME pad \in PadType, NEW down \in BOOLEAN
  PROVE  /\ Apply(pad, Event("touch", down)) \in PadType
         /\ Apply(pad, Event("touch", down)).ids = pad.ids
         /\ Apply(pad, Event("touch", down)).touched = down
<1>1. Apply(pad, Event("touch", down)) = [pad EXCEPT !.touched = down]
  BY DEF Apply, Event
<1> QED
  BY <1>1 DEF PadType

\* What the invariant needs to know of the types.
PadInv == DeviceTypeOK /\ TouchesInv

LEMMA ShownType ==
  ASSUME DeviceTypeOK, Source # None
  PROVE  /\ Shown \in Nat /\ Shown =< Len(touches) /\ Shown =< MaxSlots[Source]
         /\ MaxSlots[Source] \in Nat /\ Slots = 1 .. MaxSlots[Source]
         /\ \A s \in Slots : s > Shown <=> s > Len(touches)
         /\ \A s \in 1 .. Shown : s \in Slots /\ touches[s] \in Touch
<1>1. MaxSlots[Source] \in Nat /\ Slots = 1 .. MaxSlots[Source]
  BY SlotsType DEF DeviceTypeOK
<1>2. Len(touches) \in Nat /\ \A s \in 1 .. Len(touches) : touches[s] \in Touch
  BY DEF DeviceTypeOK
<1> QED
  BY <1>1, <1>2 DEF Shown

LEMMA PadInit == DeviceInit => PadInv
<1> SUFFICES ASSUME DeviceInit PROVE DeviceTypeOK /\ TouchesInv
  BY DEF PadInv
<1>1. DeviceTypeOK
  <2>1. [s \in Slots |-> None] \in [Slots -> TouchIds \cup {None}]
    OBVIOUS
  <2>2. pad \in PadType /\ previous_touches \in [Slots -> TouchIds \cup {None}]
    BY <2>1 DEF DeviceInit, PadType
  <2>3. touches \in Seq(Touch) /\ slot \in Nat \ {0}
    BY DEF DeviceInit
  <2>4. previous_hat \in Axes /\ hat \in Axes
    BY DEF DeviceInit, Axes
  <2>5. /\ config \in Configs /\ dpc = "idle" /\ previous_buttons \subseteq Button
        /\ touch_state \in BOOLEAN /\ keys \subseteq Keys(Button)
    BY DEF DeviceInit
  <2> QED
    BY <2>2, <2>3, <2>4, <2>5 DEF DeviceTypeOK, PadType, Axes
<1>2. CASE Source = None
  BY <1>1, <1>2 DEF DeviceInit, TouchesInv
<1>3. CASE Source # None
  <2>1. Shown = 0
    BY <1>1, <1>3, SlotsType DEF DeviceInit, DeviceTypeOK, Shown
  <2>2. AnyActive = FALSE
    BY <2>1 DEF AnyActive
  <2>3. \A s \in Slots : s \in Nat \ {0}
    BY <1>1, <1>3, SlotsType DEF DeviceTypeOK
  <2> QED
    <3>1. \A s \in Slots : pad.ids[s] = None /\ ~(s =< Shown)
      BY <2>1, <2>3 DEF DeviceInit
    <3>2. /\ previous_touches = pad.ids /\ touch_state = pad.touched /\ pad.touched = FALSE
          /\ dpc = "idle"
      BY DEF DeviceInit
    <3> QED
      BY <1>1, <1>3, <2>2, <3>1, <3>2 DEF TouchesInv
<1> QED
  BY <1>1, <1>2, <1>3

LEMMA PadReport ==
  ASSUME PadInv, NEW ask \in AllAsks, SendReport(ask)
  PROVE  PadInv'
<1>1. ask.touches \in Seq(Touch) /\ ask.pressed \subseteq Button /\ ask.hat \in Axes
  BY AskType, AskTouches
<1>2. UNCHANGED <<config, previous_touches, touch_state, pad>>
  BY DEF SendReport
<1>3. UNCHANGED <<Source, Slots>>
  BY <1>2 DEF Source, Slots
<1>4. DeviceTypeOK'
  <2>1. previous_buttons' \subseteq Button /\ keys' \subseteq Keys(Button)
    BY <1>1 DEF SendReport, WriteButtons, PadInv, DeviceTypeOK, Keys
  <2>2. previous_hat' \in Axes /\ hat' \in Axes
    BY <1>1 DEF SendReport, WriteHat, PadInv, DeviceTypeOK, Axes
  <2>3. touches' \in Seq(Touch) /\ slot' \in Nat \ {0} /\ dpc' \in {"idle", "ended"}
    BY <1>1 DEF SendReport, PadInv, DeviceTypeOK
  <2>4. Keys(Button)' = Keys(Button)
    BY DEF Keys
  <2> QED
    BY <1>2, <1>3, <2>1, <2>2, <2>3, <2>4 DEF PadInv, DeviceTypeOK, Axes
<1>5. TouchesInv'
  <2>1. CASE Source = None
    BY <1>3, <2>1 DEF SendReport, PadInv, TouchesInv
  <2>2. CASE Source # None
    <3>1. dpc' = "ended" /\ slot' = 1 /\ dpc = "idle"
      BY <2>2 DEF SendReport
    <3>2. \A s \in Slots : s \in Nat /\ ~(s < 1)
      BY <2>2, SlotsType DEF PadInv, DeviceTypeOK
    <3> QED
      BY <1>2, <1>3, <2>2, <3>1, <3>2 DEF PadInv, TouchesInv, Passed
  <2> QED
    BY <2>1, <2>2
<1> QED
  BY <1>4, <1>5 DEF PadInv

\* The write to the touchpad never happens without one.
LEMMA WritingHasSource ==
  ASSUME PadInv, dpc \in {"ended", "current"} PROVE Source # None
BY DEF PadInv, TouchesInv

LEMMA PadWrite ==
  ASSUME PadInv, WriteTouches
  PROVE  PadInv'
<1>1. Source # None /\ dpc # "failed" /\ dpc # "idle"
  BY WritingHasSource DEF WriteTouches, EndSlots, EndedSlots, UpdateSlot, UpdateKey
<1>2. UNCHANGED touchpadKept
  BY DEF WriteTouches, EndSlots, EndedSlots, UpdateSlot, UpdateKey
<1>3. UNCHANGED <<Source, Slots, Shown, AnyActive>>
  BY <1>2 DEF touchpadKept, Source, Slots, Shown, AnyActive
<1>4. pad \in PadType /\ slot \in Nat \ {0} /\ touch_state = pad.touched
      /\ previous_touches = pad.ids /\ previous_touches \in [Slots -> TouchIds \cup {None}]
  BY <1>1 DEF PadInv, DeviceTypeOK, TouchesInv, PadType
<1>5. /\ Shown \in Nat /\ Shown =< Len(touches) /\ Shown =< MaxSlots[Source]
      /\ MaxSlots[Source] \in Nat /\ Slots = 1 .. MaxSlots[Source]
      /\ \A s \in Slots : s > Shown <=> s > Len(touches)
      /\ \A s \in 1 .. Shown : s \in Slots /\ touches[s] \in Touch
  BY <1>1, ShownType DEF PadInv
<1>6. ASSUME pad' \in PadType, slot' \in Nat \ {0}, touch_state' \in BOOLEAN,
             dpc' \in {"idle", "ended", "current"}, previous_touches' = pad'.ids
      PROVE  DeviceTypeOK'
  <2>1. previous_touches' \in [Slots -> TouchIds \cup {None}]
    BY <1>6 DEF PadType
  <2>2. Keys(Button)' = Keys(Button)
    BY DEF Keys
  <2> QED
    BY <1>2, <1>3, <1>6, <2>1, <2>2 DEF PadInv, DeviceTypeOK, touchpadKept, PadType
<1>7. CASE EndSlots
  <2>1. slot \in Slots /\ slot' = slot + 1 /\ dpc = "ended" /\ dpc' = dpc
        /\ touch_state' = touch_state
    BY <1>4, <1>5, <1>7 DEF EndSlots
  <2>2. CASE slot > Len(touches) /\ previous_touches[slot] # None
    <3>1. WriteSlot(slot, None)
      BY <1>7, <2>2 DEF EndSlots
    <3>2. /\ pad' \in PadType /\ pad'.ids = [pad.ids EXCEPT ![slot] = None]
          /\ previous_touches' = pad'.ids /\ pad'.touched = pad.touched
      BY <1>4, <2>1, <3>1, SlotWritten
    <3>3. pad'.ids[slot] = None /\ \A s \in Slots \ {slot} : pad'.ids[s] = pad.ids[s]
      BY <1>4, <2>1, <3>2
    <3>4. DeviceTypeOK'
      BY <1>4, <1>6, <2>1, <3>2 DEF PadType
    <3>5. TouchesInv'
      BY <1>1, <1>3, <1>4, <1>5, <2>1, <3>2, <3>3 DEF PadInv, TouchesInv, Passed
    <3> QED
      BY <3>4, <3>5 DEF PadInv
  <2>3. CASE ~(slot > Len(touches) /\ previous_touches[slot] # None)
    <3>1. UNCHANGED <<pad, previous_touches>>
      BY <1>7, <2>3 DEF EndSlots
    <3>2. slot > Shown => pad.ids[slot] = None
      BY <1>4, <1>5, <2>1, <2>3
    <3>3. DeviceTypeOK'
      BY <1>4, <1>6, <2>1, <3>1 DEF PadType
    <3>4. TouchesInv'
      BY <1>1, <1>3, <1>4, <1>5, <2>1, <3>1, <3>2 DEF PadInv, TouchesInv, Passed
    <3> QED
      BY <3>3, <3>4 DEF PadInv
  <2> QED
    BY <2>2, <2>3
<1>8. CASE EndedSlots
  <2>1. /\ dpc = "ended" /\ slot > MaxSlots[Source] /\ dpc' = "current" /\ slot' = 1
        /\ UNCHANGED <<previous_touches, touch_state, pad>>
    BY <1>8 DEF EndedSlots
  <2>2. DeviceTypeOK'
    BY <1>4, <1>6, <2>1 DEF PadType
  <2>3. TouchesInv'
    BY <1>1, <1>3, <1>4, <1>5, <2>1 DEF PadInv, TouchesInv, Passed
  <2> QED
    BY <2>2, <2>3 DEF PadInv
<1>9. CASE UpdateSlot
  <2>1. /\ dpc = "current" /\ dpc' = dpc /\ slot \in 1 .. Shown /\ slot' = slot + 1
        /\ touch_state' = touch_state
    BY <1>4, <1>5, <1>9 DEF UpdateSlot
  <2>2. slot \in Slots /\ touches[slot].id \in TouchIds \cup {None}
    BY <1>5, <2>1 DEF Touch
  <2>3. WriteSlot(slot, touches[slot].id)
    BY <1>9 DEF UpdateSlot
  <2>4. /\ pad' \in PadType /\ pad'.ids = [pad.ids EXCEPT ![slot] = touches[slot].id]
        /\ previous_touches' = pad'.ids /\ pad'.touched = pad.touched
    BY <1>4, <2>2, <2>3, SlotWritten
  <2>5. /\ pad'.ids[slot] = touches[slot].id
        /\ \A s \in Slots \ {slot} : pad'.ids[s] = pad.ids[s]
    BY <1>4, <2>2, <2>4
  <2>6. DeviceTypeOK'
    BY <1>4, <1>6, <2>1, <2>4 DEF PadType
  <2>7. touches' = touches
    BY <1>2 DEF touchpadKept
  <2>8. TouchesInv'
    BY <1>1, <1>3, <1>4, <1>5, <2>1, <2>4, <2>5, <2>7 DEF PadInv, TouchesInv, Passed
  <2> QED
    BY <2>6, <2>8 DEF PadInv
<1>10. CASE UpdateKey
  <2>1. /\ dpc = "current" /\ slot > Shown /\ dpc' = "idle" /\ touch_state' = AnyActive
        /\ UNCHANGED <<slot, previous_touches>>
    BY <1>10 DEF UpdateKey
  <2>2. AnyActive \in BOOLEAN
    BY DEF AnyActive
  <2>3. pad' \in PadType /\ pad'.ids = pad.ids /\ pad'.touched = AnyActive
    <3>1. CASE AnyActive # touch_state
      BY <1>4, <1>10, <2>2, <3>1, KeyWritten DEF UpdateKey
    <3>2. CASE AnyActive = touch_state
      BY <1>4, <1>10, <3>2 DEF UpdateKey
    <3> QED
      BY <3>1, <3>2
  <2>4. DeviceTypeOK'
    BY <1>4, <1>6, <2>1, <2>2, <2>3
  <2>5. touches' = touches
    BY <1>2 DEF touchpadKept
  <2>6. TouchesInv'
    BY <1>1, <1>3, <1>4, <1>5, <2>1, <2>3, <2>5 DEF PadInv, TouchesInv, Passed
  <2> QED
    BY <2>4, <2>6 DEF PadInv
<1> QED
  BY <1>7, <1>8, <1>9, <1>10 DEF WriteTouches

LEMMA PadStep == PadInv /\ [DevicesNext]_devicesVars => PadInv'
<1> SUFFICES ASSUME PadInv, [DevicesNext]_devicesVars PROVE PadInv'
  OBVIOUS
<1>1. ASSUME WriteFails PROVE PadInv'
  BY <1>1 DEF WriteFails, PadInv, DeviceTypeOK, TouchesInv, Source, Slots, Keys
<1>2. ASSUME UNCHANGED deviceVars PROVE PadInv'
  BY <1>2 DEF PadInv, DeviceTypeOK, TouchesInv, Passed, Source, Slots, Shown, AnyActive, Keys
<1> QED
  BY <1>1, <1>2, PadReport, PadWrite DEF DevicesNext, BothReport

LEMMA PadAlways == DevicesSpec => []PadInv
<1>1. DevicesInit => PadInv
  BY PadInit DEF DevicesInit
<1> QED
  BY <1>1, PadStep, PTL DEF DevicesSpec

\* After every report each slot of the touchpad has the touch of the report that is
\* its, or none, and the key is down while one of these presses: however many slots
\* and touches there are, and whatever touches came before.
THEOREM TouchesAreShown == DevicesSpec => []TouchesShown
<1>1. PadInv => TouchesShown
  <2> SUFFICES ASSUME PadInv, dpc = "idle", Source # None
               PROVE  /\ \A s \in Slots : pad.ids[s] = IF s =< Shown THEN touches[s].id ELSE None
                      /\ pad.touched = AnyActive
    BY DEF TouchesShown
  <2>1. \A s \in Slots : s =< Shown \/ s > Shown
    BY ShownType DEF PadInv
  <2> QED
    BY <2>1 DEF PadInv, TouchesInv, Passed
<1> QED
  BY <1>1, PadAlways, PTL

-------------------------------------------------------------------------------
(* The device on Windows.                                                   *)

\* The time the device keeps is that for which the reports have shown a touch.
THEOREM ClicksForTaps == DevicesSpec => []ClicksAreTaps
<1> USE DEF WindowsInv, ClicksAreTaps
<1>1. DevicesInit => WindowsInv
  <2> SUFFICES ASSUME WindowsInit PROVE WindowsInv
    BY DEF DevicesInit
  <2>1. ds4.click = FALSE /\ tapped = FALSE
    BY DEF WindowsInit
  <2>2. touch_start_time = None /\ held = None /\ ds4_touch_state = FALSE
    BY DEF WindowsInit
  <2> QED
    BY <2>1, <2>2 DEF Ages
<1>2. WindowsInv /\ [DevicesNext]_devicesVars => WindowsInv'
  <2> SUFFICES ASSUME WindowsInv, [DevicesNext]_devicesVars PROVE WindowsInv'
    OBVIOUS
  <2>1. ASSUME NEW ask \in AllAsks, send_report(ask) PROVE WindowsInv'
    <3>1. ds4'.click = tapped'
      BY <2>1 DEF send_report, Report4, Short
    <3>2. touch_start_time' = held' /\ ds4_touch_state' = (held' # None)
      <4>1. 0 # None
        BY ClickAssumption
      <4> QED
        BY <2>1, <4>1 DEF send_report, StartTime
    <3>3. held' \in Ages
      BY <2>1, ClickAssumption DEF send_report, Ages
    <3> QED
      BY <3>1, <3>2, <3>3
  <2>2. ASSUME TimePasses PROVE WindowsInv'
    <3>1. Older(held) \in Ages /\ (Older(held) # None <=> held # None)
      BY ClickAssumption DEF Older, Ages
    <3>2. ds4'.click = tapped' /\ touch_start_time' = held' /\ held' = Older(held)
          /\ ds4_touch_state' = ds4_touch_state
      BY <2>2 DEF TimePasses
    <3> QED
      BY <3>1, <3>2
  <2>3. ASSUME UNCHANGED windowsVars PROVE WindowsInv'
    BY <2>3 DEF Ages
  <2> QED
    BY <2>1, <2>2, <2>3 DEF DevicesNext, BothReport
<1> QED
  BY <1>1, <1>2, PTL DEF DevicesSpec

\* The direction and the buttons are bits of the word.
LEMMA WordType ==
  ASSUME NEW ask, ask.pressed \subseteq Button
  PROVE  Word4(ask) \subseteq 0 .. 15
<1>1. \A b \in Button : ds4_bit[b] \in 0 .. 15
  BY DEF Button, ds4_bit
<1>2. dpad_to_ds4(ask.hat) \subseteq 0 .. 15
  BY DEF dpad_to_ds4
<1> QED
  BY <1>1, <1>2 DEF Word4

LEMMA PointsType ==
  ASSUME NEW s \in Seq(Touch)
  PROVE  [i \in DOMAIN s \cap {1, 2} |-> s[i].place] \in UNION {[1 .. n -> Places] : n \in 0 .. 2}
<1> DEFINE n == IF Len(s) < 2 THEN Len(s) ELSE 2
<1>1. DOMAIN s = 1 .. Len(s) /\ Len(s) \in Nat
  OBVIOUS
<1>2. n \in 0 .. 2 /\ DOMAIN s \cap {1, 2} = 1 .. n
  BY <1>1
<1>3. \A i \in 1 .. n : s[i].place \in Places
  <2>1. ASSUME NEW i \in 1 .. n PROVE s[i] \in Touch
    BY <1>1
  <2>2. \A t \in Touch : t.place \in Places
    BY DEF Touch
  <2> QED
    BY <2>1, <2>2
<1>4. [i \in DOMAIN s \cap {1, 2} |-> s[i].place] \in [1 .. n -> Places]
  BY <1>2, <1>3
<1> QED
  BY <1>2, <1>4

LEMMA WindowsReportType ==
  ASSUME WindowsTypeOK, NEW ask \in AllAsks, send_report(ask)
  PROVE  WindowsTypeOK'
<1> DEFINE is_touching == ask.touches # << >>
           click == ~is_touching /\ ds4_touch_state /\ Short(touch_start_time)
           points == [i \in DOMAIN ask.touches \cap {1, 2} |-> ask.touches[i].place]
           triggers == Triggers4(ask)
           ps == "PSButton" \in ask.pressed
           word == Word4(ask)
<1>1. points \in UNION {[1 .. n -> Places] : n \in 0 .. 2}
  BY AskTouches, PointsType
<1>2. word \subseteq 0 .. 15
  BY AskType, WordType
<1>3. click \in BOOLEAN
  BY DEF WindowsTypeOK
<1>4. ds4' = [word |-> word, ps |-> ps, click |-> click, triggers |-> triggers,
              points |-> points]
  BY Zenon DEF send_report, Report4
<1>5. /\ touch_start_time' \in Ages /\ held' \in Ages
      /\ ds4_touch_state' \in BOOLEAN /\ tapped' \in BOOLEAN
  BY ClickAssumption DEF send_report, StartTime, Ages, Short, WindowsTypeOK
<1>6. ps \in BOOLEAN /\ triggers \subseteq {"TriggerLeft", "TriggerRight"}
  BY DEF Triggers4
<1> HIDE DEF points, word, click, triggers, ps
<1>7. ds4' \in [word : SUBSET (0 .. 15), ps : BOOLEAN, click : BOOLEAN,
                triggers : SUBSET {"TriggerLeft", "TriggerRight"},
                points : UNION {[1 .. n -> Places] : n \in 0 .. 2}]
  BY <1>1, <1>2, <1>3, <1>4, <1>6
<1> QED
  BY <1>5, <1>7 DEF WindowsTypeOK, Ages

\* Every variable of the two devices, and of the kernel's view of the one, keeps to its
\* type, for any reports, touches, slots and time.
THEOREM TypeCorrect == DevicesSpec => []DevicesTypeOK
<1>1. DevicesInit => WindowsTypeOK
  <2> SUFFICES ASSUME WindowsInit PROVE WindowsTypeOK
    BY DEF DevicesInit
  <2>1. << >> \in [1 .. 0 -> Places]
    OBVIOUS
  <2>2. << >> \in UNION {[1 .. n -> Places] : n \in 0 .. 2}
    BY <2>1
  <2>3. ds4 \in [word : SUBSET (0 .. 15), ps : BOOLEAN, click : BOOLEAN,
                 triggers : SUBSET {"TriggerLeft", "TriggerRight"},
                 points : UNION {[1 .. n -> Places] : n \in 0 .. 2}]
    BY <2>2 DEF WindowsInit
  <2>4. None \in Ages
    BY DEF Ages
  <2> QED
    BY <2>3, <2>4 DEF WindowsInit, WindowsTypeOK
<1>2. WindowsTypeOK /\ [DevicesNext]_devicesVars => WindowsTypeOK'
  <2> SUFFICES ASSUME WindowsTypeOK, [DevicesNext]_devicesVars PROVE WindowsTypeOK'
    OBVIOUS
  <2>1. ASSUME TimePasses PROVE WindowsTypeOK'
    <3>1. Older(held) \in Ages /\ Older(touch_start_time) \in Ages
      BY ClickAssumption DEF Older, Ages, WindowsTypeOK
    <3> QED
      BY <2>1, <3>1 DEF TimePasses, WindowsTypeOK, Ages
  <2>2. ASSUME UNCHANGED windowsVars PROVE WindowsTypeOK'
    BY <2>2 DEF WindowsTypeOK, Ages
  <2> QED
    BY <2>1, <2>2, WindowsReportType DEF DevicesNext, BothReport
<1>3. PadInv /\ WindowsTypeOK => DevicesTypeOK
  BY DEF PadInv, DevicesTypeOK
<1> QED
  BY <1>1, <1>2, <1>3, PadAlways, PTL DEF DevicesSpec

-------------------------------------------------------------------------------
(* The table of README.md:118-123.                                          *)

\* The buttons that the table speaks of.
ButtonName ==
  [ShoulderLeft |-> <<"L", 1>>, ShoulderRight |-> <<"R", 1>>,
   TriggerLeft |-> <<"L", 2>>, TriggerRight |-> <<"R", 2>>,
   ThumbLeft |-> <<"L", 3>>, ThumbRight |-> <<"R", 3>>]

Named(pressed) == {ButtonName[b] : b \in pressed \cap DOMAIN ButtonName}

\* The zones of a panel do what its entry of the table says.
ZonesMean(zones, areas) ==
  /\ \A z \in zones, p \in Place :
       p \in z.places => /\ z.button \in DOMAIN ButtonName
                         /\ ButtonName[z.button] \in TouchMeans(areas, p)
  /\ \A p \in Place : TouchMeans(areas, p) # {} => \E z \in zones : p \in z.places

LEMMA PlaceParts ==
  ASSUME NEW p \in Place
  PROVE  /\ p = <<p[1], p[2]>>
         /\ p[1] \in {"left", "middle", "right"}
         /\ p[2] \in {"top", "middle", "bottom", "below"}
BY DEF Place

LEMMA HalvesMean ==
  ASSUME NEW n \in {1, 2, 3}, NEW l \in DOMAIN ButtonName, NEW r \in DOMAIN ButtonName,
         ButtonName[l] = <<"L", n>>, ButtonName[r] = <<"R", n>>
  PROVE  ZonesMean(Halves(l, r), All(n))
<1> USE DEF Left, Right, Top, Bottom
<1>1. ASSUME NEW z \in Halves(l, r), NEW p \in Place, p \in z.places
      PROVE  z.button \in DOMAIN ButtonName /\ ButtonName[z.button] \in TouchMeans(All(n), p)
  <2>1. p[2] \in {"top", "middle", "bottom"} /\ p[1] \in {"left", "middle", "right"}
    BY <1>1, PlaceParts DEF Halves, Zone
  <2>2. TouchMeans(All(n), p) = Sides[p[1]] \X {n}
    BY <2>1 DEF TouchMeans, All
  <2>3. \/ z.button = l /\ p[1] \in Left
        \/ z.button = r /\ p[1] \in Right
    BY <1>1 DEF Halves, Zone
  <2> QED
    BY <2>2, <2>3 DEF Sides
<1>2. ASSUME NEW p \in Place, TouchMeans(All(n), p) # {}
      PROVE  \E z \in Halves(l, r) : p \in z.places
  <2>1. p[2] # "below"
    BY <1>2 DEF TouchMeans
  <2>2. CASE p[1] \in Left
    BY <2>1, <2>2, PlaceParts DEF Halves, Zone
  <2>3. CASE p[1] \in Right
    BY <2>1, <2>3, PlaceParts DEF Halves, Zone
  <2> QED
    BY <2>2, <2>3, PlaceParts
<1> QED
  BY <1>1, <1>2 DEF ZonesMean

LEMMA QuartersMean == ZonesMean(Quarters, UpperLower)
<1> USE DEF Left, Right, Top, Bottom
<1>1. ASSUME NEW z \in Quarters, NEW p \in Place, p \in z.places
      PROVE  /\ z.button \in DOMAIN ButtonName
             /\ ButtonName[z.button] \in TouchMeans(UpperLower, p)
  <2>1. p[2] \in {"top", "middle", "bottom"} /\ p[1] \in {"left", "middle", "right"}
    BY <1>1, PlaceParts DEF Quarters, Zone
  <2>2. TouchMeans(UpperLower, p) = Sides[p[1]] \X UpperLower[p[2]]
    BY <2>1 DEF TouchMeans
  <2>3. \/ z.button = "ShoulderLeft" /\ p[1] \in Left /\ p[2] \in Top
        \/ z.button = "ShoulderRight" /\ p[1] \in Right /\ p[2] \in Top
        \/ z.button = "ThumbLeft" /\ p[1] \in Left /\ p[2] \in Bottom
        \/ z.button = "ThumbRight" /\ p[1] \in Right /\ p[2] \in Bottom
    BY <1>1 DEF Quarters, Zone
  <2> QED
    BY <2>2, <2>3 DEF Sides, UpperLower, ButtonName
<1>2. ASSUME NEW p \in Place, TouchMeans(UpperLower, p) # {}
      PROVE  \E z \in Quarters : p \in z.places
  <2>1. p[2] # "below"
    BY <1>2 DEF TouchMeans
  <2>2. p \in Left \X Top \/ p \in Right \X Top \/ p \in Left \X Bottom \/ p \in Right \X Bottom
    BY <2>1, PlaceParts
  <2> QED
    BY <2>2 DEF Quarters, Zone
<1> QED
  BY <1>1, <1>2 DEF ZonesMean

LEMMA DigitizerMeans == ZonesMean({}, Digitizer)
<1>1. ASSUME NEW p \in Place PROVE TouchMeans(Digitizer, p) = {}
  BY PlaceParts DEF TouchMeans, Digitizer
<1> QED
  BY <1>1 DEF ZonesMean

\* Each row of the table against the configuration of its name.
LEMMA RowsMean ==
  ASSUME NEW name \in ConfigName
  PROVE  /\ ZonesMean(Config[name].front, TableRow[name].front)
         /\ ZonesMean(Config[name].rear, TableRow[name].rear)
         /\ TableRow[name].held = IF Config[name].trigger = "Trigger" THEN 2 ELSE 1
         /\ Config[name].trigger \in {"Trigger", "Shoulder"}
<1>1. /\ ZonesMean(Halves("ThumbLeft", "ThumbRight"), All(3))
      /\ ZonesMean(Halves("ShoulderLeft", "ShoulderRight"), All(1))
      /\ ZonesMean(Halves("TriggerLeft", "TriggerRight"), All(2))
  BY HalvesMean DEF ButtonName
<1>2. CASE name = "standart"
  BY <1>1, <1>2 DEF Config, TableRow, Standart
<1>3. CASE name = "alt_triggers"
  BY <1>1, <1>3 DEF Config, TableRow, AltTriggers
<1>4. CASE name = "rear_touchpad"
  BY <1>4, QuartersMean, DigitizerMeans DEF Config, TableRow, RearTouchpad
<1>5. CASE name = "front_touchpad"
  BY <1>5, QuartersMean, DigitizerMeans DEF Config, TableRow, FrontTouchpad
<1> QED
  BY <1>2, <1>3, <1>4, <1>5 DEF ConfigName

\* What the zones found for touches press.
ButtonsOf(f) == {f[t].button : t \in DOMAIN f}

\* A touch presses what the table says of its place.
LEMMA ChoicesMean ==
  ASSUME NEW zones, NEW areas, ZonesMean(zones, areas),
         NEW seen, \A t \in ToSet(seen) : t.place \in Place,
         NEW f \in ZoneChoices(zones, seen)
  PROVE  \A t \in DOMAIN f : /\ t \in ToSet(seen) /\ f[t].button \in DOMAIN ButtonName
                             /\ ButtonName[f[t].button] \in TouchMeans(areas, t.place)
<1>1. \A t \in DOMAIN f : /\ t \in ToSet(seen) /\ f[t] \in zones /\ t.place \in f[t].places
                          /\ t.place \in Place
  BY DEF ZoneChoices, Acting
<1> QED
  BY <1>1 DEF ZonesMean

LEMMA TouchesMean ==
  ASSUME NEW zones, NEW areas, ZonesMean(zones, areas),
         NEW seen, \A t \in ToSet(seen) : t.place \in Place,
         NEW f \in ZoneChoices(zones, seen),
         NEW b \in Named(ButtonsOf(f))
  PROVE  \E t \in ToSet(seen) : b \in TouchMeans(areas, t.place)
BY ChoicesMean DEF Named, ButtonsOf

\* No touch is left out, whichever zone is found for it on a border.
LEMMA NoneLeftOut ==
  ASSUME NEW zones, NEW areas, ZonesMean(zones, areas),
         NEW seen, \A t \in ToSet(seen) : t.place \in Place,
         NEW f \in ZoneChoices(zones, seen),
         NEW t \in ToSet(seen), TouchMeans(areas, t.place) # {}
  PROVE  Named(ButtonsOf(f)) \cap TouchMeans(areas, t.place) # {}
<1>1. t \in DOMAIN f
  BY DEF ZonesMean, ZoneChoices, Acting
<1>2. /\ f[t].button \in DOMAIN ButtonName
      /\ ButtonName[f[t].button] \in TouchMeans(areas, t.place)
  BY <1>1, ChoicesMean
<1>3. ButtonName[f[t].button] \in Named(ButtonsOf(f))
  BY <1>1, <1>2 DEF Named, ButtonsOf
<1> QED
  BY <1>2, <1>3

\* The shoulder buttons held are the only other buttons the table speaks of.
LEMMA HeldMean ==
  ASSUME NEW trigger \in {"Trigger", "Shoulder"}, NEW n,
         n = IF trigger = "Trigger" THEN 2 ELSE 1, NEW buttons
  PROVE  Named(get_pressed_buttons(buttons, trigger))
           = {<<"L", n>> : b \in buttons \cap {"lt"}} \cup {<<"R", n>> : b \in buttons \cap {"rt"}}
<1> DEFINE of == ButtonOf(trigger)
<1>1. /\ DOMAIN of = {"circle", "square", "cross", "triangle", "start", "select", "ps", "lt", "rt"}
      /\ \A b \in DOMAIN of : of[b] \in DOMAIN ButtonName <=> b \in {"lt", "rt"}
      /\ ButtonName[of["lt"]] = <<"L", n>> /\ ButtonName[of["rt"]] = <<"R", n>>
  <2>1. CASE trigger = "Trigger"
    BY <2>1 DEF ButtonOf, ButtonName
  <2>2. CASE trigger = "Shoulder"
    BY <2>2 DEF ButtonOf, ButtonName
  <2> QED
    BY <2>1, <2>2
<1>2. get_pressed_buttons(buttons, trigger) = {of[b] : b \in buttons \cap DOMAIN of}
  BY DEF get_pressed_buttons
<1> HIDE DEF of
<1>3. Named(get_pressed_buttons(buttons, trigger)) = {ButtonName[of[b]] : b \in buttons \cap {"lt", "rt"}}
  BY <1>1, <1>2 DEF Named
<1> QED
  BY <1>1, <1>3

LEMMA NamedUnion ==
  ASSUME NEW a, NEW b, NEW c
  PROVE  Named(a \cup b \cup c) = Named(a) \cup Named(b) \cup Named(c)
BY DEF Named

\* Where the places of touches are.
LEMMA TouchPlaces ==
  ASSUME NEW report \in Report
  PROVE  /\ \A t \in ToSet(report.touches.front) : t.place \in Place
         /\ \A t \in ToSet(report.touches.rear) : t.place \in Place
<1>1. PICK m \in 0 .. MaxTouches :
        report.touches \in [front : FrontTouches(m), rear : Touches(MaxTouches - m)]
  BY DEF Report
<1>2. report.touches.front \in Seq(Touch) /\ report.touches.rear \in Seq(Touch)
  BY <1>1, TouchesType DEF FrontTouches
<1>3. ASSUME NEW s \in Seq(Touch), NEW t \in ToSet(s) PROVE t.place \in Place
  <2>1. PICK i \in DOMAIN s : t = s[i]
    BY DEF ToSet
  <2>2. s[i] \in Touch
    BY <2>1
  <2> QED
    BY <2>1, <2>2, DeviceAssumption DEF Touch
<1> QED
  BY <1>2, <1>3

\* Every report asks for buttons that meet the table.
LEMMA AskMeets ==
  ASSUME NEW ask \in AllAsks
  PROVE  Meets(Named(ask.pressed), ask.wants)
<1>1. PICK name \in Configs, report \in Report : ask \in Asks(name, report)
  BY DEF AllAsks
<1>2. PICK front \in ZoneChoices(Config[name].front, report.touches.front),
           rear \in ZoneChoices(Config[name].rear, report.touches.rear) :
        /\ ask.pressed = Pressed(name, report, front, rear)
        /\ ask.wants = Wants(name, report)
  BY <1>1 DEF Asks
<1> DEFINE row == TableRow[name]
           n == row.held
           shoulders == Named(get_pressed_buttons(report.buttons, Config[name].trigger))
           atFront == Named(ButtonsOf(front))
           atRear == Named(ButtonsOf(rear))
           heldWants == {{<<"L", n>>} : b \in report.buttons \cap {"lt"}}
                          \cup {{<<"R", n>>} : b \in report.buttons \cap {"rt"}}
           wants(panel) == {TouchMeans(row[panel], t.place) : t \in ToSet(report.touches[panel])}
<1>3. /\ ZonesMean(Config[name].front, row.front) /\ ZonesMean(Config[name].rear, row.rear)
      /\ Config[name].trigger \in {"Trigger", "Shoulder"}
      /\ n = IF Config[name].trigger = "Trigger" THEN 2 ELSE 1
  BY RowsMean, DeviceAssumption
<1>4. shoulders = {<<"L", n>> : b \in report.buttons \cap {"lt"}}
               \cup {<<"R", n>> : b \in report.buttons \cap {"rt"}}
  BY <1>3, HeldMean
<1>5. /\ Named(ask.pressed) = shoulders \cup atFront \cup atRear
      /\ ask.wants = (heldWants \cup wants("front") \cup wants("rear")) \ {{}}
  BY <1>2, NamedUnion DEF Pressed, Wants, ButtonsOf
<1>6. ASSUME NEW b \in Named(ask.pressed) PROVE b \in UNION ask.wants
  <2>1. CASE b \in shoulders
    <3>1. {b} \in heldWants
      BY <1>4, <2>1
    <3> QED
      BY <1>5, <3>1
  <2>2. CASE b \in atFront
    <3>1. PICK t \in ToSet(report.touches.front) : b \in TouchMeans(row.front, t.place)
      BY <1>3, <2>2, TouchPlaces, TouchesMean
    <3> QED
      BY <1>5, <3>1
  <2>3. CASE b \in atRear
    <3>1. PICK t \in ToSet(report.touches.rear) : b \in TouchMeans(row.rear, t.place)
      BY <1>3, <2>3, TouchPlaces, TouchesMean
    <3> QED
      BY <1>5, <3>1
  <2> QED
    BY <1>5, <2>1, <2>2, <2>3
<1>7. ASSUME NEW w \in ask.wants PROVE Named(ask.pressed) \cap w # {}
  <2>1. CASE w \in heldWants
    <3>1. \E b \in shoulders : w = {b}
      BY <1>4, <2>1
    <3> QED
      BY <1>5, <3>1
  <2>2. CASE w \in wants("front") /\ w # {}
    <3>1. atFront \cap w # {}
      <4>1. PICK t \in ToSet(report.touches.front) : w = TouchMeans(row.front, t.place)
        BY <2>2
      <4>2. \A u \in ToSet(report.touches.front) : u.place \in Place
        BY TouchPlaces
      <4> QED
        BY <1>3, <2>2, <4>1, <4>2, NoneLeftOut
    <3> QED
      BY <1>5, <3>1
  <2>3. CASE w \in wants("rear") /\ w # {}
    <3>1. atRear \cap w # {}
      <4>1. PICK t \in ToSet(report.touches.rear) : w = TouchMeans(row.rear, t.place)
        BY <2>3
      <4>2. \A u \in ToSet(report.touches.rear) : u.place \in Place
        BY TouchPlaces
      <4> QED
        BY <1>3, <2>3, <4>1, <4>2, NoneLeftOut
    <3> QED
      BY <1>5, <3>1
  <2> QED
    BY <1>5, <2>1, <2>2, <2>3
<1> QED
  BY <1>6, <1>7 DEF Meets

\* What programs make of the keys and of the word.
LEMMA KeysNamed ==
  ASSUME NEW pressed \in SUBSET Button, keys = Keys(pressed)
  PROVE  Exchanged(OnLinux) = Named(pressed) /\ ("BTN_MODE" \in keys <=> "PSButton" \in pressed)
<1> DEFINE swap(c) == <<c[1], IF c[2] = 1 THEN 2 ELSE IF c[2] = 2 THEN 1 ELSE c[2]>>
<1>1. ASSUME NEW b \in Button
      PROVE  /\ map_button_to_ds4[b] \in DOMAIN LinuxName <=> b \in DOMAIN ButtonName
             /\ b \in DOMAIN ButtonName => ButtonName[b] = swap(LinuxName[map_button_to_ds4[b]])
             /\ map_button_to_ds4[b] = "BTN_MODE" <=> b = "PSButton"
  BY <1>1 DEF Button, map_button_to_ds4, LinuxName, ButtonName
<1>2. Exchanged(OnLinux) = {swap(c) : c \in OnLinux}
  BY DEF Exchanged
<1> HIDE DEF swap
<1>3. OnLinux = {LinuxName[map_button_to_ds4[b]] : b \in pressed \cap DOMAIN ButtonName}
  BY <1>1 DEF OnLinux, Keys
<1>4. {swap(c) : c \in OnLinux} = {swap(LinuxName[map_button_to_ds4[b]]) : b \in pressed \cap DOMAIN ButtonName}
  BY <1>3
<1>5. {swap(LinuxName[map_button_to_ds4[b]]) : b \in pressed \cap DOMAIN ButtonName} = Named(pressed)
  BY <1>1 DEF Named
<1> QED
  BY <1>1, <1>2, <1>4, <1>5 DEF Keys

LEMMA WordNamed ==
  ASSUME NEW pressed \in SUBSET Button, NEW value,
         ds4.word = dpad_to_ds4(value) \cup {ds4_bit[b] : b \in pressed}
  PROVE  /\ OnWindows = Named(pressed)
         /\ ds4.word \cap 0 .. 3 = dpad_to_ds4(value) \cup {0 : b \in pressed \cap {"PSButton"}}
<1>1. dpad_to_ds4(value) \subseteq 0 .. 3
  BY DEF dpad_to_ds4
<1>2. ASSUME NEW b \in Button
      PROVE  /\ ds4_bit[b] \in Nat
             /\ ds4_bit[b] \in DOMAIN WindowsName <=> b \in DOMAIN ButtonName
             /\ b \in DOMAIN ButtonName => WindowsName[ds4_bit[b]] = ButtonName[b]
             /\ ds4_bit[b] \in 0 .. 3 => ds4_bit[b] = 0 /\ b = "PSButton"
  BY DEF Button, ds4_bit, WindowsName, ButtonName
<1>3. ds4_bit["PSButton"] = 0
  BY DEF ds4_bit
<1>4. \A i \in DOMAIN WindowsName : i \notin 0 .. 3
  BY DEF WindowsName
<1> DEFINE bits == dpad_to_ds4(value)
<1> HIDE DEF bits
<1>5. ds4.word \cap DOMAIN WindowsName = {ds4_bit[b] : b \in pressed \cap DOMAIN ButtonName}
  BY <1>1, <1>2, <1>4 DEF bits
<1>6. OnWindows = {WindowsName[ds4_bit[b]] : b \in pressed \cap DOMAIN ButtonName}
  BY <1>5 DEF OnWindows
<1>7. OnWindows = Named(pressed)
  BY <1>2, <1>6 DEF Named
<1>8. ds4.word \cap 0 .. 3 = dpad_to_ds4(value) \cup {0 : b \in pressed \cap {"PSButton"}}
  BY <1>1, <1>2, <1>3 DEF bits
<1> QED
  BY <1>7, <1>8

TableInv ==
  /\ asked.pressed \subseteq Button
  /\ Meets(Named(asked.pressed), asked.wants)
  /\ ds4.word = dpad_to_ds4(asked.hat) \cup {ds4_bit[b] : b \in asked.pressed}

\* The table of README.md:118-123 holds on Windows, and with the two pairs exchanged on
\* Linux, for any reports, touches and choices of a zone on a border; and what PS does to
\* the direction on Windows is all that the platforms differ in besides.
THEOREM TableHolds == DevicesSpec => []AsTabled
<1>1. DevicesInit => TableInv
  BY DEF DevicesInit, DeviceInit, WindowsInit, TableInv, Meets, Named, dpad_to_ds4
<1>2. TableInv /\ [DevicesNext]_devicesVars => TableInv'
  <2> SUFFICES ASSUME TableInv, [DevicesNext]_devicesVars PROVE TableInv'
    OBVIOUS
  <2>1. ASSUME NEW ask \in AllAsks, SendReport(ask), send_report(ask) PROVE TableInv'
    <3>1. asked'.pressed = ask.pressed /\ asked'.hat = ask.hat /\ asked'.wants = ask.wants
      BY <2>1 DEF SendReport
    <3>2. ds4'.word = dpad_to_ds4(ask.hat) \cup {ds4_bit[b] : b \in ask.pressed}
      BY <2>1 DEF send_report, Report4, Word4
    <3>3. Meets(Named(ask.pressed), ask.wants) /\ ask.pressed \subseteq Button
      BY AskMeets, AskType
    <3> QED
      BY <3>1, <3>2, <3>3 DEF TableInv, Meets, Named, dpad_to_ds4
  <2>2. ASSUME UNCHANGED <<ds4, asked>> PROVE TableInv'
    BY <2>2 DEF TableInv, Meets, Named, dpad_to_ds4
  <2> QED
    BY <2>1, <2>2 DEF DevicesNext, BothReport, touchpadKept, WriteTouches, EndSlots, EndedSlots,
       UpdateSlot, UpdateKey, WriteFails, TimePasses
<1>3. ButtonsInv /\ TableInv => AsTabled
  <2> SUFFICES ASSUME ButtonsInv, TableInv PROVE AsTabled
    OBVIOUS
  <2>1. asked.pressed \in SUBSET Button /\ keys = Keys(asked.pressed) /\ hat = asked.hat
    BY DEF ButtonsInv
  <2>2. Exchanged(OnLinux) = Named(asked.pressed)
        /\ ("BTN_MODE" \in keys <=> "PSButton" \in asked.pressed)
    BY <2>1, KeysNamed
  <2>3. /\ OnWindows = Named(asked.pressed)
        /\ ds4.word \cap 0 .. 3
             = dpad_to_ds4(asked.hat) \cup {0 : b \in asked.pressed \cap {"PSButton"}}
    BY <2>1, WordNamed DEF TableInv
  <2>4. {0 : b \in asked.pressed \cap {"PSButton"}} = {0 : k \in keys \cap {"BTN_MODE"}}
    BY <2>2
  <2> QED
    BY <2>1, <2>2, <2>3, <2>4 DEF AsTabled, TableInv
<1> QED
  BY <1>1, <1>2, <1>3, ButtonsAlways, PTL DEF DevicesSpec
===============================================================================
