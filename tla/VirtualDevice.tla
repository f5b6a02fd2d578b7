---------------------------- MODULE VirtualDevice -----------------------------
(***************************************************************************)
(* The virtual device on Linux (packages/vita_virtual_device): send_report *)
(* turns each report into the changes since the last one and writes them   *)
(* to uinput devices; the kernel keeps what programs see.  Reports may be  *)
(* lost on the way, so any report may follow any other.                    *)
(***************************************************************************)
EXTENDS DeviceConfig

\* What the kernel calls the button.
map_button_to_ds4 ==
  [ThumbRight |-> "BTN_THUMBR", ThumbLeft |-> "BTN_THUMBL", Options |-> "BTN_START",
   Share |-> "BTN_SELECT", TriggerRight |-> "BTN_TR", TriggerLeft |-> "BTN_TL",
   ShoulderRight |-> "BTN_TR2", ShoulderLeft |-> "BTN_TL2", Triangle |-> "BTN_NORTH",
   Circle |-> "BTN_EAST", Cross |-> "BTN_SOUTH", Square |-> "BTN_WEST",
   PSButton |-> "BTN_MODE"]

Keys(pressed) == {map_button_to_ds4[b] : b \in pressed}

VARIABLES
  config,            \* the configuration the device was created with
  dpc,               \* where send_report is
  touches,           \* the touches of the last report
  slot,              \* where its loops over the slots are
  previous_buttons,
  previous_hat,      \* previous_hat_x and previous_hat_y
  previous_touches,  \* of the panel that is a touchpad: ids by slot
  touch_state,
  keys,              \* kernel: the keys of the main device that are down
  hat,               \* kernel: its hat axes
  pad,               \* kernel: the touchpad: current slot, ids by slot, BTN_TOUCH
  asked              \* history: what the last report asks for

progVars == <<previous_buttons, previous_hat, previous_touches, touch_state>>
kernelVars == <<keys, hat, pad>>
deviceVars == <<config, dpc, touches, slot, progVars, kernelVars, asked>>

Source == Config[config].source
Slots == IF Source = None THEN {} ELSE 1 .. MaxSlots[Source]

DeviceTypeOK ==
  /\ config \in Configs
  /\ dpc \in {"idle", "ended", "current", "failed"}
  /\ touches \in Seq(Touch) /\ slot \in Nat \ {0}
  /\ previous_buttons \subseteq Button
  /\ previous_hat \in (-1 .. 1) \X (-1 .. 1)
  /\ previous_touches \in [Slots -> TouchIds \cup {None}]
  /\ touch_state \in BOOLEAN
  /\ keys \subseteq Keys(Button)
  /\ hat \in (-1 .. 1) \X (-1 .. 1)
  /\ pad \in [slot : Slots \cup {1}, ids : [Slots -> TouchIds \cup {None}], touched : BOOLEAN]

DeviceInit ==
  /\ config \in Configs
  /\ dpc = "idle" /\ touches = << >> /\ slot = 1
  /\ previous_buttons = {} /\ previous_hat = <<0, 0>>
  /\ previous_touches = [s \in Slots |-> None] /\ touch_state = FALSE
  /\ keys = {} /\ hat = <<0, 0>>
  /\ pad = [slot |-> 1, ids |-> [s \in Slots |-> None], touched |-> FALSE]
  /\ asked = [pressed |-> {}, hat |-> <<0, 0>>, wants |-> {}]

-------------------------------------------------------------------------------
(* send_report, up to the write to the main device.                         *)

\* Mutant of WriteButtons: a button is never released.
WriteButtonsPressOnly(pressed) ==
  /\ keys' = keys \cup Keys(pressed \ previous_buttons)
  /\ previous_buttons' = pressed

\* The differences go to the kernel, and the new values are the previous ones.
WriteButtons(pressed) ==
  /\ keys' = (keys \cup Keys(pressed \ previous_buttons))
               \ Keys(previous_buttons \ pressed)
  /\ previous_buttons' = pressed

WriteHat(value) ==
  /\ hat' = << IF value[1] # previous_hat[1] THEN value[1] ELSE hat[1],
               IF value[2] # previous_hat[2] THEN value[2] ELSE hat[2] >>
  /\ previous_hat' = value

SendReport(ask) ==
  /\ dpc = "idle" /\ ask.config = config
  /\ WriteButtons(ask.pressed)
  /\ WriteHat(ask.hat)
  /\ asked' = [pressed |-> ask.pressed, hat |-> ask.hat, wants |-> ask.wants]
  /\ IF Source = None THEN UNCHANGED <<dpc, touches, slot>>
     ELSE dpc' = "ended" /\ touches' = ask.touches /\ slot' = 1
  /\ UNCHANGED <<config, previous_touches, touch_state, pad>>

-------------------------------------------------------------------------------
(* The write to the touchpad, in evdev's protocol of slots.  The events are *)
(* made and taken in one order, so they are made and taken slot by slot:    *)
(* the slots that end, the slots in use, the key.                           *)

\* The slots beyond the number of touches end, the others take the touch at
\* their position; the key follows whether a touch that has a slot presses.
Shown == IF Len(touches) < MaxSlots[Source] THEN Len(touches) ELSE MaxSlots[Source]
AnyActive == \E s \in 1 .. Shown : touches[s].force > 0

Event(code, value) == [code |-> code, value |-> value]

\* The kernel takes an event.
Apply(p, e) ==
  CASE e.code = "slot" -> [p EXCEPT !.slot = e.value]
    [] e.code = "id" -> [p EXCEPT !.ids[p.slot] = e.value]
    [] e.code = "touch" -> [p EXCEPT !.touched = e.value]

\* The two events of a slot, and what the program remembers of it.
WriteSlot(s, id) ==
  /\ pad' = Apply(Apply(pad, Event("slot", s)), Event("id", id))
  /\ previous_touches' = [previous_touches EXCEPT ![s] = id]

touchpadKept == <<config, touches, previous_buttons, previous_hat, keys, hat, asked>>

\* Mutant of EndSlots: the slot is not remembered as empty.
EndSlotsForgotten ==
  /\ dpc = "ended" /\ slot =< MaxSlots[Source]
  /\ slot' = slot + 1
  /\ IF slot > Len(touches) /\ previous_touches[slot] # None
     THEN /\ pad' = Apply(Apply(pad, Event("slot", slot)), Event("id", None))
          /\ previous_touches' = [s \in 1 .. Shown |-> previous_touches[s]]
     ELSE UNCHANGED <<pad, previous_touches>>
  /\ UNCHANGED <<touchpadKept, dpc, touch_state>>

\* Mutant of EndSlots: the first slot that is not used any more is passed over.
EndSlotsLate ==
  /\ dpc = "ended" /\ slot =< MaxSlots[Source]
  /\ slot' = slot + 1
  /\ IF slot > Len(touches) + 1 /\ previous_touches[slot] # None
     THEN WriteSlot(slot, None)
     ELSE UNCHANGED <<pad, previous_touches>>
  /\ UNCHANGED <<touchpadKept, dpc, touch_state>>

\* A turn of the first loop.
EndSlots ==
  /\ dpc = "ended" /\ slot =< MaxSlots[Source]
  /\ slot' = slot + 1
  /\ IF slot > Len(touches) /\ previous_touches[slot] # None
     THEN WriteSlot(slot, None)
     ELSE UNCHANGED <<pad, previous_touches>>
  /\ UNCHANGED <<touchpadKept, dpc, touch_state>>

EndedSlots ==
  /\ dpc = "ended" /\ slot > MaxSlots[Source]
  /\ dpc' = "current" /\ slot' = 1
  /\ UNCHANGED <<touchpadKept, previous_touches, touch_state, pad>>

\* A turn of the second loop, which ends at the last slot.
UpdateSlot ==
  /\ dpc = "current" /\ slot =< Shown
  /\ slot' = slot + 1
  /\ WriteSlot(slot, touches[slot].id)
  /\ UNCHANGED <<touchpadKept, dpc, touch_state>>

\* The key changes with the first touch that presses and after the last.
UpdateKey ==
  /\ dpc = "current" /\ slot > Shown
  /\ dpc' = "idle"
  /\ pad' = IF AnyActive # touch_state THEN Apply(pad, Event("touch", AnyActive)) ELSE pad
  /\ touch_state' = AnyActive
  /\ UNCHANGED <<touchpadKept, slot, previous_touches>>

WriteTouches == EndSlots \/ EndedSlots \/ UpdateSlot \/ UpdateKey

\* A write fails: the client program ends, and its device with it.
WriteFails ==
  /\ dpc # "failed"
  /\ dpc' = "failed"
  /\ UNCHANGED <<config, touches, slot, progVars, kernelVars, asked>>

DeviceNext ==
  \/ \E ask \in AllAsks : SendReport(ask)
  \/ WriteTouches \/ WriteFails

DeviceSpec == DeviceInit /\ [][DeviceNext]_deviceVars

-------------------------------------------------------------------------------
\* After a report the keys and the hat are what that report asks for, whatever
\* reports came before or were lost: nothing stays down that it does not press,
\* not even a button that both a zone and a touch next to it held (linux.rs).
ButtonsShown == keys = Keys(asked.pressed) /\ hat = asked.hat

\* The inductive invariant behind it; DeviceProofs proves it.
ButtonsInv ==
  /\ config \in Configs
  /\ previous_buttons \subseteq Button /\ previous_buttons = asked.pressed
  /\ keys = Keys(previous_buttons)
  /\ previous_hat = asked.hat /\ hat = asked.hat

\* The touchpad shows the touches of the last report, as many as it has slots,
\* none twice, and its key is down while one of them presses (linux.rs:676-766).
TouchesShown ==
  dpc = "idle" /\ Source # None =>
    /\ \A s \in Slots : pad.ids[s] = IF s =< Shown THEN touches[s].id ELSE None
    /\ pad.touched = AnyActive

\* The inductive invariant behind it; DeviceProofs proves it.  What the program
\* remembers is what the kernel has; slots beyond the touches are empty once the first
\* loop has passed them, and the others have their touch once the second has.
Passed(s, loop) == dpc = loop => s < slot

TouchesInv ==
  /\ Source = None => dpc \in {"idle", "failed"}
  /\ Source # None /\ dpc # "failed" =>
       /\ previous_touches = pad.ids /\ touch_state = pad.touched
       /\ \A s \in Slots :
            /\ s > Shown /\ Passed(s, "ended") => pad.ids[s] = None
            /\ s =< Shown /\ dpc # "ended" /\ Passed(s, "current")
                 => pad.ids[s] = touches[s].id
       /\ dpc = "idle" => pad.touched = AnyActive

\* "Reset slots where touches have ended" (linux.rs:684): a slot is reset for a
\* touch that the report does not have any more.
EndedAreReset ==
  [][\A s \in Slots :
       pad.ids[s] # None /\ pad'.ids[s] = None
         => \A i \in DOMAIN touches : touches[i].id # pad.ids[s]]_deviceVars
===============================================================================
