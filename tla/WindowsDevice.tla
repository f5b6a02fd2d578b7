----------------------------- MODULE WindowsDevice -----------------------------
(***************************************************************************)
(* The virtual device on Windows (packages/vita_virtual_device/windows.rs):*)
(* a DualShock 4 whose report is written whole each time.  What it keeps   *)
(* between reports serves one purpose: a short touch of the touchpad is    *)
(* made a click.                                                           *)
(***************************************************************************)
EXTENDS DeviceConfig

CONSTANT ClickTime  \* 150 ms: a touch that is shorter makes a click

ASSUME ClickAssumption == ClickTime \in Nat /\ None \notin Nat

\* map_button_to_ds4: the bit of each button in the word of the report.  PS_HOME is a bit
\* of another word; in this one it is the lowest of the direction.
ds4_bit ==
  [ThumbRight |-> 15, ThumbLeft |-> 14, Options |-> 13, Share |-> 12, TriggerRight |-> 11,
   TriggerLeft |-> 10, ShoulderRight |-> 9, ShoulderLeft |-> 8, Triangle |-> 7, Circle |-> 6,
   Cross |-> 5, Square |-> 4, PSButton |-> 0]

VARIABLES
  ds4,               \* the report that programs see
  ds4_touch_state,   \* touch_state: was the touchpad touched in the last report?
  touch_start_time,  \* its age, up to ClickTime, or None
  held,              \* history: for how long the reports have shown a touch, or None
  tapped             \* history: did the last report end a touch shorter than ClickTime?

windowsVars == <<ds4, ds4_touch_state, touch_start_time, held, tapped>>

Axes == (-1 .. 1) \X (-1 .. 1)
Ages == 0 .. ClickTime \cup {None}

WindowsTypeOK ==
  /\ ds4 \in [word : SUBSET (0 .. 15), ps : BOOLEAN, click : BOOLEAN,
              triggers : SUBSET {"TriggerLeft", "TriggerRight"},
              points : UNION {[1 .. n -> Places] : n \in 0 .. 2}]
  /\ ds4_touch_state \in BOOLEAN
  /\ touch_start_time \in Ages /\ held \in Ages
  /\ tapped \in BOOLEAN

WindowsInit ==
  /\ ds4 = [word |-> {3}, ps |-> FALSE, click |-> FALSE, triggers |-> {},
            points |-> << >>]
  /\ ds4_touch_state = FALSE /\ touch_start_time = None
  /\ held = None /\ tapped = FALSE

\* The bits of the direction: 0 to 7 clockwise from North, 8 for none.
dpad_to_ds4(hat) ==
  CASE hat = <<0, -1>> -> {} [] hat = <<1, -1>> -> {0} [] hat = <<1, 0>> -> {1}
    [] hat = <<1, 1>> -> {0, 1} [] hat = <<0, 1>> -> {2} [] hat = <<-1, 1>> -> {0, 2}
    [] hat = <<-1, 0>> -> {1, 2} [] hat = <<-1, -1>> -> {0, 1, 2} [] OTHER -> {3}

\* The word of the buttons: the direction, with the bits of the buttons or-ed in.
Word4(ask) == dpad_to_ds4(ask.hat) \cup {ds4_bit[b] : b \in ask.pressed}

\* The analogue triggers are pressed where the word has their bits.
Triggers4(ask) == {b \in {"TriggerLeft", "TriggerRight"} : ds4_bit[b] \in Word4(ask)}

\* DS4ReportExBuilder.
Report4(ask, click) ==
  [word |-> Word4(ask),
   ps |-> "PSButton" \in ask.pressed,
   click |-> click,
   triggers |-> Triggers4(ask),
   points |-> [i \in DOMAIN ask.touches \cap {1, 2} |-> ask.touches[i].place]]

\* Mutant of StartTime: it is taken when the fingers leave.
StartTimeAtEnd(is_touching) ==
  IF is_touching = ds4_touch_state THEN touch_start_time
  ELSE IF is_touching THEN None ELSE 0

StartTime(is_touching) ==
  IF is_touching = ds4_touch_state THEN touch_start_time
  ELSE IF is_touching THEN 0 ELSE None

Short(age) == age # None /\ age < ClickTime

send_report(ask) ==
  LET is_touching == ask.touches # << >>
      click == ~is_touching /\ ds4_touch_state /\ Short(touch_start_time)
  IN  /\ ds4' = Report4(ask, click)
      /\ touch_start_time' = StartTime(is_touching)
      /\ ds4_touch_state' = is_touching
      /\ tapped' = (~is_touching /\ Short(held))
      /\ held' = IF ~is_touching THEN None ELSE IF held = None THEN 0 ELSE held

Older(age) == IF age = None \/ age = ClickTime THEN age ELSE age + 1

TimePasses ==
  /\ touch_start_time' = Older(touch_start_time) /\ held' = Older(held)
  /\ UNCHANGED <<ds4, ds4_touch_state, tapped>>

\* A touch that ended in time is a click, for one report; a longer one is none
\* (windows.rs:292-303), whatever fingers came and went in between.
ClicksAreTaps == ds4.click = tapped

\* The inductive invariant behind it; DeviceProofs proves it.
WindowsInv ==
  /\ ClicksAreTaps
  /\ touch_start_time = held /\ ds4_touch_state = (held # None)
  /\ held \in Ages
===============================================================================
