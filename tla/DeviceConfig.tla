------------------------------ MODULE DeviceConfig ----------------------------
(***************************************************************************)
(* What the virtual devices of both platforms share: the configurations    *)
(* (packages/vita_virtual_device: virtual_config, virtual_touch and        *)
(* virtual_utils) and what a report asks for under each.  Positions are    *)
(* reduced to where they lie in the zones of the configuration.            *)
(***************************************************************************)
EXTENDS Integers, Sequences, SequencesExt

CONSTANTS
  Configs,     \* the configurations looked at, a subset of ConfigName
  PadButtons,  \* the buttons of the pad looked at, a subset of ReportButton
  TouchIds,    \* identifiers that the console gives to touches
  Places,      \* the places <<x, y>> of a panel looked at
  MaxSlots,    \* MaxSlots[panel]: 6 in front, 4 at the rear
  MaxTouches,  \* bound: touches in a report
  None         \* no touch, no touchpad

ConfigName == {"standart", "alt_triggers", "rear_touchpad", "front_touchpad"}
Panel == {"front", "rear"}
Place == {"left", "middle", "right"} \X {"top", "middle", "bottom", "below"}
ReportButton == {"circle", "square", "cross", "triangle", "start", "select", "ps", "lt",
                 "rt", "up", "down", "left", "right"}
Button == {"ThumbRight", "ThumbLeft", "Options", "Share", "TriggerRight", "TriggerLeft",
           "ShoulderRight", "ShoulderLeft", "Triangle", "Circle", "Cross", "Square",
           "PSButton"}

ASSUME DeviceAssumption ==
  /\ Configs \subseteq ConfigName
  /\ PadButtons \subseteq ReportButton
  /\ None \notin TouchIds /\ None \notin Panel
  /\ Places \subseteq Place
  /\ MaxSlots \in [Panel -> Nat \ {0}]
  /\ MaxTouches \in Nat

-------------------------------------------------------------------------------
(* What a configuration says.  A place in the middle is in both halves; one *)
(* below the rectangle that the zones divide is in none.                    *)

Left == {"left", "middle"}
Right == {"middle", "right"}
Top == {"top", "middle"}
Bottom == {"middle", "bottom"}

Zone(xs, ys, button) == [places |-> xs \X ys, button |-> button]

Halves(l, r) ==
  {Zone(Left, Top \cup Bottom, l), Zone(Right, Top \cup Bottom, r)}

Quarters ==
  {Zone(Left, Top, "ShoulderLeft"), Zone(Right, Top, "ShoulderRight"),
   Zone(Left, Bottom, "ThumbLeft"), Zone(Right, Bottom, "ThumbRight")}

Standart ==
  [front |-> Halves("ThumbLeft", "ThumbRight"),
   rear |-> Halves("ShoulderLeft", "ShoulderRight"),
   trigger |-> "Trigger", source |-> None]

\* Mutant of AltTriggers: the shoulder buttons are left as they are in the others.
AltTriggersKept ==
  [front |-> Halves("ThumbLeft", "ThumbRight"),
   rear |-> Halves("TriggerLeft", "TriggerRight"),
   trigger |-> "Trigger", source |-> None]

AltTriggers ==
  [front |-> Halves("ThumbLeft", "ThumbRight"),
   rear |-> Halves("TriggerLeft", "TriggerRight"),
   trigger |-> "Shoulder", source |-> None]

RearTouchpad == [front |-> Quarters, rear |-> {}, trigger |-> "Trigger", source |-> "rear"]

FrontTouchpad == [front |-> {}, rear |-> Quarters, trigger |-> "Trigger", source |-> "front"]

Config == [standart |-> Standart, alt_triggers |-> AltTriggers,
           rear_touchpad |-> RearTouchpad, front_touchpad |-> FrontTouchpad]

\* get_pressed_buttons: the shoulder buttons go where the configuration says.
ButtonOf(trigger) ==
  [circle |-> "Circle", square |-> "Square", cross |-> "Cross", triangle |-> "Triangle",
   start |-> "Options", select |-> "Share", ps |-> "PSButton",
   lt |-> IF trigger = "Trigger" THEN "TriggerLeft" ELSE "ShoulderLeft",
   rt |-> IF trigger = "Trigger" THEN "TriggerRight" ELSE "ShoulderRight"]

get_pressed_buttons(buttons, trigger) ==
  {ButtonOf(trigger)[b] : b \in buttons \cap DOMAIN ButtonOf(trigger)}

\* compute_dpad_direction as axis values: two opposite directions give none.
compute_dpad(buttons) ==
  LET pressed(b) == IF b \in buttons THEN 1 ELSE 0
      opposed == {"up", "down"} \subseteq buttons \/ {"left", "right"} \subseteq buttons
  IN  IF opposed THEN <<0, 0>>
      ELSE << pressed("right") - pressed("left"), pressed("down") - pressed("up") >>

\* process_touch_reports: a touch acts by one zone it is in, whichever the tree
\* of zones finds.  No configuration has a zone for the direction pad.
Acting(zones, touches) == {t \in ToSet(touches) : \E z \in zones : t.place \in z.places}

ZoneChoices(zones, touches) ==
  {f \in [Acting(zones, touches) -> zones] :
     \A t \in Acting(zones, touches) : t.place \in f[t].places}

-------------------------------------------------------------------------------
Touch == [id : TouchIds, place : Places, force : {0, 1}]

Touches(n) ==
  {s \in UNION {[1 .. k -> Touch] : k \in 0 .. n} :
     \A i, j \in DOMAIN s : i # j => s[i].id # s[j].id}

\* Only the rear panel reaches beyond its rectangle, which ends at 887.
FrontTouches(n) ==
  {s \in Touches(n) : \A i \in DOMAIN s : s[i].place[2] # "below"}

\* The console numbers the touches of a panel apart.
Report ==
  [buttons : SUBSET PadButtons,
   touches : UNION {[front : FrontTouches(n), rear : Touches(MaxTouches - n)] :
                      n \in 0 .. MaxTouches}]

-------------------------------------------------------------------------------
(* What the table of README.md:118-123 says of a report: for each shoulder  *)
(* button held and each touch, the buttons <<side, number>> it can mean.    *)

All(n) == [y \in {"top", "middle", "bottom"} |-> {n}]
UpperLower == [top |-> {1}, middle |-> {1, 3}, bottom |-> {3}]
Digitizer == [y \in {"top", "middle", "bottom"} |-> {}]

TableRow == [standart |-> [held |-> 2, front |-> All(3), rear |-> All(1)],
             alt_triggers |-> [held |-> 1, front |-> All(3), rear |-> All(2)],
             rear_touchpad |-> [held |-> 2, front |-> UpperLower, rear |-> Digitizer],
             front_touchpad |-> [held |-> 2, front |-> Digitizer, rear |-> UpperLower]]

Sides == [left |-> {"L"}, middle |-> {"L", "R"}, right |-> {"R"}]

\* Below the rectangle of a panel a touch is not held to mean anything.
TouchMeans(areas, place) ==
  IF place[2] = "below" THEN {} ELSE Sides[place[1]] \X areas[place[2]]

Wants(name, report) ==
  LET row == TableRow[name]
      held == {{<<"L", row.held>>} : b \in report.buttons \cap {"lt"}}
                \cup {{<<"R", row.held>>} : b \in report.buttons \cap {"rt"}}
      touched(panel) == {TouchMeans(row[panel], t.place) : t \in ToSet(report.touches[panel])}
  IN  (held \cup touched("front") \cup touched("rear")) \ {{}}

\* Every one of them is shown, by one button it can mean, and nothing else is.
Meets(shown, wants) ==
  shown \subseteq UNION wants /\ \A w \in wants : shown \cap w # {}

-------------------------------------------------------------------------------

\* The buttons that a report and the zones found for its touches ask for.
Pressed(name, report, front, rear) ==
  get_pressed_buttons(report.buttons, Config[name].trigger)
    \cup {front[t].button : t \in DOMAIN front}
    \cup {rear[t].button : t \in DOMAIN rear}

\* What the device makes of a report: the buttons, the direction and the touches of
\* the panel that is a touchpad.
Asks(name, report) ==
  LET source == Config[name].source
  IN  {[config |-> name,
        pressed |-> Pressed(name, report, front, rear),
        hat |-> compute_dpad(report.buttons),
        wants |-> Wants(name, report),
        touches |-> IF source = None THEN << >> ELSE report.touches[source]] :
         front \in ZoneChoices(Config[name].front, report.touches.front),
         rear \in ZoneChoices(Config[name].rear, report.touches.rear)}

AllAsks == UNION {Asks(name, report) : name \in Configs, report \in Report}
===============================================================================
