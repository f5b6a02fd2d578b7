-------------------------------- MODULE Devices --------------------------------
(***************************************************************************)
(* The virtual devices of both platforms on the same reports.              *)
(***************************************************************************)
EXTENDS VirtualDevice, WindowsDevice

devicesVars == <<deviceVars, windowsVars>>

DevicesTypeOK == DeviceTypeOK /\ WindowsTypeOK

DevicesInit == DeviceInit /\ WindowsInit

\* Each makes of a report what the other does: the zones are searched alike.
BothReport ==
  \E ask \in AllAsks : SendReport(ask) /\ send_report(ask)

DevicesNext ==
  \/ BothReport
  \/ (WriteTouches \/ WriteFails) /\ UNCHANGED windowsVars
  \/ dpc = "idle" /\ TimePasses /\ UNCHANGED deviceVars

DevicesSpec == DevicesInit /\ [][DevicesNext]_devicesVars

\* What programs take the keys and the bits of the shoulders, the triggers and the
\* sticks for: L1 is the upper left one, L2 the lower.
LinuxName ==
  [BTN_TL |-> <<"L", 1>>, BTN_TR |-> <<"R", 1>>, BTN_TL2 |-> <<"L", 2>>, BTN_TR2 |-> <<"R", 2>>,
   BTN_THUMBL |-> <<"L", 3>>, BTN_THUMBR |-> <<"R", 3>>]

WindowsName ==
  [b \in {8, 9, 10, 11, 14, 15} |->
     CASE b = 8 -> <<"L", 1>> [] b = 9 -> <<"R", 1>> [] b = 10 -> <<"L", 2>>
       [] b = 11 -> <<"R", 2>> [] b = 14 -> <<"L", 3>> [] b = 15 -> <<"R", 3>>]

OnLinux == {LinuxName[k] : k \in keys \cap DOMAIN LinuxName}
OnWindows == {WindowsName[b] : b \in ds4.word \cap DOMAIN WindowsName}

\* 1 and 2 change places.
Exchanged(shown) ==
  {<<b[1], IF b[2] = 1 THEN 2 ELSE IF b[2] = 2 THEN 1 ELSE b[2]>> : b \in shown}

\* The table of README.md:118-123 is what happens on Windows, in every configuration and
\* for any touches, also on the border of two zones.  On Linux it is what happens with
\* L1 and L2, and R1 and R2, exchanged (linux.rs:57-60).  The direction is the same on both,
\* but that on Windows the PS button is or-ed into it (windows.rs:93): it turns North to
\* NorthEast and no direction to none of the nine.
AsTabled ==
  /\ Meets(OnWindows, asked.wants)
  /\ Meets(Exchanged(OnLinux), asked.wants)
  /\ ds4.word \cap 0 .. 3 = dpad_to_ds4(hat) \cup {0 : k \in keys \cap {"BTN_MODE"}}
===============================================================================
