-------------------------------- MODULE Console -------------------------------
(***************************************************************************)
(* The main thread in front of its user: any buttons, changed at any       *)
(* moment, also between two reads that one condition makes of them.  The   *)
(* network thread only copies the buttons here.                            *)
(***************************************************************************)
EXTENDS MainThread

consoleVars == <<sharedVars, mainVars>>

ConsoleTypeOK == SharedTypeOK /\ MainTypeOK

ConsoleInit == SharedInit /\ MainInit

\* get_ctrl in the network thread stores what the user holds (net.cpp:210-211).
Press ==
  /\ running
  /\ buttons' \in ButtonStates
  /\ UNCHANGED <<evflag, running, padMode, clientIp, netState, mainVars>>

ConsoleNext == MainNext \/ Press

ConsoleSpec == ConsoleInit /\ [][ConsoleNext]_consoleVars

FairConsoleSpec == ConsoleSpec /\ WF_consoleVars(MainNext)

-------------------------------------------------------------------------------
\* Outside pad mode the user has the console back: the panel is lit, the start
\* screen is drawn and the PS button works, whatever was toggled in pad mode and
\* in whatever order the keys were seen (main.cpp:155-178, module main.c:27-65).
StartModeUsable ==
  mpc \in {"frame", "cross", "select", "toggle", "draw"} /\ ~padMode
    => lit /\ displayOn /\ ~shellLocked

\* What the user sees is what is drawn, on a panel that is lit.
Picture == lit /\ displayOn

\* The kernel module's flag and the program's say the opposite of each other.
Inverted == gScreenOff = displayOn

\* "START + DPAD UP in Pad mode => Toggle screen On/Off" (draw_helper.cpp:47), and when
\* not: a toggle turns the picture on or off as long as the two flags agree.  They part
\* when pad mode is left with the picture off, since kctrlScreenOn lights the panel
\* and leaves g_screen_off set (module main.c:27-40); from then on a toggle gives a lit
\* black screen or a dark panel and never the picture, until pad mode is left with
\* display_on off once more.
TogglesScreen ==
  [][/\ mpc = "toggleStart" /\ mpc' = "draw" /\ "START" \in buttons
          => IF Inverted THEN ~Picture' ELSE Picture' = ~Picture
     /\ Inverted' # Inverted <=> padMode /\ ~padMode' /\ ~displayOn]_consoleVars

\* A held exit chord ends pad mode for good (main.cpp:162-170).
ChordExits ==
  <>[]({"SELECT", "START"} \subseteq buttons /\ "CROSS" \notin buttons)
    => <>[](mpc = "draw" => ~padMode)
===============================================================================
