---------------------------- MODULE ConsoleProofs -----------------------------
(***************************************************************************)
(* What the console shows its user.  It is usable outside pad mode, and    *)
(* its toggle works or does not as the two flags of the display agree or   *)
(* not, for any sets of buttons and any network events, although the       *)
(* buttons may change between any two reads.  And the status values are    *)
(* those that the status thread compares with, but for a charger that was  *)
(* toggled before the thread began, for any readings of the hardware.      *)
(***************************************************************************)
EXTENDS Console, StatusThread, TLAPS

\* The lock follows pad mode; outside it everything is on; and where the two flags of the
\* display agree, the panel is lit exactly when something is drawn on it.
ScreenInv ==
  /\ padMode \in BOOLEAN /\ displayOn \in BOOLEAN /\ lit \in BOOLEAN
  /\ shellLocked \in BOOLEAN /\ gScreenOff \in BOOLEAN
  /\ shellLocked = padMode
  /\ ~padMode => lit /\ displayOn
  /\ ~Inverted => lit = displayOn
  /\ mpc = "toggleStart" => padMode

LEMMA ScreenInit == ConsoleInit => ScreenInv
  BY DEF ConsoleInit, SharedInit, MainInit, ScreenInv, Inverted

\* What an action leaves alone as far as the screen goes.
LEMMA ScreenKept ==
  ASSUME ScreenInv, UNCHANGED <<padMode, displayOn, lit, shellLocked, gScreenOff>>,
         mpc' = "toggleStart" => padMode \/ mpc = "toggleStart"
  PROVE  ScreenInv'
  BY DEF ScreenInv, Inverted

LEMMA ScreenStep == ScreenInv /\ [ConsoleNext]_consoleVars => ScreenInv'
<1> SUFFICES ASSUME ScreenInv, [ConsoleNext]_consoleVars PROVE ScreenInv'
  OBVIOUS
<1> USE DEF sharedVars, uiVars, screenVars
<1>1. CASE Start
  BY <1>1, ScreenKept DEF Start
<1>2. CASE PollEventFlag
  BY <1>2, ScreenKept DEF PollEventFlag
<1>3. CASE EnterPadMode
  BY <1>3 DEF EnterPadMode, ScreenInv, Inverted
<1>4. CASE ReadSelect
  BY <1>4, ScreenKept DEF ReadSelect
<1>5. CASE ExitPadMode
  BY <1>5 DEF ExitPadMode, kctrlScreenOn, ScreenInv, Inverted
<1>6. CASE ReadUp
  BY <1>6, ScreenKept DEF ReadUp
<1>7. CASE ToggleScreen
  BY <1>7 DEF ToggleScreen, kctrlToggleScreen, ScreenInv, Inverted
<1>8. CASE Draw
  BY <1>8, ScreenKept DEF Draw
<1>9. CASE StopThreads
  BY <1>9, ScreenKept DEF StopThreads
<1>10. CASE FlagNetDisconnect
  BY <1>10, ScreenKept DEF FlagNetDisconnect
<1>11. CASE Join
  BY <1>11, ScreenKept DEF Join
<1>12. CASE Press
  BY <1>12, ScreenKept DEF Press, mainVars
<1>13. CASE UNCHANGED consoleVars
  BY <1>13, ScreenKept DEF consoleVars, mainVars
<1>14. QED
  BY <1>1, <1>2, <1>3, <1>4, <1>5, <1>6, <1>7, <1>8, <1>9, <1>10, <1>11, <1>12, <1>13
     DEF ConsoleNext, MainNext, Frame

\* Pad mode, lock, panel and flags agree in every reachable state (main.cpp:155-178,
\* module main.c:27-65).
THEOREM Invariance == ConsoleSpec => []ScreenInv
  BY ScreenInit, ScreenStep, PTL DEF ConsoleSpec

\* Outside pad mode the panel is lit, the start screen drawn and the PS button works.
THEOREM ConsoleGivenBack == ConsoleSpec => []StartModeUsable
<1>1. ScreenInv => StartModeUsable
  BY DEF ScreenInv, StartModeUsable
<1>2. QED
  BY Invariance, <1>1, PTL

\* What one step does to the picture and to the agreement of the flags.
ToggleStep ==
  /\ mpc = "toggleStart" /\ mpc' = "draw" /\ "START" \in buttons
       => IF Inverted THEN ~Picture' ELSE Picture' = ~Picture
  /\ Inverted' # Inverted <=> padMode /\ ~padMode' /\ ~displayOn

LEMMA FlagsKept ==
  ASSUME UNCHANGED <<padMode, displayOn, gScreenOff>>,
         ~(mpc = "toggleStart" /\ mpc' = "draw")
  PROVE  ToggleStep
  BY DEF ToggleStep, Inverted

LEMMA ToggleSteps == ScreenInv /\ [ConsoleNext]_consoleVars => [ToggleStep]_consoleVars
<1> SUFFICES ASSUME ScreenInv, ConsoleNext PROVE ToggleStep
  OBVIOUS
<1> USE DEF sharedVars, uiVars, screenVars
<1>1. CASE Start
  BY <1>1, FlagsKept DEF Start
<1>2. CASE PollEventFlag
  BY <1>2, FlagsKept DEF PollEventFlag
<1>3. CASE EnterPadMode
  BY <1>3 DEF EnterPadMode, ScreenInv, ToggleStep, Inverted
<1>4. CASE ReadSelect
  BY <1>4, FlagsKept DEF ReadSelect
<1>5. CASE ExitPadMode
  <2>1. mpc = "selectStart" /\ mpc' # "draw" /\ gScreenOff' = gScreenOff
    BY <1>5 DEF ExitPadMode
  <2>2. CASE "START" \in buttons /\ padMode
    <3>1. padMode /\ ~padMode' /\ displayOn' = TRUE
      BY <1>5, <2>2 DEF ExitPadMode
    <3>2. CASE displayOn
      BY <2>1, <3>1, <3>2 DEF ScreenInv, ToggleStep, Inverted
    <3>3. CASE ~displayOn
      BY <2>1, <3>1, <3>3 DEF ScreenInv, ToggleStep, Inverted
    <3>4. QED
      BY <3>2, <3>3
  <2>3. CASE ~("START" \in buttons /\ padMode)
    BY <1>5, <2>1, <2>3, FlagsKept DEF ExitPadMode
  <2>4. QED
    BY <2>2, <2>3
<1>6. CASE ReadUp
  BY <1>6, FlagsKept DEF ReadUp
<1>7. CASE ToggleScreen
  BY <1>7 DEF ToggleScreen, kctrlToggleScreen, ScreenInv, ToggleStep, Inverted, Picture
<1>8. CASE Draw
  BY <1>8, FlagsKept DEF Draw
<1>9. CASE StopThreads
  BY <1>9, FlagsKept DEF StopThreads
<1>10. CASE FlagNetDisconnect
  BY <1>10, FlagsKept DEF FlagNetDisconnect
<1>11. CASE Join
  BY <1>11, FlagsKept DEF Join
<1>12. CASE Press
  BY <1>12, FlagsKept DEF Press, mainVars
<1>13. QED
  BY <1>1, <1>2, <1>3, <1>4, <1>5, <1>6, <1>7, <1>8, <1>9, <1>10, <1>11, <1>12
     DEF ConsoleNext, MainNext, Frame

\* When a toggle turns the picture on or off, when it does not, and what makes the
\* difference (main.cpp:170-178, module main.c:57-65).
THEOREM PictureToggled == ConsoleSpec => TogglesScreen
<1>1. ScreenInv /\ [ConsoleNext]_consoleVars => [ToggleStep]_consoleVars
  BY ToggleSteps
<1>2. [][ToggleStep]_consoleVars => TogglesScreen
  BY PTL DEF TogglesScreen, ToggleStep
<1>3. QED
  BY Invariance, <1>1, <1>2, PTL DEF ConsoleSpec

-------------------------------------------------------------------------------
(* The status thread.                                                       *)

LEMMA StatusInitInv == StatusInit => StatusTypeOK /\ ShownIsCompared
<1> SUFFICES ASSUME StatusInit PROVE StatusTypeOK /\ ShownIsCompared
  OBVIOUS
<1>1. [e \in StatusThreadEvents |-> 0] \in Readings
  BY StatusAssumption DEF Readings, Values
<1>2. StatusTypeOK
  <2>1. missed \in BOOLEAN
    BY DEF StatusInit
  <2>2. /\ evflag \subseteq MainEvent /\ spc \in Step /\ readings \in 0 .. MaxReadings
        /\ hardware \in Readings /\ status \in Readings /\ previous \in Readings
    BY <1>1, StatusAssumption DEF StatusInit, SharedInit, Step
  <2> QED
    BY <2>1, <2>2 DEF StatusTypeOK
<1>3. spc = "main" /\ ~missed
  BY DEF StatusInit
<1>4. ShownIsCompared
  BY <1>3 DEF StatusInit, ShownIsCompared, StatusThreadEvents
<1> QED
  BY <1>2, <1>4

\* A reading with one value replaced.
LEMMA ReadingReplaced ==
  ASSUME NEW h \in Readings, NEW e \in StatusThreadEvents, NEW v \in Values(e)
  PROVE  [h EXCEPT ![e] = v] \in Readings
BY StatusAssumption DEF Readings, Values

LEMMA StatusStep ==
  StatusTypeOK /\ ShownIsCompared /\ [StatusNext]_statusVars
    => (StatusTypeOK /\ ShownIsCompared)'
<1> SUFFICES ASSUME StatusTypeOK, ShownIsCompared, [StatusNext]_statusVars
             PROVE  (StatusTypeOK /\ ShownIsCompared)'
  OBVIOUS
<1> USE DEF StatusTypeOK, sharedVars
<1>0. \A h \in Readings : /\ DOMAIN h = StatusThreadEvents
                          /\ \A e \in StatusThreadEvents : h[e] \in Values(e)
  BY DEF Readings
<1>1. CASE HardwareChanges
  <2>1. PICK e \in StatusThreadEvents, v \in Levels \cup {0, 1} :
          /\ v \in Values(e) \ {hardware[e]}
          /\ hardware' = [hardware EXCEPT ![e] = v]
          /\ missed' = IF spc = "create" /\ e = "STATUS_CHARGER" THEN ~missed ELSE missed
    BY <1>1 DEF HardwareChanges
  <2>2. hardware' \in Readings
    BY <2>1, ReadingReplaced
  <2>3. UNCHANGED <<spc, status, previous, evflag>> /\ readings' \in 0 .. MaxReadings
    BY <1>1, StatusAssumption DEF HardwareChanges
  <2>4. missed' \in BOOLEAN
    BY <2>1
  <2>5. CASE spc = "create" /\ e = "STATUS_CHARGER"
    <3>1. hardware'["STATUS_CHARGER"] = v /\ v # hardware["STATUS_CHARGER"]
      BY <1>0, <2>1, <2>5
    <3>2. {v, hardware["STATUS_CHARGER"], status["STATUS_CHARGER"]} \subseteq {0, 1}
      BY <1>0, <2>1, <2>5 DEF Values, StatusThreadEvents
    <3>3. missed <=> status["STATUS_CHARGER"] # hardware["STATUS_CHARGER"]
      BY <2>5 DEF ShownIsCompared
    <3>4. missed' <=> ~missed
      BY <2>1, <2>5
    <3>5. status["STATUS_CHARGER"] # v <=> status["STATUS_CHARGER"] = hardware["STATUS_CHARGER"]
      BY <3>1, <3>2
    <3>6. missed' <=> status["STATUS_CHARGER"] # hardware'["STATUS_CHARGER"]
      BY <3>1, <3>3, <3>4, <3>5
    <3> QED
      BY <2>2, <2>3, <2>4, <2>5, <3>6 DEF ShownIsCompared
  <2>6. CASE ~(spc = "create" /\ e = "STATUS_CHARGER")
    <3>1. missed' = missed
      BY <2>1, <2>6
    <3>2. spc = "create" => hardware'["STATUS_CHARGER"] = hardware["STATUS_CHARGER"]
      BY <1>0, <2>1, <2>6 DEF StatusThreadEvents
    <3> QED
      BY <2>2, <2>3, <2>4, <3>1, <3>2 DEF ShownIsCompared
  <2> QED
    BY <2>5, <2>6
<1>2. CASE MainReads
  <2> DEFINE first == [status EXCEPT !["BATTERY_LEVEL"] = hardware["BATTERY_LEVEL"]]
  <2>1. first \in Readings
    BY <1>0, ReadingReplaced DEF StatusThreadEvents
  <2>2. status' = [first EXCEPT !["STATUS_CHARGER"] = hardware["STATUS_CHARGER"]]
    BY <1>2 DEF MainReads
  <2>3. status' \in Readings
    BY <1>0, <2>1, <2>2, ReadingReplaced DEF StatusThreadEvents
  <2>4. /\ status'["WIFI_SIGNAL"] = status["WIFI_SIGNAL"]
        /\ status'["STATUS_CHARGER"] = hardware["STATUS_CHARGER"]
    BY <1>0, <2>2 DEF StatusThreadEvents
  <2>5. /\ spc = "main" /\ spc' = "create" /\ missed' = missed
        /\ UNCHANGED <<hardware, previous, readings, evflag>>
    BY <1>2 DEF MainReads
  <2>6. ~missed
    BY <2>5 DEF ShownIsCompared
  <2> QED
    BY <2>3, <2>4, <2>5, <2>6 DEF ShownIsCompared, Step
<1>3. CASE ThreadStarts
  <2>1. previous' \in Readings
    BY <1>0, <1>3, ReadingReplaced DEF ThreadStarts, StatusThreadEvents
  <2>2. /\ spc' \in Step /\ spc' \notin {"main", "create"}
        /\ UNCHANGED <<hardware, status, readings, evflag, missed>>
    BY <1>3 DEF ThreadStarts, Step
  <2>3. ShownIsCompared'
    <3>1. /\ previous'["STATUS_CHARGER"] = hardware["STATUS_CHARGER"]
          /\ previous'["WIFI_SIGNAL"] = previous["WIFI_SIGNAL"]
          /\ previous'["BATTERY_LEVEL"] = previous["BATTERY_LEVEL"]
      BY <1>0, <1>3 DEF ThreadStarts, StatusThreadEvents
    <3>2. spc = "create" /\ missed' = missed
      BY <1>3 DEF ThreadStarts
    <3> QED
      BY <2>2, <3>1, <3>2 DEF ShownIsCompared
  <2> QED
    BY <2>1, <2>2, <2>3
<1>4. ASSUME NEW e \in StatusThreadEvents, Update(e)
      PROVE  (StatusTypeOK /\ ShownIsCompared)'
  <2>1. spc' \in Step /\ spc' \notin {"main", "create"}
    BY <1>4 DEF Update, Following, StatusThreadEvents, Step
  <2>2. evflag' \subseteq MainEvent
    BY <1>4 DEF Update, SetEventFlag, MainEvent
  <2>3. CASE hardware[e] # previous[e]
    <3>1. /\ previous' = [previous EXCEPT ![e] = hardware[e]]
          /\ status' = [status EXCEPT ![e] = hardware[e]]
      BY <1>4, <2>3 DEF Update
    <3>2. previous' \in Readings /\ status' \in Readings
      BY <1>0, <3>1, ReadingReplaced
    <3>3. spc = e /\ UNCHANGED <<hardware, readings>>
      BY <1>4 DEF Update
    <3>4. missed' = IF e = "STATUS_CHARGER" THEN FALSE ELSE missed
      BY <1>4, <2>3 DEF Update
    <3>5. /\ status'[e] = previous'[e]
          /\ \A f \in StatusThreadEvents \ {e} :
               status'[f] = status[f] /\ previous'[f] = previous[f]
      BY <1>0, <3>1
    <3>6. spc \notin {"main", "create"}
      BY <3>3 DEF StatusThreadEvents
    <3>7. missed' <=> status'["STATUS_CHARGER"] # previous'["STATUS_CHARGER"]
      <4>1. CASE e = "STATUS_CHARGER"
        BY <3>4, <3>5, <4>1
      <4>2. CASE e # "STATUS_CHARGER"
        <5>1. /\ status'["STATUS_CHARGER"] = status["STATUS_CHARGER"]
              /\ previous'["STATUS_CHARGER"] = previous["STATUS_CHARGER"]
          BY <3>5, <4>2 DEF StatusThreadEvents
        <5> QED
          BY <3>4, <3>6, <4>2, <5>1 DEF ShownIsCompared
      <4> QED
        BY <4>1, <4>2
    <3>8. ShownIsCompared'
      BY <2>1, <3>5, <3>7 DEF ShownIsCompared, StatusThreadEvents
    <3>9. missed' \in BOOLEAN
      BY <3>4
    <3> QED
      BY <2>1, <2>2, <3>2, <3>3, <3>8, <3>9
  <2>4. CASE hardware[e] = previous[e]
    <3>1. UNCHANGED <<hardware, readings, previous, status, missed, evflag>> /\ spc = e
      BY <1>4, <2>4 DEF Update
    <3>2. spc \notin {"main", "create"}
      BY <3>1 DEF StatusThreadEvents
    <3> QED
      BY <2>1, <3>1, <3>2 DEF ShownIsCompared
  <2> QED
    BY <2>3, <2>4
<1>5. CASE Sleep
  BY <1>5 DEF Sleep, ShownIsCompared, Step
<1>6. CASE TakeFlags \/ StopStatusThread
  BY <1>6 DEF TakeFlags, StopStatusThread, ShownIsCompared
<1>7. CASE UNCHANGED statusVars
  BY <1>7 DEF statusVars, ShownIsCompared
<1> QED
  BY <1>1, <1>2, <1>3, <1>4, <1>5, <1>6, <1>7 DEF StatusNext, ThreadStep

\* What is shown and what is compared agree, but for a charger that changed between the
\* two first readings of it, whenever the hardware changes and whenever main stops the
\* thread.
THEOREM StatusInvariance == StatusSpec => []StatusInv
BY StatusInitInv, StatusStep, PTL DEF StatusSpec, StatusInv

\* Every value stored is one the hardware can have, each in its own field.
THEOREM StatusTypes == StatusSpec => []StatusTypeOK
<1>1. StatusInv => StatusTypeOK
  BY DEF StatusInv
<1> QED
  BY <1>1, StatusInvariance, PTL
===============================================================================
