------------------------------ MODULE StatusThread ----------------------------
(***************************************************************************)
(* The status thread (server/src/status.cpp): once a second it compares    *)
(* the battery level, the charger and the Wi-Fi signal with what it last   *)
(* saw, and on a change stores the new value and raises its flag.  main    *)
(* stores the first values of two of them before it starts the thread      *)
(* (main.cpp:84-101), and the thread reads its own first value of one.     *)
(***************************************************************************)
EXTENDS SharedData

CONSTANTS
  Levels,      \* battery levels and signal strengths, 0 among them
  MaxReadings  \* bound: changes of the hardware's values

ASSUME StatusAssumption == Levels \subseteq Nat /\ 0 \in Levels /\ MaxReadings \in Nat

VARIABLES
  spc,        \* where main's start-up, then the thread, is
  hardware,   \* what the system calls return
  status,     \* battery_level, charger_connected, wifi_signal_strength
  previous,   \* the thread's previous_* variables
  readings,   \* number of changes of the hardware so far (bound)
  missed      \* history: the charger changed between main's reading and the thread's,
              \* an odd number of times, and the thread has seen no change of it since

statusVars == <<sharedVars, spc, hardware, status, previous, readings, missed>>

\* The charger is 1 when it is connected.
Values(e) == IF e = "STATUS_CHARGER" THEN {0, 1} ELSE Levels
Readings == {h \in [StatusThreadEvents -> Levels \cup {0, 1}] :
               \A e \in StatusThreadEvents : h[e] \in Values(e)}

Step == {"main", "create", "BATTERY_LEVEL", "STATUS_CHARGER", "WIFI_SIGNAL", "sleep",
         "exited"}

StatusTypeOK ==
  /\ evflag \subseteq MainEvent
  /\ spc \in Step
  /\ readings \in 0 .. MaxReadings
  /\ hardware \in Readings /\ status \in Readings /\ previous \in Readings
  /\ missed \in BOOLEAN

StatusInit ==
  /\ SharedInit
  /\ spc = "main"
  /\ hardware \in Readings
  /\ status = [e \in StatusThreadEvents |-> 0]
  /\ previous = [e \in StatusThreadEvents |-> 0]
  /\ readings = 0
  /\ missed = FALSE

\* The battery, the charger or the signal changes.
HardwareChanges ==
  /\ readings < MaxReadings
  /\ readings' = readings + 1
  /\ \E e \in StatusThreadEvents, v \in Levels \cup {0, 1} :
       /\ v \in Values(e) \ {hardware[e]}
       /\ hardware' = [hardware EXCEPT ![e] = v]
       /\ missed' = IF spc = "create" /\ e = "STATUS_CHARGER" THEN ~missed ELSE missed
  /\ UNCHANGED <<spc, status, previous, sharedVars>>

\* main reads the battery and the charger into the shared data.
MainReads ==
  /\ spc = "main"
  /\ spc' = "create"
  /\ status' = [status EXCEPT !["BATTERY_LEVEL"] = hardware["BATTERY_LEVEL"],
                              !["STATUS_CHARGER"] = hardware["STATUS_CHARGER"]]
  /\ UNCHANGED <<hardware, previous, readings, missed, sharedVars>>

\* Mutant of ThreadStarts: no first value is read.
ThreadStartsBlank ==
  /\ spc = "create"
  /\ spc' = IF running THEN "BATTERY_LEVEL" ELSE "exited"
  /\ UNCHANGED <<hardware, status, previous, readings, missed, sharedVars>>

\* Mutant of ThreadStarts: it takes all its first values from the hardware.
ThreadStartsReading ==
  /\ spc = "create"
  /\ spc' = IF running THEN "BATTERY_LEVEL" ELSE "exited"
  /\ previous' = hardware
  /\ UNCHANGED <<hardware, status, readings, missed, sharedVars>>

\* The thread starts, if main has not stopped it yet; only the charger's previous
\* value is read.
ThreadStarts ==
  /\ spc = "create"
  /\ spc' = IF running THEN "BATTERY_LEVEL" ELSE "exited"
  /\ previous' = [previous EXCEPT !["STATUS_CHARGER"] = hardware["STATUS_CHARGER"]]
  /\ UNCHANGED <<hardware, status, readings, missed, sharedVars>>

Following == [s \in StatusThreadEvents |->
  CASE s = "BATTERY_LEVEL" -> "STATUS_CHARGER"
    [] s = "STATUS_CHARGER" -> "WIFI_SIGNAL"
    [] s = "WIFI_SIGNAL" -> "sleep"]

\* One of the three blocks of the loop.
Update(e) ==
  /\ spc = e
  /\ spc' = Following[e]
  /\ IF hardware[e] # previous[e]
     THEN /\ previous' = [previous EXCEPT ![e] = hardware[e]]
          /\ status' = [status EXCEPT ![e] = hardware[e]]
          /\ SetEventFlag(e)
          /\ missed' = IF e = "STATUS_CHARGER" THEN FALSE ELSE missed
     ELSE UNCHANGED <<previous, status, evflag, missed>>
  /\ UNCHANGED <<hardware, readings, running, padMode, buttons, clientIp, netState>>

\* Once more, unless g_status_thread_running was cleared meanwhile.
Sleep ==
  /\ spc = "sleep"
  /\ spc' = IF running THEN "BATTERY_LEVEL" ELSE "exited"
  /\ UNCHANGED <<hardware, status, previous, readings, missed, sharedVars>>

\* The main thread takes the flags.
TakeFlags ==
  /\ evflag' = {}
  /\ UNCHANGED <<spc, hardware, status, previous, readings, missed, running, padMode, buttons,
                 clientIp, netState>>

\* main clears g_status_thread_running.
StopStatusThread ==
  /\ running' = FALSE
  /\ UNCHANGED <<spc, hardware, status, previous, readings, missed, evflag, padMode, buttons,
                 clientIp, netState>>

ThreadStep == MainReads \/ ThreadStarts \/ (\E e \in StatusThreadEvents : Update(e)) \/ Sleep

StatusNext == ThreadStep \/ HardwareChanges \/ TakeFlags \/ StopStatusThread

StatusSpec == StatusInit /\ [][StatusNext]_statusVars

\* The scheduler runs main's start-up and the thread.
FairStatusSpec == StatusSpec /\ WF_statusVars(ThreadStep)

-------------------------------------------------------------------------------
\* What is shown is what the thread compares with, or a first value that only main
\* has read: the battery's while the thread has seen it empty only, and the charger's
\* if that changed between main's reading and the thread's and not since; then the
\* screen shows the opposite of what the thread takes for shown (status.cpp:13-29).
ShownIsCompared ==
  /\ status["WIFI_SIGNAL"] = previous["WIFI_SIGNAL"]
  /\ spc = "main" => ~missed
  /\ spc = "create" => (missed <=> status["STATUS_CHARGER"] # hardware["STATUS_CHARGER"])
  /\ spc \notin {"main", "create"} =>
       (missed <=> status["STATUS_CHARGER"] # previous["STATUS_CHARGER"])
  /\ spc \in {"main", "create"} => previous["BATTERY_LEVEL"] = 0
  /\ previous["BATTERY_LEVEL"] # 0 => status["BATTERY_LEVEL"] = previous["BATTERY_LEVEL"]

\* The inductive invariant; ConsoleProofs proves it.
StatusInv == StatusTypeOK /\ ShownIsCompared

Settles(e, v) == []running /\ <>[](hardware[e] = v) => <>[](status[e] = v)

\* A value that stays comes to be shown, if the thread could tell it from the
\* first one it compares with: always for the signal, for the battery unless it is
\* empty, and for the charger unless it changed between main's reading and the
\* thread's and never again (status.cpp:13-29, 31-40 and 42-58).
StatusFollows ==
  /\ \A v \in Levels : Settles("WIFI_SIGNAL", v)
  /\ \A v \in Levels \ {0} : Settles("BATTERY_LEVEL", v)
  /\ \A v \in {0, 1} : Settles("STATUS_CHARGER", v) \/ <>[]missed
===============================================================================
