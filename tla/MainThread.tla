------------------------------ MODULE MainThread ------------------------------
(***************************************************************************)
(* The main thread of the server (server/src/main.cpp) and the screen part *)
(* of the kernel module it calls (server/module/src/main.c).  Each frame   *)
(* it polls the event flag, follows the buttons that the network thread    *)
(* read, and draws.  Every read of the shared button word is a step of its *)
(* own: the fields are not atomic and the builds load them each time.      *)
(***************************************************************************)
EXTENDS SharedData

VARIABLES
  mpc,                 \* where the main thread is
  versionOk,           \* kctrlVersion() == KCTRL_MODULE_API
  events,              \* the local events word of the last poll
  connectedToNetwork,  \* connected_to_network
  pcConnectState,      \* pc_connect_state
  displayOn,           \* SharedData.display_on, which only this thread uses
  shownIp,             \* history: the PC the screen names, or None
  shellLocked,         \* the PS button and the power menu are locked
  lit,                 \* is the panel on?
  gScreenOff           \* g_screen_off of the kernel module

uiVars == <<events, connectedToNetwork, pcConnectState>>
screenVars == <<displayOn, lit, gScreenOff>>
mainVars == <<mpc, versionOk, uiVars, screenVars, shownIp, shellLocked>>

MainTypeOK ==
  /\ mpc \in {"start", "frame", "cross", "select", "selectStart", "toggle",
              "toggleStart", "draw", "stop", "stopFlag", "join", "done"}
  /\ versionOk \in BOOLEAN
  /\ events \subseteq MainEvent
  /\ connectedToNetwork \in BOOLEAN
  /\ pcConnectState \in BOOLEAN
  /\ displayOn \in BOOLEAN
  /\ shownIp \in Clients \cup {None}
  /\ shellLocked \in BOOLEAN
  /\ lit \in BOOLEAN
  /\ gScreenOff \in BOOLEAN

MainInit ==
  /\ mpc = "start"
  /\ versionOk \in BOOLEAN
  /\ events = {}
  /\ connectedToNetwork = FALSE
  /\ pcConnectState = FALSE
  /\ displayOn = TRUE
  /\ shownIp = None
  /\ shellLocked = FALSE
  /\ lit = TRUE
  /\ gScreenOff = FALSE

-------------------------------------------------------------------------------
\* The network state is tested with & SCE_NETCTL_STATE_CONNECTED, which is 3:
\* CONNECTING (1) and FINALIZING (2) count as connected.
Start ==
  /\ mpc = "start"
  /\ connectedToNetwork' = (netState # "DISCONNECTED")
  /\ mpc' = IF versionOk THEN "frame" ELSE "stop"
  /\ UNCHANGED <<versionOk, events, pcConnectState, screenVars, shownIp, shellLocked,
                 sharedVars>>

\* Mutant of Follow: the disconnection wins.
FollowOff(evs, on, off, old) == IF off \in evs THEN FALSE ELSE IF on \in evs THEN TRUE ELSE old

\* What a frame concludes from two opposite bits: the first one wins.
Follow(evs, on, off, old) == IF on \in evs THEN TRUE ELSE IF off \in evs THEN FALSE ELSE old

\* sceKernelPollEventFlag: when no bit is set it fails, the result is ignored,
\* and events keeps its old bits or is zeroed.
PollEventFlag ==
  /\ mpc = "frame"
  /\ mpc' = "cross"
  /\ evflag' = {}
  /\ events' \in IF evflag # {} THEN {evflag} ELSE {events, {}}
  /\ connectedToNetwork' =
       Follow(events', "NET_CONNECT", "NET_DISCONNECT", connectedToNetwork)
  /\ pcConnectState' = Follow(events', "PC_CONNECT", "PC_DISCONNECT", pcConnectState)
  /\ UNCHANGED <<versionOk, screenVars, shownIp, shellLocked, running, padMode,
                 buttons, clientIp, netState>>

EnterPadMode ==
  /\ mpc = "cross"
  /\ mpc' = "select"
  /\ IF "CROSS" \in buttons /\ ~padMode
     THEN padMode' = TRUE /\ shellLocked' = TRUE
     ELSE UNCHANGED <<padMode, shellLocked>>
  /\ UNCHANGED <<versionOk, uiVars, screenVars, shownIp, evflag, running, buttons,
                 clientIp, netState>>

\* First half of the test SELECT && START && pad_mode.
ReadSelect ==
  /\ mpc = "select"
  /\ mpc' = IF "SELECT" \in buttons THEN "selectStart" ELSE "toggle"
  /\ UNCHANGED <<versionOk, uiVars, screenVars, shownIp, shellLocked, sharedVars>>

\* kctrlScreenOn lights the panel and leaves g_screen_off alone.
kctrlScreenOn == lit' = TRUE

\* Mutant of ExitPadMode: the drawing is not switched on again.
ExitPadModeDark ==
  /\ mpc = "selectStart"
  /\ mpc' = "toggle"
  /\ IF "START" \in buttons /\ padMode
     THEN /\ padMode' = FALSE
          /\ shellLocked' = FALSE
          /\ kctrlScreenOn
     ELSE UNCHANGED <<padMode, shellLocked, lit>>
  /\ UNCHANGED <<versionOk, uiVars, displayOn, gScreenOff, shownIp, evflag, running,
                 buttons, clientIp, netState>>

\* Mutant of ExitPadMode: only with the display on.
ExitPadModeShown ==
  /\ mpc = "selectStart"
  /\ mpc' = "toggle"
  /\ IF "START" \in buttons /\ padMode /\ displayOn
     THEN padMode' = FALSE /\ shellLocked' = FALSE
     ELSE UNCHANGED <<padMode, shellLocked>>
  /\ UNCHANGED <<versionOk, uiVars, screenVars, shownIp, evflag, running, buttons,
                 clientIp, netState>>

ExitPadMode ==
  /\ mpc = "selectStart"
  /\ mpc' = "toggle"
  /\ IF "START" \in buttons /\ padMode
     THEN /\ padMode' = FALSE
          /\ shellLocked' = FALSE
          /\ displayOn' = TRUE
          /\ kctrlScreenOn
     ELSE UNCHANGED <<padMode, shellLocked, displayOn, lit>>
  /\ UNCHANGED <<versionOk, uiVars, gScreenOff, shownIp, evflag, running, buttons,
                 clientIp, netState>>

\* First half of the test UP && START, made in pad mode only.
ReadUp ==
  /\ mpc = "toggle"
  /\ mpc' = IF padMode /\ "UP" \in buttons THEN "toggleStart" ELSE "draw"
  /\ UNCHANGED <<versionOk, uiVars, screenVars, shownIp, shellLocked, sharedVars>>

\* Mutant of kctrlToggleScreen: the flag is not written.
kctrlToggleForgets == lit' = gScreenOff /\ gScreenOff' = gScreenOff

\* kctrlToggleScreen goes by its own flag.
kctrlToggleScreen ==
  /\ lit' = gScreenOff
  /\ gScreenOff' = ~gScreenOff

ToggleScreen ==
  /\ mpc = "toggleStart"
  /\ mpc' = "draw"
  /\ IF "START" \in buttons
     THEN displayOn' = ~displayOn /\ kctrlToggleScreen
     ELSE UNCHANGED screenVars
  /\ UNCHANGED <<versionOk, uiVars, shownIp, shellLocked, sharedVars>>

\* draw_pad_mode is skipped when the display is off; both name the client.
Draw ==
  /\ mpc = "draw"
  /\ mpc' = "frame"
  /\ shownIp' = IF padMode /\ ~displayOn THEN None
                ELSE IF pcConnectState THEN clientIp ELSE None
  /\ UNCHANGED <<versionOk, uiVars, screenVars, shellLocked, sharedVars>>

-------------------------------------------------------------------------------
\* The end of main, reached only with an old kernel module.
StopThreads ==
  /\ mpc = "stop"
  /\ mpc' = "stopFlag"
  /\ running' = FALSE
  /\ UNCHANGED <<versionOk, uiVars, screenVars, shownIp, shellLocked, evflag, padMode,
                 buttons, clientIp, netState>>

FlagNetDisconnect ==
  /\ mpc = "stopFlag"
  /\ mpc' = "join"
  /\ SetEventFlag("NET_DISCONNECT")
  /\ UNCHANGED <<versionOk, uiVars, screenVars, shownIp, shellLocked, running, padMode,
                 buttons, clientIp, netState>>

\* stop_thread of both threads, which goes on when THREAD_TIMEOUT is over whether
\* the thread has ended or not (its delete then fails), and sceNetTerm.
Join ==
  /\ mpc = "join"
  /\ mpc' = "done"
  /\ UNCHANGED <<versionOk, uiVars, screenVars, shownIp, shellLocked, sharedVars>>

Frame ==
  \/ PollEventFlag \/ EnterPadMode \/ ReadSelect \/ ExitPadMode
  \/ ReadUp \/ ToggleScreen \/ Draw

MainNext == Start \/ Frame \/ StopThreads \/ FlagNetDisconnect \/ Join
===============================================================================
