------------------------------ MODULE SharedData ------------------------------
(***************************************************************************)
(* What the threads of the server application share (server/include/       *)
(* events.hpp): the main_event_flag that the workers set and the main      *)
(* thread polls, the SharedData record, the stop request                   *)
(* g_net_thread_running, and the state of the console's network interface, *)
(* which the main thread and the network thread both query.                *)
(***************************************************************************)
EXTENDS Integers, FiniteSets, Sequences

CONSTANTS
  Clients,       \* TCP connection attempts of PCs, each made once
  None,          \* "no client": an empty optional, an address never written
  ButtonStates,  \* the sets of buttons the user may be holding
  NetStart       \* the states the network interface may start in

Button == {"CROSS", "SELECT", "START", "UP"}

NetCtlState == {"DISCONNECTED", "CONNECTING", "FINALIZING", "CONNECTED"}

ASSUME NoneAssumption == None \notin Clients
ASSUME ButtonAssumption == ButtonStates \subseteq SUBSET Button
ASSUME NetStartAssumption == NetStart \subseteq NetCtlState

NetThreadEvents == {"PC_DISCONNECT", "PC_CONNECT", "NET_CONNECT", "NET_DISCONNECT"}
StatusThreadEvents == {"BATTERY_LEVEL", "STATUS_CHARGER", "WIFI_SIGNAL"}
MainEvent == NetThreadEvents \cup StatusThreadEvents


VARIABLES
  evflag,    \* main_event_flag: the set of MainEvent bits that are set
  running,   \* g_net_thread_running
  padMode,   \* SharedData.pad_mode
  buttons,   \* SharedData.pad_data.buttons
  clientIp,  \* SharedData.client_ip
  netState   \* sceNetCtlInetGetState

sharedVars == <<evflag, running, padMode, buttons, clientIp, netState>>

SharedTypeOK ==
  /\ evflag \subseteq MainEvent
  /\ running \in BOOLEAN
  /\ padMode \in BOOLEAN
  /\ buttons \in ButtonStates
  /\ clientIp \in Clients \cup {None}
  /\ netState \in NetCtlState

SharedInit ==
  /\ evflag = {}
  /\ running = TRUE
  /\ padMode = FALSE
  /\ buttons \in ButtonStates
  /\ clientIp = None
  /\ netState \in NetStart

SetEventFlag(bit) == evflag' = evflag \cup {bit}
===============================================================================
