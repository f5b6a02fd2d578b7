------------------------------ MODULE VitaServer ------------------------------
(***************************************************************************)
(* The server application: its main thread and its network thread over the *)
(* shared data, with the PCs and the Wi-Fi interface as environment.       *)
(***************************************************************************)
EXTENDS NetServer, MainThread

vars == <<sharedVars, envVars, netVars, mainVars>>

TypeOK == ServerTypeOK /\ MainTypeOK

Init == ServerInit /\ MainInit

NetThreadStep == NetThreadNext /\ UNCHANGED mainVars
MainStep == Up /\ MainNext /\ UNCHANGED <<envVars, netVars>>
EnvStep == Up /\ PeersNext /\ UNCHANGED <<netVars, mainVars>>
ClockStep == Up /\ Second /\ UNCHANGED mainVars

Next == NetThreadStep \/ MainStep \/ EnvStep \/ ClockStep

Spec == Init /\ [][Next]_vars

(***************************************************************************)
(* Fairness: the scheduler runs both threads, the clock advances, the      *)
(* network delivers what a PC that has not vanished sends, and a client    *)
(* that may be pushed to is not denied its polling interval for ever.      *)
(***************************************************************************)
Fairness ==
  /\ WF_vars(NetThreadStep)
  /\ WF_vars(MainStep)
  /\ WF_vars(ClockStep)
  /\ \A c \in Clients : WF_vars(Up /\ Arrive(c) /\ UNCHANGED <<netVars, mainVars>>)
  /\ SF_vars(SendPad /\ UNCHANGED mainVars)

FairSpec == Spec /\ Fairness

\* The interface never loses a client: while one is connected the main thread
\* shows a PC or has yet to poll the bit that will make it (net.cpp raises
\* PC_CONNECT once, main.cpp clears the flag on every poll).
NoLostConnect ==
  client # None => pcConnectState \/ "PC_CONNECT" \in evflag

\* The screen does not go on naming an earlier client.  add_client raises
\* PC_CONNECT before client_ip is written, so a frame in between may draw the
\* present client's state with the address of the last one; but the flag is raised
\* once more after the write (net.cpp:262-266), and with the frame that has taken
\* that the screen names the client it has, unless it is switched off.
ScreenNamesClient ==
  mpc = "frame" /\ client # None /\ pc # "publish" /\ "PC_CONNECT" \notin evflag
    => shownIp = client \/ (padMode /\ ~displayOn)

(* What the two rest on.                                                    *)

\* Between the accept and the write, client_ip may be of an earlier client.
PublishedIsClient == client # None /\ pc # "publish" => clientIp = client

\* Nothing is shown before the first poll.
NothingYet == mpc = "start" => ~pcConnectState

\* The events word of the last poll, read again when a poll finds no bits,
\* changes nothing any more.
EventsFollowed ==
  /\ "PC_CONNECT" \in events => pcConnectState
  /\ "PC_DISCONNECT" \in events /\ "PC_CONNECT" \notin events => ~pcConnectState

\* A disconnection that waits to be polled is not of the present client.
DisconnectOverruled ==
  client # None /\ "PC_DISCONNECT" \in evflag => "PC_CONNECT" \in evflag

\* The inductive invariant of both threads, for every number of PCs and every bound
\* (net.cpp, main.cpp:134-197); VitaServerProofs proves it.
IInv ==
  /\ MainTypeOK /\ ServerInv
  /\ EventsFollowed /\ DisconnectOverruled /\ NoLostConnect
  /\ PublishedIsClient /\ NothingYet /\ ScreenNamesClient

-------------------------------------------------------------------------------
(* What the screen says, and is not always so.                              *)

Running == versionOk /\ ~Ended

\* "Status:\nConnected" (draw_helper.cpp:60) is not shown for ever once the
\* last PC is gone.
DisconnectShown == []Running /\ <>[](client = None) => <>[]~pcConnectState
===============================================================================
