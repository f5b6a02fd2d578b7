--------------------------- MODULE VitaServerProofs ---------------------------
(***************************************************************************)
(* Proofs about VitaServer, for every set of PCs and every bound.  Its main*)
(* thread is one of those that OpenSpec lets do anything with the shared   *)
(* data, so what NetServerProofs and SessionProofs say of the network      *)
(* thread holds of the whole; what the two threads owe each other is here. *)
(***************************************************************************)
EXTENDS VitaServer, SessionProofs

USE DEF sharedVars, peerVars, netctlVars, envVars, sessionVars, loopVars, netVars,
        uiVars, screenVars, mainVars

LEMMA MainInitType == MainInit => MainTypeOK
BY DEF MainInit, MainTypeOK

LEMMA MainSharedType ==
  ASSUME SharedTypeOK, MainStep PROVE SharedTypeOK'
<1>1. CASE PollEventFlag
  BY <1>1 DEF PollEventFlag, SharedTypeOK
<1>2. CASE EnterPadMode
  BY <1>2 DEF EnterPadMode, SharedTypeOK
<1>3. CASE ExitPadMode
  BY <1>3 DEF ExitPadMode, SharedTypeOK
<1>4. CASE StopThreads
  BY <1>4 DEF StopThreads, SharedTypeOK
<1>5. CASE FlagNetDisconnect
  BY <1>5 DEF FlagNetDisconnect, SetEventFlag, MainEvent, NetThreadEvents, SharedTypeOK
<1>6. CASE Start \/ ReadSelect \/ ReadUp \/ ToggleScreen \/ Draw \/ Join
  <2>1. UNCHANGED sharedVars
    BY <1>6 DEF Start, ReadSelect, ReadUp, ToggleScreen, Draw, Join
  <2> QED
    BY <2>1 DEF SharedTypeOK
<1> QED
  BY <1>1, <1>2, <1>3, <1>4, <1>5, <1>6 DEF MainStep, MainNext, Frame

LEMMA MainThreadType ==
  ASSUME SharedTypeOK, MainTypeOK, MainStep PROVE MainTypeOK'
<1>1. CASE Start
  BY <1>1 DEF Start, MainTypeOK
<1>2. CASE PollEventFlag
  <2>1. events' \subseteq MainEvent
    BY <1>2 DEF PollEventFlag, SharedTypeOK, MainTypeOK
  <2>2. connectedToNetwork' \in BOOLEAN
    BY <1>2 DEF PollEventFlag, Follow, MainTypeOK
  <2>3. pcConnectState' \in BOOLEAN
    BY <1>2 DEF PollEventFlag, Follow, MainTypeOK
  <2>4. UNCHANGED <<versionOk, screenVars, shownIp, shellLocked>> /\ mpc' = "cross"
    BY <1>2 DEF PollEventFlag
  <2> QED
    BY <2>1, <2>2, <2>3, <2>4 DEF MainTypeOK
<1>3. CASE EnterPadMode
  BY <1>3 DEF EnterPadMode, MainTypeOK
<1>4. CASE ReadSelect \/ ReadUp
  BY <1>4 DEF ReadSelect, ReadUp, MainTypeOK
<1>5. CASE ExitPadMode
  BY <1>5 DEF ExitPadMode, kctrlScreenOn, MainTypeOK
<1>6. CASE ToggleScreen
  <2>1. displayOn' \in BOOLEAN /\ lit' \in BOOLEAN /\ gScreenOff' \in BOOLEAN
    BY <1>6 DEF ToggleScreen, kctrlToggleScreen, MainTypeOK
  <2>2. UNCHANGED <<versionOk, uiVars, shownIp, shellLocked>> /\ mpc' = "draw"
    BY <1>6 DEF ToggleScreen
  <2> QED
    BY <2>1, <2>2 DEF MainTypeOK
<1>7. CASE Draw
  BY <1>7 DEF Draw, SharedTypeOK, MainTypeOK
<1>8. CASE StopThreads \/ FlagNetDisconnect \/ Join
  BY <1>8 DEF StopThreads, FlagNetDisconnect, Join, MainTypeOK
<1> QED
  BY <1>1, <1>2, <1>3, <1>4, <1>5, <1>6, <1>7, <1>8 DEF MainStep, MainNext, Frame

\* The application is one of those that OpenSpec allows.
LEMMA VitaStep ==
  TypeOK /\ [Next]_vars => [AnyNext]_serverVars
<1> SUFFICES ASSUME TypeOK, [Next]_vars PROVE [AnyNext]_serverVars
  OBVIOUS
<1>1. CASE MainStep
  BY <1>1, MainSharedType DEF MainStep, OthersStep, AnyNext, TypeOK, ServerTypeOK
<1>2. CASE UNCHANGED vars
  BY <1>2 DEF vars, serverVars
<1> QED
  BY <1>1, <1>2 DEF Next, NetThreadStep, EnvStep, ClockStep, PeersStep, AnyNext

LEMMA VitaStepType == TypeOK /\ [Next]_vars => TypeOK'
<1> SUFFICES ASSUME TypeOK, [Next]_vars PROVE TypeOK'
  OBVIOUS
<1>1. ServerTypeOK'
  BY VitaStep, StepType DEF TypeOK
<1>2. CASE MainStep
  BY <1>1, <1>2, MainThreadType DEF TypeOK, ServerTypeOK
<1>3. CASE ~MainStep
  <2>1. UNCHANGED mainVars
    BY <1>3 DEF Next, NetThreadStep, EnvStep, ClockStep, vars
  <2> QED
    BY <1>1, <2>1 DEF TypeOK, MainTypeOK
<1> QED
  BY <1>2, <1>3

\* Every variable of the application keeps to its type, for any set of PCs and any
\* bounds.
THEOREM TypeCorrect == Spec => []TypeOK
<1>1. Init => TypeOK
  BY InitType, MainInitType DEF Init, TypeOK
<1> QED
  BY <1>1, VitaStepType, PTL DEF Spec

LEMMA VitaIsOpen == Spec => OpenSpec
<1>1. Init => ServerInit
  BY DEF Init
<1> QED
  BY <1>1, TypeCorrect, VitaStep, PTL DEF Spec, OpenSpec

-------------------------------------------------------------------------------
(* What the interface makes of the network thread's events.                 *)

\* The part of the invariant that ties the main thread to the network thread.
UiPart == EventsFollowed /\ DisconnectOverruled /\ NoLostConnect

\* Every step of the network thread that changes the client, or comes out of
\* "publish", either empties the slot or has the address written.
LEMMA NetThreadPublished ==
  ASSUME PublishedIsClient, NetThreadNext PROVE PublishedIsClient'
<1> USE DEF PeersKept, SharedKept, NextEvent, Handling, IsHup, IsIn, IsOut
<1>1. CASE client' = None
  BY <1>1 DEF PublishedIsClient
<1>2. CASE UNCHANGED <<client, clientIp>> /\ pc # "publish"
  BY <1>2 DEF PublishedIsClient
<1>3. CASE pc' = "publish"
  BY <1>3 DEF PublishedIsClient
<1>4. CASE PublishClient
  BY <1>4 DEF PublishClient, PublishedIsClient
<1>5. ~PublishClient => \/ client' = None
                        \/ UNCHANGED <<client, clientIp>> /\ pc # "publish"
                        \/ pc' = "publish"
  <2>1. CASE \/ GetCtrl \/ EpollWait \/ ThreadExit \/ NetCtl \/ AcceptFails \/ ClientHup
             \/ \E c \in Clients : add_client(c) \/ refuse_client(c)
    BY <2>1 DEF GetCtrl, EpollWait, ThreadExit, NetCtl, AcceptFails, ClientHup, add_client,
       refuse_client, KeepClient, disconnect_client, ResetClient
  <2>2. CASE \/ ClientIsNull \/ Receive \/ BufferExceeded \/ handle_heartbeat
             \/ handle_handshake \/ handle_config \/ WildRead
    BY <2>2 DEF ClientIsNull, Receive, BufferExceeded, handle_heartbeat, handle_handshake,
       handle_config, WildRead, disconnect_client, ResetClient
  <2>3. CASE NoMorePackets \/ ResponseFails
    BY <2>3 DEF NoMorePackets, ResponseFails, KeepClient, disconnect_client, ResetClient
  <2>4. CASE \/ send_handshake_response \/ NothingToSend \/ HeartbeatTimeout \/ SendPad
             \/ SkipPad
    BY <2>4 DEF send_handshake_response, NothingToSend, HeartbeatTimeout, SendPad, SkipPad,
       KeepClient, disconnect_client, ResetClient
  <2> QED
    BY <2>1, <2>2, <2>3, <2>4 DEF NetThreadNext
<1> QED
  BY <1>1, <1>2, <1>3, <1>4, <1>5

\* A poll takes the bits and follows them; no other step of the main thread takes any,
\* and only the bit of the network's end is raised by it.
LEMMA MainUi ==
  ASSUME IInv, MainStep PROVE UiPart'
<1>1. CASE PollEventFlag
  <2>1. /\ evflag' = {} /\ client' = client
        /\ events' = evflag \/ (events' \in {events, {}} /\ evflag = {})
        /\ pcConnectState' = IF "PC_CONNECT" \in events' THEN TRUE
                             ELSE IF "PC_DISCONNECT" \in events' THEN FALSE
                             ELSE pcConnectState
    BY <1>1 DEF PollEventFlag, Follow, MainStep
  <2>2. pcConnectState \in BOOLEAN
    BY DEF IInv, MainTypeOK
  <2>3. EventsFollowed'
    BY <2>1, <2>2 DEF EventsFollowed
  <2>4. client # None => pcConnectState'
    BY <2>1, <2>2 DEF IInv, EventsFollowed, DisconnectOverruled, NoLostConnect
  <2> QED
    BY <2>1, <2>3, <2>4 DEF UiPart, DisconnectOverruled, NoLostConnect
<1>2. CASE ~PollEventFlag
  <2>1. /\ UNCHANGED <<client, events, pcConnectState>> /\ evflag \subseteq evflag'
        /\ "PC_DISCONNECT" \in evflag' => "PC_DISCONNECT" \in evflag
    BY <1>2 DEF MainStep, MainNext, Frame, Start, EnterPadMode, ReadSelect, ExitPadMode,
       ReadUp, ToggleScreen, Draw, StopThreads, FlagNetDisconnect, Join, SetEventFlag
  <2> QED
    BY <2>1 DEF IInv, UiPart, EventsFollowed, DisconnectOverruled, NoLostConnect
<1> QED
  BY <1>1, <1>2

\* What a step of the network thread does to the bits: it raises the bit of a new
\* client, and that of a disconnection only when it has no client any more.
LEMMA NetThreadBits ==
  ASSUME NetThreadNext
  PROVE  /\ evflag \subseteq evflag'
         /\ \/ client' = None
            \/ "PC_CONNECT" \in evflag'
            \/ client' = client /\ ("PC_DISCONNECT" \in evflag' => "PC_DISCONNECT" \in evflag)
<1> USE DEF PeersKept, SharedKept, SetEventFlag
<1>1. CASE \/ GetCtrl \/ EpollWait \/ ThreadExit \/ NetCtl \/ AcceptFails \/ ClientHup
           \/ PublishClient \/ \E c \in Clients : add_client(c) \/ refuse_client(c)
  BY <1>1 DEF GetCtrl, EpollWait, ThreadExit, NetCtl, AcceptFails, ClientHup, PublishClient,
     add_client, refuse_client, KeepClient, disconnect_client, ResetClient
<1>2. CASE \/ ClientIsNull \/ Receive \/ BufferExceeded \/ handle_heartbeat
           \/ handle_handshake \/ handle_config \/ WildRead
  BY <1>2 DEF ClientIsNull, Receive, BufferExceeded, handle_heartbeat, handle_handshake,
     handle_config, WildRead, disconnect_client, ResetClient
<1>3. CASE NoMorePackets \/ ResponseFails
  BY <1>3 DEF NoMorePackets, ResponseFails, KeepClient, disconnect_client, ResetClient
<1>4. CASE \/ send_handshake_response \/ NothingToSend \/ HeartbeatTimeout \/ SendPad
           \/ SkipPad
  BY <1>4 DEF send_handshake_response, NothingToSend, HeartbeatTimeout, SendPad, SkipPad,
     KeepClient, disconnect_client, ResetClient
<1> QED
  BY <1>1, <1>2, <1>3, <1>4 DEF NetThreadNext

\* Pad mode is the main thread's.
LEMMA NetThreadPadMode == NetThreadNext => padMode' = padMode
<1> SUFFICES ASSUME NetThreadNext PROVE padMode' = padMode
  OBVIOUS
<1>1. CASE \/ GetCtrl \/ EpollWait \/ ThreadExit \/ NetCtl \/ AcceptFails \/ ClientHup
           \/ PublishClient \/ \E c \in Clients : add_client(c) \/ refuse_client(c)
  BY <1>1 DEF GetCtrl, EpollWait, ThreadExit, NetCtl, AcceptFails, ClientHup, PublishClient,
     add_client, refuse_client, SharedKept
<1>2. CASE \/ ClientIsNull \/ Receive \/ BufferExceeded \/ handle_heartbeat
           \/ handle_handshake \/ handle_config \/ NoMorePackets \/ WildRead
  BY <1>2 DEF ClientIsNull, Receive, BufferExceeded, handle_heartbeat, handle_handshake,
     handle_config, NoMorePackets, WildRead, SharedKept
<1>3. CASE \/ send_handshake_response \/ ResponseFails \/ NothingToSend
           \/ HeartbeatTimeout \/ SendPad \/ SkipPad
  BY <1>3 DEF send_handshake_response, ResponseFails, NothingToSend, HeartbeatTimeout,
     SendPad, SkipPad, SharedKept
<1> QED
  BY <1>1, <1>2, <1>3 DEF NetThreadNext

LEMMA UiKept ==
  ASSUME UiPart, UNCHANGED <<events, pcConnectState>>, evflag \subseteq evflag',
         \/ client' = None
         \/ "PC_CONNECT" \in evflag'
         \/ client' = client /\ ("PC_DISCONNECT" \in evflag' => "PC_DISCONNECT" \in evflag)
  PROVE  UiPart'
BY DEF UiPart, EventsFollowed, DisconnectOverruled, NoLostConnect

\* A frame that found the flag taken has drawn the present client: nothing changes
\* the client, its address or the display without raising the flag or leaving "frame".
LEMMA MainShows ==
  ASSUME IInv, MainStep PROVE NothingYet' /\ ScreenNamesClient'
<1>1. CASE Start
  <2>1. mpc = "start" /\ mpc' # "start" /\ UNCHANGED <<client, evflag>>
    BY <1>1 DEF Start, MainStep
  <2> QED
    BY <2>1 DEF IInv, NothingYet, ScreenNamesClient, NoLostConnect
<1>2. CASE Draw
  <2>1. /\ UNCHANGED <<client, pc, evflag, padMode, displayOn>> /\ mpc' # "start"
        /\ shownIp' = IF padMode /\ ~displayOn THEN None
                      ELSE IF pcConnectState THEN clientIp ELSE None
    BY <1>2 DEF Draw, MainStep
  <2> QED
    BY <2>1 DEF IInv, NothingYet, ScreenNamesClient, NoLostConnect, PublishedIsClient
<1>3. CASE ~Start /\ ~Draw
  <2>1. mpc' \notin {"start", "frame"}
    BY <1>3 DEF MainStep, MainNext, Frame, PollEventFlag, EnterPadMode, ReadSelect,
       ExitPadMode, ReadUp, ToggleScreen, StopThreads, FlagNetDisconnect, Join
  <2> QED
    BY <2>1 DEF NothingYet, ScreenNamesClient
<1> QED
  BY <1>1, <1>2, <1>3

LEMMA NetThreadShown ==
  ASSUME ScreenNamesClient, NetThreadNext, UNCHANGED mainVars, padMode' = padMode
  PROVE  ScreenNamesClient'
<1>1. CASE pc = "publish"
  <2>1. PublishClient
    BY <1>1 DEF NetThreadNext, GetCtrl, EpollWait, ThreadExit, NetCtl, add_client,
       refuse_client, AcceptFails, ClientHup, ClientIsNull, Receive, BufferExceeded,
       handle_heartbeat, handle_handshake, handle_config, NoMorePackets, WildRead,
       send_handshake_response, ResponseFails, NothingToSend, HeartbeatTimeout, SendPad,
       SkipPad, Handling, IsHup, IsIn, IsOut
  <2> QED
    BY <2>1 DEF PublishClient, SetEventFlag, ScreenNamesClient
<1>2. CASE pc # "publish"
  BY <1>2, NetThreadBits DEF ScreenNamesClient
<1> QED
  BY <1>1, <1>2

LEMMA VitaInit == Init => IInv
BY InitInv, MainInitType, NoneAssumption
   DEF Init, ServerInit, SharedInit, NetInit, MainInit, IInv, EventsFollowed,
       DisconnectOverruled, NoLostConnect, PublishedIsClient, NothingYet, ScreenNamesClient

LEMMA VitaInv == IInv /\ [Next]_vars => IInv'
<1> SUFFICES ASSUME IInv, [Next]_vars PROVE IInv'
  OBVIOUS
<1>1. TypeOK /\ UiPart
  BY DEF IInv, ServerInv, TypeOK, UiPart
<1>2. MainTypeOK' /\ ServerInv'
  BY <1>1, VitaStep, VitaStepType, StepInv DEF IInv, TypeOK
<1>3. CASE MainStep
  <2>1. PublishedIsClient'
    BY <1>3 DEF MainStep, MainNext, Frame, Start, PollEventFlag, EnterPadMode, ReadSelect,
       ExitPadMode, ReadUp, ToggleScreen, Draw, StopThreads, FlagNetDisconnect, Join, IInv,
       PublishedIsClient
  <2> QED
    BY <1>2, <1>3, <2>1, MainUi, MainShows DEF IInv, UiPart
<1>4. CASE NetThreadStep
  <2>1. PublishedIsClient'
    BY <1>4, NetThreadPublished DEF NetThreadStep, IInv
  <2>2. UiPart'
    BY <1>1, <1>4, NetThreadBits, UiKept DEF NetThreadStep
  <2>3. ScreenNamesClient' /\ NothingYet'
    BY <1>4, NetThreadShown, NetThreadPadMode DEF NetThreadStep, IInv, NothingYet
  <2> QED
    BY <1>2, <2>1, <2>2, <2>3 DEF IInv, UiPart
<1>5. CASE EnvStep \/ ClockStep \/ UNCHANGED vars
  <2>1. UNCHANGED <<evflag, padMode, clientIp, client, pc, mainVars>>
    BY <1>5 DEF EnvStep, PeersNext, PeerStep, NetChange, Connect, SendHandshake, SendConfig,
       SendHeartbeat, Send, Arrive, Close, Reset, Vanish, ClockStep, Second, vars
  <2> QED
    BY <1>1, <1>2, <2>1, UiKept
       DEF IInv, UiPart, PublishedIsClient, NothingYet, ScreenNamesClient
<1> QED
  BY <1>3, <1>4, <1>5 DEF Next

\* The strengthened invariant holds of every reachable state.
THEOREM Invariance == Spec => []IInv
BY VitaInit, VitaInv, PTL DEF Spec

\* No socket leaks and none is used after its close: the connections the server
\* holds open are exactly the one in its client slot.
THEOREM SlotIsOnlySession == Spec => []OneSession
<1>1. IInv => OneSession
  BY DEF IInv, ServerInv
<1> QED
  BY <1>1, Invariance, PTL

\* The data address of a client past its handshake is its own, although no
\* constructor and no reset writes that member.
THEOREM AddressNeverInherited == Spec => []AddressIsClients
<1>1. IInv => AddressIsClients
  BY DEF IInv, ServerInv
<1> QED
  BY <1>1, Invariance, PTL

\* Pad data goes to no PC that was not sent the handshake response.
THEOREM PushOnlyAfterResponse == Spec => []PushConfirmed
<1>1. IInv => PushConfirmed
  BY DEF IInv, ServerInv
<1> QED
  BY <1>1, Invariance, PTL

\* The main thread never misses a client: while the network thread holds one,
\* the interface shows it or the bit that will make it is set.
THEOREM ConnectNeverLost == Spec => []NoLostConnect
<1>1. IInv => NoLostConnect
  BY DEF IInv
<1> QED
  BY <1>1, Invariance, PTL

\* A frame that has taken the last PC_CONNECT names the present client, although the
\* first is raised before its address is written (net.cpp:262-266).
THEOREM ShownAddress == Spec => []ScreenNamesClient
<1>1. IInv => ScreenNamesClient
  BY DEF IInv
<1> QED
  BY <1>1, Invariance, PTL

\* The server owes its response to the PC that asked for it: no session finds
\* the handshake of another one in its streams, its buffer or its state.
THEOREM HandshakeIsOwn == Spec => []OwnHandshake
BY VitaIsOpen, OpenOwn, PTL

\* No client that is owed a response is without EPOLLOUT (net.cpp:297-305).
THEOREM OwedIsArmed == Spec => []ConfirmArmed
BY VitaIsOpen, OpenArmed, PTL

\* A client leaves the slot because it closed or was reset, was silent for too long or
\* sent too much, because the interface or the thread went down, or for an event that
\* epoll reported of the client before it: for any PCs, faults and bounds (net.cpp).
THEOREM DropsHaveCause == Spec => DropJustified
BY VitaIsOpen, OpenDrops, PTL

\* The whole server keeps its promises: one PC is held at a time, a PC that
\* shook hands is answered while it is held, and pad data goes only where an
\* answer went, for any number of PCs and whatever main and the network do.
THEOREM SlotImplemented == Spec => ImplementsSlot
BY VitaIsOpen, OpenSlot, PTL
===============================================================================
