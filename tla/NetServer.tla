------------------------------ MODULE NetServer -------------------------------
(***************************************************************************)
(* The network thread with its PCs, and the little that the rest of the    *)
(* application does to it: main changes the pad mode and may ask it to     *)
(* stop.  The thread never reads the flags it raises, so they only pile up *)
(* here; VitaServer has the main thread that takes them.                   *)
(***************************************************************************)
EXTENDS NetThread

serverVars == <<sharedVars, envVars, netVars>>

ServerTypeOK == SharedTypeOK /\ PeersTypeOK /\ NetTypeOK

ServerInit == SharedInit /\ PeersInit /\ NetInit

\* A crash of the thread ends the application.
Up == pc # "crashed"

PadModeChanges ==
  /\ padMode' = ~padMode
  /\ UNCHANGED <<evflag, running, buttons, clientIp, netState, envVars, netVars>>

StopRequested ==
  /\ "stop" \in Faults
  /\ running
  /\ running' = FALSE
  /\ UNCHANGED <<evflag, padMode, buttons, clientIp, netState, envVars, netVars>>

PeersStep == PeersNext /\ UNCHANGED netVars

ServerNext ==
  \/ NetThreadNext
  \/ Up /\ (PeersStep \/ Second \/ PadModeChanges \/ StopRequested)

ServerSpec == ServerInit /\ [][ServerNext]_serverVars

(***************************************************************************)
(* Fairness: the scheduler runs the thread, the clock advances, the network*)
(* delivers what a PC that has not vanished sends, and a client that may   *)
(* be pushed to is not denied its polling interval for ever.               *)
(***************************************************************************)
FairServerSpec ==
  /\ ServerSpec
  /\ WF_serverVars(NetThreadNext)
  /\ WF_serverVars(Up /\ Second)
  /\ \A c \in Clients : WF_serverVars(Up /\ Arrive(c) /\ UNCHANGED netVars)
  /\ SF_serverVars(SendPad)

Ended == pc \in {"exited", "crashed"}

-------------------------------------------------------------------------------
(* Safety of the session.                                                   *)

\* A connection that the server holds open is the one in its client slot, and
\* the slot holds an open connection: no socket leaks, none is used after its
\* close, whatever order accepts, resets and timeouts come in (net.cpp).
OneSession == \A c \in Clients : srv[c] = "open" <=> client = c

\* From the handshake on, the data address is that of the present client: no
\* session inherits the address or the state left behind by the one before
\* (client.hpp, members that reset() and the constructor do not write).
AddressIsClients ==
  client # None /\ cstate # "WaitingForHandshake" => dataAddr = client

\* Pad data only ever goes to a PC that was sent the handshake response, even
\* in the turn that drops the client and still reads its state (net.cpp:334).
PushConfirmed == pushed # None => responded[pushed]

(***************************************************************************)
(* The inductive invariant behind the first three, for every number of PCs *)
(* and every bound; NetServerProofs proves it.                             *)
(***************************************************************************)
\* The server's end of a connection is made by the connection.
IdleIsNew == \A c \in Clients : peer[c] = "idle" => srv[c] = "none"

\* The bytes that the last Connected client left behind name a PC that was
\* answered, whether or not there is a client now.
ConnectedConfirmed == cstate = "Connected" => dataAddr # None /\ responded[dataAddr]

ServerInv ==
  /\ ServerTypeOK
  /\ IdleIsNew /\ OneSession
  /\ AddressIsClients /\ ConnectedConfirmed /\ PushConfirmed

\* A client that is owed a response has EPOLLOUT registered: it cannot be left
\* waiting (net.cpp:297-305 unregisters it with the response).
ConfirmArmed == client # None /\ cstate = "WaitingForServerConfirm" => armed

\* Whether a stream of pieces has a part of a handshake in it.
Greets(stream) == \E i \in 1 .. Len(stream) : stream[i].msg.type = "Handshake"

\* A response is owed only to a PC that shook hands in its own connection:
\* nothing in its streams, in the buffer or in the state of the client is left
\* over from a session before (client.hpp, buffer_ and state_).
OwnHandshake ==
  /\ \A c \in Clients :
       Greets(flight[c]) \/ Greets(rx[c]) => "Handshake" \in said[c]
  /\ client # None /\ (Greets(buffer) \/ cstate = "WaitingForServerConfirm")
       => "Handshake" \in said[client]

\* The order of the steps that drop a client: a client leaves the slot for a
\* cause of its own, or for an event that epoll reported of an earlier client,
\* or because the interface or the thread went down (net.cpp).
DropCause(c) ==
  \/ peer[c] \in {"closed", "reset"}
  \/ hbAge > MaxHeartbeat
  \/ Len(buffer) + Len(rx[c]) > MaxBuffer
  \/ ncPending = {"Disconnected"}
  \/ ~running \/ pc = "wait"
  \/ waited \notin {c, None}

DropJustified ==
  [][\A c \in Clients : client = c /\ client' # c => DropCause(c)]_serverVars

-------------------------------------------------------------------------------
(* The server implements the slot it promises: every step of the thread, of *)
(* a PC or of the network is one step of SessionSlot, or none.              *)

Slot == INSTANCE SessionSlot
          WITH conn <- srv,
               answered <- {c \in Clients : responded[c]},
               target <- pushed

\* One PC is held at a time, one that shook hands is answered while it is held,
\* and pad data goes only where an answer went (net.cpp, client.hpp).
ImplementsSlot == Slot!SlotSpec

-------------------------------------------------------------------------------
(* Liveness, under FairServerSpec.                                           *)

\* A PC that vanishes frees the slot, by the heartbeat timeout.
VanishedIsDropped ==
  \A c \in Clients :
    client = c /\ peer[c] = "vanished" ~> client # c \/ Ended

\* A connection does not stay in the backlog: it is accepted or refused.
BacklogServed ==
  \A c \in Clients :
    srv[c] = "backlog" ~> srv[c] # "backlog" \/ Ended

\* A handshake that is received is answered, unless the client goes.
HandshakeAnswered ==
  \A c \in Clients :
    client = c /\ "Handshake" \in said[c]
      ~> responded[c] \/ client # c \/ peer[c] # "connected"
         \/ Ended

\* Pad mode with a connected client keeps the data flowing to it.
PadDataFlows ==
  \A c \in Clients :
    <>[](client = c /\ cstate = "Connected" /\ padMode /\ ~Ended) => []<>(pushed = c)

-------------------------------------------------------------------------------
(* What a comment says, and the code does not do.                           *)

\* The loop "ends if there was a sceNetEpollWait error or the thread was asked
\* to stop via g_net_thread_running" (net.cpp:205-206).
LoopEndsAsSaid == [][~Ended /\ Ended' => pc = "wait" \/ ~running]_serverVars
===============================================================================
