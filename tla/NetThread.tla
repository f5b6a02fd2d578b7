------------------------------ MODULE NetThread -------------------------------
(***************************************************************************)
(* The network thread of the server (server/src/net.cpp and the Client     *)
(* class of server/include/client.hpp): it serves one PC at a time over a  *)
(* TCP control connection and pushes pad data to it over UDP.              *)
(*                                                                         *)
(* One turn of the loop of net_thread is ctrl -> wait -> netctl -> event*  *)
(* -> timeout -> push -> ctrl; pc says which of these comes next.  An      *)
(* action makes at most one access to what other threads write, so that    *)
(* nothing observable is merged.                                           *)
(***************************************************************************)
EXTENDS Peers

CONSTANTS
  MaxHeartbeat,  \* MAX_HEARTBEAT_INTERVAL, in seconds
  MinPolling,    \* MIN_POLLING_INTERVAL_MICROS
  MaxBuffer      \* bound: MAX_BUFFER_ACCEPTABLE_SIZE, in pieces

ASSUME NetThreadAssumption ==
  /\ MaxHeartbeat \in Nat
  /\ MinPolling \in Nat
  /\ MaxBuffer \in Nat

VARIABLES
  pc,           \* where net_thread is in its loop
  client,       \* std::optional<Client>: the connection it holds, or None
  cstate,       \* Client::state_; reset() leaves its bytes in place
  armed,        \* is EPOLLOUT registered for the client's socket?
  dataAddr,     \* Client::data_conn_info_; neither constructor nor reset() writes it
  buffer,       \* Client::buffer_
  allocated,    \* has buffer_ ever held data (is data() a valid pointer)?
  pollingTime,  \* Client::polling_time_
  hbAge,        \* Client::time_since_last_heartbeat(), saturating
  received,     \* handle_ingoing_data: how its last sceNetRecv ended
  batch,        \* events[i..n-1] of the last sceNetEpollWait
  waited,       \* history: the client when that wait returned
  pushed        \* history: where this turn's datagram went, or None

sessionVars == <<client, cstate, armed, dataAddr, buffer, allocated, pollingTime, hbAge>>
loopVars == <<pc, received, batch, waited, pushed>>
netVars == <<sessionVars, loopVars>>

ClientState == {"WaitingForHandshake", "WaitingForServerConfirm", "Connected"}
SocketType == {"SERVER", "CLIENT"}
EpollEvent == [sock : SocketType, ev : SUBSET {"IN", "OUT", "HUP"}]

SessionTypeOK ==
  /\ client \in Clients \cup {None}
  /\ cstate \in ClientState
  /\ armed \in BOOLEAN
  /\ dataAddr \in Clients \cup {None}
  /\ buffer \in Seq(Piece)
  /\ allocated \in BOOLEAN
  /\ pollingTime \in {MinPolling} \cup PollingIntervals
  /\ hbAge \in 0 .. MaxHeartbeat + 1

LoopTypeOK ==
  /\ pc \in {"ctrl", "wait", "netctl", "event", "publish", "handle", "timeout",
             "push", "exited", "crashed"}
  /\ received \in {"wouldblock", "eof", "error"}
  /\ batch \in Seq(EpollEvent)
  /\ pc \in {"event", "publish", "handle"} => batch # << >>
  /\ waited \in Clients \cup {None}
  /\ pushed \in Clients \cup {None}

NetTypeOK == SessionTypeOK /\ LoopTypeOK

NetInit ==
  /\ pc = "ctrl"
  /\ client = None
  /\ cstate = "WaitingForHandshake"
  /\ armed = FALSE
  /\ dataAddr = None
  /\ buffer = << >>
  /\ allocated = FALSE
  /\ pollingTime = MinPolling
  /\ hbAge = 0
  /\ received = "wouldblock"
  /\ batch = << >>
  /\ waited = None
  /\ pushed = None

-------------------------------------------------------------------------------
(* The optional<Client>.                                                    *)

\* Mutant of Emplace: the state of the last session is kept.
EmplaceKeepsState(c) ==
  /\ client' = c
  /\ armed' = TRUE
  /\ buffer' = << >>
  /\ allocated' = FALSE
  /\ pollingTime' = MinPolling
  /\ hbAge' = 0
  /\ UNCHANGED <<cstate, dataAddr>>

\* Mutant of Emplace: the socket is registered without EPOLLOUT.
EmplaceWithoutOut(c) ==
  /\ client' = c
  /\ cstate' = "WaitingForHandshake"
  /\ armed' = FALSE
  /\ buffer' = << >>
  /\ allocated' = FALSE
  /\ pollingTime' = MinPolling
  /\ hbAge' = 0
  /\ UNCHANGED dataAddr

\* client.emplace(fd, epoll) and the registration of its socket.
Emplace(c) ==
  /\ client' = c
  /\ cstate' = "WaitingForHandshake"
  /\ armed' = TRUE
  /\ buffer' = << >>
  /\ allocated' = FALSE
  /\ pollingTime' = MinPolling
  /\ hbAge' = 0
  /\ UNCHANGED dataAddr

\* Mutant of ResetClient: the destructor does not close the socket.
ResetClientLeaks ==
  /\ client' = None
  /\ armed' = FALSE
  /\ buffer' = << >>
  /\ allocated' = FALSE
  /\ hbAge' = 0
  /\ UNCHANGED <<srv, flight, rx, cstate, dataAddr, pollingTime>>

\* client.reset(): ~EpollSocket removes the socket from epoll and closes it.
ResetClient ==
  /\ client' = None
  /\ armed' = FALSE
  /\ buffer' = << >>
  /\ allocated' = FALSE
  /\ hbAge' = 0
  /\ IF client = None THEN UNCHANGED <<srv, flight, rx>> ELSE CloseEnd(client)
  /\ UNCHANGED <<cstate, dataAddr, pollingTime>>

\* disconnect_client: the flag is raised even when there is no client.
disconnect_client == SetEventFlag("PC_DISCONNECT") /\ ResetClient

KeepClient == UNCHANGED <<sessionVars, srv, flight, rx, evflag>>

\* Mutant of After: the loop over the events runs once even if there is none.
AfterAtLeastOne(b, cl) ==
  IF b # << >> \/ pc = "netctl" THEN "event" ELSE IF cl = None THEN "ctrl" ELSE "timeout"

\* Where the loop goes when the events b are left and the client is then cl.
After(b, cl) == IF b # << >> THEN "event" ELSE IF cl = None THEN "ctrl" ELSE "timeout"

\* The next event, the client being cl after this one; received was a local variable
\* of handle_ingoing_data.
NextEvent(cl) ==
  /\ batch' = Tail(batch)
  /\ pc' = After(Tail(batch), cl)
  /\ received' = "wouldblock"
  /\ UNCHANGED <<waited, pushed>>

PeersKept == UNCHANGED <<peer, said, netctlVars>>
SharedKept == UNCHANGED <<running, padMode, buttons, clientIp, netState>>

-------------------------------------------------------------------------------
(* The head of the loop.                                                    *)

\* get_ctrl: a failed read keeps the previous buttons, which are any buttons.
GetCtrl ==
  /\ pc = "ctrl"
  /\ running
  /\ pc' = "wait"
  /\ buttons' \in ButtonStates
  /\ pushed' = None
  /\ UNCHANGED <<sessionVars, received, batch, waited, envVars, evflag, running,
                 padMode, clientIp, netState>>

\* The events that level-triggered epoll reports.  A FIN may come with HUP.
ServerEvents == {e \in [sock : {"SERVER"}, ev : {{"IN"}}] : Waiting # {}}

Readable == rx[client] # << >> \/ AtEof(client) \/ peer[client] = "reset"

ClientEvents ==
  {e \in [sock : {"CLIENT"}, ev : SUBSET {"IN", "OUT", "HUP"}] :
     /\ client # None
     /\ e.ev # {}
     /\ "IN" \in e.ev <=> Readable
     /\ "OUT" \in e.ev <=> armed
     /\ "HUP" \in e.ev => AtEof(client) \/ peer[client] = "reset"
     /\ peer[client] = "reset" => "HUP" \in e.ev}

OneEvent == {<<e>> : e \in ServerEvents \cup ClientEvents}
TwoEvents == (ServerEvents \X ClientEvents) \cup (ClientEvents \X ServerEvents)

Batches == IF TwoEvents # {} THEN TwoEvents ELSE IF OneEvent # {} THEN OneEvent ELSE {<< >>}

EpollWait ==
  /\ pc = "wait"
  /\ batch' \in Batches
  /\ waited' = client
  /\ pc' = "netctl"
  /\ UNCHANGED <<sessionVars, received, pushed, envVars, sharedVars>>

\* The thread returns: the optional is destroyed with its stack frame.
ThreadExit ==
  /\ \/ pc = "ctrl" /\ ~running
     \/ pc = "wait" /\ "epoll" \in Faults   \* sceNetEpollWait failed
  /\ pc' = "exited"
  /\ ResetClient
  /\ PeersKept /\ SharedKept
  /\ UNCHANGED <<received, batch, waited, pushed, responded, evflag>>

\* sceNetCtlCheckCallback, then the switch on the bits the callbacks raised:
\* it has no case for both.
NetCtl ==
  /\ pc = "netctl"
  /\ ncPending' = {}
  /\ \/ /\ ncPending = {"Connected"}
        /\ SetEventFlag("NET_CONNECT")
        /\ UNCHANGED <<sessionVars, srv, flight, rx>>
     \/ /\ ncPending = {"Disconnected"}
        /\ SetEventFlag("NET_DISCONNECT")
        /\ ResetClient
     \/ /\ ncPending \notin {{"Connected"}, {"Disconnected"}}
        /\ KeepClient
  /\ pc' = After(batch, client')
  /\ SharedKept
  /\ UNCHANGED <<received, batch, waited, pushed, peer, said, responded, netChanges>>

-------------------------------------------------------------------------------
(* The events of the batch.                                                 *)

Handling(sock, ev) == pc = "event" /\ Head(batch).sock = sock /\ ev \in Head(batch).ev

IsHup == Handling("CLIENT", "HUP")
IsIn == Handling("CLIENT", "IN") /\ "HUP" \notin Head(batch).ev
IsOut == Handling("CLIENT", "OUT") /\ Head(batch).ev \cap {"IN", "HUP"} = {}

\* Mutant of add_client: a new connection takes the slot from the present one.
add_client_always(c) ==
  /\ Handling("SERVER", "IN")
  /\ c \in Waiting
  /\ srv' = [srv EXCEPT ![c] = "open"]
  /\ Emplace(c)
  /\ SetEventFlag("PC_CONNECT")
  /\ pc' = "publish"
  /\ PeersKept /\ SharedKept
  /\ UNCHANGED <<received, batch, waited, pushed, flight, rx, responded>>

add_client(c) ==
  /\ Handling("SERVER", "IN")
  /\ client = None
  /\ c \in Waiting
  /\ srv' = [srv EXCEPT ![c] = "open"]
  /\ Emplace(c)
  /\ SetEventFlag("PC_CONNECT")
  /\ pc' = "publish"
  /\ PeersKept /\ SharedKept
  /\ UNCHANGED <<received, batch, waited, pushed, flight, rx, responded>>

\* The connection was gone before sceNetAccept.
AcceptFails ==
  /\ Handling("SERVER", "IN")
  /\ Waiting = {}
  /\ IF client = None THEN NextEvent(client)
     ELSE pc' = "publish" /\ UNCHANGED <<received, batch, waited, pushed>>
  /\ UNCHANGED <<sessionVars, envVars, sharedVars>>

\* Mutant of refuse_client: the waiting connection is not accepted.
refuse_client_later(c) ==
  /\ Handling("SERVER", "IN")
  /\ client # None
  /\ c \in Waiting
  /\ pc' = "publish"
  /\ UNCHANGED <<sessionVars, received, batch, waited, pushed, envVars, sharedVars>>

refuse_client(c) ==
  /\ Handling("SERVER", "IN")
  /\ client # None
  /\ c \in Waiting
  /\ CloseEnd(c)
  /\ pc' = "publish"
  /\ PeersKept /\ SharedKept
  /\ UNCHANGED <<sessionVars, received, batch, waited, pushed, responded, evflag>>

\* Mutant of PublishClient: the flag of add_client is left to do.
PublishSilently ==
  /\ pc = "publish"
  /\ clientIp' = client
  /\ NextEvent(client)
  /\ UNCHANGED <<sessionVars, envVars, evflag, running, padMode, buttons, netState>>

\* After accepting or refusing, whoever is the client is announced.
PublishClient ==
  /\ pc = "publish"
  /\ clientIp' = client
  /\ SetEventFlag("PC_CONNECT")
  /\ NextEvent(client)
  /\ UNCHANGED <<sessionVars, envVars, running, padMode, buttons, netState>>

ClientHup ==
  /\ IsHup
  /\ disconnect_client
  /\ NextEvent(None)
  /\ PeersKept /\ SharedKept /\ UNCHANGED responded

\* "Client is null and still is in epoll".  An EPOLLOUT finds the state that the
\* old client left behind: at worst a response is tried on its closed socket, and
\* fails with another error than the one that is handled.
ClientIsNull ==
  /\ IsIn \/ IsOut
  /\ client = None
  /\ NextEvent(None)
  /\ UNCHANGED <<sessionVars, envVars, sharedVars>>

\* The receive loop of handle_ingoing_data.
Receive ==
  /\ IsIn
  /\ client # None
  /\ Len(buffer) + Len(rx[client]) =< MaxBuffer
  /\ buffer' = buffer \o rx[client]
  /\ allocated' = (allocated \/ rx[client] # << >>)
  /\ rx' = [rx EXCEPT ![client] = << >>]
  /\ received' = IF peer[client] = "reset" THEN "error"
                 ELSE IF AtEof(client) THEN "eof" ELSE "wouldblock"
  /\ pc' = "handle"
  /\ PeersKept
  /\ UNCHANGED <<client, cstate, armed, dataAddr, pollingTime, hbAge, batch, waited,
                 pushed, srv, flight, responded, sharedVars>>

\* Mutant of BufferExceeded: a buffer that is just full is too long.
BufferFull ==
  /\ IsIn
  /\ client # None
  /\ Len(buffer) + Len(rx[client]) >= MaxBuffer
  /\ disconnect_client
  /\ NextEvent(None)
  /\ PeersKept /\ SharedKept /\ UNCHANGED responded

\* add_to_buffer throws ClientException: the client is dropped.
BufferExceeded ==
  /\ IsIn
  /\ client # None
  /\ Len(buffer) + Len(rx[client]) > MaxBuffer
  /\ disconnect_client
  /\ NextEvent(None)
  /\ PeersKept /\ SharedKept /\ UNCHANGED responded

\* A whole message is at the front of the buffer.
Complete == /\ Len(buffer) >= 2
            /\ buffer[1].part = 1
            /\ buffer[2] = [msg |-> buffer[1].msg, part |-> 2]

Consume == buffer' = Tail(Tail(buffer))

handle_heartbeat ==
  /\ pc = "handle"
  /\ Complete /\ buffer[1].msg.type = "Heartbeat"
  /\ Consume
  /\ hbAge' = 0
  /\ UNCHANGED <<client, cstate, armed, dataAddr, allocated, pollingTime, loopVars,
                 envVars, sharedVars>>

\* A verifier that wants the buffer to end with the packet rejects trailing data.
Verified == "strict" \in Faults => Len(buffer) = 2

\* Mutant of handle_handshake: the address of the data is not set.
handle_handshake_no_address ==
  /\ pc = "handle"
  /\ Complete /\ buffer[1].msg.type = "Handshake" /\ Verified
  /\ Consume
  /\ cstate' = "WaitingForServerConfirm"
  /\ UNCHANGED <<client, dataAddr, armed, allocated, pollingTime, hbAge, loopVars,
                 envVars, sharedVars>>

handle_handshake ==
  /\ pc = "handle"
  /\ Complete /\ buffer[1].msg.type = "Handshake" /\ Verified
  /\ Consume
  /\ dataAddr' = client
  /\ cstate' = "WaitingForServerConfirm"
  /\ UNCHANGED <<client, armed, allocated, pollingTime, hbAge, loopVars, envVars,
                 sharedVars>>

handle_config ==
  /\ pc = "handle"
  /\ Complete /\ buffer[1].msg.type = "Config" /\ Verified
  /\ Consume
  /\ LET interval == buffer[1].msg.interval
     IN  pollingTime' = IF interval > MinPolling THEN interval ELSE pollingTime
  /\ UNCHANGED <<client, cstate, armed, dataAddr, allocated, hbAge, loopVars, envVars,
                 sharedVars>>

\* handle_data finds no packet.  It follows the offsets at the front of the buffer
\* before verifying them: in a partial packet, or behind the last one, they are
\* whatever the memory holds.  What they lead to either names no handler (the buffer
\* is kept), or names one and does not verify (the buffer is cleared), or cannot be
\* read (WildRead).  Then handle_ingoing_data returns or throws.
NoMorePackets ==
  /\ pc = "handle"
  /\ allocated
  /\ Complete => buffer[1].msg.type # "Heartbeat" /\ ~Verified
  /\ \/ /\ \/ received = "wouldblock"
           \/ received = "error"       \* SCE_NET_ECONNRESET is not the code recv returns
        /\ buffer' \in {buffer, << >>}
        /\ Complete => buffer' = << >>
        /\ UNCHANGED <<client, cstate, armed, dataAddr, allocated, pollingTime, hbAge,
                       srv, flight, rx, evflag>>
     \/ /\ received \in {"eof", "error"}
        /\ disconnect_client
  /\ NextEvent(client')
  /\ PeersKept /\ SharedKept /\ UNCHANGED responded

\* An offset that was never verified leads out of the memory: it may wherever no
\* packet is complete, and does when buffer_ never held anything, as data() is null.
WildRead ==
  /\ pc = "handle"
  /\ ~Complete
  /\ pc' = "crashed"
  /\ UNCHANGED <<sessionVars, received, batch, waited, pushed, envVars, sharedVars>>

\* Mutant of send_handshake_response: the state is not set.
send_response_only ==
  /\ IsOut
  /\ client # None
  /\ cstate = "WaitingForServerConfirm"
  /\ peer[client] # "reset"
  /\ responded' = [responded EXCEPT ![client] = TRUE]
  /\ armed' = FALSE
  /\ NextEvent(client)
  /\ UNCHANGED <<client, cstate, dataAddr, buffer, allocated, pollingTime, hbAge, peer,
                 srv, flight, rx, said, netctlVars, sharedVars>>

send_handshake_response ==
  /\ IsOut
  /\ client # None
  /\ cstate = "WaitingForServerConfirm"
  /\ peer[client] # "reset"
  /\ responded' = [responded EXCEPT ![client] = TRUE]
  /\ cstate' = "Connected"
  /\ armed' = FALSE
  /\ NextEvent(client)
  /\ UNCHANGED <<client, dataAddr, buffer, allocated, pollingTime, hbAge, peer, srv,
                 flight, rx, said, netctlVars, sharedVars>>

\* The response cannot be sent.  The client is dropped if the error is the one
\* the handler compares it with.
ResponseFails ==
  /\ IsOut
  /\ client # None
  /\ cstate = "WaitingForServerConfirm"
  /\ peer[client] = "reset"
  /\ disconnect_client \/ KeepClient
  /\ NextEvent(client')
  /\ PeersKept /\ SharedKept /\ UNCHANGED responded

NothingToSend ==
  /\ IsOut
  /\ client # None
  /\ cstate # "WaitingForServerConfirm"
  /\ NextEvent(client)
  /\ UNCHANGED <<sessionVars, envVars, sharedVars>>

-------------------------------------------------------------------------------
(* The tail of the loop.                                                    *)

\* Mutant of HeartbeatTimeout: the limit itself is too late.
HeartbeatTooEager ==
  /\ pc = "timeout"
  /\ pc' = "push"
  /\ IF hbAge >= MaxHeartbeat THEN disconnect_client ELSE KeepClient
  /\ PeersKept /\ SharedKept
  /\ UNCHANGED <<received, batch, waited, pushed, responded>>

\* Mutant of HeartbeatTimeout: only connected clients time out.
HeartbeatOfConnected ==
  /\ pc = "timeout"
  /\ pc' = "push"
  /\ IF hbAge > MaxHeartbeat /\ cstate = "Connected" THEN disconnect_client
     ELSE KeepClient
  /\ PeersKept /\ SharedKept
  /\ UNCHANGED <<received, batch, waited, pushed, responded>>

HeartbeatTimeout ==
  /\ pc = "timeout"
  /\ pc' = "push"
  /\ IF hbAge > MaxHeartbeat THEN disconnect_client ELSE KeepClient
  /\ PeersKept /\ SharedKept
  /\ UNCHANGED <<received, batch, waited, pushed, responded>>

\* Mutant of SendPad: the state of the client is not looked at.
SendPadAnyState ==
  /\ pc = "push"
  /\ padMode
  /\ pushed' = dataAddr
  /\ pc' = "ctrl"
  /\ UNCHANGED <<sessionVars, received, batch, waited, envVars, sharedVars>>

\* client->state() is read even if the client has just been dropped: the bytes
\* of the old state and the old address are still there.
SendPad ==
  /\ pc = "push"
  /\ cstate = "Connected"
  /\ padMode
  /\ pushed' = dataAddr
  /\ pc' = "ctrl"
  /\ UNCHANGED <<sessionVars, received, batch, waited, envVars, sharedVars>>

\* Nothing is sent: not connected, not in pad mode, the polling time has not
\* elapsed, or sceNetSendto failed.
SkipPad ==
  /\ pc = "push"
  /\ pc' = "ctrl"
  /\ UNCHANGED <<sessionVars, received, batch, waited, pushed, envVars, sharedVars>>

-------------------------------------------------------------------------------
NetThreadNext ==
  \/ GetCtrl \/ EpollWait \/ ThreadExit \/ NetCtl
  \/ \E c \in Clients : add_client(c) \/ refuse_client(c)
  \/ AcceptFails \/ PublishClient
  \/ ClientHup \/ ClientIsNull \/ Receive \/ BufferExceeded
  \/ handle_heartbeat \/ handle_handshake \/ handle_config \/ NoMorePackets
  \/ WildRead \/ send_handshake_response \/ ResponseFails \/ NothingToSend
  \/ HeartbeatTimeout \/ SendPad \/ SkipPad

\* A second passes on the clock of the console without a heartbeat.  Without
\* "mute" the heartbeats of a PC that has not vanished are always in time.
Second ==
  /\ client # None
  /\ "mute" \in Faults \/ peer[client] = "vanished"
  /\ hbAge =< MaxHeartbeat
  /\ hbAge' = hbAge + 1
  /\ UNCHANGED <<client, cstate, armed, dataAddr, buffer, allocated, pollingTime,
                 loopVars, envVars, sharedVars>>
===============================================================================
