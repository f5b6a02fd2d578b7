---------------------------- MODULE NetServerProofs ----------------------------
(***************************************************************************)
(* Proofs about the network thread and its PCs, for every set of PCs and   *)
(* every bound.  They hold in any application that leaves the thread's     *)
(* variables alone: OpenSpec lets the others do anything with the shared   *)
(* data.  ServerSpec is one such application, VitaServer's another.        *)
(***************************************************************************)
EXTENDS NetServer, SequenceTheorems, TLAPS

USE DEF sharedVars, peerVars, netctlVars, envVars, sessionVars, loopVars, netVars

\* What the rest of the application may do to the thread.
OthersStep == UNCHANGED <<envVars, netVars>> /\ SharedTypeOK'

AnyNext == NetThreadNext \/ PeersStep \/ Second \/ OthersStep

OpenSpec == ServerInit /\ [][AnyNext]_serverVars

\* The pieces of a message that a PC may send are pieces of a stream.
LEMMA PiecesType ==
  ASSUME NEW m \in Message PROVE Pieces(m) \in Seq(Piece)
BY DEF Pieces, Piece

LEMMA PlainType ==
  ASSUME NEW t \in {"Handshake", "Heartbeat"} PROVE Plain(t) \in Message
BY DEF Plain, Message

\* What sceNetEpollWait reports is a sequence of events.
LEMMA BatchesType == Batches \subseteq Seq(EpollEvent)
<1>1. ServerEvents \subseteq EpollEvent
  BY DEF ServerEvents, EpollEvent, SocketType
<1>2. ClientEvents \subseteq EpollEvent
  BY DEF ClientEvents, EpollEvent, SocketType
<1>3. ASSUME NEW b \in OneEvent PROVE b \in Seq(EpollEvent)
  <2>1. PICK e \in ServerEvents \cup ClientEvents : b = <<e>>
    BY Zenon DEF OneEvent
  <2> QED
    BY <1>1, <1>2, <2>1
<1>4. ASSUME NEW b \in TwoEvents PROVE b \in Seq(EpollEvent)
  <2>1. PICK s \in ServerEvents, e \in ClientEvents : b = <<s, e>> \/ b = <<e, s>>
    BY DEF TwoEvents
  <2>2. s \in EpollEvent /\ e \in EpollEvent
    BY <1>1, <1>2
  <2>3. <<s, e>> \in Seq(EpollEvent) /\ <<e, s>> \in Seq(EpollEvent)
    BY <2>2
  <2> QED
    BY <2>1, <2>3
<1>5. << >> \in Seq(EpollEvent)
  OBVIOUS
<1> QED
  BY <1>3, <1>4, <1>5, Zenon DEF Batches

LEMMA InitType == ServerInit => ServerTypeOK
<1> SUFFICES ASSUME ServerInit PROVE ServerTypeOK
  OBVIOUS
<1> USE DEF ServerInit
<1>1. SharedTypeOK
  BY NetStartAssumption DEF SharedInit, SharedTypeOK
<1>2. PeersTypeOK
  BY PeersAssumption DEF PeersInit, PeersTypeOK
<1>3. NetTypeOK
  <2>1. 0 \in 0 .. MaxHeartbeat + 1
    BY NetThreadAssumption
  <2>2. << >> \in Seq(Piece) /\ << >> \in Seq(EpollEvent)
    OBVIOUS
  <2> QED
    BY <2>1, <2>2 DEF NetInit, NetTypeOK, SessionTypeOK, LoopTypeOK, ClientState
<1> QED
  BY <1>1, <1>2, <1>3 DEF ServerTypeOK

\* The sequences that the streams and the buffer are cut into.
LEMMA CutType ==
  ASSUME NEW S, NEW s \in Seq(S), NEW n \in 1 .. Len(s)
  PROVE  /\ SubSeq(s, 1, n) \in Seq(S)
         /\ SubSeq(s, n + 1, Len(s)) \in Seq(S)
<1>1. SubSeq(s, 1, n) \in Seq(S)
  BY SubSeqProperties
<1>2. SubSeq(s, n + 1, Len(s)) \in Seq(S)
  BY SubSeqProperties
<1> QED
  BY <1>1, <1>2

LEMMA TailTailType ==
  ASSUME NEW S, NEW s \in Seq(S), Len(s) >= 2
  PROVE  Tail(Tail(s)) \in Seq(S)
<1>1. Len(s) \in Nat
  BY LenProperties
<1>2. s # << >>
  BY <1>1, EmptySeq
<1>3. Tail(s) \in Seq(S) /\ Len(Tail(s)) = Len(s) - 1
  BY <1>2, HeadTailProperties
<1>4. Len(Tail(s)) # 0
  BY <1>1, <1>3
<1>5. Tail(s) # << >>
  BY <1>3, <1>4, EmptySeq
<1> QED
  BY <1>3, <1>5, HeadTailProperties

-------------------------------------------------------------------------------
(* Every step keeps the types.                                              *)

LEMMA PeersType == ServerTypeOK /\ PeersStep => ServerTypeOK'
<1> SUFFICES ASSUME ServerTypeOK, PeersStep PROVE ServerTypeOK'
  OBVIOUS
<1> USE DEF PeersStep, ServerTypeOK
<1>1. NetTypeOK'
  BY DEF NetTypeOK, SessionTypeOK, LoopTypeOK
<1>2. SharedTypeOK' /\ PeersTypeOK'
  <2> USE DEF SharedTypeOK, PeersTypeOK
  <2>1. CASE NetChange
    BY <2>1, PeersAssumption DEF NetChange, netctl_cb
  <2>2. ASSUME NEW c \in Clients, PeerStep(c) PROVE SharedTypeOK' /\ PeersTypeOK'
    <3>1. CASE Connect(c)
      BY <3>1 DEF Connect
    <3>2. ASSUME NEW m \in Message, Send(c, m) PROVE flight' \in [Clients -> Seq(Piece)]
      BY <3>2, PiecesType, ConcatProperties DEF Send
    <3>3. CASE SendHandshake(c)
      BY <3>2, <3>3, PlainType DEF SendHandshake, Send
    <3>4. CASE SendConfig(c)
      <4>1. PICK i \in PollingIntervals : Send(c, [type |-> "Config", interval |-> i])
        BY <3>4 DEF SendConfig
      <4>2. [type |-> "Config", interval |-> i] \in Message
        BY DEF Message
      <4> QED
        BY <3>2, <3>4, <4>1, <4>2 DEF SendConfig, Send
    <3>5. CASE SendHeartbeat(c)
      BY <3>2, <3>5, PlainType DEF SendHeartbeat, Send
    <3>6. CASE Arrive(c)
      <4>1. PICK n \in 1 .. Len(flight[c]) :
              /\ rx' = [rx EXCEPT ![c] = @ \o SubSeq(flight[c], 1, n)]
              /\ flight' = [flight EXCEPT ![c] = SubSeq(@, n + 1, Len(@))]
        BY <3>6 DEF Arrive
      <4>2. /\ SubSeq(flight[c], 1, n) \in Seq(Piece)
            /\ SubSeq(flight[c], n + 1, Len(flight[c])) \in Seq(Piece)
        BY CutType
      <4>3. rx[c] \o SubSeq(flight[c], 1, n) \in Seq(Piece)
        BY <4>2, ConcatProperties
      <4> QED
        BY <3>6, <4>1, <4>2, <4>3 DEF Arrive
    <3>7. CASE Close(c)
      BY <3>7 DEF Close
    <3>8. CASE Reset(c)
      BY <3>8 DEF Reset
    <3>9. CASE Vanish(c)
      BY <3>9 DEF Vanish
    <3> QED
      BY <2>2, <3>1, <3>3, <3>4, <3>5, <3>6, <3>7, <3>8, <3>9 DEF PeerStep
  <2> QED
    BY <2>1, <2>2 DEF PeersNext
<1> QED
  BY <1>1, <1>2

\* What the network thread's handlers have in common.
LEMMA CloseEndType ==
  ASSUME ServerTypeOK, NEW c \in Clients, CloseEnd(c)
  PROVE  /\ srv' \in [Clients -> {"none", "backlog", "open", "closed"}]
         /\ flight' \in [Clients -> Seq(Piece)] /\ rx' \in [Clients -> Seq(Piece)]
<1>1. << >> \in Seq(Piece)
  OBVIOUS
<1> QED
  BY <1>1 DEF CloseEnd, ServerTypeOK, PeersTypeOK

LEMMA ResetType ==
  ASSUME ServerTypeOK, ResetClient
  PROVE  /\ client' = None /\ armed' = FALSE /\ buffer' \in Seq(Piece)
         /\ allocated' = FALSE /\ hbAge' \in 0 .. MaxHeartbeat + 1
         /\ srv' \in [Clients -> {"none", "backlog", "open", "closed"}]
         /\ flight' \in [Clients -> Seq(Piece)] /\ rx' \in [Clients -> Seq(Piece)]
         /\ cstate' = cstate /\ dataAddr' = dataAddr /\ pollingTime' = pollingTime
<1>1. 0 \in 0 .. MaxHeartbeat + 1
  BY NetThreadAssumption
<1>2. << >> \in Seq(Piece)
  OBVIOUS
<1>3. /\ srv' \in [Clients -> {"none", "backlog", "open", "closed"}]
      /\ flight' \in [Clients -> Seq(Piece)] /\ rx' \in [Clients -> Seq(Piece)]
  <2>1. CASE client = None
    BY <2>1 DEF ResetClient, ServerTypeOK, PeersTypeOK
  <2>2. CASE client # None
    <3>1. client \in Clients /\ CloseEnd(client)
      BY <2>2 DEF ResetClient, ServerTypeOK, NetTypeOK, SessionTypeOK, LoopTypeOK
    <3> QED
      BY <3>1, CloseEndType
  <2> QED
    BY <2>1, <2>2
<1> QED
  BY <1>1, <1>2, <1>3 DEF ResetClient

LEMMA NextEventType ==
  ASSUME ServerTypeOK, pc \in {"event", "publish", "handle"}, NEW cl, NextEvent(cl)
  PROVE  /\ batch' \in Seq(EpollEvent)
         /\ pc' \in {"ctrl", "event", "timeout"}
         /\ pc' = "event" => batch' # << >>
         /\ received' = "wouldblock" /\ waited' = waited /\ pushed' = pushed
<1>1. batch \in Seq(EpollEvent) /\ batch # << >>
  BY DEF ServerTypeOK, NetTypeOK, SessionTypeOK, LoopTypeOK
<1>2. Tail(batch) \in Seq(EpollEvent)
  BY <1>1
<1> QED
  BY <1>2 DEF NextEvent, After

\* The shared data and the ends of the connections.
LEMMA NetThreadEnvType ==
  ASSUME ServerTypeOK, NetThreadNext PROVE SharedTypeOK' /\ PeersTypeOK'
<1> USE DEF ServerTypeOK, PeersKept, SharedKept
<1>1. CASE \/ EpollWait \/ AcceptFails \/ ClientIsNull \/ handle_heartbeat
           \/ handle_handshake \/ handle_config \/ WildRead \/ NothingToSend
           \/ SendPad \/ SkipPad
  <2>1. UNCHANGED <<envVars, sharedVars>>
    BY <1>1 DEF EpollWait, AcceptFails, ClientIsNull, handle_heartbeat, handle_handshake,
       handle_config, WildRead, NothingToSend, SendPad, SkipPad
  <2> QED
    BY <2>1 DEF SharedTypeOK, PeersTypeOK
<1>2. CASE GetCtrl
  BY <1>2 DEF GetCtrl, SharedTypeOK, PeersTypeOK
<1>3. ASSUME evflag' \in {evflag} \cup {evflag \cup {b} : b \in NetThreadEvents},
             SharedKept
      PROVE  SharedTypeOK'
  BY <1>3 DEF SharedTypeOK, MainEvent
<1>4. ASSUME ResetClient, PeersKept, responded' = responded PROVE PeersTypeOK'
  BY <1>4, ResetType DEF PeersTypeOK
<1>5. ASSUME KeepClient, PeersKept, responded' = responded PROVE PeersTypeOK'
  BY <1>5 DEF KeepClient, PeersTypeOK
<1>6. CASE ThreadExit
  BY <1>3, <1>4, <1>6 DEF ThreadExit
<1>7. CASE NetCtl
  <2>1. SharedTypeOK'
    BY <1>3, <1>7 DEF NetCtl, SetEventFlag, NetThreadEvents, KeepClient
  <2>2. CASE ncPending = {"Disconnected"}
    BY <1>7, <2>1, <2>2, ResetType DEF NetCtl, PeersTypeOK
  <2>3. CASE ncPending # {"Disconnected"}
    BY <1>7, <2>1, <2>3 DEF NetCtl, KeepClient, PeersTypeOK
  <2> QED
    BY <2>2, <2>3
<1>8. ASSUME NEW c \in Clients, add_client(c) PROVE SharedTypeOK' /\ PeersTypeOK'
  <2>1. SharedTypeOK'
    BY <1>3, <1>8 DEF add_client, SetEventFlag, NetThreadEvents
  <2>2. PeersTypeOK'
    BY <1>8 DEF add_client, PeersTypeOK
  <2> QED
    BY <2>1, <2>2
<1>9. ASSUME NEW c \in Clients, refuse_client(c) PROVE SharedTypeOK' /\ PeersTypeOK'
  <2>1. SharedTypeOK'
    BY <1>3, <1>9 DEF refuse_client
  <2>2. PeersTypeOK'
    BY <1>9, CloseEndType DEF refuse_client, PeersTypeOK
  <2> QED
    BY <2>1, <2>2
<1>10. CASE PublishClient
  BY <1>10 DEF PublishClient, SetEventFlag, MainEvent, NetThreadEvents, SharedTypeOK,
     PeersTypeOK, NetTypeOK, SessionTypeOK
<1>11. CASE ClientHup \/ BufferExceeded
  <2>1. SharedTypeOK'
    BY <1>3, <1>11 DEF ClientHup, BufferExceeded, disconnect_client, SetEventFlag,
       NetThreadEvents
  <2>2. PeersTypeOK'
    BY <1>4, <1>11 DEF ClientHup, BufferExceeded, disconnect_client
  <2> QED
    BY <2>1, <2>2
<1>12. CASE Receive
  <2>1. client \in Clients /\ << >> \in Seq(Piece)
    BY <1>12 DEF Receive, NetTypeOK, SessionTypeOK
  <2> QED
    BY <1>12, <2>1 DEF Receive, SharedTypeOK, PeersTypeOK
<1>13. CASE NoMorePackets
  <2>1. SharedTypeOK'
    BY <1>3, <1>13 DEF NoMorePackets, disconnect_client, SetEventFlag, NetThreadEvents
  <2>2. CASE ResetClient
    BY <1>4, <1>13, <2>1, <2>2 DEF NoMorePackets
  <2>3. CASE ~ResetClient
    BY <1>13, <2>1, <2>3 DEF NoMorePackets, disconnect_client, PeersTypeOK
  <2> QED
    BY <2>2, <2>3
<1>14. CASE send_handshake_response
  BY <1>14 DEF send_handshake_response, SharedTypeOK, PeersTypeOK
<1>15. CASE ResponseFails
  BY <1>3, <1>4, <1>5, <1>15
     DEF ResponseFails, KeepClient, disconnect_client, SetEventFlag, NetThreadEvents
<1>16. CASE HeartbeatTimeout
  BY <1>3, <1>4, <1>5, <1>16
     DEF HeartbeatTimeout, KeepClient, disconnect_client, SetEventFlag, NetThreadEvents
<1> QED
  BY <1>1, <1>2, <1>6, <1>7, <1>8, <1>9, <1>10, <1>11, <1>12, <1>13, <1>14, <1>15, <1>16
     DEF NetThreadNext

\* The client and what belongs to it.
LEMMA NetThreadSessionType ==
  ASSUME ServerTypeOK, NetThreadNext PROVE SessionTypeOK'
<1> USE DEF ServerTypeOK, NetTypeOK
<1>1. CASE \/ GetCtrl \/ EpollWait \/ AcceptFails \/ PublishClient \/ ClientIsNull
           \/ WildRead \/ NothingToSend \/ SendPad \/ SkipPad
           \/ \E c \in Clients : refuse_client(c)
  <2>1. UNCHANGED sessionVars
    BY <1>1 DEF GetCtrl, EpollWait, AcceptFails, PublishClient, ClientIsNull, WildRead,
       NothingToSend, SendPad, SkipPad, refuse_client
  <2> QED
    BY <2>1 DEF SessionTypeOK
<1>2. CASE ResetClient
  BY <1>2, ResetType DEF SessionTypeOK
<1>3. CASE KeepClient
  BY <1>3 DEF KeepClient, SessionTypeOK
<1>4. CASE ThreadExit \/ ClientHup \/ BufferExceeded \/ ResponseFails \/ HeartbeatTimeout
  BY <1>2, <1>3, <1>4
     DEF ThreadExit, ClientHup, BufferExceeded, ResponseFails, HeartbeatTimeout,
         disconnect_client
<1>5. CASE NetCtl
  <2>1. ResetClient \/ UNCHANGED sessionVars
    BY <1>5 DEF NetCtl, KeepClient
  <2> QED
    BY <1>2, <2>1 DEF SessionTypeOK
<1>6. ASSUME NEW c \in Clients, add_client(c) PROVE SessionTypeOK'
  <2>1. 0 \in 0 .. MaxHeartbeat + 1 /\ << >> \in Seq(Piece)
    BY NetThreadAssumption
  <2> QED
    BY <1>6, <2>1 DEF add_client, Emplace, ClientState, SessionTypeOK
<1>7. CASE Receive
  <2>1. client \in Clients
    BY <1>7 DEF Receive, SessionTypeOK
  <2>2. buffer' \in Seq(Piece)
    BY <1>7, <2>1, ConcatProperties DEF Receive, SessionTypeOK, PeersTypeOK
  <2> QED
    BY <1>7, <2>2 DEF Receive, SessionTypeOK
<1>8. ASSUME Complete, Consume PROVE buffer' \in Seq(Piece)
  <2>1. buffer \in Seq(Piece) /\ Len(buffer) >= 2
    BY <1>8 DEF Complete, SessionTypeOK
  <2> QED
    BY <1>8, <2>1, TailTailType DEF Consume
<1>9. CASE handle_heartbeat
  <2>1. 0 \in 0 .. MaxHeartbeat + 1
    BY NetThreadAssumption
  <2>2. buffer' \in Seq(Piece)
    BY <1>8, <1>9 DEF handle_heartbeat
  <2> QED
    BY <1>9, <2>1, <2>2 DEF handle_heartbeat, SessionTypeOK
<1>10. CASE handle_handshake
  <2>1. buffer' \in Seq(Piece)
    BY <1>8, <1>10 DEF handle_handshake
  <2> QED
    BY <1>10, <2>1 DEF handle_handshake, SessionTypeOK, ClientState
<1>11. CASE handle_config
  <2>1. buffer[1] \in Piece
    BY <1>11 DEF handle_config, Complete, SessionTypeOK
  <2>2. buffer[1].msg.interval \in PollingIntervals
    BY <1>11, <2>1 DEF handle_config, Piece, Message
  <2>3. buffer' \in Seq(Piece)
    BY <1>8, <1>11 DEF handle_config
  <2>4. pollingTime' \in {buffer[1].msg.interval, pollingTime}
    BY <1>11 DEF handle_config
  <2> QED
    BY <1>11, <2>2, <2>3, <2>4 DEF handle_config, SessionTypeOK
<1>12. CASE NoMorePackets
  <2>1. CASE ResetClient
    BY <1>2, <2>1
  <2>2. CASE ~ResetClient
    <3>1. << >> \in Seq(Piece)
      OBVIOUS
    <3> QED
      BY <1>12, <2>2, <3>1 DEF NoMorePackets, disconnect_client, SessionTypeOK
  <2> QED
    BY <2>1, <2>2
<1>13. CASE send_handshake_response
  BY <1>13 DEF send_handshake_response, SessionTypeOK, ClientState
<1> QED
  BY <1>1, <1>4, <1>5, <1>6, <1>7, <1>9, <1>10, <1>11, <1>12, <1>13
     DEF NetThreadNext

\* The place in the loop and the events it still has to handle.
LEMMA NetThreadLoopType ==
  ASSUME ServerTypeOK, NetThreadNext PROVE LoopTypeOK'
<1> USE DEF ServerTypeOK, NetTypeOK, Handling, IsHup, IsIn, IsOut
<1>1. ASSUME NEW cl, NextEvent(cl), pc \in {"event", "publish", "handle"}
      PROVE  LoopTypeOK'
  BY <1>1, NextEventType DEF LoopTypeOK
<1>2. CASE \/ PublishClient \/ ClientHup \/ ClientIsNull \/ BufferExceeded
           \/ NoMorePackets \/ send_handshake_response \/ ResponseFails \/ NothingToSend
  BY <1>1, <1>2
     DEF PublishClient, ClientHup, ClientIsNull, BufferExceeded, NoMorePackets,
         send_handshake_response, ResponseFails, NothingToSend
<1>3. CASE AcceptFails
  BY <1>1, <1>3 DEF AcceptFails, LoopTypeOK
<1>4. CASE GetCtrl
  BY <1>4 DEF GetCtrl, LoopTypeOK
<1>5. CASE EpollWait
  BY <1>5, BatchesType DEF EpollWait, LoopTypeOK, SessionTypeOK
<1>6. CASE ThreadExit
  BY <1>6 DEF ThreadExit, LoopTypeOK
<1>7. CASE NetCtl
  BY <1>7 DEF NetCtl, After, LoopTypeOK
<1>8. CASE \E c \in Clients : add_client(c) \/ refuse_client(c)
  BY <1>8 DEF add_client, refuse_client, LoopTypeOK
<1>9. CASE Receive
  BY <1>9 DEF Receive, LoopTypeOK
<1>10. CASE handle_heartbeat \/ handle_handshake \/ handle_config
  BY <1>10 DEF handle_heartbeat, handle_handshake, handle_config, LoopTypeOK
<1>11. CASE WildRead
  BY <1>11 DEF WildRead, LoopTypeOK
<1>12. CASE HeartbeatTimeout
  BY <1>12 DEF HeartbeatTimeout, LoopTypeOK
<1>13. CASE SendPad \/ SkipPad
  BY <1>13 DEF SendPad, SkipPad, LoopTypeOK, SessionTypeOK
<1> QED
  BY <1>2, <1>3, <1>4, <1>5, <1>6, <1>7, <1>8, <1>9, <1>10, <1>11, <1>12, <1>13
     DEF NetThreadNext

LEMMA NetThreadType == ServerTypeOK /\ NetThreadNext => ServerTypeOK'
BY NetThreadEnvType, NetThreadSessionType, NetThreadLoopType DEF ServerTypeOK, NetTypeOK

LEMMA ClockType == ServerTypeOK /\ Second => ServerTypeOK'
<1> SUFFICES ASSUME ServerTypeOK, Second PROVE ServerTypeOK'
  OBVIOUS
<1> USE DEF Second, ServerTypeOK
<1>1. SharedTypeOK' /\ PeersTypeOK'
  BY DEF SharedTypeOK, PeersTypeOK
<1>2. NetTypeOK'
  BY NetThreadAssumption DEF NetTypeOK, SessionTypeOK, LoopTypeOK
<1> QED
  BY <1>1, <1>2

LEMMA StepType == ServerTypeOK /\ [AnyNext]_serverVars => ServerTypeOK'
<1> SUFFICES ASSUME ServerTypeOK, [AnyNext]_serverVars PROVE ServerTypeOK'
  OBVIOUS
<1>1. CASE OthersStep \/ UNCHANGED serverVars
  <2>1. SharedTypeOK' /\ PeersTypeOK'
    BY <1>1 DEF OthersStep, serverVars, ServerTypeOK, SharedTypeOK, PeersTypeOK
  <2>2. SessionTypeOK' /\ LoopTypeOK'
    BY <1>1 DEF OthersStep, serverVars, ServerTypeOK, NetTypeOK, SessionTypeOK, LoopTypeOK
  <2> QED
    BY <2>1, <2>2 DEF ServerTypeOK, NetTypeOK
<1> QED
  BY <1>1, NetThreadType, PeersType, ClockType DEF AnyNext

LEMMA OpenTypes == OpenSpec => []ServerTypeOK
BY InitType, StepType, PTL DEF OpenSpec

-------------------------------------------------------------------------------
(* The invariant of the session.                                            *)

LEMMA InitInv == ServerInit => ServerInv
BY InitType, NoneAssumption
   DEF ServerInit, PeersInit, NetInit, ServerInv, IdleIsNew, OneSession, AddressIsClients,
       ConnectedConfirmed, PushConfirmed

\* The parts of the invariant beside the types.
SessionPart == IdleIsNew /\ OneSession /\ AddressIsClients /\ ConnectedConfirmed /\ PushConfirmed

LEMMA PeersInv == ServerInv /\ PeersStep => ServerInv'
<1> SUFFICES ASSUME ServerInv, PeersStep PROVE ServerInv'
  OBVIOUS
<1>1. ServerTypeOK'
  BY PeersType DEF ServerInv
<1>2. UNCHANGED <<responded, netVars>>
  BY DEF PeersStep, PeersNext, PeerStep, NetChange, Connect, SendHandshake, SendConfig,
     SendHeartbeat, Send, Arrive, Close, Reset, Vanish
<1>3. (IdleIsNew /\ OneSession)'
  <2> USE DEF ServerInv, IdleIsNew, OneSession, ServerTypeOK, PeersTypeOK
  <2>1. CASE NetChange
    BY <2>1, <1>2 DEF NetChange
  <2>2. ASSUME NEW c \in Clients, PeerStep(c) PROVE (IdleIsNew /\ OneSession)'
    <3>1. CASE Connect(c)
      BY <3>1, <1>2 DEF Connect
    <3>2. CASE Reset(c)
      BY <3>2, <1>2 DEF Reset, Alive
    <3>3. CASE Close(c) \/ Vanish(c)
      BY <3>3, <1>2 DEF Close, Vanish, Alive
    <3>4. CASE SendHandshake(c) \/ SendConfig(c) \/ SendHeartbeat(c) \/ Arrive(c)
      BY <3>4, <1>2 DEF SendHandshake, SendConfig, SendHeartbeat, Send, Arrive
    <3> QED
      BY <2>2, <3>1, <3>2, <3>3, <3>4 DEF PeerStep
  <2> QED
    BY <2>1, <2>2 DEF PeersStep, PeersNext
<1> QED
  BY <1>1, <1>2, <1>3
     DEF ServerInv, AddressIsClients, ConnectedConfirmed, PushConfirmed

-------------------------------------------------------------------------------
(* The steps of the network thread.                                         *)

\* Whoever loses the client slot leaves a session in order behind.
LEMMA ResetKeeps ==
  ASSUME ServerInv, ResetClient
  PROVE  /\ client' = None /\ cstate' = cstate /\ dataAddr' = dataAddr
         /\ \A c \in Clients : srv'[c] = IF c = client THEN "closed" ELSE srv[c]
<1> USE DEF ServerInv, ServerTypeOK, PeersTypeOK, NetTypeOK, SessionTypeOK, LoopTypeOK, ResetClient, CloseEnd
<1>1. CASE client = None
  BY <1>1, NoneAssumption
<1>2. CASE client # None
  BY <1>2
<1> QED
  BY <1>1, <1>2

\* A step that drops the client, and may raise a bit for it.
LEMMA DropInv ==
  ASSUME ServerInv, ResetClient,
         \A c \in Clients : peer'[c] = peer[c], responded' = responded,
         pushed' \in {pushed, None}
  PROVE  SessionPart'
<1>1. /\ client' = None /\ cstate' = cstate /\ dataAddr' = dataAddr
      /\ \A c \in Clients : srv'[c] = IF c = client THEN "closed" ELSE srv[c]
  BY ResetKeeps
<1>2. IdleIsNew' /\ OneSession'
  BY <1>1, NoneAssumption DEF ServerInv, IdleIsNew, OneSession
<1>3. AddressIsClients' /\ ConnectedConfirmed' /\ PushConfirmed'
  BY <1>1 DEF ServerInv, AddressIsClients, ConnectedConfirmed, PushConfirmed
<1> QED
  BY <1>2, <1>3 DEF SessionPart

\* A step that keeps the client and its session.
LEMMA KeepInv ==
  ASSUME ServerInv, UNCHANGED <<peer, srv, responded, client, cstate, dataAddr>>,
         pushed' \in {pushed, None}
  PROVE  SessionPart'
BY DEF ServerInv, SessionPart, IdleIsNew, OneSession, AddressIsClients, ConnectedConfirmed,
   PushConfirmed

LEMMA NetThreadInv == ServerInv /\ NetThreadNext => ServerInv'
<1> SUFFICES ASSUME ServerInv, NetThreadNext PROVE ServerInv'
  OBVIOUS
<1>0. ServerTypeOK'
  BY NetThreadType DEF ServerInv
<1> SUFFICES SessionPart'
  BY <1>0 DEF ServerInv, SessionPart
<1> USE DEF PeersKept, SharedKept, NextEvent, SetEventFlag
<1>1. CASE \/ EpollWait \/ AcceptFails \/ ClientIsNull \/ Receive \/ handle_heartbeat
           \/ handle_config \/ WildRead \/ NothingToSend \/ SkipPad \/ GetCtrl
           \/ PublishClient
  <2>1. UNCHANGED <<peer, srv, responded, client, cstate, dataAddr>>
    BY <1>1 DEF EpollWait, AcceptFails, ClientIsNull, Receive, handle_heartbeat,
       handle_config, WildRead, NothingToSend, SkipPad, GetCtrl, PublishClient
  <2>2. pushed' \in {pushed, None}
    BY <1>1 DEF EpollWait, AcceptFails, ClientIsNull, Receive, handle_heartbeat,
       handle_config, WildRead, NothingToSend, SkipPad, GetCtrl, PublishClient
  <2> QED
    BY <2>1, <2>2, KeepInv
<1>2. CASE ThreadExit
  BY <1>2, DropInv DEF ThreadExit
<1>3. CASE NetCtl
  <2>1. CASE ncPending = {"Disconnected"}
    BY <1>3, <2>1, DropInv DEF NetCtl
  <2>2. CASE ncPending # {"Disconnected"}
    BY <1>3, <2>2, KeepInv DEF NetCtl, KeepClient
  <2> QED
    BY <2>1, <2>2
<1>4. ASSUME NEW c \in Clients, add_client(c) PROVE SessionPart'
  <2>1. /\ client = None /\ client' = c /\ cstate' = "WaitingForHandshake"
        /\ srv[c] = "backlog" /\ srv' = [srv EXCEPT ![c] = "open"]
        /\ UNCHANGED <<peer, responded, pushed, dataAddr>>
    BY <1>4 DEF add_client, Emplace, Waiting
  <2>2. IdleIsNew' /\ OneSession'
    BY <2>1, NoneAssumption DEF ServerInv, IdleIsNew, OneSession, ServerTypeOK,
       PeersTypeOK
  <2>3. AddressIsClients' /\ ConnectedConfirmed' /\ PushConfirmed'
    BY <2>1 DEF ServerInv, AddressIsClients, ConnectedConfirmed, PushConfirmed
  <2> QED
    BY <2>2, <2>3 DEF SessionPart
<1>5. ASSUME NEW c \in Clients, refuse_client(c) PROVE SessionPart'
  <2>1. /\ client # None /\ srv[c] = "backlog" /\ srv' = [srv EXCEPT ![c] = "closed"]
        /\ UNCHANGED <<peer, responded, pushed, evflag, client, cstate, dataAddr>>
    BY <1>5 DEF refuse_client, Waiting, CloseEnd
  <2>2. IdleIsNew' /\ OneSession'
    BY <2>1 DEF ServerInv, IdleIsNew, OneSession, ServerTypeOK, PeersTypeOK
  <2>3. AddressIsClients' /\ ConnectedConfirmed' /\ PushConfirmed'
    BY <2>1 DEF ServerInv, AddressIsClients, ConnectedConfirmed, PushConfirmed
  <2> QED
    BY <2>2, <2>3 DEF SessionPart
<1>6. CASE ClientHup \/ BufferExceeded
  BY <1>6, DropInv DEF ClientHup, BufferExceeded, disconnect_client
<1>7. CASE handle_handshake
  <2>1. /\ dataAddr' = client /\ client' = client
        /\ cstate' = "WaitingForServerConfirm"
        /\ UNCHANGED <<peer, srv, responded, pushed, evflag>>
    BY <1>7 DEF handle_handshake
  <2>2. IdleIsNew' /\ OneSession' /\ AddressIsClients' /\ ConnectedConfirmed' /\ PushConfirmed'
    BY <2>1 DEF ServerInv, IdleIsNew, OneSession, AddressIsClients, ConnectedConfirmed,
       PushConfirmed
  <2> QED
    BY <2>2 DEF SessionPart
<1>8. CASE NoMorePackets
  <2>1. CASE ResetClient
    BY <1>8, <2>1, DropInv DEF NoMorePackets
  <2>2. CASE ~ResetClient
    BY <1>8, <2>2, KeepInv DEF NoMorePackets, disconnect_client
  <2> QED
    BY <2>1, <2>2
<1>9. CASE send_handshake_response
  <2>1. /\ client # None /\ cstate = "WaitingForServerConfirm"
        /\ responded' = [responded EXCEPT ![client] = TRUE] /\ cstate' = "Connected"
        /\ UNCHANGED <<client, dataAddr, peer, srv, pushed, evflag>>
    BY <1>9 DEF send_handshake_response
  <2>2. /\ client \in Clients /\ dataAddr = client
        /\ responded \in [Clients -> BOOLEAN] /\ pushed \in Clients \cup {None}
    BY <2>1 DEF ServerInv, ServerTypeOK, PeersTypeOK, NetTypeOK, SessionTypeOK, LoopTypeOK, AddressIsClients
  <2>3. \A c \in Clients : responded[c] => responded'[c]
    BY <2>1, <2>2
  <2>4. ConnectedConfirmed' /\ PushConfirmed'
    BY <2>1, <2>2, <2>3 DEF ServerInv, ConnectedConfirmed, PushConfirmed
  <2>5. IdleIsNew' /\ OneSession' /\ AddressIsClients'
    BY <2>1, <2>2 DEF ServerInv, IdleIsNew, OneSession, AddressIsClients
  <2> QED
    BY <2>4, <2>5 DEF SessionPart
<1>10. CASE ResponseFails
  <2>1. CASE ResetClient
    BY <1>10, <2>1, DropInv DEF ResponseFails
  <2>2. CASE ~ResetClient
    BY <1>10, <2>2, KeepInv DEF ResponseFails, KeepClient, disconnect_client
  <2> QED
    BY <2>1, <2>2
<1>11. CASE HeartbeatTimeout
  <2>1. CASE ResetClient
    BY <1>11, <2>1, DropInv DEF HeartbeatTimeout
  <2>2. CASE ~ResetClient
    BY <1>11, <2>2, KeepInv DEF HeartbeatTimeout, KeepClient, disconnect_client
  <2> QED
    BY <2>1, <2>2
<1>12. CASE SendPad
  BY <1>12 DEF SendPad, ServerInv, SessionPart, IdleIsNew, OneSession,
     AddressIsClients, ConnectedConfirmed, PushConfirmed
<1> QED
  BY <1>1, <1>2, <1>3, <1>4, <1>5, <1>6, <1>7, <1>8, <1>9, <1>10, <1>11, <1>12
     DEF NetThreadNext

LEMMA ClockInv == ServerInv /\ Second => ServerInv'
<1> SUFFICES ASSUME ServerInv, Second PROVE ServerInv'
  OBVIOUS
<1>1. ServerTypeOK'
  BY ClockType DEF ServerInv
<1>2. SessionPart'
  BY KeepInv DEF Second
<1> QED
  BY <1>1, <1>2 DEF ServerInv, SessionPart

LEMMA StepInv == ServerInv /\ [AnyNext]_serverVars => ServerInv'
<1> SUFFICES ASSUME ServerInv, [AnyNext]_serverVars PROVE ServerInv'
  OBVIOUS
<1>1. CASE OthersStep \/ UNCHANGED serverVars
  <2>1. ServerTypeOK'
    BY StepType DEF ServerInv
  <2>2. SessionPart'
    BY <1>1, KeepInv DEF OthersStep, serverVars
  <2> QED
    BY <2>1, <2>2 DEF ServerInv, SessionPart
<1> QED
  BY <1>1, NetThreadInv, PeersInv, ClockInv DEF AnyNext

LEMMA OpenInvariance == OpenSpec => []ServerInv
BY InitInv, StepInv, PTL DEF OpenSpec

-------------------------------------------------------------------------------
(* The application of the runs, whose main thread changes the pad mode and  *)
(* may ask the thread to stop at any moment.                                *)

LEMMA ServerStep ==
  ServerTypeOK /\ [ServerNext]_serverVars => [AnyNext]_serverVars
<1> SUFFICES ASSUME ServerTypeOK, ServerNext PROVE AnyNext
  OBVIOUS
<1>1. CASE PadModeChanges \/ StopRequested
  BY <1>1 DEF PadModeChanges, StopRequested, OthersStep, AnyNext, ServerTypeOK, SharedTypeOK
<1> QED
  BY <1>1 DEF ServerNext, AnyNext

\* Every variable of the thread, the shared data and the connections keeps to its
\* type, for any set of PCs and any bounds.
THEOREM ServerTypeCorrect == ServerSpec => []ServerTypeOK
<1>1. ServerTypeOK /\ [ServerNext]_serverVars => ServerTypeOK'
  BY ServerStep, StepType
<1> QED
  BY <1>1, InitType, PTL DEF ServerSpec

\* The application is one of those that OpenSpec allows.
LEMMA ServerIsOpen == ServerSpec => OpenSpec
BY ServerTypeCorrect, ServerStep, PTL DEF ServerSpec, OpenSpec

\* The strengthened invariant of the session holds of every reachable state.
THEOREM ServerInvariance == ServerSpec => []ServerInv
BY ServerIsOpen, OpenInvariance, PTL

\* No socket leaks and none is used after its close: the connections that are open
\* are exactly the one in the client slot, whenever main stops the thread.
THEOREM ServerSlot == ServerSpec => []OneSession
<1>1. ServerInv => OneSession
  BY DEF ServerInv
<1> QED
  BY <1>1, ServerInvariance, PTL

\* The data address of a client past its handshake is its own, although no
\* constructor and no reset writes that member.
THEOREM ServerAddress == ServerSpec => []AddressIsClients
<1>1. ServerInv => AddressIsClients
  BY DEF ServerInv
<1> QED
  BY <1>1, ServerInvariance, PTL

\* Pad data goes to no PC that was not sent the handshake response, however main
\* changes the pad mode.
THEOREM ServerPush == ServerSpec => []PushConfirmed
<1>1. ServerInv => PushConfirmed
  BY DEF ServerInv
<1> QED
  BY <1>1, ServerInvariance, PTL
===============================================================================
