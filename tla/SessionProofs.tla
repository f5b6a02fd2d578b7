----------------------------- MODULE SessionProofs ----------------------------
(***************************************************************************)
(* What a session can rely on, for any number of PCs and any faults: its   *)
(* handshake is its own, it is answered, because EPOLLOUT stays registered *)
(* until it is, it ends only for a cause, and the thread implements        *)
(* SessionSlot.  As in NetServerProofs, in any application.                *)
(***************************************************************************)
EXTENDS NetServerProofs

USE DEF sharedVars, peerVars, netctlVars, envVars, sessionVars, loopVars, netVars

-------------------------------------------------------------------------------
(* Handshakes in streams.                                                   *)

LEMMA GreetsEmpty == ~Greets(<< >>)
BY DEF Greets

LEMMA GreetsConcat ==
  ASSUME NEW s \in Seq(Piece), NEW t \in Seq(Piece), Greets(s \o t)
  PROVE  Greets(s) \/ Greets(t)
<1>1. Len(s) \in Nat /\ Len(t) \in Nat /\ Len(s \o t) = Len(s) + Len(t)
  BY LenProperties, ConcatProperties
<1>2. PICK i \in 1 .. Len(s \o t) : (s \o t)[i].msg.type = "Handshake"
  BY DEF Greets
<1>3. CASE i =< Len(s)
  <2>1. (s \o t)[i] = s[i]
    BY <1>1, <1>2, <1>3, ConcatProperties
  <2> QED
    BY <1>1, <1>2, <1>3, <2>1 DEF Greets
<1>4. CASE i > Len(s)
  <2>1. (s \o t)[i] = t[i - Len(s)] /\ i - Len(s) \in 1 .. Len(t)
    BY <1>1, <1>2, <1>4, ConcatProperties
  <2> QED
    BY <1>2, <2>1 DEF Greets
<1> QED
  BY <1>1, <1>2, <1>3, <1>4

LEMMA GreetsSub ==
  ASSUME NEW s \in Seq(Piece), NEW m \in 1 .. Len(s) + 1, NEW n \in m - 1 .. Len(s),
         Greets(SubSeq(s, m, n))
  PROVE  Greets(s)
<1>1. Len(s) \in Nat
  BY LenProperties
<1>2. Len(SubSeq(s, m, n)) = n - m + 1
      /\ \A i \in 1 .. n - m + 1 : SubSeq(s, m, n)[i] = s[m + i - 1]
  BY <1>1, SubSeqProperties
<1>3. PICK i \in 1 .. Len(SubSeq(s, m, n)) : SubSeq(s, m, n)[i].msg.type = "Handshake"
  BY DEF Greets
<1>4. m + i - 1 \in 1 .. Len(s) /\ s[m + i - 1].msg.type = "Handshake"
  BY <1>1, <1>2, <1>3
<1> QED
  BY <1>4 DEF Greets

LEMMA GreetsTail ==
  ASSUME NEW s \in Seq(Piece), s # << >>, Greets(Tail(s))
  PROVE  Greets(s)
<1>1. Len(s) \in Nat /\ Len(Tail(s)) = Len(s) - 1
  BY LenProperties, HeadTailProperties
<1>2. PICK i \in 1 .. Len(Tail(s)) : Tail(s)[i].msg.type = "Handshake"
  BY DEF Greets
<1>3. Tail(s)[i] = s[i + 1] /\ i + 1 \in 1 .. Len(s)
  BY <1>1, <1>2, HeadTailProperties
<1> QED
  BY <1>2, <1>3 DEF Greets

LEMMA GreetsTailTail ==
  ASSUME NEW s \in Seq(Piece), Len(s) >= 2, Greets(Tail(Tail(s)))
  PROVE  Greets(s)
<1>0. Len(s) \in Nat /\ s # << >>
  BY LenProperties, EmptySeq
<1>1. s # << >> /\ Tail(s) \in Seq(Piece) /\ Len(Tail(s)) = Len(s) - 1
  BY <1>0, HeadTailProperties
<1>2. Len(Tail(s)) # 0
  BY <1>0, <1>1
<1>3. Tail(s) # << >>
  BY <1>1, <1>2, EmptySeq
<1> QED
  BY <1>1, <1>3, GreetsTail

LEMMA GreetsPieces ==
  ASSUME NEW m \in Message, Greets(Pieces(m)) PROVE m.type = "Handshake"
BY DEF Greets, Pieces
-------------------------------------------------------------------------------
(* A response is owed only to a PC that shook hands in its own connection.  *)

LEMMA OwnInit == ServerInit => OwnHandshake
BY NoneAssumption, GreetsEmpty DEF ServerInit, PeersInit, NetInit, OwnHandshake

\* A step that puts nothing into a stream or the buffer.
LEMMA OwnKept ==
  ASSUME OwnHandshake,
         \A c \in Clients : /\ said[c] \subseteq said'[c]
                            /\ flight'[c] \in {flight[c], << >>}
                            /\ rx'[c] \in {rx[c], << >>},
         client' \in {client, None},
         client # None => client \in Clients,
         buffer' \in {buffer, << >>},
         cstate' \in {cstate, "Connected"}
  PROVE  OwnHandshake'
BY GreetsEmpty DEF OwnHandshake

LEMMA OwnEnv == ServerInv /\ OwnHandshake /\ PeersStep => OwnHandshake'
<1> SUFFICES ASSUME ServerInv, OwnHandshake, PeersStep PROVE OwnHandshake'
  OBVIOUS
<1>0. /\ flight \in [Clients -> Seq(Piece)] /\ rx \in [Clients -> Seq(Piece)]
      /\ said \in [Clients -> SUBSET {"Handshake", "Config"}]
      /\ client # None => client \in Clients
      /\ UNCHANGED netVars
  BY DEF ServerInv, ServerTypeOK, PeersTypeOK, NetTypeOK, SessionTypeOK, PeersStep
<1>1. CASE NetChange
  BY <1>0, <1>1, OwnKept DEF NetChange
<1>2. ASSUME NEW c \in Clients, PeerStep(c) PROVE OwnHandshake'
  <2>1. CASE Connect(c)
    BY <1>0, <2>1, OwnKept DEF Connect
  <2>2. ASSUME NEW m \in Message, Send(c, m), m.type = "Handshake" => "Handshake" \in said'[c],
               \A d \in Clients : said[d] \subseteq said'[d]
        PROVE  OwnHandshake'
    <3>1. Pieces(m) \in Seq(Piece)
      BY PiecesType
    <3>2. rx' = rx /\ flight' = [flight EXCEPT ![c] = flight[c] \o Pieces(m)]
      BY <2>2 DEF Send
    <3>3. Greets(flight'[c]) => "Handshake" \in said'[c]
      <4>1. flight'[c] = flight[c] \o Pieces(m)
        BY <1>0, <3>2
      <4>2. Greets(flight'[c]) => Greets(flight[c]) \/ Greets(Pieces(m))
        BY <1>0, <3>1, <4>1, GreetsConcat
      <4>3. Greets(flight[c]) => "Handshake" \in said[c]
        BY DEF OwnHandshake
      <4> QED
        BY <2>2, <4>2, <4>3, GreetsPieces
    <3>4. \A d \in Clients : d # c => flight'[d] = flight[d]
      BY <1>0, <3>2
    <3> QED
      BY <1>0, <2>2, <3>2, <3>3, <3>4 DEF OwnHandshake
  <2>3. CASE SendHandshake(c)
    <3>1. Plain("Handshake") \in Message /\ Send(c, Plain("Handshake"))
      BY <2>3, PlainType DEF SendHandshake
    <3>2. said' = [said EXCEPT ![c] = said[c] \cup {"Handshake"}]
      BY <2>3 DEF SendHandshake
    <3> QED
      BY <1>0, <2>2, <3>1, <3>2
  <2>4. CASE SendConfig(c)
    <3>1. PICK i \in PollingIntervals : Send(c, [type |-> "Config", interval |-> i])
      BY <2>4 DEF SendConfig
    <3>2. said' = [said EXCEPT ![c] = said[c] \cup {"Config"}]
      BY <2>4 DEF SendConfig
    <3>3. [type |-> "Config", interval |-> i] \in Message
      BY DEF Message
    <3> QED
      BY <1>0, <2>2, <3>1, <3>2, <3>3
  <2>5. CASE SendHeartbeat(c)
    <3>1. Plain("Heartbeat") \in Message /\ Plain("Heartbeat").type = "Heartbeat"
          /\ Send(c, Plain("Heartbeat")) /\ said' = said
      BY <2>5, PlainType DEF SendHeartbeat, Plain
    <3> QED
      BY <2>2, <3>1
  <2>6. CASE Arrive(c)
    <3>1. PICK n \in 1 .. Len(flight[c]) :
            /\ rx' = [rx EXCEPT ![c] = @ \o SubSeq(flight[c], 1, n)]
            /\ flight' = [flight EXCEPT ![c] = SubSeq(@, n + 1, Len(@))]
      BY <2>6 DEF Arrive
    <3>2. /\ flight[c] \in Seq(Piece) /\ rx[c] \in Seq(Piece) /\ Len(flight[c]) \in Nat
          /\ SubSeq(flight[c], 1, n) \in Seq(Piece)
      BY <1>0, CutType, LenProperties
    <3>3. Greets(SubSeq(flight[c], 1, n)) => Greets(flight[c])
      BY <3>2, GreetsSub
    <3>4. Greets(SubSeq(flight[c], n + 1, Len(flight[c]))) => Greets(flight[c])
      BY <3>2, GreetsSub
    <3>5. Greets(flight'[c]) \/ Greets(rx'[c]) => Greets(flight[c]) \/ Greets(rx[c])
      BY <1>0, <3>1, <3>2, <3>3, <3>4, GreetsConcat
    <3>6. \A d \in Clients : d # c => flight'[d] = flight[d] /\ rx'[d] = rx[d]
      BY <1>0, <3>1
    <3>7. said' = said
      BY <2>6 DEF Arrive
    <3> QED
      BY <1>0, <3>5, <3>6, <3>7 DEF OwnHandshake
  <2>7. CASE Close(c) \/ Vanish(c)
    BY <1>0, <2>7, OwnKept DEF Close, Vanish
  <2>8. CASE Reset(c)
    BY <1>0, <2>8, OwnKept DEF Reset
  <2> QED
    BY <1>2, <2>1, <2>3, <2>4, <2>5, <2>6, <2>7, <2>8 DEF PeerStep
<1> QED
  BY <1>1, <1>2 DEF PeersStep, PeersNext

\* Closing an end leaves its streams empty.
LEMMA CloseEndStreams ==
  ASSUME flight \in [Clients -> Seq(Piece)], rx \in [Clients -> Seq(Piece)],
         NEW d \in Clients, CloseEnd(d)
  PROVE  \A c \in Clients : flight'[c] \in {flight[c], << >>} /\ rx'[c] \in {rx[c], << >>}
BY DEF CloseEnd

LEMMA OwnNet == ServerInv /\ OwnHandshake /\ NetThreadNext => OwnHandshake'
<1> SUFFICES ASSUME ServerInv, OwnHandshake, NetThreadNext PROVE OwnHandshake'
  OBVIOUS
<1>0. /\ flight \in [Clients -> Seq(Piece)] /\ rx \in [Clients -> Seq(Piece)]
      /\ client # None => client \in Clients
      /\ buffer \in Seq(Piece)
  BY DEF ServerInv, ServerTypeOK, PeersTypeOK, NetTypeOK, SessionTypeOK
<1>1. ASSUME ResetClient, said' = said PROVE OwnHandshake'
  <2>1. \A c \in Clients : flight'[c] \in {flight[c], << >>} /\ rx'[c] \in {rx[c], << >>}
    BY <1>0, <1>1, CloseEndStreams DEF ResetClient
  <2>2. client' = None /\ buffer' = << >> /\ cstate' = cstate
    BY <1>1 DEF ResetClient
  <2> QED
    BY <1>0, <1>1, <2>1, <2>2, OwnKept
<1>2. ASSUME UNCHANGED <<client, cstate, flight, rx, said>>, buffer' \in {buffer, << >>}
      PROVE  OwnHandshake'
  BY <1>0, <1>2, OwnKept
<1>3. ASSUME UNCHANGED <<client, cstate, flight, rx, said>>, Complete, Consume
      PROVE  OwnHandshake'
  <2>1. Greets(buffer') => Greets(buffer)
    BY <1>0, <1>3, GreetsTailTail DEF Complete, Consume
  <2> QED
    BY <1>3, <2>1 DEF OwnHandshake
<1> USE DEF PeersKept
<1>4. CASE \/ GetCtrl \/ EpollWait \/ AcceptFails \/ PublishClient \/ ClientIsNull
           \/ WildRead \/ NothingToSend \/ SendPad \/ SkipPad
  BY <1>2, <1>4 DEF GetCtrl, EpollWait, AcceptFails, PublishClient, ClientIsNull, WildRead,
     NothingToSend, SendPad, SkipPad
<1>5. CASE ThreadExit \/ ClientHup \/ BufferExceeded
  BY <1>1, <1>5 DEF ThreadExit, ClientHup, BufferExceeded, disconnect_client
<1>6. CASE NetCtl
  <2>1. CASE ResetClient
    BY <1>1, <1>6, <2>1 DEF NetCtl
  <2>2. CASE ~ResetClient
    BY <1>2, <1>6, <2>2 DEF NetCtl, KeepClient
  <2> QED
    BY <2>1, <2>2
<1>7. CASE HeartbeatTimeout \/ ResponseFails
  <2>1. CASE ResetClient
    BY <1>1, <1>7, <2>1 DEF HeartbeatTimeout, ResponseFails
  <2>2. CASE ~ResetClient
    BY <1>2, <1>7, <2>2 DEF HeartbeatTimeout, ResponseFails, KeepClient, disconnect_client
  <2> QED
    BY <2>1, <2>2
<1>8. ASSUME NEW c \in Clients, add_client(c) PROVE OwnHandshake'
  <2>1. /\ client' = c /\ cstate' = "WaitingForHandshake" /\ buffer' = << >>
        /\ UNCHANGED <<flight, rx, said>>
    BY <1>8 DEF add_client, Emplace
  <2> QED
    BY <2>1, GreetsEmpty DEF OwnHandshake
<1>9. ASSUME NEW c \in Clients, refuse_client(c) PROVE OwnHandshake'
  <2>1. \A d \in Clients : flight'[d] \in {flight[d], << >>} /\ rx'[d] \in {rx[d], << >>}
    BY <1>0, <1>9, CloseEndStreams DEF refuse_client
  <2>2. UNCHANGED <<client, cstate, buffer, said>>
    BY <1>9 DEF refuse_client
  <2> QED
    BY <1>0, <2>1, <2>2, OwnKept
<1>10. CASE Receive
  <2>1. /\ client \in Clients /\ buffer' = buffer \o rx[client]
        /\ rx' = [rx EXCEPT ![client] = << >>]
        /\ UNCHANGED <<client, cstate, flight, said>>
    BY <1>0, <1>10 DEF Receive
  <2>2. Greets(buffer') => Greets(buffer) \/ Greets(rx[client])
    BY <1>0, <2>1, GreetsConcat
  <2>3. \A c \in Clients : rx'[c] \in {rx[c], << >>}
    BY <1>0, <2>1
  <2> QED
    BY <1>0, <2>1, <2>2, <2>3, GreetsEmpty DEF OwnHandshake
<1>11. CASE handle_heartbeat \/ handle_config
  BY <1>3, <1>11 DEF handle_heartbeat, handle_config
<1>12. CASE handle_handshake
  <2>1. /\ Complete /\ Consume /\ buffer[1].msg.type = "Handshake"
        /\ UNCHANGED <<client, flight, rx, said>>
    BY <1>12 DEF handle_handshake
  <2>2. Greets(buffer)
    <3>1. 1 \in 1 .. Len(buffer)
      BY <1>0, <2>1, LenProperties DEF Complete
    <3> QED
      BY <2>1, <3>1 DEF Greets
  <2> QED
    BY <2>1, <2>2 DEF OwnHandshake
<1>13. CASE NoMorePackets
  <2>1. CASE ResetClient
    BY <1>1, <1>13, <2>1 DEF NoMorePackets
  <2>2. CASE ~ResetClient
    BY <1>2, <1>13, <2>2 DEF NoMorePackets, disconnect_client
  <2> QED
    BY <2>1, <2>2
<1>14. CASE send_handshake_response
  BY <1>0, <1>14, OwnKept DEF send_handshake_response
<1> QED
  BY <1>4, <1>5, <1>6, <1>7, <1>8, <1>9, <1>10, <1>11, <1>12, <1>13, <1>14
     DEF NetThreadNext

LEMMA OwnStep == ServerInv /\ OwnHandshake /\ [AnyNext]_serverVars => OwnHandshake'
<1> SUFFICES ASSUME ServerInv, OwnHandshake, [AnyNext]_serverVars PROVE OwnHandshake'
  OBVIOUS
<1>1. CASE OthersStep \/ Second \/ UNCHANGED serverVars
  <2>1. UNCHANGED <<flight, rx, said, client, cstate, buffer>>
    BY <1>1 DEF OthersStep, Second, serverVars
  <2> QED
    BY <2>1 DEF OwnHandshake
<1> QED
  BY <1>1, OwnEnv, OwnNet DEF AnyNext

LEMMA OpenOwn == OpenSpec => []OwnHandshake
BY OwnInit, OwnStep, OpenInvariance, PTL DEF OpenSpec

\* The server owes its response to the PC that asked for it: no session finds
\* the handshake of another one in its streams, its buffer or its state.
THEOREM ServerHandshake == ServerSpec => []OwnHandshake
BY ServerIsOpen, OpenOwn, PTL

-------------------------------------------------------------------------------
(* The refinement of SessionSlot.                                           *)

SlotInv == ServerInv /\ OwnHandshake

LEMMA SlotInit == ServerInit => Slot!SlotInit
BY DEF ServerInit, PeersInit, NetInit, Slot!SlotInit

\* Nothing that the slot speaks of changes, except where data goes.
LEMMA SlotPush ==
  ASSUME ServerInv', UNCHANGED <<srv, said, responded>>
  PROVE  [Slot!SlotNext]_Slot!slotVars
<1>1. pushed' \in {c \in Clients : responded[c]} \cup {None}
  BY DEF ServerInv, PushConfirmed, ServerTypeOK, NetTypeOK, LoopTypeOK
<1>2. Slot!Push
  BY <1>1 DEF Slot!Push
<1> QED
  BY <1>2 DEF Slot!SlotNext

\* The end of a connection, queued or held.
LEMMA SlotEnd ==
  ASSUME NEW c \in Clients, srv[c] \in {"backlog", "open"},
         srv' = [srv EXCEPT ![c] = "closed"], UNCHANGED <<said, responded, pushed>>
  PROVE  [Slot!SlotNext]_Slot!slotVars
<1>1. Slot!End(c)
  BY DEF Slot!End
<1> QED
  BY <1>1 DEF Slot!SlotNext

\* A step that empties the slot, if there is a client in it.
LEMMA SlotReset ==
  ASSUME ServerInv, ServerInv', ResetClient, UNCHANGED <<said, responded, pushed>>
  PROVE  [Slot!SlotNext]_Slot!slotVars
<1>1. CASE client = None
  BY <1>1, SlotPush DEF ResetClient
<1>2. CASE client # None
  <2>1. client \in Clients /\ srv[client] = "open"
    BY <1>2 DEF ServerInv, OneSession, ServerTypeOK, NetTypeOK, SessionTypeOK
  <2>2. srv' = [srv EXCEPT ![client] = "closed"]
    BY <1>2 DEF ResetClient, CloseEnd
  <2> QED
    BY <2>1, <2>2, SlotEnd
<1> QED
  BY <1>1, <1>2

LEMMA SlotEnv ==
  SlotInv /\ SlotInv' /\ PeersStep => [Slot!SlotNext]_Slot!slotVars
<1> SUFFICES ASSUME SlotInv, SlotInv', PeersStep PROVE [Slot!SlotNext]_Slot!slotVars
  OBVIOUS
<1>0. /\ ServerInv /\ ServerInv' /\ UNCHANGED pushed
      /\ srv \in [Clients -> {"none", "backlog", "open", "closed"}]
  BY DEF SlotInv, PeersStep, ServerInv, ServerTypeOK, PeersTypeOK
<1>1. CASE NetChange
  BY <1>0, <1>1, SlotPush DEF NetChange
<1>2. ASSUME NEW c \in Clients, PeerStep(c) PROVE [Slot!SlotNext]_Slot!slotVars
  <2>1. CASE Connect(c)
    <3>1. Slot!Queue(c)
      BY <1>0, <2>1 DEF Connect, Slot!Queue, ServerInv, IdleIsNew
    <3> QED
      BY <3>1 DEF Slot!SlotNext
  <2>2. CASE SendHandshake(c)
    <3>1. Slot!Say(c, "Handshake")
      BY <1>0, <2>2 DEF SendHandshake, Send, Alive, Slot!Say
    <3> QED
      BY <3>1 DEF Slot!SlotNext
  <2>3. CASE SendConfig(c)
    <3>1. Slot!Say(c, "Config")
      BY <1>0, <2>3 DEF SendConfig, Send, Alive, Slot!Say
    <3> QED
      BY <3>1 DEF Slot!SlotNext
  <2>4. CASE SendHeartbeat(c) \/ Arrive(c) \/ Close(c) \/ Vanish(c)
    <3>1. UNCHANGED <<srv, said, responded>>
      BY <2>4 DEF SendHeartbeat, Send, Arrive, Close, Vanish
    <3> QED
      BY <1>0, <3>1, SlotPush
  <2>5. CASE Reset(c)
    <3>1. UNCHANGED <<said, responded, pushed>>
      BY <1>0, <2>5 DEF Reset
    <3>2. CASE srv[c] = "backlog"
      <4>1. srv' = [srv EXCEPT ![c] = "closed"]
        BY <2>5, <3>2 DEF Reset
      <4> QED
        BY <3>1, <3>2, <4>1, SlotEnd
    <3>3. CASE srv[c] # "backlog"
      <4>1. srv' = srv
        BY <1>0, <2>5, <3>3 DEF Reset
      <4> QED
        BY <1>0, <3>1, <4>1, SlotPush
    <3> QED
      BY <3>2, <3>3
  <2> QED
    BY <1>2, <2>1, <2>2, <2>3, <2>4, <2>5 DEF PeerStep
<1> QED
  BY <1>1, <1>2 DEF PeersStep, PeersNext

LEMMA SlotNet ==
  SlotInv /\ SlotInv' /\ NetThreadNext => [Slot!SlotNext]_Slot!slotVars
<1> SUFFICES ASSUME SlotInv, SlotInv', NetThreadNext
             PROVE  [Slot!SlotNext]_Slot!slotVars
  OBVIOUS
<1>0. ServerInv /\ ServerInv' /\ OwnHandshake
  BY DEF SlotInv
<1> USE DEF PeersKept, NextEvent
<1>1. CASE \/ GetCtrl \/ EpollWait \/ AcceptFails \/ PublishClient \/ ClientIsNull
           \/ Receive \/ handle_heartbeat \/ handle_handshake \/ handle_config
           \/ WildRead \/ NothingToSend \/ SendPad \/ SkipPad
  <2>1. UNCHANGED <<srv, said, responded>>
    BY <1>1 DEF GetCtrl, EpollWait, AcceptFails, PublishClient, ClientIsNull, Receive,
       handle_heartbeat, handle_handshake, handle_config, WildRead, NothingToSend,
       SendPad, SkipPad
  <2> QED
    BY <1>0, <2>1, SlotPush
<1>2. CASE ThreadExit \/ ClientHup \/ BufferExceeded
  BY <1>0, <1>2, SlotReset DEF ThreadExit, ClientHup, BufferExceeded, disconnect_client
<1>3. CASE NetCtl \/ NoMorePackets \/ ResponseFails \/ HeartbeatTimeout
  <2>1. UNCHANGED <<said, responded, pushed>>
    BY <1>3 DEF NetCtl, NoMorePackets, ResponseFails, HeartbeatTimeout
  <2>2. CASE ResetClient
    BY <1>0, <2>1, <2>2, SlotReset
  <2>3. CASE ~ResetClient
    <3>1. UNCHANGED srv
      BY <1>3, <2>3 DEF NetCtl, NoMorePackets, ResponseFails, HeartbeatTimeout, KeepClient,
         disconnect_client
    <3> QED
      BY <1>0, <2>1, <3>1, SlotPush
  <2> QED
    BY <2>2, <2>3
<1>4. ASSUME NEW c \in Clients, add_client(c) PROVE [Slot!SlotNext]_Slot!slotVars
  <2>1. /\ client = None /\ srv[c] = "backlog" /\ srv' = [srv EXCEPT ![c] = "open"]
        /\ UNCHANGED <<said, responded, pushed>>
    BY <1>4 DEF add_client, Waiting
  <2>2. \A d \in Clients : srv[d] # "open"
    BY <1>0, <2>1, NoneAssumption DEF ServerInv, OneSession
  <2>3. Slot!Hold(c)
    BY <2>1, <2>2 DEF Slot!Hold, Slot!Free
  <2> QED
    BY <2>3 DEF Slot!SlotNext
<1>5. ASSUME NEW c \in Clients, refuse_client(c) PROVE [Slot!SlotNext]_Slot!slotVars
  <2>1. /\ srv[c] = "backlog" /\ srv' = [srv EXCEPT ![c] = "closed"]
        /\ UNCHANGED <<said, responded, pushed>>
    BY <1>5 DEF refuse_client, Waiting, CloseEnd
  <2> QED
    BY <2>1, SlotEnd
<1>6. CASE send_handshake_response
  <2>1. /\ client # None /\ cstate = "WaitingForServerConfirm"
        /\ responded' = [responded EXCEPT ![client] = TRUE]
        /\ UNCHANGED <<srv, said, pushed>>
    BY <1>6 DEF send_handshake_response
  <2>2. /\ client \in Clients /\ srv[client] = "open" /\ "Handshake" \in said[client]
        /\ responded \in [Clients -> BOOLEAN]
    BY <1>0, <2>1 DEF ServerInv, OneSession, OwnHandshake, ServerTypeOK, PeersTypeOK,
       NetTypeOK, SessionTypeOK
  <2>3. PICK p \in Clients : p = client
    BY <2>2
  <2>4. {c \in Clients : responded'[c]} = {c \in Clients : responded[c]} \cup {p}
    BY <2>1, <2>2, <2>3
  <2>5. Slot!Answer(p)
    BY <2>1, <2>2, <2>3, <2>4 DEF Slot!Answer
  <2> QED
    BY <2>5 DEF Slot!SlotNext
<1> QED
  BY <1>1, <1>2, <1>3, <1>4, <1>5, <1>6 DEF NetThreadNext

LEMMA SlotStep ==
  SlotInv /\ SlotInv' /\ [AnyNext]_serverVars => [Slot!SlotNext]_Slot!slotVars
<1> SUFFICES ASSUME SlotInv, SlotInv', [AnyNext]_serverVars
             PROVE  [Slot!SlotNext]_Slot!slotVars
  OBVIOUS
<1>1. CASE OthersStep \/ Second \/ UNCHANGED serverVars
  <2>1. UNCHANGED <<srv, said, responded>>
    BY <1>1 DEF OthersStep, Second, serverVars
  <2> QED
    BY <2>1, SlotPush DEF SlotInv
<1> QED
  BY <1>1, SlotEnv, SlotNet DEF AnyNext

LEMMA OpenSlot == OpenSpec => ImplementsSlot
<1>1. OpenSpec => []SlotInv
  BY OpenInvariance, OpenOwn, PTL DEF SlotInv
<1> QED
  BY <1>1, SlotInit, SlotStep, PTL DEF OpenSpec, ImplementsSlot, Slot!SlotSpec

\* The network thread keeps its promises: one PC is held at a time, a PC that shook
\* hands is answered while it is held, and pad data goes only where an answer went,
\* for any number of PCs and whatever the application and the network do.
THEOREM ServerRefinement == ServerSpec => ImplementsSlot
BY ServerIsOpen, OpenSlot, PTL

(* What follows from the promises, for every implementation of the slot.    *)

LEMMA SlotKeptInit == Slot!SlotInit => Slot!SlotTypeOK /\ Slot!SlotKept
BY DEF Slot!SlotInit, Slot!SlotTypeOK, Slot!SlotKept

LEMMA SlotKeptStep ==
  Slot!SlotTypeOK /\ Slot!SlotKept /\ [Slot!SlotNext]_Slot!slotVars
    => (Slot!SlotTypeOK /\ Slot!SlotKept)'
<1> SUFFICES ASSUME Slot!SlotTypeOK, Slot!SlotKept, [Slot!SlotNext]_Slot!slotVars
             PROVE  (Slot!SlotTypeOK /\ Slot!SlotKept)'
  OBVIOUS
<1> USE DEF Slot!SlotTypeOK, Slot!SlotKept
<1>1. CASE Slot!Push
  BY <1>1 DEF Slot!Push
<1>2. ASSUME NEW c \in Clients, Slot!Queue(c) PROVE (Slot!SlotTypeOK /\ Slot!SlotKept)'
  BY <1>2 DEF Slot!Queue
<1>3. ASSUME NEW c \in Clients, Slot!Hold(c) PROVE (Slot!SlotTypeOK /\ Slot!SlotKept)'
  BY <1>3 DEF Slot!Hold, Slot!Free
<1>4. ASSUME NEW c \in Clients, Slot!End(c) PROVE (Slot!SlotTypeOK /\ Slot!SlotKept)'
  BY <1>4 DEF Slot!End
<1>5. ASSUME NEW c \in Clients, Slot!Answer(c) PROVE (Slot!SlotTypeOK /\ Slot!SlotKept)'
  BY <1>5 DEF Slot!Answer
<1>6. ASSUME NEW c \in Clients, NEW m \in {"Handshake", "Config"}, Slot!Say(c, m)
      PROVE  (Slot!SlotTypeOK /\ Slot!SlotKept)'
  BY <1>6 DEF Slot!Say
<1>7. CASE UNCHANGED Slot!slotVars
  BY <1>7 DEF Slot!slotVars
<1> QED
  BY <1>1, <1>2, <1>3, <1>4, <1>5, <1>6, <1>7 DEF Slot!SlotNext

\* Every implementation of the slot holds one PC at a time, has answered only PCs that
\* were held and shook hands, is configured only by them and sends pad data to no other.
THEOREM SlotKeeps == Slot!SlotSpec => []Slot!SlotKept
BY SlotKeptInit, SlotKeptStep, PTL DEF Slot!SlotSpec

\* The network thread inherits it.
THEOREM ServerKeepsSlot == ServerSpec => []Slot!SlotKept
BY ServerRefinement, SlotKeeps, PTL DEF ImplementsSlot

-------------------------------------------------------------------------------
(* A client that waits for its response has EPOLLOUT: its one handshake     *)
(* comes once, so nothing takes it back from Connected.                     *)

\* The places where a handshake begins, of which there is at most one.
Opening(s) == {i \in 1 .. Len(s) : s[i].msg.type = "Handshake" /\ s[i].part = 1}
Opens(s) == Opening(s) # {}
Once(s) == \A i, j \in Opening(s) : i = j

\* There is one beginning in all that a PC has sent and the server not handled, and
\* none any more once it was handled.
GreetsOnce ==
  /\ \A c \in Clients : /\ Once(flight[c]) /\ Once(rx[c])
                        /\ ~(Opens(flight[c]) /\ Opens(rx[c]))
  /\ client # None =>
       /\ Once(buffer)
       /\ Opens(buffer) => ~Opens(flight[client]) /\ ~Opens(rx[client])
       /\ cstate # "WaitingForHandshake" =>
            /\ "Handshake" \in said[client]
            /\ ~Opens(buffer) /\ ~Opens(flight[client]) /\ ~Opens(rx[client])
       /\ cstate # "Connected" => armed

LEMMA OpensEmpty == ~Opens(<< >>) /\ Once(<< >>)
BY DEF Opens, Opening, Once

LEMMA OpensGreets == ASSUME NEW s, Opens(s) PROVE Greets(s)
BY DEF Opens, Opening, Greets

LEMMA OpeningConcat ==
  ASSUME NEW s \in Seq(Piece), NEW t \in Seq(Piece)
  PROVE  \A i \in Opening(s \o t) :
           \/ i \in Opening(s) /\ i =< Len(s)
           \/ i - Len(s) \in Opening(t) /\ i > Len(s)
<1>1. Len(s) \in Nat /\ Len(t) \in Nat /\ Len(s \o t) = Len(s) + Len(t)
  BY LenProperties, ConcatProperties
<1> TAKE i \in Opening(s \o t)
<1>2. i \in 1 .. Len(s \o t) /\ (s \o t)[i].msg.type = "Handshake" /\ (s \o t)[i].part = 1
  BY DEF Opening
<1>3. CASE i =< Len(s)
  <2>1. (s \o t)[i] = s[i] /\ i \in 1 .. Len(s)
    BY <1>1, <1>2, <1>3, ConcatProperties
  <2> QED
    BY <1>2, <1>3, <2>1 DEF Opening
<1>4. CASE i > Len(s)
  <2>1. (s \o t)[i] = t[i - Len(s)] /\ i - Len(s) \in 1 .. Len(t)
    BY <1>1, <1>2, <1>4, ConcatProperties
  <2> QED
    BY <1>2, <1>4, <2>1 DEF Opening
<1> QED
  BY <1>1, <1>2, <1>3, <1>4

LEMMA OpensConcat ==
  ASSUME NEW s \in Seq(Piece), NEW t \in Seq(Piece), Opens(s \o t)
  PROVE  Opens(s) \/ Opens(t)
BY OpeningConcat DEF Opens

LEMMA OnceConcat ==
  ASSUME NEW s \in Seq(Piece), NEW t \in Seq(Piece), Once(s), Once(t),
         ~(Opens(s) /\ Opens(t))
  PROVE  Once(s \o t)
<1> SUFFICES ASSUME NEW i \in Opening(s \o t), NEW j \in Opening(s \o t) PROVE i = j
  BY DEF Once
<1>1. i \in Int /\ j \in Int /\ Len(s) \in Nat
  BY LenProperties DEF Opening
<1>2. CASE i \in Opening(s) /\ j \in Opening(s)
  BY <1>2 DEF Once
<1>3. CASE i - Len(s) \in Opening(t) /\ j - Len(s) \in Opening(t)
  <2>1. i - Len(s) = j - Len(s)
    BY <1>3 DEF Once
  <2> QED
    BY <1>1, <2>1
<1> QED
  BY <1>2, <1>3, OpeningConcat DEF Opens

LEMMA OpeningSub ==
  ASSUME NEW s \in Seq(Piece), NEW m \in 1 .. Len(s) + 1, NEW n \in m - 1 .. Len(s)
  PROVE  \A i \in Opening(SubSeq(s, m, n)) :
           m + i - 1 \in Opening(s) /\ m =< m + i - 1 /\ m + i - 1 =< n
<1>1. Len(s) \in Nat
  BY LenProperties
<1>2. Len(SubSeq(s, m, n)) = n - m + 1
      /\ \A i \in 1 .. n - m + 1 : SubSeq(s, m, n)[i] = s[m + i - 1]
  BY <1>1, SubSeqProperties
<1> TAKE i \in Opening(SubSeq(s, m, n))
<1>3. /\ i \in 1 .. Len(SubSeq(s, m, n))
      /\ SubSeq(s, m, n)[i].msg.type = "Handshake" /\ SubSeq(s, m, n)[i].part = 1
  BY DEF Opening
<1>4. i \in 1 .. n - m + 1 /\ m + i - 1 \in 1 .. Len(s) /\ m =< m + i - 1 /\ m + i - 1 =< n
  BY <1>1, <1>2, <1>3
<1>5. SubSeq(s, m, n)[i] = s[m + i - 1]
  BY <1>2, <1>4
<1> QED
  BY <1>3, <1>4, <1>5 DEF Opening

LEMMA OnceSub ==
  ASSUME NEW s \in Seq(Piece), NEW m \in 1 .. Len(s) + 1, NEW n \in m - 1 .. Len(s), Once(s)
  PROVE  /\ Once(SubSeq(s, m, n))
         /\ Opens(SubSeq(s, m, n)) => Opens(s)
<1>1. Opens(SubSeq(s, m, n)) => Opens(s)
  BY OpeningSub DEF Opens
<1>2. ASSUME NEW i \in Opening(SubSeq(s, m, n)), NEW j \in Opening(SubSeq(s, m, n))
      PROVE  i = j
  <2>1. m + i - 1 = m + j - 1
    BY OpeningSub DEF Once
  <2>2. i \in Int /\ j \in Int /\ m \in Int
    BY LenProperties DEF Opening
  <2> QED
    BY <2>1, <2>2
<1> QED
  BY <1>1, <1>2 DEF Once

\* The beginning is in one part of a stream that is cut in two.
LEMMA OnceCut ==
  ASSUME NEW s \in Seq(Piece), NEW n \in 1 .. Len(s), Once(s),
         Opens(SubSeq(s, 1, n)), Opens(SubSeq(s, n + 1, Len(s)))
  PROVE  FALSE
<1>1. Len(s) \in Nat
  BY LenProperties
<1>2. PICK i \in Opening(SubSeq(s, 1, n)) : TRUE
  BY DEF Opens
<1>3. PICK j \in Opening(SubSeq(s, n + 1, Len(s))) : TRUE
  BY DEF Opens
<1>4. i \in Int /\ j \in Int
  BY DEF Opening
<1>5. 1 + i - 1 \in Opening(s) /\ 1 + i - 1 =< n
  BY <1>1, OpeningSub
<1>6. (n + 1) + j - 1 \in Opening(s) /\ n + 1 =< (n + 1) + j - 1
  BY <1>1, OpeningSub
<1>7. 1 + i - 1 = (n + 1) + j - 1
  BY <1>5, <1>6 DEF Once
<1> QED
  BY <1>1, <1>4, <1>5, <1>6, <1>7

\* A message that is taken off the front takes its beginning with it.
LEMMA OpeningTail ==
  ASSUME NEW s \in Seq(Piece), s # << >>
  PROVE  \A i \in Opening(Tail(s)) : i + 1 \in Opening(s) /\ i >= 1
<1>1. Len(s) \in Nat /\ Len(Tail(s)) = Len(s) - 1
  BY LenProperties, HeadTailProperties
<1> TAKE i \in Opening(Tail(s))
<1>2. i \in 1 .. Len(Tail(s)) /\ Tail(s)[i].msg.type = "Handshake" /\ Tail(s)[i].part = 1
  BY DEF Opening
<1>3. Tail(s)[i] = s[i + 1] /\ i + 1 \in 1 .. Len(s)
  BY <1>1, <1>2, HeadTailProperties
<1> QED
  BY <1>2, <1>3 DEF Opening

LEMMA OpeningTailTail ==
  ASSUME NEW s \in Seq(Piece), Len(s) >= 2
  PROVE  \A i \in Opening(Tail(Tail(s))) : i + 2 \in Opening(s) /\ i >= 1
<1>0. Len(s) \in Nat /\ s # << >>
  BY LenProperties, EmptySeq
<1>1. Tail(s) \in Seq(Piece) /\ Len(Tail(s)) = Len(s) - 1
  BY <1>0, HeadTailProperties
<1>2. Len(Tail(s)) # 0
  BY <1>0, <1>1
<1> TAKE i \in Opening(Tail(Tail(s)))
<1>3. i + 1 \in Opening(Tail(s)) /\ i >= 1 /\ i \in Int
  BY <1>1, <1>2, EmptySeq, OpeningTail DEF Opening
<1>4. (i + 1) + 1 \in Opening(s)
  BY <1>0, <1>3, OpeningTail
<1>5. (i + 1) + 1 = i + 2
  BY <1>3
<1> QED
  BY <1>3, <1>4, <1>5

LEMMA OnceTailTail ==
  ASSUME NEW s \in Seq(Piece), Len(s) >= 2, Once(s)
  PROVE  /\ Once(Tail(Tail(s)))
         /\ Opens(Tail(Tail(s))) => Opens(s) /\ 1 \notin Opening(s)
<1>1. ASSUME NEW i \in Opening(Tail(Tail(s))), NEW j \in Opening(Tail(Tail(s))) PROVE i = j
  <2>1. i + 2 = j + 2
    BY OpeningTailTail DEF Once
  <2>2. i \in Int /\ j \in Int
    BY DEF Opening
  <2> QED
    BY <2>1, <2>2
<1>2. ASSUME NEW i \in Opening(Tail(Tail(s))), 1 \in Opening(s) PROVE FALSE
  <2>1. i + 2 = 1 /\ i >= 1 /\ i \in Int
    BY <1>2, OpeningTailTail DEF Once, Opening
  <2> QED
    BY <2>1
<1> QED
  BY <1>1, <1>2, OpeningTailTail DEF Once, Opens

LEMMA OncePieces == ASSUME NEW m \in Message PROVE Once(Pieces(m))
BY DEF Once, Opening, Pieces

LEMMA OnceInit == ServerInit => GreetsOnce
BY OpensEmpty DEF ServerInit, PeersInit, NetInit, GreetsOnce

\* A step that puts nothing into a stream or the buffer.
LEMMA OnceKept ==
  ASSUME GreetsOnce,
         \A c \in Clients : /\ said[c] \subseteq said'[c]
                            /\ flight'[c] \in {flight[c], << >>}
                            /\ rx'[c] \in {rx[c], << >>},
         client' = None \/ (client' = client /\ cstate' = cstate /\ armed' = armed),
         client # None => client \in Clients,
         buffer' \in {buffer, << >>}
  PROVE  GreetsOnce'
BY OpensEmpty DEF GreetsOnce

LEMMA OnceEnv == ServerInv /\ OwnHandshake /\ GreetsOnce /\ PeersStep => GreetsOnce'
<1> SUFFICES ASSUME ServerInv, OwnHandshake, GreetsOnce, PeersStep PROVE GreetsOnce'
  OBVIOUS
<1>0. /\ flight \in [Clients -> Seq(Piece)] /\ rx \in [Clients -> Seq(Piece)]
      /\ said \in [Clients -> SUBSET {"Handshake", "Config"}]
      /\ client # None => client \in Clients
      /\ UNCHANGED <<client, cstate, armed, buffer>>
  BY DEF ServerInv, ServerTypeOK, PeersTypeOK, NetTypeOK, SessionTypeOK, PeersStep
<1>1. CASE NetChange
  BY <1>0, <1>1, OnceKept DEF NetChange
<1>2. ASSUME NEW c \in Clients, PeerStep(c) PROVE GreetsOnce'
  <2>1. CASE Connect(c)
    BY <1>0, <2>1, OnceKept DEF Connect
  <2>2. ASSUME NEW m \in Message, Send(c, m),
               m.type = "Handshake" => "Handshake" \notin said[c],
               \A d \in Clients : said[d] \subseteq said'[d]
        PROVE  GreetsOnce'
    <3>1. Pieces(m) \in Seq(Piece) /\ Once(Pieces(m))
          /\ (Opens(Pieces(m)) => "Handshake" \notin said[c])
      BY <2>2, PiecesType, OncePieces, OpensGreets, GreetsPieces
    <3>2. rx' = rx /\ flight' = [flight EXCEPT ![c] = flight[c] \o Pieces(m)]
      BY <2>2 DEF Send
    <3>3. flight'[c] = flight[c] \o Pieces(m)
      BY <1>0, <3>2
    <3>4. /\ flight[c] \in Seq(Piece) /\ Once(flight[c])
          /\ "Handshake" \notin said[c] => ~Opens(flight[c]) /\ ~Opens(rx[c])
          /\ client = c /\ "Handshake" \notin said[c]
               => ~Opens(buffer) /\ cstate = "WaitingForHandshake"
      BY <1>0, OpensGreets, NoneAssumption DEF GreetsOnce, OwnHandshake
    <3>5. Once(flight'[c])
      BY <3>1, <3>3, <3>4, OnceConcat
    <3>6. Opens(flight'[c]) => Opens(flight[c]) \/ Opens(Pieces(m))
      BY <3>1, <3>3, <3>4, OpensConcat
    <3>7. \A d \in Clients : d # c => flight'[d] = flight[d]
      BY <1>0, <3>2
    <3>8. \A d \in Clients : /\ Once(flight'[d]) /\ Once(rx'[d])
                             /\ ~(Opens(flight'[d]) /\ Opens(rx'[d]))
      BY <3>1, <3>2, <3>4, <3>5, <3>6, <3>7 DEF GreetsOnce
    <3>9. client = c /\ (Opens(buffer) \/ cstate # "WaitingForHandshake")
            => ~Opens(flight'[c])
      BY <1>0, <3>1, <3>4, <3>6, NoneAssumption DEF GreetsOnce
    <3>10. client # None =>
             /\ Opens(buffer) => ~Opens(flight'[client])
             /\ cstate # "WaitingForHandshake" => ~Opens(flight'[client])
      BY <1>0, <3>7, <3>9 DEF GreetsOnce
    <3>11. client # None /\ "Handshake" \in said[client] => "Handshake" \in said'[client]
      BY <1>0, <2>2
    <3> QED
      BY <1>0, <3>2, <3>8, <3>10, <3>11 DEF GreetsOnce
  <2>3. CASE SendHandshake(c)
    <3>1. Plain("Handshake") \in Message /\ Send(c, Plain("Handshake"))
          /\ "Handshake" \notin said[c]
      BY <2>3, PlainType DEF SendHandshake
    <3>2. said' = [said EXCEPT ![c] = said[c] \cup {"Handshake"}]
      BY <2>3 DEF SendHandshake
    <3> QED
      BY <1>0, <2>2, <3>1, <3>2
  <2>4. CASE SendConfig(c)
    <3>1. PICK i \in PollingIntervals : Send(c, [type |-> "Config", interval |-> i])
      BY <2>4 DEF SendConfig
    <3>2. said' = [said EXCEPT ![c] = said[c] \cup {"Config"}]
      BY <2>4 DEF SendConfig
    <3>3. [type |-> "Config", interval |-> i] \in Message
      BY DEF Message
    <3> QED
      BY <1>0, <2>2, <3>1, <3>2, <3>3
  <2>5. CASE SendHeartbeat(c)
    <3>1. Plain("Heartbeat") \in Message /\ Plain("Heartbeat").type = "Heartbeat"
          /\ Send(c, Plain("Heartbeat")) /\ said' = said
      BY <2>5, PlainType DEF SendHeartbeat, Plain
    <3> QED
      BY <2>2, <3>1
  <2>6. CASE Arrive(c)
    <3>1. PICK n \in 1 .. Len(flight[c]) :
            /\ rx' = [rx EXCEPT ![c] = @ \o SubSeq(flight[c], 1, n)]
            /\ flight' = [flight EXCEPT ![c] = SubSeq(@, n + 1, Len(@))]
      BY <2>6 DEF Arrive
    <3> DEFINE in == SubSeq(flight[c], 1, n)
               left == SubSeq(flight[c], n + 1, Len(flight[c]))
    <3>2. /\ flight[c] \in Seq(Piece) /\ rx[c] \in Seq(Piece) /\ Len(flight[c]) \in Nat
          /\ in \in Seq(Piece)
      BY <1>0, CutType, LenProperties
    <3>3. rx'[c] = rx[c] \o in /\ flight'[c] = left
      BY <1>0, <3>1
    <3>4. /\ Once(flight[c]) /\ Once(rx[c]) /\ ~(Opens(flight[c]) /\ Opens(rx[c]))
      BY DEF GreetsOnce
    <3>5. Once(in) /\ (Opens(in) => Opens(flight[c]))
      BY <3>2, <3>4, OnceSub
    <3>6. Once(left) /\ (Opens(left) => Opens(flight[c]))
      BY <3>2, <3>4, OnceSub
    <3>7. ~(Opens(in) /\ Opens(left))
      BY <3>2, <3>4, OnceCut
    <3> HIDE DEF in, left
    <3>8. Once(rx[c] \o in) /\ (Opens(rx[c] \o in) => Opens(rx[c]) \/ Opens(in))
      BY <3>2, <3>4, <3>5, OnceConcat, OpensConcat
    <3>9. /\ Once(flight'[c]) /\ Once(rx'[c]) /\ ~(Opens(flight'[c]) /\ Opens(rx'[c]))
          /\ Opens(flight'[c]) \/ Opens(rx'[c]) => Opens(flight[c]) \/ Opens(rx[c])
      BY <3>3, <3>4, <3>5, <3>6, <3>7, <3>8
    <3>10. \A d \in Clients : d # c => flight'[d] = flight[d] /\ rx'[d] = rx[d]
      BY <1>0, <3>1
    <3>11. said' = said
      BY <2>6 DEF Arrive
    <3>12. client # None => (Opens(flight'[client]) \/ Opens(rx'[client])
                               => Opens(flight[client]) \/ Opens(rx[client]))
      BY <1>0, <3>9, <3>10
    <3> QED
      BY <1>0, <3>9, <3>10, <3>11, <3>12 DEF GreetsOnce
  <2>7. CASE Close(c) \/ Vanish(c)
    BY <1>0, <2>7, OnceKept DEF Close, Vanish
  <2>8. CASE Reset(c)
    BY <1>0, <2>8, OnceKept DEF Reset
  <2> QED
    BY <1>2, <2>1, <2>3, <2>4, <2>5, <2>6, <2>7, <2>8 DEF PeerStep
<1> QED
  BY <1>1, <1>2 DEF PeersStep, PeersNext

LEMMA OnceNet == ServerInv /\ OwnHandshake /\ GreetsOnce /\ NetThreadNext => GreetsOnce'
<1> SUFFICES ASSUME ServerInv, OwnHandshake, GreetsOnce, NetThreadNext PROVE GreetsOnce'
  OBVIOUS
<1>0. /\ flight \in [Clients -> Seq(Piece)] /\ rx \in [Clients -> Seq(Piece)]
      /\ client # None => client \in Clients
      /\ buffer \in Seq(Piece)
  BY DEF ServerInv, ServerTypeOK, PeersTypeOK, NetTypeOK, SessionTypeOK
<1>1. ASSUME ResetClient, said' = said PROVE GreetsOnce'
  <2>1. \A c \in Clients : flight'[c] \in {flight[c], << >>} /\ rx'[c] \in {rx[c], << >>}
    BY <1>0, <1>1, CloseEndStreams DEF ResetClient
  <2>2. client' = None /\ buffer' = << >>
    BY <1>1 DEF ResetClient
  <2> QED
    BY <1>0, <1>1, <2>1, <2>2, OnceKept
<1>2. ASSUME UNCHANGED <<client, cstate, armed, flight, rx, said>>, buffer' \in {buffer, << >>}
      PROVE  GreetsOnce'
  BY <1>0, <1>2, OnceKept
<1>3. ASSUME UNCHANGED <<client, cstate, armed, flight, rx, said>>, Complete, Consume
      PROVE  GreetsOnce'
  <2>1. client # None => Once(buffer') /\ (Opens(buffer') => Opens(buffer))
    BY <1>0, <1>3, OnceTailTail DEF Complete, Consume, GreetsOnce
  <2> QED
    BY <1>3, <2>1 DEF GreetsOnce
<1> USE DEF PeersKept
<1>4. CASE \/ GetCtrl \/ EpollWait \/ AcceptFails \/ PublishClient \/ ClientIsNull
           \/ WildRead \/ NothingToSend \/ SendPad \/ SkipPad
  BY <1>2, <1>4 DEF GetCtrl, EpollWait, AcceptFails, PublishClient, ClientIsNull, WildRead,
     NothingToSend, SendPad, SkipPad
<1>5. CASE ThreadExit \/ ClientHup \/ BufferExceeded
  BY <1>1, <1>5 DEF ThreadExit, ClientHup, BufferExceeded, disconnect_client
<1>6. CASE NetCtl \/ HeartbeatTimeout \/ ResponseFails \/ NoMorePackets
  <2>1. CASE ResetClient
    BY <1>1, <1>6, <2>1 DEF NetCtl, HeartbeatTimeout, ResponseFails, NoMorePackets
  <2>2. CASE ~ResetClient
    BY <1>2, <1>6, <2>2 DEF NetCtl, HeartbeatTimeout, ResponseFails, NoMorePackets,
       KeepClient, disconnect_client
  <2> QED
    BY <2>1, <2>2
<1>7. ASSUME NEW c \in Clients, add_client(c) PROVE GreetsOnce'
  <2>1. /\ client' = c /\ cstate' = "WaitingForHandshake" /\ buffer' = << >> /\ armed'
        /\ UNCHANGED <<flight, rx, said>>
    BY <1>7 DEF add_client, Emplace
  <2> QED
    BY <2>1, OpensEmpty DEF GreetsOnce
<1>8. ASSUME NEW c \in Clients, refuse_client(c) PROVE GreetsOnce'
  <2>1. \A d \in Clients : flight'[d] \in {flight[d], << >>} /\ rx'[d] \in {rx[d], << >>}
    BY <1>0, <1>8, CloseEndStreams DEF refuse_client
  <2>2. UNCHANGED <<client, cstate, armed, buffer, said>>
    BY <1>8 DEF refuse_client
  <2> QED
    BY <1>0, <2>1, <2>2, OnceKept
<1>9. CASE Receive
  <2>1. /\ client \in Clients /\ client # None /\ buffer' = buffer \o rx[client]
        /\ rx' = [rx EXCEPT ![client] = << >>]
        /\ UNCHANGED <<client, cstate, armed, flight, said>>
    BY <1>0, <1>9 DEF Receive
  <2>2. /\ rx[client] \in Seq(Piece) /\ Once(rx[client]) /\ Once(buffer)
        /\ ~(Opens(buffer) /\ Opens(rx[client]))
    BY <1>0, <2>1 DEF GreetsOnce
  <2>3. Once(buffer') /\ (Opens(buffer') => Opens(buffer) \/ Opens(rx[client]))
    BY <1>0, <2>1, <2>2, OnceConcat, OpensConcat
  <2>4. rx'[client] = << >> /\ \A c \in Clients : rx'[c] \in {rx[c], << >>}
    BY <1>0, <2>1
  <2> QED
    BY <2>1, <2>3, <2>4, OpensEmpty DEF GreetsOnce
<1>10. CASE handle_heartbeat \/ handle_config
  BY <1>3, <1>10 DEF handle_heartbeat, handle_config
<1>11. CASE handle_handshake
  <2>1. /\ Complete /\ Consume /\ buffer[1].msg.type = "Handshake" /\ buffer[1].part = 1
        /\ UNCHANGED <<client, armed, flight, rx, said>>
        /\ cstate' = "WaitingForServerConfirm"
    BY <1>11 DEF handle_handshake, Complete
  <2>2. 1 \in Opening(buffer) /\ Opens(buffer)
    <3>1. 1 \in 1 .. Len(buffer)
      BY <1>0, <2>1, LenProperties DEF Complete
    <3> QED
      BY <2>1, <3>1 DEF Opens, Opening
  <2>3. client # None => Once(buffer') /\ ~Opens(buffer')
    BY <1>0, <2>1, <2>2, OnceTailTail DEF Complete, Consume, GreetsOnce
  <2>4. client # None => /\ cstate = "WaitingForHandshake" /\ armed
                         /\ ~Opens(flight[client]) /\ ~Opens(rx[client])
    BY <2>2 DEF GreetsOnce
  <2>5. client # None => "Handshake" \in said[client]
    BY <2>2, OpensGreets DEF OwnHandshake
  <2> QED
    BY <2>1, <2>3, <2>4, <2>5 DEF GreetsOnce
<1>12. CASE send_handshake_response
  <2>1. /\ client # None /\ cstate = "WaitingForServerConfirm" /\ cstate' = "Connected"
        /\ UNCHANGED <<client, buffer, flight, rx, said>>
    BY <1>12 DEF send_handshake_response
  <2> QED
    BY <2>1 DEF GreetsOnce
<1> QED
  BY <1>4, <1>5, <1>6, <1>7, <1>8, <1>9, <1>10, <1>11, <1>12 DEF NetThreadNext

LEMMA OnceStep == ServerInv /\ OwnHandshake /\ GreetsOnce /\ [AnyNext]_serverVars => GreetsOnce'
<1> SUFFICES ASSUME ServerInv, OwnHandshake, GreetsOnce, [AnyNext]_serverVars PROVE GreetsOnce'
  OBVIOUS
<1>1. CASE OthersStep \/ Second \/ UNCHANGED serverVars
  <2>1. UNCHANGED <<flight, rx, said, client, cstate, armed, buffer>>
    BY <1>1 DEF OthersStep, Second, serverVars
  <2> QED
    BY <2>1 DEF GreetsOnce
<1> QED
  BY <1>1, OnceEnv, OnceNet DEF AnyNext

LEMMA OpenArmed == OpenSpec => []ConfirmArmed
<1>1. GreetsOnce => ConfirmArmed
  BY DEF GreetsOnce, ConfirmArmed
<1> QED
  BY <1>1, OnceInit, OnceStep, OpenInvariance, OpenOwn, PTL DEF OpenSpec

\* No client that is owed a response is without EPOLLOUT (net.cpp:297-305): the one
\* handshake of a connection is handled once, however its stream is cut, so that no
\* client is answered, disarmed, and then made to wait again.
THEOREM ServerArmed == ServerSpec => []ConfirmArmed
BY ServerIsOpen, OpenArmed, PTL

-------------------------------------------------------------------------------
(* No client is dropped without a cause.                                    *)

\* Of each event of the batch for a client's socket there was a client when the wait
\* returned, and a HUP was true of it; the loop that receives stopped for what the
\* PC had done.  Both stay true, because a PC that closed or was reset does nothing.
EventsTold ==
  /\ \A i \in 1 .. Len(batch) :
       batch[i].sock = "CLIENT" =>
         /\ waited \in Clients
         /\ "HUP" \in batch[i].ev => peer[waited] \in {"closed", "reset"}
  /\ pc = "handle" /\ client # None =>
       /\ received = "eof" => peer[client] = "closed"
       /\ received = "error" => peer[client] = "reset"

LEMMA TailElement ==
  ASSUME NEW S, NEW s \in Seq(S), s # << >>, NEW i \in 1 .. Len(Tail(s))
  PROVE  i + 1 \in 1 .. Len(s) /\ Tail(s)[i] = s[i + 1]
<1>1. Len(s) \in Nat /\ Len(Tail(s)) = Len(s) - 1
  BY LenProperties, HeadTailProperties
<1> QED
  BY <1>1, HeadTailProperties

LEMMA ToldInit == ServerInit => EventsTold
BY DEF ServerInit, NetInit, EventsTold

LEMMA ToldBatch ==
  ASSUME ServerTypeOK, NEW b \in Batches, NEW i \in 1 .. Len(b), b[i].sock = "CLIENT"
  PROVE  client \in Clients /\ ("HUP" \in b[i].ev => peer[client] \in {"closed", "reset"})
<1> DEFINE Told(e) == e.sock = "CLIENT" =>
                        /\ client \in Clients
                        /\ "HUP" \in e.ev => peer[client] \in {"closed", "reset"}
<1>1. \A e \in ServerEvents : Told(e)
  BY DEF ServerEvents
<1>2. \A e \in ClientEvents : Told(e)
  BY DEF ClientEvents, AtEof, ServerTypeOK, NetTypeOK, SessionTypeOK
<1> HIDE DEF Told
<1>3. CASE b \in OneEvent
  <2>1. PICK e \in ServerEvents \cup ClientEvents : b = <<e>>
    BY <1>3, Zenon DEF OneEvent
  <2>2. Told(b[i])
    BY <1>1, <1>2, <2>1
  <2> QED
    BY <2>2 DEF Told
<1>4. CASE b \in TwoEvents
  <2>1. PICK s \in ServerEvents, e \in ClientEvents : b = <<s, e>> \/ b = <<e, s>>
    BY <1>4 DEF TwoEvents
  <2>2. Told(s) /\ Told(e)
    BY <1>1, <1>2
  <2>3. Told(b[i])
    BY <2>1, <2>2
  <2> QED
    BY <2>3 DEF Told
<1>5. CASE b = << >>
  BY <1>5
<1> QED
  BY <1>3, <1>4, <1>5, Zenon DEF Batches

\* A step that neither waits nor receives: the batch may lose its front.
LEMMA ToldKept ==
  ASSUME ServerTypeOK, EventsTold, UNCHANGED waited,
         batch' = batch \/ (batch # << >> /\ batch' = Tail(batch)),
         \A c \in Clients : peer[c] \in {"closed", "reset"} => peer'[c] = peer[c],
         pc' = "handle" => pc = "handle" /\ received' = received /\ client' = client
  PROVE  EventsTold'
<1>1. batch \in Seq(EpollEvent) /\ Len(batch) \in Nat
      /\ (client # None => client \in Clients)
  BY LenProperties DEF ServerTypeOK, NetTypeOK, SessionTypeOK, LoopTypeOK
<1>2. ASSUME NEW i \in 1 .. Len(batch')
      PROVE  \E j \in 1 .. Len(batch) : batch'[i] = batch[j]
  <2>1. CASE batch' = batch
    BY <1>2, <2>1
  <2>2. CASE batch # << >> /\ batch' = Tail(batch)
    <3>1. i + 1 \in 1 .. Len(batch) /\ Tail(batch)[i] = batch[i + 1]
      BY <1>1, <1>2, <2>2, TailElement
    <3> QED
      BY <2>2, <3>1
  <2> QED
    BY <2>1, <2>2
<1>3. \A i \in 1 .. Len(batch') :
        batch'[i].sock = "CLIENT" =>
          /\ waited \in Clients
          /\ "HUP" \in batch'[i].ev => peer'[waited] \in {"closed", "reset"}
  BY <1>2 DEF EventsTold
<1>4. pc' = "handle" /\ client' # None =>
        /\ received' = "eof" => peer'[client'] = "closed"
        /\ received' = "error" => peer'[client'] = "reset"
  BY <1>1 DEF EventsTold
<1> QED
  BY <1>3, <1>4 DEF EventsTold

LEMMA ToldEnv == ServerTypeOK /\ EventsTold /\ PeersStep => EventsTold'
<1> SUFFICES ASSUME ServerTypeOK, EventsTold, PeersStep PROVE EventsTold'
  OBVIOUS
<1>0. peer \in [Clients -> {"idle", "connected", "closed", "reset", "vanished"}]
      /\ UNCHANGED <<batch, waited, pc, received, client>>
  BY DEF ServerTypeOK, PeersTypeOK, PeersStep
<1>1. CASE NetChange
  BY <1>0, <1>1, ToldKept DEF NetChange
<1>2. ASSUME NEW c \in Clients, PeerStep(c) PROVE EventsTold'
  <2>1. CASE SendHandshake(c) \/ SendConfig(c) \/ SendHeartbeat(c) \/ Arrive(c)
    <3>1. peer' = peer
      BY <2>1 DEF SendHandshake, SendConfig, SendHeartbeat, Send, Arrive
    <3> QED
      BY <1>0, <3>1, ToldKept
  <2>2. CASE Connect(c) \/ Close(c) \/ Reset(c) \/ Vanish(c)
    <3>1. \A d \in Clients : peer[d] \in {"closed", "reset"} => peer'[d] = peer[d]
      BY <1>0, <2>2 DEF Connect, Close, Reset, Vanish, Alive
    <3> QED
      BY <1>0, <3>1, ToldKept
  <2> QED
    BY <1>2, <2>1, <2>2 DEF PeerStep
<1> QED
  BY <1>1, <1>2 DEF PeersStep, PeersNext

LEMMA ToldNet == ServerTypeOK /\ EventsTold /\ NetThreadNext => EventsTold'
<1> SUFFICES ASSUME ServerTypeOK, EventsTold, NetThreadNext PROVE EventsTold'
  OBVIOUS
<1>0. /\ pc \in {"event", "publish", "handle"} => batch # << >>
      /\ \A b, cl : After(b, cl) # "handle"
  BY DEF After, ServerTypeOK, NetTypeOK, LoopTypeOK
<1> USE DEF PeersKept, NextEvent
<1>1. CASE EpollWait
  <2>1. batch' \in Batches /\ waited' = client /\ pc' = "netctl" /\ UNCHANGED peer
    BY <1>1 DEF EpollWait
  <2>2. \A i \in 1 .. Len(batch') : batch'[i].sock = "CLIENT" =>
          /\ waited' \in Clients
          /\ "HUP" \in batch'[i].ev => peer'[waited'] \in {"closed", "reset"}
    BY <2>1, ToldBatch
  <2> QED
    BY <2>1, <2>2 DEF EventsTold
<1>2. CASE Receive
  <2>1. /\ UNCHANGED <<batch, waited, peer, client>>
        /\ received' = "eof" => peer[client] = "closed"
        /\ received' = "error" => peer[client] = "reset"
    BY <1>2 DEF Receive, AtEof
  <2> QED
    BY <2>1 DEF EventsTold
<1>3. CASE GetCtrl \/ ThreadExit \/ HeartbeatTimeout \/ SendPad \/ SkipPad \/ WildRead
  BY <1>3, ToldKept DEF GetCtrl, ThreadExit, HeartbeatTimeout, SendPad, SkipPad, WildRead
<1>4. CASE NetCtl
  BY <1>0, <1>4, ToldKept DEF NetCtl
<1>5. CASE AcceptFails \/ PublishClient \/ ClientHup \/ ClientIsNull \/ BufferExceeded
  BY <1>0, <1>5, ToldKept DEF AcceptFails, PublishClient, ClientHup, ClientIsNull,
     BufferExceeded, Handling, IsHup, IsIn, IsOut
<1>6. CASE NoMorePackets \/ send_handshake_response \/ ResponseFails \/ NothingToSend
  BY <1>0, <1>6, ToldKept DEF NoMorePackets, send_handshake_response, ResponseFails,
     NothingToSend, Handling, IsOut
<1>7. CASE \E c \in Clients : add_client(c) \/ refuse_client(c)
  BY <1>7, ToldKept DEF add_client, refuse_client
<1>8. CASE handle_heartbeat \/ handle_handshake \/ handle_config
  BY <1>8, ToldKept DEF handle_heartbeat, handle_handshake, handle_config
<1> QED
  BY <1>1, <1>2, <1>3, <1>4, <1>5, <1>6, <1>7, <1>8 DEF NetThreadNext

LEMMA ToldStep == ServerTypeOK /\ EventsTold /\ [AnyNext]_serverVars => EventsTold'
<1> SUFFICES ASSUME ServerTypeOK, EventsTold, [AnyNext]_serverVars PROVE EventsTold'
  OBVIOUS
<1>1. CASE OthersStep \/ Second \/ UNCHANGED serverVars
  <2>1. UNCHANGED <<batch, waited, peer, pc, received, client>>
    BY <1>1 DEF OthersStep, Second, serverVars
  <2> QED
    BY <2>1, ToldKept
<1> QED
  BY <1>1, ToldEnv, ToldNet DEF AnyNext

LEMMA DropStep ==
  ASSUME ServerTypeOK, EventsTold, [AnyNext]_serverVars, NEW c \in Clients, client = c, client' # c
  PROVE  DropCause(c)
<1>0. /\ c # None /\ client \in Clients
      /\ batch \in Seq(EpollEvent)
      /\ pc = "event" => 1 \in 1 .. Len(batch) /\ Head(batch) = batch[1]
  <2>1. batch \in Seq(EpollEvent) /\ (pc = "event" => batch # << >>)
    BY DEF ServerTypeOK, NetTypeOK, LoopTypeOK
  <2> QED
    BY <2>1, NoneAssumption, LenProperties, EmptySeq, HeadTailProperties
<1> USE DEF PeersKept, NextEvent
<1>1. NetThreadNext
  BY DEF AnyNext, NetThreadNext, OthersStep, PeersStep, Second, serverVars
<1>2. CASE ThreadExit \/ NetCtl \/ BufferExceeded \/ HeartbeatTimeout
  BY <1>2 DEF ThreadExit, NetCtl, KeepClient, BufferExceeded, HeartbeatTimeout,
     DropCause
<1>3. CASE ClientHup
  <2>1. pc = "event" /\ batch[1].sock = "CLIENT" /\ "HUP" \in batch[1].ev
    BY <1>0, <1>3 DEF ClientHup, IsHup, Handling
  <2>2. waited = c => peer[c] \in {"closed", "reset"}
    BY <1>0, <2>1 DEF EventsTold
  <2>3. waited \in Clients
    BY <1>0, <2>1 DEF EventsTold
  <2> QED
    BY <2>2, <2>3, NoneAssumption DEF DropCause
<1>4. CASE NoMorePackets \/ ResponseFails
  BY <1>0, <1>4 DEF NoMorePackets, ResponseFails, KeepClient, EventsTold, DropCause
<1>5. CASE \E d \in Clients : add_client(d) \/ refuse_client(d)
  BY <1>0, <1>5 DEF add_client, refuse_client
<1>6. CASE \/ GetCtrl \/ EpollWait \/ AcceptFails \/ PublishClient \/ ClientIsNull
           \/ WildRead \/ NothingToSend \/ SendPad \/ SkipPad
  BY <1>6 DEF GetCtrl, EpollWait, AcceptFails, PublishClient, ClientIsNull, WildRead,
     NothingToSend, SendPad, SkipPad
<1>7. CASE \/ Receive \/ handle_heartbeat \/ handle_handshake \/ handle_config
           \/ send_handshake_response
  BY <1>7 DEF Receive, handle_heartbeat, handle_handshake, handle_config,
     send_handshake_response
<1> QED
  BY <1>1, <1>2, <1>3, <1>4, <1>5, <1>6, <1>7 DEF NetThreadNext

LEMMA OpenDrops == OpenSpec => DropJustified
<1>1. OpenSpec => []EventsTold
  BY ToldInit, ToldStep, OpenTypes, PTL DEF OpenSpec
<1>2. ServerTypeOK /\ EventsTold /\ [AnyNext]_serverVars
        => [\A c \in Clients : client = c /\ client' # c => DropCause(c)]_serverVars
  BY DropStep
<1> QED
  BY <1>1, <1>2, OpenTypes, PTL DEF OpenSpec, DropJustified

\* A client leaves the slot because it closed or was reset, was silent for too long or
\* sent too much, because the interface or the thread went down, or for an event that
\* epoll reported of the client before it: for any PCs, faults and bounds (net.cpp).
THEOREM ServerDrops == ServerSpec => DropJustified
BY ServerIsOpen, OpenDrops, PTL
===============================================================================
