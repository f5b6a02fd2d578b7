-------------------------------- MODULE Peers ---------------------------------
(***************************************************************************)
(* The environment of the network thread: the PCs that connect to TCP port *)
(* 5000, the TCP streams that carry their messages, and the Wi-Fi          *)
(* interface.  A PC behaves as client/packages/cli/src/main.rs does on its *)
(* control connection: it connects, sends one Handshake, waits for the     *)
(* response, may send one Config, then sends heartbeats; at any moment it  *)
(* may close, be reset or vanish.                                          *)
(*                                                                         *)
(* A message is cut in two pieces, so that the network can deliver a part  *)
(* of one; Faults selects the misbehaviour a run looks at.                 *)
(***************************************************************************)
EXTENDS SharedData

CONSTANTS
  Faults,            \* subset of Fault: what may go wrong
  PollingIntervals,  \* the polling intervals (us) a PC may configure
  Backlog,           \* connections that wait for accept; listen() asks for 1
  MaxFlight,         \* bound: pieces of one stream not yet read by the server
  MaxNetChanges      \* bound: changes of the state of the interface

Fault == {"fragment", "close", "reset", "vanish", "epoll", "strict", "silent",
          "mute", "stop"}

ASSUME PeersAssumption ==
  /\ Faults \subseteq Fault
  /\ PollingIntervals \subseteq Nat
  /\ Backlog \in Nat \ {0}
  /\ MaxFlight \in Nat \ {0}
  /\ MaxNetChanges \in Nat

\* Messages of a PC; only a Config carries a value the server keeps.
Message == [type : {"Handshake", "Heartbeat"}, interval : {0}]
             \cup [type : {"Config"}, interval : PollingIntervals]
Piece == [msg : Message, part : {1, 2}]

Plain(type) == [type |-> type, interval |-> 0]
Pieces(m) == << [msg |-> m, part |-> 1], [msg |-> m, part |-> 2] >>

VARIABLES
  peer,        \* peer[c]: the state of the PC's end of connection c
  srv,         \* srv[c]: the state of the server's end of connection c
  flight,      \* flight[c]: pieces sent by the PC and not arrived
  rx,          \* rx[c]: pieces in the server's socket receive buffer
  said,        \* said[c]: which of Handshake and Config the PC has sent
  responded,   \* responded[c]: the server's handshake response was sent
  ncPending,   \* netctl callbacks not yet delivered, as NetCtlEvents bits
  netChanges   \* number of changes of netState so far (bound)

peerVars == <<peer, srv, flight, rx, said, responded>>
netctlVars == <<ncPending, netChanges>>
envVars == <<peerVars, netctlVars>>

PeersTypeOK ==
  /\ peer \in [Clients -> {"idle", "connected", "closed", "reset", "vanished"}]
  /\ srv \in [Clients -> {"none", "backlog", "open", "closed"}]
  /\ flight \in [Clients -> Seq(Piece)]
  /\ rx \in [Clients -> Seq(Piece)]
  /\ said \in [Clients -> SUBSET {"Handshake", "Config"}]
  /\ responded \in [Clients -> BOOLEAN]
  /\ ncPending \subseteq {"Connected", "Disconnected"}
  /\ netChanges \in 0 .. MaxNetChanges

PeersInit ==
  /\ peer = [c \in Clients |-> "idle"]
  /\ srv = [c \in Clients |-> "none"]
  /\ flight = [c \in Clients |-> << >>]
  /\ rx = [c \in Clients |-> << >>]
  /\ said = [c \in Clients |-> {}]
  /\ responded = [c \in Clients |-> FALSE]
  /\ ncPending = {}
  /\ netChanges = 0

Waiting == {c \in Clients : srv[c] = "backlog"}
Alive(c) == peer[c] = "connected" /\ srv[c] \in {"backlog", "open"}

\* A FIN is read after all the data that was sent before it.
AtEof(c) == peer[c] = "closed" /\ flight[c] = << >>

-------------------------------------------------------------------------------
Connect(c) ==
  /\ peer[c] = "idle"
  /\ Cardinality(Waiting) < Backlog
  /\ peer' = [peer EXCEPT ![c] = "connected"]
  /\ srv' = [srv EXCEPT ![c] = "backlog"]
  /\ UNCHANGED <<flight, rx, said, responded, netctlVars, sharedVars>>

Send(c, m) ==
  /\ Alive(c)
  /\ Len(flight[c]) + Len(rx[c]) + 2 =< MaxFlight
  /\ flight' = [flight EXCEPT ![c] = @ \o Pieces(m)]
  /\ UNCHANGED <<peer, srv, rx, responded, netctlVars, sharedVars>>

SendHandshake(c) ==
  /\ "Handshake" \notin said[c]
  /\ said' = [said EXCEPT ![c] = @ \cup {"Handshake"}]
  /\ Send(c, Plain("Handshake"))

SendConfig(c) ==
  /\ responded[c]
  /\ "Config" \notin said[c]
  /\ said' = [said EXCEPT ![c] = @ \cup {"Config"}]
  /\ \E i \in PollingIntervals : Send(c, [type |-> "Config", interval |-> i])

SendHeartbeat(c) ==
  /\ responded[c]
  /\ UNCHANGED said
  /\ Send(c, Plain("Heartbeat"))

\* The network delivers whole messages, or any number of pieces under "fragment".
Arrive(c) ==
  /\ srv[c] \in {"backlog", "open"}
  /\ peer[c] \in {"connected", "closed"}
  /\ \E n \in 1 .. Len(flight[c]) :
       /\ "fragment" \in Faults \/ n % 2 = 0
       /\ rx' = [rx EXCEPT ![c] = @ \o SubSeq(flight[c], 1, n)]
       /\ flight' = [flight EXCEPT ![c] = SubSeq(@, n + 1, Len(@))]
  /\ UNCHANGED <<peer, srv, said, responded, netctlVars, sharedVars>>

\* The PC closes the connection; without "silent" only after its handshake.
Close(c) ==
  /\ "close" \in Faults
  /\ Alive(c)
  /\ "silent" \in Faults \/ "Handshake" \in said[c]
  /\ peer' = [peer EXCEPT ![c] = "closed"]
  /\ UNCHANGED <<srv, flight, rx, said, responded, netctlVars, sharedVars>>

\* A reset discards what was in flight; a connection not accepted yet is gone.
Reset(c) ==
  /\ "reset" \in Faults
  /\ Alive(c)
  /\ peer' = [peer EXCEPT ![c] = "reset"]
  /\ srv' = [srv EXCEPT ![c] = IF @ = "backlog" THEN "closed" ELSE @]
  /\ flight' = [flight EXCEPT ![c] = << >>]
  /\ rx' = [rx EXCEPT ![c] = << >>]
  /\ UNCHANGED <<said, responded, netctlVars, sharedVars>>

\* The PC loses power or its link: the server hears nothing of it any more.
Vanish(c) ==
  /\ "vanish" \in Faults
  /\ Alive(c)
  /\ peer' = [peer EXCEPT ![c] = "vanished"]
  /\ UNCHANGED <<srv, flight, rx, said, responded, netctlVars, sharedVars>>

\* netctl_cb: every state but CONNECTED raises the Disconnected bit.
netctl_cb(state) == IF state = "CONNECTED" THEN "Connected" ELSE "Disconnected"

\* The interface changes state; the callback waits for sceNetCtlCheckCallback.
NetChange ==
  /\ netChanges < MaxNetChanges
  /\ netChanges' = netChanges + 1
  /\ netState' \in NetCtlState \ {netState}
  /\ ncPending' = ncPending \cup {netctl_cb(netState')}
  /\ UNCHANGED <<peerVars, evflag, running, padMode, buttons, clientIp>>

PeerStep(c) ==
  \/ Connect(c) \/ SendHandshake(c) \/ SendConfig(c) \/ SendHeartbeat(c)
  \/ Arrive(c) \/ Close(c) \/ Reset(c) \/ Vanish(c)

PeersNext == NetChange \/ \E c \in Clients : PeerStep(c)

\* The server closes its end of connection c: what was queued for it is gone.
CloseEnd(c) ==
  /\ srv' = [srv EXCEPT ![c] = "closed"]
  /\ flight' = [flight EXCEPT ![c] = << >>]
  /\ rx' = [rx EXCEPT ![c] = << >>]
===============================================================================
