---------------------------- MODULE ClientProgram -----------------------------
(***************************************************************************)
(* The client program (client/packages/cli/src/main.rs with the Connection *)
(* of client/packages/protocol): it shakes hands over TCP, then waits for  *)
(* pad data on a UDP socket and sends heartbeats in between.  Its server   *)
(* keeps the promises of SessionSlot and drops a client whose heartbeats   *)
(* stay away; the network loses, duplicates and reorders datagrams.        *)
(*                                                                         *)
(* Time passes in ticks, Sec of them to a second, because both programs    *)
(* compare whole seconds.  The time a turn of the client's loop takes is   *)
(* counted where the turn waits, as lateness of the wait.                  *)
(***************************************************************************)
EXTENDS Naturals

CONSTANTS
  Me, None,      \* the PC, and no PC
  Faults,        \* subset of Fault: what may go wrong
  Sec,           \* ticks in a second
  HeartbeatFreq, \* MAX_HEARTBEAT_INTERVAL, which the handshake tells the client (s)
  Margin,        \* how much earlier the client sends (s): 5
  Greet,         \* bound: ticks from the server's accept to the client's first wait
  Slack,         \* bound: ticks by which the client's wait is late
  Delay,         \* bound: ticks from the write of a heartbeat to its handling
  MaxStamp       \* bound: readings of the pad

Fault == {"drop", "vanish", "call", "cut"}

ASSUME ClientAssumption ==
  /\ Me # None
  /\ Faults \subseteq Fault
  /\ Sec \in Nat \ {0} /\ HeartbeatFreq \in Nat /\ Margin \in Nat
  /\ Greet \in Nat /\ Slack \in Nat /\ Delay \in Nat /\ MaxStamp \in Nat

\* The margin covers what delays the heartbeats, and the greeting is shorter
\* than a period.
ASSUME MarginAssumption ==
  /\ Margin < HeartbeatFreq
  /\ Greet + Slack + Delay =< Margin * Sec
  /\ Greet < (HeartbeatFreq - Margin) * Sec

VARIABLES
  cpc,       \* where main is
  ctrl,      \* ctrl_socket, as the TCP of the PC sees the connection
  unacked,   \* was something written that the server will never acknowledge?
  srv,       \* the server's end of the connection, as in SessionSlot
  said,      \* which of Handshake and Config the client has sent
  answered,  \* the server sent its handshake response
  cAge,      \* last_time.elapsed(), in ticks
  wake,      \* cAge at which the present wait times out
  ready,     \* events.len() # 0
  beats,     \* ages of the heartbeats that were written and not handled yet
  sAge,      \* ticks since the server's heartbeat_time_helper_ was updated
  stamp,     \* timestamp of the last reading of the pad
  pads,      \* timestamps of the datagrams on their way
  lastStamp, \* last_timestamp
  shown,     \* history: timestamp of the report the device took last
  newest     \* history: greatest timestamp the client received

tcpVars == <<ctrl, unacked, srv, said, answered>>
timeVars == <<cAge, wake, beats, sAge>>
padVars == <<stamp, pads, lastStamp, shown, newest>>
clientVars == <<cpc, ready, tcpVars, timeVars, padVars>>

Looping == {"poll", "beat", "recv"}
Ended == {"failed", "panicked"}

ClientTypeOK ==
  /\ cpc \in {"connect", "greet", "response", "config"} \cup Looping \cup Ended
  /\ ctrl \in {"none", "up", "fin", "mute", "reset"}
  /\ srv \in {"none", "backlog", "open", "closed"}
  /\ said \subseteq {"Handshake", "Config"}
  /\ unacked \in BOOLEAN /\ answered \in BOOLEAN /\ ready \in BOOLEAN
  /\ cAge \in Nat /\ wake \in Nat /\ sAge \in Nat
  /\ beats \subseteq 0 .. Delay
  /\ stamp \in 0 .. MaxStamp
  /\ pads \subseteq 1 .. stamp
  /\ lastStamp \in 0 .. stamp /\ shown \in 0 .. stamp /\ newest \in 0 .. stamp

ClientInit ==
  /\ cpc = "connect" /\ ready = FALSE
  /\ ctrl = "none" /\ unacked = FALSE /\ srv = "none"
  /\ said = {} /\ answered = FALSE
  /\ cAge = 0 /\ wake = 0 /\ beats = {} /\ sAge = 0
  /\ stamp = 0 /\ pads = {} /\ lastStamp = 0 /\ shown = 0 /\ newest = 0

\* Duration::as_secs() and TimeHelper::elapsed_time_secs().
WholeSecs(age) == age \div Sec

\* Mutant of Period: the client sends as late as the server allows.
PeriodWithoutMargin == HeartbeatFreq

\* heartbeat_freq.saturating_sub(5).
Period == IF HeartbeatFreq > Margin THEN HeartbeatFreq - Margin ELSE 0

\* The timeout of the poller, in ticks: saturating, and in whole seconds.
PollTimeout(age) ==
  IF Period > WholeSecs(age) THEN (Period - WholeSecs(age)) * Sec ELSE 0

HeartbeatDue == WholeSecs(cAge) >= Period

-------------------------------------------------------------------------------
(* The session.                                                             *)

Fail == cpc' = "failed" /\ UNCHANGED <<ready, tcpVars, timeVars, padVars>>

\* expect() on a missing event, or drain() past the end of the buffer.
Panic == cpc' = "panicked" /\ UNCHANGED <<ready, tcpVars, timeVars, padVars>>

\* A write succeeds until the reset is known, also when nobody reads it.
CanWrite == ctrl # "reset"
Written == unacked' = (unacked \/ ctrl \in {"fin", "mute"}) /\ UNCHANGED <<ctrl, srv>>

ClientConnects ==
  /\ cpc = "connect"
  /\ cpc' = "greet" /\ ctrl' = "up" /\ srv' = "backlog"
  /\ UNCHANGED <<ready, unacked, said, answered, timeVars, padVars>>

\* Mutant of ClientGreets: the client does not wait for the response.
ClientGreetsOnly ==
  /\ cpc = "greet"
  /\ CanWrite
  /\ Written
  /\ said' = said \cup {"Handshake"}
  /\ cpc' = "config"
  /\ UNCHANGED <<ready, answered, timeVars, padVars>>

ClientGreets ==
  /\ cpc = "greet"
  /\ CanWrite
  /\ Written
  /\ said' = said \cup {"Handshake"}
  /\ cpc' = "response"
  /\ UNCHANGED <<ready, answered, timeVars, padVars>>

\* The response is read whole; last_time is set and the device created.
ReadResponse ==
  /\ cpc = "response"
  /\ answered /\ ctrl # "reset"
  /\ cpc' = "config" /\ cAge' = 0
  /\ UNCHANGED <<ready, tcpVars, wake, beats, sAge, padVars>>

\* One read is not a whole response: with more than a byte missing there is no
\* event, with one missing the size check lets the drain run past the end.
ResponseCut == cpc = "response" /\ "cut" \in Faults /\ answered /\ Panic

\* The server has closed: the read returns nothing, and there is no event.
ResponseEof == cpc = "response" /\ ~answered /\ ctrl = "fin" /\ Panic

\* The connection cannot be made, or is found to be reset.
ClientFails ==
  /\ \/ cpc = "connect"
     \/ cpc \in {"greet", "response", "config"} /\ ~CanWrite
     \/ cpc = "beat" /\ HeartbeatDue /\ ~CanWrite
  /\ Fail

\* Another call returns an error: the heartbeat over UDP that follows the
\* response, the creation of device or poller, poller.wait, recv_from, or
\* send_report.
CallFails ==
  /\ "call" \in Faults
  /\ \/ cpc = "response" /\ answered /\ CanWrite
     \/ cpc \in {"config", "poll", "recv"}
  /\ Fail

\* To the top of the loop, where the next wait begins.
Sleep(age) == cpc' = "poll" /\ wake' = age + PollTimeout(age)

SkipConfig ==
  /\ cpc = "config"
  /\ Sleep(cAge)
  /\ UNCHANGED <<ready, tcpVars, cAge, beats, sAge, padVars>>

\* polling_interval != MIN_POLLING_RATE.
SendConfig ==
  /\ cpc = "config"
  /\ CanWrite
  /\ Written
  /\ said' = said \cup {"Config"}
  /\ Sleep(cAge)
  /\ UNCHANGED <<ready, answered, cAge, beats, sAge, padVars>>

-------------------------------------------------------------------------------
(* The loop.                                                                *)

\* Mutant of Wake: the poller waits without a timeout.
WakeForData ==
  /\ cpc = "poll"
  /\ pads # {}
  /\ ready' = TRUE
  /\ cpc' = "beat"
  /\ UNCHANGED <<tcpVars, timeVars, padVars>>

\* poller.wait returns: a datagram can be read, or the time has come.
Wake ==
  /\ cpc = "poll"
  /\ pads # {} \/ cAge >= wake
  /\ ready' = (pads # {})
  /\ cpc' = "beat"
  /\ UNCHANGED <<tcpVars, timeVars, padVars>>

\* After the heartbeat: events.len() == 0 goes to the top again.
Onward(age) == IF ready THEN cpc' = "recv" /\ UNCHANGED wake ELSE Sleep(age)

\* Mutant of SendHeartbeat: last_time stays as it was.
SendHeartbeatOnly ==
  /\ cpc = "beat"
  /\ HeartbeatDue
  /\ CanWrite
  /\ Written
  /\ beats' = IF srv = "open" THEN beats \cup {0} ELSE beats
  /\ Onward(0)
  /\ UNCHANGED <<ready, said, answered, cAge, sAge, padVars>>

SendHeartbeat ==
  /\ cpc = "beat"
  /\ HeartbeatDue
  /\ CanWrite
  /\ Written
  /\ beats' = IF srv = "open" THEN beats \cup {0} ELSE beats
  /\ cAge' = 0
  /\ Onward(0)
  /\ UNCHANGED <<ready, said, answered, sAge, padVars>>

NoHeartbeat ==
  /\ cpc = "beat"
  /\ ~HeartbeatDue
  /\ Onward(cAge)
  /\ UNCHANGED <<ready, tcpVars, cAge, beats, sAge, padVars>>

\* Mutant of TakeReport: every report goes to the device.
TakeAnyReport(t) == lastStamp' = t /\ shown' = t

\* Mutant of TakeReport: the timestamp is the one to come.
TakeNextReport(t) ==
  IF t =< lastStamp THEN UNCHANGED <<lastStamp, shown>>
  ELSE lastStamp' = t + 1 /\ shown' = t

\* A report goes to the device unless its timestamp is not greater than the last.
TakeReport(t) ==
  IF t =< lastStamp THEN UNCHANGED <<lastStamp, shown>>
  ELSE lastStamp' = t /\ shown' = t

\* A datagram is received; the network may deliver it again.
Receive(t) ==
  /\ cpc = "recv"
  /\ t \in pads
  /\ pads' \in {pads, pads \ {t}}
  /\ newest' = IF t > newest THEN t ELSE newest
  /\ TakeReport(t)
  /\ Sleep(cAge)
  /\ UNCHANGED <<ready, tcpVars, cAge, beats, sAge, stamp>>

\* recv_from would block: the datagram was dropped after all.
NothingReceived ==
  /\ cpc = "recv"
  /\ pads = {}
  /\ Sleep(cAge)
  /\ UNCHANGED <<ready, tcpVars, cAge, beats, sAge, padVars>>

ClientRuns ==
  \/ ClientConnects \/ ClientGreets
  \/ ReadResponse \/ ResponseCut \/ ResponseEof \/ ClientFails
  \/ SkipConfig \/ SendConfig
  \/ Wake \/ SendHeartbeat \/ NoHeartbeat
  \/ \E t \in pads : Receive(t)
  \/ NothingReceived

ClientNext == ClientRuns \/ CallFails

-------------------------------------------------------------------------------
(* The server, as far as this client can tell.                              *)

ServerAccepts ==
  /\ srv = "backlog"
  /\ srv' = "open" /\ sAge' = 0
  /\ UNCHANGED <<cpc, ready, ctrl, unacked, said, answered, cAge, wake, beats, padVars>>

ServerAnswers ==
  /\ srv = "open"
  /\ "Handshake" \in said /\ ~answered
  /\ answered' = TRUE
  /\ UNCHANGED <<cpc, ready, ctrl, unacked, srv, said, timeVars, padVars>>

ServerEnds(seen) ==
  /\ srv' = "closed" /\ ctrl' = seen
  /\ beats' = {}
  /\ UNCHANGED <<cpc, ready, unacked, said, answered, cAge, wake, sAge, padVars>>

\* time_since_last_heartbeat() > MAX_HEARTBEAT_INTERVAL.
TimedOut == srv = "open" /\ WholeSecs(sAge) > HeartbeatFreq

\* Another PC has the slot, the time is up, or it drops the client for one of
\* the other causes of NetThread.  Unread data makes the close a reset.
ServerCloses ==
  /\ srv = "backlog" \/ TimedOut \/ (srv = "open" /\ "drop" \in Faults)
  /\ \E seen \in {"fin", "reset"} : ServerEnds(seen)

\* The console loses power or its link.
ServerVanishes ==
  /\ "vanish" \in Faults
  /\ srv \in {"backlog", "open"}
  /\ ServerEnds("mute")

HandleHeartbeat(age) ==
  /\ srv = "open"
  /\ age \in beats
  /\ beats' = beats \ {age}
  /\ sAge' = 0
  /\ UNCHANGED <<cpc, ready, tcpVars, cAge, wake, padVars>>

\* A new reading, or the old one again after a failed get_ctrl, is pushed.
ServerPushes ==
  /\ srv = "open"
  /\ answered
  /\ stamp' \in {stamp, stamp + 1} /\ stamp' \in 1 .. MaxStamp
  /\ pads' = pads \cup {stamp'}
  /\ UNCHANGED <<cpc, ready, tcpVars, timeVars, lastStamp, shown, newest>>

-------------------------------------------------------------------------------
(* Time and the network.                                                    *)

Lose ==
  /\ \E t \in pads : pads' = pads \ {t}
  /\ UNCHANGED <<cpc, ready, tcpVars, timeVars, stamp, lastStamp, shown, newest>>

\* The reset that answers a write, or the end of the retransmissions.
ResetArrives ==
  /\ ctrl \in {"fin", "mute"}
  /\ unacked \/ ctrl = "mute"
  /\ ctrl' = "reset"
  /\ UNCHANGED <<cpc, ready, unacked, srv, said, answered, timeVars, padVars>>

\* How long the client may stay where it is.
MayWait ==
  CASE cpc \in {"connect", "greet", "response"} -> srv = "open" => sAge < Greet
    [] cpc = "config" -> cAge < Greet /\ (srv = "open" => sAge < Greet)
    [] cpc = "poll" -> cAge < wake + Slack
    [] cpc \in Ended -> srv = "open" /\ ~TimedOut
    [] OTHER -> FALSE

Tick ==
  /\ MayWait
  /\ \A age \in beats : age < Delay
  /\ cAge' = IF cpc \in {"config"} \cup Looping THEN cAge + 1 ELSE cAge
  /\ sAge' = IF srv = "open" THEN sAge + 1 ELSE sAge
  /\ beats' = {age + 1 : age \in beats}
  /\ UNCHANGED <<cpc, ready, tcpVars, wake, padVars>>

WorldNext ==
  \/ ServerAccepts \/ ServerAnswers \/ ServerCloses \/ ServerVanishes
  \/ \E age \in beats : HandleHeartbeat(age)
  \/ ServerPushes \/ Lose \/ ResetArrives \/ Tick

Next == ClientNext \/ WorldNext

ClientSpec == ClientInit /\ [][Next]_clientVars

(***************************************************************************)
(* Fairness: the client runs (no call need fail), the server handles       *)
(* heartbeats in time, a write that nobody acknowledges is reset in the    *)
(* end, and time passes, whatever number of datagrams the client is woken  *)
(* for.                                                                    *)
(***************************************************************************)
FairClientSpec ==
  /\ ClientSpec
  /\ WF_clientVars(ClientRuns)
  /\ WF_clientVars(\E age \in beats : HandleHeartbeat(age))
  /\ WF_clientVars(unacked /\ ResetArrives)
  /\ SF_clientVars(Tick)

-------------------------------------------------------------------------------
\* A client that runs is never dropped for the lack of heartbeats: its period,
\* truncated to seconds, plus the delays stays below the server's timeout
\* (main.rs:228-254 against net.cpp:328).
KeptAlive == cpc \notin Ended => ~TimedOut

(***************************************************************************)
(* The inductive invariant behind KeptAlive and NewestShown; ClientProofs  *)
(* proves it.                                                              *)
(***************************************************************************)
\* The age of last_time at which a due heartbeat is written at the latest.
LastWake == Period * Sec + Sec - 1
MaxAge == LastWake + Slack

\* The client's clock: it is through with its greeting in time, and the loop
\* does not let a heartbeat that is due pass.
ClientTimely ==
  /\ cpc = "config" => cAge =< Greet
  /\ cpc = "poll" => wake =< LastWake /\ cAge =< wake + Slack
  /\ cpc = "beat" => cAge =< MaxAge
  /\ cpc = "recv" => ~HeartbeatDue

\* The server's clock runs from the accept, from a heartbeat that was handled,
\* or is about to be set back by one that is on its way.
ServerTimely ==
  srv = "open" =>
    /\ cpc \in {"connect", "greet", "response", "config"} => beats = {} /\ sAge =< Greet
    /\ cpc \in Looping =>
         IF beats = {} THEN sAge =< cAge + Greet
         ELSE \E age \in beats : sAge =< age + MaxAge + Greet

\* The session goes through its stages in order.
Staged ==
  /\ srv = "none" <=> ctrl = "none"
  /\ cpc = "connect" => srv = "none"
  /\ cpc \in {"greet", "response", "config"} \cup Looping => srv # "none"
  /\ cpc \in {"connect", "greet"} => said = {}
  /\ cpc \in {"response", "config"} => "Config" \notin said
  /\ cpc \in {"config"} \cup Looping => answered
  /\ srv # "open" \/ cpc = "connect" => beats = {}
  /\ answered => srv # "none"
  /\ pads # {} => answered

ClientInv ==
  /\ ClientTypeOK
  /\ ClientTimely /\ ServerTimely
  /\ Staged
  /\ lastStamp = newest /\ shown = newest

\* The device shows the newest reading that has arrived, whatever order the
\* datagrams come in and however often (main.rs:276-280).
NewestShown == shown = newest

\* The program keeps the client's side of the slot: one handshake, and a
\* configuration only after the answer.
Slot == INSTANCE SessionSlot
          WITH Clients <- {Me},
               conn <- [c \in {Me} |-> srv],
               said <- [c \in {Me} |-> said],
               answered <- IF answered THEN {Me} ELSE {},
               target <- IF pads = {} THEN None ELSE Me

ImplementsSlot == Slot!SlotSpec

\* A client whose session is over ends, and does not wait for pad data for ever
\* with its device plugged in: the heartbeats find it out (main.rs:238-254).  One
\* that waits for the response of a console that vanished is the exception, its
\* read has no timeout (main.rs:157).
DroppedEnds ==
  srv = "closed" ~> cpc \in Ended \/ (cpc = "response" /\ ctrl = "mute")
===============================================================================
