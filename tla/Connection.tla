------------------------------- MODULE Connection ------------------------------
(***************************************************************************)
(* How the client finds the messages in the bytes it receives              *)
(* (client/packages/protocol/src/connection.rs).  A stream is a sequence   *)
(* of messages that begin at known offsets; the incoming buffer holds its  *)
(* bytes from parsed up to received.  What the program reads at a place    *)
(* that is no beginning of a message is left open.                         *)
(***************************************************************************)
EXTENDS Integers, Sequences

CONSTANTS
  Streams,          \* the streams looked at
  OFFSET_SIZE,      \* bytes of the size in front of a packet
  HEARTBEAT_SIZE,   \* bytes of HEARTBEAT_MAGIC
  HEARTBEAT_AS_SIZE \* the size that its first bytes make

\* Ignored: of no event, as a Config, or pad data that lacks a part; Invalid:
\* rejected by the verifier.
Kind == {"Heartbeat", "Handshake", "Pad", "Ignored", "Invalid"}

\* start[i] is the offset of message i, start[Len(kind) + 1] the end of the stream;
\* whole says that the caller is main with its datagrams: each call brings one whole
\* message and is followed by events().
WellFormed(s) ==
  /\ s.kind \in Seq(Kind) /\ s.whole \in BOOLEAN
  /\ s.start \in [1 .. Len(s.kind) + 1 -> Nat]
  /\ s.start[1] = 0
  /\ \A i \in 1 .. Len(s.kind) :
       LET length == s.start[i + 1] - s.start[i]
       IN  IF s.kind[i] = "Heartbeat" THEN length = HEARTBEAT_SIZE ELSE length > OFFSET_SIZE
  /\ s.start[Len(s.kind) + 1] < HEARTBEAT_AS_SIZE

ASSUME ConnectionAssumption ==
  /\ OFFSET_SIZE \in Nat \ {0} /\ HEARTBEAT_SIZE \in Nat /\ HEARTBEAT_AS_SIZE \in Nat
  /\ OFFSET_SIZE =< HEARTBEAT_SIZE
  /\ \A s \in Streams : WellFormed(s)

VARIABLES
  stream,
  received,  \* bytes that receive_data has taken
  parsed,    \* bytes that were drained from incoming_buffer
  cpc,       \* is the caller between calls, in next() or in a loop over events()?
  ended,     \* what ended that
  emitted    \* history: the messages it got an event or an error for

connectionVars == <<stream, received, parsed, cpc, ended, emitted>>

Messages == 1 .. Len(stream.kind)
Total == stream.start[Len(stream.kind) + 1]
Buffered == received - parsed

ConnectionTypeOK ==
  /\ stream \in Streams
  /\ received \in 0 .. Total /\ parsed \in 0 .. received
  /\ cpc \in {"idle", "first", "loop", "panicked"}
  /\ ended \in {"fresh", "none", "ignored", "caller"}
  /\ emitted \in Seq(Messages)

ConnectionInit ==
  /\ stream \in Streams
  /\ received = 0 /\ parsed = 0
  /\ cpc = "idle" /\ ended = "fresh" /\ emitted = << >>

-------------------------------------------------------------------------------
(* The caller.                                                              *)

receive_data(n) ==
  /\ cpc = "idle"
  /\ received + n =< Total
  /\ stream.whole => /\ received = 0 \/ ended # "fresh"
                     /\ \E i \in Messages : /\ received = stream.start[i]
                                            /\ received + n = stream.start[i + 1]
  /\ received' = received + n
  /\ ended' = "fresh"
  /\ UNCHANGED <<stream, parsed, cpc, emitted>>

\* main takes the first event only of what it receives first, the response to the
\* handshake, and then loops until there is no event.
events ==
  /\ cpc = "idle" /\ ended = "fresh"
  /\ cpc' = "loop" \/ (parsed = 0 /\ cpc' = "first")
  /\ UNCHANGED <<stream, received, parsed, ended, emitted>>

InNext == cpc \in {"first", "loop"}
Ends(why) == cpc' = "idle" /\ ended' = why

-------------------------------------------------------------------------------
(* ConnectionEvents::next.                                                  *)

Front == {i \in Messages : stream.start[i] = parsed}

AtHeartbeat == /\ Buffered >= HEARTBEAT_SIZE
               /\ \E i \in Front : stream.kind[i] = "Heartbeat"

\* What the first bytes make as a size.
Sizes ==
  IF Front = {} THEN 0 .. HEARTBEAT_AS_SIZE
  ELSE {IF stream.kind[i] = "Heartbeat" THEN HEARTBEAT_AS_SIZE
        ELSE stream.start[i + 1] - stream.start[i] - OFFSET_SIZE : i \in Front}

TooShort ==
  /\ InNext
  /\ Buffered < OFFSET_SIZE
  /\ Ends("none")
  /\ UNCHANGED <<stream, received, parsed, emitted>>

Emits ==
  /\ \E i \in Front : emitted' = Append(emitted, i)
  /\ IF cpc = "first" THEN Ends("caller") ELSE UNCHANGED <<cpc, ended>>

\* Mutant of Heartbeat: it is drained as if it had a size.
HeartbeatAsOffset ==
  /\ InNext /\ Buffered >= OFFSET_SIZE /\ AtHeartbeat
  /\ parsed' = parsed + OFFSET_SIZE
  /\ Emits
  /\ UNCHANGED <<stream, received>>

Heartbeat ==
  /\ InNext /\ Buffered >= OFFSET_SIZE /\ AtHeartbeat
  /\ parsed' = parsed + HEARTBEAT_SIZE
  /\ Emits
  /\ UNCHANGED <<stream, received>>

\* Mutants of Lacks: the size in front is forgotten; a complete packet is short.
LacksAfterSize(size) == size = 0 \/ Buffered < size
LacksAtEnd(size) == size = 0 \/ Buffered =< OFFSET_SIZE + size

\* self.data[OFFSET_SIZE - 1..].len() < size: one byte too many is counted.
Lacks(size) == size = 0 \/ Buffered - (OFFSET_SIZE - 1) < size

Packet == InNext /\ Buffered >= OFFSET_SIZE /\ ~AtHeartbeat

Unfinished ==
  /\ Packet
  /\ \E size \in Sizes : Lacks(size)
  /\ Ends("none")
  /\ UNCHANGED <<stream, received, parsed, emitted>>

\* The drain is longer than the buffer.
DrainPanics ==
  /\ Packet
  /\ \E size \in Sizes : ~Lacks(size) /\ Buffered < OFFSET_SIZE + size
  /\ cpc' = "panicked"
  /\ UNCHANGED <<stream, received, parsed, ended, emitted>>

Drains == \E size \in Sizes : /\ ~Lacks(size) /\ Buffered >= OFFSET_SIZE + size
                              /\ parsed' = parsed + OFFSET_SIZE + size

\* An event, or the error of a packet that is invalid; the loop goes on after both.
Deliver ==
  /\ Packet
  /\ Drains
  /\ \E i \in Front : stream.kind[i] # "Ignored"
  /\ Emits
  /\ UNCHANGED <<stream, received>>

\* Mutant of Ignore: the packet stays in the buffer.
IgnoreKept ==
  /\ Packet
  /\ \E size \in Sizes : ~Lacks(size) /\ Buffered >= OFFSET_SIZE + size
  /\ \E i \in Front : stream.kind[i] = "Ignored"
  /\ Ends("ignored")
  /\ UNCHANGED <<stream, received, parsed, emitted>>

\* `None` of a packet that is drained: the loop ends, with more in the buffer or not.
Ignore ==
  /\ Packet
  /\ Drains
  /\ \E i \in Front : stream.kind[i] = "Ignored"
  /\ Ends("ignored")
  /\ UNCHANGED <<stream, received, emitted>>

ConnectionNext ==
  \/ \E n \in 1 .. Total : receive_data(n)
  \/ events \/ TooShort \/ Heartbeat \/ Unfinished \/ DrainPanics \/ Deliver \/ Ignore

ConnectionSpec == ConnectionInit /\ [][ConnectionNext]_connectionVars

-------------------------------------------------------------------------------
(* Properties.                                                              *)

\* However the stream is cut, the events are those of its messages, in their
\* order, none twice and none left out, and the buffer begins with a message.
EventsInOrder ==
  /\ parsed \in {stream.start[i] : i \in DOMAIN stream.start}
  /\ {emitted[k] : k \in DOMAIN emitted} =
       {i \in Messages : stream.start[i] < parsed /\ stream.kind[i] # "Ignored"}
  /\ \A j, k \in DOMAIN emitted : j < k => emitted[j] < emitted[k]

\* A loop that ends for lack of data leaves no complete message behind.
NothingWithheld ==
  cpc = "idle" /\ ended = "none"
    => \A i \in Messages : stream.start[i] >= parsed => received < stream.start[i + 1]

\* The drain behind the size check (connection.rs:105-109) panics only while one
\* last byte of a message is missing, hence never for datagrams.
PanicsOneShort ==
  cpc = "panicked" =>
    /\ ~stream.whole
    /\ \E i \in Messages : stream.start[i] = parsed /\ received + 1 = stream.start[i + 1]

\* No reading of the pad waits for the next datagram: after each, the buffer is
\* empty, also when a packet is ignored or the caller takes only the first event.
DatagramsDrained ==
  stream.whole /\ cpc = "idle" /\ ended # "fresh" => parsed = received

\* Every next() takes bytes off the buffer, never more than it has, unless it lacks
\* data or panics: a loop over the events cannot turn on one packet, and an ignored
\* one is not met again.
NextAdvances ==
  [][InNext /\ cpc' # "panicked" /\ ended' # "none"
       => parsed < parsed' /\ parsed' =< received]_connectionVars

\* The inductive invariant behind them; ConnectionProofs proves it.
ConnectionInv ==
  /\ ConnectionTypeOK
  /\ EventsInOrder /\ NothingWithheld /\ PanicsOneShort
  /\ cpc \in {"first", "loop"} => ended = "fresh"
  /\ stream.whole => \/ parsed = received
                     \/ /\ ended = "fresh"
                        /\ \E i \in Messages : /\ parsed = stream.start[i]
                                               /\ received = stream.start[i + 1]
===============================================================================
