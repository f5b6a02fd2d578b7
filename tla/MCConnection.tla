----------------------------- MODULE MCConnection -----------------------------
(***************************************************************************)
(* An instance of Connection for TLC: every stream of up to MaxMessages.   *)
(***************************************************************************)
EXTENDS Connection

CONSTANTS MaxMessages  \* bound: messages in a stream

Length == [Heartbeat |-> HEARTBEAT_SIZE, Handshake |-> OFFSET_SIZE + 3,
           Pad |-> OFFSET_SIZE + 4, Ignored |-> OFFSET_SIZE + 1,
           Invalid |-> OFFSET_SIZE + 2]

Starts(kind) ==
  LET from[i \in 1 .. Len(kind) + 1] ==
        IF i = 1 THEN 0 ELSE from[i - 1] + Length[kind[i - 1]]
  IN  from

AllStreams ==
  {[kind |-> kind, start |-> Starts(kind), whole |-> whole] :
     kind \in UNION {[1 .. n -> Kind] : n \in 1 .. MaxMessages}, whole \in BOOLEAN}
===============================================================================
