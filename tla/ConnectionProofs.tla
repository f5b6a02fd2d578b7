---------------------------- MODULE ConnectionProofs ---------------------------
(***************************************************************************)
(* Proofs about Connection, for all streams, sizes and ways to cut them.   *)
(***************************************************************************)
EXTENDS Connection, WellFoundedInduction, TLAPS

-------------------------------------------------------------------------------
(* The messages of a stream.                                                *)

LEMMA StreamType ==
  ASSUME ConnectionTypeOK
  PROVE  /\ WellFormed(stream)
         /\ Len(stream.kind) \in Nat
         /\ stream.start \in [1 .. Len(stream.kind) + 1 -> Nat]
         /\ Total \in Nat
<1>1. WellFormed(stream)
  BY ConnectionAssumption DEF ConnectionTypeOK
<1>2. Len(stream.kind) \in Nat
  BY <1>1 DEF WellFormed
<1>3. stream.start \in [1 .. Len(stream.kind) + 1 -> Nat]
  BY <1>1 DEF WellFormed
<1> QED
  BY <1>1, <1>2, <1>3 DEF Total

\* A set of numbers has a least one, from which the induction below is made.
LEMMA Least ==
  ASSUME NEW T, T \subseteq Nat, T # {}
  PROVE  \E x \in T : \A y \in T : x =< y
<1>1. ASSUME NEW x \in Nat, NEW y \in Nat
      PROVE  <<x, y>> \in OpToRel(<, Nat) <=> x < y
  BY DEF OpToRel
<1>2. PICK x \in T : \A y \in T : ~(<<y, x>> \in OpToRel(<, Nat))
  BY NatLessThanWellFounded, WFMin
<1>3. \A y \in T : ~(y < x)
  BY <1>1, <1>2
<1> QED
  BY <1>3

\* Every message has a length.
LEMMA Longer ==
  ASSUME ConnectionTypeOK, NEW i \in 1 .. Len(stream.kind)
  PROVE  stream.start[i] < stream.start[i + 1]
<1>1. stream.start[i] \in Nat /\ stream.start[i + 1] \in Nat
  BY StreamType
<1>2. stream.start[i + 1] - stream.start[i] = HEARTBEAT_SIZE
      \/ stream.start[i + 1] - stream.start[i] > OFFSET_SIZE
  BY StreamType DEF WellFormed
<1>3. HEARTBEAT_SIZE \in Nat /\ OFFSET_SIZE \in Nat /\ OFFSET_SIZE > 0
      /\ OFFSET_SIZE =< HEARTBEAT_SIZE
  BY ConnectionAssumption
<1> QED
  BY <1>1, <1>2, <1>3

\* So the offsets grow: were there messages that begin no later than one before them,
\* the first of those would follow one that begins later, or the one before itself.
LEMMA Growing ==
  ASSUME ConnectionTypeOK,
         NEW i \in 1 .. Len(stream.kind) + 1, NEW j \in 1 .. Len(stream.kind) + 1, i < j
  PROVE  stream.start[i] < stream.start[j]
<1> DEFINE Bad == {m \in i + 1 .. Len(stream.kind) + 1 : ~(stream.start[i] < stream.start[m])}
<1> SUFFICES ASSUME Bad # {} PROVE FALSE
  BY StreamType
<1>1. PICK m \in Bad : \A k \in Bad : m =< k
  <2>1. Bad \subseteq Nat
    BY StreamType
  <2> HIDE DEF Bad
  <2> QED
    BY <2>1, Least
<1>2. m - 1 \in 1 .. Len(stream.kind) /\ m - 1 >= i /\ m \in 1 .. Len(stream.kind) + 1
  <2>1. m \in i + 1 .. Len(stream.kind) + 1
    BY <1>1
  <2> HIDE DEF Bad
  <2> QED
    BY <2>1, StreamType
<1>3. stream.start[m - 1] < stream.start[m]
  <2>1. stream.start[m - 1] < stream.start[(m - 1) + 1]
    BY <1>2, Longer
  <2> QED
    BY <1>2, <2>1
<1>4. stream.start[i] \in Nat /\ stream.start[m - 1] \in Nat /\ stream.start[m] \in Nat
  <2>1. m - 1 \in 1 .. Len(stream.kind) + 1
    BY <1>2, StreamType
  <2> HIDE DEF Bad
  <2> QED
    BY <1>2, <2>1, StreamType
<1>5. CASE m - 1 = i
  BY <1>1, <1>3, <1>4, <1>5
<1>6. CASE m - 1 # i
  <2>1. m - 1 \in i + 1 .. Len(stream.kind) + 1 /\ ~(m =< m - 1)
    BY <1>2, <1>6, StreamType
  <2>2. m - 1 \notin Bad
    BY <1>1, <2>1
  <2> QED
    BY <1>1, <1>3, <1>4, <2>1, <2>2
<1> QED
  BY <1>5, <1>6

\* Offsets are ordered as the messages are.
LEMMA Ordered ==
  ASSUME ConnectionTypeOK,
         NEW i \in 1 .. Len(stream.kind) + 1, NEW j \in 1 .. Len(stream.kind) + 1
  PROVE  /\ stream.start[i] < stream.start[j] <=> i < j
         /\ stream.start[i] = stream.start[j] <=> i = j
<1>1. i < j => stream.start[i] < stream.start[j]
  BY Growing
<1>2. j < i => stream.start[j] < stream.start[i]
  BY Growing
<1>3. stream.start[i] \in Nat /\ stream.start[j] \in Nat
  BY StreamType
<1> QED
  BY <1>1, <1>2, <1>3, StreamType

\* One message begins at an offset, and it has the length of its kind.
LEMMA FrontIs ==
  ASSUME ConnectionTypeOK, NEW i \in Messages, stream.start[i] = parsed
  PROVE  /\ Front = {i}
         /\ stream.start[i + 1] \in Nat /\ parsed \in Nat
         /\ parsed + OFFSET_SIZE =< stream.start[i + 1]
         /\ stream.start[i + 1] < HEARTBEAT_AS_SIZE
         /\ stream.kind[i] = "Heartbeat" => stream.start[i + 1] = parsed + HEARTBEAT_SIZE
         /\ stream.kind[i] # "Heartbeat" => stream.start[i + 1] > parsed + OFFSET_SIZE
<1>1. \A j \in Messages : stream.start[j] = parsed <=> j = i
  BY Ordered, StreamType DEF Messages
<1>2. i \in 1 .. Len(stream.kind) + 1 /\ i + 1 \in 1 .. Len(stream.kind) + 1
  BY StreamType DEF Messages
<1>3. stream.start[i] \in Nat /\ stream.start[i + 1] \in Nat
  BY <1>2, StreamType
<1>4. IF stream.kind[i] = "Heartbeat"
      THEN stream.start[i + 1] - stream.start[i] = HEARTBEAT_SIZE
      ELSE stream.start[i + 1] - stream.start[i] > OFFSET_SIZE
  BY StreamType DEF WellFormed, Messages
<1>5. OFFSET_SIZE \in Nat /\ HEARTBEAT_SIZE \in Nat /\ HEARTBEAT_AS_SIZE \in Nat
      /\ OFFSET_SIZE =< HEARTBEAT_SIZE
  BY ConnectionAssumption
<1>6. stream.start[i + 1] =< Total
  <2>1. Len(stream.kind) + 1 \in 1 .. Len(stream.kind) + 1
    BY StreamType
  <2>2. i + 1 < Len(stream.kind) + 1 \/ i + 1 = Len(stream.kind) + 1
    BY <1>2, StreamType
  <2>3. stream.start[i + 1] < stream.start[Len(stream.kind) + 1]
        \/ stream.start[i + 1] = stream.start[Len(stream.kind) + 1]
    BY <1>2, <2>1, <2>2, Ordered
  <2> QED
    BY <2>3, <1>3, StreamType DEF Total
<1>7. Total < HEARTBEAT_AS_SIZE
  BY StreamType DEF WellFormed, Total
<1>8. Front = {i}
  BY <1>1 DEF Front
<1>9. stream.start[i + 1] < HEARTBEAT_AS_SIZE
  BY <1>3, <1>5, <1>6, <1>7, StreamType
<1>10. CASE stream.kind[i] = "Heartbeat"
  BY <1>3, <1>4, <1>5, <1>8, <1>9, <1>10
<1>11. CASE stream.kind[i] # "Heartbeat"
  BY <1>3, <1>4, <1>5, <1>8, <1>9, <1>11
<1> QED
  BY <1>10, <1>11

\* Where a next finds enough bytes to read a size, a message begins.
LEMMA AtMessage ==
  ASSUME ConnectionTypeOK, EventsInOrder, Buffered >= OFFSET_SIZE
  PROVE  \E i \in Messages : stream.start[i] = parsed
<1>1. PICK i \in 1 .. Len(stream.kind) + 1 : stream.start[i] = parsed
  BY StreamType DEF EventsInOrder
<1>2. i # Len(stream.kind) + 1
  <2>1. parsed < Total
    BY StreamType, ConnectionAssumption DEF ConnectionTypeOK, Buffered
  <2> QED
    BY <2>1, <1>1, StreamType DEF Total
<1> QED
  BY <1>1, <1>2, StreamType DEF Messages

-------------------------------------------------------------------------------
(* What next drains is a message.                                           *)

LEMMA Advance ==
  ASSUME ConnectionTypeOK, EventsInOrder, NEW i \in Messages, stream.start[i] = parsed,
         stream' = stream, parsed' = stream.start[i + 1],
         emitted' = IF stream.kind[i] = "Ignored" THEN emitted ELSE Append(emitted, i)
  PROVE  EventsInOrder' /\ emitted' \in Seq(Messages)
<1> DEFINE Seen(p) == {j \in Messages : stream.start[j] < p /\ stream.kind[j] # "Ignored"}
<1>1. i \in 1 .. Len(stream.kind) + 1 /\ i + 1 \in 1 .. Len(stream.kind) + 1
  BY StreamType DEF Messages
<1>2. \A j \in Messages : stream.start[j] < stream.start[i + 1] <=> j =< i
  BY <1>1, Ordered, StreamType DEF Messages
<1>3. \A j \in Messages : stream.start[j] < parsed <=> j < i
  BY <1>1, Ordered, StreamType DEF Messages
<1>4. Seen(stream.start[i + 1])
        = Seen(parsed) \cup (IF stream.kind[i] = "Ignored" THEN {} ELSE {i})
  BY <1>2, <1>3, StreamType DEF Messages
<1>5. parsed' \in {stream.start[j] : j \in DOMAIN stream.start}
  BY <1>1, StreamType
<1>6. emitted \in Seq(Messages)
  BY DEF ConnectionTypeOK
<1>7. {emitted[k] : k \in DOMAIN emitted} = Seen(parsed)
  BY DEF EventsInOrder
<1>8. \A k \in DOMAIN emitted : emitted[k] < i
  BY <1>3, <1>7, StreamType
<1>9. CASE stream.kind[i] = "Ignored"
  <2>1. emitted' = emitted
    BY <1>9
  <2>2. {emitted[k] : k \in DOMAIN emitted} = Seen(stream.start[i + 1])
    BY <1>9, <1>4, <1>7
  <2> HIDE DEF Seen
  <2>3. Seen(stream.start[i + 1])
         = {j \in Messages' : stream'.start[j] < parsed' /\ stream'.kind[j] # "Ignored"}
    BY DEF Seen, Messages
  <2> QED
    BY <2>1, <2>2, <2>3, <1>5, <1>6 DEF EventsInOrder
<1>10. CASE stream.kind[i] # "Ignored"
  <2>1. emitted' = Append(emitted, i)
    BY <1>10
  <2>2. /\ DOMAIN emitted = 1 .. Len(emitted) /\ Len(emitted) \in Nat
        /\ DOMAIN emitted' = 1 .. Len(emitted) + 1
        /\ emitted'[Len(emitted) + 1] = i
        /\ \A k \in 1 .. Len(emitted) : emitted'[k] = emitted[k]
    BY <2>1, <1>6
  <2>3. {emitted'[k] : k \in DOMAIN emitted'} = {emitted[k] : k \in DOMAIN emitted} \cup {i}
    BY <2>2
  <2>4. {emitted'[k] : k \in DOMAIN emitted'} = Seen(stream.start[i + 1])
    BY <2>3, <1>4, <1>7, <1>10
  <2>5. \A j, k \in DOMAIN emitted' : j < k => emitted'[j] < emitted'[k]
    BY <2>2, <1>8 DEF EventsInOrder
  <2>6. emitted' \in Seq(Messages)
    BY <2>1, <1>6
  <2> HIDE DEF Seen
  <2>7. Seen(stream.start[i + 1])
         = {j \in Messages' : stream'.start[j] < parsed' /\ stream'.kind[j] # "Ignored"}
    BY DEF Seen, Messages
  <2> QED
    BY <2>4, <2>5, <2>6, <2>7, <1>5 DEF EventsInOrder
<1> QED
  BY <1>9, <1>10

\* What a next that finds enough bytes reads and drains.
LEMMA SizeRead ==
  ASSUME ConnectionTypeOK, NEW i \in Messages, stream.start[i] = parsed
  PROVE  /\ AtHeartbeat <=> stream.kind[i] = "Heartbeat" /\ Buffered >= HEARTBEAT_SIZE
         /\ Sizes = {IF stream.kind[i] = "Heartbeat" THEN HEARTBEAT_AS_SIZE
                     ELSE stream.start[i + 1] - parsed - OFFSET_SIZE}
BY FrontIs DEF AtHeartbeat, Sizes

\* A packet that does not lack anything has all its bytes in the buffer but one.
LEMMA PacketSize ==
  ASSUME ConnectionTypeOK, NEW i \in Messages, stream.start[i] = parsed,
         ~AtHeartbeat, NEW size \in Sizes
  PROVE  /\ ~Lacks(size) => /\ stream.kind[i] # "Heartbeat"
                            /\ parsed + OFFSET_SIZE + size = stream.start[i + 1]
                            /\ received + 1 >= stream.start[i + 1]
         /\ Lacks(size) => received < stream.start[i + 1]
<1>1. /\ OFFSET_SIZE \in Nat \ {0} /\ HEARTBEAT_SIZE \in Nat /\ HEARTBEAT_AS_SIZE \in Nat
      /\ OFFSET_SIZE =< HEARTBEAT_SIZE
  BY ConnectionAssumption
<1>2. received \in Nat /\ parsed \in Nat /\ parsed =< received /\ received =< Total
  BY StreamType DEF ConnectionTypeOK
<1>3. Total < HEARTBEAT_AS_SIZE
  BY StreamType DEF WellFormed, Total
<1>4. stream.start[i + 1] \in Nat
  BY FrontIs
<1>5. CASE stream.kind[i] = "Heartbeat"
  <2>1. size = HEARTBEAT_AS_SIZE /\ Buffered < HEARTBEAT_SIZE
    BY <1>5, <1>1, <1>2, SizeRead DEF Buffered
  <2>2. stream.start[i + 1] = parsed + HEARTBEAT_SIZE
    BY <1>5, FrontIs
  <2>3. Buffered - (OFFSET_SIZE - 1) < size
    BY <2>1, <1>1, <1>2, <1>3, StreamType DEF Buffered
  <2> QED
    BY <2>1, <2>2, <2>3, <1>1, <1>2 DEF Lacks, Buffered
<1>6. CASE stream.kind[i] # "Heartbeat"
  <2>1. size = stream.start[i + 1] - parsed - OFFSET_SIZE
    BY <1>6, SizeRead
  <2>2. size # 0
    BY <1>6, <2>1, <1>1, <1>2, <1>4, FrontIs
  <2> QED
    BY <1>6, <2>1, <2>2, <1>1, <1>2, <1>4 DEF Lacks, Buffered
<1> QED
  BY <1>5, <1>6

-------------------------------------------------------------------------------
(* The inductive invariant.                                                 *)

LEMMA InitInv == ConnectionInit => ConnectionInv
<1> SUFFICES ASSUME ConnectionInit PROVE ConnectionInv
  OBVIOUS
<1>1. WellFormed(stream)
  BY ConnectionAssumption DEF ConnectionInit
<1>2. /\ Len(stream.kind) \in Nat
      /\ stream.start \in [1 .. Len(stream.kind) + 1 -> Nat] /\ stream.start[1] = 0
  BY <1>1 DEF WellFormed
<1>3. ConnectionTypeOK
  BY <1>2 DEF ConnectionInit, ConnectionTypeOK, Total, Messages
<1>4. \A i \in Messages : ~(stream.start[i] < parsed)
  BY <1>2 DEF ConnectionInit, Messages
<1>5. EventsInOrder
  BY <1>2, <1>4 DEF ConnectionInit, EventsInOrder
<1> QED
  BY <1>3, <1>5 DEF ConnectionInit, ConnectionInv, NothingWithheld, PanicsOneShort

LEMMA ReceiveInv ==
  ASSUME ConnectionInv, NEW n \in 1 .. Total, receive_data(n)
  PROVE  ConnectionInv'
<1>1. ConnectionTypeOK
  BY DEF ConnectionInv
<1>2. n \in Nat /\ received \in Nat /\ parsed \in 0 .. received /\ received + n =< Total
  BY <1>1, StreamType DEF ConnectionTypeOK, receive_data
<1>3. ConnectionTypeOK'
  BY <1>1, <1>2, StreamType DEF ConnectionTypeOK, receive_data, Total, Messages
<1>4. EventsInOrder'
  BY DEF ConnectionInv, EventsInOrder, receive_data, Messages
<1>5. stream.whole => parsed = received
  <2>1. received = 0 => parsed = received
    BY <1>2
  <2> QED
    BY <2>1 DEF ConnectionInv, receive_data
<1>6. stream'.whole => /\ ended' = "fresh"
                       /\ \E i \in Messages' : /\ parsed' = stream'.start[i]
                                               /\ received' = stream'.start[i + 1]
  BY <1>5 DEF receive_data, Messages
<1> QED
  BY <1>3, <1>4, <1>6 DEF ConnectionInv, NothingWithheld, PanicsOneShort, receive_data

LEMMA EventsInv == ConnectionInv /\ events => ConnectionInv'
BY DEF ConnectionInv, ConnectionTypeOK, EventsInOrder, NothingWithheld, PanicsOneShort,
       events, Messages, Total

\* A next that finds too little leaves no complete message.
LEMMA NoneInv ==
  ASSUME ConnectionInv, InNext, Ends("none"), UNCHANGED <<stream, received, parsed, emitted>>,
         \A i \in Messages : stream.start[i] = parsed => received < stream.start[i + 1]
  PROVE  ConnectionInv'
<1>1. ConnectionTypeOK /\ EventsInOrder
  BY DEF ConnectionInv
<1>2. ConnectionTypeOK'
  BY <1>1 DEF ConnectionTypeOK, Ends, Total, Messages
<1>3. EventsInOrder'
  BY <1>1 DEF EventsInOrder, Messages
<1>4. \A i \in Messages : stream.start[i] >= parsed => received < stream.start[i + 1]
  <2> SUFFICES ASSUME NEW i \in Messages, stream.start[i] >= parsed
               PROVE  received < stream.start[i + 1]
    OBVIOUS
  <2>1. PICK j \in 1 .. Len(stream.kind) + 1 : stream.start[j] = parsed
    BY <1>1, StreamType DEF EventsInOrder
  <2>2. i \in 1 .. Len(stream.kind) /\ i + 1 \in 1 .. Len(stream.kind) + 1
    BY StreamType, <1>1 DEF Messages
  <2>3. stream.start[i] \in Nat /\ stream.start[j] \in Nat
    BY <2>1, <2>2, <1>1, StreamType
  <2>4. j =< i
    <3>1. ~(stream.start[i] < stream.start[j])
      BY <2>1, <2>2, <2>3
    <3> QED
      BY <3>1, <2>1, <2>2, <1>1, Ordered, StreamType
  <2>5. j \in Messages /\ j + 1 \in 1 .. Len(stream.kind) + 1
    BY <2>1, <2>2, <2>4, <1>1, StreamType DEF Messages
  <2>6. received < stream.start[j + 1]
    BY <2>1, <2>5
  <2>7. stream.start[j + 1] =< stream.start[i + 1]
    <3>1. j + 1 < i + 1 \/ j + 1 = i + 1
      BY <2>2, <2>4, <2>5, <1>1, StreamType
    <3>2. stream.start[j + 1] < stream.start[i + 1] \/ stream.start[j + 1] = stream.start[i + 1]
      BY <3>1, <2>2, <2>5, <1>1, Ordered
    <3> QED
      BY <3>2, <2>2, <2>5, <1>1, StreamType
  <2>8. stream.start[j + 1] \in Nat /\ stream.start[i + 1] \in Nat
    BY <2>2, <2>5, <1>1, StreamType
  <2>9. received \in Nat
    BY <1>1, StreamType DEF ConnectionTypeOK
  <2> QED
    BY <2>6, <2>7, <2>8, <2>9
<1>5. stream.whole => parsed = received
  <2> SUFFICES ASSUME stream.whole PROVE parsed = received
    OBVIOUS
  <2>1. ASSUME NEW i \in Messages, parsed = stream.start[i], received = stream.start[i + 1]
        PROVE  FALSE
    <3>1. stream.start[i + 1] \in Nat
      BY <2>1, <1>1, FrontIs
    <3> QED
      BY <2>1, <3>1
  <2> QED
    BY <2>1 DEF ConnectionInv
<1> QED
  BY <1>2, <1>3, <1>4, <1>5
     DEF ConnectionInv, NothingWithheld, PanicsOneShort, Ends, Messages

\* A message that is drained is the whole of what a datagram brought.
LEMMA DrainInv ==
  ASSUME ConnectionInv, InNext, NEW i \in Messages, stream.start[i] = parsed,
         parsed' = stream.start[i + 1], stream.start[i + 1] =< received,
         UNCHANGED <<stream, received>>,
         \/ stream.kind[i] # "Ignored" /\ Emits
         \/ stream.kind[i] = "Ignored" /\ Ends("ignored") /\ UNCHANGED emitted
  PROVE  ConnectionInv'
<1>1. ConnectionTypeOK /\ EventsInOrder
  BY DEF ConnectionInv
<1>2. emitted' = IF stream.kind[i] = "Ignored" THEN emitted ELSE Append(emitted, i)
  BY <1>1, FrontIs DEF Emits
<1>3. EventsInOrder' /\ emitted' \in Seq(Messages)
  BY <1>1, <1>2, Advance
<1>4. \/ cpc' = cpc /\ ended' = ended
      \/ cpc' = "idle" /\ ended' \in {"caller", "ignored"}
  BY DEF Emits, Ends
<1>5. stream.start[i + 1] \in Nat /\ received \in Nat
  BY <1>1, FrontIs, StreamType DEF ConnectionTypeOK
<1>6. ConnectionTypeOK'
  BY <1>1, <1>3, <1>4, <1>5 DEF ConnectionTypeOK, Total, Messages
<1>7. ASSUME stream.whole PROVE parsed' = received'
  <2>1. parsed # received
    BY <1>1, <1>5, FrontIs, ConnectionAssumption
  <2>2. PICK j \in Messages : parsed = stream.start[j] /\ received = stream.start[j + 1]
    BY <2>1, <1>7 DEF ConnectionInv
  <2>3. j = i
    BY <2>2, <1>1, Ordered, StreamType DEF Messages
  <2> QED
    BY <2>2, <2>3
<1>8. cpc' \in {"first", "loop"} => ended' = "fresh"
  BY <1>4 DEF ConnectionInv
<1>9. NothingWithheld' /\ PanicsOneShort'
  BY <1>4 DEF NothingWithheld, PanicsOneShort, InNext
<1> QED
  BY <1>3, <1>6, <1>7, <1>8, <1>9 DEF ConnectionInv

LEMMA NextInv ==
  ASSUME ConnectionInv, TooShort \/ Heartbeat \/ Unfinished \/ DrainPanics \/ Deliver \/ Ignore
  PROVE  ConnectionInv'
<1>1. ConnectionTypeOK /\ EventsInOrder
  BY DEF ConnectionInv
<1>2. /\ received \in Nat /\ parsed \in Nat /\ OFFSET_SIZE \in Nat \ {0}
  BY <1>1, StreamType, ConnectionAssumption DEF ConnectionTypeOK
<1>3. CASE TooShort
  <2>1. ASSUME NEW i \in Messages, stream.start[i] = parsed
        PROVE  received < stream.start[i + 1]
    BY <2>1, <1>1, <1>2, <1>3, FrontIs DEF TooShort, Buffered
  <2> QED
    BY <2>1, <1>3, NoneInv DEF TooShort
<1> SUFFICES ASSUME Buffered >= OFFSET_SIZE PROVE ConnectionInv'
  BY <1>3 DEF Heartbeat, Unfinished, DrainPanics, Deliver, Ignore, Packet
<1>4. PICK i \in Messages : stream.start[i] = parsed
  BY <1>1, AtMessage
<1>5. CASE Heartbeat
  <2>1. stream.kind[i] = "Heartbeat" /\ Buffered >= HEARTBEAT_SIZE
    BY <1>1, <1>4, <1>5, SizeRead DEF Heartbeat
  <2>2. stream.start[i + 1] = parsed + HEARTBEAT_SIZE
    BY <1>1, <1>4, <2>1, FrontIs
  <2>3. stream.start[i + 1] =< received
    BY <2>1, <2>2, <1>2, ConnectionAssumption DEF Buffered
  <2> QED
    BY <2>1, <2>2, <2>3, <1>4, <1>5, DrainInv DEF Heartbeat
<1>6. CASE Unfinished
  <2>1. PICK size \in Sizes : Lacks(size)
    BY <1>6 DEF Unfinished
  <2>2. received < stream.start[i + 1]
    BY <2>1, <1>1, <1>4, <1>6, PacketSize DEF Unfinished, Packet
  <2>3. \A j \in Messages : stream.start[j] = parsed => j = i
    BY <1>1, <1>4, FrontIs DEF Front
  <2> QED
    BY <2>2, <2>3, <1>6, NoneInv DEF Unfinished, Packet
<1>7. CASE DrainPanics
  <2>1. PICK size \in Sizes : ~Lacks(size) /\ Buffered < OFFSET_SIZE + size
    BY <1>7 DEF DrainPanics
  <2>2. /\ parsed + OFFSET_SIZE + size = stream.start[i + 1]
        /\ received + 1 >= stream.start[i + 1]
    BY <2>1, <1>1, <1>4, <1>7, PacketSize DEF DrainPanics, Packet
  <2>3. size \in Int /\ stream.start[i + 1] \in Nat
    BY <2>2, <1>1, <1>2, <1>4, FrontIs, SizeRead, <2>1, ConnectionAssumption
  <2>4. received + 1 = stream.start[i + 1]
    BY <2>1, <2>2, <2>3, <1>2 DEF Buffered
  <2>5. ~stream.whole
    <3>1. ASSUME NEW j \in Messages, parsed = stream.start[j], received = stream.start[j + 1]
          PROVE  FALSE
      <4>1. j = i
        BY <3>1, <1>1, <1>4, FrontIs DEF Front
      <4> QED
        BY <3>1, <4>1, <2>4, <1>2
    <3>2. parsed # received
      BY <1>2 DEF Buffered
    <3> QED
      BY <3>1, <3>2 DEF ConnectionInv
  <2> QED
    BY <2>4, <2>5, <1>1, <1>4, <1>7
       DEF ConnectionInv, ConnectionTypeOK, EventsInOrder, NothingWithheld, PanicsOneShort,
           DrainPanics, Messages, Total
<1>8. CASE Deliver \/ Ignore
  <2>1. PICK size \in Sizes : /\ ~Lacks(size) /\ Buffered >= OFFSET_SIZE + size
                              /\ parsed' = parsed + OFFSET_SIZE + size
    BY <1>8 DEF Deliver, Ignore, Drains
  <2>2. parsed + OFFSET_SIZE + size = stream.start[i + 1]
    BY <2>1, <1>1, <1>4, <1>8, PacketSize DEF Deliver, Ignore, Packet
  <2>3. size \in Int
    BY <2>1, <1>1, <1>2, <1>4, FrontIs, SizeRead, ConnectionAssumption
  <2>4. stream.start[i + 1] =< received /\ parsed' = stream.start[i + 1]
    BY <2>1, <2>2, <2>3, <1>2 DEF Buffered
  <2>5. \/ Deliver /\ stream.kind[i] # "Ignored"
        \/ Ignore /\ stream.kind[i] = "Ignored"
    BY <1>1, <1>4, <1>8, FrontIs DEF Deliver, Ignore
  <2> QED
    BY <2>4, <2>5, <1>4, <1>8, DrainInv DEF Deliver, Ignore, Packet
<1> QED
  BY <1>3, <1>5, <1>6, <1>7, <1>8

\* The invariant is inductive: the buffer begins with a message, whatever the sizes
\* and however the bytes arrive.
THEOREM Invariance == ConnectionSpec => []ConnectionInv
<1>1. ConnectionInv /\ [ConnectionNext]_connectionVars => ConnectionInv'
  <2> SUFFICES ASSUME ConnectionInv, [ConnectionNext]_connectionVars PROVE ConnectionInv'
    OBVIOUS
  <2>1. CASE UNCHANGED connectionVars
    BY <2>1 DEF connectionVars, ConnectionInv, ConnectionTypeOK, EventsInOrder,
                NothingWithheld, PanicsOneShort, Messages, Total
  <2> QED
    BY <2>1, ReceiveInv, EventsInv, NextInv DEF ConnectionNext
<1> QED
  BY <1>1, InitInv, PTL DEF ConnectionSpec

\* The events are those of the messages in their order.
THEOREM InOrder == ConnectionSpec => []EventsInOrder
<1>1. ConnectionInv => EventsInOrder
  BY DEF ConnectionInv
<1> QED
  BY <1>1, Invariance, PTL

\* A complete message is not left behind for lack of data.
THEOREM CompleteIsTaken == ConnectionSpec => []NothingWithheld
<1>1. ConnectionInv => NothingWithheld
  BY DEF ConnectionInv
<1> QED
  BY <1>1, Invariance, PTL

\* The off-by-one of the size check is met only with one byte missing, and never
\* by datagrams.
THEOREM PanicIsOneShort == ConnectionSpec => []PanicsOneShort
<1>1. ConnectionInv => PanicsOneShort
  BY DEF ConnectionInv
<1> QED
  BY <1>1, Invariance, PTL

\* After each datagram the buffer is empty again.
THEOREM EmptyAfterDatagram == ConnectionSpec => []DatagramsDrained
<1>1. ConnectionInv => DatagramsDrained
  BY DEF ConnectionInv, DatagramsDrained
<1> QED
  BY <1>1, Invariance, PTL

\* No loop over the events turns without taking bytes off the buffer.
THEOREM LoopsAdvance == ConnectionSpec => NextAdvances
<1> DEFINE Step == InNext /\ cpc' # "panicked" /\ ended' # "none"
                     => parsed < parsed' /\ parsed' =< received
<1>1. ConnectionInv /\ [ConnectionNext]_connectionVars => [Step]_connectionVars
  <2> SUFFICES ASSUME ConnectionInv, ConnectionNext, InNext,
                      cpc' # "panicked", ended' # "none"
               PROVE  parsed < parsed' /\ parsed' =< received
    OBVIOUS
  <2>1. ConnectionTypeOK /\ EventsInOrder
    BY DEF ConnectionInv
  <2>2. received \in Nat /\ parsed \in Nat /\ OFFSET_SIZE \in Nat \ {0}
    BY <2>1, StreamType, ConnectionAssumption DEF ConnectionTypeOK
  <2>3. Heartbeat \/ Deliver \/ Ignore
    BY DEF ConnectionNext, receive_data, events, InNext, TooShort, Unfinished, DrainPanics,
           Ends, Packet
  <2>4. CASE Heartbeat
    BY <2>2, <2>4, ConnectionAssumption DEF Heartbeat, AtHeartbeat, Buffered
  <2>5. CASE Deliver \/ Ignore
    <3>1. PICK size \in Sizes : ~Lacks(size) /\ Buffered >= OFFSET_SIZE + size
                                /\ parsed' = parsed + OFFSET_SIZE + size
      BY <2>5 DEF Deliver, Ignore, Drains
    <3>2. Packet
      BY <2>5 DEF Deliver, Ignore
    <3>3. PICK i \in Messages : stream.start[i] = parsed
      BY <2>1, <3>2, AtMessage DEF Packet
    <3>4. /\ stream.kind[i] # "Heartbeat"
          /\ parsed + OFFSET_SIZE + size = stream.start[i + 1]
      BY <2>1, <3>1, <3>2, <3>3, PacketSize DEF Packet
    <3>5. stream.start[i + 1] \in Nat /\ stream.start[i + 1] > parsed + OFFSET_SIZE
      BY <2>1, <2>2, <3>3, <3>4, FrontIs
    <3>6. size \in Int
      BY <2>1, <2>2, <3>1, <3>3, <3>5, SizeRead, ConnectionAssumption
    <3> QED
      BY <2>2, <3>1, <3>4, <3>5, <3>6 DEF Buffered
  <2> QED
    BY <2>3, <2>4, <2>5
<1> QED
  BY <1>1, Invariance, PTL DEF ConnectionSpec, NextAdvances
===============================================================================
