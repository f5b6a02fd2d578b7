----------------------------- MODULE SessionSlot ------------------------------
(***************************************************************************)
(* What a server with one session slot and its PCs promise each other, and *)
(* no more: a connection is queued, then held or turned away; one is held  *)
(* at a time; a PC is answered once it has shaken hands, while it is held; *)
(* only then does it configure anything, and only then is pad data sent to *)
(* it.  NetServer implements it from the server's side, with real sockets, *)
(* and ClientProgram from the side of one PC.                              *)
(***************************************************************************)
CONSTANTS Clients, None

VARIABLES
  conn,      \* conn[c]: the server's end of the connection of c
  said,      \* said[c]: which of Handshake and Config c has sent
  answered,  \* the PCs whose handshake was answered
  target     \* the PC that the last pad data went to, or None

slotVars == <<conn, said, answered, target>>

SlotTypeOK ==
  /\ conn \in [Clients -> {"none", "backlog", "open", "closed"}]
  /\ said \in [Clients -> SUBSET {"Handshake", "Config"}]
  /\ answered \subseteq Clients
  /\ target \in Clients \cup {None}

SlotInit ==
  /\ conn = [c \in Clients |-> "none"]
  /\ said = [c \in Clients |-> {}]
  /\ answered = {}
  /\ target = None

Free == \A c \in Clients : conn[c] # "open"

Queue(c) ==
  /\ conn[c] = "none"
  /\ conn' = [conn EXCEPT ![c] = "backlog"]
  /\ UNCHANGED <<said, answered, target>>

Hold(c) ==
  /\ Free
  /\ conn[c] = "backlog"
  /\ conn' = [conn EXCEPT ![c] = "open"]
  /\ UNCHANGED <<said, answered, target>>

\* A queued connection is turned away, a held one ends.
End(c) ==
  /\ conn[c] \in {"backlog", "open"}
  /\ conn' = [conn EXCEPT ![c] = "closed"]
  /\ UNCHANGED <<said, answered, target>>

Say(c, m) ==
  /\ conn[c] # "none"
  /\ m \notin said[c]
  /\ m = "Config" => c \in answered
  /\ said' = [said EXCEPT ![c] = @ \cup {m}]
  /\ UNCHANGED <<conn, answered, target>>

Answer(c) ==
  /\ conn[c] = "open"
  /\ "Handshake" \in said[c]
  /\ answered' = answered \cup {c}
  /\ UNCHANGED <<conn, said, target>>

\* Pad data may still follow a PC that has just been dropped.
Push ==
  /\ target' \in answered \cup {None}
  /\ UNCHANGED <<conn, said, answered>>

SlotNext ==
  \/ Push
  \/ \E c \in Clients :
       \/ Queue(c) \/ Hold(c) \/ End(c) \/ Answer(c)
       \/ \E m \in {"Handshake", "Config"} : Say(c, m)

SlotSpec == SlotInit /\ [][SlotNext]_slotVars

-------------------------------------------------------------------------------
\* What follows from the promises, and so of every implementation: one PC is held at
\* a time; who was answered was held and had shaken hands; only such a PC has
\* configured anything, and only to such a PC has pad data gone.
SlotKept ==
  /\ \A c, d \in Clients : conn[c] = "open" /\ conn[d] = "open" => c = d
  /\ \A c \in answered : conn[c] \in {"open", "closed"} /\ "Handshake" \in said[c]
  /\ \A c \in Clients : "Config" \in said[c] => c \in answered
  /\ target \in answered \cup {None}
===============================================================================
