----------------------------- MODULE MCVitaServer -----------------------------
(***************************************************************************)
(* Instances of VitaServer for TLC.                                        *)
(***************************************************************************)
EXTENDS VitaServer, TLC

Symmetry == Permutations(Clients)

NoButtons == {{}}
PadButtons == {{}, {"CROSS"}}
ChordButtons == {{}, {"CROSS"}, {"SELECT", "START"}, {"UP", "START"}}
===============================================================================
