------------------------------- MODULE MCDevices ------------------------------
(***************************************************************************)
(* An instance of Devices for TLC: two fingers, places on and off the      *)
(* border of the zones, and a rear panel with fewer slots than touches.    *)
(***************************************************************************)
EXTENDS Devices

BorderCornerAndBelow ==
  {<<"left", "top">>, <<"middle", "middle">>, <<"right", "below">>}
BorderAndCorner == {<<"left", "top">>, <<"middle", "middle">>}
FewSlots == [front |-> 2, rear |-> 1]
===============================================================================
