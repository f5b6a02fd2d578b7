------------------------------- MODULE MCConsole ------------------------------
(***************************************************************************)
(* Instances of Console for TLC: no PC, every combination of the buttons.  *)
(***************************************************************************)
EXTENDS Console

AllButtons == SUBSET Button
===============================================================================
