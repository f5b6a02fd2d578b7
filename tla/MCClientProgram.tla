--------------------------- MODULE MCClientProgram ----------------------------
(***************************************************************************)
(* An instance of ClientProgram for TLC: a period of a second or two of    *)
(* two ticks each, and a margin that the delays use up.                    *)
(***************************************************************************)
EXTENDS ClientProgram
===============================================================================
