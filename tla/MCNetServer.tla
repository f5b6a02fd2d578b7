------------------------------ MODULE MCNetServer -----------------------------
(***************************************************************************)
(* Instances of NetServer for TLC.  The PCs are interchangeable, so the    *)
(* safety runs may use their symmetry.                                     *)
(***************************************************************************)
EXTENDS NetServer, TLC

Symmetry == Permutations(Clients)

NoButtons == {{}}
===============================================================================
