------------------------------ MODULE MCPlayer ------------------------------
(* Small instances of Player for TLC.                                       *)
EXTENDS Player

NoFault == {}
=============================================================================
