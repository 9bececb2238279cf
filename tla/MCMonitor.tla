----------------------------- MODULE MCMonitor -----------------------------
(* Small instances of Monitor for TLC.                                      *)
EXTENDS Monitor

CONSTANTS p1, p2

TwoPids == {p1, p2}
OnePid == {p1}
BothModes == Modes
AllFaults == Steps
NoFault == {}
=============================================================================
