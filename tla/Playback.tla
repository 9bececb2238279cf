------------------------------ MODULE Playback ------------------------------
(***************************************************************************)
(* What the player promises to those who start and stop playbacks: its     *)
(* commands, and nextFileLoop.  Player, PlayDir and Server each keep a part *)
(* of server-play-nms.c in detail; all three implement this specification,  *)
(* which is what they have to agree on.                                    *)
(***************************************************************************)

VARIABLES
  phase,      \* closed; open: both plugins are; over: played, not yet stopped
  stopping,   \* somebody waits for the end of the playback
  paused      \* the output is held

vars == <<phase, stopping, paused>>

Init == phase = "closed" /\ ~stopping /\ ~paused

(* Only when the last playback has been stopped, and nobody is stopping one. *)
Play ==
  /\ phase = "closed" /\ ~stopping
  /\ phase' = "open"
  /\ UNCHANGED <<stopping, paused>>

PauseUnpause ==
  /\ phase = "open"
  /\ paused' = ~paused
  /\ UNCHANGED <<phase, stopping>>

(* At the end of the file or because of a stop: both plugins are closed     *)
(* together, once, and not while the output is held.                        *)
End ==
  /\ phase = "open"
  /\ phase' = "over" /\ paused' = FALSE
  /\ UNCHANGED stopping

Stop ==
  /\ ~stopping
  /\ stopping' = TRUE
  /\ UNCHANGED <<phase, paused>>

Stopped ==
  /\ stopping /\ phase # "open"
  /\ phase' = "closed" /\ stopping' = FALSE
  /\ UNCHANGED paused

Next == Play \/ PauseUnpause \/ End \/ Stop \/ Stopped

Spec == Init /\ [][Next]_vars

=============================================================================
