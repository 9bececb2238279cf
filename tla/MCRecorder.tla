----------------------------- MODULE MCRecorder -----------------------------
(* Small instances of Recorder for TLC.                                     *)
EXTENDS Recorder

AllMedias == (SUBSET Streams) \ {{}}
PictureOnly == {{"video"}}
NoFault == {}
(* Frames of each stream: in a recording of one, enough for two pauses.     *)
Frames == [m \in SUBSET Streams |-> IF m = {"video"} THEN 4 ELSE 3]
=============================================================================
