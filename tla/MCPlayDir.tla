----------------------------- MODULE MCPlayDir -----------------------------
(* Small instances of PlayDir for TLC.                                      *)
EXTENDS PlayDir

(* An empty directory, and the smallest one in which files follow each other. *)
SmallTotals == {0, 2}
TwoFiles == {2}
NormalMode == {"NORMAL"}
FolderMode == {"FOLDER"}
=============================================================================
