------------------------------ MODULE PlayDir ------------------------------
(***************************************************************************)
(* Playback of a directory by the media server: nextFileLoop, dirInit and   *)
(* the commands of server-play-nms.c that create and end them.             *)
(*                                                                         *)
(* Four threads share the player's statics under playMutex: the command    *)
(* thread cmd, avLoop (av), nextFileLoop (nx), which plays one file after  *)
(* the other, and dirInit (di), which lists the directory and ends.  A     *)
(* critical section is an action, with those next to it that no other      *)
(* thread can tell apart.  The while loops around pthread_cond_wait are    *)
(* guards: each write that makes one true is followed by a broadcast.      *)
(*                                                                         *)
(* avLoop is kept to how a playback ends and what it then asks for; pauses, *)
(* seeks and scans within a file, and the plugins apart, are in Player.  A *)
(* file need not come to its end here, nor an output that drains: either   *)
(* may be paused.                                                          *)
(***************************************************************************)
EXTENDS Integers

CONSTANTS
  Totals,        \* numbers of playable files a directory may hold
  RepeatModes,   \* modes SrvSetRepeatmode may give
  PlayModes      \* modes SrvSetPlaymode may give

AllRepeatModes == {"NORMAL", "REPEAT", "SHUFFLE"}
AllPlayModes == {"SINGLE", "FOLDER"}

ASSUME TotalsAssumption == Totals \subseteq Nat
ASSUME RepeatModesAssumption == RepeatModes \subseteq AllRepeatModes
ASSUME PlayModesAssumption == PlayModes \subseteq AllPlayModes

VARIABLES
  playing, going, requestToStopPlaying, playtype, errorStatus,
  halted,              \* nextFileLoop has set playState to STOPPED while avLoop runs
  repeat, playmode, trackChange, firstplay,
  dirInited, totalFiles, fileIdx,  \* the statics of those names
  av, quit,            \* avLoop: where it stands, loc_quit
  nx, index,           \* nextFileLoop: where it stands, its local; "dead": the server is
  di,                  \* dirInit: where it stands
  cmd, caller,         \* the command thread: where it stands, in which command
  status, isDir, tries, \* locals of SrvPlayDir; tries is idx, and totalFiles - cnt
  plugins              \* external: states of the input and the output plugin

playVars == <<playing, going, requestToStopPlaying, playtype, errorStatus>>
modeVars == <<repeat, playmode>>
nextVars == <<trackChange, firstplay>>
dirVars  == <<dirInited, totalFiles, fileIdx>>
avVars   == <<av, quit, halted>>
nxVars   == <<nx, index>>
cmdVars  == <<cmd, caller>>
tryVars  == <<status, isDir, tries>>

vars == <<playVars, modeVars, nextVars, dirVars, avVars, nxVars, di, cmdVars, tryVars, plugins>>

(* The server runs.                                                         *)
Up == nx # "dead"

-----------------------------------------------------------------------------
(* playFile, by the command thread and by nextFileLoop                      *)

(* Success: the plugins are opened and avLoop is created.                   *)
PlayFile ==
  /\ plugins' = IF plugins = "closed" THEN "open" ELSE "bad"
  /\ playing' = TRUE
  /\ trackChange' = "DISABLE"
  /\ av' = "run" /\ quit' = TRUE /\ halted' = FALSE
  /\ UNCHANGED <<going, requestToStopPlaying, playtype, firstplay>>

(* Failure: 1 when a plugin is locked, else -1, with an error recorded or not. *)
PlayFileFails(result) ==
  /\ errorStatus' \in IF result = 1 THEN {"OUTPUT_LOCKED"} ELSE {errorStatus, "NOT_PLAYABLE"}
  /\ UNCHANGED <<going, requestToStopPlaying, playtype, nextVars, avVars, plugins>>

-----------------------------------------------------------------------------
(* avLoop                                                                   *)

(* The end of the file is met.  While preloading, playing is cleared.       *)
AvEof ==
  /\ av = "run"
  /\ playing' \in {playing, playing /\ ~quit}
  /\ quit' = FALSE
  /\ av' = "restore"
  /\ UNCHANGED <<going, requestToStopPlaying, playtype, errorStatus, halted, modeVars,
                 nextVars, dirVars, nxVars, di, cmdVars, tryVars, plugins>>

(* Playback is stopped after the end of the file was met once: no quit.     *)
AvBail ==
  /\ av = "run" /\ ~playing /\ ~quit
  /\ av' = "restore"
  /\ UNCHANGED <<playVars, modeVars, nextVars, dirVars, quit, halted, nxVars, di, cmdVars,
                 tryVars, plugins>>

AvRestore ==
  /\ av = "restore"
  /\ playing' = TRUE
  /\ av' = "drain"
  /\ UNCHANGED <<going, requestToStopPlaying, playtype, errorStatus, modeVars, nextVars,
                 dirVars, quit, halted, nxVars, di, cmdVars, tryVars, plugins>>

(* While the output drains the user goes elsewhere in the file.             *)
AvBack ==
  /\ av = "drain" /\ playing
  /\ av' = "run"
  /\ UNCHANGED <<playVars, modeVars, nextVars, dirVars, quit, halted, nxVars, di, cmdVars,
                 tryVars, plugins>>

(* At the end of a file of a directory the next one is asked for, but in    *)
(* repeat mode not after an error.                                          *)
NextWanted ==
  /\ playtype = "DIR"
  /\ repeat = "REPEAT" => errorStatus # "NOT_PLAYABLE"

(* Mutation: the plugins are left open by a playback that is stopped.       *)
AvEndLeavesOpen(quits) ==
  /\ plugins' = IF quits THEN plugins ELSE "closed"
  /\ playing' = FALSE /\ quit' = quits
  /\ trackChange' = IF ~quits /\ NextWanted THEN "NORMAL" ELSE trackChange
  /\ av' = "done" /\ halted' = FALSE
  /\ UNCHANGED <<going, requestToStopPlaying, playtype, errorStatus, modeVars,
                 firstplay, dirVars, nxVars, di, cmdVars, tryVars>>

AvEnd(quits) ==
  /\ plugins' = IF plugins = "open" THEN "closed" ELSE "bad"
  /\ playing' = FALSE /\ quit' = quits
  /\ trackChange' = IF ~quits /\ NextWanted THEN "NORMAL" ELSE trackChange
  /\ av' = "done" /\ halted' = FALSE
  /\ UNCHANGED <<going, requestToStopPlaying, playtype, errorStatus, modeVars,
                 firstplay, dirVars, nxVars, di, cmdVars, tryVars>>

(* Playback is stopped, or avLoop finds that nextFileLoop is over.          *)
AvQuit ==
  /\ av = "run" /\ (halted \/ (~playing /\ quit))
  /\ AvEnd(TRUE)

(* The output has drained, or playback is stopped meanwhile.                *)
AvDrained == av = "drain" /\ AvEnd(FALSE)

-----------------------------------------------------------------------------
(* dirInit: the directory is listed.  Which file is the one playing is only *)
(* looked up while it plays, and need not be found: the list holds what the *)
(* names say is playable, and is the last one if the directory is not read. *)

DirInit ==
  /\ Up /\ di = "init"
  /\ totalFiles' \in Totals
  /\ fileIdx' \in IF playing THEN {i \in 0..totalFiles' : i < totalFiles' \/ i = 0} ELSE {fileIdx}
  /\ dirInited' = TRUE
  /\ di' = "done"
  /\ UNCHANGED <<playVars, modeVars, nextVars, avVars, nxVars, cmdVars, tryVars, plugins>>

-----------------------------------------------------------------------------
(* nextFileLoop                                                             *)

NextInited ==
  /\ nx = "init" /\ dirInited
  /\ firstplay' = fileIdx
  /\ nx' = "top"
  /\ UNCHANGED <<playVars, modeVars, trackChange, dirVars, avVars, index, di, cmdVars,
                 tryVars, plugins>>

NextTop ==
  /\ nx = "top"
  /\ nx' = IF going THEN "wait" ELSE "over"
  /\ UNCHANGED <<playVars, modeVars, nextVars, dirVars, avVars, index, di, cmdVars,
                 tryVars, plugins>>

NextWoken ==
  /\ nx = "wait" /\ trackChange # "DISABLE"
  /\ nx' = IF going THEN "index" ELSE "over"
  /\ UNCHANGED <<playVars, modeVars, nextVars, dirVars, avVars, index, di, cmdVars,
                 tryVars, plugins>>

(* Neighbours in the directory, which is a ring; fileIdx may lie outside.   *)
Neighbour ==
  LET moved == IF trackChange = "PREVIOUS" THEN fileIdx - 1 ELSE fileIdx + 1
  IN IF moved < 0 THEN totalFiles - 1 ELSE IF moved >= totalFiles THEN 0 ELSE moved

(* getNewIndex: the indices it may return; -1 when playback is over         *)
NewIndexes ==
  CASE repeat = "REPEAT" -> {fileIdx}
    [] repeat = "SHUFFLE" -> 0..(totalFiles - 1)
    [] playmode = "SINGLE" -> {-1}
    [] trackChange = "NORMAL" /\ Neighbour = firstplay -> {-1}
    [] OTHER -> {Neighbour}

(* "repeat once": in a directory without files a division by zero.          *)
NextDivides ==
  /\ nx = "index" /\ repeat = "SHUFFLE" /\ totalFiles = 0
  /\ nx' = "dead"
  /\ UNCHANGED <<playVars, modeVars, nextVars, dirVars, avVars, index, di, cmdVars, tryVars,
                 plugins>>

(* getNewIndex.  The user's track changes begin a new round.  fileIdx is    *)
(* assigned in the section after, which nobody else is in the way of.       *)
NextIndex ==
  /\ nx = "index"
  /\ index' \in NewIndexes
  /\ firstplay' = IF /\ repeat = "NORMAL" /\ playmode = "FOLDER"
                     /\ trackChange \in {"NEXT", "PREVIOUS"}
                  THEN index' ELSE firstplay
  /\ fileIdx' = IF index' < 0 THEN fileIdx ELSE index'
  /\ nx' = IF index' < totalFiles THEN "stop" ELSE "over"
  /\ UNCHANGED <<playVars, modeVars, trackChange, dirInited, totalFiles, avVars, di,
                 cmdVars, tryVars, plugins>>

(* stopPlaying, up to the join; a second caller would be turned away.       *)
NextStop ==
  /\ nx = "stop"
  /\ requestToStopPlaying' = TRUE
  /\ playing' = (playing /\ requestToStopPlaying)
  /\ nx' = IF ~requestToStopPlaying THEN "join" ELSE IF index < 0 THEN "over" ELSE "open"
  /\ UNCHANGED <<going, playtype, errorStatus, modeVars, nextVars, dirVars, avVars,
                 index, di, cmdVars, tryVars, plugins>>

NextJoin ==
  /\ nx = "join" /\ av \in {"none", "done"}
  /\ av' = "none" /\ requestToStopPlaying' = FALSE
  /\ nx' = IF index < 0 THEN "over" ELSE "open"
  /\ UNCHANGED <<playing, going, playtype, errorStatus, modeVars, nextVars, dirVars,
                 quit, halted, index, di, cmdVars, tryVars, plugins>>

NextPlay ==
  /\ nx = "open"
  /\ PlayFile
  /\ nx' = "opened"
  /\ UNCHANGED <<errorStatus, modeVars, dirVars, index, di, cmdVars, tryVars>>

(* A file that is locked ends it; another one is passed over.               *)
NextPlayFails(result) ==
  /\ nx = "open"
  /\ PlayFileFails(result)
  /\ nx' = IF result = 1 THEN "over" ELSE "top"
  /\ UNCHANGED <<playing, modeVars, dirVars, index, di, cmdVars, tryVars>>

(* playFile has succeeded, and trackChange is cleared once more.            *)
NextOpened ==
  /\ nx = "opened"
  /\ trackChange' = "DISABLE"
  /\ nx' = "top"
  /\ UNCHANGED <<playVars, modeVars, firstplay, dirVars, avVars, index, di, cmdVars,
                 tryVars, plugins>>

NextOver ==
  /\ nx = "over"
  /\ going' = FALSE
  /\ halted' = (errorStatus = "OK" /\ av \in {"run", "restore", "drain"})
  /\ nx' = "done"
  /\ UNCHANGED <<playing, requestToStopPlaying, playtype, errorStatus, modeVars, nextVars,
                 dirVars, av, quit, index, di, cmdVars, tryVars, plugins>>

-----------------------------------------------------------------------------
(* stopServer, with which SrvStop, SrvPlayFile and SrvPlayDir begin; when    *)
(* SrvPlayDir could play nothing it also ends with it ("cleanup").           *)

Called == Up /\ cmd = "idle"
Return == cmd' = "idle" /\ caller' = "none"

(* Mutation: nextFileLoop is told to end, and not woken to hear it.         *)
StopServerSilent(who) ==
  /\ going' = FALSE
  /\ UNCHANGED trackChange
  /\ cmd' = "joinNext" /\ caller' = who
  /\ UNCHANGED <<playing, requestToStopPlaying, playtype, errorStatus, modeVars,
                 firstplay, dirVars, avVars, nxVars, di, plugins>>

StopServer(who) ==
  /\ going' = FALSE
  /\ trackChange' = "NORMAL"
  /\ cmd' = "joinNext" /\ caller' = who
  /\ UNCHANGED <<playing, requestToStopPlaying, playtype, errorStatus, modeVars,
                 firstplay, dirVars, avVars, nxVars, di, plugins>>

SrvStop == Called /\ StopServer("SrvStop") /\ UNCHANGED tryVars
SrvPlayFile == Called /\ StopServer("SrvPlayFile") /\ UNCHANGED tryVars
SrvPlayDir == Called /\ StopServer("SrvPlayDir") /\ UNCHANGED tryVars

(* Mutation: nextFileLoop is not waited for.                                *)
JoinNextNoWait ==
  /\ cmd = "joinNext"
  /\ nx' = IF nx = "done" THEN "none" ELSE nx
  /\ cmd' = "joinInit"
  /\ UNCHANGED <<playVars, modeVars, nextVars, dirVars, avVars, index, di, caller,
                 tryVars, plugins>>

JoinNext ==
  /\ cmd = "joinNext" /\ nx \in {"none", "done"}
  /\ nx' = "none"
  /\ cmd' = "joinInit"
  /\ UNCHANGED <<playVars, modeVars, nextVars, dirVars, avVars, index, di, caller,
                 tryVars, plugins>>

(* dirInit is joined, and stopPlaying begins.                               *)
JoinInit ==
  /\ cmd = "joinInit" /\ di \in {"none", "done"}
  /\ di' = "none" /\ dirInited' = FALSE
  /\ requestToStopPlaying' = TRUE
  /\ playing' = (playing /\ requestToStopPlaying)
  /\ cmd' = IF requestToStopPlaying THEN "stopped" ELSE "joinAv"
  /\ UNCHANGED <<going, playtype, errorStatus, modeVars, nextVars, totalFiles, fileIdx,
                 avVars, nxVars, caller, tryVars, plugins>>

JoinAv ==
  /\ cmd = "joinAv" /\ av \in {"none", "done"}
  /\ av' = "none" /\ requestToStopPlaying' = FALSE
  /\ cmd' = "stopped"
  /\ UNCHANGED <<playing, going, playtype, errorStatus, modeVars, nextVars, dirVars,
                 quit, halted, nxVars, di, caller, tryVars, plugins>>

(* stopServer ends, and the command that called it goes on.                 *)
Stopped ==
  /\ cmd = "stopped"
  /\ trackChange' = "DISABLE"
  /\ CASE caller = "SrvStop" ->
            Return /\ errorStatus' = "STOPPED" /\ UNCHANGED <<going, playtype>>
       [] caller = "cleanup" ->
            Return /\ UNCHANGED <<going, playtype, errorStatus>>
       [] caller = "SrvPlayFile" ->
            /\ going' = TRUE /\ playtype' = "FILE" /\ cmd' = "open"
            /\ UNCHANGED <<caller, errorStatus>>
       [] caller = "SrvPlayDir" ->
            /\ going' = TRUE /\ playtype' = "DIR" /\ cmd' = "stat"
            /\ UNCHANGED <<caller, errorStatus>>
  /\ UNCHANGED <<playing, requestToStopPlaying, modeVars, firstplay, dirVars, avVars,
                 nxVars, di, tryVars, plugins>>

-----------------------------------------------------------------------------
(* SrvPlayFile, and SrvPlayDir of a file, which is played at once           *)

Open ==
  /\ cmd = "open"
  /\ PlayFile
  /\ status' = 0
  /\ cmd' = IF caller = "SrvPlayFile" THEN "opened" ELSE "create"
  /\ UNCHANGED <<errorStatus, modeVars, dirVars, nxVars, di, caller, isDir, tries>>

(* SrvPlayFile then calls stopPlaying, which finds nothing to stop.         *)
OpenFails(result) ==
  /\ cmd = "open"
  /\ PlayFileFails(result)
  /\ status' = result
  /\ IF caller = "SrvPlayFile" THEN Return ELSE cmd' = "create" /\ UNCHANGED caller
  /\ UNCHANGED <<playing, modeVars, dirVars, nxVars, di, isDir, tries>>

(* Both commands end well.                                                  *)
Opened ==
  /\ cmd = "opened"
  /\ errorStatus' = "OK" /\ halted' = FALSE
  /\ Return
  /\ UNCHANGED <<playing, going, requestToStopPlaying, playtype, modeVars, nextVars,
                 dirVars, av, quit, nxVars, di, tryVars, plugins>>

-----------------------------------------------------------------------------
(* SrvPlayDir, after stopServer                                             *)

Stat ==
  /\ cmd = "stat"
  /\ isDir' \in BOOLEAN
  /\ status' = -1
  /\ cmd' = IF isDir' THEN "create" ELSE "open"
  /\ UNCHANGED <<playVars, modeVars, nextVars, dirVars, avVars, nxVars, di, caller,
                 tries, plugins>>

(* There is no such file: the command ends, and going stays.                *)
StatFails ==
  /\ cmd = "stat"
  /\ Return
  /\ UNCHANGED <<playVars, modeVars, nextVars, dirVars, avVars, nxVars, di, tryVars,
                 plugins>>

(* The directory cannot be looked at.                                       *)
CreateStatFails ==
  /\ cmd = "create"
  /\ errorStatus' = "NOT_PLAYABLE"
  /\ Return
  /\ UNCHANGED <<playing, going, requestToStopPlaying, playtype, modeVars, nextVars,
                 dirVars, avVars, nxVars, di, tryVars, plugins>>

(* nextFileLoop, which waits for it, and dirInit are created; the command is *)
(* done if the file plays, or gives up if it is the one file to be played.  *)
Create ==
  /\ cmd = "create"
  /\ nx' = "init" /\ di' = "init"
  /\ cmd' = IF status = 0 THEN "opened"
            ELSE IF repeat = "REPEAT" /\ ~isDir THEN "giveUp" ELSE "waitInit"
  /\ UNCHANGED <<playVars, modeVars, nextVars, dirVars, avVars, index, caller, tryVars,
                 plugins>>

WaitInit ==
  /\ cmd = "waitInit" /\ dirInited
  /\ fileIdx' = 0 /\ tries' = 0
  /\ cmd' = "try"
  /\ UNCHANGED <<playVars, modeVars, nextVars, dirInited, totalFiles, avVars, nxVars,
                 di, caller, status, isDir, plugins>>

(* Each file is tried until one plays.                                      *)
TryFile ==
  /\ cmd = "try" /\ tries < totalFiles
  /\ PlayFile
  /\ status' = 0
  /\ cmd' = "tried"
  /\ UNCHANGED <<errorStatus, modeVars, dirVars, nxVars, di, caller, isDir, tries>>

TryFileFails(result) ==
  /\ cmd = "try" /\ tries < totalFiles
  /\ PlayFileFails(result)
  /\ status' = result
  /\ tries' = tries + 1 /\ fileIdx' = fileIdx + 1
  /\ UNCHANGED <<playing, modeVars, dirInited, totalFiles, nxVars, di, cmdVars, isDir>>

(* The loop ends: cnt is 0 after the last file too, when that one plays.    *)
Tried ==
  /\ cmd = "tried" \/ (cmd = "try" /\ tries = totalFiles)
  /\ errorStatus' = IF tries >= totalFiles - 1 THEN "NOT_PLAYABLE" ELSE errorStatus
  /\ cmd' = IF status = 0 THEN "opened" ELSE "giveUp"
  /\ UNCHANGED <<playing, going, requestToStopPlaying, playtype, modeVars, nextVars,
                 dirVars, avVars, nxVars, di, caller, tryVars, plugins>>

GiveUp == cmd = "giveUp" /\ StopServer("cleanup") /\ UNCHANGED tryVars

-----------------------------------------------------------------------------
(* The other commands                                                       *)

(* SrvTrackChange, of a directory that is being played, to the next or the  *)
(* previous file: two sections.  Otherwise it is SrvSeek or one of the above. *)
SrvTrackChange ==
  /\ Called /\ going /\ playtype = "DIR"
  /\ cmd' = "track" /\ caller' = "SrvTrackChange"
  /\ UNCHANGED <<playVars, modeVars, nextVars, dirVars, avVars, nxVars, di, tryVars,
                 plugins>>

TrackChange ==
  /\ cmd = "track"
  /\ trackChange' \in {"NEXT", "PREVIOUS"}
  /\ Return
  /\ UNCHANGED <<playVars, modeVars, firstplay, dirVars, avVars, nxVars, di, tryVars,
                 plugins>>

SrvSetRepeatmode(mode) ==
  /\ Called
  /\ repeat' = mode
  /\ UNCHANGED <<playVars, playmode, nextVars, dirVars, avVars, nxVars, di, cmdVars,
                 tryVars, plugins>>

SrvSetPlaymode(mode) ==
  /\ Called
  /\ playmode' = mode
  /\ UNCHANGED <<playVars, repeat, nextVars, dirVars, avVars, nxVars, di, cmdVars,
                 tryVars, plugins>>

-----------------------------------------------------------------------------
(* The static initialisers                                                  *)
Init ==
  /\ playing = FALSE /\ going = FALSE /\ requestToStopPlaying = FALSE
  /\ playtype = "FILE" /\ errorStatus = "OK"
  /\ repeat = "REPEAT" /\ playmode = "SINGLE" /\ trackChange = "DISABLE" /\ firstplay = 0
  /\ dirInited = FALSE /\ totalFiles = 0 /\ fileIdx = 0
  /\ av = "none" /\ quit = TRUE /\ halted = FALSE
  /\ nx = "none" /\ index = 0 /\ di = "none"
  /\ cmd = "idle" /\ caller = "none" /\ status = -1 /\ isDir = FALSE /\ tries = 0
  /\ plugins = "closed"

AvThread == Up /\ (AvEof \/ AvBail \/ AvRestore \/ AvBack \/ AvQuit \/ AvDrained)

NextThread ==
  \/ NextInited \/ NextTop \/ NextWoken \/ NextIndex \/ NextDivides \/ NextStop \/ NextJoin
  \/ NextPlay \/ (\E result \in {-1, 1} : NextPlayFails(result))
  \/ NextOpened \/ NextOver

Continue ==
  /\ Up
  /\ \/ JoinNext \/ JoinInit \/ JoinAv \/ Stopped
     \/ Open \/ (\E result \in {-1, 1} : OpenFails(result)) \/ Opened
     \/ Stat \/ StatFails \/ CreateStatFails \/ Create \/ WaitInit
     \/ TryFile \/ (\E result \in {-1, 1} : TryFileFails(result)) \/ Tried \/ GiveUp
     \/ TrackChange

Call ==
  \/ SrvStop \/ SrvPlayFile \/ SrvPlayDir \/ SrvTrackChange
  \/ \E mode \in RepeatModes : SrvSetRepeatmode(mode)
  \/ \E mode \in PlayModes : SrvSetPlaymode(mode)

Next == AvThread \/ DirInit \/ NextThread \/ Continue \/ Call

(* What avLoop does of itself: it obeys a stop, and restores the flag.  Not  *)
(* that a file or a draining output comes to its end, which a pause defers. *)
AvObeys == AvThread /\ (~playing \/ av = "restore")

(* Threads that are not blocked run.  Nobody has to give a command.         *)
Fairness == WF_vars(AvObeys) /\ WF_vars(DirInit) /\ WF_vars(NextThread) /\ WF_vars(Continue)

Spec == Init /\ [][Next]_vars /\ Fairness

-----------------------------------------------------------------------------
(* Properties                                                               *)

FlagTypes ==
  /\ playing \in BOOLEAN /\ going \in BOOLEAN /\ requestToStopPlaying \in BOOLEAN
  /\ dirInited \in BOOLEAN /\ quit \in BOOLEAN /\ isDir \in BOOLEAN /\ halted \in BOOLEAN

StaticTypes ==
  /\ playtype \in {"FILE", "DIR"}
  /\ errorStatus \in {"OK", "NOT_PLAYABLE", "OUTPUT_LOCKED", "STOPPED"}
  /\ repeat \in AllRepeatModes /\ playmode \in AllPlayModes
  /\ trackChange \in {"DISABLE", "NORMAL", "NEXT", "PREVIOUS"}
  /\ firstplay \in Int /\ index \in Int /\ fileIdx \in Nat /\ totalFiles \in Nat
  /\ av \in {"none", "run", "restore", "drain", "done"} /\ di \in {"none", "init", "done"}
  /\ nx \in {"none", "init", "top", "wait", "index", "stop", "join", "open", "opened",
             "over", "done", "dead"}
  /\ cmd \in {"idle", "joinNext", "joinInit", "joinAv", "stopped", "open", "opened", "stat",
              "create", "waitInit", "try", "tried", "giveUp", "track"}
  /\ status \in {-1, 0, 1} /\ tries \in Nat /\ plugins \in {"closed", "open", "bad"}

OneStopper == requestToStopPlaying <=> (nx = "join" \/ cmd = "joinAv")

(* The statics and the threads keep their types; whoever stops a playback   *)
(* is the only one to do so.                                                *)
TypeOK == FlagTypes /\ StaticTypes /\ OneStopper

(* One playback at a time: the command thread and nextFileLoop both play    *)
(* files, and neither ever opens plugins the other has open, nor is a       *)
(* playback finished twice.                                                 *)
PluginProtocol == plugins # "bad"

(* When stopServer is over no thread is left and nothing plays, and a        *)
(* playback that follows begins with no track change left from the last one. *)
StoppedIsStopped ==
  cmd \in {"stopped", "stat", "open"} =>
    /\ av = "none" /\ nx = "none" /\ di = "none"
    /\ ~playing /\ ~dirInited /\ plugins = "closed"
    /\ going <=> cmd # "stopped"
    /\ cmd # "stopped" => trackChange = "DISABLE"

(* avLoop has set the playback flag again after somebody cleared it to stop *)
(* the playback, and now drains its output, or plays on, as if nobody had.  *)
Overwritten == playing /\ requestToStopPlaying

(* A command that stops the server gets through all three joins: wherever   *)
(* nextFileLoop and avLoop stand they learn that they have to end, and the  *)
(* one that waits for the other is not waited for in vain.  Except that a   *)
(* stop which avLoop overwrites may be waited for as long as a pause lasts. *)
StopReturns == cmd = "joinNext" ~> cmd = "stopped" \/ Overwritten \/ ~Up

Phase ==
  CASE av = "none" /\ plugins = "closed" -> "closed"
    [] av # "none" /\ plugins = "open" -> "open"
    [] av # "none" /\ plugins = "closed" -> "over"
    [] OTHER -> "broken"

(* The command thread and nextFileLoop stop and start playbacks through one *)
(* avThread and one requestToStopPlaying; still each playback is the one of *)
(* the specification that Player implements, where avLoop is in full.       *)
Abstract == INSTANCE Playback
              WITH phase <- Phase, stopping <- requestToStopPlaying, paused <- FALSE
ImplementsPlayback == Abstract!Spec

(* "thread to automatically fetch next file to play": after the end of a    *)
(* file of a directory the next is played, or playback of the directory     *)
(* ends, if no file is played in repeat mode, which gives up after an error. *)
DirectoryGoesOn ==
  [](av # "none" => repeat # "REPEAT") =>
    (av = "done" /\ ~quit /\ nx # "none" ~> av # "done" \/ nx \in {"none", "done", "dead"})

=============================================================================
